---------------------------- MODULE MessagesProofs ---------------------------
(***************************************************************************)
(* Proofs about Messages: for any nodes, messages, clocks, time to live,   *)
(* lag and bounds.                                                         *)
(***************************************************************************)
EXTENDS Messages, FiniteSetTheorems, WellFoundedInduction, TLAPS

\* What is kept is finite, so that it can be counted.
Finite ==
    /\ \A n \in Node : IsFiniteSet(dedup[n])
    /\ IsFiniteSet(net) /\ IsFiniteSet(encoded) /\ IsFiniteSet(published)

\* Every signature on its way was made by a node that encoded its message.
Signed == \A pkt \in net : \E y \in encoded :
              pkt.body.signature = signing_input(y.node, y.id)

\* A publication is one of the calls made so far, and messages_published
\* counts them.
Counted ==
    /\ \A x \in published : x.call < calls[x.node]
    /\ \A n \in Node : stats[n].messages_published =
                           Cardinality({x \in published : x.node = n})

\* A publication was made with a reading of its time, and its entry is in the
\* cache until the node's clock has left its time to live.
Remembered ==
    \A x \in published :
        /\ x.when <= now
        /\ x.when + Skew[x.node] - Lag <= x.at
        /\ \/ [id |-> x.id, at |-> x.at] \in dedup[x.node]
           \/ Clock(x.node) - x.at > DedupTtl

\* Publications of one message are apart.
Spaced ==
    \A x, y \in published :
        x.node = y.node /\ x.id = y.id /\ x.call < y.call
            => y.when - x.when > DedupTtl - Lag

\* In its time to live no ack of a publication is taken away.
AcksKept ==
    \A x \in published :
        Clock(x.node) - x.at <= DedupTtl => acked[x.node][x.id] \subseteq acks[x.node][x.id]

\* The inductive invariant.
MInv == /\ TypeOK /\ Finite /\ Signed /\ AcceptedAuthentic
        /\ Counted /\ Remembered /\ Spaced /\ AcksKept

-----------------------------------------------------------------------------
(* Readings, caches and counters *)

\* A reading is a number that is at most Lag behind the clock.
LEMMA ReadingBounds ==
    ASSUME now \in Nat, NEW n \in Node, NEW t \in Readings(n)
    PROVE  t \in Nat /\ t <= Clock(n) /\ Clock(n) - Lag <= t
  BY MessageAssumption DEF Readings, Clock, saturating_sub

\* An eviction with a reading takes away only what the clock has expired too.
LEMMA EvictionBound ==
    ASSUME now \in Nat, NEW n \in Node, NEW t \in Readings(n), NEW e \in dedup[n],
           e.at \in Nat, e \notin evict_expired(n, t)
    PROVE  Clock(n) - e.at > DedupTtl
<1>1. t \in Nat /\ t <= Clock(n)  BY ReadingBounds
<1>2. t > e.at /\ t - e.at > DedupTtl
  BY <1>1, MessageAssumption DEF evict_expired, saturating_sub
<1> QED  BY <1>1, <1>2, MessageAssumption DEF Clock

\* The finite cache of entries that an eviction and an insertion leave.
LEMMA CacheTypes ==
    ASSUME TypeOK, Finite, NEW n \in Node, NEW m \in Message, NEW t \in Nat
    PROVE  /\ evict_expired(n, t) \in SUBSET Entry /\ IsFiniteSet(evict_expired(n, t))
           /\ Inserted(n, m, t) \in SUBSET Entry /\ IsFiniteSet(Inserted(n, m, t))
           /\ Cardinality(evict_expired(n, t)) \in Nat
<1>1. dedup[n] \in SUBSET Entry /\ IsFiniteSet(dedup[n])
  BY DEF TypeOK, Finite
<1>2. evict_expired(n, t) \in SUBSET dedup[n]
  BY DEF evict_expired
<1>3. IsFiniteSet(evict_expired(n, t))
  BY <1>1, <1>2, FS_Subset
<1>4. Cardinality(evict_expired(n, t)) \in Nat
  BY <1>3, FS_CardinalityType
<1>5. Inserted(n, m, t) \in SUBSET Entry
  BY <1>1, <1>2 DEF Inserted, Entry
<1>6. IsFiniteSet(Inserted(n, m, t))
  BY <1>3, FS_AddElement DEF Inserted
<1> QED  BY <1>1, <1>2, <1>3, <1>4, <1>5, <1>6

\* A cache that is replaced by one made of it stays finite and typed.
LEMMA CacheStep ==
    ASSUME TypeOK, Finite, NEW n \in Node, NEW C \in SUBSET Entry, IsFiniteSet(C),
           dedup' = [dedup EXCEPT ![n] = C]
    PROVE  /\ dedup' \in [Node -> SUBSET Entry]
           /\ \A k \in Node : IsFiniteSet(dedup'[k])
<1>1. dedup \in [Node -> SUBSET Entry]  BY DEF TypeOK
<1>2. \A k \in Node : dedup'[k] = IF k = n THEN C ELSE dedup[k]
  BY <1>1
<1> QED  BY <1>1, <1>2 DEF Finite

\* Counters stay counters, and only those of one node change.
LEMMA CountStep ==
    ASSUME TypeOK, NEW n \in Node, NEW pub \in Nat, NEW recv \in Nat, NEW dup \in Nat,
           NEW drop \in Nat, stats' = Count(n, pub, recv, dup, drop)
    PROVE  /\ stats' \in [Node -> MessageStats]
           /\ \A k \in Node : stats'[k].messages_published =
                 IF k = n THEN stats[k].messages_published + pub
                          ELSE stats[k].messages_published
           /\ \A k \in Node : stats'[k].messages_received =
                 IF k = n THEN stats[k].messages_received + recv
                          ELSE stats[k].messages_received
<1>1. stats \in [Node -> MessageStats]  BY DEF TypeOK
<1> DEFINE new == [messages_published |-> stats[n].messages_published + pub,
                   messages_received |-> stats[n].messages_received + recv,
                   messages_deduplicated |-> stats[n].messages_deduplicated + dup,
                   messages_dropped |-> stats[n].messages_dropped + drop,
                   dedup_cache_size |-> stats[n].dedup_cache_size]
<1>2. stats' = [stats EXCEPT ![n] = new]
  BY DEF Count
<1>3. new \in MessageStats
  BY <1>1 DEF MessageStats
<1>4. \A k \in Node : stats'[k] = IF k = n THEN new ELSE stats[k]
  BY <1>1, <1>2
<1>5. /\ new.messages_published = stats[n].messages_published + pub
      /\ new.messages_received = stats[n].messages_received + recv
  OBVIOUS
<1> HIDE DEF new
<1> QED  BY <1>1, <1>2, <1>3, <1>4, <1>5

\* A broadcast is finite, and one of an envelope is of packets.
LEMMA BroadcastType ==
    ASSUME NEW n \in Node, NEW env \in GossipEnvelope
    PROVE  Broadcast(n, env) \in SUBSET Packet /\ IsFiniteSet(Broadcast(n, env))
<1>1. Broadcast(n, env) \in SUBSET Packet
  BY DEF Broadcast, Packet
<1>2. IsFiniteSet(Node \ {n})
  BY MessageAssumption, FS_Difference
<1> DEFINE f == [p \in Node \ {n} |-> [to |-> p, body |-> env]]
<1>3. f \in Surjection(Node \ {n}, Broadcast(n, env))
  BY DEF Broadcast, Surjection
<1>4. IsFiniteSet(Broadcast(n, env))
  BY <1>2, <1>3, FS_Surjection
<1> QED  BY <1>1, <1>4

\* What is built or forwarded is an envelope.
LEMMA BuiltType ==
    ASSUME NEW n \in Node, NEW m \in Message, NEW t \in Nat
    PROVE  build_envelope(n, m, t) \in GossipEnvelope
  BY MessageAssumption DEF build_envelope, signing_input, GossipEnvelope, Signature

LEMMA ForwardedType ==
    ASSUME NEW env \in GossipEnvelope
    PROVE  Forwarded(env) \in GossipEnvelope
<1>1. saturating_sub(env.ttl, 1) \in Nat
  BY DEF saturating_sub, GossipEnvelope
<1> QED  BY <1>1 DEF Forwarded, GossipEnvelope

\* How many envelopes a node has encoded is a number.
LEMMA EncodesType ==
    ASSUME Finite, NEW n
    PROVE  Encodes(n) \in Nat
<1>1. {x \in encoded : x.node = n} \in SUBSET encoded
  OBVIOUS
<1> QED  BY <1>1, FS_Subset, FS_CardinalityType DEF Encodes, Finite

-----------------------------------------------------------------------------
(* Types: a step for each action *)

\* The three outcomes of gossip_publish.
LEMMA PublishTypes ==
    ASSUME TypeOK, Finite, NEW n \in Node, NEW m \in Message, NEW t \in Readings(n),
           Publish(n, m, t) \/ PublishDuplicate(n, m, t) \/ PublishUnsigned(n, m, t)
    PROVE  TypeOK' /\ Finite'
<1>1. t \in Nat  BY ReadingBounds DEF TypeOK
<1>2. PICK C \in SUBSET Entry : IsFiniteSet(C) /\ dedup' = [dedup EXCEPT ![n] = C]
  BY <1>1, CacheTypes DEF Publish, PublishDuplicate, PublishUnsigned
<1>3. /\ dedup' \in [Node -> SUBSET Entry]
      /\ \A k \in Node : IsFiniteSet(dedup'[k])
  BY <1>2, CacheStep
<1>4. calls' \in [Node -> Nat]
  BY DEF TypeOK, Publish, PublishDuplicate, PublishUnsigned
<1>5. stats' \in [Node -> MessageStats]
  <2>1. CASE Publish(n, m, t)
    BY <2>1, CountStep DEF Publish
  <2>2. CASE PublishDuplicate(n, m, t)
    BY <2>2, CountStep DEF PublishDuplicate
  <2>3. CASE PublishUnsigned(n, m, t)
    BY <2>3 DEF PublishUnsigned, TypeOK
  <2> QED  BY <2>1, <2>2, <2>3
<1>6. published' \in SUBSET Publication /\ IsFiniteSet(published')
  <2>1. CASE Publish(n, m, t)
    <3> DEFINE new == [node |-> n, id |-> m, at |-> t, when |-> now, call |-> calls[n]]
    <3>1. new \in Publication
      BY <1>1 DEF Publication, TypeOK
    <3>2. published' = published \cup {new}
      BY <2>1 DEF Publish
    <3> HIDE DEF new
    <3> QED  BY <3>1, <3>2, FS_AddElement DEF TypeOK, Finite
  <2>2. CASE published' = published
    BY <2>2 DEF TypeOK, Finite
  <2> QED  BY <2>1, <2>2 DEF PublishDuplicate, PublishUnsigned
<1>7. acked' \in [Node -> [Message -> SUBSET Acker]]
  <2>1. CASE Publish(n, m, t)
    BY <2>1 DEF TypeOK, Publish
  <2>2. CASE acked' = acked
    BY <2>2 DEF TypeOK
  <2> QED  BY <2>1, <2>2 DEF PublishDuplicate, PublishUnsigned
<1>8. UNCHANGED <<acks, net, now, encoded, accepted, repeated>>
  BY DEF Publish, PublishDuplicate, PublishUnsigned
<1> QED  BY <1>3, <1>4, <1>5, <1>6, <1>7, <1>8 DEF TypeOK, Finite

LEMMA EncodeTypes ==
    ASSUME TypeOK, Finite, NEW n \in Node, NEW m \in Message, NEW t \in Readings(n),
           EncodeEnvelope(n, m, t)
    PROVE  TypeOK' /\ Finite'
<1>1. t \in Nat  BY ReadingBounds DEF TypeOK
<1>2. build_envelope(n, m, t) \in GossipEnvelope
  BY <1>1, BuiltType
<1>3. net' \in SUBSET Packet /\ IsFiniteSet(net')
  BY <1>2, BroadcastType, FS_Union DEF EncodeEnvelope, TypeOK, Finite
<1> DEFINE new == [node |-> n, id |-> m, nr |-> Encodes(n)]
<1>4. new \in Encoding
  BY EncodesType DEF Encoding
<1>5. encoded' = encoded \cup {new}
  BY DEF EncodeEnvelope
<1> HIDE DEF new
<1>6. encoded' \in SUBSET Encoding /\ IsFiniteSet(encoded')
  BY <1>4, <1>5, FS_AddElement DEF TypeOK, Finite
<1> QED  BY <1>3, <1>6 DEF EncodeEnvelope, TypeOK, Finite

LEMMA AckTypes ==
    ASSUME TypeOK, Finite, NEW n \in Node, NEW m \in Message, NEW p \in Acker,
           RecordAck(n, m, p)
    PROVE  TypeOK' /\ Finite'
<1>1. acks' \in [Node -> [Message -> SUBSET Acker]]
  BY DEF RecordAck, TypeOK
<1>2. acked' \in [Node -> [Message -> SUBSET Acker]]
  BY DEF RecordAck, TypeOK
<1> QED  BY <1>1, <1>2 DEF RecordAck, TypeOK, Finite

LEMMA VerifyTypes ==
    ASSUME TypeOK, Finite, NEW pkt \in net, NEW t \in Readings(pkt.to),
           VerifyEnvelope(pkt, t)
    PROVE  TypeOK' /\ Finite'
<1>1. pkt.to \in Node /\ pkt.body \in GossipEnvelope
  BY DEF TypeOK, Packet
<1>2. t \in Nat  BY <1>1, ReadingBounds DEF TypeOK
<1>3. stats' \in [Node -> MessageStats]
  BY <1>1, CountStep DEF VerifyEnvelope
<1>4. PICK forward \in {{}, Broadcast(pkt.to, Forwarded(pkt.body))} :
          net' = (net \ {pkt}) \cup forward
  BY DEF VerifyEnvelope
<1>5. forward \in SUBSET Packet /\ IsFiniteSet(forward)
  <2>1. Forwarded(pkt.body) \in GossipEnvelope
    BY <1>1, ForwardedType
  <2> QED  BY <1>1, <2>1, BroadcastType, FS_EmptySet
<1>6. net' \in SUBSET Packet /\ IsFiniteSet(net')
  BY <1>4, <1>5, FS_RemoveElement, FS_Union DEF TypeOK, Finite
<1>7. accepted' \in SUBSET Acceptance
  BY <1>1, <1>2 DEF VerifyEnvelope, TypeOK, Acceptance
<1>8. repeated' \in SUBSET (Node \X Message)
  <2>1. pkt.body.payload \in Message
    BY <1>1 DEF GossipEnvelope
  <2> QED  BY <1>1, <2>1 DEF VerifyEnvelope, TypeOK
<1>9. UNCHANGED <<dedup, acks, now, calls, encoded, published, acked>>
  BY DEF VerifyEnvelope
<1> QED  BY <1>3, <1>6, <1>7, <1>8, <1>9 DEF TypeOK, Finite

LEMMA DropTypes ==
    ASSUME TypeOK, Finite, NEW pkt \in net, NEW t, DropEnvelope(pkt, t)
    PROVE  TypeOK' /\ Finite'
<1>1. pkt.to \in Node
  BY DEF TypeOK, Packet
<1>2. stats' \in [Node -> MessageStats]
  BY <1>1, CountStep DEF DropEnvelope
<1>3. net' \in SUBSET Packet /\ IsFiniteSet(net')
  BY FS_RemoveElement DEF DropEnvelope, TypeOK, Finite
<1> QED  BY <1>2, <1>3 DEF DropEnvelope, TypeOK, Finite

\* A damaged packet is a packet with the signature it had.
LEMMA DamagedPacket ==
    ASSUME TypeOK, NEW pkt \in net, Damage(pkt)
    PROVE  \E q \in Packet : /\ net' = (net \ {pkt}) \cup {q}
                             /\ q.body.signature = pkt.body.signature
                             /\ q.body.ttl = pkt.body.ttl
<1>1. PICK id \in Message, payload \in Message, timestamp \in 0 .. MaxTime :
          net' = (net \ {pkt}) \cup
              {[to |-> pkt.to, body |->
                  [message_id |-> id, payload |-> payload,
                   sender_public_key |-> pkt.body.sender_public_key,
                   signature |-> pkt.body.signature,
                   timestamp |-> timestamp, ttl |-> pkt.body.ttl]]}
  BY DEF Damage
<1> DEFINE body == [message_id |-> id, payload |-> payload,
                    sender_public_key |-> pkt.body.sender_public_key,
                    signature |-> pkt.body.signature,
                    timestamp |-> timestamp, ttl |-> pkt.body.ttl]
           q == [to |-> pkt.to, body |-> body]
<1>2. pkt.to \in Node /\ pkt.body \in GossipEnvelope /\ timestamp \in Nat
  BY MessageBoundAssumption DEF TypeOK, Packet
<1>3. body \in GossipEnvelope
  BY <1>2 DEF GossipEnvelope
<1>4. q \in Packet /\ q.body.signature = pkt.body.signature /\ q.body.ttl = pkt.body.ttl
  BY <1>2, <1>3 DEF Packet
<1> QED  BY <1>1, <1>4

LEMMA DamageTypes ==
    ASSUME TypeOK, Finite, NEW pkt \in net, Damage(pkt)
    PROVE  TypeOK' /\ Finite'
<1>1. PICK q \in Packet : net' = (net \ {pkt}) \cup {q}
  BY DamagedPacket
<1>2. net' \in SUBSET Packet /\ IsFiniteSet(net')
  BY <1>1, FS_RemoveElement, FS_AddElement DEF TypeOK, Finite
<1> QED  BY <1>2 DEF Damage, TypeOK, Finite

LEMMA HeartbeatTypes ==
    ASSUME TypeOK, Finite, NEW n \in Node, NEW t \in Readings(n), Heartbeat(n, t)
    PROVE  TypeOK' /\ Finite'
<1>1. t \in Nat  BY ReadingBounds DEF TypeOK
<1>2. /\ evict_expired(n, t) \in SUBSET Entry /\ IsFiniteSet(evict_expired(n, t))
      /\ Cardinality(evict_expired(n, t)) \in Nat
  <2>1. CASE Message = {}
    <3>1. dedup[n] = {}
      BY <2>1 DEF TypeOK, Entry
    <3> QED  BY <3>1, FS_EmptySet DEF evict_expired
  <2>2. CASE Message # {}
    BY <1>1, <2>2, CacheTypes
  <2> QED  BY <2>1, <2>2
<1>3. /\ dedup' \in [Node -> SUBSET Entry]
      /\ \A k \in Node : IsFiniteSet(dedup'[k])
  BY <1>2, CacheStep DEF Heartbeat
<1>4. acks' \in [Node -> [Message -> SUBSET Acker]]
  BY DEF Heartbeat, TypeOK, pruned
<1>5. stats' \in [Node -> MessageStats]
  BY <1>2 DEF Heartbeat, TypeOK, MessageStats
<1> QED  BY <1>3, <1>4, <1>5 DEF Heartbeat, TypeOK, Finite

\* Every step keeps the types and keeps what there is finite.
LEMMA TypeStep ==
    ASSUME TypeOK, Finite, [Next]_vars
    PROVE  TypeOK' /\ Finite'
<1>1. CASE UNCHANGED vars
  BY <1>1 DEF vars, TypeOK, Finite
<1>2. CASE Tick
  BY <1>2 DEF Tick, TypeOK, Finite
<1>3. ASSUME NEW n \in Node, NEW m \in Message, NEW t \in Readings(n),
             Publish(n, m, t) \/ PublishDuplicate(n, m, t) \/ PublishUnsigned(n, m, t)
      PROVE  TypeOK' /\ Finite'
  BY <1>3, PublishTypes
<1>4. ASSUME NEW n \in Node, NEW m \in Message, NEW t \in Readings(n), EncodeEnvelope(n, m, t)
      PROVE  TypeOK' /\ Finite'
  BY <1>4, EncodeTypes
<1>5. ASSUME NEW n \in Node, NEW m \in Message, NEW p \in Acker, RecordAck(n, m, p)
      PROVE  TypeOK' /\ Finite'
  BY <1>5, AckTypes
<1>6. ASSUME NEW pkt \in net, NEW t \in Readings(pkt.to),
             VerifyEnvelope(pkt, t) \/ DropEnvelope(pkt, t)
      PROVE  TypeOK' /\ Finite'
  BY <1>6, VerifyTypes, DropTypes
<1>7. ASSUME NEW pkt \in net, Damage(pkt)
      PROVE  TypeOK' /\ Finite'
  BY <1>7, DamageTypes
<1>8. ASSUME NEW n \in Node, Maintain(n)
      PROVE  TypeOK' /\ Finite'
  BY <1>8, HeartbeatTypes DEF Maintain
<1> QED  BY <1>1, <1>2, <1>3, <1>4, <1>5, <1>6, <1>7, <1>8 DEF Next

-----------------------------------------------------------------------------
(* Signatures *)

\* Nothing that was encoded is forgotten.
LEMMA EncodedGrows ==
    ASSUME [Next]_vars
    PROVE  encoded \subseteq encoded'
  BY DEF Next, vars, Publish, PublishDuplicate, PublishUnsigned, EncodeEnvelope, RecordAck,
         VerifyEnvelope, DropEnvelope, Damage, Maintain, Heartbeat, Tick

\* Packets are new ones of an encoding, repeat the signature of another packet,
\* or were there.
LEMMA SignedStep ==
    ASSUME TypeOK, Signed, [Next]_vars
    PROVE  Signed'
<1>1. encoded \subseteq encoded'
  BY EncodedGrows
<1>2. ASSUME \A q \in net' : \E pkt \in net : q.body.signature = pkt.body.signature
      PROVE  Signed'
  BY <1>1, <1>2 DEF Signed
<1>3. CASE net' = net
  BY <1>2, <1>3
<1>4. ASSUME NEW n \in Node, NEW m \in Message, NEW t \in Readings(n), EncodeEnvelope(n, m, t)
      PROVE  Signed'
  <2> DEFINE new == [node |-> n, id |-> m, nr |-> Encodes(n)]
  <2>1. new \in encoded' /\ new.node = n /\ new.id = m
    BY <1>4 DEF EncodeEnvelope
  <2>2. \A q \in net' : q \in net \/ q.body.signature = signing_input(n, m)
    BY <1>4 DEF EncodeEnvelope, Broadcast, build_envelope
  <2> HIDE DEF new
  <2> QED  BY <1>1, <2>1, <2>2 DEF Signed
<1>5. ASSUME NEW pkt \in net, NEW t \in Readings(pkt.to), VerifyEnvelope(pkt, t)
      PROVE  Signed'
  <2>1. \A q \in Broadcast(pkt.to, Forwarded(pkt.body)) :
            q.body.signature = pkt.body.signature
    BY DEF Broadcast, Forwarded
  <2>2. PICK forward \in {{}, Broadcast(pkt.to, Forwarded(pkt.body))} :
            net' = (net \ {pkt}) \cup forward
    BY <1>5 DEF VerifyEnvelope
  <2> QED  BY <1>2, <2>1, <2>2
<1>6. ASSUME NEW pkt \in net, NEW t, DropEnvelope(pkt, t)
      PROVE  Signed'
  BY <1>2, <1>6 DEF DropEnvelope
<1>7. ASSUME NEW pkt \in net, Damage(pkt)
      PROVE  Signed'
  <2>1. PICK q \in Packet : /\ net' = (net \ {pkt}) \cup {q}
                            /\ q.body.signature = pkt.body.signature
    BY <1>7, DamagedPacket
  <2> QED  BY <1>2, <2>1
<1>8. \/ net' = net
      \/ \E n \in Node, m \in Message : \E t \in Readings(n) : EncodeEnvelope(n, m, t)
      \/ \E pkt \in net : \E t \in Readings(pkt.to) :
             VerifyEnvelope(pkt, t) \/ DropEnvelope(pkt, t)
      \/ \E pkt \in net : Damage(pkt)
  BY DEF Next, vars, Publish, PublishDuplicate, PublishUnsigned, RecordAck, Maintain,
         Heartbeat, Tick
<1> QED  BY <1>3, <1>4, <1>5, <1>6, <1>7, <1>8

\* What verifies has the signature of its key over its payload, and that was
\* made by a node that encoded it.
LEMMA AuthenticStep ==
    ASSUME TypeOK, Signed, AcceptedAuthentic, [Next]_vars
    PROVE  AcceptedAuthentic'
<1>1. encoded \subseteq encoded'
  BY EncodedGrows
<1>2. CASE accepted' = accepted
  BY <1>1, <1>2 DEF AcceptedAuthentic
<1>3. ASSUME NEW pkt \in net, NEW t \in Readings(pkt.to), VerifyEnvelope(pkt, t)
      PROVE  AcceptedAuthentic'
  <2>1. pkt.body.signature = [key |-> pkt.body.sender_public_key,
                              message_id |-> pkt.body.message_id,
                              payload |-> pkt.body.payload]
    BY <1>3 DEF VerifyEnvelope, verify_envelope
  <2>2. PICK y \in encoded : pkt.body.signature = signing_input(y.node, y.id)
    BY DEF Signed
  <2>3. y.node = pkt.body.sender_public_key /\ y.id = pkt.body.payload
    BY <2>1, <2>2 DEF signing_input
  <2>4. \A x \in accepted' : x \in accepted \/ x.body = pkt.body
    BY <1>3 DEF VerifyEnvelope
  <2> QED  BY <1>1, <2>3, <2>4 DEF AcceptedAuthentic
<1>4. \/ accepted' = accepted
      \/ \E pkt \in net : \E t \in Readings(pkt.to) : VerifyEnvelope(pkt, t)
  BY DEF Next, vars, Publish, PublishDuplicate, PublishUnsigned, EncodeEnvelope, RecordAck,
         DropEnvelope, Damage, Maintain, Heartbeat, Tick
<1> QED  BY <1>2, <1>3, <1>4

-----------------------------------------------------------------------------
(* Publications *)

\* A publication is new, and counted, because it has the number of its call.
LEMMA CountedStep ==
    ASSUME TypeOK, Finite, Counted, [Next]_vars
    PROVE  Counted'
<1>1. ASSUME NEW n \in Node, NEW m \in Message, NEW t \in Readings(n), Publish(n, m, t)
      PROVE  Counted'
  <2> DEFINE new == [node |-> n, id |-> m, at |-> t, when |-> now, call |-> calls[n]]
             Of(k) == {x \in published : x.node = k}
  <2>1. published' = published \cup {new} /\ new.node = n /\ new.call = calls[n]
    BY <1>1 DEF Publish
  <2>2. calls \in [Node -> Nat] /\ calls' = [calls EXCEPT ![n] = @ + 1]
    BY <1>1 DEF Publish, TypeOK
  <2>3. \A k \in Node : stats'[k].messages_published =
            IF k = n THEN stats[k].messages_published + 1 ELSE stats[k].messages_published
    BY <1>1, CountStep DEF Publish
  <2> HIDE DEF new
  <2>4. \A x \in published : x.node \in Node /\ x.call \in Nat
    BY DEF TypeOK, Publication
  <2>5. \A x \in published' : x.call < calls'[x.node]
    BY <2>1, <2>2, <2>4 DEF Counted
  <2>6. new \notin published
    BY <2>1, <2>2, <2>4 DEF Counted
  <2>7. ASSUME NEW k \in Node
        PROVE  stats'[k].messages_published = Cardinality({x \in published' : x.node = k})
    <3>1. IsFiniteSet(Of(k))
      BY FS_Subset DEF Finite
    <3>2. CASE k = n
      <4>1. {x \in published' : x.node = k} = Of(k) \cup {new}
        BY <2>1, <3>2
      <4>2. Cardinality(Of(k) \cup {new}) = Cardinality(Of(k)) + 1
        BY <2>6, <3>1, FS_AddElement
      <4> QED  BY <2>3, <3>2, <4>1, <4>2 DEF Counted
    <3>3. CASE k # n
      <4>1. {x \in published' : x.node = k} = Of(k)
        BY <2>1, <3>3
      <4> QED  BY <2>3, <3>3, <4>1 DEF Counted
    <3> QED  BY <3>2, <3>3
  <2> QED  BY <2>5, <2>7 DEF Counted
<1>2. ASSUME published' = published,
             \A k \in Node : calls'[k] \in Nat /\ calls[k] <= calls'[k],
             \A k \in Node : stats'[k].messages_published = stats[k].messages_published
      PROVE  Counted'
  <2>1. \A x \in published : x.node \in Node /\ x.call \in Nat /\ calls[x.node] \in Nat
    BY DEF TypeOK, Publication
  <2> QED  BY <1>2, <2>1 DEF Counted
<1>3. CASE UNCHANGED <<calls, published>> /\ (stats' = stats)
  BY <1>2, <1>3 DEF TypeOK
<1>4. ASSUME NEW n \in Node, NEW m \in Message, NEW t \in Readings(n),
             PublishDuplicate(n, m, t) \/ PublishUnsigned(n, m, t)
      PROVE  Counted'
  <2>1. calls' = [calls EXCEPT ![n] = @ + 1] /\ published' = published
    BY <1>4 DEF PublishDuplicate, PublishUnsigned
  <2>2. \A k \in Node : stats'[k].messages_published = stats[k].messages_published
    <3>1. CASE PublishDuplicate(n, m, t)
      <4>1. \A k \in Node : stats[k].messages_published \in Nat
        BY DEF TypeOK, MessageStats
      <4> QED  BY <3>1, <4>1, CountStep DEF PublishDuplicate
    <3>2. CASE PublishUnsigned(n, m, t)
      BY <3>2 DEF PublishUnsigned
    <3> QED  BY <1>4, <3>1, <3>2
  <2>3. \A k \in Node : calls'[k] \in Nat /\ calls[k] <= calls'[k]
    BY <2>1 DEF TypeOK
  <2> QED  BY <1>2, <2>1, <2>2, <2>3
<1>5. ASSUME NEW pkt \in net, NEW t \in Readings(pkt.to),
             VerifyEnvelope(pkt, t) \/ DropEnvelope(pkt, t)
      PROVE  Counted'
  <2>1. pkt.to \in Node
    BY DEF TypeOK, Packet
  <2>2. UNCHANGED <<calls, published>>
    BY <1>5 DEF VerifyEnvelope, DropEnvelope
  <2>3. \E recv, drop \in Nat : stats' = Count(pkt.to, 0, recv, 0, drop)
    BY <1>5 DEF VerifyEnvelope, DropEnvelope
  <2>4. \A k \in Node : stats'[k].messages_published = stats[k].messages_published
    <3>1. \A k \in Node : stats[k].messages_published \in Nat
      BY DEF TypeOK, MessageStats
    <3> QED  BY <2>1, <2>3, <3>1, CountStep
  <2> QED  BY <1>2, <2>2, <2>4 DEF TypeOK
<1>6. ASSUME NEW n \in Node, Maintain(n)
      PROVE  Counted'
  <2>1. PICK t \in Readings(n) : Heartbeat(n, t)
    BY <1>6 DEF Maintain
  <2>2. UNCHANGED <<calls, published>>
    BY <2>1 DEF Heartbeat
  <2>3. \A k \in Node : stats'[k].messages_published = stats[k].messages_published
    BY <2>1 DEF Heartbeat, TypeOK
  <2> QED  BY <1>2, <2>2, <2>3 DEF TypeOK
<1>7. \/ \E n \in Node, m \in Message : \E t \in Readings(n) :
             Publish(n, m, t) \/ PublishDuplicate(n, m, t) \/ PublishUnsigned(n, m, t)
      \/ \E pkt \in net : \E t \in Readings(pkt.to) :
             VerifyEnvelope(pkt, t) \/ DropEnvelope(pkt, t)
      \/ \E n \in Node : Maintain(n)
      \/ UNCHANGED <<calls, published>> /\ (stats' = stats)
  BY DEF Next, vars, EncodeEnvelope, RecordAck, Damage, Tick
<1> QED  BY <1>1, <1>3, <1>4, <1>5, <1>6, <1>7

\* Time does not go back, and a step takes away only the entries of a cache
\* that its node's clock has expired, whatever reading the step worked with.
LEMMA CacheKeeps ==
    ASSUME TypeOK, [Next]_vars
    PROVE  /\ now' \in Nat /\ now <= now'
           /\ \A n \in Node : \A e \in dedup[n] :
                  e \in dedup'[n] \/ Clock(n) - e.at > DedupTtl
<1>1. now' \in Nat /\ now <= now'
  BY DEF TypeOK, Next, vars, Publish, PublishDuplicate, PublishUnsigned, EncodeEnvelope,
         RecordAck, VerifyEnvelope, DropEnvelope, Damage, Maintain, Heartbeat, Tick
<1>2. \/ dedup' = dedup
      \/ \E n \in Node : \E t \in Readings(n) : \E C :
             evict_expired(n, t) \subseteq C /\ dedup' = [dedup EXCEPT ![n] = C]
  <2>1. ASSUME NEW n \in Node, NEW m \in Message, NEW t \in Readings(n),
               Publish(n, m, t) \/ PublishDuplicate(n, m, t) \/ PublishUnsigned(n, m, t)
        PROVE  \E C : evict_expired(n, t) \subseteq C /\ dedup' = [dedup EXCEPT ![n] = C]
    BY <2>1 DEF Publish, PublishDuplicate, PublishUnsigned, Inserted
  <2>2. ASSUME NEW n \in Node, NEW t \in Readings(n), Heartbeat(n, t)
        PROVE  \E C : evict_expired(n, t) \subseteq C /\ dedup' = [dedup EXCEPT ![n] = C]
    BY <2>2 DEF Heartbeat
  <2> QED  BY <2>1, <2>2 DEF Next, vars, EncodeEnvelope, RecordAck, VerifyEnvelope,
                             DropEnvelope, Damage, Maintain, Tick
<1>3. ASSUME NEW n \in Node, NEW t \in Readings(n), NEW C,
             evict_expired(n, t) \subseteq C, dedup' = [dedup EXCEPT ![n] = C],
             NEW k \in Node, NEW e \in dedup[k]
      PROVE  e \in dedup'[k] \/ Clock(k) - e.at > DedupTtl
  <2>1. e.at \in Nat
    BY DEF TypeOK, Entry
  <2>2. dedup'[k] = IF k = n THEN C ELSE dedup[k]
    BY <1>3 DEF TypeOK
  <2>3. CASE k = n
    <3>1. e \in evict_expired(n, t) \/ Clock(n) - e.at > DedupTtl
      BY <2>1, <2>3, EvictionBound DEF TypeOK
    <3> QED  BY <1>3, <2>2, <2>3, <3>1
  <2>4. CASE k # n
    BY <2>2, <2>4
  <2> QED  BY <2>3, <2>4
<1> QED  BY <1>1, <1>2, <1>3

\* The one step that publishes.
LEMMA PublicationCases ==
    ASSUME [Next]_vars
    PROVE  \/ published' = published
           \/ \E n \in Node, m \in Message : \E t \in Readings(n) : Publish(n, m, t)
  BY DEF Next, vars, PublishDuplicate, PublishUnsigned, EncodeEnvelope, RecordAck,
         VerifyEnvelope, DropEnvelope, Damage, Maintain, Heartbeat, Tick

\* A message is published only when every earlier publication of it has expired.
LEMMA EarlierExpired ==
    ASSUME TypeOK, Remembered, NEW n \in Node, NEW m \in Message, NEW t \in Readings(n),
           Publish(n, m, t), NEW x \in published, x.node = n, x.id = m
    PROVE  Clock(n) - x.at > DedupTtl
<1> DEFINE e == [id |-> x.id, at |-> x.at]
<1>1. x.at \in Nat /\ e.at = x.at /\ e.id = m
  BY DEF TypeOK, Publication
<1>2. e \in dedup[n] \/ Clock(n) - x.at > DedupTtl
  BY DEF Remembered
<1> HIDE DEF e
<1>3. CASE e \in dedup[n]
  <2>1. e \notin evict_expired(n, t)
    BY <1>1 DEF Publish, is_duplicate
  <2> QED  BY <1>1, <1>3, <2>1, EvictionBound DEF TypeOK
<1> QED  BY <1>2, <1>3

\* What a publication adds.
LEMMA NewPublication ==
    ASSUME TypeOK, NEW n \in Node, NEW m \in Message, NEW t \in Readings(n), Publish(n, m, t)
    PROVE  \E new \in Publication :
               /\ published' = published \cup {new}
               /\ new.node = n /\ new.id = m /\ new.at = t /\ new.when = now
               /\ new.call = calls[n]
               /\ [id |-> m, at |-> t] \in dedup'[n]
<1> DEFINE new == [node |-> n, id |-> m, at |-> t, when |-> now, call |-> calls[n]]
<1>1. t \in Nat
  BY ReadingBounds DEF TypeOK
<1>2. new \in Publication
  BY <1>1 DEF Publication, TypeOK
<1>3. published' = published \cup {new}
  BY DEF Publish
<1>4. [id |-> m, at |-> t] \in dedup'[n]
  BY DEF Publish, Inserted, TypeOK
<1> QED  BY <1>2, <1>3, <1>4

LEMMA RememberedStep ==
    ASSUME TypeOK, TypeOK', Remembered, [Next]_vars
    PROVE  Remembered'
<1> DEFINE Holds(x) == /\ x.when <= now'
                       /\ x.when + Skew[x.node] - Lag <= x.at
                       /\ \/ [id |-> x.id, at |-> x.at] \in dedup'[x.node]
                          \/ Clock(x.node)' - x.at > DedupTtl
<1>1. ASSUME NEW x \in published
      PROVE  Holds(x)
  <2> DEFINE e == [id |-> x.id, at |-> x.at]
  <2>1. x.node \in Node /\ x.at \in Nat /\ x.when \in Nat /\ e.at = x.at
    BY DEF TypeOK, Publication
  <2>2. now \in Nat /\ now' \in Nat /\ now <= now' /\ Skew[x.node] \in Nat
    BY <2>1, CacheKeeps, MessageAssumption DEF TypeOK
  <2>3. x.when <= now /\ x.when + Skew[x.node] - Lag <= x.at
    BY DEF Remembered
  <2>4. Clock(x.node) \in Int /\ Clock(x.node)' \in Int /\ Clock(x.node) <= Clock(x.node)'
    BY <2>2 DEF Clock
  <2>5. e \in dedup[x.node] \/ Clock(x.node) - x.at > DedupTtl
    BY DEF Remembered
  <2> HIDE DEF e
  <2>6. e \in dedup'[x.node] \/ Clock(x.node) - x.at > DedupTtl
    BY <2>1, <2>5, CacheKeeps
  <2>7. e \in dedup'[x.node] \/ Clock(x.node)' - x.at > DedupTtl
    BY <2>1, <2>4, <2>6, MessageAssumption
  <2> QED  BY <2>1, <2>2, <2>3, <2>7 DEF e
<1>2. ASSUME NEW n \in Node, NEW m \in Message, NEW t \in Readings(n), Publish(n, m, t),
             NEW x \in published', x \notin published
      PROVE  Holds(x)
  <2>1. /\ x.node = n /\ x.id = m /\ x.at = t /\ x.when = now
        /\ [id |-> m, at |-> t] \in dedup'[n]
    BY <1>2, NewPublication
  <2>2. now' = now /\ now \in Nat
    BY <1>2 DEF Publish, TypeOK
  <2>3. Clock(n) - Lag <= t
    BY <2>2, ReadingBounds
  <2> QED  BY <2>1, <2>2, <2>3, MessageAssumption DEF Clock
<1>3. \A x \in published' : Holds(x)
  BY <1>1, <1>2, PublicationCases
<1> QED  BY <1>3 DEF Remembered

LEMMA SpacedStep ==
    ASSUME TypeOK, Counted, Remembered, Spaced, [Next]_vars
    PROVE  Spaced'
<1>1. CASE published' = published
  BY <1>1 DEF Spaced
<1>2. ASSUME NEW n \in Node, NEW m \in Message, NEW t \in Readings(n), Publish(n, m, t)
      PROVE  Spaced'
  <2>1. PICK new \in Publication :
               /\ published' = published \cup {new}
               /\ new.node = n /\ new.id = m /\ new.at = t /\ new.when = now
               /\ new.call = calls[n]
               /\ [id |-> m, at |-> t] \in dedup'[n]
    BY <1>2, NewPublication
  <2>2. ASSUME NEW x \in published, x.node = n, x.id = m
        PROVE  now - x.when > DedupTtl - Lag
    <3>1. Clock(n) - x.at > DedupTtl
      BY <1>2, <2>2, EarlierExpired
    <3>2. x.when + Skew[n] - Lag <= x.at /\ x.at \in Nat /\ x.when \in Nat /\ now \in Nat
      BY <2>2 DEF Remembered, TypeOK, Publication
    <3> QED  BY <3>1, <3>2, MessageAssumption DEF Clock
  <2>3. \A x \in published : x.node = n => ~ (calls[n] < x.call)
    BY DEF Counted, TypeOK, Publication
  <2>4. ~ (calls[n] < calls[n])
    BY DEF TypeOK
  <2> SUFFICES ASSUME NEW x \in published', NEW y \in published',
                      x.node = y.node, x.id = y.id, x.call < y.call
               PROVE  y.when - x.when > DedupTtl - Lag
    BY DEF Spaced
  <2>5. CASE x \in published /\ y \in published
    BY <2>5 DEF Spaced
  <2>6. CASE x \in published /\ y = new
    BY <2>1, <2>2, <2>6
  <2>7. CASE x = new
    BY <2>1, <2>3, <2>4, <2>7
  <2> QED  BY <2>1, <2>5, <2>6, <2>7
<1> QED  BY <1>1, <1>2, PublicationCases

-----------------------------------------------------------------------------
(* Acknowledgements *)

\* The acks of the publications that are in their time to live.
LEMMA AcksKeptStep ==
    ASSUME TypeOK, Remembered, AcksKept, [Next]_vars
    PROVE  AcksKept'
<1>1. \A x \in published : /\ x.node \in Node /\ x.id \in Message /\ x.at \in Nat
                           /\ Clock(x.node) \in Int
  BY MessageAssumption DEF TypeOK, Publication, Clock
<1>2. CASE UNCHANGED <<acks, acked, published, now>>
  BY <1>2 DEF AcksKept, Clock
<1>3. CASE Tick
  <2>1. ASSUME NEW x \in published
        PROVE  Clock(x.node)' = Clock(x.node) + 1
    <3>1. Skew[x.node] \in Nat /\ now \in Nat /\ now' = now + 1
      BY <1>1, <1>3, MessageAssumption DEF Tick, TypeOK
    <3> QED  BY <3>1 DEF Clock
  <2>2. UNCHANGED <<acks, acked, published>>
    BY <1>3 DEF Tick
  <2>3. \A x \in published : Clock(x.node)' - x.at <= DedupTtl => Clock(x.node) - x.at <= DedupTtl
    BY <1>1, <2>1, MessageAssumption
  <2> QED  BY <2>2, <2>3 DEF AcksKept
<1>4. ASSUME NEW n \in Node, NEW m \in Message, NEW t \in Readings(n), Publish(n, m, t)
      PROVE  AcksKept'
  <2>1. UNCHANGED <<acks, now>> /\ acked' = [acked EXCEPT ![n][m] = {}]
    BY <1>4 DEF Publish
  <2>2. \A x \in published' : x \in published \/ (x.node = n /\ x.id = m)
    BY <1>4 DEF Publish
  <2>3. acked'[n][m] = {}
    BY <2>1 DEF TypeOK
  <2>4. ASSUME NEW x \in published, Clock(x.node)' - x.at <= DedupTtl,
               ~ (x.node = n /\ x.id = m)
        PROVE  acked'[x.node][x.id] \subseteq acks'[x.node][x.id]
    <3>1. acked'[x.node][x.id] = acked[x.node][x.id]
      BY <1>1, <2>1, <2>4 DEF TypeOK
    <3>2. Clock(x.node)' = Clock(x.node)
      BY <2>1 DEF Clock
    <3> QED  BY <2>1, <2>4, <3>1, <3>2 DEF AcksKept
  <2> QED  BY <2>2, <2>3, <2>4 DEF AcksKept
<1>5. ASSUME NEW n \in Node, NEW m \in Message, NEW p \in Acker, RecordAck(n, m, p)
      PROVE  AcksKept'
  <2>1. /\ acks' = [acks EXCEPT ![n][m] = @ \cup {p}]
        /\ acked' = [acked EXCEPT ![n][m] = @ \cup {p}]
        /\ UNCHANGED <<published, now>>
    BY <1>5 DEF RecordAck
  <2>2. ASSUME NEW k \in Node, NEW i \in Message, acked[k][i] \subseteq acks[k][i]
        PROVE  acked'[k][i] \subseteq acks'[k][i]
    <3>1. CASE k = n /\ i = m
      BY <2>1, <2>2, <3>1 DEF TypeOK
    <3>2. CASE ~ (k = n /\ i = m)
      <4>1. acked'[k][i] = acked[k][i]
        BY <2>1, <3>2 DEF TypeOK
      <4>2. acks'[k][i] = acks[k][i]
        BY <2>1, <3>2 DEF TypeOK
      <4> QED  BY <2>2, <4>1, <4>2
    <3> QED  BY <3>1, <3>2
  <2>3. \A x \in published : Clock(x.node)' = Clock(x.node)
    BY <2>1 DEF Clock
  <2> QED  BY <1>1, <2>1, <2>2, <2>3 DEF AcksKept
<1>6. ASSUME NEW n \in Node, NEW t \in Readings(n), Heartbeat(n, t)
      PROVE  AcksKept'
  <2>1. /\ acks' = [acks EXCEPT ![n] = pruned(n, t)]
        /\ UNCHANGED <<published, now, acked>>
    BY <1>6 DEF Heartbeat
  <2>2. ASSUME NEW x \in published, Clock(x.node) - x.at <= DedupTtl
        PROVE  acked[x.node][x.id] \subseteq acks'[x.node][x.id]
    <3>1. acked[x.node][x.id] \subseteq acks[x.node][x.id]
      BY <2>2 DEF AcksKept
    <3>2. CASE x.node = n
      <4> DEFINE e == [id |-> x.id, at |-> x.at]
      <4>1. e.at = x.at /\ e.id = x.id
        OBVIOUS
      <4>2. e \in dedup[n]
        BY <1>1, <2>2, <3>2, MessageAssumption DEF Remembered
      <4> HIDE DEF e
      <4>3. e \in evict_expired(n, t)
        BY <1>1, <2>2, <3>2, <4>1, <4>2, EvictionBound, MessageAssumption DEF TypeOK
      <4>4. pruned(n, t)[x.id] = acks[n][x.id]
        BY <1>1, <4>1, <4>3 DEF pruned
      <4> QED  BY <2>1, <3>1, <3>2, <4>4 DEF TypeOK
    <3>3. CASE x.node # n
      BY <1>1, <2>1, <3>1, <3>3 DEF TypeOK
    <3> QED  BY <3>2, <3>3
  <2>3. \A x \in published : Clock(x.node)' = Clock(x.node)
    BY <2>1 DEF Clock
  <2> QED  BY <2>1, <2>2, <2>3 DEF AcksKept
<1>7. \/ UNCHANGED <<acks, acked, published, now>>
      \/ Tick
      \/ \E n \in Node, m \in Message : \E t \in Readings(n) : Publish(n, m, t)
      \/ \E n \in Node, m \in Message : \E p \in Acker : RecordAck(n, m, p)
      \/ \E n \in Node : \E t \in Readings(n) : Heartbeat(n, t)
  BY DEF Next, vars, PublishDuplicate, PublishUnsigned, EncodeEnvelope, VerifyEnvelope,
         DropEnvelope, Damage, Maintain
<1> QED  BY <1>2, <1>3, <1>4, <1>5, <1>6, <1>7

\* The quorum does not shrink when acks are added.
LEMMA QuorumFromAcks == TypeOK /\ AcksKept => QuorumKept
<1> SUFFICES ASSUME TypeOK, AcksKept, NEW x \in published, Cardinality(Acker) > 0,
                    Clock(x.node) - x.at <= DedupTtl,
                    Cardinality(acked[x.node][x.id]) >= Required(Cardinality(Acker))
             PROVE  has_quorum(x.node, x.id, Cardinality(Acker))
  BY DEF QuorumKept
<1>1. acked[x.node][x.id] \in SUBSET acks[x.node][x.id]
  BY DEF AcksKept
<1>2. acks[x.node][x.id] \in SUBSET Acker
  BY DEF TypeOK, Publication
<1>3. IsFiniteSet(acks[x.node][x.id])
  BY <1>2, FS_Subset, MessageAssumption
<1>4. /\ Cardinality(acked[x.node][x.id]) <= Cardinality(acks[x.node][x.id])
      /\ IsFiniteSet(acked[x.node][x.id])
  BY <1>1, <1>3, FS_Subset
<1>5. /\ Cardinality(acked[x.node][x.id]) \in Nat /\ Cardinality(acks[x.node][x.id]) \in Nat
      /\ Cardinality(Acker) \in Nat
  BY <1>3, <1>4, FS_CardinalityType, MessageAssumption
<1>6. Required(Cardinality(Acker)) \in Int
  BY <1>5, QuorumAssumption DEF Required
<1> QED  BY <1>4, <1>5, <1>6 DEF has_quorum

-----------------------------------------------------------------------------
(* Theorems *)

LEMMA MessagesInit == Init => MInv
<1> SUFFICES ASSUME Init PROVE MInv
  OBVIOUS
<1>1. TypeOK
  BY DEF Init, TypeOK, MessageStats
<1>2. Finite
  BY FS_EmptySet DEF Init, Finite
<1>3. Counted
  <2>1. \A n \in Node : {x \in published : x.node = n} = {}
    BY DEF Init
  <2> QED  BY <2>1, FS_EmptySet DEF Init, Counted
<1>4. Signed /\ AcceptedAuthentic /\ Remembered /\ Spaced /\ AcksKept
  BY DEF Init, Signed, AcceptedAuthentic, Remembered, Spaced, AcksKept
<1> QED  BY <1>1, <1>2, <1>3, <1>4 DEF MInv

\* The invariant behind the other theorems: every signature under way stems
\* from an encoding, publications are numbered and remembered for their time to
\* live, and their acks are kept as long.
THEOREM MessagesInductive == Spec => []MInv
<1>1. MInv /\ [Next]_vars => MInv'
  <2> SUFFICES ASSUME MInv, [Next]_vars PROVE MInv'
    OBVIOUS
  <2>1. TypeOK' /\ Finite'
    BY TypeStep DEF MInv
  <2>2. Signed' /\ AcceptedAuthentic'
    BY SignedStep, AuthenticStep DEF MInv
  <2>3. Counted' /\ Remembered' /\ Spaced' /\ AcksKept'
    BY <2>1, CountedStep, RememberedStep, SpacedStep, AcksKeptStep DEF MInv
  <2> QED  BY <2>1, <2>2, <2>3 DEF MInv
<1> QED  BY MessagesInit, <1>1, PTL DEF Spec

\* Types of the caches, trackers, counters, envelopes and histories.
THEOREM MessagesTypeCorrect == Spec => []TypeOK
<1>1. MInv => TypeOK
  BY DEF MInv
<1> QED  BY MessagesInductive, <1>1, PTL

\* What gossip_verify_envelope accepts was encoded by the holder of its key,
\* however it was damaged and forwarded.
THEOREM AuthenticTheorem == Spec => []AcceptedAuthentic
<1>1. MInv => AcceptedAuthentic
  BY DEF MInv
<1> QED  BY MessagesInductive, <1>1, PTL

\* gossip_publish publishes a message again only when its time to live less the
\* lag has passed, and messages_published is the number of publications.
THEOREM PublishedOnceTheorem == Spec => []PublishedOnce
<1>1. MInv => PublishedOnce
  BY DEF MInv, Spaced, Counted, PublishedOnce
<1> QED  BY MessagesInductive, <1>1, PTL

\* An eviction or a heartbeat with any reading leaves the quorum of a message
\* that is in its time to live.
THEOREM QuorumTheorem == Spec => []QuorumKept
<1>1. MInv => QuorumKept
  BY QuorumFromAcks DEF MInv
<1> QED  BY MessagesInductive, <1>1, PTL

-----------------------------------------------------------------------------
(* The flood: what Reached computes *)

\* A set of numbers has a least one: induction, in a form without a predicate.
LEMMA LeastNumber ==
    ASSUME NEW T, T \subseteq Nat, T # {}
    PROVE  \E x \in T : \A y \in T : x <= y
<1>1. PICK x \in T : \A y \in T : ~ (<<y, x>> \in OpToRel(<, Nat))
  <2> DEFINE R == OpToRel(<, Nat)
  <2>1. IsWellFoundedOn(R, Nat)
    BY NatLessThanWellFounded
  <2> HIDE DEF R
  <2>2. \E x \in T : \A y \in T : ~ (<<y, x>> \in R)
    BY <2>1, WFMin
  <2> QED  BY <2>2 DEF R
<1>2. \A y \in T : ~ (y < x)
  BY <1>1 DEF OpToRel
<1> QED  BY <1>2

\* What holds of 0 and of the successor of a number below D that it holds of,
\* holds up to D.
LEMMA UpTo ==
    ASSUME NEW D \in Nat, NEW S, 0 \in S, \A k \in S : k \in Nat /\ k < D => k + 1 \in S
    PROVE  \A k \in 0 .. D : k \in S
<1> DEFINE T == (0 .. D) \ S
<1> SUFFICES ASSUME T # {} PROVE FALSE
  OBVIOUS
<1>1. T \subseteq Nat
  OBVIOUS
<1>2. PICK x \in T : \A y \in T : x <= y
  <2> HIDE DEF T
  <2> QED  BY <1>1, LeastNumber
<1>3. x \in 1 .. D /\ x \notin S
  OBVIOUS
<1>4. x - 1 \in 0 .. D /\ x - 1 \notin T
  BY <1>2, <1>3
<1>5. PICK y \in S : y \in Nat /\ y < D /\ y + 1 = x
  BY <1>3, <1>4
<1>6. y + 1 \in S
  BY <1>5
<1> QED  BY <1>3, <1>5, <1>6

\* The other nodes, as a number.
Others == Cardinality(Node) - 1

\* h has the first D + 1 values of the recursion of Reached.
Recursion(h, D) ==
    h = [k \in 0 .. D |-> IF k = 0 THEN 0 ELSE Others * (1 + h[k - 1])]

\* The recursion of Reached has a solution, whatever the hop count.
LEMMA RecursionExists == \A D \in 0 .. DefaultTtl : \E h : Recursion(h, D)
<1> DEFINE S == {D \in Nat : \E h : Recursion(h, D)}
<1>1. 0 \in S
  <2>1. Recursion([k \in 0 .. 0 |-> 0], 0)
    BY DEF Recursion
  <2> QED  BY <2>1
<1>2. ASSUME NEW D \in S
      PROVE  D + 1 \in S
  <2>1. D \in Nat
    OBVIOUS
  <2>2. PICK h : Recursion(h, D)
    BY <1>2
  <2> DEFINE g == [k \in 0 .. D + 1 |-> IF k = D + 1 THEN Others * (1 + h[D]) ELSE h[k]]
  <2>3. ASSUME NEW k \in 0 .. D + 1
        PROVE  g[k] = IF k = 0 THEN 0 ELSE Others * (1 + g[k - 1])
    <3>1. CASE k = 0
      BY <2>1, <2>2, <3>1 DEF Recursion
    <3>2. CASE k # 0
      <4>1. k - 1 \in 0 .. D /\ k - 1 \in 0 .. D + 1 /\ k - 1 # D + 1
        BY <2>1, <3>2
      <4>2. g[k - 1] = h[k - 1]
        BY <4>1
      <4>3. CASE k = D + 1
        BY <2>1, <3>2, <4>2, <4>3
      <4>4. CASE k # D + 1
        <5>1. k \in 0 .. D /\ g[k] = h[k]
          BY <2>1, <4>4
        <5>2. h[k] = Others * (1 + h[k - 1])
          BY <2>2, <3>2, <5>1 DEF Recursion
        <5> QED  BY <3>2, <4>2, <5>1, <5>2
      <4> QED  BY <4>3, <4>4
    <3> QED  BY <3>1, <3>2
  <2>4. Recursion(g, D + 1)
    <3>1. g = [k \in 0 .. D + 1 |-> g[k]]
      OBVIOUS
    <3> HIDE DEF g
    <3> QED  BY <2>3, <3>1 DEF Recursion
  <2> QED  BY <2>1, <2>4
<1> HIDE DEF S
<1>3. \A D \in 0 .. DefaultTtl : D \in S
  BY <1>1, <1>2, UpTo, MessageAssumption
<1> QED  BY <1>3 DEF S

\* Reached is what its definition says, and counts.
LEMMA ReachedRecursion ==
    /\ Reached[0] = 0
    /\ \A k \in 1 .. DefaultTtl : Reached[k] = Others * (1 + Reached[k - 1])
<1>1. PICK h : Recursion(h, DefaultTtl)
  BY RecursionExists, MessageAssumption
<1>2. Recursion(Reached, DefaultTtl)
  BY <1>1 DEF Reached, Recursion, Others
<1> HIDE DEF Reached
<1>3. \A k \in 0 .. DefaultTtl : Reached[k] = IF k = 0 THEN 0 ELSE Others * (1 + Reached[k - 1])
  BY <1>2 DEF Recursion
<1> QED  BY <1>3, MessageAssumption

LEMMA ReachedType ==
    /\ Others \in Int /\ (Node # {} => Others \in Nat)
    /\ \A k \in 0 .. DefaultTtl : Reached[k] \in Int /\ (Node # {} => Reached[k] \in Nat)
<1>1. Others \in Int /\ (Node # {} => Others \in Nat)
  BY FS_CardinalityType, FS_EmptySet, MessageAssumption DEF Others
<1> DEFINE Good(k) == Reached[k] \in Int /\ (Node # {} => Reached[k] \in Nat)
           S == {k \in Nat : k <= DefaultTtl => Good(k)}
<1>2. 0 \in S
  BY ReachedRecursion
<1>3. ASSUME NEW k \in S, k < DefaultTtl
      PROVE  k + 1 \in S
  <2>1. k \in Nat /\ k + 1 \in 1 .. DefaultTtl /\ Good(k)
    BY <1>3, MessageAssumption
  <2>2. Reached[k + 1] = Others * (1 + Reached[k])
    BY <2>1, ReachedRecursion
  <2>3. Good(k + 1)
    BY <1>1, <2>1, <2>2
  <2> QED  BY <2>1, <2>3
<1> HIDE DEF S
<1>4. \A k \in 0 .. DefaultTtl : k \in S
  BY <1>2, <1>3, UpTo, MessageAssumption
<1> QED  BY <1>1, <1>4, MessageAssumption DEF S

-----------------------------------------------------------------------------
(* The flood: what is still to be received *)

\* How often a packet with a hop count can still lead to a receipt.
Weight(ttl) == IF ttl = 0 THEN 0 ELSE 1 + Reached[ttl - 1]

\* What the packets of S can still lead to, one element for each.
Pending(S) == UNION {{pkt} \X (1 .. Weight(pkt.body.ttl)) : pkt \in S}

\* Encodings have different numbers, and hop counts only go down.
Numbered == \A x \in encoded : x.nr < Encodes(x.node)
HopsBounded == \A pkt \in net : pkt.body.ttl \in 0 .. DefaultTtl

\* Receipts so far, and those still to come, fit in what the encodings allow.
Budget ==
    /\ IsFiniteSet(Receipts) /\ IsFiniteSet(Pending(net))
    /\ Cardinality(Receipts) + Cardinality(Pending(net))
           <= Cardinality(encoded) * Reached[DefaultTtl]

LEMMA WeightType ==
    ASSUME Node # {}, NEW k \in 0 .. DefaultTtl
    PROVE  Weight(k) \in Nat /\ Reached[k] = Others * Weight(k)
<1>1. CASE k = 0
  BY <1>1, ReachedRecursion, ReachedType DEF Weight
<1>2. CASE k # 0
  <2>1. k \in 1 .. DefaultTtl /\ k - 1 \in 0 .. DefaultTtl
    BY <1>2, MessageAssumption
  <2>2. Reached[k - 1] \in Nat /\ Weight(k) = 1 + Reached[k - 1]
    BY <1>2, <2>1, ReachedType DEF Weight
  <2> QED  BY <2>1, <2>2, ReachedRecursion
<1> QED  BY <1>1, <1>2

\* The product of a set and the first w numbers.
LEMMA CopiesCount ==
    ASSUME NEW S, IsFiniteSet(S), NEW w \in Nat
    PROVE  IsFiniteSet(S \X (1 .. w)) /\ Cardinality(S \X (1 .. w)) = Cardinality(S) * w
<1>1. IsFiniteSet(1 .. w) /\ Cardinality(1 .. w) = w
  BY FS_Interval
<1> QED  BY <1>1, FS_Product

LEMMA PendingOne ==
    ASSUME Node # {}, NEW pkt, pkt.body.ttl \in 0 .. DefaultTtl
    PROVE  /\ IsFiniteSet(Pending({pkt}))
           /\ Cardinality(Pending({pkt})) = Weight(pkt.body.ttl)
<1> DEFINE w == Weight(pkt.body.ttl)
<1>1. w \in Nat
  BY WeightType
<1>2. Pending({pkt}) = {pkt} \X (1 .. w)
  BY DEF Pending
<1> HIDE DEF w
<1>3. IsFiniteSet({pkt}) /\ Cardinality({pkt}) = 1
  BY FS_Singleton
<1>4. IsFiniteSet(Pending({pkt})) /\ Cardinality(Pending({pkt})) = 1 * w
  BY <1>1, <1>2, <1>3, CopiesCount
<1> QED  BY <1>1, <1>4 DEF w

LEMMA PendingUnion ==
    ASSUME NEW S, NEW T, IsFiniteSet(Pending(S)), IsFiniteSet(Pending(T))
    PROVE  /\ IsFiniteSet(Pending(S \cup T))
           /\ Cardinality(Pending(S \cup T)) <= Cardinality(Pending(S)) + Cardinality(Pending(T))
<1> DEFINE A == Pending(S)
           B == Pending(T)
<1>1. Pending(S \cup T) = A \cup B
  BY DEF Pending
<1> HIDE DEF A, B
<1>2. IsFiniteSet(A) /\ IsFiniteSet(B) /\ IsFiniteSet(A \cap B)
  BY FS_Intersection DEF A, B
<1>3. Cardinality(A) \in Nat /\ Cardinality(B) \in Nat /\ Cardinality(A \cap B) \in Nat
  BY <1>2, FS_CardinalityType
<1>4. /\ IsFiniteSet(A \cup B)
      /\ Cardinality(A \cup B) = Cardinality(A) + Cardinality(B) - Cardinality(A \cap B)
  BY <1>2, FS_Union
<1>5. IsFiniteSet(A \cup B) /\ Cardinality(A \cup B) <= Cardinality(A) + Cardinality(B)
  BY <1>3, <1>4
<1> QED  BY <1>1, <1>5 DEF A, B

LEMMA PendingRemove ==
    ASSUME Node # {}, NEW S, NEW pkt \in S, pkt.body.ttl \in 0 .. DefaultTtl,
           IsFiniteSet(Pending(S))
    PROVE  /\ IsFiniteSet(Pending(S \ {pkt}))
           /\ Cardinality(Pending(S \ {pkt})) = Cardinality(Pending(S)) - Weight(pkt.body.ttl)
<1> DEFINE A == Pending(S)
           B == Pending({pkt})
<1>1. Pending(S \ {pkt}) = A \ B
  BY DEF Pending
<1>2. A \cap B = B
  BY DEF Pending
<1>3. Cardinality(B) = Weight(pkt.body.ttl) /\ IsFiniteSet(A)
  BY PendingOne
<1> HIDE DEF A, B
<1>4. IsFiniteSet(A \ B) /\ Cardinality(A \ B) = Cardinality(A) - Cardinality(A \cap B)
  BY <1>3, FS_Difference
<1> QED  BY <1>1, <1>2, <1>3, <1>4 DEF A

LEMMA PendingBroadcast ==
    ASSUME NEW n \in Node, NEW env, env.ttl \in 0 .. DefaultTtl
    PROVE  /\ IsFiniteSet(Pending(Broadcast(n, env)))
           /\ Cardinality(Pending(Broadcast(n, env))) = Reached[env.ttl]
<1> DEFINE B == Broadcast(n, env)
           w == Weight(env.ttl)
<1>1. IsFiniteSet(Node \ {n}) /\ Cardinality(Node \ {n}) = Others
  BY FS_RemoveElement, MessageAssumption DEF Others
<1> DEFINE f == [p \in Node \ {n} |-> [to |-> p, body |-> env]]
<1>2. f \in Surjection(Node \ {n}, B)
  BY DEF Broadcast, Surjection
<1>3. f \in Injection(Node \ {n}, B)
  <2>1. \A p, q \in Node \ {n} : f[p] = f[q] => p = q
    <3>1. \A p \in Node \ {n} : f[p].to = p
      OBVIOUS
    <3> HIDE DEF f
    <3> QED  BY <3>1
  <2>2. f \in [Node \ {n} -> B]
    BY <1>2 DEF Surjection
  <2> HIDE DEF f, B
  <2> QED  BY <2>1, <2>2 DEF Injection, IsInjective
<1> HIDE DEF f
<1>4. IsFiniteSet(B) /\ Cardinality(B) = Others
  BY <1>1, <1>2, <1>3, FS_Surjection
<1>5. Pending(B) = B \X (1 .. w)
  BY DEF Pending, Broadcast
<1>6. w \in Nat /\ Reached[env.ttl] = Others * w
  BY WeightType
<1> HIDE DEF B, w
<1>7. IsFiniteSet(Pending(B)) /\ Cardinality(Pending(B)) = Others * w
  BY <1>4, <1>5, <1>6, CopiesCount
<1> QED  BY <1>6, <1>7 DEF B

\* Receipts change with messages_received only.
LEMMA ReceiptsSame ==
    ASSUME \A n \in Node : stats'[n].messages_received = stats[n].messages_received
    PROVE  Receipts' = Receipts
  BY DEF Receipts

LEMMA ReceiptsAdd ==
    ASSUME TypeOK, IsFiniteSet(Receipts), NEW n \in Node, stats' = Count(n, 0, 1, 0, 0)
    PROVE  IsFiniteSet(Receipts') /\ Cardinality(Receipts') = Cardinality(Receipts) + 1
<1> DEFINE r == stats[n].messages_received
           new == <<n, r + 1>>
<1>1. \A k \in Node : stats[k].messages_received \in Nat
  BY DEF TypeOK, MessageStats
<1>2. \A k \in Node : stats'[k].messages_received =
          IF k = n THEN r + 1 ELSE stats[k].messages_received
  BY <1>1, CountStep
<1>3. 1 .. r + 1 = (1 .. r) \cup {r + 1}
  BY <1>1
<1>4. Receipts' = Receipts \cup {new}
  <2>1. \A k \in Node : {k} \X (1 .. stats'[k].messages_received) =
            ({k} \X (1 .. stats[k].messages_received)) \cup (IF k = n THEN {new} ELSE {})
    <3> TAKE k \in Node
    <3>1. CASE k = n
      BY <1>2, <1>3, <3>1
    <3>2. CASE k # n
      BY <1>2, <3>2
    <3> QED  BY <3>1, <3>2
  <2> HIDE DEF new
  <2>2. \A x : x \in Receipts' <=> \E k \in Node : x \in {k} \X (1 .. stats'[k].messages_received)
    BY DEF Receipts
  <2>3. \A x : x \in Receipts <=> \E k \in Node : x \in {k} \X (1 .. stats[k].messages_received)
    BY DEF Receipts
  <2> QED  BY <2>1, <2>2, <2>3
<1>5. new \notin Receipts
  BY <1>1 DEF Receipts
<1> HIDE DEF new
<1> QED  BY <1>4, <1>5, FS_AddElement, FS_CardinalityType

-----------------------------------------------------------------------------
(* The flood: a step for each action *)

\* Only gossip_verify_envelope changes messages_received.
LEMMA ReceivedCases ==
    ASSUME TypeOK, [Next]_vars
    PROVE  \/ \A n \in Node : stats'[n].messages_received = stats[n].messages_received
           \/ \E pkt \in net : \E t \in Readings(pkt.to) : VerifyEnvelope(pkt, t)
<1>1. \A n \in Node : stats[n].messages_received \in Nat
  BY DEF TypeOK, MessageStats
<1>2. ASSUME NEW n \in Node, NEW pub \in Nat, NEW dup \in Nat, NEW drop \in Nat,
             stats' = Count(n, pub, 0, dup, drop)
      PROVE  \A k \in Node : stats'[k].messages_received = stats[k].messages_received
  <2>1. \A k \in Node : stats'[k].messages_received =
            IF k = n THEN stats[k].messages_received + 0 ELSE stats[k].messages_received
    BY <1>2, CountStep
  <2> QED  BY <1>1, <2>1
<1>3. ASSUME NEW n \in Node, NEW m \in Message, NEW t \in Readings(n),
             Publish(n, m, t) \/ PublishDuplicate(n, m, t) \/ PublishUnsigned(n, m, t)
      PROVE  \A k \in Node : stats'[k].messages_received = stats[k].messages_received
  <2>1. CASE Publish(n, m, t)
    BY <1>2, <2>1 DEF Publish
  <2>2. CASE PublishDuplicate(n, m, t)
    BY <1>2, <2>2 DEF PublishDuplicate
  <2>3. CASE PublishUnsigned(n, m, t)
    BY <2>3 DEF PublishUnsigned
  <2> QED  BY <1>3, <2>1, <2>2, <2>3
<1>4. ASSUME NEW pkt \in net, NEW t, DropEnvelope(pkt, t)
      PROVE  \A k \in Node : stats'[k].messages_received = stats[k].messages_received
  <2>1. pkt.to \in Node
    BY DEF TypeOK, Packet
  <2> QED  BY <1>2, <1>4, <2>1 DEF DropEnvelope
<1>5. ASSUME NEW n \in Node, Maintain(n)
      PROVE  \A k \in Node : stats'[k].messages_received = stats[k].messages_received
  BY <1>5 DEF Maintain, Heartbeat, TypeOK
<1>6. CASE stats' = stats
  BY <1>6
<1> QED  BY <1>3, <1>4, <1>5, <1>6 DEF Next, vars, EncodeEnvelope, RecordAck, Damage, Tick

\* An encoding is a new one, and pays for its broadcast.
LEMMA EncodeBudget ==
    ASSUME TypeOK, Finite, Numbered, HopsBounded, Budget,
           NEW n \in Node, NEW m \in Message, NEW t \in Readings(n), EncodeEnvelope(n, m, t)
    PROVE  Numbered' /\ HopsBounded' /\ Budget'
<1> DEFINE new == [node |-> n, id |-> m, nr |-> Encodes(n)]
           Of(k) == {x \in encoded : x.node = k}
           env == build_envelope(n, m, t)
           cost == Reached[DefaultTtl]
<1>1. encoded' = encoded \cup {new} /\ new.node = n /\ new.nr = Encodes(n)
  BY DEF EncodeEnvelope
<1>2. net' = net \cup Broadcast(n, env) /\ env.ttl = DefaultTtl /\ stats' = stats
  BY DEF EncodeEnvelope, build_envelope
<1> HIDE DEF new, env
<1>3. \A k : Encodes(k) \in Nat
  BY EncodesType
<1>4. new \notin encoded
  BY <1>1, <1>3 DEF Numbered
<1>5. \A k : Encodes(k)' = IF k = n THEN Encodes(k) + 1 ELSE Encodes(k)
  <2> TAKE k
  <2>1. IsFiniteSet(Of(k))
    BY FS_Subset DEF Finite
  <2>2. CASE k = n
    <3>1. {x \in encoded' : x.node = k} = Of(k) \cup {new}
      BY <1>1, <2>2
    <3>2. Cardinality(Of(k) \cup {new}) = Cardinality(Of(k)) + 1
      BY <1>4, <2>1, FS_AddElement
    <3> QED  BY <2>2, <3>1, <3>2 DEF Encodes
  <2>3. CASE k # n
    <3>1. {x \in encoded' : x.node = k} = Of(k)
      BY <1>1, <2>3
    <3> QED  BY <2>3, <3>1 DEF Encodes
  <2> QED  BY <2>2, <2>3
<1>6. Numbered'
  <2>1. \A x \in encoded : x.nr \in Nat
    BY DEF TypeOK, Encoding
  <2> QED  BY <1>1, <1>3, <1>5, <2>1 DEF Numbered
<1>7. HopsBounded'
  <2>1. \A q \in Broadcast(n, env) : q.body.ttl = DefaultTtl
    BY <1>2 DEF Broadcast
  <2> QED  BY <1>2, <2>1, MessageAssumption DEF HopsBounded
<1>8. Receipts' = Receipts
  BY <1>2, ReceiptsSame
<1>9. cost \in Nat
  BY ReachedType, MessageAssumption
<1>10. /\ IsFiniteSet(Pending(Broadcast(n, env)))
       /\ Cardinality(Pending(Broadcast(n, env))) = cost
  BY <1>2, PendingBroadcast, MessageAssumption
<1>11. /\ IsFiniteSet(Pending(net'))
       /\ Cardinality(Pending(net')) <= Cardinality(Pending(net)) + cost
  BY <1>2, <1>10, PendingUnion DEF Budget
<1>12. Cardinality(encoded') = Cardinality(encoded) + 1 /\ Cardinality(encoded) \in Nat
  BY <1>1, <1>4, FS_AddElement, FS_CardinalityType DEF Finite
<1>13. Cardinality(encoded') * cost = Cardinality(encoded) * cost + cost
  BY <1>9, <1>12
<1>14. /\ Cardinality(Receipts) \in Nat /\ Cardinality(Pending(net)) \in Nat
       /\ Cardinality(Pending(net')) \in Nat /\ Cardinality(encoded) * cost \in Nat
  BY <1>9, <1>11, <1>12, FS_CardinalityType DEF Budget
<1>15. /\ IsFiniteSet(Receipts)
       /\ Cardinality(Receipts) + Cardinality(Pending(net)) <= Cardinality(encoded) * cost
  BY DEF Budget
<1>16. Cardinality(Receipts) + Cardinality(Pending(net')) <= Cardinality(encoded') * cost
  BY <1>9, <1>11, <1>13, <1>14, <1>15
<1>17. Budget'
  <2> HIDE DEF cost
  <2>1. Pending(net)' = Pending(net') /\ cost' = cost
    BY DEF Pending, Weight, cost
  <2> QED  BY <1>8, <1>11, <1>15, <1>16, <2>1 DEF Budget, cost
<1> QED  BY <1>6, <1>7, <1>17

\* Steps that encode nothing must not need more than they find.
LEMMA BudgetKept ==
    ASSUME Finite, Numbered, Budget, encoded' = encoded,
           IsFiniteSet(Receipts'), IsFiniteSet(Pending(net')),
           Cardinality(Receipts') + Cardinality(Pending(net'))
               <= Cardinality(Receipts) + Cardinality(Pending(net))
    PROVE  Numbered' /\ Budget'
<1> DEFINE cost == Reached[DefaultTtl]
<1>1. cost \in Int /\ Cardinality(encoded) \in Nat
  BY ReachedType, FS_CardinalityType, MessageAssumption DEF Finite
<1>2. /\ Cardinality(Receipts) \in Nat /\ Cardinality(Pending(net)) \in Nat
      /\ Cardinality(Receipts') \in Nat /\ Cardinality(Pending(net')) \in Nat
      /\ Cardinality(encoded) * cost \in Int
  BY <1>1, FS_CardinalityType DEF Budget
<1>3. Cardinality(Receipts) + Cardinality(Pending(net)) <= Cardinality(encoded) * cost
  BY DEF Budget
<1>4. Cardinality(Receipts') + Cardinality(Pending(net')) <= Cardinality(encoded') * cost
  BY <1>2, <1>3
<1> HIDE DEF cost
<1>5. Pending(net)' = Pending(net') /\ cost' = cost
  BY DEF Pending, Weight, cost
<1>6. Budget'
  BY <1>4, <1>5 DEF Budget, cost
<1>7. Numbered'
  BY DEF Numbered, Encodes
<1> QED  BY <1>6, <1>7

\* A packet that leaves, and what takes its place.
LEMMA PendingReplaced ==
    ASSUME TypeOK, HopsBounded, IsFiniteSet(Pending(net)), NEW pkt \in net, NEW T,
           IsFiniteSet(Pending(T)), net' = (net \ {pkt}) \cup T
    PROVE  /\ pkt.to \in Node /\ pkt.body.ttl \in 0 .. DefaultTtl
           /\ IsFiniteSet(Pending(net'))
           /\ Cardinality(Pending(net')) <=
                  Cardinality(Pending(net)) - Weight(pkt.body.ttl) + Cardinality(Pending(T))
<1>1. pkt.to \in Node /\ pkt.body.ttl \in 0 .. DefaultTtl
  BY DEF TypeOK, Packet, HopsBounded
<1>2. /\ IsFiniteSet(Pending(net \ {pkt}))
      /\ Cardinality(Pending(net \ {pkt})) = Cardinality(Pending(net)) - Weight(pkt.body.ttl)
  BY <1>1, PendingRemove
<1> QED  BY <1>1, <1>2, PendingUnion

\* A receipt is one the packet was counted for, and what it forwards has one
\* hop less.
LEMMA VerifyBudget ==
    ASSUME TypeOK, Finite, Numbered, HopsBounded, Budget,
           NEW pkt \in net, NEW t \in Readings(pkt.to), VerifyEnvelope(pkt, t)
    PROVE  Numbered' /\ HopsBounded' /\ Budget'
<1> DEFINE n == pkt.to
           env == Forwarded(pkt.body)
           k == pkt.body.ttl
<1>1. n \in Node /\ k \in 1 .. DefaultTtl
  BY MessageAssumption DEF TypeOK, Packet, HopsBounded, VerifyEnvelope, verify_envelope
<1>2. env.ttl = k - 1 /\ k - 1 \in 0 .. DefaultTtl
  BY <1>1, MessageAssumption DEF Forwarded, saturating_sub
<1>3. Weight(k) = 1 + Reached[k - 1] /\ Reached[k - 1] \in Nat
  BY <1>1, <1>2, ReachedType DEF Weight
<1>4. PICK T \in {{}, Broadcast(n, env)} : net' = (net \ {pkt}) \cup T
  BY DEF VerifyEnvelope
<1>5. /\ IsFiniteSet(Pending(T)) /\ Cardinality(Pending(T)) \in Nat
      /\ Cardinality(Pending(T)) <= Reached[k - 1]
  <2>1. CASE T = {}
    <3>1. Pending(T) = {}
      BY <2>1 DEF Pending
    <3> QED  BY <1>3, <3>1, FS_EmptySet
  <2>2. CASE T = Broadcast(n, env)
    <3>1. /\ IsFiniteSet(Pending(Broadcast(n, env)))
          /\ Cardinality(Pending(Broadcast(n, env))) = Reached[k - 1]
      BY <1>1, <1>2, PendingBroadcast
    <3> QED  BY <1>3, <2>2, <3>1
  <2> QED  BY <1>4, <2>1, <2>2
<1>6. HopsBounded'
  <2>1. \A q \in Broadcast(n, env) : q.body.ttl = k - 1
    BY <1>2 DEF Broadcast
  <2> HIDE DEF n, env, k
  <2> QED  BY <1>2, <1>4, <2>1 DEF HopsBounded
<1>7. IsFiniteSet(Receipts') /\ Cardinality(Receipts') = Cardinality(Receipts) + 1
  BY <1>1, ReceiptsAdd DEF VerifyEnvelope, Budget
<1>8. /\ IsFiniteSet(Pending(net'))
      /\ Cardinality(Pending(net')) <=
             Cardinality(Pending(net)) - Weight(k) + Cardinality(Pending(T))
  BY <1>4, <1>5, PendingReplaced DEF Budget
<1>9. /\ Cardinality(Receipts) \in Nat /\ Cardinality(Pending(net)) \in Nat
      /\ Cardinality(Pending(net')) \in Nat
  BY <1>8, FS_CardinalityType DEF Budget
<1>10. Cardinality(Receipts') + Cardinality(Pending(net'))
           <= Cardinality(Receipts) + Cardinality(Pending(net))
  BY <1>3, <1>5, <1>7, <1>8, <1>9
<1>11. encoded' = encoded
  BY DEF VerifyEnvelope
<1> QED  BY <1>6, <1>7, <1>8, <1>10, <1>11, BudgetKept

\* A packet is dropped, or damaged without a change of its hop count.
LEMMA LossBudget ==
    ASSUME TypeOK, Finite, Numbered, HopsBounded, Budget, NEW pkt \in net, NEW T,
           net' = (net \ {pkt}) \cup T,
           T = {} \/ \E q : T = {q} /\ q.body.ttl = pkt.body.ttl,
           encoded' = encoded, Receipts' = Receipts
    PROVE  Numbered' /\ HopsBounded' /\ Budget'
<1>1. Node # {} /\ pkt.body.ttl \in 0 .. DefaultTtl
  BY DEF TypeOK, Packet, HopsBounded
<1>2. Weight(pkt.body.ttl) \in Nat
  BY <1>1, WeightType
<1>3. /\ IsFiniteSet(Pending(T)) /\ Cardinality(Pending(T)) \in Nat
      /\ Cardinality(Pending(T)) <= Weight(pkt.body.ttl)
  <2>1. CASE T = {}
    <3>1. Pending(T) = {}
      BY <2>1 DEF Pending
    <3> QED  BY <1>2, <3>1, FS_EmptySet
  <2>2. ASSUME NEW q, T = {q}, q.body.ttl = pkt.body.ttl
        PROVE  /\ IsFiniteSet(Pending(T))
               /\ Cardinality(Pending(T)) = Weight(pkt.body.ttl)
    BY <1>1, <2>2, PendingOne
  <2> QED  BY <1>2, <2>1, <2>2
<1>4. HopsBounded'
  BY <1>1 DEF HopsBounded
<1>5. /\ IsFiniteSet(Pending(net'))
      /\ Cardinality(Pending(net')) <=
             Cardinality(Pending(net)) - Weight(pkt.body.ttl) + Cardinality(Pending(T))
  BY <1>3, PendingReplaced DEF Budget
<1>6. /\ Cardinality(Receipts) \in Nat /\ Cardinality(Pending(net)) \in Nat
      /\ Cardinality(Pending(net')) \in Nat /\ IsFiniteSet(Receipts')
  BY <1>5, FS_CardinalityType DEF Budget
<1>7. Cardinality(Receipts') + Cardinality(Pending(net'))
           <= Cardinality(Receipts) + Cardinality(Pending(net))
  BY <1>2, <1>3, <1>5, <1>6
<1> QED  BY <1>4, <1>5, <1>6, <1>7, BudgetKept

\* Every step stays in the budget.
LEMMA FloodStep ==
    ASSUME TypeOK, Finite, Numbered, HopsBounded, Budget, [Next]_vars
    PROVE  Numbered' /\ HopsBounded' /\ Budget'
<1>1. ASSUME NEW n \in Node, NEW m \in Message, NEW t \in Readings(n), EncodeEnvelope(n, m, t)
      PROVE  Numbered' /\ HopsBounded' /\ Budget'
  BY <1>1, EncodeBudget
<1>2. ASSUME NEW pkt \in net, NEW t \in Readings(pkt.to), VerifyEnvelope(pkt, t)
      PROVE  Numbered' /\ HopsBounded' /\ Budget'
  BY <1>2, VerifyBudget
<1>3. ASSUME NEW pkt \in net, NEW t \in Readings(pkt.to), DropEnvelope(pkt, t)
      PROVE  Numbered' /\ HopsBounded' /\ Budget'
  <2>1. \A n \in Node : stats[n].messages_received \in Nat
    BY DEF TypeOK, MessageStats
  <2>2. pkt.to \in Node /\ stats' = Count(pkt.to, 0, 0, 0, 1)
    BY <1>3 DEF DropEnvelope, TypeOK, Packet
  <2>3. \A n \in Node : stats'[n].messages_received =
            IF n = pkt.to THEN stats[n].messages_received + 0 ELSE stats[n].messages_received
    BY <2>2, CountStep
  <2>4. Receipts' = Receipts
    BY <2>1, <2>3, ReceiptsSame
  <2>5. net' = (net \ {pkt}) \cup {} /\ encoded' = encoded
    BY <1>3 DEF DropEnvelope
  <2> QED  BY <2>4, <2>5, LossBudget
<1>4. ASSUME NEW pkt \in net, Damage(pkt)
      PROVE  Numbered' /\ HopsBounded' /\ Budget'
  <2>1. PICK q \in Packet : /\ net' = (net \ {pkt}) \cup {q}
                            /\ q.body.ttl = pkt.body.ttl
    BY <1>4, DamagedPacket
  <2>2. encoded' = encoded /\ stats' = stats
    BY <1>4 DEF Damage
  <2>3. Receipts' = Receipts
    BY <2>2, ReceiptsSame
  <2> QED  BY <2>1, <2>2, <2>3, LossBudget
<1>5. CASE /\ UNCHANGED <<net, encoded>>
           /\ \A n \in Node : stats'[n].messages_received = stats[n].messages_received
  <2>1. Receipts' = Receipts
    BY <1>5, ReceiptsSame
  <2>2. /\ IsFiniteSet(Receipts') /\ IsFiniteSet(Pending(net'))
        /\ Cardinality(Receipts') + Cardinality(Pending(net'))
               <= Cardinality(Receipts) + Cardinality(Pending(net))
    BY <1>5, <2>1, FS_CardinalityType DEF Budget
  <2>3. HopsBounded'
    BY <1>5 DEF HopsBounded
  <2> QED  BY <1>5, <2>2, <2>3, BudgetKept
<1>6. \/ UNCHANGED <<net, encoded>>
      \/ \E n \in Node, m \in Message : \E t \in Readings(n) : EncodeEnvelope(n, m, t)
      \/ \E pkt \in net : \E t \in Readings(pkt.to) :
             VerifyEnvelope(pkt, t) \/ DropEnvelope(pkt, t)
      \/ \E pkt \in net : Damage(pkt)
  BY DEF Next, vars, Publish, PublishDuplicate, PublishUnsigned, RecordAck, Maintain,
         Heartbeat, Tick
<1> QED  BY <1>1, <1>2, <1>3, <1>4, <1>5, <1>6, ReceivedCases

\* However nodes forward, receive a message again and damage it, one encoded
\* envelope leads to no more receipts than the hop count and the number of
\* nodes allow.
THEOREM FloodTheorem == Spec => []FloodBounded
<1> DEFINE FInv == Numbered /\ HopsBounded /\ Budget
<1>1. Init => FInv
  <2> SUFFICES ASSUME Init PROVE FInv
    OBVIOUS
  <2>1. Receipts = {}
    BY DEF Init, Receipts
  <2>2. net = {} /\ encoded = {} /\ Pending(net) = {}
    BY DEF Init, Pending
  <2>3. Reached[DefaultTtl] \in Int
    BY ReachedType, MessageAssumption
  <2>4. Budget
    BY <2>1, <2>2, <2>3, FS_EmptySet DEF Budget
  <2> QED  BY <2>2, <2>4 DEF Numbered, HopsBounded
<1>2. MInv /\ FInv /\ [Next]_vars => FInv'
  BY FloodStep DEF MInv
<1>3. MInv /\ FInv => FloodBounded
  <2> SUFFICES ASSUME MInv, FInv PROVE FloodBounded
    OBVIOUS
  <2> DEFINE cost == Reached[DefaultTtl]
  <2>1. cost \in Int /\ Cardinality(encoded) \in Nat
    BY ReachedType, FS_CardinalityType, MessageAssumption DEF MInv, Finite
  <2>2. /\ Cardinality(Receipts) \in Nat /\ Cardinality(Pending(net)) \in Nat
        /\ Cardinality(encoded) * cost \in Int
    BY <2>1, FS_CardinalityType DEF Budget
  <2>3. Cardinality(Receipts) + Cardinality(Pending(net)) <= Cardinality(encoded) * cost
    BY DEF Budget
  <2> QED  BY <2>2, <2>3 DEF FloodBounded
<1> QED  BY MessagesInductive, <1>1, <1>2, <1>3, PTL DEF Spec
=============================================================================
