------------------------------ MODULE Messages -------------------------------
(***************************************************************************)
(* Gossip messages: publishing, the dedup cache, the quorum tracker and    *)
(* the verification of envelopes (gossip.rs, dedup.rs, quorum.rs,          *)
(* envelope.rs), with hosts that broadcast what they encode and forward    *)
(* what they have verified, and a transport that may damage an envelope.   *)
(*                                                                         *)
(* Every call runs under its engine's mutex and is one action.  A call has *)
(* read the clock before it took the mutex, so it works with any reading   *)
(* of the last Lag units, and may follow a call that had a later one.      *)
(*                                                                         *)
(* Data abstraction: a message is a payload with its type; its id is the   *)
(* message (collision freedom); a signature is its key and signing input;  *)
(* a node's key does not change here (Handshake and Lineage rotate).  The  *)
(* quorum fraction is a quotient of integers, not an f64.                  *)
(***************************************************************************)
EXTENDS Integers, FiniteSets

CONSTANTS
    Node,             \* nodes that publish, forward and verify
    Message,          \* payloads with their types
    Acker,            \* peers whose acknowledgements a host records
    Size,             \* Size[m]: payload length
    MaxMessageBytes,  \* ResolvedConfig.max_message_bytes
    DedupTtl,         \* DedupCache.ttl_ms
    ReplayWindow,     \* ResolvedConfig.replay_window_ms
    DefaultTtl,       \* ResolvedConfig.default_ttl
    QuorumNum, QuorumDen,   \* quorum_fraction = QuorumNum / QuorumDen
    Skew,             \* Skew[n]: how far n's clock runs ahead of now
    Lag,              \* longest wait for the mutex, or step back of a clock
    Damaging,         \* the transport may damage an envelope
    CryptoFaults,     \* signing may return an error
    MaxCalls,         \* bound: publish calls of each node's host
    MaxEncodes,       \* bound: envelopes each node's host encodes
    MaxTime           \* bound: the last instant

ASSUME MessageAssumption ==
    /\ Size \in [Message -> Nat] /\ MaxMessageBytes \in Nat
    /\ DedupTtl \in Nat /\ ReplayWindow \in Nat /\ DefaultTtl \in Nat
    /\ Skew \in [Node -> Nat] /\ Lag \in Nat
    /\ IsFiniteSet(Node) /\ IsFiniteSet(Message) /\ IsFiniteSet(Acker)

\* GossipConfig::resolve refuses a fraction out of 0.0 ..= 1.0.
ASSUME QuorumAssumption ==
    QuorumNum \in Nat /\ QuorumDen \in Nat \ {0} /\ QuorumNum <= QuorumDen

ASSUME MessageBoundAssumption ==
    /\ Damaging \in BOOLEAN /\ CryptoFaults \in BOOLEAN
    /\ MaxCalls \in Nat /\ MaxEncodes \in [Node -> Nat] /\ MaxTime \in Nat

VARIABLES
    dedup,      \* dedup[n]: entries of the DedupCache of n
    acks,       \* acks[n][m]: QuorumTracker.acks of n for m
    stats,      \* stats[n]: the message part of GossipStats
    net,        \* envelopes on their way
    now,        \* real time
    calls,      \* calls[n]: publish calls n's host has made
    encoded,    \* history: envelopes encoded, numbered for each node
    published,  \* history: successful publish calls
    acked,      \* history: acked[n][m]: acks recorded since m was published
    accepted,   \* history: verified envelopes with their receiver
    repeated    \* history: <<n, m>>: n has verified m more than once

vars == <<dedup, acks, stats, net, now, calls, encoded, published, acked,
          accepted, repeated>>

-----------------------------------------------------------------------------
(* Values *)

Entry == [id : Message, at : Nat]

Signature == [key : Node, message_id : Message, payload : Message]
GossipEnvelope == [message_id : Message, payload : Message,
                   sender_public_key : Node, signature : Signature,
                   timestamp : Nat, ttl : Nat]
Packet == [to : Node, body : GossipEnvelope]

Encoding == [node : Node, id : Message, nr : Nat]
Publication == [node : Node, id : Message, at : Nat, when : Nat, call : Nat]
Acceptance == [node : Node, body : GossipEnvelope, at : Nat]

MessageStats == [messages_published : Nat, messages_received : Nat,
                 messages_deduplicated : Nat, messages_dropped : Nat,
                 dedup_cache_size : Nat]

saturating_sub(a, b) == IF a > b THEN a - b ELSE 0

\* What current_time_unix_ms may have returned to a call of n that now holds
\* the mutex.
Clock(n) == now + Skew[n]
Readings(n) == saturating_sub(Clock(n), Lag) .. Clock(n)

-----------------------------------------------------------------------------
(* DedupCache and QuorumTracker *)

\* Mutant: an entry of exactly the time to live is evicted.
evict_expired_early(n, t) == {e \in dedup[n] : saturating_sub(t, e.at) < DedupTtl}

\* Mutant: the operands of the subtraction exchanged.
evict_expired_swapped(n, t) == {e \in dedup[n] : saturating_sub(e.at, t) <= DedupTtl}

\* What DedupCache::evict_expired leaves.
evict_expired(n, t) == {e \in dedup[n] : saturating_sub(t, e.at) <= DedupTtl}

\* Mutant: entries are looked up before the expired ones are evicted, and an
\* entry only counts at the instant it was made.
is_duplicate_now(n, m, t) == \E e \in dedup[n] : e.id = m /\ e.at = t

\* DedupCache::is_duplicate, which evicts first.
is_duplicate(n, m, t) == \E e \in evict_expired(n, t) : e.id = m

\* DedupCache::insert after is_duplicate has returned false.
Inserted(n, m, t) == evict_expired(n, t) \cup {[id |-> m, at |-> t]}

\* The ceiling of total_peers * quorum_fraction.
Required(total) == (total * QuorumNum + QuorumDen - 1) \div QuorumDen

has_quorum(n, m, total) == total > 0 /\ Cardinality(acks[n][m]) >= Required(total)

-----------------------------------------------------------------------------
(* Envelopes *)

signing_input(key, m) == [key |-> key, message_id |-> m, payload |-> m]

build_envelope(n, m, t) ==
    [message_id |-> m, payload |-> m, sender_public_key |-> n,
     signature |-> signing_input(n, m), timestamp |-> t, ttl |-> DefaultTtl]

\* Mutant: the hop count is not looked at.
verify_envelope_any_ttl(env, t) ==
    /\ env.message_id = env.payload
    /\ saturating_sub(t, env.timestamp) <= ReplayWindow
    /\ Size[env.payload] <= MaxMessageBytes
    /\ env.signature = [key |-> env.sender_public_key, message_id |-> env.message_id,
                        payload |-> env.payload]

\* Mutant: the signature is not checked.
verify_envelope_unsigned(env, t) ==
    /\ env.message_id = env.payload
    /\ saturating_sub(t, env.timestamp) <= ReplayWindow
    /\ env.ttl # 0
    /\ Size[env.payload] <= MaxMessageBytes

\* envelope::verify_envelope
verify_envelope(env, t) ==
    /\ env.message_id = env.payload
    /\ saturating_sub(t, env.timestamp) <= ReplayWindow
    /\ env.ttl # 0
    /\ Size[env.payload] <= MaxMessageBytes
    /\ env.signature = [key |-> env.sender_public_key, message_id |-> env.message_id,
                        payload |-> env.payload]

\* A host sends an envelope to every other node.
Broadcast(n, env) == {[to |-> p, body |-> env] : p \in Node \ {n}}

\* "Forwarding nodes decrement TTL before re-broadcasting."
Forwarded(env) ==
    [message_id |-> env.message_id, payload |-> env.payload,
     sender_public_key |-> env.sender_public_key, signature |-> env.signature,
     timestamp |-> env.timestamp, ttl |-> saturating_sub(env.ttl, 1)]

-----------------------------------------------------------------------------
(* Publishing *)

\* Mutant: an envelope that is dropped is taken off the ones received.
Count_taken_back(n, pub, recv, dup, drop) ==
    [stats EXCEPT ![n] =
        [messages_published |-> @.messages_published + pub,
         messages_received |-> @.messages_received + recv - drop,
         messages_deduplicated |-> @.messages_deduplicated + dup,
         messages_dropped |-> @.messages_dropped + drop,
         dedup_cache_size |-> @.dedup_cache_size]]

Count(n, pub, recv, dup, drop) ==
    [stats EXCEPT ![n] =
        [messages_published |-> @.messages_published + pub,
         messages_received |-> @.messages_received + recv,
         messages_deduplicated |-> @.messages_deduplicated + dup,
         messages_dropped |-> @.messages_dropped + drop,
         dedup_cache_size |-> @.dedup_cache_size]]

\* publish refuses an oversized payload before it changes anything.
CanPublish(n, m) == calls[n] < MaxCalls /\ Size[m] <= MaxMessageBytes

\* gossip_publish of a message the cache does not have.
Publish(n, m, t) ==
    /\ CanPublish(n, m)
    /\ ~is_duplicate(n, m, t)
    /\ dedup' = [dedup EXCEPT ![n] = Inserted(n, m, t)]
    /\ stats' = Count(n, 1, 0, 0, 0)
    /\ calls' = [calls EXCEPT ![n] = @ + 1]
    /\ published' = published \cup
           {[node |-> n, id |-> m, at |-> t, when |-> now, call |-> calls[n]]}
    /\ acked' = [acked EXCEPT ![n][m] = {}]
    /\ UNCHANGED <<acks, net, now, encoded, accepted, repeated>>

\* gossip_publish of a message the cache has.
PublishDuplicate(n, m, t) ==
    /\ CanPublish(n, m)
    /\ is_duplicate(n, m, t)
    /\ dedup' = [dedup EXCEPT ![n] = evict_expired(n, t)]
    /\ stats' = Count(n, 0, 0, 1, 0)
    /\ calls' = [calls EXCEPT ![n] = @ + 1]
    /\ UNCHANGED <<acks, net, now, encoded, published, acked, accepted, repeated>>

\* gossip_publish whose signing fails, after the message entered the cache.
PublishUnsigned(n, m, t) ==
    /\ CanPublish(n, m)
    /\ CryptoFaults
    /\ ~is_duplicate(n, m, t)
    /\ dedup' = [dedup EXCEPT ![n] = Inserted(n, m, t)]
    /\ calls' = [calls EXCEPT ![n] = @ + 1]
    /\ UNCHANGED <<acks, stats, net, now, encoded, published, acked, accepted, repeated>>

\* How many envelopes n has encoded.
Encodes(n) == Cardinality({x \in encoded : x.node = n})

\* gossip_encode_envelope, which checks neither the size nor the cache; the
\* host broadcasts the result.
EncodeEnvelope(n, m, t) ==
    /\ Encodes(n) < MaxEncodes[n]
    /\ encoded' = encoded \cup {[node |-> n, id |-> m, nr |-> Encodes(n)]}
    /\ net' = net \cup Broadcast(n, build_envelope(n, m, t))
    /\ UNCHANGED <<dedup, acks, stats, now, calls, published, acked, accepted, repeated>>

\* QuorumTracker::record_ack, called by a host that was told of an ack.
RecordAck(n, m, p) ==
    /\ acks' = [acks EXCEPT ![n][m] = @ \cup {p}]
    /\ acked' = [acked EXCEPT ![n][m] = @ \cup {p}]
    /\ UNCHANGED <<dedup, stats, net, now, calls, encoded, published, accepted, repeated>>

-----------------------------------------------------------------------------
(* Receiving *)

\* gossip_verify_envelope on an envelope that verifies; the host may forward it.
VerifyEnvelope(pkt, t) ==
    LET n == pkt.to
        seen == {x \in accepted : x.node = n /\ x.body.payload = pkt.body.payload}
    IN  /\ verify_envelope(pkt.body, t)
        /\ stats' = Count(n, 0, 1, 0, 0)
        /\ \E forward \in {{}, Broadcast(n, Forwarded(pkt.body))} :
               net' = (net \ {pkt}) \cup forward
        /\ accepted' = accepted \cup {[node |-> n, body |-> pkt.body, at |-> t]}
        /\ repeated' = IF seen = {} THEN repeated
                       ELSE repeated \cup {<<n, pkt.body.payload>>}
        /\ UNCHANGED <<dedup, acks, now, calls, encoded, published, acked>>

\* gossip_verify_envelope on any other envelope.
DropEnvelope(pkt, t) ==
    /\ ~verify_envelope(pkt.body, t)
    /\ stats' = Count(pkt.to, 0, 0, 0, 1)
    /\ net' = net \ {pkt}
    /\ UNCHANGED <<dedup, acks, now, calls, encoded, published, acked, accepted, repeated>>

\* The transport damages the id, the payload and the timestamp.
Damage(pkt) ==
    /\ Damaging
    /\ \E id, payload \in Message, timestamp \in 0 .. MaxTime :
           net' = (net \ {pkt}) \cup
               {[to |-> pkt.to, body |->
                   [message_id |-> id, payload |-> payload,
                    sender_public_key |-> pkt.body.sender_public_key,
                    signature |-> pkt.body.signature,
                    timestamp |-> timestamp, ttl |-> pkt.body.ttl]]}
    /\ UNCHANGED <<dedup, acks, stats, now, calls, encoded, published, acked,
                   accepted, repeated>>

-----------------------------------------------------------------------------
(* Maintenance and time *)

\* Mutant: the tracker is never pruned.
pruned_never(n, t) == acks[n]

\* What QuorumTracker::prune leaves, with the ids the eviction left.
pruned(n, t) == [m \in Message |-> IF \E e \in evict_expired(n, t) : e.id = m
                                   THEN acks[n][m] ELSE {}]

\* The cache and tracker steps of heartbeat.
Heartbeat(n, t) ==
    /\ dedup' = [dedup EXCEPT ![n] = evict_expired(n, t)]
    /\ acks' = [acks EXCEPT ![n] = pruned(n, t)]
    /\ stats' = [stats EXCEPT ![n] =
           [messages_published |-> @.messages_published,
            messages_received |-> @.messages_received,
            messages_deduplicated |-> @.messages_deduplicated,
            messages_dropped |-> @.messages_dropped,
            dedup_cache_size |-> Cardinality(evict_expired(n, t))]]
    /\ UNCHANGED <<net, now, calls, encoded, published, acked, accepted, repeated>>

Tick ==
    /\ now < MaxTime
    /\ now' = now + 1
    /\ UNCHANGED <<dedup, acks, stats, net, calls, encoded, published, acked,
                   accepted, repeated>>

-----------------------------------------------------------------------------

Init ==
    /\ dedup = [n \in Node |-> {}]
    /\ acks = [n \in Node |-> [m \in Message |-> {}]]
    /\ stats = [n \in Node |->
           [messages_published |-> 0, messages_received |-> 0,
            messages_deduplicated |-> 0, messages_dropped |-> 0, dedup_cache_size |-> 0]]
    /\ net = {}
    /\ now = 0
    /\ calls = [n \in Node |-> 0]
    /\ encoded = {}
    /\ published = {}
    /\ acked = [n \in Node |-> [m \in Message |-> {}]]
    /\ accepted = {}
    /\ repeated = {}

Maintain(n) == \E t \in Readings(n) : Heartbeat(n, t)

Next ==
    \/ \E n \in Node, m \in Message :
           \/ \E t \in Readings(n) :
                  \/ Publish(n, m, t)
                  \/ PublishDuplicate(n, m, t)
                  \/ PublishUnsigned(n, m, t)
                  \/ EncodeEnvelope(n, m, t)
           \/ \E p \in Acker : RecordAck(n, m, p)
    \/ \E pkt \in net :
           \/ \E t \in Readings(pkt.to) : VerifyEnvelope(pkt, t) \/ DropEnvelope(pkt, t)
           \/ Damage(pkt)
    \/ \E n \in Node : Maintain(n)
    \/ Tick

Spec == Init /\ [][Next]_vars

\* Time passes and hosts poll the statistics, which runs the heartbeat.
MaintainedSpec == Spec /\ WF_vars(Tick) /\ \A n \in Node : WF_vars(Maintain(n))

-----------------------------------------------------------------------------
(* Properties *)

\* Caches, trackers, counters, envelopes and histories have their types.
TypeOK ==
    /\ dedup \in [Node -> SUBSET Entry]
    /\ acks \in [Node -> [Message -> SUBSET Acker]]
    /\ stats \in [Node -> MessageStats]
    /\ net \subseteq Packet
    /\ now \in Nat
    /\ calls \in [Node -> Nat]
    /\ encoded \subseteq Encoding
    /\ published \subseteq Publication
    /\ acked \in [Node -> [Message -> SUBSET Acker]]
    /\ accepted \subseteq Acceptance
    /\ repeated \subseteq Node \X Message

\* A node publishes a message again only when more than the time to live, less
\* the longest wait for the mutex, has passed, and messages_published counts
\* exactly the publications, however late readings, heartbeats with newer ones,
\* failed publish calls and evictions interleave.
PublishedOnce ==
    /\ \A x, y \in published :
           /\ x.node = y.node /\ x.id = y.id /\ x.call < y.call
           => y.when - x.when > DedupTtl - Lag
    /\ \A n \in Node : stats[n].messages_published =
                           Cardinality({x \in published : x.node = n})

\* Once enough peers have acknowledged a message after it was published,
\* has_quorum says so for as long as the message is in its time to live by the
\* node's clock: no heartbeat or eviction in between, with whatever reading,
\* takes an ack away.  (Of no peers has_quorum never has enough.)
QuorumKept ==
    LET total == Cardinality(Acker)
    IN  \A x \in published :
            /\ total > 0
            /\ Clock(x.node) - x.at <= DedupTtl
            /\ Cardinality(acked[x.node][x.id]) >= Required(total)
            => has_quorum(x.node, x.id, total)

\* An envelope that verifies carries a payload that the holder of the key in it
\* has encoded, whatever was damaged or forwarded on the way.  (The signature
\* covers neither the timestamp nor the hop count.)
AcceptedAuthentic ==
    \A x \in accepted : \E y \in encoded :
        y.node = x.body.sender_public_key /\ y.id = x.body.payload

\* With heartbeats, although their readings lag, every entry of the cache that
\* expires before time ends leaves it, and so do the acks of messages that are
\* not in the cache.
CachesDrain ==
    \A n \in Node :
        /\ \A m \in Message : \A t \in 0 .. MaxTime + Skew[n] - DedupTtl - Lag - 1 :
               LET Cached == [id |-> m, at |-> t] \in dedup[n]
               IN  Cached ~> ~Cached
        /\ []<>(\A m \in Message : acks[n][m] # {} => \E e \in dedup[n] : e.id = m)

\* Deliveries one broadcast leads to when every node forwards: Reached[k] of
\* them within k hops.
Reached[k \in 0 .. DefaultTtl] ==
    IF k = 0 THEN 0 ELSE (Cardinality(Node) - 1) * (1 + Reached[k - 1])

\* What the counters messages_received have counted, one element for each.
Receipts == UNION {{n} \X (1 .. stats[n].messages_received) : n \in Node}

\* Although nodes verify and forward the same message again and again, the hop
\* count bounds how often an encoded envelope can be verified.
FloodBounded == Cardinality(Receipts) <= Cardinality(encoded) * Reached[DefaultTtl]

\* "A message flooded through N paths is only processed once."
ReceivedOnce == repeated = {}
=============================================================================
