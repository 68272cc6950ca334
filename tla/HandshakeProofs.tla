--------------------------- MODULE HandshakeProofs ---------------------------
(***************************************************************************)
(* Theorems about Handshake, for every set of nodes, every window, timeout *)
(* and skew, and every bound on retries, draws, rotations and time.        *)
(***************************************************************************)
EXTENDS Handshake, FiniteSetTheorems, TLAPS

\* A context is what its state says.
LEMMA ContextCases ==
    ASSUME NEW x \in Context
    PROVE  /\ x.state = "ProbeSent" => x \in ProbeSent
           /\ x.state = "FinishSent" => x \in FinishSent
           /\ x.state = "AckSent" => x \in AckSent
           /\ x.state \notin {"ProbeSent", "FinishSent", "AckSent"} => x = Absent
           /\ x # Absent => x.sent_at \in Nat
  BY DEF Context, ProbeSent, FinishSent, AckSent, Absent

\* A message is what its kind says.
LEMMA BodyCases ==
    ASSUME NEW m \in Packet
    PROVE  /\ m.from \in Node /\ m.to \in Node
           /\ m.body.timestamp \in Nat
           /\ m.body.kind = "probe" => m.body \in Probe
           /\ m.body.kind = "ack" => m.body \in Ack
           /\ m.body.kind = "finish" => m.body \in Finish
           /\ m.body.kind = "finish_ack" => m.body \in FinishAck
  BY DEF Packet, Probe, Ack, Finish, FinishAck

\* Every reading of a clock is a natural number.
LEMMA ReadingsType ==
    ASSUME TypeOK
    PROVE  /\ \A n \in Node : Readings(n) \subseteq Nat
           /\ \A m \in net : Readings(m.to) \subseteq Nat
<1>1. ASSUME NEW n \in Node PROVE Readings(n) \subseteq Nat
  BY TimeAssumption DEF TypeOK, Readings, Clock, saturating_sub
<1>2. \A m \in net : m.to \in Node
  BY BodyCases DEF TypeOK
<1> QED
  BY <1>1, <1>2

\* A value just drawn is a draw.
LEMMA DrawType ==
    ASSUME TypeOK, NEW n \in Node
    PROVE  getrandom(n) \in Draw
  BY DEF TypeOK, getrandom, Draw

\* Drawing keeps the generators typed.
LEMMA TakeDrawType ==
    ASSUME TypeOK, NEW n \in Node, TakeDraw(n)
    PROVE  rng' \in [Node -> Nat]
  BY DEF TypeOK, TakeDraw

\* Delivering a packet and sending typed answers keeps net typed.
LEMMA DeliverType ==
    ASSUME TypeOK, NEW m \in net, NEW body \in Probe \cup Ack \cup Finish \cup FinishAck,
           Deliver(m, Reply(m, body)) \/ Deliver(m, {})
    PROVE  net' \subseteq Packet
<1>1. m \in Packet
  BY DEF TypeOK
<1>2. m.from \in Node /\ m.to \in Node
  BY <1>1, BodyCases
<1>3. [from |-> m.to, to |-> m.from, body |-> body] \in Packet
  BY <1>2 DEF Packet
<1>4. Reply(m, body) \subseteq Packet
  BY <1>3 DEF Reply
<1> QED
  BY <1>4 DEF TypeOK, Deliver

\* Replacing one context by a context keeps pending typed.
LEMMA PendingType ==
    ASSUME TypeOK, NEW n \in Node, NEW p \in Node, NEW x \in Context,
           pending' = [pending EXCEPT ![n][p] = x]
    PROVE  pending' \in [Node -> [Node -> Context]]
  BY DEF TypeOK

\* A set of nodes has a natural number of members.
LEMMA NodesFinite ==
    ASSUME NEW S \in SUBSET Node
    PROVE  IsFiniteSet(S) /\ Cardinality(S) \in Nat
  BY NodeAssumption, FS_Subset, FS_CardinalityType

\* The counters stay natural numbers.
LEMMA StatsWithType ==
    ASSUME TypeOK, NEW n \in Node, NEW store, NEW shown \in Nat,
           NEW done \in Nat, NEW failed \in Nat
    PROVE  StatsWith(n, store, shown, done, failed) \in [Node -> Stats]
<1>1. ActivePeers(store) \in SUBSET Node
  BY DEF ActivePeers
<1>2. Cardinality(ActivePeers(store)) \in Nat
  BY <1>1, NodesFinite
<1> QED
  BY <1>2 DEF TypeOK, StatsWith, Stats

\* Storing a session, in an engine or in a manager, keeps the state typed.
LEMMA CompleteType ==
    ASSUME TypeOK, NEW n \in Node, NEW p \in Node, NEW s \in Session,
           complete_handshake(n, p, s) \/ CompleteDirect(n, p, s)
    PROVE  /\ sessions' \in [Node -> [Node -> {NoSession} \cup Session]]
           /\ mesh' \in [Node -> SUBSET Node]
           /\ stats' \in [Node -> Stats]
<1> DEFINE store == [sessions[n] EXCEPT ![p] = s]
           peers == add_to_mesh(n, p)
<1>1. store \in [Node -> {NoSession} \cup Session]
  BY DEF TypeOK
<1>2. peers \in SUBSET Node
  BY DEF TypeOK, add_to_mesh
<1>3. StatsWith(n, store, Cardinality(peers), 1, 0) \in [Node -> Stats]
  BY <1>2, NodesFinite, StatsWithType
<1>4. CASE complete_handshake(n, p, s)
  <2>1. /\ sessions' = [sessions EXCEPT ![n] = store]
        /\ mesh' = [mesh EXCEPT ![n] = peers]
        /\ stats' = StatsWith(n, store, Cardinality(peers), 1, 0)
    BY <1>4 DEF complete_handshake
  <2> QED
    BY <1>1, <1>2, <1>3, <2>1 DEF TypeOK
<1>5. CASE CompleteDirect(n, p, s)
  BY <1>1, <1>5 DEF CompleteDirect, TypeOK
<1> QED
  BY <1>4, <1>5

\* What process_finish_build_finish_ack makes is typed.
LEMMA ServerResultType ==
    ASSUME TypeOK, NEW m \in net, NEW t \in Nat, m.body.kind = "finish",
           pending[m.to][m.from].state = "AckSent"
    PROVE  /\ ServerResult(m, t).session \in Session
           /\ ServerResult(m, t).finish_ack \in FinishAck
           /\ ServerResult(m, t).agreement \in Agreement
<1> DEFINE n == m.to
           x == pending[m.to][m.from]
           finish == m.body
           secret == decapsulate(identity[n].kem, finish.kem_ciphertext)
           hash == compute_transcript_hash(x.probe_bytes, x.ack_bytes, finish)
           id == derive_session_id(secret, x.client_nonce, x.server_nonce,
                                   finish.kem_ciphertext, identity[n].node_id)
<1>1. m \in Packet /\ n \in Node /\ m.from \in Node /\ finish \in Finish
  BY BodyCases DEF TypeOK
<1>2. x \in AckSent
  BY <1>1, ContextCases DEF TypeOK
<1>3. identity[n] \in Identity
  BY <1>1 DEF TypeOK
<1>4. t \in Nat
  OBVIOUS
<1>5. secret \in Secret
  BY <1>1, <1>3 DEF decapsulate, Secret, Identity, Finish
<1>6. hash \in Transcript
  BY <1>1, <1>2 DEF compute_transcript_hash, Transcript, AckSent
<1>7. id \in SessionId
  BY <1>1, <1>2, <1>3, <1>5 DEF derive_session_id, SessionId, AckSent, Identity, Finish
<1>8. /\ compute_server_mac(secret, hash) \in Mac
      /\ sign(identity[n].sig, hash) \in Signature
  BY <1>3, <1>5, <1>6 DEF compute_server_mac, Mac, sign, Signature, Identity
<1>9. /\ ServerResult(m, t).session =
             [is_active |-> TRUE, session_id |-> id,
              peer_node_id |-> finish.client_node_id,
              peer_sig_public_key |-> finish.client_sig_pk, transcript_hash |-> hash]
      /\ ServerResult(m, t).finish_ack =
             [kind |-> "finish_ack", session_id |-> id, transcript_hash |-> hash,
              server_mac |-> compute_server_mac(secret, hash),
              transcript_signature |-> sign(identity[n].sig, hash),
              timestamp |-> t]
      /\ ServerResult(m, t).agreement =
             [client |-> m.from, server |-> n, transcript_hash |-> hash,
              session_id |-> id, shared_secret |-> secret]
  BY DEF ServerResult
<1> HIDE DEF n, x, finish, secret, hash, id
<1>10. finish.client_node_id \in NodeId /\ finish.client_sig_pk \in Key
  BY <1>1 DEF Finish
<1>11. ServerResult(m, t).session \in Session
  BY <1>6, <1>7, <1>9, <1>10 DEF Session
<1>12. ServerResult(m, t).finish_ack \in FinishAck
  BY <1>4, <1>6, <1>7, <1>8, <1>9 DEF FinishAck
<1>13. ServerResult(m, t).agreement \in Agreement
  BY <1>1, <1>5, <1>6, <1>7, <1>9 DEF Agreement
<1> QED
  BY <1>11, <1>12, <1>13

\* The engines start typed.
LEMMA TypeInit == Init => TypeOK
<1> SUFFICES ASSUME Init PROVE TypeOK
  OBVIOUS
<1>1. identity \in [Node -> Identity]
  BY DEF Init, Identity, derive_node_id, NodeId, Key
<1>2. pending \in [Node -> [Node -> Context]]
  BY DEF Init, Context
<1>3. sessions \in [Node -> [Node -> {NoSession} \cup Session]]
  BY DEF Init
<1>4. stats \in [Node -> Stats]
  BY DEF Init, Stats
<1> QED
  BY <1>1, <1>2, <1>3, <1>4 DEF Init, TypeOK

\* Every action keeps every variable typed.
LEMMA TypeStep == TypeOK /\ [Next]_vars => TypeOK'
<1> SUFFICES ASSUME TypeOK, [Next]_vars PROVE TypeOK'
  OBVIOUS
<1> DEFINE Body == Probe \cup Ack \cup Finish \cup FinishAck
<1>1. ASSUME NEW n \in Node, NEW p \in Node \ {n}, NEW t \in Nat, ConnectPeer(n, p, t) PROVE TypeOK'
  <2> DEFINE probe == [kind |-> "probe", client_nonce |-> getrandom(n),
                       endpoint |-> p, client_node_id |-> identity[n].node_id,
                       timestamp |-> t]
             x == [state |-> "ProbeSent", client_nonce |-> getrandom(n),
                   probe_bytes |-> probe, sent_at |-> t]
  <2>1. /\ pending' = [pending EXCEPT ![n][p] = x]
        /\ net' = net \cup {[from |-> n, to |-> p, body |-> probe]}
    BY <1>1 DEF ConnectPeer, build_probe
  <2>2. probe \in Probe
    BY DrawType DEF TypeOK, Identity, Probe
  <2>3. x \in Context
    BY <2>2, DrawType DEF Context, ProbeSent
  <2>4. pending' \in [Node -> [Node -> Context]]
    BY <2>1, <2>3, PendingType
  <2>5. [from |-> n, to |-> p, body |-> probe] \in Packet
    BY <2>2 DEF Packet
  <2>6. rng' \in [Node -> Nat]
    BY <1>1, TakeDrawType DEF ConnectPeer, build_probe
  <2>7. connects' \in [Node -> Nat]
    BY <1>1 DEF ConnectPeer, TypeOK
  <2> QED
    BY <1>1, <2>1, <2>4, <2>5, <2>6, <2>7 DEF TypeOK, ConnectPeer
<1>2. ASSUME NEW n \in Node, NEW p \in Node \ {n}, DisconnectPeer(n, p) PROVE TypeOK'
  <2> DEFINE store == [sessions[n] EXCEPT ![p] = NoSession]
             peers == mesh[n] \ {p}
  <2>1. /\ sessions' = [sessions EXCEPT ![n] = store]
        /\ mesh' = [mesh EXCEPT ![n] = peers]
        /\ pending' = [pending EXCEPT ![n][p] = Absent]
        /\ stats' = StatsWith(n, store, Cardinality(peers), 0, 0)
    BY <1>2 DEF DisconnectPeer
  <2>2. peers \in SUBSET Node
    BY DEF TypeOK
  <2>3. stats' \in [Node -> Stats]
    BY <2>1, <2>2, NodesFinite, StatsWithType
  <2>4. Absent \in Context
    BY DEF Context
  <2>5. pending' \in [Node -> [Node -> Context]]
    BY <2>1, <2>4, PendingType
  <2>6. sessions' \in [Node -> [Node -> {NoSession} \cup Session]]
    BY <2>1 DEF TypeOK
  <2> QED
    BY <1>2, <2>1, <2>2, <2>3, <2>5, <2>6 DEF TypeOK, DisconnectPeer
<1>3. ASSUME NEW m \in net, NEW t \in Nat, ProcessProbe(m, t) PROVE TypeOK'
  <2> DEFINE n == m.to
             p == m.from
             ack == [kind |-> "ack", client_nonce |-> m.body.client_nonce,
                     server_nonce |-> getrandom(n), kem_pk |-> identity[n].kem,
                     sig_pk |-> identity[n].sig,
                     server_node_id |-> identity[n].node_id, timestamp |-> t]
             x == [state |-> "AckSent", client_nonce |-> m.body.client_nonce,
                   server_nonce |-> getrandom(n), probe_bytes |-> m.body,
                   ack_bytes |-> ack, sent_at |-> t]
  <2>1. /\ pending' = [pending EXCEPT ![n][p] = x]
        /\ Deliver(m, Reply(m, ack))
        /\ TakeDraw(n)
        /\ m.body.kind = "probe"
    BY <1>3 DEF ProcessProbe, build_ack
  <2>2. n \in Node /\ p \in Node /\ m.body \in Probe
    BY <2>1, BodyCases DEF TypeOK
  <2>3. identity[n] \in Identity /\ getrandom(n) \in Draw /\ t \in Nat
    BY <2>2, DrawType DEF TypeOK
  <2>4. ack \in Ack
    BY <2>2, <2>3 DEF Identity, Probe, Ack
  <2>5. x \in Context
    BY <2>2, <2>3, <2>4 DEF Context, AckSent, Probe
  <2> HIDE DEF n, p, ack, x
  <2>6. net' \subseteq Packet
    BY <2>1, <2>4, DeliverType
  <2>7. pending' \in [Node -> [Node -> Context]]
    BY <2>1, <2>2, <2>5, PendingType
  <2>8. rng' \in [Node -> Nat]
    BY <2>1, <2>2, TakeDrawType
  <2> QED
    BY <1>3, <2>6, <2>7, <2>8 DEF TypeOK, ProcessProbe
<1>4. ASSUME NEW m \in net, NEW t \in Nat, ProcessAck(m, t) PROVE TypeOK'
  <2> DEFINE n == m.to
             p == m.from
             ct == [seed |-> getrandom(n), kem |-> m.body.kem_pk]
             finish == [kind |-> "finish", kem_ciphertext |-> ct,
                        client_sig_pk |-> identity[n].sig,
                        client_node_id |-> identity[n].node_id,
                        timestamp |-> t]
             x == [state |-> "FinishSent",
                   shared_secret |-> decapsulate(m.body.kem_pk, ct),
                   probe_bytes |-> pending[n][p].probe_bytes, ack_bytes |-> m.body,
                   finish_bytes |-> finish, server_sig_pk |-> m.body.sig_pk,
                   server_node_id |-> m.body.server_node_id, sent_at |-> t]
  <2>1. /\ pending' = [pending EXCEPT ![n][p] = x]
        /\ Deliver(m, Reply(m, finish))
        /\ TakeDraw(n)
        /\ m.body.kind = "ack"
        /\ pending[n][p].state = "ProbeSent"
    BY <1>4 DEF ProcessAck, ExpectsAck, build_finish
  <2>2. n \in Node /\ p \in Node /\ m.body \in Ack
    BY <2>1, BodyCases DEF TypeOK
  <2>3. identity[n] \in Identity /\ getrandom(n) \in Draw /\ t \in Nat
    BY <2>2, DrawType DEF TypeOK
  <2>4. pending[n][p] \in ProbeSent
    BY <2>1, <2>2, ContextCases DEF TypeOK
  <2>5. ct \in Ciphertext
    BY <2>2, <2>3 DEF Ciphertext, Ack
  <2>6. finish \in Finish
    BY <2>3, <2>5 DEF Identity, Finish
  <2>7. decapsulate(m.body.kem_pk, ct) \in Secret
    BY <2>2, <2>5 DEF decapsulate, Secret, Ack
  <2>8. x \in Context
    BY <2>2, <2>3, <2>4, <2>6, <2>7 DEF Context, ProbeSent, FinishSent, Ack
  <2> HIDE DEF n, p, ct, finish, x
  <2>9. net' \subseteq Packet
    BY <2>1, <2>6, DeliverType
  <2>10. pending' \in [Node -> [Node -> Context]]
    BY <2>1, <2>2, <2>8, PendingType
  <2>11. rng' \in [Node -> Nat]
    BY <2>1, <2>2, TakeDrawType
  <2> QED
    BY <1>4, <2>9, <2>10, <2>11 DEF TypeOK, ProcessAck
<1>5. ASSUME NEW m \in net, NEW t \in Nat, AnswerFinish(m, t)
      PROVE  /\ m.to \in Node /\ m.from \in Node
             /\ ServerResult(m, t).session \in Session
             /\ pending' \in [Node -> [Node -> Context]]
             /\ net' \subseteq Packet
             /\ accepted' \subseteq Agreement
  <2>1. m.to \in Node /\ m.from \in Node
    BY BodyCases DEF TypeOK
  <2>2. /\ ServerResult(m, t).session \in Session
        /\ ServerResult(m, t).finish_ack \in FinishAck
        /\ ServerResult(m, t).agreement \in Agreement
    BY <1>5, ServerResultType DEF AnswerFinish
  <2>3. Deliver(m, Reply(m, ServerResult(m, t).finish_ack))
    BY <1>5 DEF AnswerFinish
  <2>4. net' \subseteq Packet
    BY <2>2, <2>3, DeliverType
  <2>5. Absent \in Context
    BY DEF Context
  <2>6. pending' \in [Node -> [Node -> Context]]
    BY <1>5, <2>1, <2>5, PendingType DEF AnswerFinish
  <2>7. accepted' \subseteq Agreement
    BY <1>5, <2>2 DEF AnswerFinish, TypeOK
  <2> QED
    BY <2>1, <2>2, <2>4, <2>6, <2>7
<1>6. ASSUME NEW m \in net, NEW t \in Nat, ProcessFinish(m, t) PROVE TypeOK'
  <2>1. /\ AnswerFinish(m, t)
        /\ \/ complete_handshake(m.to, m.from, ServerResult(m, t).session)
           \/ CompleteDirect(m.to, m.from, ServerResult(m, t).session)
    BY <1>6 DEF ProcessFinish
  <2>2. /\ sessions' \in [Node -> [Node -> {NoSession} \cup Session]]
        /\ mesh' \in [Node -> SUBSET Node]
        /\ stats' \in [Node -> Stats]
    BY <2>1, <1>5, CompleteType
  <2> QED
    BY <2>1, <2>2, <1>5 DEF AnswerFinish, TypeOK
<1>7. ASSUME NEW m \in net, NEW t \in Nat, BuildFinishAck(m, t) PROVE TypeOK'
  <2> DEFINE store == [sessions[m.to] EXCEPT ![m.from] = ServerResult(m, t).session]
  <2>1. /\ AnswerFinish(m, t)
        /\ sessions' = [sessions EXCEPT ![m.to] = store]
        /\ stats' = StatsWith(m.to, store, stats[m.to].mesh_peers, 1, 0)
        /\ mesh' = mesh
    BY <1>7 DEF BuildFinishAck
  <2>2. stats[m.to].mesh_peers \in Nat
    BY <2>1, <1>5 DEF TypeOK, Stats
  <2>3. stats' \in [Node -> Stats]
    BY <2>1, <2>2, <1>5, StatsWithType
  <2>4. sessions' \in [Node -> [Node -> {NoSession} \cup Session]]
    BY <2>1, <1>5 DEF TypeOK
  <2> QED
    BY <2>1, <2>3, <2>4, <1>5 DEF AnswerFinish, TypeOK
<1>8. ASSUME NEW m \in net, NEW t \in Nat, ProcessFinishAck(m, t) PROVE TypeOK'
  <2> DEFINE n == m.to
             p == m.from
             x == pending[n][p]
             s == [is_active |-> TRUE, session_id |-> m.body.session_id,
                   peer_node_id |-> x.server_node_id,
                   peer_sig_public_key |-> x.server_sig_pk,
                   transcript_hash |-> m.body.transcript_hash]
             agreed == [client |-> n, server |-> p,
                        transcript_hash |-> m.body.transcript_hash,
                        session_id |-> m.body.session_id,
                        shared_secret |-> x.shared_secret]
  <2>1. /\ m.body.kind = "finish_ack"
        /\ x.state = "FinishSent"
        /\ pending' = [pending EXCEPT ![n][p] = Absent]
        /\ complete_handshake(n, p, s) \/ CompleteDirect(n, p, s)
        /\ confirmed' = confirmed \cup {agreed}
        /\ Deliver(m, {})
    BY <1>8 DEF ProcessFinishAck, AcceptsFinishAck, ClientSession
  <2>2. n \in Node /\ p \in Node /\ m.body \in FinishAck
    BY <2>1, BodyCases DEF TypeOK
  <2>3. x \in FinishSent
    BY <2>1, <2>2, ContextCases DEF TypeOK
  <2>4. s \in Session
    BY <2>2, <2>3 DEF Session, FinishSent, FinishAck
  <2>5. agreed \in Agreement
    BY <2>2, <2>3 DEF Agreement, FinishSent, FinishAck
  <2>6. Absent \in Context
    BY DEF Context
  <2> HIDE DEF n, p, x, s, agreed
  <2>7. pending' \in [Node -> [Node -> Context]]
    BY <2>1, <2>2, <2>6, PendingType
  <2>8. net' \subseteq Packet
    BY <2>1, <2>2, DeliverType
  <2>9. /\ sessions' \in [Node -> [Node -> {NoSession} \cup Session]]
        /\ mesh' \in [Node -> SUBSET Node]
        /\ stats' \in [Node -> Stats]
    BY <2>1, <2>2, <2>4, CompleteType
  <2>10. confirmed' \subseteq Agreement
    BY <2>1, <2>5 DEF TypeOK
  <2> QED
    BY <1>8, <2>7, <2>8, <2>9, <2>10 DEF ProcessFinishAck, TypeOK
<1>9. ASSUME NEW m \in net, NEW t \in Nat, RefuseKeepingContext(m, t) PROVE TypeOK'
  BY <1>9 DEF RefuseKeepingContext, Deliver, TypeOK
<1>10. ASSUME NEW m \in net, NEW t \in Nat, RefuseDroppingContext(m, t) PROVE TypeOK'
  <2>1. m.to \in Node /\ m.from \in Node
    BY BodyCases DEF TypeOK
  <2>2. Absent \in Context
    BY DEF Context
  <2>3. pending' \in [Node -> [Node -> Context]]
    BY <1>10, <2>1, <2>2, PendingType DEF RefuseDroppingContext
  <2> QED
    BY <1>10, <2>3 DEF RefuseDroppingContext, Deliver, TypeOK
<1>11. ASSUME NEW m \in net, Lose(m) PROVE TypeOK'
  BY <1>11 DEF Lose, TypeOK
<1>12. ASSUME NEW n \in Node, NEW t \in Nat, pending' = [pending EXCEPT ![n] = Kept(n, t)]
       PROVE  pending' \in [Node -> [Node -> Context]]
  <2>1. Absent \in Context
    BY DEF Context
  <2>2. Kept(n, t) \in [Node -> Context]
    BY <2>1 DEF Kept, TypeOK
  <2> QED
    BY <1>12, <2>2 DEF TypeOK
<1>13. ASSUME NEW n \in Node, NEW t \in Nat, Heartbeat(n, t) PROVE TypeOK'
  <2>1. PICK peers \in Grafted(n) :
            /\ mesh' = [mesh EXCEPT ![n] = peers]
            /\ stats' = StatsWith(n, sessions[n], Cardinality(peers), 0,
                                  Cardinality(TimedOut(n, t)))
    BY <1>13 DEF Heartbeat
  <2>2. peers \in SUBSET Node
    BY <2>1 DEF Grafted, ActivePeers, TypeOK
  <2>3. TimedOut(n, t) \in SUBSET Node
    BY DEF TimedOut
  <2>4. Cardinality(TimedOut(n, t)) \in Nat /\ Cardinality(peers) \in Nat
    BY <2>2, <2>3, NodesFinite
  <2>5. stats' \in [Node -> Stats]
    BY <2>1, <2>4, StatsWithType
  <2>6. pending' \in [Node -> [Node -> Context]]
    BY <1>12, <1>13 DEF Heartbeat
  <2> QED
    BY <1>13, <2>1, <2>2, <2>5, <2>6 DEF Heartbeat, TypeOK
<1>14. ASSUME NEW n \in Node, NEW t \in Nat, EvictTimedOut(n, t) PROVE TypeOK'
  BY <1>12, <1>14 DEF EvictTimedOut, TypeOK
<1>15. ASSUME NEW n \in Node, NEW p \in Node \ {n}, RemovePeer(n, p) \/ TakeSession(n, p)
       PROVE  TypeOK'
  <2>1. Absent \in Context
    BY DEF Context
  <2>2. pending' \in [Node -> [Node -> Context]]
    BY <1>15, <2>1, PendingType DEF RemovePeer, TakeSession
  <2>3. sessions' \in [Node -> [Node -> {NoSession} \cup Session]]
    <3>1. \/ sessions' = sessions
          \/ sessions' = [sessions EXCEPT ![n] = [sessions[n] EXCEPT ![p] = NoSession]]
      BY <1>15 DEF RemovePeer, TakeSession
    <3>2. sessions \in [Node -> [Node -> {NoSession} \cup Session]]
      BY DEF TypeOK
    <3>3. [sessions[n] EXCEPT ![p] = NoSession] \in [Node -> {NoSession} \cup Session]
      BY <3>2
    <3> QED
      BY <3>1, <3>2, <3>3
  <2> QED
    BY <1>15, <2>2, <2>3 DEF RemovePeer, TakeSession, TypeOK
<1>16. ASSUME NEW n \in Node, RotateKeys(n) PROVE TypeOK'
  <2>1. FreshKey(n) \in Key
    BY DEF FreshKey, Key, TypeOK
  <2>2. [node_id |-> derive_node_id(FreshKey(n), FreshKey(n)),
         kem |-> FreshKey(n), sig |-> FreshKey(n)] \in Identity
    BY <2>1 DEF Identity, NodeId, derive_node_id
  <2> QED
    BY <1>16, <2>2 DEF RotateKeys, TypeOK
<1>17. ASSUME NEW n \in Node, RotateKeysUnderId(n) PROVE TypeOK'
  <2>1. PICK kem, sig \in {<<n, k>> : k \in 0 .. keygen[n] + 1} :
            identity' = [identity EXCEPT ![n] =
                            [node_id |-> @.node_id, kem |-> kem, sig |-> sig]]
    BY <1>17 DEF RotateKeysUnderId
  <2>2. kem \in Key /\ sig \in Key
    BY <2>1 DEF Key, TypeOK
  <2>3. identity' \in [Node -> Identity]
    BY <2>1, <2>2 DEF Identity, TypeOK
  <2> QED
    BY <1>17, <2>3 DEF RotateKeysUnderId, TypeOK
<1>18. CASE Tick
  BY <1>18 DEF Tick, TypeOK
<1>19. CASE UNCHANGED vars
  BY <1>19 DEF vars, TypeOK
<1> QED
  BY <1>1, <1>2, <1>3, <1>4, <1>6, <1>7, <1>8, <1>9, <1>10, <1>11, <1>13, <1>14,
     <1>15, <1>16, <1>17, <1>18, <1>19, ReadingsType DEF Next, Receive, Maintain

\* TypeOK, for every instance: no interleaving of the handlers, the host's
\* calls and the network takes a variable out of its type.
THEOREM TypeCorrect == Spec => []TypeOK
<1>1. TypeOK /\ [Next]_vars => TypeOK'
  BY TypeStep
<1> QED
  BY TypeInit, <1>1, PTL DEF Spec

-----------------------------------------------------------------------------
(* The inductive invariant *)

\* Dropping contexts and packets, as refusals, evictions, disconnects, losses,
\* rotations and time do, keeps the invariant.
LEMMA DropStep ==
    ASSUME IInv, TypeOK',
           accepted' = accepted, confirmed' = confirmed, rng' = rng, net' \subseteq net,
           \A n, p \in Node : pending'[n][p] \in {Absent, pending[n][p]}
    PROVE  IInv'
<1>1. ConfirmedIsAccepted' /\ NonceUsedOnce'
  BY DEF IInv, ConfirmedIsAccepted, NonceUsedOnce
<1>2. FinishAckBacked'
  BY DEF IInv, FinishAckBacked
<1>3. NoncesFresh'
  <2>1. NoncesFresh /\ accepted \subseteq Agreement /\ confirmed \subseteq Agreement
    BY DEF IInv, TypeOK
  <2>2. \A n, p \in Node : pending'[n][p] # Absent => pending'[n][p] = pending[n][p]
    OBVIOUS
  <2>3. \A x \in Agreement : x.client \in Node /\ x.server \in Node
    BY DEF Agreement
  <2>4. \A n, p \in Node : pending'[n][p] # Absent => DrawnBy(n, OwnNonce(pending[n][p]))'
    BY <2>1, <2>2 DEF NoncesFresh, DrawnBy
  <2>5. \A n, p, q \in Node :
            p # q /\ pending'[n][p] # Absent /\ pending'[n][q] # Absent
                => OwnNonce(pending'[n][p]) # OwnNonce(pending'[n][q])
    BY <2>1, <2>2 DEF NoncesFresh
  <2>6. ASSUME NEW x \in accepted
        PROVE  LET nonce == x.transcript_hash.ack.server_nonce
               IN  /\ DrawnBy(x.server, nonce)'
                   /\ \A p \in Node : pending'[x.server][p] # Absent
                          => OwnNonce(pending'[x.server][p]) # nonce
    BY <2>1, <2>2, <2>3 DEF NoncesFresh, DrawnBy
  <2>7. ASSUME NEW x \in confirmed
        PROVE  LET nonce == x.transcript_hash.probe.client_nonce
               IN  /\ DrawnBy(x.client, nonce)'
                   /\ \A p \in Node : pending'[x.client][p] # Absent
                          => OwnNonce(pending'[x.client][p]) # nonce
    BY <2>1, <2>2, <2>3 DEF NoncesFresh, DrawnBy
  <2> QED
    BY <2>4, <2>5, <2>6, <2>7 DEF NoncesFresh
<1>4. AcceptedBound'
  <2>1. Absent.state # "AckSent"
    BY DEF Absent
  <2> QED
    BY <2>1 DEF IInv, AcceptedBound
<1> QED
  BY <1>1, <1>2, <1>3, <1>4 DEF IInv

\* Replacing the context for one peer by one with a nonce just drawn, or with
\* the nonce of the context it replaces, keeps the nonces fresh.
LEMMA ReplaceStep ==
    ASSUME IInv, TypeOK', NEW n \in Node, NEW p \in Node, NEW x \in Context,
           x # Absent, TakeDraw(n),
           pending' = [pending EXCEPT ![n][p] = x],
           \/ OwnNonce(x) = getrandom(n)
           \/ (pending[n][p] # Absent /\ OwnNonce(x) = OwnNonce(pending[n][p])),
           accepted' = accepted, confirmed' = confirmed
    PROVE  NoncesFresh'
<1>1. /\ NoncesFresh /\ accepted \subseteq Agreement /\ confirmed \subseteq Agreement
      /\ rng \in [Node -> Nat] /\ pending \in [Node -> [Node -> Context]]
  BY DEF IInv, TypeOK
<1>2. rng' = [rng EXCEPT ![n] = rng[n] + 1]
  BY DEF TakeDraw
<1>3. \A q \in Node : \A nonce : DrawnBy(q, nonce) => DrawnBy(q, nonce)'
  BY <1>1, <1>2 DEF DrawnBy
<1>4. PICK fresh : fresh = getrandom(n)
  OBVIOUS
<1>5. DrawnBy(n, fresh)' /\ ~DrawnBy(n, fresh)
  BY <1>1, <1>2, <1>4 DEF DrawnBy, getrandom
<1>6. \A q, r \in Node : pending'[q][r] = IF q = n /\ r = p THEN x ELSE pending[q][r]
  BY <1>1
<1>7. \A y \in Agreement : y.client \in Node /\ y.server \in Node
  BY DEF Agreement
<1>8. PICK own : own = OwnNonce(x)
  OBVIOUS
<1>9. own = fresh \/ (pending[n][p] # Absent /\ own = OwnNonce(pending[n][p]))
  BY <1>4, <1>8
<1>10. DrawnBy(n, own)'
  BY <1>1, <1>3, <1>5, <1>9 DEF NoncesFresh
<1>11. \A q \in Node : q # p /\ pending[n][q] # Absent => OwnNonce(pending[n][q]) # own
  BY <1>1, <1>5, <1>9 DEF NoncesFresh
<1>12. \A q, r \in Node : pending'[q][r] # Absent =>
           \/ (q = n /\ r = p /\ OwnNonce(pending'[q][r]) = own)
           \/ /\ ~(q = n /\ r = p)
              /\ pending[q][r] # Absent
              /\ OwnNonce(pending'[q][r]) = OwnNonce(pending[q][r])
  BY <1>6, <1>8
<1>13. ASSUME NEW q \in Node, NEW r \in Node, pending'[q][r] # Absent
       PROVE  DrawnBy(q, OwnNonce(pending[q][r]))'
  <2>1. CASE q = n /\ r = p
    BY <1>13, <2>1, <1>10, <1>12 DEF DrawnBy
  <2>2. CASE ~(q = n /\ r = p)
    <3>1. PICK nonce : nonce = OwnNonce(pending[q][r])
      OBVIOUS
    <3>2. DrawnBy(q, nonce) /\ nonce = OwnNonce(pending'[q][r])
      BY <1>13, <2>2, <3>1, <1>1, <1>12 DEF NoncesFresh
    <3>3. DrawnBy(q, nonce)'
      BY <3>2, <1>3
    <3> QED
      BY <3>2, <3>3 DEF DrawnBy
  <2> QED
    BY <2>1, <2>2
<1>14. ASSUME NEW q \in Node, NEW r \in Node, NEW t \in Node, r # t,
              pending'[q][r] # Absent, pending'[q][t] # Absent
       PROVE  OwnNonce(pending'[q][r]) # OwnNonce(pending'[q][t])
  BY <1>14, <1>1, <1>11, <1>12 DEF NoncesFresh
<1>15. ASSUME NEW q \in Node, NEW nonce, DrawnBy(q, nonce),
              \A r \in Node : pending[q][r] # Absent => OwnNonce(pending[q][r]) # nonce
       PROVE  /\ DrawnBy(q, nonce)'
              /\ \A r \in Node : pending'[q][r] # Absent
                     => OwnNonce(pending'[q][r]) # nonce
  <2>1. DrawnBy(q, nonce)'
    BY <1>15, <1>3
  <2>2. q = n => nonce # own
    BY <1>15, <1>5, <1>9
  <2> QED
    BY <1>15, <2>1, <2>2, <1>12
<1>16. ASSUME NEW y \in accepted
       PROVE  LET nonce == y.transcript_hash.ack.server_nonce
              IN  /\ DrawnBy(y.server, nonce)'
                  /\ \A r \in Node : pending'[y.server][r] # Absent
                         => OwnNonce(pending'[y.server][r]) # nonce
  BY <1>1, <1>7, <1>15 DEF NoncesFresh
<1>17. ASSUME NEW y \in confirmed
       PROVE  LET nonce == y.transcript_hash.probe.client_nonce
              IN  /\ DrawnBy(y.client, nonce)'
                  /\ \A r \in Node : pending'[y.client][r] # Absent
                         => OwnNonce(pending'[y.client][r]) # nonce
  BY <1>1, <1>7, <1>15 DEF NoncesFresh
<1> QED
  BY <1>13, <1>14, <1>16, <1>17 DEF NoncesFresh

\* A step that completes nothing and sends no finish_ack keeps the ones in
\* flight backed.
LEMMA BackedStep ==
    ASSUME FinishAckBacked, accepted \subseteq accepted',
           \A m \in net' : m \in net \/ m.body.kind # "finish_ack"
    PROVE  FinishAckBacked'
  BY DEF FinishAckBacked

\* A connect call draws a new nonce and replaces one context.
LEMMA ConnectStep ==
    ASSUME IInv, TypeOK', NEW n \in Node, NEW p \in Node \ {n}, NEW t \in Nat, ConnectPeer(n, p, t)
    PROVE  IInv'
<1> DEFINE probe == [kind |-> "probe", client_nonce |-> getrandom(n),
                     endpoint |-> p, client_node_id |-> identity[n].node_id,
                     timestamp |-> t]
           x == [state |-> "ProbeSent", client_nonce |-> getrandom(n),
                 probe_bytes |-> probe, sent_at |-> t]
<1>1. /\ pending' = [pending EXCEPT ![n][p] = x]
      /\ net' = net \cup {[from |-> n, to |-> p, body |-> probe]}
      /\ TakeDraw(n)
      /\ accepted' = accepted /\ confirmed' = confirmed
  BY DEF ConnectPeer, build_probe
<1>2. pending \in [Node -> [Node -> Context]] /\ pending' \in [Node -> [Node -> Context]]
  BY DEF IInv, TypeOK
<1>3. pending'[n][p] = x
  BY <1>1, <1>2
<1>4. x \in Context /\ x # Absent /\ OwnNonce(x) = getrandom(n)
  BY <1>2, <1>3 DEF Absent, OwnNonce
<1>5. x.state # "AckSent" /\ probe.kind # "finish_ack"
  OBVIOUS
<1> HIDE DEF x, probe
<1>6. NoncesFresh'
  BY <1>1, <1>4, ReplaceStep
<1>7. FinishAckBacked'
  BY <1>1, <1>5, BackedStep DEF IInv
<1>8. AcceptedBound'
  BY <1>1, <1>2, <1>5 DEF IInv, AcceptedBound
<1>9. ConfirmedIsAccepted' /\ NonceUsedOnce'
  BY <1>1 DEF IInv, ConfirmedIsAccepted, NonceUsedOnce
<1> QED
  BY <1>6, <1>7, <1>8, <1>9 DEF IInv

\* A probe, repeated or not, makes the server draw a new nonce and replaces
\* whatever context it had for the peer.
LEMMA ProbeStep ==
    ASSUME IInv, TypeOK', NEW m \in net, NEW t \in Nat, ProcessProbe(m, t)
    PROVE  IInv'
<1> DEFINE n == m.to
           p == m.from
           ack == [kind |-> "ack", client_nonce |-> m.body.client_nonce,
                   server_nonce |-> getrandom(n), kem_pk |-> identity[n].kem,
                   sig_pk |-> identity[n].sig,
                   server_node_id |-> identity[n].node_id, timestamp |-> t]
           x == [state |-> "AckSent", client_nonce |-> m.body.client_nonce,
                 server_nonce |-> getrandom(n), probe_bytes |-> m.body,
                 ack_bytes |-> ack, sent_at |-> t]
<1>1. /\ pending' = [pending EXCEPT ![n][p] = x]
      /\ Deliver(m, Reply(m, ack))
      /\ TakeDraw(n)
      /\ accepted' = accepted /\ confirmed' = confirmed
  BY DEF ProcessProbe, build_ack
<1>2. pending \in [Node -> [Node -> Context]] /\ pending' \in [Node -> [Node -> Context]]
  BY DEF IInv, TypeOK
<1>3. n \in Node /\ p \in Node
  BY BodyCases DEF IInv, TypeOK
<1>4. pending'[n][p] = x
  BY <1>1, <1>2, <1>3
<1>5. x \in Context /\ x # Absent /\ OwnNonce(x) = getrandom(n)
  BY <1>2, <1>3, <1>4 DEF Absent, OwnNonce
<1>6. /\ x.client_nonce = x.probe_bytes.client_nonce
      /\ x.server_nonce = x.ack_bytes.server_nonce
      /\ ack.kind # "finish_ack"
  OBVIOUS
<1> HIDE DEF n, p, x, ack
<1>7. NoncesFresh'
  BY <1>1, <1>3, <1>5, ReplaceStep
<1>8. \A k \in net' : k \in net \/ k.body.kind # "finish_ack"
  BY <1>1, <1>6 DEF Deliver, Reply
<1>9. FinishAckBacked'
  BY <1>1, <1>8, BackedStep DEF IInv
<1>10. AcceptedBound'
  BY <1>1, <1>2, <1>3, <1>6 DEF IInv, AcceptedBound
<1>11. ConfirmedIsAccepted' /\ NonceUsedOnce'
  BY <1>1 DEF IInv, ConfirmedIsAccepted, NonceUsedOnce
<1> QED
  BY <1>7, <1>9, <1>10, <1>11 DEF IInv

\* An ack turns the client's context into one that keeps its nonce.
LEMMA AckStep ==
    ASSUME IInv, TypeOK', NEW m \in net, NEW t \in Nat, ProcessAck(m, t)
    PROVE  IInv'
<1> DEFINE n == m.to
           p == m.from
           ct == [seed |-> getrandom(n), kem |-> m.body.kem_pk]
           finish == [kind |-> "finish", kem_ciphertext |-> ct,
                      client_sig_pk |-> identity[n].sig,
                      client_node_id |-> identity[n].node_id, timestamp |-> t]
           x == [state |-> "FinishSent",
                 shared_secret |-> decapsulate(m.body.kem_pk, ct),
                 probe_bytes |-> pending[n][p].probe_bytes, ack_bytes |-> m.body,
                 finish_bytes |-> finish, server_sig_pk |-> m.body.sig_pk,
                 server_node_id |-> m.body.server_node_id, sent_at |-> t]
<1>1. /\ pending' = [pending EXCEPT ![n][p] = x]
      /\ Deliver(m, Reply(m, finish))
      /\ TakeDraw(n)
      /\ pending[n][p].state = "ProbeSent"
      /\ accepted' = accepted /\ confirmed' = confirmed
  BY DEF ProcessAck, ExpectsAck, build_finish
<1>2. pending \in [Node -> [Node -> Context]] /\ pending' \in [Node -> [Node -> Context]]
  BY DEF IInv, TypeOK
<1>3. n \in Node /\ p \in Node
  BY BodyCases DEF IInv, TypeOK
<1>4. pending'[n][p] = x
  BY <1>1, <1>2, <1>3
<1>5. /\ x \in Context /\ x # Absent
      /\ pending[n][p] # Absent
      /\ OwnNonce(x) = OwnNonce(pending[n][p])
  BY <1>1, <1>2, <1>3, <1>4 DEF Absent, OwnNonce
<1>6. x.state # "AckSent" /\ finish.kind # "finish_ack"
  OBVIOUS
<1> HIDE DEF n, p, x, finish
<1>7. NoncesFresh'
  BY <1>1, <1>3, <1>5, ReplaceStep
<1>8. \A k \in net' : k \in net \/ k.body.kind # "finish_ack"
  BY <1>1, <1>6 DEF Deliver, Reply
<1>9. FinishAckBacked'
  BY <1>1, <1>8, BackedStep DEF IInv
<1>10. AcceptedBound'
  BY <1>1, <1>2, <1>3, <1>6 DEF IInv, AcceptedBound
<1>11. ConfirmedIsAccepted' /\ NonceUsedOnce'
  BY <1>1 DEF IInv, ConfirmedIsAccepted, NonceUsedOnce
<1> QED
  BY <1>7, <1>9, <1>10, <1>11 DEF IInv

\* Completing a handshake under the nonce of the context just taken out keeps
\* the nonces fresh, on either side.
LEMMA CompleteFresh ==
    ASSUME IInv, TypeOK', NEW n \in Node, NEW p \in Node, pending[n][p] # Absent,
           pending' = [pending EXCEPT ![n][p] = Absent], rng' = rng,
           \A y \in accepted' : \/ y \in accepted
                                \/ /\ y.server = n
                                   /\ y.transcript_hash.ack.server_nonce
                                          = OwnNonce(pending[n][p]),
           \A y \in confirmed' : \/ y \in confirmed
                                 \/ /\ y.client = n
                                    /\ y.transcript_hash.probe.client_nonce
                                           = OwnNonce(pending[n][p])
    PROVE  NoncesFresh'
<1>1. /\ NoncesFresh /\ accepted' \subseteq Agreement /\ confirmed' \subseteq Agreement
  BY DEF IInv, TypeOK
<1>2. /\ \A q, r \in Node : pending'[q][r] # Absent =>
             pending'[q][r] = pending[q][r] /\ ~(q = n /\ r = p)
      /\ DrawnBy(n, OwnNonce(pending[n][p]))
      /\ \A r \in Node : pending'[n][r] # Absent =>
             OwnNonce(pending'[n][r]) # OwnNonce(pending[n][p])
  <2>1. pending \in [Node -> [Node -> Context]]
    BY DEF IInv, TypeOK
  <2>2. \A q, r \in Node : pending'[q][r] # Absent =>
            pending'[q][r] = pending[q][r] /\ ~(q = n /\ r = p)
    BY <2>1
  <2> QED
    BY <1>1, <2>2 DEF NoncesFresh
<1>3. \A y \in Agreement : y.client \in Node /\ y.server \in Node
  BY DEF Agreement
<1>4. \A q, r \in Node : pending'[q][r] # Absent => DrawnBy(q, OwnNonce(pending[q][r]))'
  BY <1>1, <1>2 DEF NoncesFresh, DrawnBy
<1>5. \A q, r, t \in Node :
          r # t /\ pending'[q][r] # Absent /\ pending'[q][t] # Absent
              => OwnNonce(pending'[q][r]) # OwnNonce(pending'[q][t])
  BY <1>1, <1>2 DEF NoncesFresh
<1>6. ASSUME NEW y \in accepted'
      PROVE  LET nonce == y.transcript_hash.ack.server_nonce
             IN  /\ DrawnBy(y.server, nonce)'
                 /\ \A r \in Node : pending'[y.server][r] # Absent
                        => OwnNonce(pending'[y.server][r]) # nonce
  BY <1>1, <1>2, <1>3 DEF NoncesFresh, DrawnBy
<1>7. ASSUME NEW y \in confirmed'
      PROVE  LET nonce == y.transcript_hash.probe.client_nonce
             IN  /\ DrawnBy(y.client, nonce)'
                 /\ \A r \in Node : pending'[y.client][r] # Absent
                        => OwnNonce(pending'[y.client][r]) # nonce
  BY <1>1, <1>2, <1>3 DEF NoncesFresh, DrawnBy
<1> QED
  BY <1>4, <1>5, <1>6, <1>7 DEF NoncesFresh

\* The server's side: the context taken out names a handshake never completed
\* before, and the finish_ack sent is backed by the one just completed.
LEMMA FinishStep ==
    ASSUME IInv, TypeOK', NEW m \in net, NEW t \in Nat, AnswerFinish(m, t)
    PROVE  IInv'
<1> DEFINE n == m.to
           p == m.from
           x == pending[n][p]
           y == ServerResult(m, t).agreement
           fa == ServerResult(m, t).finish_ack
<1>1. /\ pending' = [pending EXCEPT ![n][p] = Absent]
      /\ Deliver(m, Reply(m, fa))
      /\ accepted' = accepted \cup {y}
      /\ confirmed' = confirmed /\ rng' = rng
      /\ x.state = "AckSent"
  BY DEF AnswerFinish
<1>2. n \in Node /\ p \in Node
  BY BodyCases DEF IInv, TypeOK
<1>3. x \in Context /\ x # Absent /\ OwnNonce(x) = x.ack_bytes.server_nonce
  BY <1>1, <1>2 DEF IInv, TypeOK, Absent, OwnNonce
<1>4. /\ y.client = p /\ y.server = n
      /\ y.transcript_hash.probe = x.probe_bytes
      /\ y.transcript_hash.ack = x.ack_bytes
      /\ y.transcript_hash.finish = m.body
      /\ y.session_id.secret = y.shared_secret
      /\ y.session_id = derive_session_id(y.shared_secret, x.client_nonce,
             x.server_nonce, m.body.kem_ciphertext, y.session_id.node_id)
      /\ fa.kind = "finish_ack"
      /\ fa.transcript_hash = y.transcript_hash
      /\ fa.session_id = y.session_id
      /\ fa.server_mac = compute_server_mac(y.shared_secret, y.transcript_hash)
  BY DEF ServerResult, compute_transcript_hash, derive_session_id
<1>5. /\ x.client_nonce = x.probe_bytes.client_nonce
      /\ x.server_nonce = x.ack_bytes.server_nonce
  BY <1>1, <1>2 DEF IInv, AcceptedBound
<1> HIDE DEF n, p, y, fa
<1>6. NoncesFresh'
  <2>1. \A z \in accepted' : \/ z \in accepted
                             \/ /\ z.server = n
                                /\ z.transcript_hash.ack.server_nonce = OwnNonce(pending[n][p])
    BY <1>1, <1>3, <1>4
  <2>2. \A z \in confirmed' : \/ z \in confirmed
                              \/ /\ z.client = n
                                 /\ z.transcript_hash.probe.client_nonce = OwnNonce(pending[n][p])
    BY <1>1
  <2>3. pending[n][p] # Absent /\ pending' = [pending EXCEPT ![n][p] = Absent] /\ rng' = rng
    BY <1>1, <1>3
  <2> HIDE DEF x
  <2> QED
    BY <1>2, <2>1, <2>2, <2>3, CompleteFresh
<1>7. FinishAckBacked'
  <2>1. ASSUME NEW k \in net', k.body.kind = "finish_ack"
        PROVE  k \in net \/ k = [from |-> n, to |-> p, body |-> fa]
    BY <2>1, <1>1 DEF Deliver, Reply, n, p
  <2>2. FinishAckBacked
    BY DEF IInv
  <2> QED
    BY <2>1, <2>2, <1>1, <1>4 DEF FinishAckBacked
<1>8. AcceptedBound'
  <2>1. \A q, r \in Node : pending'[q][r].state = "AckSent" =>
            pending'[q][r] = pending[q][r]
    BY <1>1, <1>2 DEF IInv, TypeOK, Absent
  <2>2. AcceptedBound
    BY DEF IInv
  <2> QED
    BY <2>1, <2>2, <1>1, <1>4, <1>5 DEF AcceptedBound
<1>9. ConfirmedIsAccepted'
  BY <1>1 DEF IInv, ConfirmedIsAccepted
<1>10. NonceUsedOnce'
  <2>1. \A z \in accepted :
            z.transcript_hash.ack.server_nonce # y.transcript_hash.ack.server_nonce
    <3> SUFFICES ASSUME NEW z \in accepted,
                        z.transcript_hash.ack.server_nonce
                            = y.transcript_hash.ack.server_nonce
                 PROVE  FALSE
      OBVIOUS
    <3>1. DrawnBy(z.server, OwnNonce(x)) /\ DrawnBy(n, OwnNonce(x))
      BY <1>2, <1>3, <1>4 DEF IInv, NoncesFresh
    <3>2. z.server = n
      BY <3>1 DEF DrawnBy
    <3> QED
      BY <3>2, <1>2, <1>3, <1>4 DEF IInv, NoncesFresh
  <2>2. NonceUsedOnce
    BY DEF IInv
  <2> QED
    BY <2>1, <2>2, <1>1 DEF NonceUsedOnce
<1> QED
  BY <1>6, <1>7, <1>8, <1>9, <1>10 DEF IInv

\* The client's side: equal transcripts and MACs leave only the handshake that
\* backs the finish_ack.
LEMMA FinishAckStep ==
    ASSUME IInv, TypeOK', NEW m \in net, NEW t \in Nat, ProcessFinishAck(m, t)
    PROVE  /\ IInv'
           /\ \E y \in accepted \ confirmed :
                  /\ confirmed' = confirmed \cup {y}
                  /\ y.client = m.to /\ y.server = m.from
                  /\ y.session_id = m.body.session_id
<1> DEFINE n == m.to
           p == m.from
           x == pending[n][p]
           z == [client |-> n, server |-> p,
                 transcript_hash |-> m.body.transcript_hash,
                 session_id |-> m.body.session_id, shared_secret |-> x.shared_secret]
<1>1. /\ pending' = [pending EXCEPT ![n][p] = Absent]
      /\ Deliver(m, {})
      /\ confirmed' = confirmed \cup {z}
      /\ accepted' = accepted /\ rng' = rng
      /\ m.body.kind = "finish_ack"
      /\ x.state = "FinishSent"
      /\ m.body.transcript_hash =
             compute_transcript_hash(x.probe_bytes, x.ack_bytes, x.finish_bytes)
      /\ m.body.server_mac =
             compute_server_mac(x.shared_secret, m.body.transcript_hash)
  BY DEF ProcessFinishAck, AcceptsFinishAck
<1>2. n \in Node /\ p \in Node /\ m.body \in FinishAck
  BY <1>1, BodyCases DEF IInv, TypeOK
<1>3. x \in FinishSent /\ x # Absent /\ OwnNonce(x) = x.probe_bytes.client_nonce
  BY <1>1, <1>2, ContextCases DEF IInv, TypeOK, Absent, OwnNonce
<1>4. PICK y \in accepted :
          /\ y.client = n /\ y.server = p
          /\ y.transcript_hash = m.body.transcript_hash
          /\ y.session_id = m.body.session_id
          /\ m.body.server_mac = compute_server_mac(y.shared_secret, y.transcript_hash)
  BY <1>1 DEF IInv, FinishAckBacked
<1>5. y.shared_secret = x.shared_secret
  BY <1>1, <1>4 DEF compute_server_mac
<1>6. y \in Agreement
  BY DEF IInv, TypeOK
<1>7. y = z
  BY <1>4, <1>5, <1>6 DEF Agreement
<1>8. z.client = n /\ z.transcript_hash.probe.client_nonce = OwnNonce(x)
  BY <1>1, <1>3 DEF compute_transcript_hash
<1> HIDE DEF n, p, z
<1>9. NoncesFresh'
  <2>1. \A k \in confirmed' : \/ k \in confirmed
                              \/ /\ k.client = n
                                 /\ k.transcript_hash.probe.client_nonce = OwnNonce(pending[n][p])
    BY <1>1, <1>3, <1>8
  <2>2. \A k \in accepted' : \/ k \in accepted
                             \/ /\ k.server = n
                                /\ k.transcript_hash.ack.server_nonce = OwnNonce(pending[n][p])
    BY <1>1
  <2>3. pending[n][p] # Absent /\ pending' = [pending EXCEPT ![n][p] = Absent] /\ rng' = rng
    BY <1>1, <1>3
  <2> HIDE DEF x
  <2> QED
    BY <1>2, <2>1, <2>2, <2>3, CompleteFresh
<1>10. \A k \in confirmed :
          k.transcript_hash.probe.client_nonce # z.transcript_hash.probe.client_nonce
  <2> SUFFICES ASSUME NEW k \in confirmed,
                      k.transcript_hash.probe.client_nonce
                          = z.transcript_hash.probe.client_nonce
               PROVE  FALSE
    OBVIOUS
  <2>1. DrawnBy(k.client, OwnNonce(x)) /\ DrawnBy(n, OwnNonce(x))
    BY <1>2, <1>3, <1>8 DEF IInv, NoncesFresh
  <2>2. k.client = n
    BY <2>1 DEF DrawnBy
  <2> QED
    BY <2>2, <1>2, <1>3, <1>8 DEF IInv, NoncesFresh
<1>11. NonceUsedOnce'
  BY <1>1, <1>10 DEF IInv, NonceUsedOnce
<1>12. ConfirmedIsAccepted'
  BY <1>1, <1>7 DEF IInv, ConfirmedIsAccepted
<1>13. FinishAckBacked'
  BY <1>1, BackedStep DEF IInv, Deliver
<1>14. AcceptedBound'
  <2>1. \A q, r \in Node : pending'[q][r].state = "AckSent" =>
            pending'[q][r] = pending[q][r]
    BY <1>1, <1>2 DEF IInv, TypeOK, Absent
  <2> QED
    BY <2>1, <1>1 DEF IInv, AcceptedBound
<1>15. z \in accepted \ confirmed
  BY <1>7, <1>10
<1>16. IInv'
  BY <1>9, <1>11, <1>12, <1>13, <1>14 DEF IInv
<1> QED
  BY <1>1, <1>4, <1>7, <1>15, <1>16 DEF n, p

\* Nothing has been completed, drawn or sent at the start.
LEMMA IInvInit == Init => IInv
<1> SUFFICES ASSUME Init PROVE IInv
  OBVIOUS
<1>1. TypeOK
  BY TypeInit
<1>2. /\ net = {} /\ accepted = {} /\ confirmed = {}
      /\ \A n, p \in Node : pending[n][p] = Absent
  BY DEF Init
<1>3. Absent.state # "AckSent"
  BY DEF Absent
<1>4. ConfirmedIsAccepted /\ FinishAckBacked /\ NonceUsedOnce
  BY <1>2 DEF ConfirmedIsAccepted, FinishAckBacked, NonceUsedOnce
<1>5. NoncesFresh
  BY <1>2 DEF NoncesFresh
<1>6. AcceptedBound
  BY <1>2, <1>3 DEF AcceptedBound
<1> QED
  BY <1>1, <1>4, <1>5, <1>6 DEF IInv

\* Every action keeps the invariant.
LEMMA IInvStep == IInv /\ [Next]_vars => IInv'
<1> SUFFICES ASSUME IInv, [Next]_vars PROVE IInv'
  OBVIOUS
<1> USE DEF IInv
<1>1. TypeOK'
  BY TypeStep
<1>2. pending \in [Node -> [Node -> Context]]
  BY DEF TypeOK
<1> HIDE DEF IInv
<1>3. ASSUME NEW n \in Node, NEW p \in Node \ {n}, NEW t \in Nat, ConnectPeer(n, p, t) PROVE IInv'
  BY <1>1, <1>3, ConnectStep
<1>4. ASSUME NEW n \in Node, NEW p \in Node \ {n}, DisconnectPeer(n, p) PROVE IInv'
  BY <1>1, <1>2, <1>4, DropStep DEF DisconnectPeer
<1>5. ASSUME NEW m \in net, NEW t \in Nat, ProcessProbe(m, t) PROVE IInv'
  BY <1>1, <1>5, ProbeStep
<1>6. ASSUME NEW m \in net, NEW t \in Nat, ProcessAck(m, t) PROVE IInv'
  BY <1>1, <1>6, AckStep
<1>7. ASSUME NEW m \in net, NEW t \in Nat, ProcessFinish(m, t) \/ BuildFinishAck(m, t) PROVE IInv'
  BY <1>1, <1>7, FinishStep DEF ProcessFinish, BuildFinishAck
<1>8. ASSUME NEW m \in net, NEW t \in Nat, ProcessFinishAck(m, t) PROVE IInv'
  BY <1>1, <1>8, FinishAckStep
<1>9. ASSUME NEW m \in net, NEW t \in Nat, RefuseKeepingContext(m, t) PROVE IInv'
  BY <1>1, <1>2, <1>9, DropStep DEF RefuseKeepingContext, Deliver
<1>10. ASSUME NEW m \in net, NEW t \in Nat, RefuseDroppingContext(m, t) PROVE IInv'
  BY <1>1, <1>2, <1>10, DropStep DEF RefuseDroppingContext, Deliver
<1>11. ASSUME NEW m \in net, Lose(m) PROVE IInv'
  BY <1>1, <1>2, <1>11, DropStep DEF Lose
<1>12. ASSUME NEW n \in Node, NEW t \in Nat, Heartbeat(n, t) \/ EvictTimedOut(n, t)
       PROVE  IInv'
  BY <1>1, <1>2, <1>12, DropStep DEF Heartbeat, EvictTimedOut, Kept
<1>13. ASSUME NEW n \in Node, RotateKeys(n) \/ RotateKeysUnderId(n) PROVE IInv'
  BY <1>1, <1>2, <1>13, DropStep DEF RotateKeys, RotateKeysUnderId
<1>14. ASSUME NEW n \in Node, NEW p \in Node \ {n}, RemovePeer(n, p) \/ TakeSession(n, p)
       PROVE  IInv'
  BY <1>1, <1>2, <1>14, DropStep DEF RemovePeer, TakeSession
<1>15. CASE Tick
  BY <1>1, <1>2, <1>15, DropStep DEF Tick
<1>16. CASE UNCHANGED vars
  BY <1>1, <1>2, <1>16, DropStep DEF vars
<1>17. TypeOK
  BY DEF IInv
<1> QED
  BY <1>3, <1>4, <1>5, <1>6, <1>7, <1>8, <1>9, <1>10, <1>11, <1>12, <1>13, <1>14,
     <1>15, <1>16, <1>17, ReadingsType DEF Next, Receive, Maintain

\* The inductive invariant holds in every reachable state.
THEOREM Inductive == Spec => []IInv
  BY IInvInit, IInvStep, PTL DEF Spec

\* A client never completes a handshake its server has not completed with it
\* under the same transcript, session id and secret, however many nodes,
\* retries, repeated packets, evictions and rotations there are.
THEOREM AgreementTheorem == Spec => []ConfirmedIsAccepted
<1>1. IInv => ConfirmedIsAccepted
  BY DEF IInv
<1> QED
  BY Inductive, <1>1, PTL

\* No nonce completes two handshakes, on either side.
THEOREM NonceTheorem == Spec => []NonceUsedOnce
<1>1. IInv => NonceUsedOnce
  BY DEF IInv
<1> QED
  BY Inductive, <1>1, PTL

\* The session id a client adopts is derived from its own secret, nonces and
\* ciphertext.
THEOREM SessionIdTheorem == Spec => []SessionIdBound
<1>1. IInv => SessionIdBound
  BY DEF IInv, ConfirmedIsAccepted, AcceptedBound, SessionIdBound
<1> QED
  BY Inductive, <1>1, PTL

-----------------------------------------------------------------------------
(* Handshake implements SecureSession *)

\* A step that changes what one node holds for one peer moves Held there.
LEMMA HeldChange ==
    ASSUME TypeOK, NEW n \in Node, NEW p \in Node, NEW s \in {NoSession} \cup Session,
           sessions' = [sessions EXCEPT ![n] = [sessions[n] EXCEPT ![p] = s]]
    PROVE  Held' = [Held EXCEPT ![n][p] = IF s = NoSession THEN NoSession
                                                           ELSE s.session_id]
<1> DEFINE v == IF s = NoSession THEN NoSession ELSE s.session_id
<1>1. sessions \in [Node -> [Node -> {NoSession} \cup Session]]
  BY DEF TypeOK
<1>2. \A q, r \in Node : sessions'[q][r] = IF q = n /\ r = p THEN s ELSE sessions[q][r]
  BY <1>1
<1>3. \A q, r \in Node : HeldBy(q, r)' = IF q = n /\ r = p THEN v ELSE HeldBy(q, r)
  BY <1>2 DEF HeldBy
<1> HIDE DEF v
<1>4. Held' = [Held EXCEPT ![n][p] = v]
  BY <1>3 DEF Held
<1> QED
  BY <1>4 DEF v

\* A stored session is a session.
LEMMA HeldStored ==
    ASSUME TypeOK, NEW n \in Node, NEW p \in Node, NEW s \in Session,
           sessions' = [sessions EXCEPT ![n] = [sessions[n] EXCEPT ![p] = s]]
    PROVE  Held' = [Held EXCEPT ![n][p] = s.session_id]
<1>1. s.is_active = TRUE /\ NoSession.is_active = FALSE
  BY DEF Session, NoSession
<1>2. s # NoSession
  BY <1>1
<1> QED
  BY <1>2, HeldChange

\* A step that leaves the sessions alone leaves Held alone.
LEMMA HeldKept == sessions' = sessions => Held' = Held
  BY DEF Held, HeldBy

\* A completion moves Held to the session it stores.
LEMMA HeldComplete ==
    ASSUME TypeOK, NEW n \in Node, NEW p \in Node, NEW s \in Session,
           complete_handshake(n, p, s) \/ CompleteDirect(n, p, s)
    PROVE  Held' = [Held EXCEPT ![n][p] = s.session_id]
  BY HeldStored DEF complete_handshake, CompleteDirect

\* The session id a server derives was never derived before: it contains the
\* nonce of the context just taken out.
LEMMA NeverAccepted ==
    ASSUME IInv, NEW m \in net, NEW t \in Nat, AnswerFinish(m, t)
    PROVE  \A z \in accepted : z.session_id # ServerResult(m, t).agreement.session_id
<1> DEFINE n == m.to
           p == m.from
           x == pending[n][p]
           y == ServerResult(m, t).agreement
<1>1. x.state = "AckSent"
  BY DEF AnswerFinish
<1>2. n \in Node /\ p \in Node
  BY BodyCases DEF IInv, TypeOK
<1>3. y.session_id.server_nonce = x.server_nonce
  BY DEF ServerResult, derive_session_id
<1>4. x # Absent /\ x.server_nonce = OwnNonce(x)
  BY <1>1, <1>2 DEF IInv, AcceptedBound, OwnNonce, Absent
<1>5. ASSUME NEW z \in accepted, z.session_id = y.session_id
      PROVE  FALSE
  <2>1. z.transcript_hash.ack.server_nonce = OwnNonce(x)
    <3>1. z.session_id = derive_session_id(z.shared_secret,
              z.transcript_hash.probe.client_nonce, z.transcript_hash.ack.server_nonce,
              z.transcript_hash.finish.kem_ciphertext, z.session_id.node_id)
      BY DEF IInv, AcceptedBound
    <3>2. z.session_id.server_nonce = z.transcript_hash.ack.server_nonce
      BY <3>1 DEF derive_session_id
    <3> QED
      BY <3>2, <1>3, <1>4, <1>5
  <2>2. DrawnBy(z.server, OwnNonce(x)) /\ DrawnBy(n, OwnNonce(x))
    BY <1>2, <1>4, <2>1 DEF IInv, NoncesFresh
  <2>3. z.server = n
    BY <2>2 DEF DrawnBy
  <2> QED
    BY <2>1, <2>3, <1>2, <1>4 DEF IInv, NoncesFresh
<1> QED
  BY <1>5

\* A server's completion is an Accept under an id nobody has used.
LEMMA AcceptRefines ==
    ASSUME IInv, NEW m \in net, NEW t \in Nat, AnswerFinish(m, t),
           sessions' = [sessions EXCEPT ![m.to] =
                           [sessions[m.to] EXCEPT ![m.from] = ServerResult(m, t).session]]
    PROVE  Abstract!Accept
<1> DEFINE n == m.to
           p == m.from
           x == pending[n][p]
           y == ServerResult(m, t).agreement
<1>1. accepted' = accepted \cup {y} /\ confirmed' = confirmed /\ x.state = "AckSent"
  BY DEF AnswerFinish
<1>2. n \in Node /\ p \in Node /\ TypeOK
  BY BodyCases DEF IInv, TypeOK
<1>3. ServerResult(m, t).session \in Session
  BY <1>2, ServerResultType DEF AnswerFinish
<1>4. /\ y.client = p /\ y.server = n
      /\ y.session_id = ServerResult(m, t).session.session_id
  BY DEF ServerResult
<1>5. Held' = [Held EXCEPT ![y.server][y.client] = y.session_id]
  BY <1>2, <1>3, <1>4, HeldStored
<1>6. \A z \in accepted : z.session_id # y.session_id
  BY NeverAccepted
<1> QED
  BY <1>1, <1>5, <1>6 DEF Abstract!Accept

\* A client's completion is a Confirm of an accepted session.
LEMMA ConfirmRefines ==
    ASSUME IInv, TypeOK', NEW m \in net, NEW t \in Nat, ProcessFinishAck(m, t)
    PROVE  Abstract!Confirm
<1> DEFINE s == [is_active |-> TRUE, session_id |-> m.body.session_id,
                 peer_node_id |-> pending[m.to][m.from].server_node_id,
                 peer_sig_public_key |-> pending[m.to][m.from].server_sig_pk,
                 transcript_hash |-> m.body.transcript_hash]
<1>1. /\ complete_handshake(m.to, m.from, s) \/ CompleteDirect(m.to, m.from, s)
      /\ accepted' = accepted
      /\ m.body.kind = "finish_ack"
      /\ pending[m.to][m.from].state = "FinishSent"
  BY DEF ProcessFinishAck, AcceptsFinishAck, ClientSession
<1>2. m.to \in Node /\ m.from \in Node /\ m.body \in FinishAck /\ TypeOK
  BY <1>1, BodyCases DEF IInv, TypeOK
<1>3. pending[m.to][m.from] \in FinishSent
  BY <1>1, <1>2, ContextCases DEF TypeOK
<1>4. s \in Session /\ s.session_id = m.body.session_id
  BY <1>2, <1>3 DEF Session, FinishSent, FinishAck
<1> HIDE DEF s
<1>5. Held' = [Held EXCEPT ![m.to][m.from] = m.body.session_id]
  BY <1>1, <1>2, <1>4, HeldComplete
<1>6. PICK y \in accepted \ confirmed :
          /\ confirmed' = confirmed \cup {y}
          /\ y.client = m.to /\ y.server = m.from
          /\ y.session_id = m.body.session_id
  BY FinishAckStep
<1> QED
  BY <1>1, <1>5, <1>6 DEF Abstract!Confirm

\* A disconnect or a removal is a Close.
LEMMA CloseRefines ==
    ASSUME TypeOK, NEW n \in Node, NEW p \in Node,
           DisconnectPeer(n, p) \/ RemovePeer(n, p)
    PROVE  Abstract!Close
<1>1. /\ sessions' = [sessions EXCEPT ![n] = [sessions[n] EXCEPT ![p] = NoSession]]
      /\ accepted' = accepted /\ confirmed' = confirmed
  BY DEF DisconnectPeer, RemovePeer
<1>2. Held' = [Held EXCEPT ![n][p] = NoSession]
  BY <1>1, HeldChange
<1> QED
  BY <1>1, <1>2 DEF Abstract!Close

\* Every step of the handshake is a step of SecureSession or changes nothing
\* that SecureSession speaks of.
LEMMA RefinementStep == IInv /\ IInv' /\ [Next]_vars => [Abstract!Next]_Abstract!vars
<1> SUFFICES ASSUME IInv, IInv', [Next]_vars
             PROVE  Abstract!Next \/ UNCHANGED Abstract!vars
  OBVIOUS
<1>1. TypeOK /\ TypeOK'
  BY DEF IInv
<1>2. ASSUME sessions' = sessions, accepted' = accepted, confirmed' = confirmed
      PROVE  UNCHANGED Abstract!vars
  BY <1>2, HeldKept DEF Abstract!vars
<1>3. ASSUME NEW n \in Node, NEW p \in Node \ {n}, DisconnectPeer(n, p) \/ RemovePeer(n, p)
      PROVE  Abstract!Next
  BY <1>1, <1>3, CloseRefines DEF Abstract!Next
<1>4. ASSUME NEW m \in net, NEW t \in Nat, ProcessFinish(m, t)
      PROVE  Abstract!Next
  BY <1>4, AcceptRefines DEF Abstract!Next, ProcessFinish, complete_handshake,
                               CompleteDirect
<1>5. ASSUME NEW m \in net, NEW t \in Nat, BuildFinishAck(m, t)
      PROVE  Abstract!Next
  BY <1>5, AcceptRefines DEF Abstract!Next, BuildFinishAck
<1>6. ASSUME NEW m \in net, NEW t \in Nat, ProcessFinishAck(m, t)
      PROVE  Abstract!Next
  BY <1>1, <1>6, ConfirmRefines DEF Abstract!Next
<1>7. ASSUME NEW n \in Node, NEW p \in Node \ {n}, NEW t \in Nat, ConnectPeer(n, p, t)
      PROVE  UNCHANGED Abstract!vars
  BY <1>7, <1>2 DEF ConnectPeer, build_probe
<1>8. ASSUME NEW m \in net, NEW t \in Nat,
             \/ ProcessProbe(m, t) \/ ProcessAck(m, t) \/ RefuseKeepingContext(m, t)
             \/ RefuseDroppingContext(m, t) \/ Lose(m)
      PROVE  UNCHANGED Abstract!vars
  BY <1>8, <1>2 DEF ProcessProbe, ProcessAck, RefuseKeepingContext,
                    RefuseDroppingContext, Lose
<1>9. ASSUME NEW n \in Node, NEW t \in Nat,
             Heartbeat(n, t) \/ EvictTimedOut(n, t) \/ RotateKeys(n) \/ RotateKeysUnderId(n)
      PROVE  UNCHANGED Abstract!vars
  BY <1>9, <1>2 DEF Heartbeat, EvictTimedOut, RotateKeys, RotateKeysUnderId
<1>10. CASE Tick
  BY <1>10, <1>2 DEF Tick
<1>11. CASE UNCHANGED vars
  BY <1>11, <1>2 DEF vars
<1>12. ASSUME NEW n \in Node, NEW p \in Node \ {n}, TakeSession(n, p)
       PROVE  UNCHANGED Abstract!vars
  BY <1>12, <1>2 DEF TakeSession
<1> QED
  BY <1>1, <1>3, <1>4, <1>5, <1>6, <1>7, <1>8, <1>9, <1>10, <1>11, <1>12, ReadingsType
     DEF Next, Receive, Maintain

\* The four-message handshake, with its retries, timeouts, rotations and
\* unreliable network, implements SecureSession.
THEOREM Refinement == Spec => RefinesSecureSession
<1>1. Init => Abstract!Init
  <2> SUFFICES ASSUME Init PROVE Abstract!Init
    OBVIOUS
  <2>1. Held = [n \in Node |-> [p \in Node |-> NoSession]]
    BY DEF Init, Held, HeldBy
  <2> QED
    BY <2>1 DEF Init, Abstract!Init
<1> QED
  BY <1>1, Inductive, RefinementStep, PTL DEF Spec, RefinesSecureSession, Abstract!Spec

-----------------------------------------------------------------------------
(* Freshness *)

\* b was made within a window of a, as far as the reader of a could see.
Within(a, b) == b <= a + TimestampWindow

\* Each step of a handshake is within a window of the one before: an ack of its
\* probe, where it was made; a finish of its ack; a finish_ack of its finish.
Timely ==
    /\ \A n, p \in Node :
           /\ pending[n][p].state = "AckSent" =>
                  Within(pending[n][p].probe_bytes.timestamp, pending[n][p].ack_bytes.timestamp)
           /\ pending[n][p].state = "FinishSent" =>
                  Within(pending[n][p].ack_bytes.timestamp, pending[n][p].finish_bytes.timestamp)
    /\ \A m \in net :
           m.body.kind = "finish_ack" =>
               /\ Within(m.body.transcript_hash.probe.timestamp,
                         m.body.transcript_hash.ack.timestamp)
               /\ Within(m.body.transcript_hash.finish.timestamp, m.body.timestamp)

\* What the timestamp checks ensure.
LEMMA InWindow ==
    ASSUME NEW t \in Nat, NEW timestamp \in Nat, ~OutOfWindow(t, timestamp)
    PROVE  Within(timestamp, t)
  BY TimeAssumption DEF OutOfWindow, saturating_sub, Within

\* Contexts and packets are dropped, probes and acks and finishes are sent.
LEMMA TimelyKept ==
    ASSUME TypeOK, Timely,
           \A n, p \in Node : \/ pending'[n][p] = pending[n][p]
                              \/ pending'[n][p].state \notin {"AckSent", "FinishSent"},
           \A m \in net' : m \in net \/ m.body.kind # "finish_ack"
    PROVE  Timely'
  BY DEF Timely

LEMMA TimelyStep == TypeOK /\ Timely /\ [Next]_vars => Timely'
<1> SUFFICES ASSUME TypeOK, Timely, [Next]_vars PROVE Timely'
  OBVIOUS
<1>1. pending \in [Node -> [Node -> Context]] /\ Absent.state = "Absent"
  BY DEF TypeOK, Absent
<1>2. ASSUME NEW n \in Node, NEW p \in Node \ {n}, NEW t \in Nat, ConnectPeer(n, p, t)
      PROVE  Timely'
  <2>1. \A k \in net' : k \in net \/ k.body.kind # "finish_ack"
    BY <1>2 DEF ConnectPeer, build_probe
  <2>2. \A q, r \in Node : \/ pending'[q][r] = pending[q][r]
                           \/ pending'[q][r].state = "ProbeSent"
    BY <1>1, <1>2 DEF ConnectPeer, build_probe
  <2> QED  BY <2>1, <2>2, TimelyKept
<1>3. ASSUME NEW m \in net, NEW t \in Nat, ProcessProbe(m, t)
      PROVE  Timely'
  <2> DEFINE n == m.to
             p == m.from
             x == [state |-> "AckSent", client_nonce |-> m.body.client_nonce,
                   server_nonce |-> getrandom(n), probe_bytes |-> m.body,
                   ack_bytes |-> build_ack(n, m.body, t), sent_at |-> t]
  <2>1. /\ pending' = [pending EXCEPT ![n][p] = x] /\ ~OutOfWindow(t, m.body.timestamp)
        /\ Deliver(m, Reply(m, build_ack(n, m.body, t)))
    BY <1>3 DEF ProcessProbe
  <2>2. n \in Node /\ p \in Node /\ m.body.timestamp \in Nat
    BY BodyCases DEF TypeOK
  <2>3. /\ x.state = "AckSent"
        /\ Within(x.probe_bytes.timestamp, x.ack_bytes.timestamp)
    BY <2>1, <2>2, InWindow DEF build_ack
  <2>4. \A k \in net' : k \in net \/ k.body.kind # "finish_ack"
    BY <2>1 DEF Deliver, Reply, build_ack
  <2> HIDE DEF n, p, x
  <2>5. \A q, r \in Node : pending'[q][r] = pending[q][r] \/ pending'[q][r] = x
    BY <1>1, <2>1, <2>2
  <2> QED  BY <2>3, <2>4, <2>5 DEF Timely
<1>4. ASSUME NEW m \in net, NEW t \in Nat, ProcessAck(m, t)
      PROVE  Timely'
  <2> DEFINE n == m.to
             p == m.from
             ct == [seed |-> getrandom(n), kem |-> m.body.kem_pk]
             finish == build_finish(n, ct, t)
             x == [state |-> "FinishSent", shared_secret |-> decapsulate(m.body.kem_pk, ct),
                   probe_bytes |-> pending[n][p].probe_bytes, ack_bytes |-> m.body,
                   finish_bytes |-> finish, server_sig_pk |-> m.body.sig_pk,
                   server_node_id |-> m.body.server_node_id, sent_at |-> t]
  <2>1. /\ pending' = [pending EXCEPT ![n][p] = x] /\ ~OutOfWindow(t, m.body.timestamp)
        /\ Deliver(m, Reply(m, finish))
    BY <1>4 DEF ProcessAck
  <2>2. n \in Node /\ p \in Node /\ m.body.timestamp \in Nat
    BY BodyCases DEF TypeOK
  <2>3. finish.timestamp = t /\ finish.kind = "finish"
    BY DEF build_finish
  <2> HIDE DEF finish
  <2>4. /\ x.state = "FinishSent"
        /\ Within(x.ack_bytes.timestamp, x.finish_bytes.timestamp)
    BY <2>1, <2>2, <2>3, InWindow
  <2>5. \A k \in net' : k \in net \/ k.body.kind # "finish_ack"
    BY <2>1, <2>3 DEF Deliver, Reply
  <2> HIDE DEF n, p, x
  <2>6. \A q, r \in Node : pending'[q][r] = pending[q][r] \/ pending'[q][r] = x
    BY <1>1, <2>1, <2>2
  <2> QED  BY <2>4, <2>5, <2>6 DEF Timely
<1>5. ASSUME NEW m \in net, NEW t \in Nat, AnswerFinish(m, t)
      PROVE  Timely'
  <2> DEFINE n == m.to
             p == m.from
             fa == ServerResult(m, t).finish_ack
  <2>1. /\ pending' = [pending EXCEPT ![n][p] = Absent] /\ ~OutOfWindow(t, m.body.timestamp)
        /\ pending[n][p].state = "AckSent" /\ Deliver(m, Reply(m, fa))
    BY <1>5 DEF AnswerFinish
  <2>2. n \in Node /\ p \in Node /\ m.body.timestamp \in Nat
    BY BodyCases DEF TypeOK
  <2>3. /\ fa.timestamp = t
        /\ fa.transcript_hash.probe = pending[n][p].probe_bytes
        /\ fa.transcript_hash.ack = pending[n][p].ack_bytes
        /\ fa.transcript_hash.finish = m.body
    BY DEF ServerResult, compute_transcript_hash
  <2> HIDE DEF fa
  <2>4. /\ Within(fa.transcript_hash.probe.timestamp, fa.transcript_hash.ack.timestamp)
        /\ Within(fa.transcript_hash.finish.timestamp, fa.timestamp)
    BY <2>1, <2>2, <2>3, InWindow DEF Timely
  <2>5. \A k \in net' : k \in net \/ k.body = fa
    BY <2>1 DEF Deliver, Reply
  <2> HIDE DEF n, p
  <2>6. \A q, r \in Node : pending'[q][r] = pending[q][r] \/ pending'[q][r].state = "Absent"
    BY <1>1, <2>1, <2>2
  <2> QED  BY <2>4, <2>5, <2>6 DEF Timely
<1>6. ASSUME NEW m \in net, NEW t \in Nat,
             \/ ProcessFinishAck(m, t) \/ RefuseKeepingContext(m, t)
             \/ RefuseDroppingContext(m, t)
      PROVE  Timely'
  <2>1. net' \subseteq net /\ m.to \in Node /\ m.from \in Node
    BY <1>6, BodyCases DEF ProcessFinishAck, RefuseKeepingContext, RefuseDroppingContext, Deliver,
                           TypeOK
  <2>2. pending' = pending \/ pending' = [pending EXCEPT ![m.to][m.from] = Absent]
    BY <1>6 DEF ProcessFinishAck, RefuseKeepingContext, RefuseDroppingContext
  <2> QED  BY <1>1, <2>1, <2>2, TimelyKept
<1>7. ASSUME NEW n \in Node, NEW p \in Node \ {n},
             DisconnectPeer(n, p) \/ RemovePeer(n, p) \/ TakeSession(n, p)
      PROVE  Timely'
  <2>1. pending' = [pending EXCEPT ![n][p] = Absent] /\ net' = net
    BY <1>7 DEF DisconnectPeer, RemovePeer, TakeSession
  <2> QED  BY <1>1, <2>1, TimelyKept
<1>8. ASSUME NEW n \in Node, NEW t \in Nat, Heartbeat(n, t) \/ EvictTimedOut(n, t)
      PROVE  Timely'
  BY <1>1, <1>8, TimelyKept DEF Heartbeat, EvictTimedOut, Kept
<1>9. ASSUME \/ \E n \in Node : RotateKeys(n) \/ RotateKeysUnderId(n)
             \/ \E m \in net : Lose(m)
             \/ Tick
             \/ UNCHANGED vars
      PROVE  Timely'
  BY <1>9, TimelyKept DEF RotateKeys, RotateKeysUnderId, Lose, Tick, vars
<1> QED
  BY <1>2, <1>3, <1>4, <1>5, <1>6, <1>7, <1>8, <1>9, ReadingsType
     DEF Next, Receive, Maintain, ProcessFinish, BuildFinishAck

\* A client that completes a handshake does so within four windows and one lag of
\* its probe, although it never compares the two.
THEOREM FreshnessTheorem == Spec => ConfirmedFresh
<1> DEFINE Young == \A x \in confirmed' \ confirmed :
                        Clock(x.client) - x.transcript_hash.probe.timestamp
                            <= 4 * TimestampWindow + Lag
<1>1. Init => Timely
  BY DEF Init, Timely, Absent
<1>2. TypeOK /\ Timely /\ [Next]_vars => [Young]_vars
  <2> SUFFICES ASSUME TypeOK, Timely, [Next]_vars, NEW x \in confirmed' \ confirmed
               PROVE  Clock(x.client) - x.transcript_hash.probe.timestamp
                          <= 4 * TimestampWindow + Lag
    OBVIOUS
  <2>1. \E m \in net : \E t \in Readings(m.to) : ProcessFinishAck(m, t)
    <3>1. \A n, p, t : ~ConnectPeer(n, p, t) /\ ~DisconnectPeer(n, p) /\ ~RemovePeer(n, p)
                       /\ ~TakeSession(n, p)
      BY DEF ConnectPeer, DisconnectPeer, RemovePeer, TakeSession
    <3>2. \A m, t : /\ ~Lose(m) /\ ~ProcessProbe(m, t) /\ ~ProcessAck(m, t)
                    /\ ~RefuseKeepingContext(m, t) /\ ~RefuseDroppingContext(m, t)
      BY DEF Lose, ProcessProbe, ProcessAck, RefuseKeepingContext, RefuseDroppingContext
    <3>3. \A m, t : ~ProcessFinish(m, t) /\ ~BuildFinishAck(m, t)
      BY DEF ProcessFinish, BuildFinishAck, AnswerFinish
    <3>4. \A n, t : /\ ~Heartbeat(n, t) /\ ~EvictTimedOut(n, t) /\ ~RotateKeys(n)
                    /\ ~RotateKeysUnderId(n)
      BY DEF Heartbeat, EvictTimedOut, RotateKeys, RotateKeysUnderId
    <3>5. ~Tick /\ ~UNCHANGED vars
      BY DEF Tick, vars
    <3> QED  BY <3>1, <3>2, <3>3, <3>4, <3>5 DEF Next, Receive, Maintain
  <2>2. PICK m \in net : \E t \in Readings(m.to) : ProcessFinishAck(m, t)
    BY <2>1
  <2>3. PICK t \in Readings(m.to) : ProcessFinishAck(m, t)
    BY <2>2
  <2> DEFINE n == m.to
             c == pending[m.to][m.from]
             hash == m.body.transcript_hash
  <2>4. /\ m.body.kind = "finish_ack" /\ ~OutOfWindow(t, m.body.timestamp)
        /\ c.state = "FinishSent"
        /\ hash = compute_transcript_hash(c.probe_bytes, c.ack_bytes, c.finish_bytes)
        /\ x.client = n /\ x.transcript_hash = hash
    BY <2>3 DEF ProcessFinishAck, AcceptsFinishAck
  <2>5. n \in Node /\ m.from \in Node /\ m.body \in FinishAck /\ t \in Nat
    BY <2>4, BodyCases, ReadingsType DEF TypeOK
  <2>6. hash \in Transcript /\ m.body.timestamp \in Nat
    BY <2>5 DEF FinishAck
  <2>7. /\ hash.probe.timestamp \in Nat /\ hash.ack.timestamp \in Nat
        /\ hash.finish.timestamp \in Nat
    BY <2>6 DEF Transcript, Probe, Ack, Finish
  <2>8. /\ hash.ack = c.ack_bytes /\ hash.finish = c.finish_bytes
    BY <2>4 DEF compute_transcript_hash
  <2>9. /\ Within(hash.probe.timestamp, hash.ack.timestamp)
        /\ Within(hash.ack.timestamp, hash.finish.timestamp)
        /\ Within(hash.finish.timestamp, m.body.timestamp)
        /\ Within(m.body.timestamp, t)
    BY <2>4, <2>5, <2>6, <2>8, InWindow DEF Timely
  <2>10. Clock(n) \in Nat /\ Clock(n) - Lag <= t
    BY <2>5, TimeAssumption DEF Readings, Clock, saturating_sub, TypeOK
  <2> HIDE DEF n, hash, c
  <2>11. Clock(n) - hash.probe.timestamp <= 4 * TimestampWindow + Lag
    BY <2>5, <2>6, <2>7, <2>9, <2>10, TimeAssumption DEF Within
  <2> QED  BY <2>4, <2>11
<1>3. Spec => []Timely
  BY <1>1, TypeCorrect, TimelyStep, PTL DEF Spec
<1> QED  BY <1>2, <1>3, TypeCorrect, PTL DEF Spec, ConfirmedFresh
=============================================================================
