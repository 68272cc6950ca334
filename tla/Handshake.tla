------------------------------ MODULE Handshake ------------------------------
(***************************************************************************)
(* The four-message handshake of witan and the engine state it feeds:      *)
(* every node's HandshakeManager (handshake.rs), SessionStore (session.rs) *)
(* and the mesh and handshake counters of its GossipEngine (gossip.rs),    *)
(* with the host and the network between nodes.                            *)
(*                                                                         *)
(*     client                                     server                   *)
(*     ConnectPeer       -- probe      -->        ProcessProbe             *)
(*     ProcessAck        <-- ack       --                                  *)
(*                       -- finish     -->        ProcessFinish (accepted) *)
(*     ProcessFinishAck  <-- finish_ack --                                 *)
(*     (confirmed)                                                         *)
(*                                                                         *)
(* Every API call runs under the engine's mutex (api.rs with_engine), so   *)
(* each is one action.  It has read the clock before it took the mutex and *)
(* works with any reading t of the last Lag units.  A call that returns an *)
(* error leaves its packet consumed; whether it also drops the pending     *)
(* context is the code's order of checks, kept here.                       *)
(*                                                                         *)
(* The nodes of Direct have no engine: their host drives a                 *)
(* HandshakeManager itself through process_incoming, and the sessions it   *)
(* completes are kept in the manager's map completed.                      *)
(*                                                                         *)
(* Data abstraction: a peer address is the node at that address; the bytes *)
(* of a message are the message; a hash, a MAC, a signature or a derived   *)
(* id is the tuple of its inputs (collision freedom), and a shared secret  *)
(* is the ciphertext with the KEM key that opened it, so a wrong key opens *)
(* it to another secret (implicit rejection) instead of failing.  Magic    *)
(* bytes and versions, always valid between two nodes of this program, are *)
(* the field kind.  The dedup and quorum steps of heartbeat touch no       *)
(* variable of this module.                                                *)
(***************************************************************************)
EXTENDS Integers, FiniteSets

CONSTANTS
    Node,              \* nodes; a node is also its network address
    Direct,            \* nodes whose host drives a HandshakeManager itself
    HandshakeTimeout,  \* HANDSHAKE_TIMEOUT_MS, in clock units
    TimestampWindow,   \* the 30_000 ms of the four timestamp checks
    MeshN, MeshNLow, MeshNHigh,   \* ResolvedConfig's mesh parameters
    Skew,              \* Skew[n]: how far n's clock runs ahead of now
    Lag,               \* longest wait for the mutex, or step back of a clock
    Duplicating,       \* the transport may deliver a packet again
    Lossy,             \* the transport may lose a packet
    CryptoFaults,      \* decapsulating or signing may return an error
    Taking,            \* hosts of Direct ask for sessions of handshakes under way
    MaxConnects,       \* bound: connect calls of each node's host
    MaxDraws,          \* bound: values a node draws from its generator
    MaxKeyGen,         \* bound: key rotations of each node
    MaxTime            \* bound: the last instant

ASSUME TimeAssumption ==
    /\ HandshakeTimeout \in Nat
    /\ TimestampWindow \in Nat
    /\ Skew \in [Node -> Nat]
    /\ Lag \in Nat
    /\ MaxTime \in Nat

\* GossipConfig::resolve refuses every other order of the three.
ASSUME MeshAssumption ==
    /\ MeshN \in Nat /\ MeshNLow \in Nat /\ MeshNHigh \in Nat
    /\ MeshNLow <= MeshN /\ MeshN <= MeshNHigh

ASSUME NodeAssumption == IsFiniteSet(Node) /\ Direct \subseteq Node

ASSUME BoundAssumption ==
    /\ Duplicating \in BOOLEAN /\ Lossy \in BOOLEAN /\ CryptoFaults \in BOOLEAN
    /\ Taking \in BOOLEAN
    /\ MaxConnects \in [Node -> Nat]
    /\ MaxDraws \in Nat
    /\ MaxKeyGen \in [Node -> Nat]

VARIABLES
    identity,   \* identity[n]: GossipEngine.identity
    keygen,     \* keygen[n]: key pairs node n has generated after its first
    rng,        \* rng[n]: values n has drawn (getrandom, OsRng)
    pending,    \* pending[n][p]: HandshakeManager.pending of n at address p
    sessions,   \* sessions[n][p]: SessionStore of n at address p, or
                \* HandshakeManager.completed of a node of Direct
    mesh,       \* mesh[n]: GossipEngine.mesh_peers of n
    stats,      \* stats[n]: the handshake part of GossipStats
    net,        \* packets in flight
    now,        \* real time
    connects,   \* connects[n]: connect calls n's host has made
    accepted,   \* history: sessions a server has completed
    confirmed   \* history: sessions a client has completed

vars == <<identity, keygen, rng, pending, sessions, mesh, stats, net, now,
          connects, accepted, confirmed>>

-----------------------------------------------------------------------------
(* Values *)

Draw == Node \X Nat                        \* a random value: its node and index
Key == Node \X Nat                         \* a key pair: its node and index
NodeId == [kem : Key, sig : Key]
Identity == [node_id : NodeId, kem : Key, sig : Key]

\* NodeIdentity::derive_node_id
derive_node_id(kem, sig) == [kem |-> kem, sig |-> sig]

Ciphertext == [seed : Draw, kem : Key]
Secret == [ciphertext : Ciphertext, kem : Key]

\* HybridKemKeypair::decapsulate; encapsulate_to yields the same secret for
\* the key the ciphertext was made for.
decapsulate(kem, ct) == [ciphertext |-> ct, kem |-> kem]

Probe == [kind : {"probe"}, client_nonce : Draw, endpoint : Node,
          client_node_id : NodeId, timestamp : Nat]
Ack == [kind : {"ack"}, client_nonce : Draw, server_nonce : Draw, kem_pk : Key,
        sig_pk : Key, server_node_id : NodeId, timestamp : Nat]
Finish == [kind : {"finish"}, kem_ciphertext : Ciphertext, client_sig_pk : Key,
           client_node_id : NodeId, timestamp : Nat]

Transcript == [probe : Probe, ack : Ack, finish : Finish]
compute_transcript_hash(probe, ack, finish) ==
    [probe |-> probe, ack |-> ack, finish |-> finish]

Mac == [secret : Secret, hash : Transcript]
compute_server_mac(secret, hash) == [secret |-> secret, hash |-> hash]

Signature == [sig : Key, hash : Transcript]
sign(sig, hash) == [sig |-> sig, hash |-> hash]
verify_external(sig, hash, signature) == signature = sign(sig, hash)

SessionId == [secret : Secret, client_nonce : Draw, server_nonce : Draw,
              ciphertext : Ciphertext, node_id : NodeId]
derive_session_id(secret, cn, sn, ct, id) ==
    [secret |-> secret, client_nonce |-> cn, server_nonce |-> sn,
     ciphertext |-> ct, node_id |-> id]

FinishAck == [kind : {"finish_ack"}, session_id : SessionId,
              transcript_hash : Transcript, server_mac : Mac,
              transcript_signature : Signature, timestamp : Nat]

Packet == [from : Node, to : Node, body : Probe \cup Ack \cup Finish \cup FinishAck]

\* HandshakeContext.  The fields of FinishSent that no code reads are left out.
Absent == [state |-> "Absent"]
ProbeSent == [state : {"ProbeSent"}, client_nonce : Draw, probe_bytes : Probe,
              sent_at : Nat]
FinishSent == [state : {"FinishSent"}, shared_secret : Secret,
               probe_bytes : Probe, ack_bytes : Ack, finish_bytes : Finish,
               server_sig_pk : Key, server_node_id : NodeId, sent_at : Nat]
AckSent == [state : {"AckSent"}, client_nonce : Draw, server_nonce : Draw,
            probe_bytes : Probe, ack_bytes : Ack, sent_at : Nat]
Context == {Absent} \cup ProbeSent \cup FinishSent \cup AckSent

\* SessionRecord, without peer_addr (the index of sessions) and
\* established_at_ms (only reported).
NoSession == [is_active |-> FALSE]
Session == [is_active : {TRUE}, session_id : SessionId, peer_node_id : NodeId,
            peer_sig_public_key : Key, transcript_hash : Transcript]

\* What the two ends of a completed handshake must agree on.
Agreement == [client : Node, server : Node, transcript_hash : Transcript,
              session_id : SessionId, shared_secret : Secret]

Stats == [active_peers : Nat, mesh_peers : Nat, handshakes_completed : Nat,
          handshakes_failed : Nat]

-----------------------------------------------------------------------------
(* Clocks, draws and packets *)

saturating_sub(a, b) == IF a > b THEN a - b ELSE 0

\* What current_time_unix_ms may have returned to a call of n that now holds
\* the mutex.
Clock(n) == now + Skew[n]
Readings(n) == saturating_sub(Clock(n), Lag) .. Clock(n)

\* Mutant: the operands of the subtraction exchanged.
OutOfWindowSwapped(t, timestamp) == saturating_sub(timestamp, t) > TimestampWindow

\* The timestamp check every handler makes before it reads its state.
OutOfWindow(t, timestamp) == saturating_sub(t, timestamp) > TimestampWindow

CanDraw(n) == rng[n] < MaxDraws
getrandom(n) == <<n, rng[n]>>
TakeDraw(n) == rng' = [rng EXCEPT ![n] = @ + 1]

\* The transport hands m to the node it is addressed to and takes its replies.
Deliver(m, replies) == net' = (IF Duplicating THEN net ELSE net \ {m}) \cup replies
Reply(m, body) == {[from |-> m.to, to |-> m.from, body |-> body]}

-----------------------------------------------------------------------------
(* Engine helpers *)

\* SessionStore::active_peers; no code ever clears is_active.
ActivePeers(store) == {p \in Node : store[p].is_active}

\* Mutant: no upper watermark.
add_to_mesh_unbounded(n, p) == mesh[n] \cup {p}

\* GossipEngine::add_to_mesh
add_to_mesh(n, p) == IF Cardinality(mesh[n]) < MeshNHigh THEN mesh[n] \cup {p}
                                                        ELSE mesh[n]

\* Mutant: active_peers is counted up and down instead.
StatsWith_delta(n, store, mesh_peers, completed, failed) ==
    [stats EXCEPT ![n] =
        [active_peers |-> IF completed = 1 THEN @.active_peers + 1 ELSE @.active_peers - 1,
         mesh_peers |-> mesh_peers,
         handshakes_completed |-> @.handshakes_completed + completed,
         handshakes_failed |-> @.handshakes_failed + failed]]

\* The refreshed counters: active_peers is recounted, handshakes_completed and
\* handshakes_failed grow.
StatsWith(n, store, mesh_peers, completed, failed) ==
    [stats EXCEPT ![n] =
        [active_peers |-> Cardinality(ActivePeers(store)),
         mesh_peers |-> mesh_peers,
         handshakes_completed |-> @.handshakes_completed + completed,
         handshakes_failed |-> @.handshakes_failed + failed]]

\* Mutant: the counters taken before the session and the mesh change.
complete_handshake_early_stats(n, p, session) ==
    /\ sessions' = [sessions EXCEPT ![n][p] = session]
    /\ mesh' = [mesh EXCEPT ![n] = add_to_mesh(n, p)]
    /\ stats' = StatsWith(n, sessions[n], Cardinality(mesh[n]), 1, 0)

\* Mutant: an existing session is kept instead of replaced.
complete_handshake_keeping(n, p, session) ==
    LET store == [sessions[n] EXCEPT ![p] = IF @ = NoSession THEN session ELSE @]
        peers == add_to_mesh(n, p)
    IN  /\ sessions' = [sessions EXCEPT ![n] = store]
        /\ mesh' = [mesh EXCEPT ![n] = peers]
        /\ stats' = StatsWith(n, store, Cardinality(peers), 1, 0)

\* GossipEngine::complete_handshake
complete_handshake(n, p, session) ==
    LET store == [sessions[n] EXCEPT ![p] = session]
        peers == add_to_mesh(n, p)
    IN  /\ sessions' = [sessions EXCEPT ![n] = store]
        /\ mesh' = [mesh EXCEPT ![n] = peers]
        /\ stats' = StatsWith(n, store, Cardinality(peers), 1, 0)

\* Mutant: the operands of the subtraction exchanged.
is_timed_out_swapped(n, p, t) ==
    /\ pending[n][p] # Absent
    /\ saturating_sub(pending[n][p].sent_at, t) > HandshakeTimeout

\* HandshakeContext::is_timed_out
is_timed_out(n, p, t) ==
    /\ pending[n][p] # Absent
    /\ saturating_sub(t, pending[n][p].sent_at) > HandshakeTimeout

\* HandshakeManager::evict_timed_out: the addresses evicted, and what is left.
TimedOut(n, t) == {p \in Node : is_timed_out(n, p, t)}
Kept(n, t) == [p \in Node |-> IF p \in TimedOut(n, t) THEN Absent ELSE pending[n][p]]

\* Mutant: the comparison reversed.
mesh_needs_peers_reversed(n) == Cardinality(mesh[n]) > MeshNLow

mesh_needs_peers(n) == Cardinality(mesh[n]) < MeshNLow

\* The mesh after step 4 of heartbeat: any order of the session map, cut to
\* the room below MeshN, pushed while the mesh is not full.
Grafted(n) ==
    LET candidates == ActivePeers(sessions[n]) \ mesh[n]
        room == saturating_sub(MeshN, Cardinality(mesh[n]))
        free == saturating_sub(MeshNHigh, Cardinality(mesh[n]))
        Fits(g) == /\ Cardinality(g) <= room
                   /\ Cardinality(g) <= free
                   /\ \/ g = candidates
                      \/ Cardinality(g) = room
                      \/ Cardinality(g) = free
    IN  IF mesh_needs_peers(n)
        THEN {mesh[n] \cup g : g \in {c \in SUBSET candidates : Fits(c)}}
        ELSE {mesh[n]}

-----------------------------------------------------------------------------
(* Client and server steps *)

\* HandshakeManager::build_probe; the context replaces any other for the address.
build_probe(n, p, t) ==
    LET probe == [kind |-> "probe", client_nonce |-> getrandom(n), endpoint |-> p,
                  client_node_id |-> identity[n].node_id, timestamp |-> t]
    IN  /\ CanDraw(n)
        /\ pending' = [pending EXCEPT ![n][p] =
               [state |-> "ProbeSent", client_nonce |-> getrandom(n),
                probe_bytes |-> probe, sent_at |-> t]]
        /\ net' = net \cup {[from |-> n, to |-> p, body |-> probe]}
        /\ TakeDraw(n)

\* gossip_connect_peer, refused while a session exists; create_identity_probe
\* of a manager does not look.
ConnectPeer(n, p, t) ==
    /\ connects[n] < MaxConnects[n]
    /\ sessions[n][p] = NoSession \/ n \in Direct
    /\ build_probe(n, p, t)
    /\ connects' = [connects EXCEPT ![n] = @ + 1]
    /\ UNCHANGED <<identity, keygen, sessions, mesh, stats, now, accepted, confirmed>>

build_ack(n, probe, t) ==
    [kind |-> "ack", client_nonce |-> probe.client_nonce,
     server_nonce |-> getrandom(n), kem_pk |-> identity[n].kem,
     sig_pk |-> identity[n].sig, server_node_id |-> identity[n].node_id,
     timestamp |-> t]

\* process_probe_build_ack, through process_handshake_bytes, process_incoming or
\* gossip_build_handshake_ack: the new context replaces whatever was pending.
ProcessProbe(m, t) ==
    LET n == m.to
        p == m.from
        probe == m.body
        ack == build_ack(n, probe, t)
    IN  /\ probe.kind = "probe"
        /\ ~OutOfWindow(t, probe.timestamp)
        /\ CanDraw(n)
        /\ pending' = [pending EXCEPT ![n][p] =
               [state |-> "AckSent", client_nonce |-> probe.client_nonce,
                server_nonce |-> getrandom(n), probe_bytes |-> probe,
                ack_bytes |-> ack, sent_at |-> t]]
        /\ Deliver(m, Reply(m, ack))
        /\ TakeDraw(n)
        /\ UNCHANGED <<identity, keygen, sessions, mesh, stats, now, connects,
                       accepted, confirmed>>

\* Mutant: the wrong nonce compared.
ExpectsAckWrongNonce(m) ==
    LET context == pending[m.to][m.from]
    IN  context.state = "ProbeSent" /\ m.body.server_nonce = context.client_nonce

\* The context and the nonce echo process_ack_build_finish asks for.
ExpectsAck(m) ==
    LET context == pending[m.to][m.from]
    IN  context.state = "ProbeSent" /\ m.body.client_nonce = context.client_nonce

build_finish(n, ct, t) ==
    [kind |-> "finish", kem_ciphertext |-> ct, client_sig_pk |-> identity[n].sig,
     client_node_id |-> identity[n].node_id, timestamp |-> t]

\* process_ack_build_finish
ProcessAck(m, t) ==
    LET n == m.to
        p == m.from
        ack == m.body
        ct == [seed |-> getrandom(n), kem |-> ack.kem_pk]
        finish == build_finish(n, ct, t)
    IN  /\ ack.kind = "ack"
        /\ ~OutOfWindow(t, ack.timestamp)
        /\ ExpectsAck(m)
        /\ CanDraw(n)
        /\ pending' = [pending EXCEPT ![n][p] =
               [state |-> "FinishSent", shared_secret |-> decapsulate(ack.kem_pk, ct),
                probe_bytes |-> pending[n][p].probe_bytes, ack_bytes |-> ack,
                finish_bytes |-> finish, server_sig_pk |-> ack.sig_pk,
                server_node_id |-> ack.server_node_id, sent_at |-> t]]
        /\ Deliver(m, Reply(m, finish))
        /\ TakeDraw(n)
        /\ UNCHANGED <<identity, keygen, sessions, mesh, stats, now, connects,
                       accepted, confirmed>>

\* The session, the answer and the agreement that
\* process_finish_build_finish_ack makes of a finish and the pending context.
ServerResult(m, t) ==
    LET n == m.to
        finish == m.body
        context == pending[n][m.from]
        secret == decapsulate(identity[n].kem, finish.kem_ciphertext)
        hash == compute_transcript_hash(context.probe_bytes, context.ack_bytes, finish)
        id == derive_session_id(secret, context.client_nonce, context.server_nonce,
                                finish.kem_ciphertext, identity[n].node_id)
    IN  [session |-> [is_active |-> TRUE, session_id |-> id,
                      peer_node_id |-> finish.client_node_id,
                      peer_sig_public_key |-> finish.client_sig_pk,
                      transcript_hash |-> hash],
         finish_ack |-> [kind |-> "finish_ack", session_id |-> id,
                         transcript_hash |-> hash,
                         server_mac |-> compute_server_mac(secret, hash),
                         transcript_signature |-> sign(identity[n].sig, hash),
                         timestamp |-> t],
         agreement |-> [client |-> m.from, server |-> n, transcript_hash |-> hash,
                        session_id |-> id, shared_secret |-> secret]]

\* Mutant: pending.get in place of pending.remove.
AnswerFinishKeeping(m, t) ==
    /\ m.body.kind = "finish"
    /\ ~OutOfWindow(t, m.body.timestamp)
    /\ pending[m.to][m.from].state = "AckSent"
    /\ Deliver(m, Reply(m, ServerResult(m, t).finish_ack))
    /\ accepted' = accepted \cup {ServerResult(m, t).agreement}
    /\ UNCHANGED <<identity, keygen, rng, pending, now, connects, confirmed>>

\* A finish that process_finish_build_finish_ack answers: it takes the context
\* out of pending and completes the server's side.
AnswerFinish(m, t) ==
    /\ m.body.kind = "finish"
    /\ ~OutOfWindow(t, m.body.timestamp)
    /\ pending[m.to][m.from].state = "AckSent"
    /\ pending' = [pending EXCEPT ![m.to][m.from] = Absent]
    /\ Deliver(m, Reply(m, ServerResult(m, t).finish_ack))
    /\ accepted' = accepted \cup {ServerResult(m, t).agreement}
    /\ UNCHANGED <<identity, keygen, rng, now, connects, confirmed>>

\* HandshakeManager.completed after an insert; neither mesh nor counters.
CompleteDirect(n, p, session) ==
    /\ sessions' = [sessions EXCEPT ![n][p] = session]
    /\ UNCHANGED <<mesh, stats>>

\* process_handshake_bytes or process_incoming on a finish
ProcessFinish(m, t) ==
    /\ AnswerFinish(m, t)
    /\ IF m.to \in Direct
       THEN CompleteDirect(m.to, m.from, ServerResult(m, t).session)
       ELSE complete_handshake(m.to, m.from, ServerResult(m, t).session)

\* gossip_build_finish_ack: as ProcessFinish, but the peer does not join the mesh.
BuildFinishAck(m, t) ==
    /\ m.to \notin Direct
    /\ AnswerFinish(m, t)
    /\ LET store == [sessions[m.to] EXCEPT ![m.from] = ServerResult(m, t).session]
       IN  /\ sessions' = [sessions EXCEPT ![m.to] = store]
           /\ stats' = StatsWith(m.to, store, stats[m.to].mesh_peers, 1, 0)
    /\ UNCHANGED mesh

\* Mutant: the MAC is not compared.
AcceptsFinishAckNoMac(m) ==
    LET context == pending[m.to][m.from]
    IN  /\ context.state = "FinishSent"
        /\ m.body.transcript_hash = compute_transcript_hash(context.probe_bytes,
               context.ack_bytes, context.finish_bytes)
        /\ verify_external(context.server_sig_pk, m.body.transcript_hash,
                           m.body.transcript_signature)

\* Mutant: a valid signature is enough, whatever transcript it covers.
AcceptsFinishAckAnyTranscript(m) ==
    LET context == pending[m.to][m.from]
    IN  /\ context.state = "FinishSent"
        /\ verify_external(context.server_sig_pk, m.body.transcript_hash,
                           m.body.transcript_signature)

\* The checks of process_finish_ack on the context it took out of pending.
AcceptsFinishAck(m) ==
    LET context == pending[m.to][m.from]
        hash == compute_transcript_hash(context.probe_bytes, context.ack_bytes,
                                        context.finish_bytes)
    IN  /\ context.state = "FinishSent"
        /\ m.body.transcript_hash = hash
        /\ m.body.server_mac = compute_server_mac(context.shared_secret, hash)
        /\ verify_external(context.server_sig_pk, m.body.transcript_hash,
                           m.body.transcript_signature)

\* The session process_finish_ack makes; its id is the one the message carries.
ClientSession(m) ==
    [is_active |-> TRUE, session_id |-> m.body.session_id,
     peer_node_id |-> pending[m.to][m.from].server_node_id,
     peer_sig_public_key |-> pending[m.to][m.from].server_sig_pk,
     transcript_hash |-> m.body.transcript_hash]

\* process_handshake_bytes or process_incoming on a finish_ack
ProcessFinishAck(m, t) ==
    /\ m.body.kind = "finish_ack"
    /\ ~OutOfWindow(t, m.body.timestamp)
    /\ AcceptsFinishAck(m)
    /\ pending' = [pending EXCEPT ![m.to][m.from] = Absent]
    /\ IF m.to \in Direct THEN CompleteDirect(m.to, m.from, ClientSession(m))
                          ELSE complete_handshake(m.to, m.from, ClientSession(m))
    /\ confirmed' = confirmed \cup
           {[client |-> m.to, server |-> m.from,
             transcript_hash |-> m.body.transcript_hash,
             session_id |-> m.body.session_id,
             shared_secret |-> pending[m.to][m.from].shared_secret]}
    /\ Deliver(m, {})
    /\ UNCHANGED <<identity, keygen, rng, now, connects, accepted>>

-----------------------------------------------------------------------------
(* Refusals *)

\* An error returned before pending is touched: any message out of its window,
\* an ack no context waits for, or a failing draw, encapsulation or encoding.
RefuseKeepingContext(m, t) ==
    /\ \/ OutOfWindow(t, m.body.timestamp)
       \/ m.body.kind = "ack" /\ ~ExpectsAck(m)
       \/ m.body.kind \in {"probe", "ack"} /\ CryptoFaults
    /\ Deliver(m, {})
    /\ UNCHANGED <<identity, keygen, rng, pending, sessions, mesh, stats, now,
                   connects, accepted, confirmed>>

\* An error returned after pending.remove: a finish or finish_ack that finds a
\* context of another kind, an operation on the keys that fails, or a
\* finish_ack that does not verify.
RefuseDroppingContext(m, t) ==
    /\ ~OutOfWindow(t, m.body.timestamp)
    /\ \/ /\ m.body.kind = "finish"
          /\ pending[m.to][m.from].state # "AckSent" \/ CryptoFaults
       \/ /\ m.body.kind = "finish_ack"
          /\ ~AcceptsFinishAck(m)
    /\ pending' = [pending EXCEPT ![m.to][m.from] = Absent]
    /\ Deliver(m, {})
    /\ UNCHANGED <<identity, keygen, rng, sessions, mesh, stats, now, connects,
                   accepted, confirmed>>

-----------------------------------------------------------------------------
(* The rest of the engine, the network and time *)

\* gossip_disconnect_peer; an error, changing nothing, without a session.
DisconnectPeer(n, p) ==
    LET store == [sessions[n] EXCEPT ![p] = NoSession]
        peers == mesh[n] \ {p}
    IN  /\ n \notin Direct
        /\ sessions[n][p] # NoSession
        /\ sessions' = [sessions EXCEPT ![n] = store]
        /\ mesh' = [mesh EXCEPT ![n] = peers]
        /\ pending' = [pending EXCEPT ![n][p] = Absent]
        /\ stats' = StatsWith(n, store, Cardinality(peers), 0, 0)
        /\ UNCHANGED <<identity, keygen, rng, net, now, connects, accepted, confirmed>>

\* HandshakeManager::remove, called by the host: context and session go.
RemovePeer(n, p) ==
    /\ n \in Direct
    /\ sessions[n][p] # NoSession \/ (Taking /\ pending[n][p] # Absent)
    /\ sessions' = [sessions EXCEPT ![n][p] = NoSession]
    /\ pending' = [pending EXCEPT ![n][p] = Absent]
    /\ UNCHANGED <<identity, keygen, rng, mesh, stats, net, now, connects, accepted,
                   confirmed>>

\* HandshakeManager::take_session: removes the context, which is never one that
\* holds a session, and returns None.
TakeSession(n, p) ==
    /\ n \in Direct /\ Taking
    /\ pending[n][p] # Absent
    /\ pending' = [pending EXCEPT ![n][p] = Absent]
    /\ UNCHANGED <<identity, keygen, rng, sessions, mesh, stats, net, now, connects,
                   accepted, confirmed>>

\* heartbeat, run by gossip_get_stats
Heartbeat(n, t) ==
    /\ n \notin Direct
    /\ pending' = [pending EXCEPT ![n] = Kept(n, t)]
    /\ \E peers \in Grafted(n) :
           /\ mesh' = [mesh EXCEPT ![n] = peers]
           /\ stats' = StatsWith(n, sessions[n], Cardinality(peers), 0,
                                 Cardinality(TimedOut(n, t)))
    /\ UNCHANGED <<identity, keygen, rng, sessions, net, now, connects, accepted,
                   confirmed>>

\* HandshakeManager::evict_timed_out, called by the host.
EvictTimedOut(n, t) ==
    /\ n \in Direct
    /\ pending' = [pending EXCEPT ![n] = Kept(n, t)]
    /\ UNCHANGED <<identity, keygen, rng, sessions, mesh, stats, net, now, connects,
                   accepted, confirmed>>

FreshKey(n) == <<n, keygen[n] + 1>>

\* gossip_rotate_keys: fresh keys under a fresh id.
RotateKeys(n) ==
    /\ keygen[n] < MaxKeyGen[n]
    /\ keygen' = [keygen EXCEPT ![n] = @ + 1]
    /\ identity' = [identity EXCEPT ![n] =
           [node_id |-> derive_node_id(FreshKey(n), FreshKey(n)),
            kem |-> FreshKey(n), sig |-> FreshKey(n)]]
    /\ UNCHANGED <<rng, pending, sessions, mesh, stats, net, now, connects,
                   accepted, confirmed>>

\* gossip_rotate_keys_under_id: the id stays, the host supplies the seeds of
\* new, current or earlier keys.
RotateKeysUnderId(n) ==
    /\ keygen[n] < MaxKeyGen[n]
    /\ keygen' = [keygen EXCEPT ![n] = @ + 1]
    /\ \E kem, sig \in {<<n, k>> : k \in 0 .. keygen[n] + 1} :
           identity' = [identity EXCEPT ![n] =
                           [node_id |-> @.node_id, kem |-> kem, sig |-> sig]]
    /\ UNCHANGED <<rng, pending, sessions, mesh, stats, net, now, connects,
                   accepted, confirmed>>

Lose(m) ==
    /\ Lossy
    /\ net' = net \ {m}
    /\ UNCHANGED <<identity, keygen, rng, pending, sessions, mesh, stats, now,
                   connects, accepted, confirmed>>

Tick ==
    /\ now < MaxTime
    /\ now' = now + 1
    /\ UNCHANGED <<identity, keygen, rng, pending, sessions, mesh, stats, net,
                   connects, accepted, confirmed>>

-----------------------------------------------------------------------------

Init ==
    /\ identity = [n \in Node |-> [node_id |-> derive_node_id(<<n, 0>>, <<n, 0>>),
                                   kem |-> <<n, 0>>, sig |-> <<n, 0>>]]
    /\ keygen = [n \in Node |-> 0]
    /\ rng = [n \in Node |-> 0]
    /\ pending = [n \in Node |-> [p \in Node |-> Absent]]
    /\ sessions = [n \in Node |-> [p \in Node |-> NoSession]]
    /\ mesh = [n \in Node |-> {}]
    /\ stats = [n \in Node |-> [active_peers |-> 0, mesh_peers |-> 0,
                                handshakes_completed |-> 0, handshakes_failed |-> 0]]
    /\ net = {}
    /\ now = 0
    /\ connects = [n \in Node |-> 0]
    /\ accepted = {}
    /\ confirmed = {}

\* What the host of a node does with an arrived packet.
Receive(m, t) ==
    \/ ProcessProbe(m, t)
    \/ ProcessAck(m, t)
    \/ ProcessFinish(m, t)
    \/ BuildFinishAck(m, t)
    \/ ProcessFinishAck(m, t)
    \/ RefuseKeepingContext(m, t)
    \/ RefuseDroppingContext(m, t)

Maintain(n) == \E t \in Readings(n) : Heartbeat(n, t) \/ EvictTimedOut(n, t)

Next ==
    \/ \E n \in Node : \E p \in Node \ {n} :
           \/ \E t \in Readings(n) : ConnectPeer(n, p, t)
           \/ DisconnectPeer(n, p) \/ RemovePeer(n, p) \/ TakeSession(n, p)
    \/ \E m \in net : Lose(m) \/ \E t \in Readings(m.to) : Receive(m, t)
    \/ \E n \in Node : Maintain(n) \/ RotateKeys(n) \/ RotateKeysUnderId(n)
    \/ Tick

Spec == Init /\ [][Next]_vars

\* Hosts poll the statistics, which runs the heartbeat, or evict; time passes.
MaintenanceFairness == WF_vars(Tick) /\ \A n \in Node : WF_vars(Maintain(n))

MaintainedSpec == Spec /\ MaintenanceFairness

\* Hosts also hand every arrived packet to the engine.  net grows during a
\* behaviour, so the quantifier is over nodes, not over packets.
DeliveryFairness ==
    \A n \in Node :
        WF_vars(\E m \in net : m.to = n /\ \E t \in Readings(n) : Receive(m, t))

LiveSpec == Spec /\ MaintenanceFairness /\ DeliveryFairness

-----------------------------------------------------------------------------
(* Properties *)

\* Every variable of every engine, packet and history record has its type.
TypeOK ==
    /\ identity \in [Node -> Identity]
    /\ keygen \in [Node -> Nat]
    /\ rng \in [Node -> Nat]
    /\ pending \in [Node -> [Node -> Context]]
    /\ sessions \in [Node -> [Node -> {NoSession} \cup Session]]
    /\ mesh \in [Node -> SUBSET Node]
    /\ stats \in [Node -> Stats]
    /\ net \subseteq Packet
    /\ now \in Nat
    /\ connects \in [Node -> Nat]
    /\ accepted \subseteq Agreement
    /\ confirmed \subseteq Agreement

\* A client completes process_finish_ack only for a handshake its server has
\* completed with it, with the same transcript, session id and shared secret,
\* whatever was lost, repeated, reordered, retried, timed out or rotated.
ConfirmedIsAccepted == confirmed \subseteq accepted

\* No nonce completes two handshakes, on either side: pending.remove takes the
\* context out before a repeated finish or finish_ack could use it again.
NonceUsedOnce ==
    /\ \A x, y \in accepted :
           x.transcript_hash.ack.server_nonce = y.transcript_hash.ack.server_nonce
               => x = y
    /\ \A x, y \in confirmed :
           x.transcript_hash.probe.client_nonce = y.transcript_hash.probe.client_nonce
               => x = y

\* The session id a client takes from the finish_ack unchecked was derived from
\* the client's own secret, nonces and ciphertext, even when retries overlap or
\* the server's identity changes during the handshake.
SessionIdBound ==
    \A x \in confirmed :
        LET t == x.transcript_hash
        IN  x.session_id = derive_session_id(x.shared_secret, t.probe.client_nonce,
                               t.ack.server_nonce, t.finish.kem_ciphertext,
                               x.session_id.node_id)

\* A finish_ack in flight belongs to a handshake its sender has completed with
\* its receiver, and its MAC is keyed with the sender's secret.
FinishAckBacked ==
    \A m \in net :
        m.body.kind = "finish_ack" =>
            \E x \in accepted :
                /\ x.client = m.to
                /\ x.server = m.from
                /\ x.transcript_hash = m.body.transcript_hash
                /\ x.session_id = m.body.session_id
                /\ m.body.server_mac =
                       compute_server_mac(x.shared_secret, x.transcript_hash)

\* The nonce a node drew for the handshake a context stands for.
OwnNonce(context) == IF context.state = "AckSent"
                     THEN context.ack_bytes.server_nonce
                     ELSE context.probe_bytes.client_nonce

DrawnBy(n, nonce) == \E k \in 0 .. rng[n] - 1 : nonce = <<n, k>>

\* No two contexts of a node share a nonce, and none uses the nonce of a
\* handshake the node has completed.
NoncesFresh ==
    /\ \A n, p \in Node :
           pending[n][p] # Absent => DrawnBy(n, OwnNonce(pending[n][p]))
    /\ \A n, p, q \in Node :
           p # q /\ pending[n][p] # Absent /\ pending[n][q] # Absent
               => OwnNonce(pending[n][p]) # OwnNonce(pending[n][q])
    /\ \A x \in accepted :
           LET nonce == x.transcript_hash.ack.server_nonce
           IN  /\ DrawnBy(x.server, nonce)
               /\ \A p \in Node : pending[x.server][p] # Absent
                      => OwnNonce(pending[x.server][p]) # nonce
    /\ \A x \in confirmed :
           LET nonce == x.transcript_hash.probe.client_nonce
           IN  /\ DrawnBy(x.client, nonce)
               /\ \A p \in Node : pending[x.client][p] # Absent
                      => OwnNonce(pending[x.client][p]) # nonce

\* The nonces a server keeps beside the bytes are the nonces in the bytes, and
\* the ids it has given out are derived from them.
AcceptedBound ==
    /\ \A n, p \in Node :
           pending[n][p].state = "AckSent" =>
               /\ pending[n][p].client_nonce = pending[n][p].probe_bytes.client_nonce
               /\ pending[n][p].server_nonce = pending[n][p].ack_bytes.server_nonce
    /\ \A x \in accepted :
           LET t == x.transcript_hash
           IN  x.session_id = derive_session_id(x.shared_secret, t.probe.client_nonce,
                                  t.ack.server_nonce, t.finish.kem_ciphertext,
                                  x.session_id.node_id)

\* The inductive invariant behind the safety properties: every way of
\* interleaving retries, repeated packets, evictions and rotations keeps it.
IInv ==
    /\ TypeOK
    /\ ConfirmedIsAccepted
    /\ FinishAckBacked
    /\ NoncesFresh
    /\ AcceptedBound
    /\ NonceUsedOnce

\* The counters gossip_get_stats reports agree with the engine's state and
\* history on every path: both ways of completing, disconnect and heartbeat.
StatsExact ==
    \A n \in Node \ Direct :
        /\ stats[n].active_peers = Cardinality(ActivePeers(sessions[n]))
        /\ stats[n].mesh_peers = Cardinality(mesh[n])
        /\ stats[n].handshakes_completed =
               Cardinality({x \in accepted : x.server = n})
               + Cardinality({x \in confirmed : x.client = n})

\* mesh_peers holds only peers with a session and at most mesh_n_high of them,
\* through completion, disconnect and grafting.
MeshSound ==
    \A n \in Node : /\ mesh[n] \subseteq ActivePeers(sessions[n])
                     /\ Cardinality(mesh[n]) <= MeshNHigh

\* A client never completes a handshake whose probe is older than four
\* timestamp windows and one wait for the mutex, even if no heartbeat ever
\* evicts a context: the lags of the four readings do not add up.
ConfirmedFresh ==
    [][\A x \in confirmed' \ confirmed :
           Clock(x.client) - x.transcript_hash.probe.timestamp
               <= 4 * TimestampWindow + Lag]_vars

\* The id of the session n holds for p.
HeldBy(n, p) == IF sessions[n][p] = NoSession THEN NoSession
                                              ELSE sessions[n][p].session_id
Held == [n \in Node |-> [p \in Node |-> HeldBy(n, p)]]

Abstract == INSTANCE SecureSession WITH Nothing <- NoSession, held <- Held

\* Every completed handshake is one Accept or one Confirm of SecureSession, every
\* disconnect a Close, and nothing else changes what a node holds.
RefinesSecureSession == Abstract!Spec

\* No handshake context outlives its timeout for good once heartbeats run, even
\* with readings that lag.
ContextsEnd ==
    \A n \in Node : \A p \in Node \ {n} :
        \A t \in 0 .. MaxTime + Skew[n] - HandshakeTimeout - Lag - 1 :
            LET Waits == pending[n][p] # Absent /\ pending[n][p].sent_at = t
            IN  Waits ~> ~Waits

\* A connect call ends in a session at both ends.
ConnectSucceeds ==
    \A n, p \in Node :
        pending[n][p].state = "ProbeSent" ~>
            \E x \in accepted \cap confirmed : x.client = n /\ x.server = p

\* A mesh below its low watermark takes in the peers that have a session.
MeshHeals ==
    \A n \in Node \ Direct :
        []<>(\/ Cardinality(mesh[n]) >= MeshNLow
             \/ mesh[n] = ActivePeers(sessions[n]))

\* "Both client and server derive the same session_id": two nodes that hold a
\* session for each other hold the same one.
MatchedSessions ==
    \A n, p \in Node :
        sessions[n][p].is_active /\ sessions[p][n].is_active
            => sessions[n][p].session_id = sessions[p][n].session_id
=============================================================================
