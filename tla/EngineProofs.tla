---------------------------- MODULE EngineProofs ----------------------------
(***************************************************************************)
(* Proofs about the engine that Handshake feeds: the mesh and the counters *)
(* gossip_get_stats reports, for any nodes and any watermarks in order.    *)
(***************************************************************************)
EXTENDS HandshakeProofs

\* What an engine has counted as completed.
Served(n) == {x \in accepted : x.server = n}
Joined(n) == {x \in confirmed : x.client = n}

\* No host drives an engine's mesh.
DirectMeshless == \A n \in Direct : mesh[n] = {}

Countable == IsFiniteSet(accepted) /\ IsFiniteSet(confirmed)

\* The inductive invariant, beside that of the handshake.
EInv == IInv /\ MeshSound /\ DirectMeshless /\ Countable /\ StatsExact

-----------------------------------------------------------------------------
(* Meshes *)

\* One node's mesh and sessions change and stay sound.
LEMMA MeshChange ==
    ASSUME EInv, NEW n \in Node, NEW store, NEW peers,
           sessions' = [sessions EXCEPT ![n] = store],
           mesh' = [mesh EXCEPT ![n] = peers],
           peers \subseteq ActivePeers(store), Cardinality(peers) <= MeshNHigh,
           n \in Direct => peers = {}
    PROVE  MeshSound' /\ DirectMeshless'
<1>1. /\ sessions \in [Node -> [Node -> {NoSession} \cup Session]]
      /\ mesh \in [Node -> SUBSET Node]
  BY DEF EInv, IInv, TypeOK
<1>2. \A q \in Node : /\ sessions'[q] = IF q = n THEN store ELSE sessions[q]
                      /\ mesh'[q] = IF q = n THEN peers ELSE mesh[q]
  BY <1>1
<1>3. MeshSound'
  BY <1>2 DEF EInv, MeshSound, ActivePeers
<1>4. DirectMeshless'
  BY <1>2, NodeAssumption DEF EInv, DirectMeshless
<1> QED  BY <1>3, <1>4

\* A session is active, its absence is not.
LEMMA Activity ==
    ASSUME TypeOK, NEW n \in Node, NEW p \in Node
    PROVE  /\ \A s \in Session : ActivePeers([sessions[n] EXCEPT ![p] = s]) =
                                     ActivePeers(sessions[n]) \cup {p}
           /\ ActivePeers([sessions[n] EXCEPT ![p] = NoSession]) = ActivePeers(sessions[n]) \ {p}
<1>1. sessions[n] \in [Node -> {NoSession} \cup Session]
  BY DEF TypeOK
<1>2. NoSession.is_active = FALSE /\ \A s \in Session : s.is_active = TRUE
  BY DEF NoSession, Session
<1> QED  BY <1>1, <1>2 DEF ActivePeers

\* add_to_mesh respects the high watermark.
LEMMA AddedBound ==
    ASSUME EInv, NEW n \in Node, NEW p \in Node
    PROVE  /\ Cardinality(add_to_mesh(n, p)) <= MeshNHigh
           /\ add_to_mesh(n, p) \subseteq ActivePeers(sessions[n]) \cup {p}
<1>1. mesh[n] \in SUBSET Node /\ Cardinality(mesh[n]) <= MeshNHigh
      /\ mesh[n] \subseteq ActivePeers(sessions[n])
  BY DEF EInv, IInv, TypeOK, MeshSound
<1>2. IsFiniteSet(mesh[n]) /\ Cardinality(mesh[n]) \in Nat
  BY <1>1, NodesFinite
<1>3. Cardinality(mesh[n] \cup {p}) <= Cardinality(mesh[n]) + 1
  BY <1>2, FS_AddElement
<1>4. Cardinality(mesh[n] \cup {p}) \in Nat
  BY <1>1, NodesFinite
<1> QED  BY <1>1, <1>2, <1>3, <1>4, MeshAssumption DEF add_to_mesh

\* Grafting takes in peers with a session, as many as fit.
LEMMA GraftedBound ==
    ASSUME EInv, NEW n \in Node, NEW peers \in Grafted(n)
    PROVE  peers \subseteq ActivePeers(sessions[n]) /\ Cardinality(peers) <= MeshNHigh
<1>1. mesh[n] \in SUBSET Node /\ Cardinality(mesh[n]) <= MeshNHigh
      /\ mesh[n] \subseteq ActivePeers(sessions[n])
  BY DEF EInv, IInv, TypeOK, MeshSound
<1>2. CASE peers = mesh[n]
  BY <1>1, <1>2
<1>3. ASSUME NEW g \in SUBSET (ActivePeers(sessions[n]) \ mesh[n]),
             Cardinality(g) <= saturating_sub(MeshNHigh, Cardinality(mesh[n])),
             peers = mesh[n] \cup g
      PROVE  peers \subseteq ActivePeers(sessions[n]) /\ Cardinality(peers) <= MeshNHigh
  <2>1. g \in SUBSET Node
    BY DEF ActivePeers
  <2>2. /\ IsFiniteSet(mesh[n]) /\ Cardinality(mesh[n]) \in Nat
        /\ IsFiniteSet(g) /\ Cardinality(g) \in Nat
    BY <1>1, <2>1, NodesFinite
  <2>3. mesh[n] \cap g \in SUBSET Node
    BY <1>1
  <2>4. Cardinality(mesh[n] \cap g) \in Nat
    BY <2>3, NodesFinite
  <2>5. Cardinality(peers) = Cardinality(mesh[n]) + Cardinality(g) - Cardinality(mesh[n] \cap g)
    BY <1>3, <2>2, FS_Union
  <2>6. Cardinality(mesh[n]) + Cardinality(g) <= MeshNHigh
    BY <1>1, <1>3, <2>2, MeshAssumption DEF saturating_sub
  <2>7. Cardinality(peers) <= MeshNHigh
    BY <2>2, <2>4, <2>5, <2>6, MeshAssumption
  <2> QED  BY <1>1, <1>3, <2>7
<1> QED  BY <1>2, <1>3 DEF Grafted

-----------------------------------------------------------------------------
(* Counters *)

\* The counters of n are refreshed after a step that only n took part in.
LEMMA StatsChange ==
    ASSUME EInv, NEW n \in Node, NEW store, NEW peers, NEW done, NEW failed,
           sessions' = [sessions EXCEPT ![n] = store],
           mesh' = [mesh EXCEPT ![n] = peers],
           stats' = StatsWith(n, store, Cardinality(peers), done, failed),
           Cardinality(Served(n)') + Cardinality(Joined(n)') =
               Cardinality(Served(n)) + Cardinality(Joined(n)) + done,
           \A q \in Node \ {n} : Served(q)' = Served(q) /\ Joined(q)' = Joined(q)
    PROVE  StatsExact'
<1>1. /\ sessions \in [Node -> [Node -> {NoSession} \cup Session]]
      /\ mesh \in [Node -> SUBSET Node] /\ stats \in [Node -> Stats]
  BY DEF EInv, IInv, TypeOK
<1>2. \A q \in Node : /\ sessions'[q] = IF q = n THEN store ELSE sessions[q]
                      /\ mesh'[q] = IF q = n THEN peers ELSE mesh[q]
  BY <1>1
<1>3. /\ stats'[n].active_peers = Cardinality(ActivePeers(store))
      /\ stats'[n].mesh_peers = Cardinality(peers)
      /\ stats'[n].handshakes_completed = stats[n].handshakes_completed + done
      /\ \A q \in Node \ {n} : stats'[q] = stats[q]
  BY <1>1 DEF StatsWith
<1>4. \A q \in Node \ Direct :
          /\ stats[q].active_peers = Cardinality(ActivePeers(sessions[q]))
          /\ stats[q].mesh_peers = Cardinality(mesh[q])
          /\ stats[q].handshakes_completed = Cardinality(Served(q)) + Cardinality(Joined(q))
  BY DEF EInv, StatsExact, Served, Joined
<1>5. ASSUME NEW q \in Node \ Direct
      PROVE  /\ stats'[q].active_peers = Cardinality(ActivePeers(sessions'[q]))
             /\ stats'[q].mesh_peers = Cardinality(mesh'[q])
             /\ stats'[q].handshakes_completed = Cardinality(Served(q)') + Cardinality(Joined(q)')
  <2>1. CASE q = n
    BY <1>2, <1>3, <1>4, <2>1
  <2>2. CASE q # n
    BY <1>2, <1>3, <1>4, <2>2
  <2> QED  BY <2>1, <2>2
<1> QED  BY <1>5 DEF StatsExact, Served, Joined, ActivePeers

\* A step of a node without an engine counts for no engine.
LEMMA StatsDirect ==
    ASSUME EInv, NEW n \in Direct, UNCHANGED <<mesh, stats>>,
           \A q \in Node \ Direct : sessions'[q] = sessions[q],
           \A q \in Node \ {n} : Served(q)' = Served(q) /\ Joined(q)' = Joined(q)
    PROVE  StatsExact'
<1>1. \A q \in Node \ Direct : q \in Node \ {n}
  OBVIOUS
<1>2. ASSUME NEW q \in Node \ Direct
      PROVE  /\ stats'[q].active_peers = Cardinality(ActivePeers(sessions'[q]))
             /\ stats'[q].mesh_peers = Cardinality(mesh'[q])
             /\ stats'[q].handshakes_completed = Cardinality(Served(q)') + Cardinality(Joined(q)')
  BY <1>1 DEF EInv, StatsExact, Served, Joined
<1> QED  BY <1>2 DEF StatsExact, Served, Joined, ActivePeers

\* A server's completion is one more for the server only.
LEMMA ServedOnce ==
    ASSUME EInv, NEW m \in net, NEW t \in Nat, AnswerFinish(m, t)
    PROVE  /\ Cardinality(Served(m.to)') + Cardinality(Joined(m.to)') =
                  Cardinality(Served(m.to)) + Cardinality(Joined(m.to)) + 1
           /\ \A q \in Node \ {m.to} : Served(q)' = Served(q) /\ Joined(q)' = Joined(q)
           /\ Countable'
<1> DEFINE n == m.to
           y == ServerResult(m, t).agreement
<1>1. accepted' = accepted \cup {y} /\ confirmed' = confirmed
  BY DEF AnswerFinish
<1>2. y.server = n
  BY DEF ServerResult
<1>3. y \notin accepted
  BY NeverAccepted DEF EInv
<1> HIDE DEF y
<1>4. /\ Served(n)' = Served(n) \cup {y} /\ y \notin Served(n) /\ Joined(n)' = Joined(n)
      /\ \A q : q # n => Served(q)' = Served(q) /\ Joined(q)' = Joined(q)
  BY <1>1, <1>2, <1>3 DEF Served, Joined
<1>5. IsFiniteSet(accepted) /\ IsFiniteSet(confirmed)
  BY DEF EInv, Countable
<1>6. IsFiniteSet(Served(n)) /\ IsFiniteSet(Joined(n))
  BY <1>5, FS_Subset DEF Served, Joined
<1>7. Cardinality(Served(n) \cup {y}) = Cardinality(Served(n)) + 1
  BY <1>4, <1>6, FS_AddElement
<1>8. Cardinality(Served(n)) \in Nat /\ Cardinality(Joined(n)) \in Nat
  BY <1>6, FS_CardinalityType
<1>9. Countable'
  BY <1>1, <1>5, FS_AddElement DEF Countable
<1> QED  BY <1>4, <1>7, <1>8, <1>9

\* A client's completion is one more for the client only.
LEMMA JoinedOnce ==
    ASSUME EInv, TypeOK', NEW m \in net, NEW t \in Nat, ProcessFinishAck(m, t)
    PROVE  /\ Cardinality(Served(m.to)') + Cardinality(Joined(m.to)') =
                  Cardinality(Served(m.to)) + Cardinality(Joined(m.to)) + 1
           /\ \A q \in Node \ {m.to} : Served(q)' = Served(q) /\ Joined(q)' = Joined(q)
           /\ Countable'
<1> DEFINE n == m.to
<1>1. PICK y \in accepted \ confirmed : confirmed' = confirmed \cup {y} /\ y.client = n
  BY FinishAckStep DEF EInv
<1>2. accepted' = accepted
  BY DEF ProcessFinishAck
<1>3. /\ Joined(n)' = Joined(n) \cup {y} /\ y \notin Joined(n) /\ Served(n)' = Served(n)
      /\ \A q : q # n => Served(q)' = Served(q) /\ Joined(q)' = Joined(q)
  BY <1>1, <1>2 DEF Served, Joined
<1>4. IsFiniteSet(accepted) /\ IsFiniteSet(confirmed)
  BY DEF EInv, Countable
<1>5. IsFiniteSet(Served(n)) /\ IsFiniteSet(Joined(n))
  BY <1>4, FS_Subset DEF Served, Joined
<1>6. Cardinality(Joined(n) \cup {y}) = Cardinality(Joined(n)) + 1
  BY <1>3, <1>5, FS_AddElement
<1>7. Cardinality(Served(n)) \in Nat /\ Cardinality(Joined(n)) \in Nat
  BY <1>5, FS_CardinalityType
<1>8. Countable'
  BY <1>1, <1>2, <1>4, FS_AddElement DEF Countable
<1> QED  BY <1>3, <1>6, <1>7, <1>8

-----------------------------------------------------------------------------
(* Steps *)

\* complete_handshake, or an insert into a manager's map, after a completion.
LEMMA CompleteStep ==
    ASSUME EInv, NEW n \in Node, NEW p \in Node, NEW s \in Session,
           IF n \in Direct THEN CompleteDirect(n, p, s) ELSE complete_handshake(n, p, s),
           Cardinality(Served(n)') + Cardinality(Joined(n)') =
               Cardinality(Served(n)) + Cardinality(Joined(n)) + 1,
           \A q \in Node \ {n} : Served(q)' = Served(q) /\ Joined(q)' = Joined(q)
    PROVE  MeshSound' /\ DirectMeshless' /\ StatsExact'
<1> DEFINE store == [sessions[n] EXCEPT ![p] = s]
<1>1. TypeOK /\ ActivePeers(store) = ActivePeers(sessions[n]) \cup {p}
  BY Activity DEF EInv, IInv
<1>2. CASE n \notin Direct
  <2>1. /\ sessions' = [sessions EXCEPT ![n] = store]
        /\ mesh' = [mesh EXCEPT ![n] = add_to_mesh(n, p)]
        /\ stats' = StatsWith(n, store, Cardinality(add_to_mesh(n, p)), 1, 0)
    BY <1>2 DEF complete_handshake
  <2> HIDE DEF store
  <2>2. /\ add_to_mesh(n, p) \subseteq ActivePeers(store)
        /\ Cardinality(add_to_mesh(n, p)) <= MeshNHigh
    BY <1>1, AddedBound
  <2>3. StatsExact'
    BY <2>1, StatsChange
  <2>4. MeshSound' /\ DirectMeshless'
    BY <1>2, <2>1, <2>2, MeshChange
  <2> QED  BY <2>3, <2>4
<1>3. CASE n \in Direct
  <2>1. sessions' = [sessions EXCEPT ![n] = store] /\ UNCHANGED <<mesh, stats>>
    BY <1>3 DEF CompleteDirect
  <2> HIDE DEF store
  <2>2. mesh' = [mesh EXCEPT ![n] = {}] /\ Cardinality({}) <= MeshNHigh
    BY <1>1, <1>3, <2>1, FS_EmptySet, MeshAssumption DEF EInv, DirectMeshless, TypeOK
  <2>3. MeshSound' /\ DirectMeshless'
    BY <2>1, <2>2, MeshChange
  <2>4. \A q \in Node \ Direct : sessions'[q] = sessions[q]
    BY <1>1, <1>3, <2>1 DEF TypeOK
  <2>5. StatsExact'
    BY <1>3, <2>1, <2>4, StatsDirect
  <2> QED  BY <2>3, <2>5
<1> QED  BY <1>2, <1>3

LEMMA FinishEngine ==
    ASSUME EInv, NEW m \in net, NEW t \in Nat, ProcessFinish(m, t) \/ BuildFinishAck(m, t)
    PROVE  MeshSound' /\ DirectMeshless' /\ StatsExact' /\ Countable'
<1> DEFINE n == m.to
           p == m.from
           s == ServerResult(m, t).session
<1>1. AnswerFinish(m, t)
  BY DEF ProcessFinish, BuildFinishAck
<1>2. n \in Node /\ p \in Node /\ TypeOK
  BY BodyCases DEF EInv, IInv, TypeOK
<1>3. s \in Session
  BY <1>1, <1>2, ServerResultType DEF AnswerFinish
<1>4. /\ Cardinality(Served(n)') + Cardinality(Joined(n)') =
             Cardinality(Served(n)) + Cardinality(Joined(n)) + 1
      /\ \A q \in Node \ {n} : Served(q)' = Served(q) /\ Joined(q)' = Joined(q)
      /\ Countable'
  BY <1>1, ServedOnce
<1>5. CASE ProcessFinish(m, t)
  <2>1. IF n \in Direct THEN CompleteDirect(n, p, s) ELSE complete_handshake(n, p, s)
    BY <1>5 DEF ProcessFinish
  <2> HIDE DEF n, p, s
  <2> QED  BY <1>2, <1>3, <1>4, <2>1, CompleteStep
<1>6. CASE BuildFinishAck(m, t)
  <2> DEFINE store == [sessions[n] EXCEPT ![p] = s]
  <2>1. /\ n \notin Direct /\ sessions' = [sessions EXCEPT ![n] = store] /\ mesh' = mesh
        /\ stats' = StatsWith(n, store, stats[n].mesh_peers, 1, 0)
    BY <1>6 DEF BuildFinishAck
  <2> HIDE DEF n, p, s
  <2>2. ActivePeers(store) = ActivePeers(sessions[n]) \cup {p}
    BY <1>2, <1>3, Activity
  <2> HIDE DEF store
  <2>3. stats[n].mesh_peers = Cardinality(mesh[n]) /\ mesh' = [mesh EXCEPT ![n] = mesh[n]]
    BY <1>2, <2>1 DEF EInv, StatsExact, TypeOK
  <2>4. mesh[n] \subseteq ActivePeers(store) /\ Cardinality(mesh[n]) <= MeshNHigh
    BY <1>2, <2>2 DEF EInv, MeshSound
  <2>5. StatsExact'
    BY <1>2, <1>4, <2>1, <2>3, StatsChange
  <2>6. MeshSound' /\ DirectMeshless'
    BY <1>2, <2>1, <2>3, <2>4, MeshChange
  <2> QED  BY <1>4, <2>5, <2>6
<1> QED  BY <1>5, <1>6

LEMMA FinishAckEngine ==
    ASSUME EInv, TypeOK', NEW m \in net, NEW t \in Nat, ProcessFinishAck(m, t)
    PROVE  MeshSound' /\ DirectMeshless' /\ StatsExact' /\ Countable'
<1> DEFINE n == m.to
           p == m.from
           x == pending[n][p]
           s == ClientSession(m)
<1>1. /\ IF n \in Direct THEN CompleteDirect(n, p, s) ELSE complete_handshake(n, p, s)
      /\ m.body.kind = "finish_ack" /\ x.state = "FinishSent"
  BY DEF ProcessFinishAck, AcceptsFinishAck
<1>2. n \in Node /\ p \in Node /\ m.body \in FinishAck /\ TypeOK
  BY <1>1, BodyCases DEF EInv, IInv, TypeOK
<1>3. x \in FinishSent
  BY <1>1, <1>2, ContextCases DEF TypeOK
<1>4. s \in Session
  BY <1>2, <1>3 DEF ClientSession, Session, FinishSent, FinishAck
<1>5. /\ Cardinality(Served(n)') + Cardinality(Joined(n)') =
             Cardinality(Served(n)) + Cardinality(Joined(n)) + 1
      /\ \A q \in Node \ {n} : Served(q)' = Served(q) /\ Joined(q)' = Joined(q)
      /\ Countable'
  BY JoinedOnce
<1> HIDE DEF n, p, s
<1> QED  BY <1>1, <1>2, <1>4, <1>5, CompleteStep

\* Nothing is completed.
LEMMA NothingCounted ==
    ASSUME EInv, accepted' = accepted, confirmed' = confirmed, NEW n \in Node
    PROVE  /\ Cardinality(Served(n)') + Cardinality(Joined(n)') =
                  Cardinality(Served(n)) + Cardinality(Joined(n)) + 0
           /\ \A q \in Node \ {n} : Served(q)' = Served(q) /\ Joined(q)' = Joined(q)
           /\ Countable'
<1>1. \A q : Served(q)' = Served(q) /\ Joined(q)' = Joined(q)
  BY DEF Served, Joined
<1>2. IsFiniteSet(Served(n)) /\ IsFiniteSet(Joined(n))
  BY FS_Subset DEF EInv, Countable, Served, Joined
<1>3. Cardinality(Served(n)) \in Nat /\ Cardinality(Joined(n)) \in Nat
  BY <1>2, FS_CardinalityType
<1>4. Countable'
  BY DEF EInv, Countable
<1> QED  BY <1>1, <1>3, <1>4

LEMMA DisconnectEngine ==
    ASSUME EInv, NEW n \in Node, NEW p \in Node, DisconnectPeer(n, p)
    PROVE  MeshSound' /\ DirectMeshless' /\ StatsExact' /\ Countable'
<1> DEFINE store == [sessions[n] EXCEPT ![p] = NoSession]
           peers == mesh[n] \ {p}
<1>1. /\ n \notin Direct /\ sessions' = [sessions EXCEPT ![n] = store]
      /\ mesh' = [mesh EXCEPT ![n] = peers]
      /\ stats' = StatsWith(n, store, Cardinality(peers), 0, 0)
      /\ accepted' = accepted /\ confirmed' = confirmed
  BY DEF DisconnectPeer
<1>2. ActivePeers(store) = ActivePeers(sessions[n]) \ {p}
  BY Activity DEF EInv, IInv
<1>3. /\ mesh[n] \in SUBSET Node /\ mesh[n] \subseteq ActivePeers(sessions[n])
      /\ Cardinality(mesh[n]) <= MeshNHigh
  BY DEF EInv, IInv, TypeOK, MeshSound
<1>4. peers \subseteq ActivePeers(store)
  BY <1>2, <1>3
<1>5. Cardinality(peers) <= MeshNHigh
  <2>1. IsFiniteSet(mesh[n]) /\ Cardinality(mesh[n]) \in Nat /\ Cardinality(peers) \in Nat
    BY <1>3, NodesFinite
  <2>2. Cardinality(peers) <= Cardinality(mesh[n])
    BY <2>1, FS_Subset
  <2> QED  BY <1>3, <2>1, <2>2, MeshAssumption
<1> HIDE DEF store, peers
<1>6. MeshSound' /\ DirectMeshless'
  BY <1>1, <1>4, <1>5, MeshChange
<1>7. /\ Cardinality(Served(n)') + Cardinality(Joined(n)') =
             Cardinality(Served(n)) + Cardinality(Joined(n)) + 0
      /\ \A q \in Node \ {n} : Served(q)' = Served(q) /\ Joined(q)' = Joined(q)
      /\ Countable'
  BY <1>1, NothingCounted
<1>8. StatsExact'
  BY <1>1, <1>7, StatsChange
<1> QED  BY <1>6, <1>7, <1>8

LEMMA HeartbeatEngine ==
    ASSUME EInv, NEW n \in Node, NEW t \in Nat, Heartbeat(n, t)
    PROVE  MeshSound' /\ DirectMeshless' /\ StatsExact' /\ Countable'
<1>1. PICK peers \in Grafted(n) :
          /\ mesh' = [mesh EXCEPT ![n] = peers]
          /\ stats' = StatsWith(n, sessions[n], Cardinality(peers), 0,
                                Cardinality(TimedOut(n, t)))
  BY DEF Heartbeat
<1>2. n \notin Direct /\ sessions' = sessions /\ accepted' = accepted /\ confirmed' = confirmed
  BY DEF Heartbeat
<1>3. sessions' = [sessions EXCEPT ![n] = sessions[n]]
  BY <1>2 DEF EInv, IInv, TypeOK
<1>4. peers \subseteq ActivePeers(sessions[n]) /\ Cardinality(peers) <= MeshNHigh
  BY GraftedBound
<1>5. MeshSound' /\ DirectMeshless'
  BY <1>1, <1>2, <1>3, <1>4, MeshChange
<1>6. /\ Cardinality(Served(n)') + Cardinality(Joined(n)') =
             Cardinality(Served(n)) + Cardinality(Joined(n)) + 0
      /\ \A q \in Node \ {n} : Served(q)' = Served(q) /\ Joined(q)' = Joined(q)
      /\ Countable'
  BY <1>2, NothingCounted
<1>7. StatsExact'
  BY <1>1, <1>3, <1>6, StatsChange
<1> QED  BY <1>5, <1>6, <1>7

LEMMA RemoveEngine ==
    ASSUME EInv, NEW n \in Node, NEW p \in Node, RemovePeer(n, p)
    PROVE  MeshSound' /\ DirectMeshless' /\ StatsExact' /\ Countable'
<1> DEFINE store == [sessions[n] EXCEPT ![p] = NoSession]
<1>1. /\ n \in Direct /\ sessions' = [sessions EXCEPT ![n] = store]
      /\ UNCHANGED <<mesh, stats>> /\ accepted' = accepted /\ confirmed' = confirmed
  BY DEF RemovePeer
<1> HIDE DEF store
<1>2. mesh' = [mesh EXCEPT ![n] = {}] /\ Cardinality({}) <= MeshNHigh
  BY <1>1, FS_EmptySet, MeshAssumption DEF EInv, DirectMeshless, IInv, TypeOK
<1>3. MeshSound' /\ DirectMeshless'
  BY <1>1, <1>2, MeshChange
<1>4. /\ \A q \in Node \ {n} : Served(q)' = Served(q) /\ Joined(q)' = Joined(q)
      /\ Countable'
  BY <1>1, NothingCounted
<1>5. \A q \in Node \ Direct : sessions'[q] = sessions[q]
  BY <1>1 DEF EInv, IInv, TypeOK
<1>6. StatsExact'
  BY <1>1, <1>4, <1>5, StatsDirect
<1> QED  BY <1>3, <1>4, <1>6

\* Steps that complete nothing and touch neither sessions, meshes nor counters.
LEMMA IdleEngine ==
    ASSUME EInv, UNCHANGED <<sessions, mesh, stats, accepted, confirmed>>
    PROVE  MeshSound' /\ DirectMeshless' /\ StatsExact' /\ Countable'
<1>1. MeshSound' /\ DirectMeshless' /\ Countable'
  BY DEF EInv, MeshSound, DirectMeshless, Countable, ActivePeers
<1>2. StatsExact'
  BY DEF EInv, StatsExact, ActivePeers
<1> QED  BY <1>1, <1>2

LEMMA EngineInit == Init => EInv
<1> SUFFICES ASSUME Init PROVE EInv
  OBVIOUS
<1>1. IInv
  BY IInvInit
<1>2. /\ \A n \in Node : mesh[n] = {} /\ \A p \in Node : sessions[n][p] = NoSession
      /\ accepted = {} /\ confirmed = {}
      /\ \A n \in Node : /\ stats[n].active_peers = 0 /\ stats[n].mesh_peers = 0
                         /\ stats[n].handshakes_completed = 0
  BY DEF Init
<1>3. Cardinality({}) = 0 /\ IsFiniteSet({})
  BY FS_EmptySet
<1>4. \A n \in Node : ActivePeers(sessions[n]) = {}
  BY <1>2 DEF ActivePeers, NoSession
<1>5. MeshSound
  <2> SUFFICES ASSUME NEW n \in Node
               PROVE  mesh[n] \subseteq ActivePeers(sessions[n]) /\ Cardinality(mesh[n]) <= MeshNHigh
    BY DEF MeshSound
  <2>1. mesh[n] = {}
    BY <1>2
  <2> QED  BY <1>3, <2>1, MeshAssumption
<1>6. DirectMeshless /\ Countable
  BY <1>2, <1>3, NodeAssumption DEF DirectMeshless, Countable
<1>7. StatsExact
  <2> SUFFICES ASSUME NEW n \in Node \ Direct
               PROVE  /\ stats[n].active_peers = Cardinality(ActivePeers(sessions[n]))
                      /\ stats[n].mesh_peers = Cardinality(mesh[n])
                      /\ stats[n].handshakes_completed =
                             Cardinality({x \in accepted : x.server = n})
                             + Cardinality({x \in confirmed : x.client = n})
    BY DEF StatsExact
  <2>1. {x \in accepted : x.server = n} = {} /\ {x \in confirmed : x.client = n} = {}
    BY <1>2
  <2>2. ActivePeers(sessions[n]) = {} /\ mesh[n] = {}
    BY <1>2, <1>4
  <2> QED  BY <1>2, <1>3, <2>1, <2>2
<1> QED  BY <1>1, <1>5, <1>6, <1>7 DEF EInv

LEMMA EngineStep == EInv /\ [Next]_vars => EInv'
<1> SUFFICES ASSUME EInv, [Next]_vars PROVE EInv'
  OBVIOUS
<1>1. TypeOK /\ IInv' /\ TypeOK'
  BY IInvStep DEF EInv, IInv
<1> DEFINE Goal == MeshSound' /\ DirectMeshless' /\ StatsExact' /\ Countable'
<1>2. ASSUME NEW n \in Node, NEW p \in Node \ {n},
             DisconnectPeer(n, p) \/ RemovePeer(n, p)
      PROVE  Goal
  BY <1>2, DisconnectEngine, RemoveEngine
<1>3. ASSUME NEW m \in net, NEW t \in Nat, ProcessFinish(m, t) \/ BuildFinishAck(m, t)
      PROVE  Goal
  BY <1>3, FinishEngine
<1>4. ASSUME NEW m \in net, NEW t \in Nat, ProcessFinishAck(m, t)
      PROVE  Goal
  BY <1>1, <1>4, FinishAckEngine
<1>5. ASSUME NEW n \in Node, NEW t \in Nat, Heartbeat(n, t)
      PROVE  Goal
  BY <1>5, HeartbeatEngine
<1>6. ASSUME NEW n \in Node, NEW p \in Node \ {n}, NEW t \in Nat, ConnectPeer(n, p, t)
      PROVE  Goal
  BY <1>6, IdleEngine DEF ConnectPeer
<1>7. ASSUME NEW m \in net, NEW t \in Nat,
             \/ ProcessProbe(m, t) \/ ProcessAck(m, t) \/ RefuseKeepingContext(m, t)
             \/ RefuseDroppingContext(m, t)
      PROVE  Goal
  BY <1>7, IdleEngine DEF ProcessProbe, ProcessAck, RefuseKeepingContext,
                          RefuseDroppingContext
<1>8. ASSUME NEW n \in Node, NEW t \in Nat, EvictTimedOut(n, t)
      PROVE  Goal
  BY <1>8, IdleEngine DEF EvictTimedOut
<1>9. ASSUME \/ \E n \in Node : RotateKeys(n) \/ RotateKeysUnderId(n)
             \/ \E n \in Node : \E p \in Node \ {n} : TakeSession(n, p)
             \/ \E m \in net : Lose(m)
             \/ Tick
             \/ UNCHANGED vars
      PROVE  Goal
  BY <1>9, IdleEngine DEF RotateKeys, RotateKeysUnderId, TakeSession, Lose, Tick, vars
<1> HIDE DEF Goal
<1>10. Goal
  BY <1>1, <1>2, <1>3, <1>4, <1>5, <1>6, <1>7, <1>8, <1>9, ReadingsType
     DEF Next, Receive, Maintain
<1> QED  BY <1>1, <1>10 DEF EInv, Goal

-----------------------------------------------------------------------------
(* Theorems *)

\* The invariant of the engine.
THEOREM EngineInductive == Spec => []EInv
  BY EngineInit, EngineStep, PTL DEF Spec

\* mesh_peers never holds a peer without a session, nor more than mesh_n_high.
THEOREM MeshTheorem == Spec => []MeshSound
<1>1. EInv => MeshSound
  BY DEF EInv
<1> QED  BY EngineInductive, <1>1, PTL

\* What gossip_get_stats reports agrees with the sessions, the mesh and the
\* handshakes completed: no path forgets a counter or counts twice.
THEOREM StatsTheorem == Spec => []StatsExact
<1>1. EInv => StatsExact
  BY DEF EInv
<1> QED  BY EngineInductive, <1>1, PTL

=============================================================================
