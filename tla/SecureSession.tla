---------------------------- MODULE SecureSession ----------------------------
(***************************************************************************)
(* What the handshake promises to the hosts of two nodes, without messages,*)
(* nonces, clocks or keys: a server accepts a session under an id nobody   *)
(* has used, a client confirms only a session its server has accepted and  *)
(* confirms it once, and what a node holds for a peer is the session of    *)
(* its last completed handshake with that peer, until it closes it.        *)
(***************************************************************************)
CONSTANTS Node,      \* nodes
          Nothing    \* what a node without a session holds

VARIABLES accepted,  \* sessions a server has completed
          confirmed, \* sessions a client has completed
          held       \* held[n][p]: the id of the session n holds for p

vars == <<accepted, confirmed, held>>

Init ==
    /\ accepted = {}
    /\ confirmed = {}
    /\ held = [n \in Node |-> [p \in Node |-> Nothing]]

\* A server completes a handshake: a new session, under a new id.
Accept ==
    \E a \in accepted' :
        /\ \A b \in accepted : b.session_id # a.session_id
        /\ accepted' = accepted \cup {a}
        /\ held' = [held EXCEPT ![a.server][a.client] = a.session_id]
        /\ UNCHANGED confirmed

\* A client completes a handshake its server has completed before it.
Confirm ==
    \E a \in accepted \ confirmed :
        /\ confirmed' = confirmed \cup {a}
        /\ held' = [held EXCEPT ![a.client][a.server] = a.session_id]
        /\ UNCHANGED accepted

\* A node disconnects from a peer.
Close ==
    \E n, p \in Node :
        /\ held' = [held EXCEPT ![n][p] = Nothing]
        /\ UNCHANGED <<accepted, confirmed>>

Next == Accept \/ Confirm \/ Close

Spec == Init /\ [][Next]_vars
=============================================================================
