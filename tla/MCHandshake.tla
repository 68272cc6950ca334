----------------------------- MODULE MCHandshake -----------------------------
(***************************************************************************)
(* Small instances of Handshake: who connects, who rotates, whose clock is *)
(* ahead.                                                                  *)
(***************************************************************************)
EXTENDS Handshake

CONSTANTS a, b, c

None == [n \in Node |-> 0]
AOnce == [n \in Node |-> IF n = a THEN 1 ELSE 0]
ATwice == [n \in Node |-> IF n = a THEN 2 ELSE 0]
BOnce == [n \in Node |-> IF n = b THEN 1 ELSE 0]
ATwiceBOnce == [n \in Node |-> IF n = a THEN 2 ELSE 1]
AAhead == [n \in Node |-> IF n = a THEN 1 ELSE 0]
=============================================================================
