------------------------------ MODULE MCMessages -----------------------------
(***************************************************************************)
(* Small instances of Messages.                                            *)
(***************************************************************************)
EXTENDS Messages

CONSTANTS a, b, c, m1, m2, p1, p2

NoSkew == [n \in Node |-> 0]
AFarAhead == [n \in Node |-> IF n = a THEN 2 ELSE 0]
NoEncodes == [n \in Node |-> 0]
AOnce == [n \in Node |-> IF n = a THEN 1 ELSE 0]
\* m1 fits in MaxMessageBytes = 1, m2 does not.
OneFits == [m \in Message |-> IF m = m1 THEN 1 ELSE 2]
=============================================================================
