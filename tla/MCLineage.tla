------------------------------ MODULE MCLineage ------------------------------
(***************************************************************************)
(* Small instances of Lineage.                                             *)
(***************************************************************************)
EXTENDS Lineage

CONSTANTS e1, e2, s1, s2, p, q

FirstSeeds == [kem |-> e1, sig |-> s1]
=============================================================================
