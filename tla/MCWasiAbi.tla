------------------------------ MODULE MCWasiAbi ------------------------------
(***************************************************************************)
(* A small instance of WasiAbi: an out-slot, inputs and results in a       *)
(* memory that runs full.                                                  *)
(***************************************************************************)
EXTENDS WasiAbi
=============================================================================
