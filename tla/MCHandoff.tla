------------------------------ MODULE MCHandoff ------------------------------
(* TLC instances of Handoff: what the .cfg files cannot express. *)
EXTENDS Handoff, TLC

(* Login attempts are interchangeable in every safety property. *)
Interchangeable == Permutations(Clients)
=============================================================================
