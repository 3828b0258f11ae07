----------------------------- MODULE MCEtwImport -----------------------------
(* EtwImport with pointers that are told apart only by being different.     *)
EXTENDS EtwImport

MCSymmetry == Permutations(Handles) \cup Permutations(Pipes)
=============================================================================
