------------------------------ MODULE MCWrites ------------------------------
(***************************************************************************)
(* Small instances of ObjectWrites: payloads of one shown and one hidden   *)
(* field.                                                                  *)
(***************************************************************************)
EXTENDS ObjectWrites, TLC

MCRaw == [shown : Shown, hidden : Hidden]

Symmetry == Permutations(Writer) \cup Permutations(Shown) \cup Permutations(Hidden)
=============================================================================
