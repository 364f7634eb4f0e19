------------------------------- MODULE MCAuth -------------------------------
(***************************************************************************)
(* Small instances of BasicAuth.                                           *)
(***************************************************************************)
EXTENDS BasicAuth, TLC

(* "ANN" is another spelling of ann.                                       *)
MCFold == [n \in Username |-> IF n = "ANN" THEN "ann" ELSE n]

Symmetry == Permutations(Password) \cup Permutations(Request)
=============================================================================
