------------------------------- MODULE MCAdmin -------------------------------
(***************************************************************************)
(* Small instances of AdminSessions.                                       *)
(***************************************************************************)
EXTENDS AdminSessions, TLC

Symmetry == Permutations(Browser)
=============================================================================
