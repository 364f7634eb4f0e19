------------------------------- MODULE MCSync -------------------------------
(***************************************************************************)
(* Small instances of SyncCollection.  Every client follows the calendar   *)
(* "work"; the other name, where there is one, is a collection that may    *)
(* inherit its rowid, or leave it its own.                                 *)
(***************************************************************************)
EXTENDS SyncCollection

MCPathOf == [k \in Client |-> [name |-> "work", type |-> "calendar"]]
=============================================================================
