---------------------------- MODULE ChangeHistory ----------------------------
(***************************************************************************)
(* What the storage layer promises of the collections, without its tables: *)
(* a collection is a set of members with a version, every change of a      *)
(* member makes the next version and stamps the member's URI with it, and  *)
(* the stamp of a URI outlives its member.  "What changed after version n" *)
(* is then the URIs whose stamp is above n.  Storage is shown to implement *)
(* this with one row per URI in a log.                                     *)
(***************************************************************************)
EXTENDS Naturals

CONSTANTS
    Place,      \* where a collection can be: the rowids
    Uri,
    Content,    \* what a member can be
    Absent      \* no member

VARIABLES
    exists,     \* the places where there is a collection
    version,    \* place |-> the version of the collection there
    members,    \* place |-> (uri |-> content, or Absent)
    stamp       \* place |-> (uri |-> the version of its last change)

historyVars == <<exists, version, members, stamp>>

Nothing == [u \in Uri |-> Absent]

Unchanged == [u \in Uri |-> 0]

Init ==
    /\ exists = {}
    /\ version = [p \in Place |-> 0]
    /\ members = [p \in Place |-> Nothing]
    /\ stamp = [p \in Place |-> Unchanged]

(* A collection is created, empty and at version 0, whatever was in its    *)
(* place before.                                                           *)
Create(p) ==
    /\ p \notin exists
    /\ exists' = exists \cup {p}
    /\ UNCHANGED <<version, members, stamp>>

(* Collections are deleted, several at once when their owner is, with      *)
(* their members and their history.                                        *)
Drop(places) ==
    /\ places # {}
    /\ places \subseteq exists
    /\ exists' = exists \ places
    /\ version' = [p \in Place |-> IF p \in places THEN 0 ELSE version[p]]
    /\ members' = [p \in Place |-> IF p \in places THEN Nothing ELSE members[p]]
    /\ stamp' = [p \in Place |-> IF p \in places THEN Unchanged ELSE stamp[p]]

(* A member becomes something else than it was, appears or disappears.     *)
Change(p, u, x) ==
    /\ p \in exists
    /\ version' = [version EXCEPT ![p] = @ + 1]
    /\ members[p][u] # x
    /\ members' = [members EXCEPT ![p][u] = x]
    /\ stamp' = [stamp EXCEPT ![p][u] = version[p] + 1]
    /\ UNCHANGED exists

Next ==
    \/ \E p \in Place : Create(p)
    \/ \E places \in SUBSET Place : Drop(places)
    \/ \E p \in Place, u \in Uri, x \in Content \cup {Absent} : Change(p, u, x)

Spec == Init /\ [][Next]_historyVars
=============================================================================
