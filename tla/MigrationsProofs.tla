-------------------------- MODULE MigrationsProofs --------------------------
(***************************************************************************)
(* Proofs about Migrations, for any number of processes and of releases.   *)
(***************************************************************************)
EXTENDS Migrations, TLAPS

-----------------------------------------------------------------------------
(* The inductive invariant                                                 *)

(* The versions that have run are an initial segment.                      *)
Closed == \A v \in schema : 1..v \subseteq schema

(* What a process knows of the tables: the versions its loop skipped or    *)
(* has been through are there, and once the loop is over all of them.      *)
Knows(p) ==
    /\ phase[p] = "migrating" =>
         /\ todo[p] \subseteq loadMigrations(p)
         /\ loadMigrations(p) \ todo[p] \subseteq schema
    /\ phase[p] \in {"creating", "promoting", "serving"} =>
         loadMigrations(p) \subseteq schema

StartInv ==
    /\ TypeOK
    /\ RecordedIffRun
    /\ Closed
    /\ \A p \in Process : Knows(p)

-----------------------------------------------------------------------------

(* An empty database, and no process that has started.                     *)
LEMMA StartInit == Init => StartInv
  BY ReleaseAssumption
     DEF Init, StartInv, TypeOK, RecordedIffRun, Closed, Knows, Phase, Entry, Version

(* A script that runs is the first one that has not: what its loop has     *)
(* skipped has run, and what has run is an initial segment.                *)
LEMMA InOrder ==
    ASSUME StartInv, NEW p \in Process, NEW v \in todo[p], ApplyMigration(p, v)
    PROVE  v \in Version /\ schema = 1..(v - 1)
  <1>1. /\ v \in Version
        /\ v \in 1..release[p]
        /\ release[p] \in Nat
        /\ (1..release[p]) \ todo[p] \subseteq schema
        /\ \A w \in todo[p] : v <= w
        /\ v \notin schema
        /\ schema \subseteq Version
        /\ \A u \in schema : 1..u \subseteq schema
    BY ReleaseAssumption
       DEF ApplyMigration, NextMigration, StartInv, TypeOK, Knows, Closed, loadMigrations, Version
  <1>2. 1..(v - 1) \subseteq schema
    <2> SUFFICES ASSUME NEW w \in 1..(v - 1) PROVE w \in schema
      OBVIOUS
    <2>1. w \in 1..release[p] /\ w \notin todo[p]
      BY <1>1 DEF Version
    <2> QED
      BY <1>1, <2>1
  <1>3. schema \subseteq 1..(v - 1)
    <2> SUFFICES ASSUME NEW u \in schema, ~(u < v) PROVE FALSE
      BY <1>1 DEF Version
    <2>1. v \in 1..u
      BY <1>1 DEF Version
    <2> QED
      BY <1>1, <2>1
  <1> QED
    BY <1>1, <1>2, <1>3

(* What a process knows stays true when only others move: versions are     *)
(* never taken away.                                                       *)
LEMMA KnowsStays ==
    ASSUME NEW q \in Process, Knows(q),
           phase'[q] = phase[q], release'[q] = release[q], todo'[q] = todo[q],
           schema \subseteq schema'
    PROVE  Knows(q)'
  BY DEF Knows, loadMigrations

(* The same for a process that has ended: it knows nothing.                *)
LEMMA KnowsNothing ==
    ASSUME NEW q \in Process, phase'[q] \in {"stopped", "crashed", "created"}
    PROVE  Knows(q)'
  BY DEF Knows

(* Every step of every process keeps the invariant.                        *)
LEMMA StartStep == StartInv /\ [Next]_vars => StartInv'
  <1> SUFFICES ASSUME StartInv, [Next]_vars PROVE StartInv'
    OBVIOUS
  <1> USE DEF StartInv
  <1>1. CASE UNCHANGED vars
    BY <1>1 DEF vars, TypeOK, RecordedIffRun, Closed, Knows, loadMigrations
  <1>2. ASSUME NEW p \in Process, NEW r \in Release, Start(p, r) PROVE StartInv'
    <2>1. TypeOK' /\ RecordedIffRun' /\ Closed'
      BY <1>2 DEF Start, TypeOK, Phase, RecordedIffRun, Closed
    <2>2. ASSUME NEW q \in Process PROVE Knows(q)'
      <3>1. CASE q = p
        BY <1>2, <3>1, KnowsNothing DEF Start, TypeOK
      <3>2. CASE q # p
        BY <1>2, <3>2, KnowsStays DEF Start, TypeOK
      <3> QED
        BY <3>1, <3>2
    <2> QED
      BY <2>1, <2>2
  <1>3. ASSUME NEW p \in Process, ReadApplied(p) PROVE StartInv'
    <2>1. TypeOK' /\ RecordedIffRun' /\ Closed'
      BY <1>3, ReleaseAssumption
         DEF ReadApplied, TypeOK, Phase, RecordedIffRun, Closed, loadMigrations, Version
    <2>2. ASSUME NEW q \in Process PROVE Knows(q)'
      <3>1. CASE q = p
        BY <1>3, <3>1 DEF ReadApplied, TypeOK, RecordedIffRun, Knows, loadMigrations
      <3>2. CASE q # p
        BY <1>3, <3>2, KnowsStays DEF ReadApplied, TypeOK
      <3> QED
        BY <3>1, <3>2
    <2> QED
      BY <2>1, <2>2
  <1>4. ASSUME NEW p \in Process, NEW v \in todo[p], ApplyMigration(p, v)
        PROVE  StartInv'
    <2>1. v \in Version /\ schema = 1..(v - 1)
      BY <1>4, InOrder
    <2>2. TypeOK' /\ RecordedIffRun'
      BY <1>4, <2>1 DEF ApplyMigration, TypeOK, RecordedIffRun
    <2>3. Closed'
      BY <1>4, <2>1 DEF ApplyMigration, Closed, Version
    <2>4. ASSUME NEW q \in Process PROVE Knows(q)'
      <3>1. CASE q = p
        BY <1>4, <3>1 DEF ApplyMigration, NextMigration, TypeOK, Knows, loadMigrations
      <3>2. CASE q # p
        BY <1>4, <3>2, KnowsStays DEF ApplyMigration, TypeOK
      <3> QED
        BY <3>1, <3>2
    <2> QED
      BY <2>2, <2>3, <2>4
  <1>5. ASSUME NEW p \in Process, NEW v \in todo[p], MigrationFails(p, v)
        PROVE  StartInv'
    <2>1. TypeOK' /\ RecordedIffRun' /\ Closed'
      BY <1>5 DEF MigrationFails, TypeOK, Phase, RecordedIffRun, Closed
    <2>2. ASSUME NEW q \in Process PROVE Knows(q)'
      BY <1>5, KnowsStays, KnowsNothing DEF MigrationFails, TypeOK
    <2> QED
      BY <2>1, <2>2
  <1>6. ASSUME NEW p \in Process, FindAdmin(p) PROVE StartInv'
    <2>1. TypeOK' /\ RecordedIffRun' /\ Closed'
      BY <1>6 DEF FindAdmin, LookUp, TypeOK, Phase, RecordedIffRun, Closed
    <2>2. ASSUME NEW q \in Process PROVE Knows(q)'
      <3>1. CASE q = p
        BY <1>6, <3>1 DEF FindAdmin, LookUp, TypeOK, Knows, loadMigrations
      <3>2. CASE q # p
        BY <1>6, <3>2, KnowsStays DEF FindAdmin, LookUp, TypeOK
      <3> QED
        BY <3>1, <3>2
    <2> QED
      BY <2>1, <2>2
  <1>7. ASSUME NEW p \in Process, CreateAdmin(p) \/ PromoteAdmin(p) PROVE StartInv'
    <2>1. TypeOK' /\ RecordedIffRun' /\ Closed'
      BY <1>7 DEF CreateAdmin, PromoteAdmin, TypeOK, Phase, Entry, RecordedIffRun, Closed
    <2>2. ASSUME NEW q \in Process PROVE Knows(q)'
      <3>1. CASE q = p
        BY <1>7, <3>1 DEF CreateAdmin, PromoteAdmin, TypeOK, Knows, loadMigrations
      <3>2. CASE q # p
        BY <1>7, <3>2, KnowsStays DEF CreateAdmin, PromoteAdmin, TypeOK
      <3> QED
        BY <3>1, <3>2
    <2> QED
      BY <2>1, <2>2
  <1>8. ASSUME NEW p \in Process, NEW r \in Row, NEW entry \in Entry, Form(p, r, entry)
        PROVE  StartInv'
    <2>1. TypeOK' /\ RecordedIffRun' /\ Closed'
      BY <1>8, ReleaseAssumption DEF Form, TypeOK, RecordedIffRun, Closed
    <2>2. ASSUME NEW q \in Process PROVE Knows(q)'
      BY <1>8, KnowsStays DEF Form
    <2> QED
      BY <2>1, <2>2
  <1>9. ASSUME NEW p \in Process, Shutdown(p) \/ Crash(p) PROVE StartInv'
    <2>1. TypeOK' /\ RecordedIffRun' /\ Closed'
      BY <1>9 DEF Shutdown, Crash, TypeOK, Phase, RecordedIffRun, Closed
    <2>2. ASSUME NEW q \in Process PROVE Knows(q)'
      BY <1>9, KnowsStays, KnowsNothing DEF Shutdown, Crash, TypeOK
    <2> QED
      BY <2>1, <2>2
  <1> QED
    BY <1>1, <1>2, <1>3, <1>4, <1>5, <1>6, <1>7, <1>8, <1>9 DEF Next, Work

(* The invariant holds throughout.                                         *)
THEOREM StartInvariant == Spec => []StartInv
  BY StartInit, StartStep, PTL DEF Spec

(* Every variable keeps its type: no process ever looks for a version that *)
(* no file can have.                                                       *)
THEOREM MigrationsTyped == Spec => []TypeOK
  <1>1. StartInv => TypeOK
    BY DEF StartInv
  <1> QED
    BY <1>1, StartInvariant, PTL

(* A version is recorded exactly when its script has run, wherever a       *)
(* process was killed (the one transaction of applyMigration).             *)
THEOREM RecordsAreExact == Spec => []RecordedIffRun
  <1>1. StartInv => RecordedIffRun
    BY DEF StartInv
  <1> QED
    BY <1>1, StartInvariant, PTL

(* Any number of processes of any releases run the scripts in the order of *)
(* their versions and none twice, although each reads the recorded         *)
(* versions only once (Migrate).                                           *)
THEOREM ScriptsInOrder == Spec => AppliedInOrder
  <1>1. StartInv /\ [Next]_vars =>
          [\A v \in schema' \ schema : schema = 1..(v - 1)]_vars
    <2> SUFFICES ASSUME StartInv, Next, NEW v \in schema' \ schema
                 PROVE  schema = 1..(v - 1)
      BY DEF vars
    <2>1. PICK p \in Process : \E w \in todo[p] : ApplyMigration(p, w)
      BY DEF Next, Work, Start, ReadApplied, MigrationFails, FindAdmin, LookUp,
             CreateAdmin, PromoteAdmin, Form, Shutdown, Crash
    <2>2. PICK w \in todo[p] : ApplyMigration(p, w)
      BY <2>1
    <2> QED
      BY <2>2, InOrder DEF ApplyMigration
  <1> QED
    BY <1>1, StartInvariant, PTL DEF Spec, AppliedInOrder

(* Whoever listens has the tables of its release, whichever processes of   *)
(* whichever releases start, crash and migrate at the same time (run: Open *)
(* comes before ListenAndServe).                                           *)
THEOREM ServingIsComplete == Spec => []ServesOnCompleteSchema
  <1>1. StartInv => ServesOnCompleteSchema
    BY DEF StartInv, Knows, ServesOnCompleteSchema
  <1> QED
    BY <1>1, StartInvariant, PTL
=============================================================================
