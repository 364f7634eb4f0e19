---------------------------- MODULE WritesProofs ----------------------------
(***************************************************************************)
(* Proofs about ObjectWrites, for every set of names, members and payloads *)
(* and every value of the bounds, for any number of requests: their types, *)
(* and that what a request read is only out of date if the log says so.    *)
(***************************************************************************)
EXTENDS ObjectWrites, StorageProofs

-----------------------------------------------------------------------------
(* Any number of requests                                                  *)

WriteTyped == write \in [Writer -> WriteState \cup {NoWrite}]

WritesInv == StorageInv /\ WriteTyped

(* A request past its first query has all its fields.                      *)
LEMMA ActiveWrite ==
    ASSUME WriteTyped, NEW w \in Writer, write[w].phase # "idle"
    PROVE  write[w] \in WriteState
  BY DEF WriteTyped, NoWrite

(* A request that ends leaves the others alone.                            *)
LEMMA DoneTyped ==
    ASSUME WriteTyped, NEW w \in Writer, Done(w)
    PROVE  WriteTyped' /\ write'[w] = NoWrite
  BY DEF WriteTyped, Done

(* Moving a request to another phase keeps what it is about.               *)
LEMMA PhaseTyped ==
    ASSUME WriteTyped, NEW w \in Writer, write[w].phase # "idle", NEW phase \in Phase,
           NEW seen \in Nat,
           write' = [write EXCEPT ![w].phase = phase, ![w].seen = seen]
    PROVE  /\ WriteTyped'
           /\ write'[w].phase = phase /\ write'[w].seen = seen
           /\ write'[w].op = write[w].op /\ write'[w].raw = write[w].raw
           /\ write'[w].cond = write[w].cond /\ write'[w].birth = write[w].birth
           /\ write'[w].cid = write[w].cid /\ write'[w].uri = write[w].uri
  <1> DEFINE new == [write[w] EXCEPT !.phase = phase, !.seen = seen]
  <1>1. write[w] \in WriteState
    BY ActiveWrite
  <1>2. new \in WriteState
    BY <1>1 DEF WriteState
  <1>3. write' = [write EXCEPT ![w] = new]
    OBVIOUS
  <1>4. new.phase = phase /\ new.seen = seen /\ new.op = write[w].op
        /\ new.raw = write[w].raw /\ new.cond = write[w].cond
        /\ new.birth = write[w].birth /\ new.cid = write[w].cid /\ new.uri = write[w].uri
    BY <1>1 DEF WriteState
  <1> HIDE DEF new
  <1> QED
    BY <1>2, <1>3, <1>4 DEF WriteTyped

(* The sequence of a collection is a number, also where there is none.     *)
LEMMA VersionTyped ==
    ASSUME StorageInv, NEW id \in Id
    PROVE  VersionOf(id) \in Nat
  BY LiveRow DEF VersionOf, StorageInv, Collection

(* An edit keeps what the form does not show, and yields bytes that can be *)
(* stored (vcard.Apply, ical.Apply).                                       *)
LEMMA ApplyKeepsHidden ==
    ASSUME NEW raw \in Raw, NEW form \in Raw
    PROVE  Apply(raw, form) \in Raw /\ Apply(raw, form).hidden = raw.hidden
  BY WritesAssumption DEF Apply

(* The object a request reads is one that can be stored, or there is none. *)
LEMMA RowRead ==
    ASSUME StorageInv, NEW id \in Id, NEW u \in Uri
    PROVE  /\ objects[id][u] \in Object \cup {NoRow}
           /\ ETagOf(id, u) \in ETag \cup {NoRow}
  <1>1. objects[id][u] \in Object \cup {NoRow}
    BY DEF StorageInv, StorageTypeOK
  <1> QED
    BY <1>1 DEF ETagOf, Object

(* The edited bytes replace the form of the request.                       *)
LEMMA ReadForEditTyped ==
    ASSUME WritesInv, NEW w \in Writer, ReadForEdit(w)
    PROVE  /\ WriteTyped'
           /\ \/ write'[w] = NoWrite
              \/ /\ write'[w].phase = "ready"
                 /\ write'[w].op = "edit"
                 /\ write'[w].cond = write[w].cond
                 /\ write'[w].cid = write[w].cid /\ write'[w].uri = write[w].uri
                 /\ write'[w].birth = write[w].birth
                 /\ write'[w].seen = VersionOf(write[w].cid)
                 /\ objects[write[w].cid][write[w].uri] # NoRow
                 /\ write'[w].raw.hidden = objects[write[w].cid][write[w].uri].raw.hidden
  <1> DEFINE row == objects[write[w].cid][write[w].uri]
             seen == VersionOf(write[w].cid)
             new == [write[w] EXCEPT !.phase = "ready", !.seen = seen,
                                     !.raw = Apply(row.raw, write[w].raw)]
  <1>1. WriteTyped /\ write[w] \in WriteState /\ write[w].op = "edit"
    BY ActiveWrite DEF WritesInv, ReadForEdit
  <1>2. CASE Done(w)
    BY <1>1, <1>2, DoneTyped
  <1>3. CASE row # NoRow /\ write' = [write EXCEPT ![w] = new]
    <2>1. write[w].cid \in Id /\ write[w].uri \in Uri /\ write[w].raw \in Raw
      BY <1>1 DEF WriteState
    <2>2. row.raw \in Raw
      BY <1>3, <2>1, RowRead DEF WritesInv, Object
    <2>3. /\ Apply(row.raw, write[w].raw) \in Raw
          /\ Apply(row.raw, write[w].raw).hidden = row.raw.hidden
      BY <2>1, <2>2, ApplyKeepsHidden
    <2>0. seen \in Nat
      BY <2>1, VersionTyped DEF WritesInv
    <2> HIDE DEF row, seen
    <2>4. new \in WriteState
      BY <1>1, <2>0, <2>3 DEF WriteState, Phase
    <2>5. new.phase = "ready" /\ new.op = "edit" /\ new.cond = write[w].cond
          /\ new.cid = write[w].cid /\ new.uri = write[w].uri
          /\ new.birth = write[w].birth /\ new.seen = seen
          /\ new.raw = Apply(row.raw, write[w].raw)
      BY <1>1 DEF WriteState
    <2>6. WriteTyped' /\ write'[w] = new
      BY <1>1, <1>3, <2>4 DEF WriteTyped
    <2> QED
      BY <1>3, <2>3, <2>5, <2>6 DEF row, seen
  <1>4. Done(w) \/ (row # NoRow /\ write' = [write EXCEPT ![w] = new])
    BY <1>1 DEF ReadForEdit, WriteTyped
  <1> QED
    BY <1>2, <1>3, <1>4

(* What a step does to the tables is one of the writes of Storage.         *)
LEMMA StepWrites ==
    ASSUME WritesInv, Next
    PROVE  [StorageNext]_storageVars
  <1>1. ASSUME NEW w \in Writer, write[w].phase # "idle"
        PROVE  write[w].cid \in Id /\ write[w].uri \in Uri /\ write[w].raw \in Raw
    BY <1>1, ActiveWrite DEF WritesInv, WriteState
  <1>2. ASSUME NEW w \in Writer, Store(w) PROVE StorageNext
    BY <1>1, <1>2 DEF Store, StorageNext
  <1>3. ASSUME NEW w \in Writer, Delete(w) PROVE StorageNext
    BY <1>1, <1>3 DEF Delete, StorageNext
  <1>4. ASSUME NEW w \in Writer, Drop(w) PROVE StorageNext
    BY <1>1, <1>4 DEF Drop, StorageNext
  <1>5. ASSUME NEW w \in Writer,
               \/ \E op \in Operation, id \in Id, u \in Uri, raw \in Raw, c \in Condition :
                    Resolve(w, op, id, u, raw, c)
               \/ NotFound(w) \/ CheckPreconditions(w) \/ ReadForEdit(w) \/ Answer(w)
               \/ Fail(w) \/ Cancel(w)
        PROVE  UNCHANGED storageVars
    BY <1>5 DEF Resolve, NotFound, CheckPreconditions, ReadForEdit, Answer, Fail, Cancel
  <1> QED
    BY <1>2, <1>3, <1>4, <1>5 DEF Next, Work, StorageNext

(* PutObject leaves the collection in place, with a number for a sequence. *)
LEMMA StoreKeepsCollection ==
    ASSUME WritesInv, NEW w \in Writer, Store(w)
    PROVE  /\ write[w].cid \in Live'
           /\ collections'[write[w].cid].sync_seq \in Nat
  <1>1. write[w] \in WriteState
    BY ActiveWrite DEF WritesInv, Store
  <1>2. StorageNext
    BY <1>1 DEF Store, StorageNext, WriteState
  <1>3. StorageTypeOK /\ StorageTypeOK'
    BY <1>2, StorageStepInv DEF WritesInv, StorageInv
  <1>4. write[w].cid \in Live'
    <2>1. CASE UNCHANGED storageVars
      BY <2>1 DEF Store, PutObject, storageVars, Live
    <2>2. ASSUME NEW type, recordChange(write[w].cid, write[w].uri, type),
                 write[w].cid \in Live
          PROVE  write[w].cid \in Live'
      BY <1>3, <2>2, RecordedRow
    <2> QED
      BY <2>1, <2>2 DEF Store, PutObject
  <1> QED
    BY <1>3, <1>4, StorageAssumption DEF Live, StorageTypeOK, Collection

(* Every step of every request keeps the types.                            *)
LEMMA WritesStep == WritesInv /\ [Next]_vars => WritesInv'
  <1> SUFFICES ASSUME WritesInv, [Next]_vars PROVE WritesInv'
    OBVIOUS
  <1>0. StorageInv'
    BY StepWrites, StorageStepInv DEF vars, WritesInv
  <1>1. CASE UNCHANGED write
    BY <1>1, <1>0 DEF WritesInv, WriteTyped
  <1>2. ASSUME NEW w \in Writer, Done(w) PROVE WriteTyped'
    BY <1>2, DoneTyped DEF WritesInv
  <1>3. ASSUME NEW w \in Writer, NEW op \in Operation, NEW id \in Id, NEW u \in Uri,
               NEW raw \in Raw, NEW c \in Condition, Resolve(w, op, id, u, raw, c)
        PROVE  WriteTyped'
    <2>1. collections[id].birth \in Nat
      BY <1>3, LiveRow DEF Resolve, WritesInv, StorageInv, Collection
    <2> QED
      BY <1>3, <2>1 DEF Resolve, WritesInv, WriteTyped, WriteState, Phase
  <1>4. ASSUME NEW w \in Writer, CheckPreconditions(w) PROVE WriteTyped'
    <2>1. write[w] \in WriteState
      BY <1>4, ActiveWrite DEF CheckPreconditions, WritesInv
    <2>2. VersionOf(write[w].cid) \in Nat
      BY <2>1, VersionTyped DEF WritesInv, WriteState
    <2> QED
      BY <1>4, <1>2, <2>2, PhaseTyped DEF CheckPreconditions, WritesInv, Phase
  <1>5. ASSUME NEW w \in Writer, ReadForEdit(w) PROVE WriteTyped'
    BY <1>5, ReadForEditTyped
  <1>6. ASSUME NEW w \in Writer, Store(w) PROVE WriteTyped'
    BY <1>6, PhaseTyped, StoreKeepsCollection DEF Store, WritesInv, Phase
  <1>7. ASSUME NEW w \in Writer, Answer(w) PROVE WriteTyped'
    <2> DEFINE etag == ETagOf(write[w].cid, write[w].uri)
               new == [write[w] EXCEPT !.phase = "answered", !.answer = etag]
    <2>1. write[w] \in WriteState /\ WriteTyped
      BY <1>7, ActiveWrite DEF WritesInv, Answer
    <2>2. etag \in ETag \cup {NoRow}
      BY <2>1, RowRead DEF WritesInv, WriteState
    <2> HIDE DEF etag
    <2>3. new \in WriteState
      BY <2>1, <2>2 DEF WriteState, Phase
    <2>4. CASE write' = [write EXCEPT ![w] = new]
      BY <2>1, <2>3, <2>4 DEF WriteTyped
    <2>5. write' = [write EXCEPT ![w] = new] \/ Done(w)
      BY <1>7, <2>1 DEF Answer, WriteTyped, etag
    <2> QED
      BY <1>2, <2>4, <2>5
  <1>8. ASSUME NEW w \in Writer,
               NotFound(w) \/ Delete(w) \/ Drop(w) \/ Fail(w) \/ Cancel(w)
        PROVE  Done(w)
    BY <1>8 DEF NotFound, Delete, Drop, Fail, Cancel
  <1> QED
    BY <1>0, <1>1, <1>2, <1>3, <1>4, <1>5, <1>6, <1>7, <1>8
       DEF Next, Work, vars, WritesInv

(* Nothing is stored and no request is in progress at first.               *)
LEMMA WritesInit == Init => WritesInv
  BY StorageInitInv DEF Init, WritesInv, WriteTyped

(* The tables, with their log, and the requests keep their types.          *)
THEOREM WritesInvariant == Spec => []WritesInv
  BY WritesInit, WritesStep, PTL DEF Spec

(* Requests that resolve, check, write and answer in any order, for        *)
(* collections that come and go, keep every row and request well typed.    *)
THEOREM WritesTyped == Spec => []TypeOK
  <1>1. WritesInv => TypeOK
    BY DEF WritesInv, WriteTyped, StorageInv, TypeOK
  <1> QED
    BY <1>1, WritesInvariant, PTL

-----------------------------------------------------------------------------
(* What a request has read                                                 *)

(* The sequence a request has seen is behind that of its collection.       *)
SeenBehind(w) ==
    write[w].phase # "idle" =>
      /\ write[w].birth <= births
      /\ write[w].op # "put" => write[w].cond = NoCondition
      /\ (write[w].cid \in Live /\ collections[write[w].cid].birth = write[w].birth) =>
           write[w].seen <= collections[write[w].cid].sync_seq

(* After the commit the row is the request's own, until it is overtaken.   *)
OwnRow(w) ==
    write[w].phase = "stored" =>
      Overtaken(w) \/ ETagOf(write[w].cid, write[w].uri) = ETagFor(write[w].raw)

ReadStands(w) ==
    write[w].phase = "ready" => Overtaken(w) \/ RowAsRead(w)

AnswerStands(w) ==
    write[w].phase = "answered" =>
      write[w].answer = ETagFor(write[w].raw) \/ Overtaken(w)

RequestInv(w) == SeenBehind(w) /\ OwnRow(w) /\ ReadStands(w) /\ AnswerStands(w)

ReadsInv == WritesInv /\ \A w \in Writer : RequestInv(w)

(* No condition is met by every row.                                       *)
LEMMA NoConditionHolds ==
    ASSUME NEW row PROVE PreconditionHolds(NoCondition, row)
  BY WritesAssumption DEF PreconditionHolds

(* A request that is not overtaken after a write of the tables was not     *)
(* before, and still has the row it had: every change of the row is logged *)
(* after the sequence it has seen, and no other collection has its birth.  *)
LEMMA WriteOvertakes ==
    ASSUME WritesInv, [StorageNext]_storageVars, NEW w \in Writer, SeenBehind(w),
           write[w].phase # "idle", write'[w] = write[w], ~Overtaken(w)'
    PROVE  /\ ~Overtaken(w)
           /\ objects'[write[w].cid][write[w].uri] = objects[write[w].cid][write[w].uri]
           /\ ETagOf(write[w].cid, write[w].uri)' = ETagOf(write[w].cid, write[w].uri)
           /\ write[w].seen <= collections'[write[w].cid].sync_seq
  <1> DEFINE id == write[w].cid
             u == write[w].uri
  <1>1. /\ write[w] \in WriteState /\ id \in Id /\ u \in Uri
        /\ write[w].seen \in Nat /\ write[w].birth \in Nat
    BY ActiveWrite DEF WritesInv, WriteState
  <1>2. id \in Live' /\ collections'[id].birth = write[w].birth
        /\ ~Pending(id, u, write[w].seen)'
    BY DEF Overtaken, Pending
  <1>3. births \in Nat /\ StorageInv /\ write[w].birth <= births
    BY DEF SeenBehind, WritesInv, StorageInv, StorageTypeOK
  <1>4. collections'[id].birth # births + 1
    BY <1>1, <1>2, <1>3
  <1>5. /\ id \in Live
        /\ collections'[id].birth = collections[id].birth
        /\ collections[id].sync_seq <= collections'[id].sync_seq
        /\ \A v \in Uri, seq \in Nat : seq <= collections[id].sync_seq =>
             /\ Pending(id, v, seq) => Pending(id, v, seq)'
             /\ \/ /\ objects'[id][v] = objects[id][v]
                   /\ ETagOf(id, v)' = ETagOf(id, v)
                \/ Pending(id, v, seq)'
    BY <1>2, <1>3, <1>4, WriteEffect
  <1>6. write[w].seen <= collections[id].sync_seq
    BY <1>2, <1>5 DEF SeenBehind
  <1>7. /\ ~Pending(id, u, write[w].seen)
        /\ objects'[id][u] = objects[id][u]
        /\ ETagOf(id, u)' = ETagOf(id, u)
    BY <1>1, <1>2, <1>5, <1>6 DEF Pending, ETagOf
  <1>8. collections[id].sync_seq \in Nat /\ collections'[id].sync_seq \in Nat
    <2>1. StorageInv'
      BY <1>3, StorageStepInv
    <2> QED
      BY <1>2, <1>3, <1>5, <2>1, LiveRow, StorageAssumption
         DEF StorageInv, StorageTypeOK, Live, Collection
  <1> QED
    BY <1>1, <1>2, <1>5, <1>6, <1>7, <1>8 DEF Overtaken

(* What happens to the tables between two steps of a request.              *)
LEMMA OthersStep ==
    ASSUME WritesInv, [StorageNext]_storageVars, NEW w \in Writer, RequestInv(w),
           write'[w] = write[w]
    PROVE  RequestInv(w)'
  <1>1. CASE write[w].phase = "idle"
    BY <1>1 DEF RequestInv, SeenBehind, OwnRow, ReadStands, AnswerStands
  <1>2. CASE write[w].phase # "idle" /\ Overtaken(w)'
    <2>1. write[w].birth \in Nat /\ write[w].seen \in Nat
      BY <1>2, ActiveWrite DEF WritesInv, WriteState
    <2>2. births \in Nat /\ births' \in Nat /\ births <= births'
      BY BirthsGrow DEF WritesInv
    <2>3. SeenBehind(w)'
      <3>1. ASSUME write[w].cid \in Live', collections'[write[w].cid].birth = write[w].birth
            PROVE  write[w].seen <= collections'[write[w].cid].sync_seq
        <4>1. collections'[write[w].cid].birth # births + 1
          BY <1>2, <2>1, <2>2, <3>1 DEF RequestInv, SeenBehind
        <4>2. /\ write[w].cid \in Live
              /\ collections[write[w].cid].birth = write[w].birth
              /\ collections[write[w].cid].sync_seq <= collections'[write[w].cid].sync_seq
          BY <3>1, <4>1, WriteEffect DEF WritesInv
        <4>3. write[w].seen <= collections[write[w].cid].sync_seq
          BY <1>2, <4>2 DEF RequestInv, SeenBehind
        <4>4. StorageInv' /\ StorageInv
          BY StorageStepInv DEF WritesInv
        <4>5. collections[write[w].cid].sync_seq \in Nat
              /\ collections'[write[w].cid].sync_seq \in Nat
          BY <3>1, <4>2, <4>4, LiveRow, StorageAssumption
             DEF StorageInv, StorageTypeOK, Live, Collection
        <4> QED
          BY <2>1, <4>2, <4>3, <4>5
      <3>2. write[w].birth <= births'
        BY <1>2, <2>1, <2>2 DEF RequestInv, SeenBehind
      <3> QED
        BY <1>2, <3>1, <3>2 DEF RequestInv, SeenBehind
    <2> QED
      BY <1>2, <2>3 DEF RequestInv, OwnRow, ReadStands, AnswerStands
  <1>3. CASE write[w].phase # "idle" /\ ~Overtaken(w)'
    <2>1. /\ ~Overtaken(w)
          /\ objects'[write[w].cid][write[w].uri] = objects[write[w].cid][write[w].uri]
          /\ ETagOf(write[w].cid, write[w].uri)' = ETagOf(write[w].cid, write[w].uri)
          /\ write[w].seen <= collections'[write[w].cid].sync_seq
      BY <1>3, WriteOvertakes DEF RequestInv
    <2>2. SeenBehind(w)'
      <3>1. births \in Nat /\ births' \in Nat /\ births <= births' /\ write[w].birth \in Nat
        BY <1>3, BirthsGrow, ActiveWrite DEF WritesInv, WriteState
      <3> QED
        BY <1>3, <2>1, <3>1 DEF RequestInv, SeenBehind
    <2>3. OwnRow(w)' /\ AnswerStands(w)'
      BY <2>1 DEF RequestInv, OwnRow, AnswerStands, ETagOf
    <2>4. ReadStands(w)'
      BY <2>1 DEF RequestInv, ReadStands, RowAsRead
    <2> QED
      BY <2>2, <2>3, <2>4 DEF RequestInv
  <1> QED
    BY <1>1, <1>2, <1>3

(* The tables stay as they are while a request reads.                      *)
LEMMA ReadKeepsTables ==
    ASSUME UNCHANGED storageVars
    PROVE  /\ Live' = Live /\ objects' = objects /\ collections' = collections
           /\ births' = births /\ object_changes' = object_changes
  BY DEF storageVars, Live

(* The path is resolved: nothing has been read yet.                        *)
LEMMA ResolveStep ==
    ASSUME WritesInv, NEW w \in Writer, NEW op \in Operation, NEW id \in Id,
           NEW u \in Uri, NEW raw \in Raw, NEW c \in Condition,
           op # "put" => c = NoCondition, Resolve(w, op, id, u, raw, c)
    PROVE  RequestInv(w)'
  <1>1. id \in Live /\ collections[id] \in Collection /\ UNCHANGED storageVars
    BY LiveRow DEF Resolve, WritesInv, StorageInv
  <1>2. collections[id].birth <= births /\ 0 <= collections[id].sync_seq
    BY <1>1 DEF WritesInv, StorageInv, BirthsDistinct, Collection
  <1>3. /\ write'[w].phase = "resolved" /\ write'[w].op = op /\ write'[w].cond = c
        /\ write'[w].cid = id /\ write'[w].birth = collections[id].birth
        /\ write'[w].seen = 0
    BY DEF Resolve, WritesInv, WriteTyped
  <1> QED
    BY <1>1, <1>2, <1>3, ReadKeepsTables
       DEF RequestInv, SeenBehind, OwnRow, ReadStands, AnswerStands

(* The row is read and, for a PUT, meets the condition.                    *)
LEMMA CheckStep ==
    ASSUME WritesInv, NEW w \in Writer, RequestInv(w), CheckPreconditions(w), ~Done(w)
    PROVE  RequestInv(w)'
  <1>1. write[w] \in WriteState /\ write[w].phase # "idle" /\ write[w].op = "put"
    BY ActiveWrite DEF CheckPreconditions, WritesInv
  <1>2. VersionOf(write[w].cid) \in Nat /\ write[w].cid \in Id
    BY <1>1, VersionTyped DEF WritesInv, WriteState
  <1>3. /\ PreconditionHolds(write[w].cond, objects[write[w].cid][write[w].uri])
        /\ write' = [write EXCEPT ![w].phase = "ready",
                                  ![w].seen = VersionOf(write[w].cid)]
        /\ UNCHANGED storageVars
    BY DEF CheckPreconditions
  <1>4. /\ write'[w].phase = "ready" /\ write'[w].seen = VersionOf(write[w].cid)
        /\ write'[w].op = "put" /\ write'[w].cond = write[w].cond
        /\ write'[w].birth = write[w].birth
        /\ write'[w].cid = write[w].cid /\ write'[w].uri = write[w].uri
    <2>1. "ready" \in Phase
      BY DEF Phase
    <2> QED
      BY <1>1, <1>2, <1>3, <2>1, PhaseTyped DEF WritesInv
  <1>5. SeenBehind(w)'
    BY <1>1, <1>2, <1>3, <1>4, ReadKeepsTables DEF RequestInv, SeenBehind, VersionOf
  <1>6. RowAsRead(w)'
    BY <1>3, <1>4, ReadKeepsTables DEF RowAsRead
  <1> QED
    BY <1>4, <1>5, <1>6 DEF RequestInv, OwnRow, ReadStands, AnswerStands

(* The row is read and edited in memory.                                   *)
LEMMA EditStep ==
    ASSUME WritesInv, NEW w \in Writer, RequestInv(w), ReadForEdit(w), ~Done(w)
    PROVE  RequestInv(w)'
  <1>1. write[w] \in WriteState /\ write[w].phase # "idle" /\ write[w].op = "edit"
        /\ UNCHANGED storageVars
    BY ActiveWrite DEF ReadForEdit, WritesInv
  <1>2. write[w].cond = NoCondition /\ write[w].birth <= births
    BY <1>1 DEF RequestInv, SeenBehind
  <1>3. VersionOf(write[w].cid) \in Nat /\ write[w].cid \in Id
    BY <1>1, VersionTyped DEF WritesInv, WriteState
  <1>4. write'[w] # NoWrite
    BY <1>1 DEF ReadForEdit, WritesInv, WriteTyped, WriteState, NoWrite
  <1>5. /\ write'[w].phase = "ready" /\ write'[w].op = "edit"
        /\ write'[w].cond = NoCondition
        /\ write'[w].cid = write[w].cid /\ write'[w].uri = write[w].uri
        /\ write'[w].birth = write[w].birth
        /\ write'[w].seen = VersionOf(write[w].cid)
        /\ objects[write[w].cid][write[w].uri] # NoRow
        /\ write'[w].raw.hidden = objects[write[w].cid][write[w].uri].raw.hidden
    BY <1>2, <1>4, ReadForEditTyped
  <1>6. SeenBehind(w)'
    BY <1>1, <1>2, <1>3, <1>5, ReadKeepsTables DEF SeenBehind, VersionOf
  <1>7. RowAsRead(w)'
    BY <1>1, <1>5, ReadKeepsTables, NoConditionHolds DEF RowAsRead
  <1> QED
    BY <1>5, <1>6, <1>7 DEF RequestInv, OwnRow, ReadStands, AnswerStands

(* After PutObject the row of the URI has the ETag of the bytes given.     *)
LEMMA PutStores ==
    ASSUME StorageInv, NEW id \in Id, NEW u \in Uri, NEW raw \in Raw,
           PutObject(id, u, raw)
    PROVE  ETagOf(id, u)' = ETagFor(raw)
  <1>1. objects \in [Id -> [Uri -> Object \cup {NoRow}]]
    BY DEF StorageInv, StorageTypeOK
  <1>2. CASE ETagOf(id, u) = ETagFor(raw) /\ UNCHANGED storageVars
    BY <1>2 DEF ETagOf, storageVars
  <1>3. CASE objects' = [objects EXCEPT ![id][u] = [raw |-> raw, etag |-> ETagFor(raw)]]
    <2>1. [raw |-> raw, etag |-> ETagFor(raw)] # NoRow
      BY StorageAssumption DEF Object, ETag, ETagFor
    <2>2. objects'[id][u] = [raw |-> raw, etag |-> ETagFor(raw)]
      BY <1>1, <1>3
    <2> QED
      BY <2>1, <2>2 DEF ETagOf
  <1> QED
    BY <1>2, <1>3 DEF PutObject

(* The transaction commits: the row is the request's own.                  *)
LEMMA StoreStep ==
    ASSUME WritesInv, NEW w \in Writer, RequestInv(w), Store(w)
    PROVE  RequestInv(w)'
  <1> DEFINE seq == collections'[write[w].cid].sync_seq
  <1>1. write[w] \in WriteState /\ write[w].phase # "idle"
    BY ActiveWrite DEF Store, WritesInv
  <1>2. seq \in Nat
    BY StoreKeepsCollection
  <1>3. /\ write'[w].phase = "stored" /\ write'[w].seen = seq
        /\ write'[w].op = write[w].op /\ write'[w].cond = write[w].cond
        /\ write'[w].birth = write[w].birth /\ write'[w].raw = write[w].raw
        /\ write'[w].cid = write[w].cid /\ write'[w].uri = write[w].uri
    <2>1. "stored" \in Phase
      BY DEF Phase
    <2> QED
      BY <1>1, <1>2, <2>1, PhaseTyped DEF WritesInv, Store
  <1>4. ETagOf(write[w].cid, write[w].uri)' = ETagFor(write[w].raw)
    <2>1. /\ write[w].cid \in Id /\ write[w].uri \in Uri /\ write[w].raw \in Raw
          /\ PutObject(write[w].cid, write[w].uri, write[w].raw)
      BY <1>1 DEF Store, WriteState
    <2>2. ASSUME NEW id \in Id, NEW u \in Uri, id = write[w].cid, u = write[w].uri
          PROVE  ETagOf(id, u)' = ETagFor(write[w].raw)
      BY <2>1, <2>2, PutStores DEF WritesInv
    <2> QED
      BY <1>3, <2>1, <2>2 DEF ETagOf
  <1>5. births' = births
    BY DEF Store, PutObject, storageVars
  <1>6. SeenBehind(w)'
    BY <1>1, <1>2, <1>3, <1>5 DEF RequestInv, SeenBehind
  <1> QED
    BY <1>3, <1>4, <1>6 DEF RequestInv, OwnRow, ReadStands, AnswerStands, ETagOf

(* The answer is the ETag of the row found now.                            *)
LEMMA AnswerStep ==
    ASSUME WritesInv, NEW w \in Writer, RequestInv(w), Answer(w), ~Done(w)
    PROVE  RequestInv(w)'
  <1> DEFINE etag == ETagOf(write[w].cid, write[w].uri)
             new == [write[w] EXCEPT !.phase = "answered", !.answer = etag]
  <1>1. write[w] \in WriteState /\ write[w].phase = "stored" /\ UNCHANGED storageVars
    BY ActiveWrite DEF Answer, WritesInv
  <1>2. write'[w] = new
    BY DEF Answer, WritesInv, WriteTyped
  <1> HIDE DEF etag
  <1>3. /\ write'[w].phase = "answered" /\ write'[w].answer = etag
        /\ write'[w].op = write[w].op /\ write'[w].cond = write[w].cond
        /\ write'[w].birth = write[w].birth /\ write'[w].raw = write[w].raw
        /\ write'[w].cid = write[w].cid /\ write'[w].uri = write[w].uri
        /\ write'[w].seen = write[w].seen
    BY <1>1, <1>2 DEF WriteState
  <1>4. Overtaken(w) => Overtaken(w)'
    BY <1>1, <1>3, ReadKeepsTables DEF Overtaken, Pending
  <1>5. Overtaken(w) \/ etag = ETagFor(write[w].raw)
    BY <1>1 DEF RequestInv, OwnRow, etag
  <1>6. SeenBehind(w)'
    BY <1>1, <1>3, ReadKeepsTables DEF RequestInv, SeenBehind
  <1> QED
    BY <1>3, <1>4, <1>5, <1>6 DEF RequestInv, OwnRow, ReadStands, AnswerStands

(* Every step of every request keeps what all of them rely on.             *)
LEMMA ReadsStep == ReadsInv /\ [Next]_vars => ReadsInv'
  <1> SUFFICES ASSUME ReadsInv, [Next]_vars, NEW w \in Writer
               PROVE  RequestInv(w)'
    BY WritesStep DEF ReadsInv
  <1>0. WritesInv /\ RequestInv(w) /\ WriteTyped
    BY DEF ReadsInv, WritesInv
  <1>1. [StorageNext]_storageVars
    BY <1>0, StepWrites DEF vars
  <1>2. CASE write'[w] = write[w]
    BY <1>0, <1>1, <1>2, OthersStep
  <1>3. CASE Done(w)
    <2>1. write'[w].phase = "idle"
      BY <1>0, <1>3, DoneTyped DEF NoWrite
    <2> QED
      BY <2>1 DEF RequestInv, SeenBehind, OwnRow, ReadStands, AnswerStands
  <1>4. ASSUME NEW v \in Writer, v # w,
               \/ \E op \in Operation, id \in Id, u \in Uri, raw \in Raw, c \in Condition :
                    Resolve(v, op, id, u, raw, c)
               \/ NotFound(v) \/ Work(v) \/ Cancel(v)
        PROVE  write'[w] = write[w]
    BY <1>0, <1>4
       DEF Work, Resolve, NotFound, CheckPreconditions, ReadForEdit, Store, Answer, Delete,
           Drop, Fail, Cancel, Done, WriteTyped
  <1>5. ASSUME NotFound(w) \/ Delete(w) \/ Drop(w) \/ Fail(w) \/ Cancel(w)
        PROVE  Done(w)
    BY <1>5 DEF NotFound, Delete, Drop, Fail, Cancel
  <1>6. CASE \E op \in Operation, id \in Id, u \in Uri, raw \in Raw, c \in Condition :
               (op # "put" => c = NoCondition) /\ Resolve(w, op, id, u, raw, c)
    BY <1>0, <1>6, ResolveStep
  <1>7. CASE Work(w)
    BY <1>0, <1>3, <1>5, <1>7, CheckStep, EditStep, StoreStep, AnswerStep DEF Work
  <1>8. CASE \E v \in Writer : v # w /\
               (\/ \E op \in Operation, id \in Id, u \in Uri, raw \in Raw, c \in Condition :
                     Resolve(v, op, id, u, raw, c)
                \/ NotFound(v) \/ Work(v) \/ Cancel(v))
    BY <1>2, <1>4, <1>8
  <1>9. CASE write' = write
    BY <1>2, <1>9
  <1> QED
    BY <1>3, <1>5, <1>6, <1>7, <1>8, <1>9 DEF Next, vars

(* The inductive invariant of all requests.                                *)
LEMMA ReadsInvariant == Spec => []ReadsInv
  <1>1. Init => ReadsInv
    BY WritesInit
       DEF Init, ReadsInv, RequestInv, SeenBehind, OwnRow, ReadStands, AnswerStands, NoWrite
  <1> QED
    BY <1>1, ReadsStep, PTL DEF Spec

(* For any number of requests at a time: the condition of a PUT, and the   *)
(* part a form does not show, are only ever those of an older row when the *)
(* log holds a change made after that row was read, or the collection is   *)
(* no longer the one the path named (PutCalendarObject, updateContact).    *)
THEOREM StaleOnlyIfOvertaken == Spec => []OnlyOvertakenReadsAreStale
  <1>1. ReadsInv => OnlyOvertakenReadsAreStale
    BY DEF ReadsInv, RequestInv, ReadStands, OnlyOvertakenReadsAreStale
  <1> QED
    BY <1>1, ReadsInvariant, PTL

(* For any number of requests at a time: PutObject answers with the ETag   *)
(* of the bytes it stored, or the log holds a later change of the object.  *)
THEOREM AnswersNameBytes == Spec => []AnswerNamesBytes
  <1>1. ReadsInv => AnswerNamesBytes
    BY DEF ReadsInv, RequestInv, AnswerStands, AnswerNamesBytes
  <1> QED
    BY <1>1, ReadsInvariant, PTL
=============================================================================
