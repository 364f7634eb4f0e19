--------------------------- MODULE StorageProofs ---------------------------
(***************************************************************************)
(* Proofs about Storage, for every set of names, members and payloads and  *)
(* every value of the bounds: the change log stays sound, and what a write *)
(* may do to a collection that a reader is in the middle of reading.       *)
(***************************************************************************)
EXTENDS Storage, TLAPS

-----------------------------------------------------------------------------
(* The inductive invariant                                                 *)

(* Insertions are numbered: no two collections have the same birth.        *)
BirthsDistinct ==
    /\ \A id \in Live :
         1 <= collections[id].birth /\ collections[id].birth <= births
    /\ \A a, b \in Live : collections[a].birth = collections[b].birth => a = b

CtagIsSequence ==
    \A id \in Live : collections[id].ctag = ctagFor(collections[id].sync_seq)

StorageInv == StorageTypeOK /\ ChangeLogSound /\ BirthsDistinct /\ CtagIsSequence

-----------------------------------------------------------------------------
(* Every write keeps it                                                    *)

(* What PutObject and DeleteObject have in common: a member of a live      *)
(* collection gets a new row, or none, and recordChange runs with a type   *)
(* that says which.                                                        *)
Transition(id, uri, row, type) ==
    /\ objects' = [objects EXCEPT ![id][uri] = row]
    /\ recordChange(id, uri, type)
    /\ births' = births

NewETag(row) == IF row = NoRow THEN NoRow ELSE row.etag

(* The tables start empty, and an empty log is sound.                      *)
LEMMA StorageInitInv == StorageInit => StorageInv
  <1> SUFFICES ASSUME StorageInit PROVE StorageInv
    OBVIOUS
  <1>1. Live = {} /\ object_changes = {}
    BY DEF StorageInit, Live
  <1>2. StorageTypeOK
    BY DEF StorageInit, StorageTypeOK
  <1>3. ChangeLogSound
    BY <1>1 DEF StorageInit, ChangeLogSound, ChangesBehindSequence, OneChangePerUri,
                LogMatchesObjects
  <1> QED
    BY <1>1, <1>2, <1>3 DEF StorageInv, BirthsDistinct, CtagIsSequence

(* A row of collections is not NoRow, so the live rowids are those with a  *)
(* typed row.                                                              *)
LEMMA LiveRow ==
    ASSUME StorageTypeOK, NEW id \in Live
    PROVE  id \in Id /\ collections[id] \in Collection
  BY StorageAssumption DEF Live, StorageTypeOK

(* recordChange moves the sequence of one collection by one, keeps every   *)
(* other field, and leaves the other collections alone.                    *)
LEMMA RecordedRow ==
    ASSUME StorageTypeOK, NEW id \in Live, NEW uri, NEW type,
           recordChange(id, uri, type)
    PROVE  /\ collections' \in [Id -> Collection \cup {NoRow}]
           /\ Live' = Live
           /\ \A other \in Id \ {id} : collections'[other] = collections[other]
           /\ collections'[id] \in Collection
           /\ collections'[id].sync_seq = collections[id].sync_seq + 1
           /\ collections'[id].ctag = ctagFor(collections[id].sync_seq + 1)
           /\ collections'[id].birth = collections[id].birth
  <1>1. id \in Id /\ collections[id] \in Collection
    BY LiveRow
  <1> DEFINE seq == collections[id].sync_seq + 1
             bumped == [collections[id] EXCEPT !.sync_seq = seq]
             row == [bumped EXCEPT !.ctag = ctagFor(seq)]
  <1>2. collections' = [collections EXCEPT ![id] = row]
    BY DEF recordChange
  <1>3. row \in Collection /\ row.sync_seq = seq /\ row.ctag = ctagFor(seq)
        /\ row.birth = collections[id].birth
    <2>1. seq \in Nat /\ ctagFor(seq) \in [text : Nat]
      BY <1>1 DEF Collection, ctagFor
    <2> HIDE DEF seq
    <2>2. bumped \in Collection /\ bumped.sync_seq = seq
          /\ bumped.birth = collections[id].birth
      BY <1>1, <2>1 DEF Collection
    <2> HIDE DEF bumped
    <2> QED
      BY <2>1, <2>2 DEF Collection
  <1>4. row # NoRow
    BY <1>3, StorageAssumption
  <1> HIDE DEF row, bumped, seq
  <1>5. collections'[id] = row /\ collections' \in [Id -> Collection \cup {NoRow}]
        /\ \A other \in Id \ {id} : collections'[other] = collections[other]
    BY <1>1, <1>2, <1>3 DEF StorageTypeOK
  <1>6. Live' = Live
    BY <1>1, <1>4, <1>5 DEF Live
  <1> QED
    BY <1>3, <1>5, <1>6 DEF seq

(* One transition of one member keeps the log sound: its only row for the  *)
(* URI is the new one, ahead of all others.                                *)
LEMMA TransitionInv ==
    ASSUME StorageInv, NEW id \in Live, NEW uri \in Uri,
           NEW row \in Object \cup {NoRow}, NEW type \in ChangeType,
           row = NoRow <=> type = "deleted",
           Transition(id, uri, row, type)
    PROVE  StorageInv'
  <1> USE DEF StorageInv
  <1> DEFINE seq == collections[id].sync_seq + 1
             new == [cid |-> id, seq |-> seq, uri |-> uri, type |-> type]
             kept == {ch \in object_changes : ~(ch.cid = id /\ ch.uri = uri)}
  <1>1. recordChange(id, uri, type)
    BY DEF Transition
  <1>2. id \in Id /\ collections[id] \in Collection
    BY LiveRow
  <1>3. /\ collections' \in [Id -> Collection \cup {NoRow}]
        /\ Live' = Live
        /\ \A other \in Id \ {id} : collections'[other] = collections[other]
        /\ collections'[id].sync_seq = seq
        /\ collections'[id].ctag = ctagFor(seq)
        /\ collections'[id].birth = collections[id].birth
    BY <1>1, RecordedRow
  <1>4. object_changes' = kept \cup {new}
    BY <1>1 DEF recordChange
  <1>5. seq \in Nat /\ 1 <= seq /\ new \in Change
    BY <1>2 DEF Collection, Change
  <1>6. object_changes \subseteq Change /\ births \in Nat
    BY DEF StorageTypeOK
  <1>7. \A ch \in kept : ch \in object_changes /\ ~(ch.cid = id /\ ch.uri = uri)
                         /\ (ch.cid = id => ch.seq < seq)
    BY <1>2, <1>6 DEF ChangeLogSound, ChangesBehindSequence, Change, Collection
  <1>8. new.cid = id /\ new.seq = seq /\ new.uri = uri /\ new.type = type
    OBVIOUS
  <1>9. objects' = [objects EXCEPT ![id][uri] = row]
    BY DEF Transition
  <1>10. /\ objects' \in [Id -> [Uri -> Object \cup {NoRow}]]
         /\ objects'[id][uri] = row
         /\ \A other \in Id, u \in Uri :
              ~(other = id /\ u = uri) => objects'[other][u] = objects[other][u]
    BY <1>2, <1>9 DEF StorageTypeOK
  <1> HIDE DEF seq, new, kept
  <1>11. StorageTypeOK'
    <2>1. object_changes' \subseteq Change
      BY <1>4, <1>5, <1>6, <1>7
    <2>2. births' \in Nat
      BY <1>6 DEF Transition
    <2> QED
      BY <1>3, <1>10, <2>1, <2>2 DEF StorageTypeOK
  <1>12. ChangesBehindSequence'
    <2> SUFFICES ASSUME NEW ch \in object_changes'
                 PROVE  /\ ch.cid \in Live /\ 1 <= ch.seq
                        /\ ch.seq <= collections'[ch.cid].sync_seq
      BY <1>3 DEF ChangesBehindSequence
    <2>1. CASE ch = new
      BY <2>1, <1>3, <1>5, <1>8
    <2>2. CASE ch \in kept
      <3>1. ch \in object_changes /\ ch.cid \in Live /\ 1 <= ch.seq
            /\ ch.seq <= collections[ch.cid].sync_seq
        BY <2>2, <1>7 DEF ChangeLogSound, ChangesBehindSequence
      <3>2. CASE ch.cid = id
        BY <2>2, <3>1, <3>2, <1>3, <1>5, <1>6, <1>7 DEF Change
      <3>3. CASE ch.cid # id
        BY <3>1, <3>3, <1>3, LiveRow
      <3> QED
        BY <3>2, <3>3
    <2> QED
      BY <1>4, <2>1, <2>2
  <1>13. OneChangePerUri'
    <2> SUFFICES ASSUME NEW a \in object_changes', NEW b \in object_changes',
                        a.cid = b.cid, a.uri = b.uri \/ a.seq = b.seq
                 PROVE  a = b
      BY DEF OneChangePerUri
    <2>1. CASE a \in kept /\ b \in kept
      BY <2>1, <1>7 DEF ChangeLogSound, OneChangePerUri
    <2>2. CASE a = new /\ b \in kept
      <3>1. b.cid = id /\ b.seq < seq /\ b.uri # uri
        BY <2>2, <1>7, <1>8
      <3> QED
        BY <2>2, <3>1, <1>5, <1>6, <1>7, <1>8 DEF Change
    <2>3. CASE b = new /\ a \in kept
      <3>1. a.cid = id /\ a.seq < seq /\ a.uri # uri
        BY <2>3, <1>7, <1>8
      <3> QED
        BY <2>3, <3>1, <1>5, <1>6, <1>7, <1>8 DEF Change
    <2> QED
      BY <1>4, <2>1, <2>2, <2>3
  <1>14. LogMatchesObjects'
    <2> SUFFICES ASSUME NEW other \in Id, NEW u \in Uri
                 PROVE  (objects'[other][u] # NoRow)
                        <=> (\E ch \in object_changes' :
                               ch.cid = other /\ ch.uri = u /\ ch.type # "deleted")
      BY DEF LogMatchesObjects
    <2>1. CASE other = id /\ u = uri
      BY <2>1, <1>4, <1>7, <1>8, <1>10
    <2>2. CASE ~(other = id /\ u = uri)
      <3>1. \A ch : ch.cid = other /\ ch.uri = u =>
              (ch \in object_changes' <=> ch \in object_changes)
        BY <2>2, <1>4, <1>8 DEF kept
      <3> QED
        BY <2>2, <3>1, <1>10 DEF ChangeLogSound, LogMatchesObjects
    <2> QED
      BY <2>1, <2>2
  <1>15. BirthsDistinct' /\ CtagIsSequence'
    <2>1. \A other \in Live : collections'[other].birth = collections[other].birth
      BY <1>3, LiveRow
    <2>2. BirthsDistinct'
      BY <1>3, <2>1 DEF BirthsDistinct, Transition
    <2>3. CtagIsSequence'
      BY <1>3, LiveRow DEF CtagIsSequence
    <2> QED
      BY <2>2, <2>3
  <1> QED
    BY <1>11, <1>12, <1>13, <1>14, <1>15 DEF ChangeLogSound

(* CreateCollection inserts a collection with an empty log and no members. *)
LEMMA CreateCollectionInv ==
    ASSUME StorageInv, NEW name \in Name, NEW type \in CollectionType,
           CreateCollection(name, type)
    PROVE  /\ StorageInv'
           /\ objects' = objects /\ object_changes' = object_changes
           /\ births' = births + 1
           /\ \A id \in Id :
                \/ collections'[id] = collections[id]
                \/ id \notin Live /\ collections'[id].birth = births + 1
  <1> USE DEF StorageInv
  <1>1. PICK id \in Id :
          /\ NextRowId(id)
          /\ collections' = [collections EXCEPT ![id] =
                 [name |-> name, type |-> type, sync_seq |-> 0,
                  ctag |-> ctagFor(0), birth |-> births']]
    BY DEF CreateCollection
  <1> DEFINE row == [name |-> name, type |-> type, sync_seq |-> 0,
                     ctag |-> ctagFor(0), birth |-> births']
  <1>2. births \in Nat /\ births' = births + 1 /\ births' \in Nat
        /\ objects' = objects /\ object_changes' = object_changes
    BY DEF CreateCollection, StorageTypeOK
  <1>3. row \in Collection /\ row # NoRow
    BY <1>2, StorageAssumption DEF Collection, ctagFor
  <1>4. row.birth = births + 1 /\ row.sync_seq = 0 /\ row.ctag = ctagFor(0)
    BY <1>2
  <1> HIDE DEF row
  <1>5. /\ collections' \in [Id -> Collection \cup {NoRow}]
        /\ collections'[id] = row
        /\ \A other \in Id \ {id} : collections'[other] = collections[other]
    BY <1>1, <1>3 DEF StorageTypeOK, row
  <1>6. id \notin Live
    BY <1>1 DEF NextRowId, Id
  <1>7. Live' = Live \cup {id}
    BY <1>3, <1>5 DEF Live
  <1>8. StorageTypeOK'
    BY <1>2, <1>5 DEF StorageTypeOK
  <1>9. ChangeLogSound'
    BY <1>2, <1>5, <1>6, <1>7, LiveRow
       DEF ChangeLogSound, ChangesBehindSequence, OneChangePerUri, LogMatchesObjects
  <1>10. BirthsDistinct'
    <2>1. \A other \in Live : collections[other].birth \in Nat
      BY LiveRow DEF Collection
    <2> QED
      BY <1>2, <1>4, <1>5, <1>6, <1>7, <2>1, LiveRow DEF BirthsDistinct
  <1>11. CtagIsSequence'
    BY <1>4, <1>5, <1>7, LiveRow DEF CtagIsSequence
  <1> QED
    BY <1>2, <1>4, <1>5, <1>6, <1>8, <1>9, <1>10, <1>11

(* Collections that are deleted take their members and their log along,    *)
(* and leave the others alone.                                             *)
LEMMA DropCollectionsInv ==
    ASSUME StorageInv, NEW ids, DropCollections(ids)
    PROVE  /\ StorageInv'
           /\ Live' = Live \ ids
           /\ births' = births
           /\ \A other \in Id \ ids :
                /\ collections'[other] = collections[other]
                /\ objects'[other] = objects[other]
                /\ \A ch : ch.cid = other =>
                     (ch \in object_changes' <=> ch \in object_changes)
  <1> USE DEF StorageInv
  <1>1. /\ ids \subseteq Live
        /\ collections' = [id \in Id |-> IF id \in ids THEN NoRow ELSE collections[id]]
        /\ objects' = [id \in Id |-> IF id \in ids THEN [u \in Uri |-> NoRow]
                                     ELSE objects[id]]
        /\ object_changes' = {ch \in object_changes : ch.cid \notin ids}
        /\ births' = births
    BY DEF DropCollections
  <1>2. /\ collections' \in [Id -> Collection \cup {NoRow}]
        /\ \A id \in Id \cap ids : collections'[id] = NoRow
        /\ \A other \in Id \ ids : collections'[other] = collections[other]
    BY <1>1 DEF StorageTypeOK
  <1>3. /\ objects' \in [Id -> [Uri -> Object \cup {NoRow}]]
        /\ \A id \in Id \cap ids, u \in Uri : objects'[id][u] = NoRow
        /\ \A other \in Id \ ids : objects'[other] = objects[other]
    BY <1>1 DEF StorageTypeOK
  <1>4. Live' = Live \ ids
    BY <1>2 DEF Live
  <1>5. StorageTypeOK'
    BY <1>1, <1>2, <1>3 DEF StorageTypeOK
  <1>6. ChangesBehindSequence' /\ OneChangePerUri'
    BY <1>1, <1>2, <1>4, LiveRow
       DEF ChangeLogSound, ChangesBehindSequence, OneChangePerUri
  <1>7. LogMatchesObjects'
    <2> SUFFICES ASSUME NEW other \in Id, NEW u \in Uri
                 PROVE  (objects'[other][u] # NoRow)
                        <=> (\E ch \in object_changes' :
                               ch.cid = other /\ ch.uri = u /\ ch.type # "deleted")
      BY DEF LogMatchesObjects
    <2>1. CASE other \in ids
      BY <2>1, <1>1, <1>3
    <2>2. CASE other \notin ids
      BY <2>2, <1>1, <1>3 DEF ChangeLogSound, LogMatchesObjects
    <2> QED
      BY <2>1, <2>2
  <1>8. BirthsDistinct' /\ CtagIsSequence'
    BY <1>1, <1>2, <1>4, LiveRow DEF BirthsDistinct, CtagIsSequence
  <1> QED
    BY <1>1, <1>2, <1>3, <1>4, <1>5, <1>6, <1>7, <1>8 DEF ChangeLogSound

(* A step of the tables inserts a collection, deletes some, makes one      *)
(* transition of one member that really changes it, or does nothing.       *)
LEMMA WriteCases ==
    ASSUME StorageInv, [StorageNext]_storageVars
    PROVE  \/ UNCHANGED storageVars
           \/ \E n \in Name, t \in CollectionType : CreateCollection(n, t)
           \/ \E ids : DropCollections(ids)
           \/ \E id \in Live, uri \in Uri, row \in Object \cup {NoRow},
                 type \in ChangeType :
                /\ row = NoRow <=> type = "deleted"
                /\ row # objects[id][uri]
                /\ NewETag(row) # ETagOf(id, uri)
                /\ Transition(id, uri, row, type)
  <1>1. ASSUME NEW id \in Id, NEW uri \in Uri, NEW raw \in Raw,
               PutObject(id, uri, raw), ~UNCHANGED storageVars
        PROVE  \E row \in Object \cup {NoRow}, type \in ChangeType :
                 /\ id \in Live
                 /\ row = NoRow <=> type = "deleted"
                 /\ row # objects[id][uri]
                 /\ NewETag(row) # ETagOf(id, uri)
                 /\ Transition(id, uri, row, type)
    <2> DEFINE row == [raw |-> raw, etag |-> ETagFor(raw)]
               type == IF objects[id][uri] = NoRow THEN "created" ELSE "updated"
    <2>1. row \in Object /\ row # NoRow /\ row.etag = ETagFor(raw)
      BY StorageAssumption DEF Object, ETag, ETagFor
    <2>2. type \in ChangeType /\ type # "deleted"
      BY DEF ChangeType
    <2>3. /\ id \in Live /\ ETagOf(id, uri) # ETagFor(raw)
          /\ Transition(id, uri, row, type)
      BY <1>1 DEF PutObject, Transition
    <2>4. row # objects[id][uri]
      BY <2>1, <2>3 DEF ETagOf
    <2>5. NewETag(row) # ETagOf(id, uri)
      BY <2>1, <2>3 DEF NewETag
    <2> HIDE DEF row, type
    <2> QED
      BY <2>1, <2>2, <2>3, <2>4, <2>5
  <1>2. ASSUME NEW id \in Id, NEW uri \in Uri, DeleteObject(id, uri)
        PROVE  /\ id \in Live
               /\ NoRow # objects[id][uri]
               /\ NewETag(NoRow) # ETagOf(id, uri)
               /\ Transition(id, uri, NoRow, "deleted")
    <2>1. id \in Live /\ NoRow # objects[id][uri] /\ Transition(id, uri, NoRow, "deleted")
      BY <1>2 DEF DeleteObject, Transition
    <2>2. objects[id][uri].etag \in ETag
      BY <2>1 DEF StorageInv, StorageTypeOK, Object
    <2> QED
      BY <2>1, <2>2, StorageAssumption DEF NewETag, ETagOf
  <1>3. "deleted" \in ChangeType
    BY DEF ChangeType
  <1> QED
    BY <1>1, <1>2, <1>3 DEF StorageNext, DeleteCollection, DeleteUser

(* Every step of the tables keeps the invariant.                           *)
LEMMA StorageStepInv ==
    ASSUME StorageInv, [StorageNext]_storageVars
    PROVE  StorageInv'
  <1>1. CASE UNCHANGED storageVars
    BY <1>1 DEF storageVars, StorageInv, StorageTypeOK, ChangeLogSound,
                ChangesBehindSequence, OneChangePerUri, LogMatchesObjects,
                BirthsDistinct, CtagIsSequence, Live
  <1> QED
    BY <1>1, WriteCases, CreateCollectionInv, DropCollectionsInv, TransitionInv

-----------------------------------------------------------------------------
(* What a write does to a collection that somebody is reading              *)

(* A collection that lives after a step was inserted by that step, or is   *)
(* the same one as before.  Its sequence has not gone back, a change after *)
(* a sequence the reader has seen is still in the log, and a member that   *)
(* is not what it was has one.                                             *)
LEMMA WriteEffect ==
    ASSUME StorageInv, [StorageNext]_storageVars, NEW id \in Live'
    PROVE  \/ collections'[id].birth = births + 1
           \/ /\ id \in Live
              /\ collections'[id].birth = collections[id].birth
              /\ collections[id].sync_seq <= collections'[id].sync_seq
              /\ \A u \in Uri, seq \in Nat : seq <= collections[id].sync_seq =>
                   /\ Pending(id, u, seq) => Pending(id, u, seq)'
                   /\ \/ /\ objects'[id][u] = objects[id][u]
                         /\ ETagOf(id, u)' = ETagOf(id, u)
                      \/ Pending(id, u, seq)'
  <1> StorageTypeOK /\ StorageTypeOK'
    BY StorageStepInv DEF StorageInv
  <1>1. id \in Id /\ collections'[id] \in Collection
    BY StorageAssumption DEF Live, StorageTypeOK
  <1>2. ASSUME collections'[id] = collections[id], objects'[id] = objects[id],
               \A ch : ch.cid = id => (ch \in object_changes' <=> ch \in object_changes)
        PROVE  /\ id \in Live
               /\ collections'[id].birth = collections[id].birth
               /\ collections[id].sync_seq <= collections'[id].sync_seq
               /\ \A u \in Uri, seq \in Nat :
                    /\ Pending(id, u, seq) => Pending(id, u, seq)'
                    /\ objects'[id][u] = objects[id][u]
                    /\ ETagOf(id, u)' = ETagOf(id, u)
    <2>1. id \in Live /\ collections[id].sync_seq \in Nat
      BY <1>1, <1>2 DEF Live, Collection
    <2> QED
      BY <1>2, <2>1 DEF Pending, ETagOf
  <1>3. CASE UNCHANGED storageVars
    BY <1>2, <1>3 DEF storageVars
  <1>4. CASE \E n \in Name, t \in CollectionType : CreateCollection(n, t)
    BY <1>1, <1>2, <1>4, CreateCollectionInv
  <1>5. CASE \E ids : DropCollections(ids)
    BY <1>1, <1>2, <1>5, DropCollectionsInv
  <1>6. ASSUME NEW other \in Live, NEW uri \in Uri, NEW row \in Object \cup {NoRow},
               NEW type \in ChangeType, Transition(other, uri, row, type)
        PROVE  /\ id \in Live
               /\ collections'[id].birth = collections[id].birth
               /\ collections[id].sync_seq <= collections'[id].sync_seq
               /\ \A u \in Uri, seq \in Nat : seq <= collections[id].sync_seq =>
                    /\ Pending(id, u, seq) => Pending(id, u, seq)'
                    /\ \/ /\ objects'[id][u] = objects[id][u]
                          /\ ETagOf(id, u)' = ETagOf(id, u)
                       \/ Pending(id, u, seq)'
    <2> DEFINE next == collections[other].sync_seq + 1
               new == [cid |-> other, seq |-> next, uri |-> uri, type |-> type]
    <2>1. recordChange(other, uri, type) /\ objects' = [objects EXCEPT ![other][uri] = row]
      BY <1>6 DEF Transition
    <2>2. /\ Live' = Live
          /\ id # other => collections'[id] = collections[id]
          /\ collections'[other].sync_seq = next
          /\ collections'[other].birth = collections[other].birth
      BY <1>1, <2>1, RecordedRow
    <2>3. collections[id].sync_seq \in Nat /\ collections[other].sync_seq \in Nat
      BY <2>2, LiveRow DEF Collection
    <2>4. /\ new \in object_changes'
          /\ new.cid = other /\ new.uri = uri /\ new.seq = next
          /\ \A ch \in object_changes :
               ~(ch.cid = other /\ ch.uri = uri) => ch \in object_changes'
      BY <2>1 DEF recordChange
    <2>5. \A u \in Uri : ~(id = other /\ u = uri) => objects'[id][u] = objects[id][u]
      BY <1>1, <2>1 DEF StorageTypeOK
    <2> HIDE DEF next, new
    <2>6. ASSUME NEW u \in Uri, NEW seq \in Nat, seq <= collections[id].sync_seq
          PROVE  /\ Pending(id, u, seq) => Pending(id, u, seq)'
                 /\ \/ /\ objects'[id][u] = objects[id][u]
                       /\ ETagOf(id, u)' = ETagOf(id, u)
                    \/ Pending(id, u, seq)'
      <3>1. CASE id = other /\ u = uri
        <4>1. next > seq
          BY <2>3, <2>6, <3>1 DEF next
        <4> QED
          BY <2>4, <3>1, <4>1 DEF Pending
      <3>2. CASE ~(id = other /\ u = uri)
        BY <2>4, <2>5, <3>2 DEF Pending, ETagOf
      <3> QED
        BY <3>1, <3>2
    <2> QED
      BY <2>2, <2>3, <2>6 DEF next
  <1> QED
    BY <1>3, <1>4, <1>5, <1>6, WriteCases

(* Nobody renumbers collections: births only grow.                         *)
LEMMA BirthsGrow ==
    ASSUME StorageInv, [StorageNext]_storageVars
    PROVE  births \in Nat /\ births' \in Nat /\ births <= births'
  <1>1. births \in Nat
    BY DEF StorageInv, StorageTypeOK
  <1> QED
    BY <1>1 DEF StorageNext, CreateCollection, DeleteCollection, DeleteUser,
                DropCollections, PutObject, DeleteObject, storageVars

-----------------------------------------------------------------------------
(* What no write may do                                                    *)

(* The sequence of a collection moves by one with every change of its      *)
(* members and by nothing else.                                            *)
LEMMA SequenceStep ==
    ASSUME StorageInv, [StorageNext]_storageVars, NEW id \in Id
    PROVE  CountsChanges(id)
  <1> SUFFICES ASSUME SameCollection(id)
               PROVE  /\ collections'[id].sync_seq = IF objects'[id] = objects[id]
                                                     THEN collections[id].sync_seq
                                                     ELSE collections[id].sync_seq + 1
                      /\ collections'[id].ctag = ctagFor(collections'[id].sync_seq)
    BY DEF CountsChanges
  <1>1. /\ id \in Live /\ id \in Live' /\ collections'[id].birth = collections[id].birth
        /\ StorageTypeOK
    BY DEF SameCollection, StorageInv
  <1>2. collections[id].ctag = ctagFor(collections[id].sync_seq)
    BY <1>1 DEF StorageInv, CtagIsSequence
  <1>3. collections[id] \in Collection
    BY <1>1, LiveRow
  <1>4. CASE UNCHANGED storageVars
    BY <1>2, <1>4 DEF storageVars
  <1>5. ASSUME NEW n \in Name, NEW t \in CollectionType, CreateCollection(n, t)
        PROVE  collections'[id] = collections[id] /\ objects' = objects
    BY <1>1, <1>5, CreateCollectionInv
  <1>6. ASSUME NEW ids, DropCollections(ids)
        PROVE  collections'[id] = collections[id] /\ objects'[id] = objects[id]
    BY <1>1, <1>6, DropCollectionsInv
  <1>7. ASSUME NEW other \in Live, NEW uri \in Uri, NEW row \in Object \cup {NoRow},
               NEW type \in ChangeType, row # objects[other][uri],
               Transition(other, uri, row, type)
        PROVE  IF id = other
               THEN /\ objects'[id] # objects[id]
                    /\ collections'[id].sync_seq = collections[id].sync_seq + 1
                    /\ collections'[id].ctag = ctagFor(collections[id].sync_seq + 1)
               ELSE collections'[id] = collections[id] /\ objects'[id] = objects[id]
    <2>1. recordChange(other, uri, type) /\ objects' = [objects EXCEPT ![other][uri] = row]
      BY <1>7 DEF Transition
    <2>2. other \in Id
      BY DEF Live
    <2>3. objects'[other][uri] = row /\ (id # other => objects'[id] = objects[id])
      BY <1>1, <2>1, <2>2 DEF StorageTypeOK
    <2> QED
      BY <1>1, <1>7, <2>1, <2>3, RecordedRow
  <1> QED
    BY <1>2, <1>4, <1>5, <1>6, <1>7, WriteCases

(* No URI leaves the log of a collection, or falls back in it.             *)
LEMMA LogStep ==
    ASSUME StorageInv, [StorageNext]_storageVars, NEW ch \in object_changes
    PROVE  StaysLogged(ch)
  <1> SUFFICES ASSUME SameCollection(ch.cid)
               PROVE  \E new \in object_changes' :
                        new.cid = ch.cid /\ new.uri = ch.uri /\ new.seq >= ch.seq
    BY DEF StaysLogged
  <1>1. /\ ch.cid \in Live /\ ch.cid \in Live' /\ StorageTypeOK
        /\ collections'[ch.cid].birth = collections[ch.cid].birth
        /\ ch.cid \in Id /\ ch.uri \in Uri /\ ch.seq \in Nat
    BY DEF SameCollection, StorageInv, StorageTypeOK, Change
  <1>2. /\ 1 <= ch.seq /\ ch.seq <= collections[ch.cid].sync_seq
        /\ collections[ch.cid] \in Collection /\ collections[ch.cid].sync_seq \in Nat
        /\ collections[ch.cid].birth <= births
        /\ collections[ch.cid].birth \in Nat /\ births \in Nat
    BY <1>1, LiveRow DEF StorageInv, ChangeLogSound, ChangesBehindSequence, BirthsDistinct,
                         Collection, StorageTypeOK
  <1>3. collections'[ch.cid].birth # births + 1
    BY <1>1, <1>2
  <1>4. ch.seq - 1 \in Nat /\ ch.seq - 1 <= collections[ch.cid].sync_seq
        /\ ch.seq > ch.seq - 1
    BY <1>1, <1>2
  <1>5. Pending(ch.cid, ch.uri, ch.seq - 1)
    BY <1>4 DEF Pending
  <1>6. \E new \in object_changes' :
          new.cid = ch.cid /\ new.uri = ch.uri /\ new.seq > ch.seq - 1
    BY <1>1, <1>3, <1>4, <1>5, WriteEffect DEF Pending
  <1>7. object_changes' \subseteq Change
    BY StorageStepInv DEF StorageInv, StorageTypeOK
  <1> QED
    BY <1>1, <1>6, <1>7 DEF Change

=============================================================================
