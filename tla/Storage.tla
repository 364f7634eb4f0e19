------------------------------ MODULE Storage ------------------------------
(***************************************************************************)
(* The tables of the SQLite database that hold collections and their       *)
(* members (internal/storage/collections.go, objects.go and the schema in  *)
(* migrations/), and the operations that write them.                       *)
(*                                                                         *)
(* The database is opened with _txlock=immediate, so a transaction is one  *)
(* atomic step: PutObject and DeleteObject, which read, write and record   *)
(* the change inside one transaction, are one action each, and so is every *)
(* single INSERT or DELETE statement with its ON DELETE CASCADE.  What     *)
(* happens between two statements of one request is left to the modules    *)
(* that EXTEND this one.                                                   *)
(***************************************************************************)
EXTENDS Naturals

CONSTANTS
    Name,            \* (owner_id, uri) pairs: what a request path names
    CollectionType,  \* the values of collections.type
    Uri,             \* objects.uri
    Raw,             \* payloads a client may store
    NoRow,           \* the answer of a lookup that matches no row
    MaxId,           \* bound on rowids of collections
    MaxSeq,          \* bound on sync_seq
    MaxBirths        \* bound on how many collections are ever inserted

VARIABLES
    collections,     \* rowid |-> row of table collections, or NoRow
    objects,         \* rowid |-> (uri |-> row of table objects, or NoRow)
    object_changes,  \* the rows of table object_changes
    births           \* auxiliary: how many collections were ever inserted

storageVars == <<collections, objects, object_changes, births>>

-----------------------------------------------------------------------------

Id == 1..MaxId

ChangeType == {"created", "updated", "deleted"}

(* The digest of a payload: two payloads have the same ETag only if they   *)
(* are the same bytes (SHA-256 is taken to be free of collisions).         *)
ETagFor(raw) == [sha256 |-> raw]

ETag == [sha256 : Raw]

(* The decimal text of a sequence number.                                  *)
ctagFor(seq) == [text |-> seq]

(* birth is auxiliary: it numbers the insertions, so it tells a collection *)
(* from a later one that was given the same rowid or the same name.        *)
Collection ==
    [name : Name, type : CollectionType, sync_seq : Nat,
     ctag : [text : Nat], birth : Nat]

Object == [raw : Raw, etag : ETag]

Change == [cid : Id, seq : Nat, uri : Uri, type : ChangeType]

ASSUME StorageAssumption ==
    /\ MaxId \in Nat
    /\ MaxSeq \in Nat
    /\ MaxBirths \in Nat
    /\ NoRow \notin Object
    /\ NoRow \notin ETag
    /\ NoRow \notin Collection

StorageTypeOK ==
    /\ collections \in [Id -> Collection \cup {NoRow}]
    /\ objects \in [Id -> [Uri -> Object \cup {NoRow}]]
    /\ object_changes \subseteq Change
    /\ births \in Nat

StorageInit ==
    /\ collections = [id \in Id |-> NoRow]
    /\ objects = [id \in Id |-> [u \in Uri |-> NoRow]]
    /\ object_changes = {}
    /\ births = 0

-----------------------------------------------------------------------------
(* Queries                                                                 *)

Live == {id \in Id : collections[id] # NoRow}

(* CollectionByURI: the row a path resolves to, with the check of its type *)
(* that every DAV handler makes next.                                      *)
CollectionOfType(id, name, type) ==
    /\ id \in Live
    /\ collections[id].name = name
    /\ collections[id].type = type

(* ObjectByURI, reduced to the ETag of the row it finds.                   *)
ETagOf(id, uri) ==
    IF objects[id][uri] = NoRow THEN NoRow ELSE objects[id][uri].etag

(* The version of a collection, 0 where there is none.                     *)
VersionOf(id) == IF id \in Live THEN collections[id].sync_seq ELSE 0

(* ChangesSince(id, seq) names uri.                                        *)
Pending(id, uri, seq) ==
    \E ch \in object_changes : ch.cid = id /\ ch.uri = uri /\ ch.seq > seq

(* The rowid SQLite gives a row inserted into a table whose key is         *)
(* INTEGER PRIMARY KEY without AUTOINCREMENT: one more than the largest in *)
(* use.  The rowid of a deleted row is used again.                         *)
NextRowId(id) ==
    /\ \A other \in Live : other < id
    /\ id = 1 \/ (id - 1) \in Live

-----------------------------------------------------------------------------
(* Writes                                                                  *)

(* CreateCollection.  A name that is taken violates the unique index and   *)
(* the INSERT has no effect.                                               *)
CreateCollection(name, type) ==
    /\ births < MaxBirths
    /\ \A id \in Live : collections[id].name # name
    /\ births' = births + 1
    /\ \E id \in Id :
         /\ NextRowId(id)
         /\ collections' =
              [collections EXCEPT ![id] =
                 [name |-> name, type |-> type, sync_seq |-> 0,
                  ctag |-> ctagFor(0), birth |-> births']]
    /\ UNCHANGED <<objects, object_changes>>

(* Rows of collections go, with the rows ON DELETE CASCADE takes along.    *)
DropCollections(ids) ==
    /\ ids # {}
    /\ ids \subseteq Live
    /\ collections' = [id \in Id |-> IF id \in ids THEN NoRow ELSE collections[id]]
    /\ objects' = [id \in Id |-> IF id \in ids THEN [u \in Uri |-> NoRow]
                                 ELSE objects[id]]
    /\ object_changes' = {ch \in object_changes : ch.cid \notin ids}
    /\ UNCHANGED births

DeleteCollection(id) == DropCollections({id})

(* DeleteUser, as far as it concerns these tables: the collections of an   *)
(* owner, which has the given names, go in one statement.                  *)
DeleteUser(names) ==
    DropCollections({id \in Live : collections[id].name \in names})

(* Mutant: the DELETE of the row the URI had in the log is forgotten.      *)
recordChangeKeepsOldRow(id, uri, type) ==
    LET seq == collections[id].sync_seq + 1
    IN  /\ collections' = [collections EXCEPT
             ![id].sync_seq = seq, ![id].ctag = ctagFor(seq)]
        /\ object_changes' = object_changes
             \cup {[cid |-> id, seq |-> seq, uri |-> uri, type |-> type]}

(* Mutant: that DELETE lacks its collection_id = ?.                        *)
recordChangePrunesAll(id, uri, type) ==
    LET seq == collections[id].sync_seq + 1
    IN  /\ collections' = [collections EXCEPT
             ![id].sync_seq = seq, ![id].ctag = ctagFor(seq)]
        /\ object_changes' = {ch \in object_changes : ch.uri # uri}
             \cup {[cid |-> id, seq |-> seq, uri |-> uri, type |-> type]}

(* recordChange advances the sequence of the collection and replaces the   *)
(* row of the URI in the change log.                                       *)
recordChange(id, uri, type) ==
    LET seq == collections[id].sync_seq + 1
    IN  /\ collections' = [collections EXCEPT
             ![id].sync_seq = seq, ![id].ctag = ctagFor(seq)]
        /\ object_changes' =
             {ch \in object_changes : ~(ch.cid = id /\ ch.uri = uri)}
             \cup {[cid |-> id, seq |-> seq, uri |-> uri, type |-> type]}

(* Mutant: identical bytes are written and recorded like any others.       *)
PutObjectAlwaysRecords(id, uri, raw) ==
    /\ id \in Live
    /\ collections[id].sync_seq < MaxSeq
    /\ objects' = [objects EXCEPT ![id][uri] = [raw |-> raw, etag |-> ETagFor(raw)]]
    /\ recordChange(id, uri,
         IF objects[id][uri] = NoRow THEN "created" ELSE "updated")
    /\ UNCHANGED births

(* PutObject on a collection that exists.  Without the row of collections  *)
(* the INSERT violates the foreign key and the transaction rolls back.     *)
(* The same bytes again commit nothing: the first disjunct.                *)
PutObject(id, uri, raw) ==
    /\ id \in Live
    /\ \/ /\ ETagOf(id, uri) = ETagFor(raw)
          /\ UNCHANGED storageVars
       \/ /\ ETagOf(id, uri) # ETagFor(raw)
          /\ collections[id].sync_seq < MaxSeq
          /\ objects' = [objects EXCEPT ![id][uri] =
                           [raw |-> raw, etag |-> ETagFor(raw)]]
          /\ recordChange(id, uri,
               IF objects[id][uri] = NoRow THEN "created" ELSE "updated")
          /\ UNCHANGED births

(* DeleteObject.  Deleting what is not there rolls back (ErrNotFound).     *)
DeleteObject(id, uri) ==
    /\ id \in Live
    /\ objects[id][uri] # NoRow
    /\ collections[id].sync_seq < MaxSeq
    /\ objects' = [objects EXCEPT ![id][uri] = NoRow]
    /\ recordChange(id, uri, "deleted")
    /\ UNCHANGED births

StorageNext ==
    \/ \E n \in Name, t \in CollectionType : CreateCollection(n, t)
    \/ \E id \in Id : DeleteCollection(id)
    \/ \E names \in SUBSET Name : DeleteUser(names)
    \/ \E id \in Id, u \in Uri, raw \in Raw : PutObject(id, u, raw)
    \/ \E id \in Id, u \in Uri : DeleteObject(id, u)

-----------------------------------------------------------------------------
(* Properties                                                              *)

(* What recordChange has to keep true of the change log.                   *)

(* A change belongs to a collection and never lies ahead of its sequence.  *)
ChangesBehindSequence ==
    \A ch \in object_changes :
      /\ ch.cid \in Live
      /\ 1 <= ch.seq
      /\ ch.seq <= collections[ch.cid].sync_seq

(* "The log holds one row per URI", and the sequence orders the rows.      *)
OneChangePerUri ==
    \A a, b \in object_changes :
      a.cid = b.cid /\ (a.uri = b.uri \/ a.seq = b.seq) => a = b

(* The row of a URI tells whether the object exists: a live object is in   *)
(* the log as created or updated, so an initial synchronisation finds it,  *)
(* and a deletion is what is recorded last of an object that is gone.      *)
LogMatchesObjects ==
    \A id \in Id, u \in Uri :
      (objects[id][u] # NoRow)
      <=> (\E ch \in object_changes :
             ch.cid = id /\ ch.uri = u /\ ch.type # "deleted")

(* The change log is a faithful index of the members of every collection.  *)
ChangeLogSound == ChangesBehindSequence /\ OneChangePerUri /\ LogMatchesObjects

SameCollection(id) ==
    /\ id \in Live
    /\ id \in Live'
    /\ collections'[id].birth = collections[id].birth

CountsChanges(id) ==
    SameCollection(id) =>
      /\ collections'[id].sync_seq = IF objects'[id] = objects[id]
                                     THEN collections[id].sync_seq
                                     ELSE collections[id].sync_seq + 1
      /\ collections'[id].ctag = ctagFor(collections'[id].sync_seq)

(* The sequence and the ctag of a collection move by one with every change *)
(* of its members and by nothing else: "clients are not sent looking for a *)
(* change that did not happen" (PutObject).                                *)
SequenceCountsChanges == [][\A id \in Id : CountsChanges(id)]_storageVars

StaysLogged(ch) ==
    SameCollection(ch.cid) =>
      \E new \in object_changes' :
        new.cid = ch.cid /\ new.uri = ch.uri /\ new.seq >= ch.seq

(* "Rows are never dropped" (ChangesSince): as long as a collection lives, *)
(* a URI that is in its log stays in it and only moves forward, or a       *)
(* client with an old token would keep an object the server no longer has. *)
LogNeverForgets == [][\A ch \in object_changes : StaysLogged(ch)]_storageVars

-----------------------------------------------------------------------------
(* The promise                                                             *)

SeqsOf(id, uri) ==
    {ch.seq : ch \in {c \in object_changes : c.cid = id /\ c.uri = uri}}

(* Where the log keeps the version of the last change of a URI.            *)
StampOf(id, uri) ==
    IF SeqsOf(id, uri) = {} THEN 0
    ELSE CHOOSE s \in SeqsOf(id, uri) : \A t \in SeqsOf(id, uri) : t <= s

History ==
    INSTANCE ChangeHistory WITH
      Place   <- Id,
      Content <- ETag,
      Absent  <- NoRow,
      exists  <- Live,
      version <- [id \in Id |-> VersionOf(id)],
      members <- [id \in Id |-> [u \in Uri |-> ETagOf(id, u)]],
      stamp   <- [id \in Id |-> [u \in Uri |-> StampOf(id, u)]]

(* The tables implement ChangeHistory: with one row per URI, replaced by   *)
(* every change and kept when the object is deleted, ChangesSince answers  *)
(* for every token what a complete history of the collection would, also   *)
(* when a rowid is given to another collection.                            *)
ImplementsHistory == History!Spec
=============================================================================
