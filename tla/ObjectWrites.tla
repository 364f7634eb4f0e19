---------------------------- MODULE ObjectWrites ----------------------------
(***************************************************************************)
(* Requests that write: PUT and DELETE of a DAV client (caldav.go and      *)
(* carddav.go, which are twins), MKCOL, and the forms of the admin         *)
(* interface that create, edit and delete an object or a collection.       *)
(*                                                                         *)
(* A request reads first and writes later: it resolves its path to a rowid *)
(* in one query, reads the object it is about in another, and only the     *)
(* write itself is a transaction.  After the commit, PutObject reads the   *)
(* row once more for the answer.  Each of these is an action of its own.   *)
(***************************************************************************)
EXTENDS Storage

CONSTANTS
    Writer,        \* requests in progress at the same time
    Shown,         \* what the admin form shows of an object
    Hidden,        \* what it does not show: alarms, attendees, photos...
    NoCondition,   \* neither If-Match nor If-None-Match
    IfNoneMatch,   \* If-None-Match is set
    IfMatchAny     \* If-Match: *; an ETag stands for If-Match with that ETag

ASSUME WritesAssumption ==
    /\ Raw = [shown : Shown, hidden : Hidden]
    /\ NoCondition \notin ETag
    /\ IfNoneMatch \notin ETag \cup {NoCondition}
    /\ IfMatchAny \notin ETag \cup {NoCondition, IfNoneMatch}

VARIABLES
    write          \* the request each writer is working on

vars == <<storageVars, write>>

-----------------------------------------------------------------------------

Condition == ETag \cup {NoCondition, IfNoneMatch, IfMatchAny}

Operation == {"put", "edit", "delete", "drop"}

Phase == {"idle", "resolved", "ready", "stored", "answered"}

(* raw is the body of a PUT, the form of an edit and then the bytes to be  *)
(* stored; answer is the ETag of the response.  Auxiliary: birth is the    *)
(* collection the path resolved to, seen the sequence of the collection    *)
(* when the request last read or wrote its object.                         *)
WriteState ==
    [phase : Phase, op : Operation, cid : Id, uri : Uri, raw : Raw,
     cond : Condition, answer : ETag \cup {NoRow}, birth : Nat, seen : Nat]

NoWrite == [phase |-> "idle"]

TypeOK ==
    /\ StorageTypeOK
    /\ write \in [Writer -> WriteState \cup {NoWrite}]

Init ==
    /\ StorageInit
    /\ write = [w \in Writer |-> NoWrite]

Free(w) == write[w].phase \in {"idle", "answered"}

Done(w) == write' = [write EXCEPT ![w] = NoWrite]

-----------------------------------------------------------------------------
(* The queries before the write                                            *)

(* The path of a DAV request, or the rowid in the path of the admin        *)
(* interface, is resolved to a row of the right type.                      *)
Resolve(w, op, id, uri, raw, cond) ==
    /\ Free(w)
    /\ id \in Live
    /\ write' = [write EXCEPT ![w] =
         [phase |-> "resolved", op |-> op, cid |-> id, uri |-> uri, raw |-> raw,
          cond |-> cond, answer |-> NoRow,
          birth |-> collections[id].birth, seen |-> 0]]
    /\ UNCHANGED storageVars

(* A path that names nothing: 404.                                         *)
NotFound(w) ==
    /\ Free(w)
    /\ Live # Id
    /\ Done(w)
    /\ UNCHANGED storageVars

(* checkCalendarPreconditions, checkPreconditions.                         *)
PreconditionHolds(cond, row) ==
    CASE cond = NoCondition -> TRUE
      [] cond = IfNoneMatch -> row = NoRow
      [] cond = IfMatchAny  -> row # NoRow
      [] OTHER              -> row # NoRow /\ row.etag = cond

(* Mutant: If-None-Match is forgotten.                                     *)
CheckPreconditionsIfMatchOnly(w) ==
    LET row == objects[write[w].cid][write[w].uri]
    IN  /\ write[w].phase = "resolved" /\ write[w].op = "put"
        /\ \/ /\ write[w].cond = IfNoneMatch \/ PreconditionHolds(write[w].cond, row)
              /\ write' = [write EXCEPT ![w].phase = "ready",
                                        ![w].seen = VersionOf(write[w].cid)]
           \/ /\ write[w].cond # IfNoneMatch /\ ~PreconditionHolds(write[w].cond, row)
              /\ Done(w)
        /\ UNCHANGED storageVars

(* PutCalendarObject, PutAddressObject: the object is looked up and the    *)
(* preconditions are checked, outside any transaction.                     *)
CheckPreconditions(w) ==
    LET row == objects[write[w].cid][write[w].uri]
    IN  /\ write[w].phase = "resolved" /\ write[w].op = "put"
        /\ \/ /\ PreconditionHolds(write[w].cond, row)
              /\ write' = [write EXCEPT ![w].phase = "ready",
                                        ![w].seen = VersionOf(write[w].cid)]
           \/ /\ ~PreconditionHolds(write[w].cond, row)
              /\ Done(w)
        /\ UNCHANGED storageVars

(* Mutant: only what the form shows is kept.                               *)
ApplyShownOnly(raw, form) == form.shown

(* vcard.Apply, ical.Apply: the fields of the form are set in the stored   *)
(* bytes, "so everything the form does not show survives".                 *)
Apply(raw, form) == [raw EXCEPT !.shown = form.shown]

(* updateContact, updateEvent: the object is read and edited in memory.    *)
ReadForEdit(w) ==
    LET row == objects[write[w].cid][write[w].uri]
    IN  /\ write[w].phase = "resolved" /\ write[w].op = "edit"
        /\ \/ /\ row # NoRow
              /\ write' = [write EXCEPT ![w].phase = "ready",
                                        ![w].seen = VersionOf(write[w].cid),
                                        ![w].raw = Apply(row.raw, write[w].raw)]
           \/ row = NoRow /\ Done(w)
        /\ UNCHANGED storageVars

-----------------------------------------------------------------------------
(* The write, and the query after it                                       *)

(* Mutant: a row that exists is left as it is.                             *)
StoreInsertsOnly(w) ==
    /\ write[w].phase = "ready"
    /\ write[w].cid \in Live
    /\ IF objects[write[w].cid][write[w].uri] = NoRow
       THEN PutObject(write[w].cid, write[w].uri, write[w].raw)
       ELSE UNCHANGED storageVars
    /\ write' = [write EXCEPT ![w].phase = "stored",
                              ![w].seen = collections'[write[w].cid].sync_seq]

(* PutObject up to its commit.                                             *)
Store(w) ==
    /\ write[w].phase = "ready"
    /\ PutObject(write[w].cid, write[w].uri, write[w].raw)
    /\ write' = [write EXCEPT ![w].phase = "stored",
                              ![w].seen = collections'[write[w].cid].sync_seq]

(* PutObject after the commit: the answer is what ObjectByURI finds now.   *)
Answer(w) ==
    LET etag == ETagOf(write[w].cid, write[w].uri)
    IN  /\ write[w].phase = "stored"
        /\ \/ /\ etag # NoRow
              /\ write' = [write EXCEPT ![w].phase = "answered", ![w].answer = etag]
           \/ etag = NoRow /\ Done(w)
        /\ UNCHANGED storageVars

(* DeleteCalendarObject, DeleteAddressObject, deleteContact, deleteEvent.  *)
Delete(w) ==
    /\ write[w].phase = "resolved" /\ write[w].op = "delete"
    /\ DeleteObject(write[w].cid, write[w].uri)
    /\ Done(w)

(* DELETE of a collection, deleteCollection.                               *)
Drop(w) ==
    /\ write[w].phase = "resolved" /\ write[w].op = "drop"
    /\ DeleteCollection(write[w].cid)
    /\ Done(w)

(* The row is gone when the statement runs: a foreign key fails, or no row *)
(* is affected, the transaction rolls back and the request is an error.    *)
Fail(w) ==
    /\ \/ write[w].phase = "ready" /\ write[w].cid \notin Live
       \/ /\ write[w].phase = "resolved" /\ write[w].op \in {"delete", "drop"}
          /\ \/ write[w].cid \notin Live
             \/ write[w].op = "delete" /\ objects[write[w].cid][write[w].uri] = NoRow
    /\ Done(w)
    /\ UNCHANGED storageVars

(* Between two queries the request is cancelled, its body or form turns    *)
(* out to be invalid, a query fails, or the server goes down.              *)
Cancel(w) ==
    /\ write[w].phase \in {"resolved", "ready", "stored"}
    /\ Done(w)
    /\ UNCHANGED storageVars

-----------------------------------------------------------------------------

Work(w) ==
    \/ CheckPreconditions(w)
    \/ ReadForEdit(w)
    \/ Store(w)
    \/ Answer(w)
    \/ Delete(w)
    \/ Drop(w)
    \/ Fail(w)

(* MKCOL and createCollection are a single INSERT.  Collections also go    *)
(* when their owner's account is deleted.                                  *)
Next ==
    \/ /\ \E n \in Name, t \in CollectionType : CreateCollection(n, t)
       /\ UNCHANGED write
    \/ /\ \E names \in SUBSET Name : DeleteUser(names)
       /\ UNCHANGED write
    \/ \E w \in Writer :
         \/ \E op \in Operation, id \in Id, u \in Uri, raw \in Raw, c \in Condition :
              /\ op # "put" => c = NoCondition
              /\ Resolve(w, op, id, u, raw, c)
         \/ NotFound(w)
         \/ Work(w)
         \/ Cancel(w)

Spec == Init /\ [][Next]_vars

-----------------------------------------------------------------------------
(* Properties                                                              *)

(* The transaction of w commits, and really changes a row.                 *)
Commits(w) ==
    /\ write[w].phase = "ready"
    /\ write'[w].phase = "stored"
    /\ objects' # objects

CommitsAsConditioned ==
    \A w \in Writer : Commits(w) =>
      PreconditionHolds(write[w].cond, objects[write[w].cid][write[w].uri])

(* "IfNoneMatch indicates that the client does not want to overwrite an    *)
(* existing resource.  IfMatch provides the ETag of the resource that the  *)
(* client intends to overwrite" (caldav/server.go): the condition of a PUT *)
(* holds of the row its transaction replaces.                              *)
ConditionHeldAtCommit == [][CommitsAsConditioned]_vars

(* Since w last read or wrote its object, the object was changed again, or *)
(* the collection its path named is gone.                                  *)
Overtaken(w) ==
    \/ write[w].cid \notin Live
    \/ collections[write[w].cid].birth # write[w].birth
    \/ Pending(write[w].cid, write[w].uri, write[w].seen)

RowAsRead(w) ==
    LET row == objects[write[w].cid][write[w].uri]
    IN  /\ PreconditionHolds(write[w].cond, row)
        /\ write[w].op = "edit" =>
             row # NoRow /\ row.raw.hidden = write[w].raw.hidden

(* What a request decided on the row it read, the condition of a PUT or    *)
(* "everything the form does not show survives" of an edit                 *)
(* (admin/contacts.go), still holds of the row its transaction is about to *)
(* replace, unless the change log shows that the row was changed in the    *)
(* meantime: however many requests interleave, a write only ever loses     *)
(* another that fell between its own read and its commit.                  *)
OnlyOvertakenReadsAreStale ==
    \A w \in Writer :
      write[w].phase = "ready" => Overtaken(w) \/ RowAsRead(w)

(* "ETagFor derives an object's ETag from its stored bytes, so that the    *)
(* ETag changes if and only if those bytes change" (objects.go): PutObject *)
(* reads the row again after its commit, so a request may be answered the  *)
(* ETag of bytes it never sent, but only if the change log holds a change  *)
(* of the object after its own, which its client's next synchronisation    *)
(* then reports.                                                           *)
AnswerNamesBytes ==
    \A w \in Writer :
      write[w].phase = "answered" =>
        write[w].answer = ETagFor(write[w].raw) \/ Overtaken(w)
=============================================================================
