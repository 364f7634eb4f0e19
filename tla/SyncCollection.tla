--------------------------- MODULE SyncCollection ---------------------------
(***************************************************************************)
(* Synchronisation of a collection: DAV clients that keep a copy of a      *)
(* collection's members and a sync token, against a server that answers    *)
(* while other requests write.                                             *)
(*                                                                         *)
(* A sync-collection REPORT (SyncCollection in internal/dav/caldav.go and  *)
(* carddav.go, collectSync in sync.go, ChangesSince in storage/objects.go) *)
(* is not a transaction.  It is a series of queries: the collection by its *)
(* path, the collection again by its rowid, the change log, then every     *)
(* changed object in turn.  Each query is an action here, and any write    *)
(* may fall between two of them.  A PROPFIND of depth 1 on the collection, *)
(* the other way a client obtains a token and a listing, is two queries.   *)
(*                                                                         *)
(* Requests of other clients and of the admin interface that write are the *)
(* actions of Storage on any rowid: the rowid was read by an earlier query *)
(* of the writing request, so by now it may name any row, or none.         *)
(***************************************************************************)
EXTENDS Storage, FiniteSets

CONSTANTS
    Client,
    PathOf,        \* client |-> [name, type] of the collection it follows
    Limit,         \* the <nresults> clients ask for; 0 is no limit
    NoToken,       \* the empty token of an initial synchronisation
    NotReported    \* no response for this URI in an answer

ASSUME SyncAssumption ==
    /\ PathOf \in [Client -> [name : Name, type : CollectionType]]
    /\ Limit \subseteq Nat
    /\ NotReported \notin ETag \cup {NoRow}

VARIABLES
    client,        \* what each client holds
    request        \* the client's request in progress, as the server sees it

vars == <<storageVars, client, request>>

-----------------------------------------------------------------------------
(* Tokens                                                                  *)

syncTokenPrefix == "urn:edav:sync:"

encodeSyncToken(seq) == [prefix |-> syncTokenPrefix, seq |-> seq]

(* Any text that is not the prefix followed by a number: the token of      *)
(* another server or of an older format.                                   *)
ForeignToken == [prefix |-> "", seq |-> 0]

SyncToken == [prefix : {syncTokenPrefix, ""}, seq : Nat]

ASSUME TokenAssumption == NoToken \notin SyncToken

(* Mutant: the comparison with the current sequence is off by one.         *)
UsableTokenBelow(token, current) ==
    token # NoToken =>
      token.prefix = syncTokenPrefix /\ token.seq < current

(* decodeSyncToken: which tokens it accepts, and what it reads them as.    *)
UsableToken(token, current) ==
    token # NoToken =>
      token.prefix = syncTokenPrefix /\ token.seq <= current

SinceOf(token) == IF token = NoToken THEN 0 ELSE token.seq

-----------------------------------------------------------------------------
(* State                                                                   *)

Mirror == [Uri -> ETag \cup {NoRow}]

EmptyMirror == [u \in Uri |-> NoRow]

(* mirror: the ETag of every member the client has a copy of.  Auxiliary:  *)
(* birth is the collection the copy was built from, 0 if none or several;  *)
(* whole says that no answer the copy was built from was cut by a limit.   *)
ClientState ==
    [token : SyncToken \cup {NoToken}, mirror : Mirror,
     birth : Nat, whole : BOOLEAN]

NewClient ==
    [token |-> NoToken, mirror |-> EmptyMirror, birth |-> 0, whole |-> TRUE]

Phase == {"idle", "lost", "resolved", "sequenced", "listing", "collecting"}

(* phase is the query the server makes next; a request that was lost on    *)
(* the way leaves "lost" behind until the client tries again.  current is  *)
(* the sequence the answer's token will carry.                             *)
(* rows: the changes still to be resolved to objects; out: the responses   *)
(* so far.  Auxiliary: birth is the collection the path resolved to, own   *)
(* says that the client's copy, if it has one, was built from it, whole is *)
(* as for the client.                                                      *)
RequestState ==
    [phase : Phase, cid : Id \cup {0}, since : Nat, current : Nat,
     limit : Nat, rows : SUBSET Change,
     out : [Uri -> ETag \cup {NoRow, NotReported}],
     birth : Nat, own : BOOLEAN, whole : BOOLEAN]

NoRequest ==
    [phase |-> "idle", cid |-> 0, since |-> 0, current |-> 0, limit |-> 0,
     rows |-> {}, out |-> [u \in Uri |-> NotReported],
     birth |-> 0, own |-> FALSE, whole |-> FALSE]

TypeOK ==
    /\ StorageTypeOK
    /\ client \in [Client -> ClientState]
    /\ request \in [Client -> RequestState]

(* A client arrives new, or with a copy and a token from another server.   *)
Init ==
    /\ StorageInit
    /\ client \in [Client -> {NewClient} \cup
         {[token |-> ForeignToken, mirror |-> m, birth |-> 0, whole |-> TRUE] :
            m \in Mirror}]
    /\ request = [k \in Client |-> NoRequest]

-----------------------------------------------------------------------------
(* sync-collection                                                         *)

Idle(k) == request[k].phase \in {"idle", "lost"}

Resolves(k, id) == CollectionOfType(id, PathOf[k].name, PathOf[k].type)

(* SyncCollection up to the token: the path is resolved to a row and the   *)
(* token is decoded against the sequence read in that row.                 *)
StartSync(k, limit) ==
    /\ Idle(k)
    /\ \E id \in Id :
         /\ Resolves(k, id)
         /\ UsableToken(client[k].token, collections[id].sync_seq)
         /\ LET new == client[k].token = NoToken
            IN  request' = [request EXCEPT ![k] =
                  [NoRequest EXCEPT
                     !.phase = "resolved", !.cid = id, !.limit = limit,
                     !.since = SinceOf(client[k].token),
                     !.birth = collections[id].birth,
                     !.own = new \/ client[k].birth = collections[id].birth,
                     !.whole = new \/ client[k].whole]]
    /\ UNCHANGED <<storageVars, client>>

(* An unusable token is answered 403 DAV:valid-sync-token, "which tells    *)
(* the client to discard its state and synchronise from scratch".          *)
RejectToken(k) ==
    /\ Idle(k)
    /\ \E id \in Id :
         /\ Resolves(k, id)
         /\ ~UsableToken(client[k].token, collections[id].sync_seq)
    /\ client' = [client EXCEPT ![k] = NewClient]
    /\ UNCHANGED <<storageVars, request>>

(* A path that names no collection, or one of the other type: 404.         *)
NotFound(k) ==
    /\ Idle(k)
    /\ \A id \in Id : ~Resolves(k, id)
    /\ UNCHANGED vars

(* ChangesSince, first query: CollectionByID.  The sequence the answer's   *)
(* token will carry is the one read here, before the log is.               *)
ReadSequence(k) ==
    /\ request[k].phase = "resolved"
    /\ request[k].cid \in Live
    /\ request' = [request EXCEPT
         ![k].phase = "sequenced",
         ![k].current = collections[request[k].cid].sync_seq]
    /\ UNCHANGED <<storageVars, client>>

(* Mutant: the first change after the token is left out.                   *)
ReadChangesSkipsFirst(k) ==
    /\ request[k].phase = "sequenced"
    /\ request' = [request EXCEPT
         ![k].phase = "collecting",
         ![k].rows = {ch \in object_changes :
                        /\ ch.cid = request[k].cid
                        /\ ch.seq > request[k].since + 1}]
    /\ UNCHANGED <<storageVars, client>>

(* ChangesSince, second query: the rows of the log after the token.        *)
ReadChanges(k) ==
    /\ request[k].phase = "sequenced"
    /\ request' = [request EXCEPT
         ![k].phase = "collecting",
         ![k].rows = {ch \in object_changes :
                        /\ ch.cid = request[k].cid
                        /\ ch.seq > request[k].since}]
    /\ UNCHANGED <<storageVars, client>>

Reported(k) == {u \in Uri : request[k].out[u] # NotReported}

LimitReached(k) ==
    /\ request[k].limit > 0
    /\ Cardinality(Reported(k)) >= request[k].limit

(* Mutant: a change whose object is gone is skipped instead of reported.   *)
CollectChangeSkipsDeleted(k) ==
    /\ request[k].phase = "collecting"
    /\ ~LimitReached(k)
    /\ \E ch \in request[k].rows :
         /\ \A other \in request[k].rows : ch.seq <= other.seq
         /\ LET etag == ETagOf(request[k].cid, ch.uri)
            IN  request' = [request EXCEPT
                  ![k].rows = @ \ {ch},
                  ![k].out[ch.uri] = IF etag = NoRow THEN NotReported ELSE etag]
    /\ UNCHANGED <<storageVars, client>>

(* One iteration of the loop of collectSync: the oldest change not looked  *)
(* at is resolved by ObjectByURI to an updated member, or to a deleted one *)
(* when there is no such object any more, whatever the change's type.      *)
CollectChange(k) ==
    /\ request[k].phase = "collecting"
    /\ ~LimitReached(k)
    /\ \E ch \in request[k].rows :
         /\ \A other \in request[k].rows : ch.seq <= other.seq
         /\ request' = [request EXCEPT
              ![k].rows = @ \ {ch},
              ![k].out[ch.uri] = ETagOf(request[k].cid, ch.uri)]
    /\ UNCHANGED <<storageVars, client>>

-----------------------------------------------------------------------------
(* PROPFIND of depth 1                                                     *)

(* GetCalendar / GetAddressBook: the sync-token property is the sequence   *)
(* of the row the path resolves to.                                        *)
StartPropFind(k) ==
    /\ Idle(k)
    /\ \E id \in Id :
         /\ Resolves(k, id)
         /\ request' = [request EXCEPT ![k] =
              [NoRequest EXCEPT
                 !.phase = "listing", !.cid = id, !.whole = TRUE,
                 !.current = collections[id].sync_seq,
                 !.birth = collections[id].birth]]
    /\ UNCHANGED <<storageVars, client>>

(* ListCalendarObjects / ListAddressObjects resolve the path once more and *)
(* list the members of what they find.                                     *)
ListMembers(k) ==
    /\ request[k].phase = "listing"
    /\ \E id \in Id :
         /\ Resolves(k, id)
         /\ request' = [request EXCEPT
              ![k].phase = "collecting",
              ![k].own = collections[id].birth = request[k].birth,
              ![k].out = [u \in Uri |-> ETagOf(id, u)]]
    /\ UNCHANGED <<storageVars, client>>

-----------------------------------------------------------------------------
(* Answers                                                                 *)

(* Mutant: the token is that of the moment the answer is written.          *)
RespondWithLatestToken(k) ==
    /\ request[k].phase = "collecting"
    /\ request[k].rows = {} \/ LimitReached(k)
    /\ request[k].cid \in Live
    /\ client' = [client EXCEPT ![k] =
         [token  |-> encodeSyncToken(collections[request[k].cid].sync_seq),
          mirror |-> [u \in Uri |-> IF request[k].out[u] = NotReported
                                    THEN client[k].mirror[u]
                                    ELSE request[k].out[u]],
          birth  |-> IF request[k].own THEN request[k].birth ELSE 0,
          whole  |-> request[k].whole /\ request[k].rows = {}]]
    /\ request' = [request EXCEPT ![k] = NoRequest]
    /\ UNCHANGED storageVars

(* Mutant: the changes are taken for the whole collection.                 *)
RespondReplacesCopy(k) ==
    /\ request[k].phase = "collecting"
    /\ request[k].rows = {} \/ LimitReached(k)
    /\ client' = [client EXCEPT ![k] =
         [token  |-> encodeSyncToken(request[k].current),
          mirror |-> request[k].out,
          birth  |-> IF request[k].own THEN request[k].birth ELSE 0,
          whole  |-> request[k].whole /\ request[k].rows = {}]]
    /\ request' = [request EXCEPT ![k] = NoRequest]
    /\ UNCHANGED storageVars

(* The client applies the answer: it takes the reported members, drops the *)
(* deleted ones and keeps the new token.                                   *)
Respond(k) ==
    /\ request[k].phase = "collecting"
    /\ request[k].rows = {} \/ LimitReached(k)
    /\ client' = [client EXCEPT ![k] =
         [token  |-> encodeSyncToken(request[k].current),
          mirror |-> [u \in Uri |-> IF request[k].out[u] = NotReported
                                    THEN client[k].mirror[u]
                                    ELSE request[k].out[u]],
          birth  |-> IF request[k].own THEN request[k].birth ELSE 0,
          whole  |-> request[k].whole /\ request[k].rows = {}]]
    /\ request' = [request EXCEPT ![k] = NoRequest]
    /\ UNCHANGED storageVars

(* A query of the request no longer finds the collection (ErrNotFound), so *)
(* the request ends in an error and the client keeps what it had.          *)
CollectionGone(k) ==
    /\ \/ request[k].phase = "resolved" /\ request[k].cid \notin Live
       \/ request[k].phase = "listing" /\ \A id \in Id : ~Resolves(k, id)
    /\ request' = [request EXCEPT ![k] = NoRequest]
    /\ UNCHANGED <<storageVars, client>>

(* The request or its answer is lost: a query fails, the client hangs up,  *)
(* the connection or the server goes down.  Nothing of it is persistent.   *)
Abandon(k) ==
    /\ ~Idle(k)
    /\ request' = [request EXCEPT ![k] = [NoRequest EXCEPT !.phase = "lost"]]
    /\ UNCHANGED <<storageVars, client>>

-----------------------------------------------------------------------------

Write == StorageNext /\ UNCHANGED <<client, request>>

Serve(k) ==
    \/ ReadSequence(k)
    \/ ReadChanges(k)
    \/ CollectChange(k)
    \/ ListMembers(k)
    \/ Respond(k)
    \/ CollectionGone(k)

Next ==
    \/ Write
    \/ \E k \in Client :
         \/ \E limit \in Limit : StartSync(k, limit)
         \/ RejectToken(k)
         \/ NotFound(k)
         \/ StartPropFind(k)
         \/ Serve(k)
         \/ Abandon(k)

Spec == Init /\ [][Next]_vars

(* The server works on a request it has accepted, and the client polls.    *)
(* From some point on no request is lost: where every answer is, nothing   *)
(* arrives.                                                                *)
Fairness ==
    /\ \A k \in Client :
         /\ WF_vars(Serve(k))
         /\ WF_vars(RejectToken(k))
         /\ WF_vars(\E limit \in Limit : StartSync(k, limit))
         /\ <>[](request[k].phase # "lost")

FairSpec == Spec /\ Fairness

-----------------------------------------------------------------------------
(* Properties                                                              *)

(* The copy of client k was built from the collection that has rowid id.   *)
Follows(k, id) == id \in Live /\ client[k].birth = collections[id].birth

CopyIsCovered(k, id) ==
    \A u \in Uri :
      \/ client[k].mirror[u] = ETagOf(id, u)
      \/ Pending(id, u, SinceOf(client[k].token))

(* No change is lost, whatever is written between the queries of a report: *)
(* wherever a client's copy differs from the collection it was built from, *)
(* the change log still holds a change after the client's token.  So the   *)
(* order of the two queries of ChangesSince, the read of each object after *)
(* the log, and the one row kept per URI are all harmless.  Clients whose  *)
(* answer was cut by a limit are left out: see LimitLosesNothing.          *)
NoLostChange ==
    \A k \in Client, id \in Id :
      Follows(k, id) /\ client[k].whole => CopyIsCovered(k, id)

(* A client whose token is the collection's current one, which is all that *)
(* a client polling the sync-token property compares, holds exactly the    *)
(* members of the collection: no missing, stale or deleted ones.           *)
CurrentTokenMeansEqualCopy ==
    \A k \in Client, id \in Id :
      (/\ Follows(k, id)
       /\ client[k].whole
       /\ client[k].token = encodeSyncToken(collections[id].sync_seq))
      => client[k].mirror = [u \in Uri |-> ETagOf(id, u)]

(* decodeSyncToken never turns away a token this collection has issued, so *)
(* no client is sent into a needless synchronisation from scratch.         *)
IssuedTokenStaysUsable ==
    \A k \in Client, id \in Id :
      Follows(k, id) => UsableToken(client[k].token, collections[id].sync_seq)

(* The copy of k comes from one collection, or from none of this server,   *)
(* and no limit has cut it.  A client whose collection was deleted and     *)
(* made again may mix the two: nothing in a token names its collection     *)
(* (decodeSyncToken).                                                      *)
Unmixed(k) ==
    client[k].token # NoToken =>
      /\ client[k].whole
      /\ client[k].token.prefix = syncTokenPrefix => client[k].birth # 0

(* Once nothing is written any more, every client that keeps asking ends   *)
(* up with exactly the members of its collection, and stays there, be it   *)
(* after lost answers, after a token of another server was rejected, or    *)
(* after its collection was made anew.  The copies that a limit has cut or *)
(* that mix two collections are left out.                                  *)
Converges ==
    \A k \in Client :
      <>[](\A id \in Id : Resolves(k, id) /\ Unmixed(k) =>
             client[k].mirror = [u \in Uri |-> ETagOf(id, u)])

(* "SyncCollection answers a sync-collection REPORT with everything that   *)
(* changed after the client's token" (caldav.go, carddav.go): NoLostChange *)
(* for the clients that set a limit too.                                   *)
LimitLosesNothing ==
    \A k \in Client, id \in Id : Follows(k, id) => CopyIsCovered(k, id)
=============================================================================
