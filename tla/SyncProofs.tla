----------------------------- MODULE SyncProofs -----------------------------
(***************************************************************************)
(* Proofs about SyncCollection, for any number of clients, names, members, *)
(* payloads and limits.                                                    *)
(*                                                                         *)
(* NoLostChange is not inductive: it says nothing of a request in          *)
(* progress, whose answer replaces the client's copy and token.  IInv adds *)
(* that a request never knows less than its answer will claim, phase by    *)
(* phase (RequestInv), and that the change log is sound (StorageInv).  One *)
(* lemma per action shows that it keeps IInv; Write is the hard one, since *)
(* it moves the tables under every request at once.                        *)
(*                                                                         *)
(* The last part shows that the tables implement ChangeHistory: they start *)
(* as an empty history, and every write is one step of it, or none.        *)
(***************************************************************************)
EXTENDS SyncCollection, StorageProofs

-----------------------------------------------------------------------------
(* The inductive invariant                                                 *)

(* The collection that a request resolved its path to still exists, and    *)
(* has rowid id.                                                           *)
Reads(k, id) == id \in Live /\ request[k].birth = collections[id].birth

(* What client k would hold of u if it were answered now.                  *)
Answer(k, u) ==
    IF request[k].out[u] = NotReported
    THEN client[k].mirror[u]
    ELSE request[k].out[u]

(* A client's token is a position the log of its collection has reached,   *)
(* and what its copy lacks lies after it.                                  *)
ClientInv(k) ==
    /\ client[k].birth <= births
    /\ client[k].token = NoToken =>
         client[k].mirror = EmptyMirror /\ client[k].birth = 0
    /\ client[k].birth # 0 => client[k].token.prefix = syncTokenPrefix
    /\ \A id \in Id : Follows(k, id) =>
         /\ SinceOf(client[k].token) <= collections[id].sync_seq
         /\ client[k].whole => CopyIsCovered(k, id)

(* A request never carries a sequence the collection has not reached, and  *)
(* what its answer will not mend is still to be found in the log: after    *)
(* the client's token until the log is read, after the new token then.     *)
RequestInv(k) ==
    /\ request[k].birth <= births
    /\ \A id \in Id : Reads(k, id) =>
         /\ request[k].cid = id
         /\ request[k].phase \in {"resolved", "sequenced"} =>
              request[k].since <= collections[id].sync_seq
         /\ request[k].phase \in {"sequenced", "listing", "collecting"} =>
              request[k].current <= collections[id].sync_seq
         /\ (request[k].own /\ request[k].whole) =>
              \A u \in Uri :
                /\ request[k].phase \in {"resolved", "sequenced"} =>
                     \/ client[k].mirror[u] = ETagOf(id, u)
                     \/ Pending(id, u, request[k].since)
                /\ request[k].phase = "collecting" =>
                     \/ Answer(k, u) = ETagOf(id, u)
                     \/ Pending(id, u, request[k].current)
                     \/ \E ch \in request[k].rows : ch.uri = u

(* A request that was made has a rowid; nothing is reported before the log *)
(* is read.                                                                *)
RequestShape(k) ==
    /\ ~Idle(k) => request[k].cid \in Id
    /\ request[k].phase \in {"resolved", "sequenced"} =>
         request[k].out = [u \in Uri |-> NotReported]

IInv ==
    /\ TypeOK
    /\ StorageInv
    /\ \A k \in Client : ClientInv(k) /\ RequestInv(k) /\ RequestShape(k)

-----------------------------------------------------------------------------
(* Frames                                                                  *)

(* What holds of a client depends on the tables and on that client only.   *)
LEMMA ClientFrame ==
    ASSUME NEW k \in Client, ClientInv(k), UNCHANGED storageVars,
           client'[k] = client[k]
    PROVE  ClientInv(k)'
  BY DEF ClientInv, storageVars, Follows, CopyIsCovered, Pending, ETagOf, Live

(* And what holds of a request, on its client and itself.                  *)
LEMMA RequestFrame ==
    ASSUME NEW k \in Client, RequestInv(k), UNCHANGED storageVars,
           client'[k] = client[k], request'[k] = request[k]
    PROVE  RequestInv(k)'
  BY DEF RequestInv, storageVars, Reads, Answer, Pending, ETagOf, Live

(* A step that touches client k only has to keep what holds of k.          *)
LEMMA OneClientMoves ==
    ASSUME IInv, NEW k \in Client, UNCHANGED storageVars,
           client' \in [Client -> ClientState],
           request' \in [Client -> RequestState],
           \A j \in Client \ {k} : client'[j] = client[j] /\ request'[j] = request[j],
           ClientInv(k)', RequestInv(k)', RequestShape(k)'
    PROVE  IInv'
  <1>1. StorageInv'
    BY StorageStepInv DEF IInv
  <1>2. TypeOK'
    BY <1>1 DEF TypeOK, StorageInv
  <1>3. ASSUME NEW j \in Client \ {k}
        PROVE  ClientInv(j)' /\ RequestInv(j)' /\ RequestShape(j)'
    BY <1>3, ClientFrame, RequestFrame DEF IInv, RequestShape, Idle
  <1> QED
    BY <1>1, <1>2, <1>3 DEF IInv

(* The same for a step of the request of k that the client does not see.   *)
LEMMA OneRequestMoves ==
    ASSUME IInv, NEW k \in Client, UNCHANGED <<storageVars, client>>,
           request' \in [Client -> RequestState],
           \A j \in Client \ {k} : request'[j] = request[j],
           RequestInv(k)', RequestShape(k)'
    PROVE  IInv'
  <1>1. UNCHANGED storageVars /\ client' = client
    OBVIOUS
  <1>2. client' \in [Client -> ClientState] /\ ClientInv(k)
    BY <1>1 DEF IInv, TypeOK
  <1>3. ClientInv(k)'
    BY <1>1, <1>2, ClientFrame
  <1> QED
    BY <1>1, <1>2, <1>3, OneClientMoves

-----------------------------------------------------------------------------
(* Types of what the actions build                                         *)

(* The state of a client without a request is typed.                       *)
LEMMA NoRequestType == NoRequest \in RequestState
  BY DEF NoRequest, RequestState, Phase

(* A field of a request may be given any value of its type.                *)
LEMMA RequestField ==
    ASSUME NEW r \in RequestState
    PROVE  /\ \A v \in Phase : [r EXCEPT !.phase = v] \in RequestState
           /\ \A v \in Id : [r EXCEPT !.cid = v] \in RequestState
           /\ \A v \in Nat : /\ [r EXCEPT !.since = v] \in RequestState
                             /\ [r EXCEPT !.current = v] \in RequestState
                             /\ [r EXCEPT !.limit = v] \in RequestState
                             /\ [r EXCEPT !.birth = v] \in RequestState
           /\ \A v \in SUBSET Change : [r EXCEPT !.rows = v] \in RequestState
           /\ \A v \in [Uri -> ETag \cup {NoRow, NotReported}] :
                [r EXCEPT !.out = v] \in RequestState
           /\ \A v \in BOOLEAN : /\ [r EXCEPT !.own = v] \in RequestState
                                 /\ [r EXCEPT !.whole = v] \in RequestState
  BY DEF RequestState

(* So is the state of a client that starts over.                           *)
LEMMA NewClientType == NewClient \in ClientState
  BY DEF NewClient, ClientState, EmptyMirror, Mirror

(* A lookup of a member finds an ETag, or no row.                          *)
LEMMA ETagOfType ==
    ASSUME StorageTypeOK, NEW id \in Id, NEW u \in Uri
    PROVE  ETagOf(id, u) \in ETag \cup {NoRow}
  BY DEF StorageTypeOK, ETagOf, Object

(* A token is read as a sequence number.                                   *)
LEMMA SinceOfType ==
    ASSUME NEW token \in SyncToken \cup {NoToken}
    PROVE  SinceOf(token) \in Nat
  BY DEF SyncToken, SinceOf

(* A request that was not made, or is over, has nothing to keep.           *)
LEMMA IdleRequest ==
    ASSUME IInv, NEW k \in Client, UNCHANGED storageVars,
           request'[k].birth = 0,
           request'[k].phase \in {"idle", "lost"}
    PROVE  RequestInv(k)' /\ RequestShape(k)'
  <1>1. births' \in Nat /\ BirthsDistinct'
    BY StorageStepInv DEF IInv, StorageInv, StorageTypeOK
  <1>2. \A id \in Id : ~Reads(k, id)'
    BY <1>1, StorageStepInv, LiveRow DEF Reads, BirthsDistinct
  <1> QED
    BY <1>1, <1>2 DEF RequestInv, RequestShape, Idle

-----------------------------------------------------------------------------
(* One lemma per action                                                    *)

(* A write by anybody else: the reader's sequence stays behind, and what   *)
(* the write changes is in the log after it.                               *)
LEMMA WriteInv ==
    ASSUME IInv, Write
    PROVE  IInv'
  <1>1. [StorageNext]_storageVars /\ client' = client /\ request' = request
    BY DEF Write
  <1>2. StorageInv /\ StorageInv' /\ TypeOK
    BY <1>1, StorageStepInv DEF IInv
  <1>3. TypeOK'
    BY <1>1, <1>2 DEF TypeOK, StorageInv
  <1>4. births \in Nat /\ births' \in Nat /\ births <= births'
    BY <1>1, <1>2, BirthsGrow
  <1>5. ASSUME NEW k \in Client
        PROVE  ClientInv(k)'
    <2>1. client[k] \in ClientState /\ client[k].birth \in Nat
          /\ SinceOf(client[k].token) \in Nat
      BY <1>2, SinceOfType DEF TypeOK, ClientState
    <2>2. ClientInv(k)
      BY DEF IInv
    <2>3. ASSUME NEW id \in Id, Follows(k, id)'
          PROVE  /\ SinceOf(client[k].token) <= collections'[id].sync_seq
                 /\ client[k].whole => CopyIsCovered(k, id)'
      <3>1. id \in Live' /\ client[k].birth = collections'[id].birth
        BY <1>1, <2>3 DEF Follows
      <3>2. collections'[id].birth # births + 1
        BY <1>4, <2>1, <2>2, <3>1 DEF ClientInv
      <3>3. /\ id \in Live
            /\ collections'[id].birth = collections[id].birth
            /\ collections[id].sync_seq <= collections'[id].sync_seq
            /\ \A u \in Uri, seq \in Nat : seq <= collections[id].sync_seq =>
                 /\ Pending(id, u, seq) => Pending(id, u, seq)'
                 /\ \/ ETagOf(id, u)' = ETagOf(id, u)
                    \/ Pending(id, u, seq)'
        BY <1>1, <1>2, <3>1, <3>2, WriteEffect
      <3>4. collections[id].sync_seq \in Nat /\ collections'[id].sync_seq \in Nat
        BY <1>2, <3>1, <3>3, StorageAssumption
           DEF StorageInv, StorageTypeOK, Live, Collection
      <3>5. /\ SinceOf(client[k].token) <= collections[id].sync_seq
            /\ client[k].whole => CopyIsCovered(k, id)
        BY <2>2, <3>1, <3>3 DEF ClientInv, Follows
      <3>6. SinceOf(client[k].token) <= collections'[id].sync_seq
        BY <2>1, <3>3, <3>4, <3>5
      <3>7. ASSUME client[k].whole, NEW u \in Uri
            PROVE  \/ client[k].mirror[u] = ETagOf(id, u)'
                   \/ Pending(id, u, SinceOf(client[k].token))'
        <4>1. \/ client[k].mirror[u] = ETagOf(id, u)
              \/ Pending(id, u, SinceOf(client[k].token))
          BY <3>5, <3>7 DEF CopyIsCovered
        <4>2. Pending(id, u, SinceOf(client[k].token)) =>
                Pending(id, u, SinceOf(client[k].token))'
          BY <1>1, <2>1, <3>3, <3>5 DEF Pending
        <4>3. \/ ETagOf(id, u)' = ETagOf(id, u)
              \/ Pending(id, u, SinceOf(client[k].token))'
          BY <1>1, <2>1, <3>3, <3>5 DEF Pending
        <4> QED
          BY <4>1, <4>2, <4>3
      <3> QED
        BY <1>1, <3>6, <3>7 DEF CopyIsCovered
    <2>4. client[k].birth <= births'
      BY <1>4, <2>1, <2>2 DEF ClientInv
    <2> QED
      BY <1>1, <2>2, <2>3, <2>4 DEF ClientInv
  <1>6. ASSUME NEW k \in Client
        PROVE  RequestInv(k)'
    <2>1. /\ request[k].birth \in Nat /\ request[k].since \in Nat
          /\ request[k].current \in Nat
      BY <1>2 DEF TypeOK, RequestState
    <2>2. RequestInv(k)
      BY DEF IInv
    <2>3. ASSUME NEW id \in Id, Reads(k, id)'
          PROVE  /\ Reads(k, id)
                 /\ collections[id].sync_seq \in Nat
                 /\ collections'[id].sync_seq \in Nat
                 /\ collections[id].sync_seq <= collections'[id].sync_seq
                 /\ \A u \in Uri, seq \in Nat : seq <= collections[id].sync_seq =>
                      /\ Pending(id, u, seq) => Pending(id, u, seq)'
                      /\ \/ ETagOf(id, u)' = ETagOf(id, u)
                         \/ Pending(id, u, seq)'
      <3>1. id \in Live' /\ request[k].birth = collections'[id].birth
        BY <1>1, <2>3 DEF Reads
      <3>2. collections'[id].birth # births + 1
        BY <1>4, <2>1, <2>2, <3>1 DEF RequestInv
      <3>3. id \in Live /\ collections'[id].birth = collections[id].birth
        BY <1>1, <1>2, <3>1, <3>2, WriteEffect
      <3>4. collections[id].sync_seq \in Nat /\ collections'[id].sync_seq \in Nat
        BY <1>2, <3>1, <3>3, StorageAssumption
           DEF StorageInv, StorageTypeOK, Live, Collection
      <3> QED
        BY <1>1, <1>2, <3>1, <3>2, <3>3, <3>4, WriteEffect DEF Reads
    <2>4. ASSUME NEW id \in Id, Reads(k, id)'
          PROVE  /\ request[k].cid = id
                 /\ request[k].phase \in {"resolved", "sequenced"} =>
                      request[k].since <= collections'[id].sync_seq
                 /\ request[k].phase \in {"sequenced", "listing", "collecting"} =>
                      request[k].current <= collections'[id].sync_seq
      BY <2>1, <2>2, <2>3, <2>4 DEF RequestInv
    <2>5. ASSUME NEW id \in Id, Reads(k, id)', request[k].own, request[k].whole,
                 NEW u \in Uri, request[k].phase \in {"resolved", "sequenced"}
          PROVE  \/ client[k].mirror[u] = ETagOf(id, u)'
                 \/ Pending(id, u, request[k].since)'
      <3>1. /\ request[k].since <= collections[id].sync_seq
            /\ \/ client[k].mirror[u] = ETagOf(id, u)
               \/ Pending(id, u, request[k].since)
        BY <2>2, <2>3, <2>5 DEF RequestInv
      <3>2. /\ Pending(id, u, request[k].since) => Pending(id, u, request[k].since)'
            /\ \/ ETagOf(id, u)' = ETagOf(id, u)
               \/ Pending(id, u, request[k].since)'
        BY <1>1, <2>1, <2>3, <2>5, <3>1 DEF Pending
      <3> QED
        BY <3>1, <3>2
    <2>6. ASSUME NEW id \in Id, Reads(k, id)', request[k].own, request[k].whole,
                 NEW u \in Uri, request[k].phase = "collecting"
          PROVE  \/ Answer(k, u) = ETagOf(id, u)'
                 \/ Pending(id, u, request[k].current)'
                 \/ \E ch \in request[k].rows : ch.uri = u
      <3>1. /\ request[k].current <= collections[id].sync_seq
            /\ \/ Answer(k, u) = ETagOf(id, u)
               \/ Pending(id, u, request[k].current)
               \/ \E ch \in request[k].rows : ch.uri = u
        BY <2>2, <2>3, <2>6 DEF RequestInv
      <3>2. /\ Pending(id, u, request[k].current) => Pending(id, u, request[k].current)'
            /\ \/ ETagOf(id, u)' = ETagOf(id, u)
               \/ Pending(id, u, request[k].current)'
        BY <1>1, <2>1, <2>3, <2>6, <3>1 DEF Pending
      <3> QED
        BY <3>1, <3>2
    <2>7. request[k].birth <= births'
      BY <1>4, <2>1, <2>2 DEF RequestInv
    <2> QED
      BY <1>1, <2>4, <2>5, <2>6, <2>7 DEF RequestInv, Answer
  <1> QED
    BY <1>1, <1>2, <1>3, <1>5, <1>6 DEF IInv, RequestShape, Idle

(* StartSync: an accepted token is a position the log can be read from.    *)
LEMMA StartSyncInv ==
    ASSUME IInv, NEW k \in Client, NEW limit \in Limit, StartSync(k, limit)
    PROVE  IInv'
  <1>1. PICK id \in Id :
          /\ Resolves(k, id)
          /\ UsableToken(client[k].token, collections[id].sync_seq)
          /\ LET new == client[k].token = NoToken
             IN  request' = [request EXCEPT ![k] =
                   [NoRequest EXCEPT
                      !.phase = "resolved", !.cid = id, !.limit = limit,
                      !.since = SinceOf(client[k].token),
                      !.birth = collections[id].birth,
                      !.own = new \/ client[k].birth = collections[id].birth,
                      !.whole = new \/ client[k].whole]]
    BY DEF StartSync
  <1>2. UNCHANGED storageVars /\ client' = client
    BY DEF StartSync
  <1>3. TypeOK /\ StorageInv /\ ClientInv(k)
    BY DEF IInv
  <1>4. id \in Live /\ collections[id] \in Collection
    BY <1>1, <1>3, LiveRow DEF Resolves, CollectionOfType, StorageInv
  <1>5. client[k] \in ClientState /\ SinceOf(client[k].token) \in Nat
    BY <1>3, SinceOfType DEF TypeOK, ClientState
  <1> DEFINE new == client[k].token = NoToken
             own == new \/ client[k].birth = collections[id].birth
             whole == new \/ client[k].whole
             r == [NoRequest EXCEPT
                     !.phase = "resolved", !.cid = id, !.limit = limit,
                     !.since = SinceOf(client[k].token),
                     !.birth = collections[id].birth,
                     !.own = own, !.whole = whole]
  <1>6. request' = [request EXCEPT ![k] = r]
    BY <1>1
  <1>7. /\ "resolved" \in Phase /\ limit \in Nat /\ collections[id].birth \in Nat
        /\ own \in BOOLEAN /\ whole \in BOOLEAN
    BY <1>4, <1>5, SyncAssumption DEF Phase, ClientState, Collection
  <1> HIDE DEF own, whole
  <1>8. /\ request' \in [Client -> RequestState]
        /\ request'[k] = r
        /\ \A j \in Client \ {k} : request'[j] = request[j]
    <2>1. r \in RequestState
      BY <1>5, <1>7, NoRequestType, RequestField
    <2> HIDE DEF r
    <2> QED
      BY <1>3, <1>6, <2>1 DEF TypeOK
  <1>9. /\ r.phase = "resolved" /\ r.cid = id /\ r.since = SinceOf(client[k].token)
         /\ r.birth = collections[id].birth /\ r.own = own /\ r.whole = whole
         /\ r.out = [u \in Uri |-> NotReported]
    BY DEF NoRequest
  <1> HIDE DEF r
  <1>10. SinceOf(client[k].token) <= collections[id].sync_seq
    BY <1>1, <1>4 DEF UsableToken, SinceOf, Collection
  <1>11. ASSUME own, whole, NEW u \in Uri
         PROVE  \/ client[k].mirror[u] = ETagOf(id, u)
                \/ Pending(id, u, SinceOf(client[k].token))
    <2>1. CASE new
      <3>1. SinceOf(client[k].token) = 0 /\ client[k].mirror[u] = NoRow
        BY <2>1, <1>3 DEF ClientInv, SinceOf, EmptyMirror
      <3>2. CASE objects[id][u] = NoRow
        BY <3>1, <3>2 DEF ETagOf
      <3>3. CASE objects[id][u] # NoRow
        <4>1. PICK ch \in object_changes : ch.cid = id /\ ch.uri = u
          BY <3>3, <1>3 DEF StorageInv, ChangeLogSound, LogMatchesObjects
        <4>2. ch.seq \in Nat /\ ch.seq >= 1
          BY <4>1, <1>3 DEF StorageInv, StorageTypeOK, Change, ChangeLogSound,
                            ChangesBehindSequence
        <4> QED
          BY <3>1, <4>1, <4>2 DEF Pending
      <3> QED
        BY <3>2, <3>3
    <2>2. CASE ~new
      <3>1. Follows(k, id) /\ client[k].whole
        BY <2>2, <1>4, <1>11 DEF Follows, own, whole
      <3> QED
        BY <3>1, <1>3 DEF ClientInv, CopyIsCovered
    <2> QED
      BY <2>1, <2>2
  <1>12. RequestInv(k)'
    <2>1. collections[id].birth <= births
      BY <1>3, <1>4 DEF StorageInv, BirthsDistinct
    <2>2. ASSUME NEW other \in Id, Reads(k, other)'
          PROVE  other = id
      BY <1>2, <1>3, <1>4, <1>8, <1>9, <2>2
         DEF Reads, storageVars, Live, StorageInv, BirthsDistinct
    <2>3. ASSUME own, whole, NEW u \in Uri
          PROVE  \/ client'[k].mirror[u] = ETagOf(id, u)'
                 \/ Pending(id, u, request[k].since)'
      BY <1>2, <1>8, <1>11, <1>9, <2>3 DEF storageVars, ETagOf, Pending
    <2> QED
      BY <1>2, <1>8, <1>10, <1>9, <2>1, <2>2, <2>3 DEF RequestInv, storageVars
  <1>13. RequestShape(k)'
    BY <1>8, <1>9 DEF RequestShape, Idle
  <1> QED
    BY <1>2, <1>8, <1>12, <1>13, OneRequestMoves

(* RejectToken: the client starts over with nothing.                       *)
LEMMA RejectTokenInv ==
    ASSUME IInv, NEW k \in Client, RejectToken(k)
    PROVE  IInv'
  <1>1. /\ Idle(k) /\ UNCHANGED storageVars /\ request' = request
        /\ client' = [client EXCEPT ![k] = NewClient]
    BY DEF RejectToken
  <1>2. TypeOK /\ StorageInv /\ RequestInv(k) /\ RequestShape(k)
    BY DEF IInv
  <1>3. /\ client' \in [Client -> ClientState]
        /\ client'[k] = NewClient
        /\ \A j \in Client \ {k} : client'[j] = client[j]
    BY <1>1, <1>2, NewClientType DEF TypeOK
  <1>4. births' \in Nat /\ BirthsDistinct'
    BY <1>1, <1>2, StorageStepInv DEF StorageInv, StorageTypeOK
  <1>5. ClientInv(k)'
    <2>1. \A id \in Id : ~Follows(k, id)'
      BY <1>3, <1>4 DEF Follows, BirthsDistinct, NewClient
    <2> QED
      BY <1>3, <1>4, <2>1 DEF ClientInv, NewClient
  <1>6. RequestInv(k)' /\ RequestShape(k)'
    BY <1>1, <1>2 DEF RequestInv, RequestShape, Idle, storageVars, Reads, Live
  <1> QED
    BY <1>1, <1>2, <1>3, <1>5, <1>6, OneClientMoves DEF TypeOK

(* ReadSequence: the sequence of the answer is one the collection has      *)
(* reached.  If the rowid belongs to another collection by now, there is   *)
(* nothing to show: the one the request is about is gone.                  *)
LEMMA ReadSequenceInv ==
    ASSUME IInv, NEW k \in Client, ReadSequence(k)
    PROVE  IInv'
  <1>1. /\ request[k].phase = "resolved" /\ request[k].cid \in Live
        /\ UNCHANGED storageVars /\ client' = client
    BY DEF ReadSequence
  <1>2. TypeOK /\ StorageInv /\ RequestInv(k) /\ RequestShape(k)
    BY DEF IInv
  <1> DEFINE seq == collections[request[k].cid].sync_seq
             r == [request[k] EXCEPT !.phase = "sequenced", !.current = seq]
  <1>3. seq \in Nat
    BY <1>1, <1>2, LiveRow DEF StorageInv, Collection
  <1>4. /\ request' \in [Client -> RequestState]
        /\ request'[k] = r
        /\ \A j \in Client \ {k} : request'[j] = request[j]
    <2>1. request' = [request EXCEPT ![k] = r]
      BY DEF ReadSequence
    <2>2. request \in [Client -> RequestState] /\ "sequenced" \in Phase
      BY <1>2 DEF TypeOK, Phase
    <2> HIDE DEF seq
    <2>3. r \in RequestState
      BY <1>3, <2>2, RequestField
    <2> HIDE DEF r
    <2> QED
      BY <2>1, <2>2, <2>3
  <1>5. /\ r.phase = "sequenced" /\ r.current = seq /\ r.cid = request[k].cid
        /\ r.since = request[k].since /\ r.birth = request[k].birth
        /\ r.own = request[k].own /\ r.whole = request[k].whole
        /\ r.out = request[k].out
    BY <1>2 DEF TypeOK, RequestState
  <1> HIDE DEF r
  <1>6. RequestInv(k)'
    <2>1. \A id \in Id : Reads(k, id)' => Reads(k, id)
      BY <1>1, <1>4, <1>5 DEF Reads, storageVars, Live
    <2>2. ASSUME NEW id \in Id, Reads(k, id), request[k].own, request[k].whole,
                 NEW u \in Uri
          PROVE  \/ client'[k].mirror[u] = ETagOf(id, u)'
                 \/ Pending(id, u, request[k].since)'
      BY <1>1, <1>2, <1>4, <1>5, <2>2
         DEF RequestInv, storageVars, ETagOf, Pending
    <2> QED
      BY <1>1, <1>2, <1>3, <1>4, <1>5, <2>1, <2>2 DEF RequestInv, storageVars
  <1>7. RequestShape(k)'
    BY <1>1, <1>2, <1>4, <1>5 DEF RequestShape, Idle
  <1> QED
    BY <1>1, <1>4, <1>6, <1>7, OneRequestMoves

(* ReadChanges: a member the log says nothing of after the client's token  *)
(* is in the copy as it is.                                                *)
LEMMA ReadChangesInv ==
    ASSUME IInv, NEW k \in Client, ReadChanges(k)
    PROVE  IInv'
  <1>1. /\ request[k].phase = "sequenced"
        /\ UNCHANGED storageVars /\ client' = client
    BY DEF ReadChanges
  <1>2. TypeOK /\ StorageInv /\ RequestInv(k) /\ RequestShape(k)
    BY DEF IInv
  <1> DEFINE rows == {ch \in object_changes :
                        ch.cid = request[k].cid /\ ch.seq > request[k].since}
             r == [request[k] EXCEPT !.phase = "collecting", !.rows = rows]
  <1>3. rows \in SUBSET Change
    BY <1>2 DEF StorageInv, StorageTypeOK
  <1>4. /\ request' \in [Client -> RequestState]
        /\ request'[k] = r
        /\ \A j \in Client \ {k} : request'[j] = request[j]
    <2>1. request' = [request EXCEPT ![k] = r]
      BY DEF ReadChanges
    <2>2. request \in [Client -> RequestState] /\ "collecting" \in Phase
      BY <1>2 DEF TypeOK, Phase
    <2> HIDE DEF rows
    <2>3. r \in RequestState
      BY <1>3, <2>2, RequestField
    <2> HIDE DEF r
    <2> QED
      BY <2>1, <2>2, <2>3
  <1>5. /\ r.phase = "collecting" /\ r.rows = rows /\ r.cid = request[k].cid
        /\ r.current = request[k].current /\ r.birth = request[k].birth
        /\ r.own = request[k].own /\ r.whole = request[k].whole
        /\ r.out = request[k].out
    BY <1>2 DEF TypeOK, RequestState
  <1> HIDE DEF r
  <1>6. RequestInv(k)'
    <2>1. \A id \in Id : Reads(k, id)' => Reads(k, id)
      BY <1>1, <1>4, <1>5 DEF Reads, storageVars, Live
    <2>2. ASSUME NEW id \in Id, Reads(k, id), request[k].own, request[k].whole,
                 NEW u \in Uri, ~\E ch \in rows : ch.uri = u
          PROVE  Answer(k, u)' = ETagOf(id, u)'
      <3>1. request[k].cid = id
            /\ (client[k].mirror[u] = ETagOf(id, u) \/ Pending(id, u, request[k].since))
        BY <1>1, <1>2, <2>2 DEF RequestInv
      <3>2. ~Pending(id, u, request[k].since)
        BY <2>2, <3>1 DEF Pending
      <3>3. request'[k].out[u] = NotReported
        BY <1>1, <1>2, <1>4, <1>5 DEF RequestShape
      <3> QED
        BY <1>1, <3>1, <3>2, <3>3 DEF Answer, ETagOf, storageVars
    <2> QED
      BY <1>1, <1>2, <1>4, <1>5, <2>1, <2>2 DEF RequestInv, storageVars
  <1>7. RequestShape(k)'
    BY <1>1, <1>2, <1>4, <1>5 DEF RequestShape, Idle
  <1> QED
    BY <1>1, <1>4, <1>6, <1>7, OneRequestMoves

(* CollectChange: the object is read after the log, so what is reported is *)
(* at least as new as the change that led to it.                           *)
LEMMA CollectChangeInv ==
    ASSUME IInv, NEW k \in Client, CollectChange(k)
    PROVE  IInv'
  <1>1. /\ request[k].phase = "collecting"
        /\ UNCHANGED storageVars /\ client' = client
    BY DEF CollectChange
  <1>2. TypeOK /\ StorageInv /\ RequestInv(k) /\ RequestShape(k)
    BY DEF IInv
  <1>3. PICK ch \in request[k].rows :
          request' = [request EXCEPT
            ![k].rows = @ \ {ch},
            ![k].out[ch.uri] = ETagOf(request[k].cid, ch.uri)]
    BY DEF CollectChange
  <1>4. request[k] \in RequestState /\ request \in [Client -> RequestState]
    BY <1>2 DEF TypeOK
  <1>5. /\ request[k].rows \subseteq Change /\ ch.uri \in Uri
        /\ request[k].out \in [Uri -> ETag \cup {NoRow, NotReported}]
        /\ request[k].cid \in Id
    BY <1>1, <1>2, <1>4 DEF RequestState, Change, RequestShape, Idle
  <1> DEFINE rows == request[k].rows \ {ch}
             etag == ETagOf(request[k].cid, ch.uri)
             out == [request[k].out EXCEPT ![ch.uri] = etag]
             r == [request[k] EXCEPT !.rows = rows, !.out = out]
  <1>6. request' = [request EXCEPT ![k] = r]
    BY <1>3
  <1>7. etag \in ETag \cup {NoRow}
    BY <1>2, <1>5, ETagOfType DEF StorageInv
  <1> HIDE DEF etag
  <1>8. /\ out \in [Uri -> ETag \cup {NoRow, NotReported}]
        /\ out[ch.uri] = etag
        /\ \A u \in Uri \ {ch.uri} : out[u] = request[k].out[u]
    BY <1>5, <1>7
  <1>9. rows \in SUBSET Change
        /\ \A other \in request[k].rows : other.uri # ch.uri => other \in rows
    BY <1>5
  <1> HIDE DEF out, rows
  <1>10. /\ request' \in [Client -> RequestState]
         /\ request'[k] = r
         /\ \A j \in Client \ {k} : request'[j] = request[j]
    <2>1. r \in RequestState
      BY <1>4, <1>8, <1>9, RequestField
    <2> HIDE DEF r
    <2> QED
      BY <1>4, <1>6, <2>1
  <1>11. /\ r.phase = "collecting" /\ r.rows = rows /\ r.out = out
         /\ r.cid = request[k].cid /\ r.current = request[k].current
         /\ r.birth = request[k].birth
         /\ r.own = request[k].own /\ r.whole = request[k].whole
    BY <1>1, <1>4 DEF RequestState
  <1> HIDE DEF r
  <1>12. RequestInv(k)'
    <2>1. \A id \in Id : Reads(k, id)' => Reads(k, id)
      BY <1>1, <1>10, <1>11 DEF Reads, storageVars, Live
    <2>2. ASSUME NEW id \in Id, Reads(k, id), request[k].own, request[k].whole,
                 NEW u \in Uri
          PROVE  \/ Answer(k, u)' = ETagOf(id, u)'
                 \/ Pending(id, u, request[k].current)'
                 \/ \E other \in rows : other.uri = u
      <3>1. /\ request[k].cid = id
            /\ \/ Answer(k, u) = ETagOf(id, u)
               \/ Pending(id, u, request[k].current)
               \/ \E other \in request[k].rows : other.uri = u
        BY <1>1, <1>2, <2>2 DEF RequestInv
      <3>2. CASE u = ch.uri
        <4>1. etag # NotReported /\ etag = ETagOf(id, u)
          BY <1>7, <3>1, <3>2, SyncAssumption DEF etag
        <4> QED
          BY <1>1, <1>8, <1>10, <1>11, <3>2, <4>1 DEF Answer, ETagOf, storageVars
      <3>3. CASE u # ch.uri
        <4>1. Answer(k, u)' = Answer(k, u) /\ ETagOf(id, u)' = ETagOf(id, u)
          BY <1>1, <1>8, <1>10, <1>11, <3>3 DEF Answer, ETagOf, storageVars
        <4>2. Pending(id, u, request[k].current) => Pending(id, u, request[k].current)'
          BY <1>1, <1>10, <1>11 DEF Pending, storageVars
        <4> QED
          BY <1>9, <3>1, <3>3, <4>1, <4>2
      <3> QED
        BY <3>2, <3>3
    <2> QED
      BY <1>1, <1>2, <1>10, <1>11, <2>1, <2>2 DEF RequestInv, storageVars
  <1>13. RequestShape(k)'
    BY <1>5, <1>10, <1>11 DEF RequestShape, Idle
  <1> QED
    BY <1>1, <1>10, <1>12, <1>13, OneRequestMoves

(* StartPropFind: the token of the answer is read before the listing.      *)
LEMMA StartPropFindInv ==
    ASSUME IInv, NEW k \in Client, StartPropFind(k)
    PROVE  IInv'
  <1> DEFINE R(id) == [NoRequest EXCEPT
                         !.phase = "listing", !.cid = id, !.whole = TRUE,
                         !.current = collections[id].sync_seq,
                         !.birth = collections[id].birth]
  <1>1. PICK id \in Id : Resolves(k, id) /\ request' = [request EXCEPT ![k] = R(id)]
    BY DEF StartPropFind
  <1>2. UNCHANGED storageVars /\ client' = client
    BY DEF StartPropFind
  <1>3. TypeOK /\ StorageInv
    BY DEF IInv
  <1>4. id \in Live /\ collections[id].sync_seq \in Nat /\ collections[id].birth \in Nat
    BY <1>1, <1>3, LiveRow DEF Resolves, CollectionOfType, StorageInv, Collection
  <1> DEFINE r == R(id)
  <1>5. /\ request' \in [Client -> RequestState]
        /\ request'[k] = r
        /\ \A j \in Client \ {k} : request'[j] = request[j]
    <2>1. r \in RequestState
      <3>1. "listing" \in Phase /\ TRUE \in BOOLEAN
        BY DEF Phase
      <3> QED
        BY <1>4, <3>1, NoRequestType, RequestField
    <2> HIDE DEF R
    <2> QED
      BY <1>1, <1>3, <2>1 DEF TypeOK
  <1>6. /\ r.phase = "listing" /\ r.cid = id
        /\ r.current = collections[id].sync_seq /\ r.birth = collections[id].birth
    BY DEF NoRequest
  <1> HIDE DEF r, R
  <1>7. RequestInv(k)'
    <2>1. collections[id].birth <= births
      BY <1>3, <1>4 DEF StorageInv, BirthsDistinct
    <2>2. ASSUME NEW other \in Id, Reads(k, other)'
          PROVE  other = id
      BY <1>2, <1>3, <1>4, <1>5, <1>6, <2>2
         DEF Reads, storageVars, Live, StorageInv, BirthsDistinct
    <2> QED
      BY <1>2, <1>4, <1>5, <1>6, <2>1, <2>2 DEF RequestInv, storageVars
  <1>8. RequestShape(k)'
    BY <1>5, <1>6 DEF RequestShape, Idle
  <1> QED
    BY <1>2, <1>5, <1>7, <1>8, OneRequestMoves

(* ListMembers: a listing of the same collection is exact.                 *)
LEMMA ListMembersInv ==
    ASSUME IInv, NEW k \in Client, ListMembers(k)
    PROVE  IInv'
  <1>1. /\ request[k].phase = "listing"
        /\ UNCHANGED storageVars /\ client' = client
    BY DEF ListMembers
  <1>2. TypeOK /\ StorageInv /\ RequestInv(k) /\ RequestShape(k)
    BY DEF IInv
  <1> DEFINE R(id) == [request[k] EXCEPT
                         !.phase = "collecting",
                         !.own = (collections[id].birth = request[k].birth),
                         !.out = [u \in Uri |-> ETagOf(id, u)]]
  <1>3. PICK id \in Id : Resolves(k, id) /\ request' = [request EXCEPT ![k] = R(id)]
    BY DEF ListMembers
  <1>4. request[k] \in RequestState /\ request \in [Client -> RequestState]
    BY <1>2 DEF TypeOK
  <1> DEFINE own == collections[id].birth = request[k].birth
             out == [u \in Uri |-> ETagOf(id, u)]
             r == [request[k] EXCEPT !.phase = "collecting", !.own = own, !.out = out]
  <1>5. request' = [request EXCEPT ![k] = r]
    BY <1>3
  <1>6. /\ out \in [Uri -> ETag \cup {NoRow, NotReported}]
        /\ \A u \in Uri : out[u] = ETagOf(id, u) /\ out[u] # NotReported
    BY <1>2, ETagOfType, SyncAssumption DEF StorageInv
  <1>7. own \in BOOLEAN /\ "collecting" \in Phase
    BY DEF Phase
  <1> HIDE DEF own, out
  <1>8. /\ request' \in [Client -> RequestState]
        /\ request'[k] = r
        /\ \A j \in Client \ {k} : request'[j] = request[j]
    <2>1. r \in RequestState
      BY <1>4, <1>6, <1>7, RequestField
    <2> HIDE DEF r
    <2> QED
      BY <1>4, <1>5, <2>1
  <1>9. /\ r.phase = "collecting" /\ r.own = own /\ r.out = out
        /\ r.cid = request[k].cid /\ r.current = request[k].current
        /\ r.birth = request[k].birth
    BY <1>4 DEF RequestState
  <1> HIDE DEF r
  <1>10. RequestInv(k)'
    <2>1. \A other \in Id : Reads(k, other)' => Reads(k, other)
      BY <1>1, <1>8, <1>9 DEF Reads, storageVars, Live
    <2>2. ASSUME NEW other \in Id, Reads(k, other), own, NEW u \in Uri
          PROVE  Answer(k, u)' = ETagOf(other, u)'
      <3>1. id \in Live
        BY <1>3 DEF Resolves, CollectionOfType
      <3>2. other = id
        BY <1>2, <2>2, <3>1 DEF own, Reads, StorageInv, BirthsDistinct
      <3> QED
        BY <1>1, <1>6, <1>8, <1>9, <3>2 DEF Answer, ETagOf, storageVars
    <2> QED
      BY <1>1, <1>2, <1>8, <1>9, <2>1, <2>2 DEF RequestInv, storageVars
  <1>11. RequestShape(k)'
    BY <1>1, <1>2, <1>8, <1>9 DEF RequestShape, Idle
  <1> QED
    BY <1>1, <1>8, <1>10, <1>11, OneRequestMoves

(* Respond: the client's copy becomes the answer, and its token the        *)
(* sequence the request read.                                              *)
LEMMA RespondInv ==
    ASSUME IInv, NEW k \in Client, Respond(k)
    PROVE  IInv'
  <1>1. request[k].phase = "collecting" /\ UNCHANGED storageVars
    BY DEF Respond
  <1>2. TypeOK /\ StorageInv /\ RequestInv(k)
    BY DEF IInv
  <1>3. request[k] \in RequestState /\ client[k] \in ClientState
    BY <1>2 DEF TypeOK
  <1> DEFINE token == encodeSyncToken(request[k].current)
             mirror == [u \in Uri |-> Answer(k, u)]
             birth == IF request[k].own THEN request[k].birth ELSE 0
             whole == request[k].whole /\ request[k].rows = {}
             c == [token |-> token, mirror |-> mirror, birth |-> birth, whole |-> whole]
  <1>4. client' = [client EXCEPT ![k] = c] /\ request' = [request EXCEPT ![k] = NoRequest]
    BY DEF Respond, Answer
  <1>5. /\ token \in SyncToken /\ SinceOf(token) = request[k].current
        /\ token.prefix = syncTokenPrefix /\ token # NoToken
    <2>1. token \in SyncToken /\ token.prefix = syncTokenPrefix
          /\ token.seq = request[k].current
      BY <1>3 DEF encodeSyncToken, SyncToken, RequestState
    <2> QED
      BY <2>1, TokenAssumption DEF SinceOf
  <1>6. mirror \in Mirror /\ \A u \in Uri : mirror[u] = Answer(k, u)
    BY <1>3 DEF Answer, Mirror, RequestState, ClientState
  <1>7. birth \in Nat /\ whole \in BOOLEAN
    BY <1>3 DEF RequestState
  <1>8. /\ birth <= births
        /\ birth # 0 => request[k].own /\ birth = request[k].birth
    BY <1>2 DEF RequestInv, StorageInv, StorageTypeOK
  <1>9. whole => request[k].whole /\ request[k].rows = {}
    OBVIOUS
  <1> HIDE DEF token, mirror, birth, whole
  <1>10. c \in ClientState
    BY <1>5, <1>6, <1>7 DEF ClientState
  <1>11. c.token = token /\ c.mirror = mirror /\ c.birth = birth /\ c.whole = whole
    OBVIOUS
  <1> HIDE DEF c
  <1>12. /\ client' \in [Client -> ClientState] /\ request' \in [Client -> RequestState]
         /\ client'[k] = c /\ request'[k] = NoRequest
         /\ \A j \in Client \ {k} : client'[j] = client[j] /\ request'[j] = request[j]
    BY <1>2, <1>4, <1>10, NoRequestType DEF TypeOK
  <1>13. ClientInv(k)'
    <2>1. ASSUME NEW id \in Id, Follows(k, id)'
          PROVE  /\ SinceOf(token) <= collections'[id].sync_seq
                 /\ whole => CopyIsCovered(k, id)'
      <3>1. id \in Live /\ birth = collections[id].birth
        BY <1>1, <1>11, <1>12, <2>1 DEF Follows, storageVars, Live
      <3>2. birth # 0
        BY <1>2, <3>1 DEF StorageInv, BirthsDistinct
      <3>3. Reads(k, id) /\ request[k].own
        BY <1>8, <3>1, <3>2 DEF Reads
      <3>4. request[k].current <= collections[id].sync_seq
        BY <1>1, <1>2, <3>3 DEF RequestInv
      <3>5. ASSUME whole, NEW u \in Uri
            PROVE  \/ client'[k].mirror[u] = ETagOf(id, u)'
                   \/ Pending(id, u, SinceOf(client[k].token))'
        <4>1. \/ mirror[u] = ETagOf(id, u)
              \/ Pending(id, u, request[k].current)
          BY <1>1, <1>2, <1>6, <1>9, <3>3, <3>5 DEF RequestInv
        <4> QED
          BY <1>1, <1>5, <1>11, <1>12, <4>1 DEF Pending, ETagOf, storageVars
      <3> QED
        BY <1>1, <1>5, <3>4, <3>5 DEF CopyIsCovered, storageVars
    <2> QED
      BY <1>1, <1>5, <1>8, <1>11, <1>12, <2>1 DEF ClientInv, storageVars
  <1>14. RequestInv(k)' /\ RequestShape(k)'
    BY <1>1, <1>12, IdleRequest DEF NoRequest
  <1> QED
    BY <1>1, <1>12, <1>13, <1>14, OneClientMoves

(* CollectionGone and Abandon: a request that ends leaves nothing behind.  *)
LEMMA RequestEndsInv ==
    ASSUME IInv, NEW k \in Client, CollectionGone(k) \/ Abandon(k)
    PROVE  IInv'
  <1> DEFINE lost == [NoRequest EXCEPT !.phase = "lost"]
  <1>1. UNCHANGED <<storageVars, client>>
    BY DEF CollectionGone, Abandon
  <1>2. request' = [request EXCEPT ![k] = NoRequest] \/ request' = [request EXCEPT ![k] = lost]
    BY DEF CollectionGone, Abandon
  <1>3. lost \in RequestState /\ lost.birth = 0 /\ lost.phase = "lost"
    <2>1. "lost" \in Phase
      BY DEF Phase
    <2> QED
      BY <2>1, NoRequestType, RequestField DEF NoRequest
  <1>4. NoRequest.birth = 0 /\ NoRequest.phase = "idle"
    BY DEF NoRequest
  <1> HIDE DEF lost
  <1>5. /\ request' \in [Client -> RequestState]
        /\ request'[k].birth = 0 /\ request'[k].phase \in {"idle", "lost"}
        /\ \A j \in Client \ {k} : request'[j] = request[j]
    BY <1>2, <1>3, <1>4, NoRequestType DEF IInv, TypeOK
  <1>6. RequestInv(k)' /\ RequestShape(k)'
    BY <1>1, <1>5, IdleRequest
  <1> QED
    BY <1>1, <1>5, <1>6, OneRequestMoves

-----------------------------------------------------------------------------
(* The invariant                                                           *)

(* Tables, clients and requests start out in the invariant.                *)
LEMMA InitInv == Init => IInv
  <1> SUFFICES ASSUME Init PROVE IInv
    OBVIOUS
  <1>1. StorageInv /\ births = 0 /\ Live = {}
    BY StorageInitInv DEF Init, StorageInit, Live
  <1>2. request \in [Client -> RequestState] /\ \A k \in Client : request[k] = NoRequest
    BY NoRequestType DEF Init
  <1> DEFINE Old(m) == [token |-> ForeignToken, mirror |-> m, birth |-> 0, whole |-> TRUE]
  <1>3. \A m \in Mirror : Old(m) \in ClientState /\ Old(m).birth = 0
                          /\ Old(m).token = ForeignToken
    BY DEF ClientState, SyncToken, ForeignToken
  <1>4. ForeignToken # NoToken
    <2>1. ForeignToken \in SyncToken
      BY DEF ForeignToken, SyncToken
    <2> QED
      BY <2>1, TokenAssumption
  <1>5. ASSUME NEW k \in Client
        PROVE  /\ client[k] \in ClientState
               /\ client[k].birth = 0
               /\ client[k].token = NoToken => client[k].mirror = EmptyMirror
    <2>1. client[k] = NewClient \/ \E m \in Mirror : client[k] = Old(m)
      BY DEF Init
    <2> HIDE DEF Old
    <2> QED
      BY <1>3, <1>4, <2>1, NewClientType DEF NewClient
  <1>6. client \in [Client -> ClientState]
    BY <1>5 DEF Init
  <1>7. TypeOK
    BY <1>1, <1>2, <1>6 DEF TypeOK, StorageInv
  <1>8. ASSUME NEW k \in Client
        PROVE  ClientInv(k) /\ RequestInv(k) /\ RequestShape(k)
    BY <1>1, <1>2, <1>5 DEF ClientInv, Follows, RequestInv, Reads, RequestShape, Idle,
                            NoRequest
  <1> QED
    BY <1>1, <1>7, <1>8 DEF IInv

(* Every step keeps the invariant: one case per action.                    *)
LEMMA StepInv == IInv /\ [Next]_vars => IInv'
  <1> SUFFICES ASSUME IInv, [Next]_vars PROVE IInv'
    OBVIOUS
  <1>1. CASE Write
    BY <1>1, WriteInv
  <1>2. CASE UNCHANGED vars
    <2>1. UNCHANGED storageVars /\ client' = client /\ request' = request
      BY <1>2 DEF vars
    <2>2. TypeOK' /\ StorageInv'
      BY <2>1, StorageStepInv DEF IInv, TypeOK, StorageInv
    <2> QED
      BY <2>1, <2>2, ClientFrame, RequestFrame DEF IInv, RequestShape, Idle
  <1>3. ASSUME NEW k \in Client, \E limit \in Limit : StartSync(k, limit)
        PROVE  IInv'
    BY <1>3, StartSyncInv
  <1>4. ASSUME NEW k \in Client, Serve(k)
        PROVE  IInv'
    BY <1>4, ReadSequenceInv, ReadChangesInv, CollectChangeInv, ListMembersInv,
       RespondInv, RequestEndsInv DEF Serve
  <1>5. ASSUME NEW k \in Client, RejectToken(k) \/ StartPropFind(k) \/ Abandon(k)
        PROVE  IInv'
    BY <1>5, RejectTokenInv, StartPropFindInv, RequestEndsInv
  <1> QED
    BY <1>1, <1>2, <1>3, <1>4, <1>5 DEF Next, NotFound

(* So the invariant always holds.                                          *)
LEMMA Invariance == Spec => []IInv
  BY InitInv, StepInv, PTL DEF Spec

-----------------------------------------------------------------------------
(* Theorems                                                                *)

(* Types: every row, token, copy and request in progress has its type.     *)
THEOREM TypeCorrect == Spec => []TypeOK
  <1>1. IInv => TypeOK
    BY DEF IInv
  <1> QED
    BY <1>1, Invariance, PTL

(* The change log is a faithful index of the members of every collection:  *)
(* recordChange keeps one row per URI, never ahead of the sequence, that   *)
(* says whether the object exists.                                         *)
THEOREM LogIsSound == Spec => []ChangeLogSound
  <1>1. IInv => ChangeLogSound
    BY DEF IInv, StorageInv
  <1> QED
    BY <1>1, Invariance, PTL

(* No interleaving of writes with the queries of a report or a listing     *)
(* loses a change, for any number of clients, members and collections.     *)
THEOREM NothingIsLost == Spec => []NoLostChange
  <1>1. IInv => NoLostChange
    BY DEF IInv, ClientInv, NoLostChange
  <1> QED
    BY <1>1, Invariance, PTL

(* A client that holds the collection's current token holds its members.   *)
THEOREM CurrentTokenIsEnough == Spec => []CurrentTokenMeansEqualCopy
  <1>1. ASSUME IInv, NEW k \in Client, NEW id \in Id, Follows(k, id), client[k].whole,
               client[k].token = encodeSyncToken(collections[id].sync_seq)
        PROVE  client[k].mirror = [u \in Uri |-> ETagOf(id, u)]
    <2>1. TypeOK /\ StorageInv /\ ClientInv(k) /\ id \in Live
      BY <1>1 DEF IInv, Follows
    <2>2. collections[id].sync_seq \in Nat
      BY <2>1, LiveRow DEF StorageInv, Collection
    <2>3. client[k].token \in SyncToken /\ client[k].token.seq = collections[id].sync_seq
      BY <1>1, <2>2 DEF encodeSyncToken, SyncToken
    <2>4. SinceOf(client[k].token) = collections[id].sync_seq
      BY <2>3, TokenAssumption DEF SinceOf
    <2>5. ASSUME NEW u \in Uri PROVE ~Pending(id, u, collections[id].sync_seq)
      BY <2>1, <2>2 DEF Pending, StorageInv, StorageTypeOK, Change, ChangeLogSound,
                        ChangesBehindSequence
    <2>6. \A u \in Uri : client[k].mirror[u] = ETagOf(id, u)
      BY <1>1, <2>1, <2>4, <2>5 DEF ClientInv, CopyIsCovered
    <2>7. client[k].mirror \in [Uri -> ETag \cup {NoRow}]
      BY <2>1 DEF TypeOK, ClientState, Mirror
    <2> QED
      BY <2>6, <2>7
  <1>2. IInv => CurrentTokenMeansEqualCopy
    BY <1>1 DEF CurrentTokenMeansEqualCopy
  <1> QED
    BY <1>2, Invariance, PTL

(* decodeSyncToken accepts every token its collection has issued.          *)
THEOREM IssuedTokensAreAccepted == Spec => []IssuedTokenStaysUsable
  <1>1. ASSUME IInv, NEW k \in Client, NEW id \in Id, Follows(k, id)
        PROVE  UsableToken(client[k].token, collections[id].sync_seq)
    <2>1. StorageInv /\ ClientInv(k) /\ id \in Live
          /\ client[k].birth = collections[id].birth
      BY <1>1 DEF IInv, Follows
    <2>2. client[k].birth # 0
      BY <2>1 DEF StorageInv, BirthsDistinct
    <2> QED
      BY <1>1, <2>1, <2>2 DEF ClientInv, UsableToken, SinceOf
  <1>2. IInv => IssuedTokenStaysUsable
    BY <1>1 DEF IssuedTokenStaysUsable
  <1> QED
    BY <1>2, Invariance, PTL

(* Only writes touch the tables.                                           *)
LEMMA TablesStep == [Next]_vars => [StorageNext]_storageVars
  BY DEF Next, Write, StartSync, RejectToken, NotFound, StartPropFind, Serve,
         ReadSequence, ReadChanges, CollectChange, ListMembers, Respond, CollectionGone,
         Abandon, vars

(* The sequence and the ctag count the changes of a collection's members,  *)
(* one by one, whatever else the server does meanwhile.                    *)
THEOREM SequenceIsExact == Spec => SequenceCountsChanges
  <1>1. IInv /\ [Next]_vars => [\A id \in Id : CountsChanges(id)]_storageVars
    BY TablesStep, SequenceStep DEF IInv
  <1> QED
    BY <1>1, Invariance, PTL DEF Spec, SequenceCountsChanges

(* A URI that was ever in a collection stays in its log.                   *)
THEOREM LogIsKept == Spec => LogNeverForgets
  <1>1. IInv /\ [Next]_vars => [\A ch \in object_changes : StaysLogged(ch)]_storageVars
    BY TablesStep, LogStep DEF IInv
  <1> QED
    BY <1>1, Invariance, PTL DEF Spec, LogNeverForgets

-----------------------------------------------------------------------------
(* The refinement mapping                                                  *)

(* Where no collection is, there is neither a member nor a change.         *)
LEMMA NothingOutside ==
    ASSUME StorageInv, NEW id \in Id, id \notin Live, NEW u \in Uri
    PROVE  VersionOf(id) = 0 /\ ETagOf(id, u) = NoRow /\ StampOf(id, u) = 0
  <1>1. \A ch \in object_changes : ch.cid # id
    BY DEF StorageInv, ChangeLogSound, ChangesBehindSequence
  <1>2. objects[id][u] = NoRow
    BY <1>1 DEF StorageInv, ChangeLogSound, LogMatchesObjects
  <1>3. SeqsOf(id, u) = {}
    BY <1>1 DEF SeqsOf
  <1> QED
    BY <1>2, <1>3 DEF VersionOf, ETagOf, StampOf

(* The stamp of a URI whose rows in the log are what they were.            *)
LEMMA StampStays ==
    ASSUME NEW id \in Id, NEW u \in Uri,
           \A ch : ch.cid = id /\ ch.uri = u =>
             (ch \in object_changes' <=> ch \in object_changes)
    PROVE  StampOf(id, u)' = StampOf(id, u)
  <1>1. SeqsOf(id, u)' = SeqsOf(id, u)
    BY DEF SeqsOf
  <1> QED
    BY <1>1 DEF StampOf

(* Nothing is stored, so nothing has happened.                             *)
LEMMA HistoryInit == StorageInit => History!Init
  <1> SUFFICES ASSUME StorageInit PROVE History!Init
    OBVIOUS
  <1>1. StorageInv /\ Live = {}
    BY StorageInitInv DEF StorageInit, Live
  <1>2. \A id \in Id : VersionOf(id) = 0
    BY <1>1 DEF VersionOf
  <1>3. \A id \in Id, u \in Uri : ETagOf(id, u) = NoRow /\ StampOf(id, u) = 0
    BY <1>1, NothingOutside
  <1> QED
    BY <1>1, <1>2, <1>3 DEF History!Init, History!Nothing, History!Unchanged

(* An inserted collection is empty and at version 0, as its place was.     *)
LEMMA CreateIsCreate ==
    ASSUME StorageInv, NEW name \in Name, NEW type \in CollectionType,
           CreateCollection(name, type)
    PROVE  \E id \in Id : History!Create(id)
  <1> DEFINE row == [name |-> name, type |-> type, sync_seq |-> 0,
                     ctag |-> ctagFor(0), birth |-> births']
  <1>1. PICK id \in Id : NextRowId(id) /\ collections' = [collections EXCEPT ![id] = row]
    BY DEF CreateCollection
  <1>2. StorageInv' /\ objects' = objects /\ object_changes' = object_changes
    BY CreateCollectionInv
  <1>3. id \notin Live
    BY <1>1 DEF NextRowId, Id, Live
  <1>4. row.sync_seq = 0 /\ collections'[id] = row
    BY <1>1 DEF StorageInv, StorageTypeOK
  <1>5. row # NoRow
    <2>1. births' \in Nat
      BY <1>2 DEF StorageInv, StorageTypeOK
    <2>2. row \in Collection
      BY <2>1 DEF Collection, ctagFor
    <2> QED
      BY <2>2, StorageAssumption
  <1> HIDE DEF row
  <1>6. Live' = Live \cup {id} /\ \A o \in Live : collections'[o] = collections[o]
    BY <1>1, <1>3, <1>5 DEF Live, StorageInv, StorageTypeOK
  <1>7. \A o \in Id : VersionOf(o)' = VersionOf(o)
    BY <1>3, <1>4, <1>6 DEF VersionOf
  <1>8. \A o \in Id, u \in Uri : ETagOf(o, u)' = ETagOf(o, u) /\ StampOf(o, u)' = StampOf(o, u)
    BY <1>2, StampStays DEF ETagOf
  <1>9. History!Create(id)
    BY <1>3, <1>6, <1>7, <1>8 DEF History!Create
  <1> QED
    BY <1>9

(* The cascade takes the members and their stamps along.                   *)
LEMMA DropIsDrop ==
    ASSUME StorageInv, NEW ids, DropCollections(ids)
    PROVE  ids \in SUBSET Id /\ History!Drop(ids)
  <1>1. /\ StorageInv' /\ Live' = Live \ ids
        /\ \A o \in Id \ ids :
             /\ collections'[o] = collections[o]
             /\ objects'[o] = objects[o]
             /\ \A ch : ch.cid = o => (ch \in object_changes' <=> ch \in object_changes)
    BY DropCollectionsInv
  <1>2. ids # {} /\ ids \subseteq Live /\ ids \subseteq Id
    BY DEF DropCollections, Live
  <1>3. \A o \in Id \ ids : VersionOf(o)' = VersionOf(o)
    BY <1>1 DEF VersionOf
  <1>4. \A o \in Id \ ids, u \in Uri :
          ETagOf(o, u)' = ETagOf(o, u) /\ StampOf(o, u)' = StampOf(o, u)
    BY <1>1, StampStays DEF ETagOf
  <1>5. \A o \in ids : VersionOf(o)' = 0
    BY <1>1 DEF VersionOf
  <1>6. \A o \in ids, u \in Uri : ETagOf(o, u)' = NoRow /\ StampOf(o, u)' = 0
    <2> TAKE o \in ids, u \in Uri
    <2>1. \A ch \in object_changes' : ch.cid # o
      BY DEF DropCollections
    <2>2. objects'[o][u] = NoRow
      BY <1>2 DEF DropCollections
    <2>3. SeqsOf(o, u)' = {}
      BY <2>1 DEF SeqsOf
    <2> QED
      BY <2>2, <2>3 DEF ETagOf, StampOf
  <1>7. [o \in Id |-> VersionOf(o)]' =
          [o \in Id |-> IF o \in ids THEN 0 ELSE [p \in Id |-> VersionOf(p)][o]]
    BY <1>3, <1>5
  <1>8. [o \in Id |-> [u \in Uri |-> ETagOf(o, u)]]' =
          [o \in Id |-> IF o \in ids THEN History!Nothing
                        ELSE [p \in Id |-> [u \in Uri |-> ETagOf(p, u)]][o]]
    BY <1>4, <1>6 DEF History!Nothing
  <1>9. [o \in Id |-> [u \in Uri |-> StampOf(o, u)]]' =
          [o \in Id |-> IF o \in ids THEN History!Unchanged
                        ELSE [p \in Id |-> [u \in Uri |-> StampOf(p, u)]][o]]
    BY <1>4, <1>6 DEF History!Unchanged
  <1> QED
    BY <1>1, <1>2, <1>7, <1>8, <1>9 DEF History!Drop

(* A write of a member makes the next version and stamps its URI: the only *)
(* row it leaves of the URI carries the new sequence.                      *)
LEMMA TransitionIsChange ==
    ASSUME StorageInv, NEW id \in Live, NEW uri \in Uri, NEW row \in Object \cup {NoRow},
           NEW type \in ChangeType, NewETag(row) # ETagOf(id, uri),
           Transition(id, uri, row, type)
    PROVE  History!Change(id, uri, NewETag(row))
  <1>1. recordChange(id, uri, type) /\ objects' = [objects EXCEPT ![id][uri] = row]
    BY DEF Transition
  <1>2. id \in Id /\ collections[id] \in Collection /\ StorageTypeOK
    BY LiveRow DEF StorageInv
  <1> DEFINE seq == collections[id].sync_seq + 1
             new == [cid |-> id, seq |-> seq, uri |-> uri, type |-> type]
  <1>3. /\ Live' = Live
        /\ \A o \in Id \ {id} : collections'[o] = collections[o]
        /\ collections'[id].sync_seq = seq
    BY <1>1, <1>2, RecordedRow
  <1>4. object_changes' =
          {ch \in object_changes : ~(ch.cid = id /\ ch.uri = uri)} \cup {new}
    BY <1>1 DEF recordChange
  <1>5. new.cid = id /\ new.uri = uri /\ new.seq = seq /\ seq \in Nat
    BY <1>2 DEF Collection
  <1> HIDE DEF new, seq
  <1>6. /\ VersionOf(id) + 1 = seq /\ VersionOf(id)' = seq
        /\ \A o \in Id \ {id} : VersionOf(o)' = VersionOf(o)
    BY <1>2, <1>3 DEF VersionOf, seq
  <1>7. ETagOf(id, uri)' = NewETag(row)
    BY <1>1, <1>2 DEF ETagOf, NewETag, StorageTypeOK
  <1>8. \A o \in Id, u \in Uri : ~(o = id /\ u = uri) => ETagOf(o, u)' = ETagOf(o, u)
    BY <1>1, <1>2 DEF ETagOf, StorageTypeOK
  <1>9. StampOf(id, uri)' = seq
    <2>1. SeqsOf(id, uri)' = {seq}
      BY <1>4, <1>5 DEF SeqsOf
    <2>2. StampOf(id, uri)' = CHOOSE s \in {seq} : \A t \in {seq} : t <= s
      BY <2>1 DEF StampOf
    <2> QED
      BY <1>5, <2>2
  <1>10. \A o \in Id, u \in Uri : ~(o = id /\ u = uri) => StampOf(o, u)' = StampOf(o, u)
    <2> SUFFICES ASSUME NEW o \in Id, NEW u \in Uri, ~(o = id /\ u = uri)
                 PROVE  StampOf(o, u)' = StampOf(o, u)
      OBVIOUS
    <2>1. \A ch : ch.cid = o /\ ch.uri = u =>
            (ch \in object_changes' <=> ch \in object_changes)
      BY <1>4, <1>5
    <2> QED
      BY <2>1, StampStays
  <1>11. [o \in Id |-> VersionOf(o)]' =
           [[o \in Id |-> VersionOf(o)] EXCEPT ![id] = @ + 1]
    BY <1>2, <1>6
  <1>12. [o \in Id |-> [u \in Uri |-> ETagOf(o, u)]]' =
           [[o \in Id |-> [u \in Uri |-> ETagOf(o, u)]] EXCEPT ![id][uri] = NewETag(row)]
    BY <1>2, <1>7, <1>8
  <1>13. [o \in Id |-> [u \in Uri |-> StampOf(o, u)]]' =
           [[o \in Id |-> [u \in Uri |-> StampOf(o, u)]] EXCEPT
              ![id][uri] = [o \in Id |-> VersionOf(o)][id] + 1]
    BY <1>2, <1>6, <1>9, <1>10
  <1>14. id \in Live /\ Live' = Live
         /\ [o \in Id |-> [u \in Uri |-> ETagOf(o, u)]][id][uri] # NewETag(row)
    BY <1>2, <1>3
  <1> QED
    BY <1>11, <1>12, <1>13, <1>14 DEF History!Change

(* Every step of the tables is a step of the history, or leaves it alone.  *)
LEMMA HistoryStep ==
    ASSUME StorageInv, [StorageNext]_storageVars
    PROVE  [History!Next]_(History!historyVars)
  <1>1. CASE UNCHANGED storageVars
    <2>1. Live' = Live /\ \A id \in Id : VersionOf(id)' = VersionOf(id)
      BY <1>1 DEF storageVars, Live, VersionOf
    <2>2. \A id \in Id, u \in Uri : ETagOf(id, u)' = ETagOf(id, u)
      BY <1>1 DEF storageVars, ETagOf
    <2>3. \A id \in Id, u \in Uri : StampOf(id, u)' = StampOf(id, u)
      BY <1>1, StampStays DEF storageVars
    <2> QED
      BY <2>1, <2>2, <2>3 DEF History!historyVars
  <1>2. CASE \E n \in Name, t \in CollectionType : CreateCollection(n, t)
    BY <1>2, CreateIsCreate DEF History!Next
  <1>3. CASE \E ids : DropCollections(ids)
    BY <1>3, DropIsDrop DEF History!Next
  <1>4. ASSUME NEW id \in Live, NEW uri \in Uri, NEW row \in Object \cup {NoRow},
               NEW type \in ChangeType, NewETag(row) # ETagOf(id, uri),
               Transition(id, uri, row, type)
        PROVE  History!Next
    <2>1. id \in Id
      BY DEF Live
    <2>2. NewETag(row) \in ETag \cup {NoRow}
      BY DEF NewETag, Object
    <2>3. History!Change(id, uri, NewETag(row))
      BY <1>4, TransitionIsChange
    <2> QED
      BY <2>1, <2>2, <2>3 DEF History!Next
  <1> QED
    BY <1>1, <1>2, <1>3, <1>4, WriteCases

(* The tables implement the history: after any writes, creations and       *)
(* deletions of collections, in any order and with any rowid used again,   *)
(* the one row per URI that recordChange keeps tells what a complete       *)
(* history would (recordChange, ChangesSince).                             *)
THEOREM TablesImplementHistory == Spec => ImplementsHistory
  <1>1. Init => History!Init
    BY HistoryInit DEF Init
  <1>2. IInv /\ [Next]_vars => [History!Next]_(History!historyVars)
    BY TablesStep, HistoryStep DEF IInv
  <1> QED
    BY <1>1, <1>2, Invariance, PTL DEF Spec, ImplementsHistory, History!Spec
=============================================================================
