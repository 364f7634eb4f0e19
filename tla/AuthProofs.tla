----------------------------- MODULE AuthProofs -----------------------------
(***************************************************************************)
(* Proofs about BasicAuth, for any number of requests, names, passwords    *)
(* and slots and for every value of the limits.                            *)
(***************************************************************************)
EXTENDS BasicAuth, FiniteSetTheorems, TLAPS

-----------------------------------------------------------------------------
(* Steps of one request                                                    *)

(* A request that is not idle has all its fields.                          *)
LEMMA ActiveRequest ==
    ASSUME TypeOK, NEW r \in Request, request[r].phase # "idle"
    PROVE  request[r] \in RequestState
  BY DEF TypeOK, NoRequest

(* A request that goes on to another phase keeps everything else.          *)
LEMMA StepTyped ==
    ASSUME TypeOK, NEW r \in Request, NEW from, NEW to \in Phase, from # "idle",
           Step(r, from, to)
    PROVE  /\ request' \in [Request -> RequestState \cup {NoRequest}]
           /\ request'[r] = [request[r] EXCEPT !.phase = to]
           /\ \A q \in Request : q # r => request'[q] = request[q]
  <1>1. request[r] \in RequestState
    BY ActiveRequest DEF Step
  <1>2. [request[r] EXCEPT !.phase = to] \in RequestState
    BY <1>1 DEF RequestState
  <1> QED
    BY <1>2 DEF Step, TypeOK

(* A request that is over.                                                 *)
LEMMA DoneTyped ==
    ASSUME TypeOK, NEW r \in Request, Done(r)
    PROVE  /\ request' \in [Request -> RequestState \cup {NoRequest}]
           /\ request'[r] = NoRequest
           /\ \A q \in Request : q # r => request'[q] = request[q]
  BY DEF Done, TypeOK

(* Forgetting records leaves the others.                                   *)
LEMMA ForgetTyped ==
    ASSUME TypeOK, NEW names
    PROVE  Forget(names) \in [Username -> FailureRecord \cup {NoRecord}]
  BY DEF Forget, TypeOK

(* A failure that is recorded is a record.                                 *)
LEMMA RecordFailureTyped ==
    ASSUME TypeOK, NEW name \in Username, NEW now \in Nat, RecordFailure(name, now)
    PROVE  failures' \in [Username -> FailureRecord \cup {NoRecord}]
  <1> DEFINE fresh == failures[name] = NoRecord \/ Expired(failures[name], now)
             others == IF Cardinality(Recorded) >= maxThrottleKey
                       THEN Swept(now) ELSE failures
  <1>1. others \in [Username -> FailureRecord \cup {NoRecord}]
    <2>1. Swept(now) \in [Username -> FailureRecord \cup {NoRecord}]
      BY ForgetTyped DEF Swept
    <2> QED
      BY <2>1 DEF TypeOK
  <1>2. CASE fresh
    <2>1. [count |-> 1, first |-> now] \in FailureRecord
      BY DEF FailureRecord
    <2>2. failures' = [others EXCEPT ![name] = [count |-> 1, first |-> now]]
      BY <1>2 DEF RecordFailure
    <2> QED
      BY <1>1, <2>1, <2>2
  <1>3. CASE ~fresh
    <2>1. failures[name] \in FailureRecord
      BY <1>3 DEF TypeOK
    <2>2. [failures[name] EXCEPT !.count = @ + 1] \in FailureRecord
      BY <2>1 DEF FailureRecord
    <2>3. failures' = [failures EXCEPT ![name] = [failures[name] EXCEPT !.count = @ + 1]]
      BY <1>3 DEF RecordFailure
    <2> QED
      BY <2>2, <2>3 DEF TypeOK
  <1> QED
    BY <1>2, <1>3

(* When the rows of users change, requests only come to be held.           *)
LEMMA ChangeUsersTyped ==
    ASSUME TypeOK, NEW rows \in [Account -> Hash \cup {NoUser}], ChangeUsers(rows)
    PROVE  /\ users' = rows
           /\ request' \in [Request -> RequestState \cup {NoRequest}]
           /\ \A r \in Request :
                IF request[r].phase # "idle" /\ Matches(rows, request[r].name, request[r].password)
                THEN request'[r] = [request[r] EXCEPT !.held = TRUE]
                ELSE request'[r] = request[r]
  <1>1. ASSUME NEW r \in Request, request[r].phase # "idle"
        PROVE  [request[r] EXCEPT !.held = TRUE] \in RequestState
    BY <1>1, ActiveRequest DEF RequestState
  <1> QED
    BY <1>1 DEF ChangeUsers, TypeOK

(* What a change of the accounts is.                                       *)
AccountStep ==
    \/ \E a \in Account, pw \in Password : CreateUser(a, pw) \/ SetPassword(a, pw)
    \/ \E a, b \in Account : UpdateUser(a, b)
    \/ \E a \in Account : DeleteUser(a)

(* Whatever is done to the accounts, it puts typed rows in their place.    *)
LEMMA AccountEffect ==
    ASSUME TypeOK, AccountStep
    PROVE  /\ salts' \in Nat
           /\ UNCHANGED <<clock, failures, entries, slots>>
           /\ \E rows \in [Account -> Hash \cup {NoUser}] : ChangeUsers(rows)
  <1>1. ASSUME NEW a \in Account, NEW pw \in Password, Install(a, pw)
        PROVE  /\ salts' \in Nat
               /\ UNCHANGED <<clock, failures, entries, slots>>
               /\ \E rows \in [Account -> Hash \cup {NoUser}] : ChangeUsers(rows)
    <2>1. [password |-> pw, salt |-> salts] \in Hash
      BY DEF Hash, TypeOK
    <2>2. [users EXCEPT ![a] = [password |-> pw, salt |-> salts]]
            \in [Account -> Hash \cup {NoUser}]
      BY <2>1 DEF TypeOK
    <2>3. \E rows \in [Account -> Hash \cup {NoUser}] : ChangeUsers(rows)
      BY <1>1, <2>2 DEF Install
    <2>4. UNCHANGED <<clock, failures, entries, slots>> /\ salts' \in Nat
      BY <1>1 DEF Install, ChangeUsers, TypeOK
    <2> QED
      BY <2>3, <2>4
  <1>2. ASSUME NEW a \in Account, NEW b \in Account, UpdateUser(a, b)
        PROVE  /\ salts' \in Nat
               /\ UNCHANGED <<clock, failures, entries, slots>>
               /\ \E rows \in [Account -> Hash \cup {NoUser}] : ChangeUsers(rows)
    <2>1. [users EXCEPT ![a] = NoUser, ![b] = users[a]] \in [Account -> Hash \cup {NoUser}]
      BY DEF TypeOK
    <2>2. \E rows \in [Account -> Hash \cup {NoUser}] : ChangeUsers(rows)
      BY <1>2, <2>1 DEF UpdateUser
    <2>3. UNCHANGED <<clock, failures, entries, slots>> /\ salts' \in Nat
      BY <1>2 DEF UpdateUser, ChangeUsers, TypeOK
    <2> QED
      BY <2>2, <2>3
  <1>3. ASSUME NEW a \in Account, DeleteUser(a)
        PROVE  /\ salts' \in Nat
               /\ UNCHANGED <<clock, failures, entries, slots>>
               /\ \E rows \in [Account -> Hash \cup {NoUser}] : ChangeUsers(rows)
    <2>1. [users EXCEPT ![a] = NoUser] \in [Account -> Hash \cup {NoUser}]
      BY DEF TypeOK
    <2>2. \E rows \in [Account -> Hash \cup {NoUser}] : ChangeUsers(rows)
      BY <1>3, <2>1 DEF DeleteUser
    <2>3. UNCHANGED <<clock, failures, entries, slots>> /\ salts' \in Nat
      BY <1>3 DEF DeleteUser, ChangeUsers, TypeOK
    <2> QED
      BY <2>2, <2>3
  <1> QED
    BY <1>1, <1>2, <1>3 DEF AccountStep, CreateUser, SetPassword

-----------------------------------------------------------------------------
(* Types and slots                                                         *)

SlotInv == TypeOK /\ SlotsAreHeld

(* A request that was in one of these phases is not verifying afterwards   *)
(* either, and nobody else has moved.                                      *)
LEMMA NobodyVerifies ==
    ASSUME TypeOK, NEW r \in Request, request[r].phase # "verifying",
           request'[r].phase # "verifying",
           \A q \in Request : q # r => request'[q] = request[q]
    PROVE  Verifying' = Verifying
  BY DEF Verifying

(* The requests that verify are finitely many.                             *)
LEMMA FiniteVerifying == IsFiniteSet(Verifying)
  BY AuthAssumption, FS_Subset DEF Verifying

(* A slot is taken and held.                                               *)
LEMMA TakeSlotKeeps ==
    ASSUME SlotInv, NEW r \in Request, TakeSlot(r)
    PROVE  SlotInv'
  <1>1. /\ request' \in [Request -> RequestState \cup {NoRequest}]
        /\ request'[r] = [request[r] EXCEPT !.phase = "verifying"]
        /\ \A q \in Request : q # r => request'[q] = request[q]
    BY StepTyped DEF SlotInv, TakeSlot, Phase
  <1>2. request[r] \in RequestState
    BY ActiveRequest DEF SlotInv, TakeSlot, Step
  <1>3. request[r].phase = "waiting" /\ request'[r].phase = "verifying"
    BY <1>1, <1>2 DEF TakeSlot, Step, RequestState
  <1>4. Verifying' = Verifying \cup {r} /\ r \notin Verifying
    BY <1>1, <1>3 DEF Verifying
  <1>5. Cardinality(Verifying') = Cardinality(Verifying) + 1
    BY <1>4, FiniteVerifying, FS_AddElement
  <1>6. TypeOK'
    BY <1>1 DEF SlotInv, TypeOK, TakeSlot
  <1>7. SlotsAreHeld'
    BY <1>5, AuthAssumption DEF SlotInv, SlotsAreHeld, TakeSlot, TypeOK
  <1> QED
    BY <1>6, <1>7 DEF SlotInv

(* The slot is given back with the verification.                           *)
LEMMA VerifyKeeps ==
    ASSUME SlotInv, NEW r \in Request, Verify(r)
    PROVE  SlotInv'
  <1>1. request[r] \in RequestState /\ request[r].phase = "verifying"
    BY ActiveRequest DEF SlotInv, Verify
  <1>2. PICK to \in {"verified", "failed"} :
          request' = [request EXCEPT ![r].phase = to]
    BY DEF Verify
  <1>3. Step(r, "verifying", to)
    BY <1>1, <1>2 DEF Step
  <1>4. /\ request' \in [Request -> RequestState \cup {NoRequest}]
        /\ request'[r] = [request[r] EXCEPT !.phase = to]
        /\ \A q \in Request : q # r => request'[q] = request[q]
    <2>1. to \in Phase /\ "verifying" # "idle"
      BY DEF Phase
    <2>2. TypeOK
      BY DEF SlotInv
    <2> QED
      BY <1>3, <2>1, <2>2, StepTyped
  <1>5. request'[r].phase # "verifying"
    BY <1>1, <1>4 DEF RequestState
  <1>6. Verifying' = Verifying \ {r} /\ r \in Verifying
    BY <1>1, <1>4, <1>5 DEF Verifying
  <1>7. Cardinality(Verifying') = Cardinality(Verifying) - 1
    BY <1>6, FiniteVerifying, FS_RemoveElement
  <1>8. Cardinality(Verifying) \in Nat /\ Cardinality(Verifying') \in Nat
    <2>1. IsFiniteSet(Verifying')
      BY <1>6, FiniteVerifying, FS_RemoveElement
    <2> QED
      BY <2>1, FiniteVerifying, FS_CardinalityType
  <1>9. slots' = slots - 1 /\ UNCHANGED <<clock, users, salts, failures, entries>>
    BY DEF Verify
  <1>10. slots' \in Nat /\ SlotsAreHeld'
    BY <1>7, <1>8, <1>9, AuthAssumption DEF SlotInv, SlotsAreHeld
  <1>11. TypeOK'
    BY <1>4, <1>9, <1>10 DEF SlotInv, TypeOK
  <1> QED
    BY <1>10, <1>11 DEF SlotInv

(* The other steps neither take nor give back a slot.                      *)
LEMMA OtherStepsKeep ==
    ASSUME SlotInv, NEW r \in Request,
           \/ \E n \in Username, pw \in Password : Arrive(r, n, pw)
           \/ CheckThrottle(r) \/ FindUser(r) \/ CheckCache(r) \/ Remember(r)
           \/ Reject(r) \/ Admit(r) \/ Finish(r) \/ FindUserFails(r) \/ GiveUp(r)
    PROVE  SlotInv'
  <1> USE DEF SlotInv
  <1>a. ASSUME NEW from \in Phase \ {"idle", "verifying"}, NEW to \in Phase \ {"verifying"},
               Step(r, from, to)
        PROVE  request' \in [Request -> RequestState \cup {NoRequest}] /\ Verifying' = Verifying
    <2>1. /\ request' \in [Request -> RequestState \cup {NoRequest}]
          /\ request'[r] = [request[r] EXCEPT !.phase = to]
          /\ \A q \in Request : q # r => request'[q] = request[q]
      BY <1>a, StepTyped
    <2>2. request[r] \in RequestState /\ request[r].phase # "verifying"
      BY <1>a, ActiveRequest DEF Step
    <2>3. request'[r].phase # "verifying"
      BY <2>1, <2>2 DEF RequestState
    <2> QED
      BY <2>1, <2>2, <2>3, NobodyVerifies
  <1>b. ASSUME Done(r), request[r].phase # "verifying"
        PROVE  request' \in [Request -> RequestState \cup {NoRequest}] /\ Verifying' = Verifying
    <2>1. request'[r].phase # "verifying"
      BY <1>b, DoneTyped DEF NoRequest
    <2> QED
      BY <1>b, <2>1, DoneTyped, NobodyVerifies
  <1>c. ASSUME request' \in [Request -> RequestState \cup {NoRequest}], Verifying' = Verifying,
               failures' \in [Username -> FailureRecord \cup {NoRecord}],
               \A e \in entries' : e.expires \in Nat,
               UNCHANGED <<clock, users, salts, slots>>
        PROVE  SlotInv'
    BY <1>c DEF TypeOK, SlotsAreHeld
  <1>1. ASSUME NEW n \in Username, NEW pw \in Password, Arrive(r, n, pw) PROVE SlotInv'
    <2> DEFINE new == [phase |-> "arrived", name |-> n, password |-> pw,
                       now |-> clock, at |-> 0, hash |-> NoUser,
                       held |-> Matches(users, n, pw)]
    <2>1. new \in RequestState
      BY DEF RequestState, Phase, TypeOK, Matches
    <2>2. request' = [request EXCEPT ![r] = new] /\ request[r].phase = "idle"
      BY <1>1 DEF Arrive
    <2> HIDE DEF new
    <2>3. /\ request' \in [Request -> RequestState \cup {NoRequest}]
          /\ request'[r] = new
          /\ \A q \in Request : q # r => request'[q] = request[q]
      BY <2>1, <2>2 DEF TypeOK
    <2>4. new.phase # "verifying"
      BY DEF new
    <2>5. Verifying' = Verifying
      BY <2>2, <2>3, <2>4, NobodyVerifies
    <2> QED
      BY <1>1, <1>c, <2>3, <2>5 DEF Arrive, TypeOK
  <1>2. ASSUME CheckThrottle(r) PROVE SlotInv'
    <2>1. request' \in [Request -> RequestState \cup {NoRequest}] /\ Verifying' = Verifying
      BY <1>2, <1>a, <1>b DEF CheckThrottle, Phase
    <2>2. failures' \in [Username -> FailureRecord \cup {NoRecord}]
      BY <1>2, ForgetTyped DEF CheckThrottle, Allow
    <2> QED
      BY <1>2, <1>c, <2>1, <2>2 DEF CheckThrottle, TypeOK
  <1>3. ASSUME FindUser(r) PROVE SlotInv'
    <2>1. request[r] \in RequestState /\ request[r].phase = "allowed"
      BY <1>3, ActiveRequest DEF FindUser
    <2>2. PICK to \in {"waiting", "found"} :
            request' = [request EXCEPT ![r].phase = to,
                                       ![r].hash = users[Fold[request[r].name]],
                                       ![r].at = clock]
      BY <1>3 DEF FindUser
    <2> DEFINE new == [request[r] EXCEPT !.phase = to, !.at = clock,
                                         !.hash = users[Fold[request[r].name]]]
    <2>3. users[Fold[request[r].name]] \in Hash \cup {NoUser}
      BY <2>1, AuthAssumption DEF RequestState, TypeOK
    <2>4. new \in RequestState /\ new.phase = to
      BY <2>1, <2>3 DEF RequestState, Phase, TypeOK
    <2>5. request' = [request EXCEPT ![r] = new]
      BY <2>1, <2>2 DEF RequestState, TypeOK
    <2> HIDE DEF new
    <2>6. request' \in [Request -> RequestState \cup {NoRequest}] /\ Verifying' = Verifying
      BY <2>1, <2>4, <2>5, NobodyVerifies DEF TypeOK
    <2> QED
      BY <1>3, <1>c, <2>6 DEF FindUser, TypeOK
  <1>4. ASSUME CheckCache(r) PROVE SlotInv'
    <2>1. request' \in [Request -> RequestState \cup {NoRequest}] /\ Verifying' = Verifying
      BY <1>4, <1>a DEF CheckCache, Phase
    <2>2. \A e \in entries' : e.expires \in Nat
      BY <1>4 DEF CheckCache, TypeOK
    <2> QED
      BY <1>4, <1>c, <2>1, <2>2 DEF CheckCache, TypeOK
  <1>5. ASSUME Remember(r) PROVE SlotInv'
    <2>1. request' \in [Request -> RequestState \cup {NoRequest}] /\ Verifying' = Verifying
      BY <1>5, <1>a DEF Remember, Phase
    <2>2. request[r].at \in Nat
      BY <1>5, ActiveRequest DEF Remember, Step, RequestState
    <2>3. entries' \subseteq entries \cup
                       {[id |-> IdOf(r), expires |-> request[r].at + CredentialTTL]}
      BY <1>5 DEF Remember, RememberIn, Fresh
    <2>4. \A e \in entries' : e.expires \in Nat
      BY <2>2, <2>3, AuthAssumption DEF TypeOK
    <2> QED
      BY <1>5, <1>c, <2>1, <2>4 DEF Remember, TypeOK
  <1>6. ASSUME Reject(r) PROVE SlotInv'
    <2>1. request' \in [Request -> RequestState \cup {NoRequest}] /\ Verifying' = Verifying
      BY <1>6, <1>b DEF Reject
    <2>2. request[r].name \in Username /\ request[r].now \in Nat
      BY <1>6, ActiveRequest DEF Reject, RequestState
    <2>3. failures' \in [Username -> FailureRecord \cup {NoRecord}]
      BY <1>6, <2>2, RecordFailureTyped DEF Reject
    <2> QED
      BY <1>6, <1>c, <2>1, <2>3 DEF Reject, TypeOK
  <1>7. ASSUME Admit(r) PROVE SlotInv'
    <2>1. request' \in [Request -> RequestState \cup {NoRequest}] /\ Verifying' = Verifying
      BY <1>7, <1>a DEF Admit, Phase
    <2>2. failures' \in [Username -> FailureRecord \cup {NoRecord}]
      BY <1>7, ForgetTyped DEF Admit
    <2> QED
      BY <1>7, <1>c, <2>1, <2>2 DEF Admit, TypeOK
  <1>8. ASSUME Finish(r) PROVE SlotInv'
    <2>1. request' \in [Request -> RequestState \cup {NoRequest}] /\ Verifying' = Verifying
      BY <1>8, <1>b DEF Finish
    <2> QED
      BY <1>8, <1>c, <2>1 DEF Finish, TypeOK
  <1>9. ASSUME FindUserFails(r) \/ GiveUp(r) PROVE SlotInv'
    <2>1. request' \in [Request -> RequestState \cup {NoRequest}] /\ Verifying' = Verifying
      BY <1>9, <1>a DEF FindUserFails, GiveUp, Phase
    <2> QED
      BY <1>9, <1>c, <2>1 DEF FindUserFails, GiveUp, TypeOK
  <1> QED
    BY <1>1, <1>2, <1>3, <1>4, <1>5, <1>6, <1>7, <1>8, <1>9

(* Changes of the accounts, and time.                                      *)
LEMMA AccountsKeep ==
    ASSUME SlotInv, AccountStep \/ Tick \/ UNCHANGED vars
    PROVE  SlotInv'
  <1>1. CASE AccountStep
    <2>1. PICK rows \in [Account -> Hash \cup {NoUser}] : ChangeUsers(rows)
      BY <1>1, AccountEffect DEF SlotInv
    <2>2. /\ salts' \in Nat
          /\ UNCHANGED <<clock, failures, entries, slots>>
      BY <1>1, AccountEffect DEF SlotInv
    <2>3. /\ users' = rows
          /\ request' \in [Request -> RequestState \cup {NoRequest}]
          /\ \A r \in Request : \/ request'[r] = request[r]
                              \/ /\ request[r].phase # "idle"
                                 /\ request'[r] = [request[r] EXCEPT !.held = TRUE]
      BY <2>1, ChangeUsersTyped DEF SlotInv
    <2>4. \A r \in Request : request'[r].phase = request[r].phase
      BY <2>3, ActiveRequest DEF SlotInv, RequestState
    <2>5. Verifying' = Verifying
      BY <2>4 DEF Verifying
    <2> QED
      BY <2>2, <2>3, <2>5 DEF SlotInv, TypeOK, SlotsAreHeld
  <1>2. CASE Tick
    BY <1>2 DEF Tick, SlotInv, TypeOK, SlotsAreHeld, Verifying
  <1>3. CASE UNCHANGED vars
    BY <1>3 DEF vars, SlotInv, TypeOK, SlotsAreHeld, Verifying
  <1> QED
    BY <1>1, <1>2, <1>3

(* Nothing has happened yet.                                               *)
LEMMA SlotInit == Init => SlotInv
  <1> SUFFICES ASSUME Init PROVE SlotInv
    OBVIOUS
  <1>1. Verifying = {}
    BY DEF Init, Verifying, NoRequest
  <1> QED
    BY <1>1, FS_EmptySet, AuthAssumption DEF Init, SlotInv, TypeOK, SlotsAreHeld

(* Every step keeps the slots in use the size of the set of requests that  *)
(* verify.                                                                 *)
LEMMA SlotStep == SlotInv /\ [Next]_vars => SlotInv'
  BY TakeSlotKeeps, VerifyKeeps, OtherStepsKeep, AccountsKeep DEF Next, Handle, AccountStep

(* Types and slots together are invariant: each path of RequireBasicAuth   *)
(* into a verification takes a slot and each path out of it gives one      *)
(* back.                                                                   *)
THEOREM SlotInvariant == Spec => []SlotInv
  BY SlotInit, SlotStep, PTL DEF Spec

(* Every request, record and entry has its type: a handler only reads      *)
(* fields that it has set.                                                 *)
THEOREM AuthTyped == Spec => []TypeOK
  <1>1. SlotInv => TypeOK
    BY DEF SlotInv
  <1> QED
    BY <1>1, SlotInvariant, PTL

(* No slot is leaked, and no more verifications run at once than there are *)
(* slots (withVerificationSlot).                                           *)
THEOREM SlotsAreReturned == Spec => []SlotsAreHeld
  <1>1. SlotInv => SlotsAreHeld
    BY DEF SlotInv
  <1> QED
    BY <1>1, SlotInvariant, PTL

-----------------------------------------------------------------------------
(* Passwords                                                               *)

(* What a request has read says of its password: the account has it now,   *)
(* or its hash was that of the account since the request arrived.          *)
Grounds(r) ==
    /\ request[r].phase # "idle" /\ Matches(users, request[r].name, request[r].password)
         => request[r].held
    /\ request[r].phase \in {"found", "waiting", "verifying", "verified"}
       /\ request[r].hash # NoUser /\ VerifyPassword(request[r].hash, request[r].password)
         => request[r].held
    /\ request[r].phase = "found" => request[r].hash # NoUser
    /\ request[r].phase = "verified" =>
         request[r].hash # NoUser /\ VerifyPassword(request[r].hash, request[r].password)
    /\ request[r].phase \in {"authenticated", "admitted"} => request[r].held

(* A cached entry names a password and a hash it was verified against.     *)
EntriesVerified ==
    \A e \in entries : \A n, pw, hash :
      e.id = CredentialId(n, pw, hash) => VerifyPassword(hash, pw)

PasswordInv ==
    /\ TypeOK
    /\ EntriesVerified
    /\ \A r \in Request : Grounds(r)

(* The grounds of a request whose account and state are as they were.      *)
LEMMA GroundsStay ==
    ASSUME NEW q \in Request, Grounds(q), request'[q] = request[q], users' = users
    PROVE  Grounds(q)'
  BY DEF Grounds, Matches

(* A request that goes on without having learned anything.                 *)
LEMMA GroundsStep ==
    ASSUME TypeOK, NEW r \in Request, Grounds(r), users' = users,
           NEW from, NEW to, Step(r, from, to), from # "idle",
           \/ to = "failed" \/ to = "allowed"
           \/ from = "found" /\ to = "waiting"
           \/ from = "waiting" /\ to = "verifying"
           \/ to \in {"authenticated", "admitted"} /\ request[r].held
    PROVE  Grounds(r)'
  <1>1. request[r] \in RequestState /\ request[r].phase = from
    BY ActiveRequest DEF Step
  <1>2. request'[r] = [request[r] EXCEPT !.phase = to]
    BY DEF Step, TypeOK
  <1>3. /\ request'[r].phase = to
        /\ request'[r].name = request[r].name
        /\ request'[r].password = request[r].password
        /\ request'[r].hash = request[r].hash
        /\ request'[r].held = request[r].held
    BY <1>1, <1>2 DEF RequestState
  <1> QED
    BY <1>1, <1>3 DEF Grounds, Matches

(* A request that is over has no grounds to keep.                          *)
LEMMA GroundsDone ==
    ASSUME TypeOK, NEW r \in Request, Done(r)
    PROVE  Grounds(r)'
  BY DoneTyped DEF Grounds, NoRequest

(* Every step of a request, on the types that are known to hold.           *)
LEMMA PasswordOfRequest ==
    ASSUME PasswordInv, NEW r \in Request, users' = users,
           \/ \E n \in Username, pw \in Password : Arrive(r, n, pw)
           \/ Handle(r) \/ FindUserFails(r) \/ TakeSlot(r) \/ GiveUp(r)
    PROVE  Grounds(r)' /\ EntriesVerified'
  <1> USE DEF PasswordInv
  <1>0. Grounds(r)
    OBVIOUS
  <1>1. ASSUME NEW n \in Username, NEW pw \in Password, Arrive(r, n, pw)
        PROVE  Grounds(r)' /\ EntriesVerified'
    <2> DEFINE new == [phase |-> "arrived", name |-> n, password |-> pw,
                       now |-> clock, at |-> 0, hash |-> NoUser,
                       held |-> Matches(users, n, pw)]
    <2>1. request'[r] = new /\ entries' = entries
      BY <1>1 DEF Arrive, TypeOK
    <2>2. new.phase = "arrived" /\ new.name = n /\ new.password = pw
          /\ new.held = Matches(users, n, pw)
      OBVIOUS
    <2> HIDE DEF new
    <2>3. Grounds(r)'
      BY <2>1, <2>2 DEF Grounds, Matches
    <2> QED
      BY <2>1, <2>3 DEF EntriesVerified
  <1>2. ASSUME CheckThrottle(r) PROVE Grounds(r)' /\ EntriesVerified'
    BY <1>0, <1>2, GroundsStep, GroundsDone DEF CheckThrottle, EntriesVerified
  <1>3. ASSUME FindUser(r) PROVE Grounds(r)' /\ EntriesVerified'
    <2>1. request[r] \in RequestState /\ request[r].phase = "allowed"
      BY <1>3, ActiveRequest DEF FindUser
    <2> DEFINE hash == users[Fold[request[r].name]]
    <2>2. PICK to \in {"waiting", "found"} :
            /\ request' = [request EXCEPT ![r].phase = to, ![r].hash = hash, ![r].at = clock]
            /\ to = "found" => hash # NoUser
      BY <1>3 DEF FindUser
    <2>3. /\ request'[r].phase = to
          /\ request'[r].name = request[r].name
          /\ request'[r].password = request[r].password
          /\ request'[r].hash = hash
          /\ request'[r].held = request[r].held
      BY <2>1, <2>2 DEF RequestState, TypeOK
    <2>4. hash # NoUser /\ VerifyPassword(hash, request[r].password) => request[r].held
      BY <1>0, <2>1 DEF Grounds, Matches
    <2>5. Grounds(r)'
      BY <1>0, <2>1, <2>2, <2>3, <2>4 DEF Grounds, Matches
    <2> QED
      BY <1>3, <2>5 DEF FindUser, EntriesVerified
  <1>4. ASSUME CheckCache(r) PROVE Grounds(r)' /\ EntriesVerified'
    <2>1. CASE Verified(IdOf(r), request[r].at)
      <3>1. PICK e \in entries : e.id = IdOf(r)
        BY <2>1 DEF Verified, Fresh
      <3>2. VerifyPassword(request[r].hash, request[r].password)
        BY <3>1 DEF EntriesVerified, IdOf
      <3>3. request[r].held /\ Step(r, "found", "authenticated") /\ entries' = entries
        BY <1>0, <1>4, <2>1, <3>2 DEF CheckCache, Grounds
      <3> QED
        BY <1>0, <3>3, GroundsStep DEF EntriesVerified
    <2>2. CASE ~Verified(IdOf(r), request[r].at)
      <3>1. Step(r, "found", "waiting") /\ entries' \subseteq entries
        BY <1>4, <2>2 DEF CheckCache
      <3>2. Grounds(r)'
        BY <1>0, <3>1, GroundsStep
      <3>3. EntriesVerified'
        BY <3>1 DEF EntriesVerified
      <3> QED
        BY <3>2, <3>3
    <2> QED
      BY <2>1, <2>2
  <1>5. ASSUME Verify(r) PROVE Grounds(r)' /\ EntriesVerified'
    <2>1. request[r] \in RequestState /\ request[r].phase = "verifying"
      BY <1>5, ActiveRequest DEF Verify
    <2>2. PICK to \in {"verified", "failed"} :
            /\ request' = [request EXCEPT ![r].phase = to]
            /\ to = "verified" =>
                 request[r].hash # NoUser /\ VerifyPassword(request[r].hash, request[r].password)
      BY <1>5 DEF Verify
    <2>3. /\ request'[r].phase = to
          /\ request'[r].name = request[r].name
          /\ request'[r].password = request[r].password
          /\ request'[r].hash = request[r].hash
          /\ request'[r].held = request[r].held
      BY <2>1, <2>2 DEF RequestState, TypeOK
    <2>4. Grounds(r)'
      BY <1>0, <2>1, <2>2, <2>3 DEF Grounds, Matches
    <2> QED
      BY <1>5, <2>4 DEF Verify, EntriesVerified
  <1>6. ASSUME Remember(r) PROVE Grounds(r)' /\ EntriesVerified'
    <2>1. request[r].phase = "verified"
      BY <1>6 DEF Remember, Step
    <2>2. VerifyPassword(request[r].hash, request[r].password) /\ request[r].held
      BY <1>0, <2>1 DEF Grounds
    <2>3. entries' \subseteq entries \cup
                       {[id |-> IdOf(r), expires |-> request[r].at + CredentialTTL]}
      BY <1>6 DEF Remember, RememberIn, Fresh
    <2>4. EntriesVerified'
      <3> SUFFICES ASSUME NEW e \in entries', NEW n, NEW pw, NEW hash,
                          e.id = CredentialId(n, pw, hash)
                   PROVE  VerifyPassword(hash, pw)
        BY DEF EntriesVerified
      <3>1. CASE e \in entries
        BY <3>1 DEF EntriesVerified
      <3>2. CASE e = [id |-> IdOf(r), expires |-> request[r].at + CredentialTTL]
        <4>1. CredentialId(n, pw, hash) = IdOf(r)
          BY <3>2
        <4>2. pw = request[r].password /\ hash = request[r].hash
          BY <4>1 DEF IdOf, CredentialId
        <4> QED
          BY <2>2, <4>2
      <3> QED
        BY <2>3, <3>1, <3>2
    <2> QED
      BY <1>0, <1>6, <2>2, <2>4, GroundsStep DEF Remember
  <1>7. ASSUME Reject(r) \/ Finish(r) PROVE Grounds(r)' /\ EntriesVerified'
    BY <1>7, GroundsDone DEF Reject, Finish, EntriesVerified
  <1>8. ASSUME Admit(r) PROVE Grounds(r)' /\ EntriesVerified'
    <2>1. request[r].held
      BY <1>0, <1>8 DEF Grounds, Admit, Step
    <2> QED
      BY <1>0, <1>8, <2>1, GroundsStep DEF Admit, EntriesVerified
  <1>9. ASSUME FindUserFails(r) \/ TakeSlot(r) \/ GiveUp(r)
        PROVE  Grounds(r)' /\ EntriesVerified'
    BY <1>0, <1>9, GroundsStep DEF FindUserFails, TakeSlot, GiveUp, EntriesVerified
  <1> QED
    BY <1>1, <1>2, <1>3, <1>4, <1>5, <1>6, <1>7, <1>8, <1>9 DEF Handle

(* A change of the accounts notes every request whose password it makes    *)
(* current.                                                                *)
LEMMA PasswordOfAccounts ==
    ASSUME PasswordInv, AccountStep
    PROVE  EntriesVerified' /\ \A r \in Request : Grounds(r)'
  <1>1. PICK rows \in [Account -> Hash \cup {NoUser}] : ChangeUsers(rows)
    BY AccountEffect DEF PasswordInv
  <1>2. users' = rows /\ entries' = entries
    BY <1>1 DEF ChangeUsers
  <1>3. ASSUME NEW r \in Request PROVE Grounds(r)'
    <2>1. /\ Grounds(r)
          /\ IF request[r].phase # "idle" /\ Matches(rows, request[r].name, request[r].password)
             THEN request'[r] = [request[r] EXCEPT !.held = TRUE]
             ELSE request'[r] = request[r]
      BY <1>1, ChangeUsersTyped DEF PasswordInv
    <2>2. CASE request[r].phase = "idle"
      BY <2>1, <2>2 DEF Grounds
    <2>3. CASE request[r].phase # "idle"
      <3>1. request[r] \in RequestState
        BY <2>3, ActiveRequest DEF PasswordInv
      <3>2. /\ request'[r].phase = request[r].phase
            /\ request'[r].name = request[r].name
            /\ request'[r].password = request[r].password
            /\ request'[r].hash = request[r].hash
            /\ request[r].held => request'[r].held
            /\ Matches(rows, request[r].name, request[r].password) => request'[r].held
        BY <2>1, <2>3, <3>1 DEF RequestState
      <3> QED
        BY <1>2, <2>1, <3>2 DEF Grounds, Matches
    <2> QED
      BY <2>2, <2>3
  <1>4. EntriesVerified'
    BY <1>2 DEF PasswordInv, EntriesVerified
  <1> QED
    BY <1>3, <1>4

(* Every step of the system.                                               *)
LEMMA PasswordStep ==
    PasswordInv /\ TypeOK' /\ [Next]_vars => PasswordInv'
  <1> SUFFICES ASSUME PasswordInv, TypeOK', [Next]_vars PROVE PasswordInv'
    OBVIOUS
  <1>1. ASSUME NEW r \in Request,
               \/ \E n \in Username, pw \in Password : Arrive(r, n, pw)
               \/ Handle(r) \/ FindUserFails(r) \/ TakeSlot(r) \/ GiveUp(r)
        PROVE  PasswordInv'
    <2>1. users' = users
      BY <1>1 DEF Arrive, Handle, CheckThrottle, FindUser, CheckCache, Verify, Remember,
                  Reject, Admit, Finish, FindUserFails, TakeSlot, GiveUp
    <2>2. \A q \in Request : q # r => request'[q] = request[q]
      BY <1>1 DEF Arrive, Handle, CheckThrottle, FindUser, CheckCache, Verify, Remember,
                  Reject, Admit, Finish, FindUserFails, TakeSlot, GiveUp, Step, Done,
                  PasswordInv, TypeOK
    <2>3. \A q \in Request : q # r => Grounds(q)'
      BY <2>1, <2>2, GroundsStay DEF PasswordInv
    <2>4. Grounds(r)' /\ EntriesVerified'
      BY <1>1, <2>1, PasswordOfRequest
    <2> QED
      BY <2>3, <2>4 DEF PasswordInv
  <1>2. CASE AccountStep
    BY <1>2, PasswordOfAccounts DEF PasswordInv
  <1>3. CASE Tick \/ UNCHANGED vars
    <2>1. users' = users /\ request' = request /\ entries' = entries
      BY <1>3 DEF Tick, vars
    <2> QED
      BY <2>1, GroundsStay DEF PasswordInv, EntriesVerified
  <1> QED
    BY <1>1, <1>2, <1>3 DEF Next, AccountStep

(* A request is only let in with a password that was the account's at some *)
(* moment since it arrived, whatever changes of passwords, renames,        *)
(* deletions and cached verifications come in between (authenticate).      *)
THEOREM ValidPasswordsOnly == Spec => []AdmittedByValidPassword
  <1>1. Init => PasswordInv
    <2> SUFFICES ASSUME Init PROVE PasswordInv
      OBVIOUS
    <2>1. TypeOK
      BY SlotInit DEF SlotInv
    <2> QED
      BY <2>1 DEF Init, PasswordInv, EntriesVerified, Grounds, NoRequest
  <1>2. PasswordInv => AdmittedByValidPassword
    BY DEF PasswordInv, Grounds, AdmittedByValidPassword
  <1> QED
    BY <1>1, <1>2, PasswordStep, AuthTyped, PTL DEF Spec

-----------------------------------------------------------------------------
(* The maps                                                                *)

MapsInv ==
    /\ TypeOK
    /\ IsFiniteSet(entries)
    /\ MapsAreBounded

(* The names with a record are finitely many.                              *)
LEMMA FiniteRecorded ==
    /\ IsFiniteSet(Recorded) /\ Cardinality(Recorded) \in Nat
    /\ IsFiniteSet(Recorded') /\ Cardinality(Recorded') \in Nat
  BY AuthAssumption, FS_Subset, FS_CardinalityType DEF Recorded

(* A set that gains at most one element.                                   *)
LEMMA GainsOne ==
    ASSUME NEW S, IsFiniteSet(S), NEW x, NEW T, T \subseteq S \cup {x}
    PROVE  IsFiniteSet(T) /\ Cardinality(T) <= Cardinality(S) + 1
           /\ Cardinality(S) \in Nat /\ Cardinality(T) \in Nat
  <1>1. IsFiniteSet(S \cup {x}) /\ Cardinality(S \cup {x}) <= Cardinality(S) + 1
    <2>1. CASE x \in S
      <3>1. S \cup {x} = S /\ Cardinality(S) \in Nat
        BY <2>1, FS_CardinalityType
      <3> QED
        BY <3>1
    <2>2. CASE x \notin S
      <3>1. IsFiniteSet(S \cup {x}) /\ Cardinality(S \cup {x}) = Cardinality(S) + 1
        BY <2>2, FS_AddElement
      <3>2. Cardinality(S) \in Nat
        BY FS_CardinalityType
      <3> QED
        BY <3>1, <3>2
    <2> QED
      BY <2>1, <2>2
  <1>2. IsFiniteSet(T) /\ Cardinality(T) <= Cardinality(S \cup {x})
    BY <1>1, FS_Subset
  <1> QED
    BY <1>1, <1>2, FS_CardinalityType

(* Recording a failure sweeps a full map before it adds to it.             *)
LEMMA RecordFailureBounded ==
    ASSUME TypeOK, NEW name \in Username, NEW now \in Nat, RecordFailure(name, now),
           Cardinality(Recorded) <= maxThrottleKey
    PROVE  Cardinality(Recorded') <= maxThrottleKey
  <1> DEFINE over == {n \in Recorded : Expired(failures[n], now)}
             fresh == failures[name] = NoRecord \/ Expired(failures[name], now)
  <1>1. CASE ~fresh
    <2>1. failures' = [failures EXCEPT ![name].count = @ + 1]
      BY <1>1 DEF RecordFailure
    <2>2. Recorded' \subseteq Recorded
      BY <1>1, <2>1 DEF Recorded, TypeOK
    <2>3. Cardinality(Recorded') <= Cardinality(Recorded)
      BY <2>2, FiniteRecorded, FS_Subset
    <2> QED
      BY <2>3, FiniteRecorded, AuthAssumption
  <1>2. CASE fresh /\ Cardinality(Recorded) < maxThrottleKey
    <2>1. failures' = [failures EXCEPT ![name] = [count |-> 1, first |-> now]]
      BY <1>2, FiniteRecorded, AuthAssumption DEF RecordFailure
    <2>2. Recorded' \subseteq Recorded \cup {name}
      BY <2>1 DEF Recorded, TypeOK
    <2>3. Cardinality(Recorded') <= Cardinality(Recorded) + 1
      BY <2>2, FiniteRecorded, GainsOne
    <2> QED
      BY <1>2, <2>3, FiniteRecorded, AuthAssumption
  <1>3. CASE fresh /\ Cardinality(Recorded) >= maxThrottleKey
    <2>1. failures' = [Swept(now) EXCEPT ![name] = [count |-> 1, first |-> now]]
      BY <1>3 DEF RecordFailure
    <2>2. CASE Cardinality(Recorded \ over) >= maxThrottleKey
      <3>1. Swept(now) = Forget(Username)
        BY <2>2 DEF Swept
      <3>2. Recorded' \subseteq {} \cup {name}
        BY <2>1, <3>1 DEF Recorded, Forget
      <3>3. Cardinality(Recorded') <= 1
        <4>1. IsFiniteSet({}) /\ Cardinality({}) = 0
          BY FS_EmptySet
        <4>2. Cardinality(Recorded') <= Cardinality({}) + 1
          BY <3>2, <4>1, GainsOne
        <4> QED
          BY <4>1, <4>2
      <3> QED
        BY <3>3, FiniteRecorded, AuthAssumption
    <2>3. CASE ~(Cardinality(Recorded \ over) >= maxThrottleKey)
      <3>1. Swept(now) = Forget(over)
        BY <2>3 DEF Swept
      <3>2. Recorded' \subseteq (Recorded \ over) \cup {name}
        BY <2>1, <3>1 DEF Recorded, Forget
      <3>3. IsFiniteSet(Recorded \ over)
        BY FiniteRecorded, FS_Subset
      <3>4. /\ Cardinality(Recorded') <= Cardinality(Recorded \ over) + 1
            /\ Cardinality(Recorded \ over) \in Nat
        BY <3>2, <3>3, GainsOne
      <3> QED
        BY <2>3, <3>4, FiniteRecorded, AuthAssumption
    <2> QED
      BY <2>2, <2>3
  <1> QED
    BY <1>1, <1>2, <1>3, FiniteRecorded, AuthAssumption

(* Remembering a verification makes room in a full cache.                  *)
LEMMA RememberBounded ==
    ASSUME NEW id, NEW now, RememberIn(id, now), IsFiniteSet(entries)
    PROVE  IsFiniteSet(entries') /\ Cardinality(entries') <= maxCredentialEntries
  <1> DEFINE kept == IF Cardinality(entries) < maxCredentialEntries THEN entries
                     ELSE IF Cardinality(Fresh(now)) < maxCredentialEntries THEN Fresh(now)
                     ELSE {}
             new == [id |-> id, expires |-> now + CredentialTTL]
  <1>1. IsFiniteSet(Fresh(now))
    BY FS_Subset DEF Fresh
  <1>2. IsFiniteSet(kept) /\ Cardinality(kept) < maxCredentialEntries
    BY <1>1, FS_EmptySet, AuthAssumption
  <1>3. entries' \subseteq kept \cup {new}
    BY DEF RememberIn
  <1> HIDE DEF kept, new
  <1>4. /\ IsFiniteSet(entries')
        /\ Cardinality(entries') <= Cardinality(kept) + 1
        /\ Cardinality(kept) \in Nat /\ Cardinality(entries') \in Nat
    BY <1>2, <1>3, GainsOne
  <1> QED
    BY <1>2, <1>4, AuthAssumption

(* What a step may do to the two maps: nothing, drop entries of theirs, or *)
(* add one as above.                                                       *)
LEMMA MapsStep ==
    MapsInv /\ TypeOK' /\ [Next]_vars => MapsInv'
  <1> SUFFICES ASSUME MapsInv, TypeOK', [Next]_vars PROVE MapsInv'
    OBVIOUS
  <1> USE DEF MapsInv
  <1>a. ASSUME Recorded' \subseteq Recorded, entries' \subseteq entries PROVE MapsInv'
    <2>1. Cardinality(Recorded') <= Cardinality(Recorded)
      BY <1>a, FiniteRecorded, FS_Subset
    <2>2. IsFiniteSet(entries') /\ Cardinality(entries') <= Cardinality(entries)
      BY <1>a, FS_Subset
    <2>3. Cardinality(entries') \in Nat /\ Cardinality(entries) \in Nat
      BY <2>2, FS_CardinalityType
    <2> QED
      BY <2>1, <2>2, <2>3, FiniteRecorded, AuthAssumption DEF MapsAreBounded
  <1>b. ASSUME NEW names, failures' = Forget(names) PROVE Recorded' \subseteq Recorded
    BY <1>b DEF Recorded, Forget
  <1>c. ASSUME failures' = failures PROVE Recorded' = Recorded
    BY <1>c DEF Recorded
  <1>1. ASSUME NEW r \in Request, CheckThrottle(r) PROVE MapsInv'
    BY <1>1, <1>a, <1>b DEF CheckThrottle, Allow
  <1>2. ASSUME NEW r \in Request, Admit(r) PROVE MapsInv'
    BY <1>2, <1>a, <1>b DEF Admit
  <1>3. ASSUME NEW r \in Request, CheckCache(r) PROVE MapsInv'
    BY <1>3, <1>a, <1>c DEF CheckCache
  <1>4. ASSUME NEW r \in Request, Remember(r) PROVE MapsInv'
    <2>1. IsFiniteSet(entries') /\ Cardinality(entries') <= maxCredentialEntries
      BY <1>4, RememberBounded DEF Remember
    <2> QED
      BY <1>4, <1>c, <2>1 DEF Remember, MapsAreBounded
  <1>5. ASSUME NEW r \in Request, Reject(r) PROVE MapsInv'
    <2>1. request[r].name \in Username /\ request[r].now \in Nat
      BY <1>5, ActiveRequest DEF Reject, RequestState
    <2>2. Cardinality(Recorded') <= maxThrottleKey
      BY <1>5, <2>1, RecordFailureBounded DEF Reject, MapsAreBounded
    <2> QED
      BY <1>5, <2>2 DEF Reject, MapsAreBounded
  <1>6. ASSUME NEW r \in Request,
               \/ \E n \in Username, pw \in Password : Arrive(r, n, pw)
               \/ FindUser(r) \/ Verify(r) \/ Finish(r)
               \/ FindUserFails(r) \/ TakeSlot(r) \/ GiveUp(r)
        PROVE  MapsInv'
    BY <1>6, <1>a, <1>c DEF Arrive, FindUser, Verify, Finish, FindUserFails, TakeSlot, GiveUp
  <1>7. CASE AccountStep
    BY <1>7, <1>a, <1>c, AccountEffect
  <1>8. CASE Tick \/ UNCHANGED vars
    BY <1>8, <1>a, <1>c DEF Tick, vars
  <1> QED
    BY <1>1, <1>2, <1>3, <1>4, <1>5, <1>6, <1>7, <1>8 DEF Next, Handle, AccountStep

(* Whatever names and passwords are sent, the map of failures and the      *)
(* credential cache stay within their limits (fail, remember).             *)
THEOREM MapsStayBounded == Spec => []MapsAreBounded
  <1>1. Init => MapsInv
    <2> SUFFICES ASSUME Init PROVE MapsInv
      OBVIOUS
    <2>1. TypeOK
      BY SlotInit DEF SlotInv
    <2>2. Recorded = {} /\ entries = {}
      BY DEF Init, Recorded
    <2> QED
      BY <2>1, <2>2, FS_EmptySet, AuthAssumption DEF MapsInv, MapsAreBounded
  <1>2. MapsInv => MapsAreBounded
    BY DEF MapsInv
  <1> QED
    BY <1>1, <1>2, MapsStep, AuthTyped, PTL DEF Spec

-----------------------------------------------------------------------------
(* Attempts                                                                *)

AttemptsInv == TypeOK /\ AttemptsAreBounded

(* Any set of requests is finite.                                          *)
LEMMA FiniteRequests ==
    ASSUME NEW S \in SUBSET Request
    PROVE  /\ IsFiniteSet(S) /\ Cardinality(S) \in Nat
           /\ Cardinality(Request) \in Nat /\ Cardinality(S) <= Cardinality(Request)
  BY AuthAssumption, FS_Subset, FS_CardinalityType

(* A step that starts no attempt and adds no failure.                      *)
LEMMA NoAttempt ==
    ASSUME AttemptsInv, Recorded' \subseteq Recorded,
           \A n \in Recorded' : failures'[n] = failures[n],
           \A n \in Recorded' : InFlight(n)' \subseteq InFlight(n)
    PROVE  AttemptsAreBounded'
  <1> SUFFICES ASSUME NEW n \in Recorded'
               PROVE  failures'[n].count + Cardinality(InFlight(n)')
                        < maxFailures + Cardinality(Request)
    BY DEF AttemptsAreBounded
  <1>1. n \in Recorded /\ failures'[n] = failures[n] /\ failures[n].count \in Nat
    BY DEF AttemptsInv, TypeOK, Recorded, FailureRecord
  <1>2. /\ InFlight(n) \in SUBSET Request
        /\ InFlight(n)' \in SUBSET Request
        /\ InFlight(n)' \subseteq InFlight(n)
    BY DEF InFlight
  <1>3. /\ Cardinality(InFlight(n)) \in Nat
        /\ Cardinality(InFlight(n)') \in Nat
        /\ Cardinality(Request) \in Nat
    BY <1>2, FiniteRequests
  <1>4. Cardinality(InFlight(n)') <= Cardinality(InFlight(n))
    BY <1>2, FiniteRequests, FS_Subset
  <1>5. failures[n].count + Cardinality(InFlight(n)) < maxFailures + Cardinality(Request)
    BY <1>1 DEF AttemptsInv, AttemptsAreBounded
  <1> QED
    BY <1>1, <1>3, <1>4, <1>5, AuthAssumption

(* The attempt of a request is over, or was under way already.             *)
LEMMA NoNewFlight ==
    ASSUME TypeOK, NEW r \in Request, NEW n,
           \A q \in Request : q # r => request'[q] = request[q],
           \/ request'[r].phase \in {"idle", "arrived", "admitted"}
           \/ /\ request[r].phase \notin {"idle", "arrived", "admitted"}
              /\ request'[r].name = request[r].name
    PROVE  InFlight(n)' \subseteq InFlight(n)
  BY DEF InFlight

(* An attempt begins when the count is below the limit.                    *)
LEMMA CheckThrottleAttempts ==
    ASSUME AttemptsInv, NEW r \in Request, CheckThrottle(r)
    PROVE  AttemptsAreBounded'
  <1> DEFINE name == request[r].name
             now == request[r].now
  <1>1. request[r] \in RequestState /\ request[r].phase = "arrived" /\ TypeOK
    BY ActiveRequest DEF AttemptsInv, CheckThrottle
  <1>2. name \in Username /\ now \in Nat
    BY <1>1 DEF RequestState
  <1>3. /\ \A n \in Recorded' : failures'[n] = failures[n]
        /\ Recorded' \subseteq Recorded
        /\ name \in Recorded' => ~Expired(failures[name], now)
    BY <1>2 DEF CheckThrottle, Allow, Forget, Recorded
  <1>4. CASE Done(r)
    <2>1. /\ request'[r].phase = "idle"
          /\ \A q \in Request : q # r => request'[q] = request[q]
      BY <1>1, <1>4, DoneTyped DEF NoRequest
    <2>2. \A n : InFlight(n)' \subseteq InFlight(n)
      BY <1>1, <2>1, NoNewFlight
    <2> QED
      BY <1>3, <2>2, NoAttempt
  <1>5. CASE Allowed(name, now) /\ Step(r, "arrived", "allowed")
    <2>1. /\ request'[r] = [request[r] EXCEPT !.phase = "allowed"]
          /\ \A q \in Request : q # r => request'[q] = request[q]
      BY <1>5 DEF Step, AttemptsInv, TypeOK
    <2>2. request'[r].phase = "allowed" /\ request'[r].name = name
      BY <1>1, <2>1 DEF RequestState
    <2> SUFFICES ASSUME NEW n \in Recorded'
                 PROVE  failures'[n].count + Cardinality(InFlight(n)')
                          < maxFailures + Cardinality(Request)
      BY DEF AttemptsAreBounded
    <2>3. n \in Recorded /\ failures'[n] = failures[n] /\ failures[n].count \in Nat
      BY <1>1, <1>3 DEF TypeOK, Recorded, FailureRecord
    <2>4. InFlight(n) \in SUBSET Request /\ InFlight(n)' \in SUBSET Request
      BY DEF InFlight
    <2>5. /\ Cardinality(InFlight(n)) \in Nat
          /\ Cardinality(InFlight(n)') \in Nat
          /\ Cardinality(Request) \in Nat
          /\ Cardinality(InFlight(n)') <= Cardinality(Request)
      BY <2>4, FiniteRequests
    <2>6. CASE n = name
      <3>1. failures[n].count < maxFailures
        BY <1>3, <1>5, <2>3, <2>6 DEF Allowed, Recorded
      <3> QED
        BY <2>3, <2>5, <3>1, AuthAssumption
    <2>7. CASE n # name
      <3>1. InFlight(n)' = InFlight(n)
        BY <2>1, <2>2, <2>7 DEF InFlight
      <3>2. failures[n].count + Cardinality(InFlight(n)) < maxFailures + Cardinality(Request)
        BY <2>3 DEF AttemptsInv, AttemptsAreBounded
      <3> QED
        BY <2>3, <3>1, <3>2
    <2> QED
      BY <2>6, <2>7
  <1> QED
    BY <1>4, <1>5 DEF CheckThrottle

(* A failure that is counted is in flight no more.                         *)
LEMMA RejectAttempts ==
    ASSUME AttemptsInv, NEW r \in Request, Reject(r)
    PROVE  AttemptsAreBounded'
  <1> DEFINE name == request[r].name
             now == request[r].now
             fresh == failures[name] = NoRecord \/ Expired(failures[name], now)
  <1>1. request[r] \in RequestState /\ request[r].phase = "failed" /\ TypeOK
    BY ActiveRequest DEF AttemptsInv, Reject
  <1>2. name \in Username /\ now \in Nat
    BY <1>1 DEF RequestState
  <1>3. /\ request'[r].phase = "idle"
        /\ \A q \in Request : q # r => request'[q] = request[q]
    BY <1>1, DoneTyped DEF NoRequest, Reject
  <1>4. \A n : InFlight(n)' \subseteq InFlight(n) \ {r}
    BY <1>3 DEF InFlight
  <1>5. \A n \in Username : n # name /\ n \in Recorded' =>
          n \in Recorded /\ failures'[n] = failures[n]
    BY <1>2 DEF Reject, RecordFailure, Swept, Forget, Recorded, TypeOK
  <1> SUFFICES ASSUME NEW n \in Recorded'
               PROVE  failures'[n].count + Cardinality(InFlight(n)')
                        < maxFailures + Cardinality(Request)
    BY DEF AttemptsAreBounded
  <1>6. /\ n \in Username
        /\ InFlight(n) \in SUBSET Request /\ InFlight(n)' \in SUBSET Request
        /\ InFlight(n) \ {r} \in SUBSET Request
    BY DEF InFlight, Recorded
  <1>7. /\ IsFiniteSet(InFlight(n)) /\ Cardinality(InFlight(n)) \in Nat
        /\ Cardinality(InFlight(n)') \in Nat
        /\ IsFiniteSet(InFlight(n) \ {r}) /\ Cardinality(InFlight(n) \ {r}) \in Nat
        /\ Cardinality(Request) \in Nat
        /\ Cardinality(InFlight(n)) <= Cardinality(Request)
    BY <1>6, FiniteRequests
  <1>8. Cardinality(InFlight(n)') <= Cardinality(InFlight(n) \ {r})
    BY <1>4, <1>7, FS_Subset
  <1>9. CASE n = name
    <2>1. r \in InFlight(n)
      BY <1>1, <1>9 DEF InFlight
    <2>2. Cardinality(InFlight(n) \ {r}) = Cardinality(InFlight(n)) - 1
      BY <1>7, <2>1, FS_RemoveElement
    <2>3. CASE fresh
      <3>1. failures'[name] = [count |-> 1, first |-> now]
        <4>1. Swept(now) \in [Username -> FailureRecord \cup {NoRecord}]
          BY <1>1, ForgetTyped DEF Swept
        <4> QED
          BY <1>1, <1>2, <2>3, <4>1 DEF Reject, RecordFailure, TypeOK
      <3>2. failures'[n].count = 1
        BY <1>9, <3>1
      <3> QED
        BY <1>7, <1>8, <2>2, <3>2, AuthAssumption
    <2>4. CASE ~fresh
      <3>1. failures[name] \in FailureRecord /\ name \in Recorded
        BY <1>1, <1>2, <2>4 DEF TypeOK, Recorded
      <3>2. failures'[name] = [failures[name] EXCEPT !.count = @ + 1]
        BY <1>1, <1>2, <2>4 DEF Reject, RecordFailure, TypeOK
      <3>3. failures'[n].count = failures[n].count + 1 /\ failures[n].count \in Nat
        BY <1>9, <3>1, <3>2 DEF FailureRecord
      <3>4. failures[n].count + Cardinality(InFlight(n)) < maxFailures + Cardinality(Request)
        BY <1>9, <3>1 DEF AttemptsInv, AttemptsAreBounded
      <3> QED
        BY <1>7, <1>8, <2>2, <3>3, <3>4, AuthAssumption
    <2> QED
      BY <2>3, <2>4
  <1>10. CASE n # name
    <2>1. n \in Recorded /\ failures'[n] = failures[n]
      BY <1>5, <1>6, <1>10
    <2>2. failures[n].count \in Nat
      BY <1>1, <2>1 DEF TypeOK, Recorded, FailureRecord
    <2>3. Cardinality(InFlight(n) \ {r}) <= Cardinality(InFlight(n))
      BY <1>7, FS_Subset
    <2>4. failures[n].count + Cardinality(InFlight(n)) < maxFailures + Cardinality(Request)
      BY <2>1 DEF AttemptsInv, AttemptsAreBounded
    <2> QED
      BY <1>7, <1>8, <2>1, <2>2, <2>3, <2>4, AuthAssumption
  <1> QED
    BY <1>9, <1>10

(* Every other step.                                                       *)
LEMMA AttemptsStep ==
    AttemptsInv /\ TypeOK' /\ [Next]_vars => AttemptsInv'
  <1> SUFFICES ASSUME AttemptsInv, [Next]_vars PROVE AttemptsAreBounded'
    BY DEF AttemptsInv
  <1>0. TypeOK
    BY DEF AttemptsInv
  <1>a. ASSUME failures' = failures, \A n : InFlight(n)' \subseteq InFlight(n)
        PROVE  AttemptsAreBounded'
    BY <1>a, NoAttempt DEF Recorded
  <1>b. ASSUME NEW r \in Request, NEW from, NEW to, Step(r, from, to),
               from \notin {"idle", "arrived", "admitted"}
        PROVE  \A n : InFlight(n)' \subseteq InFlight(n)
    <2>1. request[r] \in RequestState /\ request[r].phase = from
      BY <1>0, <1>b, ActiveRequest DEF Step
    <2>2. /\ request'[r] = [request[r] EXCEPT !.phase = to]
          /\ \A q \in Request : q # r => request'[q] = request[q]
      BY <1>0, <1>b DEF Step, TypeOK
    <2>3. request'[r].name = request[r].name
      BY <2>1, <2>2 DEF RequestState
    <2> QED
      BY <1>0, <1>b, <2>1, <2>2, <2>3, NoNewFlight
  <1>1. ASSUME NEW r \in Request, NEW n \in Username, NEW pw \in Password, Arrive(r, n, pw)
        PROVE  AttemptsAreBounded'
    <2>1. /\ request'[r].phase = "arrived"
          /\ \A q \in Request : q # r => request'[q] = request[q]
      BY <1>0, <1>1 DEF Arrive, TypeOK
    <2>2. \A m : InFlight(m)' \subseteq InFlight(m)
      BY <1>0, <2>1, NoNewFlight
    <2> QED
      BY <1>1, <1>a, <2>2 DEF Arrive
  <1>2. ASSUME NEW r \in Request, FindUser(r) PROVE AttemptsAreBounded'
    <2>1. request[r] \in RequestState /\ request[r].phase = "allowed"
      BY <1>0, <1>2, ActiveRequest DEF FindUser
    <2>2. /\ request'[r].name = request[r].name
          /\ \A q \in Request : q # r => request'[q] = request[q]
      BY <1>0, <1>2, <2>1 DEF FindUser, TypeOK, RequestState
    <2>3. \A n : InFlight(n)' \subseteq InFlight(n)
      BY <1>0, <2>1, <2>2, NoNewFlight
    <2> QED
      BY <1>2, <1>a, <2>3 DEF FindUser
  <1>3. ASSUME NEW r \in Request, CheckCache(r) PROVE AttemptsAreBounded'
    BY <1>3, <1>a, <1>b DEF CheckCache
  <1>4. ASSUME NEW r \in Request, Verify(r) PROVE AttemptsAreBounded'
    <2>1. PICK to \in {"verified", "failed"} : Step(r, "verifying", to)
      BY <1>4 DEF Verify, Step
    <2> QED
      BY <1>4, <1>a, <1>b, <2>1 DEF Verify
  <1>5. ASSUME NEW r \in Request, Remember(r) PROVE AttemptsAreBounded'
    BY <1>5, <1>a, <1>b DEF Remember
  <1>6. ASSUME NEW r \in Request, Admit(r) PROVE AttemptsAreBounded'
    <2>1. \A n : InFlight(n)' \subseteq InFlight(n)
      BY <1>6, <1>b DEF Admit
    <2>2. Recorded' \subseteq Recorded /\ \A n \in Recorded' : failures'[n] = failures[n]
      BY <1>6 DEF Admit, Forget, Recorded
    <2> QED
      BY <2>1, <2>2, NoAttempt
  <1>7. ASSUME NEW r \in Request, Finish(r) PROVE AttemptsAreBounded'
    <2>1. /\ request'[r].phase = "idle"
          /\ \A q \in Request : q # r => request'[q] = request[q]
      BY <1>0, <1>7, DoneTyped DEF Finish, NoRequest
    <2>2. \A n : InFlight(n)' \subseteq InFlight(n)
      BY <1>0, <2>1, NoNewFlight
    <2> QED
      BY <1>7, <1>a, <2>2 DEF Finish
  <1>8. ASSUME NEW r \in Request, FindUserFails(r) \/ TakeSlot(r) \/ GiveUp(r)
        PROVE  AttemptsAreBounded'
    BY <1>8, <1>a, <1>b DEF FindUserFails, TakeSlot, GiveUp
  <1>9. CASE AccountStep
    <2>1. PICK rows \in [Account -> Hash \cup {NoUser}] : ChangeUsers(rows)
      BY <1>0, <1>9, AccountEffect
    <2>2. \A q \in Request : \/ request'[q] = request[q]
                             \/ /\ request[q].phase # "idle"
                                /\ request'[q] = [request[q] EXCEPT !.held = TRUE]
      BY <1>0, <2>1, ChangeUsersTyped
    <2>3. \A q \in Request :
            \/ request'[q] = request[q]
            \/ request'[q].phase = request[q].phase /\ request'[q].name = request[q].name
      BY <1>0, <2>2, ActiveRequest DEF RequestState
    <2>4. \A n : InFlight(n)' \subseteq InFlight(n)
      BY <2>3 DEF InFlight
    <2> QED
      BY <1>a, <2>1, <2>4 DEF ChangeUsers
  <1>10. CASE Tick \/ UNCHANGED vars
    <2>1. failures' = failures /\ request' = request
      BY <1>10 DEF Tick, vars
    <2>2. \A n : InFlight(n)' = InFlight(n)
      BY <2>1 DEF InFlight
    <2> QED
      BY <1>a, <2>1, <2>2
  <1> QED
    BY <1>1, <1>2, <1>3, <1>4, <1>5, <1>6, <1>7, <1>8, <1>9, <1>10,
       CheckThrottleAttempts, RejectAttempts DEF Next, Handle, AccountStep

(* However late failures are recorded, no name has more of them in a       *)
(* window than the limit and the handlers that run at once (allow, fail).  *)
THEOREM AttemptsStayBounded == Spec => []AttemptsAreBounded
  <1>1. Init => AttemptsInv
    <2> SUFFICES ASSUME Init PROVE AttemptsInv
      OBVIOUS
    <2>1. TypeOK
      BY SlotInit DEF SlotInv
    <2>2. Recorded = {}
      BY DEF Init, Recorded
    <2> QED
      BY <2>1, <2>2 DEF AttemptsInv, AttemptsAreBounded
  <1>2. AttemptsInv => AttemptsAreBounded
    BY DEF AttemptsInv
  <1> QED
    BY <1>1, <1>2, AttemptsStep, AuthTyped, PTL DEF Spec

-----------------------------------------------------------------------------
(* Windows                                                                 *)

(* A record that nothing has touched, or that is gone, stands.             *)
LEMMA RecordStands ==
    ASSUME TypeOK, NEW n \in Username,
           failures'[n] = failures[n] \/ failures'[n] = NoRecord
    PROVE  KeepsWindow(n)
  BY DEF KeepsWindow, SameWindow, TypeOK, FailureRecord

(* A failure counts in the window it falls into, one that came after it    *)
(* begins another, and a full map is swept for a new window only.          *)
LEMMA RejectKeepsWindow ==
    ASSUME TypeOK, NEW r \in Request, Reject(r), NEW n \in Username
    PROVE  KeepsWindow(n)
  <1> DEFINE name == request[r].name
             now == request[r].now
             fresh == failures[name] = NoRecord \/ Expired(failures[name], now)
  <1>1. name \in Username
    BY ActiveRequest DEF Reject, RequestState
  <1>2. CASE ~fresh
    <2>1. failures' = [failures EXCEPT ![name].count = @ + 1]
      BY <1>2 DEF Reject, RecordFailure
    <2>2. CASE n = name
      <3>1. failures[n] \in FailureRecord
        BY <1>2, <2>2 DEF TypeOK
      <3>2. failures'[n] = [failures[n] EXCEPT !.count = @ + 1]
        BY <2>1, <2>2 DEF TypeOK
      <3>3. SameWindow(failures[n], failures'[n])
        BY <3>1, <3>2 DEF SameWindow, FailureRecord
      <3> QED
        BY <3>3 DEF KeepsWindow
    <2>3. CASE n # name
      BY <2>1, <2>3, RecordStands DEF TypeOK
    <2> QED
      BY <2>2, <2>3
  <1>3. CASE fresh
    <2> DEFINE others == IF Cardinality(Recorded) >= maxThrottleKey
                         THEN Swept(now) ELSE failures
    <2>1. failures' = [others EXCEPT ![name] = [count |-> 1, first |-> now]]
      BY <1>3 DEF Reject, RecordFailure
    <2>2. /\ DOMAIN others = Username
          /\ others[n] = failures[n] \/ others[n] = NoRecord
      BY DEF Swept, Forget, TypeOK
    <2> HIDE DEF others
    <2>3. CASE n = name
      <3>1. failures'[n].first = now
        BY <2>1, <2>2, <2>3
      <3> QED
        BY <1>3, <2>3, <3>1 DEF KeepsWindow, LaterWindow
    <2>4. CASE n # name
      BY <2>1, <2>2, <2>4, RecordStands
    <2> QED
      BY <2>3, <2>4
  <1> QED
    BY <1>2, <1>3

(* "The window runs from the first failure" (throttle): no interleaving of *)
(* late failures moves the start of a window that is not over.             *)
THEOREM WindowsStand == Spec => WindowStands
  <1>1. TypeOK /\ [Next]_vars => [\A n \in Username : KeepsWindow(n)]_vars
    <2> SUFFICES ASSUME TypeOK, Next, NEW n \in Username PROVE KeepsWindow(n)
      OBVIOUS
    <2>1. ASSUME NEW r \in Request,
                 \/ \E m \in Username, pw \in Password : Arrive(r, m, pw)
                 \/ FindUser(r) \/ CheckCache(r) \/ Verify(r) \/ Remember(r) \/ Finish(r)
                 \/ FindUserFails(r) \/ TakeSlot(r) \/ GiveUp(r)
          PROVE  failures' = failures
      BY <2>1 DEF Arrive, FindUser, CheckCache, Verify, Remember, Finish, FindUserFails,
                  TakeSlot, GiveUp
    <2>2. AccountStep => failures' = failures
      BY AccountEffect
    <2>3. Tick => failures' = failures
      BY DEF Tick
    <2>4. ASSUME NEW r \in Request, CheckThrottle(r) \/ Admit(r)
          PROVE  failures'[n] = failures[n] \/ failures'[n] = NoRecord
      BY <2>4 DEF CheckThrottle, Allow, Admit, Forget
    <2> QED
      BY <2>1, <2>2, <2>3, <2>4, RecordStands, RejectKeepsWindow DEF Next, Handle, AccountStep
  <1> QED
    BY <1>1, AuthTyped, PTL DEF Spec, WindowStands
=============================================================================
