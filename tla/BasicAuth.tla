------------------------------ MODULE BasicAuth ------------------------------
(***************************************************************************)
(* Authentication of DAV requests (internal/auth/basic.go, throttle.go and *)
(* cache.go): concurrent requests that share a throttle, a credential      *)
(* cache and a few verification slots, while passwords are changed and     *)
(* accounts are created and deleted.                                       *)
(*                                                                         *)
(* The throttle and the cache have a mutex each, so one call of theirs is  *)
(* one step; the query of the account, the wait for a slot, the hashing    *)
(* and the bookkeeping after it are steps of their own.  The clock moves   *)
(* between any two steps.                                                  *)
(***************************************************************************)
EXTENDS Naturals, FiniteSets

CONSTANTS
    Username,      \* the names requests carry, with or without an account
    Account,       \* the names that the index of users tells apart
    Fold,          \* COLLATE NOCASE: the account name a username stands for
    Password,
    Request,       \* handlers running at the same time
    NoUser,        \* no row in users
    NoRecord,      \* no entry in throttle.failures
    maxFailures,
    failureWindow,
    maxThrottleKey,
    maxConcurrentVerifications,
    CredentialTTL,
    maxCredentialEntries,
    MaxTime,       \* bound on the clock
    MaxSalt        \* bound on how many password hashes are ever made

ASSUME AuthAssumption ==
    /\ IsFiniteSet(Username) /\ IsFiniteSet(Request)
    /\ Fold \in [Username -> Account]
    /\ maxFailures \in Nat \ {0}
    /\ failureWindow \in Nat \ {0}
    /\ maxThrottleKey \in Nat \ {0}
    /\ maxConcurrentVerifications \in Nat \ {0}
    /\ CredentialTTL \in Nat \ {0}
    /\ maxCredentialEntries \in Nat \ {0}
    /\ MaxTime \in Nat
    /\ MaxSalt \in Nat

VARIABLES
    clock,
    users,         \* account name |-> password_hash, or NoUser
    salts,         \* how many hashes have been made
    failures,      \* username as submitted |-> failureRecord, or NoRecord
    entries,       \* the credential cache
    slots,         \* how many verificationSlots are taken
    request        \* the state of each handler

vars == <<clock, users, salts, failures, entries, slots, request>>

-----------------------------------------------------------------------------

(* HashPassword: the hash of a password with a fresh salt.  VerifyPassword *)
(* tells whether it is the hash of the password it is given.               *)
Hash == [password : Password, salt : Nat]

VerifyPassword(hash, password) == hash.password = password

FailureRecord == [count : Nat, first : Nat]

ASSUME NoRecordAssumption == NoRecord \notin FailureRecord

(* Mutant: the stored hash is not part of an entry's identity.             *)
CredentialIdWithoutHash(name, password, hash) == <<name, password, "">>

(* credentialCache.id                                                      *)
CredentialId(name, password, hash) == <<name, password, hash>>

Phase == {"idle", "arrived", "allowed", "found", "waiting", "verifying",
          "verified", "failed", "authenticated", "admitted"}

(* now is read on arrival, at when the account was found.  Auxiliary: held *)
(* says that the password was the account's at some moment since the       *)
(* request arrived.                                                        *)
RequestState ==
    [phase : Phase, name : Username, password : Password, now : Nat, at : Nat,
     hash : Hash \cup {NoUser}, held : BOOLEAN]

NoRequest == [phase |-> "idle"]

TypeOK ==
    /\ clock \in Nat
    /\ users \in [Account -> Hash \cup {NoUser}]
    /\ salts \in Nat
    /\ failures \in [Username -> FailureRecord \cup {NoRecord}]
    /\ \A e \in entries : e.expires \in Nat
    /\ slots \in Nat
    /\ request \in [Request -> RequestState \cup {NoRequest}]

Init ==
    /\ clock = 0
    /\ users = [a \in Account |-> NoUser]
    /\ salts = 0
    /\ failures = [n \in Username |-> NoRecord]
    /\ entries = {}
    /\ slots = 0
    /\ request = [r \in Request |-> NoRequest]

(* In these rows, the password is the one of the account of the name.      *)
Matches(rows, name, password) ==
    rows[Fold[name]] # NoUser /\ VerifyPassword(rows[Fold[name]], password)

-----------------------------------------------------------------------------
(* The throttle                                                            *)

Expired(record, now) == now >= record.first + failureWindow

Recorded == {n \in Username : failures[n] # NoRecord}

Forget(names) == [n \in Username |-> IF n \in names THEN NoRecord ELSE failures[n]]

(* Mutant: one attempt too many.                                           *)
AllowedOneMore(name, now) ==
    failures[name] # NoRecord /\ ~Expired(failures[name], now)
      => failures[name].count <= maxFailures

(* throttle.allow: whether an attempt may be made.                         *)
Allowed(name, now) ==
    failures[name] # NoRecord /\ ~Expired(failures[name], now)
      => failures[name].count < maxFailures

(* throttle.allow: a record whose window is over is deleted.               *)
Allow(name, now) ==
    LET over == failures[name] # NoRecord /\ Expired(failures[name], now)
    IN  failures' = Forget(IF over THEN {name} ELSE {})

(* throttle.sweepLocked: the records whose window is over are dropped, and *)
(* all of them if that was not enough.                                     *)
Swept(now) ==
    LET over == {n \in Recorded : Expired(failures[n], now)}
    IN  IF Cardinality(Recorded \ over) >= maxThrottleKey
        THEN Forget(Username)
        ELSE Forget(over)

(* Mutant: a record is added to a full map.                                *)
RecordFailureWithoutSweep(name, now) ==
    LET fresh == failures[name] = NoRecord \/ Expired(failures[name], now)
    IN  failures' = IF fresh
                    THEN [failures EXCEPT ![name] = [count |-> 1, first |-> now]]
                    ELSE [failures EXCEPT ![name].count = @ + 1]

(* Mutant: each failure starts the window again.                           *)
RecordFailureMovesWindow(name, now) ==
    LET fresh  == failures[name] = NoRecord \/ Expired(failures[name], now)
        others == IF fresh /\ Cardinality(Recorded) >= maxThrottleKey
                  THEN Swept(now) ELSE failures
    IN  failures' = [others EXCEPT ![name] =
                       [count |-> IF fresh THEN 1 ELSE @.count + 1, first |-> now]]

(* throttle.fail                                                           *)
RecordFailure(name, now) ==
    LET fresh  == failures[name] = NoRecord \/ Expired(failures[name], now)
        others == IF Cardinality(Recorded) >= maxThrottleKey
                  THEN Swept(now) ELSE failures
    IN  failures' = IF fresh
                    THEN [others EXCEPT ![name] = [count |-> 1, first |-> now]]
                    ELSE [failures EXCEPT ![name].count = @ + 1]

-----------------------------------------------------------------------------
(* The credential cache                                                    *)

Fresh(now) == {e \in entries : now < e.expires}

(* credentialCache.verified                                                *)
Verified(id, now) == \E e \in Fresh(now) : e.id = id

(* credentialCache.remember                                                *)
RememberIn(id, now) ==
    LET kept == IF Cardinality(entries) < maxCredentialEntries THEN entries
                ELSE IF Cardinality(Fresh(now)) < maxCredentialEntries THEN Fresh(now)
                ELSE {}
    IN  entries' = {e \in kept : e.id # id}
                   \cup {[id |-> id, expires |-> now + CredentialTTL]}

-----------------------------------------------------------------------------
(* A request                                                               *)

Step(r, from, to) ==
    /\ request[r].phase = from
    /\ request' = [request EXCEPT ![r].phase = to]

Done(r) == request' = [request EXCEPT ![r] = NoRequest]

(* RequireBasicAuth reads the credentials and the time.                    *)
Arrive(r, name, password) ==
    /\ request[r].phase = "idle"
    /\ request' = [request EXCEPT ![r] =
         [phase |-> "arrived", name |-> name, password |-> password,
          now |-> clock, at |-> 0, hash |-> NoUser,
          held |-> Matches(users, name, password)]]
    /\ UNCHANGED <<clock, users, salts, failures, entries, slots>>

(* limit.allow; a name that is refused is answered 429.                    *)
CheckThrottle(r) ==
    /\ request[r].phase = "arrived"
    /\ Allow(request[r].name, request[r].now)
    /\ \/ Allowed(request[r].name, request[r].now) /\ Step(r, "arrived", "allowed")
       \/ ~Allowed(request[r].name, request[r].now) /\ Done(r)
    /\ UNCHANGED <<clock, users, salts, entries, slots>>

(* UserByUsername.  For a name without an account the decoy is verified,   *)
(* so this request waits for a slot like any other.                        *)
FindUser(r) ==
    /\ request[r].phase = "allowed"
    /\ request' = [request EXCEPT
         ![r].phase = IF users[Fold[request[r].name]] = NoUser THEN "waiting" ELSE "found",
         ![r].hash = users[Fold[request[r].name]],
         ![r].at = clock]
    /\ UNCHANGED <<clock, users, salts, failures, entries, slots>>

(* A query that fails, as when the client has gone, counts as a failure.   *)
FindUserFails(r) ==
    /\ Step(r, "allowed", "failed")
    /\ UNCHANGED <<clock, users, salts, failures, entries, slots>>

IdOf(r) == CredentialId(request[r].name, request[r].password, request[r].hash)

(* cache.verified; an entry that is over is deleted.                       *)
CheckCache(r) ==
    /\ request[r].phase = "found"
    /\ \/ /\ Verified(IdOf(r), request[r].at)
          /\ Step(r, "found", "authenticated")
          /\ UNCHANGED entries
       \/ /\ ~Verified(IdOf(r), request[r].at)
          /\ Step(r, "found", "waiting")
          /\ entries' = {e \in entries : e.id # IdOf(r)}
    /\ UNCHANGED <<clock, users, salts, failures, slots>>

(* withVerificationSlot: a slot, or the end of the request's context.      *)
TakeSlot(r) ==
    /\ slots < maxConcurrentVerifications
    /\ slots' = slots + 1
    /\ Step(r, "waiting", "verifying")
    /\ UNCHANGED <<clock, users, salts, failures, entries>>

(* Mutant: the slot is given back on every return, also when the request   *)
(* never had one.                                                          *)
GiveUpReleasesSlot(r) ==
    /\ slots' = slots - 1
    /\ Step(r, "waiting", "failed")
    /\ UNCHANGED <<clock, users, salts, failures, entries>>

GiveUp(r) ==
    /\ Step(r, "waiting", "failed")
    /\ UNCHANGED <<clock, users, salts, failures, entries, slots>>

(* Mutant: the slot is only given back after a match.                      *)
VerifyKeepsSlot(r) ==
    /\ request[r].phase = "verifying"
    /\ LET ok == request[r].hash # NoUser
                 /\ VerifyPassword(request[r].hash, request[r].password)
       IN  /\ request' = [request EXCEPT ![r].phase = IF ok THEN "verified" ELSE "failed"]
           /\ slots' = IF ok THEN slots - 1 ELSE slots
    /\ UNCHANGED <<clock, users, salts, failures, entries>>

(* VerifyPassword, and the slot is given back.  The decoy never matches.   *)
Verify(r) ==
    /\ request[r].phase = "verifying"
    /\ slots' = slots - 1
    /\ request' = [request EXCEPT ![r].phase =
         IF /\ request[r].hash # NoUser
            /\ VerifyPassword(request[r].hash, request[r].password)
         THEN "verified" ELSE "failed"]
    /\ UNCHANGED <<clock, users, salts, failures, entries>>

(* cache.remember, with the time read before the verification.             *)
Remember(r) ==
    /\ Step(r, "verified", "authenticated")
    /\ RememberIn(IdOf(r), request[r].at)
    /\ UNCHANGED <<clock, users, salts, failures, slots>>

(* limit.fail, with the time the request arrived; then 401.                *)
Reject(r) ==
    /\ request[r].phase = "failed"
    /\ RecordFailure(request[r].name, request[r].now)
    /\ Done(r)
    /\ UNCHANGED <<clock, users, salts, entries, slots>>

(* limit.succeed, and the DAV handler runs.                                *)
Admit(r) ==
    /\ Step(r, "authenticated", "admitted")
    /\ failures' = Forget({request[r].name})
    /\ UNCHANGED <<clock, users, salts, entries, slots>>

Finish(r) ==
    /\ request[r].phase = "admitted"
    /\ Done(r)
    /\ UNCHANGED <<clock, users, salts, failures, entries, slots>>

-----------------------------------------------------------------------------
(* The accounts                                                            *)

(* The rows of users become rows; a request that carries the password an   *)
(* account then has is noted as held.                                      *)
ChangeUsers(rows) ==
    /\ users' = rows
    /\ request' = [r \in Request |->
         IF request[r].phase # "idle" /\ Matches(rows, request[r].name, request[r].password)
         THEN [request[r] EXCEPT !.held = TRUE]
         ELSE request[r]]
    /\ UNCHANGED <<clock, failures, entries, slots>>

(* HashPassword takes a new salt each time, also for the same password.    *)
Install(account, password) ==
    /\ salts < MaxSalt
    /\ salts' = salts + 1
    /\ ChangeUsers([users EXCEPT ![account] = [password |-> password, salt |-> salts]])

CreateUser(account, password) == users[account] = NoUser /\ Install(account, password)

SetPassword(account, password) == users[account] # NoUser /\ Install(account, password)

(* UpdateUser with a new username; a name that is taken is a conflict.     *)
UpdateUser(account, name) ==
    /\ users[account] # NoUser
    /\ users[name] = NoUser
    /\ ChangeUsers([users EXCEPT ![account] = NoUser, ![name] = users[account]])
    /\ UNCHANGED salts

DeleteUser(account) ==
    /\ users[account] # NoUser
    /\ ChangeUsers([users EXCEPT ![account] = NoUser])
    /\ UNCHANGED salts

Tick ==
    /\ clock < MaxTime
    /\ clock' = clock + 1
    /\ UNCHANGED <<users, salts, failures, entries, slots, request>>

-----------------------------------------------------------------------------

Handle(r) ==
    \/ CheckThrottle(r)
    \/ FindUser(r)
    \/ CheckCache(r)
    \/ Verify(r)
    \/ Remember(r)
    \/ Reject(r)
    \/ Admit(r)
    \/ Finish(r)

Next ==
    \/ \E r \in Request :
         \/ \E n \in Username, pw \in Password : Arrive(r, n, pw)
         \/ Handle(r)
         \/ FindUserFails(r)
         \/ TakeSlot(r)
         \/ GiveUp(r)
    \/ \E a \in Account, pw \in Password : CreateUser(a, pw) \/ SetPassword(a, pw)
    \/ \E a, b \in Account : UpdateUser(a, b)
    \/ \E a \in Account : DeleteUser(a)
    \/ Tick

Spec == Init /\ [][Next]_vars

(* Handlers run; the senders that wait on the channel of slots are served  *)
(* in the order they came, so none of them is passed over for ever.        *)
Fairness ==
    \A r \in Request : WF_vars(Handle(r)) /\ SF_vars(TakeSlot(r))

FairSpec == Spec /\ Fairness

-----------------------------------------------------------------------------
(* Properties                                                              *)

Verifying == {r \in Request : request[r].phase = "verifying"}

(* Every slot that is taken belongs to a verification that is running, and *)
(* no more run at once than there are slots: no path out of a verification *)
(* keeps its slot.                                                         *)
SlotsAreHeld ==
    /\ slots = Cardinality(Verifying)
    /\ slots <= maxConcurrentVerifications

(* "A flood of distinct [names] must not grow the map without bound", and  *)
(* neither do credentials grow the cache.                                  *)
MapsAreBounded ==
    /\ Cardinality(Recorded) <= maxThrottleKey
    /\ Cardinality(entries) <= maxCredentialEntries

(* A request is only let in with a password that was the account's at some *)
(* moment since it arrived: "changing a password invalidates every cached  *)
(* entry for that account without the cache needing to be told", and so    *)
(* does deleting the account, even if it is created again.                 *)
AdmittedByValidPassword ==
    \A r \in Request :
      request[r].phase \in {"authenticated", "admitted"} => request[r].held

InFlight(name) ==
    {r \in Request : /\ request[r].phase \notin {"idle", "arrived", "admitted"}
                     /\ request[r].name = name}

(* Attempts that were allowed before the limit was reached may still be    *)
(* running, so a record can pass the limit, but only by those: no name has *)
(* more failures in a window than the limit and the handlers allow.        *)
AttemptsAreBounded ==
    \A n \in Recorded :
      failures[n].count + Cardinality(InFlight(n)) < maxFailures + Cardinality(Request)

SameWindow(old, new) == new.first = old.first /\ new.count >= old.count

LaterWindow(old, new) == Expired(old, new.first)

KeepsWindow(name) ==
    failures[name] # NoRecord /\ failures'[name] # NoRecord =>
      \/ SameWindow(failures[name], failures'[name])
      \/ LaterWindow(failures[name], failures'[name])

(* "The window runs from the first failure, so a burst does not keep       *)
(* extending its own punishment" (fail): as long as a name has a record,   *)
(* its failures are counted from a fixed start, and the next window starts *)
(* after the end of the one before, whatever the order in which failures   *)
(* that began earlier are recorded.  A record may also disappear, by a     *)
(* success, at the end of its window, or because the map is full: then     *)
(* sweepLocked drops every record, the live ones included.                 *)
WindowStands == [][\A n \in Username : KeepsWindow(n)]_vars

(* Every request is answered: nobody waits for a slot for ever.            *)
EveryRequestEnds ==
    \A r \in Request : request[r].phase # "idle" ~> request[r].phase = "idle"
=============================================================================
