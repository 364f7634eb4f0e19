----------------------------- MODULE AdminProofs -----------------------------
(***************************************************************************)
(* Proofs about AdminSessions, for any number of browsers, accounts and    *)
(* sessions: types, that no session outlives its account, that the last    *)
(* administrator goes only by a form that was overtaken, and why a session *)
(* of an earlier password may be left.                                     *)
(***************************************************************************)
EXTENDS AdminSessions, TLAPS

AdminInv == TypeOK /\ SessionsHaveUsers

-----------------------------------------------------------------------------
(* Rows and requests                                                       *)

(* The fields a request has in each phase.                                 *)
LEMMA RequestFields ==
    ASSUME TypeOK, NEW b \in Browser
    PROVE  /\ request[b].phase = "login" =>
                request[b].uid \in Id /\ request[b].row \in User
           /\ request[b].phase \in {"admitted", "leaving"} => request[b].actor \in Id
           /\ request[b].phase \in {"ready", "revoking"} =>
                /\ request[b].actor \in Id
                /\ request[b].op \in Operation
                /\ request[b].subject \in Id
                /\ request[b].row \in User
                /\ request[b] \in [phase : {"ready", "revoking"}, actor : Id,
                                    op : Operation, subject : Id, row : User]
  <1>1. request[b] \in RequestState
    BY DEF TypeOK
  <1> QED
    BY <1>1 DEF RequestState

(* A live rowid has a typed row.                                           *)
LEMMA LiveUser ==
    ASSUME TypeOK, NEW id \in Live
    PROVE  id \in Id /\ users[id] \in User
  BY DEF Live, TypeOK

(* A row that is replaced by another row stays live, and so do the others. *)
LEMMA LiveStays ==
    ASSUME TypeOK, NEW id \in Id, NEW row \in User,
           users' = [users EXCEPT ![id] = row]
    PROVE  /\ users' \in [Id -> User \cup {NoUser}]
           /\ Live' = Live \cup {id}
  BY NoUserAssumption DEF Live, TypeOK

(* A request that moves to a typed state.                                  *)
LEMMA MovesTyped ==
    ASSUME TypeOK, NEW b \in Browser, NEW state \in RequestState, Moves(b, state)
    PROVE  request' \in [Browser -> RequestState]
  BY DEF TypeOK, Moves

(* A request that ends.                                                    *)
LEMMA DoneTyped ==
    ASSUME TypeOK, NEW b \in Browser, Done(b)
    PROVE  request' \in [Browser -> RequestState]
  <1>1. NoRequest \in RequestState
    BY DEF NoRequest, RequestState
  <1> QED
    BY <1>1, MovesTyped DEF Done

(* What an inserted account changes.                                       *)
LEMMA Inserted ==
    ASSUME TypeOK, NEW name \in Name, NEW hash \in 1..MaxHash, NEW flag \in BOOLEAN,
           InsertUser(name, hash, flag)
    PROVE  /\ users' \in [Id -> User \cup {NoUser}]
           /\ Live \subseteq Live'
           /\ \A o \in Live : users'[o] = users[o]
  <1>1. PICK id \in Id : NextRowId(id) /\ users' = [users EXCEPT ![id] =
                           [name |-> name, hash |-> hash, admin |-> flag]]
    BY DEF InsertUser
  <1> DEFINE row == [name |-> name, hash |-> hash, admin |-> flag]
  <1>2. row \in User
    BY DEF User
  <1> HIDE DEF row
  <1>3. users' = [users EXCEPT ![id] = row]
    BY <1>1 DEF row
  <1>4. users' \in [Id -> User \cup {NoUser}] /\ Live' = Live \cup {id}
    BY <1>2, <1>3, LiveStays
  <1>5. id \notin Live
    BY <1>1 DEF NextRowId, Id
  <1>6. \A o \in Live : users'[o] = users[o]
    BY <1>3, <1>5 DEF TypeOK, Live
  <1> QED
    BY <1>4, <1>6

(* A password is hashed.                                                   *)
LEMMA Hashed ==
    ASSUME TypeOK, HashPassword
    PROVE  hashes' \in 1..MaxHash /\ hashes' \in 0..MaxHash
  BY AdminAssumption DEF HashPassword, TypeOK

(* Tokens are those of sessions.                                           *)
LEMMA PendingTokens ==
    ASSUME TypeOK
    PROVE  \A b : Tokens(Pending(b)) \subseteq 1..MaxToken
  BY DEF Tokens, Pending, TypeOK, Session

-----------------------------------------------------------------------------
(* Every step keeps the invariant                                          *)

(* seedAdmin has made the first account, and there is no session.          *)
LEMMA AdminInit == Init => AdminInv
  <1> SUFFICES ASSUME Init PROVE AdminInv
    OBVIOUS
  <1> DEFINE root == [name |-> AdminUsername, hash |-> 1, admin |-> TRUE]
  <1>1. root \in User /\ 1 \in Id
    BY AdminAssumption DEF User, Id
  <1> HIDE DEF root
  <1>2. users = [[id \in Id |-> NoUser] EXCEPT ![1] = root]
    BY DEF Init, root
  <1>3. users \in [Id -> User \cup {NoUser}]
    BY <1>1, <1>2
  <1>4. NoRequest \in RequestState
    BY DEF NoRequest, RequestState
  <1> QED
    BY <1>3, <1>4, AdminAssumption DEF Init, AdminInv, TypeOK, SessionsHaveUsers

(* A request whose first steps only read: no table changes.                *)
LEMMA ReadingKeeps ==
    ASSUME AdminInv, NEW b \in Browser,
           \/ \E id \in Id : Authenticate(b, id)
           \/ RefuseLogin(b)
           \/ \E phase \in {"admitted", "leaving"} : RequireSession(b, phase)
           \/ \E op \in Operation, id \in Id : ReadSubject(b, op, id)
           \/ Cancel(b)
    PROVE  AdminInv'
  <1> USE DEF AdminInv
  <1>1. /\ UNCHANGED <<clock, users, hashes, sessions, tokens, cookie>>
        /\ spared' \subseteq 1..MaxToken
    BY PendingTokens
       DEF Authenticate, RefuseLogin, RequireSession, ReadSubject, Cancel, TypeOK
  <1>2. request' \in [Browser -> RequestState]
    <2>1. ASSUME NEW id \in Id, Authenticate(b, id)
          PROVE  request' \in [Browser -> RequestState]
      <3>1. users[id] \in User
        BY <2>1, LiveUser DEF Authenticate
      <3>2. [phase |-> "login", uid |-> id, row |-> users[id]] \in RequestState
        BY <3>1 DEF RequestState
      <3> QED
        BY <2>1, <3>2, MovesTyped DEF Authenticate
    <2>2. ASSUME NEW phase \in {"admitted", "leaving"}, RequireSession(b, phase)
          PROVE  request' \in [Browser -> RequestState]
      <3>1. PICK s \in sessions : Moves(b, [phase |-> phase, actor |-> s.uid])
        BY <2>2 DEF RequireSession, Presented
      <3>2. s.uid \in Id
        BY DEF TypeOK, Session
      <3>3. [phase |-> phase, actor |-> s.uid] \in RequestState
        BY <3>2 DEF RequestState
      <3> QED
        BY <3>1, <3>3, MovesTyped
    <2>3. ASSUME NEW op \in Operation, NEW id \in Id, ReadSubject(b, op, id)
          PROVE  request' \in [Browser -> RequestState]
      <3>1. users[id] \in User /\ request[b].actor \in Id
        BY <2>3, LiveUser, RequestFields DEF ReadSubject
      <3>2. [phase |-> "ready", actor |-> request[b].actor, op |-> op,
             subject |-> id, row |-> users[id]] \in RequestState
        BY <3>1 DEF RequestState
      <3> QED
        BY <2>3, <3>2, MovesTyped DEF ReadSubject
    <2>4. CASE Done(b)
      BY <2>4, DoneTyped
    <2> QED
      BY <2>1, <2>2, <2>3, <2>4 DEF RefuseLogin, Cancel
  <1> QED
    BY <1>1, <1>2 DEF TypeOK, SessionsHaveUsers, Live

(* A session is inserted for an account that is there.                     *)
LEMMA CreateSessionKeeps ==
    ASSUME AdminInv, NEW b \in Browser, CreateSession(b)
    PROVE  AdminInv'
  <1> USE DEF AdminInv
  <1>1. request[b].uid \in Live /\ request[b].uid \in Id /\ request[b].row \in User
    BY RequestFields DEF CreateSession
  <1>2. tokens' \in 1..MaxToken
    BY AdminAssumption DEF CreateSession, TypeOK
  <1>3. clock + Lifetime \in Nat /\ request[b].row.hash \in 1..MaxHash
    BY <1>1, AdminAssumption DEF TypeOK, User
  <1> DEFINE new == [token |-> tokens', uid |-> request[b].uid,
                     expires |-> clock + Lifetime, hash |-> request[b].row.hash]
  <1>4. new \in Session /\ new.uid \in Live
    BY <1>1, <1>2, <1>3 DEF Session
  <1> HIDE DEF new
  <1>5. sessions' = sessions \cup {new}
    BY DEF CreateSession, new
  <1>6. request' \in [Browser -> RequestState]
    BY DoneTyped DEF CreateSession
  <1>7. cookie' \in [Browser -> 0..MaxToken] /\ tokens' \in 0..MaxToken
        /\ spared' \subseteq 1..MaxToken
    BY <1>2, AdminAssumption DEF CreateSession, TypeOK
  <1> QED
    BY <1>4, <1>5, <1>6, <1>7 DEF CreateSession, TypeOK, SessionsHaveUsers, Live

(* Sessions are deleted: by a cookie that has expired, by signing out, by  *)
(* a reset.                                                                *)
LEMMA DeletingKeeps ==
    ASSUME AdminInv, NEW b \in Browser,
           RefuseSession(b) \/ Logout(b) \/ DeleteUserSessions(b)
    PROVE  AdminInv'
  <1> USE DEF AdminInv
  <1>1. sessions' \subseteq sessions /\ users' = users /\ hashes' = hashes
        /\ tokens' = tokens /\ clock' = clock /\ spared' = spared
    BY DEF RefuseSession, Logout, DeleteUserSessions
  <1>2. cookie' \in [Browser -> 0..MaxToken]
    BY AdminAssumption DEF RefuseSession, Logout, DeleteUserSessions, TypeOK
  <1>3. request' \in [Browser -> RequestState]
    BY DoneTyped DEF RefuseSession, Logout, DeleteUserSessions, TypeOK
  <1> QED
    BY <1>1, <1>2, <1>3 DEF TypeOK, SessionsHaveUsers, Live

(* The forms that write a row.                                             *)
LEMMA WritingKeeps ==
    ASSUME AdminInv, NEW b \in Browser,
           \/ \E name \in Name : CreateUser(b, name)
           \/ \E name \in Name, flag \in BOOLEAN : UpdateUser(b, name, flag)
           \/ SetPassword(b)
    PROVE  AdminInv'
  <1> USE DEF AdminInv
  <1>1. UNCHANGED <<clock, sessions, tokens, cookie, spared>>
    BY DEF CreateUser, UpdateUser, SetPassword
  <1>2. /\ users' \in [Id -> User \cup {NoUser}]
        /\ hashes' \in 0..MaxHash
        /\ Live \subseteq Live'
        /\ request' \in [Browser -> RequestState]
    <2> DEFINE Goal == /\ users' \in [Id -> User \cup {NoUser}]
                       /\ hashes' \in 0..MaxHash
                       /\ Live \subseteq Live'
                       /\ request' \in [Browser -> RequestState]
    <2>1. ASSUME NEW name \in Name, CreateUser(b, name) PROVE Goal
      <3>1. hashes' \in 1..MaxHash /\ hashes' \in 0..MaxHash
        BY <2>1, Hashed DEF CreateUser
      <3> QED
        BY <2>1, <3>1, Inserted, DoneTyped DEF CreateUser
    <2>2. ASSUME NEW name \in Name, NEW flag \in BOOLEAN, UpdateUser(b, name, flag)
          PROVE  Goal
      <3> DEFINE id == request[b].subject
                 row == [[users[id] EXCEPT !.name = name] EXCEPT !.admin = FlagOf(b, flag)]
      <3>1. id \in Id /\ users[id] \in User /\ request[b].row \in User
        BY <2>2, RequestFields, LiveUser DEF UpdateUser
      <3>2. FlagOf(b, flag) \in BOOLEAN
        BY <3>1 DEF FlagOf, User
      <3>3. row \in User
        BY <3>1, <3>2 DEF User
      <3>4. users' = [users EXCEPT ![id] = row]
        BY <2>2, <3>1 DEF UpdateUser, TypeOK
      <3>5. hashes' = hashes /\ Done(b)
        BY <2>2 DEF UpdateUser
      <3> HIDE DEF id, row
      <3> QED
        BY <3>1, <3>3, <3>4, <3>5, LiveStays, DoneTyped DEF TypeOK
    <2>3. CASE SetPassword(b)
      <3> DEFINE id == request[b].subject
                 row == [users[id] EXCEPT !.hash = hashes']
      <3>1. /\ id \in Id /\ users[id] \in User /\ request[b].row \in User
            /\ request[b].actor \in Id /\ request[b].op \in Operation
            /\ request[b] \in [phase : {"ready", "revoking"}, actor : Id,
                                op : Operation, subject : Id, row : User]
        BY <2>3, RequestFields, LiveUser DEF SetPassword
      <3>2. hashes' \in 1..MaxHash /\ hashes' \in 0..MaxHash
        BY <2>3, Hashed DEF SetPassword
      <3>3. row \in User
        BY <3>1, <3>2 DEF User
      <3>4. users' = [users EXCEPT ![id] = row]
        BY <2>3 DEF SetPassword
      <3>5. request' \in [Browser -> RequestState]
        <4>1. [request[b] EXCEPT !.phase = "revoking"] \in RequestState
          BY <3>1 DEF RequestState
        <4> QED
          BY <2>3, <4>1, MovesTyped DEF SetPassword
      <3> HIDE DEF id, row
      <3>6. users' \in [Id -> User \cup {NoUser}] /\ Live' = Live \cup {id}
        BY <3>1, <3>3, <3>4, LiveStays
      <3> QED
        BY <3>2, <3>5, <3>6
    <2> QED
      BY <2>1, <2>2, <2>3
  <1> QED
    BY <1>1, <1>2 DEF TypeOK, SessionsHaveUsers

(* The sessions of a deleted account go with it.                           *)
LEMMA DeleteUserKeeps ==
    ASSUME AdminInv, NEW b \in Browser, DeleteUser(b)
    PROVE  AdminInv'
  <1> USE DEF AdminInv
  <1> DEFINE gone == request[b].subject
  <1>1. users' = [users EXCEPT ![gone] = NoUser]
        /\ sessions' = {s \in sessions : s.uid # gone}
        /\ UNCHANGED <<clock, hashes, tokens, cookie, spared>>
    BY DEF DeleteUser
  <1>2. request' \in [Browser -> RequestState]
    BY DoneTyped DEF DeleteUser
  <1> HIDE DEF gone
  <1>3. Live \ {gone} \subseteq Live'
    BY <1>1 DEF Live, TypeOK
  <1> QED
    BY <1>1, <1>2, <1>3 DEF TypeOK, SessionsHaveUsers

(* What seeding changes: at most the flag of one account.                  *)
LEMMA Seeded ==
    ASSUME TypeOK, EnsureAdmin
    PROVE  /\ users' \in [Id -> User \cup {NoUser}]
           /\ Live \subseteq Live'
           /\ \A o \in Live : /\ users'[o].hash = users[o].hash
                              /\ users[o].admin => users'[o].admin
  <1> DEFINE Goal == /\ users' \in [Id -> User \cup {NoUser}]
                     /\ Live \subseteq Live'
                     /\ \A o \in Live : /\ users'[o].hash = users[o].hash
                                        /\ users[o].admin => users'[o].admin
  <1>1. CASE InsertUser(AdminUsername, 1, TRUE)
    <2>1. 1 \in 1..MaxHash
      BY AdminAssumption
    <2> QED
      BY <1>1, <2>1, Inserted, AdminAssumption
  <1>2. ASSUME NEW id \in Live, users' = [users EXCEPT ![id].admin = TRUE]
        PROVE  Goal
    <2>1. id \in Id /\ users[id] \in User
      BY LiveUser
    <2> DEFINE row == [users[id] EXCEPT !.admin = TRUE]
    <2>2. row \in User /\ row.hash = users[id].hash /\ row.admin
      BY <2>1 DEF User
    <2>3. users' = [users EXCEPT ![id] = row]
      BY <1>2
    <2> HIDE DEF row
    <2>4. users' \in [Id -> User \cup {NoUser}] /\ Live' = Live \cup {id}
      BY <2>1, <2>2, <2>3, LiveStays
    <2>5. \A o \in Live : IF o = id THEN users'[o] = row ELSE users'[o] = users[o]
      BY <2>1, <2>3 DEF TypeOK, Live
    <2> QED
      BY <2>2, <2>4, <2>5
  <1> QED
    BY <1>1, <1>2 DEF EnsureAdmin

(* The server starts again: the account of the configuration is created or *)
(* promoted, and every request is lost.                                    *)
LEMMA RestartKeeps ==
    ASSUME AdminInv, Restart
    PROVE  AdminInv'
  <1> USE DEF AdminInv
  <1>1. /\ UNCHANGED <<clock, hashes, sessions, tokens, cookie>>
        /\ request' = [b \in Browser |-> NoRequest]
    BY DEF Restart
  <1>2. NoRequest \in RequestState
    BY DEF NoRequest, RequestState
  <1>3. spared' \subseteq 1..MaxToken
    BY PendingTokens DEF Restart, TypeOK
  <1>4. users' \in [Id -> User \cup {NoUser}] /\ Live \subseteq Live'
    BY Seeded DEF Restart
  <1> QED
    BY <1>1, <1>2, <1>3, <1>4 DEF TypeOK, SessionsHaveUsers

(* All steps together.                                                     *)
LEMMA AdminStep == AdminInv /\ [Next]_vars => AdminInv'
  <1> SUFFICES ASSUME AdminInv, [Next]_vars PROVE AdminInv'
    OBVIOUS
  <1>1. CASE UNCHANGED vars
    BY <1>1 DEF AdminInv, vars, TypeOK, SessionsHaveUsers, Live
  <1>2. CASE Tick
    BY <1>2 DEF Tick, AdminInv, TypeOK, SessionsHaveUsers, Live
  <1>3. CASE SweepSessions
    BY <1>3 DEF SweepSessions, AdminInv, TypeOK, SessionsHaveUsers, Live
  <1> QED
    BY <1>1, <1>2, <1>3, ReadingKeeps, CreateSessionKeeps, DeletingKeeps, WritingKeeps,
       DeleteUserKeeps, RestartKeeps DEF Next

(* The invariant holds throughout.                                         *)
THEOREM AdminInvariant == Spec => []AdminInv
  BY AdminInit, AdminStep, PTL DEF Spec

(* Every account, session and request has its type, and no request was     *)
(* about an account that was never there.                                  *)
THEOREM AdminTyped == Spec => []TypeOK
  <1>1. AdminInv => TypeOK
    BY DEF AdminInv
  <1> QED
    BY <1>1, AdminInvariant, PTL

(* No session outlives its account, however the requests of any number of  *)
(* browsers interleave (the foreign key and the cascade of table sessions).*)
THEOREM NoOrphanSession == Spec => []SessionsHaveUsers
  <1>1. AdminInv => SessionsHaveUsers
    BY DEF AdminInv
  <1> QED
    BY <1>1, AdminInvariant, PTL

-----------------------------------------------------------------------------
(* The last administrator                                                  *)

(* What an edit of an account writes.                                      *)
LEMMA Updated ==
    ASSUME TypeOK, NEW b \in Browser, NEW name \in Name, NEW flag \in BOOLEAN,
           UpdateUser(b, name, flag)
    PROVE  /\ request[b].subject \in Live
           /\ Live' = Live
           /\ \A o \in Live \ {request[b].subject} : users'[o] = users[o]
           /\ users'[request[b].subject].hash = users[request[b].subject].hash
           /\ users'[request[b].subject].admin = FlagOf(b, flag)
  <1> DEFINE id == request[b].subject
             row == [[users[id] EXCEPT !.name = name] EXCEPT !.admin = FlagOf(b, flag)]
  <1>1. id \in Live /\ id \in Id /\ users[id] \in User /\ request[b].row \in User
    BY RequestFields, LiveUser DEF UpdateUser
  <1>2. FlagOf(b, flag) \in BOOLEAN
    BY <1>1 DEF FlagOf, User
  <1>3. row \in User /\ row.hash = users[id].hash /\ row.admin = FlagOf(b, flag)
    BY <1>1, <1>2 DEF User
  <1>4. users' = [users EXCEPT ![id] = row]
    BY <1>1 DEF UpdateUser, TypeOK
  <1>5. id = request[b].subject
    OBVIOUS
  <1> HIDE DEF id, row
  <1>6. Live' = Live \cup {id}
    BY <1>1, <1>3, <1>4, LiveStays
  <1>7. users'[id] = row /\ \A o \in Live \ {id} : users'[o] = users[o]
    BY <1>1, <1>4 DEF TypeOK, Live
  <1> QED
    BY <1>1, <1>3, <1>5, <1>6, <1>7

(* What a reset writes first.                                              *)
LEMMA PasswordSet ==
    ASSUME TypeOK, NEW b \in Browser, SetPassword(b)
    PROVE  /\ request[b].subject \in Live
           /\ Live' = Live
           /\ \A o \in Live \ {request[b].subject} : users'[o] = users[o]
           /\ users'[request[b].subject].admin = users[request[b].subject].admin
  <1> DEFINE id == request[b].subject
             row == [users[id] EXCEPT !.hash = hashes']
  <1>1. id \in Live /\ id \in Id /\ users[id] \in User
    BY RequestFields, LiveUser DEF SetPassword
  <1>2. hashes' \in 1..MaxHash
    BY Hashed DEF SetPassword
  <1>3. row \in User /\ row.admin = users[id].admin
    BY <1>1, <1>2 DEF User
  <1>4. users' = [users EXCEPT ![id] = row]
    BY DEF SetPassword
  <1>5. id = request[b].subject
    OBVIOUS
  <1> HIDE DEF id, row
  <1>6. Live' = Live \cup {id}
    BY <1>1, <1>3, <1>4, LiveStays
  <1>7. users'[id] = row /\ \A o \in Live \ {id} : users'[o] = users[o]
    BY <1>1, <1>4 DEF TypeOK, Live
  <1> QED
    BY <1>1, <1>3, <1>5, <1>6, <1>7

(* A form that is about to write ends by writing.                          *)
LEMMA DoneMoves ==
    ASSUME TypeOK, NEW b \in Browser, request[b].phase = "ready", Done(b)
    PROVE  request'[b] # request[b]
  BY DEF Done, Moves, NoRequest, TypeOK

(* What one step may do to the last administrator.                         *)
AdministratorStep ==
    Administrators # {} /\ Administrators' = {} =>
      \E b \in Browser :
        /\ request[b].phase = "ready" /\ request'[b] # request[b]
        /\ Overtaken(b)

(* Only an edit or a deletion can take the flag of somebody away, and one  *)
(* that was not overtaken leaves the administrator who submitted it.       *)
LEMMA AdministratorKept == AdminInv /\ [Next]_vars => AdministratorStep
  <1> SUFFICES ASSUME AdminInv, [Next]_vars, NEW id \in Administrators,
                      Administrators' = {}
               PROVE  \E b \in Browser :
                        /\ request[b].phase = "ready" /\ request'[b] # request[b]
                        /\ Overtaken(b)
    BY DEF AdministratorStep
  <1> USE DEF AdminInv
  <1>0. id \in Live /\ users[id].admin
    BY DEF Administrators
  <1>1. \A o \in Live' : ~users'[o].admin
    BY DEF Administrators
  <1>2. CASE UNCHANGED users
    BY <1>0, <1>1, <1>2 DEF Live
  <1>3. ASSUME NEW b \in Browser, NEW name \in Name, CreateUser(b, name)
        PROVE  FALSE
    <2>1. hashes' \in 1..MaxHash
      BY <1>3, Hashed DEF CreateUser
    <2> QED
      BY <1>0, <1>1, <1>3, <2>1, Inserted DEF CreateUser
  <1>4. ASSUME NEW b \in Browser, NEW name \in Name, NEW flag \in BOOLEAN,
               UpdateUser(b, name, flag)
        PROVE  /\ request[b].phase = "ready" /\ request'[b] # request[b]
               /\ Overtaken(b)
    <2>1. request[b].phase = "ready" /\ request'[b] # request[b]
      BY <1>4, DoneMoves DEF UpdateUser
    <2>2. SUFFICES ASSUME request[b].actor \in Administrators,
                          request[b].row = users[request[b].subject]
                   PROVE  FALSE
      BY <2>1 DEF Overtaken
    <2>3. request[b].actor \in Live /\ users[request[b].actor].admin
      BY <2>2 DEF Administrators
    <2>4. CASE request[b].actor = request[b].subject
      BY <1>1, <1>4, <2>2, <2>3, <2>4, Updated DEF FlagOf
    <2>5. CASE request[b].actor # request[b].subject
      BY <1>1, <1>4, <2>3, <2>5, Updated
    <2> QED
      BY <2>4, <2>5
  <1>5. ASSUME NEW b \in Browser, SetPassword(b)
        PROVE  FALSE
    BY <1>0, <1>1, <1>5, PasswordSet
  <1>6. ASSUME NEW b \in Browser, DeleteUser(b)
        PROVE  /\ request[b].phase = "ready" /\ request'[b] # request[b]
               /\ Overtaken(b)
    <2>1. request[b].phase = "ready" /\ request'[b] # request[b]
      BY <1>6, DoneMoves DEF DeleteUser
    <2>2. SUFFICES ASSUME request[b].actor \in Administrators
                   PROVE  FALSE
      BY <2>1 DEF Overtaken
    <2>3. request[b].actor \in Live /\ users[request[b].actor].admin
      BY <2>2 DEF Administrators
    <2>4. request[b].actor \in Live' /\ users'[request[b].actor].admin
      BY <1>6, <2>3 DEF DeleteUser, Live, TypeOK
    <2> QED
      BY <1>1, <2>4
  <1>7. CASE Restart
    BY <1>0, <1>1, <1>7, Seeded DEF Restart
  <1>8. CASE SweepSessions \/ Tick \/ UNCHANGED vars
    BY <1>2, <1>8 DEF SweepSessions, Tick, vars
  <1>9. ASSUME NEW b \in Browser,
               \/ \E o \in Id : Authenticate(b, o)
               \/ CreateSession(b)
               \/ RefuseLogin(b)
               \/ \E phase \in {"admitted", "leaving"} : RequireSession(b, phase)
               \/ RefuseSession(b)
               \/ Logout(b)
               \/ \E op \in Operation, o \in Id : ReadSubject(b, op, o)
               \/ DeleteUserSessions(b)
               \/ Cancel(b)
        PROVE  FALSE
    <2>1. UNCHANGED users
      BY <1>9 DEF Authenticate, CreateSession, RefuseLogin, RequireSession,
                  RefuseSession, Logout, ReadSubject, DeleteUserSessions, Cancel
    <2> QED
      BY <1>0, <1>1, <2>1 DEF Live
  <1> QED
    BY <1>3, <1>4, <1>5, <1>6, <1>7, <1>8, <1>9 DEF Next

(* However the forms of any number of administrators interleave, and       *)
(* wherever the server goes down, the last administrator is only ever      *)
(* demoted or deleted by a form that was overtaken after it was admitted   *)
(* (updateUser, deleteUser).                                               *)
THEOREM LastAdministrator == Spec => LastAdministratorStays
  <1>1. AdminInv /\ [Next]_vars => [AdministratorStep]_vars
    BY AdministratorKept
  <1>2. LastAdministratorStays <=> [][AdministratorStep]_vars
    BY PTL DEF LastAdministratorStays, AdministratorStep
  <1> QED
    BY <1>1, <1>2, AdminInvariant, PTL DEF Spec

-----------------------------------------------------------------------------
(* The sessions of an earlier password                                     *)

(* With the inserted session: it was opened with the password of now, or   *)
(* it is marked as overtaken.                                              *)
LEMMA CauseOfInserted ==
    ASSUME AdminInv, OldSessionsHaveACause, NEW b \in Browser, CreateSession(b)
    PROVE  OldSessionsHaveACause'
  <1> SUFFICES ASSUME NEW s \in sessions'
               PROVE  \/ s.hash = users'[s.uid].hash
                      \/ s.token \in spared'
                      \/ \E c \in Browser : s \in Pending(c)'
    BY DEF OldSessionsHaveACause
  <1>1. users' = users /\ spared \subseteq spared'
    BY DEF CreateSession
  <1>2. CASE s \in sessions
    <2>1. ASSUME NEW c \in Browser, s \in Pending(c)
          PROVE  s \in Pending(c)'
      <3>1. c # b
        BY <2>1 DEF Pending, CreateSession
      <3>2. request'[c] = request[c]
        BY <3>1 DEF CreateSession, Done, Moves, AdminInv, TypeOK
      <3> QED
        BY <2>1, <3>2 DEF Pending
    <2> QED
      BY <1>1, <1>2, <2>1 DEF OldSessionsHaveACause
  <1>3. CASE s \notin sessions
    <2>1. /\ s.token = tokens' /\ s.uid = request[b].uid
          /\ s.hash = request[b].row.hash
      BY <1>3 DEF CreateSession
    <2> QED
      BY <1>1, <2>1 DEF CreateSession
  <1> QED
    BY <1>2, <1>3

(* Without an inserted session: passwords stay, and a reset that no longer *)
(* is under way has deleted its sessions or left their tokens behind.      *)
LEMMA CauseKept ==
    ASSUME OldSessionsHaveACause,
           sessions' \subseteq sessions, spared \subseteq spared',
           \A s \in sessions' : users'[s.uid].hash = users[s.uid].hash,
           \A c \in Browser : \A s \in Pending(c) :
             \/ s \in Pending(c)'
             \/ s.token \in spared'
             \/ s \notin sessions'
    PROVE  OldSessionsHaveACause'
  BY DEF OldSessionsHaveACause

(* The other requests are where they were.                                 *)
LEMMA OthersPending ==
    ASSUME TypeOK, NEW b \in Browser, NEW state, Moves(b, state),
           NEW c \in Browser, c # b
    PROVE  \A s \in Pending(c) : s \in Pending(c)' \/ s \notin sessions'
  <1>1. request'[c] = request[c]
    BY DEF Moves, TypeOK
  <1> QED
    BY <1>1 DEF Pending

(* Every step keeps the causes.                                            *)
LEMMA CauseStep ==
    ASSUME AdminInv, OldSessionsHaveACause, [Next]_vars
    PROVE  OldSessionsHaveACause'
  <1>0. TypeOK /\ SessionsHaveUsers
    BY DEF AdminInv
  <1>1. ASSUME NEW b \in Browser,
               \/ \E id \in Id : Authenticate(b, id)
               \/ RefuseLogin(b)
               \/ \E phase \in {"admitted", "leaving"} : RequireSession(b, phase)
               \/ Logout(b)
               \/ \E op \in Operation, id \in Id : ReadSubject(b, op, id)
        PROVE  OldSessionsHaveACause'
    <2>1. /\ users' = users /\ spared' = spared /\ sessions' \subseteq sessions
          /\ request[b].phase # "revoking"
          /\ \E state : Moves(b, state)
      BY <1>1 DEF Authenticate, RefuseLogin, RequireSession, Logout, ReadSubject, Done
    <2>2. PICK state : Moves(b, state)
      BY <2>1
    <2>3. ASSUME NEW c \in Browser, NEW s \in Pending(c)
          PROVE  s \in Pending(c)' \/ s \notin sessions'
      <3>1. c # b
        BY <2>1, <2>3 DEF Pending
      <3> QED
        BY <1>0, <2>2, <3>1, OthersPending
    <2> QED
      BY <2>1, <2>3, CauseKept
  <1>2. ASSUME NEW b \in Browser, RefuseSession(b)
        PROVE  OldSessionsHaveACause'
    <2>1. /\ UNCHANGED <<users, spared, request>> /\ sessions' \subseteq sessions
      BY <1>2 DEF RefuseSession
    <2>2. \A c \in Browser : \A s \in Pending(c) : s \in Pending(c)' \/ s \notin sessions'
      BY <2>1 DEF Pending
    <2> QED
      BY <2>1, <2>2, CauseKept
  <1>3. ASSUME NEW b \in Browser, NEW name \in Name, CreateUser(b, name)
        PROVE  OldSessionsHaveACause'
    <2>1. hashes' \in 1..MaxHash /\ InsertUser(name, hashes', FALSE)
      BY <1>0, <1>3, Hashed DEF CreateUser
    <2>2. \A o \in Live : users'[o] = users[o]
      BY <1>0, <2>1, Inserted
    <2>3. sessions' = sessions /\ spared' = spared /\ Moves(b, NoRequest)
          /\ request[b].phase # "revoking"
      BY <1>3 DEF CreateUser, Done
    <2>4. ASSUME NEW c \in Browser, NEW s \in Pending(c)
          PROVE  s \in Pending(c)' \/ s \notin sessions'
      <3>1. c # b
        BY <2>3, <2>4 DEF Pending
      <3> QED
        BY <1>0, <2>3, <3>1, OthersPending
    <2>5. \A s \in sessions' : users'[s.uid].hash = users[s.uid].hash
      BY <1>0, <2>2, <2>3 DEF SessionsHaveUsers
    <2> QED
      BY <2>3, <2>4, <2>5, CauseKept
  <1>4. ASSUME NEW b \in Browser, NEW name \in Name, NEW flag \in BOOLEAN,
               UpdateUser(b, name, flag)
        PROVE  OldSessionsHaveACause'
    <2>1. sessions' = sessions /\ spared' = spared /\ Moves(b, NoRequest)
          /\ request[b].phase # "revoking"
      BY <1>4 DEF UpdateUser, Done
    <2>2. \A o \in Live : users'[o].hash = users[o].hash
      BY <1>0, <1>4, Updated
    <2>3. ASSUME NEW c \in Browser, NEW s \in Pending(c)
          PROVE  s \in Pending(c)' \/ s \notin sessions'
      <3>1. c # b
        BY <2>1, <2>3 DEF Pending
      <3> QED
        BY <1>0, <2>1, <3>1, OthersPending
    <2>4. \A s \in sessions' : users'[s.uid].hash = users[s.uid].hash
      BY <1>0, <2>1, <2>2 DEF SessionsHaveUsers
    <2> QED
      BY <2>1, <2>3, <2>4, CauseKept
  <1>5. ASSUME NEW b \in Browser, SetPassword(b)
        PROVE  OldSessionsHaveACause'
    <2>1. request[b] \in [phase : {"ready", "revoking"}, actor : Id,
                           op : Operation, subject : Id, row : User]
      BY <1>0, <1>5, RequestFields DEF SetPassword
    <2>2. request'[b].phase = "revoking" /\ request'[b].subject = request[b].subject
      BY <1>0, <1>5, <2>1 DEF SetPassword, Moves, TypeOK
    <2>3. sessions' = sessions /\ spared' = spared
          /\ Moves(b, [request[b] EXCEPT !.phase = "revoking"])
          /\ request[b].phase # "revoking"
      BY <1>5 DEF SetPassword
    <2>4. ASSUME NEW s \in sessions
          PROVE  \/ s.hash = users'[s.uid].hash
                 \/ s.token \in spared'
                 \/ \E c \in Browser : s \in Pending(c)'
      <3>1. CASE s.uid = request[b].subject
        BY <2>2, <2>3, <3>1 DEF Pending
      <3>2. CASE s.uid # request[b].subject
        <4>1. users'[s.uid] = users[s.uid]
          BY <1>0, <1>5, <3>2, PasswordSet DEF SessionsHaveUsers
        <4>2. ASSUME NEW c \in Browser, s \in Pending(c)
              PROVE  s \in Pending(c)'
          <5>1. c # b
            BY <2>3, <4>2 DEF Pending
          <5> QED
            BY <1>0, <2>3, <4>2, <5>1, OthersPending
        <4> QED
          BY <2>3, <4>1, <4>2 DEF OldSessionsHaveACause
      <3> QED
        BY <3>1, <3>2
    <2> QED
      BY <2>3, <2>4 DEF OldSessionsHaveACause
  <1>6. ASSUME NEW b \in Browser, DeleteUserSessions(b) \/ DeleteUser(b)
        PROVE  OldSessionsHaveACause'
    <2>1. /\ sessions' = {s \in sessions : s.uid # request[b].subject}
          /\ spared' = spared /\ Moves(b, NoRequest)
      BY <1>6 DEF DeleteUserSessions, DeleteUser, Done
    <2>2. \A s \in sessions' : users'[s.uid] = users[s.uid]
      BY <1>0, <1>6, <2>1 DEF DeleteUserSessions, DeleteUser, SessionsHaveUsers, Live, TypeOK
    <2>3. ASSUME NEW c \in Browser, NEW s \in Pending(c)
          PROVE  s \in Pending(c)' \/ s \notin sessions'
      <3>1. CASE c = b
        BY <2>1, <2>3, <3>1 DEF Pending
      <3>2. CASE c # b
        BY <1>0, <2>1, <3>2, OthersPending
      <3> QED
        BY <3>1, <3>2
    <2> QED
      BY <2>1, <2>2, <2>3, CauseKept
  <1>7. ASSUME NEW b \in Browser, Cancel(b)
        PROVE  OldSessionsHaveACause'
    <2>1. /\ sessions' = sessions /\ users' = users
          /\ spared' = spared \cup Tokens(Pending(b)) /\ Moves(b, NoRequest)
      BY <1>7 DEF Cancel, Done
    <2>2. ASSUME NEW c \in Browser, NEW s \in Pending(c)
          PROVE  s \in Pending(c)' \/ s.token \in spared' \/ s \notin sessions'
      <3>1. CASE c = b
        BY <2>1, <2>2, <3>1 DEF Tokens
      <3>2. CASE c # b
        BY <1>0, <2>1, <3>2, OthersPending
      <3> QED
        BY <3>1, <3>2
    <2> QED
      BY <2>1, <2>2, CauseKept
  <1>8. CASE Restart
    <2>1. /\ sessions' = sessions /\ EnsureAdmin
          /\ spared' = spared \cup UNION {Tokens(Pending(b)) : b \in Browser}
      BY <1>8 DEF Restart
    <2>2. \A s \in sessions' : users'[s.uid].hash = users[s.uid].hash
      BY <1>0, <2>1, Seeded DEF SessionsHaveUsers
    <2>3. \A c \in Browser : \A s \in Pending(c) : s.token \in spared'
      BY <2>1 DEF Tokens
    <2> QED
      BY <2>1, <2>2, <2>3, CauseKept
  <1>9. CASE SweepSessions \/ Tick \/ UNCHANGED vars
    <2>1. UNCHANGED <<users, spared, request>> /\ sessions' \subseteq sessions
      BY <1>9 DEF SweepSessions, Tick, vars
    <2>2. \A c \in Browser : \A s \in Pending(c) : s \in Pending(c)' \/ s \notin sessions'
      BY <2>1 DEF Pending
    <2> QED
      BY <2>1, <2>2, CauseKept
  <1> QED
    BY <1>1, <1>2, <1>3, <1>4, <1>5, <1>6, <1>7, <1>8, <1>9, CauseOfInserted DEF Next

(* A session of an earlier password is only there while its reset is under *)
(* way, after a reset that was cut off between its two statements, or by a *)
(* login that verified the password before the reset: for any number of    *)
(* browsers and restarts (resetPassword, doLogin).                         *)
THEOREM OldSessionsCause == Spec => []OldSessionsHaveACause
  <1>1. Init => OldSessionsHaveACause
    BY DEF Init, OldSessionsHaveACause
  <1> QED
    BY <1>1, CauseStep, AdminInvariant, PTL DEF Spec
=============================================================================
