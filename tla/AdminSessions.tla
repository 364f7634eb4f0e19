---------------------------- MODULE AdminSessions ----------------------------
(***************************************************************************)
(* The accounts and the sessions of the admin interface (admin/admin.go,   *)
(* admin/users.go, auth/session.go, storage/users.go and sessions.go), the *)
(* sweeper of expired sessions and the start of the server (cmd/dav).      *)
(*                                                                         *)
(* A browser has one request at a time.  A form is handled in three steps: *)
(* the session is looked up, the account the form is about is read, and a  *)
(* statement writes; resetting a password takes two statements.  Signing   *)
(* in reads the account first and inserts the session later.  Statements   *)
(* of other browsers fall in between.                                      *)
(***************************************************************************)
EXTENDS Naturals

CONSTANTS
    Browser,
    Name,            \* usernames, as the index of users tells them apart
    AdminUsername,   \* the account the configuration names
    Lifetime,        \* how long a session lasts
    NoUser,          \* no row in users
    MaxId,           \* bound on rowids of users
    MaxHash,         \* bound on how many passwords are set
    MaxToken,        \* bound on how many sessions are made
    MaxTime          \* bound on the clock

ASSUME AdminAssumption ==
    /\ AdminUsername \in Name
    /\ Lifetime \in Nat \ {0}
    /\ MaxId \in Nat \ {0}
    /\ MaxHash \in Nat \ {0}
    /\ MaxToken \in Nat
    /\ MaxTime \in Nat

VARIABLES
    clock,
    users,           \* rowid |-> row of table users, or NoUser
    hashes,          \* how many passwords have been set
    sessions,        \* the rows of table sessions
    tokens,          \* how many session tokens have been made
    cookie,          \* browser |-> the token it holds, 0 if none
    request,         \* the request of each browser
    spared           \* auxiliary: tokens a password reset was not able to delete

vars == <<clock, users, hashes, sessions, tokens, cookie, request, spared>>

-----------------------------------------------------------------------------

Id == 1..MaxId

(* Hashes and tokens are drawn at random: they are numbered.  Hashes of    *)
(* the same password are not told apart; 1 stands for the password of the  *)
(* configuration.                                                          *)
User == [name : Name, hash : 1..MaxHash, admin : BOOLEAN]

ASSUME NoUserAssumption == NoUser \notin User

(* hash is auxiliary: the hash the password was verified against.          *)
Session == [token : 1..MaxToken, uid : Id, expires : Nat, hash : 1..MaxHash]

Operation == {"update", "reset", "delete"}

(* login: the account has been verified.  admitted: session and flag have  *)
(* been checked.  ready: the subject has been read.  revoking: between the *)
(* two statements of a reset.  leaving: about to sign out.                 *)
RequestState ==
    [phase : {"idle"}]
    \cup [phase : {"login"}, uid : Id, row : User]
    \cup [phase : {"admitted", "leaving"}, actor : Id]
    \cup [phase : {"ready", "revoking"}, actor : Id, op : Operation,
          subject : Id, row : User]

NoRequest == [phase |-> "idle"]

TypeOK ==
    /\ clock \in Nat
    /\ users \in [Id -> User \cup {NoUser}]
    /\ hashes \in 0..MaxHash
    /\ sessions \subseteq Session
    /\ tokens \in 0..MaxToken
    /\ cookie \in [Browser -> 0..MaxToken]
    /\ request \in [Browser -> RequestState]
    /\ spared \subseteq 1..MaxToken

Live == {id \in Id : users[id] # NoUser}

(* The unique index on usernames.                                          *)
Taken(name, self) == \E id \in Live \ {self} : users[id].name = name

(* The rowid of an inserted row: one more than the largest in use.         *)
NextRowId(id) ==
    /\ \A other \in Live : other < id
    /\ id = 1 \/ (id - 1) \in Live

(* storage.CreateUser                                                      *)
InsertUser(name, hash, admin) ==
    /\ ~Taken(name, 0)
    /\ \E id \in Id :
         /\ NextRowId(id)
         /\ users' = [users EXCEPT ![id] =
              [name |-> name, hash |-> hash, admin |-> admin]]

(* auth.HashPassword                                                       *)
HashPassword == hashes < MaxHash /\ hashes' = hashes + 1

(* The first start: seedAdmin on an empty database.                        *)
Init ==
    /\ clock = 0
    /\ users = [[id \in Id |-> NoUser] EXCEPT ![1] =
                  [name |-> AdminUsername, hash |-> 1, admin |-> TRUE]]
    /\ hashes = 1
    /\ sessions = {}
    /\ tokens = 0
    /\ cookie = [b \in Browser |-> 0]
    /\ request = [b \in Browser |-> NoRequest]
    /\ spared = {}

Moves(b, state) == request' = [request EXCEPT ![b] = state]

Done(b) == Moves(b, NoRequest)

-----------------------------------------------------------------------------
(* Signing in and out                                                      *)

(* doLogin up to Authenticate, with the right password.  A wrong one only  *)
(* concerns the throttle.                                                  *)
Authenticate(b, id) ==
    /\ request[b].phase = "idle"
    /\ id \in Live
    /\ Moves(b, [phase |-> "login", uid |-> id, row |-> users[id]])
    /\ UNCHANGED <<clock, users, hashes, sessions, tokens, cookie, spared>>

(* The rest of doLogin, Sessions.Create.  An account that is gone violates *)
(* the foreign key.                                                        *)
CreateSession(b) ==
    /\ request[b].phase = "login"
    /\ request[b].row.admin
    /\ request[b].uid \in Live
    /\ tokens < MaxToken
    /\ tokens' = tokens + 1
    /\ sessions' = sessions \cup
         {[token |-> tokens', uid |-> request[b].uid,
           expires |-> clock + Lifetime, hash |-> request[b].row.hash]}
    /\ spared' = IF users[request[b].uid].hash = request[b].row.hash
                 THEN spared ELSE spared \cup {tokens'}
    /\ cookie' = [cookie EXCEPT ![b] = tokens']
    /\ Done(b)
    /\ UNCHANGED <<clock, users, hashes>>

RefuseLogin(b) ==
    /\ request[b].phase = "login"
    /\ ~request[b].row.admin \/ request[b].uid \notin Live
    /\ Done(b)
    /\ UNCHANGED <<clock, users, hashes, sessions, tokens, cookie, spared>>

Presented(b) == {s \in sessions : s.token = cookie[b]}

Usable(s) == clock < s.expires

(* RequireSession finds a session, and requireAdmin the flag; signing out  *)
(* needs no flag.                                                          *)
RequireSession(b, phase) ==
    /\ request[b].phase = "idle"
    /\ \E s \in Presented(b) :
         /\ Usable(s)
         /\ phase = "admitted" => users[s.uid].admin
         /\ Moves(b, [phase |-> phase, actor |-> s.uid])
    /\ UNCHANGED <<clock, users, hashes, sessions, tokens, cookie, spared>>

(* No session, or one that has expired: SessionByToken deletes its row,    *)
(* and the cookie is cleared.                                              *)
RefuseSession(b) ==
    /\ request[b].phase = "idle"
    /\ cookie[b] # 0
    /\ \A s \in Presented(b) : ~Usable(s)
    /\ sessions' = sessions \ Presented(b)
    /\ cookie' = [cookie EXCEPT ![b] = 0]
    /\ UNCHANGED <<clock, users, hashes, tokens, request, spared>>

(* doLogout                                                                *)
Logout(b) ==
    /\ request[b].phase = "leaving"
    /\ sessions' = sessions \ Presented(b)
    /\ cookie' = [cookie EXCEPT ![b] = 0]
    /\ Done(b)
    /\ UNCHANGED <<clock, users, hashes, tokens, spared>>

-----------------------------------------------------------------------------
(* The forms                                                               *)

(* createUser                                                              *)
CreateUser(b, name) ==
    /\ request[b].phase = "admitted"
    /\ HashPassword
    /\ InsertUser(name, hashes', FALSE)
    /\ Done(b)
    /\ UNCHANGED <<clock, sessions, tokens, cookie, spared>>

(* Mutant: a rowid that names no account is not noticed.                   *)
ReadSubjectUnchecked(b, op, id) ==
    /\ request[b].phase = "admitted"
    /\ Moves(b, [phase |-> "ready", actor |-> request[b].actor, op |-> op,
                 subject |-> id, row |-> users[id]])
    /\ UNCHANGED <<clock, users, hashes, sessions, tokens, cookie, spared>>

(* The account of the form is read by its rowid.                           *)
ReadSubject(b, op, id) ==
    /\ request[b].phase = "admitted"
    /\ id \in Live
    /\ Moves(b, [phase |-> "ready", actor |-> request[b].actor, op |-> op,
                 subject |-> id, row |-> users[id]])
    /\ UNCHANGED <<clock, users, hashes, sessions, tokens, cookie, spared>>

(* Mutant: nobody is kept from changing their own flag.                    *)
FlagOfAny(b, flag) == flag

(* updateUser: who edits their own account keeps the flag that was read.   *)
FlagOf(b, flag) ==
    IF request[b].actor = request[b].subject THEN request[b].row.admin ELSE flag

(* updateUser writes name and flag, whatever they are by now.              *)
UpdateUser(b, name, flag) ==
    /\ request[b].phase = "ready" /\ request[b].op = "update"
    /\ request[b].subject \in Live
    /\ ~Taken(name, request[b].subject)
    /\ users' = [users EXCEPT ![request[b].subject].name = name,
                              ![request[b].subject].admin = FlagOf(b, flag)]
    /\ Done(b)
    /\ UNCHANGED <<clock, hashes, sessions, tokens, cookie, spared>>

(* resetPassword, first statement                                          *)
SetPassword(b) ==
    /\ request[b].phase = "ready" /\ request[b].op = "reset"
    /\ request[b].subject \in Live
    /\ HashPassword
    /\ users' = [users EXCEPT ![request[b].subject].hash = hashes']
    /\ Moves(b, [request[b] EXCEPT !.phase = "revoking"])
    /\ UNCHANGED <<clock, sessions, tokens, cookie, spared>>

(* Mutant: only the session of the request is deleted.                     *)
DeleteUserSessionsOwn(b) ==
    /\ request[b].phase = "revoking"
    /\ sessions' = sessions \ Presented(b)
    /\ cookie' = IF request[b].actor = request[b].subject
                 THEN [cookie EXCEPT ![b] = 0] ELSE cookie
    /\ Done(b)
    /\ UNCHANGED <<clock, users, hashes, tokens, spared>>

(* resetPassword, second statement                                         *)
DeleteUserSessions(b) ==
    /\ request[b].phase = "revoking"
    /\ sessions' = {s \in sessions : s.uid # request[b].subject}
    /\ cookie' = IF request[b].actor = request[b].subject
                 THEN [cookie EXCEPT ![b] = 0] ELSE cookie
    /\ Done(b)
    /\ UNCHANGED <<clock, users, hashes, tokens, spared>>

(* Mutant: the sessions of the account stay.                               *)
DeleteUserOnly(b) ==
    /\ request[b].phase = "ready" /\ request[b].op = "delete"
    /\ request[b].subject \in Live
    /\ request[b].subject # request[b].actor
    /\ users' = [users EXCEPT ![request[b].subject] = NoUser]
    /\ Done(b)
    /\ UNCHANGED <<clock, hashes, sessions, tokens, cookie, spared>>

(* deleteUser; ON DELETE CASCADE takes the sessions of the account along.  *)
DeleteUser(b) ==
    /\ request[b].phase = "ready" /\ request[b].op = "delete"
    /\ request[b].subject \in Live
    /\ request[b].subject # request[b].actor
    /\ users' = [users EXCEPT ![request[b].subject] = NoUser]
    /\ sessions' = {s \in sessions : s.uid # request[b].subject}
    /\ Done(b)
    /\ UNCHANGED <<clock, hashes, tokens, cookie, spared>>

(* The sessions a reset would still have deleted.                          *)
Pending(b) ==
    {s \in sessions : request[b].phase = "revoking" /\ s.uid = request[b].subject}

Tokens(rows) == {s.token : s \in rows}

(* A form that is refused (a taken name, a short password, the account the *)
(* browser is signed in as, a row that is gone), a statement that fails, a *)
(* browser that leaves: the request ends where it is.                      *)
Cancel(b) ==
    /\ request[b].phase # "idle"
    /\ spared' = spared \cup Tokens(Pending(b))
    /\ Done(b)
    /\ UNCHANGED <<clock, users, hashes, sessions, tokens, cookie>>

-----------------------------------------------------------------------------
(* The server                                                              *)

Expired == {s \in sessions : s.expires <= clock}

(* sweepSessions, DeleteExpiredSessions                                    *)
SweepSessions ==
    /\ Expired # {}
    /\ sessions' = sessions \ Expired
    /\ UNCHANGED <<clock, users, hashes, tokens, cookie, request, spared>>

(* EnsureAdmin: the configured account is created if it is missing and     *)
(* promoted if it is not an administrator; its password is left alone.     *)
EnsureAdmin ==
    \/ InsertUser(AdminUsername, 1, TRUE)
    \/ \E id \in Live :
         /\ users[id].name = AdminUsername
         /\ users' = [users EXCEPT ![id].admin = TRUE]

(* The server goes down in the middle of any request and starts again:     *)
(* seedAdmin is done before it listens.                                    *)
Restart ==
    /\ EnsureAdmin
    /\ spared' = spared \cup UNION {Tokens(Pending(b)) : b \in Browser}
    /\ request' = [b \in Browser |-> NoRequest]
    /\ UNCHANGED <<clock, hashes, sessions, tokens, cookie>>

Tick ==
    /\ clock < MaxTime
    /\ clock' = clock + 1
    /\ UNCHANGED <<users, hashes, sessions, tokens, cookie, request, spared>>

-----------------------------------------------------------------------------

Next ==
    \/ \E b \in Browser :
         \/ \E id \in Id : Authenticate(b, id)
         \/ CreateSession(b)
         \/ RefuseLogin(b)
         \/ \E phase \in {"admitted", "leaving"} : RequireSession(b, phase)
         \/ RefuseSession(b)
         \/ Logout(b)
         \/ \E name \in Name : CreateUser(b, name)
         \/ \E op \in Operation, id \in Id : ReadSubject(b, op, id)
         \/ \E name \in Name, flag \in BOOLEAN : UpdateUser(b, name, flag)
         \/ SetPassword(b)
         \/ DeleteUserSessions(b)
         \/ DeleteUser(b)
         \/ Cancel(b)
    \/ SweepSessions
    \/ Restart
    \/ Tick

Spec == Init /\ [][Next]_vars

-----------------------------------------------------------------------------
(* Properties                                                              *)

(* No session outlives its account, also when the account is deleted while *)
(* somebody signs in to it or its rowid is given to another one: no cookie *)
(* is ever resolved to a row that is not there.                            *)
SessionsHaveUsers == \A s \in sessions : s.uid \in Live

Administrators == {id \in Live : users[id].admin}

(* What the form of b was admitted with, or what it has read, is no longer *)
(* so: who submitted it is not an administrator any more, or the account   *)
(* it is about has changed.                                                *)
Overtaken(b) ==
    \/ request[b].actor \notin Administrators
    \/ request[b].row # users[request[b].subject]

(* "An administrator demoting themselves locks everyone out of this        *)
(* interface if they are the only one, so the form disables the control    *)
(* and the server does not trust that alone" (updateUser).  That holds of  *)
(* every form that finds what it was admitted with and has read still so:  *)
(* the last administrator goes only when another form overtakes this one.  *)
(* Two administrators who demote each other at the same time do that, for  *)
(* updateUser and deleteUser check nothing in the statement that writes.   *)
LastAdministratorStays ==
    [][Administrators # {} /\ Administrators' = {} =>
         \E b \in Browser :
           /\ request[b].phase = "ready" /\ request'[b] # request[b]
           /\ Overtaken(b)]_vars

(* "A changed password must not leave old admin sessions alive"            *)
(* (resetPassword).  A session opened with an earlier password is there    *)
(* while the second statement of a reset is still to come, and else for    *)
(* one of two reasons the code leaves open: the request was cut off before *)
(* that statement (a failure, a browser that left, a restart), or the      *)
(* session was inserted by a login that had verified the password before   *)
(* it was changed.                                                         *)
OldSessionsHaveACause ==
    \A s \in sessions :
      \/ s.hash = users[s.uid].hash
      \/ s.token \in spared
      \/ \E b \in Browser : s \in Pending(b)
=============================================================================
