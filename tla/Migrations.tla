----------------------------- MODULE Migrations -----------------------------
(***************************************************************************)
(* How server processes start on one database file (internal/storage/      *)
(* storage.go and migrate.go, seedAdmin in cmd/dav/main.go): the schema is *)
(* brought up to the release of the process, the account of the            *)
(* administrator is seeded, and only then does it listen.  A process may   *)
(* crash between any two statements, its supervisor starts it again, and   *)
(* during an update two processes, of different releases, start on the     *)
(* same file.  Meanwhile the admin interface of a process that serves may  *)
(* create, rename, promote, demote or delete the accounts that another one *)
(* is about to seed.                                                       *)
(*                                                                         *)
(* A release is the number of migrations it embeds: a later one adds       *)
(* scripts after those of the earlier ones.                                *)
(***************************************************************************)
EXTENDS Integers

CONSTANTS
    Process,
    Release,         \* the releases that may be started
    Row,             \* rowids of table users
    MaxForms         \* bound on the forms that are submitted

ASSUME ReleaseAssumption == Release \subseteq Nat \ {0} /\ MaxForms \in Nat

VARIABLES
    schema,             \* the versions whose script has been executed
    schema_migrations,  \* the versions that are recorded
    users,              \* what each row of table users is
    phase,              \* where each process is in its start
    release,            \* the release each process runs
    todo,               \* the versions its loop still has to visit
    found,              \* the row its EnsureAdmin is about to promote
    forms               \* how many forms have been submitted

vars == <<schema, schema_migrations, users, phase, release, todo, found, forms>>

(* creating, promoting: between the two statements of EnsureAdmin.         *)
Phase == {"stopped", "crashed", "created", "migrating", "creating", "promoting",
          "serving"}

Version == Nat \ {0}

(* No row, a row of another name, and the row of the name in the           *)
(* configuration, without is_admin and with it.                            *)
Entry == {"absent", "other", "member", "admin"}

Named(entry) == entry \in {"member", "admin"}

TypeOK ==
    /\ schema \subseteq Version
    /\ schema_migrations \subseteq Version
    /\ users \in [Row -> Entry]
    /\ phase \in [Process -> Phase]
    /\ release \in [Process -> Release]
    /\ todo \in [Process -> SUBSET Version]
    /\ found \in [Process -> SUBSET Row]
    /\ forms \in 0..MaxForms

Init ==
    /\ schema = {}
    /\ schema_migrations = {}
    /\ users = [r \in Row |-> "absent"]
    /\ phase = [p \in Process |-> "stopped"]
    /\ release \in [Process -> Release]
    /\ todo = [p \in Process |-> {}]
    /\ found = [p \in Process |-> {}]
    /\ forms = 0

(* Mutant: version 0, of a file name that does not parse, is not refused.  *)
loadMigrationsFromZero(p) == 0..release[p]

loadMigrations(p) == 1..release[p]

-----------------------------------------------------------------------------
(* Open and Migrate                                                        *)

(* A process is started: it opens the file and creates schema_migrations   *)
(* unless there is one.                                                    *)
Start(p, r) ==
    /\ phase[p] \in {"stopped", "crashed"}
    /\ phase' = [phase EXCEPT ![p] = "created"]
    /\ release' = [release EXCEPT ![p] = r]
    /\ UNCHANGED <<schema, schema_migrations, users, todo, found, forms>>

(* appliedVersions, which is read once.                                    *)
ReadApplied(p) ==
    /\ phase[p] = "created"
    /\ phase' = [phase EXCEPT ![p] = "migrating"]
    /\ todo' = [todo EXCEPT ![p] = loadMigrations(p) \ schema_migrations]
    /\ UNCHANGED <<schema, schema_migrations, users, release, found, forms>>

(* Mutant: the order of the files is not that of the versions.             *)
NextMigrationUnsorted(p, v) ==
    /\ phase[p] = "migrating"
    /\ v \in todo[p]
    /\ \A w \in todo[p] : w <= v

(* The next migration in the order of the versions.                        *)
NextMigration(p, v) ==
    /\ phase[p] = "migrating"
    /\ v \in todo[p]
    /\ \A w \in todo[p] : v <= w

(* Mutant: the script and its record are committed one after the other.    *)
ApplyMigrationInTwoSteps(p, v) ==
    /\ NextMigration(p, v)
    /\ v \notin schema
    /\ schema' = schema \cup {v}
    /\ \/ schema_migrations' = schema_migrations \cup {v} /\ UNCHANGED phase
       \/ UNCHANGED schema_migrations /\ phase' = [phase EXCEPT ![p] = "crashed"]
    /\ todo' = [todo EXCEPT ![p] = @ \ {v}]
    /\ UNCHANGED <<users, release, found, forms>>

(* applyMigration: the script and the row in schema_migrations are one     *)
(* transaction.                                                            *)
ApplyMigration(p, v) ==
    /\ NextMigration(p, v)
    /\ v \notin schema
    /\ schema' = schema \cup {v}
    /\ schema_migrations' = schema_migrations \cup {v}
    /\ todo' = [todo EXCEPT ![p] = @ \ {v}]
    /\ UNCHANGED <<users, phase, release, found, forms>>

(* Another process has run the script since the versions were read: what   *)
(* it creates exists, the transaction rolls back, and run returns the      *)
(* error.                                                                  *)
MigrationFails(p, v) ==
    /\ NextMigration(p, v)
    /\ v \in schema
    /\ phase' = [phase EXCEPT ![p] = "stopped"]
    /\ UNCHANGED <<schema, schema_migrations, users, release, todo, found, forms>>

-----------------------------------------------------------------------------
(* seedAdmin                                                               *)

(* UserByUsername of EnsureAdmin: whoever finds the account with its flag  *)
(* goes on to listen.                                                      *)
LookUp(p) ==
    /\ \/ /\ \A r \in Row : ~Named(users[r])
          /\ phase' = [phase EXCEPT ![p] = "creating"]
          /\ UNCHANGED found
       \/ \E r \in Row :
            /\ users[r] = "member"
            /\ phase' = [phase EXCEPT ![p] = "promoting"]
            /\ found' = [found EXCEPT ![p] = {r}]
       \/ /\ \E r \in Row : users[r] = "admin"
          /\ phase' = [phase EXCEPT ![p] = "serving"]
          /\ UNCHANGED found
    /\ UNCHANGED <<schema, schema_migrations, users, release, todo, forms>>

(* Mutant: Open returns before the loop of Migrate has ended.              *)
FindAdminEarly(p) ==
    /\ phase[p] = "migrating"
    /\ LookUp(p)

(* seedAdmin, once Migrate has returned.                                   *)
FindAdmin(p) ==
    /\ phase[p] = "migrating"
    /\ todo[p] = {}
    /\ LookUp(p)

(* The insert of EnsureAdmin.  If the name has been taken since, the index *)
(* on usernames refuses the row and run returns the error.                 *)
CreateAdmin(p) ==
    /\ phase[p] = "creating"
    /\ IF \E r \in Row : Named(users[r])
       THEN /\ phase' = [phase EXCEPT ![p] = "stopped"]
            /\ UNCHANGED users
       ELSE /\ \E r \in Row :
                 /\ users[r] = "absent"
                 /\ users' = [users EXCEPT ![r] = "admin"]
            /\ phase' = [phase EXCEPT ![p] = "serving"]
    /\ UNCHANGED <<schema, schema_migrations, release, todo, found, forms>>

(* The update of EnsureAdmin writes the name it has read along with the    *)
(* flag, by rowid.  It fails if the row is gone, or if it was renamed and  *)
(* another row has the name.                                               *)
PromoteAdmin(p) ==
    /\ phase[p] = "promoting"
    /\ \E r \in found[p] :
         IF users[r] = "absent" \/ (\E o \in Row \ {r} : Named(users[o]))
         THEN /\ phase' = [phase EXCEPT ![p] = "stopped"]
              /\ UNCHANGED users
         ELSE /\ users' = [users EXCEPT ![r] = "admin"]
              /\ phase' = [phase EXCEPT ![p] = "serving"]
    /\ UNCHANGED <<schema, schema_migrations, release, todo, found, forms>>

(* A form of the admin interface creates, changes or deletes the row of an *)
(* account, the one of the configuration too (who may submit which form is *)
(* in AdminSessions).                                                      *)
Form(p, r, entry) ==
    /\ phase[p] = "serving"
    /\ forms < MaxForms
    /\ forms' = forms + 1
    /\ users[r] = "absent" => entry \in {"other", "member"}
    /\ Named(entry) => \A o \in Row \ {r} : ~Named(users[o])
    /\ users' = [users EXCEPT ![r] = entry]
    /\ UNCHANGED <<schema, schema_migrations, phase, release, todo, found>>

(* SIGTERM, at any time: run returns.                                      *)
Shutdown(p) ==
    /\ phase[p] = "serving"
    /\ phase' = [phase EXCEPT ![p] = "stopped"]
    /\ UNCHANGED <<schema, schema_migrations, users, release, todo, found, forms>>

(* The process ends in the middle, or gives up waiting for the write lock: *)
(* whatever transaction it had open is rolled back.                        *)
Crash(p) ==
    /\ phase[p] \notin {"stopped", "crashed"}
    /\ phase' = [phase EXCEPT ![p] = "crashed"]
    /\ UNCHANGED <<schema, schema_migrations, users, release, todo, found, forms>>

-----------------------------------------------------------------------------

Work(p) ==
    \/ ReadApplied(p)
    \/ \E v \in todo[p] : ApplyMigration(p, v) \/ MigrationFails(p, v)
    \/ FindAdmin(p)
    \/ CreateAdmin(p)
    \/ PromoteAdmin(p)

Next ==
    \E p \in Process :
      \/ \E r \in Release : Start(p, r)
      \/ Work(p)
      \/ \E r \in Row, entry \in Entry : Form(p, r, entry)
      \/ Shutdown(p)
      \/ Crash(p)

Spec == Init /\ [][Next]_vars

(* A process that has ended is started again: by docker in any case        *)
(* ("restart: unless-stopped", docker-compose.yml), by systemd after a     *)
(* failure ("Restart=on-failure", deploy/edav.service) and by whoever      *)
(* stopped it after a clean exit.  From some point on none is killed, and  *)
(* the forms are bounded: nobody takes the account away for ever.          *)
Fairness ==
    \A p \in Process :
      /\ WF_vars(Work(p))
      /\ WF_vars(\E r \in Release : Start(p, r))
      /\ <>[](phase[p] # "crashed")

FairSpec == Spec /\ Fairness

-----------------------------------------------------------------------------
(* Properties                                                              *)

(* A version is recorded exactly when its script has run: no crash leaves  *)
(* a script that the next start would run again, or one that it would      *)
(* skip.                                                                   *)
RecordedIffRun == schema_migrations = schema

(* The scripts run in the order of their versions, whichever processes of  *)
(* whichever releases run them: every script is written against the schema *)
(* the earlier ones have made.                                             *)
AppliedInOrder ==
    [][\A v \in schema' \ schema : schema = 1..(v - 1)]_vars

(* A process that listens finds every table and column its release knows,  *)
(* whatever other processes did while it started.                          *)
ServesOnCompleteSchema ==
    \A p \in Process :
      phase[p] = "serving" => loadMigrations(p) \subseteq schema

(* "It is safe to call on every startup" (Migrate): every process comes up *)
(* again in the end, also after it lost the race for a migration or for    *)
(* the administrator's account, or was killed in the middle.               *)
ComesUpAgain == \A p \in Process : []<>(phase[p] = "serving")
=============================================================================
