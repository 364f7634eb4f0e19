# A TLA+ verification of edav

edav is a CalDAV and CardDAV server in Go. It keeps everything in one SQLite
database and is used by DAV clients, which synchronise calendars and address
books, and by browsers, through an admin interface. This directory models its
concurrent core, its start-up and its handling of events and contacts, checks it with TLC and proves the main results with TLAPS.

## 1. Inventory

| Component | State | Operations | What makes it correct |
|---|---|---|---|
| `storage`: collections and objects (`storage.go`, `objects.go`, `collections.go`, `migrations/`) | tables `collections` (with `sync_seq`, `ctag`), `objects`, `object_changes` | CreateCollection, UpdateCollection, DeleteCollection, PutObject, DeleteObject, ChangesSince, lookups | the change log is a faithful index of the members; the sequence counts changes exactly |
| `dav`: synchronisation (`sync.go`, `SyncCollection`, PROPFIND) | none of its own; the client holds a token and a copy | sync-collection REPORT, PROPFIND of depth 1 | no change is lost between a client's copy and its token; clients converge |
| `dav`: objects (`caldav.go`, `carddav.go`) | none | GET, PUT, DELETE, MKCOL, multiget, query | a conditional write replaces what its condition was about; the answer describes what was stored |
| `dav`: paths, filters, framing | none | parsing, matching, XML | pure functions |
| `auth`: Basic authentication (`basic.go`, `throttle.go`, `cache.go`, `password.go`) | failure records, credential cache, verification slots; all in memory | RequireBasicAuth | only a current password is let in; limits hold; nobody waits for ever |
| `auth`: sessions (`session.go`, `storage/sessions.go`) | table `sessions` | Create, Get, Destroy, sweep | a revoked or expired session is never honoured |
| `storage`: users | table `users` | CreateUser, UpdateUser, SetPassword, DeleteUser, EnsureAdmin | names are unique without regard to case; no form alone takes the last administrator away |
| `storage`: migrations | table `schema_migrations` | Migrate | every version is applied once, in order |
| `admin` | login throttle | forms for users, collections, contacts, events | an edit changes only what the form shows |
| `recurrence` | none | Expand, Summarise, ToUTC | an expansion is exact; the bounds contain every occurrence; an embedded zone is resolved as written |
| `ical`, `vcard`, `contentline` | none | reading, editing and folding of lines | what was entered is read back; everything else survives |
| `cmd/dav`, `config` | none | start-up, session sweeper, shutdown | nothing listens on an incomplete database |

How they interact: every HTTP request runs in its own goroutine. Handlers of
`dav` and `admin` call `storage`, whose functions are single statements or, for
PutObject and DeleteObject, one transaction (`_txlock=immediate`). The only
shared state besides the database is that of `auth`: two mutex-protected maps
and a channel of slots. Nothing holds a lock or a transaction from one storage
call to the next, so a request that makes several calls sees a different state
each time. That is what is hard in this code:

- the four kinds of query of a report or a PROPFIND, with writes between them;
- checks and reads that are made before the transaction that relies on them;
- rowids that are held across queries and given to new rows after a deletion;
- tokens that outlive the collection that issued them;
- bookkeeping of slow authentications that finish in another order;
- answers that are lost, so that clients repeat themselves;
- processes that start together, or crash, on one database file;
- times that are instants in one place and wall times in another, with windows
  that have to be wide enough for the difference;
- edits in place of a document of which the form knows only a part.

`PROJECT.json` lists these hazards at their lines, with the properties that
cover them.

## 2. Modules

| Module | Contents |
|---|---|
| `ChangeHistory` | abstract: collections as members with versions and stamps |
| `Storage` | the tables and every write to members, log and sequence; the mapping to `ChangeHistory` |
| `StorageProofs` | lemmas about `Storage`: its inductive invariant and what one write may do |
| `SyncCollection` | extends `Storage` with clients and the queries of their requests |
| `SyncProofs` | the theorems about `SyncCollection`, and the proof that the tables implement `ChangeHistory` |
| `MCSync` | instances for TLC |
| `ObjectWrites` | extends `Storage` with requests that read, check and then write |
| `WritesProofs` | the theorems about `ObjectWrites` |
| `MCWrites` | instances |
| `BasicAuth` | authentication of DAV requests |
| `AuthProofs` | the theorems about `BasicAuth` |
| `MCAuth` | instances |
| `AdminSessions` | accounts and sessions of the admin interface |
| `AdminProofs` | the theorems about `AdminSessions` |
| `MCAdmin` | instances |
| `Migrations` | the start of server processes on one database |
| `MigrationsProofs` | the theorems about `Migrations` |
| `MCMigrations` | instances |
| `Timezones` | wall times and instants |
| `Recurrence` | extends `Timezones`: expansion and bounds of a calendar object |
| `CalendarObject` | extends `Recurrence`: PUT, forms and calendar-query of an object |
| `CalendarProofs` | the theorems about `CalendarObject` |
| `MCCalendar` | instances |
| `ContentLines` | values, folding and lines of a card |
| `ContactCard` | extends `ContentLines`: PUT and forms of a contact |
| `CardProofs` | the theorems about `ContactCard` and the operators of `ContentLines` |
| `MCCards` | instances |

An operator with a comment that begins with "Mutant" is a wrong version of the
definition after it; nothing uses it. Replacing the definition by it must make
the named property fail, which shows that the property depends on that code.

### Storage

`collections`, `objects` and `object_changes` are the tables; rows keep the
columns the properties tell apart. A path (owner and URI) is a `Name`, a payload
is a member of `Raw`, and an ETag is a record of the payload, since SHA-256 is
taken to have no collisions. `births` is an auxiliary counter: it tells a
collection from a later one with the same name or rowid. `NextRowId` is how
SQLite numbers rows without AUTOINCREMENT. One action per storage function that
writes; the transaction is atomic. `DeleteUser` is the cascade from an account to its
collections, which takes several of them in one statement.

`ChangeHistory` says what this is for, without tables: a collection has a
version, every change of a member makes the next one and stamps the URI with it,
and the stamp outlives the member. `Storage` implements it under the mapping
`History`: the version is `sync_seq`, a member is its ETag, and the stamp of a URI
is the `seq` of its row in the log. A PUT of identical bytes is no step of the
history; a creation, a deletion and any other write are exactly one.

Integers: `sync_seq` is a signed 64-bit column that grows by one per change, so
overflow is out of reach and it is a natural number with the bound `MaxSeq` in
the guards. `MaxId` bounds rowids and `MaxBirths` the insertions.

### SyncCollection

Each client has a token and a mirror (the ETag of each member it holds), and at
most one request. A report is `StartSync` (path and token), `ReadSequence`
(`CollectionByID` in ChangesSince), `ReadChanges` (the log), one `CollectChange`
per row (`ObjectByURI`) and `Respond`. `StartPropFind` and `ListMembers` are the
two queries of a PROPFIND of depth 1. `Write` is any action of `Storage` on any
rowid. `Abandon` loses the request or the answer; a restart of the server has the same
effect on every request, since nothing of a request is persistent. CalDAV and
CardDAV have the same code for this, so one module stands for both; the map
alternates between them.

`birth` and `whole` in a client's state are auxiliary: which collection the copy
was built from, and that no answer was cut by a limit.

### ObjectWrites

A writer resolves its path to a rowid, then checks preconditions (PUT) or reads
the object and applies the form to it (edit), then stores, then reads the row for
the answer. Conditions are the four cases of the precondition functions. An
object is a pair of what the edit forms show and what they do not; `Apply` sets
the first and keeps the second. The stamps REV, DTSTAMP, LAST-MODIFIED and
SEQUENCE that an edit sets belong to the shown part here. `birth` and `seen` are
auxiliary: the collection the path was resolved to, and its sequence when the
request last read or wrote its object. From them and the change log, `Overtaken` tells
whether somebody else has changed the object since.

### BasicAuth

One action per call that takes a mutex, queries the database or waits on the
channel. `now` is the time read by RequireBasicAuth, `at` the one read by
authenticate. Usernames are compared without case by the database (`Fold`) and
as submitted by throttle and cache. Accounts are created, renamed, deleted and
given new passwords at any time. A hash is the password with a salt that is never
used twice. `held` is auxiliary: the password was the account's at some moment
since the request arrived.

### AdminSessions

A browser has at most one request. Signing in reads and verifies the account
(`Authenticate`) and inserts the session later (`CreateSession`, which the
foreign key refuses when the account is gone). A form first resolves its session
(`RequireSession`), then reads the account it is about (`ReadSubject`), then
writes with one statement, or two when it resets a password (`SetPassword`,
`DeleteUserSessions`). `Restart` loses every request and runs EnsureAdmin, which
seedAdmin does before the server listens; `SweepSessions` is the hourly sweep.
Usernames are those the case-insensitive index tells apart, and hashes and
tokens, which are drawn at random, are numbered. CSRF tokens are taken to match,
and a wrong password is left to the throttle, which `BasicAuth` models. The `hash` of
a session and `spared` are auxiliary: the password the session was opened with, and
the tokens that a reset was not able to delete, because it was cut off before its
second statement or because the session was inserted after it by a login that had
read the account before.

### Migrations

A process opens the file, reads the applied versions once, runs the others one
transaction each, reads the configured account, creates or promotes it, and
listens. A release is the number of scripts it embeds, and a process may be
started with any release each time, an older one too. A script that another
process has run in the meantime fails (its tables exist), and so does the
insertion of an account that exists by then, or the promotion of one that is gone
or renamed: `run` returns and the supervisor
starts the process again. `Form` is any form of a process that serves: it creates,
renames, promotes, demotes or deletes a row of `users`, the configured one too. `Crash` may happen between any two statements; an open
transaction is rolled back. `schema` (what has been executed) and
`schema_migrations` (what is recorded) are kept apart so that their agreement is a
property.

### Timezones, Recurrence, CalendarObject

Times are ticks. A zone is of the IANA database, embedded in the object as
VTIMEZONE, or unknown, and is a set of observances with yearly rules. `ToUTC`,
`toWall` and `offsetAt` are translated with their two passes and their window of
years, and with `ruleAnchor`, which cuts a rule off before 1970 (`Anchor`);
`TrueOffset`, the offset all observances together define, stands for the
`time` package and is the reference for the embedded case. A calendar object is
the sequence of its components. The RRULE library is external: a rule is an
arithmetic progression with COUNT or UNTIL, which keeps what the code around it
does (window, cap, exclusion, resolution of each occurrence by itself). RDATE and
EXDATE are the digits that are written, whatever zone or Z follows them, as in
`dateList`; the reference definition `Occurrences` takes them the same way, so the
checks say nothing of an RDATE in another zone than DTSTART.

`CalendarObject` holds one stored object with the index columns and the last
reply. Every write goes through `Store`, which derives the columns with
`Summarise` or refuses. The form is modelled with its conversions: `Shown` is
what the browser gets, `eventFromForm` what it sends back, `Apply` what is
written. `QueryCalendarObjects` is the SQL prefilter on the columns, then the
exact expansion, then the component filter without ranges. Requests are atomic
here; how they interleave is the subject of the modules above.

### ContentLines, ContactCard

A card is the sequence of its lines, a line a record with group, name, TYPEs,
whether it has other parameters, escaped value, and whether its bytes are still
the client's. Values are sequences of bytes, since escaping, splitting and
folding are what the properties are about. `Apply` is the sequence of edits
`vcard.Apply` makes, including the removal of a group with its property and the
matching of form rows to lines by position. `Shown` is the form as a browser
sends it back unchanged; a type that is not offered shows as the first that is.

`Remove` with an index that no longer belongs to its line is in the model: it takes
whatever line is there, and an index past the last line is that of END:VCARD. The
code then has a card it cannot parse, or panics, and nothing is stored in either
case; the model refuses.

## 3. Runs

All bounds are those of the cfg files.

| Run | Question | Result |
|---|---|---|
| `sync` | Is a change ever lost or a token wrongly refused, and do clients converge? | nothing is lost, and they do |
| `sync_limit` | Does a limit lose changes? | it does |
| `writes` | Are log, sequence and history exact when two requests write at a time, and is what a request has read, or is answered, wrong only where the log shows a change in between? | yes |
| `writes_condition` | Does the condition of a PUT hold of the row it replaces? | no |
| `auth` | Can a slot leak, or a cached verification outlive its password? | no |
| `auth_throttle` | Do the maps, the counts and the windows of the throttle stay right when failures finish late, and is every request answered? | yes |
| `admin` | Is no session left without its account, and how can two browsers lose the last administrator or keep a session of an old password? | only in the ways the properties name |
| `calendar` | Are expansion and bounds exact, embedded zones resolved as written, and forms neutral when nothing is changed? | yes, within the limits below |
| `calendar_override` | ... are overrides exact in every zone? | no |
| `cards` | Is what was entered read back, and do the other lines and the unchanged rows stay? | yes, within the limits below |
| `cards_rest` | Does everything the form does not show survive? | no |
| `migrations` | Does each script run once and in order, does a process listen on a complete schema only, and does it always come up again? | yes |

Why the bounds are enough. `sync`: one rowid and two names, so that a collection is
deleted and made again, under its name or another, with the rowid a request of the
client holds; that the same holds for more rowids is proved. A sequence of three lets
a report see a change before its token, one after it and one that replaces either; limits 0
and 1 with two members cut an answer. `writes` has two writers, all conditions,
and two rowids and names, so that a request may commit into a collection that has
taken over the rowid it resolved; two hidden parts suffice to tell a stale edit from a
current one. `writes_condition` needs one member only. `auth`: two
requests contend for one slot and one cache entry, and two hashes suffice for a
change of password, a rename and a re-creation. `auth_throttle`: requests arrive
before and after the end of a window and finish on either side of it; the map
holds one record, so the second spelling of the name sweeps it, and two requests
queue for one slot. `admin`: two browsers, so that two administrators
edit each other and a login overlaps a reset; two rowids and two names allow a second
account that is promoted, renamed, deleted and made again; three hashes and two tokens
a session before a reset and one after it. `calendar`: a
year of 12 ticks and a day of 2, offsets of one tick in both directions, single
events and series of two intervals with COUNT, UNTIL or neither, RDATE, EXDATE,
and overrides before, in and after the series, against ranges at and around every
boundary; the cap of four occurrences cuts the longer series. `cards`: twenty cards combine
grouped labels before and after their property, foreign parameters, repeated
numbers and escaped text; five forms, one of them with a type that is not offered,
add, change, blank and remove; a limit of five octets folds every longer line
several times. `cards_rest` needs one card. `migrations`: two processes and three releases, so that an older release starts on a newer schema and two
processes race for each of several scripts; three rows and two forms let the account
be renamed or deleted, and its name be given to another row, while it is seeded.

Symmetry is used for model values only, never with liveness. Deadlock is checked
everywhere: the writers of the sync and write models stop at `MaxSeq`, but
clients and requests always have a step.

### Limits of the properties

Some properties are about less than one might hope for, because the code
promises no more or does something else. These are the boundaries that were met
while modelling:

- `OnlyOvertakenReadsAreStale` and `AnswerNamesBytes` are about any writers, and say
  in which case a read is stale: the log has a change in between, or the collection
  is gone. In that case the code does what its comments exclude: a form overwrites
  what was written between its read and its commit, the part it does not show
  included ("so everything the form does not show survives", contacts.go:181), a PUT
  is answered the ETag of another's bytes (objects.go:133), and a condition is not
  asked again (run `writes_condition`).
- `OldSessionsHaveACause`: "A changed password must not leave old admin sessions
  alive" (users.go:231), but it does when the request ends between SetPassword and
  DeleteUserSessions (an error, a browser that leaves, a restart), which nobody
  repeats, or when a sign-in reads the account before the reset and inserts its
  session after it.
- `LastAdministratorStays`: updateUser keeps an administrator from demoting
  themselves, but two of them can demote each other, or one demote and the other
  delete, in overlapping requests (users.go:181-187). A restart repairs that.
- `WindowStands` is about a name as long as it has a record. When the map is full of
  live records, sweepLocked drops every one of them (throttle.go:123), and all
  lockouts end at once; its comment (throttle.go:120) says "Dropping the
  oldest records only forgives attempts that were already being made too slowly to
  matter".
- An expired session is never honoured, but its row stays until the sweep of an hour
  in which the server was not restarted: the ticker starts anew with the process and
  does not sweep at the start.
- `Converges` leaves out copies that a limit has cut, and copies that mix two
  collections: a rebuilt collection starts at 0 and refuses an old token only until
  its sequence has caught up (the comment at sync.go:51 has the first half of this).
- `FoundWhenItOccurs` leaves out what the columns do not record: an event of no
  length at the very start of a range (`end_at > from`), an RDATE or override of an
  endless series before its DTSTART, and all but the first override of an object
  without master. A VTODO without any date is refused by PUT although the prefilter
  has a case for it.
- `ExpansionIsExact` counts the cap as the code does, from the start of the series.
- `EmbeddedZoneIsExact` is about wall times around which the zone is regular
  (`RegularAt`). "VTIMEZONE rules are yearly, so a few years either side is always
  enough to bracket the instant" (timezone.go:165) is not true of a time more than
  three years after the last change of its zone when a rule that has ended made
  that change: `offsetAt` does not see it and answers with an older one.
- `SavedAsShownStays` leaves out an event that ends in another zone than it starts
  in, which the form moves, dates with a zone, which it drops, and whole days of no
  length, which grow by one. The
  form edits the first VEVENT, also when that is an override. Seconds, which the
  form does not show, are below the resolution of the model.
- `FormReadsBack`, `OtherLinesStay` and `UnchangedRowsKeepTheirBytes` are about saves
  in which the indices of SetAll hold (`IndicesHold`). It
  removes lines from the last index on, "so the indices hold" (edit.go:113), but a
  line takes the other lines of its group along, those before it too. They hold when
  no line is removed, when every group begins with the one property the form knows,
  or when one line of a list goes and no group has two known properties; a label may
  then be before its number. When two numbers go and the label of the second is
  before the first, the index of the first is too large: it stays and the line after
  it is removed.
- `UnchangedRowsKeepTheirBytes` compares a row with what the page shows of it. A
  number without a type, or with one that is not offered, is shown with the first
  option, and saving it as shown writes that TYPE and drops its other parameters,
  against "Unchanged: leave the original bytes in place" (edit.go:106); of such a line
  the property keeps place, group and value. Blanking a number moves the following
  ones to the lines before them.
- `FormReadsBack` is about cards that the form can show whole (`Tidy`): one line of
  FN, N, ORG and so on, and at most one offered TYPE per line. Otherwise a second
  NOTE shows after the first is cleared, and choosing the second of two offered types
  changes nothing. It is about types the form offers: a row sent with an empty type
  keeps that of its line.
- `TheRestSurvives` has none of these conditions; run `cards_rest` violates it with
  the parts of N. With other cards, an index that misses and a TYPE that is written
  into an unchanged line violate it as well.
- `FoldsCleanly` is about UTF-8. A run of continuation bytes as long as a line,
  which UTF-8 does not have, gives `fold` no place to cut at.
- A component filter with is-not-defined is met by every object.

### Fairness

`sync` assumes that the server goes on with a request it has accepted
(goroutines are scheduled and queries end), that a client polls and starts over
when it is told to, and that from some point on its requests are not lost.
Writes are not fair; they stop by their bounds, and convergence is about what
follows.

`auth_throttle` assumes that a handler runs, and strong fairness of taking a slot:
goroutines that wait to send on a channel are queued in order, so one that waits
is served after finitely many others. Cancellation is not assumed to happen.

`admin` assumes no fairness: the hourly ticker starts anew with the process, so a
server that is restarted more often never sweeps.

`migrations` assumes that a starting process goes on, that its supervisor starts
it again when it has ended (`Restart=on-failure` in deploy/edav.service, `restart:
unless-stopped` in docker-compose.yml; after a clean exit under systemd, whoever
stopped it does), and that from some point on it is not
killed any more. Forms are bounded, so nobody takes the account away for ever. A start
that loses a race still fails, as often as the other process wins one.

### Findings

1. `sync_limit`: collectSync stops at the limit, but the token it returns is that
   of the end of the log, and the answer has nothing to say that it was cut.
2. `writes_condition`: preconditions are checked outside the transaction.
3. `calendar_override`: Expand files an override under the instant of its
   RECURRENCE-ID and looks it up by the wall time of the occurrence. Outside UTC the
   two differ, and the occurrence that was moved is returned next to its override.
4. `cards_rest`: the form shows the family and the given name of N and writes all
   five parts, the other three empty, so a stored middle name, prefix or suffix is lost
   by any save.

The passing runs delimit them: without a limit, as long as a request is not
overtaken, for overrides in UTC and for the lines the form does not know, the same
holds. The disagreements listed under the limits above are excluded from a passing
property by a condition that names them.

## 4. Proofs

All theorems are for every value of the constants; the assumptions are the
`ASSUME`s of the modules (bounds are numbers, special values differ from real
ones, releases are positive).

### Synchronisation

`SyncProofs` proves, for every set of clients, names, members, payloads and
limits and every value of the bounds, the safety properties of the runs `sync` and,
as far as they are about the tables, `writes`:

| Theorem | Property |
|---|---|
| `TypeCorrect` | `TypeOK` |
| `LogIsSound` | `ChangeLogSound` |
| `NothingIsLost` | `NoLostChange` |
| `CurrentTokenIsEnough` | `CurrentTokenMeansEqualCopy` |
| `IssuedTokensAreAccepted` | `IssuedTokenStaysUsable` |
| `SequenceIsExact` | `SequenceCountsChanges` |
| `LogIsKept` | `LogNeverForgets` |

The argument. `StorageInv` is the soundness of the log with two facts about
auxiliary and derived columns (births are distinct, a ctag is the text of its
sequence). It is inductive by itself: creation, deletion and a `Transition` of
one member keep it. `NoLostChange` is not inductive, because the answer of a
request replaces copy and token at once. `IInv` adds for each request
(`RequestInv`): before the log is read, where the copy differs from the
collection there is a change after the request's `since`; after it, every URI
is answered correctly, or is still among the rows to look up, or has a change
after `current`, the sequence the new token will carry. The sequence is read
before the log, so `current` never exceeds what the log was read at: this is
where the order of the two queries in ChangesSince matters. A write is the hard
step: `WriteEffect` says that a member that changed has a change at the new
sequence, which is ahead of every token and every `current`. The other actions
are one lemma each. `IInv` was checked with TLC before it was proved.

### The refinement

`SyncProofs` also proves `TablesImplementHistory`: the specification of
`SyncCollection`, every request of every client included, implies `History!Spec`.
From `StorageInv`: where no collection is there are neither members nor log rows
(`NothingOutside`), so a creation on a used rowid finds an empty place. A `Transition`
of one member is one `Change`: the row it leaves in the log is the only one of its
URI and carries the new sequence, so the stamp is that sequence, and no other
stamp moves (`StampStays`). Requests of clients change no table and stutter.

### Start-up

`MigrationsProofs`, for any processes and releases:

| Theorem | Property |
|---|---|
| `MigrationsTyped` | `TypeOK` |
| `RecordsAreExact` | `RecordedIffRun` |
| `ScriptsInOrder` | `AppliedInOrder` |
| `ServingIsComplete` | `ServesOnCompleteSchema` |

The invariant `StartInv` adds that the versions that have run are an initial
segment (`Closed`), and what a process knows (`Knows`): the versions of its release
that its loop does not have before it have run, and all of them once the loop is
over. Nothing is said of the accounts, which forms may take away at any time. The stale set a process read can therefore only be too small in what
it takes for applied, never too large. `InOrder` is the step that uses all of it:
the smallest version in a loop that has not run is the next one of the segment.

### Accounts and sessions

`AdminProofs`, for any names, rowids and bounds:

| Theorem | Property |
|---|---|
| `AdminTyped` | `TypeOK` |
| `NoOrphanSession` | `SessionsHaveUsers` |
| `LastAdministrator` | `LastAdministratorStays` |
| `OldSessionsCause` | `OldSessionsHaveACause` |

`AdminInv`, the first two together, is inductive: the foreign key refuses a session
for an account that is gone, and the cascade takes the sessions of a deleted one.
`LastAdministrator` is a step from it: a form that still finds its submitter an
administrator, and its subject as it was read, leaves one, since it cannot take the
flag or the row of whoever submits it. `OldSessionsHaveACause` is inductive with
`AdminInv`: a password that is set makes the sessions of the account pending
(`CauseOfInserted`, `CauseKept`), and whatever ends the request before it deletes them
spares them. None of this depends on the number of browsers.

### Writes of objects

`WritesProofs`, for any names, members, payloads and bounds:

| Theorem | Property |
|---|---|
| `WritesTyped` | `TypeOK` |
| `StaleOnlyIfOvertaken` | `OnlyOvertakenReadsAreStale` |
| `AnswersNameBytes` | `AnswerNamesBytes` |

Every step of a request is a write of `Storage` or leaves the tables alone, so
`StorageInv` carries over and, with the types of the requests, is inductive for
any number of writers (`WritesInv`). `ReadsInv` adds for each request that what it
has seen is not ahead of its collection, that after its commit the row has its bytes
unless it was overtaken, and the two properties. The step is `WriteOvertakes`: a
request that is not overtaken after a write of anybody was not before, and has the row
it had, for every change of the row is logged after the sequence it has seen, and no
other collection has its birth, whatever becomes of the rowid.

### Authentication

`AuthProofs`, for any requests, names, passwords and limits:

| Theorem | Property |
|---|---|
| `AuthTyped` | `TypeOK` |
| `SlotsAreReturned` | `SlotsAreHeld` |
| `ValidPasswordsOnly` | `AdmittedByValidPassword` |
| `MapsStayBounded` | `MapsAreBounded` |
| `AttemptsStayBounded` | `AttemptsAreBounded` |
| `WindowsStand` | `WindowStands` |

The slots are inductive together with the types: each path into a verification adds
its request to the set whose size `slots` is, each path out removes it. For
`ValidPasswordsOnly` the invariant `Grounds` says what a request has to go on at each
phase: the row it found was current after it arrived, and a cache entry found under
the hash of that row was made for a password that this hash accepts
(`EntriesVerified`). The entry is bound to the hash, so nothing is assumed about when
entries are dropped. The maps are swept before they are added to. A new attempt only
starts below the limit, and a failure that is counted leaves the attempts in flight,
so their sum with the count never passes the bound. `WindowStands` is a case split
over the actions, three of which touch a record.

### Calendar objects

`CalendarProofs`, for any set of calendar objects, filters and forms, any length of a
year and any cap:

| Theorem | Property |
|---|---|
| `CalendarType` | `TypeOK` |
| `ExpansionExact` | `ExpansionIsExact` |
| `FoundInRange` | `FoundWhenItOccurs` |
| `SavedEventStays` | `SavedAsShownStays` |
| `EmbeddedZoneExact` | `EmbeddedZoneIsExact` |

`CalendarInv`, the inductive invariant, says that the index columns are those that
`Summarise` derives from the stored object, and that the last answer is the one the
query gives of both. `ExpansionExact` compares the window of wall times that
`Expand` hands to the rule with the reference definition, which has no window: an
offset is never larger than the slack, so an instance that overlaps the range has
its wall time in the window. `FoundInRange` shows that the two columns span every
instance (`Span`), so the prefilter discards no object that the exact expansion
would return. `SavedEventStays` follows the form there and back: the wall time and
the last day that are shown determine the times that are written.

For an embedded zone, `offsetAt` looks at the changes within three years of the
instant. Where it sees all dates of the rules, or some change of the last three years,
the last change before the instant is among those seen, and the offset is constant from
one change to the next. The second look of `embeddedOffset` is then on the right
side of the change, if one change at most is within the largest offset of the wall
time. That is `RegularAt`, a condition on the wall time in the property; the theorem
assumes nothing of the zones, so it speaks of every VTIMEZONE with historical rules at
the times it is regular around.

### Cards

`CardProofs`, for any cards and forms, texts and lists of any length, any offered
types and any limit of more than four octets:

| Theorem | Property |
|---|---|
| `CardType` | `TypeOK` |
| `OtherLines` | `OtherLinesStay` |
| `UnchangedRows` | `UnchangedRowsKeepTheirBytes` |
| `ReadsBack` | `FormReadsBack` |
| `CleanFolds` | `FoldsCleanly` |

The hypotheses are those in the properties (`IndicesHold`, `Tidy`, `Offered`, `UTF8`); nothing else
is assumed. `CardInv`, the inductive invariant, adds to the types that no number or
address holds a CR: clients' lines are split at it, and `Escape` drops it. Without
that, a row the form leaves alone would not read as it was entered.

What the operators compute is proved by induction on the input. `Where` finds all
indices in order (`WhereAll`), and what `Only` keeps behaves as a selection under
concatenation, removal and rewriting. For values the key is `ScanEscape`: a scan that
is outside an escape reads an escaped text as the text, sees no separator in it
and ends outside an escape. `UnescapeEscape` and `SplitJoined` follow.

Each edit is then compared with the card before it. `EditOf` says that lines of
other properties stay, in order, and that the satellites of a group go exactly when
its property goes; `Listed` says what the lines of a list are; `Sourced`, which needs
no condition, says where each line comes from. `RemoveTruncates` is the
delicate step: with the last of the first v lines of a property removed, the lines
before it are where they were, because its group begins with it, so the other
indices still hold. Where one line goes there are no other indices, and its group may
begin with a label (`RemoveSingle`). Otherwise they do not hold (see the limits above). `Apply` is a
chain of edits of different properties (`Progress`), and the theorems read their
claims off its end.

For folding, `Cuts` says that the lines are pieces of the text between increasing
positions, none too long and none that begins inside a character; it holds of the rest
of the text from every position, by induction from the end. Putting the pieces
together gives the text (`UnfoldCuts`). UTF-8 is needed in one place: four
bytes that continue a character never follow each other, so a full line has a place
to be cut at (`LineFoldable`).

### Induction, and what is model-checked only

The library's induction theorems take a predicate as a parameter, which no backend
can instantiate. `Induction`, `SequenceInduction` and, for finite sets, `Extreme` take
a set instead and are proved from well-foundedness. A recursive function is a
CHOOSE; `Iteration` and `RestExists` construct a function that satisfies the
equation, so that the chosen one does too.

Liveness (`Converges`, `EveryRequestEnds`, `ComesUpAgain`) is
model-checked only: the prover has neither fairness nor ENABLED. So are the
properties of the runs that expect a violation.

## 5. Not modelled

- UpdateCollection and the form behind it: display properties, neither ctag nor
  sequence.
- GET and multiget: they change nothing and return what a lookup finds.
- addressbook-query, text and parameter filters, paths, slugs: comparisons and
  splitting of strings without state.
- XML, HTTP framing, rendering apart from what comes back through a form,
  configuration: no state.
- The syntax of times, offsets and DURATION, and the RRULE library.
- The text properties of events, which go through the line editing of
  `ContentLines` as those of cards do; nested components of iCalendar.
- The write of a request whose rowid was given to another collection in the
  meantime is in the model (`Write` and `Store` use any rowid), but that it
  reaches the collection of its path is not stated as a property.

## 6. Plan

1. `Storage`, `SyncCollection`, `ChangeHistory` and their proofs: done.
2. `AdminSessions`, `Migrations` and their proofs: done.
3. `CalendarObject`, `ContactCard` and the operators under them: done.
4. `AuthProofs`, `WritesProofs`, `CalendarProofs` and `CardProofs`: done.
5. Left: the collection form and addressbook-query, if a property of theirs turns
   out to need more than a comparison of strings.
