# Formal models of the Splitwise backend

TLA+ models, TLC runs and TLAPS proofs for the FastAPI backend in `src/app`
(SQLAlchemy on PostgreSQL, three replicas: `src/deploy/k8s/backend.yaml:7`).
File and line references are to `src/`.

To check a module: `tlc -config MCGroups.cfg MCGroups`; to check the proofs:
`tlapm Groups_proofs.tla`, and so for `Sync_proofs`, `Ledger_proofs`,
`Verification_proofs`, `Passwords_proofs`, `GroupRows_proofs`, `SiteContent_proofs` and
`AdminLogin_proofs`.
`PROJECT.json` lists the runs, what each property's mutant is, and which source lines every
definition translates.

## 1. The system

### 1.1 Components

| component | state it keeps | operations | model |
|---|---|---|---|
| groups, members, memberships, invites, connections (`app/services/crud_service.py`) | tables `groups`, `members`, `group_memberships`, `group_invites`, `user_connections` | create, read (with healing), update, delete a group; add (normal, inline, pushed), update, delete a member; accept, reject an invite | `Groups` |
| sync (`app/sync/service.py`) | the same tables and `expenses`, `settlements`, `group_cards`; the client's `last_synced_at` | push upserts, tombstones, pull since a cursor; initial import | `Sync` (protocol), `Groups` (tombstones) |
| expenses and settlements (`crud_service.py`) | `expenses`, `expense_payers`, `expense_participants`, `settlements` | create, update, soft delete | `Ledger` |
| balances and simplified debts (`crud_service.py:1082`) | none | compute | `Ledger`, `Transfers`, `Debts` |
| group cards (`crud_service.py:376-468`) | `group_cards` | create, update, delete | `GroupCards` |
| phone verification (`auth_service.py:277-407`) | `phone_verification_codes`, the number and flag in `users` | request or resend a code, verify it; an administrator's edit | `PhoneVerification` |
| registration (`auth_service.py:410-613`) | `pending_registrations`, `users` | request, resend, verify; create at once, or by an inviter | `Registration` |
| passwords, sessions, password reset (`auth_service.py:662-964`, `auth/`) | `refresh_tokens`, `password_reset_codes`, `invited_account_tokens`, the password in `users` | log in, refresh, change a password, complete an invited account; request, verify, confirm a reset | `PasswordReset` (codes and reset tokens), `Sessions` (the rest) |
| administration (`admin_service.py`, `runtime_settings_service.py`) | users across all tables, `app_settings`, an in-process login limiter | login, list, update, delete users, change settings | `AdminLogin`, `UserDeletion`; a user's number in `PhoneVerification`, a setting in `Releases`; the rest not modelled |
| app releases (`app_releases_service.py`, `app_download_service.py`) | `app_releases`, the row of the public download page, the setting that links to the APK, stored APKs | draft, edit, upload, publish; edit the page | `Releases` |
| notifications (`notification_service.py`) | `fcm_device_tokens` | register, deactivate, send | `Notifications` |
| articles (`articles_service.py`) | `articles`, `article_redirects`, categories, authors, stored images | draft, edit, rename, publish, archive, upload an image; read by slug | `Articles` |
| file storage (`file_storage_service.py`) | files by name | store | a function from names in `Releases` and `Articles` |
| health, client tracking, SMS | none that others read | calls to external services | not modelled: pure I/O |
| routers, schemas | none | one call each; what schemas refuse is in the guards | not modelled apart from that |
| database session, migrations | schema | DDL at start-up | not modelled; the constraints it creates are part of the models |
| admin panel (Vue), deployment, scripts | none | | not modelled |

### 1.2 How they interact

Every handler is a synchronous function in a thread pool and a database session
of its own (`autoflush=False`, READ COMMITTED); there are no queues and no
background tasks.  Components share the database and nothing else.  Sync calls
the CRUD functions record by record, each of which commits on its own.  Every
read of a group repairs the group's member rows from the memberships
(`_ensure_active_member_rows`, `crud_service.py:169`) and commits the repair,
so even a GET changes state.  Balances read expenses and settlements of all
members but report active members only.

The administrators' parts share the database and, for articles and releases,
the file storage, in different directories.  Deleting a user reaches into every
table; publishing a release writes three tables in as many transactions.  The
one state that is not in the database is the login limiter, an object of
each process behind a lock.

### 1.3 What is hard

* *Three tables for one fact.*  `group_memberships` decides access, `members`
  is what is shown and split with, `group_invites` is what can be answered.
  Tombstones, PATCHed `deleted_at`, redirected invites and repeated answers
  change some of them without the others.
* *Stamps taken before commits.*  `updated_at` is set by a device or at the
  start of a handler; the pull's cursor is a clock reading; what commits late is
  never seen.
* *Read, compare, write* on several replicas without locks.
* *Requests that stop half way*: every item of a push is its own transaction.
* *Integer money*: remainders, half-up rounding of weighted shares, stored
  shares that are validated and split again under another total or type.
* *Work between reading and writing*: a handler hashes a code or waits for the
  SMS service after it has read its rows, and then writes what it computed, but
  only the columns that changed.
* *A loop over two indexes* that must terminate and lose no unit.
* *Copies*: the download page and a setting repeat the published release, a table
  of contents repeats a body, files are named after slugs and versions that change.
* *Foreign keys against the order of deletions*: the session flushes only at the
  commit, so that what is deleted through the ORM goes after what is deleted by
  statements.

`PROJECT.json` lists these as hazards, each at its line.

### 1.4 What makes each component correct

* *Groups*: one live row per user and group; who is waited for can answer;
  access is only granted by creation, connection or acceptance; nobody is
  downgraded; the ways a listed member can lose access are known.
* *Sync*: a pull misses nothing but what became visible late; a newer version is
  replaced only where writes overlap; a deletion survives everything.
* *Ledger*: shares and payments are the total through every edit; stored
  expenses stay editable; suggestions settle the group, also one at a time.
* *Debts*: every turn makes progress, and the
  result is the closed form of `Transfers`.
* *Codes*: a code counts until it is accepted, replaced, guessed wrong too often
  or expired, and never again; a verification gives the flag to a number only for the user
  who has received its code; a registration makes one account; a reset ends the sessions from before.
* *Cards*: the checks leave the unique index nothing but races; deleted cards stay
  deleted; a deleted group has no live ones but those on their way.
* *Administration*: what goes with a deleted user is known; wrong passwords are bounded and locks end.
* *Releases*: one is published, page and setting follow it, its APK is its own.
* *Notifications*: a push token is active for one user, and a device that has
  registered falls silent only for a reason.
* *Articles*: old links lead home; unless edits overlap, table of contents and related
  articles fit the article; its image is its own.

## 2. The modules

### 2.1 `Groups`

State: `group`, `membership`, `member`, `invite` are the tables as functions
from ids (or <<group, user>>) to rows, `connected` is a set of unordered pairs.
One action per handler: `CreateGroup`, `GetGroup`, `UpdateGroup`,
`SoftDeleteGroup`, `TombstoneGroup`, `AddMember`, `UpdateMember`,
`SoftDeleteMember`, `TombstoneMember`, `AcceptGroupInvite`,
`RejectGroupInvite`.  An action whose handler calls `get_group` includes the
healing, `member' \in Healed(g)`; the ids of inserted rows are any fresh ones.
A handler that fails after `get_group` still commits the healing, which is the
action `GetGroup`.

Abstractions: a username never changes and has one user, so a member row's
username and its `linked_user_id` are one field; an unregistered username is
refused by the code and does not appear.  Handlers are atomic here; what may
happen when two of them overlap is planned (`InviteRace`).

### 2.2 `Sync`

State: the stored version (`upd`, `del`) of every record, one request in flight
per device with its program counter, the device's cursor, and three history
variables: `has`, what a device holds; `late`, what became visible to it
with a stamp its cursor had passed; `raced`, the devices whose request has compared
an item that another request has written since.  A sync request runs through
`StartSync`, per item `ReadForUpsert` and `Write`, `StartTombstones`, per id
`ReadForTombstone` and `Write`, `StartPull`, per table `Query`, `Reply`; it may
`Abort` at any point.  REST writes are `RestBegin` (the stamp) and
`RestCommit`; `DeleteGroup` is the deletion of the group with all it holds, which stamps
the group, loads the rest list by list (`LoadForDeletion`), and commits everything at once
(`RestCommit`).  `GainAccess` and `LoseAccess` stand for `Groups`.  Between any two
steps of a request the other devices' requests may take theirs, as
threads and replicas allow; `RegressesOnlyWhenRaced` says that where that has not
happened between the comparison and the write, the later stamp wins.  The exception
is real (`sync/service.py:104`: a comparison in one statement, the write in a later
one, with no lock or version check), against the "last-write-wins" of `README.md:169`:
without its `raced` the property is violated, by a request that another replica's
newer write outruns.

One of the records is the group itself.  A pull shows a group, deleted or not, to its active
members, but what is in it only while it is not deleted (`Shown`: the queries at
`sync/service.py:291-298` filter on `Group.deleted_at IS NULL`).  A device that pulls after a
deletion therefore learns of the group's deletion and of nothing else, neither of the
deletions that came with it nor of edits made before it; `Missed` counts what is still shown.  In a deleted group new
records are refused, and those that are there can still be edited and deleted (`Admits`).

Abstractions: one clock for servers and devices (device stamps are any earlier
reading); record contents are their versions; all kinds of record but the group are alike;
the client (external) takes the reply over atomically with its cursor.

### 2.3 `Ledger`, `Transfers`, `Debts`

`Ledger` has the expenses (total, split type, who paid and owes what, weights),
settlements, which member rows are active and whether the group is deleted.
`ValidPayers`, `ValidShares` and `NormalizedShares` are the validation and the three splits;
`Rewrite` is the whole of `update_expense`, with the stored shares where the
request leaves them out.  The order of shares, which decides who of several
heaviest members carries the rounding leftover, is a nondeterministic choice.
An absent payer and one with amount 0 are the same; a repeated member is
refused by the unique keys and does not appear.

`Transfers` defines the suggested payments in closed form, as overlaps of
intervals: a member's place in a sorted list is the number of those before him
(`Before`, the sort key of the code; `Sorted`), each place takes the interval from what
those before it sum up to (`Prefix`), and the transfer between two places is as large as
their intervals overlap.  `Debts` is the loop of `calculate_group_balances` turn by turn, and
its property `MatchesOverlap` shows that both agree, so `Ledger` can use the
closed form.  `MCLedger` checks both in one run: `Ledger` moves while the loop is at
its start, with all balances 0, and the loop runs from every start while no expense
exists.  They share no state, so nothing is lost by not interleaving them.  `MCLedger`
assumes of its constants what the columns are: ids are natural numbers, and balances
whole ones.

### 2.4 `OneTimeCodes` and the three modules that implement it

`OneTimeCodes` is the abstract specification: codes that have not been sent,
codes that count (`live`), wrong guesses per code, codes that were accepted.
A code enters `live` once and leaves it for good.

`PhoneVerification`, `Registration` and `PasswordReset` are the handlers.  Each
handler is a `Begin` action with its reads and checks, whose record in `req`
keeps what it has read, and a `Commit` action that writes; between them anything
else may happen, or the request may `Fail`.  A query that comes later in a
handler is a step of its own (`SendGather`).  A commit writes
the columns that differ from what was read, because that is what SQLAlchemy's
UPDATE contains; hence `IF q.tries = 0 THEN @ ELSE 0` in `Resent`, and a
`consumed_at` that was read as NULL and set to NULL is not written.  Unique keys
are guards of the commits; row locks are left out, so that orders they would
prevent are among those checked.

`KeepsPromise` is the refinement: `live` are the codes of the active rows, of
rows whose code is just being compared, and in `PasswordReset` of rows whose
reset token would still be taken; the code counts as accepted when its token has
changed the password.  Every step is a step of `OneTimeCodes` until requests
first overlap, which the history variable `alone` records.
With overlap the promise is not kept: two requests for a code can leave two active
rows, and parallel guesses count as one.  `VerifiedWasReceived`,
`ConsumedForGood` and `UsedIsClosed` hold with any overlap; `OpenAreDisjoint` and
`SideBySideAfterExpiry` need `alone` as well.

Not every number that counts as verified has received a code.  `register_user`
(`auth_service.py:421-423`) makes accounts whose number counts as verified at once: `Init` has
such users.  An administrator can declare a number verified, and if he
enters another number for a user who counts as verified, the flag stays as it is
(`admin_service.py:331-341`).  `trusted` has these users and numbers, and
`VerifiedWasReceived` says that all others have entered a code that was sent to the
number.  A user for whom an administrator's edit overlapped with a verification, or with
another edit, is excepted (`crossed`): the verification writes the flag but not a number it
believes to be unchanged, so that the flag can end up at the administrator's number.

`Verification` puts `PhoneVerification` and `Registration` side by side, on one clock;
`MCVerification` gives the values of both and moves one part per run (`PhoneSpec`,
`RegistrationSpec`), while the other stays as it is at first.  Their codes are in different
tables; that a number which one of them gave to a user is taken for the other is left out,
because it only forbids steps.  `PartsSideBySide` shows that in the composition
each part goes by its own specification, so that what is proved of one holds there.
In the run, numbers there are at first count as verified (`PhoneInit`): others are one
edit away.  The theorems have no such restriction.

Abstractions: drawn codes are all different (equal ones are a matter of
probability), and the switch that makes all codes the same is off; names,
client metadata and `must_change_password` are left out; ids of rows are in
the order of `created_at`, which is the start of the transaction;
`PasswordReset` is about one account, which has a number.

### 2.5 `Sessions`

The password, the refresh tokens, and whether an invited account's link and a reset
token are out, of one account: `Login`, `Refresh`, `Change`, `Complete` and
`Confirm`, each with `Begin` and `Commit`, and `ConfirmGather`, the query for live
sessions.  A reset touches both modules: `PasswordReset` says when its token works
and consumes the row, `Sessions` sets the password and ends the sessions, with a
token that may come and lapse at any time.  Sessions carry history: the version of the
password they go back to, through any number of refreshes, the session they were
refreshed from, and the last reset that raced with one of these steps.
Logins are those with the right password; refresh tokens that have expired are not
presented.

`Passwords` puts `Sessions` and `PasswordReset` side by side; `MCPasswords` gives the
values of both and moves one part per run, while the other stays as it is at first.
That a reset token works is all one would see of the other, and `Sessions` lets it be
true at any time, so that nothing is lost; both together are left to the plan, because
one run cannot hold them.

### 2.6 `GroupCards` and `UserDeletion`

`GroupCards` is the cards of one group: `card` is the table, `active` the live member
rows, `deleted` whether the group has been marked as deleted (a tombstone, an edit) or
wiped with what it holds.  `soft_delete_group` loads the cards (`SoftDeleteGroup`,
`crud_service.py:356`) and commits its marks later (`SoftDeleteGroupCommit`, line 359);
`loaded` is what such a request knows, and `stray` are the cards whose insertion has
overlapped with one: these may stay live.  `CreateCard` and `UpdateCard` are the
checks of a request, `Commit` its write, which the partial unique index (`IndexAgrees`)
may refuse; other requests, deletions and departures come in between.

`UserDeletion` is `delete_user` and what the tables can hold when it is called.  All
rows have a creator, who need not be the user a row stands for.  `paper` are cards and
settlements, whose foreign keys hold the member rows they name; parts of expenses
cascade.  `DeleteUser` is the whole handler: it is rolled back if another user's paper
names a member row the deleted user had added (`Held`), even one in a group of his own,
because `autoflush=False` (`db/session.py:26`) leaves the groups to the flush at the
commit, after the `DELETE` of member rows.  That no reference dangles afterwards is the foreign
keys' doing and no property.  Otherwise `PartsGoWithWhoAddedThem`
describes what happens to expenses that stay: they lose the parts of every member the
deleted user had added, and no longer add up.

`MCGroupRows` composes the two as `MCLedger` does.

### 2.7 `Releases` and `Articles`

`Releases` follows a request transaction by transaction (`at` in `req`): an edit is
committed, read again, copied to the page, read again, its link written to the
setting; a publication does the same and sets `is_published` once more at the end.
`Fail` may end it anywhere.  `alone` says that nothing else ran during the request.
`EditPage` and `EditSetting` are an administrator's edits by hand.  Version names lose
characters on the way to a file name, which `ApkFilename` says.

`Articles` has the articles with the fields that others depend on (slug, body, table
of contents, related slugs, image), the redirects, and the stored images; `Answer` is
what a reader gets for a slug.  An edit is a read and a commit, which writes the columns
that differ from what was read, as in 2.4.

`SiteContent` composes the two, which share no table and no directory; `MCSiteContent`
gives the values.

### 2.8 `AdminLogin` and `Notifications`

`AdminLogin` counts what is left: an attempt is the minutes it will still count, a
lock the minutes it will still last.  A counter is one key (address and name) in one
process.  A login asks (`CheckAllowed`), compares outside the lock, and reports
(`Compare`); a process may restart and forget.  A lock must outlast an attempt, as
with the defaults (`core/config.py:64`, 10 minutes and 15).

`Notifications` has a row for each user and device.  `RegisterBegin` and
`RegisterCommit`, `DeactivateBegin` and `DeactivateCommit` are the reads and writes of
the handlers; a send reads the active rows, waits for the push service, looks for the
rows that hold a rejected token by then (`Rejected`), and deactivates them whatever they
hold at the commit.  `dismissed` are the rows that some request has had reason to deactivate
since they were last registered; `SilentForAReason` says that no others are inactive.  A
registration does not take its row off that record if a request is about to deactivate the row
(`Disturbed`): such a device does fall silent without a reason.

`MCAdminLogin` composes the two.

## 3. What the runs show

| run | bounds | shows |
|---|---|---|
| `groups` | 3 users, 1 group, 4 member rows; 75,601 states | the five properties of `Groups` in every reachable combination of the tables |
| `sync` | 2 devices, the group and 1 record in it, 1 item per push, clock to 2; 6.7 million states | a pull misses only what became visible late, whenever the group is deleted; a deletion stays; a newer version is replaced only by a request that was outrun |
| `sync_pull_gap` | the same | finding: a late commit is never delivered |
| `ledger` | 3 members, 1 expense, 2 settlements, totals to 2, weights to 2, all three split types (settlements beside equal splits only); for the loop 4 members, balances -4..4, cancelling or not; 0.5 million states | shares cover totals, rows stay editable, saving again is harmless; suggestions settle the group, and each of them helps alone; the loop ends and computes the overlaps |
| `ledger_any_total` | 4 members, equal weights, totals to 2: the smallest instance in which rounding takes more than a share | finding: such a request fails |
| `phone` | 2 users, 2 numbers, 2 codes, 2 requests at a time, 1 edit, clock to 2; users without a number at first, or with a verified one; 3.1 million states | numbers that a verification has flagged were received; consumed rows stay consumed; `OneTimeCodes` until requests overlap |
| `registration` | 2 usernames, 2 numbers, 2 codes, 2 requests, clock to 2; 0.7 million states | used registrations stay closed; open ones are disjoint and `OneTimeCodes` until requests overlap |
| `reset` | 2 identifiers, 2 rows, 3 codes, 2 reset tokens, 2 requests, clock to 2; 2.6 million states | tokens side by side; `OneTimeCodes` until requests overlap |
| `sessions` | 4 sessions, 3 passwords after the first, 2 requests; 1.2 million states | sessions that survive a reset have raced with it; refresh tokens are exchanged once |
| `group_rows` | 2 users, 1 group, 4 member rows, 1 card or settlement, 1 expense; 2 members, 2 cards, 2 numbers, 2 requests; 0.2 million states | whose parts of expenses a deletion takes; cards' numbers, deletions and deleted groups with overlapping requests |
| `site_content` | 2 releases, 2 names, 2 codes, 2 requests at a time, 4 in all; 2 articles, 3 slugs, 2 requests at a time, 4 edits; 1.1 million states | one release published, page and setting after it, own APKs; old links lead home, derived columns follow unless edits overlap, own images |
| `admin_login` | 2 processes, 3 logins at a time, 3 attempts; 3 users of 1 device, 2 tokens, 2 requests; 1.4 million states | how many guesses pass; locks end; a token is active for one user; no row is silent without a reason |

Every module with a state has a `TypeOK`.  It is part of the invariants that are proved
(of that of `Debts`, `LoopInv` has what its proofs need), and can be added to any `.cfg` as an invariant; the runs are left to the properties that could
fail for reasons in the code.

Why the bounds are enough.  Three users are an inviter, an invitee and a third
who is pointed to or who removes; four rows allow a user to be removed and added
again while another is present; groups do not interact, but through connections,
which one group can already produce.  Two devices are a writer and a reader; one
record beside the group suffices because versions of records depend on each other only through
their group (the per-table snapshots of a pull only differ in time, and every order of
writes and queries of the two occurs); one item per push, because items are read and
written one after another, and a second push can follow.  The group's row is pushed and
patched in that run to delete it only (`GroupIsOnlyDeleted`), since its other edits are like
those of the record.  Stamps 1 and 2, and 0 for a cursor that is still unset, give a stamp
before, at and after a cursor.  Transfers depend on balances alone, and balances on totals and shares but
not on how the shares were found: hence settlements beside equal splits only.  Four members
with balances up to 4 give every pattern of lists up to three against one and two against
two, with ties.  Only ratios of weights matter.  For codes, two of each are a thing and its
rival; codes live for two ticks, may be sent again after one, twice at most, and die of the
second wrong guess, so that every limit is met; two requests at a time show what each pair
of handlers does to each other.

Of the administrators' parts: one group holds everything a deletion must find,
since groups do not refer to each other; two users are the one who is deleted and
the one who stays, and the four member rows let each add the other.  Two releases
are the published one and its successor, and four requests let one fail half way,
another repair it and two overlap; two articles and three slugs let one article take
a slug the other has left and the other return.  Two requests that register
while a third row exists show the loss of a token's single owner; rows are alike to
a registration whether they differ in user or device, so that three users of one device
stand for any three rows.  Three logins at a time exceed what is left when two have failed.

Fairness: weak fairness of `Tick` in `AdminLogin`, because time passes whatever the
program does; nothing is assumed of logins.  `LockEnds` needs no more: the limiter
compares with the clock.  Everywhere else none is assumed.  What must
happen eventually depends on clients, which are not in this repository, except
for the loop of `Debts`, where `EveryTurnFinishesOne` bounds the number of turns
without fairness.

Deadlock checking is off where the modelled system may stop: ids are used up, a
loop ends, the last user with access has gone.

### Findings

1. `app/sync/service.py:300`: rows that commit late are never pulled.
2. `app/services/crud_service.py:803`: a weighted split can fail for a valid total.

## 4. What is proved

`Groups_proofs` proves `TypeOK` and the five properties of `Groups` for any sets of users,
groups and row ids, from no assumption on the constants:

* `TypeCorrect`: `TypeOK` is inductive.  `HealFacts` says what healing leaves of
  the member table (`Heals`: groups, users and deletions stay, a status changes
  only to ACTIVE and only with an active membership, new rows are live, active
  and one per user who had none), and every step uses that instead of the
  definition.
* `OneLiveRow`, `PendingRowsAnswerable`: one inductive invariant `RowsInv`.
  That a pending row can be answered is not inductive by itself: accepting
  writes the invitee over the row's user, so the invariant also says that a
  pending invite is addressed to its row's user (`InviteFollowsRow`); this and
  one live row per user then give each other what they need when rows are
  redirected.
* `AccessIsGranted`: an invite can be accepted by its own sender, after the row
  was redirected to him, and then no connection is made; the invariant
  `AccessInv` therefore adds that senders of invites are involved themselves.
  `GrowsStep` (owners stay, connections only grow) carries both along.
* `AccessIsKept`: after healing, a user with access has a live row, and adding
  him again is refused.
* `AccessLostOnlyThroughTwin`: of the handlers that delete a membership, each
  deletes a row of the same user as well; if another live row of his is left
  without access, the deleted row was not live before, by `OneLiveRow`.

`Sync_proofs` proves `TypeOK` and the three properties of `Sync` for any sets of devices and
records of which one is the group, from `MaxTime \in Nat \ {0}`:

* `SyncTypeCorrect`, `DeletionsStay`: `TypeOK` is inductive, and no operation
  that `Merged` or `Store` lets write turns a deleted version into a live one.
* `PullsAreComplete`: `MissedOnlyWhenLate` speaks of requests that have ended, so
  the invariant also says what holds during a pull (`Covered`): a version the
  device will lack under the cursor it is about to get is late, or already in the
  reply, or in a table still to be queried.  A record that a query passes over because the
  group is deleted is not missed, for a deleted group stays deleted.  `TimeInv` keeps the pull's clock
  reading at or below the clock.
* `PushesWin`: unless its device is in `raced`, a request that has read a version for
  a comparison finds it still stored at the write (`WriteInv`).

`Passwords_proofs` proves `TypeOK` and the two properties of `Sessions` for any sets of sessions
and requests, from `MaxVersion \in Nat` and `NoSession \notin Sessions`:

* `SessionsTypeCorrect`: `TypeOK` with the fact that a session which is being refreshed is
  on record.
* `ResetEndsTheRest`: `SurvivorsHaveRaced` speaks of sessions; the invariant `RaceInv`
  says the same of requests under way, which will pass their password and their races on
  to a session, and of what a reset has gathered: every live session it does not know
  has come meanwhile.
* `OneExchangeEach`: until requests overlap there is one at a time
  (`SessionOneRequest`), so that what it has read is still true.

The three modules that implement `OneTimeCodes` are proved to the same plan, in
`Verification_proofs` and the second part of `Passwords_proofs`: for any sets of what they
are about, any settings that are positive (a cooldown of a reset may be 0) and any bounds.

* *Types* (`VerificationTypeCorrect`, `RegistrationTypeCorrect`, `ResetTypeCorrect`).
  That counts stay below their limits needs what each request in flight may rely on
  although nothing is locked (`TypeInv`): the row it will change exists and is the
  one it was about, the id it will insert is free, its code is new, and the counts it has
  read were below the limits.
* *Refinement* (`VerificationKeepsPromise`, `RegistrationKeepsPromise`,
  `ResetKeepsPromise`).  `AloneInv` says what holds as long as requests come one at a
  time: there is one at most, what it has read still holds (`UpToDate`), no code is in
  two rows, and an open row has counted the wrong guesses at its code (`CodesCount`).
  Then every step is a step of `OneTimeCodes` or none: `StepSends`,
  `StepLapses`, `StepGuesses` and `StepAccepts` (`StepConfirms` of a reset) are its
  actions in terms of the codes that count (`LiveCodes`), and each handler is one of them:
  the clock and a failure let codes lapse, a commit sends, guesses or accepts.
* *With any overlap*: `UsedRegistrationsStayClosed` and `RowsAreConsumedForGood`, because
  no commit writes `consumed_at` back to NULL, and `VerifiedNumbersWereReceived`
  (of numbers that count as verified on nobody's word).  The last rests on `ReceivedInv`: a request that will write number and flag has read
  them as they are, or, for a verification, a number that has been received since; where
  an administrator's edit crosses it, the user is in `crossed`.
* *One at a time*: `OpenRegistrationsAreDisjoint`; `TokensSideBySide`, whose invariant says
  of every row that is not consumed that its code had expired before a later row's was
  asked for (`OpenExpire`), also when neither has a token yet.

The handlers read the latest row, `Max` of a set of numbers.  That a bounded set has a
greatest element is lemma `Greatest`, from `WFMin`, because the induction
theorems cannot be instantiated.

`GroupRows_proofs` proves the four properties of `GroupCards` and `UserDeletion`, for any
sets of users, groups, rows, numbers and requests, from no assumption on the constants:

* `OnlyRacesAreRefused`, `WipedGroupsHoldNothing`, `CardsAreDeletedForGood`: `CardsInv`
  says between the checks of a write and its commit which numbers may have been taken
  meanwhile, that no two requests insert the same card, and that what may still turn up
  in a deleted group, or is not known to a deletion under way, was being inserted during
  a deletion (`OnlyStrays`).
* `PartsFollowTheirAdder`: `DeletionInv` says that rows refer to rows that exist
  (`ReferencesHold`, which the foreign keys see to), that no member row that is gone
  returns (`NoneReturns`), that cards and settlements name
  members of their group, and for each part an expense was made with, that its member row
  is there or went with a user who had added it.

`SiteContent_proofs` proves the four properties of `Articles` and the three of `Releases`, from
`ApkFilename` being a function, patches being updates, and the values for "none" being
none of the others:

* `OldLinksAreFollowed`: `ArticlesInv` says that each slug an article has had is its own
  or redirects (`SlugsRedirect`), and that a redirect from a slug nobody holds ends at
  the article (`RedirectsLeadHome`): a slug that is given up gets its redirect in the same
  commit.
* `ContentsFollowBody`, `NothingIsRelatedToItself` (both of articles whose edits have not
  overlapped), `ImagesAreOwn`: `EditsFit` says
  what an edit in flight has read and will write, as long as none overlaps it, and
  that the image it will write is the article's own, overlapping or not.
* `OneIsPublished`, `ApksAreOwn`, `PageIsSynced`: `ReleasesInv` follows each request
  through its transactions: what it has read back, and how much of release, page and
  setting agrees by then if it runs alone (`RequestsFit`).

`AdminLogin_proofs` proves one property of `AdminLogin` and the two of `Notifications`:

* `FailuresAreBounded`, for any limit, any window and any lockout that is longer
  (`LockoutOutlastsWindow`) and finitely many logins at a time.  `LoginInv`: attempts are
  in the order they were made, and a full window is covered by the lock (`LockCovers`),
  so that a window that is not locked has room; logins under way are counted with the
  failures that are kept.  `LeastNumber` is the counterpart of `Greatest`.
* `TokensAreActiveOnce`: `TokensInv` says of a registration that has not been outrun that
  it knows every row its token is active in, and of a deactivation that its rows exist.
* `SilenceHasAReason`: `SilentInv` says the same of what requests are about to deactivate as
  of what is inactive: there was reason for it.

`Ledger_proofs` proves `TypeOK` and the five properties of `Ledger`, and both properties of
the loop in `Debts`, for any finite set of members with any order, any bounds, weights and
split types, from the constants being what their names say (`Members` and `Debtors` finite sets of
natural numbers, bounds natural numbers, `SplitTypes` those of the code):

* `LedgerTypeCorrect`, `SharesAlwaysCoverTotal`, `StoredRowsAreEditable`,
  `ResavingAlwaysKeepsShares`: `LedgerInv` says of every stored expense that its shares are
  ones that a split can give and that they add up, and that there are finitely many.  A
  rounding leftover is added to one share only, and floors of parts of a total sum up to no
  more than the total.
* `SettlingUpAlwaysSettles`, `PayingASuggestionAlwaysHelps`.  Balances are sums over rows,
  and transfers sums over pairs of places; three facts carry them.  Balances of all members
  cancel, because each row moves as much as it takes (`NetCancels`, the sums over rows and
  over members exchanged).  The overlaps of one interval with those of a list, which follow
  each other without a gap, add up to what the list covers of it (`OverlapsAddUp`).  So each
  member is paid, and pays, what the other side covers of his balance (`Received`, `Paid`):
  all of it if balances cancel, and a part of it if those of removed members are left out.
* `LoopMatchesOverlap`, `TurnsAlwaysFinishOne`: by `LoopInv` both lists are paid up to the
  same point, which is where the entry before one of the two indexes ends, and the
  transfers made are those of the pairs of places of which one is behind its index.  A turn
  moves the point to the nearer of the two ends (`LaidStep`), which makes the one pair that
  is then behind, with the length from the old point to the new (`PairsBehind`).

Sums are folds over finite sets, about which one would argue by induction, and induction over
an operator cannot be instantiated.  The proofs go round it: a function that adds up all
subsets of a set exists for each finite set (`SummingExists`: there is no least size of
subsets for which it would fail), all such functions agree (`SumUnique`), and
the fold is one of them.  In the same way a finite set of numbers has ranks that name each
place once (`RankOnto`), which is all that the proofs need of sorting.

Only model-checked: `LockEnds`, a liveness property and out of the prover's reach.  All other
properties of the passing runs are theorems; the two runs that expect a violation are
counterexamples and need no more.

## 5. Not modelled

* In components that are modelled in part: the initial import, and pushed records
  that refer to each other (cards go before members, deletions last); sending the link
  of an invited account, and access tokens; lists, counts and the other settings of the
  administration; lists, search, export, site map, dates and explicit nulls of
  articles; where files are stored and what types are let through.
* Health, client tracking and SMS: calls to the outside without a state that
  others read.
* Routers and schemas: one call each; what schemas refuse is in the guards.
* Database session and migrations: DDL; its constraints are part of the models.
* Admin panel, deployment, scripts: no state the server depends on.

Read in the code, and no property says anything of them: pushes the server refuses
for their order (`app/sync/service.py:261`), one of the hazards in
`PROJECT.json`; the order in which a rename's INSERT of a redirect and UPDATE of the slug
are flushed, which the foreign key of the redirect may refuse if the INSERT goes first
(`articles_service.py:189`: there is no `relationship()` between the two tables; a refused
rename is a request that fails); an initial import that any membership row forbids
(`app/sync/service.py:253`); an article that can leave a slug once only
(`articles_service.py:189`: the second redirect breaks a unique key); the name of a
deleted user on others' member rows, which keeps who registers with it next out of
these groups (`admin_service.py:367`); an admin token that carries the name in lower
case and is compared with the name as configured (`admin/dependencies.py:26`).

## 6. Plan

1. `Groups`, `Sync`, `Debts`, `Transfers`, `Ledger`; their proofs.  Done.
2. `OneTimeCodes`, `PhoneVerification`, `Registration`, `PasswordReset`,
   `Sessions`, `Verification`, `Passwords`; their proofs.  Done.  Left: a run in which
   `Sessions` and `PasswordReset` move together, on smaller bounds, with `resettable` as
   what `Confirmable` says.
3. `GroupCards`, `UserDeletion`, `Releases`, `Articles`, `AdminLogin`, `Notifications`.
   Their compositions and proofs.  Done.
4. `InviteRace`: accept, reject and delete of one invite as interleaved reads and
   commits, refined to `Groups` where they do not overlap.
5. An abstract last-write-wins register that `Sync` implements where writes do not overlap;
   an abstract invitation life cycle that `Groups` implements.
6. Pushes that refer to each other (a refused item stops the device's sync), with
   a liveness property under fairness of a client that retries; the initial import.
