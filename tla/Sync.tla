-------------------------------- MODULE Sync --------------------------------
(***************************************************************************)
(* POST /sync (app/sync/service.py) for the records of one group.          *)
(*                                                                         *)
(* A request upserts the pushed records one transaction at a time, applies *)
(* the tombstones, reads the clock, and then selects what changed since    *)
(* the device's cursor; the clock reading becomes the next cursor.  Three  *)
(* replicas serve requests, so the steps of requests of different devices  *)
(* interleave, and REST handlers write the same rows in between.  A        *)
(* request may stop anywhere (a crashed replica, a lost reply): what it    *)
(* has committed stays, and the device tries again.                        *)
(*                                                                         *)
(* A record (the group itself, or a card, member, expense or settlement)   *)
(* is reduced to its version: updated_at, and whether deleted_at is set;   *)
(* `has` says whether a device holds the stored version, so contents need  *)
(* not be told apart.  The group has been created, with its memberships,   *)
(* before.                                                                 *)
(* All clocks are the one clock `now`: nothing below needs clock skew.     *)
(* The device side is external: the client is not in this repository.      *)
(***************************************************************************)
EXTENDS Integers, FiniteSets

CONSTANTS Devices,   \* one user with one device each
          Records,   \* ids of the group and of the records in it
          Group,     \* the group itself
          MaxItems,  \* bound on the records and ids in one push
          MaxTime    \* bound on the clock

ASSUME GroupAssumption == Group \in Records
ASSUME MaxTimeAssumption == MaxTime \in Nat \ {0}

VARIABLES now,     \* the clock
          db,      \* the stored version of every record
          access,  \* devices whose user has an ACTIVE membership of the group
          req,     \* per device: its request in flight
          cursor,  \* per device: last_synced_at, 0 before the first sync
          has,     \* history: per device, the records whose stored version it holds
          late,    \* history: per device, the records whose stored version
                   \* appeared when the device's cursor had passed its stamp
          raced    \* history: the devices whose requests are about to write an
                   \* item that another request has written since they read it

vars == <<now, db, access, req, cursor, has, late, raced>>

Absent == [upd |-> 0, del |-> FALSE]
Nothing == [r \in Records |-> Absent]
Version == [upd : 0..MaxTime, del : BOOLEAN]

RequestRow == [pc : {"idle", "rest", "push", "write", "tombs", "pull"},
               todo : [Records -> Version], ids : SUBSET Records,
               at : 0..MaxTime, open : SUBSET Records, got : SUBSET Records]

Idle == [pc |-> "idle", todo |-> Nothing, ids |-> {}, at |-> 0, open |-> {}, got |-> {}]

Init == /\ now = 1
        /\ db = [Nothing EXCEPT ![Group] = [upd |-> 1, del |-> FALSE]]
        /\ access \in SUBSET Devices
        /\ req = [d \in Devices |-> Idle]
        /\ cursor = [d \in Devices |-> 0]
        /\ has = [d \in Devices |-> {}]
        /\ late = [d \in Devices |-> {}]
        /\ raced = {}

-----------------------------------------------------------------------------
Exists(v) == v.upd > 0

\* Mutant: equal stamps count as newer.
IsNewerOrEqual(v, w) == v.upd >= w.upd

\* _is_newer, and the test in _apply_tombstone.  A record the server does not
\* have is older than any version.
IsNewer(v, w) == v.upd > w.upd

\* Mutant: the update takes over the pushed deletion flag as it is.
MergedReviving(v, w) == v

\* The update_* functions: deleted_at is set when given and never cleared.
Merged(v, w) == [v EXCEPT !.del = v.del \/ w.del]

\* The filter of the pull queries (no filter without a cursor).
IsDue(v, since) == v.upd > since

\* The latest clock reading that is, or may become, the cursor of a device.
Passed(d) == IF req[d].pc = "pull" THEN req[d].at ELSE cursor[d]

\* A request that is done with its item for record r.
Skip(q, r) == [q EXCEPT !.todo = [@ EXCEPT ![r] = Absent]]

\* A push that has written record r goes on with its next item.
Onward(q, r) ==
    [Skip(q, r) EXCEPT !.pc = IF q.at = 0 THEN "push" ELSE "tombs", !.open = {}]

\* Device d commits what it has to do for the records rs, and has q to do then.
\* Nobody else holds the outcome: not even a reply under way carries it, if the
\* record was queried before.
Store(d, rs, q) ==
    LET v == req[d].todo
    IN /\ db' = [r \in Records |-> IF r \in rs THEN Merged(v[r], db[r]) ELSE db[r]]
       /\ has' = [e \in Devices |-> (has[e] \ rs) \cup {r \in rs : e = d /\ db'[r] = v[r]}]
       /\ late' = [e \in Devices |->
                     (late[e] \ rs) \cup {r \in rs \ has'[e] : v[r].upd <= Passed(e)}]
       /\ req' = [e \in Devices |-> IF e = d THEN q ELSE [req[e] EXCEPT !.got = @ \ rs]]
       /\ raced' = (raced \ {d}) \cup {e \in Devices \ {d} : req[e].pc = "write" /\ req[e].open \cap rs # {}}

-----------------------------------------------------------------------------
\* The environment.

Tick == /\ now < MaxTime
        /\ now' = now + 1
        /\ UNCHANGED <<db, access, req, cursor, has, late, raced>>

\* The user becomes an active member.  What the group holds by then is as late
\* for his cursor, which other groups may have moved, as a late commit.
GainAccess(d) ==
    /\ d \notin access
    /\ access' = access \cup {d}
    /\ late' = [late EXCEPT ![d] = @ \cup {r \in Records \ has[d] : Exists(db[r]) /\ db[r].upd <= Passed(d)}]
    /\ UNCHANGED <<now, db, req, cursor, has, raced>>

LoseAccess(d) ==
    /\ d \in access
    /\ access' = access \ {d}
    /\ UNCHANGED <<now, db, req, cursor, has, late, raced>>

-----------------------------------------------------------------------------
\* REST handlers: the stamp is taken first, the row written at the commit.  (A
\* PATCH may bring a stamp of its own: the same as a commit that comes late.)

\* A record that would be new is refused in a deleted group; one that is there can
\* be edited and deleted still.
Admits(r) == Exists(db[r]) \/ ~db[Group].del

RestBegin(d, r, del) ==
    /\ req[d].pc = "idle"
    /\ d \in access
    /\ Admits(r)
    /\ req' = [req EXCEPT ![d] = [Idle EXCEPT !.pc = "rest",
                  !.todo = [Nothing EXCEPT ![r] = [upd |-> now, del |-> del]]]]
    /\ UNCHANGED <<now, db, access, cursor, has, late, raced>>

\* soft_delete_group: it stamps the group, and then loads what the group holds, one
\* list after the other (`open`: those it has not loaded), to stamp that as well.
DeleteGroup(d) ==
    /\ req[d].pc = "idle"
    /\ d \in access
    /\ req' = [req EXCEPT ![d] = [Idle EXCEPT !.pc = "rest", !.open = Records \ {Group},
                  !.todo = [Nothing EXCEPT ![Group] = [upd |-> now, del |-> TRUE]]]]
    /\ UNCHANGED <<now, db, access, cursor, has, late, raced>>

LoadForDeletion(d, r) ==
    /\ req[d].pc = "rest"
    /\ r \in req[d].open
    /\ req' = [req EXCEPT ![d] = [req[d] EXCEPT !.open = @ \ {r},
                  !.todo = [@ EXCEPT ![r] = IF Exists(db[r]) THEN req[d].todo[Group] ELSE Absent]]]
    /\ UNCHANGED <<now, db, access, cursor, has, late, raced>>

RestCommit(d) ==
    /\ req[d].pc = "rest"
    /\ req[d].open = {}
    /\ Store(d, {r \in Records : Exists(req[d].todo[r])}, Idle)
    /\ UNCHANGED <<now, access, cursor>>

-----------------------------------------------------------------------------
\* A sync request.  Phases of req[d].pc: "push" -> ("write" -> "push")* ->
\* "tombs" -> ("write" -> "tombs")* -> "pull" -> "idle".

\* The device sends edits made offline, stamped by its clock at any time up to
\* now (or edits it has sent before), and ids of records it has deleted.
StartSync(d) ==
    /\ req[d].pc = "idle"
    /\ \E todo \in [Records -> [upd : 0..now, del : BOOLEAN]], ids \in SUBSET Records :
          /\ \A r \in Records : todo[r].del => Exists(todo[r])
          /\ Cardinality({r \in Records : Exists(todo[r])}) + Cardinality(ids) <= MaxItems
          /\ req' = [req EXCEPT ![d] = [Idle EXCEPT !.pc = "push", !.todo = todo, !.ids = ids]]
    /\ UNCHANGED <<now, db, access, cursor, has, late, raced>>

\* _upsert_*: an item the user may not touch, or a new one in a deleted group, fails
\* the request; one that is not
\* newer is passed over; otherwise it is going to be written.  `open` holds
\* the item between the read and the write, and later the tables to query.
ReadForUpsert(d, r) ==
    /\ req[d].pc = "push"
    /\ Exists(req[d].todo[r])
    /\ req' = [req EXCEPT ![d] =
                 IF d \notin access \/ ~Admits(r) THEN Idle
                 ELSE IF IsNewer(@.todo[r], db[r])
                      THEN [@ EXCEPT !.pc = "write", !.open = {r}]
                      ELSE Skip(@, r)]
    /\ UNCHANGED <<now, db, access, cursor, has, late, raced>>

\* The clock is read once for all deleted ids.
StartTombstones(d) ==
    /\ req[d].pc = "push"
    /\ req[d].todo = Nothing
    /\ req' = [req EXCEPT ![d] = [@ EXCEPT !.pc = "tombs", !.at = now, !.ids = {},
                  !.todo = [r \in Records |->
                      IF r \in req[d].ids THEN [upd |-> now, del |-> TRUE] ELSE Absent]]]
    /\ UNCHANGED <<now, db, access, cursor, has, late, raced>>

\* _apply_tombstone: unknown and inaccessible records are skipped silently.
ReadForTombstone(d, r) ==
    /\ req[d].pc = "tombs"
    /\ Exists(req[d].todo[r])
    /\ req' = [req EXCEPT ![d] =
                 IF d \in access /\ Exists(db[r]) /\ IsNewer(@.todo[r], db[r])
                 THEN [@ EXCEPT !.pc = "write", !.open = {r}]
                 ELSE Skip(@, r)]
    /\ UNCHANGED <<now, db, access, cursor, has, late, raced>>

\* The commit of the item just read; `at` is set from the tombstones on.
Write(d, r) ==
    /\ req[d].pc = "write"
    /\ r \in req[d].open
    /\ Store(d, {r}, Onward(req[d], r))
    /\ UNCHANGED <<now, access, cursor>>

\* server_time, read before any of the queries.
StartPull(d) ==
    /\ req[d].pc = "tombs"
    /\ req[d].todo = Nothing
    /\ req' = [req EXCEPT ![d] = [@ EXCEPT !.pc = "pull", !.at = now, !.open = Records]]
    /\ UNCHANGED <<now, db, access, cursor, has, late, raced>>

\* The group, deleted or not, is shown to its active members; what it holds only
\* while it is not deleted (_non_deleted_active_group_ids_query).
Shown(r) == r = Group \/ ~db[Group].del

\* Mutant: deleted groups are left out of the query for groups as well.
SelectedUndeleted(d, r) == d \in access /\ ~db[Group].del /\ IsDue(db[r], cursor[d])

Selected(d, r) == d \in access /\ Shown(r) /\ IsDue(db[r], cursor[d])

\* One of the select statements, each with a snapshot of its own.
Query(d, r) ==
    /\ req[d].pc = "pull"
    /\ r \in req[d].open
    /\ req' = [req EXCEPT ![d] = [req[d] EXCEPT !.open = @ \ {r},
                  !.got = IF Selected(d, r) THEN @ \cup {r} ELSE @]]
    /\ UNCHANGED <<now, db, access, cursor, has, late, raced>>

\* The reply arrives: the client takes over the changes and next_cursor.
Reply(d) ==
    /\ req[d].pc = "pull"
    /\ req[d].open = {}
    /\ cursor' = [cursor EXCEPT ![d] = req[d].at]
    /\ has' = [has EXCEPT ![d] = @ \cup req[d].got]
    /\ late' = [late EXCEPT ![d] = @ \ req[d].got]
    /\ req' = [req EXCEPT ![d] = Idle]
    /\ UNCHANGED <<now, db, access, raced>>

\* The request dies or its reply is lost; the cursor stays for a retry.
Abort(d) ==
    /\ req[d].pc # "idle"
    /\ req' = [req EXCEPT ![d] = Idle]
    /\ raced' = raced \ {d}
    /\ UNCHANGED <<now, db, access, cursor, has, late>>

-----------------------------------------------------------------------------
Request(d) ==
    \/ StartTombstones(d) \/ StartPull(d) \/ Reply(d) \/ RestCommit(d)
    \/ \E r \in Records : \/ ReadForUpsert(d, r) \/ ReadForTombstone(d, r)
                          \/ Write(d, r) \/ Query(d, r) \/ LoadForDeletion(d, r)

Next ==
    \/ Tick
    \/ \E d \in Devices :
          \/ GainAccess(d) \/ LoseAccess(d) \/ StartSync(d) \/ DeleteGroup(d) \/ Abort(d) \/ Request(d)
          \/ \E r \in Records, del \in BOOLEAN : RestBegin(d, r, del)

Spec == Init /\ [][Next]_vars

-----------------------------------------------------------------------------
\* Properties.

TypeOK ==
    /\ now \in 1..MaxTime
    /\ db \in [Records -> Version]
    /\ access \subseteq Devices
    /\ req \in [Devices -> RequestRow]
    /\ cursor \in [Devices -> 0..MaxTime]
    /\ has \in [Devices -> SUBSET Records]
    /\ late \in [Devices -> SUBSET Records]
    /\ raced \subseteq Devices
    \* no stamp is ahead of the clock
    /\ \A r \in Records : db[r].upd <= now
    /\ \A d \in Devices : cursor[d] <= req[d].at \/ req[d].pc # "pull"

\* A stored version that the device does not hold and that no later pull will
\* return, because the cursor has passed it.  Nothing in a group that is deleted
\* counts, for it will never be shown again: of such a group the device has to
\* learn its deletion.
Missed(d, r) ==
    /\ Exists(db[r]) /\ Shown(r)
    /\ r \notin has[d]
    /\ db[r].upd <= cursor[d]

\* README.md:164: a pull returns all changes since last_synced_at.  (Leaving aside
\* what deleted groups hold, and a stamp and a cursor that are the same clock reading.)
NothingMissed ==
    \A d \in access, r \in Records : Missed(d, r) => db[r].upd = cursor[d]

\* A device misses a change only if the change became visible to it with a stamp
\* its cursor had already passed: a push of an older edit, a REST commit that
\* was slower than somebody's pull, or a membership gained later.  Lost replies,
\* retries, aborted requests and reads of single tables at different moments
\* never make it miss anything.
MissedOnlyWhenLate == \A d \in access, r \in Records : Missed(d, r) => r \in late[d]

\* A push replaces a version only with a newer one (README.md:169, "Last-write-wins
\* using updated_at"), unless another request has written the record between the
\* push's read and its write.
RegressesOnlyWhenRaced ==
    [][\A d \in Devices \ raced, r \in Records :
          req[d].pc = "write" /\ req'[d].pc # "write" /\ db'[r] # db[r] => db'[r].upd > db[r].upd]_vars

\* Once deleted, a record stays deleted whatever newer version is pushed or
\* patched over it (README.md:171).
DeletedStays ==
    [][\A r \in Records : db[r].del => db'[r].del]_vars

=============================================================================
