----------------------------- MODULE Sync_proofs -----------------------------
(***************************************************************************)
(* Proofs about Sync, for any sets of devices and records and any bound on *)
(* the clock.                                                              *)
(***************************************************************************)
EXTENDS Sync, TLAPS

\* No stamp or clock reading is ahead of the clock.
Timely(q) == q.at <= now /\ \A r \in Records : q.todo[r].upd <= now

TimeInv == \A d \in Devices : cursor[d] <= now /\ Timely(req[d])

\* A pull in flight, whose clock reading will be the next cursor: what the device
\* lacks and the cursor will have passed is late, in the reply, or still to be
\* queried.
Covered(d, q) ==
    q.pc = "pull" /\ d \in access =>
        \A r \in Records :
            Exists(db[r]) /\ Shown(r) /\ r \notin has[d] /\ db[r].upd <= q.at
               => r \in late[d] \/ r \in q.got \/ r \in q.open

PullInv == \A d \in Devices : Covered(d, req[d])

Inv == TypeOK /\ TimeInv /\ MissedOnlyWhenLate /\ PullInv

-----------------------------------------------------------------------------
\* The operators.

LEMMA VersionFacts ==
    /\ Absent \in Version /\ Absent.upd = 0 /\ Absent.del = FALSE
    /\ Nothing \in [Records -> Version] /\ \A r \in Records : Nothing[r] = Absent
    /\ 0 \in 0..MaxTime /\ MaxTime \in Nat
<1>1. MaxTime \in Nat
  BY MaxTimeAssumption
<1> QED
  BY <1>1 DEF Absent, Nothing, Version

LEMMA IdleFacts ==
    /\ Idle \in RequestRow
    /\ Idle.pc = "idle" /\ Idle.todo = Nothing /\ Idle.at = 0
    /\ Idle.open = {} /\ Idle.got = {}
  BY VersionFacts DEF Idle, RequestRow

\* A request that passes over an item is otherwise as it was.
LEMMA SkipFacts ==
    ASSUME NEW q \in RequestRow, NEW r \in Records
    PROVE  /\ Skip(q, r) \in RequestRow
           /\ Skip(q, r).pc = q.pc /\ Skip(q, r).at = q.at
           /\ Skip(q, r).open = q.open /\ Skip(q, r).got = q.got
           /\ \A s \in Records : Skip(q, r).todo[s] = IF s = r THEN Absent ELSE q.todo[s]
<1> DEFINE todo == [q.todo EXCEPT ![r] = Absent]
<1>1. q.todo \in [Records -> Version]
  BY DEF RequestRow
<1>2. /\ todo \in [Records -> Version]
      /\ \A s \in Records : todo[s] = IF s = r THEN Absent ELSE q.todo[s]
  BY <1>1, VersionFacts
<1>3. Skip(q, r) = [q EXCEPT !.todo = todo]
  BY DEF Skip
<1> HIDE DEF todo
<1>4. /\ Skip(q, r) \in RequestRow
      /\ Skip(q, r).pc = q.pc /\ Skip(q, r).at = q.at
      /\ Skip(q, r).open = q.open /\ Skip(q, r).got = q.got
      /\ Skip(q, r).todo = todo
  BY <1>2, <1>3 DEF RequestRow
<1> QED
  BY <1>2, <1>4

LEMMA MergedFacts ==
    ASSUME NEW v \in Version, NEW w \in Version
    PROVE  /\ Merged(v, w) \in Version
           /\ Merged(v, w).upd = v.upd
           /\ Merged(v, w).del <=> v.del \/ w.del
  BY DEF Merged, Version

-----------------------------------------------------------------------------
\* Steps that change one request and nothing else.

LEMMA RequestStep ==
    ASSUME Inv, NEW d \in Devices, NEW q \in RequestRow,
           q.pc = "pull" => cursor[d] <= q.at, Timely(q), Covered(d, q),
           req' = [req EXCEPT ![d] = q], now' = now, db' = db, access' = access,
           cursor' = cursor, has' = has, late' = late, raced' \subseteq raced
    PROVE  Inv'
<1>1. \A e \in Devices : req'[e] = IF e = d THEN q ELSE req[e]
  BY DEF Inv, TypeOK
<1>2. TypeOK'
  BY <1>1 DEF Inv, TypeOK
<1>3. TimeInv'
  BY <1>1 DEF Inv, TimeInv, Timely
<1>4. MissedOnlyWhenLate'
  BY DEF Inv, MissedOnlyWhenLate, Missed, Shown
<1>5. PullInv'
  BY <1>1 DEF Inv, PullInv, Covered, Shown
<1> QED
  BY <1>2, <1>3, <1>4, <1>5 DEF Inv

LEMMA IdleStep ==
    ASSUME Inv, NEW d \in Devices,
           req' = [req EXCEPT ![d] = Idle], now' = now, db' = db, access' = access,
           cursor' = cursor, has' = has, late' = late, raced' \subseteq raced
    PROVE  Inv'
<1>1. Timely(Idle) /\ Covered(d, Idle)
  BY IdleFacts, VersionFacts DEF Inv, TypeOK, Timely, Covered
<1> QED
  BY <1>1, IdleFacts, RequestStep

LEMMA SkipStep ==
    ASSUME Inv, NEW d \in Devices, NEW r \in Records, req[d].pc # "pull",
           req' = [req EXCEPT ![d] = Skip(req[d], r)], now' = now, db' = db, access' = access,
           cursor' = cursor, has' = has, late' = late, raced' \subseteq raced
    PROVE  Inv'
<1> DEFINE q == Skip(req[d], r)
<1>1. req[d] \in RequestRow /\ Timely(req[d]) /\ now \in Nat
  BY DEF Inv, TypeOK, TimeInv
<1>2. /\ q \in RequestRow
      /\ q.pc = req[d].pc /\ q.at = req[d].at
      /\ \A s \in Records : q.todo[s] = IF s = r THEN Absent ELSE req[d].todo[s]
  BY <1>1, SkipFacts
<1> HIDE DEF q
<1>3. Timely(q) /\ Covered(d, q)
  BY <1>1, <1>2, VersionFacts DEF Timely, Covered
<1> QED
  BY <1>2, <1>3, RequestStep DEF q

LEMMA RestBeginStep ==
    ASSUME Inv, NEW d \in Devices, NEW r \in Records, NEW del \in BOOLEAN, RestBegin(d, r, del)
    PROVE  Inv'
<1> DEFINE v == [upd |-> now, del |-> del]
           todo == [Nothing EXCEPT ![r] = v]
           q == [Idle EXCEPT !.pc = "rest", !.todo = todo]
<1>1. now \in 0..MaxTime /\ now \in Nat
  BY VersionFacts DEF Inv, TypeOK
<1>2. v \in Version /\ v.upd = now
  BY <1>1 DEF Version
<1> HIDE DEF v
<1>3. todo \in [Records -> Version] /\ \A s \in Records : todo[s].upd <= now
  BY <1>1, <1>2, VersionFacts
<1> HIDE DEF todo
<1>4. q \in RequestRow /\ q.pc = "rest" /\ q.todo = todo /\ q.at = 0
  BY <1>3, IdleFacts DEF RequestRow
<1>5. req' = [req EXCEPT ![d] = q] /\ UNCHANGED <<now, db, access, cursor, has, late, raced>>
  BY DEF RestBegin, q, todo, v
<1> HIDE DEF q
<1>6. Timely(q) /\ Covered(d, q)
  BY <1>1, <1>3, <1>4 DEF Timely, Covered
<1> QED
  BY <1>4, <1>5, <1>6, RequestStep

LEMMA DeleteGroupStep ==
    ASSUME Inv, NEW d \in Devices, DeleteGroup(d)
    PROVE  Inv'
<1> DEFINE v == [upd |-> now, del |-> TRUE]
           todo == [Nothing EXCEPT ![Group] = v]
           q == [Idle EXCEPT !.pc = "rest", !.open = Records \ {Group}, !.todo = todo]
<1>1. now \in 0..MaxTime /\ now \in Nat
  BY VersionFacts DEF Inv, TypeOK
<1>2. v \in Version /\ v.upd = now
  BY <1>1 DEF Version
<1>5. req' = [req EXCEPT ![d] = q] /\ UNCHANGED <<now, db, access, cursor, has, late, raced>>
  BY DEF DeleteGroup
<1> HIDE DEF v
<1>3. todo \in [Records -> Version] /\ \A s \in Records : todo[s].upd <= now
  BY <1>1, <1>2, VersionFacts, GroupAssumption
<1> HIDE DEF todo
<1>4. q \in RequestRow /\ q.pc = "rest" /\ q.todo = todo /\ q.at = 0
  BY <1>3, IdleFacts DEF RequestRow
<1> HIDE DEF q
<1>6. Timely(q) /\ Covered(d, q)
  BY <1>1, <1>3, <1>4 DEF Timely, Covered
<1> QED
  BY <1>4, <1>5, <1>6, RequestStep

LEMMA LoadForDeletionStep ==
    ASSUME Inv, NEW d \in Devices, NEW r \in Records, LoadForDeletion(d, r)
    PROVE  Inv'
<1> DEFINE v == IF Exists(db[r]) THEN req[d].todo[Group] ELSE Absent
           todo == [req[d].todo EXCEPT ![r] = v]
           open == req[d].open \ {r}
           q == [req[d] EXCEPT !.open = open, !.todo = todo]
<1>1. /\ req[d] \in RequestRow /\ req[d].pc = "rest" /\ Timely(req[d])
      /\ req[d].todo \in [Records -> Version] /\ now \in Nat
  BY DEF Inv, TypeOK, TimeInv, LoadForDeletion, RequestRow
<1>2. v \in Version /\ v.upd <= now
  BY <1>1, VersionFacts, GroupAssumption DEF Timely
<1>5. req' = [req EXCEPT ![d] = q] /\ UNCHANGED <<now, db, access, cursor, has, late, raced>>
  BY DEF LoadForDeletion
<1> HIDE DEF v
<1>3. todo \in [Records -> Version] /\ \A s \in Records : todo[s].upd <= now
  BY <1>1, <1>2 DEF Timely
<1>6. open \in SUBSET Records
  BY <1>1 DEF RequestRow
<1> HIDE DEF todo, open
<1>4. q \in RequestRow /\ q.pc = "rest" /\ q.todo = todo /\ q.at = req[d].at
  BY <1>1, <1>3, <1>6 DEF RequestRow
<1> HIDE DEF q
<1>7. Timely(q) /\ Covered(d, q)
  BY <1>1, <1>3, <1>4 DEF Timely, Covered
<1> QED
  BY <1>1, <1>4, <1>5, <1>7, RequestStep

LEMMA StartSyncStep ==
    ASSUME Inv, NEW d \in Devices, StartSync(d)
    PROVE  Inv'
<1>1. PICK todo \in [Records -> [upd : 0..now, del : BOOLEAN]], ids \in SUBSET Records :
        req' = [req EXCEPT ![d] = [Idle EXCEPT !.pc = "push", !.todo = todo, !.ids = ids]]
  BY DEF StartSync
<1> DEFINE q == [Idle EXCEPT !.pc = "push", !.todo = todo, !.ids = ids]
<1>2. now \in 0..MaxTime /\ now \in Nat
  BY VersionFacts DEF Inv, TypeOK
<1>3. todo \in [Records -> Version] /\ \A s \in Records : todo[s].upd <= now
  BY <1>2, VersionFacts DEF Version
<1>4. q \in RequestRow /\ q.pc = "push" /\ q.todo = todo /\ q.at = 0
  BY <1>3, IdleFacts DEF RequestRow
<1>5. req' = [req EXCEPT ![d] = q] /\ UNCHANGED <<now, db, access, cursor, has, late, raced>>
  BY <1>1 DEF StartSync
<1> HIDE DEF q
<1>6. Timely(q) /\ Covered(d, q)
  BY <1>2, <1>3, <1>4 DEF Timely, Covered
<1> QED
  BY <1>4, <1>5, <1>6, RequestStep

\* The read of an item of a push or of a tombstone: it is passed over or opened.
LEMMA OpenStep ==
    ASSUME Inv, NEW d \in Devices, NEW r \in Records,
           req' = [req EXCEPT ![d] = [req[d] EXCEPT !.pc = "write", !.open = {r}]],
           now' = now, db' = db, access' = access, cursor' = cursor, has' = has, late' = late, raced' \subseteq raced
    PROVE  Inv'
<1> DEFINE q == [req[d] EXCEPT !.pc = "write", !.open = {r}]
<1>1. req[d] \in RequestRow /\ Timely(req[d])
  BY DEF Inv, TypeOK, TimeInv
<1>2. q \in RequestRow /\ q.pc = "write" /\ q.todo = req[d].todo /\ q.at = req[d].at
  BY <1>1 DEF RequestRow
<1> HIDE DEF q
<1>3. Timely(q) /\ Covered(d, q)
  BY <1>1, <1>2 DEF Timely, Covered
<1> QED
  BY <1>2, <1>3, RequestStep DEF q

LEMMA ReadForUpsertStep ==
    ASSUME Inv, NEW d \in Devices, NEW r \in Records, ReadForUpsert(d, r)
    PROVE  Inv'
<1>1. /\ req[d].pc = "push"
      /\ now' = now /\ db' = db /\ access' = access
      /\ cursor' = cursor /\ has' = has /\ late' = late /\ raced' = raced
  BY DEF ReadForUpsert
<1>2. \/ req' = [req EXCEPT ![d] = Idle]
      \/ req' = [req EXCEPT ![d] = [req[d] EXCEPT !.pc = "write", !.open = {r}]]
      \/ req' = [req EXCEPT ![d] = Skip(req[d], r)]
  BY DEF ReadForUpsert
<1> QED
  BY <1>1, <1>2, IdleStep, OpenStep, SkipStep

LEMMA ReadForTombstoneStep ==
    ASSUME Inv, NEW d \in Devices, NEW r \in Records, ReadForTombstone(d, r)
    PROVE  Inv'
<1>1. /\ req[d].pc = "tombs"
      /\ now' = now /\ db' = db /\ access' = access
      /\ cursor' = cursor /\ has' = has /\ late' = late /\ raced' = raced
  BY DEF ReadForTombstone
<1>2. \/ req' = [req EXCEPT ![d] = [req[d] EXCEPT !.pc = "write", !.open = {r}]]
      \/ req' = [req EXCEPT ![d] = Skip(req[d], r)]
  BY DEF ReadForTombstone
<1> QED
  BY <1>1, <1>2, OpenStep, SkipStep

LEMMA StartTombstonesStep ==
    ASSUME Inv, NEW d \in Devices, StartTombstones(d)
    PROVE  Inv'
<1> DEFINE v == [upd |-> now, del |-> TRUE]
           todo == [r \in Records |-> IF r \in req[d].ids THEN v ELSE Absent]
           q == [req[d] EXCEPT !.pc = "tombs", !.at = now, !.ids = {}, !.todo = todo]
<1>1. req[d] \in RequestRow /\ now \in 0..MaxTime /\ now \in Nat
  BY VersionFacts DEF Inv, TypeOK
<1>2. v \in Version /\ v.upd = now
  BY <1>1 DEF Version
<1>5. req' = [req EXCEPT ![d] = q] /\ UNCHANGED <<now, db, access, cursor, has, late, raced>>
  BY DEF StartTombstones
<1> HIDE DEF v
<1>3. todo \in [Records -> Version] /\ \A s \in Records : todo[s].upd <= now
  BY <1>1, <1>2, VersionFacts
<1> HIDE DEF todo
<1>4. q \in RequestRow /\ q.pc = "tombs" /\ q.todo = todo /\ q.at = now
  BY <1>1, <1>3 DEF RequestRow
<1> HIDE DEF q
<1>6. Timely(q) /\ Covered(d, q)
  BY <1>1, <1>3, <1>4 DEF Timely, Covered
<1> QED
  BY <1>4, <1>5, <1>6, RequestStep

LEMMA StartPullStep ==
    ASSUME Inv, NEW d \in Devices, StartPull(d)
    PROVE  Inv'
<1> DEFINE q == [req[d] EXCEPT !.pc = "pull", !.at = now, !.open = Records]
<1>1. /\ req[d] \in RequestRow /\ now \in 0..MaxTime /\ now \in Nat
      /\ Timely(req[d]) /\ cursor[d] <= now
  BY VersionFacts DEF Inv, TypeOK, TimeInv
<1>2. req' = [req EXCEPT ![d] = q] /\ UNCHANGED <<now, db, access, cursor, has, late, raced>>
  BY DEF StartPull
<1>3. /\ q \in RequestRow /\ q.pc = "pull" /\ q.todo = req[d].todo /\ q.at = now
      /\ q.open = Records
  BY <1>1 DEF RequestRow
<1> HIDE DEF q
<1>4. Timely(q) /\ Covered(d, q)
  BY <1>1, <1>3 DEF Timely, Covered
<1> QED
  BY <1>1, <1>2, <1>3, <1>4, RequestStep

LEMMA QueryStep ==
    ASSUME Inv, NEW d \in Devices, NEW r \in Records, Query(d, r)
    PROVE  Inv'
<1> DEFINE got == IF Selected(d, r) THEN req[d].got \cup {r} ELSE req[d].got
           open == req[d].open \ {r}
           q == [req[d] EXCEPT !.open = open, !.got = got]
<1>1. /\ req[d] \in RequestRow /\ req[d].pc = "pull"
      /\ Timely(req[d]) /\ Covered(d, req[d]) /\ cursor[d] <= req[d].at
  BY DEF Inv, TypeOK, TimeInv, PullInv, Query
<1>2. req' = [req EXCEPT ![d] = q] /\ UNCHANGED <<now, db, access, cursor, has, late, raced>>
  BY <1>1 DEF Query, RequestRow
<1>3. /\ req[d].got \subseteq got /\ got \subseteq Records
      /\ d \in access /\ Shown(r) /\ db[r].upd > cursor[d] => r \in got
  BY <1>1 DEF RequestRow, Selected, IsDue
<1> HIDE DEF got
<1>4. /\ q \in RequestRow /\ q.pc = "pull" /\ q.todo = req[d].todo /\ q.at = req[d].at
      /\ q.open = req[d].open \ {r} /\ q.got = got
  BY <1>1, <1>3 DEF RequestRow
<1> HIDE DEF q, open
<1>5. d \in access /\ Exists(db[r]) /\ Shown(r) /\ r \notin has[d] /\ db[r].upd <= cursor[d] => r \in late[d]
  BY DEF Inv, MissedOnlyWhenLate, Missed
<1>6. db[r].upd \in Nat /\ cursor[d] \in Nat
  BY VersionFacts DEF Inv, TypeOK, Version
<1>7. Timely(q)
  BY <1>1, <1>4 DEF Timely
<1>8. Covered(d, q)
  BY <1>1, <1>3, <1>4, <1>5, <1>6 DEF Covered
<1> QED
  BY <1>1, <1>2, <1>4, <1>7, <1>8, RequestStep

LEMMA ReplyStep ==
    ASSUME Inv, NEW d \in Devices, Reply(d)
    PROVE  Inv'
<1>1. /\ req[d].pc = "pull" /\ req[d].open = {}
      /\ cursor' = [cursor EXCEPT ![d] = req[d].at]
      /\ has' = [has EXCEPT ![d] = has[d] \cup req[d].got]
      /\ late' = [late EXCEPT ![d] = late[d] \ req[d].got]
      /\ req' = [req EXCEPT ![d] = Idle]
      /\ now' = now /\ db' = db /\ access' = access /\ raced' = raced
  BY DEF Reply
<1>2. /\ req \in [Devices -> RequestRow] /\ cursor \in [Devices -> 0..MaxTime]
      /\ has \in [Devices -> SUBSET Records] /\ late \in [Devices -> SUBSET Records]
  BY DEF Inv, TypeOK
<1>3. /\ Covered(d, req[d]) /\ cursor[d] <= req[d].at /\ Timely(req[d])
      /\ req[d].got \subseteq Records /\ req[d].at \in 0..MaxTime
  BY <1>1, <1>2 DEF Inv, TypeOK, PullInv, TimeInv, RequestRow
<1>4. \A e \in Devices :
        /\ req'[e] = IF e = d THEN Idle ELSE req[e]
        /\ cursor'[e] = IF e = d THEN req[d].at ELSE cursor[e]
        /\ has'[e] = IF e = d THEN has[d] \cup req[d].got ELSE has[e]
        /\ late'[e] = IF e = d THEN late[d] \ req[d].got ELSE late[e]
  BY <1>1, <1>2
<1>5. TypeOK'
  BY <1>1, <1>2, <1>3, <1>4, IdleFacts DEF Inv, TypeOK
<1>6. TimeInv'
  <2>1. Timely(Idle)' /\ req[d].at <= now
    BY <1>1, <1>3, IdleFacts, VersionFacts DEF Inv, TypeOK, Timely
  <2> QED
    BY <1>1, <1>4, <2>1 DEF Inv, TimeInv, Timely
<1>7. MissedOnlyWhenLate'
  <2> SUFFICES ASSUME NEW e \in access, e \in Devices, NEW r \in Records, Missed(e, r)'
               PROVE  r \in late'[e]
    BY <1>1 DEF MissedOnlyWhenLate, Inv, TypeOK
  <2>1. CASE e = d
    BY <1>1, <1>3, <1>4, <2>1 DEF Missed, Covered, Shown
  <2>2. CASE e # d
    BY <1>1, <1>4, <2>2 DEF Missed, Inv, MissedOnlyWhenLate, Shown
  <2> QED
    BY <2>1, <2>2
<1>8. PullInv'
  BY <1>1, <1>4, IdleFacts DEF Inv, PullInv, Covered, Shown
<1> QED
  BY <1>5, <1>6, <1>7, <1>8 DEF Inv

LEMMA TickStep == Inv /\ Tick => Inv'
<1> SUFFICES ASSUME Inv, Tick PROVE Inv'
  OBVIOUS
<1>1. /\ now < MaxTime /\ now' = now + 1
      /\ db' = db /\ access' = access /\ req' = req /\ cursor' = cursor
      /\ has' = has /\ late' = late /\ raced' = raced
  BY DEF Tick
<1>2. \A r \in Records : db[r].upd \in Nat
  BY VersionFacts DEF Inv, TypeOK, Version
<1>3. \A d \in Devices : /\ cursor[d] \in Nat /\ req[d].at \in Nat
                         /\ \A r \in Records : req[d].todo[r].upd \in Nat
  <2> SUFFICES ASSUME NEW d \in Devices
               PROVE  /\ cursor[d] \in Nat /\ req[d].at \in Nat
                      /\ \A r \in Records : req[d].todo[r].upd \in Nat
    OBVIOUS
  <2>1. req[d] \in RequestRow /\ cursor[d] \in Nat
    BY VersionFacts DEF Inv, TypeOK
  <2>2. req[d].todo \in [Records -> Version] /\ req[d].at \in Nat
    BY <2>1, VersionFacts DEF RequestRow
  <2> QED
    BY <2>1, <2>2, VersionFacts DEF Version
<1>4. TypeOK'
  BY <1>1, <1>2, VersionFacts DEF Inv, TypeOK
<1>5. TimeInv'
  BY <1>1, <1>3, VersionFacts DEF Inv, TypeOK, TimeInv, Timely
<1>6. MissedOnlyWhenLate' /\ PullInv'
  BY <1>1 DEF Inv, MissedOnlyWhenLate, Missed, PullInv, Covered, Shown
<1> QED
  BY <1>4, <1>5, <1>6 DEF Inv

LEMMA GainAccessStep ==
    ASSUME Inv, NEW d \in Devices, GainAccess(d)
    PROVE  Inv'
<1> DEFINE new == {r \in Records \ has[d] : Exists(db[r]) /\ db[r].upd <= Passed(d)}
<1>1. /\ access' = access \cup {d}
      /\ late' = [late EXCEPT ![d] = late[d] \cup new]
      /\ now' = now /\ db' = db /\ req' = req /\ cursor' = cursor /\ has' = has
      /\ raced' = raced
  BY DEF GainAccess
<1>2. \A e \in Devices : late'[e] = IF e = d THEN late[d] \cup new ELSE late[e]
  BY <1>1 DEF Inv, TypeOK
<1>4. TimeInv'
  BY <1>1 DEF Inv, TimeInv, Timely
<1>5. /\ \A r \in Records : db[r].upd \in Nat
      /\ cursor[d] \in Nat /\ req[d].at \in Nat
      /\ req[d].pc = "pull" => cursor[d] <= req[d].at
  BY VersionFacts DEF Inv, TypeOK, Version, RequestRow
<1>6. \A r \in Records :
        Exists(db[r]) /\ r \notin has[d] /\ db[r].upd <= Passed(d) => r \in new
  OBVIOUS
<1>9. new \subseteq Records
  OBVIOUS
<1> HIDE DEF new
<1>3. TypeOK'
  BY <1>1, <1>2, <1>9 DEF Inv, TypeOK
<1>7. MissedOnlyWhenLate'
  <2> SUFFICES ASSUME NEW e \in access', e \in Devices, NEW r \in Records, Missed(e, r)'
               PROVE  r \in late'[e]
    BY <1>1 DEF MissedOnlyWhenLate, Inv, TypeOK
  <2>1. CASE e = d
    BY <1>1, <1>2, <1>5, <1>6, <2>1 DEF Missed, Passed
  <2>2. CASE e # d
    BY <1>1, <1>2, <2>2 DEF Missed, Inv, MissedOnlyWhenLate, Shown
  <2> QED
    BY <2>1, <2>2
<1>8. PullInv'
  <2> SUFFICES ASSUME NEW e \in Devices
               PROVE  Covered(e, req[e])'
    BY DEF PullInv
  <2>1. CASE e = d
    BY <1>1, <1>2, <1>6, <2>1 DEF Covered, Passed
  <2>2. CASE e # d
    BY <1>1, <1>2, <2>2 DEF Covered, Inv, PullInv, Shown
  <2> QED
    BY <2>1, <2>2
<1> QED
  BY <1>3, <1>4, <1>7, <1>8 DEF Inv

LEMMA LoseAccessStep ==
    ASSUME Inv, NEW d \in Devices, LoseAccess(d)
    PROVE  Inv'
<1>1. /\ access' = access \ {d}
      /\ now' = now /\ db' = db /\ req' = req /\ cursor' = cursor /\ has' = has /\ late' = late /\ raced' = raced
  BY DEF LoseAccess
<1>2. TypeOK' /\ TimeInv'
  BY <1>1 DEF Inv, TypeOK, TimeInv, Timely
<1>3. MissedOnlyWhenLate' /\ PullInv'
  BY <1>1 DEF Inv, MissedOnlyWhenLate, Missed, PullInv, Covered, Shown
<1> QED
  BY <1>2, <1>3 DEF Inv

-----------------------------------------------------------------------------
\* Commits.

\* What a request of d may have to do after a commit: nothing, or the rest of what
\* it had to do.
After(d, q) ==
    /\ q \in RequestRow
    /\ q.pc \in {"idle", "push", "tombs"}
    /\ q.at = 0 \/ q.at = req[d].at
    /\ \A s \in Records : q.todo[s].upd = 0 \/ q.todo[s] = req[d].todo[s]

\* Device d commits the records rs, and goes on with q.
Commits(d, rs, q) == rs \in SUBSET Records /\ After(d, q) /\ Store(d, rs, q)

LEMMA IdleAfter ==
    ASSUME NEW d \in Devices
    PROVE  After(d, Idle)
  BY IdleFacts, VersionFacts DEF After

LEMMA OnwardAfter ==
    ASSUME Inv, NEW d \in Devices, NEW r \in Records
    PROVE  After(d, Onward(req[d], r))
<1> DEFINE p == Skip(req[d], r)
           q == [p EXCEPT !.pc = IF req[d].at = 0 THEN "push" ELSE "tombs", !.open = {}]
<1>1. req[d] \in RequestRow
  BY DEF Inv, TypeOK
<1>2. /\ p \in RequestRow /\ p.at = req[d].at
      /\ \A s \in Records : p.todo[s] = IF s = r THEN Absent ELSE req[d].todo[s]
  BY <1>1, SkipFacts
<1>3. Onward(req[d], r) = q
  BY DEF Onward
<1> HIDE DEF p
<1>4. q \in RequestRow /\ q.pc \in {"push", "tombs"} /\ q.at = p.at /\ q.todo = p.todo
  BY <1>2 DEF RequestRow
<1> HIDE DEF q
<1> QED
  BY <1>2, <1>3, <1>4, VersionFacts DEF After

\* What a commit by device d of the records rs leaves of the requests.
LEMMA StoredRequests ==
    ASSUME Inv, NEW d \in Devices, NEW rs, NEW q, Commits(d, rs, q)
    PROVE  /\ \A e \in Devices : e # d =>
                 /\ req'[e] \in RequestRow
                 /\ req'[e].pc = req[e].pc /\ req'[e].todo = req[e].todo
                 /\ req'[e].at = req[e].at /\ req'[e].open = req[e].open
                 /\ req'[e].got = req[e].got \ rs
           /\ req'[d] = q
           /\ req' \in [Devices -> RequestRow]
<1> DEFINE less(e) == [req[e] EXCEPT !.got = req[e].got \ rs]
<1>1. req \in [Devices -> RequestRow]
  BY DEF Inv, TypeOK
<1>2. \A e \in Devices : /\ less(e) \in RequestRow
                         /\ less(e).pc = req[e].pc /\ less(e).todo = req[e].todo
                         /\ less(e).at = req[e].at /\ less(e).open = req[e].open
                         /\ less(e).got = req[e].got \ rs
  BY <1>1 DEF RequestRow
<1>3. req' = [e \in Devices |-> IF e = d THEN q ELSE less(e)]
  BY DEF Store, Commits
<1> HIDE DEF less
<1>4. q \in RequestRow
  BY DEF After, Commits
<1> QED
  BY <1>2, <1>3, <1>4

\* What it leaves of the stored versions and of the history.
LEMMA StoredVersions ==
    ASSUME Inv, NEW d \in Devices, NEW rs, NEW q, Commits(d, rs, q)
    PROVE  /\ db' \in [Records -> Version]
           /\ \A s \in Records :
                 /\ s \notin rs => db'[s] = db[s]
                 /\ s \in rs => db'[s].upd = req[d].todo[s].upd
                 /\ db[s].del => db'[s].del
                 /\ Shown(s)' => Shown(s)
           /\ has' \in [Devices -> SUBSET Records]
           /\ late' \in [Devices -> SUBSET Records]
           /\ \A e \in Devices, s \in Records :
                 /\ s \notin rs => (s \in has'[e] <=> s \in has[e]) /\ (s \in late'[e] <=> s \in late[e])
                 /\ s \in rs /\ req[d].todo[s].upd <= Passed(e) /\ s \notin has'[e] => s \in late'[e]
<1> DEFINE v == req[d].todo
<1>0. rs \subseteq Records
  BY DEF Commits
<1>1. db \in [Records -> Version] /\ v \in [Records -> Version]
  BY DEF Inv, TypeOK, RequestRow
<1>2. /\ has \in [Devices -> SUBSET Records] /\ late \in [Devices -> SUBSET Records]
  BY DEF Inv, TypeOK
<1>3. db' = [s \in Records |-> IF s \in rs THEN Merged(v[s], db[s]) ELSE db[s]]
  BY DEF Store, Commits
<1>4. \A s \in Records : /\ Merged(v[s], db[s]) \in Version /\ Merged(v[s], db[s]).upd = v[s].upd
                         /\ Merged(v[s], db[s]).del <=> v[s].del \/ db[s].del
  BY <1>1, MergedFacts
<1>5. /\ db' \in [Records -> Version]
      /\ \A s \in Records : /\ s \notin rs => db'[s] = db[s]
                            /\ s \in rs => db'[s].upd = v[s].upd
                            /\ db[s].del => db'[s].del
  BY <1>0, <1>1, <1>3, <1>4
<1>6. \A s \in Records : Shown(s)' => Shown(s)
  BY <1>5, GroupAssumption DEF Shown
<1>7. has' = [e \in Devices |-> (has[e] \ rs) \cup {s \in rs : e = d /\ db'[s] = v[s]}]
  BY DEF Store, Commits
<1>8. late' = [e \in Devices |->
                 (late[e] \ rs) \cup {s \in rs \ has'[e] : v[s].upd <= Passed(e)}]
  BY DEF Store, Commits
<1>9. /\ has' \in [Devices -> SUBSET Records]
      /\ \A e \in Devices, s \in Records : s \notin rs => (s \in has'[e] <=> s \in has[e])
  BY <1>0, <1>2, <1>7
<1>10. /\ late' \in [Devices -> SUBSET Records]
       /\ \A e \in Devices, s \in Records :
             /\ s \notin rs => (s \in late'[e] <=> s \in late[e])
             /\ s \in rs /\ v[s].upd <= Passed(e) /\ s \notin has'[e] => s \in late'[e]
  BY <1>0, <1>2, <1>8
<1> QED
  BY <1>5, <1>6, <1>9, <1>10

LEMMA StoreStep ==
    ASSUME Inv, NEW d \in Devices, NEW rs, NEW q, Commits(d, rs, q),
           now' = now, access' = access, cursor' = cursor
    PROVE  Inv'
<1> DEFINE v == req[d].todo
<1>1. /\ \A e \in Devices : req[e] \in RequestRow /\ Timely(req[e]) /\ Covered(e, req[e])
      /\ now \in Nat /\ now \in 1..MaxTime
      /\ \A s \in Records : db[s].upd <= now
      /\ \A e \in Devices : cursor[e] <= now /\ (req[e].pc = "pull" => cursor[e] <= req[e].at)
  BY VersionFacts DEF Inv, TypeOK, TimeInv, PullInv
<1>2. \A s \in Records : v[s].upd <= now /\ v[s].upd \in Nat
  <2>1. v \in [Records -> Version]
    BY <1>1 DEF RequestRow
  <2>2. \A s \in Records : v[s].upd \in Nat
    BY <2>1, VersionFacts DEF Version
  <2> QED
    BY <1>1, <2>2 DEF Timely
<1> HIDE DEF v
<1>3. \A e \in Devices : req'[e].pc = "pull" =>
          /\ e # d /\ req[e].pc = "pull" /\ req'[e].at = req[e].at
          /\ req'[e].open = req[e].open /\ req'[e].got = req[e].got \ rs
  <2>1. req'[d] = q /\ q.pc \in {"idle", "push", "tombs"}
    BY StoredRequests DEF After, Commits
  <2>2. \A e \in Devices : e # d =>
          /\ req'[e].pc = req[e].pc /\ req'[e].at = req[e].at
          /\ req'[e].open = req[e].open /\ req'[e].got = req[e].got \ rs
    BY StoredRequests
  <2> QED
    BY <2>1, <2>2
<1>4. TypeOK'
  <2>1. \A s \in Records : db'[s].upd <= now
    BY <1>1, <1>2, StoredVersions DEF v
  <2>2. \A e \in Devices : cursor[e] <= req'[e].at \/ req'[e].pc # "pull"
    BY <1>1, <1>3
  <2>3. /\ db' \in [Records -> Version] /\ has' \in [Devices -> SUBSET Records]
        /\ late' \in [Devices -> SUBSET Records] /\ req' \in [Devices -> RequestRow]
    BY StoredVersions, StoredRequests
  <2>4. raced' \subseteq Devices
    BY DEF Inv, TypeOK, Store, Commits
  <2> QED
    BY <2>1, <2>2, <2>3, <2>4 DEF Inv, TypeOK
<1>5. TimeInv'
  <2> SUFFICES ASSUME NEW e \in Devices
               PROVE  /\ cursor[e] <= now /\ req'[e].at <= now
                      /\ \A s \in Records : req'[e].todo[s].upd <= now
    BY DEF TimeInv, Timely
  <2>1. CASE e = d
    <3>1. q.at <= now
      BY <1>1 DEF Timely, After, Commits
    <3>2. \A s \in Records : q.todo[s].upd <= now
      <4> SUFFICES ASSUME NEW s \in Records PROVE q.todo[s].upd <= now
        OBVIOUS
      <4>1. q.todo[s].upd = 0 \/ q.todo[s] = req[d].todo[s]
        BY DEF After, Commits
      <4> QED
        BY <1>1, <4>1 DEF Timely
    <3>3. req'[d] = q
      BY StoredRequests
    <3> QED
      BY <1>1, <2>1, <3>1, <3>2, <3>3
  <2>2. CASE e # d
    <3>1. req'[e].at = req[e].at /\ req'[e].todo = req[e].todo
      BY <2>2, StoredRequests
    <3> QED
      BY <1>1, <3>1 DEF Timely
  <2> QED
    BY <2>1, <2>2
<1>6. MissedOnlyWhenLate'
  <2> SUFFICES ASSUME NEW e \in access, e \in Devices, NEW s \in Records, Missed(e, s)'
               PROVE  s \in late'[e]
    BY DEF MissedOnlyWhenLate, Inv, TypeOK
  <2>1. CASE s \in rs
    <3>1. v[s].upd <= cursor[e] /\ s \notin has'[e]
      BY <2>1, StoredVersions DEF Missed, v
    <3>2. cursor[e] \in Nat /\ req[e].at \in Nat
      BY <1>1, VersionFacts DEF Inv, TypeOK, RequestRow
    <3>3. v[s].upd <= Passed(e)
      BY <1>1, <1>2, <3>1, <3>2 DEF Passed
    <3> QED
      BY <2>1, <3>1, <3>3, StoredVersions DEF v
  <2>2. CASE s \notin rs
    <3>1. Missed(e, s)
      BY <2>2, StoredVersions DEF Missed
    <3>2. s \in late[e]
      BY <3>1 DEF Inv, MissedOnlyWhenLate
    <3> QED
      BY <2>2, <3>2, StoredVersions
  <2> QED
    BY <2>1, <2>2
<1>7. PullInv'
  <2> SUFFICES ASSUME NEW e \in Devices, req'[e].pc = "pull", e \in access, NEW s \in Records,
                      Exists(db'[s]), Shown(s)', s \notin has'[e], db'[s].upd <= req'[e].at
               PROVE  s \in late'[e] \/ s \in req'[e].got \/ s \in req'[e].open
    BY DEF PullInv, Covered
  <2>1. CASE s \in rs
    <3>1. v[s].upd <= Passed(e)
      BY <1>3, <2>1, StoredVersions DEF Passed, v
    <3> QED
      BY <2>1, <3>1, StoredVersions DEF v
  <2>2. CASE s \notin rs
    <3>1. /\ db'[s] = db[s] /\ Shown(s) /\ s \notin has[e]
          /\ s \in late'[e] <=> s \in late[e]
      BY <2>2, StoredVersions
    <3>2. s \in late[e] \/ s \in req[e].got \/ s \in req[e].open
      BY <1>1, <1>3, <3>1 DEF Covered
    <3> QED
      BY <1>3, <2>2, <3>1, <3>2
  <2> QED
    BY <2>1, <2>2
<1> QED
  BY <1>4, <1>5, <1>6, <1>7 DEF Inv

\* The commits of both kinds of writer are stores.
LEMMA RestCommitStores ==
    ASSUME NEW d \in Devices, RestCommit(d)
    PROVE  \E rs : Commits(d, rs, Idle)
<1> DEFINE rs == {r \in Records : Exists(req[d].todo[r])}
<1>1. rs \in SUBSET Records
  OBVIOUS
<1>2. Store(d, rs, Idle)
  BY DEF RestCommit
<1> HIDE DEF rs
<1>3. Commits(d, rs, Idle)
  BY <1>1, <1>2, IdleAfter DEF Commits
<1> QED
  BY <1>3

LEMMA WriteStores ==
    ASSUME Inv, NEW d \in Devices, NEW r \in Records, Write(d, r)
    PROVE  Commits(d, {r}, Onward(req[d], r))
  BY OnwardAfter DEF Write, Commits

-----------------------------------------------------------------------------
\* The inductive invariant, and what it gives.

LEMMA InvInit == Init => Inv
<1> SUFFICES ASSUME Init PROVE Inv
  OBVIOUS
<1> DEFINE v == [upd |-> 1, del |-> FALSE]
<1>1. v \in Version /\ v.upd = 1
  BY MaxTimeAssumption DEF Version
<1>2. db = [Nothing EXCEPT ![Group] = v]
  BY DEF Init
<1> HIDE DEF v
<1>3. db \in [Records -> Version] /\ \A r \in Records : db[r].upd \in {0, 1}
  BY <1>1, <1>2, VersionFacts, GroupAssumption
<1>4. \A r \in Records : db[r].upd <= now
  <2>1. now = 1 /\ 0 <= 1 /\ 1 <= 1
    BY DEF Init
  <2> QED
    BY <1>3, <2>1, Zenon
<1>5. TypeOK
  BY <1>3, <1>4, IdleFacts, VersionFacts, MaxTimeAssumption DEF Init, TypeOK
<1>6. TimeInv
  <2>1. /\ now = 1
        /\ \A d \in Devices : cursor[d] = 0 /\ req[d] = Idle
    BY DEF Init
  <2>2. Idle.at = 0 /\ \A r \in Records : Idle.todo[r].upd = 0
    BY IdleFacts, VersionFacts
  <2>3. Timely(Idle)
    BY <2>1, <2>2 DEF Timely
  <2>4. \A d \in Devices : cursor[d] <= now
    <3>1. 0 <= 1
      OBVIOUS
    <3> QED
      BY <2>1, <3>1, Zenon
  <2>5. \A d \in Devices : Timely(req[d])
    BY <2>1, <2>3
  <2> QED
    BY <2>4, <2>5 DEF TimeInv
<1>7. MissedOnlyWhenLate
  <2>1. \A d \in Devices : cursor[d] = 0
    BY DEF Init
  <2> QED
    BY <1>3, <1>5, <2>1 DEF TypeOK, MissedOnlyWhenLate, Missed, Exists
<1>8. PullInv
  BY IdleFacts DEF Init, PullInv, Covered
<1> QED
  BY <1>5, <1>6, <1>7, <1>8 DEF Inv

LEMMA InvStep == Inv /\ [Next]_vars => Inv'
<1> SUFFICES ASSUME Inv, [Next]_vars PROVE Inv'
  OBVIOUS
<1>1. CASE Tick
  BY <1>1, TickStep
<1>2. ASSUME NEW d \in Devices, GainAccess(d) \/ LoseAccess(d)
      PROVE  Inv'
  BY <1>2, GainAccessStep, LoseAccessStep
<1>3. ASSUME NEW d \in Devices, StartSync(d)
      PROVE  Inv'
  BY <1>3, StartSyncStep
<1>4. ASSUME NEW d \in Devices, Abort(d)
      PROVE  Inv'
  BY <1>4, IdleStep DEF Abort
<1>5. ASSUME NEW d \in Devices, StartTombstones(d) \/ StartPull(d) \/ Reply(d)
      PROVE  Inv'
  BY <1>5, StartTombstonesStep, StartPullStep, ReplyStep
<1>6. ASSUME NEW d \in Devices, NEW r \in Records,
             ReadForUpsert(d, r) \/ ReadForTombstone(d, r) \/ Query(d, r)
      PROVE  Inv'
  BY <1>6, ReadForUpsertStep, ReadForTombstoneStep, QueryStep
<1>7. ASSUME NEW d \in Devices, NEW r \in Records, Write(d, r)
      PROVE  Inv'
  BY <1>7, WriteStores, StoreStep DEF Write
<1>8. ASSUME NEW d \in Devices, RestCommit(d)
      PROVE  Inv'
  <2>1. PICK rs : Commits(d, rs, Idle)
    BY <1>8, RestCommitStores
  <2> QED
    BY <1>8, <2>1, StoreStep DEF RestCommit
<1>9. ASSUME NEW d \in Devices, NEW r \in Records, NEW del \in BOOLEAN, RestBegin(d, r, del)
      PROVE  Inv'
  BY <1>9, RestBeginStep
<1>10. ASSUME NEW d \in Devices, DeleteGroup(d)
       PROVE  Inv'
  BY <1>10, DeleteGroupStep
<1>11. ASSUME NEW d \in Devices, NEW r \in Records, LoadForDeletion(d, r)
       PROVE  Inv'
  BY <1>11, LoadForDeletionStep
<1>12. CASE UNCHANGED vars
  BY <1>12 DEF vars, Inv, TypeOK, TimeInv, Timely, MissedOnlyWhenLate, Missed, PullInv, Covered, Shown
<1> QED
  BY <1>1, <1>2, <1>3, <1>4, <1>5, <1>6, <1>7, <1>8, <1>9, <1>10, <1>11, <1>12
     DEF Next, Request

LEMMA InvAlways == Spec => []Inv
  BY InvInit, InvStep, PTL DEF Spec

\* Versions, requests and cursors are well formed, and no stamp is ahead of the
\* clock.
THEOREM SyncTypeCorrect == Spec => []TypeOK
<1>1. Inv => TypeOK
  BY DEF Inv
<1> QED
  BY <1>1, InvAlways, PTL

\* However requests overlap, die and are repeated, a device misses a change to the
\* group, or to something in a group that is not deleted, only if the change became
\* visible to it with a stamp that its cursor had already passed.
THEOREM PullsAreComplete == Spec => []MissedOnlyWhenLate
<1>1. Inv => MissedOnlyWhenLate
  BY DEF Inv
<1> QED
  BY <1>1, InvAlways, PTL

-----------------------------------------------------------------------------
\* What a commit may do to the stored version.

\* Only commits change the database.
LEMMA OnlyStoresChange ==
    ASSUME [Next]_vars, db' # db
    PROVE  \E d \in Devices : RestCommit(d) \/ \E r \in Records : Write(d, r)
<1>1. CASE UNCHANGED vars
  BY <1>1 DEF vars
<1> QED
  BY <1>1 DEF Next, Request, Tick, GainAccess, LoseAccess, StartSync, Abort, StartTombstones,
              StartPull, Reply, ReadForUpsert, ReadForTombstone, Query, RestBegin, DeleteGroup,
              LoadForDeletion

\* A deletion survives every later push, patch and tombstone.
THEOREM DeletionsStay == Spec => DeletedStays
<1>1. Inv /\ [Next]_vars => [\A r \in Records : db[r].del => db'[r].del]_vars
  <2> SUFFICES ASSUME Inv, [Next]_vars, NEW r \in Records, db[r].del
               PROVE  db'[r].del
    OBVIOUS
  <2>1. CASE db' = db
    BY <2>1
  <2>2. ASSUME NEW d \in Devices, RestCommit(d)
        PROVE  db'[r].del
    <3>1. PICK rs : Commits(d, rs, Idle)
      BY <2>2, RestCommitStores
    <3> QED
      BY <3>1, StoredVersions
  <2>3. ASSUME NEW d \in Devices, NEW s \in Records, Write(d, s)
        PROVE  db'[r].del
    BY <2>3, WriteStores, StoredVersions
  <2> QED
    BY <2>1, <2>2, <2>3, OnlyStoresChange
<1> QED
  BY <1>1, InvAlways, PTL DEF Spec, DeletedStays

-----------------------------------------------------------------------------
\* Pushes.

\* What a request is about to write is newer than what is stored, unless the record
\* has been written by another one since.
WriteInv ==
    \A d \in Devices \ raced : req[d].pc = "write" =>
        \A r \in req[d].open : req[d].todo[r].upd > db[r].upd

LEMMA NoWriterStep ==
    ASSUME Inv, WriteInv, NEW d \in Devices, NEW q,
           q.pc # "write", req' = [req EXCEPT ![d] = q], db' = db, raced \subseteq raced' \cup {d}
    PROVE  WriteInv'
<1>1. \A e \in Devices : req'[e] = IF e = d THEN q ELSE req[e]
  BY DEF Inv, TypeOK
<1> QED
  BY <1>1 DEF WriteInv

LEMMA OpenWriterStep ==
    ASSUME Inv, WriteInv, NEW d \in Devices, NEW r \in Records,
           IsNewer(req[d].todo[r], db[r]),
           req' = [req EXCEPT ![d] = [req[d] EXCEPT !.pc = "write", !.open = {r}]],
           db' = db, raced' = raced
    PROVE  WriteInv'
<1> DEFINE q == [req[d] EXCEPT !.pc = "write", !.open = {r}]
<1>1. req[d] \in RequestRow
  BY DEF Inv, TypeOK
<1>2. q.pc = "write" /\ q.open = {r} /\ q.todo = req[d].todo
  BY <1>1 DEF RequestRow
<1>3. \A e \in Devices : req'[e] = IF e = d THEN q ELSE req[e]
  BY DEF Inv, TypeOK
<1> HIDE DEF q
<1> QED
  BY <1>2, <1>3 DEF WriteInv, IsNewer

\* A commit of d spoils the comparison of every request that is about to write one
\* of the same records, and of no other.
LEMMA StoreWriterStep ==
    ASSUME Inv, WriteInv, NEW d \in Devices, NEW rs, NEW q, Commits(d, rs, q)
    PROVE  WriteInv'
<1>1. raced' = (raced \ {d}) \cup {e \in Devices \ {d} : req[e].pc = "write" /\ req[e].open \cap rs # {}}
  BY DEF Store, Commits
<1>2. req'[d].pc # "write"
  BY StoredRequests DEF After, Commits
<1>3. ASSUME NEW e \in Devices \ {d}, e \notin raced', req'[e].pc = "write", NEW s \in req'[e].open
      PROVE  req'[e].todo[s].upd > db'[s].upd
  <2>1. /\ req[e].pc = "write" /\ req'[e].todo = req[e].todo
        /\ s \in req[e].open /\ req[e] \in RequestRow
    BY <1>3, StoredRequests DEF Inv, TypeOK
  <2>2. e \notin raced /\ s \notin rs /\ s \in Records
    BY <1>1, <1>3, <2>1 DEF RequestRow
  <2>3. db'[s] = db[s]
    BY <2>2, StoredVersions
  <2> QED
    BY <2>1, <2>2, <2>3 DEF WriteInv
<1> QED
  BY <1>2, <1>3 DEF WriteInv

LEMMA WriteInvStep == Inv /\ WriteInv /\ [Next]_vars => WriteInv'
<1> SUFFICES ASSUME Inv, WriteInv, [Next]_vars PROVE WriteInv'
  OBVIOUS
<1>1. \A d \in Devices : req[d] \in RequestRow
  BY DEF Inv, TypeOK
<1>2. CASE Tick
  BY <1>2 DEF Tick, WriteInv
<1>3. ASSUME NEW d \in Devices, GainAccess(d) \/ LoseAccess(d)
      PROVE  WriteInv'
  BY <1>3 DEF GainAccess, LoseAccess, WriteInv
<1>4. ASSUME NEW d \in Devices, StartSync(d)
      PROVE  WriteInv'
  <2>1. PICK todo, ids :
          req' = [req EXCEPT ![d] = [Idle EXCEPT !.pc = "push", !.todo = todo, !.ids = ids]]
    BY <1>4 DEF StartSync
  <2>2. [Idle EXCEPT !.pc = "push", !.todo = todo, !.ids = ids].pc # "write"
    BY DEF Idle
  <2>3. db' = db /\ raced' = raced
    BY <1>4 DEF StartSync
  <2> QED
    BY <2>1, <2>2, <2>3, NoWriterStep
<1>5. ASSUME NEW d \in Devices, NEW r \in Records, NEW del \in BOOLEAN, RestBegin(d, r, del)
      PROVE  WriteInv'
  <2> DEFINE todo == [Nothing EXCEPT ![r] = [upd |-> now, del |-> del]]
             q == [Idle EXCEPT !.pc = "rest", !.todo = todo]
  <2>1. req' = [req EXCEPT ![d] = q] /\ db' = db /\ raced' = raced
    BY <1>5 DEF RestBegin
  <2> HIDE DEF todo
  <2>2. q.pc # "write"
    BY DEF Idle
  <2> QED
    BY <2>1, <2>2, NoWriterStep
<1>6. ASSUME NEW d \in Devices, Abort(d) \/ Reply(d)
      PROVE  WriteInv'
  BY <1>6, IdleFacts, NoWriterStep DEF Abort, Reply
<1>7. ASSUME NEW d \in Devices, StartTombstones(d)
      PROVE  WriteInv'
  <2> DEFINE todo == [r \in Records |-> IF r \in req[d].ids THEN [upd |-> now, del |-> TRUE] ELSE Absent]
             q == [req[d] EXCEPT !.pc = "tombs", !.at = now, !.ids = {}, !.todo = todo]
  <2>1. req' = [req EXCEPT ![d] = q] /\ db' = db /\ raced' = raced
    BY <1>7 DEF StartTombstones
  <2> HIDE DEF todo
  <2>2. q.pc # "write"
    BY <1>1 DEF RequestRow
  <2> QED
    BY <2>1, <2>2, NoWriterStep
<1>8. ASSUME NEW d \in Devices, StartPull(d)
      PROVE  WriteInv'
  <2> DEFINE q == [req[d] EXCEPT !.pc = "pull", !.at = now, !.open = Records]
  <2>1. req' = [req EXCEPT ![d] = q] /\ db' = db /\ raced' = raced /\ q.pc # "write"
    BY <1>1, <1>8 DEF StartPull, RequestRow
  <2> QED
    BY <2>1, NoWriterStep
<1>9. ASSUME NEW d \in Devices, NEW r \in Records, Query(d, r)
      PROVE  WriteInv'
  <2> DEFINE got == IF Selected(d, r) THEN req[d].got \cup {r} ELSE req[d].got
             q == [req[d] EXCEPT !.open = req[d].open \ {r}, !.got = got]
  <2>1. req' = [req EXCEPT ![d] = q] /\ db' = db /\ raced' = raced /\ req[d].pc = "pull"
    BY <1>1, <1>9 DEF Query, RequestRow
  <2> HIDE DEF got
  <2>2. q.pc # "write"
    BY <1>1, <2>1 DEF RequestRow
  <2> QED
    BY <2>1, <2>2, NoWriterStep
<1>10. ASSUME NEW d \in Devices, NEW r \in Records,
              ReadForUpsert(d, r) \/ ReadForTombstone(d, r)
       PROVE  WriteInv'
  <2>1. req[d].pc # "write" /\ db' = db /\ raced' = raced
    BY <1>10 DEF ReadForUpsert, ReadForTombstone
  <2>2. \/ req' = [req EXCEPT ![d] = Idle]
        \/ req' = [req EXCEPT ![d] = Skip(req[d], r)]
        \/ /\ req' = [req EXCEPT ![d] = [req[d] EXCEPT !.pc = "write", !.open = {r}]]
           /\ IsNewer(req[d].todo[r], db[r])
    BY <1>10 DEF ReadForUpsert, ReadForTombstone
  <2>3. Skip(req[d], r).pc # "write"
    BY <1>1, <2>1, SkipFacts
  <2> QED
    BY <2>1, <2>2, <2>3, IdleFacts, NoWriterStep, OpenWriterStep
<1>11. ASSUME NEW d \in Devices, NEW r \in Records, Write(d, r)
       PROVE  WriteInv'
  BY <1>11, WriteStores, StoreWriterStep
<1>12. ASSUME NEW d \in Devices, RestCommit(d)
       PROVE  WriteInv'
  BY <1>12, RestCommitStores, StoreWriterStep
<1>13. ASSUME NEW d \in Devices, DeleteGroup(d)
       PROVE  WriteInv'
  <2> DEFINE todo == [Nothing EXCEPT ![Group] = [upd |-> now, del |-> TRUE]]
             q == [Idle EXCEPT !.pc = "rest", !.open = Records \ {Group}, !.todo = todo]
  <2>1. req' = [req EXCEPT ![d] = q] /\ db' = db /\ raced' = raced
    BY <1>13 DEF DeleteGroup
  <2> HIDE DEF todo
  <2>2. q.pc # "write"
    BY DEF Idle
  <2> QED
    BY <2>1, <2>2, NoWriterStep
<1>14. ASSUME NEW d \in Devices, NEW r \in Records, LoadForDeletion(d, r)
       PROVE  WriteInv'
  <2> DEFINE todo == [req[d].todo EXCEPT ![r] = IF Exists(db[r]) THEN req[d].todo[Group] ELSE Absent]
             q == [req[d] EXCEPT !.open = req[d].open \ {r}, !.todo = todo]
  <2>1. req' = [req EXCEPT ![d] = q] /\ db' = db /\ raced' = raced /\ req[d].pc = "rest"
    BY <1>14 DEF LoadForDeletion
  <2> HIDE DEF todo
  <2>2. q.pc # "write"
    BY <1>1, <2>1 DEF RequestRow
  <2> QED
    BY <2>1, <2>2, NoWriterStep
<1>15. CASE UNCHANGED vars
  BY <1>15 DEF vars, WriteInv
<1> QED
  BY <1>2, <1>3, <1>4, <1>5, <1>6, <1>7, <1>8, <1>9, <1>10, <1>11, <1>12, <1>13, <1>14, <1>15
     DEF Next, Request

\* A push replaces a stored version only with a newer one, unless another request
\* has written the record between the push's comparison and its write.
THEOREM PushesWin == Spec => RegressesOnlyWhenRaced
<1>1. Init => WriteInv
  BY IdleFacts DEF Init, WriteInv
<1>2. Inv /\ WriteInv /\ [Next]_vars =>
        [\A d \in Devices \ raced, r \in Records :
            req[d].pc = "write" /\ req'[d].pc # "write" /\ db'[r] # db[r] => db'[r].upd > db[r].upd]_vars
  <2> SUFFICES ASSUME Inv, WriteInv, [Next]_vars, NEW d \in Devices \ raced, NEW r \in Records,
                      req[d].pc = "write", req'[d].pc # "write", db'[r] # db[r]
               PROVE  db'[r].upd > db[r].upd
    OBVIOUS
  <2>1. PICK e \in Devices : RestCommit(e) \/ \E s \in Records : Write(e, s)
    BY OnlyStoresChange
  <2>2. \E rs, q : Commits(e, rs, q)
    <3>1. CASE RestCommit(e)
      BY <3>1, RestCommitStores
    <3>2. ASSUME NEW s \in Records, Write(e, s)
          PROVE  \E rs, q : Commits(e, rs, q)
      BY <3>2, WriteStores
    <3> QED
      BY <2>1, <3>1, <3>2
  <2>3. e = d
    <3>1. PICK rs, q : Commits(e, rs, q)
      BY <2>2
    <3> QED
      BY <3>1, StoredRequests
  <2>4. PICK s \in Records : Write(d, s)
    BY <2>1, <2>3 DEF RestCommit
  <2>5. Commits(d, {s}, Onward(req[d], s))
    BY <2>4, WriteStores
  <2>6. r = s /\ db'[r].upd = req[d].todo[r].upd
    <3>1. /\ r \notin {s} => db'[r] = db[r]
          /\ r \in {s} => db'[r].upd = req[d].todo[r].upd
      BY <2>5, StoredVersions
    <3> QED
      BY <3>1
  <2> QED
    BY <2>4, <2>6 DEF Write, WriteInv
<1> QED
  BY <1>1, <1>2, WriteInvStep, InvAlways, PTL DEF Spec, RegressesOnlyWhenRaced

=============================================================================
