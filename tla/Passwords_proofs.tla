-------------------------- MODULE Passwords_proofs --------------------------
(***************************************************************************)
(* Proofs about Sessions and about PasswordReset, each for any values of   *)
(* its constants.                                                          *)
(*                                                                         *)
(* Of Sessions: SessionTypeInv adds to TypeOK that what is being refreshed *)
(* is on record.  RaceInv says of requests under way what                  *)
(* SurvivorsHaveRaced says of sessions, and what a reset between its query *)
(* and its commit knows.  SerialInv is what one request at a time gives.   *)
(*                                                                         *)
(* Of PasswordReset: TypeInv adds to TypeOK what each request rests on.    *)
(* AloneInv is what requests that come one at a time leave behind: what    *)
(* the one under way has read still holds (OneRequest), a row's code is    *)
(* its own and has had no more wrong guesses than are counted (CodesCount),*)
(* and an open row has expired before the next was asked for (OpenExpire). *)
(* From both follows which steps of OneTimeCodes the steps are             *)
(* (PromiseStep): LiveCodes are the codes that count.                      *)
(***************************************************************************)
EXTENDS Passwords, WellFoundedInduction, TLAPS

-----------------------------------------------------------------------------
(***************************************************************************)
(* Sessions.                                                               *)
(***************************************************************************)

\* The types of the rows of the two tables, as the parts of TypeOK.
SessionRow == [revoked : BOOLEAN, version : 0..password,
               from : DOMAIN session \cup {NoSession}, raced : 0..lastReset]

SessionRequestRow ==
    [op : {"login", "refresh", "change", "complete", "confirm", "gathered"},
     session : Sessions \cup {NoSession}, version : 0..password,
     ends : SUBSET Sessions, known : SUBSET Sessions, raced : 0..lastReset]

SessionsOK ==
    /\ DOMAIN session \subseteq Sessions
    /\ \A s \in DOMAIN session : session[s] \in SessionRow
    /\ \A s \in DOMAIN session :
          session[s].from # NoSession => session[session[s].from].revoked

SessionRequestsOK ==
    /\ DOMAIN work \subseteq Requests
    /\ \A q \in DOMAIN work : work[q] \in SessionRequestRow
    /\ \A q \in DOMAIN work : work[q].op = "refresh" => work[q].session \in DOMAIN session

ScalarsOK ==
    /\ password \in 0..MaxVersion
    /\ invited \in BOOLEAN
    /\ resettable \in BOOLEAN
    /\ single \in BOOLEAN
    /\ lastReset \in 0..password

SessionTypeInv == ScalarsOK /\ SessionsOK /\ SessionRequestsOK

LEMMA SessionTypeInvTypeOK == SessionTypeInv => S!TypeOK
BY NoSessionAssumption DEF SessionTypeInv, ScalarsOK, SessionsOK, SessionRequestsOK, S!TypeOK,
                           SessionRow, SessionRequestRow, S!LiveSessions

-----------------------------------------------------------------------------
\* What the parts of the actions do.

LEMMA SessionBeginFacts ==
    ASSUME NEW q, NEW r, S!Begin(q, r)
    PROVE  /\ q \in Requests /\ q \notin DOMAIN work /\ DOMAIN work' = DOMAIN work \cup {q}
           /\ work'[q] = r
           /\ \A p \in DOMAIN work : work'[p] = work[p]
           /\ single' = (single /\ work = <<>>)
BY DEF S!Begin

LEMMA SessionEndFacts ==
    ASSUME NEW q, S!End(q)
    PROVE  /\ DOMAIN work' = DOMAIN work \ {q}
           /\ \A p \in DOMAIN work' : work'[p] = work[p]
           /\ single' = single
BY DEF S!End

LEMMA IssueFacts ==
    ASSUME NEW s, NEW version, NEW from, NEW raced, NEW table,
           S!Issue(s, version, from, raced, table)
    PROVE  /\ s \in Sessions /\ s \notin DOMAIN session
           /\ DOMAIN session' = DOMAIN table \cup {s}
           /\ session'[s] = [revoked |-> FALSE, version |-> version, from |-> from, raced |-> raced]
           /\ \A t \in DOMAIN table : t # s => session'[t] = table[t]
BY DEF S!Issue

\* How a table of sessions may differ from `session`.
Revokes(table, ended) ==
    /\ DOMAIN table = DOMAIN session
    /\ \A t \in DOMAIN session :
          /\ table[t] = [revoked |-> table[t].revoked, version |-> session[t].version,
                         from |-> session[t].from, raced |-> table[t].raced]
          /\ table[t].revoked <=> session[t].revoked \/ t \in ended
          /\ table[t].revoked \in BOOLEAN

LEMMA RevokedFacts ==
    ASSUME SessionsOK, NEW ended
    PROVE  /\ Revokes(S!Revoked(ended), ended)
           /\ \A t \in DOMAIN session : S!Revoked(ended)[t].raced = session[t].raced
BY DEF S!Revoked, Revokes, SessionsOK, SessionRow

LEMMA MaxOfTwo ==
    ASSUME NEW a \in Nat, NEW b \in Nat
    PROVE  S!Max({a, b}) = IF a >= b THEN a ELSE b
BY SMT DEF S!Max

-----------------------------------------------------------------------------
\* Type correctness.

\* How the counters may move.
SessionGrows == /\ password \in Nat /\ password' \in Nat /\ password <= password'
         /\ lastReset \in Nat /\ lastReset' \in Nat /\ lastReset <= lastReset' /\ lastReset' <= password'

LEMMA SessionBeginKeepsTypes ==
    ASSUME SessionTypeInv, NEW q, NEW r, S!Begin(q, r), r \in SessionRequestRow,
           r.op = "refresh" => r.session \in DOMAIN session,
           UNCHANGED <<password, invited, resettable, session, lastReset>>
    PROVE  SessionTypeInv'
<1>1. ScalarsOK' /\ SessionsOK'
  BY SessionBeginFacts DEF SessionTypeInv, ScalarsOK, SessionsOK, SessionRow
<1>2. SessionRequestRow' = SessionRequestRow
  BY DEF SessionRequestRow
<1>3. /\ q \in Requests /\ DOMAIN work' = DOMAIN work \cup {q} /\ work'[q] = r
      /\ \A p \in DOMAIN work : work'[p] = work[p]
  BY SessionBeginFacts
<1>4. SessionRequestsOK'
  BY <1>2, <1>3 DEF SessionTypeInv, SessionRequestsOK
<1> QED
  BY <1>1, <1>4 DEF SessionTypeInv

LEMMA SessionEndKeepsTypes ==
    ASSUME SessionTypeInv, NEW q, S!End(q), SessionGrows, DOMAIN session \subseteq DOMAIN session'
    PROVE  SessionRequestsOK'
<1>1. DOMAIN work' \subseteq DOMAIN work /\ \A p \in DOMAIN work' : work'[p] = work[p]
  BY SessionEndFacts
<1>2. SessionRequestRow \subseteq SessionRequestRow'
  BY DEF SessionRequestRow, SessionGrows
<1> QED
  BY <1>1, <1>2 DEF SessionTypeInv, SessionRequestsOK

LEMMA IssueKeepsTypes ==
    ASSUME SessionTypeInv, SessionGrows, NEW s, NEW version \in 0..password', NEW from, NEW raced \in 0..lastReset',
           NEW table, NEW ended, Revokes(table, ended),
           \A t \in DOMAIN session : table[t].raced \in 0..lastReset',
           from = NoSession \/ (from \in DOMAIN session /\ table[from].revoked),
           S!Issue(s, version, from, raced, table)
    PROVE  SessionsOK'
<1>0. DOMAIN table = DOMAIN session
  BY DEF Revokes
<1>1. /\ s \in Sessions /\ s \notin DOMAIN session
      /\ DOMAIN session' = DOMAIN session \cup {s}
      /\ session'[s] = [revoked |-> FALSE, version |-> version, from |-> from, raced |-> raced]
      /\ \A t \in DOMAIN session : session'[t] = table[t]
  BY <1>0 DEF S!Issue
<1>2. \A t \in DOMAIN session : session[t] \in SessionRow
  BY DEF SessionTypeInv, SessionsOK
<1>3. \A t \in DOMAIN session :
         /\ table[t] \in SessionRow'
         /\ table[t].from = session[t].from
         /\ session[t].revoked => table[t].revoked
  <2> SUFFICES ASSUME NEW t \in DOMAIN session
               PROVE  /\ table[t] \in SessionRow'
                      /\ table[t].from = session[t].from
                      /\ session[t].revoked => table[t].revoked
    OBVIOUS
  <2>1. /\ table[t] = [revoked |-> table[t].revoked, version |-> session[t].version,
                       from |-> session[t].from, raced |-> table[t].raced]
        /\ table[t].revoked <=> session[t].revoked \/ t \in ended
        /\ table[t].revoked \in BOOLEAN
    BY DEF Revokes
  <2>2. session[t].version \in 0..password' /\ session[t].from \in DOMAIN session' \cup {NoSession}
    BY <1>1, <1>2 DEF SessionRow, SessionGrows
  <2> QED
    BY <2>1, <2>2 DEF SessionRow
<1>4. session'[s] \in SessionRow'
  BY <1>1 DEF SessionRow
<1>5. \A t \in DOMAIN session : session[t].from # NoSession =>
         session[t].from \in DOMAIN session /\ session[session[t].from].revoked
  BY <1>2 DEF SessionTypeInv, SessionsOK, SessionRow
<1>6. \A t \in DOMAIN session' : session'[t].from # NoSession => session'[session'[t].from].revoked
  BY <1>1, <1>3, <1>5
<1> QED
  BY <1>1, <1>3, <1>4, <1>6 DEF SessionTypeInv, SessionsOK

LEMMA NothingRevoked ==
    ASSUME SessionsOK
    PROVE  Revokes(session, {})
BY DEF Revokes, SessionsOK, SessionRow

\* The table a reset commits, before its own session is added.
ResetTable(ended, known, v) ==
    [t \in DOMAIN session |-> [S!Revoked(ended)[t] EXCEPT !.raced = IF t \in known THEN @ ELSE v]]

LEMMA ResetTableFacts ==
    ASSUME SessionsOK, NEW ended, NEW known, NEW v
    PROVE  /\ Revokes(ResetTable(ended, known, v), ended)
           /\ \A t \in DOMAIN session :
                 ResetTable(ended, known, v)[t].raced = IF t \in known THEN session[t].raced ELSE v
<1>1. /\ Revokes(S!Revoked(ended), ended)
      /\ \A t \in DOMAIN session : S!Revoked(ended)[t].raced = session[t].raced
  BY RevokedFacts
<1>2. \A t \in DOMAIN session :
         ResetTable(ended, known, v)[t] =
            [revoked |-> S!Revoked(ended)[t].revoked, version |-> session[t].version,
             from |-> session[t].from,
             raced |-> IF t \in known THEN session[t].raced ELSE v]
  BY <1>1 DEF Revokes, ResetTable
<1>3. DOMAIN ResetTable(ended, known, v) = DOMAIN session
  BY DEF ResetTable
<1> QED
  BY <1>1, <1>2, <1>3 DEF Revokes

LEMMA SessionTypeInvInit == S!Init => SessionTypeInv
<1> SUFFICES ASSUME S!Init PROVE SessionTypeInv
  OBVIOUS
<1>1. DOMAIN session = {} /\ DOMAIN work = {}
  BY DEF S!Init
<1>2. ScalarsOK
  <2>1. password = 0 /\ lastReset = 0 /\ 0 \in 0..0 /\ 0 \in 0..MaxVersion
    BY MaxVersionAssumption DEF S!Init
  <2> QED
    BY <2>1 DEF S!Init, ScalarsOK
<1> QED
  BY <1>1, <1>2 DEF SessionTypeInv, SessionsOK, SessionRequestsOK

LEMMA SessionTypeInvStep == SessionTypeInv /\ [S!Next]_S!vars => SessionTypeInv'
<1> SUFFICES ASSUME SessionTypeInv, [S!Next]_S!vars PROVE SessionTypeInv'
  OBVIOUS
<1>0. password \in Nat /\ lastReset \in Nat /\ lastReset <= password /\ MaxVersion \in Nat
  BY MaxVersionAssumption DEF SessionTypeInv, ScalarsOK
<1>a. \A q \in DOMAIN work : work[q] \in SessionRequestRow
  BY DEF SessionTypeInv, SessionRequestsOK
<1>1. ASSUME NEW q \in Requests, S!LoginBegin(q) \/ S!ChangeBegin(q) \/ S!CompleteBegin(q) \/ S!ConfirmBegin(q)
      PROVE  SessionTypeInv'
  <2>1. PICK op \in {"login", "change", "complete", "confirm"} :
           S!Begin(q, S!Reading(op, NoSession, password))
    BY <1>1 DEF S!LoginBegin, S!ChangeBegin, S!CompleteBegin, S!ConfirmBegin
  <2>2. S!Reading(op, NoSession, password) \in SessionRequestRow /\ S!Reading(op, NoSession, password).op # "refresh"
    BY <1>0 DEF S!Reading, SessionRequestRow
  <2>3. UNCHANGED <<password, invited, resettable, session, lastReset>>
    BY <1>1 DEF S!LoginBegin, S!ChangeBegin, S!CompleteBegin, S!ConfirmBegin
  <2> QED
    BY <2>1, <2>2, <2>3, SessionBeginKeepsTypes
<1>2. ASSUME NEW q \in Requests, NEW s \in Sessions, S!RefreshBegin(q, s)
      PROVE  SessionTypeInv'
  <2>1. /\ S!Begin(q, S!Reading("refresh", s, session[s].version))
        /\ s \in DOMAIN session
        /\ UNCHANGED <<password, invited, resettable, session, lastReset>>
    BY <1>2 DEF S!RefreshBegin, S!Refreshable, S!LiveSessions
  <2>2. session[s].version \in 0..password
    BY <2>1 DEF SessionTypeInv, SessionsOK, SessionRow
  <2>3. /\ S!Reading("refresh", s, session[s].version) \in SessionRequestRow
        /\ S!Reading("refresh", s, session[s].version).session = s
    BY <1>0, <2>2 DEF S!Reading, SessionRequestRow
  <2> QED
    BY <2>1, <2>3, SessionBeginKeepsTypes
<1>3. ASSUME NEW q \in Requests, NEW s \in Sessions, S!LoginCommit(q, s)
      PROVE  SessionTypeInv'
  <2>1. /\ S!Issue(s, work[q].version, NoSession, work[q].raced, session)
        /\ S!End(q) /\ q \in DOMAIN work
        /\ UNCHANGED <<password, invited, resettable, lastReset>>
    BY <1>3 DEF S!LoginCommit, S!Pending
  <2>2. SessionGrows
    BY <1>0, <2>1 DEF SessionGrows
  <2>3. work[q].version \in 0..password' /\ work[q].raced \in 0..lastReset'
    BY <1>a, <2>1 DEF SessionRequestRow
  <2>4. \A t \in DOMAIN session : session[t].raced \in 0..lastReset'
    BY <2>1 DEF SessionTypeInv, SessionsOK, SessionRow
  <2>5. SessionsOK'
    BY <2>1, <2>2, <2>3, <2>4, NothingRevoked, IssueKeepsTypes DEF SessionTypeInv
  <2>6. DOMAIN session \subseteq DOMAIN session'
    BY <2>1 DEF S!Issue
  <2>7. SessionRequestsOK'
    BY <2>1, <2>2, <2>6, SessionEndKeepsTypes
  <2>8. ScalarsOK'
    BY <2>1, SessionEndFacts DEF SessionTypeInv, ScalarsOK
  <2> QED
    BY <2>5, <2>7, <2>8 DEF SessionTypeInv
<1>4. ASSUME NEW q \in Requests, NEW s \in Sessions, S!RefreshCommit(q, s)
      PROVE  SessionTypeInv'
  <2> DEFINE old == work[q].session
             raced == S!Max({work[q].raced, session[old].raced})
  <2>1. /\ S!Issue(s, work[q].version, old, raced, S!Revoked({old}))
        /\ S!End(q) /\ q \in DOMAIN work /\ old \in DOMAIN session
        /\ UNCHANGED <<password, invited, resettable, lastReset>>
    BY <1>4 DEF S!RefreshCommit, S!Pending, SessionTypeInv, SessionRequestsOK
  <2>2. SessionGrows
    BY <1>0, <2>1 DEF SessionGrows
  <2>3. work[q].version \in 0..password' /\ work[q].raced \in 0..lastReset'
    BY <1>a, <2>1 DEF SessionRequestRow
  <2>4. \A t \in DOMAIN session : session[t].raced \in 0..lastReset'
    BY <2>1 DEF SessionTypeInv, SessionsOK, SessionRow
  <2>5. raced \in 0..lastReset'
    BY <2>1, <2>3, <2>4, MaxOfTwo
  <2>6. /\ Revokes(S!Revoked({old}), {old})
        /\ \A t \in DOMAIN session : S!Revoked({old})[t].raced \in 0..lastReset'
    BY <2>4, RevokedFacts DEF SessionTypeInv
  <2>7. S!Revoked({old})[old].revoked
    BY <2>1, <2>6 DEF Revokes
  <2> HIDE DEF old, raced
  <2>8. SessionsOK'
    BY <2>1, <2>2, <2>3, <2>5, <2>6, <2>7, IssueKeepsTypes
  <2>9. DOMAIN session \subseteq DOMAIN session'
    BY <2>1, <2>6 DEF S!Issue, Revokes
  <2>10. SessionRequestsOK'
    BY <2>1, <2>2, <2>9, SessionEndKeepsTypes
  <2>11. ScalarsOK'
    BY <2>1, SessionEndFacts DEF SessionTypeInv, ScalarsOK
  <2> QED
    BY <2>8, <2>10, <2>11 DEF SessionTypeInv
<1>5. ASSUME NEW q \in Requests, S!ChangeCommit(q)
      PROVE  SessionTypeInv'
  <2>1. /\ password' = password + 1 /\ password' \in 0..MaxVersion
        /\ UNCHANGED <<invited, resettable, session, lastReset>>
        /\ S!End(q)
    BY <1>0, <1>5 DEF S!ChangeCommit, S!SetPassword
  <2>2. SessionGrows
    BY <1>0, <2>1 DEF SessionGrows
  <2>3. SessionRequestsOK'
    BY <2>1, <2>2, SessionEndKeepsTypes
  <2>4. SessionsOK'
    BY <1>0, <2>1 DEF SessionTypeInv, SessionsOK, SessionRow
  <2>5. single' = single
    BY <2>1 DEF S!End
  <2>6. ScalarsOK'
    BY <1>0, <2>1, <2>5 DEF SessionTypeInv, ScalarsOK
  <2> QED
    BY <2>3, <2>4, <2>6 DEF SessionTypeInv
<1>6. ASSUME NEW q \in Requests, NEW s \in Sessions, S!CompleteCommit(q, s)
      PROVE  SessionTypeInv'
  <2>1. /\ S!Issue(s, password', NoSession, work[q].raced, session)
        /\ password' = password + 1 /\ password' \in 0..MaxVersion
        /\ invited' = FALSE /\ UNCHANGED <<resettable, lastReset>>
        /\ S!End(q) /\ q \in DOMAIN work
    BY <1>0, <1>6 DEF S!CompleteCommit, S!SetPassword, S!Pending
  <2>2. SessionGrows /\ password' \in 0..password'
    BY <1>0, <2>1 DEF SessionGrows
  <2>3. work[q].raced \in 0..lastReset'
    BY <1>a, <2>1 DEF SessionRequestRow
  <2>4. \A t \in DOMAIN session : session[t].raced \in 0..lastReset'
    BY <2>1 DEF SessionTypeInv, SessionsOK, SessionRow
  <2>5. SessionsOK'
    BY <2>1, <2>2, <2>3, <2>4, NothingRevoked, IssueKeepsTypes DEF SessionTypeInv
  <2>6. DOMAIN session \subseteq DOMAIN session'
    BY <2>1 DEF S!Issue
  <2>7. SessionRequestsOK'
    BY <2>1, <2>2, <2>6, SessionEndKeepsTypes
  <2>8. single' = single
    BY <2>1 DEF S!End
  <2>9. lastReset' \in 0..password'
    BY <1>0, <2>1
  <2>10. ScalarsOK'
    BY <2>1, <2>8, <2>9, Zenon DEF SessionTypeInv, ScalarsOK
  <2> QED
    BY <2>5, <2>7, <2>10 DEF SessionTypeInv
<1>7. ASSUME NEW q \in Requests, S!ConfirmGather(q)
      PROVE  SessionTypeInv'
  <2> DEFINE r == [work[q] EXCEPT !.op = "gathered", !.ends = S!Ended, !.known = DOMAIN session]
  <2>1. /\ q \in DOMAIN work
        /\ work' = [work EXCEPT ![q] = r]
        /\ UNCHANGED <<password, invited, resettable, session, single, lastReset>>
    BY <1>7 DEF S!ConfirmGather, S!Pending
  <2>2. S!Ended \in SUBSET Sessions /\ DOMAIN session \in SUBSET Sessions
    BY DEF S!Ended, S!LiveSessions, SessionTypeInv, SessionsOK
  <2>3a. r \in SessionRequestRow /\ r.op = "gathered"
    BY <1>a, <2>1, <2>2 DEF SessionRequestRow
  <2> HIDE DEF r
  <2>3. /\ DOMAIN work' = DOMAIN work
        /\ \A p \in DOMAIN work : p # q => work'[p] = work[p]
        /\ work'[q] = r
    BY <2>1
  <2>4. SessionRequestRow' = SessionRequestRow
    BY <2>1 DEF SessionRequestRow
  <2>5. SessionRequestsOK'
    BY <2>1, <2>3, <2>3a, <2>4 DEF SessionTypeInv, SessionRequestsOK
  <2>6. SessionsOK' /\ ScalarsOK'
    BY <2>1 DEF SessionTypeInv, SessionsOK, SessionRow, ScalarsOK
  <2> QED
    BY <2>5, <2>6 DEF SessionTypeInv
<1>8. ASSUME NEW q \in Requests, NEW s \in Sessions, S!ConfirmCommit(q, s)
      PROVE  SessionTypeInv'
  <2> DEFINE ends == work[q].ends
             known == work[q].known
             table == ResetTable(ends, known, password')
  <2>1. /\ S!Issue(s, password', NoSession, 0, table)
        /\ password' = password + 1 /\ password' \in 0..MaxVersion
        /\ resettable' = FALSE /\ lastReset' = password' /\ UNCHANGED <<invited, single>>
        /\ q \in DOMAIN work
        /\ work' = [p \in DOMAIN work \ {q} |-> [work[p] EXCEPT !.raced = password']]
    BY <1>0, <1>8 DEF S!ConfirmCommit, S!SetPassword, S!Pending, ResetTable
  <2>2. SessionGrows /\ password' \in 0..password' /\ 0 \in 0..lastReset' /\ password' \in 0..lastReset'
    BY <1>0, <2>1 DEF SessionGrows
  <2>3. \A t \in DOMAIN session : session[t].raced \in 0..lastReset'
    BY <1>0, <2>1 DEF SessionTypeInv, SessionsOK, SessionRow
  <2>4. /\ Revokes(table, ends)
        /\ \A t \in DOMAIN session : table[t].raced = IF t \in known THEN session[t].raced ELSE password'
    BY ResetTableFacts DEF SessionTypeInv
  <2> HIDE DEF ends, known, table
  <2>5. \A t \in DOMAIN session : table[t].raced \in 0..lastReset'
    BY <2>2, <2>3, <2>4
  <2>6. SessionsOK'
    BY <2>1, <2>2, <2>4, <2>5, IssueKeepsTypes
  <2>7. DOMAIN session \subseteq DOMAIN session'
    BY <2>1, <2>4 DEF S!Issue, Revokes
  <2>8. SessionRequestsOK'
    <3>1. \A p \in DOMAIN work' :
             /\ p \in DOMAIN work
             /\ work'[p] = [op |-> work[p].op, session |-> work[p].session, version |-> work[p].version,
                           ends |-> work[p].ends, known |-> work[p].known, raced |-> password']
      BY <1>a, <2>1 DEF SessionRequestRow
    <3>2. \A p \in DOMAIN work' : work'[p] \in SessionRequestRow'
      BY <1>a, <2>2, <3>1 DEF SessionRequestRow, SessionGrows
    <3> QED
      BY <2>7, <3>1, <3>2 DEF SessionTypeInv, SessionRequestsOK
  <2>9. ScalarsOK'
    BY <2>1, <2>2 DEF SessionTypeInv, ScalarsOK
  <2> QED
    BY <2>6, <2>8, <2>9 DEF SessionTypeInv
<1>9. ASSUME NEW q \in Requests, S!Fail(q)
      PROVE  SessionTypeInv'
  <2>1. S!End(q) /\ UNCHANGED <<password, invited, resettable, session, lastReset>>
    BY <1>9 DEF S!Fail
  <2>2. SessionGrows
    BY <1>0, <2>1 DEF SessionGrows
  <2>3. SessionRequestsOK'
    BY <2>1, <2>2, SessionEndKeepsTypes
  <2>4. SessionsOK' /\ ScalarsOK'
    BY <2>1, SessionEndFacts DEF SessionTypeInv, SessionsOK, SessionRow, ScalarsOK
  <2> QED
    BY <2>3, <2>4 DEF SessionTypeInv
<1>10. CASE S!OpenOrLapse
  BY <1>10 DEF S!OpenOrLapse, SessionTypeInv, ScalarsOK, SessionsOK, SessionRow, SessionRequestsOK, SessionRequestRow
<1>11. CASE UNCHANGED S!vars
  BY <1>11 DEF S!vars, SessionTypeInv, ScalarsOK, SessionsOK, SessionRow, SessionRequestsOK, SessionRequestRow
<1> QED
  BY <1>1, <1>2, <1>3, <1>4, <1>5, <1>6, <1>7, <1>8, <1>9, <1>10, <1>11 DEF S!Next

\* The rows and requests are of their kinds, for any sets of sessions and requests: no
\* session goes back to one that still works.
THEOREM SessionsTypeCorrect == S!Spec => []S!TypeOK
<1>1. S!Spec => []SessionTypeInv
  BY SessionTypeInvInit, SessionTypeInvStep, PTL DEF S!Spec
<1> QED
  BY <1>1, SessionTypeInvTypeOK, PTL

-----------------------------------------------------------------------------
\* What survives a reset.

\* A request that will add a session going back to an earlier password has raced with
\* the last reset, or refreshes a session that has.
RacingRequests ==
    \A q \in DOMAIN work :
       work[q].op \in {"login", "refresh"} /\ work[q].version < lastReset
       => \/ work[q].raced = lastReset
          \/ work[q].op = "refresh" /\ session[work[q].session].raced = lastReset

\* Between its query and its commit a reset will end all sessions it has seen that are
\* still alive.
GatheredRequests ==
    \A q \in DOMAIN work : work[q].op = "gathered" =>
       /\ work[q].known \subseteq DOMAIN session
       /\ \A s \in work[q].known : session[s].revoked \/ s \in work[q].ends

RaceInv == S!SurvivorsHaveRaced /\ RacingRequests /\ GatheredRequests

LEMMA BeginKeepsRace ==
    ASSUME SessionTypeInv, RaceInv, NEW q, NEW r, S!Begin(q, r), r.op # "gathered",
           r.op \in {"login", "refresh"} /\ r.version < lastReset
           => r.op = "refresh" /\ session[r.session].raced = lastReset,
           UNCHANGED <<session, lastReset>>
    PROVE  RaceInv'
<1>1. /\ DOMAIN work' = DOMAIN work \cup {q} /\ work'[q] = r
      /\ \A p \in DOMAIN work : p # q /\ work'[p] = work[p]
  BY DEF S!Begin
<1>2. S!SurvivorsHaveRaced'
  BY DEF RaceInv, S!SurvivorsHaveRaced, S!LiveSessions
<1>3. RacingRequests'
  BY <1>1 DEF RaceInv, RacingRequests
<1>4. GatheredRequests'
  BY <1>1 DEF RaceInv, GatheredRequests
<1> QED
  BY <1>2, <1>3, <1>4 DEF RaceInv

LEMMA EndKeepsRace ==
    ASSUME SessionTypeInv, RaceInv, NEW q, S!End(q), UNCHANGED <<session, lastReset>>
    PROVE  RaceInv'
<1>1. DOMAIN work' \subseteq DOMAIN work /\ \A p \in DOMAIN work' : work'[p] = work[p]
  BY DEF S!End
<1> QED
  BY <1>1 DEF RaceInv, S!SurvivorsHaveRaced, S!LiveSessions, RacingRequests, GatheredRequests

\* A commit that adds a session, other than a reset's.
LEMMA IssueKeepsRace ==
    ASSUME SessionTypeInv, RaceInv, NEW q, S!End(q), UNCHANGED lastReset,
           NEW s, NEW version, NEW from, NEW raced, NEW table, NEW ended, Revokes(table, ended),
           \A t \in DOMAIN session : table[t].raced = session[t].raced,
           S!Issue(s, version, from, raced, table),
           version < lastReset => raced = lastReset
    PROVE  RaceInv'
<1>1. DOMAIN work' \subseteq DOMAIN work /\ \A p \in DOMAIN work' : work'[p] = work[p]
  BY DEF S!End
<1>2. DOMAIN table = DOMAIN session
  BY DEF Revokes
<1>3. /\ s \notin DOMAIN session /\ DOMAIN session' = DOMAIN session \cup {s}
      /\ session'[s] = [revoked |-> FALSE, version |-> version, from |-> from, raced |-> raced]
      /\ \A t \in DOMAIN session : session'[t] = table[t]
  BY <1>2 DEF S!Issue
<1>4. \A t \in DOMAIN session :
         /\ session'[t].version = session[t].version /\ session'[t].raced = session[t].raced
         /\ session[t].revoked => session'[t].revoked
  BY <1>3 DEF Revokes
<1>5. S!SurvivorsHaveRaced'
  BY <1>3, <1>4 DEF RaceInv, S!SurvivorsHaveRaced, S!LiveSessions
<1>6. RacingRequests'
  BY <1>1, <1>4 DEF RaceInv, RacingRequests, SessionTypeInv, SessionRequestsOK
<1>7. GatheredRequests'
  BY <1>1, <1>3, <1>4 DEF RaceInv, GatheredRequests
<1> QED
  BY <1>5, <1>6, <1>7 DEF RaceInv

LEMMA RaceInvStep == SessionTypeInv /\ RaceInv /\ [S!Next]_S!vars => RaceInv'
<1> SUFFICES ASSUME SessionTypeInv, RaceInv, [S!Next]_S!vars PROVE RaceInv'
  OBVIOUS
<1>0. password \in Nat /\ lastReset \in Nat /\ lastReset <= password
  BY DEF SessionTypeInv, ScalarsOK
<1>a. \A q \in DOMAIN work : work[q] \in SessionRequestRow
  BY DEF SessionTypeInv, SessionRequestsOK
<1>b. \A s \in DOMAIN session : session[s] \in SessionRow
  BY DEF SessionTypeInv, SessionsOK
<1>1. ASSUME NEW q \in Requests, S!LoginBegin(q) \/ S!ChangeBegin(q) \/ S!CompleteBegin(q) \/ S!ConfirmBegin(q)
      PROVE  RaceInv'
  <2>1. PICK op \in {"login", "change", "complete", "confirm"} :
           S!Begin(q, S!Reading(op, NoSession, password))
    BY <1>1 DEF S!LoginBegin, S!ChangeBegin, S!CompleteBegin, S!ConfirmBegin
  <2> DEFINE r == S!Reading(op, NoSession, password)
  <2>2. r.op = op /\ r.op # "gathered" /\ r.version = password
    BY DEF S!Reading
  <2>3. UNCHANGED <<session, lastReset>>
    BY <1>1 DEF S!LoginBegin, S!ChangeBegin, S!CompleteBegin, S!ConfirmBegin
  <2> HIDE DEF r
  <2>4. ~(r.version < lastReset)
    BY <1>0, <2>2
  <2> QED
    BY <2>1, <2>2, <2>3, <2>4, BeginKeepsRace DEF r
<1>2. ASSUME NEW q \in Requests, NEW s \in Sessions, S!RefreshBegin(q, s)
      PROVE  RaceInv'
  <2> DEFINE r == S!Reading("refresh", s, session[s].version)
  <2>1. /\ S!Begin(q, r)
        /\ s \in S!LiveSessions
        /\ UNCHANGED <<session, lastReset>>
    BY <1>2 DEF S!RefreshBegin, S!Refreshable
  <2>2. r.op = "refresh" /\ r.version = session[s].version /\ r.session = s
    BY DEF S!Reading
  <2> HIDE DEF r
  <2>3. r.version < lastReset => session[r.session].raced = lastReset
    BY <2>1, <2>2 DEF RaceInv, S!SurvivorsHaveRaced
  <2> QED
    BY <2>1, <2>2, <2>3, BeginKeepsRace
<1>3. ASSUME NEW q \in Requests, NEW s \in Sessions, S!LoginCommit(q, s)
      PROVE  RaceInv'
  <2>1. /\ S!Issue(s, work[q].version, NoSession, work[q].raced, session)
        /\ S!End(q) /\ q \in DOMAIN work /\ work[q].op = "login"
        /\ UNCHANGED lastReset
    BY <1>3 DEF S!LoginCommit, S!Pending
  <2>2. work[q].version < lastReset => work[q].raced = lastReset
    BY <2>1 DEF RaceInv, RacingRequests
  <2> QED
    BY <2>1, <2>2, NothingRevoked, IssueKeepsRace DEF SessionTypeInv
<1>4. ASSUME NEW q \in Requests, NEW s \in Sessions, S!RefreshCommit(q, s)
      PROVE  RaceInv'
  <2> DEFINE old == work[q].session
             raced == S!Max({work[q].raced, session[old].raced})
  <2>1. /\ S!Issue(s, work[q].version, old, raced, S!Revoked({old}))
        /\ S!End(q) /\ q \in DOMAIN work /\ work[q].op = "refresh" /\ old \in DOMAIN session
        /\ UNCHANGED lastReset
    BY <1>4 DEF S!RefreshCommit, S!Pending, SessionTypeInv, SessionRequestsOK
  <2>2. work[q].raced \in 0..lastReset /\ session[old].raced \in 0..lastReset
    BY <1>a, <1>b, <2>1 DEF SessionRequestRow, SessionRow
  <2>3. work[q].version < lastReset => work[q].raced = lastReset \/ session[old].raced = lastReset
    BY <2>1 DEF RaceInv, RacingRequests
  <2>4. work[q].version < lastReset => raced = lastReset
    BY <1>0, <2>2, <2>3, MaxOfTwo
  <2> HIDE DEF old, raced
  <2> QED
    BY <2>1, <2>4, RevokedFacts, IssueKeepsRace DEF SessionTypeInv
<1>5. ASSUME NEW q \in Requests, S!ChangeCommit(q) \/ S!Fail(q)
      PROVE  RaceInv'
  BY <1>5, EndKeepsRace DEF S!ChangeCommit, S!Fail
<1>6. ASSUME NEW q \in Requests, NEW s \in Sessions, S!CompleteCommit(q, s)
      PROVE  RaceInv'
  <2>1. /\ S!Issue(s, password', NoSession, work[q].raced, session)
        /\ password' = password + 1
        /\ S!End(q) /\ UNCHANGED lastReset
    BY <1>6 DEF S!CompleteCommit, S!SetPassword
  <2>2. ~(password' < lastReset)
    BY <1>0, <2>1
  <2> QED
    BY <2>1, <2>2, NothingRevoked, IssueKeepsRace DEF SessionTypeInv
<1>7. ASSUME NEW q \in Requests, S!ConfirmGather(q)
      PROVE  RaceInv'
  <2> DEFINE r == [work[q] EXCEPT !.op = "gathered", !.ends = S!Ended, !.known = DOMAIN session]
  <2>1. /\ q \in DOMAIN work
        /\ work' = [work EXCEPT ![q] = r]
        /\ UNCHANGED <<session, lastReset>>
    BY <1>7 DEF S!ConfirmGather, S!Pending
  <2>2. r.op = "gathered" /\ r.ends = S!Ended /\ r.known = DOMAIN session
    BY <1>a, <2>1 DEF SessionRequestRow
  <2> HIDE DEF r
  <2>3. /\ DOMAIN work' = DOMAIN work /\ work'[q] = r
        /\ \A p \in DOMAIN work : p # q => work'[p] = work[p]
    BY <2>1
  <2>4. \A s \in DOMAIN session : session[s].revoked \/ s \in S!Ended
    BY DEF S!Ended, S!LiveSessions
  <2>5. GatheredRequests'
    BY <2>1, <2>2, <2>3, <2>4 DEF RaceInv, GatheredRequests
  <2>6. RacingRequests'
    BY <2>1, <2>2, <2>3 DEF RaceInv, RacingRequests
  <2>7. S!SurvivorsHaveRaced'
    BY <2>1 DEF RaceInv, S!SurvivorsHaveRaced, S!LiveSessions
  <2> QED
    BY <2>5, <2>6, <2>7 DEF RaceInv
<1>8. ASSUME NEW q \in Requests, NEW s \in Sessions, S!ConfirmCommit(q, s)
      PROVE  RaceInv'
  <2> DEFINE ends == work[q].ends
             known == work[q].known
             table == ResetTable(ends, known, password')
  <2>1. /\ S!Issue(s, password', NoSession, 0, table)
        /\ password' = password + 1 /\ lastReset' = password'
        /\ q \in DOMAIN work /\ work[q].op = "gathered"
        /\ work' = [p \in DOMAIN work \ {q} |-> [work[p] EXCEPT !.raced = password']]
    BY <1>8 DEF S!ConfirmCommit, S!SetPassword, S!Pending, ResetTable
  <2>2. /\ Revokes(table, ends)
        /\ \A t \in DOMAIN session : table[t].raced = IF t \in known THEN session[t].raced ELSE password'
    BY ResetTableFacts DEF SessionTypeInv
  <2>3. \A t \in known : session[t].revoked \/ t \in ends
    BY <2>1 DEF RaceInv, GatheredRequests
  <2> HIDE DEF ends, known, table
  <2>4. DOMAIN table = DOMAIN session
    BY <2>2 DEF Revokes
  <2>5. /\ s \notin DOMAIN session /\ DOMAIN session' = DOMAIN session \cup {s}
        /\ session'[s] = [revoked |-> FALSE, version |-> password', from |-> NoSession, raced |-> 0]
        /\ \A t \in DOMAIN session : session'[t] = table[t]
    BY <2>1, <2>4 DEF S!Issue
  <2>6. \A t \in DOMAIN session : session'[t].revoked <=> session[t].revoked \/ t \in ends
    BY <2>2, <2>5 DEF Revokes
  <2>7. S!SurvivorsHaveRaced'
    <3>1. \A t \in DOMAIN session : ~session'[t].revoked => session'[t].raced = lastReset'
      BY <2>1, <2>2, <2>3, <2>5, <2>6
    <3>2. ~(session'[s].version < lastReset')
      BY <1>0, <2>1, <2>5
    <3> QED
      BY <2>5, <3>1, <3>2 DEF S!SurvivorsHaveRaced, S!LiveSessions
  <2>8. /\ DOMAIN work' \subseteq DOMAIN work
        /\ \A p \in DOMAIN work' : /\ work'[p].raced = lastReset' /\ work'[p].op = work[p].op
                                  /\ work'[p].known = work[p].known /\ work'[p].ends = work[p].ends
    BY <1>a, <2>1 DEF SessionRequestRow
  <2>9. RacingRequests'
    BY <2>8 DEF RacingRequests
  <2>10. GatheredRequests'
    BY <2>5, <2>6, <2>8 DEF RaceInv, GatheredRequests
  <2> QED
    BY <2>7, <2>9, <2>10 DEF RaceInv
<1>9. CASE S!OpenOrLapse \/ UNCHANGED S!vars
  BY <1>9 DEF S!OpenOrLapse, S!vars, RaceInv, S!SurvivorsHaveRaced, S!LiveSessions, RacingRequests, GatheredRequests
<1> QED
  BY <1>1, <1>2, <1>3, <1>4, <1>5, <1>6, <1>7, <1>8, <1>9 DEF S!Next

LEMMA RaceInvInit == S!Init => RaceInv
<1> SUFFICES ASSUME S!Init PROVE RaceInv
  OBVIOUS
<1>1. DOMAIN session = {} /\ DOMAIN work = {}
  BY DEF S!Init
<1> QED
  BY <1>1 DEF RaceInv, S!SurvivorsHaveRaced, S!LiveSessions, RacingRequests, GatheredRequests

\* Whatever overlaps with a reset, a session from before it that is still alive has raced
\* with that very reset: on its own, or through the session it was refreshed from.
THEOREM ResetEndsTheRest == S!Spec => []SurvivorsHaveRaced
<1>1. S!Spec => [](SessionTypeInv /\ RaceInv)
  BY SessionTypeInvInit, SessionTypeInvStep, RaceInvInit, RaceInvStep, PTL DEF S!Spec
<1>2. SessionTypeInv /\ RaceInv => SurvivorsHaveRaced
  BY DEF RaceInv, SurvivorsHaveRaced
<1> QED
  BY <1>1, <1>2, PTL

-----------------------------------------------------------------------------
\* One request at a time.

\* There is one request at most, and what it refreshes is alive until it commits.
SessionOneRequest ==
    single => /\ \A p, q \in DOMAIN work : p = q
              /\ \A q \in DOMAIN work : work[q].op = "refresh" => work[q].session \in S!LiveSessions

SerialInv == SessionOneRequest /\ S!RefreshedOnce

LEMMA BeginKeepsSerial ==
    ASSUME SessionTypeInv, SerialInv, NEW q, NEW r, S!Begin(q, r), UNCHANGED session,
           r.op = "refresh" => r.session \in S!LiveSessions
    PROVE  SerialInv'
<1>0. work = <<>> => DOMAIN work = {}
  OBVIOUS
<1>1. /\ DOMAIN work' = DOMAIN work \cup {q} /\ work'[q] = r
      /\ single' = (single /\ work = <<>>)
  BY DEF S!Begin
<1>2. S!LiveSessions' = S!LiveSessions
  BY DEF S!LiveSessions
<1>3. SessionOneRequest'
  BY <1>0, <1>1, <1>2 DEF SessionOneRequest
<1>4. S!RefreshedOnce'
  BY <1>1 DEF SerialInv, S!RefreshedOnce
<1> QED
  BY <1>3, <1>4 DEF SerialInv

\* When its request ends, no other is left.
LEMMA LastOneLeaves ==
    ASSUME SerialInv, NEW q \in DOMAIN work, DOMAIN work' = DOMAIN work \ {q}, single' => single
    PROVE  SessionOneRequest'
BY DEF SerialInv, SessionOneRequest

LEMMA IssueKeepsOnce ==
    ASSUME SessionTypeInv, SerialInv, single' => single,
           NEW s, NEW version, NEW from, NEW raced, NEW table, NEW ended, Revokes(table, ended),
           single => from = NoSession \/ from \in S!LiveSessions,
           S!Issue(s, version, from, raced, table)
    PROVE  S!RefreshedOnce'
<1>1. DOMAIN table = DOMAIN session
  BY DEF Revokes
<1>2. /\ s \notin DOMAIN session /\ DOMAIN session' = DOMAIN session \cup {s}
      /\ session'[s].from = from
      /\ \A t \in DOMAIN session : session'[t] = table[t]
  BY <1>1 DEF S!Issue
<1>3. \A t \in DOMAIN session : session'[t].from = session[t].from
  BY <1>2 DEF Revokes
<1>4. single => \A t \in DOMAIN session : session[t].from # from \/ from = NoSession
  BY DEF SessionTypeInv, SessionsOK, S!LiveSessions
<1> QED
  BY <1>2, <1>3, <1>4 DEF SerialInv, S!RefreshedOnce

LEMMA SerialInvStep == SessionTypeInv /\ SerialInv /\ [S!Next]_S!vars => SerialInv'
<1> SUFFICES ASSUME SessionTypeInv, SerialInv, [S!Next]_S!vars PROVE SerialInv'
  OBVIOUS
<1>1. ASSUME NEW q \in Requests, S!LoginBegin(q) \/ S!ChangeBegin(q) \/ S!CompleteBegin(q) \/ S!ConfirmBegin(q)
      PROVE  SerialInv'
  <2>1. PICK op \in {"login", "change", "complete", "confirm"} :
           S!Begin(q, S!Reading(op, NoSession, password))
    BY <1>1 DEF S!LoginBegin, S!ChangeBegin, S!CompleteBegin, S!ConfirmBegin
  <2> DEFINE r == S!Reading(op, NoSession, password)
  <2>2. r.op # "refresh"
    BY DEF S!Reading
  <2>3. UNCHANGED session
    BY <1>1 DEF S!LoginBegin, S!ChangeBegin, S!CompleteBegin, S!ConfirmBegin
  <2> HIDE DEF r
  <2> QED
    BY <2>1, <2>2, <2>3, BeginKeepsSerial DEF r
<1>2. ASSUME NEW q \in Requests, NEW s \in Sessions, S!RefreshBegin(q, s)
      PROVE  SerialInv'
  <2> DEFINE r == S!Reading("refresh", s, session[s].version)
  <2>1. S!Begin(q, r) /\ s \in S!LiveSessions /\ UNCHANGED session
    BY <1>2 DEF S!RefreshBegin, S!Refreshable
  <2>2. r.session = s
    BY DEF S!Reading
  <2> HIDE DEF r
  <2> QED
    BY <2>1, <2>2, BeginKeepsSerial
<1>3. ASSUME NEW q \in Requests, NEW s \in Sessions, S!LoginCommit(q, s) \/ S!CompleteCommit(q, s)
      PROVE  SerialInv'
  <2>1. /\ S!End(q) /\ q \in DOMAIN work
        /\ \/ S!Issue(s, work[q].version, NoSession, work[q].raced, session)
           \/ S!Issue(s, password', NoSession, work[q].raced, session)
    BY <1>3 DEF S!LoginCommit, S!CompleteCommit, S!Pending
  <2>2. SessionOneRequest'
    BY <2>1, LastOneLeaves DEF S!End
  <2>3. S!RefreshedOnce'
    BY <2>1, NothingRevoked, IssueKeepsOnce DEF S!End, SessionTypeInv
  <2> QED
    BY <2>2, <2>3 DEF SerialInv
<1>4. ASSUME NEW q \in Requests, NEW s \in Sessions, S!RefreshCommit(q, s)
      PROVE  SerialInv'
  <2> DEFINE old == work[q].session
             raced == S!Max({work[q].raced, session[old].raced})
  <2>1. /\ S!Issue(s, work[q].version, old, raced, S!Revoked({old}))
        /\ S!End(q) /\ q \in DOMAIN work /\ work[q].op = "refresh"
    BY <1>4 DEF S!RefreshCommit, S!Pending
  <2>2. single => old \in S!LiveSessions
    BY <2>1 DEF SerialInv, SessionOneRequest
  <2>3. SessionOneRequest'
    BY <2>1, LastOneLeaves DEF S!End
  <2> HIDE DEF old, raced
  <2>4. S!RefreshedOnce'
    BY <2>1, <2>2, RevokedFacts, IssueKeepsOnce DEF S!End, SessionTypeInv
  <2> QED
    BY <2>3, <2>4 DEF SerialInv
<1>5. ASSUME NEW q \in Requests, NEW s \in Sessions, S!ConfirmCommit(q, s)
      PROVE  SerialInv'
  <2> DEFINE ends == work[q].ends
             table == ResetTable(ends, work[q].known, password')
  <2>1. /\ S!Issue(s, password', NoSession, 0, table)
        /\ q \in DOMAIN work /\ DOMAIN work' = DOMAIN work \ {q} /\ single' = single
    BY <1>5 DEF S!ConfirmCommit, S!Pending, ResetTable
  <2>2. SessionOneRequest'
    BY <2>1, LastOneLeaves
  <2>3. Revokes(table, ends)
    BY ResetTableFacts DEF SessionTypeInv
  <2> HIDE DEF ends, table
  <2>4. S!RefreshedOnce'
    BY <2>1, <2>3, IssueKeepsOnce
  <2> QED
    BY <2>2, <2>4 DEF SerialInv
<1>6. ASSUME NEW q \in Requests, S!ChangeCommit(q) \/ S!Fail(q)
      PROVE  SerialInv'
  <2>1. S!End(q) /\ q \in DOMAIN work /\ UNCHANGED session
    BY <1>6 DEF S!ChangeCommit, S!Fail, S!Pending
  <2> QED
    BY <2>1, LastOneLeaves DEF S!End, SerialInv, S!RefreshedOnce
<1>7. ASSUME NEW q \in Requests, S!ConfirmGather(q)
      PROVE  SerialInv'
  <2> DEFINE r == [work[q] EXCEPT !.op = "gathered", !.ends = S!Ended, !.known = DOMAIN session]
  <2>1. /\ q \in DOMAIN work
        /\ work' = [work EXCEPT ![q] = r]
        /\ UNCHANGED <<session, single>>
    BY <1>7 DEF S!ConfirmGather, S!Pending
  <2>2. r.op = "gathered"
    BY <2>1 DEF SessionTypeInv, SessionRequestsOK, SessionRequestRow
  <2> HIDE DEF r
  <2>3. S!LiveSessions' = S!LiveSessions
    BY <2>1 DEF S!LiveSessions
  <2> QED
    BY <2>1, <2>2, <2>3 DEF SerialInv, SessionOneRequest, S!RefreshedOnce
<1>8. CASE S!OpenOrLapse \/ UNCHANGED S!vars
  BY <1>8 DEF S!OpenOrLapse, S!vars, SerialInv, SessionOneRequest, S!RefreshedOnce, S!LiveSessions
<1> QED
  BY <1>1, <1>2, <1>3, <1>4, <1>5, <1>6, <1>7, <1>8 DEF S!Next

\* Until requests first overlap, a refresh token is exchanged once, for any sets of sessions
\* and requests.
THEOREM OneExchangeEach == S!Spec => []RefreshedOnce
<1>1. S!Init => SerialInv
  <2> SUFFICES ASSUME S!Init PROVE SerialInv
    OBVIOUS
  <2>1. DOMAIN session = {} /\ DOMAIN work = {}
    BY DEF S!Init
  <2> QED
    BY <2>1 DEF SerialInv, SessionOneRequest, S!RefreshedOnce
<1>2. S!Spec => [](SessionTypeInv /\ SerialInv)
  BY <1>1, SessionTypeInvInit, SessionTypeInvStep, SerialInvStep, PTL DEF S!Spec
<1>3. SessionTypeInv /\ SerialInv => RefreshedOnce
  BY DEF SerialInv, RefreshedOnce
<1> QED
  BY <1>2, <1>3, PTL

-----------------------------------------------------------------------------
(***************************************************************************)
(* PasswordReset.                                                          *)
(***************************************************************************)

Sends == {"send", "sending"}
Checks == {"right", "wrong", "confirm"}

RowFits(r) == /\ r \in PasswordResetCode
              /\ r.tries = MaxTries => r.consumed
              /\ r.sent <= now

\* What a request rests on.
RequestFits(r) ==
    /\ r \in RequestRow
    /\ r.op \in Sends => r.id \in Ids /\ r.code \in Codes /\ r.by \in Identifiers /\ r.sends < MaxSends
    /\ r.op \in Checks => r.id \in DOMAIN row /\ r.code \in sent
    /\ r.op = "wrong" => r.tries < MaxTries
    /\ r.op = "confirm" => r.token \in DOMAIN codeOf

RowsOK == DOMAIN row \subseteq Ids /\ \A i \in DOMAIN row : RowFits(row[i])

RequestsOK ==
    /\ DOMAIN req \subseteq Requests
    /\ \A q \in DOMAIN req : RequestFits(req[q])
    /\ \A p, q \in DOMAIN req : p # q /\ req[p].id \notin DOMAIN row => req[p].id # req[q].id

HistoryOK ==
    /\ now \in 0..MaxTime
    /\ alone \in BOOLEAN
    /\ sent \subseteq Codes
    /\ wrong \in [Codes -> Nat]
    /\ DOMAIN codeOf \subseteq ResetTokens
    /\ \A t \in DOMAIN codeOf : codeOf[t] \in sent
    /\ confirmed \subseteq sent

TypeInv == RowsOK /\ RequestsOK /\ HistoryOK

Settings == /\ TTL \in Nat \ {0} /\ TokenTTL \in Nat \ {0} /\ Cooldown \in Nat
            /\ MaxSends \in Nat \ {0} /\ MaxTries \in Nat \ {0}
            /\ MaxRows \in Nat /\ MaxTime \in Nat

LEMMA SettingsOK == Settings
BY SettingsAssumption, BoundsAssumption DEF Settings

LEMMA TypeInvTypeOK == TypeInv => TypeOK
BY DEF TypeInv, RowsOK, RowFits, RequestsOK, RequestFits, HistoryOK, TypeOK

LEMMA TypeInvInit == Init => TypeInv
<1> SUFFICES ASSUME Init PROVE TypeInv
  OBVIOUS
<1>1. DOMAIN row = {} /\ DOMAIN req = {} /\ DOMAIN codeOf = {} /\ sent = {}
  BY DEF Init
<1>2. now \in 0..MaxTime /\ alone \in BOOLEAN /\ wrong \in [Codes -> Nat] /\ confirmed = {}
  BY SettingsOK DEF Init, Settings
<1> QED
  BY <1>1, <1>2 DEF TypeInv, RowsOK, RequestsOK, HistoryOK

\* The greatest element of a bounded set of numbers.
LEMMA Greatest ==
    ASSUME NEW n \in Nat, NEW T \in SUBSET (0..n), T # {}
    PROVE  Max(T) \in T /\ \A m \in T : Max(T) >= m
<1> DEFINE D == {d \in Nat : n - d \in T}
<1>1. D # {}
  <2> PICK m \in T : TRUE
    OBVIOUS
  <2>1. n - m \in D
    OBVIOUS
  <2> QED
    BY <2>1
<1>2. IsWellFoundedOn(OpToRel(<, Nat), Nat)
  BY NatLessThanWellFounded
<1>3. PICK d \in D : \A e \in D : <<e, d>> \notin OpToRel(<, Nat)
  BY <1>1, <1>2, WFMin
<1>4. \A e \in D : ~(e < d)
  BY <1>3 DEF OpToRel
<1>5. n - d \in T /\ \A m \in T : n - d >= m
  <2>1. \A m \in T : n - m \in D
    OBVIOUS
  <2> QED
    BY <1>4, <2>1
<1> QED
  BY <1>5 DEF Max

-----------------------------------------------------------------------------
\* What the parts of the actions do.

LEMMA BeginFacts ==
    ASSUME NEW q, NEW r, Begin(q, r)
    PROVE  /\ q \in Requests /\ q \notin DOMAIN req /\ DOMAIN req' = DOMAIN req \cup {q}
           /\ req'[q] = r
           /\ \A p \in DOMAIN req : p # q /\ req'[p] = req[p]
BY DEF Begin

LEMMA EndFacts ==
    ASSUME NEW q, End(q)
    PROVE  /\ DOMAIN req' = DOMAIN req \ {q}
           /\ \A p \in DOMAIN req' : req'[p] = req[p]
           /\ alone' = alone
BY DEF End

LEMMA RowTypes ==
    ASSUME TypeInv, NEW i \in DOMAIN row
    PROVE  /\ i \in Ids /\ RowFits(row[i]) /\ row[i] \in PasswordResetCode
           /\ row[i].sends \in 1..MaxSends /\ row[i].tries \in 0..MaxTries
           /\ row[i].consumed \in BOOLEAN /\ row[i].code \in sent /\ row[i].code \in Codes
           /\ row[i].token \in DOMAIN codeOf \cup {NoToken} /\ row[i].token \in ResetTokens \cup {NoToken}
           /\ row[i].sent \in Nat /\ row[i].sent <= now
           /\ row[i].expires \in Nat /\ row[i].token_expires \in Nat
<1>1. i \in Ids /\ RowFits(row[i]) /\ sent \subseteq Codes /\ DOMAIN codeOf \subseteq ResetTokens
  BY DEF TypeInv, RowsOK, HistoryOK
<1>2. row[i] \in PasswordResetCode /\ row[i].sent <= now
  BY <1>1 DEF RowFits
<1> QED
  BY <1>1, <1>2, SettingsOK DEF PasswordResetCode, Settings

LEMMA ReadingFacts ==
    ASSUME TypeInv, NEW op \in Sends \cup Checks, NEW id \in {0} \cup Ids
    PROVE  /\ Reading(op, id) \in RequestRow
           /\ Reading(op, id).op = op
           /\ Reading(op, id).id = id
           /\ Reading(op, id).sends = IF id \in DOMAIN row THEN row[id].sends ELSE 0
           /\ id \in DOMAIN row => /\ Reading(op, id).code = row[id].code
                                   /\ Reading(op, id).token = row[id].token
                                   /\ Reading(op, id).tries = row[id].tries
<1>1. id \in DOMAIN row => /\ row[id].sends \in 0..MaxSends /\ row[id].tries \in 0..MaxTries
                           /\ row[id].code \in Codes /\ row[id].token \in ResetTokens \cup {NoToken}
  BY RowTypes, SettingsOK DEF Settings
<1>2. 0 \in 0..now /\ 0 \in 0..MaxSends /\ 0 \in 0..MaxTries /\ {0} \cup Ids \subseteq 0..MaxRows
  BY SettingsOK DEF TypeInv, HistoryOK, Settings, Ids
<1> QED
  BY <1>1, <1>2 DEF Reading, RequestRow, Sends, Checks

\* A request for a code reads the latest active row, or takes an id above all others.
LEMMA SendBeginFacts ==
    ASSUME TypeInv, NEW q, NEW identifier \in Identifiers, NEW c \in Codes, SendBegin(q, identifier, c)
    PROVE  \E r : /\ Begin(q, r) /\ RequestFits(r)
                  /\ r.op = "send" /\ r.code = c /\ r.at = now /\ c \notin sent
                  /\ r.id \in DOMAIN row => /\ Active(r.id) /\ \A i \in ActiveRows : i <= r.id
                                            /\ row[r.id].token = r.token
                  /\ r.id \notin DOMAIN row => /\ \A p \in DOMAIN req : req[p].id # r.id
                                               /\ \A i \in DOMAIN row : i < r.id
                  /\ \A i \in ActiveRows \ {r.id} : (\A k \in ActiveRows : k <= i) => i \in r.drop
<1> DEFINE latest == Max(ActiveRows)
           reuse == ActiveRows # {} /\ row[latest].identifier = identifier
           taken == {0} \cup DOMAIN row \cup {req[p].id : p \in DOMAIN req}
           id == IF reuse THEN latest ELSE 1 + Max(taken)
           base == Reading("send", id)
           drop == {i \in Replaced(id) : i = latest}
           r == [base EXCEPT !.code = c, !.by = identifier, !.at = now, !.drop = drop]
<1>1. /\ id \in Ids /\ Begin(q, r) /\ c \notin sent
      /\ reuse => row[id].sends < MaxSends
  BY DEF SendBegin
<1>2. DOMAIN row \subseteq 1..MaxRows /\ MaxRows \in Nat /\ \A p \in DOMAIN req : req[p].id \in 0..MaxRows
  BY SettingsOK DEF Settings, TypeInv, RowsOK, RequestsOK, RequestFits, RequestRow, Ids
<1>a. ActiveRows \in SUBSET (0..MaxRows) /\ ActiveRows \subseteq DOMAIN row
  BY <1>2 DEF ActiveRows
<1>b. \A i \in ActiveRows : latest \in ActiveRows /\ i <= latest
  BY <1>2, <1>a, Greatest
<1>3. reuse => id \in ActiveRows /\ \A i \in ActiveRows : i <= id
  BY <1>b
<1>4. ~reuse => \A i \in taken : i < id
  <2> SUFFICES ASSUME ~reuse PROVE \A i \in taken : i < id
    OBVIOUS
  <2>1. taken \in SUBSET (0..MaxRows) /\ taken # {}
    BY <1>2
  <2>2. Max(taken) \in 0..MaxRows /\ \A m \in taken : Max(taken) >= m
    BY <1>2, <2>1, Greatest
  <2>3. \A m \in taken : m \in Int
    BY <1>2
  <2> HIDE DEF taken
  <2>4. id = 1 + Max(taken)
    OBVIOUS
  <2> QED
    BY <1>2, <2>2, <2>3, <2>4
<1>5. ~reuse => /\ id \notin DOMAIN row /\ \A i \in DOMAIN row : i < id
                /\ \A p \in DOMAIN req : req[p].id # id
  <2>1. \A i \in taken : i \in Int
    BY <1>2
  <2>2. \A i \in DOMAIN row : i \in taken
    OBVIOUS
  <2>3. \A p \in DOMAIN req : req[p].id \in taken
    OBVIOUS
  <2> HIDE DEF taken, id, reuse
  <2> QED
    BY <1>4, <2>1, <2>2, <2>3
<1>6. drop \in SUBSET Ids
  BY DEF Replaced, ActiveRows, TypeInv, RowsOK
<1>7. \A i \in ActiveRows \ {id} : (\A k \in ActiveRows : k <= i) => i \in drop
  <2> HIDE DEF latest, id
  <2> SUFFICES ASSUME NEW i \in ActiveRows \ {id}, \A k \in ActiveRows : k <= i PROVE i \in drop
    OBVIOUS
  <2>1. latest \in ActiveRows /\ i <= latest /\ latest <= i
    BY <1>b
  <2>2. \A k \in ActiveRows : k \in Int
    BY <1>2, <1>a
  <2>3. i = latest
    BY <2>1, <2>2
  <2> QED
    BY <2>3 DEF Replaced
<1> HIDE DEF drop, id, latest, reuse, taken
<1>8. /\ base \in RequestRow /\ base.op = "send" /\ base.id = id
      /\ base.sends = IF id \in DOMAIN row THEN row[id].sends ELSE 0
      /\ id \in DOMAIN row => base.token = row[id].token
  <2>1. "send" \in Sends \cup Checks /\ id \in {0} \cup Ids
    BY <1>1 DEF Sends
  <2> QED
    BY <2>1, ReadingFacts
<1>9. now \in 0..now
  BY DEF TypeInv, HistoryOK
<1> HIDE DEF base
<1>10. /\ r \in RequestRow /\ r.op = "send" /\ r.id = id /\ r.code = c /\ r.by = identifier /\ r.at = now
       /\ r.drop = drop /\ r.sends = base.sends /\ r.token = base.token
  BY <1>6, <1>8, <1>9 DEF RequestRow
<1>11. r.sends < MaxSends
  <2>1. CASE reuse
    BY <1>1, <1>3, <1>8, <1>10, <2>1 DEF ActiveRows
  <2>2. CASE ~reuse
    BY <1>5, <1>8, <1>10, <2>2, SettingsOK DEF Settings
  <2> QED
    BY <2>1, <2>2
<1> HIDE DEF r
<1>12. RequestFits(r)
  BY <1>1, <1>10, <1>11 DEF RequestFits, Sends, Checks
<1>13. id \in DOMAIN row => reuse
  BY <1>5
<1>14. id \in DOMAIN row => Active(id) /\ \A i \in ActiveRows : i <= id
  BY <1>3, <1>13 DEF ActiveRows
<1>15. id \notin DOMAIN row => ~reuse
  BY <1>3 DEF ActiveRows
<1> QED
  BY <1>1, <1>5, <1>7, <1>8, <1>10, <1>12, <1>14, <1>15

\* A guess reads the latest row.
LEMMA VerifyBeginFacts ==
    ASSUME TypeInv, NEW q, NEW c \in Codes, VerifyBegin(q, c)
    PROVE  \E r : /\ Begin(q, r) /\ RequestFits(r)
                  /\ r.op \in {"right", "wrong"} /\ r.id \in DOMAIN row /\ Active(r.id)
                  /\ r.code = row[r.id].code /\ r.tries = row[r.id].tries
                  /\ \A i \in DOMAIN row : i <= r.id
<1> DEFINE id == Max(DOMAIN row)
           op == IF c = row[id].code THEN "right" ELSE "wrong"
           r == Reading(op, id)
<1>1. /\ DOMAIN row # {} /\ Active(id) /\ row[id].tries < MaxTries
      /\ Begin(q, r)
  BY DEF VerifyBegin
<1>2. DOMAIN row \in SUBSET (0..MaxRows) /\ DOMAIN row \subseteq Ids
  BY SettingsOK DEF TypeInv, RowsOK, Ids, Settings
<1>3. id \in DOMAIN row /\ \A i \in DOMAIN row : i <= id
  <2>1. Max(DOMAIN row) \in DOMAIN row /\ \A m \in DOMAIN row : Max(DOMAIN row) >= m
    BY <1>1, <1>2, Greatest, SettingsOK DEF Settings
  <2>2. DOMAIN row \subseteq Int
    BY <1>2
  <2> QED
    BY <2>1, <2>2
<1>4. op \in {"right", "wrong"}
  OBVIOUS
<1>5. id \in {0} \cup Ids /\ op \in Sends \cup Checks
  BY <1>2, <1>3, <1>4 DEF Checks
<1> HIDE DEF id, op
<1>6. /\ r \in RequestRow /\ r.op = op /\ r.id = id
      /\ r.code = row[id].code /\ r.tries = row[id].tries
  BY <1>3, <1>5, ReadingFacts
<1>7. row[id].code \in sent
  BY <1>3, RowTypes
<1> HIDE DEF r
<1>8. RequestFits(r)
  BY <1>1, <1>3, <1>4, <1>6, <1>7 DEF RequestFits, Sends, Checks
<1> QED
  BY <1>1, <1>3, <1>4, <1>6, <1>8

\* A confirmation reads the row of its token.
LEMMA ConfirmBeginFacts ==
    ASSUME TypeInv, NEW q, NEW i, ConfirmBegin(q, i)
    PROVE  \E r : /\ Begin(q, r) /\ RequestFits(r)
                  /\ r.op = "confirm" /\ r.id \in DOMAIN row /\ Confirmable(r.id)
                  /\ r.code = row[r.id].code /\ r.tries = row[r.id].tries
                  /\ r.token = row[r.id].token /\ r.token # NoToken
<1> DEFINE r == Reading("confirm", i)
<1>1. i \in DOMAIN row /\ Confirmable(i) /\ Begin(q, r)
  BY DEF ConfirmBegin
<1>2. /\ i \in Ids /\ row[i].code \in sent /\ row[i].token # NoToken /\ row[i].token \in DOMAIN codeOf
  BY <1>1, RowTypes DEF Confirmable
<1>3. /\ r \in RequestRow /\ r.op = "confirm" /\ r.id = i
      /\ r.code = row[i].code /\ r.tries = row[i].tries /\ r.token = row[i].token
  <2>1. i \in {0} \cup Ids /\ "confirm" \in Sends \cup Checks
    BY <1>2 DEF Checks
  <2> QED
    BY <1>1, <2>1, ReadingFacts
<1> HIDE DEF r
<1>4. RequestFits(r)
  BY <1>1, <1>2, <1>3 DEF RequestFits, Sends, Checks
<1> QED
  BY <1>1, <1>2, <1>3, <1>4

\* Row i after a step that has changed it in nothing but that it may be consumed.
Same(i) ==
    /\ row'[i].code = row[i].code /\ row'[i].tries = row[i].tries
    /\ row'[i].expires = row[i].expires /\ row'[i].sent = row[i].sent
    /\ row'[i].token = row[i].token /\ row'[i].token_expires = row[i].token_expires
    /\ ~row'[i].consumed => ~row[i].consumed

\* What a commit leaves behind in general.
Grows == now' = now /\ sent \subseteq sent' /\ DOMAIN codeOf \subseteq DOMAIN codeOf'

LEMMA GrowsTypes ==
    ASSUME Grows
    PROVE  PasswordResetCode \subseteq PasswordResetCode' /\ RequestRow' = RequestRow
BY DEF Grows, PasswordResetCode, RequestRow

LEMMA UntouchedFacts ==
    ASSUME TypeInv, Grows, NEW i \in DOMAIN row, row'[i] = row[i]
    PROVE  Same(i) /\ RowFits(row[i])'
BY GrowsTypes, RowTypes DEF Same, RowFits, Grows

LEMMA ClosedFacts ==
    ASSUME TypeInv, Grows, NEW i \in DOMAIN row, NEW drop, row'[i] = Closed(i, drop)
    PROVE  Same(i) /\ RowFits(row[i])' /\ (~row'[i].consumed => i \notin drop)
<1> DEFINE consumed == row[i].consumed \/ i \in drop
<1>1. row'[i] = [row[i] EXCEPT !.consumed = consumed]
  BY DEF Closed
<1>2. /\ consumed \in BOOLEAN
      /\ row[i].consumed => consumed
      /\ ~consumed => ~row[i].consumed /\ i \notin drop
  OBVIOUS
<1> HIDE DEF consumed
<1>3. RowFits(row[i]) /\ row[i] \in PasswordResetCode
  BY RowTypes
<1>4. /\ row'[i] \in PasswordResetCode
      /\ row'[i].tries = row[i].tries /\ row'[i].sent = row[i].sent /\ row'[i].consumed = consumed
      /\ Same(i)
  BY <1>1, <1>2, <1>3 DEF PasswordResetCode, Same
<1> QED
  BY <1>2, <1>3, <1>4, GrowsTypes DEF RowFits, Grows

LEMMA SendCommitFacts ==
    ASSUME TypeInv, NEW q, SendCommit(q), NEW r, r = req[q]
    PROVE  /\ q \in DOMAIN req /\ RequestFits(r) /\ r.op = "sending" /\ r.id \in Ids /\ r.code \in Codes
           /\ Grows /\ DOMAIN row' = DOMAIN row \cup {r.id}
           /\ \A i \in DOMAIN row \ {r.id} :
                 Same(i) /\ RowFits(row[i])' /\ (~row'[i].consumed => i \notin r.drop)
           /\ RowFits(row[r.id])'
           /\ row'[r.id].code = r.code /\ row'[r.id].sent = r.at /\ row'[r.id].tries \in Nat
           /\ (r.id \in DOMAIN row => row[r.id].token = r.token) => row'[r.id].token = NoToken
           /\ sent' = sent \cup {r.code}
           /\ End(q) /\ UNCHANGED <<now, wrong, codeOf, confirmed>>
<1> DEFINE new == [identifier |-> r.by, code |-> r.code, expires |-> r.at + TTL, sent |-> r.at,
                   sends |-> 1, tries |-> 0, consumed |-> FALSE, token |-> NoToken, token_expires |-> 0]
<1> PICK again : again = Resent(row[r.id], r)
  OBVIOUS
<1>1. /\ q \in DOMAIN req /\ r.op = "sending"
      /\ row' = [i \in DOMAIN row \cup {r.id} |->
                   IF i # r.id THEN Closed(i, r.drop) ELSE IF i \in DOMAIN row THEN again ELSE new]
      /\ sent' = sent \cup {r.code}
      /\ End(q) /\ UNCHANGED <<now, wrong, codeOf, confirmed>>
  BY DEF SendCommit
<1>2. /\ RequestFits(r) /\ r.id \in Ids /\ r.code \in Codes /\ r.by \in Identifiers
      /\ r.sends < MaxSends /\ r \in RequestRow
  BY <1>1 DEF TypeInv, RequestsOK, RequestFits, Sends
<1>3. /\ r.at \in 0..MaxTime /\ r.at + TTL \in TTL..MaxTime + TTL /\ r.sends + 1 \in 1..MaxSends
      /\ 0 \in 0..MaxTries /\ 1 \in 1..MaxSends /\ 0 \in 0..MaxTime + TokenTTL /\ 0 # MaxTries /\ r.at <= now
      /\ 0 \in Nat
  BY <1>2, SettingsOK DEF RequestRow, TypeInv, HistoryOK, Settings
<1>4. Grows
  BY <1>1 DEF Grows
<1>5. r.code \in sent' /\ DOMAIN codeOf' = DOMAIN codeOf
  BY <1>1
<1>6. new \in PasswordResetCode' /\ RowFits(new)'
  <2>1. new \in PasswordResetCode'
    BY <1>2, <1>3, <1>5 DEF PasswordResetCode
  <2>2. new.sent <= now' /\ new.tries # MaxTries
    BY <1>1, <1>3
  <2> HIDE DEF new
  <2> QED
    BY <2>1, <2>2, <1>1 DEF RowFits, PasswordResetCode
<1>7. ASSUME r.id \in DOMAIN row
      PROVE  /\ again \in PasswordResetCode' /\ RowFits(again)'
             /\ again.code = r.code /\ again.sent = r.at /\ again.tries \in Nat
             /\ row[r.id].token = r.token => again.token = NoToken
  <2> PICK old : old = row[r.id]
    OBVIOUS
  <2> PICK tries : tries = IF r.tries = 0 THEN old.tries ELSE 0
    OBVIOUS
  <2> PICK token : token = IF r.token = NoToken THEN old.token ELSE NoToken
    OBVIOUS
  <2>1. again = [old EXCEPT !.code = r.code, !.expires = r.at + TTL, !.sent = r.at, !.sends = r.sends + 1,
                            !.tries = tries, !.token = token]
    BY DEF Resent
  <2>2. /\ old \in PasswordResetCode' /\ old.tries \in 0..MaxTries /\ old.token \in DOMAIN codeOf' \cup {NoToken}
        /\ old.tries = MaxTries => old.consumed
    BY <1>4, <1>5, <1>7, RowTypes, GrowsTypes DEF RowFits
  <2>3. /\ tries \in 0..MaxTries
        /\ tries = MaxTries => old.consumed
        /\ token \in DOMAIN codeOf' \cup {NoToken}
        /\ old.token = r.token => token = NoToken
    BY <1>3, <2>2
  <2>4. /\ again \in PasswordResetCode' /\ again.tries = tries /\ again.consumed = old.consumed
        /\ again.code = r.code /\ again.sent = r.at /\ again.token = token
    BY <1>3, <1>5, <2>1, <2>2, <2>3 DEF PasswordResetCode
  <2>5. tries \in Nat
    BY <2>3, SettingsOK DEF Settings
  <2>6. RowFits(again)'
    BY <1>1, <1>3, <2>3, <2>4 DEF RowFits
  <2> QED
    BY <2>3, <2>4, <2>5, <2>6
<1>8. new.code = r.code /\ new.sent = r.at /\ new.tries = 0 /\ new.token = NoToken
  OBVIOUS
<1> HIDE DEF new
<1>9. /\ DOMAIN row' = DOMAIN row \cup {r.id}
      /\ row'[r.id] = IF r.id \in DOMAIN row THEN again ELSE new
      /\ \A i \in DOMAIN row \ {r.id} : row'[i] = Closed(i, r.drop)
  BY <1>1
<1>10. RowFits(row[r.id])'
  BY <1>6, <1>7, <1>9 DEF RowFits
<1>11. \A i \in DOMAIN row \ {r.id} :
          Same(i) /\ RowFits(row[i])' /\ (~row'[i].consumed => i \notin r.drop)
  BY <1>4, <1>9, ClosedFacts
<1> QED
  BY <1>1, <1>2, <1>3, <1>4, <1>7, <1>8, <1>9, <1>10, <1>11

LEMMA GuessCommitFacts ==
    ASSUME TypeInv, NEW q, GuessCommit(q), NEW r, r = req[q]
    PROVE  /\ q \in DOMAIN req /\ RequestFits(r) /\ r.op = "wrong" /\ r.id \in DOMAIN row
           /\ r.code \in sent /\ r.code \in Codes /\ r.tries \in Nat
           /\ Grows /\ DOMAIN row' = DOMAIN row
           /\ \A i \in DOMAIN row \ {r.id} : Same(i) /\ RowFits(row[i])' /\ row'[i] = row[i]
           /\ RowFits(row[r.id])'
           /\ row'[r.id].code = row[r.id].code /\ row'[r.id].tries = r.tries + 1
           /\ row'[r.id].expires = row[r.id].expires /\ row'[r.id].sent = row[r.id].sent
           /\ row'[r.id].token = row[r.id].token
           /\ ~row'[r.id].consumed => ~row[r.id].consumed /\ r.tries + 1 < MaxTries
           /\ wrong' = [wrong EXCEPT ![r.code] = @ + 1]
           /\ End(q) /\ UNCHANGED <<now, sent, codeOf, confirmed>>
<1> DEFINE consumed == row[r.id].consumed \/ r.tries + 1 >= MaxTries
           new == [row[r.id] EXCEPT !.tries = r.tries + 1, !.consumed = consumed]
<1>1. /\ q \in DOMAIN req /\ r.op = "wrong"
      /\ row' = [row EXCEPT ![r.id] = new]
      /\ wrong' = [wrong EXCEPT ![r.code] = @ + 1]
      /\ End(q) /\ UNCHANGED <<now, sent, codeOf, confirmed>>
  BY DEF GuessCommit, Missed
<1>2. /\ RequestFits(r) /\ r.id \in DOMAIN row /\ r.code \in sent /\ r.code \in Codes
      /\ r.tries < MaxTries /\ r.tries \in 0..MaxTries
  BY <1>1 DEF TypeInv, RequestsOK, RequestFits, Checks, HistoryOK, RequestRow
<1>3. /\ consumed \in BOOLEAN
      /\ ~consumed => ~row[r.id].consumed /\ r.tries + 1 < MaxTries
      /\ r.tries + 1 = MaxTries => consumed
      /\ r.tries + 1 \in 0..MaxTries /\ r.tries \in Nat
  BY <1>2, SettingsOK DEF Settings
<1> HIDE DEF consumed
<1>4. Grows
  BY <1>1 DEF Grows
<1>5. row[r.id] \in PasswordResetCode /\ row[r.id].sent <= now
  BY <1>2, RowTypes
<1>6. /\ new \in PasswordResetCode
      /\ new.code = row[r.id].code /\ new.tries = r.tries + 1 /\ new.expires = row[r.id].expires
      /\ new.consumed = consumed /\ new.sent = row[r.id].sent /\ new.token = row[r.id].token
  BY <1>3, <1>5 DEF PasswordResetCode
<1> HIDE DEF new
<1>7. /\ DOMAIN row' = DOMAIN row /\ row'[r.id] = new
      /\ \A i \in DOMAIN row \ {r.id} : row'[i] = row[i]
  BY <1>1, <1>2
<1>8. RowFits(row[r.id])'
  BY <1>1, <1>3, <1>4, <1>5, <1>6, <1>7, GrowsTypes DEF RowFits
<1>9. \A i \in DOMAIN row \ {r.id} : Same(i) /\ RowFits(row[i])'
  BY <1>4, <1>7, UntouchedFacts
<1> QED
  BY <1>1, <1>2, <1>3, <1>4, <1>6, <1>7, <1>8, <1>9

LEMMA ExchangeIssues ==
    ASSUME NEW q, NEW t, ExchangeCommit(q, t)
    PROVE  /\ t \in ResetTokens /\ t \notin DOMAIN codeOf
           /\ DOMAIN codeOf' = DOMAIN codeOf \cup {t} /\ codeOf'[t] = req[q].code
           /\ \A u \in DOMAIN codeOf : codeOf'[u] = codeOf[u]
BY DEF ExchangeCommit

LEMMA ExchangeCommitFacts ==
    ASSUME TypeInv, NEW q, NEW t, ExchangeCommit(q, t), NEW r, r = req[q]
    PROVE  /\ q \in DOMAIN req /\ RequestFits(r) /\ r.op = "right" /\ r.id \in DOMAIN row
           /\ r.code \in sent
           /\ Grows /\ DOMAIN row' = DOMAIN row
           /\ \A i \in DOMAIN row \ {r.id} : Same(i) /\ RowFits(row[i])' /\ row'[i] = row[i]
           /\ RowFits(row[r.id])'
           /\ row'[r.id].code = row[r.id].code /\ row'[r.id].tries = row[r.id].tries
           /\ row'[r.id].expires = row[r.id].expires /\ row'[r.id].sent = row[r.id].sent
           /\ row'[r.id].token = t /\ row'[r.id].consumed = row[r.id].consumed
           /\ End(q) /\ UNCHANGED <<now, sent, wrong, confirmed>>
<1> DEFINE new == [row[r.id] EXCEPT !.token = t, !.token_expires = now + TokenTTL]
<1>1. /\ q \in DOMAIN req /\ r.op = "right"
      /\ row' = [row EXCEPT ![r.id] = new]
      /\ End(q) /\ UNCHANGED <<now, sent, wrong, confirmed>>
  BY DEF ExchangeCommit
<1>2. RequestFits(r) /\ r.id \in DOMAIN row /\ r.code \in sent
  BY <1>1 DEF TypeInv, RequestsOK, RequestFits, Checks
<1>3. DOMAIN codeOf' = DOMAIN codeOf \cup {t}
  BY ExchangeIssues
<1>4. Grows
  BY <1>1, <1>3 DEF Grows
<1>5. /\ row[r.id] \in PasswordResetCode' /\ row[r.id].sent <= now
      /\ row[r.id].tries = MaxTries => row[r.id].consumed
  BY <1>2, <1>4, RowTypes, GrowsTypes DEF RowFits
<1>6. now + TokenTTL \in 0..MaxTime + TokenTTL
  BY SettingsOK DEF TypeInv, HistoryOK, Settings
<1>7. /\ new \in PasswordResetCode'
      /\ new.code = row[r.id].code /\ new.tries = row[r.id].tries /\ new.expires = row[r.id].expires
      /\ new.consumed = row[r.id].consumed /\ new.sent = row[r.id].sent /\ new.token = t
  <2>1. t \in DOMAIN codeOf' \cup {NoToken}
    BY <1>3
  <2> QED
    BY <1>5, <1>6, <2>1 DEF PasswordResetCode
<1> HIDE DEF new
<1>8. /\ DOMAIN row' = DOMAIN row /\ row'[r.id] = new
      /\ \A i \in DOMAIN row \ {r.id} : row'[i] = row[i]
  BY <1>1, <1>2
<1>9. RowFits(row[r.id])'
  BY <1>1, <1>5, <1>7, <1>8 DEF RowFits
<1>10. \A i \in DOMAIN row \ {r.id} : Same(i) /\ RowFits(row[i])'
  BY <1>4, <1>8, UntouchedFacts
<1> QED
  BY <1>1, <1>2, <1>3, <1>4, <1>7, <1>8, <1>9, <1>10

LEMMA ConfirmCommitFacts ==
    ASSUME TypeInv, NEW q, ConfirmCommit(q), NEW r, r = req[q]
    PROVE  /\ q \in DOMAIN req /\ RequestFits(r) /\ r.op = "confirm" /\ r.id \in DOMAIN row
           /\ r.code \in sent /\ r.token \in DOMAIN codeOf
           /\ Grows /\ DOMAIN row' = DOMAIN row
           /\ \A i \in DOMAIN row \ {r.id} : row'[i] = row[i]
           /\ \A i \in DOMAIN row : Same(i) /\ RowFits(row[i])'
           /\ row'[r.id].consumed
           /\ confirmed' = confirmed \cup {codeOf[r.token]}
           /\ End(q) /\ UNCHANGED <<now, sent, wrong, codeOf>>
<1> DEFINE new == [row[r.id] EXCEPT !.consumed = TRUE]
<1>1. /\ q \in DOMAIN req /\ r.op = "confirm"
      /\ row' = [row EXCEPT ![r.id] = new]
      /\ confirmed' = confirmed \cup {codeOf[r.token]}
      /\ End(q) /\ UNCHANGED <<now, sent, wrong, codeOf>>
  BY DEF ConfirmCommit
<1>2. RequestFits(r) /\ r.id \in DOMAIN row /\ r.code \in sent /\ r.token \in DOMAIN codeOf
  BY <1>1 DEF TypeInv, RequestsOK, RequestFits, Checks
<1>3. Grows
  BY <1>1 DEF Grows
<1>4. row[r.id] \in PasswordResetCode
  BY <1>2, RowTypes
<1>5. new = Closed(r.id, {r.id}) /\ new.consumed
  BY <1>4 DEF Closed, PasswordResetCode
<1> HIDE DEF new
<1>6. /\ DOMAIN row' = DOMAIN row /\ row'[r.id] = new
      /\ \A i \in DOMAIN row \ {r.id} : row'[i] = row[i]
  BY <1>1, <1>2
<1>7. \A i \in DOMAIN row \ {r.id} : Same(i) /\ RowFits(row[i])'
  BY <1>3, <1>6, UntouchedFacts
<1>8. Same(r.id) /\ RowFits(row[r.id])'
  BY <1>2, <1>3, <1>5, <1>6, ClosedFacts
<1> QED
  BY <1>1, <1>2, <1>3, <1>5, <1>6, <1>7, <1>8

-----------------------------------------------------------------------------
\* Type correctness.

LEMMA BeginKeepsTypes ==
    ASSUME TypeInv, NEW q, NEW r, Begin(q, r), RequestFits(r), UNCHANGED <<now, row, history>>,
           r.id \notin DOMAIN row => \A p \in DOMAIN req : req[p].id # r.id
    PROVE  TypeInv'
<1>1. /\ q \in Requests /\ DOMAIN req' = DOMAIN req \cup {q}
      /\ req'[q] = r
      /\ \A p \in DOMAIN req : p # q /\ req'[p] = req[p]
  BY BeginFacts
<1>2. Grows
  BY DEF Grows, history
<1>3. \A p \in DOMAIN req' : RequestFits(req[p])'
  BY <1>1, <1>2, GrowsTypes DEF history, TypeInv, RequestsOK, RequestFits
<1>4. RequestsOK'
  BY <1>1, <1>3 DEF TypeInv, RequestsOK
<1>5. alone' \in BOOLEAN
  BY DEF Begin
<1>6. RowsOK'
  BY <1>2, UntouchedFacts DEF TypeInv, RowsOK, Ids
<1>7. HistoryOK'
  BY <1>5 DEF TypeInv, HistoryOK, history
<1> QED
  BY <1>4, <1>6, <1>7 DEF TypeInv

\* A request ends, and may have written its row and closed others.
LEMMA EndKeepsTypes ==
    ASSUME TypeInv, NEW q \in DOMAIN req, End(q), Grows,
           DOMAIN row \subseteq DOMAIN row', DOMAIN row' \subseteq DOMAIN row \cup {req[q].id}, DOMAIN row' \subseteq Ids,
           \A i \in DOMAIN row' : RowFits(row[i])',
           HistoryOK'
    PROVE  TypeInv'
<1>1. /\ DOMAIN req' = DOMAIN req \ {q}
      /\ \A p \in DOMAIN req' : req'[p] = req[p]
  BY EndFacts
<1>2. \A p \in DOMAIN req' : RequestFits(req[p])'
  BY <1>1, GrowsTypes DEF Grows, TypeInv, RequestsOK, RequestFits
<1>3. RequestsOK'
  BY <1>1, <1>2 DEF TypeInv, RequestsOK
<1> QED
  BY <1>3 DEF TypeInv, RowsOK, Ids

LEMMA SendGatherKeepsTypes ==
    ASSUME TypeInv, NEW q, SendGather(q)
    PROVE  TypeInv'
<1> PICK r : r = req[q]
  OBVIOUS
<1> PICK drop : drop = r.drop \cup Replaced(r.id)
  OBVIOUS
<1> DEFINE next == [r EXCEPT !.op = "sending", !.drop = drop]
<1>1. /\ q \in DOMAIN req /\ r.op = "send" /\ req' = [req EXCEPT ![q] = next]
      /\ UNCHANGED <<now, row, alone, history>>
  BY DEF SendGather
<1>2. RequestFits(r) /\ r \in RequestRow
  BY <1>1 DEF TypeInv, RequestsOK, RequestFits
<1>3. drop \in SUBSET Ids
  BY <1>2 DEF RequestRow, Replaced, ActiveRows, TypeInv, RowsOK
<1>4. /\ next \in RequestRow /\ next.op = "sending" /\ next.id = r.id /\ next.code = r.code
      /\ next.by = r.by /\ next.sends = r.sends
  BY <1>2, <1>3 DEF RequestRow
<1> HIDE DEF next
<1>5. RequestFits(next)
  BY <1>1, <1>2, <1>4 DEF RequestFits, Sends, Checks
<1>6. Grows
  BY <1>1 DEF Grows, history
<1>7. /\ DOMAIN req' = DOMAIN req /\ req'[q] = next
      /\ \A p \in DOMAIN req : req'[p].id = req[p].id /\ (p # q => req'[p] = req[p])
  BY <1>1, <1>4
<1>8. \A p \in DOMAIN req' : RequestFits(req[p])'
  BY <1>1, <1>5, <1>6, <1>7, GrowsTypes DEF history, TypeInv, RequestsOK, RequestFits
<1>9. RequestsOK'
  BY <1>1, <1>7, <1>8 DEF TypeInv, RequestsOK
<1>10. RowsOK'
  BY <1>1, <1>6, UntouchedFacts DEF TypeInv, RowsOK, Ids
<1>11. HistoryOK'
  BY <1>1 DEF TypeInv, HistoryOK, history
<1> QED
  BY <1>9, <1>10, <1>11 DEF TypeInv

LEMMA TypeInvStep == TypeInv /\ [Next]_vars => TypeInv'
<1> SUFFICES ASSUME TypeInv, [Next]_vars PROVE TypeInv'
  OBVIOUS
<1>1. ASSUME NEW q \in Requests, NEW identifier \in Identifiers, NEW c \in Codes, SendBegin(q, identifier, c)
      PROVE  TypeInv'
  <2>1. UNCHANGED <<now, row, history>>
    BY <1>1 DEF SendBegin
  <2> QED
    BY <1>1, <2>1, SendBeginFacts, BeginKeepsTypes
<1>2. ASSUME NEW q \in Requests, NEW c \in Codes, VerifyBegin(q, c)
      PROVE  TypeInv'
  <2>1. UNCHANGED <<now, row, history>>
    BY <1>2 DEF VerifyBegin
  <2> QED
    BY <1>2, <2>1, VerifyBeginFacts, BeginKeepsTypes
<1>3. ASSUME NEW q \in Requests, NEW i \in Ids, ConfirmBegin(q, i)
      PROVE  TypeInv'
  <2>1. UNCHANGED <<now, row, history>>
    BY <1>3 DEF ConfirmBegin
  <2> QED
    BY <1>3, <2>1, ConfirmBeginFacts, BeginKeepsTypes
<1>4. ASSUME NEW q \in Requests, SendGather(q)
      PROVE  TypeInv'
  BY <1>4, SendGatherKeepsTypes
<1>5. ASSUME NEW q \in Requests, SendCommit(q)
      PROVE  TypeInv'
  <2> PICK r : r = req[q]
    OBVIOUS
  <2>1. /\ q \in DOMAIN req /\ r.id \in Ids /\ r.code \in Codes
        /\ Grows /\ DOMAIN row' = DOMAIN row \cup {r.id}
        /\ \A i \in DOMAIN row \ {r.id} : RowFits(row[i])'
        /\ RowFits(row[r.id])'
        /\ sent' = sent \cup {r.code}
        /\ End(q) /\ UNCHANGED <<now, wrong, codeOf, confirmed>>
    BY <1>5, SendCommitFacts
  <2>2. HistoryOK'
    BY <2>1, EndFacts DEF TypeInv, HistoryOK
  <2>3. DOMAIN row' \subseteq Ids /\ \A i \in DOMAIN row' : RowFits(row[i])'
    BY <2>1 DEF TypeInv, RowsOK
  <2> QED
    BY <2>1, <2>2, <2>3, EndKeepsTypes
<1>6. ASSUME NEW q \in Requests, GuessCommit(q)
      PROVE  TypeInv'
  <2> PICK r : r = req[q]
    OBVIOUS
  <2>1. /\ q \in DOMAIN req /\ r.id \in DOMAIN row /\ r.code \in Codes
        /\ Grows /\ DOMAIN row' = DOMAIN row
        /\ \A i \in DOMAIN row \ {r.id} : RowFits(row[i])'
        /\ RowFits(row[r.id])'
        /\ wrong' = [wrong EXCEPT ![r.code] = @ + 1]
        /\ End(q) /\ UNCHANGED <<now, sent, codeOf, confirmed>>
    BY <1>6, GuessCommitFacts
  <2>2. wrong' \in [Codes -> Nat]
    BY <2>1 DEF TypeInv, HistoryOK
  <2>3. HistoryOK'
    BY <2>1, <2>2, EndFacts DEF TypeInv, HistoryOK
  <2>4. DOMAIN row' \subseteq Ids /\ \A i \in DOMAIN row' : RowFits(row[i])'
    BY <2>1 DEF TypeInv, RowsOK
  <2> QED
    BY <2>1, <2>3, <2>4, EndKeepsTypes
<1>7. ASSUME NEW q \in Requests, NEW t \in ResetTokens, ExchangeCommit(q, t)
      PROVE  TypeInv'
  <2> PICK r : r = req[q]
    OBVIOUS
  <2>1. /\ q \in DOMAIN req /\ r.id \in DOMAIN row /\ r.code \in sent
        /\ Grows /\ DOMAIN row' = DOMAIN row
        /\ \A i \in DOMAIN row \ {r.id} : RowFits(row[i])'
        /\ RowFits(row[r.id])'
        /\ End(q) /\ UNCHANGED <<now, sent, wrong, confirmed>>
    BY <1>7, ExchangeCommitFacts
  <2>2. HistoryOK'
    <3>1. \A u \in DOMAIN codeOf' : u \in ResetTokens /\ codeOf'[u] \in sent
      <4>1. /\ DOMAIN codeOf' = DOMAIN codeOf \cup {t} /\ codeOf'[t] \in sent
            /\ \A u \in DOMAIN codeOf : codeOf'[u] = codeOf[u]
        BY <1>7, <2>1, ExchangeIssues
      <4> QED
        BY <4>1 DEF TypeInv, HistoryOK
    <3>2. UNCHANGED <<now, alone, sent, wrong, confirmed>>
      BY <2>1, EndFacts
    <3> QED
      BY <3>1, <3>2 DEF TypeInv, HistoryOK
  <2>3. DOMAIN row' \subseteq Ids /\ \A i \in DOMAIN row' : RowFits(row[i])'
    BY <2>1 DEF TypeInv, RowsOK
  <2> QED
    BY <2>1, <2>2, <2>3, EndKeepsTypes
<1>8. ASSUME NEW q \in Requests, ConfirmCommit(q)
      PROVE  TypeInv'
  <2> PICK r : r = req[q]
    OBVIOUS
  <2>1. /\ q \in DOMAIN req /\ r.id \in DOMAIN row /\ r.token \in DOMAIN codeOf
        /\ Grows /\ DOMAIN row' = DOMAIN row
        /\ \A i \in DOMAIN row : RowFits(row[i])'
        /\ confirmed' = confirmed \cup {codeOf[r.token]}
        /\ End(q) /\ UNCHANGED <<now, sent, wrong, codeOf>>
    BY <1>8, ConfirmCommitFacts
  <2>2. HistoryOK'
    BY <2>1, EndFacts DEF TypeInv, HistoryOK
  <2>3. DOMAIN row' \subseteq Ids /\ \A i \in DOMAIN row' : RowFits(row[i])'
    BY <2>1 DEF TypeInv, RowsOK
  <2> QED
    BY <2>1, <2>2, <2>3, EndKeepsTypes
<1>9. ASSUME NEW q \in Requests, Fail(q)
      PROVE  TypeInv'
  <2>1. q \in DOMAIN req /\ End(q) /\ UNCHANGED <<now, row, history>> /\ Grows
    BY <1>9 DEF Fail, Grows, history
  <2>2. HistoryOK'
    BY <2>1, EndFacts DEF TypeInv, HistoryOK, history
  <2>3. DOMAIN row' \subseteq Ids /\ \A i \in DOMAIN row' : RowFits(row[i])'
    BY <2>1, UntouchedFacts DEF TypeInv, RowsOK
  <2> QED
    BY <2>1, <2>2, <2>3, EndKeepsTypes
<1>10. CASE Tick
  <2>1. /\ now' \in 0..MaxTime /\ 0..now \subseteq 0..now' /\ now <= now'
        /\ now \in Nat /\ now' \in Nat
        /\ UNCHANGED <<row, req, alone, sent, wrong, codeOf, confirmed>>
    BY <1>10, SettingsOK DEF Tick, TypeInv, HistoryOK, Settings, history
  <2>2. RequestRow \subseteq RequestRow' /\ PasswordResetCode' = PasswordResetCode
    BY <2>1 DEF RequestRow, PasswordResetCode
  <2>3. \A q \in DOMAIN req : RequestFits(req[q])'
    BY <2>1, <2>2 DEF TypeInv, RequestsOK, RequestFits
  <2>4. RequestsOK'
    BY <2>1, <2>3 DEF TypeInv, RequestsOK
  <2>5. \A i \in DOMAIN row : RowFits(row[i])'
    <3> SUFFICES ASSUME NEW i \in DOMAIN row PROVE RowFits(row[i])'
      OBVIOUS
    <3>1. RowFits(row[i]) /\ row[i].sent \in Nat
      BY RowTypes
    <3>2. row[i].sent <= now'
      BY <2>1, <3>1 DEF RowFits
    <3> QED
      BY <2>1, <2>2, <3>1, <3>2 DEF RowFits
  <2>6. RowsOK'
    BY <2>1, <2>5 DEF TypeInv, RowsOK, Ids
  <2>7. HistoryOK'
    BY <2>1 DEF TypeInv, HistoryOK
  <2> QED
    BY <2>4, <2>6, <2>7 DEF TypeInv
<1>11. CASE UNCHANGED vars
  <2>1. Grows /\ UNCHANGED <<now, row, req, alone, sent, wrong, codeOf, confirmed>>
    BY <1>11 DEF vars, Grows
  <2>2. RowsOK'
    BY <2>1, UntouchedFacts DEF TypeInv, RowsOK, Ids
  <2>3. \A q \in DOMAIN req : RequestFits(req[q])'
    BY <2>1, GrowsTypes DEF TypeInv, RequestsOK, RequestFits
  <2> QED
    BY <2>1, <2>2, <2>3 DEF TypeInv, RequestsOK, HistoryOK
<1> QED
  BY <1>1, <1>2, <1>3, <1>4, <1>5, <1>6, <1>7, <1>8, <1>9, <1>10, <1>11 DEF Next

\* The tables are well formed, and the counts stay below their limits, for any identifiers,
\* codes, reset tokens, requests, settings and bounds.
THEOREM ResetTypeCorrect == Spec => []TypeOK
<1>1. Spec => []TypeInv
  BY TypeInvInit, TypeInvStep, PTL DEF Spec
<1> QED
  BY <1>1, TypeInvTypeOK, PTL

-----------------------------------------------------------------------------
\* Requests that come one at a time.

\* What request r has read still holds: it asks for a new code in the last row, and
\* knows the rows that must give way; or it has read the row it is about to write.
UpToDate(r) ==
    /\ r.op \in Sends =>
          /\ r.code \notin sent
          /\ \A i \in DOMAIN row : i <= r.id
          /\ \A i \in DOMAIN row \ {r.id} : row[i].consumed \/ i \in r.drop \/ row[i].expires <= r.at
          /\ r.id \in DOMAIN row => row[r.id].token = r.token
    /\ r.op \in Checks => ~row[r.id].consumed /\ row[r.id].code = r.code /\ row[r.id].tries = r.tries
    /\ r.op \in {"right", "wrong"} => \A i \in DOMAIN row : i <= r.id
    /\ r.op = "confirm" => row[r.id].token = r.token /\ r.token # NoToken

OneRequest == /\ \A p, q \in DOMAIN req : p = q
              /\ \A q \in DOMAIN req : UpToDate(req[q])

\* No code is in two rows, a row's token was issued for its code, and an open row has
\* counted the wrong guesses at its code.
CodesCount ==
    /\ \A i, j \in DOMAIN row : i # j => row[i].code # row[j].code
    /\ \A i \in DOMAIN row : row[i].token # NoToken => codeOf[row[i].token] = row[i].code
    /\ \A i \in DOMAIN row : ~row[i].consumed => wrong[row[i].code] <= row[i].tries
    /\ \A c \in Codes \ sent : wrong[c] = 0

\* An open row's code had expired when a later row's was asked for.
OpenExpire == \A i, j \in DOMAIN row : i < j /\ ~row[i].consumed => row[i].expires <= row[j].sent

AloneInv == alone => OneRequest /\ CodesCount /\ OpenExpire

\* A step that leaves the rows and the codes, and begins no request.
LEMMA AloneInvKept ==
    ASSUME TypeInv, AloneInv, alone' => alone, UNCHANGED <<row, sent, wrong, codeOf>>,
           DOMAIN req' \subseteq DOMAIN req, \A p \in DOMAIN req' : req'[p] = req[p]
    PROVE  AloneInv'
<1> SUFFICES ASSUME alone' PROVE OneRequest' /\ CodesCount' /\ OpenExpire'
  BY DEF AloneInv
<1>1. OneRequest /\ CodesCount /\ OpenExpire
  BY DEF AloneInv
<1>2. CodesCount' /\ OpenExpire'
  BY <1>1 DEF CodesCount, OpenExpire
<1>3. \A p \in DOMAIN req' : UpToDate(req[p])'
  BY <1>1 DEF OneRequest, UpToDate
<1>4. OneRequest'
  BY <1>1, <1>3 DEF OneRequest
<1> QED
  BY <1>2, <1>4

\* A request that begins alone, and has read what it needs.
LEMMA BeginKeepsAlone ==
    ASSUME AloneInv, NEW q, NEW r, Begin(q, r), UNCHANGED <<now, row, history>>,
           alone => UpToDate(r)
    PROVE  AloneInv'
<1> SUFFICES ASSUME alone' PROVE OneRequest' /\ CodesCount' /\ OpenExpire'
  BY DEF AloneInv
<1>1. alone /\ req = <<>> /\ UNCHANGED <<row, sent, wrong, codeOf>>
  BY DEF Begin, history
<1>2. DOMAIN req' = {q} /\ req'[q] = r
  BY <1>1 DEF Begin
<1>3. UpToDate(req[q])'
  BY <1>1, <1>2 DEF UpToDate
<1>4. OneRequest'
  BY <1>2, <1>3 DEF OneRequest
<1>5. CodesCount' /\ OpenExpire'
  BY <1>1 DEF AloneInv, CodesCount, OpenExpire
<1> QED
  BY <1>4, <1>5

\* The only request ends.
LEMMA EndLeavesNone ==
    ASSUME OneRequest, NEW q \in DOMAIN req, End(q)
    PROVE  DOMAIN req' = {} /\ OneRequest'
BY EndFacts DEF OneRequest

LEMMA AloneInvInit == Init => AloneInv
<1> SUFFICES ASSUME Init PROVE AloneInv
  OBVIOUS
<1>1. DOMAIN row = {} /\ DOMAIN req = {} /\ \A c \in Codes : wrong[c] = 0
  BY DEF Init
<1> QED
  BY <1>1 DEF AloneInv, OneRequest, CodesCount, OpenExpire

LEMMA IdsAreIntegers == TypeInv => Ids \subseteq Int /\ \A i \in DOMAIN row : i \in Int
BY SettingsOK DEF Ids, Settings, TypeInv, RowsOK

\* An open row with a later one beside it is not active.
LEMMA OnlyTheLastIsActive ==
    ASSUME TypeInv, OpenExpire, NEW i \in DOMAIN row, Active(i), NEW j \in DOMAIN row
    PROVE  j <= i
<1>1. row[i].expires \in Nat /\ row[j].sent \in Nat /\ row[j].sent <= now /\ now \in Nat
  BY RowTypes, SettingsOK DEF TypeInv, HistoryOK, Settings
<1>2. ~row[i].consumed /\ row[i].expires > now
  BY DEF Active
<1>3. ~(i < j)
  BY <1>1, <1>2 DEF OpenExpire
<1>4. i \in Int /\ j \in Int
  BY IdsAreIntegers
<1> QED
  BY <1>3, <1>4

LEMMA SendBeginKeepsAlone ==
    ASSUME TypeInv, AloneInv, NEW q, NEW identifier \in Identifiers, NEW c \in Codes,
           SendBegin(q, identifier, c)
    PROVE  AloneInv'
<1> PICK r : /\ Begin(q, r) /\ RequestFits(r)
             /\ r.op = "send" /\ r.code = c /\ r.at = now /\ c \notin sent
             /\ r.id \in DOMAIN row => /\ Active(r.id) /\ \A i \in ActiveRows : i <= r.id
                                       /\ row[r.id].token = r.token
             /\ r.id \notin DOMAIN row => /\ \A p \in DOMAIN req : req[p].id # r.id
                                          /\ \A i \in DOMAIN row : i < r.id
             /\ \A i \in ActiveRows \ {r.id} : (\A k \in ActiveRows : k <= i) => i \in r.drop
  BY SendBeginFacts
<1>1. UNCHANGED <<now, row, history>>
  BY DEF SendBegin
<1>2. ASSUME alone PROVE UpToDate(r)
  <2>1. OpenExpire
    BY <1>2 DEF AloneInv
  <2>2. r.id \in Int
    BY IdsAreIntegers DEF RequestFits, Sends
  <2>3. ASSUME NEW i \in DOMAIN row PROVE i <= r.id
    <3>1. CASE r.id \in DOMAIN row
      BY <2>1, <3>1, OnlyTheLastIsActive
    <3>2. CASE r.id \notin DOMAIN row
      <4>1. i < r.id /\ i \in Int
        BY <3>2, IdsAreIntegers
      <4> QED
        BY <2>2, <4>1
    <3> QED
      BY <3>1, <3>2
  <2>4. ASSUME NEW i \in DOMAIN row \ {r.id}
        PROVE  row[i].consumed \/ i \in r.drop \/ row[i].expires <= r.at
    <3>1. row[i].expires \in Int /\ now \in Int
      BY RowTypes, SettingsOK DEF TypeInv, HistoryOK, Settings
    <3>2. CASE Active(i)
      <4>1. ActiveRows \subseteq DOMAIN row /\ i \in ActiveRows
        BY <3>2 DEF ActiveRows
      <4>2. \A k \in ActiveRows : k <= i
        BY <2>1, <3>2, <4>1, OnlyTheLastIsActive
      <4> QED
        BY <4>1, <4>2
    <3>3. CASE ~Active(i)
      BY <3>1, <3>3 DEF Active
    <3> QED
      BY <3>2, <3>3
  <2> QED
    BY <2>3, <2>4 DEF UpToDate, Checks
<1> QED
  BY <1>1, <1>2, BeginKeepsAlone

LEMMA SendGatherKeepsAlone ==
    ASSUME TypeInv, AloneInv, NEW q, SendGather(q)
    PROVE  AloneInv'
<1> SUFFICES ASSUME alone' PROVE OneRequest' /\ CodesCount' /\ OpenExpire'
  BY DEF AloneInv
<1> PICK r : r = req[q]
  OBVIOUS
<1> PICK drop : drop = r.drop \cup Replaced(r.id)
  OBVIOUS
<1> DEFINE next == [r EXCEPT !.op = "sending", !.drop = drop]
<1>1. /\ q \in DOMAIN req /\ r.op = "send" /\ req' = [req EXCEPT ![q] = next]
      /\ UNCHANGED <<row, alone, sent, wrong, codeOf>>
  BY DEF SendGather, history
<1>2. OneRequest /\ CodesCount /\ OpenExpire /\ UpToDate(r)
  BY <1>1 DEF AloneInv, OneRequest
<1>3. r \in RequestRow
  BY <1>1 DEF TypeInv, RequestsOK, RequestFits
<1>4. /\ next.op = "sending" /\ next.id = r.id /\ next.code = r.code /\ next.at = r.at
      /\ next.token = r.token /\ r.drop \subseteq next.drop
  BY <1>3 DEF RequestRow
<1> HIDE DEF next
<1>5. UpToDate(next)
  BY <1>1, <1>2, <1>4 DEF UpToDate, Sends, Checks
<1>6. DOMAIN req' = {q} /\ req'[q] = next
  BY <1>1, <1>2 DEF OneRequest
<1>7. UpToDate(req[q])'
  BY <1>1, <1>5, <1>6 DEF UpToDate
<1>8. OneRequest'
  BY <1>6, <1>7 DEF OneRequest
<1> QED
  BY <1>1, <1>2, <1>8 DEF CodesCount, OpenExpire

\* A commit that writes row id.
LEMMA CommitKeepsAlone ==
    ASSUME TypeInv, CodesCount, OpenExpire, NEW id, DOMAIN row' = DOMAIN row \cup {id},
           sent \subseteq sent',
           \A c \in Codes \ sent' : wrong'[c] = wrong[c],
           \A i \in DOMAIN row \ {id} :
              /\ Same(i)
              /\ row[i].code # row'[id].code
              /\ wrong'[row[i].code] = wrong[row[i].code]
              /\ row[i].token # NoToken => codeOf'[row[i].token] = codeOf[row[i].token]
              /\ i < id /\ ~row'[i].consumed => row[i].expires <= row'[id].sent
              /\ id < i /\ ~row'[id].consumed => row'[id].expires <= row[i].sent,
           row'[id].token # NoToken => codeOf'[row'[id].token] = row'[id].code,
           ~row'[id].consumed => wrong'[row'[id].code] <= row'[id].tries,
           ~(id < id)
    PROVE  CodesCount' /\ OpenExpire'
<1>1. \A i, j \in DOMAIN row' : i # j => row'[i].code # row'[j].code
  BY DEF CodesCount, Same
<1>2. \A i \in DOMAIN row' : ~row'[i].consumed => wrong'[row'[i].code] <= row'[i].tries
  BY DEF CodesCount, Same
<1>3. \A i \in DOMAIN row' : row'[i].token # NoToken => codeOf'[row'[i].token] = row'[i].code
  BY DEF CodesCount, Same
<1>4. \A c \in Codes \ sent' : wrong'[c] = 0
  BY DEF CodesCount
<1>5. OpenExpire'
  BY DEF OpenExpire, Same
<1> QED
  BY <1>1, <1>2, <1>3, <1>4, <1>5 DEF CodesCount

LEMMA SendKeepsAlone == ASSUME TypeInv, AloneInv, alone, NEW q, SendCommit(q) PROVE CodesCount' /\ OpenExpire'
<1> PICK r : r = req[q]
  OBVIOUS
<1>1. OneRequest /\ CodesCount /\ OpenExpire
  BY DEF AloneInv
<1>2. /\ q \in DOMAIN req /\ r.op = "sending" /\ r.id \in Ids /\ r.code \in Codes
      /\ DOMAIN row' = DOMAIN row \cup {r.id}
      /\ \A i \in DOMAIN row \ {r.id} : Same(i) /\ (~row'[i].consumed => i \notin r.drop)
      /\ row'[r.id].code = r.code /\ row'[r.id].sent = r.at /\ row'[r.id].tries \in Nat
      /\ (r.id \in DOMAIN row => row[r.id].token = r.token) => row'[r.id].token = NoToken
      /\ sent' = sent \cup {r.code}
      /\ UNCHANGED <<wrong, codeOf>>
  BY SendCommitFacts
<1>3. /\ r.code \notin sent
      /\ \A i \in DOMAIN row : i <= r.id
      /\ \A i \in DOMAIN row \ {r.id} : row[i].consumed \/ i \in r.drop \/ row[i].expires <= r.at
      /\ row'[r.id].token = NoToken
  BY <1>1, <1>2 DEF OneRequest, UpToDate, Sends
<1>4. r.id \in Int /\ \A i \in DOMAIN row : i \in Int
  BY <1>2, IdsAreIntegers
<1>5. \A i \in DOMAIN row : row[i].code # r.code
  BY <1>3, RowTypes
<1>6. wrong'[r.code] = 0
  BY <1>1, <1>2, <1>3 DEF CodesCount
<1>7. \A i \in DOMAIN row \ {r.id} : ~row'[i].consumed => row[i].expires <= r.at
  BY <1>2, <1>3 DEF Same
<1>8. ~(r.id < r.id) /\ \A i \in DOMAIN row : ~(r.id < i)
  <2>1. ASSUME NEW i \in DOMAIN row PROVE ~(r.id < i)
    <3>1. i <= r.id /\ i \in Int
      BY <1>3, <1>4
    <3> QED
      BY <1>4, <3>1
  <2> QED
    BY <1>4, <2>1
<1> QED
  <2>1. \A i \in DOMAIN row \ {r.id} :
              /\ Same(i)
              /\ row[i].code # row'[r.id].code
              /\ wrong'[row[i].code] = wrong[row[i].code]
              /\ row[i].token # NoToken => codeOf'[row[i].token] = codeOf[row[i].token]
              /\ i < r.id /\ ~row'[i].consumed => row[i].expires <= row'[r.id].sent
              /\ r.id < i /\ ~row'[r.id].consumed => row'[r.id].expires <= row[i].sent
    BY <1>2, <1>5, <1>7, <1>8
  <2>2. /\ sent \subseteq sent' /\ \A c \in Codes \ sent' : wrong'[c] = wrong[c]
        /\ row'[r.id].token = NoToken
        /\ wrong'[row'[r.id].code] <= row'[r.id].tries
    BY <1>2, <1>3, <1>6
  <2> QED
    BY <1>1, <1>2, <1>8, <2>1, <2>2, CommitKeepsAlone

\* A commit that writes the row it has read, and leaves its code where it is.
LEMMA RewriteKeepsAlone ==
    ASSUME TypeInv, CodesCount, OpenExpire, NEW id \in DOMAIN row, DOMAIN row' = DOMAIN row,
           sent' = sent, \A c \in Codes \ sent : wrong'[c] = wrong[c],
           \A i \in DOMAIN row \ {id} : row'[i] = row[i] /\ wrong'[row[i].code] = wrong[row[i].code],
           row'[id].code = row[id].code,
           ~row'[id].consumed =>
              /\ ~row[id].consumed /\ row'[id].expires = row[id].expires
              /\ wrong'[row[id].code] <= row'[id].tries,
           row'[id].sent = row[id].sent,
           \A t \in DOMAIN codeOf : codeOf'[t] = codeOf[t],
           row'[id].token # NoToken => codeOf'[row'[id].token] = row[id].code
    PROVE  CodesCount' /\ OpenExpire'
<1>1. \A i \in DOMAIN row \ {id} : Same(i)
  BY DEF Same
<1>2. \A i \in DOMAIN row : row[i].token # NoToken => codeOf'[row[i].token] = codeOf[row[i].token]
  BY RowTypes
<1>3. \A i \in DOMAIN row \ {id} : /\ i < id /\ ~row'[i].consumed => row[i].expires <= row'[id].sent
                                   /\ id < i /\ ~row'[id].consumed => row'[id].expires <= row[i].sent
  BY DEF OpenExpire
<1>4. ~(id < id)
  BY RowTypes, SettingsOK DEF Ids, Settings
<1>5. \A i \in DOMAIN row \ {id} : row[i].code # row'[id].code
  BY DEF CodesCount
<1> QED
  BY <1>1, <1>2, <1>3, <1>4, <1>5, CommitKeepsAlone

LEMMA GuessKeepsAlone == ASSUME TypeInv, AloneInv, alone, NEW q, GuessCommit(q) PROVE CodesCount' /\ OpenExpire'
<1> PICK r : r = req[q]
  OBVIOUS
<1>1. OneRequest /\ CodesCount /\ OpenExpire
  BY DEF AloneInv
<1>2. /\ q \in DOMAIN req /\ r.op = "wrong" /\ r.id \in DOMAIN row
      /\ r.code \in sent /\ r.code \in Codes /\ r.tries \in Nat
      /\ DOMAIN row' = DOMAIN row /\ \A i \in DOMAIN row \ {r.id} : row'[i] = row[i]
      /\ row'[r.id].code = row[r.id].code /\ row'[r.id].tries = r.tries + 1
      /\ row'[r.id].expires = row[r.id].expires /\ row'[r.id].sent = row[r.id].sent
      /\ row'[r.id].token = row[r.id].token
      /\ ~row'[r.id].consumed => ~row[r.id].consumed /\ r.tries + 1 < MaxTries
      /\ wrong' = [wrong EXCEPT ![r.code] = @ + 1]
      /\ UNCHANGED <<sent, codeOf>>
  BY GuessCommitFacts
<1>3. ~row[r.id].consumed /\ row[r.id].code = r.code /\ row[r.id].tries = r.tries
  BY <1>1, <1>2 DEF OneRequest, UpToDate, Checks
<1>4. wrong \in [Codes -> Nat] /\ wrong[r.code] <= r.tries
  BY <1>1, <1>2, <1>3 DEF CodesCount, TypeInv, HistoryOK
<1>5. wrong'[r.code] <= r.tries + 1 /\ \A c \in Codes \ {r.code} : wrong'[c] = wrong[c]
  <2>1. wrong'[r.code] = wrong[r.code] + 1 /\ wrong[r.code] \in Nat
    BY <1>2, <1>4
  <2> QED
    BY <1>2, <1>4, <2>1
<1>6. \A i \in DOMAIN row \ {r.id} : row[i].code \in Codes \ {r.code}
  BY <1>1, <1>2, <1>3, RowTypes DEF CodesCount
<1>7. row'[r.id].token # NoToken => codeOf'[row'[r.id].token] = row[r.id].code
  BY <1>1, <1>2 DEF CodesCount
<1>8. /\ \A c \in Codes \ sent : wrong'[c] = wrong[c]
      /\ \A i \in DOMAIN row \ {r.id} : row'[i] = row[i] /\ wrong'[row[i].code] = wrong[row[i].code]
      /\ \A t \in DOMAIN codeOf : codeOf'[t] = codeOf[t]
      /\ wrong'[row[r.id].code] <= row'[r.id].tries
  BY <1>2, <1>3, <1>5, <1>6
<1> QED
  BY <1>1, <1>2, <1>7, <1>8, RewriteKeepsAlone

LEMMA ExchangeKeepsAlone ==
    ASSUME TypeInv, AloneInv, alone, NEW q, NEW t, ExchangeCommit(q, t)
    PROVE  CodesCount' /\ OpenExpire'
<1> PICK r : r = req[q]
  OBVIOUS
<1>1. OneRequest /\ CodesCount /\ OpenExpire
  BY DEF AloneInv
<1>2. /\ q \in DOMAIN req /\ r.op = "right" /\ r.id \in DOMAIN row
      /\ DOMAIN row' = DOMAIN row /\ \A i \in DOMAIN row \ {r.id} : row'[i] = row[i]
      /\ row'[r.id].code = row[r.id].code /\ row'[r.id].tries = row[r.id].tries
      /\ row'[r.id].expires = row[r.id].expires /\ row'[r.id].sent = row[r.id].sent
      /\ row'[r.id].token = t /\ row'[r.id].consumed = row[r.id].consumed
      /\ UNCHANGED <<sent, wrong>>
  BY ExchangeCommitFacts
<1>3. row[r.id].code = r.code
  BY <1>1, <1>2 DEF OneRequest, UpToDate, Checks
<1>4. codeOf'[t] = r.code /\ \A u \in DOMAIN codeOf : codeOf'[u] = codeOf[u]
  BY ExchangeIssues
<1>5. ~row[r.id].consumed => wrong[row[r.id].code] <= row[r.id].tries
  BY <1>1, <1>2 DEF CodesCount
<1> QED
  BY <1>1, <1>2, <1>3, <1>4, <1>5, RewriteKeepsAlone

LEMMA ConfirmKeepsAlone == ASSUME TypeInv, AloneInv, alone, NEW q, ConfirmCommit(q) PROVE CodesCount' /\ OpenExpire'
<1> PICK r : r = req[q]
  OBVIOUS
<1>1. OneRequest /\ CodesCount /\ OpenExpire
  BY DEF AloneInv
<1>2. /\ q \in DOMAIN req /\ r.id \in DOMAIN row /\ DOMAIN row' = DOMAIN row
      /\ \A i \in DOMAIN row \ {r.id} : row'[i] = row[i]
      /\ \A i \in DOMAIN row : Same(i)
      /\ row'[r.id].consumed
      /\ UNCHANGED <<sent, wrong, codeOf>>
  BY ConfirmCommitFacts
<1>3. /\ row'[r.id].code = row[r.id].code /\ row'[r.id].sent = row[r.id].sent
      /\ row'[r.id].token = row[r.id].token
  BY <1>2 DEF Same
<1>4. row'[r.id].token # NoToken => codeOf'[row'[r.id].token] = row[r.id].code
  BY <1>1, <1>2, <1>3 DEF CodesCount
<1> QED
  BY <1>1, <1>2, <1>3, <1>4, RewriteKeepsAlone

LEMMA AloneInvStep == TypeInv /\ AloneInv /\ [Next]_vars => AloneInv'
<1> SUFFICES ASSUME TypeInv, AloneInv, [Next]_vars PROVE AloneInv'
  OBVIOUS
<1>1. ASSUME NEW q \in Requests, NEW identifier \in Identifiers, NEW c \in Codes, SendBegin(q, identifier, c)
      PROVE  AloneInv'
  BY <1>1, SendBeginKeepsAlone
<1>2. ASSUME NEW q \in Requests, NEW c \in Codes, VerifyBegin(q, c)
      PROVE  AloneInv'
  <2> PICK r : /\ Begin(q, r) /\ RequestFits(r)
               /\ r.op \in {"right", "wrong"} /\ r.id \in DOMAIN row /\ Active(r.id)
               /\ r.code = row[r.id].code /\ r.tries = row[r.id].tries
               /\ \A i \in DOMAIN row : i <= r.id
    BY <1>2, VerifyBeginFacts
  <2>1. UpToDate(r)
    BY DEF UpToDate, Sends, Active
  <2>2. UNCHANGED <<now, row, history>>
    BY <1>2 DEF VerifyBegin
  <2> QED
    BY <2>1, <2>2, BeginKeepsAlone
<1>3. ASSUME NEW q \in Requests, NEW i \in Ids, ConfirmBegin(q, i)
      PROVE  AloneInv'
  <2> PICK r : /\ Begin(q, r) /\ RequestFits(r)
               /\ r.op = "confirm" /\ r.id \in DOMAIN row /\ Confirmable(r.id)
               /\ r.code = row[r.id].code /\ r.tries = row[r.id].tries
               /\ r.token = row[r.id].token /\ r.token # NoToken
    BY <1>3, ConfirmBeginFacts
  <2>1. UpToDate(r)
    BY DEF UpToDate, Sends, Confirmable
  <2>2. UNCHANGED <<now, row, history>>
    BY <1>3 DEF ConfirmBegin
  <2> QED
    BY <2>1, <2>2, BeginKeepsAlone
<1>4. ASSUME NEW q \in Requests, SendGather(q)
      PROVE  AloneInv'
  BY <1>4, SendGatherKeepsAlone
\* The commits end their request.
<1>5. ASSUME NEW q \in DOMAIN req, End(q), alone => CodesCount' /\ OpenExpire'
      PROVE  AloneInv'
  <2> SUFFICES ASSUME alone' PROVE OneRequest' /\ CodesCount' /\ OpenExpire'
    BY DEF AloneInv
  <2>1. alone
    BY <1>5 DEF End
  <2>2. OneRequest
    BY <2>1 DEF AloneInv
  <2> QED
    BY <1>5, <2>1, <2>2, EndLeavesNone
<1>6. ASSUME NEW q \in Requests, SendCommit(q) PROVE AloneInv'
  <2>1. q \in DOMAIN req /\ End(q)
    BY <1>6 DEF SendCommit
  <2> QED
    BY <1>5, <1>6, <2>1, SendKeepsAlone
<1>7. ASSUME NEW q \in Requests, GuessCommit(q) PROVE AloneInv'
  <2>1. q \in DOMAIN req /\ End(q)
    BY <1>7 DEF GuessCommit
  <2> QED
    BY <1>5, <1>7, <2>1, GuessKeepsAlone
<1>8. ASSUME NEW q \in Requests, NEW t \in ResetTokens, ExchangeCommit(q, t) PROVE AloneInv'
  <2>1. q \in DOMAIN req /\ End(q)
    BY <1>8 DEF ExchangeCommit
  <2> QED
    BY <1>5, <1>8, <2>1, ExchangeKeepsAlone
<1>9. ASSUME NEW q \in Requests, ConfirmCommit(q) PROVE AloneInv'
  <2>1. q \in DOMAIN req /\ End(q)
    BY <1>9 DEF ConfirmCommit
  <2> QED
    BY <1>5, <1>9, <2>1, ConfirmKeepsAlone
<1>10. ASSUME NEW q \in Requests, Fail(q) PROVE AloneInv'
  BY <1>10, EndFacts, AloneInvKept DEF Fail, history
<1>11. CASE Tick
  BY <1>11, AloneInvKept DEF Tick, history
<1>12. CASE UNCHANGED vars
  BY <1>12, AloneInvKept DEF vars
<1> QED
  BY <1>1, <1>2, <1>3, <1>4, <1>6, <1>7, <1>8, <1>9, <1>10, <1>11, <1>12 DEF Next

\* As long as requests come one at a time, two reset tokens work side by side only where
\* the code of the first had expired before the second was asked for, for any bounds.
THEOREM TokensSideBySide == Spec => []SideBySideAfterExpiry
<1>1. Spec => [](TypeInv /\ AloneInv)
  BY TypeInvInit, TypeInvStep, AloneInvInit, AloneInvStep, PTL DEF Spec
<1>2. AloneInv => SideBySideAfterExpiry
  BY DEF AloneInv, OpenExpire, SideBySideAfterExpiry, Confirmable
<1> QED
  BY <1>1, <1>2, PTL

-----------------------------------------------------------------------------
\* The promise of OneTimeCodes.

LiveRows == {j \in DOMAIN row : Active(j) \/ Confirmable(j) \/ (j \in Checked /\ ~row[j].consumed)}
LiveCodes == {row[i].code : i \in LiveRows}
PromiseStep == Promise!Next \/ UNCHANGED Promise!vars

\* The steps of OneTimeCodes, in terms of the rows.
LEMMA StepLapses ==
    ASSUME LiveCodes' \subseteq LiveCodes, UNCHANGED <<sent, wrong, confirmed>>
    PROVE  PromiseStep
<1>1. CASE LiveCodes' = LiveCodes
  <2>1. UNCHANGED Promise!vars
    BY <1>1 DEF Promise!vars, LiveCodes, LiveRows
  <2> QED
    BY <2>1 DEF PromiseStep
<1>2. CASE LiveCodes' # LiveCodes
  <2> PICK old : old = LiveCodes \ LiveCodes'
    OBVIOUS
  <2>1. old \in SUBSET LiveCodes /\ old # {} /\ LiveCodes' = LiveCodes \ old
    BY <1>2
  <2>2. Promise!Lapse(old)
    BY <2>1 DEF Promise!Lapse, LiveCodes, LiveRows
  <2>3. Promise!Next
    BY <2>1, <2>2 DEF Promise!Next, LiveCodes, LiveRows
  <2> QED
    BY <2>3 DEF PromiseStep
<1> QED
  BY <1>1, <1>2

LEMMA StepSends ==
    ASSUME NEW c \in Codes \ sent, sent' = sent \cup {c},
           LiveCodes' \subseteq LiveCodes \cup {c}, UNCHANGED <<wrong, confirmed>>
    PROVE  PromiseStep
<1> PICK old : old = (LiveCodes \cup {c}) \ LiveCodes'
  OBVIOUS
<1>1. old \in SUBSET (LiveCodes \cup {c}) /\ LiveCodes' = (LiveCodes \cup {c}) \ old
  OBVIOUS
<1>2. Codes \ sent' = (Codes \ sent) \ {c}
  OBVIOUS
<1>3. Promise!Send(c, old)
  BY <1>1, <1>2 DEF Promise!Send, LiveCodes, LiveRows
<1>4. Promise!Next
  BY <1>1, <1>3 DEF Promise!Next, LiveCodes, LiveRows
<1> QED
  BY <1>4 DEF PromiseStep

LEMMA StepGuesses ==
    ASSUME NEW c \in Codes, c \in LiveCodes, wrong' = [wrong EXCEPT ![c] = @ + 1],
           \/ LiveCodes' = LiveCodes /\ wrong'[c] < MaxTries
           \/ LiveCodes' = LiveCodes \ {c},
           UNCHANGED <<sent, confirmed>>
    PROVE  PromiseStep
<1>1. Promise!GuessWrong(c)
  BY DEF Promise!GuessWrong, LiveCodes, LiveRows
<1> QED
  BY <1>1 DEF Promise!Next, PromiseStep

LEMMA StepConfirms ==
    ASSUME NEW c \in Codes, c \in LiveCodes, LiveCodes' = LiveCodes \ {c},
           confirmed' = confirmed \cup {c}, UNCHANGED <<sent, wrong>>
    PROVE  PromiseStep
<1>1. Promise!Accept(c)
  BY DEF Promise!Accept, LiveCodes, LiveRows
<1> QED
  BY <1>1 DEF Promise!Next, PromiseStep

\* Which rows are live after a step.

LEMMA EndChecked ==
    ASSUME NEW q, End(q)
    PROVE  Checked' \subseteq Checked
BY EndFacts DEF Checked

LEMMA LiveBefore ==
    ASSUME NEW i \in DOMAIN row, Same(i), i \in LiveRows', now' = now, Checked' \subseteq Checked
    PROVE  row'[i].code \in LiveCodes
BY DEF LiveRows, LiveCodes, Active, Confirmable, Same

\* A request that begins leaves the live codes as they were.
LEMMA BeginLapses ==
    ASSUME NEW q, NEW r, Begin(q, r), UNCHANGED <<now, row, history>>,
           \/ r.op \notin Checks
           \/ r.id \in DOMAIN row /\ (Active(r.id) \/ Confirmable(r.id))
    PROVE  PromiseStep
<1>1. /\ DOMAIN req' = DOMAIN req \cup {q} /\ req'[q] = r
      /\ \A p \in DOMAIN req : p # q /\ req'[p] = req[p]
  BY BeginFacts
<1>2. /\ Checked' \subseteq Checked \cup {r.id}
      /\ r.op \notin Checks => Checked' \subseteq Checked
  BY <1>1 DEF Checked, Checks
<1>3. LiveRows' \subseteq LiveRows
  BY <1>2 DEF LiveRows, Active, Confirmable
<1>4. LiveCodes' \subseteq LiveCodes
  BY <1>3 DEF LiveCodes
<1> QED
  BY <1>4, StepLapses DEF history

\* A request that has compared a code or a token ends: at most its code stops to be live.
LEMMA OneRowChecked ==
    ASSUME TypeInv, OneRequest, CodesCount, NEW q \in DOMAIN req, End(q), NEW r, r = req[q],
           r.op \in Checks, r.id \in DOMAIN row, DOMAIN row' = DOMAIN row, now' = now,
           \A i \in DOMAIN row \ {r.id} : row'[i] = row[i],
           row'[r.id].code = row[r.id].code
    PROVE  /\ r.code \in LiveCodes
           /\ LiveCodes' = IF r.id \in LiveRows' THEN LiveCodes ELSE LiveCodes \ {r.code}
<1>1. DOMAIN req = {q} /\ DOMAIN req' = {}
  BY EndLeavesNone DEF OneRequest
<1>2. Checked = {r.id} /\ Checked' = {}
  BY <1>1 DEF Checked, Checks
<1>3. ~row[r.id].consumed /\ row[r.id].code = r.code
  BY DEF OneRequest, UpToDate
<1>4. r.id \in LiveRows
  BY <1>2, <1>3 DEF LiveRows
<1>5. \A i \in DOMAIN row \ {r.id} : i \in LiveRows' <=> i \in LiveRows
  BY <1>2 DEF LiveRows, Active, Confirmable
<1>6. LiveRows' \subseteq DOMAIN row /\ LiveRows \subseteq DOMAIN row
  BY DEF LiveRows
<1>7. LiveRows' = IF r.id \in LiveRows' THEN LiveRows ELSE LiveRows \ {r.id}
  BY <1>4, <1>5, <1>6
<1>8. \A i \in DOMAIN row : row'[i].code = row[i].code
  OBVIOUS
<1>9. \A i \in DOMAIN row \ {r.id} : row[i].code # r.code
  BY <1>3 DEF CodesCount
<1>10. r.code \in LiveCodes
  BY <1>3, <1>4 DEF LiveCodes
<1>11. LiveCodes' = {row[i].code : i \in LiveRows'}
  BY <1>6, <1>8 DEF LiveCodes
<1>12. LiveCodes \ {r.code} = {row[i].code : i \in LiveRows \ {r.id}}
  BY <1>3, <1>6, <1>9 DEF LiveCodes
<1>13. CASE r.id \in LiveRows'
  BY <1>7, <1>10, <1>11, <1>13 DEF LiveCodes
<1>14. CASE r.id \notin LiveRows'
  BY <1>7, <1>10, <1>11, <1>12, <1>14
<1> QED
  BY <1>13, <1>14

LEMMA PromiseInit == Init => Promise!Init
<1> SUFFICES ASSUME Init PROVE Promise!Init
  OBVIOUS
<1>1. DOMAIN row = {} /\ sent = {}
  BY DEF Init
<1> QED
  BY <1>1 DEF Init, Promise!Init

LEMMA PromiseKept == TypeInv /\ AloneInv /\ [Next]_vars => (alone' => PromiseStep)
<1> SUFFICES ASSUME TypeInv, AloneInv, [Next]_vars, alone' PROVE PromiseStep
  OBVIOUS
<1>1. ASSUME NEW q \in Requests, NEW identifier \in Identifiers, NEW c \in Codes, SendBegin(q, identifier, c)
      PROVE  PromiseStep
  <2> PICK r : Begin(q, r) /\ r.op = "send"
    BY <1>1, SendBeginFacts
  <2>1. r.op \notin Checks
    BY DEF Checks
  <2>2. UNCHANGED <<now, row, history>>
    BY <1>1 DEF SendBegin
  <2> QED
    BY <2>1, <2>2, BeginLapses
<1>2. ASSUME NEW q \in Requests, NEW c \in Codes, VerifyBegin(q, c)
      PROVE  PromiseStep
  <2> PICK r : Begin(q, r) /\ r.id \in DOMAIN row /\ Active(r.id)
    BY <1>2, VerifyBeginFacts
  <2>1. UNCHANGED <<now, row, history>>
    BY <1>2 DEF VerifyBegin
  <2> QED
    BY <2>1, BeginLapses
<1>3. ASSUME NEW q \in Requests, NEW i \in Ids, ConfirmBegin(q, i)
      PROVE  PromiseStep
  <2> PICK r : Begin(q, r) /\ r.id \in DOMAIN row /\ Confirmable(r.id)
    BY <1>3, ConfirmBeginFacts
  <2>1. UNCHANGED <<now, row, history>>
    BY <1>3 DEF ConfirmBegin
  <2> QED
    BY <2>1, BeginLapses
<1>4. ASSUME NEW q \in Requests, SendGather(q)
      PROVE  PromiseStep
  <2> PICK drop : drop = req[q].drop \cup Replaced(req[q].id)
    OBVIOUS
  <2> DEFINE next == [req[q] EXCEPT !.op = "sending", !.drop = drop]
  <2>1. /\ q \in DOMAIN req /\ req[q].op = "send" /\ req' = [req EXCEPT ![q] = next]
        /\ UNCHANGED <<now, row, sent, wrong, confirmed>>
    BY <1>4 DEF SendGather, history
  <2>2. req[q] \in RequestRow
    BY <2>1 DEF TypeInv, RequestsOK, RequestFits
  <2>3. next.op = "sending"
    BY <2>2 DEF RequestRow
  <2> HIDE DEF next
  <2>4. Checked' \subseteq Checked
    BY <2>1, <2>3 DEF Checked
  <2>5. LiveRows' \subseteq LiveRows
    BY <2>1, <2>4 DEF LiveRows, Active, Confirmable
  <2>6. LiveCodes' \subseteq LiveCodes
    BY <2>1, <2>5 DEF LiveCodes
  <2> QED
    BY <2>1, <2>6, StepLapses
<1>5. ASSUME NEW q \in Requests, SendCommit(q)
      PROVE  PromiseStep
  <2> PICK r : r = req[q]
    OBVIOUS
  <2>1. /\ q \in DOMAIN req /\ r.op = "sending" /\ r.code \in Codes
        /\ DOMAIN row' = DOMAIN row \cup {r.id}
        /\ \A i \in DOMAIN row \ {r.id} : Same(i)
        /\ row'[r.id].code = r.code
        /\ sent' = sent \cup {r.code}
        /\ End(q) /\ UNCHANGED <<now, wrong, confirmed>>
    BY <1>5, SendCommitFacts
  <2>2. r.code \in Codes \ sent
    BY <2>1 DEF End, AloneInv, OneRequest, UpToDate, Sends
  <2>3. \A i \in LiveRows' : row'[i].code \in LiveCodes \cup {r.code}
    <3>1. LiveRows' \subseteq DOMAIN row \cup {r.id}
      BY <2>1 DEF LiveRows
    <3> QED
      BY <2>1, <3>1, EndChecked, LiveBefore
  <2>4. LiveCodes' \subseteq LiveCodes \cup {r.code}
    BY <2>3 DEF LiveCodes
  <2> QED
    BY <2>1, <2>2, <2>4, StepSends
<1>6. ASSUME NEW q \in Requests, GuessCommit(q)
      PROVE  PromiseStep
  <2> PICK r : r = req[q]
    OBVIOUS
  <2>1. /\ q \in DOMAIN req /\ r.op = "wrong" /\ r.id \in DOMAIN row
        /\ r.code \in Codes /\ r.tries \in Nat /\ DOMAIN row' = DOMAIN row
        /\ \A i \in DOMAIN row \ {r.id} : row'[i] = row[i]
        /\ row'[r.id].code = row[r.id].code
        /\ ~row'[r.id].consumed => r.tries + 1 < MaxTries
        /\ wrong' = [wrong EXCEPT ![r.code] = @ + 1]
        /\ End(q) /\ UNCHANGED <<now, sent, confirmed>>
    BY <1>6, GuessCommitFacts
  <2>2. OneRequest /\ CodesCount /\ r.op \in Checks
    BY <2>1 DEF End, AloneInv, Checks
  <2>3. /\ r.code \in LiveCodes
        /\ LiveCodes' = IF r.id \in LiveRows' THEN LiveCodes ELSE LiveCodes \ {r.code}
    BY <2>1, <2>2, OneRowChecked
  <2>4. ASSUME r.id \in LiveRows' PROVE wrong'[r.code] < MaxTries
    <3>1. ~row'[r.id].consumed
      BY <2>4 DEF LiveRows, Active, Confirmable
    <3>2. ~row[r.id].consumed /\ row[r.id].code = r.code /\ row[r.id].tries = r.tries
      BY <2>1, <2>2 DEF OneRequest, UpToDate
    <3>3. wrong[r.code] <= r.tries /\ wrong \in [Codes -> Nat]
      BY <2>1, <2>2, <3>2 DEF CodesCount, TypeInv, HistoryOK
    <3>4. wrong'[r.code] = wrong[r.code] + 1 /\ wrong[r.code] \in Nat
      BY <2>1, <3>3
    <3> QED
      BY <2>1, <3>1, <3>3, <3>4, SettingsOK DEF Settings
  <2> QED
    BY <2>1, <2>3, <2>4, StepGuesses
<1>7. ASSUME NEW q \in Requests, NEW t \in ResetTokens, ExchangeCommit(q, t)
      PROVE  PromiseStep
  <2> PICK r : r = req[q]
    OBVIOUS
  <2>1. /\ q \in DOMAIN req /\ r.op = "right" /\ r.id \in DOMAIN row
        /\ DOMAIN row' = DOMAIN row
        /\ \A i \in DOMAIN row \ {r.id} : row'[i] = row[i]
        /\ row'[r.id].code = row[r.id].code
        /\ End(q) /\ UNCHANGED <<now, sent, wrong, confirmed>>
    BY <1>7, ExchangeCommitFacts
  <2>2. OneRequest /\ CodesCount /\ r.op \in Checks
    BY <2>1 DEF End, AloneInv, Checks
  <2>3. LiveCodes' \subseteq LiveCodes
    BY <2>1, <2>2, OneRowChecked
  <2> QED
    BY <2>1, <2>3, StepLapses
<1>8. ASSUME NEW q \in Requests, ConfirmCommit(q)
      PROVE  PromiseStep
  <2> PICK r : r = req[q]
    OBVIOUS
  <2>1. /\ q \in DOMAIN req /\ r.op = "confirm" /\ r.id \in DOMAIN row /\ r.code \in sent
        /\ DOMAIN row' = DOMAIN row
        /\ \A i \in DOMAIN row \ {r.id} : row'[i] = row[i]
        /\ Same(r.id) /\ row'[r.id].consumed
        /\ confirmed' = confirmed \cup {codeOf[r.token]}
        /\ End(q) /\ UNCHANGED <<now, sent, wrong>>
    BY <1>8, ConfirmCommitFacts
  <2>2. OneRequest /\ CodesCount /\ r.op \in Checks /\ r.code \in Codes
    BY <2>1 DEF End, AloneInv, Checks, TypeInv, HistoryOK
  <2>3. row[r.id].token = r.token /\ r.token # NoToken /\ row[r.id].code = r.code
    BY <2>1, <2>2 DEF OneRequest, UpToDate
  <2>4. codeOf[r.token] = r.code
    BY <2>1, <2>2, <2>3 DEF CodesCount
  <2>5. row'[r.id].code = row[r.id].code
    BY <2>1 DEF Same
  <2>6. r.id \notin LiveRows'
    BY <2>1 DEF LiveRows, Active, Confirmable
  <2>7. r.code \in LiveCodes /\ LiveCodes' = LiveCodes \ {r.code}
    BY <2>1, <2>2, <2>5, <2>6, OneRowChecked
  <2> QED
    BY <2>1, <2>2, <2>4, <2>7, StepConfirms
<1>9. ASSUME NEW q \in Requests, Fail(q)
      PROVE  PromiseStep
  <2>1. End(q) /\ UNCHANGED <<now, row, sent, wrong, confirmed>>
    BY <1>9 DEF Fail, history
  <2>2. LiveRows' \subseteq LiveRows
    BY <2>1, EndChecked DEF LiveRows, Active, Confirmable
  <2>3. LiveCodes' \subseteq LiveCodes
    BY <2>1, <2>2 DEF LiveCodes
  <2> QED
    BY <2>1, <2>3, StepLapses
<1>10. CASE Tick
  <2>1. now' = now + 1 /\ UNCHANGED <<row, req, sent, wrong, confirmed>>
    BY <1>10 DEF Tick, history
  <2>2. now \in Int /\ \A i \in DOMAIN row : row[i].expires \in Int /\ row[i].token_expires \in Int
    BY RowTypes, SettingsOK DEF TypeInv, HistoryOK, Settings
  <2>3. LiveRows' \subseteq LiveRows
    BY <2>1, <2>2 DEF LiveRows, Active, Confirmable, Checked
  <2>4. LiveCodes' \subseteq LiveCodes
    BY <2>1, <2>3 DEF LiveCodes
  <2> QED
    BY <2>1, <2>4, StepLapses
<1>11. CASE UNCHANGED vars
  <2>1. LiveCodes' = LiveCodes
    BY <1>11 DEF vars, LiveCodes, LiveRows, Active, Confirmable, Checked
  <2> QED
    BY <1>11, <2>1, StepLapses DEF vars
<1> QED
  BY <1>1, <1>2, <1>3, <1>4, <1>5, <1>6, <1>7, <1>8, <1>9, <1>10, <1>11 DEF Next

\* Password resets keep the promise of OneTimeCodes as long as requests come one at a time.
THEOREM ResetKeepsPromise == Spec => KeepsPromise
<1>1. Spec => [](TypeInv /\ AloneInv)
  BY TypeInvInit, TypeInvStep, AloneInvInit, AloneInvStep, PTL DEF Spec
<1>2. TypeInv /\ AloneInv /\ [Next]_vars => [alone' => Promise!Next \/ UNCHANGED Promise!vars]_vars
  BY PromiseKept DEF PromiseStep
<1> QED
  BY <1>1, <1>2, PromiseInit, PTL DEF Spec, KeepsPromise

=============================================================================
