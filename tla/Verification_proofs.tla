------------------------- MODULE Verification_proofs -------------------------
(***************************************************************************)
(* Proofs about PhoneVerification and about Registration, each for any     *)
(* sets of what it is about, any settings and any bounds.                  *)
(*                                                                         *)
(* Of PhoneVerification: TypeInv adds to TypeOK what the requests under    *)
(* way rest on: their codes are new, the rows they will change are for     *)
(* their user and number, the ids they will insert are free, and their     *)
(* counts are below the limits.  ReceivedInv adds to VerifiedWasReceived   *)
(* what those that will write number and flag have read.  AloneInv is      *)
(* about requests that come one at a time: what the only one has read      *)
(* still holds, no code is in two rows, and open rows have counted the     *)
(* wrong guesses at their codes.  From it follows the promise of           *)
(* OneTimeCodes.                                                           *)
(*                                                                         *)
(* Of Registration, with the variables that Verification gives it:         *)
(* RegistrationInv and SingleInv are what TypeInv and AloneInv are above,  *)
(* and UsedIsClosed is inductive beside the first.  OpenAreDisjoint is a   *)
(* part of the second.                                                     *)
(***************************************************************************)
EXTENDS Verification, WellFoundedInduction, TLAPS

-----------------------------------------------------------------------------
(***************************************************************************)
(* PhoneVerification.                                                      *)
(***************************************************************************)

RequestRow ==
    [op : {"send", "sending", "right", "wrong"} \cup EditOps, id : {0} \cup Ids,
     user : Users, number : Numbers \cup {NoNumber}, code : Codes \cup {NoCode}, at : 0..now,
     had : Numbers \cup {NoNumber}, was : BOOLEAN, drop : SUBSET Ids,
     sends : 0..MaxSends, tries : 0..MaxTries]

Sends == {"send", "sending"}
Checks == {"right", "wrong"}

UsersOK ==
    /\ phone \in [Users -> Numbers \cup {NoNumber}]
    /\ \A u, v \in Users : u # v => phone[u] # phone[v] \/ phone[u] = NoNumber
    /\ verified \in [Users -> BOOLEAN]

RowsOK ==
    /\ DOMAIN row \subseteq Ids
    /\ \A i \in DOMAIN row :
          /\ row[i] \in PhoneVerificationCode
          /\ row[i].code \in DOMAIN sent
          /\ sent[row[i].code] = <<row[i].user, row[i].number>>

\* Row i is for the user and the number of request r.
For(r, i) == row[i].user = r.user /\ row[i].number = r.number

RequestFits(r) ==
    /\ r \in RequestRow
    /\ r.op \in Sends => /\ r.id \in Ids /\ r.number \in Numbers /\ r.sends < MaxSends
                         /\ r.code \in Codes \ DOMAIN sent
                         /\ r.id \in DOMAIN row => For(r, r.id)
    /\ r.op \in Checks => /\ r.id \in DOMAIN row /\ r.number \in Numbers
                          /\ r.code \in DOMAIN sent
                          /\ For(r, r.id) /\ sent[r.code] = <<r.user, r.number>>
    /\ r.op = "wrong" => r.tries < MaxTries
    /\ r.op \in {"declare", "renumber"} => r.number \in Numbers

RequestsOK ==
    /\ DOMAIN req \subseteq Requests
    /\ \A q \in DOMAIN req : RequestFits(req[q])
    /\ \A p, q \in DOMAIN req :
          p # q /\ req[p].op \in Sends =>
             /\ req[p].id \notin DOMAIN row => req[p].id # req[q].id
             /\ req[q].op \in Sends => req[p].code # req[q].code

HistoryOK ==
    /\ now \in 0..MaxTime
    /\ alone \in BOOLEAN
    /\ DOMAIN sent \subseteq Codes
    /\ \A c \in DOMAIN sent : sent[c] \in Users \X Numbers
    /\ wrong \in [Codes -> Nat]
    /\ accepted \subseteq DOMAIN sent
    /\ trusted \subseteq Users \X Numbers
    /\ crossed \subseteq Users
    /\ edits \in 0..MaxEdits

TypeInv == UsersOK /\ RowsOK /\ RequestsOK /\ HistoryOK

\* User u has received a code at number n, or counts as verified with it on somebody's word.
Received(u, n) == (\E c \in accepted : sent[c] = <<u, n>>) \/ <<u, n>> \in trusted

\* What a request that will write number and flag of its user has read: still there,
\* or, for a verification, a number that another has written since.
ReadingHolds(r) ==
    r.user \notin crossed =>
       /\ r.op \in EditOps => phone[r.user] = r.had /\ verified[r.user] = r.was
       /\ r.op = "right" => phone[r.user] = r.had \/ Received(r.user, phone[r.user])

ReceivedInv ==
    /\ \A u \in Users \ crossed : verified[u] => Received(u, phone[u])
    /\ \A q \in DOMAIN req : ReadingHolds(req[q])

\* What the checks of request r have read still holds.
UpToDate(r) ==
    r.op \in Checks => ~row[r.id].consumed /\ row[r.id].code = r.code /\ row[r.id].tries = r.tries

OneRequest == /\ \A p, q \in DOMAIN req : p = q
              /\ \A q \in DOMAIN req : UpToDate(req[q])

\* No code is in two rows, and an open row has counted the wrong guesses at its code.
CodesCount ==
    /\ \A i, j \in DOMAIN row : i # j => row[i].code # row[j].code
    /\ \A i \in DOMAIN row : ~row[i].consumed => wrong[row[i].code] <= row[i].tries
    /\ \A c \in Codes \ DOMAIN sent : wrong[c] = 0

AloneInv == alone => OneRequest /\ CodesCount

Settings == /\ TTL \in Nat \ {0} /\ Cooldown \in Nat \ {0} /\ MaxSends \in Nat \ {0}
            /\ MaxTries \in Nat \ {0} /\ MaxRows \in Nat /\ MaxEdits \in Nat /\ MaxTime \in Nat

LEMMA SettingsOK == Settings
BY SettingsAssumption, BoundsAssumption DEF Settings

LEMMA TypeInvTypeOK == TypeInv => TypeOK
BY DEF TypeInv, UsersOK, RowsOK, RequestsOK, RequestFits, HistoryOK, TypeOK, RequestRow

LEMMA TypeInvInit == Init => TypeInv
<1> SUFFICES ASSUME Init PROVE TypeInv
  OBVIOUS
<1>1. DOMAIN row = {} /\ DOMAIN req = {} /\ DOMAIN sent = {}
  BY DEF Init
<1>2. now \in 0..MaxTime /\ edits \in 0..MaxEdits
  BY SettingsOK DEF Init, Settings
<1>3. UsersOK /\ HistoryOK
  BY <1>1, <1>2 DEF Init, UsersOK, HistoryOK
<1> QED
  BY <1>1, <1>3 DEF TypeInv, RowsOK, RequestsOK

-----------------------------------------------------------------------------
\* The greatest of finitely many ids.

LEMMA Greatest ==
    ASSUME NEW n \in Nat, NEW S \in SUBSET (0..n), S # {}
    PROVE  Max(S) \in S /\ \A m \in S : Max(S) >= m
<1> DEFINE D == {d \in Nat : n - d \in S}
<1>1. D # {}
  <2> PICK m \in S : TRUE
    OBVIOUS
  <2>1. n - m \in D
    OBVIOUS
  <2> QED
    BY <2>1
<1>2. IsWellFoundedOn(OpToRel(<, Nat), Nat)
  BY NatLessThanWellFounded
<1>3. PICK d \in D : \A e \in D : <<e, d>> \notin OpToRel(<, Nat)
  BY <1>1, <1>2, WFMin
<1>4. \A e \in D : ~(e < d)
  BY <1>3 DEF OpToRel
<1>5. n - d \in S /\ \A m \in S : n - d >= m
  <2>1. \A m \in S : n - m \in D
    OBVIOUS
  <2> QED
    BY <1>4, <2>1
<1> QED
  BY <1>5 DEF Max

-----------------------------------------------------------------------------
\* What the parts of the actions do.

LEMMA BeginFacts ==
    ASSUME NEW q, NEW r, Begin(q, r)
    PROVE  /\ q \in Requests /\ q \notin DOMAIN req /\ DOMAIN req' = DOMAIN req \cup {q}
           /\ req'[q] = r
           /\ \A p \in DOMAIN req : p # q /\ req'[p] = req[p]
BY DEF Begin

LEMMA EndFacts ==
    ASSUME NEW q, End(q)
    PROVE  /\ DOMAIN req' = DOMAIN req \ {q}
           /\ \A p \in DOMAIN req' : req'[p] = req[p]
           /\ alone' = alone
BY DEF End

LEMMA ReadingFacts ==
    ASSUME TypeInv, NEW op \in Sends \cup Checks \cup EditOps, NEW id \in {0} \cup Ids,
           NEW u \in Users, NEW n \in Numbers \cup {NoNumber}, NEW c \in Codes \cup {NoCode}
    PROVE  /\ Reading(op, id, u, n, c) \in RequestRow
           /\ Reading(op, id, u, n, c).op = op
           /\ Reading(op, id, u, n, c).id = id
           /\ Reading(op, id, u, n, c).user = u
           /\ Reading(op, id, u, n, c).number = n
           /\ Reading(op, id, u, n, c).code = c
           /\ Reading(op, id, u, n, c).sends = IF id \in DOMAIN row THEN row[id].sends ELSE 0
           /\ Reading(op, id, u, n, c).tries = IF id \in DOMAIN row THEN row[id].tries ELSE 0
<1>1. id \in DOMAIN row => row[id].sends \in 0..MaxSends /\ row[id].tries \in 0..MaxTries
  BY SettingsOK DEF TypeInv, RowsOK, PhoneVerificationCode, Settings
<1>2. 0 \in 0..now /\ 0 \in 0..MaxSends /\ 0 \in 0..MaxTries
  BY SettingsOK DEF TypeInv, HistoryOK, Settings
<1> QED
  BY <1>1, <1>2 DEF Reading, RequestRow, Sends, Checks, EditOps

\* A request for a code reads a row of its user for its number, or takes a new id.
LEMMA SendBeginFacts ==
    ASSUME TypeInv, NEW q, NEW u \in Users, NEW n \in Numbers, NEW c \in Codes, SendBegin(q, u, n, c)
    PROVE  \E r \in RequestRow :
             /\ Begin(q, r)
             /\ r.op = "send" /\ r.user = u /\ r.number = n /\ r.code = c /\ r.id \in Ids /\ r.sends < MaxSends
             /\ r.id \in DOMAIN row => For(r, r.id)
             /\ r.id \notin DOMAIN row => \A p \in DOMAIN req : req[p].id # r.id
<1> DEFINE latest == Max(ActiveRows(u))
           reuse == ActiveRows(u) # {} /\ Reusable(latest, n)
           taken == {0} \cup DOMAIN row \cup {req[p].id : p \in DOMAIN req}
           id == IF reuse THEN latest ELSE 1 + Max(taken)
           base == Reading("send", id, u, n, c)
           drop == {i \in Replaced(u, id) : i = latest}
           r == [base EXCEPT !.at = now, !.drop = drop]
<1>1. /\ id \in Ids /\ Begin(q, r)
      /\ reuse => row[id].sends < MaxSends
  BY DEF SendBegin
<1>2. DOMAIN row \subseteq 1..MaxRows /\ MaxRows \in Nat /\ \A p \in DOMAIN req : req[p].id \in 0..MaxRows
  BY SettingsOK DEF Settings, TypeInv, RowsOK, RequestsOK, RequestFits, RequestRow, Ids
<1>3. reuse => id \in DOMAIN row /\ row[id].user = u /\ row[id].number = n
  <2> SUFFICES ASSUME reuse PROVE latest \in DOMAIN row /\ row[latest].user = u /\ row[latest].number = n
    OBVIOUS
  <2>1. ActiveRows(u) \in SUBSET (0..MaxRows) /\ ActiveRows(u) # {}
    BY <1>2 DEF ActiveRows
  <2>2. latest \in ActiveRows(u)
    BY <1>2, <2>1, Greatest
  <2> QED
    BY <2>2 DEF ActiveRows, Reusable
<1>4. ~reuse => id \notin DOMAIN row /\ \A p \in DOMAIN req : req[p].id # id
  <2> SUFFICES ASSUME ~reuse PROVE id \notin taken
    OBVIOUS
  <2>1. taken \in SUBSET (0..MaxRows) /\ taken # {}
    BY <1>2
  <2>2. Max(taken) \in 0..MaxRows /\ \A m \in taken : Max(taken) >= m
    BY <1>2, <2>1, Greatest
  <2>3. \A m \in taken : m \in Int
    BY <1>2
  <2> HIDE DEF taken
  <2>4. id = 1 + Max(taken)
    OBVIOUS
  <2> QED
    BY <1>2, <2>2, <2>3, <2>4
<1>5. drop \in SUBSET Ids
  BY DEF Replaced, ActiveRows, TypeInv, RowsOK
<1> HIDE DEF drop, id, latest, reuse, taken
<1>6. /\ base \in RequestRow /\ base.op = "send" /\ base.id = id /\ base.user = u /\ base.number = n
      /\ base.code = c /\ base.sends = IF id \in DOMAIN row THEN row[id].sends ELSE 0
  <2>1. /\ "send" \in Sends \cup Checks \cup EditOps /\ id \in {0} \cup Ids
        /\ n \in Numbers \cup {NoNumber} /\ c \in Codes \cup {NoCode}
    BY <1>1 DEF Sends
  <2> QED
    BY <2>1, ReadingFacts
<1>7. now \in 0..now
  BY DEF TypeInv, HistoryOK
<1> HIDE DEF base
<1>8. /\ r \in RequestRow /\ r.op = "send" /\ r.user = u /\ r.number = n /\ r.code = c /\ r.id = id
      /\ r.sends = IF id \in DOMAIN row THEN row[id].sends ELSE 0
  BY <1>5, <1>6, <1>7 DEF RequestRow
<1>9. r.sends < MaxSends
  <2>1. CASE reuse
    BY <1>1, <1>3, <1>8, <2>1
  <2>2. CASE ~reuse
    BY <1>4, <1>8, <2>2, SettingsOK DEF Settings
  <2> QED
    BY <2>1, <2>2
<1> HIDE DEF r
<1> QED
  BY <1>1, <1>3, <1>4, <1>8, <1>9 DEF For

LEMMA VerifyBeginFacts ==
    ASSUME TypeInv, NEW q, NEW u \in Users, NEW n \in Numbers, NEW c \in Codes, VerifyBegin(q, u, n, c)
    PROVE  \E r \in RequestRow :
             /\ Begin(q, r)
             /\ r.op \in Checks /\ r.user = u /\ r.number = n
             /\ r.id \in DOMAIN row /\ For(r, r.id) /\ Active(r.id)
             /\ r.code = row[r.id].code /\ r.tries = row[r.id].tries /\ r.tries < MaxTries
             /\ r.had = phone[u] /\ r.was = verified[u]
<1> DEFINE rows == {i \in DOMAIN row : row[i].user = u /\ row[i].number = n}
           id == Max(rows)
           op == IF c = row[id].code THEN "right" ELSE "wrong"
           base == Reading(op, id, u, n, row[id].code)
           r == [base EXCEPT !.had = phone[u], !.was = verified[u]]
<1>1. rows # {} /\ Active(id) /\ row[id].tries < MaxTries /\ Begin(q, r)
  BY DEF VerifyBegin
<1>2. rows \in SUBSET (0..MaxRows) /\ MaxRows \in Nat
  BY SettingsOK DEF Settings, TypeInv, RowsOK, Ids
<1>3. id \in rows
  BY <1>1, <1>2, Greatest
<1>4. id \in Ids /\ row[id].code \in Codes /\ op \in Checks
  BY <1>3 DEF TypeInv, RowsOK, PhoneVerificationCode, Checks
<1> HIDE DEF op, id
<1>5. /\ base \in RequestRow /\ base.op = op /\ base.id = id /\ base.user = u /\ base.number = n
      /\ base.code = row[id].code /\ base.tries = row[id].tries
  <2>1. /\ op \in Sends \cup Checks \cup EditOps /\ id \in {0} \cup Ids
        /\ n \in Numbers \cup {NoNumber} /\ row[id].code \in Codes \cup {NoCode}
    BY <1>4
  <2>2. id \in DOMAIN row
    BY <1>3
  <2> QED
    <3> PICK code \in Codes \cup {NoCode} : code = row[id].code
      BY <2>1
    <3> DEFINE read == Reading(op, id, u, n, code)
    <3>1. /\ read \in RequestRow /\ read.op = op /\ read.id = id /\ read.user = u /\ read.number = n
          /\ read.code = code /\ read.tries = IF id \in DOMAIN row THEN row[id].tries ELSE 0
      BY <2>1, ReadingFacts
    <3>2. base = read
      OBVIOUS
    <3> HIDE DEF read, base
    <3> QED
      BY <2>2, <3>1, <3>2
<1>6. phone[u] \in Numbers \cup {NoNumber} /\ verified[u] \in BOOLEAN
  BY DEF TypeInv, UsersOK
<1> HIDE DEF base
<1>7. /\ r \in RequestRow /\ r.op = op /\ r.id = id /\ r.user = u /\ r.number = n
      /\ r.code = row[id].code /\ r.tries = row[id].tries /\ r.had = phone[u] /\ r.was = verified[u]
  BY <1>5, <1>6 DEF RequestRow
<1> HIDE DEF r
<1> QED
  BY <1>1, <1>3, <1>4, <1>7 DEF For

LEMMA EditBeginFacts ==
    ASSUME TypeInv, NEW q, NEW u \in Users, NEW n \in Numbers \cup {NoNumber}, NEW op \in EditOps,
           EditBegin(q, u, n, op)
    PROVE  \E r \in RequestRow :
             /\ Begin(q, r)
             /\ r.op \in EditOps /\ r.id = 0 /\ r.user = u
             /\ r.op \in {"declare", "renumber"} => r.number \in Numbers
             /\ r.had = phone[u] /\ r.was = verified[u]
<1> DEFINE base == Reading(op, 0, u, n, NoCode)
           r == [base EXCEPT !.had = phone[u], !.was = verified[u]]
<1>1. Begin(q, r) /\ (n = NoNumber => op = "doubt")
  BY DEF EditBegin
<1>2. op \in {"declare", "renumber"} => n \in Numbers
  BY <1>1
<1>3. base \in RequestRow /\ base.op = op /\ base.id = 0 /\ base.user = u /\ base.number = n
  BY <1>2, ReadingFacts DEF EditOps
<1>4. phone[u] \in Numbers \cup {NoNumber} /\ verified[u] \in BOOLEAN
  BY DEF TypeInv, UsersOK
<1> HIDE DEF base
<1>5. /\ r \in RequestRow /\ r.op = op /\ r.id = 0 /\ r.user = u /\ r.number = n
      /\ r.had = phone[u] /\ r.was = verified[u]
  BY <1>3, <1>4 DEF RequestRow
<1> HIDE DEF r
<1> QED
  BY <1>1, <1>2, <1>5

\* Row i is the same after the step, but that it may have been consumed.
StillThere(i) ==
    /\ row'[i] \in PhoneVerificationCode
    /\ row'[i].user = row[i].user /\ row'[i].number = row[i].number
    /\ row'[i].code = row[i].code /\ row'[i].tries = row[i].tries
    /\ row'[i].expires = row[i].expires
    /\ ~row'[i].consumed => ~row[i].consumed

LEMMA ClosedFacts ==
    ASSUME TypeInv, NEW i \in DOMAIN row, NEW drop, row'[i] = Closed(i, drop)
    PROVE  StillThere(i)
<1> DEFINE consumed == row[i].consumed \/ i \in drop
<1>1. row[i] \in PhoneVerificationCode
  BY DEF TypeInv, RowsOK
<1>2. row'[i] = [row[i] EXCEPT !.consumed = consumed]
  BY DEF Closed
<1>3. consumed \in BOOLEAN /\ (~consumed => ~row[i].consumed)
  OBVIOUS
<1> HIDE DEF consumed
<1> QED
  BY <1>1, <1>2, <1>3 DEF PhoneVerificationCode, StillThere

LEMMA SendCommitFacts ==
    ASSUME TypeInv, NEW q, SendCommit(q), NEW r, r = req[q]
    PROVE  /\ q \in DOMAIN req /\ RequestFits(r) /\ r.op = "sending"
           /\ DOMAIN row' = DOMAIN row \cup {r.id}
           /\ \A i \in DOMAIN row \ {r.id} : StillThere(i)
           /\ row'[r.id] \in PhoneVerificationCode
           /\ row'[r.id].user = r.user /\ row'[r.id].number = r.number /\ row'[r.id].code = r.code
           /\ r.id \in DOMAIN row => row'[r.id].consumed = row[r.id].consumed
           /\ DOMAIN sent' = DOMAIN sent \cup {r.code} /\ sent'[r.code] = <<r.user, r.number>>
           /\ \A c \in DOMAIN sent : c # r.code /\ sent'[c] = sent[c]
           /\ End(q) /\ UNCHANGED <<now, phone, verified, wrong, accepted, trusted, crossed, edits>>
<1> DEFINE new == IF r.id \in DOMAIN row THEN Resent(row[r.id], r) ELSE FirstSent(r)
<1>1. /\ q \in DOMAIN req /\ r.op = "sending"
      /\ row' = [i \in DOMAIN row \cup {r.id} |->
                   IF i # r.id THEN Closed(i, r.drop)
                   ELSE IF i \in DOMAIN row THEN Resent(row[i], r) ELSE FirstSent(r)]
      /\ sent' = [d \in DOMAIN sent \cup {r.code} |-> IF d = r.code THEN <<r.user, r.number>> ELSE sent[d]]
      /\ End(q) /\ UNCHANGED <<now, phone, verified, wrong, accepted, trusted, crossed, edits>>
  BY DEF SendCommit
<1>2. RequestFits(r) /\ \A i \in DOMAIN row : row[i] \in PhoneVerificationCode
  BY <1>1 DEF TypeInv, RequestsOK, RowsOK
<1>3. /\ r \in RequestRow /\ r.number \in Numbers /\ r.code \in Codes \ DOMAIN sent
      /\ r.id \in DOMAIN row => For(r, r.id)
  BY <1>1, <1>2 DEF RequestFits, Sends
<1>4. /\ row'[r.id] = new /\ DOMAIN row' = DOMAIN row \cup {r.id}
      /\ \A i \in DOMAIN row \ {r.id} : row'[i] = Closed(i, r.drop)
  BY <1>1
<1>5. /\ r.at + TTL \in TTL..MaxTime + TTL /\ r.at \in 0..MaxTime /\ r.sends + 1 \in 1..MaxSends
      /\ 1 \in 1..MaxSends /\ 0 \in 0..MaxTries
  <2>1. r.sends \in 0..MaxSends /\ r.sends < MaxSends /\ r.at \in 0..now /\ now \in 0..MaxTime
    BY <1>1, <1>2, <1>3 DEF RequestFits, RequestRow, Sends, TypeInv, HistoryOK
  <2> HIDE <1>1
  <2> QED
    BY <2>1, SettingsOK DEF Settings
<1>6. /\ new \in PhoneVerificationCode /\ new.user = r.user /\ new.number = r.number /\ new.code = r.code
      /\ r.id \in DOMAIN row => new.consumed = row[r.id].consumed
  <2>1. CASE r.id \in DOMAIN row
    <3>1. new = Resent(row[r.id], r) /\ row[r.id] \in PhoneVerificationCode
      BY <1>2, <2>1
    <3>2. row[r.id].user = r.user /\ row[r.id].number = r.number
      BY <1>3, <2>1 DEF For
    <3> HIDE DEF new
    <3> QED
      BY <1>3, <1>5, <3>1, <3>2 DEF PhoneVerificationCode, Resent
  <2>2. CASE r.id \notin DOMAIN row
    <3>1. new = FirstSent(r)
      BY <2>2
    <3> HIDE DEF new
    <3> QED
      BY <1>3, <1>5, <2>2, <3>1 DEF PhoneVerificationCode, FirstSent, RequestRow
  <2> QED
    BY <2>1, <2>2
<1> HIDE DEF new
<1>7. \A i \in DOMAIN row \ {r.id} : StillThere(i)
  BY <1>4, ClosedFacts
<1>8. /\ DOMAIN sent' = DOMAIN sent \cup {r.code} /\ sent'[r.code] = <<r.user, r.number>>
      /\ \A c \in DOMAIN sent : c # r.code /\ sent'[c] = sent[c]
  BY <1>1, <1>3
<1> QED
  BY <1>1, <1>2, <1>4, <1>6, <1>7, <1>8

LEMMA GuessCommitFacts ==
    ASSUME TypeInv, NEW q, GuessCommit(q), NEW r, r = req[q]
    PROVE  /\ q \in DOMAIN req /\ RequestFits(r) /\ r.op = "wrong" /\ r.id \in DOMAIN row
           /\ r.code \in DOMAIN sent
           /\ DOMAIN row' = DOMAIN row
           /\ \A i \in DOMAIN row \ {r.id} : row'[i] = row[i]
           /\ row'[r.id] \in PhoneVerificationCode
           /\ row'[r.id].user = row[r.id].user /\ row'[r.id].number = row[r.id].number
           /\ row'[r.id].code = row[r.id].code /\ row'[r.id].tries = r.tries + 1
           /\ row'[r.id].expires = row[r.id].expires
           /\ ~row'[r.id].consumed => ~row[r.id].consumed /\ r.tries + 1 < MaxTries
           /\ wrong' = [wrong EXCEPT ![r.code] = @ + 1]
           /\ End(q) /\ UNCHANGED <<now, phone, verified, sent, accepted, trusted, crossed, edits>>
<1> DEFINE consumed == row[r.id].consumed \/ r.tries + 1 >= MaxTries
           new == [row[r.id] EXCEPT !.tries = r.tries + 1, !.consumed = consumed]
<1>1. /\ q \in DOMAIN req /\ r.op = "wrong"
      /\ row' = [row EXCEPT ![r.id] = new]
      /\ wrong' = [wrong EXCEPT ![r.code] = @ + 1]
      /\ End(q) /\ UNCHANGED <<now, phone, verified, sent, accepted, trusted, crossed, edits>>
  BY DEF GuessCommit, Missed
<1>2. /\ RequestFits(r) /\ r \in RequestRow /\ r.id \in DOMAIN row /\ r.code \in DOMAIN sent
      /\ r.tries < MaxTries /\ row[r.id] \in PhoneVerificationCode
  BY <1>1 DEF TypeInv, RequestsOK, RequestFits, RowsOK, Checks
<1>3. /\ ~consumed => ~row[r.id].consumed /\ r.tries + 1 < MaxTries
      /\ r.tries + 1 \in 0..MaxTries /\ consumed \in BOOLEAN
  BY <1>2, SettingsOK DEF RequestRow, Settings
<1> HIDE DEF consumed
<1>4. /\ new \in PhoneVerificationCode /\ new.user = row[r.id].user /\ new.number = row[r.id].number
      /\ new.code = row[r.id].code /\ new.tries = r.tries + 1
      /\ new.expires = row[r.id].expires /\ new.consumed = consumed
  BY <1>2, <1>3 DEF PhoneVerificationCode
<1> HIDE DEF new
<1>5. /\ DOMAIN row' = DOMAIN row /\ row'[r.id] = new
      /\ \A i \in DOMAIN row \ {r.id} : row'[i] = row[i]
  BY <1>1, <1>2
<1> QED
  BY <1>1, <1>2, <1>3, <1>4, <1>5

LEMMA AcceptCommitFacts ==
    ASSUME TypeInv, NEW q, AcceptCommit(q), NEW r, r = req[q]
    PROVE  /\ q \in DOMAIN req /\ RequestFits(r) /\ r.op = "right" /\ r.id \in DOMAIN row
           /\ DOMAIN row' = DOMAIN row
           /\ \A i \in DOMAIN row \ {r.id} : row'[i] = row[i]
           /\ row'[r.id] \in PhoneVerificationCode
           /\ row'[r.id].user = row[r.id].user /\ row'[r.id].number = row[r.id].number
           /\ row'[r.id].code = row[r.id].code /\ row'[r.id].consumed
           /\ accepted' = accepted \cup {r.code}
           /\ SetPhone(r, TRUE) /\ Crossed(q, EditOps)
           /\ End(q) /\ UNCHANGED <<now, sent, wrong, trusted, edits>>
<1> DEFINE new == [row[r.id] EXCEPT !.consumed = TRUE]
<1>1. /\ q \in DOMAIN req /\ r.op = "right"
      /\ row' = [row EXCEPT ![r.id] = new]
      /\ accepted' = accepted \cup {r.code}
      /\ SetPhone(r, TRUE) /\ Crossed(q, EditOps)
      /\ End(q) /\ UNCHANGED <<now, sent, wrong, trusted, edits>>
  BY DEF AcceptCommit, EditOps
<1>2. RequestFits(r) /\ r.id \in DOMAIN row /\ row[r.id] \in PhoneVerificationCode
  BY <1>1 DEF TypeInv, RequestsOK, RequestFits, RowsOK, Checks
<1>3. /\ new \in PhoneVerificationCode /\ new.consumed /\ new.code = row[r.id].code
      /\ new.user = row[r.id].user /\ new.number = row[r.id].number
  BY <1>2 DEF PhoneVerificationCode
<1> HIDE DEF new
<1>4. /\ DOMAIN row' = DOMAIN row /\ row'[r.id] = new
      /\ \A i \in DOMAIN row \ {r.id} : row'[i] = row[i]
  BY <1>1, <1>2
<1> QED
  BY <1>1, <1>2, <1>3, <1>4

LEMMA SetPhoneFacts ==
    ASSUME TypeInv, NEW r \in RequestRow, NEW isVerified \in BOOLEAN, SetPhone(r, isVerified)
    PROVE  /\ UsersOK'
           /\ \A u \in Users \ {r.user} : phone'[u] = phone[u] /\ verified'[u] = verified[u]
           /\ phone'[r.user] = IF r.number = r.had THEN phone[r.user] ELSE r.number
           /\ verified'[r.user] = IF isVerified = r.was THEN verified[r.user] ELSE isVerified
<1> DEFINE u == r.user
           number == IF r.number = r.had THEN phone[u] ELSE r.number
           flag == IF isVerified = r.was THEN verified[u] ELSE isVerified
<1>1. /\ u \in Users /\ number \in Numbers \cup {NoNumber} /\ flag \in BOOLEAN
  BY DEF RequestRow, TypeInv, UsersOK
<1>2. /\ phone' = [phone EXCEPT ![u] = number] /\ verified' = [verified EXCEPT ![u] = flag]
      /\ phone'[u] # NoNumber => \A v \in Users \ {u} : phone[v] # phone'[u]
  BY DEF SetPhone, Available
<1> HIDE DEF u, number, flag
<1>3. /\ phone'[u] = number /\ verified'[u] = flag
      /\ \A v \in Users \ {u} : phone'[v] = phone[v] /\ verified'[v] = verified[v]
  BY <1>1, <1>2 DEF TypeInv, UsersOK
<1>4. UsersOK'
  BY <1>1, <1>2, <1>3 DEF TypeInv, UsersOK
<1> QED
  BY <1>3, <1>4 DEF u, number, flag

LEMMA CrossedFacts ==
    ASSUME TypeInv, NEW q, NEW ops, Crossed(q, ops)
    PROVE  /\ crossed \subseteq crossed' /\ crossed' \subseteq Users
           /\ \A p \in DOMAIN req \ {q} :
                 req[p].op \in ops /\ req[p].user = req[q].user => req[q].user \in crossed'
BY DEF Crossed, TypeInv, RequestsOK, RequestFits, RequestRow, HistoryOK

-----------------------------------------------------------------------------
\* Type correctness.

\* A request that begins on consistent tables.
LEMMA BeginKeepsTypes ==
    ASSUME TypeInv, NEW q, NEW r, Begin(q, r), RequestFits(r),
           UNCHANGED <<now, phone, verified, row, sent, wrong, accepted, trusted, crossed>>,
           edits' \in 0..MaxEdits,
           \A p \in DOMAIN req : r.op \in Sends /\ req[p].op \in Sends => req[p].code # r.code,
           \/ r.id \in DOMAIN row
           \/ r.id = 0 /\ r.op \notin Sends
           \/ \A p \in DOMAIN req : req[p].id # r.id
    PROVE  TypeInv'
<1>1. /\ q \in Requests /\ DOMAIN req' = DOMAIN req \cup {q}
      /\ req'[q] = r
      /\ \A p \in DOMAIN req : p # q /\ req'[p] = req[p]
  BY BeginFacts
<1>2. \A p \in DOMAIN req : RequestFits(req[p])
  BY DEF TypeInv, RequestsOK
<1>3. \A s : RequestFits(s) => RequestFits(s)'
  BY DEF RequestFits, RequestRow, For
<1>4. \A p \in DOMAIN req' : RequestFits(req[p])'
  <2> SUFFICES ASSUME NEW p \in DOMAIN req' PROVE RequestFits(req[p])'
    OBVIOUS
  <2> PICK s : s = req'[p]
    OBVIOUS
  <2>1. RequestFits(s)
    BY <1>1, <1>2
  <2>2. RequestFits(s)'
    BY <1>3, <2>1
  <2> QED
    BY <2>2 DEF RequestFits, RequestRow, For
<1>5. DOMAIN req' \subseteq Requests
  BY <1>1 DEF TypeInv, RequestsOK
<1>6. \A p \in DOMAIN req : req[p].op \in Sends => req[p].id \in Ids /\ req[p].id # 0
  BY <1>2, SettingsOK DEF RequestFits, Ids, Settings
<1>7. \A p, s \in DOMAIN req' :
        p # s /\ req'[p].op \in Sends =>
          /\ req'[p].id \notin DOMAIN row' => req'[p].id # req'[s].id
          /\ req'[s].op \in Sends => req'[p].code # req'[s].code
  BY <1>1, <1>6 DEF TypeInv, RequestsOK
<1>8. RequestsOK'
  BY <1>4, <1>5, <1>7 DEF RequestsOK
<1>9. alone' \in BOOLEAN
  BY DEF Begin
<1>10. UsersOK' /\ RowsOK' /\ HistoryOK'
  BY <1>9 DEF TypeInv, UsersOK, RowsOK, PhoneVerificationCode, HistoryOK
<1> QED
  BY <1>8, <1>10 DEF TypeInv

\* A request ends; it may have inserted the row it was to insert, and sent its code.
LEMMA EndKeepsRequests ==
    ASSUME TypeInv, NEW q \in DOMAIN req, End(q), now' = now,
           DOMAIN row \subseteq DOMAIN row',
           \A i \in DOMAIN row' \ DOMAIN row : req[q].op \in Sends /\ i = req[q].id,
           \A i \in DOMAIN row : row'[i].user = row[i].user /\ row'[i].number = row[i].number,
           \A c \in DOMAIN sent : c \in DOMAIN sent' /\ sent'[c] = sent[c],
           \A c \in DOMAIN sent' \ DOMAIN sent : req[q].op \in Sends /\ c = req[q].code
    PROVE  RequestsOK'
<1>1. /\ DOMAIN req' = DOMAIN req \ {q}
      /\ \A p \in DOMAIN req' : req'[p] = req[p]
  BY EndFacts
<1>2. ASSUME NEW p \in DOMAIN req'
      PROVE  RequestFits(req[p])'
  <2> PICK r : r = req[p]
    OBVIOUS
  <2>1. p \in DOMAIN req /\ p # q /\ req'[p] = r
    BY <1>1
  <2>2. RequestFits(r)
    BY <2>1 DEF TypeInv, RequestsOK
  <2>3. r \in RequestRow'
    BY <2>2 DEF RequestFits, RequestRow
  <2>4. r.op \in Sends => r.code \notin DOMAIN sent' /\ (r.id \in DOMAIN row' => r.id \in DOMAIN row)
    BY <2>1, <2>2 DEF TypeInv, RequestsOK, RequestFits
  <2>5. RequestFits(r)'
    BY <2>2, <2>3, <2>4 DEF RequestFits, For
  <2> QED
    BY <2>1, <2>5 DEF RequestFits, RequestRow, For
<1>3. RequestsOK'
  BY <1>1, <1>2 DEF TypeInv, RequestsOK
<1> QED
  BY <1>3

\* Row id is written, and no other but to consume it.
LEMMA RowsChange ==
    ASSUME TypeInv, NEW id \in Ids, DOMAIN row' = DOMAIN row \cup {id},
           \A c \in DOMAIN sent : c \in DOMAIN sent' /\ sent'[c] = sent[c],
           \A i \in DOMAIN row \ {id} : StillThere(i) \/ row'[i] = row[i],
           row'[id] \in PhoneVerificationCode, row'[id].code \in DOMAIN sent',
           sent'[row'[id].code] = <<row'[id].user, row'[id].number>>
    PROVE  RowsOK'
<1>1. PhoneVerificationCode' = PhoneVerificationCode
  BY DEF PhoneVerificationCode
<1>2. \A i \in DOMAIN row \ {id} :
         /\ row'[i] \in PhoneVerificationCode
         /\ row'[i].code \in DOMAIN sent' /\ sent'[row'[i].code] = <<row'[i].user, row'[i].number>>
  BY DEF TypeInv, RowsOK, StillThere
<1>3. DOMAIN row' \subseteq Ids
  BY DEF TypeInv, RowsOK
<1> QED
  BY <1>1, <1>2, <1>3 DEF RowsOK

LEMMA TypeInvStep == TypeInv /\ [Next]_vars => TypeInv'
<1> SUFFICES ASSUME TypeInv, [Next]_vars PROVE TypeInv'
  OBVIOUS
<1>r. \A i \in DOMAIN row : row[i] \in PhoneVerificationCode /\ row[i].code \in DOMAIN sent
                            /\ sent[row[i].code] = <<row[i].user, row[i].number>> /\ i \in Ids
  BY DEF TypeInv, RowsOK
<1>1. ASSUME NEW q \in Requests, NEW u \in Users, NEW n \in Numbers, NEW c \in Codes, SendBegin(q, u, n, c)
      PROVE  TypeInv'
  <2> PICK r \in RequestRow :
             /\ Begin(q, r)
             /\ r.op = "send" /\ r.user = u /\ r.number = n /\ r.code = c /\ r.id \in Ids /\ r.sends < MaxSends
             /\ r.id \in DOMAIN row => For(r, r.id)
             /\ r.id \notin DOMAIN row => \A p \in DOMAIN req : req[p].id # r.id
    BY <1>1, SendBeginFacts
  <2>1. /\ c \notin DOMAIN sent /\ \A p \in DOMAIN req : req[p].code # c
        /\ UNCHANGED <<now, phone, verified, row, sent, wrong, accepted, trusted, crossed, edits>>
    BY <1>1 DEF SendBegin, Drawn
  <2>2. RequestFits(r)
    BY <2>1 DEF RequestFits, Sends, Checks
  <2>3. edits' \in 0..MaxEdits
    BY <2>1 DEF TypeInv, HistoryOK
  <2> QED
    BY <2>1, <2>2, <2>3, BeginKeepsTypes
<1>2. ASSUME NEW q \in Requests, NEW u \in Users, NEW n \in Numbers, NEW c \in Codes, VerifyBegin(q, u, n, c)
      PROVE  TypeInv'
  <2> PICK r \in RequestRow :
             /\ Begin(q, r)
             /\ r.op \in Checks /\ r.user = u /\ r.number = n
             /\ r.id \in DOMAIN row /\ For(r, r.id)
             /\ r.code = row[r.id].code /\ r.tries = row[r.id].tries /\ r.tries < MaxTries
    BY <1>2, VerifyBeginFacts
  <2>1. UNCHANGED <<now, phone, verified, row, sent, wrong, accepted, trusted, crossed, edits>>
    BY <1>2 DEF VerifyBegin
  <2>2. r.op \notin Sends /\ r.op \notin {"declare", "renumber"}
    BY DEF Sends, Checks
  <2>3. r.code \in DOMAIN sent /\ sent[r.code] = <<r.user, r.number>>
    BY <1>r DEF For
  <2>4. RequestFits(r)
    BY <2>2, <2>3 DEF RequestFits
  <2>5. edits' \in 0..MaxEdits
    BY <2>1 DEF TypeInv, HistoryOK
  <2> QED
    BY <2>1, <2>2, <2>4, <2>5, BeginKeepsTypes
<1>3. ASSUME NEW q \in Requests, NEW u \in Users, NEW n \in Numbers \cup {NoNumber}, NEW op \in EditOps,
             EditBegin(q, u, n, op)
      PROVE  TypeInv'
  <2> PICK r \in RequestRow :
             /\ Begin(q, r)
             /\ r.op \in EditOps /\ r.id = 0 /\ r.user = u
             /\ r.op \in {"declare", "renumber"} => r.number \in Numbers
    BY <1>3, EditBeginFacts
  <2>1. /\ edits < MaxEdits /\ edits' = edits + 1
        /\ UNCHANGED <<now, phone, verified, row, sent, wrong, accepted, trusted, crossed>>
    BY <1>3 DEF EditBegin
  <2>2. r.op \notin Sends /\ r.op \notin Checks /\ r.op # "wrong"
    BY DEF Sends, Checks, EditOps
  <2>3. RequestFits(r)
    BY <2>2 DEF RequestFits
  <2>4. edits' \in 0..MaxEdits
    BY <2>1, SettingsOK DEF TypeInv, HistoryOK, Settings
  <2> QED
    BY <2>1, <2>2, <2>3, <2>4, BeginKeepsTypes
<1>4. ASSUME NEW q \in Requests, SendGather(q)
      PROVE  TypeInv'
  <2> PICK r : r = req[q]
    OBVIOUS
  <2> DEFINE drop == r.drop \cup Replaced(r.user, r.id)
             new == [r EXCEPT !.op = "sending", !.drop = drop]
  <2>1. /\ q \in DOMAIN req /\ r.op = "send" /\ req' = [req EXCEPT ![q] = new]
        /\ UNCHANGED <<now, phone, verified, row, alone, sent, wrong, accepted, trusted, crossed, edits>>
    BY <1>4 DEF SendGather
  <2>2. RequestFits(r) /\ r \in RequestRow
    BY <2>1 DEF TypeInv, RequestsOK, RequestFits
  <2>3. drop \in SUBSET Ids
    BY <2>2 DEF RequestRow, Replaced, ActiveRows, TypeInv, RowsOK
  <2> HIDE DEF drop
  <2>4. /\ new \in RequestRow /\ new.op = "sending" /\ new.id = r.id /\ new.user = r.user
        /\ new.number = r.number /\ new.code = r.code /\ new.sends = r.sends
    BY <2>2, <2>3 DEF RequestRow
  <2> HIDE DEF new
  <2>5. /\ DOMAIN req' = DOMAIN req /\ req'[q] = new
        /\ \A p \in DOMAIN req \ {q} : req'[p] = req[p]
    BY <2>1
  <2>6. RequestFits(new)
    BY <2>1, <2>2, <2>4 DEF RequestFits, Sends, Checks, For
  <2>7. \A p \in DOMAIN req' : RequestFits(req'[p])
    BY <2>5, <2>6 DEF TypeInv, RequestsOK
  <2>8. \A p \in DOMAIN req' : RequestFits(req[p])'
    BY <2>1, <2>7 DEF RequestFits, RequestRow, For
  <2>9. RequestsOK'
    <3>1. \A p, s \in DOMAIN req' :
            p # s /\ req'[p].op \in Sends =>
              /\ req'[p].id \notin DOMAIN row => req'[p].id # req'[s].id
              /\ req'[s].op \in Sends => req'[p].code # req'[s].code
      BY <2>1, <2>4, <2>5 DEF TypeInv, RequestsOK, Sends
    <3> QED
      BY <2>1, <2>5, <2>8, <3>1 DEF TypeInv, RequestsOK
  <2> QED
    BY <2>1, <2>9 DEF TypeInv, UsersOK, RowsOK, PhoneVerificationCode, HistoryOK
<1>5. ASSUME NEW q \in Requests, SendCommit(q)
      PROVE  TypeInv'
  <2> PICK r : r = req[q]
    OBVIOUS
  <2>1. /\ q \in DOMAIN req /\ RequestFits(r) /\ r.op = "sending"
        /\ DOMAIN row' = DOMAIN row \cup {r.id}
        /\ \A i \in DOMAIN row \ {r.id} : StillThere(i)
        /\ row'[r.id] \in PhoneVerificationCode
        /\ row'[r.id].user = r.user /\ row'[r.id].number = r.number /\ row'[r.id].code = r.code
        /\ DOMAIN sent' = DOMAIN sent \cup {r.code} /\ sent'[r.code] = <<r.user, r.number>>
        /\ \A c \in DOMAIN sent : c # r.code /\ sent'[c] = sent[c]
        /\ End(q) /\ UNCHANGED <<now, phone, verified, wrong, accepted, trusted, crossed, edits>>
    BY <1>5, SendCommitFacts
  <2>2. /\ r.op \in Sends /\ r.id \in Ids /\ r.code \in Codes /\ <<r.user, r.number>> \in Users \X Numbers
        /\ r.id \in DOMAIN row => row[r.id].user = r.user /\ row[r.id].number = r.number
    BY <2>1 DEF RequestFits, RequestRow, Sends, For
  <2>3. RowsOK'
    BY <2>1, <2>2, RowsChange
  <2>4. \A i \in DOMAIN row : row'[i].user = row[i].user /\ row'[i].number = row[i].number
    BY <2>1, <2>2 DEF StillThere
  <2>5. RequestsOK'
    BY <2>1, <2>2, <2>4, EndKeepsRequests
  <2>6. HistoryOK'
    BY <2>1, <2>2, EndFacts DEF TypeInv, HistoryOK
  <2> QED
    BY <2>1, <2>3, <2>5, <2>6 DEF TypeInv, UsersOK
<1>6. ASSUME NEW q \in Requests, GuessCommit(q)
      PROVE  TypeInv'
  <2> PICK r : r = req[q]
    OBVIOUS
  <2>1. /\ q \in DOMAIN req /\ RequestFits(r) /\ r.id \in DOMAIN row /\ r.code \in DOMAIN sent
        /\ DOMAIN row' = DOMAIN row
        /\ \A i \in DOMAIN row \ {r.id} : row'[i] = row[i]
        /\ row'[r.id] \in PhoneVerificationCode
        /\ row'[r.id].user = row[r.id].user /\ row'[r.id].number = row[r.id].number
        /\ row'[r.id].code = row[r.id].code
        /\ wrong' = [wrong EXCEPT ![r.code] = @ + 1]
        /\ End(q) /\ UNCHANGED <<now, phone, verified, sent, accepted, trusted, crossed, edits>>
    BY <1>6, GuessCommitFacts
  <2>2. RowsOK'
    BY <1>r, <2>1, RowsChange
  <2>3. \A i \in DOMAIN row : row'[i].user = row[i].user /\ row'[i].number = row[i].number
    BY <2>1
  <2>4. RequestsOK'
    BY <2>1, <2>3, EndKeepsRequests
  <2>5. wrong' \in [Codes -> Nat]
    BY <2>1 DEF TypeInv, HistoryOK
  <2>6. HistoryOK'
    BY <2>1, <2>5, EndFacts DEF TypeInv, HistoryOK
  <2> QED
    BY <2>1, <2>2, <2>4, <2>6 DEF TypeInv, UsersOK
<1>7. ASSUME NEW q \in Requests, AcceptCommit(q)
      PROVE  TypeInv'
  <2> PICK r : r = req[q]
    OBVIOUS
  <2>1. /\ q \in DOMAIN req /\ RequestFits(r) /\ r.op = "right" /\ r.id \in DOMAIN row
        /\ DOMAIN row' = DOMAIN row
        /\ \A i \in DOMAIN row \ {r.id} : row'[i] = row[i]
        /\ row'[r.id] \in PhoneVerificationCode
        /\ row'[r.id].user = row[r.id].user /\ row'[r.id].number = row[r.id].number
        /\ row'[r.id].code = row[r.id].code
        /\ accepted' = accepted \cup {r.code}
        /\ SetPhone(r, TRUE) /\ Crossed(q, EditOps)
        /\ End(q) /\ UNCHANGED <<now, sent, wrong, trusted, edits>>
    BY <1>7, AcceptCommitFacts
  <2>2. r \in RequestRow /\ r.code \in DOMAIN sent
    BY <2>1 DEF RequestFits, Checks
  <2>3. UsersOK'
    BY <2>1, <2>2, SetPhoneFacts
  <2>4. RowsOK'
    BY <1>r, <2>1, RowsChange
  <2>5. \A i \in DOMAIN row : row'[i].user = row[i].user /\ row'[i].number = row[i].number
    BY <2>1
  <2>6. RequestsOK'
    BY <2>1, <2>5, EndKeepsRequests
  <2>7. HistoryOK'
    BY <2>1, <2>2, EndFacts, CrossedFacts DEF TypeInv, HistoryOK
  <2> QED
    BY <2>3, <2>4, <2>6, <2>7 DEF TypeInv
<1>8. ASSUME NEW q \in Requests, EditCommit(q)
      PROVE  TypeInv'
  <2> PICK r : r = req[q]
    OBVIOUS
  <2>1. /\ q \in DOMAIN req /\ r.op \in EditOps /\ SetPhone(r, FlagAfter(r))
        /\ trusted' = IF FlagAfter(r) THEN trusted \cup {<<r.user, r.number>>} ELSE trusted
        /\ Crossed(q, EditOps \cup {"right"})
        /\ End(q) /\ UNCHANGED <<now, row, sent, wrong, accepted, edits>>
    BY <1>8 DEF EditCommit, EditOps
  <2>2. /\ r \in RequestRow /\ r.user \in Users /\ (FlagAfter(r) => r.number \in Numbers)
        /\ FlagAfter(r) \in BOOLEAN
    BY <2>1 DEF TypeInv, RequestsOK, RequestFits, RequestRow, FlagAfter, EditOps
  <2>3. UsersOK'
    BY <2>1, <2>2, SetPhoneFacts
  <2>4. RequestsOK'
    BY <2>1, EndKeepsRequests
  <2>5. trusted' \subseteq Users \X Numbers
    BY <2>1, <2>2 DEF TypeInv, HistoryOK
  <2>6. HistoryOK'
    BY <2>1, <2>5, EndFacts, CrossedFacts DEF TypeInv, HistoryOK
  <2> QED
    BY <2>1, <2>3, <2>4, <2>6 DEF TypeInv, RowsOK, PhoneVerificationCode
<1>9. ASSUME NEW q \in Requests, Fail(q)
      PROVE  TypeInv'
  <2>1. /\ q \in DOMAIN req /\ End(q)
        /\ UNCHANGED <<now, phone, verified, row, sent, wrong, accepted, trusted, crossed, edits>>
    BY <1>9 DEF Fail
  <2>2. RequestsOK'
    BY <2>1, EndKeepsRequests
  <2>3. UsersOK' /\ RowsOK' /\ HistoryOK'
    BY <2>1, EndFacts DEF TypeInv, UsersOK, RowsOK, PhoneVerificationCode, HistoryOK
  <2> QED
    BY <2>2, <2>3 DEF TypeInv
<1>10. CASE Tick
  <2>1. /\ now' \in 0..MaxTime /\ 0..now \subseteq 0..now'
        /\ UNCHANGED <<phone, verified, row, req, alone, sent, wrong, accepted, trusted, crossed, edits>>
    BY <1>10, SettingsOK DEF Tick, TypeInv, HistoryOK, Settings
  <2>2. RequestRow \subseteq RequestRow'
    BY <2>1 DEF RequestRow
  <2>3. RequestsOK'
    BY <2>1, <2>2 DEF TypeInv, RequestsOK, RequestFits, For
  <2> QED
    BY <2>1, <2>3 DEF TypeInv, UsersOK, RowsOK, PhoneVerificationCode, HistoryOK
<1>11. CASE UNCHANGED vars
  BY <1>11 DEF vars, TypeInv, UsersOK, RowsOK, PhoneVerificationCode, RequestsOK, RequestFits, RequestRow, For, HistoryOK
<1> QED
  BY <1>1, <1>2, <1>3, <1>4, <1>5, <1>6, <1>7, <1>8, <1>9, <1>10, <1>11 DEF Next

\* The tables are well formed, no two users have the same number, and rows and requests
\* belong to users, for any sets of users, numbers, codes and requests and any bounds.
THEOREM VerificationTypeCorrect == Spec => []TypeOK
<1>1. Spec => []TypeInv
  BY TypeInvInit, TypeInvStep, PTL DEF Spec
<1> QED
  BY <1>1, TypeInvTypeOK, PTL

-----------------------------------------------------------------------------
\* No commit revives a row.

LEMMA ConsumedStep ==
    TypeInv /\ [Next]_vars => [\A i \in DOMAIN row : row[i].consumed => row'[i].consumed]_vars
<1> SUFFICES ASSUME TypeInv, [Next]_vars, NEW i \in DOMAIN row, row[i].consumed
             PROVE  row'[i].consumed
  OBVIOUS
<1>1. ASSUME row' = row PROVE row'[i].consumed
  BY <1>1
<1>2. ASSUME NEW q \in Requests, SendCommit(q) PROVE row'[i].consumed
  <2> PICK r : r = req[q]
    OBVIOUS
  <2>1. /\ \A j \in DOMAIN row \ {r.id} : StillThere(j)
        /\ r.id \in DOMAIN row => row'[r.id].consumed = row[r.id].consumed
    BY <1>2, SendCommitFacts
  <2> QED
    BY <2>1 DEF StillThere
<1>3. ASSUME NEW q \in Requests, GuessCommit(q) PROVE row'[i].consumed
  <2> PICK r : r = req[q]
    OBVIOUS
  <2>1. /\ \A j \in DOMAIN row \ {r.id} : row'[j] = row[j]
        /\ ~row'[r.id].consumed => ~row[r.id].consumed
    BY <1>3, GuessCommitFacts
  <2> QED
    BY <2>1
<1>4. ASSUME NEW q \in Requests, AcceptCommit(q) PROVE row'[i].consumed
  <2> PICK r : r = req[q]
    OBVIOUS
  <2>1. /\ \A j \in DOMAIN row \ {r.id} : row'[j] = row[j]
        /\ row'[r.id].consumed
    BY <1>4, AcceptCommitFacts
  <2> QED
    BY <2>1
<1>5. ASSUME NEW q \in Requests, NEW u \in Users, NEW n \in Numbers, NEW c \in Codes,
             SendBegin(q, u, n, c) \/ VerifyBegin(q, u, n, c)
      PROVE  row' = row
  BY <1>5 DEF SendBegin, VerifyBegin
<1>6. ASSUME NEW q \in Requests, NEW u \in Users, NEW n \in Numbers \cup {NoNumber}, NEW op \in EditOps,
             EditBegin(q, u, n, op)
      PROVE  row' = row
  BY <1>6 DEF EditBegin
<1>7. ASSUME NEW q \in Requests, SendGather(q) \/ EditCommit(q) \/ Fail(q) PROVE row' = row
  BY <1>7 DEF SendGather, EditCommit, Fail
<1>8. Tick \/ UNCHANGED vars => row' = row
  BY DEF Tick, vars
<1> QED
  BY <1>1, <1>2, <1>3, <1>4, <1>5, <1>6, <1>7, <1>8 DEF Next

\* Whatever a resend had read before, and though it sets consumed_at to NULL, no row is
\* brought back once it is consumed, for any number of requests at a time.
THEOREM RowsAreConsumedForGood == Spec => ConsumedForGood
<1>1. Spec => []TypeInv
  BY TypeInvInit, TypeInvStep, PTL DEF Spec
<1> QED
  BY <1>1, ConsumedStep, PTL DEF Spec, ConsumedForGood

-----------------------------------------------------------------------------
\* Verified numbers have been received.

LEMMA ReceivedInvInit == Init => ReceivedInv
<1> SUFFICES ASSUME Init PROVE ReceivedInv
  OBVIOUS
<1>1. DOMAIN req = {} /\ \A u \in Users : verified[u] => <<u, phone[u]>> \in trusted
  BY DEF Init
<1> QED
  BY <1>1 DEF ReceivedInv, Received

\* What has been received, stays so.
LEMMA ReceivedStays ==
    ASSUME TypeInv, accepted \subseteq accepted', trusted \subseteq trusted',
           \A c \in DOMAIN sent : sent'[c] = sent[c],
           NEW u, NEW n, Received(u, n)
    PROVE  Received(u, n)'
BY DEF Received, TypeInv, HistoryOK

\* A step that writes neither numbers nor flags, and begins nothing.
LEMMA ReceivedKept ==
    ASSUME TypeInv, ReceivedInv, UNCHANGED <<phone, verified, accepted, trusted, crossed>>,
           \A c \in DOMAIN sent : sent'[c] = sent[c],
           DOMAIN req' \subseteq DOMAIN req,
           \A p \in DOMAIN req' : /\ req'[p].user = req[p].user /\ req'[p].had = req[p].had /\ req'[p].was = req[p].was
                                  /\ req'[p].op = req[p].op \/ (req[p].op \in Sends /\ req'[p].op \in Sends)
    PROVE  ReceivedInv'
<1>1. \A u \in Users \ crossed' : verified'[u] => Received(u, phone[u])'
  BY DEF ReceivedInv, Received, TypeInv, HistoryOK
<1>2. ASSUME NEW p \in DOMAIN req'
      PROVE  ReadingHolds(req[p])'
  <2> PICK r : r = req[p]
    OBVIOUS
  <2> PICK s : s = req'[p]
    OBVIOUS
  <2>1. ReadingHolds(r)
    BY DEF ReceivedInv
  <2>2. /\ s.user = r.user /\ s.had = r.had /\ s.was = r.was
        /\ s.op = r.op \/ (r.op \in Sends /\ s.op \in Sends)
    OBVIOUS
  <2>3. s.user \notin crossed' =>
          /\ s.op \in EditOps => phone'[s.user] = s.had /\ verified'[s.user] = s.was
          /\ s.op = "right" => phone'[s.user] = s.had \/ Received(s.user, phone[s.user])
    BY <2>1, <2>2 DEF ReadingHolds, Sends, EditOps
  <2>4. s.user \notin crossed' =>
          (s.op = "right" => phone'[s.user] = s.had \/ Received(s.user, phone[s.user])')
    BY <2>3 DEF Received, TypeInv, HistoryOK
  <2>5. ReadingHolds(s)'
    BY <2>3, <2>4 DEF ReadingHolds
  <2> QED
    BY <2>5 DEF ReadingHolds, Received
<1> QED
  BY <1>1, <1>2 DEF ReceivedInv

\* A request that begins with number and flag as they are.
LEMMA BeginKeepsReceived ==
    ASSUME ReceivedInv, NEW q, NEW r, Begin(q, r),
           UNCHANGED <<phone, verified, sent, accepted, trusted, crossed>>,
           r.op \notin Sends => r.had = phone[r.user] /\ r.was = verified[r.user]
    PROVE  ReceivedInv'
<1>1. /\ DOMAIN req' = DOMAIN req \cup {q} /\ req'[q] = r
      /\ \A p \in DOMAIN req : p # q /\ req'[p] = req[p]
  BY BeginFacts
<1>2. ReadingHolds(r)'
  BY DEF ReadingHolds, Sends, EditOps
<1>3. ASSUME NEW p \in DOMAIN req'
      PROVE  ReadingHolds(req[p])'
  <2> PICK s : s = req'[p]
    OBVIOUS
  <2>1. ReadingHolds(s)'
    <3>1. CASE p = q
      BY <1>1, <1>2, <3>1
    <3>2. CASE p # q
      <4>1. ReadingHolds(s)
        BY <1>1, <3>2 DEF ReceivedInv
      <4> QED
        BY <4>1 DEF ReadingHolds, Received
    <3> QED
      BY <3>1, <3>2
  <2> QED
    BY <2>1 DEF ReadingHolds, Received
<1>4. \A u \in Users \ crossed' : verified'[u] => Received(u, phone[u])'
  BY DEF ReceivedInv, Received
<1> QED
  BY <1>3, <1>4 DEF ReceivedInv

\* A request writes number and flag of its user, and ends.
LEMMA WriteKeepsReceived ==
    ASSUME TypeInv, ReceivedInv, NEW q \in DOMAIN req, End(q), NEW r, r = req[q],
           NEW ops \in {EditOps, EditOps \cup {"right"}}, Crossed(q, ops), sent' = sent,
           accepted \subseteq accepted', trusted \subseteq trusted',
           \A u \in Users \ {r.user} : phone'[u] = phone[u] /\ verified'[u] = verified[u],
           r.user \notin crossed' => (verified'[r.user] => Received(r.user, phone[r.user])'),
           r.user \notin crossed' /\ "right" \notin ops =>
               \A h : phone[r.user] = h \/ Received(r.user, phone[r.user])
                      => phone'[r.user] = h \/ Received(r.user, phone[r.user])'
    PROVE  ReceivedInv'
<1>1. /\ crossed \subseteq crossed'
      /\ \A p \in DOMAIN req \ {q} : req[p].op \in ops /\ req[p].user = r.user => r.user \in crossed'
  BY CrossedFacts
<1>2. /\ DOMAIN req' = DOMAIN req \ {q}
      /\ \A p \in DOMAIN req' : req'[p] = req[p]
  BY EndFacts
<1>3. \A u, n : Received(u, n) => Received(u, n)'
  BY DEF Received
<1>4. ASSUME NEW u \in Users \ crossed', verified'[u]
      PROVE  Received(u, phone[u])'
  <2>1. CASE u = r.user
    BY <1>4, <2>1
  <2>2. CASE u # r.user
    <3> PICK n : n = phone[u]
      OBVIOUS
    <3>1. phone'[u] = n /\ Received(u, n)
      BY <1>1, <1>4, <2>2 DEF ReceivedInv
    <3>2. Received(u, n)'
      BY <1>3, <3>1
    <3> QED
      BY <3>1, <3>2
  <2> QED
    BY <2>1, <2>2
<1>5. ASSUME NEW p \in DOMAIN req'
      PROVE  ReadingHolds(req[p])'
  <2> PICK s : s = req[p]
    OBVIOUS
  <2>1. p \in DOMAIN req \ {q} /\ req'[p] = s /\ ReadingHolds(s) /\ s.user \in Users
    BY <1>2 DEF ReceivedInv, TypeInv, RequestsOK, RequestFits, RequestRow
  <2>2. ASSUME s.user \notin crossed'
        PROVE  /\ s.op \in EditOps => phone'[s.user] = s.had /\ verified'[s.user] = s.was
               /\ s.op = "right" => phone'[s.user] = s.had \/ Received(s.user, phone[s.user])'
    <3>1. /\ s.op \in EditOps => phone[s.user] = s.had /\ verified[s.user] = s.was
          /\ s.op = "right" => phone[s.user] = s.had \/ Received(s.user, phone[s.user])
      BY <1>1, <2>1, <2>2 DEF ReadingHolds
    <3>2. CASE s.user # r.user
      <4> PICK n : n = phone[s.user]
        OBVIOUS
      <4>1. phone'[s.user] = n /\ verified'[s.user] = verified[s.user]
        BY <2>1, <3>2
      <4>2. Received(s.user, n) => Received(s.user, n)'
        BY <1>3
      <4> QED
        BY <3>1, <4>1, <4>2
    <3>3. CASE s.user = r.user
      <4>1. s.op \notin ops
        BY <1>1, <2>1, <2>2, <3>3
      <4>2. s.op \notin EditOps /\ (s.op = "right" => "right" \notin ops)
        BY <4>1 DEF EditOps
      <4> QED
        BY <2>2, <3>1, <3>3, <4>2
    <3> QED
      BY <3>2, <3>3
  <2>3. ReadingHolds(s)'
    BY <2>2 DEF ReadingHolds
  <2> QED
    BY <2>1, <2>3 DEF ReadingHolds, Received
<1> QED
  BY <1>4, <1>5 DEF ReceivedInv

LEMMA ReceivedInvStep == TypeInv /\ ReceivedInv /\ [Next]_vars => ReceivedInv'
<1> SUFFICES ASSUME TypeInv, ReceivedInv, [Next]_vars PROVE ReceivedInv'
  OBVIOUS
<1>1. ASSUME NEW q \in Requests, NEW u \in Users, NEW n \in Numbers, NEW c \in Codes, SendBegin(q, u, n, c)
      PROVE  ReceivedInv'
  <2> PICK r \in RequestRow : Begin(q, r) /\ r.op = "send"
    BY <1>1, SendBeginFacts
  <2> QED
    BY <1>1, BeginKeepsReceived DEF SendBegin, Sends
<1>2. ASSUME NEW q \in Requests, NEW u \in Users, NEW n \in Numbers, NEW c \in Codes, VerifyBegin(q, u, n, c)
      PROVE  ReceivedInv'
  <2> PICK r \in RequestRow : Begin(q, r) /\ r.user = u /\ r.had = phone[u] /\ r.was = verified[u]
    BY <1>2, VerifyBeginFacts
  <2> QED
    BY <1>2, BeginKeepsReceived DEF VerifyBegin
<1>3. ASSUME NEW q \in Requests, NEW u \in Users, NEW n \in Numbers \cup {NoNumber}, NEW op \in EditOps,
             EditBegin(q, u, n, op)
      PROVE  ReceivedInv'
  <2> PICK r \in RequestRow : Begin(q, r) /\ r.user = u /\ r.had = phone[u] /\ r.was = verified[u]
    BY <1>3, EditBeginFacts
  <2> QED
    BY <1>3, BeginKeepsReceived DEF EditBegin
<1>4. ASSUME NEW q \in Requests, SendGather(q)
      PROVE  ReceivedInv'
  <2> PICK r : r = req[q]
    OBVIOUS
  <2> DEFINE drop == r.drop \cup Replaced(r.user, r.id)
             new == [r EXCEPT !.op = "sending", !.drop = drop]
  <2>1. /\ q \in DOMAIN req /\ r.op = "send" /\ req' = [req EXCEPT ![q] = new]
        /\ UNCHANGED <<phone, verified, sent, accepted, trusted, crossed>>
    BY <1>4 DEF SendGather
  <2>2. r \in RequestRow
    BY <2>1 DEF TypeInv, RequestsOK, RequestFits
  <2> HIDE DEF drop
  <2>3. new.user = r.user /\ new.had = r.had /\ new.was = r.was /\ new.op = "sending"
    BY <2>2 DEF RequestRow
  <2> HIDE DEF new
  <2>4. DOMAIN req' = DOMAIN req /\ req'[q] = new /\ \A p \in DOMAIN req \ {q} : req'[p] = req[p]
    BY <2>1
  <2>5. \A p \in DOMAIN req' :
           /\ req'[p].user = req[p].user /\ req'[p].had = req[p].had /\ req'[p].was = req[p].was
           /\ req'[p].op = req[p].op \/ (req[p].op \in Sends /\ req'[p].op \in Sends)
    BY <2>1, <2>3, <2>4 DEF Sends
  <2> QED
    BY <2>1, <2>4, <2>5, ReceivedKept
<1>5. ASSUME NEW q \in Requests, End(q), UNCHANGED <<phone, verified, accepted, trusted, crossed>>,
             \A c \in DOMAIN sent : sent'[c] = sent[c]
      PROVE  ReceivedInv'
  BY <1>5, EndFacts, ReceivedKept
<1>6. ASSUME NEW q \in Requests, SendCommit(q) PROVE ReceivedInv'
  <2> PICK r : r = req[q]
    OBVIOUS
  <2>1. /\ End(q) /\ UNCHANGED <<phone, verified, accepted, trusted, crossed>>
        /\ \A c \in DOMAIN sent : sent'[c] = sent[c]
    BY <1>6, SendCommitFacts
  <2> QED
    BY <1>5, <2>1
<1>7. ASSUME NEW q \in Requests, GuessCommit(q) PROVE ReceivedInv'
  BY <1>5, <1>7 DEF GuessCommit
<1>8. ASSUME NEW q \in Requests, AcceptCommit(q)
      PROVE  ReceivedInv'
  <2> PICK r : r = req[q]
    OBVIOUS
  <2>1. /\ q \in DOMAIN req /\ RequestFits(r) /\ r.op = "right"
        /\ accepted' = accepted \cup {r.code}
        /\ SetPhone(r, TRUE) /\ Crossed(q, EditOps)
        /\ End(q) /\ UNCHANGED <<sent, trusted>>
    BY <1>8, AcceptCommitFacts
  <2>2. r \in RequestRow /\ sent[r.code] = <<r.user, r.number>>
    BY <2>1 DEF RequestFits, Checks
  <2>3. /\ \A u \in Users \ {r.user} : phone'[u] = phone[u] /\ verified'[u] = verified[u]
        /\ phone'[r.user] = IF r.number = r.had THEN phone[r.user] ELSE r.number
    BY <2>1, <2>2, SetPhoneFacts
  <2>4. Received(r.user, r.number)'
    BY <2>1, <2>2 DEF Received
  <2>5. \A n : Received(r.user, n) => Received(r.user, n)'
    BY <2>1 DEF Received
  <2>6. ASSUME r.user \notin crossed' PROVE Received(r.user, phone[r.user])'
    <3> PICK n : n = phone[r.user]
      OBVIOUS
    <3>1. n = r.had \/ Received(r.user, n)
      BY <2>1, <2>6, CrossedFacts DEF ReceivedInv, ReadingHolds
    <3> PICK m : m = phone'[r.user]
      OBVIOUS
    <3>2. m = r.number \/ (m = n /\ Received(r.user, n))
      BY <2>3, <3>1
    <3>3. Received(r.user, m)'
      BY <2>4, <2>5, <3>2
    <3> QED
      BY <3>3
  <2>7. EditOps \in {EditOps, EditOps \cup {"right"}} /\ trusted \subseteq trusted' /\ accepted \subseteq accepted'
    BY <2>1
  <2> QED
    BY <2>1, <2>3, <2>6, <2>7, WriteKeepsReceived
<1>9. ASSUME NEW q \in Requests, EditCommit(q)
      PROVE  ReceivedInv'
  <2> PICK r : r = req[q]
    OBVIOUS
  <2> DEFINE ops == EditOps \cup {"right"}
  <2>1. /\ q \in DOMAIN req /\ r.op \in EditOps /\ SetPhone(r, FlagAfter(r))
        /\ trusted' = IF FlagAfter(r) THEN trusted \cup {<<r.user, r.number>>} ELSE trusted
        /\ Crossed(q, ops)
        /\ End(q) /\ UNCHANGED <<sent, accepted>>
    BY <1>9 DEF EditCommit, EditOps
  <2>2. r \in RequestRow /\ FlagAfter(r) \in BOOLEAN
    BY <2>1 DEF TypeInv, RequestsOK, RequestFits, RequestRow, FlagAfter
  <2>3. /\ \A u \in Users \ {r.user} : phone'[u] = phone[u] /\ verified'[u] = verified[u]
        /\ phone'[r.user] = IF r.number = r.had THEN phone[r.user] ELSE r.number
        /\ verified'[r.user] = IF FlagAfter(r) = r.was THEN verified[r.user] ELSE FlagAfter(r)
    BY <2>1, <2>2, SetPhoneFacts
  <2>4. ASSUME r.user \notin crossed', verified'[r.user] PROVE Received(r.user, phone[r.user])'
    <3>1. phone[r.user] = r.had /\ verified[r.user] = r.was
      BY <2>1, <2>4, CrossedFacts DEF ReceivedInv, ReadingHolds
    <3>2. phone'[r.user] = r.number /\ FlagAfter(r)
      BY <2>3, <2>4, <3>1
    <3>3. Received(r.user, r.number)'
      BY <2>1, <3>2 DEF Received
    <3> QED
      BY <3>2, <3>3
  <2>5. ops \in {EditOps, EditOps \cup {"right"}} /\ "right" \in ops
        /\ trusted \subseteq trusted' /\ accepted \subseteq accepted'
    BY <2>1
  <2> HIDE DEF ops
  <2> QED
    BY <2>1, <2>3, <2>4, <2>5, WriteKeepsReceived
<1>10. ASSUME NEW q \in Requests, Fail(q) PROVE ReceivedInv'
  BY <1>5, <1>10 DEF Fail
<1>11. ASSUME UNCHANGED <<phone, verified, req, sent, accepted, trusted, crossed>> PROVE ReceivedInv'
  BY <1>11, ReceivedKept
<1>12. CASE Tick
  BY <1>11, <1>12 DEF Tick
<1>13. CASE UNCHANGED vars
  BY <1>11, <1>13 DEF vars
<1> QED
  BY <1>1, <1>2, <1>3, <1>4, <1>6, <1>7, <1>8, <1>9, <1>10, <1>12, <1>13 DEF Next

\* A number counts as verified only if a code was received at it, or the account came
\* with it, or an administrator declared it verified or entered it for a user who counted
\* as verified, unless an administrator's edit crossed a verification or another edit,
\* for any users, numbers, codes and requests and any settings.
THEOREM VerifiedNumbersWereReceived == Spec => []VerifiedWasReceived
<1>1. Spec => [](TypeInv /\ ReceivedInv)
  BY TypeInvInit, TypeInvStep, ReceivedInvInit, ReceivedInvStep, PTL DEF Spec
<1>2. TypeInv /\ ReceivedInv => VerifiedWasReceived
  BY DEF ReceivedInv, Received, VerifiedWasReceived, TypeInv, HistoryOK
<1> QED
  BY <1>1, <1>2, PTL

-----------------------------------------------------------------------------
\* Requests that come one at a time.

LEMMA AloneInvInit == Init => AloneInv
<1> SUFFICES ASSUME Init PROVE AloneInv
  OBVIOUS
<1>1. DOMAIN row = {} /\ DOMAIN req = {} /\ \A c \in Codes : wrong[c] = 0
  BY DEF Init
<1> QED
  BY <1>1 DEF AloneInv, OneRequest, CodesCount

\* A step that leaves the rows, the codes and the wrong guesses, and begins no request.
LEMMA AloneInvKept ==
    ASSUME AloneInv, alone' => alone, UNCHANGED <<row, sent, wrong>>,
           DOMAIN req' \subseteq DOMAIN req,
           \A p \in DOMAIN req' : req'[p] = req[p] \/ req'[p].op \notin Checks
    PROVE  AloneInv'
<1> SUFFICES ASSUME alone' PROVE OneRequest' /\ CodesCount'
  BY DEF AloneInv
<1>1. OneRequest /\ CodesCount
  BY DEF AloneInv
<1>2. CodesCount'
  BY <1>1 DEF CodesCount
<1>3. ASSUME NEW p \in DOMAIN req' PROVE UpToDate(req[p])'
  <2> PICK r : r = req'[p]
    OBVIOUS
  <2>1. UpToDate(r)'
    BY <1>1 DEF OneRequest, UpToDate
  <2> QED
    BY <2>1 DEF UpToDate
<1>4. OneRequest'
  BY <1>1, <1>3 DEF OneRequest
<1> QED
  BY <1>2, <1>4

\* A request that begins alone, and has read what it needs.
LEMMA BeginKeepsAlone ==
    ASSUME AloneInv, NEW q, NEW r, Begin(q, r), UNCHANGED <<row, sent, wrong>>, UpToDate(r)
    PROVE  AloneInv'
<1> SUFFICES ASSUME alone' PROVE OneRequest' /\ CodesCount'
  BY DEF AloneInv
<1>1. alone /\ req = <<>>
  BY DEF Begin
<1>2. DOMAIN req' = {q} /\ req'[q] = r
  BY <1>1 DEF Begin
<1>3. UpToDate(r)'
  BY DEF UpToDate
<1>4. UpToDate(req[q])'
  BY <1>2, <1>3 DEF UpToDate
<1>5. OneRequest'
  BY <1>2, <1>4 DEF OneRequest
<1>6. CodesCount'
  BY <1>1 DEF AloneInv, CodesCount
<1> QED
  BY <1>5, <1>6

\* The only request ends.
LEMMA EndLeavesNone ==
    ASSUME OneRequest, NEW q \in DOMAIN req, End(q)
    PROVE  DOMAIN req' = {} /\ OneRequest'
BY EndFacts DEF OneRequest

LEMMA CommitKeepsAloneInv ==
    ASSUME AloneInv, NEW q \in DOMAIN req, End(q), alone => CodesCount'
    PROVE  AloneInv'
BY EndFacts, EndLeavesNone DEF AloneInv

\* A commit that writes row id.
LEMMA CommitKeepsCodes ==
    ASSUME TypeInv, CodesCount, NEW id, DOMAIN row' = DOMAIN row \cup {id},
           DOMAIN sent \subseteq DOMAIN sent',
           \A c \in Codes \ DOMAIN sent' : wrong'[c] = wrong[c],
           \A i \in DOMAIN row \ {id} :
              /\ StillThere(i) \/ row'[i] = row[i]
              /\ row[i].code # row'[id].code
              /\ wrong'[row[i].code] = wrong[row[i].code],
           ~row'[id].consumed => wrong'[row'[id].code] <= row'[id].tries
    PROVE  CodesCount'
<1>1. \A i, j \in DOMAIN row' : i # j => row'[i].code # row'[j].code
  BY DEF CodesCount, StillThere
<1>2. \A i \in DOMAIN row' : ~row'[i].consumed => wrong'[row'[i].code] <= row'[i].tries
  BY DEF CodesCount, StillThere
<1> QED
  BY <1>1, <1>2 DEF CodesCount

LEMMA SendKeepsCodes == ASSUME TypeInv, AloneInv, alone, NEW q, SendCommit(q) PROVE CodesCount'
<1> PICK r : r = req[q]
  OBVIOUS
<1>1. CodesCount
  BY DEF AloneInv
<1>2. /\ RequestFits(r) /\ r.op = "sending" /\ DOMAIN row' = DOMAIN row \cup {r.id}
      /\ \A i \in DOMAIN row \ {r.id} : StillThere(i)
      /\ row'[r.id] \in PhoneVerificationCode /\ row'[r.id].code = r.code
      /\ DOMAIN sent' = DOMAIN sent \cup {r.code} /\ wrong' = wrong
  BY SendCommitFacts
<1>3. r.code \in Codes \ DOMAIN sent
  BY <1>2 DEF RequestFits, Sends
<1>4. \A i \in DOMAIN row : row[i].code \in DOMAIN sent
  BY DEF TypeInv, RowsOK
<1>5. wrong'[r.code] <= row'[r.id].tries
  <2> PICK t \in Nat : t = row'[r.id].tries
    BY <1>2, SettingsOK DEF PhoneVerificationCode, Settings
  <2>1. wrong'[r.code] = 0
    BY <1>1, <1>2, <1>3 DEF CodesCount
  <2> QED
    BY <2>1
<1> QED
  BY <1>1, <1>2, <1>3, <1>4, <1>5, CommitKeepsCodes

LEMMA GuessKeepsCodes == ASSUME TypeInv, AloneInv, alone, NEW q, GuessCommit(q) PROVE CodesCount'
<1> PICK r : r = req[q]
  OBVIOUS
<1>1. OneRequest /\ CodesCount
  BY DEF AloneInv
<1>2. /\ q \in DOMAIN req /\ RequestFits(r) /\ r.op = "wrong" /\ r.id \in DOMAIN row
      /\ r.code \in DOMAIN sent /\ DOMAIN row' = DOMAIN row
      /\ \A i \in DOMAIN row \ {r.id} : row'[i] = row[i]
      /\ row'[r.id].code = row[r.id].code /\ row'[r.id].tries = r.tries + 1
      /\ wrong' = [wrong EXCEPT ![r.code] = @ + 1] /\ sent' = sent
  BY GuessCommitFacts
<1>3. ~row[r.id].consumed /\ row[r.id].code = r.code /\ row[r.id].tries = r.tries
  BY <1>1, <1>2 DEF OneRequest, UpToDate, Checks
<1>4. wrong \in [Codes -> Nat] /\ r.code \in Codes /\ r.tries \in Nat
  BY <1>2, SettingsOK DEF TypeInv, HistoryOK, RequestFits, RequestRow, Settings
<1>5. wrong[r.code] <= r.tries
  BY <1>1, <1>2, <1>3 DEF CodesCount
<1>6. wrong'[r.code] = wrong[r.code] + 1 /\ \A c \in Codes \ {r.code} : wrong'[c] = wrong[c]
  BY <1>2, <1>4
<1>7. wrong'[row'[r.id].code] <= row'[r.id].tries
  BY <1>2, <1>3, <1>4, <1>5, <1>6
<1>8. \A i \in DOMAIN row \ {r.id} : row[i].code \in Codes \ {r.code}
  BY <1>1, <1>2, <1>3 DEF CodesCount, TypeInv, RowsOK, PhoneVerificationCode
<1>9. DOMAIN row' = DOMAIN row \cup {r.id} /\ \A c \in Codes \ DOMAIN sent' : wrong'[c] = wrong[c]
  BY <1>2, <1>6
<1> QED
  BY <1>1, <1>2, <1>3, <1>6, <1>7, <1>8, <1>9, CommitKeepsCodes

LEMMA AcceptKeepsCodes == ASSUME TypeInv, AloneInv, alone, NEW q, AcceptCommit(q) PROVE CodesCount'
<1> PICK r : r = req[q]
  OBVIOUS
<1>1. CodesCount
  BY DEF AloneInv
<1>2. /\ r.id \in DOMAIN row /\ DOMAIN row' = DOMAIN row
      /\ \A i \in DOMAIN row \ {r.id} : row'[i] = row[i]
      /\ row'[r.id].consumed /\ row'[r.id].code = row[r.id].code
      /\ UNCHANGED <<sent, wrong>>
  BY AcceptCommitFacts
<1>3. DOMAIN row' = DOMAIN row \cup {r.id}
  BY <1>2
<1>4. \A i \in DOMAIN row \ {r.id} : row[i].code # row'[r.id].code
  BY <1>1, <1>2 DEF CodesCount
<1> QED
  BY <1>1, <1>2, <1>3, <1>4, CommitKeepsCodes

LEMMA AloneInvStep == TypeInv /\ AloneInv /\ [Next]_vars => AloneInv'
<1> SUFFICES ASSUME TypeInv, AloneInv, [Next]_vars PROVE AloneInv'
  OBVIOUS
<1>1. ASSUME NEW q \in Requests, NEW u \in Users, NEW n \in Numbers, NEW c \in Codes, SendBegin(q, u, n, c)
      PROVE  AloneInv'
  <2> PICK r \in RequestRow : Begin(q, r) /\ r.op = "send"
    BY <1>1, SendBeginFacts
  <2>1. UpToDate(r)
    BY DEF UpToDate, Checks
  <2> QED
    BY <1>1, <2>1, BeginKeepsAlone DEF SendBegin
<1>2. ASSUME NEW q \in Requests, NEW u \in Users, NEW n \in Numbers, NEW c \in Codes, VerifyBegin(q, u, n, c)
      PROVE  AloneInv'
  <2> PICK r \in RequestRow : /\ Begin(q, r) /\ Active(r.id)
                              /\ r.code = row[r.id].code /\ r.tries = row[r.id].tries
    BY <1>2, VerifyBeginFacts
  <2>1. UpToDate(r)
    BY DEF UpToDate, Active
  <2> QED
    BY <1>2, <2>1, BeginKeepsAlone DEF VerifyBegin
<1>3. ASSUME NEW q \in Requests, NEW u \in Users, NEW n \in Numbers \cup {NoNumber}, NEW op \in EditOps,
             EditBegin(q, u, n, op)
      PROVE  AloneInv'
  <2> PICK r \in RequestRow : Begin(q, r) /\ r.op \in EditOps
    BY <1>3, EditBeginFacts
  <2>1. UpToDate(r)
    BY DEF UpToDate, Checks, EditOps
  <2> QED
    BY <1>3, <2>1, BeginKeepsAlone DEF EditBegin
<1>4. ASSUME NEW q \in Requests, SendGather(q)
      PROVE  AloneInv'
  <2> DEFINE drop == req[q].drop \cup Replaced(req[q].user, req[q].id)
             new == [req[q] EXCEPT !.op = "sending", !.drop = drop]
  <2>1. q \in DOMAIN req /\ req' = [req EXCEPT ![q] = new] /\ UNCHANGED <<row, alone, sent, wrong>>
    BY <1>4 DEF SendGather
  <2>2. req[q] \in RequestRow
    BY <2>1 DEF TypeInv, RequestsOK, RequestFits
  <2> HIDE DEF drop
  <2>3. new.op \notin Checks
    BY <2>2 DEF RequestRow, Checks
  <2> HIDE DEF new
  <2>4. DOMAIN req' = DOMAIN req /\ \A p \in DOMAIN req' : req'[p] = req[p] \/ req'[p].op \notin Checks
    BY <2>1, <2>3
  <2> QED
    BY <2>1, <2>4, AloneInvKept
<1>5. ASSUME NEW q \in Requests, SendCommit(q) PROVE AloneInv'
  BY <1>5, SendKeepsCodes, CommitKeepsAloneInv DEF SendCommit
<1>6. ASSUME NEW q \in Requests, GuessCommit(q) PROVE AloneInv'
  BY <1>6, GuessKeepsCodes, CommitKeepsAloneInv DEF GuessCommit
<1>7. ASSUME NEW q \in Requests, AcceptCommit(q) PROVE AloneInv'
  BY <1>7, AcceptKeepsCodes, CommitKeepsAloneInv DEF AcceptCommit
<1>8. ASSUME NEW q \in Requests, End(q), UNCHANGED <<row, sent, wrong>> PROVE AloneInv'
  BY <1>8, EndFacts, AloneInvKept
<1>9. ASSUME NEW q \in Requests, EditCommit(q) \/ Fail(q) PROVE AloneInv'
  BY <1>8, <1>9 DEF EditCommit, Fail
<1>10. ASSUME UNCHANGED <<row, req, alone, sent, wrong>> PROVE AloneInv'
  BY <1>10, AloneInvKept
<1>11. CASE Tick
  BY <1>10, <1>11 DEF Tick
<1>12. CASE UNCHANGED vars
  BY <1>10, <1>12 DEF vars
<1> QED
  BY <1>1, <1>2, <1>3, <1>4, <1>5, <1>6, <1>7, <1>9, <1>11, <1>12 DEF Next

-----------------------------------------------------------------------------
\* The promise of OneTimeCodes.

LiveRows == {j \in DOMAIN row : Active(j) \/ (j \in Checked /\ ~row[j].consumed)}
LiveCodes == {row[i].code : i \in LiveRows}
PromiseStep == Promise!Next \/ UNCHANGED Promise!vars

\* The steps of OneTimeCodes, in terms of the rows.
LEMMA StepLapses ==
    ASSUME LiveCodes' \subseteq LiveCodes, UNCHANGED <<sent, wrong, accepted>>
    PROVE  PromiseStep
<1>1. CASE LiveCodes' = LiveCodes
  <2>1. UNCHANGED Promise!vars
    BY <1>1 DEF Promise!vars, LiveCodes, LiveRows
  <2> QED
    BY <2>1 DEF PromiseStep
<1>2. CASE LiveCodes' # LiveCodes
  <2> PICK old : old = LiveCodes \ LiveCodes'
    OBVIOUS
  <2>1. old \in SUBSET LiveCodes /\ old # {} /\ LiveCodes' = LiveCodes \ old
    BY <1>2
  <2>2. Promise!Lapse(old)
    BY <2>1 DEF Promise!Lapse, LiveCodes, LiveRows
  <2>3. Promise!Next
    BY <2>1, <2>2 DEF Promise!Next, LiveCodes, LiveRows
  <2> QED
    BY <2>3 DEF PromiseStep
<1> QED
  BY <1>1, <1>2

LEMMA StepSends ==
    ASSUME NEW c \in Codes \ DOMAIN sent, DOMAIN sent' = DOMAIN sent \cup {c},
           LiveCodes' \subseteq LiveCodes \cup {c}, UNCHANGED <<wrong, accepted>>
    PROVE  PromiseStep
<1> PICK old : old = (LiveCodes \cup {c}) \ LiveCodes'
  OBVIOUS
<1>1. old \in SUBSET (LiveCodes \cup {c}) /\ LiveCodes' = (LiveCodes \cup {c}) \ old
  OBVIOUS
<1>2. Codes \ DOMAIN sent' = (Codes \ DOMAIN sent) \ {c}
  OBVIOUS
<1>3. Promise!Send(c, old)
  BY <1>1, <1>2 DEF Promise!Send, LiveCodes, LiveRows
<1>4. Promise!Next
  BY <1>1, <1>3 DEF Promise!Next, LiveCodes, LiveRows
<1> QED
  BY <1>4 DEF PromiseStep

LEMMA StepGuesses ==
    ASSUME NEW c \in Codes, c \in LiveCodes, wrong' = [wrong EXCEPT ![c] = @ + 1],
           \/ LiveCodes' = LiveCodes /\ wrong'[c] < MaxTries
           \/ LiveCodes' = LiveCodes \ {c},
           UNCHANGED <<sent, accepted>>
    PROVE  PromiseStep
<1>1. Promise!GuessWrong(c)
  BY DEF Promise!GuessWrong, LiveCodes, LiveRows
<1> QED
  BY <1>1 DEF Promise!Next, PromiseStep

LEMMA StepAccepts ==
    ASSUME NEW c \in Codes, c \in LiveCodes, LiveCodes' = LiveCodes \ {c},
           accepted' = accepted \cup {c}, UNCHANGED <<sent, wrong>>
    PROVE  PromiseStep
<1>1. Promise!Accept(c)
  BY DEF Promise!Accept, LiveCodes, LiveRows
<1> QED
  BY <1>1 DEF Promise!Next, PromiseStep

\* Which rows are live after a step.

LEMMA EndChecked ==
    ASSUME NEW q, End(q)
    PROVE  Checked' \subseteq Checked
BY EndFacts DEF Checked

LEMMA LiveBefore ==
    ASSUME NEW i \in DOMAIN row, StillThere(i) \/ row'[i] = row[i], i \in LiveRows', now' = now, Checked' \subseteq Checked
    PROVE  row'[i].code \in LiveCodes
BY DEF LiveRows, LiveCodes, Active, StillThere

\* A request that begins leaves the live codes as they were.
LEMMA BeginLapses ==
    ASSUME NEW q, NEW r, Begin(q, r), UNCHANGED <<now, row, sent, wrong, accepted>>,
           \/ r.op \notin Checks
           \/ r.id \in DOMAIN row /\ Active(r.id)
    PROVE  PromiseStep
<1>1. /\ DOMAIN req' = DOMAIN req \cup {q} /\ req'[q] = r
      /\ \A p \in DOMAIN req : p # q /\ req'[p] = req[p]
  BY BeginFacts
<1>2. /\ Checked' \subseteq Checked \cup {r.id}
      /\ r.op \notin Checks => Checked' \subseteq Checked
  BY <1>1 DEF Checked, Checks
<1>3. LiveRows' \subseteq LiveRows
  BY <1>2 DEF LiveRows, Active
<1>4. LiveCodes' \subseteq LiveCodes
  BY <1>3 DEF LiveCodes
<1> QED
  BY <1>4, StepLapses

\* A request that has compared a code ends: at most this code stops to be live.
LEMMA OneRowChecked ==
    ASSUME TypeInv, OneRequest, CodesCount, NEW q \in DOMAIN req, End(q), NEW r, r = req[q],
           r.op \in Checks, r.id \in DOMAIN row, DOMAIN row' = DOMAIN row, now' = now,
           \A i \in DOMAIN row \ {r.id} : row'[i] = row[i],
           row'[r.id].code = row[r.id].code,
           ~row'[r.id].consumed => row'[r.id].expires = row[r.id].expires
    PROVE  /\ r.code \in LiveCodes
           /\ LiveCodes' = IF r.id \in LiveRows' THEN LiveCodes ELSE LiveCodes \ {r.code}
<1>1. DOMAIN req = {q} /\ DOMAIN req' = {}
  BY EndLeavesNone DEF OneRequest
<1>2. Checked = {r.id} /\ Checked' = {}
  BY <1>1 DEF Checked, Checks
<1>3. ~row[r.id].consumed /\ row[r.id].code = r.code
  BY DEF OneRequest, UpToDate, Checks
<1>4. r.id \in LiveRows
  BY <1>2, <1>3 DEF LiveRows
<1>5. \A i \in DOMAIN row \ {r.id} : i \in LiveRows' <=> i \in LiveRows
  BY <1>2 DEF LiveRows, Active
<1>6. LiveRows' \subseteq DOMAIN row /\ LiveRows \subseteq DOMAIN row
  BY DEF LiveRows
<1>7. LiveRows' = IF r.id \in LiveRows' THEN LiveRows ELSE LiveRows \ {r.id}
  BY <1>4, <1>5, <1>6
<1>8. \A i \in DOMAIN row : row'[i].code = row[i].code
  OBVIOUS
<1>9. \A i \in DOMAIN row \ {r.id} : row[i].code # r.code
  BY <1>3 DEF CodesCount
<1>10. r.code \in LiveCodes
  BY <1>3, <1>4 DEF LiveCodes
<1>11. LiveCodes' = {row[i].code : i \in LiveRows'}
  BY <1>6, <1>8 DEF LiveCodes
<1>12. LiveCodes \ {r.code} = {row[i].code : i \in LiveRows \ {r.id}}
  BY <1>3, <1>6, <1>9 DEF LiveCodes
<1>13. CASE r.id \in LiveRows'
  BY <1>7, <1>10, <1>11, <1>13 DEF LiveCodes
<1>14. CASE r.id \notin LiveRows'
  BY <1>7, <1>10, <1>11, <1>12, <1>14
<1> QED
  BY <1>13, <1>14

\* A step that changes no row, and ends comparisons at most.
LEMMA FewerChecked ==
    ASSUME Checked' \subseteq Checked, UNCHANGED <<now, row, sent, wrong, accepted>>
    PROVE  PromiseStep
<1>1. LiveRows' \subseteq LiveRows
  BY DEF LiveRows, Active
<1>2. LiveCodes' \subseteq LiveCodes
  BY <1>1 DEF LiveCodes
<1> QED
  BY <1>2, StepLapses

\* A request for a code begins.
LEMMA SendBeginLapses ==
    ASSUME TypeInv, NEW q, NEW u \in Users, NEW n \in Numbers, NEW c \in Codes, SendBegin(q, u, n, c)
    PROVE  PromiseStep
<1> PICK r \in RequestRow : Begin(q, r) /\ r.op = "send"
  BY SendBeginFacts
<1>1. UNCHANGED <<now, row, sent, wrong, accepted>>
  BY DEF SendBegin
<1>2. r.op \notin Checks
  BY DEF Checks
<1> QED
  BY <1>1, <1>2, BeginLapses

LEMMA PromiseInit == Init => Promise!Init
<1> SUFFICES ASSUME Init PROVE Promise!Init
  OBVIOUS
<1>1. DOMAIN row = {} /\ DOMAIN sent = {}
  BY DEF Init
<1> QED
  BY <1>1 DEF Init, Promise!Init

LEMMA PromiseKept == TypeInv /\ AloneInv /\ [Next]_vars => (alone' => PromiseStep)
<1> SUFFICES ASSUME TypeInv, AloneInv, [Next]_vars, alone' PROVE PromiseStep
  OBVIOUS
<1>1. ASSUME NEW q \in Requests, NEW u \in Users, NEW n \in Numbers, NEW c \in Codes, SendBegin(q, u, n, c)
      PROVE  PromiseStep
  BY <1>1, SendBeginLapses
<1>2. ASSUME NEW q \in Requests, NEW u \in Users, NEW n \in Numbers, NEW c \in Codes, VerifyBegin(q, u, n, c)
      PROVE  PromiseStep
  <2> PICK r \in RequestRow : Begin(q, r) /\ r.id \in DOMAIN row /\ Active(r.id)
    BY <1>2, VerifyBeginFacts
  <2> QED
    BY <1>2, BeginLapses DEF VerifyBegin
<1>3. ASSUME NEW q \in Requests, NEW u \in Users, NEW n \in Numbers \cup {NoNumber}, NEW op \in EditOps,
             EditBegin(q, u, n, op)
      PROVE  PromiseStep
  <2> PICK r \in RequestRow : Begin(q, r) /\ r.op \in EditOps
    BY <1>3, EditBeginFacts
  <2>1. r.op \notin Checks
    BY DEF EditOps, Checks
  <2> QED
    BY <1>3, <2>1, BeginLapses DEF EditBegin
<1>4. ASSUME NEW q \in Requests, SendGather(q)
      PROVE  PromiseStep
  <2> DEFINE drop == req[q].drop \cup Replaced(req[q].user, req[q].id)
             new == [req[q] EXCEPT !.op = "sending", !.drop = drop]
  <2>1. /\ q \in DOMAIN req /\ req' = [req EXCEPT ![q] = new]
        /\ UNCHANGED <<now, row, sent, wrong, accepted>>
    BY <1>4 DEF SendGather
  <2>2. req[q] \in RequestRow
    BY <2>1 DEF TypeInv, RequestsOK, RequestFits
  <2> HIDE DEF drop
  <2>3. new.op = "sending"
    BY <2>2 DEF RequestRow
  <2> HIDE DEF new
  <2>4. DOMAIN req' = DOMAIN req /\ \A p \in DOMAIN req' : req'[p] = req[p] \/ req'[p].op = "sending"
    BY <2>1, <2>3
  <2>5. Checked' \subseteq Checked
    BY <2>4 DEF Checked
  <2> QED
    BY <2>1, <2>5, FewerChecked
<1>5. ASSUME NEW q \in Requests, SendCommit(q)
      PROVE  PromiseStep
  <2> PICK r : r = req[q]
    OBVIOUS
  <2>1. /\ q \in DOMAIN req /\ RequestFits(r) /\ r.op = "sending"
        /\ DOMAIN row' = DOMAIN row \cup {r.id}
        /\ \A i \in DOMAIN row \ {r.id} : StillThere(i)
        /\ row'[r.id].code = r.code
        /\ DOMAIN sent' = DOMAIN sent \cup {r.code}
        /\ End(q) /\ UNCHANGED <<now, wrong, accepted>>
    BY <1>5, SendCommitFacts
  <2>2. r.code \in Codes \ DOMAIN sent
    BY <2>1 DEF RequestFits, Sends
  <2>3. \A i \in LiveRows' : row'[i].code \in LiveCodes \cup {r.code}
    <3>1. LiveRows' \subseteq DOMAIN row \cup {r.id}
      BY <2>1 DEF LiveRows
    <3> QED
      BY <2>1, <3>1, EndChecked, LiveBefore
  <2>4. LiveCodes' \subseteq LiveCodes \cup {r.code}
    BY <2>3 DEF LiveCodes
  <2> QED
    BY <2>1, <2>2, <2>4, StepSends
<1>6. ASSUME NEW q \in Requests, GuessCommit(q)
      PROVE  PromiseStep
  <2> PICK r : r = req[q]
    OBVIOUS
  <2>1. /\ q \in DOMAIN req /\ RequestFits(r) /\ r.op = "wrong" /\ r.id \in DOMAIN row
        /\ r.code \in DOMAIN sent /\ DOMAIN row' = DOMAIN row
        /\ \A i \in DOMAIN row \ {r.id} : row'[i] = row[i]
        /\ row'[r.id].code = row[r.id].code /\ row'[r.id].expires = row[r.id].expires
        /\ ~row'[r.id].consumed => r.tries + 1 < MaxTries
        /\ wrong' = [wrong EXCEPT ![r.code] = @ + 1]
        /\ End(q) /\ UNCHANGED <<now, sent, accepted>>
    BY <1>6, GuessCommitFacts
  <2>2. alone /\ OneRequest /\ CodesCount
    BY <2>1 DEF End, AloneInv
  <2>3. /\ r.code \in LiveCodes
        /\ LiveCodes' = IF r.id \in LiveRows' THEN LiveCodes ELSE LiveCodes \ {r.code}
    BY <2>1, <2>2, OneRowChecked DEF Checks
  <2>4. ASSUME r.id \in LiveRows' PROVE wrong'[r.code] < MaxTries
    <3>1. ~row'[r.id].consumed
      BY <2>4 DEF LiveRows, Active
    <3>2. ~row[r.id].consumed /\ row[r.id].code = r.code /\ row[r.id].tries = r.tries
      BY <2>1, <2>2 DEF OneRequest, UpToDate, Checks
    <3>3. wrong[r.code] <= r.tries
      BY <2>1, <2>2, <3>2 DEF CodesCount
    <3>4. wrong \in [Codes -> Nat] /\ r.code \in Codes /\ r.tries \in Nat
      BY <2>1, SettingsOK DEF TypeInv, HistoryOK, RequestFits, RequestRow, Settings
    <3>5. wrong'[r.code] = wrong[r.code] + 1 /\ wrong[r.code] \in Nat
      BY <2>1, <3>4
    <3> QED
      BY <2>1, <3>1, <3>3, <3>4, <3>5, SettingsOK DEF Settings
  <2>5. r.code \in Codes
    BY <2>1 DEF RequestFits, Checks, TypeInv, HistoryOK
  <2> QED
    BY <2>1, <2>3, <2>4, <2>5, StepGuesses
<1>7. ASSUME NEW q \in Requests, AcceptCommit(q)
      PROVE  PromiseStep
  <2> PICK r : r = req[q]
    OBVIOUS
  <2>1. /\ q \in DOMAIN req /\ RequestFits(r) /\ r.op = "right" /\ r.id \in DOMAIN row
        /\ DOMAIN row' = DOMAIN row
        /\ \A i \in DOMAIN row \ {r.id} : row'[i] = row[i]
        /\ row'[r.id].consumed /\ row'[r.id].code = row[r.id].code
        /\ accepted' = accepted \cup {r.code}
        /\ End(q) /\ UNCHANGED <<now, sent, wrong>>
    BY <1>7, AcceptCommitFacts
  <2>2. alone /\ OneRequest /\ CodesCount
    BY <2>1 DEF End, AloneInv
  <2>3. /\ r.code \in LiveCodes
        /\ LiveCodes' = IF r.id \in LiveRows' THEN LiveCodes ELSE LiveCodes \ {r.code}
    BY <2>1, <2>2, OneRowChecked DEF Checks
  <2>4. r.id \notin LiveRows'
    BY <2>1 DEF LiveRows, Active
  <2>5. r.code \in Codes
    BY <2>1 DEF RequestFits, Checks, TypeInv, HistoryOK
  <2> QED
    BY <2>1, <2>3, <2>4, <2>5, StepAccepts
<1>8. ASSUME NEW q \in Requests, End(q), UNCHANGED <<now, row, sent, wrong, accepted>>
      PROVE  PromiseStep
  BY <1>8, EndChecked, FewerChecked
<1>9. ASSUME NEW q \in Requests, EditCommit(q) \/ Fail(q)
      PROVE  PromiseStep
  BY <1>8, <1>9 DEF EditCommit, Fail
<1>10. CASE Tick
  <2>1. now' = now + 1 /\ UNCHANGED <<row, req, sent, wrong, accepted>>
    BY <1>10 DEF Tick
  <2>2. now \in Int /\ \A i \in DOMAIN row : row[i].expires \in Int
    BY SettingsOK DEF TypeInv, HistoryOK, RowsOK, PhoneVerificationCode, Settings
  <2>3. LiveRows' \subseteq LiveRows
    BY <2>1, <2>2 DEF LiveRows, Active, Checked
  <2>4. LiveCodes' \subseteq LiveCodes
    BY <2>1, <2>3 DEF LiveCodes
  <2> QED
    BY <2>1, <2>4, StepLapses
<1>11. CASE UNCHANGED vars
  <2>1. Checked' \subseteq Checked
    BY <1>11 DEF vars, Checked
  <2> QED
    BY <1>11, <2>1, FewerChecked DEF vars
<1> QED
  BY <1>1, <1>2, <1>3, <1>4, <1>5, <1>6, <1>7, <1>9, <1>10, <1>11 DEF Next

\* Phone verification keeps the promise of OneTimeCodes as long as requests come one at a
\* time: initial states map to initial states, and every step to a step or to none.
THEOREM VerificationKeepsPromise == Spec => KeepsPromise
<1>1. Spec => [](TypeInv /\ AloneInv)
  BY TypeInvInit, TypeInvStep, AloneInvInit, AloneInvStep, PTL DEF Spec
<1>2. TypeInv /\ AloneInv /\ [Next]_vars => [alone' => Promise!Next \/ UNCHANGED Promise!vars]_vars
  BY PromiseKept DEF PromiseStep
<1> QED
  BY <1>1, <1>2, PromiseInit, PTL DEF Spec, KeepsPromise

-----------------------------------------------------------------------------
(***************************************************************************)
(* Registration.                                                           *)
(***************************************************************************)

AccountRow == [number : Numbers \cup {NoNumber}, verified : BOOLEAN, by : {NoId} \cup DOMAIN pending]

RegistrationRow == [name : Usernames, number : Numbers, code : Codes, expires : TTL..MaxTime + TTL,
                    sent : 0..MaxTime, sends : 1..MaxSends, tries : 0..MaxTries, consumed : BOOLEAN]

WorkRow == [op : {"request", "resend", "right", "wrong"}, id : RegistrationIds, name : Usernames,
               number : Numbers, code : Codes, at : 0..now, drop : SUBSET RegistrationIds,
               sends : 0..MaxSends, tries : 0..MaxTries]

AccountsOK ==
    /\ DOMAIN account \subseteq Usernames
    /\ \A a \in DOMAIN account : account[a] \in AccountRow
    /\ \A a, b \in DOMAIN account :
          a # b => account[a].number # account[b].number \/ account[a].number = NoNumber

PendingOK ==
    /\ DOMAIN pending \subseteq RegistrationIds
    /\ \A i \in DOMAIN pending : pending[i] \in RegistrationRow
    /\ \A i \in DOMAIN pending : pending[i].code \in DOMAIN texted

WorkOK ==
    /\ DOMAIN work \subseteq Requests
    /\ \A q \in DOMAIN work : work[q] \in WorkRow
    /\ \A q \in DOMAIN work :
          /\ work[q].op = "request" => work[q].id \notin DOMAIN pending
          /\ work[q].op # "request" => work[q].id \in DOMAIN pending
          /\ work[q].op = "resend" => work[q].sends < MaxSends
          /\ work[q].op = "wrong" => work[q].tries < MaxTries
          /\ work[q].op \in {"right", "wrong"} => work[q].code \in DOMAIN texted
    /\ \A p, q \in DOMAIN work :
          p # q /\ work[p].op = "request" => work[p].id # work[q].id

TextedOK ==
    /\ now \in 0..MaxTime
    /\ single \in BOOLEAN
    /\ DOMAIN texted \subseteq Codes
    /\ \A c \in DOMAIN texted : texted[c] \in Usernames \X Numbers
    /\ guessed \in [Codes -> Nat]
    /\ used \subseteq DOMAIN texted

RegistrationInv == AccountsOK /\ PendingOK /\ WorkOK /\ TextedOK

LEMMA RegistrationInvTypeOK == RegistrationInv => R!TypeOK
BY DEF RegistrationInv, AccountsOK, PendingOK, WorkOK, TextedOK, R!TypeOK, AccountRow,
   RegistrationRow, WorkRow

LEMMA RegistrationInvInit == R!Init => RegistrationInv
<1> SUFFICES ASSUME R!Init PROVE RegistrationInv
  OBVIOUS
<1>1. DOMAIN account = {} /\ DOMAIN pending = {} /\ DOMAIN work = {} /\ DOMAIN texted = {}
  BY DEF R!Init
<1>2. now \in 0..MaxTime /\ single \in BOOLEAN /\ guessed \in [Codes -> Nat] /\ used = {}
  BY SettingsOK DEF Settings, R!Init
<1> QED
  BY <1>1, <1>2 DEF RegistrationInv, AccountsOK, PendingOK, WorkOK, TextedOK

-----------------------------------------------------------------------------
\* What the parts of the actions do.

LEMMA RegistrationBegins ==
    ASSUME NEW q, NEW r, R!Begin(q, r)
    PROVE  /\ q \in Requests /\ q \notin DOMAIN work /\ DOMAIN work' = DOMAIN work \cup {q}
           /\ work'[q] = r
           /\ \A p \in DOMAIN work : p # q /\ work'[p] = work[p]
BY DEF R!Begin

LEMMA RegistrationEnds ==
    ASSUME NEW q, R!End(q)
    PROVE  /\ DOMAIN work' = DOMAIN work \ {q}
           /\ \A p \in DOMAIN work' : work'[p] = work[p]
           /\ single' = single
BY DEF R!End

\* A request that begins on consistent tables.
LEMMA RegistrationBeginKeepsTypes ==
    ASSUME RegistrationInv, NEW q, NEW r, R!Begin(q, r), r \in WorkRow,
           UNCHANGED <<now, account, pending, texted, guessed, used>>,
           \/ /\ r.op = "request" /\ r.id \notin DOMAIN pending
              /\ \A p \in DOMAIN work : work[p].id # r.id
           \/ /\ r.op # "request" /\ r.id \in DOMAIN pending
              /\ r.op = "resend" => r.sends < MaxSends
              /\ r.op = "wrong" => r.tries < MaxTries
              /\ r.op \in {"right", "wrong"} => r.code \in DOMAIN texted
    PROVE  RegistrationInv'
<1>1. /\ q \in Requests /\ DOMAIN work' = DOMAIN work \cup {q}
      /\ work'[q] = r
      /\ \A p \in DOMAIN work : p # q /\ work'[p] = work[p]
  BY RegistrationBegins
<1>2. WorkRow' = WorkRow
  BY DEF WorkRow
<1>3. /\ DOMAIN work' \subseteq Requests
      /\ \A p \in DOMAIN work' : work'[p] \in WorkRow'
  BY <1>1, <1>2 DEF RegistrationInv, WorkOK
<1>4. \A p \in DOMAIN work : work[p].op = "request" => work[p].id # r.id
  BY DEF RegistrationInv, WorkOK
<1>5. WorkOK'
  BY <1>1, <1>3, <1>4 DEF RegistrationInv, WorkOK
<1>6. single' \in BOOLEAN
  BY DEF R!Begin
<1>7. AccountsOK' /\ PendingOK' /\ TextedOK'
  BY <1>6 DEF RegistrationInv, AccountsOK, AccountRow, PendingOK, RegistrationRow, TextedOK
<1> QED
  BY <1>5, <1>7 DEF RegistrationInv

\* A request ends; it may have inserted the row it was to insert.
LEMMA RegistrationEndKeepsRequests ==
    ASSUME RegistrationInv, NEW q, R!End(q), now' = now,
           DOMAIN pending \subseteq DOMAIN pending', DOMAIN texted \subseteq DOMAIN texted',
           \A i \in DOMAIN pending' \ DOMAIN pending :
              q \in DOMAIN work /\ work[q].op = "request" /\ i = work[q].id
    PROVE  WorkOK'
<1>1. /\ DOMAIN work' = DOMAIN work \ {q}
      /\ \A p \in DOMAIN work' : work'[p] = work[p]
  BY RegistrationEnds
<1>2. WorkRow' = WorkRow
  BY DEF WorkRow
<1> QED
  BY <1>1, <1>2 DEF RegistrationInv, WorkOK

LEMMA CreateAccountKeepsTypes ==
    ASSUME AccountsOK, NEW name \in Usernames, NEW n \in Numbers \cup {NoNumber},
           NEW isVerified \in BOOLEAN,
           NEW id \in {NoId} \cup DOMAIN pending', DOMAIN pending \subseteq DOMAIN pending',
           R!CreateAccount(name, n, isVerified, id)
    PROVE  AccountsOK'
<1>1. /\ DOMAIN account' = DOMAIN account \cup {name} /\ name \notin DOMAIN account
      /\ account'[name] = [number |-> n, verified |-> isVerified, by |-> id]
      /\ \A a \in DOMAIN account : account'[a] = account[a]
      /\ n # NoNumber => \A a \in DOMAIN account : account[a].number # n
  BY DEF R!CreateAccount, R!IsNew
<1>2. AccountRow \subseteq AccountRow'
  BY DEF AccountRow
<1>3. account'[name] \in AccountRow'
  BY <1>1 DEF AccountRow
<1> QED
  BY <1>1, <1>2, <1>3 DEF AccountsOK

LEMMA DeliverFacts ==
    ASSUME NEW r, R!Deliver(r)
    PROVE  /\ DOMAIN texted' = DOMAIN texted \cup {r.code}
           /\ texted'[r.code] = <<r.name, r.number>>
           /\ \A c \in DOMAIN texted : c # r.code => texted'[c] = texted[c]
BY DEF R!Deliver

LEMMA RegistrationReadingFacts ==
    ASSUME RegistrationInv, NEW op \in {"request", "resend", "right", "wrong"}, NEW id \in RegistrationIds,
           NEW name \in Usernames, NEW n \in Numbers, NEW c \in Codes
    PROVE  /\ R!Reading(op, id, name, n, c) \in WorkRow
           /\ R!Reading(op, id, name, n, c).op = op
           /\ R!Reading(op, id, name, n, c).id = id
           /\ R!Reading(op, id, name, n, c).code = c
           /\ id \in DOMAIN pending => /\ R!Reading(op, id, name, n, c).sends = pending[id].sends
                                       /\ R!Reading(op, id, name, n, c).tries = pending[id].tries
<1>1. id \in DOMAIN pending => pending[id].sends \in 0..MaxSends /\ pending[id].tries \in 0..MaxTries
  BY SettingsOK DEF RegistrationInv, PendingOK, RegistrationRow, Settings
<1>2. 0 \in 0..now /\ 0 \in 0..MaxSends /\ 0 \in 0..MaxTries
  BY SettingsOK DEF RegistrationInv, TextedOK, Settings
<1> QED
  BY <1>1, <1>2 DEF R!Reading, WorkRow

-----------------------------------------------------------------------------
\* Type correctness.

\* The rows a commit may leave behind.
LEMMA RegistrationRowsChange ==
    ASSUME RegistrationInv, NEW id \in RegistrationIds,
           DOMAIN pending' = DOMAIN pending \cup {id}, DOMAIN texted \subseteq DOMAIN texted',
           pending'[id] \in RegistrationRow, pending'[id].code \in DOMAIN texted',
           NEW drop,
           \A i \in DOMAIN pending \ {id} : pending'[i] = pending[i] \/ pending'[i] = R!Closed(i, drop)
    PROVE  PendingOK'
<1>1. RegistrationRow' = RegistrationRow
  BY DEF RegistrationRow
<1>2. \A i \in DOMAIN pending : pending[i] \in RegistrationRow /\ pending[i].code \in DOMAIN texted
  BY DEF RegistrationInv, PendingOK
<1>3. \A i \in DOMAIN pending \ {id} : pending'[i] \in RegistrationRow /\ pending'[i].code \in DOMAIN texted
  <2> SUFFICES ASSUME NEW i \in DOMAIN pending \ {id}
               PROVE  pending'[i] \in RegistrationRow /\ pending'[i].code \in DOMAIN texted
    OBVIOUS
  <2> DEFINE r == pending[i]
             closed == [r EXCEPT !.consumed = r.consumed \/ i \in drop]
  <2>1. r \in RegistrationRow /\ r.code \in DOMAIN texted
    BY <1>2
  <2>2. pending'[i] = r \/ pending'[i] = closed
    BY DEF R!Closed
  <2> HIDE DEF r
  <2>3. closed \in RegistrationRow /\ closed.code = r.code
    BY <2>1 DEF RegistrationRow
  <2> QED
    BY <2>1, <2>2, <2>3
<1> QED
  BY <1>1, <1>3 DEF RegistrationInv, PendingOK

LEMMA AccountsStay ==
    ASSUME RegistrationInv, account' = account, DOMAIN pending \subseteq DOMAIN pending'
    PROVE  AccountsOK'
BY DEF RegistrationInv, AccountsOK, AccountRow

LEMMA DeliverKeepsHistory ==
    ASSUME RegistrationInv, NEW r \in WorkRow, NEW q, R!End(q), R!Deliver(r),
           UNCHANGED <<now, guessed, used>>
    PROVE  TextedOK'
<1>1. r.code \in Codes /\ <<r.name, r.number>> \in Usernames \X Numbers
  BY DEF WorkRow
<1>2. /\ DOMAIN texted' = DOMAIN texted \cup {r.code}
      /\ texted'[r.code] = <<r.name, r.number>>
      /\ \A c \in DOMAIN texted : c # r.code => texted'[c] = texted[c]
  BY DeliverFacts
<1>3. \A c \in DOMAIN texted' : texted'[c] \in Usernames \X Numbers
  BY <1>1, <1>2 DEF RegistrationInv, TextedOK
<1>4. single' = single
  BY DEF R!End
<1> QED
  BY <1>1, <1>2, <1>3, <1>4 DEF RegistrationInv, TextedOK

LEMMA RegistrationInvStep == RegistrationInv /\ [R!Next]_R!vars => RegistrationInv'
<1> SUFFICES ASSUME RegistrationInv, [R!Next]_R!vars PROVE RegistrationInv'
  OBVIOUS
<1>s. /\ TTL \in Nat \ {0} /\ Cooldown \in Nat \ {0} /\ MaxSends \in Nat \ {0}
      /\ MaxTries \in Nat \ {0} /\ MaxTime \in Nat /\ now \in 0..MaxTime
  BY SettingsOK DEF Settings, RegistrationInv, TextedOK
<1>q. \A q \in DOMAIN work : work[q] \in WorkRow
  BY DEF RegistrationInv, WorkOK
<1>r. \A i \in DOMAIN pending : pending[i] \in RegistrationRow /\ pending[i].code \in DOMAIN texted
  BY DEF RegistrationInv, PendingOK
<1>1. ASSUME NEW q \in Requests, NEW id \in RegistrationIds, NEW name \in Usernames,
             NEW n \in Numbers, NEW c \in Codes,
             R!RequestBegin(q, id, name, n, c)
      PROVE  RegistrationInv'
  <2> DEFINE base == R!Reading("request", id, name, n, c)
             r == [base EXCEPT !.at = now, !.drop = R!Rivals(name, n)]
  <2>1. /\ R!Begin(q, r)
        /\ id \notin DOMAIN pending /\ \A p \in DOMAIN work : work[p].id # id
        /\ UNCHANGED <<now, account, pending, texted, guessed, used>>
    BY <1>1 DEF R!RequestBegin
  <2>2. base \in WorkRow /\ base.op = "request" /\ base.id = id
    BY RegistrationReadingFacts
  <2>3. R!Rivals(name, n) \in SUBSET RegistrationIds /\ now \in 0..now
    BY <1>s DEF R!Rivals, RegistrationInv, PendingOK
  <2> HIDE DEF base
  <2>4. r \in WorkRow /\ r.op = "request" /\ r.id = id
    BY <2>2, <2>3 DEF WorkRow
  <2> HIDE DEF r
  <2> QED
    BY <2>1, <2>4, RegistrationBeginKeepsTypes
<1>2. ASSUME NEW q \in Requests, NEW id \in RegistrationIds, NEW c \in Codes, R!ResendBegin(q, id, c)
      PROVE  RegistrationInv'
  <2> DEFINE base == R!Reading("resend", id, pending[id].name, pending[id].number, c)
             r == [base EXCEPT !.at = now]
  <2>1. /\ R!Begin(q, r)
        /\ id \in DOMAIN pending /\ pending[id].sends < MaxSends
        /\ UNCHANGED <<now, account, pending, texted, guessed, used>>
    BY <1>2 DEF R!ResendBegin, R!MayResend
  <2>2. pending[id].name \in Usernames /\ pending[id].number \in Numbers
    BY <1>r, <2>1 DEF RegistrationRow
  <2>3. base \in WorkRow /\ base.op = "resend" /\ base.id = id /\ base.sends = pending[id].sends
    BY <2>1, <2>2, RegistrationReadingFacts
  <2> HIDE DEF base
  <2>4. r \in WorkRow /\ r.op = "resend" /\ r.id = id /\ r.sends = pending[id].sends
    BY <1>s, <2>3 DEF WorkRow
  <2> HIDE DEF r
  <2> QED
    BY <2>1, <2>4, RegistrationBeginKeepsTypes
<1>3. ASSUME NEW q \in Requests, NEW id \in RegistrationIds, NEW c \in Codes, R!VerifyBegin(q, id, c)
      PROVE  RegistrationInv'
  <2> DEFINE op == IF c = pending[id].code THEN "right" ELSE "wrong"
             r == R!Reading(op, id, pending[id].name, pending[id].number, pending[id].code)
  <2>1. /\ R!Begin(q, r)
        /\ id \in DOMAIN pending /\ pending[id].tries < MaxTries
        /\ UNCHANGED <<now, account, pending, texted, guessed, used>>
    BY <1>3 DEF R!VerifyBegin
  <2>2. /\ pending[id].name \in Usernames /\ pending[id].number \in Numbers
        /\ pending[id].code \in Codes /\ pending[id].code \in DOMAIN texted
    BY <1>r, <2>1 DEF RegistrationRow
  <2>3. op \in {"right", "wrong"}
    OBVIOUS
  <2> HIDE DEF op
  <2>4. r \in WorkRow /\ r.op = op /\ r.id = id /\ r.tries = pending[id].tries /\ r.code = pending[id].code
    BY <2>1, <2>2, <2>3, RegistrationReadingFacts
  <2> HIDE DEF r
  <2> QED
    BY <2>1, <2>2, <2>3, <2>4, RegistrationBeginKeepsTypes
<1>4. ASSUME NEW q \in Requests, R!RequestCommit(q)
      PROVE  RegistrationInv'
  <2> DEFINE r == work[q]
             new == [name |-> r.name, number |-> r.number, code |-> r.code, expires |-> r.at + TTL,
                     sent |-> r.at, sends |-> 1, tries |-> 0, consumed |-> FALSE]
  <2>1. /\ q \in DOMAIN work /\ r.op = "request" /\ r \in WorkRow /\ r.id \notin DOMAIN pending
        /\ R!End(q) /\ R!Deliver(r)
        /\ UNCHANGED <<now, account, guessed, used>>
    BY <1>4, <1>q DEF R!RequestCommit, RegistrationInv, WorkOK
  <2>2. /\ DOMAIN pending' = DOMAIN pending \cup {r.id} /\ pending'[r.id] = new
        /\ \A i \in DOMAIN pending \ {r.id} : pending'[i] = R!Closed(i, r.drop)
    <3>1. pending' = [i \in DOMAIN pending \cup {r.id} |-> IF i = r.id THEN new ELSE R!Closed(i, r.drop)]
      BY <1>4 DEF R!RequestCommit
    <3> HIDE DEF new, r
    <3> QED
      BY <3>1
  <2>3. new \in RegistrationRow /\ new.code = r.code /\ r.id \in RegistrationIds
    BY <1>s, <2>1 DEF WorkRow, RegistrationRow
  <2> HIDE DEF new
  <2>4. DOMAIN texted' = DOMAIN texted \cup {r.code}
    BY <2>1, DeliverFacts
  <2>5. PendingOK'
    BY <2>2, <2>3, <2>4, RegistrationRowsChange
  <2>6. WorkOK'
    BY <2>1, <2>2, <2>4, RegistrationEndKeepsRequests
  <2>7. AccountsOK'
    BY <2>1, <2>2, AccountsStay
  <2>8. TextedOK'
    BY <2>1, DeliverKeepsHistory
  <2> QED
    BY <2>5, <2>6, <2>7, <2>8 DEF RegistrationInv
<1>5. ASSUME NEW q \in Requests, R!ResendCommit(q)
      PROVE  RegistrationInv'
  <2> DEFINE r == work[q]
             new == R!Resent(pending[r.id], r)
  <2>1. /\ q \in DOMAIN work /\ r.op = "resend" /\ r \in WorkRow
        /\ r.id \in DOMAIN pending /\ r.sends < MaxSends
        /\ pending' = [pending EXCEPT ![r.id] = new]
        /\ R!End(q) /\ R!Deliver(r)
        /\ UNCHANGED <<now, account, guessed, used>>
    BY <1>5, <1>q DEF R!ResendCommit, RegistrationInv, WorkOK
  <2>2. new \in RegistrationRow /\ new.code = r.code /\ r.id \in RegistrationIds
    <3>1. /\ pending[r.id] \in RegistrationRow /\ r.id \in RegistrationIds /\ r.code \in Codes
          /\ r.at \in 0..MaxTime /\ r.sends \in 0..MaxSends
      BY <1>s, <1>r, <2>1 DEF WorkRow
    <3>2. r.at + TTL \in TTL..MaxTime + TTL /\ r.sends + 1 \in 1..MaxSends /\ 0 \in 0..MaxTries
      BY <1>s, <2>1, <3>1
    <3> HIDE DEF r
    <3> QED
      BY <3>1, <3>2 DEF RegistrationRow, R!Resent
  <2> HIDE DEF new
  <2>3. /\ DOMAIN pending' = DOMAIN pending \cup {r.id}
        /\ DOMAIN pending' = DOMAIN pending /\ pending'[r.id] = new
        /\ \A i \in DOMAIN pending \ {r.id} : pending'[i] = pending[i]
    BY <2>1
  <2>4. DOMAIN texted' = DOMAIN texted \cup {r.code}
    BY <2>1, DeliverFacts
  <2>5. PendingOK'
    BY <2>2, <2>3, <2>4, RegistrationRowsChange
  <2>6. WorkOK'
    BY <2>1, <2>3, <2>4, RegistrationEndKeepsRequests
  <2>7. AccountsOK'
    BY <2>1, <2>3, AccountsStay
  <2>8. TextedOK'
    BY <2>1, DeliverKeepsHistory
  <2> QED
    BY <2>5, <2>6, <2>7, <2>8 DEF RegistrationInv
<1>6. ASSUME NEW q \in Requests, R!GuessCommit(q)
      PROVE  RegistrationInv'
  <2> DEFINE r == work[q]
             new == R!Missed(pending[r.id], r)
  <2>1. /\ q \in DOMAIN work /\ r.op = "wrong" /\ r \in WorkRow
        /\ r.id \in DOMAIN pending /\ r.tries < MaxTries
        /\ pending' = [pending EXCEPT ![r.id] = new]
        /\ guessed' = [guessed EXCEPT ![r.code] = @ + 1]
        /\ R!End(q)
        /\ UNCHANGED <<now, account, texted, used>>
    BY <1>6, <1>q DEF R!GuessCommit, RegistrationInv, WorkOK
  <2>2. new \in RegistrationRow /\ new.code \in DOMAIN texted /\ r.id \in RegistrationIds
    <3>1. /\ pending[r.id] \in RegistrationRow /\ pending[r.id].code \in DOMAIN texted
          /\ r.id \in RegistrationIds
          /\ r.tries \in 0..MaxTries
      BY <1>r, <2>1 DEF WorkRow
    <3>2. r.tries + 1 \in 0..MaxTries
      BY <1>s, <2>1, <3>1
    <3> DEFINE closed == pending[r.id].consumed \/ r.tries + 1 >= MaxTries
    <3>3. closed \in BOOLEAN /\ new = [pending[r.id] EXCEPT !.tries = r.tries + 1, !.consumed = closed]
      BY DEF R!Missed
    <3> HIDE DEF closed, r, new
    <3> QED
      BY <3>1, <3>2, <3>3 DEF RegistrationRow
  <2> HIDE DEF new
  <2>3. /\ DOMAIN pending' = DOMAIN pending \cup {r.id}
        /\ DOMAIN pending' = DOMAIN pending /\ pending'[r.id] = new
        /\ \A i \in DOMAIN pending \ {r.id} : pending'[i] = pending[i]
    BY <2>1
  <2>4. PendingOK'
    BY <2>1, <2>2, <2>3, RegistrationRowsChange
  <2>5. WorkOK'
    BY <2>1, <2>3, RegistrationEndKeepsRequests
  <2>6. AccountsOK'
    BY <2>1, <2>3, AccountsStay
  <2>7. guessed' \in [Codes -> Nat]
    BY <2>1 DEF RegistrationInv, TextedOK, WorkRow
  <2>8. TextedOK'
    BY <2>1, <2>7, RegistrationEnds DEF RegistrationInv, TextedOK
  <2> QED
    BY <2>4, <2>5, <2>6, <2>8 DEF RegistrationInv
<1>7. ASSUME NEW q \in Requests, R!AcceptCommit(q)
      PROVE  RegistrationInv'
  <2> DEFINE r == work[q]
             new == [pending[r.id] EXCEPT !.consumed = TRUE]
  <2>1. /\ q \in DOMAIN work /\ r.op = "right" /\ r \in WorkRow /\ r.id \in DOMAIN pending
        /\ r.code \in DOMAIN texted
        /\ R!CreateAccount(r.name, r.number, TRUE, r.id)
        /\ pending' = [pending EXCEPT ![r.id] = new]
        /\ used' = used \cup {r.code}
        /\ R!End(q)
        /\ UNCHANGED <<now, texted, guessed>>
    BY <1>7, <1>q DEF R!AcceptCommit, RegistrationInv, WorkOK
  <2>2. new \in RegistrationRow /\ new.code \in DOMAIN texted
    BY <1>r, <2>1 DEF RegistrationRow
  <2> HIDE DEF new
  <2>3. /\ DOMAIN pending' = DOMAIN pending \cup {r.id}
        /\ DOMAIN pending' = DOMAIN pending /\ pending'[r.id] = new
        /\ \A i \in DOMAIN pending \ {r.id} : pending'[i] = pending[i]
    BY <2>1
  <2>4. r.id \in RegistrationIds /\ r.name \in Usernames /\ r.number \in Numbers
    BY <2>1 DEF WorkRow
  <2>5. PendingOK'
    BY <2>1, <2>2, <2>3, <2>4, RegistrationRowsChange
  <2>6. WorkOK'
    BY <2>1, <2>3, RegistrationEndKeepsRequests
  <2>7. AccountsOK'
    BY <2>1, <2>3, <2>4, CreateAccountKeepsTypes DEF RegistrationInv
  <2>8. TextedOK'
    BY <2>1, RegistrationEnds DEF RegistrationInv, TextedOK
  <2> QED
    BY <2>5, <2>6, <2>7, <2>8 DEF RegistrationInv
<1>8. ASSUME NEW name \in Usernames, NEW n \in Numbers \cup {NoNumber}, NEW byInviter \in BOOLEAN,
             R!CreateDirectly(name, n, byInviter)
      PROVE  RegistrationInv'
  <2> DEFINE isVerified == ~byInviter /\ n # NoNumber
  <2>1. /\ R!CreateAccount(name, n, isVerified, NoId)
        /\ UNCHANGED <<now, pending, work, single, texted, guessed, used>>
    BY <1>8 DEF R!CreateDirectly
  <2>2. isVerified \in BOOLEAN
    OBVIOUS
  <2> HIDE DEF isVerified
  <2>3. AccountsOK'
    BY <2>1, <2>2, CreateAccountKeepsTypes DEF RegistrationInv
  <2> QED
    BY <2>1, <2>3 DEF RegistrationInv, PendingOK, RegistrationRow, WorkOK, WorkRow, TextedOK
<1>9. ASSUME NEW q \in Requests, R!Fail(q)
      PROVE  RegistrationInv'
  <2>1. R!End(q) /\ UNCHANGED <<now, account, pending, texted, guessed, used>>
    BY <1>9 DEF R!Fail
  <2>2. WorkOK'
    BY <2>1, RegistrationEndKeepsRequests
  <2>3. AccountsOK' /\ PendingOK' /\ TextedOK'
    BY <2>1, RegistrationEnds DEF RegistrationInv, AccountsOK, AccountRow, PendingOK,
       RegistrationRow, TextedOK
  <2> QED
    BY <2>2, <2>3 DEF RegistrationInv
<1>10. CASE R!Tick
  <2>1. /\ now' \in 0..MaxTime /\ 0..now \subseteq 0..now'
        /\ UNCHANGED <<account, pending, work, single, texted, guessed, used>>
    BY <1>s, <1>10 DEF R!Tick
  <2>2. WorkRow \subseteq WorkRow'
    BY <2>1 DEF WorkRow
  <2>3. WorkOK'
    BY <2>1, <2>2 DEF RegistrationInv, WorkOK
  <2> QED
    BY <2>1, <2>3 DEF RegistrationInv, AccountsOK, AccountRow, PendingOK, RegistrationRow, TextedOK
<1>11. CASE UNCHANGED R!vars
  BY <1>11 DEF R!vars, RegistrationInv, AccountsOK, AccountRow, PendingOK, RegistrationRow,
     WorkOK, WorkRow, TextedOK
<1> QED
  BY <1>1, <1>2, <1>3, <1>4, <1>5, <1>6, <1>7, <1>8, <1>9, <1>10, <1>11 DEF R!Next

\* The tables are well formed, and no two accounts share a number, for any sets of names,
\* numbers, codes, ids and requests and any settings.
THEOREM RegistrationTypeCorrect == R!Spec => []R!TypeOK
<1>1. R!Spec => []RegistrationInv
  BY RegistrationInvInit, RegistrationInvStep, PTL DEF R!Spec
<1> QED
  BY <1>1, RegistrationInvTypeOK, PTL

-----------------------------------------------------------------------------
\* No commit opens a consumed row again.

LEMMA UsedIsClosedInit == R!Init => UsedIsClosed
<1> SUFFICES ASSUME R!Init PROVE UsedIsClosed
  OBVIOUS
<1>1. DOMAIN account = {}
  BY DEF R!Init
<1> QED
  BY <1>1 DEF UsedIsClosed, R!UsedIsClosed

\* What keeps UsedIsClosed: accounts refer to rows of the table, consumed rows stay
\* consumed, and a new account comes with a consumed row.
LEMMA ClosedRowsSuffice ==
    ASSUME RegistrationInv, UsedIsClosed, DOMAIN account \subseteq DOMAIN account',
           \A a \in DOMAIN account : account'[a] = account[a],
           \A i \in DOMAIN pending : pending[i].consumed => pending'[i].consumed,
           \A a \in DOMAIN account' \ DOMAIN account :
              account'[a].by # NoId => pending'[account'[a].by].consumed
    PROVE  UsedIsClosed'
<1>1. \A a \in DOMAIN account : account[a].by = NoId \/ account[a].by \in DOMAIN pending
  BY DEF RegistrationInv, AccountsOK, AccountRow
<1> QED
  BY <1>1 DEF UsedIsClosed, R!UsedIsClosed

LEMMA UsedIsClosedStep == RegistrationInv /\ UsedIsClosed /\ [R!Next]_R!vars => UsedIsClosed'
<1> SUFFICES ASSUME RegistrationInv, UsedIsClosed, [R!Next]_R!vars PROVE UsedIsClosed'
  OBVIOUS
<1>q. \A q \in DOMAIN work : /\ work[q].op = "request" => work[q].id \notin DOMAIN pending
                             /\ work[q].op # "request" => work[q].id \in DOMAIN pending
  BY DEF RegistrationInv, WorkOK
<1>r. \A i \in DOMAIN pending : pending[i] \in RegistrationRow
  BY DEF RegistrationInv, PendingOK
<1>1. ASSUME UNCHANGED <<account, pending>> PROVE UsedIsClosed'
  BY <1>1 DEF UsedIsClosed, R!UsedIsClosed
<1>2. ASSUME NEW q \in Requests, R!RequestCommit(q)
      PROVE  UsedIsClosed'
  <2> DEFINE r == work[q]
  <2>1. q \in DOMAIN work /\ r.id \notin DOMAIN pending /\ account' = account
    BY <1>2, <1>q DEF R!RequestCommit
  <2>2. \A i \in DOMAIN pending : pending'[i] = R!Closed(i, r.drop)
    <3> DEFINE new == [name |-> r.name, number |-> r.number, code |-> r.code, expires |-> r.at + TTL,
                       sent |-> r.at, sends |-> 1, tries |-> 0, consumed |-> FALSE]
    <3>1. pending' = [i \in DOMAIN pending \cup {r.id} |-> IF i = r.id THEN new ELSE R!Closed(i, r.drop)]
      BY <1>2 DEF R!RequestCommit
    <3> HIDE DEF new, r
    <3> QED
      BY <2>1, <3>1
  <2>3. \A i \in DOMAIN pending : pending[i].consumed => R!Closed(i, r.drop).consumed
    <3> SUFFICES ASSUME NEW i \in DOMAIN pending, pending[i].consumed PROVE R!Closed(i, r.drop).consumed
      OBVIOUS
    <3> DEFINE consumed == pending[i].consumed \/ i \in r.drop
    <3>1. consumed /\ R!Closed(i, r.drop) = [pending[i] EXCEPT !.consumed = consumed]
      BY DEF R!Closed
    <3> HIDE DEF consumed
    <3> QED
      BY <1>r, <3>1 DEF RegistrationRow
  <2> QED
    BY <2>1, <2>2, <2>3, ClosedRowsSuffice
<1>3. ASSUME NEW q \in Requests, R!ResendCommit(q)
      PROVE  UsedIsClosed'
  <2> DEFINE r == work[q]
  <2>1. /\ r.id \in DOMAIN pending /\ account' = account
        /\ pending' = [pending EXCEPT ![r.id] = R!Resent(pending[r.id], r)]
    BY <1>3, <1>q DEF R!ResendCommit
  <2>2. R!Resent(pending[r.id], r).consumed = pending[r.id].consumed
    BY <1>r, <2>1 DEF R!Resent, RegistrationRow
  <2> HIDE DEF r
  <2> QED
    BY <2>1, <2>2, ClosedRowsSuffice
<1>4. ASSUME NEW q \in Requests, R!GuessCommit(q)
      PROVE  UsedIsClosed'
  <2> DEFINE r == work[q]
  <2>1. /\ r.id \in DOMAIN pending /\ account' = account
        /\ pending' = [pending EXCEPT ![r.id] = R!Missed(pending[r.id], r)]
    BY <1>4, <1>q DEF R!GuessCommit
  <2>2. pending[r.id].consumed => R!Missed(pending[r.id], r).consumed
    <3> DEFINE consumed == pending[r.id].consumed \/ r.tries + 1 >= MaxTries
    <3>1. R!Missed(pending[r.id], r) = [pending[r.id] EXCEPT !.tries = r.tries + 1, !.consumed = consumed]
      BY DEF R!Missed
    <3>2. pending[r.id].consumed => consumed
      OBVIOUS
    <3> HIDE DEF consumed, r
    <3> QED
      BY <1>r, <2>1, <3>1, <3>2 DEF RegistrationRow
  <2> HIDE DEF r
  <2> QED
    BY <2>1, <2>2, ClosedRowsSuffice
<1>5. ASSUME NEW q \in Requests, R!AcceptCommit(q)
      PROVE  UsedIsClosed'
  <2> DEFINE r == work[q]
  <2>1. /\ r.id \in DOMAIN pending /\ r.name \notin DOMAIN account
        /\ pending' = [pending EXCEPT ![r.id] = [pending[r.id] EXCEPT !.consumed = TRUE]]
        /\ account' = [a \in DOMAIN account \cup {r.name} |->
              IF a = r.name THEN [number |-> r.number, verified |-> TRUE, by |-> r.id] ELSE account[a]]
    BY <1>5, <1>q DEF R!AcceptCommit, R!CreateAccount, R!IsNew
  <2>2. pending'[r.id].consumed /\ \A i \in DOMAIN pending : pending[i].consumed => pending'[i].consumed
    BY <1>r, <2>1 DEF RegistrationRow
  <2>3. /\ DOMAIN account' = DOMAIN account \cup {r.name} /\ account'[r.name].by = r.id
        /\ \A a \in DOMAIN account : account'[a] = account[a]
    BY <2>1
  <2> HIDE DEF r
  <2> QED
    BY <2>2, <2>3, ClosedRowsSuffice
<1>6. ASSUME NEW name \in Usernames, NEW n \in Numbers \cup {NoNumber}, NEW byInviter \in BOOLEAN,
             R!CreateDirectly(name, n, byInviter)
      PROVE  UsedIsClosed'
  <2> DEFINE new == [number |-> n, verified |-> ~byInviter /\ n # NoNumber, by |-> NoId]
  <2>1. /\ name \notin DOMAIN account /\ pending' = pending /\ new.by = NoId
        /\ account' = [a \in DOMAIN account \cup {name} |-> IF a = name THEN new ELSE account[a]]
    BY <1>6 DEF R!CreateDirectly, R!CreateAccount, R!IsNew
  <2> HIDE DEF new
  <2>2. /\ DOMAIN account' = DOMAIN account \cup {name} /\ account'[name].by = NoId
        /\ \A a \in DOMAIN account : account'[a] = account[a]
    BY <2>1
  <2> QED
    BY <2>1, <2>2, ClosedRowsSuffice
<1>7. ASSUME NEW q \in Requests, NEW id \in RegistrationIds, NEW name \in Usernames,
             NEW n \in Numbers, NEW c \in Codes,
             R!RequestBegin(q, id, name, n, c)
      PROVE  UsedIsClosed'
  BY <1>1, <1>7 DEF R!RequestBegin
<1>8. ASSUME NEW q \in Requests, NEW id \in RegistrationIds, NEW c \in Codes,
             R!ResendBegin(q, id, c) \/ R!VerifyBegin(q, id, c)
      PROVE  UsedIsClosed'
  BY <1>1, <1>8 DEF R!ResendBegin, R!VerifyBegin
<1>9. ASSUME NEW q \in Requests, R!Fail(q) PROVE UsedIsClosed'
  BY <1>1, <1>9 DEF R!Fail
<1>10. CASE R!Tick
  BY <1>1, <1>10 DEF R!Tick
<1>11. CASE UNCHANGED R!vars
  BY <1>1, <1>11 DEF R!vars
<1> QED
  BY <1>2, <1>3, <1>4, <1>5, <1>6, <1>7, <1>8, <1>9, <1>10, <1>11 DEF R!Next

\* A registration that has made an account is closed for good, whatever resends and
\* guesses had read it before, for any number of requests at a time.
THEOREM UsedRegistrationsStayClosed == R!Spec => []UsedIsClosed
<1>1. R!Spec => [](RegistrationInv /\ UsedIsClosed)
  BY RegistrationInvInit, RegistrationInvStep, UsedIsClosedInit, UsedIsClosedStep, PTL DEF R!Spec
<1> QED
  BY <1>1, PTL

-----------------------------------------------------------------------------
\* Requests that come one at a time.

\* What request r has read still holds, and the code it brings is new.
StillAsRead(r) ==
    /\ r.op = "request" => R!Rivals(r.name, r.number) \subseteq r.drop
    /\ r.op \in {"request", "resend"} => r.code \notin DOMAIN texted
    /\ r.op \in {"right", "wrong"} =>
          ~pending[r.id].consumed /\ pending[r.id].code = r.code /\ pending[r.id].tries = r.tries

SingleRequest == /\ \A p, q \in DOMAIN work : p = q
                 /\ \A q \in DOMAIN work : StillAsRead(work[q])

\* No code is in two rows, and an open row has counted the wrong guesses at its code.
GuessesCount ==
    /\ \A i, j \in DOMAIN pending : i # j => pending[i].code # pending[j].code
    /\ \A i \in DOMAIN pending : ~pending[i].consumed => guessed[pending[i].code] <= pending[i].tries
    /\ \A c \in Codes \ DOMAIN texted : guessed[c] = 0

OpenDiffer == \A i, j \in DOMAIN pending :
                 i # j /\ ~pending[i].consumed /\ ~pending[j].consumed
                 => pending[i].name # pending[j].name /\ pending[i].number # pending[j].number

SingleInv == single => SingleRequest /\ GuessesCount /\ OpenDiffer

\* A step that leaves the rows, the codes and the wrong guesses, and begins no request.
LEMMA SingleInvKept ==
    ASSUME RegistrationInv, SingleInv, single' => single, UNCHANGED <<pending, texted, guessed>>,
           DOMAIN work' \subseteq DOMAIN work, \A p \in DOMAIN work' : work'[p] = work[p]
    PROVE  SingleInv'
<1> SUFFICES ASSUME single' PROVE SingleRequest' /\ GuessesCount' /\ OpenDiffer'
  BY DEF SingleInv
<1>1. SingleRequest /\ GuessesCount /\ OpenDiffer
  BY DEF SingleInv
<1>2. GuessesCount' /\ OpenDiffer'
  BY <1>1 DEF GuessesCount, OpenDiffer
<1>3. \A p \in DOMAIN work' : StillAsRead(work[p])'
  <2> SUFFICES ASSUME NEW p \in DOMAIN work' PROVE StillAsRead(work[p])'
    OBVIOUS
  <2> PICK r : r = work[p]
    OBVIOUS
  <2>1. StillAsRead(r)
    BY <1>1 DEF SingleRequest
  <2>2. StillAsRead(r)'
    BY <2>1 DEF StillAsRead, R!Rivals
  <2>3. work'[p] = r
    OBVIOUS
  <2> QED
    BY <2>2, <2>3 DEF StillAsRead, R!Rivals
<1>4. SingleRequest'
  BY <1>1, <1>3 DEF SingleRequest
<1> QED
  BY <1>2, <1>4

\* A request that begins alone, and has read what it needs.
LEMMA RegistrationBeginKeepsAlone ==
    ASSUME SingleInv, NEW q, NEW r, R!Begin(q, r), UNCHANGED <<pending, texted, guessed>>,
           single => StillAsRead(r)
    PROVE  SingleInv'
<1> SUFFICES ASSUME single' PROVE SingleRequest' /\ GuessesCount' /\ OpenDiffer'
  BY DEF SingleInv
<1>1. single /\ work = <<>>
  BY DEF R!Begin
<1>2. DOMAIN work' = {q} /\ work'[q] = r
  BY <1>1 DEF R!Begin
<1>3. StillAsRead(r)'
  BY <1>1 DEF StillAsRead, R!Rivals
<1>4. StillAsRead(work[q])'
  BY <1>2, <1>3 DEF StillAsRead, R!Rivals
<1>5. SingleRequest'
  BY <1>2, <1>4 DEF SingleRequest
<1>6. GuessesCount' /\ OpenDiffer'
  BY <1>1 DEF SingleInv, GuessesCount, OpenDiffer
<1> QED
  BY <1>5, <1>6

\* The only request ends.
LEMMA RegistrationEndLeavesNone ==
    ASSUME SingleRequest, NEW q \in DOMAIN work, R!End(q)
    PROVE  DOMAIN work' = {} /\ SingleRequest'
BY RegistrationEnds DEF SingleRequest

LEMMA SingleInvInit == R!Init => SingleInv
<1> SUFFICES ASSUME R!Init PROVE SingleInv
  OBVIOUS
<1>1. DOMAIN pending = {} /\ DOMAIN work = {} /\ \A c \in Codes : guessed[c] = 0
  BY DEF R!Init
<1> QED
  BY <1>1 DEF SingleInv, SingleRequest, GuessesCount, OpenDiffer

\* Row i is the same registration after the step; it may have been closed.
StillOpen(i) ==
    /\ pending'[i].name = pending[i].name /\ pending'[i].number = pending[i].number
    /\ pending'[i].code = pending[i].code /\ pending'[i].tries = pending[i].tries
    /\ pending'[i].expires = pending[i].expires
    /\ ~pending'[i].consumed => ~pending[i].consumed

LEMMA RequestCommitFacts ==
    ASSUME RegistrationInv, NEW q, R!RequestCommit(q), NEW r, r = work[q]
    PROVE  /\ q \in DOMAIN work /\ r \in WorkRow /\ r.op = "request" /\ r.id \notin DOMAIN pending
           /\ DOMAIN pending' = DOMAIN pending \cup {r.id}
           /\ \A i \in DOMAIN pending : StillOpen(i) /\ (~pending'[i].consumed => i \notin r.drop)
           /\ pending'[r.id].name = r.name /\ pending'[r.id].number = r.number
           /\ pending'[r.id].code = r.code /\ pending'[r.id].tries = 0
           /\ R!End(q) /\ R!Deliver(r) /\ UNCHANGED <<now, guessed, used>>
<1> DEFINE new == [name |-> r.name, number |-> r.number, code |-> r.code, expires |-> r.at + TTL,
                   sent |-> r.at, sends |-> 1, tries |-> 0, consumed |-> FALSE]
<1>1. /\ q \in DOMAIN work /\ r.op = "request"
      /\ pending' = [i \in DOMAIN pending \cup {r.id} |-> IF i = r.id THEN new ELSE R!Closed(i, r.drop)]
      /\ R!End(q) /\ R!Deliver(r) /\ UNCHANGED <<now, guessed, used>>
  BY DEF R!RequestCommit
<1>2. r \in WorkRow /\ r.id \notin DOMAIN pending
  BY <1>1 DEF RegistrationInv, WorkOK
<1>3. new.name = r.name /\ new.number = r.number /\ new.code = r.code /\ new.tries = 0
  OBVIOUS
<1> HIDE DEF new
<1>4. ASSUME NEW i \in DOMAIN pending
      PROVE  StillOpen(i) /\ (~pending'[i].consumed => i \notin r.drop)
  <2> DEFINE consumed == pending[i].consumed \/ i \in r.drop
  <2>1. pending[i] \in RegistrationRow
    BY DEF RegistrationInv, PendingOK
  <2>2. pending'[i] = R!Closed(i, r.drop)
    BY <1>1, <1>2
  <2>3. pending'[i] = [pending[i] EXCEPT !.consumed = consumed]
    BY <2>2 DEF R!Closed
  <2>4. ~consumed => ~pending[i].consumed /\ i \notin r.drop
    OBVIOUS
  <2> HIDE DEF consumed
  <2> QED
    BY <2>1, <2>3, <2>4 DEF RegistrationRow, StillOpen
<1> QED
  BY <1>1, <1>2, <1>3, <1>4

LEMMA ResendCommitFacts ==
    ASSUME RegistrationInv, NEW q, R!ResendCommit(q), NEW r, r = work[q]
    PROVE  /\ q \in DOMAIN work /\ r \in WorkRow /\ r.op = "resend" /\ r.id \in DOMAIN pending
           /\ DOMAIN pending' = DOMAIN pending
           /\ \A i \in DOMAIN pending \ {r.id} : StillOpen(i)
           /\ pending'[r.id].name = pending[r.id].name /\ pending'[r.id].number = pending[r.id].number
           /\ pending'[r.id].code = r.code /\ pending'[r.id].tries \in Nat
           /\ pending'[r.id].consumed = pending[r.id].consumed
           /\ R!End(q) /\ R!Deliver(r) /\ UNCHANGED <<now, guessed, used>>
<1>1. /\ q \in DOMAIN work /\ r.op = "resend"
      /\ pending' = [pending EXCEPT ![r.id] = R!Resent(pending[r.id], r)]
      /\ R!End(q) /\ R!Deliver(r) /\ UNCHANGED <<now, guessed, used>>
  BY DEF R!ResendCommit
<1>2. r \in WorkRow /\ r.id \in DOMAIN pending /\ \A i \in DOMAIN pending : pending[i] \in RegistrationRow
  BY <1>1 DEF RegistrationInv, WorkOK, PendingOK
<1>3. /\ DOMAIN pending' = DOMAIN pending /\ pending'[r.id] = R!Resent(pending[r.id], r)
      /\ \A i \in DOMAIN pending \ {r.id} : pending'[i] = pending[i]
  BY <1>1, <1>2
<1>4. pending[r.id].tries \in Nat
  BY <1>2, SettingsOK DEF RegistrationRow, Settings
<1> DEFINE new == R!Resent(pending[r.id], r)
<1>5. /\ new.name = pending[r.id].name /\ new.number = pending[r.id].number /\ new.code = r.code
      /\ new.tries \in Nat /\ new.consumed = pending[r.id].consumed
  BY <1>2, <1>4 DEF R!Resent, RegistrationRow
<1> HIDE DEF new
<1>6. \A i \in DOMAIN pending \ {r.id} : StillOpen(i)
  BY <1>3 DEF StillOpen
<1> QED
  BY <1>1, <1>2, <1>3, <1>5, <1>6 DEF new

LEMMA RegistrationGuessCommitFacts ==
    ASSUME RegistrationInv, NEW q, R!GuessCommit(q), NEW r, r = work[q]
    PROVE  /\ q \in DOMAIN work /\ r \in WorkRow /\ r.op = "wrong" /\ r.id \in DOMAIN pending
           /\ r.code \in DOMAIN texted
           /\ DOMAIN pending' = DOMAIN pending
           /\ \A i \in DOMAIN pending \ {r.id} : StillOpen(i) /\ pending'[i] = pending[i]
           /\ pending'[r.id].name = pending[r.id].name /\ pending'[r.id].number = pending[r.id].number
           /\ pending'[r.id].code = pending[r.id].code /\ pending'[r.id].tries = r.tries + 1
           /\ pending'[r.id].expires = pending[r.id].expires
           /\ ~pending'[r.id].consumed => ~pending[r.id].consumed /\ r.tries + 1 < MaxTries
           /\ guessed' = [guessed EXCEPT ![r.code] = @ + 1]
           /\ R!End(q) /\ UNCHANGED <<now, texted, used>>
<1> DEFINE consumed == pending[r.id].consumed \/ r.tries + 1 >= MaxTries
           new == [pending[r.id] EXCEPT !.tries = r.tries + 1, !.consumed = consumed]
<1>1. /\ q \in DOMAIN work /\ r.op = "wrong"
      /\ pending' = [pending EXCEPT ![r.id] = new]
      /\ guessed' = [guessed EXCEPT ![r.code] = @ + 1]
      /\ R!End(q) /\ UNCHANGED <<now, texted, used>>
  BY DEF R!GuessCommit, R!Missed
<1>2. /\ r \in WorkRow
        /\ r.id \in DOMAIN pending /\ r.code \in DOMAIN texted
      /\ \A i \in DOMAIN pending : pending[i] \in RegistrationRow
  BY <1>1 DEF RegistrationInv, WorkOK, PendingOK
<1>3. ~consumed => ~pending[r.id].consumed /\ r.tries + 1 < MaxTries
  BY <1>2, SettingsOK DEF WorkRow, Settings
<1> HIDE DEF consumed
<1>4. /\ new.name = pending[r.id].name /\ new.number = pending[r.id].number /\ new.code = pending[r.id].code
      /\ new.tries = r.tries + 1 /\ new.expires = pending[r.id].expires /\ new.consumed = consumed
  BY <1>2 DEF RegistrationRow
<1> HIDE DEF new
<1>5. /\ DOMAIN pending' = DOMAIN pending /\ pending'[r.id] = new
      /\ \A i \in DOMAIN pending \ {r.id} : pending'[i] = pending[i]
  BY <1>1, <1>2
<1>6. \A i \in DOMAIN pending \ {r.id} : StillOpen(i)
  BY <1>5 DEF StillOpen
<1> QED
  BY <1>1, <1>2, <1>3, <1>4, <1>5, <1>6

LEMMA RegistrationAcceptCommitFacts ==
    ASSUME RegistrationInv, NEW q, R!AcceptCommit(q), NEW r, r = work[q]
    PROVE  /\ q \in DOMAIN work /\ r \in WorkRow /\ r.op = "right" /\ r.id \in DOMAIN pending
           /\ DOMAIN pending' = DOMAIN pending
           /\ \A i \in DOMAIN pending \ {r.id} : StillOpen(i) /\ pending'[i] = pending[i]
           /\ pending'[r.id].consumed
           /\ pending'[r.id].code = pending[r.id].code
           /\ used' = used \cup {r.code}
           /\ R!End(q) /\ UNCHANGED <<now, texted, guessed>>
<1> DEFINE new == [pending[r.id] EXCEPT !.consumed = TRUE]
<1>1. /\ q \in DOMAIN work /\ r.op = "right"
      /\ pending' = [pending EXCEPT ![r.id] = new]
      /\ used' = used \cup {r.code}
      /\ R!End(q) /\ UNCHANGED <<now, texted, guessed>>
  BY DEF R!AcceptCommit
<1>2. r \in WorkRow /\ r.id \in DOMAIN pending /\ \A i \in DOMAIN pending : pending[i] \in RegistrationRow
  BY <1>1 DEF RegistrationInv, WorkOK, PendingOK
<1>3. new.consumed /\ new.code = pending[r.id].code
  BY <1>2 DEF RegistrationRow
<1> HIDE DEF new
<1>4. /\ DOMAIN pending' = DOMAIN pending /\ pending'[r.id] = new
      /\ \A i \in DOMAIN pending \ {r.id} : pending'[i] = pending[i]
  BY <1>1, <1>2
<1>5. \A i \in DOMAIN pending \ {r.id} : StillOpen(i)
  BY <1>4 DEF StillOpen
<1> QED
  BY <1>1, <1>2, <1>3, <1>4, <1>5

\* A commit that writes row id.
LEMMA CommitKeepsAlone ==
    ASSUME RegistrationInv, GuessesCount, OpenDiffer, NEW id, DOMAIN pending' = DOMAIN pending \cup {id},
           DOMAIN texted \subseteq DOMAIN texted',
           \A c \in Codes \ DOMAIN texted' : guessed'[c] = guessed[c],
           \A i \in DOMAIN pending \ {id} :
              /\ StillOpen(i)
              /\ pending[i].code # pending'[id].code
              /\ guessed'[pending[i].code] = guessed[pending[i].code]
              /\ ~pending'[i].consumed /\ ~pending'[id].consumed
                 => pending[i].name # pending'[id].name /\ pending[i].number # pending'[id].number,
           ~pending'[id].consumed => guessed'[pending'[id].code] <= pending'[id].tries
    PROVE  GuessesCount' /\ OpenDiffer'
<1>1. \A i, j \in DOMAIN pending' : i # j => pending'[i].code # pending'[j].code
  BY DEF GuessesCount, StillOpen
<1>2. \A i \in DOMAIN pending' : ~pending'[i].consumed => guessed'[pending'[i].code] <= pending'[i].tries
  BY DEF GuessesCount, StillOpen
<1>3. GuessesCount'
  BY <1>1, <1>2 DEF GuessesCount
<1>4. OpenDiffer'
  BY DEF OpenDiffer, StillOpen
<1> QED
  BY <1>3, <1>4

LEMMA RequestKeepsAlone ==
    ASSUME RegistrationInv, SingleInv, single, NEW q, R!RequestCommit(q)
    PROVE  GuessesCount' /\ OpenDiffer'
<1> PICK r : r = work[q]
  OBVIOUS
<1>1. SingleRequest /\ GuessesCount /\ OpenDiffer
  BY DEF SingleInv
<1>2. /\ q \in DOMAIN work /\ r \in WorkRow /\ r.op = "request" /\ r.id \notin DOMAIN pending
      /\ DOMAIN pending' = DOMAIN pending \cup {r.id}
      /\ \A i \in DOMAIN pending : StillOpen(i) /\ (~pending'[i].consumed => i \notin r.drop)
      /\ pending'[r.id].name = r.name /\ pending'[r.id].number = r.number
      /\ pending'[r.id].code = r.code /\ pending'[r.id].tries = 0
      /\ R!Deliver(r) /\ guessed' = guessed
  BY RequestCommitFacts
<1>3. R!Rivals(r.name, r.number) \subseteq r.drop /\ r.code \in Codes \ DOMAIN texted
  BY <1>1, <1>2 DEF SingleRequest, StillAsRead, WorkRow
<1>4. \A i \in DOMAIN pending : pending[i].code \in DOMAIN texted
  BY DEF RegistrationInv, PendingOK
<1>5. \A i \in DOMAIN pending :
          ~pending'[i].consumed => pending[i].name # r.name /\ pending[i].number # r.number
  BY <1>2, <1>3 DEF R!Rivals, StillOpen
<1>6. DOMAIN texted \subseteq DOMAIN texted' /\ guessed'[r.code] = 0
  BY <1>1, <1>2, <1>3, DeliverFacts DEF GuessesCount
<1> QED
  BY <1>1, <1>2, <1>3, <1>4, <1>5, <1>6, CommitKeepsAlone

LEMMA ResendKeepsAlone ==
    ASSUME RegistrationInv, SingleInv, single, NEW q, R!ResendCommit(q)
    PROVE  GuessesCount' /\ OpenDiffer'
<1> PICK r : r = work[q]
  OBVIOUS
<1>1. SingleRequest /\ GuessesCount /\ OpenDiffer
  BY DEF SingleInv
<1>2. /\ q \in DOMAIN work /\ r \in WorkRow /\ r.op = "resend" /\ r.id \in DOMAIN pending
      /\ DOMAIN pending' = DOMAIN pending
      /\ \A i \in DOMAIN pending \ {r.id} : StillOpen(i)
      /\ pending'[r.id].name = pending[r.id].name /\ pending'[r.id].number = pending[r.id].number
      /\ pending'[r.id].code = r.code /\ pending'[r.id].tries \in Nat
      /\ pending'[r.id].consumed = pending[r.id].consumed
      /\ R!Deliver(r) /\ guessed' = guessed
  BY ResendCommitFacts
<1>3. r.code \in Codes \ DOMAIN texted
  BY <1>1, <1>2 DEF SingleRequest, StillAsRead, WorkRow
<1>4. \A i \in DOMAIN pending : pending[i].code \in DOMAIN texted
  BY DEF RegistrationInv, PendingOK
<1>5. \A i \in DOMAIN pending \ {r.id} :
         ~pending'[i].consumed /\ ~pending'[r.id].consumed
         => pending[i].name # pending'[r.id].name /\ pending[i].number # pending'[r.id].number
  BY <1>1, <1>2 DEF OpenDiffer, StillOpen
<1>6. DOMAIN texted \subseteq DOMAIN texted' /\ guessed'[r.code] <= pending'[r.id].tries
  <2>1. DOMAIN texted \subseteq DOMAIN texted' /\ guessed'[r.code] = 0
    BY <1>1, <1>2, <1>3, DeliverFacts DEF GuessesCount
  <2> PICK t \in Nat : t = pending'[r.id].tries
    BY <1>2
  <2> QED
    BY <2>1
<1>7. DOMAIN pending' = DOMAIN pending \cup {r.id}
  BY <1>2
<1> QED
  BY <1>1, <1>2, <1>3, <1>4, <1>5, <1>6, <1>7, CommitKeepsAlone

LEMMA GuessKeepsAlone ==
    ASSUME RegistrationInv, SingleInv, single, NEW q, R!GuessCommit(q)
    PROVE  GuessesCount' /\ OpenDiffer'
<1> PICK r : r = work[q]
  OBVIOUS
<1>1. SingleRequest /\ GuessesCount /\ OpenDiffer
  BY DEF SingleInv
<1>2. /\ q \in DOMAIN work /\ r \in WorkRow /\ r.op = "wrong" /\ r.id \in DOMAIN pending
      /\ r.code \in DOMAIN texted /\ DOMAIN pending' = DOMAIN pending
      /\ \A i \in DOMAIN pending \ {r.id} : StillOpen(i)
      /\ pending'[r.id].name = pending[r.id].name /\ pending'[r.id].number = pending[r.id].number
      /\ pending'[r.id].code = pending[r.id].code /\ pending'[r.id].tries = r.tries + 1
      /\ ~pending'[r.id].consumed => ~pending[r.id].consumed
      /\ guessed' = [guessed EXCEPT ![r.code] = @ + 1] /\ texted' = texted
  BY RegistrationGuessCommitFacts
<1>3. ~pending[r.id].consumed /\ pending[r.id].code = r.code /\ pending[r.id].tries = r.tries
  BY <1>1, <1>2 DEF SingleRequest, StillAsRead
<1>4. guessed \in [Codes -> Nat] /\ r.code \in Codes /\ r.tries \in Nat
  BY <1>2, SettingsOK DEF RegistrationInv, TextedOK, WorkRow, Settings
<1>5. guessed[r.code] <= r.tries
  BY <1>1, <1>2, <1>3 DEF GuessesCount
<1>6. guessed'[r.code] = guessed[r.code] + 1 /\ \A c \in Codes \ {r.code} : guessed'[c] = guessed[c]
  BY <1>2, <1>4
<1>7. guessed'[pending'[r.id].code] <= pending'[r.id].tries
  BY <1>2, <1>3, <1>4, <1>5, <1>6
<1>8. \A i \in DOMAIN pending \ {r.id} : pending[i].code \in Codes \ {r.code}
  BY <1>1, <1>2, <1>3 DEF GuessesCount, RegistrationInv, PendingOK, RegistrationRow
<1>9. \A i \in DOMAIN pending \ {r.id} :
         ~pending'[i].consumed /\ ~pending'[r.id].consumed
         => pending[i].name # pending'[r.id].name /\ pending[i].number # pending'[r.id].number
  BY <1>1, <1>2 DEF OpenDiffer, StillOpen
<1>10. /\ DOMAIN pending' = DOMAIN pending \cup {r.id}
       /\ \A c \in Codes \ DOMAIN texted' : guessed'[c] = guessed[c]
  BY <1>2, <1>6
<1> QED
  BY <1>1, <1>2, <1>3, <1>6, <1>7, <1>8, <1>9, <1>10, CommitKeepsAlone

LEMMA AcceptKeepsAlone ==
    ASSUME RegistrationInv, SingleInv, single, NEW q, R!AcceptCommit(q)
    PROVE  GuessesCount' /\ OpenDiffer'
<1> PICK r : r = work[q]
  OBVIOUS
<1>1. SingleRequest /\ GuessesCount /\ OpenDiffer
  BY DEF SingleInv
<1>2. /\ r.id \in DOMAIN pending /\ DOMAIN pending' = DOMAIN pending
      /\ \A i \in DOMAIN pending \ {r.id} : StillOpen(i)
      /\ pending'[r.id].consumed /\ pending'[r.id].code = pending[r.id].code
      /\ UNCHANGED <<texted, guessed>>
  BY RegistrationAcceptCommitFacts
<1>3. DOMAIN pending' = DOMAIN pending \cup {r.id}
  BY <1>2
<1>4. \A i \in DOMAIN pending \ {r.id} : pending[i].code # pending'[r.id].code
  BY <1>1, <1>2 DEF GuessesCount
<1> QED
  BY <1>1, <1>2, <1>3, <1>4, CommitKeepsAlone

\* Once the only request has committed, there is none to be up to date.
LEMMA RegistrationCommitKeepsAloneInv ==
    ASSUME SingleInv, NEW q \in DOMAIN work, R!End(q), single => GuessesCount' /\ OpenDiffer'
    PROVE  SingleInv'
BY RegistrationEnds, RegistrationEndLeavesNone DEF SingleInv

LEMMA SingleInvStep == RegistrationInv /\ SingleInv /\ [R!Next]_R!vars => SingleInv'
<1> SUFFICES ASSUME RegistrationInv, SingleInv, [R!Next]_R!vars PROVE SingleInv'
  OBVIOUS
<1>1. ASSUME NEW q \in Requests, NEW id \in RegistrationIds, NEW name \in Usernames,
             NEW n \in Numbers, NEW c \in Codes,
             R!RequestBegin(q, id, name, n, c)
      PROVE  SingleInv'
  <2> DEFINE base == R!Reading("request", id, name, n, c)
             r == [base EXCEPT !.at = now, !.drop = R!Rivals(name, n)]
  <2>1. R!Begin(q, r) /\ c \notin DOMAIN texted /\ UNCHANGED <<pending, texted, guessed>>
    BY <1>1 DEF R!RequestBegin, R!Drawn
  <2>2. r.op = "request" /\ r.name = name /\ r.number = n /\ r.code = c /\ r.drop = R!Rivals(name, n)
    BY DEF R!Reading
  <2> HIDE DEF r
  <2> QED
    BY <2>1, <2>2, RegistrationBeginKeepsAlone DEF StillAsRead
<1>2. ASSUME NEW q \in Requests, NEW id \in RegistrationIds, NEW c \in Codes, R!ResendBegin(q, id, c)
      PROVE  SingleInv'
  <2> DEFINE base == R!Reading("resend", id, pending[id].name, pending[id].number, c)
             r == [base EXCEPT !.at = now]
  <2>1. R!Begin(q, r) /\ c \notin DOMAIN texted /\ UNCHANGED <<pending, texted, guessed>>
    BY <1>2 DEF R!ResendBegin, R!Drawn
  <2>2. r.op = "resend" /\ r.code = c
    BY DEF R!Reading
  <2> HIDE DEF r
  <2> QED
    BY <2>1, <2>2, RegistrationBeginKeepsAlone DEF StillAsRead
<1>3. ASSUME NEW q \in Requests, NEW id \in RegistrationIds, NEW c \in Codes, R!VerifyBegin(q, id, c)
      PROVE  SingleInv'
  <2> DEFINE op == IF c = pending[id].code THEN "right" ELSE "wrong"
             r == R!Reading(op, id, pending[id].name, pending[id].number, pending[id].code)
  <2>1. /\ R!Begin(q, r) /\ id \in DOMAIN pending /\ ~pending[id].consumed
        /\ UNCHANGED <<pending, texted, guessed>>
    BY <1>3 DEF R!VerifyBegin, R!Active
  <2>2. op \in {"right", "wrong"}
    OBVIOUS
  <2> HIDE DEF op
  <2>3. r.op = op /\ r.id = id /\ r.code = pending[id].code /\ r.tries = pending[id].tries
    BY <2>1 DEF R!Reading
  <2> HIDE DEF r
  <2> QED
    BY <2>1, <2>2, <2>3, RegistrationBeginKeepsAlone DEF StillAsRead
<1>4. ASSUME NEW q \in Requests, R!RequestCommit(q) PROVE SingleInv'
  BY <1>4, RequestKeepsAlone, RegistrationCommitKeepsAloneInv DEF R!RequestCommit
<1>5. ASSUME NEW q \in Requests, R!ResendCommit(q) PROVE SingleInv'
  BY <1>5, ResendKeepsAlone, RegistrationCommitKeepsAloneInv DEF R!ResendCommit
<1>6. ASSUME NEW q \in Requests, R!GuessCommit(q) PROVE SingleInv'
  BY <1>6, GuessKeepsAlone, RegistrationCommitKeepsAloneInv DEF R!GuessCommit
<1>7. ASSUME NEW q \in Requests, R!AcceptCommit(q) PROVE SingleInv'
  BY <1>7, AcceptKeepsAlone, RegistrationCommitKeepsAloneInv DEF R!AcceptCommit
<1>8. ASSUME NEW q \in Requests, R!Fail(q) PROVE SingleInv'
  BY <1>8, RegistrationEnds, SingleInvKept DEF R!Fail
<1>9. ASSUME UNCHANGED <<pending, work, single, texted, guessed>> PROVE SingleInv'
  BY <1>9, SingleInvKept
<1>10. ASSUME NEW name \in Usernames, NEW n \in Numbers \cup {NoNumber}, NEW byInviter \in BOOLEAN,
              R!CreateDirectly(name, n, byInviter)
       PROVE  SingleInv'
  BY <1>9, <1>10 DEF R!CreateDirectly
<1>11. CASE R!Tick
  BY <1>9, <1>11 DEF R!Tick
<1>12. CASE UNCHANGED R!vars
  BY <1>9, <1>12 DEF R!vars
<1> QED
  BY <1>1, <1>2, <1>3, <1>4, <1>5, <1>6, <1>7, <1>8, <1>10, <1>11, <1>12 DEF R!Next

\* As long as requests come one at a time, no two open registrations are for the same
\* username or number: a new one replaces its rivals, for any bounds.
THEOREM OpenRegistrationsAreDisjoint == R!Spec => []OpenAreDisjoint
<1>1. R!Spec => [](RegistrationInv /\ SingleInv)
  BY RegistrationInvInit, RegistrationInvStep, SingleInvInit, SingleInvStep, PTL DEF R!Spec
<1>2. SingleInv => OpenAreDisjoint
  BY DEF SingleInv, OpenDiffer, OpenAreDisjoint, R!OpenAreDisjoint
<1> QED
  BY <1>1, <1>2, PTL

-----------------------------------------------------------------------------
\* The promise of OneTimeCodes.

OpenRows == {j \in DOMAIN pending : R!Active(j) \/ (j \in R!Checked /\ ~pending[j].consumed)}
OpenCodes == {pending[i].code : i \in OpenRows}
RegistrationPromiseStep == R!Promise!Next \/ UNCHANGED R!Promise!vars

\* The steps of OneTimeCodes, in terms of the rows.
LEMMA RegistrationStepLapses ==
    ASSUME OpenCodes' \subseteq OpenCodes, UNCHANGED <<texted, guessed, used>>
    PROVE  RegistrationPromiseStep
<1>1. CASE OpenCodes' = OpenCodes
  <2>1. UNCHANGED R!Promise!vars
    BY <1>1 DEF R!Promise!vars, OpenCodes, OpenRows
  <2> QED
    BY <2>1 DEF RegistrationPromiseStep
<1>2. CASE OpenCodes' # OpenCodes
  <2> PICK old : old = OpenCodes \ OpenCodes'
    OBVIOUS
  <2>1. old \in SUBSET OpenCodes /\ old # {} /\ OpenCodes' = OpenCodes \ old
    BY <1>2
  <2>2. R!Promise!Lapse(old)
    BY <2>1 DEF R!Promise!Lapse, OpenCodes, OpenRows
  <2>3. R!Promise!Next
    BY <2>1, <2>2 DEF R!Promise!Next, OpenCodes, OpenRows
  <2> QED
    BY <2>3 DEF RegistrationPromiseStep
<1> QED
  BY <1>1, <1>2

LEMMA RegistrationStepSends ==
    ASSUME NEW c \in Codes \ DOMAIN texted, DOMAIN texted' = DOMAIN texted \cup {c},
           OpenCodes' \subseteq OpenCodes \cup {c}, UNCHANGED <<guessed, used>>
    PROVE  RegistrationPromiseStep
<1> PICK old : old = (OpenCodes \cup {c}) \ OpenCodes'
  OBVIOUS
<1>1. old \in SUBSET (OpenCodes \cup {c}) /\ OpenCodes' = (OpenCodes \cup {c}) \ old
  OBVIOUS
<1>2. Codes \ DOMAIN texted' = (Codes \ DOMAIN texted) \ {c}
  OBVIOUS
<1>3. R!Promise!Send(c, old)
  BY <1>1, <1>2 DEF R!Promise!Send, OpenCodes, OpenRows
<1>4. R!Promise!Next
  BY <1>1, <1>3 DEF R!Promise!Next, OpenCodes, OpenRows
<1> QED
  BY <1>4 DEF RegistrationPromiseStep

LEMMA RegistrationStepGuesses ==
    ASSUME NEW c \in Codes, c \in OpenCodes, guessed' = [guessed EXCEPT ![c] = @ + 1],
           \/ OpenCodes' = OpenCodes /\ guessed'[c] < MaxTries
           \/ OpenCodes' = OpenCodes \ {c},
           UNCHANGED <<texted, used>>
    PROVE  RegistrationPromiseStep
<1>1. R!Promise!GuessWrong(c)
  BY DEF R!Promise!GuessWrong, OpenCodes, OpenRows
<1> QED
  BY <1>1 DEF R!Promise!Next, RegistrationPromiseStep

LEMMA RegistrationStepAccepts ==
    ASSUME NEW c \in Codes, c \in OpenCodes, OpenCodes' = OpenCodes \ {c},
           used' = used \cup {c}, UNCHANGED <<texted, guessed>>
    PROVE  RegistrationPromiseStep
<1>1. R!Promise!Accept(c)
  BY DEF R!Promise!Accept, OpenCodes, OpenRows
<1> QED
  BY <1>1 DEF R!Promise!Next, RegistrationPromiseStep

\* Which rows are live after a step.

LEMMA RegistrationEndChecked ==
    ASSUME NEW q, R!End(q)
    PROVE  R!Checked' \subseteq R!Checked
BY RegistrationEnds DEF R!Checked

LEMMA RegistrationLiveBefore ==
    ASSUME NEW i \in DOMAIN pending, StillOpen(i), i \in OpenRows', now' = now,
           R!Checked' \subseteq R!Checked
    PROVE  pending'[i].code \in OpenCodes
BY DEF OpenRows, OpenCodes, R!Active, StillOpen

\* A request that begins leaves the live codes as they were.
LEMMA RegistrationBeginLapses ==
    ASSUME NEW q, NEW r, R!Begin(q, r), UNCHANGED <<now, pending, texted, guessed, used>>,
           \/ r.op \notin {"right", "wrong"}
           \/ r.id \in DOMAIN pending /\ R!Active(r.id)
    PROVE  RegistrationPromiseStep
<1>1. /\ DOMAIN work' = DOMAIN work \cup {q} /\ work'[q] = r
      /\ \A p \in DOMAIN work : p # q /\ work'[p] = work[p]
  BY RegistrationBegins
<1>2. /\ R!Checked' \subseteq R!Checked \cup {r.id}
      /\ r.op \notin {"right", "wrong"} => R!Checked' \subseteq R!Checked
  BY <1>1 DEF R!Checked
<1>3. OpenRows' \subseteq OpenRows
  BY <1>2 DEF OpenRows, R!Active
<1>4. OpenCodes' \subseteq OpenCodes
  BY <1>3 DEF OpenCodes
<1> QED
  BY <1>4, RegistrationStepLapses

\* A request that has compared a code ends: at most this code stops to be live.
LEMMA RegistrationOneRowChecked ==
    ASSUME RegistrationInv, SingleRequest, GuessesCount, NEW q \in DOMAIN work, R!End(q),
           NEW r, r = work[q],
           r.op \in {"right", "wrong"}, r.id \in DOMAIN pending, DOMAIN pending' = DOMAIN pending,
           now' = now,
           \A i \in DOMAIN pending \ {r.id} : pending'[i] = pending[i],
           pending'[r.id].code = pending[r.id].code,
           ~pending'[r.id].consumed => pending'[r.id].expires = pending[r.id].expires
    PROVE  /\ r.code \in OpenCodes
           /\ OpenCodes' = IF r.id \in OpenRows' THEN OpenCodes ELSE OpenCodes \ {r.code}
<1>1. DOMAIN work = {q} /\ DOMAIN work' = {}
  BY RegistrationEndLeavesNone DEF SingleRequest
<1>2. R!Checked = {r.id} /\ R!Checked' = {}
  BY <1>1 DEF R!Checked
<1>3. ~pending[r.id].consumed /\ pending[r.id].code = r.code
  BY DEF SingleRequest, StillAsRead
<1>4. r.id \in OpenRows
  BY <1>2, <1>3 DEF OpenRows
<1>5. \A i \in DOMAIN pending \ {r.id} : i \in OpenRows' <=> i \in OpenRows
  BY <1>2 DEF OpenRows, R!Active
<1>6. OpenRows' \subseteq DOMAIN pending /\ OpenRows \subseteq DOMAIN pending
  BY DEF OpenRows
<1>7. OpenRows' = IF r.id \in OpenRows' THEN OpenRows ELSE OpenRows \ {r.id}
  BY <1>4, <1>5, <1>6
<1>8. \A i \in DOMAIN pending : pending'[i].code = pending[i].code
  OBVIOUS
<1>9. \A i \in DOMAIN pending \ {r.id} : pending[i].code # r.code
  BY <1>3 DEF GuessesCount
<1>10. r.code \in OpenCodes
  BY <1>3, <1>4 DEF OpenCodes
<1>11. OpenCodes' = {pending[i].code : i \in OpenRows'}
  BY <1>6, <1>8 DEF OpenCodes
<1>12. OpenCodes \ {r.code} = {pending[i].code : i \in OpenRows \ {r.id}}
  BY <1>3, <1>6, <1>9 DEF OpenCodes
<1>13. CASE r.id \in OpenRows'
  BY <1>7, <1>10, <1>11, <1>13 DEF OpenCodes
<1>14. CASE r.id \notin OpenRows'
  BY <1>7, <1>10, <1>11, <1>12, <1>14
<1> QED
  BY <1>13, <1>14

LEMMA RegistrationPromiseInit == R!Init => R!Promise!Init
<1> SUFFICES ASSUME R!Init PROVE R!Promise!Init
  OBVIOUS
<1>1. DOMAIN pending = {} /\ DOMAIN texted = {}
  BY DEF R!Init
<1> QED
  BY <1>1 DEF R!Init, R!Promise!Init

LEMMA RegistrationPromiseKept ==
    RegistrationInv /\ SingleInv /\ [R!Next]_R!vars => (single' => RegistrationPromiseStep)
<1> SUFFICES ASSUME RegistrationInv, SingleInv, [R!Next]_R!vars, single' PROVE RegistrationPromiseStep
  OBVIOUS
<1>1. ASSUME NEW q \in Requests, NEW id \in RegistrationIds, NEW name \in Usernames,
             NEW n \in Numbers, NEW c \in Codes,
             R!RequestBegin(q, id, name, n, c)
      PROVE  RegistrationPromiseStep
  <2> DEFINE base == R!Reading("request", id, name, n, c)
             r == [base EXCEPT !.at = now, !.drop = R!Rivals(name, n)]
  <2>1. R!Begin(q, r) /\ UNCHANGED <<now, pending, texted, guessed, used>>
    BY <1>1 DEF R!RequestBegin
  <2>2. r.op = "request"
    BY DEF R!Reading
  <2> HIDE DEF r
  <2> QED
    BY <2>1, <2>2, RegistrationBeginLapses
<1>2. ASSUME NEW q \in Requests, NEW id \in RegistrationIds, NEW c \in Codes, R!ResendBegin(q, id, c)
      PROVE  RegistrationPromiseStep
  <2> DEFINE base == R!Reading("resend", id, pending[id].name, pending[id].number, c)
             r == [base EXCEPT !.at = now]
  <2>1. R!Begin(q, r) /\ UNCHANGED <<now, pending, texted, guessed, used>>
    BY <1>2 DEF R!ResendBegin
  <2>2. r.op = "resend"
    BY DEF R!Reading
  <2> HIDE DEF r
  <2> QED
    BY <2>1, <2>2, RegistrationBeginLapses
<1>3. ASSUME NEW q \in Requests, NEW id \in RegistrationIds, NEW c \in Codes, R!VerifyBegin(q, id, c)
      PROVE  RegistrationPromiseStep
  <2> DEFINE op == IF c = pending[id].code THEN "right" ELSE "wrong"
             r == R!Reading(op, id, pending[id].name, pending[id].number, pending[id].code)
  <2>1. /\ R!Begin(q, r) /\ id \in DOMAIN pending /\ R!Active(id)
        /\ UNCHANGED <<now, pending, texted, guessed, used>>
    BY <1>3 DEF R!VerifyBegin
  <2>2. r.id = id
    BY DEF R!Reading
  <2> HIDE DEF r
  <2> QED
    BY <2>1, <2>2, RegistrationBeginLapses
<1>4. ASSUME NEW q \in Requests, R!RequestCommit(q)
      PROVE  RegistrationPromiseStep
  <2> PICK r : r = work[q]
    OBVIOUS
  <2>1. /\ q \in DOMAIN work /\ r \in WorkRow /\ r.op = "request" /\ r.id \notin DOMAIN pending
        /\ DOMAIN pending' = DOMAIN pending \cup {r.id}
        /\ \A i \in DOMAIN pending : StillOpen(i)
        /\ pending'[r.id].code = r.code
        /\ R!End(q) /\ R!Deliver(r) /\ UNCHANGED <<now, guessed, used>>
    BY <1>4, RequestCommitFacts
  <2>2. single /\ r.code \in Codes \ DOMAIN texted
    BY <2>1 DEF R!End, SingleInv, SingleRequest, StillAsRead, WorkRow
  <2>3. \A i \in OpenRows' : pending'[i].code \in OpenCodes \cup {r.code}
    <3>1. OpenRows' \subseteq DOMAIN pending \cup {r.id}
      BY <2>1 DEF OpenRows
    <3> QED
      BY <2>1, <3>1, RegistrationEndChecked, RegistrationLiveBefore
  <2>4. OpenCodes' \subseteq OpenCodes \cup {r.code}
    BY <2>3 DEF OpenCodes
  <2>5. DOMAIN texted' = DOMAIN texted \cup {r.code}
    BY <2>1, DeliverFacts
  <2> QED
    BY <2>1, <2>2, <2>4, <2>5, RegistrationStepSends
<1>5. ASSUME NEW q \in Requests, R!ResendCommit(q)
      PROVE  RegistrationPromiseStep
  <2> PICK r : r = work[q]
    OBVIOUS
  <2>1. /\ q \in DOMAIN work /\ r \in WorkRow /\ r.op = "resend" /\ r.id \in DOMAIN pending
        /\ DOMAIN pending' = DOMAIN pending
        /\ \A i \in DOMAIN pending \ {r.id} : StillOpen(i)
        /\ pending'[r.id].code = r.code
        /\ R!End(q) /\ R!Deliver(r) /\ UNCHANGED <<now, guessed, used>>
    BY <1>5, ResendCommitFacts
  <2>2. single /\ r.code \in Codes \ DOMAIN texted
    BY <2>1 DEF R!End, SingleInv, SingleRequest, StillAsRead, WorkRow
  <2>3. \A i \in OpenRows' : pending'[i].code \in OpenCodes \cup {r.code}
    <3>1. OpenRows' \subseteq DOMAIN pending
      BY <2>1 DEF OpenRows
    <3> QED
      BY <2>1, <3>1, RegistrationEndChecked, RegistrationLiveBefore
  <2>4. OpenCodes' \subseteq OpenCodes \cup {r.code}
    BY <2>3 DEF OpenCodes
  <2>5. DOMAIN texted' = DOMAIN texted \cup {r.code}
    BY <2>1, DeliverFacts
  <2> QED
    BY <2>1, <2>2, <2>4, <2>5, RegistrationStepSends
<1>6. ASSUME NEW q \in Requests, R!GuessCommit(q)
      PROVE  RegistrationPromiseStep
  <2> PICK r : r = work[q]
    OBVIOUS
  <2>1. /\ q \in DOMAIN work /\ r \in WorkRow /\ r.op = "wrong" /\ r.id \in DOMAIN pending
        /\ r.code \in DOMAIN texted /\ DOMAIN pending' = DOMAIN pending
        /\ \A i \in DOMAIN pending \ {r.id} : pending'[i] = pending[i]
        /\ pending'[r.id].code = pending[r.id].code /\ pending'[r.id].expires = pending[r.id].expires
        /\ ~pending'[r.id].consumed => r.tries + 1 < MaxTries
        /\ guessed' = [guessed EXCEPT ![r.code] = @ + 1]
        /\ R!End(q) /\ UNCHANGED <<now, texted, used>>
    BY <1>6, RegistrationGuessCommitFacts
  <2>2. single /\ SingleRequest /\ GuessesCount
    BY <2>1 DEF R!End, SingleInv
  <2>3. /\ r.code \in OpenCodes
        /\ OpenCodes' = IF r.id \in OpenRows' THEN OpenCodes ELSE OpenCodes \ {r.code}
    BY <2>1, <2>2, RegistrationOneRowChecked
  <2>4. ASSUME r.id \in OpenRows' PROVE guessed'[r.code] < MaxTries
    <3>1. ~pending'[r.id].consumed
      BY <2>4 DEF OpenRows, R!Active
    <3>2. ~pending[r.id].consumed /\ pending[r.id].code = r.code /\ pending[r.id].tries = r.tries
      BY <2>1, <2>2 DEF SingleRequest, StillAsRead
    <3>3. guessed[r.code] <= r.tries
      BY <2>1, <2>2, <3>2 DEF GuessesCount
    <3>4. guessed \in [Codes -> Nat] /\ r.code \in Codes /\ r.tries \in Nat
      BY <2>1, SettingsOK DEF RegistrationInv, TextedOK, WorkRow, Settings
    <3>5. guessed'[r.code] = guessed[r.code] + 1 /\ guessed[r.code] \in Nat
      BY <2>1, <3>4
    <3> QED
      BY <2>1, <3>1, <3>3, <3>4, <3>5, SettingsOK DEF Settings
  <2>5. r.code \in Codes
    BY <2>1 DEF WorkRow
  <2> QED
    BY <2>1, <2>3, <2>4, <2>5, RegistrationStepGuesses
<1>7. ASSUME NEW q \in Requests, R!AcceptCommit(q)
      PROVE  RegistrationPromiseStep
  <2> PICK r : r = work[q]
    OBVIOUS
  <2>1. /\ q \in DOMAIN work /\ r \in WorkRow /\ r.op = "right" /\ r.id \in DOMAIN pending
        /\ DOMAIN pending' = DOMAIN pending
        /\ \A i \in DOMAIN pending \ {r.id} : pending'[i] = pending[i]
        /\ pending'[r.id].consumed /\ pending'[r.id].code = pending[r.id].code
        /\ used' = used \cup {r.code}
        /\ R!End(q) /\ UNCHANGED <<now, texted, guessed>>
    BY <1>7, RegistrationAcceptCommitFacts
  <2>2. single /\ SingleRequest /\ GuessesCount
    BY <2>1 DEF R!End, SingleInv
  <2>3. /\ r.code \in OpenCodes
        /\ OpenCodes' = IF r.id \in OpenRows' THEN OpenCodes ELSE OpenCodes \ {r.code}
    BY <2>1, <2>2, RegistrationOneRowChecked
  <2>4. r.id \notin OpenRows'
    BY <2>1 DEF OpenRows, R!Active
  <2>5. r.code \in Codes
    BY <2>1 DEF WorkRow
  <2> QED
    BY <2>1, <2>3, <2>4, <2>5, RegistrationStepAccepts
<1>8. ASSUME NEW q \in Requests, R!Fail(q)
      PROVE  RegistrationPromiseStep
  <2>1. R!End(q) /\ UNCHANGED <<now, pending, texted, guessed, used>>
    BY <1>8 DEF R!Fail
  <2>2. OpenRows' \subseteq OpenRows
    BY <2>1, RegistrationEndChecked DEF OpenRows, R!Active
  <2>3. OpenCodes' \subseteq OpenCodes
    BY <2>1, <2>2 DEF OpenCodes
  <2> QED
    BY <2>1, <2>3, RegistrationStepLapses
<1>9. ASSUME UNCHANGED <<now, pending, work, texted, guessed, used>> PROVE RegistrationPromiseStep
  <2>1. OpenCodes' = OpenCodes
    BY <1>9 DEF OpenCodes, OpenRows, R!Active, R!Checked
  <2> QED
    BY <1>9, <2>1, RegistrationStepLapses
<1>10. ASSUME NEW name \in Usernames, NEW n \in Numbers \cup {NoNumber}, NEW byInviter \in BOOLEAN,
              R!CreateDirectly(name, n, byInviter)
       PROVE  RegistrationPromiseStep
  BY <1>9, <1>10 DEF R!CreateDirectly
<1>11. CASE R!Tick
  <2>1. now' = now + 1 /\ UNCHANGED <<pending, work, texted, guessed, used>>
    BY <1>11 DEF R!Tick
  <2>2. now \in Int /\ \A i \in DOMAIN pending : pending[i].expires \in Int
    BY SettingsOK DEF RegistrationInv, TextedOK, PendingOK, RegistrationRow, Settings
  <2>3. OpenRows' \subseteq OpenRows
    BY <2>1, <2>2 DEF OpenRows, R!Active, R!Checked
  <2>4. OpenCodes' \subseteq OpenCodes
    BY <2>1, <2>3 DEF OpenCodes
  <2> QED
    BY <2>1, <2>4, RegistrationStepLapses
<1>12. CASE UNCHANGED R!vars
  BY <1>9, <1>12 DEF R!vars
<1> QED
  BY <1>1, <1>2, <1>3, <1>4, <1>5, <1>6, <1>7, <1>8, <1>10, <1>11, <1>12 DEF R!Next

\* Registrations keep the promise of OneTimeCodes as long as requests come one at a time:
\* initial states map to initial states, and every step to a step or to none.
THEOREM RegistrationKeepsPromise == R!Spec => RegisteringKeepsPromise
<1>1. R!Spec => [](RegistrationInv /\ SingleInv)
  BY RegistrationInvInit, RegistrationInvStep, SingleInvInit, SingleInvStep, PTL DEF R!Spec
<1>2. RegistrationInv /\ SingleInv /\ [R!Next]_R!vars
        => [single' => R!Promise!Next \/ UNCHANGED R!Promise!vars]_R!vars
  BY RegistrationPromiseKept DEF RegistrationPromiseStep
<1> QED
  BY <1>1, <1>2, RegistrationPromiseInit, PTL DEF R!Spec, RegisteringKeepsPromise, R!KeepsPromise

-----------------------------------------------------------------------------
\* Side by side each part goes by its own specification, so that all that is proved of
\* either holds of both together: the clock is the one thing they share, and a tick of
\* it is a step of both.
THEOREM PartsSideBySide == VerificationSpec => Spec /\ R!Spec
<1>1. [PhoneNext \/ RegistrationNext]_<<vars, registrationVars>> => [Next]_vars
  <2>1. ASSUME PhoneNext PROVE [Next]_vars
    BY <2>1 DEF PhoneNext
  <2>2. ASSUME RegistrationNext PROVE [Next]_vars
    <3>1. R!Next /\ UNCHANGED phoneVars
      BY <2>2 DEF RegistrationNext
    <3>2. CASE R!Tick
      BY <3>1, <3>2 DEF R!Tick, Tick, Next, phoneVars
    <3>3. CASE UNCHANGED now
      BY <3>1, <3>3 DEF phoneVars, vars
    <3> QED
      BY <3>1, <3>2, <3>3 DEF R!Next, R!CreateDirectly, R!RequestCommit, R!ResendCommit, R!GuessCommit,
         R!AcceptCommit, R!Fail, R!RequestBegin, R!ResendBegin, R!VerifyBegin
  <2> QED
    BY <2>1, <2>2 DEF vars
<1>2. [PhoneNext \/ RegistrationNext]_<<vars, registrationVars>> => [R!Next]_R!vars
  <2>1. ASSUME RegistrationNext PROVE [R!Next]_R!vars
    BY <2>1 DEF RegistrationNext
  <2>2. ASSUME PhoneNext PROVE [R!Next]_R!vars
    <3>1. Next /\ UNCHANGED registrationVars
      BY <2>2 DEF PhoneNext
    <3>2. CASE Tick
      BY <3>1, <3>2 DEF R!Tick, Tick, R!Next, registrationVars
    <3>3. CASE UNCHANGED now
      BY <3>1, <3>3 DEF registrationVars, R!vars
    <3>4. \A q, u, n, c : SendBegin(q, u, n, c) => UNCHANGED now
      BY DEF SendBegin
    <3>5. \A q, u, n, c : VerifyBegin(q, u, n, c) => UNCHANGED now
      BY DEF VerifyBegin
    <3>6. \A q, u, n, v : EditBegin(q, u, n, v) => UNCHANGED now
      BY DEF EditBegin
    <3>7. \A q : SendGather(q) \/ SendCommit(q) \/ GuessCommit(q) \/ AcceptCommit(q) \/ EditCommit(q) \/ Fail(q)
                => UNCHANGED now
      BY DEF SendGather, SendCommit, GuessCommit, AcceptCommit, EditCommit, Fail
    <3> QED
      BY <3>1, <3>2, <3>3, <3>4, <3>5, <3>6, <3>7, Zenon DEF Next
  <2> QED
    BY <2>1, <2>2 DEF R!vars, vars, registrationVars
<1> QED
  BY <1>1, <1>2, PTL DEF VerificationSpec, VerificationInit, Spec, R!Spec

=============================================================================
