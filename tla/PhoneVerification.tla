------------------------- MODULE PhoneVerification -------------------------
(***************************************************************************)
(* Verifying a phone number with a code sent by SMS                        *)
(* (_request_phone_verification_for_user and _verify_phone_number_for_user *)
(* in app/services/auth_service.py), beside the administrators' form that *)
(* sets the same columns (update_user in app/services/admin_service.py).   *)
(*                                                                         *)
(* A handler reads rows, works for a while (it hashes, or sends the SMS),  *)
(* and commits; it locks nothing.  What it commits is what it computed     *)
(* from its reads, but only the columns it changed: SQLAlchemy leaves a    *)
(* column out of the UPDATE when the new value is the one that was read.   *)
(***************************************************************************)
EXTENDS Integers, FiniteSets, FiniteSetsExt

CONSTANTS Users, Numbers,
          Codes,      \* the codes that are drawn: no two are taken to be equal
          NoNumber,   \* phone_number is NULL
          NoCode,     \* for requests that have no code
          Requests,   \* as many as there may be at a time
          TTL, Cooldown, MaxSends, MaxTries,  \* the phone_verification_* settings
          MaxRows,    \* bound on the number of rows
          MaxEdits,   \* bound on the number of edits by administrators
          MaxTime     \* bound on the clock

ASSUME SettingsAssumption == {TTL, Cooldown, MaxSends, MaxTries} \subseteq Nat \ {0}
ASSUME BoundsAssumption == {MaxRows, MaxEdits, MaxTime} \subseteq Nat

VARIABLES now,
          phone,     \* users.phone_number
          verified,  \* users.is_phone_verified
          row,       \* table phone_verification_codes
          req,       \* the requests under way
          alone,     \* history: requests have come one at a time so far
          sent,      \* history: per code drawn, the user and the number it is for
          wrong,     \* history: per code, the wrong guesses compared with it
          accepted,  \* history: the codes that were entered correctly
          trusted,   \* history: the users and numbers that count as verified on
                     \* somebody's word, without a code entered here
          crossed,   \* history: the users of whom an administrator's edit has
                     \* overlapped with a verification or another edit
          edits      \* how many such edits there have been

vars == <<now, phone, verified, row, req, alone, sent, wrong, accepted, trusted, crossed, edits>>

Ids == 1..MaxRows   \* in the order of created_at

Init == /\ now = 0
        \* accounts come without a number, with one that waits for its code (those an
        \* inviter has created), or with one that counts as verified from the start
        \* (register_user asks for no code)
        /\ phone \in [Users -> Numbers \cup {NoNumber}]
        /\ \A u, v \in Users : u # v => phone[u] # phone[v] \/ phone[u] = NoNumber
        /\ verified \in [Users -> BOOLEAN]
        /\ \A u \in Users : verified[u] => phone[u] # NoNumber
        /\ row = <<>>
        /\ req = <<>>
        /\ alone = TRUE
        /\ sent = <<>>
        /\ wrong = [c \in Codes |-> 0]
        /\ accepted = {}
        /\ trusted = {<<u, phone[u]>> : u \in {v \in Users : verified[v]}}
        /\ crossed = {}
        /\ edits = 0

-----------------------------------------------------------------------------
\* The row's code would be accepted.
Active(i) == ~row[i].consumed /\ row[i].expires > now
ActiveRows(u) == {i \in DOMAIN row : row[i].user = u /\ Active(i)}

\* _ensure_phone_number_is_available, and the unique key on users.phone_number.
Available(n, u) == \A v \in Users \ {u} : phone[v] # n

Drawn == DOMAIN sent \cup {req[q].code : q \in DOMAIN req}

\* A request begins; it ends.
Begin(q, r) == /\ q \in Requests \ DOMAIN req
               /\ req' = [p \in DOMAIN req \cup {q} |-> IF p = q THEN r ELSE req[p]]
               /\ alone' = (alone /\ req = <<>>)
End(q) == /\ req' = [p \in DOMAIN req \ {q} |-> req[p]]
          /\ UNCHANGED alone

\* Active rows that the code in row id replaces: the latest one if it is not
\* reused, and _invalidate_other_active_phone_verifications.
Replaced(u, id) == ActiveRows(u) \ {id}

\* A request under way: what it is for, and what it has read of the row.
Reading(op, id, u, n, c) ==
    [op |-> op, id |-> id, user |-> u, number |-> n, code |-> c,
     sends |-> IF id \in DOMAIN row THEN row[id].sends ELSE 0,
     tries |-> IF id \in DOMAIN row THEN row[id].tries ELSE 0,
     at |-> 0, had |-> NoNumber, was |-> FALSE, drop |-> {}]

-----------------------------------------------------------------------------
\* _request_phone_verification_for_user.

\* Mutant: the active row takes the new code whatever its number is.
ReusableAnyway(i, n) == TRUE

\* The active row takes the new code if it is for the same number.
Reusable(i, n) == row[i].number = n

\* The checks; `drop` is the active row for another number.  The id of a new row
\* follows those of all rows there are or will be.
SendBegin(q, u, n, c) ==
    /\ ~(phone[u] = n /\ verified[u])
    /\ Available(n, u)
    /\ c \in Codes \ Drawn
    /\ LET latest == Max(ActiveRows(u))
           reuse == ActiveRows(u) # {} /\ Reusable(latest, n)
           id == IF reuse THEN latest
                 ELSE 1 + Max({0} \cup DOMAIN row \cup {req[p].id : p \in DOMAIN req})
       IN /\ id \in Ids
          /\ reuse => row[id].sent + Cooldown <= now /\ row[id].sends < MaxSends
          /\ Begin(q, [Reading("send", id, u, n, c) EXCEPT !.at = now, !.drop = {i \in Replaced(u, id) : i = latest}])
    /\ UNCHANGED <<now, phone, verified, row, sent, wrong, accepted, trusted, crossed, edits>>

\* _invalidate_other_active_phone_verifications, before the SMS.
SendGather(q) ==
    /\ q \in DOMAIN req /\ req[q].op = "send"
    /\ req' = [req EXCEPT ![q].op = "sending", ![q].drop = @ \cup Replaced(req[q].user, req[q].id)]
    /\ UNCHANGED <<now, phone, verified, row, alone, sent, wrong, accepted, trusted, crossed, edits>>

\* Mutant: the commit makes the reused row valid again.
ResentReviving(r, q) ==
    [r EXCEPT !.code = q.code, !.expires = q.at + TTL, !.sent = q.at, !.sends = q.sends + 1,
              !.tries = IF q.tries = 0 THEN @ ELSE 0, !.consumed = FALSE]

\* The columns the request has changed: not consumed_at, which it read and set as
\* NULL, and not verify_attempts if that was 0.
Resent(r, q) ==
    [r EXCEPT !.code = q.code, !.expires = q.at + TTL, !.sent = q.at, !.sends = q.sends + 1,
              !.tries = IF q.tries = 0 THEN @ ELSE 0]

FirstSent(q) ==
    [user |-> q.user, number |-> q.number, code |-> q.code, expires |-> q.at + TTL, sent |-> q.at,
     sends |-> 1, tries |-> 0, consumed |-> FALSE]

\* The commit after the SMS has been accepted for delivery.
\* Row i after the rows in `drop` have been consumed.
Closed(i, drop) == [row[i] EXCEPT !.consumed = @ \/ i \in drop]

SendCommit(q) ==
    /\ q \in DOMAIN req /\ req[q].op = "sending"
    /\ LET r == req[q]
       IN /\ row' = [i \in DOMAIN row \cup {r.id} |->
                        IF i # r.id THEN Closed(i, r.drop)
                        ELSE IF i \in DOMAIN row THEN Resent(row[i], r) ELSE FirstSent(r)]
          /\ sent' = [d \in DOMAIN sent \cup {r.code} |->
                        IF d = r.code THEN <<r.user, r.number>> ELSE sent[d]]
    /\ End(q)
    /\ UNCHANGED <<now, phone, verified, wrong, accepted, trusted, crossed, edits>>

-----------------------------------------------------------------------------
\* _verify_phone_number_for_user.

\* The checks; `ok` is the outcome of comparing the codes.
VerifyBegin(q, u, n, c) ==
    /\ \E i \in DOMAIN row : row[i].user = u /\ row[i].number = n
    /\ LET id == Max({i \in DOMAIN row : row[i].user = u /\ row[i].number = n})
           ok == c = row[id].code
       IN /\ Active(id)
          /\ row[id].tries < MaxTries
          /\ ok => Available(n, u)
          /\ Begin(q, [Reading(IF ok THEN "right" ELSE "wrong", id, u, n, row[id].code)
                         EXCEPT !.had = phone[u], !.was = verified[u]])
    /\ UNCHANGED <<now, phone, verified, row, sent, wrong, accepted, trusted, crossed, edits>>

\* Mutant: the last wrong guess leaves the row alive.
MissedForgiving(r, q) == [r EXCEPT !.tries = q.tries + 1]

\* A wrong guess is counted from the number read; the last one consumes the row.
Missed(r, q) == [r EXCEPT !.tries = q.tries + 1, !.consumed = @ \/ q.tries + 1 >= MaxTries]

GuessCommit(q) ==
    /\ q \in DOMAIN req /\ req[q].op = "wrong"
    /\ row' = [row EXCEPT ![req[q].id] = Missed(@, req[q])]
    /\ wrong' = [wrong EXCEPT ![req[q].code] = @ + 1]
    /\ End(q)
    /\ UNCHANGED <<now, phone, verified, sent, accepted, trusted, crossed, edits>>

\* Number and flag are written where they differ from what was read.  The unique
\* key refuses a number that another user has got in the meantime.
SetPhone(r, isVerified) ==
    /\ phone' = [phone EXCEPT ![r.user] = IF r.number = r.had THEN @ ELSE r.number]
    /\ verified' = [verified EXCEPT ![r.user] = IF isVerified = r.was THEN @ ELSE isVerified]
    /\ phone'[r.user] # NoNumber => Available(phone'[r.user], r.user)

\* What an administrator does to a user: the flag is set, or cleared (also because
\* the number is removed), or only the number is changed.
EditOps == {"declare", "doubt", "renumber"}

\* Other requests of these kinds for the same user are under way.
Crossed(q, ops) ==
    crossed' = crossed \cup {req[p].user : p \in {o \in DOMAIN req \ {q} :
                                  req[o].op \in ops /\ req[o].user = req[q].user}}

AcceptCommit(q) ==
    /\ q \in DOMAIN req /\ req[q].op = "right"
    /\ SetPhone(req[q], TRUE)
    /\ row' = [row EXCEPT ![req[q].id].consumed = TRUE]
    /\ accepted' = accepted \cup {req[q].code}
    /\ Crossed(q, EditOps)
    /\ End(q)
    /\ UNCHANGED <<now, sent, wrong, trusted, edits>>

-----------------------------------------------------------------------------
\* update_user of an administrator, with number n (none if it is removed, the one
\* there is if only the flag is sent).  A number that is removed takes the flag with
\* it; if another is entered, the flag is left as it was.
EditBegin(q, u, n, op) ==
    /\ edits < MaxEdits /\ edits' = edits + 1
    /\ n = NoNumber => op = "doubt"
    /\ op = "renumber" => n # phone[u]
    /\ n # NoNumber => Available(n, u)
    /\ Begin(q, [Reading(op, 0, u, n, NoCode) EXCEPT !.had = phone[u], !.was = verified[u]])
    /\ UNCHANGED <<now, phone, verified, row, sent, wrong, accepted, trusted, crossed>>

\* The flag of the user once the edit r is made, going by what it has read.
FlagAfter(r) == IF r.op = "renumber" THEN r.was ELSE r.op = "declare"

\* The user counts as verified on the administrator's word if the flag is set then.
EditCommit(q) ==
    /\ q \in DOMAIN req /\ req[q].op \in EditOps
    /\ SetPhone(req[q], FlagAfter(req[q]))
    /\ trusted' = IF FlagAfter(req[q]) THEN trusted \cup {<<req[q].user, req[q].number>>} ELSE trusted
    /\ Crossed(q, EditOps \cup {"right"})
    /\ End(q)
    /\ UNCHANGED <<now, row, sent, wrong, accepted, edits>>

\* The SMS service refuses, the unique key does, or the process dies.
Fail(q) ==
    /\ q \in DOMAIN req
    /\ End(q)
    /\ UNCHANGED <<now, phone, verified, row, sent, wrong, accepted, trusted, crossed, edits>>

Tick ==
    /\ now < MaxTime
    /\ now' = now + 1
    /\ UNCHANGED <<phone, verified, row, req, alone, sent, wrong, accepted, trusted, crossed, edits>>

Next ==
    \/ Tick
    \/ \E q \in Requests :
          \/ SendGather(q) \/ SendCommit(q) \/ GuessCommit(q) \/ AcceptCommit(q) \/ EditCommit(q) \/ Fail(q)
          \/ \E u \in Users, n \in Numbers \cup {NoNumber}, op \in EditOps : EditBegin(q, u, n, op)
          \/ \E u \in Users, n \in Numbers, c \in Codes : SendBegin(q, u, n, c) \/ VerifyBegin(q, u, n, c)

Spec == Init /\ [][Next]_vars

-----------------------------------------------------------------------------
\* Properties.

PhoneVerificationCode ==
    [user : Users, number : Numbers, code : Codes, expires : TTL..MaxTime + TTL,
     sent : 0..MaxTime, sends : 1..MaxSends, tries : 0..MaxTries, consumed : BOOLEAN]

TypeOK ==
    /\ now \in 0..MaxTime
    /\ phone \in [Users -> Numbers \cup {NoNumber}]
    /\ \A u, v \in Users : u # v => phone[u] # phone[v] \/ phone[u] = NoNumber
    /\ verified \in [Users -> BOOLEAN]
    /\ DOMAIN row \subseteq Ids
    /\ \A i \in DOMAIN row : row[i] \in PhoneVerificationCode
    /\ DOMAIN req \subseteq Requests
    /\ \A q \in DOMAIN req :
          req[q] \in [op : {"send", "sending", "right", "wrong"} \cup EditOps, id : {0} \cup Ids,
                      user : Users, number : Numbers \cup {NoNumber}, code : Codes \cup {NoCode}, at : 0..now,
                      had : Numbers \cup {NoNumber}, was : BOOLEAN, drop : SUBSET Ids,
                      sends : 0..MaxSends, tries : 0..MaxTries]
    /\ alone \in BOOLEAN
    /\ DOMAIN sent \subseteq Codes
    /\ \A c \in DOMAIN sent : sent[c] \in Users \X Numbers
    /\ wrong \in [Codes -> Nat]
    /\ accepted \subseteq DOMAIN sent
    /\ trusted \subseteq Users \X Numbers
    /\ crossed \subseteq Users
    /\ edits \in 0..MaxEdits

\* A verification makes a number count as verified only for a user who has entered
\* a code that was sent to this number on his behalf, however rows are reused for new
\* codes and requests for several numbers overlap.  What else counts as verified does
\* so on somebody's word: the account came with the number, or an administrator has
\* declared it verified, or has entered it for a user who counted as verified with
\* another.  The exception are edits by an administrator while a verification, or
\* another edit, of the same user is under way.
VerifiedWasReceived ==
    \A u \in Users : verified[u] /\ u \notin crossed =>
        \/ \E c \in accepted : sent[c] = <<u, phone[u]>>
        \/ <<u, phone[u]>> \in trusted

\* No row is brought back once it is consumed, not even by a resend that had read
\* it before and that sets consumed_at to NULL.
ConsumedForGood ==
    [][\A i \in DOMAIN row : row[i].consumed => row'[i].consumed]_vars

\* As long as requests come one at a time, the rows keep what OneTimeCodes promises:
\* a code that was replaced by a later one, or had MaxTries wrong guesses, or was
\* accepted, is never accepted again.  A comparison counts from when it was made.
Checked == {req[q].id : q \in {p \in DOMAIN req : req[p].op \in {"right", "wrong"}}}
Promise ==
    INSTANCE OneTimeCodes WITH
        unsent <- Codes \ DOMAIN sent,
        live <- {row[i].code : i \in {j \in DOMAIN row : Active(j) \/ (j \in Checked /\ ~row[j].consumed)}}
KeepsPromise ==
    /\ Promise!Init
    /\ [][alone' => Promise!Next \/ UNCHANGED Promise!vars]_vars

=============================================================================
