---------------------------- MODULE Registration ----------------------------
(***************************************************************************)
(* Registering an account with a code sent by SMS (request_register,       *)
(* resend_register_code and verify_register in app/services/               *)
(* auth_service.py), beside the two ways of creating one without a code.   *)
(*                                                                         *)
(* As in PhoneVerification a handler reads, works for a while, and commits *)
(* what it computed from its reads, without locks and only the columns it  *)
(* changed.  The password and the display name travel with the username.   *)
(***************************************************************************)
EXTENDS Integers, FiniteSets

CONSTANTS Usernames, Numbers,
          NoNumber,   \* phone_number is NULL
          Codes,      \* the codes that are drawn: no two are taken to be equal
          Ids,        \* the ids of registrations
          NoId,       \* an account that was created without one
          Requests,   \* as many as there may be at a time
          TTL, Cooldown, MaxSends, MaxTries,  \* the phone_verification_* settings
          MaxTime     \* bound on the clock

VARIABLES now,
          account,   \* table users: per username its number and whether it is
                     \* verified; `by` is history: the row it was registered with
          row,       \* table pending_registrations
          req,       \* the requests under way
          alone,     \* history: requests have come one at a time so far
          sent,      \* history: per code drawn, the username and number it is for
          wrong,     \* history: per code, the wrong guesses compared with it
          accepted   \* history: the codes that were entered correctly

vars == <<now, account, row, req, alone, sent, wrong, accepted>>

Init == /\ now = 0
        /\ account = <<>>
        /\ row = <<>>
        /\ req = <<>>
        /\ alone = TRUE
        /\ sent = <<>>
        /\ wrong = [c \in Codes |-> 0]
        /\ accepted = {}

-----------------------------------------------------------------------------
\* Nobody has the username or the number: what the handlers ask for, and what the
\* unique keys of users enforce at the commit.
IsNew(name, n) ==
    /\ name \notin DOMAIN account
    /\ n # NoNumber => \A a \in DOMAIN account : account[a].number # n

Drawn == DOMAIN sent \cup {req[q].code : q \in DOMAIN req}

\* A request begins; it ends.
Begin(q, r) == /\ q \in Requests \ DOMAIN req
               /\ req' = [p \in DOMAIN req \cup {q} |-> IF p = q THEN r ELSE req[p]]
               /\ alone' = (alone /\ req = <<>>)
End(q) == /\ req' = [p \in DOMAIN req \ {q} |-> req[p]]
          /\ UNCHANGED alone

\* Mutant: only registrations for the same username are replaced.
RivalsByUsername(name, n) == {i \in DOMAIN row : ~row[i].consumed /\ row[i].name = name}

\* The open registrations that a new one replaces.
Rivals(name, n) ==
    {i \in DOMAIN row : ~row[i].consumed /\ (row[i].name = name \/ row[i].number = n)}

\* A request under way: what it is for, and what it has read of the row.
Reading(op, id, name, n, c) ==
    [op |-> op, id |-> id, name |-> name, number |-> n, code |-> c, at |-> 0, drop |-> {},
     sends |-> IF id \in DOMAIN row THEN row[id].sends ELSE 0,
     tries |-> IF id \in DOMAIN row THEN row[id].tries ELSE 0]

CreateAccount(name, n, isVerified, id) ==
    /\ IsNew(name, n)
    /\ account' = [a \in DOMAIN account \cup {name} |->
                     IF a = name THEN [number |-> n, verified |-> isVerified, by |-> id] ELSE account[a]]

-----------------------------------------------------------------------------
\* request_register: always a new row.
RequestBegin(q, id, name, n, c) ==
    /\ IsNew(name, n)
    /\ c \in Codes \ Drawn
    /\ id \in Ids \ (DOMAIN row \cup {req[p].id : p \in DOMAIN req})
    /\ Begin(q, [Reading("request", id, name, n, c) EXCEPT !.at = now, !.drop = Rivals(name, n)])
    /\ UNCHANGED <<now, account, row, sent, wrong, accepted>>

Deliver(r) == sent' = [d \in DOMAIN sent \cup {r.code} |->
                         IF d = r.code THEN <<r.name, r.number>> ELSE sent[d]]

\* Row i after the rows in `drop` have been consumed.
Closed(i, drop) == [row[i] EXCEPT !.consumed = @ \/ i \in drop]

RequestCommit(q) ==
    /\ q \in DOMAIN req /\ req[q].op = "request"
    /\ LET r == req[q]
           new == [name |-> r.name, number |-> r.number, code |-> r.code, expires |-> r.at + TTL,
                   sent |-> r.at, sends |-> 1, tries |-> 0, consumed |-> FALSE]
       IN /\ row' = [i \in DOMAIN row \cup {r.id} |->
                        IF i = r.id THEN new ELSE Closed(i, r.drop)]
          /\ Deliver(r)
    /\ End(q)
    /\ UNCHANGED <<now, account, wrong, accepted>>

\* resend_register_code asks for an open registration, expired or not.
MayResend(i) ==
    /\ ~row[i].consumed
    /\ row[i].sent + Cooldown <= now
    /\ row[i].sends < MaxSends

ResendBegin(q, id, c) ==
    /\ id \in DOMAIN row
    /\ MayResend(id)
    /\ c \in Codes \ Drawn
    /\ Begin(q, [Reading("resend", id, row[id].name, row[id].number, c) EXCEPT !.at = now])
    /\ UNCHANGED <<now, account, row, sent, wrong, accepted>>

\* Mutant: the commit opens the registration again.
ResentReopening(r, q) ==
    [r EXCEPT !.code = q.code, !.expires = q.at + TTL, !.sent = q.at, !.sends = q.sends + 1,
              !.tries = IF q.tries = 0 THEN @ ELSE 0, !.consumed = FALSE]

\* The columns changed: not verify_attempts if 0 was read.
Resent(r, q) ==
    [r EXCEPT !.code = q.code, !.expires = q.at + TTL, !.sent = q.at, !.sends = q.sends + 1,
              !.tries = IF q.tries = 0 THEN @ ELSE 0]

ResendCommit(q) ==
    /\ q \in DOMAIN req /\ req[q].op = "resend"
    /\ row' = [row EXCEPT ![req[q].id] = Resent(@, req[q])]
    /\ Deliver(req[q])
    /\ End(q)
    /\ UNCHANGED <<now, account, wrong, accepted>>

-----------------------------------------------------------------------------
\* verify_register.

Active(i) == ~row[i].consumed /\ row[i].expires > now

\* The checks; the guess c is compared last.
VerifyBegin(q, id, c) ==
    /\ id \in DOMAIN row
    /\ Active(id)
    /\ row[id].tries < MaxTries
    /\ IsNew(row[id].name, row[id].number)
    /\ Begin(q, Reading(IF c = row[id].code THEN "right" ELSE "wrong",
                        id, row[id].name, row[id].number, row[id].code))
    /\ UNCHANGED <<now, account, row, sent, wrong, accepted>>

\* Mutant: the last wrong guess leaves the registration open.
MissedForgiving(r, q) == [r EXCEPT !.tries = q.tries + 1]

\* A wrong guess is counted from the number read; the last one consumes the row.
Missed(r, q) == [r EXCEPT !.tries = q.tries + 1, !.consumed = @ \/ q.tries + 1 >= MaxTries]

GuessCommit(q) ==
    /\ q \in DOMAIN req /\ req[q].op = "wrong"
    /\ row' = [row EXCEPT ![req[q].id] = Missed(@, req[q])]
    /\ wrong' = [wrong EXCEPT ![req[q].code] = @ + 1]
    /\ End(q)
    /\ UNCHANGED <<now, account, sent, accepted>>

\* The unique keys refuse an account that another request has created meanwhile.
AcceptCommit(q) ==
    /\ q \in DOMAIN req /\ req[q].op = "right"
    /\ CreateAccount(req[q].name, req[q].number, TRUE, req[q].id)
    /\ row' = [row EXCEPT ![req[q].id].consumed = TRUE]
    /\ accepted' = accepted \cup {req[q].code}
    /\ End(q)
    /\ UNCHANGED <<now, sent, wrong>>

-----------------------------------------------------------------------------
\* register_user creates an account at once, taking the word of the user for his
\* number; create_user_by_inviter does, too, but leaves the number unverified.
CreateDirectly(name, n, byInviter) ==
    /\ CreateAccount(name, n, ~byInviter /\ n # NoNumber, NoId)
    /\ UNCHANGED <<now, row, req, alone, sent, wrong, accepted>>

\* The SMS service refuses, a unique key does, or the process dies.
Fail(q) ==
    /\ q \in DOMAIN req
    /\ End(q)
    /\ UNCHANGED <<now, account, row, sent, wrong, accepted>>

Tick ==
    /\ now < MaxTime
    /\ now' = now + 1
    /\ UNCHANGED <<account, row, req, alone, sent, wrong, accepted>>

Next ==
    \/ Tick
    \/ \E name \in Usernames, n \in Numbers \cup {NoNumber}, byInviter \in BOOLEAN :
          CreateDirectly(name, n, byInviter)
    \/ \E q \in Requests :
          \/ RequestCommit(q) \/ ResendCommit(q) \/ GuessCommit(q) \/ AcceptCommit(q) \/ Fail(q)
          \/ \E id \in Ids, c \in Codes :
                \/ \E name \in Usernames, n \in Numbers : RequestBegin(q, id, name, n, c)
                \/ ResendBegin(q, id, c) \/ VerifyBegin(q, id, c)

Spec == Init /\ [][Next]_vars

-----------------------------------------------------------------------------
\* Properties.

TypeOK ==
    /\ now \in 0..MaxTime
    /\ DOMAIN account \subseteq Usernames
    /\ \A a \in DOMAIN account :
          account[a] \in [number : Numbers \cup {NoNumber}, verified : BOOLEAN, by : {NoId} \cup DOMAIN row]
    /\ \A a, b \in DOMAIN account :
          a # b => account[a].number # account[b].number \/ account[a].number = NoNumber
    /\ DOMAIN row \subseteq Ids
    /\ \A i \in DOMAIN row :
          row[i] \in [name : Usernames, number : Numbers, code : Codes, expires : TTL..MaxTime + TTL,
                      sent : 0..MaxTime, sends : 1..MaxSends, tries : 0..MaxTries, consumed : BOOLEAN]
    /\ DOMAIN req \subseteq Requests
    /\ \A q \in DOMAIN req :
          req[q] \in [op : {"request", "resend", "right", "wrong"}, id : Ids, name : Usernames,
                      number : Numbers, code : Codes, at : 0..now, drop : SUBSET Ids,
                      sends : 0..MaxSends, tries : 0..MaxTries]
    /\ alone \in BOOLEAN
    /\ DOMAIN sent \subseteq Codes
    /\ \A c \in DOMAIN sent : sent[c] \in Usernames \X Numbers
    /\ wrong \in [Codes -> Nat]
    /\ accepted \subseteq DOMAIN sent

\* A registration that has made an account is closed, whatever resends and guesses
\* had read it before: it cannot be used or sent again.
UsedIsClosed ==
    \A a \in DOMAIN account : account[a].by # NoId => row[account[a].by].consumed

\* As long as requests come one at a time, open registrations compete for no username
\* or number.
OpenAreDisjoint ==
    alone => \A i, j \in DOMAIN row :
                i # j /\ ~row[i].consumed /\ ~row[j].consumed
                => row[i].name # row[j].name /\ row[i].number # row[j].number

\* As long as requests come one at a time, the rows keep what OneTimeCodes promises,
\* as in PhoneVerification.
Checked == {req[q].id : q \in {p \in DOMAIN req : req[p].op \in {"right", "wrong"}}}
Promise ==
    INSTANCE OneTimeCodes WITH
        unsent <- Codes \ DOMAIN sent,
        live <- {row[i].code : i \in {j \in DOMAIN row : Active(j) \/ (j \in Checked /\ ~row[j].consumed)}}
KeepsPromise ==
    /\ Promise!Init
    /\ [][alone' => Promise!Next \/ UNCHANGED Promise!vars]_vars

=============================================================================
