--------------------------- MODULE PasswordReset ---------------------------
(***************************************************************************)
(* The codes and reset tokens with which one account is reset              *)
(* (request_password_reset, verify_password_reset and                      *)
(* confirm_password_reset in app/services/auth_service.py).  What the      *)
(* reset does to the password and the sessions is in Sessions.  An account *)
(* without a phone number can be reset by nobody and is left out.          *)
(*                                                                         *)
(* As in PhoneVerification a handler reads, works for a while, and commits *)
(* what it computed from its reads, without locks and only the columns it  *)
(* changed.                                                                *)
(***************************************************************************)
EXTENDS Integers, FiniteSets, FiniteSetsExt

CONSTANTS Identifiers, \* what the account can be asked for by: username, number
          Codes,       \* the codes that are drawn: no two are taken to be equal
          ResetTokens, \* the ids of reset tokens
          NoToken,     \* reset_token_jti is NULL
          Requests,    \* as many as there may be at a time
          TTL, Cooldown, MaxSends, MaxTries,  \* the phone_verification_* settings
          TokenTTL,    \* PASSWORD_RESET_TOKEN_MINUTES
          MaxRows,     \* bound on the number of rows
          MaxTime      \* bound on the clock

ASSUME SettingsAssumption == {TTL, MaxSends, MaxTries, TokenTTL} \subseteq Nat \ {0} /\ Cooldown \in Nat
ASSUME BoundsAssumption == {MaxRows, MaxTime} \subseteq Nat

VARIABLES now,
          row,        \* table password_reset_codes
          req,        \* the requests under way
          alone,      \* history: requests have come one at a time so far
          sent,       \* history: the codes drawn
          wrong,      \* history: per code, the wrong guesses compared with it
          codeOf,     \* history: per reset token issued, the code it was issued for
          confirmed   \* history: the codes whose token has changed the password

vars == <<now, row, req, alone, sent, wrong, codeOf, confirmed>>
history == <<sent, wrong, codeOf, confirmed>>

Ids == 1..MaxRows   \* in the order of created_at

Init == /\ now = 0
        /\ row = <<>>
        /\ req = <<>>
        /\ alone = TRUE
        /\ sent = {}
        /\ wrong = [c \in Codes |-> 0]
        /\ codeOf = <<>>
        /\ confirmed = {}

-----------------------------------------------------------------------------
\* The code, or the reset token, of row i would be accepted.
Active(i) == ~row[i].consumed /\ row[i].expires > now
Confirmable(i) == ~row[i].consumed /\ row[i].token # NoToken /\ row[i].token_expires > now

ActiveRows == {i \in DOMAIN row : Active(i)}

Begin(q, r) == /\ q \in Requests \ DOMAIN req
               /\ req' = [p \in DOMAIN req \cup {q} |-> IF p = q THEN r ELSE req[p]]
               /\ alone' = (alone /\ req = <<>>)
End(q) == /\ req' = [p \in DOMAIN req \ {q} |-> req[p]]
          /\ UNCHANGED alone

\* Mutant: an active row for another identifier stays active.
ReplacedNever(id) == {}

\* Active rows that the code in row id replaces.
Replaced(id) == ActiveRows \ {id}

\* A request under way: what it is about and what it has read (`by` is the identifier
\* the client has sent).
Reading(op, id) ==
    [op |-> op, id |-> id,
     code |-> IF id \in DOMAIN row THEN row[id].code ELSE NoToken,
     token |-> IF id \in DOMAIN row THEN row[id].token ELSE NoToken,
     sends |-> IF id \in DOMAIN row THEN row[id].sends ELSE 0,
     tries |-> IF id \in DOMAIN row THEN row[id].tries ELSE 0,
     by |-> NoToken, at |-> 0, drop |-> {}]

-----------------------------------------------------------------------------
\* request_password_reset.

\* The active row takes the new code if it was asked for by the same identifier, and
\* is dropped otherwise.
SendBegin(q, identifier, c) ==
    /\ c \in Codes \ (sent \cup {req[p].code : p \in DOMAIN req})
    /\ LET latest == Max(ActiveRows)
           reuse == ActiveRows # {} /\ row[latest].identifier = identifier
           id == IF reuse THEN latest
                 ELSE 1 + Max({0} \cup DOMAIN row \cup {req[p].id : p \in DOMAIN req})
       IN /\ id \in Ids
          /\ reuse => row[id].sent + Cooldown <= now /\ row[id].sends < MaxSends
          /\ Begin(q, [Reading("send", id) EXCEPT !.code = c, !.by = identifier, !.at = now,
                                                  !.drop = {i \in Replaced(id) : i = latest}])
    /\ UNCHANGED <<now, row, history>>

\* _invalidate_other_active_password_resets, before the SMS.
SendGather(q) ==
    /\ q \in DOMAIN req /\ req[q].op = "send"
    /\ req' = [req EXCEPT ![q].op = "sending", ![q].drop = @ \cup Replaced(req[q].id)]
    /\ UNCHANGED <<now, row, alone, history>>

\* Mutant: the reset token of the code before stays.
ResentKeepingToken(r, q) ==
    [r EXCEPT !.code = q.code, !.expires = q.at + TTL, !.sent = q.at, !.sends = q.sends + 1,
              !.tries = IF q.tries = 0 THEN @ ELSE 0]

\* The columns changed: consumed_at is NULL again as it was read, and what is NULL
\* or 0 already is not written.
Resent(r, q) ==
    [r EXCEPT !.code = q.code, !.expires = q.at + TTL, !.sent = q.at, !.sends = q.sends + 1,
              !.tries = IF q.tries = 0 THEN @ ELSE 0,
              !.token = IF q.token = NoToken THEN @ ELSE NoToken]

\* Row i after the rows in `drop` have been consumed.
Closed(i, drop) == [row[i] EXCEPT !.consumed = @ \/ i \in drop]

SendCommit(q) ==
    /\ q \in DOMAIN req /\ req[q].op = "sending"
    /\ LET r == req[q]
           new == [identifier |-> r.by, code |-> r.code, expires |-> r.at + TTL, sent |-> r.at,
                   sends |-> 1, tries |-> 0, consumed |-> FALSE, token |-> NoToken, token_expires |-> 0]
       IN /\ row' = [i \in DOMAIN row \cup {r.id} |->
                        IF i # r.id THEN Closed(i, r.drop)
                        ELSE IF i \in DOMAIN row THEN Resent(row[i], r) ELSE new]
          /\ sent' = sent \cup {r.code}
    /\ End(q)
    /\ UNCHANGED <<now, wrong, codeOf, confirmed>>

-----------------------------------------------------------------------------
\* verify_password_reset looks at the latest row, whoever asked for it.
VerifyBegin(q, c) ==
    /\ DOMAIN row # {}
    /\ LET id == Max(DOMAIN row)
       IN /\ Active(id)
          /\ row[id].tries < MaxTries
          /\ Begin(q, Reading(IF c = row[id].code THEN "right" ELSE "wrong", id))
    /\ UNCHANGED <<now, row, history>>

Missed(r, q) == [r EXCEPT !.tries = q.tries + 1, !.consumed = @ \/ q.tries + 1 >= MaxTries]

GuessCommit(q) ==
    /\ q \in DOMAIN req /\ req[q].op = "wrong"
    /\ row' = [row EXCEPT ![req[q].id] = Missed(@, req[q])]
    /\ wrong' = [wrong EXCEPT ![req[q].code] = @ + 1]
    /\ End(q)
    /\ UNCHANGED <<now, sent, codeOf, confirmed>>

\* The right code is not consumed: it is exchanged for a reset token, each time
\* for another one that takes the place of the one before.
ExchangeCommit(q, t) ==
    /\ q \in DOMAIN req /\ req[q].op = "right"
    /\ t \in ResetTokens \ DOMAIN codeOf
    /\ row' = [row EXCEPT ![req[q].id] = [@ EXCEPT !.token = t, !.token_expires = now + TokenTTL]]
    /\ codeOf' = [u \in DOMAIN codeOf \cup {t} |-> IF u = t THEN req[q].code ELSE codeOf[u]]
    /\ End(q)
    /\ UNCHANGED <<now, sent, wrong, confirmed>>

-----------------------------------------------------------------------------
\* confirm_password_reset with the reset token of row i.
ConfirmBegin(q, i) ==
    /\ i \in DOMAIN row
    /\ Confirmable(i)
    /\ Begin(q, Reading("confirm", i))
    /\ UNCHANGED <<now, row, history>>

ConfirmCommit(q) ==
    /\ q \in DOMAIN req /\ req[q].op = "confirm"
    /\ row' = [row EXCEPT ![req[q].id].consumed = TRUE]
    /\ confirmed' = confirmed \cup {codeOf[req[q].token]}
    /\ End(q)
    /\ UNCHANGED <<now, sent, wrong, codeOf>>

-----------------------------------------------------------------------------
\* The SMS service refuses, or the process dies.
Fail(q) ==
    /\ q \in DOMAIN req
    /\ End(q)
    /\ UNCHANGED <<now, row, history>>

Tick ==
    /\ now < MaxTime
    /\ now' = now + 1
    /\ UNCHANGED <<row, req, alone, history>>

Next ==
    \/ Tick
    \/ \E q \in Requests :
          \/ SendGather(q) \/ SendCommit(q) \/ GuessCommit(q) \/ ConfirmCommit(q) \/ Fail(q)
          \/ \E c \in Codes : VerifyBegin(q, c) \/ \E i \in Identifiers : SendBegin(q, i, c)
          \/ \E t \in ResetTokens : ExchangeCommit(q, t)
          \/ \E i \in Ids : ConfirmBegin(q, i)

Spec == Init /\ [][Next]_vars

-----------------------------------------------------------------------------
\* Properties.

PasswordResetCode ==
    [identifier : Identifiers, code : sent, expires : TTL..MaxTime + TTL,
     sent : 0..MaxTime, sends : 1..MaxSends, tries : 0..MaxTries, consumed : BOOLEAN,
     token : DOMAIN codeOf \cup {NoToken}, token_expires : 0..MaxTime + TokenTTL]

RequestRow ==
    [op : {"send", "sending", "right", "wrong", "confirm"}, id : 0..MaxRows,
     code : Codes \cup {NoToken}, token : ResetTokens \cup {NoToken}, sends : 0..MaxSends,
     tries : 0..MaxTries, by : Identifiers \cup {NoToken}, at : 0..now, drop : SUBSET Ids]

TypeOK ==
    /\ now \in 0..MaxTime
    /\ DOMAIN row \subseteq Ids
    /\ \A i \in DOMAIN row : row[i] \in PasswordResetCode
    \* the last wrong guess has consumed its row
    /\ \A i \in DOMAIN row : row[i].tries = MaxTries => row[i].consumed
    /\ DOMAIN req \subseteq Requests
    /\ \A q \in DOMAIN req : req[q] \in RequestRow
    /\ alone \in BOOLEAN
    /\ sent \subseteq Codes
    /\ wrong \in [Codes -> Nat]
    /\ DOMAIN codeOf \subseteq ResetTokens
    /\ \A t \in DOMAIN codeOf : codeOf[t] \in sent
    /\ confirmed \subseteq sent

\* As long as requests come one at a time, two reset tokens work side by side only
\* where the code of the first had expired before the second was asked for:
\* asking for a code closes the rows that are active, and the token outlives
\* its code.
SideBySideAfterExpiry ==
    alone => \A i, j \in DOMAIN row :
                i < j /\ Confirmable(i) /\ Confirmable(j) => row[i].expires <= row[j].sent

\* As long as requests come one at a time, the rows keep what OneTimeCodes promises,
\* where a code is accepted when the token it was exchanged for has changed the
\* password: never after a later code took its place, after MaxTries wrong
\* guesses (before or after the exchange), or a second time.
Checked == {req[q].id : q \in {p \in DOMAIN req : req[p].op \in {"right", "wrong", "confirm"}}}
Promise ==
    INSTANCE OneTimeCodes WITH
        unsent <- Codes \ sent,
        live <- {row[i].code : i \in {j \in DOMAIN row :
                    Active(j) \/ Confirmable(j) \/ (j \in Checked /\ ~row[j].consumed)}},
        accepted <- confirmed
KeepsPromise ==
    /\ Promise!Init
    /\ [][alone' => Promise!Next \/ UNCHANGED Promise!vars]_vars

=============================================================================
