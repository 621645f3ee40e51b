------------------------------ MODULE Sessions ------------------------------
(***************************************************************************)
(* The password and the refresh tokens of one account (login_user,         *)
(* refresh_tokens, change_password, complete_invited_account and           *)
(* confirm_password_reset in app/services/auth_service.py).                *)
(*                                                                         *)
(* A handler reads, works for a while (it hashes a password), and commits  *)
(* what it computed from its reads, without locks.  Access tokens expire   *)
(* by themselves and are left out; that refresh tokens expire only means   *)
(* that they are not presented any more.  When a reset token works is the  *)
(* matter of PasswordReset: here one may come, or lapse, at any time.      *)
(***************************************************************************)
EXTENDS Integers, FiniteSets, FiniteSetsExt

CONSTANTS Sessions,    \* the ids of refresh tokens
          NoSession,   \* none of them: a session begun with a password comes from it
          Requests,    \* as many as there may be at a time
          MaxVersion   \* bound on the number of passwords

VARIABLES password,   \* users.password_hash: passwords are numbered as they come
          invited,    \* whether there is an open row in invited_account_tokens
          resettable, \* whether there is a row with a reset token that works
          session,    \* table refresh_tokens; history: the password a session
                      \* goes back to, the session it was refreshed from, and
                      \* the last reset that raced with one of these steps
          req,        \* the requests under way
          alone,      \* history: requests have come one at a time so far
          lastReset   \* history: the password set by the last reset

vars == <<password, invited, resettable, session, req, alone, lastReset>>

Init == /\ password = 0
        /\ invited \in BOOLEAN
        /\ resettable = FALSE
        /\ session = <<>>
        /\ req = <<>>
        /\ alone = TRUE
        /\ lastReset = 0

-----------------------------------------------------------------------------
LiveSessions == {s \in DOMAIN session : ~session[s].revoked}

\* A request and what it has read; `known` and `raced` are history.
Reading(op, s, version) == [op |-> op, session |-> s, version |-> version,
                            ends |-> {}, known |-> {}, raced |-> 0]

Begin(q, r) == /\ q \in Requests \ DOMAIN req
               /\ req' = [p \in DOMAIN req \cup {q} |-> IF p = q THEN r ELSE req[p]]
               /\ alone' = (alone /\ req = <<>>)
End(q) == /\ req' = [p \in DOMAIN req \ {q} |-> req[p]]
          /\ UNCHANGED alone

Pending(q, op) == q \in DOMAIN req /\ req[q].op = op

\* _issue_tokens: a new refresh token.
Issue(s, version, from, raced, table) ==
    /\ s \in Sessions \ DOMAIN session
    /\ session' = [t \in DOMAIN table \cup {s} |->
                     IF t = s THEN [revoked |-> FALSE, version |-> version, from |-> from, raced |-> raced]
                     ELSE table[t]]

Revoked(ended) == [t \in DOMAIN session |-> IF t \in ended THEN [session[t] EXCEPT !.revoked = TRUE]
                                            ELSE session[t]]

\* The next password.
SetPassword == /\ password < MaxVersion
               /\ password' = password + 1

-----------------------------------------------------------------------------
\* login_user with the right password.
LoginBegin(q) ==
    /\ Begin(q, Reading("login", NoSession, password))
    /\ UNCHANGED <<password, invited, resettable, session, lastReset>>

LoginCommit(q, s) ==
    /\ Pending(q, "login")
    /\ Issue(s, req[q].version, NoSession, req[q].raced, session)
    /\ End(q)
    /\ UNCHANGED <<password, invited, resettable, lastReset>>

\* Mutant: any refresh token on record is taken.
RefreshableAny(s) == s \in DOMAIN session

Refreshable(s) == s \in LiveSessions

\* refresh_tokens.
RefreshBegin(q, s) ==
    /\ Refreshable(s)
    /\ Begin(q, Reading("refresh", s, session[s].version))
    /\ UNCHANGED <<password, invited, resettable, session, lastReset>>

RefreshCommit(q, s) ==
    /\ Pending(q, "refresh")
    /\ LET old == req[q].session
       IN Issue(s, req[q].version, old, Max({req[q].raced, session[old].raced}), Revoked({old}))
    /\ End(q)
    /\ UNCHANGED <<password, invited, resettable, lastReset>>

-----------------------------------------------------------------------------
\* change_password with the right current one leaves all sessions as they are.
ChangeBegin(q) ==
    /\ Begin(q, Reading("change", NoSession, password))
    /\ UNCHANGED <<password, invited, resettable, session, lastReset>>

ChangeCommit(q) ==
    /\ Pending(q, "change")
    /\ SetPassword
    /\ End(q)
    /\ UNCHANGED <<invited, resettable, session, lastReset>>

\* complete_invited_account with the link that came by SMS.
CompleteBegin(q) ==
    /\ invited
    /\ Begin(q, Reading("complete", NoSession, password))
    /\ UNCHANGED <<password, invited, resettable, session, lastReset>>

CompleteCommit(q, s) ==
    /\ Pending(q, "complete")
    /\ SetPassword
    /\ invited' = FALSE
    /\ Issue(s, password', NoSession, req[q].raced, session)
    /\ End(q)
    /\ UNCHANGED <<resettable, lastReset>>

\* An invitation to another group comes with another link; a link, or a reset token,
\* is issued or lapses.
OpenOrLapse ==
    /\ \/ invited' = ~invited /\ UNCHANGED resettable
       \/ resettable' = ~resettable /\ UNCHANGED invited
    /\ UNCHANGED <<password, session, req, alone, lastReset>>

-----------------------------------------------------------------------------
\* confirm_password_reset: the checks, the query for live sessions, the commit.
ConfirmBegin(q) ==
    /\ resettable
    /\ Begin(q, Reading("confirm", NoSession, password))
    /\ UNCHANGED <<password, invited, resettable, session, lastReset>>

\* Mutant: only the sessions of the current password end.
EndedByPassword == {s \in LiveSessions : session[s].version = password}

Ended == LiveSessions

ConfirmGather(q) ==
    /\ Pending(q, "confirm")
    /\ req' = [req EXCEPT ![q] = [@ EXCEPT !.op = "gathered", !.ends = Ended, !.known = DOMAIN session]]
    /\ UNCHANGED <<password, invited, resettable, session, alone, lastReset>>

\* Sessions begun since the query, and those whose request is still under way,
\* have raced with the reset.
ConfirmCommit(q, s) ==
    /\ Pending(q, "gathered")
    /\ SetPassword
    /\ resettable' = FALSE
    /\ Issue(s, password', NoSession, 0,
             [t \in DOMAIN session |->
                [Revoked(req[q].ends)[t] EXCEPT !.raced = IF t \in req[q].known THEN @ ELSE password']])
    /\ req' = [p \in DOMAIN req \ {q} |-> [req[p] EXCEPT !.raced = password']]
    /\ lastReset' = password'
    /\ UNCHANGED <<invited, alone>>

-----------------------------------------------------------------------------
\* The process dies before the commit.
Fail(q) ==
    /\ q \in DOMAIN req
    /\ End(q)
    /\ UNCHANGED <<password, invited, resettable, session, lastReset>>

Next ==
    \/ OpenOrLapse
    \/ \E q \in Requests :
          \/ LoginBegin(q) \/ ChangeBegin(q) \/ CompleteBegin(q) \/ ConfirmBegin(q)
          \/ ChangeCommit(q) \/ ConfirmGather(q) \/ Fail(q)
          \/ \E s \in Sessions :
                \/ LoginCommit(q, s) \/ CompleteCommit(q, s) \/ ConfirmCommit(q, s)
                \/ RefreshBegin(q, s) \/ RefreshCommit(q, s)

Spec == Init /\ [][Next]_vars

-----------------------------------------------------------------------------
\* Properties.

\* The rows and requests are of their kinds, and no session is older than what it goes
\* back to: its password has been set, and what it was refreshed from is over.
TypeOK ==
    /\ password \in 0..MaxVersion
    /\ invited \in BOOLEAN
    /\ resettable \in BOOLEAN
    /\ DOMAIN session \subseteq Sessions
    /\ \A s \in DOMAIN session :
          session[s] \in [revoked : BOOLEAN, version : 0..password,
                          from : DOMAIN session \cup {NoSession}, raced : 0..lastReset]
    /\ \A s \in DOMAIN session : session[s].from # NoSession => session[s].from \notin LiveSessions
    /\ DOMAIN req \subseteq Requests
    /\ \A q \in DOMAIN req :
          req[q] \in [op : {"login", "refresh", "change", "complete", "confirm", "gathered"},
                      session : Sessions \cup {NoSession}, version : 0..password,
                      ends : SUBSET Sessions, known : SUBSET Sessions, raced : 0..lastReset]
    /\ alone \in BOOLEAN
    /\ lastReset \in 0..password

\* A reset ends every session that goes back to an earlier password, also through
\* any number of refreshes and password changes.  What remains has raced with
\* that very reset: its request was under way at the commit, or was committed between
\* the query for live sessions and the commit.
SurvivorsHaveRaced ==
    \A s \in LiveSessions : session[s].version < lastReset => session[s].raced = lastReset

\* As long as requests come one at a time, a refresh token is exchanged once: no two
\* sessions go back to the same one.
RefreshedOnce ==
    alone => \A s, t \in DOMAIN session :
                s # t => session[s].from # session[t].from \/ session[s].from = NoSession

=============================================================================
