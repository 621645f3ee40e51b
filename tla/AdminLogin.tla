----------------------------- MODULE AdminLogin -----------------------------
(***************************************************************************)
(* Logins to the admin panel and the limiter of failed ones                *)
(* (app/services/admin_service.py).                                        *)
(*                                                                         *)
(* The limiter is an object of the process, so each replica has its own,   *)
(* and counts per address and name: a counter here is one such key in one  *)
(* process.  A login asks the limiter, compares name and password outside  *)
(* its lock, and reports back; other logins may do the same meanwhile.     *)
(*                                                                         *)
(* Time is what is left: an attempt is the number of minutes it will still *)
(* count, a lock the number of minutes it will still last.                 *)
(***************************************************************************)
EXTENDS Naturals, Sequences, FiniteSets

CONSTANTS Counters,
          Requests,     \* logins that may be under way at a time
          NoRequest,
          MaxAttempts,  \* admin_panel_rate_limit_attempts
          Window,       \* admin_panel_rate_limit_window_minutes
          Lockout       \* admin_panel_rate_limit_lockout_minutes

ASSUME AttemptsArePositive == MaxAttempts \in Nat \ {0}
ASSUME RequestsAreFinite == IsFiniteSet(Requests)
ASSUME NoRequestIsNone == NoRequest \notin Counters
ASSUME LockoutOutlastsWindow == Window \in Nat /\ Lockout \in Nat /\ Lockout > Window

VARIABLES attempts,     \* minutes left, of each failed attempt that counts
          locked,       \* minutes left of the lock
          req           \* the counter a login has asked, while it compares

vars == <<attempts, locked, req>>
----------------------------------------------------------------------------
(* An attempt counts in the minute it is made and for Window more.         *)
TypeOK ==
  /\ attempts \in [Counters -> Seq(1 .. Window + 1)]
  /\ locked \in [Counters -> 0 .. Lockout]
  /\ req \in [Requests -> Counters \cup {NoRequest}]

Init ==
  /\ attempts = [c \in Counters |-> <<>>]
  /\ locked = [c \in Counters |-> 0]
  /\ req = [r \in Requests |-> NoRequest]
----------------------------------------------------------------------------
\* Mutant: a login that is refused counts as a failure.
RefusedCounts(c) ==
  /\ attempts' = [attempts EXCEPT ![c] = <<Window + 1>>]
  /\ locked' = [locked EXCEPT ![c] = Lockout]

(* What being refused changes. *)
Refused(c) == UNCHANGED <<attempts, locked>>

(* check_allowed: while locked, a login is refused, and nothing is counted. *)
CheckAllowed(r, c) ==
  /\ req[r] = NoRequest
  /\ IF locked[c] > 0 THEN Refused(c) /\ UNCHANGED req
     ELSE /\ req' = [req EXCEPT ![r] = c]
          /\ UNCHANGED <<attempts, locked>>

\* Mutant: one more attempt is allowed for than is configured.
LimitPassed(n) == n > MaxAttempts

LimitReached(n) == n >= MaxAttempts

(* register_failure. *)
RegisterFailure(r) ==
  LET c == req[r] IN
  /\ c # NoRequest
  /\ attempts' = [attempts EXCEPT ![c] = Append(@, Window + 1)]
  /\ locked' = [locked EXCEPT ![c] = IF LimitReached(Len(attempts'[c])) THEN Lockout ELSE @]
  /\ req' = [req EXCEPT ![r] = NoRequest]

(* register_success forgets the counter, a lock included. *)
RegisterSuccess(r) ==
  LET c == req[r] IN
  /\ c # NoRequest
  /\ attempts' = [attempts EXCEPT ![c] = <<>>]
  /\ locked' = [locked EXCEPT ![c] = 0]
  /\ req' = [req EXCEPT ![r] = NoRequest]

(* The process dies; logins under way end without an answer. *)
Restart(c) ==
  /\ attempts' = [attempts EXCEPT ![c] = <<>>]
  /\ locked' = [locked EXCEPT ![c] = 0]
  /\ req' = [r \in Requests |-> IF req[r] = c THEN NoRequest ELSE req[r]]

LockLeft(c) == IF locked[c] = 0 THEN 0 ELSE locked[c] - 1

(* What is left of the attempts, without those that count no more.  They   *)
(* are in the order they were made in: the oldest lapse first.             *)
AttemptsLeft(c) ==
  LET lapsed == Cardinality({i \in DOMAIN attempts[c] : attempts[c][i] = 1})
  IN  [i \in 1 .. Len(attempts[c]) - lapsed |-> attempts[c][lapsed + i] - 1]

(* A minute passes. *)
Tick ==
  /\ attempts' = [c \in Counters |-> AttemptsLeft(c)]
  /\ locked' = [c \in Counters |-> LockLeft(c)]
  /\ UNCHANGED req

(* authenticate_admin, once the limiter has let it pass: name and password *)
(* are wrong or right.                                                     *)
Compare(r) == RegisterFailure(r) \/ RegisterSuccess(r)

Next ==
  \/ \E r \in Requests : \/ \E c \in Counters : CheckAllowed(r, c)
                         \/ Compare(r)
  \/ \E c \in Counters : Restart(c)
  \/ Tick

(* Time passes.  Nothing else is owed: logins come or do not.              *)
Spec == Init /\ [][Next]_vars /\ WF_vars(Tick)
----------------------------------------------------------------------------
(* Logins that overlap pass the check together, so that more may fail than *)
(* are allowed: by as many as can be under way beside the last, and per    *)
(* process, because each has its own counters.                             *)
GuessesAreBounded ==
  \A c \in Counters :
    Len(attempts[c]) + Cardinality({r \in Requests : req[r] = c})
      <= MaxAttempts - 1 + Cardinality(Requests)

(* A lock ends, however many logins are tried meanwhile: those the limiter *)
(* refuses do not prolong it.                                              *)
LockEnds == \A c \in Counters : locked[c] > 0 ~> locked[c] = 0
=============================================================================
