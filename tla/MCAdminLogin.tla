---------------------------- MODULE MCAdminLogin ----------------------------
(***************************************************************************)
(* Two parts that are small and have nothing in common: the login limiter  *)
(* of the admin panel and the push tokens.  The steps of one are taken     *)
(* while the other is as it was at first, and each is explored in full.    *)
(*                                                                         *)
(* Two replicas and three logins at a time; three users of one device,     *)
(* two tokens and two requests at a time.                                  *)
(***************************************************************************)
EXTENDS AdminLogin

CONSTANTS Users, Devices, Tokens, Calls, NoRow

VARIABLES row, job, raced, dismissed
tokenVars == <<row, job, raced, dismissed>>

N == INSTANCE Notifications WITH Requests <- Calls

ASSUME NoRowIsNone == NoRow \notin N!FcmDeviceToken

NoTokens ==
  /\ \A k \in DOMAIN row : row[k] = NoRow
  /\ \A q \in Calls : job[q] = NoRequest

LoginNext == NoTokens /\ Next /\ UNCHANGED tokenVars

NoLogins ==
  /\ \A c \in Counters : attempts[c] = <<>> /\ locked[c] = 0
  /\ \A r \in Requests : req[r] = NoRequest

TokensNext == NoLogins /\ N!Next /\ UNCHANGED vars

BothInit == Init /\ N!Init

BothSpec == BothInit /\ [][LoginNext \/ TokensNext]_<<vars, tokenVars>>
              /\ WF_vars(Tick /\ UNCHANGED tokenVars)

(* A push token is active in one row, unless registrations have raced.     *)
ActiveOnce == N!ActiveOnce

(* A row is inactive only for a reason, unless its registration was        *)
(* disturbed by a request that deactivates.                                *)
SilentForAReason == N!SilentForAReason
=============================================================================
