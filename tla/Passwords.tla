------------------------------ MODULE Passwords ------------------------------
(***************************************************************************)
(* The ways to a password, side by side: the codes and reset tokens of     *)
(* PasswordReset, and the password and sessions of Sessions.  That a reset *)
(* token works is all that one needs to know of the other, and Sessions    *)
(* lets it be true at any time; beyond that they read different tables, so *)
(* that nothing comes of their interleavings.                              *)
(***************************************************************************)
EXTENDS PasswordReset

CONSTANTS Sessions, NoSession, MaxVersion

ASSUME NoSessionAssumption == NoSession \notin Sessions
ASSUME MaxVersionAssumption == MaxVersion \in Nat

VARIABLES password, invited, resettable, session, lastReset,
          work,    \* the requests of Sessions under way
          single   \* history: they have come one at a time so far
sessionVars == <<password, invited, resettable, session, work, single, lastReset>>

S == INSTANCE Sessions WITH req <- work, alone <- single

PasswordsInit == Init /\ S!Init

ResetNext == Next /\ UNCHANGED sessionVars

SessionsNext == S!Next /\ UNCHANGED vars

PasswordsSpec == PasswordsInit /\ [][ResetNext \/ SessionsNext]_<<vars, sessionVars>>

-----------------------------------------------------------------------------
\* A session from before the last reset has raced with it.
SurvivorsHaveRaced == S!SurvivorsHaveRaced

\* As long as requests come one at a time, a refresh token is exchanged once.
RefreshedOnce == S!RefreshedOnce

=============================================================================
