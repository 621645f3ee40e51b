---------------------------- MODULE Verification ----------------------------
(***************************************************************************)
(* The two ways in which a code sent by SMS makes a phone number count as  *)
(* verified, side by side: PhoneVerification, for users there are, and     *)
(* Registration, for accounts there will be.  Their codes are in different *)
(* tables, and both go by one clock.                                       *)
(*                                                                         *)
(* Both look up numbers in table users.  A number that one of them has     *)
(* given to a user only forbids steps of the other, and this is left out:  *)
(* what holds of every sequence of steps of a part holds without them.     *)
(***************************************************************************)
EXTENDS PhoneVerification

CONSTANTS Usernames,
          RegistrationIds,  \* the ids of registrations
          NoId              \* an account that was created without one

ASSUME NoIdAssumption == NoId \notin RegistrationIds

VARIABLES account,
          pending,   \* table pending_registrations
          work,      \* the requests of Registration under way,
          single,    \* and the histories it keeps
          texted, guessed, used

phoneVars == <<phone, verified, row, req, alone, sent, wrong, accepted, trusted, crossed, edits>>
registrationVars == <<account, pending, work, single, texted, guessed, used>>

R == INSTANCE Registration WITH
         Ids <- RegistrationIds, row <- pending, req <- work, alone <- single,
         sent <- texted, wrong <- guessed, accepted <- used

VerificationInit == Init /\ R!Init

PhoneNext == Next /\ UNCHANGED registrationVars

RegistrationNext == R!Next /\ UNCHANGED phoneVars

\* The clock is read by both: its steps are in either.
VerificationSpec ==
    VerificationInit /\ [][PhoneNext \/ RegistrationNext]_<<vars, registrationVars>>

-----------------------------------------------------------------------------
\* Properties.

\* A registration that has made an account is closed, whatever resends and guesses
\* had read it before.
UsedIsClosed == R!UsedIsClosed

\* As long as requests come one at a time, open registrations compete for no username
\* or number.
OpenAreDisjoint == R!OpenAreDisjoint

\* As long as requests come one at a time, registrations keep what OneTimeCodes
\* promises.
RegisteringKeepsPromise == R!KeepsPromise

=============================================================================
