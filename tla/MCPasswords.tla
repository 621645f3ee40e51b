---------------------------- MODULE MCPasswords ----------------------------
(***************************************************************************)
(* Values for checking Passwords.  The parts move in separate runs: in     *)
(* ResetSpec the sessions stay as they are at first, in SessionsSpec the   *)
(* codes do.                                                               *)
(***************************************************************************)
EXTENDS Passwords, TLC

ResetInit == PasswordsInit /\ ~invited

ResetSpec == ResetInit /\ [][ResetNext]_<<vars, sessionVars>>

SessionsSpec == PasswordsInit /\ [][SessionsNext]_<<vars, sessionVars>>

ResetSymmetry == Permutations(Identifiers) \cup Permutations(Codes) \cup Permutations(ResetTokens)
                 \cup Permutations(Requests)

SessionsSymmetry == Permutations(Sessions) \cup Permutations(Requests)

=============================================================================
