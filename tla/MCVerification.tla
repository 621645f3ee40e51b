--------------------------- MODULE MCVerification ---------------------------
(***************************************************************************)
(* Values for checking Verification.  The parts move in separate runs: in  *)
(* PhoneSpec there are no registrations, in RegistrationSpec no users that *)
(* verify a number.                                                        *)
(***************************************************************************)
EXTENDS Verification, TLC

(* Numbers there are at first count as verified.  Others are a step away:  *)
(* an administrator's edit enters one that does not.                       *)
PhoneInit == VerificationInit /\ \A u \in Users : phone[u] # NoNumber => verified[u]

PhoneSpec == PhoneInit /\ [][PhoneNext]_<<vars, registrationVars>>

RegistrationSpec == VerificationInit /\ [][RegistrationNext]_<<vars, registrationVars>>

PhoneSymmetry == Permutations(Users) \cup Permutations(Numbers) \cup Permutations(Codes)
                 \cup Permutations(Requests)

RegistrationSymmetry == Permutations(Usernames) \cup Permutations(Numbers) \cup Permutations(Codes)
                        \cup Permutations(RegistrationIds) \cup Permutations(Requests)

=============================================================================
