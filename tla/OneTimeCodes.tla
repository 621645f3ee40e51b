---------------------------- MODULE OneTimeCodes ----------------------------
(***************************************************************************)
(* What a service that sends one-time codes promises: a code counts from   *)
(* its delivery until it is accepted, guessed wrong too often, or lapses   *)
(* (expires, or is replaced by a later one), and never again.              *)
(* PhoneVerification, Registration and PasswordReset implement this.       *)
(***************************************************************************)
EXTENDS Naturals

CONSTANTS Codes,    \* all codes ever drawn: no two are taken to be equal
          MaxTries  \* wrong guesses a code survives, plus one

VARIABLES unsent,   \* codes not drawn yet
          live,     \* codes that would be accepted
          wrong,    \* per code: the wrong guesses it has survived or died of
          accepted  \* codes that have been accepted

vars == <<unsent, live, wrong, accepted>>

Init == /\ unsent = Codes
        /\ live = {}
        /\ wrong = [c \in Codes |-> 0]
        /\ accepted = {}

\* A code is sent.  Those in `old` lapse: the codes it replaces, and even c itself
\* if the delivery took longer than its lifetime.
Send(c, old) == /\ c \in unsent
                /\ unsent' = unsent \ {c}
                /\ live' = (live \cup {c}) \ old
                /\ UNCHANGED <<wrong, accepted>>

Lapse(old) == /\ old # {}
              /\ live' = live \ old
              /\ UNCHANGED <<unsent, wrong, accepted>>

\* A wrong guess: the last one kills the code, and any may be its last moment.
GuessWrong(c) == /\ c \in live
                 /\ wrong' = [wrong EXCEPT ![c] = @ + 1]
                 /\ \/ live' = live /\ wrong'[c] < MaxTries
                    \/ live' = live \ {c}
                 /\ UNCHANGED <<unsent, accepted>>

Accept(c) == /\ c \in live
             /\ live' = live \ {c}
             /\ accepted' = accepted \cup {c}
             /\ UNCHANGED <<unsent, wrong>>

Next == \/ \E old \in SUBSET live : Lapse(old)
        \/ \E c \in Codes : \/ GuessWrong(c) \/ Accept(c)
                            \/ \E old \in SUBSET (live \cup {c}) : Send(c, old)

Spec == Init /\ [][Next]_vars

=============================================================================
