------------------------------ MODULE MCLedger ------------------------------
(***************************************************************************)
(* Expenses, settlements and balances, and the loop that makes transfers of *)
(* balances: Ledger has its result in closed form, Debts its turns, from all *)
(* balances there may be.  The steps of one are taken while the other is as *)
(* it was at first, and each of the two is explored in full.               *)
(*                                                                         *)
(* Balances do not depend on how an expense was split, so that settlements *)
(* are entered beside equal splits only.  Settlement ids are               *)
(* interchangeable, member ids are ordered and so are not.                 *)
(***************************************************************************)
EXTENDS Ledger

CONSTANTS Debtors, MaxBalance

ASSUME DebtorsAssumption == Debtors \subseteq Nat /\ IsFiniteSet(Debtors)
ASSUME MaxBalanceAssumption == MaxBalance \in Nat

VARIABLES net, creditors, debtors, creditor_index, debtor_index, simplified_debts
loopVars == <<net, creditors, debtors, creditor_index, debtor_index, simplified_debts>>

ThreeMembers == 1..3
FourMembers == 1..4

Equal == INSTANCE Ledger WITH SplitTypes <- {"EQUAL"}

Loop == INSTANCE Debts WITH Members <- Debtors

LedgerNext ==
  /\ net = [m \in Debtors |-> 0]
  /\ UNCHANGED loopVars
  /\ \/ /\ DOMAIN settlement = {}
        /\ Next
        /\ DOMAIN settlement' = {} \/ \A e \in DOMAIN expense : expense[e].split = "EQUAL"
     \/ DOMAIN settlement # {} /\ Equal!Next

NothingEntered ==
  /\ expense = <<>> /\ settlement = <<>>
  /\ active = Members /\ ~group_deleted

LoopNext == NothingEntered /\ Loop!Next /\ UNCHANGED vars

LedgerInit == Init /\ Loop!Init

LedgerSpec == LedgerInit /\ [][LedgerNext \/ LoopNext]_<<vars, loopVars>>

Symmetry == Permutations(Settlements)

(* The loop computes the transfers in Transfers. *)
MatchesOverlap == Loop!MatchesOverlap

(* Every turn of the loop finishes with somebody. *)
EveryTurnFinishesOne == Loop!EveryTurnFinishesOne
=============================================================================
