-------------------------------- MODULE Debts --------------------------------
(***************************************************************************)
(* The simplification of debts at the end of calculate_group_balances      *)
(* (app/services/crud_service.py): the creditors, largest first, and the   *)
(* debtors, smallest first, are walked with one index each, and every turn *)
(* of the loop pairs the two current ones off.                             *)
(*                                                                         *)
(* The loop is the state machine below; Transfers defines its result.      *)
(* Balances need not cancel: the balance of a removed member is left out.  *)
(***************************************************************************)
EXTENDS Transfers

CONSTANTS Members,     \* member ids: natural numbers, which order them
          MaxBalance   \* bound on the balances the loop starts from

VARIABLES net,         \* the balance of every active member
          creditors,   \* list of [id, left], as sorted, with what is still to pay
          debtors,
          creditor_index,
          debtor_index,
          simplified_debts  \* the result: transfers in order

vars == <<net, creditors, debtors, creditor_index, debtor_index, simplified_debts>>

-----------------------------------------------------------------------------
Init ==
    /\ net \in [Members -> (-MaxBalance)..MaxBalance]
    /\ LET cs == SortedCreditors(net)
           ds == SortedDebtors(net)
       IN /\ creditors = [i \in DOMAIN cs |-> [id |-> cs[i], left |-> net[cs[i]]]]
          /\ debtors = [i \in DOMAIN ds |-> [id |-> ds[i], left |-> -net[ds[i]]]]
    /\ creditor_index = 1
    /\ debtor_index = 1
    /\ simplified_debts = <<>>

Done == creditor_index > Len(creditors) \/ debtor_index > Len(debtors)

\* Mutant: the debtor pays off his debt even where the credit is smaller.
AmountOfDebt(credit, debt) == debt

Amount(credit, debt) == Least(credit, debt)

\* Mutant: an index moves on only past an overpaid entry.
AdvanceBelowZero(index, left) == IF left < 0 THEN index + 1 ELSE index

\* An index moves on when nothing is left at it.
Advance(index, left) == IF left = 0 THEN index + 1 ELSE index

\* Subtract a transfer from what is left at an index.
PayOff(list, index, amount) == [list EXCEPT ![index].left = @ - amount]

\* One turn of the while loop.
Pair ==
    /\ ~Done
    /\ LET credit == creditors[creditor_index]
           debt == debtors[debtor_index]
           amount == Amount(credit.left, debt.left)
       IN /\ simplified_debts' = Append(simplified_debts, [from |-> debt.id, to |-> credit.id, amount |-> amount])
          /\ creditors' = PayOff(creditors, creditor_index, amount)
          /\ debtors' = PayOff(debtors, debtor_index, amount)
          /\ creditor_index' = Advance(creditor_index, creditors'[creditor_index].left)
          /\ debtor_index' = Advance(debtor_index, debtors'[debtor_index].left)
    /\ UNCHANGED net

Next == Pair

Spec == Init /\ [][Next]_vars

-----------------------------------------------------------------------------
\* Properties.

TypeOK ==
    /\ net \in [Members -> Int]
    /\ creditors \in Seq([id : Members, left : Nat])
    /\ debtors \in Seq([id : Members, left : Nat])
    /\ creditor_index \in 1..(Len(creditors) + 1)
    /\ debtor_index \in 1..(Len(debtors) + 1)
    /\ simplified_debts \in Seq([from : Members, to : Members, amount : Nat])

\* The loop computes the overlaps.
MatchesOverlap == Done => ToSet(simplified_debts) = SimplifiedDebts(net)

\* Every turn finishes with a creditor or a debtor, so the loop ends, after at
\* most one turn per creditor and debtor.
EveryTurnFinishesOne ==
    [][creditor_index' + debtor_index' > creditor_index + debtor_index]_vars

=============================================================================
