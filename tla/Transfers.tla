------------------------------ MODULE Transfers ------------------------------
(***************************************************************************)
(* What calculate_group_balances (app/services/crud_service.py) suggests   *)
(* its members pay each other, without its loop: lay the credits end to    *)
(* end, and the debts end to end, each in its order; a debtor pays a       *)
(* creditor the length on which their two intervals overlap.  Debts checks *)
(* that the loop computes this; Ledger uses it.                            *)
(*                                                                         *)
(* A balance is a function from member ids (numbers) to integers.          *)
(***************************************************************************)
EXTENDS SequencesExt

\* Creditors by falling amount, debtors by rising amount, ties by id.
Before(balance, a, b) == balance[a] > balance[b] \/ (balance[a] = balance[b] /\ a < b)

\* The i-th id has i - 1 before it.
Sorted(balance, ids) ==
    [i \in 1..Cardinality(ids) |->
        CHOOSE m \in ids : Cardinality({k \in ids : Before(balance, k, m)}) = i - 1]

InCredit(balance) == {m \in DOMAIN balance : balance[m] > 0}
InDebt(balance) == {m \in DOMAIN balance : balance[m] < 0}
SortedCreditors(balance) == Sorted(balance, InCredit(balance))
SortedDebtors(balance) == Sorted(balance, InDebt(balance))

Least(a, b) == IF a < b THEN a ELSE b
Greatest(a, b) == IF a > b THEN a ELSE b

Magnitude(n) == Greatest(n, -n)

\* The sum of the absolute balances of the first i ids of a list.
Prefix(balance, ids, i) == SumFunction([j \in 1..i |-> Magnitude(balance[ids[j]])])

\* What the debtor d-th in line pays the creditor c-th in line.
Overlap(balance, cs, ds, c, d) ==
    Greatest(0, Least(Prefix(balance, cs, c), Prefix(balance, ds, d))
                  - Greatest(Prefix(balance, cs, c - 1), Prefix(balance, ds, d - 1)))

Transfer(balance, cs, ds, c, d) ==
    [from |-> ds[d], to |-> cs[c], amount |-> Overlap(balance, cs, ds, c, d)]

\* The transfers calculate_group_balances suggests.
SimplifiedDebts(balance) ==
    LET cs == SortedCreditors(balance)
        ds == SortedDebtors(balance)
    IN {t \in {Transfer(balance, cs, ds, c, d) : c \in DOMAIN cs, d \in DOMAIN ds} : t.amount > 0}

=============================================================================
