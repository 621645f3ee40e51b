------------------------------- MODULE Ledger -------------------------------
(***************************************************************************)
(* Expenses, settlements and balances of one group                         *)
(* (app/services/crud_service.py).  Amounts are integers of the minor      *)
(* currency unit.                                                          *)
(*                                                                         *)
(* A request names payers with amounts and shares with an amount and a     *)
(* weight each.  An amount of 0 and an absent payer are not told apart.    *)
(* The order in which shares are listed matters in one place only, the tie *)
(* between equal heaviest weights, and there it is any order: a client     *)
(* lists them as it likes, and an update that keeps the stored shares gets *)
(* them from a query without ORDER BY.                                     *)
(*                                                                         *)
(* Who is an active member is decided by Groups.  All rows are taken to be *)
(* active from the start (a row nobody has used yet has balance zero); they *)
(* are removed one by one or with the group, and a removed user returns as *)
(* a new row.                                                              *)
(***************************************************************************)
EXTENDS Transfers

CONSTANTS Members,      \* ids of member rows, compared as numbers
          Expenses,     \* ids of expenses
          Settlements,  \* ids of settlements
          SplitTypes,   \* the split types in use
          MaxAmount,    \* bound on total amounts and settlements
          MaxPayers,    \* bound on the number of payers of an expense
          MaxWeight     \* bound on weights (integers: only their ratios matter)

ASSUME MembersAssumption == Members \subseteq Nat /\ IsFiniteSet(Members)
ASSUME SplitTypesAssumption == SplitTypes \subseteq {"EQUAL", "EXACT", "SHARE"}
ASSUME BoundsAssumption == {MaxAmount, MaxPayers, MaxWeight} \subseteq Nat

VARIABLES group_deleted,  \* whether the group has deleted_at set
          active,      \* the live ACTIVE rows of table members
          expense,     \* table expenses with its payers and shares
          settlement   \* table settlements

vars == <<group_deleted, active, expense, settlement>>

Init == /\ group_deleted = FALSE
        /\ active = Members
        /\ expense = <<>>
        /\ settlement = <<>>

Nobody == [m \in Members |-> 0]
Positive(f) == {m \in Members : f[m] > 0}

-----------------------------------------------------------------------------
\* Splitting a total.  `who` is the set of members listed in the shares.

\* Mutant: the remainder of an equal split is dropped.
EqualSharesFloor(total, who) ==
    [m \in Members |-> IF m \in who THEN total \div Cardinality(who) ELSE 0]

\* _normalize_equal_shares: the remainder goes to the smallest ids.
EqualShares(total, who) ==
    LET n == Cardinality(who)
        rank(m) == Cardinality({k \in who : k < m})
    IN [m \in Members |-> IF m \notin who THEN 0
                          ELSE total \div n + (IF rank(m) < total % n THEN 1 ELSE 0)]

\* floor(total * w / W + 0.5)
RoundHalfUp(total, w, W) == (2 * total * w + W) \div (2 * W)

Heaviest(weight, who) == {m \in who : \A k \in who : weight[k] <= weight[m]}

\* The weighted split with `diff`, what rounding has left over or taken too much,
\* given to member h.
RoundedShares(total, weight, h) ==
    LET W == SumFunction(weight)
        raw == [m \in Members |-> RoundHalfUp(total, weight[m], W)]
    IN [raw EXCEPT ![h] = @ + total - SumFunction(raw)]

\* Mutant: any listed member may get what is left over.
WeightedSharesAnyone(total, who, weight) ==
    {s \in {RoundedShares(total, weight, h) : h \in who} : \A m \in Members : s[m] >= 0}

\* The SHARE branch of _validate_expense_payload: the leftover goes to one
\* heaviest member.  Where that takes his share below zero, building the
\* ExpenseParticipantAmount (amount >= 0) raises, and the request fails.
WeightedShares(total, who, weight) ==
    {s \in {RoundedShares(total, weight, h) : h \in Heaviest(weight, who)} :
        \A m \in Members : s[m] >= 0}

\* The shares that may be stored for a request.
NormalizedShares(total, split, who, amount, weight) ==
    CASE split = "EQUAL" -> {EqualShares(total, who)}
      [] split = "SHARE" -> WeightedShares(total, who, weight)
      [] split = "EXACT" -> {amount}

\* _validate_expense_payload and _validate_members_in_group, for the payers and
\* for the shares.
ValidPayers(total, paid) ==
    /\ total > 0
    /\ SumFunction(paid) = total
    /\ \A m \in Members : paid[m] >= 0
    /\ Positive(paid) \subseteq active

ValidShares(total, split, who, amount, weight) ==
    /\ who # {} /\ who \subseteq active
    /\ \A m \in Members : amount[m] >= 0
    /\ split = "SHARE" => SumFunction(weight) > 0
    /\ split = "EXACT" => SumFunction(amount) = total

\* Mutant: weights are not stored.
StoredUnweighted(total, split, paid, who, weight, owed, del) ==
    [total |-> total, split |-> split, paid |-> paid, who |-> who, owed |-> owed,
     weight |-> Nobody, deleted |-> del]

\* The row stored for a request: EQUAL stores no weights, the others keep them.
Stored(total, split, paid, who, weight, owed, del) ==
    [total |-> total, split |-> split, paid |-> paid, who |-> who, owed |-> owed,
     weight |-> IF split = "EQUAL" THEN Nobody ELSE weight, deleted |-> del]

\* The payers and shares a client may send; whether they add up is for the
\* server to find out.  Only the column its split type reads is filled in.
Payers == {p \in [Members -> 0..MaxAmount] : Cardinality(Positive(p)) <= MaxPayers}
Amounts(split, who) ==
    IF split = "EXACT" THEN {a \in [Members -> 0..MaxAmount] : Positive(a) \subseteq who} ELSE {Nobody}
Weights(split, who) ==
    IF split = "SHARE" THEN {w \in [Members -> 0..MaxWeight] : Positive(w) \subseteq who} ELSE {Nobody}

-----------------------------------------------------------------------------
\* The group and its members, seen from here.

\* A member can be removed whatever his balance is.
RemoveMember(m) ==
    /\ m \in active
    /\ active' = active \ {m}
    /\ UNCHANGED <<group_deleted, expense, settlement>>

AllDeleted(table) == [i \in DOMAIN table |-> [table[i] EXCEPT !.deleted = TRUE]]

Uses(m) == \/ \E e \in DOMAIN expense : m \in expense[e].who \cup Positive(expense[e].paid)
           \/ \E s \in DOMAIN settlement : m \in {settlement[s].from, settlement[s].to}

\* soft_delete_group: everything in the group goes with it.  The rows that remain
\* active are those no handler has inserted yet: healing will.
SoftDeleteGroup ==
    /\ group_deleted' = TRUE
    /\ active' = {m \in active : ~Uses(m)}
    /\ expense' = AllDeleted(expense)
    /\ settlement' = AllDeleted(settlement)

\* A deletion by PATCH or through sync: the group's own row only.
TombstoneGroup ==
    /\ group_deleted' = TRUE
    /\ UNCHANGED <<active, expense, settlement>>

-----------------------------------------------------------------------------
\* Expenses.

Put(table, id, row) ==
    [i \in DOMAIN table \cup {id} |-> IF i = id THEN row ELSE table[i]]

CreateExpense(e, total, split, paid) ==
    /\ e \notin DOMAIN expense
    /\ ~group_deleted
    /\ ValidPayers(total, paid)
    /\ \E who \in SUBSET Members : \E amount \in Amounts(split, who), weight \in Weights(split, who) :
          /\ ValidShares(total, split, who, amount, weight)
          /\ \E owed \in NormalizedShares(total, split, who, amount, weight) :
                expense' = Put(expense, e, Stored(total, split, paid, who, weight, owed, FALSE))
    /\ UNCHANGED <<group_deleted, active, settlement>>

\* update_expense: what the request leaves out is taken from the stored row, and
\* the merged expense is validated and split again, also for a new title only.
Rewrite(e, total, split, paid, who, amount, weight, del) ==
    /\ ValidShares(total, split, who, amount, weight)
    /\ \E owed \in NormalizedShares(total, split, who, amount, weight) :
          expense' = [expense EXCEPT ![e] =
                        Stored(total, split, paid, who, weight, owed, @.deleted \/ del)]
    /\ UNCHANGED <<group_deleted, active, settlement>>

\* The request leaves the shares out, or has new ones.
UpdateExpense(e, total, split, paid, del) ==
    /\ e \in DOMAIN expense
    /\ ValidPayers(total, paid)
    /\ \/ Rewrite(e, total, split, paid, expense[e].who, expense[e].owed, expense[e].weight, del)
       \/ \E who \in SUBSET Members :
             \E amount \in Amounts(split, who), weight \in Weights(split, who) :
                Rewrite(e, total, split, paid, who, amount, weight, del)

SoftDeleteExpense(e) ==
    /\ e \in DOMAIN expense
    /\ expense' = [expense EXCEPT ![e].deleted = TRUE]
    /\ UNCHANGED <<group_deleted, active, settlement>>

-----------------------------------------------------------------------------
\* Settlements.

\* _validate_settlement.
ValidSettlement(from, to, amount) ==
    /\ amount > 0
    /\ from # to
    /\ {from, to} \subseteq active

CreateSettlement(s, from, to, amount) ==
    /\ s \notin DOMAIN settlement
    /\ ~group_deleted
    /\ ValidSettlement(from, to, amount)
    /\ settlement' = Put(settlement, s, [from |-> from, to |-> to, amount |-> amount, deleted |-> FALSE])
    /\ UNCHANGED <<group_deleted, active, expense>>

UpdateSettlement(s, from, to, amount, del) ==
    /\ s \in DOMAIN settlement
    /\ ValidSettlement(from, to, amount)
    /\ settlement' = [settlement EXCEPT ![s] = [from |-> from, to |-> to, amount |-> amount,
                                                deleted |-> @.deleted \/ del]]
    /\ UNCHANGED <<group_deleted, active, expense>>

SoftDeleteSettlement(s) ==
    /\ s \in DOMAIN settlement
    /\ settlement' = [settlement EXCEPT ![s].deleted = TRUE]
    /\ UNCHANGED <<group_deleted, active, expense>>

-----------------------------------------------------------------------------
Next ==
    \/ SoftDeleteGroup
    \/ TombstoneGroup
    \/ \E m \in Members : RemoveMember(m)
    \/ \E e \in Expenses : SoftDeleteExpense(e)
    \/ \E e \in Expenses, total \in 1..MaxAmount, split \in SplitTypes, paid \in Payers :
          \/ CreateExpense(e, total, split, paid)
          \/ \E del \in BOOLEAN : UpdateExpense(e, total, split, paid, del)
    \/ \E s \in Settlements :
          \/ SoftDeleteSettlement(s)
          \/ \E from, to \in Members, amount \in 1..MaxAmount :
                \/ CreateSettlement(s, from, to, amount)
                \/ \E del \in BOOLEAN : UpdateSettlement(s, from, to, amount, del)

Spec == Init /\ [][Next]_vars

-----------------------------------------------------------------------------
\* Balances (calculate_group_balances).

Live(table) == {i \in DOMAIN table : ~table[i].deleted}

\* Mutant: deleted settlements still count.
PaidTotalWithDeleted(m) ==
    SumFunction([e \in Live(expense) |-> expense[e].paid[m]])
    + SumFunction([s \in {s \in DOMAIN settlement : settlement[s].from = m} |-> settlement[s].amount])

PaidTotal(m) ==
    SumFunction([e \in Live(expense) |-> expense[e].paid[m]])
    + SumFunction([s \in {s \in Live(settlement) : settlement[s].from = m} |-> settlement[s].amount])

\* Mutant: a settlement counts as owed by the member who pays it.
OwedTotalOfPayer(m) ==
    SumFunction([e \in Live(expense) |-> expense[e].owed[m]])
    + SumFunction([s \in {s \in Live(settlement) : settlement[s].from = m} |-> settlement[s].amount])

OwedTotal(m) ==
    SumFunction([e \in Live(expense) |-> expense[e].owed[m]])
    + SumFunction([s \in {s \in Live(settlement) : settlement[s].to = m} |-> settlement[s].amount])

NetBalance(m) == PaidTotal(m) - OwedTotal(m)

\* The balances reported: active members only.
Balances == [m \in active |-> NetBalance(m)]

\* The transfers reported.
Suggested == SimplifiedDebts(Balances)

-----------------------------------------------------------------------------
\* Properties.

Row == [total : 1..MaxAmount, split : SplitTypes, paid : [Members -> Int], who : SUBSET Members,
        owed : [Members -> Int], weight : [Members -> 0..MaxWeight], deleted : BOOLEAN]

SettlementRow == [from : Members, to : Members, amount : 1..MaxAmount, deleted : BOOLEAN]

TypeOK ==
    /\ group_deleted \in BOOLEAN
    /\ active \subseteq Members
    /\ DOMAIN expense \subseteq Expenses
    /\ \A e \in DOMAIN expense : expense[e] \in Row
    /\ DOMAIN settlement \subseteq Settlements
    /\ \A s \in DOMAIN settlement :
          /\ settlement[s] \in SettlementRow
          /\ settlement[s].from # settlement[s].to

\* Through every sequence of updates, of all or some fields, what was paid for an
\* expense and what is owed for it are its total: no unit appears or gets lost
\* in rounding, and nobody owes a negative share.
SharesCoverTotal ==
    \A e \in DOMAIN expense : /\ SumFunction(expense[e].paid) = expense[e].total
                              /\ SumFunction(expense[e].owed) = expense[e].total
                              /\ \A m \in Members : expense[e].owed[m] >= 0

\* A stored expense whose members are all still active passes its own
\* validation, and its shares can be computed again: it can be edited.
StoredRowsStayEditable ==
    \A e \in DOMAIN expense :
        LET x == expense[e]
        IN Positive(x.paid) \cup x.who \subseteq active =>
              /\ ValidPayers(x.total, x.paid)
              /\ ValidShares(x.total, x.split, x.who, x.owed, x.weight)
              /\ NormalizedShares(x.total, x.split, x.who, x.owed, x.weight) # {}

\* A split by weights works for every positive total, with what rounding leaves
\* over on a heaviest weight (expense-by-share-design.md:25): the total of a
\* stored expense can be corrected without touching its weights.
AnyTotalCanBeSplit ==
    \A e \in DOMAIN expense, total \in 1..MaxAmount :
        LET x == expense[e]
        IN x.split = "SHARE" => WeightedShares(total, x.who, x.weight) # {}

\* Saving an expense again with nothing changed but its title leaves every share
\* as it is, up to which of several heaviest members carries the leftover.
ResavingKeepsShares ==
    \A e \in DOMAIN expense :
        LET x == expense[e]
        IN \A owed \in NormalizedShares(x.total, x.split, x.who, x.owed, x.weight), m \in Members :
              owed[m] = x.owed[m] \/ (x.split = "SHARE" /\ m \in Heaviest(x.weight, x.who))

Total(transfers) == SumFunction([t \in transfers |-> t.amount])

\* Paying all suggestions settles the group, unless a removed member has left
\* with an open balance; and even then only claims, or only debts, remain.
SettlingUpSettles ==
    LET suggested == Suggested
        rest == [m \in active |-> Balances[m]
                    + Total({t \in suggested : t.from = m})
                    - Total({t \in suggested : t.to = m})]
    IN /\ (\A m \in active : rest[m] >= 0) \/ (\A m \in active : rest[m] <= 0)
       /\ (\A m \in Members \ active : NetBalance(m) = 0) => \A m \in active : rest[m] = 0

Outstanding == SumFunction([m \in {k \in active : NetBalance(k) > 0} |-> NetBalance(m)])

\* Recording one suggested payment as a settlement, whatever else is still open,
\* lowers the credits by its amount and takes nobody further from zero.
PayingASuggestionHelps ==
    [][\A s \in Settlements :
          /\ s \notin DOMAIN settlement /\ s \in DOMAIN settlement'
          /\ \E t \in Suggested : /\ t.from = settlement'[s].from
                                  /\ t.to = settlement'[s].to
                                  /\ t.amount = settlement'[s].amount
          => /\ Outstanding' = Outstanding - settlement'[s].amount
             /\ \A m \in active : Magnitude(NetBalance(m)') <= Magnitude(NetBalance(m))]_vars

=============================================================================
