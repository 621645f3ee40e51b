SPECIFICATION LedgerSpec
CONSTANTS
    Members <- FourMembers
    Expenses = {e1}
    Settlements = {}
    SplitTypes = {"SHARE"}
    MaxAmount = 2
    MaxPayers = 1
    Debtors <- FourMembers
    MaxBalance = 0
    MaxWeight = 1
INVARIANTS
    AnyTotalCanBeSplit
\* With all members removed nothing can be entered any more.
CHECK_DEADLOCK FALSE
