SPECIFICATION LedgerSpec
CONSTANTS
    Members <- ThreeMembers
    Expenses = {e1}
    Settlements = {s1, s2}
    SplitTypes = {"EQUAL", "EXACT", "SHARE"}
    MaxAmount = 2
    MaxPayers = 1
    Debtors <- FourMembers
    MaxBalance = 4
    MaxWeight = 2
SYMMETRY Symmetry
INVARIANTS
    SharesCoverTotal
    StoredRowsStayEditable
    ResavingKeepsShares
    SettlingUpSettles
    MatchesOverlap
PROPERTIES
    PayingASuggestionHelps
    EveryTurnFinishesOne
\* With all members removed nothing can be entered any more.
CHECK_DEADLOCK FALSE
