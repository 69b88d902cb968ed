SPECIFICATION Spec
CONSTANTS
    Accounts = {a1}
    Txns = {t1}
    Procs = {p1}
    Types = {"CREDIT", "DEBIT"}
    Amounts = {2}
    MaxReqs = 2
    NoAccount = NoAccount
SYMMETRY Symmetry
CHECK_DEADLOCK FALSE
INVARIANT
    RollbackLeavesNoPosting
