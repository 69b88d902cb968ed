SPECIFICATION Spec
CONSTANTS
    Accounts = {a1, a2}
    Txns = {t1, t2}
    Procs = {p1, p2}
    Types = {"CREDIT", "DEBIT"}
    Amounts = {0, 2}
    MaxReqs = 4
    NoAccount = NoAccount
SYMMETRY Symmetry
CHECK_DEADLOCK FALSE
PROPERTIES
    LooksAtomic
INVARIANTS
    BalanceExact
    BalanceIsLedger
    MetricsFollowBalance
    NeverCountedTwice
    LinkJobsCommitted
