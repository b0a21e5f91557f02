\* Two statements of one series, two payments, two clerks who allocate them.
SPECIFICATION Spec
CONSTANTS
    None = None
    Charges <- MCCharges
    Row <- MCRow
    Amount <- MCAmount
    Period <- MCPeriod
    NumPayments = 2
    Money <- MCMoney
    Clerks = {k1, k2}
    Callable = {"get_draft_lines_for_transactions", "get_sent_entries_for_transactions",
                "get_payment_allocations", "toggle_draft_line_inclusion",
                "allocate_payment", "fifo_allocate_payment"}
    MaxDrafts = 2
    MaxEdits = 2
    MaxCalls = 2
    LastDay = 1
INVARIANTS
    TypeOK
    AllocationsFit
    NothingOwedIsDropped
    DraftsCanBeSent
    SentOnce
PROPERTIES
    PaidStaysPaid
SYMMETRY MCClerks
CHECK_DEADLOCK FALSE
