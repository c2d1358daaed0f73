\* Three web requests of any kind, with one database error or restart.  The
\* requests end, so the system may stop.
CONSTANTS
    Targets = {t0, t1}
    DefaultTarget = t0
    NoRow = NoRow
    Rejected = Rejected
    WebRequests = {w1, w2, w3}
    DaemonRequests = {}
    CommandRequests = {}
    WebOperations <- AllOperations
    Expunging = FALSE
    MaxFailures = 1
    NoOperation = NoOperation
    NoAnswer = NoAnswer
SPECIFICATION Spec
INVARIANTS
    TypeOK
    SearchQueueMatchesRow
    AgenciesAreTold
PROPERTY ImplementsAtomicTable
CHECK_DEADLOCK FALSE
