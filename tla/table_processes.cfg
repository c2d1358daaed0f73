\* The same, without an administrator among the requests, next to the Crossref
\* daemon, the expunge daemon and one deletion of the expunge command.
CONSTANTS
    Targets = {t0, t1}
    DefaultTarget = t0
    NoRow = NoRow
    Rejected = Rejected
    WebRequests = {w1, w2, w3}
    DaemonRequests = {d1}
    CommandRequests = {c1}
    WebOperations <- OwnersOperations
    Expunging = TRUE
    MaxFailures = 1
    NoOperation = NoOperation
    NoAnswer = NoAnswer
SYMMETRY Interchangeable
SPECIFICATION Spec
INVARIANT NewestSnapshotIsRow
PROPERTY PublishedStaysPublished
CHECK_DEADLOCK FALSE
