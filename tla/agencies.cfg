\* A DOI of each agency, three operations, batches of two, a crash, and two
\* deposits that do not arrive.
CONSTANTS
    c = c
    d = d
    Identifiers = {c, d}
    CrossrefDois = {c}
    DataciteDois = {d}
    BatchSize = 2
    RetriesFailures = FALSE
    MaxTasks = 3
    MaxCrashes = 1
    MaxMarks = 0
    MaxLost = 2
SPECIFICATION AgenciesSpec
INVARIANTS
    OutcomeReachesIdentifier
    DataciteHasNewest
PROPERTY TasksEnd
CHECK_DEADLOCK FALSE
