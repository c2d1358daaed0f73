\* Two tasks of one identifier, nothing failing.
CONSTANTS
    owned = owned
    anonymous = anonymous
    Identifiers = {owned}
    Anonymous = {}
    BatchSize = 2
    RetriesFailures = FALSE
    MaxTasks = 2
    MaxCrashes = 0
    MaxMarks = 0
SPECIFICATION Spec
PROPERTY PerformedInOrder
CHECK_DEADLOCK FALSE
