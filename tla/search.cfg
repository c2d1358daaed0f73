\* Three tasks in batches of two, retried, with a crash and the cleanup.
CONSTANTS
    owned = owned
    anonymous = anonymous
    Identifiers <- OwnedAndAnonymous
    Anonymous <- JustAnonymous
    BatchSize = 2
    RetriesFailures = TRUE
    MaxTasks = 3
    MaxCrashes = 1
    MaxMarks = 1
SPECIFICATION Spec
INVARIANTS
    TypeOK
    StoresAgree
    NewestUnlessCrowded
    NoTaskLost
PROPERTY BacklogDrains
CHECK_DEADLOCK FALSE
