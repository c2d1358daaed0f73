\* Three identifiers that share and change their update times, in batches of two.
CONSTANTS
    Identifiers = {i1, i2, i3}
    BatchSize = 2
    NoLimit = NoLimit
    NoHarvest = NoHarvest
    Untils = {2, NoLimit}
    MaxTime = 3
    MaxPending = 1
    MaxUpdates = 3
SPECIFICATION FairSpec
INVARIANT CaughtUp
PROPERTIES
    HarvestComplete
    HarvestEnds
CHECK_DEADLOCK FALSE
