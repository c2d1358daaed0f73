\* Two requests, with a change, a stop, a failure and an outage.
CONSTANTS
    ann = ann
    bob = bob
    nobody = nobody
    Owners <- Both
    Nobody <- nobody
    Identifiers = {1, 2}
    PageSize = 1
    Requests <- TwoRequests
    MaxRequests = 2
    MaxChanges = 1
    MaxStops = 1
    MaxFailures = 1
    MaxOutages = 1
SPECIFICATION Spec
INVARIANTS
    TypeOK
    WellFormed
    CompleteUnlessCurtailed
    AnnouncedWhenDelivered
PROPERTY EveryRequestServed
CHECK_DEADLOCK FALSE
