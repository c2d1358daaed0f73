\* One request, and one signal.
CONSTANTS
    ann = ann
    bob = bob
    nobody = nobody
    Owners <- Both
    Nobody <- nobody
    Identifiers = {1, 2, 3}
    PageSize = 2
    Requests <- OneRequest
    MaxRequests = 1
    MaxChanges = 0
    MaxStops = 1
    MaxFailures = 0
    MaxOutages = 0
SPECIFICATION Spec
INVARIANT ResumesWhereItLeftOff
CHECK_DEADLOCK FALSE
