\* Two owners, two links, two threads, a page each; one change, exclusion, restart,
\* signal or failure of either daemon, or end of a thread.  Where a thread ends in
\* the first round, the checker stops.
CONSTANTS
    ann = ann
    bob = bob
    here = here
    there = there
    NoLink = NoLink
    NoRow = NoRow
    Users <- Both
    Identifiers = {1, 2}
    Workers = {w1, w2}
    Offers <- TwoOffers
    PageRows = 2
    MaxLinks = 1
    Threshold = 2
    Flaky = {1}
    Changing = {1}
    Excludable <- JustBob
    MaxEvents = 1
SPECIFICATION Spec
INVARIANT OneVisitorPerOwner
PROPERTIES
    RaisedAfterThreshold
    EveryLinkChecked
    FlagFollows
CHECK_DEADLOCK FALSE
