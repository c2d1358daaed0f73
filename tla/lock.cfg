\* Three requests of two users at a throttle of one operation and two threads,
\* with two identifiers and a shoulder to mint on: every branch of the loop is
\* taken.
CONSTANTS
    Requests = {r1, r2, r3}
    Users = {u1, u2}
    Identifiers = {i1, i2}
    Shoulders = {s1}
    MaxConcurrent = 1
    MaxThreads = 2
    NoGrant = NoGrant
SPECIFICATION FairSpec
INVARIANTS
    LockedExactlyByHolders
    CountsExact
    NoLostWakeup
PROPERTIES
    ImplementsMutex
    EveryRequestAnswered
