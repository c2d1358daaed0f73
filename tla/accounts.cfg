\* Three users in two groups, and at most three edits, a move among them.
CONSTANTS
    Users = {u1, u2, u3}
    Groups = {g1, g2}
    Realms = {r1, r2}
    Shoulders = {s1}
    Exhausted = Exhausted
    LastId = 2
    ShoulderOf <- MCShoulderOf
    Requests = {q1}
    PageSize = 2
    MaxEdits = 3
    NoRow = NoRow
    Idle = Idle
SPECIFICATION Spec
SYMMETRY Symmetry
INVARIANTS
    ShouldersWithinGroup
    PolicyAgrees
    CreateFollowsProxies
    NoneLeftBehind
CHECK_DEADLOCK FALSE
