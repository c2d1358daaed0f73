--------------------------- MODULE ThrottledMutex ---------------------------
(***************************************************************************)
(* What the identifier lock of impl/ezid.py promises, without its counters *)
(* and its condition variable: a request holds a grant on an identifier    *)
(* alone, a user holds at most Limit grants at a time, and nothing is      *)
(* granted while the server is paused.                                     *)
(***************************************************************************)
EXTENDS Naturals, FiniteSets

CONSTANTS Holders,   \* who can hold a grant
          Ids,       \* what is locked
          Keys,      \* the keys that grants are counted under
          Limit      \* how many grants one key may hold

VARIABLES grants,    \* the grants now held
          frozen     \* no grant is given while this is TRUE

vars == <<grants, frozen>>

Grants == [holder: Holders, id: Ids, user: Keys]

Init == grants = {} /\ frozen = FALSE

Take(g) ==
    /\ ~frozen
    /\ \A h \in grants : h.id # g.id
    /\ Cardinality({h \in grants : h.user = g.user}) < Limit
    /\ grants' = grants \union {g}
    /\ UNCHANGED frozen

Give(g) ==
    /\ g \in grants
    /\ grants' = grants \ {g}
    /\ UNCHANGED frozen

SetFrozen(b) ==
    /\ frozen' = b
    /\ UNCHANGED grants

Next ==
    \/ \E g \in Grants : Take(g) \/ Give(g)
    \/ \E b \in BOOLEAN : SetFrozen(b)

Spec == Init /\ [][Next]_vars
=============================================================================
