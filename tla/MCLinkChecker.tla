----------------------------- MODULE MCLinkChecker -----------------------------
(* Two owners; the first identifier may get another target or another owner.   *)
EXTENDS LinkChecker

CONSTANTS ann, bob, here, there

Both == {ann, bob}

TwoOffers == << {[owner |-> ann, target |-> here], [owner |-> bob, target |-> there]},
                {[owner |-> ann, target |-> here]} >>

JustBob == {bob}
=============================================================================
