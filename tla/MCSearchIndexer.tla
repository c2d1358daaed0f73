---------------------------- MODULE MCSearchIndexer ----------------------------
(***************************************************************************)
(* The search daemon with one identifier that has an owner and one that    *)
(* has none.                                                               *)
(***************************************************************************)
EXTENDS SearchIndexer, TLC

CONSTANTS owned, anonymous

OwnedAndAnonymous == {owned, anonymous}

JustAnonymous == {anonymous}
=============================================================================
