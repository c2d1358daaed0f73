------------------------------- MODULE MCMinter -------------------------------
(***************************************************************************)
(* A minter small enough for the model checker, and the requests that use  *)
(* it, which are interchangeable.                                          *)
(***************************************************************************)
EXTENDS Minting, TLC

ShortMask == <<"e", "d">>
AnyRequest == Permutations(Requests)
=============================================================================
