------------------------------ MODULE MCAccounts ------------------------------
(***************************************************************************)
(* Values for the model checker.  The users, the groups and the realms are *)
(* interchangeable: no action or invariant names one or chooses one.       *)
(***************************************************************************)
EXTENDS Accounts, TLC

Symmetry == Permutations(Users) \union Permutations(Groups) \union Permutations(Realms)

TheShoulder == CHOOSE s \in Shoulders : TRUE
MCShoulderOf == [i \in Ids |-> TheShoulder]
=============================================================================
