-------------------------------- MODULE Minting --------------------------------
(***************************************************************************)
(* Requests that mint on one shoulder, mintIdentifier of impl/ezid.py: a   *)
(* transaction on the minter, a look at the table whether the identifier   *)
(* exists already, and its creation, with other requests in between.       *)
(*                                                                         *)
(* The minter may be behind the table.  Identifiers are also created by    *)
(* hand (or by another shoulder that mints in the same namespace), and an  *)
(* error when the minter's transaction commits is logged and forgotten     *)
(* after the identifier was yielded, so that it will be minted again.      *)
(*                                                                         *)
(* The requests are of different server processes (the shoulder lock of    *)
(* mintIdentifier, which IdentifierLock has, keeps those of one apart).    *)
(* An identifier is the digits after the shoulder.  Its creation is one    *)
(* action here; IdentifierTable has its steps.                             *)
(***************************************************************************)
EXTENDS Minter

CONSTANTS
    Requests,
    Nothing,         \* the identifier of a request that has none yet
    MaxExisting,     \* bound: identifiers in the table
    MaxUnknown       \* bound: creations by hand and lost commits

VARIABLES
    exists,      \* the identifiers of the shoulder in table Identifier
    held,        \* request |-> the identifier it was given by mint_id
    unknown,     \* creations by hand and lost commits so far
    failures     \* requests that failed because their identifier existed

mintingVars == <<vars, exists, held, unknown, failures>>

MintingInit ==
    /\ Init
    /\ exists = {}
    /\ held = [r \in Requests |-> Nothing]
    /\ unknown = 0 /\ failures = 0

DigitsOf(m, k) == xdigs(m.mask, CompoundedCounter(m, k))

\* Mutant: what mint_id does to the row is never saved.
CommittedNever(m) == minter

\* The row after the transaction.
Committed(m) == m

\* The assertion of mintIdentifier.  It follows the minter's transaction at once
\* here: what comes to exist in between is also found by the creation.
Checked(r, id) ==
    IF id \in exists
    THEN failures' = failures + 1 /\ UNCHANGED held
    ELSE held' = [held EXCEPT ![r] = id] /\ UNCHANGED failures

MayMintId(r) ==
    /\ held[r] = Nothing
    /\ MayMint(minter) /\ Len(Ready(minter).mask) <= MaxLength

\* mint_id, whose transaction commits.
MintId(r) ==
    /\ MayMintId(r)
    /\ \E k \in Ready(minter).active :
          LET m == Step(Ready(minter), k) IN
          /\ minter' = Committed(m)
          /\ minted' = minted \union {[mask |-> m.mask, number |-> CompoundedCounter(m, k)]}
          /\ Checked(r, DigitsOf(m, k))
    /\ UNCHANGED <<exists, unknown>>

\* mint_id, whose transaction fails after the identifier was yielded.
MintIdCommitLost(r) ==
    /\ MayMintId(r)
    /\ unknown < MaxUnknown
    /\ \E k \in Ready(minter).active :
          Checked(r, DigitsOf(Step(Ready(minter), k), k))
    /\ unknown' = unknown + 1
    /\ UNCHANGED <<vars, exists>>

\* The nested createIdentifier, which may be refused for other reasons, and
\* fails when the identifier has come to exist since.
Create(r) ==
    /\ held[r] # Nothing
    /\ \/ /\ held[r] \in exists
          /\ failures' = failures + 1
          /\ UNCHANGED exists
       \/ /\ held[r] \notin exists /\ Cardinality(exists) < MaxExisting
          /\ exists' = exists \union {held[r]}
          /\ UNCHANGED failures
       \/ held[r] \notin exists /\ UNCHANGED <<exists, failures>>
    /\ held' = [held EXCEPT ![r] = Nothing]
    /\ UNCHANGED <<vars, unknown>>

\* createIdentifier with an identifier of the requestor's choice, which may be
\* one the minter has yet to give.
CreateByHand(id) ==
    /\ unknown < MaxUnknown
    /\ id \notin exists /\ Cardinality(exists) < MaxExisting
    /\ exists' = exists \union {id}
    /\ unknown' = unknown + 1
    /\ UNCHANGED <<vars, held, failures>>

Delete(id) ==
    /\ id \in exists
    /\ exists' = exists \ {id}
    /\ UNCHANGED <<vars, held, unknown, failures>>

MintingNext ==
    \/ \E r \in Requests : MintId(r) \/ MintIdCommitLost(r) \/ Create(r)
    \/ \E m \in {minter.mask, ExtendMask(minter.mask, AddCount)} :
          \E id \in {xdigs(m, n) : n \in 1 .. MaxCount(m)} : CreateByHand(id)
    \/ \E id \in exists : Delete(id)

MintingSpec == MintingInit /\ [][MintingNext]_mintingVars

-----------------------------------------------------------------------------
\* A minter that is behind the table gets past it: every identifier it does not
\* know of costs at most one failed request, because the number is used up by
\* the request that fails.
BehindCostsOneEach == failures <= unknown
=============================================================================
