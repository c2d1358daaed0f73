--------------------------- MODULE MCIdentifierTable ---------------------------
(***************************************************************************)
(* The operations the model checker's web requests may ask for: small      *)
(* sets that hold every kind of request, user and element, both orders of  *)
(* the elements where the order counts, and requests that are refused.     *)
(***************************************************************************)
EXTENDS IdentifierTable, TLC

\* Requests differ in what they ask for, not in who they are.
Interchangeable == Permutations(WebRequests)

Status(s)   == [key |-> "_status", value |-> s]
Crossref(s) == [key |-> "_crossref", value |-> s]
Target(t)   == [key |-> "_target", value |-> t]

Create(u, m, ifExists) == [kind |-> "create", user |-> u, metadata |-> m,
                           external |-> TRUE, updateIfExists |-> ifExists]
Update(u, m, external) == [kind |-> "update", user |-> u, metadata |-> m,
                           external |-> external, updateIfExists |-> FALSE]
Delete(u)              == [kind |-> "delete", user |-> u, metadata |-> <<>>,
                           external |-> TRUE, updateIfExists |-> FALSE]

OtherTarget == CHOOSE t \in Targets : t # DefaultTarget

\* What the owner of an identifier may ask, and a stranger.
OwnersOperations ==
    { Create("owner", <<>>, FALSE),
      Create("owner", <<Status("reserved"), Target(OtherTarget)>>, TRUE),
      Create("owner", <<Crossref("yes"), Status("reserved")>>, FALSE),
      Update("owner", <<Crossref("yes"), Status("public")>>, TRUE),
      Update("owner", <<Status("unavailable")>>, TRUE),
      Update("owner", <<Target(OtherTarget)>>, TRUE),
      Update("stranger", <<Target(OtherTarget)>>, TRUE),
      Delete("owner") }

AllOperations ==
    OwnersOperations \union
    { Update("admin", <<Status("reserved"), Crossref("yes")>>, TRUE),
      Update("admin", <<Crossref("")>>, TRUE),
      Delete("admin") }
=============================================================================
