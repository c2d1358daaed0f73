-------------------------------- MODULE Policy --------------------------------
(***************************************************************************)
(* impl/policy.py: who may create, update, hand over and download which    *)
(* identifiers, as operators on the tables of users and groups.            *)
(*                                                                         *)
(* A user belongs to a group and a group to a realm; the user's record     *)
(* repeats the realm, and a row of the identifier table repeats its        *)
(* owner's group.  The four rules read different ones of these copies.     *)
(* The anonymous user, test identifiers and agent identifiers, of which    *)
(* the rules dispose at once, are left out.                                *)
(***************************************************************************)
EXTENDS Naturals, FiniteSets

CONSTANTS Users, Groups, Realms, Shoulders,
          Exhausted      \* the answer of a call that runs out of stack

ASSUME PolicyAssumption == IsFiniteSet(Users) /\ Exhausted \notin BOOLEAN

VARIABLES
    users,     \* the table of users
    groups     \* the table of groups

\* A user is at most one kind of administrator here.
Roles == {"none", "group", "realm", "superuser"}

UserRecord == [group : Groups, realm : Realms, inherit : BOOLEAN,
               shoulders : SUBSET Shoulders, proxies : SUBSET Users,
               role : Roles, login : BOOLEAN]
GroupRecord == [realm : Realms, shoulders : SUBSET Shoulders]

IsGroupAdmin(u) == users[u].role = "group"
IsRealmAdmin(u) == users[u].role = "realm"
IsSuperuser(u)  == users[u].role = "superuser"

proxy_for(u) == {v \in Users : u \in users[v].proxies}

\* What a call of authorizeCreate for shoulder s may answer, given what its calls may
\* answer.  any() asks the users that u is a proxy for in the order the database
\* returns them, which is any, up to the first yes.
answersFrom(s, asked) ==
    [u \in Users |->
        IF s \in users[u].shoulders THEN {TRUE}
        ELSE {a \in {TRUE, Exhausted} : \E v \in proxy_for(u) : a \in asked[v]}
             \union {IsSuperuser(u) : b \in
                        {b \in {FALSE} : \A v \in proxy_for(u) : b \in asked[v]}}]

\* What the calls may answer when the stack has room for n of them.
answers(s) ==
    LET f[n \in 0 .. Cardinality(Users)] ==
            IF n = 0 THEN [u \in Users |-> {Exhausted}] ELSE answersFrom(s, f[n - 1])
    IN  f[Cardinality(Users)]

\* Mutant: asks only about the users u is itself a proxy for.
authorizeCreateDirect(u, s) ==
    {\E v \in {u} \union proxy_for(u) : s \in users[v].shoulders \/ IsSuperuser(v)}

\* Users are finitely many, so a call that is that many deep has met a user
\* twice and never ends.
authorizeCreate(u, s) == answers(s)[u]

\* row.owner is an identifier's owner, row.group the owner's group as the row
\* has it.
authorizeUpdate(u, row) ==
    \/ u = row.owner
    \/ u \in users[row.owner].proxies
    \/ IsGroupAdmin(u) /\ users[u].group = row.group
    \/ IsRealmAdmin(u) /\ users[u].realm = groups[row.group].realm
    \/ IsSuperuser(u)

userCanUpdateWhenOwnedBy(u, owner) ==
    \/ u = owner
    \/ u \in users[owner].proxies
    \/ IsGroupAdmin(u) /\ users[owner].group = users[u].group
    \/ IsRealmAdmin(u) /\ users[owner].realm = users[u].realm

authorizeOwnershipChange(u, currentOwner, newOwner) ==
    \/ newOwner = currentOwner
    \/ /\ userCanUpdateWhenOwnedBy(u, currentOwner)
       /\ userCanUpdateWhenOwnedBy(u, newOwner)
    \/ IsSuperuser(u)

authorizeDownload(u, owner) ==
    LET ownergroup == users[owner].group
    IN  \/ u = owner
        \/ u \in users[owner].proxies
        \/ IsGroupAdmin(u) /\ users[u].group = ownergroup
        \/ IsRealmAdmin(u) /\ users[u].realm = groups[ownergroup].realm
        \/ IsSuperuser(u)
=============================================================================
