------------------------------- MODULE Accounts -------------------------------
(***************************************************************************)
(* The records of users and groups as administrators (admin.py, user-move, *)
(* group-move) and the users themselves (ui_account.py) edit them, and the *)
(* identifiers that repeat a part of them: the owner's group.              *)
(*                                                                         *)
(* A form or a command that runs in one transaction is one action.  A      *)
(* request about an identifier is two, the load with all its checks and    *)
(* the save, and user-move, which runs in a process of its own that the    *)
(* server's identifier lock does not know, loads and saves one identifier  *)
(* after the other, page by page.                                          *)
(*                                                                         *)
(* Creation of users and groups, deletions, names, contacts, passwords and *)
(* the agent identifiers that repeat a record are left out.                *)
(***************************************************************************)
EXTENDS Policy

CONSTANTS
    LastId,        \* the identifiers are 1 .. LastId, in their order
    ShoulderOf,    \* the shoulder of each
    Requests,      \* the requests the server handles at once
    PageSize,      \* how many identifiers user-move reads at once
    MaxEdits,      \* bound: edits of users and groups, moves included
    NoRow, Idle

ASSUME AccountsAssumption ==
    /\ LastId \in Nat \ {0} /\ PageSize \in Nat \ {0} /\ MaxEdits \in Nat
    /\ ShoulderOf \in [1 .. LastId -> Shoulders]

VARIABLES
    rows,       \* identifier |-> its owner and owner's group
    request,    \* request |-> what it is about to save
    mover,      \* the user-move command
    unsettled,  \* users whose move is going on, or ended with an error
    overtaken,  \* history: identifiers that a request in flight was about to save
                \* for a user when that user's move began
    edits

vars == <<users, groups, rows, request, mover, unsettled, overtaken, edits>>

Ids == 1 .. LastId

Row == [owner : Users, group : Groups]

ASSUME RowAssumption == NoRow \notin Row /\ Idle \notin Row

\* The user, the place in the order of identifiers up to which they were read,
\* those still to be updated, and the copy of a row about to be saved.
Moves == [user : Users, lastId : 0 .. LastId, page : SUBSET Ids,
          id : Ids, copy : Row \union {Idle}]

TypeOK ==
    /\ users \in [Users -> UserRecord]
    /\ groups \in [Groups -> GroupRecord]
    /\ rows \in [Ids -> Row \union {NoRow}]
    /\ request \in [Requests -> [id : Ids, row : Row, new : BOOLEAN] \union {Idle}]
    /\ mover \in Moves \union {Idle}
    /\ unsettled \subseteq Users
    /\ overtaken \subseteq Ids
    /\ edits \in 0 .. MaxEdits

Members(g) == {u \in Users : users[u].group = g}
Owned(u)   == {i \in Ids : rows[i] # NoRow /\ rows[i].owner = u}

Init ==
    /\ groups \in [Groups -> [realm : Realms, shoulders : {Shoulders}]]
    /\ users \in {t \in [Users -> [group : Groups, realm : Realms, inherit : {FALSE},
                                   shoulders : {{}}, proxies : {{}}, role : {"none"},
                                   login : {TRUE}]] :
                     \A u \in Users : t[u].realm = groups[t[u].group].realm}
    /\ rows \in {t \in [Ids -> Row \union {NoRow}] :
                    /\ t[1] # NoRow /\ \A i \in 2 .. LastId : t[i] = NoRow
                    /\ t[1].group = users[t[1].owner].group}
    /\ request = [r \in Requests |-> Idle]
    /\ mover = Idle
    /\ unsettled = {}
    /\ overtaken = {}
    /\ edits = 0

Edit ==
    /\ edits < MaxEdits
    /\ edits' = edits + 1

-----------------------------------------------------------------------------
(* admin.py and ui_account.py                                              *)

\* Mutant: only those who inherit losing the group's shoulders.
GroupAdminInheritors(g, new) ==
    LET old == groups[g].shoulders
    IN  /\ Edit
        /\ groups' = [groups EXCEPT ![g].shoulders = new]
        /\ users' = [u \in Users |->
               IF u \notin Members(g) \/ ~users[u].inherit THEN users[u]
               ELSE [users[u] EXCEPT !.shoulders = (@ \ (old \ new)) \union (new \ old)]]
        /\ UNCHANGED <<rows, request, mover, unsettled, overtaken>>

\* The group's form.  Every member loses the shoulders the group loses; those
\* who inherit get the ones it gets.
GroupAdmin(g, new) ==
    LET old == groups[g].shoulders
    IN  /\ Edit
        /\ groups' = [groups EXCEPT ![g].shoulders = new]
        /\ users' = [u \in Users |->
               IF u \notin Members(g) THEN users[u]
               ELSE [users[u] EXCEPT
                        !.shoulders = (@ \ (old \ new)) \union
                                      (IF users[u].inherit THEN new \ old ELSE {})]]
        /\ UNCHANGED <<rows, request, mover, unsettled, overtaken>>

\* User.clean, run by every form that saves a user.
UserClean(u) == users[u].realm = groups[users[u].group].realm

\* The user's form, whose clean() replaces the shoulders of one who inherits
\* and refuses shoulders the group lacks and proxies of the privileged.
UserAdmin(u, inherit, chosen, proxies, role, login) ==
    LET groupShoulders == groups[users[u].group].shoulders
    IN  /\ Edit
        /\ UserClean(u)
        /\ inherit \/ chosen \subseteq groupShoulders
        /\ role \in {"realm", "superuser"} => proxies = {}
        /\ u \notin proxies
        /\ users' = [users EXCEPT ![u] =
               [@ EXCEPT !.inherit = inherit,
                         !.shoulders = IF inherit THEN groupShoulders ELSE chosen,
                         !.proxies = proxies, !.role = role, !.login = login]]
        /\ UNCHANGED <<groups, rows, request, mover, unsettled, overtaken>>

\* The account page, where a user picks proxies.  It offers the users of the
\* realm, and adds whoever it is sent.
AccountEdit(u, picked) ==
    /\ Edit
    /\ users[u].login
    /\ UserClean(u)
    /\ users' = [users EXCEPT ![u].proxies = @ \union picked]
    /\ UNCHANGED <<groups, rows, request, mover, unsettled, overtaken>>

\* Mutant: the users of the group keep their realm.
GroupMoveAlone(g, newRealm) ==
    /\ Edit
    /\ \A u \in Members(g) : ~IsRealmAdmin(u)
    /\ newRealm # groups[g].realm
    /\ groups' = [groups EXCEPT ![g].realm = newRealm]
    /\ UNCHANGED <<users, rows, request, mover, unsettled, overtaken>>

\* group-move.  (Having committed this it looks for a table of search users
\* that is gone, and ends with an error.)
GroupMove(g, newRealm) ==
    /\ Edit
    /\ \A u \in Members(g) : ~IsRealmAdmin(u)
    /\ newRealm # groups[g].realm
    /\ groups' = [groups EXCEPT ![g].realm = newRealm]
    /\ users' = [u \in Users |-> IF u \in Members(g)
                                  THEN [users[u] EXCEPT !.realm = newRealm] ELSE users[u]]
    /\ UNCHANGED <<rows, request, mover, unsettled, overtaken>>

-----------------------------------------------------------------------------
(* Requests about identifiers (impl/ezid.py)                               *)

\* The server's lock lets one request at a time work on an identifier.
Free(i) == \A r \in Requests : request[r] # Idle => request[r].id # i

Answerable(r, u, i) ==
    /\ request[r] = Idle
    /\ users[u].login
    /\ Free(i)

UnchangedRecords == UNCHANGED <<users, groups, mover, unsettled, overtaken, edits>>

\* createIdentifier for user u, with _owner = o when o is another.  baseClean
\* fills in the owner's group.
Create(r, u, i, o) ==
    /\ Answerable(r, u, i)
    /\ TRUE \in authorizeCreate(u, ShoulderOf[i])
    /\ authorizeOwnershipChange(u, u, o)
    /\ request' = [request EXCEPT ![r] =
           [id |-> i, row |-> [owner |-> o, group |-> users[o].group], new |-> TRUE]]
    /\ UnchangedRecords /\ UNCHANGED rows

\* setMetadata without _owner.  baseClean refuses a row whose group is not
\* its owner's.
Update(r, u, i) ==
    /\ Answerable(r, u, i)
    /\ rows[i] # NoRow
    /\ authorizeUpdate(u, rows[i])
    /\ rows[i].group = users[rows[i].owner].group
    /\ request' = [request EXCEPT ![r] = [id |-> i, row |-> rows[i], new |-> FALSE]]
    /\ UnchangedRecords /\ UNCHANGED rows

\* setMetadata with _owner, which empties the row's group for baseClean to
\* fill in.
HandOver(r, u, i, o) ==
    /\ Answerable(r, u, i)
    /\ rows[i] # NoRow
    /\ authorizeUpdate(u, rows[i])
    /\ authorizeOwnershipChange(u, rows[i].owner, o)
    /\ request' = [request EXCEPT ![r] =
           [id |-> i, row |-> [owner |-> o, group |-> users[o].group], new |-> FALSE]]
    /\ UnchangedRecords /\ UNCHANGED rows

\* save().  That of a new row is refused when the identifier exists.
Save(r) ==
    /\ request[r] # Idle
    /\ rows' = IF request[r].new /\ rows[request[r].id] # NoRow THEN rows
               ELSE [rows EXCEPT ![request[r].id] = request[r].row]
    /\ request' = [request EXCEPT ![r] = Idle]
    /\ UnchangedRecords

-----------------------------------------------------------------------------
(* user-move                                                               *)

\* The preconditions, and the user's own record.
MoveUser(u, newGroup) ==
    /\ mover = Idle
    /\ ~users[u].login /\ users[u].role = "none" /\ ~users[u].inherit
    /\ users[u].shoulders = {} /\ users[u].proxies = {} /\ proxy_for(u) = {}
    /\ newGroup # users[u].group
    /\ Edit
    /\ users' = [users EXCEPT ![u] = [@ EXCEPT !.group = newGroup,
                                               !.realm = groups[newGroup].realm]]
    /\ mover' = [user |-> u, lastId |-> 0, page |-> {}, id |-> 1, copy |-> Idle]
    /\ unsettled' = unsettled \union {u}
    /\ overtaken' = overtaken \union
           {request[r].id : r \in {q \in Requests : request[q] # Idle /\ request[q].row.owner = u}}
    /\ UNCHANGED <<groups, rows, request>>

\* The user's identifiers after those that were read.
Rest == {i \in Owned(mover.user) : i > mover.lastId}

BetweenPages == mover # Idle /\ mover.page = {} /\ mover.copy = Idle

ReadPage ==
    \E last \in Rest :
        LET page == {i \in Rest : i <= last}
        IN  /\ \/ Cardinality(page) = PageSize
               \/ Cardinality(page) < PageSize /\ page = Rest
            /\ mover' = [mover EXCEPT !.page = page, !.lastId = last]

Succeed ==
    /\ mover' = Idle
    /\ unsettled' = unsettled \ {mover.user}

\* Mutant: a page that is not full is taken for the end.
NextPageFull ==
    /\ BetweenPages
    /\ IF Cardinality(Rest) < PageSize THEN Succeed ELSE ReadPage /\ UNCHANGED unsettled
    /\ UNCHANGED <<users, groups, rows, request, overtaken, edits>>

\* The next page of the user's identifiers, or none: success.
NextPage ==
    /\ BetweenPages
    /\ IF Rest = {} THEN Succeed ELSE ReadPage /\ UNCHANGED unsettled
    /\ UNCHANGED <<users, groups, rows, request, overtaken, edits>>

\* setMetadata with _ownergroup for the first identifier of the page.
\* baseClean compares with the group of whoever owns it by now: another owner
\* ends the command, which then refuses to run again.
MoveLoad ==
    /\ mover # Idle /\ mover.copy = Idle
    /\ \E i \in mover.page :
          LET newGroup == users[mover.user].group
          IN  /\ \A j \in mover.page : i <= j
              /\ mover' = IF users[rows[i].owner].group = newGroup
                          THEN [mover EXCEPT !.page = @ \ {i}, !.id = i,
                                             !.copy = [owner |-> rows[i].owner,
                                                       group |-> newGroup]]
                          ELSE Idle
    /\ UNCHANGED <<users, groups, rows, request, unsettled, overtaken, edits>>

MoveSave ==
    /\ mover # Idle /\ mover.copy # Idle
    /\ rows' = [rows EXCEPT ![mover.id] = mover.copy]
    /\ mover' = [mover EXCEPT !.copy = Idle]
    /\ UNCHANGED <<users, groups, request, unsettled, overtaken, edits>>

\* setMetadata is refused (the concurrency limit, the validation of the
\* metadata) or the process ends.
MoveFails ==
    /\ mover # Idle
    /\ mover' = Idle
    /\ UNCHANGED <<users, groups, rows, request, unsettled, overtaken, edits>>

-----------------------------------------------------------------------------
\* A form changes one thing of a user: shoulders, proxies, role or login.
UserForm(u) ==
    LET old == users[u]
    IN  \/ \E inherit \in BOOLEAN, chosen \in SUBSET groups[old.group].shoulders :
               /\ inherit # old.inherit \/ (~inherit /\ chosen # old.shoulders)
               /\ UserAdmin(u, inherit, chosen, old.proxies, old.role, old.login)
        \/ \E proxies \in (SUBSET Users) \ {old.proxies} :
               UserAdmin(u, old.inherit, old.shoulders, proxies, old.role, old.login)
        \/ \E role \in Roles \ {old.role} :
               UserAdmin(u, old.inherit, old.shoulders, old.proxies, role, old.login)
        \/ \E login \in BOOLEAN \ {old.login} :
               UserAdmin(u, old.inherit, old.shoulders, old.proxies, old.role, login)

Next ==
    \/ \E g \in Groups, new \in SUBSET Shoulders :
           new # groups[g].shoulders /\ GroupAdmin(g, new)
    \/ \E g \in Groups, realm \in Realms : GroupMove(g, realm)
    \/ \E u \in Users : UserForm(u)
    \/ \E u, p \in Users : p \notin users[u].proxies /\ AccountEdit(u, {p})
    \/ \E u \in Users, g \in Groups : MoveUser(u, g)
    \/ NextPage \/ MoveLoad \/ MoveSave \/ MoveFails
    \/ \E r \in Requests, u \in Users, i \in Ids :
           \/ Update(r, u, i)
           \/ \E o \in Users : Create(r, u, i, o) \/ HandOver(r, u, i, o)
    \/ \E r \in Requests : Save(r)

Spec == Init /\ [][Next]_vars

-----------------------------------------------------------------------------
\* What user.py says of its field shoulders: they are among the group's, and
\* the same for one who inherits.  The forms of the group and of the user keep
\* this between them, each from its own side (admin.py).
ShouldersWithinGroup ==
    \A u \in Users :
        LET groupShoulders == groups[users[u].group].shoulders
        IN  /\ users[u].shoulders \subseteq groupShoulders
            /\ users[u].inherit => users[u].shoulders = groupShoulders

\* Three rules of policy.py, written separately and reading different copies
\* of the owner's group and realm, agree on who acts for an owner: who may
\* download all of the owner's identifiers may update each that carries the
\* owner's group, and give and take them.
PolicyAgrees ==
    \A u, o \in Users :
        LET actsFor == authorizeDownload(u, o)
        IN  /\ actsFor <=> (userCanUpdateWhenOwnedBy(u, o) \/ IsSuperuser(u))
            /\ \A i \in Owned(o) :
                   rows[i].group = users[o].group =>
                       (actsFor <=> authorizeUpdate(u, rows[i]))

\* Everybody in S is a proxy for somebody in it.
Circle(S) == \A u \in S : proxy_for(u) \intersect S # {}

Closed(S) == \A u \in S : proxy_for(u) \subseteq S

\* The users that u reaches, from proxy to proxied.
ActsFor(u) == {v \in Users : \A S \in SUBSET Users : u \in S /\ Closed(S) => v \in S}

May(u, s) == \E v \in ActsFor(u) : s \in users[v].shoulders \/ IsSuperuser(v)

\* The same when a group administrator counts as a proxy of every member.
OnBehalfOf(u) ==
    proxy_for(u) \union {v \in Users : IsGroupAdmin(u) /\ users[v].group = users[u].group}

ActsForAsAdministrator(u) ==
    {v \in Users : \A S \in SUBSET Users :
        u \in S /\ (\A w \in S : OnBehalfOf(w) \subseteq S) => v \in S}

MayAsAdministrator(u, s) ==
    \E v \in ActsForAsAdministrator(u) : s \in users[v].shoulders \/ IsSuperuser(v)

\* Unless users are proxies of one another in a circle, authorizeCreate's
\* recursion gives one answer, whatever the order in which it asks: yes to the
\* users who reach, from proxy to proxied, somebody with the shoulder or a
\* superuser, and no to those who do not even when a group administrator counts
\* as a proxy of every member.  Of the users between the two the API
\* documentation and a comment in policy.py say different things, and the
\* property nothing.
CreateFollowsProxies ==
    (\A S \in (SUBSET Users) \ {{}} : ~Circle(S)) =>
        \A u \in Users, s \in Shoulders :
            /\ authorizeCreate(u, s) \in {{TRUE}, {FALSE}}
            /\ May(u, s) => authorizeCreate(u, s) = {TRUE}
            /\ ~MayAsAdministrator(u, s) => authorizeCreate(u, s) = {FALSE}

\* When user-move has reported success every identifier of the user carries
\* the user's group, whatever requests are served once it has begun.  A request
\* that had loaded its row before may still save it with the old group, since
\* user-move does not wait for it: such an identifier is excepted.
NoneLeftBehind ==
    \A u \in Users \ unsettled : \A i \in Owned(u) \ overtaken :
        rows[i].group = users[u].group
=============================================================================
