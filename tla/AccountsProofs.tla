---------------------------- MODULE AccountsProofs ----------------------------
(***************************************************************************)
(* That user-move leaves no identifier behind, that a user's shoulders are *)
(* the group's, and that the rules of policy.py agree, for any number of   *)
(* users, groups, identifiers, requests and edits and any size of page;    *)
(* and that authorizeCreate, which asks the users one is a proxy for, and  *)
(* they theirs, ends unless proxies form a circle and then agrees with who *)
(* can be reached.  The users whose answer would be wrong with room for n  *)
(* calls become fewer as n grows, for one of them must have no wrong one   *)
(* among those it asks; so with room for as many calls as there are users  *)
(* nobody's answer is wrong.                                               *)
(***************************************************************************)
EXTENDS Accounts, FiniteSetTheorems, WellFoundedInduction, TLAPS

\* The copy of the realm in a user's record is that of the user's group.
RealmsAgree == \A u \in Users : users[u].realm = groups[users[u].group].realm

\* A row about to be saved, by a request that no move has overtaken or by
\* user-move, carries its owner's group.
CopiesFresh ==
    /\ \A r \in Requests : request[r] # Idle /\ request[r].id \notin overtaken =>
           request[r].row.group = users[request[r].row.owner].group
    /\ mover # Idle /\ mover.copy # Idle =>
           mover.copy.group = users[mover.copy.owner].group

\* What user-move has read and is not about to write is in order.
BehindMover ==
    mover # Idle =>
        /\ mover.user \in unsettled
        /\ \A i \in Owned(mover.user) \ overtaken :
               i <= mover.lastId /\ i \notin mover.page /\ (i # mover.id \/ mover.copy = Idle) =>
                   rows[i].group = users[mover.user].group

\* Identifiers are not deleted here, so those on a page exist.
PageExists == mover # Idle => \A i \in mover.page : rows[i] # NoRow

\* A user's records, as the forms and the commands keep them.
Records == TypeOK /\ RealmsAgree /\ ShouldersWithinGroup

IInv == /\ Records /\ PageExists
        /\ NoneLeftBehind /\ CopiesFresh /\ BehindMover

-----------------------------------------------------------------------------
(* Edits of the records                                                    *)

\* What each edit leaves of the records, field by field.
LEMMA GroupAdminEffect ==
    ASSUME TypeOK, NEW g \in Groups, NEW new \in SUBSET Shoulders, GroupAdmin(g, new)
    PROVE  /\ users' \in [Users -> UserRecord] /\ groups' \in [Groups -> GroupRecord]
           /\ \A h \in Groups : groups'[h].realm = groups[h].realm
           /\ \A u \in Users : /\ users'[u].group = users[u].group
                               /\ users'[u].realm = users[u].realm
                               /\ users'[u].inherit = users[u].inherit
<1>1. ASSUME NEW u \in Users PROVE users'[u] \in UserRecord
  <2> DEFINE old == groups[g].shoulders
             kept == (users[u].shoulders \ (old \ new)) \union
                     (IF users[u].inherit THEN new \ old ELSE {})
  <2>1. users[u] \in UserRecord
    BY DEF TypeOK
  <2>2. kept \in SUBSET Shoulders
    BY <2>1 DEF UserRecord
  <2>3. users'[u] = users[u] \/ users'[u] = [users[u] EXCEPT !.shoulders = kept]
    BY DEF GroupAdmin
  <2> HIDE DEF kept
  <2>4. QED
    BY <2>1, <2>2, <2>3 DEF UserRecord
<1>2. users' \in [Users -> UserRecord]
  BY <1>1 DEF GroupAdmin
<1>3. groups' \in [Groups -> GroupRecord]
  BY DEF GroupAdmin, TypeOK, GroupRecord
<1>4. \A h \in Groups : groups'[h].realm = groups[h].realm
  BY DEF GroupAdmin, TypeOK, GroupRecord
<1>5. \A u \in Users : /\ users'[u].group = users[u].group
                      /\ users'[u].realm = users[u].realm
                      /\ users'[u].inherit = users[u].inherit
  BY DEF GroupAdmin, TypeOK, UserRecord, Members
<1>6. QED
  BY <1>2, <1>3, <1>4, <1>5

LEMMA UserAdminEffect ==
    ASSUME TypeOK, NEW u \in Users, NEW inherit \in BOOLEAN, NEW chosen \in SUBSET Shoulders,
           NEW proxies \in SUBSET Users, NEW role \in Roles, NEW login \in BOOLEAN,
           UserAdmin(u, inherit, chosen, proxies, role, login)
    PROVE  /\ users' \in [Users -> UserRecord]
           /\ \A v \in Users : /\ users'[v].group = users[v].group
                               /\ users'[v].realm = users[v].realm
           /\ \A v \in Users \ {u} : users'[v] = users[v]
           /\ users'[u].inherit = inherit
           /\ users'[u].shoulders = IF inherit THEN groups[users[u].group].shoulders
                                               ELSE chosen
<1>1. users[u] \in UserRecord /\ groups[users[u].group].shoulders \in SUBSET Shoulders
  BY DEF TypeOK, UserRecord, GroupRecord
<1> DEFINE shoulders == IF inherit THEN groups[users[u].group].shoulders ELSE chosen
           new == [users[u] EXCEPT !.inherit = inherit, !.shoulders = shoulders,
                                   !.proxies = proxies, !.role = role, !.login = login]
<1>2. shoulders \in SUBSET Shoulders
  BY <1>1
<1>3. users' = [users EXCEPT ![u] = new]
  BY DEF UserAdmin
<1> HIDE DEF shoulders
<1>4. /\ new \in UserRecord /\ new.group = users[u].group /\ new.realm = users[u].realm
      /\ new.inherit = inherit /\ new.shoulders = shoulders
  BY <1>1, <1>2 DEF UserRecord
<1> HIDE DEF new
<1>5. QED
  BY <1>3, <1>4 DEF TypeOK, shoulders

LEMMA AccountEditEffect ==
    ASSUME TypeOK, NEW u \in Users, NEW picked \in SUBSET Users, AccountEdit(u, picked)
    PROVE  /\ users' \in [Users -> UserRecord]
           /\ \A v \in Users : /\ users'[v].group = users[v].group
                               /\ users'[v].realm = users[v].realm
                               /\ users'[v].inherit = users[v].inherit
                               /\ users'[v].shoulders = users[v].shoulders
<1> DEFINE all == users[u].proxies \union picked
           new == [users[u] EXCEPT !.proxies = all]
<1>1. users[u] \in UserRecord
  BY DEF TypeOK
<1>2. users' = [users EXCEPT ![u] = new]
  BY DEF AccountEdit
<1>3. all \in SUBSET Users
  BY <1>1 DEF UserRecord
<1> HIDE DEF all
<1>4. /\ new \in UserRecord /\ new.group = users[u].group /\ new.realm = users[u].realm
      /\ new.inherit = users[u].inherit /\ new.shoulders = users[u].shoulders
  BY <1>1, <1>3 DEF UserRecord
<1> HIDE DEF new
<1>5. QED
  BY <1>2, <1>4 DEF TypeOK

LEMMA GroupMoveEffect ==
    ASSUME TypeOK, NEW g \in Groups, NEW realm \in Realms, GroupMove(g, realm)
    PROVE  /\ users' \in [Users -> UserRecord] /\ groups' \in [Groups -> GroupRecord]
           /\ groups'[g].realm = realm
           /\ \A h \in Groups \ {g} : groups'[h].realm = groups[h].realm
           /\ \A h \in Groups : groups'[h].shoulders = groups[h].shoulders
           /\ \A v \in Users :
                 /\ users'[v].group = users[v].group
                 /\ users'[v].inherit = users[v].inherit
                 /\ users'[v].shoulders = users[v].shoulders
                 /\ users'[v].realm = IF users[v].group = g THEN realm ELSE users[v].realm
<1> DEFINE new == [groups[g] EXCEPT !.realm = realm]
<1>1. groups[g] \in GroupRecord
  BY DEF TypeOK
<1>2. groups' = [groups EXCEPT ![g] = new]
  BY DEF GroupMove
<1>3. new \in GroupRecord /\ new.realm = realm /\ new.shoulders = groups[g].shoulders
  BY <1>1 DEF GroupRecord
<1> HIDE DEF new
<1>4. /\ groups' \in [Groups -> GroupRecord] /\ groups'[g].realm = realm
      /\ \A h \in Groups \ {g} : groups'[h].realm = groups[h].realm
      /\ \A h \in Groups : groups'[h].shoulders = groups[h].shoulders
  BY <1>2, <1>3 DEF TypeOK
<1>5. ASSUME NEW v \in Users
      PROVE  /\ users'[v] \in UserRecord /\ users'[v].group = users[v].group
             /\ users'[v].inherit = users[v].inherit
             /\ users'[v].shoulders = users[v].shoulders
             /\ users'[v].realm = IF users[v].group = g THEN realm ELSE users[v].realm
  <2>1. users[v] \in UserRecord
    BY DEF TypeOK
  <2>2. users'[v] = IF users[v].group = g THEN [users[v] EXCEPT !.realm = realm] ELSE users[v]
    BY DEF GroupMove, Members
  <2>3. QED
    BY <2>1, <2>2 DEF UserRecord
<1>6. users' \in [Users -> UserRecord]
  BY <1>5 DEF GroupMove
<1>7. QED
  BY <1>4, <1>5, <1>6

LEMMA MoveUserEffect ==
    ASSUME TypeOK, NEW u \in Users, NEW g \in Groups, MoveUser(u, g)
    PROVE  /\ users' \in [Users -> UserRecord]
           /\ users'[u].group = g /\ users'[u].realm = groups[g].realm
           /\ users'[u].shoulders = {} /\ ~users'[u].inherit
           /\ \A v \in Users \ {u} : users'[v] = users[v]
<1> DEFINE realm == groups[g].realm
           new == [users[u] EXCEPT !.group = g, !.realm = realm]
<1>1. users[u] \in UserRecord /\ realm \in Realms
  BY DEF TypeOK, GroupRecord
<1>2. users' = [users EXCEPT ![u] = new]
  BY DEF MoveUser
<1>3. users[u].shoulders = {} /\ ~users[u].inherit
  BY DEF MoveUser
<1> HIDE DEF realm
<1>4. /\ new \in UserRecord /\ new.group = g /\ new.realm = realm
      /\ new.shoulders = {} /\ ~new.inherit
  BY <1>1, <1>3 DEF UserRecord
<1> HIDE DEF new
<1>5. QED
  BY <1>2, <1>4 DEF TypeOK, realm

LEMMA UserFormEffect ==
    ASSUME TypeOK, NEW u \in Users, UserForm(u)
    PROVE  \E inherit \in BOOLEAN, chosen \in SUBSET Shoulders, proxies \in SUBSET Users,
              role \in Roles, login \in BOOLEAN :
                UserAdmin(u, inherit, chosen, proxies, role, login)
<1> DEFINE old == users[u]
<1>1. /\ old \in UserRecord /\ old.inherit \in BOOLEAN /\ old.shoulders \in SUBSET Shoulders
      /\ old.proxies \in SUBSET Users /\ old.role \in Roles /\ old.login \in BOOLEAN
      /\ groups[old.group].shoulders \in SUBSET Shoulders
  BY DEF TypeOK, UserRecord, GroupRecord
<1>2. CASE \E inherit \in BOOLEAN, chosen \in SUBSET groups[old.group].shoulders :
              UserAdmin(u, inherit, chosen, old.proxies, old.role, old.login)
  <2>1. PICK inherit \in BOOLEAN, chosen \in SUBSET groups[old.group].shoulders :
              UserAdmin(u, inherit, chosen, old.proxies, old.role, old.login)
    BY <1>2
  <2>2. chosen \in SUBSET Shoulders
    BY <1>1
  <2> HIDE DEF old
  <2>3. QED
    BY <1>1, <2>1, <2>2
<1>3. CASE \E proxies \in SUBSET Users :
              UserAdmin(u, old.inherit, old.shoulders, proxies, old.role, old.login)
  <2> HIDE DEF old
  <2>1. QED
    BY <1>1, <1>3
<1>4. CASE \E role \in Roles :
              UserAdmin(u, old.inherit, old.shoulders, old.proxies, role, old.login)
  <2> HIDE DEF old
  <2>1. QED
    BY <1>1, <1>4
<1>5. CASE \E login \in BOOLEAN \ {old.login} :
              UserAdmin(u, old.inherit, old.shoulders, old.proxies, old.role, login)
  <2> HIDE DEF old
  <2>1. QED
    BY <1>1, <1>5
<1>6. QED
  BY <1>2, <1>3, <1>4, <1>5 DEF UserForm

LEMMA EditTyped ==
    ASSUME TypeOK, Edit
    PROVE  edits' \in 0 .. MaxEdits
  BY AccountsAssumption DEF TypeOK, Edit

LEMMA RecordsTyped ==
    ASSUME TypeOK, Edit, users' \in [Users -> UserRecord], groups' \in [Groups -> GroupRecord],
           UNCHANGED <<rows, request, mover, unsettled, overtaken>>
    PROVE  TypeOK'
<1>1. edits' \in 0 .. MaxEdits
  BY EditTyped
<1>2. QED
  BY <1>1 DEF TypeOK

LEMMA GroupAdminKeeps ==
    ASSUME Records, NEW g \in Groups, NEW new \in SUBSET Shoulders, GroupAdmin(g, new)
    PROVE  Records'
<1>1. TypeOK
  BY DEF Records
<1>2. TypeOK'
  <2>1. Edit /\ UNCHANGED <<rows, request, mover, unsettled, overtaken>>
    BY DEF GroupAdmin
  <2>2. users' \in [Users -> UserRecord] /\ groups' \in [Groups -> GroupRecord]
    BY <1>1, GroupAdminEffect
  <2>3. QED
    BY <1>1, <2>1, <2>2, RecordsTyped
<1>3. RealmsAgree'
  BY <1>1, GroupAdminEffect DEF Records, RealmsAgree, TypeOK, UserRecord
<1>4. ASSUME NEW u \in Users
      PROVE  /\ users'[u].shoulders \subseteq groups'[users'[u].group].shoulders
             /\ users'[u].inherit => users'[u].shoulders = groups'[users'[u].group].shoulders
  <2>1. users[u] \in UserRecord /\ groups[g] \in GroupRecord
    BY <1>1 DEF TypeOK
  <2>2. /\ users[u].shoulders \subseteq groups[users[u].group].shoulders
        /\ users[u].inherit => users[u].shoulders = groups[users[u].group].shoulders
    BY DEF Records, ShouldersWithinGroup
  <2>3. groups'[g].shoulders = new /\ \A h \in Groups \ {g} : groups'[h] = groups[h]
    BY <1>1, <2>1 DEF GroupAdmin, TypeOK, GroupRecord
  <2>4. CASE users[u].group # g
    <3>1. users'[u] = users[u]
      BY <2>4 DEF GroupAdmin, Members
    <3>2. QED
      BY <2>1, <2>2, <2>3, <2>4, <3>1 DEF UserRecord
  <2>5. CASE users[u].group = g
    <3> DEFINE old == groups[g].shoulders
               kept == (users[u].shoulders \ (old \ new)) \union
                       (IF users[u].inherit THEN new \ old ELSE {})
    <3>1. users'[u] = [users[u] EXCEPT !.shoulders = kept]
      BY <2>5 DEF GroupAdmin, Members
    <3>2. users[u].shoulders \subseteq old /\ (users[u].inherit => users[u].shoulders = old)
      BY <2>2, <2>5
    <3>3. kept \subseteq new /\ (users[u].inherit => kept = new)
      BY <3>2
    <3> HIDE DEF kept
    <3>4. users'[u].shoulders = kept /\ users'[u].inherit = users[u].inherit
          /\ users'[u].group = g
      BY <2>1, <2>5, <3>1 DEF UserRecord
    <3>5. QED
      BY <2>3, <3>3, <3>4
  <2>6. QED
    BY <2>4, <2>5
<1>5. QED
  BY <1>2, <1>3, <1>4 DEF Records, ShouldersWithinGroup

LEMMA UserAdminKeeps ==
    ASSUME Records, NEW u \in Users, NEW inherit \in BOOLEAN, NEW chosen \in SUBSET Shoulders,
           NEW proxies \in SUBSET Users, NEW role \in Roles, NEW login \in BOOLEAN,
           UserAdmin(u, inherit, chosen, proxies, role, login)
    PROVE  Records'
<1>1. TypeOK
  BY DEF Records
<1>2. groups' = groups /\ (inherit \/ chosen \subseteq groups[users[u].group].shoulders)
  BY DEF UserAdmin
<1>3. TypeOK'
  <2>1. Edit /\ UNCHANGED <<rows, request, mover, unsettled, overtaken>>
    BY DEF UserAdmin
  <2>2. users' \in [Users -> UserRecord] /\ groups' \in [Groups -> GroupRecord]
    BY <1>1, UserAdminEffect DEF TypeOK, UserAdmin
  <2>3. QED
    BY <1>1, <2>1, <2>2, RecordsTyped
<1>4. RealmsAgree'
  BY <1>1, <1>2, UserAdminEffect DEF Records, RealmsAgree
<1>5. ShouldersWithinGroup'
  BY <1>1, <1>2, UserAdminEffect DEF Records, ShouldersWithinGroup
<1>6. QED
  BY <1>3, <1>4, <1>5 DEF Records

LEMMA AccountEditKeeps ==
    ASSUME Records, NEW u \in Users, NEW picked \in SUBSET Users, AccountEdit(u, picked)
    PROVE  Records'
<1>1. TypeOK /\ groups' = groups
  BY DEF Records, AccountEdit
<1>2. TypeOK'
  <2>1. Edit /\ UNCHANGED <<rows, request, mover, unsettled, overtaken>>
    BY DEF AccountEdit
  <2>2. users' \in [Users -> UserRecord] /\ groups' \in [Groups -> GroupRecord]
    BY <1>1, AccountEditEffect DEF TypeOK, AccountEdit
  <2>3. QED
    BY <1>1, <2>1, <2>2, RecordsTyped
<1>3. RealmsAgree' /\ ShouldersWithinGroup'
  BY <1>1, AccountEditEffect DEF Records, RealmsAgree, ShouldersWithinGroup
<1>4. QED
  BY <1>2, <1>3 DEF Records

LEMMA GroupMoveKeeps ==
    ASSUME Records, NEW g \in Groups, NEW realm \in Realms, GroupMove(g, realm)
    PROVE  Records'
<1>1. TypeOK
  BY DEF Records
<1>2. TypeOK'
  <2>1. Edit /\ UNCHANGED <<rows, request, mover, unsettled, overtaken>>
    BY DEF GroupMove
  <2>2. users' \in [Users -> UserRecord] /\ groups' \in [Groups -> GroupRecord]
    BY <1>1, GroupMoveEffect
  <2>3. QED
    BY <1>1, <2>1, <2>2, RecordsTyped
<1>3. \A v \in Users : users[v].group \in Groups
  BY <1>1 DEF TypeOK, UserRecord
<1>4. RealmsAgree' /\ ShouldersWithinGroup'
  BY <1>1, <1>3, GroupMoveEffect DEF Records, RealmsAgree, ShouldersWithinGroup
<1>5. QED
  BY <1>2, <1>4 DEF Records

LEMMA MoveUserKeeps ==
    ASSUME Records, NEW u \in Users, NEW g \in Groups, MoveUser(u, g)
    PROVE  Records'
<1>1. TypeOK /\ groups' = groups
  BY DEF Records, MoveUser
<1>2. mover' \in Moves
  BY AccountsAssumption DEF MoveUser, Moves, Ids
<1>3. TypeOK'
  <2>1. /\ Edit /\ UNCHANGED <<groups, rows, request>>
        /\ unsettled' = unsettled \union {u}
    BY DEF MoveUser
  <2>2. edits' \in 0 .. MaxEdits /\ users' \in [Users -> UserRecord]
    BY <1>1, <2>1, EditTyped, MoveUserEffect
  <2>3. overtaken' \subseteq Ids
    <3>1. overtaken' = overtaken \union
             {request[r].id : r \in {q \in Requests : request[q] # Idle /\ request[q].row.owner = u}}
      BY DEF MoveUser
    <3>2. \A r \in Requests : request[r] # Idle => request[r].id \in Ids
      BY <1>1 DEF TypeOK
    <3>3. QED
      BY <1>1, <3>1, <3>2 DEF TypeOK
  <2>4. QED
    BY <1>1, <1>2, <2>1, <2>2, <2>3 DEF TypeOK
<1>4. RealmsAgree' /\ ShouldersWithinGroup'
  BY <1>1, MoveUserEffect DEF Records, RealmsAgree, ShouldersWithinGroup
<1>5. QED
  BY <1>3, <1>4 DEF Records

-----------------------------------------------------------------------------
(* Requests and user-move, which leave the records alone                   *)

LEMMA RecordsKept ==
    ASSUME Records, UNCHANGED <<users, groups>>, TypeOK'
    PROVE  Records'
  BY DEF Records, RealmsAgree, ShouldersWithinGroup

\* A request that loads: its copy carries the owner's group.
Loads(r, i, row) ==
    /\ request[r] = Idle
    /\ \E new \in BOOLEAN :
           request' = [request EXCEPT ![r] = [id |-> i, row |-> row, new |-> new]]
    /\ row \in Row /\ row.group = users[row.owner].group
    /\ UNCHANGED <<users, groups, rows, mover, unsettled, overtaken, edits>>

LEMMA CreateLoads ==
    ASSUME TypeOK, NEW r \in Requests, NEW u \in Users, NEW i \in Ids, NEW o \in Users,
           Create(r, u, i, o) \/ HandOver(r, u, i, o)
    PROVE  \E row : Loads(r, i, row)
<1> DEFINE row == [owner |-> o, group |-> users[o].group]
<1>1. row \in Row /\ row.group = users[row.owner].group
  BY DEF Row, TypeOK, UserRecord
<1>2. request[r] = Idle /\ UNCHANGED <<users, groups, rows, mover, unsettled, overtaken, edits>>
  BY DEF Create, HandOver, Answerable, UnchangedRecords
<1>3. \E new \in BOOLEAN : request' = [request EXCEPT ![r] = [id |-> i, row |-> row, new |-> new]]
  BY DEF Create, HandOver
<1> HIDE DEF row
<1>4. QED
  BY <1>1, <1>2, <1>3 DEF Loads

LEMMA UpdateLoads ==
    ASSUME TypeOK, NEW r \in Requests, NEW u \in Users, NEW i \in Ids, Update(r, u, i)
    PROVE  \E row : Loads(r, i, row)
<1>1. rows[i] \in Row /\ rows[i].group = users[rows[i].owner].group
  BY DEF Update, TypeOK
<1>2. request[r] = Idle /\ UNCHANGED <<users, groups, rows, mover, unsettled, overtaken, edits>>
  BY DEF Update, Answerable, UnchangedRecords
<1>3. request' = [request EXCEPT ![r] = [id |-> i, row |-> rows[i], new |-> FALSE]]
  BY DEF Update
<1>4. QED
  BY <1>1, <1>2, <1>3 DEF Loads

LEMMA LoadsTyped ==
    ASSUME TypeOK, NEW r \in Requests, NEW i \in Ids, NEW row, Loads(r, i, row)
    PROVE  TypeOK'
<1>1. PICK new \in BOOLEAN :
          request' = [request EXCEPT ![r] = [id |-> i, row |-> row, new |-> new]]
  BY DEF Loads
<1>2. [id |-> i, row |-> row, new |-> new] \in [id : Ids, row : Row, new : BOOLEAN]
  BY DEF Loads
<1>3. request' \in [Requests -> [id : Ids, row : Row, new : BOOLEAN] \union {Idle}]
  BY <1>1, <1>2 DEF TypeOK
<1>4. QED
  BY <1>3 DEF TypeOK, Loads

\* What a save writes.
LEMMA SaveEffect ==
    ASSUME TypeOK, NEW r \in Requests, Save(r)
    PROVE  /\ request[r].id \in Ids /\ request[r].row \in Row
           /\ rows' = rows \/ rows' = [rows EXCEPT ![request[r].id] = request[r].row]
           /\ request' = [request EXCEPT ![r] = Idle]
           /\ UNCHANGED <<users, groups, mover, unsettled, overtaken, edits>>
<1>1. request[r] \in [id : Ids, row : Row, new : BOOLEAN]
  BY DEF Save, TypeOK
<1>2. QED
  BY <1>1 DEF Save, UnchangedRecords

LEMMA SaveTyped ==
    ASSUME TypeOK, NEW r \in Requests, Save(r)
    PROVE  TypeOK'
<1>1. rows' \in [Ids -> Row \union {NoRow}]
  BY SaveEffect DEF TypeOK
<1>2. request' \in [Requests -> [id : Ids, row : Row, new : BOOLEAN] \union {Idle}]
  BY SaveEffect DEF TypeOK
<1>3. QED
  BY <1>1, <1>2, SaveEffect DEF TypeOK

\* The pages of user-move.
LEMMA NextPageEffect ==
    ASSUME TypeOK, NextPage
    PROVE  /\ mover \in Moves /\ mover.page = {} /\ mover.copy = Idle
           /\ UNCHANGED <<users, groups, rows, request, overtaken, edits>>
           /\ \/ /\ Rest = {} /\ mover' = Idle /\ unsettled' = unsettled \ {mover.user}
              \/ /\ unsettled' = unsettled
                 /\ mover' \in Moves /\ mover'.user = mover.user /\ mover'.copy = Idle
                 /\ mover'.page = {i \in Rest : i <= mover'.lastId}
<1>1. mover \in Moves /\ mover.page = {} /\ mover.copy = Idle
  BY DEF NextPage, BetweenPages, TypeOK
<1>2. UNCHANGED <<users, groups, rows, request, overtaken, edits>>
  BY DEF NextPage
<1>3. CASE Rest = {}
  BY <1>1, <1>2, <1>3 DEF NextPage, Succeed
<1>4. CASE Rest # {}
  <2>1. ReadPage /\ UNCHANGED unsettled
    BY <1>4 DEF NextPage
  <2>2. PICK last \in Rest :
            mover' = [mover EXCEPT !.page = {i \in Rest : i <= last}, !.lastId = last]
    BY <2>1 DEF ReadPage
  <2> DEFINE page == {i \in Rest : i <= last}
  <2>3. last \in 0 .. LastId /\ page \in SUBSET Ids
    BY DEF Rest, Owned, Ids
  <2> HIDE DEF page
  <2>4. mover' = [mover EXCEPT !.page = page, !.lastId = last]
    BY <2>2 DEF page
  <2>5. /\ mover' \in Moves /\ mover'.user = mover.user /\ mover'.copy = Idle
        /\ mover'.page = page /\ mover'.lastId = last
    BY <1>1, <2>3, <2>4 DEF Moves
  <2>6. QED
    BY <1>1, <1>2, <2>1, <2>5 DEF page
<1>5. QED
  BY <1>3, <1>4

LEMMA MoveLoadEffect ==
    ASSUME TypeOK, PageExists, MoveLoad
    PROVE  /\ mover \in Moves /\ mover.copy = Idle
           /\ UNCHANGED <<users, groups, rows, request, unsettled, overtaken, edits>>
           /\ \/ mover' = Idle
              \/ \E i \in mover.page :
                   /\ mover' \in Moves /\ mover'.user = mover.user
                   /\ mover'.lastId = mover.lastId
                   /\ mover'.page = mover.page \ {i} /\ mover'.id = i
                   /\ mover'.copy \in Row
                   /\ mover'.copy.group = users[mover'.copy.owner].group
<1>1. mover \in Moves /\ mover # Idle /\ mover.copy = Idle
  BY DEF MoveLoad, TypeOK
<1>2. UNCHANGED <<users, groups, rows, request, unsettled, overtaken, edits>>
  BY DEF MoveLoad
<1> DEFINE newGroup == users[mover.user].group
           Copy(i) == [owner |-> rows[i].owner, group |-> newGroup]
<1>3. PICK i \in mover.page :
         mover' = IF users[rows[i].owner].group = newGroup
                  THEN [mover EXCEPT !.page = mover.page \ {i}, !.id = i, !.copy = Copy(i)]
                  ELSE Idle
  BY DEF MoveLoad
<1>4. rows[i] \in Row /\ i \in Ids
  BY <1>1 DEF PageExists, TypeOK, Moves
<1>5. /\ Copy(i) \in Row /\ Copy(i).owner = rows[i].owner /\ Copy(i).group = newGroup
  BY <1>1, <1>4 DEF Row, Moves, TypeOK, UserRecord
<1> HIDE DEF Copy
<1>6. CASE users[rows[i].owner].group = newGroup
  <2> DEFINE page == mover.page \ {i}
             copy == Copy(i)
  <2>1. page \in SUBSET Ids /\ copy \in Row
    BY <1>1, <1>5 DEF Moves
  <2>2. copy.group = users[copy.owner].group
    BY <1>5, <1>6
  <2> HIDE DEF page, copy
  <2>3. mover' = [mover EXCEPT !.page = page, !.id = i, !.copy = copy]
    BY <1>3, <1>6 DEF page, copy
  <2>4. /\ mover' \in Moves /\ mover'.user = mover.user /\ mover'.lastId = mover.lastId
        /\ mover'.page = page /\ mover'.id = i /\ mover'.copy = copy
    BY <1>1, <1>4, <2>1, <2>3 DEF Moves
  <2>5. QED
    BY <1>1, <1>2, <2>1, <2>2, <2>4 DEF page
<1>7. CASE users[rows[i].owner].group # newGroup
  BY <1>1, <1>2, <1>3, <1>7
<1>8. QED
  BY <1>6, <1>7

LEMMA MoveSaveEffect ==
    ASSUME TypeOK, MoveSave
    PROVE  /\ mover \in Moves /\ mover.copy \in Row /\ mover.copy # Idle
           /\ UNCHANGED <<users, groups, request, unsettled, overtaken, edits>>
           /\ rows' = [rows EXCEPT ![mover.id] = mover.copy]
           /\ mover' \in Moves /\ mover'.copy = Idle /\ mover'.user = mover.user
           /\ mover'.lastId = mover.lastId /\ mover'.page = mover.page
<1>1. mover \in Moves /\ mover.copy \in Row /\ mover.copy # Idle
  BY DEF MoveSave, TypeOK, Moves
<1>2. mover' = [mover EXCEPT !.copy = Idle]
  BY DEF MoveSave
<1>3. QED
  BY <1>1, <1>2 DEF MoveSave, Moves

LEMMA MoverTyped ==
    ASSUME Records, PageExists, NextPage \/ MoveLoad \/ MoveSave \/ MoveFails
    PROVE  Records'
<1>1. TypeOK
  BY DEF Records
<1>2. CASE NextPage
  BY <1>1, <1>2, NextPageEffect, RecordsKept DEF TypeOK
<1>3. CASE MoveLoad
  BY <1>1, <1>3, MoveLoadEffect, RecordsKept DEF TypeOK
<1>4. CASE MoveSave
  <2>1. mover.id \in Ids
    BY <1>1, <1>4, MoveSaveEffect DEF Moves
  <2>2. rows' \in [Ids -> Row \union {NoRow}]
    BY <1>1, <1>4, <2>1, MoveSaveEffect DEF TypeOK
  <2>3. QED
    BY <1>1, <1>4, <2>2, MoveSaveEffect, RecordsKept DEF TypeOK
<1>5. CASE MoveFails
  BY <1>1, <1>5, RecordsKept DEF TypeOK, MoveFails
<1>6. QED
  BY <1>2, <1>3, <1>4, <1>5

-----------------------------------------------------------------------------
(* The steps of the specification                                          *)

\* An edit that moves nobody.
MovesNobody ==
    /\ Records' /\ UNCHANGED <<rows, request, mover, unsettled, overtaken>>
    /\ \A v \in Users : users'[v].group = users[v].group

LEMMA EditMovesNobody ==
    ASSUME Records,
           \/ \E g \in Groups, new \in SUBSET Shoulders : GroupAdmin(g, new)
           \/ \E g \in Groups, realm \in Realms : GroupMove(g, realm)
           \/ \E u \in Users : UserForm(u)
           \/ \E u, p \in Users : AccountEdit(u, {p})
    PROVE  MovesNobody
<1>1. TypeOK
  BY DEF Records
<1>2. ASSUME NEW g \in Groups, NEW new \in SUBSET Shoulders, GroupAdmin(g, new)
      PROVE  MovesNobody
  <2>1. UNCHANGED <<rows, request, mover, unsettled, overtaken>>
    BY <1>2 DEF GroupAdmin
  <2>2. QED
    BY <1>1, <1>2, <2>1, GroupAdminKeeps, GroupAdminEffect DEF MovesNobody
<1>3. ASSUME NEW g \in Groups, NEW realm \in Realms, GroupMove(g, realm)
      PROVE  MovesNobody
  <2>1. UNCHANGED <<rows, request, mover, unsettled, overtaken>>
    BY <1>3 DEF GroupMove
  <2>2. QED
    BY <1>1, <1>3, <2>1, GroupMoveKeeps, GroupMoveEffect DEF MovesNobody
<1>4. ASSUME NEW u \in Users, UserForm(u)
      PROVE  MovesNobody
  <2>1. PICK inherit \in BOOLEAN, chosen \in SUBSET Shoulders, proxies \in SUBSET Users,
             role \in Roles, login \in BOOLEAN :
                UserAdmin(u, inherit, chosen, proxies, role, login)
    BY <1>1, <1>4, UserFormEffect
  <2>2. UNCHANGED <<rows, request, mover, unsettled, overtaken>>
    BY <2>1 DEF UserAdmin
  <2>3. Records'
    BY <2>1, UserAdminKeeps
  <2>4. \A v \in Users : users'[v].group = users[v].group
    BY <1>1, <2>1, UserAdminEffect
  <2>5. QED
    BY <2>2, <2>3, <2>4 DEF MovesNobody
<1>5. ASSUME NEW u \in Users, NEW p \in Users, AccountEdit(u, {p})
      PROVE  MovesNobody
  <2>1. UNCHANGED <<rows, request, mover, unsettled, overtaken>>
    BY <1>5 DEF AccountEdit
  <2>2. {p} \in SUBSET Users
    OBVIOUS
  <2>3. QED
    BY <1>1, <1>5, <2>1, <2>2, AccountEditKeeps, AccountEditEffect DEF MovesNobody
<1>6. QED
  BY <1>2, <1>3, <1>4, <1>5

\* Every step is one of these.
LEMMA Steps ==
    ASSUME Records, Next
    PROVE  \/ MovesNobody
           \/ \E u \in Users, g \in Groups : MoveUser(u, g)
           \/ \E r \in Requests, i \in Ids : \E row : Loads(r, i, row)
           \/ \E r \in Requests : Save(r)
           \/ NextPage \/ MoveLoad \/ MoveSave \/ MoveFails
<1>1. TypeOK
  BY DEF Records
<1>2. CASE \/ \E g \in Groups, new \in SUBSET Shoulders : GroupAdmin(g, new)
           \/ \E g \in Groups, realm \in Realms : GroupMove(g, realm)
           \/ \E u \in Users : UserForm(u)
           \/ \E u, p \in Users : AccountEdit(u, {p})
  BY <1>2, EditMovesNobody
<1>3. CASE \E r \in Requests, u \in Users, i \in Ids :
              \/ Update(r, u, i)
              \/ \E o \in Users : Create(r, u, i, o) \/ HandOver(r, u, i, o)
  BY <1>1, <1>3, CreateLoads, UpdateLoads
<1>4. QED
  BY <1>2, <1>3 DEF Next

\* No step removes a row.
LEMMA RowsRemain ==
    ASSUME Records, Next, NEW i \in Ids, rows[i] # NoRow
    PROVE  rows'[i] # NoRow
<1>1. TypeOK
  BY DEF Records
<1>2. ASSUME NEW r \in Requests, Save(r) PROVE rows'[i] # NoRow
  BY <1>1, <1>2, SaveEffect, RowAssumption DEF TypeOK
<1>3. CASE MoveSave
  BY <1>1, <1>3, MoveSaveEffect, RowAssumption DEF TypeOK, Moves
<1>4. ASSUME NEW u \in Users, NEW g \in Groups, MoveUser(u, g) PROVE rows' = rows
  BY <1>4 DEF MoveUser
<1>5. ASSUME NEW r \in Requests, NEW j \in Ids, NEW row, Loads(r, j, row) PROVE rows' = rows
  BY <1>5 DEF Loads
<1>6. MovesNobody \/ NextPage \/ MoveLoad \/ MoveFails => rows' = rows
  BY DEF MovesNobody, NextPage, MoveLoad, MoveFails
<1>7. QED
  BY <1>2, <1>3, <1>4, <1>5, <1>6, Steps

LEMMA InitRecords ==
    ASSUME Init
    PROVE  IInv
<1>1. groups \in [Groups -> GroupRecord] /\ users \in [Users -> UserRecord]
  <2>1. ASSUME NEW g \in Groups PROVE groups[g] \in GroupRecord
    BY DEF Init, GroupRecord
  <2>2. ASSUME NEW u \in Users PROVE users[u] \in UserRecord
    BY DEF Init, UserRecord, Roles
  <2>3. QED
    BY <2>1, <2>2 DEF Init
<1>2. TypeOK
  BY <1>1, AccountsAssumption DEF Init, TypeOK
<1>3. RealmsAgree
  BY DEF Init, RealmsAgree
<1>4. ShouldersWithinGroup
  BY DEF Init, ShouldersWithinGroup
<1>5. NoneLeftBehind
  <2>1. \A i \in Ids : rows[i] # NoRow => i = 1
    BY AccountsAssumption DEF Init, Ids
  <2>2. QED
    BY <2>1 DEF Init, NoneLeftBehind, Owned
<1>6. PageExists /\ CopiesFresh /\ BehindMover
  BY DEF Init, PageExists, CopiesFresh, BehindMover
<1>7. QED
  BY <1>2, <1>3, <1>4, <1>5, <1>6 DEF IInv, Records

LEMMA RecordsStep ==
    ASSUME Records, PageExists, [Next]_vars
    PROVE  Records' /\ PageExists'
<1>1. CASE UNCHANGED vars
  BY <1>1 DEF vars, Records, PageExists, TypeOK, RealmsAgree, ShouldersWithinGroup
<1>2. CASE Next
  <2>1. TypeOK
    BY DEF Records
  <2>2. Records'
    <3>1. CASE MovesNobody
      BY <3>1 DEF MovesNobody
    <3>2. ASSUME NEW u \in Users, NEW g \in Groups, MoveUser(u, g) PROVE Records'
      BY <3>2, MoveUserKeeps
    <3>3. ASSUME NEW r \in Requests, NEW i \in Ids, NEW row, Loads(r, i, row) PROVE Records'
      <4>1. TypeOK'
        BY <2>1, <3>3, LoadsTyped
      <4>2. QED
        BY <3>3, <4>1, RecordsKept DEF Loads
    <3>4. ASSUME NEW r \in Requests, Save(r) PROVE Records'
      <4>1. TypeOK'
        BY <2>1, <3>4, SaveTyped
      <4>2. QED
        BY <2>1, <3>4, <4>1, SaveEffect, RecordsKept
    <3>5. CASE NextPage \/ MoveLoad \/ MoveSave \/ MoveFails
      BY <3>5, MoverTyped
    <3>6. QED
      BY <1>2, <3>1, <3>2, <3>3, <3>4, <3>5, Steps
  <2>3. ASSUME mover' = mover PROVE PageExists'
    <3>1. mover # Idle => mover.page \subseteq Ids
      BY <2>1 DEF TypeOK, Moves
    <3>2. QED
      BY <1>2, <2>3, <3>1, RowsRemain DEF PageExists
  <2>4. PageExists'
    <3>1. ASSUME NEW u \in Users, NEW g \in Groups, MoveUser(u, g) PROVE PageExists'
      BY <3>1 DEF MoveUser, PageExists
    <3>2. CASE NextPage
      <4>1. CASE mover' = Idle
        BY <4>1 DEF PageExists
      <4>2. CASE mover'.page = {i \in Rest : i <= mover'.lastId} /\ rows' = rows
        BY <4>2 DEF PageExists, Rest, Owned
      <4>3. QED
        BY <2>1, <3>2, <4>1, <4>2, NextPageEffect
    <3>3. CASE MoveLoad
      <4>1. CASE mover' = Idle
        BY <4>1 DEF PageExists
      <4>2. CASE \E i \in mover.page : mover'.page = mover.page \ {i}
        BY <2>1, <3>3, <4>2, MoveLoadEffect DEF PageExists, MoveLoad
      <4>3. QED
        BY <2>1, <3>3, <4>1, <4>2, MoveLoadEffect
    <3>4. CASE MoveSave
      <4>1. mover.page \subseteq Ids /\ mover # Idle /\ mover'.page = mover.page
        BY <2>1, <3>4, MoveSaveEffect DEF Moves, MoveSave
      <4>2. QED
        BY <1>2, <4>1, RowsRemain DEF PageExists
    <3>5. CASE MoveFails
      BY <3>5 DEF MoveFails, PageExists
    <3>6. ASSUME NEW r \in Requests, Save(r) PROVE mover' = mover
      BY <2>1, <3>6, SaveEffect
    <3>7. ASSUME NEW r \in Requests, NEW i \in Ids, NEW row, Loads(r, i, row)
          PROVE  mover' = mover
      BY <3>7 DEF Loads
    <3>8. MovesNobody => mover' = mover
      BY DEF MovesNobody
    <3>9. QED
      BY <1>2, <2>3, <3>1, <3>2, <3>3, <3>4, <3>5, <3>6, <3>7, <3>8, Steps
  <2>5. QED
    BY <2>2, <2>4
<1>3. QED
  BY <1>1, <1>2

LEMMA RecordsAlways == Spec => [](Records /\ PageExists)
<1>1. Init => Records /\ PageExists
  BY InitRecords DEF IInv
<1>2. (Records /\ PageExists) /\ [Next]_vars => (Records /\ PageExists)'
  BY RecordsStep
<1>3. QED
  BY <1>1, <1>2, PTL DEF Spec

\* Every user's and group's record, every row, every request and the move are
\* what their tables can hold.
THEOREM AccountsTyped == Spec => []TypeOK
<1>1. Records /\ PageExists => TypeOK
  BY DEF Records
<1>2. QED
  BY <1>1, RecordsAlways, PTL

\* The forms of the group and of the user, and both moves, keep a user's
\* shoulders among the group's, and equal to them for one who inherits.
THEOREM ShouldersKept == Spec => []ShouldersWithinGroup
<1>1. Records /\ PageExists => ShouldersWithinGroup
  BY DEF Records
<1>2. QED
  BY <1>1, RecordsAlways, PTL

\* The rules for downloads, for updates and for changes of owner give the same
\* answer, because the copy of the realm that each reads is the group's.
THEOREM RulesAgree == Spec => []PolicyAgrees
<1>1. ASSUME Records PROVE PolicyAgrees
  <2>1. TypeOK /\ RealmsAgree
    BY <1>1 DEF Records
  <2>2. ASSUME NEW u \in Users, NEW o \in Users
        PROVE  authorizeDownload(u, o) <=> (userCanUpdateWhenOwnedBy(u, o) \/ IsSuperuser(u))
    BY <2>1 DEF RealmsAgree, authorizeDownload, userCanUpdateWhenOwnedBy
  <2>3. ASSUME NEW u \in Users, NEW o \in Users, NEW i \in Owned(o),
               rows[i].group = users[o].group
        PROVE  authorizeDownload(u, o) <=> authorizeUpdate(u, rows[i])
    BY <2>3 DEF authorizeDownload, authorizeUpdate, Owned
  <2>4. QED
    BY <2>2, <2>3 DEF PolicyAgrees
<1>2. QED
  BY <1>1, RecordsAlways, PTL

-----------------------------------------------------------------------------
(* user-move                                                               *)

LEMMA MovesNobodyStep ==
    ASSUME IInv, MovesNobody
    PROVE  NoneLeftBehind' /\ CopiesFresh' /\ BehindMover'
<1>1. /\ TypeOK /\ UNCHANGED <<rows, request, mover, unsettled, overtaken>>
      /\ \A v \in Users : users'[v].group = users[v].group
  BY DEF IInv, Records, MovesNobody
<1>2. \A r \in Requests : request[r] # Idle => request[r].row.owner \in Users
  BY <1>1 DEF TypeOK, Row
<1>3. mover # Idle => mover.user \in Users /\ (mover.copy # Idle => mover.copy.owner \in Users)
  BY <1>1 DEF TypeOK, Moves, Row
<1>4. NoneLeftBehind'
  BY <1>1 DEF IInv, NoneLeftBehind, Owned
<1>5. CopiesFresh'
  BY <1>1, <1>2, <1>3 DEF IInv, CopiesFresh
<1>6. BehindMover'
  BY <1>1, <1>3 DEF IInv, BehindMover, Owned
<1>7. QED
  BY <1>4, <1>5, <1>6

LEMMA MoveUserStep ==
    ASSUME IInv, NEW u \in Users, NEW g \in Groups, MoveUser(u, g)
    PROVE  NoneLeftBehind' /\ CopiesFresh' /\ BehindMover'
<1>1. TypeOK
  BY DEF IInv, Records
<1>2. /\ request' = request /\ rows' = rows /\ unsettled' = unsettled \union {u}
      /\ overtaken' = overtaken \union
             {request[r].id : r \in {q \in Requests : request[q] # Idle /\ request[q].row.owner = u}}
      /\ mover' = [user |-> u, lastId |-> 0, page |-> {}, id |-> 1, copy |-> Idle]
  BY DEF MoveUser
<1>3. \A v \in Users \ {u} : users'[v] = users[v]
  BY <1>1, MoveUserEffect
<1>4. NoneLeftBehind'
  <2>1. \A v \in Users \ unsettled' : v \in (Users \ unsettled) \ {u}
    BY <1>2
  <2>2. \A v \in Users : Owned(v)' \ overtaken' \subseteq Owned(v) \ overtaken
    BY <1>2 DEF Owned
  <2>3. QED
    BY <1>2, <1>3, <2>1, <2>2 DEF IInv, NoneLeftBehind
<1>5. CopiesFresh'
  <2>1. ASSUME NEW r \in Requests, request[r] # Idle, request[r].id \notin overtaken'
        PROVE  request[r].row.group = users'[request[r].row.owner].group
    <3>1. request[r].id \notin overtaken /\ request[r].row.owner # u
      BY <1>2, <2>1
    <3>2. request[r].row.owner \in Users \ {u}
      BY <1>1, <2>1, <3>1 DEF TypeOK, Row
    <3>3. QED
      BY <1>3, <2>1, <3>1, <3>2 DEF IInv, CopiesFresh
  <2>2. mover' # Idle => mover'.copy = Idle
    BY <1>2
  <2>3. QED
    BY <1>2, <2>1, <2>2 DEF CopiesFresh
<1>6. mover'.user = u /\ mover'.lastId = 0
  BY <1>2
<1>7. \A i \in Ids : ~(i <= 0)
  BY AccountsAssumption DEF Ids
<1>8. BehindMover'
  BY <1>2, <1>6, <1>7 DEF BehindMover, Owned
<1>9. QED
  BY <1>4, <1>5, <1>8

LEMMA LoadsStep ==
    ASSUME IInv, NEW r \in Requests, NEW i \in Ids, NEW row, Loads(r, i, row)
    PROVE  NoneLeftBehind' /\ CopiesFresh' /\ BehindMover'
<1>1. TypeOK /\ UNCHANGED <<users, groups, rows, mover, unsettled, overtaken, edits>>
  BY DEF IInv, Records, Loads
<1>2. PICK new \in BOOLEAN :
          request' = [request EXCEPT ![r] = [id |-> i, row |-> row, new |-> new]]
  BY DEF Loads
<1>3. request'[r].row = row /\ \A q \in Requests \ {r} : request'[q] = request[q]
  BY <1>1, <1>2 DEF TypeOK
<1>4. CopiesFresh'
  BY <1>1, <1>3 DEF IInv, CopiesFresh, Loads
<1>5. NoneLeftBehind' /\ BehindMover'
  BY <1>1 DEF IInv, NoneLeftBehind, BehindMover, Owned
<1>6. QED
  BY <1>4, <1>5

\* A row is written that carries its owner's group, unless it is excepted.
LEMMA FreshRow ==
    ASSUME TypeOK, NoneLeftBehind, NEW i \in Ids, NEW row \in Row,
           i \in overtaken \/ row.group = users[row.owner].group,
           rows' = [rows EXCEPT ![i] = row], UNCHANGED <<users, unsettled, overtaken>>
    PROVE  /\ NoneLeftBehind'
           /\ \A u \in Users, j \in Ids : j # i /\ j \in Owned(u)' =>
                  j \in Owned(u) /\ rows'[j] = rows[j]
           /\ i \in overtaken \/ \A u \in Users : i \in Owned(u)' => rows'[i].group = users'[u].group
<1>1. \A u \in Users, j \in Ids : j # i /\ j \in Owned(u)' => j \in Owned(u) /\ rows'[j] = rows[j]
  BY DEF TypeOK, Owned
<1>2. i \in overtaken \/ \A u \in Users : i \in Owned(u)' => rows'[i].group = users'[u].group
  BY DEF TypeOK, Owned
<1>3. \A u \in Users : Owned(u)' \subseteq Ids
  BY DEF Owned
<1>4. NoneLeftBehind'
  BY <1>1, <1>2, <1>3 DEF NoneLeftBehind
<1>5. QED
  BY <1>1, <1>2, <1>4

LEMMA SaveStep ==
    ASSUME IInv, NEW r \in Requests, Save(r)
    PROVE  NoneLeftBehind' /\ CopiesFresh' /\ BehindMover'
<1>1. TypeOK /\ request[r] # Idle
  BY DEF IInv, Records, Save
<1> DEFINE id == request[r].id
           row == request[r].row
<1>2. /\ id \in Ids /\ row \in Row
      /\ rows' = rows \/ rows' = [rows EXCEPT ![id] = row]
      /\ request' = [request EXCEPT ![r] = Idle]
      /\ UNCHANGED <<users, groups, mover, unsettled, overtaken, edits>>
  BY <1>1, SaveEffect
<1>3. id \in overtaken \/ row.group = users[row.owner].group
  BY <1>1 DEF IInv, CopiesFresh
<1>4. CopiesFresh'
  BY <1>1, <1>2 DEF IInv, CopiesFresh, TypeOK
<1> HIDE DEF id, row
<1>5. CASE rows' = rows
  BY <1>2, <1>4, <1>5 DEF IInv, NoneLeftBehind, BehindMover, Owned
<1>6. CASE rows' = [rows EXCEPT ![id] = row]
  <2>1. /\ NoneLeftBehind'
        /\ \A u \in Users, j \in Ids : j # id /\ j \in Owned(u)' =>
               j \in Owned(u) /\ rows'[j] = rows[j]
        /\ id \in overtaken \/ \A u \in Users : id \in Owned(u)' => rows'[id].group = users'[u].group
    BY <1>1, <1>2, <1>3, <1>6, FreshRow DEF IInv
  <2>2. mover # Idle => mover.user \in Users
    BY <1>1 DEF TypeOK, Moves
  <2>3. \A u \in Users : Owned(u)' \subseteq Ids
    BY DEF Owned
  <2>4. BehindMover'
    BY <1>2, <2>1, <2>2, <2>3 DEF IInv, BehindMover
  <2>5. QED
    BY <1>4, <2>1, <2>4
<1>7. QED
  BY <1>2, <1>5, <1>6

LEMMA NextPageStep ==
    ASSUME IInv, NextPage
    PROVE  NoneLeftBehind' /\ CopiesFresh' /\ BehindMover'
<1>1. TypeOK /\ mover # Idle
  BY DEF IInv, Records, NextPage, BetweenPages
<1>2. /\ mover \in Moves /\ mover.page = {} /\ mover.copy = Idle
      /\ UNCHANGED <<users, groups, rows, request, overtaken, edits>>
  BY <1>1, NextPageEffect
<1>3. mover.user \in Users /\ mover.lastId \in Nat
  BY <1>2, AccountsAssumption DEF Moves
<1>4. \A i \in Owned(mover.user) : i \notin Rest => i <= mover.lastId
  BY <1>3, AccountsAssumption DEF Rest, Owned, Ids
<1>5. \A i \in Owned(mover.user) \ overtaken : i \notin Rest => rows[i].group = users[mover.user].group
  BY <1>1, <1>2, <1>4 DEF IInv, BehindMover
<1>6. CASE Rest = {} /\ mover' = Idle /\ unsettled' = unsettled \ {mover.user}
  <2>1. NoneLeftBehind'
    BY <1>2, <1>5, <1>6 DEF IInv, NoneLeftBehind, Owned
  <2>2. QED
    BY <1>2, <1>6, <2>1 DEF IInv, CopiesFresh, BehindMover
<1>7. CASE /\ unsettled' = unsettled
           /\ mover' \in Moves /\ mover'.user = mover.user /\ mover'.copy = Idle
           /\ mover'.page = {i \in Rest : i <= mover'.lastId}
  <2>1. NoneLeftBehind' /\ CopiesFresh'
    BY <1>2, <1>7 DEF IInv, NoneLeftBehind, CopiesFresh, Owned
  <2>2. mover'.user \in unsettled'
    BY <1>1, <1>7 DEF IInv, BehindMover
  <2>3. \A i \in Owned(mover.user) : i <= mover'.lastId /\ i \notin mover'.page => i \notin Rest
    BY <1>7
  <2>4. BehindMover'
    BY <1>2, <1>5, <1>7, <2>2, <2>3 DEF BehindMover, Owned
  <2>5. QED
    BY <2>1, <2>4
<1>8. QED
  BY <1>1, <1>6, <1>7, NextPageEffect

LEMMA MoveLoadStep ==
    ASSUME IInv, MoveLoad
    PROVE  NoneLeftBehind' /\ CopiesFresh' /\ BehindMover'
<1>1. TypeOK /\ PageExists /\ mover # Idle
  BY DEF IInv, Records, MoveLoad
<1>2. mover.copy = Idle /\ UNCHANGED <<users, groups, rows, request, unsettled, overtaken, edits>>
  BY <1>1, MoveLoadEffect
<1>3. NoneLeftBehind'
  BY <1>2 DEF IInv, NoneLeftBehind, Owned
<1>4. CASE mover' = Idle
  BY <1>2, <1>3, <1>4 DEF IInv, CopiesFresh, BehindMover
<1>5. ASSUME NEW i \in mover.page, mover'.user = mover.user, mover'.lastId = mover.lastId,
             mover'.page = mover.page \ {i}, mover'.id = i, mover'.copy \in Row,
             mover'.copy.group = users[mover'.copy.owner].group
      PROVE  CopiesFresh' /\ BehindMover'
  <2>1. mover'.copy # Idle
    BY <1>5, RowAssumption
  <2>2. CopiesFresh'
    BY <1>2, <1>5 DEF IInv, CopiesFresh
  <2>3. BehindMover'
    BY <1>1, <1>2, <1>5, <2>1 DEF IInv, BehindMover, Owned
  <2>4. QED
    BY <2>2, <2>3
<1>6. QED
  BY <1>1, <1>3, <1>4, <1>5, MoveLoadEffect

LEMMA MoveSaveStep ==
    ASSUME IInv, MoveSave
    PROVE  NoneLeftBehind' /\ CopiesFresh' /\ BehindMover'
<1>1. TypeOK /\ mover # Idle
  BY DEF IInv, Records, MoveSave
<1> DEFINE id == mover.id
           row == mover.copy
<1>2. /\ id \in Ids /\ mover.user \in Users /\ row \in Row /\ row # Idle
      /\ UNCHANGED <<users, groups, request, unsettled, overtaken, edits>>
      /\ rows' = [rows EXCEPT ![id] = row]
      /\ mover'.copy = Idle /\ mover'.user = mover.user
      /\ mover'.lastId = mover.lastId /\ mover'.page = mover.page
  BY <1>1, MoveSaveEffect DEF Moves
<1>3. row.group = users[row.owner].group
  BY <1>1, <1>2 DEF IInv, CopiesFresh
<1> HIDE DEF row
<1>4. /\ NoneLeftBehind'
      /\ \A u \in Users, j \in Ids : j # id /\ j \in Owned(u)' =>
             j \in Owned(u) /\ rows'[j] = rows[j]
      /\ id \in overtaken \/ \A u \in Users : id \in Owned(u)' => rows'[id].group = users'[u].group
  <2> HIDE DEF id
  <2>1. QED
    BY <1>1, <1>2, <1>3, FreshRow DEF IInv
<1>5. CopiesFresh'
  BY <1>2 DEF IInv, CopiesFresh
<1>6. \A u \in Users : Owned(u)' \subseteq Ids
  BY DEF Owned
<1>7. BehindMover'
  BY <1>1, <1>2, <1>4, <1>6 DEF IInv, BehindMover
<1>8. QED
  BY <1>4, <1>5, <1>7

LEMMA MovedStep ==
    ASSUME IInv, [Next]_vars
    PROVE  IInv'
<1>1. Records' /\ PageExists'
  BY RecordsStep DEF IInv
<1>2. NoneLeftBehind' /\ CopiesFresh' /\ BehindMover'
  <2>1. CASE UNCHANGED vars
    BY <2>1 DEF vars, IInv, NoneLeftBehind, CopiesFresh, BehindMover, Owned
  <2>2. CASE MoveFails
    BY <2>2 DEF MoveFails, IInv, NoneLeftBehind, CopiesFresh, BehindMover, Owned
  <2>3. Records
    BY DEF IInv
  <2>4. QED
    BY <2>1, <2>2, <2>3, Steps, MovesNobodyStep, MoveUserStep, LoadsStep, SaveStep,
       NextPageStep, MoveLoadStep, MoveSaveStep
<1>3. QED
  BY <1>1, <1>2 DEF IInv

\* A user-move that reports success has moved every identifier of the user,
\* whatever was created, updated or handed over while it went from page to page,
\* but for those that a request already in flight when it began then saved.
THEOREM MovedWhole == Spec => []NoneLeftBehind
<1>1. Init => IInv
  BY InitRecords
<1>2. IInv /\ [Next]_vars => IInv'
  BY MovedStep
<1>3. IInv => NoneLeftBehind
  BY DEF IInv
<1>4. QED
  BY <1>1, <1>2, <1>3, PTL DEF Spec

-----------------------------------------------------------------------------
(* authorizeCreate                                                         *)

\* Every set of numbers but the empty one has a least.
LEMMA LeastOf ==
    ASSUME NEW S \in SUBSET Nat, S # {}
    PROVE  \E m \in S : \A x \in S : m <= x
<1>1. PICK m \in S : \A x \in S : ~(<<x, m>> \in OpToRel(<, Nat))
  BY NatLessThanWellFounded, WFMin
<1>2. ASSUME NEW x \in S PROVE m <= x
  <2>1. m \in Nat /\ x \in Nat
    OBVIOUS
  <2>2. ~(x < m)
    BY <1>1, <2>1 DEF OpToRel
  <2>3. QED
    BY <2>1, <2>2
<1>3. QED
  BY <1>2

\* The answers of calls with room for up to k more.
Answering(s, k, g) ==
    g = [n \in 0 .. k |->
            IF n = 0 THEN [u \in Users |-> {Exhausted}] ELSE answersFrom(s, g[n - 1])]

LEMMA AnsweringExists ==
    ASSUME NEW s, NEW N \in Nat
    PROVE  \E g : Answering(s, N, g)
<1> DEFINE T == {k \in Nat : ~\E g : Answering(s, k, g)}
<1>1. SUFFICES ASSUME T # {} PROVE FALSE
  OBVIOUS
<1>2. PICK k \in T : \A x \in T : k <= x
  BY <1>1, LeastOf
<1>3. CASE k = 0
  <2> DEFINE g == [n \in 0 .. 0 |-> [u \in Users |-> {Exhausted}]]
  <2>1. Answering(s, 0, g)
    BY DEF Answering
  <2>2. QED
    BY <1>2, <1>3, <2>1
<1>4. CASE k # 0
  <2>1. k - 1 \in Nat /\ ~(k <= k - 1)
    BY <1>4
  <2>2. PICK h : Answering(s, k - 1, h)
    BY <1>2, <2>1
  <2> DEFINE g == [n \in 0 .. k |-> IF n = k THEN answersFrom(s, h[k - 1]) ELSE h[n]]
  <2>3. ASSUME NEW n \in 0 .. k
        PROVE  g[n] = IF n = 0 THEN [u \in Users |-> {Exhausted}] ELSE answersFrom(s, g[n - 1])
    <3>1. CASE n = k
      <4>1. k - 1 \in 0 .. k /\ k - 1 # k
        BY <1>4
      <4>2. g[n - 1] = h[k - 1] /\ g[n] = answersFrom(s, h[k - 1])
        BY <3>1, <4>1
      <4>3. QED
        BY <1>4, <3>1, <4>2
    <3>2. CASE n # k
      <4>1. n \in 0 .. k - 1 /\ g[n] = h[n]
        BY <3>2
      <4>2. h[n] = IF n = 0 THEN [u \in Users |-> {Exhausted}] ELSE answersFrom(s, h[n - 1])
        BY <2>2, <4>1 DEF Answering
      <4>3. n # 0 => n - 1 \in 0 .. k /\ n - 1 # k /\ g[n - 1] = h[n - 1]
        BY <4>1
      <4>4. QED
        BY <4>1, <4>2, <4>3
    <3>3. QED
      BY <3>1, <3>2
  <2>4. Answering(s, k, g)
    <3>1. g = [n \in 0 .. k |-> g[n]]
      OBVIOUS
    <3> HIDE DEF g
    <3>2. QED
      BY <2>3, <3>1 DEF Answering
  <2>5. QED
    BY <1>2, <2>4
<1>5. QED
  BY <1>3, <1>4

LEMMA AnswersAre ==
    ASSUME NEW s
    PROVE  \E g : Answering(s, Cardinality(Users), g) /\ answers(s) = g[Cardinality(Users)]
<1> DEFINE N == Cardinality(Users)
           g == CHOOSE f : f = [n \in 0 .. N |->
                    IF n = 0 THEN [u \in Users |-> {Exhausted}] ELSE answersFrom(s, f[n - 1])]
<1>1. N \in Nat
  BY PolicyAssumption, FS_CardinalityType
<1>2. \E f : Answering(s, N, f)
  BY <1>1, AnsweringExists
<1>3. Answering(s, N, g)
  BY <1>2 DEF Answering
<1>4. answers(s) = g[N]
  BY DEF answers
<1>5. QED
  BY <1>3, <1>4

\* Who acts for whom: for oneself, and for those that one's proxied act for.
LEMMA ActsForClosed ==
    ASSUME NEW u \in Users
    PROVE  u \in ActsFor(u) /\ ActsFor(u) \subseteq Users /\ Closed(ActsFor(u))
<1>1. ASSUME NEW v \in ActsFor(u), NEW w \in proxy_for(v) PROVE w \in ActsFor(u)
  <2>1. w \in Users
    BY DEF proxy_for
  <2>2. ASSUME NEW S \in SUBSET Users, u \in S, Closed(S) PROVE w \in S
    BY <2>2 DEF ActsFor, Closed
  <2>3. QED
    BY <2>1, <2>2 DEF ActsFor
<1>2. QED
  BY <1>1 DEF ActsFor, Closed

LEMMA ActsForStep ==
    ASSUME NEW u \in Users
    PROVE  \A w : w \in ActsFor(u) <=> w = u \/ \E v \in proxy_for(u) : w \in ActsFor(v)
<1> DEFINE R == {w \in Users : w = u \/ \E v \in proxy_for(u) : w \in ActsFor(v)}
<1>1. proxy_for(u) \subseteq Users
  BY DEF proxy_for
<1>2. R \in SUBSET Users /\ u \in R
  OBVIOUS
<1>3. Closed(R)
  <2> SUFFICES ASSUME NEW w \in R, NEW x \in proxy_for(w) PROVE x \in R
    BY DEF Closed
  <2>1. x \in Users
    BY DEF proxy_for
  <2>2. CASE w = u
    BY <1>1, <2>1, <2>2, ActsForClosed
  <2>3. ASSUME NEW v \in proxy_for(u), w \in ActsFor(v) PROVE x \in R
    <3>1. x \in ActsFor(v)
      BY <1>1, <2>3, ActsForClosed DEF Closed
    <3>2. QED
      BY <2>1, <3>1
  <2>4. QED
    BY <2>2, <2>3
<1>4. ASSUME NEW w \in ActsFor(u) PROVE w \in R
  <2> HIDE DEF R
  <2>1. QED
    BY <1>2, <1>3 DEF ActsFor
<1>5. ASSUME NEW v \in proxy_for(u), NEW w \in ActsFor(v) PROVE w \in ActsFor(u)
  <2>1. w \in Users /\ v \in Users
    BY <1>1 DEF ActsFor
  <2>2. ASSUME NEW S \in SUBSET Users, u \in S, Closed(S) PROVE w \in S
    <3>1. v \in S
      BY <2>2 DEF Closed
    <3>2. QED
      BY <2>2, <3>1 DEF ActsFor
  <2>3. QED
    BY <2>1, <2>2 DEF ActsFor
<1>6. QED
  BY <1>4, <1>5, ActsForClosed

\* What authorizeCreate computes, one call at a time.
LEMMA MayStep ==
    ASSUME NEW u \in Users, NEW s
    PROVE  May(u, s) <=> \/ s \in users[u].shoulders \/ IsSuperuser(u)
                         \/ \E v \in proxy_for(u) : May(v, s)
  BY ActsForStep DEF May

Right(u, s) == IF May(u, s) THEN {TRUE} ELSE {FALSE}

LEMMA AnswersFromRight ==
    ASSUME NEW s, NEW asked, NEW u \in Users,
           \A v \in proxy_for(u) : asked[v] = Right(v, s)
    PROVE  answersFrom(s, asked)[u] = Right(u, s)
<1>1. \A v \in proxy_for(u) : TRUE \in asked[v] <=> May(v, s)
  BY DEF Right
<1>2. \A v \in proxy_for(u) : FALSE \in asked[v] <=> ~May(v, s)
  BY DEF Right
<1>3. \A v \in proxy_for(u) : Exhausted \notin asked[v]
  <2>1. Exhausted # TRUE /\ Exhausted # FALSE
    BY PolicyAssumption
  <2>2. ASSUME NEW v \in proxy_for(u) PROVE Exhausted \notin asked[v]
    <3>1. asked[v] = {TRUE} \/ asked[v] = {FALSE}
      BY DEF Right
    <3>2. QED
      BY <2>1, <3>1
  <2>3. QED
    BY <2>2
<1>4. CASE s \in users[u].shoulders
  <2>1. May(u, s)
    BY <1>4, MayStep
  <2>2. QED
    BY <1>4, <2>1 DEF answersFrom, Right
<1>5. CASE s \notin users[u].shoulders
  <2> DEFINE yes == {a \in {TRUE, Exhausted} : \E v \in proxy_for(u) : a \in asked[v]}
             no == {b \in {FALSE} : \A v \in proxy_for(u) : b \in asked[v]}
  <2>1. answersFrom(s, asked)[u] = yes \union {IsSuperuser(u) : b \in no}
    BY <1>5 DEF answersFrom
  <2>2. CASE \E v \in proxy_for(u) : May(v, s)
    <3>1. yes = {TRUE}
      BY <1>1, <1>3, <2>2
    <3>2. no = {}
      BY <1>2, <2>2
    <3>3. May(u, s)
      BY <2>2, MayStep
    <3> HIDE DEF yes, no
    <3>4. QED
      BY <2>1, <3>1, <3>2, <3>3 DEF Right
  <2>3. CASE \A v \in proxy_for(u) : ~May(v, s)
    <3>1. yes = {}
      BY <1>1, <1>3, <2>3
    <3>2. no = {FALSE}
      BY <1>2, <2>3
    <3>3. May(u, s) <=> IsSuperuser(u)
      BY <1>5, <2>3, MayStep
    <3> HIDE DEF yes, no
    <3>4. {IsSuperuser(u) : b \in no} = {IsSuperuser(u)}
      BY <3>2
    <3>5. {IsSuperuser(u)} = Right(u, s)
      BY <3>3 DEF Right, IsSuperuser
    <3>6. QED
      BY <2>1, <3>1, <3>4, <3>5
  <2>4. QED
    BY <2>2, <2>3
<1>6. QED
  BY <1>4, <1>5

\* Without a circle, every call ends before the stack does: the users of whom some
\* call with room for n or more may not answer right are fewer with every n.
LEMMA AnswersRight ==
    ASSUME \A S \in (SUBSET Users) \ {{}} : ~Circle(S), NEW s, NEW u \in Users
    PROVE  answers(s)[u] = Right(u, s)
<1> DEFINE N == Cardinality(Users)
<1>1. N \in Nat /\ IsFiniteSet(Users)
  BY PolicyAssumption, FS_CardinalityType
<1>2. PICK g : Answering(s, N, g) /\ answers(s) = g[N]
  BY AnswersAre
<1> HIDE DEF N
<1> DEFINE Wrong(n) == {v \in Users : \E m \in n .. N : g[m][v] # Right(v, s)}
<1>3. \A n : Wrong(n) \subseteq Users /\ IsFiniteSet(Wrong(n)) /\ Cardinality(Wrong(n)) \in Nat
             /\ Cardinality(Wrong(n)) <= N
  BY <1>1, FS_Subset, FS_CardinalityType DEF N
<1>4. ASSUME NEW n \in 1 .. N
      PROVE  /\ Wrong(n) \subseteq Wrong(n - 1)
             /\ \A v \in Wrong(n) : proxy_for(v) \intersect Wrong(n - 1) # {}
  <2>1. n \in Nat /\ n - 1 \in Nat /\ \A m \in n .. N : m \in n - 1 .. N /\ m - 1 \in n - 1 .. N
        /\ m \in 0 .. N /\ m # 0
    BY <1>1
  <2>2. Wrong(n) \subseteq Wrong(n - 1)
    BY <2>1
  <2>3. ASSUME NEW v \in Wrong(n) PROVE proxy_for(v) \intersect Wrong(n - 1) # {}
    <3>1. PICK m \in n .. N : g[m][v] # Right(v, s)
      OBVIOUS
    <3>2. g[m] = answersFrom(s, g[m - 1])
      BY <1>2, <2>1 DEF Answering
    <3>3. PICK w \in proxy_for(v) : g[m - 1][w] # Right(w, s)
      BY <3>1, <3>2, AnswersFromRight
    <3>4. w \in Users
      BY DEF proxy_for
    <3>5. w \in Wrong(n - 1)
      BY <2>1, <3>3, <3>4
    <3>6. QED
      BY <3>5
  <2>4. QED
    BY <2>2, <2>3
<1> HIDE DEF Wrong
<1> DEFINE T == {n \in 0 .. N : Cardinality(Wrong(n)) > N - n}
<1>5. T = {}
  <2>1. SUFFICES ASSUME T # {} PROVE FALSE
    OBVIOUS
  <2>2. T \in SUBSET Nat
    OBVIOUS
  <2>3. PICK n \in T : \A x \in T : n <= x
    <3> HIDE DEF T
    <3>1. QED
      BY <2>1, <2>2, LeastOf
  <2>4. n \in 0 .. N /\ Cardinality(Wrong(n)) > N - n
    OBVIOUS
  <2>5. n # 0
    BY <1>1, <1>3, <2>4
  <2>6. n \in 1 .. N /\ n - 1 \in 0 .. N /\ ~(n <= n - 1)
    BY <1>1, <2>4, <2>5
  <2>7. ~(Cardinality(Wrong(n - 1)) > N - (n - 1))
    BY <2>3, <2>6
  <2>8. Cardinality(Wrong(n)) \in Nat /\ Cardinality(Wrong(n - 1)) \in Nat
        /\ IsFiniteSet(Wrong(n - 1)) /\ Wrong(n) \subseteq Users
    BY <1>3
  <2>9. Cardinality(Wrong(n)) >= Cardinality(Wrong(n - 1)) /\ Cardinality(Wrong(n)) > 0
    BY <1>1, <2>4, <2>6, <2>7, <2>8
  <2>10. Wrong(n) = Wrong(n - 1)
    BY <1>4, <2>6, <2>8, <2>9, FS_Subset
  <2>11. Wrong(n) # {}
    BY <2>9, FS_EmptySet
  <2>12. Circle(Wrong(n))
    BY <1>4, <2>6, <2>10 DEF Circle
  <2>13. QED
    BY <2>8, <2>11, <2>12
<1>6. Wrong(N) = {}
  <2>1. N \in 0 .. N /\ ~(Cardinality(Wrong(N)) > N - N)
    <3>1. N \in 0 .. N
      BY <1>1
    <3>2. N \notin T
      BY <1>5
    <3>3. QED
      BY <3>1, <3>2
  <2>2. Cardinality(Wrong(N)) = 0
    BY <1>1, <1>3, <2>1
  <2>3. QED
    BY <1>3, <2>2, FS_EmptySet
<1>7. g[N][u] = Right(u, s)
  <2>1. N \in N .. N
    BY <1>1
  <2>2. QED
    BY <1>6, <2>1 DEF Wrong
<1>8. QED
  BY <1>2, <1>7

\* Who acts for somebody as a proxy does so, too, where group administrators count
\* as proxies.
LEMMA MayEitherWay ==
    ASSUME NEW u \in Users, NEW s, May(u, s)
    PROVE  MayAsAdministrator(u, s)
<1>1. \A S \in SUBSET Users : (\A w \in S : OnBehalfOf(w) \subseteq S) => Closed(S)
  BY DEF OnBehalfOf, Closed
<1>2. ActsFor(u) \subseteq ActsForAsAdministrator(u)
  BY <1>1 DEF ActsFor, ActsForAsAdministrator
<1>3. QED
  BY <1>2 DEF May, MayAsAdministrator

\* However users appoint proxies, unless in a circle: authorizeCreate ends, with yes for
\* those who reach somebody with the shoulder, or a superuser, and with no for those who
\* do not even when a group administrator counts as a proxy of every member.
THEOREM CreateFollows == Spec => []CreateFollowsProxies
<1>1. CreateFollowsProxies
  <2>1. ASSUME \A S \in (SUBSET Users) \ {{}} : ~Circle(S), NEW u \in Users, NEW s \in Shoulders
        PROVE  /\ authorizeCreate(u, s) \in {{TRUE}, {FALSE}}
               /\ May(u, s) => authorizeCreate(u, s) = {TRUE}
               /\ ~MayAsAdministrator(u, s) => authorizeCreate(u, s) = {FALSE}
    <3>1. authorizeCreate(u, s) = Right(u, s)
      BY <2>1, AnswersRight DEF authorizeCreate
    <3>2. May(u, s) => Right(u, s) = {TRUE}
      BY DEF Right
    <3>3. ~May(u, s) => Right(u, s) = {FALSE}
      BY DEF Right
    <3>4. QED
      BY <3>1, <3>2, <3>3, MayEitherWay
  <2>2. QED
    BY <2>1 DEF CreateFollowsProxies
<1>2. QED
  BY <1>1, PTL
=============================================================================
