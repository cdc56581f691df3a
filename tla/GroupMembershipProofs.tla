------------------------- MODULE GroupMembershipProofs -------------------------
(***************************************************************************)
(* Proofs about GroupMembership, for any sets of users, groups and request *)
(* slots, any selection of handlers and any answer of the rate limiter.     *)
(***************************************************************************)
EXTENDS GroupMembership, ConnectionIndexProofs, TLAPS

TypeInv == TypeOK /\ IndexInv

(* Group ids are never handed out twice, and nothing names one before it is *)
(* handed out.  A deleted document keeps no bans.                           *)
IdsAreUsed ==
    /\ groupItems \subseteq used
    /\ \A u \in User : accGroups[u] \subseteq used
    /\ \A r \in Req : req[r] # Idle => req[r].group \in used
    /\ \A g \in Group : g \notin docs => ban[g] = {}

(* What a check established and no other request can undo: the owner of a   *)
(* group never changes, so the user to be removed is still not the owner.   *)
RemovalSparesOwner ==
    \A r \in Req : req[r] # Idle =>
        /\ req[r].op = "deleteSelf" => req[r].caller # owner[req[r].group]
        /\ req[r].op = "deleteUser" => req[r].target # owner[req[r].group]

(* A request names users and a group.                                       *)
LEMMA RequestFields ==
    ASSUME NEW r \in Req, TypeInv, req[r] # Idle
    PROVE  /\ req[r].caller \in User
           /\ req[r].target \in User
           /\ req[r].group \in Group
           /\ req[r].snap \subseteq User
  BY DEF TypeInv, TypeOK, Request

--------------------------------------------------------------------------------
(* Types and the group index *)

(* What the rate limiter may leave undone keeps the index in agreement.     *)
LEMMA ThrottledRemoval ==
    ASSUME NEW u \in User, NEW g \in Group, IndexInv,
           \E limited \in Throttled :
              IF limited THEN UNCHANGED indexVars ELSE DisconnectUserFromGroup(u, g)
    PROVE  IndexInv'
<1>1. CASE DisconnectUserFromGroup(u, g)
  BY <1>1, RemoveKeepsIndex
<1>2. CASE UNCHANGED indexVars
  BY <1>2 DEF indexVars, IndexInv, IndexType, IndexesAgree, AbsentItemEmpty
<1> QED
  BY <1>1, <1>2

(* A step that leaves the index alone keeps it in agreement.                *)
LEMMA UnchangedIndex ==
    ASSUME IndexInv, UNCHANGED indexVars
    PROVE  IndexInv'
  BY DEF indexVars, IndexInv, IndexType, IndexesAgree, AbsentItemEmpty

(* The cached bans stay sets of users.                                      *)
LEMMA CacheType ==
    ASSUME TypeInv, BanCacheFollows
    PROVE  banCache' \in [Group -> SUBSET User]
  BY DEF TypeInv, TypeOK, BanCacheFollows

(* Every step keeps the group index in agreement.                           *)
LEMMA NextKeepsIndex ==
    ASSUME TypeInv, [Next]_vars
    PROVE  IndexInv'
<1>0. IndexInv
  BY DEF TypeInv
<1>1. ASSUME NEW r \in Req, Check(r)
      PROVE  IndexInv'
  BY <1>0, <1>1, UnchangedIndex DEF Check
<1>2. ASSUME NEW r \in Req, DeleteGroup(r)
      PROVE  IndexInv'
  <2>1. CASE DisconnectGroup(req[r].group)
    BY <1>0, <1>2, <2>1, RequestFields, DropGroupKeepsIndex DEF DeleteGroup, Running
  <2>2. CASE UNCHANGED indexVars
    BY <1>0, <2>2, UnchangedIndex
  <2> QED
    BY <1>2, <2>1, <2>2 DEF DeleteGroup
<1>3. ASSUME NEW r \in Req, DeleteSelf(r)
      PROVE  IndexInv'
  BY <1>0, <1>3, RequestFields, ThrottledRemoval DEF DeleteSelf, Running
<1>4. ASSUME NEW r \in Req, DeleteUser(r)
      PROVE  IndexInv'
  BY <1>0, <1>4, RequestFields, ThrottledRemoval DEF DeleteUser, Running
<1>5. ASSUME NEW r \in Req, AddAdmin(r) \/ DeleteAdmin(r)
      PROVE  IndexInv'
  BY <1>0, <1>5, UnchangedIndex DEF AddAdmin, DeleteAdmin
<1>6. ASSUME NEW r \in Req, BanUser(r)
      PROVE  IndexInv'
  BY <1>0, <1>6, RequestFields, NewItemKeepsIndex DEF BanUser, Running
<1>7. ASSUME NEW r \in Req, Join(r)
      PROVE  IndexInv'
  BY <1>0, <1>7, RequestFields, JoinKeepsIndex DEF Join, Enter, Running
<1>8. ASSUME NEW r \in Req, RequestAccept(r)
      PROVE  IndexInv'
  BY <1>0, <1>8, RequestFields, JoinKeepsIndex DEF RequestAccept, Enter, Running
<1>9. ASSUME NEW u \in User, NEW g \in Group, MakeGroup(u, g)
      PROVE  IndexInv'
  BY <1>0, <1>9, JoinKeepsIndex DEF MakeGroup
<1>10. ASSUME NEW u \in User, Connect(u)
       PROVE  IndexInv'
  <2>1. accGroups[u] \subseteq Group /\ known' \subseteq User
    BY <1>0, <1>10 DEF Connect, TypeInv, TypeOK, IndexInv, IndexType
  <2> QED
    BY <1>0, <1>10, <2>1, ConnectKeepsIndex DEF Connect
<1>11. ASSUME NEW u \in User, ConnectBroken(u) \/ SendingSystemMessage(u)
       PROVE  IndexInv'
  BY <1>0, <1>11, TouchKeepsIndex DEF ConnectBroken, SendingSystemMessage
<1>12. ASSUME NEW u \in User, Disconnect(u)
       PROVE  IndexInv'
  BY <1>0, <1>12, ForgetKeepsIndex DEF Disconnect
<1>13. CASE Restart
  BY <1>13 DEF Restart, IndexInv, IndexType, IndexesAgree, AbsentItemEmpty
<1>14. CASE UNCHANGED vars
  BY <1>0, <1>14, UnchangedIndex DEF vars
<1> QED
  BY <1>1, <1>2, <1>3, <1>4, <1>5, <1>6, <1>7, <1>8, <1>9, <1>10, <1>11, <1>12,
     <1>13, <1>14 DEF Next, Body

(* Every step keeps the types.                                              *)
LEMMA NextKeepsType ==
    ASSUME TypeInv, [Next]_vars
    PROVE  TypeInv'
<1>0. IndexInv' /\ IndexType'
  BY NextKeepsIndex DEF IndexInv
<1> USE DEF UpdateMembers, UpdateAdmins, Finished, docVars
<1>1. ASSUME NEW r \in Req, Check(r)
      PROVE  TypeOK'
  <2>1. PICK op \in Op, u \in User, t \in User, g \in docs :
          req' = [req EXCEPT ![r] =
                     [op |-> op, caller |-> u, target |-> t, group |-> g,
                      snap |-> IF op = "deleteGroup" THEN members[g] ELSE {}]]
    BY <1>1 DEF Check
  <2>2. req' \in [Req -> Request \cup {Idle}]
    BY <2>1 DEF TypeInv, TypeOK, Request
  <2> QED
    BY <1>0, <1>1, <2>2 DEF Check, TypeInv, TypeOK
<1>2. ASSUME NEW r \in Req, DeleteGroup(r)
      PROVE  TypeOK'
  BY <1>0, <1>2, CacheType DEF DeleteGroup, TypeInv, TypeOK
<1>3. ASSUME NEW r \in Req, DeleteSelf(r)
      PROVE  TypeOK'
  BY <1>0, <1>3, CacheType DEF DeleteSelf, TypeInv, TypeOK
<1>4. ASSUME NEW r \in Req, DeleteUser(r)
      PROVE  TypeOK'
  BY <1>0, <1>4, CacheType DEF DeleteUser, TypeInv, TypeOK
<1>5. ASSUME NEW r \in Req, AddAdmin(r)
      PROVE  TypeOK'
  BY <1>0, <1>5, RequestFields DEF AddAdmin, Running, TypeInv, TypeOK
<1>6. ASSUME NEW r \in Req, DeleteAdmin(r)
      PROVE  TypeOK'
  BY <1>0, <1>6 DEF DeleteAdmin, TypeInv, TypeOK
<1>7. ASSUME NEW r \in Req, BanUser(r)
      PROVE  TypeOK'
  BY <1>0, <1>7, RequestFields DEF BanUser, Running, TypeInv, TypeOK
<1>8. ASSUME NEW r \in Req, Join(r)
      PROVE  TypeOK'
  BY <1>0, <1>8, RequestFields, CacheType DEF Join, Enter, Running, TypeInv, TypeOK
<1>9. ASSUME NEW r \in Req, RequestAccept(r)
      PROVE  TypeOK'
  BY <1>0, <1>9, RequestFields, CacheType
     DEF RequestAccept, Enter, Running, TypeInv, TypeOK
<1>10. ASSUME NEW u \in User, NEW g \in Group, MakeGroup(u, g)
       PROVE  TypeOK'
  BY <1>0, <1>10, CacheType DEF MakeGroup, TypeInv, TypeOK
<1>11. ASSUME NEW u \in User, Connect(u)
       PROVE  TypeOK'
  BY <1>0, <1>11, CacheType DEF Connect, TypeInv, TypeOK
<1>12. ASSUME NEW u \in User, ConnectBroken(u) \/ SendingSystemMessage(u)
       PROVE  TypeOK'
  BY <1>0, <1>12 DEF ConnectBroken, SendingSystemMessage, TypeInv, TypeOK
<1>13. ASSUME NEW u \in User, Disconnect(u)
       PROVE  TypeOK'
  BY <1>0, <1>13, CacheType DEF Disconnect, TypeInv, TypeOK
<1>14. CASE Restart
  BY <1>0, <1>14 DEF Restart, TypeInv, TypeOK
<1>15. CASE UNCHANGED vars
  BY <1>0, <1>15 DEF vars, TypeInv, TypeOK
<1> QED
  BY <1>0, <1>1, <1>2, <1>3, <1>4, <1>5, <1>6, <1>7, <1>8, <1>9, <1>10, <1>11,
     <1>12, <1>13, <1>14, <1>15 DEF Next, Body, TypeInv

--------------------------------------------------------------------------------
(* Group ids *)

(* Whatever the rate limiter leaves undone, a removal makes no new item.    *)
LEMMA RemovalMakesNoItem ==
    ASSUME NEW u, NEW g,
           \E limited \in Throttled :
              IF limited THEN UNCHANGED indexVars ELSE DisconnectUserFromGroup(u, g)
    PROVE  groupItems' = groupItems
  BY DEF DisconnectUserFromGroup, indexVars

(* Every step names only groups that were handed out.                       *)
LEMMA NextKeepsIds ==
    ASSUME TypeInv, IdsAreUsed, [Next]_vars
    PROVE  IdsAreUsed'
<1> USE DEF IdsAreUsed, Finished, docVars, TypeInv, TypeOK
<1>1. ASSUME NEW r \in Req, Check(r)
      PROVE  IdsAreUsed'
  <2>1. PICK op \in Op, u \in User, t \in User, g \in docs :
            req' = [req EXCEPT ![r] =
                     [op |-> op, caller |-> u, target |-> t, group |-> g,
                      snap |-> IF op = "deleteGroup" THEN members[g] ELSE {}]]
    BY <1>1 DEF Check
  <2>2. \A x \in Req : req'[x] # Idle => req'[x].group \in used
    BY <2>1
  <2> QED
    BY <1>1, <2>2 DEF Check, indexVars
<1>2. ASSUME NEW r \in Req, DeleteGroup(r)
      PROVE  IdsAreUsed'
  BY <1>2 DEF DeleteGroup, DisconnectGroup, indexVars
<1>3. ASSUME NEW r \in Req, DeleteSelf(r)
      PROVE  IdsAreUsed'
  BY <1>3, RemovalMakesNoItem DEF DeleteSelf
<1>4. ASSUME NEW r \in Req, DeleteUser(r)
      PROVE  IdsAreUsed'
  BY <1>4, RemovalMakesNoItem DEF DeleteUser
<1>5. ASSUME NEW r \in Req, AddAdmin(r) \/ DeleteAdmin(r)
      PROVE  IdsAreUsed'
  BY <1>5 DEF AddAdmin, DeleteAdmin, indexVars
<1>6. ASSUME NEW r \in Req, BanUser(r)
      PROVE  IdsAreUsed'
  BY <1>6, RequestFields DEF BanUser, CreateGroupItem, Running
<1>7. ASSUME NEW r \in Req, NEW u \in User, req[r] # Idle,
             Enter(u, req[r].group), Finished(r)
      PROVE  IdsAreUsed'
  BY <1>7, RequestFields DEF Enter, UserJoinedGroup, UserConnectToGroupItems, indexVars
<1>8. ASSUME NEW u \in User, NEW g \in Group, MakeGroup(u, g)
      PROVE  IdsAreUsed'
  BY <1>8 DEF MakeGroup, UserJoinedGroup, UserConnectToGroupItems, indexVars
<1>9. ASSUME NEW u \in User, Connect(u)
      PROVE  IdsAreUsed'
  BY <1>9 DEF Connect, UserConnectToGroupItems
<1>10. ASSUME NEW u \in User, ConnectBroken(u) \/ SendingSystemMessage(u)
       PROVE  IdsAreUsed'
  BY <1>10 DEF ConnectBroken, SendingSystemMessage, TouchUsers
<1>11. ASSUME NEW u \in User, Disconnect(u)
       PROVE  IdsAreUsed'
  BY <1>11 DEF Disconnect, ForgetUser
<1>12. CASE Restart
  BY <1>12 DEF Restart
<1>13. CASE UNCHANGED vars
  BY <1>13 DEF vars, indexVars
<1> QED
  BY <1>1, <1>2, <1>3, <1>4, <1>5, <1>6, <1>7, <1>8, <1>9, <1>10, <1>11, <1>12,
     <1>13, RequestFields DEF Next, Body, Join, RequestAccept, Running

--------------------------------------------------------------------------------
(* The owner *)

(* Every step leaves the owner in its group, and every removal already      *)
(* checked away from the owner.                                             *)
LEMMA NextKeepsOwner ==
    ASSUME TypeInv, IdsAreUsed, RemovalSparesOwner, OwnerIsMember, [Next]_vars
    PROVE  RemovalSparesOwner' /\ OwnerIsMember'
<1> DEFINE Goal == RemovalSparesOwner' /\ OwnerIsMember'
<1> USE DEF RemovalSparesOwner, OwnerIsMember, Finished, docVars, TypeInv, TypeOK,
            UpdateMembers, UpdateAdmins
<1>1. ASSUME NEW r \in Req, Check(r)
      PROVE  Goal
  <2>1. PICK op \in Op, u \in User, t \in User, g \in docs :
            /\ Permitted(op, u, t, g)
            /\ req' = [req EXCEPT ![r] =
                     [op |-> op, caller |-> u, target |-> t, group |-> g,
                      snap |-> IF op = "deleteGroup" THEN members[g] ELSE {}]]
    BY <1>1 DEF Check
  <2>2. /\ op = "deleteSelf" => u # owner[g]
        /\ op = "deleteUser" => t # owner[g]
    BY <2>1 DEF Permitted, MayLeave, MayKick
  <2> QED
    BY <1>1, <2>1, <2>2 DEF Check
<1>2. ASSUME NEW r \in Req, DeleteGroup(r)
      PROVE  Goal
  <2>1. \A x \in Req : req'[x] # Idle => req'[x] = req[x] /\ req[x] # Idle
    BY <1>2 DEF DeleteGroup
  <2>2. \A h \in Group : owner'[h] = owner[h] \/ owner'[h] = NoOwner
    BY <1>2 DEF DeleteGroup
  <2>3. RemovalSparesOwner'
    BY <2>1, <2>2, RequestFields, NoOwnerAssumption
  <2>4. OwnerIsMember'
    BY <1>2 DEF DeleteGroup
  <2> QED
    BY <2>3, <2>4
<1>3. ASSUME NEW r \in Req, DeleteSelf(r)
      PROVE  Goal
  BY <1>3 DEF DeleteSelf, Running
<1>4. ASSUME NEW r \in Req, DeleteUser(r)
      PROVE  Goal
  BY <1>4 DEF DeleteUser, Running
<1>5. ASSUME NEW r \in Req, AddAdmin(r) \/ DeleteAdmin(r) \/ BanUser(r)
      PROVE  Goal
  BY <1>5 DEF AddAdmin, DeleteAdmin, BanUser
<1>6. ASSUME NEW r \in Req, Join(r) \/ RequestAccept(r)
      PROVE  Goal
  BY <1>6 DEF Join, RequestAccept, Enter
<1>7. ASSUME NEW u \in User, NEW g \in Group, MakeGroup(u, g)
      PROVE  Goal
  <2>1. \A x \in Req : req[x] # Idle => req[x].group # g
    BY <1>7 DEF MakeGroup, IdsAreUsed
  <2> QED
    BY <1>7, <2>1 DEF MakeGroup
<1>8. ASSUME NEW u \in User,
             Connect(u) \/ ConnectBroken(u) \/ SendingSystemMessage(u) \/ Disconnect(u)
      PROVE  Goal
  BY <1>8 DEF Connect, ConnectBroken, SendingSystemMessage, Disconnect
<1>9. CASE Restart
  BY <1>9 DEF Restart
<1>10. CASE UNCHANGED vars
  BY <1>10 DEF vars
<1> QED
  BY <1>1, <1>2, <1>3, <1>4, <1>5, <1>6, <1>7, <1>8, <1>9, <1>10 DEF Next, Body

--------------------------------------------------------------------------------
(* Documents and accounts *)

(* Every step changes a document and the account together.                  *)
LEMMA NextKeepsAccounts ==
    ASSUME TypeInv, IdsAreUsed, AccountsAgree, [Next]_vars
    PROVE  AccountsAgree'
<1> USE DEF AccountsAgree, docVars, TypeInv, TypeOK, UpdateMembers
<1>1. ASSUME NEW r \in Req, DeleteGroup(r)
      PROVE  AccountsAgree'
  BY <1>1 DEF DeleteGroup
<1>2. ASSUME NEW r \in Req, DeleteSelf(r)
      PROVE  AccountsAgree'
  BY <1>2, RequestFields DEF DeleteSelf, Running
<1>3. ASSUME NEW r \in Req, DeleteUser(r)
      PROVE  AccountsAgree'
  BY <1>3, RequestFields DEF DeleteUser, Running
<1>4. ASSUME NEW r \in Req, Join(r) \/ RequestAccept(r)
      PROVE  AccountsAgree'
  BY <1>4, RequestFields DEF Join, RequestAccept, Enter, Running
<1>5. ASSUME NEW u \in User, NEW g \in Group, MakeGroup(u, g)
      PROVE  AccountsAgree'
  BY <1>5 DEF MakeGroup, IdsAreUsed
<1>6. ASSUME UNCHANGED <<docs, members, accGroups>>
      PROVE  AccountsAgree'
  BY <1>6
<1> QED
  BY <1>1, <1>2, <1>3, <1>4, <1>5, <1>6
     DEF Next, Body, Check, AddAdmin, DeleteAdmin, BanUser, Connect, ConnectBroken,
         Disconnect, SendingSystemMessage, Restart, vars

--------------------------------------------------------------------------------
(* Connections and bans *)

(* An online user has a key in _users, so userJoinedGroup does not skip it. *)
OnlineIsKnown == online \subseteq known

ConnectedInv == OnlineIsKnown /\ OnlineMembersConnected

(* A removal touches the membership of one user in one group, in the index  *)
(* at most as far as in the document.                                       *)
LEMMA RemovalKeepsConnected ==
    ASSUME NEW u \in User, NEW g \in Group, TypeInv, ConnectedInv,
           UpdateMembers(g, members[g] \ {u}), UNCHANGED <<docs, online>>,
           \E limited \in Throttled :
              IF limited THEN UNCHANGED indexVars ELSE DisconnectUserFromGroup(u, g)
    PROVE  ConnectedInv'
<1>1. known' = known
  BY DEF DisconnectUserFromGroup, indexVars
<1>2. \A v \in User, h \in Group :
        h \in userGroups[v] /\ ~(v = u /\ h = g) => h \in userGroups'[v]
  BY DEF DisconnectUserFromGroup, indexVars, TypeInv, TypeOK, IndexType
<1>3. \A h \in docs : members'[h] = IF h = g THEN members[h] \ {u} ELSE members[h]
  BY DEF UpdateMembers, TypeInv, TypeOK
<1>4. OnlineMembersConnected'
  <2> SUFFICES ASSUME NEW h \in docs, NEW v \in members'[h] \cap online
               PROVE  h \in userGroups'[v]
    BY DEF OnlineMembersConnected
  <2>1. h \in Group /\ v \in User
    BY DEF TypeInv, TypeOK
  <2>2. v \in members[h] /\ ~(v = u /\ h = g)
    BY <1>3
  <2>3. h \in userGroups[v]
    BY <2>2 DEF ConnectedInv, OnlineMembersConnected
  <2> QED
    BY <1>2, <2>1, <2>2, <2>3
<1> QED
  BY <1>1, <1>4 DEF ConnectedInv, OnlineIsKnown

(* Every step keeps online members connected to their groups.               *)
LEMMA NextKeepsConnected ==
    ASSUME TypeInv, IdsAreUsed, AccountsAgree, ConnectedInv, [Next]_vars
    PROVE  ConnectedInv'
<1> USE DEF TypeInv, TypeOK, IndexType
<1>1. ASSUME NEW r \in Req, DeleteGroup(r)
      PROVE  ConnectedInv'
  <2>1. known' = known
    BY <1>1 DEF DeleteGroup, DisconnectGroup, indexVars
  <2>2. \A v \in User, h \in Group :
          h \in userGroups[v] /\ h # req[r].group => h \in userGroups'[v]
    BY <1>1 DEF DeleteGroup, DisconnectGroup, indexVars
  <2> QED
    BY <1>1, <2>1, <2>2
       DEF DeleteGroup, ConnectedInv, OnlineIsKnown, OnlineMembersConnected
<1>2. ASSUME NEW r \in Req, DeleteSelf(r)
      PROVE  ConnectedInv'
  BY <1>2, RequestFields, RemovalKeepsConnected DEF DeleteSelf, Running
<1>3. ASSUME NEW r \in Req, DeleteUser(r)
      PROVE  ConnectedInv'
  BY <1>3, RequestFields, RemovalKeepsConnected DEF DeleteUser, Running
<1>4. ASSUME NEW u \in User, NEW g \in Group, Enter(u, g)
      PROVE  ConnectedInv'
  BY <1>4 DEF Enter, UpdateMembers, UserJoinedGroup, UserConnectToGroupItems,
              indexVars, ConnectedInv, OnlineIsKnown, OnlineMembersConnected
<1>5. ASSUME NEW u \in User, NEW g \in Group, MakeGroup(u, g)
      PROVE  ConnectedInv'
  BY <1>5 DEF MakeGroup, UserJoinedGroup, UserConnectToGroupItems, indexVars,
              ConnectedInv, OnlineIsKnown, OnlineMembersConnected
<1>6. ASSUME NEW u \in User, Connect(u)
      PROVE  ConnectedInv'
  BY <1>6 DEF Connect, UserConnectToGroupItems, docVars, ConnectedInv,
              OnlineIsKnown, OnlineMembersConnected, AccountsAgree
<1>7. ASSUME NEW u \in User, Disconnect(u)
      PROVE  ConnectedInv'
  BY <1>7 DEF Disconnect, ForgetUser, docVars, ConnectedInv, OnlineIsKnown,
              OnlineMembersConnected
<1>8. CASE Restart
  BY <1>8 DEF Restart, ConnectedInv, OnlineIsKnown, OnlineMembersConnected
<1>9. ASSUME known \subseteq known', UNCHANGED <<docs, members, online, userGroups>>
      PROVE  ConnectedInv'
  BY <1>9 DEF ConnectedInv, OnlineIsKnown, OnlineMembersConnected
<1>10. ASSUME NEW r \in Req, Join(r) \/ RequestAccept(r)
       PROVE  ConnectedInv'
  BY <1>4, <1>10, RequestFields DEF Join, RequestAccept, Running
<1> QED
  BY <1>1, <1>2, <1>3, <1>5, <1>6, <1>7, <1>8, <1>9, <1>10
     DEF Next, Body, Check, AddAdmin, DeleteAdmin, BanUser, CreateGroupItem,
         ConnectBroken, SendingSystemMessage, TouchUsers, indexVars, docVars, vars

(* The cache of an item that stays is kept, that of a new one is loaded.    *)
LEMMA FollowKeepsBans ==
    ASSUME TypeInv, BanCacheCoherent, BanCacheFollows,
           docs' \subseteq docs, UNCHANGED ban
    PROVE  BanCacheCoherent'
  BY DEF TypeInv, TypeOK, BanCacheCoherent, BanCacheFollows

(* Every step keeps the cached bans equal to the stored ones.               *)
LEMMA NextKeepsBans ==
    ASSUME TypeInv, IdsAreUsed, BanCacheCoherent, [Next]_vars
    PROVE  BanCacheCoherent'
<1> USE DEF docVars
<1>1. ASSUME NEW r \in Req, DeleteGroup(r)
      PROVE  BanCacheCoherent'
  BY <1>1 DEF DeleteGroup, BanCacheCoherent, BanCacheFollows, TypeInv, TypeOK
<1>2. ASSUME NEW r \in Req,
             DeleteSelf(r) \/ DeleteUser(r) \/ Join(r) \/ RequestAccept(r)
      PROVE  BanCacheCoherent'
  BY <1>2, FollowKeepsBans DEF DeleteSelf, DeleteUser, Join, RequestAccept, Enter
<1>3. ASSUME NEW r \in Req, BanUser(r)
      PROVE  BanCacheCoherent'
  <2> DEFINE t == req[r].target
             g == req[r].group
             Changed(us, banned) == IF banned THEN us \cup {t} ELSE us \ {t}
  <2>1. g \in Group
    BY <1>3, RequestFields DEF BanUser, Running
  <2>2. PICK banned \in BOOLEAN :
            /\ ban' = [ban EXCEPT ![g] = IF g \in docs THEN Changed(@, banned) ELSE @]
            /\ banCache' = [banCache EXCEPT ![g] =
                 Changed(IF g \in groupItems THEN @
                         ELSE IF g \in docs THEN ban[g] ELSE {}, banned)]
    BY <1>3 DEF BanUser
  <2>3. docs' = docs /\ groupItems' = groupItems \cup {g}
    BY <1>3 DEF BanUser, CreateGroupItem
  <2>4. ASSUME g \in docs
        PROVE  banCache'[g] = ban'[g]
    <3>1. ban'[g] = Changed(ban[g], banned)
      BY <2>1, <2>2, <2>4 DEF TypeInv, TypeOK
    <3>2. CASE g \in groupItems
      <4>1. banCache[g] = ban[g]
        BY <2>4, <3>2 DEF BanCacheCoherent
      <4> QED
        BY <2>1, <2>2, <3>1, <3>2, <4>1 DEF TypeInv, TypeOK
    <3>3. CASE g \notin groupItems
      BY <2>1, <2>2, <2>4, <3>1, <3>3 DEF TypeInv, TypeOK
    <3> QED
      BY <3>2, <3>3
  <2>5. \A h \in Group \ {g} : banCache'[h] = banCache[h] /\ ban'[h] = ban[h]
    BY <2>1, <2>2 DEF TypeInv, TypeOK
  <2> QED
    BY <2>3, <2>4, <2>5 DEF BanCacheCoherent, TypeInv, TypeOK
<1>4. ASSUME NEW u \in User, NEW g \in Group, MakeGroup(u, g)
      PROVE  BanCacheCoherent'
  BY <1>4 DEF MakeGroup, BanCacheCoherent, BanCacheFollows, IdsAreUsed, TypeInv, TypeOK
<1>5. ASSUME NEW u \in User, Connect(u) \/ Disconnect(u)
      PROVE  BanCacheCoherent'
  BY <1>5, FollowKeepsBans DEF Connect, Disconnect
<1>6. CASE Restart
  BY <1>6 DEF Restart, BanCacheCoherent
<1>7. ASSUME UNCHANGED <<docs, ban, groupItems, banCache>>
      PROVE  BanCacheCoherent'
  BY <1>7 DEF BanCacheCoherent
<1> QED
  BY <1>1, <1>2, <1>3, <1>4, <1>5, <1>6, <1>7
     DEF Next, Body, Check, AddAdmin, DeleteAdmin, ConnectBroken,
         SendingSystemMessage, TouchUsers, indexVars, vars

--------------------------------------------------------------------------------
(* The owner *)

(* What a check established of appointments and bans, and no other request  *)
(* can undo.                                                                *)
DecisionsSpareOwner ==
    \A r \in Req : req[r] # Idle /\ req[r].op \in {"addAdmin", "banUser"}
                     => req[r].target # owner[req[r].group]

OwnerInv == DecisionsSpareOwner /\ OwnerUnrestricted

(* No appointment or ban, however late it is written, is of the owner.      *)
LEMMA NextKeepsOwnerFree ==
    ASSUME TypeInv, IdsAreUsed, OwnerInv, [Next]_vars
    PROVE  OwnerInv'
<1> USE DEF OwnerInv, DecisionsSpareOwner, OwnerUnrestricted, Finished, docVars,
            TypeInv, TypeOK, UpdateMembers, UpdateAdmins
<1>1. ASSUME NEW r \in Req, Check(r)
      PROVE  OwnerInv'
  <2>1. PICK op \in Op, u \in User, t \in User, g \in docs :
            /\ Permitted(op, u, t, g)
            /\ req' = [req EXCEPT ![r] =
                     [op |-> op, caller |-> u, target |-> t, group |-> g,
                      snap |-> IF op = "deleteGroup" THEN members[g] ELSE {}]]
    BY <1>1 DEF Check
  <2>2. op \in {"addAdmin", "banUser"} => t # owner[g]
    BY <2>1 DEF Permitted, MayAddAdmin, MayBan
  <2> QED
    BY <1>1, <2>1, <2>2 DEF Check
<1>2. ASSUME NEW r \in Req, DeleteGroup(r)
      PROVE  OwnerInv'
  <2>1. \A x \in Req : req'[x] # Idle => req'[x] = req[x] /\ req[x] # Idle
    BY <1>2 DEF DeleteGroup
  <2>2. \A h \in Group : owner'[h] = owner[h] \/ owner'[h] = NoOwner
    BY <1>2 DEF DeleteGroup
  <2>3. DecisionsSpareOwner'
    BY <2>1, <2>2, RequestFields, NoOwnerAssumption
  <2>4. OwnerUnrestricted'
    BY <1>2 DEF DeleteGroup
  <2> QED
    BY <2>3, <2>4
<1>3. ASSUME NEW r \in Req,
             DeleteSelf(r) \/ DeleteUser(r) \/ DeleteAdmin(r) \/ Join(r) \/ RequestAccept(r)
      PROVE  OwnerInv'
  BY <1>3 DEF DeleteSelf, DeleteUser, DeleteAdmin, Join, RequestAccept, Enter
<1>4. ASSUME NEW r \in Req, AddAdmin(r)
      PROVE  OwnerInv'
  BY <1>4 DEF AddAdmin, Running
<1>5. ASSUME NEW r \in Req, BanUser(r)
      PROVE  OwnerInv'
  <2> DEFINE g == req[r].group
             t == req[r].target
  <2>1. t # owner[g] /\ g \in Group
    BY <1>5, RequestFields DEF BanUser, Running
  <2>2. \A h \in Group : ban'[h] \subseteq IF h = g THEN ban[h] \cup {t} ELSE ban[h]
    BY <1>5 DEF BanUser
  <2>3. UNCHANGED <<docs, owner, admins>>
    BY <1>5 DEF BanUser
  <2>4. OwnerUnrestricted'
    BY <2>1, <2>2, <2>3
  <2>5. DecisionsSpareOwner'
    BY <1>5 DEF BanUser
  <2> QED
    BY <2>4, <2>5
<1>6. ASSUME NEW u \in User, NEW g \in Group, MakeGroup(u, g)
      PROVE  OwnerInv'
  <2>1. /\ \A x \in Req : req[x] # Idle => req[x].group # g
        /\ ban[g] = {}
    BY <1>6 DEF MakeGroup, IdsAreUsed
  <2> QED
    BY <1>6, <2>1 DEF MakeGroup
<1>7. ASSUME NEW u \in User,
             Connect(u) \/ ConnectBroken(u) \/ SendingSystemMessage(u) \/ Disconnect(u)
      PROVE  OwnerInv'
  BY <1>7 DEF Connect, ConnectBroken, SendingSystemMessage, Disconnect
<1>8. CASE Restart
  BY <1>8 DEF Restart
<1>9. CASE UNCHANGED vars
  BY <1>9 DEF vars
<1> QED
  BY <1>1, <1>2, <1>3, <1>4, <1>5, <1>6, <1>7, <1>8, <1>9 DEF Next, Body

--------------------------------------------------------------------------------
(* The theorems *)

(* The inductive invariant.                                                 *)
MembershipInv ==
    /\ TypeInv
    /\ IdsAreUsed
    /\ RemovalSparesOwner
    /\ OwnerIsMember
    /\ AccountsAgree
    /\ ConnectedInv
    /\ BanCacheCoherent

(* At the start there are no groups, no connections and no requests.        *)
LEMMA InitMembership == Init => MembershipInv
<1> SUFFICES ASSUME Init PROVE MembershipInv
  OBVIOUS
<1>1. IndexInv
  BY InitIndex DEF Init
<1>2. TypeOK
  BY <1>1 DEF Init, TypeOK, IndexInv
<1> QED
  BY <1>1, <1>2 DEF Init, IndexInit, MembershipInv, TypeInv, IdsAreUsed,
     RemovalSparesOwner, OwnerIsMember, AccountsAgree, ConnectedInv, OnlineIsKnown,
     OnlineMembersConnected, BanCacheCoherent

(* The inductive invariant holds in every behaviour.                        *)
LEMMA MembershipInvHolds == Spec => []MembershipInv
<1>1. MembershipInv /\ [Next]_vars => MembershipInv'
  BY NextKeepsType, NextKeepsIds, NextKeepsOwner, NextKeepsAccounts,
     NextKeepsConnected, NextKeepsBans DEF MembershipInv
<1> QED
  BY InitMembership, <1>1, PTL DEF Spec

(* The variables keep their types in every behaviour.                       *)
THEOREM MembershipTypeCorrect == Spec => []TypeOK
<1>1. MembershipInv => TypeOK
  BY DEF MembershipInv, TypeInv
<1> QED
  BY MembershipInvHolds, <1>1, PTL

(* The two tables of the group index agree through every handler of group.py. *)
THEOREM MembershipIndexesAgree == Spec => []IndexesAgree
<1>1. MembershipInv => IndexesAgree
  BY DEF MembershipInv, TypeInv, IndexInv
<1> QED
  BY MembershipInvHolds, <1>1, PTL

(* No interleaving of checks and bodies takes the owner out of its group.   *)
THEOREM OwnerAlwaysMember == Spec => []OwnerIsMember
<1>1. MembershipInv => OwnerIsMember
  BY DEF MembershipInv
<1> QED
  BY MembershipInvHolds, <1>1, PTL

(* The owner of a group is never banned from it nor appointed by it,        *)
(* whichever decisions are written late.                                    *)
THEOREM OwnerAlwaysUnrestricted == Spec => []OwnerUnrestricted
<1>1. Init => OwnerInv
  BY DEF Init, OwnerInv, DecisionsSpareOwner, OwnerUnrestricted
<1>2. MembershipInv /\ OwnerInv /\ [Next]_vars => OwnerInv'
  BY NextKeepsOwnerFree DEF MembershipInv
<1>3. OwnerInv => OwnerUnrestricted
  BY DEF OwnerInv
<1> QED
  BY MembershipInvHolds, <1>1, <1>2, <1>3, PTL DEF Spec

(* No interleaving of checks and bodies parts a document from the accounts. *)
THEOREM AccountsAlwaysAgree == Spec => []AccountsAgree
<1>1. MembershipInv => AccountsAgree
  BY DEF MembershipInv
<1> QED
  BY MembershipInvHolds, <1>1, PTL

(* An online member is always connected to its groups.                      *)
THEOREM OnlineMembersAlwaysConnected == Spec => []OnlineMembersConnected
<1>1. MembershipInv => OnlineMembersConnected
  BY DEF MembershipInv, ConnectedInv
<1> QED
  BY MembershipInvHolds, <1>1, PTL

(* The bans enforced on messages are always those stored.                   *)
THEOREM BansAlwaysCoherent == Spec => []BanCacheCoherent
<1>1. MembershipInv => BanCacheCoherent
  BY DEF MembershipInv
<1> QED
  BY MembershipInvHolds, <1>1, PTL

--------------------------------------------------------------------------------
(* Without rate limiting *)

(* What a removal does to the index when the limiter lets the broadcast by: *)
(* the user no longer listens, with or without an item.                     *)
LEMMA RemovalStopsListening ==
    ASSUME NEW u \in User, NEW g \in Group, IndexInv, DisconnectUserFromGroup(u, g)
    PROVE  \A v \in User : userGroups'[v] = IF v = u THEN userGroups[v] \ {g}
                                                     ELSE userGroups[v]
<1>1. CASE g \in groupItems
  BY <1>1 DEF DisconnectUserFromGroup, IndexInv, IndexType
<1>2. CASE g \notin groupItems
  <2>1. g \notin userGroups[u]
    BY <1>2 DEF IndexInv, IndexesAgree
  <2> QED
    BY <1>2, <2>1 DEF DisconnectUserFromGroup, indexVars
<1> QED
  BY <1>1, <1>2

(* Every step that makes a user listen to a group adds it to the account,   *)
(* and every step that takes it from the account ends the listening.        *)
LEMMA NextKeepsListens ==
    ASSUME Throttled \subseteq {FALSE}, TypeInv, ListensOnlyToOwnGroups, [Next]_vars
    PROVE  ListensOnlyToOwnGroups'
<1>0. IndexInv
  BY DEF TypeInv
<1> USE DEF ListensOnlyToOwnGroups, TypeInv, TypeOK, IndexType, docVars
<1>1. ASSUME NEW r \in Req, DeleteGroup(r)
      PROVE  ListensOnlyToOwnGroups'
  <2>1. DisconnectGroup(req[r].group)
    BY <1>1 DEF DeleteGroup
  <2>2. req[r].group \in Group
    BY <1>1, RequestFields DEF DeleteGroup, Running
  <2>3. \A v \in User : /\ userGroups'[v] \subseteq userGroups[v]
                        /\ req[r].group \notin userGroups'[v]
    <3>1. CASE req[r].group \in groupItems
      BY <1>0, <2>1, <2>2, <3>1 DEF DisconnectGroup, IndexInv, IndexesAgree
    <3>2. CASE req[r].group \notin groupItems
      BY <1>0, <2>1, <2>2, <3>2 DEF DisconnectGroup, IndexInv, IndexesAgree, indexVars
    <3> QED
      BY <3>1, <3>2
  <2>4. \A v \in User : accGroups[v] \ {req[r].group} \subseteq accGroups'[v]
    BY <1>1 DEF DeleteGroup
  <2> QED
    BY <2>3, <2>4
<1>removal. ASSUME NEW u \in User, NEW g \in Group, DisconnectUserFromGroup(u, g),
                   accGroups' = [accGroups EXCEPT ![u] = @ \ {g}]
            PROVE  ListensOnlyToOwnGroups'
  BY <1>0, <1>removal, RemovalStopsListening
<1>2. ASSUME NEW r \in Req, DeleteSelf(r)
      PROVE  ListensOnlyToOwnGroups'
  <2>1. req[r].caller \in User /\ req[r].group \in Group
    BY <1>2, RequestFields DEF DeleteSelf, Running
  <2>2. /\ DisconnectUserFromGroup(req[r].caller, req[r].group)
        /\ accGroups' = [accGroups EXCEPT ![req[r].caller] = @ \ {req[r].group}]
    BY <1>2 DEF DeleteSelf
  <2> QED
    BY <1>removal, <2>1, <2>2
<1>3. ASSUME NEW r \in Req, DeleteUser(r)
      PROVE  ListensOnlyToOwnGroups'
  <2>1. req[r].target \in User /\ req[r].group \in Group
    BY <1>3, RequestFields DEF DeleteUser, Running
  <2>2. /\ DisconnectUserFromGroup(req[r].target, req[r].group)
        /\ accGroups' = [accGroups EXCEPT ![req[r].target] = @ \ {req[r].group}]
    BY <1>3 DEF DeleteUser
  <2> QED
    BY <1>removal, <2>1, <2>2
<1>4. ASSUME NEW u \in User, NEW g \in Group, UserJoinedGroup(u, g),
             accGroups' = [accGroups EXCEPT ![u] = @ \cup {g}]
      PROVE  ListensOnlyToOwnGroups'
  BY <1>4 DEF UserJoinedGroup, UserConnectToGroupItems, indexVars
<1>5. ASSUME NEW r \in Req, Join(r) \/ RequestAccept(r)
      PROVE  ListensOnlyToOwnGroups'
  BY <1>4, <1>5, RequestFields DEF Join, RequestAccept, Enter, Running
<1>6. ASSUME NEW u \in User, NEW g \in Group, MakeGroup(u, g)
      PROVE  ListensOnlyToOwnGroups'
  BY <1>4, <1>6 DEF MakeGroup
<1>7. ASSUME NEW u \in User, Connect(u)
      PROVE  ListensOnlyToOwnGroups'
  BY <1>7 DEF Connect, UserConnectToGroupItems
<1>8. ASSUME NEW u \in User, Disconnect(u)
      PROVE  ListensOnlyToOwnGroups'
  BY <1>8 DEF Disconnect, ForgetUser
<1>9. CASE Restart
  BY <1>9 DEF Restart
<1>10. ASSUME UNCHANGED <<userGroups, accGroups>>
       PROVE  ListensOnlyToOwnGroups'
  BY <1>10
<1> QED
  BY <1>1, <1>2, <1>3, <1>5, <1>6, <1>7, <1>8, <1>9, <1>10
     DEF Next, Body, Check, AddAdmin, DeleteAdmin, BanUser, CreateGroupItem,
         ConnectBroken, SendingSystemMessage, TouchUsers, indexVars, vars

(* When no awaited broadcast is rate limited, a user listens only to groups *)
(* its account lists.                                                       *)
THEOREM UnthrottledListensOnly ==
    ASSUME Throttled \subseteq {FALSE}
    PROVE  Spec => []ListensOnlyToOwnGroups
<1>1. Init => ListensOnlyToOwnGroups
  BY DEF Init, IndexInit, ListensOnlyToOwnGroups
<1>2. MembershipInv /\ ListensOnlyToOwnGroups /\ [Next]_vars => ListensOnlyToOwnGroups'
  BY NextKeepsListens DEF MembershipInv
<1> QED
  BY MembershipInvHolds, <1>1, <1>2, PTL DEF Spec

================================================================================
