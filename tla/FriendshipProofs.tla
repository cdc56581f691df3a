---------------------------- MODULE FriendshipProofs ----------------------------
(***************************************************************************)
(* Proofs about Friendship, for any set of users, any number of calls in    *)
(* flight, any bound on time, any selection of handlers and any answer of   *)
(* the awaited broadcast.                                                   *)
(***************************************************************************)
EXTENDS Friendship, ConnectionIndexProofs, TLAPS

TypeInv == TypeOK /\ IndexInv

--------------------------------------------------------------------------------
(* Virtual groups *)

(* The virtual group of two users is a group, whoever asks for it.          *)
LEMMA VirtualGroupOfBoth ==
    ASSUME NEW u \in User, NEW v \in User
    PROVE  VirtualGroupID(u, v) \in Group /\ VirtualGroupID(u, v) = VirtualGroupID(v, u)
  BY UserAssumption, GroupAssumption DEF VirtualGroupID

(* A user has a virtual group of its own with each friend: this is what     *)
(* makes getTargetFromVirtualGroupID an inverse.                            *)
LEMMA VirtualGroupOfOneFriend ==
    ASSUME NEW u \in User, NEW v \in User, NEW w \in User,
           VirtualGroupID(u, v) = VirtualGroupID(u, w)
    PROVE  v = w
<1>1. u \in Nat /\ v \in Nat /\ w \in Nat /\ u > 0
  BY UserAssumption
<1>2. u * v = u * w
  BY DEF VirtualGroupID
<1>3. \A a, b \in Nat : a < b => u * a < u * b
  BY <1>1
<1>4. ~(v < w) /\ ~(w < v)
  BY <1>1, <1>2, <1>3
<1> QED
  BY <1>1, <1>4

--------------------------------------------------------------------------------
(* Types and the group index *)

(* A call names users, and a body that runs passed its check.               *)
LEMMA CallFields ==
    ASSUME NEW c \in Call, TypeInv, call[c] # Idle
    PROVE  call[c] \in CallType /\ call[c].caller \in User /\ call[c].target \in User
  BY DEF TypeInv, TypeOK, CallType

(* Disconnecting two friends keeps the index in agreement.                  *)
LEMMA DisconnectFriendsKeepsIndex ==
    ASSUME NEW u \in User, NEW v \in User, IndexInv, DisconnectFriends(u, v)
    PROVE  IndexInv'
<1> DEFINE g == VirtualGroupID(u, v)
<1>0. g \in Group
  BY VirtualGroupOfBoth
<1>1. CASE g \in groupItems
  <2>1. /\ onlineUsers' = [onlineUsers EXCEPT ![g] = @ \ {u, v}]
        /\ userGroups' = [userGroups EXCEPT ![u] = @ \ {g}, ![v] = @ \ {g}]
        /\ UNCHANGED <<known, groupItems>>
    BY <1>1 DEF DisconnectFriends
  <2>2. \A w \in User : userGroups'[w] = IF w \in {u, v} THEN userGroups[w] \ {g}
                                                          ELSE userGroups[w]
    BY <2>1 DEF IndexInv, IndexType
  <2>3. \A h \in Group : onlineUsers'[h] = IF h = g THEN onlineUsers[h] \ {u, v}
                                                     ELSE onlineUsers[h]
    BY <1>0, <2>1 DEF IndexInv, IndexType
  <2>4. IndexType'
    BY <2>1 DEF IndexInv, IndexType
  <2>5. IndexesAgree'
    <3> SUFFICES ASSUME NEW w \in User, NEW h \in Group
                 PROVE  h \in userGroups'[w] <=> (h \in groupItems' /\ w \in onlineUsers'[h])
      BY DEF IndexesAgree
    <3> HIDE DEF g
    <3>1. h \in userGroups[w] <=> (h \in groupItems /\ w \in onlineUsers[h])
      BY DEF IndexInv, IndexesAgree
    <3>2. h \in userGroups'[w] <=> h \in userGroups[w] /\ ~(w \in {u, v} /\ h = g)
      BY <2>2
    <3>3. w \in onlineUsers'[h] <=> w \in onlineUsers[h] /\ ~(w \in {u, v} /\ h = g)
      BY <2>3
    <3> QED
      BY <2>1, <3>1, <3>2, <3>3
  <2>6. AbsentItemEmpty'
    BY <2>1, <2>3 DEF IndexInv, AbsentItemEmpty
  <2> QED
    BY <2>4, <2>5, <2>6 DEF IndexInv
<1>2. CASE g \notin groupItems
  BY <1>2 DEF DisconnectFriends, indexVars, IndexInv, IndexType, IndexesAgree,
              AbsentItemEmpty
<1> QED
  BY <1>1, <1>2

(* Connecting two friends keeps the index in agreement.                     *)
LEMMA ConnectFriendsKeepsIndex ==
    ASSUME NEW u \in User, NEW v \in User, IndexInv, ConnectFriends(u, v)
    PROVE  IndexInv'
<1> DEFINE g == VirtualGroupID(u, v)
           joining == {u, v} \cap known
<1>0. g \in Group
  BY VirtualGroupOfBoth
<1>1. /\ userGroups' = [w \in User |-> IF w \in joining THEN userGroups[w] \cup {g}
                                                         ELSE userGroups[w]]
      /\ groupItems' = IF joining = {} THEN groupItems ELSE groupItems \cup {g}
      /\ onlineUsers' = [onlineUsers EXCEPT ![g] = @ \cup joining]
      /\ known' = known \cup {u, v}
  BY DEF ConnectFriends
<1> HIDE DEF g
<1>2. \A h \in Group : onlineUsers'[h] = IF h = g THEN onlineUsers[h] \cup joining
                                                   ELSE onlineUsers[h]
  BY <1>0, <1>1 DEF IndexInv, IndexType
<1>3. IndexType'
  BY <1>0, <1>1 DEF IndexInv, IndexType
<1>4. IndexesAgree'
  <2> SUFFICES ASSUME NEW w \in User, NEW h \in Group
               PROVE  h \in userGroups'[w] <=> (h \in groupItems' /\ w \in onlineUsers'[h])
    BY DEF IndexesAgree
  <2>1. h \in userGroups[w] <=> (h \in groupItems /\ w \in onlineUsers[h])
    BY DEF IndexInv, IndexesAgree
  <2>2. h \notin groupItems => onlineUsers[h] = {}
    BY DEF IndexInv, AbsentItemEmpty
  <2>3. h \in userGroups'[w] <=> h \in userGroups[w] \/ (w \in joining /\ h = g)
    BY <1>1
  <2>4. w \in onlineUsers'[h] <=> w \in onlineUsers[h] \/ (w \in joining /\ h = g)
    BY <1>2
  <2>5. h \in groupItems' <=> h \in groupItems \/ (joining # {} /\ h = g)
    BY <1>1
  <2> QED
    BY <2>1, <2>2, <2>3, <2>4, <2>5
<1>5. AbsentItemEmpty'
  BY <1>1, <1>2 DEF IndexInv, AbsentItemEmpty
<1> QED
  BY <1>3, <1>4, <1>5 DEF IndexInv

(* A step that leaves the index alone keeps it in agreement.                *)
LEMMA UnchangedIndex ==
    ASSUME IndexInv, UNCHANGED indexVars
    PROVE  IndexInv'
  BY DEF indexVars, IndexInv, IndexType, IndexesAgree, AbsentItemEmpty

(* Every step keeps the group index in agreement.                           *)
LEMMA NextKeepsIndex ==
    ASSUME TypeInv, [Next]_vars
    PROVE  IndexInv'
<1>0. IndexInv
  BY DEF TypeInv
<1>1. ASSUME NEW c \in Call, DeleteFriend(c)
      PROVE  IndexInv'
  <2>1. CASE DisconnectFriends(call[c].caller, call[c].target)
    BY <1>0, <1>1, <2>1, CallFields, DisconnectFriendsKeepsIndex
       DEF DeleteFriend, Running
  <2>2. CASE UNCHANGED indexVars
    BY <1>0, <2>2, UnchangedIndex
  <2> QED
    BY <1>1, <2>1, <2>2 DEF DeleteFriend
<1>2. ASSUME NEW c \in Call, RequestAccept(c)
      PROVE  IndexInv'
  BY <1>0, <1>2, CallFields, ConnectFriendsKeepsIndex DEF RequestAccept, Running
<1>3. ASSUME NEW u \in User, Connect(u)
      PROVE  IndexInv'
  <2>1. {VirtualGroupID(u, v) : v \in friends[u]} \subseteq Group
    BY VirtualGroupOfBoth DEF TypeInv, TypeOK
  <2>2. known' \subseteq User
    BY <1>3 DEF Connect, TypeInv, TypeOK, IndexType
  <2> QED
    BY <1>0, <1>3, <2>1, <2>2, ConnectKeepsIndex DEF Connect
<1>4. ASSUME NEW u \in User, Disconnect(u)
      PROVE  IndexInv'
  BY <1>0, <1>4, ForgetKeepsIndex DEF Disconnect
<1>5. ASSUME NEW u \in User, SendingSystemMessage(u)
      PROVE  IndexInv'
  BY <1>0, <1>5, TouchKeepsIndex DEF SendingSystemMessage
<1>6. CASE UNCHANGED indexVars
  BY <1>0, <1>6, UnchangedIndex
<1> QED
  BY <1>1, <1>2, <1>3, <1>4, <1>5, <1>6
     DEF Next, Body, Arrive, Check, FriendRequest, RequestReject, Expire, Cleaner, vars

(* Every step keeps the types.                                              *)
LEMMA NextKeepsType ==
    ASSUME TypeInv, [Next]_vars
    PROVE  TypeInv'
<1>0. IndexInv' /\ IndexType'
  BY NextKeepsIndex DEF IndexInv
<1> USE MaxTimeAssumption DEF Finished, requestVars, Time
<1>1. ASSUME NEW c \in Call, Arrive(c)
      PROVE  TypeOK'
  <2>1. call' \in [Call -> CallType \cup {Idle}]
    <3>1. ASSUME NEW r \in CallType, call' = [call EXCEPT ![c] = r]
          PROVE  call' \in [Call -> CallType \cup {Idle}]
      BY <3>1 DEF TypeInv, TypeOK
    <3>2. ASSUME NEW op \in Op \cap {"deleteFriend", "friendRequest"},
                 NEW u \in User, NEW v \in User
          PROVE  [op |-> op, caller |-> u, target |-> v, time |-> 0,
                  isFriend |-> v \in friends[u], checked |-> FALSE] \in CallType
      BY <3>2, OpAssumption DEF CallType
    <3>3. ASSUME NEW op \in Op \cap {"requestAccept", "requestReject"},
                 NEW t \in Time, requests[t] # NoRequest
          PROVE  [op |-> op, caller |-> requests[t].target,
                  target |-> requests[t].sender, time |-> t,
                  isFriend |-> FALSE, checked |-> FALSE] \in CallType
      BY <3>3, OpAssumption DEF CallType, TypeInv, TypeOK, RequestMsg
    <3> QED
      BY <1>1, <3>1, <3>2, <3>3 DEF Arrive
  <2> QED
    BY <1>0, <1>1, <2>1 DEF Arrive, TypeInv, TypeOK
<1>2. ASSUME NEW c \in Call, Check(c)
      PROVE  TypeOK'
  <2>1. [call[c] EXCEPT !.checked = TRUE] \in CallType
    BY <1>2, CallFields DEF Check, CallType
  <2>2. call' \in [Call -> CallType \cup {Idle}]
    BY <1>2, <2>1 DEF Check, TypeInv, TypeOK
  <2> QED
    BY <1>0, <1>2, <2>2 DEF Check, TypeInv, TypeOK
<1>3. ASSUME NEW c \in Call, DeleteFriend(c)
      PROVE  TypeOK'
  BY <1>0, <1>3 DEF DeleteFriend, PullFriends, TypeInv, TypeOK
<1>4. ASSUME NEW c \in Call, FriendRequest(c)
      PROVE  TypeOK'
  <2>1. [sender |-> call[c].caller, target |-> call[c].target,
         state |-> "pending"] \in RequestMsg
    BY <1>4, CallFields DEF FriendRequest, Running, RequestMsg
  <2> QED
    BY <1>0, <1>4, <2>1 DEF FriendRequest, TypeInv, TypeOK
<1>5. ASSUME NEW t, NEW state \in {"accepted", "rejected"}, SetState(t, state)
      PROVE  /\ requests' \in [Time -> RequestMsg \cup {NoRequest}]
             /\ \A x \in Time : requests'[x] # NoRequest => requests[x] # NoRequest
  <2>1. \A x \in Time : requests[x] # NoRequest =>
            [requests[x] EXCEPT !.state = state] \in RequestMsg
    BY DEF TypeInv, TypeOK, RequestMsg
  <2> QED
    BY <1>5, <2>1 DEF SetState, TypeInv, TypeOK
<1>6. ASSUME NEW c \in Call, RequestAccept(c)
      PROVE  TypeOK'
  <2>1. friends' \in [User -> SUBSET User]
    BY <1>6, CallFields DEF RequestAccept, PushFriends, Running, TypeInv, TypeOK
  <2>2. /\ requests' \in [Time -> RequestMsg \cup {NoRequest}]
        /\ \A x \in Time : requests'[x] # NoRequest => requests[x] # NoRequest
    BY <1>5, <1>6 DEF RequestAccept
  <2> QED
    BY <1>0, <1>6, <2>1, <2>2 DEF RequestAccept, TypeInv, TypeOK
<1>7. ASSUME NEW c \in Call, RequestReject(c)
      PROVE  TypeOK'
  <2>1. /\ requests' \in [Time -> RequestMsg \cup {NoRequest}]
        /\ \A x \in Time : requests'[x] # NoRequest => requests[x] # NoRequest
    BY <1>5, <1>7 DEF RequestReject
  <2> QED
    BY <1>0, <1>7, <2>1 DEF RequestReject, TypeInv, TypeOK
<1>8. CASE Expire
  BY <1>0, <1>8 DEF Expire, TypeInv, TypeOK
<1>9. CASE Cleaner
  BY <1>0, <1>9 DEF Cleaner, TypeInv, TypeOK
<1>10. ASSUME NEW u \in User, Connect(u) \/ Disconnect(u) \/ SendingSystemMessage(u)
       PROVE  TypeOK'
  BY <1>0, <1>10 DEF Connect, Disconnect, SendingSystemMessage, TypeInv, TypeOK
<1>11. CASE UNCHANGED vars
  BY <1>0, <1>11 DEF vars, TypeInv, TypeOK
<1> QED
  BY <1>0, <1>1, <1>2, <1>3, <1>4, <1>6, <1>7, <1>8, <1>9, <1>10, <1>11
     DEF Next, Body, TypeInv

--------------------------------------------------------------------------------
(* Friends *)

(* Every step changes both accounts or none.                                *)
LEMMA NextKeepsMutual ==
    ASSUME TypeInv, FriendsMutual, [Next]_vars
    PROVE  FriendsMutual'
<1> USE DEF FriendsMutual, TypeInv, TypeOK
<1>1. ASSUME NEW c \in Call, DeleteFriend(c)
      PROVE  FriendsMutual'
  BY <1>1, CallFields DEF DeleteFriend, PullFriends, Running
<1>2. ASSUME NEW c \in Call, RequestAccept(c)
      PROVE  FriendsMutual'
  BY <1>2, CallFields DEF RequestAccept, PushFriends, Running
<1>3. CASE UNCHANGED friends
  BY <1>3
<1> QED
  BY <1>1, <1>2, <1>3
     DEF Next, Body, Arrive, Check, FriendRequest, RequestReject, Expire, Cleaner,
         Connect, Disconnect, SendingSystemMessage, vars

(* An online user has a key in _users, so userJoinedGroup does not skip it. *)
ConnectedInv == online \subseteq known /\ OnlineFriendsConnected

(* The end of a friendship takes no other virtual group from either user.   *)
LEMMA DeleteKeepsConnected ==
    ASSUME NEW c \in Call, TypeInv, ConnectedInv, DeleteFriend(c)
    PROVE  ConnectedInv'
<1> DEFINE u == call[c].caller
           v == call[c].target
           g == VirtualGroupID(u, v)
<1>0. u \in User /\ v \in User /\ g \in Group
  BY CallFields, VirtualGroupOfBoth DEF DeleteFriend, Running
<1>1. /\ friends' = [friends EXCEPT ![u] = @ \ {v}, ![v] = @ \ {u}]
      /\ UNCHANGED <<online>>
  BY DEF DeleteFriend, PullFriends
<1>2. DisconnectFriends(u, v) \/ UNCHANGED indexVars
  BY DEF DeleteFriend
<1> HIDE DEF u, v
<1>3. known' = known
  BY <1>2 DEF DisconnectFriends, indexVars
<1>4. \A w \in User : \A h \in userGroups[w] :
        h \in userGroups'[w] \/ (w \in {u, v} /\ h = g)
  BY <1>2 DEF DisconnectFriends, indexVars, TypeInv, TypeOK, IndexType
<1>5. \A w \in User : /\ friends'[w] \subseteq friends[w]
                      /\ w = u => v \notin friends'[w]
                      /\ w = v => u \notin friends'[w]
  BY <1>0, <1>1 DEF TypeInv, TypeOK
<1>6. SUFFICES ASSUME NEW w \in online, NEW x \in friends'[w]
               PROVE  VirtualGroupID(w, x) \in userGroups'[w]
  BY <1>1, <1>3 DEF ConnectedInv, OnlineFriendsConnected
<1>7. w \in User /\ x \in User /\ x \in friends[w]
  BY <1>5 DEF TypeInv, TypeOK
<1>8. VirtualGroupID(w, x) \in userGroups[w]
  BY <1>7 DEF ConnectedInv, OnlineFriendsConnected
<1>9. CASE w = u
  <2>1. x # v
    BY <1>5, <1>7, <1>9
  <2>2. VirtualGroupID(w, x) # g
    BY <1>0, <1>7, <1>9, <2>1, VirtualGroupOfOneFriend
  <2> QED
    BY <1>4, <1>7, <1>8, <2>2
<1>10. CASE w = v
  <2>1. x # u
    BY <1>5, <1>7, <1>10
  <2>2. g = VirtualGroupID(v, u)
    BY <1>0, VirtualGroupOfBoth
  <2>3. VirtualGroupID(w, x) # g
    BY <1>0, <1>7, <1>10, <2>1, <2>2, VirtualGroupOfOneFriend
  <2> QED
    BY <1>4, <1>7, <1>8, <2>3
<1> QED
  BY <1>4, <1>7, <1>8, <1>9, <1>10

(* A new friendship connects the two users that have a key.                 *)
LEMMA AcceptKeepsConnected ==
    ASSUME NEW c \in Call, TypeInv, ConnectedInv, RequestAccept(c)
    PROVE  ConnectedInv'
<1> DEFINE u == call[c].target
           v == call[c].caller
           g == VirtualGroupID(u, v)
           joining == {u, v} \cap known
<1>0. /\ u \in User /\ v \in User
      /\ g = VirtualGroupID(v, u)
  BY CallFields, VirtualGroupOfBoth DEF RequestAccept, Running
<1>1. /\ friends' = [friends EXCEPT ![u] = @ \cup {v}, ![v] = @ \cup {u}]
      /\ online' = online
      /\ known' = known \cup {u, v}
      /\ userGroups' = [w \in User |-> IF w \in joining THEN userGroups[w] \cup {g}
                                                         ELSE userGroups[w]]
  BY DEF RequestAccept, PushFriends, ConnectFriends
<1> HIDE DEF u, v, g
<1>2. \A w \in User : \A x \in friends'[w] :
        x \in friends[w] \/ (w = u /\ x = v) \/ (w = v /\ x = u)
  BY <1>0, <1>1 DEF TypeInv, TypeOK
<1>3. \A w \in User : userGroups[w] \subseteq userGroups'[w]
  BY <1>1
<1>4. online \subseteq known
  BY DEF ConnectedInv
<1>5. \A w \in online \cap {u, v} : g \in userGroups'[w]
  BY <1>0, <1>1, <1>4
<1>6. \A w \in online, x \in User : x \in friends[w] => VirtualGroupID(w, x) \in userGroups'[w]
  BY <1>3 DEF ConnectedInv, OnlineFriendsConnected, TypeInv, TypeOK
<1>7. OnlineFriendsConnected'
  <2> SUFFICES ASSUME NEW w \in online, NEW x \in friends'[w]
               PROVE  VirtualGroupID(w, x) \in userGroups'[w]
    BY <1>1 DEF OnlineFriendsConnected
  <2>1. w \in User
    BY DEF TypeInv, TypeOK
  <2>2. CASE x \in friends[w]
    BY <1>6, <2>1, <2>2 DEF TypeInv, TypeOK
  <2>3. CASE w = u /\ x = v
    BY <1>5, <2>3 DEF g
  <2>4. CASE w = v /\ x = u
    BY <1>0, <1>5, <2>4
  <2> QED
    BY <1>2, <2>1, <2>2, <2>3, <2>4
<1> QED
  BY <1>1, <1>4, <1>7 DEF ConnectedInv

(* Every step keeps online friends connected.                               *)
LEMMA NextKeepsConnected ==
    ASSUME TypeInv, ConnectedInv, [Next]_vars
    PROVE  ConnectedInv'
<1> USE DEF ConnectedInv, OnlineFriendsConnected, TypeInv, TypeOK, IndexType
<1>1. ASSUME NEW c \in Call, DeleteFriend(c)
      PROVE  ConnectedInv'
  BY <1>1, DeleteKeepsConnected
<1>2. ASSUME NEW c \in Call, RequestAccept(c)
      PROVE  ConnectedInv'
  BY <1>2, AcceptKeepsConnected
<1>3. ASSUME NEW u \in User, Connect(u)
      PROVE  ConnectedInv'
  BY <1>3 DEF Connect, UserConnectToGroupItems
<1>4. ASSUME NEW u \in User, Disconnect(u)
      PROVE  ConnectedInv'
  BY <1>4 DEF Disconnect, ForgetUser
<1>5. ASSUME known \subseteq known', UNCHANGED <<friends, online, userGroups>>
      PROVE  ConnectedInv'
  BY <1>5
<1> QED
  BY <1>1, <1>2, <1>3, <1>4, <1>5
     DEF Next, Body, Arrive, Check, FriendRequest, RequestReject, Expire, Cleaner,
         SendingSystemMessage, TouchUsers, indexVars, vars

--------------------------------------------------------------------------------
(* The theorems *)

(* The inductive invariant.                                                 *)
FriendshipInv == TypeInv /\ FriendsMutual /\ ConnectedInv

(* The inductive invariant holds in every behaviour.                        *)
LEMMA FriendshipInvHolds == Spec => []FriendshipInv
<1>1. Init => FriendshipInv
  <2> SUFFICES ASSUME Init PROVE FriendshipInv
    OBVIOUS
  <2>1. IndexInv
    BY InitIndex DEF Init
  <2>2. TypeOK
    BY <2>1, MaxTimeAssumption DEF Init, TypeOK, IndexInv
  <2> QED
    BY <2>1, <2>2 DEF Init, IndexInit, FriendshipInv, TypeInv, FriendsMutual,
       ConnectedInv, OnlineFriendsConnected
<1>2. FriendshipInv /\ [Next]_vars => FriendshipInv'
  BY NextKeepsType, NextKeepsMutual, NextKeepsConnected DEF FriendshipInv
<1> QED
  BY <1>1, <1>2, PTL DEF Spec

(* The variables keep their types in every behaviour.                       *)
THEOREM FriendshipTypeCorrect == Spec => []TypeOK
<1>1. FriendshipInv => TypeOK
  BY DEF FriendshipInv, TypeInv
<1> QED
  BY FriendshipInvHolds, <1>1, PTL

(* The two tables of the group index agree through every handler of         *)
(* friendships.                                                             *)
THEOREM FriendshipIndexesAgree == Spec => []IndexesAgree
<1>1. FriendshipInv => IndexesAgree
  BY DEF FriendshipInv, TypeInv, IndexInv
<1> QED
  BY FriendshipInvHolds, <1>1, PTL

(* Friendship is mutual whichever calls raced.                              *)
THEOREM FriendsAlwaysMutual == Spec => []FriendsMutual
<1>1. FriendshipInv => FriendsMutual
  BY DEF FriendshipInv
<1> QED
  BY FriendshipInvHolds, <1>1, PTL

(* Online friends always hear each other.                                   *)
THEOREM OnlineFriendsAlwaysConnected == Spec => []OnlineFriendsConnected
<1>1. FriendshipInv => OnlineFriendsConnected
  BY DEF FriendshipInv, ConnectedInv
<1> QED
  BY FriendshipInvHolds, <1>1, PTL

--------------------------------------------------------------------------------
(* Without raising broadcasts *)

(* The end of a friendship ends the listening of both users.                *)
LEMMA DeleteStopsListening ==
    ASSUME NEW u \in User, NEW v \in User, IndexInv, DisconnectFriends(u, v)
    PROVE  \A w \in User :
             userGroups'[w] = IF w \in {u, v} THEN userGroups[w] \ {VirtualGroupID(u, v)}
                                              ELSE userGroups[w]
<1> DEFINE g == VirtualGroupID(u, v)
<1>0. g \in Group
  BY VirtualGroupOfBoth
<1>1. CASE g \in groupItems
  BY <1>1 DEF DisconnectFriends, IndexInv, IndexType
<1>2. CASE g \notin groupItems
  <2>1. g \notin userGroups[u] /\ g \notin userGroups[v]
    BY <1>0, <1>2 DEF IndexInv, IndexesAgree
  <2> QED
    BY <1>2, <2>1 DEF DisconnectFriends, indexVars
<1> QED
  BY <1>1, <1>2

(* Every step that makes a user listen records the friend, and the end of   *)
(* the friendship ends the listening.                                       *)
LEMMA NextKeepsListens ==
    ASSUME Throttled \subseteq {FALSE}, TypeInv, ListensOnlyToFriends, [Next]_vars
    PROVE  ListensOnlyToFriends'
<1>0. IndexInv
  BY DEF TypeInv
<1> USE DEF ListensOnlyToFriends, TypeInv, TypeOK, IndexType
<1>1. ASSUME NEW c \in Call, DeleteFriend(c)
      PROVE  ListensOnlyToFriends'
  <2> DEFINE u == call[c].caller
             v == call[c].target
             g == VirtualGroupID(u, v)
  <2>1. u \in User /\ v \in User /\ g = VirtualGroupID(v, u)
    BY <1>1, CallFields, VirtualGroupOfBoth DEF DeleteFriend, Running
  <2>2. /\ friends' = [friends EXCEPT ![u] = @ \ {v}, ![v] = @ \ {u}]
        /\ DisconnectFriends(u, v)
    BY <1>1 DEF DeleteFriend, PullFriends
  <2> HIDE DEF u, v
  <2>3. \A w \in User : userGroups'[w] = IF w \in {u, v} THEN userGroups[w] \ {g}
                                                          ELSE userGroups[w]
    BY <1>0, <2>1, <2>2, DeleteStopsListening
  <2>4. \A w \in User, x \in User :
          x \in friends[w] =>
            x \in friends'[w] \/ (w \in {u, v} /\ VirtualGroupID(w, x) = g)
    BY <2>1, <2>2
  <2> SUFFICES ASSUME NEW w \in User, NEW h \in userGroups'[w]
               PROVE  \E x \in friends'[w] : h = VirtualGroupID(w, x)
    OBVIOUS
  <2>5. h \in userGroups[w] /\ ~(w \in {u, v} /\ h = g)
    BY <2>3
  <2>6. PICK x \in friends[w] : h = VirtualGroupID(w, x)
    BY <2>5
  <2> QED
    BY <2>4, <2>5, <2>6
<1>2. ASSUME NEW c \in Call, RequestAccept(c)
      PROVE  ListensOnlyToFriends'
  <2> DEFINE u == call[c].target
             v == call[c].caller
             g == VirtualGroupID(u, v)
  <2>1. u \in User /\ v \in User /\ g = VirtualGroupID(v, u)
    BY <1>2, CallFields, VirtualGroupOfBoth DEF RequestAccept, Running
  <2>2. /\ friends' = [friends EXCEPT ![u] = @ \cup {v}, ![v] = @ \cup {u}]
        /\ \A w \in User : \A h \in userGroups'[w] :
              h \in userGroups[w] \/ (w \in {u, v} /\ h = g)
    BY <1>2 DEF RequestAccept, PushFriends, ConnectFriends
  <2> HIDE DEF u, v
  <2>3. /\ \A w \in User : friends[w] \subseteq friends'[w]
        /\ v \in friends'[u] /\ u \in friends'[v]
    BY <2>1, <2>2
  <2> QED
    BY <2>1, <2>2, <2>3
<1>3. ASSUME NEW u \in User, Connect(u)
      PROVE  ListensOnlyToFriends'
  BY <1>3 DEF Connect, UserConnectToGroupItems
<1>4. ASSUME NEW u \in User, Disconnect(u)
      PROVE  ListensOnlyToFriends'
  BY <1>4 DEF Disconnect, ForgetUser
<1>5. CASE UNCHANGED <<userGroups, friends>>
  BY <1>5
<1> QED
  BY <1>1, <1>2, <1>3, <1>4, <1>5
     DEF Next, Body, Arrive, Check, FriendRequest, RequestReject, Expire, Cleaner,
         SendingSystemMessage, TouchUsers, indexVars, vars

(* When no awaited broadcast raises, a user listens only to the virtual     *)
(* groups of its friends.                                                   *)
THEOREM UnraisedListensOnly ==
    ASSUME Throttled \subseteq {FALSE}
    PROVE  Spec => []ListensOnlyToFriends
<1>1. Init => ListensOnlyToFriends
  BY DEF Init, IndexInit, ListensOnlyToFriends
<1>2. FriendshipInv /\ ListensOnlyToFriends /\ [Next]_vars => ListensOnlyToFriends'
  BY NextKeepsListens DEF FriendshipInv
<1> QED
  BY FriendshipInvHolds, <1>1, <1>2, PTL DEF Spec

--------------------------------------------------------------------------------
(* The bonds *)

(* A body that asks was checked, and nobody asks itself.                    *)
AskersAskOthers ==
    \A c \in Call :
        call[c] # Idle /\ call[c].checked /\ call[c].op = "friendRequest"
            => call[c].caller # call[c].target

(* What the refinement needs to know of a state.                            *)
BondsInv == FriendshipInv /\ ListensOnlyToFriends /\ AskersAskOthers

(* The check is the last word on who asks whom.                             *)
LEMMA NextKeepsAskers ==
    ASSUME TypeInv, AskersAskOthers, [Next]_vars
    PROVE  AskersAskOthers'
<1> USE DEF AskersAskOthers, TypeInv, TypeOK
<1>1. ASSUME NEW c \in Call, Arrive(c)
      PROVE  AskersAskOthers'
  <2>1. \A d \in Call \ {c} : call'[d] = call[d]
    BY <1>1 DEF Arrive
  <2>2. ~call'[c].checked
    BY <1>1 DEF Arrive
  <2> QED
    BY <2>1, <2>2
<1>2. ASSUME NEW c \in Call, Check(c)
      PROVE  AskersAskOthers'
  <2>1. \A d \in Call \ {c} : call'[d] = call[d]
    BY <1>2 DEF Check
  <2>2. call'[c] # Idle => /\ Permitted(call[c])
                          /\ call'[c] = [call[c] EXCEPT !.checked = TRUE]
    BY <1>2 DEF Check
  <2>3. call[c] \in CallType
    BY <1>2, CallFields DEF Check
  <2>4. call'[c] # Idle => /\ call'[c].op = call[c].op
                          /\ call'[c].caller = call[c].caller
                          /\ call'[c].target = call[c].target
    BY <2>2, <2>3 DEF CallType
  <2>5. Permitted(call[c]) /\ call[c].op = "friendRequest"
          => call[c].caller # call[c].target
    BY DEF Permitted, MayRequest
  <2> QED
    BY <2>1, <2>2, <2>4, <2>5
<1>3. ASSUME NEW c \in Call, Finished(c)
      PROVE  AskersAskOthers'
  BY <1>3 DEF Finished
<1>4. CASE UNCHANGED call
  BY <1>4
<1> QED
  BY <1>1, <1>2, <1>3, <1>4
     DEF Next, Body, DeleteFriend, FriendRequest, RequestAccept, RequestReject,
         Expire, Cleaner, Connect, Disconnect, SendingSystemMessage, vars

(* Who asked whom, from the documents and the calls.                        *)
LEMMA WhoAsked ==
    ASSUME NEW p
    PROVE  p \in Asked <=>
             \/ \E t \in Time : /\ requests[t] # NoRequest
                                /\ p = <<requests[t].sender, requests[t].target>>
             \/ \E c \in Call : /\ call[c] # Idle /\ call[c].op = "requestAccept"
                                /\ p = <<call[c].target, call[c].caller>>
  BY DEF Asked

(* The end of a call makes nobody ask.                                      *)
LEMMA FinishedAsksNothing ==
    ASSUME TypeInv, NEW c \in Call, Finished(c),
           \A t \in Time : requests'[t] # NoRequest =>
               /\ requests[t] # NoRequest
               /\ requests'[t].sender = requests[t].sender
               /\ requests'[t].target = requests[t].target
    PROVE  Asked' \subseteq Asked
<1>1. \A d \in Call : call'[d] # Idle => call'[d] = call[d]
  BY DEF Finished, TypeInv, TypeOK
<1> QED
  BY <1>1 DEF Asked

(* An answer changes nothing but the state of a request.                    *)
LEMMA AnswerKeepsPair ==
    ASSUME TypeInv, NEW t, NEW state, SetState(t, state), NEW x \in Time,
           requests'[x] # NoRequest
    PROVE  /\ requests[x] # NoRequest
           /\ requests'[x].sender = requests[x].sender
           /\ requests'[x].target = requests[x].target
<1>1. requests \in [Time -> RequestMsg \cup {NoRequest}]
  BY DEF TypeInv, TypeOK
<1>2. requests'[x] = IF x = t /\ requests[x] # NoRequest
                     THEN [requests[x] EXCEPT !.state = state] ELSE requests[x]
  BY <1>1 DEF SetState
<1> QED
  BY <1>1, <1>2 DEF RequestMsg

(* Virtual groups of one user tell its friends apart.                       *)
LEMMA HeardWithout ==
    ASSUME NEW u \in User, NEW v \in User, NEW old \in SUBSET Group
    PROVE  {x \in User : VirtualGroupID(u, x) \in old \ {VirtualGroupID(u, v)}}
             = {x \in User : VirtualGroupID(u, x) \in old} \ {v}
  BY VirtualGroupOfOneFriend

LEMMA HeardWith ==
    ASSUME NEW u \in User, NEW v \in User, NEW old \in SUBSET Group
    PROVE  {x \in User : VirtualGroupID(u, x) \in old \cup {VirtualGroupID(u, v)}}
             = {x \in User : VirtualGroupID(u, x) \in old} \cup {v}
  BY VirtualGroupOfOneFriend

(* The first state is one without bonds.                                    *)
LEMMA InitHasNoBonds == Init => Abstract!Init
  BY DEF Init, IndexInit, Abstract!Init, HeardFriends, Asked

(* A request is one question asked, or none when its millisecond was taken. *)
LEMMA RequestAsks ==
    ASSUME BondsInv, NEW c \in Call, FriendRequest(c)
    PROVE  \/ Abstract!Ask(call[c].caller, call[c].target)
           \/ UNCHANGED <<friends, Asked, online, HeardFriends>>
<1> DEFINE u == call[c].caller
           v == call[c].target
<1>1. /\ TypeInv /\ u # v
      /\ UNCHANGED <<friends, online, userGroups>>
  BY DEF BondsInv, FriendshipInv, AskersAskOthers, FriendRequest, Running, indexVars
<1>2. HeardFriends' = HeardFriends
  BY <1>1 DEF HeardFriends
<1>3. \A d \in Call : call[d] # Idle /\ call[d].op = "requestAccept" => call'[d] = call[d]
  BY <1>1 DEF FriendRequest, Running, Finished, TypeInv, TypeOK
<1>4. \A d \in Call : call'[d] # Idle => call'[d] = call[d]
  BY <1>1 DEF FriendRequest, Finished, TypeInv, TypeOK
<1>5. CASE requests' = requests
  BY <1>1, <1>2, <1>3, <1>4, <1>5 DEF Asked
<1>6. CASE requests' # requests
  <2> DEFINE t == newest + 1
             q == [sender |-> u, target |-> v, state |-> "pending"]
  <2>1. /\ t \in Time /\ requests[t] = NoRequest
        /\ requests' = [requests EXCEPT ![t] = q]
    <3>1. /\ newest < MaxTime
          /\ requests' = [requests EXCEPT ![t] = q]
      BY <1>6 DEF FriendRequest
    <3>2. t \in Time /\ ~(t <= newest)
      BY <1>1, <3>1, MaxTimeAssumption DEF Time, TypeInv, TypeOK
    <3> QED
      BY <1>1, <3>1, <3>2 DEF TypeInv, TypeOK
  <2>2. q \in RequestMsg
    BY <1>1, CallFields DEF FriendRequest, Running, RequestMsg
  <2>3. q # NoRequest
    BY <2>2, NoRequestAssumption
  <2>4. /\ requests'[t] = q
        /\ \A x \in Time \ {t} : requests'[x] = requests[x]
    BY <1>1, <2>1 DEF TypeInv, TypeOK
  <2> HIDE DEF t
  <2>5. ASSUME NEW p
        PROVE  p \in Asked' <=> p \in Asked \cup {<<u, v>>}
    <3>1. p \in Asked' <=>
             \/ \E x \in Time : /\ requests'[x] # NoRequest
                                /\ p = <<requests'[x].sender, requests'[x].target>>
             \/ \E d \in Call : /\ call'[d] # Idle /\ call'[d].op = "requestAccept"
                                /\ p = <<call'[d].target, call'[d].caller>>
      BY DEF Asked
    <3>2. (\E x \in Time : /\ requests'[x] # NoRequest
                            /\ p = <<requests'[x].sender, requests'[x].target>>)
            <=> \/ p = <<u, v>>
                \/ \E x \in Time : /\ requests[x] # NoRequest
                                   /\ p = <<requests[x].sender, requests[x].target>>
      BY <2>1, <2>3, <2>4
    <3>3. (\E d \in Call : /\ call'[d] # Idle /\ call'[d].op = "requestAccept"
                            /\ p = <<call'[d].target, call'[d].caller>>)
            <=> \E d \in Call : /\ call[d] # Idle /\ call[d].op = "requestAccept"
                               /\ p = <<call[d].target, call[d].caller>>
      BY <1>3, <1>4
    <3> QED
      BY <3>1, <3>2, <3>3, WhoAsked
  <2>6. Asked' = Asked \cup {<<u, v>>}
    BY <2>5
  <2> QED
    BY <1>1, <1>2, <2>6 DEF Abstract!Ask
<1> QED
  BY <1>5, <1>6

(* Removing a friend parts the two users.                                   *)
LEMMA DeleteParts ==
    ASSUME Throttled \subseteq {FALSE}, BondsInv, NEW c \in Call, DeleteFriend(c)
    PROVE  Abstract!Part(call[c].caller, call[c].target)
<1> DEFINE u == call[c].caller
           v == call[c].target
           g == VirtualGroupID(u, v)
<1>1. /\ TypeInv /\ u \in User /\ v \in User
      /\ g = VirtualGroupID(v, u) /\ g \in Group
  BY CallFields, VirtualGroupOfBoth DEF BondsInv, FriendshipInv, DeleteFriend, Running
<1>2. /\ friends' = [friends EXCEPT ![u] = @ \ {v}, ![v] = @ \ {u}]
      /\ DisconnectFriends(u, v)
      /\ online' = online
  BY DEF DeleteFriend, PullFriends
<1>3. \A w \in User : userGroups'[w] = IF w \in {u, v} THEN userGroups[w] \ {g}
                                                        ELSE userGroups[w]
  BY <1>1, <1>2, DeleteStopsListening DEF TypeInv
<1>4. Asked' = Asked
  <2>1. \A d \in Call : call[d] # Idle /\ call[d].op = "requestAccept" => call'[d] = call[d]
    BY <1>1 DEF DeleteFriend, Running, Finished, TypeInv, TypeOK
  <2>2. \A d \in Call : call'[d] # Idle => call'[d] = call[d]
    BY <1>1 DEF DeleteFriend, Finished, TypeInv, TypeOK
  <2>3. requests' = requests
    BY DEF DeleteFriend, requestVars
  <2> QED
    BY <2>1, <2>2, <2>3 DEF Asked
<1>5. \A w \in User : userGroups[w] \in SUBSET Group
  BY <1>1 DEF TypeInv, TypeOK, IndexType
<1> HIDE DEF u, v, g
<1>6. {x \in User : VirtualGroupID(u, x) \in userGroups[u] \ {g}}
        = {x \in User : VirtualGroupID(u, x) \in userGroups[u]} \ {v}
  BY <1>1, <1>5, HeardWithout DEF g
<1>7. {x \in User : VirtualGroupID(v, x) \in userGroups[v] \ {g}}
        = {x \in User : VirtualGroupID(v, x) \in userGroups[v]} \ {u}
  BY <1>1, <1>5, HeardWithout
<1>8. /\ HeardFriends'[u] = HeardFriends[u] \ {v}
      /\ HeardFriends'[v] = HeardFriends[v] \ {u}
      /\ \A w \in User \ {u, v} : HeardFriends'[w] = HeardFriends[w]
  BY <1>1, <1>2, <1>3, <1>6, <1>7 DEF HeardFriends
<1>9. /\ HeardFriends = [w \in User |-> HeardFriends[w]]
      /\ HeardFriends' = [w \in User |-> HeardFriends'[w]]
  BY DEF HeardFriends
<1>10. HeardFriends' = [HeardFriends EXCEPT ![u] = @ \ {v}, ![v] = @ \ {u}]
  BY <1>1, <1>8, <1>9
<1> QED
  BY <1>2, <1>4, <1>10 DEF Abstract!Part, u, v

(* Accepting a request makes a bond of the two that share the request.      *)
LEMMA AcceptBefriends ==
    ASSUME BondsInv, NEW c \in Call, RequestAccept(c)
    PROVE  Abstract!Befriend(call[c].target, call[c].caller)
<1> DEFINE u == call[c].target
           v == call[c].caller
           g == VirtualGroupID(u, v)
           joining == {u, v} \cap known
<1>1. /\ TypeInv /\ u \in User /\ v \in User
      /\ g = VirtualGroupID(v, u) /\ g \in Group
      /\ online \subseteq known
  BY CallFields, VirtualGroupOfBoth
     DEF BondsInv, FriendshipInv, ConnectedInv, RequestAccept, Running
<1>2. /\ friends' = [friends EXCEPT ![u] = @ \cup {v}, ![v] = @ \cup {u}]
      /\ online' = online
      /\ userGroups' = [w \in User |-> IF w \in joining THEN userGroups[w] \cup {g}
                                                         ELSE userGroups[w]]
  BY DEF RequestAccept, PushFriends, ConnectFriends
<1>3. <<u, v>> \in Asked
  BY WhoAsked DEF RequestAccept, Running
<1>4. Asked' \subseteq Asked
  <2>1. SetState(call[c].time, "accepted") /\ Finished(c)
    BY DEF RequestAccept
  <2> QED
    BY <1>1, <2>1, AnswerKeepsPair, FinishedAsksNothing
<1>5. \A w \in User : userGroups[w] \in SUBSET Group
  BY <1>1 DEF TypeInv, TypeOK, IndexType
<1> HIDE DEF u, v, g
<1>6. {x \in User : VirtualGroupID(u, x) \in userGroups[u] \cup {g}}
        = {x \in User : VirtualGroupID(u, x) \in userGroups[u]} \cup {v}
  BY <1>1, <1>5, HeardWith DEF g
<1>7. {x \in User : VirtualGroupID(v, x) \in userGroups[v] \cup {g}}
        = {x \in User : VirtualGroupID(v, x) \in userGroups[v]} \cup {u}
  BY <1>1, <1>5, HeardWith
<1>8. /\ HeardFriends'[u] = IF u \in online THEN HeardFriends[u] \cup {v}
                                            ELSE HeardFriends[u]
      /\ HeardFriends'[v] = IF v \in online THEN HeardFriends[v] \cup {u}
                                            ELSE HeardFriends[v]
      /\ \A w \in User \ {u, v} : HeardFriends'[w] = HeardFriends[w]
  BY <1>1, <1>2, <1>6, <1>7 DEF HeardFriends
<1>9. /\ HeardFriends = [w \in User |-> HeardFriends[w]]
      /\ HeardFriends' = [w \in User |-> HeardFriends'[w]]
  BY DEF HeardFriends
<1>10. HeardFriends' =
         [HeardFriends EXCEPT ![u] = IF u \in online THEN @ \cup {v} ELSE @,
                              ![v] = IF v \in online THEN @ \cup {u} ELSE @]
  BY <1>1, <1>8, <1>9
<1> QED
  BY <1>2, <1>3, <1>4, <1>10 DEF Abstract!Befriend, u, v

(* A connection makes a user hear exactly its friends.                      *)
LEMMA ConnectHearsFriends ==
    ASSUME BondsInv, NEW u \in User, Connect(u)
    PROVE  Abstract!Connect(u)
<1> DEFINE gs == {VirtualGroupID(u, v) : v \in friends[u]}
<1>1. /\ TypeInv /\ friends[u] \subseteq User
      /\ userGroups[u] \subseteq gs
  BY DEF BondsInv, FriendshipInv, TypeInv, TypeOK, ListensOnlyToFriends
<1>2. /\ online' = online \cup {u}
      /\ userGroups' = [userGroups EXCEPT ![u] = @ \cup gs]
      /\ UNCHANGED <<friends, requests, call>>
  BY DEF Connect, UserConnectToGroupItems, requestVars
<1>3. userGroups'[u] = gs /\ \A w \in User \ {u} : userGroups'[w] = userGroups[w]
  BY <1>1, <1>2 DEF TypeInv, TypeOK, IndexType
<1>4. {v \in User : VirtualGroupID(u, v) \in gs} = friends[u]
  BY <1>1, VirtualGroupOfOneFriend
<1>5. HeardFriends' = [HeardFriends EXCEPT ![u] = friends[u]]
  BY <1>2, <1>3, <1>4 DEF HeardFriends
<1>6. Asked' = Asked
  BY <1>2 DEF Asked
<1> QED
  BY <1>2, <1>5, <1>6 DEF Abstract!Connect

(* Every step is one change of the bonds or none.                           *)
LEMMA NextChangesBonds ==
    ASSUME Throttled \subseteq {FALSE}, BondsInv, [Next]_vars
    PROVE  [Abstract!Next]_<<friends, Asked, online, HeardFriends>>
<1> DEFINE Goal == Abstract!Next \/ UNCHANGED <<friends, Asked, online, HeardFriends>>
<1>0. TypeInv
  BY DEF BondsInv, FriendshipInv
<1>1. ASSUME NEW c \in Call, DeleteFriend(c)
      PROVE  Goal
  <2>1. call[c].caller \in User /\ call[c].target \in User
    BY <1>0, <1>1, CallFields DEF DeleteFriend, Running
  <2> QED
    BY <1>1, <2>1, DeleteParts DEF Abstract!Next
<1>2. ASSUME NEW c \in Call, RequestAccept(c)
      PROVE  Goal
  <2>1. call[c].caller \in User /\ call[c].target \in User
    BY <1>0, <1>2, CallFields DEF RequestAccept, Running
  <2> QED
    BY <1>2, <2>1, AcceptBefriends DEF Abstract!Next
<1>3. ASSUME NEW c \in Call, FriendRequest(c)
      PROVE  Goal
  <2>1. call[c].caller \in User /\ call[c].target \in User
    BY <1>0, <1>3, CallFields DEF FriendRequest, Running
  <2> QED
    BY <1>3, <2>1, RequestAsks DEF Abstract!Next
<1>4. ASSUME NEW u \in User, Connect(u)
      PROVE  Goal
  BY <1>4, ConnectHearsFriends DEF Abstract!Next
<1>5. ASSUME NEW u \in User, Disconnect(u)
      PROVE  Goal
  <2>1. HeardFriends' = [HeardFriends EXCEPT ![u] = {}]
    BY <1>0, <1>5 DEF Disconnect, ForgetUser, HeardFriends, TypeInv, TypeOK, IndexType
  <2>2. Asked' = Asked
    BY <1>5 DEF Disconnect, requestVars, Asked
  <2> QED
    BY <1>5, <2>1, <2>2 DEF Disconnect, Abstract!Disconnect, Abstract!Next
<1>6. ASSUME Asked' \subseteq Asked, UNCHANGED <<friends, online, userGroups>>
      PROVE  Goal
  BY <1>6 DEF HeardFriends, Abstract!Forget, Abstract!Next
<1>7. ASSUME NEW c \in Call, Arrive(c)
      PROVE  Goal
  <2>1. \A d \in Call \ {c} : call'[d] = call[d]
    BY <1>0, <1>7 DEF Arrive, TypeInv, TypeOK
  <2>2. call'[c] # Idle /\ call'[c].op = "requestAccept" =>
          \E t \in Time : /\ requests[t] # NoRequest
                          /\ call'[c].target = requests[t].sender
                          /\ call'[c].caller = requests[t].target
    BY <1>0, <1>7 DEF Arrive, TypeInv, TypeOK
  <2>3. UNCHANGED <<friends, online, userGroups, requests>>
    BY <1>7 DEF Arrive, indexVars, requestVars
  <2>4. Asked' \subseteq Asked
    BY <2>1, <2>2, <2>3 DEF Asked
  <2> QED
    BY <1>6, <2>3, <2>4
<1>8. ASSUME NEW c \in Call, Check(c)
      PROVE  Goal
  <2>1. \A d \in Call \ {c} : call'[d] = call[d]
    BY <1>0, <1>8 DEF Check, TypeInv, TypeOK
  <2>2. call'[c] # Idle => /\ call[c] # Idle
                          /\ call'[c].op = call[c].op
                          /\ call'[c].target = call[c].target
                          /\ call'[c].caller = call[c].caller
    BY <1>0, <1>8, CallFields DEF Check, TypeInv, TypeOK, CallType
  <2>3. UNCHANGED <<friends, online, userGroups, requests>>
    BY <1>8 DEF Check, indexVars, requestVars
  <2>4. Asked' \subseteq Asked
    BY <2>1, <2>2, <2>3 DEF Asked
  <2> QED
    BY <1>6, <2>3, <2>4
<1>9. ASSUME NEW c \in Call, RequestReject(c)
      PROVE  Goal
  <2>1. SetState(call[c].time, "rejected") /\ Finished(c)
    BY <1>9 DEF RequestReject
  <2>2. Asked' \subseteq Asked
    BY <1>0, <2>1, AnswerKeepsPair, FinishedAsksNothing
  <2> QED
    BY <1>6, <1>9, <2>2 DEF RequestReject, indexVars
<1>10. CASE Cleaner
  <2>1. Asked' \subseteq Asked
    BY <1>10 DEF Cleaner, Asked
  <2> QED
    BY <1>6, <1>10, <2>1 DEF Cleaner, indexVars
<1>11. ASSUME UNCHANGED <<friends, online, userGroups, requests, call>>
       PROVE  Goal
  BY <1>11 DEF HeardFriends, Asked
<1> QED
  BY <1>1, <1>2, <1>3, <1>4, <1>5, <1>7, <1>8, <1>9, <1>10, <1>11
     DEF Next, Body, Expire, SendingSystemMessage, TouchUsers, indexVars,
         requestVars, vars

(* Requests answered twice, friendships ended while they begin, keys that   *)
(* appear and disappear in the index: for any number of calls and users,    *)
(* each step makes, breaks or asks for one bond, or none.                   *)
THEOREM FriendshipImplementsBonds ==
    ASSUME Throttled \subseteq {FALSE}
    PROVE  Spec => ImplementsBonds
<1>1. Init => AskersAskOthers
  BY DEF Init, AskersAskOthers
<1>2. FriendshipInv /\ AskersAskOthers /\ [Next]_vars => AskersAskOthers'
  BY NextKeepsAskers DEF FriendshipInv
<1>3. Spec => []BondsInv
  BY FriendshipInvHolds, UnraisedListensOnly, <1>1, <1>2, PTL DEF Spec, BondsInv
<1>4. BondsInv /\ [Next]_vars => [Abstract!Next]_<<friends, Asked, online, HeardFriends>>
  BY NextChangesBonds
<1> QED
  BY InitHasNoBonds, <1>3, <1>4, PTL
     DEF Spec, ImplementsBonds, Abstract!Spec, Abstract!bondVars

================================================================================
