------------------------- MODULE ConnectionIndexProofs -------------------------
(***************************************************************************)
(* Every operation of the group index keeps its two tables in agreement,   *)
(* for any sets of users and groups.  The modules that use the index cite   *)
(* these lemmas, one per operation.                                         *)
(***************************************************************************)
EXTENDS ConnectionIndex, TLAPS

(* What the operations need of each other: a group without an item has no   *)
(* users, so a new item starts empty.                                       *)
IndexInv == IndexType /\ IndexesAgree /\ AbsentItemEmpty

(* The empty tables agree.                                                  *)
LEMMA InitIndex == IndexInit => IndexInv
  BY DEF IndexInit, IndexInv, IndexType, IndexesAgree, AbsentItemEmpty

(* Connecting a user to groups writes both tables.                          *)
LEMMA ConnectKeepsIndex ==
    ASSUME NEW u \in User, NEW gs \in SUBSET Group, IndexInv,
           UserConnectToGroupItems(u, gs), known' \subseteq User
    PROVE  IndexInv'
<1>1. IndexType'
  BY DEF IndexInv, IndexType, UserConnectToGroupItems
<1>2. IndexesAgree'
  <2> SUFFICES ASSUME NEW v \in User, NEW g \in Group
               PROVE  g \in userGroups'[v]
                        <=> (g \in groupItems' /\ v \in onlineUsers'[g])
    BY DEF IndexesAgree
  <2>1. userGroups'[v] = IF v = u THEN userGroups[v] \cup gs ELSE userGroups[v]
    BY DEF IndexInv, IndexType, UserConnectToGroupItems
  <2>2. onlineUsers'[g] = IF g \in gs THEN onlineUsers[g] \cup {u} ELSE onlineUsers[g]
    BY DEF UserConnectToGroupItems
  <2>3. groupItems' = groupItems \cup gs
    BY DEF UserConnectToGroupItems
  <2>4. g \in userGroups[v] <=> (g \in groupItems /\ v \in onlineUsers[g])
    BY DEF IndexInv, IndexesAgree
  <2>5. g \notin groupItems => onlineUsers[g] = {}
    BY DEF IndexInv, AbsentItemEmpty
  <2> QED
    BY <2>1, <2>2, <2>3, <2>4, <2>5
<1>3. AbsentItemEmpty'
  BY DEF IndexInv, AbsentItemEmpty, UserConnectToGroupItems
<1> QED
  BY <1>1, <1>2, <1>3 DEF IndexInv

(* userJoinedGroup connects a known user to one group.                      *)
LEMMA JoinKeepsIndex ==
    ASSUME NEW u \in User, NEW g \in Group, IndexInv, UserJoinedGroup(u, g)
    PROVE  IndexInv'
<1>1. CASE u \in known
  <2>1. UserConnectToGroupItems(u, {g}) /\ known' \subseteq User
    BY <1>1 DEF UserJoinedGroup, IndexInv, IndexType
  <2> QED
    BY <2>1, ConnectKeepsIndex
<1>2. CASE u \notin known
  BY <1>2 DEF UserJoinedGroup, indexVars, IndexInv, IndexType, IndexesAgree,
              AbsentItemEmpty
<1> QED
  BY <1>1, <1>2

(* Removing one user from one group takes it out of both tables.            *)
LEMMA RemoveKeepsIndex ==
    ASSUME NEW u \in User, NEW g \in Group, IndexInv, DisconnectUserFromGroup(u, g)
    PROVE  IndexInv'
<1>1. CASE g \in groupItems
  <2>1. /\ onlineUsers' = [onlineUsers EXCEPT ![g] = @ \ {u}]
        /\ userGroups' = [userGroups EXCEPT ![u] = @ \ {g}]
        /\ groupItems' = groupItems
        /\ known' = known
    BY <1>1 DEF DisconnectUserFromGroup
  <2>2. IndexType'
    BY <2>1 DEF IndexInv, IndexType
  <2>3. IndexesAgree'
    BY <2>1 DEF IndexInv, IndexType, IndexesAgree
  <2>4. AbsentItemEmpty'
    BY <2>1 DEF IndexInv, IndexType, AbsentItemEmpty
  <2> QED
    BY <2>2, <2>3, <2>4 DEF IndexInv
<1>2. CASE g \notin groupItems
  BY <1>2 DEF DisconnectUserFromGroup, indexVars, IndexInv, IndexType,
              IndexesAgree, AbsentItemEmpty
<1> QED
  BY <1>1, <1>2

(* Dropping an item takes the group out of the table of each of its users.  *)
LEMMA DropGroupKeepsIndex ==
    ASSUME NEW g \in Group, IndexInv, DisconnectGroup(g)
    PROVE  IndexInv'
<1>1. CASE g \in groupItems
  <2>1. /\ userGroups' = [u \in User |-> IF u \in onlineUsers[g]
                                         THEN userGroups[u] \ {g}
                                         ELSE userGroups[u]]
        /\ groupItems' = groupItems \ {g}
        /\ onlineUsers' = [onlineUsers EXCEPT ![g] = {}]
        /\ known' = known
    BY <1>1 DEF DisconnectGroup
  <2>2. IndexType'
    BY <2>1 DEF IndexInv, IndexType
  <2>3. IndexesAgree'
    BY <2>1 DEF IndexInv, IndexType, IndexesAgree
  <2>4. AbsentItemEmpty'
    BY <2>1 DEF IndexInv, IndexType, AbsentItemEmpty
  <2> QED
    BY <2>2, <2>3, <2>4 DEF IndexInv
<1>2. CASE g \notin groupItems
  BY <1>2 DEF DisconnectGroup, indexVars, IndexInv, IndexType, IndexesAgree,
              AbsentItemEmpty
<1> QED
  BY <1>1, <1>2

(* Forgetting a user leaves it in no item, and drops only empty items.      *)
LEMMA ForgetKeepsIndex ==
    ASSUME NEW u \in User, IndexInv, ForgetUser(u)
    PROVE  IndexInv'
<1>1. IndexType'
  BY DEF IndexInv, IndexType, ForgetUser
<1>2. IndexesAgree'
  <2> SUFFICES ASSUME NEW v \in User, NEW g \in Group
               PROVE  g \in userGroups'[v]
                        <=> (g \in groupItems' /\ v \in onlineUsers'[g])
    BY DEF IndexesAgree
  <2>1. userGroups'[v] = IF v = u THEN {} ELSE userGroups[v]
    BY DEF IndexInv, IndexType, ForgetUser
  <2>2. onlineUsers'[g] = IF g \in userGroups[u] THEN onlineUsers[g] \ {u}
                                                ELSE onlineUsers[g]
    BY DEF ForgetUser
  <2>3. g \in groupItems' <=> /\ g \in groupItems
                              /\ ~(g \in userGroups[u] /\ onlineUsers[g] \ {u} = {})
    BY DEF ForgetUser
  <2>4. \A w \in User : g \in userGroups[w] <=> (g \in groupItems /\ w \in onlineUsers[g])
    BY DEF IndexInv, IndexesAgree
  <2> QED
    BY <2>1, <2>2, <2>3, <2>4
<1>3. AbsentItemEmpty'
  BY DEF IndexInv, IndexType, AbsentItemEmpty, ForgetUser
<1> QED
  BY <1>1, <1>2, <1>3 DEF IndexInv

(* A new item lists nobody, so no user's table has to mention it.           *)
LEMMA NewItemKeepsIndex ==
    ASSUME NEW g \in Group, IndexInv, CreateGroupItem(g)
    PROVE  IndexInv'
  BY DEF IndexInv, IndexType, IndexesAgree, AbsentItemEmpty, CreateGroupItem

(* Reading the defaultdict changes neither table.                           *)
LEMMA TouchKeepsIndex ==
    ASSUME NEW us \in SUBSET User, IndexInv, TouchUsers(us)
    PROVE  IndexInv'
  BY DEF IndexInv, IndexType, IndexesAgree, AbsentItemEmpty, TouchUsers

================================================================================
