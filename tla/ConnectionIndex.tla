---------------------------- MODULE ConnectionIndex ----------------------------
(***************************************************************************)
(* The group index of the websocket connection manager                     *)
(* (utils/wsConnectionMgr.py).  Two tables say the same thing from both     *)
(* ends: _userGroups maps a user to the groups it listens to, and _groups   *)
(* maps a group to a GroupItem holding its online users.  Broadcasts and    *)
(* the history replay look groups up in one table after reading the other,  *)
(* with no check for a missing key.                                         *)
(*                                                                          *)
(* The operators below are the synchronous methods that change the tables. *)
(* Each runs without giving up the event loop, so each is one step.  The    *)
(* modules that extend this one decide when they are called.                *)
(*                                                                          *)
(* A Group is an identifier of _groups: a real group or the virtual group   *)
(* of two friends.                                                          *)
(***************************************************************************)
EXTENDS Naturals

CONSTANTS
    User,     \* account uuids
    Group     \* keys _groups may hold

VARIABLES
    known,        \* keys of the defaultdict _users
    userGroups,   \* _userGroups: user -> groups ({} when the key is absent)
    groupItems,   \* keys of _groups
    onlineUsers   \* GroupItem._userInGroup ({} when there is no item)

indexVars == <<known, userGroups, groupItems, onlineUsers>>

IndexType ==
    /\ known \subseteq User
    /\ userGroups \in [User -> SUBSET Group]
    /\ groupItems \subseteq Group
    /\ onlineUsers \in [Group -> SUBSET User]

IndexInit ==
    /\ known = {}
    /\ userGroups = [u \in User |-> {}]
    /\ groupItems = {}
    /\ onlineUsers = [g \in Group |-> {}]

(* _userConnectToGroupItem for each group of gs; a missing item is created. *)
UserConnectToGroupItems(u, gs) ==
    /\ userGroups' = [userGroups EXCEPT ![u] = @ \cup gs]
    /\ groupItems' = groupItems \cup gs
    /\ onlineUsers' = [g \in Group |-> IF g \in gs THEN onlineUsers[g] \cup {u}
                                                   ELSE onlineUsers[g]]

(* A variant of userJoinedGroup that forgets the user's side of the index.  *)
MutJoinOneSide(u, g) ==
    IF u \in known
    THEN /\ groupItems' = groupItems \cup {g}
         /\ onlineUsers' = [onlineUsers EXCEPT ![g] = @ \cup {u}]
         /\ UNCHANGED <<known, userGroups>>
    ELSE UNCHANGED indexVars

(* userJoinedGroup: nothing happens for a user without an entry in _users.  *)
UserJoinedGroup(u, g) ==
    IF u \in known
    THEN UserConnectToGroupItems(u, {g}) /\ UNCHANGED known
    ELSE UNCHANGED indexVars

(* disconnectUserFromGroup: a missing item raises KeyError before any       *)
(* change, and an item left without users stays.                            *)
DisconnectUserFromGroup(u, g) ==
    IF g \in groupItems
    THEN /\ onlineUsers' = [onlineUsers EXCEPT ![g] = @ \ {u}]
         /\ userGroups' = [userGroups EXCEPT ![u] = @ \ {g}]
         /\ UNCHANGED <<known, groupItems>>
    ELSE UNCHANGED indexVars

(* A variant of disconnectGroup that pops the item and forgets its users.   *)
MutPopItemOnly(g) ==
    IF g \in groupItems
    THEN /\ groupItems' = groupItems \ {g}
         /\ onlineUsers' = [onlineUsers EXCEPT ![g] = {}]
         /\ UNCHANGED <<known, userGroups>>
    ELSE UNCHANGED indexVars

(* disconnectGroup: KeyError, and no change, when the item is missing.      *)
DisconnectGroup(g) ==
    IF g \in groupItems
    THEN /\ userGroups' = [u \in User |-> IF u \in onlineUsers[g]
                                          THEN userGroups[u] \ {g}
                                          ELSE userGroups[u]]
         /\ groupItems' = groupItems \ {g}
         /\ onlineUsers' = [onlineUsers EXCEPT ![g] = {}]
         /\ UNCHANGED known
    ELSE UNCHANGED indexVars

(* A variant of the cleanup that leaves _userGroups alone.                  *)
MutForgetUserKeepsGroups(u) ==
    /\ known' = known \ {u}
    /\ groupItems' = groupItems \ {g \in userGroups[u] : onlineUsers[g] \ {u} = {}}
    /\ onlineUsers' = [g \in Group |-> onlineUsers[g] \ {u}]
    /\ UNCHANGED userGroups

(* The tail of disconnectUser when the user's last device leaves: the user  *)
(* is removed from its items, items that become empty are dropped.          *)
ForgetUser(u) ==
    /\ known' = known \ {u}
    /\ userGroups' = [userGroups EXCEPT ![u] = {}]
    /\ groupItems' = groupItems \ {g \in userGroups[u] : onlineUsers[g] \ {u} = {}}
    /\ onlineUsers' = [g \in Group |-> IF g \in userGroups[u]
                                       THEN onlineUsers[g] \ {u}
                                       ELSE onlineUsers[g]]

(* Reading _users[u] of a defaultdict creates the key.                      *)
TouchUsers(us) ==
    /\ known' = known \cup us
    /\ UNCHANGED <<userGroups, groupItems, onlineUsers>>

(* updateGroupBan creates the item of a group nobody listens to.            *)
CreateGroupItem(g) ==
    /\ groupItems' = groupItems \cup {g}
    /\ UNCHANGED <<known, userGroups, onlineUsers>>

--------------------------------------------------------------------------------

(* The two tables agree: a group is listed for a user exactly when the      *)
(* group has an item and that item lists the user.  Every unchecked lookup  *)
(* _groups[groupID] made after reading _userGroups (sendingGroupMessage,    *)
(* disconnectUser) depends on it.                                           *)
IndexesAgree ==
    \A u \in User, g \in Group :
        g \in userGroups[u] <=> (g \in groupItems /\ u \in onlineUsers[g])

(* A group without an item has no online users.                             *)
AbsentItemEmpty ==
    \A g \in Group : g \notin groupItems => onlineUsers[g] = {}

================================================================================
