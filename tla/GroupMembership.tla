---------------------------- MODULE GroupMembership ----------------------------
(***************************************************************************)
(* Groups, their owner, administrators and members (router/group.py), the  *)
(* permission checks in front of the handlers (depends/checkPermission.py), *)
(* and the copies of membership and bans that the websocket side keeps      *)
(* (utils/wsConnectionMgr.py).                                              *)
(*                                                                          *)
(* A request runs in two steps.  The dependencies read the database in a    *)
(* worker thread and decide; the handler body runs later on the event loop, *)
(* on what the check read.  Bodies reach no suspension, so a body is one    *)
(* step, and other requests and connections run between check and body.     *)
(*                                                                          *)
(* user and admin are lists in the document; $pull removes every copy of an *)
(* element, so membership in the list is all the handlers see of it.        *)
(***************************************************************************)
EXTENDS ConnectionIndex

CONSTANTS
    Req,        \* requests in flight, at most one each at a time
    Idle,       \* no request
    NoOwner,    \* the owner of a group without document
    Op,         \* the handlers the instance calls
    Throttled   \* what the rate limiter of sendingGroupMessage may answer

AllOps == {"deleteGroup", "deleteSelf", "deleteUser", "addAdmin", "deleteAdmin",
           "banUser", "join", "requestAccept"}

Request == [op : Op, caller : User, target : User, group : Group,
            snap : SUBSET User]

ASSUME OpAssumption == Op \subseteq AllOps
ASSUME ThrottledAssumption == Throttled \subseteq BOOLEAN
ASSUME IdleAssumption == Idle \notin Request
ASSUME NoOwnerAssumption == NoOwner \notin User

VARIABLES
    docs,       \* groups with a document in GROUP
    used,       \* group ids handed out so far
    owner,      \* GroupSchema.owner
    members,    \* GroupSchema.user
    admins,     \* GroupSchema.admin
    ban,        \* GroupSchema.ban: users with a ban that has not ended
    accGroups,  \* UserSchema.groups
    banCache,   \* GroupItem._ban ({} when there is no item)
    online,     \* users whose connection was accepted and not yet cleaned up
    req         \* the request each slot has checked and not yet run

docVars == <<docs, used, owner, members, admins, ban, accGroups>>
vars == <<indexVars, docVars, banCache, online, req>>

TypeOK ==
    /\ IndexType
    /\ docs \subseteq used
    /\ used \subseteq Group
    /\ owner \in [Group -> User \cup {NoOwner}]
    /\ members \in [Group -> SUBSET User]
    /\ admins \in [Group -> SUBSET User]
    /\ ban \in [Group -> SUBSET User]
    /\ accGroups \in [User -> SUBSET Group]
    /\ banCache \in [Group -> SUBSET User]
    /\ online \subseteq User
    /\ req \in [Req -> Request \cup {Idle}]

Init ==
    /\ IndexInit
    /\ docs = {}
    /\ used = {}
    /\ owner = [g \in Group |-> NoOwner]
    /\ members = [g \in Group |-> {}]
    /\ admins = [g \in Group |-> {}]
    /\ ban = [g \in Group |-> {}]
    /\ accGroups = [u \in User |-> {}]
    /\ banCache = [g \in Group |-> {}]
    /\ online = {}
    /\ req = [r \in Req |-> Idle]

(* A variant in which a new item starts without the bans of the document.   *)
MutBanCacheStartsEmpty ==
    banCache' = [g \in Group |-> IF g \in groupItems' /\ g \in groupItems
                                 THEN banCache[g]
                                 ELSE {}]

(* GroupItem.__init__ loads the bans of the document, if there is one; the  *)
(* cache goes with the item.  Of the steps that create items only BanUser   *)
(* changes the bans of an existing document first, and it says so itself.   *)
BanCacheFollows ==
    banCache' = [g \in Group |->
        IF g \notin groupItems' THEN {}
        ELSE IF g \in groupItems THEN banCache[g]
        ELSE IF g \in docs THEN ban[g] ELSE {}]

--------------------------------------------------------------------------------
(* The checks: CheckPermission and CheckTarget on the document just read *)

MayAdminister(u, g) == u = owner[g] \/ u \in admins[g]

MayDissolve(u, g) == u = owner[g]

(* A variant without notOwner.                                              *)
MutMayLeave(u, g) == u \in members[g]

MayLeave(u, g) == u \in members[g] /\ u # owner[g]

MayKick(u, t, g) ==
    /\ MayAdminister(u, g)
    /\ t \in members[g]
    /\ t # u
    /\ t # owner[g]
    /\ t \notin admins[g]

MayAddAdmin(u, t, g) ==
    /\ u = owner[g]
    /\ t # owner[g]
    /\ t \notin admins[g]
    /\ t \in members[g]

MayDeleteAdmin(u, t, g) == u = owner[g] /\ t \in admins[g]

(* A variant by which an administrator may ban the owner.                   *)
MutMayBan(u, t, g) ==
    /\ MayAdminister(u, g)
    /\ t \in members[g]
    /\ t # u

MayBan(u, t, g) ==
    /\ MayAdminister(u, g)
    /\ t \in members[g]
    /\ t # u
    /\ t # owner[g]

MayJoin(u, g) == u \notin members[g]

(* The target is whoever sent a pending request, which may be anyone: join  *)
(* leaves the request of a user that joined by answering the question.      *)
MayAccept(u, g) == MayAdminister(u, g)

Permitted(op, u, t, g) ==
    \/ op = "deleteGroup" /\ t = u /\ MayDissolve(u, g)
    \/ op = "deleteSelf" /\ t = u /\ MayLeave(u, g)
    \/ op = "deleteUser" /\ MayKick(u, t, g)
    \/ op = "addAdmin" /\ MayAddAdmin(u, t, g)
    \/ op = "deleteAdmin" /\ MayDeleteAdmin(u, t, g)
    \/ op = "banUser" /\ MayBan(u, t, g)
    \/ op = "join" /\ t = u /\ MayJoin(u, g)
    \/ op = "requestAccept" /\ MayAccept(u, g)

(* getGroupInfo finds the document; the body keeps what was read.  Of the   *)
(* document only deleteGroup uses more than the id: the member list.        *)
Check(r) ==
    /\ req[r] = Idle
    /\ \E op \in Op, u \in User, t \in User, g \in docs :
        /\ Permitted(op, u, t, g)
        /\ req' = [req EXCEPT ![r] =
                     [op |-> op, caller |-> u, target |-> t, group |-> g,
                      snap |-> IF op = "deleteGroup" THEN members[g] ELSE {}]]
    /\ UNCHANGED <<indexVars, docVars, banCache, online>>

--------------------------------------------------------------------------------
(* The bodies *)

Running(r, op) == req[r] # Idle /\ req[r].op = op
Finished(r) == req' = [req EXCEPT ![r] = Idle]

(* A variant that writes to a document whether or not it is still there,    *)
(* and keeps the owner among the administrators.                            *)
MutUpdateAdmins(g, us) ==
    admins' = [admins EXCEPT ![g] = us \cup {owner[g]}]

(* update_one finds no document once the group is deleted.                  *)
UpdateMembers(g, us) ==
    members' = [members EXCEPT ![g] = IF g \in docs THEN us ELSE @]

UpdateAdmins(g, us) ==
    admins' = [admins EXCEPT ![g] = IF g \in docs THEN us ELSE @]

MakeGroup(u, g) ==
    /\ g \notin used
    /\ docs' = docs \cup {g}
    /\ used' = used \cup {g}
    /\ owner' = [owner EXCEPT ![g] = u]
    /\ members' = [members EXCEPT ![g] = {u}]
    /\ admins' = [admins EXCEPT ![g] = {}]
    /\ accGroups' = [accGroups EXCEPT ![u] = @ \cup {g}]
    /\ UserJoinedGroup(u, g)
    /\ BanCacheFollows
    /\ UNCHANGED <<ban, online, req>>

(* The accounts of the members read by the check lose the group, then the   *)
(* document goes.  The awaited broadcast may raise 429, which skips         *)
(* disconnectGroup.                                                         *)
DeleteGroup(r) ==
    LET g == req[r].group
    IN  /\ Running(r, "deleteGroup")
        /\ accGroups' = [u \in User |-> IF u \in req[r].snap
                                        THEN accGroups[u] \ {g}
                                        ELSE accGroups[u]]
        /\ docs' = docs \ {g}
        /\ owner' = [owner EXCEPT ![g] = NoOwner]
        /\ members' = [members EXCEPT ![g] = {}]
        /\ admins' = [admins EXCEPT ![g] = {}]
        /\ ban' = [ban EXCEPT ![g] = {}]
        /\ \E limited \in Throttled :
            IF limited THEN UNCHANGED indexVars ELSE DisconnectGroup(g)
        /\ BanCacheFollows
        /\ Finished(r)
        /\ UNCHANGED <<used, online>>

(* A variant that leaves the group in the account.                          *)
MutDeleteSelfKeepsAccount(r) ==
    LET u == req[r].caller
        g == req[r].group
    IN  /\ Running(r, "deleteSelf")
        /\ UpdateMembers(g, members[g] \ {u})
        /\ UpdateAdmins(g, admins[g] \ {u})
        /\ \E limited \in Throttled :
            IF limited THEN UNCHANGED indexVars ELSE DisconnectUserFromGroup(u, g)
        /\ BanCacheFollows
        /\ Finished(r)
        /\ UNCHANGED <<docs, used, owner, ban, accGroups, online>>

DeleteSelf(r) ==
    LET u == req[r].caller
        g == req[r].group
    IN  /\ Running(r, "deleteSelf")
        /\ UpdateMembers(g, members[g] \ {u})
        /\ UpdateAdmins(g, admins[g] \ {u})
        /\ accGroups' = [accGroups EXCEPT ![u] = @ \ {g}]
        /\ \E limited \in Throttled :
            IF limited THEN UNCHANGED indexVars ELSE DisconnectUserFromGroup(u, g)
        /\ BanCacheFollows
        /\ Finished(r)
        /\ UNCHANGED <<docs, used, owner, ban, online>>

(* A variant that stops at the database.                                    *)
MutDeleteUserStaysConnected(r) ==
    LET t == req[r].target
        g == req[r].group
    IN  /\ Running(r, "deleteUser")
        /\ UpdateMembers(g, members[g] \ {t})
        /\ accGroups' = [accGroups EXCEPT ![t] = @ \ {g}]
        /\ UNCHANGED indexVars
        /\ BanCacheFollows
        /\ Finished(r)
        /\ UNCHANGED <<docs, used, owner, admins, ban, online>>

DeleteUser(r) ==
    LET t == req[r].target
        g == req[r].group
    IN  /\ Running(r, "deleteUser")
        /\ UpdateMembers(g, members[g] \ {t})
        /\ accGroups' = [accGroups EXCEPT ![t] = @ \ {g}]
        /\ \E limited \in Throttled :
            IF limited THEN UNCHANGED indexVars ELSE DisconnectUserFromGroup(t, g)
        /\ BanCacheFollows
        /\ Finished(r)
        /\ UNCHANGED <<docs, used, owner, admins, ban, online>>

AddAdmin(r) ==
    LET g == req[r].group
    IN  /\ Running(r, "addAdmin")
        /\ UpdateAdmins(g, admins[g] \cup {req[r].target})
        /\ Finished(r)
        /\ UNCHANGED <<indexVars, docs, used, owner, members, ban, accGroups,
                       banCache, online>>

DeleteAdmin(r) ==
    LET g == req[r].group
    IN  /\ Running(r, "deleteAdmin")
        /\ UpdateAdmins(g, admins[g] \ {req[r].target})
        /\ Finished(r)
        /\ UNCHANGED <<indexVars, docs, used, owner, members, ban, accGroups,
                       banCache, online>>

(* The ban (or its lifting, a duration of 0) goes to the document, then to  *)
(* the item, created from the updated document when missing.                *)
BanUser(r) ==
    LET t == req[r].target
        g == req[r].group
        Set(us, banned) == IF banned THEN us \cup {t} ELSE us \ {t}
    IN  /\ Running(r, "banUser")
        /\ \E banned \in BOOLEAN :
            /\ ban' = [ban EXCEPT ![g] = IF g \in docs THEN Set(@, banned) ELSE @]
            /\ banCache' = [banCache EXCEPT ![g] =
                 Set(IF g \in groupItems THEN @ ELSE IF g \in docs THEN ban[g] ELSE {},
                     banned)]
        /\ CreateGroupItem(g)
        /\ Finished(r)
        /\ UNCHANGED <<docs, used, owner, members, admins, accGroups, online>>

(* What join and requestAccept have in common: the user is pushed to the    *)
(* document and the group to the account, then the index is told.           *)
Enter(u, g) ==
    /\ UpdateMembers(g, members[g] \cup {u})
    /\ accGroups' = [accGroups EXCEPT ![u] = @ \cup {g}]
    /\ UserJoinedGroup(u, g)
    /\ BanCacheFollows
    /\ UNCHANGED <<docs, used, owner, admins, ban, online>>

Join(r) ==
    /\ Running(r, "join")
    /\ Enter(req[r].caller, req[r].group)
    /\ Finished(r)

(* A variant that accepts in the database and does not tell the index.      *)
MutRequestAcceptSilent(r) ==
    LET g == req[r].group
        t == req[r].target
    IN  /\ Running(r, "requestAccept")
        /\ UpdateMembers(g, members[g] \cup {t})
        /\ accGroups' = [accGroups EXCEPT ![t] = @ \cup {g}]
        /\ Finished(r)
        /\ UNCHANGED <<indexVars, docs, used, owner, admins, ban, banCache, online>>

RequestAccept(r) ==
    /\ Running(r, "requestAccept")
    /\ Enter(req[r].target, req[r].group)
    /\ Finished(r)

--------------------------------------------------------------------------------
(* Connections, seen from here: ConnectionManager has the detail *)

(* A device of u is accepted: the index gets the groups of the account.     *)
Connect(u) ==
    /\ accGroups[u] \subseteq docs
    /\ online' = online \cup {u}
    /\ known' = known \cup {u}
    /\ UserConnectToGroupItems(u, accGroups[u])
    /\ BanCacheFollows
    /\ UNCHANGED <<docVars, req>>

(* The account lists a group without document: the lookup of its id ends    *)
(* connect by AttributeError, after _users got its key.                     *)
ConnectBroken(u) ==
    /\ ~(accGroups[u] \subseteq docs)
    /\ TouchUsers({u})
    /\ UNCHANGED <<docVars, banCache, online, req>>

(* The last device of u is cleaned up.                                      *)
Disconnect(u) ==
    /\ u \in online
    /\ online' = online \ {u}
    /\ ForgetUser(u)
    /\ BanCacheFollows
    /\ UNCHANGED <<docVars, req>>

(* Notifications and broadcasts read _users of their receivers.             *)
SendingSystemMessage(u) ==
    /\ TouchUsers({u})
    /\ UNCHANGED <<docVars, banCache, online, req>>

(* The server restarts between two bodies: memory is lost, the documents    *)
(* stay.                                                                    *)
Restart ==
    /\ known' = {}
    /\ userGroups' = [u \in User |-> {}]
    /\ groupItems' = {}
    /\ onlineUsers' = [g \in Group |-> {}]
    /\ banCache' = [g \in Group |-> {}]
    /\ online' = {}
    /\ req' = [r \in Req |-> Idle]
    /\ UNCHANGED docVars

Body(r) ==
    \/ DeleteGroup(r)
    \/ DeleteSelf(r)
    \/ DeleteUser(r)
    \/ AddAdmin(r)
    \/ DeleteAdmin(r)
    \/ BanUser(r)
    \/ Join(r)
    \/ RequestAccept(r)

Next ==
    \/ \E r \in Req : Check(r)
    \/ \E r \in Req : Body(r)
    \/ \E u \in User, g \in Group : MakeGroup(u, g)
    \/ \E u \in User : Connect(u)
    \/ \E u \in User : ConnectBroken(u)
    \/ \E u \in User : Disconnect(u)
    \/ \E u \in User : SendingSystemMessage(u)
    \/ Restart

Spec == Init /\ [][Next]_vars

--------------------------------------------------------------------------------
(* Properties *)

(* A group is never left without its owner, whichever checks raced with     *)
(* whichever bodies: nobody else may dissolve it or appoint administrators. *)
OwnerIsMember == \A g \in docs : owner[g] \in members[g]

(* The owner is neither banned from its group nor one of its appointed      *)
(* administrators, though these are decided on a document that other        *)
(* requests change before the decision is written: only the owner answers   *)
(* for the group, and nobody can silence or demote it.                      *)
OwnerUnrestricted == \A g \in docs : owner[g] \notin admins[g] \cup ban[g]

(* The document of a group and the accounts tell the same membership: a     *)
(* group in an account is what makes a member receive its messages after    *)
(* the next connect.                                                        *)
AccountsAgree ==
    \A g \in docs, u \in User : u \in members[g] <=> g \in accGroups[u]

(* A member that is online hears its group: neither joining, nor lazily     *)
(* created and dropped items, nor a second device lose a membership.        *)
OnlineMembersConnected ==
    \A g \in docs : \A u \in members[g] \cap online : g \in userGroups[u]

(* The ban list enforced on messages is the one stored: items come and go,  *)
(* and are created by bans as well as by connections.                       *)
BanCacheCoherent == \A g \in docs \cap groupItems : banCache[g] = ban[g]

(* A user listens only to groups its account lists (when no awaited         *)
(* broadcast raised): leaving, being removed and dissolving end it.         *)
ListensOnlyToOwnGroups == \A u \in User : userGroups[u] \subseteq accGroups[u]

(* The groups a user that is online hears, among those that have a document: *)
(* a request that runs after its group was deleted leaves entries of the    *)
(* dead group behind, which no member can send to.                          *)
Heard == [u \in User |-> IF u \in online THEN userGroups[u] \cap docs ELSE {}]

Abstract == INSTANCE Roster WITH hears <- Heard

(* Documents, accounts, the indexes and the requests racing over them behave *)
(* like one roster changed in single steps, when no awaited broadcast       *)
(* raises: every body is one change of the roster or none.                  *)
ImplementsRoster == Abstract!Spec

--------------------------------------------------------------------------------
(* What the documentation of the code says, and the code does not keep      *)

(* "member: all members of the group, the owner and the administrators      *)
(* included" (checkPermission.py:9).                                        *)
AdminsAreMembers == \A g \in docs : admins[g] \subseteq members[g]

(* "elements: group objectIDs" (schema/user.py:15): each names a group.     *)
AccountGroupsExist == \A u \in User : accGroups[u] \subseteq docs

================================================================================
