------------------------------- MODULE Friendship -------------------------------
(***************************************************************************)
(* Friend requests and friendships (router/user.py), and the virtual group  *)
(* through which two friends talk (utils/helper.py, wsConnectionMgr.py).    *)
(*                                                                          *)
(* A call runs in three steps.  The dependencies read the caller's account, *)
(* then, in another worker thread, the request and the other account; the   *)
(* body runs on the event loop, without suspension, on what was read.       *)
(* Bodies of other calls, connections and the nightly cleaner run between.  *)
(*                                                                          *)
(* A request is identified by its time, the key under which it is answered. *)
(* Users answer the requests they were shown, which are those sent to them. *)
(***************************************************************************)
EXTENDS ConnectionIndex

CONSTANTS
    Call,         \* calls in flight, at most one each at a time
    Idle,         \* no call
    NoRequest,    \* no document under a time
    MaxTime,      \* bound on the times of requests
    Op,           \* the handlers the instance calls
    Throttled     \* whether an awaited broadcast may raise

AllOps == {"deleteFriend", "friendRequest", "requestAccept", "requestReject"}
Time == 1..MaxTime

RequestMsg == [sender : User, target : User, state : {"pending", "accepted", "rejected"}]

(* isFriend: whether the account of the caller listed the target.           *)
CallType == [op : AllOps, caller : User, target : User, time : 0..MaxTime,
             isFriend : BOOLEAN, checked : BOOLEAN]

ASSUME UserAssumption == User \subseteq Nat \ {0}
ASSUME GroupAssumption == \A u, v \in User : u * v \in Group
ASSUME MaxTimeAssumption == MaxTime \in Nat
ASSUME OpAssumption == Op \subseteq AllOps
ASSUME ThrottledAssumption == Throttled \subseteq BOOLEAN
ASSUME IdleAssumption == Idle \notin CallType
ASSUME NoRequestAssumption == NoRequest \notin RequestMsg

VARIABLES
    friends,      \* UserSchema.friends
    requests,     \* FRIEND_REQUEST, by time
    newest,       \* time of the newest request
    expiredTo,    \* requests up to this time have expired
    online,       \* users whose connection was accepted and not yet cleaned up
    call          \* the call in each slot

requestVars == <<requests, newest, expiredTo>>
vars == <<indexVars, friends, requestVars, online, call>>

TypeOK ==
    /\ IndexType
    /\ friends \in [User -> SUBSET User]
    /\ requests \in [Time -> RequestMsg \cup {NoRequest}]
    /\ newest \in 0..MaxTime
    /\ expiredTo \in 0..newest
    /\ \A t \in Time : requests[t] # NoRequest => t <= newest
    /\ online \subseteq User
    /\ call \in [Call -> CallType \cup {Idle}]

Init ==
    /\ IndexInit
    /\ friends = [u \in User |-> {}]
    /\ requests = [t \in Time |-> NoRequest]
    /\ newest = 0
    /\ expiredTo = 0
    /\ online = {}
    /\ call = [c \in Call |-> Idle]

(* The virtual group of two friends: the product of their numbers.          *)
VirtualGroupID(u, v) == u * v

--------------------------------------------------------------------------------
(* The dependencies *)

(* getSelfInfo reads the account of the caller.                             *)
Arrive(c) ==
    /\ call[c] = Idle
    /\ \/ \E op \in Op \cap {"deleteFriend", "friendRequest"}, u \in User, v \in User :
            call' = [call EXCEPT ![c] =
                       [op |-> op, caller |-> u, target |-> v, time |-> 0,
                        isFriend |-> v \in friends[u], checked |-> FALSE]]
       \/ \E op \in Op \cap {"requestAccept", "requestReject"}, t \in Time :
            /\ requests[t] # NoRequest
            /\ call' = [call EXCEPT ![c] =
                          [op |-> op, caller |-> requests[t].target,
                           target |-> requests[t].sender, time |-> t,
                           isFriend |-> FALSE, checked |-> FALSE]]
    /\ UNCHANGED <<indexVars, friends, requestVars, online>>

PendingTimes(u, v) ==
    {t \in Time : requests[t] = [sender |-> u, target |-> v, state |-> "pending"]}

(* notExist looks at the oldest pending request of the pair only.           *)
NotExist(u, v) ==
    \A t \in PendingTimes(u, v) :
        (\A s \in PendingTimes(u, v) : t <= s) => t <= expiredTo

MayDeleteFriend(r) == r.caller # r.target /\ r.isFriend /\ r.caller \in friends[r.target]

(* A variant without the test that nobody asks itself.                      *)
MutMayRequest(r) ==
    /\ NotExist(r.caller, r.target)
    /\ ~r.isFriend
    /\ r.caller \notin friends[r.target]

MayRequest(r) ==
    /\ NotExist(r.caller, r.target)
    /\ r.caller # r.target
    /\ ~r.isFriend
    /\ r.caller \notin friends[r.target]

(* RequestValidate.exist: an expired request may still be answered.         *)
MayAnswer(r) == requests[r.time] # NoRequest /\ requests[r.time].state = "pending"

Permitted(r) ==
    \/ r.op = "deleteFriend" /\ MayDeleteFriend(r)
    \/ r.op = "friendRequest" /\ MayRequest(r)
    \/ r.op \in {"requestAccept", "requestReject"} /\ MayAnswer(r)

(* The other reads decide: the call goes on to its body or ends refused.    *)
Check(c) ==
    /\ call[c] # Idle
    /\ ~call[c].checked
    /\ call' = [call EXCEPT ![c] = IF Permitted(@) THEN [@ EXCEPT !.checked = TRUE]
                                                   ELSE Idle]
    /\ UNCHANGED <<indexVars, friends, requestVars, online>>

--------------------------------------------------------------------------------
(* The bodies *)

Running(c, op) == call[c] # Idle /\ call[c].op = op /\ call[c].checked
Finished(c) == call' = [call EXCEPT ![c] = Idle]

(* A variant that disconnects the caller only.                              *)
MutDisconnectFriends(u, v) == DisconnectUserFromGroup(u, VirtualGroupID(u, v))

(* disconnectUserFromGroup for both; without an item the first call raises. *)
DisconnectFriends(u, v) ==
    LET g == VirtualGroupID(u, v)
    IN  IF g \in groupItems
        THEN /\ onlineUsers' = [onlineUsers EXCEPT ![g] = @ \ {u, v}]
             /\ userGroups' = [userGroups EXCEPT ![u] = @ \ {g}, ![v] = @ \ {g}]
             /\ UNCHANGED <<known, groupItems>>
        ELSE UNCHANGED indexVars

(* A variant that connects the sender only.                                 *)
MutConnectFriends(u, v) ==
    LET g == VirtualGroupID(u, v)
        joining == {u} \cap known
    IN  /\ userGroups' = [w \in User |-> IF w \in joining THEN userGroups[w] \cup {g}
                                                          ELSE userGroups[w]]
        /\ groupItems' = IF joining = {} THEN groupItems ELSE groupItems \cup {g}
        /\ onlineUsers' = [onlineUsers EXCEPT ![g] = @ \cup joining]
        /\ known' = known \cup {u, v}

(* userJoinedGroup for both, which skips users without a key in _users; the *)
(* system messages awaited afterwards create the keys.                      *)
ConnectFriends(u, v) ==
    LET g == VirtualGroupID(u, v)
        joining == {u, v} \cap known
    IN  /\ userGroups' = [w \in User |-> IF w \in joining THEN userGroups[w] \cup {g}
                                                          ELSE userGroups[w]]
        /\ groupItems' = IF joining = {} THEN groupItems ELSE groupItems \cup {g}
        /\ onlineUsers' = [onlineUsers EXCEPT ![g] = @ \cup joining]
        /\ known' = known \cup {u, v}

(* A variant that pulls the friend from the account of the caller only.     *)
MutPullFriends(u, v) == friends' = [friends EXCEPT ![u] = @ \ {v}]

PullFriends(u, v) == friends' = [friends EXCEPT ![u] = @ \ {v}, ![v] = @ \ {u}]

PushFriends(u, v) == friends' = [friends EXCEPT ![u] = @ \cup {v}, ![v] = @ \cup {u}]

(* update_one by time: nothing happens once the cleaner took the document.  *)
SetState(t, state) ==
    requests' = [requests EXCEPT ![t] = IF @ = NoRequest THEN @
                                                         ELSE [@ EXCEPT !.state = state]]

(* The friendship ends in both accounts, then the broadcast may raise,      *)
(* which skips the disconnects.                                             *)
DeleteFriend(c) ==
    LET u == call[c].caller
        v == call[c].target
    IN  /\ Running(c, "deleteFriend")
        /\ PullFriends(u, v)
        /\ \E raises \in Throttled :
            IF raises THEN UNCHANGED indexVars ELSE DisconnectFriends(u, v)
        /\ Finished(c)
        /\ UNCHANGED <<requestVars, online>>

(* A variant that forgets the time it used.                                 *)
MutFriendRequest(c) ==
    /\ Running(c, "friendRequest")
    /\ newest < MaxTime
    /\ requests' = [requests EXCEPT ![newest + 1] =
                      [sender |-> call[c].caller, target |-> call[c].target,
                       state |-> "pending"]]
    /\ Finished(c)
    /\ UNCHANGED <<indexVars, friends, newest, expiredTo, online>>

(* A request enters under the current time; in the millisecond of another   *)
(* one the unique index refuses it.                                         *)
FriendRequest(c) ==
    /\ Running(c, "friendRequest")
    /\ \/ /\ newest < MaxTime
          /\ newest' = newest + 1
          /\ requests' = [requests EXCEPT ![newest + 1] =
                            [sender |-> call[c].caller, target |-> call[c].target,
                             state |-> "pending"]]
       \/ expiredTo < newest /\ UNCHANGED <<newest, requests>>
    /\ Finished(c)
    /\ UNCHANGED <<indexVars, friends, expiredTo, online>>

RequestAccept(c) ==
    LET r == call[c]
    IN  /\ Running(c, "requestAccept")
        /\ PushFriends(r.target, r.caller)
        /\ SetState(r.time, "accepted")
        /\ ConnectFriends(r.target, r.caller)
        /\ Finished(c)
        /\ UNCHANGED <<newest, expiredTo, online>>

RequestReject(c) ==
    /\ Running(c, "requestReject")
    /\ SetState(call[c].time, "rejected")
    /\ Finished(c)
    /\ UNCHANGED <<indexVars, friends, newest, expiredTo, online>>

--------------------------------------------------------------------------------
(* Time passes, connections come and go *)

Expire ==
    /\ expiredTo < newest
    /\ expiredTo' = expiredTo + 1
    /\ UNCHANGED <<indexVars, friends, requests, newest, online, call>>

(* The nightly job deletes expired requests, whatever their state.          *)
Cleaner ==
    /\ requests' = [t \in Time |-> IF t <= expiredTo THEN NoRequest ELSE requests[t]]
    /\ UNCHANGED <<indexVars, friends, newest, expiredTo, online, call>>

(* A device of u is accepted: the index gets a virtual group per friend.    *)
Connect(u) ==
    /\ online' = online \cup {u}
    /\ known' = known \cup {u}
    /\ UserConnectToGroupItems(u, {VirtualGroupID(u, v) : v \in friends[u]})
    /\ UNCHANGED <<friends, requestVars, call>>

(* The last device of u is cleaned up.                                      *)
Disconnect(u) ==
    /\ u \in online
    /\ online' = online \ {u}
    /\ ForgetUser(u)
    /\ UNCHANGED <<friends, requestVars, call>>

(* Notifications and messages about requests read _users of the receiver.   *)
SendingSystemMessage(u) ==
    /\ TouchUsers({u})
    /\ UNCHANGED <<friends, requestVars, online, call>>

Body(c) == DeleteFriend(c) \/ FriendRequest(c) \/ RequestAccept(c) \/ RequestReject(c)

Next ==
    \/ \E c \in Call : Arrive(c) \/ Check(c) \/ Body(c)
    \/ \E u \in User : Connect(u) \/ Disconnect(u) \/ SendingSystemMessage(u)
    \/ Expire
    \/ Cleaner

Spec == Init /\ [][Next]_vars

--------------------------------------------------------------------------------
(* Properties *)

(* Friendship is mutual: messages and removal test both accounts, so a      *)
(* one-sided friendship could neither be used nor ended.                    *)
FriendsMutual == \A u \in User, v \in User : u \in friends[v] <=> v \in friends[u]

(* Online friends hear each other, whether they connected before or after   *)
(* becoming friends and whichever calls raced.                              *)
OnlineFriendsConnected ==
    \A u \in online : \A v \in friends[u] : VirtualGroupID(u, v) \in userGroups[u]

(* A user listens only to the virtual groups of its friends (when no        *)
(* awaited broadcast raised).                                               *)
ListensOnlyToFriends ==
    \A u \in User : userGroups[u] \subseteq {VirtualGroupID(u, v) : v \in friends[u]}

(* The friends a user that is online hears.                                 *)
HeardFriends ==
    [u \in User |-> IF u \in online
                    THEN {v \in User : VirtualGroupID(u, v) \in userGroups[u]}
                    ELSE {}]

(* Who asked whom: the requests there are, and those being accepted, whose  *)
(* documents the cleaner may have taken meanwhile.                          *)
Asked ==
    {<<requests[t].sender, requests[t].target>> : t \in {t \in Time : requests[t] # NoRequest}}
    \cup {<<call[c].target, call[c].caller>> :
             c \in {c \in Call : call[c] # Idle /\ call[c].op = "requestAccept"}}

Abstract == INSTANCE Bonds WITH asked <- Asked, hears <- HeardFriends

(* Accounts, requests, virtual groups and the calls racing over them behave *)
(* like bonds made and broken in single steps, when no awaited broadcast    *)
(* raises: no call makes friends of users that did not ask each other, of   *)
(* one side only, or leaves a user hearing someone else.                    *)
ImplementsBonds == Abstract!Spec

--------------------------------------------------------------------------------
(* What the documentation of the code says, and the code does not keep      *)

(* "The request was already handled" (checkPermission.py:138): an answer is *)
(* final.  It is not when two calls passed the check together.              *)
AnswersAreFinal ==
    [][\A t \in Time :
         requests[t] # NoRequest /\ requests[t].state # "pending" =>
             requests'[t] \in {requests[t], NoRequest}]_vars

(* "Requested, waiting for the answer" (checkPermission.py:147): a pair has *)
(* at most one unexpired pending request.                                   *)
OnePending ==
    \A u \in User, v \in User :
        \A s, t \in {x \in PendingTimes(u, v) : x > expiredTo} : s = t

================================================================================
