--------------------------- MODULE ConnectionManager ---------------------------
(***************************************************************************)
(* The websocket connection manager (utils/wsConnectionMgr.py) driven by   *)
(* the websocket endpoint (router/ws.py) and by the calls the HTTP handlers *)
(* make on it.                                                              *)
(*                                                                          *)
(* One handler coroutine serves each connection.  Coroutines of the single  *)
(* event loop interleave at awaits only, so a step runs from one suspension *)
(* to the next: the close of a victim in popDevice, websocket.accept, the   *)
(* receive loop, the close in disconnectUser.                               *)
(*                                                                          *)
(*   idle -> [evicting ->] accepting -> live -> [closing ->] done           *)
(*                                                                          *)
(* "dead" is a handler that ended by an exception, with no cleanup.         *)
(***************************************************************************)
EXTENDS ConnectionIndex, FiniteSets

CONSTANTS
    Device,      \* device ids; two users may present the same one
    Conn,        \* connections, one handler coroutine and one socket each
    NoConn,      \* an absent key of _device
    MaxOnline    \* Limits.MAX_ONLINE_DEVICE

ASSUME NoConnAssumption == NoConn \notin Conn
ASSUME MaxOnlineAssumption == MaxOnline \in Nat \ {0}

VARIABLES
    users,      \* _users: user -> devices ({} when the key is absent)
    device,     \* _device: device -> the connection whose socket it holds
    pc,         \* where each handler is
    sess,       \* the user and device named by the handler's token
    victim,     \* the device popDevice is closing
    sock,       \* "open"; "gone": the client left; "closed": by the server
    lastSeen,   \* devices with a lastSeen stamp in the account
    crossed     \* history: connections that met another of their device id

connVars == <<users, device, pc, sess, victim, sock, lastSeen, crossed>>
vars == <<indexVars, connVars>>

Session == [user : User, device : Device]
Phase == {"idle", "evicting", "accepting", "live", "closing", "done", "dead"}

UserOf(c) == sess[c].user
DeviceOf(c) == sess[c].device

TypeOK ==
    /\ IndexType
    /\ users \in [User -> SUBSET Device]
    /\ device \in [Device -> Conn \cup {NoConn}]
    /\ pc \in [Conn -> Phase]
    /\ sess \in [Conn -> Session]
    /\ victim \in [Conn -> Device]
    /\ sock \in [Conn -> {"open", "gone", "closed"}]
    /\ lastSeen \in [User -> SUBSET Device]
    /\ crossed \subseteq Conn

Init ==
    /\ IndexInit
    /\ users = [u \in User |-> {}]
    /\ device = [d \in Device |-> NoConn]
    /\ pc = [c \in Conn |-> "idle"]
    /\ sess \in [Conn -> Session]
    /\ victim = [c \in Conn |-> DeviceOf(c)]
    /\ sock = [c \in Conn |-> "open"]
    /\ lastSeen = [u \in User |-> {}]
    /\ crossed = {}

--------------------------------------------------------------------------------
(* Connections of one device id that meet *)

(* connect has begun and neither disconnectUser nor an exception has ended  *)
(* the handler.                                                             *)
InFlight(c) == pc[c] \in {"evicting", "accepting", "live", "closing"}

Others(c) == {x \in Conn \ {c} : DeviceOf(x) = DeviceOf(c) /\ InFlight(x)}

(* popDevice is closing whatever socket the device id has.                  *)
BeingEvicted(d) == \E x \in Conn : pc[x] = "evicting" /\ victim[x] = d

(* What connect finds under way for its device id: those handlers and its   *)
(* own have crossed from then on.  No step reads the history.               *)
Meet(c) ==
    crossed' = IF Others(c) # {} \/ BeingEvicted(DeviceOf(c))
               THEN crossed \cup Others(c) \cup {c}
               ELSE crossed

--------------------------------------------------------------------------------
(* connect *)

(* Adding the device and the socket, then awaiting accept.                  *)
Register(c, dev) ==
    /\ users' = [users EXCEPT ![UserOf(c)] = @ \cup {DeviceOf(c)}]
    /\ device' = [dev EXCEPT ![DeviceOf(c)] = c]
    /\ pc' = [pc EXCEPT ![c] = "accepting"]
    /\ TouchUsers({UserOf(c)})

AtLimit(u) == Cardinality(users[u]) >= MaxOnline

ConnectBelowLimit(c) ==
    /\ pc[c] = "idle"
    /\ ~AtLimit(UserOf(c))
    /\ Register(c, device)
    /\ Meet(c)
    /\ UNCHANGED <<sess, victim, sock, lastSeen>>

(* A variant of ConnectEvicting that awaits the farewell message and never  *)
(* closes the victim's socket.                                              *)
MutEvictLeavesOpen(c) ==
    /\ pc[c] = "idle"
    /\ AtLimit(UserOf(c))
    /\ \E d \in users[UserOf(c)] :
        /\ device[d] # NoConn
        /\ sock[device[d]] # "closed"
        /\ victim' = [victim EXCEPT ![c] = d]
    /\ pc' = [pc EXCEPT ![c] = "evicting"]
    /\ Meet(c)
    /\ UNCHANGED <<indexVars, users, device, sess, sock, lastSeen>>

(* popDevice picks any device of the user and awaits the close of the       *)
(* socket _device holds for it.                                             *)
ConnectEvicting(c) ==
    /\ pc[c] = "idle"
    /\ AtLimit(UserOf(c))
    /\ \E d \in users[UserOf(c)] :
        /\ device[d] # NoConn
        /\ sock[device[d]] # "closed"
        /\ sock' = [sock EXCEPT ![device[d]] = "closed"]
        /\ victim' = [victim EXCEPT ![c] = d]
    /\ pc' = [pc EXCEPT ![c] = "evicting"]
    /\ Meet(c)
    /\ UNCHANGED <<indexVars, users, device, sess, lastSeen>>

(* Closing a socket that is already shut raises; popDevice passes, skipping *)
(* the pop, and connect goes on.                                            *)
ConnectVictimShut(c) ==
    /\ pc[c] = "idle"
    /\ AtLimit(UserOf(c))
    /\ \E d \in users[UserOf(c)] :
        /\ device[d] # NoConn
        /\ sock[device[d]] # "open"
    /\ Register(c, device)
    /\ Meet(c)
    /\ UNCHANGED <<sess, victim, sock, lastSeen>>

(* The farewell message looks the victim's socket up outside the try: a     *)
(* device whose socket is missing ends the handler with KeyError.           *)
ConnectKeyError(c) ==
    /\ pc[c] = "idle"
    /\ AtLimit(UserOf(c))
    /\ \E d \in users[UserOf(c)] : device[d] = NoConn
    /\ pc' = [pc EXCEPT ![c] = "dead"]
    /\ sock' = [sock EXCEPT ![c] = "closed"]
    /\ UNCHANGED <<indexVars, users, device, sess, victim, lastSeen, crossed>>

(* Variants of EvictDone: a victim reset to a value that is no device; a    *)
(* pop that waits for a socket still registered.                            *)
MutEvictResetsVictim(c) ==
    /\ pc[c] = "evicting"
    /\ Register(c, [device EXCEPT ![victim[c]] = NoConn])
    /\ victim' = [victim EXCEPT ![c] = NoConn]
    /\ UNCHANGED <<sess, sock, lastSeen, crossed>>

MutEvictNeedsSocket(c) ==
    /\ pc[c] = "evicting"
    /\ device[victim[c]] # NoConn
    /\ Register(c, [device EXCEPT ![victim[c]] = NoConn])
    /\ UNCHANGED <<sess, victim, sock, lastSeen, crossed>>

(* The close of the victim returned: _device loses the victim's key,        *)
(* whichever connection holds it by now.                                    *)
EvictDone(c) ==
    /\ pc[c] = "evicting"
    /\ Register(c, [device EXCEPT ![victim[c]] = NoConn])
    /\ UNCHANGED <<sess, victim, sock, lastSeen, crossed>>

(* accept returned: the user is connected to the groups and friends its     *)
(* account lists, whatever they are by now.                                 *)
Accepted(c) ==
    /\ pc[c] = "accepting"
    /\ sock[c] # "closed"
    /\ \E gs \in SUBSET Group : UserConnectToGroupItems(UserOf(c), gs)
    /\ pc' = [pc EXCEPT ![c] = "live"]
    /\ UNCHANGED <<known, users, device, sess, victim, sock, lastSeen, crossed>>

(* connect raised after registering: accept failed, or the account lists a  *)
(* group that no longer exists.                                             *)
ConnectError(c) ==
    /\ pc[c] = "accepting"
    /\ pc' = [pc EXCEPT ![c] = "dead"]
    /\ sock' = [sock EXCEPT ![c] = "closed"]
    /\ UNCHANGED <<indexVars, users, device, sess, victim, lastSeen, crossed>>

--------------------------------------------------------------------------------
(* The receive loop and disconnectUser *)

(* The client leaves; the handler has not noticed yet.                      *)
ClientCloses(c) ==
    /\ pc[c] \in {"evicting", "accepting", "live"}
    /\ sock[c] = "open"
    /\ sock' = [sock EXCEPT ![c] = "gone"]
    /\ UNCHANGED <<indexVars, users, device, pc, sess, victim, lastSeen, crossed>>

(* Receiving raised something other than WebSocketDisconnect: the error is  *)
(* logged and the handler returns without disconnectUser.                   *)
HandlerError(c) ==
    /\ pc[c] = "live"
    /\ sock[c] = "open"
    /\ pc' = [pc EXCEPT ![c] = "dead"]
    /\ sock' = [sock EXCEPT ![c] = "closed"]
    /\ UNCHANGED <<indexVars, users, device, sess, victim, lastSeen, crossed>>

(* Variants of Cleanup: one keeps _device's key; one gives up when _device   *)
(* has lost the key already; one forgets the user whatever devices remain.   *)
MutCleanupKeepsSocket(c) ==
    LET u == UserOf(c)
        d == DeviceOf(c)
    IN  /\ lastSeen' = [lastSeen EXCEPT ![u] = @ \cup {d}]
        /\ users' = [users EXCEPT ![u] = @ \ {d}]
        /\ UNCHANGED device
        /\ pc' = [pc EXCEPT ![c] = "done"]
        /\ IF users[u] \subseteq {d} THEN ForgetUser(u) ELSE TouchUsers({u})

MutCleanupRegisteredOnly(c) ==
    LET u == UserOf(c)
        d == DeviceOf(c)
    IN  /\ lastSeen' = [lastSeen EXCEPT ![u] = @ \cup {d}]
        /\ users' = [users EXCEPT ![u] = IF device[d] = NoConn THEN @ ELSE @ \ {d}]
        /\ device' = [device EXCEPT ![d] = NoConn]
        /\ pc' = [pc EXCEPT ![c] = "done"]
        /\ IF users'[u] = {} THEN ForgetUser(u) ELSE TouchUsers({u})

MutCleanupForgetsAlways(c) ==
    LET u == UserOf(c)
        d == DeviceOf(c)
    IN  /\ lastSeen' = [lastSeen EXCEPT ![u] = @ \cup {d}]
        /\ users' = [users EXCEPT ![u] = @ \ {d}]
        /\ device' = [device EXCEPT ![d] = NoConn]
        /\ pc' = [pc EXCEPT ![c] = "done"]
        /\ ForgetUser(u)

(* disconnectUser after its close: stamp lastSeen, drop the device, forget  *)
(* a user without devices, pop the socket.                                  *)
Cleanup(c) ==
    LET u == UserOf(c)
        d == DeviceOf(c)
    IN  /\ lastSeen' = [lastSeen EXCEPT ![u] = @ \cup {d}]
        /\ users' = [users EXCEPT ![u] = @ \ {d}]
        /\ device' = [device EXCEPT ![d] = NoConn]
        /\ pc' = [pc EXCEPT ![c] = "done"]
        /\ IF users[u] \subseteq {d} THEN ForgetUser(u) ELSE TouchUsers({u})

(* WebSocketDisconnect: the socket _device holds for this device id is      *)
(* closed, be it this connection's own or a later one's.                    *)
DisconnectClosing(c) ==
    LET w == device[DeviceOf(c)]
    IN  /\ pc[c] = "live"
        /\ sock[c] # "open"
        /\ w # NoConn
        /\ sock[w] # "closed"
        /\ sock' = [sock EXCEPT ![w] = "closed"]
        /\ pc' = [pc EXCEPT ![c] = "closing"]
        /\ UNCHANGED <<indexVars, users, device, sess, victim, lastSeen, crossed>>

(* A variant in which only a registered device is cleaned up.               *)
MutDisconnectRegistered(c) ==
    LET w == device[DeviceOf(c)]
    IN  /\ pc[c] = "live"
        /\ sock[c] # "open"
        /\ w # NoConn
        /\ sock[w] # "open"
        /\ Cleanup(c)
        /\ UNCHANGED <<sess, victim, sock, crossed>>

(* Nothing to close, or the close raised: the cleanup follows at once.      *)
DisconnectAtOnce(c) ==
    LET w == device[DeviceOf(c)]
    IN  /\ pc[c] = "live"
        /\ sock[c] # "open"
        /\ w # NoConn => sock[w] # "open"
        /\ Cleanup(c)
        /\ UNCHANGED <<sess, victim, sock, crossed>>

CloseDone(c) ==
    /\ pc[c] = "closing"
    /\ Cleanup(c)
    /\ UNCHANGED <<sess, victim, sock, crossed>>

--------------------------------------------------------------------------------
(* Calls made by the HTTP handlers and by the messages of live connections *)

Joined(u, g) == UserJoinedGroup(u, g) /\ UNCHANGED connVars

RemovedFromGroup(u, g) == DisconnectUserFromGroup(u, g) /\ UNCHANGED connVars

GroupDeleted(g) == DisconnectGroup(g) /\ UNCHANGED connVars

BanUpdated(g) == CreateGroupItem(g) /\ UNCHANGED connVars

SendingSystemMessage(u) == TouchUsers({u}) /\ UNCHANGED connVars

(* The broadcast reads _users of each online user; a device without a       *)
(* socket stops it by KeyError after any of them.                           *)
SendingGroupMessage(u, g) ==
    /\ g \in userGroups[u]
    /\ \E reached \in SUBSET onlineUsers[g] :
        /\ \/ reached = onlineUsers[g]
           \/ \E v \in reached, d \in Device :
                d \in users[v] /\ device[d] = NoConn
        /\ TouchUsers(reached)
    /\ UNCHANGED connVars

ServiceCall ==
    \/ \E u \in User, g \in Group : Joined(u, g)
    \/ \E u \in User, g \in Group : RemovedFromGroup(u, g)
    \/ \E g \in Group : GroupDeleted(g)
    \/ \E g \in Group : BanUpdated(g)
    \/ \E u \in User : SendingSystemMessage(u)
    \/ \E u \in User, g \in Group : SendingGroupMessage(u, g)

Connect(c) ==
    \/ ConnectBelowLimit(c)
    \/ ConnectEvicting(c)
    \/ ConnectVictimShut(c)
    \/ ConnectKeyError(c)

(* The steps a handler takes once it runs: resuming after an await that     *)
(* returned, or noticing a socket that is no longer open.                   *)
HandlerStep(c) ==
    \/ EvictDone(c)
    \/ Accepted(c)
    \/ ConnectError(c)
    \/ DisconnectClosing(c)
    \/ DisconnectAtOnce(c)
    \/ CloseDone(c)

Next ==
    \/ \E c \in Conn : Connect(c)
    \/ \E c \in Conn : HandlerStep(c)
    \/ \E c \in Conn : HandlerError(c)
    \/ \E c \in Conn : ClientCloses(c)
    \/ ServiceCall

Spec == Init /\ [][Next]_vars

(* The event loop resumes every coroutine whose await has completed.        *)
Fairness == \A c \in Conn : WF_vars(HandlerStep(c))

FairSpec == Spec /\ Fairness

--------------------------------------------------------------------------------
(* Properties *)

InRegistry(c) == pc[c] \in {"accepting", "live", "closing", "dead"}

(* _device never holds the socket of a connection that finished or never    *)
(* registered, nor one of another device, and the device is listed for that *)
(* connection's user: what disconnectUser and popDevice take out of _device *)
(* and of _users, in several steps and by several handlers, stays in line.  *)
RegisteredIsListed ==
    \A d \in Device, c \in Conn :
        device[d] = c => /\ DeviceOf(c) = d
                         /\ d \in users[UserOf(c)]
                         /\ InRegistry(c)

(* A device listed in _users has a handler that will unlist it, or one that *)
(* died of an exception: no interleaving of reconnects, evictions and       *)
(* disconnects leaves an entry nobody owns.                                 *)
EntryHasHandler ==
    \A u \in User, d \in Device :
        d \in users[u] => \E c \in Conn : /\ sess[c] = [user |-> u, device |-> d]
                                       /\ InRegistry(c)

(* A user with a listed device has a key in _users: __contains__ (the       *)
(* presence shown by getUserCurrentInfo) and userJoinedGroup never miss a   *)
(* user whose devices are registered.                                       *)
ListedIsKnown == \A u \in User : users[u] # {} => u \in known

(* A connection that shared its device id with no other while both were in  *)
(* flight is what _device holds for it, its device is listed and its user   *)
(* present, for as long as its socket is open: no eviction, cleanup or      *)
(* failure of any other handler takes it out of the tables.  What goes      *)
(* wrong in connect, popDevice and disconnectUser goes wrong between        *)
(* connections of one device id.                                            *)
UncrossedIsReached ==
    \A c \in Conn \ crossed :
        pc[c] \in {"accepting", "live"} /\ sock[c] # "closed" =>
            /\ device[DeviceOf(c)] = c
            /\ DeviceOf(c) \in users[UserOf(c)]
            /\ UserOf(c) \in known

(* A live connection whose socket is shut, by the client, by an eviction or *)
(* by another handler of its device id, is released: its lastSeen is        *)
(* stamped and its handler ends.                                            *)
ShutIsReleased ==
    \A c \in Conn :
        pc[c] = "live" /\ sock[c] # "open"
            ~> pc[c] = "done" /\ DeviceOf(c) \in lastSeen[UserOf(c)]

(* A handler that has been given an await never waits for another handler:  *)
(* every connect ends live or dead.                                         *)
ConnectEnds ==
    \A c \in Conn :
        pc[c] \in {"evicting", "accepting"} ~> pc[c] \in {"live", "done", "dead"}

--------------------------------------------------------------------------------
(* What the documentation of the code says, and the code does not keep      *)

Serving(c) == pc[c] = "live" /\ sock[c] = "open"

Quiescent ==
    \A c \in Conn : pc[c] \in {"idle", "done"} \/ Serving(c)

(* "userID -> deviceID -> websocket" (wsConnectionMgr.py:73): every listed  *)
(* device leads to a socket, at least when no handler is between two steps  *)
(* and none died.  The broadcast relies on it.                              *)
DeviceLeadsToSocket ==
    Quiescent => \A u \in User : \A d \in users[u] : device[d] # NoConn

(* "when all of the user's devices are offline" (wsConnectionMgr.py:252): a *)
(* user is forgotten only when it has no connection left open.              *)
ForgottenOnlyOffline ==
    [][\A u \in User : u \in known /\ u \notin known' =>
          \A c \in Conn : ~(Serving(c) /\ UserOf(c) = u)]_vars

================================================================================
