-------------------------------- MODULE Delivery --------------------------------
(***************************************************************************)
(* How the messages of a user's groups and its notifications reach the      *)
(* user's devices: the live broadcast, the store, the lastSeen stamp of a   *)
(* device that leaves and the replay of what is newer when it returns       *)
(* (utils/wsConnectionMgr.py), and the token request that precedes a        *)
(* connection and rewrites the stamps (router/user.py, getWSToken).         *)
(*                                                                          *)
(* One user is modelled, with one connection at a time per device: what two *)
(* connections of one device do to each other is ConnectionManager.  A box  *)
(* is a group (or a friend's virtual group) or the user's notifications.    *)
(*                                                                          *)
(*   off -> asking -> holding -> [evicting ->] accepting -> live -> off     *)
(***************************************************************************)
EXTENDS Integers, Sequences, FiniteSets

CONSTANTS
    Device,      \* the user's devices
    Group,       \* the groups its account lists, friends included
    Inbox,       \* its notifications
    MaxOnline,   \* Limits.MAX_ONLINE_DEVICE
    MaxDevice,   \* Limits.MAX_DEVICE
    Window,      \* how far back a device without a stamp is replayed
    MaxTime,     \* bound on the clock
    MaxSent      \* bound on the messages and notifications of a behaviour

ASSUME InboxAssumption == Inbox \notin Group
ASSUME LimitsAssumption == /\ MaxOnline \in Nat \ {0}
                           /\ MaxDevice \in Nat \ {0}
                           /\ Window \in Nat \ {0}
                           /\ MaxTime \in Nat \ {0, 1}
                           /\ MaxSent \in Nat \ {0}

VARIABLES
    now,        \* timestamp(), in milliseconds
    queue,      \* tasks created and not yet run, in order
    sent,       \* how many messages and notifications were stamped
    stored,     \* the Storage and Notification collections
    groups,     \* groups that still exist
    joined,     \* _userGroups of the user, all of them keys of _groups
    lastSeen,   \* the stamps of the account; 0 when the device has none
    snap,       \* the stamps a token request has read
    phase,      \* where each device is
    sock,       \* whether its socket can still deliver
    held,       \* whether _device has its key
    victim,     \* the device popDevice is closing for it
    since,      \* the lastSeen its replay started from
    came,       \* when that replay was created
    replay,     \* boxes its replay tasks have not queried yet
    batch,      \* messages queried and not yet sent
    broken,     \* its group replay ended by an exception
    shown,      \* messages it has received since its last disconnection
    left,       \* when it really was disconnected last, 0 for never
    cut         \* notifications whose push ended by an exception

clockVars == <<now, queue, sent, stored, cut>>
replayVars == <<since, came, replay, batch, broken>>
wireVars == <<sock, held, victim, joined>>
stampVars == <<lastSeen, snap, left>>
vars == <<clockVars, replayVars, wireVars, stampVars, groups, phase, shown>>

Box == Group \cup {Inbox}
Message == [id : 1..MaxSent, box : Box, time : 1..MaxTime]
Task == [op : {"send", "notify", "push"}, msg : Message]
Stamps == [Device -> 0..MaxTime]

TypeOK ==
    /\ now \in 1..MaxTime
    /\ queue \in Seq(Task)
    /\ sent \in 0..MaxSent
    /\ stored \subseteq Message
    /\ groups \subseteq Group /\ joined \subseteq Group
    /\ lastSeen \in Stamps /\ left \in Stamps
    /\ snap \in [Device -> Stamps]
    /\ phase \in [Device -> {"off", "asking", "holding", "evicting", "accepting", "live"}]
    /\ sock \in [Device -> BOOLEAN] /\ held \in [Device -> BOOLEAN]
    /\ victim \in [Device -> Device]
    /\ since \in Stamps /\ came \in Stamps
    /\ replay \in [Device -> SUBSET Box]
    /\ batch \in [Device -> SUBSET Message]
    /\ broken \in [Device -> BOOLEAN]
    /\ shown \in [Device -> SUBSET Message]
    /\ cut \subseteq Message

NoStamps == [d \in Device |-> 0]

(* A device is known from an earlier connection or not, and at most one     *)
(* message was stored before.                                               *)
Init ==
    /\ now = 2 /\ queue = <<>> /\ sent = 1 /\ cut = {}
    /\ \/ stored = {}
       \/ \E g \in Group : stored = {[id |-> 1, box |-> g, time |-> 1]}
    /\ groups = Group /\ joined = {}
    /\ lastSeen \in [Device -> {0, 1}] /\ left = lastSeen
    /\ Cardinality({d \in Device : lastSeen[d] # 0}) <= MaxDevice
    /\ snap = [d \in Device |-> NoStamps]
    /\ phase = [d \in Device |-> "off"]
    /\ sock = [d \in Device |-> FALSE] /\ held = [d \in Device |-> FALSE]
    /\ victim = [d \in Device |-> d]
    /\ since = NoStamps /\ came = NoStamps
    /\ replay = [d \in Device |-> {}] /\ batch = [d \in Device |-> {}]
    /\ broken = [d \in Device |-> FALSE]
    /\ shown = [d \in Device |-> {}]

(* The devices in _users, and those a send reaches at once.                 *)
Listed == {d \in Device : phase[d] \in {"accepting", "live"}}
Live == {d \in Device : phase[d] = "live" /\ sock[d]}

--------------------------------------------------------------------------------
(* Time and the tasks of the event loop *)

Tick ==
    /\ now < MaxTime
    /\ now' = now + 1
    /\ UNCHANGED <<queue, sent, stored, cut, replayVars, wireVars, stampVars,
                   groups, phase, shown>>

Stamped(b) == [id |-> sent + 1, box |-> b, time |-> now]

(* A member's message: stamped when received and left to a task.            *)
Receive(g) ==
    /\ g \in groups
    /\ sent < MaxSent
    /\ sent' = sent + 1
    /\ queue' = Append(queue, [op |-> "send", msg |-> Stamped(g)])
    /\ UNCHANGED <<now, stored, cut, replayVars, wireVars, stampVars, groups,
                   phase, shown>>

(* A handler notifies the user: stamped, stored by a task.                  *)
Notify ==
    /\ sent < MaxSent
    /\ sent' = sent + 1
    /\ queue' = Append(queue, [op |-> "notify", msg |-> Stamped(Inbox)])
    /\ UNCHANGED <<now, stored, cut, replayVars, wireVars, stampVars, groups,
                   phase, shown>>

(* Sending m to the devices of the user: an open socket receives it, one    *)
(* still being accepted may, one that is shut fails in its own task.        *)
Reaches(m, devices) ==
    /\ devices \subseteq {d \in Listed : held[d] /\ sock[d]}
    /\ shown' = [d \in Device |-> IF d \in devices THEN shown[d] \cup {m}
                                                  ELSE shown[d]]

Audience(m) == IF m.box \in joined \cup {Inbox} THEN Live ELSE {}

(* A listed device without a socket stops the loop by KeyError.             *)
Dangling == \E d \in Listed : ~held[d]

TimeTaken(m) == \E n \in stored : n.box = m.box /\ n.time = m.time

Run(op) == queue # <<>> /\ Head(queue).op = op /\ queue' = Tail(queue)

(* A variant of SendTask: the message is stored before it is sent, so that  *)
(* a broadcast that stops leaves it stored.                                 *)
MutStoreFirst ==
    /\ Run("send")
    /\ LET m == Head(queue).msg
       IN  /\ \/ /\ m.box \in groups
                 /\ \E ds \in SUBSET Device : Reaches(m, ds)
                 /\ stored' = IF TimeTaken(m) THEN stored ELSE stored \cup {m}
              \/ UNCHANGED <<shown, stored>>
    /\ UNCHANGED <<now, sent, cut, replayVars, wireVars, stampVars, groups, phase>>

(* sendingGroupMessage.  It is dropped when its group is gone, the sender   *)
(* is banned or too fast, or a check refuses it; it stops half way when a   *)
(* listed device, of this user or of a peer, has no socket; it is stored    *)
(* last, and not at all when another message of the group has its time.     *)
SendTask ==
    /\ Run("send")
    /\ LET m == Head(queue).msg
       IN  \/ /\ m.box \in groups
              /\ ~(Dangling /\ m.box \in joined)
              /\ \E ds \in SUBSET Device : Audience(m) \subseteq ds /\ Reaches(m, ds)
              /\ stored' = IF TimeTaken(m) THEN stored ELSE stored \cup {m}
           \/ /\ m.box \in joined
              /\ \E ds \in SUBSET Device : Reaches(m, ds)
              /\ UNCHANGED stored
           \/ UNCHANGED <<shown, stored>>
    /\ UNCHANGED <<now, sent, cut, replayVars, wireVars, stampVars, groups, phase>>

(* A variant of NotifyTask that only stores.                                *)
MutStoreOnly ==
    /\ Run("notify")
    /\ stored' = stored \cup {Head(queue).msg}
    /\ UNCHANGED <<now, sent, cut, replayVars, wireVars, stampVars, groups, phase, shown>>

(* sendingNotificationMessage: stored, then pushed by another task.         *)
NotifyTask ==
    /\ queue # <<>> /\ Head(queue).op = "notify"
    /\ stored' = stored \cup {Head(queue).msg}
    /\ queue' = Append(Tail(queue), [op |-> "push", msg |-> Head(queue).msg])
    /\ UNCHANGED <<now, sent, cut, replayVars, wireVars, stampVars, groups, phase, shown>>

(* sendingSystemMessage for a notification.                                 *)
PushTask ==
    /\ Run("push")
    /\ LET m == Head(queue).msg
       IN  \/ /\ ~Dangling
              /\ \E ds \in SUBSET Device : Live \subseteq ds /\ Reaches(m, ds)
              /\ UNCHANGED cut
           \/ /\ Dangling
              /\ \E ds \in SUBSET Device : Reaches(m, ds)
              /\ cut' = cut \cup {m}
    /\ UNCHANGED <<now, sent, stored, replayVars, wireVars, stampVars, groups, phase>>

(* disconnectGroup, after which no account lists the group.                 *)
Dissolved(g) ==
    /\ g \in groups
    /\ groups' = groups \ {g}
    /\ joined' = joined \ {g}
    /\ UNCHANGED <<clockVars, replayVars, sock, held, victim, stampVars, phase, shown>>

--------------------------------------------------------------------------------
(* getWSToken and the connection *)

Later(a, b) == IF a > b THEN a ELSE b

(* The request's dependency reads the account; its body runs later, and     *)
(* writes the whole map back.                                               *)
TokenRequested(d) ==
    /\ phase[d] = "off"
    /\ phase' = [phase EXCEPT ![d] = "asking"]
    /\ snap' = [snap EXCEPT ![d] = lastSeen]
    /\ UNCHANGED <<clockVars, replayVars, wireVars, lastSeen, left, groups, shown>>

Known(stamps) == {d \in Device : stamps[d] # 0}

(* A variant of Evict that stamps what it should leave out.                 *)
MutEvict(stamps) ==
    [d \in Device |-> IF stamps[d] = 0 THEN now ELSE stamps[d]]

(* At the limit, and only exactly there, the devices with the oldest stamp  *)
(* are taken out.                                                           *)
Evict(stamps) ==
    IF Cardinality(Known(stamps)) = MaxDevice
    THEN [d \in Device |-> IF \E e \in Known(stamps) : stamps[e] < stamps[d]
                           THEN stamps[d] ELSE 0]
    ELSE stamps

(* A device that is not in the map is announced to the user.                *)
TokenGranted(d) ==
    /\ phase[d] = "asking"
    /\ lastSeen' = Evict(snap[d])
    /\ snap' = [snap EXCEPT ![d] = NoStamps]
    /\ phase' = [phase EXCEPT ![d] = "holding"]
    /\ IF snap[d][d] # 0
       THEN UNCHANGED <<queue, sent>>
       ELSE /\ sent < MaxSent
            /\ sent' = sent + 1
            /\ queue' = Append(queue, [op |-> "notify", msg |-> Stamped(Inbox)])
    /\ UNCHANGED <<now, stored, cut, replayVars, wireVars, left, groups, shown>>

(* connect lists the device and its socket, then awaits accept.             *)
Register(d, keys) ==
    /\ phase' = [phase EXCEPT ![d] = "accepting"]
    /\ held' = [keys EXCEPT ![d] = TRUE]

AtLimit == Cardinality(Listed) >= MaxOnline

ConnectBelowLimit(d) ==
    /\ phase[d] = "holding" /\ ~AtLimit
    /\ Register(d, held)
    /\ sock' = [sock EXCEPT ![d] = TRUE]
    /\ UNCHANGED <<clockVars, replayVars, victim, joined, stampVars, groups, shown>>

(* popDevice closes the socket of some listed device and awaits the close.  *)
ConnectEvicting(d) ==
    /\ phase[d] = "holding" /\ AtLimit
    /\ \E v \in Listed :
        /\ held[v] /\ sock[v]
        /\ sock' = [sock EXCEPT ![v] = FALSE]
        /\ victim' = [victim EXCEPT ![d] = v]
    /\ phase' = [phase EXCEPT ![d] = "evicting"]
    /\ UNCHANGED <<clockVars, replayVars, held, joined, stampVars, groups, shown>>

EvictDone(d) ==
    /\ phase[d] = "evicting"
    /\ Register(d, [held EXCEPT ![victim[d]] = FALSE])
    /\ sock' = [sock EXCEPT ![d] = TRUE]
    /\ victim' = [victim EXCEPT ![d] = d]
    /\ UNCHANGED <<clockVars, replayVars, joined, stampVars, groups, shown>>

(* The close of a socket that is shut already raises, and connect goes on.  *)
ConnectVictimShut(d) ==
    /\ phase[d] = "holding" /\ AtLimit
    /\ \E v \in Listed : held[v] /\ ~sock[v]
    /\ Register(d, held)
    /\ sock' = [sock EXCEPT ![d] = TRUE]
    /\ UNCHANGED <<clockVars, replayVars, victim, joined, stampVars, groups, shown>>

(* A victim without a socket ends connect by KeyError.                      *)
ConnectKeyError(d) ==
    /\ phase[d] = "holding" /\ AtLimit
    /\ \E v \in Listed : ~held[v]
    /\ phase' = [phase EXCEPT ![d] = "off"]
    /\ UNCHANGED <<clockVars, replayVars, wireVars, stampVars, groups, shown>>

(* A variant of Start that takes the window off every stamp.                *)
MutStart(d) == (IF lastSeen[d] # 0 THEN lastSeen[d] ELSE now) - Window

(* A variant of Start that takes the newest stamp of the account's devices. *)
MutNewest(d) ==
    IF Known(lastSeen) # {}
    THEN CHOOSE t \in {lastSeen[e] : e \in Device} : \A e \in Device : lastSeen[e] <= t
    ELSE Later(now - Window, 0)

(* Its stamp, or the window for a device without one.                       *)
Start(d) == IF lastSeen[d] # 0 THEN lastSeen[d] ELSE Later(now - Window, 0)

(* accept returned: the groups of the account are joined and the replay     *)
(* tasks created.                                                           *)
Accepted(d) ==
    /\ phase[d] = "accepting"
    /\ phase' = [phase EXCEPT ![d] = "live"]
    /\ joined' = joined \cup groups
    /\ since' = [since EXCEPT ![d] = Start(d)]
    /\ came' = [came EXCEPT ![d] = now]
    /\ replay' = [replay EXCEPT ![d] = groups \cup {Inbox}]
    /\ UNCHANGED <<clockVars, batch, broken, sock, held, victim, stampVars, groups, shown>>

--------------------------------------------------------------------------------
(* The replay *)

Newer(d, b) == {m \in stored : m.box = b /\ m.time > since[d]}

Unsent(d, boxes) == {m \in batch[d] : m.box \in boxes}

(* These boxes are done with; the last of them ends the tasks, and lastSeen *)
(* is theirs.                                                               *)
Queried(d, boxes) ==
    /\ replay' = [replay EXCEPT ![d] = @ \ boxes]
    /\ since' = [since EXCEPT ![d] = IF replay[d] \subseteq boxes THEN 0 ELSE @]

(* _postOfflineNotificationMessages.                                        *)
QueryInbox(d) ==
    /\ phase[d] = "live" /\ Inbox \in replay[d]
    /\ Queried(d, {Inbox})
    /\ batch' = [batch EXCEPT ![d] = @ \cup Newer(d, Inbox)]
    /\ UNCHANGED <<clockVars, came, broken, wireVars, stampVars, groups, phase, shown>>

(* _postOfflineGroupMessages takes its groups one after the other.          *)
QueryGroup(d, g) ==
    /\ phase[d] = "live" /\ g \in replay[d] \cap joined
    /\ Unsent(d, Group) = {}
    /\ Queried(d, {g})
    /\ batch' = [batch EXCEPT ![d] = @ \cup Newer(d, g)]
    /\ UNCHANGED <<clockVars, came, broken, wireVars, stampVars, groups, phase, shown>>

(* A group dissolved meanwhile is no key of _groups: KeyError ends the      *)
(* task, and the groups after it are not replayed.                          *)
QueryKeyError(d, g) ==
    /\ phase[d] = "live" /\ g \in (replay[d] \cap Group) \ joined
    /\ Unsent(d, Group) = {}
    /\ Queried(d, Group)
    /\ broken' = [broken EXCEPT ![d] = TRUE]
    /\ UNCHANGED <<clockVars, came, batch, wireVars, stampVars, groups, phase, shown>>

(* The task sends what it read; the other tasks run in between.             *)
SendReplayed(d) ==
    /\ phase[d] = "live" /\ sock[d]
    /\ \E m \in batch[d] :
        /\ batch' = [batch EXCEPT ![d] = @ \ {m}]
        /\ shown' = [shown EXCEPT ![d] = @ \cup {m}]
    /\ UNCHANGED <<clockVars, since, came, replay, broken, wireVars, stampVars, groups, phase>>

--------------------------------------------------------------------------------
(* Leaving *)

(* The client is lost; the server has not noticed.                          *)
SocketLost(d) ==
    /\ phase[d] \in {"accepting", "live"} /\ sock[d]
    /\ sock' = [sock EXCEPT ![d] = FALSE]
    /\ UNCHANGED <<clockVars, replayVars, held, victim, joined, stampVars, groups, phase, shown>>

EndReplay(gone) ==
    /\ replay' = [d \in Device |-> IF d \in gone THEN {} ELSE replay[d]]
    /\ batch' = [d \in Device |-> IF d \in gone THEN {} ELSE batch[d]]
    /\ broken' = [d \in Device |-> d \notin gone /\ broken[d]]
    /\ since' = [d \in Device |-> IF d \in gone THEN 0 ELSE since[d]]
    /\ came' = [d \in Device |-> IF d \in gone THEN 0 ELSE came[d]]

(* disconnectUser: the stamp, then the registry; the last device of the     *)
(* user to leave takes it out of every group.  The replay tasks fail on the *)
(* closed socket.                                                           *)
Disconnect(d) ==
    /\ phase[d] = "live" /\ ~sock[d]
    /\ phase' = [phase EXCEPT ![d] = "off"]
    /\ lastSeen' = [lastSeen EXCEPT ![d] = now]
    /\ left' = [left EXCEPT ![d] = now]
    /\ held' = [held EXCEPT ![d] = FALSE]
    /\ joined' = IF Listed = {d} THEN {} ELSE joined
    /\ shown' = [shown EXCEPT ![d] = {}]
    /\ EndReplay({d})
    /\ UNCHANGED <<clockVars, snap, sock, victim, groups>>

(* The server stops and starts again: what is in memory is gone, with no    *)
(* stamp written; accounts, messages and tokens stay.                       *)
Restart ==
    /\ \E d \in Device : phase[d] # "off"
    /\ phase' = [d \in Device |-> IF phase[d] = "holding" THEN "holding" ELSE "off"]
    /\ queue' = <<>>
    /\ snap' = [d \in Device |-> NoStamps]
    /\ sock' = [d \in Device |-> FALSE] /\ held' = [d \in Device |-> FALSE]
    /\ victim' = [d \in Device |-> d] /\ joined' = {}
    /\ EndReplay(Device)
    /\ UNCHANGED <<now, sent, stored, cut, lastSeen, left, groups, shown>>

Connect(d) ==
    \/ ConnectBelowLimit(d) \/ ConnectEvicting(d) \/ EvictDone(d)
    \/ ConnectVictimShut(d) \/ ConnectKeyError(d) \/ Accepted(d)

ReplayStep(d) ==
    \/ QueryInbox(d) \/ SendReplayed(d)
    \/ \E g \in Group : QueryGroup(d, g) \/ QueryKeyError(d, g)

Next ==
    \/ Tick \/ Notify \/ Restart
    \/ \E g \in Group : Receive(g) \/ Dissolved(g)
    \/ SendTask \/ NotifyTask \/ PushTask
    \/ \E d \in Device : TokenRequested(d) \/ TokenGranted(d) \/ Connect(d)
    \/ \E d \in Device : ReplayStep(d) \/ SocketLost(d) \/ Disconnect(d)

Spec == Init /\ [][Next]_vars

--------------------------------------------------------------------------------
(* Properties *)

(* A message is owed to a connected device when it is newer than the device's *)
(* last disconnection and within the window.                                *)
Owed(d, m) ==
    /\ d \in Live
    /\ m.time > left[d] /\ m.time > came[d] - Window

OnItsWay(d, m) == m \in shown[d] \cup batch[d] \/ m.box \in replay[d]

(* A stored message never slips between the replay and the live broadcast,  *)
(* whatever stops a broadcast, rewrites the stamps or restarts the server:  *)
(* a connected device has received it, or its replay still will, unless     *)
(* that replay was ended by a group dissolved meanwhile.                    *)
MessagesReach ==
    \A d \in Device, m \in stored :
        Owed(d, m) /\ m.box \in groups => OnItsWay(d, m) \/ broken[d]

(* The same for notifications, which are stored before they are pushed: one *)
(* is received, replayed or about to be pushed, unless the push was stopped *)
(* by a device that had lost its socket.                                    *)
NoticesReach ==
    \A d \in Device, m \in stored :
        Owed(d, m) /\ m.box = Inbox =>
            \/ OnItsWay(d, m)
            \/ m \in cut
            \/ \E i \in DOMAIN queue : queue[i] = [op |-> "push", msg |-> m]

(* A stamp written back from a stale read, or put back by an eviction, is   *)
(* never ahead of the device's last disconnection: messages may be replayed *)
(* twice, none is skipped.                                                  *)
StampNotAhead == \A d \in Device : lastSeen[d] <= left[d] /\ snap[d][d] <= left[d]

Served(d) == phase[d] = "live" /\ sock[d]

(* Where a device is, from outside.                                         *)
Place ==
    [d \in Device |->
        IF phase[d] \notin {"accepting", "live"} THEN "away"
        ELSE IF ~sock[d] THEN "lost" ELSE IF phase[d] = "live" THEN "here" ELSE "coming"]

(* What a connected device will still be shown by its replay.               *)
Due ==
    [d \in Device |->
        IF Served(d)
        THEN batch[d] \cup {m \in stored : m.box \in replay[d] /\ m.time > since[d]}
        ELSE {}]

(* A dissolved group ended its replay.                                      *)
Stuck == [d \in Device |-> Served(d) /\ broken[d]]

(* The messages of the tasks of some kinds.                                 *)
MessagesOf(tasks, ops) == {tasks[i].msg : i \in {i \in DOMAIN tasks : tasks[i].op \in ops}}

Waiting == MessagesOf(queue, {"send", "notify"})
Pending == MessagesOf(queue, {"push"})

Abstract == INSTANCE Mailbox WITH
    open <- groups \cup {Inbox}, waiting <- Waiting, pending <- Pending, failed <- cut,
    place <- Place, due <- Due, stuck <- Stuck

(* Tokens, stamps read early and written back late, devices taken out of    *)
(* the map, sockets closed to make room, queries run one box at a time and  *)
(* restarts behave like one mailbox: whatever runs in between, a device     *)
(* that comes is due all it has missed, is shown it unless it is lost or a  *)
(* group is dissolved, is shown nothing that nobody wrote, and is taken to  *)
(* have left only when its connection was lost.                             *)
ImplementsMailbox == Abstract!Spec

--------------------------------------------------------------------------------
(* What the documentation of the code says, and the code does not keep      *)

(* "sends the messages received while the user was offline"                 *)
(* (wsConnectionMgr.py:196): a message stored while a device is offline is  *)
(* newer than the stamp the replay of that device will start from.          *)
OfflineIsReplayed ==
    [][\A m \in stored' \ stored, d \in Device :
          phase[d] = "off" /\ lastSeen[d] # 0 /\ m.box \in Group
              => m.time > lastSeen[d]]_vars

(* "at most 16 devices by default; beyond that the device not seen for the  *)
(* longest time is dropped first" (config.yaml:55).                         *)
DeviceLimit == Cardinality(Known(lastSeen)) <= MaxDevice

================================================================================
