----------------------------- MODULE DeliveryProofs -----------------------------
(***************************************************************************)
(* Proofs about Delivery, for any sets of devices and groups, any limits    *)
(* and any bounds on the clock and on the messages.                         *)
(***************************************************************************)
EXTENDS Delivery, TLAPS

(* The groups of variables the steps leave alone.                           *)
LEMMA Same ==
    /\ UNCHANGED clockVars => UNCHANGED <<now, queue, sent, stored, cut>>
    /\ UNCHANGED replayVars => UNCHANGED <<since, came, replay, batch, broken>>
    /\ UNCHANGED wireVars => UNCHANGED <<sock, held, victim, joined>>
    /\ UNCHANGED stampVars => UNCHANGED <<lastSeen, snap, left>>
  BY DEF clockVars, replayVars, wireVars, stampVars

--------------------------------------------------------------------------------
(* Types *)

(* A stamped message is a message.                                          *)
LEMMA StampedType ==
    ASSUME TypeOK, sent < MaxSent, NEW b \in Box
    PROVE  Stamped(b) \in Message /\ sent + 1 \in 0..MaxSent
  BY LimitsAssumption DEF TypeOK, Stamped, Message

(* A task taken from the queue leaves a queue.                              *)
LEMMA RunType ==
    ASSUME TypeOK, queue # <<>>
    PROVE  Head(queue) \in Task /\ Tail(queue) \in Seq(Task) /\ Head(queue).msg \in Message
<1>1. queue \in Seq(Task)
  BY DEF TypeOK
<1>2. Head(queue) \in Task /\ Tail(queue) \in Seq(Task)
  BY <1>1
<1> QED
  BY <1>2 DEF Task

(* The steps of the tasks keep the types.                                   *)
LEMMA TasksKeepType ==
    ASSUME TypeOK,
           \/ Tick \/ Notify \/ SendTask \/ NotifyTask \/ PushTask
           \/ \E g \in Group : Receive(g) \/ Dissolved(g)
    PROVE  TypeOK'
<1> USE DEF Stamps
<1>1. CASE Tick
  BY <1>1, Same, LimitsAssumption DEF Tick, TypeOK
<1>2. ASSUME NEW b \in Box, NEW o \in {"send", "notify"}, sent < MaxSent,
             queue' = Append(queue, [op |-> o, msg |-> Stamped(b)])
      PROVE  queue' \in Seq(Task) /\ sent + 1 \in 0..MaxSent
  <2>1. [op |-> o, msg |-> Stamped(b)] \in Task
    BY <1>2, StampedType DEF Task
  <2>2. queue \in Seq(Task)
    BY DEF TypeOK
  <2> QED
    BY <1>2, <2>1, <2>2, StampedType
<1>3. CASE Notify
  BY <1>2, <1>3, Same DEF Notify, TypeOK, Box
<1>4. ASSUME NEW g \in Group, Receive(g)
      PROVE  TypeOK'
  BY <1>2, <1>4, Same DEF Receive, TypeOK, Box
<1>5. ASSUME NEW m \in Message, NEW ds, Reaches(m, ds)
      PROVE  shown' \in [Device -> SUBSET Message]
  BY <1>5 DEF Reaches, TypeOK
<1>6. CASE SendTask
  <2>1. queue' \in Seq(Task) /\ Head(queue).msg \in Message
    BY <1>6, RunType DEF SendTask, Run
  <2>2. shown' \in [Device -> SUBSET Message]
    BY <1>5, <1>6, <2>1 DEF SendTask, TypeOK
  <2>3. stored' \subseteq Message
    BY <1>6, <2>1 DEF SendTask, TypeOK
  <2> QED
    BY <1>6, <2>1, <2>2, <2>3, Same DEF SendTask, TypeOK
<1>7. CASE NotifyTask
  <2>1. Tail(queue) \in Seq(Task) /\ Head(queue).msg \in Message
    BY <1>7, RunType DEF NotifyTask
  <2>2. [op |-> "push", msg |-> Head(queue).msg] \in Task
    BY <2>1 DEF Task
  <2>3. queue' \in Seq(Task)
    BY <1>7, <2>1, <2>2 DEF NotifyTask
  <2> QED
    BY <1>7, <2>1, <2>3, Same DEF NotifyTask, TypeOK
<1>8. CASE PushTask
  <2>1. queue' \in Seq(Task) /\ Head(queue).msg \in Message
    BY <1>8, RunType DEF PushTask, Run
  <2>2. shown' \in [Device -> SUBSET Message]
    BY <1>5, <1>8, <2>1 DEF PushTask
  <2>3. cut' \subseteq Message
    BY <1>8, <2>1 DEF PushTask, TypeOK
  <2> QED
    BY <1>8, <2>1, <2>2, <2>3, Same DEF PushTask, TypeOK
<1>9. ASSUME NEW g \in Group, Dissolved(g)
      PROVE  TypeOK'
  BY <1>9, Same DEF Dissolved, TypeOK
<1> QED
  BY <1>1, <1>3, <1>4, <1>6, <1>7, <1>8, <1>9

(* An eviction takes stamps away and changes none.                          *)
LEMMA EvictTakes ==
    ASSUME NEW stamps \in Stamps
    PROVE  /\ Evict(stamps) \in Stamps
           /\ \A d \in Device : Evict(stamps)[d] \in {0, stamps[d]}
<1>1. 0 \in 0..MaxTime
  BY LimitsAssumption
<1> QED
  BY <1>1 DEF Evict, Stamps

(* A replay starts at a time.                                               *)
LEMMA StartType ==
    ASSUME TypeOK, NEW d \in Device
    PROVE  Start(d) \in 0..MaxTime
  BY LimitsAssumption DEF TypeOK, Stamps, Start, Later

(* The steps of one device keep the types.                                  *)
LEMMA DeviceKeepsType ==
    ASSUME TypeOK, NEW d \in Device,
           \/ TokenRequested(d) \/ TokenGranted(d) \/ Connect(d)
           \/ ReplayStep(d) \/ SocketLost(d) \/ Disconnect(d)
    PROVE  TypeOK'
<1> USE DEF Stamps
<1>0. 0 \in 0..MaxTime
  BY LimitsAssumption
<1>1. CASE TokenRequested(d)
  BY <1>1, Same DEF TokenRequested, TypeOK
<1>2. CASE TokenGranted(d)
  <2>1. lastSeen' \in Stamps
    BY <1>2, EvictTakes DEF TokenGranted, TypeOK
  <2>2. queue' \in Seq(Task) /\ sent' \in 0..MaxSent
    <3>1. CASE snap[d][d] # 0
      BY <1>2, <3>1 DEF TokenGranted, TypeOK
    <3>2. CASE snap[d][d] = 0
      <4>1. sent < MaxSent /\ sent' = sent + 1
            /\ queue' = Append(queue, [op |-> "notify", msg |-> Stamped(Inbox)])
        BY <1>2, <3>2 DEF TokenGranted
      <4>2. [op |-> "notify", msg |-> Stamped(Inbox)] \in Task
        BY <4>1, StampedType DEF Task, Box
      <4> QED
        BY <4>1, <4>2, StampedType DEF TypeOK, Box
    <3> QED
      BY <3>1, <3>2
  <2>3. snap' \in [Device -> Stamps]
    BY <1>0, <1>2 DEF TokenGranted, TypeOK, NoStamps
  <2> QED
    BY <1>2, <2>1, <2>2, <2>3, Same DEF TokenGranted, TypeOK
<1>3. CASE ConnectBelowLimit(d)
  BY <1>3, Same DEF ConnectBelowLimit, Register, TypeOK
<1>4. CASE ConnectEvicting(d)
  BY <1>4, Same DEF ConnectEvicting, Listed, TypeOK
<1>5. CASE EvictDone(d)
  BY <1>5, Same DEF EvictDone, Register, TypeOK
<1>6. CASE ConnectVictimShut(d)
  BY <1>6, Same DEF ConnectVictimShut, Register, TypeOK
<1>7. CASE ConnectKeyError(d)
  BY <1>7, Same DEF ConnectKeyError, TypeOK
<1>8. CASE Accepted(d)
  <2>1. Start(d) \in 0..MaxTime
    BY StartType
  <2>2. groups \cup {Inbox} \subseteq Box /\ now \in 0..MaxTime
    BY DEF TypeOK, Box
  <2> QED
    BY <1>8, <2>1, <2>2, Same DEF Accepted, TypeOK
<1>9. ASSUME NEW boxes, Queried(d, boxes)
      PROVE  replay' \in [Device -> SUBSET Box] /\ since' \in Stamps
  BY <1>0, <1>9 DEF Queried, TypeOK
<1>10. \A b : Newer(d, b) \subseteq Message
  BY DEF Newer, TypeOK
<1>11. CASE QueryInbox(d)
  BY <1>9, <1>10, <1>11, Same DEF QueryInbox, TypeOK
<1>12. ASSUME NEW g \in Group, QueryGroup(d, g)
       PROVE  TypeOK'
  BY <1>9, <1>10, <1>12, Same DEF QueryGroup, TypeOK
<1>13. ASSUME NEW g \in Group, QueryKeyError(d, g)
       PROVE  TypeOK'
  BY <1>9, <1>13, Same DEF QueryKeyError, TypeOK
<1>14. CASE SendReplayed(d)
  BY <1>14, Same DEF SendReplayed, TypeOK
<1>15. CASE SocketLost(d)
  BY <1>15, Same DEF SocketLost, TypeOK
<1>16. CASE Disconnect(d)
  <2>1. EndReplay({d}) /\ now \in 0..MaxTime
    BY <1>16 DEF Disconnect, TypeOK
  <2> QED
    BY <1>0, <1>16, <2>1, Same DEF Disconnect, EndReplay, TypeOK
<1> QED
  BY <1>1, <1>2, <1>3, <1>4, <1>5, <1>6, <1>7, <1>8, <1>11, <1>12, <1>13, <1>14,
     <1>15, <1>16 DEF Connect, ReplayStep

(* Every step keeps the types.                                              *)
LEMMA NextKeepsType ==
    ASSUME TypeOK, [Next]_vars
    PROVE  TypeOK'
<1>1. CASE Restart
  <2>1. 0 \in 0..MaxTime /\ <<>> \in Seq(Task)
    BY LimitsAssumption
  <2> QED
    BY <1>1, <2>1 DEF Restart, EndReplay, NoStamps, Stamps, TypeOK
<1>2. CASE UNCHANGED vars
  BY <1>2, Same DEF vars, TypeOK
<1> QED
  BY <1>1, <1>2, TasksKeepType, DeviceKeepsType DEF Next

(* The first states are typed.                                              *)
LEMMA InitType == Init => TypeOK
<1> SUFFICES ASSUME Init PROVE TypeOK
  OBVIOUS
<1>1. /\ 0 \in 0..MaxTime /\ 1 \in 0..MaxTime /\ 1 \in 1..MaxTime /\ 2 \in 1..MaxTime
      /\ 1 \in 0..MaxSent /\ 1 \in 1..MaxSent
  BY LimitsAssumption
<1>2. stored \subseteq Message
  BY <1>1 DEF Init, Message, Box
<1>3. NoStamps \in Stamps /\ lastSeen \in Stamps /\ left \in Stamps
  BY <1>1 DEF Init, NoStamps, Stamps
<1>4. queue \in Seq(Task)
  BY DEF Init
<1> QED
  BY <1>1, <1>2, <1>3, <1>4 DEF Init, TypeOK

--------------------------------------------------------------------------------
(* Stamps *)

(* Whatever an account or a pending token request says of a device is no    *)
(* later than its last disconnection, which is past.                        *)
StampInv ==
    \A d \in Device :
        /\ lastSeen[d] <= left[d] /\ left[d] <= now
        /\ \A e \in Device : snap[e][d] <= left[d]

(* Every step keeps the stamps behind.                                      *)
LEMMA NextKeepsStamps ==
    ASSUME TypeOK, StampInv, [Next]_vars
    PROVE  StampInv'
<1> USE DEF StampInv, Stamps
<1>0. /\ now \in Nat /\ lastSeen \in [Device -> Nat] /\ left \in [Device -> Nat]
      /\ snap \in [Device -> [Device -> Nat]]
  BY DEF TypeOK
<1>1. CASE Tick
  BY <1>0, <1>1, Same DEF Tick
<1>2. ASSUME NEW d \in Device, TokenRequested(d)
      PROVE  StampInv'
  BY <1>0, <1>2, Same DEF TokenRequested
<1>3. ASSUME NEW d \in Device, TokenGranted(d)
      PROVE  StampInv'
  <2>1. snap[d] \in Stamps
    BY DEF TypeOK
  <2>2. \A e \in Device : lastSeen'[e] \in {0, snap[d][e]}
    BY <1>3, <2>1, EvictTakes DEF TokenGranted
  <2>3. \A e, f \in Device : snap'[e][f] \in {0, snap[e][f]}
    BY <1>0, <1>3 DEF TokenGranted, NoStamps
  <2>4. left' = left /\ now' = now
    BY <1>3, Same DEF TokenGranted
  <2> QED
    BY <1>0, <2>2, <2>3, <2>4
<1>4. ASSUME NEW d \in Device, Disconnect(d)
      PROVE  StampInv'
  BY <1>0, <1>4, Same DEF Disconnect
<1>5. CASE Restart
  BY <1>0, <1>5, Same DEF Restart, NoStamps
<1>6. ASSUME UNCHANGED <<now, lastSeen, left, snap>>
      PROVE  StampInv'
  BY <1>6
<1> QED
  BY <1>1, <1>2, <1>3, <1>4, <1>5, <1>6, Same
     DEF Next, Notify, Receive, Dissolved, SendTask, NotifyTask, PushTask, Connect,
         ReplayStep, ConnectBelowLimit, ConnectEvicting, EvictDone, ConnectVictimShut,
         ConnectKeyError, Accepted, QueryInbox, QueryGroup, QueryKeyError,
         SendReplayed, SocketLost, vars

--------------------------------------------------------------------------------
(* The replay and the broadcast *)

(* A connected user is in the audience of all its groups, and a replay that *)
(* is under way started no later than the device is owed messages from.     *)
ReplayInv ==
    /\ joined \subseteq groups
    /\ \A d \in Device :
        /\ phase[d] = "live" => joined = groups
        /\ replay[d] # {} => since[d] <= left[d] \/ since[d] <= Later(came[d] - Window, 0)

(* Every step keeps the audience and the start of a replay.                 *)
LEMMA NextKeepsReplay ==
    ASSUME TypeOK, StampInv, ReplayInv, [Next]_vars
    PROVE  ReplayInv'
<1> USE DEF ReplayInv
<1>1. ASSUME NEW g \in Group, Dissolved(g)
      PROVE  ReplayInv'
  BY <1>1, Same DEF Dissolved
<1>2. ASSUME NEW d \in Device, Accepted(d)
      PROVE  ReplayInv'
  <2>1. joined' = groups /\ groups' = groups
    BY <1>2 DEF Accepted
  <2>2. since'[d] <= left'[d] \/ since'[d] <= Later(came'[d] - Window, 0)
    <3>1. since'[d] = Start(d) /\ came'[d] = now /\ left' = left
      BY <1>2, Same DEF Accepted, TypeOK, Stamps
    <3>2. CASE lastSeen[d] # 0
      BY <3>1, <3>2 DEF Start, StampInv
    <3>3. CASE lastSeen[d] = 0
      <4>1. Start(d) = Later(now - Window, 0)
        BY <3>3 DEF Start
      <4>2. Later(now - Window, 0) <= Later(now - Window, 0)
        BY LimitsAssumption DEF Later, TypeOK
      <4> QED
        BY <3>1, <4>1, <4>2
    <3> QED
      BY <3>2, <3>3
  <2>3. \A e \in Device \ {d} : /\ replay'[e] = replay[e] /\ since'[e] = since[e]
                               /\ came'[e] = came[e] /\ left'[e] = left[e]
    BY <1>2, Same DEF Accepted, TypeOK
  <2> QED
    BY <2>1, <2>2, <2>3
<1>3. ASSUME NEW d \in Device, Disconnect(d)
      PROVE  ReplayInv'
  <2>1. \A e \in Device \ {d} : /\ phase'[e] = phase[e] /\ replay'[e] = replay[e]
                               /\ since'[e] = since[e] /\ came'[e] = came[e]
                               /\ left'[e] = left[e]
    BY <1>3 DEF Disconnect, EndReplay, TypeOK, Stamps
  <2>2. phase'[d] = "off" /\ replay'[d] = {} /\ groups' = groups
    BY <1>3 DEF Disconnect, EndReplay, TypeOK
  <2>3. joined' \subseteq groups
    BY <1>3 DEF Disconnect
  <2>4. ASSUME NEW e \in Device \ {d}, phase[e] = "live"
        PROVE  joined' = joined
    BY <1>3, <2>4 DEF Disconnect, Listed
  <2> QED
    BY <2>1, <2>2, <2>3, <2>4
<1>4. CASE Restart
  BY <1>4 DEF Restart, EndReplay
<1>5. ASSUME NEW d \in Device, NEW boxes, Queried(d, boxes),
             UNCHANGED <<came, joined, groups, phase, left>>
      PROVE  ReplayInv'
  BY <1>5 DEF Queried, TypeOK, Stamps
<1>6. ASSUME NEW d \in Device,
             \/ QueryInbox(d)
             \/ \E g \in Group : QueryGroup(d, g) \/ QueryKeyError(d, g)
      PROVE  ReplayInv'
  BY <1>5, <1>6, Same DEF QueryInbox, QueryGroup, QueryKeyError
<1>7. ASSUME \A d \in Device : phase'[d] = "live" => phase[d] = "live",
             UNCHANGED <<since, came, replay, joined, groups, left>>
      PROVE  ReplayInv'
  BY <1>7
<1>8. ASSUME NEW d \in Device,
             \/ TokenRequested(d) \/ TokenGranted(d) \/ ConnectBelowLimit(d)
             \/ ConnectEvicting(d) \/ EvictDone(d) \/ ConnectVictimShut(d)
             \/ ConnectKeyError(d) \/ SendReplayed(d) \/ SocketLost(d)
      PROVE  ReplayInv'
  <2>1. \A e \in Device : phase'[e] = "live" => phase[e] = "live"
    BY <1>8 DEF TokenRequested, TokenGranted, ConnectBelowLimit, ConnectEvicting,
       EvictDone, ConnectVictimShut, ConnectKeyError, Register, SendReplayed,
       SocketLost, TypeOK
  <2>2. UNCHANGED <<since, came, replay, joined, groups, left>>
    BY <1>8, Same DEF TokenRequested, TokenGranted, ConnectBelowLimit, ConnectEvicting,
       EvictDone, ConnectVictimShut, ConnectKeyError, Register, SendReplayed, SocketLost
  <2> QED
    BY <1>7, <2>1, <2>2
<1>9. ASSUME UNCHANGED <<since, came, replay, joined, groups, phase, left>>
      PROVE  ReplayInv'
  BY <1>7, <1>9
<1> QED
  BY <1>1, <1>2, <1>3, <1>4, <1>6, <1>8, <1>9, Same
     DEF Next, Tick, Notify, Receive, SendTask, NotifyTask, PushTask, Connect,
         ReplayStep, vars

--------------------------------------------------------------------------------
(* Messages *)

Delivered(d, m) == m \in shown[d] \cup batch[d] \/ m.box \in replay[d]

(* A replay under way reads every message that its device is owed.          *)
LEMMA OwedIsNewer ==
    ASSUME TypeOK, ReplayInv, NEW d \in Device, NEW m \in stored,
           Owed(d, m), m.box \in replay[d]
    PROVE  m \in Newer(d, m.box)
<1>1. m.time \in 1..MaxTime /\ left[d] \in 0..MaxTime /\ came[d] \in 0..MaxTime
      /\ since[d] \in 0..MaxTime
  BY DEF TypeOK, Message, Stamps
<1>2. m.time > left[d] /\ m.time > Later(came[d] - Window, 0)
  BY <1>1, LimitsAssumption DEF Owed, Later
<1>3. since[d] <= left[d] \/ since[d] <= Later(came[d] - Window, 0)
  BY DEF ReplayInv
<1>4. Later(came[d] - Window, 0) \in Int
  BY <1>1, LimitsAssumption DEF Later
<1>5. m.time > since[d]
  BY <1>1, <1>2, <1>3, <1>4, LimitsAssumption
<1> QED
  BY <1>5 DEF Newer

(* What is on its way to a device is still on its way after a query.        *)
LEMMA QueryDelivers ==
    ASSUME TypeOK, ReplayInv, NEW d \in Device, NEW b \in Box, Queried(d, {b}),
           batch' = [batch EXCEPT ![d] = @ \cup Newer(d, b)], shown' = shown,
           NEW e \in Device, NEW m \in stored, Owed(e, m), Delivered(e, m)
    PROVE  Delivered(e, m)'
<1> USE DEF Delivered, Queried, TypeOK
<1>1. CASE e # d
  BY <1>1
<1>2. CASE e = d /\ m.box \in replay[d]
  <2>1. m \in Newer(d, m.box)
    BY <1>2, OwedIsNewer
  <2>2. CASE m.box = b
    BY <1>2, <2>1, <2>2
  <2>3. CASE m.box # b
    BY <1>2, <2>3
  <2> QED
    BY <2>2, <2>3
<1>3. CASE e = d /\ m \in shown[d] \cup batch[d]
  BY <1>3
<1> QED
  BY <1>1, <1>2, <1>3

(* A notification is told apart from a message by its box.                  *)
NoticesInInbox ==
    \A i \in DOMAIN queue : queue[i].op # "send" <=> queue[i].msg.box = Inbox

(* Every step keeps notifications and messages apart.                       *)
LEMMA NextKeepsInbox ==
    ASSUME TypeOK, NoticesInInbox, [Next]_vars
    PROVE  NoticesInInbox'
<1> USE DEF NoticesInInbox
<1>0. queue \in Seq(Task)
  BY DEF TypeOK
<1>1. ASSUME queue # <<>>, queue' = Tail(queue)
      PROVE  NoticesInInbox'
  BY <1>0, <1>1
<1>2. ASSUME NEW t, t.op # "send" <=> t.msg.box = Inbox, queue' = Append(queue, t)
      PROVE  NoticesInInbox'
  BY <1>0, <1>2
<1>3. CASE NotifyTask
  <2> DEFINE t == [op |-> "push", msg |-> Head(queue).msg]
  <2>1. queue # <<>> /\ queue' = Append(Tail(queue), t) /\ t.msg.box = Inbox
    BY <1>0, <1>3 DEF NotifyTask
  <2>2. Tail(queue) \in Seq(Task) /\ Len(Tail(queue)) = Len(queue) - 1
    BY <1>0, <2>1
  <2>3. ASSUME NEW i \in DOMAIN queue'
        PROVE  queue'[i].op # "send" <=> queue'[i].msg.box = Inbox
    <3>1. CASE i = Len(queue)
      BY <2>1, <2>2, <3>1
    <3>2. CASE i # Len(queue)
      BY <1>0, <2>1, <2>2, <2>3, <3>2
    <3> QED
      BY <3>1, <3>2
  <2> QED
    BY <2>3
<1>4. ASSUME NEW b, NEW o, queue' = Append(queue, [op |-> o, msg |-> Stamped(b)]),
             o # "send" <=> b = Inbox
      PROVE  NoticesInInbox'
  BY <1>2, <1>4 DEF Stamped
<1>5. ASSUME NEW d \in Device, TokenGranted(d)
      PROVE  NoticesInInbox'
  BY <1>4, <1>5 DEF TokenGranted
<1>6. CASE Restart
  BY <1>6 DEF Restart
<1>7. ASSUME UNCHANGED queue
      PROVE  NoticesInInbox'
  BY <1>7
<1>8. ASSUME NEW g \in Group, Receive(g)
      PROVE  NoticesInInbox'
  BY <1>4, <1>8, InboxAssumption DEF Receive
<1> QED
  BY <1>1, <1>3, <1>4, <1>5, <1>6, <1>7, <1>8, Same
     DEF Next, Tick, Notify, Dissolved, SendTask, PushTask, Run,
         TokenRequested, Connect, ReplayStep, ConnectBelowLimit, ConnectEvicting,
         EvictDone, ConnectVictimShut, ConnectKeyError, Accepted, QueryInbox,
         QueryGroup, QueryKeyError, SendReplayed, SocketLost, Disconnect, vars

PushPending(m) ==
    \E i \in DOMAIN queue : queue[i] = [op |-> "push", msg |-> m]

(* What the devices hear is unaffected by a step that delivers nothing less *)
(* and connects nobody.                                                     *)
Undisturbed ==
    /\ groups' \subseteq groups /\ Live' \subseteq Live
    /\ UNCHANGED <<left, came, replay, batch, broken>>
    /\ \A d \in Device : shown[d] \subseteq shown'[d]

(* The steps that leave the store and the deliveries alone.                 *)
LEMMA QuietSteps ==
    ASSUME TypeOK,
           \/ Tick \/ Notify \/ UNCHANGED vars
           \/ \E g \in Group : Receive(g) \/ Dissolved(g)
           \/ \E d \in Device :
                \/ TokenRequested(d) \/ TokenGranted(d) \/ ConnectBelowLimit(d)
                \/ ConnectEvicting(d) \/ EvictDone(d) \/ ConnectVictimShut(d)
                \/ ConnectKeyError(d) \/ SocketLost(d)
    PROVE  Undisturbed /\ UNCHANGED <<stored, cut>>
<1>1. UNCHANGED <<left, came, replay, batch, broken, shown, stored, cut>>
  BY Same DEF Tick, Notify, Receive, Dissolved, TokenRequested, TokenGranted,
     ConnectBelowLimit, ConnectEvicting, EvictDone, ConnectVictimShut,
     ConnectKeyError, Register, SocketLost, vars
<1>2. groups' \subseteq groups
  BY Same DEF Tick, Notify, Receive, Dissolved, TokenRequested, TokenGranted,
     ConnectBelowLimit, ConnectEvicting, EvictDone, ConnectVictimShut,
     ConnectKeyError, Register, SocketLost, vars
<1>3. \A d \in Device : phase'[d] = "live" /\ sock'[d] => phase[d] = "live" /\ sock[d]
  BY Same DEF Tick, Notify, Receive, Dissolved, TokenRequested, TokenGranted,
     ConnectBelowLimit, ConnectEvicting, EvictDone, ConnectVictimShut,
     ConnectKeyError, Register, SocketLost, vars, TypeOK
<1> QED
  BY <1>1, <1>2, <1>3 DEF Undisturbed, Live

(* Sending adds to what devices have received.                              *)
LEMMA SendingAdds ==
    ASSUME TypeOK, NEW m \in Message, NEW ds, Reaches(m, ds)
    PROVE  \A d \in Device : /\ shown[d] \subseteq shown'[d]
                             /\ d \in ds => m \in shown'[d]
  BY DEF Reaches, TypeOK

(* The steps of the tasks connect and disconnect nobody.                    *)
LEMMA TasksUndisturbing ==
    ASSUME TypeOK, SendTask \/ NotifyTask \/ PushTask
    PROVE  Undisturbed
<1>1. UNCHANGED <<left, came, replay, batch, broken, groups, phase, sock>>
  BY Same DEF SendTask, NotifyTask, PushTask
<1>2. Live' = Live
  BY <1>1 DEF Live
<1>3. CASE NotifyTask
  BY <1>1, <1>2, <1>3 DEF NotifyTask, Undisturbed
<1>4. CASE SendTask \/ PushTask
  <2>1. Head(queue).msg \in Message
    BY <1>4, RunType DEF SendTask, PushTask, Run
  <2>2. UNCHANGED shown \/ \E ds : Reaches(Head(queue).msg, ds)
    BY <1>4 DEF SendTask, PushTask
  <2>3. \A d \in Device : shown[d] \subseteq shown'[d]
    BY <2>1, <2>2, SendingAdds
  <2> QED
    BY <1>1, <1>2, <2>3 DEF Undisturbed
<1> QED
  BY <1>3, <1>4

(* A replay's send moves a message from what was read to what was received. *)
LEMMA SendKeepsDelivered ==
    ASSUME TypeOK, NEW d \in Device, SendReplayed(d),
           NEW e \in Device, NEW m, Delivered(e, m)
    PROVE  Delivered(e, m)'
<1>1. PICK n \in batch[d] : /\ batch' = [batch EXCEPT ![d] = @ \ {n}]
                            /\ shown' = [shown EXCEPT ![d] = @ \cup {n}]
  BY DEF SendReplayed
<1>2. replay' = replay
  BY DEF SendReplayed
<1> QED
  BY <1>1, <1>2 DEF Delivered, TypeOK

(* When d is accepted or disconnected, the other devices notice nothing.    *)
LEMMA OthersUndisturbed ==
    ASSUME TypeOK, NEW d \in Device, Accepted(d) \/ Disconnect(d),
           NEW e \in Device \ {d}
    PROVE  /\ UNCHANGED <<stored, groups, queue, cut>>
           /\ e \in Live' <=> e \in Live
           /\ left'[e] = left[e] /\ came'[e] = came[e] /\ replay'[e] = replay[e]
           /\ batch'[e] = batch[e] /\ broken'[e] = broken[e] /\ shown'[e] = shown[e]
<1>1. CASE Accepted(d)
  BY <1>1, Same DEF Accepted, Live, TypeOK, Stamps
<1>2. CASE Disconnect(d)
  BY <1>2, Same DEF Disconnect, EndReplay, Live, TypeOK, Stamps
<1> QED
  BY <1>1, <1>2

(* A connected device hears every message of its groups that it is owed.    *)
LEMMA NextKeepsMessages ==
    ASSUME TypeOK, ReplayInv, NoticesInInbox, MessagesReach, [Next]_vars
    PROVE  MessagesReach'
<1> USE DEF MessagesReach, OnItsWay
<1>1. ASSUME Undisturbed, NEW d \in Device, NEW m \in stored, Owed(d, m)', m.box \in groups'
      PROVE  OnItsWay(d, m)' \/ broken'[d]
  BY <1>1 DEF Undisturbed, Owed
<1>2. CASE SendTask
  <2> DEFINE n == Head(queue).msg
  <2>0. Undisturbed /\ n \in Message
    BY <1>2, TasksUndisturbing, RunType DEF SendTask, Run
  <2> SUFFICES ASSUME NEW d \in Device, NEW m \in stored', Owed(d, m)', m.box \in groups'
               PROVE  OnItsWay(d, m)' \/ broken'[d]
    OBVIOUS
  <2>1. CASE m \in stored
    BY <1>1, <2>0, <2>1
  <2>2. CASE m \notin stored
    <3>1. /\ n.box \in groups /\ m = n
          /\ \E ds \in SUBSET Device : Audience(n) \subseteq ds /\ Reaches(n, ds)
      BY <1>2, <2>2 DEF SendTask
    <3>2. d \in Live
      BY <2>0 DEF Undisturbed, Owed
    <3>3. joined = groups
      BY <3>2 DEF Live, ReplayInv
    <3>4. d \in Audience(n)
      BY <3>1, <3>2, <3>3 DEF Audience
    <3> QED
      BY <2>0, <3>1, <3>4, SendingAdds
  <2> QED
    BY <2>1, <2>2
<1>3. CASE NotifyTask
  <2>0. Undisturbed /\ Head(queue).op # "send" /\ queue \in Seq(Task) /\ queue # <<>>
    BY <1>3, TasksUndisturbing DEF NotifyTask, TypeOK
  <2>1. Head(queue).msg.box = Inbox
    BY <2>0 DEF NoticesInInbox
  <2>2. stored' = stored \cup {Head(queue).msg} /\ groups \subseteq Group
    BY <1>3 DEF NotifyTask, TypeOK
  <2>3. Head(queue).msg.box \notin groups'
    BY <2>0, <2>1, <2>2, InboxAssumption DEF Undisturbed
  <2> QED
    BY <1>1, <2>0, <2>2, <2>3
<1>4. CASE PushTask
  BY <1>1, <1>4, TasksUndisturbing DEF PushTask
<1>5. ASSUME Undisturbed, UNCHANGED stored
      PROVE  MessagesReach'
  BY <1>1, <1>5
<1>6. ASSUME NEW d \in Device, QueryInbox(d) \/ \E g \in Group : QueryGroup(d, g)
      PROVE  MessagesReach'
  <2>1. PICK b \in Box : /\ Queried(d, {b})
                         /\ batch' = [batch EXCEPT ![d] = @ \cup Newer(d, b)]
    BY <1>6 DEF QueryInbox, QueryGroup, Box
  <2>2. UNCHANGED <<shown, stored, came, broken, left, groups, phase, sock>>
    BY <1>6, Same DEF QueryInbox, QueryGroup
  <2> SUFFICES ASSUME NEW e \in Device, NEW m \in stored, Owed(e, m), m.box \in groups
               PROVE  OnItsWay(e, m)' \/ broken[e]
    BY <2>2 DEF Owed, Live
  <2> QED
    BY <2>1, <2>2, QueryDelivers DEF Delivered
<1>7. ASSUME NEW d \in Device, NEW g \in Group, QueryKeyError(d, g)
      PROVE  MessagesReach'
  <2>1. UNCHANGED <<shown, batch, stored, came, left, groups, phase, sock>>
    BY <1>7, Same DEF QueryKeyError
  <2>2. /\ broken'[d]
        /\ \A e \in Device \ {d} : broken'[e] = broken[e] /\ replay'[e] = replay[e]
    BY <1>7 DEF QueryKeyError, Queried, TypeOK
  <2> QED
    BY <2>1, <2>2 DEF Owed, Live
<1>8. ASSUME NEW d \in Device, SendReplayed(d)
      PROVE  MessagesReach'
  <2>1. UNCHANGED <<stored, came, broken, left, groups, phase, sock>>
    BY <1>8, Same DEF SendReplayed
  <2> QED
    BY <1>8, <2>1, SendKeepsDelivered DEF Delivered, Owed, Live
<1>9. ASSUME NEW d \in Device, Accepted(d)
      PROVE  MessagesReach'
  <2>1. replay'[d] = groups \cup {Inbox} /\ groups' = groups /\ stored' = stored
    BY <1>9, Same DEF Accepted, TypeOK
  <2> QED
    BY <1>9, <2>1, OthersUndisturbed DEF Owed
<1>10. ASSUME NEW d \in Device, Disconnect(d)
       PROVE  MessagesReach'
  <2>1. d \notin Live' /\ UNCHANGED <<stored, groups>>
    BY <1>10, Same DEF Disconnect, Live, TypeOK
  <2> QED
    BY <1>10, <2>1, OthersUndisturbed DEF Owed
<1>11. CASE Restart
  BY <1>11 DEF Restart, Owed, Live
<1> QED
  BY <1>2, <1>3, <1>4, <1>5, <1>6, <1>7, <1>8, <1>9, <1>10, <1>11, QuietSteps
     DEF Next, Connect, ReplayStep

--------------------------------------------------------------------------------
(* Notifications *)

(* A push waits in the queue until a push is run.                           *)
LEMMA PushWaits ==
    ASSUME TypeOK, ~PushTask, [Next]_vars, NEW m, PushPending(m)
    PROVE  PushPending(m)' \/ Restart
<1>0. queue \in Seq(Task)
  BY DEF TypeOK
<1>1. PICK i \in DOMAIN queue : queue[i] = [op |-> "push", msg |-> m]
  BY DEF PushPending
<1>2. ASSUME NEW t, queue' = Append(queue, t)
      PROVE  PushPending(m)'
  <2>1. i \in DOMAIN queue' /\ queue'[i] = queue[i]
    BY <1>0, <1>1, <1>2
  <2> QED
    BY <1>1, <2>1 DEF PushPending
<1>3. ASSUME queue # <<>>, Head(queue).op # "push", queue' = Tail(queue)
      PROVE  PushPending(m)'
  <2>1. i # 1
    BY <1>0, <1>1, <1>3
  <2>2. i - 1 \in DOMAIN queue' /\ queue'[i - 1] = queue[i]
    BY <1>0, <1>1, <1>3, <2>1
  <2> QED
    BY <1>1, <2>2 DEF PushPending
<1>4. CASE NotifyTask
  <2>1. queue # <<>> /\ Head(queue).op # "push"
        /\ queue' = Append(Tail(queue), [op |-> "push", msg |-> Head(queue).msg])
    BY <1>4 DEF NotifyTask
  <2>2. i # 1
    BY <1>0, <1>1, <2>1
  <2>3. Tail(queue) \in Seq(Task) /\ i - 1 \in DOMAIN Tail(queue)
        /\ Tail(queue)[i - 1] = queue[i]
    BY <1>0, <1>1, <2>1, <2>2
  <2>4. i - 1 \in DOMAIN queue' /\ queue'[i - 1] = queue[i]
    BY <2>1, <2>3
  <2> QED
    BY <1>1, <2>4 DEF PushPending
<1>5. ASSUME UNCHANGED queue
      PROVE  PushPending(m)'
  BY <1>1, <1>5 DEF PushPending
<1> QED
  BY <1>2, <1>3, <1>4, <1>5, Same
     DEF Next, Tick, Notify, Receive, Dissolved, SendTask, Run, TokenRequested,
         TokenGranted, Connect, ReplayStep, ConnectBelowLimit, ConnectEvicting,
         EvictDone, ConnectVictimShut, ConnectKeyError, Accepted, QueryInbox,
         QueryGroup, QueryKeyError, SendReplayed, SocketLost, Disconnect, vars

(* Running one push leaves the others in the queue.                         *)
LEMMA PushTaken ==
    ASSUME TypeOK, PushTask, NEW m, PushPending(m)
    PROVE  PushPending(m)' \/ m = Head(queue).msg
<1>0. queue \in Seq(Task) /\ queue # <<>> /\ queue' = Tail(queue)
  BY DEF TypeOK, PushTask, Run
<1>1. PICK i \in DOMAIN queue : queue[i] = [op |-> "push", msg |-> m]
  BY DEF PushPending
<1>2. CASE i = 1
  BY <1>0, <1>1, <1>2
<1>3. CASE i # 1
  <2>1. i - 1 \in DOMAIN queue' /\ queue'[i - 1] = queue[i]
    BY <1>0, <1>1, <1>3
  <2> QED
    BY <1>1, <2>1 DEF PushPending
<1> QED
  BY <1>2, <1>3

Settled(d, m) == OnItsWay(d, m) \/ m \in cut \/ PushPending(m)

(* NoticesReach, with its last alternative named.                           *)
LEMMA NoticesSettled ==
    NoticesReach <=> \A d \in Device, m \in stored :
                        Owed(d, m) /\ m.box = Inbox => Settled(d, m)
  BY DEF NoticesReach, Settled, PushPending

(* A connected device hears every notification that it is owed.             *)
LEMMA NextKeepsNotices ==
    ASSUME TypeOK, ReplayInv, NoticesReach, [Next]_vars
    PROVE  NoticesReach'
<1>0. SUFFICES ASSUME NEW d \in Device, NEW m \in stored', Owed(d, m)', m.box = Inbox
               PROVE  Settled(d, m)'
  BY DEF NoticesReach, Settled, PushPending
<1>1. ASSUME m \in stored, Owed(d, m)
      PROVE  Settled(d, m)
  BY <1>0, <1>1, NoticesSettled
<1>2. ~Restart
  BY <1>0 DEF Restart, Owed, Live
<1>3. ~PushTask /\ PushPending(m) => PushPending(m)'
  BY <1>2, PushWaits
<1>4. ASSUME Undisturbed, UNCHANGED cut, ~PushTask, m \in stored
      PROVE  Settled(d, m)'
  <2>1. Owed(d, m)
    BY <1>0, <1>4 DEF Undisturbed, Owed
  <2>2. OnItsWay(d, m) => OnItsWay(d, m)'
    BY <1>4 DEF Undisturbed, OnItsWay
  <2> QED
    BY <1>1, <1>3, <1>4, <2>1, <2>2 DEF Settled
<1>5. CASE SendTask
  <2>1. Undisturbed /\ UNCHANGED cut /\ ~PushTask
    BY <1>5, TasksUndisturbing DEF SendTask, PushTask, Run
  <2>2. m \in stored
    <3>1. SUFFICES ASSUME m \notin stored PROVE FALSE
      OBVIOUS
    <3>2. m = Head(queue).msg /\ m.box \in groups
      BY <1>5, <3>1 DEF SendTask
    <3> QED
      BY <1>0, <3>2, InboxAssumption DEF TypeOK
  <2> QED
    BY <1>4, <2>1, <2>2
<1>6. CASE NotifyTask
  <2>1. Undisturbed /\ UNCHANGED cut /\ ~PushTask
    BY <1>6, TasksUndisturbing DEF NotifyTask, PushTask, Run
  <2>2. CASE m \in stored
    BY <1>4, <2>1, <2>2
  <2>3. CASE m \notin stored
    <3>1. /\ m = Head(queue).msg /\ queue # <<>> /\ queue \in Seq(Task)
          /\ queue' = Append(Tail(queue), [op |-> "push", msg |-> m])
      BY <1>6, <2>3 DEF NotifyTask, TypeOK
    <3>2. Tail(queue) \in Seq(Task)
      BY <3>1
    <3>3. Len(queue') \in DOMAIN queue'
          /\ queue'[Len(queue')] = [op |-> "push", msg |-> m]
      BY <3>1, <3>2
    <3> QED
      BY <3>3 DEF Settled, PushPending
  <2> QED
    BY <2>2, <2>3
<1>7. CASE PushTask
  <2> DEFINE n == Head(queue).msg
  <2>1. /\ Undisturbed /\ n \in Message /\ m \in stored /\ cut \subseteq cut'
    BY <1>7, TasksUndisturbing, RunType DEF PushTask, Run
  <2>2. Owed(d, m) /\ (OnItsWay(d, m) => OnItsWay(d, m)')
    BY <1>0, <2>1 DEF Undisturbed, Owed, OnItsWay
  <2>3. CASE m = n
    <3>1. CASE n \in cut'
      BY <2>3, <3>1 DEF Settled
    <3>2. CASE n \notin cut'
      <4>1. PICK ds : Live \subseteq ds /\ Reaches(n, ds)
        BY <1>7, <3>2 DEF PushTask
      <4>2. d \in ds
        BY <2>2, <4>1 DEF Owed
      <4>3. m \in shown'[d]
        BY <2>1, <2>3, <4>1, <4>2, SendingAdds
      <4> QED
        BY <4>3 DEF Settled, OnItsWay
    <3> QED
      BY <3>1, <3>2
  <2>4. CASE m # n
    BY <1>1, <1>7, <2>1, <2>2, <2>4, PushTaken DEF Settled
  <2> QED
    BY <2>3, <2>4
<1>8. ASSUME NEW e \in Device, QueryInbox(e) \/ \E g \in Group : QueryGroup(e, g)
      PROVE  Settled(d, m)'
  <2>1. PICK b \in Box : /\ Queried(e, {b})
                         /\ batch' = [batch EXCEPT ![e] = @ \cup Newer(e, b)]
    BY <1>8 DEF QueryInbox, QueryGroup, Box
  <2>2. UNCHANGED <<shown, stored, cut, queue, came, left, phase, sock>>
    BY <1>8, Same DEF QueryInbox, QueryGroup
  <2>3. m \in stored /\ Owed(d, m)
    BY <1>0, <2>2 DEF Owed, Live
  <2>4. OnItsWay(d, m) => OnItsWay(d, m)'
    BY <2>1, <2>2, <2>3, QueryDelivers DEF Delivered, OnItsWay
  <2> QED
    BY <1>1, <2>2, <2>3, <2>4 DEF Settled, PushPending
<1>9. ASSUME NEW e \in Device, NEW g \in Group, QueryKeyError(e, g)
      PROVE  Settled(d, m)'
  <2>1. UNCHANGED <<shown, batch, stored, cut, queue, came, left, phase, sock>>
    BY <1>9, Same DEF QueryKeyError
  <2>2. m.box \in replay[d] => m.box \in replay'[d]
    BY <1>0, <1>9, InboxAssumption DEF QueryKeyError, Queried, TypeOK
  <2>3. m \in stored /\ Owed(d, m)
    BY <1>0, <2>1 DEF Owed, Live
  <2> QED
    BY <1>1, <2>1, <2>2, <2>3 DEF Settled, OnItsWay, PushPending
<1>10. ASSUME NEW e \in Device, SendReplayed(e)
       PROVE  Settled(d, m)'
  <2>1. UNCHANGED <<stored, cut, queue, came, left, phase, sock>>
    BY <1>10, Same DEF SendReplayed
  <2>2. m \in stored /\ Owed(d, m)
    BY <1>0, <2>1 DEF Owed, Live
  <2>3. OnItsWay(d, m) => OnItsWay(d, m)'
    BY <1>10, SendKeepsDelivered DEF Delivered, OnItsWay
  <2> QED
    BY <1>1, <2>1, <2>2, <2>3 DEF Settled, PushPending
<1>11. ASSUME NEW e \in Device, Accepted(e) \/ Disconnect(e), e # d
       PROVE  Settled(d, m)'
  <2>1. /\ UNCHANGED <<stored, queue, cut>> /\ (d \in Live' => d \in Live)
        /\ left'[d] = left[d] /\ came'[d] = came[d] /\ replay'[d] = replay[d]
        /\ batch'[d] = batch[d] /\ shown'[d] = shown[d]
    BY <1>11, OthersUndisturbed
  <2> QED
    BY <1>0, <1>1, <2>1 DEF Settled, OnItsWay, PushPending, Owed
<1>12. CASE Accepted(d)
  BY <1>0, <1>12 DEF Accepted, TypeOK, Settled, OnItsWay
<1>13. CASE Disconnect(d)
  BY <1>0, <1>13 DEF Disconnect, Owed, Live, TypeOK
<1>14. ASSUME Undisturbed, UNCHANGED <<stored, cut>>
       PROVE  Settled(d, m)'
  BY <1>4, <1>7, <1>14
<1> QED
  BY <1>2, <1>5, <1>6, <1>7, <1>8, <1>9, <1>10, <1>11, <1>12, <1>13, <1>14, QuietSteps
     DEF Next, Connect, ReplayStep

--------------------------------------------------------------------------------
(* The theorems *)

(* The inductive invariant.                                                 *)
DeliveryInv ==
    /\ TypeOK
    /\ StampInv
    /\ ReplayInv
    /\ NoticesInInbox
    /\ MessagesReach
    /\ NoticesReach

(* At the start no device is connected and no task is queued.               *)
LEMMA InitDelivery == Init => DeliveryInv
<1> SUFFICES ASSUME Init PROVE DeliveryInv
  OBVIOUS
<1>1. TypeOK
  BY InitType
<1>2. StampInv
  <2>1. /\ \A d \in Device : lastSeen[d] \in {0, 1} /\ left[d] = lastSeen[d]
        /\ \A d, e \in Device : snap[e][d] = 0
        /\ now = 2
    BY DEF Init, NoStamps
  <2> QED
    BY <2>1 DEF StampInv
<1>3. ReplayInv /\ NoticesInInbox /\ Live = {}
  BY DEF Init, ReplayInv, NoticesInInbox, Live
<1> QED
  BY <1>1, <1>2, <1>3 DEF DeliveryInv, MessagesReach, NoticesReach, Owed

(* The inductive invariant holds in every behaviour.                        *)
LEMMA DeliveryInvHolds == Spec => []DeliveryInv
<1>1. DeliveryInv /\ [Next]_vars => DeliveryInv'
  BY NextKeepsType, NextKeepsStamps, NextKeepsReplay, NextKeepsInbox,
     NextKeepsMessages, NextKeepsNotices DEF DeliveryInv
<1> QED
  BY InitDelivery, <1>1, PTL DEF Spec

(* The variables keep their types in every behaviour.                       *)
THEOREM DeliveryTypeCorrect == Spec => []TypeOK
<1>1. DeliveryInv => TypeOK
  BY DEF DeliveryInv
<1> QED
  BY DeliveryInvHolds, <1>1, PTL

(* No stored message of a group slips between the replay of a device that   *)
(* connects and the broadcasts it then receives.                            *)
THEOREM MessagesAlwaysReach == Spec => []MessagesReach
<1>1. DeliveryInv => MessagesReach
  BY DEF DeliveryInv
<1> QED
  BY DeliveryInvHolds, <1>1, PTL

(* No notification slips between the replay and the pushes.                 *)
THEOREM NoticesAlwaysReach == Spec => []NoticesReach
<1>1. DeliveryInv => NoticesReach
  BY DEF DeliveryInv
<1> QED
  BY DeliveryInvHolds, <1>1, PTL

(* Stale write-backs and evictions never move a stamp past the last         *)
(* disconnection of its device.                                             *)
THEOREM StampsNeverAhead == Spec => []StampNotAhead
<1>1. DeliveryInv => StampNotAhead
  BY DEF DeliveryInv, StampInv, StampNotAhead
<1> QED
  BY DeliveryInvHolds, <1>1, PTL

--------------------------------------------------------------------------------
(* The implementation of Mailbox: its inductive invariants *)

(* A device that is not connected has read nothing, and its replay was not  *)
(* ended; what a replay has read is from a box that it is done with.        *)
IdleInv ==
    \A d \in Device : phase[d] # "live" => batch[d] = {} /\ ~broken[d]
ReadOnce ==
    \A d \in Device : \A m \in batch[d] : m.box \notin replay[d]

ReadInv == IdleInv /\ ReadOnce

(* Every step keeps what was read apart from what is to be read.            *)
LEMMA NextKeepsRead ==
    ASSUME TypeOK, ReadInv, [Next]_vars
    PROVE  ReadInv'
<1> USE DEF ReadInv, IdleInv, ReadOnce
<1>1. ASSUME NEW d \in Device, NEW b, phase[d] = "live", Queried(d, {b}),
             batch' = [batch EXCEPT ![d] = @ \cup Newer(d, b)],
             UNCHANGED <<phase, broken>>
      PROVE  ReadInv'
  <2>1. ASSUME NEW e \in Device, NEW m \in batch'[e]
        PROVE  m.box \notin replay'[e]
    BY <1>1, <2>1 DEF Queried, Newer, TypeOK
  <2> QED
    BY <1>1, <2>1 DEF TypeOK
<1>2. ASSUME NEW d \in Device, QueryInbox(d) \/ \E g \in Group : QueryGroup(d, g)
      PROVE  ReadInv'
  BY <1>1, <1>2 DEF QueryInbox, QueryGroup
<1>3. ASSUME NEW d \in Device, NEW g \in Group, QueryKeyError(d, g)
      PROVE  ReadInv'
  BY <1>3 DEF QueryKeyError, Queried, TypeOK
<1>4. ASSUME NEW d \in Device, SendReplayed(d)
      PROVE  ReadInv'
  BY <1>4 DEF SendReplayed, TypeOK
<1>5. ASSUME NEW d \in Device, Accepted(d)
      PROVE  ReadInv'
  BY <1>5 DEF Accepted, TypeOK
<1>6. ASSUME NEW d \in Device, Disconnect(d)
      PROVE  ReadInv'
  BY <1>6 DEF Disconnect, EndReplay, TypeOK
<1>7. CASE Restart
  BY <1>7 DEF Restart, EndReplay
<1>8. ASSUME \A d \in Device : phase[d] = "live" => phase'[d] = "live",
             UNCHANGED <<replay, batch, broken>>
      PROVE  ReadInv'
  BY <1>8
<1>9. ASSUME NEW d \in Device,
             \/ TokenRequested(d) \/ TokenGranted(d) \/ ConnectBelowLimit(d)
             \/ ConnectEvicting(d) \/ EvictDone(d) \/ ConnectVictimShut(d)
             \/ ConnectKeyError(d) \/ SocketLost(d)
      PROVE  ReadInv'
  <2>1. \A e \in Device : phase[e] = "live" => phase'[e] = "live"
    BY <1>9 DEF TokenRequested, TokenGranted, ConnectBelowLimit, ConnectEvicting,
       EvictDone, ConnectVictimShut, ConnectKeyError, Register, SocketLost, TypeOK
  <2>2. UNCHANGED <<replay, batch, broken>>
    BY <1>9, Same DEF TokenRequested, TokenGranted, ConnectBelowLimit, ConnectEvicting,
       EvictDone, ConnectVictimShut, ConnectKeyError, Register, SocketLost
  <2> QED
    BY <1>8, <2>1, <2>2
<1>10. ASSUME \/ Tick \/ Notify \/ SendTask \/ NotifyTask \/ PushTask \/ UNCHANGED vars
              \/ \E g \in Group : Receive(g) \/ Dissolved(g)
       PROVE  ReadInv'
  BY <1>8, <1>10, Same DEF Tick, Notify, SendTask, NotifyTask, PushTask, Receive,
     Dissolved, vars
<1> QED
  BY <1>2, <1>3, <1>4, <1>5, <1>6, <1>7, <1>9, <1>10 DEF Next, Connect, ReplayStep

(* All that the implementation rests on.                                    *)
MailboxInv == DeliveryInv /\ ReadInv

LEMMA InitRead == Init => ReadInv
  BY DEF Init, ReadInv, IdleInv, ReadOnce

--------------------------------------------------------------------------------
(* The implementation of Mailbox: its steps *)

(* The messages of a queue to which a task is added, or whose first task is *)
(* taken.                                                                   *)
LEMMA AppendMessages ==
    ASSUME NEW q \in Seq(Task), NEW t \in Task, NEW ops
    PROVE  MessagesOf(Append(q, t), ops)
              = MessagesOf(q, ops) \cup (IF t.op \in ops THEN {t.msg} ELSE {})
<1> DEFINE r == Append(q, t)
<1>1. /\ DOMAIN r = DOMAIN q \cup {Len(q) + 1}
      /\ r[Len(q) + 1] = t
      /\ \A i \in DOMAIN q : r[i] = q[i]
  OBVIOUS
<1> HIDE DEF r
<1> QED
  BY <1>1 DEF MessagesOf

LEMMA TailMessages ==
    ASSUME NEW q \in Seq(Task), q # <<>>, NEW ops
    PROVE  MessagesOf(q, ops)
              = MessagesOf(Tail(q), ops)
                \cup (IF Head(q).op \in ops THEN {Head(q).msg} ELSE {})
<1> DEFINE r == Tail(q)
<1>1. /\ \A i \in DOMAIN q : i = 1 \/ (i - 1 \in DOMAIN r /\ r[i - 1] = q[i])
      /\ \A i \in DOMAIN r : i + 1 \in DOMAIN q /\ r[i] = q[i + 1]
      /\ 1 \in DOMAIN q /\ Head(q) = q[1]
  OBVIOUS
<1> HIDE DEF r
<1>2. MessagesOf(r, ops) \subseteq MessagesOf(q, ops)
  BY <1>1 DEF MessagesOf
<1>3. MessagesOf(q, ops) \subseteq MessagesOf(r, ops)
                         \cup (IF Head(q).op \in ops THEN {Head(q).msg} ELSE {})
  BY <1>1 DEF MessagesOf
<1>4. (IF Head(q).op \in ops THEN {Head(q).msg} ELSE {}) \subseteq MessagesOf(q, ops)
  BY <1>1 DEF MessagesOf
<1> QED
  BY <1>2, <1>3, <1>4 DEF r

(* What is queued are messages.                                             *)
LEMMA QueuedMessages ==
    ASSUME NEW q \in Seq(Task), NEW ops
    PROVE  MessagesOf(q, ops) \subseteq Message
<1>1. \A i \in DOMAIN q : q[i] \in Task
  OBVIOUS
<1> QED
  BY <1>1 DEF MessagesOf, Task

(* Who is here, and what a device is due, in the words of Delivery.         *)
LEMMA WhoIsHere ==
    /\ Abstract!Here = Live
    /\ Abstract!Present = {d \in Listed : sock[d]}
<1>1. \A d \in Device : /\ Place[d] = "here" <=> d \in Live
                        /\ Place[d] \in {"coming", "here"} <=> d \in Listed /\ sock[d]
  BY DEF Place, Live, Listed
<1> QED
  BY <1>1 DEF Abstract!Here, Abstract!Present, Live, Listed

LEMMA DueOf ==
    ASSUME NEW d \in Device
    PROVE  Due[d] = IF d \in Live
                    THEN batch[d] \cup {m \in stored : m.box \in replay[d]
                                                       /\ m.time > since[d]}
                    ELSE {}
  BY DEF Due, Served, Live

(* What leaves sockets and replays alone leaves the devices where they are, *)
(* and what leaves the store alone too leaves them what they are due.       *)
LEMMA SameDevices ==
    /\ UNCHANGED <<phase, sock, broken>> => UNCHANGED <<Place, Stuck>>
    /\ UNCHANGED <<phase, sock, stored, replay, batch, since>> => UNCHANGED Due
  BY DEF Place, Stuck, Due, Served

LEMMA SameQueue == UNCHANGED queue => UNCHANGED <<Waiting, Pending>>
  BY DEF Waiting, Pending

(* Adding a task for a message that is not a push writes that message.      *)
LEMMA AppendWaits ==
    ASSUME TypeOK, NEW m \in Message, NEW o \in {"send", "notify"},
           queue' = Append(queue, [op |-> o, msg |-> m])
    PROVE  /\ Waiting' = Waiting \cup {m} /\ Pending' = Pending
           /\ Waiting' \subseteq Message
<1> DEFINE t == [op |-> o, msg |-> m]
<1>1. queue \in Seq(Task) /\ t \in Task /\ t.op = o /\ t.msg = m
  BY DEF TypeOK, Task
<1> HIDE DEF t
<1>2. queue' = Append(queue, t) /\ queue' \in Seq(Task)
  BY <1>1 DEF t
<1>3. Waiting' = MessagesOf(Append(queue, t), {"send", "notify"})
      /\ Pending' = MessagesOf(Append(queue, t), {"push"})
  BY <1>2 DEF Waiting, Pending
<1>4. /\ MessagesOf(Append(queue, t), {"send", "notify"}) = Waiting \cup {m}
      /\ MessagesOf(Append(queue, t), {"push"}) = Pending \cup {}
  <2>1. t.op \in {"send", "notify"} /\ t.op \notin {"push"}
    BY <1>1
  <2> QED
    BY <1>1, <2>1, AppendMessages DEF Waiting, Pending
<1>5. Waiting' \subseteq Message
  BY <1>2, <1>3, QueuedMessages
<1> QED
  BY <1>3, <1>4, <1>5

(* A message or a notification is written.                                  *)
LEMMA WriteStep ==
    ASSUME TypeOK, sent < MaxSent, NEW b \in groups \cup {Inbox},
           NEW o \in {"send", "notify"},
           queue' = Append(queue, [op |-> o, msg |-> Stamped(b)]),
           UNCHANGED <<now, stored, cut, groups, left, shown, Place, Due, Stuck>>
    PROVE  Abstract!Next
<1>1. Stamped(b) \in Message /\ Stamped(b).time = now /\ Stamped(b).box = b
  BY StampedType DEF TypeOK, Box, Stamped
<1>2. Waiting' = Waiting \cup {Stamped(b)} /\ Pending' = Pending
      /\ Waiting' \subseteq Message
  BY <1>1, AppendWaits
<1> QED
  BY <1>1, <1>2 DEF Abstract!Next, Abstract!MessageStep, Abstract!Write

LEMMA ReceiveStep ==
    ASSUME TypeOK, NEW g \in Group, Receive(g)
    PROVE  Abstract!Next
<1>1. UNCHANGED <<now, stored, cut, groups, left, shown, Place, Due, Stuck>>
  BY Same, SameDevices DEF Receive
<1> QED
  BY <1>1, WriteStep DEF Receive

LEMMA NotifyStep ==
    ASSUME TypeOK, Notify
    PROVE  Abstract!Next
<1>1. UNCHANGED <<now, stored, cut, groups, left, shown, Place, Due, Stuck>>
  BY Same, SameDevices DEF Notify
<1> QED
  BY <1>1, WriteStep DEF Notify

(* The clock, and a dissolved group.                                        *)
LEMMA TickStep ==
    ASSUME Tick
    PROVE  Abstract!Next
<1>1. /\ UNCHANGED <<queue, stored, cut, groups, left, shown>> /\ now' = now + 1
      /\ UNCHANGED <<Place, Due, Stuck>>
  BY Same, SameDevices DEF Tick
<1> QED
  BY <1>1, SameQueue DEF Abstract!Next, Abstract!Tick, Abstract!messageVars, Abstract!deviceVars

LEMMA DissolvedStep ==
    ASSUME TypeOK, NEW g \in Group, Dissolved(g)
    PROVE  Abstract!Next
<1>1. /\ UNCHANGED <<now, queue, stored, cut, left, shown>>
      /\ UNCHANGED <<Place, Due, Stuck>>
  BY Same, SameDevices DEF Dissolved
<1>2. g \in groups /\ g # Inbox /\ groups' = groups \ {g} /\ g \in Box
  BY InboxAssumption DEF Dissolved, Box
<1>3. Abstract!Close(g)
  BY <1>1, <1>2, SameQueue DEF Abstract!Close, Abstract!messageVars, Abstract!deviceVars
<1> QED
  BY <1>2, <1>3 DEF Abstract!Next

(* The first task is taken: its message is dealt with, or shown.            *)
LEMMA HeadTaken ==
    ASSUME TypeOK, queue # <<>>
    PROVE  LET m == Head(queue).msg
               rest == MessagesOf(Tail(queue), {"send", "notify"})
               pushes == MessagesOf(Tail(queue), {"push"})
           IN  /\ Head(queue).op # "push" =>
                    /\ m \in Waiting /\ Waiting \ {m} \subseteq rest /\ rest \subseteq Waiting
                    /\ pushes = Pending
               /\ Head(queue).op = "push" =>
                    /\ m \in Pending /\ Pending \ {m} \subseteq pushes /\ pushes \subseteq Pending
                    /\ rest = Waiting
<1>1. queue \in Seq(Task) /\ Head(queue).op \in {"send", "notify", "push"}
  BY RunType DEF TypeOK, Task
<1>2. /\ Waiting = MessagesOf(Tail(queue), {"send", "notify"})
                   \cup (IF Head(queue).op \in {"send", "notify"}
                         THEN {Head(queue).msg} ELSE {})
      /\ Pending = MessagesOf(Tail(queue), {"push"})
                   \cup (IF Head(queue).op \in {"push"} THEN {Head(queue).msg} ELSE {})
  BY <1>1, TailMessages DEF Waiting, Pending
<1> QED
  BY <1>1, <1>2

LEMMA HeadRun ==
    ASSUME TypeOK, NEW o, Run(o)
    PROVE  /\ o # "push" => Abstract!Taken(Head(queue).msg) /\ Pending' = Pending
           /\ o = "push" => Abstract!Pushed(Head(queue).msg) /\ Waiting' = Waiting
<1>1. /\ queue # <<>> /\ Head(queue).op = o
      /\ Waiting' = MessagesOf(Tail(queue), {"send", "notify"})
      /\ Pending' = MessagesOf(Tail(queue), {"push"})
  BY DEF Run, Waiting, Pending
<1> QED
  BY <1>1, HeadTaken DEF Abstract!Taken, Abstract!Pushed

(* What a send reaches is present.                                          *)
LEMMA SendShows ==
    ASSUME NEW m, NEW ds \in SUBSET Device, Reaches(m, ds)
    PROVE  Abstract!Show(m, ds)
  BY WhoIsHere DEF Reaches, Abstract!Show

(* A message that is stored is due a second time to the devices that are    *)
(* still to query its box.                                                  *)
LEMMA StoringKeeps ==
    ASSUME TypeOK, NEW m \in Message, stored' = stored \cup {m},
           UNCHANGED <<phase, sock, replay, batch, since>>
    PROVE  Abstract!Keep(m)
<1> DEFINE again == {d \in Live : m.box \in replay[d] /\ m.time > since[d]}
<1>1. again \in SUBSET Abstract!Here /\ Live' = Live
  BY WhoIsHere DEF Live
<1>2. ASSUME NEW d \in Device
      PROVE  Due'[d] = IF d \in again THEN Due[d] \cup {m} ELSE Due[d]
  BY <1>1, DueOf DEF Due, Served, Live
<1>3. Due' = [d \in Device |-> IF d \in again THEN Due[d] \cup {m} ELSE Due[d]]
  BY <1>2 DEF Due
<1> QED
  BY <1>1, <1>3 DEF Abstract!Keep

(* A broadcast: published, or not stored, or stopped half way, or refused.  *)
LEMMA SendStep ==
    ASSUME TypeOK, ReplayInv, NoticesInInbox, SendTask
    PROVE  Abstract!Next
<1> DEFINE m == Head(queue).msg
<1>1. /\ UNCHANGED <<now, cut, groups, left, phase, sock, replay, batch, since, broken>>
      /\ Run("send") /\ queue # <<>> /\ Head(queue).op = "send"
  BY Same DEF SendTask, Run
<1>2. m \in Message /\ Abstract!Taken(m) /\ Pending' = Pending
  BY <1>1, HeadRun, RunType
<1>3. m \in Waiting /\ m.box # Inbox
  <2>1. 1 \in DOMAIN queue /\ queue[1] = Head(queue)
    BY <1>1 DEF TypeOK
  <2> QED
    BY <1>1, <1>2, <2>1 DEF NoticesInInbox, Abstract!Taken
<1>4. UNCHANGED <<Place, Stuck>> /\ (UNCHANGED stored => UNCHANGED Due)
  BY <1>1, SameDevices
<1> HIDE DEF m
<1>5. SUFFICES Abstract!Publish(m) \/ Abstract!Flash(m) \/ Abstract!Drop(m)
  BY <1>1, <1>3, <1>4 DEF Abstract!Next, Abstract!MessageStep
<1>6. ASSUME m.box \in groups, NEW ds \in SUBSET Device, Reaches(m, ds), UNCHANGED stored
      PROVE  Abstract!Flash(m)
  BY <1>1, <1>2, <1>3, <1>4, <1>6, SendShows DEF Abstract!Flash
<1>7. ASSUME m.box \in groups, NEW ds \in SUBSET Device, Audience(m) \subseteq ds,
             Reaches(m, ds), stored' = stored \cup {m}
      PROVE  Abstract!Publish(m)
  <2>1. Abstract!Keep(m)
    BY <1>1, <1>2, <1>7, StoringKeeps
  <2>2. ASSUME NEW d \in Live
        PROVE  d \in Audience(m)
    BY <1>7, <2>2 DEF Audience, Live, ReplayInv
  <2>3. Abstract!Here \subseteq ds
    BY <1>7, <2>2, WhoIsHere
  <2> QED
    BY <1>1, <1>2, <1>3, <1>7, <2>1, <2>3, SendShows DEF Abstract!Publish
<1>8. ASSUME UNCHANGED <<shown, stored>>
      PROVE  Abstract!Drop(m)
  BY <1>1, <1>2, <1>3, <1>4, <1>8 DEF Abstract!Drop
<1> QED
  BY <1>6, <1>7, <1>8 DEF SendTask, ReplayInv, m

(* A notification is stored and left to a push.                             *)
LEMMA NotifyTaskStep ==
    ASSUME TypeOK, NoticesInInbox, NotifyTask
    PROVE  Abstract!Next
<1> DEFINE m == Head(queue).msg
           t == [op |-> "push", msg |-> m]
<1>1. /\ UNCHANGED <<now, cut, groups, left, shown, phase, sock, replay, batch, since, broken>>
      /\ queue # <<>> /\ Head(queue).op = "notify" /\ queue' = Append(Tail(queue), t)
      /\ stored' = stored \cup {m}
  BY Same DEF NotifyTask
<1>2. /\ m \in Message /\ Tail(queue) \in Seq(Task)
      /\ t \in Task /\ t.op = "push" /\ t.msg = m
  BY <1>1, RunType DEF Task
<1>3. m.box = Inbox
  <2>1. 1 \in DOMAIN queue /\ queue[1] = Head(queue)
    BY <1>1 DEF TypeOK
  <2> QED
    BY <1>1, <2>1 DEF NoticesInInbox
<1> HIDE DEF t
<1>4. /\ Waiting' = MessagesOf(Append(Tail(queue), t), {"send", "notify"})
      /\ Pending' = MessagesOf(Append(Tail(queue), t), {"push"})
  BY <1>1 DEF Waiting, Pending
<1>5. /\ Waiting' = MessagesOf(Tail(queue), {"send", "notify"})
      /\ Pending' = MessagesOf(Tail(queue), {"push"}) \cup {m}
  <2>1. t.op \in {"push"} /\ t.op \notin {"send", "notify"}
    BY <1>2
  <2>2. /\ MessagesOf(Append(Tail(queue), t), {"send", "notify"})
              = MessagesOf(Tail(queue), {"send", "notify"}) \cup {}
        /\ MessagesOf(Append(Tail(queue), t), {"push"})
              = MessagesOf(Tail(queue), {"push"}) \cup {t.msg}
    BY <1>2, <2>1, AppendMessages
  <2> QED
    BY <1>2, <1>4, <2>2
<1>6. Abstract!Taken(m) /\ Pending' = Pending \cup {m}
  BY <1>1, <1>5, HeadTaken DEF Abstract!Taken
<1>7. Abstract!Keep(m)
  BY <1>1, <1>2, StoringKeeps
<1>8. UNCHANGED <<Place, Stuck>>
  BY <1>1, SameDevices
<1> HIDE DEF m
<1>9. Abstract!Post(m)
  BY <1>1, <1>3, <1>6, <1>7 DEF Abstract!Post
<1> QED
  BY <1>1, <1>6, <1>8, <1>9 DEF Abstract!Next, Abstract!MessageStep, Abstract!Taken

(* It is pushed to all that are here, or the push stops half way.           *)
LEMMA PushStep ==
    ASSUME TypeOK, PushTask
    PROVE  Abstract!Next
<1> DEFINE m == Head(queue).msg
<1>1. /\ UNCHANGED <<now, stored, groups, left, phase, sock, replay, batch, since, broken>>
      /\ Run("push")
  BY Same DEF PushTask
<1>2. Abstract!Pushed(m) /\ Waiting' = Waiting
  BY <1>1, HeadRun
<1>3. UNCHANGED <<Place, Stuck, Due>>
  BY <1>1, SameDevices
<1> HIDE DEF m
<1>4. SUFFICES Abstract!Push(m) \/ Abstract!Fail(m)
  BY <1>1, <1>2, <1>3 DEF Abstract!Next, Abstract!MessageStep, Abstract!Pushed
<1>5. ASSUME NEW ds \in SUBSET Device, Live \subseteq ds, Reaches(m, ds), UNCHANGED cut
      PROVE  Abstract!Push(m)
  BY <1>1, <1>2, <1>3, <1>5, SendShows, WhoIsHere DEF Abstract!Push
<1>6. ASSUME NEW ds \in SUBSET Device, Reaches(m, ds), cut' = cut \cup {m}
      PROVE  Abstract!Fail(m)
  BY <1>1, <1>2, <1>3, <1>6, SendShows DEF Abstract!Fail
<1> QED
  BY <1>5, <1>6 DEF PushTask, m

(* A step of a device that leaves the messages alone.                       *)
LEMMA DeviceStepOf ==
    ASSUME NEW d \in Device, UNCHANGED <<now, queue, stored, cut, groups>>,
           \/ Abstract!Arrive(d) \/ Abstract!Come(d) \/ Abstract!Break(d)
           \/ Abstract!Lose(d) \/ Abstract!Leave(d)
           \/ \E m \in Due[d] : Abstract!Deliver(d, m)
    PROVE  Abstract!Next
<1>1. UNCHANGED <<now, groups \cup {Inbox}, Abstract!messageVars>>
  BY SameQueue DEF Abstract!messageVars
<1> QED
  BY <1>1 DEF Abstract!Next, Abstract!DeviceStep

(* A step that is not seen from outside.                                    *)
LEMMA Unseen ==
    ASSUME UNCHANGED <<now, queue, stored, cut, groups, left, shown, Place, Due, Stuck>>
    PROVE  UNCHANGED Abstract!mailboxVars
  BY SameQueue DEF Abstract!mailboxVars, Abstract!messageVars, Abstract!deviceVars

(* A device with a token is registered and its socket opened.               *)
LEMMA ArriveStep ==
    ASSUME TypeOK, NEW d \in Device,
           ConnectBelowLimit(d) \/ EvictDone(d) \/ ConnectVictimShut(d)
    PROVE  Abstract!Next
<1>1. /\ UNCHANGED <<now, queue, stored, cut, groups, left, shown, replay, batch, since,
                     broken>>
      /\ phase[d] \in {"holding", "evicting"}
      /\ phase' = [phase EXCEPT ![d] = "accepting"] /\ sock' = [sock EXCEPT ![d] = TRUE]
  BY Same DEF ConnectBelowLimit, EvictDone, ConnectVictimShut, Register
<1>2. UNCHANGED <<Due, Stuck>>
  <2>1. \A e \in Device : Served(e)' = Served(e)
    BY <1>1 DEF Served, TypeOK
  <2> QED
    BY <1>1, <2>1 DEF Due, Stuck
<1>3. Place[d] = "away" /\ Place' = [Place EXCEPT ![d] = "coming"]
  BY <1>1 DEF Place, TypeOK
<1>4. Abstract!Arrive(d)
  BY <1>1, <1>2, <1>3 DEF Abstract!Arrive
<1> QED
  BY <1>1, <1>4, DeviceStepOf

(* A socket is lost, or closed to make room.                                *)
LEMMA ShutLoses ==
    ASSUME TypeOK, NEW v \in Listed, sock[v], sock' = [sock EXCEPT ![v] = FALSE],
           \A e \in Device : \/ phase'[e] = phase[e]
                             \/ phase[e] = "holding" /\ phase'[e] = "evicting",
           UNCHANGED <<now, queue, stored, cut, groups, left, shown, replay, batch, since,
                       broken>>
    PROVE  Abstract!Next
<1>1. v \in Device /\ v \in Abstract!Present
  BY WhoIsHere DEF Listed
<1>2. \A e \in Device : Served(e)' <=> Served(e) /\ e # v
  BY DEF Served, TypeOK
<1>3. Due' = [Due EXCEPT ![v] = {}] /\ Stuck' = [Stuck EXCEPT ![v] = FALSE]
  BY <1>1, <1>2 DEF Due, Stuck
<1>4. Place' = [Place EXCEPT ![v] = "lost"]
  BY <1>1 DEF Place, Listed, TypeOK
<1>5. Abstract!Lose(v)
  BY <1>1, <1>3, <1>4 DEF Abstract!Lose
<1> QED
  BY <1>1, <1>5, DeviceStepOf

LEMMA LoseStep ==
    ASSUME TypeOK, NEW d \in Device, SocketLost(d) \/ ConnectEvicting(d)
    PROVE  Abstract!Next
<1>1. UNCHANGED <<now, queue, stored, cut, groups, left, shown, replay, batch, since,
                  broken>>
  BY Same DEF SocketLost, ConnectEvicting
<1>2. CASE SocketLost(d)
  BY <1>1, <1>2, ShutLoses DEF SocketLost, Listed
<1>3. CASE ConnectEvicting(d)
  <2>1. PICK v \in Listed : sock[v] /\ sock' = [sock EXCEPT ![v] = FALSE]
    BY <1>3 DEF ConnectEvicting
  <2>2. phase[d] = "holding" /\ phase' = [phase EXCEPT ![d] = "evicting"]
    BY <1>3 DEF ConnectEvicting
  <2> QED
    BY <1>1, <2>1, <2>2, ShutLoses DEF TypeOK
<1> QED
  BY <1>2, <1>3

(* A device that is accepted is due what it has missed: its replay starts   *)
(* no later than it left, or at the window.                                 *)
LEMMA StartIsEarly ==
    ASSUME TypeOK, StampInv, NEW d \in Device, NEW m \in stored,
           m.time > left[d], m.time > now - Window
    PROVE  m.time > Start(d)
<1>1. /\ m.time \in Nat /\ m.time > 0 /\ now \in Nat /\ Window \in Nat
      /\ left[d] \in Nat /\ lastSeen[d] \in Nat /\ lastSeen[d] <= left[d]
  BY LimitsAssumption DEF TypeOK, Stamps, Message, StampInv
<1> QED
  BY <1>1 DEF Start, Later

LEMMA AcceptedStep ==
    ASSUME TypeOK, StampInv, ReadInv, NEW d \in Device, Accepted(d)
    PROVE  Abstract!Next \/ UNCHANGED Abstract!mailboxVars
<1> DEFINE old == {m \in stored : m.box \in groups \cup {Inbox} /\ m.time > Start(d)}
<1>1. /\ UNCHANGED <<now, queue, stored, cut, groups, left, shown, batch, broken, sock>>
      /\ phase[d] = "accepting" /\ phase' = [phase EXCEPT ![d] = "live"]
      /\ since' = [since EXCEPT ![d] = Start(d)]
      /\ replay' = [replay EXCEPT ![d] = groups \cup {Inbox}]
  BY Same DEF Accepted
<1>2. batch[d] = {} /\ ~broken[d]
  BY <1>1 DEF ReadInv, IdleInv
<1>3. \A e \in Device \ {d} : /\ Served(e)' = Served(e) /\ since'[e] = since[e]
                             /\ replay'[e] = replay[e]
  BY <1>1 DEF Served, TypeOK, Stamps
<1>4. ~Served(d) /\ (Served(d)' <=> sock[d])
  BY <1>1 DEF Served, TypeOK
<1>5. Stuck' = Stuck
  BY <1>1, <1>2, <1>3, <1>4 DEF Stuck
<1>6. CASE sock[d]
  <2>1. Place[d] = "coming" /\ Place' = [Place EXCEPT ![d] = "here"]
    BY <1>1, <1>6 DEF Place, TypeOK
  <2>2. Due' = [Due EXCEPT ![d] = old]
    <3>1. since'[d] = Start(d) /\ replay'[d] = groups \cup {Inbox}
      BY <1>1 DEF TypeOK, Stamps
    <3>2. Due'[d] = old
      BY <1>1, <1>2, <1>4, <1>6, <3>1 DEF Due
    <3>3. \A e \in Device \ {d} : Due'[e] = Due[e]
      BY <1>1, <1>3 DEF Due
    <3> QED
      BY <3>2, <3>3 DEF Due
  <2>3. old \in SUBSET Abstract!Available
    BY DEF Abstract!Available
  <2>4. Abstract!Missed(d) \subseteq old
    BY StartIsEarly DEF Abstract!Missed
  <2> HIDE DEF old
  <2>5. Abstract!Come(d)
    BY <1>1, <1>5, <2>1, <2>2, <2>3, <2>4 DEF Abstract!Come
  <2> QED
    BY <1>1, <2>5, DeviceStepOf
<1>7. CASE ~sock[d]
  <2>1. Place' = Place
    BY <1>1, <1>7 DEF Place, TypeOK
  <2>2. Due' = Due
    BY <1>1, <1>3, <1>4, <1>7 DEF Due
  <2> QED
    BY <1>1, <1>5, <2>1, <2>2, Unseen
<1> QED
  BY <1>6, <1>7

(* A query only moves what a device is due from the store to the replay.    *)
LEMMA QueryKeepsDue ==
    ASSUME TypeOK, NEW d \in Device, NEW b \in replay[d], Queried(d, {b}),
           batch' = [batch EXCEPT ![d] = @ \cup Newer(d, b)],
           UNCHANGED <<stored, phase, sock>>
    PROVE  Due' = Due
<1>1. \A e \in Device \ {d} : /\ replay'[e] = replay[e] /\ since'[e] = since[e]
                             /\ batch'[e] = batch[e]
  BY DEF Queried, TypeOK, Stamps
<1>2. /\ replay'[d] = replay[d] \ {b} /\ batch'[d] = batch[d] \cup Newer(d, b)
      /\ replay'[d] # {} => since'[d] = since[d]
  BY DEF Queried, TypeOK, Stamps
<1>3. batch'[d] \cup {m \in stored : m.box \in replay'[d] /\ m.time > since'[d]}
        = batch[d] \cup {m \in stored : m.box \in replay[d] /\ m.time > since[d]}
  <2>1. {m \in stored : m.box \in replay'[d] /\ m.time > since'[d]}
          = {m \in stored : m.box \in replay[d] \ {b} /\ m.time > since[d]}
    BY <1>2
  <2> QED
    BY <1>2, <2>1 DEF Newer
<1>4. \A e \in Device : Served(e)' = Served(e)
  BY DEF Served
<1>5. Due'[d] = Due[d]
  BY <1>3, <1>4 DEF Due
<1>6. \A e \in Device \ {d} : Due'[e] = Due[e]
  BY <1>1, <1>4 DEF Due
<1> QED
  BY <1>5, <1>6 DEF Due

LEMMA QueryStep ==
    ASSUME TypeOK, NEW d \in Device, QueryInbox(d) \/ \E g \in Group : QueryGroup(d, g)
    PROVE  UNCHANGED Abstract!mailboxVars
<1>1. UNCHANGED <<now, queue, stored, cut, groups, left, shown, phase, sock, broken>>
  BY Same DEF QueryInbox, QueryGroup
<1>2. Due' = Due
  BY <1>1, QueryKeepsDue DEF QueryInbox, QueryGroup
<1> QED
  BY <1>1, <1>2, SameDevices, Unseen

(* A dissolved group takes from a replay all that is not a notification.    *)
LEMMA BreakStep ==
    ASSUME TypeOK, ReplayInv, NEW d \in Device, NEW g \in Group, QueryKeyError(d, g)
    PROVE  Abstract!Next \/ UNCHANGED Abstract!mailboxVars
<1>1. /\ UNCHANGED <<now, queue, stored, cut, groups, left, shown, phase, sock, batch>>
      /\ phase[d] = "live" /\ g \notin groups /\ g # Inbox
      /\ broken' = [broken EXCEPT ![d] = TRUE]
  BY Same, InboxAssumption DEF QueryKeyError, ReplayInv
<1>2. Place' = Place /\ \A e \in Device : Served(e)' = Served(e)
  BY <1>1 DEF Place, Served
<1>3. \A e \in Device \ {d} : /\ replay'[e] = replay[e] /\ since'[e] = since[e]
                             /\ broken'[e] = broken[e]
  BY <1>1 DEF QueryKeyError, Queried, TypeOK, Stamps
<1>4. CASE sock[d]
  <2>1. Served(d) /\ Place[d] = "here"
    BY <1>1, <1>4 DEF Served, Place
  <2>2. /\ replay'[d] = replay[d] \ Group /\ broken'[d]
        /\ replay'[d] # {} => since'[d] = since[d]
    BY <1>1 DEF QueryKeyError, Queried, TypeOK, Stamps
  <2>3. ASSUME NEW b \in replay[d]
        PROVE  b \in replay'[d] <=> b = Inbox
    BY <2>2, InboxAssumption DEF TypeOK, Box
  <2>4. ASSUME NEW m \in batch[d]
        PROVE  m.box = Inbox
    <3>1. m.box \in Box /\ m.box \notin Group
      BY DEF QueryKeyError, Unsent, TypeOK, Message
    <3> QED
      BY <3>1 DEF Box
  <2>5. Due'[d] = {m \in Due[d] : m.box = Inbox}
    <3>1. Due[d] = batch[d] \cup {m \in stored : m.box \in replay[d] /\ m.time > since[d]}
      BY <2>1 DEF Due
    <3>2. Due'[d] = batch[d] \cup {m \in stored : m.box \in replay'[d] /\ m.time > since'[d]}
      BY <1>1, <1>2, <2>1 DEF Due
    <3>3. {m \in stored : m.box \in replay'[d] /\ m.time > since'[d]}
            = {m \in stored : m.box \in replay[d] /\ m.time > since[d] /\ m.box = Inbox}
      BY <2>2, <2>3
    <3> QED
      BY <2>4, <3>1, <3>2, <3>3
  <2>6. \A e \in Device \ {d} : Due'[e] = Due[e]
    BY <1>1, <1>2, <1>3 DEF Due
  <2>7. Due' = [Due EXCEPT ![d] = {m \in @ : m.box = Inbox}]
    BY <2>5, <2>6 DEF Due
  <2>8. Stuck' = [Stuck EXCEPT ![d] = TRUE]
    BY <1>2, <1>3, <2>1, <2>2 DEF Stuck
  <2>9. groups \cup {Inbox} # Box
    BY <1>1 DEF Box
  <2>10. Abstract!Break(d)
    BY <1>1, <1>2, <2>1, <2>7, <2>8, <2>9 DEF Abstract!Break
  <2> QED
    BY <1>1, <2>10, DeviceStepOf
<1>5. CASE ~sock[d]
  <2>1. ~Served(d)
    BY <1>5 DEF Served
  <2>2. Due' = Due /\ Stuck' = Stuck
    BY <1>1, <1>2, <1>3, <2>1 DEF Due, Stuck
  <2> QED
    BY <1>1, <1>2, <2>2, Unseen
<1> QED
  BY <1>4, <1>5

(* A replay shows a message that is due, and it is due no more.             *)
LEMMA DeliverStep ==
    ASSUME TypeOK, ReadInv, NEW d \in Device, SendReplayed(d)
    PROVE  Abstract!Next
<1>1. /\ UNCHANGED <<now, queue, stored, cut, groups, left, phase, sock, broken, replay,
                     since>>
      /\ Served(d)
  BY Same DEF SendReplayed, Served
<1>2. PICK m \in batch[d] : /\ batch' = [batch EXCEPT ![d] = @ \ {m}]
                            /\ shown' = [shown EXCEPT ![d] = @ \cup {m}]
  BY DEF SendReplayed
<1>3. \A e \in Device : Served(e)' = Served(e)
  BY <1>1 DEF Served
<1>4. m \in Due[d] /\ m.box \notin replay[d]
  BY <1>1, <1>2 DEF Due, ReadInv, ReadOnce
<1>5. Due'[d] = Due[d] \ {m}
  <2>1. batch'[d] = batch[d] \ {m}
    BY <1>2 DEF TypeOK
  <2> QED
    BY <1>1, <1>3, <1>4, <2>1 DEF Due
<1>6. \A e \in Device \ {d} : Due'[e] = Due[e]
  BY <1>1, <1>2, <1>3 DEF Due, TypeOK
<1>7. Due' = [Due EXCEPT ![d] = @ \ {m}]
  BY <1>5, <1>6 DEF Due
<1>8. Place[d] = "here" /\ UNCHANGED <<Place, Stuck>>
  BY <1>1, SameDevices DEF Place, Served
<1>9. Abstract!Deliver(d, m)
  BY <1>1, <1>2, <1>4, <1>7, <1>8 DEF Abstract!Deliver
<1> QED
  BY <1>1, <1>4, <1>9, DeviceStepOf

(* A device is disconnected after it was lost.                              *)
LEMMA LeaveStep ==
    ASSUME TypeOK, NEW d \in Device, Disconnect(d)
    PROVE  Abstract!Next
<1>1. /\ UNCHANGED <<now, queue, stored, cut, groups, sock>>
      /\ phase[d] = "live" /\ ~sock[d] /\ phase' = [phase EXCEPT ![d] = "off"]
      /\ left' = [left EXCEPT ![d] = now] /\ shown' = [shown EXCEPT ![d] = {}]
      /\ EndReplay({d})
  BY Same DEF Disconnect
<1>2. ~Served(d) /\ \A e \in Device : Served(e)' = Served(e)
  BY <1>1 DEF Served, TypeOK
<1>3. \A e \in Device \ {d} : /\ replay'[e] = replay[e] /\ since'[e] = since[e]
                             /\ batch'[e] = batch[e] /\ broken'[e] = broken[e]
  BY <1>1 DEF EndReplay, TypeOK, Stamps
<1>4. Due' = Due /\ Stuck' = Stuck
  BY <1>1, <1>2, <1>3 DEF Due, Stuck
<1>5. Place[d] = "lost" /\ Place' = [Place EXCEPT ![d] = "away"]
  BY <1>1 DEF Place, TypeOK
<1>6. Abstract!Leave(d)
  BY <1>1, <1>4, <1>5 DEF Abstract!Leave
<1> QED
  BY <1>1, <1>6, DeviceStepOf

(* A restart.                                                               *)
LEMMA StopStep ==
    ASSUME Restart
    PROVE  Abstract!Next
<1>1. /\ UNCHANGED <<now, stored, cut, groups, left, shown>> /\ queue' = <<>>
      /\ \A d \in Device : ~Served(d)' /\ phase'[d] \notin {"accepting", "live"}
  BY DEF Restart, Served
<1>2. /\ Place' = [d \in Device |-> "away"] /\ Due' = [d \in Device |-> {}]
      /\ Stuck' = [d \in Device |-> FALSE]
  BY <1>1 DEF Place, Due, Stuck
<1>3. Waiting' = {} /\ Pending' = {}
  BY <1>1 DEF Waiting, Pending, MessagesOf
<1> QED
  BY <1>1, <1>2, <1>3 DEF Abstract!Next, Abstract!Stop

(* A token is asked for and given, the device announced if it is new.       *)
LEMMA TokenStep ==
    ASSUME TypeOK, NEW d \in Device,
           TokenRequested(d) \/ TokenGranted(d) \/ ConnectKeyError(d)
    PROVE  Abstract!Next \/ UNCHANGED Abstract!mailboxVars
<1>1. /\ UNCHANGED <<now, stored, cut, groups, left, shown, sock, replay, batch, since,
                     broken>>
      /\ \A e \in Device \ {d} : phase'[e] = phase[e]
      /\ phase[d] \notin {"accepting", "live"} /\ phase'[d] \notin {"accepting", "live"}
  BY Same DEF TokenRequested, TokenGranted, ConnectKeyError, TypeOK
<1>2. \A e \in Device : Served(e)' = Served(e)
  BY <1>1 DEF Served
<1>3. Place' = Place /\ Due' = Due /\ Stuck' = Stuck
  BY <1>1, <1>2 DEF Place, Due, Stuck
<1>4. CASE UNCHANGED queue
  BY <1>1, <1>3, <1>4, Unseen
<1>5. CASE queue' # queue
  <2>1. sent < MaxSent /\ queue' = Append(queue, [op |-> "notify", msg |-> Stamped(Inbox)])
    BY <1>5, Same DEF TokenRequested, TokenGranted, ConnectKeyError
  <2> QED
    BY <1>1, <1>3, <2>1, WriteStep
<1> QED
  BY <1>4, <1>5

(* At the start everything is away and nothing is due.                      *)
LEMMA InitMailbox ==
    ASSUME Init
    PROVE  Abstract!Init
<1>1. TypeOK /\ now = 2
  BY InitType DEF Init
<1>2. left \in [Device -> 0..now]
  <2>1. left \in Stamps /\ \A d \in Device : left[d] \in {0, 1}
    BY <1>1 DEF Init, TypeOK
  <2> QED
    BY <1>1, <2>1 DEF Stamps
<1>3. \A d \in Device : ~Served(d) /\ phase[d] \notin {"accepting", "live"}
  BY DEF Init, Served
<1>4. /\ Place = [d \in Device |-> "away"] /\ Due = [d \in Device |-> {}]
      /\ Stuck = [d \in Device |-> FALSE]
  BY <1>3 DEF Place, Due, Stuck
<1>5. Waiting = {} /\ Pending = {}
  BY DEF Init, Waiting, Pending, MessagesOf
<1>6. /\ groups \cup {Inbox} = Box /\ cut = {} /\ stored \in SUBSET Message
      /\ shown = [d \in Device |-> {}]
  BY <1>1 DEF Init, Box, TypeOK
<1> QED
  BY <1>1, <1>2, <1>4, <1>5, <1>6 DEF Abstract!Init

(* Every step is a step of the mailbox, or none.                            *)
LEMMA NextMailbox ==
    ASSUME MailboxInv, [Next]_vars
    PROVE  [Abstract!Next]_(Abstract!mailboxVars)
<1>0. TypeOK /\ StampInv /\ ReplayInv /\ NoticesInInbox /\ ReadInv
  BY DEF MailboxInv, DeliveryInv
<1>1. CASE \/ Tick \/ Notify \/ Restart \/ SendTask \/ NotifyTask \/ PushTask
           \/ \E g \in Group : Receive(g) \/ Dissolved(g)
  BY <1>0, <1>1, TickStep, NotifyStep, StopStep, SendStep, NotifyTaskStep, PushStep,
     ReceiveStep, DissolvedStep
<1>2. ASSUME NEW d \in Device, TokenRequested(d) \/ TokenGranted(d) \/ Connect(d)
      PROVE  Abstract!Next \/ UNCHANGED Abstract!mailboxVars
  BY <1>0, <1>2, TokenStep, ArriveStep, LoseStep, AcceptedStep DEF Connect
<1>3. ASSUME NEW d \in Device, ReplayStep(d) \/ SocketLost(d) \/ Disconnect(d)
      PROVE  Abstract!Next \/ UNCHANGED Abstract!mailboxVars
  BY <1>0, <1>3, QueryStep, BreakStep, DeliverStep, LoseStep, LeaveStep DEF ReplayStep
<1>4. CASE UNCHANGED vars
  <2>1. UNCHANGED <<now, queue, stored, cut, groups, left, shown, phase, sock, replay, batch,
                    since, broken>>
    BY <1>4, Same DEF vars
  <2> QED
    BY <2>1, SameDevices, Unseen
<1> QED
  BY <1>1, <1>2, <1>3, <1>4 DEF Next

(* Tokens, stamps, limits, tasks, queries and sockets together keep what a  *)
(* mailbox promises.                                                        *)
THEOREM DeliveryImplementsMailbox == Spec => ImplementsMailbox
<1>1. Init => ReadInv /\ Abstract!Init
  BY InitRead, InitMailbox
<1>2. DeliveryInv /\ ReadInv /\ [Next]_vars => ReadInv'
  BY NextKeepsRead DEF DeliveryInv
<1>3. DeliveryInv /\ ReadInv /\ [Next]_vars => [Abstract!Next]_(Abstract!mailboxVars)
  BY NextMailbox DEF MailboxInv
<1> QED
  BY DeliveryInvHolds, <1>1, <1>2, <1>3, PTL
     DEF Spec, ImplementsMailbox, Abstract!Spec, Abstract!mailboxVars

================================================================================
