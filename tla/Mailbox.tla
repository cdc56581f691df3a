--------------------------------- MODULE Mailbox ---------------------------------
(***************************************************************************)
(* What the delivery of messages promises to the devices of a user, told    *)
(* without stamps, tokens, limits, tasks, queries or sockets.  A message    *)
(* that is stored is shown to every device that is here; a device that      *)
(* comes gets what was stored since it left, back to a window, and maybe    *)
(* more; it is shown what it is due, once, unless it is lost before or a    *)
(* box was closed.  Only a device that was lost leaves.  Delivery           *)
(* implements it.                                                           *)
(***************************************************************************)
EXTENDS Integers

CONSTANTS
    Device,
    Box,        \* where messages are sent to
    Inbox,      \* the box of notifications, which is never closed
    Message,    \* records with a box and a time
    Window

VARIABLES
    now,        \* the time
    open,       \* the boxes that are not closed
    waiting,    \* messages written and not yet dealt with
    stored,     \* messages kept
    pending,    \* notifications kept and not yet shown
    failed,     \* notifications whose showing was given up
    place,      \* where each device is
    left,       \* when it left last
    due,        \* messages it will be shown because it was away
    shown,      \* messages it was shown since it left
    stuck       \* it will not be shown what it is due from the other boxes

messageVars == <<waiting, stored, pending, failed>>
deviceVars == <<place, left, due, shown, stuck>>
mailboxVars == <<now, open, messageVars, deviceVars>>

Here == {d \in Device : place[d] = "here"}
Present == {d \in Device : place[d] \in {"coming", "here"}}

Init ==
    /\ now \in Nat
    /\ open = Box
    /\ waiting = {} /\ pending = {} /\ failed = {}
    /\ stored \in SUBSET Message
    /\ place = [d \in Device |-> "away"]
    /\ left \in [Device -> 0..now]
    /\ due = [d \in Device |-> {}]
    /\ shown = [d \in Device |-> {}]
    /\ stuck = [d \in Device |-> FALSE]

Tick ==
    /\ now' = now + 1
    /\ UNCHANGED <<open, messageVars, deviceVars>>

Close(b) ==
    /\ b \in open \ {Inbox}
    /\ open' = open \ {b}
    /\ UNCHANGED <<now, messageVars, deviceVars>>

--------------------------------------------------------------------------------
(* Messages *)

Write ==
    /\ waiting \subseteq waiting'
    /\ waiting' \in SUBSET Message
    /\ \A m \in waiting' \ waiting : m.time = now /\ m.box \in open
    /\ UNCHANGED <<stored, pending, failed, due, shown>>

(* m is dealt with; another copy of it may remain.                          *)
Taken(m) == m \in waiting /\ waiting \ {m} \subseteq waiting' /\ waiting' \subseteq waiting
Pushed(m) == m \in pending /\ pending \ {m} \subseteq pending' /\ pending' \subseteq pending

Show(m, devices) ==
    /\ devices \subseteq Present
    /\ shown' = [d \in Device |-> IF d \in devices THEN shown[d] \cup {m} ELSE shown[d]]

(* Some devices that are here will be shown m a second time.                *)
Keep(m) ==
    /\ stored' = stored \cup {m}
    /\ \E again \in SUBSET Here :
         due' = [d \in Device |-> IF d \in again THEN due[d] \cup {m} ELSE due[d]]

Publish(m) ==
    /\ Taken(m) /\ m.box \in open \ {Inbox}
    /\ Keep(m)
    /\ \E ds \in SUBSET Device : Here \subseteq ds /\ Show(m, ds)
    /\ UNCHANGED <<pending, failed>>

(* A message that is not kept may be shown to some, or to nobody.           *)
Flash(m) ==
    /\ Taken(m) /\ m.box \in open \ {Inbox}
    /\ \E ds \in SUBSET Device : Show(m, ds)
    /\ UNCHANGED <<stored, pending, failed, due>>

Drop(m) ==
    /\ Taken(m) /\ m.box # Inbox
    /\ UNCHANGED <<stored, pending, failed, due, shown>>

Post(m) ==
    /\ Taken(m) /\ m.box = Inbox
    /\ Keep(m)
    /\ pending' = pending \cup {m}
    /\ UNCHANGED <<failed, shown>>

Push(m) ==
    /\ Pushed(m)
    /\ \E ds \in SUBSET Device : Here \subseteq ds /\ Show(m, ds)
    /\ UNCHANGED <<waiting, stored, failed, due>>

Fail(m) ==
    /\ Pushed(m)
    /\ failed' = failed \cup {m}
    /\ \E ds \in SUBSET Device : Show(m, ds)
    /\ UNCHANGED <<waiting, stored, due>>

--------------------------------------------------------------------------------
(* Devices *)

Arrive(d) ==
    /\ place[d] = "away"
    /\ place' = [place EXCEPT ![d] = "coming"]
    /\ UNCHANGED <<left, due, shown, stuck>>

(* What a device may not miss, and all that it could be shown.              *)
Missed(d) ==
    {m \in stored : m.box \in open /\ m.time > left[d] /\ m.time > now - Window}
Available == {m \in stored : m.box \in open}

Come(d) ==
    /\ place[d] = "coming"
    /\ place' = [place EXCEPT ![d] = "here"]
    /\ \E old \in SUBSET Available :
         /\ Missed(d) \subseteq old
         /\ due' = [due EXCEPT ![d] = old]
    /\ UNCHANGED <<left, shown, stuck>>

Deliver(d, m) ==
    /\ place[d] = "here" /\ m \in due[d]
    /\ due' = [due EXCEPT ![d] = @ \ {m}]
    /\ shown' = [shown EXCEPT ![d] = @ \cup {m}]
    /\ UNCHANGED <<place, left, stuck>>

(* Only after a box was closed does a device that is here lose what it is   *)
(* due, notifications excepted.                                             *)
Break(d) ==
    /\ place[d] = "here" /\ open # Box
    /\ due' = [due EXCEPT ![d] = {m \in @ : m.box = Inbox}]
    /\ stuck' = [stuck EXCEPT ![d] = TRUE]
    /\ UNCHANGED <<place, left, shown>>

Lose(d) ==
    /\ d \in Present
    /\ place' = [place EXCEPT ![d] = "lost"]
    /\ due' = [due EXCEPT ![d] = {}]
    /\ stuck' = [stuck EXCEPT ![d] = FALSE]
    /\ UNCHANGED <<left, shown>>

Leave(d) ==
    /\ place[d] = "lost"
    /\ place' = [place EXCEPT ![d] = "away"]
    /\ left' = [left EXCEPT ![d] = now]
    /\ shown' = [shown EXCEPT ![d] = {}]
    /\ UNCHANGED <<due, stuck>>

(* Nobody is told to have left: all come back to what they have missed.     *)
Stop ==
    /\ place' = [d \in Device |-> "away"]
    /\ due' = [d \in Device |-> {}]
    /\ stuck' = [d \in Device |-> FALSE]
    /\ waiting' = {} /\ pending' = {}
    /\ UNCHANGED <<now, open, stored, failed, left, shown>>

(* A step of a message leaves the devices where they are, a step of a       *)
(* device the messages as they are.                                         *)
MessageStep ==
    /\ UNCHANGED <<now, open, place, left, stuck>>
    /\ \/ Write
       \/ \E m \in waiting : Publish(m) \/ Flash(m) \/ Drop(m) \/ Post(m)
       \/ \E m \in pending : Push(m) \/ Fail(m)

DeviceStep ==
    /\ UNCHANGED <<now, open, messageVars>>
    /\ \E d \in Device :
        \/ Arrive(d) \/ Come(d) \/ Break(d) \/ Lose(d) \/ Leave(d)
        \/ \E m \in due[d] : Deliver(d, m)

Next ==
    \/ MessageStep \/ DeviceStep
    \/ Tick \/ Stop \/ \E b \in Box : Close(b)

Spec == Init /\ [][Next]_mailboxVars

================================================================================
