------------------------ MODULE ConnectionManagerProofs ------------------------
(***************************************************************************)
(* Proofs about ConnectionManager, for any sets of users, devices, groups  *)
(* and connections and any limit.                                           *)
(***************************************************************************)
EXTENDS ConnectionManager, ConnectionIndexProofs, TLAPS

(* The invariant that is inductive: types and the group index on one side,  *)
(* the two tables of devices and the presence key on the other.             *)
TypeInv == TypeOK /\ IndexInv
RegistryInv == RegisteredIsListed /\ EntryHasHandler /\ ListedIsKnown

(* A token names a user and a device.                                       *)
LEMMA SessionFields ==
    ASSUME NEW c \in Conn, TypeInv
    PROVE  /\ UserOf(c) \in User
           /\ DeviceOf(c) \in Device
           /\ sess[c] = [user |-> UserOf(c), device |-> DeviceOf(c)]
  BY DEF TypeInv, TypeOK, Session, UserOf, DeviceOf

--------------------------------------------------------------------------------
(* Types and the group index *)

(* Registering a connection keeps the types and the index.                  *)
LEMMA RegisterKeepsType ==
    ASSUME NEW c \in Conn, NEW dev \in [Device -> Conn \cup {NoConn}], TypeInv,
           Register(c, dev), UNCHANGED <<sess, victim, sock, lastSeen>>,
           crossed' \subseteq Conn
    PROVE  TypeInv'
<1>1. UserOf(c) \in User /\ DeviceOf(c) \in Device
  BY SessionFields
<1>2. IndexInv'
  BY <1>1, TouchKeepsIndex DEF TypeInv, Register
<1>3. TypeOK'
  BY <1>1, <1>2 DEF TypeInv, TypeOK, IndexInv, Register, Phase
<1> QED
  BY <1>2, <1>3 DEF TypeInv

(* The cleanup of disconnectUser keeps the types and the index.             *)
LEMMA CleanupKeepsType ==
    ASSUME NEW c \in Conn, TypeInv, Cleanup(c), UNCHANGED <<sess, victim, sock, crossed>>
    PROVE  TypeInv'
<1>1. UserOf(c) \in User /\ DeviceOf(c) \in Device
  BY SessionFields
<1>2. IndexInv'
  <2>1. CASE users[UserOf(c)] \subseteq {DeviceOf(c)}
    BY <2>1, <1>1, ForgetKeepsIndex DEF TypeInv, Cleanup
  <2>2. CASE ~(users[UserOf(c)] \subseteq {DeviceOf(c)})
    BY <2>2, <1>1, TouchKeepsIndex DEF TypeInv, Cleanup
  <2> QED
    BY <2>1, <2>2
<1>3. TypeOK'
  BY <1>1, <1>2 DEF TypeInv, TypeOK, IndexInv, Cleanup, Phase
<1> QED
  BY <1>2, <1>3 DEF TypeInv

(* A step that leaves the index alone and moves one handler or one socket.  *)
LEMMA LocalKeepsType ==
    ASSUME TypeInv, UNCHANGED <<indexVars, users, device, sess, lastSeen>>,
           pc' \in [Conn -> Phase], victim' \in [Conn -> Device],
           sock' \in [Conn -> {"open", "gone", "closed"}], crossed' \subseteq Conn
    PROVE  TypeInv'
  BY DEF TypeInv, TypeOK, IndexInv, IndexType, IndexesAgree, AbsentItemEmpty,
         indexVars

(* A call made on the index leaves the connections alone.                   *)
LEMMA ServiceKeepsType ==
    ASSUME TypeInv, ServiceCall
    PROVE  TypeInv'
<1>1. UNCHANGED connVars
  BY DEF ServiceCall, Joined, RemovedFromGroup, GroupDeleted, BanUpdated,
         SendingSystemMessage, SendingGroupMessage
<1>2. IndexInv
  BY DEF TypeInv
<1>3. IndexInv'
  <2>1. ASSUME NEW u \in User, NEW g \in Group, Joined(u, g)
        PROVE  IndexInv'
    BY <1>2, <2>1, JoinKeepsIndex DEF Joined
  <2>2. ASSUME NEW u \in User, NEW g \in Group, RemovedFromGroup(u, g)
        PROVE  IndexInv'
    BY <1>2, <2>2, RemoveKeepsIndex DEF RemovedFromGroup
  <2>3. ASSUME NEW g \in Group, GroupDeleted(g)
        PROVE  IndexInv'
    BY <1>2, <2>3, DropGroupKeepsIndex DEF GroupDeleted
  <2>4. ASSUME NEW g \in Group, BanUpdated(g)
        PROVE  IndexInv'
    BY <1>2, <2>4, NewItemKeepsIndex DEF BanUpdated
  <2>5. ASSUME NEW u \in User, SendingSystemMessage(u)
        PROVE  IndexInv'
    BY <1>2, <2>5, TouchKeepsIndex DEF SendingSystemMessage
  <2>6. ASSUME NEW u \in User, NEW g \in Group, SendingGroupMessage(u, g)
        PROVE  IndexInv'
    <3>1. PICK reached \in SUBSET onlineUsers[g] : TouchUsers(reached)
      BY <2>6 DEF SendingGroupMessage
    <3>2. reached \in SUBSET User
      BY <1>2, <3>1 DEF IndexInv, IndexType
    <3> QED
      BY <1>2, <3>1, <3>2, TouchKeepsIndex
  <2> QED
    BY <2>1, <2>2, <2>3, <2>4, <2>5, <2>6 DEF ServiceCall
<1>4. TypeOK'
  BY <1>1, <1>3 DEF TypeInv, TypeOK, IndexInv, connVars
<1> QED
  BY <1>3, <1>4 DEF TypeInv

(* The history holds connections only.                                      *)
LEMMA MeetKeepsType ==
    ASSUME NEW c \in Conn, TypeInv, Meet(c)
    PROVE  crossed' \subseteq Conn
  BY DEF TypeInv, TypeOK, Meet, Others

(* Every step keeps the types and the index in agreement.                   *)
LEMMA NextKeepsType ==
    ASSUME TypeInv, [Next]_vars
    PROVE  TypeInv'
<1> USE DEF Phase
<1>1. ASSUME NEW c \in Conn, ConnectBelowLimit(c)
      PROVE  TypeInv'
  BY <1>1, RegisterKeepsType, MeetKeepsType DEF ConnectBelowLimit, TypeInv, TypeOK
<1>2. ASSUME NEW c \in Conn, ConnectEvicting(c)
      PROVE  TypeInv'
  <2>1. PICK d \in users[UserOf(c)] :
            /\ device[d] # NoConn
            /\ sock' = [sock EXCEPT ![device[d]] = "closed"]
            /\ victim' = [victim EXCEPT ![c] = d]
    BY <1>2 DEF ConnectEvicting
  <2>2. d \in Device /\ device[d] \in Conn
    BY <2>1, SessionFields DEF TypeInv, TypeOK
  <2> QED
    BY <1>2, <2>1, <2>2, MeetKeepsType, LocalKeepsType DEF ConnectEvicting, TypeInv, TypeOK
<1>3. ASSUME NEW c \in Conn, ConnectVictimShut(c)
      PROVE  TypeInv'
  BY <1>3, RegisterKeepsType, MeetKeepsType DEF ConnectVictimShut, TypeInv, TypeOK
<1>4. ASSUME NEW c \in Conn, ConnectKeyError(c)
      PROVE  TypeInv'
  BY <1>4, LocalKeepsType DEF ConnectKeyError, TypeInv, TypeOK
<1>5. ASSUME NEW c \in Conn, EvictDone(c)
      PROVE  TypeInv'
  BY <1>5, RegisterKeepsType DEF EvictDone, TypeInv, TypeOK
<1>6. ASSUME NEW c \in Conn, Accepted(c)
      PROVE  TypeInv'
  <2>1. PICK gs \in SUBSET Group : UserConnectToGroupItems(UserOf(c), gs)
    BY <1>6 DEF Accepted
  <2>2. known' \subseteq User
    BY <1>6 DEF Accepted, TypeInv, TypeOK, IndexType
  <2>3. IndexInv'
    BY <2>1, <2>2, SessionFields, ConnectKeepsIndex DEF TypeInv
  <2> QED
    BY <1>6, <2>3 DEF Accepted, TypeInv, TypeOK, IndexInv
<1>7. ASSUME NEW c \in Conn, ConnectError(c)
      PROVE  TypeInv'
  BY <1>7, LocalKeepsType DEF ConnectError, TypeInv, TypeOK
<1>8. ASSUME NEW c \in Conn, ClientCloses(c)
      PROVE  TypeInv'
  BY <1>8, LocalKeepsType DEF ClientCloses, TypeInv, TypeOK
<1>9. ASSUME NEW c \in Conn, HandlerError(c)
      PROVE  TypeInv'
  BY <1>9, LocalKeepsType DEF HandlerError, TypeInv, TypeOK
<1>10. ASSUME NEW c \in Conn, DisconnectClosing(c)
       PROVE  TypeInv'
  BY <1>10, SessionFields, LocalKeepsType DEF DisconnectClosing, TypeInv, TypeOK
<1>11. ASSUME NEW c \in Conn, DisconnectAtOnce(c)
       PROVE  TypeInv'
  BY <1>11, CleanupKeepsType DEF DisconnectAtOnce
<1>12. ASSUME NEW c \in Conn, CloseDone(c)
       PROVE  TypeInv'
  BY <1>12, CleanupKeepsType DEF CloseDone
<1>13. CASE UNCHANGED vars
  BY <1>13, LocalKeepsType DEF vars, connVars, TypeInv, TypeOK
<1> QED
  BY <1>1, <1>2, <1>3, <1>4, <1>5, <1>6, <1>7, <1>8, <1>9, <1>10, <1>11, <1>12,
     <1>13, ServiceKeepsType DEF Next, Connect, HandlerStep

(* The initial tables are typed and agree.                                  *)
LEMMA InitType == Init => TypeInv
<1> SUFFICES ASSUME Init PROVE TypeInv
  OBVIOUS
<1>1. IndexInv
  BY InitIndex DEF Init
<1>2. TypeOK
  BY <1>1 DEF Init, TypeOK, IndexInv, Phase, Session, DeviceOf
<1> QED
  BY <1>1, <1>2 DEF TypeInv

(* The variables keep their types in every behaviour.                       *)
THEOREM TypeCorrect == Spec => []TypeOK
<1>1. TypeInv /\ [Next]_vars => TypeInv'
  BY NextKeepsType
<1>2. TypeInv => TypeOK
  BY DEF TypeInv
<1> QED
  BY InitType, <1>1, <1>2, PTL DEF Spec

(* The two tables of the group index agree in every behaviour, so the       *)
(* unchecked lookups of _groups made after reading _userGroups succeed.     *)
THEOREM IndexesAlwaysAgree == Spec => []IndexesAgree
<1>1. TypeInv /\ [Next]_vars => TypeInv'
  BY NextKeepsType
<1>2. TypeInv => IndexesAgree
  BY DEF TypeInv, IndexInv
<1> QED
  BY InitType, <1>1, <1>2, PTL DEF Spec

--------------------------------------------------------------------------------
(* The registry of devices *)

(* A step that leaves both tables of devices alone, forgets no user and     *)
(* takes no handler out of the registry.                                    *)
LEMMA FrameKeepsRegistry ==
    ASSUME TypeInv, RegistryInv, UNCHANGED <<users, device, sess>>,
           known \subseteq known',
           \A c \in Conn : InRegistry(c) => InRegistry(c)'
    PROVE  RegistryInv'
  BY DEF TypeInv, TypeOK, RegistryInv, RegisteredIsListed, EntryHasHandler,
         ListedIsKnown, UserOf, DeviceOf

(* Registering a connection, when at most some key of _device was dropped.  *)
LEMMA RegisterKeepsRegistry ==
    ASSUME NEW c \in Conn, NEW dev \in [Device -> Conn \cup {NoConn}],
           TypeInv, RegistryInv, Register(c, dev), UNCHANGED sess,
           \A d \in Device : dev[d] = device[d] \/ dev[d] = NoConn
    PROVE  RegistryInv'
<1> DEFINE u == UserOf(c)
           d == DeviceOf(c)
<1>1. u \in User /\ d \in Device /\ sess[c] = [user |-> u, device |-> d]
  BY SessionFields
<1>2. \A x \in Conn : UserOf(x)' = UserOf(x) /\ DeviceOf(x)' = DeviceOf(x)
  BY DEF UserOf, DeviceOf
<1>3. \A x \in Conn : InRegistry(x) \/ x = c => InRegistry(x)'
  BY DEF InRegistry, Register, TypeInv, TypeOK
<1>4. \A v \in User : users'[v] = IF v = u THEN users[v] \cup {d} ELSE users[v]
  BY DEF Register, TypeInv, TypeOK
<1>5. \A e \in Device : device'[e] = IF e = d THEN c ELSE dev[e]
  BY DEF Register
<1>6. RegisteredIsListed'
  <2> SUFFICES ASSUME NEW e \in Device, NEW x \in Conn, device'[e] = x
               PROVE  /\ DeviceOf(x) = e
                      /\ e \in users'[UserOf(x)]
                      /\ InRegistry(x)'
    BY <1>2 DEF RegisteredIsListed
  <2>1. CASE e = d
    BY <2>1, <1>1, <1>3, <1>4, <1>5
  <2>2. CASE e # d
    <3>1. device[e] = x
      BY <2>2, <1>5, NoConnAssumption
    <3>2. DeviceOf(x) = e /\ e \in users[UserOf(x)] /\ InRegistry(x)
      BY <3>1 DEF RegistryInv, RegisteredIsListed
    <3>3. UserOf(x) \in User
      BY SessionFields
    <3> QED
      BY <3>2, <3>3, <1>3, <1>4
  <2> QED
    BY <2>1, <2>2
<1>7. EntryHasHandler'
  <2> SUFFICES ASSUME NEW v \in User, NEW e \in Device, e \in users'[v]
               PROVE  \E x \in Conn : /\ sess[x] = [user |-> v, device |-> e]
                                      /\ InRegistry(x)'
    BY DEF EntryHasHandler
  <2>1. CASE e \in users[v]
    BY <2>1, <1>3 DEF RegistryInv, EntryHasHandler
  <2>2. CASE e \notin users[v]
    BY <2>2, <1>1, <1>3, <1>4
  <2> QED
    BY <2>1, <2>2
<1>8. ListedIsKnown'
  BY <1>4 DEF RegistryInv, ListedIsKnown, Register, TouchUsers
<1> QED
  BY <1>6, <1>7, <1>8 DEF RegistryInv

(* The cleanup takes a device out of both tables.                           *)
LEMMA CleanupKeepsRegistry ==
    ASSUME NEW c \in Conn, TypeInv, RegistryInv, Cleanup(c), UNCHANGED sess
    PROVE  RegistryInv'
<1> DEFINE u == UserOf(c)
           d == DeviceOf(c)
<1>1. u \in User /\ d \in Device /\ sess[c] = [user |-> u, device |-> d]
  BY SessionFields
<1>2. \A x \in Conn : UserOf(x)' = UserOf(x) /\ DeviceOf(x)' = DeviceOf(x)
  BY DEF UserOf, DeviceOf
<1>3. \A x \in Conn : InRegistry(x) /\ x # c => InRegistry(x)'
  BY DEF InRegistry, Cleanup, TypeInv, TypeOK
<1>4. \A v \in User : users'[v] = IF v = u THEN users[v] \ {d} ELSE users[v]
  BY DEF Cleanup, TypeInv, TypeOK
<1>5. \A e \in Device : device'[e] = IF e = d THEN NoConn ELSE device[e]
  BY DEF Cleanup, TypeInv, TypeOK
<1>6. RegisteredIsListed'
  <2> SUFFICES ASSUME NEW e \in Device, NEW x \in Conn, device'[e] = x
               PROVE  /\ DeviceOf(x) = e
                      /\ e \in users'[UserOf(x)]
                      /\ InRegistry(x)'
    BY <1>2 DEF RegisteredIsListed
  <2>1. e # d /\ device[e] = x
    BY <1>5, NoConnAssumption
  <2>2. DeviceOf(x) = e /\ e \in users[UserOf(x)] /\ InRegistry(x)
    BY <2>1 DEF RegistryInv, RegisteredIsListed
  <2>3. UserOf(x) \in User /\ x # c
    BY <2>1, <2>2, SessionFields
  <2> QED
    BY <2>1, <2>2, <2>3, <1>3, <1>4
<1>7. EntryHasHandler'
  <2> SUFFICES ASSUME NEW v \in User, NEW e \in Device, e \in users'[v]
               PROVE  \E x \in Conn : /\ sess[x] = [user |-> v, device |-> e]
                                      /\ InRegistry(x)'
    BY DEF EntryHasHandler
  <2>1. e \in users[v] /\ ~(v = u /\ e = d)
    BY <1>4
  <2>2. PICK x \in Conn : sess[x] = [user |-> v, device |-> e] /\ InRegistry(x)
    BY <2>1 DEF RegistryInv, EntryHasHandler
  <2>3. x # c
    BY <2>1, <2>2 DEF UserOf, DeviceOf
  <2> QED
    BY <2>2, <2>3, <1>3
<1>8. ListedIsKnown'
  <2> SUFFICES ASSUME NEW v \in User, users'[v] # {}
               PROVE  v \in known'
    BY DEF ListedIsKnown
  <2>1. v \in known
    BY <1>4 DEF RegistryInv, ListedIsKnown
  <2>2. CASE users[u] \subseteq {d}
    BY <2>1, <2>2, <1>4 DEF Cleanup, ForgetUser
  <2>3. CASE ~(users[u] \subseteq {d})
    BY <2>1, <2>3 DEF Cleanup, TouchUsers
  <2> QED
    BY <2>2, <2>3
<1> QED
  BY <1>6, <1>7, <1>8 DEF RegistryInv

(* Every step keeps the registry in line.                                   *)
LEMMA NextKeepsRegistry ==
    ASSUME TypeInv, RegistryInv, [Next]_vars
    PROVE  RegistryInv'
<1>1. ASSUME NEW c \in Conn, ConnectBelowLimit(c) \/ ConnectVictimShut(c)
      PROVE  RegistryInv'
  BY <1>1, RegisterKeepsRegistry
     DEF ConnectBelowLimit, ConnectVictimShut, TypeInv, TypeOK
<1>2. ASSUME NEW c \in Conn, EvictDone(c)
      PROVE  RegistryInv'
  BY <1>2, RegisterKeepsRegistry DEF EvictDone, TypeInv, TypeOK
<1>3. ASSUME NEW c \in Conn,
             \/ ConnectEvicting(c)
             \/ ConnectKeyError(c)
             \/ Accepted(c)
             \/ ConnectError(c)
             \/ HandlerError(c)
             \/ DisconnectClosing(c)
      PROVE  RegistryInv'
  <2>1. UNCHANGED <<users, device, sess>>
    BY <1>3 DEF ConnectEvicting, ConnectKeyError, Accepted, ConnectError,
                HandlerError, DisconnectClosing
  <2>2. known' = known
    BY <1>3 DEF ConnectEvicting, ConnectKeyError, Accepted, ConnectError,
                HandlerError, DisconnectClosing, indexVars
  <2>3. \A x \in Conn : InRegistry(x) => InRegistry(x)'
    BY <1>3 DEF ConnectEvicting, ConnectKeyError, Accepted, ConnectError,
                HandlerError, DisconnectClosing, InRegistry, TypeInv, TypeOK
  <2> QED
    BY <2>1, <2>2, <2>3, FrameKeepsRegistry
<1>4. ASSUME NEW c \in Conn, DisconnectAtOnce(c) \/ CloseDone(c)
      PROVE  RegistryInv'
  BY <1>4, CleanupKeepsRegistry DEF DisconnectAtOnce, CloseDone
<1>5. ASSUME NEW c \in Conn, ClientCloses(c)
      PROVE  RegistryInv'
  BY <1>5, FrameKeepsRegistry DEF ClientCloses, InRegistry, indexVars
<1>6. ASSUME ServiceCall
      PROVE  RegistryInv'
  <2>1. UNCHANGED connVars
    BY <1>6 DEF ServiceCall, Joined, RemovedFromGroup, GroupDeleted, BanUpdated,
                SendingSystemMessage, SendingGroupMessage
  <2>2. known \subseteq known'
    BY <1>6 DEF ServiceCall, Joined, RemovedFromGroup, GroupDeleted, BanUpdated,
                SendingSystemMessage, SendingGroupMessage, UserJoinedGroup,
                UserConnectToGroupItems, DisconnectUserFromGroup, DisconnectGroup,
                CreateGroupItem, TouchUsers, indexVars
  <2> QED
    BY <2>1, <2>2, FrameKeepsRegistry DEF connVars, InRegistry
<1>7. CASE UNCHANGED vars
  BY <1>7, FrameKeepsRegistry DEF vars, connVars, indexVars, InRegistry
<1> QED
  BY <1>1, <1>2, <1>3, <1>4, <1>5, <1>6, <1>7 DEF Next, Connect, HandlerStep

(* At the start nothing is registered.                                      *)
LEMMA InitRegistry == Init => RegistryInv
  BY NoConnAssumption
     DEF Init, RegistryInv, RegisteredIsListed, EntryHasHandler, ListedIsKnown

(* The inductive invariant holds in every behaviour.                        *)
LEMMA InvariantHolds == Spec => [](TypeInv /\ RegistryInv)
<1>1. TypeInv /\ RegistryInv /\ [Next]_vars => (TypeInv /\ RegistryInv)'
  BY NextKeepsType, NextKeepsRegistry
<1> QED
  BY InitType, InitRegistry, <1>1, PTL DEF Spec

(* _device holds only sockets of connections whose device is still listed   *)
(* for their user, whatever handlers reconnect, evict and clean up.         *)
THEOREM RegisteredAlwaysListed == Spec => []RegisteredIsListed
<1>1. TypeInv /\ RegistryInv => RegisteredIsListed
  BY DEF RegistryInv
<1> QED
  BY InvariantHolds, <1>1, PTL

(* A listed device always has a handler that will unlist it, or one that    *)
(* died of an exception.                                                    *)
THEOREM EntryAlwaysHasHandler == Spec => []EntryHasHandler
<1>1. TypeInv /\ RegistryInv => EntryHasHandler
  BY DEF RegistryInv
<1> QED
  BY InvariantHolds, <1>1, PTL

(* A user with a listed device is always present for __contains__.          *)
THEOREM ListedAlwaysKnown == Spec => []ListedIsKnown
<1>1. TypeInv /\ RegistryInv => ListedIsKnown
  BY DEF RegistryInv
<1> QED
  BY InvariantHolds, <1>1, PTL

--------------------------------------------------------------------------------
(* Connections that met no other of their device id *)

(* Connections of one device id in flight together have crossed.  An        *)
(* eviction under way finds an uncrossed connection of its device           *)
(* registered, and shut already.  An exception shuts the socket.            *)
TogetherHaveCrossed ==
    \A c, x \in Conn :
        c # x /\ InFlight(c) /\ InFlight(x) /\ DeviceOf(c) = DeviceOf(x) => c \in crossed

EvictedIsShut ==
    \A c \in Conn \ crossed :
        InFlight(c) /\ BeingEvicted(DeviceOf(c)) => pc[c] # "evicting" /\ sock[c] = "closed"

DeadIsShut == \A c \in Conn : pc[c] = "dead" => sock[c] = "closed"

CrossingInv ==
    /\ UncrossedIsReached
    /\ TogetherHaveCrossed
    /\ EvictedIsShut
    /\ DeadIsShut

(* What a step does besides beginning a connection: no handler enters       *)
(* flight, none begins to evict, and a shut socket stays shut.              *)
BeginsNothing ==
    /\ UNCHANGED <<sess, crossed>>
    /\ \A x \in Conn : InFlight(x)' => InFlight(x)
    /\ \A x \in Conn : pc'[x] = "evicting" => pc[x] = "evicting" /\ victim'[x] = victim[x]
    /\ \A x \in Conn : sock[x] = "closed" => sock'[x] = "closed"
    /\ \A x \in Conn : pc'[x] = "dead" => pc[x] = "dead" \/ sock'[x] = "closed"

(* The history and the two facts about pairs outlive such a step.           *)
LEMMA BeginsNothingKeepsPairs ==
    ASSUME CrossingInv, BeginsNothing
    PROVE  TogetherHaveCrossed' /\ EvictedIsShut' /\ DeadIsShut'
<1>1. \A x \in Conn : DeviceOf(x)' = DeviceOf(x)
  BY DEF BeginsNothing, DeviceOf
<1>2. crossed' = crossed
  BY DEF BeginsNothing
<1>3. TogetherHaveCrossed'
  BY <1>1, <1>2 DEF CrossingInv, TogetherHaveCrossed, BeginsNothing
<1>4. EvictedIsShut'
  <2> SUFFICES ASSUME NEW x \in Conn \ crossed, InFlight(x)', BeingEvicted(DeviceOf(x))'
               PROVE  pc'[x] # "evicting" /\ sock'[x] = "closed"
    BY <1>2 DEF EvictedIsShut
  <2>1. InFlight(x) /\ BeingEvicted(DeviceOf(x))
    BY <1>1 DEF BeginsNothing, BeingEvicted
  <2>2. pc[x] # "evicting" /\ sock[x] = "closed"
    BY <2>1 DEF CrossingInv, EvictedIsShut
  <2> QED
    BY <2>2 DEF BeginsNothing
<1>5. DeadIsShut'
  BY DEF CrossingInv, DeadIsShut, BeginsNothing
<1> QED
  BY <1>3, <1>4, <1>5

(* Nor does it unlist anybody when it leaves both tables of devices alone,  *)
(* forgets no user and registers no connection.                             *)
LEMMA FrameKeepsCrossing ==
    ASSUME CrossingInv, BeginsNothing, UNCHANGED <<users, device>>, known \subseteq known',
           \A x \in Conn : pc'[x] \in {"accepting", "live"} => pc[x] \in {"accepting", "live"}
    PROVE  CrossingInv'
<1>1. UncrossedIsReached'
  BY DEF CrossingInv, UncrossedIsReached, BeginsNothing, UserOf, DeviceOf
<1> QED
  BY <1>1, BeginsNothingKeepsPairs DEF CrossingInv

(* connect begins: whatever is in flight for the device id has crossed.     *)
LEMMA MeetKeepsTogether ==
    ASSUME NEW c \in Conn, CrossingInv, Meet(c), UNCHANGED sess,
           \A x \in Conn \ {c} : InFlight(x)' => InFlight(x)
    PROVE  TogetherHaveCrossed'
<1>1. \A x \in Conn : DeviceOf(x)' = DeviceOf(x)
  BY DEF DeviceOf
<1> SUFFICES ASSUME NEW x \in Conn, NEW y \in Conn, x # y, InFlight(x)', InFlight(y)',
                    DeviceOf(x) = DeviceOf(y)
             PROVE  x \in crossed'
  BY <1>1 DEF TogetherHaveCrossed
<1>2. CASE x # c /\ y # c
  BY <1>2 DEF CrossingInv, TogetherHaveCrossed, Meet
<1>3. CASE x = c
  <2>1. y \in Others(c)
    BY <1>3 DEF Others
  <2> QED
    BY <1>3, <2>1 DEF Meet
<1>4. CASE y = c
  <2>1. x \in Others(c)
    BY <1>4 DEF Others
  <2> QED
    BY <2>1 DEF Meet
<1> QED
  BY <1>2, <1>3, <1>4

(* A socket _device holds that is not shut is that of a connection of the   *)
(* device id, registered and in flight.                                     *)
LEMMA HeldOpenInFlight ==
    ASSUME TypeInv, RegistryInv, CrossingInv, NEW d \in Device,
           device[d] # NoConn, sock[device[d]] # "closed"
    PROVE  /\ device[d] \in Conn
           /\ DeviceOf(device[d]) = d
           /\ InFlight(device[d])
           /\ pc[device[d]] # "evicting"
<1>1. device[d] \in Conn
  BY DEF TypeInv, TypeOK
<1>2. DeviceOf(device[d]) = d /\ InRegistry(device[d])
  BY <1>1 DEF RegistryInv, RegisteredIsListed
<1>3. pc[device[d]] # "dead"
  BY <1>1 DEF CrossingInv, DeadIsShut
<1> QED
  BY <1>1, <1>2, <1>3 DEF InRegistry, InFlight

(* Registering: an uncrossed connection of another handler has a device id  *)
(* of its own, which no eviction is about to take out.                      *)
LEMMA RegisterKeepsReached ==
    ASSUME NEW c \in Conn, NEW dev, TypeInv, CrossingInv, Register(c, dev),
           UNCHANGED <<sess, sock>>, crossed \subseteq crossed',
           dev \in [Device -> Conn \cup {NoConn}],
           \A x \in Conn \ crossed' :
               x # c /\ InFlight(x) /\ sock[x] # "closed" =>
                   DeviceOf(x) # DeviceOf(c) /\ dev[DeviceOf(x)] = device[DeviceOf(x)]
    PROVE  UncrossedIsReached'
<1>1. \A x \in Conn : UserOf(x)' = UserOf(x) /\ DeviceOf(x)' = DeviceOf(x)
  BY DEF UserOf, DeviceOf
<1>2. \A x \in Conn : UserOf(x) \in User /\ DeviceOf(x) \in Device
  BY SessionFields
<1> SUFFICES ASSUME NEW x \in Conn \ crossed', pc'[x] \in {"accepting", "live"},
                    sock[x] # "closed"
             PROVE  /\ device'[DeviceOf(x)] = x
                    /\ DeviceOf(x) \in users'[UserOf(x)]
                    /\ UserOf(x) \in known'
  BY <1>1 DEF UncrossedIsReached
<1>3. CASE x = c
  BY <1>2, <1>3 DEF Register, TouchUsers, TypeInv, TypeOK
<1>4. CASE x # c
  <2>1. pc[x] \in {"accepting", "live"} /\ InFlight(x)
    BY <1>4 DEF Register, TypeInv, TypeOK, InFlight
  <2>2. /\ device[DeviceOf(x)] = x
        /\ DeviceOf(x) \in users[UserOf(x)]
        /\ UserOf(x) \in known
    BY <2>1 DEF CrossingInv, UncrossedIsReached
  <2>3. DeviceOf(x) # DeviceOf(c) /\ dev[DeviceOf(x)] = x
    BY <1>4, <2>1, <2>2
  <2> QED
    BY <1>2, <2>2, <2>3 DEF Register, TouchUsers, TypeInv, TypeOK
<1> QED
  BY <1>3, <1>4

(* connect that registers at once.                                          *)
LEMMA ConnectKeepsCrossing ==
    ASSUME NEW c \in Conn, TypeInv, RegistryInv, CrossingInv,
           ConnectBelowLimit(c) \/ ConnectVictimShut(c)
    PROVE  CrossingInv'
<1>1. Register(c, device) /\ Meet(c) /\ UNCHANGED <<sess, victim, sock>> /\ pc[c] = "idle"
  BY DEF ConnectBelowLimit, ConnectVictimShut
<1>2. \A x \in Conn : pc'[x] = IF x = c THEN "accepting" ELSE pc[x]
  BY <1>1 DEF Register, TypeInv, TypeOK
<1>3. \A x \in Conn : DeviceOf(x)' = DeviceOf(x)
  BY <1>1 DEF DeviceOf
<1>4. \A x \in Conn \ {c} : InFlight(x)' => InFlight(x)
  BY <1>2 DEF InFlight
<1>5. UncrossedIsReached'
  <2>1. crossed \subseteq crossed'
    BY <1>1 DEF Meet
  <2>2. \A x \in Conn \ crossed' : x # c /\ InFlight(x) => DeviceOf(x) # DeviceOf(c)
    <3> SUFFICES ASSUME NEW x \in Conn, x # c, InFlight(x), DeviceOf(x) = DeviceOf(c)
                 PROVE  x \in crossed'
      OBVIOUS
    <3>1. x \in Others(c)
      BY DEF Others
    <3> QED
      BY <1>1, <3>1 DEF Meet
  <2>3. device \in [Device -> Conn \cup {NoConn}]
    BY DEF TypeInv, TypeOK
  <2> QED
    BY <1>1, <2>1, <2>2, <2>3, RegisterKeepsReached
<1>6. TogetherHaveCrossed'
  BY <1>1, <1>4, MeetKeepsTogether
<1>7. EvictedIsShut'
  <2> SUFFICES ASSUME NEW x \in Conn \ crossed', InFlight(x)', BeingEvicted(DeviceOf(x))'
               PROVE  pc'[x] # "evicting" /\ sock'[x] = "closed"
    BY DEF EvictedIsShut
  <2>1. BeingEvicted(DeviceOf(x))
    BY <1>1, <1>2, <1>3 DEF BeingEvicted
  <2>2. x # c /\ x \notin crossed
    BY <1>1, <2>1 DEF Meet
  <2>3. pc[x] # "evicting" /\ sock[x] = "closed"
    BY <1>4, <2>1, <2>2 DEF CrossingInv, EvictedIsShut
  <2> QED
    BY <1>1, <1>2, <2>2, <2>3
<1>8. DeadIsShut'
  BY <1>1, <1>2 DEF CrossingInv, DeadIsShut
<1> QED
  BY <1>5, <1>6, <1>7, <1>8 DEF CrossingInv

(* connect that evicts first: the victim's socket is shut in the same step. *)
LEMMA EvictKeepsCrossing ==
    ASSUME NEW c \in Conn, TypeInv, RegistryInv, CrossingInv, ConnectEvicting(c)
    PROVE  CrossingInv'
<1>1. PICK d \in users[UserOf(c)] :
          /\ device[d] # NoConn
          /\ sock[device[d]] # "closed"
          /\ sock' = [sock EXCEPT ![device[d]] = "closed"]
          /\ victim' = [victim EXCEPT ![c] = d]
  BY DEF ConnectEvicting
<1> DEFINE y == device[d]
<1>2. d \in Device
  BY SessionFields DEF TypeInv, TypeOK
<1>3. y \in Conn /\ DeviceOf(y) = d /\ InFlight(y) /\ pc[y] # "evicting"
  BY <1>1, <1>2, HeldOpenInFlight
<1>4. Meet(c) /\ UNCHANGED <<known, users, device, sess>> /\ pc[c] = "idle"
  BY DEF ConnectEvicting, indexVars
<1>5. \A x \in Conn : pc'[x] = IF x = c THEN "evicting" ELSE pc[x]
  BY DEF ConnectEvicting, TypeInv, TypeOK
<1>6. \A x \in Conn : sock'[x] = IF x = y THEN "closed" ELSE sock[x]
  BY <1>1, <1>3 DEF TypeInv, TypeOK
<1>7. \A x \in Conn : victim'[x] = IF x = c THEN d ELSE victim[x]
  BY <1>1, <1>2 DEF TypeInv, TypeOK
<1>8. \A x \in Conn : UserOf(x)' = UserOf(x) /\ DeviceOf(x)' = DeviceOf(x)
  BY <1>4 DEF UserOf, DeviceOf
<1>9. \A x \in Conn \ {c} : InFlight(x)' => InFlight(x)
  BY <1>5 DEF InFlight
<1>10. crossed \subseteq crossed'
  BY <1>4 DEF Meet
<1>11. UncrossedIsReached'
  BY <1>4, <1>5, <1>6, <1>8, <1>10 DEF CrossingInv, UncrossedIsReached
<1>12. TogetherHaveCrossed'
  BY <1>4, <1>9, MeetKeepsTogether
<1>13. EvictedIsShut'
  <2> SUFFICES ASSUME NEW x \in Conn, x \notin crossed', InFlight(x)',
                      BeingEvicted(DeviceOf(x))'
               PROVE  pc'[x] # "evicting" /\ sock'[x] = "closed"
    BY DEF EvictedIsShut
  <2>1. BeingEvicted(DeviceOf(x)) \/ DeviceOf(x) = d
    <3>1. PICK z \in Conn : pc'[z] = "evicting" /\ victim'[z] = DeviceOf(x)
      BY <1>8 DEF BeingEvicted
    <3> QED
      BY <3>1, <1>5, <1>7 DEF BeingEvicted
  <2>2. x # c
    <3> SUFFICES ASSUME x = c PROVE FALSE
      OBVIOUS
    <3>1. ~BeingEvicted(DeviceOf(c)) /\ Others(c) = {}
      BY <1>4 DEF Meet
    <3>2. DeviceOf(c) = d /\ y # c
      BY <2>1, <3>1, <1>3, <1>4 DEF InFlight
    <3>3. y \in Others(c)
      BY <3>2, <1>3 DEF Others
    <3> QED
      BY <3>1, <3>3
  <2>3. x \notin crossed /\ InFlight(x) /\ pc'[x] = pc[x]
    BY <2>2, <1>5, <1>9, <1>10
  <2>4. CASE BeingEvicted(DeviceOf(x))
    BY <2>3, <2>4, <1>6 DEF CrossingInv, EvictedIsShut
  <2>5. CASE DeviceOf(x) = d
    <3>1. x = y
      BY <2>3, <2>5, <1>3 DEF CrossingInv, TogetherHaveCrossed
    <3> QED
      BY <2>3, <3>1, <1>3, <1>6
  <2> QED
    BY <2>1, <2>4, <2>5
<1>14. DeadIsShut'
  BY <1>5, <1>6 DEF CrossingInv, DeadIsShut
<1> QED
  BY <1>11, <1>12, <1>13, <1>14 DEF CrossingInv

(* The evicting handler resumes: the device it takes out is its victim's,   *)
(* whose uncrossed connection, if any, is shut.                             *)
LEMMA EvictDoneKeepsCrossing ==
    ASSUME NEW c \in Conn, TypeInv, RegistryInv, CrossingInv, EvictDone(c)
    PROVE  CrossingInv'
<1> DEFINE dev == [device EXCEPT ![victim[c]] = NoConn]
<1>1. Register(c, dev) /\ UNCHANGED <<sess, victim, sock, crossed>> /\ pc[c] = "evicting"
  BY DEF EvictDone
<1>2. victim[c] \in Device /\ dev \in [Device -> Conn \cup {NoConn}]
  BY DEF TypeInv, TypeOK
<1>3. \A x \in Conn : pc'[x] = IF x = c THEN "accepting" ELSE pc[x]
  BY <1>1 DEF Register, TypeInv, TypeOK
<1>4. BeginsNothing
  BY <1>1, <1>3 DEF BeginsNothing, InFlight
<1>5. ASSUME NEW x \in Conn \ crossed, x # c, InFlight(x), sock[x] # "closed"
      PROVE  DeviceOf(x) # DeviceOf(c) /\ dev[DeviceOf(x)] = device[DeviceOf(x)]
  <2>1. InFlight(c)
    BY <1>1 DEF InFlight
  <2>2. DeviceOf(x) # DeviceOf(c)
    BY <1>5, <2>1 DEF CrossingInv, TogetherHaveCrossed
  <2>3. DeviceOf(x) # victim[c]
    BY <1>1, <1>5 DEF CrossingInv, EvictedIsShut, BeingEvicted
  <2>4. DeviceOf(x) \in Device
    BY SessionFields
  <2> QED
    BY <2>2, <2>3, <2>4 DEF TypeInv, TypeOK
<1>6. UncrossedIsReached'
  <2>1. crossed' = crossed
    BY <1>1
  <2> HIDE DEF dev
  <2> QED
    BY <1>1, <1>2, <1>5, <2>1, RegisterKeepsReached
<1> QED
  BY <1>4, <1>6, BeginsNothingKeepsPairs DEF CrossingInv

(* The cleanup of a handler unlists its own device id, which no uncrossed   *)
(* connection of another handler has.                                       *)
LEMMA CleanupKeepsCrossing ==
    ASSUME NEW c \in Conn, TypeInv, RegistryInv, CrossingInv, Cleanup(c), InFlight(c),
           UNCHANGED <<sess, victim, sock, crossed>>
    PROVE  CrossingInv'
<1> DEFINE u == UserOf(c)
           d == DeviceOf(c)
<1>1. \A x \in Conn : pc'[x] = IF x = c THEN "done" ELSE pc[x]
  BY DEF Cleanup, TypeInv, TypeOK
<1>2. BeginsNothing
  BY <1>1 DEF BeginsNothing, InFlight
<1>3. \A x \in Conn : UserOf(x)' = UserOf(x) /\ DeviceOf(x)' = DeviceOf(x)
  BY DEF UserOf, DeviceOf
<1>4. \A x \in Conn : UserOf(x) \in User /\ DeviceOf(x) \in Device
  BY SessionFields
<1>5. \A v \in User : users'[v] = IF v = u THEN users[v] \ {d} ELSE users[v]
  BY DEF Cleanup, TypeInv, TypeOK
<1>6. \A e \in Device : device'[e] = IF e = d THEN NoConn ELSE device[e]
  BY DEF Cleanup, TypeInv, TypeOK
<1>7. UncrossedIsReached'
  <2> SUFFICES ASSUME NEW x \in Conn \ crossed, pc'[x] \in {"accepting", "live"},
                      sock[x] # "closed"
               PROVE  /\ device'[DeviceOf(x)] = x
                      /\ DeviceOf(x) \in users'[UserOf(x)]
                      /\ UserOf(x) \in known'
    BY <1>3 DEF UncrossedIsReached
  <2>1. x # c /\ pc[x] \in {"accepting", "live"} /\ InFlight(x)
    BY <1>1 DEF InFlight
  <2>2. /\ device[DeviceOf(x)] = x
        /\ DeviceOf(x) \in users[UserOf(x)]
        /\ UserOf(x) \in known
    BY <2>1 DEF CrossingInv, UncrossedIsReached
  <2>3. DeviceOf(x) # d
    BY <2>1 DEF CrossingInv, TogetherHaveCrossed
  <2>4. UserOf(x) \in known'
    <3>1. CASE users[u] \subseteq {d}
      <4>1. UserOf(x) # u
        BY <2>2, <2>3, <3>1
      <4>2. known' = known \ {u}
        BY <3>1 DEF Cleanup, ForgetUser
      <4> QED
        BY <2>2, <4>1, <4>2
    <3>2. CASE ~(users[u] \subseteq {d})
      BY <2>2, <3>2 DEF Cleanup, TouchUsers
    <3> QED
      BY <3>1, <3>2
  <2> QED
    BY <1>4, <1>5, <1>6, <2>2, <2>3, <2>4
<1> QED
  BY <1>2, <1>7, BeginsNothingKeepsPairs DEF CrossingInv

(* Every step keeps the uncrossed connections in the tables.                *)
LEMMA NextKeepsCrossing ==
    ASSUME TypeInv, RegistryInv, CrossingInv, [Next]_vars
    PROVE  CrossingInv'
<1>1. ASSUME NEW c \in Conn, DisconnectAtOnce(c) \/ CloseDone(c)
      PROVE  CrossingInv'
  BY <1>1, CleanupKeepsCrossing DEF DisconnectAtOnce, CloseDone, InFlight
<1>2. ASSUME NEW c \in Conn,
             \/ ConnectKeyError(c)
             \/ Accepted(c)
             \/ ConnectError(c)
             \/ HandlerError(c)
             \/ ClientCloses(c)
      PROVE  CrossingInv'
  <2>1. UNCHANGED <<known, users, device, sess, victim, crossed>>
    BY <1>2 DEF ConnectKeyError, Accepted, ConnectError, HandlerError, ClientCloses,
                indexVars
  <2>2. \A x \in Conn \ {c} : pc'[x] = pc[x] /\ sock'[x] = sock[x]
    BY <1>2 DEF ConnectKeyError, Accepted, ConnectError, HandlerError, ClientCloses,
                TypeInv, TypeOK
  <2>3. \/ pc'[c] = "dead" /\ sock'[c] = "closed"
        \/ pc[c] = "accepting" /\ pc'[c] = "live" /\ sock'[c] = sock[c]
        \/ pc'[c] = pc[c] /\ sock[c] = "open"
    BY <1>2 DEF ConnectKeyError, Accepted, ConnectError, HandlerError, ClientCloses,
                TypeInv, TypeOK
  <2>4. BeginsNothing
    BY <2>1, <2>2, <2>3 DEF BeginsNothing, InFlight, CrossingInv, DeadIsShut
  <2>5. \A x \in Conn : pc'[x] \in {"accepting", "live"} => pc[x] \in {"accepting", "live"}
    BY <2>2, <2>3
  <2> QED
    BY <2>1, <2>4, <2>5, FrameKeepsCrossing
<1>3. ASSUME NEW c \in Conn, DisconnectClosing(c)
      PROVE  CrossingInv'
  <2>1. device[DeviceOf(c)] \in Conn
    BY <1>3, SessionFields DEF DisconnectClosing, TypeInv, TypeOK
  <2>2. \A x \in Conn : pc'[x] = IF x = c THEN "closing" ELSE pc[x]
    BY <1>3 DEF DisconnectClosing, TypeInv, TypeOK
  <2>3. \A x \in Conn : sock'[x] = "closed" \/ sock'[x] = sock[x]
    BY <1>3, <2>1 DEF DisconnectClosing, TypeInv, TypeOK
  <2>4. BeginsNothing
    BY <1>3, <2>2, <2>3 DEF BeginsNothing, InFlight, DisconnectClosing
  <2> QED
    BY <1>3, <2>2, <2>4, FrameKeepsCrossing DEF DisconnectClosing, indexVars
<1>4. ASSUME ServiceCall
      PROVE  CrossingInv'
  <2>1. UNCHANGED connVars
    BY <1>4 DEF ServiceCall, Joined, RemovedFromGroup, GroupDeleted, BanUpdated,
                SendingSystemMessage, SendingGroupMessage
  <2>2. known \subseteq known'
    BY <1>4 DEF ServiceCall, Joined, RemovedFromGroup, GroupDeleted, BanUpdated,
                SendingSystemMessage, SendingGroupMessage, UserJoinedGroup,
                UserConnectToGroupItems, DisconnectUserFromGroup, DisconnectGroup,
                CreateGroupItem, TouchUsers, indexVars
  <2>3. BeginsNothing
    BY <2>1 DEF connVars, BeginsNothing, InFlight
  <2> QED
    BY <2>1, <2>2, <2>3, FrameKeepsCrossing DEF connVars
<1>5. CASE UNCHANGED vars
  <2>1. BeginsNothing
    BY <1>5 DEF vars, connVars, BeginsNothing, InFlight
  <2> QED
    BY <1>5, <2>1, FrameKeepsCrossing DEF vars, connVars, indexVars
<1> QED
  BY <1>1, <1>2, <1>3, <1>4, <1>5, ConnectKeepsCrossing, EvictKeepsCrossing,
     EvictDoneKeepsCrossing DEF Next, Connect, HandlerStep

(* At the start nothing is in flight.                                       *)
LEMMA InitCrossing == Init => CrossingInv
  BY DEF Init, CrossingInv, UncrossedIsReached, TogetherHaveCrossed, EvictedIsShut,
         DeadIsShut, InFlight

(* As long as a connection meets no other of its device id, no handler,     *)
(* however its steps interleave with this one's, takes it out of the tables *)
(* while its socket is open: messages sent by way of _users and _device     *)
(* find it.                                                                 *)
THEOREM UncrossedAlwaysReached == Spec => []UncrossedIsReached
<1> DEFINE Inv == TypeInv /\ RegistryInv
<1>1. CrossingInv /\ Inv /\ [Next]_vars => CrossingInv'
  BY NextKeepsCrossing
<1>2. CrossingInv => UncrossedIsReached
  BY DEF CrossingInv
<1> QED
  BY InvariantHolds, InitCrossing, <1>1, <1>2, PTL DEF Spec

================================================================================
