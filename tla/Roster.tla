--------------------------------- MODULE Roster ---------------------------------
(***************************************************************************)
(* What the groups of the server promise, told without documents, accounts, *)
(* indexes, checks or requests: a group has an owner and members, a user is *)
(* online or not, and a user that is online hears the groups it is a member *)
(* of.  GroupMembership implements it.                                      *)
(***************************************************************************)
CONSTANTS User, Group, NoOwner

VARIABLES
    owner,      \* the owner of each group; NoOwner when there is no group
    members,    \* the members of each group
    online,     \* the users that are online
    hears       \* the groups whose messages reach each user

rosterVars == <<owner, members, online, hears>>

Init ==
    /\ owner = [g \in Group |-> NoOwner]
    /\ members = [g \in Group |-> {}]
    /\ online = {}
    /\ hears = [u \in User |-> {}]

Exists(g) == owner[g] # NoOwner

(* u is a member from now on, and hears the group if it is online.          *)
Include(u, g) ==
    /\ members' = [members EXCEPT ![g] = @ \cup {u}]
    /\ hears' = [hears EXCEPT ![u] = IF u \in online THEN @ \cup {g} ELSE @]
    /\ UNCHANGED online

Found(u, g) ==
    /\ ~Exists(g)
    /\ owner' = [owner EXCEPT ![g] = u]
    /\ Include(u, g)

Enter(u, g) ==
    /\ Exists(g)
    /\ Include(u, g)
    /\ UNCHANGED owner

(* Only the owner cannot leave or be removed.                               *)
Leave(u, g) ==
    /\ u # owner[g]
    /\ members' = [members EXCEPT ![g] = @ \ {u}]
    /\ hears' = [hears EXCEPT ![u] = @ \ {g}]
    /\ UNCHANGED <<owner, online>>

(* Everyone leaves at once.                                                 *)
Dissolve(g) ==
    /\ Exists(g)
    /\ owner' = [owner EXCEPT ![g] = NoOwner]
    /\ members' = [members EXCEPT ![g] = {}]
    /\ hears' = [u \in User |-> hears[u] \ {g}]
    /\ UNCHANGED online

Connect(u) ==
    /\ online' = online \cup {u}
    /\ hears' = [hears EXCEPT ![u] = {g \in Group : u \in members[g]}]
    /\ UNCHANGED <<owner, members>>

Disconnect(u) ==
    /\ u \in online
    /\ online' = online \ {u}
    /\ hears' = [hears EXCEPT ![u] = {}]
    /\ UNCHANGED <<owner, members>>

Stop ==
    /\ online' = {}
    /\ hears' = [u \in User |-> {}]
    /\ UNCHANGED <<owner, members>>

Next ==
    \/ \E u \in User, g \in Group : Found(u, g) \/ Enter(u, g) \/ Leave(u, g)
    \/ \E g \in Group : Dissolve(g)
    \/ \E u \in User : Connect(u) \/ Disconnect(u)
    \/ Stop

Spec == Init /\ [][Next]_rosterVars

================================================================================
