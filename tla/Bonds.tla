---------------------------------- MODULE Bonds ----------------------------------
(***************************************************************************)
(* What friendships promise, told without accounts, documents, virtual      *)
(* groups, checks or calls in flight: two users become friends only if one  *)
(* asked the other, both at once; they stop being friends both at once; and *)
(* a user that is online hears exactly its friends.  Friendship implements  *)
(* it.                                                                      *)
(***************************************************************************)
CONSTANT User

VARIABLES
    friends,    \* the friends of each user
    asked,      \* <<u, v>>: u asked v, and the question is not forgotten
    online,     \* the users that are online
    hears       \* the friends whose messages reach each user

bondVars == <<friends, asked, online, hears>>

Init ==
    /\ friends = [u \in User |-> {}]
    /\ asked = {}
    /\ online = {}
    /\ hears = [u \in User |-> {}]

Ask(u, v) ==
    /\ u # v
    /\ asked' = asked \cup {<<u, v>>}
    /\ UNCHANGED <<friends, online, hears>>

(* Questions are forgotten after a while, or once they are answered.        *)
Forget ==
    /\ asked' \subseteq asked
    /\ UNCHANGED <<friends, online, hears>>

(* v accepts what u asked.                                                  *)
Befriend(u, v) ==
    /\ <<u, v>> \in asked
    /\ asked' \subseteq asked
    /\ friends' = [friends EXCEPT ![u] = @ \cup {v}, ![v] = @ \cup {u}]
    /\ hears' = [hears EXCEPT ![u] = IF u \in online THEN @ \cup {v} ELSE @,
                              ![v] = IF v \in online THEN @ \cup {u} ELSE @]
    /\ UNCHANGED online

Part(u, v) ==
    /\ friends' = [friends EXCEPT ![u] = @ \ {v}, ![v] = @ \ {u}]
    /\ hears' = [hears EXCEPT ![u] = @ \ {v}, ![v] = @ \ {u}]
    /\ UNCHANGED <<asked, online>>

Connect(u) ==
    /\ online' = online \cup {u}
    /\ hears' = [hears EXCEPT ![u] = friends[u]]
    /\ UNCHANGED <<friends, asked>>

Disconnect(u) ==
    /\ u \in online
    /\ online' = online \ {u}
    /\ hears' = [hears EXCEPT ![u] = {}]
    /\ UNCHANGED <<friends, asked>>

Next ==
    \/ \E u \in User, v \in User : Ask(u, v) \/ Befriend(u, v) \/ Part(u, v)
    \/ \E u \in User : Connect(u) \/ Disconnect(u)
    \/ Forget

Spec == Init /\ [][Next]_bondVars

================================================================================
