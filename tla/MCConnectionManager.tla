-------------------------- MODULE MCConnectionManager --------------------------
(* Instances of ConnectionManager for TLC. *)
EXTENDS ConnectionManager, TLC

Symmetry == Permutations(User) \cup Permutations(Device)
                \cup Permutations(Conn) \cup Permutations(Group)

(* Users, devices and connections are interchangeable, and symmetry is not  *)
(* sound for liveness: one connection is given its session here instead.    *)
First == CHOOSE c \in Conn : TRUE

FirstSession == [user |-> CHOOSE u \in User : TRUE, device |-> CHOOSE d \in Device : TRUE]

MCInit == Init /\ sess[First] = FirstSession

MCFairSpec == MCInit /\ [][Next]_vars /\ Fairness

================================================================================
