------------------------------- MODULE MCDelivery -------------------------------
(* Instances of Delivery for TLC. *)
EXTENDS Delivery, TLC

Symmetry == Permutations(Device) \cup Permutations(Group)

(* The initial states in which one device is known, the other is new, and   *)
(* one message is waiting: from the rest fewer things happen.               *)
MCInit ==
    /\ Init
    /\ stored # {}
    /\ Cardinality(Known(lastSeen)) = 1

(* A bound: one group stays. *)
AGroupStays == groups # {}

MCSpec == MCInit /\ [][Next]_vars

================================================================================
