--------------------------- MODULE MCGroupMembership ---------------------------
(* Instances of GroupMembership for TLC. *)
EXTENDS GroupMembership, TLC

Symmetry == Permutations(User) \cup Permutations(Group) \cup Permutations(Req)

================================================================================
