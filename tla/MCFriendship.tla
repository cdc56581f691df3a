----------------------------- MODULE MCFriendship -----------------------------
(* Instances of Friendship for TLC: users are the numbers whose products    *)
(* name the virtual groups.                                                 *)
EXTENDS Friendship, TLC

Products == {u * v : u \in User, v \in User}

Symmetry == Permutations(Call)

================================================================================
