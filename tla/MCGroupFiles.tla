------------------------------ MODULE MCGroupFiles ------------------------------
(* Instances of GroupFiles for TLC. *)
EXTENDS GroupFiles, TLC

Symmetry == Permutations(Hash) \cup Permutations(Group)

================================================================================
