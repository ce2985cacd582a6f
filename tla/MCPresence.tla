----------------------------- MODULE MCPresence -----------------------------
(* Instances of Presence for TLC. *)
EXTENDS Presence, TLC

Symmetry == Permutations(Users) \cup Permutations(Nodes) \cup Permutations(Requests)

=============================================================================
