------------------------- MODULE MCRefreshSessions -------------------------
(* Instances of RefreshSessions for TLC. *)
EXTENDS RefreshSessions, TLC

Symmetry == Permutations(Users) \cup Permutations(Families)
                \cup Permutations(Tokens) \cup Permutations(Requests)

=============================================================================
