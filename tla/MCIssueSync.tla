---------------------------- MODULE MCIssueSync ----------------------------
(* Instances of IssueSync for TLC. *)
EXTENDS IssueSync, TLC

Symmetry == Permutations(Issues) \cup Permutations(Writers)

\* All but more, which no action reads: states that differ in it alone go on
\* alike.  Not for a run whose properties read it.
View == <<now, table, writers, held, cursor, query, unsent>>

=============================================================================
