------------------------------ MODULE Taxonomy ------------------------------
(***************************************************************************)
(* A reorderable catalogue: the statuses of a project, the order of its    *)
(* items and the one that is flagged as the default for new issues.        *)
(*                                                                         *)
(* Source: crates/core/src/ordering.rs, taxonomy.rs of crates/api and      *)
(* crates/db, and reorder / set_order of the backlog, which rank epics and *)
(* issues in the same way.                                                 *)
(*                                                                         *)
(* A rank is an f64 in the code.  Here it is a whole number of the         *)
(* smallest steps a float can tell apart, Gap of them to 1.0, so that      *)
(* midpoints run out.  Every statement is a step; a handler that reads the *)
(* list and writes later may find it changed.                              *)
(***************************************************************************)
EXTENDS Integers, FiniteSets, SequencesExt

CONSTANTS
    Items, Movers,
    NoItem,
    Gap,            \* steps between the ranks of two normalised neighbours
    MaxTaxOps       \* bound on the requests begun, for TLC

ASSUME TaxonomyAssumption ==
    Gap \in Nat \ {0} /\ MaxTaxOps \in Nat /\ IsFiniteSet(Items) /\ NoItem \notin Items

VARIABLES
    rank,       \* item -> its rank; the items that exist are its domain
    default,    \* the item flagged is_new, or NoItem
    used,       \* items that issues refer to
    mover,      \* handler -> its step
    taxOps      \* requests begun so far

taxVars == <<rank, default, used, mover, taxOps>>

Resting == [at |-> "idle", op |-> "none", item |-> NoItem, before |-> NoItem, after |-> NoItem,
            list |-> << >>, seen |-> << >>, rank |-> 0, flag |-> FALSE]

Ranks == - Gap * (MaxTaxOps + 1) .. Gap * (MaxTaxOps + Cardinality(Items) + 1)

\* A project starts with a few statuses, the first of which is the default.
TaxInit ==
    /\ \E S \in SUBSET Items, first \in Items :
         /\ first \in S /\ Cardinality(S) = Cardinality(Items) - 1
         /\ \E order \in SetToSeqs(S) :
              /\ order[1] = first
              /\ rank = [i \in S |-> Gap * CHOOSE k \in DOMAIN order : order[k] = i]
         /\ default = first
    /\ used = {} /\ mover = [h \in Movers |-> Resting] /\ taxOps = 0

-----------------------------------------------------------------------------
(* Ranks.                                                                  *)

\* Midpoint of two ranks that need not come in order, or nothing.
Midpoint(b, a) ==
    LET lo == IF b <= a THEN b ELSE a
        hi == IF b <= a THEN a ELSE b
        mid == lo + (hi - lo) \div 2
    IN  IF mid > lo /\ mid < hi THEN {mid} ELSE {}

\* Mutant: the midpoint may coincide with a neighbour.
RankTouches(bs, cs) ==
    IF bs = {} /\ cs = {} THEN {Gap}
    ELSE IF cs = {} THEN {b + Gap : b \in bs}
    ELSE IF bs = {} THEN {a - Gap : a \in cs}
    ELSE {b + (a - b) \div 2 : b \in bs, a \in cs}

\* The ranks of the two neighbours are sets of at most one; so is the result.
rank_between(bs, cs) ==
    IF bs = {} /\ cs = {} THEN {Gap}
    ELSE IF cs = {} THEN {b + Gap : b \in bs}
    ELSE IF bs = {} THEN {a - Gap : a \in cs}
    ELSE UNION {Midpoint(b, a) : b \in bs, a \in cs}

\* 1.0, 2.0, ... for a list in its new order.
normalized_ranks(list) == [i \in ToSet(list) |-> Gap * CHOOSE k \in DOMAIN list : list[k] = i]

\* The lists a query ordered by rank may return: ties in any order.
Lists == {s \in SetToSeqs(DOMAIN rank) :
            \A j, k \in DOMAIN s : j < k => rank[s[j]] <= rank[s[k]]}

\* The list, whose items are distinct, without the item, and the item after
\* before, ahead of after, or last.
Target(list, i, before, after) ==
    LET rest == RemoveFirst(list, i)
        at == [x \in ToSet(rest) |-> CHOOSE k \in DOMAIN rest : rest[k] = x]
        pos == IF before # NoItem THEN IF before \in ToSet(rest) THEN at[before] ELSE Len(rest)
               ELSE IF after # NoItem THEN IF after \in ToSet(rest) THEN at[after] - 1 ELSE 0
               ELSE Len(rest)
    IN  InsertAt(rest, pos + 1, i)

-----------------------------------------------------------------------------
(* Requests.                                                               *)

BeginTax(h, rec) ==
    /\ mover[h].at = "idle" /\ taxOps < MaxTaxOps
    /\ taxOps' = taxOps + 1 /\ mover' = [mover EXCEPT ![h] = rec]

EndTax(h) == mover' = [mover EXCEPT ![h] = Resting]

\* move_item (reorder of the backlog) reads the list; a foreign id is a 404.
move_item(h, i, before, after) ==
    /\ i \in DOMAIN rank
    /\ \E s \in Lists : BeginTax(h, [Resting EXCEPT !.at = "move", !.op = "move", !.item = i,
            !.before = before, !.after = after, !.list = s, !.seen = rank])
    /\ UNCHANGED <<rank, default, used>>

\* The rank of a neighbour in the list that was read; an id not in it has none.
Seen(h, i) == IF i \in DOMAIN mover[h].seen THEN {mover[h].seen[i]} ELSE {}

\* Where there is room one row is written, otherwise every row that was read.
set_order(h) ==
    LET m == mover[h]
        room == rank_between(Seen(h, m.before), Seen(h, m.after))
        even == normalized_ranks(Target(m.list, m.item, m.before, m.after)) IN
    /\ m.at = "move"
    /\ rank' = [i \in DOMAIN rank |->
                  IF room # {} THEN IF i = m.item THEN CHOOSE r \in room : TRUE ELSE rank[i]
                  ELSE IF i \in DOMAIN even THEN even[i] ELSE rank[i]]
    /\ EndTax(h)
    /\ UNCHANGED <<default, used, taxOps>>

\* create: clear_is_new first when the new item is to be the default ...
create_item(h, i, flag) ==
    /\ i \notin DOMAIN rank /\ \A g \in Movers : mover[g].op = "create" => mover[g].item # i
    /\ BeginTax(h, [Resting EXCEPT !.at = IF flag THEN "clear" ELSE "max",
                                   !.op = "create", !.item = i, !.flag = flag])
    /\ UNCHANGED <<rank, default, used>>

\* update: the flag may be set, taken away, or left alone.
update_item(h, i, flag) ==
    /\ BeginTax(h, [Resting EXCEPT !.at = IF flag THEN "clear" ELSE "write",
                                   !.op = "update", !.item = i, !.flag = flag])
    /\ UNCHANGED <<rank, default, used>>

clear_is_new(h) ==
    /\ mover[h].at = "clear"
    /\ default' = NoItem
    /\ mover' = [mover EXCEPT ![h].at = IF mover[h].op = "create" THEN "max" ELSE "write"]
    /\ UNCHANGED <<rank, used, taxOps>>

\* The rank of a new item is read before the row is inserted.
max_order(h) ==
    /\ mover[h].at = "max"
    /\ mover' = [mover EXCEPT ![h].at = "write",
         ![h].rank = CHOOSE r \in rank_between({q \in {rank[i] : i \in DOMAIN rank} :
                                 \A i \in DOMAIN rank : rank[i] <= q}, {}) : TRUE]
    /\ UNCHANGED <<rank, default, used, taxOps>>

\* Two defaults violate the index issue_status_new: the row is not written.
Refused(h) == mover[h].flag /\ default \notin {NoItem, mover[h].item}

\* INSERT: a duplicate slug, or a second default, is refused.
insert_item(h, ok) ==
    LET m == mover[h] IN
    /\ m.at = "write" /\ m.op = "create"
    /\ ok => ~Refused(h)
    /\ rank' = IF ok THEN [i \in DOMAIN rank \cup {m.item} |-> IF i = m.item THEN m.rank ELSE rank[i]]
                     ELSE rank
    /\ default' = IF ok /\ m.flag THEN m.item ELSE default
    /\ EndTax(h)
    /\ UNCHANGED <<used, taxOps>>

\* UPDATE: no row (404), a second default (500), or the given fields.
update_row(h) ==
    LET m == mover[h] IN
    /\ m.at = "write" /\ m.op = "update"
    /\ default' = IF m.item \notin DOMAIN rank \/ Refused(h) THEN default
                  ELSE IF m.flag THEN m.item ELSE default
    /\ EndTax(h)
    /\ UNCHANGED <<rank, used, taxOps>>

\* PATCH is_new = false on the default takes it away.
clear_default(h) ==
    /\ mover[h].at = "idle" /\ taxOps < MaxTaxOps /\ default # NoItem
    /\ default' = NoItem /\ taxOps' = taxOps + 1
    /\ UNCHANGED <<rank, used, mover>>

\* An issue is given a status, or loses it.
refer(h, i) ==
    /\ mover[h].at = "idle" /\ taxOps < MaxTaxOps /\ i \in DOMAIN rank
    /\ used' = IF i \in used THEN used \ {i} ELSE used \cup {i}
    /\ taxOps' = taxOps + 1
    /\ UNCHANGED <<rank, default, mover>>

\* delete counts the references, and refuses while there are some ...
taxonomy_reference_count(i) == i \in used

delete_item(h, i) ==
    /\ ~taxonomy_reference_count(i)
    /\ BeginTax(h, [Resting EXCEPT !.at = "write", !.op = "delete", !.item = i])
    /\ UNCHANGED <<rank, default, used>>

\* ... and removes the row; a reference made meanwhile is set to null.
delete_row(h) ==
    LET i == mover[h].item IN
    /\ mover[h].at = "write" /\ mover[h].op = "delete"
    /\ rank' = [j \in DOMAIN rank \ {i} |-> rank[j]]
    /\ used' = used \ {i}
    /\ default' = IF default = i THEN NoItem ELSE default
    /\ EndTax(h)
    /\ UNCHANGED taxOps

\* A query fails or the process stops: what was written stays.
StopTax(h) == mover[h].at # "idle" /\ EndTax(h) /\ UNCHANGED <<rank, default, used, taxOps>>

TaxNext == \E h \in Movers :
    \/ \E i \in Items, b, a \in Items \cup {NoItem} : move_item(h, i, b, a)
    \/ set_order(h)
    \/ \E i \in Items, flag \in BOOLEAN : create_item(h, i, flag) \/ update_item(h, i, flag)
    \/ clear_is_new(h) \/ max_order(h) \/ update_row(h) \/ clear_default(h)
    \/ \E ok \in BOOLEAN : insert_item(h, ok)
    \/ \E i \in Items : refer(h, i) \/ delete_item(h, i)
    \/ delete_row(h) \/ StopTax(h)

TaxSpec == TaxInit /\ [][TaxNext]_taxVars

-----------------------------------------------------------------------------
(* Properties.                                                             *)

TaxTypeOK ==
    /\ DOMAIN rank \subseteq Items /\ \A i \in DOMAIN rank : rank[i] \in Ranks
    /\ default \in DOMAIN rank \cup {NoItem} /\ used \subseteq DOMAIN rank
    /\ \A h \in Movers : mover[h].at \in {"idle", "move", "clear", "max", "write"}
    /\ taxOps \in 0 .. MaxTaxOps

\* The request names two neighbours of the list it saw, next to each other
\* once the item is taken out of it.
BetweenNeighbours(m) ==
    LET rest == RemoveFirst(m.list, m.item) IN
    /\ m.before # m.item /\ m.after # m.item
    /\ m.before # NoItem \/ m.after # NoItem
    /\ \E k \in 0 .. Len(rest) :
         /\ m.before = IF k = 0 THEN NoItem ELSE rest[k]
         /\ m.after = IF k = Len(rest) THEN NoItem ELSE rest[k + 1]

\* A move between two neighbours that nothing overtook puts the item where it
\* was dropped and nowhere else, also when no rank is left between them: the
\* other items keep their order, and the moved one stands strictly between.
QuietMoveLands ==
    [][\A h \in Movers :
         LET m == mover[h] IN
         m.at = "move" /\ mover'[h].at = "idle" /\ rank' # rank /\ m.seen = rank
              /\ BetweenNeighbours(m) /\ (\A i, j \in DOMAIN rank : i # j => rank[i] # rank[j])
         => /\ m.before # NoItem => rank'[m.before] < rank'[m.item]
            /\ m.after # NoItem => rank'[m.item] < rank'[m.after]
            /\ \A i, j \in DOMAIN rank \ {m.item} : rank[i] < rank[j] => rank'[i] < rank'[j]
       ]_taxVars
=============================================================================
