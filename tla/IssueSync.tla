----------------------------- MODULE IssueSync -----------------------------
(***************************************************************************)
(* Delta sync of a project's issues.  A client loads the board once with a *)
(* cursor, then polls GET issues/delta: the live rows and the tombstones   *)
(* stamped after its cursor, and the next cursor.                          *)
(*                                                                         *)
(* Source: issues_delta in crates/api/src/backlog.rs, list_issues_delta    *)
(* and the issue writes in crates/db/src/backlog.rs, the modified_at       *)
(* trigger, the board query in crates/api/src/boards.rs.                   *)
(*                                                                         *)
(* modified_at is now(), the time a statement starts; its effect becomes   *)
(* visible later, when it commits, so a row's stamp may even go back.      *)
(* Labels, components, versions and customers (rels) are replaced by       *)
(* transactions of their own after the row's, as a rule without a stamp.   *)
(* Every poll reads the clock, the rows, their relations and the           *)
(* tombstones in four statements and no transaction.                       *)
(***************************************************************************)
EXTENDS Integers, FiniteSets

CONSTANTS
    Issues, Writers,    \* issues of one project, write handlers in flight
    NoCopy, NotShown,   \* the client has no copy: as a rule; left out by its board
    Overlap,            \* DELTA_OVERLAP_SECS
    Limit,              \* DELTA_PAGE_LIMIT
    Grace,              \* ERASE_GRACE_DAYS
    Lag,                \* longest time from a stamp to the handler's last write
    MaxTime, MaxWrites  \* bounds on the clock and the writes begun, for TLC

\* Overlap exceeds twice the longest handler: a reorder that waited Lag for
\* its row lock can turn a stamp back by Lag while an update of that row has
\* its relations still to write.
ASSUME IssueSyncAssumption ==
    /\ Overlap \in Nat /\ Limit \in Nat \ {0} /\ Grace \in Nat /\ Lag \in Nat
    /\ 2 * Lag < Overlap
    /\ MaxTime \in Nat /\ MaxWrites \in Nat
    /\ IsFiniteSet(Issues)

VARIABLES
    now,
    \* table issues: "none" before the insert, "purged" once its row is gone
    state, version, fields, mod,
    rels,       \* its rows in issue_labels, issue_components, ...
    \* write handlers: step, kind of write, rows it touches, version read, stamp
    pc, op, on, base, stamp,
    begun,      \* writes, and further transactions of a write, begun so far
    \* the client's copy of the project and its place in the scan
    held, cursor, more,
    \* the poll in flight: step, clock it read, the page, the cursor it will answer
    poll, start, page, got, next,
    unsent      \* history: tombstones a page had no room for

table == <<state, version, fields, mod, rels>>
writers == <<pc, op, on, base, stamp, begun>>
client == <<held, cursor, more>>
query == <<poll, start, page, got, next>>
vars == <<now, table, writers, client, query, unsent>>

Ops == {"create", "update", "restamp", "delete"}
Live == {i \in Issues : state[i] = "live"}
Deleted == {i \in Issues : state[i] = "deleted"}
Copy == [fields : Nat, rels : Nat]
Current(i) == [fields |-> fields[i], rels |-> rels[i]]

\* Some issues exist and the client has just loaded the board.
Init ==
    /\ now = 0
    /\ state \in [Issues -> {"none", "live"}]
    /\ version = [i \in Issues |-> IF state[i] = "live" THEN 1 ELSE 0]
    /\ fields = version
    /\ mod = [i \in Issues |-> 0] /\ rels = [i \in Issues |-> 0]
    /\ pc = [w \in Writers |-> "idle"] /\ op = [w \in Writers |-> "create"]
    /\ on = [w \in Writers |-> {}] /\ base = [w \in Writers |-> 0]
    /\ stamp = [w \in Writers |-> 0] /\ begun = 0
    /\ held = [i \in Issues |-> IF state[i] = "live" THEN Current(i) ELSE NoCopy]
    /\ cursor = 0 /\ more = FALSE
    /\ poll = "idle" /\ start = 0 /\ page = {} /\ next = 0
    /\ got = [i \in Issues |-> NoCopy]
    /\ unsent = {}

-----------------------------------------------------------------------------
(* Write handlers.  A statement takes its stamp when it starts.            *)

\* A handler's locals at the end of the step: its kind of write, the rows, the
\* version it read, its stamp.
Local(w, step, kind, S, v, t) ==
    /\ pc' = [pc EXCEPT ![w] = step]
    /\ op' = [op EXCEPT ![w] = kind]
    /\ on' = [on EXCEPT ![w] = S]
    /\ base' = [base EXCEPT ![w] = v]
    /\ stamp' = [stamp EXCEPT ![w] = t]

Done(w) == Local(w, "idle", "create", {}, 0, 0)

Start(w, kind, S) ==
    /\ begun < MaxWrites
    /\ begun' = begun + 1
    /\ Local(w, "sent", kind, S, base[w], now)
    /\ UNCHANGED <<now, table, client, query, unsent>>

\* The INSERT of create_issue; its id is new, so no other handler has it.
Create(w, i) ==
    /\ pc[w] = "idle" /\ state[i] = "none"
    /\ \A v \in Writers : pc[v] # "idle" => i \notin on[v]
    /\ Start(w, "create", {i})

\* update_issue reads the row and its version and validates the patch ...
ReadIssue(w, i) ==
    /\ pc[w] = "idle" /\ i \in Live /\ begun < MaxWrites
    /\ Local(w, "read", "update", {i}, version[i], 0)
    /\ UNCHANGED <<now, table, begun, client, query, unsent>>

\* ... and then sends its UPDATE.
SendUpdate(w) == pc[w] = "read" /\ Start(w, "update", on[w])

\* set_order, its renormalisation of the whole list, and the cascade of an
\* epic's milestone: rows are rewritten in one transaction, deleted ones too.
Restamp(w, S) ==
    /\ pc[w] = "idle" /\ S # {} /\ S \subseteq Live \cup Deleted
    /\ Start(w, "restamp", S)

SoftDelete(w, i) == pc[w] = "idle" /\ i \in Live /\ Start(w, "delete", {i})

\* The rows the statement still matches once it holds their locks.
Matched(w) ==
    CASE op[w] = "create"  -> on[w]
      [] op[w] = "update"  -> {i \in on[w] \cap Live : version[i] = base[w]}
      [] op[w] = "restamp" -> on[w] \cap (Live \cup Deleted)
      [] op[w] = "delete"  -> on[w] \cap Live

\* Mutant: the trigger does not fire for a soft delete.
set_modified_at_on_edit(w) ==
    [i \in Issues |-> IF i \in Matched(w) /\ op[w] # "delete" THEN stamp[w] ELSE mod[i]]

\* The trigger set_modified_at: now() is when the statement started.
set_modified_at(w) == [i \in Issues |-> IF i \in Matched(w) THEN stamp[w] ELSE mod[i]]

\* The statement commits.  A row's own fields change, its version with an
\* update only; create and update go on to the relations.
Commit(w) ==
    /\ pc[w] = "sent"
    /\ state' = [i \in Issues |-> IF i \notin Matched(w) THEN state[i]
                                  ELSE IF op[w] = "create" THEN "live"
                                  ELSE IF op[w] = "delete" THEN "deleted" ELSE state[i]]
    /\ version' = [i \in Issues |-> IF i \in Matched(w) /\ op[w] \in {"create", "update"}
                                    THEN version[i] + 1 ELSE version[i]]
    /\ fields' = [i \in Issues |-> IF i \in Matched(w) THEN fields[i] + 1 ELSE fields[i]]
    /\ mod' = set_modified_at(w)
    /\ IF op[w] \in {"create", "update"} /\ Matched(w) # {}
       THEN Local(w, "relations", op[w], Matched(w), 0, stamp[w])
       ELSE Done(w)
    /\ UNCHANGED <<now, rels, begun, client, query, unsent>>

\* One of the set_issue_* transactions of a write, which replaces one kind of
\* relation; another may follow.  The mirror of the release version, when it
\* changes, is an UPDATE of the row and stamps it with the transaction's start.
\* The rows are gone from a purged issue, and the insert fails.
WriteRelations(w) ==
    /\ pc[w] = "relations"
    /\ \E i \in on[w] :
        /\ state[i] # "purged"
        /\ rels' = [rels EXCEPT ![i] = @ + 1]
        /\ \E t \in {mod[i]} \cup stamp[w]..now : mod' = [mod EXCEPT ![i] = t]
    /\ \/ Done(w) /\ UNCHANGED begun
       \/ begun < MaxWrites /\ begun' = begun + 1 /\ UNCHANGED <<pc, op, on, base, stamp>>
    /\ UNCHANGED <<now, state, version, fields, client, query, unsent>>

\* The patch replaces no relations, or the handler fails before it does.
NoRelations(w) ==
    /\ pc[w] \in {"read", "relations"}
    /\ Done(w)
    /\ UNCHANGED <<now, table, begun, client, query, unsent>>

\* purge_project_issues: every row of the project and all that refers to it,
\* at once and without a trace; one of the writes the bound counts.
Purge ==
    /\ Live \cup Deleted # {}
    /\ begun < MaxWrites /\ begun' = begun + 1
    /\ state' = [i \in Issues |-> IF state[i] = "none" THEN "none" ELSE "purged"]
    /\ version' = [i \in Issues |-> 0] /\ fields' = [i \in Issues |-> 0]
    /\ mod' = [i \in Issues |-> 0] /\ rels' = [i \in Issues |-> 0]
    /\ UNCHANGED <<now, pc, op, on, base, stamp, client, query, unsent>>

-----------------------------------------------------------------------------
(* The client: a board load, then polls, one at a time.                    *)

\* The boundary issues_delta passes to the query.
overlapped == cursor - Overlap

\* db_now, read before the data on both paths.  A cursor older than the
\* grace window is refused and the client reloads.
db_now(kind) ==
    /\ poll = "idle"
    /\ kind = "delta" => now - cursor <= Grace
    /\ poll' = kind
    /\ start' = now
    /\ UNCHANGED <<now, table, writers, client, page, got, next, unsent>>

\* ORDER BY modified_at LIMIT: among equal stamps, any.
Pages(S) ==
    {P \in SUBSET S :
        /\ IF Cardinality(S) <= Limit THEN P = S ELSE Cardinality(P) = Limit
        /\ \A i \in P, j \in S \ P : mod[i] <= mod[j]}

\* Mutants: the cursor ignores that the page was cut; it is rounded up.
CursorsOfClock(P) == {start}
CursorsRounded(P) == {start + 1}

\* A full page answers with its last row's stamp, a partial one with the clock.
Cursors(P) ==
    IF Cardinality(P) >= Limit
    THEN {mod[k] : k \in {k \in P : \A i \in P : mod[i] <= mod[k]}}
    ELSE {start}

\* board_columns, cursor = the clock read before: of the live rows those the
\* filters let through, at the top level and within the limit of their column.
BoardRows ==
    /\ poll = "board"
    /\ poll' = "board_rels"
    /\ page' \in SUBSET Live /\ next' = start /\ start' = 0
    /\ got' = [i \in Issues |-> IF i \in page' THEN Current(i)
                               ELSE IF i \in Live THEN NotShown ELSE NoCopy]
    /\ UNCHANGED <<now, table, writers, client, unsent>>

DeltaRows ==
    /\ poll = "delta"
    /\ poll' = "delta_rels"
    /\ \E P \in Pages({i \in Live : mod[i] > overlapped}) :
        /\ page' = P /\ next' \in Cursors(P) /\ start' = 0
        /\ got' = [i \in Issues |-> IF i \in P THEN Current(i) ELSE NoCopy]
    /\ UNCHANGED <<now, table, writers, client, unsent>>

\* hydrate_issue_relations fills in the relations of the rows on the page.
Hydrated == [i \in Issues |-> IF i \in page THEN [got[i] EXCEPT !.rels = rels[i]]
                              ELSE got[i]]

Hydrate ==
    /\ poll = "delta_rels"
    /\ poll' = "delta_tombstones"
    /\ got' = Hydrated
    /\ UNCHANGED <<now, table, writers, client, start, page, next, unsent>>

PollDone ==
    /\ poll' = "idle" /\ start' = 0 /\ page' = {} /\ next' = 0
    /\ got' = [i \in Issues |-> NoCopy]

\* The board's last statement; the client replaces its copy by the answer.
HydrateBoard ==
    /\ poll = "board_rels"
    /\ held' = Hydrated /\ cursor' = next /\ more' = FALSE
    /\ unsent' = {}
    /\ PollDone
    /\ UNCHANGED <<now, table, writers>>

\* The tombstones, cut at Limit and without has_more; the client takes over
\* the rows, then drops what the tombstones name.
Tombstones ==
    /\ poll = "delta_tombstones"
    /\ LET dead == {i \in Deleted : mod[i] > overlapped}
       IN  \E T \in Pages(dead) :
            /\ held' = [i \in Issues |-> IF i \in T THEN NoCopy
                                         ELSE IF i \in page THEN got[i] ELSE held[i]]
            /\ unsent' = unsent \cup (dead \ T)
    /\ cursor' = next
    /\ more' = (Cardinality(page) >= Limit)
    /\ PollDone
    /\ UNCHANGED <<now, table, writers>>

\* A query of the poll fails: the client keeps its copy and its cursor.
PollFails ==
    /\ poll # "idle"
    /\ PollDone
    /\ UNCHANGED <<now, table, writers, client, unsent>>

-----------------------------------------------------------------------------
Tick ==
    /\ now < MaxTime
    /\ \A w \in Writers : pc[w] \in {"sent", "relations"} => now - stamp[w] < Lag
    /\ now' = now + 1
    /\ UNCHANGED <<table, writers, client, query, unsent>>

Write(w) ==
    \/ \E i \in Issues : Create(w, i) \/ ReadIssue(w, i) \/ SoftDelete(w, i)
    \/ SendUpdate(w) \/ Commit(w) \/ WriteRelations(w) \/ NoRelations(w)
    \/ \E S \in SUBSET Issues : Restamp(w, S)

Client ==
    \/ db_now("board") \/ db_now("delta") \/ BoardRows \/ DeltaRows \/ Hydrate
    \/ HydrateBoard \/ Tombstones \/ PollFails

Next == Tick \/ Purge \/ Client \/ \E w \in Writers : Write(w)

Spec == Init /\ [][Next]_vars
-----------------------------------------------------------------------------
(* Properties *)

Typed ==
    /\ now \in Nat
    /\ state \in [Issues -> {"none", "live", "deleted", "purged"}]
    /\ version \in [Issues -> Nat] /\ fields \in [Issues -> Nat]
    /\ mod \in [Issues -> Nat] /\ rels \in [Issues -> Nat]
    /\ pc \in [Writers -> {"idle", "read", "sent", "relations"}]
    /\ op \in [Writers -> Ops] /\ on \in [Writers -> SUBSET Issues]
    /\ base \in [Writers -> Nat] /\ stamp \in [Writers -> Nat] /\ begun \in Nat
    /\ held \in [Issues -> Copy \cup {NoCopy, NotShown}]
    /\ got \in [Issues -> Copy \cup {NoCopy, NotShown}]
    /\ cursor \in Nat /\ next \in Nat /\ start \in Nat /\ more \in BOOLEAN
    /\ poll \in {"idle", "board", "board_rels", "delta", "delta_rels", "delta_tombstones"}
    /\ page \subseteq Issues /\ unsent \subseteq Issues

Clocks ==
    /\ \A i \in Issues : mod[i] <= now
    /\ cursor <= now /\ next <= now /\ start <= now
    /\ \A w \in Writers :
        pc[w] \in {"sent", "relations"} => stamp[w] <= now /\ now - stamp[w] <= Lag

\* Every variable keeps its type; no stamp and no cursor the server hands out
\* is ahead of the database clock, and no write is in flight beyond Lag.
TypeOK == Typed /\ Clocks

\* A live issue stamped at or before the point the next delta starts from,
\* and so never delivered again unless it changes, is in the client's copy
\* with its latest fields and relations (list_issues_delta: what commits
\* concurrently is "re-delivered on the next round"), or its board left it out
\* and no delta has brought it since.
LiveDelivered ==
    \A i \in Live : mod[i] <= overlapped => held[i] \in {Current(i), NotShown}

\* A deleted issue whose tombstone the next delta will not repeat is gone from
\* the client's copy, or its tombstone did not fit on a page: the tombstone
\* query is cut at the page limit and has_more never tells.
TombstoneDelivered ==
    \A i \in Deleted : mod[i] <= overlapped => held[i] \in {NoCopy, NotShown} \/ i \in unsent

\* While an update has relations to write, another write may have turned the
\* stamp of its row back, but by Lag at most.
StampsNear ==
    \A w \in Writers : pc[w] = "relations" =>
        \A i \in on[w] \cap Live : mod[i] >= stamp[w] - Lag

\* The answer under way: what the next delta will not repeat is current on the
\* page or, off the page, left out by the board or in the client's copy already.
PollSound ==
    poll \in {"board_rels", "delta_rels", "delta_tombstones"} =>
        /\ \A i \in Issues : IF i \in page THEN got[i] \in Copy ELSE got[i] \in {NoCopy, NotShown}
        /\ \A i \in Live : mod[i] <= next - Overlap =>
            IF i \in page
            THEN /\ got[i].fields = fields[i]
                 /\ poll = "delta_tombstones" => got[i].rels = rels[i]
            ELSE IF poll = "board_rels" THEN got[i] = NotShown
            ELSE held[i] \in {Current(i), NotShown}
        /\ \A i \in Deleted : mod[i] <= next - Overlap => i \notin page

\* The inductive invariant behind the delivery guarantees.
SyncInv == TypeOK /\ LiveDelivered /\ TombstoneDelivered /\ StampsNear /\ PollSound

\* has_more and the cursor continue the scan (DELTA_PAGE_LIMIT): a page asked
\* for because the one before was full does not answer with the same cursor
\* and has_more again.
ScanAdvances ==
    [][Tombstones /\ more /\ more' => cursor' # cursor]_vars

=============================================================================
