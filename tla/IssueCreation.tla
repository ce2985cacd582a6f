--------------------------- MODULE IssueCreation ----------------------------
(***************************************************************************)
(* How issues come into being: one by one under an Idempotency-Key, in     *)
(* bulk, and from an imported file.                                        *)
(*                                                                         *)
(* Source: create_issue, bulk_create_issues, replay and remember of        *)
(* crates/api/src/backlog.rs, alloc_ref and create_issue of                *)
(* crates/db/src/backlog.rs, crates/db/src/idempotency.rs and the first    *)
(* pass of import_commit in crates/api/src/issues_io.rs (the second one    *)
(* links the rows: Hierarchy).                                             *)
(*                                                                         *)
(* No handler opens a transaction: every statement is a step, and what was *)
(* written before a failure stays.  An issue is known by its ref.          *)
(***************************************************************************)
EXTENDS Integers, FiniteSets

CONSTANTS
    Keys,           \* Idempotency-Keys of one user
    Makers,         \* handlers in flight
    NoKey,          \* a request without the header
    Batch,          \* most rows of a bulk request or a file
    MaxMakes        \* bound on the requests begun, for TLC

ASSUME CreationAssumption ==
    Batch \in Nat \ {0} /\ MaxMakes \in Nat /\ NoKey \notin Keys

VARIABLES
    lastRef,    \* project_ref_counters.last_ref
    made,       \* issues: set of [ref, key, whole]
    saved,      \* idempotency_keys: key -> ref of the answer, 0 when absent
    names,      \* taxonomy values the import may create: SUBSET {"status"}
    maker,      \* handler -> its step
    makes,      \* requests begun so far
    excused     \* history: keys whose retry may create again

makeVars == <<lastRef, made, saved, names, maker, makes, excused>>

Waiting == [at |-> "idle", op |-> "none", key |-> NoKey, ref |-> 0, left |-> 0]

MakeInit ==
    /\ lastRef = 0 /\ made = {} /\ saved = [k \in Keys |-> 0] /\ names = {}
    /\ maker = [h \in Makers |-> Waiting] /\ makes = 0 /\ excused = {}

-----------------------------------------------------------------------------
BeginMake(h, rec) ==
    /\ maker[h].at = "idle" /\ makes < MaxMakes
    /\ makes' = makes + 1 /\ maker' = [maker EXCEPT ![h] = rec]

\* Requests with this key that have looked it up and not stored it.
Unfinished(k) == {h \in Makers : maker[h].key = k /\ maker[h].at # "idle"}

\* lookup: a stored answer that has not expired.
Answered(k) == k # NoKey /\ saved[k] # 0

\* create_issue, its checks passed: a stored answer is replayed and nothing
\* is created ...
replay(h, k) ==
    /\ Answered(k)
    /\ maker[h].at = "idle" /\ makes < MaxMakes
    /\ makes' = makes + 1
    /\ UNCHANGED <<lastRef, made, saved, names, maker, excused>>

\* ... otherwise the issue is created.  An error of the lookup is a miss too.
create_keyed(h, k, lookupFails) ==
    /\ Answered(k) => lookupFails
    /\ BeginMake(h, [Waiting EXCEPT !.at = "alloc", !.op = "one", !.key = k, !.left = 1])
    /\ excused' = IF k # NoKey /\ (lookupFails \/ Unfinished(k) # {}) THEN excused \cup {k} ELSE excused
    /\ UNCHANGED <<lastRef, made, saved, names>>

\* bulk_create_issues checks every item and then creates them in turn.
bulk_create_issues(h, n) ==
    /\ BeginMake(h, [Waiting EXCEPT !.at = "alloc", !.op = "bulk", !.left = n])
    /\ UNCHANGED <<lastRef, made, saved, names, excused>>

\* import_commit creates the taxonomy values the mapping asks for, unless a
\* value of that name was there when it listed them ...
import_rows(h, n) ==
    /\ BeginMake(h, [Waiting EXCEPT !.at = IF names = {} THEN "values" ELSE "alloc", !.op = "import", !.left = n])
    /\ UNCHANGED <<lastRef, made, saved, names, excused>>

\* ... a value that exists by then violates the unique slug and is left out.
build_value_map(h) ==
    /\ maker[h].at = "values"
    /\ names' = {"status"}
    /\ maker' = [maker EXCEPT ![h].at = "alloc"]
    /\ UNCHANGED <<lastRef, made, saved, makes, excused>>

-----------------------------------------------------------------------------
\* The next item of a batch, or the end of the request.
NextRow(m) == IF m.left > 1 THEN [m EXCEPT !.at = "alloc", !.left = m.left - 1] ELSE Waiting

\* One upsert takes the next number.
alloc_ref(h) ==
    /\ maker[h].at = "alloc"
    /\ lastRef' = lastRef + 1
    /\ maker' = [maker EXCEPT ![h].at = "insert", ![h].ref = lastRef + 1]
    /\ UNCHANGED <<made, saved, names, makes, excused>>

\* INSERT; the row is not whole until its relations are written, which an
\* import leaves to its second pass.
insert_issue(h) ==
    /\ maker[h].at = "insert"
    /\ made' = made \cup {[ref |-> maker[h].ref, key |-> maker[h].key, whole |-> FALSE]}
    /\ maker' = [maker EXCEPT ![h] = IF @.op = "import" THEN NextRow(@) ELSE [@ EXCEPT !.at = "relations"]]
    /\ UNCHANGED <<lastRef, saved, names, makes, excused>>

\* Labels, components, versions and customers, then the row is read back; the
\* next item of a batch follows, or the answer is stored.
set_relations(h) ==
    LET m == maker[h] IN
    /\ m.at = "relations"
    /\ made' = {IF r.ref = m.ref THEN [r EXCEPT !.whole = TRUE] ELSE r : r \in made}
    /\ maker' = [maker EXCEPT ![h] =
         IF m.key = NoKey THEN NextRow(m) ELSE [m EXCEPT !.at = "remember"]]
    /\ UNCHANGED <<lastRef, saved, names, makes, excused>>

\* Mutant: an answer is kept only where one was stored before.
RememberRefresh(h, ok) ==
    LET m == maker[h] IN
    /\ m.at = "remember"
    /\ saved' = IF ok /\ saved[m.key] # 0 THEN [saved EXCEPT ![m.key] = m.ref] ELSE saved
    /\ excused' = IF ok THEN excused ELSE excused \cup {m.key}
    /\ maker' = [maker EXCEPT ![h] = Waiting]
    /\ UNCHANGED <<lastRef, made, names, makes>>

\* store: the first answer wins; an error is only logged.
remember(h, ok) ==
    LET m == maker[h] IN
    /\ m.at = "remember"
    /\ saved' = IF ok /\ saved[m.key] = 0 THEN [saved EXCEPT ![m.key] = m.ref] ELSE saved
    /\ excused' = IF ok THEN excused ELSE excused \cup {m.key}
    /\ maker' = [maker EXCEPT ![h] = Waiting]
    /\ UNCHANGED <<lastRef, made, names, makes>>

\* A statement fails (500), validate_component_versions refuses after the
\* insert (422), or the process stops.
fail_make(h) ==
    LET m == maker[h] IN
    /\ m.at # "idle"
    /\ maker' = [maker EXCEPT ![h] = Waiting]
    /\ excused' = IF m.key # NoKey /\ m.at \in {"relations", "remember"} THEN excused \cup {m.key}
                  ELSE excused
    /\ UNCHANGED <<lastRef, made, saved, names, makes>>

\* A row of an import that cannot be created is skipped.
skip_row(h) ==
    /\ maker[h].op = "import" /\ maker[h].at \in {"alloc", "insert"} /\ maker[h].left > 1
    /\ maker' = [maker EXCEPT ![h] = NextRow(@)]
    /\ UNCHANGED <<lastRef, made, saved, names, makes, excused>>

\* The stored answer expires (IDEMPOTENCY_TTL_SECS).
key_expires(k) ==
    /\ saved[k] # 0
    /\ saved' = [saved EXCEPT ![k] = 0] /\ excused' = excused \cup {k}
    /\ UNCHANGED <<lastRef, made, names, maker, makes>>

MakeNext ==
    \/ \E h \in Makers :
         \/ \E k \in Keys \cup {NoKey} : replay(h, k) \/ \E f \in BOOLEAN : create_keyed(h, k, f)
         \/ \E n \in 1 .. Batch : bulk_create_issues(h, n) \/ import_rows(h, n)
         \/ build_value_map(h) \/ alloc_ref(h) \/ insert_issue(h) \/ set_relations(h)
         \/ \E ok \in BOOLEAN : remember(h, ok)
         \/ fail_make(h) \/ skip_row(h)
    \/ \E k \in Keys : key_expires(k)

MakeSpec == MakeInit /\ [][MakeNext]_makeVars

-----------------------------------------------------------------------------
(* Properties.                                                             *)

MakeTypeOK ==
    /\ lastRef \in Nat /\ saved \in [Keys -> Nat] /\ names \subseteq {"status"}
    /\ \A r \in made : r \in [ref : 1 .. lastRef, key : Keys \cup {NoKey}, whole : BOOLEAN]
    /\ \A h \in Makers :
         maker[h].at \in {"idle", "values", "alloc", "insert", "relations", "remember"}
    /\ makes \in 0 .. MaxMakes /\ excused \subseteq Keys

\* No ref is handed out twice: the row about to be inserted has one that no
\* other row has or is about to get.
RefIsFresh(h) ==
    /\ \A r \in made : r.ref # maker[h].ref
    /\ \A g \in Makers \ {h} : maker[g].at = "insert" => maker[g].ref # maker[h].ref

\* A retry under one Idempotency-Key makes no second issue unless the first
\* request was still running, failed after its insert, or its answer could
\* not be stored, read or had expired; a stored answer stands for an issue
\* that has all its relations; and every issue gets a ref of its own, however
\* single, bulk and imported creations interleave.
RetryMakesOne ==
    /\ \A k \in Keys \ excused : Cardinality({r \in made : r.key = k}) <= 1
    /\ \A k \in Keys : saved[k] # 0 => [ref |-> saved[k], key |-> k, whole |-> TRUE] \in made
    /\ \A h \in Makers : maker[h].at = "insert" => RefIsFresh(h)
=============================================================================
