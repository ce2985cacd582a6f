--------------------------- MODULE MilestoneDates ---------------------------
(***************************************************************************)
(* The dates of a milestone: planned and actual start and end, and the     *)
(* business release that trails the technical one.                         *)
(*                                                                         *)
(* Source: create, update and set_completed of crates/api/src/milestones.rs*)
(* their statements in crates/db/src/milestones.rs, and the CHECKs of      *)
(* V021__milestone_actual_end.sql and V029.  The handler checks the row it *)
(* expects to write and leaves the rest to the table's constraints.        *)
(***************************************************************************)
EXTENDS Integers, FiniteSetsExt

CONSTANTS
    Calendar,           \* dates
    Planners,       \* update handlers in flight
    NoDay, Same,    \* null, and a field that the patch leaves out
    Width,          \* most fields a patch names, for TLC
    MaxPlans        \* bound on the requests begun, for TLC

ASSUME MilestoneDatesAssumption ==
    /\ Calendar \subseteq Nat /\ Width \in Nat /\ MaxPlans \in Nat
    /\ NoDay \notin Calendar /\ Same \notin Calendar /\ NoDay # Same

Fields == {"start", "actual_start", "end", "actual_end", "business"}

VARIABLES
    dates,      \* field -> date or NoDay
    closed,     \* whether the milestone is completed
    dver,       \* its version
    planner,    \* handler -> [at, ver, patch]
    plans,      \* requests begun so far
    refusal     \* the table refused a write: "none", "orphan" or "other"

dateVars == <<dates, closed, dver, planner, plans, refusal>>

NoPlan == [at |-> "idle", ver |-> 0, patch |-> [f \in Fields |-> Same]]

-----------------------------------------------------------------------------
(* Rules of the handlers.                                                  *)

dates_ok(s, e) == s # NoDay /\ e # NoDay => e >= s

effective_end(planned, actual) == IF actual # NoDay THEN actual ELSE planned

business_release_ok(e, b) == b # NoDay => e # NoDay /\ b > e

\* The table's CHECKs (V021, V029).
TableAccepts(d) ==
    /\ d["business"] # NoDay =>
         LET e == IF d["actual_end"] # NoDay THEN d["actual_end"] ELSE d["end"] IN e # NoDay /\ d["business"] > e
    /\ d["actual_start"] # NoDay /\ d["actual_end"] # NoDay => d["actual_end"] >= d["actual_start"]

-----------------------------------------------------------------------------
\* The milestone is not there yet (version 0).
DateInit ==
    /\ dates = [f \in Fields |-> NoDay]
    /\ closed = FALSE /\ dver = 0
    /\ planner = [h \in Planners |-> NoPlan] /\ plans = 0 /\ refusal = "none"

\* create accepts a row whose actual end precedes its planned start.
create_dates(d) ==
    /\ dver = 0 /\ plans < MaxPlans /\ plans' = plans + 1
    /\ dates_ok(d["start"], d["end"]) /\ dates_ok(d["actual_start"], d["actual_end"])
    /\ business_release_ok(effective_end(d["end"], d["actual_end"]), d["business"])
    /\ IF TableAccepts(d) THEN dates' = d /\ dver' = 1 /\ refusal' = "none"
                          ELSE UNCHANGED <<dates, dver>> /\ refusal' = "other"
    /\ UNCHANGED <<closed, planner>>

\* The row after a patch.
Merged(d, p) == [f \in Fields |-> IF p[f] = Same THEN d[f] ELSE p[f]]

\* The row the handler checks: no technical end, no business release.
Expected(d, p) ==
    LET m == Merged(d, p) IN
    [m EXCEPT !["business"] = IF effective_end(m["end"], m["actual_end"]) = NoDay THEN NoDay ELSE @]

\* update reads the row, merges and checks; If-Match holds.
update_dates(h, p) ==
    LET m == Expected(dates, p) IN
    /\ dver > 0 /\ planner[h].at = "idle" /\ plans < MaxPlans
    /\ dates_ok(m["start"], m["end"]) /\ dates_ok(m["start"], m["actual_end"])
    /\ dates_ok(m["actual_start"], m["actual_end"])
    /\ business_release_ok(effective_end(m["end"], m["actual_end"]), m["business"])
    /\ planner' = [planner EXCEPT ![h] = [at |-> "write", ver |-> dver, patch |-> p]]
    /\ plans' = plans + 1 /\ refusal' = "none"
    /\ UNCHANGED <<dates, closed, dver>>

\* The UPDATE keeps a business release that the patch names, and otherwise
\* clears it together with the last technical end.
Written(d, p) == IF p["business"] # Same THEN Merged(d, p) ELSE Expected(d, p)

\* It matches the version that was read, or nothing; a row that breaks a
\* CHECK is a server error.
update_milestone(h) ==
    LET p == planner[h].patch
        row == Written(dates, p)
        hit == planner[h].ver = dver IN
    /\ planner[h].at = "write"
    /\ dates' = IF hit /\ TableAccepts(row) THEN row ELSE dates
    /\ dver' = IF hit /\ TableAccepts(row) THEN dver + 1 ELSE dver
    /\ refusal' = IF ~hit \/ TableAccepts(row) THEN "none"
                  ELSE IF row["business"] # NoDay /\ effective_end(row["end"], row["actual_end"]) = NoDay
                  THEN "orphan" ELSE "other"
    /\ planner' = [planner EXCEPT ![h] = NoPlan]
    /\ UNCHANGED <<closed, plans>>

\* Mutant: completing always records the planned end.
CloseCopies(d) == IF d["actual_end"] # NoDay THEN d["actual_end"] ELSE d["end"]

\* What completing records as the actual end.
close_end(d) ==
    IF d["actual_end"] # NoDay THEN d["actual_end"]
    ELSE IF d["actual_start"] = NoDay \/ (d["end"] # NoDay /\ d["end"] >= d["actual_start"]) THEN d["end"]
    ELSE NoDay

\* Completing and reopening are unguarded single statements.
close_milestone ==
    LET row == [dates EXCEPT !["actual_end"] = close_end(dates)] IN
    /\ dver > 0 /\ plans < MaxPlans /\ plans' = plans + 1
    /\ IF TableAccepts(row)
       THEN dates' = row /\ closed' = TRUE /\ dver' = dver + 1 /\ refusal' = "none"
       ELSE UNCHANGED <<dates, closed, dver>> /\ refusal' = "other"
    /\ UNCHANGED planner

reopen_milestone ==
    /\ dver > 0 /\ plans < MaxPlans /\ plans' = plans + 1
    /\ closed' = FALSE /\ dver' = dver + 1 /\ refusal' = "none"
    /\ UNCHANGED <<dates, planner>>

\* The patches of at most Width fields.
DatePatches ==
    UNION {[F -> Calendar \cup {NoDay}] : F \in UNION {kSubset(k, Fields) : k \in 1 .. Width}}
Patch(q) == [f \in Fields |-> IF f \in DOMAIN q THEN q[f] ELSE Same]

DateNext ==
    \/ \E h \in Planners : update_milestone(h) \/ \E q \in DatePatches : update_dates(h, Patch(q))
    \/ \E d \in [Fields -> Calendar \cup {NoDay}] : create_dates(d)
    \/ close_milestone \/ reopen_milestone

DateSpec == DateInit /\ [][DateNext]_dateVars

-----------------------------------------------------------------------------
(* Properties.                                                             *)

DateTypeOK ==
    /\ dates \in [Fields -> Calendar \cup {NoDay}] /\ closed \in BOOLEAN /\ dver \in Nat
    /\ \A h \in Planners : planner[h].at \in {"idle", "write"}
    /\ plans \in 0 .. MaxPlans /\ refusal \in {"none", "orphan", "other"}

\* "Mirrors the table CHECK, so the user gets a 422 rather than a 500": what
\* the handlers let through, concurrent completion included, the table takes,
\* except one patch: it names a business release and takes the last technical
\* end away, which the handler checks as if the release went too.
RefusalIsExplained == TableAccepts(dates) /\ refusal # "other"
=============================================================================
