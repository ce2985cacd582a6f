----------------------------- MODULE Hierarchy -----------------------------
(***************************************************************************)
(* The structure of a project's backlog: issues under parent issues and    *)
(* epics, epics in milestones.                                             *)
(*                                                                         *)
(* Source: the issue, epic and milestone handlers of crates/api            *)
(* (backlog.rs, milestones.rs, issues_io.rs), their statements in          *)
(* crates/db (backlog.rs, milestones.rs) and the two triggers of           *)
(* V019__milestone_rework.sql that copy an epic's milestone to its issues. *)
(*                                                                         *)
(* A handler checks with separate queries and then writes with a guarded   *)
(* statement.  A statement on an issue takes two steps: its BEFORE trigger *)
(* reads the epic (the row is locked from then on), and it commits later.  *)
(* A statement on an epic cascades to the committed issue rows it sees and *)
(* waits for those that are locked.                                        *)
(***************************************************************************)
EXTENDS Integers, FiniteSets

CONSTANTS
    Issues, Epics, Milestones,
    Editors,        \* handlers in flight
    Nil,
    Depth,          \* levels parent_chain_contains climbs (100 in the code)
    MaxEdits        \* bound on the requests begun, for TLC

ASSUME HierarchyAssumption ==
    /\ Depth \in Nat \ {0} /\ MaxEdits \in Nat
    /\ Nil \notin Issues \cup Epics \cup Milestones

VARIABLES
    issue,      \* id -> [st, ver, par, epc, mil]
    epic,       \* id -> [st, ver, mil]
    milestone,  \* id -> "none", "open", "closed" or "deleted"
    edit,       \* handler -> its step and what it is about to write
    edits,      \* requests begun so far
    late,       \* history: what committed since a handler's checks, or "walk":
                \* the check for a cycle was not answered
    raced       \* history: the overlaps and failed walks written through

treeVars == <<issue, epic, milestone, edit, edits, late, raced>>

IssueRow == [st : {"none", "live", "deleted"}, ver : Nat, par : Issues \cup {Nil},
             epc : Epics \cup {Nil}, mil : Milestones \cup {Nil}]
EpicRow == [st : {"none", "live", "deleted"}, ver : Nat, mil : Milestones \cup {Nil}]
Idle == [at |-> "idle", op |-> "none", row |-> Nil, ver |-> 0, par |-> Nil, epc |-> Nil,
         mil |-> Nil, set |-> {}]
Edit == [at : {"idle", "read", "checked", "wrote", "attach"},
         op : {"none", "create", "update", "link", "epic", "drop", "fill", "delete"},
         row : Issues \cup Epics \cup Milestones \cup {Nil}, ver : Nat,
         par : Issues \cup {Nil}, epc : Epics \cup {Nil},
         mil : Milestones \cup {Nil}, set : SUBSET Epics]

LiveIssues == {i \in Issues : issue[i].st = "live"}
LiveEpics == {e \in Epics : epic[e].st = "live"}
LiveMilestones == {m \in Milestones : milestone[m] \in {"open", "closed"}}
Open == {m \in Milestones : milestone[m] = "open"}

\* Some issues and epics exist; the milestone of every issue is its epic's.
TreeInit ==
    /\ issue = [i \in Issues |-> [st |-> "live", ver |-> 1, par |-> Nil, epc |-> Nil, mil |-> Nil]]
    /\ epic = [e \in Epics |-> [st |-> "live", ver |-> 1, mil |-> Nil]]
    /\ milestone = [m \in Milestones |-> "open"]
    /\ edit = [h \in Editors |-> Idle] /\ edits = 0
    /\ late = [h \in Editors |-> {}] /\ raced = {}

-----------------------------------------------------------------------------
(* Checks.                                                                 *)

\* The ancestors of p, itself first: live rows only, no more than n levels.
Climb(p, n) ==
    LET up[k \in 1 .. n] ==
            LET q == IF k = 1 THEN p ELSE IF up[k - 1] = Nil THEN Nil ELSE issue[up[k - 1]].par
            IN  IF q \in LiveIssues THEN q ELSE Nil
    IN  up

\* Mutant: the walk gives up one level early.
ChainContainsShort(p, i) == \E k \in 1 .. Depth - 1 : Climb(p, Depth)[k] = i

parent_chain_contains(p, i) == \E k \in 1 .. Depth : Climb(p, Depth)[k] = i

\* Parent and epic must be in the project; nil is always allowed.
validate_issue_associations(e, p) == e \in LiveEpics \cup {Nil} /\ p \in LiveIssues \cup {Nil}

\* A query fails, and its answer counts as no: unwrap_or(false).
is_closed(m, blind) == ~blind /\ m \notin Open

\* An epic may join a milestone that is live and not completed, or none.
validate_epic_milestone_assignment(m, blind) == m = Nil \/ (m \in LiveMilestones /\ ~is_closed(m, blind))

-----------------------------------------------------------------------------
(* Handlers.                                                               *)

Begin(h, rec) ==
    /\ edit[h].at = "idle" /\ edits < MaxEdits
    /\ edits' = edits + 1
    /\ edit' = [edit EXCEPT ![h] = rec]
    /\ late' = [late EXCEPT ![h] = {}]

\* Nobody else is between its statement and its commit on this issue.
Unlocked(i) == \A g \in Editors : edit[g].at = "wrote" => edit[g].row # i

\* Handlers other than h learn (for the properties only) that w changed.
Tell(h, w) ==
    late' = [g \in Editors |-> IF g = h THEN {} ELSE IF edit[g].at = "idle" THEN late[g] ELSE late[g] \cup {w}]

\* create_issue validates its associations, then allocates and inserts.
create_issue(h, i, e, p) ==
    /\ issue[i].st = "none" /\ \A g \in Editors : edit[g].row # i
    /\ validate_issue_associations(e, p)
    /\ Begin(h, [Idle EXCEPT !.at = "checked", !.op = "create", !.row = i, !.par = p, !.epc = e])
    /\ UNCHANGED <<issue, epic, milestone, raced>>

\* update_issue reads the row and compares If-Match with its version ...
update_issue(h, i) ==
    /\ i \in LiveIssues
    /\ Begin(h, [Idle EXCEPT !.at = "read", !.op = "update", !.row = i, !.ver = issue[i].ver,
                             !.par = issue[i].par, !.epc = issue[i].epc])
    /\ UNCHANGED <<issue, epic, milestone, raced>>

\* ... then checks what the patch changes: associations, own parent, cycle.
\* A walk whose query fails (blind) is taken to have met no cycle.
CheckPatch(h, e, p, blind) ==
    LET r == edit[h]
        walked == p # r.par /\ p # Nil IN
    /\ r.at = "read" /\ r.op = "update"
    /\ validate_issue_associations(IF e # r.epc THEN e ELSE Nil, IF p # r.par THEN p ELSE Nil)
    /\ p # r.row
    /\ walked => blind \/ ~parent_chain_contains(p, r.row)
    /\ edit' = [edit EXCEPT ![h] = [r EXCEPT !.at = "checked", !.par = p, !.epc = e]]
    /\ late' = [late EXCEPT ![h] = IF walked /\ blind THEN {"walk"} ELSE {}]
    /\ UNCHANGED <<issue, epic, milestone, edits, raced>>

\* The second pass of an import links the rows it created, unguarded; the
\* file may name any of them as the parent, a row itself included.
import_commit(h, i, e, p) ==
    /\ issue[i].st # "none" /\ <<e, p>> # <<Nil, Nil>>
    /\ Begin(h, [Idle EXCEPT !.at = "checked", !.op = "link", !.row = i,
                             !.par = IF p = Nil THEN issue[i].par ELSE p,
                             !.epc = IF e = Nil THEN issue[i].epc ELSE e])
    /\ UNCHANGED <<issue, epic, milestone, raced>>

\* The rows the statement of h matches.
IssueMatch(h) ==
    LET r == edit[h] IN
    CASE r.op = "create" -> TRUE
      [] r.op = "update" -> issue[r.row].st = "live" /\ issue[r.row].ver = r.ver
      [] r.op = "link"   -> issue[r.row].st # "none"

\* Trigger issue_milestone_from_epic.
issue_milestone_from_epic(e) == IF e \in LiveEpics THEN epic[e].mil ELSE Nil

\* The statement runs: it locks the row and its trigger reads the epic.  The
\* foreign keys must hold; a miss is answered 404 or 412.
IssueStatement(h) ==
    LET r == edit[h] IN
    /\ r.at = "checked" /\ r.op \in {"create", "update", "link"} /\ Unlocked(r.row)
    /\ IF /\ IssueMatch(h)
          /\ r.par # Nil => issue[r.par].st # "none"
          /\ r.epc # Nil => epic[r.epc].st # "none"
       THEN edit' = [edit EXCEPT ![h] = [r EXCEPT !.at = "wrote", !.mil = issue_milestone_from_epic(r.epc)]]
       ELSE edit' = [edit EXCEPT ![h] = Idle]
    /\ UNCHANGED <<issue, epic, milestone, edits, late, raced>>

\* ... and commits.
IssueCommit(h) ==
    LET r == edit[h] IN
    /\ r.at = "wrote"
    /\ issue' = [issue EXCEPT ![r.row] =
                    [st |-> IF r.op = "create" THEN "live" ELSE @.st,
                     ver |-> IF r.op = "link" THEN @.ver ELSE @.ver + 1,
                     par |-> r.par, epc |-> r.epc, mil |-> r.mil]]
    /\ edit' = [edit EXCEPT ![h] = Idle]
    /\ Tell(h, "parents")
    /\ raced' = raced \cup (IF late[h] \cap {"parents", "walk"} # {} \/ r.op = "link" THEN {"cycle"} ELSE {})
                      \cup (IF "epics" \in late[h] THEN {"drift"} ELSE {})
    /\ UNCHANGED <<epic, milestone, edits>>

\* delete_entity on an issue: one guarded UPDATE.
delete_issue(h, i) ==
    /\ edit[h].at = "idle" /\ edits < MaxEdits /\ i \in LiveIssues /\ Unlocked(i)
    /\ issue' = [issue EXCEPT ![i].st = "deleted", ![i].mil = issue_milestone_from_epic(issue[i].epc)]
    /\ edits' = edits + 1
    /\ UNCHANGED <<epic, milestone, edit, late, raced>>

\* purge_issues removes every row; children lose their parent.
purge_project_issues(h) ==
    /\ edit[h].at = "idle" /\ edits < MaxEdits
    /\ \A g \in Editors : edit[g].at # "wrote"
    /\ issue' = [i \in Issues |-> [st |-> "none", ver |-> 0, par |-> Nil, epc |-> Nil, mil |-> Nil]]
    /\ edits' = edits + 1
    /\ UNCHANGED <<epic, milestone, edit, late, raced>>

-----------------------------------------------------------------------------
(* Epics and milestones.                                                   *)

\* The epics whose milestone or deletion a statement changes: the trigger's
\* WHEN.  An epic that is inserted has no issues yet.
Moved(rows) == {e \in Epics : rows[e].mil # epic[e].mil \/ (rows[e].st = "live") # (epic[e].st = "live")}

\* Mutant: a deleted epic keeps its issues in its milestone.
CascadeIgnoresDelete(rows) ==
    [i \in Issues |-> IF issue[i].epc \in Moved(rows)
                      THEN [issue[i] EXCEPT !.mil = rows[issue[i].epc].mil] ELSE issue[i]]

\* Trigger epic_milestone_cascade: the committed issues of a moved epic follow
\* it (rows holds the epics after the statement).
epic_milestone_cascade(rows) ==
    [i \in Issues |-> IF issue[i].epc \in Moved(rows)
                      THEN [issue[i] EXCEPT !.mil = IF rows[issue[i].epc].st = "live"
                                                    THEN rows[issue[i].epc].mil ELSE Nil]
                      ELSE issue[i]]

\* A statement on epics: writes rows, cascades, waits for the locked issues
\* that the cascade changes.
EpicStatement(rows) ==
    /\ \A i \in Issues : epic_milestone_cascade(rows)[i] # issue[i] => Unlocked(i)
    /\ epic' = rows
    /\ issue' = epic_milestone_cascade(rows)

\* create_epic validates the milestone, then inserts.
create_epic(h, e, m, blind) ==
    /\ epic[e].st = "none" /\ \A g \in Editors : edit[g].row # e
    /\ validate_epic_milestone_assignment(m, blind)
    /\ Begin(h, [Idle EXCEPT !.at = "checked", !.op = "epic", !.row = e, !.mil = m])
    /\ UNCHANGED <<issue, epic, milestone, raced>>

\* update_epic reads the row and guards an actual move only.
update_epic(h, e, m, blind) ==
    /\ e \in LiveEpics
    /\ m # epic[e].mil => validate_epic_milestone_assignment(m, blind)
    /\ Begin(h, [Idle EXCEPT !.at = "checked", !.op = "epic", !.row = e, !.ver = epic[e].ver, !.mil = m])
    /\ UNCHANGED <<issue, epic, milestone, raced>>

\* The INSERT, or the UPDATE guarded by the version.
WriteEpic(h) ==
    LET r == edit[h]
        hit == (r.ver = 0 \/ epic[r.row].st = "live") /\ epic[r.row].ver = r.ver IN
    /\ r.at = "checked" /\ r.op = "epic"
    /\ IF hit THEN EpicStatement([epic EXCEPT ![r.row] = [st |-> "live", ver |-> r.ver + 1, mil |-> r.mil]])
              ELSE UNCHANGED <<epic, issue>>
    /\ edit' = [edit EXCEPT ![h] = Idle]
    /\ IF hit THEN Tell(h, "epics") ELSE UNCHANGED late
    /\ raced' = raced \cup (IF hit /\ r.mil # Nil /\ "milestones" \in late[h] THEN {"orphan"} ELSE {})
    /\ UNCHANGED <<milestone, edits>>

\* delete_entity on an epic.
delete_epic(h, e) ==
    /\ edit[h].at = "idle" /\ edits < MaxEdits /\ e \in LiveEpics
    /\ EpicStatement([epic EXCEPT ![e].st = "deleted"])
    /\ Tell(h, "epics") /\ edits' = edits + 1
    /\ UNCHANGED <<milestone, edit, raced>>

\* purge_epics removes every epic; issues stay, detached.
purge_project_epics(h) ==
    /\ edit[h].at = "idle" /\ edits < MaxEdits
    /\ \A g \in Editors : edit[g].at # "wrote"
    /\ epic' = [e \in Epics |-> [st |-> "none", ver |-> 0, mil |-> Nil]]
    /\ issue' = [i \in Issues |-> [issue[i] EXCEPT !.epc = Nil, !.mil = Nil]]
    /\ edits' = edits + 1
    /\ UNCHANGED <<milestone, edit, late, raced>>

\* PUT milestones/{id}/epics checks the milestone ...
set_epics(h, m, S, blind) ==
    /\ m \in LiveMilestones /\ (S # {} => ~is_closed(m, blind))
    /\ Begin(h, [Idle EXCEPT !.at = "checked", !.op = "fill", !.row = m, !.mil = m, !.set = S])
    /\ UNCHANGED <<issue, epic, milestone, raced>>

\* ... detaches every epic, and then attaches the given ones.
set_milestone_epics(h) ==
    LET r == edit[h]
        hit == IF r.at = "checked" THEN {e \in LiveEpics : epic[e].mil = r.mil} ELSE r.set \cap LiveEpics IN
    /\ r.at \in {"checked", "attach"} /\ r.op = "fill"
    /\ EpicStatement([e \in Epics |-> IF e \in hit
                        THEN [epic[e] EXCEPT !.mil = IF r.at = "checked" THEN Nil ELSE r.mil] ELSE epic[e]])
    /\ edit' = [edit EXCEPT ![h] = IF r.at = "checked" /\ r.set # {} THEN [r EXCEPT !.at = "attach"] ELSE Idle]
    /\ late' = [g \in Editors |-> IF g # h /\ edit[g].at # "idle" THEN late[g] \cup {"epics"} ELSE late[g]]
    /\ raced' = raced \cup (IF r.at = "attach" /\ hit # {} /\ "milestones" \in late[h] THEN {"orphan"} ELSE {})
    /\ UNCHANGED <<milestone, edits>>

\* Completing and reopening are single statements.
set_completed(h, m, s) ==
    /\ edit[h].at = "idle" /\ edits < MaxEdits
    /\ m \in LiveMilestones /\ s \in {"open", "closed"} \ {milestone[m]}
    /\ milestone' = [milestone EXCEPT ![m] = s]
    /\ Tell(h, "milestones") /\ edits' = edits + 1
    /\ UNCHANGED <<issue, epic, edit, raced>>

has_epics(m) == \E e \in LiveEpics : epic[e].mil = m

\* delete refuses while epics compose the milestone, then soft-deletes.
delete_milestone(h, m) ==
    /\ m \in LiveMilestones /\ ~has_epics(m)
    /\ Begin(h, [Idle EXCEPT !.at = "checked", !.op = "delete", !.row = m])
    /\ UNCHANGED <<issue, epic, milestone, raced>>

soft_delete_milestone(h) ==
    LET m == edit[h].row IN
    /\ edit[h].at = "checked" /\ edit[h].op = "delete"
    /\ milestone' = [milestone EXCEPT ![m] = IF m \in LiveMilestones THEN "deleted" ELSE @]
    /\ edit' = [edit EXCEPT ![h] = Idle]
    /\ Tell(h, "milestones")
    /\ raced' = raced \cup (IF "epics" \in late[h] THEN {"orphan"} ELSE {})
    /\ UNCHANGED <<issue, epic, edits>>

\* A check refuses, or a query fails: the handler answers and stops.
GiveUp(h) ==
    /\ edit[h].at # "idle"
    /\ edit' = [edit EXCEPT ![h] = Idle]
    /\ UNCHANGED <<issue, epic, milestone, edits, late, raced>>

-----------------------------------------------------------------------------
TreeNext == \E h \in Editors :
    \/ \E i \in Issues, e \in Epics \cup {Nil}, p \in Issues \cup {Nil} :
         create_issue(h, i, e, p) \/ import_commit(h, i, e, p)
    \/ \E i \in Issues : update_issue(h, i) \/ delete_issue(h, i)
    \/ \E e \in Epics \cup {Nil}, p \in Issues \cup {Nil}, blind \in BOOLEAN : CheckPatch(h, e, p, blind)
    \/ IssueStatement(h) \/ IssueCommit(h) \/ purge_project_issues(h)
    \/ \E e \in Epics, m \in Milestones \cup {Nil}, blind \in BOOLEAN :
         create_epic(h, e, m, blind) \/ update_epic(h, e, m, blind)
    \/ \E e \in Epics : delete_epic(h, e)
    \/ WriteEpic(h) \/ purge_project_epics(h)
    \/ \E m \in Milestones, S \in SUBSET Epics, blind \in BOOLEAN : set_epics(h, m, S, blind)
    \/ set_milestone_epics(h)
    \/ \E m \in Milestones, s \in {"open", "closed"} : set_completed(h, m, s)
    \/ \E m \in Milestones : delete_milestone(h, m)
    \/ soft_delete_milestone(h) \/ GiveUp(h)

TreeSpec == TreeInit /\ [][TreeNext]_treeVars

-----------------------------------------------------------------------------
(* Properties.                                                             *)

TreeTypeOK ==
    /\ issue \in [Issues -> IssueRow] /\ epic \in [Epics -> EpicRow]
    /\ milestone \in [Milestones -> {"none", "open", "closed", "deleted"}]
    /\ edit \in [Editors -> Edit] /\ edits \in 0 .. MaxEdits
    /\ late \in [Editors -> SUBSET {"parents", "epics", "milestones", "walk"}]
    /\ raced \subseteq {"cycle", "drift", "orphan"}

\* update_issue keeps the live hierarchy free of cycles no longer than the
\* walk of parent_chain_contains: one needs a parent written between another
\* handler's walk and its write, a walk whose query failed and which the
\* handler takes for an answer, or the links of an import.
CycleNeedsCause ==
    (\E i \in LiveIssues, n \in 1 .. Depth : Climb(i, n + 1)[n + 1] = i) => "cycle" \in raced

\* The milestone of every issue is its live epic's (the triggers of V019).
MilestoneFollowsEpic ==
    \A i \in Issues : issue[i].st # "none" => issue[i].mil = issue_milestone_from_epic(issue[i].epc)

\* A deleted milestone has no live epic.
DeletedMilestoneIsEmpty ==
    \A e \in LiveEpics : epic[e].mil = Nil \/ milestone[epic[e].mil] # "deleted"

\* They fail only where two requests overlapped: an epic changed while the
\* statement that put the issue under it had not committed, or was assigned
\* between the checks and the write of a milestone's deletion.
DriftNeedsOverlap ==
    /\ MilestoneFollowsEpic \/ "drift" \in raced
    /\ DeletedMilestoneIsEmpty \/ "orphan" \in raced
=============================================================================
