---------------------------- MODULE TimeTracking ----------------------------
(***************************************************************************)
(* Timesheets: work and meeting entries of a project, absences of a        *)
(* person, months a manager locks, and the reports read from them.         *)
(*                                                                         *)
(* Source: crates/api/src/time_tracking.rs, crates/db/src/time_tracking.rs *)
(* and the constraints of V002, V012 and V024.                             *)
(*                                                                         *)
(* A member's handler reads the entry and the lock with queries of their   *)
(* own and writes later; a manager's handlers do not look at locks, so     *)
(* each is one step.  A day is a number; months and years have a fixed     *)
(* length.  The wording of notes is left out: only whether one was sent.   *)
(***************************************************************************)
EXTENDS Integers, FiniteSets, FiniteSetsExt

CONSTANTS
    Entries,            \* ids the database can hand out
    Bookings,           \* ids of absence bookings
    People, Loggers, Managers,      \* who holds time.log and time.manage
    Task, Project,      \* a project and a task of it
    Clerks,             \* members' handlers in flight
    NoOne,
    LastDay, MonthLength, YearLength, Weekend,
    MinutesLogged, Targets,         \* the amounts requests may name
    MaxTimeOps          \* bound on the requests begun, for TLC

ASSUME TimeAssumption ==
    /\ LastDay \in Nat \ {0} /\ MonthLength \in Nat \ {0} /\ YearLength \in Nat \ {0}
    /\ Managers \subseteq Loggers /\ Loggers \subseteq People
    /\ MinutesLogged \subseteq Nat \ {0} /\ Targets \subseteq Nat \ {0} /\ Targets # {} /\ MaxTimeOps \in Nat
    /\ IsFiniteSet(People) /\ NoOne \notin Entries \cup Bookings \cup People \cup {Task, Project}

VARIABLES
    timeEntry,      \* id -> row, or NoOne
    timeLock,       \* months of the project that are locked
    timeReq,        \* handler -> its request
    task,           \* "live", "deleted" or "gone"
    issued,         \* ids of entries and bookings handed out so far (uuidv7)
    allowance,      \* <<person, year>> -> days granted, 0 if no row
    workMinutes,    \* person -> daily target
    excluded,       \* people withheld from timesheet reports
    timeOps

timeVars == <<timeEntry, timeLock, timeReq, task, issued, allowance, workMinutes, excluded, timeOps>>

Days == 1 .. LastDay
month(d) == (d - 1) \div MonthLength
year(d) == month(d) \div YearLength
Months == {month(d) : d \in Days}
Years == {year(d) : d \in Days}
is_working_day(d) == d \notin Weekend

Absence == {"vacation", "illness"}
is_absence(k) == k \in Absence
TimeEntry == [user : People, kind : {"work", "meeting"} \cup Absence, proj : {Project, NoOne},
              iss : {Task, NoOne}, day : Days, mins : MinutesLogged \cup Targets,
              booking : Bookings \cup {NoOne}, ver : Nat]
AtRest == [at |-> "idle", op |-> "none", user |-> NoOne, entry |-> NoOne, seen |-> 0,
           ver |-> 0, row |-> NoOne, late |-> FALSE]

Stored == {e \in Entries : timeEntry[e] # NoOne}

TimeInit ==
    /\ timeEntry = [e \in Entries |-> NoOne] /\ timeLock = {}
    /\ timeReq = [h \in Clerks |-> AtRest] /\ task = "live" /\ issued = {}
    /\ allowance = [x \in People \X Years |-> 0]
    /\ workMinutes = [u \in People |-> CHOOSE n \in Targets : TRUE]
    /\ excluded = {} /\ timeOps = 0

-----------------------------------------------------------------------------
(* Statements.                                                             *)

\* The CHECK constraints of time_entries.
project_by_kind(r) ==
    /\ r.kind = "work" => r.proj # NoOne
    /\ is_absence(r.kind) => r.proj = NoOne

\* A fresh id: one that was deleted does not come back.
create_entry(r) ==
    /\ project_by_kind(r)
    /\ \E e \in Entries \ issued :
         timeEntry' = [timeEntry EXCEPT ![e] = r] /\ issued' = issued \cup {e}

\* Missing and Stale leave the row as it is.
update_entry(e, mins, d, v) ==
    IF e \in Stored /\ timeEntry[e].ver = v
    THEN timeEntry' = [timeEntry EXCEPT ![e].mins = mins, ![e].day = d, ![e].ver = @ + 1]
    ELSE UNCHANGED timeEntry

delete_entry(e) == timeEntry' = [timeEntry EXCEPT ![e] = NoOne]

is_locked(p, d) == p = Project /\ month(d) \in timeLock

\* What a member may not touch: a locked month of the project.
guard_locked(r, u) == is_locked(r.proj, r.day) => u \in Managers

\* Mutant: moving an entry only looks at the month it leaves.
MoveLooksBack(r, d, u) == guard_locked(r, u)

\* update_my_entry checks the month the entry is in and the one it goes to.
MayMove(r, d, u) == guard_locked(r, u) /\ guard_locked([r EXCEPT !.day = d], u)

-----------------------------------------------------------------------------
(* A member's own entries.                                                 *)

StartTime(h, rec) ==
    /\ timeReq[h].at = "idle" /\ timeOps < MaxTimeOps
    /\ timeReq' = [timeReq EXCEPT ![h] = rec] /\ timeOps' = timeOps + 1
    /\ UNCHANGED <<timeEntry, timeLock, task, issued, allowance, workMinutes, excluded>>

\* Requests that are answered in one step.
OneStep(h) == timeReq[h].at = "idle" /\ timeOps < MaxTimeOps /\ timeOps' = timeOps + 1

\* Requests in flight learn (for the property only) of a change under them:
\* a lock, or another version of the entry than the one they ask to replace.
LockCame == timeReq' = [h \in Clerks |-> [timeReq[h] EXCEPT !.late = @ \/ timeReq[h].at # "idle"]]
EntryChanged(e, rest) ==
    timeReq' = [h \in Clerks |->
        IF h \notin rest /\ timeReq[h].entry = e /\ (timeReq[h].op = "delete" \/ timeReq[h].ver # timeReq[h].seen)
        THEN [timeReq[h] EXCEPT !.late = TRUE]
        ELSE IF h \in rest THEN AtRest ELSE timeReq[h]]

log_my_time(h, u, k, t, p, d, mins, note) ==
    LET iss == IF k = "work" THEN t ELSE NoOne
        pr  == IF iss # NoOne THEN Project ELSE p
        r   == [user |-> u, kind |-> k, proj |-> pr, iss |-> iss, day |-> d, mins |-> mins,
                booking |-> NoOne, ver |-> 1] IN
    /\ iss # NoOne => task = "live"
    /\ k = "work" => pr # NoOne /\ (iss # NoOne \/ note)
    /\ pr # NoOne => u \in Loggers /\ guard_locked(r, u)
    /\ StartTime(h, [AtRest EXCEPT !.at = "checked", !.op = "log", !.user = u, !.row = r])

update_my_entry(h, u, e, mins, d, v) ==
    /\ e \in Stored /\ timeEntry[e].user = u
    /\ MayMove(timeEntry[e], d, u)
    /\ StartTime(h, [AtRest EXCEPT !.at = "checked", !.op = "update", !.user = u, !.entry = e,
                        !.seen = timeEntry[e].ver, !.ver = v,
                        !.row = [timeEntry[e] EXCEPT !.mins = mins, !.day = d]])

delete_my_entry(h, u, e) ==
    /\ e \in Stored /\ timeEntry[e].user = u /\ guard_locked(timeEntry[e], u)
    /\ StartTime(h, [AtRest EXCEPT !.at = "checked", !.op = "delete", !.user = u, !.entry = e])

\* The write that ends a member's handler.  A task purged meanwhile fails
\* the foreign key.
WriteMine(h) ==
    LET q == timeReq[h] IN
    /\ q.at = "checked"
    /\ \/ /\ q.op = "log"
          /\ IF q.row.iss # NoOne /\ task = "gone" THEN UNCHANGED <<timeEntry, issued>> ELSE create_entry(q.row)
          /\ timeReq' = [timeReq EXCEPT ![h] = AtRest]
       \/ /\ q.op = "update" /\ update_entry(q.entry, q.row.mins, q.row.day, q.ver)
          /\ IF timeEntry' = timeEntry THEN timeReq' = [timeReq EXCEPT ![h] = AtRest]
                                       ELSE EntryChanged(q.entry, {h})
          /\ UNCHANGED issued
       \/ /\ q.op = "delete" /\ delete_entry(q.entry) /\ UNCHANGED issued
          /\ timeReq' = [timeReq EXCEPT ![h] = AtRest]
    /\ UNCHANGED <<timeLock, task, allowance, workMinutes, excluded, timeOps>>

\* The rows of a booking: one for each day of the range that is worked.
booking_days(from, to, skip) == {d \in from .. to : ~skip \/ is_working_day(d)}

\* One transaction inserts them all; without an amount the target is used.
book_absence(h, u, k, from, to, mins, skip) ==
    LET days == booking_days(from, to, skip)
        amount == IF mins = 0 THEN workMinutes[u] ELSE mins IN
    /\ OneStep(h) /\ is_absence(k) /\ from <= to
    /\ \E b \in Bookings \ issued, at \in [days -> Entries \ issued] :
         /\ \A d1, d2 \in days : at[d1] = at[d2] => d1 = d2
         /\ issued' = issued \cup {b} \cup {at[d] : d \in days}
         /\ timeEntry' = [e \in Entries |->
                IF \E d \in days : at[d] = e
                THEN [user |-> u, kind |-> k, proj |-> NoOne, iss |-> NoOne,
                      day |-> CHOOSE d \in days : at[d] = e, mins |-> amount, booking |-> b, ver |-> 1]
                ELSE timeEntry[e]]
    /\ UNCHANGED <<timeLock, timeReq, task, allowance, workMinutes, excluded>>

\* Cancelling removes every row of the caller's booking; 404 if there is none.
delete_booking(h, u, b) ==
    LET rows == {e \in Stored : timeEntry[e].booking = b /\ timeEntry[e].user = u} IN
    /\ OneStep(h) /\ rows # {}
    /\ timeEntry' = [e \in Entries |-> IF e \in rows THEN NoOne ELSE timeEntry[e]]
    /\ UNCHANGED <<timeLock, timeReq, task, issued, allowance, workMinutes, excluded>>

-----------------------------------------------------------------------------
(* Managers and administrators.                                            *)

\* On behalf of a member; the task, if any, must be live in the project.
admin_log_time(h, u, t, d, mins) ==
    /\ OneStep(h) /\ u \in Loggers /\ (t # NoOne => task = "live")
    /\ create_entry([user |-> u, kind |-> "work", proj |-> Project, iss |-> t, day |-> d,
                     mins |-> mins, booking |-> NoOne, ver |-> 1])
    /\ UNCHANGED <<timeLock, timeReq, task, allowance, workMinutes, excluded>>

admin_update_entry(h, e, mins, d, v) ==
    /\ timeReq[h].at = "idle" /\ timeOps < MaxTimeOps /\ timeOps' = timeOps + 1
    /\ e \in Stored /\ timeEntry[e].proj = Project
    /\ update_entry(e, mins, d, v)
    /\ IF timeEntry' = timeEntry THEN UNCHANGED timeReq ELSE EntryChanged(e, {})
    /\ UNCHANGED <<timeLock, task, issued, allowance, workMinutes, excluded>>

admin_delete_entry(h, e) ==
    /\ OneStep(h) /\ e \in Stored /\ timeEntry[e].proj = Project
    /\ delete_entry(e)
    /\ UNCHANGED <<timeLock, timeReq, task, issued, allowance, workMinutes, excluded>>

\* Idempotent: the row of an earlier lock is returned.
lock_period(h, m) ==
    /\ timeReq[h].at = "idle" /\ timeOps < MaxTimeOps /\ timeOps' = timeOps + 1
    /\ timeLock' = timeLock \cup {m} /\ LockCame
    /\ UNCHANGED <<timeEntry, task, issued, allowance, workMinutes, excluded>>

unlock_period(h, m) ==
    /\ OneStep(h) /\ m \in timeLock
    /\ timeLock' = timeLock \ {m}
    /\ UNCHANGED <<timeEntry, timeReq, task, issued, allowance, workMinutes, excluded>>

\* set_user_allowance, set_user_work_settings and the exclusion flag of the
\* user administration.
upsert_allowance(h, u, y, n) ==
    /\ OneStep(h) /\ allowance' = [allowance EXCEPT ![<<u, y>>] = n]
    /\ UNCHANGED <<timeEntry, timeLock, timeReq, task, issued, workMinutes, excluded>>

set_work_minutes_per_day(h, u, n) ==
    /\ OneStep(h) /\ workMinutes' = [workMinutes EXCEPT ![u] = n]
    /\ UNCHANGED <<timeEntry, timeLock, timeReq, task, issued, allowance, excluded>>

set_exclusion(h, u) ==
    /\ OneStep(h)
    /\ excluded' = IF u \in excluded THEN excluded \ {u} ELSE excluded \cup {u}
    /\ UNCHANGED <<timeEntry, timeLock, timeReq, task, issued, allowance, workMinutes>>

\* The task is deleted, or purged: entries stay, without their task.
TaskGone(s) ==
    /\ timeOps < MaxTimeOps /\ timeOps' = timeOps + 1
    /\ task # "gone" /\ task # s /\ task' = s
    /\ timeEntry' = [e \in Entries |->
          IF s = "gone" /\ e \in Stored THEN [timeEntry[e] EXCEPT !.iss = NoOne] ELSE timeEntry[e]]
    /\ UNCHANGED <<timeLock, timeReq, issued, allowance, workMinutes, excluded>>

-----------------------------------------------------------------------------
(* Reports.                                                                *)

Minutes(S) == MapThenSumSet(LAMBDA e : timeEntry[e].mins, S)
Worked == {e \in Stored : timeEntry[e].kind \in {"work", "meeting"}}
InMonth(e, m) == month(timeEntry[e].day) = m

list_for_user(u, days) == {e \in Stored : timeEntry[e].user = u /\ timeEntry[e].day \in days}

list_for_project(days, scope) ==
    {e \in Worked : /\ timeEntry[e].proj = Project /\ timeEntry[e].day \in days
                    /\ scope = "ProjectWide" => timeEntry[e].user \notin excluded}

\* Mutant: the grid leaves meetings out.
TeamMonthWorkOnly(m) ==
    [u \in Loggers \ excluded |->
        Minutes({e \in Worked : timeEntry[e].kind = "work" /\ timeEntry[e].user = u
                                /\ timeEntry[e].proj = Project /\ InMonth(e, m)})]

\* Rows of the team grid: members who are not excluded (members hold
\* time.log here).
team_month(m) ==
    [u \in Loggers \ excluded |->
        Minutes({e \in Worked : timeEntry[e].user = u /\ timeEntry[e].proj = Project /\ InMonth(e, m)})]

global_team_month(m) ==
    [u \in People \ excluded |-> Minutes({e \in Worked : timeEntry[e].user = u /\ InMonth(e, m)})]

availability(d) ==
    {timeEntry[e].user : e \in {x \in Stored \ Worked : timeEntry[x].day = d}} \cap Loggers

issue_time(u, seeAll) ==
    Minutes({e \in list_for_project(Days, "IssueLevel") :
                timeEntry[e].iss = Task /\ (seeAll \/ timeEntry[e].user = u)})

DayMinutes(u, d) == Minutes(list_for_user(u, {d}))

\* Days up to today that fall short of the target; none for the excluded.
timesheet_summary(u, m, today) ==
    LET due == {d \in Days : month(d) = m /\ d <= today /\ is_working_day(d)}
        complete == {d \in due : DayMinutes(u, d) >= workMinutes[u]}
    IN  [logged |-> Minutes(list_for_user(u, {d \in Days : month(d) = m})),
         working |-> Cardinality(due), complete |-> Cardinality(complete),
         missing |-> IF u \in excluded THEN {} ELSE due \ complete]

\* In minutes: the code divides by the target.
vacation_balance(u, y) ==
    allowance[<<u, y>>] * workMinutes[u]
      - Minutes({e \in Stored : timeEntry[e].user = u /\ timeEntry[e].kind = "vacation"
                                /\ year(timeEntry[e].day) = y})

-----------------------------------------------------------------------------
TimeNext ==
    \/ \E h \in Clerks :
         \/ \E u \in People, d \in Days, mins \in MinutesLogged :
              \/ \E k \in {"work", "meeting"}, t \in {Task, NoOne}, p \in {Project, NoOne}, note \in BOOLEAN :
                   log_my_time(h, u, k, t, p, d, mins, note)
              \/ \E e \in Entries, v \in 1 .. MaxTimeOps : update_my_entry(h, u, e, mins, d, v)
              \/ \E t \in {Task, NoOne} : admin_log_time(h, u, t, d, mins)
         \/ \E u \in People, e \in Entries : delete_my_entry(h, u, e)
         \/ WriteMine(h)
         \/ \E u \in People, k \in Absence, from \in Days, to \in Days, mins \in {0} \cup MinutesLogged,
              skip \in BOOLEAN : book_absence(h, u, k, from, to, mins, skip)
         \/ \E u \in People, b \in Bookings : delete_booking(h, u, b)
         \/ \E e \in Entries, mins \in MinutesLogged, d \in Days, v \in 1 .. MaxTimeOps :
              admin_update_entry(h, e, mins, d, v)
         \/ \E e \in Entries : admin_delete_entry(h, e)
         \/ \E m \in Months : lock_period(h, m) \/ unlock_period(h, m)
         \/ \E u \in People, y \in Years, n \in Targets : upsert_allowance(h, u, y, n)
         \/ \E u \in People, n \in Targets : set_work_minutes_per_day(h, u, n)
         \/ \E u \in People : set_exclusion(h, u)
    \/ \E s \in {"deleted", "gone"} : TaskGone(s)

TimeSpec == TimeInit /\ [][TimeNext]_timeVars

-----------------------------------------------------------------------------
(* Properties.                                                             *)

TimeTypeOK ==
    /\ timeEntry \in [Entries -> TimeEntry \cup {NoOne}] /\ timeLock \subseteq Months
    /\ \A e \in Stored : project_by_kind(timeEntry[e])
    /\ \A h \in Clerks :
         /\ timeReq[h].at \in {"idle", "checked"} /\ timeReq[h].op \in {"none", "log", "update", "delete"}
         /\ timeReq[h].row \in TimeEntry \cup {NoOne} /\ timeReq[h].late \in BOOLEAN
    /\ task \in {"live", "deleted", "gone"} /\ Stored \subseteq issued /\ issued \subseteq Entries \cup Bookings
    /\ allowance \in [People \X Years -> Nat] /\ workMinutes \in [People -> Targets]
    /\ excluded \subseteq People /\ timeOps \in 0 .. MaxTimeOps

\* Someone without time.manage changes nothing in a locked month: their
\* write leaves its rows alone and puts none there, unless the lock, or a
\* change of the entry, came after their handler looked.
LockedMonthIsSealed ==
    [][\A h \in Clerks :
         timeReq[h].at = "checked" /\ timeReq'[h].at = "idle"
           /\ timeReq[h].user \notin Managers /\ ~timeReq[h].late
         => \A e \in Entries : timeEntry'[e] # timeEntry[e] =>
              \A r \in {timeEntry[e], timeEntry'[e]} \ {NoOne} : ~is_locked(r.proj, r.day)]_timeVars

\* The reports agree: the team grid with the project's list, the grid over
\* all projects with a person's own sheet (less absences), a task's hours
\* with the project's (excluded people counted), and vacation left with the
\* vacation listed.
ReportsAgree ==
    \A m \in Months :
      LET days == {d \in Days : month(d) = m} IN
      /\ \A u \in Loggers \ excluded :
           team_month(m)[u] = Minutes({e \in list_for_project(days, "ProjectWide") : timeEntry[e].user = u})
      /\ \A u \in People \ excluded :
           timesheet_summary(u, m, LastDay).logged =
             global_team_month(m)[u] + Minutes(list_for_user(u, days) \ Worked)
      /\ \A u \in People, d \in days :
           /\ u \in availability(d) => DayMinutes(u, d) > 0
           /\ d \in timesheet_summary(u, m, LastDay).missing => DayMinutes(u, d) < workMinutes[u]
      /\ issue_time(NoOne, TRUE) = MapThenSumSet(LAMBDA u : issue_time(u, FALSE), People)
      /\ \A u \in People, y \in Years :
           vacation_balance(u, y) + Minutes({e \in list_for_user(u, Days) :
               timeEntry[e].kind = "vacation" /\ year(timeEntry[e].day) = y}) = allowance[<<u, y>>] * workMinutes[u]
=============================================================================
