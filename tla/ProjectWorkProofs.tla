-------------------------- MODULE ProjectWorkProofs --------------------------
(***************************************************************************)
(* Proofs about the components of a project's work, each for any number of *)
(* handlers, rows and requests.                                            *)
(*                                                                         *)
(* TimeTracking: RequestsOK says what a member's handler may still rely on *)
(* after its checks.  The reports add minutes over sets of rows: the fold  *)
(* over a finite set gives a sum of any of its elements and the rest, so   *)
(* that rows cut in two ways give the same total.                          *)
(*                                                                         *)
(* Hierarchy: DriftOK and OrphanOK say which handler in flight may still   *)
(* put an issue under another milestone than its epic's, or an epic under  *)
(* a deleted milestone, before the history records the overlap.  LoopInv   *)
(* follows the parents: the recursion of the climb is turned into chains   *)
(* of issues, and of these a new edge, a new leaf and fewer edges are      *)
(* shown to close no loop.                                                 *)
(*                                                                         *)
(* IssueCreation: RefsOK gives every ref one owner, a row or a handler;    *)
(* KeyOK gives an unexcused Idempotency-Key one request before its INSERT  *)
(* and one row after it.                                                   *)
(*                                                                         *)
(* MilestoneDates: PlansOK carries a handler's checks over to its UPDATE   *)
(* by the version the row had.                                             *)
(*                                                                         *)
(* Releases: the invariant types the versions and the handlers; the steps  *)
(* that move the mirror need the minimum of a finite set of versions, from *)
(* the least-number principle.                                             *)
(*                                                                         *)
(* Taxonomy: every list holds distinct items and every rank lies within a  *)
(* span that grows by one Gap per request that ended, so that a midpoint   *)
(* is a number; a move nobody overlapped leaves its list as Target says.   *)
(*                                                                         *)
(* EventStream: what a consumer has been sent, what waits for it and what  *)
(* it still has to fetch account for every write of its board.             *)
(*                                                                         *)
(* MCProjectWork: a step of the whole is a step of one component and       *)
(* leaves the others alone, so each theorem holds of the composition.      *)
(***************************************************************************)
EXTENDS MCProjectWork, FiniteSetTheorems, SequenceTheorems, WellFoundedInduction, TLAPS

(* TimeTracking: what the invariant says.                                  *)

Request == [at : {"idle", "checked"}, op : {"none", "log", "update", "delete"}, user : People \cup {NoOne},
            entry : Entries \cup {NoOne}, seen : Nat, ver : Nat, row : TimeEntry \cup {NoOne}, late : BOOLEAN]

Free(r) == ~is_locked(r.proj, r.day)

\* Versions only grow, and ids do not come back: the entry a handler has
\* read is the one it named, or gone.
RequestOK(q) ==
    /\ q.op \in {"log", "update"} => q.row \in TimeEntry
    /\ q.op \in {"update", "delete"} => q.entry \in Entries \cap issued
    /\ q.op = "update" /\ q.entry \in Stored => timeEntry[q.entry].ver >= q.seen

\* What a member was allowed to touch stays outside the locked months until
\* a lock, or a change of the entry, overtakes the handler.
RequestSealed(q) ==
    q.at = "checked" /\ ~q.late /\ q.user \notin Managers =>
        /\ q.op = "log" => Free(q.row)
        /\ q.op = "delete" /\ q.entry \in Stored => Free(timeEntry[q.entry])
        /\ q.op = "update" /\ q.entry \in Stored =>
             /\ q.ver # q.seen => timeEntry[q.entry].ver = q.seen
             /\ timeEntry[q.entry].ver = q.seen =>
                  Free(timeEntry[q.entry]) /\ Free([timeEntry[q.entry] EXCEPT !.day = q.row.day])

RequestsOK ==
    /\ timeReq \in [Clerks -> Request]
    /\ \A h \in Clerks : RequestOK(timeReq[h]) /\ RequestSealed(timeReq[h])

TimeInv == TimeTypeOK /\ RequestsOK

-----------------------------------------------------------------------------
(* TimeTracking: what a change of the entries means to a handler.          *)

\* The entry is gone, or its project, day and version are what they were;
\* an id that had not been handed out is nobody's.
Kept(e) ==
    \/ timeEntry'[e] = NoOne \/ e \notin issued
    \/ /\ timeEntry[e] # NoOne /\ timeEntry'[e].proj = timeEntry[e].proj
       /\ timeEntry'[e].day = timeEntry[e].day /\ timeEntry'[e].ver = timeEntry[e].ver

Grown(e) ==
    \/ timeEntry'[e] = NoOne \/ e \notin issued
    \/ timeEntry[e] # NoOne /\ timeEntry'[e].ver \in Nat /\ timeEntry'[e].ver >= timeEntry[e].ver

LEMMA RowsAreTyped ==
    ASSUME TimeInv, NEW e \in Entries, timeEntry[e] # NoOne
    PROVE  timeEntry[e] \in TimeEntry /\ timeEntry[e].ver \in Nat /\ e \in Stored /\ e \in issued
  BY DEF TimeInv, TimeTypeOK, TimeEntry, Stored

LEMMA StillOK ==
    ASSUME TimeInv, NEW q \in Request, RequestOK(q), issued \subseteq issued',
           q.entry \in Entries => Grown(q.entry)
    PROVE  RequestOK(q)'
  <1>1. q.op \in {"log", "update"} => q.row \in TimeEntry
    BY DEF RequestOK
  <1>2. q.op \in {"update", "delete"} => q.entry \in Entries \cap issued'
    BY DEF RequestOK
  <1>3. ASSUME q.op = "update", q.entry \in Stored' PROVE timeEntry'[q.entry].ver >= q.seen
    <2>1. q.entry \in Entries \cap issued /\ timeEntry'[q.entry] # NoOne
      BY <1>3 DEF RequestOK, Stored
    <2>2. /\ timeEntry[q.entry] # NoOne
          /\ timeEntry'[q.entry].ver \in Nat /\ timeEntry'[q.entry].ver >= timeEntry[q.entry].ver
      BY <2>1 DEF Grown
    <2>3. timeEntry[q.entry].ver >= q.seen /\ timeEntry[q.entry].ver \in Nat
      BY <1>3, <2>1, <2>2, RowsAreTyped DEF RequestOK
    <2> QED
      BY <2>2, <2>3 DEF Request
  <1> QED
    BY <1>1, <1>2, <1>3 DEF RequestOK

LEMMA StillSealed ==
    ASSUME TimeInv, NEW q \in Request, RequestOK(q), RequestSealed(q), timeLock' \subseteq timeLock,
           q.entry \in Entries => Kept(q.entry)
    PROVE  RequestSealed(q)'
  <1> SUFFICES ASSUME q.at = "checked", ~q.late, q.user \notin Managers
               PROVE  /\ q.op = "log" => Free(q.row)'
                      /\ q.op = "delete" /\ q.entry \in Stored' => Free(timeEntry[q.entry])'
                      /\ q.op = "update" /\ q.entry \in Stored' =>
                           /\ q.ver # q.seen => timeEntry'[q.entry].ver = q.seen
                           /\ timeEntry'[q.entry].ver = q.seen =>
                                Free(timeEntry[q.entry])' /\ Free([timeEntry[q.entry] EXCEPT !.day = q.row.day])'
    BY DEF RequestSealed
  <1>1. \A p, d : is_locked(p, d)' => is_locked(p, d)
    BY DEF is_locked
  <1>2. q.op = "log" => Free(q.row)'
    BY <1>1 DEF RequestSealed, Free
  <1>3. ASSUME q.op \in {"update", "delete"}, q.entry \in Stored'
        PROVE  /\ q.entry \in Stored /\ timeEntry'[q.entry].proj = timeEntry[q.entry].proj
               /\ timeEntry'[q.entry].day = timeEntry[q.entry].day /\ timeEntry'[q.entry].ver = timeEntry[q.entry].ver
               /\ timeEntry[q.entry] \in TimeEntry
    BY <1>3, RowsAreTyped DEF RequestOK, Stored, Kept
  <1>4. q.op = "delete" /\ q.entry \in Stored' => Free(timeEntry[q.entry])'
    BY <1>1, <1>3 DEF RequestSealed, Free
  <1>5. ASSUME q.op = "update", q.entry \in Stored'
        PROVE  /\ q.ver # q.seen => timeEntry'[q.entry].ver = q.seen
               /\ timeEntry'[q.entry].ver = q.seen =>
                    Free(timeEntry[q.entry])' /\ Free([timeEntry[q.entry] EXCEPT !.day = q.row.day])'
    BY <1>1, <1>3, <1>5 DEF RequestSealed, Free
  <1> QED
    BY <1>2, <1>4, <1>5

-----------------------------------------------------------------------------
(* TimeTracking: types and handlers.                                       *)

\* A row the project's constraints accept, under an id handed out.
RowOK(e) == timeEntry[e] # NoOne => project_by_kind(timeEntry[e]) /\ e \in issued

RestOK ==
    /\ task \in {"live", "deleted", "gone"}
    /\ allowance \in [People \X Years -> Nat] /\ workMinutes \in [People -> Targets]
    /\ excluded \subseteq People /\ timeOps \in 0 .. MaxTimeOps

LEMMA TimeParts ==
    ASSUME TimeInv
    PROVE  /\ timeEntry \in [Entries -> TimeEntry \cup {NoOne}] /\ timeReq \in [Clerks -> Request] /\ RestOK
           /\ \A e \in Entries : RowOK(e)
           /\ \A h \in Clerks : timeReq[h] \in Request /\ RequestOK(timeReq[h]) /\ RequestSealed(timeReq[h])
           /\ timeLock \subseteq Months /\ issued \subseteq Entries \cup Bookings
  BY DEF TimeInv, TimeTypeOK, RequestsOK, RestOK, RowOK, Stored

LEMMA TimeFromParts ==
    ASSUME timeEntry' \in [Entries -> TimeEntry \cup {NoOne}], timeReq' \in [Clerks -> Request], RestOK',
           \A e \in Entries : RowOK(e)', timeLock' \subseteq Months, issued' \subseteq Entries \cup Bookings
    PROVE  TimeTypeOK'
  BY DEF TimeTypeOK, RestOK, RowOK, Stored, Request

LEMMA AtRestIsFine == AtRest \in Request /\ RequestOK(AtRest) /\ RequestSealed(AtRest)
  BY DEF AtRest, Request, RequestOK, RequestSealed

\* Every handler goes on, or one starts or ends, while the entries it may
\* name are kept.
LEMMA RequestsStay ==
    ASSUME TimeInv, issued \subseteq issued', timeLock' \subseteq timeLock,
           timeEntry' \in [Entries -> TimeEntry \cup {NoOne}], timeReq' \in [Clerks -> Request],
           \A e \in Entries : Kept(e),
           \A h \in Clerks : \/ timeReq'[h] = timeReq[h]
                             \/ RequestOK(timeReq'[h]) /\ RequestSealed(timeReq'[h])
    PROVE  RequestsOK'
  <1>1. \A e \in Entries : Grown(e)
    BY RowsAreTyped DEF Kept, Grown
  <1>2. ASSUME NEW h \in Clerks PROVE RequestOK(timeReq[h])' /\ RequestSealed(timeReq[h])'
    <2> PICK q \in Request : q = timeReq'[h]
      OBVIOUS
    <2>1. RequestOK(q) /\ RequestSealed(q)
      BY TimeParts
    <2>2. RequestOK(q)' /\ RequestSealed(q)'
      BY <1>1, <2>1, StillOK, StillSealed
    <2> QED
      BY <2>2 DEF RequestOK, RequestSealed
  <1> QED
    BY <1>2 DEF RequestsOK

\* Settings: nothing a handler relies on changes.
LEMMA TimeSettings ==
    ASSUME TimeInv, UNCHANGED <<timeEntry, timeReq, issued>>, timeLock' \subseteq timeLock, RestOK'
    PROVE  TimeInv'
  <1>1. TimeTypeOK'
    <2>1. /\ timeEntry' \in [Entries -> TimeEntry \cup {NoOne}] /\ timeReq' \in [Clerks -> Request]
          /\ timeLock' \subseteq Months /\ issued' \subseteq Entries \cup Bookings
          /\ \A e \in Entries : RowOK(e)'
      BY TimeParts DEF RowOK
    <2> QED
      BY <2>1, TimeFromParts
  <1>2. \A e \in Entries : Kept(e)
    BY DEF Kept
  <1>3. RequestsOK'
    BY <1>2, RequestsStay, TimeParts
  <1> QED
    BY <1>1, <1>3 DEF TimeInv

\* The entries change in one step, and nobody has to know.
LEMMA TimeRows ==
    ASSUME TimeInv, UNCHANGED <<timeReq, timeLock>>, RestOK', issued \subseteq issued',
           issued' \subseteq Entries \cup Bookings, timeEntry' \in [Entries -> TimeEntry \cup {NoOne}],
           \A e \in Entries : Kept(e) /\ RowOK(e)'
    PROVE  TimeInv'
  <1>1. TimeTypeOK'
    BY TimeParts, TimeFromParts
  <1>2. RequestsOK'
    BY RequestsStay, TimeParts
  <1> QED
    BY <1>1, <1>2 DEF TimeInv

LEMMA TimeInvInit == TimeInit => TimeInv
  <1> SUFFICES ASSUME TimeInit PROVE TimeInv
    OBVIOUS
  <1>1. timeReq \in [Clerks -> Request] /\ \A h \in Clerks : timeReq[h] = AtRest
    BY AtRestIsFine DEF TimeInit
  <1>2. /\ timeEntry \in [Entries -> TimeEntry \cup {NoOne}] /\ Stored = {} /\ timeLock = {}
        /\ task = "live" /\ issued = {} /\ excluded = {} /\ timeOps \in 0 .. MaxTimeOps
    BY TimeAssumption DEF TimeInit, Stored
  <1>3. allowance \in [People \X Years -> Nat]
    BY DEF TimeInit
  <1>4. workMinutes \in [People -> Targets]
    BY TimeAssumption DEF TimeInit
  <1>5. TimeTypeOK
    BY <1>1, <1>2, <1>3, <1>4 DEF TimeTypeOK, Request
  <1>6. RequestsOK
    BY <1>1, AtRestIsFine DEF RequestsOK
  <1> QED
    BY <1>5, <1>6 DEF TimeInv

LEMMA Counted1 ==
    ASSUME TimeInv, NEW n, timeOps' = timeOps + n, n \in {0, 1}, timeOps < MaxTimeOps \/ n = 0
    PROVE  timeOps' \in 0 .. MaxTimeOps
  BY TimeAssumption DEF TimeInv, TimeTypeOK

LEMMA TimeSet ==
    ASSUME TimeInv, NEW h \in Clerks,
           \/ \E m \in Months : unlock_period(h, m)
           \/ \E u \in People, y \in Years, n \in Targets : upsert_allowance(h, u, y, n)
           \/ \E u \in People, n \in Targets : set_work_minutes_per_day(h, u, n)
           \/ \E u \in People : set_exclusion(h, u)
    PROVE  TimeInv'
  <1>1. UNCHANGED <<timeEntry, timeReq, issued, task>> /\ timeLock' \subseteq timeLock
    BY DEF unlock_period, upsert_allowance, set_work_minutes_per_day, set_exclusion
  <1>2. timeOps' \in 0 .. MaxTimeOps
    BY Counted1 DEF unlock_period, upsert_allowance, set_work_minutes_per_day, set_exclusion, OneStep
  <1>3. allowance' \in [People \X Years -> Nat]
    BY TimeAssumption, TimeParts DEF unlock_period, upsert_allowance, set_work_minutes_per_day, set_exclusion, RestOK
  <1>4. workMinutes' \in [People -> Targets] /\ excluded' \subseteq People
    BY TimeParts DEF unlock_period, upsert_allowance, set_work_minutes_per_day, set_exclusion, RestOK
  <1> QED
    BY <1>1, <1>2, <1>3, <1>4, TimeSettings, TimeParts DEF RestOK

\* Purging the task detaches its entries; project, day and version stay.
LEMMA TimeTask ==
    ASSUME TimeInv, NEW s \in {"deleted", "gone"}, TaskGone(s)
    PROVE  TimeInv'
  <1>1. /\ UNCHANGED <<timeReq, timeLock, issued, allowance, workMinutes, excluded>> /\ task' = s
        /\ timeOps' \in 0 .. MaxTimeOps
    BY Counted1 DEF TaskGone
  <1>2. ASSUME NEW e \in Entries
        PROVE  /\ timeEntry'[e] \in TimeEntry \cup {NoOne} /\ RowOK(e)'
               /\ timeEntry[e] = NoOne => timeEntry'[e] = NoOne
               /\ timeEntry[e] # NoOne => /\ timeEntry'[e].proj = timeEntry[e].proj
                                          /\ timeEntry'[e].day = timeEntry[e].day /\ timeEntry'[e].ver = timeEntry[e].ver
    <2>1. timeEntry[e] \in TimeEntry \cup {NoOne} /\ RowOK(e)
      BY TimeParts
    <2>2. timeEntry'[e] = IF s = "gone" /\ e \in Stored THEN [timeEntry[e] EXCEPT !.iss = NoOne] ELSE timeEntry[e]
      BY DEF TaskGone
    <2>3. CASE s = "gone" /\ e \in Stored
      <3>1. timeEntry[e] \in TimeEntry /\ timeEntry[e] # NoOne
        BY <2>1, <2>3 DEF Stored
      <3>2. /\ timeEntry'[e] \in TimeEntry /\ timeEntry'[e].proj = timeEntry[e].proj /\ timeEntry'[e].kind = timeEntry[e].kind
            /\ timeEntry'[e].day = timeEntry[e].day /\ timeEntry'[e].ver = timeEntry[e].ver
        BY <2>2, <2>3, <3>1 DEF TimeEntry
      <3> QED
        BY <1>1, <2>1, <3>1, <3>2 DEF RowOK, project_by_kind
    <2>4. CASE ~(s = "gone" /\ e \in Stored)
      BY <1>1, <2>1, <2>2, <2>4 DEF RowOK
    <2> QED
      BY <2>3, <2>4
  <1>3. timeEntry' \in [Entries -> TimeEntry \cup {NoOne}]
    BY <1>2 DEF TaskGone
  <1>4. \A e \in Entries : Kept(e)
    BY <1>2 DEF Kept
  <1> QED
    BY <1>1, <1>2, <1>3, <1>4, TimeRows, TimeParts DEF RestOK

LEMMA TimeRemove ==
    ASSUME TimeInv, NEW h \in Clerks,
           \/ \E u \in People, b \in Bookings : delete_booking(h, u, b)
           \/ \E e \in Entries : admin_delete_entry(h, e)
    PROVE  TimeInv'
  <1>1. /\ UNCHANGED <<timeReq, timeLock, issued, task, allowance, workMinutes, excluded>>
        /\ timeOps' \in 0 .. MaxTimeOps
    BY Counted1 DEF delete_booking, admin_delete_entry, OneStep
  <1>2. \A e \in Entries : timeEntry'[e] \in {NoOne, timeEntry[e]}
    BY TimeParts DEF delete_booking, admin_delete_entry, delete_entry
  <1>3. timeEntry' \in [Entries -> TimeEntry \cup {NoOne}]
    BY TimeParts DEF delete_booking, admin_delete_entry, delete_entry
  <1>4. \A e \in Entries : Kept(e) /\ RowOK(e)'
    BY <1>1, <1>2, TimeParts DEF Kept, RowOK
  <1> QED
    BY <1>1, <1>3, <1>4, TimeRows, TimeParts DEF RestOK

LEMMA EntryCreated ==
    ASSUME TimeInv, NEW r \in TimeEntry, create_entry(r)
    PROVE  /\ timeEntry' \in [Entries -> TimeEntry \cup {NoOne}] /\ issued \subseteq issued'
           /\ issued' \subseteq Entries \cup Bookings /\ \A e \in Entries : Kept(e) /\ RowOK(e)'
           /\ \A e \in Entries : timeEntry'[e] # timeEntry[e] => timeEntry[e] = NoOne /\ timeEntry'[e] = r
  <1>1. PICK x \in Entries \ issued : timeEntry' = [timeEntry EXCEPT ![x] = r] /\ issued' = issued \cup {x}
    BY DEF create_entry
  <1>2. timeEntry[x] = NoOne
    BY <1>1, TimeParts DEF RowOK
  <1>3. \A e \in Entries : timeEntry'[e] = IF e = x THEN r ELSE timeEntry[e]
    BY <1>1, TimeParts
  <1>4. \A e \in Entries : Kept(e)
    BY <1>3 DEF Kept
  <1>5. \A e \in Entries : RowOK(e)'
    BY <1>1, <1>3, TimeParts DEF RowOK, create_entry
  <1> QED
    BY <1>1, <1>2, <1>3, <1>4, <1>5, TimeParts

LEMMA TimeAdminLog ==
    ASSUME TimeInv, NEW h \in Clerks, NEW u \in People, NEW d \in Days, NEW mins \in MinutesLogged,
           NEW t \in {Task, NoOne}, admin_log_time(h, u, t, d, mins)
    PROVE  TimeInv'
  <1>1. UNCHANGED <<timeReq, timeLock, task, allowance, workMinutes, excluded>> /\ timeOps' \in 0 .. MaxTimeOps
    BY Counted1 DEF admin_log_time, OneStep
  <1>2. PICK r \in TimeEntry : create_entry(r)
    BY DEF admin_log_time, TimeEntry
  <1> QED
    BY <1>1, <1>2, EntryCreated, TimeRows, TimeParts DEF RestOK

LEMMA TimeBook ==
    ASSUME TimeInv, NEW h \in Clerks, NEW u \in People, NEW k \in Absence, NEW from \in Days, NEW to \in Days,
           NEW mins \in {0} \cup MinutesLogged, NEW skip \in BOOLEAN, book_absence(h, u, k, from, to, mins, skip)
    PROVE  TimeInv'
  <1> PICK days : days = booking_days(from, to, skip)
    OBVIOUS
  <1> PICK amount : amount = IF mins = 0 THEN workMinutes[u] ELSE mins
    OBVIOUS
  <1>1. UNCHANGED <<timeReq, timeLock, task, allowance, workMinutes, excluded>> /\ timeOps' \in 0 .. MaxTimeOps
    BY Counted1 DEF book_absence, OneStep
  <1>2. days \subseteq Days /\ amount \in MinutesLogged \cup Targets
    BY TimeAssumption, TimeParts DEF booking_days, Days, RestOK
  <1>3. PICK b \in Bookings \ issued, at \in [days -> Entries \ issued] :
             /\ issued' = issued \cup {b} \cup {at[d] : d \in days}
             /\ timeEntry' = [e \in Entries |->
                    IF \E d \in days : at[d] = e
                    THEN [user |-> u, kind |-> k, proj |-> NoOne, iss |-> NoOne,
                          day |-> CHOOSE d \in days : at[d] = e, mins |-> amount, booking |-> b, ver |-> 1]
                    ELSE timeEntry[e]]
    BY DEF book_absence
  <1>4. ASSUME NEW e \in Entries, \E d \in days : at[d] = e
        PROVE  timeEntry'[e] \in TimeEntry /\ project_by_kind(timeEntry'[e]) /\ e \notin issued /\ e \in issued'
    <2>1. PICK x \in Days : x = CHOOSE d \in days : at[d] = e
      BY <1>2, <1>4
    <2>2. timeEntry'[e] = [user |-> u, kind |-> k, proj |-> NoOne, iss |-> NoOne, day |-> x, mins |-> amount,
                           booking |-> b, ver |-> 1]
      BY <1>3, <1>4, <2>1
    <2>3. timeEntry'[e] \in TimeEntry
      BY <1>2, <2>2 DEF TimeEntry
    <2>4. project_by_kind(timeEntry'[e])
      BY <2>2 DEF project_by_kind, Absence
    <2> QED
      BY <1>3, <1>4, <2>3, <2>4
  <1>5. ASSUME NEW e \in Entries, ~ \E d \in days : at[d] = e PROVE timeEntry'[e] = timeEntry[e]
    BY <1>3, <1>5
  <1>6. timeEntry' \in [Entries -> TimeEntry \cup {NoOne}]
    BY <1>3, <1>4, <1>5, TimeParts
  <1>7. issued \subseteq issued' /\ issued' \subseteq Entries \cup Bookings
    BY <1>3, TimeParts
  <1>8. \A e \in Entries : Kept(e) /\ RowOK(e)'
    BY <1>4, <1>5, <1>7, TimeParts DEF Kept, RowOK
  <1> QED
    BY <1>1, <1>6, <1>7, <1>8, TimeRows, TimeParts DEF RestOK

\* A member's handler has made its checks.
LEMMA TimeStarts ==
    ASSUME TimeInv, NEW h \in Clerks, NEW q \in Request, StartTime(h, q), RequestOK(q), RequestSealed(q)
    PROVE  TimeInv'
  <1>1. /\ UNCHANGED <<timeEntry, timeLock, issued, task, allowance, workMinutes, excluded>>
        /\ timeOps' \in 0 .. MaxTimeOps /\ timeReq' = [timeReq EXCEPT ![h] = q]
    BY Counted1 DEF StartTime
  <1>2. timeReq' \in [Clerks -> Request] /\ \A g \in Clerks : timeReq'[g] = IF g = h THEN q ELSE timeReq[g]
    BY <1>1, TimeParts
  <1>3. \A e \in Entries : Kept(e) /\ RowOK(e)'
    BY <1>1, TimeParts DEF Kept, RowOK
  <1>4. RequestsOK'
    BY <1>1, <1>2, <1>3, RequestsStay, TimeParts
  <1>5. TimeTypeOK'
    BY <1>1, <1>2, <1>3, TimeFromParts, TimeParts DEF RestOK
  <1> QED
    BY <1>4, <1>5 DEF TimeInv

LEMMA TimeLog ==
    ASSUME TimeInv, NEW h \in Clerks, NEW u \in People, NEW k \in {"work", "meeting"}, NEW t \in {Task, NoOne},
           NEW p \in {Project, NoOne}, NEW d \in Days, NEW mins \in MinutesLogged, NEW note \in BOOLEAN,
           log_my_time(h, u, k, t, p, d, mins, note)
    PROVE  TimeInv'
  <1> PICK iss \in {Task, NoOne} : iss = IF k = "work" THEN t ELSE NoOne
    OBVIOUS
  <1> PICK pr \in {Project, NoOne} : pr = IF iss # NoOne THEN Project ELSE p
    OBVIOUS
  <1> DEFINE r == [user |-> u, kind |-> k, proj |-> pr, iss |-> iss, day |-> d, mins |-> mins,
                   booking |-> NoOne, ver |-> 1]
             q == [AtRest EXCEPT !.at = "checked", !.op = "log", !.user = u, !.row = r]
  <1>1. r \in TimeEntry /\ r.proj = pr /\ r.day = d
    BY DEF TimeEntry
  <1>2. StartTime(h, q) /\ (pr # NoOne => guard_locked(r, u))
    BY DEF log_my_time
  <1>3. Project # NoOne
    BY TimeAssumption
  <1>4. u \notin Managers => Free(r)
    BY <1>1, <1>2, <1>3 DEF guard_locked, Free, is_locked
  <1> HIDE DEF r
  <1>5. q \in Request /\ q.op = "log" /\ q.row = r /\ q.user = u
    BY <1>1 DEF AtRest, Request
  <1>6. RequestOK(q) /\ RequestSealed(q)
    BY <1>1, <1>4, <1>5 DEF RequestOK, RequestSealed
  <1> HIDE DEF q
  <1> QED
    BY <1>2, <1>5, <1>6, TimeStarts

LEMMA TimeUpdate ==
    ASSUME TimeInv, NEW h \in Clerks, NEW u \in People, NEW e \in Entries, NEW mins \in MinutesLogged, NEW d \in Days,
           NEW v \in 1 .. MaxTimeOps, update_my_entry(h, u, e, mins, d, v)
    PROVE  TimeInv'
  <1> DEFINE r == [timeEntry[e] EXCEPT !.mins = mins, !.day = d]
             q == [AtRest EXCEPT !.at = "checked", !.op = "update", !.user = u, !.entry = e,
                        !.seen = timeEntry[e].ver, !.ver = v, !.row = r]
  <1>1. timeEntry[e] \in TimeEntry /\ timeEntry[e].ver \in Nat /\ e \in Stored \cap issued
    BY RowsAreTyped DEF update_my_entry, Stored
  <1>2. r \in TimeEntry /\ r.day = d
    BY <1>1 DEF TimeEntry
  <1>3. StartTime(h, q)
    BY DEF update_my_entry
  <1>4. u \notin Managers => Free(timeEntry[e]) /\ Free([timeEntry[e] EXCEPT !.day = d])
    BY DEF update_my_entry, MayMove, guard_locked, Free
  <1> HIDE DEF r
  <1>5. v \in Nat
    OBVIOUS
  <1>6. /\ q \in Request /\ q.op = "update" /\ q.row = r /\ q.user = u /\ q.entry = e /\ q.seen = timeEntry[e].ver
        /\ q.ver = v
    BY <1>1, <1>2, <1>5 DEF AtRest, Request
  <1> HIDE DEF q
  <1>7. RequestOK(q) /\ RequestSealed(q)
    BY <1>1, <1>2, <1>4, <1>6 DEF RequestOK, RequestSealed
  <1> QED
    BY <1>3, <1>6, <1>7, TimeStarts

LEMMA TimeDelete ==
    ASSUME TimeInv, NEW h \in Clerks, NEW u \in People, NEW e \in Entries, delete_my_entry(h, u, e)
    PROVE  TimeInv'
  <1> DEFINE q == [AtRest EXCEPT !.at = "checked", !.op = "delete", !.user = u, !.entry = e]
  <1>1. e \in Stored \cap issued /\ (u \notin Managers => Free(timeEntry[e])) /\ StartTime(h, q)
    BY RowsAreTyped DEF delete_my_entry, Stored, guard_locked, Free
  <1>2. q \in Request /\ q.op = "delete" /\ q.user = u /\ q.entry = e
    BY DEF AtRest, Request
  <1> HIDE DEF q
  <1>3. RequestOK(q) /\ RequestSealed(q)
    BY <1>1, <1>2 DEF RequestOK, RequestSealed
  <1> QED
    BY <1>1, <1>2, <1>3, TimeStarts

\* A lock overtakes every handler in flight.
LEMMA TimeLocks ==
    ASSUME TimeInv, NEW h \in Clerks, NEW m \in Months, lock_period(h, m)
    PROVE  TimeInv'
  <1>1. /\ UNCHANGED <<timeEntry, task, issued, allowance, workMinutes, excluded>> /\ timeLock' = timeLock \cup {m}
        /\ timeOps' \in 0 .. MaxTimeOps /\ LockCame
    BY Counted1 DEF lock_period
  <1>2. ASSUME NEW g \in Clerks
        PROVE  timeReq'[g] \in Request /\ RequestOK(timeReq[g])' /\ RequestSealed(timeReq[g])'
    <2>1. timeReq[g] \in Request /\ RequestOK(timeReq[g])
      BY TimeParts
    <2>2. PICK b \in BOOLEAN : b = (timeReq[g].late \/ timeReq[g].at # "idle")
      OBVIOUS
    <2>3. timeReq'[g] = [timeReq[g] EXCEPT !.late = b]
      BY <1>1, <2>2, Zenon DEF LockCame
    <2>4. /\ timeReq'[g] \in Request /\ timeReq'[g].late = b /\ timeReq'[g].at = timeReq[g].at
          /\ timeReq'[g].op = timeReq[g].op /\ timeReq'[g].row = timeReq[g].row
          /\ timeReq'[g].entry = timeReq[g].entry /\ timeReq'[g].seen = timeReq[g].seen
      BY <2>1, <2>3 DEF Request
    <2>5. timeReq[g].at # "idle" => b
      BY <2>2
    <2>6. RequestSealed(timeReq[g])'
      BY <2>4, <2>5 DEF RequestSealed
    <2>7. RequestOK(timeReq[g])'
      BY <1>1, <2>1, <2>4 DEF RequestOK, Stored
    <2> QED
      BY <2>4, <2>6, <2>7
  <1>3. timeReq' \in [Clerks -> Request]
    BY <1>1, <1>2 DEF LockCame
  <1>4. RequestsOK'
    BY <1>2, <1>3 DEF RequestsOK
  <1>5. \A e \in Entries : RowOK(e)'
    BY <1>1, TimeParts DEF RowOK
  <1>6. TimeTypeOK'
    BY <1>1, <1>3, <1>5, TimeFromParts, TimeParts DEF RestOK
  <1> QED
    BY <1>4, <1>6 DEF TimeInv

\* What an update that finds its version writes.
LEMMA EntryUpdated ==
    ASSUME TimeInv, NEW x \in Entries, NEW mins \in MinutesLogged \cup Targets, NEW d \in Days, NEW v,
           update_entry(x, mins, d, v), timeEntry' # timeEntry
    PROVE  /\ x \in Stored /\ timeEntry[x].ver = v /\ timeEntry' \in [Entries -> TimeEntry \cup {NoOne}]
           /\ timeEntry'[x].ver = timeEntry[x].ver + 1 /\ timeEntry'[x].proj = timeEntry[x].proj
           /\ timeEntry'[x].kind = timeEntry[x].kind /\ timeEntry'[x].day = d
           /\ timeEntry[x] # NoOne /\ timeEntry'[x] \in TimeEntry
           /\ \A e \in Entries : e # x => timeEntry'[e] = timeEntry[e]
  <1>1. /\ x \in Stored /\ timeEntry[x].ver = v
        /\ timeEntry' = [timeEntry EXCEPT ![x].mins = mins, ![x].day = d, ![x].ver = @ + 1]
    BY DEF update_entry
  <1>2. timeEntry[x] \in TimeEntry /\ timeEntry[x] # NoOne
    BY <1>1, RowsAreTyped DEF Stored
  <1>3. timeEntry \in [Entries -> TimeEntry \cup {NoOne}]
    BY TimeParts
  <1> PICK n \in Nat : n = timeEntry[x].ver + 1
    BY <1>2 DEF TimeEntry
  <1>4. timeEntry'[x] = [timeEntry[x] EXCEPT !.mins = mins, !.day = d, !.ver = n]
    BY <1>1, <1>2, <1>3 DEF TimeEntry
  <1>5. /\ timeEntry'[x] \in TimeEntry /\ timeEntry'[x].ver = timeEntry[x].ver + 1 /\ timeEntry'[x].day = d
        /\ timeEntry'[x].proj = timeEntry[x].proj /\ timeEntry'[x].kind = timeEntry[x].kind
    BY <1>2, <1>4 DEF TimeEntry
  <1>6. \A e \in Entries : e # x => timeEntry'[e] = timeEntry[e]
    BY <1>1, <1>3
  <1>7. timeEntry' = [e \in Entries |-> timeEntry'[e]]
    BY <1>1, <1>3
  <1>8. timeEntry' \in [Entries -> TimeEntry \cup {NoOne}]
    BY <1>3, <1>5, <1>6, <1>7
  <1> QED
    BY <1>1, <1>2, <1>5, <1>6, <1>8

\* An update tells the handlers that rely on another version, and those
\* that delete; the writer, if it is a member's handler, ends.
LEMMA TimeChanges ==
    ASSUME TimeInv, NEW x \in Entries, NEW mins \in MinutesLogged \cup Targets, NEW d \in Days, NEW v,
           update_entry(x, mins, d, v), timeEntry' # timeEntry, NEW rest \in SUBSET Clerks, EntryChanged(x, rest),
           UNCHANGED <<timeLock, task, issued, allowance, workMinutes, excluded>>, timeOps' \in 0 .. MaxTimeOps
    PROVE  TimeInv'
  <1>1. /\ x \in Stored /\ timeEntry' \in [Entries -> TimeEntry \cup {NoOne}]
        /\ timeEntry'[x].ver = timeEntry[x].ver + 1 /\ timeEntry'[x].proj = timeEntry[x].proj
        /\ timeEntry'[x].kind = timeEntry[x].kind
        /\ timeEntry[x] # NoOne /\ timeEntry'[x] \in TimeEntry
        /\ \A e \in Entries : e # x => timeEntry'[e] = timeEntry[e]
    BY EntryUpdated
  <1>2. timeEntry[x].ver \in Nat /\ timeEntry'[x].ver \in Nat
    BY <1>1, RowsAreTyped DEF TimeEntry
  <1>3. \A e \in Entries : Grown(e) /\ (e # x => Kept(e))
    BY <1>1, <1>2, RowsAreTyped DEF Grown, Kept
  <1>4. ASSUME NEW g \in Clerks
        PROVE  timeReq'[g] \in Request /\ RequestOK(timeReq[g])' /\ RequestSealed(timeReq[g])'
    <2> PICK q \in Request : q = timeReq[g]
      BY TimeParts
    <2>1. RequestOK(q) /\ RequestSealed(q)
      BY TimeParts
    <2>2. RequestOK(q)'
      BY <1>3, <2>1, StillOK
    <2>3. CASE g \in rest
      <3>1. timeReq'[g] = AtRest
        BY <2>3 DEF EntryChanged
      <3> QED
        BY <3>1, AtRestIsFine DEF RequestOK, RequestSealed, AtRest
    <2>4. CASE g \notin rest /\ q.entry = x /\ (q.op = "delete" \/ q.ver # q.seen)
      <3>1. timeReq'[g] = [q EXCEPT !.late = TRUE]
        BY <2>4 DEF EntryChanged
      <3>2. /\ timeReq'[g] \in Request /\ timeReq'[g].late /\ timeReq'[g].op = q.op /\ timeReq'[g].row = q.row
            /\ timeReq'[g].entry = q.entry /\ timeReq'[g].seen = q.seen
        BY <3>1 DEF Request
      <3>3. RequestSealed(timeReq[g])'
        BY <3>2 DEF RequestSealed
      <3>4. RequestOK(timeReq[g])'
        BY <2>2, <3>2 DEF RequestOK
      <3> QED
        BY <3>2, <3>3, <3>4
    <2>5. CASE g \notin rest /\ q.entry = x /\ q.op # "delete" /\ q.ver = q.seen
      <3>1. timeReq'[g] = q
        BY <2>5 DEF EntryChanged
      <3>2. q.op = "update" => timeEntry'[x].ver # q.seen
        BY <1>1, <1>2, <2>1, <2>5 DEF RequestOK, Request
      <3>3. RequestSealed(q)'
        BY <2>1, <2>5, <3>2 DEF RequestSealed, Free, is_locked
      <3> QED
        BY <2>2, <3>1, <3>3 DEF RequestOK, RequestSealed
    <2>6. CASE g \notin rest /\ q.entry # x
      <3>1. timeReq'[g] = q
        BY <2>6 DEF EntryChanged
      <3>2. RequestSealed(q)'
        BY <1>3, <2>1, <2>6, StillSealed
      <3> QED
        BY <2>2, <3>1, <3>2 DEF RequestOK, RequestSealed
    <2> QED
      BY <2>3, <2>4, <2>5, <2>6
  <1>5. timeReq' \in [Clerks -> Request]
    BY <1>4 DEF EntryChanged
  <1>6. RequestsOK'
    BY <1>4, <1>5 DEF RequestsOK
  <1>7. \A e \in Entries : RowOK(e)'
    BY <1>1, TimeParts DEF RowOK, project_by_kind
  <1>8. TimeTypeOK'
    BY <1>1, <1>5, <1>7, TimeFromParts, TimeParts DEF RestOK
  <1> QED
    BY <1>6, <1>8 DEF TimeInv

LEMMA TimeAdminUpdate ==
    ASSUME TimeInv, NEW h \in Clerks, NEW e \in Entries, NEW mins \in MinutesLogged, NEW d \in Days,
           NEW v \in 1 .. MaxTimeOps, admin_update_entry(h, e, mins, d, v)
    PROVE  TimeInv'
  <1>1. /\ UNCHANGED <<timeLock, task, issued, allowance, workMinutes, excluded>> /\ timeOps' \in 0 .. MaxTimeOps
        /\ update_entry(e, mins, d, v)
    BY Counted1 DEF admin_update_entry
  <1>2. CASE timeEntry' = timeEntry
    BY <1>1, <1>2, TimeSettings, TimeParts DEF admin_update_entry, RestOK
  <1>3. CASE timeEntry' # timeEntry
    BY <1>1, <1>3, TimeChanges DEF admin_update_entry
  <1> QED
    BY <1>2, <1>3

\* The handler of a member ends, and the entries are kept.
LEMMA TimeEnds ==
    ASSUME TimeInv, NEW h \in Clerks, timeReq' = [timeReq EXCEPT ![h] = AtRest],
           UNCHANGED <<timeLock, task, allowance, workMinutes, excluded, timeOps>>,
           issued \subseteq issued', issued' \subseteq Entries \cup Bookings,
           timeEntry' \in [Entries -> TimeEntry \cup {NoOne}], \A e \in Entries : Kept(e) /\ RowOK(e)'
    PROVE  TimeInv'
  <1>1. timeReq' \in [Clerks -> Request] /\ \A g \in Clerks : timeReq'[g] = IF g = h THEN AtRest ELSE timeReq[g]
    BY TimeParts, AtRestIsFine
  <1>2. RequestsOK'
    BY <1>1, RequestsStay, AtRestIsFine
  <1>3. TimeTypeOK'
    BY <1>1, TimeFromParts, TimeParts DEF RestOK
  <1> QED
    BY <1>2, <1>3 DEF TimeInv

LEMMA TimeWrite ==
    ASSUME TimeInv, NEW h \in Clerks, WriteMine(h)
    PROVE  TimeInv'
  <1> PICK q \in Request : q = timeReq[h]
    BY TimeParts
  <1>1. RequestOK(q) /\ q.at = "checked" /\ UNCHANGED <<timeLock, task, allowance, workMinutes, excluded, timeOps>>
    BY TimeParts DEF WriteMine
  <1>2. CASE q.op = "log"
    <2>1. timeReq' = [timeReq EXCEPT ![h] = AtRest] /\ (UNCHANGED <<timeEntry, issued>> \/ create_entry(q.row))
      BY <1>2 DEF WriteMine
    <2>2. CASE UNCHANGED <<timeEntry, issued>>
      <3>1. \A e \in Entries : Kept(e) /\ RowOK(e)'
        BY <2>2, TimeParts DEF Kept, RowOK
      <3> QED
        BY <1>1, <2>1, <2>2, <3>1, TimeEnds, TimeParts
    <2>3. CASE create_entry(q.row)
      <3>1. q.row \in TimeEntry
        BY <1>1, <1>2 DEF RequestOK
      <3> QED
        BY <1>1, <2>1, <2>3, <3>1, EntryCreated, TimeEnds
    <2> QED
      BY <2>1, <2>2, <2>3
  <1>3. CASE q.op = "update"
    <2>1. update_entry(q.entry, q.row.mins, q.row.day, q.ver) /\ UNCHANGED issued
      BY <1>3 DEF WriteMine
    <2>2. q.entry \in Entries /\ q.row.mins \in MinutesLogged \cup Targets /\ q.row.day \in Days
      BY <1>1, <1>3 DEF RequestOK, TimeEntry
    <2>3. CASE timeEntry' = timeEntry
      <3>1. \A e \in Entries : Kept(e) /\ RowOK(e)'
        BY <2>1, <2>3, TimeParts DEF Kept, RowOK
      <3>2. timeReq' = [timeReq EXCEPT ![h] = AtRest]
        BY <1>3, <2>3 DEF WriteMine
      <3> QED
        BY <1>1, <2>1, <2>3, <3>1, <3>2, TimeEnds, TimeParts
    <2>4. CASE timeEntry' # timeEntry
      <3>1. EntryChanged(q.entry, {h})
        BY <1>3, <2>4 DEF WriteMine
      <3>2. timeOps' \in 0 .. MaxTimeOps
        BY <1>1, TimeParts DEF RestOK
      <3> QED
        BY <1>1, <2>1, <2>2, <2>4, <3>1, <3>2, TimeChanges
    <2> QED
      BY <2>3, <2>4
  <1>4. CASE q.op = "delete"
    <2>1. timeReq' = [timeReq EXCEPT ![h] = AtRest] /\ timeEntry' = [timeEntry EXCEPT ![q.entry] = NoOne] /\ UNCHANGED issued
      BY <1>4 DEF WriteMine, delete_entry
    <2>2. timeEntry' \in [Entries -> TimeEntry \cup {NoOne}] /\ \A e \in Entries : timeEntry'[e] \in {NoOne, timeEntry[e]}
      BY <2>1, TimeParts
    <2>3. \A e \in Entries : Kept(e) /\ RowOK(e)'
      BY <2>1, <2>2, TimeParts DEF Kept, RowOK
    <2> QED
      BY <1>1, <2>1, <2>2, <2>3, TimeEnds, TimeParts
  <1> QED
    BY <1>2, <1>3, <1>4 DEF WriteMine

LEMMA TimeInvStep == TimeInv /\ [TimeNext]_timeVars => TimeInv'
  <1> SUFFICES ASSUME TimeInv, [TimeNext]_timeVars PROVE TimeInv'
    OBVIOUS
  <1>1. CASE UNCHANGED timeVars
    BY <1>1, TimeSettings, TimeParts DEF timeVars, RestOK
  <1>2. ASSUME NEW h \in Clerks, NEW u \in People, NEW d \in Days, NEW mins \in MinutesLogged,
               \/ \E k \in {"work", "meeting"}, t \in {Task, NoOne}, p \in {Project, NoOne}, note \in BOOLEAN :
                    log_my_time(h, u, k, t, p, d, mins, note)
               \/ \E e \in Entries, v \in 1 .. MaxTimeOps : update_my_entry(h, u, e, mins, d, v)
               \/ \E t \in {Task, NoOne} : admin_log_time(h, u, t, d, mins)
        PROVE  TimeInv'
    BY <1>2, TimeLog, TimeUpdate, TimeAdminLog
  <1>3. ASSUME NEW h \in Clerks, \/ \E u \in People, e \in Entries : delete_my_entry(h, u, e)
                                 \/ WriteMine(h)
                                 \/ \E e \in Entries, mins \in MinutesLogged, d \in Days, v \in 1 .. MaxTimeOps :
                                      admin_update_entry(h, e, mins, d, v)
        PROVE  TimeInv'
    BY <1>3, TimeDelete, TimeWrite, TimeAdminUpdate
  <1>4. ASSUME NEW h \in Clerks, NEW u \in People, NEW k \in Absence, NEW from \in Days, NEW to \in Days,
               NEW mins \in {0} \cup MinutesLogged, NEW skip \in BOOLEAN, book_absence(h, u, k, from, to, mins, skip)
        PROVE  TimeInv'
    BY <1>4, TimeBook
  <1>5. ASSUME NEW h \in Clerks, \/ \E u \in People, b \in Bookings : delete_booking(h, u, b)
                                 \/ \E e \in Entries : admin_delete_entry(h, e)
        PROVE  TimeInv'
    BY <1>5, TimeRemove
  <1>6. ASSUME NEW h \in Clerks, NEW m \in Months, lock_period(h, m) \/ unlock_period(h, m) PROVE TimeInv'
    BY <1>6, TimeLocks, TimeSet
  <1>7. ASSUME NEW h \in Clerks, \/ \E u \in People, y \in Years, n \in Targets : upsert_allowance(h, u, y, n)
                                 \/ \E u \in People, n \in Targets : set_work_minutes_per_day(h, u, n)
                                 \/ \E u \in People : set_exclusion(h, u)
        PROVE  TimeInv'
    BY <1>7, TimeSet
  <1> QED
    BY <1>1, <1>2, <1>3, <1>4, <1>5, <1>6, <1>7, TimeTask DEF TimeNext

LEMMA TimeInvariant == TimeSpec => []TimeInv
  BY TimeInvInit, TimeInvStep, PTL DEF TimeSpec

\* Rows keep the constraints of time_entries, whatever requests cross: work
\* belongs to a project, absences to none.
THEOREM TimeTypeCorrect == TimeSpec => []TimeTypeOK
  BY TimeInvariant, PTL DEF TimeInv

\* Only the writer's step ends a handler.
LEMMA WriterEnds ==
    ASSUME TimeInv, [TimeNext]_timeVars, NEW h \in Clerks, timeReq[h].at = "checked", timeReq'[h].at = "idle"
    PROVE  WriteMine(h)
  <1> DEFINE Fine == WriteMine(h)
  <1> HIDE DEF Fine
  <1>1. timeReq \in [Clerks -> Request] /\ timeReq[h] \in Request /\ \A g \in Clerks : timeReq[g] \in Request
    BY TimeParts
  <1>2. ASSUME timeReq'[h] = timeReq[h] PROVE Fine
    BY <1>2
  <1>3. ASSUME NEW g \in Clerks, NEW q, StartTime(g, q) PROVE Fine
    <2>1. g # h /\ timeReq' = [timeReq EXCEPT ![g] = q]
      BY <1>3 DEF StartTime
    <2> QED
      BY <1>1, <1>2, <2>1
  <1>4. ASSUME NEW g \in Clerks, NEW x \in Entries \cup {NoOne}, EntryChanged(x, {g}), g # h PROVE Fine
    <2>1. timeReq'[h].at = timeReq[h].at
      BY <1>1, <1>4 DEF EntryChanged, Request
    <2> QED
      BY <2>1
  <1>5. ASSUME NEW x \in Entries, EntryChanged(x, {}) PROVE Fine
    <2>1. timeReq'[h].at = timeReq[h].at
      BY <1>1, <1>5 DEF EntryChanged, Request
    <2> QED
      BY <2>1
  <1>6. ASSUME LockCame PROVE Fine
    <2>1. timeReq'[h].at = timeReq[h].at
      BY <1>1, <1>6 DEF LockCame, Request
    <2> QED
      BY <2>1
  <1>7. ASSUME NEW g \in Clerks, WriteMine(g) PROVE Fine
    <2>1. CASE g = h
      BY <1>7, <2>1 DEF Fine
    <2>2. CASE g # h
      <3>1. timeReq[g].entry \in Entries \cup {NoOne}
        BY <1>1 DEF Request
      <3>2. \/ timeReq' = [timeReq EXCEPT ![g] = AtRest]
            \/ EntryChanged(timeReq[g].entry, {g})
        BY <1>7 DEF WriteMine
      <3> QED
        BY <1>1, <1>2, <1>4, <2>2, <3>1, <3>2
    <2> QED
      BY <2>1, <2>2
  <1>8. ASSUME NEW g \in Clerks, NEW u \in People, NEW d \in Days, NEW mins \in MinutesLogged,
               \/ \E k \in {"work", "meeting"}, t \in {Task, NoOne}, p \in {Project, NoOne}, note \in BOOLEAN :
                    log_my_time(g, u, k, t, p, d, mins, note)
               \/ \E e \in Entries, v \in 1 .. MaxTimeOps : update_my_entry(g, u, e, mins, d, v)
               \/ \E t \in {Task, NoOne} : admin_log_time(g, u, t, d, mins)
        PROVE  Fine
    <2>1. ASSUME NEW k, NEW t, NEW p, NEW note, log_my_time(g, u, k, t, p, d, mins, note) PROVE Fine
      BY <1>3, <2>1 DEF log_my_time
    <2>2. ASSUME NEW e, NEW v, update_my_entry(g, u, e, mins, d, v) PROVE Fine
      BY <1>3, <2>2 DEF update_my_entry
    <2>3. ASSUME NEW t, admin_log_time(g, u, t, d, mins) PROVE Fine
      BY <1>2, <2>3 DEF admin_log_time
    <2> QED
      BY <1>8, <2>1, <2>2, <2>3
  <1>9. ASSUME NEW g \in Clerks, \/ \E u \in People, e \in Entries : delete_my_entry(g, u, e)
                                 \/ \E e \in Entries, mins \in MinutesLogged, d \in Days, v \in 1 .. MaxTimeOps :
                                      admin_update_entry(g, e, mins, d, v)
        PROVE  Fine
    BY <1>2, <1>3, <1>5, <1>9 DEF delete_my_entry, admin_update_entry
  <1>10. ASSUME NEW g \in Clerks, NEW u \in People, NEW k \in Absence, NEW from \in Days, NEW to \in Days,
                NEW mins \in {0} \cup MinutesLogged, NEW skip \in BOOLEAN, book_absence(g, u, k, from, to, mins, skip)
         PROVE  Fine
    BY <1>2, <1>10 DEF book_absence
  <1>11. ASSUME NEW g \in Clerks, \/ \E u \in People, b \in Bookings : delete_booking(g, u, b)
                                  \/ \E e \in Entries : admin_delete_entry(g, e)
         PROVE  Fine
    BY <1>2, <1>11 DEF delete_booking, admin_delete_entry
  <1>12. ASSUME NEW g \in Clerks, NEW m \in Months, lock_period(g, m) \/ unlock_period(g, m) PROVE Fine
    BY <1>2, <1>6, <1>12 DEF lock_period, unlock_period
  <1>13. ASSUME NEW g \in Clerks, \/ \E u \in People, y \in Years, n \in Targets : upsert_allowance(g, u, y, n)
                                  \/ \E u \in People, n \in Targets : set_work_minutes_per_day(g, u, n)
                                  \/ \E u \in People : set_exclusion(g, u)
         PROVE  Fine
    BY <1>2, <1>13 DEF upsert_allowance, set_work_minutes_per_day, set_exclusion
  <1>14. ASSUME \/ UNCHANGED timeVars \/ \E s \in {"deleted", "gone"} : TaskGone(s) PROVE Fine
    BY <1>2, <1>14 DEF timeVars, TaskGone
  <1>15. Fine
    BY <1>7, <1>8, <1>9, <1>10, <1>11, <1>12, <1>13, <1>14 DEF TimeNext
  <1> QED
    BY <1>15 DEF Fine

\* The write of a member nobody has overtaken.
LEMMA WriteIsSealed ==
    ASSUME TimeInv, NEW h \in Clerks, WriteMine(h), timeReq[h].user \notin Managers, ~timeReq[h].late,
           NEW e \in Entries, timeEntry'[e] # timeEntry[e], NEW r \in {timeEntry[e], timeEntry'[e]} \ {NoOne}
    PROVE  ~is_locked(r.proj, r.day)
  <1> PICK q \in Request : q = timeReq[h]
    BY TimeParts
  <1>1. RequestOK(q) /\ RequestSealed(q) /\ q.at = "checked" /\ UNCHANGED timeLock
    BY TimeParts DEF WriteMine
  <1>2. CASE q.op = "log"
    <2>1. create_entry(q.row)
      BY <1>2 DEF WriteMine
    <2>2. q.row \in TimeEntry /\ Free(q.row)
      BY <1>1, <1>2 DEF RequestOK, RequestSealed
    <2>3. r = q.row
      BY <2>1, <2>2, EntryCreated
    <2> QED
      BY <2>2, <2>3 DEF Free
  <1>3. CASE q.op = "update"
    <2>1. update_entry(q.entry, q.row.mins, q.row.day, q.ver)
      BY <1>3 DEF WriteMine
    <2>2. q.entry \in Entries /\ q.row.mins \in MinutesLogged \cup Targets /\ q.row.day \in Days
      BY <1>1, <1>3 DEF RequestOK, TimeEntry
    <2>3. timeEntry' # timeEntry
      OBVIOUS
    <2>4. /\ q.entry \in Stored /\ timeEntry[q.entry].ver = q.ver /\ timeEntry'[q.entry].day = q.row.day
          /\ timeEntry'[q.entry].proj = timeEntry[q.entry].proj
          /\ \A x \in Entries : x # q.entry => timeEntry'[x] = timeEntry[x]
      BY <2>1, <2>2, <2>3, EntryUpdated
    <2>5. e = q.entry /\ timeEntry[e] \in TimeEntry
      BY <2>4, RowsAreTyped DEF Stored
    <2>6. Free(timeEntry[e]) /\ Free([timeEntry[e] EXCEPT !.day = q.row.day])
      BY <1>1, <1>3, <2>4, <2>5 DEF RequestSealed
    <2>7. ~is_locked(timeEntry[e].proj, timeEntry[e].day) /\ ~is_locked(timeEntry[e].proj, q.row.day)
      BY <2>5, <2>6 DEF Free, TimeEntry
    <2> QED
      BY <2>4, <2>5, <2>7
  <1>4. CASE q.op = "delete"
    <2>1. timeEntry' = [timeEntry EXCEPT ![q.entry] = NoOne]
      BY <1>4 DEF WriteMine, delete_entry
    <2>2. e = q.entry /\ timeEntry'[e] = NoOne /\ timeEntry[e] # NoOne
      BY <2>1, TimeParts
    <2>3. Free(timeEntry[e])
      BY <1>1, <1>4, <2>2 DEF RequestSealed, Stored
    <2> QED
      BY <2>2, <2>3 DEF Free
  <1> QED
    BY <1>2, <1>3, <1>4 DEF WriteMine

\* Someone without time.manage neither changes nor adds a row of a locked
\* month, however long their handler takes, unless the lock or another
\* change of the entry came after its checks.
THEOREM LockedMonthsAreSealed == TimeSpec => LockedMonthIsSealed
  <1>1. ASSUME TimeInv, [TimeNext]_timeVars, NEW h \in Clerks, timeReq[h].at = "checked", timeReq'[h].at = "idle",
               timeReq[h].user \notin Managers, ~timeReq[h].late,
               NEW e \in Entries, timeEntry'[e] # timeEntry[e], NEW r \in {timeEntry[e], timeEntry'[e]} \ {NoOne}
        PROVE  ~is_locked(r.proj, r.day)
    BY <1>1, WriterEnds, WriteIsSealed
  <1>2. TimeInv /\ [TimeNext]_timeVars =>
          [\A h \in Clerks :
             timeReq[h].at = "checked" /\ timeReq'[h].at = "idle"
               /\ timeReq[h].user \notin Managers /\ ~timeReq[h].late
             => \A e \in Entries : timeEntry'[e] # timeEntry[e] =>
                  \A r \in {timeEntry[e], timeEntry'[e]} \ {NoOne} : ~is_locked(r.proj, r.day)]_timeVars
    BY <1>1
  <1> QED
    BY <1>2, TimeInvariant, PTL DEF TimeSpec, LockedMonthIsSealed

-----------------------------------------------------------------------------
(* Numbers.                                                                *)

\* The least-number principle, from the well-foundedness of < on Nat.
LEMMA NatMin ==
    ASSUME NEW S, S \subseteq Nat, S # {}
    PROVE  \E n \in S : \A m \in S : n <= m
  <1> DEFINE R == {p \in Nat \X Nat : p[1] < p[2]}
  <1>1. IsWellFoundedOn(R, Nat)
    BY NatLessThanWellFounded DEF OpToRel
  <1>2. \A x, y \in Nat : <<x, y>> \in R <=> x < y
    OBVIOUS
  <1> HIDE DEF R
  <1>3. PICK x \in S : \A y \in S : ~(<<y, x>> \in R)
    BY <1>1, WFMin, Zenon
  <1>4. \A y \in S : ~(y < x)
    BY <1>2, <1>3, Zenon
  <1>5. \A y \in S : x <= y
    BY <1>4
  <1> QED
    BY <1>5

-----------------------------------------------------------------------------
(* Sums.                                                                   *)

\* Of the subsets of a finite set that are counterexamples, one is smallest.
LEMMA SmallestSet ==
    ASSUME NEW S, IsFiniteSet(S), NEW B, B \subseteq SUBSET S, B # {}
    PROVE  \E s \in B : \A x \in s : s \ {x} \notin B
  <1> DEFINE Sizes == {Cardinality(s) : s \in B}
  <1>1. \A s \in B : IsFiniteSet(s) /\ Cardinality(s) \in Nat
    BY FS_Subset, FS_CardinalityType
  <1>2. Sizes \subseteq Nat /\ Sizes # {}
    BY <1>1
  <1>3. PICK n \in Sizes : \A m \in Sizes : n <= m
    <2> HIDE DEF Sizes
    <2> QED
      BY <1>2, NatMin
  <1>4. PICK s \in B : Cardinality(s) = n
    BY <1>3
  <1>5. ASSUME NEW x \in s, s \ {x} \in B PROVE FALSE
    <2>1. Cardinality(s \ {x}) = n - 1 /\ n \in Nat
      BY <1>1, <1>4, FS_RemoveElement
    <2>2. Cardinality(s \ {x}) \in Sizes
      BY <1>5
    <2>3. n <= Cardinality(s \ {x})
      <3> HIDE DEF Sizes
      <3> QED
        BY ONLY <1>3, <2>2
    <2> QED
      BY <2>1, <2>3
  <1> QED
    BY <1>5

\* The sums of f over the subsets of S, as a fold computes them.
Adds(sum, f, S) ==
    sum = [s \in SUBSET S |-> IF s = {} THEN 0
                              ELSE f[CHOOSE x \in s : TRUE] + sum[s \ {CHOOSE x \in s : TRUE}]]

\* There is such a table: it is filled by the size of the subset.
LEMMA SumsExist ==
    ASSUME NEW S, IsFiniteSet(S), NEW f
    PROVE  \E sum : Adds(sum, f, S)
  <1> DEFINE First(s) == CHOOSE x \in s : TRUE
             Body(sum, s) == IF s = {} THEN 0 ELSE f[First(s)] + sum[s \ {First(s)}]
             Upto(n) == {s \in SUBSET S : Cardinality(s) <= n}
             Ok(n) == \E sum : sum = [s \in Upto(n) |-> Body(sum, s)]
             Bad == {n \in Nat : ~Ok(n)}
  <1>1. \A s \in SUBSET S : IsFiniteSet(s) /\ Cardinality(s) \in Nat
    BY FS_Subset, FS_CardinalityType
  <1>2. \A s \in SUBSET S : s # {} => /\ First(s) \in s /\ s \ {First(s)} \in SUBSET S
                                      /\ Cardinality(s \ {First(s)}) = Cardinality(s) - 1
    <2> TAKE s \in SUBSET S
    <2> HAVE s # {}
    <2>1. First(s) \in s
      OBVIOUS
    <2> HIDE DEF First
    <2> QED
      BY <1>1, <2>1, FS_RemoveElement
  <1> HIDE DEF First
  <1>3. Ok(0)
    <2> PICK sum : sum = [s \in Upto(0) |-> 0]
      OBVIOUS
    <2>1. ASSUME NEW s \in Upto(0) PROVE Body(sum, s) = 0
      <3>1. s = {}
        <4>1. s \in SUBSET S /\ Cardinality(s) <= 0
          OBVIOUS
        <4>2. IsFiniteSet(s) /\ Cardinality(s) = 0
          BY <1>1, <4>1
        <4> QED
          BY <4>2, FS_EmptySet
      <3> QED
        BY <3>1
    <2>2. sum = [s \in Upto(0) |-> Body(sum, s)]
      BY <2>1
    <2> QED
      BY <2>2
  <1>4. ASSUME NEW n \in Nat, Ok(n) PROVE Ok(n + 1)
    <2>1. PICK sum : sum = [s \in Upto(n) |-> Body(sum, s)]
      BY <1>4
    <2> PICK next : next = [s \in Upto(n + 1) |-> IF s \in Upto(n) THEN sum[s] ELSE Body(sum, s)]
      OBVIOUS
    <2>2. ASSUME NEW s \in Upto(n + 1) PROVE next[s] = Body(next, s)
      <3>1. s \in SUBSET S /\ Cardinality(s) <= n + 1
        OBVIOUS
      <3>2. s # {} => s \ {First(s)} \in Upto(n) /\ s \ {First(s)} \in Upto(n + 1)
        BY <1>1, <1>2, <3>1
      <3>3. s # {} => next[s \ {First(s)}] = sum[s \ {First(s)}]
        BY <3>2
      <3>4. Body(next, s) = Body(sum, s)
        BY <3>3
      <3>5. CASE s \in Upto(n)
        <4>1. next[s] = sum[s] /\ sum[s] = Body(sum, s)
          BY <2>1, <3>5
        <4> QED
          BY <3>4, <4>1
      <3>6. CASE s \notin Upto(n)
        <4>1. next[s] = Body(sum, s)
          BY <3>6
        <4> QED
          BY <3>4, <4>1
      <3> QED
        BY <3>5, <3>6
    <2>3. next = [s \in Upto(n + 1) |-> Body(next, s)]
      BY <2>2
    <2> QED
      BY <2>3, Zenon
  <1>5. \A n \in Nat : Ok(n)
    <2> SUFFICES ASSUME Bad # {} PROVE FALSE
      OBVIOUS
    <2>0. Bad \subseteq Nat
      OBVIOUS
    <2>1. PICK n \in Bad : \A m \in Bad : n <= m
      <3> HIDE DEF Bad
      <3> QED
        BY <2>0, NatMin
    <2> HIDE DEF Ok
    <2>2. n \in Nat \ {0} /\ ~Ok(n)
      BY <1>3, <2>1
    <2>3. n - 1 \in Nat /\ n - 1 \notin Bad /\ (n - 1) + 1 = n
      BY <2>1, <2>2
    <2>4. Ok(n - 1)
      BY <2>3
    <2> QED
      BY <1>4, <2>2, <2>3, <2>4
  <1>6. PICK n \in Nat : n = Cardinality(S)
    BY <1>1
  <1>7. Upto(n) = SUBSET S
    <2>1. \A s \in SUBSET S : Cardinality(s) <= n
      BY <1>6, FS_Subset
    <2> QED
      BY <2>1
  <1>8. PICK sum : sum = [s \in Upto(n) |-> Body(sum, s)]
    BY <1>5
  <1>9. sum = [s \in SUBSET S |-> Body(sum, s)]
    BY <1>7, <1>8
  <1> QED
    BY <1>9 DEF Adds, First
\* Tables that add the same numbers agree, on the sets both have.
LEMMA SumsAgree ==
    ASSUME NEW S, IsFiniteSet(S), NEW T, T \in SUBSET S, NEW f, NEW g, \A x \in T : f[x] = g[x],
           NEW sum, Adds(sum, f, S), NEW other, Adds(other, g, T)
    PROVE  \A s \in SUBSET T : other[s] = sum[s]
  <1> DEFINE Bad == {s \in SUBSET T : other[s] # sum[s]}
  <1> SUFFICES ASSUME Bad # {} PROVE FALSE
    OBVIOUS
  <1>1. IsFiniteSet(T) /\ Bad \subseteq SUBSET T
    BY FS_Subset
  <1>2. PICK s \in Bad : \A x \in s : s \ {x} \notin Bad
    <2> HIDE DEF Bad
    <2> QED
      BY <1>1, SmallestSet
  <1>3. s \in SUBSET T /\ s \in SUBSET S /\ other[s] # sum[s]
    BY <1>2
  <1> PICK y : y = CHOOSE x \in s : TRUE
    OBVIOUS
  <1>4. /\ sum[s] = IF s = {} THEN 0 ELSE f[y] + sum[s \ {y}]
        /\ other[s] = IF s = {} THEN 0 ELSE g[y] + other[s \ {y}]
    BY <1>3 DEF Adds
  <1>5. s # {} /\ y \in s
    BY <1>3, <1>4
  <1>6. s \ {y} \in SUBSET T /\ other[s \ {y}] = sum[s \ {y}]
    BY <1>2, <1>3, <1>5
  <1>7. f[y] = g[y]
    BY <1>3, <1>5
  <1> QED
    BY <1>3, <1>4, <1>5, <1>6, <1>7

\* A sum of natural numbers is one, whichever element is added last, and a
\* sum over two parts is the sum of theirs.
LEMMA SumsAddUp ==
    ASSUME NEW S, IsFiniteSet(S), NEW f \in [S -> Nat], NEW sum, Adds(sum, f, S)
    PROVE  /\ sum[{}] = 0
           /\ \A s \in SUBSET S : sum[s] \in Nat
           /\ \A s \in SUBSET S : \A x \in s : sum[s] = f[x] + sum[s \ {x}]
  <1>1. sum[{}] = 0
    BY DEF Adds
  <1>2. \A s \in SUBSET S : s # {} => \E y \in s : sum[s] = f[y] + sum[s \ {y}]
    <2> TAKE s \in SUBSET S
    <2> HAVE s # {}
    <2> PICK y : y = CHOOSE x \in s : TRUE
      OBVIOUS
    <2>1. sum[s] = f[y] + sum[s \ {y}] /\ y \in s
      BY DEF Adds
    <2> QED
      BY <2>1
  <1>3. \A s \in SUBSET S : sum[s] \in Nat
    <2> DEFINE Bad == {s \in SUBSET S : sum[s] \notin Nat}
    <2> SUFFICES ASSUME Bad # {} PROVE FALSE
      OBVIOUS
    <2>1. Bad \subseteq SUBSET S
      OBVIOUS
    <2>2. PICK s \in Bad : \A x \in s : s \ {x} \notin Bad
      <3> HIDE DEF Bad
      <3> QED
        BY <2>1, SmallestSet
    <2>3. s \in SUBSET S /\ sum[s] \notin Nat /\ s # {}
      BY <1>1, <2>2
    <2>4. PICK y \in s : sum[s] = f[y] + sum[s \ {y}]
      BY <1>2, <2>3
    <2>5. sum[s \ {y}] \in Nat /\ f[y] \in Nat
      BY <2>2, <2>3
    <2> QED
      BY <2>3, <2>4, <2>5
  <1>4. \A s \in SUBSET S : \A x \in s : sum[s] = f[x] + sum[s \ {x}]
    <2> DEFINE Bad == {s \in SUBSET S : \E x \in s : sum[s] # f[x] + sum[s \ {x}]}
    <2> SUFFICES ASSUME NEW t \in SUBSET S, NEW z \in t, sum[t] # f[z] + sum[t \ {z}] PROVE FALSE
      BY Zenon
    <2>1. Bad \subseteq SUBSET S /\ t \in Bad
      OBVIOUS
    <2>2. PICK s \in Bad : \A x \in s : s \ {x} \notin Bad
      <3> HIDE DEF Bad
      <3> QED
        BY <2>1, SmallestSet
    <2>3. PICK x \in s : sum[s] # f[x] + sum[s \ {x}]
      BY <2>2
    <2>4. s \in SUBSET S /\ s # {}
      BY <2>2, <2>3
    <2>5. PICK y \in s : sum[s] = f[y] + sum[s \ {y}]
      BY <1>2, <2>4
    <2>6. x # y
      BY <2>3, <2>5
    <2>7. s \ {x} \in SUBSET S /\ y \in s \ {x} /\ s \ {x} \notin Bad
      BY <2>2, <2>4, <2>6
    <2>8. s \ {y} \in SUBSET S /\ x \in s \ {y} /\ s \ {y} \notin Bad
      BY <2>2, <2>4, <2>6
    <2> PICK both : both = s \ {x, y}
      OBVIOUS
    <2>9. (s \ {x}) \ {y} = both /\ (s \ {y}) \ {x} = both /\ both \in SUBSET S
      BY <2>4
    <2>10. sum[s \ {x}] = f[y] + sum[both]
      BY <2>7, <2>9
    <2>11. sum[s \ {y}] = f[x] + sum[both]
      BY <2>8, <2>9
    <2>12. sum[both] \in Nat /\ f[x] \in Nat /\ f[y] \in Nat
      BY <1>3, <2>4, <2>9
    <2> QED
      BY <2>3, <2>5, <2>10, <2>11, <2>12
  <1> QED
    BY <1>1, <1>3, <1>4

\* The sum over two sets without a common element is the sum of their sums.
LEMMA SumOfParts ==
    ASSUME NEW S, IsFiniteSet(S), NEW f \in [S -> Nat], NEW sum, Adds(sum, f, S),
           NEW A, A \in SUBSET S, NEW B, B \in SUBSET S, A \cap B = {}
    PROVE  sum[A \cup B] = sum[A] + sum[B]
  <1>1. /\ sum[{}] = 0
        /\ \A s \in SUBSET S : sum[s] \in Nat
        /\ \A s \in SUBSET S : \A x \in s : sum[s] = f[x] + sum[s \ {x}]
    <2>1. IsFiniteSet(S) /\ f \in [S -> Nat] /\ Adds(sum, f, S)
      OBVIOUS
    <2> QED
      BY ONLY <2>1, SumsAddUp
  <1> DEFINE Bad == {s \in SUBSET A : sum[s \cup B] # sum[s] + sum[B]}
  <1> SUFFICES ASSUME Bad # {} PROVE FALSE
    OBVIOUS
  <1>2. IsFiniteSet(A) /\ Bad \subseteq SUBSET A
    BY FS_Subset
  <1>3. PICK s \in Bad : \A x \in s : s \ {x} \notin Bad
    <2> HIDE DEF Bad
    <2> QED
      BY <1>2, SmallestSet
  <1>4. s \in SUBSET A /\ s \in SUBSET S /\ sum[s \cup B] # sum[s] + sum[B]
    BY <1>3
  <1>5. s # {}
    <2> SUFFICES ASSUME s = {} PROVE FALSE
      OBVIOUS
    <2>1. s \cup B = B /\ sum[B] \in Nat /\ sum[s] = 0
      BY <1>1
    <2> QED
      BY <1>4, <2>1
  <1>6. PICK x \in s : TRUE
    BY <1>5
  <1> PICK rest : rest = s \ {x}
    OBVIOUS
  <1>7. rest \in SUBSET A /\ rest \in SUBSET S /\ rest \notin Bad
    BY <1>3, <1>4, <1>6
  <1>8. sum[rest \cup B] = sum[rest] + sum[B]
    BY <1>7
  <1>9. /\ (s \cup B) \ {x} = rest \cup B /\ x \in s \cup B
        /\ s \cup B \in SUBSET S /\ rest \cup B \in SUBSET S
    BY <1>4, <1>6
  <1>10. sum[s \cup B] = f[x] + sum[rest \cup B] /\ sum[s] = f[x] + sum[rest]
    <2>1. \A z \in SUBSET S : x \in z => sum[z] = f[x] + sum[z \ {x}]
      BY ONLY <1>1
    <2> QED
      BY <1>4, <1>6, <1>9, <2>1
  <1>11. sum[rest] \in Nat /\ sum[B] \in Nat /\ f[x] \in Nat
    BY <1>1, <1>4, <1>6, <1>7
  <1> QED
    BY <1>4, <1>8, <1>10, <1>11

-----------------------------------------------------------------------------
(* TimeTracking: reports.                                                  *)

Logged == [e \in Stored |-> timeEntry[e].mins]

LEMMA RowsTyped ==
    ASSUME TimeTypeOK
    PROVE  /\ \A e \in Stored : timeEntry[e] \in TimeEntry
           /\ \A e \in Stored : /\ timeEntry[e].user \in People /\ timeEntry[e].day \in Days
                                /\ timeEntry[e].mins \in Nat /\ timeEntry[e].mins > 0
           /\ Logged \in [Stored -> Nat]
  <1>1. \A e \in Stored : timeEntry[e] \in TimeEntry
    BY DEF TimeTypeOK, Stored
  <1>2. \A e \in Stored : /\ timeEntry[e].user \in People /\ timeEntry[e].day \in Days
                          /\ timeEntry[e].mins \in MinutesLogged \cup Targets
    BY <1>1 DEF TimeEntry
  <1>3. \A n \in MinutesLogged \cup Targets : n \in Nat /\ n > 0
    BY TimeAssumption
  <1> QED
    BY <1>1, <1>2, <1>3 DEF Logged

\* Minutes adds up what the rows of a set say, by a table over all rows.
LEMMA MinutesAdds ==
    ASSUME TimeTypeOK, IsFiniteSet(Stored), NEW sum, Adds(sum, Logged, Stored), NEW S, S \in SUBSET Stored
    PROVE  Minutes(S) = sum[S]
  <1>1. IsFiniteSet(S)
    BY FS_Subset
  <1> PICK f : f = [e \in S |-> timeEntry[e].mins]
    OBVIOUS
  <1>2. PICK other : Adds(other, f, S)
    BY <1>1, SumsExist
  <1> DEFINE First(s) == CHOOSE x \in s : TRUE
             Body(it, s) == IF s = {} THEN 0 ELSE timeEntry[First(s)].mins + it[s \ {First(s)}]
             iter == CHOOSE it : it = [s \in SUBSET S |-> Body(it, s)]
  <1>3. \A s \in SUBSET S : s # {} => First(s) \in s
    OBVIOUS
  <1>4. \A s \in SUBSET S : s # {} => f[First(s)] = timeEntry[First(s)].mins
    <2> HIDE DEF First
    <2> QED
      BY <1>3
  <1>5. other = [s \in SUBSET S |-> IF s = {} THEN 0 ELSE f[First(s)] + other[s \ {First(s)}]]
    BY <1>2 DEF Adds
  <1>6. other = [s \in SUBSET S |-> Body(other, s)]
    <2> HIDE DEF First
    <2> QED
      BY <1>4, <1>5
  <1>7. iter = [s \in SUBSET S |-> Body(iter, s)]
    <2> HIDE DEF First
    <2> QED
      BY <1>6
  <1>8. Minutes(S) = iter[S]
    BY DEF Minutes, MapThenSumSet, MapThenFoldSet
  <1>9. Adds(iter, f, S)
    <2> HIDE DEF iter, First
    <2>1. iter = [s \in SUBSET S |-> IF s = {} THEN 0 ELSE f[First(s)] + iter[s \ {First(s)}]]
      BY <1>4, <1>7
    <2> QED
      BY <2>1 DEF Adds, First
  <1> HIDE DEF iter
  <1>10. \A x \in S : Logged[x] = f[x]
    BY DEF Logged
  <1>11. \A s \in SUBSET S : iter[s] = sum[s]
    <2>1. IsFiniteSet(Stored) /\ S \in SUBSET Stored /\ Adds(sum, Logged, Stored)
      OBVIOUS
    <2> QED
      BY ONLY <2>1, <1>9, <1>10, SumsAgree
  <1> QED
    BY <1>8, <1>11

\* What the reports need of Minutes.
LEMMA MinutesAddUp ==
    ASSUME TimeTypeOK, IsFiniteSet(Stored)
    PROVE  /\ Minutes({}) = 0
           /\ \A S \in SUBSET Stored : Minutes(S) \in Nat
           /\ \A S \in SUBSET Stored : \A e \in S : Minutes(S) >= timeEntry[e].mins
           /\ \A A, B \in SUBSET Stored : A \cap B = {} => Minutes(A \cup B) = Minutes(A) + Minutes(B)
  <1>1. PICK sum : Adds(sum, Logged, Stored)
    BY SumsExist
  <1>2. \A S \in SUBSET Stored : Minutes(S) = sum[S]
    BY <1>1, MinutesAdds
  <1>3. Logged \in [Stored -> Nat] /\ \A e \in Stored : Logged[e] = timeEntry[e].mins
    BY RowsTyped DEF Logged
  <1>4. /\ sum[{}] = 0
        /\ \A s \in SUBSET Stored : sum[s] \in Nat
        /\ \A s \in SUBSET Stored : \A x \in s : sum[s] = Logged[x] + sum[s \ {x}]
    BY <1>1, <1>3, SumsAddUp
  <1>5. ASSUME NEW S \in SUBSET Stored, NEW e \in S PROVE Minutes(S) >= timeEntry[e].mins
    <2>1. S \ {e} \in SUBSET Stored /\ e \in Stored
      OBVIOUS
    <2>2. sum[S] = Logged[e] + sum[S \ {e}] /\ sum[S \ {e}] \in Nat /\ Logged[e] \in Nat
      BY <1>3, <1>4, <2>1
    <2> QED
      BY <1>2, <1>3, <2>1, <2>2
  <1>6. ASSUME NEW A \in SUBSET Stored, NEW B \in SUBSET Stored, A \cap B = {}
        PROVE  Minutes(A \cup B) = Minutes(A) + Minutes(B)
    <2>1. sum[A \cup B] = sum[A] + sum[B]
      BY <1>1, <1>3, <1>6, SumOfParts
    <2>2. A \cup B \in SUBSET Stored
      OBVIOUS
    <2> QED
      BY <1>2, <2>1, <2>2
  <1> QED
    BY <1>2, <1>4, <1>5, <1>6
\* The hours of a task, person by person, are its hours.
LEMMA HoursByPerson ==
    ASSUME TimeTypeOK, IsFiniteSet(Stored)
    PROVE  issue_time(NoOne, TRUE) = MapThenSumSet(LAMBDA u : issue_time(u, FALSE), People)
  <1> PICK g : g = [u \in People |-> issue_time(u, FALSE)]
    OBVIOUS
  <1> PICK all : all = {e \in list_for_project(Days, "IssueLevel") : timeEntry[e].iss = Task}
    OBVIOUS
  <1> DEFINE Of(U) == {e \in all : timeEntry[e].user \in U}
             First(s) == CHOOSE x \in s : TRUE
             Body(it, s) == IF s = {} THEN 0 ELSE issue_time(First(s), FALSE) + it[s \ {First(s)}]
             iter == CHOOSE it : it = [s \in SUBSET People |-> Body(it, s)]
  <1>1. IsFiniteSet(People) /\ all \subseteq Stored
    BY TimeAssumption DEF list_for_project, Worked
  <1>2. \A u \in People : issue_time(u, FALSE) = Minutes(Of({u}))
    <2> TAKE u \in People
    <2>1. Of({u}) = {e \in list_for_project(Days, "IssueLevel") : timeEntry[e].iss = Task /\ timeEntry[e].user = u}
      OBVIOUS
    <2> QED
      BY <2>1 DEF issue_time
  <1>3. issue_time(NoOne, TRUE) = Minutes(Of(People))
    <2>1. Of(People) = {e \in list_for_project(Days, "IssueLevel") : timeEntry[e].iss = Task}
      BY <1>1, RowsTyped
    <2> QED
      BY <2>1 DEF issue_time
  <1>4. PICK other : Adds(other, g, People)
    BY <1>1, SumsExist
  <1>5. \A s \in SUBSET People : s # {} => First(s) \in s
    OBVIOUS
  <1>6. \A s \in SUBSET People : s # {} => g[First(s)] = issue_time(First(s), FALSE)
    <2> HIDE DEF First
    <2> QED
      BY <1>5
  <1>7. other = [s \in SUBSET People |-> IF s = {} THEN 0 ELSE g[First(s)] + other[s \ {First(s)}]]
    BY <1>4 DEF Adds
  <1>8. other = [s \in SUBSET People |-> Body(other, s)]
    <2> HIDE DEF First
    <2> QED
      BY <1>6, <1>7
  <1>9. iter = [s \in SUBSET People |-> Body(iter, s)]
    <2> HIDE DEF First
    <2> QED
      BY <1>8
  <1>10. MapThenSumSet(LAMBDA u : issue_time(u, FALSE), People) = iter[People]
    BY DEF MapThenSumSet, MapThenFoldSet
  <1>11. Adds(iter, g, People)
    <2> HIDE DEF iter, First
    <2>1. iter = [s \in SUBSET People |-> IF s = {} THEN 0 ELSE g[First(s)] + iter[s \ {First(s)}]]
      BY <1>6, <1>9
    <2> QED
      BY <2>1 DEF Adds, First
  <1> HIDE DEF iter
  <1>12. \A S \in SUBSET Stored : Minutes(S) \in Nat
    BY MinutesAddUp
  <1>13. g \in [People -> Nat] /\ \A u \in People : g[u] = Minutes(Of({u}))
    <2>1. \A u \in People : Of({u}) \in SUBSET Stored
      BY <1>1
    <2> HIDE DEF Of
    <2> QED
      BY <1>2, <1>12, <2>1
  <1>14. /\ iter[{}] = 0
         /\ \A s \in SUBSET People : \A x \in s : iter[s] = g[x] + iter[s \ {x}]
    <2> PICK sum : sum = iter
      OBVIOUS
    <2>1. IsFiniteSet(People) /\ g \in [People -> Nat] /\ Adds(sum, g, People)
      BY <1>1, <1>11, <1>13
    <2>2. /\ sum[{}] = 0
          /\ \A s \in SUBSET People : sum[s] \in Nat
          /\ \A s \in SUBSET People : \A x \in s : sum[s] = g[x] + sum[s \ {x}]
      BY ONLY <2>1, SumsAddUp
    <2> QED
      BY <2>2
  <1>15. \A U \in SUBSET People : iter[U] = Minutes(Of(U))
    <2> DEFINE Bad == {U \in SUBSET People : iter[U] # Minutes(Of(U))}
    <2> SUFFICES ASSUME Bad # {} PROVE FALSE
      OBVIOUS
    <2>1. Bad \subseteq SUBSET People
      OBVIOUS
    <2>2. PICK U \in Bad : \A x \in U : U \ {x} \notin Bad
      <3> HIDE DEF Bad
      <3> QED
        BY <1>1, <2>1, SmallestSet
    <2>3. U \in SUBSET People /\ iter[U] # Minutes(Of(U))
      BY <2>2
    <2>4. U # {}
      <3> SUFFICES ASSUME U = {} PROVE FALSE
        OBVIOUS
      <3>1. Of(U) = {}
        OBVIOUS
      <3> HIDE DEF Of
      <3>2. Minutes(Of(U)) = 0
        BY <3>1, MinutesAddUp
      <3> QED
        BY <1>14, <2>3, <3>2
    <2>5. PICK x \in U : TRUE
      BY <2>4
    <2> PICK rest : rest = U \ {x}
      OBVIOUS
    <2>6. rest \in SUBSET People /\ rest \notin Bad
      BY <2>2, <2>3, <2>5
    <2>7. iter[rest] = Minutes(Of(rest))
      BY <2>6
    <2>8. iter[U] = g[x] + iter[rest] /\ g[x] = Minutes(Of({x}))
      BY <1>13, <1>14, <2>3, <2>5
    <2>9. Of(U) = Of({x}) \cup Of(rest) /\ Of({x}) \cap Of(rest) = {}
      BY <2>5
    <2>10. Of({x}) \in SUBSET Stored /\ Of(rest) \in SUBSET Stored
      BY <1>1
    <2> HIDE DEF Of, Bad
    <2>11. Minutes(Of({x}) \cup Of(rest)) = Minutes(Of({x})) + Minutes(Of(rest))
      BY <2>9, <2>10, MinutesAddUp
    <2> QED
      BY <2>3, <2>7, <2>8, <2>9, <2>11
  <1>16. iter[People] = Minutes(Of(People))
    BY <1>15
  <1> QED
    BY <1>3, <1>10, <1>16

\* The reports read the same rows, each in its own way.
LEMMA ReportsRead ==
    ASSUME TimeTypeOK, IsFiniteSet(Stored)
    PROVE  ReportsAgree
  <1> SUFFICES ASSUME NEW m \in Months, NEW days, days = {d \in Days : month(d) = m}
               PROVE  /\ \A u \in Loggers \ excluded : team_month(m)[u] =
                           Minutes({e \in list_for_project(days, "ProjectWide") : timeEntry[e].user = u})
                      /\ \A u \in People \ excluded : timesheet_summary(u, m, LastDay).logged =
                           global_team_month(m)[u] + Minutes(list_for_user(u, days) \ Worked)
                      /\ \A u \in People, d \in days :
                           /\ u \in availability(d) => DayMinutes(u, d) > 0
                           /\ d \in timesheet_summary(u, m, LastDay).missing => DayMinutes(u, d) < workMinutes[u]
                      /\ issue_time(NoOne, TRUE) = MapThenSumSet(LAMBDA u : issue_time(u, FALSE), People)
                      /\ \A u \in People, y \in Years :
                           vacation_balance(u, y) + Minutes({e \in list_for_user(u, Days) :
                               timeEntry[e].kind = "vacation" /\ year(timeEntry[e].day) = y})
                             = allowance[<<u, y>>] * workMinutes[u]
    BY DEF ReportsAgree
  <1>1. \A e \in Stored : /\ timeEntry[e].user \in People /\ timeEntry[e].day \in Days
                          /\ timeEntry[e].mins \in Nat /\ timeEntry[e].mins > 0
    BY RowsTyped
  <1>2. /\ \A S \in SUBSET Stored : Minutes(S) \in Nat
        /\ \A S \in SUBSET Stored : \A e \in S : Minutes(S) >= timeEntry[e].mins
        /\ \A A, B \in SUBSET Stored : A \cap B = {} => Minutes(A \cup B) = Minutes(A) + Minutes(B)
    BY MinutesAddUp
  <1>3. \A e \in Stored : timeEntry[e].day \in days <=> InMonth(e, m)
    BY <1>1 DEF InMonth
  <1>4. ASSUME NEW u \in Loggers \ excluded
        PROVE  team_month(m)[u] = Minutes({e \in list_for_project(days, "ProjectWide") : timeEntry[e].user = u})
    <2>1. {e \in Worked : timeEntry[e].user = u /\ timeEntry[e].proj = Project /\ InMonth(e, m)}
            = {e \in list_for_project(days, "ProjectWide") : timeEntry[e].user = u}
      BY <1>3 DEF list_for_project, Worked
    <2> QED
      BY <2>1 DEF team_month
  <1>5. ASSUME NEW u \in People \ excluded
        PROVE  timesheet_summary(u, m, LastDay).logged =
                 global_team_month(m)[u] + Minutes(list_for_user(u, days) \ Worked)
    <2> PICK A, B : /\ A = {e \in Worked : timeEntry[e].user = u /\ InMonth(e, m)}
                    /\ B = list_for_user(u, days) \ Worked
      OBVIOUS
    <2>1. /\ A \in SUBSET Stored /\ B \in SUBSET Stored /\ A \cap B = {}
          /\ list_for_user(u, days) = A \cup B
      BY <1>3 DEF list_for_user, Worked
    <2>2. timesheet_summary(u, m, LastDay).logged = Minutes(list_for_user(u, days))
      BY DEF timesheet_summary
    <2>3. global_team_month(m)[u] = Minutes(A)
      BY DEF global_team_month
    <2>4. Minutes(A \cup B) = Minutes(A) + Minutes(B)
      BY ONLY <1>2, <2>1
    <2> QED
      BY <2>1, <2>2, <2>3, <2>4
  <1>6. ASSUME NEW u \in People, NEW d \in days
        PROVE  /\ u \in availability(d) => DayMinutes(u, d) > 0
               /\ d \in timesheet_summary(u, m, LastDay).missing => DayMinutes(u, d) < workMinutes[u]
    <2> PICK S : S = list_for_user(u, {d})
      OBVIOUS
    <2>1. S \in SUBSET Stored /\ DayMinutes(u, d) = Minutes(S)
      BY DEF list_for_user, DayMinutes
    <2>2. ASSUME u \in availability(d) PROVE Minutes(S) > 0
      <3>1. PICK e \in Stored : timeEntry[e].day = d /\ timeEntry[e].user = u
        BY <2>2 DEF availability
      <3>2. e \in S
        BY <3>1 DEF list_for_user
      <3>3. Minutes(S) >= timeEntry[e].mins /\ Minutes(S) \in Nat
        BY <1>2, <2>1, <3>2
      <3> QED
        BY <1>1, <3>3
    <2>3. ASSUME d \in timesheet_summary(u, m, LastDay).missing PROVE Minutes(S) < workMinutes[u]
      <3>1. workMinutes[u] \in Nat
        BY TimeAssumption DEF TimeTypeOK
      <3>2. ~(DayMinutes(u, d) >= workMinutes[u])
        BY <2>3 DEF timesheet_summary
      <3>3. Minutes(S) \in Nat
        BY <1>2, <2>1
      <3> QED
        BY <2>1, <3>1, <3>2, <3>3
    <2> QED
      BY <2>1, <2>2, <2>3
  <1>7. ASSUME NEW u \in People, NEW y \in Years
        PROVE  vacation_balance(u, y) + Minutes({e \in list_for_user(u, Days) :
                   timeEntry[e].kind = "vacation" /\ year(timeEntry[e].day) = y}) = allowance[<<u, y>>] * workMinutes[u]
    <2> PICK S : S = {e \in Stored : timeEntry[e].user = u /\ timeEntry[e].kind = "vacation"
                                     /\ year(timeEntry[e].day) = y}
      OBVIOUS
    <2>1. {e \in list_for_user(u, Days) : timeEntry[e].kind = "vacation" /\ year(timeEntry[e].day) = y} = S
      BY <1>1 DEF list_for_user
    <2>2. vacation_balance(u, y) = allowance[<<u, y>>] * workMinutes[u] - Minutes(S)
      BY DEF vacation_balance
    <2>3. workMinutes[u] \in Nat /\ allowance[<<u, y>>] \in Nat
      BY TimeAssumption DEF TimeTypeOK
    <2>4. PICK n \in Nat : n = allowance[<<u, y>>] * workMinutes[u]
      BY <2>3
    <2>5. PICK k \in Nat : k = Minutes(S)
      <3>1. S \in SUBSET Stored
        OBVIOUS
      <3> QED
        BY ONLY <1>2, <3>1
    <2>6. vacation_balance(u, y) = n - k
      BY <2>2, <2>4, <2>5
    <2>7. (n - k) + k = n
      OBVIOUS
    <2> QED
      BY ONLY <2>1, <2>4, <2>5, <2>6, <2>7
  <1> QED
    BY <1>4, <1>5, <1>6, <1>7, HoursByPerson


\* Only finitely many ids have been handed out.
LEMMA FiniteBooking ==
    ASSUME IsFiniteSet(issued), NEW h, NEW u, NEW k, NEW from \in Days, NEW to \in Days, NEW mins, NEW skip,
           book_absence(h, u, k, from, to, mins, skip)
    PROVE  IsFiniteSet(issued')
  <1> PICK days : days = booking_days(from, to, skip)
    OBVIOUS
  <1>1. PICK b \in Bookings \ issued, at \in [days -> Entries \ issued] :
          issued' = issued \cup {b} \cup {at[d] : d \in days}
    BY DEF book_absence
  <1>2. IsFiniteSet(days)
    <2>1. from \in Int /\ to \in Int
      BY DEF Days
    <2>2. IsFiniteSet(from .. to)
      BY <2>1, FS_Interval
    <2>3. days \subseteq from .. to
      BY DEF booking_days
    <2> QED
      BY <2>2, <2>3, FS_Subset
  <1> PICK ids : ids = {at[d] : d \in days}
    OBVIOUS
  <1>3. at \in Surjection(days, ids)
    BY <1>1 DEF Surjection
  <1>4. IsFiniteSet(ids)
    BY <1>2, <1>3, FS_Surjection
  <1>5. IsFiniteSet(issued \cup {b})
    BY FS_AddElement
  <1>6. IsFiniteSet((issued \cup {b}) \cup ids)
    BY <1>4, <1>5, FS_Union
  <1> QED
    BY <1>1, <1>6

LEMMA FiniteStep ==
    ASSUME IsFiniteSet(issued), [TimeNext]_timeVars
    PROVE  IsFiniteSet(issued')
  <1>1. ASSUME NEW r, create_entry(r) PROVE IsFiniteSet(issued')
    BY <1>1, FS_AddElement DEF create_entry
  <1>2. CASE UNCHANGED timeVars
    BY <1>2 DEF timeVars
  <1>3. CASE \E s \in {"deleted", "gone"} : TaskGone(s)
    BY <1>3 DEF TaskGone
  <1>4. ASSUME NEW h \in Clerks,
               \/ \E u \in People, d \in Days, mins \in MinutesLogged :
                    \/ \E k \in {"work", "meeting"}, t \in {Task, NoOne}, p \in {Project, NoOne}, note \in BOOLEAN :
                         log_my_time(h, u, k, t, p, d, mins, note)
                    \/ \E e \in Entries, v \in 1 .. MaxTimeOps : update_my_entry(h, u, e, mins, d, v)
                    \/ \E t \in {Task, NoOne} : admin_log_time(h, u, t, d, mins)
               \/ \E u \in People, e \in Entries : delete_my_entry(h, u, e)
        PROVE  IsFiniteSet(issued')
    <2>1. ASSUME NEW u, NEW d, NEW mins, NEW t, admin_log_time(h, u, t, d, mins) PROVE IsFiniteSet(issued')
      BY <1>1, <2>1 DEF admin_log_time
    <2>2. ASSUME NEW rec, StartTime(h, rec) PROVE IsFiniteSet(issued')
      BY <2>2 DEF StartTime
    <2>3. ASSUME NEW u, NEW d, NEW mins, NEW k, NEW t, NEW p, NEW note, log_my_time(h, u, k, t, p, d, mins, note)
          PROVE  IsFiniteSet(issued')
      <3>1. \E rec : StartTime(h, rec)
        BY <2>3, Zenon DEF log_my_time
      <3> QED
        BY <2>2, <3>1
    <2>4. ASSUME NEW u, NEW d, NEW mins, NEW e, NEW v, update_my_entry(h, u, e, mins, d, v)
          PROVE  IsFiniteSet(issued')
      <3>1. \E rec : StartTime(h, rec)
        BY <2>4, Zenon DEF update_my_entry
      <3> QED
        BY <2>2, <3>1
    <2>5. ASSUME NEW u, NEW e, delete_my_entry(h, u, e) PROVE IsFiniteSet(issued')
      <3>1. \E rec : StartTime(h, rec)
        BY <2>5, Zenon DEF delete_my_entry
      <3> QED
        BY <2>2, <3>1
    <2> QED
      BY <1>4, <2>1, <2>3, <2>4, <2>5
  <1>5. ASSUME NEW h \in Clerks, WriteMine(h) PROVE IsFiniteSet(issued')
    BY <1>1, <1>5 DEF WriteMine
  <1>6. ASSUME NEW h \in Clerks, NEW u \in People, NEW k \in Absence, NEW from \in Days, NEW to \in Days,
               NEW mins \in {0} \cup MinutesLogged, NEW skip \in BOOLEAN,
               book_absence(h, u, k, from, to, mins, skip)
        PROVE  IsFiniteSet(issued')
    BY ONLY IsFiniteSet(issued), <1>6, FiniteBooking
  <1>7. ASSUME NEW h \in Clerks,
               \/ \E u \in People, b \in Bookings : delete_booking(h, u, b)
               \/ \E e \in Entries, mins \in MinutesLogged, d \in Days, v \in 1 .. MaxTimeOps :
                    admin_update_entry(h, e, mins, d, v)
               \/ \E e \in Entries : admin_delete_entry(h, e)
               \/ \E m \in Months : lock_period(h, m) \/ unlock_period(h, m)
               \/ \E u \in People, y \in Years, n \in Targets : upsert_allowance(h, u, y, n)
               \/ \E u \in People, n \in Targets : set_work_minutes_per_day(h, u, n)
               \/ \E u \in People : set_exclusion(h, u)
        PROVE  IsFiniteSet(issued')
    BY <1>7 DEF delete_booking, admin_update_entry, admin_delete_entry, lock_period, unlock_period,
                upsert_allowance, set_work_minutes_per_day, set_exclusion
  <1> QED
    BY <1>2, <1>3, <1>4, <1>5, <1>6, <1>7 DEF TimeNext

FewIssued == IsFiniteSet(issued)

LEMMA FinitelyManyIssued == TimeSpec => []FewIssued
  <1>1. TimeInit => FewIssued
    BY FS_EmptySet DEF TimeInit, FewIssued
  <1>2. FewIssued /\ [TimeNext]_timeVars => FewIssued'
    BY FiniteStep DEF FewIssued
  <1> QED
    BY <1>1, <1>2, PTL DEF TimeSpec

\* The reports agree in every state: Minutes adds up over the rows, and the
\* reports of one state cut the same rows in different ways.
THEOREM ReportsAlwaysAgree == TimeSpec => []ReportsAgree
  <1>1. TimeTypeOK /\ FewIssued => ReportsAgree
    <2> SUFFICES ASSUME TimeTypeOK, FewIssued PROVE ReportsAgree
      OBVIOUS
    <2>1. Stored \subseteq issued
      BY DEF TimeTypeOK
    <2>2. IsFiniteSet(Stored)
      BY <2>1, FS_Subset DEF FewIssued
    <2> QED
      BY <2>2, ReportsRead
  <1> QED
    BY <1>1, FinitelyManyIssued, TimeTypeCorrect, PTL

-----------------------------------------------------------------------------
(* Hierarchy.                                                              *)

\* The trigger's reading of a statement under way is current.
ReadingOK(r, l) == r.at = "wrote" => r.mil = issue_milestone_from_epic(r.epc) \/ "epics" \in l

DriftOK ==
    /\ MilestoneFollowsEpic \/ "drift" \in raced
    /\ \A h \in Editors : ReadingOK(edit[h], late[h])

\* A milestone a handler is about to fill is not deleted, and one it is
\* about to delete is empty.
Fills(r) == r.at # "idle" /\ r.op \in {"epic", "fill"} /\ r.mil # Nil
Drops(r) == r.at # "idle" /\ r.op = "delete"

FillOK(r, l) ==
    \/ "orphan" \in raced
    \/ /\ Fills(r) => milestone[r.mil] # "deleted" \/ "milestones" \in l
       /\ Drops(r) => (\A e \in LiveEpics : epic[e].mil # r.row) \/ "epics" \in l

OrphanOK ==
    /\ DeletedMilestoneIsEmpty \/ "orphan" \in raced
    /\ \A h \in Editors : FillOK(edit[h], late[h])

TreeInv == TreeTypeOK /\ DriftOK /\ OrphanOK

Cues == {"parents", "epics", "milestones", "walk"}

LEMMA TreeParts ==
    ASSUME TreeInv
    PROVE  /\ issue \in [Issues -> IssueRow] /\ epic \in [Epics -> EpicRow]
           /\ milestone \in [Milestones -> {"none", "open", "closed", "deleted"}]
           /\ edit \in [Editors -> Edit] /\ edits \in 0 .. MaxEdits /\ late \in [Editors -> SUBSET Cues]
           /\ \A h \in Editors : edit[h] \in Edit /\ late[h] \in SUBSET Cues
           /\ Idle \in Edit /\ raced \subseteq {"cycle", "drift", "orphan"}
           /\ Nil \notin Issues \cup Epics \cup Milestones
  BY HierarchyAssumption DEF TreeInv, TreeTypeOK, Cues, Idle, Edit

\* A statement under way has read today's epics, or has been told.
LEMMA ReadingsStay ==
    ASSUME TreeInv,
           \A g \in Editors : edit'[g].at = "wrote" =>
               /\ edit'[g] = edit[g] /\ late[g] \subseteq late'[g]
               /\ UNCHANGED epic \/ "epics" \in late'[g]
    PROVE  \A g \in Editors : ReadingOK(edit[g], late[g])'
  <1> SUFFICES ASSUME NEW g \in Editors, edit'[g].at = "wrote"
               PROVE  (edit[g].mil = issue_milestone_from_epic(edit[g].epc))' \/ "epics" \in late'[g]
    BY DEF ReadingOK
  <1>1. edit[g].mil = issue_milestone_from_epic(edit[g].epc) \/ "epics" \in late[g]
    BY DEF TreeInv, DriftOK, ReadingOK
  <1> QED
    BY <1>1 DEF issue_milestone_from_epic, LiveEpics

\* What a handler relies on for its milestone stands, or it has been told.
LEMMA FillsStay ==
    ASSUME TreeInv, raced \subseteq raced',
           \A g \in Editors : edit'[g].at # "idle" /\ edit'[g].op \in {"epic", "fill", "delete"} =>
               \/ FillOK(edit[g], late[g])'
               \/ /\ edit[g].at # "idle" /\ edit'[g].op = edit[g].op /\ edit'[g].mil = edit[g].mil
                  /\ edit'[g].row = edit[g].row /\ late[g] \subseteq late'[g]
                  /\ \/ "milestones" \in late'[g]
                     \/ \A m \in Milestones : milestone'[m] = "deleted" => milestone[m] = "deleted"
                  /\ \/ "epics" \in late'[g]
                     \/ \A e \in Epics : epic'[e].st = "live" => epic[e].st = "live" /\ epic'[e].mil = epic[e].mil
    PROVE  \A g \in Editors : FillOK(edit[g], late[g])'
  <1> SUFFICES ASSUME NEW g \in Editors, ~FillOK(edit[g], late[g])' PROVE FALSE
    OBVIOUS
  <1>1. "orphan" \notin raced' /\ (Fills(edit[g])' \/ Drops(edit[g])')
    BY DEF FillOK
  <1>2. /\ edit[g].at # "idle" /\ edit'[g].op = edit[g].op /\ edit'[g].mil = edit[g].mil
        /\ edit'[g].row = edit[g].row /\ late[g] \subseteq late'[g]
        /\ \/ "milestones" \in late'[g]
           \/ \A m \in Milestones : milestone'[m] = "deleted" => milestone[m] = "deleted"
        /\ \/ "epics" \in late'[g]
           \/ \A e \in Epics : epic'[e].st = "live" => epic[e].st = "live" /\ epic'[e].mil = epic[e].mil
    BY <1>1 DEF Fills, Drops
  <1>3. /\ Fills(edit[g]) => milestone[edit[g].mil] # "deleted" \/ "milestones" \in late[g]
        /\ Drops(edit[g]) => (\A e \in LiveEpics : epic[e].mil # edit[g].row) \/ "epics" \in late[g]
    BY <1>1 DEF TreeInv, OrphanOK, FillOK
  <1>4. Fills(edit[g])' => milestone'[edit'[g].mil] # "deleted" \/ "milestones" \in late'[g]
    BY <1>2, <1>3, TreeParts DEF Fills, Edit
  <1>5. Drops(edit[g])' => (\A e \in LiveEpics' : epic'[e].mil # edit'[g].row) \/ "epics" \in late'[g]
    BY <1>2, <1>3 DEF Drops, LiveEpics
  <1> QED
    BY <1>4, <1>5 DEF FillOK

\* A handler goes on and writes nothing.
LEMMA EditMoves ==
    ASSUME TreeInv, NEW h \in Editors, NEW rec \in Edit, NEW l \in SUBSET Cues,
           edit' = [edit EXCEPT ![h] = rec], late' = [late EXCEPT ![h] = l], edits' \in 0 .. MaxEdits,
           UNCHANGED <<issue, epic, milestone, raced>>, ReadingOK(rec, l), FillOK(rec, l)
    PROVE  TreeInv'
  <1>1. /\ edit' \in [Editors -> Edit] /\ late' \in [Editors -> SUBSET Cues]
        /\ \A g \in Editors : g # h => edit'[g] = edit[g] /\ late'[g] = late[g]
        /\ edit'[h] = rec /\ late'[h] = l
    BY TreeParts
  <1>2. TreeTypeOK'
    BY <1>1 DEF TreeInv, TreeTypeOK, Cues
  <1>3. \A r, x : (ReadingOK(r, x) => ReadingOK(r, x)') /\ (FillOK(r, x) => FillOK(r, x)')
    BY DEF ReadingOK, FillOK, Fills, Drops, issue_milestone_from_epic, LiveEpics
  <1>4. \A g \in Editors : ReadingOK(edit[g], late[g])' /\ FillOK(edit[g], late[g])'
    <2> TAKE g \in Editors
    <2> PICK r, x : r = edit'[g] /\ x = late'[g]
      OBVIOUS
    <2>1. ReadingOK(r, x) /\ FillOK(r, x)
      BY <1>1 DEF TreeInv, DriftOK, OrphanOK
    <2>2. ReadingOK(r, x)' /\ FillOK(r, x)'
      BY <1>3, <2>1
    <2> QED
      BY <2>2 DEF ReadingOK, FillOK, Fills, Drops
  <1>5. MilestoneFollowsEpic' <=> MilestoneFollowsEpic
    BY DEF MilestoneFollowsEpic, issue_milestone_from_epic, LiveEpics
  <1>6. DeletedMilestoneIsEmpty' <=> DeletedMilestoneIsEmpty
    BY DEF DeletedMilestoneIsEmpty, LiveEpics
  <1> QED
    BY <1>2, <1>4, <1>5, <1>6 DEF TreeInv, DriftOK, OrphanOK

\* A request's checks pass: its handler holds rec and has been told nothing.
LEMMA EditBegins ==
    ASSUME TreeInv, NEW h \in Editors, NEW rec \in Edit, Begin(h, rec), rec.at # "wrote",
           UNCHANGED <<issue, epic, milestone, raced>>, FillOK(rec, {})
    PROVE  TreeInv'
  <1>1. edit' = [edit EXCEPT ![h] = rec] /\ late' = [late EXCEPT ![h] = {}] /\ edits' \in 0 .. MaxEdits
    BY HierarchyAssumption DEF Begin, TreeInv, TreeTypeOK
  <1>2. ReadingOK(rec, {}) /\ {} \in SUBSET Cues
    BY DEF ReadingOK
  <1> QED
    BY <1>1, <1>2, EditMoves

LEMMA TreeInvInit == TreeInit => TreeInv
  <1> SUFFICES ASSUME TreeInit PROVE TreeInv
    OBVIOUS
  <1>1. TreeTypeOK
    BY HierarchyAssumption DEF TreeInit, TreeTypeOK, Idle, Edit, IssueRow, EpicRow
  <1>2. DriftOK
    BY HierarchyAssumption DEF TreeInit, DriftOK, MilestoneFollowsEpic, ReadingOK, issue_milestone_from_epic, LiveEpics, Idle
  <1>3. OrphanOK
    BY DEF TreeInit, OrphanOK, DeletedMilestoneIsEmpty, FillOK, Fills, Drops, LiveEpics, Idle
  <1> QED
    BY <1>1, <1>2, <1>3 DEF TreeInv

\* The issue handlers up to their statement.
LEMMA IssueHandlers ==
    ASSUME TreeInv, NEW h \in Editors, NEW i \in Issues, NEW e \in Epics \cup {Nil}, NEW p \in Issues \cup {Nil},
           create_issue(h, i, e, p) \/ import_commit(h, i, e, p) \/ update_issue(h, i)
    PROVE  TreeInv'
  <1>1. \A r \in Edit : r.op \notin {"epic", "fill", "delete"} => FillOK(r, {})
    BY DEF FillOK, Fills, Drops
  <1>2. issue[i].par \in Issues \cup {Nil} /\ issue[i].epc \in Epics \cup {Nil} /\ issue[i].ver \in Nat
    BY TreeParts DEF IssueRow
  <1>3. CASE create_issue(h, i, e, p)
    <2> DEFINE rec == [Idle EXCEPT !.at = "checked", !.op = "create", !.row = i, !.par = p, !.epc = e]
    <2>1. rec \in Edit /\ rec.at = "checked" /\ rec.op = "create"
      BY DEF Edit, Idle
    <2> HIDE DEF rec
    <2>2. Begin(h, rec) /\ UNCHANGED <<issue, epic, milestone, raced>>
      BY <1>3 DEF create_issue, rec
    <2> QED
      BY <1>1, <2>1, <2>2, EditBegins
  <1>4. CASE import_commit(h, i, e, p)
    <2> DEFINE rec == [Idle EXCEPT !.at = "checked", !.op = "link", !.row = i,
                                   !.par = IF p = Nil THEN issue[i].par ELSE p,
                                   !.epc = IF e = Nil THEN issue[i].epc ELSE e]
    <2>1. rec \in Edit /\ rec.at = "checked" /\ rec.op = "link"
      BY <1>2 DEF Edit, Idle
    <2> HIDE DEF rec
    <2>2. Begin(h, rec) /\ UNCHANGED <<issue, epic, milestone, raced>>
      BY <1>4 DEF import_commit, rec
    <2> QED
      BY <1>1, <2>1, <2>2, EditBegins
  <1>5. CASE update_issue(h, i)
    <2> DEFINE rec == [Idle EXCEPT !.at = "read", !.op = "update", !.row = i, !.ver = issue[i].ver,
                                   !.par = issue[i].par, !.epc = issue[i].epc]
    <2>1. rec \in Edit /\ rec.at = "read" /\ rec.op = "update"
      BY <1>2 DEF Edit, Idle
    <2> HIDE DEF rec
    <2>2. Begin(h, rec) /\ UNCHANGED <<issue, epic, milestone, raced>>
      BY <1>5 DEF update_issue, rec
    <2> QED
      BY <1>1, <2>1, <2>2, EditBegins
  <1> QED
    BY <1>3, <1>4, <1>5

LEMMA PatchChecked ==
    ASSUME TreeInv, NEW h \in Editors, NEW e \in Epics \cup {Nil}, NEW p \in Issues \cup {Nil},
           NEW blind \in BOOLEAN, CheckPatch(h, e, p, blind)
    PROVE  TreeInv'
  <1> DEFINE rec == [edit[h] EXCEPT !.at = "checked", !.par = p, !.epc = e]
  <1>1. edit[h] \in Edit /\ edit[h].op = "update"
    BY TreeParts DEF CheckPatch
  <1>2. rec \in Edit /\ rec.at = "checked" /\ rec.op = "update"
    BY <1>1 DEF Edit
  <1>3. edit' = [edit EXCEPT ![h] = rec]
    BY DEF CheckPatch
  <1> HIDE DEF rec
  <1>4. PICK l \in SUBSET Cues : late' = [late EXCEPT ![h] = l]
    <2>1. {} \in SUBSET Cues /\ {"walk"} \in SUBSET Cues
      BY DEF Cues
    <2>2. late' = [late EXCEPT ![h] = {}] \/ late' = [late EXCEPT ![h] = {"walk"}]
      BY DEF CheckPatch
    <2> QED
      BY <2>1, <2>2
  <1>5. ReadingOK(rec, l) /\ FillOK(rec, l)
    BY <1>2 DEF ReadingOK, FillOK, Fills, Drops
  <1>6. edits' \in 0 .. MaxEdits /\ UNCHANGED <<issue, epic, milestone, raced>>
    BY TreeParts DEF CheckPatch
  <1> QED
    BY <1>2, <1>3, <1>4, <1>5, <1>6, EditMoves

\* A handler ends without a write.
LEMMA EditEnds ==
    ASSUME TreeInv, NEW h \in Editors, edit' = [edit EXCEPT ![h] = Idle],
           UNCHANGED <<issue, epic, milestone, edits, late, raced>>
    PROVE  TreeInv'
  <1>1. Idle \in Edit /\ late[h] \in SUBSET Cues /\ edits' \in 0 .. MaxEdits /\ late' = [late EXCEPT ![h] = late[h]]
    BY TreeParts
  <1>2. ReadingOK(Idle, late[h]) /\ FillOK(Idle, late[h])
    BY DEF ReadingOK, FillOK, Fills, Drops, Idle
  <1> QED
    BY <1>1, <1>2, EditMoves

LEMMA StatementRuns ==
    ASSUME TreeInv, NEW h \in Editors, IssueStatement(h)
    PROVE  TreeInv'
  <1> DEFINE m == issue_milestone_from_epic(edit[h].epc)
             rec == [edit[h] EXCEPT !.at = "wrote", !.mil = m]
  <1>1. edit[h] \in Edit /\ edit[h].op \in {"create", "update", "link"}
    BY TreeParts DEF IssueStatement
  <1>2. m \in Milestones \cup {Nil}
    BY TreeParts DEF issue_milestone_from_epic, LiveEpics, EpicRow
  <1>3. edit' = [edit EXCEPT ![h] = rec] \/ edit' = [edit EXCEPT ![h] = Idle]
    BY DEF IssueStatement
  <1>4. UNCHANGED <<issue, epic, milestone, edits, late, raced>>
    BY DEF IssueStatement
  <1> HIDE DEF m
  <1>5. rec \in Edit /\ rec.at = "wrote" /\ rec.op \in {"create", "update", "link"} /\ rec.mil = m /\ rec.epc = edit[h].epc
    BY <1>1, <1>2 DEF Edit
  <1> HIDE DEF rec
  <1>6. ReadingOK(rec, late[h]) /\ FillOK(rec, late[h])
    BY <1>5 DEF ReadingOK, FillOK, Fills, Drops, m
  <1>7. late[h] \in SUBSET Cues /\ edits' \in 0 .. MaxEdits /\ late' = [late EXCEPT ![h] = late[h]]
    BY <1>4, TreeParts
  <1>8. CASE edit' = [edit EXCEPT ![h] = rec]
    BY <1>4, <1>5, <1>6, <1>7, <1>8, EditMoves
  <1> QED
    BY <1>3, <1>4, <1>8, EditEnds

\* The epic and milestone handlers up to their statement: what they checked
\* holds when they begin.
LEMMA EpicHandlers ==
    ASSUME TreeInv, NEW h \in Editors, NEW e \in Epics, NEW m \in Milestones \cup {Nil},
           NEW blind \in BOOLEAN, create_epic(h, e, m, blind) \/ update_epic(h, e, m, blind)
    PROVE  TreeInv'
  <1>1. m = Nil \/ milestone[m] # "deleted" \/ "orphan" \in raced
    <2>1. CASE validate_epic_milestone_assignment(m, blind)
      BY <2>1 DEF validate_epic_milestone_assignment, LiveMilestones
    <2>2. CASE ~validate_epic_milestone_assignment(m, blind)
      BY <2>2 DEF create_epic, update_epic, TreeInv, OrphanOK, DeletedMilestoneIsEmpty
    <2> QED
      BY <2>1, <2>2
  <1>2. ASSUME NEW r \in Edit, r.at = "checked", r.op = "epic", r.mil = m PROVE FillOK(r, {}) /\ r.at # "wrote"
    BY <1>1, <1>2 DEF FillOK, Fills, Drops
  <1>3. CASE create_epic(h, e, m, blind)
    <2> DEFINE rec == [Idle EXCEPT !.at = "checked", !.op = "epic", !.row = e, !.mil = m]
    <2>1. rec \in Edit /\ rec.at = "checked" /\ rec.op = "epic" /\ rec.mil = m
      BY DEF Edit, Idle
    <2> HIDE DEF rec
    <2>2. Begin(h, rec) /\ UNCHANGED <<issue, epic, milestone, raced>>
      BY <1>3 DEF create_epic, rec
    <2> QED
      BY <1>2, <2>1, <2>2, EditBegins
  <1>4. CASE update_epic(h, e, m, blind)
    <2> DEFINE rec == [Idle EXCEPT !.at = "checked", !.op = "epic", !.row = e, !.ver = epic[e].ver, !.mil = m]
    <2>1. rec \in Edit /\ rec.at = "checked" /\ rec.op = "epic" /\ rec.mil = m
      BY TreeParts DEF Edit, Idle, EpicRow
    <2> HIDE DEF rec
    <2>2. Begin(h, rec) /\ UNCHANGED <<issue, epic, milestone, raced>>
      BY <1>4 DEF update_epic, rec
    <2> QED
      BY <1>2, <2>1, <2>2, EditBegins
  <1> QED
    BY <1>3, <1>4

LEMMA MilestoneHandlers ==
    ASSUME TreeInv, NEW h \in Editors, NEW m \in Milestones,
           (\E S \in SUBSET Epics, blind \in BOOLEAN : set_epics(h, m, S, blind)) \/ delete_milestone(h, m)
    PROVE  TreeInv'
  <1>1. ASSUME NEW S \in SUBSET Epics, NEW blind \in BOOLEAN, set_epics(h, m, S, blind) PROVE TreeInv'
    <2> DEFINE rec == [Idle EXCEPT !.at = "checked", !.op = "fill", !.row = m, !.mil = m, !.set = S]
    <2>1. rec \in Edit /\ rec.at = "checked" /\ rec.op = "fill" /\ rec.mil = m
      BY DEF Edit, Idle
    <2> HIDE DEF rec
    <2>2. Begin(h, rec) /\ UNCHANGED <<issue, epic, milestone, raced>> /\ milestone[m] # "deleted"
      BY <1>1 DEF set_epics, rec, LiveMilestones
    <2>3. FillOK(rec, {})
      BY <2>1, <2>2 DEF FillOK, Fills, Drops
    <2> QED
      BY <2>1, <2>2, <2>3, EditBegins
  <1>2. CASE delete_milestone(h, m)
    <2> DEFINE rec == [Idle EXCEPT !.at = "checked", !.op = "delete", !.row = m]
    <2>1. rec \in Edit /\ rec.at = "checked" /\ rec.op = "delete" /\ rec.row = m
      BY DEF Edit, Idle
    <2> HIDE DEF rec
    <2>2. Begin(h, rec) /\ UNCHANGED <<issue, epic, milestone, raced>> /\ \A e \in LiveEpics : epic[e].mil # m
      BY <1>2 DEF delete_milestone, rec, has_epics
    <2>3. FillOK(rec, {})
      BY <2>1, <2>2 DEF FillOK, Fills, Drops
    <2> QED
      BY <2>1, <2>2, <2>3, EditBegins
  <1> QED
    BY <1>1, <1>2

-----------------------------------------------------------------------------
(* The steps that write.                                                   *)

\* The invariant after a step, from what each part needs.
LEMMA TreeFromParts ==
    ASSUME TreeTypeOK', (MilestoneFollowsEpic \/ "drift" \in raced)', (DeletedMilestoneIsEmpty \/ "orphan" \in raced)',
           \A g \in Editors : ReadingOK(edit[g], late[g])', \A g \in Editors : FillOK(edit[g], late[g])'
    PROVE  TreeInv'
  BY DEF TreeInv, DriftOK, OrphanOK

\* Tell, handler by handler.
LEMMA Told ==
    ASSUME TreeInv, NEW h \in Editors, NEW w \in Cues, Tell(h, w)
    PROVE  /\ late' \in [Editors -> SUBSET Cues]
           /\ \A g \in Editors : g # h => late[g] \subseteq late'[g] /\ (edit[g].at # "idle" => w \in late'[g])
  BY TreeParts DEF Tell

\* An issue's statement commits: its row carries the milestone it read.
LEMMA IssueCommits ==
    ASSUME TreeInv, NEW h \in Editors, IssueCommit(h)
    PROVE  TreeInv'
  <1> PICK r \in Edit : r = edit[h]
    BY TreeParts
  <1>1. /\ r.at = "wrote" /\ edit' = [edit EXCEPT ![h] = Idle] /\ Tell(h, "parents")
        /\ raced' = raced \cup (IF late[h] \cap {"parents", "walk"} # {} \/ r.op = "link" THEN {"cycle"} ELSE {})
                      \cup (IF "epics" \in late[h] THEN {"drift"} ELSE {})
        /\ UNCHANGED <<epic, milestone, edits>>
    BY DEF IssueCommit
  <1>2. /\ raced \subseteq raced' /\ raced' \subseteq {"cycle", "drift", "orphan"}
        /\ "epics" \in late[h] => "drift" \in raced'
    BY <1>1, TreeParts
  <1>3. /\ edit' \in [Editors -> Edit] /\ edit'[h] = Idle /\ \A g \in Editors : g # h => edit'[g] = edit[g]
        /\ Idle.at = "idle"
    BY <1>1, TreeParts DEF Idle
  <1>4. /\ late' \in [Editors -> SUBSET Cues]
        /\ \A g \in Editors : g # h => late[g] \subseteq late'[g]
    BY <1>1, Told DEF Cues
  <1>5. PICK fresh : /\ issue' = [issue EXCEPT ![r.row] = fresh] /\ (r.row \in Issues => fresh \in IssueRow)
                   /\ fresh.epc = r.epc /\ fresh.mil = r.mil
    <2> DEFINE fresh == [st |-> IF r.op = "create" THEN "live" ELSE issue[r.row].st,
                       ver |-> IF r.op = "link" THEN issue[r.row].ver ELSE issue[r.row].ver + 1,
                       par |-> r.par, epc |-> r.epc, mil |-> r.mil]
    <2>1. issue' = [issue EXCEPT ![r.row] = fresh]
      BY DEF IssueCommit
    <2>2. r.row \in Issues => fresh \in IssueRow
      BY TreeParts DEF IssueRow, Edit
    <2>3. fresh.epc = r.epc /\ fresh.mil = r.mil
      OBVIOUS
    <2> HIDE DEF fresh
    <2> QED
      BY <2>1, <2>2, <2>3
  <1>6. TreeTypeOK'
    <2>1. issue' \in [Issues -> IssueRow]
      BY <1>5, TreeParts
    <2> QED
      BY <1>1, <1>2, <1>3, <1>4, <2>1, TreeParts DEF TreeTypeOK, Cues
  <1>7. (MilestoneFollowsEpic \/ "drift" \in raced)'
    <2> SUFFICES ASSUME "drift" \notin raced' PROVE MilestoneFollowsEpic'
      OBVIOUS
    <2>1. r.mil = issue_milestone_from_epic(r.epc)
      BY <1>1, <1>2 DEF TreeInv, DriftOK, ReadingOK
    <2>2. MilestoneFollowsEpic
      BY <1>2 DEF TreeInv, DriftOK
    <2>3. \A x : issue_milestone_from_epic(x)' = issue_milestone_from_epic(x)
      BY <1>1 DEF issue_milestone_from_epic, LiveEpics
    <2> SUFFICES ASSUME NEW i \in Issues, issue'[i].st # "none"
                 PROVE  (issue[i].mil = issue_milestone_from_epic(issue[i].epc))'
      BY DEF MilestoneFollowsEpic
    <2>4. CASE i = r.row
      <3>1. issue'[i] = fresh
        BY <1>5, <2>4, TreeParts
      <3> QED
        BY <1>1, <1>5, <2>1, <3>1 DEF issue_milestone_from_epic, LiveEpics
    <2>5. CASE i # r.row
      <3>1. issue'[i] = issue[i]
        BY <1>5, <2>5, TreeParts
      <3> QED
        BY <1>1, <2>2, <3>1 DEF MilestoneFollowsEpic, issue_milestone_from_epic, LiveEpics
    <2> QED
      BY <2>4, <2>5
  <1>8. (DeletedMilestoneIsEmpty \/ "orphan" \in raced)'
    BY <1>1, <1>2 DEF TreeInv, OrphanOK, DeletedMilestoneIsEmpty, LiveEpics
  <1>9. \A g \in Editors : ReadingOK(edit[g], late[g])'
    BY <1>1, <1>3, <1>4, ReadingsStay
  <1>10. \A g \in Editors : FillOK(edit[g], late[g])'
    BY <1>1, <1>2, <1>3, <1>4, FillsStay
  <1> QED
    BY <1>6, <1>7, <1>8, <1>9, <1>10, TreeFromParts

\* delete_entity and purge_issues: an issue that is left carries its epic's
\* milestone, and the handlers are not concerned.
LEMMA IssuesRemoved ==
    ASSUME TreeInv, NEW h \in Editors, (\E i \in Issues : delete_issue(h, i)) \/ purge_project_issues(h)
    PROVE  TreeInv'
  <1>1. UNCHANGED <<epic, milestone, edit, late, raced>> /\ edits' \in 0 .. MaxEdits
    <2>1. edits \in 0 .. MaxEdits /\ edits < MaxEdits /\ edits' = edits + 1
      BY DEF delete_issue, purge_project_issues, TreeInv, TreeTypeOK
    <2>2. edits' \in 0 .. MaxEdits
      BY <2>1, HierarchyAssumption
    <2>3. UNCHANGED <<epic, milestone, edit, late, raced>>
      BY DEF delete_issue, purge_project_issues
    <2> QED
      BY <2>2, <2>3
  <1>2. ASSUME NEW i \in Issues, delete_issue(h, i)
        PROVE  /\ issue' \in [Issues -> IssueRow]
               /\ \A j \in Issues : issue'[j] # issue[j] => issue'[j].mil = issue_milestone_from_epic(issue'[j].epc)
    <2> PICK m : m = issue_milestone_from_epic(issue[i].epc)
      OBVIOUS
    <2>1. m \in Milestones \cup {Nil}
      BY TreeParts DEF issue_milestone_from_epic, LiveEpics, EpicRow
    <2>2. issue' = [issue EXCEPT ![i] = [issue[i] EXCEPT !.st = "deleted", !.mil = m]]
      BY <1>2, TreeParts DEF delete_issue
    <2>3. issue[i] \in IssueRow
      BY TreeParts
    <2>4. /\ [issue[i] EXCEPT !.st = "deleted", !.mil = m] \in IssueRow
          /\ [issue[i] EXCEPT !.st = "deleted", !.mil = m].mil = m
          /\ [issue[i] EXCEPT !.st = "deleted", !.mil = m].epc = issue[i].epc
      BY <2>1, <2>3 DEF IssueRow
    <2>5. PICK fresh \in IssueRow : issue' = [issue EXCEPT ![i] = fresh] /\ fresh.mil = m /\ fresh.epc = issue[i].epc
      BY <2>2, <2>4
    <2> QED
      BY <2>5, TreeParts
  <1>3. ASSUME purge_project_issues(h)
        PROVE  issue' \in [Issues -> IssueRow] /\ \A j \in Issues : issue'[j].st = "none"
    BY <1>3 DEF purge_project_issues, IssueRow
  <1>4. TreeTypeOK'
    BY <1>1, <1>2, <1>3, TreeParts DEF TreeTypeOK, Cues
  <1>5. (MilestoneFollowsEpic \/ "drift" \in raced)'
    <2>1. \A j \in Issues : issue'[j] = issue[j] \/ issue'[j].st = "none"
                            \/ issue'[j].mil = issue_milestone_from_epic(issue'[j].epc)
      BY <1>2, <1>3
    <2> QED
      BY <1>1, <2>1 DEF TreeInv, DriftOK, MilestoneFollowsEpic, issue_milestone_from_epic, LiveEpics
  <1>6. (DeletedMilestoneIsEmpty \/ "orphan" \in raced)'
    BY <1>1 DEF TreeInv, OrphanOK, DeletedMilestoneIsEmpty, LiveEpics
  <1>7. \A g \in Editors : ReadingOK(edit[g], late[g])'
    BY <1>1, ReadingsStay
  <1>8. \A g \in Editors : FillOK(edit[g], late[g])'
    BY <1>1, FillsStay
  <1> QED
    BY <1>4, <1>5, <1>6, <1>7, <1>8, TreeFromParts

\* The cascade of an epic statement takes every issue along.
LEMMA CascadeFollows ==
    ASSUME TreeInv, NEW rows \in [Epics -> EpicRow], EpicStatement(rows)
    PROVE  /\ epic' = rows /\ issue' \in [Issues -> IssueRow]
           /\ MilestoneFollowsEpic => MilestoneFollowsEpic'
  <1>1. epic' = rows /\ issue' = epic_milestone_cascade(rows)
    BY DEF EpicStatement
  <1> DEFINE Touched(i) == issue[i].epc \in Moved(rows)
             New(i) == IF rows[issue[i].epc].st = "live" THEN rows[issue[i].epc].mil ELSE Nil
  <1>2. ASSUME NEW i \in Issues
        PROVE  /\ issue'[i] \in IssueRow /\ issue'[i].st = issue[i].st /\ issue'[i].epc = issue[i].epc
               /\ issue'[i].mil = IF Touched(i) THEN New(i) ELSE issue[i].mil
    <2> PICK r \in IssueRow : r = issue[i]
      BY TreeParts
    <2>1. CASE Touched(i)
      <3> PICK m : m = New(i)
        OBVIOUS
      <3>1. m \in Milestones \cup {Nil}
        BY <2>1 DEF EpicRow, Moved
      <3>2. issue'[i] = [r EXCEPT !.mil = m]
        BY <1>1, <2>1 DEF epic_milestone_cascade
      <3>3. [r EXCEPT !.mil = m] \in IssueRow
        BY <3>1 DEF IssueRow
      <3> QED
        BY <2>1, <3>2, <3>3 DEF IssueRow
    <2>2. CASE ~Touched(i)
      BY <1>1, <2>2 DEF epic_milestone_cascade
    <2> QED
      BY <2>1, <2>2
  <1>3. issue' \in [Issues -> IssueRow]
    <2>1. issue' = [i \in Issues |-> issue'[i]]
      BY <1>1 DEF epic_milestone_cascade
    <2> QED
      BY <1>2, <2>1
  <1>4. ASSUME MilestoneFollowsEpic, NEW i \in Issues, issue'[i].st # "none"
        PROVE  (issue[i].mil = issue_milestone_from_epic(issue[i].epc))'
    <2>1. issue[i].mil = issue_milestone_from_epic(issue[i].epc)
      BY <1>2, <1>4 DEF MilestoneFollowsEpic
    <2>2. CASE Touched(i)
      BY <1>1, <1>2, <2>2 DEF Moved, issue_milestone_from_epic, LiveEpics
    <2>3. CASE ~Touched(i)
      BY <1>1, <1>2, <2>1, <2>3 DEF Moved, issue_milestone_from_epic, LiveEpics
    <2> QED
      BY <2>2, <2>3
  <1> QED
    BY <1>1, <1>3, <1>4 DEF MilestoneFollowsEpic

\* A statement on epics keeps the invariant when the others are told and
\* nothing joins a deleted milestone unnoticed.
LEMMA EpicsWritten ==
    ASSUME TreeInv, NEW h \in Editors, NEW rows \in [Epics -> EpicRow], EpicStatement(rows), UNCHANGED milestone,
           raced \subseteq raced', raced' \subseteq {"cycle", "drift", "orphan"},
           edit' \in [Editors -> Edit], late' \in [Editors -> SUBSET Cues], edits' \in 0 .. MaxEdits,
           \A g \in Editors : g # h => /\ edit'[g] = edit[g] /\ late[g] \subseteq late'[g]
                                       /\ edit[g].at # "idle" => "epics" \in late'[g],
           edit'[h].at # "wrote", FillOK(edit[h], late[h])',
           \A e \in Epics : rows[e].st = "live" =>
               \/ epic[e].st = "live" /\ epic[e].mil = rows[e].mil
               \/ rows[e].mil = Nil \/ milestone[rows[e].mil] # "deleted" \/ "orphan" \in raced'
    PROVE  TreeInv'
  <1>1. /\ epic' = rows /\ issue' \in [Issues -> IssueRow]
        /\ MilestoneFollowsEpic => MilestoneFollowsEpic'
    BY CascadeFollows
  <1>2. TreeTypeOK'
    BY <1>1, TreeParts DEF TreeTypeOK, Cues
  <1>3. (MilestoneFollowsEpic \/ "drift" \in raced)'
    BY <1>1 DEF TreeInv, DriftOK
  <1>4. (DeletedMilestoneIsEmpty \/ "orphan" \in raced)'
    BY <1>1 DEF TreeInv, OrphanOK, DeletedMilestoneIsEmpty, LiveEpics
  <1>5. \A g \in Editors : ReadingOK(edit[g], late[g])'
    <2>1. \A g \in Editors : edit'[g].at = "wrote" =>
               edit'[g] = edit[g] /\ late[g] \subseteq late'[g] /\ "epics" \in late'[g]
      OBVIOUS
    <2> QED
      BY <2>1, ReadingsStay
  <1>6. \A g \in Editors : FillOK(edit[g], late[g])'
    <2>1. \A g \in Editors \ {h} : edit'[g].at # "idle" => edit'[g] = edit[g] /\ edit[g].at # "idle"
                                     /\ late[g] \subseteq late'[g] /\ "epics" \in late'[g]
      OBVIOUS
    <2> QED
      BY <2>1, FillsStay
  <1> QED
    BY <1>2, <1>3, <1>4, <1>5, <1>6, TreeFromParts

LEMMA EpicDeleted ==
    ASSUME TreeInv, NEW h \in Editors, NEW e \in Epics, delete_epic(h, e)
    PROVE  TreeInv'
  <1> PICK rows : rows = [epic EXCEPT ![e].st = "deleted"]
    OBVIOUS
  <1>1. /\ rows \in [Epics -> EpicRow] /\ rows[e].st = "deleted"
        /\ \A f \in Epics : rows[f].st = "live" => epic[f].st = "live" /\ epic[f].mil = rows[f].mil
    BY TreeParts DEF EpicRow
  <1>2. /\ EpicStatement(rows) /\ UNCHANGED <<milestone, edit, raced>> /\ Tell(h, "epics")
        /\ edit[h].at = "idle" /\ edits < MaxEdits /\ edits' = edits + 1
    BY DEF delete_epic
  <1>3. edits' \in 0 .. MaxEdits
    BY <1>2, TreeParts, HierarchyAssumption
  <1>4. /\ late' \in [Editors -> SUBSET Cues]
        /\ \A g \in Editors : g # h => late[g] \subseteq late'[g] /\ (edit[g].at # "idle" => "epics" \in late'[g])
    BY <1>2, Told DEF Cues
  <1>5. edit'[h].at = "idle" /\ FillOK(edit[h], late[h])'
    BY <1>2 DEF FillOK, Fills, Drops
  <1>6. /\ edit' \in [Editors -> Edit] /\ raced' \subseteq {"cycle", "drift", "orphan"} /\ raced \subseteq raced'
        /\ UNCHANGED milestone /\ \A g \in Editors : edit'[g] = edit[g]
    BY <1>2, TreeParts
  <1> QED
    BY <1>1, <1>2, <1>3, <1>4, <1>5, <1>6, EpicsWritten

\* The INSERT or UPDATE of an epic.
LEMMA EpicWritten ==
    ASSUME TreeInv, NEW h \in Editors, WriteEpic(h)
    PROVE  TreeInv'
  <1> PICK r \in Edit : r = edit[h]
    BY TreeParts
  <1> PICK hit \in BOOLEAN : hit = ((r.ver = 0 \/ epic[r.row].st = "live") /\ epic[r.row].ver = r.ver)
    OBVIOUS
  <1>1. /\ r.at = "checked" /\ r.op = "epic" /\ edit' = [edit EXCEPT ![h] = Idle] /\ UNCHANGED <<milestone, edits>>
    BY DEF WriteEpic
  <1>2. raced' = raced \cup (IF hit /\ r.mil # Nil /\ "milestones" \in late[h] THEN {"orphan"} ELSE {})
    BY DEF WriteEpic
  <1>3. CASE ~hit
    BY <1>1, <1>2, <1>3, EditEnds DEF WriteEpic
  <1>4. CASE hit
    <2> PICK fresh : fresh = [st |-> "live", ver |-> r.ver + 1, mil |-> r.mil]
      OBVIOUS
    <2> PICK rows : rows = [epic EXCEPT ![r.row] = fresh]
      OBVIOUS
    <2>1. fresh \in EpicRow /\ fresh.mil = r.mil
      BY DEF EpicRow, Edit
    <2>2. rows \in [Epics -> EpicRow] /\ \A f \in Epics : rows[f] = epic[f] \/ rows[f] = fresh
      BY <2>1, TreeParts
    <2>3. EpicStatement(rows) /\ Tell(h, "epics")
      BY <1>4 DEF WriteEpic
    <2>4. /\ late' \in [Editors -> SUBSET Cues]
          /\ \A g \in Editors : g # h => late[g] \subseteq late'[g] /\ (edit[g].at # "idle" => "epics" \in late'[g])
      BY <2>3, Told DEF Cues
    <2>5. /\ edit' \in [Editors -> Edit] /\ edit'[h] = Idle /\ \A g \in Editors : g # h => edit'[g] = edit[g]
          /\ raced \subseteq raced' /\ raced' \subseteq {"cycle", "drift", "orphan"} /\ edits' \in 0 .. MaxEdits
      BY <1>1, <1>2, TreeParts
    <2>6. edit'[h].at # "wrote" /\ FillOK(edit[h], late[h])'
      BY <2>5 DEF FillOK, Fills, Drops, Idle
    <2>7. r.mil = Nil \/ milestone[r.mil] # "deleted" \/ "orphan" \in raced'
      BY <1>1, <1>2, <1>4 DEF TreeInv, OrphanOK, FillOK, Fills
    <2>8. \A f \in Epics : rows[f].st = "live" =>
               \/ epic[f].st = "live" /\ epic[f].mil = rows[f].mil
               \/ rows[f].mil = Nil \/ milestone[rows[f].mil] # "deleted" \/ "orphan" \in raced'
      BY <2>1, <2>2, <2>7
    <2> QED
      BY <1>1, <2>2, <2>3, <2>4, <2>5, <2>6, <2>8, EpicsWritten
  <1> QED
    BY <1>3, <1>4

LEMMA EpicsPurged ==
    ASSUME TreeInv, NEW h \in Editors, purge_project_epics(h)
    PROVE  TreeInv'
  <1>1. /\ \A g \in Editors : edit[g].at # "wrote"
        /\ epic' = [e \in Epics |-> [st |-> "none", ver |-> 0, mil |-> Nil]]
        /\ issue' = [i \in Issues |-> [issue[i] EXCEPT !.epc = Nil, !.mil = Nil]]
        /\ UNCHANGED <<milestone, edit, late, raced>>
    BY DEF purge_project_epics
  <1>2. edits' \in 0 .. MaxEdits
    <2>1. edits \in 0 .. MaxEdits /\ edits < MaxEdits /\ edits' = edits + 1
      BY TreeParts DEF purge_project_epics
    <2> QED
      BY <2>1, HierarchyAssumption
  <1>3. epic' \in [Epics -> EpicRow] /\ \A e \in Epics : epic'[e].st = "none"
    BY <1>1 DEF EpicRow
  <1>4. ASSUME NEW i \in Issues PROVE issue'[i] \in IssueRow /\ issue'[i].epc = Nil /\ issue'[i].mil = Nil
    BY <1>1, TreeParts DEF IssueRow
  <1>5. TreeTypeOK'
    <2>1. issue' \in [Issues -> IssueRow]
      BY <1>1, <1>4
    <2> QED
      BY <1>1, <1>2, <1>3, <2>1, TreeParts DEF TreeTypeOK, Cues
  <1>6. MilestoneFollowsEpic' /\ DeletedMilestoneIsEmpty'
    BY <1>3, <1>4 DEF MilestoneFollowsEpic, DeletedMilestoneIsEmpty, issue_milestone_from_epic, LiveEpics
  <1>7. \A g \in Editors : ReadingOK(edit[g], late[g])'
    BY <1>1, ReadingsStay
  <1>8. \A g \in Editors : FillOK(edit[g], late[g])'
    BY <1>1, <1>3, FillsStay
  <1> QED
    BY <1>5, <1>6, <1>7, <1>8, TreeFromParts

\* PUT milestones/{id}/epics: detach, then attach.
LEMMA MilestoneFilled ==
    ASSUME TreeInv, NEW h \in Editors, set_milestone_epics(h)
    PROVE  TreeInv'
  <1> PICK r \in Edit : r = edit[h]
    BY TreeParts
  <1> PICK hit : hit = IF r.at = "checked" THEN {e \in LiveEpics : epic[e].mil = r.mil} ELSE r.set \cap LiveEpics
    OBVIOUS
  <1> PICK n : n = IF r.at = "checked" THEN Nil ELSE r.mil
    OBVIOUS
  <1> PICK rows : rows = [e \in Epics |-> IF e \in hit THEN [epic[e] EXCEPT !.mil = n] ELSE epic[e]]
    OBVIOUS
  <1>1. /\ r.at \in {"checked", "attach"} /\ r.op = "fill" /\ EpicStatement(rows) /\ UNCHANGED <<milestone, edits>>
        /\ edit' = [edit EXCEPT ![h] = IF r.at = "checked" /\ r.set # {} THEN [r EXCEPT !.at = "attach"] ELSE Idle]
        /\ late' = [g \in Editors |-> IF g # h /\ edit[g].at # "idle" THEN late[g] \cup {"epics"} ELSE late[g]]
        /\ raced' = raced \cup (IF r.at = "attach" /\ hit # {} /\ "milestones" \in late[h] THEN {"orphan"} ELSE {})
    BY DEF set_milestone_epics
  <1>2. n \in Milestones \cup {Nil} /\ hit \subseteq LiveEpics
    BY DEF Edit
  <1>3. ASSUME NEW e \in Epics
        PROVE  /\ rows[e] \in EpicRow /\ rows[e].mil = (IF e \in hit THEN n ELSE epic[e].mil)
               /\ rows[e].st = epic[e].st
    BY <1>2, TreeParts DEF EpicRow
  <1>4. rows \in [Epics -> EpicRow]
    BY <1>3
  <1>5. PICK after \in Edit : /\ edit' = [edit EXCEPT ![h] = after] /\ after.at # "wrote"
                              /\ after.at = "idle" \/ (after.op = "fill" /\ after.mil = r.mil)
    <2> DEFINE next == [r EXCEPT !.at = "attach"]
               after == IF r.at = "checked" /\ r.set # {} THEN next ELSE Idle
    <2>0. next \in Edit /\ next.at = "attach" /\ next.op = "fill" /\ next.mil = r.mil
      BY <1>1 DEF Edit
    <2>1. after \in Edit /\ after.at # "wrote" /\ (after.at = "idle" \/ (after.op = "fill" /\ after.mil = r.mil))
      <3> HIDE DEF next
      <3> QED
        BY <2>0, TreeParts DEF Idle
    <2>2. edit' = [edit EXCEPT ![h] = after]
      BY <1>1
    <2> HIDE DEF after
    <2> QED
      BY <2>1, <2>2
  <1>6. /\ edit' \in [Editors -> Edit] /\ edit'[h] = after /\ \A g \in Editors : g # h => edit'[g] = edit[g]
        /\ raced \subseteq raced' /\ raced' \subseteq {"cycle", "drift", "orphan"} /\ edits' \in 0 .. MaxEdits
    BY <1>1, <1>5, TreeParts
  <1>7. /\ late' \in [Editors -> SUBSET Cues] /\ late'[h] = late[h]
        /\ \A g \in Editors : g # h => late[g] \subseteq late'[g] /\ (edit[g].at # "idle" => "epics" \in late'[g])
    BY <1>1, TreeParts DEF Cues
  <1>8. r.mil = Nil \/ milestone[r.mil] # "deleted" \/ "milestones" \in late[h] \/ "orphan" \in raced
    BY <1>1 DEF TreeInv, OrphanOK, FillOK, Fills
  <1>9. FillOK(edit[h], late[h])'
    BY <1>1, <1>5, <1>6, <1>7, <1>8 DEF FillOK, Fills, Drops
  <1>10. \A e \in Epics : rows[e].st = "live" =>
             \/ epic[e].st = "live" /\ epic[e].mil = rows[e].mil
             \/ rows[e].mil = Nil \/ milestone[rows[e].mil] # "deleted" \/ "orphan" \in raced'
    BY <1>1, <1>3, <1>8
  <1>11. /\ TreeInv /\ h \in Editors /\ UNCHANGED milestone /\ edit'[h].at # "wrote"
         /\ \A g \in Editors : g # h => /\ edit'[g] = edit[g] /\ late[g] \subseteq late'[g]
                                        /\ edit[g].at # "idle" => "epics" \in late'[g]
    BY <1>1, <1>5, <1>6, <1>7
  <1> QED
    BY ONLY <1>1, <1>4, <1>6, <1>7, <1>9, <1>10, <1>11, EpicsWritten

\* Completing, reopening and deleting a milestone.
LEMMA MilestoneWritten ==
    ASSUME TreeInv, NEW h \in Editors,
           (\E m \in Milestones, s \in {"open", "closed"} : set_completed(h, m, s)) \/ soft_delete_milestone(h)
    PROVE  TreeInv'
  <1> DEFINE Gone(m) == milestone'[m] = "deleted" /\ milestone[m] # "deleted"
  <1>1. UNCHANGED <<issue, epic>> /\ Tell(h, "milestones")
    BY DEF set_completed, soft_delete_milestone
  <1>2. /\ late' \in [Editors -> SUBSET Cues]
        /\ \A g \in Editors : g # h => late[g] \subseteq late'[g] /\ (edit[g].at # "idle" => "milestones" \in late'[g])
    BY <1>1, Told DEF Cues
  <1>3. /\ milestone' \in [Milestones -> {"none", "open", "closed", "deleted"}]
        /\ edit' \in [Editors -> Edit] /\ edit'[h].at = "idle" /\ \A g \in Editors : g # h => edit'[g] = edit[g]
        /\ raced \subseteq raced' /\ raced' \subseteq {"cycle", "drift", "orphan"} /\ edits' \in 0 .. MaxEdits
        /\ \A m \in Milestones : Gone(m) => (\A e \in LiveEpics : epic[e].mil # m) \/ "orphan" \in raced'
    <2>1. ASSUME NEW m \in Milestones, NEW s \in {"open", "closed"}, set_completed(h, m, s) PROVE <1>3!:
      <3>1. edits \in 0 .. MaxEdits /\ edits < MaxEdits /\ edits' = edits + 1 /\ UNCHANGED <<edit, raced>>
            /\ edit[h].at = "idle" /\ milestone' = [milestone EXCEPT ![m] = s]
        BY <2>1, TreeParts DEF set_completed
      <3>2. edits' \in 0 .. MaxEdits
        BY <3>1, HierarchyAssumption
      <3> QED
        BY <3>1, <3>2, TreeParts
    <2>2. CASE soft_delete_milestone(h)
      <3> PICK r \in Edit : r = edit[h]
        BY TreeParts
      <3>1. /\ r.at = "checked" /\ r.op = "delete" /\ edit' = [edit EXCEPT ![h] = Idle] /\ UNCHANGED edits
            /\ milestone' = [milestone EXCEPT ![r.row] = IF r.row \in LiveMilestones THEN "deleted" ELSE @]
            /\ raced' = raced \cup (IF "epics" \in late[h] THEN {"orphan"} ELSE {})
        BY <2>2 DEF soft_delete_milestone
      <3>2. (\A e \in LiveEpics : epic[e].mil # r.row) \/ "orphan" \in raced'
        BY <3>1 DEF TreeInv, OrphanOK, FillOK, Drops
      <3>3. /\ milestone' \in [Milestones -> {"none", "open", "closed", "deleted"}]
            /\ \A m \in Milestones : Gone(m) => m = r.row
        BY <3>1, TreeParts
      <3>4. /\ edit' \in [Editors -> Edit] /\ edit'[h].at = "idle" /\ \A g \in Editors : g # h => edit'[g] = edit[g]
            /\ raced \subseteq raced' /\ raced' \subseteq {"cycle", "drift", "orphan"} /\ edits' \in 0 .. MaxEdits
        BY <3>1, TreeParts DEF Idle
      <3> QED
        BY <3>2, <3>3, <3>4
    <2> QED
      BY <2>1, <2>2
  <1>4. TreeTypeOK'
    BY <1>1, <1>2, <1>3, TreeParts DEF TreeTypeOK, Cues
  <1>5. (MilestoneFollowsEpic \/ "drift" \in raced)'
    BY <1>1, <1>3 DEF TreeInv, DriftOK, MilestoneFollowsEpic, issue_milestone_from_epic, LiveEpics
  <1>6. (DeletedMilestoneIsEmpty \/ "orphan" \in raced)'
    <2>1. \A e \in LiveEpics : epic[e].mil \in Milestones \cup {Nil}
      BY TreeParts DEF LiveEpics, EpicRow
    <2> QED
      BY <1>1, <1>3, <2>1 DEF TreeInv, OrphanOK, DeletedMilestoneIsEmpty, LiveEpics
  <1>7. \A g \in Editors : ReadingOK(edit[g], late[g])'
    BY <1>1, <1>2, <1>3, ReadingsStay
  <1>8. \A g \in Editors : FillOK(edit[g], late[g])'
    BY <1>1, <1>2, <1>3, FillsStay
  <1> QED
    BY <1>4, <1>5, <1>6, <1>7, <1>8, TreeFromParts

-----------------------------------------------------------------------------
(* The theorems.                                                           *)

LEMMA TreeInvStep == TreeInv /\ [TreeNext]_treeVars => TreeInv'
  <1> SUFFICES ASSUME TreeInv, [TreeNext]_treeVars PROVE TreeInv'
    OBVIOUS
  <1>1. CASE UNCHANGED treeVars
    BY <1>1 DEF treeVars, TreeInv, TreeTypeOK, DriftOK, OrphanOK, MilestoneFollowsEpic, DeletedMilestoneIsEmpty,
                ReadingOK, FillOK, Fills, Drops, issue_milestone_from_epic, LiveEpics
  <1>2. CASE TreeNext
    <2> PICK h \in Editors : TreeNext!(h)
      BY <1>2 DEF TreeNext
    <2>1. ASSUME GiveUp(h) PROVE TreeInv'
      BY <2>1, EditEnds DEF GiveUp
    <2> QED
      BY <2>1, IssueHandlers, PatchChecked, StatementRuns, IssueCommits, IssuesRemoved, EpicHandlers, EpicDeleted,
         EpicWritten, EpicsPurged, MilestoneHandlers, MilestoneFilled, MilestoneWritten
  <1> QED
    BY <1>1, <1>2

LEMMA TreeInvariant == TreeSpec => []TreeInv
  BY TreeInvInit, TreeInvStep, PTL DEF TreeSpec

\* Rows, handlers and histories have their types in every reachable state.
THEOREM TreeTypeCorrect == TreeSpec => []TreeTypeOK
  BY TreeInvariant, PTL DEF TreeInv

\* The milestone of an issue is its live epic's, and a deleted milestone has
\* no live epic, unless two requests overlapped in the one way the triggers
\* and checks do not cover: for any number of rows, handlers and requests.
THEOREM DriftsNeedOverlap == TreeSpec => []DriftNeedsOverlap
  <1>1. TreeInv => DriftNeedsOverlap
    BY DEF TreeInv, DriftOK, OrphanOK, DriftNeedsOverlap
  <1> QED
    BY <1>1, TreeInvariant, PTL

-----------------------------------------------------------------------------
(* Hierarchy: walks and loops.                                             *)

Live(R) == {i \in Issues : R[i].st = "live"}

\* One level of the climb: the parent of the level below, if that is live.
Level(R, q) == IF q \in Live(R) THEN q ELSE Nil
ParentOf(R, q) == IF q = Nil THEN Nil ELSE R[q].par

\* The climb over any table of issues.
Walk(R, p, n) ==
    LET up[k \in 1 .. n] ==
            LET q == IF k = 1 THEN p ELSE IF up[k - 1] = Nil THEN Nil ELSE R[up[k - 1]].par
            IN  IF q \in Live(R) THEN q ELSE Nil
    IN  up

LEMMA ClimbIs == \A p, n : Climb(p, n) = Walk(issue, p, n) /\ Climb(p, n)' = Walk(issue', p, n)
  BY DEF Climb, Walk, LiveIssues, Live

\* The climb obeys its recursion: a function that does exists for any
\* number of levels.
LEMMA WalkIs ==
    ASSUME NEW R, NEW p, NEW n \in Nat
    PROVE  Walk(R, p, n) = [k \in 1 .. n |->
               Level(R, IF k = 1 THEN p ELSE ParentOf(R, Walk(R, p, n)[k - 1]))]
  <1> DEFINE Body(f, k) == Level(R, IF k = 1 THEN p ELSE ParentOf(R, f[k - 1]))
             Ok(m) == \E f : f = [k \in 1 .. m |-> Body(f, k)]
             Bad == {m \in Nat : ~Ok(m)}
  <1>1. Ok(0)
    <2>1. PICK f : f = [k \in 1 .. 0 |-> p]
      OBVIOUS
    <2>2. f = [k \in 1 .. 0 |-> Body(f, k)]
      BY <2>1
    <2> QED
      BY <2>2
  <1>2. ASSUME NEW m \in Nat, Ok(m) PROVE Ok(m + 1)
    <2>1. PICK f : f = [k \in 1 .. m |-> Body(f, k)]
      BY <1>2
    <2>2. PICK b : b = Body(f, m + 1)
      OBVIOUS
    <2>3. PICK g : g = [k \in 1 .. m + 1 |-> IF k = m + 1 THEN b ELSE f[k]]
      OBVIOUS
    <2>4. \A k \in 1 .. m : g[k] = f[k]
      BY <2>3
    <2>5. ASSUME NEW k \in 1 .. m + 1 PROVE g[k] = Body(g, k)
      <3>1. Body(g, k) = Body(f, k)
        <4>1. k = 1 \/ g[k - 1] = f[k - 1]
          BY <2>4
        <4> QED
          BY <4>1
      <3>2. CASE k = m + 1
        BY <2>2, <2>3, <3>1, <3>2
      <3>3. CASE k \in 1 .. m
        BY <2>1, <2>4, <3>1, <3>3
      <3> QED
        BY <3>2, <3>3
    <2>6. g = [k \in 1 .. m + 1 |-> Body(g, k)]
      BY <2>3, <2>5
    <2> QED
      BY <2>6
  <1>3. Ok(n)
    <2> SUFFICES ASSUME Bad # {} PROVE FALSE
      OBVIOUS
    <2> HIDE DEF Ok
    <2>1. PICK m \in Bad : \A j \in Bad : m <= j
      BY NatMin
    <2>2. m \in Nat \ {0} /\ ~Ok(m)
      BY <1>1, <2>1
    <2>3. m - 1 \in Nat /\ m - 1 \notin Bad /\ (m - 1) + 1 = m
      BY <2>1, <2>2
    <2>4. Ok(m - 1)
      BY <2>3
    <2> QED
      BY <1>2, <2>2, <2>3, <2>4
  <1>4. PICK f : f = [k \in 1 .. n |-> Body(f, k)]
    BY <1>3
  <1>5. Walk(R, p, n) = CHOOSE up : up = [k \in 1 .. n |-> Body(up, k)]
    BY DEF Walk, Level, ParentOf
  <1> QED
    BY <1>4, <1>5
\* A chain of live issues, each under the next.
Ascends(R, s, n) ==
    /\ s \in [1 .. n -> Live(R)]
    /\ \A k \in 1 .. n - 1 : s[k + 1] = R[s[k]].par

\* From p up to i in fewer than Depth steps; back to where it began in at
\* most Depth.
Reaches(R, p, i) == \E k \in 1 .. Depth : \E s : Ascends(R, s, k) /\ s[1] = p /\ s[k] = i
Loops(R, n) == \E s : Ascends(R, s, n + 1) /\ s[n + 1] = s[1]
LoopFree(R) == \A n \in 1 .. Depth : ~Loops(R, n)

\* An issue the climb arrives at is the end of a chain.
LEMMA WalkAscends ==
    ASSUME NEW R, NEW p, NEW n \in Nat \ {0}, Walk(R, p, n)[n] \in Issues
    PROVE  Ascends(R, Walk(R, p, n), n) /\ Walk(R, p, n)[1] = p
  <1> PICK w : w = Walk(R, p, n)
    OBVIOUS
  <1>1. /\ w = [k \in 1 .. n |-> Level(R, IF k = 1 THEN p ELSE ParentOf(R, w[k - 1]))]
        /\ w[n] \in Issues
    BY WalkIs
  <1>2. Nil \notin Live(R)
    BY HierarchyAssumption DEF Live
  <1>3. \A k \in 1 .. n : w[k] \in Live(R) \cup {Nil}
    BY <1>1 DEF Level
  <1>4. \A k \in 1 .. n - 1 : w[k] = Nil => w[k + 1] = Nil
    <2> TAKE k \in 1 .. n - 1
    <2>1. k + 1 \in 1 .. n /\ (k + 1) - 1 = k /\ k + 1 # 1
      OBVIOUS
    <2>2. w[k + 1] = Level(R, ParentOf(R, w[k]))
      BY <1>1, <2>1
    <2> QED
      BY <1>2, <2>2 DEF Level, ParentOf
  <1>5. \A k \in 1 .. n : w[k] \in Live(R)
    <2> DEFINE Bad == {d \in 0 .. n - 1 : w[n - d] = Nil}
    <2> SUFFICES ASSUME NEW k \in 1 .. n, w[k] = Nil PROVE FALSE
      BY <1>3
    <2>0. n - k \in 0 .. n - 1 /\ n - (n - k) = k
      OBVIOUS
    <2>8. Bad \subseteq Nat /\ n - k \in Bad
      BY <2>0
    <2>1. PICK d \in Bad : \A e \in Bad : d <= e
      <3> HIDE DEF Bad
      <3> QED
        BY <2>8, NatMin
    <2>2. w[n] # Nil
      BY <1>1, HierarchyAssumption
    <2>3. d # 0
      BY <2>1, <2>2
    <2>4. d - 1 \in 0 .. n - 1 /\ n - d \in 1 .. n - 1 /\ (n - d) + 1 = n - (d - 1)
      BY <2>1, <2>3
    <2>5. w[n - (d - 1)] = Nil
      BY <1>4, <2>1, <2>4
    <2>6. d - 1 \in Bad
      BY <2>4, <2>5
    <2>7. d <= d - 1 /\ d \in Nat
      BY <2>1, <2>6
    <2> QED
      BY <2>7
  <1>6. w \in [1 .. n -> Live(R)]
    BY <1>1, <1>5
  <1>7. \A k \in 1 .. n - 1 : w[k + 1] = R[w[k]].par
    <2> TAKE k \in 1 .. n - 1
    <2>1. k + 1 \in 1 .. n /\ (k + 1) - 1 = k /\ k + 1 # 1 /\ k \in 1 .. n
      OBVIOUS
    <2>2. w[k + 1] = Level(R, ParentOf(R, w[k]))
      BY <1>1, <2>1
    <2>3. w[k] # Nil /\ w[k + 1] # Nil
      BY <1>2, <1>5, <2>1
    <2> QED
      BY <2>2, <2>3 DEF Level, ParentOf
  <1>8. w[1] = p
    <2>1. w[1] = Level(R, p) /\ w[1] # Nil
      BY <1>1, <1>2, <1>5
    <2> QED
      BY <2>1 DEF Level
  <1> QED
    BY <1>6, <1>7, <1>8 DEF Ascends

\* The climb follows every chain that begins where it does.
LEMMA WalkFollows ==
    ASSUME NEW R, NEW p, NEW n \in Nat, NEW j \in 1 .. n, NEW s, Ascends(R, s, j), s[1] = p
    PROVE  Walk(R, p, n)[j] = s[j]
  <1> PICK w : w = Walk(R, p, n)
    OBVIOUS
  <1>1. w = [k \in 1 .. n |-> Level(R, IF k = 1 THEN p ELSE ParentOf(R, w[k - 1]))]
    BY WalkIs
  <1>2. Nil \notin Live(R)
    BY HierarchyAssumption DEF Live
  <1>3. \A k \in 1 .. j : s[k] \in Live(R)
    BY DEF Ascends
  <1> DEFINE Bad == {k \in 1 .. j : w[k] # s[k]}
  <1> SUFFICES ASSUME Bad # {} PROVE FALSE
    OBVIOUS
  <1>9. Bad \subseteq Nat
    OBVIOUS
  <1>4. PICK k \in Bad : \A m \in Bad : k <= m
    <2> HIDE DEF Bad
    <2> QED
      BY <1>9, NatMin
  <1>5. k \in 1 .. n /\ k \in 1 .. j /\ w[k] # s[k]
    BY <1>4
  <1>6. CASE k = 1
    <2>1. w[1] = Level(R, p)
      BY <1>1, <1>5, <1>6
    <2> QED
      BY <1>3, <1>5, <1>6, <2>1 DEF Level
  <1>7. CASE k # 1
    <2>1. k - 1 \in 1 .. j /\ k - 1 \in 1 .. j - 1 /\ (k - 1) + 1 = k /\ ~(k <= k - 1)
      BY <1>5, <1>7
    <2>2. w[k - 1] = s[k - 1]
      BY <1>4, <2>1
    <2>3. w[k] = Level(R, ParentOf(R, s[k - 1]))
      BY <1>1, <1>5, <1>7, <2>2
    <2>4. s[k - 1] # Nil /\ s[k] \in Live(R)
      BY <1>2, <1>3, <1>5, <2>1
    <2>5. s[k] = R[s[k - 1]].par
      BY <2>1 DEF Ascends
    <2> QED
      BY <1>5, <2>3, <2>4, <2>5 DEF Level, ParentOf
  <1> QED
    BY <1>6, <1>7
\* What validate and check ask of the climb, over chains.
LEMMA ContainsReaches ==
    ASSUME NEW p, NEW i, i # Nil, ~parent_chain_contains(p, i)
    PROVE  ~Reaches(issue, p, i)
  <1> SUFFICES ASSUME NEW k \in 1 .. Depth, NEW s, Ascends(issue, s, k), s[1] = p, s[k] = i
               PROVE  FALSE
    BY DEF Reaches
  <1>1. Depth \in Nat
    BY HierarchyAssumption
  <1>2. Walk(issue, p, Depth)[k] = i
    BY <1>1, WalkFollows
  <1> QED
    BY <1>2, ClimbIs DEF parent_chain_contains

LEMMA LoopFreeIsEnough ==
    ASSUME NEW R, NEW i, NEW n \in 1 .. Depth, i \in Live(R), Walk(R, i, n + 1)[n + 1] = i
    PROVE  ~LoopFree(R)
  <1>1. n + 1 \in Nat \ {0} /\ i \in Issues
    BY HierarchyAssumption DEF Live
  <1>2. Ascends(R, Walk(R, i, n + 1), n + 1) /\ Walk(R, i, n + 1)[1] = i
    BY <1>1, WalkAscends
  <1> QED
    BY <1>2 DEF LoopFree, Loops

\* A table with fewer edges has fewer chains.
LEMMA FewerChains ==
    ASSUME NEW R, NEW Q, NEW n \in Nat, NEW s, Ascends(Q, s, n),
           \A i \in Live(Q) : i \in Live(R) /\ (Q[i].par = R[i].par \/ Q[i].par \notin Live(Q))
    PROVE  Ascends(R, s, n)
  <1>1. \A k \in 1 .. n : s[k] \in Live(Q) /\ s[k] \in Live(R)
    BY DEF Ascends
  <1>2. s \in [1 .. n -> Live(R)]
    BY <1>1 DEF Ascends
  <1>3. \A k \in 1 .. n - 1 : s[k + 1] = R[s[k]].par
    <2> TAKE k \in 1 .. n - 1
    <2>1. k \in 1 .. n /\ k + 1 \in 1 .. n
      OBVIOUS
    <2>2. s[k + 1] = Q[s[k]].par /\ s[k + 1] \in Live(Q)
      BY <1>1, <2>1 DEF Ascends
    <2> QED
      BY <1>1, <2>1, <2>2
  <1> QED
    BY <1>2, <1>3 DEF Ascends

LEMMA FewerReach ==
    ASSUME NEW R, NEW Q, NEW p, NEW i, Reaches(Q, p, i),
           \A j \in Live(Q) : j \in Live(R) /\ (Q[j].par = R[j].par \/ Q[j].par \notin Live(Q))
    PROVE  Reaches(R, p, i)
  <1>0. PICK k \in 1 .. Depth : \E s : Ascends(Q, s, k) /\ s[1] = p /\ s[k] = i
    BY DEF Reaches
  <1>1. PICK s : Ascends(Q, s, k) /\ s[1] = p /\ s[k] = i
    BY <1>0
  <1>2. k \in Nat
    OBVIOUS
  <1>3. Ascends(R, s, k)
    BY <1>1, <1>2, FewerChains
  <1> QED
    BY <1>1, <1>3 DEF Reaches

LEMMA FewerLoops ==
    ASSUME NEW R, NEW Q, LoopFree(R),
           \A j \in Live(Q) : j \in Live(R) /\ (Q[j].par = R[j].par \/ Q[j].par \notin Live(Q))
    PROVE  LoopFree(Q)
  <1> SUFFICES ASSUME NEW n \in 1 .. Depth, NEW s, Ascends(Q, s, n + 1), s[n + 1] = s[1]
               PROVE  FALSE
    BY DEF LoopFree, Loops
  <1>1. n + 1 \in Nat
    OBVIOUS
  <1>2. Ascends(R, s, n + 1)
    BY <1>1, FewerChains
  <1> QED
    BY <1>2 DEF LoopFree, Loops

\* A new issue that is nobody's parent closes no loop.
LEMMA NewLeaf ==
    ASSUME NEW R, NEW Q, NEW x, LoopFree(R), Live(Q) \subseteq Live(R) \cup {x},
           \A j \in Live(Q) : Q[j].par # x,
           \A j \in Live(Q) \ {x} : Q[j].par = R[j].par
    PROVE  LoopFree(Q)
  <1> SUFFICES ASSUME NEW n \in 1 .. Depth, NEW s, Ascends(Q, s, n + 1), s[n + 1] = s[1]
               PROVE  FALSE
    BY DEF LoopFree, Loops
  <1>1. \A k \in 1 .. n + 1 : s[k] \in Live(Q)
    BY DEF Ascends
  <1>2. \A k \in 1 .. n : s[k + 1] = Q[s[k]].par
    BY DEF Ascends
  <1>3. \A k \in 1 .. n + 1 : s[k] # x
    <2> TAKE k \in 1 .. n + 1
    <2>1. CASE k = 1
      <3>1. s[n + 1] # x
        BY <1>1, <1>2
      <3> QED
        BY <2>1, <3>1
    <2>2. CASE k # 1
      <3>1. k - 1 \in 1 .. n /\ k - 1 \in 1 .. n + 1 /\ (k - 1) + 1 = k
        BY <2>2
      <3> QED
        BY <1>1, <1>2, <3>1
    <2> QED
      BY <2>1, <2>2
  <1>4. \A k \in 1 .. n + 1 : s[k] \in Live(R)
    BY <1>1, <1>3
  <1>5. \A k \in 1 .. n : s[k + 1] = R[s[k]].par
    <2> TAKE k \in 1 .. n
    <2>1. s[k] \in Live(Q) \ {x}
      BY <1>1, <1>3
    <2> QED
      BY <1>2, <2>1
  <1>6. Ascends(R, s, n + 1)
    BY <1>4, <1>5 DEF Ascends
  <1> QED
    BY <1>6 DEF LoopFree, Loops
\* A parent whose climb does not meet the issue closes no loop: the loop,
\* begun at that parent, would arrive at the issue, first over old edges.
LEMMA NewEdge ==
    ASSUME NEW R, NEW Q, NEW x, NEW p, LoopFree(R), ~Reaches(R, p, x), Live(Q) \subseteq Live(R),
           \A j \in Live(Q) \ {x} : Q[j].par = R[j].par, x \in Live(Q) => Q[x].par = p
    PROVE  LoopFree(Q)
  <1> SUFFICES ASSUME NEW n \in 1 .. Depth, NEW s, Ascends(Q, s, n + 1), s[n + 1] = s[1]
               PROVE  FALSE
    BY DEF LoopFree, Loops
  <1>1. n \in Nat /\ n >= 1 /\ Depth \in Nat /\ n <= Depth
    BY HierarchyAssumption
  <1>2. \A k \in 1 .. n + 1 : s[k] \in Live(Q) /\ s[k] \in Live(R)
    BY DEF Ascends
  <1>3. \A k \in 1 .. n : s[k + 1] = Q[s[k]].par
    BY <1>1 DEF Ascends
  <1>4. CASE \A k \in 1 .. n : s[k] # x
    <2>1. \A k \in 1 .. n : s[k + 1] = R[s[k]].par
      <3> TAKE k \in 1 .. n
      <3>1. s[k] \in Live(Q) \ {x}
        BY <1>2, <1>4
      <3> QED
        BY <1>3, <3>1
    <2>2. Ascends(R, s, n + 1)
      <3>1. s \in [1 .. n + 1 -> Live(R)]
        BY <1>2 DEF Ascends
      <3> QED
        BY <1>1, <2>1, <3>1 DEF Ascends
    <2> QED
      BY <2>2 DEF LoopFree, Loops
  <1>5. ASSUME NEW j \in 1 .. n, s[j] = x PROVE FALSE
    <2> PICK t : t = [k \in 1 .. n |-> IF j + k <= n + 1 THEN s[j + k] ELSE s[j + k - n]]
      OBVIOUS
    <2>1. \A k \in 1 .. n : t[k] \in Live(Q) /\ t[k] \in Live(R)
      <3> TAKE k \in 1 .. n
      <3>1. CASE j + k <= n + 1
        <4>1. t[k] = s[j + k] /\ j + k \in 1 .. n + 1
          BY <1>1, <3>1
        <4> QED
          BY <1>2, <4>1
      <3>2. CASE ~(j + k <= n + 1)
        <4>1. t[k] = s[j + k - n] /\ j + k - n \in 1 .. n + 1
          BY <1>1, <3>2
        <4> QED
          BY <1>2, <4>1
      <3> QED
        BY <3>1, <3>2
    <2>2. \A k \in 1 .. n - 1 : t[k + 1] = Q[t[k]].par
      <3> TAKE k \in 1 .. n - 1
      <3>0. k \in 1 .. n /\ k + 1 \in 1 .. n
        BY <1>1
      <3>1. CASE j + k <= n
        <4>1. t[k] = s[j + k] /\ t[k + 1] = s[(j + k) + 1] /\ j + k \in 1 .. n
          BY <1>1, <3>0, <3>1
        <4> QED
          BY <1>3, <4>1
      <3>2. CASE j + k = n + 1
        <4>1. t[k] = s[n + 1] /\ t[k + 1] = s[2] /\ 1 \in 1 .. n
          BY <1>1, <3>0, <3>2
        <4>2. s[1 + 1] = Q[s[1]].par
          BY <1>3, <4>1
        <4> QED
          BY <4>1, <4>2
      <3>3. CASE j + k > n + 1
        <4>1. t[k] = s[j + k - n] /\ t[k + 1] = s[(j + k - n) + 1] /\ j + k - n \in 1 .. n
          BY <1>1, <3>0, <3>3
        <4> QED
          BY <1>3, <4>1
      <3>4. j + k <= n \/ j + k = n + 1 \/ j + k > n + 1
        BY <1>1, <3>0
      <3> QED
        BY ONLY <3>1, <3>2, <3>3, <3>4
    <2>3. t[1] = p
      <3>1. t[1] = s[j + 1] /\ j + 1 \in 1 .. n + 1
        BY <1>1
      <3>2. s[j + 1] = Q[x].par /\ x \in Live(Q)
        BY <1>2, <1>3, <1>5
      <3> QED
        BY <3>1, <3>2
    <2>4. n \in 1 .. n /\ t[n] = x
      <3>1. CASE j = 1
        BY <1>1, <1>5, <3>1
      <3>2. CASE j # 1
        <4>1. ~(j + n <= n + 1) /\ j + n - n = j
          BY <1>1, <3>2
        <4> QED
          BY <1>1, <1>5, <4>1
      <3> QED
        BY <3>1, <3>2
    <2> DEFINE Met == {k \in 1 .. n : t[k] = x}
    <2>5. Met \subseteq Nat /\ Met # {}
      <3>1. n \in Met
        BY <2>4
      <3>2. Met \subseteq Nat
        BY <1>1
      <3> HIDE DEF Met
      <3> QED
        BY <3>1, <3>2
    <2>6. PICK k \in Met : \A m \in Met : k <= m
      <3> HIDE DEF Met
      <3> QED
        BY <2>5, NatMin
    <2>7. k \in 1 .. n /\ t[k] = x /\ \A m \in 1 .. k - 1 : t[m] # x
      <3>1. \A m \in 1 .. k - 1 : m \in 1 .. n /\ ~(k <= m)
        BY <1>1
      <3> QED
        BY <2>6, <3>1
    <2> PICK u : u = [m \in 1 .. k |-> t[m]]
      OBVIOUS
    <2>8. u \in [1 .. k -> Live(R)]
      <3>1. \A m \in 1 .. k : m \in 1 .. n
        BY <1>1, <2>7
      <3> QED
        BY <2>1, <3>1
    <2>9. \A m \in 1 .. k - 1 : u[m + 1] = R[u[m]].par
      <3> TAKE m \in 1 .. k - 1
      <3>1. m \in 1 .. n - 1 /\ m \in 1 .. k /\ m + 1 \in 1 .. k /\ m \in 1 .. n
        BY <1>1, <2>7
      <3>2. t[m] \in Live(Q) \ {x}
        BY <2>1, <2>7, <3>1
      <3> QED
        BY <2>2, <3>1, <3>2
    <2>10. u[1] = p /\ u[k] = x /\ k \in 1 .. Depth
      BY <1>1, <2>3, <2>7
    <2>11. Ascends(R, u, k)
      BY <2>8, <2>9 DEF Ascends
    <2> QED
      BY <2>10, <2>11 DEF Reaches
  <1> QED
    BY <1>4, <1>5
-----------------------------------------------------------------------------
(* Hierarchy: what the invariant says of loops.                            *)

IssueOps == {"create", "update", "link"}

\* A parent is a row that was not purged.
Rooted(R) == \A i \in Issues : R[i].par # Nil => R[R[i].par].st # "none"

\* What a handler holds of the rows R, of what it was told, l, and of whether
\* the cause is recorded, c: it creates a row that is not there; the row of
\* an update has the version and the parent it read, or its climb still stands.
WriterOK(R, r, l, c) ==
    /\ r.at = "idle" => r.op = "none"
    /\ r.op \in IssueOps => r.row \in Issues
    /\ r.at = "wrote" => r.op \in IssueOps /\ (r.par # Nil => R[r.par].st # "none")
    /\ r.op = "create" => R[r.row].st = "none" /\ r.par # r.row
    /\ r.op = "update" /\ r.at = "wrote" => R[r.row].st = "live" /\ R[r.row].ver = r.ver
    /\ r.op = "update" /\ R[r.row].st # "none" => r.ver <= R[r.row].ver
    /\ r.op = "update" /\ R[r.row].st # "none" /\ R[r.row].ver = r.ver =>
         \/ c \/ R[r.row].par = r.par
         \/ r.at # "read" /\ (r.par = Nil \/ l \cap {"parents", "walk"} # {} \/ ~Reaches(R, r.par, r.row))

\* A row is created by one handler that has it alone, and locked by one.
Clash(r, q) == \/ r.op = "create" /\ q.op \in IssueOps
               \/ q.op = "create" /\ r.op \in IssueOps
               \/ r.at = "wrote" /\ q.at = "wrote"

LoopInv ==
    /\ Rooted(issue) /\ (LoopFree(issue) \/ "cycle" \in raced)
    /\ \A h \in Editors : WriterOK(issue, edit[h], late[h], "cycle" \in raced)
    /\ \A g, h \in Editors : g # h /\ Clash(edit[g], edit[h]) => edit[g].row # edit[h].row

LEMMA TreeTyped ==
    ASSUME TreeTypeOK
    PROVE  /\ issue \in [Issues -> IssueRow] /\ epic \in [Epics -> EpicRow]
           /\ \A i \in Issues : issue[i].par \in Issues \cup {Nil} /\ issue[i].ver \in Nat
           /\ edit \in [Editors -> Edit] /\ late \in [Editors -> SUBSET {"parents", "epics", "milestones", "walk"}]
           /\ Idle \in Edit /\ Idle.op = "none" /\ Idle.at = "idle"
           /\ Nil \notin Issues \cup Epics \cup Milestones
  BY HierarchyAssumption DEF TreeTypeOK, IssueRow, Idle, Edit

\* A table with the same states, versions and parents is as good.
LEMMA SameTable ==
    ASSUME NEW R, NEW Q, \A i \in Issues : Q[i].st = R[i].st /\ Q[i].ver = R[i].ver /\ Q[i].par = R[i].par,
           \A i \in Issues : R[i].par \in Issues \cup {Nil}
    PROVE  /\ Rooted(R) => Rooted(Q)
           /\ LoopFree(R) => LoopFree(Q)
           /\ \A r, l, c : r \in Edit /\ WriterOK(R, r, l, c) => WriterOK(Q, r, l, c)
  <1>1. Live(Q) = Live(R) /\ \A i \in Live(Q) : i \in Issues
    BY DEF Live
  <1>2. \A j \in Live(Q) : j \in Live(R) /\ (Q[j].par = R[j].par \/ Q[j].par \notin Live(Q))
    BY <1>1
  <1>3. LoopFree(R) => LoopFree(Q)
    BY <1>2, FewerLoops
  <1>4. \A p, i : Reaches(Q, p, i) => Reaches(R, p, i)
    BY <1>2, FewerReach
  <1>5. Rooted(R) => Rooted(Q)
    BY DEF Rooted
  <1>6. ASSUME NEW r \in Edit, NEW l, NEW c, WriterOK(R, r, l, c) PROVE WriterOK(Q, r, l, c)
    <2>1. r.par \in Issues \cup {Nil}
      BY DEF Edit
    <2> QED
      BY <1>4, <1>6, <2>1 DEF WriterOK, IssueOps
  <1> QED
    BY <1>3, <1>5, <1>6

\* Nor does a handler lose what it holds by being told of a change.
LEMMA WriterTold ==
    ASSUME NEW R, NEW r, NEW l, NEW m, NEW c, NEW d, WriterOK(R, r, l, c), l \subseteq m, c => d
    PROVE  WriterOK(R, r, m, d)
  BY DEF WriterOK

\* A step that leaves states, versions and parents alone: the handler that
\* takes it must come out of it right.
LEMMA LoopsStay ==
    ASSUME TreeTypeOK, TreeTypeOK', LoopInv, NEW h \in Editors,
           \A i \in Issues : issue'[i].st = issue[i].st /\ issue'[i].ver = issue[i].ver /\ issue'[i].par = issue[i].par,
           raced \subseteq raced',
           \A g \in Editors \ {h} : edit'[g] = edit[g] /\ late[g] \subseteq late'[g],
           WriterOK(issue, edit'[h], late'[h], "cycle" \in raced'),
           \A g \in Editors \ {h} : Clash(edit[g], edit'[h]) => edit[g].row # edit'[h].row
    PROVE  LoopInv'
  <1>1. \A i \in Issues : issue[i].par \in Issues \cup {Nil}
    BY TreeTyped
  <1>2. edit' \in [Editors -> Edit]
    BY DEF TreeTypeOK
  <1>3. /\ Rooted(issue) => Rooted(issue')
        /\ LoopFree(issue) => LoopFree(issue')
        /\ \A r, l, c : r \in Edit /\ WriterOK(issue, r, l, c) => WriterOK(issue', r, l, c)
    BY <1>1, SameTable
  <1>4. Rooted(issue') /\ (LoopFree(issue') \/ "cycle" \in raced')
    BY <1>3 DEF LoopInv
  <1>5. ASSUME NEW g \in Editors PROVE WriterOK(issue', edit'[g], late'[g], "cycle" \in raced')
    <2>1. WriterOK(issue, edit'[g], late'[g], "cycle" \in raced')
      <3>1. CASE g = h
        BY <3>1
      <3>2. CASE g # h
        <4>1. WriterOK(issue, edit[g], late[g], "cycle" \in raced)
          BY DEF LoopInv
        <4>2. late[g] \subseteq late'[g] /\ edit'[g] = edit[g] /\ ("cycle" \in raced => "cycle" \in raced')
          BY <3>2
        <4> PICK c, d : c = ("cycle" \in raced) /\ d = ("cycle" \in raced')
          OBVIOUS
        <4>3. WriterOK(issue, edit'[g], late[g], c) /\ (c => d)
          BY <4>1, <4>2
        <4>4. WriterOK(issue, edit'[g], late'[g], d)
          BY <4>2, <4>3, WriterTold
        <4> QED
          BY <4>4
      <3> QED
        BY <3>1, <3>2
    <2> QED
      BY <1>2, <1>3, <2>1
  <1>6. ASSUME NEW g \in Editors, NEW f \in Editors, g # f, Clash(edit'[g], edit'[f]) PROVE edit'[g].row # edit'[f].row
    <2>1. CASE g # h /\ f # h
      BY <1>6, <2>1 DEF LoopInv
    <2>2. CASE g = h
      BY <1>6, <2>2 DEF Clash
    <2>3. CASE f = h
      BY <1>6, <2>3
    <2> QED
      BY <2>1, <2>2, <2>3
  <1> QED
    BY <1>4, <1>5, <1>6 DEF LoopInv
\* A handler of the issues goes on to rec and touches no row.
LEMMA WriterMoves ==
    ASSUME TreeTypeOK, TreeTypeOK', LoopInv, NEW h \in Editors, NEW rec, NEW l,
           edit' = [edit EXCEPT ![h] = rec], late' = [late EXCEPT ![h] = l],
           UNCHANGED <<issue, raced>>, WriterOK(issue, rec, l, "cycle" \in raced),
           \A g \in Editors \ {h} : Clash(edit[g], rec) => edit[g].row # rec.row
    PROVE  LoopInv'
  <1>1. /\ edit'[h] = rec /\ late'[h] = l
        /\ \A g \in Editors \ {h} : edit'[g] = edit[g] /\ late[g] \subseteq late'[g]
    BY TreeTyped
  <1> QED
    BY <1>1, LoopsStay

LEMMA WriterCreates ==
    ASSUME TreeTypeOK, TreeTypeOK', LoopInv, NEW h \in Editors, NEW i \in Issues, NEW e \in Epics \cup {Nil},
           NEW p \in Issues \cup {Nil}, create_issue(h, i, e, p)
    PROVE  LoopInv'
  <1> PICK l : l = {}
    OBVIOUS
  <1> PICK rec : rec = [Idle EXCEPT !.at = "checked", !.op = "create", !.row = i, !.par = p, !.epc = e]
    OBVIOUS
  <1>1. rec.at = "checked" /\ rec.op = "create" /\ rec.row = i /\ rec.par = p
    BY DEF Idle
  <1>2. /\ edit' = [edit EXCEPT ![h] = rec] /\ late' = [late EXCEPT ![h] = l] /\ UNCHANGED <<issue, raced>>
        /\ issue[i].st = "none" /\ p \in LiveIssues \cup {Nil} /\ \A g \in Editors : edit[g].row # i
    BY DEF create_issue, Begin, validate_issue_associations
  <1>3. p # i
    BY <1>2, TreeTyped DEF LiveIssues
  <1>4. WriterOK(issue, rec, l, "cycle" \in raced)
    BY <1>1, <1>2, <1>3 DEF WriterOK, IssueOps
  <1>8. TreeTypeOK /\ TreeTypeOK' /\ LoopInv /\ h \in Editors
    OBVIOUS
  <1>9. \A g \in Editors \ {h} : edit[g].row # rec.row
    BY <1>1, <1>2
  <1> QED
    BY ONLY <1>2, <1>4, <1>8, <1>9, WriterMoves

LEMMA WriterLinks ==
    ASSUME TreeTypeOK, TreeTypeOK', LoopInv, NEW h \in Editors, NEW i \in Issues, NEW e \in Epics \cup {Nil},
           NEW p \in Issues \cup {Nil}, import_commit(h, i, e, p)
    PROVE  LoopInv'
  <1> PICK l : l = {}
    OBVIOUS
  <1> PICK rec : rec = [Idle EXCEPT !.at = "checked", !.op = "link", !.row = i,
                                    !.par = IF p = Nil THEN issue[i].par ELSE p,
                                    !.epc = IF e = Nil THEN issue[i].epc ELSE e]
    OBVIOUS
  <1>1. rec.at = "checked" /\ rec.op = "link" /\ rec.row = i
    BY DEF Idle
  <1>2. /\ edit' = [edit EXCEPT ![h] = rec] /\ late' = [late EXCEPT ![h] = l] /\ UNCHANGED <<issue, raced>>
        /\ issue[i].st # "none"
    BY DEF import_commit, Begin
  <1>3. WriterOK(issue, rec, l, "cycle" \in raced)
    BY <1>1 DEF WriterOK, IssueOps
  <1>4. ASSUME NEW g \in Editors \ {h}, Clash(edit[g], rec) PROVE edit[g].row # rec.row
    <2>1. edit[g].op = "create"
      BY <1>1, <1>4 DEF Clash
    <2>2. issue[edit[g].row].st = "none"
      BY <2>1 DEF LoopInv, WriterOK
    <2> QED
      BY <1>1, <1>2, <2>2
  <1>8. TreeTypeOK /\ TreeTypeOK' /\ LoopInv /\ h \in Editors
    OBVIOUS
  <1> QED
    BY ONLY <1>2, <1>3, <1>4, <1>8, WriterMoves

LEMMA WriterReads ==
    ASSUME TreeTypeOK, TreeTypeOK', LoopInv, NEW h \in Editors, NEW i \in Issues, update_issue(h, i)
    PROVE  LoopInv'
  <1> PICK l : l = {}
    OBVIOUS
  <1> PICK rec : rec = [Idle EXCEPT !.at = "read", !.op = "update", !.row = i, !.ver = issue[i].ver,
                                    !.par = issue[i].par, !.epc = issue[i].epc]
    OBVIOUS
  <1>1. rec.at = "read" /\ rec.op = "update" /\ rec.row = i /\ rec.ver = issue[i].ver /\ rec.par = issue[i].par
    BY DEF Idle
  <1>2. /\ edit' = [edit EXCEPT ![h] = rec] /\ late' = [late EXCEPT ![h] = l] /\ UNCHANGED <<issue, raced>>
        /\ issue[i].st = "live"
    BY DEF update_issue, Begin, LiveIssues
  <1>3. issue[i].ver <= issue[i].ver
    BY TreeTyped
  <1>4. WriterOK(issue, rec, l, "cycle" \in raced)
    BY <1>1, <1>3 DEF WriterOK, IssueOps
  <1>5. ASSUME NEW g \in Editors \ {h}, Clash(edit[g], rec) PROVE edit[g].row # rec.row
    <2>1. edit[g].op = "create"
      BY <1>1, <1>5 DEF Clash
    <2>2. issue[edit[g].row].st = "none"
      BY <2>1 DEF LoopInv, WriterOK
    <2> QED
      BY <1>1, <1>2, <2>2
  <1>8. TreeTypeOK /\ TreeTypeOK' /\ LoopInv /\ h \in Editors
    OBVIOUS
  <1> QED
    BY ONLY <1>2, <1>4, <1>5, <1>8, WriterMoves

\* The walk is taken in this state: what it denies is what WriterOK needs.
LEMMA WriterChecks ==
    ASSUME TreeTypeOK, TreeTypeOK', LoopInv, NEW h \in Editors, NEW e \in Epics \cup {Nil},
           NEW p \in Issues \cup {Nil}, NEW blind \in BOOLEAN, CheckPatch(h, e, p, blind)
    PROVE  LoopInv'
  <1> PICK r \in Edit : r = edit[h]
    BY TreeTyped
  <1> PICK l : l = IF p # r.par /\ p # Nil /\ blind THEN {"walk"} ELSE {}
    OBVIOUS
  <1> PICK rec : rec = [r EXCEPT !.at = "checked", !.par = p, !.epc = e]
    OBVIOUS
  <1>1. rec.at = "checked" /\ rec.op = r.op /\ rec.row = r.row /\ rec.ver = r.ver /\ rec.par = p
    BY DEF Edit
  <1>2. /\ edit' = [edit EXCEPT ![h] = rec] /\ late' = [late EXCEPT ![h] = l] /\ UNCHANGED <<issue, raced>>
        /\ r.at = "read" /\ r.op = "update"
        /\ p # r.par /\ p # Nil => "walk" \in l \/ ~parent_chain_contains(p, r.row)
    BY DEF CheckPatch
  <1>3. WriterOK(issue, r, late[h], "cycle" \in raced)
    BY DEF LoopInv
  <1>4. r.row \in Issues /\ r.row # Nil
    BY <1>2, <1>3, TreeTyped DEF WriterOK, IssueOps
  <1>5. p = r.par \/ p = Nil \/ "walk" \in l \/ ~Reaches(issue, p, r.row)
    BY <1>2, <1>4, ContainsReaches
  <1>6. WriterOK(issue, rec, l, "cycle" \in raced)
    BY <1>1, <1>2, <1>3, <1>5 DEF WriterOK, IssueOps
  <1>7. ASSUME NEW g \in Editors \ {h}, Clash(edit[g], rec) PROVE edit[g].row # rec.row
    <2>1. Clash(edit[g], r)
      BY <1>1, <1>2, <1>7 DEF Clash
    <2> QED
      BY <1>1, <2>1 DEF LoopInv
  <1>8. TreeTypeOK /\ TreeTypeOK' /\ LoopInv /\ h \in Editors
    OBVIOUS
  <1> QED
    BY ONLY <1>2, <1>6, <1>7, <1>8, WriterMoves

LEMMA WriterLocks ==
    ASSUME TreeTypeOK, TreeTypeOK', LoopInv, NEW h \in Editors, IssueStatement(h)
    PROVE  LoopInv'
  <1> PICK r \in Edit : r = edit[h]
    BY TreeTyped
  <1> PICK m : m = issue_milestone_from_epic(r.epc)
    OBVIOUS
  <1> PICK rec : rec = [r EXCEPT !.at = "wrote", !.mil = m]
    OBVIOUS
  <1>1. rec.at = "wrote" /\ rec.op = r.op /\ rec.row = r.row /\ rec.ver = r.ver /\ rec.par = r.par
    BY DEF Edit
  <1>2. r.at = "checked" /\ r.op \in IssueOps /\ Unlocked(r.row) /\ UNCHANGED <<issue, raced>> /\ late' = [late EXCEPT ![h] = late[h]]
    BY TreeTyped DEF IssueStatement, IssueOps
  <1>3. \/ edit' = [edit EXCEPT ![h] = Idle]
        \/ /\ edit' = [edit EXCEPT ![h] = rec]
           /\ r.par # Nil => issue[r.par].st # "none"
           /\ r.op = "update" => issue[r.row].st = "live" /\ issue[r.row].ver = r.ver
    BY DEF IssueStatement, IssueMatch
  <1>4. WriterOK(issue, r, late[h], "cycle" \in raced)
    BY DEF LoopInv
  <1>5. CASE edit' = [edit EXCEPT ![h] = Idle]
    <2>1. WriterOK(issue, Idle, late[h], "cycle" \in raced)
      BY TreeTyped DEF WriterOK, IssueOps
    <2>2. \A g \in Editors \ {h} : ~Clash(edit[g], Idle)
      BY TreeTyped DEF Clash, IssueOps
    <2> QED
      BY <1>2, <1>5, <2>1, <2>2, WriterMoves
  <1>6. CASE /\ edit' = [edit EXCEPT ![h] = rec]
             /\ r.par # Nil => issue[r.par].st # "none"
             /\ r.op = "update" => issue[r.row].st = "live" /\ issue[r.row].ver = r.ver
    <2>1. WriterOK(issue, rec, late[h], "cycle" \in raced)
      BY <1>1, <1>2, <1>4, <1>6 DEF WriterOK, IssueOps
    <2>2. ASSUME NEW g \in Editors \ {h}, Clash(edit[g], rec) PROVE edit[g].row # rec.row
      <3>1. CASE edit[g].at = "wrote"
        BY <1>1, <1>2, <3>1 DEF Unlocked
      <3>2. CASE edit[g].at # "wrote"
        <4>1. Clash(edit[g], r)
          BY <1>1, <2>2, <3>2 DEF Clash
        <4> QED
          BY <1>1, <4>1 DEF LoopInv
      <3> QED
        BY <3>1, <3>2
    <2>3. TreeTypeOK /\ TreeTypeOK' /\ LoopInv /\ h \in Editors
      OBVIOUS
    <2> QED
      BY ONLY <1>2, <1>6, <2>1, <2>2, <2>3, WriterMoves
  <1> QED
    BY <1>3, <1>5, <1>6
\* The statement of an issue commits: the new row closes no loop, or the
\* overlap is recorded.
LEMMA WriterCommits ==
    ASSUME TreeTypeOK, TreeTypeOK', LoopInv, NEW h \in Editors, IssueCommit(h)
    PROVE  LoopInv'
  <1> PICK r \in Edit : r = edit[h]
    BY TreeTyped
  <1> PICK x : x = r.row
    OBVIOUS
  <1> PICK R, Q : R = issue /\ Q = issue'
    OBVIOUS
  <1> PICK c, d : c = ("cycle" \in raced) /\ d = ("cycle" \in raced')
    OBVIOUS
  <1>1. /\ r.at = "wrote" /\ edit' = [edit EXCEPT ![h] = Idle] /\ Tell(h, "parents")
        /\ raced' = raced \cup (IF late[h] \cap {"parents", "walk"} # {} \/ r.op = "link" THEN {"cycle"} ELSE {})
                      \cup (IF "epics" \in late[h] THEN {"drift"} ELSE {})
    BY DEF IssueCommit
  <1>2. (c => d) /\ (late[h] \cap {"parents", "walk"} # {} => d) /\ (r.op = "link" => d)
    BY <1>1
  <1>3. WriterOK(R, r, late[h], c)
    BY DEF LoopInv
  <1>4. x \in Issues /\ r.op \in IssueOps /\ (r.par # Nil => R[r.par].st # "none") /\ r.par \in Issues \cup {Nil}
    BY <1>1, <1>3 DEF WriterOK, Edit
  <1>5. /\ \A j \in Issues : R[j].par \in Issues \cup {Nil} /\ R[j].ver \in Nat
        /\ Nil \notin Issues
    BY TreeTyped
  <1>6. /\ \A j \in Issues : j # x => Q[j] = R[j]
        /\ Q[x].st = (IF r.op = "create" THEN "live" ELSE R[x].st)
        /\ Q[x].ver = (IF r.op = "link" THEN R[x].ver ELSE R[x].ver + 1)
        /\ Q[x].par = r.par
    <2> PICK fresh : fresh = [st |-> IF r.op = "create" THEN "live" ELSE issue[x].st,
                              ver |-> IF r.op = "link" THEN issue[x].ver ELSE issue[x].ver + 1,
                              par |-> r.par, epc |-> r.epc, mil |-> r.mil]
      OBVIOUS
    <2>1. issue' = [issue EXCEPT ![x] = fresh]
      BY DEF IssueCommit
    <2>2. issue \in [Issues -> IssueRow]
      BY TreeTyped
    <2>3. Q[x] = fresh /\ \A j \in Issues : j # x => Q[j] = R[j]
      BY <1>4, <2>1, <2>2
    <2> QED
      BY <2>3
  <1>7. \A j \in Issues : Q[j].st = "none" => R[j].st = "none"
    BY <1>6
  <1>8. Rooted(R) /\ (LoopFree(R) \/ c)
    BY DEF LoopInv
  <1>9. Rooted(Q)
    BY <1>4, <1>5, <1>6, <1>7, <1>8 DEF Rooted
  <1>10. LoopFree(Q) \/ d
    <2> SUFFICES ASSUME ~d PROVE LoopFree(Q)
      OBVIOUS
    <2>1. LoopFree(R) /\ ~c /\ late[h] \cap {"parents", "walk"} = {} /\ r.op \in {"create", "update"}
      BY <1>2, <1>4, <1>8 DEF IssueOps
    <2>2. CASE r.op = "create"
      <3>1. R[x].st = "none" /\ r.par # x
        BY <1>3, <2>2 DEF WriterOK
      <3>2. \A j \in Live(Q) : Q[j].par # x
        <4> TAKE j \in Live(Q)
        <4>1. j \in Issues
          BY DEF Live
        <4>2. R[j].par # x
          BY <1>4, <1>5, <1>8, <3>1, <4>1 DEF Rooted
        <4> QED
          BY <1>6, <3>1, <4>1, <4>2
      <3>3. Live(Q) \subseteq Live(R) \cup {x} /\ \A j \in Live(Q) \ {x} : Q[j].par = R[j].par
        BY <1>6 DEF Live
      <3> QED
        BY ONLY <2>1, <3>2, <3>3, NewLeaf
    <2>3. CASE r.op = "update"
      <3>1. Live(Q) \subseteq Live(R) /\ \A j \in Live(Q) \ {x} : Q[j].par = R[j].par
        BY <1>6, <2>3 DEF Live
      <3>2. R[x].par = r.par \/ r.par = Nil \/ ~Reaches(R, r.par, x)
        BY <1>1, <1>3, <2>1, <2>3 DEF WriterOK
      <3>3. CASE R[x].par = r.par \/ r.par = Nil
        <4>1. \A j \in Live(Q) : j \in Live(R) /\ (Q[j].par = R[j].par \/ Q[j].par \notin Live(Q))
          BY <1>5, <1>6, <3>1, <3>3 DEF Live
        <4> QED
          BY <2>1, <4>1, FewerLoops
      <3>4. CASE ~Reaches(R, r.par, x)
        <4>1. x \in Live(Q) => Q[x].par = r.par
          BY <1>6
        <4> QED
          BY <2>1, <3>1, <3>4, <4>1, NewEdge
      <3> QED
        BY <3>2, <3>3, <3>4
    <2> QED
      BY <2>1, <2>2, <2>3
  <1>11. ASSUME NEW g \in Editors PROVE WriterOK(Q, edit'[g], late'[g], d)
    <2>1. CASE g = h
      <3>1. edit'[g] = Idle
        BY <1>1, <2>1, TreeTyped
      <3> QED
        BY <3>1, TreeTyped DEF WriterOK, IssueOps
    <2>2. CASE g # h
      <3> PICK q \in Edit : q = edit[g]
        BY TreeTyped
      <3>1. edit'[g] = q /\ (q.at # "idle" => "parents" \in late'[g])
        BY <1>1, <2>2, TreeTyped DEF Tell
      <3>2. WriterOK(R, q, late[g], c) /\ (Clash(r, q) => q.row # x)
        BY <2>2 DEF LoopInv
      <3>3. q.par \in Issues \cup {Nil} /\ q.ver \in Nat
        BY DEF Edit
      <3>4. CASE q.op \in IssueOps /\ q.row = x
        <4>1. r.op # "create" /\ q.op # "create" /\ q.at # "wrote"
          BY <1>1, <1>4, <3>2, <3>4 DEF Clash
        <4>2. Q[x].st = R[x].st /\ R[x].ver \in Nat
          BY <1>4, <1>5, <1>6, <4>1
        <4>3. q.op = "update" /\ Q[x].st # "none" => q.ver <= Q[x].ver /\ (Q[x].ver = q.ver => d)
          <5>1. q.op = "update" /\ R[x].st # "none" => q.ver <= R[x].ver
            BY <3>2, <3>4 DEF WriterOK
          <5> QED
            BY <1>2, <1>6, <3>3, <4>2, <5>1
        <4>4. q.at = "idle" => q.op = "none"
          BY <3>2 DEF WriterOK
        <4>5. WriterOK(Q, q, late'[g], d)
          BY ONLY <1>4, <3>4, <4>1, <4>3, <4>4 DEF WriterOK
        <4> QED
          BY <3>1, <4>5
      <3>5. CASE q.op \in IssueOps /\ q.row # x
        <4>1. q.row \in Issues /\ Q[q.row] = R[q.row]
          BY <1>6, <3>2, <3>5 DEF WriterOK
        <4>2. q.op = "update" => q.at # "idle"
          BY <3>2 DEF WriterOK
        <4>3. WriterOK(Q, q, late'[g], d)
          BY <1>2, <1>7, <3>1, <3>2, <3>3, <3>5, <4>1, <4>2 DEF WriterOK
        <4> QED
          BY <3>1, <4>3
      <3>6. CASE q.op \notin IssueOps
        <4>1. WriterOK(Q, q, late'[g], d)
          BY <3>2, <3>6 DEF WriterOK, IssueOps
        <4> QED
          BY <3>1, <4>1
      <3> QED
        BY <3>4, <3>5, <3>6
    <2> QED
      BY <2>1, <2>2
  <1>12. ASSUME NEW g \in Editors, NEW f \in Editors, g # f, Clash(edit'[g], edit'[f]) PROVE edit'[g].row # edit'[f].row
    <2>1. /\ edit'[h] = Idle /\ Idle.op = "none" /\ Idle.at = "idle"
          /\ \A q \in Editors : q # h => edit'[q] = edit[q]
      BY <1>1, TreeTyped
    <2>2. g # h /\ f # h
      BY <1>12, <2>1 DEF Clash, IssueOps
    <2> QED
      BY <1>12, <2>1, <2>2 DEF LoopInv
  <1> QED
    BY <1>9, <1>10, <1>11, <1>12 DEF LoopInv
\* Rows that are deleted or purged take their edges with them.
LEMMA RowsRemoved ==
    ASSUME TreeTypeOK, TreeTypeOK', LoopInv, NEW h \in Editors,
           (\E i \in Issues : delete_issue(h, i)) \/ purge_project_issues(h)
    PROVE  LoopInv'
  <1> PICK R, Q : R = issue /\ Q = issue'
    OBVIOUS
  <1> PICK c : c = ("cycle" \in raced)
    OBVIOUS
  <1>1. UNCHANGED <<edit, late, raced>>
    BY DEF delete_issue, purge_project_issues
  <1>2. /\ \A j \in Issues : R[j].par \in Issues \cup {Nil} /\ R[j].ver \in Nat
        /\ Nil \notin Issues
    BY TreeTyped
  <1>3. \A j \in Issues :
          \/ Q[j].st = "none" /\ Q[j].par = Nil /\ \A g \in Editors : edit[g].at # "wrote"
          \/ /\ Q[j].par = R[j].par /\ Q[j].ver = R[j].ver
             /\ \/ Q[j].st = R[j].st
                \/ R[j].st = "live" /\ Q[j].st = "deleted" /\ Unlocked(j)
    <2>1. ASSUME NEW i \in Issues, delete_issue(h, i) PROVE <1>3!:
      <3> PICK m : m = issue_milestone_from_epic(issue[i].epc)
        OBVIOUS
      <3>1. /\ issue' = [issue EXCEPT ![i] = [issue[i] EXCEPT !.st = "deleted", !.mil = m]]
            /\ issue[i].st = "live" /\ Unlocked(i) /\ issue[i] \in IssueRow
        BY <2>1, TreeTyped DEF delete_issue, LiveIssues
      <3> PICK fresh : fresh = [issue[i] EXCEPT !.st = "deleted", !.mil = m]
        OBVIOUS
      <3>2. fresh.st = "deleted" /\ fresh.par = issue[i].par /\ fresh.ver = issue[i].ver
        BY <3>1 DEF IssueRow
      <3>3. Q[i] = fresh /\ \A j \in Issues : j # i => Q[j] = R[j]
        BY <3>1, TreeTyped
      <3> QED
        BY <3>1, <3>2, <3>3
    <2>2. CASE purge_project_issues(h)
      BY <2>2 DEF purge_project_issues
    <2> QED
      BY <2>1, <2>2
  <1>4. \A j \in Issues : R[j].st = "none" => Q[j].st = "none"
    BY <1>3
  <1>5. (\A j \in Issues : Q[j].st = "none" /\ Q[j].par = Nil) \/ (\A j \in Issues : Q[j].st = "none" => R[j].st = "none")
    <2>1. ASSUME NEW i \in Issues, delete_issue(h, i), NEW j \in Issues, Q[j].st = "none" PROVE R[j].st = "none"
      <3>1. Q[j].st = R[j].st \/ Q[j].st = "deleted"
        BY <2>1, TreeTyped DEF delete_issue, IssueRow
      <3> QED
        BY <2>1, <3>1
    <2>2. ASSUME purge_project_issues(h), NEW j \in Issues PROVE Q[j].st = "none" /\ Q[j].par = Nil
      BY <2>2 DEF purge_project_issues
    <2> QED
      BY <2>1, <2>2
  <1>6. Rooted(R) /\ (LoopFree(R) \/ c)
    BY DEF LoopInv
  <1>7. Rooted(Q)
    <2> SUFFICES ASSUME NEW j \in Issues, Q[j].par # Nil PROVE Q[Q[j].par].st # "none"
      BY DEF Rooted
    <2>1. Q[j].par = R[j].par /\ R[j].par \in Issues /\ R[R[j].par].st # "none"
      BY <1>2, <1>3, <1>6 DEF Rooted
    <2> QED
      BY <1>5, <2>1
  <1>8. \A j \in Live(Q) : j \in Live(R) /\ (Q[j].par = R[j].par \/ Q[j].par \notin Live(Q))
    BY <1>3 DEF Live
  <1>9. LoopFree(Q) \/ c
    BY <1>6, <1>8, FewerLoops
  <1>10. \A p, i : Reaches(Q, p, i) => Reaches(R, p, i)
    BY <1>8, FewerReach
  <1>11. ASSUME NEW g \in Editors PROVE WriterOK(Q, edit[g], late[g], c)
    <2> PICK q \in Edit : q = edit[g]
      BY TreeTyped
    <2> PICK l : l = late[g]
      OBVIOUS
    <2>1. WriterOK(R, q, l, c)
      BY DEF LoopInv
    <2>2. q.par \in Issues \cup {Nil}
      BY DEF Edit
    <2>3. CASE q.op \notin IssueOps
      <3>1. WriterOK(Q, q, l, c)
        BY ONLY <2>1, <2>3 DEF WriterOK, IssueOps
      <3> QED
        BY <3>1
    <2>4. CASE q.op \in IssueOps
      <3>1. q.row \in Issues
        BY <2>1, <2>4 DEF WriterOK
      <3>2. q.at = "wrote" /\ q.par # Nil => Q[q.par].st # "none"
        <4> SUFFICES ASSUME q.at = "wrote", q.par # Nil PROVE Q[q.par].st # "none"
          OBVIOUS
        <4>1. R[q.par].st # "none" /\ q.par \in Issues
          BY <2>1, <2>2 DEF WriterOK
        <4> QED
          BY <1>3, <4>1
      <3>3. q.at = "wrote" /\ q.op = "update" => Q[q.row].st = "live" /\ Q[q.row].ver = q.ver
        <4> SUFFICES ASSUME q.at = "wrote", q.op = "update" PROVE Q[q.row].st = "live" /\ Q[q.row].ver = q.ver
          OBVIOUS
        <4>1. R[q.row].st = "live" /\ R[q.row].ver = q.ver /\ ~Unlocked(q.row)
          BY <2>1 DEF WriterOK, Unlocked
        <4> QED
          BY <1>3, <3>1, <4>1
      <3>4. q.op = "create" => Q[q.row].st = "none" /\ q.par # q.row
        BY <1>4, <2>1, <3>1 DEF WriterOK
      <3>5. Q[q.row].st # "none" => R[q.row].st # "none" /\ Q[q.row].ver = R[q.row].ver /\ Q[q.row].par = R[q.row].par
        BY <1>3, <3>1
      <3>6. WriterOK(Q, q, l, c)
        BY ONLY <1>10, <2>1, <2>4, <3>1, <3>2, <3>3, <3>4, <3>5 DEF WriterOK
      <3> QED
        BY <3>6
    <2> QED
      BY <2>3, <2>4
  <1> QED
    BY <1>1, <1>7, <1>9, <1>11 DEF LoopInv
\* A handler of epics or milestones moves: it holds no issue.
LEMMA BystanderMoves ==
    ASSUME TreeTypeOK, TreeTypeOK', LoopInv, NEW h \in Editors,
           \A i \in Issues : issue'[i].st = issue[i].st /\ issue'[i].ver = issue[i].ver /\ issue'[i].par = issue[i].par,
           raced \subseteq raced',
           \A g \in Editors \ {h} : edit'[g] = edit[g] /\ late[g] \subseteq late'[g],
           edit'[h].op \notin IssueOps, edit'[h].at # "wrote", edit'[h].at = "idle" => edit'[h].op = "none"
    PROVE  LoopInv'
  <1>1. WriterOK(issue, edit'[h], late'[h], "cycle" \in raced')
    BY DEF WriterOK, IssueOps
  <1>2. \A g \in Editors \ {h} : ~Clash(edit[g], edit'[h])
    BY DEF Clash, IssueOps
  <1> QED
    BY <1>1, <1>2, LoopsStay

\* The requests that begin, and the ones that stop.
LEMMA BystandersBegin ==
    ASSUME TreeTypeOK, TreeTypeOK', LoopInv, NEW h \in Editors,
           \/ \E e \in Epics, m \in Milestones \cup {Nil}, blind \in BOOLEAN :
                create_epic(h, e, m, blind) \/ update_epic(h, e, m, blind)
           \/ \E m \in Milestones, S \in SUBSET Epics, blind \in BOOLEAN : set_epics(h, m, S, blind)
           \/ \E m \in Milestones : delete_milestone(h, m)
           \/ GiveUp(h)
    PROVE  LoopInv'
  <1>1. UNCHANGED <<issue, raced>> /\ \A g \in Editors \ {h} : edit'[g] = edit[g] /\ late'[g] = late[g]
    BY TreeTyped DEF create_epic, update_epic, set_epics, delete_milestone, GiveUp, Begin
  <1>2. /\ edit'[h].op \in {"none", "epic", "fill", "delete"} /\ edit'[h].at # "wrote"
        /\ edit'[h].at = "idle" => edit'[h].op = "none"
    <2> DEFINE Begun(rec) == Begin(h, rec) /\ rec.at = "checked" /\ rec.op \in {"epic", "fill", "delete"}
    <2>1. ASSUME NEW rec, Begun(rec) PROVE <1>2!:
      BY <2>1, TreeTyped DEF Begin
    <2>2. ASSUME GiveUp(h) PROVE <1>2!:
      BY <2>2, TreeTyped DEF GiveUp
    <2>3. ASSUME NEW e \in Epics, NEW m \in Milestones \cup {Nil}, NEW blind \in BOOLEAN,
                 create_epic(h, e, m, blind)
          PROVE  \E rec : Begun(rec)
      <3> PICK rec : rec = [Idle EXCEPT !.at = "checked", !.op = "epic", !.row = e, !.mil = m]
        OBVIOUS
      <3>1. Begin(h, rec) /\ rec.at = "checked" /\ rec.op = "epic"
        BY <2>3 DEF create_epic, Idle
      <3> QED
        BY <3>1
    <2>4. ASSUME NEW e \in Epics, NEW m \in Milestones \cup {Nil}, NEW blind \in BOOLEAN,
                 update_epic(h, e, m, blind)
          PROVE  \E rec : Begun(rec)
      <3> PICK rec : rec = [Idle EXCEPT !.at = "checked", !.op = "epic", !.row = e, !.ver = epic[e].ver, !.mil = m]
        OBVIOUS
      <3>1. Begin(h, rec) /\ rec.at = "checked" /\ rec.op = "epic"
        BY <2>4 DEF update_epic, Idle
      <3> QED
        BY <3>1
    <2>5. ASSUME NEW m \in Milestones, NEW S \in SUBSET Epics, NEW blind \in BOOLEAN, set_epics(h, m, S, blind)
          PROVE  \E rec : Begun(rec)
      <3> PICK rec : rec = [Idle EXCEPT !.at = "checked", !.op = "fill", !.row = m, !.mil = m, !.set = S]
        OBVIOUS
      <3>1. Begin(h, rec) /\ rec.at = "checked" /\ rec.op = "fill"
        BY <2>5 DEF set_epics, Idle
      <3> QED
        BY <3>1
    <2>6. ASSUME NEW m \in Milestones, delete_milestone(h, m) PROVE \E rec : Begun(rec)
      <3> PICK rec : rec = [Idle EXCEPT !.at = "checked", !.op = "delete", !.row = m]
        OBVIOUS
      <3>1. Begin(h, rec) /\ rec.at = "checked" /\ rec.op = "delete"
        BY <2>6 DEF delete_milestone, Idle
      <3> QED
        BY <3>1
    <2> HIDE DEF Begun
    <2> QED
      BY <2>1, <2>2, <2>3, <2>4, <2>5, <2>6
  <1> QED
    BY <1>1, <1>2, BystanderMoves DEF IssueOps

\* A statement on epics touches the milestones of issues only.
LEMMA CascadeKeepsTree ==
    ASSUME TreeTypeOK, NEW rows, EpicStatement(rows)
    PROVE  \A i \in Issues : issue'[i].st = issue[i].st /\ issue'[i].ver = issue[i].ver /\ issue'[i].par = issue[i].par
  <1> TAKE i \in Issues
  <1> PICK old \in IssueRow : old = issue[i]
    BY TreeTyped
  <1> PICK m : m = IF rows[issue[i].epc].st = "live" THEN rows[issue[i].epc].mil ELSE Nil
    OBVIOUS
  <1>1. issue'[i] = old \/ issue'[i] = [old EXCEPT !.mil = m]
    BY DEF EpicStatement, epic_milestone_cascade
  <1> QED
    BY <1>1 DEF IssueRow

LEMMA BystandersWrite ==
    ASSUME TreeTypeOK, TreeTypeOK', LoopInv, NEW h \in Editors,
           \/ \E e \in Epics : delete_epic(h, e)
           \/ WriteEpic(h) \/ purge_project_epics(h) \/ set_milestone_epics(h)
           \/ \E m \in Milestones, s \in {"open", "closed"} : set_completed(h, m, s)
           \/ soft_delete_milestone(h)
    PROVE  LoopInv'
  <1>1. \A i \in Issues : issue'[i].st = issue[i].st /\ issue'[i].ver = issue[i].ver /\ issue'[i].par = issue[i].par
    <2>1. CASE UNCHANGED issue
      BY <2>1
    <2>2. CASE \E rows : EpicStatement(rows)
      BY <2>2, CascadeKeepsTree
    <2>3. CASE purge_project_epics(h)
      BY <2>3, TreeTyped DEF purge_project_epics, IssueRow
    <2>4. UNCHANGED issue \/ (\E rows : EpicStatement(rows)) \/ purge_project_epics(h)
      BY DEF delete_epic, WriteEpic, set_milestone_epics, set_completed, soft_delete_milestone
    <2> QED
      BY <2>1, <2>2, <2>3, <2>4
  <1>2. raced \subseteq raced'
    BY DEF delete_epic, WriteEpic, purge_project_epics, set_milestone_epics, set_completed, soft_delete_milestone
  <1>3. \A g \in Editors \ {h} : late[g] \subseteq late'[g]
    BY TreeTyped DEF delete_epic, WriteEpic, purge_project_epics, set_milestone_epics, set_completed,
                     soft_delete_milestone, Tell
  <1>4. \A g \in Editors \ {h} : edit'[g] = edit[g]
    BY TreeTyped DEF delete_epic, WriteEpic, purge_project_epics, set_milestone_epics, set_completed,
                     soft_delete_milestone
  <1>5. /\ edit'[h].op \notin IssueOps /\ edit'[h].at # "wrote"
        /\ edit'[h].at = "idle" => edit'[h].op = "none"
    <2>1. ASSUME edit[h].at = "idle", UNCHANGED edit PROVE <1>5!:
      <3>1. edit[h].op = "none"
        BY <2>1 DEF LoopInv, WriterOK
      <3> QED
        BY <2>1, <3>1 DEF IssueOps
    <2>2. ASSUME edit' = [edit EXCEPT ![h] = Idle] PROVE <1>5!:
      BY <2>2, TreeTyped DEF IssueOps
    <2>3. CASE set_milestone_epics(h)
      <3> PICK r \in Edit : r = edit[h]
        BY TreeTyped
      <3> PICK next : next = [r EXCEPT !.at = "attach"]
        OBVIOUS
      <3>1. next.at = "attach" /\ next.op = "fill"
        BY <2>3 DEF set_milestone_epics, Edit
      <3>2. edit' = [edit EXCEPT ![h] = Idle] \/ edit' = [edit EXCEPT ![h] = next]
        BY <2>3 DEF set_milestone_epics
      <3> QED
        BY <2>2, <3>1, <3>2, TreeTyped DEF IssueOps
    <2>4. (edit[h].at = "idle" /\ UNCHANGED edit) \/ edit' = [edit EXCEPT ![h] = Idle] \/ set_milestone_epics(h)
      BY DEF delete_epic, WriteEpic, purge_project_epics, set_completed, soft_delete_milestone
    <2> QED
      BY <2>1, <2>2, <2>3, <2>4
  <1> QED
    BY <1>1, <1>2, <1>3, <1>4, <1>5, BystanderMoves

LEMMA LoopInvInit == TreeInit => LoopInv
  <1> SUFFICES ASSUME TreeInit PROVE LoopInv
    OBVIOUS
  <1>1. \A i \in Issues : issue[i].par = Nil
    BY DEF TreeInit
  <1>2. LoopFree(issue)
    <2> SUFFICES ASSUME NEW n \in 1 .. Depth, NEW s, Ascends(issue, s, n + 1) PROVE FALSE
      BY DEF LoopFree, Loops
    <2>1. 1 \in 1 .. n + 1 /\ 1 \in 1 .. (n + 1) - 1 /\ 1 + 1 \in 1 .. n + 1
      BY HierarchyAssumption
    <2>2. s[1] \in Live(issue) /\ s[1 + 1] \in Live(issue) /\ s[1 + 1] = issue[s[1]].par
      BY <2>1 DEF Ascends
    <2> QED
      BY <1>1, <2>2, HierarchyAssumption DEF Live
  <1>3. \A h \in Editors : edit[h] = Idle /\ Idle.op = "none" /\ Idle.at = "idle"
    BY DEF TreeInit, Idle
  <1> QED
    BY <1>1, <1>2, <1>3 DEF LoopInv, Rooted, WriterOK, Clash, IssueOps

LEMMA LoopInvStep == TreeTypeOK /\ TreeTypeOK' /\ LoopInv /\ [TreeNext]_treeVars => LoopInv'
  <1> SUFFICES ASSUME TreeTypeOK, TreeTypeOK', LoopInv, [TreeNext]_treeVars PROVE LoopInv'
    OBVIOUS
  <1>1. CASE UNCHANGED treeVars
    BY <1>1 DEF treeVars, LoopInv
  <1>2. CASE TreeNext
    <2> PICK h \in Editors : TreeNext!(h)
      BY <1>2 DEF TreeNext
    <2> QED
      BY WriterCreates, WriterLinks, WriterReads, WriterChecks, WriterLocks, WriterCommits, RowsRemoved,
         BystandersBegin, BystandersWrite
  <1> QED
    BY <1>1, <1>2

\* update_issue keeps the live hierarchy free of cycles no longer than the walk
\* of parent_chain_contains, whatever the deletions, purges and other updates
\* in between: for any number of issues, handlers and requests and any depth of
\* the walk, a cycle needs a parent written between a handler's walk and its
\* write, a walk whose query failed, or the links of an import.
THEOREM CyclesNeedCause == TreeSpec => []CycleNeedsCause
  <1>1. TreeTypeOK /\ LoopInv => CycleNeedsCause
    <2> SUFFICES ASSUME TreeTypeOK, LoopInv, NEW i \in LiveIssues, NEW n \in 1 .. Depth,
                        Climb(i, n + 1)[n + 1] = i, "cycle" \notin raced
                 PROVE  FALSE
      BY DEF CycleNeedsCause
    <2>1. i \in Live(issue) /\ Walk(issue, i, n + 1)[n + 1] = i
      BY ClimbIs DEF LiveIssues, Live
    <2>2. ~LoopFree(issue)
      BY <2>1, LoopFreeIsEnough
    <2> QED
      BY <2>2 DEF LoopInv
  <1> QED
    BY <1>1, LoopInvInit, LoopInvStep, TreeTypeCorrect, PTL DEF TreeSpec

-----------------------------------------------------------------------------
(* IssueCreation.                                                          *)

Made == [ref : Nat \ {0}, key : Keys \cup {NoKey}, whole : BOOLEAN]
Maker == [at : {"idle", "values", "alloc", "insert", "relations", "remember"},
          op : {"none", "one", "bulk", "import"}, key : Keys \cup {NoKey}, ref : Nat, left : Nat]

\* A ref is one row's or one handler's: taken by alloc_ref, given to the row
\* at the INSERT, kept by the handler until its answer is stored.
Holds(m) == m.at \in {"insert", "relations", "remember"}
RowOf(m, whole) == [ref |-> m.ref, key |-> m.key, whole |-> whole]

RefsOK ==
    /\ maker \in [Makers -> Maker]
    /\ made \subseteq Made /\ \A r, s \in made : r.ref = s.ref => r = s
    /\ \A h \in Makers : Holds(maker[h]) => maker[h].ref \in 1 .. lastRef
    /\ \A g, h \in Makers : Holds(maker[g]) /\ Holds(maker[h]) /\ maker[g].ref = maker[h].ref => g = h

MakerOK(m) ==
    /\ m.at = "insert" => \A r \in made : r.ref # m.ref
    /\ m.at = "relations" => RowOf(m, FALSE) \in made
    /\ m.at = "remember" => RowOf(m, TRUE) \in made /\ m.key \in Keys
    /\ m.key \in Keys => m.op = "one" /\ m.left <= 1

\* While nothing excuses a key it has one request, or one row, or both: the
\* request alone before its INSERT, then the row with its request, and the
\* row alone once the answer is stored.
Busy(k) == {h \in Makers : maker[h].key = k /\ maker[h].at # "idle"}
Rows(k) == {r \in made : r.key = k}
Past(m) == m.at \in {"relations", "remember"}

KeyOK(k) ==
    /\ \A g, h \in Busy(k) : g = h
    /\ \A r, s \in Rows(k) : r = s
    /\ saved[k] # 0 => Busy(k) = {}
    /\ saved[k] = 0 /\ Rows(k) # {} => \E h \in Busy(k) : Past(maker[h])
    /\ \A h \in Busy(k) : ~Past(maker[h]) => Rows(k) = {}

SavedOK == \A k \in Keys : saved[k] # 0 => [ref |-> saved[k], key |-> k, whole |-> TRUE] \in made

MakeInv ==
    /\ MakeTypeOK /\ RefsOK /\ SavedOK
    /\ \A h \in Makers : MakerOK(maker[h])
    /\ \A k \in Keys \ excused : KeyOK(k)

LEMMA WaitingIsFine ==
    Waiting \in Maker /\ MakerOK(Waiting) /\ Waiting.at = "idle" /\ Waiting.key = NoKey /\ ~Holds(Waiting) /\ ~Past(Waiting)
  BY CreationAssumption DEF Waiting, Maker, MakerOK, Holds, Past

LEMMA MakeParts ==
    ASSUME MakeInv
    PROVE  /\ lastRef \in Nat /\ saved \in [Keys -> Nat] /\ names \subseteq {"status"} /\ excused \subseteq Keys
           /\ makes \in 0 .. MaxMakes /\ MaxMakes \in Nat /\ NoKey \notin Keys /\ Batch \in Nat
           /\ made \subseteq Made /\ \A r \in made : r.ref \in 1 .. lastRef
           /\ maker \in [Makers -> Maker] /\ \A h \in Makers : maker[h] \in Maker /\ MakerOK(maker[h])
  BY CreationAssumption DEF MakeInv, MakeTypeOK, RefsOK

LEMMA MakeFromParts ==
    ASSUME lastRef' \in Nat, saved' \in [Keys -> Nat], names' \subseteq {"status"}, excused' \subseteq Keys,
           makes' \in 0 .. MaxMakes, made' \subseteq Made, \A r \in made' : r.ref \in 1 .. lastRef',
           RefsOK', SavedOK', \A h \in Makers : MakerOK(maker[h])', \A k \in Keys \ excused' : KeyOK(k)'
    PROVE  MakeInv'
  <1>1. \A r \in made' : r \in [ref : 1 .. lastRef', key : Keys \cup {NoKey}, whole : BOOLEAN]
    BY DEF Made
  <1>2. \A h \in Makers : maker'[h].at \in {"idle", "values", "alloc", "insert", "relations", "remember"}
    BY DEF RefsOK, Maker
  <1>3. MakeTypeOK'
    BY <1>1, <1>2 DEF MakeTypeOK
  <1> QED
    BY <1>3 DEF MakeInv

\* A handler's step leaves a key as it was: its request, if any, stays on its
\* side of the INSERT.
LEMMA KeyKept ==
    ASSUME MakeInv, NEW h \in Makers, NEW n \in Maker, maker' = [maker EXCEPT ![h] = n],
           NEW k \in Keys, KeyOK(k), saved'[k] = saved[k],
           (n.key = k /\ n.at # "idle") <=> (maker[h].key = k /\ maker[h].at # "idle"),
           n.key = k => (Past(n) <=> Past(maker[h])),
           Rows(k)' = {} <=> Rows(k) = {}, \A r, s \in Rows(k)' : r = s
    PROVE  KeyOK(k)'
  <1>1. maker'[h] = n /\ \A g \in Makers : g # h => maker'[g] = maker[g]
    BY MakeParts
  <1>2. Busy(k)' = Busy(k)
    BY <1>1 DEF Busy
  <1>3. \A g \in Busy(k) : Past(maker'[g]) <=> Past(maker[g])
    BY <1>1 DEF Busy
  <1>4. \A g, f \in Busy(k)' : g = f
    BY <1>2 DEF KeyOK
  <1>5. saved'[k] # 0 => Busy(k)' = {}
    BY <1>2 DEF KeyOK
  <1>6. saved'[k] = 0 /\ Rows(k)' # {} => \E g \in Busy(k)' : Past(maker'[g])
    BY <1>2, <1>3 DEF KeyOK
  <1>7. \A g \in Busy(k)' : ~Past(maker'[g]) => Rows(k)' = {}
    BY <1>2, <1>3 DEF KeyOK
  <1> QED
    BY <1>4, <1>5, <1>6, <1>7 DEF KeyOK, Past

\* The counter has not gone back.
Later(n) == lastRef' \in Nat /\ lastRef' >= n

\* A handler goes on and no row is written.
LEMMA AnswerMoves ==
    ASSUME MakeInv, NEW h \in Makers, NEW n \in Maker, maker' = [maker EXCEPT ![h] = n], UNCHANGED made,
           saved' \in [Keys -> Nat], SavedOK',
           Later(lastRef), names' \subseteq {"status"}, makes' \in 0 .. MaxMakes,
           excused' \subseteq Keys, MakerOK(n),
           Holds(n) => n.ref \in 1 .. lastRef' /\ \A g \in Makers \ {h} : Holds(maker[g]) => maker[g].ref # n.ref,
           \A k \in Keys \ excused' : KeyOK(k)'
    PROVE  MakeInv'
  <1>1. maker'[h] = n /\ maker' \in [Makers -> Maker] /\ \A g \in Makers : g # h => maker'[g] = maker[g]
    BY MakeParts
  <1>2. \A g \in Makers : Holds(maker'[g]) => maker'[g].ref \in 1 .. lastRef'
    BY <1>1, MakeParts DEF MakeInv, RefsOK, Later
  <1>3. \A f, g \in Makers : Holds(maker'[f]) /\ Holds(maker'[g]) /\ maker'[f].ref = maker'[g].ref => f = g
    BY <1>1 DEF MakeInv, RefsOK
  <1>4. RefsOK'
    BY <1>1, <1>2, <1>3 DEF MakeInv, RefsOK, Holds
  <1>5. \A g \in Makers : MakerOK(maker[g])'
    BY <1>1, MakeParts DEF MakerOK
  <1>6. (\A r \in made' : r.ref \in 1 .. lastRef') /\ lastRef' \in Nat
    BY MakeParts DEF Later
  <1> QED
    BY <1>1, <1>4, <1>5, <1>6, MakeParts, MakeFromParts

LEMMA MakerMoves ==
    ASSUME MakeInv, NEW h \in Makers, NEW n \in Maker, maker' = [maker EXCEPT ![h] = n], UNCHANGED <<made, saved>>,
           Later(lastRef), names' \subseteq {"status"}, makes' \in 0 .. MaxMakes,
           excused' \subseteq Keys, MakerOK(n),
           Holds(n) => n.ref \in 1 .. lastRef' /\ \A g \in Makers \ {h} : Holds(maker[g]) => maker[g].ref # n.ref,
           \A k \in Keys \ excused' : KeyOK(k)'
    PROVE  MakeInv'
  <1>1. SavedOK' /\ saved' \in [Keys -> Nat]
    BY MakeParts DEF MakeInv, SavedOK
  <1> QED
    BY <1>1, AnswerMoves

LEMMA NotBack == ASSUME MakeInv, UNCHANGED lastRef PROVE Later(lastRef)
  BY MakeParts DEF Later

LEMMA MakeInvInit == MakeInit => MakeInv
  <1> SUFFICES ASSUME MakeInit PROVE MakeInv
    OBVIOUS
  <1>1. \A h \in Makers : maker[h] = Waiting
    BY DEF MakeInit
  <1>2. MakeTypeOK
    <2>1. \A h \in Makers : maker[h].at = "idle"
      BY <1>1, WaitingIsFine
    <2>2. makes \in 0 .. MaxMakes /\ lastRef \in Nat
      BY CreationAssumption DEF MakeInit
    <2> QED
      BY <2>1, <2>2 DEF MakeInit, MakeTypeOK
  <1>3. RefsOK
    BY <1>1, WaitingIsFine DEF MakeInit, RefsOK
  <1>4. SavedOK /\ \A k \in Keys \ excused : KeyOK(k)
    <2>1. \A k \in Keys : Busy(k) = {} /\ Rows(k) = {} /\ saved[k] = 0
      BY <1>1, WaitingIsFine DEF MakeInit, Busy, Rows
    <2> QED
      BY <2>1 DEF SavedOK, KeyOK
  <1>5. \A h \in Makers : MakerOK(maker[h])
    BY <1>1, WaitingIsFine
  <1> QED
    BY <1>2, <1>3, <1>4, <1>5 DEF MakeInv

\* A key the step does not concern: rows and answer are the same.
LEMMA KeyStays ==
    ASSUME MakeInv, NEW h \in Makers, NEW n \in Maker, maker' = [maker EXCEPT ![h] = n], UNCHANGED <<made, saved>>,
           NEW k \in Keys \ excused,
           (n.key = k /\ n.at # "idle") <=> (maker[h].key = k /\ maker[h].at # "idle"),
           n.key = k => (Past(n) <=> Past(maker[h]))
    PROVE  KeyOK(k)'
  <1>1. KeyOK(k)
    BY DEF MakeInv
  <1>2. (Rows(k)' = {} <=> Rows(k) = {}) /\ (\A r, s \in Rows(k)' : r = s)
    BY <1>1 DEF Rows, KeyOK
  <1>3. saved'[k] = saved[k] /\ k \in Keys
    OBVIOUS
  <1> QED
    BY <1>1, <1>2, <1>3, KeyKept

LEMMA MakeReplays ==
    ASSUME MakeInv, UNCHANGED <<lastRef, made, saved, names, maker, excused>>, makes' \in 0 .. MaxMakes
    PROVE  MakeInv'
  <1>1. RefsOK' /\ SavedOK' /\ MakeTypeOK'
    BY DEF MakeInv, RefsOK, SavedOK, MakeTypeOK
  <1>2. \A h \in Makers : MakerOK(maker[h])'
    BY DEF MakeInv, MakerOK
  <1>3. \A k \in Keys \ excused' : KeyOK(k)'
    BY DEF MakeInv, KeyOK, Busy, Rows
  <1> QED
    BY <1>1, <1>2, <1>3 DEF MakeInv

\* A keyed request begins when its key has neither a request nor a row.
LEMMA MakeKeyed ==
    ASSUME MakeInv, NEW h \in Makers, NEW k \in Keys \cup {NoKey}, NEW f \in BOOLEAN, create_keyed(h, k, f)
    PROVE  MakeInv'
  <1> PICK n : n = [Waiting EXCEPT !.at = "alloc", !.op = "one", !.key = k, !.left = 1]
    OBVIOUS
  <1>1. n \in Maker /\ n.at = "alloc" /\ n.op = "one" /\ n.key = k /\ n.left = 1
    BY DEF Waiting, Maker
  <1>2. /\ maker[h].at = "idle" /\ makes < MaxMakes /\ makes' = makes + 1 /\ maker' = [maker EXCEPT ![h] = n]
        /\ UNCHANGED <<lastRef, made, saved, names>> /\ excused \subseteq excused' /\ excused' \subseteq Keys
    BY MakeParts DEF create_keyed, BeginMake
  <1>3. makes' \in 0 .. MaxMakes
    BY <1>2, MakeParts
  <1>4. MakerOK(n) /\ ~Holds(n) /\ ~Past(n)
    BY <1>1 DEF MakerOK, Holds, Past
  <1>5. ASSUME NEW j \in Keys \ excused' PROVE KeyOK(j)'
    <2>1. CASE j # k
      BY <1>1, <1>2, <1>5, <2>1, KeyStays
    <2>2. CASE j = k
      <3>1. ~f /\ Unfinished(k) = {} /\ saved[k] = 0 /\ KeyOK(k)
        BY <1>2, <1>5, <2>2, MakeParts DEF create_keyed, Answered, MakeInv
      <3>2. Busy(k) = {} /\ Rows(k) = {}
        BY <3>1 DEF Unfinished, Busy, KeyOK
      <3>3. maker'[h] = n /\ \A g \in Makers : g # h => maker'[g] = maker[g]
        BY <1>2, MakeParts
      <3>4. \A g \in Busy(k)' : g = h /\ maker'[g].at = "alloc"
        BY <1>1, <3>2, <3>3 DEF Busy
      <3>5. Rows(k)' = {} /\ saved'[k] = 0
        BY <1>2, <3>1, <3>2 DEF Rows
      <3> QED
        BY <2>2, <3>4, <3>5 DEF KeyOK
    <2> QED
      BY <2>1, <2>2
  <1> QED
    BY <1>1, <1>2, <1>3, <1>4, <1>5, MakeParts, NotBack, MakerMoves

LEMMA MakeBatch ==
    ASSUME MakeInv, NEW h \in Makers, NEW c \in 1 .. Batch, bulk_create_issues(h, c) \/ import_rows(h, c)
    PROVE  MakeInv'
  <1>1. PICK n \in Maker : n.key = NoKey /\ n.at \in {"values", "alloc"} /\ BeginMake(h, n)
    <2>1. c \in Nat
      BY MakeParts
    <2>2. CASE bulk_create_issues(h, c)
      <3> DEFINE n == [Waiting EXCEPT !.at = "alloc", !.op = "bulk", !.left = c]
      <3>1. n \in Maker /\ n.key = NoKey /\ n.at = "alloc"
        BY <2>1 DEF Waiting, Maker
      <3>2. BeginMake(h, n)
        BY <2>2 DEF bulk_create_issues
      <3> HIDE DEF n
      <3> QED
        BY <3>1, <3>2
    <2>3. CASE import_rows(h, c)
      <3> DEFINE n == [Waiting EXCEPT !.at = IF names = {} THEN "values" ELSE "alloc", !.op = "import", !.left = c]
      <3>1. n \in Maker /\ n.key = NoKey /\ n.at \in {"values", "alloc"}
        BY <2>1 DEF Waiting, Maker
      <3>2. BeginMake(h, n)
        BY <2>3 DEF import_rows
      <3> HIDE DEF n
      <3> QED
        BY <3>1, <3>2
    <2> QED
      BY <2>2, <2>3
  <1>2. /\ maker[h].at = "idle" /\ makes < MaxMakes /\ makes' = makes + 1 /\ maker' = [maker EXCEPT ![h] = n]
        /\ UNCHANGED <<lastRef, made, saved, names, excused>>
    BY <1>1 DEF bulk_create_issues, import_rows, BeginMake
  <1>3. makes' \in 0 .. MaxMakes
    BY <1>2, MakeParts
  <1>4. MakerOK(n) /\ ~Holds(n)
    BY <1>1, MakeParts DEF MakerOK, Holds
  <1>5. ASSUME NEW j \in Keys \ excused' PROVE KeyOK(j)'
    BY <1>1, <1>2, <1>5, MakeParts, KeyStays
  <1> QED
    BY <1>1, <1>2, <1>3, <1>4, <1>5, MakeParts, NotBack, MakerMoves

\* build_value_map and alloc_ref: a ref beyond every other.
LEMMA MakePrepares ==
    ASSUME MakeInv, NEW h \in Makers, build_value_map(h) \/ alloc_ref(h)
    PROVE  MakeInv'
  <1> PICK m \in Maker : m = maker[h] /\ MakerOK(m)
    BY MakeParts
  <1>1. CASE build_value_map(h)
    <2> PICK n : n = [m EXCEPT !.at = "alloc"]
      OBVIOUS
    <2>1. n \in Maker /\ n.at = "alloc" /\ n.key = m.key /\ n.op = m.op /\ n.left = m.left
      BY DEF Maker
    <2>2. /\ m.at = "values" /\ maker' = [maker EXCEPT ![h] = n] /\ names' \subseteq {"status"}
          /\ UNCHANGED <<lastRef, made, saved, makes, excused>>
      BY <1>1, MakeParts DEF build_value_map
    <2>3. MakerOK(n) /\ ~Holds(n) /\ ~Past(n) /\ ~Past(m)
      BY <2>1, <2>2 DEF MakerOK, Holds, Past
    <2>4. ASSUME NEW j \in Keys \ excused' PROVE KeyOK(j)'
      BY <2>1, <2>2, <2>3, <2>4, KeyStays
    <2> QED
      BY <2>1, <2>2, <2>3, <2>4, MakeParts, NotBack, MakerMoves
  <1>2. CASE alloc_ref(h)
    <2> PICK x \in Nat : x = lastRef + 1
      BY MakeParts
    <2> PICK n : n = [m EXCEPT !.at = "insert", !.ref = x]
      OBVIOUS
    <2>1. n \in Maker /\ n.at = "insert" /\ n.key = m.key /\ n.op = m.op /\ n.left = m.left /\ n.ref = x
      BY DEF Maker
    <2>2. /\ m.at = "alloc" /\ maker' = [maker EXCEPT ![h] = n] /\ lastRef' = lastRef + 1
          /\ UNCHANGED <<made, saved, names, makes, excused>>
      BY <1>2, MakeParts DEF alloc_ref
    <2>3. MakerOK(n) /\ ~Past(n) /\ ~Past(m)
      BY <2>1, <2>2, MakeParts DEF MakerOK, Past
    <2>4. ASSUME NEW j \in Keys \ excused' PROVE KeyOK(j)'
      BY <2>1, <2>2, <2>3, <2>4, KeyStays
    <2>5. n.ref \in 1 .. lastRef' /\ \A g \in Makers \ {h} : Holds(maker[g]) => maker[g].ref # n.ref
      BY <2>1, <2>2, MakeParts DEF MakeInv, RefsOK
    <2>6. Later(lastRef)
      BY <2>2, MakeParts DEF Later
    <2> QED
      BY <2>1, <2>2, <2>3, <2>4, <2>5, <2>6, MakeParts, MakerMoves
  <1> QED
    BY <1>1, <1>2

LEMMA NextRowIsFine ==
    ASSUME MakeInv, NEW m \in Maker, MakerOK(m)
    PROVE  /\ NextRow(m) \in Maker /\ MakerOK(NextRow(m)) /\ ~Holds(NextRow(m)) /\ ~Past(NextRow(m))
           /\ NextRow(m).at = "idle" \/ NextRow(m).key = m.key
           /\ m.key \in Keys => NextRow(m).at = "idle"
           /\ NextRow(m).key \in {m.key, NoKey}
  <1>1. CASE m.left > 1
    <2> PICK x \in Nat : x = m.left - 1
      BY <1>1 DEF Maker
    <2> PICK n : n = [m EXCEPT !.at = "alloc", !.left = x]
      OBVIOUS
    <2>1. n \in Maker /\ n.at = "alloc" /\ n.key = m.key /\ n.op = m.op
      BY DEF Maker
    <2>2. NextRow(m) = n /\ m.key \notin Keys
      BY <1>1 DEF NextRow, MakerOK, Maker
    <2>3. MakerOK(n) /\ ~Holds(n) /\ ~Past(n)
      BY <2>1, <2>2 DEF MakerOK, Holds, Past
    <2> QED
      BY <2>1, <2>2, <2>3
  <1>2. CASE ~(m.left > 1)
    BY <1>2, WaitingIsFine DEF NextRow
  <1> QED
    BY <1>1, <1>2

\* A request fails, or an import leaves a row out.
LEMMA MakeFails ==
    ASSUME MakeInv, NEW h \in Makers, fail_make(h) \/ skip_row(h)
    PROVE  MakeInv'
  <1> PICK m \in Maker : m = maker[h] /\ MakerOK(m)
    BY MakeParts
  <1>1. CASE fail_make(h)
    <2>1. /\ m.at # "idle" /\ maker' = [maker EXCEPT ![h] = Waiting] /\ UNCHANGED <<lastRef, made, saved, names, makes>>
          /\ excused \subseteq excused' /\ (m.key # NoKey /\ Past(m) => m.key \in excused')
      BY <1>1 DEF fail_make, Past
    <2>2. excused' \subseteq Keys
      BY <1>1, MakeParts DEF fail_make, Maker
    <2>3. ASSUME NEW k \in Keys \ excused' PROVE KeyOK(k)'
      <3>1. CASE m.key # k
        BY <2>1, <2>3, <3>1, MakeParts, WaitingIsFine, KeyStays
      <3>2. CASE m.key = k
        <4>1. KeyOK(k) /\ ~Past(m) /\ h \in Busy(k)
          BY <2>1, <2>3, <3>2, MakeParts DEF MakeInv, Busy
        <4>2. Rows(k) = {} /\ saved[k] = 0 /\ \A g \in Busy(k) : g = h
          BY <4>1 DEF KeyOK
        <4>3. maker'[h] = Waiting /\ \A g \in Makers : g # h => maker'[g] = maker[g]
          BY <2>1, MakeParts
        <4>4. Busy(k)' = {}
          BY <4>2, <4>3, WaitingIsFine DEF Busy
        <4>5. Rows(k)' = {} /\ saved'[k] = 0
          BY <2>1, <4>2 DEF Rows
        <4> QED
          BY <4>4, <4>5 DEF KeyOK
      <3> QED
        BY <3>1, <3>2
    <2> QED
      BY <2>1, <2>2, <2>3, MakeParts, NotBack, WaitingIsFine, MakerMoves
  <1>2. CASE skip_row(h)
    <2> PICK n : n = NextRow(m)
      OBVIOUS
    <2>1. /\ m.op = "import" /\ maker' = [maker EXCEPT ![h] = n]
          /\ UNCHANGED <<lastRef, made, saved, names, makes, excused>>
      BY <1>2, MakeParts DEF skip_row
    <2>2. n \in Maker /\ MakerOK(n) /\ ~Holds(n) /\ n.key \notin Keys /\ m.key \notin Keys
      BY <2>1, NextRowIsFine, MakeParts DEF MakerOK
    <2>3. ASSUME NEW k \in Keys \ excused' PROVE KeyOK(k)'
      BY <2>1, <2>2, <2>3, KeyStays
    <2> QED
      BY <2>1, <2>2, <2>3, MakeParts, NotBack, MakerMoves
  <1> QED
    BY <1>1, <1>2

\* The answer is stored: it stands for a row that is whole.
LEMMA MakeRemembers ==
    ASSUME MakeInv, NEW h \in Makers, NEW ok \in BOOLEAN, remember(h, ok)
    PROVE  MakeInv'
  <1> PICK m \in Maker : m = maker[h] /\ MakerOK(m)
    BY MakeParts
  <1>1. /\ m.at = "remember" /\ m.key \in Keys /\ RowOf(m, TRUE) \in made
        /\ maker' = [maker EXCEPT ![h] = Waiting] /\ UNCHANGED <<lastRef, made, names, makes>>
        /\ saved' = IF ok /\ saved[m.key] = 0 THEN [saved EXCEPT ![m.key] = m.ref] ELSE saved
        /\ excused' = IF ok THEN excused ELSE excused \cup {m.key}
    BY DEF remember, MakerOK
  <1>2. m.ref \in Nat \ {0}
    BY <1>1, MakeParts DEF MakeInv, RefsOK, Holds
  <1>3. /\ saved' \in [Keys -> Nat] /\ excused \subseteq excused' /\ excused' \subseteq Keys
        /\ \A k \in Keys : saved'[k] = saved[k] \/ (k = m.key /\ saved'[k] = m.ref)
    BY <1>1, <1>2, MakeParts
  <1>4. SavedOK'
    <2> SUFFICES ASSUME NEW k \in Keys, saved'[k] # 0
                 PROVE  [ref |-> saved'[k], key |-> k, whole |-> TRUE] \in made
      BY <1>1 DEF SavedOK
    <2>1. CASE saved'[k] = saved[k]
      BY <2>1 DEF MakeInv, SavedOK
    <2>2. CASE saved'[k] # saved[k]
      BY <1>1, <1>3, <2>2 DEF RowOf
    <2> QED
      BY <2>1, <2>2
  <1>5. maker'[h] = Waiting /\ \A g \in Makers : g # h => maker'[g] = maker[g]
    BY <1>1, MakeParts
  <1>6. ASSUME NEW k \in Keys \ excused' PROVE KeyOK(k)'
    <2>1. KeyOK(k)
      BY <1>3, <1>6 DEF MakeInv
    <2>2. Rows(k)' = Rows(k)
      BY <1>1 DEF Rows
    <2>3. CASE k # m.key
      <3>1. (Rows(k)' = {} <=> Rows(k) = {}) /\ (\A r, s \in Rows(k)' : r = s) /\ saved'[k] = saved[k]
        BY <1>3, <2>1, <2>2, <2>3 DEF KeyOK
      <3> QED
        BY <1>1, <2>1, <2>3, <3>1, MakeParts, WaitingIsFine, KeyKept
    <2>4. CASE k = m.key
      <3>1. ok /\ h \in Busy(k)
        BY <1>1, <1>6, <2>4 DEF Busy
      <3>2. \A g \in Busy(k) : g = h
        BY <2>1, <3>1 DEF KeyOK
      <3>3. Busy(k)' = {}
        BY <1>5, <3>2, WaitingIsFine DEF Busy
      <3>4. saved'[k] # 0
        BY <1>1, <1>2, <2>4, <3>1, MakeParts
      <3>5. \A r, s \in Rows(k)' : r = s
        BY <2>1, <2>2 DEF KeyOK
      <3> QED
        BY <3>3, <3>4, <3>5 DEF KeyOK
    <2> QED
      BY <2>3, <2>4
  <1> QED
    BY <1>1, <1>3, <1>4, <1>6, MakeParts, NotBack, WaitingIsFine, AnswerMoves

LEMMA KeyExpires ==
    ASSUME MakeInv, NEW x \in Keys, key_expires(x)
    PROVE  MakeInv'
  <1>1. /\ UNCHANGED <<lastRef, made, names, maker, makes>> /\ excused' = excused \cup {x}
        /\ saved' = [saved EXCEPT ![x] = 0]
    BY DEF key_expires
  <1>2. saved' \in [Keys -> Nat] /\ saved'[x] = 0 /\ \A k \in Keys : k # x => saved'[k] = saved[k]
    BY <1>1, MakeParts
  <1>3. RefsOK'
    BY <1>1 DEF MakeInv, RefsOK
  <1>4. SavedOK'
    BY <1>1, <1>2 DEF MakeInv, SavedOK
  <1>5. \A h \in Makers : MakerOK(maker[h])'
    BY <1>1, MakeParts DEF MakerOK
  <1>6. \A k \in Keys \ excused' : KeyOK(k)'
    BY <1>1, <1>2 DEF MakeInv, KeyOK, Busy, Rows
  <1>7. excused' \subseteq Keys /\ \A r \in made' : r.ref \in 1 .. lastRef'
    BY <1>1, MakeParts
  <1> QED
    BY <1>1, <1>2, <1>3, <1>4, <1>5, <1>6, <1>7, MakeParts, MakeFromParts

\* INSERT: the first row of its ref, and of its key while the key is clean.
LEMMA MakeInserts ==
    ASSUME MakeInv, NEW h \in Makers, insert_issue(h)
    PROVE  MakeInv'
  <1> PICK m \in Maker : m = maker[h] /\ MakerOK(m)
    BY MakeParts
  <1> PICK fresh : fresh = RowOf(m, FALSE)
    OBVIOUS
  <1> PICK n : n = IF m.op = "import" THEN NextRow(m) ELSE [m EXCEPT !.at = "relations"]
    OBVIOUS
  <1>1. /\ m.at = "insert" /\ made' = made \cup {fresh} /\ maker' = [maker EXCEPT ![h] = n]
        /\ UNCHANGED <<lastRef, saved, names, makes, excused>>
    BY MakeParts DEF insert_issue, RowOf
  <1>2. m.ref \in 1 .. lastRef /\ \A r \in made : r.ref # m.ref
    BY <1>1 DEF MakeInv, RefsOK, Holds, MakerOK
  <1>3. fresh \in Made /\ fresh.ref = m.ref /\ fresh.key = m.key
    BY <1>2, MakeParts DEF Made, RowOf, Maker
  <1>4. /\ n \in Maker /\ (m.op = "import" => m.key \notin Keys /\ n.key \notin Keys /\ ~Holds(n) /\ ~Past(n))
        /\ m.op # "import" => n.at = "relations" /\ n.key = m.key /\ n.ref = m.ref /\ n.op = m.op /\ n.left = m.left
        /\ m.op = "import" => MakerOK(n) /\ n.at \in {"alloc", "idle"}
    <2>1. CASE m.op = "import"
      <3>1. n = NextRow(m) /\ m.key \notin Keys
        BY <2>1 DEF MakerOK
      <3>2. n \in Maker /\ MakerOK(n) /\ ~Holds(n) /\ ~Past(n) /\ n.key \in {m.key, NoKey}
        BY <3>1, NextRowIsFine
      <3>3. n.at \in {"alloc", "idle"}
        BY <3>1, WaitingIsFine DEF NextRow, Maker
      <3> QED
        BY <2>1, <3>1, <3>2, <3>3, MakeParts
    <2>2. CASE m.op # "import"
      <3>1. n = [m EXCEPT !.at = "relations"]
        BY <2>2
      <3> QED
        BY <2>2, <3>1 DEF Maker
    <2> QED
      BY <2>1, <2>2
  <1>5. maker'[h] = n /\ maker' \in [Makers -> Maker] /\ \A g \in Makers : g # h => maker'[g] = maker[g]
    BY <1>1, <1>4, MakeParts
  <1>6. made' \subseteq Made /\ \A r \in made' : r.ref \in 1 .. lastRef'
    BY <1>1, <1>2, <1>3, MakeParts
  <1>7. \A g \in Makers : Holds(maker'[g]) => Holds(maker[g]) /\ maker'[g].ref = maker[g].ref
    BY <1>1, <1>4, <1>5 DEF Holds
  <1>8. RefsOK'
    <2>1. \A r, s \in made' : r.ref = s.ref => r = s
      <3>1. \A r, s \in made : r.ref = s.ref => r = s
        BY DEF MakeInv, RefsOK
      <3>2. made' = made \cup {fresh} /\ fresh.ref = m.ref /\ \A r \in made : r.ref # m.ref
        BY <1>1, <1>2, <1>3
      <3>3. ASSUME NEW r \in made', NEW s \in made', r.ref = s.ref PROVE r = s
        <4>1. CASE r = fresh
          BY <3>2, <3>3, <4>1
        <4>2. CASE r # fresh
          <5>1. r \in made /\ s # fresh
            BY <3>2, <3>3, <4>2
          <5> QED
            BY <3>1, <3>2, <3>3, <5>1
        <4> QED
          BY <4>1, <4>2
      <3> QED
        BY <3>3
    <2>2. \A g \in Makers : Holds(maker'[g]) => maker'[g].ref \in 1 .. lastRef'
      BY <1>1, <1>7 DEF MakeInv, RefsOK
    <2>3. \A f, g \in Makers : Holds(maker'[f]) /\ Holds(maker'[g]) /\ maker'[f].ref = maker'[g].ref => f = g
      BY <1>7 DEF MakeInv, RefsOK
    <2> QED
      BY <1>5, <1>6, <2>1, <2>2, <2>3 DEF RefsOK, Holds
  <1>9. SavedOK'
    BY <1>1 DEF MakeInv, SavedOK
  <1>10. ASSUME NEW g \in Makers PROVE MakerOK(maker[g])'
    <2>1. CASE g # h
      <3> PICK x \in Maker : x = maker[g] /\ x = maker'[g] /\ MakerOK(x)
        BY <1>5, <2>1, MakeParts
      <3>1. x.at = "insert" => x.ref # m.ref
        BY <1>1, <2>1 DEF MakeInv, RefsOK, Holds
      <3>2. x.at = "insert" => \A r \in made' : r.ref # x.ref
        BY <1>1, <1>3, <3>1 DEF MakerOK
      <3> QED
        BY <1>1, <3>2 DEF MakerOK, RowOf
    <2>2. CASE g = h /\ m.op = "import"
      BY <1>1, <1>4, <1>5, <2>2 DEF MakerOK
    <2>3. CASE g = h /\ m.op # "import"
      <3>1. RowOf(n, FALSE) \in made'
        BY <1>1, <1>4, <2>3 DEF RowOf
      <3>2. n.key \in Keys => n.op = "one" /\ n.left <= 1
        BY <1>4, <2>3 DEF MakerOK
      <3> QED
        BY <1>4, <1>5, <2>3, <3>1, <3>2 DEF MakerOK, RowOf
    <2> QED
      BY <2>1, <2>2, <2>3
  <1>11. ASSUME NEW k \in Keys \ excused' PROVE KeyOK(k)'
    <2>1. KeyOK(k) /\ saved'[k] = saved[k]
      BY <1>1, <1>11 DEF MakeInv
    <2>2. CASE m.key # k
      <3>1. Rows(k)' = Rows(k)
        BY <1>1, <1>3, <2>2 DEF Rows
      <3>2. (Rows(k)' = {} <=> Rows(k) = {}) /\ (\A r, s \in Rows(k)' : r = s)
        BY <2>1, <3>1 DEF KeyOK
      <3>3. n.key # k
        BY <1>4, <2>2
      <3> QED
        BY <1>1, <1>4, <2>1, <2>2, <3>2, <3>3, KeyKept
    <2>3. CASE m.key = k
      <3>1. m.op # "import" /\ h \in Busy(k) /\ ~Past(m)
        BY <1>1, <1>4, <2>3 DEF Busy, Past
      <3>2. Rows(k) = {} /\ saved[k] = 0 /\ \A g \in Busy(k) : g = h
        BY <2>1, <3>1 DEF KeyOK
      <3>3. Rows(k)' = {fresh}
        BY <1>1, <1>3, <2>3, <3>2 DEF Rows
      <3>4. h \in Busy(k)' /\ Past(maker'[h])
        BY <1>4, <1>5, <2>3, <3>1 DEF Busy, Past
      <3>5. \A g \in Busy(k)' : g = h
        BY <1>5, <3>2 DEF Busy
      <3> QED
        BY <2>1, <3>2, <3>3, <3>4, <3>5 DEF KeyOK, Past
    <2> QED
      BY <2>2, <2>3
  <1> QED
    BY <1>1, <1>6, <1>8, <1>9, <1>10, <1>11, MakeParts, MakeFromParts

\* The relations are written: the row is whole.
LEMMA MakeRelates ==
    ASSUME MakeInv, NEW h \in Makers, set_relations(h)
    PROVE  MakeInv'
  <1> PICK m \in Maker : m = maker[h] /\ MakerOK(m)
    BY MakeParts
  <1> DEFINE W(r) == IF r.ref = m.ref THEN [r EXCEPT !.whole = TRUE] ELSE r
  <1> PICK n : n = IF m.key = NoKey THEN NextRow(m) ELSE [m EXCEPT !.at = "remember"]
    OBVIOUS
  <1>1. /\ m.at = "relations" /\ made' = {W(r) : r \in made} /\ maker' = [maker EXCEPT ![h] = n]
        /\ UNCHANGED <<lastRef, saved, names, makes, excused>>
    BY DEF set_relations
  <1>2. ASSUME NEW r \in made
        PROVE  W(r) \in Made /\ W(r).ref = r.ref /\ W(r).key = r.key /\ (r.ref # m.ref => W(r) = r)
    BY <1>2, MakeParts DEF Made
  <1>3. ASSUME NEW r \in made PROVE [ref |-> r.ref, key |-> r.key, whole |-> TRUE] = r => W(r) = r
    BY <1>3, MakeParts DEF Made
  <1>4. RowOf(m, FALSE) \in made /\ W(RowOf(m, FALSE)) = RowOf(m, TRUE)
    BY <1>1 DEF MakerOK, RowOf
  <1> HIDE DEF W
  <1>5. /\ n \in Maker /\ (m.key = NoKey => n.key = NoKey /\ ~Holds(n) /\ MakerOK(n) /\ n.at \in {"idle", "alloc"})
        /\ m.key # NoKey => n.at = "remember" /\ n.key = m.key /\ n.ref = m.ref /\ n.op = m.op /\ n.left = m.left
    <2>1. CASE m.key = NoKey
      BY <2>1, NextRowIsFine, WaitingIsFine DEF NextRow, Maker
    <2>2. CASE m.key # NoKey
      BY <2>2 DEF Maker
    <2> QED
      BY <2>1, <2>2
  <1>6. maker'[h] = n /\ maker' \in [Makers -> Maker] /\ \A g \in Makers : g # h => maker'[g] = maker[g]
    BY <1>1, <1>5, MakeParts
  <1>7. made' \subseteq Made /\ \A r \in made' : r.ref \in 1 .. lastRef'
    BY <1>1, <1>2, MakeParts
  <1>8. \A g \in Makers : Holds(maker'[g]) => Holds(maker[g]) /\ maker'[g].ref = maker[g].ref
    BY <1>1, <1>5, <1>6 DEF Holds
  <1>9. RefsOK'
    <2>1. \A r, s \in made' : r.ref = s.ref => r = s
      BY <1>1, <1>2 DEF MakeInv, RefsOK
    <2>2. \A g \in Makers : Holds(maker'[g]) => maker'[g].ref \in 1 .. lastRef'
      BY <1>1, <1>8 DEF MakeInv, RefsOK
    <2>3. \A f, g \in Makers : Holds(maker'[f]) /\ Holds(maker'[g]) /\ maker'[f].ref = maker'[g].ref => f = g
      BY <1>8 DEF MakeInv, RefsOK
    <2> QED
      BY <1>6, <1>7, <2>1, <2>2, <2>3 DEF RefsOK, Holds
  <1>10. SavedOK'
    <2> SUFFICES ASSUME NEW k \in Keys, saved[k] # 0
                 PROVE  [ref |-> saved[k], key |-> k, whole |-> TRUE] \in made'
      BY <1>1 DEF SavedOK
    <2> PICK r \in made : r = [ref |-> saved[k], key |-> k, whole |-> TRUE]
      BY DEF MakeInv, SavedOK
    <2>1. W(r) = r
      BY <1>3
    <2> QED
      BY <1>1, <2>1
  <1>11. ASSUME NEW g \in Makers PROVE MakerOK(maker[g])'
    <2>1. CASE g # h
      <3> PICK x \in Maker : x = maker[g] /\ x = maker'[g] /\ MakerOK(x)
        BY <1>6, <2>1, MakeParts
      <3>1. Holds(x) => x.ref # m.ref
        BY <1>1, <2>1 DEF MakeInv, RefsOK, Holds
      <3>2. x.at = "insert" => \A r \in made' : r.ref # x.ref
        BY <1>1, <1>2 DEF MakerOK
      <3>3. \A b : Holds(x) /\ RowOf(x, b) \in made => RowOf(x, b) \in made'
        BY <1>1, <1>2, <3>1 DEF RowOf
      <3> QED
        BY <3>2, <3>3 DEF MakerOK, RowOf, Holds
    <2>2. CASE g = h /\ m.key = NoKey
      BY <1>5, <1>6, <2>2 DEF MakerOK
    <2>3. CASE g = h /\ m.key # NoKey
      <3>1. RowOf(n, TRUE) \in made'
        BY <1>1, <1>4, <1>5, <2>3 DEF RowOf
      <3>2. n.key \in Keys /\ n.op = "one" /\ n.left <= 1
        BY <1>5, <2>3 DEF MakerOK, Maker
      <3> QED
        BY <1>5, <1>6, <2>3, <3>1, <3>2 DEF MakerOK, RowOf
    <2> QED
      BY <2>1, <2>2, <2>3
  <1>12. ASSUME NEW k \in Keys \ excused' PROVE KeyOK(k)'
    <2>1. KeyOK(k) /\ saved'[k] = saved[k]
      BY <1>1, <1>12 DEF MakeInv
    <2>2. (Rows(k)' = {} <=> Rows(k) = {}) /\ (\A r, s \in Rows(k)' : r = s)
      BY <1>1, <1>2, <2>1 DEF KeyOK, Rows
    <2>3. k # NoKey /\ (n.key = k <=> m.key = k) /\ (n.key = k => n.at # "idle" /\ Past(n) /\ Past(m))
      BY <1>1, <1>5, MakeParts DEF Past
    <2> QED
      BY <1>1, <1>5, <2>1, <2>2, <2>3, KeyKept
  <1> QED
    BY <1>1, <1>7, <1>9, <1>10, <1>11, <1>12, MakeParts, MakeFromParts

LEMMA MakeInvStep == MakeInv /\ [MakeNext]_makeVars => MakeInv'
  <1> SUFFICES ASSUME MakeInv, [MakeNext]_makeVars PROVE MakeInv'
    OBVIOUS
  <1>1. CASE UNCHANGED makeVars
    BY <1>1, MakeParts, MakeReplays DEF makeVars
  <1>2. ASSUME NEW h \in Makers, NEW k \in Keys \cup {NoKey}, replay(h, k) PROVE MakeInv'
    <2>1. makes' \in 0 .. MaxMakes
      BY <1>2, MakeParts DEF replay
    <2> QED
      BY <1>2, <2>1, MakeReplays DEF replay
  <1>3. CASE MakeNext
    BY <1>2, <1>3, MakeKeyed, MakeBatch, MakePrepares, MakeInserts, MakeRelates, MakeRemembers, MakeFails, KeyExpires
    DEF MakeNext
  <1> QED
    BY <1>1, <1>3

LEMMA MakeInvariant == MakeSpec => []MakeInv
  BY MakeInvInit, MakeInvStep, PTL DEF MakeSpec

\* A retry under one Idempotency-Key makes no second issue unless something
\* excuses it, a stored answer stands for a whole issue, and no ref is given
\* twice: for any number of keys, handlers, rows and requests.
THEOREM RetriesMakeOne == MakeSpec => [](MakeTypeOK /\ RetryMakesOne)
  <1>1. ASSUME MakeInv PROVE RetryMakesOne
    <2>1. ASSUME NEW k \in Keys \ excused PROVE Cardinality({r \in made : r.key = k}) <= 1
      <3>1. \A r, s \in Rows(k) : r = s
        BY <1>1, <2>1 DEF MakeInv, KeyOK
      <3>2. Rows(k) = {} \/ \E r : Rows(k) = {r}
        BY <3>1
      <3>3. Cardinality(Rows(k)) = 0 \/ Cardinality(Rows(k)) = 1
        BY <3>2, FS_EmptySet, FS_Singleton, Zenon
      <3> QED
        BY <3>3 DEF Rows
    <2>2. ASSUME NEW h \in Makers, maker[h].at = "insert" PROVE RefIsFresh(h)
      BY <1>1, <2>2, MakeParts DEF MakeInv, RefsOK, MakerOK, RefIsFresh, Holds
    <2> QED
      BY <1>1, <2>1, <2>2 DEF RetryMakesOne, MakeInv, SavedOK
  <1> QED
    BY <1>1, MakeInvariant, PTL DEF MakeInv

-----------------------------------------------------------------------------
(* MilestoneDates.                                                         *)

\* A handler about to write holds a patch whose checks passed on the row of
\* the version it read: if that is still the version, on this row.
Day == Calendar \cup {NoDay}
Plan == [at : {"idle", "write"}, ver : Nat, patch : [Fields -> Day \cup {Same}]]

Checked(m) ==
    /\ dates_ok(m["actual_start"], m["actual_end"])
    /\ business_release_ok(effective_end(m["end"], m["actual_end"]), m["business"])

PlanOK(q) ==
    q.at = "write" => q.ver \in 1 .. dver /\ (q.ver = dver => Checked(Expected(dates, q.patch)))

PlansOK ==
    /\ planner \in [Planners -> Plan]
    /\ \A h \in Planners : PlanOK(planner[h])

DateInv == DateTypeOK /\ RefusalIsExplained /\ PlansOK

LEMMA NoPlanIsFine == NoPlan \in Plan /\ PlanOK(NoPlan) /\ NoPlan.at = "idle"
  BY DEF NoPlan, Plan, PlanOK

LEMMA PatchIsTyped ==
    ASSUME NEW q \in DatePatches
    PROVE  Patch(q) \in [Fields -> Day \cup {Same}]
  <1> PICK F \in UNION {kSubset(k, Fields) : k \in 1 .. Width} : q \in [F -> Calendar \cup {NoDay}]
    BY DEF DatePatches
  <1>1. F \subseteq Fields
    BY DEF kSubset
  <1> QED
    BY <1>1 DEF Patch, Day

LEMMA MergedIsTyped ==
    ASSUME NEW d \in [Fields -> Day], NEW p \in [Fields -> Day \cup {Same}]
    PROVE  Merged(d, p) \in [Fields -> Day] /\ Expected(d, p) \in [Fields -> Day] /\ Written(d, p) \in [Fields -> Day]
  <1>1. Merged(d, p) \in [Fields -> Day]
    BY DEF Merged
  <1> PICK m \in [Fields -> Day] : m = Merged(d, p)
    BY <1>1
  <1>2. Expected(d, p) \in [Fields -> Day]
    BY DEF Expected, Day, Fields
  <1> QED
    BY <1>1, <1>2 DEF Written

\* What the handler let through breaks no CHECK, save for the one patch.
LEMMA CheckedIsAccepted ==
    ASSUME NEW d \in [Fields -> Day], NEW p \in [Fields -> Day \cup {Same}], Checked(Expected(d, p)),
           NEW fresh, fresh = Written(d, p)
    PROVE  TableAccepts(fresh) \/ (fresh["business"] # NoDay /\ effective_end(fresh["end"], fresh["actual_end"]) = NoDay)
  <1> PICK m \in [Fields -> Day] : m = Merged(d, p)
    BY MergedIsTyped
  <1> PICK x \in [Fields -> Day] : x = Expected(d, p)
    BY MergedIsTyped
  <1>1. /\ x["end"] = m["end"] /\ x["actual_end"] = m["actual_end"] /\ x["actual_start"] = m["actual_start"]
        /\ x["business"] = IF effective_end(m["end"], m["actual_end"]) = NoDay THEN NoDay ELSE m["business"]
    BY DEF Expected, Fields
  <1>2. Checked(x)
    OBVIOUS
  <1>3. fresh = m \/ fresh = x
    BY DEF Written
  <1> QED
    BY <1>1, <1>2, <1>3 DEF Checked, TableAccepts, dates_ok, business_release_ok, effective_end

\* Completing keeps the CHECKs.
LEMMA CloseIsAccepted ==
    ASSUME MilestoneDatesAssumption, NEW d \in [Fields -> Day], TableAccepts(d),
           NEW fresh, fresh = [d EXCEPT !["actual_end"] = close_end(d)]
    PROVE  fresh \in [Fields -> Day] /\ TableAccepts(fresh)
  <1> PICK c : c = close_end(d)
    OBVIOUS
  <1>1. c \in Day /\ (c = d["actual_end"] \/ (d["actual_end"] = NoDay /\ c = d["end"]
                       /\ (d["actual_start"] = NoDay \/ (c # NoDay /\ c >= d["actual_start"]))))
    BY DEF close_end, Fields
  <1>2. /\ fresh \in [Fields -> Day] /\ fresh["actual_end"] = c /\ fresh["end"] = d["end"]
        /\ fresh["business"] = d["business"] /\ fresh["actual_start"] = d["actual_start"]
    BY <1>1 DEF Fields
  <1> QED
    BY <1>1, <1>2 DEF TableAccepts

LEMMA DateParts ==
    ASSUME DateInv
    PROVE  /\ dates \in [Fields -> Day] /\ closed \in BOOLEAN /\ dver \in Nat /\ plans \in 0 .. MaxPlans
           /\ planner \in [Planners -> Plan] /\ \A h \in Planners : planner[h] \in Plan /\ PlanOK(planner[h])
           /\ TableAccepts(dates) /\ MaxPlans \in Nat
  BY MilestoneDatesAssumption DEF DateInv, DateTypeOK, PlansOK, RefusalIsExplained, Day

\* A new version leaves the handlers under way nothing to write.
LEMMA PlansStay ==
    ASSUME DateInv, dver' = dver + 1
    PROVE  \A q \in Plan : PlanOK(q) => PlanOK(q)'
  BY DateParts DEF PlanOK, Plan

LEMMA DateFromParts ==
    ASSUME dates' \in [Fields -> Day], closed' \in BOOLEAN, dver' \in Nat, plans' \in 0 .. MaxPlans,
           refusal' \in {"none", "orphan"}, TableAccepts(dates)', planner' \in [Planners -> Plan],
           \A h \in Planners : PlanOK(planner[h])'
    PROVE  DateInv'
  BY DEF DateInv, DateTypeOK, PlansOK, RefusalIsExplained, Day, Plan

LEMMA DateInvInit == DateInit => DateInv
  <1> SUFFICES ASSUME DateInit PROVE DateInv
    OBVIOUS
  <1>1. DateTypeOK
    <2>1. \A h \in Planners : planner[h].at = "idle"
      BY NoPlanIsFine DEF DateInit
    <2>2. plans \in 0 .. MaxPlans /\ dver \in Nat
      BY MilestoneDatesAssumption DEF DateInit
    <2> QED
      BY <2>1, <2>2 DEF DateInit, DateTypeOK
  <1>2. RefusalIsExplained
    BY DEF DateInit, RefusalIsExplained, TableAccepts, Fields
  <1>3. PlansOK
    BY NoPlanIsFine DEF DateInit, PlansOK
  <1> QED
    BY <1>1, <1>2, <1>3 DEF DateInv

LEMMA DatesCreated ==
    ASSUME DateInv, NEW d \in [Fields -> Calendar \cup {NoDay}], create_dates(d)
    PROVE  DateInv'
  <1>1. TableAccepts(d)
    BY DEF create_dates, dates_ok, business_release_ok, effective_end, TableAccepts
  <1>2. dver = 0 /\ dates' = d /\ dver' = 1 /\ refusal' = "none" /\ UNCHANGED <<closed, planner>>
    BY <1>1 DEF create_dates
  <1>3. plans' \in 0 .. MaxPlans
    BY DateParts DEF create_dates
  <1>4. dver' = dver + 1
    BY <1>2
  <1>5. \A h \in Planners : PlanOK(planner[h])'
    BY <1>2, <1>4, DateParts, PlansStay DEF PlanOK
  <1>6. TableAccepts(dates)'
    BY <1>1, <1>2 DEF TableAccepts
  <1> QED
    BY <1>2, <1>3, <1>5, <1>6, DateParts, DateFromParts DEF Day

LEMMA DatesPatched ==
    ASSUME DateInv, NEW h \in Planners, NEW q \in DatePatches, update_dates(h, Patch(q))
    PROVE  DateInv'
  <1> PICK p \in [Fields -> Day \cup {Same}] : p = Patch(q)
    BY PatchIsTyped
  <1> PICK new : new = [at |-> "write", ver |-> dver, patch |-> p]
    OBVIOUS
  <1>1. /\ dver > 0 /\ planner' = [planner EXCEPT ![h] = new] /\ UNCHANGED <<dates, closed, dver>> /\ refusal' = "none"
        /\ plans < MaxPlans /\ plans' = plans + 1
    BY DEF update_dates
  <1>2. Checked(Expected(dates, p))
    BY DEF update_dates, Checked
  <1>3. new \in Plan /\ new.at = "write" /\ new.ver = dver /\ new.patch = p
    BY DateParts DEF Plan
  <1>4. PlanOK(new)
    BY <1>1, <1>2, <1>3, DateParts DEF PlanOK
  <1>5. \A r \in Plan : PlanOK(r) => PlanOK(r)'
    BY <1>1 DEF PlanOK, Checked, Expected, Merged
  <1>6. planner' \in [Planners -> Plan] /\ \A g \in Planners : planner'[g] = new \/ planner'[g] = planner[g]
    BY <1>1, <1>3, DateParts
  <1>7. \A g \in Planners : PlanOK(planner[g])'
    <2> TAKE g \in Planners
    <2> PICK r \in Plan : r = planner'[g]
      BY <1>6
    <2>1. PlanOK(r)'
      BY <1>3, <1>4, <1>5, <1>6, DateParts
    <2> QED
      BY <2>1 DEF PlanOK
  <1>8. plans' \in 0 .. MaxPlans
    BY <1>1, DateParts
  <1>9. TableAccepts(dates)'
    BY <1>1, DateParts DEF TableAccepts
  <1> QED
    BY <1>1, <1>6, <1>7, <1>8, <1>9, DateParts, DateFromParts

\* The UPDATE: of the version that was read, or nothing.
LEMMA DatesWritten ==
    ASSUME DateInv, NEW h \in Planners, update_milestone(h)
    PROVE  DateInv'
  <1> PICK q \in Plan : q = planner[h] /\ PlanOK(q)
    BY DateParts
  <1> PICK fresh : fresh = Written(dates, q.patch)
    OBVIOUS
  <1> PICK hit \in BOOLEAN : hit = (q.ver = dver)
    OBVIOUS
  <1>1. /\ q.at = "write"
        /\ dates' = IF hit /\ TableAccepts(fresh) THEN fresh ELSE dates
        /\ dver' = IF hit /\ TableAccepts(fresh) THEN dver + 1 ELSE dver
        /\ refusal' = IF ~hit \/ TableAccepts(fresh) THEN "none"
                      ELSE IF fresh["business"] # NoDay /\ effective_end(fresh["end"], fresh["actual_end"]) = NoDay
                      THEN "orphan" ELSE "other"
        /\ planner' = [planner EXCEPT ![h] = NoPlan] /\ UNCHANGED <<closed, plans>>
    BY DEF update_milestone
  <1>2. q.patch \in [Fields -> Day \cup {Same}]
    BY DEF Plan
  <1>3. fresh \in [Fields -> Day]
    BY <1>2, DateParts, MergedIsTyped
  <1>4. hit => TableAccepts(fresh) \/ (fresh["business"] # NoDay /\ effective_end(fresh["end"], fresh["actual_end"]) = NoDay)
    <2>1. hit => Checked(Expected(dates, q.patch))
      BY <1>1 DEF PlanOK
    <2>2. dates \in [Fields -> Day]
      BY DateParts
    <2> QED
      BY <1>2, <2>1, <2>2, CheckedIsAccepted
  <1>5. refusal' \in {"none", "orphan"}
    BY <1>1, <1>4
  <1>6. dates' \in [Fields -> Day] /\ dver' \in Nat
    BY <1>1, <1>3, DateParts
  <1>7. TableAccepts(dates)'
    <2>1. dates' = dates \/ (dates' = fresh /\ TableAccepts(fresh))
      BY <1>1
    <2> QED
      BY <2>1, DateParts DEF TableAccepts
  <1>8. planner' \in [Planners -> Plan] /\ \A g \in Planners : planner'[g] = NoPlan \/ planner'[g] = planner[g]
    BY <1>1, DateParts, NoPlanIsFine
  <1>9. \A r \in Plan : PlanOK(r) => PlanOK(r)'
    <2>1. CASE dver' = dver + 1
      BY <2>1, PlansStay
    <2>2. CASE dver' # dver + 1
      BY <1>1, <2>2 DEF PlanOK, Checked, Expected, Merged
    <2> QED
      BY <2>1, <2>2
  <1>10. \A g \in Planners : PlanOK(planner[g])'
    <2> TAKE g \in Planners
    <2> PICK r \in Plan : r = planner'[g]
      BY <1>8
    <2>1. PlanOK(r)'
      BY <1>8, <1>9, DateParts, NoPlanIsFine
    <2> QED
      BY <2>1 DEF PlanOK
  <1>11. closed' \in BOOLEAN /\ plans' \in 0 .. MaxPlans
    BY <1>1, DateParts
  <1> QED
    BY <1>5, <1>6, <1>7, <1>8, <1>10, <1>11, DateFromParts

LEMMA DatesClosed ==
    ASSUME DateInv, close_milestone \/ reopen_milestone
    PROVE  DateInv'
  <1> PICK fresh : fresh = [dates EXCEPT !["actual_end"] = close_end(dates)]
    OBVIOUS
  <1>1. fresh \in [Fields -> Day] /\ TableAccepts(fresh)
    BY DateParts, CloseIsAccepted, MilestoneDatesAssumption
  <1>2. /\ dates' = fresh \/ dates' = dates
        /\ closed' \in BOOLEAN /\ dver' = dver + 1 /\ refusal' = "none" /\ UNCHANGED planner
        /\ plans < MaxPlans /\ plans' = plans + 1
    BY <1>1 DEF close_milestone, reopen_milestone
  <1>3. \A h \in Planners : PlanOK(planner[h])'
    BY <1>2, DateParts, PlansStay DEF PlanOK
  <1>4. plans' \in 0 .. MaxPlans /\ dver' \in Nat
    BY <1>2, DateParts
  <1>5. TableAccepts(dates)' /\ dates' \in [Fields -> Day]
    BY <1>1, <1>2, DateParts DEF TableAccepts
  <1> QED
    BY <1>2, <1>3, <1>4, <1>5, DateParts, DateFromParts

LEMMA DateInvStep == DateInv /\ [DateNext]_dateVars => DateInv'
  <1> SUFFICES ASSUME DateInv, [DateNext]_dateVars PROVE DateInv'
    OBVIOUS
  <1>1. CASE UNCHANGED dateVars
    BY <1>1 DEF dateVars, DateInv, DateTypeOK, RefusalIsExplained, PlansOK, PlanOK, TableAccepts, Checked, Expected, Merged
  <1>2. CASE DateNext
    BY <1>2, DatesCreated, DatesPatched, DatesWritten, DatesClosed DEF DateNext
  <1> QED
    BY <1>1, <1>2

LEMMA DateInvariant == DateSpec => []DateInv
  BY DateInvInit, DateInvStep, PTL DEF DateSpec

\* A milestone the handlers let through is one the table takes, a concurrent
\* completion included, except for the one patch that names a business
\* release and removes the technical end: for any calendar and any number of
\* handlers and requests.
THEOREM RefusalsAreExplained == DateSpec => [](DateTypeOK /\ RefusalIsExplained)
  BY DateInvariant, PTL DEF DateInv

-----------------------------------------------------------------------------
(* Finite sets of numbers.                                                 *)

\* A finite set of numbers has a largest one: a counterexample with the
\* fewest elements would lose one of them and stay a counterexample.
LEMMA NatMax ==
    ASSUME NEW S, S \subseteq Nat, S # {}, IsFiniteSet(S)
    PROVE  \E n \in S : \A m \in S : m <= n
  <1> DEFINE HasMax(T) == \E n \in T : \A m \in T : m <= n
             Bad == {T \in SUBSET S : T # {} /\ ~HasMax(T)}
             Sizes == {Cardinality(T) : T \in Bad}
  <1> SUFFICES ASSUME ~HasMax(S) PROVE FALSE
    OBVIOUS
  <1>1. \A T \in SUBSET S : IsFiniteSet(T) /\ Cardinality(T) \in Nat
    BY FS_Subset, FS_CardinalityType
  <1>2. Sizes \subseteq Nat /\ Cardinality(S) \in Sizes
    BY <1>1
  <1>3. PICK n \in Sizes : \A m \in Sizes : n <= m
    <2> HIDE DEF Sizes
    <2> QED
      BY <1>2, NatMin
  <1>4. PICK T \in Bad : Cardinality(T) = n
    BY <1>3
  <1>5. PICK x \in T : x \in Nat
    BY <1>4
  <1>6. T \ {x} \in SUBSET S /\ IsFiniteSet(T) /\ Cardinality(T \ {x}) = Cardinality(T) - 1
    BY <1>1, <1>5, FS_RemoveElement
  <1>7. T \ {x} \notin Bad
    <2>1. Cardinality(T \ {x}) \in Nat /\ Cardinality(T) \in Nat
      BY <1>1, <1>6
    <2>2. ASSUME T \ {x} \in Bad PROVE FALSE
      <3>1. Cardinality(T \ {x}) \in Sizes
        BY <2>2
      <3>2. n <= Cardinality(T \ {x})
        BY <1>3, <3>1, Zenon
      <3> QED
        BY <1>4, <1>6, <2>1, <3>2
    <2> QED
      BY <2>2
  <1>8. CASE T \ {x} = {}
    <2>1. \A m \in T : m <= x
      BY <1>5, <1>8
    <2> QED
      BY <1>5, <2>1
  <1>9. CASE T \ {x} # {}
    <2>1. PICK y \in T \ {x} : \A m \in T \ {x} : m <= y
      BY <1>6, <1>7, <1>9
    <2>2. y \in Nat /\ T \subseteq Nat
      OBVIOUS
    <2>3. CASE y <= x
      <3>1. \A m \in T : m <= x
        BY <1>5, <2>1, <2>2, <2>3
      <3> QED
        BY <1>5, <3>1
    <2>4. CASE x <= y
      <3>1. \A m \in T : m <= y
        BY <1>5, <2>1, <2>2, <2>4
      <3> QED
        BY <2>1, <3>1
    <2> QED
      BY <1>5, <2>2, <2>3, <2>4
  <1> QED
    BY <1>8, <1>9

-----------------------------------------------------------------------------
(* Releases.                                                               *)

Card == [ver : Nat, comps : SUBSET Comps, fix : Pairs, mirror : Vers \cup {NoVer}, text : BOOLEAN]
Patcher == [at : {"idle", "row", "comps", "fix"}, ver : Nat, comps : (SUBSET Comps) \cup {Keep},
            fix : Pairs \cup {Keep}, mirror : Vers \cup {NoVer}, direct : BOOLEAN, text : BOOLEAN]

\* A handler comes to a statement only with something to write.
PatcherOK(p) == (p.at = "comps" => p.comps # Keep) /\ (p.at = "fix" => p.fix # Keep)

RelInv ==
    /\ RelTypeOK /\ MirrorNeedsCause
    /\ version \in [DOMAIN version -> [rel : Rels, ord : Nat]] /\ card \in Card
    /\ patcher \in [Patchers -> Patcher] /\ \A h \in Patchers : PatcherOK(patcher[h])

LEMMA NoPatchIsFine == NoPatch \in Patcher /\ PatcherOK(NoPatch) /\ NoPatch.at = "idle"
  <1>1. ASSUME NEW b \in BOOLEAN
        PROVE  [at |-> "idle", ver |-> 0, comps |-> Keep, fix |-> Keep, mirror |-> NoVer, direct |-> b, text |-> b]
                 \in Patcher
    <2>1. "idle" \in {"idle", "row", "comps", "fix"} /\ 0 \in Nat
      OBVIOUS
    <2> QED
      BY <2>1, Zenon DEF Patcher
  <1>2. NoPatch \in Patcher
    BY <1>1, Zenon DEF NoPatch
  <1>3. NoPatch.at = "idle"
    BY DEF NoPatch
  <1> QED
    BY <1>2, <1>3 DEF PatcherOK

LEMMA PairsAre ==
    ASSUME NEW f \in Pairs
    PROVE  /\ DOMAIN f \subseteq Comps /\ f \in [DOMAIN f -> Vers] /\ FixSet(f) \subseteq Vers
           /\ f # << >> => FixSet(f) # {}
  <1>1. DOMAIN f \subseteq Comps /\ f \in [DOMAIN f -> Vers]
    BY DEF Pairs
  <1>2. DOMAIN f = {} => f = << >>
    BY <1>1
  <1> QED
    BY <1>1, <1>2 DEF FixSet

LEMMA PairsMake ==
    ASSUME NEW S \in SUBSET Comps, NEW f \in [S -> Vers]
    PROVE  f \in Pairs
  BY DEF Pairs

\* The trigger finds the first of the versions.
LEMMA MirrorIsFirst ==
    ASSUME RelInv, NEW f \in Pairs, FixSet(f) \subseteq DOMAIN version, f # << >>,
           NEW v, v = issue_mirror_release_version(f)
    PROVE  v \in FixSet(f) /\ \A w \in FixSet(f) : Earlier(v, w)
  <1> DEFINE F == FixSet(f)
             Ords == {version[w].ord : w \in F}
  <1>1. F # {} /\ F \subseteq Nat /\ \A w \in F : version[w].ord \in Nat
    BY PairsAre, ReleasesAssumption DEF RelInv
  <1> HIDE DEF F
  <1>2. PICK o \in Ords : \A x \in Ords : o <= x
    <2>1. Ords \subseteq Nat /\ Ords # {}
      BY <1>1
    <2> HIDE DEF Ords
    <2> QED
      BY <2>1, NatMin
  <1> DEFINE Firsts == {w \in F : version[w].ord = o}
  <1>3. PICK u \in Firsts : \A w \in Firsts : u <= w
    <2>1. Firsts \subseteq Nat /\ Firsts # {}
      BY <1>1, <1>2
    <2> HIDE DEF Firsts
    <2> QED
      BY <2>1, NatMin
  <1>4. ASSUME NEW w \in F PROVE Earlier(u, w)
    <2>1. o <= version[w].ord /\ version[u].ord = o /\ version[w].ord \in Nat /\ o \in Nat
      BY <1>1, <1>2, <1>3, <1>4
    <2>2. version[w].ord = o => u <= w
      BY <1>3, <1>4
    <2> QED
      BY <2>1, <2>2 DEF Earlier
  <1>5. \E x \in F : \A w \in F : Earlier(x, w)
    BY <1>3, <1>4
  <1>6. v = CHOOSE x \in F : \A w \in F : Earlier(x, w)
    BY DEF issue_mirror_release_version, F
  <1> QED
    BY <1>5, <1>6 DEF F

LEMMA RelParts ==
    ASSUME RelInv
    PROVE  /\ parts \subseteq Comps /\ released \subseteq Rels /\ ships \subseteq Comps \X Rels
           /\ DOMAIN version \subseteq Vers /\ \A v \in DOMAIN version : version[v] \in [rel : released, ord : Nat]
           /\ version \in [DOMAIN version -> [rel : Rels, ord : Nat]]
           /\ card \in Card /\ card.comps \subseteq parts /\ card.mirror \in DOMAIN version \cup {NoVer}
           /\ patcher \in [Patchers -> Patcher] /\ \A h \in Patchers : patcher[h] \in Patcher /\ PatcherOK(patcher[h])
           /\ relOps \in 0 .. MaxRelOps /\ drift \subseteq {"direct", "stale"}
           /\ MaxRelOps \in Nat /\ NoVer \notin Vers /\ Vers \subseteq Nat /\ IsFiniteSet(Vers)
           /\ DOMAIN card.fix \subseteq card.comps /\ FixSet(card.fix) \subseteq DOMAIN version
           /\ card.fix \in Pairs
  BY ReleasesAssumption DEF RelInv, RelTypeOK, MirrorNeedsCause, Card

LEMMA RelFromParts ==
    ASSUME parts' \subseteq Comps, released' \subseteq Rels, ships' \subseteq Comps \X Rels,
           DOMAIN version' \subseteq Vers, \A v \in DOMAIN version' : version'[v] \in [rel : released', ord : Nat],
           version' \in [DOMAIN version' -> [rel : Rels, ord : Nat]],
           card' \in Card, card'.comps \subseteq parts', card'.mirror \in DOMAIN version' \cup {NoVer},
           patcher' \in [Patchers -> Patcher], \A h \in Patchers : PatcherOK(patcher'[h]),
           relOps' \in 0 .. MaxRelOps, drift' \subseteq {"direct", "stale"}, MirrorNeedsCause'
    PROVE  RelInv'
  <1>1. DOMAIN card'.fix \subseteq Comps /\ card'.text \in BOOLEAN
    BY PairsAre DEF Card
  <1>2. \A h \in Patchers : patcher'[h].at \in {"idle", "row", "comps", "fix"}
    BY DEF Patcher
  <1>3. RelTypeOK'
    BY <1>1, <1>2 DEF RelTypeOK
  <1> QED
    BY <1>3 DEF RelInv, PatcherOK

\* The rows or the versions change: where the trigger ran, its finding holds.
LEMMA MirrorHolds ==
    ASSUME RelInv, NEW f \in Pairs, NEW ran \in BOOLEAN, NEW v,
           card'.fix = f, DOMAIN f \subseteq card'.comps, FixSet(f) \subseteq DOMAIN version',
           DOMAIN version' \subseteq DOMAIN version, \A w \in DOMAIN version' : version'[w].ord = version[w].ord,
           ~ran => f = card.fix,
           card'.mirror = IF ran THEN issue_mirror_release_version(f) ELSE v,
           v = card.mirror \/ (v = NoVer /\ card.mirror \notin DOMAIN version'),
           v \in DOMAIN version' \cup {NoVer},
           drift' = IF ran THEN {} ELSE drift
    PROVE  MirrorNeedsCause' /\ card'.mirror \in DOMAIN version' \cup {NoVer}
  <1>1. \A x, y \in DOMAIN version' : Earlier(x, y) => Earlier(x, y)'
    BY DEF Earlier
  <1>2. \A c \in DOMAIN f : f[c] \in FixSet(f)
    BY DEF FixSet
  <1>3. CASE ran
    <2>1. CASE f = << >>
      <3>1. card'.mirror = NoVer /\ card'.fix = << >>
        BY <1>3, <2>1 DEF issue_mirror_release_version
      <3> QED
        BY <3>1 DEF MirrorNeedsCause, FixSet
    <2>2. CASE f # << >>
      <3>1. /\ card'.mirror \in FixSet(f) /\ \A w \in FixSet(f) : Earlier(card'.mirror, w)
        BY <1>3, <2>2, MirrorIsFirst
      <3>2. \A c \in DOMAIN f : Earlier(card.mirror, f[c])'
        BY <1>1, <1>2, <3>1 DEF Earlier
      <3> QED
        BY <3>1, <3>2 DEF MirrorNeedsCause, FixSet, Earlier
    <2> QED
      BY <2>1, <2>2
  <1>4. CASE ~ran
    <2>1. f = card.fix /\ card'.mirror = v /\ drift' = drift
      BY <1>4
    <2>2. ASSUME f # << >>, drift' = {}
          PROVE  card'.mirror \in FixSet(f) /\ \A c \in DOMAIN f : Earlier(card.mirror, f[c])'
      <3>1. card.mirror \in FixSet(f) /\ \A c \in DOMAIN f : Earlier(card.mirror, f[c])
        BY <2>1, <2>2 DEF RelInv, MirrorNeedsCause
      <3>2. card'.mirror = card.mirror
        BY <2>1, <3>1
      <3> QED
        BY <1>1, <1>2, <3>1, <3>2 DEF Earlier
    <2> QED
      BY <2>1, <2>2 DEF MirrorNeedsCause, FixSet, Earlier
  <1> QED
    BY <1>3, <1>4

LEMMA RelInvInit == RelInit => RelInv
  <1> SUFFICES ASSUME RelInit PROVE RelInv
    OBVIOUS
  <1> PICK b \in BOOLEAN : b = FALSE
    OBVIOUS
  <1>1. card = [ver |-> 1, comps |-> {}, fix |-> << >>, mirror |-> NoVer, text |-> b]
    BY Zenon DEF RelInit
  <1>2. << >> \in Pairs
    <2>1. << >> \in [{} -> Vers]
      OBVIOUS
    <2> QED
      BY <2>1, PairsMake
  <1>3. card \in Card /\ card.comps = {} /\ card.fix = << >> /\ card.mirror = NoVer /\ card.text \in BOOLEAN
    BY <1>1, <1>2 DEF Card
  <1>4. version = << >> /\ DOMAIN version = {} /\ version \in [DOMAIN version -> [rel : Rels, ord : Nat]]
    BY DEF RelInit
  <1>5. patcher \in [Patchers -> Patcher] /\ \A h \in Patchers : PatcherOK(patcher[h]) /\ patcher[h].at = "idle"
    BY NoPatchIsFine DEF RelInit
  <1>6. RelTypeOK
    <2>1. relOps \in 0 .. MaxRelOps
      BY ReleasesAssumption DEF RelInit
    <2>2. DOMAIN card.fix = {}
      BY <1>3
    <2> QED
      BY <1>3, <1>4, <1>5, <2>1, <2>2 DEF RelInit, RelTypeOK
  <1>7. MirrorNeedsCause
    BY <1>3 DEF MirrorNeedsCause, FixSet
  <1> QED
    BY <1>3, <1>4, <1>5, <1>6, <1>7 DEF RelInv

\* A step that leaves the issue, its versions and the history alone.
LEMMA RelMoves ==
    ASSUME RelInv, parts' \subseteq Comps, released' \subseteq Rels, ships' \subseteq Comps \X Rels,
           DOMAIN version' \subseteq Vers, \A v \in DOMAIN version' : version'[v] \in [rel : released', ord : Nat],
           version' \in [DOMAIN version' -> [rel : Rels, ord : Nat]],
           DOMAIN version \subseteq DOMAIN version', \A v \in DOMAIN version : version'[v] = version[v],
           patcher' \in [Patchers -> Patcher], \A h \in Patchers : PatcherOK(patcher'[h]),
           relOps' \in 0 .. MaxRelOps, UNCHANGED <<parts, card, drift>>
    PROVE  RelInv'
  <1>1. MirrorNeedsCause'
    <2>1. \A x, y \in DOMAIN version : Earlier(x, y) => Earlier(x, y)'
      BY DEF Earlier
    <2>2. \A c \in DOMAIN card.fix : card.fix[c] \in FixSet(card.fix)
      BY DEF FixSet
    <2>3. ASSUME card.fix # << >>, drift = {}
          PROVE  card.mirror \in FixSet(card.fix) /\ \A c \in DOMAIN card.fix : Earlier(card.mirror, card.fix[c])'
      <3>1. card.mirror \in FixSet(card.fix) /\ \A c \in DOMAIN card.fix : Earlier(card.mirror, card.fix[c])
        BY <2>3 DEF RelInv, MirrorNeedsCause
      <3> QED
        BY <2>1, <2>2, <3>1, RelParts DEF Earlier
    <2> QED
      BY <2>3, RelParts DEF MirrorNeedsCause, FixSet, Earlier
  <1>2. card' \in Card /\ card'.comps \subseteq parts' /\ card'.mirror \in DOMAIN version' \cup {NoVer}
        /\ drift' \subseteq {"direct", "stale"}
    BY RelParts
  <1> QED
    BY <1>1, <1>2, RelFromParts

LEMMA RelSteps == ASSUME RelInv, StepRel PROVE relOps' \in 0 .. MaxRelOps
  BY RelParts DEF StepRel

LEMMA RelLinks ==
    ASSUME RelInv, NEW r \in Rels, NEW c \in Comps, link_component_release(c, r) \/ unlink_component_release(c, r)
    PROVE  RelInv'
  <1>1. StepRel /\ UNCHANGED <<parts, version, released, card, patcher, drift>> /\ ships' \subseteq Comps \X Rels
    BY RelParts DEF link_component_release, unlink_component_release
  <1> QED
    BY <1>1, RelParts, RelSteps, RelMoves

\* A new version comes last in its release.
LEMMA RelVersion ==
    ASSUME RelInv, NEW v \in Vers, NEW r \in Rels, create_version(v, r)
    PROVE  RelInv'
  <1> DEFINE of == {x \in DOMAIN version : version[x].rel = r}
             ords == {version[w].ord : w \in of}
             top == IF ords = {} THEN 0 ELSE CHOOSE n \in ords : \A m \in ords : m <= n
  <1>1. /\ StepRel /\ r \in released /\ v \notin DOMAIN version
        /\ version' = [w \in DOMAIN version \cup {v} |-> IF w = v THEN [rel |-> r, ord |-> top + 1] ELSE version[w]]
        /\ UNCHANGED <<parts, released, ships, card, patcher, drift>>
    BY DEF create_version
  <1>2. top \in Nat
    <2>1. ords \subseteq Nat
      BY RelParts
    <2>2. IsFiniteSet(ords)
      <3>1. IsFiniteSet(of)
        BY RelParts, FS_Subset
      <3> DEFINE f == [w \in of |-> version[w].ord]
      <3>2. f \in Surjection(of, ords)
        BY DEF Surjection
      <3> HIDE DEF f, of, ords
      <3> QED
        BY <3>1, <3>2, FS_Surjection, Zenon
    <2> HIDE DEF ords
    <2>3. ords # {} => \E n \in ords : \A m \in ords : m <= n
      BY <2>1, <2>2, NatMax
    <2> QED
      BY <2>1, <2>3
  <1> HIDE DEF top
  <1>3. PICK x \in Nat : x = top + 1
    BY <1>2
  <1>4. /\ DOMAIN version' = DOMAIN version \cup {v} /\ version'[v] = [rel |-> r, ord |-> x]
        /\ \A w \in DOMAIN version : version'[w] = version[w]
        /\ version' = [w \in DOMAIN version' |-> version'[w]]
    BY <1>1, <1>3
  <1>5. \A w \in DOMAIN version' : version'[w] \in [rel : released', ord : Nat]
    BY <1>1, <1>4, RelParts
  <1>6. version' \in [DOMAIN version' -> [rel : Rels, ord : Nat]]
    BY <1>1, <1>4, <1>5, RelParts
  <1> QED
    BY <1>1, <1>4, <1>5, <1>6, RelParts, RelSteps, RelMoves

LEMMA WithoutIs ==
    ASSUME NEW f \in Pairs, NEW S
    PROVE  /\ Without(f, S) \in Pairs /\ DOMAIN Without(f, S) = DOMAIN f \ S
           /\ \A c \in DOMAIN f \ S : Without(f, S)[c] = f[c]
           /\ DOMAIN f \cap S = {} => Without(f, S) = f
  <1>1. /\ DOMAIN Without(f, S) = DOMAIN f \ S
        /\ \A c \in DOMAIN f \ S : Without(f, S)[c] = f[c]
        /\ Without(f, S) \in [DOMAIN f \ S -> Vers]
    BY PairsAre DEF Without
  <1>2. Without(f, S) \in Pairs
    BY <1>1, PairsAre, PairsMake
  <1>3. ASSUME DOMAIN f \cap S = {} PROVE Without(f, S) = f
    <2>1. DOMAIN f \ S = DOMAIN f
      BY <1>3
    <2> QED
      BY <2>1, PairsAre DEF Without
  <1> QED
    BY <1>1, <1>2, <1>3

LEMMA MirroredIs ==
    ASSUME RelInv, NEW c \in Card, NEW f \in Pairs, NEW ran \in BOOLEAN, FixSet(f) \subseteq DOMAIN version,
           NEW n, n = Mirrored(c, f, ran)
    PROVE  /\ n \in Card /\ n.fix = f /\ n.comps = c.comps /\ n.ver = c.ver
           /\ n.mirror = IF ran THEN issue_mirror_release_version(f) ELSE c.mirror
  <1> PICK m : m = IF ran THEN issue_mirror_release_version(f) ELSE c.mirror
    OBVIOUS
  <1>1. issue_mirror_release_version(f) \in Vers \cup {NoVer}
    <2>1. CASE f = << >>
      BY <2>1 DEF issue_mirror_release_version
    <2>2. CASE f # << >>
      BY <2>2, MirrorIsFirst, PairsAre
    <2> QED
      BY <2>1, <2>2
  <1>2. m \in Vers \cup {NoVer}
    BY <1>1 DEF Card
  <1>3. n = [c EXCEPT !.fix = f, !.mirror = m]
    BY DEF Mirrored
  <1> QED
    BY <1>2, <1>3 DEF Card

LEMMA MirroredKeepsVersion ==
    ASSUME RelInv, NEW c \in Card, NEW f \in Pairs, NEW ran \in BOOLEAN, FixSet(f) \subseteq DOMAIN version
    PROVE  [Mirrored(c, f, ran) EXCEPT !.ver = c.ver] = Mirrored(c, f, ran)
  <1> PICK n : n = Mirrored(c, f, ran)
    OBVIOUS
  <1>1. n \in Card /\ n.ver = c.ver
    BY MirroredIs
  <1> QED
    BY <1>1 DEF Card

\* Rows of the issue go or are replaced, and the trigger runs where any did.
LEMMA RelTriggers ==
    ASSUME RelInv, NEW c \in Card, NEW f \in Pairs, NEW ran \in BOOLEAN,
           card' = Mirrored(c, f, ran) \/ card' = [Mirrored(c, f, ran) EXCEPT !.ver = c.ver], drift' = IF ran THEN {} ELSE drift, ~ran => f = card.fix,
           c.mirror = card.mirror \/ (c.mirror = NoVer /\ card.mirror \notin DOMAIN version'),
           c.mirror \in DOMAIN version' \cup {NoVer}, c.comps \subseteq parts',
           DOMAIN f \subseteq c.comps, FixSet(f) \subseteq DOMAIN version',
           version' = [v \in DOMAIN version' |-> version[v]], DOMAIN version' \subseteq DOMAIN version,
           \A v \in DOMAIN version' : version[v].rel \in released',
           parts' \subseteq parts, released' \subseteq released, ships' \subseteq ships,
           patcher' \in [Patchers -> Patcher], \A h \in Patchers : PatcherOK(patcher'[h]), relOps' \in 0 .. MaxRelOps
    PROVE  RelInv'
  <1>1. /\ card' \in Card /\ card'.fix = f /\ card'.comps = c.comps
        /\ card'.mirror = IF ran THEN issue_mirror_release_version(f) ELSE c.mirror
    <2>1. FixSet(f) \subseteq DOMAIN version
      OBVIOUS
    <2>2. card' = Mirrored(c, f, ran)
      BY <2>1, MirroredKeepsVersion
    <2> QED
      BY <2>1, <2>2, MirroredIs
  <1>2. /\ \A v \in DOMAIN version' : version'[v] \in [rel : released', ord : Nat] /\ version'[v].ord = version[v].ord
        /\ version' \in [DOMAIN version' -> [rel : Rels, ord : Nat]]
    BY RelParts
  <1>3. MirrorNeedsCause' /\ card'.mirror \in DOMAIN version' \cup {NoVer}
    BY <1>1, <1>2, MirrorHolds
  <1>4. drift' \subseteq {"direct", "stale"} /\ DOMAIN version' \subseteq Vers /\ parts' \subseteq Comps
        /\ released' \subseteq Rels /\ ships' \subseteq Comps \X Rels
    BY RelParts
  <1> QED
    BY <1>1, <1>2, <1>3, <1>4, RelFromParts

\* Deleting versions, alone or with their release.
LEMMA RelVersionsGo ==
    ASSUME RelInv, NEW S \in SUBSET DOMAIN version, VersionsGone(S), StepRel,
           version' = [w \in DOMAIN version \ S |-> version[w]], UNCHANGED <<parts, patcher>>,
           released' \subseteq released, ships' \subseteq ships, \A v \in DOMAIN version \ S : version[v].rel \in released'
    PROVE  RelInv'
  <1> PICK gone : gone = {c \in DOMAIN card.fix : card.fix[c] \in S}
    OBVIOUS
  <1> PICK ran \in BOOLEAN : ran <=> gone # {}
    OBVIOUS
  <1> PICK m : m = IF card.mirror \in S THEN NoVer ELSE card.mirror
    OBVIOUS
  <1> PICK c : c = [card EXCEPT !.mirror = m]
    OBVIOUS
  <1> PICK f : f = Without(card.fix, gone)
    OBVIOUS
  <1>1. c \in Card /\ c.mirror = m /\ c.comps = card.comps /\ c.ver = card.ver
    BY RelParts DEF Card
  <1>2. /\ f \in Pairs /\ DOMAIN f = DOMAIN card.fix \ gone /\ \A x \in DOMAIN f : f[x] = card.fix[x]
        /\ gone = {} => f = card.fix
    <2>1. card.fix \in Pairs /\ (gone = {} => DOMAIN card.fix \cap gone = {})
      BY RelParts
    <2>2. /\ f \in Pairs /\ DOMAIN f = DOMAIN card.fix \ gone /\ \A x \in DOMAIN card.fix \ gone : f[x] = card.fix[x]
          /\ DOMAIN card.fix \cap gone = {} => f = card.fix
      BY <2>1, WithoutIs
    <2> QED
      BY <2>1, <2>2
  <1>3. FixSet(f) \subseteq DOMAIN version \ S /\ DOMAIN version' = DOMAIN version \ S
    BY <1>2, RelParts DEF FixSet
  <1>4. card' = [Mirrored(c, f, ran) EXCEPT !.ver = card.ver] /\ drift' = IF ran THEN {} ELSE drift
    BY DEF VersionsGone
  <1>5. card' = [Mirrored(c, f, ran) EXCEPT !.ver = c.ver]
    BY <1>1, <1>4
  <1>6. /\ c.mirror = card.mirror \/ (c.mirror = NoVer /\ card.mirror \notin DOMAIN version')
        /\ c.mirror \in DOMAIN version' \cup {NoVer} /\ c.comps \subseteq parts' /\ DOMAIN f \subseteq c.comps
    BY <1>1, <1>2, <1>3, RelParts
  <1>7. /\ version' = [v \in DOMAIN version' |-> version[v]] /\ DOMAIN version' \subseteq DOMAIN version
        /\ \A v \in DOMAIN version' : version[v].rel \in released'
    BY <1>3
  <1>8. patcher' \in [Patchers -> Patcher] /\ \A h \in Patchers : PatcherOK(patcher'[h])
    BY RelParts
  <1> QED
    BY <1>1, <1>2, <1>3, <1>4, <1>5, <1>6, <1>7, <1>8, RelSteps, RelTriggers

LEMMA RelDeletes ==
    ASSUME RelInv, (\E v \in Vers : delete_version(v)) \/ (\E r \in Rels : delete_release(r))
    PROVE  RelInv'
  <1>1. ASSUME NEW v \in Vers, delete_version(v) PROVE RelInv'
    <2>1. /\ {v} \in SUBSET DOMAIN version /\ VersionsGone({v}) /\ StepRel
          /\ version' = [w \in DOMAIN version \ {v} |-> version[w]]
          /\ UNCHANGED <<parts, patcher>> /\ released' = released /\ ships' = ships
      BY <1>1 DEF delete_version
    <2>2. \A w \in DOMAIN version \ {v} : version[w].rel \in released'
      BY <2>1, RelParts
    <2>3. released' \subseteq released /\ ships' \subseteq ships
      BY <2>1
    <2> QED
      BY <2>1, <2>2, <2>3, RelVersionsGo
  <1>2. ASSUME NEW r \in Rels, delete_release(r) PROVE RelInv'
    <2> PICK gone : gone = {v \in DOMAIN version : version[v].rel = r}
      OBVIOUS
    <2>1. /\ VersionsGone(gone) /\ StepRel /\ version' = [w \in DOMAIN version \ gone |-> version[w]]
          /\ UNCHANGED <<parts, patcher>> /\ released' = released \ {r} /\ ships' \subseteq ships
      BY <1>2 DEF delete_release
    <2>2. \A w \in DOMAIN version \ gone : version[w].rel \in released'
      BY <2>1, RelParts
    <2>3. gone \in SUBSET DOMAIN version /\ released' \subseteq released
      BY <2>1
    <2> QED
      BY <2>1, <2>2, <2>3, RelVersionsGo
  <1> QED
    BY <1>1, <1>2

LEMMA RelComponentGoes ==
    ASSUME RelInv, NEW x \in Comps, delete_component(x)
    PROVE  RelInv'
  <1> PICK ran \in BOOLEAN : ran <=> x \in DOMAIN card.fix
    OBVIOUS
  <1> PICK c : c = [card EXCEPT !.comps = card.comps \ {x}]
    OBVIOUS
  <1> PICK f : f = Without(card.fix, {x})
    OBVIOUS
  <1>1. c \in Card /\ c.mirror = card.mirror /\ c.comps = card.comps \ {x}
    BY RelParts DEF Card
  <1>2. /\ f \in Pairs /\ DOMAIN f = DOMAIN card.fix \ {x} /\ \A y \in DOMAIN f : f[y] = card.fix[y]
        /\ ~ran => f = card.fix
    <2>1. card.fix \in Pairs /\ (~ran => DOMAIN card.fix \cap {x} = {})
      BY RelParts
    <2>2. /\ f \in Pairs /\ DOMAIN f = DOMAIN card.fix \ {x} /\ \A y \in DOMAIN card.fix \ {x} : f[y] = card.fix[y]
          /\ DOMAIN card.fix \cap {x} = {} => f = card.fix
      BY <2>1, WithoutIs
    <2> QED
      BY <2>1, <2>2
  <1>3. /\ card' = Mirrored(c, f, ran) /\ drift' = IF ran THEN {} ELSE drift
        /\ StepRel /\ parts' = parts \ {x} /\ ships' \subseteq ships /\ UNCHANGED <<version, released, patcher>>
    BY DEF delete_component
  <1>4. /\ c.mirror \in DOMAIN version' \cup {NoVer} /\ c.comps \subseteq parts' /\ DOMAIN f \subseteq c.comps
        /\ FixSet(f) \subseteq DOMAIN version' /\ version' = [v \in DOMAIN version' |-> version[v]]
    <2>1. version' = version /\ parts' = parts \ {x}
      BY <1>3
    <2>2. c.mirror \in DOMAIN version \cup {NoVer} /\ c.comps \subseteq parts \ {x} /\ DOMAIN f \subseteq c.comps
      BY <1>1, <1>2, RelParts
    <2>3. \A y \in DOMAIN f : f[y] \in DOMAIN version
      BY <1>2, RelParts DEF FixSet
    <2>4. version = [v \in DOMAIN version |-> version[v]]
      BY RelParts
    <2> QED
      BY <2>1, <2>2, <2>3, <2>4 DEF FixSet
  <1>5. /\ \A v \in DOMAIN version' : version[v].rel \in released'
        /\ DOMAIN version' \subseteq DOMAIN version /\ parts' \subseteq parts /\ released' \subseteq released
        /\ patcher' \in [Patchers -> Patcher] /\ \A h \in Patchers : PatcherOK(patcher'[h])
    BY <1>3, RelParts
  <1> QED
    BY <1>1, <1>2, <1>3, <1>4, <1>5, RelSteps, RelTriggers

LEMMA PatchesAre ==
    ASSUME RelInv, NEW p \in Patches
    PROVE  /\ p[1] \in (SUBSET Comps) \cup {Keep} /\ p[2] \in Pairs \cup {Keep}
           /\ p[3] \in Vers \cup {NoVer, Keep} /\ p[4] \in BOOLEAN
  <1>1. card.text \in BOOLEAN /\ FALSE \in BOOLEAN
    BY RelParts DEF Card
  <1>2. ASSUME NEW f \in Pairs PROVE DOMAIN f \in SUBSET Comps
    BY PairsAre
  <1>3. PICK t \in BOOLEAN : \/ \E S \in SUBSET Comps : p = <<S, Keep, Keep, t>>
                             \/ \E f \in Pairs : p = <<Keep, f, Keep, t>>
                             \/ \E f \in Pairs : p = <<DOMAIN f, f, Keep, t>>
                             \/ \E v \in Vers \cup {NoVer} : p = <<Keep, Keep, v, t>>
                             \/ p = <<Keep, Keep, Keep, t>>
    BY <1>1, Zenon DEF Patches
  <1> QED
    BY <1>2, <1>3

\* update_issue reads, checks and merges.
LEMMA RelPatches ==
    ASSUME RelInv, NEW h \in Patchers, NEW q \in Patches, patch_issue(h, q[1], q[2], q[3], q[4])
    PROVE  RelInv'
  <1> PICK comps, fix, direct, text : comps = q[1] /\ fix = q[2] /\ direct = q[3] /\ text = q[4]
    OBVIOUS
  <1>1. /\ comps \in (SUBSET Comps) \cup {Keep} /\ fix \in Pairs \cup {Keep}
        /\ direct \in Vers \cup {NoVer, Keep} /\ text \in BOOLEAN
    BY PatchesAre
  <1> PICK v : v = IF direct = Keep THEN card.mirror ELSE direct
    OBVIOUS
  <1> PICK d \in BOOLEAN : d = (direct # Keep)
    OBVIOUS
  <1> PICK n : n = [at |-> "row", ver |-> card.ver, comps |-> comps, fix |-> fix, mirror |-> v, direct |-> d, text |-> text]
    OBVIOUS
  <1>2. /\ StepRel /\ UNCHANGED <<parts, version, released, ships, card, drift>>
        /\ patcher' = [patcher EXCEPT ![h] = n]
    BY DEF patch_issue
  <1>3. n \in Patcher /\ n.at = "row"
    BY <1>1, RelParts DEF Patcher, Card
  <1>4. patcher' \in [Patchers -> Patcher] /\ \A g \in Patchers : PatcherOK(patcher'[g])
    BY <1>2, <1>3, RelParts DEF PatcherOK
  <1> QED
    BY <1>2, <1>4, RelParts, RelSteps, RelMoves

LEMMA RelStops ==
    ASSUME RelInv, NEW h \in Patchers, StopPatch(h)
    PROVE  RelInv'
  <1>1. patcher' = [patcher EXCEPT ![h] = NoPatch] /\ UNCHANGED <<parts, version, released, ships, card, relOps, drift>>
    BY DEF StopPatch
  <1>2. patcher' \in [Patchers -> Patcher] /\ \A g \in Patchers : PatcherOK(patcher'[g])
    BY <1>1, RelParts, NoPatchIsFine
  <1> QED
    BY <1>1, <1>2, RelParts, RelMoves

\* The issue row after update_row_of's UPDATE.
WrittenCard(c, x, m, t) == [c EXCEPT !.ver = x, !.mirror = m, !.text = t]

LEMMA CardWritten ==
    ASSUME NEW c \in Card, NEW x \in Nat, NEW m \in Vers \cup {NoVer}, NEW t \in BOOLEAN
    PROVE  /\ WrittenCard(c, x, m, t) \in Card
           /\ WrittenCard(c, x, m, t).comps = c.comps
           /\ WrittenCard(c, x, m, t).fix = c.fix
           /\ WrittenCard(c, x, m, t).mirror = m
  BY DEF Card, WrittenCard

\* UPDATE issues: where it changes the column, the history says why.
LEMMA RelRowWritten ==
    ASSUME RelInv, NEW h \in Patchers, update_row_of(h)
    PROVE  RelInv'
  <1> PICK p \in Patcher : p = patcher[h]
    BY RelParts
  <1> PICK hit \in BOOLEAN : hit <=> (card.ver = p.ver /\ (p.mirror = NoVer \/ p.mirror \in DOMAIN version))
    OBVIOUS
  <1> DEFINE new == WrittenCard(card, card.ver + 1, p.mirror, p.text)
  <1> PICK n : n = IF ~hit THEN NoPatch ELSE [p EXCEPT !.at = IF p.comps # Keep THEN "comps"
                                                              ELSE IF p.fix # Keep THEN "fix" ELSE "idle"]
    OBVIOUS
  <1>1. /\ card' = IF hit THEN new ELSE card
        /\ patcher' = [patcher EXCEPT ![h] = n] /\ UNCHANGED <<parts, version, released, ships, relOps>>
    BY DEF update_row_of, WrittenCard
  <1>2. drift' = drift \cup (IF hit /\ p.mirror # card.mirror THEN IF p.direct THEN {"direct"} ELSE {"stale"} ELSE {})
    BY DEF update_row_of
  <1>3. /\ drift \subseteq drift' /\ drift' \subseteq {"direct", "stale"}
        /\ drift' = {} => drift = {} /\ (hit => p.mirror = card.mirror)
    BY <1>2, RelParts
  <1>4. new \in Card /\ new.comps = card.comps /\ new.fix = card.fix /\ new.mirror = p.mirror
    <2>1. card.ver + 1 \in Nat /\ p.mirror \in Vers \cup {NoVer} /\ p.text \in BOOLEAN /\ card \in Card
      BY RelParts DEF Card, Patcher
    <2> QED
      BY <2>1, CardWritten
  <1> HIDE DEF new
  <1>5. /\ card' \in Card /\ card'.comps = card.comps /\ card'.fix = card.fix
        /\ card'.mirror \in DOMAIN version' \cup {NoVer} /\ (drift' = {} => card'.mirror = card.mirror)
    BY <1>1, <1>3, <1>4, RelParts
  <1>6. MirrorNeedsCause'
    BY <1>1, <1>3, <1>5 DEF RelInv, MirrorNeedsCause, FixSet, Earlier
  <1>7. n \in Patcher /\ PatcherOK(n)
    <2>1. CASE ~hit
      BY <2>1, NoPatchIsFine
    <2>2. CASE hit
      <3> PICK a : a = IF p.comps # Keep THEN "comps" ELSE IF p.fix # Keep THEN "fix" ELSE "idle"
        OBVIOUS
      <3>1. n = [p EXCEPT !.at = a]
        BY <2>2
      <3>2. n \in Patcher /\ n.at = a /\ n.comps = p.comps /\ n.fix = p.fix
        BY <3>1 DEF Patcher
      <3> QED
        BY <3>2 DEF PatcherOK
    <2> QED
      BY <2>1, <2>2
  <1>8. patcher' \in [Patchers -> Patcher] /\ \A g \in Patchers : PatcherOK(patcher'[g])
    BY <1>1, <1>7, RelParts
  <1>9. /\ card'.comps \subseteq parts' /\ relOps' \in 0 .. MaxRelOps
        /\ \A v \in DOMAIN version' : version'[v] \in [rel : released', ord : Nat]
        /\ parts' \subseteq Comps /\ released' \subseteq Rels /\ ships' \subseteq Comps \X Rels
        /\ DOMAIN version' \subseteq Vers /\ version' \in [DOMAIN version' -> [rel : Rels, ord : Nat]]
    BY <1>1, <1>5, RelParts
  <1> QED
    BY <1>3, <1>5, <1>6, <1>8, <1>9, RelFromParts

\* set_issue_components: the components that go take their versions along.
LEMMA RelComponentsSet ==
    ASSUME RelInv, NEW h \in Patchers, set_issue_components(h)
    PROVE  RelInv'
  <1> PICK p \in Patcher : p = patcher[h] /\ PatcherOK(p)
    BY RelParts
  <1> DEFINE gone == DOMAIN card.fix \ p.comps
  <1> PICK ran \in BOOLEAN : ran <=> gone # {}
    OBVIOUS
  <1> PICK c : c = [card EXCEPT !.comps = p.comps]
    OBVIOUS
  <1> PICK f : f = Without(card.fix, gone)
    OBVIOUS
  <1> PICK n : n = IF p.fix # Keep THEN [p EXCEPT !.at = "fix"] ELSE NoPatch
    OBVIOUS
  <1>1. /\ p.at = "comps" /\ p.comps \subseteq parts /\ card' = Mirrored(c, f, ran)
        /\ patcher' = [patcher EXCEPT ![h] = n] /\ UNCHANGED <<parts, version, released, ships, relOps>>
        /\ drift' = IF ran THEN {} ELSE drift
    BY DEF set_issue_components
  <1>2. p.comps \in SUBSET Comps
    BY <1>1 DEF Patcher, PatcherOK
  <1>3. c \in Card /\ c.mirror = card.mirror /\ c.comps = p.comps
    BY <1>2, RelParts DEF Card
  <1>4. /\ f \in Pairs /\ DOMAIN f = DOMAIN card.fix \ gone /\ \A y \in DOMAIN f : f[y] = card.fix[y]
        /\ ~ran => f = card.fix
    <2>1. card.fix \in Pairs /\ (~ran => DOMAIN card.fix \cap gone = {})
      BY RelParts
    <2> HIDE DEF gone
    <2>2. /\ f \in Pairs /\ DOMAIN f = DOMAIN card.fix \ gone /\ \A y \in DOMAIN card.fix \ gone : f[y] = card.fix[y]
          /\ DOMAIN card.fix \cap gone = {} => f = card.fix
      BY <2>1, WithoutIs
    <2> QED
      BY <2>1, <2>2
  <1>5. n \in Patcher /\ PatcherOK(n)
    <2>1. CASE p.fix # Keep
      <3>1. n = [p EXCEPT !.at = "fix"]
        BY <2>1
      <3>2. n \in Patcher /\ n.at = "fix" /\ n.fix = p.fix
        BY <3>1 DEF Patcher
      <3> QED
        BY <2>1, <3>2 DEF PatcherOK
    <2>2. CASE p.fix = Keep
      BY <2>2, NoPatchIsFine
    <2> QED
      BY <2>1, <2>2
  <1>6. /\ c.mirror \in DOMAIN version' \cup {NoVer} /\ c.comps \subseteq parts' /\ DOMAIN f \subseteq c.comps
        /\ FixSet(f) \subseteq DOMAIN version' /\ version' = [v \in DOMAIN version' |-> version[v]]
    <2>1. DOMAIN f \subseteq p.comps /\ \A y \in DOMAIN f : f[y] \in DOMAIN version
      BY <1>4, RelParts DEF FixSet
    <2> QED
      BY <1>1, <1>3, <2>1, RelParts DEF FixSet
  <1>7. /\ \A v \in DOMAIN version' : version[v].rel \in released'
        /\ DOMAIN version' \subseteq DOMAIN version /\ parts' \subseteq parts /\ released' \subseteq released
        /\ ships' \subseteq ships /\ relOps' \in 0 .. MaxRelOps
        /\ patcher' \in [Patchers -> Patcher] /\ \A g \in Patchers : PatcherOK(patcher'[g])
    BY <1>1, <1>5, RelParts
  <1> QED
    BY <1>1, <1>3, <1>4, <1>6, <1>7, RelTriggers

\* set_issue_component_versions replaces every row.
LEMMA RelVersionsSet ==
    ASSUME RelInv, NEW h \in Patchers, set_issue_component_versions(h)
    PROVE  RelInv'
  <1> PICK p \in Patcher : p = patcher[h] /\ PatcherOK(p)
    BY RelParts
  <1> PICK f : f = [c \in DOMAIN p.fix \cap card.comps |-> p.fix[c]]
    OBVIOUS
  <1> PICK ran \in BOOLEAN : ran <=> (card.fix # << >> \/ f # << >>)
    OBVIOUS
  <1>1. /\ p.at = "fix" /\ FixSet(f) \subseteq DOMAIN version /\ card' = Mirrored(card, f, ran)
        /\ patcher' = [patcher EXCEPT ![h] = NoPatch] /\ UNCHANGED <<parts, version, released, ships, relOps>>
        /\ drift' = IF ran THEN {} ELSE drift
    BY DEF set_issue_component_versions
  <1>2. p.fix \in Pairs
    BY <1>1 DEF Patcher, PatcherOK
  <1>3. f \in Pairs /\ DOMAIN f \subseteq card.comps
    <2>1. f \in [DOMAIN p.fix \cap card.comps -> Vers] /\ DOMAIN p.fix \cap card.comps \in SUBSET Comps
      BY <1>2, PairsAre
    <2> QED
      BY <2>1, PairsMake
  <1>4. ~ran => f = card.fix
    OBVIOUS
  <1>5. /\ card.mirror \in DOMAIN version' \cup {NoVer} /\ card.comps \subseteq parts' /\ card \in Card
        /\ FixSet(f) \subseteq DOMAIN version' /\ version' = [v \in DOMAIN version' |-> version[v]]
    BY <1>1, RelParts
  <1>6. /\ \A v \in DOMAIN version' : version[v].rel \in released'
        /\ DOMAIN version' \subseteq DOMAIN version /\ parts' \subseteq parts /\ released' \subseteq released
        /\ ships' \subseteq ships /\ relOps' \in 0 .. MaxRelOps
        /\ patcher' \in [Patchers -> Patcher] /\ \A g \in Patchers : PatcherOK(patcher'[g])
    BY <1>1, RelParts, NoPatchIsFine
  <1> QED
    BY <1>1, <1>3, <1>4, <1>5, <1>6, RelTriggers

LEMMA RelInvStep == RelInv /\ [RelNext]_relVars => RelInv'
  <1> SUFFICES ASSUME RelInv, [RelNext]_relVars PROVE RelInv'
    OBVIOUS
  <1>1. CASE UNCHANGED relVars
    BY <1>1, RelParts, RelMoves DEF relVars
  <1>2. ASSUME NEW r \in Rels, create_release(r) PROVE RelInv'
    <2>1. StepRel /\ UNCHANGED <<parts, version, ships, card, patcher, drift>>
      BY <1>2 DEF create_release
    <2>2. released \subseteq released' /\ released' \subseteq Rels
      BY <1>2, RelParts DEF create_release
    <2> QED
      BY <2>1, <2>2, RelParts, RelSteps, RelMoves
  <1>3. CASE RelNext
    BY <1>2, <1>3, RelPatches, RelRowWritten, RelComponentsSet, RelVersionsSet, RelStops, RelDeletes, RelVersion,
       RelComponentGoes, RelLinks DEF RelNext
  <1> QED
    BY <1>1, <1>3

LEMMA RelInvariant == RelSpec => []RelInv
  BY RelInvInit, RelInvStep, PTL DEF RelSpec

\* Fix versions belong to components of the issue and to versions that are
\* there, and the column the lists filter by is the first of them unless a
\* patch wrote it: for any number of components, releases and handlers.
THEOREM MirrorsNeedCause == RelSpec => [](RelTypeOK /\ MirrorNeedsCause)
  BY RelInvariant, PTL DEF RelInv

-----------------------------------------------------------------------------
(* Taxonomy.                                                               *)

\* The list without its p-th item.
Cut(list, p) == [k \in 1 .. Len(list) - 1 |-> IF k < p THEN list[k] ELSE list[k + 1]]

\* The list with an item put behind the first q.
Put(list, q, i) == [k \in 1 .. Len(list) + 1 |-> IF k <= q THEN list[k] ELSE IF k = q + 1 THEN i ELSE list[k - 1]]

LEMMA CutIs ==
  ASSUME NEW T, NEW list \in Seq(T), NEW p \in 1 .. Len(list),
         \A j, k \in 1 .. Len(list) : list[j] = list[k] => j = k
  PROVE  /\ RemoveFirst(list, list[p]) = Cut(list, p)
         /\ Cut(list, p) \in Seq(T) /\ Len(Cut(list, p)) = Len(list) - 1
  <1> DEFINE head == SubSeq(list, 1, p - 1)
             tail == SubSeq(list, p + 1, Len(list))
  <1>1. SelectInSeq(list, LAMBDA v : v = list[p]) = p
    <2>1. {i \in 1 .. Len(list) : list[i] = list[p]} = {p}
      OBVIOUS
    <2>2. Min({p}) = p
      BY DEF Min
    <2> QED
      BY <2>1, <2>2 DEF SelectInSeq
  <1>2. RemoveFirst(list, list[p]) = head \o tail
    BY <1>1 DEF RemoveFirst, RemoveAt
  <1>3. \A k \in 1 .. Len(list) : list[k] \in T
    BY ElementOfSeq
  <1>4. /\ head \in Seq(T) /\ Len(head) = p - 1
        /\ \A k \in 1 .. p - 1 : head[k] = list[k]
    BY <1>3, LenProperties, SubSeqProperties
  <1>5. /\ tail \in Seq(T) /\ Len(tail) = Len(list) - p
        /\ \A k \in 1 .. Len(list) - p : tail[k] = list[p + k]
    BY <1>3, LenProperties, SubSeqProperties
  <1> HIDE DEF head, tail
  <1>6. /\ head \o tail \in Seq(T) /\ Len(head \o tail) = Len(list) - 1
        /\ \A k \in 1 .. Len(list) - 1 : (head \o tail)[k] = IF k < p THEN list[k] ELSE list[k + 1]
    <2>1. /\ head \o tail \in Seq(T) /\ Len(head \o tail) = Len(head) + Len(tail)
          /\ \A k \in 1 .. Len(head) + Len(tail) :
               (head \o tail)[k] = IF k <= Len(head) THEN head[k] ELSE tail[k - Len(head)]
      <3>1. head \in Seq(T) /\ tail \in Seq(T)
        BY <1>4, <1>5
      <3> QED
        BY ONLY <3>1, ConcatProperties
    <2>2. Len(list) \in Nat /\ Len(head) + Len(tail) = Len(list) - 1
      BY <1>4, <1>5, LenProperties
    <2>3. ASSUME NEW k \in 1 .. Len(list) - 1
          PROVE  (head \o tail)[k] = IF k < p THEN list[k] ELSE list[k + 1]
      <3>1. CASE k < p
        BY <2>1, <2>2, <3>1, <1>4
      <3>2. CASE ~(k < p)
        <4>1. k - Len(head) \in 1 .. Len(list) - p /\ p + (k - Len(head)) = k + 1 /\ ~(k <= Len(head))
          BY <2>2, <3>2, <1>4
        <4>2. (head \o tail)[k] = tail[k - Len(head)]
          BY <2>1, <2>2, <4>1
        <4>3. tail[k - Len(head)] = list[k + 1]
          BY ONLY <4>1, <1>5
        <4> QED
          BY ONLY <3>2, <4>2, <4>3
      <3> QED
        BY <3>1, <3>2
    <2> QED
      BY <2>1, <2>2, <2>3
  <1>7. Cut(list, p) \in Seq(T) /\ Len(Cut(list, p)) = Len(list) - 1
    BY <1>3, LenProperties DEF Cut
  <1>8. head \o tail = Cut(list, p)
    BY <1>6, <1>7, SeqEqual DEF Cut
  <1> QED
    BY <1>2, <1>7, <1>8

LEMMA PutIs ==
  ASSUME NEW T, NEW list \in Seq(T), NEW i \in T, NEW q \in 0 .. Len(list)
  PROVE  /\ InsertAt(list, q + 1, i) = Put(list, q, i)
         /\ Put(list, q, i) \in Seq(T) /\ Len(Put(list, q, i)) = Len(list) + 1
  <1> DEFINE head == SubSeq(list, 1, q)
             tail == SubSeq(list, q + 1, Len(list))
  <1>1. InsertAt(list, q + 1, i) = head \o <<i>> \o tail
    <2>1. InsertAt(list, q + 1, i) = SubSeq(list, 1, (q + 1) - 1) \o <<i>> \o tail
      BY Zenon DEF InsertAt
    <2>2. PICK r : r = (q + 1) - 1
      OBVIOUS
    <2>3. r = q
      BY <2>2
    <2> QED
      BY <2>1, <2>2, <2>3
  <1>2. \A k \in 1 .. Len(list) : list[k] \in T
    BY ElementOfSeq
  <1>3. /\ head \in Seq(T) /\ Len(head) = q
        /\ \A k \in 1 .. q : head[k] = list[k]
    BY <1>2, LenProperties, SubSeqProperties
  <1>4. /\ tail \in Seq(T) /\ Len(tail) = Len(list) - q
        /\ \A k \in 1 .. Len(list) - q : tail[k] = list[q + k]
    BY <1>2, LenProperties, SubSeqProperties
  <1> HIDE DEF head, tail
  <1>5. /\ head \o <<i>> \in Seq(T) /\ Len(head \o <<i>>) = q + 1
        /\ \A k \in 1 .. q + 1 : (head \o <<i>>)[k] = IF k <= q THEN list[k] ELSE i
    BY <1>3, LenProperties, ConcatProperties
  <1>6. /\ head \o <<i>> \o tail \in Seq(T) /\ Len(head \o <<i>> \o tail) = Len(list) + 1
        /\ \A k \in 1 .. Len(list) + 1 :
             (head \o <<i>> \o tail)[k] = IF k <= q THEN list[k] ELSE IF k = q + 1 THEN i ELSE list[k - 1]
    <2> DEFINE front == head \o <<i>>
    <2> HIDE DEF front
    <2>1. /\ front \in Seq(T) /\ Len(front) = q + 1
          /\ \A k \in 1 .. q + 1 : front[k] = IF k <= q THEN list[k] ELSE i
      BY <1>5 DEF front
    <2>2. /\ front \o tail \in Seq(T) /\ Len(front \o tail) = Len(front) + Len(tail)
          /\ \A k \in 1 .. Len(front) + Len(tail) :
               (front \o tail)[k] = IF k <= Len(front) THEN front[k] ELSE tail[k - Len(front)]
      BY <2>1, <1>4, ConcatProperties
    <2>3. Len(list) \in Nat /\ Len(front) + Len(tail) = Len(list) + 1
      BY <2>1, <1>4, LenProperties
    <2>4. ASSUME NEW k \in 1 .. Len(list) + 1
          PROVE  (front \o tail)[k] = IF k <= q THEN list[k] ELSE IF k = q + 1 THEN i ELSE list[k - 1]
      <3>1. CASE k <= q + 1
        BY <2>1, <2>2, <2>3, <3>1
      <3>2. CASE ~(k <= q + 1)
        <4>1. k - Len(front) \in 1 .. Len(list) - q /\ q + (k - Len(front)) = k - 1 /\ ~(k <= Len(front))
          BY <2>1, <2>3, <3>2
        <4>2. (front \o tail)[k] = tail[k - Len(front)]
          BY <2>2, <2>3, <4>1
        <4>3. tail[k - Len(front)] = list[k - 1]
          BY ONLY <4>1, <1>4
        <4>4. ~(k <= q) /\ k # q + 1
          BY <3>2, <2>3
        <4> QED
          BY ONLY <4>2, <4>3, <4>4
      <3> QED
        BY <3>1, <3>2
    <2> QED
      BY <2>2, <2>3, <2>4 DEF front
  <1>7. Put(list, q, i) \in Seq(T) /\ Len(Put(list, q, i)) = Len(list) + 1
    BY <1>2, LenProperties DEF Put
  <1>8. head \o <<i>> \o tail = Put(list, q, i)
    BY <1>6, <1>7, SeqEqual DEF Put
  <1> QED
    BY <1>1, <1>7, <1>8

-----------------------------------------------------------------------------
(* What the invariant says.                                                *)

Moving == {h \in Movers : mover[h].at # "idle"}

\* The requests that have ended; each moves the ranks by one Gap at most.
Ended == taxOps - Cardinality(Moving)

Span(n) == (- Gap * n) .. (Gap * (Cardinality(Items) + n))

\* What a handler read is a list of the items of that moment in their order.
ReadInOrder(m) ==
    /\ DOMAIN m.seen \subseteq Items /\ m.item \in DOMAIN m.seen
    /\ m.list \in SetToSeqs(DOMAIN m.seen)
    /\ \A j, k \in DOMAIN m.list : j < k => m.seen[m.list[j]] <= m.seen[m.list[k]]

MoverOK(m, n) ==
    /\ m.at # "idle" => m.item \in Items
    /\ m.at \in {"clear", "max"} => m.op # "move"
    /\ m.at = "max" => m.op = "create"
    /\ m.at = "move" => ReadInOrder(m) /\ \A i \in DOMAIN m.seen : m.seen[i] \in Span(n)
    /\ m.at = "write" /\ m.op = "create" => m.rank \in Span(n + 1)

Step == [at : {"idle", "move", "clear", "max", "write"}, op : {"none", "move", "create", "update", "delete"},
         item : Items \cup {NoItem}, before : Items \cup {NoItem}, after : Items \cup {NoItem},
         list : Seq(Items), seen : UNION {[S -> Int] : S \in SUBSET Items}, rank : Int, flag : BOOLEAN]

TaxInv ==
    /\ taxOps \in 0 .. MaxTaxOps
    /\ DOMAIN rank \subseteq Items /\ rank = [i \in DOMAIN rank |-> rank[i]]
    /\ default \in DOMAIN rank \cup {NoItem} /\ used \subseteq DOMAIN rank
    /\ mover \in [Movers -> Step]
    /\ IsFiniteSet(Moving) /\ Cardinality(Moving) <= taxOps
    /\ \A i \in DOMAIN rank : rank[i] \in Span(Ended)
    /\ \A h \in Movers : MoverOK(mover[h], Ended)

LEMMA SpanFacts ==
  ASSUME NEW n \in Nat
  PROVE  /\ Span(n) \subseteq Int /\ Span(n) \subseteq Span(n + 1)
         /\ \A r \in Span(n) : r + Gap \in Span(n + 1) /\ r - Gap \in Span(n + 1)
         /\ \A k \in 1 .. Cardinality(Items) : Gap * k \in Span(n)
         /\ Items # {} => Gap \in Span(n)
  <1>1. Cardinality(Items) \in Nat /\ Gap \in Nat /\ Gap > 0
    BY FS_CardinalityType, TaxonomyAssumption
  <1>2. PICK c \in Nat : c = Cardinality(Items)
    BY <1>1
  <1>3. /\ Gap * n \in Nat /\ Gap * (n + 1) = Gap * n + Gap
        /\ Gap * c \in Nat /\ Gap * (c + n) = Gap * c + Gap * n
        /\ Gap * (c + (n + 1)) = Gap * c + Gap * n + Gap
    BY <1>1, <1>2
  <1>4. /\ Span(n) = (-(Gap * n)) .. (Gap * c + Gap * n)
        /\ Span(n + 1) = (-(Gap * n + Gap)) .. (Gap * c + Gap * n + Gap)
    BY <1>1, <1>2, <1>3 DEF Span
  <1>5. \A k \in 1 .. c : Gap * k \in Nat /\ Gap * k <= Gap * c
    BY <1>1
  <1>6. Items # {} => c >= 1
    BY <1>2, FS_EmptySet, TaxonomyAssumption
  <1>7. Items # {} => Gap <= Gap * c
    BY <1>1, <1>5, <1>6
  <1>8. Span(n) \subseteq Int /\ Span(n) \subseteq Span(n + 1)
    <2> DEFINE x == Gap * n
               y == Gap * c + Gap * n
    <2>1. x \in Nat /\ y \in Nat /\ Span(n) = (-x) .. y /\ Span(n + 1) = (-(x + Gap)) .. (y + Gap)
      BY <1>1, <1>3, <1>4
    <2> HIDE DEF x, y
    <2> QED
      BY <2>1, <1>1
  <1>9. \A r \in Span(n) : r + Gap \in Span(n + 1) /\ r - Gap \in Span(n + 1)
    <2> DEFINE x == Gap * n
               y == Gap * c + Gap * n
    <2>1. x \in Nat /\ y \in Nat /\ Span(n) = (-x) .. y /\ Span(n + 1) = (-(x + Gap)) .. (y + Gap)
      BY <1>1, <1>3, <1>4
    <2> HIDE DEF x, y
    <2> QED
      BY <2>1, <1>1
  <1>10. \A k \in 1 .. c : Gap * k \in Span(n)
    BY <1>1, <1>3, <1>4, <1>5
  <1>11. Items # {} => Gap \in Span(n)
    BY <1>1, <1>3, <1>4, <1>7
  <1> QED
    BY <1>2, <1>8, <1>9, <1>10, <1>11

LEMMA SpanGrows ==
  ASSUME NEW n \in Nat, NEW m \in Nat, n <= m
  PROVE  Span(n) \subseteq Span(m)
  <1>1. PICK c \in Nat : c = Cardinality(Items)
    BY FS_CardinalityType, TaxonomyAssumption
  <1>2. Gap * n <= Gap * m /\ Gap * (c + n) <= Gap * (c + m) /\ Gap * n \in Nat /\ Gap * m \in Nat
    BY TaxonomyAssumption
  <1> QED
    BY <1>1, <1>2, TaxonomyAssumption DEF Span

\* A rank between two neighbours, or beside one, leaves the span by one Gap.
LEMMA BetweenIs ==
  ASSUME NEW n \in Nat, NEW bs \in SUBSET Span(n), NEW cs \in SUBSET Span(n), Items # {}
  PROVE  /\ rank_between(bs, cs) \subseteq Span(n + 1)
         /\ bs = {} \/ cs = {} => rank_between(bs, cs) # {}
  <1>1. \A b \in bs, a \in cs : Midpoint(b, a) \subseteq Span(n)
    <2> SUFFICES ASSUME NEW b \in bs, NEW a \in cs PROVE Midpoint(b, a) \subseteq Span(n)
      OBVIOUS
    <2>1. a \in Int /\ b \in Int
      BY SpanFacts
    <2>2. PICK x \in Int, y \in Int : Span(n) = x .. y
      BY FS_CardinalityType, TaxonomyAssumption DEF Span
    <2>3. \A x1, y1 \in Int : x1 + (y1 - x1) \div 2 \in Int
      OBVIOUS
    <2>4. \A r \in Midpoint(b, a) : r \in Int /\ ((b < r /\ r < a) \/ (a < r /\ r < b))
      <3>1. CASE b <= a
        BY <3>1, <2>1, <2>3 DEF Midpoint
      <3>2. CASE ~(b <= a)
        BY <3>2, <2>1, <2>3 DEF Midpoint
      <3> QED
        BY <3>1, <3>2
    <2>5. a \in x .. y /\ b \in x .. y
      BY <2>2
    <2> QED
      BY <2>2, <2>4, <2>5
  <1> DEFINE one == {Gap}
             two == {b + Gap : b \in bs}
             three == {a - Gap : a \in cs}
             four == UNION {Midpoint(b, a) : b \in bs, a \in cs}
  <1>3. rank_between(bs, cs) = IF bs = {} /\ cs = {} THEN one ELSE IF cs = {} THEN two
                               ELSE IF bs = {} THEN three ELSE four
    BY DEF rank_between
  <1>4. \A r \in four : \E b \in bs, a \in cs : r \in Midpoint(b, a)
    OBVIOUS
  <1>5. /\ one \subseteq Span(n + 1) /\ two \subseteq Span(n + 1) /\ three \subseteq Span(n + 1)
        /\ one # {} /\ (bs # {} => two # {}) /\ (cs # {} => three # {})
    BY SpanFacts
  <1>6. four \subseteq Span(n)
    BY <1>1, <1>4
  <1> HIDE DEF one, two, three, four
  <1> QED
    BY <1>3, <1>5, <1>6, SpanFacts

LEMMA OrderIs ==
  ASSUME NEW S, IsFiniteSet(S), NEW list \in SetToSeqs(S)
  PROVE  /\ list \in Seq(S) /\ Len(list) = Cardinality(S) /\ Len(list) \in Nat
         /\ DOMAIN list = 1 .. Len(list)
         /\ \A j, k \in 1 .. Len(list) : list[j] = list[k] => j = k
         /\ \A x \in S : \E k \in 1 .. Len(list) : list[k] = x
  <1> DEFINE D == 1 .. Cardinality(S)
  <1>1. Cardinality(S) \in Nat
    BY FS_CardinalityType
  <1>2. list \in [D -> S] /\ \A j, k \in D : j # k => list[j] # list[k]
    BY DEF SetToSeqs
  <1>3. list \in Seq(S) /\ Len(list) = Cardinality(S)
    BY <1>1, <1>2
  <1>4. list \in Injection(D, S)
    BY <1>2 DEF Injection, IsInjective
  <1>5. Cardinality(D) = Cardinality(S)
    BY <1>1, FS_Interval
  <1>6. list \in Surjection(D, S)
    BY <1>4, <1>5, FS_Injection
  <1>7. \A x \in S : \E k \in D : list[k] = x
    BY <1>6 DEF Surjection
  <1> QED
    BY <1>1, <1>2, <1>3, <1>7, LenProperties

-----------------------------------------------------------------------------
(* The invariant: how requests begin, go on and end.                       *)

LEMMA EndedIsNat ==
  ASSUME TaxInv
  PROVE  /\ Cardinality(Moving) \in Nat /\ Ended \in Nat /\ Ended <= taxOps
         /\ \A h \in Movers : mover[h] \in Step /\ MoverOK(mover[h], Ended)
  BY FS_CardinalityType, TaxonomyAssumption DEF TaxInv, Ended

LEMMA LaterIsOK ==
  ASSUME NEW n \in Nat, NEW m, MoverOK(m, n)
  PROVE  MoverOK(m, n + 1)
  <1>1. Span(n) \subseteq Span(n + 1) /\ Span(n + 1) \subseteq Span((n + 1) + 1)
    BY SpanFacts
  <1> QED
    BY <1>1 DEF MoverOK

LEMMA RestingIs == Resting \in Step /\ Resting.at = "idle" /\ \A n : MoverOK(Resting, n)
  <1>1. << >> \in Seq(Items)
    BY EmptySeq
  <1>2. << >> \in [{} -> Int]
    <2>1. << >> \in [1 .. 0 -> Int]
      BY EmptySeq, LenProperties
    <2> QED
      BY <2>1
  <1>3. << >> \in UNION {[S -> Int] : S \in SUBSET Items}
    <2>1. {} \in SUBSET Items
      OBVIOUS
    <2> QED
      BY <1>2, <2>1
  <1>4. Resting \in Step
    BY <1>1, <1>3 DEF Resting, Step
  <1>5. Resting.at = "idle"
    BY DEF Resting
  <1> QED
    BY <1>4, <1>5 DEF MoverOK

LEMMA BeginKeeps ==
  ASSUME TaxInv, NEW h \in Movers, NEW m \in Step, m.at # "idle", MoverOK(m, Ended), BeginTax(h, m),
         UNCHANGED <<rank, default, used>>
  PROVE  TaxInv'
  <1>1. mover[h].at = "idle" /\ taxOps' = taxOps + 1 /\ taxOps' \in 0 .. MaxTaxOps
    BY TaxonomyAssumption DEF BeginTax, TaxInv
  <1>2. mover' \in [Movers -> Step] /\ \A g \in Movers : mover'[g] = IF g = h THEN m ELSE mover[g]
    BY DEF BeginTax, TaxInv
  <1>3. Moving' = Moving \cup {h} /\ h \notin Moving
    BY <1>1, <1>2 DEF Moving
  <1>4. IsFiniteSet(Moving') /\ Cardinality(Moving') = Cardinality(Moving) + 1
    BY <1>3, FS_AddElement DEF TaxInv
  <1>5. Ended' = Ended /\ Cardinality(Moving') <= taxOps'
    BY <1>1, <1>4, EndedIsNat DEF Ended, TaxInv
  <1>6. \A g \in Movers : MoverOK(mover'[g], Ended')
    BY <1>2, <1>5, EndedIsNat
  <1> QED
    BY <1>1, <1>2, <1>4, <1>5, <1>6 DEF TaxInv, Span

LEMMA GoOnKeeps ==
  ASSUME TaxInv, NEW h \in Movers, NEW m \in Step, m.at # "idle", MoverOK(m, Ended), mover[h].at # "idle",
         mover' = [mover EXCEPT ![h] = m], default' \in DOMAIN rank \cup {NoItem}, UNCHANGED <<rank, used, taxOps>>
  PROVE  TaxInv'
  <1>1. mover' \in [Movers -> Step] /\ \A g \in Movers : mover'[g] = IF g = h THEN m ELSE mover[g]
    BY DEF TaxInv
  <1>2. Moving' = Moving
    BY <1>1 DEF Moving
  <1>3. Ended' = Ended
    BY <1>2 DEF Ended
  <1>4. \A g \in Movers : MoverOK(mover'[g], Ended')
    BY <1>1, <1>3, EndedIsNat
  <1> QED
    BY <1>1, <1>2, <1>3, <1>4 DEF TaxInv, Span

LEMMA EndKeeps ==
  ASSUME TaxInv, NEW h \in Movers, mover[h].at # "idle", EndTax(h), UNCHANGED taxOps,
         DOMAIN rank' \subseteq Items, rank' = [i \in DOMAIN rank' |-> rank'[i]],
         \A i \in DOMAIN rank' : rank'[i] \in Span(Ended + 1),
         default' \in DOMAIN rank' \cup {NoItem}, used' \subseteq DOMAIN rank'
  PROVE  TaxInv'
  <1>1. mover' \in [Movers -> Step] /\ \A g \in Movers : mover'[g] = IF g = h THEN Resting ELSE mover[g]
    BY RestingIs DEF TaxInv, EndTax
  <1>2. Moving' = Moving \ {h} /\ h \in Moving
    BY <1>1, RestingIs DEF Moving
  <1>3. IsFiniteSet(Moving') /\ Cardinality(Moving') = Cardinality(Moving) - 1
    BY <1>2, FS_RemoveElement DEF TaxInv
  <1>4. Ended' = Ended + 1 /\ Cardinality(Moving') <= taxOps'
    BY <1>3, EndedIsNat DEF Ended, TaxInv
  <1>5. \A g \in Movers : MoverOK(mover'[g], Ended')
    BY <1>1, <1>4, EndedIsNat, LaterIsOK, RestingIs
  <1>6. \A i \in DOMAIN rank' : rank'[i] \in Span(Ended')
    BY <1>4
  <1>7. taxOps' \in 0 .. MaxTaxOps
    BY DEF TaxInv
  <1> QED
    BY <1>1, <1>3, <1>4, <1>5, <1>6, <1>7 DEF TaxInv, Span

LEMMA AtOnceKeeps ==
  ASSUME TaxInv, taxOps < MaxTaxOps, taxOps' = taxOps + 1, UNCHANGED <<rank, mover>>,
         default' \in DOMAIN rank \cup {NoItem}, used' \subseteq DOMAIN rank
  PROVE  TaxInv'
  <1>1. Moving' = Moving /\ Ended' = Ended + 1 /\ taxOps' \in 0 .. MaxTaxOps /\ Cardinality(Moving') <= taxOps'
    BY EndedIsNat, TaxonomyAssumption DEF Moving, Ended, TaxInv
  <1>2. \A g \in Movers : MoverOK(mover'[g], Ended')
    BY <1>1, EndedIsNat, LaterIsOK
  <1>3. \A i \in DOMAIN rank' : rank'[i] \in Span(Ended')
    BY <1>1, EndedIsNat, SpanFacts DEF TaxInv
  <1> QED
    BY <1>1, <1>2, <1>3 DEF TaxInv, Span

-----------------------------------------------------------------------------
(* The invariant: the actions.                                             *)

LEMMA TaxInvInit == TaxInit => TaxInv
  <1> SUFFICES ASSUME TaxInit PROVE TaxInv
    OBVIOUS
  <1>1. PICK S \in SUBSET Items, first \in Items :
          /\ first \in S /\ Cardinality(S) = Cardinality(Items) - 1
          /\ \E order \in SetToSeqs(S) :
               /\ order[1] = first
               /\ rank = [i \in S |-> Gap * CHOOSE k \in DOMAIN order : order[k] = i]
          /\ default = first
    BY DEF TaxInit
  <1>2. PICK order \in SetToSeqs(S) : rank = [i \in S |-> Gap * CHOOSE k \in DOMAIN order : order[k] = i]
    BY <1>1
  <1>3. IsFiniteSet(S) /\ Cardinality(S) <= Cardinality(Items) /\ Cardinality(Items) \in Nat
    BY FS_Subset, FS_CardinalityType, TaxonomyAssumption
  <1>4. \A i \in S : (CHOOSE k \in DOMAIN order : order[k] = i) \in 1 .. Cardinality(Items)
    BY <1>3, OrderIs
  <1>5. \A i \in S : rank[i] \in Span(0)
    BY <1>2, <1>4, SpanFacts
  <1>6. Moving = {}
    BY RestingIs DEF TaxInit, Moving
  <1>7. IsFiniteSet(Moving) /\ Cardinality(Moving) = 0 /\ taxOps = 0 /\ Ended = 0
    BY <1>6, FS_EmptySet DEF TaxInit, Ended
  <1>8. mover \in [Movers -> Step] /\ \A h \in Movers : MoverOK(mover[h], Ended)
    BY RestingIs DEF TaxInit
  <1>9. DOMAIN rank = S /\ rank = [i \in DOMAIN rank |-> rank[i]]
    BY <1>2
  <1>10. default \in DOMAIN rank \cup {NoItem} /\ used \subseteq DOMAIN rank
    BY <1>1, <1>9 DEF TaxInit
  <1> QED
    BY <1>5, <1>7, <1>8, <1>9, <1>10, TaxonomyAssumption DEF TaxInv

\* Where the moved item, p-th of the list, goes: behind the first q of the others.
Landing(list, i, before, after, p, q) ==
    /\ list[p] = i /\ RemoveFirst(list, i) = Cut(list, p)
    /\ Target(list, i, before, after) = Put(Cut(list, p), q, i)
    /\ \A k \in 1 .. Len(list) - 1 : before # NoItem /\ before = Cut(list, p)[k] => q = k
    /\ before = NoItem /\ after # NoItem /\ Len(list) > 1 /\ after = Cut(list, p)[1] => q = 0

Lands(S, list, i, before, after) ==
    /\ Target(list, i, before, after) \in Seq(S) /\ Len(Target(list, i, before, after)) = Len(list)
    /\ \E p \in 1 .. Len(list), q \in 0 .. Len(list) - 1 : Landing(list, i, before, after, p, q)

LEMMA TargetIs ==
  ASSUME NEW S \in SUBSET Items, NEW list \in SetToSeqs(S), NEW i \in S,
         NEW before \in Items \cup {NoItem}, NEW after \in Items \cup {NoItem}
  PROVE  Lands(S, list, i, before, after)
  <1>1. /\ list \in Seq(S) /\ Len(list) \in Nat /\ DOMAIN list = 1 .. Len(list)
        /\ \A j, k \in 1 .. Len(list) : list[j] = list[k] => j = k
    BY FS_Subset, TaxonomyAssumption, OrderIs
  <1>2. PICK p \in 1 .. Len(list) : list[p] = i
    BY FS_Subset, TaxonomyAssumption, OrderIs
  <1> DEFINE rest == RemoveFirst(list, i)
             at == [x \in ToSet(rest) |-> CHOOSE k \in DOMAIN rest : rest[k] = x]
             q == IF before # NoItem THEN IF before \in ToSet(rest) THEN at[before] ELSE Len(rest)
                  ELSE IF after # NoItem THEN IF after \in ToSet(rest) THEN at[after] - 1 ELSE 0
                  ELSE Len(rest)
  <1>3. Target(list, i, before, after) = InsertAt(rest, q + 1, i)
    BY Zenon DEF Target
  <1>4. rest = Cut(list, p) /\ rest \in Seq(S) /\ Len(rest) = Len(list) - 1
    <2>1. /\ RemoveFirst(list, list[p]) = Cut(list, p)
          /\ Cut(list, p) \in Seq(S) /\ Len(Cut(list, p)) = Len(list) - 1
      BY ONLY <1>1, CutIs
    <2> QED
      BY <2>1, <1>2
  <1> HIDE DEF rest
  <1>5. DOMAIN rest = 1 .. Len(rest) /\ Len(rest) \in Nat
    BY <1>4, LenProperties
  <1>6. \A j, k \in 1 .. Len(rest) : rest[j] = rest[k] => j = k
    BY <1>1, <1>2, <1>4 DEF Cut
  <1>8. \A x \in ToSet(rest) : at[x] \in 1 .. Len(rest) /\ rest[at[x]] = x
    BY <1>5 DEF ToSet
  <1>9. \A k \in 1 .. Len(rest) : rest[k] \in ToSet(rest) /\ at[rest[k]] = k
    BY <1>5, <1>6, <1>8 DEF ToSet
  <1> HIDE DEF at
  <1>10. \A k \in 1 .. Len(rest) : before # NoItem /\ before = rest[k] => q = k
    BY <1>9
  <1>11. q \in 0 .. Len(rest)
    BY <1>5, <1>8
  <1>12. before = NoItem /\ after # NoItem /\ Len(list) > 1 /\ after = rest[1] => q = 0
    BY <1>1, <1>4, <1>9
  <1> HIDE DEF q
  <1>13. /\ Target(list, i, before, after) = Put(rest, q, i) /\ Put(rest, q, i) \in Seq(S)
         /\ Len(Put(rest, q, i)) = Len(list)
    BY <1>3, <1>4, <1>5, <1>11, PutIs
  <1>14. RemoveFirst(list, i) = Cut(list, p)
    BY <1>4 DEF rest
  <1> QED
    BY <1>2, <1>4, <1>10, <1>11, <1>12, <1>13, <1>14 DEF Lands, Landing

LEMMA MoveItemOK ==
  ASSUME TaxInv, NEW h \in Movers, NEW i \in Items, NEW before \in Items \cup {NoItem},
         NEW after \in Items \cup {NoItem}, move_item(h, i, before, after)
  PROVE  TaxInv'
  <1>1. PICK s \in Lists : BeginTax(h, [Resting EXCEPT !.at = "move", !.op = "move", !.item = i,
            !.before = before, !.after = after, !.list = s, !.seen = rank])
    BY DEF move_item
  <1>2. PICK m : m = [Resting EXCEPT !.at = "move", !.op = "move", !.item = i,
            !.before = before, !.after = after, !.list = s, !.seen = rank]
    OBVIOUS
  <1>3. m = [at |-> "move", op |-> "move", item |-> i, before |-> before, after |-> after,
             list |-> s, seen |-> rank, rank |-> 0, flag |-> FALSE]
    BY <1>2 DEF Resting
  <1>4. s \in SetToSeqs(DOMAIN rank) /\ \A j, k \in DOMAIN s : j < k => rank[s[j]] <= rank[s[k]]
    BY DEF Lists
  <1>5. DOMAIN rank \subseteq Items /\ i \in DOMAIN rank /\ \A j \in DOMAIN rank : rank[j] \in Span(Ended)
    BY DEF TaxInv, move_item
  <1>6. s \in Seq(Items)
    BY <1>4, <1>5, FS_Subset, OrderIs, SeqMonotonic, TaxonomyAssumption
  <1>7. rank \in UNION {[S -> Int] : S \in SUBSET Items}
    <2>1. rank \in [DOMAIN rank -> Int]
      BY <1>5, EndedIsNat, SpanFacts DEF TaxInv
    <2> QED
      BY <2>1, <1>5
  <1>8. m \in Step /\ m.at # "idle"
    BY <1>3, <1>6, <1>7 DEF Step
  <1>9. MoverOK(m, Ended)
    BY <1>3, <1>4, <1>5 DEF MoverOK, ReadInOrder
  <1> QED
    BY <1>1, <1>2, <1>8, <1>9, BeginKeeps DEF move_item

LEMMA SetOrderOK ==
  ASSUME TaxInv, NEW h \in Movers, set_order(h)
  PROVE  TaxInv'
  <1> DEFINE m == mover[h]
             room == rank_between(Seen(h, m.before), Seen(h, m.after))
             target == Target(m.list, m.item, m.before, m.after)
             even == normalized_ranks(target)
  <1>1. /\ m \in Step /\ m.at = "move" /\ m.item \in Items /\ ReadInOrder(m)
        /\ \A i \in DOMAIN m.seen : m.seen[i] \in Span(Ended)
    BY EndedIsNat DEF set_order, MoverOK
  <1>2. Seen(h, m.before) \in SUBSET Span(Ended) /\ Seen(h, m.after) \in SUBSET Span(Ended)
    BY <1>1 DEF Seen
  <1>3. room \subseteq Span(Ended + 1)
    BY <1>1, <1>2, BetweenIs, EndedIsNat
  <1>4. target \in Seq(DOMAIN m.seen) /\ Len(target) \in Nat /\ Len(target) <= Cardinality(Items)
    <2>1. /\ m.list \in SetToSeqs(DOMAIN m.seen) /\ DOMAIN m.seen \in SUBSET Items
          /\ m.item \in DOMAIN m.seen
          /\ m.before \in Items \cup {NoItem} /\ m.after \in Items \cup {NoItem}
      BY <1>1 DEF ReadInOrder, Step
    <2>2. target \in Seq(DOMAIN m.seen) /\ Len(target) = Len(m.list)
      <3> HIDE DEF m
      <3>1. Lands(DOMAIN m.seen, m.list, m.item, m.before, m.after)
        BY ONLY <2>1, TargetIs
      <3> QED
        BY <3>1 DEF Lands
    <2>3. Len(m.list) = Cardinality(DOMAIN m.seen) /\ Cardinality(DOMAIN m.seen) <= Cardinality(Items)
      BY <2>1, FS_Subset, OrderIs, TaxonomyAssumption
    <2> QED
      BY <2>2, <2>3, LenProperties
  <1>5. \A i \in DOMAIN even : even[i] \in Span(Ended)
    <2> HIDE DEF target
    <2>1. DOMAIN target = 1 .. Len(target)
      BY <1>4, LenProperties
    <2>2. \A i \in ToSet(target) : (CHOOSE k \in DOMAIN target : target[k] = i) \in 1 .. Cardinality(Items)
      BY <2>1, <1>4, FS_CardinalityType, TaxonomyAssumption DEF ToSet
    <2>3. \A i \in DOMAIN even : even[i] = Gap * CHOOSE k \in DOMAIN target : target[k] = i
      BY DEF normalized_ranks
    <2>4. DOMAIN even = ToSet(target)
      BY DEF normalized_ranks
    <2> QED
      BY <2>2, <2>3, <2>4, EndedIsNat, SpanFacts
  <1>6. rank' = [i \in DOMAIN rank |->
                  IF room # {} THEN IF i = m.item THEN CHOOSE r \in room : TRUE ELSE rank[i]
                  ELSE IF i \in DOMAIN even THEN even[i] ELSE rank[i]]
    BY DEF set_order
  <1> HIDE DEF room, even
  <1>7. \A i \in DOMAIN rank : rank[i] \in Span(Ended + 1) /\ (i \in DOMAIN even => even[i] \in Span(Ended + 1))
    BY <1>5, EndedIsNat, SpanFacts DEF TaxInv
  <1>8. room # {} => (CHOOSE r \in room : TRUE) \in Span(Ended + 1)
    BY <1>3
  <1>9. DOMAIN rank' = DOMAIN rank /\ \A i \in DOMAIN rank' : rank'[i] \in Span(Ended + 1)
    BY <1>6, <1>7, <1>8
  <1>10. rank' = [i \in DOMAIN rank' |-> rank'[i]]
    BY <1>6
  <1>11. EndTax(h) /\ UNCHANGED <<default, used, taxOps>>
    BY DEF set_order
  <1> QED
    BY <1>1, <1>9, <1>10, <1>11, EndKeeps DEF TaxInv

LEMMA CreateItemOK ==
  ASSUME TaxInv, NEW h \in Movers, NEW i \in Items, NEW flag \in BOOLEAN, create_item(h, i, flag)
  PROVE  TaxInv'
  <1>1. PICK at : at = IF flag THEN "clear" ELSE "max"
    OBVIOUS
  <1>2. at \in {"clear", "max", "write"} /\ at # "write" /\ at # "idle"
    BY <1>1
  <1>3. PICK m : m = [Resting EXCEPT !.at = at, !.op = "create", !.item = i, !.flag = flag]
    OBVIOUS
  <1>4. m \in Step /\ MoverOK(m, Ended) /\ m.at = at
    <2>1. m \in Step
      BY <1>2, <1>3, RestingIs, Zenon DEF Step
    <2>2. m.at = at /\ m.op = "create" /\ m.item = i
      BY <1>3 DEF Resting
    <2> QED
      BY <1>2, <2>1, <2>2 DEF MoverOK
  <1>5. BeginTax(h, m)
    BY <1>1, <1>3, Zenon DEF create_item
  <1> QED
    BY <1>2, <1>4, <1>5, BeginKeeps DEF create_item

LEMMA UpdateItemOK ==
  ASSUME TaxInv, NEW h \in Movers, NEW i \in Items, NEW flag \in BOOLEAN, update_item(h, i, flag)
  PROVE  TaxInv'
  <1>1. PICK at : at = IF flag THEN "clear" ELSE "write"
    OBVIOUS
  <1>2. at \in {"clear", "max", "write"} /\ at # "max" /\ at # "idle"
    BY <1>1
  <1>3. PICK m : m = [Resting EXCEPT !.at = at, !.op = "update", !.item = i, !.flag = flag]
    OBVIOUS
  <1>4. m \in Step /\ MoverOK(m, Ended) /\ m.at = at
    <2>1. m \in Step
      BY <1>2, <1>3, RestingIs, Zenon DEF Step
    <2>2. m.at = at /\ m.op = "update" /\ m.item = i
      BY <1>3 DEF Resting
    <2> QED
      BY <1>2, <2>1, <2>2 DEF MoverOK
  <1>5. BeginTax(h, m)
    BY <1>1, <1>3, Zenon DEF update_item
  <1> QED
    BY <1>2, <1>4, <1>5, BeginKeeps DEF update_item

LEMMA DeleteItemOK ==
  ASSUME TaxInv, NEW h \in Movers, NEW i \in Items, delete_item(h, i)
  PROVE  TaxInv'
  <1>1. PICK m : m = [Resting EXCEPT !.at = "write", !.op = "delete", !.item = i]
    OBVIOUS
  <1>2. m = [at |-> "write", op |-> "delete", item |-> i, before |-> NoItem, after |-> NoItem,
             list |-> << >>, seen |-> << >>, rank |-> 0, flag |-> FALSE]
    BY <1>1 DEF Resting
  <1>3. m \in Step
    BY <1>1, RestingIs DEF Step
  <1>4. m.at # "idle" /\ MoverOK(m, Ended)
    BY <1>2 DEF MoverOK
  <1>5. BeginTax(h, m)
    BY <1>1 DEF delete_item
  <1> QED
    BY <1>3, <1>4, <1>5, BeginKeeps DEF delete_item

LEMMA ClearOK ==
  ASSUME TaxInv, NEW h \in Movers, clear_is_new(h)
  PROVE  TaxInv'
  <1>1. PICK at : at = IF mover[h].op = "create" THEN "max" ELSE "write"
    OBVIOUS
  <1>2. PICK m : m = [mover[h] EXCEPT !.at = at]
    OBVIOUS
  <1>3. mover[h] \in Step /\ MoverOK(mover[h], Ended) /\ mover[h].at = "clear"
    BY EndedIsNat DEF clear_is_new
  <1>4. m \in Step /\ m.at = at /\ m.op = mover[h].op /\ m.item = mover[h].item
    BY <1>1, <1>2, <1>3 DEF Step
  <1>5. MoverOK(m, Ended) /\ m.at # "idle"
    BY <1>1, <1>3, <1>4 DEF MoverOK
  <1>6. mover' = [mover EXCEPT ![h] = m]
    BY <1>1, <1>2 DEF clear_is_new, TaxInv
  <1> QED
    BY <1>3, <1>4, <1>5, <1>6, GoOnKeeps DEF clear_is_new

LEMMA MaxOrderOK ==
  ASSUME TaxInv, NEW h \in Movers, max_order(h)
  PROVE  TaxInv'
  <1> DEFINE tops == {q \in {rank[i] : i \in DOMAIN rank} : \A i \in DOMAIN rank : rank[i] <= q}
             r == CHOOSE r \in rank_between(tops, {}) : TRUE
             m == [mover[h] EXCEPT !.at = "write", !.rank = r]
  <1>1. mover[h] \in Step /\ MoverOK(mover[h], Ended) /\ mover[h].at = "max"
    BY EndedIsNat DEF max_order
  <1>2. tops \subseteq Span(Ended)
    BY DEF TaxInv
  <1> HIDE DEF tops
  <1>3. r \in Span(Ended + 1) /\ r \in Int
    <2>1. Ended \in Nat /\ Items # {}
      BY <1>1, EndedIsNat DEF MoverOK
    <2>2. rank_between(tops, {}) \subseteq Span(Ended + 1) /\ rank_between(tops, {}) # {}
      BY <1>2, <2>1, BetweenIs
    <2> QED
      BY <2>1, <2>2, SpanFacts
  <1>4. mover' = [mover EXCEPT ![h] = m]
    <2>1. mover' = [mover EXCEPT ![h].at = "write", ![h].rank = r]
      BY DEF max_order, tops
    <2> HIDE DEF r
    <2> QED
      BY <2>1, <1>1 DEF TaxInv, Step
  <1> HIDE DEF r
  <1>5. m \in Step /\ m.at = "write" /\ m.op = "create" /\ m.item = mover[h].item /\ m.rank = r
    BY <1>1, <1>3 DEF Step, MoverOK
  <1> HIDE DEF m
  <1>6. MoverOK(m, Ended)
    BY <1>1, <1>3, <1>5 DEF MoverOK
  <1>7. default' \in DOMAIN rank \cup {NoItem} /\ UNCHANGED <<rank, used, taxOps>>
    BY DEF max_order, TaxInv
  <1> QED
    BY <1>1, <1>4, <1>5, <1>6, <1>7, GoOnKeeps

LEMMA InsertItemOK ==
  ASSUME TaxInv, NEW h \in Movers, NEW ok \in BOOLEAN, insert_item(h, ok)
  PROVE  TaxInv'
  <1>1. PICK m : m = mover[h]
    OBVIOUS
  <1>2. /\ m \in Step /\ m.at = "write" /\ m.item \in Items /\ m.rank \in Span(Ended + 1)
        /\ EndTax(h) /\ used' = used /\ taxOps' = taxOps
        /\ rank' = IF ok THEN [i \in DOMAIN rank \cup {m.item} |-> IF i = m.item THEN m.rank ELSE rank[i]]
                         ELSE rank
        /\ default' \in {default, m.item} /\ (~ok => default' = default)
    BY <1>1, EndedIsNat DEF insert_item, MoverOK
  <1>3. \A i \in DOMAIN rank : rank[i] \in Span(Ended + 1)
    BY EndedIsNat, SpanFacts DEF TaxInv
  <1>4. DOMAIN rank \subseteq Items /\ default \in DOMAIN rank \cup {NoItem} /\ used \subseteq DOMAIN rank
        /\ rank = [i \in DOMAIN rank |-> rank[i]]
    BY DEF TaxInv
  <1>5. CASE ok
    <2>1. DOMAIN rank' = DOMAIN rank \cup {m.item} /\ \A i \in DOMAIN rank' : rank'[i] \in Span(Ended + 1)
      BY <1>2, <1>3, <1>5
    <2>2. rank' = [i \in DOMAIN rank' |-> rank'[i]]
      BY <1>2, <1>5
    <2> QED
      BY <1>1, <1>2, <1>4, <2>1, <2>2, EndKeeps
  <1>6. CASE ~ok
    BY <1>1, <1>2, <1>3, <1>4, <1>6, EndKeeps
  <1> QED
    BY <1>5, <1>6

LEMMA UpdateRowOK ==
  ASSUME TaxInv, NEW h \in Movers, update_row(h)
  PROVE  TaxInv'
  <1>1. mover[h].at = "write" /\ EndTax(h) /\ rank' = rank /\ used' = used /\ taxOps' = taxOps
        /\ default' \in {default} \cup (DOMAIN rank \cap {mover[h].item})
    BY DEF update_row
  <1>2. \A i \in DOMAIN rank : rank[i] \in Span(Ended + 1)
    BY EndedIsNat, SpanFacts DEF TaxInv
  <1> QED
    BY <1>1, <1>2, EndKeeps DEF TaxInv

LEMMA DeleteRowOK ==
  ASSUME TaxInv, NEW h \in Movers, delete_row(h)
  PROVE  TaxInv'
  <1>1. PICK i : i = mover[h].item
    OBVIOUS
  <1>2. mover[h].at = "write" /\ EndTax(h) /\ taxOps' = taxOps /\ rank' = [j \in DOMAIN rank \ {i} |-> rank[j]]
        /\ used' = used \ {i} /\ default' = IF default = i THEN NoItem ELSE default
    BY <1>1 DEF delete_row
  <1>3. \A j \in DOMAIN rank : rank[j] \in Span(Ended + 1)
    BY EndedIsNat, SpanFacts DEF TaxInv
  <1>4. DOMAIN rank' = DOMAIN rank \ {i} /\ rank' = [j \in DOMAIN rank' |-> rank'[j]]
        /\ \A j \in DOMAIN rank' : rank'[j] \in Span(Ended + 1)
    BY <1>2, <1>3
  <1> QED
    BY <1>2, <1>4, EndKeeps DEF TaxInv

LEMMA StopTaxOK ==
  ASSUME TaxInv, NEW h \in Movers, StopTax(h)
  PROVE  TaxInv'
  <1>1. \A i \in DOMAIN rank : rank[i] \in Span(Ended + 1)
    BY EndedIsNat, SpanFacts DEF TaxInv
  <1> QED
    BY <1>1, EndKeeps DEF TaxInv, StopTax

LEMMA TaxInvStep ==
  ASSUME TaxInv, [TaxNext]_taxVars
  PROVE  TaxInv'
  <1>1. CASE UNCHANGED taxVars
    BY <1>1 DEF taxVars, TaxInv, Moving, Ended, Span, MoverOK, ReadInOrder
  <1>2. ASSUME NEW h \in Movers, clear_default(h) PROVE TaxInv'
    BY <1>2, AtOnceKeeps DEF clear_default, TaxInv
  <1>3. ASSUME NEW h \in Movers, NEW i \in Items, refer(h, i) PROVE TaxInv'
    BY <1>3, AtOnceKeeps DEF refer, TaxInv
  <1> QED
    BY <1>1, <1>2, <1>3, MoveItemOK, SetOrderOK, CreateItemOK, UpdateItemOK, DeleteItemOK, ClearOK, MaxOrderOK,
       InsertItemOK, UpdateRowOK, DeleteRowOK, StopTaxOK DEF TaxNext

LEMMA TaxInvTypes == TaxInv => TaxTypeOK
  <1> SUFFICES ASSUME TaxInv PROVE TaxTypeOK
    OBVIOUS
  <1>1. Ended \in Nat /\ Ended <= MaxTaxOps /\ MaxTaxOps \in Nat
    BY EndedIsNat, TaxonomyAssumption DEF TaxInv
  <1>2. PICK c \in Nat : c = Cardinality(Items)
    BY FS_CardinalityType, TaxonomyAssumption
  <1>3. Span(MaxTaxOps) \subseteq Ranks
    BY <1>1, <1>2, TaxonomyAssumption DEF Span, Ranks
  <1>4. \A i \in DOMAIN rank : rank[i] \in Ranks
    BY <1>1, <1>3, SpanGrows DEF TaxInv
  <1> QED
    BY <1>4, EndedIsNat DEF TaxInv, TaxTypeOK, Step

\* Catalogues keep their types in every interleaving: the default and the
\* items that issues refer to exist, and requests move the ranks by one Gap
\* each at most (move_item, create, update and delete of taxonomy.rs).
THEOREM CataloguesKeepTypes == TaxSpec => []TaxTypeOK
  <1>1. TaxInit => TaxInv
    BY TaxInvInit
  <1>2. TaxInv /\ [TaxNext]_taxVars => TaxInv'
    BY TaxInvStep
  <1>3. TaxInv => TaxTypeOK
    BY TaxInvTypes
  <1> QED
    BY <1>1, <1>2, <1>3, PTL DEF TaxSpec

-----------------------------------------------------------------------------
(* A quiet move.                                                           *)

\* Only set_order ends a move and writes a rank.
LEMMA OnlySetOrder ==
  ASSUME TaxInv, [TaxNext]_taxVars, NEW h \in Movers, mover[h].at = "move", mover'[h].at = "idle", rank' # rank
  PROVE  set_order(h)
  <1>1. TaxNext
    BY DEF taxVars
  <1>2. mover \in [Movers -> Step]
    BY DEF TaxInv
  <1>3. PICK g \in Movers :
          \/ \E i \in Items, b, a \in Items \cup {NoItem} : move_item(g, i, b, a)
          \/ set_order(g)
          \/ \E i \in Items, flag \in BOOLEAN : create_item(g, i, flag) \/ update_item(g, i, flag)
          \/ clear_is_new(g) \/ max_order(g) \/ update_row(g) \/ clear_default(g)
          \/ \E ok \in BOOLEAN : insert_item(g, ok)
          \/ \E i \in Items : refer(g, i) \/ delete_item(g, i)
          \/ delete_row(g) \/ StopTax(g)
    BY <1>1 DEF TaxNext
  <1>4. set_order(g) \/ (\E ok \in BOOLEAN : insert_item(g, ok)) \/ delete_row(g)
    BY <1>3 DEF move_item, create_item, update_item, clear_is_new, max_order, update_row, clear_default, refer,
                delete_item, StopTax
  <1>5. EndTax(g) /\ (mover[g].at = "move" => set_order(g))
    BY <1>4 DEF set_order, insert_item, delete_row
  <1>6. g = h
    BY <1>2, <1>5 DEF EndTax
  <1> QED
    BY <1>5, <1>6

\* What is known when a quiet move writes: where the item was, p-th of n, and
\* where it lands, behind the first q of the others.
Quiet(m, n, p, q) ==
    /\ n \in Nat /\ p \in 1 .. n /\ q \in 0 .. n - 1
    /\ m.list \in Seq(DOMAIN rank) /\ Len(m.list) = n /\ m.list[p] = m.item
    /\ \A j, k \in 1 .. n : j < k => rank[m.list[j]] < rank[m.list[k]]
    /\ \A x \in DOMAIN rank : \E k \in 1 .. n : m.list[k] = x
    /\ Target(m.list, m.item, m.before, m.after) = Put(Cut(m.list, p), q, m.item)
    /\ m.before = IF q = 0 THEN NoItem ELSE Cut(m.list, p)[q]
    /\ m.after = IF q = n - 1 THEN NoItem ELSE Cut(m.list, p)[q + 1]

LEMMA QuietIs ==
  ASSUME TaxInv, NEW h \in Movers, NEW m, m = mover[h], m.at = "move", m.seen = rank, BetweenNeighbours(m),
         \A i, j \in DOMAIN rank : i # j => rank[i] # rank[j]
  PROVE  \E n, p, q : Quiet(m, n, p, q)
  <1>1. m \in Step /\ ReadInOrder(m) /\ \A i \in DOMAIN rank : rank[i] \in Int
    BY EndedIsNat, SpanFacts DEF MoverOK, TaxInv
  <1>2. /\ DOMAIN rank \in SUBSET Items /\ m.item \in DOMAIN rank /\ m.list \in SetToSeqs(DOMAIN rank)
        /\ \A j, k \in DOMAIN m.list : j < k => rank[m.list[j]] <= rank[m.list[k]]
        /\ m.before \in Items \cup {NoItem} /\ m.after \in Items \cup {NoItem}
    BY <1>1 DEF ReadInOrder, Step
  <1>3. PICK n : n = Len(m.list)
    OBVIOUS
  <1>4. /\ m.list \in Seq(DOMAIN rank) /\ n \in Nat /\ DOMAIN m.list = 1 .. n /\ m.list \in [1 .. n -> DOMAIN rank]
        /\ \A j, k \in 1 .. n : m.list[j] = m.list[k] => j = k
        /\ \A x \in DOMAIN rank : \E k \in 1 .. n : m.list[k] = x
    <2>1. IsFiniteSet(DOMAIN rank)
      BY <1>2, FS_Subset, TaxonomyAssumption
    <2>2. /\ m.list \in Seq(DOMAIN rank) /\ n \in Nat /\ DOMAIN m.list = 1 .. n
          /\ \A j, k \in 1 .. n : m.list[j] = m.list[k] => j = k
          /\ \A x \in DOMAIN rank : \E k \in 1 .. n : m.list[k] = x
      <3>1. PICK S, list : S = DOMAIN rank /\ list = m.list
        OBVIOUS
      <3>2. IsFiniteSet(S) /\ list \in SetToSeqs(S)
        BY <1>2, <2>1, <3>1
      <3>3. /\ list \in Seq(S) /\ Len(list) \in Nat /\ DOMAIN list = 1 .. Len(list)
            /\ \A j, k \in 1 .. Len(list) : list[j] = list[k] => j = k
            /\ \A x \in S : \E k \in 1 .. Len(list) : list[k] = x
        BY ONLY <3>2, OrderIs
      <3>4. Len(list) = n
        BY <1>3, <3>1
      <3> QED
        BY ONLY <3>1, <3>3, <3>4
    <2> QED
      BY <1>3, <2>2, LenProperties
  <1>5. \A j, k \in 1 .. n : j < k => rank[m.list[j]] < rank[m.list[k]]
    <2> SUFFICES ASSUME NEW j \in 1 .. n, NEW k \in 1 .. n, j < k PROVE rank[m.list[j]] < rank[m.list[k]]
      OBVIOUS
    <2>1. m.list[j] \in DOMAIN rank /\ m.list[k] \in DOMAIN rank /\ m.list[j] # m.list[k]
      BY ONLY <1>4, j < k
    <2> QED
      <3>1. PICK x, y : x = m.list[j] /\ y = m.list[k]
        OBVIOUS
      <3>2. x \in DOMAIN rank /\ y \in DOMAIN rank /\ x # y
        BY ONLY <2>1, <3>1
      <3>3. rank[x] \in Int /\ rank[y] \in Int /\ rank[x] # rank[y]
        BY <1>1, <3>2
      <3>4. j \in DOMAIN m.list /\ k \in DOMAIN m.list
        BY <1>4
      <3>5. rank[x] <= rank[y]
        BY <1>2, <3>1, <3>4
      <3> QED
        BY ONLY <3>1, <3>3, <3>5
  <1>6. Lands(DOMAIN rank, m.list, m.item, m.before, m.after)
    BY ONLY <1>2, TargetIs
  <1>7. PICK p \in 1 .. n, q \in 0 .. n - 1 : Landing(m.list, m.item, m.before, m.after, p, q)
    BY <1>3, <1>6 DEF Lands
  <1>8. PICK rest : rest = Cut(m.list, p)
    OBVIOUS
  <1>9. /\ m.list[p] = m.item /\ RemoveFirst(m.list, m.item) = rest
        /\ Target(m.list, m.item, m.before, m.after) = Put(Cut(m.list, p), q, m.item)
        /\ \A k \in 1 .. n - 1 : m.before # NoItem /\ m.before = rest[k] => q = k
        /\ m.before = NoItem /\ m.after # NoItem /\ n > 1 /\ m.after = rest[1] => q = 0
    BY <1>3, <1>7, <1>8 DEF Landing
  <1>10. rest \in Seq(DOMAIN rank) /\ Len(rest) = n - 1
    <2>1. PICK list : list = m.list
      OBVIOUS
    <2>2. list \in Seq(DOMAIN rank) /\ p \in 1 .. Len(list) /\ \A j, k \in 1 .. Len(list) : list[j] = list[k] => j = k
      BY <1>3, <1>4, <2>1
    <2>3. Cut(list, p) \in Seq(DOMAIN rank) /\ Len(Cut(list, p)) = Len(list) - 1
      BY ONLY <2>2, CutIs
    <2> QED
      BY <1>3, <1>8, <2>1, <2>3
  <1>11. PICK k \in 0 .. n - 1 : /\ m.before = IF k = 0 THEN NoItem ELSE rest[k]
                                 /\ m.after = IF k = n - 1 THEN NoItem ELSE rest[k + 1]
    <2>1. \E k \in 0 .. Len(RemoveFirst(m.list, m.item)) :
             /\ m.before = IF k = 0 THEN NoItem ELSE RemoveFirst(m.list, m.item)[k]
             /\ m.after = IF k = Len(RemoveFirst(m.list, m.item)) THEN NoItem ELSE RemoveFirst(m.list, m.item)[k + 1]
      BY Zenon DEF BetweenNeighbours
    <2> QED
      BY <1>9, <1>10, <2>1
  <1>12. m.before # NoItem \/ m.after # NoItem
    BY DEF BetweenNeighbours
  <1>13. \A j \in 1 .. n - 1 : rest[j] # NoItem
    <2>1. \A j \in 1 .. n - 1 : rest[j] \in DOMAIN rank
      BY ONLY <1>4, <1>10, ElementOfSeq
    <2> QED
      BY <1>2, <2>1, TaxonomyAssumption
  <1>14. k = q
    BY <1>4, <1>9, <1>11, <1>12, <1>13
  <1> QED
    <2>1. Quiet(m, n, p, q)
      BY <1>3, <1>4, <1>5, <1>8, <1>9, <1>11, <1>14 DEF Quiet
    <2> QED
      BY <2>1

LEMMA BetweenValues ==
  ASSUME NEW a \in Int, NEW b \in Int
  PROVE  /\ rank_between({}, {a}) = {a - Gap} /\ rank_between({b}, {}) = {b + Gap}
         /\ b < a => \A r \in rank_between({b}, {a}) : r \in Int /\ b < r /\ r < a
  <1>1. rank_between({}, {a}) = {a - Gap}
    <2> DEFINE one == {Gap}
               two == {x + Gap : x \in {}}
               three == {x - Gap : x \in {a}}
               four == UNION {Midpoint(x, y) : x \in {}, y \in {a}}
    <2>1. rank_between({}, {a}) = IF {} = {} /\ {a} = {} THEN one ELSE IF {a} = {} THEN two
                                 ELSE IF {} = {} THEN three ELSE four
      BY DEF rank_between
    <2>2. three = {a - Gap}
      OBVIOUS
    <2> HIDE DEF one, two, three, four
    <2>3. {a} # {} /\ {b} # {}
      OBVIOUS
    <2>4. rank_between({}, {a}) = three
      BY <2>1, <2>3
    <2> QED
      BY <2>2, <2>4
  <1>2. rank_between({b}, {}) = {b + Gap}
    <2> DEFINE one == {Gap}
               two == {x + Gap : x \in {b}}
               three == {x - Gap : x \in {}}
               four == UNION {Midpoint(x, y) : x \in {b}, y \in {}}
    <2>1. rank_between({b}, {}) = IF {b} = {} /\ {} = {} THEN one ELSE IF {} = {} THEN two
                                 ELSE IF {b} = {} THEN three ELSE four
      BY DEF rank_between
    <2>2. two = {b + Gap}
      OBVIOUS
    <2> HIDE DEF one, two, three, four
    <2>3. {a} # {} /\ {b} # {}
      OBVIOUS
    <2>4. rank_between({b}, {}) = two
      BY <2>1, <2>3
    <2> QED
      BY <2>2, <2>4
  <1>4. \A r \in rank_between({b}, {a}) : r \in Midpoint(b, a)
    <2> DEFINE one == {Gap}
               two == {x + Gap : x \in {b}}
               three == {x - Gap : x \in {a}}
               four == UNION {Midpoint(x, y) : x \in {b}, y \in {a}}
    <2>1. rank_between({b}, {a}) = IF {b} = {} /\ {a} = {} THEN one ELSE IF {a} = {} THEN two
                                 ELSE IF {b} = {} THEN three ELSE four
      BY DEF rank_between
    <2>2. \A r \in four : r \in Midpoint(b, a)
      OBVIOUS
    <2> HIDE DEF one, two, three, four
    <2>3. {a} # {} /\ {b} # {}
      OBVIOUS
    <2>4. rank_between({b}, {a}) = four
      BY <2>1, <2>3
    <2> QED
      BY <2>2, <2>4
  <1>3. ASSUME b < a, NEW r \in Midpoint(b, a)
        PROVE  r \in Int /\ b < r /\ r < a
    <2>1. b + (a - b) \div 2 \in Int
      OBVIOUS
    <2> QED
      BY <1>3, <2>1 DEF Midpoint
  <1> QED
    BY <1>1, <1>2, <1>3, <1>4

\* The others in their order, and the item behind the first q of them.
LEMMA OthersInOrder ==
  ASSUME TaxInv, NEW m, NEW n, NEW p, NEW q, NEW rest, Quiet(m, n, p, q), rest = Cut(m.list, p)
  PROVE  /\ n \in Nat /\ q \in 0 .. n - 1 /\ m.item \in DOMAIN rank
         /\ rest \in Seq(DOMAIN rank) /\ Len(rest) = n - 1 /\ rest \in [1 .. n - 1 -> DOMAIN rank \ {m.item}]
         /\ \A j, k \in 1 .. n - 1 : j < k => rank[rest[j]] < rank[rest[k]]
         /\ \A x \in DOMAIN rank \ {m.item} : \E k \in 1 .. n - 1 : rest[k] = x
         /\ \A x \in DOMAIN rank : rank[x] \in Int
  <1>1. \A x \in DOMAIN rank : rank[x] \in Int
    BY EndedIsNat, SpanFacts DEF TaxInv
  <1>2. PICK list, item : list = m.list /\ item = m.item
    OBVIOUS
  <1>3. /\ n \in Nat /\ p \in 1 .. n /\ q \in 0 .. n - 1 /\ list \in Seq(DOMAIN rank) /\ Len(list) = n
        /\ list[p] = item
        /\ \A j, k \in 1 .. n : j < k => rank[list[j]] < rank[list[k]]
        /\ \A x \in DOMAIN rank : \E k \in 1 .. n : list[k] = x
    BY <1>2 DEF Quiet
  <1>4. list \in [1 .. n -> DOMAIN rank]
    BY <1>3, LenProperties
  <1>5. \A j, k \in 1 .. n : list[j] = list[k] => j = k
    BY <1>1, <1>3, <1>4
  <1>6. rest \in Seq(DOMAIN rank) /\ Len(rest) = n - 1
    <2>1. p \in 1 .. Len(list) /\ \A j, k \in 1 .. Len(list) : list[j] = list[k] => j = k
      BY <1>3, <1>5
    <2>2. Cut(list, p) \in Seq(DOMAIN rank) /\ Len(Cut(list, p)) = Len(list) - 1
      BY ONLY <1>3, <2>1, CutIs
    <2> QED
      BY <1>2, <1>3, <2>2
  <1>7. rest = [k \in 1 .. n - 1 |-> IF k < p THEN list[k] ELSE list[k + 1]]
    BY <1>2, <1>3 DEF Cut
  <1>8. \A k \in 1 .. n - 1 : rest[k] \in DOMAIN rank \ {item}
    BY <1>3, <1>4, <1>5, <1>7
  <1>9. \A j, k \in 1 .. n - 1 : j < k => rank[rest[j]] < rank[rest[k]]
    BY <1>3, <1>7
  <1>10. ASSUME NEW x \in DOMAIN rank \ {item} PROVE \E k \in 1 .. n - 1 : rest[k] = x
    <2>1. PICK k \in 1 .. n : list[k] = x
      BY <1>3
    <2>2. CASE k < p
      BY <1>3, <1>7, <2>1, <2>2
    <2>3. CASE k > p
      <3>1. k - 1 \in 1 .. n - 1 /\ ~(k - 1 < p) /\ (k - 1) + 1 = k
        BY <1>3, <2>3
      <3> QED
        BY <1>7, <2>1, <3>1
    <2> QED
      BY <1>3, <2>1, <2>2, <2>3
  <1>11. item \in DOMAIN rank
    BY <1>3, <1>4
  <1>12. rest \in [1 .. n - 1 -> DOMAIN rank \ {item}]
    BY <1>7, <1>8
  <1> QED
    BY <1>1, <1>2, <1>3, <1>6, <1>9, <1>10, <1>11, <1>12

\* What the new ranks must do, with the others in a list: keep them in their
\* order and put the item between its two neighbours.
Landed(R, rest, item, q) ==
    /\ q # 0 => R[rest[q]] < R[item]
    /\ q # Len(rest) => R[item] < R[rest[q + 1]]
    /\ \A j, k \in 1 .. Len(rest) : j < k => R[rest[j]] < R[rest[k]]

\* Where there is room only the moved item's row is written.
LEMMA RoomLands ==
  ASSUME TaxInv, NEW h \in Movers, NEW m, m = mover[h], set_order(h), m.seen = rank,
         NEW n, NEW p, NEW q, NEW rest, Quiet(m, n, p, q), rest = Cut(m.list, p),
         rank_between(Seen(h, m.before), Seen(h, m.after)) # {}
  PROVE  Landed(rank', rest, m.item, q)
  <1>1. /\ n \in Nat /\ q \in 0 .. n - 1 /\ m.item \in DOMAIN rank
        /\ rest \in Seq(DOMAIN rank) /\ Len(rest) = n - 1 /\ rest \in [1 .. n - 1 -> DOMAIN rank \ {m.item}]
        /\ \A j, k \in 1 .. n - 1 : j < k => rank[rest[j]] < rank[rest[k]]
        /\ \A x \in DOMAIN rank : rank[x] \in Int
    BY OthersInOrder
  <1>2. PICK item, room : item = m.item /\ room = rank_between(Seen(h, m.before), Seen(h, m.after))
    OBVIOUS
  <1>3. PICK r \in room : \A i \in DOMAIN rank : rank'[i] = IF i = item THEN r ELSE rank[i]
    <2>1. room # {}
      BY <1>2
    <2>2. (CHOOSE r \in room : TRUE) \in room
      BY <2>1
    <2>3. \A i \in DOMAIN rank : rank'[i] = IF i = item THEN CHOOSE r \in room : TRUE ELSE rank[i]
      <3>1. rank' = [i \in DOMAIN rank |->
                  IF rank_between(Seen(h, m.before), Seen(h, m.after)) # {}
                  THEN IF i = m.item THEN CHOOSE r \in rank_between(Seen(h, m.before), Seen(h, m.after)) : TRUE
                       ELSE rank[i]
                  ELSE IF i \in DOMAIN normalized_ranks(Target(m.list, m.item, m.before, m.after))
                       THEN normalized_ranks(Target(m.list, m.item, m.before, m.after))[i] ELSE rank[i]]
        BY DEF set_order
      <3> QED
        BY <1>2, <2>1, <3>1
    <2> QED
      BY <2>2, <2>3
  <1>4. /\ m.before = IF q = 0 THEN NoItem ELSE rest[q]
        /\ m.after = IF q = n - 1 THEN NoItem ELSE rest[q + 1]
    BY DEF Quiet
  <1>5. NoItem \notin DOMAIN rank
    BY TaxonomyAssumption DEF TaxInv
  <1>6. /\ Seen(h, m.before) = IF q = 0 THEN {} ELSE {rank[rest[q]]}
        /\ Seen(h, m.after) = IF q = n - 1 THEN {} ELSE {rank[rest[q + 1]]}
    <2>1. \A i : Seen(h, i) = IF i \in DOMAIN rank THEN {rank[i]} ELSE {}
      BY DEF Seen
    <2>2. q # 0 => rest[q] \in DOMAIN rank
      BY <1>1
    <2>3. q # n - 1 => rest[q + 1] \in DOMAIN rank
      BY <1>1
    <2> QED
      BY ONLY <1>4, <1>5, <2>1, <2>2, <2>3
  <1>7. \A k \in 1 .. n - 1 : rank'[rest[k]] = rank[rest[k]]
    BY <1>1, <1>2, <1>3
  <1>8. rank'[item] = r
    BY <1>1, <1>2, <1>3
  <1>9. CASE q = 0 /\ q # n - 1
    <2>1. PICK a \in Int : a = rank[rest[q + 1]]
      BY <1>1, <1>9
    <2>2. r = a - Gap
      <3>1. room = rank_between({}, {a})
        BY <1>2, <1>6, <1>9, <2>1
      <3>2. rank_between({}, {a}) = {a - Gap}
        BY ONLY <2>1, BetweenValues
      <3> QED
        BY <3>1, <3>2
    <2>3. r < a
      BY <2>1, <2>2, TaxonomyAssumption
    <2> QED
      BY <1>1, <1>2, <1>7, <1>8, <1>9, <2>1, <2>3 DEF Landed
  <1>10. CASE q # 0 /\ q = n - 1
    <2>1. PICK b \in Int : b = rank[rest[q]]
      BY <1>1, <1>10
    <2>2. r = b + Gap
      <3>1. room = rank_between({b}, {})
        BY <1>2, <1>6, <1>10, <2>1
      <3>2. rank_between({b}, {}) = {b + Gap}
        BY ONLY <2>1, BetweenValues
      <3> QED
        BY <3>1, <3>2
    <2>3. b < r
      BY <2>1, <2>2, TaxonomyAssumption
    <2> QED
      BY <1>1, <1>2, <1>7, <1>8, <1>10, <2>1, <2>3 DEF Landed
  <1>11. CASE q # 0 /\ q # n - 1
    <2>1. PICK a \in Int, b \in Int : a = rank[rest[q + 1]] /\ b = rank[rest[q]] /\ b < a
      <3>1. q \in 1 .. n - 1 /\ q + 1 \in 1 .. n - 1 /\ q < q + 1
        BY <1>1, <1>11
      <3>2. rank[rest[q]] \in Int /\ rank[rest[q + 1]] \in Int /\ rank[rest[q]] < rank[rest[q + 1]]
        BY ONLY <1>1, <3>1
      <3> QED
        BY ONLY <3>2
    <2>2. b < r /\ r < a
      BY <1>2, <1>6, <1>11, <2>1, BetweenValues
    <2>3. rank'[rest[q]] = b /\ rank'[rest[q + 1]] = a
      <3>1. q \in 1 .. n - 1 /\ q + 1 \in 1 .. n - 1
        BY <1>1, <1>11
      <3> QED
        BY ONLY <1>7, <2>1, <3>1
    <2>4. \A j, k \in 1 .. n - 1 : j < k => rank'[rest[j]] < rank'[rest[k]]
      BY ONLY <1>1, <1>7
    <2> QED
      BY <1>1, <1>2, <1>8, <2>2, <2>3, <2>4 DEF Landed
  <1>12. CASE q = 0 /\ q = n - 1
    BY <1>1, <1>12 DEF Landed
  <1> QED
    BY <1>9, <1>10, <1>11, <1>12

\* Otherwise every row that was read is: 1.0, 2.0, ... in the new order.
LEMMA NormalizedLands ==
  ASSUME TaxInv, NEW h \in Movers, NEW m, m = mover[h], set_order(h), m.seen = rank,
         NEW n, NEW p, NEW q, NEW rest, Quiet(m, n, p, q), rest = Cut(m.list, p),
         rank_between(Seen(h, m.before), Seen(h, m.after)) = {}
  PROVE  Landed(rank', rest, m.item, q)
  <1>1. /\ n \in Nat /\ q \in 0 .. n - 1 /\ m.item \in DOMAIN rank
        /\ rest \in Seq(DOMAIN rank) /\ Len(rest) = n - 1 /\ rest \in [1 .. n - 1 -> DOMAIN rank \ {m.item}]
        /\ \A j, k \in 1 .. n - 1 : j < k => rank[rest[j]] < rank[rest[k]]
        /\ \A x \in DOMAIN rank : rank[x] \in Int
    BY OthersInOrder
  <1>2. PICK item, t : item = m.item /\ t = Target(m.list, m.item, m.before, m.after)
    OBVIOUS
  <1>3. \A i \in DOMAIN rank : rank'[i] = IF i \in DOMAIN normalized_ranks(t) THEN normalized_ranks(t)[i] ELSE rank[i]
    <2> PICK between, fresh : /\ between = rank_between(Seen(h, m.before), Seen(h, m.after))
                              /\ fresh = normalized_ranks(Target(m.list, m.item, m.before, m.after))
      OBVIOUS
    <2>1. rank' = [i \in DOMAIN rank |->
                IF between # {}
                THEN IF i = m.item THEN CHOOSE r \in between : TRUE ELSE rank[i]
                ELSE IF i \in DOMAIN fresh THEN fresh[i] ELSE rank[i]]
      BY DEF set_order
    <2>2. between = {}
      OBVIOUS
    <2>3. \A i \in DOMAIN rank : rank'[i] = IF i \in DOMAIN fresh THEN fresh[i] ELSE rank[i]
      BY ONLY <2>1, <2>2
    <2>4. fresh = normalized_ranks(t)
      BY <1>2
    <2> QED
      BY ONLY <2>3, <2>4
  <1>4. t = [k \in 1 .. n |-> IF k <= q THEN rest[k] ELSE IF k = q + 1 THEN item ELSE rest[k - 1]]
    <2>1. t = Put(rest, q, item)
      BY <1>2 DEF Quiet
    <2>2. Len(rest) + 1 = n
      BY <1>1
    <2> QED
      BY <2>1, <2>2 DEF Put
  <1>5. \A j, k \in 1 .. n - 1 : rest[j] = rest[k] => j = k
    BY <1>1
  <1>6. t \in [1 .. n -> DOMAIN rank]
    BY <1>1, <1>2, <1>4
  <1>7. \A j, k \in 1 .. n : t[j] = t[k] => j = k
    BY <1>1, <1>2, <1>4, <1>5
  <1>8. \A k \in 1 .. n : rank'[t[k]] = Gap * k
    <2> SUFFICES ASSUME NEW k \in 1 .. n PROVE rank'[t[k]] = Gap * k
      OBVIOUS
    <2>1. t[k] \in ToSet(t) /\ t[k] \in DOMAIN rank
      BY <1>6 DEF ToSet
    <2>2. (CHOOSE j \in DOMAIN t : t[j] = t[k]) = k
      BY <1>6, <1>7
    <2>3. DOMAIN normalized_ranks(t) = ToSet(t) /\ normalized_ranks(t)[t[k]] = Gap * k
      BY <2>1, <2>2 DEF normalized_ranks
    <2> QED
      BY <1>3, <2>1, <2>3
  <1>9. \A j, k \in 1 .. n : j < k => Gap * j < Gap * k
    BY TaxonomyAssumption
  <1>10. \A j, k \in 1 .. n : j < k => rank'[t[j]] < rank'[t[k]]
    BY <1>8, <1>9
  <1>11. PICK at : at = [k \in 1 .. n - 1 |-> IF k <= q THEN k ELSE k + 1]
    OBVIOUS
  <1>12. /\ at \in [1 .. n - 1 -> 1 .. n] /\ \A j, k \in 1 .. n - 1 : j < k => at[j] < at[k]
         /\ \A k \in 1 .. n - 1 : rest[k] = t[at[k]]
         /\ t[q + 1] = item /\ q + 1 \in 1 .. n
         /\ (q # 0 => q \in 1 .. n - 1 /\ at[q] = q) /\ (q # n - 1 => q + 1 \in 1 .. n - 1 /\ at[q + 1] = q + 2 /\ q + 2 \in 1 .. n)
    BY <1>1, <1>4, <1>11
  <1>13. \A j, k \in 1 .. n - 1 : j < k => rank'[rest[j]] < rank'[rest[k]]
    BY <1>10, <1>12
  <1>14. q # 0 => rank'[rest[q]] < rank'[item]
    <2>1. q # 0 => q \in 1 .. n - 1 /\ rest[q] = t[q]
      BY ONLY <1>12
    <2>2. q # 0 => q \in 1 .. n /\ q < q + 1
      BY ONLY <1>1
    <2> QED
      BY ONLY <1>10, <1>12, <2>1, <2>2
  <1>15. q # n - 1 => rank'[item] < rank'[rest[q + 1]]
    <2>1. q # n - 1 => q + 2 \in 1 .. n /\ q + 1 < q + 2 /\ rest[q + 1] = t[q + 2]
      BY ONLY <1>1, <1>12
    <2> QED
      BY ONLY <1>10, <1>12, <2>1
  <1> QED
    BY <1>1, <1>2, <1>13, <1>14, <1>15 DEF Landed

LEMMA QuietLands ==
  ASSUME TaxInv, [TaxNext]_taxVars, NEW h \in Movers, NEW m, m = mover[h], m.at = "move", mover'[h].at = "idle",
         rank' # rank, m.seen = rank, BetweenNeighbours(m),
         \A i, j \in DOMAIN rank : i # j => rank[i] # rank[j]
  PROVE  /\ m.before # NoItem => rank'[m.before] < rank'[m.item]
         /\ m.after # NoItem => rank'[m.item] < rank'[m.after]
         /\ \A i, j \in DOMAIN rank \ {m.item} : rank[i] < rank[j] => rank'[i] < rank'[j]
  <1>1. set_order(h)
    BY OnlySetOrder
  <1>2. PICK n, p, q : Quiet(m, n, p, q)
    BY QuietIs
  <1>3. PICK rest : rest = Cut(m.list, p)
    OBVIOUS
  <1>4. Landed(rank', rest, m.item, q)
    BY <1>1, <1>2, <1>3, RoomLands, NormalizedLands
  <1>5. /\ n \in Nat /\ q \in 0 .. n - 1 /\ Len(rest) = n - 1 /\ rest \in [1 .. n - 1 -> DOMAIN rank \ {m.item}]
        /\ \A j, k \in 1 .. n - 1 : j < k => rank[rest[j]] < rank[rest[k]]
        /\ \A x \in DOMAIN rank \ {m.item} : \E k \in 1 .. n - 1 : rest[k] = x
        /\ \A x \in DOMAIN rank : rank[x] \in Int
    BY ONLY TaxInv, <1>2, <1>3, OthersInOrder
  <1>6. /\ m.before = IF q = 0 THEN NoItem ELSE rest[q]
        /\ m.after = IF q = n - 1 THEN NoItem ELSE rest[q + 1]
    BY <1>2, <1>3 DEF Quiet
  <1>7. /\ m.before # NoItem => rank'[m.before] < rank'[m.item]
        /\ m.after # NoItem => rank'[m.item] < rank'[m.after]
    BY <1>4, <1>5, <1>6 DEF Landed
  <1>8. ASSUME NEW i \in DOMAIN rank \ {m.item}, NEW j \in DOMAIN rank \ {m.item}, rank[i] < rank[j]
        PROVE  rank'[i] < rank'[j]
    <2>1. PICK x \in 1 .. n - 1, y \in 1 .. n - 1 : rest[x] = i /\ rest[y] = j
      BY <1>5
    <2>2. x < y
      <3>1. ~(y < x) /\ x # y
        BY <1>5, <1>8, <2>1
      <3> QED
        BY <3>1, <1>5
    <2> QED
      BY <1>4, <1>5, <2>1, <2>2 DEF Landed
  <1> QED
    BY <1>7, <1>8

\* A move between two neighbours that no other request overtook lands where it
\* was dropped and moves nothing else, whether there was a midpoint left or
\* the whole list was numbered anew (move_item, renormalize_with_move).
THEOREM QuietMovesLand == TaxSpec => QuietMoveLands
  <1>1. TaxInit => TaxInv
    BY TaxInvInit
  <1>2. TaxInv /\ [TaxNext]_taxVars => TaxInv'
    BY TaxInvStep
  <1>3. TaxInv /\ [TaxNext]_taxVars =>
          [\A h \in Movers :
             LET m == mover[h] IN
             m.at = "move" /\ mover'[h].at = "idle" /\ rank' # rank /\ m.seen = rank
                  /\ BetweenNeighbours(m) /\ (\A i, j \in DOMAIN rank : i # j => rank[i] # rank[j])
             => /\ m.before # NoItem => rank'[m.before] < rank'[m.item]
                /\ m.after # NoItem => rank'[m.item] < rank'[m.after]
                /\ \A i, j \in DOMAIN rank \ {m.item} : rank[i] < rank[j] => rank'[i] < rank'[j]
           ]_taxVars
    BY QuietLands
  <1> QED
    BY <1>1, <1>2, <1>3, PTL DEF TaxSpec, QuietMoveLands

-----------------------------------------------------------------------------
(* EventStream.                                                            *)

Receiver == [open : BOOLEAN, ch : Nat, queue : Seq(Nat \cup {Ids}), lagged : BOOLEAN]
Handler == [at : {"idle", "read", "publish", "send"}, ids : BOOLEAN, write : Nat, full : Nat, tx : Nat]

Opened == {s \in Streams : stream[s].open}

\* A publication that will reach the receivers of the channel; a write that
\* one is about to tell of, or that is never published; and an event after
\* which its reader knows of a write.
Coming(p) == p.at \in {"read", "publish"} \/ (p.at = "send" /\ p.tx = channel)
Awaited(w) == w \in silent \/ \E h \in Publishers : Coming(publisher[h]) /\ publisher[h].write = w
Covers(e, w) == e = Ids \/ w <= e

\* A handler publishes its write, or a later one, and the newest while none
\* came between.
PublisherOK(h) ==
    LET p == publisher[h] IN
    p.at # "idle" => p.write \in 1 .. row /\ p.write <= p.full /\ p.full <= row /\ (~crossed => p.full = row)

QueueOK(q) == Len(q) <= ChannelCapacity /\ \A i \in 1 .. Len(q) : q[i] = Ids \/ q[i] \in 0 .. row

\* Every write is known, queued or awaited; and what is read last shows it.
ReaderOK(s) ==
    LET q == stream[s].queue IN
    /\ QueueOK(q) /\ shown[s] <= told[s] /\ told[s] <= row
    /\ stream[s].open => stream[s].ch = channel /\ channel # 0
    /\ stream[s].open /\ ~stream[s].lagged =>
         \A w \in 1 .. row : Awaited(w) \/ w <= told[s] \/ \E i \in 1 .. Len(q) : Covers(q[i], w)
    /\ stream[s].open /\ ~crossed =>
         \A w \in 1 .. row : Awaited(w) \/ IF q = << >> THEN w <= shown[s] ELSE Covers(q[Len(q)], w)

StreamInv ==
    /\ row \in 0 .. MaxWrites /\ channels \in Nat /\ channel \in 0 .. channels
    /\ stream \in [Streams -> Receiver] /\ publisher \in [Publishers -> Handler]
    /\ told \in [Streams -> Nat] /\ shown \in [Streams -> Nat]
    /\ silent \subseteq 1 .. row /\ crossed \in BOOLEAN
    /\ IsFiniteSet(Opened)
    /\ \A h \in Publishers : PublisherOK(h)
    /\ \A s \in Streams : ReaderOK(s)

LEMMA StreamParts ==
  ASSUME StreamInv
  PROVE  /\ row \in Nat /\ row <= MaxWrites /\ channels \in Nat /\ channel \in Nat /\ channel <= channels
         /\ stream \in [Streams -> Receiver] /\ publisher \in [Publishers -> Handler]
         /\ told \in [Streams -> Nat] /\ shown \in [Streams -> Nat]
         /\ silent \subseteq 1 .. row /\ crossed \in BOOLEAN /\ IsFiniteSet(Opened)
         /\ \A s \in Streams : /\ stream[s].open \in BOOLEAN /\ stream[s].ch \in Nat /\ stream[s].lagged \in BOOLEAN
                               /\ stream[s].queue \in Seq(Nat \cup {Ids})
         /\ \A h \in Publishers : /\ publisher[h].at \in {"idle", "read", "publish", "send"}
                                  /\ publisher[h].ids \in BOOLEAN /\ publisher[h].full \in Nat /\ publisher[h].tx \in Nat
                                  /\ publisher[h].write \in Nat
         /\ \A h \in Publishers : PublisherOK(h)
         /\ \A s \in Streams : ReaderOK(s)
  BY StreamAssumption DEF StreamInv, Receiver, Handler

LEMMA StreamFromParts ==
  ASSUME row' \in 0 .. MaxWrites, channels' \in Nat, channel' \in 0 .. channels',
         stream' \in [Streams -> Receiver], publisher' \in [Publishers -> Handler],
         told' \in [Streams -> Nat], shown' \in [Streams -> Nat], silent' \subseteq 1 .. row', crossed' \in BOOLEAN,
         IsFiniteSet(Opened)', \A h \in Publishers : PublisherOK(h)', \A s \in Streams : ReaderOK(s)'
  PROVE  StreamInv'
  BY DEF StreamInv

LEMMA StreamIdle ==
  /\ Shut \in Receiver /\ ~Shut.open /\ ~Shut.lagged /\ Shut.ch = 0 /\ Shut.queue = << >>
  /\ Unbusy \in Handler /\ Unbusy.at = "idle"
  BY DEF Shut, Receiver, Unbusy, Handler

LEMMA EmptyQueueOK == ASSUME row \in Nat PROVE QueueOK(<< >>)
  BY StreamAssumption DEF QueueOK

LEMMA StreamInvInit == StreamInit => StreamInv
  <1> SUFFICES ASSUME StreamInit PROVE StreamInv
    OBVIOUS
  <1>1. stream \in [Streams -> Receiver] /\ publisher \in [Publishers -> Handler]
    BY StreamIdle DEF StreamInit
  <1>2. \A h \in Publishers : PublisherOK(h)
    BY StreamIdle DEF StreamInit, PublisherOK
  <1>3. \A s \in Streams : ReaderOK(s)
    <2> TAKE s \in Streams
    <2>1. stream[s].queue = << >> /\ ~stream[s].open /\ told[s] = 0 /\ shown[s] = 0 /\ row = 0
      BY StreamIdle DEF StreamInit
    <2> QED
      BY <2>1, EmptyQueueOK DEF ReaderOK
  <1>4. Opened = {}
    BY StreamIdle DEF Opened, StreamInit
  <1>5. IsFiniteSet(Opened)
    BY <1>4, FS_EmptySet
  <1>6. row \in 0 .. MaxWrites /\ channels \in Nat /\ channel \in 0 .. channels
    BY StreamAssumption DEF StreamInit
  <1>8. silent \subseteq 1 .. row /\ crossed \in BOOLEAN
    BY DEF StreamInit
  <1>7. told \in [Streams -> Nat] /\ shown \in [Streams -> Nat]
    BY DEF StreamInit
  <1> QED
    BY <1>1, <1>2, <1>3, <1>5, <1>6, <1>7, <1>8 DEF StreamInv

\* A reader whose stream and knowledge are as they were, the row being so too,
\* stays as it is while what was awaited still is.
LEMMA ReaderStays ==
  ASSUME NEW s \in Streams, ReaderOK(s), stream'[s] = stream[s], told'[s] = told[s], shown'[s] = shown[s],
         row' = row, stream[s].open => channel' = channel, crossed => crossed',
         stream[s].open => \A w \in 1 .. row : Awaited(w) => Awaited(w)'
  PROVE  ReaderOK(s)'
  BY DEF ReaderOK, QueueOK, Covers

\* Handlers whose record and channel are as they were still come.
LEMMA StillComing ==
  ASSUME publisher' = publisher, channel' = channel, silent' = silent
  PROVE  \A w : Awaited(w) => Awaited(w)'
  BY DEF Awaited, Coming

LEMMA PublishersStay ==
  ASSUME StreamInv, publisher' = publisher, row' = row, crossed => crossed'
  PROVE  \A h \in Publishers : PublisherOK(h)'
  BY StreamParts DEF PublisherOK

\* A stream is opened: its reader knows the row, and so may the first one
\* create the channel.
LEMMA StreamOpens ==
  ASSUME StreamInv, NEW s \in Streams, project_events(s)
  PROVE  StreamInv'
  <1>1. /\ ~stream[s].open /\ channel' = (IF channel = 0 THEN channels + 1 ELSE channel)
        /\ channels' = (IF channel' > channels THEN channel' ELSE channels)
        /\ row' = row /\ publisher' = publisher /\ silent' = silent /\ crossed' = crossed
    BY DEF project_events, subscribe
  <1>2. channel' \in Nat /\ channel' # 0 /\ channels' \in Nat /\ channel' \in 0 .. channels'
    BY ONLY <1>1, StreamParts, StreamInv
  <1>a. PICK c \in Nat : c = channel'
    BY <1>2
  <1>b. PICK new : new = [open |-> TRUE, ch |-> c, queue |-> << >>, lagged |-> FALSE]
    OBVIOUS
  <1>3. new \in Receiver /\ new.open /\ ~new.lagged /\ new.ch = channel' /\ new.queue = << >>
    BY <1>a, <1>b DEF Receiver
  <1>4. stream' = [stream EXCEPT ![s] = new] /\ told' = [told EXCEPT ![s] = row] /\ shown' = [shown EXCEPT ![s] = row]
    BY <1>a, <1>b DEF project_events
  <1>5. stream' \in [Streams -> Receiver] /\ told' \in [Streams -> Nat] /\ shown' \in [Streams -> Nat]
    BY <1>3, <1>4, StreamParts
  <1>6. IsFiniteSet(Opened)'
    <2>1. Opened' \subseteq Opened \cup {s}
      BY <1>4, StreamParts DEF Opened
    <2>2. IsFiniteSet(Opened \cup {s})
      BY StreamParts, FS_AddElement
    <2> QED
      BY <2>1, <2>2, FS_Subset
  <1>7. ASSUME NEW u \in Streams PROVE ReaderOK(u)'
    <2>1. CASE u = s
      <3>1. stream'[s] = new /\ told'[s] = row /\ shown'[s] = row
        BY <1>4, StreamParts
      <3>2. QueueOK(<< >>)'
        BY <1>1, EmptyQueueOK, StreamParts DEF QueueOK
      <3> QED
        BY <1>1, <1>2, <1>3, <2>1, <3>1, <3>2, StreamParts DEF ReaderOK
    <2>2. CASE u # s
      <3>1. stream'[u] = stream[u] /\ told'[u] = told[u] /\ shown'[u] = shown[u] /\ ReaderOK(u)
        BY <1>4, <2>2, StreamParts
      <3>2. stream[u].open => channel' = channel
        BY <1>1, <3>1 DEF ReaderOK
      <3> QED
        BY <1>1, <3>1, <3>2, StillComing, ReaderStays
    <2> QED
      BY <2>1, <2>2
  <1>8. \A h \in Publishers : PublisherOK(h)'
    BY <1>1, PublishersStay
  <1> QED
    BY <1>1, <1>2, <1>5, <1>6, <1>7, <1>8, StreamFromParts DEF StreamInv

\* What a step that touches one open stream has to show of it.
LEMMA StreamMoves ==
  ASSUME StreamInv, NEW s \in Streams, NEW new \in Receiver, NEW t \in Nat, NEW w \in Nat,
         stream' = [stream EXCEPT ![s] = new], told' = [told EXCEPT ![s] = t], shown' = [shown EXCEPT ![s] = w],
         new.open => stream[s].open,
         UNCHANGED <<row, channel, channels, publisher, silent, crossed>>, ReaderOK(s)'
  PROVE  StreamInv'
  <1>1. stream' \in [Streams -> Receiver] /\ told' \in [Streams -> Nat] /\ shown' \in [Streams -> Nat]
    BY StreamParts
  <1>2. IsFiniteSet(Opened)'
    <2>1. Opened' \subseteq Opened
      BY StreamParts DEF Opened
    <2> QED
      BY <2>1, StreamParts, FS_Subset
  <1>3. ASSUME NEW u \in Streams PROVE ReaderOK(u)'
    <2>1. CASE u # s
      <3>1. stream'[u] = stream[u] /\ told'[u] = told[u] /\ shown'[u] = shown[u] /\ ReaderOK(u)
        BY <2>1, StreamParts
      <3> QED
        BY <3>1, StillComing, ReaderStays
    <2> QED
      BY <2>1
  <1>4. \A h \in Publishers : PublisherOK(h)'
    BY PublishersStay
  <1> QED
    BY <1>1, <1>2, <1>3, <1>4, StreamFromParts DEF StreamInv

LEMMA StreamEnds ==
  ASSUME StreamInv, NEW s \in Streams, stream_ends(s)
  PROVE  StreamInv'
  <1>1. /\ stream' = [stream EXCEPT ![s] = Shut]
        /\ UNCHANGED <<row, channel, channels, publisher, silent, crossed, told, shown>>
    BY DEF stream_ends
  <1>2. told[s] \in Nat /\ shown[s] \in Nat /\ told' = [told EXCEPT ![s] = told[s]] /\ shown' = [shown EXCEPT ![s] = shown[s]]
    BY <1>1, StreamParts
  <1>3. ReaderOK(s)'
    <2>1. stream'[s] = Shut /\ told'[s] = told[s] /\ shown'[s] = shown[s] /\ ReaderOK(s) /\ row' = row
      BY <1>1, StreamParts
    <2>2. QueueOK(Shut.queue)'
      BY <2>1, StreamIdle, EmptyQueueOK, StreamParts DEF QueueOK
    <2> QED
      BY <2>1, <2>2, StreamIdle DEF ReaderOK
  <1> QED
    BY <1>1, <1>2, <1>3, StreamIdle, StreamMoves

LEMMA StreamLagged ==
  ASSUME StreamInv, NEW s \in Streams, recv_lagged(s)
  PROVE  StreamInv'
  <1>1. /\ stream[s].open /\ stream' = [stream EXCEPT ![s].lagged = FALSE]
        /\ told' = [told EXCEPT ![s] = row] /\ shown' = [shown EXCEPT ![s] = row]
        /\ UNCHANGED <<row, channel, channels, publisher, silent, crossed>>
    BY DEF recv_lagged
  <1> DEFINE new == [stream[s] EXCEPT !.lagged = FALSE]
  <1>2. /\ new \in Receiver /\ new.open = stream[s].open /\ new.queue = stream[s].queue /\ new.ch = stream[s].ch
        /\ ~new.lagged /\ stream' = [stream EXCEPT ![s] = new]
    BY <1>1, StreamParts DEF Receiver
  <1>a. PICK n : n = new
    OBVIOUS
  <1> HIDE DEF new
  <1>3. ReaderOK(s)'
    <2>1. /\ stream'[s] = n /\ told'[s] = row /\ shown'[s] = row /\ ReaderOK(s) /\ row \in Nat
          /\ n.queue = stream[s].queue /\ n.open = stream[s].open /\ n.ch = stream[s].ch
      BY <1>1, <1>2, <1>a, StreamParts
    <2>2. QueueOK(n.queue)'
      BY <1>1, <2>1 DEF ReaderOK, QueueOK
    <2> QED
      BY <1>1, <2>1, <2>2, StillComing DEF ReaderOK
  <1> QED
    BY <1>1, <1>2, <1>3, StreamParts, StreamMoves

\* The head of a queue is taken; the last of it stays the last.
LEMMA TailKeeps ==
  ASSUME NEW T, NEW q \in Seq(T), q # << >>
  PROVE  /\ Tail(q) \in Seq(T) /\ Len(Tail(q)) = Len(q) - 1 /\ Len(q) \in Nat \ {0} /\ Head(q) = q[1] /\ q[1] \in T
         /\ \A i \in 1 .. Len(q) - 1 : Tail(q)[i] = q[i + 1]
         /\ Tail(q) = << >> <=> Len(q) = 1
  <1>1. /\ Tail(q) \in Seq(T) /\ Len(Tail(q)) = Len(q) - 1 /\ Head(q) = q[1] /\ q[1] \in T
        /\ \A i \in 1 .. Len(q) - 1 : Tail(q)[i] = q[i + 1]
    BY HeadTailProperties, ElementOfSeq, LenProperties, EmptySeq
  <1>2. Len(q) \in Nat \ {0} /\ (Tail(q) = << >> <=> Len(Tail(q)) = 0)
    BY <1>1, LenProperties, EmptySeq
  <1> QED
    BY <1>1, <1>2

LEMMA StreamHears ==
  ASSUME StreamInv, NEW s \in Streams, recv_change(s)
  PROVE  StreamInv'
  <1> DEFINE q == stream[s].queue
             event == Head(q)
             new == [stream[s] EXCEPT !.queue = Tail(q)]
  <1>1. PICK heard : heard = IF event = Ids THEN row ELSE event
    OBVIOUS
  <1>2. /\ stream[s].open /\ ~stream[s].lagged /\ q # << >> /\ stream' = [stream EXCEPT ![s].queue = Tail(q)]
        /\ told' = [told EXCEPT ![s] = IF heard > told[s] THEN heard ELSE told[s]]
        /\ shown' = [shown EXCEPT ![s] = heard]
        /\ UNCHANGED <<row, channel, channels, publisher, silent, crossed>>
    BY <1>1, StreamParts DEF recv_change
  <1>3. q \in Seq(Nat \cup {Ids})
    BY StreamParts
  <1>4. /\ Tail(q) \in Seq(Nat \cup {Ids}) /\ Len(Tail(q)) = Len(q) - 1 /\ Len(q) \in Nat \ {0} /\ event = q[1]
        /\ \A i \in 1 .. Len(q) - 1 : Tail(q)[i] = q[i + 1]
        /\ Tail(q) = << >> <=> Len(q) = 1
    BY <1>2, <1>3, TailKeeps
  <1>5. /\ new \in Receiver /\ new.open = stream[s].open /\ new.queue = Tail(q) /\ new.ch = stream[s].ch
        /\ new.lagged = stream[s].lagged /\ stream' = [stream EXCEPT ![s] = new]
    BY <1>2, <1>4, StreamParts DEF Receiver
  <1>6. PICK p : p = Tail(q)
    OBVIOUS
  <1>7. PICK r : r = q
    OBVIOUS
  <1>8. PICK n : n = new
    OBVIOUS
  <1> HIDE DEF new, q, event
  <1>9. ReaderOK(s) /\ QueueOK(r) /\ row \in Nat
    BY <1>7, StreamParts DEF ReaderOK, q
  <1>10. heard \in 0 .. row /\ \A w \in 1 .. row : Covers(r[1], w) => w <= heard
    BY <1>1, <1>4, <1>7, <1>9 DEF QueueOK, Covers
  <1>11. PICK t \in Nat : t = IF heard > told[s] THEN heard ELSE told[s]
    BY <1>10, StreamParts
  <1>12. told[s] \in Nat /\ told[s] <= t /\ heard <= t /\ t <= row
    BY <1>9, <1>10, <1>11, StreamParts DEF ReaderOK
  <1>13. QueueOK(p)'
    BY <1>2, <1>4, <1>6, <1>7, <1>9, StreamAssumption DEF QueueOK
  <1>14. ASSUME NEW w \in 1 .. row, NEW i \in 1 .. Len(r), Covers(r[i], w)
         PROVE  w <= heard \/ \E j \in 1 .. Len(p) : Covers(p[j], w)
    <2>1. CASE i = 1
      BY <1>10, <1>14, <2>1
    <2>2. CASE i # 1
      <3>1. i - 1 \in 1 .. Len(p) /\ p[i - 1] = r[i]
        BY <1>4, <1>6, <1>7, <2>2
      <3> QED
        BY <1>14, <3>1
    <2> QED
      BY <2>1, <2>2
  <1>15. ASSUME NEW w \in 1 .. row, Covers(r[Len(r)], w)
         PROVE  IF p = << >> THEN w <= heard ELSE Covers(p[Len(p)], w)
    <2>1. CASE Len(r) = 1
      BY <1>4, <1>6, <1>7, <1>10, <1>15, <2>1
    <2>2. CASE Len(r) # 1
      <3>1. Len(p) = Len(r) - 1 /\ Len(p) \in 1 .. Len(r) - 1 /\ p # << >>
        BY <1>4, <1>6, <1>7, <2>2
      <3>2. p[Len(p)] = r[Len(p) + 1]
        BY <1>4, <1>6, <1>7, <3>1
      <3>3. p[Len(p)] = r[Len(r)]
        BY <1>4, <1>7, <3>1, <3>2
      <3> QED
        BY <1>15, <3>1, <3>3
    <2> QED
      BY <2>1, <2>2
  <1>16. ReaderOK(s)'
    <2>1. /\ stream'[s] = n /\ told'[s] = t /\ shown'[s] = heard /\ n.queue = p /\ n.open = stream[s].open
          /\ n.ch = stream[s].ch /\ n.lagged = stream[s].lagged /\ r = stream[s].queue /\ r # << >>
      BY <1>2, <1>5, <1>6, <1>7, <1>8, <1>11, StreamParts DEF q
    <2>2. (stream[s].open => stream[s].ch = channel /\ channel # 0) /\ channel' = channel
      BY <1>2, <1>9 DEF ReaderOK
    <2>3. ASSUME NEW w \in 1 .. row
          PROVE  Awaited(w)' \/ w <= t \/ \E i \in 1 .. Len(p) : Covers(p[i], w)
      <3>1. Awaited(w) \/ w <= told[s] \/ \E i \in 1 .. Len(r) : Covers(r[i], w)
        BY <1>2, <1>9, <2>1 DEF ReaderOK
      <3>2. Awaited(w) => Awaited(w)'
        BY <1>2, StillComing
      <3>3. w \in Nat /\ heard \in Nat /\ told[s] \in Nat
        BY <1>9, <1>10, <1>12
      <3> QED
        BY <1>12, <1>14, <3>1, <3>2, <3>3
    <2>4. ASSUME ~crossed, NEW w \in 1 .. row
          PROVE  Awaited(w)' \/ IF p = << >> THEN w <= heard ELSE Covers(p[Len(p)], w)
      <3>1. Awaited(w) \/ Covers(r[Len(r)], w)
        BY <1>2, <1>9, <2>1, <2>4 DEF ReaderOK
      <3>2. Awaited(w) => Awaited(w)'
        BY <1>2, StillComing
      <3> QED
        BY <1>15, <3>1, <3>2
    <2>5. \A x, w : Covers(x, w)' <=> Covers(x, w)
      BY DEF Covers
    <2> QED
      BY <1>2, <1>12, <1>13, <2>1, <2>2, <2>3, <2>4 DEF ReaderOK, Covers
  <1>17. heard \in Nat
    BY <1>9, <1>10
  <1> QED
    BY <1>2, <1>5, <1>11, <1>16, <1>17, StreamMoves

\* Some stream is open, or a publication finds nobody.
LEMMA SomeoneHears ==
  ASSUME StreamInv, NEW s \in Streams, stream[s].open
  PROVE  channel # 0 /\ receiver_count(channel) > 0
  <1> DEFINE S == {u \in Streams : stream[u].open /\ stream[u].ch = channel}
  <1>1. channel # 0 /\ s \in S
    BY StreamParts DEF ReaderOK
  <1>2. S \subseteq Opened
    BY DEF Opened
  <1>3. IsFiniteSet(S) /\ Cardinality(S) \in Nat
    BY <1>2, StreamParts, FS_Subset, FS_CardinalityType
  <1>4. Cardinality(S) # 0
    BY <1>1, <1>3, FS_EmptySet
  <1> QED
    BY <1>1, <1>3, <1>4 DEF receiver_count

\* A handler moves and the streams stay: what it was about to tell, it still
\* is, or its write is one that is not published.
LEMMA PublisherMoves ==
  ASSUME StreamInv, NEW h \in Publishers, NEW p \in Handler, publisher' = [publisher EXCEPT ![h] = p],
         UNCHANGED <<row, channels, stream, told, shown, crossed>>, channel' \in 0 .. channels,
         silent \subseteq silent', silent' \subseteq 1 .. row,
         p.at # "idle" => p.write \in 1 .. row /\ p.write <= p.full /\ p.full <= row /\ (~crossed => p.full = row),
         \A s \in Streams : stream[s].open =>
           /\ channel' = channel
           /\ Coming(publisher[h]) => (Coming(p) /\ p.write = publisher[h].write) \/ publisher[h].write \in silent'
  PROVE  StreamInv'
  <1>1. publisher' \in [Publishers -> Handler] /\ publisher'[h] = p /\ \A g \in Publishers \ {h} : publisher'[g] = publisher[g]
    BY StreamParts
  <1>2. ASSUME NEW g \in Publishers PROVE PublisherOK(g)'
    <2>1. CASE g = h
      BY <1>1, <2>1 DEF PublisherOK
    <2>2. CASE g # h
      BY <1>1, <2>2, StreamParts DEF PublisherOK
    <2> QED
      BY <2>1, <2>2
  <1>3. ASSUME NEW s \in Streams PROVE ReaderOK(s)'
    <2>1. ASSUME stream[s].open, NEW w \in 1 .. row, Awaited(w) PROVE Awaited(w)'
      <3>1. CASE w \in silent
        BY <3>1 DEF Awaited
      <3>2. ASSUME NEW g \in Publishers, Coming(publisher[g]), publisher[g].write = w PROVE Awaited(w)'
        <4>1. CASE g = h
          BY <1>1, <2>1, <3>2, <4>1 DEF Awaited, Coming
        <4>2. CASE g # h
          BY <1>1, <2>1, <3>2, <4>2 DEF Awaited, Coming
        <4> QED
          BY <4>1, <4>2
      <3> QED
        BY <2>1, <3>1, <3>2 DEF Awaited
    <2>2. ReaderOK(s)
      BY StreamParts
    <2> QED
      BY <2>1, <2>2, ReaderStays
  <1>4. IsFiniteSet(Opened)'
    BY StreamParts DEF Opened
  <1> QED
    BY <1>1, <1>2, <1>3, <1>4, StreamFromParts, StreamParts DEF StreamInv

LEMMA StreamReads ==
  ASSUME StreamInv, NEW h \in Publishers, get_issue(h)
  PROVE  StreamInv'
  <1> DEFINE p == [publisher[h] EXCEPT !.full = row, !.at = "publish"]
  <1>1. p \in Handler /\ p.at = "publish" /\ p.full = row /\ p.write = publisher[h].write
    BY StreamParts DEF Handler
  <1>2. publisher' = [publisher EXCEPT ![h] = p] /\ UNCHANGED <<row, channel, channels, stream, told, shown, silent, crossed>>
    BY StreamParts DEF get_issue
  <1> HIDE DEF p
  <1>3. Coming(p)
    BY <1>1 DEF Coming
  <1>4. /\ channel' \in 0 .. channels /\ silent \subseteq silent' /\ silent' \subseteq 1 .. row /\ row <= row
        /\ p.write \in 1 .. row /\ p.write <= row
    <2>1. publisher[h].at = "read"
      BY DEF get_issue
    <2> QED
      BY <1>1, <1>2, <2>1, StreamParts DEF PublisherOK
  <1> QED
    BY ONLY <1>1, <1>2, <1>3, <1>4, StreamInv, h \in Publishers, PublisherMoves

LEMMA StreamPublishes ==
  ASSUME StreamInv, NEW h \in Publishers, publish(h)
  PROVE  StreamInv'
  <1>1. publisher[h].at = "publish" /\ UNCHANGED <<row, channels, stream, told, shown, silent, crossed>>
    BY DEF publish
  <1>2. CASE channel # 0 /\ receiver_count(channel) > 0
    <2> DEFINE p == [publisher[h] EXCEPT !.at = "send", !.tx = channel]
    <2>1. publisher' = [publisher EXCEPT ![h] = p] /\ channel' = channel
      BY <1>2, StreamParts DEF publish
    <2>2. p \in Handler /\ p.at = "send" /\ p.tx = channel /\ p.write = publisher[h].write /\ p.full = publisher[h].full
      BY StreamParts DEF Handler
    <2> HIDE DEF p
    <2>3. Coming(p)
      BY <2>2 DEF Coming
    <2>4. p.write \in 1 .. row /\ p.write <= p.full /\ p.full <= row /\ (~crossed => p.full = row)
      BY <1>1, <2>2, StreamParts DEF PublisherOK
    <2>5. channel' \in 0 .. channels /\ silent \subseteq silent' /\ silent' \subseteq 1 .. row
      BY <1>1, <2>1, StreamParts
    <2> QED
      BY ONLY <1>1, <2>1, <2>2, <2>3, <2>4, <2>5, StreamInv, h \in Publishers, PublisherMoves
  <1>3. CASE ~(channel # 0 /\ receiver_count(channel) > 0)
    <2>1. publisher' = [publisher EXCEPT ![h] = Unbusy] /\ channel' = 0
      BY <1>3, StreamParts DEF publish
    <2>2. \A s \in Streams : ~stream[s].open
      BY <1>3, SomeoneHears
    <2>3. channel' \in 0 .. channels
      BY <2>1, StreamParts
    <2> QED
      BY <1>1, <2>1, <2>2, <2>3, StreamIdle, StreamParts, PublisherMoves
  <1> QED
    BY <1>2, <1>3

LEMMA StreamUnheard ==
  ASSUME StreamInv, NEW h \in Publishers, write_unheard(h)
  PROVE  StreamInv'
  <1>1. /\ publisher' = [publisher EXCEPT ![h] = Unbusy] /\ silent' = silent \cup {publisher[h].write}
        /\ UNCHANGED <<row, channel, channels, stream, told, shown, crossed>> /\ publisher[h].at # "idle"
    BY DEF write_unheard
  <1>2. /\ channel' \in 0 .. channels /\ silent \subseteq silent' /\ silent' \subseteq 1 .. row
        /\ publisher[h].write \in silent'
    BY <1>1, StreamParts DEF PublisherOK
  <1> QED
    BY ONLY <1>1, <1>2, StreamIdle, StreamInv, h \in Publishers, PublisherMoves

\* A write that begins: a reader awaits it, and knows of the others as before.
LEMMA ReaderAwaits ==
  ASSUME StreamInv, NEW s \in Streams, UNCHANGED <<stream, told, shown, channel>>, NEW n \in Nat, n = row + 1, row' = n,
         crossed => crossed', Awaited(n)', \A w \in 1 .. row : Awaited(w) => Awaited(w)'
  PROVE  ReaderOK(s)'
  <1>1. ReaderOK(s) /\ told[s] \in Nat /\ row \in Nat
    BY StreamParts
  <1>2. QueueOK(stream[s].queue)'
    BY <1>1, StreamParts DEF ReaderOK, QueueOK
  <1>3. told[s] <= row' /\ \A w \in 1 .. row' : w = n \/ w \in 1 .. row
    BY <1>1 DEF ReaderOK
  <1>4. stream[s].open => stream[s].ch = channel /\ channel # 0
    BY <1>1 DEF ReaderOK
  <1>5. ASSUME stream[s].open, ~stream[s].lagged, NEW w \in 1 .. row'
        PROVE  Awaited(w)' \/ w <= told[s] \/ \E i \in 1 .. Len(stream[s].queue) : Covers(stream[s].queue[i], w)
    <2>1. CASE w = n
      BY <2>1
    <2>2. CASE w \in 1 .. row
      BY <1>1, <1>5, <2>2 DEF ReaderOK
    <2> QED
      BY <1>3, <2>1, <2>2
  <1>6. ASSUME stream[s].open, ~crossed', NEW w \in 1 .. row'
        PROVE  Awaited(w)' \/ IF stream[s].queue = << >> THEN w <= shown[s]
                              ELSE Covers(stream[s].queue[Len(stream[s].queue)], w)
    <2>1. CASE w = n
      BY <2>1
    <2>2. CASE w \in 1 .. row
      BY <1>1, <1>6, <2>2 DEF ReaderOK
    <2> QED
      BY <1>3, <2>1, <2>2
  <1>7. shown[s] <= told[s]
    BY <1>1 DEF ReaderOK
  <1> QED
    BY <1>2, <1>3, <1>4, <1>5, <1>6, <1>7 DEF ReaderOK, Covers

LEMMA StreamQuiet ==
  ASSUME StreamInv, write_quietly
  PROVE  StreamInv'
  <1>1. /\ row < MaxWrites /\ row' = row + 1 /\ silent' = silent \cup {row + 1}
        /\ UNCHANGED <<channel, channels, stream, publisher, told, shown>>
    BY DEF write_quietly
  <1>2. crossed' \in BOOLEAN /\ (crossed => crossed') /\ \A g \in Publishers : publisher[g].at # "idle" => crossed'
    BY StreamParts DEF write_quietly
  <1>3. row' \in 0 .. MaxWrites /\ row' \in Nat /\ silent' \subseteq 1 .. row'
    BY <1>1, StreamParts, StreamAssumption
  <1>4. ASSUME NEW g \in Publishers PROVE PublisherOK(g)'
    <2>1. PublisherOK(g) /\ row \in Nat /\ publisher[g].full \in Nat /\ publisher[g].write \in Nat
      BY StreamParts
    <2>2. ASSUME publisher[g].at # "idle"
          PROVE  crossed' /\ publisher[g].write \in 1 .. row' /\ publisher[g].write <= publisher[g].full /\ publisher[g].full <= row'
      BY <1>1, <1>2, <2>1, <2>2 DEF PublisherOK
    <2> QED
      BY <1>1, <2>2 DEF PublisherOK
  <1>5. PICK n \in Nat : n = row + 1
    BY StreamParts
  <1>6. Awaited(n)' /\ \A w \in 1 .. row : Awaited(w) => Awaited(w)'
    BY <1>1, <1>5 DEF Awaited, Coming
  <1>7. \A s \in Streams : ReaderOK(s)'
    BY <1>1, <1>2, <1>3, <1>6, <1>5, ReaderAwaits
  <1>8. IsFiniteSet(Opened)'
    BY <1>1, StreamParts DEF Opened
  <1> QED
    BY <1>1, <1>2, <1>3, <1>4, <1>7, <1>8, StreamFromParts, StreamParts DEF StreamInv

LEMMA StreamWrites ==
  ASSUME StreamInv, NEW h \in Publishers, NEW what \in {"issue", "epic", "ids"}, write_row(h, what)
  PROVE  StreamInv'
  <1>1. PICK p : p = [at |-> IF what = "issue" THEN "read" ELSE "publish", ids |-> what = "ids",
                      write |-> row + 1, full |-> row + 1, tx |-> 0]
    OBVIOUS
  <1>2. /\ publisher[h].at = "idle" /\ row < MaxWrites /\ row' = row + 1 /\ publisher' = [publisher EXCEPT ![h] = p]
        /\ UNCHANGED <<channel, channels, stream, told, shown, silent>>
    BY <1>1 DEF write_row
  <1>3. crossed' \in BOOLEAN /\ (crossed => crossed') /\ \A g \in Publishers : publisher[g].at # "idle" => crossed'
    BY StreamParts DEF write_row
  <1>4. /\ p.at = (IF what = "issue" THEN "read" ELSE "publish") /\ p.full = row + 1 /\ p.write = row + 1 /\ p.tx = 0
        /\ p.ids \in BOOLEAN
    BY <1>1
  <1>5. p \in Handler
    <2>1. p = [at |-> p.at, ids |-> p.ids, write |-> p.write, full |-> p.full, tx |-> p.tx]
      BY <1>1
    <2>2. p.at \in {"idle", "read", "publish", "send"} /\ p.full \in Nat /\ p.write \in Nat /\ p.tx \in Nat
      BY <1>4, StreamParts
    <2> QED
      BY <1>4, <2>1, <2>2 DEF Handler
  <1>6. publisher' \in [Publishers -> Handler] /\ publisher'[h] = p /\ \A g \in Publishers \ {h} : publisher'[g] = publisher[g]
    BY <1>2, <1>5, StreamParts
  <1>7. row' \in 0 .. MaxWrites /\ row' \in Nat /\ row <= row' /\ silent' \subseteq 1 .. row'
    BY <1>2, StreamParts, StreamAssumption
  <1>8. ASSUME NEW g \in Publishers PROVE PublisherOK(g)'
    <2>1. CASE g = h
      BY <1>2, <1>4, <1>6, <2>1, StreamParts DEF PublisherOK
    <2>2. CASE g # h
      BY <1>2, <1>3, <1>6, <2>2, StreamParts DEF PublisherOK
    <2> QED
      BY <2>1, <2>2
  <1>9. PICK n \in Nat : n = row + 1
    BY StreamParts
  <1>10. Awaited(n)' /\ \A w \in 1 .. row : Awaited(w) => Awaited(w)'
    <2>1. Coming(publisher[h])' /\ publisher'[h].write = n /\ ~Coming(publisher[h])
      BY <1>2, <1>4, <1>6, <1>9 DEF Coming
    <2>2. \A g \in Publishers \ {h} : Coming(publisher[g])' <=> Coming(publisher[g])
      BY <1>2, <1>6 DEF Coming
    <2>3. Awaited(n)'
      BY <2>1 DEF Awaited
    <2>4. ASSUME NEW w \in 1 .. row, Awaited(w) PROVE Awaited(w)'
      <3>1. CASE w \in silent
        BY <1>2, <3>1 DEF Awaited
      <3>2. ASSUME NEW g \in Publishers, Coming(publisher[g]), publisher[g].write = w PROVE Awaited(w)'
        <4>1. g \in Publishers \ {h}
          BY <2>1, <3>2
        <4>2. Coming(publisher[g])' /\ publisher'[g].write = w
          BY <1>6, <2>2, <3>2, <4>1
        <4> QED
          BY <4>2 DEF Awaited
      <3> QED
        BY <2>4, <3>1, <3>2 DEF Awaited
    <2> QED
      BY <2>3, <2>4
  <1>11. \A s \in Streams : ReaderOK(s)'
    BY <1>2, <1>3, <1>10, <1>9, ReaderAwaits
  <1>12. IsFiniteSet(Opened)'
    BY <1>2, StreamParts DEF Opened
  <1> QED
    BY <1>2, <1>3, <1>6, <1>7, <1>8, <1>11, <1>12, StreamFromParts DEF StreamInv

Outlives(q, e, r, T) ==
    /\ r \in Seq(T) /\ Len(r) \in 1 .. ChannelCapacity /\ r[Len(r)] = e /\ r # << >>
    /\ \A i \in 1 .. Len(r) : r[i] = e \/ \E j \in 1 .. Len(q) : r[i] = q[j]
    /\ Len(q) # ChannelCapacity => \A i \in 1 .. Len(q) : i \in 1 .. Len(r) /\ r[i] = q[i]

\* What a receiver of a full ring loses is the oldest; the newest stays last.
LEMMA PushedKeeps ==
  ASSUME NEW T, NEW q \in Seq(T), NEW e \in T, Len(q) <= ChannelCapacity
  PROVE  Outlives(q, e, Pushed(q, e), T)
  <1> SUFFICES ASSUME NEW r, r = Pushed(q, e) PROVE Outlives(q, e, r, T)
    OBVIOUS
  <1>1. PICK a : a = Append(q, e)
    OBVIOUS
  <1>2. /\ a \in Seq(T) /\ Len(a) = Len(q) + 1 /\ a # << >> /\ Len(q) \in Nat /\ a[Len(a)] = e
        /\ \A i \in 1 .. Len(q) : a[i] = q[i]
    BY <1>1, AppendProperties, LenProperties, EmptySeq
  <1>3. \A i \in 1 .. Len(a) : a[i] = e \/ \E j \in 1 .. Len(q) : a[i] = q[j]
    <2> TAKE i \in 1 .. Len(a)
    <2>1. i = Len(a) \/ i \in 1 .. Len(q)
      BY <1>2
    <2> QED
      BY <1>2, <2>1
  <1>4. CASE Len(q) = ChannelCapacity
    <2>1. Pushed(q, e) = Tail(a)
      BY <1>1, <1>2, <1>4, StreamAssumption DEF Pushed
    <2>2. r = Tail(a)
      BY <2>1
    <2>3. r \in Seq(T) /\ Len(r) = Len(a) - 1 /\ \A i \in 1 .. Len(a) - 1 : r[i] = a[i + 1]
      BY <1>2, <2>2, TailKeeps
    <2>4. Len(r) \in 1 .. ChannelCapacity /\ r[Len(r)] = e /\ r # << >>
      BY <1>2, <1>4, <2>3, StreamAssumption, EmptySeq
    <2>5. \A i \in 1 .. Len(r) : r[i] = e \/ \E j \in 1 .. Len(q) : r[i] = q[j]
      <3> TAKE i \in 1 .. Len(r)
      <3>1. i + 1 \in 1 .. Len(a) /\ r[i] = a[i + 1]
        BY <1>2, <2>3
      <3> QED
        BY <1>3, <3>1
    <2> QED
      BY <1>4, <2>3, <2>4, <2>5 DEF Outlives
  <1>5. CASE Len(q) # ChannelCapacity
    <2>1. Pushed(q, e) = a
      BY <1>1, <1>2, <1>5, StreamAssumption DEF Pushed
    <2>2. Len(a) \in 1 .. ChannelCapacity /\ \A i \in 1 .. Len(q) : i \in 1 .. Len(a)
      BY <1>2, <1>5, StreamAssumption
    <2> QED
      BY <1>2, <1>3, <2>1, <2>2 DEF Outlives
  <1> QED
    BY <1>4, <1>5

LEMMA StreamSends ==
  ASSUME StreamInv, NEW h \in Publishers, send(h)
  PROVE  StreamInv'
  <1>1. PICK e : e = payload(publisher[h])
    OBVIOUS
  <1>2. PICK c \in Nat : c = publisher[h].tx
    BY StreamParts
  <1>3. /\ publisher[h].at = "send" /\ publisher' = [publisher EXCEPT ![h] = Unbusy]
        /\ UNCHANGED <<row, channel, channels, told, shown, silent, crossed>>
        /\ stream' = [s \in Streams |->
             IF stream[s].open /\ stream[s].ch = c
             THEN [open |-> TRUE, ch |-> c, queue |-> Pushed(stream[s].queue, e),
                   lagged |-> stream[s].lagged \/ Len(stream[s].queue) = ChannelCapacity]
             ELSE stream[s]]
    BY <1>1, <1>2 DEF send
  <1>4. /\ e \in Nat \cup {Ids} /\ (e = Ids \/ e \in 0 .. row) /\ (~crossed => e \in {Ids, row})
        /\ Covers(e, publisher[h].write)
    BY <1>1, <1>3, StreamParts DEF PublisherOK, payload, Covers
  <1>5. publisher' \in [Publishers -> Handler] /\ publisher'[h] = Unbusy /\ \A g \in Publishers \ {h} : publisher'[g] = publisher[g]
    BY <1>3, StreamIdle, StreamParts
  <1>6. ASSUME NEW g \in Publishers PROVE PublisherOK(g)'
    BY <1>3, <1>5, StreamIdle, StreamParts DEF PublisherOK
  <1>7. \A w : Awaited(w) => Awaited(w)' \/ (Coming(publisher[h]) /\ publisher[h].write = w)
    BY <1>3, <1>5 DEF Awaited, Coming
  <1>8. ASSUME NEW s \in Streams, ~(stream[s].open /\ stream[s].ch = c) PROVE stream'[s] = stream[s] /\ ReaderOK(s)'
    <2>1. stream'[s] = stream[s] /\ ReaderOK(s) /\ told' = told /\ shown' = shown
      BY <1>3, <1>8, StreamParts
    <2>2. stream[s].open => ~Coming(publisher[h])
      BY <1>2, <1>3, <1>8, <2>1 DEF ReaderOK, Coming
    <2> QED
      BY <1>3, <1>7, <2>1, <2>2, ReaderStays
  <1>9. ASSUME NEW s \in Streams, stream[s].open, stream[s].ch = c
        PROVE  stream'[s] \in Receiver /\ stream'[s].open = stream[s].open /\ ReaderOK(s)'
    <2>1. PICK n : n = stream'[s]
      OBVIOUS
    <2>2. PICK q \in Seq(Nat \cup {Ids}) : q = stream[s].queue
      BY StreamParts
    <2>3. PICK r : r = Pushed(q, e)
      OBVIOUS
    <2>4. /\ n = [open |-> TRUE, ch |-> c, queue |-> r, lagged |-> stream[s].lagged \/ Len(q) = ChannelCapacity]
          /\ ReaderOK(s) /\ stream[s].lagged \in BOOLEAN
      BY <1>3, <1>9, <2>1, <2>2, <2>3, StreamParts
    <2>5. QueueOK(q)
      BY <2>2, <2>4 DEF ReaderOK
    <2>6. /\ r \in Seq(Nat \cup {Ids}) /\ Len(r) \in 1 .. ChannelCapacity /\ r[Len(r)] = e /\ r # << >>
          /\ \A i \in 1 .. Len(r) : r[i] = e \/ \E j \in 1 .. Len(q) : r[i] = q[j]
          /\ Len(q) # ChannelCapacity => \A i \in 1 .. Len(q) : i \in 1 .. Len(r) /\ r[i] = q[i]
      <3>1. PICK T : T = Nat \cup {Ids}
        OBVIOUS
      <3>2. Len(q) <= ChannelCapacity /\ e \in T /\ q \in Seq(T)
        BY <1>4, <2>5, <3>1 DEF QueueOK
      <3>3. Outlives(q, e, r, T)
        BY <2>3, <3>2, PushedKeeps
      <3> QED
        BY <3>1, <3>3 DEF Outlives
    <2>7. /\ n.open /\ n.ch = c /\ n.queue = r /\ n.lagged \in BOOLEAN
          /\ n.lagged <=> stream[s].lagged \/ Len(q) = ChannelCapacity
      BY <2>4
    <2>8. n \in Receiver
      <3>1. n = [open |-> n.open, ch |-> n.ch, queue |-> n.queue, lagged |-> n.lagged]
        BY <2>4
      <3> QED
        BY <2>6, <2>7, <3>1 DEF Receiver
    <2>9. QueueOK(r)'
      <3>1. Len(r) <= ChannelCapacity /\ \A i \in 1 .. Len(r) : r[i] = Ids \/ r[i] \in 0 .. row
        BY <1>4, <2>5, <2>6, StreamAssumption DEF QueueOK
      <3> QED
        BY <1>3, <3>1 DEF QueueOK
    <2>10. c = channel /\ channel # 0 /\ shown[s] <= told[s] /\ told[s] <= row
      BY <1>9, <2>4 DEF ReaderOK
    <2>11. ASSUME ~n.lagged, NEW w \in 1 .. row
           PROVE  Awaited(w)' \/ w <= told[s] \/ \E i \in 1 .. Len(r) : Covers(r[i], w)
      <3>1. ~stream[s].lagged /\ Len(q) # ChannelCapacity
        BY <2>7, <2>11
      <3>2. Awaited(w) \/ w <= told[s] \/ \E i \in 1 .. Len(q) : Covers(q[i], w)
        BY <1>9, <2>2, <2>4, <3>1 DEF ReaderOK
      <3>3. publisher[h].write = w => Covers(r[Len(r)], w)
        BY <1>4, <2>6
      <3>4. Len(r) \in 1 .. Len(r)
        BY <2>6
      <3>5. (\E i \in 1 .. Len(q) : Covers(q[i], w)) => \E i \in 1 .. Len(r) : Covers(r[i], w)
        BY <2>6, <3>1
      <3> QED
        BY <1>7, <3>2, <3>3, <3>4, <3>5
    <2>12. ASSUME ~crossed, NEW w \in 1 .. row PROVE r # << >> /\ Covers(r[Len(r)], w)
      <3>1. r # << >> /\ (r[Len(r)] = Ids \/ r[Len(r)] = row)
        BY <1>4, <2>6, <2>12
      <3> QED
        BY <3>1, StreamParts DEF Covers
    <2>13. ReaderOK(s)'
      <3>1. stream'[s] = n /\ told' = told /\ shown' = shown /\ channel' = channel /\ row' = row /\ silent' = silent /\ crossed' = crossed
        BY <1>3, <2>1
      <3> QED
        BY <2>7, <2>9, <2>10, <2>11, <2>12, <3>1 DEF ReaderOK, Covers
    <2> QED
      BY <1>9, <2>1, <2>7, <2>8, <2>13
  <1>10. ASSUME NEW s \in Streams PROVE stream'[s] \in Receiver /\ stream'[s].open = stream[s].open /\ ReaderOK(s)'
    BY <1>8, <1>9, StreamParts
  <1>11. stream' \in [Streams -> Receiver]
    <2>1. stream' = [s \in Streams |-> stream'[s]]
      BY <1>3
    <2> QED
      BY <1>10, <2>1
  <1>12. IsFiniteSet(Opened)'
    <2>1. Opened' = Opened
      BY <1>10 DEF Opened
    <2> QED
      BY <2>1, StreamParts
  <1> QED
    BY <1>3, <1>5, <1>6, <1>10, <1>11, <1>12, StreamFromParts, StreamParts DEF StreamInv

LEMMA StreamInvStep ==
  ASSUME StreamInv, [StreamNext]_streamVars
  PROVE  StreamInv'
  <1>1. CASE UNCHANGED streamVars
    BY <1>1 DEF StreamInv, streamVars, Opened, PublisherOK, ReaderOK, QueueOK, Awaited, Coming, Covers
  <1>2. CASE StreamNext
    BY <1>2, StreamOpens, StreamEnds, StreamLagged, StreamHears, StreamWrites, StreamReads, StreamPublishes,
       StreamSends, StreamUnheard, StreamQuiet DEF StreamNext
  <1> QED
    BY <1>1, <1>2

LEMMA StreamInvKeepsUp == StreamInv => StreamTypeOK /\ StreamKeepsUp
  <1> SUFFICES ASSUME StreamInv PROVE StreamTypeOK /\ StreamKeepsUp
    OBVIOUS
  <1>1. StreamTypeOK
    BY StreamParts DEF StreamInv, StreamTypeOK, ReaderOK, QueueOK
  <1>2. ASSUME NEW s \in Streams, stream[s].open, stream[s].queue = << >>, ~stream[s].lagged,
               \A h \in Publishers : publisher[h].at = "idle"
        PROVE  /\ (told[s] + 1) .. row \subseteq silent
               /\ crossed \/ (shown[s] + 1) .. row \subseteq silent
    <2>1. /\ ReaderOK(s) /\ told[s] \in Nat /\ shown[s] \in Nat /\ row \in Nat
          /\ ~ \E i \in 1 .. Len(stream[s].queue) : TRUE
      BY <1>2, StreamParts, EmptySeq
    <2>2. \A w : Awaited(w) => w \in silent
      BY <1>2 DEF Awaited, Coming
    <2>3. ASSUME NEW w \in (told[s] + 1) .. row PROVE w \in silent
      <3>1. w \in 1 .. row /\ ~(w <= told[s])
        BY <2>1
      <3> QED
        BY <1>2, <2>1, <2>2, <3>1 DEF ReaderOK
    <2>4. ASSUME ~crossed, NEW w \in (shown[s] + 1) .. row PROVE w \in silent
      <3>1. w \in 1 .. row /\ ~(w <= shown[s])
        BY <2>1
      <3> QED
        BY <1>2, <2>1, <2>2, <2>4, <3>1 DEF ReaderOK
    <2> QED
      BY <2>3, <2>4
  <1>3. \A s \in Streams : stream[s].open => stream[s].ch = channel
    BY StreamParts DEF ReaderOK
  <1> QED
    BY <1>1, <1>2, <1>3 DEF StreamKeepsUp

\* For any number of streams, writers and any size of the ring, an open stream
\* hangs on the channel that publications find; once they are out and read its
\* reader has heard of every write but latest ones that nobody published, and
\* shows an older one only where a write came between another and its
\* publication: subscribe and publish of EventBus, the handlers that write and
\* then publish, and those that do not.
THEOREM StreamsKeepUp == StreamSpec => [](StreamTypeOK /\ StreamKeepsUp)
  <1>1. StreamInit => StreamInv
    BY StreamInvInit
  <1>2. StreamInv /\ [StreamNext]_streamVars => StreamInv'
    BY StreamInvStep
  <1>3. StreamInv => StreamTypeOK /\ StreamKeepsUp
    BY StreamInvKeepsUp
  <1> QED
    BY <1>1, <1>2, <1>3, PTL DEF StreamSpec

-----------------------------------------------------------------------------
(* MCProjectWork.                                                          *)

\* A step of the whole is one of the component whose scene it is, and leaves
\* every other as it was.
LEMMA WorkSteps ==
  ASSUME [WorkNext]_workVars
  PROVE  /\ [TreeNext]_treeVars /\ [TimeNext]_timeVars /\ [TaxNext]_taxVars /\ [MakeNext]_makeVars
         /\ [RelNext]_relVars /\ [DateNext]_dateVars /\ [StreamNext]_streamVars
  <1>1. CASE UNCHANGED workVars
    BY <1>1 DEF workVars
  <1>2. CASE WorkNext
    BY <1>2 DEF WorkNext
  <1> QED
    BY <1>1, <1>2

\* Each component of a project's work runs as its own specification says,
\* whatever scene it is; what the theorems above say of it, the whole keeps.
THEOREM WorkRunsApart ==
    WorkSpec => TreeSpec /\ TimeSpec /\ TaxSpec /\ MakeSpec /\ RelSpec /\ DateSpec /\ StreamSpec
  <1>1. WorkInit => TreeInit /\ TimeInit /\ TaxInit /\ MakeInit /\ RelInit /\ DateInit /\ StreamInit
    BY DEF WorkInit
  <1>2. [WorkNext]_workVars =>
          /\ [TreeNext]_treeVars /\ [TimeNext]_timeVars /\ [TaxNext]_taxVars /\ [MakeNext]_makeVars
          /\ [RelNext]_relVars /\ [DateNext]_dateVars /\ [StreamNext]_streamVars
    BY WorkSteps
  <1> QED
    BY <1>1, <1>2, PTL DEF WorkSpec, TreeSpec, TimeSpec, TaxSpec, MakeSpec, RelSpec, DateSpec, StreamSpec

\* The variables of every component keep their types and the rows that refer
\* to each other stay consistent, for any number of handlers: entries and
\* bookings, ranks and items, refs and keys, versions and releases.
THEOREM WorkTypesHold == WorkSpec => []WorkTypeOK
  <1>1. /\ TreeTypeOK /\ TimeTypeOK /\ TaxTypeOK /\ MakeTypeOK /\ RelTypeOK /\ DateTypeOK /\ StreamTypeOK
        => WorkTypeOK
    BY DEF WorkTypeOK
  <1> QED
    BY <1>1, WorkRunsApart, TreeTypeCorrect, TimeTypeCorrect, CataloguesKeepTypes, RetriesMakeOne,
       MirrorsNeedCause, RefusalsAreExplained, StreamsKeepUp, PTL

\* What holds of each component's rows and handlers holds in the whole: no
\* cycle without an overlap, a failed walk or an import, no drift from an
\* epic's milestone without an overlap, one issue per key, a mirror and a
\* refusal that have their cause, and a feed that keeps up but for the writes
\* that nobody publishes.
THEOREM WholeKeepsWork ==
    WorkSpec => [](/\ CycleNeedsCause /\ DriftNeedsOverlap /\ RetryMakesOne
                   /\ MirrorNeedsCause /\ RefusalIsExplained /\ StreamKeepsUp)
  BY WorkRunsApart, CyclesNeedCause, DriftsNeedOverlap, RetriesMakeOne, MirrorsNeedCause,
     RefusalsAreExplained, StreamsKeepUp, PTL

\* What readers are shown agrees with the rows, for any number of people and
\* entries: the reports of logged time with each other, and the live feed
\* with what was written, but for the latest writes that nobody published.
THEOREM WholeViewsAgree == WorkSpec => []ViewsAgree
  BY WorkRunsApart, ReportsAlwaysAgree, StreamsKeepUp, PTL DEF ViewsAgree
=============================================================================
