------------------------------ MODULE Throttle ------------------------------
(***************************************************************************)
(* What slows callers down: the request budget per address, and the delay  *)
(* that failed logins put before the next.                                 *)
(*                                                                         *)
(* Source: middleware/rate_limit.rs and auth/mod.rs of crates/api, the     *)
(* start and the failures of login in auth/handlers.rs, and                *)
(* login_attempts.rs of crates/db.                                         *)
(*                                                                         *)
(* A login counts the failures of its identifier or address in the last    *)
(* hour, sleeps for as long as the curve says, and records how it went:    *)
(* three steps, between which other logins run.  The attempts are never    *)
(* pruned, so that only their age takes them out of the count.             *)
(***************************************************************************)
EXTENDS Integers, Sequences, FiniteSets

CONSTANTS
    Addresses, Identifiers, Logins,
    Anonymous,
    Window, AuthPerMin, UnauthPerMin,   \* seconds and budgets
    FailureWindow,
    Tock,           \* seconds between the moments at which things happen, for TLC
    Patience,       \* bound on the clock, for TLC
    MaxRequests, MaxAttempts    \* bounds on the requests and on the logins, for TLC

ASSUME ThrottleAssumption ==
    /\ {Window, Tock} \subseteq Nat \ {0} /\ FailureWindow \in Nat
    /\ {AuthPerMin, UnauthPerMin, Patience, MaxRequests, MaxAttempts} \subseteq Nat

VARIABLES
    clock,
    bucket,     \* <<address, whether the request carries credentials>> -> [count, started]
    passed,     \* history: the same -> when requests were let through, oldest first
    failed,     \* login_attempts: the failures, oldest first, as [id, ip, at, excused]
    login,      \* request -> [at, id, ip, wake, excused]
    attempts    \* requests or logins so far

throttleVars == <<clock, bucket, passed, failed, login, attempts>>

NoLogin == [at |-> "idle", id |-> Anonymous, ip |-> Anonymous, wake |-> 0, excused |-> FALSE]

\* A quiet service, or one where an identifier has just failed from an address
\* as often as goes without delay.
ThrottleInit ==
    /\ clock = 0 /\ bucket = << >> /\ attempts = 0
    /\ \E n \in {0, 3}, who \in Identifiers, from \in Addresses :
         failed = [i \in 1 .. n |-> [id |-> who, ip |-> from, at |-> 0, excused |-> FALSE]]
    /\ passed = [k \in Addresses \X BOOLEAN |-> << >>]
    /\ login = [h \in Logins |-> NoLogin]

-----------------------------------------------------------------------------
(* The budget.                                                             *)

Limit(k) == IF k[2] THEN AuthPerMin ELSE UnauthPerMin

\* Mutant: every request opens a window.
CheckForgets(k) == [count |-> 1, started |-> clock]

\* check: a new window where the last is over, and one more request in it.
check(k) ==
    IF k \notin DOMAIN bucket \/ clock - bucket[k].started >= Window
    THEN [count |-> 1, started |-> clock]
    ELSE [bucket[k] EXCEPT !.count = @ + 1]

\* layer: the request is counted, and goes on while the count is in budget.
layer(k, goes_on) ==
    /\ attempts < MaxRequests /\ attempts' = attempts + 1
    /\ bucket' = [j \in DOMAIN bucket \cup {k} |-> IF j = k THEN check(k) ELSE bucket[j]]
    /\ goes_on = (bucket'[k].count <= Limit(k))
    /\ passed' = IF goes_on THEN [passed EXCEPT ![k] = Append(@, clock)] ELSE passed
    /\ UNCHANGED <<clock, failed, login>>

-----------------------------------------------------------------------------
(* The delay.                                                              *)

\* Mutant: the delay begins one failure late.
LateDelay(failures) == IF failures < 5 THEN 0 ELSE 2 ^ (failures - 3)

\* 2u64.saturating_pow(exponent), for the exponents there are.
PowerOfTwo == <<2, 4, 8, 16, 32>>

\* Below four failures none, then 2, 4, 8, 16 and at most 30 seconds.
lockout_delay(failures) ==
    LET exponent == IF failures - 3 < 5 THEN failures - 3 ELSE 5 IN
    IF failures < 4 THEN 0 ELSE IF PowerOfTwo[exponent] < 30 THEN PowerOfTwo[exponent] ELSE 30

\* The failures of the identifier or of the address since a moment.
recent_failures(log, id, ip, since) ==
    Cardinality({i \in DOMAIN log : log[i].at >= since /\ (log[i].id = id \/ log[i].ip = ip)})

\* A login that was let in counts, and sleeps.  A count that fails is read as
\* none.
login_sleeps(h, id, ip, counted) ==
    LET failures == IF counted THEN recent_failures(failed, id, ip, clock - FailureWindow) ELSE 0 IN
    /\ login[h].at = "idle" /\ attempts < MaxAttempts /\ attempts' = attempts + 1
    /\ login' = [login EXCEPT ![h] = [at |-> "sleep", id |-> id, ip |-> ip,
                                      wake |-> clock + lockout_delay(failures), excused |-> ~counted]]
    /\ UNCHANGED <<clock, bucket, passed, failed>>

\* It wakes and is refused: the failure is recorded, and those who have
\* counted without it are excused.
login_fails(h) ==
    LET k == login[h] IN
    /\ k.at = "sleep" /\ clock >= k.wake
    /\ failed' = Append(failed, [id |-> k.id, ip |-> k.ip, at |-> clock, excused |-> k.excused])
    /\ login' = [g \in Logins |-> IF g = h THEN NoLogin
                   ELSE IF login[g].at = "sleep" /\ (login[g].id = k.id \/ login[g].ip = k.ip)
                        THEN [login[g] EXCEPT !.excused = TRUE] ELSE login[g]]
    /\ UNCHANGED <<clock, bucket, passed, attempts>>

\* It succeeds, is turned away unrecorded, or its record is lost: the failures
\* stay as they are.
login_ends(h) ==
    /\ login[h].at = "sleep" /\ clock >= login[h].wake
    /\ login' = [login EXCEPT ![h] = NoLogin]
    /\ UNCHANGED <<clock, bucket, passed, failed, attempts>>

Tick ==
    /\ clock + Tock <= Patience /\ clock' = clock + Tock
    /\ UNCHANGED <<bucket, passed, failed, login, attempts>>

\* The two share nothing but the clock, and run apart: a request out of budget
\* only keeps a login from beginning.
BudgetNext ==
    \/ \E ip \in Addresses, authenticated, goes_on \in BOOLEAN : layer(<<ip, authenticated>>, goes_on)
    \/ Tick

DelayNext ==
    \/ \E h \in Logins :
         \/ \E id \in Identifiers, ip \in Addresses, counted \in BOOLEAN : login_sleeps(h, id, ip, counted)
         \/ login_fails(h) \/ login_ends(h)
    \/ Tick

\* Side by side.
ThrottleSpec == ThrottleInit /\ [][BudgetNext \/ DelayNext]_throttleVars

-----------------------------------------------------------------------------
(* Properties.                                                             *)

ThrottleTypeOK ==
    /\ clock \in 0 .. Patience /\ attempts \in Nat
    /\ DOMAIN bucket \subseteq Addresses \X BOOLEAN
    /\ \A k \in DOMAIN bucket : bucket[k].count \in 1 .. MaxRequests /\ bucket[k].started <= clock
    /\ \A h \in Logins : login[h].at \in {"idle", "sleep"}

\* The policy: the fifth attempt waits, and from the sixth on 4 s at least.
PolicyWait(failures) == IF failures < 4 THEN 0 ELSE IF failures = 4 THEN 2 ELSE 4

\* However requests fall on the edges of the windows, an address gets no more
\* than twice its budget in any span of a window's length; and a login that
\* fails does so no sooner than the policy says after the last failure of
\* its identifier or address, by the failures of the hour before it, but for
\* logins that had counted before that failure was recorded and for counts
\* that failed.
CallersAreSlowed ==
    /\ \A k \in Addresses \X BOOLEAN :
         \A i \in 1 .. Len(passed[k]) - 2 * Limit(k) : passed[k][i + 2 * Limit(k)] - passed[k][i] >= Window
    /\ \A i \in DOMAIN failed :
         LET f == failed[i]
             before == {j \in 1 .. i - 1 : failed[j].id = f.id \/ failed[j].ip = f.ip}
             recent == {j \in before : failed[j].at >= f.at - FailureWindow} IN
         ~f.excused => \A j \in before : f.at - failed[j].at >= PolicyWait(Cardinality(recent))
=============================================================================
