-------------------------- MODULE SuperadminGuard --------------------------
(***************************************************************************)
(* The last-superadmin guard.  Demotion, deactivation, ban and deletion of *)
(* an account each run one transaction: lock the account's row (SELECT ... *)
(* FOR UPDATE), read its flags, count the other usable superadmins, write. *)
(* Postgres runs it at READ COMMITTED, so the count sees what is committed *)
(* at that moment and holds nothing still.                                 *)
(*                                                                         *)
(* Source: crates/db/src/users.rs, crates/api/src/admin/handlers.rs,       *)
(* crates/api/src/auth/extractor.rs, crates/api/src/oidc/resolve.rs.       *)
(***************************************************************************)
EXTENDS Naturals, Sequences, FiniteSets

CONSTANTS
    Users,
    Requests,       \* admin requests and sign-in syncs in flight
    NoUser, NoRequest,
    BootstrapUser,  \* INTELLIPILOT_BOOTSTRAP_ADMIN_EMAIL, NoUser: unset
    Unguarded       \* whether DELETE /me and the LDAP sync are exercised

ASSUME GuardAssumption ==
    /\ NoUser \notin Users /\ NoRequest \notin Requests
    /\ BootstrapUser \in Users \cup {NoUser}
    /\ Unguarded \in BOOLEAN

Ops == {"promote", "demote", "activate", "deactivate", "ban", "unban", "delete"}

\* What one request does.  update_user applies is_superadmin, then is_active,
\* each in its own transaction, and stops at the first refusal.
UpdateUser == {<<s, a>> : s \in {"promote", "demote"}, a \in {"activate", "deactivate"}}
AdminRequests == {<<op>> : op \in Ops} \cup UpdateUser
WorkLists == AdminRequests \cup {<<>>}

VARIABLES
    superadmin,     \* users.is_superadmin
    inactive,       \* users.is_active = false
    banned,         \* users.banned_at IS NOT NULL
    deleted,        \* users.deleted_at IS NOT NULL
    rowLock,        \* who holds the FOR UPDATE lock on each users row
    pc,             \* the next statement of each request
    target,         \* the account a request is about
    todo,           \* the transactions a request has left to run
    risk,           \* is_last_admin_risk of the row, as read under the lock
    exposed         \* history, "yes": two guarded transactions have overlapped,
                    \* or a writer without the guard has run

userVars == <<superadmin, inactive, banned, deleted>>
reqVars == <<target, todo>>
vars == <<userVars, rowLock, pc, reqVars, risk, exposed>>

Steps == {"idle", "lock", "count", "write"}

\* What it takes to reach the admin area (ACTIVE_SUPERADMIN).
Usable(u) == u \in superadmin \ (inactive \cup banned \cup deleted)

\* A deployment that has been bootstrapped.
Init ==
    /\ superadmin \in SUBSET Users /\ superadmin # {}
    /\ inactive = {} /\ banned = {} /\ deleted = {}
    /\ rowLock = [u \in Users |-> NoRequest]
    /\ pc = [r \in Requests |-> "idle"]
    /\ target = [r \in Requests |-> NoUser]
    /\ todo = [r \in Requests |-> <<>>]
    /\ risk = [r \in Requests |-> FALSE]
    /\ exposed = "no"

Goto(r, step) == pc' = [pc EXCEPT ![r] = step]
Lock(r, u) == rowLock' = [rowLock EXCEPT ![u] = r]

\* Mutated form: the lock is left to the account.
UnlockToUser(u) == rowLock' = [rowLock EXCEPT ![u] = NoUser]

Unlock(u) == rowLock' = [rowLock EXCEPT ![u] = NoRequest]

Begin(r, u, ops) ==
    /\ pc[r] = "idle"
    /\ Goto(r, "lock")
    /\ target' = [target EXCEPT ![r] = u]
    /\ todo' = [todo EXCEPT ![r] = ops]
    /\ UNCHANGED <<userVars, rowLock, risk, exposed>>

\* The SuperadminUser extractor admits the caller, then the handler of
\* update_user, ban_user (never oneself), unban_user or delete_user starts.
AdminRequest(r, admin, u, ops) ==
    /\ Usable(admin)
    /\ ops = <<"ban">> => u # admin
    /\ Begin(r, u, ops)

\* sync_superadmin after an OIDC sign-in: only a difference is written.
OidcSync(r, u) ==
    /\ u \notin deleted
    /\ \/ u \in superadmin /\ Begin(r, u, <<"demote">>)
       \/ u \notin superadmin /\ Begin(r, u, <<"promote">>)

-----------------------------------------------------------------------------
(* One guarded transaction: set_superadmin, set_active, set_banned or       *)
(* soft_delete_guarded.                                                     *)

is_last_admin_risk(u) == u \in superadmin /\ u \notin inactive /\ u \notin banned

RemovesAccess(op) == op \in {"demote", "deactivate", "ban", "delete"}

\* The request is answered, "refused" included, and its locals are gone.
Respond(r) ==
    /\ Goto(r, "idle")
    /\ target' = [target EXCEPT ![r] = NoUser]
    /\ todo' = [todo EXCEPT ![r] = <<>>]
    /\ risk' = [risk EXCEPT ![r] = FALSE]

InTransaction(r) == pc[r] \in {"count", "write"}

\* The row is there: read its flags, and count only when it matters.
Decide(r) ==
    /\ target[r] \notin deleted
    /\ risk' = [risk EXCEPT ![r] = is_last_admin_risk(target[r])]
    /\ Goto(r, IF RemovesAccess(Head(todo[r])) /\ is_last_admin_risk(target[r])
               THEN "count" ELSE "write")
    /\ exposed' = IF \E q \in Requests \ {r} : InTransaction(q) THEN "yes" ELSE exposed
    /\ UNCHANGED reqVars

\* Mutated form: the row is read without FOR UPDATE.
ReadTarget(r) ==
    /\ pc[r] = "lock"
    /\ Decide(r)
    /\ UNCHANGED <<userVars, rowLock>>

\* SELECT ... FOR UPDATE: waits for the row, then reads its latest version.
LockTarget(r) ==
    /\ pc[r] = "lock"
    /\ rowLock[target[r]] = NoRequest
    /\ \/ /\ target[r] \in deleted
          /\ Respond(r)
          /\ UNCHANGED <<rowLock, exposed>>
       \/ /\ Decide(r)
          /\ Lock(r, target[r])
    /\ UNCHANGED userVars

\* Mutated form: the count does not exclude the target itself.
AnySurvivor(u) == \E v \in Users : Usable(v)

\* SELECT COUNT(*) ... WHERE id <> $1 is not zero.
AnotherSurvives(u) == \E v \in Users \ {u} : Usable(v)

\* Mutated form: the refusal leaves the transaction open.
CountKeepsLock(r) ==
    /\ pc[r] = "count"
    /\ \/ AnotherSurvives(target[r]) /\ Goto(r, "write") /\ UNCHANGED <<reqVars, risk>>
       \/ ~AnotherSurvives(target[r]) /\ Respond(r)
    /\ UNCHANGED <<userVars, rowLock, exposed>>

CountOthers(r) ==
    /\ pc[r] = "count"
    /\ \/ /\ AnotherSurvives(target[r])
          /\ Goto(r, "write")
          /\ UNCHANGED <<rowLock, reqVars, risk>>
       \/ /\ ~AnotherSurvives(target[r])
          /\ Unlock(target[r])
          /\ Respond(r)
    /\ UNCHANGED <<userVars, exposed>>

Apply(op, u) ==
    /\ superadmin' = CASE op = "promote" -> superadmin \cup {u}
                       [] op = "demote" -> superadmin \ {u}
                       [] OTHER -> superadmin
    /\ inactive' = CASE op \in {"deactivate", "delete"} -> inactive \cup {u}
                     [] op = "activate" -> inactive \ {u}
                     [] OTHER -> inactive
    /\ banned' = CASE op = "ban" -> banned \cup {u}
                   [] op = "unban" -> banned \ {u}
                   [] OTHER -> banned
    /\ deleted' = IF op = "delete" THEN deleted \cup {u} ELSE deleted

\* UPDATE and COMMIT; then the request's next transaction, if it has one.
WriteAndCommit(r) ==
    /\ pc[r] = "write"
    /\ Apply(Head(todo[r]), target[r])
    /\ Unlock(target[r])
    /\ \/ /\ Len(todo[r]) > 1
          /\ Goto(r, "lock")
          /\ todo' = [todo EXCEPT ![r] = Tail(@)]
          /\ UNCHANGED <<target, risk>>
       \/ /\ Len(todo[r]) <= 1
          /\ Respond(r)
    /\ UNCHANGED exposed

\* A statement fails or the connection is lost: the transaction rolls back.
Abort(r) ==
    /\ pc[r] # "idle"
    /\ Respond(r)
    /\ rowLock' = [u \in Users |-> IF rowLock[u] = r THEN NoRequest ELSE rowLock[u]]
    /\ UNCHANGED <<userVars, exposed>>

-----------------------------------------------------------------------------
(* Single-statement writers.  An UPDATE waits for a locked row.             *)

\* bootstrap_superadmin at start-up: promote the named account.
Bootstrap ==
    /\ BootstrapUser # NoUser
    /\ BootstrapUser \notin deleted \cup superadmin
    /\ rowLock[BootstrapUser] = NoRequest
    /\ superadmin' = superadmin \cup {BootstrapUser}
    /\ UNCHANGED <<inactive, banned, deleted, rowLock, pc, reqVars, risk, exposed>>

\* delete_me: soft_delete, without the guard.
DeleteMe(u) ==
    /\ Unguarded
    /\ u \notin deleted /\ rowLock[u] = NoRequest
    /\ deleted' = deleted \cup {u}
    /\ inactive' = inactive \cup {u}
    /\ exposed' = "yes"
    /\ UNCHANGED <<superadmin, banned, rowLock, pc, reqVars, risk>>

\* find_or_link_ldap_user: is_superadmin from the directory, is_active = true;
\* banned_at is left alone.
LdapLogin(u) ==
    /\ Unguarded
    /\ u \notin deleted /\ rowLock[u] = NoRequest
    /\ \/ superadmin' = superadmin \cup {u}
       \/ superadmin' = superadmin \ {u}
    /\ inactive' = inactive \ {u}
    /\ exposed' = "yes"
    /\ UNCHANGED <<banned, deleted, rowLock, pc, reqVars, risk>>

RequestStep(r) ==
    \/ LockTarget(r)
    \/ CountOthers(r)
    \/ WriteAndCommit(r)

Next ==
    \/ \E r \in Requests :
          \/ \E admin, u \in Users, ops \in AdminRequests : AdminRequest(r, admin, u, ops)
          \/ \E u \in Users : OidcSync(r, u)
          \/ RequestStep(r)
          \/ Abort(r)
    \/ Bootstrap
    \/ \E u \in Users : DeleteMe(u) \/ LdapLogin(u)

\* A transaction keeps running, and Postgres hands a row lock on in the order
\* the waiters queued for it, so nobody waits for a row forever.
Fairness == \A r \in Requests :
    /\ SF_vars(LockTarget(r))
    /\ WF_vars(CountOthers(r)) /\ WF_vars(WriteAndCommit(r))

Spec == Init /\ [][Next]_vars

FairSpec == Spec /\ Fairness

-----------------------------------------------------------------------------
(* Properties.                                                              *)

\* Every flag set, lock and request local is of its type.
TypeOK ==
    /\ superadmin \subseteq Users /\ inactive \subseteq Users
    /\ banned \subseteq Users /\ deleted \subseteq Users
    /\ rowLock \in [Users -> Requests \cup {NoRequest}]
    /\ pc \in [Requests -> Steps]
    /\ target \in [Requests -> Users \cup {NoUser}]
    /\ todo \in [Requests -> WorkLists]
    /\ risk \in [Requests -> BOOLEAN]
    /\ exposed \in {"no", "yes"}

\* "cannot lock everyone out of the admin area" (resolve.rs, users.rs): some
\* account can still reach the admin area.
SomeSuperadmin == \E u \in Users : Usable(u)

\* What the guard of users.rs does deliver: the admin area is only ever left
\* without an account when two guarded transactions overlapped or a writer
\* without the guard ran.  Any sequence of demotions, deactivations, bans,
\* deletions and two-part updates, rollbacks included, leaves one behind.
LockoutNeedsOverlap == exposed = "no" => SomeSuperadmin

\* The row lock makes the check of the target and the write to it one step:
\* between reading its flags and committing, no other request and no
\* single-statement writer changes what the guard decided on.
DecisionIsFresh ==
    \A r \in Requests :
        InTransaction(r) =>
            risk[r] = is_last_admin_risk(target[r]) /\ target[r] \notin deleted

-----------------------------------------------------------------------------
(* The inductive invariants behind DecisionIsFresh and SomeSuperadmin.      *)

\* A transaction past its first statement holds its target's row.
LocksOK ==
    \A r \in Requests :
        /\ pc[r] # "idle" => target[r] \in Users /\ todo[r] # <<>>
        /\ InTransaction(r) => rowLock[target[r]] = r

LockInv == TypeOK /\ LocksOK /\ DecisionIsFresh

OneTransaction == \A r1, r2 \in Requests : InTransaction(r1) /\ InTransaction(r2) => r1 = r2

\* Then the count is still true at the write.
CountHolds ==
    \A r \in Requests :
        pc[r] = "write" /\ RemovesAccess(Head(todo[r])) /\ risk[r] => AnotherSurvives(target[r])

GuardInv ==
    /\ LockInv
    /\ exposed = "no" => OneTransaction /\ CountHolds /\ SomeSuperadmin

\* Every admitted request is answered, however many queue for the same row.
RequestsFinish == \A r \in Requests : pc[r] # "idle" ~> pc[r] = "idle"

=============================================================================
