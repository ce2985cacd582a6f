------------------------------ MODULE Presence ------------------------------
(***************************************************************************)
(* The account-status cache in front of every authenticated request.  An   *)
(* access token is stateless, so a ban, a deactivation or a deletion bites *)
(* through this cache: a status is trusted for CHECK_TTL, then re-read,    *)
(* and ban and unban drop it early on the node that serves them.           *)
(*                                                                         *)
(* Source: crates/api/src/presence.rs, enforce_account_status in           *)
(* crates/api/src/auth/extractor.rs, the admin handlers that change an     *)
(* account's status.  Each node keeps a cache of its own.                  *)
(***************************************************************************)
EXTENDS Integers, FiniteSets

CONSTANTS
    Users, Nodes,
    Requests,       \* requests in flight, admin requests included
    NoUser, NoNode,
    CheckTTL,       \* CHECK_TTL
    SweepAfter,     \* SWEEP_AFTER
    MaxEntries,     \* the 1024 entries beyond which store() sweeps
    Latency,        \* longest time from reading a status to storing it
    MaxTime,        \* bound on the clock, for TLC
    DbFails         \* whether the status query may fail

ASSUME PresenceAssumption ==
    /\ NoUser \notin Users /\ NoNode \notin Nodes
    /\ CheckTTL \in Nat \ {0} /\ SweepAfter \in Nat /\ CheckTTL <= SweepAfter
    /\ MaxEntries \in Nat /\ Latency \in Nat /\ MaxTime \in Nat
    /\ DbFails \in BOOLEAN

Never == -1         \* no such time: not blocked, no entry

VARIABLES
    now,
    inactive, banned, deleted,  \* the columns of users
    status,         \* entries[u].status on each node, "none": no entry
    checked,        \* entries[u].checked on each node
    pc,
    node, user,     \* where a request runs and whose account it is about
    got,            \* the status a request has read and not yet stored
    readAt,         \* when it read it
    barred,         \* history: requests that arrived when a ban was complete
    blockedAt,      \* history: since when an account may not authenticate
    settled         \* history: the bans each node has finished handling

accountVars == <<inactive, banned, deleted>>
cacheVars == <<status, checked>>
reqVars == <<node, user, got, readAt, barred>>
histVars == <<blockedAt, settled>>
vars == <<now, accountVars, cacheVars, pc, reqVars, histVars>>

Steps == {"idle", "cached", "touch", "store", "ban_invalidate", "unban_invalidate",
          "allowed", "rejected", "answered"}

Init ==
    /\ now = 0
    /\ inactive = {} /\ banned = {} /\ deleted = {}
    /\ status = [n \in Nodes |-> [u \in Users |-> "none"]]
    /\ checked = [n \in Nodes |-> [u \in Users |-> Never]]
    /\ pc = [r \in Requests |-> "idle"]
    /\ node = [r \in Requests |-> NoNode]
    /\ user = [r \in Requests |-> NoUser]
    /\ got = [r \in Requests |-> "none"]
    /\ readAt = [r \in Requests |-> Never]
    /\ barred = {}
    /\ blockedAt = [u \in Users |-> Never]
    /\ settled = [n \in Nodes |-> {}]

Goto(r, step) == pc' = [pc EXCEPT ![r] = step]

\* A request arrives on node n and carries a valid access token for u.
Arrive(r, n, u) ==
    /\ pc[r] = "idle"
    /\ Goto(r, "cached")
    /\ node' = [node EXCEPT ![r] = n]
    /\ user' = [user EXCEPT ![r] = u]
    /\ barred' = IF u \in settled[n] THEN barred \cup {r} ELSE barred
    /\ UNCHANGED <<now, accountVars, cacheVars, got, readAt, histVars>>

\* Mutated form: the cached status is taken for the answer.
VerdictRaw(s) == s

\* AccountStatus::may_authenticate, as enforce_account_status uses it.
Verdict(s) == IF s = "ok" THEN "allowed" ELSE "rejected"

\* Mutated form: the entry's age is never looked at.
fresh_always(n, u) == status[n][u] # "none"

\* cached(): the entry counts while checked.elapsed() < ttl.
fresh(n, u) == status[n][u] # "none" /\ now - checked[n][u] < CheckTTL

CheckCached(r) ==
    /\ pc[r] = "cached"
    /\ \/ fresh(node[r], user[r]) /\ Goto(r, Verdict(status[node[r]][user[r]]))
       \/ ~fresh(node[r], user[r]) /\ Goto(r, "touch")
    /\ UNCHANGED <<now, accountVars, cacheVars, reqVars, histVars>>

\* Mutated form: a ban is not part of the status.
StatusIgnoringBan(u) == IF u \in inactive THEN "blocked" ELSE "ok"

StatusOf(u) == IF u \in inactive \/ u \in banned THEN "blocked" ELSE "ok"

\* touch_last_seen: one statement; no row when the account is deleted.
TouchLastSeen(r) ==
    /\ pc[r] = "touch"
    /\ \/ /\ user[r] \in deleted
          /\ Goto(r, "rejected")
          /\ UNCHANGED <<got, readAt>>
       \/ /\ user[r] \notin deleted
          /\ got' = [got EXCEPT ![r] = StatusOf(user[r])]
          /\ readAt' = [readAt EXCEPT ![r] = now]
          /\ Goto(r, "store")
    /\ UNCHANGED <<now, accountVars, cacheVars, node, user, barred, histVars>>

\* "Availability over strictness": a failed query lets the request through.
TouchFails(r) ==
    /\ DbFails
    /\ pc[r] = "touch"
    /\ Goto(r, "allowed")
    /\ UNCHANGED <<now, accountVars, cacheVars, reqVars, histVars>>

\* The entries store() keeps: all of them until the map has grown too large.
Kept(n, u) ==
    \/ Cardinality({v \in Users : status[n][v] # "none"}) <= MaxEntries
    \/ now - checked[n][u] < SweepAfter

\* store(): sweep if need be, insert; the verdict is on what was read.
Store(r) ==
    LET n == node[r] IN
    /\ pc[r] = "store"
    /\ status' = [status EXCEPT ![n] =
                    [u \in Users |-> IF u = user[r] THEN got[r]
                                     ELSE IF Kept(n, u) THEN status[n][u] ELSE "none"]]
    /\ checked' = [checked EXCEPT ![n][user[r]] = now]
    /\ Goto(r, Verdict(got[r]))
    /\ UNCHANGED <<now, accountVars, reqVars, histVars>>

Respond(r) ==
    /\ pc[r] \in {"allowed", "rejected", "answered"}
    /\ Goto(r, "idle")
    /\ node' = [node EXCEPT ![r] = NoNode]
    /\ user' = [user EXCEPT ![r] = NoUser]
    /\ got' = [got EXCEPT ![r] = "none"]
    /\ readAt' = [readAt EXCEPT ![r] = Never]
    /\ barred' = barred \ {r}
    /\ UNCHANGED <<now, accountVars, cacheVars, histVars>>

-----------------------------------------------------------------------------
(* Handlers that change an account's status.  The history variables follow  *)
(* the account: NoteBlock when it stops being usable, NoteRestored when a   *)
(* block is lifted.                                                         *)

NoteBlock(u) == blockedAt' = [blockedAt EXCEPT ![u] = IF @ = Never THEN now ELSE @]

\* A restored account is no longer owed a rejection by anyone.
NoteRestored(u, usable) ==
    /\ blockedAt' = [blockedAt EXCEPT ![u] = IF usable THEN Never ELSE @]
    /\ settled' = [n \in Nodes |-> settled[n] \ {u}]
    /\ barred' = {r \in barred : user[r] # u}

\* ban_user: set_banned commits, sessions are revoked, then invalidate().
BanUser(r, n, u) ==
    /\ pc[r] = "idle" /\ u \notin deleted
    /\ banned' = banned \cup {u}
    /\ NoteBlock(u)
    /\ Goto(r, "ban_invalidate")
    /\ node' = [node EXCEPT ![r] = n]
    /\ user' = [user EXCEPT ![r] = u]
    /\ UNCHANGED <<now, inactive, deleted, cacheVars, got, readAt, barred, settled>>

\* unban_user: set_banned(false), then invalidate().
UnbanUser(r, n, u) ==
    /\ pc[r] = "idle" /\ u \notin deleted
    /\ banned' = banned \ {u}
    /\ NoteRestored(u, u \notin inactive)
    /\ Goto(r, "unban_invalidate")
    /\ node' = [node EXCEPT ![r] = n]
    /\ user' = [user EXCEPT ![r] = u]
    /\ UNCHANGED <<now, inactive, deleted, cacheVars, got, readAt>>

\* invalidate(): the entry is removed from this node's map.
Invalidate(n, u) ==
    /\ status' = [status EXCEPT ![n][u] = "none"]
    /\ checked' = [checked EXCEPT ![n][u] = Never]

InvalidateAfterBan(r) ==
    /\ pc[r] = "ban_invalidate"
    /\ Invalidate(node[r], user[r])
    /\ settled' = IF user[r] \in banned
                  THEN [settled EXCEPT ![node[r]] = @ \cup {user[r]}] ELSE settled
    /\ Goto(r, "answered")
    /\ UNCHANGED <<now, accountVars, reqVars, blockedAt>>

InvalidateAfterUnban(r) ==
    /\ pc[r] = "unban_invalidate"
    /\ Invalidate(node[r], user[r])
    /\ Goto(r, "answered")
    /\ UNCHANGED <<now, accountVars, reqVars, histVars>>

\* update_user with is_active: set_active, and nothing about the cache.
Deactivate(u) ==
    /\ u \notin deleted \cup inactive
    /\ inactive' = inactive \cup {u}
    /\ NoteBlock(u)
    /\ UNCHANGED <<now, banned, deleted, cacheVars, pc, reqVars, settled>>

Activate(u) ==
    /\ u \in inactive \ deleted
    /\ inactive' = inactive \ {u}
    /\ NoteRestored(u, u \notin banned)
    /\ UNCHANGED <<now, banned, deleted, cacheVars, pc, node, user, got, readAt>>

\* delete_user and delete_me: nothing about the cache either.
DeleteUser(u) ==
    /\ u \notin deleted
    /\ deleted' = deleted \cup {u}
    /\ inactive' = inactive \cup {u}
    /\ NoteBlock(u)
    /\ UNCHANGED <<now, banned, cacheVars, pc, reqVars, settled>>

\* A node restarts: its map and its requests are gone.
Restart(n) ==
    LET lost(r) == node[r] = n IN
    /\ status' = [status EXCEPT ![n] = [u \in Users |-> "none"]]
    /\ checked' = [checked EXCEPT ![n] = [u \in Users |-> Never]]
    /\ pc' = [r \in Requests |-> IF lost(r) THEN "idle" ELSE pc[r]]
    /\ node' = [r \in Requests |-> IF lost(r) THEN NoNode ELSE node[r]]
    /\ user' = [r \in Requests |-> IF lost(r) THEN NoUser ELSE user[r]]
    /\ got' = [r \in Requests |-> IF lost(r) THEN "none" ELSE got[r]]
    /\ readAt' = [r \in Requests |-> IF lost(r) THEN Never ELSE readAt[r]]
    /\ barred' = {r \in barred : ~lost(r)}
    /\ UNCHANGED <<now, accountVars, histVars>>

\* Time passes; a status read is stored within Latency.
Tick ==
    /\ now < MaxTime
    /\ \A r \in Requests : pc[r] = "store" => now < readAt[r] + Latency
    /\ now' = now + 1
    /\ UNCHANGED <<accountVars, cacheVars, pc, reqVars, histVars>>

CheckStep(r) ==
    \/ CheckCached(r)
    \/ TouchLastSeen(r)
    \/ TouchFails(r)
    \/ Store(r)
    \/ Respond(r)

InvalidateStep(r) == InvalidateAfterBan(r) \/ InvalidateAfterUnban(r)

Next ==
    \/ \E r \in Requests :
          \/ \E n \in Nodes, u \in Users :
                Arrive(r, n, u) \/ BanUser(r, n, u) \/ UnbanUser(r, n, u)
          \/ CheckStep(r)
          \/ InvalidateStep(r)
    \/ \E u \in Users : Deactivate(u) \/ Activate(u) \/ DeleteUser(u)
    \/ \E n \in Nodes : Restart(n)
    \/ Tick

Spec == Init /\ [][Next]_vars

-----------------------------------------------------------------------------
(* Properties.                                                              *)

\* Every column, cache entry and request local is of its type.
TypeOK ==
    /\ now \in Nat
    /\ inactive \subseteq Users /\ banned \subseteq Users /\ deleted \subseteq Users
    /\ status \in [Nodes -> [Users -> {"none", "ok", "blocked"}]]
    /\ checked \in [Nodes -> [Users -> Int]]
    /\ pc \in [Requests -> Steps]
    /\ node \in [Requests -> Nodes \cup {NoNode}]
    /\ user \in [Requests -> Users \cup {NoUser}]
    /\ got \in [Requests -> {"none", "ok", "blocked"}]
    /\ readAt \in [Requests -> Int]
    /\ barred \subseteq Requests
    /\ blockedAt \in [Users -> Int]
    /\ settled \in [Nodes -> SUBSET Users]

\* A cached "ok" is never younger than the block it missed by more than one
\* status query: not a slow store(), not a sweep, not an outage (a failed
\* query allows the request but stores nothing), not a restart.
CacheIsHonest ==
    \A n \in Nodes, u \in Users :
        status[n][u] = "ok" /\ blockedAt[u] # Never => checked[n][u] - blockedAt[u] <= Latency

\* How long a blocked account keeps getting through on a status, cached or
\* just read, on any number of nodes: at most CHECK_TTL, counted from the
\* status query that missed the block, so CHECK_TTL plus the time that query's
\* answer took to be stored.  A deactivation, which never calls invalidate, is
\* held to it as well.  (A failed query admits anyone: TouchFails.)
BlockLag ==
    [][\A r \in Requests :
          (pc[r] \notin {"touch", "allowed"} /\ pc'[r] = "allowed" /\ blockedAt[user[r]] # Never)
              => now - blockedAt[user[r]] < CheckTTL + Latency]_vars

\* ban_user, comment at its call of invalidate: "the ban applies on the very
\* next request", a request that arrives on that node once the ban is done.
BanAppliesOnNextRequest == \A r \in barred : pc[r] # "allowed"

-----------------------------------------------------------------------------
(* The inductive invariant behind CacheIsHonest and BlockLag.               *)

\* A request knows its node and its account from its first step on.
RequestsOK ==
    \A r \in Requests : pc[r] # "idle" => node[r] \in Nodes /\ user[r] \in Users

\* The history of a block agrees with the account, and no time is in the future.
HistoryOK ==
    /\ \A u \in Users : (blockedAt[u] = Never) <=> (u \notin inactive \cup banned \cup deleted)
    /\ \A u \in Users : blockedAt[u] <= now
    /\ \A n \in Nodes, u \in Users : checked[n][u] <= now

\* A status read and not yet stored is at most Latency old, and an "ok" was
\* read no later than the block it misses.
ReadsOK ==
    \A r \in Requests : pc[r] = "store" =>
        /\ readAt[r] <= now /\ now <= readAt[r] + Latency
        /\ got[r] = "ok" /\ blockedAt[user[r]] # Never => readAt[r] <= blockedAt[user[r]]

CacheInv == TypeOK /\ RequestsOK /\ HistoryOK /\ ReadsOK /\ CacheIsHonest

=============================================================================
