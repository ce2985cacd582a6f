--------------------------- MODULE PresenceProofs ---------------------------
(***************************************************************************)
(* Proofs about Presence, for any number of nodes, accounts and requests,  *)
(* any CHECK_TTL and any latency of the status query.                      *)
(***************************************************************************)
EXTENDS Presence, TLAPS

\* The caches start empty and no account is blocked.
LEMMA InitInv == Init => CacheInv
  BY PresenceAssumption
  DEF Init, CacheInv, TypeOK, RequestsOK, HistoryOK, ReadsOK, CacheIsHonest, Steps, Never

\* A request starts and has read nothing.
LEMMA ArriveInv ==
    ASSUME CacheInv, NEW r \in Requests, NEW n \in Nodes, NEW u \in Users, Arrive(r, n, u)
    PROVE  CacheInv'
<1>1. TypeOK' /\ HistoryOK' /\ ReadsOK' /\ CacheIsHonest'
  BY PresenceAssumption DEF CacheInv, TypeOK, HistoryOK, ReadsOK, CacheIsHonest, Arrive,
         Goto, Never, Steps, accountVars, cacheVars, reqVars, histVars
<1>2. RequestsOK'
  BY PresenceAssumption DEF CacheInv, RequestsOK, TypeOK, Arrive, Goto, Steps,
         accountVars, cacheVars, reqVars, histVars
<1> QED  BY <1>1, <1>2 DEF CacheInv

\* A look at the cache changes no entry.
LEMMA CheckCachedInv ==
    ASSUME CacheInv, NEW r \in Requests, CheckCached(r)
    PROVE  CacheInv'
<1>1. HistoryOK' /\ CacheIsHonest'
  BY PresenceAssumption DEF CacheInv, HistoryOK, CacheIsHonest, CheckCached, fresh, Verdict,
         Goto, Never, accountVars, cacheVars, reqVars, histVars
<1>2. TypeOK'
  <2>1. pc' \in [Requests -> Steps]
    BY DEF CacheInv, TypeOK, CheckCached, Goto, Verdict, Steps
  <2> QED
    BY <2>1 DEF CacheInv, TypeOK, CheckCached, accountVars, cacheVars, reqVars, histVars
<1>3. RequestsOK'
  BY PresenceAssumption DEF CacheInv, RequestsOK, TypeOK, CheckCached, fresh, Verdict, Goto,
         Steps, accountVars, cacheVars, reqVars, histVars
<1>4. ReadsOK'
  BY PresenceAssumption DEF CacheInv, ReadsOK, TypeOK, CheckCached, fresh, Verdict, Goto,
         Never, Steps, accountVars, cacheVars, reqVars, histVars
<1> QED  BY <1>1, <1>2, <1>3, <1>4 DEF CacheInv

\* An "ok" is only read from an account that is not blocked.
LEMMA TouchLastSeenInv ==
    ASSUME CacheInv, NEW r \in Requests, TouchLastSeen(r)
    PROVE  CacheInv'
<1>1. HistoryOK' /\ CacheIsHonest'
  BY PresenceAssumption DEF CacheInv, HistoryOK, CacheIsHonest, TouchLastSeen, StatusOf,
         Goto, Never, accountVars, cacheVars, reqVars, histVars
<1>2. TypeOK'
  <2>1. pc' \in [Requests -> Steps]
    BY DEF CacheInv, TypeOK, TouchLastSeen, Goto, Steps
  <2>2. got' \in [Requests -> {"none", "ok", "blocked"}] /\ readAt' \in [Requests -> Int]
    BY DEF CacheInv, TypeOK, TouchLastSeen, StatusOf
  <2> QED
    BY <2>1, <2>2 DEF CacheInv, TypeOK, TouchLastSeen, accountVars, cacheVars, histVars
<1>3. RequestsOK'
  BY PresenceAssumption DEF CacheInv, RequestsOK, TypeOK, TouchLastSeen, StatusOf, Goto,
         Steps, accountVars, cacheVars, reqVars, histVars
<1>4. ReadsOK'
  <2>1. CASE user[r] \in deleted
    BY <2>1 DEF CacheInv, TypeOK, ReadsOK, TouchLastSeen, Goto, histVars
  <2>2. CASE user[r] \notin deleted
    <3>1. got'[r] = "ok" => blockedAt'[user'[r]] = Never
      BY <2>2 DEF CacheInv, TypeOK, RequestsOK, HistoryOK, TouchLastSeen, StatusOf, histVars
    <3>2. readAt'[r] = now /\ now \in Nat /\ UNCHANGED <<now, user, blockedAt>>
      BY <2>2 DEF CacheInv, TypeOK, TouchLastSeen, histVars
    <3>3. \A q \in Requests \ {r} :
              pc'[q] = pc[q] /\ got'[q] = got[q] /\ readAt'[q] = readAt[q]
      BY <2>2 DEF CacheInv, TypeOK, TouchLastSeen, Goto
    <3> QED  BY <3>1, <3>2, <3>3, PresenceAssumption DEF CacheInv, ReadsOK
  <2> QED  BY <2>1, <2>2
<1> QED  BY <1>1, <1>2, <1>3, <1>4 DEF CacheInv

\* A failed query stores nothing.
LEMMA TouchFailsInv ==
    ASSUME CacheInv, NEW r \in Requests, TouchFails(r)
    PROVE  CacheInv'
<1>1. TypeOK' /\ RequestsOK' /\ HistoryOK' /\ ReadsOK' /\ CacheIsHonest'
  BY PresenceAssumption DEF CacheInv, TypeOK, RequestsOK, HistoryOK, ReadsOK, CacheIsHonest,
         TouchFails, Goto, Never, Steps, accountVars, cacheVars, reqVars, histVars
<1> QED  BY <1>1 DEF CacheInv

\* What is stored was read at most Latency ago.
LEMMA StoreInv ==
    ASSUME CacheInv, NEW r \in Requests, Store(r)
    PROVE  CacheInv'
<1>1. RequestsOK' /\ ReadsOK'
  BY PresenceAssumption DEF CacheInv, RequestsOK, ReadsOK, Store, Verdict, Kept, Goto,
         Never, accountVars, cacheVars, reqVars, histVars
<1>2. TypeOK'
  BY PresenceAssumption DEF CacheInv, TypeOK, RequestsOK, Store, Verdict, Kept, Goto, Steps,
         accountVars, cacheVars, reqVars, histVars
<1>3. HistoryOK'
  BY PresenceAssumption DEF CacheInv, HistoryOK, TypeOK, Store, Verdict, Kept, Goto, Never,
         Steps, accountVars, cacheVars, reqVars, histVars
<1>4. CacheIsHonest'
  BY PresenceAssumption DEF CacheInv, CacheIsHonest, TypeOK, ReadsOK, Store, Verdict, Kept,
         Goto, Never, Steps, accountVars, cacheVars, reqVars, histVars
<1> QED  BY <1>1, <1>2, <1>3, <1>4 DEF CacheInv

\* An answered request forgets its locals.
LEMMA RespondInv ==
    ASSUME CacheInv, NEW r \in Requests, Respond(r)
    PROVE  CacheInv'
<1>1. TypeOK' /\ HistoryOK' /\ ReadsOK' /\ CacheIsHonest'
  BY PresenceAssumption DEF CacheInv, TypeOK, HistoryOK, ReadsOK, CacheIsHonest, Respond,
         Goto, Never, Steps, accountVars, cacheVars, reqVars, histVars
<1>2. RequestsOK'
  BY PresenceAssumption DEF CacheInv, RequestsOK, TypeOK, Respond, Goto, Never, Steps,
         accountVars, cacheVars, reqVars, histVars
<1> QED  BY <1>1, <1>2 DEF CacheInv

\* Every entry is older than a block that starts now.
LEMMA BanUserInv ==
    ASSUME CacheInv, NEW r \in Requests, NEW n \in Nodes, NEW u \in Users, BanUser(r, n, u)
    PROVE  CacheInv'
<1>1. TypeOK' /\ ReadsOK'
  BY PresenceAssumption DEF CacheInv, TypeOK, ReadsOK, BanUser, NoteBlock, Goto, Never,
         Steps, accountVars, cacheVars, reqVars, histVars
<1>2. RequestsOK'
  BY PresenceAssumption DEF CacheInv, RequestsOK, TypeOK, BanUser, NoteBlock, Goto, Never,
         Steps, accountVars, cacheVars, reqVars, histVars
<1>3. HistoryOK'
  BY PresenceAssumption DEF CacheInv, HistoryOK, TypeOK, BanUser, NoteBlock, Goto, Never,
         Steps, accountVars, cacheVars, reqVars, histVars
<1>4. CacheIsHonest'
  BY PresenceAssumption DEF CacheInv, CacheIsHonest, TypeOK, HistoryOK, BanUser, NoteBlock,
         Goto, Never, Steps, accountVars, cacheVars, reqVars, histVars
<1> QED  BY <1>1, <1>2, <1>3, <1>4 DEF CacheInv

\* An account that stays blocked keeps its block's start.
LEMMA UnbanUserInv ==
    ASSUME CacheInv, NEW r \in Requests, NEW n \in Nodes, NEW u \in Users, UnbanUser(r, n, u)
    PROVE  CacheInv'
<1>1. TypeOK' /\ ReadsOK' /\ CacheIsHonest'
  BY PresenceAssumption DEF CacheInv, TypeOK, ReadsOK, CacheIsHonest, UnbanUser,
         NoteRestored, Goto, Never, Steps, accountVars, cacheVars, reqVars, histVars
<1>2. RequestsOK'
  BY PresenceAssumption DEF CacheInv, RequestsOK, TypeOK, UnbanUser, NoteRestored, Goto,
         Never, Steps, accountVars, cacheVars, reqVars, histVars
<1>3. HistoryOK'
  BY PresenceAssumption DEF CacheInv, HistoryOK, TypeOK, UnbanUser, NoteRestored, Goto,
         Never, Steps, accountVars, cacheVars, reqVars, histVars
<1> QED  BY <1>1, <1>2, <1>3 DEF CacheInv

\* Dropping an entry cannot make the cache wrong.
LEMMA InvalidateAfterBanInv ==
    ASSUME CacheInv, NEW r \in Requests, InvalidateAfterBan(r)
    PROVE  CacheInv'
<1>1. RequestsOK' /\ ReadsOK'
  BY PresenceAssumption DEF CacheInv, RequestsOK, ReadsOK, InvalidateAfterBan, Invalidate,
         Goto, Never, accountVars, cacheVars, reqVars, histVars
<1>2. TypeOK'
  BY PresenceAssumption DEF CacheInv, TypeOK, RequestsOK, InvalidateAfterBan, Invalidate,
         Goto, Never, Steps, accountVars, cacheVars, reqVars, histVars
<1>3. HistoryOK'
  BY PresenceAssumption DEF CacheInv, HistoryOK, TypeOK, InvalidateAfterBan, Invalidate,
         Goto, Never, Steps, accountVars, cacheVars, reqVars, histVars
<1>4. CacheIsHonest'
  BY PresenceAssumption DEF CacheInv, CacheIsHonest, TypeOK, InvalidateAfterBan, Invalidate,
         Goto, Never, Steps, accountVars, cacheVars, reqVars, histVars
<1> QED  BY <1>1, <1>2, <1>3, <1>4 DEF CacheInv

\* Dropping an entry cannot make the cache wrong.
LEMMA InvalidateAfterUnbanInv ==
    ASSUME CacheInv, NEW r \in Requests, InvalidateAfterUnban(r)
    PROVE  CacheInv'
<1>1. RequestsOK' /\ ReadsOK'
  BY PresenceAssumption DEF CacheInv, RequestsOK, ReadsOK, InvalidateAfterUnban, Invalidate,
         Goto, Never, accountVars, cacheVars, reqVars, histVars
<1>2. TypeOK'
  BY PresenceAssumption DEF CacheInv, TypeOK, RequestsOK, InvalidateAfterUnban, Invalidate,
         Goto, Never, Steps, accountVars, cacheVars, reqVars, histVars
<1>3. HistoryOK'
  BY PresenceAssumption DEF CacheInv, HistoryOK, TypeOK, InvalidateAfterUnban, Invalidate,
         Goto, Never, Steps, accountVars, cacheVars, reqVars, histVars
<1>4. CacheIsHonest'
  BY PresenceAssumption DEF CacheInv, CacheIsHonest, TypeOK, InvalidateAfterUnban,
         Invalidate, Goto, Never, Steps, accountVars, cacheVars, reqVars, histVars
<1> QED  BY <1>1, <1>2, <1>3, <1>4 DEF CacheInv

\* Every entry is older than a block that starts now.
LEMMA DeactivateInv ==
    ASSUME CacheInv, NEW u \in Users, Deactivate(u)
    PROVE  CacheInv'
<1>1. TypeOK' /\ RequestsOK' /\ ReadsOK'
  BY PresenceAssumption DEF CacheInv, TypeOK, RequestsOK, ReadsOK, Deactivate, NoteBlock,
         Never, Steps, accountVars, cacheVars, reqVars, histVars
<1>2. HistoryOK'
  BY PresenceAssumption DEF CacheInv, HistoryOK, TypeOK, Deactivate, NoteBlock, Never,
         Steps, accountVars, cacheVars, reqVars, histVars
<1>3. CacheIsHonest'
  BY PresenceAssumption DEF CacheInv, CacheIsHonest, TypeOK, HistoryOK, Deactivate,
         NoteBlock, Never, Steps, accountVars, cacheVars, reqVars, histVars
<1> QED  BY <1>1, <1>2, <1>3 DEF CacheInv

\* An account that stays blocked keeps its block's start.
LEMMA ActivateInv ==
    ASSUME CacheInv, NEW u \in Users, Activate(u)
    PROVE  CacheInv'
<1>1. TypeOK' /\ RequestsOK' /\ ReadsOK' /\ CacheIsHonest'
  BY PresenceAssumption DEF CacheInv, TypeOK, RequestsOK, ReadsOK, CacheIsHonest, Activate,
         NoteRestored, Never, Steps, accountVars, cacheVars, reqVars, histVars
<1>2. HistoryOK'
  BY PresenceAssumption DEF CacheInv, HistoryOK, TypeOK, Activate, NoteRestored, Never,
         Steps, accountVars, cacheVars, reqVars, histVars
<1> QED  BY <1>1, <1>2 DEF CacheInv

\* Every entry is older than a block that starts now.
LEMMA DeleteUserInv ==
    ASSUME CacheInv, NEW u \in Users, DeleteUser(u)
    PROVE  CacheInv'
<1>1. TypeOK' /\ RequestsOK' /\ ReadsOK'
  BY PresenceAssumption DEF CacheInv, TypeOK, RequestsOK, ReadsOK, DeleteUser, NoteBlock,
         Never, Steps, accountVars, cacheVars, reqVars, histVars
<1>2. HistoryOK'
  BY PresenceAssumption DEF CacheInv, HistoryOK, TypeOK, DeleteUser, NoteBlock, Never,
         Steps, accountVars, cacheVars, reqVars, histVars
<1>3. CacheIsHonest'
  BY PresenceAssumption DEF CacheInv, CacheIsHonest, TypeOK, HistoryOK, DeleteUser,
         NoteBlock, Never, Steps, accountVars, cacheVars, reqVars, histVars
<1> QED  BY <1>1, <1>2, <1>3 DEF CacheInv

\* A restarted node caches nothing.
LEMMA RestartInv ==
    ASSUME CacheInv, NEW n \in Nodes, Restart(n)
    PROVE  CacheInv'
<1>1. TypeOK' /\ RequestsOK' /\ ReadsOK'
  BY PresenceAssumption DEF CacheInv, TypeOK, RequestsOK, ReadsOK, Restart, Never, Steps,
         accountVars, cacheVars, reqVars, histVars
<1>2. HistoryOK'
  BY PresenceAssumption DEF CacheInv, HistoryOK, TypeOK, Restart, Never, Steps,
         accountVars, cacheVars, reqVars, histVars
<1>3. CacheIsHonest'
  BY PresenceAssumption DEF CacheInv, CacheIsHonest, TypeOK, Restart, Never, Steps,
         accountVars, cacheVars, reqVars, histVars
<1> QED  BY <1>1, <1>2, <1>3 DEF CacheInv

\* Time does not outrun a status being stored.
LEMMA TickInv ==
    ASSUME CacheInv, Tick
    PROVE  CacheInv'
<1>1. TypeOK' /\ RequestsOK' /\ CacheIsHonest'
  BY PresenceAssumption DEF CacheInv, TypeOK, RequestsOK, CacheIsHonest, Tick, Never, Steps,
         accountVars, cacheVars, reqVars, histVars
<1>2. HistoryOK'
  BY PresenceAssumption DEF CacheInv, HistoryOK, TypeOK, Tick, Never, Steps,
         accountVars, cacheVars, reqVars, histVars
<1>3. ReadsOK'
  BY PresenceAssumption DEF CacheInv, ReadsOK, TypeOK, Tick, Never, Steps,
         accountVars, cacheVars, reqVars, histVars
<1> QED  BY <1>1, <1>2, <1>3 DEF CacheInv

\* Every step preserves CacheInv.
LEMMA NextInv == CacheInv /\ [Next]_vars => CacheInv'
<1> SUFFICES ASSUME CacheInv, [Next]_vars PROVE CacheInv'
  OBVIOUS
<1>1. ASSUME NEW r \in Requests, NEW n \in Nodes, NEW u \in Users,
             Arrive(r, n, u) \/ BanUser(r, n, u) \/ UnbanUser(r, n, u)
      PROVE  CacheInv'
  BY <1>1, ArriveInv, BanUserInv, UnbanUserInv
<1>2. ASSUME NEW r \in Requests, CheckStep(r) PROVE CacheInv'
  BY <1>2, CheckCachedInv, TouchLastSeenInv, TouchFailsInv, StoreInv, RespondInv DEF CheckStep
<1>3. ASSUME NEW r \in Requests, InvalidateStep(r) PROVE CacheInv'
  BY <1>3, InvalidateAfterBanInv, InvalidateAfterUnbanInv DEF InvalidateStep
<1>4. ASSUME NEW u \in Users, Deactivate(u) \/ Activate(u) \/ DeleteUser(u) PROVE CacheInv'
  BY <1>4, DeactivateInv, ActivateInv, DeleteUserInv
<1>5. ASSUME NEW n \in Nodes, Restart(n) PROVE CacheInv'
  BY <1>5, RestartInv
<1>6. CASE Tick
  BY <1>6, TickInv
<1>7. CASE UNCHANGED vars
  BY <1>7
  DEF CacheInv, TypeOK, RequestsOK, HistoryOK, ReadsOK, CacheIsHonest,
      vars, accountVars, cacheVars, reqVars, histVars
<1> QED  BY <1>1, <1>2, <1>3, <1>4, <1>5, <1>6, <1>7 DEF Next

\* The inductive invariant holds throughout.
THEOREM CacheInvariant == Spec => []CacheInv
  BY InitInv, NextInv, PTL DEF Spec

\* Type correctness of the accounts, the caches and the requests.
THEOREM TypeCorrect == Spec => []TypeOK
<1>1. CacheInv => TypeOK
  BY DEF CacheInv
<1> QED  BY <1>1, CacheInvariant, PTL

\* Whatever fails or restarts, a cached "ok" outdates a block by at most the
\* latency of one status query.
THEOREM CacheStaysHonest == Spec => []CacheIsHonest
<1>1. CacheInv => CacheIsHonest
  BY DEF CacheInv
<1> QED  BY <1>1, CacheInvariant, PTL

\* A blocked account is let through on a status for less than CHECK_TTL plus
\* the latency of one status query, on every node.
THEOREM BlockLagIsBounded == Spec => BlockLag
<1> DEFINE Bounded(r) == now - blockedAt[user[r]] < CheckTTL + Latency
           Admits(r) ==
             pc[r] \notin {"touch", "allowed"} /\ pc'[r] = "allowed" /\ blockedAt[user[r]] # Never
<1>1. CacheInv /\ [Next]_vars => [\A r \in Requests : Admits(r) => Bounded(r)]_vars
  <2> SUFFICES ASSUME CacheInv, Next, NEW r \in Requests, Admits(r) PROVE Bounded(r)
    BY DEF vars
  <2>1. CheckCached(r) \/ Store(r)
    <3>1. PICK q \in Requests : CheckStep(q)
      BY DEF CacheInv, TypeOK, Next, Arrive, BanUser, UnbanUser, InvalidateStep,
             InvalidateAfterBan, InvalidateAfterUnban, Deactivate, Activate, DeleteUser,
             Restart, Tick, Goto
    <3>2. q = r
      BY <3>1 DEF CacheInv, TypeOK, CheckStep, CheckCached, TouchLastSeen, TouchFails, Store,
                  Respond, Goto
    <3>3. ~TouchLastSeen(r) /\ ~TouchFails(r) /\ ~Respond(r)
      BY DEF CacheInv, TypeOK, TouchLastSeen, TouchFails, Respond, Goto
    <3> QED  BY <3>1, <3>2, <3>3 DEF CheckStep
  <2>2. user[r] \in Users /\ node[r] \in Nodes
    BY <2>1 DEF CacheInv, RequestsOK, CheckCached, Store
  <2>3. CASE CheckCached(r)
    <3>1. fresh(node[r], user[r]) /\ status[node[r]][user[r]] = "ok"
      BY <2>3 DEF CacheInv, TypeOK, CheckCached, Goto, Verdict
    <3>2. now - checked[node[r]][user[r]] < CheckTTL
      BY <3>1 DEF fresh
    <3>3. checked[node[r]][user[r]] - blockedAt[user[r]] <= Latency
      BY <2>2, <3>1 DEF CacheInv, CacheIsHonest
    <3> QED  BY <2>2, <3>2, <3>3, PresenceAssumption DEF CacheInv, TypeOK
  <2>4. CASE Store(r)
    <3>1. got[r] = "ok" /\ pc[r] = "store"
      BY <2>4 DEF CacheInv, TypeOK, Store, Goto, Verdict
    <3> QED
      BY <2>2, <3>1, PresenceAssumption DEF CacheInv, TypeOK, ReadsOK
  <2> QED  BY <2>1, <2>3, <2>4
<1> QED  BY <1>1, CacheInvariant, PTL DEF Spec, BlockLag

=============================================================================
