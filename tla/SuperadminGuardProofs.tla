----------------------- MODULE SuperadminGuardProofs -----------------------
(***************************************************************************)
(* Proofs about SuperadminGuard for any number of accounts and requests.   *)
(* LockInv is inductive under every interleaving: the row lock protects    *)
(* the decision about the target.  GuardInv adds that a usable superadmin  *)
(* is left as long as no two transactions have overlapped.                 *)
(***************************************************************************)
EXTENDS SuperadminGuard, TLAPS

\* The work lists are closed under taking the next transaction off them.
LEMMA TailOfWork ==
    ASSUME NEW w \in WorkLists, w # <<>>
    PROVE  /\ Head(w) \in Ops /\ Tail(w) \in WorkLists
           /\ Len(w) > 1 => Tail(w) # <<>>
<1>1. CASE w \in {<<op>> : op \in Ops}
  <2>1. PICK op \in Ops : w = <<op>>
    BY <1>1
  <2>2. Head(w) = op /\ Tail(w) = <<>> /\ Len(w) = 1
    BY <2>1
  <2> QED  BY <2>2 DEF WorkLists
<1>2. CASE w \in UpdateUser
  <2>1. PICK s \in {"promote", "demote"}, a \in {"activate", "deactivate"} : w = <<s, a>>
    BY <1>2 DEF UpdateUser
  <2>2. Head(w) = s /\ Tail(w) = <<a>> /\ <<a>> # <<>>
    BY <2>1
  <2>3. s \in Ops /\ a \in Ops
    BY DEF Ops
  <2> QED  BY <2>2, <2>3 DEF WorkLists, AdminRequests
<1> QED  BY <1>1, <1>2 DEF WorkLists, AdminRequests

\* No transaction runs in the initial state.
LEMMA InitInv == Init => LockInv
  BY GuardAssumption
  DEF Init, LockInv, TypeOK, LocksOK, InTransaction, DecisionIsFresh, Steps, WorkLists

\* A request starts and has locked nothing yet.
LEMMA AdminRequestInv ==
    ASSUME LockInv, NEW r \in Requests, NEW admin \in Users, NEW u \in Users, NEW ops \in AdminRequests, AdminRequest(r, admin, u, ops)
    PROVE  LockInv'
<1>0. ops \in WorkLists
  BY DEF WorkLists
<1>1. TypeOK' /\ DecisionIsFresh'
  <2>1. TypeOK'
    BY <1>0, GuardAssumption DEF LockInv, TypeOK, AdminRequest, Begin, Goto, Steps, userVars, reqVars
  <2>2. DecisionIsFresh'
    BY DEF LockInv, TypeOK, DecisionIsFresh, InTransaction, AdminRequest, Begin, Goto, is_last_admin_risk, userVars
  <2> QED  BY <2>1, <2>2
<1>2. LocksOK'
  <2>1. ops # <<>>
    BY DEF AdminRequests, UpdateUser
  <2> QED
    BY <2>1, GuardAssumption DEF LockInv, LocksOK, InTransaction, TypeOK, AdminRequest, Begin, Goto, Steps, userVars
<1> QED  BY <1>1, <1>2 DEF LockInv

\* A sign-in sync starts like an admin request.
LEMMA OidcSyncInv ==
    ASSUME LockInv, NEW r \in Requests, NEW u \in Users, OidcSync(r, u)
    PROVE  LockInv'
<1>1. TypeOK'
  BY GuardAssumption DEF LockInv, TypeOK, OidcSync, Begin, Goto, Steps, Ops, UpdateUser,
         AdminRequests, WorkLists, userVars, reqVars
<1>2. LocksOK'
  <2>1. \E ops \in AdminRequests : ops # <<>> /\ Begin(r, u, ops)
    BY DEF OidcSync, AdminRequests, Ops
  <2> QED
    BY <2>1 DEF LockInv, TypeOK, LocksOK, InTransaction, Begin, Goto, userVars, reqVars
<1>3. DecisionIsFresh'
  BY GuardAssumption DEF LockInv, DecisionIsFresh, InTransaction, TypeOK, OidcSync, Begin, Goto,
         is_last_admin_risk, Steps, Ops, UpdateUser, AdminRequests, WorkLists, userVars,
         reqVars
<1> QED  BY <1>1, <1>2, <1>3 DEF LockInv

\* An answered request is idle, the others keep their locals.
LEMMA RespondEffect ==
    ASSUME TypeOK, NEW r \in Requests, Respond(r)
    PROVE  /\ pc' \in [Requests -> Steps] /\ target' \in [Requests -> Users \cup {NoUser}]
           /\ todo' \in [Requests -> WorkLists] /\ risk' \in [Requests -> BOOLEAN]
           /\ pc'[r] = "idle"
           /\ \A q \in Requests \ {r} : /\ pc'[q] = pc[q] /\ target'[q] = target[q]
                                        /\ todo'[q] = todo[q] /\ risk'[q] = risk[q]
  BY DEF TypeOK, Respond, Goto, Steps, WorkLists

\* A step that answers r, changes no account and no lock of another request.
LEMMA AnswerInv ==
    ASSUME LockInv, NEW r \in Requests, Respond(r), UNCHANGED <<userVars, exposed>>,
           rowLock' \in [Users -> Requests \cup {NoRequest}],
           \A q \in Requests \ {r}, u \in Users : rowLock[u] = q => rowLock'[u] = q
    PROVE  LockInv'
<1>1. TypeOK'
  BY RespondEffect DEF LockInv, TypeOK, userVars
<1>2. LocksOK'
  BY RespondEffect DEF LockInv, LocksOK, InTransaction
<1>3. DecisionIsFresh'
  BY RespondEffect
  DEF LockInv, DecisionIsFresh, InTransaction, is_last_admin_risk, userVars
<1> QED  BY <1>1, <1>2, <1>3 DEF LockInv

\* The decision is taken on the row just locked.
LEMMA LockTargetInv ==
    ASSUME LockInv, NEW r \in Requests, LockTarget(r)
    PROVE  LockInv'
<1>1. CASE Respond(r) /\ UNCHANGED <<rowLock, exposed>>
  BY <1>1, AnswerInv DEF LockInv, TypeOK, LockTarget
<1>2. CASE Decide(r) /\ Lock(r, target[r])
  <2>1. TypeOK'
    <3>1. is_last_admin_risk(target[r]) \in BOOLEAN
      BY Zenon DEF is_last_admin_risk
    <3>2. risk' \in [Requests -> BOOLEAN]
      BY <1>2, <3>1 DEF LockInv, TypeOK, Decide
    <3> QED
      BY <1>2, <3>2
      DEF LockInv, TypeOK, LockTarget, Decide, Lock, Goto, Steps, userVars, reqVars
  <2>2. LocksOK'
    BY <1>2, GuardAssumption
    DEF LockInv, LocksOK, InTransaction, TypeOK, LockTarget, Decide, Lock, Goto, reqVars
  <2>3. DecisionIsFresh'
    BY <1>2
    DEF LockInv, DecisionIsFresh, InTransaction, TypeOK, LockTarget, Decide, Goto,
        is_last_admin_risk, userVars, reqVars
  <2> QED  BY <2>1, <2>2, <2>3 DEF LockInv
<1> QED  BY <1>1, <1>2 DEF LockTarget

\* The lock of r's target is r's to give back.
LEMMA UnlockEffect ==
    ASSUME LockInv, NEW r \in Requests, InTransaction(r), Unlock(target[r])
    PROVE  /\ rowLock' \in [Users -> Requests \cup {NoRequest}]
           /\ \A q \in Requests \ {r}, u \in Users : rowLock[u] = q => rowLock'[u] = q
  BY DEF LockInv, TypeOK, LocksOK, InTransaction, Unlock

\* Counting changes no account.
LEMMA CountOthersInv ==
    ASSUME LockInv, NEW r \in Requests, CountOthers(r)
    PROVE  LockInv'
<1>1. CASE Goto(r, "write") /\ UNCHANGED <<rowLock, reqVars, risk>>
  BY <1>1
  DEF LockInv, TypeOK, LocksOK, DecisionIsFresh, InTransaction, CountOthers, Goto, Steps,
      is_last_admin_risk, userVars, reqVars
<1>2. CASE Unlock(target[r]) /\ Respond(r)
  BY <1>2, AnswerInv, UnlockEffect DEF CountOthers, InTransaction
<1> QED  BY <1>1, <1>2 DEF CountOthers

\* The writer holds its row, so it is nobody else's target.
LEMMA WriteAndCommitInv ==
    ASSUME LockInv, NEW r \in Requests, WriteAndCommit(r)
    PROVE  LockInv'
<1>1. /\ target[r] \in Users /\ rowLock[target[r]] = r
      /\ todo[r] \in WorkLists /\ todo[r] # <<>> /\ InTransaction(r)
  BY DEF LockInv, TypeOK, LocksOK, InTransaction, WriteAndCommit
<1>2. /\ pc' \in [Requests -> Steps] /\ target' \in [Requests -> Users \cup {NoUser}]
      /\ todo' \in [Requests -> WorkLists] /\ risk' \in [Requests -> BOOLEAN]
      /\ pc'[r] \in {"lock", "idle"}
      /\ pc'[r] = "lock" => target'[r] = target[r] /\ todo'[r] # <<>>
      /\ \A q \in Requests \ {r} : /\ pc'[q] = pc[q] /\ target'[q] = target[q]
                                   /\ todo'[q] = todo[q] /\ risk'[q] = risk[q]
  <2>1. CASE Len(todo[r]) > 1 /\ Goto(r, "lock") /\ todo' = [todo EXCEPT ![r] = Tail(@)]
             /\ UNCHANGED <<target, risk>>
    <3>1. Tail(todo[r]) \in WorkLists /\ Tail(todo[r]) # <<>>
      BY <1>1, <2>1, TailOfWork
    <3> QED  BY <2>1, <3>1 DEF LockInv, TypeOK, Goto, Steps
  <2>2. CASE Respond(r)
    BY <2>2, RespondEffect DEF LockInv
  <2> QED  BY <2>1, <2>2 DEF WriteAndCommit
<1>3. /\ rowLock' \in [Users -> Requests \cup {NoRequest}]
      /\ \A q \in Requests \ {r}, u \in Users : rowLock[u] = q => rowLock'[u] = q
  BY <1>1, UnlockEffect DEF WriteAndCommit
<1>4. TypeOK'
  <2>1. superadmin' \subseteq Users /\ inactive' \subseteq Users
    BY <1>1 DEF LockInv, TypeOK, WriteAndCommit, Apply
  <2>2. banned' \subseteq Users /\ deleted' \subseteq Users
    BY <1>1 DEF LockInv, TypeOK, WriteAndCommit, Apply
  <2> QED
    BY <1>2, <1>3, <2>1, <2>2 DEF LockInv, TypeOK, WriteAndCommit
<1>5. LocksOK'
  BY <1>1, <1>2, <1>3 DEF LockInv, LocksOK, InTransaction
<1>6. DecisionIsFresh'
  <2>1. \A q \in Requests : InTransaction(q)' => q # r /\ InTransaction(q) /\ target[q] # target[r]
    BY <1>1, <1>2 DEF LockInv, LocksOK, InTransaction
  <2>2. \A u \in Users \ {target[r]} :
            /\ u \in superadmin' <=> u \in superadmin
            /\ u \in inactive' <=> u \in inactive
            /\ u \in banned' <=> u \in banned
            /\ u \in deleted' <=> u \in deleted
    BY DEF WriteAndCommit, Apply
  <2>3. \A q \in Requests : InTransaction(q) => target[q] \in Users
    BY DEF LockInv, LocksOK, InTransaction
  <2> QED
    BY <1>2, <2>1, <2>2, <2>3 DEF LockInv, DecisionIsFresh, is_last_admin_risk
<1> QED  BY <1>4, <1>5, <1>6 DEF LockInv

\* A rollback releases the row unchanged.
LEMMA AbortInv ==
    ASSUME LockInv, NEW r \in Requests, Abort(r)
    PROVE  LockInv'
<1>1. /\ rowLock' \in [Users -> Requests \cup {NoRequest}]
      /\ \A q \in Requests \ {r}, u \in Users : rowLock[u] = q => rowLock'[u] = q
  BY DEF LockInv, TypeOK, Abort
<1> QED  BY <1>1, AnswerInv DEF Abort

\* The promotion waits for the row's lock.
LEMMA BootstrapInv ==
    ASSUME LockInv, Bootstrap
    PROVE  LockInv'
<1>1. TypeOK' /\ LocksOK'
  BY GuardAssumption DEF LockInv, TypeOK, LocksOK, InTransaction, Bootstrap, Steps, Ops, UpdateUser,
         AdminRequests, WorkLists, userVars, reqVars
<1>2. DecisionIsFresh'
  BY GuardAssumption DEF LockInv, DecisionIsFresh, InTransaction, TypeOK, LocksOK, Bootstrap,
         is_last_admin_risk, Steps, Ops, UpdateUser, AdminRequests, WorkLists, userVars,
         reqVars
<1> QED  BY <1>1, <1>2 DEF LockInv

\* The erasure waits for the row's lock.
LEMMA DeleteMeInv ==
    ASSUME LockInv, NEW u \in Users, DeleteMe(u)
    PROVE  LockInv'
<1>1. TypeOK' /\ LocksOK'
  BY GuardAssumption DEF LockInv, TypeOK, LocksOK, InTransaction, DeleteMe, Steps, Ops, UpdateUser,
         AdminRequests, WorkLists, userVars, reqVars
<1>2. DecisionIsFresh'
  BY GuardAssumption DEF LockInv, DecisionIsFresh, InTransaction, TypeOK, LocksOK, DeleteMe,
         is_last_admin_risk, Steps, Ops, UpdateUser, AdminRequests, WorkLists, userVars,
         reqVars
<1> QED  BY <1>1, <1>2 DEF LockInv

\* The directory sync waits for the row's lock.
LEMMA LdapLoginInv ==
    ASSUME LockInv, NEW u \in Users, LdapLogin(u)
    PROVE  LockInv'
<1>1. TypeOK' /\ LocksOK'
  BY GuardAssumption DEF LockInv, TypeOK, LocksOK, InTransaction, LdapLogin, Steps, Ops, UpdateUser,
         AdminRequests, WorkLists, userVars, reqVars
<1>2. DecisionIsFresh'
  BY GuardAssumption DEF LockInv, DecisionIsFresh, InTransaction, TypeOK, LocksOK, LdapLogin,
         is_last_admin_risk, Steps, Ops, UpdateUser, AdminRequests, WorkLists, userVars,
         reqVars
<1> QED  BY <1>1, <1>2 DEF LockInv

\* Every step preserves LockInv.
LEMMA NextInv == LockInv /\ [Next]_vars => LockInv'
<1> SUFFICES ASSUME LockInv, [Next]_vars PROVE LockInv'
  OBVIOUS
<1>1. ASSUME NEW r \in Requests, NEW admin \in Users, NEW u \in Users,
             NEW ops \in AdminRequests, AdminRequest(r, admin, u, ops)
      PROVE  LockInv'
  BY <1>1, AdminRequestInv
<1>2. ASSUME NEW r \in Requests, NEW u \in Users, OidcSync(r, u) PROVE LockInv'
  BY <1>2, OidcSyncInv
<1>3. ASSUME NEW r \in Requests, RequestStep(r) \/ Abort(r) PROVE LockInv'
  BY <1>3, LockTargetInv, CountOthersInv, WriteAndCommitInv, AbortInv DEF RequestStep
<1>4. CASE Bootstrap
  BY <1>4, BootstrapInv
<1>5. ASSUME NEW u \in Users, DeleteMe(u) \/ LdapLogin(u) PROVE LockInv'
  BY <1>5, DeleteMeInv, LdapLoginInv
<1>6. CASE UNCHANGED vars
  BY <1>6
  DEF LockInv, TypeOK, LocksOK, InTransaction, DecisionIsFresh, is_last_admin_risk, vars, userVars, reqVars
<1> QED  BY <1>1, <1>2, <1>3, <1>4, <1>5, <1>6 DEF Next

\* Type correctness of the account flags, the row locks and the requests.
THEOREM TypeCorrect == Spec => []TypeOK
<1>1. LockInv => TypeOK
  BY DEF LockInv
<1> QED  BY <1>1, InitInv, NextInv, PTL DEF Spec

\* Under every interleaving, the flags the guard read are still the target's
\* flags when set_superadmin, set_active, set_banned or soft_delete_guarded
\* writes.
THEOREM DecisionStaysFresh == Spec => []DecisionIsFresh
<1>1. LockInv => DecisionIsFresh
  BY DEF LockInv
<1> QED  BY <1>1, InitInv, NextInv, PTL DEF Spec

-----------------------------------------------------------------------------
(* The guard itself.  Two transactions on different rows do not exclude     *)
(* each other, so the count is only known to be true at the write while no  *)
(* two of them have overlapped and no unguarded writer has run.             *)

Guarded == LockInv /\ OneTransaction /\ CountHolds /\ SomeSuperadmin

\* A write that removes no usable superadmin, or leaves another one.
LEMMA WriteLeavesOne ==
    ASSUME Guarded, NEW r \in Requests, WriteAndCommit(r)
    PROVE  SomeSuperadmin'
<1> DEFINE op == Head(todo[r])
<1>1. PICK u \in Users : u = target[r] /\ op \in Ops /\ Apply(op, u) /\ u \notin deleted
  BY TailOfWork
  DEF Guarded, LockInv, TypeOK, LocksOK, DecisionIsFresh, InTransaction, WriteAndCommit
<1>2. \A v \in Users \ {u} : Usable(v) => Usable(v)'
  BY <1>1 DEF Apply, Usable
<1>3. CASE \E v \in Users \ {u} : Usable(v)
  BY <1>2, <1>3 DEF SomeSuperadmin
<1>4. CASE ~ \E v \in Users \ {u} : Usable(v)
  <2>1. Usable(u)
    BY <1>4 DEF Guarded, SomeSuperadmin
  <2>2. risk[r]
    BY <1>1, <2>1 DEF Guarded, LockInv, DecisionIsFresh, InTransaction, WriteAndCommit,
                is_last_admin_risk, Usable
  <2>3. ~RemovesAccess(op)
    BY <1>1, <1>4, <2>2 DEF Guarded, CountHolds, WriteAndCommit, AnotherSurvives
  <2>4. op \in {"promote", "activate", "unban"}
    BY <1>1, <2>3 DEF RemovesAccess, Ops
  <2>5. Usable(u)'
    BY <1>1, <2>1, <2>4 DEF Apply, Usable
  <2> QED  BY <1>1, <2>5 DEF SomeSuperadmin
<1> QED  BY <1>3, <1>4

\* A step that starts no transaction, finishes no count and touches no account
\* keeps everything the guard relies on.
LEMMA QuietStep ==
    ASSUME Guarded, UNCHANGED userVars,
           \A q \in Requests : InTransaction(q)' =>
               /\ pc'[q] = pc[q] /\ target'[q] = target[q]
               /\ todo'[q] = todo[q] /\ risk'[q] = risk[q]
    PROVE  (OneTransaction /\ CountHolds /\ SomeSuperadmin)'
<1>1. OneTransaction'
  BY DEF Guarded, OneTransaction, InTransaction
<1>2. SomeSuperadmin'
  BY DEF Guarded, SomeSuperadmin, Usable, userVars
<1>3. CountHolds'
  BY DEF Guarded, CountHolds, InTransaction, AnotherSurvives, Usable, userVars
<1> QED  BY <1>1, <1>2, <1>3

\* While nothing has been exposed, every step keeps the count true and a
\* usable superadmin in place.
LEMMA GuardedStep ==
    ASSUME Guarded, exposed = "no", exposed' = "no", [Next]_vars
    PROVE  (OneTransaction /\ CountHolds /\ SomeSuperadmin)'
<1>1. ASSUME NEW r \in Requests, NEW admin \in Users, NEW u \in Users,
             NEW ops \in AdminRequests, AdminRequest(r, admin, u, ops)
      PROVE  (OneTransaction /\ CountHolds /\ SomeSuperadmin)'
  BY <1>1, QuietStep DEF Guarded, LockInv, TypeOK, InTransaction, AdminRequest, Begin, Goto
<1>2. ASSUME NEW r \in Requests, NEW u \in Users, OidcSync(r, u)
      PROVE  (OneTransaction /\ CountHolds /\ SomeSuperadmin)'
  BY <1>2, QuietStep DEF Guarded, LockInv, TypeOK, InTransaction, OidcSync, Begin, Goto
<1>3. ASSUME NEW r \in Requests, LockTarget(r)
      PROVE  (OneTransaction /\ CountHolds /\ SomeSuperadmin)'
  <2>1. CASE target[r] \in deleted
    BY <1>3, <2>1, QuietStep
    DEF Guarded, LockInv, TypeOK, InTransaction, LockTarget, Decide, Respond, Goto, reqVars
  <2>2. CASE target[r] \notin deleted
    <3>1. \A q \in Requests \ {r} : ~InTransaction(q)
      BY <1>3, <2>2 DEF LockTarget, Decide
    <3>2. \A q \in Requests \ {r} : ~InTransaction(q)'
      BY <1>3, <3>1 DEF Guarded, LockInv, TypeOK, InTransaction, LockTarget, Decide, Respond, Goto
    <3>3. pc'[r] = "write" => ~(RemovesAccess(Head(todo'[r])) /\ risk'[r])
      BY <1>3, <2>2 DEF Guarded, LockInv, TypeOK, LockTarget, Decide, Respond, Goto, reqVars
    <3>4. OneTransaction' /\ CountHolds'
      BY <3>2, <3>3 DEF OneTransaction, CountHolds, InTransaction
    <3>5. SomeSuperadmin'
      BY <1>3 DEF Guarded, SomeSuperadmin, Usable, LockTarget, userVars
    <3> QED  BY <3>4, <3>5
  <2> QED  BY <2>1, <2>2
<1>4. ASSUME NEW r \in Requests, CountOthers(r)
      PROVE  (OneTransaction /\ CountHolds /\ SomeSuperadmin)'
  <2>1. InTransaction(r)
    BY <1>4 DEF CountOthers, InTransaction
  <2>2. \A q \in Requests \ {r} : ~InTransaction(q)
    BY <2>1 DEF Guarded, OneTransaction
  <2>3. \A q \in Requests \ {r} : ~InTransaction(q)'
    BY <1>4, <2>2 DEF Guarded, LockInv, TypeOK, InTransaction, CountOthers, Respond, Goto
  <2>4. pc'[r] = "write" => AnotherSurvives(target[r])'
    BY <1>4 DEF Guarded, LockInv, TypeOK, CountOthers, Respond, AnotherSurvives, Usable, Goto,
                reqVars, userVars
  <2>5. OneTransaction' /\ CountHolds'
    BY <2>3, <2>4 DEF OneTransaction, CountHolds, InTransaction
  <2>6. SomeSuperadmin'
    BY <1>4 DEF Guarded, SomeSuperadmin, Usable, CountOthers, userVars
  <2> QED  BY <2>5, <2>6
<1>5. ASSUME NEW r \in Requests, WriteAndCommit(r)
      PROVE  (OneTransaction /\ CountHolds /\ SomeSuperadmin)'
  <2>1. \A q \in Requests \ {r} : ~InTransaction(q)
    BY <1>5 DEF Guarded, OneTransaction, InTransaction, WriteAndCommit
  <2>2. \A q \in Requests : ~InTransaction(q)'
    BY <1>5, <2>1 DEF Guarded, LockInv, TypeOK, InTransaction, WriteAndCommit, Respond, Goto
  <2> QED
    BY <1>5, <2>2, WriteLeavesOne DEF OneTransaction, CountHolds, InTransaction
<1>6. ASSUME NEW r \in Requests, Abort(r)
      PROVE  (OneTransaction /\ CountHolds /\ SomeSuperadmin)'
  BY <1>6, QuietStep DEF Guarded, LockInv, TypeOK, InTransaction, Abort, Respond, Goto, reqVars
<1>7. CASE Bootstrap
  <2>1. \A v \in Users : Usable(v) => Usable(v)'
    BY <1>7 DEF Bootstrap, Usable
  <2>2. OneTransaction' /\ CountHolds'
    BY <1>7, <2>1
    DEF Guarded, OneTransaction, InTransaction, CountHolds, AnotherSurvives, Bootstrap, reqVars
  <2> QED  BY <2>1, <2>2 DEF Guarded, SomeSuperadmin
<1>8. CASE UNCHANGED vars
  BY <1>8, QuietStep DEF InTransaction, vars, reqVars
<1> QED
  BY <1>1, <1>2, <1>3, <1>4, <1>5, <1>6, <1>7, <1>8
  DEF Next, RequestStep, DeleteMe, LdapLogin

\* An exposure is never forgotten.
LEMMA ExposureStays == LockInv /\ [Next]_vars /\ exposed' = "no" => exposed = "no"
  BY DEF LockInv, TypeOK, Next, RequestStep, AdminRequest, OidcSync, Begin, LockTarget,
         CountOthers, WriteAndCommit, Decide, Abort, Bootstrap, DeleteMe, LdapLogin, vars

\* The last-superadmin guard of users.rs keeps a usable superadmin through any
\* number of requests: it is the overlap of two transactions or an unguarded
\* writer, never the guard's condition, that can lock everyone out.
THEOREM GuardHoldsWithoutOverlap == Spec => []LockoutNeedsOverlap
<1>1. Init => GuardInv
  <2>1. Init => SomeSuperadmin /\ CountHolds /\ OneTransaction
    BY DEF Init, SomeSuperadmin, Usable, CountHolds, OneTransaction, InTransaction
  <2> QED  BY <2>1, InitInv DEF GuardInv
<1>2. GuardInv /\ [Next]_vars => GuardInv'
  <2> SUFFICES ASSUME GuardInv, [Next]_vars PROVE GuardInv'
    OBVIOUS
  <2>1. LockInv'
    BY NextInv DEF GuardInv
  <2>2. ASSUME exposed' = "no" PROVE (OneTransaction /\ CountHolds /\ SomeSuperadmin)'
    <3>1. exposed = "no"
      BY <2>2, ExposureStays DEF GuardInv
    <3> QED  BY <2>2, <3>1, GuardedStep DEF GuardInv, Guarded
  <2> QED  BY <2>1, <2>2 DEF GuardInv
<1>3. GuardInv => LockoutNeedsOverlap
  BY DEF GuardInv, LockoutNeedsOverlap
<1> QED  BY <1>1, <1>2, <1>3, PTL DEF Spec

=============================================================================
