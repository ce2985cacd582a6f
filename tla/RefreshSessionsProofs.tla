----------------------- MODULE RefreshSessionsProofs -----------------------
(***************************************************************************)
(* Proofs about RefreshSessions, for any number of accounts, families,     *)
(* tokens and concurrent requests and any grace window.  SessionInv is     *)
(* inductive: one lemma per action, in it one step for the conjuncts the   *)
(* action leaves alone and one step for each conjunct it can disturb.      *)
(*                                                                         *)
(* BrowserTabs builds on it: every step of the browser is a step of        *)
(* RefreshSessions, and TabInv adds what the tabs and their jar know.      *)
(***************************************************************************)
EXTENDS BrowserTabs, TLAPS

\* No row and no handler exists in the initial state.
LEMMA InitInv == Init => SessionInv
  BY SessionAssumption
  DEF Init, SessionInv, TypeOK, RowsOK, HandlersOK, InsertersOK, RotationIsLinear,
      OneUnusedToken, OneSuccessor, Unused, SweptOK, BanHolds, LateOK,
      Steps, Reasons, RefreshSteps, NotYet

\* A request starts; it has looked nothing up yet.
LEMMA SendRefreshInv ==
    ASSUME SessionInv, NEW r \in Requests, NEW t \in Tokens, SendRefresh(r, t)
    PROVE  SessionInv'
<1>1. TypeOK' /\ RowsOK' /\ InsertersOK' /\ OneUnusedToken' /\ OneSuccessor' /\ SweptOK' /\
      BanHolds' /\ LateOK'
  BY SessionAssumption DEF SessionInv, RotationIsLinear, TypeOK, RowsOK, InsertersOK,
         OneUnusedToken, OneSuccessor, SweptOK, BanHolds, LateOK, SendRefresh, Goto,
         FamilyOf, Unused, Steps, Reasons, NotYet, famVars, tokVars, userVars, reqVars
<1>2. HandlersOK'
  BY SessionAssumption DEF SessionInv, HandlersOK, TypeOK, SendRefresh, Goto, RefreshSteps,
         Steps, Reasons, famVars, tokVars, userVars, reqVars
<1> QED  BY <1>1, <1>2 DEF SessionInv, RotationIsLinear

\* The verdict on the token is reached on one read.
LEMMA RefreshLookupInv ==
    ASSUME SessionInv, NEW r \in Requests, RefreshLookup(r)
    PROVE  SessionInv'
<1>1. TypeOK' /\ RowsOK' /\ HandlersOK' /\ InsertersOK' /\ OneUnusedToken' /\ OneSuccessor'
      /\ SweptOK' /\ BanHolds'
  BY SessionAssumption DEF SessionInv, RotationIsLinear, TypeOK, RowsOK, HandlersOK,
         InsertersOK, OneUnusedToken, OneSuccessor, SweptOK, BanHolds, RefreshLookup,
         RefreshVerdict, WithinGrace, Goto, FamilyOf, Unused, RefreshSteps, Steps, Reasons,
         NotYet, famVars, tokVars, userVars, reqVars
<1>2. LateOK'
  BY SessionAssumption DEF SessionInv, LateOK, TypeOK, HandlersOK, RefreshLookup,
         RefreshVerdict, WithinGrace, Goto, RefreshSteps, Steps, Reasons, NotYet, famVars,
         tokVars, userVars, reqVars
<1> QED  BY <1>1, <1>2 DEF SessionInv, RotationIsLinear

\* A revocation writes families only.
LEMMA RefreshReuseDetectedInv ==
    ASSUME SessionInv, NEW r \in Requests, RefreshReuseDetected(r)
    PROVE  SessionInv'
<1>1. HandlersOK' /\ InsertersOK' /\ OneUnusedToken' /\ OneSuccessor' /\ SweptOK' /\
      BanHolds' /\ LateOK'
  BY SessionAssumption DEF SessionInv, RotationIsLinear, HandlersOK, InsertersOK,
         OneUnusedToken, OneSuccessor, SweptOK, BanHolds, LateOK, RefreshReuseDetected,
         revoke_family, Goto, FamilyOf, Unused, RefreshSteps, NotYet, famVars, tokVars,
         userVars, reqVars
<1>2. TypeOK'
  BY SessionAssumption DEF SessionInv, TypeOK, HandlersOK, RefreshReuseDetected,
         revoke_family, Goto, FamilyOf, RefreshSteps, Steps, Reasons, famVars, tokVars,
         userVars, reqVars
<1>3. RowsOK'
  BY SessionAssumption DEF SessionInv, RowsOK, TypeOK, HandlersOK, RefreshReuseDetected,
         revoke_family, Goto, FamilyOf, RefreshSteps, Steps, Reasons, NotYet, famVars,
         tokVars, userVars, reqVars
<1> QED  BY <1>1, <1>2, <1>3 DEF SessionInv, RotationIsLinear

\* A swept account is banned, so it does not pass the gate.
LEMMA RefreshTouchInv ==
    ASSUME SessionInv, NEW r \in Requests, RefreshTouch(r)
    PROVE  SessionInv'
<1>1. TypeOK' /\ RowsOK' /\ HandlersOK' /\ InsertersOK' /\ OneUnusedToken' /\ OneSuccessor'
      /\ SweptOK' /\ BanHolds' /\ LateOK'
  BY SessionAssumption DEF SessionInv, RotationIsLinear, TypeOK, RowsOK, HandlersOK,
         InsertersOK, OneUnusedToken, OneSuccessor, SweptOK, BanHolds, LateOK, RefreshTouch,
         may_authenticate, Goto, FamilyOf, Unused, RefreshSteps, Steps, Reasons, NotYet,
         famVars, tokVars, userVars, reqVars
<1> QED  BY <1>1 DEF SessionInv, RotationIsLinear

\* A revocation writes families only.
LEMMA RefreshBlockedInv ==
    ASSUME SessionInv, NEW r \in Requests, RefreshBlocked(r)
    PROVE  SessionInv'
<1>1. HandlersOK' /\ InsertersOK' /\ OneUnusedToken' /\ OneSuccessor' /\ SweptOK' /\
      BanHolds' /\ LateOK'
  BY SessionAssumption DEF SessionInv, RotationIsLinear, HandlersOK, InsertersOK,
         OneUnusedToken, OneSuccessor, SweptOK, BanHolds, LateOK, RefreshBlocked,
         revoke_family, Goto, FamilyOf, Unused, RefreshSteps, NotYet, famVars, tokVars,
         userVars, reqVars
<1>2. TypeOK'
  BY SessionAssumption DEF SessionInv, TypeOK, HandlersOK, RefreshBlocked, revoke_family,
         Goto, FamilyOf, RefreshSteps, Steps, Reasons, famVars, tokVars, userVars, reqVars
<1>3. RowsOK'
  BY SessionAssumption DEF SessionInv, RowsOK, TypeOK, HandlersOK, RefreshBlocked,
         revoke_family, Goto, FamilyOf, RefreshSteps, Steps, Reasons, NotYet, famVars,
         tokVars, userVars, reqVars
<1> QED  BY <1>1, <1>2, <1>3 DEF SessionInv, RotationIsLinear

\* The compare-and-set: one winner, and with it every token of the family is
\* spent, so the winner is the only handler about to insert.
LEMMA RefreshMarkUsedInv ==
    ASSUME SessionInv, NEW r \in Requests, RefreshMarkUsed(r)
    PROVE  SessionInv'
<1>1. TypeOK'
  BY SessionAssumption DEF SessionInv, TypeOK, RefreshMarkUsed, mark_used_wins, Goto, Steps,
         Reasons, NotYet, famVars, tokVars, userVars, reqVars
<1>2. RowsOK'
  BY SessionAssumption DEF SessionInv, RowsOK, TypeOK, HandlersOK, RefreshMarkUsed,
         mark_used_wins, Goto, RefreshSteps, Steps, Reasons, NotYet, famVars, tokVars,
         userVars, reqVars
<1>3. HandlersOK'
  BY SessionAssumption DEF SessionInv, HandlersOK, TypeOK, RefreshMarkUsed, mark_used_wins,
         Goto, RefreshSteps, Steps, Reasons, NotYet, famVars, tokVars, userVars, reqVars
<1>4. InsertersOK'
  <2>1. CASE ~mark_used_wins(rTok[r])
    BY <2>1 DEF SessionInv, InsertersOK, TypeOK, RefreshMarkUsed, Goto, FamilyOf, reqVars
  <2>2. CASE mark_used_wins(rTok[r])
    <3> DEFINE t == rTok[r]
    <3>1. t \in Tokens /\ tokFam[t] # NoFamily /\ pc[r] = "refresh_mark"
      BY DEF SessionInv, HandlersOK, RefreshSteps, RefreshMarkUsed
    <3>2. tokUsed[t] = NotYet /\ tokUsed' = [tokUsed EXCEPT ![t] = now] /\ now # NotYet
      BY <2>2 DEF SessionInv, TypeOK, RefreshMarkUsed, mark_used_wins, NotYet
    <3>3. \A x \in Tokens : tokParent[x] # t
      BY <3>1, <3>2, SessionAssumption DEF SessionInv, RotationIsLinear, OneSuccessor
    <3>4. \A x \in Tokens : tokFam[x] = tokFam[t] => tokUsed'[x] # NotYet
      BY <3>1, <3>2 DEF SessionInv, TypeOK, RotationIsLinear, OneUnusedToken, Unused
    <3>5. \A q \in Requests : pc[q] = "refresh_insert" => FamilyOf(q) # tokFam[t]
      BY <3>1, <3>2 DEF SessionInv, InsertersOK
    <3>6. \A x \in Tokens : tokUsed[x] # NotYet => tokUsed'[x] # NotYet
      BY <3>1, <3>2 DEF SessionInv, TypeOK
    <3>7. pc' = [pc EXCEPT ![r] = "refresh_insert"] /\ UNCHANGED <<tokFam, tokParent, rTok, rFam>>
      BY <2>2 DEF RefreshMarkUsed, Goto, tokVars, reqVars
    <3> QED
      BY <3>1, <3>2, <3>3, <3>4, <3>5, <3>6, <3>7
      DEF SessionInv, InsertersOK, TypeOK, HandlersOK, RefreshSteps, FamilyOf
  <2> QED  BY <2>1, <2>2
<1>5. OneUnusedToken'
  BY SessionAssumption DEF SessionInv, RotationIsLinear, OneUnusedToken, TypeOK,
         RefreshMarkUsed, mark_used_wins, Goto, Unused, Steps, Reasons, NotYet, famVars,
         tokVars, userVars, reqVars
<1>6. OneSuccessor'
  BY SessionAssumption DEF SessionInv, RotationIsLinear, OneSuccessor, TypeOK,
         RefreshMarkUsed, mark_used_wins, Goto, Steps, Reasons, NotYet, famVars, tokVars,
         userVars, reqVars
<1>7. SweptOK'
  BY SessionAssumption DEF SessionInv, SweptOK, TypeOK, RefreshMarkUsed, mark_used_wins,
         Goto, FamilyOf, Steps, Reasons, NotYet, famVars, tokVars, userVars, reqVars
<1>8. BanHolds'
  BY SessionAssumption DEF SessionInv, BanHolds, TypeOK, SweptOK, RefreshMarkUsed,
         mark_used_wins, Goto, FamilyOf, Steps, Reasons, NotYet, famVars, tokVars, userVars,
         reqVars
<1>9. LateOK'
  BY SessionAssumption DEF SessionInv, LateOK, TypeOK, HandlersOK, RefreshMarkUsed,
         mark_used_wins, Goto, RefreshSteps, Steps, Reasons, NotYet, famVars, tokVars,
         userVars, reqVars
<1> QED  BY <1>1, <1>2, <1>3, <1>4, <1>5, <1>6, <1>7, <1>8, <1>9 DEF SessionInv, RotationIsLinear

\* The successor becomes the family's only unused token.
LEMMA RefreshInsertInv ==
    ASSUME SessionInv, NEW r \in Requests, RefreshInsert(r)
    PROVE  SessionInv'
<1>1. LateOK'
  BY SessionAssumption DEF SessionInv, LateOK, RefreshInsert, insert_token, Goto, FamilyOf,
         NotYet, famVars, tokVars, userVars, reqVars
<1>2. TypeOK'
  BY SessionAssumption DEF SessionInv, TypeOK, HandlersOK, RefreshInsert, insert_token,
         Goto, FamilyOf, RefreshSteps, Steps, Reasons, famVars, tokVars, userVars, reqVars
<1>3. RowsOK'
  BY SessionAssumption DEF SessionInv, RowsOK, TypeOK, HandlersOK, RefreshInsert,
         insert_token, Goto, FamilyOf, RefreshSteps, Steps, Reasons, NotYet, famVars,
         tokVars, userVars, reqVars
<1>4. HandlersOK'
  BY SessionAssumption DEF SessionInv, HandlersOK, TypeOK, RefreshInsert, insert_token,
         Goto, FamilyOf, RefreshSteps, Steps, Reasons, famVars, tokVars, userVars, reqVars
<1>5. InsertersOK'
  BY SessionAssumption DEF SessionInv, InsertersOK, TypeOK, RowsOK, RefreshInsert,
         insert_token, Goto, FamilyOf, Steps, Reasons, NotYet, famVars, tokVars, userVars,
         reqVars
<1>6. OneUnusedToken'
  BY SessionAssumption DEF SessionInv, RotationIsLinear, OneUnusedToken, TypeOK,
         InsertersOK, RefreshInsert, insert_token, Goto, FamilyOf, Unused, Steps, Reasons,
         NotYet, famVars, tokVars, userVars, reqVars
<1>7. OneSuccessor'
  BY SessionAssumption DEF SessionInv, RotationIsLinear, OneSuccessor, TypeOK, RowsOK,
         InsertersOK, RefreshInsert, insert_token, Goto, FamilyOf, Steps, Reasons, NotYet,
         famVars, tokVars, userVars, reqVars
<1>8. SweptOK'
  BY SessionAssumption DEF SessionInv, SweptOK, TypeOK, RefreshInsert, insert_token, Goto,
         FamilyOf, Steps, Reasons, famVars, tokVars, userVars, reqVars
<1>9. BanHolds'
  BY SessionAssumption DEF SessionInv, BanHolds, TypeOK, SweptOK, RefreshInsert,
         insert_token, Goto, FamilyOf, Steps, Reasons, NotYet, famVars, tokVars, userVars,
         reqVars
<1> QED  BY <1>1, <1>2, <1>3, <1>4, <1>5, <1>6, <1>7, <1>8, <1>9 DEF SessionInv, RotationIsLinear

\* A request starts; it has looked nothing up yet.
LEMMA SendLogoutInv ==
    ASSUME SessionInv, NEW r \in Requests, NEW t \in Tokens, SendLogout(r, t)
    PROVE  SessionInv'
<1>1. TypeOK' /\ RowsOK' /\ InsertersOK' /\ OneUnusedToken' /\ OneSuccessor' /\ SweptOK' /\
      BanHolds' /\ LateOK'
  BY SessionAssumption DEF SessionInv, RotationIsLinear, TypeOK, RowsOK, InsertersOK,
         OneUnusedToken, OneSuccessor, SweptOK, BanHolds, LateOK, SendLogout, Goto,
         FamilyOf, Unused, Steps, Reasons, NotYet, famVars, tokVars, userVars, reqVars
<1>2. HandlersOK'
  BY SessionAssumption DEF SessionInv, HandlersOK, TypeOK, SendLogout, Goto, RefreshSteps,
         Steps, Reasons, famVars, tokVars, userVars, reqVars
<1> QED  BY <1>1, <1>2 DEF SessionInv, RotationIsLinear

\* Logout only names the token's family.
LEMMA LogoutLookupInv ==
    ASSUME SessionInv, NEW r \in Requests, LogoutLookup(r)
    PROVE  SessionInv'
<1>1. TypeOK' /\ RowsOK' /\ HandlersOK' /\ InsertersOK' /\ OneUnusedToken' /\ OneSuccessor'
      /\ SweptOK' /\ BanHolds' /\ LateOK'
  BY SessionAssumption DEF SessionInv, RotationIsLinear, TypeOK, RowsOK, HandlersOK,
         InsertersOK, OneUnusedToken, OneSuccessor, SweptOK, BanHolds, LateOK, LogoutLookup,
         Goto, FamilyOf, Unused, RefreshSteps, Steps, Reasons, NotYet, famVars, tokVars,
         userVars, reqVars
<1> QED  BY <1>1 DEF SessionInv, RotationIsLinear

\* A revocation writes families only.
LEMMA LogoutRevokeInv ==
    ASSUME SessionInv, NEW r \in Requests, LogoutRevoke(r)
    PROVE  SessionInv'
<1>1. HandlersOK' /\ InsertersOK' /\ OneUnusedToken' /\ OneSuccessor' /\ SweptOK' /\
      BanHolds' /\ LateOK'
  BY SessionAssumption DEF SessionInv, RotationIsLinear, HandlersOK, InsertersOK,
         OneUnusedToken, OneSuccessor, SweptOK, BanHolds, LateOK, LogoutRevoke,
         revoke_family, Goto, FamilyOf, Unused, RefreshSteps, NotYet, famVars, tokVars,
         userVars, reqVars
<1>2. TypeOK'
  BY SessionAssumption DEF SessionInv, TypeOK, HandlersOK, LogoutRevoke, revoke_family,
         Goto, FamilyOf, RefreshSteps, Steps, Reasons, famVars, tokVars, userVars, reqVars
<1>3. RowsOK'
  BY SessionAssumption DEF SessionInv, RowsOK, TypeOK, HandlersOK, LogoutRevoke,
         revoke_family, Goto, FamilyOf, RefreshSteps, Steps, Reasons, NotYet, famVars,
         tokVars, userVars, reqVars
<1> QED  BY <1>1, <1>2, <1>3 DEF SessionInv, RotationIsLinear

\* A sign-in reaches establish_session.
LEMMA SignInInv ==
    ASSUME SessionInv, NEW r \in Requests, NEW u \in Users, SignIn(r, u)
    PROVE  SessionInv'
<1>1. TypeOK' /\ RowsOK' /\ InsertersOK' /\ OneUnusedToken' /\ OneSuccessor' /\ SweptOK' /\
      BanHolds' /\ LateOK'
  BY SessionAssumption DEF SessionInv, RotationIsLinear, TypeOK, RowsOK, InsertersOK,
         OneUnusedToken, OneSuccessor, SweptOK, BanHolds, LateOK, SignIn, Goto, FamilyOf,
         Unused, Steps, Reasons, NotYet, famVars, tokVars, userVars, reqVars
<1>2. HandlersOK'
  BY SessionAssumption DEF SessionInv, HandlersOK, TypeOK, SignIn, Goto, RefreshSteps,
         Steps, Reasons, famVars, tokVars, userVars, reqVars
<1> QED  BY <1>1, <1>2 DEF SessionInv, RotationIsLinear

\* A new family has no token yet, so nobody works on it.
LEMMA CreateFamilyInv ==
    ASSUME SessionInv, NEW r \in Requests, CreateFamily(r)
    PROVE  SessionInv'
<1>1. TypeOK' /\ RowsOK' /\ OneUnusedToken' /\ OneSuccessor' /\ LateOK'
  BY SessionAssumption DEF SessionInv, RotationIsLinear, TypeOK, RowsOK, OneUnusedToken,
         OneSuccessor, LateOK, CreateFamily, Goto, Unused, Steps, Reasons, NotYet, famVars,
         tokVars, userVars, reqVars
<1>2. HandlersOK'
  BY SessionAssumption DEF SessionInv, HandlersOK, TypeOK, CreateFamily, Goto, RefreshSteps,
         Steps, Reasons, famVars, tokVars, userVars, reqVars
<1>3. InsertersOK'
  BY SessionAssumption DEF SessionInv, InsertersOK, TypeOK, RowsOK, HandlersOK,
         CreateFamily, Goto, FamilyOf, RefreshSteps, Steps, Reasons, NotYet, famVars,
         tokVars, userVars, reqVars
<1>4. SweptOK'
  BY SessionAssumption DEF SessionInv, SweptOK, TypeOK, RowsOK, HandlersOK, CreateFamily,
         Goto, FamilyOf, RefreshSteps, Steps, Reasons, NotYet, famVars, tokVars, userVars,
         reqVars
<1>5. BanHolds'
  BY SessionAssumption DEF SessionInv, BanHolds, TypeOK, RowsOK, CreateFamily, Goto, Steps,
         Reasons, NotYet, famVars, tokVars, userVars, reqVars
<1> QED  BY <1>1, <1>2, <1>3, <1>4, <1>5 DEF SessionInv, RotationIsLinear

\* The root token is the only token of its family.
LEMMA InsertFirstTokenInv ==
    ASSUME SessionInv, NEW r \in Requests, InsertFirstToken(r)
    PROVE  SessionInv'
<1>1. TypeOK' /\ HandlersOK' /\ LateOK'
  BY SessionAssumption DEF SessionInv, TypeOK, HandlersOK, LateOK, InsertFirstToken,
         insert_token, Goto, RefreshSteps, Steps, Reasons, NotYet, famVars, tokVars,
         userVars, reqVars
<1>2. RowsOK'
  BY SessionAssumption DEF SessionInv, RowsOK, TypeOK, HandlersOK, InsertFirstToken,
         insert_token, Goto, RefreshSteps, Steps, Reasons, NotYet, famVars, tokVars,
         userVars, reqVars
<1>3. InsertersOK'
  BY SessionAssumption DEF SessionInv, InsertersOK, TypeOK, RowsOK, InsertFirstToken,
         insert_token, Goto, FamilyOf, Steps, Reasons, NotYet, famVars, tokVars, userVars,
         reqVars
<1>4. OneUnusedToken'
  BY SessionAssumption DEF SessionInv, RotationIsLinear, OneUnusedToken, TypeOK,
         InsertersOK, InsertFirstToken, insert_token, Goto, FamilyOf, Unused, Steps,
         Reasons, NotYet, famVars, tokVars, userVars, reqVars
<1>5. OneSuccessor'
  BY SessionAssumption DEF SessionInv, RotationIsLinear, OneSuccessor, TypeOK, RowsOK,
         InsertFirstToken, insert_token, Goto, Steps, Reasons, NotYet, famVars, tokVars,
         userVars, reqVars
<1>6. SweptOK'
  BY SessionAssumption DEF SessionInv, SweptOK, TypeOK, HandlersOK, InsertFirstToken,
         insert_token, Goto, FamilyOf, RefreshSteps, Steps, Reasons, famVars, tokVars,
         userVars, reqVars
<1>7. BanHolds'
  BY SessionAssumption DEF SessionInv, BanHolds, TypeOK, RowsOK, InsertFirstToken,
         insert_token, Goto, Steps, Reasons, NotYet, famVars, tokVars, userVars, reqVars
<1> QED  BY <1>1, <1>2, <1>3, <1>4, <1>5, <1>6, <1>7 DEF SessionInv, RotationIsLinear

\* The ban is recorded; nothing is swept yet.
LEMMA BanUserInv ==
    ASSUME SessionInv, NEW r \in Requests, NEW u \in Users, BanUser(r, u)
    PROVE  SessionInv'
<1>1. TypeOK' /\ RowsOK' /\ InsertersOK' /\ OneUnusedToken' /\ OneSuccessor' /\ SweptOK' /\
      BanHolds' /\ LateOK'
  BY SessionAssumption DEF SessionInv, RotationIsLinear, TypeOK, RowsOK, InsertersOK,
         OneUnusedToken, OneSuccessor, SweptOK, BanHolds, LateOK, BanUser, Goto, FamilyOf,
         Unused, Steps, Reasons, NotYet, famVars, tokVars, userVars, reqVars
<1>2. HandlersOK'
  BY SessionAssumption DEF SessionInv, HandlersOK, TypeOK, BanUser, Goto, RefreshSteps,
         Steps, Reasons, famVars, tokVars, userVars, reqVars
<1> QED  BY <1>1, <1>2 DEF SessionInv, RotationIsLinear

\* An erased account's sessions are still to be revoked.
LEMMA EraseUserInv ==
    ASSUME SessionInv, NEW r \in Requests, NEW u \in Users, EraseUser(r, u)
    PROVE  SessionInv'
<1>1. TypeOK' /\ RowsOK' /\ InsertersOK' /\ OneUnusedToken' /\ OneSuccessor' /\ SweptOK' /\
      BanHolds' /\ LateOK'
  BY SessionAssumption DEF SessionInv, RotationIsLinear, TypeOK, RowsOK, InsertersOK,
         OneUnusedToken, OneSuccessor, SweptOK, BanHolds, LateOK, EraseUser, Goto, FamilyOf,
         Unused, Steps, Reasons, NotYet, famVars, tokVars, userVars, reqVars
<1>2. HandlersOK'
  BY SessionAssumption DEF SessionInv, HandlersOK, TypeOK, EraseUser, Goto, RefreshSteps,
         Steps, Reasons, famVars, tokVars, userVars, reqVars
<1> QED  BY <1>1, <1>2 DEF SessionInv, RotationIsLinear

\* Sessions are about to be revoked.
LEMMA SignOutEverywhereInv ==
    ASSUME SessionInv, NEW r \in Requests, NEW u \in Users, SignOutEverywhere(r, u)
    PROVE  SessionInv'
<1>1. TypeOK' /\ RowsOK' /\ InsertersOK' /\ OneUnusedToken' /\ OneSuccessor' /\ SweptOK' /\
      BanHolds' /\ LateOK'
  BY SessionAssumption DEF SessionInv, RotationIsLinear, TypeOK, RowsOK, InsertersOK,
         OneUnusedToken, OneSuccessor, SweptOK, BanHolds, LateOK, SignOutEverywhere, Goto,
         FamilyOf, Unused, Steps, Reasons, NotYet, famVars, tokVars, userVars, reqVars
<1>2. HandlersOK'
  BY SessionAssumption DEF SessionInv, HandlersOK, TypeOK, SignOutEverywhere, Goto,
         RefreshSteps, Steps, Reasons, famVars, tokVars, userVars, reqVars
<1> QED  BY <1>1, <1>2 DEF SessionInv, RotationIsLinear

\* The sweep: no family of the account is live afterwards.
LEMMA RevokeAllInv ==
    ASSUME SessionInv, NEW r \in Requests, RevokeAll(r)
    PROVE  SessionInv'
<1>1. TypeOK' /\ HandlersOK' /\ InsertersOK' /\ OneUnusedToken' /\ OneSuccessor' /\ LateOK'
  BY SessionAssumption DEF SessionInv, RotationIsLinear, TypeOK, HandlersOK, InsertersOK,
         OneUnusedToken, OneSuccessor, LateOK, RevokeAll, revoke_all_for_user, Goto,
         FamilyOf, Unused, RefreshSteps, Steps, Reasons, NotYet, famVars, tokVars, userVars,
         reqVars
<1>2. RowsOK'
  BY SessionAssumption DEF SessionInv, RowsOK, TypeOK, HandlersOK, RevokeAll,
         revoke_all_for_user, Goto, RefreshSteps, Steps, Reasons, NotYet, famVars, tokVars,
         userVars, reqVars
<1>3. SweptOK'
  BY SessionAssumption DEF SessionInv, SweptOK, TypeOK, HandlersOK, RevokeAll,
         revoke_all_for_user, Goto, FamilyOf, RefreshSteps, Steps, Reasons, famVars,
         tokVars, userVars, reqVars
<1>4. BanHolds'
  BY SessionAssumption DEF SessionInv, BanHolds, TypeOK, RevokeAll, revoke_all_for_user,
         Goto, Steps, Reasons, NotYet, famVars, tokVars, userVars, reqVars
<1> QED  BY <1>1, <1>2, <1>3, <1>4 DEF SessionInv, RotationIsLinear

\* An unbanned account is no longer swept.
LEMMA UnbanUserInv ==
    ASSUME SessionInv, NEW u \in Users, UnbanUser(u)
    PROVE  SessionInv'
<1>1. TypeOK' /\ RowsOK' /\ HandlersOK' /\ InsertersOK' /\ OneUnusedToken' /\ OneSuccessor'
      /\ SweptOK' /\ BanHolds' /\ LateOK'
  BY SessionAssumption DEF SessionInv, RotationIsLinear, TypeOK, RowsOK, HandlersOK,
         InsertersOK, OneUnusedToken, OneSuccessor, SweptOK, BanHolds, LateOK, UnbanUser,
         FamilyOf, Unused, RefreshSteps, Steps, Reasons, NotYet, famVars, tokVars, userVars,
         reqVars
<1> QED  BY <1>1 DEF SessionInv, RotationIsLinear

\* is_active closes no session.
LEMMA SetActiveInv ==
    ASSUME SessionInv, NEW u \in Users, SetActive(u)
    PROVE  SessionInv'
<1>1. TypeOK' /\ RowsOK' /\ HandlersOK' /\ InsertersOK' /\ OneUnusedToken' /\ OneSuccessor'
      /\ SweptOK' /\ BanHolds' /\ LateOK'
  BY SessionAssumption DEF SessionInv, RotationIsLinear, TypeOK, RowsOK, HandlersOK,
         InsertersOK, OneUnusedToken, OneSuccessor, SweptOK, BanHolds, LateOK, SetActive,
         FamilyOf, Unused, RefreshSteps, Steps, Reasons, NotYet, famVars, tokVars, userVars,
         reqVars
<1> QED  BY <1>1 DEF SessionInv, RotationIsLinear

\* An administrative deletion closes no session.
LEMMA AdminDeleteUserInv ==
    ASSUME SessionInv, NEW u \in Users, AdminDeleteUser(u)
    PROVE  SessionInv'
<1>1. TypeOK' /\ RowsOK' /\ HandlersOK' /\ InsertersOK' /\ OneUnusedToken' /\ OneSuccessor'
      /\ SweptOK' /\ BanHolds' /\ LateOK'
  BY SessionAssumption DEF SessionInv, RotationIsLinear, TypeOK, RowsOK, HandlersOK,
         InsertersOK, OneUnusedToken, OneSuccessor, SweptOK, BanHolds, LateOK,
         AdminDeleteUser, FamilyOf, Unused, RefreshSteps, Steps, Reasons, NotYet, famVars,
         tokVars, userVars, reqVars
<1> QED  BY <1>1 DEF SessionInv, RotationIsLinear

\* A finished handler forgets its locals.
LEMMA DeliverInv ==
    ASSUME SessionInv, NEW r \in Requests, Deliver(r)
    PROVE  SessionInv'
<1>1. TypeOK' /\ RowsOK' /\ HandlersOK' /\ InsertersOK' /\ OneUnusedToken' /\ OneSuccessor'
      /\ SweptOK' /\ BanHolds' /\ LateOK'
  BY SessionAssumption DEF SessionInv, RotationIsLinear, TypeOK, RowsOK, HandlersOK,
         InsertersOK, OneUnusedToken, OneSuccessor, SweptOK, BanHolds, LateOK, Deliver,
         Answers, Goto, FamilyOf, Unused, RefreshSteps, Steps, Reasons, NotYet, famVars,
         tokVars, userVars, reqVars
<1> QED  BY <1>1 DEF SessionInv, RotationIsLinear

\* A handler that dies leaves its writes and inserts nothing more.
LEMMA DbErrorInv ==
    ASSUME SessionInv, NEW r \in Requests, DbError(r)
    PROVE  SessionInv'
<1>1. TypeOK' /\ RowsOK' /\ OneUnusedToken' /\ OneSuccessor' /\ BanHolds'
  BY SessionAssumption DEF SessionInv, RotationIsLinear, TypeOK, RowsOK, OneUnusedToken,
         OneSuccessor, BanHolds, DbError, Answers, BestEffort, Goto, Unused, Steps, Reasons,
         NotYet, famVars, tokVars, userVars, reqVars
<1>2. HandlersOK'
  BY SessionAssumption DEF SessionInv, HandlersOK, TypeOK, DbError, Answers, BestEffort,
         Goto, RefreshSteps, Steps, Reasons, famVars, tokVars, userVars, reqVars
<1>3. InsertersOK'
  BY SessionAssumption DEF SessionInv, InsertersOK, TypeOK, DbError, Answers, BestEffort,
         Goto, FamilyOf, Steps, Reasons, NotYet, famVars, tokVars, userVars, reqVars
<1>4. SweptOK'
  BY SessionAssumption DEF SessionInv, SweptOK, TypeOK, DbError, Answers, BestEffort, Goto,
         FamilyOf, Steps, Reasons, famVars, tokVars, userVars, reqVars
<1>5. LateOK'
  BY SessionAssumption DEF SessionInv, LateOK, TypeOK, DbError, Answers, BestEffort, Goto,
         Steps, Reasons, NotYet, famVars, tokVars, userVars, reqVars
<1> QED  BY <1>1, <1>2, <1>3, <1>4, <1>5 DEF SessionInv, RotationIsLinear

\* Time only makes a late reuse later.
LEMMA TickInv ==
    ASSUME SessionInv, Tick
    PROVE  SessionInv'
<1>1. TypeOK' /\ RowsOK' /\ HandlersOK' /\ InsertersOK' /\ OneUnusedToken' /\ OneSuccessor'
      /\ SweptOK' /\ BanHolds'
  BY SessionAssumption DEF SessionInv, RotationIsLinear, TypeOK, RowsOK, HandlersOK,
         InsertersOK, OneUnusedToken, OneSuccessor, SweptOK, BanHolds, Tick, FamilyOf,
         Unused, RefreshSteps, Steps, Reasons, NotYet, famVars, tokVars, userVars, reqVars
<1>2. LateOK'
  BY SessionAssumption DEF SessionInv, LateOK, TypeOK, HandlersOK, Tick, RefreshSteps,
         Steps, Reasons, NotYet, famVars, tokVars, userVars, reqVars
<1> QED  BY <1>1, <1>2 DEF SessionInv, RotationIsLinear

\* Every step of the specification, stuttering included, preserves SessionInv.
LEMMA NextInv == SessionInv /\ [Next]_vars => SessionInv'
<1> SUFFICES ASSUME SessionInv, [Next]_vars PROVE SessionInv'
  OBVIOUS
<1>1. ASSUME NEW r \in Requests, Arrive(r) PROVE SessionInv'
  BY <1>1, SendRefreshInv, SendLogoutInv, SignInInv, BanUserInv, EraseUserInv,
     SignOutEverywhereInv DEF Arrive
<1>2. ASSUME NEW r \in Requests, RefreshStep(r) PROVE SessionInv'
  BY <1>2, RefreshLookupInv, RefreshReuseDetectedInv, RefreshTouchInv, RefreshBlockedInv,
     RefreshMarkUsedInv, RefreshInsertInv DEF RefreshStep
<1>3. ASSUME NEW r \in Requests, LogoutStep(r) \/ SignInStep(r) PROVE SessionInv'
  BY <1>3, LogoutLookupInv, LogoutRevokeInv, CreateFamilyInv, InsertFirstTokenInv
     DEF LogoutStep, SignInStep
<1>4. ASSUME NEW r \in Requests, RevokeAll(r) \/ Deliver(r) \/ DbError(r) PROVE SessionInv'
  BY <1>4, RevokeAllInv, DeliverInv, DbErrorInv
<1>5. ASSUME NEW u \in Users, AccountStep(u) PROVE SessionInv'
  BY <1>5, UnbanUserInv, SetActiveInv, AdminDeleteUserInv DEF AccountStep
<1>6. CASE Tick
  BY <1>6, TickInv
<1>7. CASE UNCHANGED vars
  BY <1>7
  DEF SessionInv, TypeOK, RowsOK, HandlersOK, InsertersOK, RotationIsLinear, OneUnusedToken,
      OneSuccessor, Unused, SweptOK, BanHolds, LateOK, FamilyOf,
      vars, famVars, tokVars, userVars, reqVars
<1> QED  BY <1>1, <1>2, <1>3, <1>4, <1>5, <1>6, <1>7 DEF Next

\* The inductive invariant holds throughout.
THEOREM SessionInvariant == Spec => []SessionInv
  BY InitInv, NextInv, PTL DEF Spec

\* Type correctness of the session tables and the handlers' locals.
THEOREM TypeCorrect == Spec => []TypeOK
<1>1. SessionInv => TypeOK
  BY DEF SessionInv
<1> QED  BY <1>1, SessionInvariant, PTL

\* However many handlers of POST /auth/refresh run at once, a session's chain
\* of refresh tokens never forks.
THEOREM RotationNeverForks == Spec => []RotationIsLinear
<1>1. SessionInv => RotationIsLinear
  BY DEF SessionInv
<1> QED  BY <1>1, SessionInvariant, PTL

\* After ban_user has revoked the account's sessions, none of them, and no
\* session opened meanwhile, is extended by refresh while the ban stands.
THEOREM BanStopsRefresh == Spec => []BanHolds
<1>1. SessionInv => BanHolds
  BY DEF SessionInv
<1> QED  BY <1>1, SessionInvariant, PTL

\* No interleaving of refresh, logout, ban, erase and sign-out-everywhere
\* rewrites a revocation.
THEOREM RevocationStands == Spec => RevocationIsFinal
<1>1. SessionInv /\ [Next]_vars =>
          [\A f \in Families : famState[f] # "live" => famState'[f] = famState[f]]_vars
  <2> SUFFICES ASSUME SessionInv, Next, NEW f \in Families, famState[f] # "live"
               PROVE  famState'[f] = famState[f]
    BY DEF vars
  <2>1. CASE UNCHANGED famState
    BY <2>1
  <2>2. ASSUME NEW g, NEW why, revoke_family(g, why) PROVE famState'[f] = famState[f]
    BY <2>2 DEF SessionInv, TypeOK, revoke_family
  <2>3. ASSUME NEW u, NEW why, revoke_all_for_user(u, why) PROVE famState'[f] = famState[f]
    BY <2>3 DEF revoke_all_for_user
  <2> QED
    BY <2>1, <2>2, <2>3
    DEF Next, Arrive, RefreshStep, LogoutStep, SignInStep, AccountStep, SendRefresh, SendLogout,
        SignIn, BanUser, EraseUser, SignOutEverywhere, RefreshLookup, RefreshReuseDetected,
        RefreshTouch, RefreshBlocked, RefreshMarkUsed, RefreshInsert, LogoutLookup, LogoutRevoke,
        CreateFamily, InsertFirstToken, RevokeAll, UnbanUser, SetActive, AdminDeleteUser,
        Deliver, DbError, Tick, famVars
<1> QED  BY <1>1, SessionInvariant, PTL DEF Spec, RevocationIsFinal

\* A family is condemned for reuse only on account of a token that was spent
\* more than the grace window before.
THEOREM ReuseNeedsLateReplay == Spec => ReuseIsLate
<1> DEFINE Late(f) == \E t \in Tokens : /\ tokFam[t] = f /\ tokUsed[t] # NotYet
                                        /\ now - tokUsed[t] > Grace
<1>1. SessionInv /\ [Next]_vars =>
          [\A f \in Families :
              famState[f] = "live" /\ famState'[f] = "reuse_detected" => Late(f)]_vars
  <2> SUFFICES ASSUME SessionInv, Next, NEW f \in Families,
                      famState[f] = "live", famState'[f] = "reuse_detected"
               PROVE  Late(f)
    BY DEF vars
  <2>1. ASSUME NEW r \in Requests, RefreshReuseDetected(r) PROVE Late(f)
    <3>1. rTok[r] \in Tokens /\ tokUsed[rTok[r]] # NotYet /\ now - tokUsed[rTok[r]] > Grace
      BY <2>1 DEF SessionInv, HandlersOK, RefreshSteps, LateOK, RefreshReuseDetected
    <3>2. tokFam[rTok[r]] = f
      BY <2>1 DEF SessionInv, TypeOK, RefreshReuseDetected, revoke_family, FamilyOf
    <3> QED  BY <3>1, <3>2
  <2>2. ASSUME NEW r \in Requests, RefreshBlocked(r) \/ LogoutRevoke(r) PROVE FALSE
    BY <2>2 DEF SessionInv, TypeOK, RefreshBlocked, LogoutRevoke, revoke_family
  <2>3. ASSUME NEW r \in Requests, RevokeAll(r) PROVE FALSE
    BY <2>3 DEF SessionInv, TypeOK, RevokeAll, revoke_all_for_user
  <2>4. CASE UNCHANGED famState
    BY <2>4
  <2> QED
    BY <2>1, <2>2, <2>3, <2>4
    DEF Next, Arrive, RefreshStep, LogoutStep, SignInStep, AccountStep, SendRefresh, SendLogout,
        SignIn, BanUser, EraseUser, SignOutEverywhere, RefreshLookup, RefreshTouch,
        RefreshMarkUsed, RefreshInsert, LogoutLookup, CreateFamily, InsertFirstToken,
        UnbanUser, SetActive, AdminDeleteUser, Deliver, DbError, Tick, famVars
<1> QED  BY <1>1, SessionInvariant, PTL DEF Spec, ReuseIsLate

-----------------------------------------------------------------------------
(* BrowserTabs.  Every step of the browser is a step of RefreshSessions, so *)
(* SessionInv holds of it; what is left are the clock and the cookie jar.   *)

LEMMA TabInitInv == TabInit => TabInv
  BY InitInv, SessionAssumption
  DEF TabInit, Init, TabInv, TabTypeOK, InTime, HeldOK, JarOK, RecentOK, RaceNeverSignsOut

\* The browser signs in: the tab has no token yet.
LEMMA TabSignInInv ==
    ASSUME TabInv, NEW r \in Requests, NEW u \in Users, TabSignIn(r, u)
    PROVE  TabInv'
<1>1. SessionInv'
  BY SignInInv DEF TabInv, TabSignIn
<1>2. /\ pc[r] = "idle" /\ pc' = [pc EXCEPT ![r] = "create_family"] /\ sent' = [sent EXCEPT ![r] = now]
      /\ UNCHANGED <<jar, now, famUser, famState, tokFam, tokParent, tokUsed, tokExpires, inactive,
                     banned, deleted, rTok>>
  BY DEF TabSignIn, SignIn, Goto, famVars, tokVars, userVars
<1>3. TabTypeOK' /\ InTime' /\ HeldOK' /\ RecentOK' /\ RaceNeverSignsOut'
  BY <1>2, LatencyAssumption DEF TabInv, TabTypeOK, InTime, HeldOK, RecentOK, RaceNeverSignsOut, SessionInv, TypeOK
<1>4. JarOK'
  BY <1>2 DEF TabInv, JarOK, Spender, SessionInv, TypeOK
<1> QED  BY <1>1, <1>3, <1>4 DEF TabInv

\* A tab presents the jar's token: if it is spent, the tab that spent it has
\* not had its answer, so it was spent less than Latency ago.
LEMMA TabRefreshInv ==
    ASSUME TabInv, NEW r \in Requests, TabRefresh(r)
    PROVE  TabInv'
<1>1. jar \in Tokens
  BY DEF TabInv, TabTypeOK, TabRefresh
<1>2. SessionInv'
  BY <1>1, SendRefreshInv DEF TabInv, TabRefresh
<1>3. /\ pc[r] = "idle" /\ pc' = [pc EXCEPT ![r] = "refresh_lookup"] /\ sent' = [sent EXCEPT ![r] = now]
      /\ rTok' = [rTok EXCEPT ![r] = jar]
      /\ UNCHANGED <<jar, now, famUser, famState, tokFam, tokParent, tokUsed, tokExpires, inactive,
                     banned, deleted>>
  BY DEF TabRefresh, SendRefresh, Goto, famVars, tokVars, userVars
<1>4. TabTypeOK' /\ InTime' /\ HeldOK' /\ RaceNeverSignsOut'
  BY <1>1, <1>3, LatencyAssumption, SessionAssumption
  DEF TabInv, TabTypeOK, InTime, HeldOK, RaceNeverSignsOut, SessionInv, TypeOK
<1>5. JarOK'
  BY <1>3 DEF TabInv, JarOK, Spender, SessionInv, TypeOK
<1>6. tokUsed[jar] # NotYet => now <= tokUsed[jar] + Latency
  <2> SUFFICES ASSUME tokUsed[jar] # NotYet PROVE now <= tokUsed[jar] + Latency
    OBVIOUS
  <2> PICK q \in Requests : Spender(q)
    BY <1>1, SessionAssumption DEF TabInv, JarOK
  <2> QED
    BY <1>1, LatencyAssumption DEF TabInv, Spender, InTime, TabTypeOK, SessionInv, TypeOK
<1>7. RecentOK'
  BY <1>1, <1>3, <1>6 DEF TabInv, RecentOK, TabTypeOK, SessionInv, TypeOK
<1> QED  BY <1>2, <1>4, <1>5, <1>7 DEF TabInv

\* A spent token is found within the grace window: superseded, not reuse.
LEMMA TabLookupInv ==
    ASSUME TabInv, NEW r \in Requests, RefreshLookup(r), UNCHANGED <<jar, sent>>
    PROVE  TabInv'
<1>1. SessionInv'
  BY RefreshLookupInv DEF TabInv
<1>2. /\ pc[r] = "refresh_lookup" /\ pc' = [pc EXCEPT ![r] = RefreshVerdict(rTok[r])]
      /\ UNCHANGED <<jar, sent, now, famUser, famState, tokFam, tokParent, tokUsed, tokExpires, inactive,
                     banned, deleted, rTok>>
  BY DEF RefreshLookup, Goto, famVars, tokVars, userVars, reqVars
<1>3. rTok[r] \in Tokens /\ tokFam[rTok[r]] \in Families /\ famState[tokFam[rTok[r]]] = "live"
  BY <1>2, SessionAssumption
  DEF TabInv, HeldOK, RaceNeverSignsOut, SessionInv, HandlersOK, TypeOK
<1>4. tokUsed[rTok[r]] # NotYet => WithinGrace(rTok[r])
  BY <1>2, <1>3, LatencyAssumption, SessionAssumption
  DEF TabInv, InTime, RecentOK, TabTypeOK, WithinGrace, SessionInv, TypeOK
<1>5. /\ RefreshVerdict(rTok[r]) \in {"superseded", "cleared", "refresh_touch"}
      /\ RefreshVerdict(rTok[r]) = "cleared" => tokExpires[rTok[r]] <= now
  BY <1>3, <1>4, SessionAssumption DEF RefreshVerdict
<1>6. TabTypeOK' /\ InTime' /\ HeldOK' /\ RecentOK' /\ RaceNeverSignsOut'
  BY <1>2, <1>3, <1>5, SessionAssumption DEF TabInv, TabTypeOK, InTime, HeldOK, RecentOK, RaceNeverSignsOut, SessionInv, TypeOK
<1>7. JarOK'
  BY <1>2 DEF TabInv, JarOK, Spender, SessionInv, TypeOK
<1> QED  BY <1>1, <1>6, <1>7 DEF TabInv

\* No account is blocked.
LEMMA TabTouchInv ==
    ASSUME TabInv, NEW r \in Requests, RefreshTouch(r), UNCHANGED <<jar, sent>>
    PROVE  TabInv'
<1>1. SessionInv'
  BY RefreshTouchInv DEF TabInv
<1>2. /\ pc[r] = "refresh_touch" /\ pc' = [pc EXCEPT ![r] = "refresh_mark"]
      /\ UNCHANGED <<jar, sent, now, famUser, famState, tokFam, tokParent, tokUsed, tokExpires, inactive,
                     banned, deleted, rTok>>
  BY DEF TabInv, TabTypeOK, may_authenticate, RefreshTouch, Goto, famVars, tokVars, userVars, reqVars
<1>3. TabTypeOK' /\ InTime' /\ HeldOK' /\ RecentOK' /\ RaceNeverSignsOut'
  BY <1>2 DEF TabInv, TabTypeOK, InTime, HeldOK, RecentOK, RaceNeverSignsOut, SessionInv, TypeOK
<1>4. JarOK'
  BY <1>2 DEF TabInv, JarOK, Spender, SessionInv, TypeOK
<1> QED  BY <1>1, <1>3, <1>4 DEF TabInv

\* Whoever spends a token spends it after it sent its request, and not the
\* token another answer carries.
LEMMA TabMarkInv ==
    ASSUME TabInv, NEW r \in Requests, RefreshMarkUsed(r), UNCHANGED <<jar, sent>>
    PROVE  TabInv'
<1>1. SessionInv'
  BY RefreshMarkUsedInv DEF TabInv
<1>2. /\ pc[r] = "refresh_mark" /\ rTok[r] \in Tokens
      /\ UNCHANGED <<jar, sent, now, famUser, famState, tokFam, tokParent, tokExpires, inactive,
                     banned, deleted, rTok>>
  BY DEF TabInv, SessionInv, HandlersOK, RefreshSteps, RefreshMarkUsed, Goto, famVars, userVars, reqVars
<1>3. CASE tokUsed[rTok[r]] = NotYet
  <2>1. tokUsed' = [tokUsed EXCEPT ![rTok[r]] = now] /\ pc' = [pc EXCEPT ![r] = "refresh_insert"]
    BY <1>3 DEF RefreshMarkUsed, mark_used_wins, Goto
  <2>2. TabTypeOK' /\ InTime' /\ RaceNeverSignsOut'
    BY <1>2, <2>1 DEF TabInv, TabTypeOK, InTime, RaceNeverSignsOut, SessionInv, TypeOK
  <2>3. HeldOK'
    BY <1>2, <2>1 DEF TabInv, HeldOK, SessionInv, TypeOK
  <2>4. RecentOK'
    BY <1>2, <2>1, LatencyAssumption DEF TabInv, RecentOK, InTime, TabTypeOK, SessionInv, TypeOK
  <2>5. JarOK'
    <3>1. CASE jar = rTok[r]
      <4>1. Spender(r)'
        BY <1>2, <2>1, <3>1 DEF TabInv, Spender, InTime, SessionInv, TypeOK
      <4> QED  BY <4>1 DEF JarOK
    <3>2. CASE jar # rTok[r]
      BY <1>2, <2>1, <3>2 DEF TabInv, JarOK, Spender, SessionInv, TypeOK
    <3> QED  BY <3>1, <3>2
  <2> QED  BY <1>1, <2>2, <2>3, <2>4, <2>5 DEF TabInv
<1>4. CASE tokUsed[rTok[r]] # NotYet
  <2>1. tokUsed' = tokUsed /\ pc' = [pc EXCEPT ![r] = "superseded"]
    BY <1>4 DEF RefreshMarkUsed, mark_used_wins, Goto
  <2>2. TabTypeOK' /\ InTime' /\ RaceNeverSignsOut' /\ HeldOK' /\ RecentOK'
    BY <1>2, <2>1 DEF TabInv, TabTypeOK, InTime, RaceNeverSignsOut, HeldOK, RecentOK, SessionInv, TypeOK
  <2>3. JarOK'
    BY <1>2, <2>1 DEF TabInv, JarOK, Spender, SessionInv, TypeOK
  <2> QED  BY <1>1, <2>2, <2>3 DEF TabInv
<1> QED  BY <1>3, <1>4

\* A token just inserted is known to its own handler only.
LEMMA TabInserted ==
    ASSUME TabInv, SessionInv', NEW r \in Requests, NEW n \in Tokens, NEW f, NEW parent, tokFam[n] = NoFamily,
           insert_token(n, f, parent), f \in Families, pc[r] # "ok",
           rTok' = [rTok EXCEPT ![r] = n], pc' = [pc EXCEPT ![r] = "ok"], pc[r] # "idle",
           \A q \in Requests : Spender(q) /\ q = r => parent = jar,
           UNCHANGED <<jar, sent, now, famState, inactive, banned, deleted>>
    PROVE  TabInv'
<1>1. /\ tokFam' = [tokFam EXCEPT ![n] = f] /\ tokParent' = [tokParent EXCEPT ![n] = parent]
      /\ tokExpires' = [tokExpires EXCEPT ![n] = now + TTL] /\ tokUsed' = tokUsed /\ f # NoFamily
      /\ tokUsed[n] = NotYet /\ n # NoToken /\ n # jar /\ \A q \in Requests : rTok[q] # n
  BY SessionAssumption DEF insert_token, TabInv, SessionInv, RowsOK, HeldOK
<1>2. TabTypeOK' /\ InTime'
  BY <1>1 DEF TabInv, TabTypeOK, InTime, SessionInv, TypeOK
<1>3. HeldOK'
  BY <1>1, SessionAssumption DEF TabInv, HeldOK, TabTypeOK, SessionInv, TypeOK
<1>4. RecentOK'
  BY <1>1 DEF TabInv, RecentOK, SessionInv, TypeOK
<1>5. RaceNeverSignsOut'
  BY <1>1, SessionAssumption DEF TabInv, RaceNeverSignsOut, SessionInv, TypeOK
<1>6. JarOK'
  BY <1>1 DEF TabInv, JarOK, Spender, TabTypeOK, SessionInv, TypeOK
<1> QED  BY <1>2, <1>3, <1>4, <1>5, <1>6 DEF TabInv

\* The winner's successor: its handler has spent the jar's token, and now
\* brings the token whose parent it is.
LEMMA TabInsertInv ==
    ASSUME TabInv, NEW r \in Requests, RefreshInsert(r), UNCHANGED <<jar, sent>>
    PROVE  TabInv'
<1>1. SessionInv'
  BY RefreshInsertInv DEF TabInv
<1>2. PICK n \in Tokens : insert_token(n, FamilyOf(r), rTok[r]) /\ rTok' = [rTok EXCEPT ![r] = n]
  BY DEF RefreshInsert
<1>3. pc[r] = "refresh_insert" /\ pc' = [pc EXCEPT ![r] = "ok"] /\ tokFam[n] = NoFamily
  BY <1>2 DEF RefreshInsert, Goto, insert_token
<1>4. FamilyOf(r) \in Families
  BY <1>3 DEF TabInv, SessionInv, HandlersOK, RefreshSteps, TypeOK, FamilyOf
<1>5. Spender(r) => rTok[r] = jar
  BY <1>3 DEF Spender
<1>6. UNCHANGED <<jar, sent, now, famState, inactive, banned, deleted>>
  BY DEF RefreshInsert, famVars, userVars
<1> QED  BY <1>1, <1>2, <1>3, <1>4, <1>5, <1>6, TabInserted

\* The first token of a session.
LEMMA TabFirstTokenInv ==
    ASSUME TabInv, NEW r \in Requests, InsertFirstToken(r), UNCHANGED <<jar, sent>>
    PROVE  TabInv'
<1>1. SessionInv'
  BY InsertFirstTokenInv DEF TabInv
<1>2. PICK n \in Tokens : insert_token(n, rFam[r], NoToken) /\ rTok' = [rTok EXCEPT ![r] = n]
  BY DEF InsertFirstToken
<1>3. pc[r] = "first_token" /\ pc' = [pc EXCEPT ![r] = "ok"] /\ tokFam[n] = NoFamily
  BY <1>2 DEF InsertFirstToken, Goto, insert_token
<1>4. rFam[r] \in Families
  BY <1>3 DEF TabInv, SessionInv, HandlersOK
<1>5. ~Spender(r)
  BY <1>3 DEF Spender
<1>6. UNCHANGED <<jar, sent, now, famState, inactive, banned, deleted>>
  BY DEF InsertFirstToken, famVars, userVars
<1> QED  BY <1>1, <1>2, <1>3, <1>4, <1>5, <1>6, TabInserted

LEMMA TabCreateFamilyInv ==
    ASSUME TabInv, NEW r \in Requests, CreateFamily(r), UNCHANGED <<jar, sent>>
    PROVE  TabInv'
<1>1. SessionInv'
  BY CreateFamilyInv DEF TabInv
<1>2. /\ pc[r] = "create_family" /\ pc' = [pc EXCEPT ![r] = "first_token"]
      /\ UNCHANGED <<jar, sent, now, famState, tokFam, tokParent, tokUsed, tokExpires, inactive,
                     banned, deleted, rTok>>
  BY DEF CreateFamily, Goto, tokVars, userVars
<1>3. TabTypeOK' /\ InTime' /\ HeldOK' /\ RecentOK' /\ RaceNeverSignsOut'
  BY <1>2 DEF TabInv, TabTypeOK, InTime, HeldOK, RecentOK, RaceNeverSignsOut, SessionInv, TypeOK
<1>4. JarOK'
  BY <1>2 DEF TabInv, JarOK, Spender, SessionInv, TypeOK
<1> QED  BY <1>1, <1>3, <1>4 DEF TabInv

\* An answer puts an unspent token into the jar, empties it, or belongs to a
\* tab that has spent nothing.
LEMMA TabReceiveInv ==
    ASSUME TabInv, NEW r \in Requests, TabReceive(r)
    PROVE  TabInv'
<1>1. SessionInv'
  BY DeliverInv DEF TabInv, TabReceive
<1>2. /\ pc[r] \in Answers /\ pc' = [pc EXCEPT ![r] = "idle"] /\ rTok' = [rTok EXCEPT ![r] = NoToken]
      /\ sent' = [sent EXCEPT ![r] = 0]
      /\ UNCHANGED <<now, famUser, famState, tokFam, tokParent, tokUsed, tokExpires, inactive,
                     banned, deleted>>
  BY DEF TabReceive, Deliver, Goto, famVars, tokVars, userVars
<1>3. \/ pc[r] = "ok" /\ jar' = rTok[r]
      \/ pc[r] = "cleared" /\ jar' = NoToken
      \/ pc[r] \in {"superseded", "refused"} /\ jar' = jar
  BY <1>2 DEF TabReceive, CookieAfter, Answers
<1>4. TabTypeOK' /\ InTime' /\ RaceNeverSignsOut'
  BY <1>2, <1>3 DEF TabInv, TabTypeOK, InTime, RaceNeverSignsOut, SessionInv, TypeOK
<1>5. HeldOK'
  BY <1>2, <1>3, SessionAssumption DEF TabInv, HeldOK, SessionInv, TypeOK
<1>6. RecentOK'
  BY <1>2 DEF TabInv, RecentOK, TabTypeOK, SessionInv, TypeOK
<1>7. JarOK'
  <2>1. CASE pc[r] = "ok"
    BY <1>2, <1>3, <2>1 DEF TabInv, HeldOK, JarOK
  <2>2. CASE pc[r] = "cleared"
    BY <1>3, <2>2 DEF JarOK
  <2>3. CASE pc[r] \in {"superseded", "refused"}
    BY <1>2, <1>3, <2>3 DEF TabInv, JarOK, Spender, TabTypeOK, SessionInv, TypeOK
  <2> QED  BY <1>3, <2>1, <2>2, <2>3
<1> QED  BY <1>1, <1>4, <1>5, <1>6, <1>7 DEF TabInv

\* The clock waits for every answer that is due.
LEMMA TabTickInv ==
    ASSUME TabInv, TabTick
    PROVE  TabInv'
<1>1. SessionInv'
  BY TickInv DEF TabInv, TabTick
<1>2. /\ now' = now + 1 /\ \A r \in Requests : pc[r] # "idle" => now < sent[r] + Latency
      /\ UNCHANGED <<jar, sent, pc, famState, tokFam, tokParent, tokUsed, tokExpires, inactive,
                     banned, deleted, rTok>>
  BY DEF TabTick, Tick, InFlight, famVars, tokVars, userVars, reqVars
<1>3. TabTypeOK' /\ HeldOK' /\ RecentOK'
  BY <1>2 DEF TabInv, TabTypeOK, HeldOK, RecentOK
<1>4. InTime'
  BY <1>2, LatencyAssumption DEF TabInv, InTime, TabTypeOK, SessionInv, TypeOK
<1>5. \A r \in Requests : pc[r] = "cleared" => rTok[r] \in Tokens
  BY DEF TabInv, HeldOK, SessionInv, TypeOK
<1>6. RaceNeverSignsOut'
  BY <1>2, <1>5 DEF TabInv, RaceNeverSignsOut, SessionInv, TypeOK
<1>7. JarOK'
  BY <1>2 DEF TabInv, JarOK, Spender
<1> QED  BY <1>1, <1>3, <1>4, <1>6, <1>7 DEF TabInv

LEMMA TabNextInv == TabInv /\ [TabNext]_tabVars => TabInv'
<1> SUFFICES ASSUME TabInv, [TabNext]_tabVars PROVE TabInv'
  OBVIOUS
<1>1. ASSUME NEW r \in Requests, ServerStep(r) PROVE TabInv'
  <2>1. ~RefreshReuseDetected(r) /\ ~RefreshBlocked(r)
    BY DEF TabInv, TabTypeOK, RefreshReuseDetected, RefreshBlocked
  <2>2. UNCHANGED <<jar, sent>>
    BY <1>1 DEF ServerStep
  <2> QED
    BY <1>1, <2>1, <2>2, TabLookupInv, TabTouchInv, TabMarkInv, TabInsertInv, TabCreateFamilyInv, TabFirstTokenInv
    DEF ServerStep, RefreshStep, SignInStep
<1>2. CASE UNCHANGED tabVars
  <2>1. UNCHANGED vars /\ jar' = jar /\ sent' = sent
    BY <1>2 DEF tabVars
  <2>2. SessionInv'
    BY <2>1, NextInv DEF TabInv
  <2>3. UNCHANGED <<now, famState, tokFam, tokParent, tokUsed, tokExpires, inactive, banned, deleted, pc, rTok>>
    BY <2>1 DEF vars, famVars, tokVars, userVars, reqVars
  <2> QED
    BY <2>1, <2>2, <2>3
    DEF TabInv, TabTypeOK, InTime, HeldOK, JarOK, Spender, RecentOK, RaceNeverSignsOut
<1> QED
  BY <1>1, <1>2, TabSignInInv, TabRefreshInv, TabReceiveInv, TabTickInv DEF TabNext

LEMMA TabInvariant == TabSpec => []TabInv
  BY TabInitInv, TabNextInv, PTL DEF TabSpec

\* What REFRESH_REUSE_GRACE_SECS is there for, whatever the grace window, the
\* number of tabs and the tokens they go through: as long as an exchange takes
\* at most half the window, tabs that race on one cookie never have the
\* session revoked, and their cookie is cleared for its age only.
THEOREM RacesNeverSignOut == TabSpec => []RaceNeverSignsOut
<1>1. TabInv => RaceNeverSignsOut
  BY DEF TabInv
<1> QED  BY <1>1, TabInvariant, PTL

\* However the answers to the tabs' refreshes are ordered, the cookie they
\* leave behind is one the server still rotates: the successor of the last
\* token spent is never overwritten by an older one.
THEOREM QuietJarsAreCurrent == TabSpec => []QuietJarIsCurrent
<1>1. TabInv => QuietJarIsCurrent
  BY DEF TabInv, JarOK, Spender, QuietJarIsCurrent, InFlight
<1> QED  BY <1>1, TabInvariant, PTL

=============================================================================
