--------------------------- MODULE RefreshSessions ---------------------------
(***************************************************************************)
(* Refresh-token sessions: one family per sign-in, one rotating token per  *)
(* family, reuse detection with a grace window, and the account gates that *)
(* must stop a blocked account from extending a session.                   *)
(*                                                                         *)
(* Source: crates/api/src/auth/handlers.rs, crates/db/src/sessions.rs,     *)
(* crates/db/src/users.rs and the admin and self-service handlers that     *)
(* close sessions.                                                         *)
(*                                                                         *)
(* A handler is a sequence of database statements, none of them inside a   *)
(* transaction.  One action is one statement together with the computation *)
(* up to the next await, so any two handlers interleave between            *)
(* statements.  Requests is the set of handler invocations that may be in  *)
(* flight at the same time.                                                *)
(***************************************************************************)
EXTENDS Integers, FiniteSets

CONSTANTS
    Users,          \* accounts
    Families,       \* ids a refresh_token_families row can take
    Tokens,         \* refresh tokens, a raw value and its hash are one id
    Requests,       \* concurrent handler invocations
    NoUser, NoFamily, NoToken,
    Grace,          \* REFRESH_REUSE_GRACE_SECS
    TTL,            \* REFRESH_TTL_SECS
    MaxTime,        \* bound on the clock, for TLC
    DbFails         \* whether a statement may fail (or the server die) midway

ASSUME SessionAssumption ==
    /\ NoUser \notin Users /\ NoFamily \notin Families /\ NoToken \notin Tokens
    /\ Grace \in Nat /\ TTL \in Nat \ {0} /\ MaxTime \in Nat
    /\ DbFails \in BOOLEAN

NotYet == -1        \* a NULL timestamp

Reasons == {"reuse_detected", "account_blocked", "logout",
            "account_banned", "account_erased", "signed_out"}

\* Where a handler is.  The last line lists the answers: "ok" carries a new
\* cookie, "cleared" removes the cookie, the other two leave it alone.
Steps == {"idle",
          "refresh_lookup", "refresh_revoke", "refresh_touch", "refresh_block",
          "refresh_mark", "refresh_insert",
          "logout_lookup", "logout_revoke",
          "create_family", "first_token", "revoke_all",
          "ok", "superseded", "cleared", "refused"}

Answers == {"ok", "superseded", "cleared", "refused"}

VARIABLES
    now,            \* wall clock
    famUser,        \* refresh_token_families.user_id, NoUser: no such row
    famState,       \* "live" while revoked_at IS NULL, then revoked_reason
    tokFam,         \* refresh_tokens.family_id, NoFamily: no such row
    tokParent,      \* refresh_tokens.parent_id
    tokUsed,        \* refresh_tokens.used_at
    tokExpires,     \* refresh_tokens.expires_at
    inactive, banned, deleted,   \* users.is_active = false, banned_at, deleted_at
    pc,             \* the next statement of each handler
    rTok,           \* the token a request carries, then the one it hands out
    rFam,           \* the family a sign-in has created
    rUser,          \* the account a sign-in or a revoke-all is about
    rWhy,           \* the reason a revoke-all records
    swept           \* history: banned accounts whose ban has closed every session

famVars == <<famUser, famState>>
tokVars == <<tokFam, tokParent, tokUsed, tokExpires>>
userVars == <<inactive, banned, deleted>>
reqVars == <<rTok, rFam, rUser, rWhy>>
vars == <<now, famVars, tokVars, userVars, pc, reqVars, swept>>

Init ==
    /\ now = 0
    /\ famUser = [f \in Families |-> NoUser]
    /\ famState = [f \in Families |-> "live"]
    /\ tokFam = [t \in Tokens |-> NoFamily]
    /\ tokParent = [t \in Tokens |-> NoToken]
    /\ tokUsed = [t \in Tokens |-> NotYet]
    /\ tokExpires = [t \in Tokens |-> NotYet]
    /\ inactive = {} /\ banned = {} /\ deleted = {}
    /\ pc = [r \in Requests |-> "idle"]
    /\ rTok = [r \in Requests |-> NoToken]
    /\ rFam = [r \in Requests |-> NoFamily]
    /\ rUser = [r \in Requests |-> NoUser]
    /\ rWhy = [r \in Requests |-> "logout"]
    /\ swept = {}

-----------------------------------------------------------------------------
(* Helpers: the SQL statements of crates/db/src/sessions.rs and users.rs.   *)

Goto(r, step) == pc' = [pc EXCEPT ![r] = step]

FamilyOf(r) == tokFam[rTok[r]]

\* Mutated forms: a revocation that forgets the revoked_at IS NULL guard, one
\* that loses its reason; a rotation that ignores used_at; an account gate
\* that forgets the ban.
revoke_family_unguarded(f, why) ==
    /\ famState' = [famState EXCEPT ![f] = why]
    /\ UNCHANGED famUser

revoke_family_unnamed(f, why) ==
    /\ famState' = [famState EXCEPT ![f] = IF @ = "live" THEN "revoked" ELSE @]
    /\ UNCHANGED famUser

mark_used_always(t) == TRUE

may_authenticate_banned(u) == u \notin deleted /\ u \notin inactive

\* revoke_family: UPDATE ... WHERE id = $1 AND revoked_at IS NULL.
revoke_family(f, why) ==
    /\ famState' = [famState EXCEPT ![f] = IF @ = "live" THEN why ELSE @]
    /\ UNCHANGED famUser

\* revoke_all_for_user: the same for every family of the account.
revoke_all_for_user(u, why) ==
    /\ famState' = [f \in Families |->
                        IF famUser[f] = u /\ famState[f] = "live" THEN why ELSE famState[f]]
    /\ UNCHANGED famUser

\* insert_token: a fresh hash, unused, expiring a TTL from now.
insert_token(n, f, parent) ==
    /\ tokFam[n] = NoFamily
    /\ tokFam' = [tokFam EXCEPT ![n] = f]
    /\ tokParent' = [tokParent EXCEPT ![n] = parent]
    /\ tokExpires' = [tokExpires EXCEPT ![n] = now + TTL]
    /\ UNCHANGED tokUsed

\* mark_used's WHERE clause: the row transitions only while used_at IS NULL.
mark_used_wins(t) == tokUsed[t] = NotYet

\* touch_last_seen followed by may_authenticate: no row when deleted.
may_authenticate(u) == u \notin deleted /\ u \notin inactive /\ u \notin banned

-----------------------------------------------------------------------------
(* POST /auth/refresh.                                                      *)

\* A client presents a refresh token, from its cookie or from the body.  Any
\* token may arrive at any time: replays, duplicates and late retries included.
SendRefresh(r, t) ==
    /\ pc[r] = "idle"
    /\ Goto(r, "refresh_lookup")
    /\ rTok' = [rTok EXCEPT ![r] = t]
    /\ UNCHANGED <<now, famVars, tokVars, userVars, rFam, rUser, rWhy, swept>>

\* Mutated form: no grace window.
WithinNoGrace(t) == FALSE

\* The spent token is recent enough to be a race between two holders of one
\* cookie rather than a replay.
WithinGrace(t) == now - tokUsed[t] <= Grace

\* The checks between find_by_hash and the next statement, in source order.
RefreshVerdict(t) ==
    IF tokFam[t] = NoFamily THEN "refused"
    ELSE IF famState[tokFam[t]] # "live" THEN "cleared"
    ELSE IF tokUsed[t] # NotYet
         THEN IF WithinGrace(t) THEN "superseded" ELSE "refresh_revoke"
    ELSE IF tokExpires[t] <= now THEN "cleared" ELSE "refresh_touch"

RefreshLookup(r) ==
    /\ pc[r] = "refresh_lookup"
    /\ Goto(r, RefreshVerdict(rTok[r]))
    /\ UNCHANGED <<now, famVars, tokVars, userVars, reqVars, swept>>

RefreshReuseDetected(r) ==
    /\ pc[r] = "refresh_revoke"
    /\ revoke_family(FamilyOf(r), "reuse_detected")
    /\ Goto(r, "cleared")
    /\ UNCHANGED <<now, tokVars, userVars, reqVars, swept>>

RefreshTouch(r) ==
    /\ pc[r] = "refresh_touch"
    /\ Goto(r, IF may_authenticate(famUser[FamilyOf(r)]) THEN "refresh_mark" ELSE "refresh_block")
    /\ UNCHANGED <<now, famVars, tokVars, userVars, reqVars, swept>>

RefreshBlocked(r) ==
    /\ pc[r] = "refresh_block"
    /\ revoke_family(FamilyOf(r), "account_blocked")
    /\ Goto(r, "cleared")
    /\ UNCHANGED <<now, tokVars, userVars, reqVars, swept>>

RefreshMarkUsed(r) ==
    /\ pc[r] = "refresh_mark"
    /\ \/ /\ mark_used_wins(rTok[r])
          /\ tokUsed' = [tokUsed EXCEPT ![rTok[r]] = now]
          /\ Goto(r, "refresh_insert")
       \/ /\ ~mark_used_wins(rTok[r])
          /\ UNCHANGED tokUsed
          /\ Goto(r, "superseded")
    /\ UNCHANGED <<now, famVars, tokFam, tokParent, tokExpires, userVars, reqVars, swept>>

\* The successor is stored and handed out together with a new access token.
RefreshInsert(r) ==
    /\ pc[r] = "refresh_insert"
    /\ \E n \in Tokens :
          /\ insert_token(n, FamilyOf(r), rTok[r])
          /\ rTok' = [rTok EXCEPT ![r] = n]
    /\ Goto(r, "ok")
    /\ UNCHANGED <<now, famVars, userVars, rFam, rUser, rWhy, swept>>

-----------------------------------------------------------------------------
(* POST /auth/logout.                                                       *)

SendLogout(r, t) ==
    /\ pc[r] = "idle"
    /\ Goto(r, "logout_lookup")
    /\ rTok' = [rTok EXCEPT ![r] = t]
    /\ UNCHANGED <<now, famVars, tokVars, userVars, rFam, rUser, rWhy, swept>>

\* find_by_hash; a spent, expired or revoked token still names its family.
LogoutLookup(r) ==
    /\ pc[r] = "logout_lookup"
    /\ Goto(r, IF FamilyOf(r) = NoFamily THEN "cleared" ELSE "logout_revoke")
    /\ UNCHANGED <<now, famVars, tokVars, userVars, reqVars, swept>>

LogoutRevoke(r) ==
    /\ pc[r] = "logout_revoke"
    /\ revoke_family(FamilyOf(r), "logout")
    /\ Goto(r, "cleared")
    /\ UNCHANGED <<now, tokVars, userVars, reqVars, swept>>

-----------------------------------------------------------------------------
(* establish_session, the end of every sign-in.  Which accounts get here is *)
(* decided by the sign-in routes: the second-factor and passkey routes do   *)
(* not look at the account again, so here any account may.                  *)

SignIn(r, u) ==
    /\ pc[r] = "idle"
    /\ Goto(r, "create_family")
    /\ rUser' = [rUser EXCEPT ![r] = u]
    /\ UNCHANGED <<now, famVars, tokVars, userVars, rTok, rFam, rWhy, swept>>

CreateFamily(r) ==
    /\ pc[r] = "create_family"
    /\ \E f \in Families :
          /\ famUser[f] = NoUser
          /\ famUser' = [famUser EXCEPT ![f] = rUser[r]]
          /\ rFam' = [rFam EXCEPT ![r] = f]
    /\ Goto(r, "first_token")
    /\ UNCHANGED <<now, famState, tokVars, userVars, rTok, rUser, rWhy, swept>>

InsertFirstToken(r) ==
    /\ pc[r] = "first_token"
    /\ \E n \in Tokens :
          /\ insert_token(n, rFam[r], NoToken)
          /\ rTok' = [rTok EXCEPT ![r] = n]
    /\ Goto(r, "ok")
    /\ UNCHANGED <<now, famVars, userVars, rFam, rUser, rWhy, swept>>

-----------------------------------------------------------------------------
(* Handlers that block an account or close its sessions.                    *)

\* ban_user: set_banned, then (a separate statement) revoke every session.
BanUser(r, u) ==
    /\ pc[r] = "idle" /\ u \notin deleted
    /\ banned' = banned \cup {u}
    /\ Goto(r, "revoke_all")
    /\ rUser' = [rUser EXCEPT ![r] = u]
    /\ rWhy' = [rWhy EXCEPT ![r] = "account_banned"]
    /\ UNCHANGED <<now, famVars, tokVars, inactive, deleted, rTok, rFam, swept>>

\* delete_me: soft_delete, then revoke every session.
EraseUser(r, u) ==
    /\ pc[r] = "idle" /\ u \notin deleted
    /\ deleted' = deleted \cup {u}
    /\ inactive' = inactive \cup {u}
    /\ Goto(r, "revoke_all")
    /\ rUser' = [rUser EXCEPT ![r] = u]
    /\ rWhy' = [rWhy EXCEPT ![r] = "account_erased"]
    /\ UNCHANGED <<now, famVars, tokVars, banned, rTok, rFam, swept>>

\* Password reset and change, admin 2FA reset, admin "sign out everywhere".
SignOutEverywhere(r, u) ==
    /\ pc[r] = "idle"
    /\ Goto(r, "revoke_all")
    /\ rUser' = [rUser EXCEPT ![r] = u]
    /\ rWhy' = [rWhy EXCEPT ![r] = "signed_out"]
    /\ UNCHANGED <<now, famVars, tokVars, userVars, rTok, rFam, swept>>

RevokeAll(r) ==
    /\ pc[r] = "revoke_all"
    /\ revoke_all_for_user(rUser[r], rWhy[r])
    /\ Goto(r, "refused")
    /\ swept' = IF rUser[r] \in banned THEN swept \cup {rUser[r]} ELSE swept
    /\ UNCHANGED <<now, tokVars, userVars, reqVars>>

\* unban_user, update_user's is_active and delete_user close no session.
UnbanUser(u) ==
    /\ u \in banned \ deleted
    /\ banned' = banned \ {u}
    /\ swept' = swept \ {u}
    /\ UNCHANGED <<now, famVars, tokVars, inactive, deleted, pc, reqVars>>

SetActive(u) ==
    /\ u \notin deleted
    /\ \/ inactive' = inactive \cup {u}
       \/ inactive' = inactive \ {u}
    /\ UNCHANGED <<now, famVars, tokVars, banned, deleted, pc, reqVars, swept>>

AdminDeleteUser(u) ==
    /\ u \notin deleted
    /\ deleted' = deleted \cup {u}
    /\ inactive' = inactive \cup {u}
    /\ UNCHANGED <<now, famVars, tokVars, banned, pc, reqVars, swept>>

-----------------------------------------------------------------------------

\* The response reaches the client, or is lost; the handler's locals are gone.
Deliver(r) ==
    /\ pc[r] \in Answers
    /\ Goto(r, "idle")
    /\ rTok' = [rTok EXCEPT ![r] = NoToken]
    /\ rFam' = [rFam EXCEPT ![r] = NoFamily]
    /\ rUser' = [rUser EXCEPT ![r] = NoUser]
    /\ rWhy' = [rWhy EXCEPT ![r] = "logout"]
    /\ UNCHANGED <<now, famVars, tokVars, userVars, swept>>

\* revoke_family swallows its error and logout ignores a failed lookup: the
\* handler answers as if the statement had run.
BestEffort == {"refresh_revoke", "refresh_block", "logout_lookup", "logout_revoke"}

\* The pool has no connection, a statement errors or the process dies: the
\* handler ends where it is and what it wrote so far stays written.
DbError(r) ==
    /\ DbFails
    /\ pc[r] \notin Answers \cup {"idle"}
    /\ \/ Goto(r, "refused")
       \/ pc[r] \in BestEffort /\ Goto(r, "cleared")
    /\ UNCHANGED <<now, famVars, tokVars, userVars, reqVars, swept>>

Tick ==
    /\ now < MaxTime
    /\ now' = now + 1
    /\ UNCHANGED <<famVars, tokVars, userVars, pc, reqVars, swept>>

RefreshStep(r) ==
    \/ RefreshLookup(r)
    \/ RefreshReuseDetected(r)
    \/ RefreshTouch(r)
    \/ RefreshBlocked(r)
    \/ RefreshMarkUsed(r)
    \/ RefreshInsert(r)

LogoutStep(r) == LogoutLookup(r) \/ LogoutRevoke(r)

SignInStep(r) == CreateFamily(r) \/ InsertFirstToken(r)

Arrive(r) ==
    \/ \E t \in Tokens : SendRefresh(r, t) \/ SendLogout(r, t)
    \/ \E u \in Users : \/ SignIn(r, u)
                        \/ BanUser(r, u)
                        \/ EraseUser(r, u)
                        \/ SignOutEverywhere(r, u)

AccountStep(u) == UnbanUser(u) \/ SetActive(u) \/ AdminDeleteUser(u)

Next ==
    \/ \E r \in Requests :
          \/ Arrive(r)
          \/ RefreshStep(r)
          \/ LogoutStep(r)
          \/ SignInStep(r)
          \/ RevokeAll(r)
          \/ Deliver(r)
          \/ DbError(r)
    \/ \E u \in Users : AccountStep(u)
    \/ Tick

Spec == Init /\ [][Next]_vars

-----------------------------------------------------------------------------
(* Properties.                                                              *)

\* Every row and every handler local is of its column's type.
TypeOK ==
    /\ now \in Nat
    /\ famUser \in [Families -> Users \cup {NoUser}]
    /\ famState \in [Families -> Reasons \cup {"live"}]
    /\ tokFam \in [Tokens -> Families \cup {NoFamily}]
    /\ tokParent \in [Tokens -> Tokens \cup {NoToken}]
    /\ tokUsed \in [Tokens -> Int]
    /\ tokExpires \in [Tokens -> Int]
    /\ inactive \subseteq Users /\ banned \subseteq Users /\ deleted \subseteq Users
    /\ pc \in [Requests -> Steps]
    /\ rTok \in [Requests -> Tokens \cup {NoToken}]
    /\ rFam \in [Requests -> Families \cup {NoFamily}]
    /\ rUser \in [Requests -> Users \cup {NoUser}]
    /\ rWhy \in [Requests -> Reasons \ {"reuse_detected"}]
    /\ swept \subseteq Users

Unused(t) == tokFam[t] # NoFamily /\ tokUsed[t] = NotYet

\* A family never holds two tokens that could both be rotated.
OneUnusedToken ==
    \A t1, t2 \in Tokens :
        Unused(t1) /\ Unused(t2) /\ tokFam[t1] = tokFam[t2] => t1 = t2

\* A token has at most one successor, and it is spent before the successor
\* exists, in the same family.
OneSuccessor ==
    /\ \A t1, t2 \in Tokens :
           tokParent[t1] # NoToken /\ tokParent[t1] = tokParent[t2] => t1 = t2
    /\ \A t \in Tokens :
           tokParent[t] # NoToken =>
               /\ tokFam[tokParent[t]] = tokFam[t]
               /\ tokUsed[tokParent[t]] # NotYet

\* Rotation is linear: however many requests present one refresh token at the
\* same time (POST /auth/refresh, handlers.rs refresh), the session never
\* forks into two chains that stay usable side by side.
RotationIsLinear == OneUnusedToken /\ OneSuccessor

\* Once a ban has closed the account's sessions, no session of the account is
\* extended: a live family can only be one a sign-in already past its account
\* check has just opened, and its first token is never rotated (ban_user,
\* and the account gate of refresh).
BanHolds ==
    \A f \in Families, t \in Tokens :
        famUser[f] \in swept /\ famState[f] = "live" /\ tokFam[t] = f
            => tokUsed[t] = NotYet /\ tokParent[t] = NoToken

\* A revocation and the reason recorded for it are never rewritten, whichever
\* handlers race to revoke the family (revoke_family, revoke_all_for_user).
RevocationIsFinal ==
    [][\A f \in Families : famState[f] # "live" => famState'[f] = famState[f]]_vars

\* A family is only condemned for reuse when one of its tokens really was
\* spent longer than the grace window ago: two tabs racing on one cookie never
\* sign the user out (refresh, REFRESH_REUSE_GRACE_SECS).
ReuseIsLate ==
    [][\A f \in Families :
          famState[f] = "live" /\ famState'[f] = "reuse_detected" =>
              \E t \in Tokens : /\ tokFam[t] = f /\ tokUsed[t] # NotYet
                                /\ now - tokUsed[t] > Grace]_vars

-----------------------------------------------------------------------------
(* The inductive invariant behind RotationIsLinear, BanHolds, ReuseIsLate.  *)

RefreshSteps == {"refresh_revoke", "refresh_touch", "refresh_block",
                 "refresh_mark", "refresh_insert", "logout_revoke"}

\* Foreign keys: a token belongs to a family that exists, a row that does not
\* exist has no contents and no successor.
RowsOK ==
    /\ \A t \in Tokens : tokFam[t] = NoFamily =>
           tokUsed[t] = NotYet /\ tokParent[t] = NoToken
    /\ \A t \in Tokens : tokParent[t] # NoToken => tokFam[tokParent[t]] # NoFamily
    /\ \A t \in Tokens : tokFam[t] # NoFamily => famUser[tokFam[t]] # NoUser
    /\ \A f \in Families : famUser[f] = NoUser => famState[f] = "live"

\* What a handler has looked up stays in the database.
HandlersOK ==
    \A r \in Requests :
        /\ pc[r] \in {"refresh_lookup", "logout_lookup"} => rTok[r] \in Tokens
        /\ pc[r] \in RefreshSteps => rTok[r] \in Tokens /\ tokFam[rTok[r]] # NoFamily
        /\ pc[r] \in {"create_family", "revoke_all"} => rUser[r] \in Users
        /\ pc[r] = "first_token" => rFam[r] \in Families /\ famUser[rFam[r]] # NoUser

\* A handler about to insert a token owns its family's turn: no token of the
\* family can be rotated, no other handler is about to insert one.
InsertersOK ==
    /\ \A r \in Requests : pc[r] = "refresh_insert" =>
           /\ tokUsed[rTok[r]] # NotYet
           /\ \A t \in Tokens : tokParent[t] # rTok[r]
           /\ \A t \in Tokens : tokFam[t] = FamilyOf(r) => tokUsed[t] # NotYet
    /\ \A r \in Requests : pc[r] = "first_token" => \A t \in Tokens : tokFam[t] # rFam[r]
    /\ \A r1, r2 \in Requests : r1 # r2 =>
           /\ pc[r1] = "refresh_insert" /\ pc[r2] = "refresh_insert" => FamilyOf(r1) # FamilyOf(r2)
           /\ pc[r1] = "first_token" /\ pc[r2] = "first_token" => rFam[r1] # rFam[r2]

\* A refresh past the account gate when the ban swept works on a family the
\* sweep has revoked.
SweptOK ==
    /\ swept \subseteq banned
    /\ \A r \in Requests :
           pc[r] \in {"refresh_mark", "refresh_insert"} /\ famUser[FamilyOf(r)] \in swept
               => famState[FamilyOf(r)] # "live"

\* The verdict "reuse" stays true while the handler carries it out.
LateOK ==
    \A r \in Requests : pc[r] = "refresh_revoke" =>
        tokUsed[rTok[r]] # NotYet /\ now - tokUsed[rTok[r]] > Grace

SessionInv ==
    /\ TypeOK /\ RowsOK /\ HandlersOK /\ InsertersOK
    /\ RotationIsLinear /\ SweptOK /\ BanHolds /\ LateOK

=============================================================================
