---------------------------- MODULE BrowserTabs ----------------------------
(***************************************************************************)
(* The tabs of one browser share one cookie jar and each refreshes on its  *)
(* own timer.  This module composes such a browser with sign-in and POST   *)
(* /auth/refresh (RefreshSessions) to check what REFRESH_REUSE_GRACE_SECS  *)
(* is there for: tabs that race never sign the user out, and a tab that    *)
(* lost the race finds a usable cookie.                                    *)
(*                                                                         *)
(* The browser is not part of the repository.  It is modelled from what    *)
(* the handlers do to it: Set-Cookie replaces the jar's token, a clearing  *)
(* answer empties it, refresh_superseded leaves it alone.  An exchange     *)
(* takes at most Latency and no answer is lost.                            *)
(***************************************************************************)
EXTENDS RefreshSessions

CONSTANT Latency    \* longest time from sending a request to its answer

\* A tab may send a spent cookie up to Latency after it was spent, and that
\* request may take up to Latency to be looked up.
ASSUME LatencyAssumption == Latency \in Nat /\ 2 * Latency <= Grace

VARIABLES
    jar,            \* the refresh_token cookie, NoToken: none
    sent            \* when each tab sent the request it is waiting for

tabVars == <<vars, jar, sent>>

TabInit == Init /\ jar = NoToken /\ sent = [r \in Requests |-> 0]

\* Bounds: a request is only sent while ids are left for every request in flight.
InFlight == {r \in Requests : pc[r] # "idle"}
TokensLeft == Cardinality({t \in Tokens : tokFam[t] = NoFamily}) > Cardinality(InFlight)
FamiliesLeft == Cardinality({f \in Families : famUser[f] = NoUser}) > Cardinality(InFlight)

TabSignIn(r, u) ==
    /\ jar = NoToken /\ TokensLeft /\ FamiliesLeft
    /\ SignIn(r, u)
    /\ sent' = [sent EXCEPT ![r] = now]
    /\ UNCHANGED jar

TabRefresh(r) ==
    /\ jar # NoToken /\ TokensLeft
    /\ SendRefresh(r, jar)
    /\ sent' = [sent EXCEPT ![r] = now]
    /\ UNCHANGED jar

\* One statement of the tab's handler.
ServerStep(r) == (RefreshStep(r) \/ SignInStep(r)) /\ UNCHANGED <<jar, sent>>

\* Mutated form: a rotated token is not set over the one the jar already holds.
CookieKept(r) == IF pc[r] = "ok" /\ jar = NoToken THEN rTok[r] ELSE jar

\* set_refresh_cookie, clear_refresh_cookie, or no Set-Cookie at all.
CookieAfter(r) ==
    IF pc[r] = "ok" THEN rTok[r] ELSE IF pc[r] = "cleared" THEN NoToken ELSE jar

TabReceive(r) ==
    /\ jar' = CookieAfter(r)
    /\ Deliver(r)
    /\ sent' = [sent EXCEPT ![r] = 0]

\* Time passes, but no request outlives Latency.
TabTick ==
    /\ \A r \in InFlight : now < sent[r] + Latency
    /\ Tick
    /\ UNCHANGED <<jar, sent>>

TabNext ==
    \/ \E r \in Requests :
          \/ \E u \in Users : TabSignIn(r, u)
          \/ TabRefresh(r)
          \/ ServerStep(r)
          \/ TabReceive(r)
    \/ TabTick

\* The runtime keeps polling a handler's future, and answers arrive.
TabFairness == \A r \in Requests : WF_tabVars(ServerStep(r)) /\ WF_tabVars(TabReceive(r))

TabSpec == TabInit /\ [][TabNext]_tabVars /\ TabFairness

-----------------------------------------------------------------------------

\* The comment on REFRESH_REUSE_GRACE_SECS: tabs that race on one cookie never
\* get the family revoked, and never have their cookie cleared while the token
\* they presented is within its TTL.
RaceNeverSignsOut ==
    /\ \A f \in Families : famState[f] = "live"
    /\ \A r \in Requests : pc[r] = "cleared" => tokExpires[rTok[r]] <= now

\* Between requests the jar holds the one token the server will still rotate:
\* an answer that arrives late never puts an older token back.
QuietJarIsCurrent ==
    (InFlight = {} /\ jar # NoToken) => tokUsed[jar] = NotYet

\* A tab that finds the jar's token spent only has to wait: the successor
\* reaches the jar ("simply retries", handlers.rs on refresh_superseded).
JarRecovers ==
    (jar # NoToken /\ tokUsed[jar] # NotYet)
        ~> (jar # NoToken /\ tokUsed[jar] = NotYet)

-----------------------------------------------------------------------------
(* The inductive invariant behind RaceNeverSignsOut and QuietJarIsCurrent.  *)

TabTypeOK ==
    /\ jar \in Tokens \cup {NoToken} /\ sent \in [Requests -> Nat]
    /\ inactive = {} /\ banned = {} /\ deleted = {}
    /\ \A r \in Requests : pc[r] \notin {"refresh_revoke", "refresh_block", "revoke_all",
                                        "logout_lookup", "logout_revoke"}

\* No request outlives Latency.
InTime == \A r \in Requests : pc[r] # "idle" => sent[r] <= now /\ now <= sent[r] + Latency

\* What the browser knows is in the database; a token handed out is unspent,
\* and nobody else knows it before its answer arrives.
HeldOK ==
    /\ jar # NoToken => tokFam[jar] # NoFamily
    /\ \A r \in Requests : rTok[r] # NoToken => tokFam[rTok[r]] # NoFamily
    /\ \A r \in Requests : pc[r] = "cleared" => rTok[r] # NoToken
    /\ \A r \in Requests : pc[r] = "ok" =>
           /\ rTok[r] # NoToken /\ tokUsed[rTok[r]] = NotYet /\ jar # rTok[r]
           /\ \A q \in Requests \ {r} : rTok[q] # rTok[r]

\* r has spent the jar's token and its answer, with the successor, is to come.
Spender(r) ==
    /\ \/ pc[r] = "refresh_insert" /\ rTok[r] = jar
       \/ pc[r] = "ok" /\ tokParent[rTok[r]] = jar
    /\ sent[r] <= tokUsed[jar]

JarOK == jar # NoToken /\ tokUsed[jar] # NotYet => \E r \in Requests : Spender(r)

\* The token a refresh presents was spent at most Latency before it was sent.
RecentOK ==
    \A r \in Requests : pc[r] = "refresh_lookup" /\ tokUsed[rTok[r]] # NotYet =>
        sent[r] <= tokUsed[rTok[r]] + Latency

TabInv ==
    /\ SessionInv /\ TabTypeOK /\ InTime /\ HeldOK /\ JarOK /\ RecentOK
    /\ RaceNeverSignsOut

=============================================================================
