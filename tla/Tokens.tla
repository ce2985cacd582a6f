------------------------------- MODULE Tokens -------------------------------
(***************************************************************************)
(* Long-lived bearer tokens: the one personal token of a user, and the     *)
(* application tokens that carry a grant and a set of projects.            *)
(*                                                                         *)
(* Source: me_token.rs, the application token handlers of                  *)
(* admin/handlers.rs and authenticate of auth/extractor.rs in crates/api,  *)
(* personal_tokens.rs and app_tokens.rs in crates/db.                      *)
(*                                                                         *)
(* A secret stands for its hash.  Every statement or transaction is one    *)
(* step, and a request is looked up once, before its handler acts.         *)
(***************************************************************************)
EXTENDS Integers

CONSTANTS
    Holders,         \* users
    AppIds, Spaces, \* application tokens; projects
    Grants,         \* permission sets
    Secrets,        \* every secret is minted once
    Clients,        \* requests in flight
    Nothing,        \* null, or a field that the patch leaves out
    MaxTokenOps     \* bound on the requests begun, for TLC

ASSUME TokensAssumption ==
    /\ MaxTokenOps \in Nat /\ Nothing \notin Holders \cup AppIds \cup Secrets \cup Grants
    /\ \A S \in SUBSET Spaces : S # Nothing

VARIABLES
    personal,   \* user -> [secret, off]; secret is Nothing without a row
    barred,     \* users that are inactive, banned or deleted
    app,        \* existing application token -> [secret, grant, scope, revoked, expired]
    space,      \* rows of projects; a deleted project keeps its row
    minted,     \* secrets handed out so far
    client,     \* request -> its step
    tokenOps    \* requests begun so far

tokenVars == <<personal, barred, app, space, minted, client, tokenOps>>

NoRow == [secret |-> Nothing, off |-> FALSE]
Gone == [at |-> "idle", id |-> Nothing, who |-> Nothing, secret |-> Nothing,
         grant |-> Nothing, scope |-> Nothing, late |-> FALSE]

TokenInit ==
    /\ personal = [u \in Holders |-> NoRow] /\ barred = {} /\ app = << >> /\ space \in SUBSET Spaces
    /\ minted = {} /\ client = [h \in Clients |-> Gone] /\ tokenOps = 0

-----------------------------------------------------------------------------
(* Authentication.                                                         *)

\* personal_tokens::find_active_by_hash: the owners that the secret stands for.
find_personal(s) == {u \in Holders : personal[u] = [secret |-> s, off |-> FALSE] /\ u \notin barred}

\* Mutant: the expiry is not part of the query.
FindExpiredToo(s) == {t \in DOMAIN app : app[t].secret = s /\ ~app[t].revoked}

\* app_tokens::find_active_by_hash.
find_app(s) == {t \in DOMAIN app : app[t].secret = s /\ ~app[t].revoked /\ ~app[t].expired}

\* Requests that were looked up and are affected by a change learn of it (history).
Overtake(S) == client' = [h \in Clients |->
    IF client[h].at = "act" /\ client[h].who \in S THEN [client[h] EXCEPT !.late = TRUE] ELSE client[h]]

Request == tokenOps < MaxTokenOps /\ tokenOps' = tokenOps + 1

\* The prefix of the bearer tells the kind; no match is a 401.
authenticate(h, s) ==
    /\ client[h].at = "idle" /\ Request
    /\ client' = [client EXCEPT ![h] =
         IF \E u \in find_personal(s) : TRUE
         THEN [Gone EXCEPT !.at = "act", !.who = CHOOSE u \in find_personal(s) : TRUE, !.secret = s]
         ELSE IF \E t \in find_app(s) : TRUE
         THEN LET t == CHOOSE x \in find_app(s) : TRUE IN
              [Gone EXCEPT !.at = "act", !.who = t, !.secret = s, !.grant = app[t].grant, !.scope = app[t].scope]
         ELSE Gone]
    /\ UNCHANGED <<personal, barred, app, space, minted>>

\* The handler ran with what was looked up.
answer(h) ==
    /\ client[h].at = "act" /\ client' = [client EXCEPT ![h] = Gone]
    /\ UNCHANGED <<personal, barred, app, space, minted, tokenOps>>

-----------------------------------------------------------------------------
(* The personal token.                                                     *)

Mint(s) == s \notin minted /\ minted' = minted \cup {s}

\* INSERT ... ON CONFLICT DO NOTHING: a second one is a 409.
create_token(u, s) ==
    /\ Request /\ Mint(s)
    /\ personal' = IF personal[u] = NoRow THEN [personal EXCEPT ![u].secret = s] ELSE personal
    /\ UNCHANGED <<barred, app, space, client>>

\* Reset in place; a disabled token works again.
reset_token(u, s) ==
    /\ Request /\ Mint(s)
    /\ personal' = IF personal[u] = NoRow THEN personal
                   ELSE [personal EXCEPT ![u] = [secret |-> s, off |-> FALSE]]
    /\ Overtake({u})
    /\ UNCHANGED <<barred, app, space>>

set_disabled(u, off) ==
    /\ Request /\ personal[u] # NoRow
    /\ personal' = [personal EXCEPT ![u].off = off]
    /\ Overtake({u})
    /\ UNCHANGED <<barred, app, space, minted>>

delete_token(u) ==
    /\ Request /\ personal[u] # NoRow
    /\ personal' = [personal EXCEPT ![u] = NoRow]
    /\ Overtake({u})
    /\ UNCHANGED <<barred, app, space, minted>>

\* An administrator bars the account or lifts that (SuperadminGuard, Presence).
account_changes(u) ==
    /\ Request
    /\ barred' = IF u \in barred THEN barred \ {u} ELSE barred \cup {u}
    /\ Overtake({u})
    /\ UNCHANGED <<personal, app, space, minted>>

-----------------------------------------------------------------------------
(* Application tokens.                                                     *)

\* Every project of the request exists, when it is looked at.
projects_all_exist(S) == S # Nothing => S \subseteq space

create_app_token(h, t, s, g, S) ==
    /\ client[h].at = "idle" /\ Request /\ Mint(s)
    /\ t \notin DOMAIN app /\ \A i \in Clients : client[i].id # t
    /\ projects_all_exist(S)
    /\ client' = [client EXCEPT ![h] =
         [Gone EXCEPT !.at = "insert", !.id = t, !.secret = s, !.grant = g, !.scope = S]]
    /\ UNCHANGED <<personal, barred, app, space>>

\* The token and its scope in one transaction.
insert_app_token(h) ==
    LET c == client[h] IN
    /\ c.at = "insert"
    /\ app' = [t \in DOMAIN app \cup {c.id} |-> IF t = c.id
                 THEN [secret |-> c.secret, grant |-> c.grant, scope |-> c.scope,
                       revoked |-> FALSE, expired |-> FALSE] ELSE app[t]]
    /\ client' = [client EXCEPT ![h] = Gone]
    /\ UNCHANGED <<personal, barred, space, minted, tokenOps>>

update_app_token(h, t, g, S) ==
    /\ client[h].at = "idle" /\ Request /\ t \in DOMAIN app /\ <<g, S>> # <<Nothing, Nothing>>
    /\ projects_all_exist(S)
    /\ client' = [client EXCEPT ![h] = [Gone EXCEPT !.at = "update", !.id = t, !.grant = g, !.scope = S]]
    /\ UNCHANGED <<personal, barred, app, space, minted>>

\* The given fields; the scope is replaced as a whole.  Also a revoked token.
write_app_token(h) ==
    LET c == client[h] IN
    /\ c.at = "update"
    /\ app' = [app EXCEPT ![c.id].grant = IF c.grant = Nothing THEN @ ELSE c.grant,
                          ![c.id].scope = IF c.scope = Nothing THEN @ ELSE c.scope]
    /\ client' = [i \in Clients |-> IF i = h THEN Gone
                    ELSE IF client[i].who = c.id THEN [client[i] EXCEPT !.late = TRUE] ELSE client[i]]
    /\ UNCHANGED <<personal, barred, space, minted, tokenOps>>

revoke_app_token(t) ==
    /\ Request /\ t \in DOMAIN app /\ ~app[t].revoked
    /\ app' = [app EXCEPT ![t].revoked = TRUE]
    /\ Overtake({t})
    /\ UNCHANGED <<personal, barred, space, minted>>

\* The clock passes expires_at.
expire_app_token(t) ==
    /\ Request /\ t \in DOMAIN app /\ ~app[t].expired
    /\ app' = [app EXCEPT ![t].expired = TRUE]
    /\ Overtake({t})
    /\ UNCHANGED <<personal, barred, space, minted>>

\* A project is created.  Its deletion (deleted_at) leaves the row, which
\* projects_all_exist still counts, and every scope that names it.
create_space(p) ==
    /\ Request /\ p \notin space
    /\ space' = space \cup {p}
    /\ UNCHANGED <<personal, barred, app, minted, client>>

TokenNext ==
    \/ \E u \in Holders, s \in Secrets : create_token(u, s) \/ reset_token(u, s)
    \/ \E u \in Holders : delete_token(u) \/ account_changes(u)
    \/ \E u \in Holders, off \in BOOLEAN : set_disabled(u, off)
    \/ \E h \in Clients, s \in Secrets : authenticate(h, s)
    \/ \E h \in Clients : answer(h) \/ insert_app_token(h) \/ write_app_token(h)
    \/ \E h \in Clients, t \in AppIds, s \in Secrets, g \in Grants, S \in SUBSET Spaces :
         create_app_token(h, t, s, g, S)
    \/ \E h \in Clients, t \in AppIds, g \in Grants \cup {Nothing}, S \in (SUBSET Spaces) \cup {Nothing} :
         update_app_token(h, t, g, S)
    \/ \E t \in AppIds : revoke_app_token(t) \/ expire_app_token(t)
    \/ \E p \in Spaces : create_space(p)

TokenSpec == TokenInit /\ [][TokenNext]_tokenVars

-----------------------------------------------------------------------------
(* Properties.                                                             *)

TokenTypeOK ==
    /\ personal \in [Holders -> [secret : minted \cup {Nothing}, off : BOOLEAN]]
    /\ barred \subseteq Holders /\ space \subseteq Spaces /\ minted \subseteq Secrets
    /\ DOMAIN app \subseteq AppIds
    /\ \A t \in DOMAIN app : app[t] \in [secret : minted, grant : Grants, scope : SUBSET space,
                                         revoked : BOOLEAN, expired : BOOLEAN]
    /\ \A h \in Clients : client[h].at \in {"idle", "act", "insert", "update"}
    /\ tokenOps \in 0 .. MaxTokenOps

\* What entitles a request now: the owner's standing and current secret, or a
\* token in force with just this grant and scope.
Entitled(c) ==
    \/ c.who \in Holders \ barred /\ personal[c.who] = [secret |-> c.secret, off |-> FALSE]
    \/ /\ c.who \in DOMAIN app
       /\ app[c.who] = [secret |-> c.secret, grant |-> c.grant, scope |-> c.scope,
                        revoked |-> FALSE, expired |-> FALSE]

\* A handler acts on a secret that was replaced, disabled, revoked or has
\* expired, or with rights since taken away, only while that change overtook
\* the request itself.
AuthorityNeedsOverlap ==
    \A h \in Clients : client[h].at = "act" /\ ~client[h].late => Entitled(client[h])
=============================================================================
