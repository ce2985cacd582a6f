------------------------------- MODULE SignIn -------------------------------
(***************************************************************************)
(* The ways into one account: password or directory login, the second      *)
(* factor challenge (TOTP code or recovery code), passkeys, and the        *)
(* handlers that change these credentials while sign-ins are in flight:    *)
(* enrolment and removal of factors, password change and reset, the        *)
(* administrator's 2FA reset and ban.                                      *)
(*                                                                         *)
(* Source: login, establish_session and the password reset handlers of     *)
(* crates/api/src/auth/handlers.rs, mfa.rs, passkeys.rs, change_password   *)
(* in me.rs, reset_two_factor and ban_user in admin/handlers.rs, and the   *)
(* statements in crates/db (users, recovery, password_reset, webauthn).    *)
(*                                                                         *)
(* Every table involved is keyed by the account, so one account is enough. *)
(* One action is one statement and the computation up to the next await; a *)
(* request arrives with its first statement, and one that is refused there *)
(* leaves no trace.  A token, code or ceremony that has expired is one     *)
(* nobody presents; an erased account, which no lookup finds, is left to   *)
(* RefreshSessions.                                                        *)
(***************************************************************************)
EXTENDS Naturals, FiniteSets

CONSTANTS
    Requests,       \* concurrent handler invocations
    Keys,           \* authenticators the owner may register as passkeys
    MaxIds,         \* bound on credentials created and administrative changes
    MaxPwd,         \* bound on password changes
    DbFails         \* whether the queries of login whose error is ignored may fail

ASSUME SignInAssumption ==
    MaxIds \in Nat /\ MaxPwd \in Nat /\ DbFails \in BOOLEAN

Ids == 1 .. MaxIds
None == 0           \* no id, a NULL column

VARIABLES
    pwd,            \* users.password_hash, as the number of times it changed
    active, banned, superadmin, source,     \* columns of users
    ldapOn, passwordOff,                    \* ldap_settings, platform_settings
    totp, totpOn,   \* totp_secret_enc, totp_confirmed_at: IS NOT NULL
    keys,           \* webauthn_credentials
    codes,          \* recovery_codes with used_at IS NULL
    resets,         \* password_reset_tokens with used_at IS NULL
    ceremonies,     \* webauthn_states: id and kind
    challenged,     \* an MFA token has been issued (it is stateless)
    ids,            \* ids handed out so far, to credentials and changes
    entered,        \* somebody has been given a session, hence an access token
    sessions,       \* live families opened with a password: which, and late
    pc,
    loc,            \* locals of each request
    seen,           \* history: what has held at some moment of a login
    unchecked,      \* history: requests one of whose queries failed
    overtaken,      \* history: requests in flight when the sessions were swept
    doors,          \* history: how often each one-time credential worked
    proof           \* history: has the owner shown a code of the stored secret?

userVars == <<pwd, active, banned, superadmin, source>>
settingVars == <<ldapOn, passwordOff>>
accountVars == <<userVars, settingVars>>
totpVars == <<totp, totpOn>>
factorVars == <<totpVars, keys, codes>>
tokenVars == <<resets, ceremonies, challenged, ids>>
sessionVars == <<entered, sessions>>
reqVars == <<pc, loc, unchecked, overtaken>>
proofVars == <<doors, proof>>
vars == <<accountVars, factorVars, tokenVars, sessionVars, reqVars, seen, proofVars>>

LoginSteps == {"login_policy", "login_route", "ldap_link", "ban_check", "factor_check", "session"}
Steps == LoginSteps \cup
         {"idle", "code_mark", "key_insert", "confirm_write", "codes_replace",
          "codes_insert", "pwd_write", "wipe_keys", "wipe_codes", "sweep"}
Routes == {"none", "password", "ldap", "2fa", "passkey"}

\* pwd: the password presented; ok: it matched an active account; glass: the
\* account is a local superadmin; code: the recovery code found; via: the
\* route the session will be recorded under; gone: the recovery codes deleted
\* by a transaction that has yet to commit.
NoLocals == [pwd |-> 0, ok |-> FALSE, glass |-> FALSE, code |-> None, via |-> "none",
             gone |-> {}]

Init ==
    /\ pwd = 0 /\ active = TRUE /\ banned = FALSE /\ source = "local"
    /\ superadmin = FALSE /\ ldapOn = FALSE /\ passwordOff = FALSE
    /\ totp = FALSE /\ totpOn = FALSE /\ keys = {} /\ codes = {}
    /\ resets = {} /\ ceremonies = {} /\ challenged = FALSE /\ ids = 0
    /\ entered = FALSE /\ sessions = {}
    /\ pc = [r \in Requests |-> "idle"] /\ loc = [r \in Requests |-> NoLocals]
    /\ seen = [r \in Requests |-> {}]
    /\ unchecked = {} /\ overtaken = {} /\ proof = "no"
    /\ doors = [i \in Ids |-> 0]

\* The handler goes on with new locals, or is answered and they are gone.
Proceed(r, step, l) ==
    /\ pc' = [pc EXCEPT ![r] = step] /\ loc' = [loc EXCEPT ![r] = l]
    /\ UNCHANGED <<unchecked, overtaken>>

Continue(r, step) == Proceed(r, step, loc[r])

Respond(r) ==
    /\ pc' = [pc EXCEPT ![r] = "idle"] /\ loc' = [loc EXCEPT ![r] = NoLocals]
    /\ unchecked' = unchecked \ {r} /\ overtaken' = overtaken \ {r}

\* A new secret, code, token, ceremony or administrative change.
Allocate(n) == ids < MaxIds /\ n = ids + 1 /\ ids' = n

\* A one-time credential has done its work.
Opened(i) == doors' = [doors EXCEPT ![i] = IF @ < 2 THEN @ + 1 ELSE @]

-----------------------------------------------------------------------------
(* POST /auth/login.                                                        *)

\* Mutated form: a passkey is not counted as a second factor.
totp_only == totpOn

\* A confirmed TOTP secret or any passkey.
has_active_2fa == totpOn \/ keys # {}

\* The client presents a password, today's or an earlier one.
\* find_by_identifier_with_secret: one row decides the password check, the
\* is_active check and whether this is the break-glass superadmin.
LoginFind(r, p) ==
    /\ pc[r] = "idle"
    /\ Proceed(r, "login_policy", [NoLocals EXCEPT !.pwd = p, !.ok = (p = pwd /\ active),
                                                   !.glass = superadmin])
    /\ UNCHANGED <<accountVars, factorVars, tokenVars, sessionVars, proofVars>>

\* local_password_login_disabled stops everyone but the break-glass account.
LoginPolicy(r) ==
    /\ pc[r] = "login_policy"
    /\ \/ ~loc[r].glass /\ passwordOff /\ Respond(r)
       \/ (loc[r].glass \/ ~passwordOff) /\ Continue(r, "login_route")
    /\ UNCHANGED <<accountVars, factorVars, tokenVars, sessionVars, proofVars>>

\* What a login keeps once its password is accepted.
Verified(r) == [NoLocals EXCEPT !.pwd = loc[r].pwd, !.via = "password"]

\* The password was checked against the hash read at the start.
LocalPassword(r) ==
    \/ ~loc[r].ok /\ Respond(r)
    \/ loc[r].ok /\ Proceed(r, "ban_check", Verified(r))

\* ldap_settings decide who checks the password: the directory, which accepts
\* or refuses (or is down), or the hash.
LoginRoute(r) ==
    /\ pc[r] = "login_route"
    /\ \/ ldapOn /\ ~loc[r].glass /\ (Respond(r) \/ Proceed(r, "ldap_link", NoLocals))
       \/ (~ldapOn \/ loc[r].glass) /\ LocalPassword(r)
    /\ UNCHANGED <<accountVars, factorVars, tokenVars, sessionVars, proofVars>>

\* find_or_link_ldap_user: the account becomes the directory's, active again,
\* superadmin or not as its groups say; the ban and the local password stay.
LdapLink(r) ==
    /\ pc[r] = "ldap_link"
    /\ source' = "ldap" /\ active' = TRUE /\ superadmin' \in BOOLEAN
    /\ Proceed(r, "ban_check", [NoLocals EXCEPT !.via = "ldap"])
    /\ UNCHANGED <<pwd, banned, settingVars, factorVars, tokenVars, sessionVars,
                   proofVars>>

BanCheck(r) ==
    /\ pc[r] = "ban_check"
    /\ \/ banned /\ Respond(r)
       \/ ~banned /\ Continue(r, "factor_check")
    /\ UNCHANGED <<accountVars, factorVars, tokenVars, sessionVars, proofVars>>

\* With a second factor the answer is a challenge, not a session.
FactorCheck(r) ==
    /\ pc[r] = "factor_check"
    /\ \/ has_active_2fa /\ challenged' = TRUE /\ Respond(r)
       \/ ~has_active_2fa /\ Continue(r, "session") /\ UNCHANGED challenged
    /\ UNCHANGED <<accountVars, factorVars, resets, ceremonies, ids, sessionVars,
                   proofVars>>

\* platform_settings::get (is_ok_and), ldap_settings::get (if let Ok), and
\* is_banned and has_active_2fa (unwrap_or(false)): a query that fails counts
\* as password login allowed, LDAP off, not banned, no second factor.
CheckFails(r) ==
    /\ DbFails
    /\ \/ pc[r] = "login_policy" /\ ~loc[r].glass /\ pc' = [pc EXCEPT ![r] = "login_route"] /\ UNCHANGED loc
       \/ /\ pc[r] = "login_route" /\ loc[r].ok /\ ~loc[r].glass
          /\ pc' = [pc EXCEPT ![r] = "ban_check"] /\ loc' = [loc EXCEPT ![r] = Verified(r)]
       \/ pc[r] = "ban_check" /\ pc' = [pc EXCEPT ![r] = "factor_check"] /\ UNCHANGED loc
       \/ pc[r] = "factor_check" /\ pc' = [pc EXCEPT ![r] = "session"] /\ UNCHANGED loc
    /\ unchecked' = unchecked \cup {r}
    /\ UNCHANGED <<accountVars, factorVars, tokenVars, sessionVars, overtaken, proofVars>>

-----------------------------------------------------------------------------
(* establish_session, shared by every route.                                *)

\* create_family and its first token.  A session opened with a password
\* remembers which, and whether the login was overtaken by a sweep.
CreateSession(r) ==
    /\ pc[r] = "session"
    /\ entered' = TRUE
    /\ sessions' = IF loc[r].via = "password"
                   THEN sessions \cup {[pwd |-> loc[r].pwd, late |-> r \in overtaken]}
                   ELSE sessions
    /\ Respond(r)
    /\ UNCHANGED <<accountVars, factorVars, tokenVars, proofVars>>

-----------------------------------------------------------------------------
(* POST /auth/2fa/verify.  The MFA token names the account and nothing      *)
(* else; neither route looks at the ban or the password again.              *)

\* Mutated form: the session is recorded under the factor instead.
RouteOfFactor == "totp"

RouteOfChallenge == "2fa"

\* verify_totp_factor: a code of the confirmed secret; any other is refused.
VerifyTotp(r) ==
    /\ pc[r] = "idle" /\ challenged
    /\ totpOn /\ totp
    /\ Proceed(r, "session", [NoLocals EXCEPT !.via = RouteOfChallenge])
    /\ UNCHANGED <<accountVars, factorVars, tokenVars, sessionVars, proofVars>>

\* verify_recovery_factor: list_unused, then the conditional mark_used.
ListCodes(r, i) ==
    /\ pc[r] = "idle" /\ challenged
    /\ i \in codes
    /\ Proceed(r, "code_mark", [NoLocals EXCEPT !.code = i, !.via = RouteOfChallenge])
    /\ UNCHANGED <<accountVars, factorVars, tokenVars, sessionVars, proofVars>>

\* Mutated form: mark_used does not look at used_at.
mark_used_always(i) == TRUE

\* mark_used: the row is there and unused (WHERE id = $1 AND used_at IS NULL).
mark_used_wins(i) == i \in codes

\* The UPDATE waits for a replacement that has deleted the row to commit.
MarkCode(r) ==
    /\ pc[r] = "code_mark"
    /\ \A q \in Requests : loc[r].code \notin loc[q].gone
    /\ \/ /\ mark_used_wins(loc[r].code)
          /\ codes' = codes \ {loc[r].code}
          /\ Opened(loc[r].code)
          /\ Proceed(r, "session", [loc[r] EXCEPT !.code = None])
       \/ /\ ~mark_used_wins(loc[r].code)
          /\ Respond(r)
          /\ UNCHANGED <<codes, doors>>
    /\ UNCHANGED <<accountVars, totpVars, keys, tokenVars, sessionVars, proof>>

-----------------------------------------------------------------------------
(* Passkeys.                                                                *)

StartCeremony(kind) ==
    /\ \E n \in Ids : Allocate(n) /\ ceremonies' = ceremonies \cup {[id |-> n, kind |-> kind]}
    /\ UNCHANGED <<accountVars, factorVars, resets, challenged, sessionVars, reqVars,
                   proofVars>>

\* authenticate_start: the ceremony embeds the passkeys registered now.
AuthenticateStart == keys # {} /\ StartCeremony("authenticate")

\* register_start, for the signed-in owner.
RegisterStart == entered /\ StartCeremony("register")

\* take_state: DELETE ... RETURNING, so a ceremony is taken once.
take_state(c) ==
    /\ c \in ceremonies
    /\ ceremonies' = ceremonies \ {c}
    /\ Opened(c.id)

\* authenticate_finish: an assertion by a passkey of the ceremony, whether or
\* not it is still registered.
AuthenticateFinish(r, c) ==
    /\ pc[r] = "idle"
    /\ c.kind = "authenticate" /\ take_state(c)
    /\ Proceed(r, "session", [NoLocals EXCEPT !.via = "passkey"])
    /\ UNCHANGED <<accountVars, factorVars, resets, challenged, ids, sessionVars,
                   proof>>

\* register_finish: take_state, verify the attestation, insert_credential.
RegisterTake(r, c) ==
    /\ pc[r] = "idle"
    /\ entered /\ c.kind = "register" /\ take_state(c)
    /\ Continue(r, "key_insert")
    /\ UNCHANGED <<accountVars, factorVars, resets, challenged, ids, sessionVars,
                   proof>>

RegisterInsert(r) ==
    /\ pc[r] = "key_insert"
    /\ \E k \in Keys \ keys : keys' = keys \cup {k}
    /\ Respond(r)
    /\ UNCHANGED <<accountVars, totpVars, codes, tokenVars, sessionVars, proofVars>>

DeletePasskey(k) ==
    /\ entered /\ k \in keys
    /\ keys' = keys \ {k}
    /\ UNCHANGED <<accountVars, totpVars, codes, tokenVars, sessionVars, reqVars,
                   proofVars>>

-----------------------------------------------------------------------------
(* TOTP enrolment and recovery codes, for the signed-in owner.              *)

\* Mutated form: the new secret inherits the old one's confirmation.
set_totp_secret_confirmed(some) == totp' = some /\ UNCHANGED totpOn

\* UPDATE users SET totp_secret_enc = $2, totp_confirmed_at = NULL: a fresh
\* secret, or none (disable_totp).
set_totp_secret(some) == totp' = some /\ totpOn' = FALSE

\* The new secret is unproven, and a totp_confirm that verified the old one
\* may be about to confirm it.
Supersede == proof' = IF \E r \in Requests : pc[r] = "confirm_write" THEN "raced" ELSE "no"

TotpStart ==
    /\ entered
    /\ \E n \in Ids : Allocate(n)
    /\ set_totp_secret(TRUE)
    /\ Supersede
    /\ UNCHANGED <<accountVars, keys, codes, resets, ceremonies, challenged, sessionVars,
                   reqVars, doors>>

\* totp_disable: the recovery codes stay.
TotpDisable ==
    /\ entered /\ totp
    /\ set_totp_secret(FALSE)
    /\ Supersede
    /\ UNCHANGED <<accountVars, keys, codes, tokenVars, sessionVars, reqVars,
                   doors>>

\* totp_confirm: a code is checked against the stored secret ...
ConfirmRead(r) ==
    /\ pc[r] = "idle"
    /\ entered /\ totp
    /\ proof' = "yes"
    /\ Continue(r, "confirm_write")
    /\ UNCHANGED <<accountVars, factorVars, tokenVars, sessionVars, doors>>

\* ... and whatever secret is stored by then is confirmed.
ConfirmWrite(r) ==
    /\ pc[r] = "confirm_write"
    /\ totpOn' = TRUE
    /\ Continue(r, "codes_replace")
    /\ UNCHANGED <<accountVars, totp, keys, codes, tokenVars, sessionVars, proofVars>>

\* recovery_regenerate is refused without a second factor.
RegenerateCheck(r) ==
    /\ pc[r] = "idle"
    /\ entered /\ has_active_2fa
    /\ Continue(r, "codes_replace")
    /\ UNCHANGED <<accountVars, factorVars, tokenVars, sessionVars, proofVars>>

\* replace_all, one transaction: the DELETE finds the codes stored by then ...
DeleteCodes(r) ==
    /\ pc[r] = "codes_replace"
    /\ Proceed(r, "codes_insert", [NoLocals EXCEPT !.gone = codes])
    /\ UNCHANGED <<accountVars, factorVars, tokenVars, sessionVars, proofVars>>

\* ... and the new ones are visible with the commit.  Two that overlap delete
\* the same codes and leave both sets.
ReplaceCodes(r) ==
    /\ pc[r] = "codes_insert"
    /\ \E n \in Ids : Allocate(n) /\ codes' = (codes \ loc[r].gone) \cup {n}
    /\ Respond(r)
    /\ UNCHANGED <<accountVars, totpVars, keys, resets, ceremonies, challenged, sessionVars, proofVars>>

-----------------------------------------------------------------------------
(* Passwords.                                                               *)

\* change_password re-verifies the current password of a local account.
ChangeRead(r, p) ==
    /\ pc[r] = "idle"
    /\ entered /\ source = "local" /\ p = pwd /\ pwd < MaxPwd
    /\ Continue(r, "pwd_write")
    /\ UNCHANGED <<accountVars, factorVars, tokenVars, sessionVars, proofVars>>

\* password_reset_request, or reset_password by an administrator.
ResetRequest ==
    /\ \E n \in Ids : Allocate(n) /\ resets' = resets \cup {n}
    /\ UNCHANGED <<accountVars, factorVars, ceremonies, challenged, sessionVars,
                   reqVars, proofVars>>

\* consume: UPDATE ... WHERE used_at IS NULL ... RETURNING.
ResetConsume(r, i) ==
    /\ pc[r] = "idle"
    /\ i \in resets /\ resets' = resets \ {i}
    /\ Opened(i)
    /\ Continue(r, "pwd_write")
    /\ UNCHANGED <<accountVars, factorVars, ceremonies, challenged, ids, sessionVars,
                   proof>>

\* UPDATE users SET password_hash: unconditional.
WritePassword(r) ==
    /\ pc[r] = "pwd_write" /\ pwd < MaxPwd
    /\ pwd' = pwd + 1
    /\ Continue(r, "sweep")
    /\ UNCHANGED <<active, banned, superadmin, source, settingVars, factorVars, tokenVars,
                   sessionVars, proofVars>>

-----------------------------------------------------------------------------
(* Administrators.                                                          *)

\* reset_two_factor: three deletions and the sweep.
WipeTotp(r) ==
    /\ pc[r] = "idle"
    /\ set_totp_secret(FALSE)
    /\ Supersede
    /\ Continue(r, "wipe_keys")
    /\ UNCHANGED <<accountVars, keys, codes, tokenVars, sessionVars, doors>>

WipeKeys(r) ==
    /\ pc[r] = "wipe_keys"
    /\ keys' = {}
    /\ Continue(r, "wipe_codes")
    /\ UNCHANGED <<accountVars, totpVars, codes, tokenVars, sessionVars, proofVars>>

WipeCodes(r) ==
    /\ pc[r] = "wipe_codes"
    /\ codes' = {}
    /\ Continue(r, "sweep")
    /\ UNCHANGED <<accountVars, totpVars, keys, tokenVars, sessionVars, proofVars>>

BanUser(r) ==
    /\ pc[r] = "idle"
    /\ banned' = TRUE
    /\ Continue(r, "sweep")
    /\ UNCHANGED <<pwd, active, superadmin, source, settingVars, factorVars, tokenVars,
                   sessionVars, proofVars>>

\* Mutated form: nothing is revoked.
SweepNothing(r) ==
    /\ pc[r] = "sweep"
    /\ Respond(r)
    /\ UNCHANGED <<accountVars, factorVars, tokenVars, sessionVars, proofVars>>

\* revoke_all_for_user, the end of every handler above that changes what it
\* takes to sign in.
Sweep(r) ==
    /\ pc[r] = "sweep"
    /\ sessions' = {} /\ UNCHANGED entered
    /\ pc' = [pc EXCEPT ![r] = "idle"]
    /\ overtaken' = {q \in Requests : pc[q] \in LoginSteps}
    /\ UNCHANGED <<accountVars, factorVars, tokenVars, loc, unchecked, proofVars>>

\* A statement fails, or the attestation is refused: the handler answers with
\* an error and what it did before stays.  (That the sweep may fail silently is
\* left to RefreshSessions.)
StepFails(r) ==
    /\ pc[r] \in {"ldap_link", "session", "code_mark", "key_insert", "confirm_write",
                  "codes_replace", "codes_insert", "pwd_write", "wipe_keys", "wipe_codes"}
    /\ Respond(r)
    /\ UNCHANGED <<accountVars, factorVars, tokenVars, sessionVars, proofVars>>

\* unban_user, update_user's is_active and the platform and LDAP settings.
Administer ==
    /\ \E n \in Ids : Allocate(n)
    /\ \/ banned /\ banned' = FALSE /\ UNCHANGED <<active, ldapOn, passwordOff>>
       \/ active' = ~active /\ UNCHANGED <<banned, ldapOn, passwordOff>>
       \/ ldapOn' = ~ldapOn /\ UNCHANGED <<banned, active, passwordOff>>
       \/ passwordOff' = ~passwordOff /\ UNCHANGED <<banned, active, ldapOn>>
    /\ UNCHANGED <<pwd, superadmin, source, factorVars, resets, ceremonies, challenged, sessionVars,
                   reqVars, proofVars>>

-----------------------------------------------------------------------------

LoginStep(r) ==
    \/ \E p \in 0 .. pwd : LoginFind(r, p)
    \/ LoginPolicy(r) \/ LoginRoute(r) \/ LdapLink(r)
    \/ BanCheck(r) \/ FactorCheck(r) \/ CheckFails(r)
    \/ CreateSession(r)

FactorStep(r) ==
    \/ \E i \in Ids : ListCodes(r, i)
    \/ \E c \in ceremonies : AuthenticateFinish(r, c) \/ RegisterTake(r, c)
    \/ VerifyTotp(r) \/ ConfirmRead(r) \/ MarkCode(r) \/ RegisterInsert(r)
    \/ ConfirmWrite(r) \/ RegenerateCheck(r) \/ DeleteCodes(r) \/ ReplaceCodes(r)

PasswordStep(r) ==
    \/ \E p \in 0 .. pwd : ChangeRead(r, p)
    \/ \E i \in Ids : ResetConsume(r, i)
    \/ WritePassword(r)

AdminStep(r) == WipeTotp(r) \/ WipeKeys(r) \/ WipeCodes(r) \/ BanUser(r) \/ Sweep(r) \/ StepFails(r)

OwnerStep ==
    \/ AuthenticateStart \/ RegisterStart \/ TotpStart \/ TotpDisable \/ ResetRequest
    \/ \E k \in Keys : DeletePasskey(k)

\* What a login looks for: the right password of an active account, an open
\* route, no ban, no second factor.
Facts == {"known", "open", "unbanned", "factorless"}

FactsFor(r) ==
    {f \in Facts :
      \/ f = "known" /\ loc[r].pwd = pwd /\ active
      \/ f = "open" /\ (superadmin \/ ~passwordOff)
      \/ f = "unbanned" /\ ~banned
      \/ f = "factorless" /\ ~(totpOn \/ keys # {})}

\* Every login in flight witnesses the state each step leads to.
Observe ==
    seen' = [q \in Requests |->
                IF pc'[q] \notin LoginSteps \/ q \in unchecked' THEN {}
                ELSE seen[q] \cup FactsFor(q)']

Act ==
    \/ \E r \in Requests : LoginStep(r) \/ FactorStep(r) \/ PasswordStep(r) \/ AdminStep(r)
    \/ OwnerStep
    \/ Administer

Next == Act /\ Observe

Spec == Init /\ [][Next]_vars

-----------------------------------------------------------------------------
(* Properties.                                                              *)

\* Every column, token and request local is of its type.
TypeOK ==
    /\ pwd \in 0 .. MaxPwd /\ source \in {"local", "ldap"}
    /\ {active, banned, superadmin, ldapOn, passwordOff, totp, totpOn, challenged, entered}
           \subseteq BOOLEAN
    /\ keys \subseteq Keys
    /\ codes \subseteq Ids /\ resets \subseteq Ids
    /\ ceremonies \subseteq [id : Ids, kind : {"authenticate", "register"}]
    /\ sessions \subseteq [pwd : 0 .. MaxPwd, late : BOOLEAN]
    /\ ids \in 0 .. MaxIds
    /\ pc \in [Requests -> Steps]
    /\ loc \in [Requests -> [pwd : 0 .. MaxPwd, ok : BOOLEAN, glass : BOOLEAN,
                             code : 0 .. MaxIds, via : Routes, gone : SUBSET Ids]]
    /\ seen \in [Requests -> SUBSET Facts]
    /\ unchecked \subseteq Requests /\ overtaken \subseteq Requests
    /\ doors \in [Ids -> 0 .. 2] /\ proof \in {"no", "yes", "raced"}

\* A recovery code, a reset token and a passkey ceremony each work once,
\* however many requests present them at the same time and whatever replaces
\* or wipes the codes meanwhile (mark_used, consume, take_state).
WorksOnce == \A i \in Ids : doors[i] <= 1

\* A login that is given a session without a challenge was entitled to it: at
\* some moment of that request the account had no second factor, was not
\* banned, its route was open and, unless the directory vouched for it, the
\* password was right and the account active.  Only a failed query (the
\* ignored errors of login) opens the door without that.
LoginWasEntitled ==
    \A r \in Requests :
        pc[r] = "session" /\ r \notin unchecked =>
            /\ loc[r].via = "password" => seen[r] = Facts
            /\ loc[r].via = "ldap" => Facts \ {"known"} \subseteq seen[r]

\* After a password change or reset no session opened with the old password
\* is left, except while its sweep has yet to run, or when the login had
\* passed its password check before the sweep and created its session after.
OldPasswordNeedsOverlap ==
    \A s \in sessions :
        s.pwd # pwd => s.late \/ \E r \in Requests : pc[r] = "sweep"

\* The TOTP secret that counts as a second factor is one the owner has shown
\* a code for, unless totp_start, totp_disable or an administrator's reset
\* changed the secret between the two statements of a totp_confirm.
UnprovenFactorNeedsOverlap == totpOn => proof # "no"

=============================================================================
