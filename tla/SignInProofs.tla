---------------------------- MODULE SignInProofs ----------------------------
(***************************************************************************)
(* Proofs about SignIn for any number of requests, passkeys, credentials   *)
(* and password changes.  Each property has an invariant of its own, and   *)
(* all of them rest on the types:                                          *)
(*   CredentialsOK  what can still be presented has not been used, and no  *)
(*                  two credentials share an id;                           *)
(*   LoginsOK       a login has seen what the checks behind it look for;   *)
(*   PasswordsOK    a login past its password check used today's password, *)
(*                  or a sweep has passed or has yet to run;               *)
(*   ConfirmOK      a totp_confirm under way has been shown a code.        *)
(***************************************************************************)
EXTENDS SignIn, TLAPS

Offered(i) == i \in codes \/ i \in resets \/ \E c \in ceremonies : c.id = i

CredentialsOK ==
    /\ \A i \in Ids : doors[i] <= 1
    /\ \A i \in Ids : i > ids \/ Offered(i) => doors[i] = 0
    /\ \A i \in Ids : Offered(i) => i <= ids
    /\ codes \cap resets = {}
    /\ \A c \in ceremonies : c.id \notin codes \cup resets
    /\ \A c, e \in ceremonies : c.id = e.id => c = e

Passed(r, f) == f \in seen[r]

LoginOK(r) ==
    /\ pc[r] = "code_mark" => loc[r].via = "2fa"
    /\ r \notin unchecked =>
         /\ pc[r] \in {"login_policy", "login_route"} =>
                /\ loc[r].ok => Passed(r, "known")
                /\ loc[r].glass => Passed(r, "open")
         /\ pc[r] \in {"login_route", "ldap_link", "ban_check", "factor_check"} => Passed(r, "open")
         /\ pc[r] \in {"ban_check", "factor_check"} /\ loc[r].via # "ldap" => Passed(r, "known")
         /\ pc[r] = "factor_check" => Passed(r, "unbanned")
         /\ pc[r] = "session" /\ loc[r].via \in {"password", "ldap"} =>
                /\ Passed(r, "open") /\ Passed(r, "unbanned") /\ Passed(r, "factorless")
                /\ loc[r].via = "password" => Passed(r, "known")

LoginsOK == \A r \in Requests : LoginOK(r)

\* The password of a login has been checked.
Trusts(r) ==
    \/ pc[r] \in {"login_policy", "login_route"} /\ loc[r].ok
    \/ pc[r] \in {"ban_check", "factor_check", "session"} /\ loc[r].via = "password"

SweepDue == \E r \in Requests : pc[r] = "sweep"

PasswordOK(r) == Trusts(r) => loc[r].pwd = pwd \/ r \in overtaken \/ SweepDue

PasswordsOK == OldPasswordNeedsOverlap /\ \A r \in Requests : PasswordOK(r)

ConfirmOK ==
    /\ (\E r \in Requests : pc[r] = "confirm_write") => proof # "no"
    /\ UnprovenFactorNeedsOverlap

USE DEF userVars, settingVars, accountVars, totpVars, factorVars, tokenVars, sessionVars, reqVars, proofVars

-----------------------------------------------------------------------------
(* Types.                                                                  *)

Locals == [pwd : 0 .. MaxPwd, ok : BOOLEAN, glass : BOOLEAN, code : 0 .. MaxIds, via : Routes,
           gone : SUBSET Ids]

\* The program counters and locals after the next step of a request.
RequestTypes ==
    /\ pc \in [Requests -> Steps] /\ loc \in [Requests -> Locals]
    /\ unchecked \subseteq Requests /\ overtaken \subseteq Requests

\* What a handler does to its own locals is well typed.
LEMMA MoveTypes ==
    ASSUME TypeOK, NEW r \in Requests
    PROVE  /\ Respond(r) => RequestTypes'
           /\ \A step \in Steps : Continue(r, step) => RequestTypes'
           /\ \A step \in Steps, l \in Locals : Proceed(r, step, l) => RequestTypes'
<1>1. NoLocals \in Locals
  BY SignInAssumption DEF NoLocals, Locals, Routes, None
<1>2. RequestTypes /\ loc[r] \in Locals
  BY DEF TypeOK, RequestTypes, Locals
<1>3. "idle" \in Steps
  BY DEF Steps
<1> QED
  BY <1>1, <1>2, <1>3 DEF RequestTypes, Respond, Continue, Proceed

LEMMA ObserveTypes ==
    ASSUME TypeOK, Observe PROVE seen' \in [Requests -> SUBSET Facts]
  BY DEF TypeOK, Observe, FactsFor, Facts

LEMMA OpenedTypes ==
    ASSUME TypeOK, NEW i \in Ids, Opened(i) PROVE doors' \in [Ids -> 0 .. 2]
  BY DEF TypeOK, Opened

LEMMA AllocateTypes ==
    ASSUME TypeOK, NEW n \in Ids, Allocate(n) PROVE ids' \in 0 .. MaxIds /\ n = ids' /\ n > ids
  BY SignInAssumption DEF TypeOK, Allocate, Ids

\* POST /auth/login.
LEMMA LoginTypes ==
    ASSUME TypeOK, Observe, NEW r \in Requests, LoginStep(r) PROVE TypeOK'
<1> USE DEF Steps, LoginSteps
<1>1. loc[r] \in Locals
  BY DEF TypeOK, Locals
<1>2. ASSUME NEW p \in 0 .. pwd, LoginFind(r, p) PROVE TypeOK'
  <2>1. [NoLocals EXCEPT !.pwd = p, !.ok = (p = pwd /\ active), !.glass = superadmin] \in Locals
    <3>1. PICK ok \in BOOLEAN : ok = (p = pwd /\ active)
      OBVIOUS
    <3>2. PICK glass \in BOOLEAN : glass = superadmin
      BY DEF TypeOK
    <3>3. [NoLocals EXCEPT !.pwd = p, !.ok = ok, !.glass = glass] \in Locals
      <4>1. p \in 0 .. MaxPwd
        BY SignInAssumption DEF TypeOK
      <4>2. NoLocals \in Locals
        BY SignInAssumption DEF NoLocals, Locals, Routes, None
      <4> QED  BY <4>1, <4>2 DEF NoLocals, Locals
    <3> QED  BY <3>1, <3>2, <3>3, Zenon
  <2>2. RequestTypes'
    BY <1>2, <2>1, MoveTypes DEF LoginFind
  <2> QED  BY <1>2, <2>2, ObserveTypes DEF TypeOK, LoginFind, RequestTypes, Locals
<1>3. CASE LoginPolicy(r)
  <2>1. RequestTypes'
    BY <1>3, MoveTypes DEF LoginPolicy
  <2> QED  BY <1>3, <2>1, ObserveTypes DEF TypeOK, LoginPolicy, RequestTypes, Locals
<1>4. Verified(r) \in Locals /\ NoLocals \in Locals
  <2>1. loc[r].pwd \in 0 .. MaxPwd
    BY <1>1 DEF Locals
  <2>2. NoLocals \in Locals
    BY SignInAssumption DEF NoLocals, Locals, Routes, None
  <2> QED  BY <2>1, <2>2 DEF Verified, NoLocals, Locals, Routes
<1>5. CASE LoginRoute(r)
  <2>1. RequestTypes'
    BY <1>4, <1>5, MoveTypes DEF LoginRoute, LocalPassword
  <2> QED  BY <1>5, <2>1, ObserveTypes DEF TypeOK, LoginRoute, RequestTypes, Locals
<1>6. CASE LdapLink(r)
  <2>1. [NoLocals EXCEPT !.via = "ldap"] \in Locals
    BY <1>4 DEF NoLocals, Locals, Routes
  <2>2. RequestTypes'
    BY <1>6, <2>1, MoveTypes DEF LdapLink
  <2> QED  BY <1>6, <2>2, ObserveTypes DEF TypeOK, LdapLink, RequestTypes, Locals
<1>7. CASE BanCheck(r)
  <2>1. RequestTypes'
    BY <1>7, MoveTypes DEF BanCheck
  <2> QED  BY <1>7, <2>1, ObserveTypes DEF TypeOK, BanCheck, RequestTypes, Locals
<1>8. CASE FactorCheck(r)
  <2>1. RequestTypes'
    BY <1>8, MoveTypes DEF FactorCheck
  <2> QED  BY <1>8, <2>1, ObserveTypes DEF TypeOK, FactorCheck, RequestTypes, Locals
<1>9. CASE CheckFails(r)
  <2>1. RequestTypes'
    <3>1. PICK step \in Steps : pc' = [pc EXCEPT ![r] = step]
      BY <1>9 DEF CheckFails
    <3>2. pc' \in [Requests -> Steps]
      BY <3>1 DEF TypeOK
    <3>3. loc \in [Requests -> Locals] /\ unchecked \subseteq Requests /\ overtaken \subseteq Requests
      BY DEF TypeOK, Locals
    <3>4. loc' = loc \/ loc' = [loc EXCEPT ![r] = Verified(r)]
      BY <1>9 DEF CheckFails
    <3>5. loc' \in [Requests -> Locals]
      BY <1>4, <3>3, <3>4
    <3> QED  BY <1>9, <3>2, <3>3, <3>5 DEF CheckFails, RequestTypes
  <2> QED  BY <1>9, <2>1, ObserveTypes DEF TypeOK, CheckFails, RequestTypes, Locals
<1>10. CASE CreateSession(r)
  <2>1. RequestTypes'
    BY <1>10, MoveTypes DEF CreateSession
  <2>2. sessions' \subseteq [pwd : 0 .. MaxPwd, late : BOOLEAN]
    <3>1. PICK late \in BOOLEAN : late = (r \in overtaken)
      <4>1. (r \in overtaken) \in BOOLEAN
        OBVIOUS
      <4> QED  BY <4>1, Zenon
    <3>2. sessions' \subseteq sessions \cup {[pwd |-> loc[r].pwd, late |-> late]}
      BY <1>10, <3>1, Zenon DEF CreateSession
    <3>3. loc[r].pwd \in 0 .. MaxPwd
      BY <1>1 DEF Locals
    <3> QED  BY <3>2, <3>3 DEF TypeOK
  <2> QED  BY <1>10, <2>1, <2>2, ObserveTypes DEF TypeOK, CreateSession, RequestTypes, Locals
<1> QED  BY <1>2, <1>3, <1>5, <1>6, <1>7, <1>8, <1>9, <1>10 DEF LoginStep

\* A step that leaves the accounts, factors, tokens and sessions well typed.
LEMMA StepTypes ==
    ASSUME TypeOK, Observe, RequestTypes',
           UNCHANGED <<accountVars, sessionVars>>,
           {totp', totpOn', challenged'} \subseteq BOOLEAN, keys' \subseteq Keys,
           codes' \subseteq Ids, resets' \subseteq Ids,
           ceremonies' \subseteq [id : Ids, kind : {"authenticate", "register"}],
           ids' \in 0 .. MaxIds, doors' \in [Ids -> 0 .. 2], proof' \in {"no", "yes", "raced"}
    PROVE  TypeOK'
  BY ObserveTypes DEF TypeOK, RequestTypes, Locals

\* The second factor, its enrolment and the recovery codes.
LEMMA FactorTypes ==
    ASSUME TypeOK, Observe, NEW r \in Requests, FactorStep(r) PROVE TypeOK'
<1> USE DEF Steps, LoginSteps
<1>1. NoLocals \in Locals /\ loc[r] \in Locals
  BY SignInAssumption DEF NoLocals, Locals, Routes, None, TypeOK
<1>2. ASSUME NEW i \in Ids, ListCodes(r, i) PROVE TypeOK'
  <2>1. i \in 0 .. MaxIds
    BY SignInAssumption DEF Ids
  <2>2. [NoLocals EXCEPT !.code = i, !.via = RouteOfChallenge] \in Locals
    BY <1>1, <2>1 DEF NoLocals, Locals, RouteOfChallenge, Routes
  <2>3. RequestTypes'
    BY <1>2, <2>2, MoveTypes DEF ListCodes
  <2> QED  BY <1>2, <2>3, StepTypes DEF ListCodes, TypeOK
<1>3. ASSUME NEW c \in ceremonies, AuthenticateFinish(r, c) \/ RegisterTake(r, c) PROVE TypeOK'
  <2>1. [NoLocals EXCEPT !.via = "passkey"] \in Locals
    BY <1>1 DEF NoLocals, Locals, Routes
  <2>2. RequestTypes'
    BY <1>3, <2>1, MoveTypes DEF AuthenticateFinish, RegisterTake
  <2>3. c.id \in Ids
    BY DEF TypeOK
  <2>4. doors' \in [Ids -> 0 .. 2]
    BY <1>3, <2>3, OpenedTypes DEF AuthenticateFinish, RegisterTake, take_state
  <2> QED  BY <1>3, <2>2, <2>4, StepTypes DEF AuthenticateFinish, RegisterTake, take_state, TypeOK
<1>4. CASE VerifyTotp(r)
  <2>1. [NoLocals EXCEPT !.via = RouteOfChallenge] \in Locals
    BY <1>1 DEF NoLocals, Locals, RouteOfChallenge, Routes
  <2>2. RequestTypes'
    BY <1>4, <2>1, MoveTypes DEF VerifyTotp
  <2> QED  BY <1>4, <2>2, StepTypes DEF VerifyTotp, TypeOK
<1>5. CASE ConfirmRead(r) \/ ConfirmWrite(r) \/ RegenerateCheck(r) \/ RegisterInsert(r)
  <2>1. RequestTypes'
    BY <1>5, MoveTypes DEF ConfirmRead, ConfirmWrite, RegenerateCheck, RegisterInsert
  <2> QED  BY <1>5, <2>1, StepTypes DEF ConfirmRead, ConfirmWrite, RegenerateCheck, RegisterInsert, TypeOK
<1>6. CASE MarkCode(r)
  <2>1. CASE mark_used_wins(loc[r].code) /\ Opened(loc[r].code)
    <3>1. loc[r].code \in Ids
      BY <2>1 DEF mark_used_wins, TypeOK
    <3>2. [loc[r] EXCEPT !.code = None] \in Locals
      BY <1>1, SignInAssumption DEF Locals, None
    <3>3. RequestTypes'
      BY <1>6, <3>2, MoveTypes DEF MarkCode
    <3>4. doors' \in [Ids -> 0 .. 2]
      BY <2>1, <3>1, OpenedTypes
    <3> QED  BY <1>6, <3>3, <3>4, StepTypes DEF MarkCode, TypeOK
  <2>2. CASE Respond(r) /\ UNCHANGED <<codes, doors>>
    <3>1. RequestTypes'
      BY <2>2, MoveTypes
    <3> QED  BY <1>6, <2>2, <3>1, StepTypes DEF MarkCode, TypeOK
  <2> QED  BY <1>6, <2>1, <2>2 DEF MarkCode
<1>7. CASE ReplaceCodes(r)
  <2>1. RequestTypes'
    BY <1>7, MoveTypes DEF ReplaceCodes
  <2>2. PICK n \in Ids : Allocate(n) /\ codes' = (codes \ loc[r].gone) \cup {n}
    BY <1>7 DEF ReplaceCodes
  <2> QED  BY <1>7, <2>1, <2>2, AllocateTypes, StepTypes DEF ReplaceCodes, TypeOK
<1>8. CASE DeleteCodes(r)
  <2>1. PICK gone \in SUBSET Ids : gone = codes
    BY DEF TypeOK
  <2>2. [NoLocals EXCEPT !.gone = gone] \in Locals
    BY <1>1 DEF NoLocals, Locals
  <2>3. RequestTypes'
    BY <1>8, <2>1, <2>2, MoveTypes DEF DeleteCodes
  <2> QED  BY <1>8, <2>3, StepTypes DEF DeleteCodes, TypeOK
<1> QED  BY <1>2, <1>3, <1>4, <1>5, <1>6, <1>7, <1>8 DEF FactorStep

\* Changes and resets of the password, and what administrators do.
LEMMA OtherTypes ==
    ASSUME TypeOK, Observe, NEW r \in Requests, PasswordStep(r) \/ AdminStep(r) PROVE TypeOK'
<1> USE DEF Steps, LoginSteps
<1>1. ASSUME NEW p \in 0 .. pwd, ChangeRead(r, p) PROVE TypeOK'
  <2>1. RequestTypes'
    BY <1>1, MoveTypes DEF ChangeRead
  <2> QED  BY <1>1, <2>1, StepTypes DEF ChangeRead, TypeOK
<1>2. ASSUME NEW i \in Ids, ResetConsume(r, i) PROVE TypeOK'
  <2>1. RequestTypes'
    BY <1>2, MoveTypes DEF ResetConsume
  <2> QED  BY <1>2, <2>1, OpenedTypes, StepTypes DEF ResetConsume, TypeOK
<1>3. CASE WritePassword(r)
  <2>1. RequestTypes'
    BY <1>3, MoveTypes DEF WritePassword
  <2>2. pwd' \in 0 .. MaxPwd
    BY <1>3, SignInAssumption DEF WritePassword, TypeOK
  <2> QED  BY <1>3, <2>1, <2>2, ObserveTypes DEF WritePassword, TypeOK, RequestTypes, Locals
<1>4. CASE WipeTotp(r) \/ WipeKeys(r) \/ WipeCodes(r) \/ StepFails(r)
  <2>1. RequestTypes'
    BY <1>4, MoveTypes DEF WipeTotp, WipeKeys, WipeCodes, StepFails
  <2> QED
    BY <1>4, <2>1, StepTypes
    DEF WipeTotp, WipeKeys, WipeCodes, StepFails, set_totp_secret, Supersede, TypeOK
<1>5. CASE BanUser(r)
  <2>1. RequestTypes'
    BY <1>5, MoveTypes DEF BanUser
  <2> QED  BY <1>5, <2>1, ObserveTypes DEF BanUser, TypeOK, RequestTypes, Locals
<1>6. CASE Sweep(r)
  BY <1>6, ObserveTypes DEF Sweep, TypeOK
<1> QED  BY <1>1, <1>2, <1>3, <1>4, <1>5, <1>6 DEF PasswordStep, AdminStep

\* What happens without a handler of its own, and stuttering.
LEMMA OwnerTypes ==
    ASSUME TypeOK, Observe, OwnerStep \/ Administer PROVE TypeOK'
<1>1. ASSUME NEW kind \in {"authenticate", "register"}, StartCeremony(kind) PROVE TypeOK'
  <2>1. PICK n \in Ids : Allocate(n) /\ ceremonies' = ceremonies \cup {[id |-> n, kind |-> kind]}
    BY <1>1 DEF StartCeremony
  <2>2. RequestTypes'
    BY <1>1 DEF StartCeremony, TypeOK, RequestTypes, Locals
  <2> QED  BY <1>1, <2>1, <2>2, AllocateTypes, StepTypes DEF StartCeremony, TypeOK
<1>2. CASE TotpStart \/ TotpDisable \/ ResetRequest \/ \E k \in Keys : DeletePasskey(k)
  <2>1. RequestTypes'
    BY <1>2 DEF TotpStart, TotpDisable, ResetRequest, DeletePasskey, TypeOK, RequestTypes, Locals
  <2>2. ids' \in 0 .. MaxIds /\ resets' \subseteq Ids
    BY <1>2, AllocateTypes DEF TotpStart, TotpDisable, ResetRequest, DeletePasskey, TypeOK
  <2> QED
    BY <1>2, <2>1, <2>2, StepTypes
    DEF TotpStart, TotpDisable, ResetRequest, DeletePasskey, set_totp_secret, Supersede, TypeOK
<1>3. CASE Administer
  <2>1. ids' \in 0 .. MaxIds
    BY <1>3, AllocateTypes DEF Administer
  <2> QED  BY <1>3, <2>1, ObserveTypes DEF Administer, TypeOK
<1> QED  BY <1>1, <1>2, <1>3 DEF OwnerStep, AuthenticateStart, RegisterStart

\* Types hold initially and after every step.
LEMMA TypeInit == Init => TypeOK
<1>1. NoLocals \in Locals
  BY SignInAssumption DEF NoLocals, Locals, Routes, None
<1>2. "idle" \in Steps /\ 0 \in 0 .. MaxIds /\ 0 \in 0 .. MaxPwd
  BY SignInAssumption DEF Steps
<1> SUFFICES ASSUME Init PROVE TypeOK
  OBVIOUS
<1>3. /\ pc \in [Requests -> Steps] /\ loc \in [Requests -> Locals]
      /\ seen \in [Requests -> SUBSET Facts] /\ doors \in [Ids -> 0 .. 2]
  BY <1>1, <1>2 DEF Init
<1> QED  BY <1>2, <1>3 DEF Init, TypeOK, Locals

LEMMA TypeStep == TypeOK /\ [Next]_vars => TypeOK'
<1> SUFFICES ASSUME TypeOK, [Next]_vars PROVE TypeOK'
  OBVIOUS
<1>1. CASE UNCHANGED vars
  BY <1>1 DEF vars, TypeOK
<1> QED  BY <1>1, LoginTypes, FactorTypes, OtherTypes, OwnerTypes DEF Next, Act

\* Every column, token and request local of the sign-in handlers keeps its
\* type, whatever requests cross.
THEOREM TypeCorrect == Spec => []TypeOK
  BY TypeInit, TypeStep, PTL DEF Spec

-----------------------------------------------------------------------------
(* One-time credentials.                                                   *)

\* What is left of a step for the credentials: nothing new, or one new id.
LEMMA NothingOffered ==
    ASSUME TypeOK, CredentialsOK, UNCHANGED doors, ids' \in Nat, ids <= ids',
           codes' \subseteq codes, resets' \subseteq resets, ceremonies' \subseteq ceremonies
    PROVE  CredentialsOK'
  BY SignInAssumption DEF TypeOK, CredentialsOK, Offered, Ids

LEMMA OneOffered ==
    ASSUME TypeOK, CredentialsOK, UNCHANGED doors, NEW n \in Ids, Allocate(n), NEW kind,
           \/ codes' \subseteq codes \cup {n} /\ UNCHANGED <<resets, ceremonies>>
           \/ resets' = resets \cup {n} /\ UNCHANGED <<codes, ceremonies>>
           \/ ceremonies' = ceremonies \cup {[id |-> n, kind |-> kind]} /\ UNCHANGED <<codes, resets>>
    PROVE  CredentialsOK'
<1>1. n = ids + 1 /\ ids' = n /\ ids \in Nat /\ n \in Nat
  BY SignInAssumption DEF Allocate, TypeOK, Ids
<1>2. \A i \in Ids : Offered(i) => i <= ids
  BY DEF CredentialsOK
<1>3. codes \subseteq Ids /\ resets \subseteq Ids /\ \A c \in ceremonies : c.id \in Ids
  BY DEF TypeOK
<1>4. ~Offered(n) /\ doors[n] = 0
  BY <1>1, <1>2 DEF CredentialsOK
<1>5. \A i \in Ids : Offered(i)' => Offered(i) \/ i = n
  BY DEF Offered
<1>6. \A i \in Ids : i > ids' \/ Offered(i)' => doors'[i] = 0
  BY <1>1, <1>4, <1>5 DEF CredentialsOK, Ids
<1>7. \A i \in Ids : Offered(i)' => i <= ids'
  BY <1>1, <1>2, <1>5 DEF Ids
<1>8. n \notin codes \cup resets /\ \A c \in ceremonies : c.id # n
  BY <1>4 DEF Offered
<1>9. (codes \cap resets = {})' /\ (\A c \in ceremonies : c.id \notin codes \cup resets)'
  BY <1>8 DEF CredentialsOK
<1>10. (\A c, e \in ceremonies : c.id = e.id => c = e)'
  BY <1>8 DEF CredentialsOK
<1> QED  BY <1>6, <1>7, <1>9, <1>10 DEF CredentialsOK

\* A credential that works is taken away by the same statement.
LEMMA OneUsed ==
    ASSUME TypeOK, CredentialsOK, NEW i \in Ids, Opened(i), UNCHANGED ids,
           codes' \subseteq codes, resets' \subseteq resets, ceremonies' \subseteq ceremonies,
           Offered(i), ~Offered(i)'
    PROVE  CredentialsOK'
<1>1. doors[i] = 0 /\ i <= ids
  BY DEF CredentialsOK
<1>2. doors'[i] = 1 /\ \A j \in Ids \ {i} : doors'[j] = doors[j]
  BY <1>1 DEF Opened, TypeOK
<1>3. \A j \in Ids : Offered(j)' => Offered(j) /\ j # i
  BY DEF Offered
<1>4. ids \in Nat /\ i \in Nat
  BY SignInAssumption DEF TypeOK, Ids
<1>5. \A j \in Ids : doors'[j] <= 1
  BY <1>2 DEF CredentialsOK
<1>6. \A j \in Ids : j > ids' \/ Offered(j)' => doors'[j] = 0
  BY <1>1, <1>2, <1>3, <1>4 DEF CredentialsOK
<1>7. \A j \in Ids : Offered(j)' => j <= ids'
  BY <1>3 DEF CredentialsOK
<1> QED  BY <1>5, <1>6, <1>7 DEF CredentialsOK

LEMMA CredentialStep ==
    ASSUME TypeOK, CredentialsOK, [Next]_vars PROVE CredentialsOK'
<1>0. ids \in Nat
  BY SignInAssumption DEF TypeOK
<1>1. ASSUME NEW r \in Requests, LoginStep(r) PROVE CredentialsOK'
  <2>1. UNCHANGED <<doors, codes, resets, ceremonies, ids>>
    BY <1>1
    DEF LoginStep, LoginFind, LoginPolicy, LoginRoute, LdapLink, BanCheck, FactorCheck, CheckFails, CreateSession
  <2> QED  BY <1>0, <2>1, NothingOffered
<1>2. ASSUME NEW r \in Requests, FactorStep(r) PROVE CredentialsOK'
  <2>1. ASSUME NEW c \in ceremonies, take_state(c), UNCHANGED <<codes, resets, ids>> PROVE CredentialsOK'
    <3>1. c.id \in Ids
      BY DEF TypeOK
    <3>2. Offered(c.id) /\ ~Offered(c.id)'
      BY <2>1 DEF Offered, take_state, CredentialsOK
    <3> QED  BY <2>1, <3>1, <3>2, OneUsed DEF take_state
  <2>2. CASE MarkCode(r)
    <3>1. CASE mark_used_wins(loc[r].code) /\ codes' = codes \ {loc[r].code} /\ Opened(loc[r].code)
      <4>1. loc[r].code \in Ids
        BY <3>1 DEF mark_used_wins, TypeOK
      <4>2. Offered(loc[r].code) /\ ~(\E i \in Ids : i = loc[r].code /\ Offered(i)')
        BY <2>2, <3>1, <4>1 DEF MarkCode, mark_used_wins, Offered, CredentialsOK
      <4>3. PICK i \in Ids : i = loc[r].code
        BY <4>1
      <4> QED  BY <2>2, <3>1, <4>2, <4>3, OneUsed DEF MarkCode
    <3> QED  BY <1>0, <2>2, <3>1, NothingOffered DEF MarkCode
  <2>3. CASE ReplaceCodes(r)
    <3>1. PICK n \in Ids : Allocate(n) /\ codes' = (codes \ loc[r].gone) \cup {n}
      BY <2>3 DEF ReplaceCodes
    <3> QED  BY <2>3, <3>1, OneOffered DEF ReplaceCodes
  <2>4. CASE \/ \E i \in Ids : ListCodes(r, i)
             \/ VerifyTotp(r) \/ ConfirmRead(r) \/ RegisterInsert(r) \/ ConfirmWrite(r)
             \/ RegenerateCheck(r) \/ DeleteCodes(r)
    <3>1. UNCHANGED <<doors, codes, resets, ceremonies, ids>>
      BY <2>4 DEF ListCodes, VerifyTotp, ConfirmRead, RegisterInsert, ConfirmWrite, RegenerateCheck,
                  DeleteCodes
    <3> QED  BY <1>0, <3>1, NothingOffered
  <2> QED
    BY <1>2, <2>1, <2>2, <2>3, <2>4 DEF FactorStep, AuthenticateFinish, RegisterTake
<1>3. ASSUME NEW r \in Requests, PasswordStep(r) \/ AdminStep(r) PROVE CredentialsOK'
  <2>1. ASSUME NEW i \in Ids, ResetConsume(r, i) PROVE CredentialsOK'
    <3>1. Offered(i) /\ ~Offered(i)'
      BY <2>1 DEF ResetConsume, Offered, CredentialsOK
    <3> QED  BY <2>1, <3>1, OneUsed DEF ResetConsume
  <2>2. CASE (\E p \in 0 .. pwd : ChangeRead(r, p)) \/ WritePassword(r) \/ AdminStep(r)
    <3>1. UNCHANGED <<doors, resets, ceremonies, ids>> /\ codes' \subseteq codes
      BY <2>2
      DEF ChangeRead, WritePassword, AdminStep, WipeTotp, WipeKeys, WipeCodes, BanUser, Sweep, StepFails
    <3> QED  BY <1>0, <3>1, NothingOffered
  <2> QED  BY <1>3, <2>1, <2>2 DEF PasswordStep
<1>4. CASE OwnerStep
  <2>1. ASSUME NEW kind, StartCeremony(kind) PROVE CredentialsOK'
    <3>1. PICK n \in Ids : Allocate(n) /\ ceremonies' = ceremonies \cup {[id |-> n, kind |-> kind]}
      BY <2>1 DEF StartCeremony
    <3> QED  BY <2>1, <3>1, OneOffered DEF StartCeremony
  <2>2. CASE ResetRequest
    <3>1. PICK n \in Ids : Allocate(n) /\ resets' = resets \cup {n}
      BY <2>2 DEF ResetRequest
    <3> QED  BY <2>2, <3>1, OneOffered DEF ResetRequest
  <2>3. CASE TotpStart \/ TotpDisable \/ \E k \in Keys : DeletePasskey(k)
    <3>1. ids' \in Nat /\ ids <= ids'
      <4>1. ids' = ids \/ \E n \in Ids : Allocate(n)
        BY <2>3 DEF TotpStart, TotpDisable, DeletePasskey
      <4> QED  BY <1>0, <4>1 DEF Allocate
    <3> QED  BY <2>3, <3>1, NothingOffered DEF TotpStart, TotpDisable, DeletePasskey
  <2> QED  BY <1>4, <2>1, <2>2, <2>3 DEF OwnerStep, AuthenticateStart, RegisterStart
<1>5. CASE Administer
  <2>1. ids' \in Nat /\ ids <= ids'
    BY <1>0, <1>5 DEF Administer, Allocate, Ids
  <2> QED  BY <1>5, <2>1, NothingOffered DEF Administer
<1>6. CASE UNCHANGED vars
  BY <1>0, <1>6, NothingOffered DEF vars
<1> QED  BY <1>1, <1>2, <1>3, <1>4, <1>5, <1>6 DEF Next, Act

\* A recovery code, a reset token and a passkey ceremony each work at most
\* once, for any number of concurrent requests and whatever replaces or wipes
\* the codes: mark_used, consume and take_state remove what they accept.
THEOREM CredentialsWorkOnce == Spec => []WorksOnce
<1>1. Init => CredentialsOK
  BY SignInAssumption DEF Init, CredentialsOK, Offered, Ids
<1>2. TypeOK /\ CredentialsOK /\ [Next]_vars => CredentialsOK'
  BY CredentialStep
<1>3. CredentialsOK => WorksOnce
  BY DEF CredentialsOK, WorksOnce
<1> QED  BY <1>1, <1>2, <1>3, TypeCorrect, PTL DEF Spec

-----------------------------------------------------------------------------
(* Logins.                                                                 *)

\* A step moves the handler that takes it, and no other.
LEMMA OneMoves ==
    ASSUME TypeOK, NEW r \in Requests, LoginStep(r) \/ FactorStep(r) \/ PasswordStep(r) \/ AdminStep(r)
    PROVE  \A q \in Requests \ {r} :
             pc'[q] = pc[q] /\ loc'[q] = loc[q] /\ (q \in unchecked' <=> q \in unchecked)
<1> DEFINE Others == \A q \in Requests \ {r} :
             pc'[q] = pc[q] /\ loc'[q] = loc[q] /\ (q \in unchecked' <=> q \in unchecked)
<1>1. Respond(r) => Others
  BY DEF Respond, TypeOK
<1>2. ASSUME NEW step, NEW l, Proceed(r, step, l) PROVE Others
  BY <1>2 DEF Proceed, TypeOK
<1>3. ASSUME NEW step, Continue(r, step) PROVE Others
  BY <1>2, <1>3 DEF Continue
<1> HIDE DEF Others
<1>4. LoginStep(r) => Others
  <2>1. CheckFails(r) => Others
    BY DEF CheckFails, TypeOK, Others
  <2> QED
    BY <1>1, <1>2, <1>3, <2>1
    DEF LoginStep, LoginFind, LoginPolicy, LoginRoute, LocalPassword, LdapLink, BanCheck, FactorCheck,
        CreateSession
<1>5. FactorStep(r) => Others
  BY <1>1, <1>2, <1>3
  DEF FactorStep, ListCodes, AuthenticateFinish, RegisterTake, VerifyTotp, ConfirmRead, MarkCode,
      RegisterInsert, ConfirmWrite, RegenerateCheck, DeleteCodes, ReplaceCodes
<1>6. PasswordStep(r) => Others
  BY <1>3 DEF PasswordStep, ChangeRead, ResetConsume, WritePassword
<1>7. AdminStep(r) => Others
  <2>1. Sweep(r) => Others
    BY DEF Sweep, TypeOK, Others
  <2> QED  BY <1>1, <1>3, <2>1 DEF AdminStep, WipeTotp, WipeKeys, WipeCodes, BanUser, StepFails
<1> QED  BY <1>4, <1>5, <1>6, <1>7 DEF Others

\* What a login has seen it goes on having seen, and it sees the new state.
LEMMA SeenGrows ==
    ASSUME TypeOK, Observe, NEW q \in Requests, pc'[q] \in LoginSteps, q \notin unchecked'
    PROVE  seen'[q] = seen[q] \cup FactsFor(q)'
  BY DEF Observe

LEMMA LoginKept ==
    ASSUME TypeOK, Observe, NEW q \in Requests, LoginOK(q),
           pc'[q] = pc[q], loc'[q] = loc[q], q \in unchecked' <=> q \in unchecked
    PROVE  LoginOK(q)'
<1>1. ASSUME NEW f, Passed(q, f), pc[q] \in LoginSteps, q \notin unchecked PROVE Passed(q, f)'
  BY <1>1, SeenGrows DEF Passed
<1>2. CASE q \in unchecked \/ pc[q] \notin LoginSteps
  BY <1>2 DEF LoginOK, LoginSteps
<1>3. CASE q \notin unchecked /\ pc[q] \in LoginSteps
  BY <1>1, <1>3 DEF LoginOK
<1> QED  BY <1>2, <1>3

\* The handler itself: every check it passes it has seen to hold.
LEMMA LoginMoves ==
    ASSUME TypeOK, Observe, NEW r \in Requests, LoginOK(r), LoginStep(r)
    PROVE  LoginOK(r)'
<1>1. pc[r] \in Steps /\ loc[r] \in Locals
  BY DEF TypeOK, Locals
<1>2. ASSUME pc'[r] \in LoginSteps, r \notin unchecked'
      PROVE  /\ \A f \in seen[r] : Passed(r, f)'
             /\ loc'[r].pwd = pwd' /\ active' => Passed(r, "known")'
             /\ superadmin' \/ ~passwordOff' => Passed(r, "open")'
             /\ ~banned' => Passed(r, "unbanned")'
             /\ ~(totpOn' \/ keys' # {}) => Passed(r, "factorless")'
  BY <1>2, SeenGrows DEF Passed, FactsFor, Facts
<1>3. Respond(r) => LoginOK(r)'
  BY <1>1 DEF Respond, LoginOK, TypeOK
<1>4. ASSUME NEW p \in 0 .. pwd, LoginFind(r, p) PROVE LoginOK(r)'
  <2>1. /\ pc'[r] = "login_policy" /\ loc'[r].pwd = p
        /\ loc'[r].ok <=> p = pwd /\ active
        /\ loc'[r].glass <=> superadmin
    BY <1>4 DEF LoginFind, Proceed, TypeOK, NoLocals
  <2> QED  BY <1>2, <1>4, <2>1 DEF LoginOK, LoginFind, LoginSteps
<1>5. CASE LoginPolicy(r)
  <2>1. CASE (loc[r].glass \/ ~passwordOff) /\ Continue(r, "login_route")
    <3>1. pc[r] = "login_policy" /\ pc'[r] = "login_route" /\ loc'[r] = loc[r] /\ unchecked' = unchecked
      BY <1>5, <2>1 DEF LoginPolicy, Continue, Proceed, TypeOK
    <3> QED  BY <1>2, <1>5, <2>1, <3>1 DEF LoginOK, LoginPolicy, LoginSteps, Passed
  <2> QED  BY <1>3, <1>5, <2>1 DEF LoginPolicy
<1>6. CASE LoginRoute(r)
  <2>1. CASE loc[r].ok /\ Proceed(r, "ban_check", Verified(r))
    <3>1. pc[r] = "login_route" /\ pc'[r] = "ban_check" /\ unchecked' = unchecked
      BY <1>6, <2>1 DEF LoginRoute, Proceed, TypeOK
    <3> QED  BY <1>2, <2>1, <3>1 DEF LoginOK, LoginSteps, Passed
  <2>2. CASE Proceed(r, "ldap_link", NoLocals)
    <3>1. pc[r] = "login_route" /\ pc'[r] = "ldap_link" /\ unchecked' = unchecked
      BY <1>6, <2>2 DEF LoginRoute, Proceed, TypeOK
    <3> QED  BY <1>2, <3>1 DEF LoginOK, LoginSteps, Passed
  <2> QED  BY <1>3, <1>6, <2>1, <2>2 DEF LoginRoute, LocalPassword
<1>7. CASE LdapLink(r)
  <2>1. pc[r] = "ldap_link" /\ pc'[r] = "ban_check" /\ loc'[r].via = "ldap" /\ unchecked' = unchecked
    BY <1>7 DEF LdapLink, Proceed, TypeOK, NoLocals
  <2> QED  BY <1>2, <2>1 DEF LoginOK, LoginSteps, Passed
<1>8. CASE BanCheck(r)
  <2>1. CASE ~banned /\ Continue(r, "factor_check")
    <3>1. /\ pc[r] = "ban_check" /\ pc'[r] = "factor_check" /\ loc'[r] = loc[r] /\ unchecked' = unchecked
          /\ ~banned'
      BY <1>8, <2>1 DEF BanCheck, Continue, Proceed, TypeOK
    <3> QED  BY <1>2, <3>1 DEF LoginOK, LoginSteps, Passed
  <2> QED  BY <1>3, <1>8, <2>1 DEF BanCheck
<1>9. CASE FactorCheck(r)
  <2>1. CASE ~has_active_2fa /\ Continue(r, "session")
    <3>1. /\ pc[r] = "factor_check" /\ pc'[r] = "session" /\ loc'[r] = loc[r] /\ unchecked' = unchecked
          /\ ~(totpOn' \/ keys' # {})
      BY <1>9, <2>1 DEF FactorCheck, Continue, Proceed, TypeOK, has_active_2fa
    <3> QED  BY <1>2, <3>1 DEF LoginOK, LoginSteps, Passed
  <2> QED  BY <1>3, <1>9, <2>1 DEF FactorCheck
<1>10. CASE CheckFails(r)
  <2>1. r \in unchecked' /\ pc'[r] # "code_mark"
    BY <1>10 DEF CheckFails, TypeOK
  <2> QED  BY <2>1 DEF LoginOK
<1> QED
  BY <1>3, <1>4, <1>5, <1>6, <1>7, <1>8, <1>9, <1>10 DEF LoginStep, CreateSession

\* No other handler leads to a session under the route of a login.
LEMMA OthersMove ==
    ASSUME TypeOK, NEW r \in Requests, LoginOK(r), FactorStep(r) \/ PasswordStep(r) \/ AdminStep(r)
    PROVE  LoginOK(r)'
<1> DEFINE Fine == /\ pc'[r] \notin LoginSteps \ {"session"}
                   /\ pc'[r] \in {"session", "code_mark"} => loc'[r].via \in {"2fa", "passkey"}
                   /\ pc'[r] = "code_mark" => loc'[r].via = "2fa"
<1>1. Respond(r) => Fine
  BY DEF Respond, TypeOK, LoginSteps
<1>2. /\ Continue(r, "key_insert") => Fine
      /\ Continue(r, "confirm_write") => Fine
      /\ Continue(r, "codes_replace") => Fine
      /\ Continue(r, "pwd_write") => Fine
      /\ Continue(r, "wipe_keys") => Fine
      /\ Continue(r, "wipe_codes") => Fine
      /\ Continue(r, "sweep") => Fine
  BY DEF Continue, Proceed, TypeOK, LoginSteps
<1>3. ASSUME FactorStep(r) PROVE Fine
  <2>1. ASSUME NEW i \in Ids, ListCodes(r, i) PROVE Fine
    BY <2>1 DEF ListCodes, Proceed, TypeOK, LoginSteps, RouteOfChallenge, NoLocals
  <2>2. ASSUME NEW c \in ceremonies, AuthenticateFinish(r, c) PROVE Fine
    BY <2>2 DEF AuthenticateFinish, Proceed, TypeOK, LoginSteps, NoLocals
  <2>3. VerifyTotp(r) => Fine
    BY DEF VerifyTotp, Proceed, TypeOK, LoginSteps, RouteOfChallenge, NoLocals
  <2>4. MarkCode(r) => Fine
    BY <1>1 DEF MarkCode, Proceed, TypeOK, LoginSteps, LoginOK
  <2>5. DeleteCodes(r) => Fine
    BY DEF DeleteCodes, Proceed, TypeOK, LoginSteps
  <2> HIDE DEF Fine
  <2> QED
    BY <1>1, <1>2, <1>3, <2>1, <2>2, <2>3, <2>4, <2>5
    DEF FactorStep, RegisterTake, ConfirmRead, RegisterInsert, ConfirmWrite, RegenerateCheck, ReplaceCodes
<1>4. ASSUME PasswordStep(r) \/ AdminStep(r) PROVE Fine
  <2>1. Sweep(r) => Fine
    BY DEF Sweep, TypeOK, LoginSteps
  <2> HIDE DEF Fine
  <2> QED
    BY <1>1, <1>2, <1>4, <2>1
    DEF PasswordStep, ChangeRead, ResetConsume, WritePassword, AdminStep, WipeTotp, WipeKeys, WipeCodes,
        BanUser, StepFails
<1> QED  BY <1>3, <1>4 DEF LoginOK, LoginSteps

LEMMA LoginsStep ==
    ASSUME TypeOK, LoginsOK, [Next]_vars PROVE LoginsOK'
<1>1. ASSUME NEW r \in Requests, Observe, LoginStep(r) \/ FactorStep(r) \/ PasswordStep(r) \/ AdminStep(r)
      PROVE  LoginsOK'
  <2>1. LoginOK(r)'
    BY <1>1, LoginMoves, OthersMove DEF LoginsOK
  <2>2. ASSUME NEW q \in Requests \ {r} PROVE LoginOK(q)'
    BY <1>1, OneMoves, LoginKept DEF LoginsOK
  <2> QED  BY <2>1, <2>2 DEF LoginsOK
<1>2. CASE Observe /\ (OwnerStep \/ Administer)
  <2>1. UNCHANGED <<pc, loc, unchecked>>
    BY <1>2
    DEF OwnerStep, Administer, AuthenticateStart, RegisterStart, StartCeremony, TotpStart, TotpDisable,
        ResetRequest, DeletePasskey
  <2> QED  BY <1>2, <2>1, LoginKept DEF LoginsOK
<1>3. CASE UNCHANGED vars
  BY <1>3 DEF vars, LoginsOK, LoginOK, Passed
<1> QED  BY <1>1, <1>2, <1>3 DEF Next, Act

\* Whatever changes while a login is in flight, one that gets a session
\* without a challenge had seen, at some moment of the request, no second
\* factor, no ban, an open route and, with a password, the right one of an
\* active account; only an ignored query error of login lets it pass unseen.
THEOREM LoginsAreEntitled == Spec => []LoginWasEntitled
<1>1. Init => LoginsOK
  BY DEF Init, LoginsOK, LoginOK
<1>2. TypeOK /\ LoginsOK /\ [Next]_vars => LoginsOK'
  BY LoginsStep
<1>3. TypeOK /\ LoginsOK => LoginWasEntitled
  BY DEF TypeOK, LoginsOK, LoginOK, LoginWasEntitled, Facts, Passed
<1> QED  BY <1>1, <1>2, <1>3, TypeCorrect, PTL DEF Spec

-----------------------------------------------------------------------------
(* Passwords and sweeps.                                                   *)

\* A step of r that is no sweep and changes no password: what is due stays
\* due, and the others keep what they had.
LEMMA NoSweep ==
    ASSUME TypeOK, PasswordsOK, NEW r \in Requests, UNCHANGED pwd, pc[r] # "sweep",
           \A q \in Requests \ {r} :
             pc'[q] = pc[q] /\ loc'[q] = loc[q] /\ (q \in overtaken => q \in overtaken'),
           Trusts(r)' => \/ loc'[r].pwd = pwd
                         \/ Trusts(r) /\ loc'[r].pwd = loc[r].pwd /\ (r \in overtaken => r \in overtaken'),
           \A s \in sessions' : s \in sessions \/ (Trusts(r) /\ s.pwd = loc[r].pwd /\ (r \in overtaken => s.late))
    PROVE  PasswordsOK'
<1>1. SweepDue => SweepDue'
  BY DEF SweepDue
<1>2. \A q \in Requests \ {r} : Trusts(q)' => Trusts(q)
  BY DEF Trusts
<1>3. \A q \in Requests \ {r} : PasswordOK(q)'
  BY <1>1, <1>2 DEF PasswordsOK, PasswordOK
<1>4. PasswordOK(r)'
  BY <1>1 DEF PasswordsOK, PasswordOK
<1>5. OldPasswordNeedsOverlap'
  BY <1>1 DEF PasswordsOK, PasswordOK, OldPasswordNeedsOverlap, SweepDue
<1> QED  BY <1>3, <1>4, <1>5 DEF PasswordsOK

\* Nor do the others lose the mark of a sweep that overtook them.
LEMMA OneResponds ==
    ASSUME TypeOK, NEW r \in Requests, LoginStep(r) \/ FactorStep(r) \/ PasswordStep(r) \/ AdminStep(r)
    PROVE  Sweep(r) \/ \A q \in Requests \ {r} : q \in overtaken => q \in overtaken'
  BY DEF LoginStep, LoginFind, LoginPolicy, LoginRoute, LocalPassword, LdapLink, BanCheck, FactorCheck,
         CheckFails, CreateSession, FactorStep, ListCodes, AuthenticateFinish, RegisterTake, VerifyTotp,
         ConfirmRead, MarkCode, RegisterInsert, ConfirmWrite, RegenerateCheck, DeleteCodes, ReplaceCodes,
         PasswordStep, ChangeRead, ResetConsume, WritePassword, AdminStep, WipeTotp, WipeKeys, WipeCodes, BanUser,
         StepFails, Respond, Continue, Proceed

\* A login goes on with the password it was found with, or has none.
LEMMA LoginTrust ==
    ASSUME TypeOK, NEW r \in Requests, LoginStep(r)
    PROVE  Trusts(r)' => \/ loc'[r].pwd = pwd
                         \/ Trusts(r) /\ loc'[r].pwd = loc[r].pwd /\ (r \in overtaken => r \in overtaken')
<1> DEFINE Goes == Trusts(r)' => \/ loc'[r].pwd = pwd
                                 \/ Trusts(r) /\ loc'[r].pwd = loc[r].pwd /\ (r \in overtaken => r \in overtaken')
<1>1. Respond(r) => Goes
  BY DEF Respond, Trusts, TypeOK
<1>2. ASSUME NEW p \in 0 .. pwd, LoginFind(r, p) PROVE Goes
  BY <1>2 DEF LoginFind, Proceed, Trusts, TypeOK, NoLocals
<1>3. LoginPolicy(r) \/ BanCheck(r) \/ FactorCheck(r) => Goes
  BY <1>1 DEF LoginPolicy, BanCheck, FactorCheck, Continue, Proceed, Trusts, TypeOK
<1>4. LoginRoute(r) => Goes
  BY <1>1 DEF LoginRoute, LocalPassword, Proceed, Trusts, TypeOK, Verified, NoLocals
<1>5. LdapLink(r) => Goes
  BY DEF LdapLink, Proceed, Trusts, TypeOK, NoLocals
<1>6. CheckFails(r) => Goes
  BY DEF CheckFails, Trusts, TypeOK, Verified, NoLocals
<1> HIDE DEF Goes
<1>7. Goes
  BY <1>1, <1>2, <1>3, <1>4, <1>5, <1>6 DEF LoginStep, CreateSession
<1> QED  BY <1>7 DEF Goes

\* No other handler has checked a password for its session.
LEMMA NoTrust ==
    ASSUME TypeOK, NEW r \in Requests, LoginOK(r), FactorStep(r) \/ PasswordStep(r) \/ AdminStep(r)
    PROVE  ~Trusts(r)'
<1>1. Respond(r) => ~Trusts(r)'
  BY DEF Respond, Trusts, TypeOK
<1>2. /\ Continue(r, "key_insert") => ~Trusts(r)'
      /\ Continue(r, "confirm_write") => ~Trusts(r)'
      /\ Continue(r, "codes_replace") => ~Trusts(r)'
      /\ Continue(r, "pwd_write") => ~Trusts(r)'
      /\ Continue(r, "wipe_keys") => ~Trusts(r)'
      /\ Continue(r, "wipe_codes") => ~Trusts(r)'
      /\ Continue(r, "sweep") => ~Trusts(r)'
  BY DEF Continue, Proceed, TypeOK, Trusts
<1>3. ASSUME NEW i \in Ids, ListCodes(r, i) PROVE ~Trusts(r)'
  BY <1>3 DEF ListCodes, Proceed, TypeOK, Trusts
<1>4. ASSUME NEW c \in ceremonies, AuthenticateFinish(r, c) PROVE ~Trusts(r)'
  BY <1>4 DEF AuthenticateFinish, Proceed, TypeOK, Trusts, NoLocals
<1>5. VerifyTotp(r) \/ MarkCode(r) => ~Trusts(r)'
  BY <1>1 DEF VerifyTotp, MarkCode, Proceed, TypeOK, Trusts, NoLocals, RouteOfChallenge, LoginOK
<1>6. Sweep(r) \/ DeleteCodes(r) => ~Trusts(r)'
  BY DEF Sweep, DeleteCodes, Proceed, TypeOK, Trusts
<1>7. FactorStep(r) => ~Trusts(r)'
  BY <1>1, <1>2, <1>3, <1>4, <1>5, <1>6
  DEF FactorStep, RegisterTake, ConfirmRead, RegisterInsert, ConfirmWrite, RegenerateCheck, ReplaceCodes
<1>8. PasswordStep(r) \/ AdminStep(r) => ~Trusts(r)'
  BY <1>1, <1>2, <1>6
  DEF PasswordStep, ChangeRead, ResetConsume, WritePassword, AdminStep, WipeTotp, WipeKeys, WipeCodes,
      BanUser, StepFails
<1> QED  BY <1>7, <1>8

LEMMA PasswordsStep ==
    ASSUME TypeOK, LoginsOK, PasswordsOK, [Next]_vars PROVE PasswordsOK'
<1>1. ASSUME NEW r \in Requests, LoginStep(r) PROVE PasswordsOK'
  <2>1. UNCHANGED pwd /\ pc[r] # "sweep"
    BY <1>1
    DEF LoginStep, LoginFind, LoginPolicy, LoginRoute, LdapLink, BanCheck, FactorCheck, CheckFails, CreateSession
  <2>2. \A q \in Requests \ {r} :
          pc'[q] = pc[q] /\ loc'[q] = loc[q] /\ (q \in overtaken => q \in overtaken')
    BY <1>1, <2>1, OneMoves, OneResponds DEF Sweep
  <2>3. \A s \in sessions' : s \in sessions \/ (Trusts(r) /\ s.pwd = loc[r].pwd /\ (r \in overtaken => s.late))
    <3>1. CASE CreateSession(r)
      <4>1. PICK late \in BOOLEAN : late = (r \in overtaken)
        <5>1. (r \in overtaken) \in BOOLEAN
          OBVIOUS
        <5> QED  BY <5>1, Zenon
      <4>2. sessions' # sessions => /\ loc[r].via = "password"
                                    /\ sessions' = sessions \cup {[pwd |-> loc[r].pwd, late |-> late]}
        <5>1. sessions' = IF loc[r].via = "password"
                          THEN sessions \cup {[pwd |-> loc[r].pwd, late |-> late]} ELSE sessions
          BY <3>1, <4>1, Zenon DEF CreateSession
        <5> QED  BY <5>1
      <4>3. r \in overtaken => late
        BY <4>1, Zenon
      <4>4. pc[r] = "session"
        BY <3>1 DEF CreateSession
      <4> QED  BY <4>2, <4>3, <4>4 DEF Trusts
    <3>2. CASE ~CreateSession(r)
      <4>1. UNCHANGED sessions
        BY <1>1, <3>2
        DEF LoginStep, LoginFind, LoginPolicy, LoginRoute, LdapLink, BanCheck, FactorCheck, CheckFails
      <4> QED  BY <4>1
    <3> QED  BY <3>1, <3>2
  <2> QED  BY <1>1, <2>1, <2>2, <2>3, LoginTrust, NoSweep
<1>2. ASSUME NEW r \in Requests, FactorStep(r) \/ PasswordStep(r) \/ AdminStep(r) PROVE PasswordsOK'
  <2>1. ~Trusts(r)'
    BY <1>2, NoTrust DEF LoginsOK
  <2>2. \A q \in Requests \ {r} : pc'[q] = pc[q] /\ loc'[q] = loc[q]
    BY <1>2, OneMoves
  <2>3. CASE Sweep(r)
    <3>1. sessions' = {} /\ \A q \in Requests : pc[q] \in LoginSteps => q \in overtaken'
      BY <2>3 DEF Sweep
    <3>2. \A q \in Requests \ {r} : Trusts(q)' => pc[q] \in LoginSteps
      BY <2>2 DEF Trusts, LoginSteps
    <3> QED  BY <2>1, <3>1, <3>2 DEF PasswordsOK, PasswordOK, OldPasswordNeedsOverlap
  <2>4. CASE WritePassword(r)
    <3>1. SweepDue'
      BY <2>4 DEF WritePassword, Continue, Proceed, TypeOK, SweepDue
    <3> QED  BY <3>1 DEF PasswordsOK, PasswordOK, OldPasswordNeedsOverlap, SweepDue
  <2>5. CASE ~Sweep(r) /\ ~WritePassword(r)
    <3>1. UNCHANGED <<pwd, sessions>> /\ pc[r] # "sweep"
      BY <1>2, <2>5
      DEF FactorStep, ListCodes, AuthenticateFinish, RegisterTake, VerifyTotp, ConfirmRead, MarkCode,
          RegisterInsert, ConfirmWrite, RegenerateCheck, DeleteCodes, ReplaceCodes, PasswordStep, ChangeRead,
          ResetConsume, AdminStep, WipeTotp, WipeKeys, WipeCodes, BanUser, StepFails
    <3>2. \A q \in Requests \ {r} :
            pc'[q] = pc[q] /\ loc'[q] = loc[q] /\ (q \in overtaken => q \in overtaken')
      BY <1>2, <2>2, <2>5, OneResponds
    <3>3. \A s \in sessions' : s \in sessions
      BY <3>1
    <3> QED  BY <2>1, <3>1, <3>2, <3>3, NoSweep
  <2> QED  BY <2>3, <2>4, <2>5
<1>3. CASE OwnerStep \/ Administer \/ UNCHANGED vars
  <2>1. UNCHANGED <<pc, loc, overtaken, pwd, sessions>>
    BY <1>3
    DEF OwnerStep, Administer, AuthenticateStart, RegisterStart, StartCeremony, TotpStart, TotpDisable,
        ResetRequest, DeletePasskey, vars
  <2> QED
    BY <2>1 DEF PasswordsOK, PasswordOK, OldPasswordNeedsOverlap, Trusts, SweepDue
<1> QED  BY <1>1, <1>2, <1>3 DEF Next, Act

\* Once the sweep of a password change or reset has run, the only sessions of
\* an older password are those of logins that had passed their check before it
\* and created their session after it.
THEOREM OldPasswordsNeedOverlap == Spec => []OldPasswordNeedsOverlap
<1>1. Init => LoginsOK /\ PasswordsOK
  BY DEF Init, LoginsOK, LoginOK, PasswordsOK, PasswordOK, OldPasswordNeedsOverlap, Trusts
<1>2. TypeOK /\ LoginsOK /\ PasswordsOK /\ [Next]_vars => LoginsOK' /\ PasswordsOK'
  BY LoginsStep, PasswordsStep
<1>3. PasswordsOK => OldPasswordNeedsOverlap
  BY DEF PasswordsOK
<1> QED  BY <1>1, <1>2, <1>3, TypeCorrect, PTL DEF Spec

-----------------------------------------------------------------------------
(* The confirmed secret.                                                   *)

LEMMA ConfirmStep ==
    ASSUME TypeOK, ConfirmOK, [Next]_vars PROVE ConfirmOK'
<1> DEFINE Confirming == \E q \in Requests : pc[q] = "confirm_write"
<1>1. ASSUME NEW r \in Requests, ConfirmRead(r) PROVE ConfirmOK'
  BY <1>1 DEF ConfirmRead, ConfirmOK, UnprovenFactorNeedsOverlap
<1>2. ASSUME NEW r \in Requests, ConfirmWrite(r) PROVE ConfirmOK'
  BY <1>2 DEF ConfirmWrite, ConfirmOK, UnprovenFactorNeedsOverlap
<1>3. ASSUME NEW some, set_totp_secret(some), Supersede, Confirming' => Confirming PROVE ConfirmOK'
  BY <1>3 DEF set_totp_secret, Supersede, ConfirmOK, UnprovenFactorNeedsOverlap
<1>4. ASSUME UNCHANGED <<totpOn, proof>>, Confirming' => Confirming PROVE ConfirmOK'
  BY <1>4 DEF ConfirmOK, UnprovenFactorNeedsOverlap
<1>5. ASSUME NEW r \in Requests, LoginStep(r) \/ FactorStep(r) \/ PasswordStep(r) \/ AdminStep(r),
             pc'[r] # "confirm_write"
      PROVE  Confirming' => Confirming
  BY <1>5, OneMoves
<1> HIDE DEF Confirming
<1>6. ASSUME NEW r \in Requests, LoginStep(r) PROVE ConfirmOK'
  <2>1. UNCHANGED <<totpOn, proof>>
    BY <1>6
    DEF LoginStep, LoginFind, LoginPolicy, LoginRoute, LdapLink, BanCheck, FactorCheck, CheckFails, CreateSession
  <2>2. pc'[r] # "confirm_write"
    BY <1>6
    DEF LoginStep, LoginFind, LoginPolicy, LoginRoute, LocalPassword, LdapLink, BanCheck, FactorCheck,
        CheckFails, CreateSession, Respond, Continue, Proceed, TypeOK
  <2> QED  BY <1>4, <1>5, <1>6, <2>1, <2>2
<1>7. ASSUME NEW r \in Requests, FactorStep(r) PROVE ConfirmOK'
  <2>1. CASE ~ConfirmRead(r) /\ ~ConfirmWrite(r)
    <3>1. UNCHANGED <<totpOn, proof>>
      BY <1>7, <2>1
      DEF FactorStep, ListCodes, AuthenticateFinish, RegisterTake, VerifyTotp, MarkCode, RegisterInsert,
          RegenerateCheck, DeleteCodes, ReplaceCodes
    <3>2. pc'[r] # "confirm_write"
      BY <1>7, <2>1
      DEF FactorStep, ListCodes, AuthenticateFinish, RegisterTake, VerifyTotp, MarkCode, RegisterInsert,
          RegenerateCheck, DeleteCodes, ReplaceCodes, Respond, Continue, Proceed, TypeOK
    <3> QED  BY <1>4, <1>5, <1>7, <3>1, <3>2
  <2> QED  BY <1>1, <1>2, <2>1
<1>8. ASSUME NEW r \in Requests, PasswordStep(r) \/ AdminStep(r) PROVE ConfirmOK'
  <2>1. pc'[r] # "confirm_write"
    BY <1>8
    DEF PasswordStep, ChangeRead, ResetConsume, WritePassword, AdminStep, WipeTotp, WipeKeys, WipeCodes,
        BanUser, Sweep, StepFails, Respond, Continue, Proceed, TypeOK
  <2>2. CASE WipeTotp(r)
    BY <1>3, <1>5, <1>8, <2>1, <2>2 DEF WipeTotp
  <2>3. CASE ~WipeTotp(r)
    <3>1. UNCHANGED <<totpOn, proof>>
      BY <1>8, <2>3
      DEF PasswordStep, ChangeRead, ResetConsume, WritePassword, AdminStep, WipeKeys, WipeCodes, BanUser,
          Sweep, StepFails
    <3> QED  BY <1>4, <1>5, <1>8, <2>1, <3>1
  <2> QED  BY <2>2, <2>3
<1>9. CASE OwnerStep \/ Administer \/ UNCHANGED vars
  <2>1. Confirming' => Confirming
    BY <1>9
    DEF OwnerStep, Administer, AuthenticateStart, RegisterStart, StartCeremony, TotpStart, TotpDisable,
        ResetRequest, DeletePasskey, vars, Confirming
  <2>2. CASE TotpStart \/ TotpDisable
    BY <1>3, <2>1, <2>2 DEF TotpStart, TotpDisable
  <2>3. CASE ~TotpStart /\ ~TotpDisable
    <3>1. UNCHANGED <<totpOn, proof>>
      BY <1>9, <2>3
      DEF OwnerStep, Administer, AuthenticateStart, RegisterStart, StartCeremony, ResetRequest, DeletePasskey, vars
    <3> QED  BY <1>4, <2>1, <3>1
  <2> QED  BY <2>2, <2>3
<1> QED  BY <1>6, <1>7, <1>8, <1>9 DEF Next, Act

\* A secret counts as a second factor only after its owner has shown a code
\* of it, unless totp_start, totp_disable or reset_two_factor came between the
\* two statements of a totp_confirm.
THEOREM UnprovenFactorsNeedOverlap == Spec => []UnprovenFactorNeedsOverlap
<1>1. Init => ConfirmOK
  BY DEF Init, ConfirmOK, UnprovenFactorNeedsOverlap
<1>2. TypeOK /\ ConfirmOK /\ [Next]_vars => ConfirmOK'
  BY ConfirmStep
<1>3. ConfirmOK => UnprovenFactorNeedsOverlap
  BY DEF ConfirmOK
<1> QED  BY <1>1, <1>2, <1>3, TypeCorrect, PTL DEF Spec

=============================================================================
