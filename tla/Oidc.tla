-------------------------------- MODULE Oidc --------------------------------
(***************************************************************************)
(* The ways an account comes to be and is signed in without a password:    *)
(* one OpenID Connect provider with its redirect and device flows, the     *)
(* identities bound to accounts, the admin's armed link, and registration  *)
(* with platform invitations.                                              *)
(*                                                                         *)
(* Source: crates/api/src/oidc (handlers.rs, resolve.rs), admin/oidc.rs,   *)
(* auth/handlers.rs (register) and crates/db (oidc_requests.rs,            *)
(* oidc_identities.rs, oidc_providers.rs, platform_invitations.rs).        *)
(*                                                                         *)
(* Every statement of a handler is a step of its own; a handler may stop   *)
(* at any of them (Fails: the identity provider refuses, a statement       *)
(* errs, a limit is met).  An account stands for its unique email.         *)
(* Signing, nonces and PKCE are the identity provider's business.          *)
(***************************************************************************)
EXTENDS Integers, FiniteSets

CONSTANTS
    Accounts,       \* emails, each of at most one account
    Subjects,       \* people as the identity provider knows them
    EmailOf,        \* the verified email a subject presents
    Tickets,        \* pending redirects, device logins and invitations
    Doors,          \* handlers in flight
    NoOne,
    MaxVisits       \* bound on handlers and administration, for TLC

ASSUME OidcAssumption ==
    /\ EmailOf \in [Subjects -> Accounts]
    /\ NoOne \notin Accounts \cup Subjects \cup Tickets /\ MaxVisits \in Nat

VARIABLES
    site,       \* [st, jit, open]: the provider, provisioning, open registration
    account,    \* email -> [there, password, usable, armed]
    ident,      \* subject -> the account it is bound to, or NoOne
    ticket,     \* ticket -> [st, kind, link]
    door,       \* handler -> [pc, ticket, subject, acct]
    session,    \* accounts with a live session
    visits,
    granted,    \* history: ticket -> the accounts it acted on
    outrun,  \* history: unlink handlers whose count has changed since
    excused     \* history: accounts that lost their way in past the guard

oidcVars == <<site, account, ident, ticket, door, session, visits, granted, outrun, excused>>

NoDoor == [pc |-> "idle", ticket |-> NoOne, subject |-> NoOne, acct |-> NoOne]
NoAccount == [there |-> FALSE, password |-> FALSE, usable |-> FALSE, armed |-> FALSE]

Identities(a) == {s \in Subjects : ident[s] = a}

\* An account with a password, or one provisioned and bound to its subjects,
\* signed in or not (SignIn has the other ways).
OidcInit ==
    /\ site \in [st : {"on"}, jit : {TRUE}, open : {FALSE}]
    /\ \E a \in Accounts, S \in SUBSET Subjects :
         /\ account = [x \in Accounts |-> IF x = a
                        THEN [there |-> TRUE, password |-> S = {}, usable |-> TRUE, armed |-> FALSE]
                        ELSE NoAccount]
         /\ ident = [s \in Subjects |-> IF s \in S THEN a ELSE NoOne]
         /\ session \in {{}, {a}}
    /\ ticket = [t \in Tickets |-> [st |-> "none", kind |-> "code", link |-> NoOne]]
    /\ door = [d \in Doors |-> NoDoor]
    /\ visits = 0
    /\ granted = [t \in Tickets |-> {}] /\ outrun = {} /\ excused = {}

Visit == visits < MaxVisits /\ visits' = visits + 1

Go(d, pc) == door' = [door EXCEPT ![d].pc = pc]
Leave(d) == door' = [door EXCEPT ![d] = NoDoor]
GrantTo(d) == granted' = [granted EXCEPT ![door[d].ticket] = @ \cup {door[d].acct}]

-----------------------------------------------------------------------------
(* Tickets.                                                                *)

\* start and link_start: the redirect's state is stored.
start(t, a) ==
    /\ Visit /\ ticket[t].st = "none" /\ site.st = "on"
    /\ a \in session \cup {NoOne}
    /\ ticket' = [ticket EXCEPT ![t] = [st |-> "open", kind |-> "code", link |-> a]]
    /\ UNCHANGED <<site, account, ident, door, session, granted, outrun, excused>>

device_start(t, a) ==
    /\ Visit /\ ticket[t].st = "none" /\ site.st = "on"
    /\ a \in session \cup {NoOne}
    /\ ticket' = [ticket EXCEPT ![t] = [st |-> "open", kind |-> "device", link |-> a]]
    /\ UNCHANGED <<site, account, ident, door, session, granted, outrun, excused>>

create_invitation(t, a) ==
    /\ Visit /\ ticket[t].st = "none" /\ ~account[a].there
    /\ ticket' = [ticket EXCEPT ![t] = [st |-> "open", kind |-> "invite", link |-> a]]
    /\ UNCHANGED <<site, account, ident, door, session, granted, outrun, excused>>

DropTicket(t) == ticket' = [ticket EXCEPT ![t].st = IF @ = "open" THEN "gone" ELSE @]

\* purge_expired and the expiry tests of the lookups.
ticket_expires(t) ==
    /\ ticket[t].st = "open" /\ DropTicket(t)
    /\ UNCHANGED <<site, account, ident, door, session, visits, granted, outrun, excused>>

revoke_invitation(t) ==
    /\ Visit /\ ticket[t].st = "open" /\ ticket[t].kind = "invite" /\ DropTicket(t)
    /\ UNCHANGED <<site, account, ident, door, session, granted, outrun, excused>>

-----------------------------------------------------------------------------
(* The redirect flow.                                                      *)

\* DELETE ... RETURNING: the request is spent whatever follows.
take_auth_request(t) ==
    /\ ticket[t].st = "open" /\ ticket[t].kind = "code"
    /\ ticket' = [ticket EXCEPT ![t].st = "taken"]

callback(d, t) ==
    /\ Visit /\ door[d] = NoDoor
    /\ take_auth_request(t)
    /\ door' = [door EXCEPT ![d] = [NoDoor EXCEPT !.pc = "exchange", !.ticket = t, !.acct = ticket[t].link]]
    /\ UNCHANGED <<site, account, ident, session, granted, outrun, excused>>

AfterProof(t) == IF ticket[t].link = NoOne THEN "lookup" ELSE "link"

\* The provider is asked for only now: it may have been disabled meanwhile.
exchange(d, s) ==
    /\ door[d].pc = "exchange" /\ site.st = "on"
    /\ door' = [door EXCEPT ![d].pc = AfterProof(door[d].ticket), ![d].subject = s]
    /\ UNCHANGED <<site, account, ident, ticket, session, visits, granted, outrun, excused>>

-----------------------------------------------------------------------------
(* The device flow.                                                        *)

find_device_request(t) == ticket[t].st = "open" /\ ticket[t].kind = "device"

\* Reads the request, stamps the poll and asks the provider.
device_poll(d, t) ==
    /\ Visit /\ door[d] = NoDoor
    /\ find_device_request(t)
    /\ door' = [door EXCEPT ![d] = [NoDoor EXCEPT !.pc = "poll", !.ticket = t, !.acct = ticket[t].link]]
    /\ UNCHANGED <<site, account, ident, ticket, session, granted, outrun, excused>>

\* The person declined, or the provider is disabled: the request is dropped.
poll_rejected(d) ==
    /\ door[d].pc = "poll" /\ site.st # "deleted"
    /\ DropTicket(door[d].ticket) /\ Leave(d)
    /\ UNCHANGED <<site, account, ident, session, visits, granted, outrun, excused>>

poll_approved(d, s) ==
    /\ door[d].pc = "poll" /\ site.st = "on"
    /\ door' = [door EXCEPT ![d].pc = "consume", ![d].subject = s]
    /\ UNCHANGED <<site, account, ident, ticket, session, visits, granted, outrun, excused>>

\* Mutant: the row is marked without asking whether it still was to be had.
ConsumeBlindly(d) ==
    /\ ticket' = [ticket EXCEPT ![door[d].ticket].st = "taken"]
    /\ Go(d, AfterProof(door[d].ticket))

\* UPDATE ... WHERE consumed_at IS NULL: one poll wins, the others leave.
consume_device_request(d) ==
    \/ /\ ticket[door[d].ticket].st = "open"
       /\ ticket' = [ticket EXCEPT ![door[d].ticket].st = "taken"]
       /\ Go(d, AfterProof(door[d].ticket))
    \/ ticket[door[d].ticket].st # "open" /\ Leave(d) /\ UNCHANGED ticket

Consume(d) ==
    /\ door[d].pc = "consume"
    /\ consume_device_request(d)
    /\ UNCHANGED <<site, account, ident, session, visits, granted, outrun, excused>>

-----------------------------------------------------------------------------
(* Who a subject is.                                                       *)

\* resolve_login: the subject, then an armed account of that email, then a
\* refusal of an email that is taken, then provisioning.
resolve_login(d) ==
    LET s == door[d].subject
        a == EmailOf[s]
    IN  /\ door[d].pc = "lookup"
        /\ \/ /\ ident[s] # NoOne
              /\ door' = [door EXCEPT ![d].pc = "usable", ![d].acct = ident[s]]
           \/ /\ ident[s] = NoOne /\ account[a].there /\ account[a].armed
              /\ door' = [door EXCEPT ![d].pc = "link_armed", ![d].acct = a]
           \/ /\ ident[s] = NoOne /\ account[a].there /\ ~account[a].armed
              /\ Leave(d)
           \/ /\ ident[s] = NoOne /\ ~account[a].there /\ site.jit
              /\ door' = [door EXCEPT ![d].pc = "provision", ![d].acct = a]
        /\ UNCHANGED <<site, account, ident, ticket, session, visits, granted, outrun, excused>>

provision_oidc_user(d) ==
    /\ door[d].pc = "provision" /\ ~account[door[d].acct].there
    /\ account' = [account EXCEPT ![door[d].acct] = [NoAccount EXCEPT !.there = TRUE, !.usable = TRUE]]
    /\ Go(d, "link_new")
    /\ UNCHANGED <<site, ident, ticket, session, visits, granted, outrun, excused>>

\* link_subject: a subject has one account; the provider's row must be there.
link_subject(d) ==
    /\ door[d].pc \in {"link", "link_armed", "link_new"}
    /\ ident[door[d].subject] = NoOne /\ site.st # "deleted"
    /\ ident' = [ident EXCEPT ![door[d].subject] = door[d].acct]
    /\ \/ door[d].pc = "link" /\ GrantTo(d) /\ Leave(d)
       \/ door[d].pc = "link_armed" /\ Go(d, "disarm") /\ UNCHANGED granted
       \/ door[d].pc = "link_new" /\ Go(d, "usable") /\ UNCHANGED granted
    /\ UNCHANGED <<site, account, ticket, session, visits, outrun, excused>>

\* A failure to close the window is only logged.
close_link_window(d, closed) ==
    /\ door[d].pc = "disarm"
    /\ account' = [account EXCEPT ![door[d].acct].armed = @ /\ ~closed]
    /\ Go(d, "usable")
    /\ UNCHANGED <<site, ident, ticket, session, visits, granted, outrun, excused>>

check_account_usable(d) ==
    /\ door[d].pc = "usable"
    /\ IF account[door[d].acct].usable THEN Go(d, "session") ELSE Leave(d)
    /\ UNCHANGED <<site, account, ident, ticket, session, visits, granted, outrun, excused>>

\* sync_superadmin is in SuperadminGuard, the session row in RefreshSessions.
establish_session(d) ==
    /\ door[d].pc = "session"
    /\ session' = session \cup {door[d].acct}
    /\ GrantTo(d) /\ Leave(d)
    /\ UNCHANGED <<site, account, ident, ticket, visits, outrun, excused>>

\* A handler stops.  A provisioned account it has not bound stays behind.
Fails(d) ==
    /\ door[d].pc # "idle"
    /\ excused' = IF door[d].pc = "link_new" THEN excused \cup {door[d].acct} ELSE excused
    /\ outrun' = outrun \ {d}
    /\ Leave(d)
    /\ UNCHANGED <<site, account, ident, ticket, session, visits, granted>>

-----------------------------------------------------------------------------
(* Identities of one's own account, and the provider's logout.             *)

\* Mutant: the last identity may go.
CountWithSlack(a) == Cardinality(Identities(a)) + 1

count_for_user(a) == Cardinality(Identities(a))

unlink_identity(d, a, s) ==
    /\ Visit /\ door[d] = NoDoor /\ a \in session
    /\ account[a].password \/ count_for_user(a) > 1
    /\ door' = [door EXCEPT ![d] = [NoDoor EXCEPT !.pc = "unlink", !.subject = s, !.acct = a]]
    /\ UNCHANGED <<site, account, ident, ticket, session, granted, outrun, excused>>

unlink(d) ==
    LET a == door[d].acct
    IN  /\ door[d].pc = "unlink" /\ ident[door[d].subject] = a
        /\ ident' = [ident EXCEPT ![door[d].subject] = NoOne]
        /\ excused' = IF d \in outrun THEN excused \cup {a} ELSE excused
        /\ outrun' = (outrun \ {d}) \cup
                        {e \in Doors \ {d} : door[e].pc = "unlink" /\ door[e].acct = a}
        /\ Leave(d)
        /\ UNCHANGED <<site, account, ticket, session, visits, granted>>

backchannel_logout(s) ==
    /\ Visit /\ site.st = "on"
    /\ session' = session \ {ident[s]}
    /\ UNCHANGED <<site, account, ident, ticket, door, granted, outrun, excused>>

-----------------------------------------------------------------------------
(* Registration.                                                           *)

\* find_pending, for the email the form gives.
register_invited(d, t) ==
    /\ Visit /\ door[d] = NoDoor /\ ~site.open
    /\ ticket[t].st = "open" /\ ticket[t].kind = "invite"
    /\ door' = [door EXCEPT ![d] = [NoDoor EXCEPT !.pc = "accept", !.ticket = t, !.acct = ticket[t].link]]
    /\ UNCHANGED <<site, account, ident, ticket, session, granted, outrun, excused>>

register_open(d, a) ==
    /\ Visit /\ door[d] = NoDoor /\ site.open
    /\ door' = [door EXCEPT ![d] = [NoDoor EXCEPT !.pc = "create", !.acct = a]]
    /\ UNCHANGED <<site, account, ident, ticket, session, granted, outrun, excused>>

mark_accepted_platform(d) ==
    /\ door[d].pc = "accept" /\ ticket[door[d].ticket].st = "open"
    /\ ticket' = [ticket EXCEPT ![door[d].ticket].st = "taken"]
    /\ Go(d, "create")
    /\ UNCHANGED <<site, account, ident, session, visits, granted, outrun, excused>>

\* The invitation is spent before the account is made: a clash burns it.
create_with_flags(d) ==
    /\ door[d].pc = "create" /\ ~account[door[d].acct].there
    /\ account' = [account EXCEPT ![door[d].acct] =
                     [NoAccount EXCEPT !.there = TRUE, !.usable = TRUE, !.password = TRUE]]
    /\ IF door[d].ticket = NoOne THEN UNCHANGED granted ELSE GrantTo(d)
    /\ Leave(d)
    /\ UNCHANGED <<site, ident, ticket, session, visits, outrun, excused>>

-----------------------------------------------------------------------------
(* Administration.                                                         *)

\* arm_link, disarm_link.
set_link_arm(a, arm) ==
    /\ Visit /\ account[a].there
    /\ account' = [account EXCEPT ![a].armed = arm]
    /\ UNCHANGED <<site, ident, ticket, door, session, granted, outrun, excused>>

update_provider(on, jit) ==
    /\ Visit /\ site.st # "deleted"
    /\ site' = [site EXCEPT !.st = IF on THEN "on" ELSE "off", !.jit = jit]
    /\ UNCHANGED <<account, ident, ticket, door, session, granted, outrun, excused>>

update_settings(open) ==
    /\ Visit /\ site' = [site EXCEPT !.open = open]
    /\ UNCHANGED <<account, ident, ticket, door, session, granted, outrun, excused>>

\* The rows of the provider go with it: identities and pending requests.
delete_provider ==
    /\ Visit /\ site.st # "deleted"
    /\ site' = [site EXCEPT !.st = "deleted"]
    /\ ident' = [s \in Subjects |-> NoOne]
    /\ ticket' = [t \in Tickets |-> IF ticket[t].kind # "invite" /\ ticket[t].st = "open"
                                    THEN [ticket[t] EXCEPT !.st = "gone"] ELSE ticket[t]]
    /\ excused' = excused \cup {a \in Accounts : Identities(a) # {}}
    /\ UNCHANGED <<account, door, session, granted, outrun>>

\* set_active of the administration: banned or deactivated.
deactivate(a) ==
    /\ Visit /\ account[a].there
    /\ account' = [account EXCEPT ![a].usable = FALSE]
    /\ session' = session \ {a}
    /\ UNCHANGED <<site, ident, ticket, door, granted, outrun, excused>>

-----------------------------------------------------------------------------
OidcNext ==
    \/ \E t \in Tickets, a \in Accounts \cup {NoOne} : start(t, a) \/ device_start(t, a)
    \/ \E t \in Tickets, a \in Accounts : create_invitation(t, a)
    \/ \E t \in Tickets : ticket_expires(t) \/ revoke_invitation(t)
    \/ \E d \in Doors, t \in Tickets : callback(d, t) \/ device_poll(d, t) \/ register_invited(d, t)
    \/ \E d \in Doors, s \in Subjects : exchange(d, s) \/ poll_approved(d, s)
    \/ \E d \in Doors :
         \/ poll_rejected(d) \/ Consume(d) \/ resolve_login(d) \/ provision_oidc_user(d)
         \/ link_subject(d) \/ check_account_usable(d) \/ establish_session(d) \/ Fails(d)
         \/ unlink(d) \/ mark_accepted_platform(d) \/ create_with_flags(d)
         \/ \E closed \in BOOLEAN : close_link_window(d, closed)
    \/ \E d \in Doors, a \in Accounts, s \in Subjects : unlink_identity(d, a, s)
    \/ \E d \in Doors, a \in Accounts : register_open(d, a)
    \/ \E s \in Subjects : backchannel_logout(s)
    \/ \E a \in Accounts : deactivate(a) \/ \E arm \in BOOLEAN : set_link_arm(a, arm)
    \/ \E on, jit \in BOOLEAN : update_provider(on, jit)
    \/ \E open \in BOOLEAN : update_settings(open)
    \/ delete_provider

OidcSpec == OidcInit /\ [][OidcNext]_oidcVars

-----------------------------------------------------------------------------
OidcTypeOK ==
    /\ site \in [st : {"on", "off", "deleted"}, jit : BOOLEAN, open : BOOLEAN]
    /\ account \in [Accounts -> [there : BOOLEAN, password : BOOLEAN, usable : BOOLEAN, armed : BOOLEAN]]
    /\ ident \in [Subjects -> Accounts \cup {NoOne}]
    /\ ticket \in [Tickets -> [st : {"none", "open", "taken", "gone"}, kind : {"code", "device", "invite"},
                               link : Accounts \cup {NoOne}]]
    /\ door \in [Doors -> [pc : {"idle", "exchange", "poll", "consume", "lookup", "link", "link_armed",
                                 "link_new", "provision", "disarm", "usable", "session", "unlink",
                                 "accept", "create"},
                           ticket : Tickets \cup {NoOne}, subject : Subjects \cup {NoOne},
                           acct : Accounts \cup {NoOne}]]
    /\ session \subseteq Accounts /\ visits \in 0 .. MaxVisits
    /\ granted \in [Tickets -> SUBSET Accounts]
    /\ outrun \subseteq Doors /\ excused \subseteq Accounts

\* Whatever callbacks, polls and registrations cross, a pending redirect, a
\* device login and an invitation each keep the one-time promise: one caller
\* redeems it and it acts on one account at most (the comment "Single-use:
\* whoever wins this race gets the session" of device_poll).
OneTime == INSTANCE OneTimeTicket WITH state <- [t \in Tickets |-> ticket[t].st], granted <- granted
TicketsWorkOnce == OneTime!TicketSpec

\* An account that is there can be signed in to, with its password or with a
\* bound subject, unless it is just being provisioned, or provisioning
\* stopped half way, the provider was deleted, or two unlinks overlapped.
\* unlink_identity alone never takes the last way in.
LockoutNeedsCause ==
    \A a \in Accounts \ excused :
        account[a].there =>
            \/ account[a].password \/ Identities(a) # {}
            \/ \E d \in Doors : door[d].pc = "link_new" /\ door[d].acct = a
=============================================================================
