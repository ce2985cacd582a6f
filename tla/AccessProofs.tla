----------------------------- MODULE AccessProofs ---------------------------
(***************************************************************************)
(* Proofs about who gets in, what they may do, and what is reached for     *)
(* them outside, each for any number of accounts, handlers and requests.   *)
(*                                                                         *)
(* Oidc: the tickets keep the promise of OneTimeTicket, and an account     *)
(* loses its last way in only for a named cause.  DoorsOK: a handler past  *)
(* its redemption holds a spent ticket that has had no effect yet, and     *)
(* holds it alone.  WaysInOK: an unlink whose count still stands leaves a  *)
(* way in.                                                                 *)
(*                                                                         *)
(* Tokens: ClientOK says that who acts on a token has shown its secret,    *)
(* and is entitled to act unless a change overtook the request.            *)
(*                                                                         *)
(* Membership: ChecksHold says that, while the admins are the ones its     *)
(* handler saw, a write that is under way leaves one of them.              *)
(*                                                                         *)
(* Throttle: BudgetOK knows what the windows of a bucket have let through, *)
(* and SleepOK which failures a login that sleeps has counted.             *)
(*                                                                         *)
(* GeoLookup: JobOK follows a download from its lock to the row, and       *)
(* DownloadLockOK gives that lock to one connection at a time.             *)
(*                                                                         *)
(* Repositories: CreatorOK keeps the room that a creation saw until        *)
(* another one comes first.                                                *)
(***************************************************************************)
EXTENDS Oidc, Tokens, Membership, Throttle, GeoLookup, Repositories, FiniteSetTheorems, SequenceTheorems, TLAPS

(* Oidc.                                                                   *)

AccountRecord == [there : BOOLEAN, password : BOOLEAN, usable : BOOLEAN, armed : BOOLEAN]
TicketRecord == [st : {"none", "open", "taken", "gone"}, kind : {"code", "device", "invite"},
                 link : Accounts \cup {NoOne}]
DoorRecord == [pc : {"idle", "exchange", "poll", "consume", "lookup", "link", "link_armed",
                     "link_new", "provision", "disarm", "usable", "session", "unlink",
                     "accept", "create"},
               ticket : Tickets \cup {NoOne}, subject : Subjects \cup {NoOne},
               acct : Accounts \cup {NoOne}]

Points == {"idle", "exchange", "poll", "consume", "lookup", "link", "link_armed", "link_new", "provision",
           "disarm", "usable", "session", "unlink", "accept", "create"}

\* Where a handler is that has redeemed its ticket.
Inside == {"exchange", "lookup", "link", "link_armed", "link_new", "provision", "disarm", "usable", "session"}
Redeemed(r) == r.pc \in Inside \/ (r.pc = "create" /\ r.ticket # NoOne)

\* What a handler in state r knows.
DoorOK(r) ==
    /\ r.pc \in Inside \cup {"poll", "consume", "accept"} => r.ticket \in Tickets /\ ticket[r.ticket].st # "none"
    /\ r.pc \in {"exchange", "poll", "consume"} => r.acct = ticket[r.ticket].link
    /\ r.pc \in {"link", "link_armed", "link_new", "provision", "disarm", "usable", "session",
                 "unlink", "accept", "create"} => r.acct \in Accounts
    /\ r.pc \in {"consume", "lookup", "link", "link_armed", "link_new", "provision", "unlink"} => r.subject \in Subjects
    /\ Redeemed(r) => ticket[r.ticket].st = "taken" /\ granted[r.ticket] = {}

DoorsOK ==
    /\ \A t \in Tickets : ticket[t].kind = "invite" => ticket[t].link \in Accounts
    /\ \A t \in Tickets : ticket[t].st # "taken" => granted[t] = {}
    /\ \A d \in Doors : DoorOK(door[d])
    /\ \A d, e \in Doors : Redeemed(door[d]) /\ Redeemed(door[e]) /\ door[d].ticket = door[e].ticket => d = e

OidcInv == OidcTypeOK /\ DoorsOK

\* Taking one subject away leaves a way in.
Spare(a) == account[a].password \/ \E r, s \in Identities(a) : r # s

PasswordsAreThere == \A a \in Accounts : account[a].password => account[a].there

\* An unlink of a's that still may count on what it counted.
Counted(d, a) == d \notin outrun /\ a \notin excused /\ door[d].pc = "unlink" /\ door[d].acct = a

WaysInOK ==
    /\ LockoutNeedsCause /\ PasswordsAreThere
    /\ \A d \in Doors, a \in Accounts : Counted(d, a) => Spare(a)

-----------------------------------------------------------------------------
(* What a step does to handlers and tickets, in general.                   *)

LEMMA OidcParts ==
    ASSUME OidcTypeOK
    PROVE  /\ account \in [Accounts -> AccountRecord]
           /\ ticket \in [Tickets -> TicketRecord]
           /\ door \in [Doors -> DoorRecord]
           /\ \A d \in Doors : door[d] \in DoorRecord
           /\ \A t \in Tickets : ticket[t] \in TicketRecord
           /\ NoDoor \in DoorRecord /\ NoAccount \in AccountRecord
  BY DEF OidcTypeOK, AccountRecord, TicketRecord, DoorRecord, NoDoor, NoAccount

LEMMA IdleIsFine == DoorOK(NoDoor) /\ ~Redeemed(NoDoor)
  BY DEF DoorOK, Redeemed, Inside, NoDoor

\* A handler goes on, and the tickets stay.
LEMMA DoorMoves ==
    ASSUME OidcInv, NEW d \in Doors, NEW r \in DoorRecord,
           UNCHANGED <<ticket, granted>>, door' = [door EXCEPT ![d] = r],
           DoorOK(r), Redeemed(r) => Redeemed(door[d]) /\ r.ticket = door[d].ticket
    PROVE  DoorsOK'
  <1>1. \A e \in Doors : door'[e] = IF e = d THEN r ELSE door[e]
    BY DEF OidcInv, OidcTypeOK
  <1>2. \A e \in Doors : DoorOK(door[e])
    BY DEF OidcInv, DoorsOK
  <1>3. \A e \in Doors : DoorOK(door[e])'
    BY <1>1, <1>2 DEF DoorOK, Redeemed
  <1>4. \A e, f \in Doors : Redeemed(door[e])' /\ Redeemed(door[f])' /\ door'[e].ticket = door'[f].ticket => e = f
    BY <1>1 DEF OidcInv, DoorsOK, Redeemed
  <1> QED
    BY <1>3, <1>4 DEF OidcInv, DoorsOK

\* The ticket of a handler that has redeemed it takes effect, and the
\* handler leaves.
LEMMA DoorGrants ==
    ASSUME OidcInv, NEW d \in Doors, Redeemed(door[d]), UNCHANGED ticket, GrantTo(d), Leave(d)
    PROVE  DoorsOK'
  <1>1. \A e \in Doors : door'[e] = IF e = d THEN NoDoor ELSE door[e]
    BY DEF OidcInv, OidcTypeOK, Leave
  <1>2. DoorOK(door[d]) /\ door[d].ticket \in Tickets /\ ticket[door[d].ticket].st = "taken"
    BY OidcParts DEF OidcInv, DoorsOK, DoorOK, Redeemed, DoorRecord
  <1>3. \A t \in Tickets : t # door[d].ticket => granted'[t] = granted[t]
    BY DEF OidcInv, OidcTypeOK, GrantTo
  <1>4. \A e \in Doors : DoorOK(door[e])'
    <2> SUFFICES ASSUME NEW e \in Doors PROVE DoorOK(door[e])'
      OBVIOUS
    <2>1. CASE e = d
      BY <2>1, <1>1 DEF DoorOK, Redeemed, Inside, NoDoor
    <2>2. CASE e # d
      <3>1. DoorOK(door[e]) /\ door'[e] = door[e]
        BY <2>2, <1>1 DEF OidcInv, DoorsOK
      <3>2. Redeemed(door[e]) => door[e].ticket # door[d].ticket /\ door[e].ticket \in Tickets
        BY <2>2, OidcParts DEF OidcInv, DoorsOK, Redeemed, DoorOK, DoorRecord
      <3> QED
        BY <3>1, <3>2, <1>3 DEF DoorOK, Redeemed
    <2> QED
      BY <2>1, <2>2
  <1>5. \A e, f \in Doors : Redeemed(door[e])' /\ Redeemed(door[f])' /\ door'[e].ticket = door'[f].ticket => e = f
    BY <1>1, IdleIsFine DEF OidcInv, DoorsOK, Redeemed
  <1>6. \A t \in Tickets : (ticket[t].st # "taken" => granted[t] = {})'
    BY <1>2, <1>3 DEF OidcInv, DoorsOK
  <1> QED
    BY <1>4, <1>5, <1>6 DEF OidcInv, DoorsOK

\* Tickets are issued or withdrawn, and no handler moves.
LEMMA TicketsMove ==
    ASSUME OidcInv, UNCHANGED <<door, granted>>,
           \A t \in Tickets : \/ ticket'[t] = ticket[t]
                              \/ ticket[t].st = "none" /\ ticket'[t].st = "open"
                                 /\ (ticket'[t].kind = "invite" => ticket'[t].link \in Accounts)
                              \/ ticket[t].st = "open" /\ ticket'[t].st = "gone"
                                 /\ ticket'[t].kind = ticket[t].kind /\ ticket'[t].link = ticket[t].link
    PROVE  DoorsOK'
  <1>1. ASSUME NEW d \in Doors PROVE DoorOK(door[d])'
    <2>1. DoorOK(door[d]) /\ (Redeemed(door[d]) => door[d].ticket \in Tickets)
      BY OidcParts DEF OidcInv, DoorsOK, DoorOK, Redeemed, DoorRecord
    <2> QED
      BY <2>1 DEF DoorOK, Redeemed, Inside
  <1> QED
    BY <1>1 DEF OidcInv, DoorsOK, Redeemed

\* The one handler whose statement finds the ticket open redeems it.
LEMMA DoorRedeems ==
    ASSUME OidcInv, NEW d \in Doors, NEW t \in Tickets, NEW r \in DoorRecord,
           ticket[t].st = "open", ticket' = [ticket EXCEPT ![t].st = "taken"],
           UNCHANGED granted, door' = [door EXCEPT ![d] = r], r.ticket = t, Redeemed(r),
           r.pc = "exchange" => r.acct = ticket[t].link,
           r.pc \in {"link", "create"} => r.acct \in Accounts,
           r.pc \in {"lookup", "link"} => r.subject \in Subjects,
           r.pc \in {"exchange", "lookup", "link", "create"}
    PROVE  DoorsOK'
  <1>1. \A e \in Doors : door'[e] = IF e = d THEN r ELSE door[e]
    BY DEF OidcInv, OidcTypeOK
  <1>2. \A x \in Tickets : /\ ticket'[x].kind = ticket[x].kind /\ ticket'[x].link = ticket[x].link
                           /\ ticket'[x].st = IF x = t THEN "taken" ELSE ticket[x].st
    BY OidcParts DEF OidcInv, TicketRecord
  <1>3. \A e \in Doors : DoorOK(door[e]) /\ (Redeemed(door[e]) => door[e].ticket \in Tickets \ {t})
    BY OidcParts DEF OidcInv, DoorsOK, DoorOK, Redeemed, DoorRecord
  <1>4. granted[t] = {}
    BY DEF OidcInv, DoorsOK
  <1>5. \A e \in Doors : DoorOK(door[e])'
    <2> SUFFICES ASSUME NEW e \in Doors PROVE DoorOK(door[e])'
      OBVIOUS
    <2>1. CASE e = d
      BY <2>1, <1>1, <1>2, <1>4 DEF DoorOK, Redeemed, Inside
    <2>2. CASE e # d
      BY <2>2, <1>1, <1>2, <1>3 DEF DoorOK, Redeemed, Inside
    <2> QED
      BY <2>1, <2>2
  <1>6. \A e, f \in Doors : Redeemed(door[e])' /\ Redeemed(door[f])' /\ door'[e].ticket = door'[f].ticket => e = f
    BY <1>1, <1>3 DEF OidcInv, DoorsOK, Redeemed
  <1>7. \A x \in Tickets : /\ (ticket[x].kind = "invite" => ticket[x].link \in Accounts)'
                           /\ (ticket[x].st # "taken" => granted[x] = {})'
    BY <1>2 DEF OidcInv, DoorsOK
  <1> QED
    BY <1>5, <1>6, <1>7 DEF DoorsOK

-----------------------------------------------------------------------------
(* Types and handlers.                                                     *)

LEMMA OidcInvInit == OidcInit => OidcInv
  <1> SUFFICES ASSUME OidcInit PROVE OidcInv
    OBVIOUS
  <1>1. PICK a \in Accounts, S \in SUBSET Subjects :
          /\ account = [x \in Accounts |-> IF x = a
                          THEN [there |-> TRUE, password |-> S = {}, usable |-> TRUE, armed |-> FALSE]
                          ELSE NoAccount]
          /\ ident = [s \in Subjects |-> IF s \in S THEN a ELSE NoOne]
          /\ session \in {{}, {a}}
    BY DEF OidcInit
  <1>2. (S = {}) \in BOOLEAN
    OBVIOUS
  <1>3. PICK p \in BOOLEAN : p = (S = {})
    BY <1>2, Zenon
  <1>4. account = [x \in Accounts |-> IF x = a
                          THEN [there |-> TRUE, password |-> p, usable |-> TRUE, armed |-> FALSE]
                          ELSE NoAccount]
    BY <1>1, <1>3, Zenon
  <1>5. account \in [Accounts -> [there : BOOLEAN, password : BOOLEAN, usable : BOOLEAN, armed : BOOLEAN]]
    BY <1>4 DEF NoAccount
  <1>6. /\ ident \in [Subjects -> Accounts \cup {NoOne}]
        /\ session \subseteq Accounts
    BY <1>1
  <1>7. OidcTypeOK
    <2>1. /\ visits \in 0 .. MaxVisits /\ granted \in [Tickets -> SUBSET Accounts]
          /\ outrun \subseteq Doors /\ excused \subseteq Accounts
      BY OidcAssumption DEF OidcInit
    <2>2. site \in [st : {"on", "off", "deleted"}, jit : BOOLEAN, open : BOOLEAN]
      <3>1. site \in [st : {"on"}, jit : {TRUE}, open : {FALSE}]
        BY DEF OidcInit
      <3>2. {TRUE} \subseteq BOOLEAN /\ {FALSE} \subseteq BOOLEAN
        BY Zenon
      <3> QED
        BY <3>1, <3>2
    <2>3. ticket \in [Tickets -> [st : {"none", "open", "taken", "gone"}, kind : {"code", "device", "invite"},
                                 link : Accounts \cup {NoOne}]]
      BY DEF OidcInit
    <2>4. door \in [Doors -> DoorRecord]
      BY DEF OidcInit, NoDoor, DoorRecord
    <2> QED
      BY <1>5, <1>6, <2>1, <2>2, <2>3, <2>4 DEF OidcTypeOK, DoorRecord
  <1>8. DoorsOK
    BY IdleIsFine DEF OidcInit, DoorsOK
  <1> QED
    BY <1>7, <1>8 DEF OidcInv

\* Issuing and withdrawing.
LEMMA OidcInvTickets ==
    ASSUME OidcInv, NEW t \in Tickets, NEW a \in Accounts \cup {NoOne},
           \/ start(t, a) \/ device_start(t, a) \/ (a \in Accounts /\ create_invitation(t, a))
           \/ ticket_expires(t) \/ revoke_invitation(t)
    PROVE  OidcInv'
  <1>1. CASE start(t, a) \/ device_start(t, a) \/ (a \in Accounts /\ create_invitation(t, a))
    <2>1. PICK k \in {"code", "device", "invite"} :
             /\ ticket[t].st = "none" /\ (k = "invite" => a \in Accounts)
             /\ ticket' = [ticket EXCEPT ![t] = [st |-> "open", kind |-> k, link |-> a]]
      BY <1>1 DEF start, device_start, create_invitation
    <2>2. UNCHANGED <<site, account, ident, door, session, granted, outrun, excused>> /\ visits' \in 0 .. MaxVisits
      BY <1>1, OidcAssumption DEF start, device_start, create_invitation, Visit, OidcInv, OidcTypeOK
    <2>3. OidcTypeOK'
      BY <2>1, <2>2 DEF OidcInv, OidcTypeOK
    <2>4. DoorsOK'
      BY <2>1, <2>2, TicketsMove, OidcParts DEF OidcInv
    <2> QED
      BY <2>3, <2>4 DEF OidcInv
  <1>2. CASE ticket_expires(t) \/ revoke_invitation(t)
    <2>1. ticket[t].st = "open" /\ ticket' = [ticket EXCEPT ![t].st = "gone"]
      BY <1>2, OidcParts DEF ticket_expires, revoke_invitation, DropTicket, OidcInv
    <2>2. UNCHANGED <<site, account, ident, door, session, granted, outrun, excused>> /\ visits' \in 0 .. MaxVisits
      <3>1. visits \in 0 .. MaxVisits /\ MaxVisits \in Nat
        BY OidcAssumption DEF OidcInv, OidcTypeOK
      <3>2. /\ UNCHANGED <<site, account, ident, door, session, granted, outrun, excused>>
            /\ visits' = visits \/ (visits < MaxVisits /\ visits' = visits + 1)
        BY <1>2 DEF ticket_expires, revoke_invitation, Visit
      <3> QED
        BY <3>1, <3>2
    <2>3. OidcTypeOK'
      <3>1. [ticket[t] EXCEPT !.st = "gone"] \in TicketRecord
        BY OidcParts DEF OidcInv, TicketRecord
      <3>2. ticket' \in [Tickets -> TicketRecord]
        BY <2>1, <3>1, OidcParts DEF OidcInv
      <3> QED
        BY <2>2, <3>2 DEF OidcInv, OidcTypeOK, TicketRecord
    <2>4. DoorsOK'
      BY <2>1, <2>2, TicketsMove, OidcParts DEF OidcInv, TicketRecord
    <2> QED
      BY <2>3, <2>4 DEF OidcInv
  <1> QED
    BY <1>1, <1>2

\* A handler begins.
LEMMA OidcInvEnter ==
    ASSUME OidcInv, NEW d \in Doors, NEW t \in Tickets,
           callback(d, t) \/ device_poll(d, t) \/ register_invited(d, t)
    PROVE  OidcInv'
  <1>1. visits' \in 0 .. MaxVisits /\ UNCHANGED <<site, account, ident, session, granted, outrun, excused>>
    BY OidcAssumption DEF callback, device_poll, register_invited, Visit, OidcInv, OidcTypeOK
  <1>2. ticket[t] \in TicketRecord /\ door \in [Doors -> DoorRecord] /\ ~Redeemed(NoDoor)
    BY OidcParts, IdleIsFine DEF OidcInv
  <1>3. CASE callback(d, t)
    <2> DEFINE r == [NoDoor EXCEPT !.pc = "exchange", !.ticket = t, !.acct = ticket[t].link]
    <2>0. PICK l \in Accounts \cup {NoOne} : l = ticket[t].link
      BY <1>2 DEF TicketRecord
    <2>1. r \in DoorRecord /\ r.pc = "exchange" /\ r.ticket = t /\ r.acct = ticket[t].link
      BY <2>0 DEF NoDoor, DoorRecord
    <2>2. door' = [door EXCEPT ![d] = r] /\ ticket[t].st = "open" /\ ticket' = [ticket EXCEPT ![t].st = "taken"]
      BY <1>3 DEF callback, take_auth_request
    <2> HIDE DEF r
    <2>3. OidcTypeOK'
      BY <1>1, <1>2, <2>1, <2>2 DEF OidcInv, OidcTypeOK, DoorRecord, TicketRecord
    <2>4. DoorsOK'
      BY <1>1, <2>1, <2>2, DoorRedeems DEF Redeemed, Inside
    <2> QED
      BY <2>3, <2>4 DEF OidcInv
  <1>4. CASE device_poll(d, t)
    <2> DEFINE r == [NoDoor EXCEPT !.pc = "poll", !.ticket = t, !.acct = ticket[t].link]
    <2>0. PICK l \in Accounts \cup {NoOne} : l = ticket[t].link
      BY <1>2 DEF TicketRecord
    <2>1. r \in DoorRecord /\ r.pc = "poll" /\ r.ticket = t /\ r.acct = ticket[t].link
      BY <2>0 DEF NoDoor, DoorRecord
    <2>2. door' = [door EXCEPT ![d] = r] /\ ticket[t].st = "open" /\ UNCHANGED ticket
      BY <1>4 DEF device_poll, find_device_request
    <2> HIDE DEF r
    <2>3. OidcTypeOK'
      BY <1>1, <1>2, <2>1, <2>2 DEF OidcInv, OidcTypeOK, DoorRecord
    <2>4. DoorsOK'
      BY <1>1, <2>1, <2>2, DoorMoves DEF Redeemed, Inside, DoorOK
    <2> QED
      BY <2>3, <2>4 DEF OidcInv
  <1>5. CASE register_invited(d, t)
    <2> DEFINE r == [NoDoor EXCEPT !.pc = "accept", !.ticket = t, !.acct = ticket[t].link]
    <2>0. PICK l \in Accounts \cup {NoOne} : l = ticket[t].link
      BY <1>2 DEF TicketRecord
    <2>1. r \in DoorRecord /\ r.pc = "accept" /\ r.ticket = t /\ r.acct = ticket[t].link
      BY <2>0 DEF NoDoor, DoorRecord
    <2>2. /\ door' = [door EXCEPT ![d] = r] /\ ticket[t].st = "open" /\ UNCHANGED ticket
          /\ ticket[t].link \in Accounts
      BY <1>5 DEF register_invited, OidcInv, DoorsOK
    <2> HIDE DEF r
    <2>3. OidcTypeOK'
      BY <1>1, <1>2, <2>1, <2>2 DEF OidcInv, OidcTypeOK, DoorRecord
    <2>4. DoorsOK'
      BY <1>1, <2>1, <2>2, DoorMoves DEF Redeemed, Inside, DoorOK
    <2> QED
      BY <2>3, <2>4 DEF OidcInv
  <1> QED
    BY <1>3, <1>4, <1>5

LEMMA OidcInvEnterOther ==
    ASSUME OidcInv, NEW d \in Doors, NEW a \in Accounts, NEW s \in Subjects \cup {NoOne},
           (s \in Subjects /\ unlink_identity(d, a, s)) \/ register_open(d, a)
    PROVE  OidcInv'
  <1> DEFINE r == IF s \in Subjects /\ unlink_identity(d, a, s) THEN [NoDoor EXCEPT !.pc = "unlink", !.subject = s, !.acct = a]
                                              ELSE [NoDoor EXCEPT !.pc = "create", !.acct = a]
  <1>1. /\ r.ticket = NoOne /\ r.pc \in {"unlink", "create"} /\ r.acct = a
        /\ r.pc = "unlink" => r.subject \in Subjects
        /\ r \in DoorRecord
    BY DEF NoDoor, DoorRecord
  <1>2. door' = [door EXCEPT ![d] = r]
    BY DEF unlink_identity, register_open
  <1>3. /\ visits' \in 0 .. MaxVisits
        /\ UNCHANGED <<site, account, ident, ticket, session, granted, outrun, excused>>
    BY OidcAssumption DEF unlink_identity, register_open, Visit, OidcInv, OidcTypeOK
  <1> HIDE DEF r
  <1>4. OidcTypeOK'
    BY <1>1, <1>2, <1>3, OidcParts DEF OidcInv, OidcTypeOK, DoorRecord
  <1>5. DoorsOK'
    BY <1>1, <1>2, <1>3, DoorMoves DEF DoorOK, Redeemed, Inside
  <1> QED
    BY <1>4, <1>5 DEF OidcInv

ProvenAs(d, p, s) == door' = [door EXCEPT ![d].pc = p, ![d].subject = s]
ResolvedTo(d, p, a) == door' = [door EXCEPT ![d].pc = p, ![d].acct = a]

\* A handler goes to its next statement, keeping its ticket.
LEMMA GoPlain ==
    ASSUME OidcInv, NEW d \in Doors, NEW p \in Points, Go(d, p)
    PROVE  \E r \in DoorRecord : /\ door' = [door EXCEPT ![d] = r] /\ r.pc = p /\ r.ticket = door[d].ticket
                                 /\ r.subject = door[d].subject /\ r.acct = door[d].acct
  <1> DEFINE r == [door[d] EXCEPT !.pc = p]
  <1>1. door[d] \in DoorRecord /\ door \in [Doors -> DoorRecord]
    BY OidcParts DEF OidcInv
  <1>2. /\ r \in DoorRecord /\ r.pc = p /\ r.ticket = door[d].ticket
        /\ r.subject = door[d].subject /\ r.acct = door[d].acct
    BY <1>1 DEF DoorRecord, Points
  <1>3. door' = [door EXCEPT ![d] = r]
    BY DEF Go
  <1> QED
    BY <1>2, <1>3

LEMMA GoProven ==
    ASSUME OidcInv, NEW d \in Doors, NEW p \in Points, NEW s \in Subjects, ProvenAs(d, p, s)
    PROVE  \E r \in DoorRecord : /\ door' = [door EXCEPT ![d] = r] /\ r.pc = p /\ r.ticket = door[d].ticket
                                 /\ r.subject = s /\ r.acct = door[d].acct
  <1> DEFINE r == [door[d] EXCEPT !.pc = p, !.subject = s]
  <1>1. door[d] \in DoorRecord /\ door \in [Doors -> DoorRecord]
    BY OidcParts DEF OidcInv
  <1>2. r \in DoorRecord /\ r.pc = p /\ r.ticket = door[d].ticket /\ r.subject = s /\ r.acct = door[d].acct
    BY <1>1 DEF DoorRecord, Points
  <1>3. door' = [door EXCEPT ![d] = r]
    BY <1>1 DEF DoorRecord, ProvenAs
  <1> QED
    BY <1>2, <1>3

LEMMA GoResolved ==
    ASSUME OidcInv, NEW d \in Doors, NEW p \in Points, NEW a \in Accounts, ResolvedTo(d, p, a)
    PROVE  \E r \in DoorRecord : /\ door' = [door EXCEPT ![d] = r] /\ r.pc = p /\ r.ticket = door[d].ticket
                                 /\ r.subject = door[d].subject /\ r.acct = a
  <1> DEFINE r == [door[d] EXCEPT !.pc = p, !.acct = a]
  <1>1. door[d] \in DoorRecord /\ door \in [Doors -> DoorRecord]
    BY OidcParts DEF OidcInv
  <1>2. r \in DoorRecord /\ r.pc = p /\ r.ticket = door[d].ticket /\ r.subject = door[d].subject /\ r.acct = a
    BY <1>1 DEF DoorRecord, Points
  <1>3. door' = [door EXCEPT ![d] = r]
    BY <1>1 DEF DoorRecord, ResolvedTo
  <1> QED
    BY <1>2, <1>3

LEMMA DoorTypes ==
    ASSUME OidcInv, NEW d \in Doors, NEW r \in DoorRecord, door' = [door EXCEPT ![d] = r],
           UNCHANGED <<site, ident, session, visits, outrun, excused>>,
           account' \in [Accounts -> AccountRecord], ticket' \in [Tickets -> TicketRecord],
           granted' \in [Tickets -> SUBSET Accounts]
    PROVE  OidcTypeOK'
  BY DEF OidcInv, OidcTypeOK, DoorRecord, AccountRecord, TicketRecord

\* What a handler that answers leaves behind.
LEMMA LeaveMoves ==
    ASSUME OidcInv, NEW d \in Doors, Leave(d), UNCHANGED <<ticket, granted>>
    PROVE  DoorsOK' /\ door' \in [Doors -> DoorRecord]
  <1>1. NoDoor \in DoorRecord /\ door \in [Doors -> DoorRecord]
    BY OidcParts DEF OidcInv
  <1>2. door' = [door EXCEPT ![d] = NoDoor]
    BY DEF Leave
  <1>3. DoorsOK'
    BY <1>1, <1>2, IdleIsFine, DoorMoves
  <1> QED
    BY <1>1, <1>2, <1>3

\* The steps that prove who is asking.
LEMMA OidcInvProof ==
    ASSUME OidcInv, NEW d \in Doors, NEW s \in Subjects, exchange(d, s) \/ poll_approved(d, s)
    PROVE  OidcInv'
  <1>1. DoorOK(door[d]) /\ door[d] \in DoorRecord
    BY OidcParts DEF OidcInv, DoorsOK
  <1>2. UNCHANGED <<site, account, ident, ticket, session, visits, granted, outrun, excused>>
    BY DEF exchange, poll_approved
  <1>3. PICK p \in {"lookup", "link", "consume"} :
           /\ ProvenAs(d, p, s)
           /\ p = "consume" => door[d].pc = "poll"
           /\ p # "consume" => door[d].pc = "exchange"
           /\ p = "link" => ticket[door[d].ticket].link # NoOne
    BY DEF exchange, poll_approved, AfterProof, ProvenAs
  <1>4. p \in Points /\ door[d].acct \in Accounts \cup {NoOne}
    BY <1>1 DEF Points, DoorRecord
  <1>5. PICK r \in DoorRecord : /\ door' = [door EXCEPT ![d] = r]
                                /\ r.pc = p /\ r.ticket = door[d].ticket /\ r.subject = s /\ r.acct = door[d].acct
    BY <1>3, <1>4, GoProven
  <1>6. p = "link" => r.acct \in Accounts
    BY <1>1, <1>3, <1>4, <1>5 DEF DoorOK
  <1>7. DoorOK(r) /\ (Redeemed(r) => Redeemed(door[d]))
    BY <1>1, <1>3, <1>5, <1>6 DEF DoorOK, Redeemed, Inside
  <1>8. DoorsOK'
    BY <1>2, <1>5, <1>7, DoorMoves
  <1>9. OidcTypeOK'
    BY <1>2, <1>5, DoorTypes, OidcParts DEF OidcInv, OidcTypeOK
  <1> QED
    BY <1>8, <1>9 DEF OidcInv

LEMMA OidcInvReject ==
    ASSUME OidcInv, NEW d \in Doors, poll_rejected(d)
    PROVE  OidcInv'
  <1>1. /\ DropTicket(door[d].ticket) /\ Leave(d) /\ door[d].pc = "poll"
        /\ UNCHANGED <<site, account, ident, session, visits, granted, outrun, excused>>
    BY DEF poll_rejected
  <1>2. door[d].ticket \in Tickets /\ ticket \in [Tickets -> TicketRecord] /\ door \in [Doors -> DoorRecord]
    BY <1>1, OidcParts DEF OidcInv, DoorsOK, DoorOK, Inside
  <1>3. \A t \in Tickets : /\ ticket'[t].kind = ticket[t].kind /\ ticket'[t].link = ticket[t].link
                           /\ ticket'[t].st = IF t = door[d].ticket /\ ticket[t].st = "open"
                                              THEN "gone" ELSE ticket[t].st
    BY <1>1, <1>2 DEF DropTicket, TicketRecord
  <1>4. ticket' \in [Tickets -> TicketRecord]
    BY <1>1, <1>2 DEF DropTicket, TicketRecord
  <1>5. \A e \in Doors : door'[e] = IF e = d THEN NoDoor ELSE door[e]
    BY <1>1, <1>2 DEF Leave
  <1>6. \A e \in Doors : DoorOK(door[e])'
    <2> SUFFICES ASSUME NEW e \in Doors PROVE DoorOK(door[e])'
      OBVIOUS
    <2>1. CASE e = d
      BY <2>1, <1>5 DEF DoorOK, Redeemed, Inside, NoDoor
    <2>2. CASE e # d
      <3>1. DoorOK(door[e]) /\ (Redeemed(door[e]) => door[e].ticket \in Tickets)
        BY OidcParts DEF OidcInv, DoorsOK, DoorOK, Redeemed, DoorRecord
      <3> QED
        BY <2>2, <3>1, <1>1, <1>3, <1>5 DEF DoorOK, Redeemed, Inside
    <2> QED
      BY <2>1, <2>2
  <1>7. \A e, f \in Doors : Redeemed(door[e])' /\ Redeemed(door[f])' /\ door'[e].ticket = door'[f].ticket => e = f
    BY <1>5, IdleIsFine DEF OidcInv, DoorsOK, Redeemed
  <1>8. DoorsOK'
    BY <1>1, <1>3, <1>6, <1>7 DEF OidcInv, DoorsOK
  <1>9. OidcTypeOK'
    BY <1>1, <1>4, DoorTypes, OidcParts DEF OidcInv, OidcTypeOK, Leave
  <1> QED
    BY <1>8, <1>9 DEF OidcInv

\* Redeeming a device login or an invitation.
LEMMA OidcInvRedeem ==
    ASSUME OidcInv, NEW d \in Doors, Consume(d) \/ mark_accepted_platform(d)
    PROVE  OidcInv'
  <1>1. DoorOK(door[d]) /\ door[d] \in DoorRecord /\ door[d].pc \in {"consume", "accept"}
    BY OidcParts DEF OidcInv, DoorsOK, Consume, mark_accepted_platform
  <1>2. UNCHANGED <<site, account, ident, session, visits, granted, outrun, excused>>
    BY DEF Consume, mark_accepted_platform
  <1>3. ticket \in [Tickets -> TicketRecord] /\ door[d].ticket \in Tickets /\ door[d].acct \in Accounts \cup {NoOne}
    BY <1>1, OidcParts DEF DoorOK, OidcInv, DoorRecord
  <1>4. CASE ticket[door[d].ticket].st = "open"
    <2>1. PICK p \in {"lookup", "link", "create"} :
             /\ Go(d, p) /\ ticket' = [ticket EXCEPT ![door[d].ticket].st = "taken"]
             /\ p = "create" => door[d].pc = "accept"
             /\ p # "create" => door[d].pc = "consume"
             /\ p = "link" => ticket[door[d].ticket].link # NoOne
      BY <1>4 DEF Consume, consume_device_request, mark_accepted_platform, AfterProof
    <2>2. p \in Points /\ door[d].subject \in Subjects \cup {NoOne}
      BY <1>1 DEF Points, DoorRecord
    <2>3. PICK r \in DoorRecord : /\ door' = [door EXCEPT ![d] = r] /\ r.pc = p /\ r.ticket = door[d].ticket
                                  /\ r.subject = door[d].subject /\ r.acct = door[d].acct
      BY <2>1, <2>2, GoPlain
    <2>4. /\ p \in {"link", "create"} => r.acct \in Accounts
          /\ p # "create" => r.subject \in Subjects
      BY <1>1, <1>3, <2>1, <2>3 DEF DoorOK
    <2>5. Redeemed(r)
      BY <1>3, <2>3, OidcAssumption DEF Redeemed, Inside
    <2>6. DoorsOK'
      BY <1>2, <1>3, <1>4, <2>1, <2>3, <2>4, <2>5, DoorRedeems
    <2>7. ticket' \in [Tickets -> TicketRecord]
      BY <1>3, <2>1 DEF TicketRecord
    <2>8. OidcTypeOK'
      BY <1>2, <2>3, <2>7, DoorTypes, OidcParts DEF OidcInv, OidcTypeOK
    <2> QED
      BY <2>6, <2>8 DEF OidcInv
  <1>5. CASE ticket[door[d].ticket].st # "open"
    <2>1. Leave(d) /\ UNCHANGED ticket
      BY <1>5 DEF Consume, consume_device_request, mark_accepted_platform
    <2>2. DoorsOK'
      BY <1>2, <2>1, LeaveMoves
    <2>3. OidcTypeOK'
      BY <1>2, <2>1, DoorTypes, OidcParts DEF OidcInv, OidcTypeOK, Leave
    <2> QED
      BY <2>2, <2>3 DEF OidcInv
  <1> QED
    BY <1>4, <1>5

\* The subject is resolved to an account, or the handler refuses.
LEMMA OidcInvResolve ==
    ASSUME OidcInv, NEW d \in Doors, resolve_login(d)
    PROVE  OidcInv'
  <1>1. DoorOK(door[d]) /\ door[d] \in DoorRecord /\ door[d].pc = "lookup" /\ door[d].subject \in Subjects
    BY OidcParts DEF OidcInv, DoorsOK, DoorOK, resolve_login
  <1>2. UNCHANGED <<site, account, ident, ticket, session, visits, granted, outrun, excused>>
    BY DEF resolve_login
  <1>3. EmailOf[door[d].subject] \in Accounts /\ ident[door[d].subject] \in Accounts \cup {NoOne}
    BY <1>1, OidcAssumption DEF OidcInv, OidcTypeOK
  <1>4. CASE Leave(d)
    <2>1. DoorsOK'
      BY <1>2, <1>4, LeaveMoves
    <2>2. OidcTypeOK'
      BY <1>2, <1>4, DoorTypes, OidcParts DEF OidcInv, OidcTypeOK, Leave
    <2> QED
      BY <2>1, <2>2 DEF OidcInv
  <1>5. CASE ~Leave(d)
    <2>1. PICK p \in {"usable", "link_armed", "provision"}, a \in Accounts : ResolvedTo(d, p, a)
      BY <1>3, <1>5 DEF resolve_login, ResolvedTo
    <2>2. p \in Points
      BY DEF Points
    <2>3. PICK r \in DoorRecord : /\ door' = [door EXCEPT ![d] = r] /\ r.pc = p /\ r.ticket = door[d].ticket
                                  /\ r.subject = door[d].subject /\ r.acct = a
      BY <2>1, <2>2, GoResolved
    <2>4. DoorOK(r) /\ Redeemed(door[d])
      BY <1>1, <2>3 DEF DoorOK, Redeemed, Inside
    <2>5. DoorsOK'
      BY <1>2, <2>3, <2>4, DoorMoves
    <2>6. OidcTypeOK'
      BY <1>2, <2>3, DoorTypes, OidcParts DEF OidcInv, OidcTypeOK
    <2> QED
      BY <2>5, <2>6 DEF OidcInv
  <1> QED
    BY <1>4, <1>5

\* The steps inside that move on and touch accounts or identities only.
LEMMA OidcInvInside ==
    ASSUME OidcInv, NEW d \in Doors, NEW p \in {"link_new", "disarm", "usable", "session"}, Go(d, p),
           door[d].pc \in {"link_armed", "link_new", "provision", "disarm", "usable"},
           p = "link_new" => door[d].pc = "provision",
           UNCHANGED <<site, ticket, session, visits, granted, outrun, excused>>,
           account' \in [Accounts -> AccountRecord], ident' \in [Subjects -> Accounts \cup {NoOne}]
    PROVE  OidcInv'
  <1>1. DoorOK(door[d]) /\ door[d] \in DoorRecord
    BY OidcParts DEF OidcInv, DoorsOK
  <1>2. p \in Points
    BY DEF Points
  <1>3. PICK r \in DoorRecord : /\ door' = [door EXCEPT ![d] = r] /\ r.pc = p /\ r.ticket = door[d].ticket
                                /\ r.subject = door[d].subject /\ r.acct = door[d].acct
    BY <1>2, GoPlain
  <1>4. DoorOK(r) /\ Redeemed(door[d])
    BY <1>1, <1>3 DEF DoorOK, Redeemed, Inside
  <1>5. DoorsOK'
    BY <1>3, <1>4, DoorMoves
  <1>6. door' \in [Doors -> DoorRecord]
    BY <1>3, OidcParts DEF OidcInv
  <1>7. OidcTypeOK'
    BY <1>6 DEF OidcInv, OidcTypeOK, AccountRecord, DoorRecord
  <1> QED
    BY <1>5, <1>7 DEF OidcInv

LEMMA OidcInvProvision ==
    ASSUME OidcInv, NEW d \in Doors, provision_oidc_user(d)
    PROVE  OidcInv'
  <1>1. [NoAccount EXCEPT !.there = TRUE, !.usable = TRUE] \in AccountRecord
    BY DEF NoAccount, AccountRecord
  <1>2. account' \in [Accounts -> AccountRecord]
    BY <1>1, OidcParts DEF OidcInv, provision_oidc_user
  <1> QED
    BY <1>2, OidcInvInside DEF provision_oidc_user, OidcInv, OidcTypeOK

LEMMA OidcInvClose ==
    ASSUME OidcInv, NEW d \in Doors, NEW closed \in BOOLEAN, close_link_window(d, closed)
    PROVE  OidcInv'
  <1>1. PICK b \in BOOLEAN : b = (account[door[d].acct].armed /\ ~closed)
    OBVIOUS
  <1>2. account' = [account EXCEPT ![door[d].acct].armed = b]
    BY <1>1, Zenon DEF close_link_window
  <1>3. account' \in [Accounts -> AccountRecord]
    BY <1>2, OidcParts DEF OidcInv, AccountRecord
  <1> QED
    BY <1>3, OidcInvInside DEF close_link_window, OidcInv, OidcTypeOK

LEMMA OidcInvUsable ==
    ASSUME OidcInv, NEW d \in Doors, check_account_usable(d)
    PROVE  OidcInv'
  <1>1. UNCHANGED <<site, account, ident, ticket, session, visits, granted, outrun, excused>> /\ door[d].pc = "usable"
    BY DEF check_account_usable
  <1>2. CASE Go(d, "session")
    BY <1>1, <1>2, OidcInvInside, OidcParts DEF OidcInv, OidcTypeOK
  <1>3. CASE Leave(d)
    <2>1. DoorsOK'
      BY <1>1, <1>3, LeaveMoves
    <2>2. OidcTypeOK'
      BY <1>1, <1>3, DoorTypes, OidcParts DEF OidcInv, OidcTypeOK, Leave
    <2> QED
      BY <2>1, <2>2 DEF OidcInv
  <1> QED
    BY <1>2, <1>3 DEF check_account_usable

\* What GrantTo writes.
LEMMA GrantTypes ==
    ASSUME OidcInv, NEW d \in Doors, Redeemed(door[d]), door[d].acct \in Accounts, GrantTo(d)
    PROVE  granted' \in [Tickets -> SUBSET Accounts]
  BY DEF OidcInv, OidcTypeOK, GrantTo

LEMMA OidcInvLink ==
    ASSUME OidcInv, NEW d \in Doors, link_subject(d)
    PROVE  OidcInv'
  <1>1. /\ DoorOK(door[d]) /\ door[d] \in DoorRecord /\ Redeemed(door[d])
        /\ door[d].acct \in Accounts /\ door[d].subject \in Subjects
    BY OidcParts DEF OidcInv, DoorsOK, DoorOK, link_subject, Redeemed, Inside
  <1>2. ident' \in [Subjects -> Accounts \cup {NoOne}]
    BY <1>1 DEF link_subject, OidcInv, OidcTypeOK
  <1>3. UNCHANGED <<site, account, ticket, session, visits, outrun, excused>>
    BY DEF link_subject
  <1>4. CASE door[d].pc = "link" /\ GrantTo(d) /\ Leave(d)
    <2>1. DoorsOK'
      BY <1>1, <1>3, <1>4, DoorGrants
    <2>2. granted' \in [Tickets -> SUBSET Accounts]
      BY <1>1, <1>4, GrantTypes
    <2>3. door' \in [Doors -> DoorRecord]
      BY <1>4, OidcParts DEF OidcInv, Leave
    <2>4. OidcTypeOK'
      BY <1>2, <1>3, <2>2, <2>3 DEF OidcInv, OidcTypeOK, DoorRecord
    <2> QED
      BY <2>1, <2>4 DEF OidcInv
  <1>5. CASE door[d].pc = "link_armed" /\ Go(d, "disarm") /\ UNCHANGED granted
    BY <1>2, <1>3, <1>5, OidcInvInside, OidcParts DEF OidcInv
  <1>6. CASE door[d].pc = "link_new" /\ Go(d, "usable") /\ UNCHANGED granted
    BY <1>2, <1>3, <1>6, OidcInvInside, OidcParts DEF OidcInv
  <1> QED
    BY <1>4, <1>5, <1>6 DEF link_subject

LEMMA OidcInvSession ==
    ASSUME OidcInv, NEW d \in Doors, establish_session(d)
    PROVE  OidcInv'
  <1>1. DoorOK(door[d]) /\ Redeemed(door[d]) /\ door[d].acct \in Accounts
    BY DEF OidcInv, DoorsOK, DoorOK, establish_session, Redeemed, Inside
  <1>2. DoorsOK'
    BY <1>1, DoorGrants DEF establish_session
  <1>3. granted' \in [Tickets -> SUBSET Accounts]
    BY <1>1, GrantTypes DEF establish_session
  <1>4. door' \in [Doors -> DoorRecord]
    BY OidcParts DEF OidcInv, Leave, establish_session
  <1>5. OidcTypeOK'
    BY <1>1, <1>3, <1>4 DEF OidcInv, OidcTypeOK, DoorRecord, establish_session
  <1> QED
    BY <1>2, <1>5 DEF OidcInv

LEMMA OidcInvCreate ==
    ASSUME OidcInv, NEW d \in Doors, create_with_flags(d)
    PROVE  OidcInv'
  <1>1. DoorOK(door[d]) /\ door[d].acct \in Accounts /\ door[d].pc = "create"
    BY DEF OidcInv, DoorsOK, DoorOK, create_with_flags
  <1>2. [NoAccount EXCEPT !.there = TRUE, !.usable = TRUE, !.password = TRUE] \in AccountRecord
    BY DEF NoAccount, AccountRecord
  <1>3. account' \in [Accounts -> AccountRecord]
    BY <1>2, OidcParts DEF OidcInv, create_with_flags
  <1>4. UNCHANGED <<site, ident, ticket, session, visits, outrun, excused>> /\ Leave(d)
    BY DEF create_with_flags
  <1>5. door' \in [Doors -> DoorRecord]
    BY <1>4, OidcParts DEF OidcInv, Leave
  <1>6. CASE door[d].ticket = NoOne
    <2>1. UNCHANGED granted
      BY <1>6 DEF create_with_flags
    <2>2. DoorsOK'
      BY <1>4, <2>1, LeaveMoves
    <2> QED
      BY <1>3, <1>4, <1>5, <2>1, <2>2 DEF OidcInv, OidcTypeOK, DoorRecord, AccountRecord
  <1>7. CASE door[d].ticket # NoOne
    <2>1. GrantTo(d) /\ Redeemed(door[d])
      BY <1>1, <1>7 DEF create_with_flags, Redeemed
    <2>2. DoorsOK'
      BY <1>4, <2>1, DoorGrants
    <2>3. granted' \in [Tickets -> SUBSET Accounts]
      BY <1>1, <2>1, GrantTypes
    <2> QED
      BY <1>3, <1>4, <1>5, <2>2, <2>3 DEF OidcInv, OidcTypeOK, DoorRecord, AccountRecord
  <1> QED
    BY <1>6, <1>7

\* Giving up, and unlinking.
LEMMA OidcInvStop ==
    ASSUME OidcInv, NEW d \in Doors, Fails(d) \/ unlink(d)
    PROVE  OidcInv'
  <1>1. Leave(d) /\ UNCHANGED <<site, account, ticket, session, visits, granted>>
    BY DEF Fails, unlink
  <1>2. DoorsOK' /\ door' \in [Doors -> DoorRecord]
    BY <1>1, LeaveMoves
  <1>3. DoorOK(door[d])
    BY DEF OidcInv, DoorsOK
  <1>4. /\ ident' \in [Subjects -> Accounts \cup {NoOne}]
        /\ outrun' \subseteq Doors /\ excused' \subseteq Accounts
    BY <1>3 DEF OidcInv, OidcTypeOK, Fails, unlink, DoorOK
  <1>5. OidcTypeOK'
    BY <1>1, <1>2, <1>4 DEF OidcInv, OidcTypeOK, DoorRecord
  <1> QED
    BY <1>2, <1>5 DEF OidcInv

\* Administration leaves the handlers alone.
LEMMA OidcInvAdmin ==
    ASSUME OidcInv, Visit, UNCHANGED <<ticket, door, granted, ident, outrun, excused>>,
           site' \in [st : {"on", "off", "deleted"}, jit : BOOLEAN, open : BOOLEAN],
           session' \subseteq Accounts, account' \in [Accounts -> AccountRecord]
    PROVE  OidcInv'
  <1>1. visits' \in 0 .. MaxVisits
    BY OidcAssumption DEF Visit, OidcInv, OidcTypeOK
  <1>2. DoorsOK'
    BY TicketsMove
  <1>3. OidcTypeOK'
    BY <1>1 DEF OidcInv, OidcTypeOK, AccountRecord
  <1> QED
    BY <1>2, <1>3 DEF OidcInv

LEMMA OidcInvLogout ==
    ASSUME OidcInv, NEW s \in Subjects, backchannel_logout(s)
    PROVE  OidcInv'
  BY OidcInvAdmin, OidcParts DEF backchannel_logout, OidcInv, OidcTypeOK

LEMMA OidcInvAccount ==
    ASSUME OidcInv, NEW a \in Accounts, NEW arm \in BOOLEAN, deactivate(a) \/ set_link_arm(a, arm)
    PROVE  OidcInv'
  <1>1. account' \in [Accounts -> AccountRecord]
    <2>1. account \in [Accounts -> AccountRecord]
      BY OidcParts DEF OidcInv
    <2>2. CASE deactivate(a)
      BY <2>1, <2>2 DEF deactivate, AccountRecord
    <2>3. CASE set_link_arm(a, arm)
      BY <2>1, <2>3 DEF set_link_arm, AccountRecord
    <2> QED
      BY <2>2, <2>3
  <1>2. Visit /\ UNCHANGED <<ticket, door, granted, ident, outrun, excused, site>> /\ session' \subseteq Accounts
    BY DEF deactivate, set_link_arm, OidcInv, OidcTypeOK
  <1> QED
    BY <1>1, <1>2, OidcInvAdmin DEF OidcInv, OidcTypeOK

LEMMA OidcInvSettings ==
    ASSUME OidcInv, NEW on \in BOOLEAN, NEW flag \in BOOLEAN, update_provider(on, flag) \/ update_settings(flag)
    PROVE  OidcInv'
  <1>1. site' \in [st : {"on", "off", "deleted"}, jit : BOOLEAN, open : BOOLEAN]
    BY DEF update_provider, update_settings, OidcInv, OidcTypeOK
  <1>2. Visit /\ UNCHANGED <<account, ident, ticket, door, session, granted, outrun, excused>>
    BY DEF update_provider, update_settings
  <1> QED
    BY <1>1, <1>2, OidcInvAdmin, OidcParts DEF OidcInv, OidcTypeOK

LEMMA OidcInvDelete ==
    ASSUME OidcInv, delete_provider
    PROVE  OidcInv'
  <1>1. UNCHANGED <<account, door, session, granted, outrun>> /\ visits' \in 0 .. MaxVisits
    BY OidcAssumption DEF delete_provider, Visit, OidcInv, OidcTypeOK
  <1>2. ticket \in [Tickets -> TicketRecord]
    BY OidcParts DEF OidcInv
  <1>3. ticket' \in [Tickets -> TicketRecord]
    BY <1>2 DEF delete_provider, TicketRecord
  <1>4. DoorsOK'
    BY <1>1, <1>2, TicketsMove DEF delete_provider, TicketRecord
  <1>5. OidcTypeOK'
    BY <1>1, <1>3 DEF delete_provider, OidcInv, OidcTypeOK, TicketRecord
  <1> QED
    BY <1>4, <1>5 DEF OidcInv

LEMMA OidcInvStep == OidcInv /\ [OidcNext]_oidcVars => OidcInv'
  <1> SUFFICES ASSUME OidcInv, [OidcNext]_oidcVars PROVE OidcInv'
    OBVIOUS
  <1>1. CASE UNCHANGED oidcVars
    <2>1. OidcTypeOK' /\ UNCHANGED <<ticket, door, granted>>
      BY <1>1 DEF oidcVars, OidcInv, OidcTypeOK
    <2>2. DoorsOK'
      BY <2>1, TicketsMove
    <2> QED
      BY <2>1, <2>2 DEF OidcInv
  <1>2. ASSUME NEW t \in Tickets, NEW a \in Accounts \cup {NoOne}, start(t, a) \/ device_start(t, a)
        PROVE  OidcInv'
    BY <1>2, OidcInvTickets
  <1>3. ASSUME NEW t \in Tickets, NEW a \in Accounts, create_invitation(t, a) PROVE OidcInv'
    BY <1>3, OidcInvTickets
  <1>4. ASSUME NEW t \in Tickets, ticket_expires(t) \/ revoke_invitation(t) PROVE OidcInv'
    BY <1>4, OidcInvTickets
  <1>5. ASSUME NEW d \in Doors,
               \/ poll_rejected(d) \/ Consume(d) \/ resolve_login(d) \/ provision_oidc_user(d)
               \/ link_subject(d) \/ check_account_usable(d) \/ establish_session(d) \/ Fails(d)
               \/ unlink(d) \/ mark_accepted_platform(d) \/ create_with_flags(d)
               \/ \E closed \in BOOLEAN : close_link_window(d, closed)
        PROVE  OidcInv'
    BY <1>5, OidcInvReject, OidcInvRedeem, OidcInvResolve, OidcInvProvision, OidcInvLink, OidcInvUsable, OidcInvSession, OidcInvStop, OidcInvCreate, OidcInvClose
  <1>6. ASSUME NEW d \in Doors, NEW a \in Accounts, register_open(d, a) PROVE OidcInv'
    BY <1>6, OidcInvEnterOther
  <1>7. ASSUME NEW a \in Accounts, deactivate(a) \/ \E arm \in BOOLEAN : set_link_arm(a, arm) PROVE OidcInv'
    BY <1>7, OidcInvAccount
  <1>8. ASSUME NEW open \in BOOLEAN, update_settings(open) PROVE OidcInv'
    BY <1>8, OidcInvSettings
  <1> QED
    BY <1>1, <1>2, <1>3, <1>4, <1>5, <1>6, <1>7, <1>8, OidcInvEnter, OidcInvEnterOther, OidcInvProof, OidcInvLogout, OidcInvSettings,
       OidcInvDelete DEF OidcNext

LEMMA OidcInvariant == OidcSpec => []OidcInv
  BY OidcInvInit, OidcInvStep, PTL DEF OidcSpec

\* Whatever requests, polls, registrations and administration cross, every
\* variable keeps its type: the account a ticket acts on is an account.
THEOREM OidcTypeCorrect == OidcSpec => []OidcTypeOK
  BY OidcInvariant, PTL DEF OidcInv

-----------------------------------------------------------------------------
(* The tickets are one-time tickets.                                       *)

St == [t \in Tickets |-> ticket[t].st]

\* Steps that leave states and effects of the tickets alone.
LEMMA Stutters ==
    ASSUME UNCHANGED <<ticket, granted>>
    PROVE  UNCHANGED <<St, granted>>
  BY DEF St

LEMMA IssuesOne ==
    ASSUME OidcInv, NEW t \in Tickets, ticket[t].st = "none", UNCHANGED granted,
           \E k, a : ticket' = [ticket EXCEPT ![t] = [st |-> "open", kind |-> k, link |-> a]]
    PROVE  OneTime!TicketNext
  <1> PICK k, a : ticket' = [ticket EXCEPT ![t] = [st |-> "open", kind |-> k, link |-> a]]
    OBVIOUS
  <1>1. \A x \in Tickets : ticket'[x].st = IF x = t THEN "open" ELSE ticket[x].st
    BY OidcParts DEF OidcInv
  <1>2. St[t] = "none" /\ St' = [St EXCEPT ![t] = "open"]
    BY <1>1 DEF St
  <1>3. OneTime!Issue(t)
    BY <1>2 DEF OneTime!Issue, St
  <1> QED
    BY <1>3 DEF OneTime!TicketNext

LEMMA RedeemsOne ==
    ASSUME OidcInv, NEW t \in Tickets, ticket[t].st = "open", UNCHANGED granted,
           ticket' = [ticket EXCEPT ![t].st = "taken"]
    PROVE  OneTime!TicketNext
  <1>1. St[t] = "open" /\ St' = [St EXCEPT ![t] = "taken"]
    BY OidcParts DEF OidcInv, St, TicketRecord
  <1>2. OneTime!Redeem(t)
    BY <1>1 DEF OneTime!Redeem, St
  <1> QED
    BY <1>2 DEF OneTime!TicketNext

LEMMA WithdrawsSome ==
    ASSUME OidcInv, NEW T \in SUBSET Tickets, \A t \in T : ticket[t].st = "open", UNCHANGED granted,
           \A t \in Tickets : ticket'[t].st = IF t \in T THEN "gone" ELSE ticket[t].st
    PROVE  OneTime!TicketNext
  <1>1. /\ \A t \in T : St[t] = "open"
        /\ St' = [t \in Tickets |-> IF t \in T THEN "gone" ELSE St[t]]
    BY DEF St
  <1>2. OneTime!Withdraw(T)
    BY <1>1 DEF OneTime!Withdraw, St
  <1> QED
    BY <1>2 DEF OneTime!TicketNext

LEMMA GrantsOne ==
    ASSUME OidcInv, NEW d \in Doors, Redeemed(door[d]), door[d].acct \in Accounts, GrantTo(d), UNCHANGED ticket
    PROVE  OneTime!TicketNext
  <1>1. DoorOK(door[d]) /\ door[d].ticket \in Tickets
    BY OidcParts DEF OidcInv, DoorsOK, DoorOK, Redeemed, DoorRecord
  <1>2. /\ St[door[d].ticket] = "taken" /\ granted[door[d].ticket] = {} /\ UNCHANGED St
        /\ granted' = [granted EXCEPT ![door[d].ticket] = {door[d].acct}]
    BY <1>1 DEF DoorOK, GrantTo, St, OidcInv, OidcTypeOK
  <1>3. OneTime!Grant(door[d].ticket, door[d].acct)
    BY <1>2 DEF OneTime!Grant, St
  <1> QED
    BY <1>1, <1>3 DEF OneTime!TicketNext

LEMMA DropsOne ==
    ASSUME OidcInv, NEW t \in Tickets, DropTicket(t), UNCHANGED granted
    PROVE  OneTime!TicketNext
  <1> DEFINE T == IF ticket[t].st = "open" THEN {t} ELSE {}
  <1>1. \A x \in Tickets : ticket'[x].st = IF x \in T THEN "gone" ELSE ticket[x].st
    BY OidcParts DEF OidcInv, DropTicket, TicketRecord
  <1>2. T \in SUBSET Tickets /\ \A x \in T : ticket[x].st = "open"
    OBVIOUS
  <1> HIDE DEF T
  <1> QED
    BY <1>1, <1>2, WithdrawsSome

LEMMA DeleteWithdraws ==
    ASSUME OidcInv, delete_provider
    PROVE  OneTime!TicketNext
  <1> DEFINE T == {t \in Tickets : ticket[t].kind # "invite" /\ ticket[t].st = "open"}
  <1>1. \A x \in Tickets : ticket'[x].st = IF x \in T THEN "gone" ELSE ticket[x].st
    BY OidcParts DEF OidcInv, delete_provider, TicketRecord
  <1>2. T \in SUBSET Tickets /\ (\A x \in T : ticket[x].st = "open") /\ UNCHANGED granted
    BY DEF delete_provider
  <1> HIDE DEF T
  <1> QED
    BY <1>1, <1>2, WithdrawsSome

LEMMA TicketStep ==
    ASSUME OidcInv, [OidcNext]_oidcVars
    PROVE  OneTime!TicketNext \/ UNCHANGED <<St, granted>>
  <1> DEFINE Fine == OneTime!TicketNext \/ UNCHANGED <<St, granted>>
  <1> HIDE DEF Fine
  <1>1. ASSUME UNCHANGED <<ticket, granted>> PROVE Fine
    BY <1>1, Stutters DEF Fine
  <1>2. ASSUME NEW t \in Tickets, NEW a \in Accounts \cup {NoOne}, start(t, a) \/ device_start(t, a)
        PROVE  Fine
    BY <1>2, IssuesOne DEF Fine, start, device_start
  <1>3. ASSUME NEW t \in Tickets, NEW a \in Accounts, create_invitation(t, a) PROVE Fine
    BY <1>3, IssuesOne DEF Fine, create_invitation
  <1>4. ASSUME NEW t \in Tickets, ticket_expires(t) \/ revoke_invitation(t) PROVE Fine
    BY <1>4, DropsOne DEF Fine, ticket_expires, revoke_invitation
  <1>5. ASSUME NEW d \in Doors, NEW t \in Tickets, callback(d, t) PROVE Fine
    BY <1>5, RedeemsOne DEF Fine, callback, take_auth_request
  <1>6. ASSUME NEW d \in Doors, NEW t \in Tickets, device_poll(d, t) \/ register_invited(d, t) PROVE Fine
    BY <1>1, <1>6 DEF device_poll, register_invited
  <1>7. ASSUME NEW d \in Doors, NEW s \in Subjects, exchange(d, s) \/ poll_approved(d, s) PROVE Fine
    BY <1>1, <1>7 DEF exchange, poll_approved
  <1>8. ASSUME NEW d \in Doors, poll_rejected(d) PROVE Fine
    <2>1. door[d].ticket \in Tickets
      BY <1>8 DEF OidcInv, DoorsOK, DoorOK, poll_rejected
    <2> QED
      BY <1>8, <2>1, DropsOne DEF Fine, poll_rejected
  <1>9. ASSUME NEW d \in Doors, Consume(d) \/ mark_accepted_platform(d) PROVE Fine
    <2>1. door[d].ticket \in Tickets
      BY <1>9 DEF OidcInv, DoorsOK, DoorOK, Consume, mark_accepted_platform
    <2>2. CASE ticket[door[d].ticket].st = "open"
      <3>1. ticket' = [ticket EXCEPT ![door[d].ticket].st = "taken"] /\ UNCHANGED granted
        BY <1>9, <2>2 DEF Consume, mark_accepted_platform, consume_device_request
      <3> QED
        BY <2>1, <2>2, <3>1, RedeemsOne DEF Fine
    <2>3. CASE ticket[door[d].ticket].st # "open"
      BY <1>1, <1>9, <2>3 DEF Consume, mark_accepted_platform, consume_device_request
    <2> QED
      BY <2>2, <2>3
  <1>10. ASSUME NEW d \in Doors, link_subject(d) PROVE Fine
    <2>1. CASE door[d].pc = "link" /\ GrantTo(d)
      <3>1. Redeemed(door[d]) /\ door[d].acct \in Accounts /\ UNCHANGED ticket
        BY <2>1, <1>10 DEF OidcInv, DoorsOK, DoorOK, Redeemed, Inside, link_subject
      <3> QED
        BY <2>1, <3>1, GrantsOne DEF Fine
    <2>2. CASE UNCHANGED granted
      BY <1>1, <1>10, <2>2 DEF link_subject
    <2> QED
      BY <1>10, <2>1, <2>2 DEF link_subject
  <1>11. ASSUME NEW d \in Doors, establish_session(d) PROVE Fine
    <2>1. Redeemed(door[d]) /\ door[d].acct \in Accounts /\ UNCHANGED ticket /\ GrantTo(d)
      BY <1>11 DEF OidcInv, DoorsOK, DoorOK, Redeemed, Inside, establish_session
    <2> QED
      BY <2>1, GrantsOne DEF Fine
  <1>12. ASSUME NEW d \in Doors, create_with_flags(d) PROVE Fine
    <2>1. CASE door[d].ticket = NoOne
      BY <1>1, <1>12, <2>1 DEF create_with_flags
    <2>2. CASE door[d].ticket # NoOne
      <3>1. Redeemed(door[d]) /\ door[d].acct \in Accounts /\ UNCHANGED ticket /\ GrantTo(d)
        BY <1>12, <2>2 DEF OidcInv, DoorsOK, DoorOK, Redeemed, create_with_flags
      <3> QED
        BY <3>1, GrantsOne DEF Fine
    <2> QED
      BY <2>1, <2>2
  <1>13. ASSUME NEW d \in Doors,
                \/ resolve_login(d) \/ provision_oidc_user(d) \/ check_account_usable(d) \/ Fails(d) \/ unlink(d)
                \/ \E closed \in BOOLEAN : close_link_window(d, closed)
         PROVE  UNCHANGED <<ticket, granted>>
    BY <1>13 DEF resolve_login, provision_oidc_user, check_account_usable, Fails, unlink, close_link_window
  <1>14. ASSUME NEW d \in Doors, NEW a \in Accounts, NEW s \in Subjects, unlink_identity(d, a, s)
         PROVE  Fine
    BY <1>1, <1>14 DEF unlink_identity
  <1>15. ASSUME NEW d \in Doors, NEW a \in Accounts, register_open(d, a) PROVE Fine
    BY <1>1, <1>15 DEF register_open
  <1>16. ASSUME \/ \E s \in Subjects : backchannel_logout(s)
                \/ \E a \in Accounts : deactivate(a) \/ \E arm \in BOOLEAN : set_link_arm(a, arm)
                \/ \E on, jit \in BOOLEAN : update_provider(on, jit)
                \/ \E open \in BOOLEAN : update_settings(open)
         PROVE  UNCHANGED <<ticket, granted>>
    BY <1>16 DEF backchannel_logout, deactivate, set_link_arm, update_provider, update_settings
  <1>17. ASSUME delete_provider PROVE Fine
    BY <1>17, DeleteWithdraws DEF Fine
  <1>18. ASSUME UNCHANGED oidcVars PROVE Fine
    BY <1>1, <1>18 DEF oidcVars
  <1>19. Fine
    BY <1>1, <1>2, <1>3, <1>4, <1>5, <1>6, <1>7, <1>8, <1>9, <1>10, <1>11, <1>12, <1>13, <1>14, <1>15, <1>16, <1>17,
       <1>18 DEF OidcNext
  <1> QED
    BY <1>19 DEF Fine

LEMMA TicketStart == OidcInit => OneTime!TicketInit
  BY DEF OidcInit, OneTime!TicketInit

\* The redirects, device logins and invitations of Oidc implement
\* OneTimeTicket: whoever wins the race redeems the ticket, nobody redeems
\* an expired or withdrawn one, and it acts once, on one account.
THEOREM TicketsAreOneTime == OidcSpec => TicketsWorkOnce
  <1>1. OidcInv /\ [OidcNext]_oidcVars => [OneTime!TicketNext]_<<St, granted>>
    BY TicketStep
  <1>2. OidcInv /\ [OidcNext]_oidcVars => [OneTime!TicketNext]_<<[t \in Tickets |-> ticket[t].st], granted>>
    BY <1>1 DEF St
  <1> QED
    BY <1>2, TicketStart, OidcInvariant, PTL DEF OidcSpec, TicketsWorkOnce, OneTime!TicketSpec

-----------------------------------------------------------------------------
(* Ways in.                                                                *)

\* The guard of unlink_identity: more than one subject, or a password.
LEMMA CountLeavesOne ==
    ASSUME NEW a, account[a].password \/ count_for_user(a) > 1
    PROVE  Spare(a)
  <1> DEFINE I == Identities(a)
  <1>1. CASE account[a].password
    BY <1>1 DEF Spare
  <1>2. CASE ~ \E r, s \in I : r # s
    <2>1. CASE I = {}
      <3>1. Cardinality(I) = 0
        BY <2>1, FS_EmptySet
      <3> QED
        BY <3>1, <1>1 DEF count_for_user
    <2>2. CASE I # {}
      <3>1. PICK x : I = {x}
        BY <1>2, <2>2
      <3>2. Cardinality(I) = 1
        BY <3>1, FS_Singleton
      <3> QED
        BY <3>2, <1>1 DEF count_for_user
    <2> QED
      BY <2>1, <2>2
  <1>3. CASE \E r, s \in I : r # s
    BY <1>3 DEF Spare
  <1> QED
    BY <1>2, <1>3

\* Accounts and subjects only gain ways in, excuses stay, and no handler
\* leaves a half-provisioned account.
LEMMA WaysGrow ==
    ASSUME OidcInv, WaysInOK, excused \subseteq excused', PasswordsAreThere',
           \A a \in Accounts : account[a].password => account'[a].password,
           \A s \in Subjects : ident[s] # NoOne => ident'[s] = ident[s],
           \A a \in Accounts \ excused' : account'[a].there /\ ~account[a].there =>
               account'[a].password \/ \E d \in Doors : door'[d].pc = "link_new" /\ door'[d].acct = a,
           \A a \in Accounts \ excused', d \in Doors : door[d].pc = "link_new" /\ door[d].acct = a =>
               \/ door'[d].pc = "link_new" /\ door'[d].acct = a
               \/ \E s \in Subjects : ident'[s] = a,
           \A d \in Doors, a \in Accounts : Counted(d, a)' => Counted(d, a)
    PROVE  WaysInOK'
  <1>1. \A a \in Accounts : Identities(a) \subseteq Identities(a)'
    BY OidcAssumption DEF Identities
  <1>2. \A a \in Accounts : Spare(a) => Spare(a)'
    BY <1>1 DEF Spare
  <1>3. \A d \in Doors, a \in Accounts : Counted(d, a)' => Spare(a)'
    BY <1>2 DEF WaysInOK
  <1>4. LockoutNeedsCause'
    <2> SUFFICES ASSUME NEW a \in Accounts \ excused', account'[a].there
                 PROVE  \/ account'[a].password \/ Identities(a)' # {}
                        \/ \E d \in Doors : door'[d].pc = "link_new" /\ door'[d].acct = a
      BY DEF LockoutNeedsCause
    <2>1. CASE ~account[a].there
      BY <2>1
    <2>2. CASE account[a].there
      <3>1. \/ account[a].password \/ Identities(a) # {}
            \/ \E d \in Doors : door[d].pc = "link_new" /\ door[d].acct = a
        BY <2>2 DEF WaysInOK, LockoutNeedsCause
      <3>2. (\E s \in Subjects : ident'[s] = a) => Identities(a)' # {}
        BY DEF Identities
      <3> QED
        BY <1>1, <3>1, <3>2
    <2> QED
      BY <2>1, <2>2
  <1> QED
    BY <1>3, <1>4 DEF WaysInOK

\* A handler that is not provisioning moves on, to neither that nor an
\* unlink; accounts and identities keep their ways in.
LEMMA WaysStay ==
    ASSUME OidcInv, WaysInOK, NEW d \in Doors, \A e \in Doors \ {d} : door'[e] = door[e],
           door'[d].pc \notin {"unlink", "link_new"}, door[d].pc # "link_new",
           UNCHANGED <<account, ident, outrun, excused>>
    PROVE  WaysInOK'
  <1>1. PasswordsAreThere'
    BY DEF WaysInOK, PasswordsAreThere
  <1>2. \A e \in Doors, a \in Accounts : Counted(e, a)' => Counted(e, a)
    BY DEF Counted
  <1> QED
    BY <1>1, <1>2, WaysGrow

LEMMA WaysInit == OidcInit => WaysInOK
  <1> SUFFICES ASSUME OidcInit PROVE WaysInOK
    OBVIOUS
  <1>1. PICK a \in Accounts, S \in SUBSET Subjects :
          /\ account = [x \in Accounts |-> IF x = a
                          THEN [there |-> TRUE, password |-> S = {}, usable |-> TRUE, armed |-> FALSE]
                          ELSE NoAccount]
          /\ ident = [s \in Subjects |-> IF s \in S THEN a ELSE NoOne]
    BY DEF OidcInit
  <1>2. \A x \in Accounts \ {a} : ~account[x].there /\ ~account[x].password
    BY <1>1 DEF NoAccount
  <1>3. (account[a].password \/ Identities(a) # {}) /\ account[a].there
    <2>1. PICK p \in BOOLEAN : p = (S = {})
      BY Zenon
    <2>2. account[a] = [there |-> TRUE, password |-> p, usable |-> TRUE, armed |-> FALSE]
      BY <1>1, <2>1
    <2>3. account[a].password = p /\ account[a].there
      BY <2>2
    <2>4. S # {} => Identities(a) # {}
      BY <1>1 DEF Identities
    <2> QED
      BY <2>1, <2>3, <2>4
  <1>4. LockoutNeedsCause /\ PasswordsAreThere
    BY <1>2, <1>3 DEF LockoutNeedsCause, PasswordsAreThere
  <1>5. \A d \in Doors : door[d].pc = "idle"
    BY DEF OidcInit, NoDoor
  <1> QED
    BY <1>4, <1>5 DEF WaysInOK, Counted

LEMMA WaysEnter ==
    ASSUME OidcInv, WaysInOK, NEW d \in Doors, NEW a \in Accounts, NEW s \in Subjects, unlink_identity(d, a, s)
    PROVE  WaysInOK'
  <1>1. door[d] = NoDoor /\ UNCHANGED <<account, ident, outrun, excused>> /\ Spare(a)
    BY CountLeavesOne DEF unlink_identity
  <1>2. \A e \in Doors : door'[e] = IF e = d THEN [NoDoor EXCEPT !.pc = "unlink", !.subject = s, !.acct = a] ELSE door[e]
    BY DEF unlink_identity, OidcInv, OidcTypeOK
  <1>3. door'[d].pc = "unlink" /\ door'[d].acct = a /\ door[d].pc = "idle"
    <2>1. door'[d] = [pc |-> "unlink", ticket |-> NoOne, subject |-> s, acct |-> a]
      BY <1>2 DEF NoDoor
    <2> QED
      BY <1>1, <2>1 DEF NoDoor
  <1>4. LockoutNeedsCause' /\ PasswordsAreThere'
    BY <1>1, <1>2, <1>3 DEF WaysInOK, LockoutNeedsCause, Identities, PasswordsAreThere
  <1>5. \A x \in Accounts : Spare(x)' <=> Spare(x)
    BY <1>1 DEF Spare, Identities
  <1>6. \A e \in Doors, x \in Accounts : Counted(e, x)' => Spare(x)
    BY <1>1, <1>2, <1>3 DEF WaysInOK, Counted
  <1> QED
    BY <1>4, <1>5, <1>6 DEF WaysInOK

LEMMA WaysUnlink ==
    ASSUME OidcInv, WaysInOK, NEW d \in Doors, unlink(d)
    PROVE  WaysInOK'
  <1> PICK a, x : a = door[d].acct /\ x = door[d].subject
    OBVIOUS
  <1>1. /\ door[d].pc = "unlink" /\ ident[x] = a /\ ident' = [ident EXCEPT ![x] = NoOne]
        /\ excused' = IF d \in outrun THEN excused \cup {a} ELSE excused
        /\ outrun' = (outrun \ {d}) \cup {e \in Doors \ {d} : door[e].pc = "unlink" /\ door[e].acct = a}
        /\ UNCHANGED account
    BY DEF unlink
  <1>2. a \in Accounts /\ x \in Subjects
    BY <1>1 DEF OidcInv, DoorsOK, DoorOK
  <1>3. \A e \in Doors : door'[e] = IF e = d THEN NoDoor ELSE door[e]
    BY DEF unlink, Leave, OidcInv, OidcTypeOK
  <1>4. \A y \in Accounts \ {a} : Identities(y)' = Identities(y)
    BY <1>1, <1>2, OidcAssumption DEF Identities, OidcInv, OidcTypeOK
  <1>5. Identities(a)' = Identities(a) \ {x}
    BY <1>1, <1>2, OidcAssumption DEF Identities, OidcInv, OidcTypeOK
  <1>6. LockoutNeedsCause'
    <2> SUFFICES ASSUME NEW y \in Accounts \ excused', account'[y].there
                 PROVE  \/ account'[y].password \/ Identities(y)' # {}
                        \/ \E e \in Doors : door'[e].pc = "link_new" /\ door'[e].acct = y
      BY DEF LockoutNeedsCause
    <2>1. CASE y = a
      <3>1. Counted(d, a)
        BY <1>1, <2>1 DEF Counted
      <3>2. Spare(a)
        BY <1>2, <3>1 DEF WaysInOK
      <3> QED
        BY <1>1, <1>5, <2>1, <3>2 DEF Spare
    <2>2. CASE y # a
      <3>1. \/ account[y].password \/ Identities(y) # {}
            \/ \E e \in Doors : door[e].pc = "link_new" /\ door[e].acct = y
        BY <1>1 DEF WaysInOK, LockoutNeedsCause
      <3> QED
        BY <1>1, <1>3, <1>4, <2>2, <3>1
    <2> QED
      BY <2>1, <2>2
  <1>7. ASSUME NEW e \in Doors, NEW y \in Accounts, Counted(e, y)' PROVE Spare(y)'
    <2>1. y # a /\ Counted(e, y)
      BY <1>1, <1>3, <1>7 DEF NoDoor, Counted
    <2>2. Spare(y)
      BY <2>1 DEF WaysInOK
    <2> QED
      BY <1>1, <1>4, <2>1, <2>2 DEF Spare
  <1>8. PasswordsAreThere'
    BY <1>1 DEF WaysInOK, PasswordsAreThere
  <1> QED
    BY <1>6, <1>7, <1>8 DEF WaysInOK

LEMMA WaysDelete ==
    ASSUME OidcInv, WaysInOK, delete_provider
    PROVE  WaysInOK'
  <1>1. UNCHANGED <<account, door, outrun>> /\ excused' = excused \cup {a \in Accounts : Identities(a) # {}}
    BY DEF delete_provider
  <1>2. LockoutNeedsCause' /\ PasswordsAreThere'
    BY <1>1 DEF WaysInOK, LockoutNeedsCause, PasswordsAreThere
  <1>3. ASSUME NEW d \in Doors, NEW a \in Accounts, Counted(d, a)' PROVE Spare(a)'
    <2>1. Spare(a) /\ Identities(a) = {}
      BY <1>1, <1>3 DEF WaysInOK, Counted
    <2> QED
      BY <1>1, <2>1 DEF Spare
  <1> QED
    BY <1>2, <1>3 DEF WaysInOK

LEMMA WaysFail ==
    ASSUME OidcInv, WaysInOK, NEW d \in Doors, Fails(d)
    PROVE  WaysInOK'
  <1>1. \A e \in Doors : e # d => door'[e] = door[e]
    BY DEF Fails, Leave, OidcInv, OidcTypeOK
  <1>2. door'[d].pc = "idle"
    BY DEF Fails, Leave, OidcInv, OidcTypeOK, NoDoor
  <1>3. /\ excused' = IF door[d].pc = "link_new" THEN excused \cup {door[d].acct} ELSE excused
        /\ outrun' = outrun \ {d} /\ UNCHANGED <<account, ident>>
    BY DEF Fails
  <1>4. PasswordsAreThere'
    BY <1>3 DEF WaysInOK, PasswordsAreThere
  <1>5. \A e \in Doors, a \in Accounts : Counted(e, a)' => Counted(e, a)
    BY <1>1, <1>2, <1>3 DEF Counted
  <1>6. \A a \in Accounts \ excused', e \in Doors : door[e].pc = "link_new" /\ door[e].acct = a =>
            door'[e].pc = "link_new" /\ door'[e].acct = a
    BY <1>1, <1>3
  <1> QED
    BY <1>3, <1>4, <1>5, <1>6, WaysGrow

\* A new account comes with a password, or with a handler that binds it.
LEMMA WaysNew ==
    ASSUME OidcInv, WaysInOK, NEW d \in Doors, provision_oidc_user(d) \/ create_with_flags(d)
    PROVE  WaysInOK'
  <1> PICK b : b = door[d].acct
    OBVIOUS
  <1>1. /\ door[d].pc \in {"provision", "create"} /\ ~account[b].there /\ UNCHANGED <<ident, outrun, excused>>
        /\ b \in Accounts
    BY DEF provision_oidc_user, create_with_flags, OidcInv, DoorsOK, DoorOK
  <1>2. \A e \in Doors : e # d => door'[e] = door[e]
    BY DEF provision_oidc_user, create_with_flags, Go, Leave, OidcInv, OidcTypeOK
  <1>3. \A a \in Accounts : a # b => account'[a] = account[a]
    BY DEF provision_oidc_user, create_with_flags, OidcInv, OidcTypeOK
  <1>4. ~account[b].password
    BY <1>1 DEF WaysInOK, PasswordsAreThere
  <1>5. account'[b].there /\ door'[d].pc # "unlink" /\ (account'[b].password \/ (door'[d].pc = "link_new" /\ door'[d].acct = b))
    <2>1. CASE provision_oidc_user(d)
      <3>1. account'[b] = [there |-> TRUE, password |-> FALSE, usable |-> TRUE, armed |-> FALSE]
        BY <1>1, <2>1 DEF provision_oidc_user, OidcInv, OidcTypeOK, NoAccount
      <3>2. door'[d].pc = "link_new" /\ door'[d].acct = b
        BY <2>1, OidcParts DEF provision_oidc_user, Go, OidcInv, DoorRecord
      <3> QED
        BY <3>1, <3>2
    <2>2. CASE create_with_flags(d)
      <3>1. account'[b] = [there |-> TRUE, password |-> TRUE, usable |-> TRUE, armed |-> FALSE]
        BY <1>1, <2>2 DEF create_with_flags, OidcInv, OidcTypeOK, NoAccount
      <3>2. door'[d] = NoDoor
        BY <2>2 DEF create_with_flags, Leave, OidcInv, OidcTypeOK
      <3> QED
        BY <3>1, <3>2 DEF NoDoor
    <2> QED
      BY <2>1, <2>2
  <1>6. PasswordsAreThere'
    BY <1>3, <1>5 DEF WaysInOK, PasswordsAreThere
  <1>7. \A e \in Doors, a \in Accounts : Counted(e, a)' => Counted(e, a)
    BY <1>1, <1>2, <1>5 DEF Counted
  <1> QED
    BY <1>1, <1>2, <1>3, <1>4, <1>5, <1>6, <1>7, WaysGrow

LEMMA WaysLink ==
    ASSUME OidcInv, WaysInOK, NEW d \in Doors, link_subject(d)
    PROVE  WaysInOK'
  <1>1. /\ door[d].pc \in {"link", "link_armed", "link_new"} /\ UNCHANGED <<account, outrun, excused>>
        /\ door[d].subject \in Subjects /\ ident[door[d].subject] = NoOne
        /\ ident' = [ident EXCEPT ![door[d].subject] = door[d].acct]
    BY DEF link_subject, OidcInv, DoorsOK, DoorOK
  <1>2. \A e \in Doors : e # d => door'[e] = door[e]
    BY DEF link_subject, Go, Leave, OidcInv, OidcTypeOK
  <1>3. door'[d].pc \in {"idle", "disarm", "usable"}
    BY OidcParts DEF link_subject, Go, Leave, OidcInv, NoDoor, DoorRecord
  <1>4. /\ \A s \in Subjects : ident[s] # NoOne => ident'[s] = ident[s]
        /\ ident'[door[d].subject] = door[d].acct
    BY <1>1 DEF OidcInv, OidcTypeOK
  <1>5. PasswordsAreThere'
    BY <1>1 DEF WaysInOK, PasswordsAreThere
  <1>6. \A e \in Doors, a \in Accounts : Counted(e, a)' => Counted(e, a)
    BY <1>1, <1>2, <1>3 DEF Counted
  <1>7. \A a \in Accounts \ excused', e \in Doors : door[e].pc = "link_new" /\ door[e].acct = a =>
               \/ door'[e].pc = "link_new" /\ door'[e].acct = a
               \/ \E s \in Subjects : ident'[s] = a
    BY <1>1, <1>2, <1>4
  <1> QED
    BY <1>1, <1>4, <1>5, <1>6, <1>7, WaysGrow

\* The account's other flags do not matter.
LEMMA WaysFlags ==
    ASSUME OidcInv, WaysInOK, UNCHANGED <<ident, outrun, excused>>,
           \A d \in Doors : door'[d] = door[d] \/ (door[d].pc = "disarm" /\ door'[d].pc = "usable"),
           \A a \in Accounts : account'[a].there = account[a].there /\ account'[a].password = account[a].password
    PROVE  WaysInOK'
  <1>1. PasswordsAreThere'
    BY DEF WaysInOK, PasswordsAreThere
  <1>2. \A e \in Doors, a \in Accounts : Counted(e, a)' => Counted(e, a)
    BY DEF Counted
  <1> QED
    BY <1>1, <1>2, WaysGrow

LEMMA WaysStep == OidcInv /\ WaysInOK /\ [OidcNext]_oidcVars => WaysInOK'
  <1> SUFFICES ASSUME OidcInv, WaysInOK, [OidcNext]_oidcVars PROVE WaysInOK'
    OBVIOUS
  <1> DEFINE Fine == WaysInOK'
  <1> HIDE DEF Fine
  <1>1. ASSUME UNCHANGED <<account, ident, door, outrun, excused>> PROVE Fine
    BY <1>1, WaysFlags DEF Fine
  <1>2. ASSUME NEW t \in Tickets, NEW a \in Accounts \cup {NoOne}, start(t, a) \/ device_start(t, a) \/ create_invitation(t, a)
        PROVE  Fine
    BY <1>1, <1>2 DEF start, device_start, create_invitation
  <1>3. ASSUME NEW t \in Tickets, ticket_expires(t) \/ revoke_invitation(t) PROVE Fine
    BY <1>1, <1>3 DEF ticket_expires, revoke_invitation
  <1>4. ASSUME NEW d \in Doors, NEW pc \in Points \ {"unlink", "link_new"}, door[d].pc # "link_new",
               UNCHANGED <<account, ident, outrun, excused>>,
               \A e \in Doors \ {d} : door'[e] = door[e], door'[d].pc = pc
        PROVE  Fine
    BY <1>4, WaysStay DEF Fine
  <1>5. ASSUME NEW d \in Doors, NEW t \in Tickets, callback(d, t) \/ device_poll(d, t) \/ register_invited(d, t)
        PROVE  Fine
    <2>1. UNCHANGED <<account, ident, outrun, excused>> /\ door[d].pc = "idle"
      BY <1>5 DEF callback, device_poll, register_invited, NoDoor
    <2>2. PICK pc \in {"exchange", "poll", "accept"} :
             \E l : door' = [door EXCEPT ![d] = [NoDoor EXCEPT !.pc = pc, !.ticket = t, !.acct = l]]
      BY <1>5 DEF callback, device_poll, register_invited
    <2>3. (\A e \in Doors \ {d} : door'[e] = door[e]) /\ door'[d].pc = pc
      BY <2>2 DEF OidcInv, OidcTypeOK, NoDoor
    <2> QED
      BY <1>4, <2>1, <2>3 DEF Points
  <1>6. ASSUME NEW d \in Doors, NEW a \in Accounts, register_open(d, a) PROVE Fine
    <2>1. UNCHANGED <<account, ident, outrun, excused>> /\ door[d].pc = "idle"
      BY <1>6 DEF register_open, NoDoor
    <2>2. (\A e \in Doors \ {d} : door'[e] = door[e]) /\ door'[d].pc = "create"
      BY <1>6 DEF OidcInv, OidcTypeOK, NoDoor, register_open
    <2> QED
      BY <1>4, <2>1, <2>2 DEF Points
  <1>7. ASSUME NEW d \in Doors, NEW s \in Subjects, exchange(d, s) \/ poll_approved(d, s) PROVE Fine
    <2>1. UNCHANGED <<account, ident, outrun, excused>> /\ door[d].pc \in {"exchange", "poll"}
      BY <1>7 DEF exchange, poll_approved
    <2>2. PICK pc \in {"lookup", "link", "consume"} : door' = [door EXCEPT ![d].pc = pc, ![d].subject = s]
      BY <1>7 DEF exchange, poll_approved, AfterProof
    <2>3. (\A e \in Doors \ {d} : door'[e] = door[e]) /\ door'[d].pc = pc
      BY <2>2, OidcParts DEF OidcInv, DoorRecord
    <2> QED
      BY <1>4, <2>1, <2>3 DEF Points
  <1>8. ASSUME NEW d \in Doors, \/ poll_rejected(d) \/ Consume(d) \/ resolve_login(d) \/ check_account_usable(d)
                                \/ establish_session(d) \/ mark_accepted_platform(d)
        PROVE  Fine
    <2>1. /\ UNCHANGED <<account, ident, outrun, excused>>
          /\ door[d].pc \in {"poll", "consume", "lookup", "usable", "session", "accept"}
      BY <1>8 DEF poll_rejected, Consume, resolve_login, check_account_usable, establish_session, mark_accepted_platform
    <2>2. CASE Leave(d)
      <3>1. (\A e \in Doors \ {d} : door'[e] = door[e]) /\ door'[d].pc = "idle"
        BY <2>2 DEF Leave, OidcInv, OidcTypeOK, NoDoor
      <3> QED
        BY <1>4, <2>1, <3>1 DEF Points
    <2>3. CASE \E pc \in Points \ {"unlink", "link_new"} : Go(d, pc)
      <3>1. PICK pc \in Points \ {"unlink", "link_new"} : Go(d, pc)
        BY <2>3
      <3>2. (\A e \in Doors \ {d} : door'[e] = door[e]) /\ door'[d].pc = pc
        BY <3>1, OidcParts DEF Go, OidcInv, DoorRecord
      <3> QED
        BY <1>4, <2>1, <3>2
    <2>4. CASE resolve_login(d) /\ ~Leave(d)
      <3>1. PICK pc \in {"usable", "link_armed", "provision"} : \E l : door' = [door EXCEPT ![d].pc = pc, ![d].acct = l]
        BY <2>4 DEF resolve_login
      <3>2. (\A e \in Doors \ {d} : door'[e] = door[e]) /\ door'[d].pc = pc
        BY <3>1, OidcParts DEF OidcInv, DoorRecord
      <3> QED
        BY <1>4, <2>1, <3>2 DEF Points
    <2> QED
      BY <1>8, <2>2, <2>3, <2>4
         DEF poll_rejected, Consume, consume_device_request, AfterProof, check_account_usable, establish_session,
             mark_accepted_platform, Points
  <1>9. ASSUME NEW d \in Doors, NEW closed \in BOOLEAN, close_link_window(d, closed) PROVE Fine
    <2>1. UNCHANGED <<ident, outrun, excused>> /\ door[d].pc = "disarm"
      BY <1>9 DEF close_link_window
    <2>2. (\A e \in Doors \ {d} : door'[e] = door[e]) /\ door'[d].pc = "usable"
      BY <1>9, OidcParts DEF close_link_window, Go, OidcInv, DoorRecord
    <2>3. PICK b : account' = [account EXCEPT ![door[d].acct].armed = b]
      BY <1>9 DEF close_link_window
    <2>4. \A a \in Accounts : account'[a].there = account[a].there /\ account'[a].password = account[a].password
      BY <2>3, OidcParts DEF OidcInv, AccountRecord
    <2> QED
      BY <2>1, <2>2, <2>4, WaysFlags DEF Fine
  <1>10. ASSUME NEW a \in Accounts, deactivate(a) \/ \E arm \in BOOLEAN : set_link_arm(a, arm) PROVE Fine
    <2>1. UNCHANGED <<ident, outrun, excused, door>>
      BY <1>10 DEF deactivate, set_link_arm
    <2>2. \A x \in Accounts : account'[x].there = account[x].there /\ account'[x].password = account[x].password
      BY <1>10, OidcParts DEF deactivate, set_link_arm, OidcInv, AccountRecord
    <2> QED
      BY <2>1, <2>2, WaysFlags DEF Fine
  <1>11. ASSUME \/ \E s \in Subjects : backchannel_logout(s)
                \/ \E on, jit \in BOOLEAN : update_provider(on, jit)
                \/ \E open \in BOOLEAN : update_settings(open)
                \/ UNCHANGED oidcVars
         PROVE  UNCHANGED <<account, ident, door, outrun, excused>>
    BY <1>11 DEF backchannel_logout, update_provider, update_settings, oidcVars
  <1>12. ASSUME NEW d \in Doors, Fails(d) \/ unlink(d) \/ provision_oidc_user(d) \/ create_with_flags(d) \/ link_subject(d)
         PROVE  Fine
    BY <1>12, WaysFail, WaysUnlink, WaysNew, WaysLink DEF Fine
  <1>13. ASSUME NEW d \in Doors, NEW a \in Accounts, NEW s \in Subjects, unlink_identity(d, a, s) PROVE Fine
    BY <1>13, WaysEnter DEF Fine
  <1>14. ASSUME delete_provider PROVE Fine
    BY <1>14, WaysDelete DEF Fine
  <1>15. Fine
    BY <1>1, <1>2, <1>3, <1>5, <1>6, <1>7, <1>8, <1>9, <1>10, <1>11, <1>12, <1>13, <1>14 DEF OidcNext
  <1> QED
    BY <1>15 DEF Fine

\* An account that is there keeps a way in, whatever crosses, unless it is
\* being provisioned or one of the named accidents struck: unlink_identity's
\* count protects the last identity from any number of handlers but those
\* whose count another unlink has overtaken.
THEOREM LockoutsHaveACause == OidcSpec => []LockoutNeedsCause
  <1>1. OidcInv /\ WaysInOK /\ [OidcNext]_oidcVars => (OidcInv /\ WaysInOK)'
    BY OidcInvStep, WaysStep
  <1>2. WaysInOK => LockoutNeedsCause
    BY DEF WaysInOK
  <1> QED
    BY <1>1, <1>2, OidcInvInit, WaysInit, PTL DEF OidcSpec

-----------------------------------------------------------------------------
(* Tokens.                                                                 *)

Client == [at : {"idle", "act", "insert", "update"}, id : AppIds \cup {Nothing}, who : Holders \cup AppIds \cup {Nothing},
           secret : Secrets \cup {Nothing}, grant : Grants \cup {Nothing}, scope : (SUBSET Spaces) \cup {Nothing},
           late : BOOLEAN]

\* A token that is being created is complete and nobody else's; a patch is of
\* a token that is there, and names projects that are; who acts has shown a
\* secret, and is entitled to act unless a change overtook the request.
ClientOK(h) ==
    LET c == client[h] IN
    /\ c.at = "insert" => /\ c.id \in AppIds \ DOMAIN app /\ c.secret \in minted /\ c.grant \in Grants
                          /\ c.scope \in SUBSET space /\ \A i \in Clients \ {h} : client[i].id # c.id
    /\ c.at = "update" => c.id \in DOMAIN app /\ (c.scope # Nothing => c.scope \in SUBSET space)
    /\ c.at = "act" => c.secret \in Secrets /\ (~c.late => Entitled(c))

TokenInv ==
    /\ TokenTypeOK /\ client \in [Clients -> Client]
    /\ \A h \in Clients : ClientOK(h)

LEMMA TokenInvInit == TokenInit => TokenInv
  <1> SUFFICES ASSUME TokenInit PROVE TokenInv
    OBVIOUS
  <1>1. Gone \in Client /\ Gone.at = "idle"
    BY DEF Gone, Client
  <1>2. client \in [Clients -> Client] /\ \A h \in Clients : client[h].at = "idle"
    BY <1>1 DEF TokenInit
  <1>3. personal \in [Holders -> [secret : minted \cup {Nothing}, off : BOOLEAN]]
    <2>1. NoRow \in [secret : minted \cup {Nothing}, off : BOOLEAN]
      BY DEF NoRow
    <2> QED
      BY <2>1 DEF TokenInit
  <1>4. TokenTypeOK
    BY <1>2, <1>3, TokensAssumption DEF TokenInit, TokenTypeOK
  <1>5. \A h \in Clients : ClientOK(h)
    BY <1>2 DEF ClientOK
  <1> QED
    BY <1>2, <1>4, <1>5 DEF TokenInv

LEMMA TokenTypes ==
  ASSUME TokenInv
  PROVE  /\ personal \in [Holders -> [secret : minted \cup {Nothing}, off : BOOLEAN]]
         /\ barred \subseteq Holders /\ space \subseteq Spaces /\ minted \subseteq Secrets /\ DOMAIN app \subseteq AppIds
         /\ \A t \in DOMAIN app : app[t] \in [secret : minted, grant : Grants, scope : SUBSET space,
                                              revoked : BOOLEAN, expired : BOOLEAN]
         /\ tokenOps \in 0 .. MaxTokenOps /\ client \in [Clients -> Client]
         /\ \A h \in Clients : client[h] \in Client /\ ClientOK(h)
  BY DEF TokenInv, TokenTypeOK

\* A request in flight: what follows it for the invariant.
LEMMA TokenFromParts ==
  ASSUME (personal \in [Holders -> [secret : minted \cup {Nothing}, off : BOOLEAN]])',
         (barred \subseteq Holders /\ space \subseteq Spaces /\ minted \subseteq Secrets /\ DOMAIN app \subseteq AppIds)',
         (\A t \in DOMAIN app : app[t] \in [secret : minted, grant : Grants, scope : SUBSET space,
                                              revoked : BOOLEAN, expired : BOOLEAN])',
         (tokenOps \in 0 .. MaxTokenOps)', (client \in [Clients -> Client])',
         \A h \in Clients : ClientOK(h)'
  PROVE  TokenInv'
  <1>1. \A h \in Clients : client'[h].at \in {"idle", "act", "insert", "update"}
    BY DEF Client
  <1> QED
    BY <1>1 DEF TokenInv, TokenTypeOK

LEMMA TokenRequest ==
  ASSUME TokenInv, Request
  PROVE  tokenOps' \in 0 .. MaxTokenOps
  BY TokenTypes, TokensAssumption DEF Request

\* One handler takes a step; rows stay.
LEMMA TokenClientStep ==
  ASSUME TokenInv, NEW h \in Clients, NEW c \in Client, client' = [client EXCEPT ![h] = c],
         UNCHANGED <<personal, barred, app, space>>, tokenOps' \in 0 .. MaxTokenOps,
         minted \subseteq minted', minted' \subseteq Secrets,
         \A i \in Clients : client[i].at = "insert" => client[i].id # c.id,
         c.at = "insert" => /\ c.id \in AppIds \ DOMAIN app /\ c.secret \in minted' /\ c.grant \in Grants
                            /\ c.scope \in SUBSET space /\ \A i \in Clients : client[i].id # c.id,
         c.at = "update" => c.id \in DOMAIN app /\ (c.scope # Nothing => c.scope \in SUBSET space),
         c.at = "act" => c.secret \in Secrets /\ Entitled(c)
  PROVE  TokenInv'
  <1>1. client' \in [Clients -> Client] /\ client'[h] = c /\ \A i \in Clients \ {h} : client'[i] = client[i]
    BY TokenTypes
  <1>2. \A d : Entitled(d)' <=> Entitled(d)
    BY DEF Entitled
  <1>3. ClientOK(h)'
    BY <1>1, <1>2 DEF ClientOK
  <1>4. ASSUME NEW i \in Clients \ {h} PROVE ClientOK(i)'
    <2>1. ClientOK(i) /\ client'[i] = client[i]
      BY <1>1, TokenTypes
    <2>2. client[i].at = "insert" => \A j \in Clients \ {i} : client'[j].id # client[i].id
      BY <1>1, <2>1 DEF ClientOK
    <2> QED
      BY <1>2, <2>1, <2>2 DEF ClientOK
  <1>5. /\ personal' \in [Holders -> [secret : minted' \cup {Nothing}, off : BOOLEAN]]
        /\ \A t \in DOMAIN app : app[t] \in [secret : minted', grant : Grants, scope : SUBSET space,
                                              revoked : BOOLEAN, expired : BOOLEAN]
    BY TokenTypes
  <1>6. \A i \in Clients : ClientOK(i)'
    BY <1>3, <1>4
  <1>7. barred \subseteq Holders /\ space \subseteq Spaces /\ DOMAIN app \subseteq AppIds
    BY TokenTypes
  <1> QED
    BY <1>1, <1>5, <1>6, <1>7, TokenFromParts

\* A change at x tells the requests that x makes.
LEMMA TokenOvertaken ==
  ASSUME TokenInv, NEW x, Overtake({x}), NEW h \in Clients
  PROVE  /\ client'[h] \in Client
         /\ client'[h].at = client[h].at /\ client'[h].id = client[h].id /\ client'[h].who = client[h].who
         /\ client'[h].secret = client[h].secret /\ client'[h].grant = client[h].grant /\ client'[h].scope = client[h].scope
         /\ client[h].at = "act" /\ client[h].who = x => client'[h].late
         /\ client[h].at = "act" /\ client[h].who # x => client'[h] = client[h]
  <1>1. client[h] \in Client
    BY TokenTypes
  <1>2. client'[h] = IF client[h].at = "act" /\ client[h].who = x THEN [client[h] EXCEPT !.late = TRUE] ELSE client[h]
    BY DEF Overtake
  <1>3. CASE client[h].at = "act" /\ client[h].who = x
    <2>1. client'[h] = [client[h] EXCEPT !.late = TRUE]
      BY <1>2, <1>3
    <2> QED
      BY <1>1, <1>3, <2>1 DEF Client
  <1>4. CASE ~(client[h].at = "act" /\ client[h].who = x)
    <2>1. client'[h] = client[h]
      BY <1>2, <1>4
    <2> QED
      BY <1>1, <1>4, <2>1
  <1> QED
    BY <1>3, <1>4

LEMMA TokenChanged ==
  ASSUME TokenInv, NEW x, Overtake({x}), space' = space, minted \subseteq minted', DOMAIN app' = DOMAIN app,
         \A y \in Holders \ {x} : personal'[y] = personal[y] /\ (y \in barred' <=> y \in barred),
         \A y \in DOMAIN app \ {x} : app'[y] = app[y],
         (personal \in [Holders -> [secret : minted \cup {Nothing}, off : BOOLEAN]])',
         (barred \subseteq Holders /\ minted \subseteq Secrets)',
         (\A t \in DOMAIN app : app[t] \in [secret : minted, grant : Grants, scope : SUBSET space,
                                              revoked : BOOLEAN, expired : BOOLEAN])',
         tokenOps' \in 0 .. MaxTokenOps
  PROVE  TokenInv'
  <1>1. client' \in [Clients -> Client]
    <2>1. client' = [h \in Clients |-> client'[h]]
      BY DEF Overtake
    <2> QED
      BY <2>1, TokenOvertaken
  <1>2. ASSUME NEW h \in Clients PROVE ClientOK(h)'
    <2> DEFINE c == client[h]
               d == client'[h]
    <2>1. /\ d.at = c.at /\ d.id = c.id /\ d.who = c.who /\ d.secret = c.secret /\ d.grant = c.grant /\ d.scope = c.scope
          /\ c.at = "act" /\ c.who = x => d.late
          /\ c.at = "act" /\ c.who # x => d = c
      BY ONLY TokenInv, Overtake({x}), h \in Clients, TokenOvertaken
    <2>2. ClientOK(h)
      BY TokenTypes
    <2>3. d.at = "insert" => /\ d.id \in AppIds \ DOMAIN app' /\ d.secret \in minted' /\ d.grant \in Grants
                             /\ d.scope \in SUBSET space' /\ \A i \in Clients \ {h} : client'[i].id # d.id
      <3>1. \A i \in Clients : client'[i].id = client[i].id
        BY TokenOvertaken
      <3> QED
        BY <2>1, <2>2, <3>1 DEF ClientOK
    <2>4. d.at = "update" => d.id \in DOMAIN app' /\ (d.scope # Nothing => d.scope \in SUBSET space')
      BY <2>1, <2>2 DEF ClientOK
    <2>5. d.at = "act" /\ ~d.late => Entitled(client[h])'
      <3> SUFFICES ASSUME d.at = "act", ~d.late PROVE Entitled(client[h])'
        OBVIOUS
      <3>1. c.at = "act" /\ c.who # x /\ d = c
        BY <2>1
      <3>2. Entitled(c)
        BY <2>2, <3>1 DEF ClientOK
      <3> HIDE DEF c, d
      <3>3. \/ d.who \in Holders \ barred' /\ personal'[d.who] = [secret |-> d.secret, off |-> FALSE]
            \/ /\ d.who \in DOMAIN app'
               /\ app'[d.who] = [secret |-> d.secret, grant |-> d.grant, scope |-> d.scope,
                                 revoked |-> FALSE, expired |-> FALSE]
        BY <3>1, <3>2 DEF Entitled
      <3> QED
        BY <3>3 DEF Entitled, d
    <2>6. d.at = "act" => d.secret \in Secrets
      BY <2>1, <2>2 DEF ClientOK
    <2> QED
      BY <2>3, <2>4, <2>5, <2>6 DEF ClientOK
  <1>3. space \subseteq Spaces /\ DOMAIN app \subseteq AppIds
    BY TokenTypes
  <1> QED
    BY <1>1, <1>2, <1>3, TokenFromParts

LEMMA TokenAuthenticate ==
  ASSUME TokenInv, NEW h \in Clients, NEW s \in Secrets, authenticate(h, s)
  PROVE  TokenInv'
  <1>1. Gone \in Client /\ Gone.at = "idle" /\ Gone.id = Nothing
    BY DEF Gone, Client
  <1>2. \A i \in Clients : client[i].at = "insert" => client[i].id # Nothing
    BY TokenTypes, TokensAssumption DEF ClientOK
  <1>3. tokenOps' \in 0 .. MaxTokenOps
    BY TokenRequest DEF authenticate
  <1>4. UNCHANGED <<personal, barred, app, space, minted>> /\ minted \subseteq Secrets
    BY TokenTypes DEF authenticate
  <1>5. CASE \E u \in find_personal(s) : TRUE
    <2>1. PICK u : u = CHOOSE v \in find_personal(s) : TRUE
      OBVIOUS
    <2>2. u \in find_personal(s)
      BY <1>5, <2>1
    <2> DEFINE c == [Gone EXCEPT !.at = "act", !.who = u, !.secret = s]
    <2>3. u \in Holders /\ u \notin barred /\ personal[u] = [secret |-> s, off |-> FALSE]
      BY <2>2 DEF find_personal
    <2>4. c \in Client /\ c.at = "act" /\ c.id = Nothing /\ c.who = u /\ c.secret = s
      BY <2>3 DEF Gone, Client
    <2>5. client' = [client EXCEPT ![h] = c]
      BY <1>5, <2>1 DEF authenticate
    <2> HIDE DEF c
    <2>6. Entitled(c)
      BY <2>3, <2>4 DEF Entitled
    <2> QED
      BY <1>2, <1>3, <1>4, <2>4, <2>5, <2>6, TokenClientStep
  <1>6. CASE ~(\E u \in find_personal(s) : TRUE) /\ \E t \in find_app(s) : TRUE
    <2>1. PICK t : t = CHOOSE x \in find_app(s) : TRUE
      OBVIOUS
    <2>2. t \in find_app(s)
      BY <1>6, <2>1
    <2> DEFINE c == [Gone EXCEPT !.at = "act", !.who = t, !.secret = s, !.grant = app[t].grant, !.scope = app[t].scope]
    <2>3. t \in DOMAIN app /\ app[t].secret = s /\ ~app[t].revoked /\ ~app[t].expired
      BY <2>2 DEF find_app
    <2>4. t \in AppIds /\ app[t] \in [secret : minted, grant : Grants, scope : SUBSET space, revoked : BOOLEAN, expired : BOOLEAN]
      BY <2>3, TokenTypes
    <2>5. app[t].grant \in Grants /\ app[t].scope \in SUBSET Spaces
      BY <2>4, TokenTypes
    <2>6. c \in Client /\ c.at = "act" /\ c.id = Nothing /\ c.who = t /\ c.secret = s /\ c.grant = app[t].grant /\ c.scope = app[t].scope
      BY <2>4, <2>5 DEF Gone, Client
    <2>7. client' = [client EXCEPT ![h] = c]
      BY <1>6, <2>1 DEF authenticate
    <2> HIDE DEF c
    <2>8. app[t].revoked = FALSE /\ app[t].expired = FALSE
      BY <2>3, <2>4
    <2>9. app[t] = [secret |-> c.secret, grant |-> c.grant, scope |-> c.scope, revoked |-> FALSE, expired |-> FALSE]
      BY <2>3, <2>4, <2>6, <2>8
    <2>10. Entitled(c)
      BY <2>3, <2>6, <2>9 DEF Entitled
    <2> QED
      BY <1>2, <1>3, <1>4, <2>6, <2>7, <2>10, TokenClientStep
  <1>7. CASE ~(\E u \in find_personal(s) : TRUE) /\ ~(\E t \in find_app(s) : TRUE)
    <2>1. client' = [client EXCEPT ![h] = Gone]
      BY <1>7 DEF authenticate
    <2> QED
      BY <1>1, <1>2, <1>3, <1>4, <2>1, TokenClientStep
  <1> QED
    BY <1>5, <1>6, <1>7

LEMMA TokenAnswer ==
  ASSUME TokenInv, NEW h \in Clients, answer(h)
  PROVE  TokenInv'
  <1>1. Gone \in Client /\ Gone.at = "idle" /\ Gone.id = Nothing
    BY DEF Gone, Client
  <1>2. \A i \in Clients : client[i].at = "insert" => client[i].id # Nothing
    BY TokenTypes, TokensAssumption DEF ClientOK
  <1>3. client' = [client EXCEPT ![h] = Gone] /\ UNCHANGED <<personal, barred, app, space, minted, tokenOps>>
    BY DEF answer
  <1>4. minted' \subseteq Secrets /\ tokenOps' \in 0 .. MaxTokenOps
    BY <1>3, TokenTypes
  <1> QED
    BY <1>1, <1>2, <1>3, <1>4, TokenClientStep

LEMMA TokenAppBegins ==
  ASSUME TokenInv, NEW h \in Clients, NEW t \in AppIds, NEW s \in Secrets, NEW g \in Grants, NEW S \in SUBSET Spaces,
         create_app_token(h, t, s, g, S)
  PROVE  TokenInv'
  <1> DEFINE c == [Gone EXCEPT !.at = "insert", !.id = t, !.secret = s, !.grant = g, !.scope = S]
  <1>1. c \in Client /\ c.at = "insert" /\ c.id = t /\ c.secret = s /\ c.grant = g /\ c.scope = S
    BY DEF Gone, Client
  <1>2. client' = [client EXCEPT ![h] = c] /\ t \notin DOMAIN app /\ \A i \in Clients : client[i].id # t
    BY DEF create_app_token
  <1>3. S \in SUBSET space
    BY TokensAssumption DEF create_app_token, projects_all_exist
  <1>4. tokenOps' \in 0 .. MaxTokenOps
    BY TokenRequest DEF create_app_token
  <1>5. UNCHANGED <<personal, barred, app, space>> /\ minted' = minted \cup {s} /\ minted' \subseteq Secrets
    BY TokenTypes DEF create_app_token, Mint
  <1> HIDE DEF c
  <1> QED
    BY <1>1, <1>2, <1>3, <1>4, <1>5, TokenClientStep

LEMMA TokenPatchBegins ==
  ASSUME TokenInv, NEW h \in Clients, NEW t \in AppIds, NEW g \in Grants \cup {Nothing}, NEW S \in (SUBSET Spaces) \cup {Nothing},
         update_app_token(h, t, g, S)
  PROVE  TokenInv'
  <1> DEFINE c == [Gone EXCEPT !.at = "update", !.id = t, !.grant = g, !.scope = S]
  <1>1. c \in Client /\ c.at = "update" /\ c.id = t /\ c.scope = S
    BY DEF Gone, Client
  <1>2. client' = [client EXCEPT ![h] = c] /\ t \in DOMAIN app
    BY DEF update_app_token
  <1>3. S # Nothing => S \in SUBSET space
    BY DEF update_app_token, projects_all_exist
  <1>4. tokenOps' \in 0 .. MaxTokenOps
    BY TokenRequest DEF update_app_token
  <1>5. UNCHANGED <<personal, barred, app, space, minted>> /\ minted' \subseteq Secrets
    BY TokenTypes DEF update_app_token
  <1>6. \A i \in Clients : client[i].at = "insert" => client[i].id # t
    BY <1>2, TokenTypes DEF ClientOK
  <1> HIDE DEF c
  <1> QED
    BY <1>1, <1>2, <1>3, <1>4, <1>5, <1>6, TokenClientStep

\* The personal token of u, and the account.
LEMMA TokenPersonal ==
  ASSUME TokenInv, NEW u \in Holders, Request, Overtake({u}), UNCHANGED <<app, space>>,
         minted \subseteq minted', minted' \subseteq Secrets, barred' \subseteq Holders,
         \A y \in Holders \ {u} : y \in barred' <=> y \in barred,
         NEW r \in [secret : minted' \cup {Nothing}, off : BOOLEAN], personal' = [personal EXCEPT ![u] = r]
  PROVE  TokenInv'
  <1>1. personal \in [Holders -> [secret : minted' \cup {Nothing}, off : BOOLEAN]]
    BY TokenTypes
  <1>2. personal' \in [Holders -> [secret : minted' \cup {Nothing}, off : BOOLEAN]] /\ \A y \in Holders \ {u} : personal'[y] = personal[y]
    BY <1>1
  <1>3. \A t \in DOMAIN app : app[t] \in [secret : minted', grant : Grants, scope : SUBSET space, revoked : BOOLEAN, expired : BOOLEAN]
    BY TokenTypes
  <1>4. tokenOps' \in 0 .. MaxTokenOps
    BY TokenRequest
  <1> QED
    BY <1>2, <1>3, <1>4, TokenChanged

LEMMA TokenReset ==
  ASSUME TokenInv, NEW u \in Holders, NEW s \in Secrets, reset_token(u, s)
  PROVE  TokenInv'
  <1>1. PICK r \in [secret : minted' \cup {Nothing}, off : BOOLEAN] : personal' = [personal EXCEPT ![u] = r]
    <2>1. CASE personal[u] = NoRow
      <3>1. personal' = [personal EXCEPT ![u] = personal[u]] /\ personal[u] \in [secret : minted' \cup {Nothing}, off : BOOLEAN]
        BY <2>1, TokenTypes DEF reset_token, Mint
      <3> QED
        BY <3>1
    <2>2. CASE personal[u] # NoRow
      <3>1. s \in minted' \cup {Nothing}
        BY DEF reset_token, Mint
      <3> QED
        BY <2>2, <3>1 DEF reset_token
    <2> QED
      BY <2>1, <2>2
  <1>2. /\ Request /\ Overtake({u}) /\ UNCHANGED <<app, space>> /\ minted \subseteq minted' /\ minted' \subseteq Secrets
        /\ barred' = barred /\ barred' \subseteq Holders
    BY TokenTypes DEF reset_token, Mint
  <1> QED
    BY <1>1, <1>2, TokenPersonal

LEMMA TokenDisabled ==
  ASSUME TokenInv, NEW u \in Holders, NEW off \in BOOLEAN, set_disabled(u, off)
  PROVE  TokenInv'
  <1> DEFINE r == [personal[u] EXCEPT !.off = off]
  <1>1. personal' = [personal EXCEPT ![u] = r] /\ minted' = minted
    BY DEF set_disabled
  <1>2. personal[u] \in [secret : minted \cup {Nothing}, off : BOOLEAN]
    BY TokenTypes
  <1>3. r \in [secret : minted' \cup {Nothing}, off : BOOLEAN]
    BY <1>1, <1>2
  <1>4. /\ Request /\ Overtake({u}) /\ UNCHANGED <<app, space>> /\ minted \subseteq minted' /\ minted' \subseteq Secrets
        /\ barred' = barred /\ barred' \subseteq Holders
    BY TokenTypes DEF set_disabled
  <1> HIDE DEF r
  <1> QED
    BY <1>1, <1>3, <1>4, TokenPersonal

LEMMA TokenDeleted ==
  ASSUME TokenInv, NEW u \in Holders, delete_token(u)
  PROVE  TokenInv'
  <1>1. NoRow \in [secret : minted' \cup {Nothing}, off : BOOLEAN] /\ personal' = [personal EXCEPT ![u] = NoRow]
    BY DEF delete_token, NoRow
  <1>2. /\ Request /\ Overtake({u}) /\ UNCHANGED <<app, space>> /\ minted \subseteq minted' /\ minted' \subseteq Secrets
        /\ barred' = barred /\ barred' \subseteq Holders
    BY TokenTypes DEF delete_token
  <1> QED
    BY <1>1, <1>2, TokenPersonal

LEMMA TokenAccount ==
  ASSUME TokenInv, NEW u \in Holders, account_changes(u)
  PROVE  TokenInv'
  <1>1. /\ personal' = [personal EXCEPT ![u] = personal[u]] /\ minted' = minted
        /\ personal[u] \in [secret : minted' \cup {Nothing}, off : BOOLEAN]
    BY TokenTypes DEF account_changes
  <1>2. /\ Request /\ Overtake({u}) /\ UNCHANGED <<app, space>> /\ minted \subseteq minted' /\ minted' \subseteq Secrets
        /\ barred' \subseteq Holders /\ \A y \in Holders \ {u} : y \in barred' <=> y \in barred
    BY TokenTypes DEF account_changes
  <1> QED
    BY <1>1, <1>2, TokenPersonal

\* An application token is revoked, or expires.
LEMMA TokenAppEnds ==
  ASSUME TokenInv, NEW t \in AppIds, revoke_app_token(t) \/ expire_app_token(t)
  PROVE  TokenInv'
  <1>1. t \in DOMAIN app /\ Request /\ Overtake({t}) /\ UNCHANGED <<personal, barred, space, minted>>
    BY DEF revoke_app_token, expire_app_token
  <1>2. app' = [app EXCEPT ![t] = [@ EXCEPT !.revoked = TRUE]] \/ app' = [app EXCEPT ![t] = [@ EXCEPT !.expired = TRUE]]
    BY DEF revoke_app_token, expire_app_token
  <1>3. app[t] \in [secret : minted, grant : Grants, scope : SUBSET space, revoked : BOOLEAN, expired : BOOLEAN]
    BY <1>1, TokenTypes
  <1>4. PICK r \in [secret : minted, grant : Grants, scope : SUBSET space, revoked : BOOLEAN, expired : BOOLEAN] :
          app' = [app EXCEPT ![t] = r]
    <2>1. CASE app' = [app EXCEPT ![t] = [@ EXCEPT !.revoked = TRUE]]
      BY <1>1, <1>3, <2>1
    <2>2. CASE app' = [app EXCEPT ![t] = [@ EXCEPT !.expired = TRUE]]
      BY <1>1, <1>3, <2>2
    <2> QED
      BY <1>2, <2>1, <2>2
  <1>5. DOMAIN app' = DOMAIN app /\ \A y \in DOMAIN app \ {t} : app'[y] = app[y]
    BY <1>4
  <1>6. \A y \in DOMAIN app : app'[y] \in [secret : minted, grant : Grants, scope : SUBSET space, revoked : BOOLEAN, expired : BOOLEAN]
    BY <1>1, <1>4, TokenTypes
  <1>7. tokenOps' \in 0 .. MaxTokenOps
    BY <1>1, TokenRequest
  <1> QED
    BY <1>1, <1>5, <1>6, <1>7, TokenTypes, TokenChanged

\* Handlers stay as they are, and the rows that entitle them too.
LEMMA TokenCalm ==
  ASSUME TokenInv, client' = client, app' = app, barred' = barred, minted \subseteq minted', minted' \subseteq Secrets,
         space \subseteq space', space' \subseteq Spaces, tokenOps' \in 0 .. MaxTokenOps,
         personal' \in [Holders -> [secret : minted' \cup {Nothing}, off : BOOLEAN]],
         \A y \in Holders : personal[y].secret # Nothing => personal'[y] = personal[y]
  PROVE  TokenInv'
  <1>1. ASSUME NEW h \in Clients PROVE ClientOK(h)'
    <2>1. ClientOK(h)
      BY TokenTypes
    <2>2. client[h].at = "act" /\ ~client[h].late => Entitled(client[h])'
      <3> SUFFICES ASSUME client[h].at = "act", ~client[h].late PROVE Entitled(client[h])'
        OBVIOUS
      <3>1. PICK c : c = client[h]
        OBVIOUS
      <3>2. Entitled(c) /\ c.secret \in Secrets
        BY <2>1, <3>1 DEF ClientOK
      <3>3. c.secret # Nothing
        BY <3>2, TokensAssumption
      <3>4. CASE c.who \in Holders \ barred /\ personal[c.who] = [secret |-> c.secret, off |-> FALSE]
        <4>1. personal'[c.who] = personal[c.who]
          BY <3>3, <3>4
        <4> QED
          BY <3>1, <3>4, <4>1 DEF Entitled
      <3>5. CASE ~(c.who \in Holders \ barred /\ personal[c.who] = [secret |-> c.secret, off |-> FALSE])
        BY <3>1, <3>2, <3>5 DEF Entitled
      <3> QED
        BY <3>4, <3>5
    <2> QED
      BY <2>1, <2>2 DEF ClientOK
  <1>2. \A t \in DOMAIN app : app[t] \in [secret : minted', grant : Grants, scope : SUBSET space', revoked : BOOLEAN, expired : BOOLEAN]
    BY TokenTypes
  <1>3. barred \subseteq Holders /\ DOMAIN app \subseteq AppIds /\ client \in [Clients -> Client]
    BY TokenTypes
  <1> QED
    BY <1>1, <1>2, <1>3, TokenFromParts

LEMMA TokenCreated ==
  ASSUME TokenInv, NEW u \in Holders, NEW s \in Secrets, create_token(u, s)
  PROVE  TokenInv'
  <1>1. /\ UNCHANGED <<barred, app, space, client>> /\ minted' = minted \cup {s} /\ minted' \subseteq Secrets
        /\ space' \subseteq Spaces
    BY TokenTypes DEF create_token, Mint
  <1>2. tokenOps' \in 0 .. MaxTokenOps
    BY TokenRequest DEF create_token
  <1>3. personal \in [Holders -> [secret : minted' \cup {Nothing}, off : BOOLEAN]]
    BY <1>1, TokenTypes
  <1>4. CASE personal[u] = NoRow
    <2>1. personal' = [personal EXCEPT ![u] = [@ EXCEPT !.secret = s]]
      BY <1>4 DEF create_token
    <2>2. PICK r \in [secret : minted' \cup {Nothing}, off : BOOLEAN] : r = [personal[u] EXCEPT !.secret = s]
      BY <1>1, <1>3
    <2>3. personal' = [personal EXCEPT ![u] = r]
      BY <2>1, <2>2
    <2>4. personal' \in [Holders -> [secret : minted' \cup {Nothing}, off : BOOLEAN]] /\ \A y \in Holders \ {u} : personal'[y] = personal[y]
      BY <1>3, <2>3
    <2>5. personal[u].secret = Nothing
      BY <1>4 DEF NoRow
    <2> QED
      BY <1>1, <1>2, <2>4, <2>5, TokenCalm
  <1>5. CASE personal[u] # NoRow
    <2>1. personal' = personal
      BY <1>5 DEF create_token
    <2> QED
      BY <1>1, <1>2, <1>3, <2>1, TokenCalm
  <1> QED
    BY <1>4, <1>5

LEMMA TokenSpaceCreated ==
  ASSUME TokenInv, NEW p \in Spaces, create_space(p)
  PROVE  TokenInv'
  <1>1. UNCHANGED <<personal, barred, app, minted, client>> /\ space' = space \cup {p} /\ space' \subseteq Spaces
    BY TokenTypes DEF create_space
  <1>2. tokenOps' \in 0 .. MaxTokenOps
    BY TokenRequest DEF create_space
  <1>3. minted' \subseteq Secrets /\ personal' \in [Holders -> [secret : minted' \cup {Nothing}, off : BOOLEAN]]
    BY <1>1, TokenTypes
  <1> QED
    BY <1>1, <1>2, <1>3, TokenCalm

\* The token and its scope are written.
LEMMA TokenInserted ==
  ASSUME TokenInv, NEW h \in Clients, insert_app_token(h)
  PROVE  TokenInv'
  <1>0. PICK c : c = client[h]
    OBVIOUS
  <1> DEFINE row == [secret |-> c.secret, grant |-> c.grant, scope |-> c.scope, revoked |-> FALSE, expired |-> FALSE]
  <1>1. c.at = "insert" /\ ClientOK(h)
    BY <1>0, TokenTypes DEF insert_app_token
  <1>2. /\ c.id \in AppIds \ DOMAIN app /\ c.secret \in minted /\ c.grant \in Grants /\ c.scope \in SUBSET space
        /\ \A i \in Clients \ {h} : client[i].id # c.id
    BY <1>0, <1>1 DEF ClientOK
  <1>3. row \in [secret : minted, grant : Grants, scope : SUBSET space, revoked : BOOLEAN, expired : BOOLEAN]
    BY <1>2
  <1>4. /\ DOMAIN app' = DOMAIN app \cup {c.id} /\ app'[c.id] = row /\ \A t \in DOMAIN app : app'[t] = app[t]
        /\ UNCHANGED <<personal, barred, space, minted, tokenOps>>
    BY <1>0, <1>2 DEF insert_app_token
  <1> HIDE DEF row
  <1>5. Gone \in Client /\ Gone.at = "idle" /\ Gone.id = Nothing
    BY DEF Gone, Client
  <1>6. client' \in [Clients -> Client] /\ client'[h] = Gone /\ \A i \in Clients \ {h} : client'[i] = client[i]
    BY <1>5, TokenTypes DEF insert_app_token
  <1>7. ASSUME NEW i \in Clients PROVE ClientOK(i)'
    <2>1. CASE i = h
      BY <1>5, <1>6, <2>1 DEF ClientOK
    <2>2. CASE i # h
      <3>1. client'[i] = client[i] /\ ClientOK(i)
        BY <1>6, <2>2, TokenTypes
      <3>2. client[i].at = "insert" =>
              client[i].id \in AppIds \ DOMAIN app' /\ \A j \in Clients \ {i} : client'[j].id # client[i].id
        BY <1>2, <1>4, <1>5, <1>6, <2>2, <3>1, TokensAssumption DEF ClientOK
      <3>3. client[i].at = "act" /\ ~client[i].late => Entitled(client[i])'
        <4> SUFFICES ASSUME client[i].at = "act", ~client[i].late PROVE Entitled(client[i])'
          OBVIOUS
        <4>1. Entitled(client[i])
          BY <3>1 DEF ClientOK
        <4> QED
          BY <1>4, <3>1, <4>1 DEF Entitled
      <3> QED
        BY <1>4, <3>1, <3>2, <3>3 DEF ClientOK
    <2> QED
      BY <2>1, <2>2
  <1>8. \A t \in DOMAIN app' : app'[t] \in [secret : minted, grant : Grants, scope : SUBSET space, revoked : BOOLEAN, expired : BOOLEAN]
    BY <1>3, <1>4, TokenTypes
  <1>9. /\ personal' \in [Holders -> [secret : minted' \cup {Nothing}, off : BOOLEAN]] /\ barred' \subseteq Holders
        /\ space' \subseteq Spaces /\ minted' \subseteq Secrets /\ DOMAIN app' \subseteq AppIds
        /\ tokenOps' \in 0 .. MaxTokenOps
    BY <1>2, <1>4, TokenTypes
  <1> QED
    BY <1>4, <1>6, <1>7, <1>8, <1>9, TokenFromParts

\* The fields of the patch are written.
LEMMA TokenWritten ==
  ASSUME TokenInv, NEW h \in Clients, write_app_token(h)
  PROVE  TokenInv'
  <1>0. PICK c : c = client[h]
    OBVIOUS
  <1>1. c.at = "update" /\ ClientOK(h) /\ c \in Client
    BY <1>0, TokenTypes DEF write_app_token
  <1>2. c.id \in DOMAIN app /\ (c.scope # Nothing => c.scope \in SUBSET space) /\ c.grant \in Grants \cup {Nothing}
    BY <1>0, <1>1 DEF ClientOK, Client
  <1>3. app[c.id] \in [secret : minted, grant : Grants, scope : SUBSET space, revoked : BOOLEAN, expired : BOOLEAN]
    BY <1>2, TokenTypes
  <1>4. PICK g : g = IF c.grant = Nothing THEN app[c.id].grant ELSE c.grant
    OBVIOUS
  <1>5. PICK S : S = IF c.scope = Nothing THEN app[c.id].scope ELSE c.scope
    OBVIOUS
  <1>6. g \in Grants /\ S \in SUBSET space
    BY <1>2, <1>3, <1>4, <1>5
  <1>7. PICK r : r = [app[c.id] EXCEPT !.grant = g, !.scope = S]
    OBVIOUS
  <1>8. r \in [secret : minted, grant : Grants, scope : SUBSET space, revoked : BOOLEAN, expired : BOOLEAN]
    BY <1>3, <1>6, <1>7
  <1>9. /\ DOMAIN app' = DOMAIN app /\ app'[c.id] = r /\ \A t \in DOMAIN app \ {c.id} : app'[t] = app[t]
        /\ UNCHANGED <<personal, barred, space, minted, tokenOps>>
    BY <1>0, <1>2, <1>3, <1>4, <1>5, <1>7 DEF write_app_token
  <1>10. Gone \in Client /\ Gone.at = "idle" /\ Gone.id = Nothing
    BY DEF Gone, Client
  <1>11. client'[h] = Gone
    BY DEF write_app_token
  <1>12. ASSUME NEW i \in Clients \ {h}
         PROVE  /\ client'[i] \in Client
                /\ client'[i].at = client[i].at /\ client'[i].id = client[i].id /\ client'[i].who = client[i].who
                /\ client'[i].secret = client[i].secret /\ client'[i].grant = client[i].grant
                /\ client'[i].scope = client[i].scope
                /\ client[i].who = c.id => client'[i].late
                /\ client[i].who # c.id => client'[i] = client[i]
    <2>1. client[i] \in Client
      BY TokenTypes
    <2>2. client'[i] = IF client[i].who = c.id THEN [client[i] EXCEPT !.late = TRUE] ELSE client[i]
      BY <1>0 DEF write_app_token
    <2>3. CASE client[i].who = c.id
      <3>1. client'[i] = [client[i] EXCEPT !.late = TRUE]
        BY <2>2, <2>3
      <3> QED
        BY <2>1, <2>3, <3>1 DEF Client
    <2>4. CASE client[i].who # c.id
      <3>1. client'[i] = client[i]
        BY <2>2, <2>4
      <3> QED
        BY <2>1, <2>4, <3>1
    <2> QED
      BY <2>3, <2>4
  <1>13. client' \in [Clients -> Client]
    <2>1. client' = [i \in Clients |-> client'[i]]
      BY DEF write_app_token
    <2>2. \A i \in Clients : client'[i] \in Client
      BY <1>10, <1>11, <1>12
    <2> QED
      BY <2>1, <2>2
  <1>14. ASSUME NEW i \in Clients PROVE ClientOK(i)'
    <2>1. CASE i = h
      BY <1>10, <1>11, <2>1 DEF ClientOK
    <2>2. CASE i # h
      <3>1. ClientOK(i)
        BY TokenTypes
      <3>2. client[i].at = "insert" => \A j \in Clients \ {i} : client'[j].id # client[i].id
        BY <1>10, <1>11, <1>12, <2>2, <3>1, TokensAssumption DEF ClientOK
      <3>3. client'[i].at = "act" /\ ~client'[i].late => Entitled(client[i])'
        <4> SUFFICES ASSUME client'[i].at = "act", ~client'[i].late PROVE Entitled(client[i])'
          OBVIOUS
        <4>1. client[i].who # c.id /\ client'[i] = client[i]
          BY <1>12, <2>2
        <4>2. Entitled(client[i])
          BY <3>1, <4>1 DEF ClientOK
        <4> QED
          BY <1>9, <4>1, <4>2 DEF Entitled
      <3>4. /\ client'[i].at = client[i].at /\ client'[i].id = client[i].id /\ client'[i].secret = client[i].secret
            /\ client'[i].grant = client[i].grant /\ client'[i].scope = client[i].scope
        BY <1>12, <2>2
      <3> QED
        BY <1>9, <3>1, <3>2, <3>3, <3>4 DEF ClientOK
    <2> QED
      BY <2>1, <2>2
  <1>15. \A t \in DOMAIN app' : app'[t] \in [secret : minted, grant : Grants, scope : SUBSET space, revoked : BOOLEAN, expired : BOOLEAN]
    BY <1>8, <1>9, TokenTypes
  <1>16. /\ personal' \in [Holders -> [secret : minted' \cup {Nothing}, off : BOOLEAN]] /\ barred' \subseteq Holders
         /\ space' \subseteq Spaces /\ minted' \subseteq Secrets /\ DOMAIN app' \subseteq AppIds
         /\ tokenOps' \in 0 .. MaxTokenOps
    BY <1>9, TokenTypes
  <1> QED
    BY <1>9, <1>13, <1>14, <1>15, <1>16, TokenFromParts

LEMMA TokenInvStep == TokenInv /\ [TokenNext]_tokenVars => TokenInv'
  <1> SUFFICES ASSUME TokenInv, [TokenNext]_tokenVars PROVE TokenInv'
    OBVIOUS
  <1>1. CASE UNCHANGED tokenVars
    BY <1>1, TokenTypes, TokenCalm DEF tokenVars
  <1> QED
    BY <1>1, TokenCreated, TokenReset, TokenDeleted, TokenAccount, TokenDisabled, TokenAuthenticate, TokenAnswer, TokenInserted,
       TokenWritten, TokenAppBegins, TokenPatchBegins, TokenAppEnds, TokenSpaceCreated, Zenon DEF TokenNext

LEMMA TokenInvariant == TokenSpec => []TokenInv
  BY TokenInvInit, TokenInvStep, PTL DEF TokenSpec

LEMMA TokenInvHolds == TokenInv => TokenTypeOK /\ AuthorityNeedsOverlap
  BY DEF TokenInv, ClientOK, AuthorityNeedsOverlap

\* Rows and requests keep their types, scopes name projects, and secrets in
\* use were minted; a handler acts on a secret that was replaced, disabled or
\* revoked, or with rights since taken away, only while that change overtook
\* the request: authenticate looks a token up once, before the handler.
THEOREM AuthorityIsCurrent == TokenSpec => [](TokenTypeOK /\ AuthorityNeedsOverlap)
  BY TokenInvariant, TokenInvHolds, PTL

-----------------------------------------------------------------------------
(* Membership.                                                             *)

Call == [op : {"none", "upsert", "change", "remove", "mark", "accept"}, who : People \cup {NoRole}, role : Roles \cup {NoRole},
         invite : Invites \cup {NoRole}, blind : BOOLEAN]

\* What a handler's checks left it with.
NamesOK(q) ==
    /\ q.op # "none" => q.who \in People
    /\ q.op \in {"upsert", "change", "mark", "accept"} => q.role \in Roles
    /\ q.op = "mark" => q.invite \in Invites

\* As long as the admins are the ones it has seen, what the handler is about
\* to write leaves one of them.
ChecksHold(h, q) ==
    h \notin stale /\ ~q.blind =>
        /\ q.op = "upsert" => member[q.who] # AdminRole
        /\ (q.op = "remove" \/ (q.op = "change" /\ q.role # AdminRole)) /\ member[q.who] = AdminRole =>
             \E b \in Admins(member) : b # q.who

MemberInv ==
    /\ MemberTypeOK /\ member \in [People -> Roles \cup {NoRole}] /\ call \in [Agents -> Call]
    /\ role[AdminRole].there /\ \A t \in Invites : invite[t].st = "pending" => invite[t].role \in Roles
    /\ \A h \in Agents : NamesOK(call[h]) /\ ChecksHold(h, call[h])
    /\ AdminLostNeedsCause

RoleRow == [there : BOOLEAN, perms : SUBSET Permission]
Invite == [st : {"none", "pending", "used", "expired"}, role : Roles \cup {NoRole}]

LEMMA MemberParts ==
    ASSUME MemberInv
    PROVE  /\ home \in [st : {"live", "deleted"}, vis : {"private", "internal"}] /\ role \in [Roles -> RoleRow]
           /\ member \in [People -> Roles \cup {NoRole}] /\ \A a \in People : member[a] # NoRole => role[member[a]].there
           /\ invite \in [Invites -> Invite] /\ \A t \in Invites : invite[t].st = "pending" => invite[t].role \in Roles
           /\ call \in [Agents -> Call] /\ \A h \in Agents : NamesOK(call[h]) /\ ChecksHold(h, call[h])
           /\ calls \in 0 .. MaxCalls /\ stale \subseteq Agents /\ unguarded \subseteq {"accepted", "overlap", "blind"}
           /\ role[AdminRole].there /\ AdminLostNeedsCause
  BY DEF MemberInv, MemberTypeOK, RoleRow, Invite

LEMMA MemberFromParts ==
    ASSUME home' \in [st : {"live", "deleted"}, vis : {"private", "internal"}], role' \in [Roles -> RoleRow],
           member' \in [People -> Roles \cup {NoRole}], \A a \in People : member'[a] # NoRole => role'[member'[a]].there,
           invite' \in [Invites -> Invite], \A t \in Invites : invite'[t].st = "pending" => invite'[t].role \in Roles,
           call' \in [Agents -> Call], \A h \in Agents : NamesOK(call'[h]) /\ ChecksHold(h, call[h])',
           calls' \in 0 .. MaxCalls, stale' \subseteq Agents, unguarded' \subseteq {"accepted", "overlap", "blind"},
           role'[AdminRole].there, AdminLostNeedsCause'
    PROVE  MemberInv'
  <1>1. \A a \in People : member'[a] # NoRole => member'[a] \in Roles
    OBVIOUS
  <1>2. \A h \in Agents : call'[h].op \in {"none", "upsert", "change", "remove", "mark", "accept"}
    BY DEF Call
  <1>3. MemberTypeOK'
    BY <1>1, <1>2 DEF MemberTypeOK, RoleRow, Invite
  <1>4. (\A h \in Agents : NamesOK(call[h]) /\ ChecksHold(h, call[h]))'
    BY DEF NamesOK
  <1> QED
    BY <1>3, <1>4 DEF MemberInv

LEMMA NoCallIsFine == NoCall \in Call /\ NoCall.op = "none"
  <1>1. ASSUME NEW b \in BOOLEAN
        PROVE  [op |-> "none", who |-> NoRole, role |-> NoRole, invite |-> NoRole, blind |-> b] \in Call
    <2>1. "none" \in {"none", "upsert", "change", "remove", "mark", "accept"} /\ NoRole \in People \cup {NoRole}
          /\ NoRole \in Roles \cup {NoRole} /\ NoRole \in Invites \cup {NoRole}
      OBVIOUS
    <2> QED
      BY <2>1, Zenon DEF Call
  <1>2. NoCall \in Call
    BY <1>1, Zenon DEF NoCall
  <1> QED
    BY <1>2 DEF NoCall

LEMMA MemberInvInit == MemberInit => MemberInv
  <1> SUFFICES ASSUME MemberInit PROVE MemberInv
    OBVIOUS
  <1>1. PICK owner \in People : member = [a \in People |-> IF a = owner THEN AdminRole ELSE NoRole]
    BY DEF MemberInit
  <1>2. member \in [People -> Roles \cup {NoRole}] /\ owner \in Admins(member) /\ \A a \in People : member[a] \in {AdminRole, NoRole}
    BY <1>1, MembershipAssumption DEF Admins
  <1>3. role \in [Roles -> RoleRow] /\ \A r \in Roles : role[r].there
    <2>1. ASSUME NEW r \in Roles PROVE default_roles(r) \in RoleRow /\ default_roles(r).there
      BY DEF default_roles, RoleRow
    <2> QED
      BY <2>1 DEF MemberInit
  <1>4. invite \in [Invites -> Invite] /\ \A t \in Invites : invite[t].st # "pending"
    BY DEF MemberInit, Invite
  <1>5. call \in [Agents -> Call] /\ \A h \in Agents : call[h] = NoCall
    BY NoCallIsFine DEF MemberInit
  <1>6. \A h \in Agents : NamesOK(call[h]) /\ ChecksHold(h, call[h])
    BY <1>5, NoCallIsFine DEF NamesOK, ChecksHold
  <1>7. \A h \in Agents : call[h].op \in {"none", "upsert", "change", "remove", "mark", "accept"}
    BY <1>5, NoCallIsFine
  <1>8. MemberTypeOK
    BY <1>2, <1>3, <1>4, <1>7, MembershipAssumption DEF MemberTypeOK, MemberInit, RoleRow, Invite
  <1> QED
    BY <1>2, <1>3, <1>4, <1>5, <1>6, <1>8, MembershipAssumption DEF MemberInv, AdminLostNeedsCause

\* A handler that passed its checks.
LEMMA MemberChecked ==
    ASSUME MemberInv, NEW h \in Agents, NEW rec \in Call, Checked(h, rec), UNCHANGED <<role, member, invite, unguarded, home>>,
           NamesOK(rec), rec.op = "upsert" /\ ~rec.blind => member[rec.who] # AdminRole,
           ~rec.blind /\ (rec.op = "remove" \/ (rec.op = "change" /\ rec.role # AdminRole)) /\ member[rec.who] = AdminRole =>
              \E b \in Admins(member) : b # rec.who
    PROVE  MemberInv'
  <1>1. call' = [call EXCEPT ![h] = rec] /\ stale' = stale \ {h} /\ calls < MaxCalls /\ calls' = calls + 1
    BY DEF Checked
  <1>2. calls' \in 0 .. MaxCalls
    BY <1>1, MemberParts, MembershipAssumption
  <1>3. call' \in [Agents -> Call] /\ \A g \in Agents : call'[g] = IF g = h THEN rec ELSE call[g]
    BY <1>1, MemberParts
  <1>4. Admins(member') = Admins(member)
    OBVIOUS
  <1>5. ASSUME NEW g \in Agents PROVE NamesOK(call'[g]) /\ ChecksHold(g, call[g])'
    <2>1. CASE g = h
      BY <1>3, <1>4, <2>1 DEF ChecksHold
    <2>2. CASE g # h
      BY <1>1, <1>3, <1>4, <2>2, MemberParts DEF ChecksHold
    <2> QED
      BY <2>1, <2>2
  <1>6. AdminLostNeedsCause' /\ stale' \subseteq Agents
    BY <1>1, MemberParts DEF AdminLostNeedsCause
  <1> QED
    BY <1>2, <1>3, <1>5, <1>6, MemberParts, MemberFromParts

\* The guard leaves another admin.
LEMMA GuardLeavesOne ==
    ASSUME MemberInv, NEW t \in People, NEW blind \in BOOLEAN, GuardAdmin(t, blind), ~blind, member[t] = AdminRole
    PROVE  \E b \in Admins(member) : b # t
  <1>1. Cardinality(Admins(member)) > 1 /\ t \in Admins(member)
    BY DEF GuardAdmin, admin_count, Admins
  <1>2. Cardinality({t}) = 1
    BY FS_Singleton
  <1>3. Admins(member) # {t}
    BY <1>1, <1>2
  <1> QED
    BY <1>1, <1>3

LEMMA MemberAdding ==
    ASSUME MemberInv, NEW h \in Agents, NEW t \in People, NEW r \in Roles, NEW blind \in BOOLEAN, blind \/ member[t] = NoRole,
           Checked(h, Upsert(t, r, blind)), UNCHANGED <<role, member, invite, unguarded, home>>
    PROVE  MemberInv'
  <1> DEFINE n(q) == [q EXCEPT !.op = "upsert", !.who = t, !.role = r, !.blind = blind]
  <1>1. ASSUME NEW q \in Call
        PROVE  n(q) \in Call /\ n(q).op = "upsert" /\ n(q).who = t /\ n(q).role = r /\ (n(q).blind <=> blind)
    BY DEF Call
  <1>2. n(NoCall) \in Call /\ n(NoCall).op = "upsert" /\ n(NoCall).who = t /\ n(NoCall).role = r /\ (n(NoCall).blind <=> blind)
    BY <1>1, NoCallIsFine, Zenon
  <1>3. Checked(h, n(NoCall))
    BY DEF Upsert
  <1> HIDE DEF n
  <1>4. NamesOK(n(NoCall)) /\ (~n(NoCall).blind => member[t] # AdminRole)
    BY <1>2, MembershipAssumption DEF NamesOK
  <1> QED
    BY <1>2, <1>3, <1>4, MemberChecked

LEMMA MemberChanging ==
    ASSUME MemberInv, NEW h \in Agents, NEW a \in People, NEW t \in People, NEW r \in Roles, NEW blind \in BOOLEAN,
           change_member_role(h, a, t, r, blind)
    PROVE  MemberInv'
  <1> DEFINE n(q) == [q EXCEPT !.op = "change", !.who = t, !.role = r, !.blind = blind]
  <1>1. ASSUME NEW q \in Call
        PROVE  n(q) \in Call /\ n(q).op = "change" /\ n(q).who = t /\ n(q).role = r /\ (n(q).blind <=> blind)
    BY DEF Call
  <1>2. n(NoCall) \in Call /\ n(NoCall).op = "change" /\ n(NoCall).who = t /\ n(NoCall).role = r /\ (n(NoCall).blind <=> blind)
    BY <1>1, NoCallIsFine, Zenon
  <1>3. Checked(h, n(NoCall)) /\ (r # AdminRole => GuardAdmin(t, blind)) /\ UNCHANGED <<role, member, invite, unguarded, home>>
    BY DEF change_member_role
  <1> HIDE DEF n
  <1>4. NamesOK(n(NoCall))
    BY <1>2 DEF NamesOK
  <1>5. ~blind /\ r # AdminRole /\ member[t] = AdminRole => \E b \in Admins(member) : b # t
    BY <1>3, GuardLeavesOne
  <1>6. ~n(NoCall).blind /\ n(NoCall).role # AdminRole /\ member[n(NoCall).who] = AdminRole =>
           \E b \in Admins(member) : b # n(NoCall).who
    BY <1>2, <1>5
  <1> QED
    BY <1>2, <1>3, <1>4, <1>6, MemberChecked

LEMMA MemberRemoving ==
    ASSUME MemberInv, NEW h \in Agents, NEW a \in People, NEW t \in People, NEW blind \in BOOLEAN, remove_member(h, a, t, blind)
    PROVE  MemberInv'
  <1> DEFINE n(q) == [q EXCEPT !.op = "remove", !.who = t, !.blind = blind]
  <1>1. ASSUME NEW q \in Call PROVE n(q) \in Call /\ n(q).op = "remove" /\ n(q).who = t /\ (n(q).blind <=> blind)
    BY DEF Call
  <1>2. n(NoCall) \in Call /\ n(NoCall).op = "remove" /\ n(NoCall).who = t /\ (n(NoCall).blind <=> blind)
    BY <1>1, NoCallIsFine, Zenon
  <1>3. Checked(h, n(NoCall)) /\ GuardAdmin(t, blind) /\ UNCHANGED <<role, member, invite, unguarded, home>>
    BY DEF remove_member
  <1> HIDE DEF n
  <1>4. NamesOK(n(NoCall))
    BY <1>2 DEF NamesOK
  <1>5. ~blind /\ member[t] = AdminRole => \E b \in Admins(member) : b # t
    BY <1>3, GuardLeavesOne
  <1>6. ~n(NoCall).blind /\ member[n(NoCall).who] = AdminRole => \E b \in Admins(member) : b # n(NoCall).who
    BY <1>2, <1>5
  <1> QED
    BY <1>2, <1>3, <1>4, <1>6, MemberChecked

LEMMA MemberAccepting ==
    ASSUME MemberInv, NEW h \in Agents, NEW a \in People, NEW t \in Invites, accept_invitation(h, a, t)
    PROVE  MemberInv'
  <1> DEFINE r == invite[t].role
             n(q) == [q EXCEPT !.op = "mark", !.who = a, !.role = r, !.invite = t]
  <1>1. r \in Roles
    BY MemberParts DEF accept_invitation
  <1>2. Checked(h, n(NoCall)) /\ UNCHANGED <<role, member, invite, unguarded, home>>
    BY DEF accept_invitation
  <1> HIDE DEF r
  <1>3. ASSUME NEW q \in Call PROVE n(q) \in Call /\ n(q).op = "mark" /\ n(q).who = a /\ n(q).role = r /\ n(q).invite = t
    BY <1>1 DEF Call
  <1>4. n(NoCall) \in Call /\ n(NoCall).op = "mark" /\ n(NoCall).who = a /\ n(NoCall).role = r /\ n(NoCall).invite = t
    BY <1>3, NoCallIsFine
  <1> HIDE DEF n
  <1>5. NamesOK(n(NoCall))
    BY <1>1, <1>4 DEF NamesOK
  <1> QED
    BY <1>2, <1>4, <1>5, MemberChecked

\* Requests that leave the members, the handlers and the history alone.
LEMMA MemberSettings ==
    ASSUME MemberInv, UNCHANGED <<member, call, stale, unguarded>>,
           home' \in [st : {"live", "deleted"}, vis : {"private", "internal"}],
           role' \in [Roles -> RoleRow], \A a \in People : member[a] # NoRole => role'[member[a]].there,
           invite' \in [Invites -> Invite], \A t \in Invites : invite'[t].st = "pending" => invite'[t].role \in Roles,
           calls' \in 0 .. MaxCalls, role'[AdminRole].there
    PROVE  MemberInv'
  <1>1. \A h \in Agents : NamesOK(call'[h]) /\ ChecksHold(h, call[h])'
    BY MemberParts DEF ChecksHold, Admins
  <1>2. AdminLostNeedsCause'
    BY MemberParts DEF AdminLostNeedsCause, Admins
  <1> QED
    BY <1>1, <1>2, MemberParts, MemberFromParts

LEMMA Answered ==
    ASSUME MemberInv, NEW h \in Agents, Answer(h)
    PROVE  calls' \in 0 .. MaxCalls /\ call' = call
  BY MemberParts, MembershipAssumption DEF Answer

LEMMA MemberInviting ==
    ASSUME MemberInv, NEW h \in Agents, NEW a \in People, NEW t \in Invites, NEW r \in Roles, invite_member(h, a, t, r)
    PROVE  MemberInv'
  <1> DEFINE n == [st |-> "pending", role |-> r]
  <1>1. n \in Invite /\ n.role = r
    BY DEF Invite
  <1>2. invite' = [invite EXCEPT ![t] = n] /\ UNCHANGED <<role, member, stale, unguarded, home>> /\ calls' \in 0 .. MaxCalls /\ call' = call
    BY Answered DEF invite_member
  <1> HIDE DEF n
  <1>3. invite' \in [Invites -> Invite] /\ \A s \in Invites : invite'[s].st = "pending" => invite'[s].role \in Roles
    BY <1>1, <1>2, MemberParts
  <1> QED
    BY <1>2, <1>3, MemberParts, MemberSettings

LEMMA MemberInviteExpires ==
    ASSUME MemberInv, NEW t \in Invites, InviteExpires(t)
    PROVE  MemberInv'
  <1> DEFINE n == [invite[t] EXCEPT !.st = "expired"]
  <1>1. n \in Invite /\ n.st = "expired"
    BY MemberParts DEF Invite
  <1>2. invite' = [invite EXCEPT ![t] = n] /\ UNCHANGED <<role, member, call, calls, stale, unguarded, home>>
    BY MemberParts DEF InviteExpires
  <1> HIDE DEF n
  <1>3. invite' \in [Invites -> Invite] /\ \A s \in Invites : invite'[s].st = "pending" => invite'[s].role \in Roles
    BY <1>1, <1>2, MemberParts
  <1> QED
    BY <1>2, <1>3, MemberParts, MemberSettings

LEMMA MemberRoleCreated ==
    ASSUME MemberInv, NEW h \in Agents, NEW a \in People, NEW r \in Roles, NEW P \in Presets, create_role(h, a, r, P)
    PROVE  MemberInv'
  <1> DEFINE n == [there |-> TRUE, perms |-> P]
  <1>1. n \in RoleRow /\ n.there
    BY DEF RoleRow, Presets
  <1>2. role' = [role EXCEPT ![r] = n] /\ UNCHANGED <<member, invite, stale, unguarded, home>> /\ calls' \in 0 .. MaxCalls /\ call' = call
    BY Answered DEF create_role
  <1> HIDE DEF n
  <1>3. role' \in [Roles -> RoleRow] /\ \A s \in Roles : role[s].there => role'[s].there
    BY <1>1, <1>2, MemberParts
  <1>4. (\A b \in People : member[b] # NoRole => role'[member[b]].there) /\ role'[AdminRole].there
    BY <1>3, MemberParts, MembershipAssumption
  <1> QED
    BY <1>2, <1>3, <1>4, MemberParts, MemberSettings

LEMMA MemberRoleChanged ==
    ASSUME MemberInv, NEW h \in Agents, NEW a \in People, NEW r \in Roles, NEW P \in Presets, update_permissions(h, a, r, P)
    PROVE  MemberInv'
  <1> DEFINE n == [role[r] EXCEPT !.perms = P]
  <1>1. n \in RoleRow /\ (n.there <=> role[r].there)
    BY MemberParts DEF RoleRow, Presets
  <1>2. role' = [role EXCEPT ![r] = n] /\ UNCHANGED <<member, invite, stale, unguarded, home>> /\ calls' \in 0 .. MaxCalls /\ call' = call
    BY Answered, MemberParts DEF update_permissions
  <1> HIDE DEF n
  <1>3. role' \in [Roles -> RoleRow] /\ \A s \in Roles : role[s].there => role'[s].there
    BY <1>1, <1>2, MemberParts
  <1>4. (\A b \in People : member[b] # NoRole => role'[member[b]].there) /\ role'[AdminRole].there
    BY <1>3, MemberParts, MembershipAssumption
  <1> QED
    BY <1>2, <1>3, <1>4, MemberParts, MemberSettings

LEMMA MemberRoleDeleted ==
    ASSUME MemberInv, NEW h \in Agents, NEW a \in People, NEW r \in Roles, delete_role(h, a, r)
    PROVE  MemberInv'
  <1> DEFINE n == [role[r] EXCEPT !.there = FALSE]
             none == [st |-> "none", role |-> NoRole]
  <1>1. n \in RoleRow /\ none \in Invite /\ none.st = "none"
    <2>1. ASSUME NEW q \in RoleRow, NEW b \in BOOLEAN PROVE [q EXCEPT !.there = b] \in RoleRow
      BY DEF RoleRow
    <2>2. role[r] \in RoleRow /\ FALSE \in BOOLEAN
      BY MemberParts
    <2>3. n \in RoleRow
      BY <2>1, <2>2, Zenon
    <2> QED
      BY <2>3 DEF Invite
  <1>2. /\ role' = [role EXCEPT ![r] = n] /\ invite' = [t \in Invites |-> IF invite[t].role = r THEN none ELSE invite[t]]
        /\ UNCHANGED <<member, stale, unguarded, home>> /\ calls' \in 0 .. MaxCalls /\ call' = call
        /\ r # AdminRole /\ \A b \in People : member[b] # r
    BY Answered, MemberParts DEF delete_role
  <1> HIDE DEF n, none
  <1>3. role' \in [Roles -> RoleRow] /\ \A s \in Roles \ {r} : role[s].there => role'[s].there
    BY <1>1, <1>2, MemberParts
  <1>4. (\A b \in People : member[b] # NoRole => role'[member[b]].there) /\ role'[AdminRole].there
    BY <1>2, <1>3, MemberParts, MembershipAssumption
  <1>5. invite' \in [Invites -> Invite] /\ \A s \in Invites : invite'[s].st = "pending" => invite'[s].role \in Roles
    BY <1>1, <1>2, MemberParts
  <1> QED
    BY <1>2, <1>3, <1>4, <1>5, MemberParts, MemberSettings

LEMMA MemberProjectChanged ==
    ASSUME MemberInv, NEW h \in Agents, NEW a \in People,
           (\E v \in {"private", "internal"} : update_visibility(h, a, v)) \/ soft_delete_home(h, a)
    PROVE  MemberInv'
  <1>1. UNCHANGED <<role, member, invite, stale, unguarded>> /\ calls' \in 0 .. MaxCalls /\ call' = call
    BY Answered DEF update_visibility, soft_delete_home
  <1>2. home' \in [st : {"live", "deleted"}, vis : {"private", "internal"}]
    BY MemberParts DEF update_visibility, soft_delete_home
  <1> QED
    BY <1>1, <1>2, MemberParts, MemberSettings

\* A handler ends, or goes on to the membership it was invited to.
LEMMA MemberMarked ==
    ASSUME MemberInv, NEW h \in Agents, mark_accepted(h) \/ CallEnds(h)
    PROVE  MemberInv'
  <1>1. UNCHANGED <<role, member, calls, stale, unguarded, home>>
    BY DEF mark_accepted, CallEnds
  <1>2. invite' \in [Invites -> Invite] /\ \A s \in Invites : invite'[s].st = "pending" => invite'[s].role \in Roles
    <2>1. CASE CallEnds(h)
      BY <2>1, MemberParts DEF CallEnds
    <2>2. CASE mark_accepted(h)
      <3> DEFINE t == call[h].invite
                 n == [invite[t] EXCEPT !.st = IF invite[t].st = "pending" THEN "used" ELSE invite[t].st]
      <3>1. t \in Invites
        BY <2>2, MemberParts DEF mark_accepted, NamesOK
      <3>2. invite' = [invite EXCEPT ![t] = n]
        BY <2>2, <3>1, MemberParts DEF mark_accepted
      <3>3. n \in Invite /\ n.st # "pending"
        BY <3>1, MemberParts DEF Invite
      <3> HIDE DEF n, t
      <3> QED
        BY <3>1, <3>2, <3>3, MemberParts
    <2> QED
      BY <2>1, <2>2
  <1>3. PICK n \in Call : /\ call' = [call EXCEPT ![h] = n] /\ NamesOK(n) /\ n.op \in {"none", "accept"}
    <2>1. NamesOK(NoCall)
      BY NoCallIsFine DEF NamesOK
    <2>2. CASE call' = [call EXCEPT ![h] = NoCall]
      BY <2>1, <2>2, NoCallIsFine
    <2>3. CASE call[h].op = "mark" /\ call' = [call EXCEPT ![h] = [call[h] EXCEPT !.op = "accept"]]
      <3> DEFINE n(q) == [q EXCEPT !.op = "accept"]
      <3>1. ASSUME NEW q \in Call PROVE n(q) \in Call /\ n(q).op = "accept" /\ n(q).who = q.who /\ n(q).role = q.role
        BY DEF Call
      <3>2. n(call[h]) \in Call /\ n(call[h]).op = "accept" /\ n(call[h]).who = call[h].who /\ n(call[h]).role = call[h].role
        BY <3>1, MemberParts
      <3>3. call' = [call EXCEPT ![h] = n(call[h])]
        BY <2>3
      <3> HIDE DEF n
      <3>4. NamesOK(n(call[h]))
        BY <2>3, <3>2, MemberParts DEF NamesOK
      <3> QED
        BY <3>2, <3>3, <3>4
    <2> QED
      BY <2>2, <2>3 DEF mark_accepted, CallEnds
  <1>4. call' \in [Agents -> Call] /\ \A g \in Agents : call'[g] = IF g = h THEN n ELSE call[g]
    BY <1>3, MemberParts
  <1>5. \A g \in Agents : NamesOK(call'[g]) /\ ChecksHold(g, call[g])'
    BY <1>1, <1>3, <1>4, MemberParts DEF ChecksHold, Admins
  <1>6. AdminLostNeedsCause'
    BY <1>1, MemberParts DEF AdminLostNeedsCause, Admins
  <1> QED
    BY <1>1, <1>2, <1>4, <1>5, <1>6, MemberParts, MemberFromParts

\* A write of the members.  While the admins stay, so do everyone's checks;
\* when they change, the handlers in flight are stale.
LEMMA MemberWritten ==
    ASSUME MemberInv, NEW h \in Agents, FinishMember(h)
    PROVE  MemberInv'
  <1> PICK q \in Call : q = call[h] /\ NamesOK(q) /\ ChecksHold(h, q)
    BY MemberParts
  <1> DEFINE m == IF q.op = "remove" THEN remove(q.who)
                  ELSE IF ~role[q.role].there THEN member
                  ELSE IF q.op = "change" THEN change_role(q.who, q.role) ELSE membership_upsert(q.who, q.role)
  <1>1. q.op \in {"upsert", "accept", "change", "remove"} /\ q.who \in People /\ (q.op # "remove" => q.role \in Roles)
    BY DEF FinishMember, NamesOK
  <1>2. WriteMembers(h, m) /\ UNCHANGED invite
    BY DEF FinishMember
  <1>3. unguarded' = unguarded \cup
             IF member[q.who] # AdminRole \/ m[q.who] = AdminRole THEN {}
             ELSE IF q.op = "accept" THEN {"accepted"}
             ELSE (IF h \in stale THEN {"overlap"} ELSE {}) \cup (IF q.blind THEN {"blind"} ELSE {})
    BY DEF FinishMember
  <1>4. /\ m \in [People -> Roles \cup {NoRole}] /\ \A a \in People \ {q.who} : m[a] = member[a]
        /\ m[q.who] # NoRole => role[m[q.who]].there
        /\ q.op = "change" /\ q.role = AdminRole /\ member[q.who] = AdminRole => m[q.who] = AdminRole
    <2>1. CASE q.op = "remove"
      BY <1>1, <2>1, MemberParts DEF remove
    <2>2. CASE q.op # "remove" /\ ~role[q.role].there
      BY <1>1, <2>2, MemberParts
    <2>3. CASE q.op = "change" /\ role[q.role].there
      BY <1>1, <2>3, MemberParts DEF change_role
    <2>4. CASE q.op \in {"upsert", "accept"} /\ role[q.role].there
      BY <1>1, <2>4, MemberParts DEF membership_upsert
    <2> QED
      BY <1>1, <2>1, <2>2, <2>3, <2>4
  <1> HIDE DEF m
  <1>5. /\ member' = m /\ call' = [call EXCEPT ![h] = NoCall] /\ UNCHANGED <<role, calls, home>>
        /\ stale' = IF Admins(m) = Admins(member) THEN stale ELSE stale \cup {g \in Agents \ {h} : call[g] # NoCall}
    BY <1>2 DEF WriteMembers
  <1>6. call' \in [Agents -> Call] /\ \A g \in Agents : call'[g] = IF g = h THEN NoCall ELSE call[g]
    BY <1>5, MemberParts, NoCallIsFine
  <1>7. stale' \subseteq Agents /\ unguarded' \subseteq {"accepted", "overlap", "blind"} /\ stale \subseteq stale'
    BY <1>3, <1>5, MemberParts
  <1>8. ASSUME NEW g \in Agents PROVE NamesOK(call'[g]) /\ ChecksHold(g, call[g])'
    <2>1. CASE call'[g] = NoCall
      BY <2>1, NoCallIsFine DEF NamesOK, ChecksHold
    <2>2. CASE call'[g] # NoCall
      <3>1. g # h /\ call'[g] = call[g] /\ NamesOK(call[g]) /\ ChecksHold(g, call[g]) /\ call[g] # NoCall
        BY <1>6, <2>2, MemberParts
      <3>2. CASE g \in stale'
        BY <3>1, <3>2 DEF ChecksHold
      <3>3. CASE g \notin stale'
        <4>1. g \notin stale /\ Admins(member') = Admins(member)
          BY <1>5, <1>7, <3>1, <3>3
        <4>2. \A b \in People : member'[b] = AdminRole <=> member[b] = AdminRole
          BY <4>1 DEF Admins
        <4>3. call[g].op # "none" => call[g].who \in People
          BY <3>1 DEF NamesOK
        <4> QED
          BY <3>1, <4>1, <4>2, <4>3 DEF ChecksHold
      <3> QED
        BY <3>2, <3>3
    <2> QED
      BY <2>1, <2>2
  <1>9. AdminLostNeedsCause'
    <2> SUFFICES ASSUME unguarded' = {} PROVE Admins(member') # {}
      BY DEF AdminLostNeedsCause
    <2>1. PICK b \in Admins(member) : TRUE
      BY <1>3, MemberParts DEF AdminLostNeedsCause
    <2>2. CASE member[q.who] # AdminRole \/ m[q.who] = AdminRole
      <3>1. m[b] = AdminRole /\ b \in People
        BY <1>4, <2>1, <2>2 DEF Admins
      <3> QED
        BY <1>5, <3>1 DEF Admins
    <2>3. CASE ~(member[q.who] # AdminRole \/ m[q.who] = AdminRole)
      <3>1. q.op # "accept" /\ h \notin stale /\ ~q.blind
        BY <1>3, <2>3
      <3>2. (q.op = "remove" \/ (q.op = "change" /\ q.role # AdminRole)) /\ member[q.who] = AdminRole
        BY <1>1, <1>4, <2>3, <3>1 DEF ChecksHold
      <3>3. PICK c \in Admins(member) : c # q.who
        BY <3>1, <3>2 DEF ChecksHold
      <3>4. c \in People /\ m[c] = AdminRole
        BY <1>4, <3>3 DEF Admins
      <3> QED
        BY <1>5, <3>4 DEF Admins
    <2> QED
      BY <2>2, <2>3
  <1>10. \A a \in People : member'[a] # NoRole => role'[member'[a]].there
    BY <1>4, <1>5, MemberParts
  <1> QED
    BY <1>2, <1>4, <1>5, <1>6, <1>7, <1>8, <1>9, <1>10, MemberParts, MemberFromParts

LEMMA MemberInvStep == MemberInv /\ [MemberNext]_memberVars => MemberInv'
  <1> SUFFICES ASSUME MemberInv, [MemberNext]_memberVars PROVE MemberInv'
    OBVIOUS
  <1>1. ASSUME NEW h \in Agents, NEW a \in People, NEW t \in People, NEW r \in Roles, NEW blind \in BOOLEAN,
               add_member(h, a, t, r, blind)
        PROVE  MemberInv'
    BY <1>1, MemberAdding DEF add_member
  <1>2. ASSUME NEW h \in Agents, NEW a \in People, NEW r \in Roles, join_project(h, a, r)
        PROVE  MemberInv'
    BY <1>2, MemberAdding DEF join_project
  <1>3. ASSUME UNCHANGED memberVars PROVE MemberInv'
    BY <1>3, MemberSettings, MemberParts DEF memberVars
  <1> QED
    BY <1>1, <1>2, <1>3, MemberChanging, MemberRemoving, MemberAccepting, MemberInviting, MemberInviteExpires, MemberRoleCreated,
       MemberRoleChanged, MemberRoleDeleted, MemberProjectChanged, MemberMarked, MemberWritten, Zenon DEF MemberNext

LEMMA MemberInvariant == MemberSpec => []MemberInv
  BY MemberInvInit, MemberInvStep, PTL DEF MemberSpec

\* The rows keep their types, and a member's role is there: delete_role
\* leaves a role that somebody has, and a membership is not written for a
\* role that went meanwhile.
THEOREM MemberTypeCorrect == MemberSpec => []MemberTypeOK
  <1>1. MemberInv => MemberTypeOK
    BY DEF MemberInv
  <1> QED
    BY <1>1, MemberInvariant, PTL

\* change_member_role, remove_member and add_member leave a project its last
\* admin, unless the admins change between a handler's checks and its write,
\* its lookup of the membership fails, or an admin accepts an invitation to a
\* lesser role.
THEOREM AdminsLostNeedCause == MemberSpec => []AdminLostNeedsCause
  <1>1. MemberInv => AdminLostNeedsCause
    BY DEF MemberInv
  <1> QED
    BY <1>1, MemberInvariant, PTL

-----------------------------------------------------------------------------
(* Throttle.                                                               *)

Callers == Addresses \X BOOLEAN
Bucket == [count : Nat \ {0}, started : Nat]
Failure == [id : Identifiers, ip : Addresses, at : Nat, excused : BOOLEAN]
Login == [at : {"idle", "sleep"}, id : Identifiers \cup {Anonymous}, ip : Addresses \cup {Anonymous},
          wake : Nat, excused : BOOLEAN]

\* The requests that the current window let through.
InWindow(k) == IF bucket[k].count <= Limit(k) THEN bucket[k].count ELSE Limit(k)

Spaced(p, limit) == \A i \in 1 .. Len(p) - 2 * limit : p[i + 2 * limit] - p[i] >= Window

\* All but the requests of the current window are no younger than its start,
\* and all but those of the current and the last are older by a window.
BudgetOK(k) ==
    /\ k \notin DOMAIN bucket => passed[k] = << >>
    /\ k \in DOMAIN bucket =>
         LET n == Len(passed[k]) - InWindow(k)
             s == bucket[k].started IN
         /\ bucket[k] \in Bucket /\ bucket[k].count <= attempts /\ bucket[k].count <= MaxRequests /\ s <= clock
         /\ n >= 0
         /\ \A i \in 1 .. n : passed[k][i] <= s
         /\ \A i \in 1 .. n - Limit(k) : passed[k][i] <= s - Window
    /\ \A i \in 1 .. Len(passed[k]) : passed[k][i] <= clock
    /\ Spaced(passed[k], Limit(k))

Alike(f, id, ip) == f.id = id \/ f.ip = ip

\* A login that slept unexcused counted every failure that bears on it.
SleepOK(h) ==
    login[h].at = "sleep" =>
      /\ login[h].id \in Identifiers /\ login[h].ip \in Addresses
      /\ ~login[h].excused =>
           \E t \in 0 .. clock :
             /\ login[h].wake = t + lockout_delay(recent_failures(failed, login[h].id, login[h].ip, t - FailureWindow))
             /\ \A j \in DOMAIN failed : Alike(failed[j], login[h].id, login[h].ip) => failed[j].at <= t

\* The failures before the i-th that bear on it, and those of its last hour.
Before(log, i) == {j \in 1 .. i - 1 : log[j].id = log[i].id \/ log[j].ip = log[i].ip}
Recent(log, i) == {j \in Before(log, i) : log[j].at >= log[i].at - FailureWindow}

FailureOK(log, i) ==
    ~log[i].excused => \A j \in Before(log, i) : log[i].at - log[j].at >= PolicyWait(Cardinality(Recent(log, i)))

ThrottleInv ==
    /\ clock \in 0 .. Patience /\ attempts \in Nat
    /\ DOMAIN bucket \subseteq Callers /\ passed \in [Callers -> Seq(Nat)] /\ \A k \in Callers : BudgetOK(k)
    /\ failed \in Seq(Failure) /\ \A i \in DOMAIN failed : failed[i].at <= clock /\ FailureOK(failed, i)
    /\ login \in [Logins -> Login] /\ \A h \in Logins : SleepOK(h)

LEMMA ThrottleParts ==
  ASSUME ThrottleInv
  PROVE  /\ clock \in Nat /\ clock \in 0 .. Patience /\ attempts \in Nat
         /\ DOMAIN bucket \subseteq Callers /\ passed \in [Callers -> Seq(Nat)] /\ \A k \in Callers : BudgetOK(k)
         /\ failed \in Seq(Failure) /\ \A i \in DOMAIN failed : failed[i].at <= clock /\ FailureOK(failed, i)
         /\ login \in [Logins -> Login] /\ \A h \in Logins : SleepOK(h)
  BY ThrottleAssumption DEF ThrottleInv

LEMMA ThrottleLimit == \A k \in Callers : Limit(k) \in Nat
  BY ThrottleAssumption DEF Limit, Callers

\* The curve is above the policy, and the policy grows.
LEMMA DelayCurve ==
    \A n \in Nat : lockout_delay(n) \in Nat /\ \A m \in 0 .. n : PolicyWait(m) <= lockout_delay(n)
  <1> SUFFICES ASSUME NEW n \in Nat PROVE lockout_delay(n) \in Nat /\ \A m \in 0 .. n : PolicyWait(m) <= lockout_delay(n)
    OBVIOUS
  <1>1. PICK e \in Int : e = IF n - 3 < 5 THEN n - 3 ELSE 5
    OBVIOUS
  <1>2. lockout_delay(n) = IF n < 4 THEN 0 ELSE IF PowerOfTwo[e] < 30 THEN PowerOfTwo[e] ELSE 30
    BY <1>1 DEF lockout_delay
  <1>3. CASE n < 4
    BY <1>2, <1>3 DEF PolicyWait
  <1>4. CASE n = 4
    <2>1. e = 1 /\ PowerOfTwo[1] = 2
      BY <1>1, <1>4 DEF PowerOfTwo
    <2> QED
      BY <1>2, <1>4, <2>1 DEF PolicyWait
  <1>5. CASE n >= 5
    <2>1. e \in {2, 3, 4, 5} /\ PowerOfTwo[2] = 4 /\ PowerOfTwo[3] = 8 /\ PowerOfTwo[4] = 16 /\ PowerOfTwo[5] = 32
      BY <1>1, <1>5 DEF PowerOfTwo
    <2>2. lockout_delay(n) \in {4, 8, 16, 30}
      BY <1>2, <1>5, <2>1
    <2>3. \A m \in 0 .. n : PolicyWait(m) \in {0, 2, 4}
      BY DEF PolicyWait
    <2> QED
      BY <2>2, <2>3
  <1> QED
    BY <1>3, <1>4, <1>5

LEMMA ThrottleInvInit == ThrottleInit => ThrottleInv
  <1> SUFFICES ASSUME ThrottleInit PROVE ThrottleInv
    OBVIOUS
  <1>1. PICK n \in {0, 3}, who \in Identifiers, from \in Addresses :
          failed = [i \in 1 .. n |-> [id |-> who, ip |-> from, at |-> 0, excused |-> FALSE]]
    BY DEF ThrottleInit
  <1>2. failed \in Seq(Failure) /\ DOMAIN failed = 1 .. n /\ \A i \in 1 .. n : failed[i].at = 0
    BY <1>1 DEF Failure
  <1>3. clock = 0 /\ DOMAIN bucket = {} /\ attempts = 0
    BY DEF ThrottleInit
  <1>4. ASSUME NEW i \in DOMAIN failed PROVE failed[i].at <= clock /\ FailureOK(failed, i)
    <2>0. i \in 1 .. 3 /\ i - 1 \in Int
      BY <1>2
    <2>1. IsFiniteSet(1 .. i - 1) /\ Cardinality(1 .. i - 1) <= 2
      <3>1. IsFiniteSet(1 .. i - 1) /\ Cardinality(1 .. i - 1) = IF 1 > i - 1 THEN 0 ELSE (i - 1) - 1 + 1
        BY <2>0, FS_Interval
      <3> QED
        BY <2>0, <3>1
    <2>2. Recent(failed, i) \subseteq 1 .. i - 1
      BY DEF Recent, Before
    <2>3. Cardinality(Recent(failed, i)) <= Cardinality(1 .. i - 1) /\ IsFiniteSet(Recent(failed, i))
      BY <2>1, <2>2, FS_Subset
    <2>4. Cardinality(Recent(failed, i)) \in Nat /\ Cardinality(1 .. i - 1) \in Nat
      BY <2>1, <2>3, FS_CardinalityType
    <2>5. PolicyWait(Cardinality(Recent(failed, i))) = 0
      BY <2>1, <2>3, <2>4 DEF PolicyWait
    <2>6. \A j \in Before(failed, i) : failed[j].at = 0
      BY <1>2 DEF Before
    <2> QED
      BY <1>2, <1>3, <2>5, <2>6 DEF FailureOK
  <1>5. passed \in [Callers -> Seq(Nat)] /\ \A k \in Callers : passed[k] = << >>
    BY DEF ThrottleInit, Callers
  <1>6. \A k \in Callers : BudgetOK(k)
    BY <1>3, <1>5, ThrottleLimit DEF BudgetOK, Spaced
  <1>7. login \in [Logins -> Login] /\ \A h \in Logins : login[h].at = "idle"
    BY DEF ThrottleInit, NoLogin, Login
  <1> QED
    BY <1>2, <1>3, <1>4, <1>5, <1>6, <1>7, ThrottleAssumption DEF ThrottleInv, SleepOK

\* The steps on either side leave the other's state alone, but for the clock.
LEMMA BudgetKept ==
  ASSUME ThrottleInv, UNCHANGED <<bucket, passed>>, clock' \in Nat, clock <= clock', attempts' \in Nat, attempts <= attempts'
  PROVE  \A k \in Callers : BudgetOK(k)'
  <1> SUFFICES ASSUME NEW k \in Callers PROVE BudgetOK(k)'
    OBVIOUS
  <1>1. BudgetOK(k) /\ clock \in Nat /\ attempts \in Nat /\ passed[k] \in Seq(Nat)
    BY ThrottleParts
  <1>2. Limit(k)' = Limit(k) /\ (k \in DOMAIN bucket => InWindow(k)' = InWindow(k))
    BY DEF Limit, InWindow
  <1>3. \A i \in 1 .. Len(passed[k]) : passed[k][i] <= clock'
    BY <1>1 DEF BudgetOK
  <1>4. k \in DOMAIN bucket => /\ bucket[k].count <= attempts' /\ bucket[k].started <= clock'
    BY <1>1 DEF BudgetOK, Bucket
  <1> QED
    BY <1>1, <1>2, <1>3, <1>4 DEF BudgetOK

LEMMA DelayKept ==
  ASSUME ThrottleInv, UNCHANGED <<failed, login>>, clock' \in Nat, clock <= clock'
  PROVE  /\ \A i \in DOMAIN failed : failed'[i].at <= clock' /\ FailureOK(failed, i)
         /\ \A h \in Logins : SleepOK(h)'
  <1>1. ASSUME NEW i \in DOMAIN failed PROVE failed[i].at <= clock'
    <2>1. failed[i] \in Failure /\ failed[i].at <= clock /\ clock \in Nat
      BY ThrottleParts
    <2> QED
      BY <2>1 DEF Failure
  <1>2. ASSUME NEW h \in Logins PROVE SleepOK(h)'
    <2>1. SleepOK(h) /\ 0 .. clock \subseteq 0 .. clock'
      BY ThrottleParts
    <2> QED
      BY <2>1 DEF SleepOK
  <1> QED
    BY <1>1, <1>2, ThrottleParts

LEMMA ThrottleTicks ==
  ASSUME ThrottleInv, Tick
  PROVE  ThrottleInv'
  <1>1. clock' \in 0 .. Patience /\ clock' \in Nat /\ clock <= clock' /\ UNCHANGED <<bucket, passed, failed, login, attempts>>
    BY ThrottleParts, ThrottleAssumption DEF Tick
  <1>2. \A k \in Callers : BudgetOK(k)'
    BY <1>1, ThrottleParts, BudgetKept
  <1>3. /\ \A i \in DOMAIN failed : failed'[i].at <= clock' /\ FailureOK(failed, i)
        /\ \A h \in Logins : SleepOK(h)'
    BY <1>1, DelayKept
  <1>4. \A i \in DOMAIN failed' : failed'[i].at <= clock' /\ FailureOK(failed', i)
    BY <1>1, <1>3
  <1> QED
    BY <1>1, <1>2, <1>3, <1>4, ThrottleParts DEF ThrottleInv

\* One more request, a window or more after the one two budgets before it.
LEMMA StaysSpaced ==
  ASSUME NEW p \in Seq(Nat), NEW limit \in Nat \ {0}, NEW now \in Nat, Spaced(p, limit),
         NEW q \in Seq(Nat), Len(q) = Len(p) + 1, q[Len(p) + 1] = now, \A i \in 1 .. Len(p) : q[i] = p[i],
         \A i \in 1 .. Len(p) - 2 * limit + 1 : p[i] <= now - Window
  PROVE  Spaced(q, limit)
  <1>1. PICK n, d \in Nat : n = Len(p) /\ d = 2 * limit /\ d >= 2
    <2>1. limit \in Int /\ limit >= 1 /\ Len(p) \in Nat
      OBVIOUS
    <2>2. 2 * limit \in Nat /\ 2 * limit >= 2
      BY ONLY <2>1
    <2> QED
      BY ONLY <2>1, <2>2
  <1>2. Window \in Nat
    BY ThrottleAssumption
  <1> SUFFICES ASSUME NEW i \in 1 .. n + 1 - d
               PROVE  q[i + d] - q[i] >= Window
    BY <1>1 DEF Spaced
  <1>3. i \in Nat /\ i <= n + 1 - d
    BY ONLY n \in Nat, d \in Nat, i \in 1 .. n + 1 - d
  <1>4. i \in 1 .. n /\ q[i] = p[i] /\ p[i] \in Nat
    <2>1. i \in 1 .. n
      BY ONLY <1>1, <1>3, i \in 1 .. n + 1 - d, n \in Nat, d \in Nat
    <2> QED
      BY <1>1, <2>1
  <1>5. CASE i = n + 1 - d
    <2>1. i + d = n + 1
      BY ONLY <1>3, <1>5, n \in Nat, d \in Nat
    <2>2. q[i + d] = now
      BY <1>1, <2>1
    <2>3. p[i] <= now - Window
      <3>1. i \in 1 .. n - d + 1
        BY ONLY <1>3, <1>5, n \in Nat, d \in Nat, i \in 1 .. n + 1 - d
      <3> QED
        BY <1>1, <3>1
    <2> QED
      BY ONLY <1>2, <1>4, <2>2, <2>3, now \in Nat
  <1>6. CASE i < n + 1 - d
    <2>1. i \in 1 .. n - d /\ i + d \in 1 .. n
      BY ONLY <1>3, <1>6, n \in Nat, d \in Nat, i \in 1 .. n + 1 - d
    <2>2. q[i + d] = p[i + d]
      BY <1>1, <2>1
    <2>3. p[i + d] - p[i] >= Window
      BY <1>1, <2>1 DEF Spaced
    <2> QED
      BY ONLY <1>4, <2>2, <2>3
  <1>7. i = n + 1 - d \/ i < n + 1 - d
    BY ONLY <1>3, n \in Nat, d \in Nat
  <1> QED
    BY <1>5, <1>6, <1>7

\* A request is counted, and let through while the count is in budget.
LEMMA ThrottleCounts ==
  ASSUME ThrottleInv, NEW k \in Callers, NEW goes_on \in BOOLEAN, layer(k, goes_on)
  PROVE  ThrottleInv'
  <1>1. /\ attempts < MaxRequests /\ attempts' = attempts + 1 /\ UNCHANGED <<clock, failed, login>>
        /\ DOMAIN bucket' = DOMAIN bucket \cup {k} /\ bucket'[k] = check(k)
        /\ \A j \in DOMAIN bucket \ {k} : bucket'[j] = bucket[j]
    BY DEF layer
  <1>2. /\ clock \in Nat /\ attempts \in Nat /\ attempts' \in Nat /\ MaxRequests \in Nat /\ Window \in Nat
        /\ passed \in [Callers -> Seq(Nat)] /\ passed[k] \in Seq(Nat) /\ BudgetOK(k)
    BY <1>1, ThrottleParts, ThrottleAssumption
  <1>3. PICK limit \in Nat : limit = Limit(k)
    BY ThrottleLimit
  <1>4. PICK p \in Seq(Nat) : p = passed[k]
    BY <1>2
  <1>5. Len(p) \in Nat /\ (\A i \in 1 .. Len(p) : p[i] \in Nat /\ p[i] <= clock) /\ Spaced(p, limit)
    BY <1>2, <1>3, <1>4 DEF BudgetOK
  <1>6. PICK c, s \in Nat : c = bucket'[k].count /\ s = bucket'[k].started /\ bucket'[k] \in Bucket /\ c >= 1
                            /\ c <= attempts' /\ c <= MaxRequests /\ s <= clock
    <2>1. CASE k \notin DOMAIN bucket \/ clock - bucket[k].started >= Window
      <3>1. bucket'[k] = [count |-> 1, started |-> clock]
        BY <1>1, <2>1 DEF check
      <3> QED
        BY <1>1, <1>2, <3>1 DEF Bucket
    <2>2. CASE k \in DOMAIN bucket /\ ~(clock - bucket[k].started >= Window)
      <3>1. bucket[k] \in Bucket /\ bucket[k].count <= attempts /\ bucket[k].started <= clock
        BY <1>2, <2>2 DEF BudgetOK
      <3>2. PICK d \in Nat : d = bucket[k].count + 1 /\ d >= 1 /\ d <= attempts' /\ d <= MaxRequests
        BY <1>1, <1>2, <3>1 DEF Bucket
      <3>3. bucket'[k] = [bucket[k] EXCEPT !.count = d]
        BY <1>1, <2>2, <3>2 DEF check
      <3> QED
        BY <3>1, <3>2, <3>3 DEF Bucket
    <2> QED
      BY <2>1, <2>2
  \* What the window had let through, the past that is over, and the past
  \* that is over by a window.
  <1>7. PICK b \in Nat : /\ b = (IF c - 1 <= limit THEN c - 1 ELSE limit) /\ b <= Len(p)
                         /\ \A i \in 1 .. Len(p) - b : p[i] <= s
                         /\ \A i \in 1 .. Len(p) - b - limit : p[i] <= s - Window
    <2>1. CASE k \notin DOMAIN bucket
      <3>1. p = << >> /\ Len(p) = 0
        BY <1>2, <1>4, <2>1 DEF BudgetOK
      <3>2. c = 1
        BY <1>1, <1>6, <2>1 DEF check
      <3>3. 0 = (IF c - 1 <= limit THEN c - 1 ELSE limit)
        BY <3>2
      <3> QED
        BY <3>1, <3>3
    <2>2. CASE k \in DOMAIN bucket
      <3>1. PICK w \in Nat : w = InWindow(k) /\ w <= limit
        BY <1>2, <1>3, <2>2 DEF InWindow, BudgetOK, Bucket
      <3>2. PICK o \in Nat : o = bucket[k].started /\ o <= clock
        BY <1>2, <2>2 DEF BudgetOK, Bucket
      <3>3. /\ w <= Len(p) /\ \A i \in 1 .. Len(p) - w : p[i] <= o
            /\ \A i \in 1 .. Len(p) - w - limit : p[i] <= o - Window
        BY <1>2, <1>3, <1>4, <1>5, <2>2, <3>1, <3>2 DEF BudgetOK
      <3>4. CASE clock - o >= Window
        <4>1. c = 1 /\ s = clock
          BY <1>1, <1>6, <3>2, <3>4 DEF check
        <4>2. \A i \in 1 .. Len(p) - 0 - limit : p[i] <= s - Window
          <5> SUFFICES ASSUME NEW i \in 1 .. Len(p) - 0 - limit PROVE p[i] <= s - Window
            OBVIOUS
          <5>1. i \in 1 .. Len(p) - w /\ i \in 1 .. Len(p)
            BY <1>5, <3>1
          <5>2. PICK m \in Nat : m = p[i]
            <6>1. p[i] \in Nat
              BY <1>4, <1>5, <5>1
            <6> QED
              BY <6>1
          <5>3. m <= o
            <6>1. p[i] <= o
              BY <3>3, <5>1
            <6> QED
              BY <5>2, <6>1
          <5>4. m <= s - Window
            <6>1. clock \in Nat /\ Window \in Nat
              BY <1>2
            <6> QED
              BY ONLY <3>4, <4>1, <5>3, <6>1, m \in Nat, o \in Nat, s \in Nat
          <5> QED
            BY <5>2, <5>4
        <4>3. \A i \in 1 .. Len(p) - 0 : p[i] <= s
          BY <1>5, <4>1
        <4>4. 0 = (IF c - 1 <= limit THEN c - 1 ELSE limit) /\ 0 <= Len(p)
          BY <1>5, <4>1
        <4> QED
          BY <4>2, <4>3, <4>4
      <3>5. CASE ~(clock - o >= Window)
        <4>1. bucket[k] \in Bucket
          BY <1>2, <2>2 DEF BudgetOK
        <4>2. bucket'[k] = [bucket[k] EXCEPT !.count = bucket[k].count + 1]
          BY <1>1, <2>2, <3>2, <3>5 DEF check
        <4>3. c = bucket[k].count + 1 /\ s = o /\ bucket[k].count \in Nat
          BY <1>6, <3>2, <4>1, <4>2 DEF Bucket
        <4>4. w = (IF c - 1 <= limit THEN c - 1 ELSE limit)
          BY <1>3, <3>1, <4>3 DEF InWindow
        <4> QED
          BY <3>3, <4>3, <4>4
      <3> QED
        BY <3>4, <3>5
    <2> QED
      BY <2>1, <2>2
  <1>8. ASSUME NEW q \in Seq(Nat), q = passed'[k], NEW m \in Nat, m = InWindow(k)', m <= Len(q), Spaced(q, limit),
               \A i \in 1 .. Len(q) : q[i] <= clock,
               \A i \in 1 .. Len(q) - m : q[i] <= s, \A i \in 1 .. Len(q) - m - limit : q[i] <= s - Window
        PROVE  BudgetOK(k)'
    <2>1. k \in DOMAIN bucket' /\ Limit(k)' = limit /\ clock' = clock
      BY <1>1, <1>3 DEF Limit
    <2>2. Len(q) - m >= 0
      BY <1>8
    <2> QED
      BY <1>6, <1>8, <2>1, <2>2 DEF BudgetOK
  <1>9. BudgetOK(k)' /\ passed' \in [Callers -> Seq(Nat)] /\ \A j \in Callers \ {k} : passed'[j] = passed[j]
    <2>1. CASE goes_on
      <3>1. c <= limit
        BY <1>3, <1>6, <2>1 DEF layer
      <3>2. passed' = [passed EXCEPT ![k] = Append(p, clock)]
        BY <1>4, <2>1 DEF layer
      <3>3. PICK q \in Seq(Nat) : q = Append(p, clock)
        BY <1>2, AppendProperties
      <3>4. /\ passed'[k] = q /\ passed' \in [Callers -> Seq(Nat)] /\ \A j \in Callers \ {k} : passed'[j] = passed[j]
        BY <1>2, <3>2, <3>3
      <3>5. c = InWindow(k)' /\ b + 1 = c
        <4>1. InWindow(k)' = IF bucket'[k].count <= Limit(k) THEN bucket'[k].count ELSE Limit(k)
          BY DEF InWindow, Limit
        <4> QED
          BY <1>3, <1>6, <1>7, <3>1, <4>1
      <3>6. Len(q) = Len(p) + 1 /\ q[Len(p) + 1] = clock /\ \A i \in 1 .. Len(p) : q[i] = p[i]
        BY <1>2, <1>5, <3>3, AppendProperties
      <3>7. c <= Len(q) /\ Len(q) - c = Len(p) - b
        BY <1>5, <1>7, <3>5, <3>6
      <3>8. \A i \in 1 .. Len(q) : q[i] <= clock
        <4> SUFFICES ASSUME NEW i \in 1 .. Len(p) + 1 PROVE q[i] <= clock
          BY <3>6
        <4>1. i \in 1 .. Len(p) \/ i = Len(p) + 1
          BY <1>5
        <4>2. CASE i \in 1 .. Len(p)
          BY <1>5, <3>6, <4>2
        <4>3. CASE i = Len(p) + 1
          <5>1. q[i] = clock
            BY <3>6, <4>3
          <5> QED
            BY <1>2, <5>1
        <4> QED
          BY <4>1, <4>2, <4>3
      <3>9. \A i \in 1 .. Len(q) - c : q[i] <= s
        <4> SUFFICES ASSUME NEW i \in 1 .. Len(p) - b PROVE q[i] <= s
          BY <3>7
        <4>1. i \in 1 .. Len(p)
          BY <1>5, <1>7
        <4> QED
          BY <1>7, <3>6, <4>1
      <3>10. \A i \in 1 .. Len(q) - c - limit : q[i] <= s - Window
        <4> SUFFICES ASSUME NEW i \in 1 .. Len(p) - b - limit PROVE q[i] <= s - Window
          BY <1>5, <3>7
        <4>1. i \in 1 .. Len(p)
          BY <1>5, <1>7
        <4> QED
          BY <1>7, <3>6, <4>1
      <3>11. Spaced(q, limit)
        <4>1. \A i \in 1 .. Len(p) - 2 * limit + 1 : p[i] <= clock - Window
          <5> SUFFICES ASSUME NEW i \in 1 .. Len(p) - 2 * limit + 1 PROVE p[i] <= clock - Window
            OBVIOUS
          <5>1. i \in 1 .. Len(p) - b - limit /\ i \in 1 .. Len(p)
            BY <1>5, <1>7, <3>1, <3>5
          <5>2. p[i] <= s - Window /\ p[i] \in Nat
            BY <1>5, <1>7, <5>1
          <5>3. s <= clock
            BY <1>6
          <5> QED
            BY <1>2, <5>2, <5>3
        <4>2. limit \in Nat \ {0}
          BY <1>6, <3>1
        <4> QED
          BY <1>2, <1>5, <3>6, <4>1, <4>2, StaysSpaced
      <3>12. BudgetOK(k)'
        BY <1>8, <3>4, <3>5, <3>7, <3>8, <3>9, <3>10, <3>11
      <3> QED
        BY <3>4, <3>12
    <2>2. CASE ~goes_on
      <3>1. ~(c <= limit)
        BY <1>3, <1>6, <2>2 DEF layer
      <3>2. passed' = passed
        BY <2>2 DEF layer
      <3>3. limit = InWindow(k)' /\ b = limit
        <4>1. InWindow(k)' = IF bucket'[k].count <= Limit(k) THEN bucket'[k].count ELSE Limit(k)
          BY DEF InWindow, Limit
        <4> QED
          BY <1>3, <1>6, <1>7, <3>1, <4>1
      <3>4. BudgetOK(k)'
        BY <1>4, <1>5, <1>7, <1>8, <3>2, <3>3
      <3> QED
        BY <1>2, <3>2, <3>4
    <2> QED
      BY <2>1, <2>2
  <1>10. ASSUME NEW j \in Callers \ {k} PROVE BudgetOK(j)'
    <2>1. BudgetOK(j) /\ (j \in DOMAIN bucket' <=> j \in DOMAIN bucket) /\ passed'[j] = passed[j]
      BY <1>1, <1>9, ThrottleParts
    <2>2. Limit(j)' = Limit(j) /\ (j \in DOMAIN bucket => InWindow(j)' = InWindow(j) /\ bucket'[j] = bucket[j])
      BY <1>1 DEF Limit, InWindow
    <2>3. j \in DOMAIN bucket => bucket[j].count <= attempts'
      BY <1>1, <1>2, <2>1 DEF BudgetOK, Bucket
    <2> QED
      BY <1>1, <2>1, <2>2, <2>3 DEF BudgetOK
  <1>11. /\ \A i \in DOMAIN failed : failed'[i].at <= clock' /\ FailureOK(failed, i)
         /\ \A h \in Logins : SleepOK(h)'
    BY <1>1, <1>2, DelayKept
  <1>12. \A i \in DOMAIN failed' : failed'[i].at <= clock' /\ FailureOK(failed', i)
    BY <1>1, <1>11
  <1> QED
    BY <1>1, <1>2, <1>9, <1>10, <1>11, <1>12, ThrottleParts DEF ThrottleInv

CountedFailures(log, id, ip, since) == {i \in DOMAIN log : log[i].at >= since /\ (log[i].id = id \/ log[i].ip = ip)}

LEMMA RecentFinite ==
  ASSUME NEW log \in Seq(Failure), NEW id, NEW ip, NEW since
  PROVE  /\ IsFiniteSet(CountedFailures(log, id, ip, since)) /\ Cardinality(CountedFailures(log, id, ip, since)) \in Nat
         /\ recent_failures(log, id, ip, since) = Cardinality(CountedFailures(log, id, ip, since))
  <1>1. DOMAIN log = 1 .. Len(log) /\ Len(log) \in Int
    OBVIOUS
  <1>2. IsFiniteSet(1 .. Len(log))
    BY <1>1, FS_Interval
  <1>3. CountedFailures(log, id, ip, since) \subseteq 1 .. Len(log)
    BY <1>1 DEF CountedFailures
  <1>4. IsFiniteSet(CountedFailures(log, id, ip, since))
    BY ONLY <1>2, <1>3, FS_Subset
  <1>5. Cardinality(CountedFailures(log, id, ip, since)) \in Nat
    BY ONLY <1>4, FS_CardinalityType
  <1> QED
    BY <1>4, <1>5 DEF recent_failures, CountedFailures

LEMMA ThrottleIdle == NoLogin \in Login /\ NoLogin.at = "idle"
  BY DEF NoLogin, Login

\* It has counted all there is, at this moment, or is excused.
LEMMA ThrottleSleeps ==
  ASSUME ThrottleInv, NEW h \in Logins, NEW id \in Identifiers, NEW ip \in Addresses, NEW counted \in BOOLEAN,
         login_sleeps(h, id, ip, counted)
  PROVE  ThrottleInv'
  <1>1. PICK n : n = IF counted THEN recent_failures(failed, id, ip, clock - FailureWindow) ELSE 0
    OBVIOUS
  <1>2. n \in Nat
    BY <1>1, ThrottleParts, RecentFinite
  <1>3. PICK w \in Nat : w = clock + lockout_delay(n)
    BY <1>2, ThrottleParts, DelayCurve
  <1>4. PICK k : k = [at |-> "sleep", id |-> id, ip |-> ip, wake |-> w, excused |-> ~counted]
    OBVIOUS
  <1>5. login' = [login EXCEPT ![h] = k] /\ attempts' = attempts + 1 /\ UNCHANGED <<clock, bucket, passed, failed>>
    BY <1>1, <1>3, <1>4 DEF login_sleeps
  <1>6. k \in Login /\ k.at = "sleep" /\ k.id = id /\ k.ip = ip /\ k.wake = w /\ (~k.excused => counted)
    <2>1. CASE counted
      <3>1. k = [at |-> "sleep", id |-> id, ip |-> ip, wake |-> w, excused |-> FALSE]
        BY <1>4, <2>1
      <3> QED
        BY <2>1, <3>1 DEF Login
    <2>2. CASE ~counted
      <3>1. k = [at |-> "sleep", id |-> id, ip |-> ip, wake |-> w, excused |-> TRUE]
        BY <1>4, <2>2
      <3> QED
        BY <3>1 DEF Login
    <2> QED
      BY <2>1, <2>2
  <1>7. login' \in [Logins -> Login] /\ login'[h] = k /\ \A g \in Logins \ {h} : login'[g] = login[g]
    BY <1>5, <1>6, ThrottleParts
  <1>8. SleepOK(h)'
    <2>1. ASSUME ~k.excused
          PROVE  /\ w = clock + lockout_delay(recent_failures(failed, id, ip, clock - FailureWindow))
                 /\ \A j \in DOMAIN failed : failed[j].at <= clock
                 /\ clock \in 0 .. clock
      BY <1>1, <1>3, <1>6, <2>1, ThrottleParts
    <2> QED
      BY <1>5, <1>6, <1>7, <2>1 DEF SleepOK
  <1>9. ASSUME NEW g \in Logins \ {h} PROVE SleepOK(g)'
    BY <1>5, <1>7, ThrottleParts DEF SleepOK
  <1>10. \A k2 \in Callers : BudgetOK(k2)'
    BY <1>5, ThrottleParts, BudgetKept
  <1> QED
    BY <1>5, <1>7, <1>8, <1>9, <1>10, ThrottleParts DEF ThrottleInv

LEMMA ThrottleEnds ==
  ASSUME ThrottleInv, NEW h \in Logins, login_ends(h)
  PROVE  ThrottleInv'
  <1>1. login' = [login EXCEPT ![h] = NoLogin] /\ UNCHANGED <<clock, bucket, passed, failed, attempts>>
    BY DEF login_ends
  <1>2. login' \in [Logins -> Login] /\ login'[h] = NoLogin /\ \A g \in Logins \ {h} : login'[g] = login[g]
    BY <1>1, ThrottleIdle, ThrottleParts
  <1>3. \A g \in Logins : SleepOK(g)'
    BY <1>1, <1>2, ThrottleIdle, ThrottleParts DEF SleepOK
  <1>4. \A k \in Callers : BudgetOK(k)'
    BY <1>1, ThrottleParts, BudgetKept
  <1> QED
    BY <1>1, <1>2, <1>3, <1>4, ThrottleParts DEF ThrottleInv

\* The entries of a longer log bear on one another as before.
LEMMA LogGrows ==
  ASSUME NEW log \in Seq(Failure), NEW long, NEW i \in 1 .. Len(log), FailureOK(log, i),
         \A j \in 1 .. Len(log) : long[j] = log[j]
  PROVE  FailureOK(long, i)
  <1>1. i \in 1 .. Len(log) /\ \A j \in 1 .. i - 1 : j \in 1 .. Len(log)
    OBVIOUS
  <1>2. long[i] = log[i] /\ \A j \in 1 .. i - 1 : long[j] = log[j]
    BY <1>1
  <1>3. Before(long, i) = Before(log, i)
    BY <1>2 DEF Before
  <1>4. \A j \in Before(log, i) : long[j] = log[j]
    BY <1>2 DEF Before
  <1>5. Recent(long, i) = Recent(log, i)
    BY <1>2, <1>3, <1>4 DEF Recent
  <1> QED
    BY <1>2, <1>3, <1>4, <1>5 DEF FailureOK

\* It fails: no sooner than the policy says, by what it counted.
LEMMA ThrottleFails ==
  ASSUME ThrottleInv, NEW h \in Logins, login_fails(h)
  PROVE  ThrottleInv'
  <1>0. PICK k : k = login[h]
    OBVIOUS
  <1>1. k \in Login /\ k.at = "sleep" /\ clock >= k.wake /\ SleepOK(h) /\ UNCHANGED <<clock, bucket, passed, attempts>>
    BY <1>0, ThrottleParts DEF login_fails
  <1>2. k.id \in Identifiers /\ k.ip \in Addresses /\ clock \in Nat /\ k.wake \in Nat
    BY <1>0, <1>1, ThrottleParts DEF SleepOK, Login
  <1>3. PICK f : f = [id |-> k.id, ip |-> k.ip, at |-> clock, excused |-> k.excused]
    OBVIOUS
  <1>4. f \in Failure /\ f.at = clock /\ f.id = k.id /\ f.ip = k.ip /\ f.excused = k.excused
    BY <1>1, <1>2, <1>3 DEF Failure, Login
  <1>5. PICK n \in Nat : n = Len(failed) /\ failed \in Seq(Failure) /\ DOMAIN failed = 1 .. n
    BY ThrottleParts
  <1>6. /\ failed' = Append(failed, f) /\ failed' \in Seq(Failure) /\ DOMAIN failed' = 1 .. n + 1
        /\ failed'[n + 1] = f /\ \A j \in 1 .. n : failed'[j] = failed[j]
    <2>1. failed' = Append(failed, f)
      BY <1>0, <1>3 DEF login_fails
    <2> QED
      BY <1>4, <1>5, <2>1, AppendProperties
  <1>7. FailureOK(failed', n + 1)
    <2> SUFFICES ASSUME ~k.excused, NEW j \in Before(failed', n + 1)
                 PROVE  clock - failed'[j].at >= PolicyWait(Cardinality(Recent(failed', n + 1)))
      BY <1>4, <1>6 DEF FailureOK
    <2>1. PICK t \in 0 .. clock :
            /\ k.wake = t + lockout_delay(recent_failures(failed, k.id, k.ip, t - FailureWindow))
            /\ \A i \in DOMAIN failed : Alike(failed[i], k.id, k.ip) => failed[i].at <= t
      BY <1>0, <1>1 DEF SleepOK
    <2>2. t \in Nat /\ t <= clock /\ FailureWindow \in Nat
      BY <1>2, ThrottleAssumption
    <2> DEFINE S == CountedFailures(failed, k.id, k.ip, t - FailureWindow)
    <2>3. IsFiniteSet(S) /\ recent_failures(failed, k.id, k.ip, t - FailureWindow) = Cardinality(S) /\ Cardinality(S) \in Nat
      BY <1>5, RecentFinite
    <2>4. \A i \in Before(failed', n + 1) : /\ i \in 1 .. n /\ failed'[i] = failed[i] /\ Alike(failed[i], k.id, k.ip)
                                            /\ failed[i].at \in Nat
      <3> SUFFICES ASSUME NEW i \in Before(failed', n + 1)
                   PROVE  /\ i \in 1 .. n /\ failed'[i] = failed[i] /\ Alike(failed[i], k.id, k.ip)
                          /\ failed[i].at \in Nat
        OBVIOUS
      <3>1. i \in 1 .. n
        BY <1>5 DEF Before
      <3>2. failed'[i] = failed[i] /\ failed[i] \in Failure
        BY <1>5, <1>6, <3>1
      <3> QED
        BY <1>4, <1>6, <3>1, <3>2 DEF Before, Alike, Failure
    <2>5. Recent(failed', n + 1) \subseteq S
      <3> SUFFICES ASSUME NEW i \in Recent(failed', n + 1) PROVE i \in S
        OBVIOUS
      <3>1. i \in Before(failed', n + 1) /\ failed'[i].at >= clock - FailureWindow
        BY <1>4, <1>6 DEF Recent
      <3>2. i \in 1 .. n /\ failed'[i] = failed[i] /\ Alike(failed[i], k.id, k.ip) /\ failed[i].at \in Nat
        BY <2>4, <3>1
      <3>3. failed[i].at >= t - FailureWindow
        BY <1>2, <2>2, <3>1, <3>2
      <3> QED
        BY <1>5, <3>2, <3>3 DEF Alike, CountedFailures
    <2> HIDE DEF S
    <2>6. IsFiniteSet(Recent(failed', n + 1)) /\ Cardinality(Recent(failed', n + 1)) <= Cardinality(S)
      BY <2>3, <2>5, FS_Subset
    <2>7. Cardinality(Recent(failed', n + 1)) \in 0 .. Cardinality(S)
      BY <2>3, <2>6, FS_CardinalityType
    <2>8. PICK d \in Nat : d = lockout_delay(Cardinality(S)) /\ PolicyWait(Cardinality(Recent(failed', n + 1))) <= d
      BY <2>3, <2>7, DelayCurve
    <2>9. failed'[j].at \in Nat /\ failed'[j].at <= t
      BY <1>5, <2>1, <2>4
    <2>10. k.wake = t + d
      BY <2>1, <2>3, <2>8
    <2>11. PolicyWait(Cardinality(Recent(failed', n + 1))) \in Int
      BY DEF PolicyWait
    <2> QED
      BY <1>1, <1>2, <2>2, <2>8, <2>9, <2>10, <2>11
  <1>8. ASSUME NEW i \in DOMAIN failed' PROVE failed'[i].at <= clock' /\ FailureOK(failed', i)
    <2>1. CASE i = n + 1
      BY <1>1, <1>2, <1>4, <1>6, <1>7, <2>1
    <2>2. CASE i \in 1 .. n
      <3>1. failed'[i] = failed[i] /\ failed[i].at <= clock /\ FailureOK(failed, i)
        BY <1>5, <1>6, <2>2, ThrottleParts
      <3>2. FailureOK(failed', i)
        BY <1>5, <1>6, <2>2, <3>1, LogGrows
      <3> QED
        BY <1>1, <3>1, <3>2
    <2> QED
      BY <1>5, <1>6, <2>1, <2>2
  <1>9. login'[h] = NoLogin
    BY DEF login_fails
  <1>10. ASSUME NEW g \in Logins \ {h} PROVE login'[g] \in Login /\ SleepOK(g)'
    <2>1. login[g] \in Login /\ SleepOK(g)
      BY ThrottleParts
    <2>2. login'[g] = IF login[g].at = "sleep" /\ (login[g].id = k.id \/ login[g].ip = k.ip)
                      THEN [login[g] EXCEPT !.excused = TRUE] ELSE login[g]
      BY <1>0 DEF login_fails
    <2>3. CASE login[g].at = "sleep" /\ (login[g].id = k.id \/ login[g].ip = k.ip)
      <3>1. login'[g] = [login[g] EXCEPT !.excused = TRUE]
        BY <2>2, <2>3
      <3>2. login'[g] \in Login /\ login'[g].excused /\ login'[g].id = login[g].id /\ login'[g].ip = login[g].ip
        BY <2>1, <3>1 DEF Login
      <3> QED
        BY <2>1, <2>3, <3>2 DEF SleepOK
    <2>4. CASE login[g].at # "sleep"
      <3>1. login'[g] = login[g]
        BY <2>2, <2>4
      <3> QED
        BY <2>1, <2>4, <3>1 DEF SleepOK
    <2>5. CASE login[g].at = "sleep" /\ ~(login[g].id = k.id \/ login[g].ip = k.ip)
      <3>1. login'[g] = login[g]
        BY <2>2, <2>5
      <3>2. ~Alike(f, login[g].id, login[g].ip)
        BY <1>4, <2>5 DEF Alike
      <3>3. ASSUME NEW t \in Nat
            PROVE  /\ recent_failures(failed', login[g].id, login[g].ip, t - FailureWindow)
                        = recent_failures(failed, login[g].id, login[g].ip, t - FailureWindow)
                   /\ (\A j \in DOMAIN failed : Alike(failed[j], login[g].id, login[g].ip) => failed[j].at <= t) =>
                      (\A j \in DOMAIN failed' : Alike(failed'[j], login[g].id, login[g].ip) => failed'[j].at <= t)
        <4>1. DOMAIN failed' = DOMAIN failed \cup {n + 1} /\ n + 1 \notin DOMAIN failed
          BY <1>5, <1>6
        <4>2. {i \in DOMAIN failed' : failed'[i].at >= t - FailureWindow /\ (failed'[i].id = login[g].id \/ failed'[i].ip = login[g].ip)}
                = {i \in DOMAIN failed : failed[i].at >= t - FailureWindow /\ (failed[i].id = login[g].id \/ failed[i].ip = login[g].ip)}
          BY <1>5, <1>6, <3>2, <4>1 DEF Alike
        <4>3. recent_failures(failed', login[g].id, login[g].ip, t - FailureWindow)
                        = recent_failures(failed, login[g].id, login[g].ip, t - FailureWindow)
          BY <4>2 DEF recent_failures
        <4>4. \A j \in DOMAIN failed' : Alike(failed'[j], login[g].id, login[g].ip) =>
                 j \in DOMAIN failed /\ failed'[j] = failed[j]
          BY <1>5, <1>6, <3>2, <4>1
        <4> QED
          BY <4>3, <4>4
      <3>4. 0 .. clock \subseteq Nat /\ clock' = clock
        BY <1>1
      <3> QED
        BY <2>1, <2>5, <3>1, <3>3, <3>4 DEF SleepOK
    <2> QED
      BY <2>3, <2>4, <2>5
  <1>11. login' \in [Logins -> Login]
    <2>1. login' = [g \in Logins |-> login'[g]]
      BY DEF login_fails
    <2>2. \A g \in Logins : login'[g] \in Login
      BY <1>9, <1>10, ThrottleIdle
    <2> QED
      BY <2>1, <2>2
  <1>12. SleepOK(h)'
    BY <1>9, ThrottleIdle DEF SleepOK
  <1>13. \A c \in Callers : BudgetOK(c)'
    BY <1>1, ThrottleParts, BudgetKept
  <1>14. clock' \in 0 .. Patience /\ attempts' \in Nat /\ DOMAIN bucket' \subseteq Callers /\ passed' \in [Callers -> Seq(Nat)]
    BY <1>1, ThrottleParts
  <1> QED
    BY <1>6, <1>8, <1>10, <1>11, <1>12, <1>13, <1>14 DEF ThrottleInv

LEMMA ThrottleInvStep ==
  ASSUME ThrottleInv, [BudgetNext \/ DelayNext]_throttleVars
  PROVE  ThrottleInv'
  <1>1. CASE UNCHANGED throttleVars
    <2>1. UNCHANGED <<clock, bucket, passed, failed, login, attempts>>
      BY <1>1 DEF throttleVars
    <2>2. \A k \in Callers : BudgetOK(k)'
      BY <2>1, ThrottleParts, BudgetKept
    <2>3. /\ \A i \in DOMAIN failed : failed'[i].at <= clock' /\ FailureOK(failed, i)
          /\ \A h \in Logins : SleepOK(h)'
      BY <2>1, ThrottleParts, DelayKept
    <2> QED
      BY <2>1, <2>2, <2>3, ThrottleParts DEF ThrottleInv
  <1>2. CASE Tick
    BY <1>2, ThrottleTicks
  <1>3. CASE \E ip \in Addresses, authenticated, goes_on \in BOOLEAN : layer(<<ip, authenticated>>, goes_on)
    <2>1. PICK ip \in Addresses, authenticated \in BOOLEAN, goes_on \in BOOLEAN : layer(<<ip, authenticated>>, goes_on)
      BY <1>3
    <2>2. <<ip, authenticated>> \in Callers
      BY DEF Callers
    <2> QED
      BY <2>1, <2>2, ThrottleCounts
  <1>4. CASE \E h \in Logins :
               \/ \E id \in Identifiers, ip \in Addresses, counted \in BOOLEAN : login_sleeps(h, id, ip, counted)
               \/ login_fails(h) \/ login_ends(h)
    BY <1>4, ThrottleSleeps, ThrottleFails, ThrottleEnds
  <1> QED
    BY <1>1, <1>2, <1>3, <1>4 DEF BudgetNext, DelayNext

LEMMA ThrottleInvSlows == ThrottleInv => ThrottleTypeOK /\ CallersAreSlowed
  <1> SUFFICES ASSUME ThrottleInv PROVE ThrottleTypeOK /\ CallersAreSlowed
    OBVIOUS
  <1>1. \A k \in DOMAIN bucket : bucket[k].count \in 1 .. MaxRequests /\ bucket[k].started <= clock
    BY ThrottleParts, ThrottleAssumption DEF BudgetOK, Bucket
  <1>2. ThrottleTypeOK
    BY <1>1, ThrottleParts DEF ThrottleTypeOK, Login, Callers
  <1>3. \A k \in Addresses \X BOOLEAN :
          \A i \in 1 .. Len(passed[k]) - 2 * Limit(k) : passed[k][i + 2 * Limit(k)] - passed[k][i] >= Window
    BY ThrottleParts DEF BudgetOK, Spaced, Callers
  <1>4. \A i \in DOMAIN failed : FailureOK(failed, i)
    BY ThrottleParts
  <1> QED
    BY <1>2, <1>3, <1>4 DEF CallersAreSlowed, FailureOK, Before, Recent

\* No address gets more than twice its budget in any span of a window's
\* length, and no login fails sooner than the policy says, whatever the
\* budgets, the windows, the clock and the interleaving.
THEOREM CallersSlowed == ThrottleSpec => [](ThrottleTypeOK /\ CallersAreSlowed)
  <1>1. ThrottleInit => ThrottleInv
    BY ThrottleInvInit
  <1>2. ThrottleInv /\ [BudgetNext \/ DelayNext]_throttleVars => ThrottleInv'
    BY ThrottleInvStep
  <1>3. ThrottleInv => ThrottleTypeOK /\ CallersAreSlowed
    BY ThrottleInvSlows
  <1> QED
    BY <1>1, <1>2, <1>3, PTL DEF ThrottleSpec

-----------------------------------------------------------------------------
(* GeoLookup.                                                              *)

Holding == {"fetch", "install", "sweep", "unlock"}
Job == [at : {"idle", "mirror", "lock", "record", "locate"} \cup Holding, force : BOOLEAN, conn : Conns \cup {NoConn},
        on : BOOLEAN, auto : BOOLEAN, variant : Variants \cup {NoBuild}, have : Builds \cup {NoBuild},
        build : Builds \cup {NoBuild}, fam : Families \cup {NoBuild}, late : BOOLEAN]

Parted == "abandoned" \in causes \/ "record" \in causes

\* Who is past the lock holds it alone; the reader is the build that is about
\* to be the only one; a build on its way to the row is on disk, or another
\* that has taken its place is under way.
JobOK(t) ==
    LET k == job[t] IN
    /\ k.at = "idle" => k = Quiet
    /\ k.at \in Holding \cup {"lock", "record"} => k.conn \in Conns
    /\ k.conn # NoConn => \A u \in Jobs \ {t} : job[u].conn # k.conn
    /\ k.at \in Holding => k.conn = lock.by
    /\ k.at = "sweep" => reader = k.build /\ k.build \in disk
    /\ k.at \in {"install", "sweep", "record"} => k.build # NoBuild
    /\ k.at \in {"idle", "mirror", "lock", "fetch", "locate"} => k.build = NoBuild
    /\ k.at \in {"unlock", "record"} /\ k.build # NoBuild =>
         (k.build \in disk /\ reader = k.build) \/ (\E u \in Jobs \ {t} : job[u].build # NoBuild) \/ Parted
    /\ k.at = "mirror" /\ ~k.late => k.on = setting.on
    /\ k.at = "locate" => k.fam \in Families /\ (~k.late => ~erased)

\* Whoever reads the switch next finds the stored one, unless it is late.
SwitchOK ==
    enabled = setting.on \/ causes \cap {"switch", "abandoned", "start"} # {}
    \/ \E t \in Jobs : job[t].at = "mirror" /\ ~job[t].late

DownloadLockOK ==
    /\ lock \in [by : Conns \cup {NoConn}, n : Nat] /\ (lock.n = 0 <=> lock.by = NoConn)
    /\ lock.n > 0 => "abandoned" \in causes \/ (lock.n = 1 /\ \E t \in Jobs : job[t].at \in Holding)

FileOK ==
    /\ reader \in disk \cup {NoBuild} /\ disk \subseteq Builds /\ recorded \in Builds \cup {NoBuild}
    /\ \/ recorded \in disk \cup {NoBuild} /\ (reader = recorded \/ "unread" \in causes)
       \/ (\E t \in Jobs : job[t].build # NoBuild) \/ Parted

ErasedOK ==
    /\ erased => ~setting.on /\ ~enabled
    /\ erased /\ located # {} => "login" \in causes
    /\ located \subseteq Families

GeoInv ==
    /\ setting \in Settings /\ enabled \in BOOLEAN /\ erased \in BOOLEAN
    /\ job \in [Jobs -> Job] /\ \A t \in Jobs : JobOK(t)
    /\ SwitchOK /\ DownloadLockOK /\ FileOK /\ ErasedOK

LEMMA GeoQuiet ==
    /\ Quiet \in Job /\ Quiet.at = "idle" /\ Quiet.conn = NoConn /\ Quiet.build = NoBuild
  BY DEF Quiet, Job

LEMMA GeoInvInit == GeoInit => GeoInv
  <1> SUFFICES ASSUME GeoInit PROVE GeoInv
    OBVIOUS
  <1>1. job \in [Jobs -> Job] /\ \A t \in Jobs : job[t] = Quiet
    BY GeoQuiet DEF GeoInit
  <1>2. \A t \in Jobs : JobOK(t)
    BY <1>1, GeoQuiet DEF JobOK, Holding
  <1>3. setting \in Settings /\ enabled \in BOOLEAN /\ enabled = setting.on /\ erased = FALSE
    BY DEF GeoInit, Settings
  <1>4. recorded \in Builds \cup {NoBuild}
    BY DEF GeoInit, Builds
  <1>5. FileOK
    BY <1>4 DEF FileOK, GeoInit
  <1>6. lock.by = NoConn /\ lock.n = 0 /\ lock \in [by : Conns \cup {NoConn}, n : Nat]
    BY DEF GeoInit
  <1>7. DownloadLockOK
    BY <1>6 DEF DownloadLockOK
  <1>8. ErasedOK
    BY DEF ErasedOK, GeoInit
  <1> QED
    BY <1>1, <1>2, <1>3, <1>5, <1>7, <1>8 DEF GeoInv, SwitchOK

\* What a step of t has to leave another job.
LEMMA GeoOther ==
  ASSUME GeoInv, NEW t \in Jobs, NEW u \in Jobs \ {t}, \A v \in Jobs \ {t} : job'[v] = job[v],
         job'[t].conn # NoConn => job'[t].conn # job[u].conn,
         job[u].at \in Holding => lock'.by = lock.by,
         job[u].at = "sweep" => reader' = reader /\ disk \subseteq disk',
         job[u].build # NoBuild =>
           (disk \subseteq disk' /\ reader' = reader /\ job'[t].build = job[t].build) \/ job'[t].build # NoBuild \/ Parted',
         Parted => Parted', setting' = setting, erased' => erased
  PROVE  JobOK(u)'
  <1>1. JobOK(u) /\ job'[u] = job[u]
    BY DEF GeoInv
  <1>2. job[u].conn # NoConn => \A v \in Jobs \ {u} : job'[v].conn # job[u].conn
    BY <1>1 DEF JobOK
  <1>3. job[u].at \in {"unlock", "record"} /\ job[u].build # NoBuild =>
          (job[u].build \in disk' /\ reader' = job[u].build) \/ (\E v \in Jobs \ {u} : job'[v].build # NoBuild) \/ Parted'
    <2> SUFFICES ASSUME job[u].at \in {"unlock", "record"}, job[u].build # NoBuild, ~Parted', job'[t].build = NoBuild
                 PROVE  (job[u].build \in disk' /\ reader' = job[u].build) \/ \E v \in Jobs \ {u} : job'[v].build # NoBuild
      OBVIOUS
    <2>1. disk \subseteq disk' /\ reader' = reader /\ job'[t].build = job[t].build /\ ~Parted
      OBVIOUS
    <2>2. (job[u].build \in disk /\ reader = job[u].build) \/ \E v \in Jobs \ {u} : job[v].build # NoBuild
      BY <1>1, <2>1 DEF JobOK
    <2> QED
      BY <2>1, <2>2
  <1> QED
    BY <1>1, <1>2, <1>3 DEF JobOK

LEMMA GeoParts ==
  ASSUME GeoInv
  PROVE  /\ setting \in Settings /\ enabled \in BOOLEAN /\ erased \in BOOLEAN
         /\ job \in [Jobs -> Job] /\ \A t \in Jobs : job[t] \in Job /\ JobOK(t)
         /\ SwitchOK /\ DownloadLockOK /\ FileOK /\ ErasedOK
  BY DEF GeoInv

LEMMA GeoFromParts ==
  ASSUME setting' \in Settings, enabled' \in BOOLEAN, erased' \in BOOLEAN,
         job' \in [Jobs -> Job], \A t \in Jobs : JobOK(t)', SwitchOK', DownloadLockOK', FileOK', ErasedOK'
  PROVE  GeoInv'
  BY DEF GeoInv

\* A job is past the lock alone.
LEMMA GeoAlone ==
  ASSUME GeoInv, NEW t \in Jobs, job[t].conn \in Conns, lock.by \in {NoConn, job[t].conn}
  PROVE  \A u \in Jobs \ {t} : job[u].at \notin Holding
  <1> SUFFICES ASSUME NEW u \in Jobs \ {t}, job[u].at \in Holding PROVE FALSE
    OBVIOUS
  <1>1. JobOK(u)
    BY GeoParts
  <1>2. job[u].conn \in Conns /\ job[u].conn = lock.by
    BY <1>1 DEF JobOK
  <1>3. job[u].conn # job[t].conn
    BY GeoParts, GeoAssumption DEF JobOK
  <1> QED
    BY <1>2, <1>3, GeoAssumption

\* A step that ends or moves one job and leaves the rest of the state, but for
\* the causes, alone.
LEMMA GeoMoves ==
  ASSUME GeoInv, NEW t \in Jobs, NEW k \in Job, job' = [job EXCEPT ![t] = k],
         k.conn # NoConn => \A u \in Jobs \ {t} : job[u].conn # k.conn, causes \subseteq causes', JobOK(t)',
         job[t].build # NoBuild => k.build # NoBuild \/ Parted',
         job[t].at \in Holding => k.at \in Holding \/ "abandoned" \in causes',
         job[t].at = "mirror" => (k.at = "mirror" /\ k.late = job[t].late) \/ "abandoned" \in causes',
         UNCHANGED <<setting, enabled, reader, disk, recorded, lock, located, erased>>
  PROVE  GeoInv'
  <1>1. job' \in [Jobs -> Job] /\ job'[t] = k /\ \A u \in Jobs \ {t} : job'[u] = job[u]
    BY GeoParts
  <1>2. Parted => Parted'
    BY DEF Parted
  <1>3. ASSUME NEW u \in Jobs \ {t} PROVE JobOK(u)'
    <2>2. job'[t].conn # NoConn => job'[t].conn # job[u].conn
      BY <1>1
    <2>3. job[u].build # NoBuild =>
           (disk \subseteq disk' /\ reader' = reader /\ job'[t].build = job[t].build) \/ job'[t].build # NoBuild \/ Parted'
      BY <1>1
    <2> QED
      BY <1>1, <1>2, <2>2, <2>3, GeoOther
  <1>4. SwitchOK'
    <2>1. CASE \E v \in Jobs : job[v].at = "mirror" /\ ~job[v].late
      <3>1. PICK v \in Jobs : job[v].at = "mirror" /\ ~job[v].late
        BY <2>1
      <3>2. CASE v = t
        <4>1. (job'[t].at = "mirror" /\ job'[t].late = job[t].late) \/ "abandoned" \in causes'
          BY <1>1, <3>1, <3>2
        <4> QED
          BY <3>1, <3>2, <4>1 DEF SwitchOK
      <3>3. CASE v # t
        BY <1>1, <3>1, <3>3 DEF SwitchOK
      <3> QED
        BY <3>2, <3>3
    <2>2. CASE ~\E v \in Jobs : job[v].at = "mirror" /\ ~job[v].late
      BY <2>2, GeoParts DEF SwitchOK
    <2> QED
      BY <2>1, <2>2
  <1>5. DownloadLockOK'
    <2>1. DownloadLockOK
      BY GeoParts
    <2>2. (\E v \in Jobs : job[v].at \in Holding) => (\E v \in Jobs : job'[v].at \in Holding) \/ "abandoned" \in causes'
      BY <1>1
    <2>3. lock' = lock /\ ("abandoned" \in causes => "abandoned" \in causes')
      OBVIOUS
    <2> QED
      BY ONLY <2>1, <2>2, <2>3 DEF DownloadLockOK
  <1>6. FileOK'
    <2>1. FileOK
      BY GeoParts
    <2>2. (\E v \in Jobs : job[v].build # NoBuild) => (\E v \in Jobs : job'[v].build # NoBuild) \/ Parted'
      BY <1>1
    <2> QED
      BY <1>2, <2>1, <2>2 DEF FileOK
  <1>7. ErasedOK'
    BY GeoParts DEF ErasedOK
  <1> QED
    BY <1>1, <1>3, <1>4, <1>5, <1>6, <1>7, GeoParts, GeoFromParts

LEMMA GeoQuietOK ==
  ASSUME NEW t \in Jobs, job'[t] = Quiet
  PROVE  JobOK(t)'
  BY GeoQuiet DEF JobOK, Holding

LEMMA GeoConn ==
  ASSUME GeoInv, NEW t \in Jobs
  PROVE  job[t].conn # NoConn => \A u \in Jobs \ {t} : job[u].conn # job[t].conn
  BY GeoParts DEF JobOK

LEMMA GeoAbandons ==
  ASSUME GeoInv, NEW t \in Jobs, abandon(t)
  PROVE  GeoInv'
  <1>1. /\ job' = [job EXCEPT ![t] = Quiet] /\ causes' = causes \cup {"abandoned"}
        /\ UNCHANGED <<setting, enabled, reader, disk, recorded, lock, located, geoOps, erased>>
    BY DEF abandon
  <1>2. job'[t] = Quiet /\ Parted'
    BY <1>1, GeoParts DEF Parted
  <1> QED
    BY <1>1, <1>2, GeoQuiet, GeoQuietOK, GeoMoves

LEMMA GeoReads ==
  ASSUME GeoInv, NEW t \in Jobs, NEW force \in BOOLEAN, NEW c \in Conns, read_settings(t, force, c)
  PROVE  GeoInv'
  <1> DEFINE k == [Quiet EXCEPT !.at = IF force THEN "lock" ELSE "mirror", !.force = force, !.conn = c,
                              !.on = setting.on, !.auto = setting.auto,
                              !.variant = setting.variant, !.have = recorded]
  <1>1. setting.on \in BOOLEAN /\ setting.auto \in BOOLEAN /\ setting.variant \in Variants /\ recorded \in Builds \cup {NoBuild}
    BY GeoParts DEF Settings, FileOK
  <1>2. PICK step : step = (IF force THEN "lock" ELSE "mirror") /\ step \in {"lock", "mirror"}
    OBVIOUS
  <1>3. k \in Job /\ k.at = step /\ k.conn = c /\ k.on = setting.on /\ k.build = NoBuild
    BY <1>1, <1>2 DEF Quiet, Job
  <1>4. /\ Pooled(c) /\ Begin(t, k)
        /\ UNCHANGED <<setting, enabled, reader, disk, recorded, lock, located, erased, causes>>
    BY DEF read_settings
  <1> HIDE DEF k
  <1>5. job[t].at = "idle" /\ job' = [job EXCEPT ![t] = k]
    BY <1>4 DEF Begin
  <1>6. job[t] = Quiet
    BY <1>5, GeoParts DEF JobOK
  <1>7. \A u \in Jobs : job[u].conn # c
    BY <1>4 DEF Pooled
  <1>8. job'[t] = k /\ \A u \in Jobs \ {t} : job'[u] = job[u]
    BY <1>5, GeoParts
  <1>9. JobOK(t)'
    <2>1. k.conn # NoConn => \A u \in Jobs \ {t} : job'[u].conn # k.conn
      BY <1>3, <1>7, <1>8
    <2> QED
      BY <1>2, <1>3, <1>4, <1>8, <2>1 DEF JobOK, Holding
  <1> QED
    BY <1>3, <1>4, <1>5, <1>6, <1>7, <1>9, GeoQuiet, GeoMoves DEF Holding

LEMMA GeoLooksUp ==
  ASSUME GeoInv, NEW t \in Jobs, NEW f \in Families, lookup(t, f)
  PROVE  GeoInv'
  <1> DEFINE k == [Quiet EXCEPT !.at = "locate", !.fam = f]
  <1>1. k \in Job /\ k.at = "locate" /\ k.fam = f /\ k.conn = NoConn /\ k.build = NoBuild
    BY DEF Quiet, Job
  <1>2. /\ Begin(t, k) /\ enabled
        /\ UNCHANGED <<setting, enabled, reader, disk, recorded, lock, located, erased, causes>>
    BY DEF lookup
  <1> HIDE DEF k
  <1>3. job[t].at = "idle" /\ job' = [job EXCEPT ![t] = k]
    BY <1>2 DEF Begin
  <1>4. job[t] = Quiet
    BY <1>3, GeoParts DEF JobOK
  <1>5. job'[t] = k
    BY <1>3, GeoParts
  <1>6. ~erased'
    BY <1>2, GeoParts DEF ErasedOK
  <1>7. JobOK(t)'
    BY <1>1, <1>5, <1>6 DEF JobOK, Holding
  <1> QED
    BY <1>1, <1>2, <1>3, <1>4, <1>7, GeoQuiet, GeoMoves DEF Holding

LEMMA GeoFetches ==
  ASSUME GeoInv, NEW t \in Jobs, fetch_nothing(t) \/ \E b \in Builds : fetch_build(t, b)
  PROVE  GeoInv'
  <1>1. job[t].at = "fetch" /\ UNCHANGED <<setting, enabled, reader, disk, recorded, lock, located, erased, causes>>
    BY DEF fetch_nothing, fetch_build
  <1>2. job[t] \in Job /\ JobOK(t)
    BY GeoParts
  <1>3. job[t].build = NoBuild /\ job[t].conn \in Conns /\ job[t].conn = lock.by
    BY <1>1, <1>2 DEF JobOK, Holding
  <1>4. PICK k \in Job : /\ job' = [job EXCEPT ![t] = k] /\ k.conn = job[t].conn
                         /\ (k.at = "unlock" /\ k.build = NoBuild) \/ (k.at = "install" /\ k.build # NoBuild)
    <2>1. CASE fetch_nothing(t)
      <3>1. PICK k : k = [job[t] EXCEPT !.at = "unlock"]
        OBVIOUS
      <3>2. k \in Job /\ k.at = "unlock" /\ k.conn = job[t].conn /\ k.build = NoBuild
        BY <1>2, <1>3, <3>1 DEF Job, Holding
      <3>3. job' = [job EXCEPT ![t] = k]
        BY <2>1, <3>1 DEF fetch_nothing
      <3> QED
        BY <3>2, <3>3
    <2>2. CASE \E b \in Builds : fetch_build(t, b)
      <3>1. PICK b \in Builds : fetch_build(t, b)
        BY <2>2
      <3>2. PICK k : k = [job[t] EXCEPT !.build = b, !.at = "install"]
        OBVIOUS
      <3>3. k \in Job /\ k.at = "install" /\ k.conn = job[t].conn /\ k.build = b
        BY <1>2, <3>2 DEF Job, Holding
      <3>4. job' = [job EXCEPT ![t] = k]
        BY <3>1, <3>2, GeoParts DEF fetch_build
      <3>5. b # NoBuild
        BY GeoAssumption
      <3> QED
        BY <3>3, <3>4, <3>5
    <2> QED
      BY <2>1, <2>2
  <1>5. job'[t] = k /\ \A u \in Jobs \ {t} : job'[u] = job[u]
    BY <1>4, GeoParts
  <1>6. k.conn # NoConn => \A u \in Jobs \ {t} : job[u].conn # k.conn
    BY <1>4, GeoConn
  <1>7. JobOK(t)'
    BY <1>1, <1>3, <1>4, <1>5, <1>6 DEF JobOK, Holding
  <1>8. k.at \in Holding
    BY <1>4 DEF Holding
  <1> QED
    BY <1>1, <1>3, <1>4, <1>6, <1>7, <1>8, GeoMoves

\* set_enabled: the switch is as the job read it, which is as it is stored
\* unless the job is late.
LEMMA GeoMirrors ==
  ASSUME GeoInv, NEW t \in Jobs, set_enabled(t)
  PROVE  GeoInv'
  <1>0. PICK k : k = job[t]
    OBVIOUS
  <1>1. k.at = "mirror" /\ k \in Job /\ JobOK(t)
    BY <1>0, GeoParts DEF set_enabled
  <1>2. /\ enabled' = k.on /\ causes' = IF k.late THEN causes \cup {"switch"} ELSE causes \ {"switch", "start"}
        /\ erased' = (erased /\ ~k.on) /\ UNCHANGED <<setting, reader, disk, recorded, lock, located, geoOps>>
    BY <1>0 DEF set_enabled
  <1>3. k.on \in BOOLEAN /\ k.late \in BOOLEAN /\ k.build = NoBuild
    BY <1>0, <1>1 DEF JobOK, Job
  <1>4. PICK n : n = IF k.conn # NoConn /\ k.on /\ k.auto THEN [k EXCEPT !.at = "lock"] ELSE Quiet
    OBVIOUS
  <1>5. n \in Job /\ n.conn \in {k.conn, NoConn} /\ n.build = NoBuild /\ (n = Quiet \/ (n.at = "lock" /\ n.conn \in Conns))
    <2>1. CASE k.conn # NoConn /\ k.on /\ k.auto
      <3>1. n = [k EXCEPT !.at = "lock"]
        BY <1>4, <2>1
      <3> QED
        BY <1>1, <1>3, <2>1, <3>1 DEF Job
    <2>2. CASE ~(k.conn # NoConn /\ k.on /\ k.auto)
      BY <1>4, <2>2, GeoQuiet
    <2> QED
      BY <2>1, <2>2
  <1>6. job' = [job EXCEPT ![t] = n]
    BY <1>0, <1>4 DEF set_enabled
  <1>7. job' \in [Jobs -> Job] /\ job'[t] = n /\ \A u \in Jobs \ {t} : job'[u] = job[u]
    BY <1>5, <1>6, GeoParts
  <1>8. n.conn # NoConn => \A u \in Jobs \ {t} : job[u].conn # n.conn
    BY <1>0, <1>5, GeoConn
  <1>9. (Parted => Parted') /\ (erased' => erased) /\ (\A c \in {"abandoned", "unread", "login"} : c \in causes => c \in causes')
    BY <1>2 DEF Parted
  <1>10. JobOK(t)'
    BY <1>5, <1>7, <1>8, GeoQuiet DEF JobOK, Holding
  <1>11. ASSUME NEW u \in Jobs \ {t} PROVE JobOK(u)'
    BY <1>0, <1>2, <1>3, <1>5, <1>7, <1>8, <1>9, GeoOther
  <1>12. SwitchOK'
    <2>1. CASE k.late
      BY <1>2, <2>1 DEF SwitchOK
    <2>2. CASE ~k.late
      BY <1>0, <1>1, <1>2, <2>2 DEF SwitchOK, JobOK
    <2> QED
      BY <2>1, <2>2
  <1>13. DownloadLockOK'
    <2>1. (\E v \in Jobs : job[v].at \in Holding) => (\E v \in Jobs : job'[v].at \in Holding)
      BY <1>0, <1>1, <1>7 DEF Holding
    <2>2. lock' = lock /\ ("abandoned" \in causes => "abandoned" \in causes') /\ DownloadLockOK
      BY <1>2, <1>9, GeoParts
    <2> QED
      BY ONLY <2>1, <2>2 DEF DownloadLockOK
  <1>14. FileOK'
    <2>1. (\E v \in Jobs : job[v].build # NoBuild) => (\E v \in Jobs : job'[v].build # NoBuild)
      BY <1>0, <1>3, <1>7
    <2> QED
      BY <1>2, <1>9, <2>1, GeoParts DEF FileOK
  <1>15. ErasedOK'
    BY <1>2, <1>9, GeoParts DEF ErasedOK
  <1>16. enabled' \in BOOLEAN /\ erased' \in BOOLEAN
    BY <1>2, <1>3
  <1> QED
    BY <1>2, <1>7, <1>10, <1>11, <1>12, <1>13, <1>14, <1>15, <1>16, GeoParts, GeoFromParts

\* The lock is free, or left over from a job that was dropped on the same
\* connection.
LEMMA GeoLocks ==
  ASSUME GeoInv, NEW t \in Jobs, lock_download(t)
  PROVE  GeoInv'
  <1>0. PICK k : k = job[t]
    OBVIOUS
  <1>1. k.at = "lock" /\ k \in Job /\ JobOK(t) /\ UNCHANGED <<setting, enabled, reader, disk, recorded, located, geoOps, erased, causes>>
    BY <1>0, GeoParts DEF lock_download
  <1>2. k.conn \in Conns /\ k.build = NoBuild
    BY <1>0, <1>1 DEF JobOK
  <1>3. CASE try_lock_download(k.conn)
    <2>1. PICK n : n = [k EXCEPT !.at = "fetch", !.have = IF k.force THEN k.have ELSE recorded]
      OBVIOUS
    <2>2. lock' = [by |-> k.conn, n |-> lock.n + 1] /\ job' = [job EXCEPT ![t] = n]
      BY <1>0, <1>3, <2>1 DEF lock_download
    <2>3. recorded \in Builds \cup {NoBuild} /\ k.have \in Builds \cup {NoBuild}
      BY <1>1, GeoParts DEF FileOK, Job
    <2>4. n \in Job /\ n.at = "fetch" /\ n.conn = k.conn /\ n.build = NoBuild
      BY <1>1, <1>2, <2>1, <2>3 DEF Job, Holding
    <2>5. job' \in [Jobs -> Job] /\ job'[t] = n /\ \A u \in Jobs \ {t} : job'[u] = job[u]
      BY <2>2, <2>4, GeoParts
    <2>6. \A u \in Jobs : job[u].at \notin Holding
      <3>1. \A u \in Jobs \ {t} : job[u].at \notin Holding
        BY <1>0, <1>2, <1>3, GeoAlone DEF try_lock_download
      <3> QED
        BY <1>0, <1>1, <3>1 DEF Holding
    <2>7. \A u \in Jobs \ {t} : job[u].conn # n.conn
      BY <1>0, <1>2, <2>4, GeoConn, GeoAssumption
    <2>8. lock.n \in Nat /\ lock'.by = k.conn /\ lock'.n = lock.n + 1 /\ lock' \in [by : Conns \cup {NoConn}, n : Nat]
      BY <1>2, <2>2, GeoParts DEF DownloadLockOK
    <2>9. JobOK(t)'
      BY <1>2, <2>4, <2>5, <2>7, <2>8 DEF JobOK, Holding
    <2>10. ASSUME NEW u \in Jobs \ {t} PROVE JobOK(u)'
      <3>1. Parted => Parted'
        BY <1>1 DEF Parted
      <3>2. job[u].at # "sweep" /\ job[u].at \notin Holding
        BY <2>6 DEF Holding
      <3> QED
        BY <1>0, <1>1, <1>2, <2>4, <2>5, <2>7, <3>1, <3>2, GeoOther
    <2>11. SwitchOK'
      <3>1. \A u \in Jobs : job[u].at = "mirror" => job'[u] = job[u]
        BY <1>0, <1>1, <2>5
      <3> QED
        BY <1>1, <3>1, GeoParts DEF SwitchOK
    <2>12. DownloadLockOK'
      <3>1. lock.n > 0 => "abandoned" \in causes
        BY <2>6, GeoParts DEF DownloadLockOK
      <3>2. lock'.n > 0 /\ lock'.by # NoConn /\ lock'.n # 0
        BY <1>2, <2>8, GeoAssumption
      <3>3. "abandoned" \in causes' \/ lock'.n = 1
        BY <1>1, <2>8, <3>1
      <3>4. job'[t].at \in Holding
        BY <2>4, <2>5 DEF Holding
      <3> QED
        BY <2>8, <3>2, <3>3, <3>4 DEF DownloadLockOK
    <2>13. FileOK'
      <3>1. (\E v \in Jobs : job[v].build # NoBuild) => (\E v \in Jobs : job'[v].build # NoBuild)
        BY <1>0, <1>2, <2>5
      <3> QED
        BY <1>1, <3>1, GeoParts DEF FileOK, Parted
    <2>14. ErasedOK'
      BY <1>1, GeoParts DEF ErasedOK
    <2> QED
      BY <1>1, <2>5, <2>9, <2>10, <2>11, <2>12, <2>13, <2>14, GeoParts, GeoFromParts
  <1>4. CASE ~try_lock_download(k.conn)
    <2>1. job' = [job EXCEPT ![t] = Quiet] /\ lock' = lock
      BY <1>0, <1>4 DEF lock_download
    <2>2. job'[t] = Quiet
      BY <2>1, GeoParts
    <2> QED
      BY <1>0, <1>1, <1>2, <2>1, <2>2, GeoQuiet, GeoQuietOK, GeoMoves DEF Holding
  <1> QED
    BY <1>3, <1>4

\* install_bytes and remove_stale_files: nobody else is past the lock.
LEMMA GeoInstalls ==
  ASSUME GeoInv, NEW t \in Jobs, install_bytes(t) \/ remove_stale_files(t)
  PROVE  GeoInv'
  <1>0. PICK k : k = job[t]
    OBVIOUS
  <1>1. /\ k \in Job /\ JobOK(t) /\ k.at \in {"install", "sweep"}
        /\ UNCHANGED <<setting, enabled, recorded, lock, located, geoOps, erased, causes>>
    BY <1>0, GeoParts DEF install_bytes, remove_stale_files
  <1>2. k.conn \in Conns /\ k.conn = lock.by /\ k.build \in Builds /\ k.build # NoBuild
    BY <1>0, <1>1 DEF JobOK, Holding, Job
  <1>3. PICK step : step = (IF k.at = "install" THEN "sweep" ELSE "unlock") /\ step \in {"sweep", "unlock"}
    OBVIOUS
  <1>4. PICK n : n = [k EXCEPT !.at = step]
    OBVIOUS
  <1>5. n \in Job /\ n.at = step /\ n.conn = k.conn /\ n.build = k.build
    BY <1>1, <1>3, <1>4 DEF Job, Holding
  <1>6. job' = [job EXCEPT ![t] = n]
    BY <1>0, <1>3, <1>4 DEF install_bytes, remove_stale_files
  <1>7. job' \in [Jobs -> Job] /\ job'[t] = n /\ \A u \in Jobs \ {t} : job'[u] = job[u]
    BY <1>5, <1>6, GeoParts
  <1>8. k.build \in disk' /\ disk' \subseteq Builds /\ reader' = k.build
    <2>1. CASE install_bytes(t)
      BY <1>0, <1>2, <2>1, GeoParts DEF install_bytes, load, FileOK
    <2>2. CASE remove_stale_files(t)
      <3>1. k.at = "sweep" /\ disk' = disk \cap {k.build} /\ reader' = reader
        BY <1>0, <2>2 DEF remove_stale_files
      <3>2. reader = k.build /\ k.build \in disk
        BY <1>0, <1>1, <3>1 DEF JobOK
      <3> QED
        BY <1>2, <3>1, <3>2
    <2> QED
      BY <2>1, <2>2
  <1>9. \A u \in Jobs \ {t} : job[u].at \notin Holding /\ job[u].conn # n.conn
    BY <1>0, <1>2, <1>5, GeoAlone, GeoConn, GeoAssumption
  <1>10. JobOK(t)'
    BY <1>1, <1>2, <1>3, <1>5, <1>7, <1>8, <1>9 DEF JobOK, Holding
  <1>11. ASSUME NEW u \in Jobs \ {t} PROVE JobOK(u)'
    <2>1. Parted => Parted'
      BY <1>1 DEF Parted
    <2>2. job[u].at # "sweep"
      BY <1>9 DEF Holding
    <2> QED
      BY <1>1, <1>2, <1>5, <1>7, <1>9, <2>1, <2>2, GeoOther
  <1>12. SwitchOK'
    <2>1. \A u \in Jobs : job[u].at = "mirror" => job'[u] = job[u]
      BY <1>0, <1>1, <1>7
    <2> QED
      BY <1>1, <2>1, GeoParts DEF SwitchOK
  <1>13. DownloadLockOK'
    <2>1. job'[t].at \in Holding /\ lock' = lock /\ causes' = causes /\ DownloadLockOK
      BY <1>1, <1>3, <1>5, <1>7, GeoParts DEF Holding
    <2> QED
      BY ONLY <2>1, t \in Jobs DEF DownloadLockOK
  <1>14. FileOK'
    BY <1>1, <1>2, <1>5, <1>7, <1>8, GeoParts DEF FileOK
  <1>15. ErasedOK'
    BY <1>1, GeoParts DEF ErasedOK
  <1> QED
    BY <1>1, <1>7, <1>10, <1>11, <1>12, <1>13, <1>14, <1>15, GeoParts, GeoFromParts

LEMMA GeoUnlocks ==
  ASSUME GeoInv, NEW t \in Jobs, unlock_download(t)
  PROVE  GeoInv'
  <1>0. PICK k : k = job[t]
    OBVIOUS
  <1>1. /\ k \in Job /\ JobOK(t) /\ k.at = "unlock"
        /\ UNCHANGED <<setting, enabled, reader, disk, recorded, located, geoOps, erased, causes>>
    BY <1>0, GeoParts DEF unlock_download
  <1>2. k.conn \in Conns /\ k.conn = lock.by
    BY <1>0, <1>1 DEF JobOK, Holding
  <1>3. PICK n : n = IF k.build = NoBuild THEN Quiet ELSE [k EXCEPT !.at = "record"]
    OBVIOUS
  <1>4. n \in Job /\ n.build = k.build /\ (n = Quiet \/ (n.at = "record" /\ n.conn = k.conn /\ n.build # NoBuild))
    BY <1>1, <1>3, GeoQuiet DEF Job
  <1>5. job' = [job EXCEPT ![t] = n]
    BY <1>0, <1>3 DEF unlock_download
  <1>6. job' \in [Jobs -> Job] /\ job'[t] = n /\ \A u \in Jobs \ {t} : job'[u] = job[u]
    BY <1>4, <1>5, GeoParts
  <1>7. \A u \in Jobs \ {t} : job[u].at \notin Holding /\ job[u].conn # k.conn
    BY <1>0, <1>2, GeoAlone, GeoConn, GeoAssumption
  <1>8. JobOK(t)'
    <2>1. CASE n = Quiet
      BY <1>6, <2>1, GeoQuietOK
    <2>2. CASE n.at = "record" /\ n.conn = k.conn /\ n.build # NoBuild
      <3>1. (k.build \in disk /\ reader = k.build) \/ (\E u \in Jobs \ {t} : job[u].build # NoBuild) \/ Parted
        BY <1>0, <1>1, <1>4, <2>2 DEF JobOK
      <3>2. (n.build \in disk' /\ reader' = n.build) \/ (\E u \in Jobs \ {t} : job'[u].build # NoBuild) \/ Parted'
        BY <1>1, <1>4, <1>6, <3>1 DEF Parted
      <3> QED
        BY <1>2, <1>6, <1>7, <2>2, <3>2 DEF JobOK, Holding
    <2> QED
      BY <1>4, <2>1, <2>2
  <1>9. ASSUME NEW u \in Jobs \ {t} PROVE JobOK(u)'
    <2>1. Parted => Parted'
      BY <1>1 DEF Parted
    <2>2. job[u].at # "sweep"
      BY <1>7 DEF Holding
    <2>3. job'[t].conn # NoConn => job'[t].conn # job[u].conn
      BY <1>4, <1>6, <1>7, GeoQuiet
    <2> QED
      BY <1>0, <1>1, <1>4, <1>6, <1>7, <2>1, <2>2, <2>3, GeoOther
  <1>10. SwitchOK'
    <2>1. \A u \in Jobs : job[u].at = "mirror" => job'[u] = job[u]
      BY <1>0, <1>1, <1>6
    <2> QED
      BY <1>1, <2>1, GeoParts DEF SwitchOK
  <1>11. DownloadLockOK'
    <2>1. lock \in [by : Conns \cup {NoConn}, n : Nat] /\ (lock.n = 0 <=> lock.by = NoConn) /\ lock.n \in Nat
      BY GeoParts DEF DownloadLockOK
    <2>2. CASE lock.n > 1
      <3>1. PICK m \in Nat : m = lock.n - 1 /\ m # 0
        BY <2>1, <2>2
      <3>2. lock' = [lock EXCEPT !.n = m]
        BY <2>2, <3>1 DEF unlock_download
      <3>3. lock' \in [by : Conns \cup {NoConn}, n : Nat] /\ lock'.by = lock.by /\ lock'.n = m
        BY <2>1, <3>1, <3>2
      <3>4. "abandoned" \in causes'
        BY <1>1, <2>1, <2>2, GeoParts DEF DownloadLockOK
      <3> QED
        BY <1>2, <3>1, <3>3, <3>4, GeoAssumption DEF DownloadLockOK
    <2>3. CASE ~(lock.n > 1)
      <3>1. lock' = [by |-> NoConn, n |-> 0]
        BY <2>3 DEF unlock_download
      <3> QED
        BY <3>1 DEF DownloadLockOK
    <2> QED
      BY <2>2, <2>3
  <1>12. FileOK'
    <2>1. (\E v \in Jobs : job[v].build # NoBuild) => (\E v \in Jobs : job'[v].build # NoBuild)
      BY <1>0, <1>4, <1>6
    <2> QED
      BY <1>1, <2>1, GeoParts DEF FileOK, Parted
  <1>13. ErasedOK'
    BY <1>1, GeoParts DEF ErasedOK
  <1> QED
    BY <1>1, <1>6, <1>8, <1>9, <1>10, <1>11, <1>12, <1>13, GeoParts, GeoFromParts

\* The row names a build that is on disk, or one that another update replaced.
LEMMA GeoRecords ==
  ASSUME GeoInv, NEW t \in Jobs, set_installed(t)
  PROVE  GeoInv'
  <1>0. PICK k : k = job[t]
    OBVIOUS
  <1>1. /\ k \in Job /\ JobOK(t) /\ k.at = "record" /\ job' = [job EXCEPT ![t] = Quiet] /\ recorded' = k.build
        /\ causes' = IF \E u \in Jobs \ {t} : job[u].build # NoBuild THEN causes \cup {"record"} ELSE causes
        /\ UNCHANGED <<setting, enabled, reader, disk, lock, located, geoOps, erased>>
    BY <1>0, GeoParts DEF set_installed
  <1>2. k.build \in Builds
    BY <1>0, <1>1 DEF JobOK, Job
  <1>3. job' \in [Jobs -> Job] /\ job'[t] = Quiet /\ \A u \in Jobs \ {t} : job'[u] = job[u]
    BY <1>1, GeoQuiet, GeoParts
  <1>4. causes \subseteq causes' /\ (Parted => Parted') /\ ((\E u \in Jobs \ {t} : job[u].build # NoBuild) => Parted')
    BY <1>1 DEF Parted
  <1>5. JobOK(t)'
    BY <1>3, GeoQuietOK
  <1>6. ASSUME NEW u \in Jobs \ {t} PROVE JobOK(u)'
    BY <1>1, <1>3, <1>4, GeoQuiet, GeoOther
  <1>7. SwitchOK'
    <2>1. \A u \in Jobs : job[u].at = "mirror" => job'[u] = job[u]
      BY <1>0, <1>1, <1>3
    <2> QED
      BY <1>1, <1>4, <2>1, GeoParts DEF SwitchOK
  <1>8. DownloadLockOK'
    <2>1. (\E v \in Jobs : job[v].at \in Holding) => (\E v \in Jobs : job'[v].at \in Holding)
      BY <1>0, <1>1, <1>3 DEF Holding
    <2>2. lock' = lock /\ ("abandoned" \in causes => "abandoned" \in causes') /\ DownloadLockOK
      BY <1>1, <1>4, GeoParts
    <2> QED
      BY ONLY <2>1, <2>2 DEF DownloadLockOK
  <1>9. FileOK'
    <2>1. (k.build \in disk /\ reader = k.build) \/ (\E u \in Jobs \ {t} : job[u].build # NoBuild) \/ Parted
      BY <1>0, <1>1 DEF JobOK
    <2>2. (recorded' \in disk' /\ reader' = recorded') \/ Parted'
      BY <1>1, <1>4, <2>1
    <2> QED
      BY <1>1, <1>2, <2>2, GeoParts DEF FileOK
  <1>10. ErasedOK'
    BY <1>1, <1>4, GeoParts DEF ErasedOK
  <1> QED
    BY <1>1, <1>3, <1>5, <1>6, <1>7, <1>8, <1>9, <1>10, GeoParts, GeoFromParts

LEMMA GeoLocates ==
  ASSUME GeoInv, NEW t \in Jobs, set_family_location(t)
  PROVE  GeoInv'
  <1>0. PICK k : k = job[t]
    OBVIOUS
  <1>1. /\ k \in Job /\ JobOK(t) /\ k.at = "locate" /\ job' = [job EXCEPT ![t] = Quiet]
        /\ located' = located \cup {k.fam} /\ causes' = IF k.late THEN causes \cup {"login"} ELSE causes
        /\ UNCHANGED <<setting, enabled, reader, disk, recorded, lock, geoOps, erased>>
    BY <1>0, GeoParts DEF set_family_location
  <1>2. k.fam \in Families /\ (~k.late => ~erased) /\ k.build = NoBuild
    BY <1>0, <1>1 DEF JobOK
  <1>3. job' \in [Jobs -> Job] /\ job'[t] = Quiet /\ \A u \in Jobs \ {t} : job'[u] = job[u]
    BY <1>1, GeoQuiet, GeoParts
  <1>4. causes \subseteq causes' /\ (Parted => Parted')
    BY <1>1 DEF Parted
  <1>5. JobOK(t)'
    BY <1>3, GeoQuietOK
  <1>6. ASSUME NEW u \in Jobs \ {t} PROVE JobOK(u)'
    BY <1>0, <1>1, <1>2, <1>3, <1>4, GeoQuiet, GeoOther
  <1>7. SwitchOK'
    <2>1. \A u \in Jobs : job[u].at = "mirror" => job'[u] = job[u]
      BY <1>0, <1>1, <1>3
    <2> QED
      BY <1>1, <1>4, <2>1, GeoParts DEF SwitchOK
  <1>8. DownloadLockOK'
    <2>1. (\E v \in Jobs : job[v].at \in Holding) => (\E v \in Jobs : job'[v].at \in Holding)
      BY <1>0, <1>1, <1>3 DEF Holding
    <2>2. lock' = lock /\ ("abandoned" \in causes => "abandoned" \in causes') /\ DownloadLockOK
      BY <1>1, <1>4, GeoParts
    <2> QED
      BY ONLY <2>1, <2>2 DEF DownloadLockOK
  <1>9. FileOK'
    <2>1. (\E v \in Jobs : job[v].build # NoBuild) => (\E v \in Jobs : job'[v].build # NoBuild)
      BY <1>0, <1>2, <1>3
    <2> QED
      BY <1>1, <1>4, <2>1, GeoParts DEF FileOK
  <1>10. ErasedOK'
    <2>1. erased => "login" \in causes'
      BY <1>1, <1>2
    <2> QED
      BY <1>1, <1>2, <2>1, GeoParts DEF ErasedOK
  <1> QED
    BY <1>1, <1>3, <1>5, <1>6, <1>7, <1>8, <1>9, <1>10, GeoParts, GeoFromParts

\* A job that stays where it is, or becomes late.
LEMMA GeoAged ==
  ASSUME NEW k \in Job, NEW at, NEW n, k.at = at => n = [k EXCEPT !.late = TRUE], k.at # at => n = k
  PROVE  /\ n \in Job /\ n.at = k.at /\ n.conn = k.conn /\ n.build = k.build /\ n.on = k.on /\ n.fam = k.fam
         /\ (~n.late => ~k.late) /\ (k.at = at => n.late) /\ (k.at # at => n = k)
  BY DEF Job

\* The settings change: whoever has read the switch is late.
LEMMA GeoUpdates ==
  ASSUME GeoInv, NEW t \in Jobs, NEW s \in Settings, update_geoip(t, s)
  PROVE  GeoInv'
  <1>1. /\ job[t].at = "idle" /\ setting' = s /\ erased' = (erased /\ ~s.on)
        /\ UNCHANGED <<enabled, reader, disk, recorded, lock, located, causes>>
    BY DEF update_geoip
  <1>2. job[t] = Quiet /\ s.on \in BOOLEAN
    BY <1>1, GeoParts DEF JobOK, Settings
  <1>3. PICK k : k = [Quiet EXCEPT !.at = "mirror", !.on = s.on]
    OBVIOUS
  <1>4. k \in Job /\ k.at = "mirror" /\ k.on = s.on /\ k.conn = NoConn /\ k.build = NoBuild /\ ~k.late
    BY <1>2, <1>3 DEF Quiet, Job
  <1>5. job'[t] = k
    BY <1>3 DEF update_geoip
  <1>6. ASSUME NEW u \in Jobs \ {t}
        PROVE  /\ job'[u] \in Job /\ job'[u].at = job[u].at /\ job'[u].conn = job[u].conn /\ job'[u].build = job[u].build
               /\ job'[u].fam = job[u].fam /\ (~job'[u].late => ~job[u].late)
               /\ (job[u].at = "mirror" => job'[u].late) /\ (job[u].at # "mirror" => job'[u] = job[u])
    <2>1. job'[u] = [job[u] EXCEPT !.late = job[u].late \/ job[u].at = "mirror"]
      BY DEF update_geoip
    <2>2. job[u] \in Job /\ job[u].late \in BOOLEAN
      BY GeoParts DEF Job
    <2>3. job[u].at = "mirror" => job'[u] = [job[u] EXCEPT !.late = TRUE]
      BY <2>1, <2>2
    <2>4. job[u].at # "mirror" => job'[u] = job[u]
      <3>1. job[u].at # "mirror" => job'[u] = [job[u] EXCEPT !.late = job[u].late]
        BY <2>1, <2>2
      <3> QED
        BY <2>2, <3>1 DEF Job
    <2> QED
      BY <2>2, <2>3, <2>4, GeoAged
  <1>7. job' \in [Jobs -> Job]
    <2>1. job' = [u \in Jobs |-> job'[u]]
      BY DEF update_geoip
    <2>2. \A u \in Jobs : job'[u] \in Job
      BY <1>4, <1>5, <1>6
    <2> QED
      BY <2>1, <2>2
  <1>8. Parted' <=> Parted
    BY <1>1 DEF Parted
  <1>9. JobOK(t)'
    BY <1>1, <1>4, <1>5 DEF JobOK, Holding
  <1>10. ASSUME NEW u \in Jobs \ {t} PROVE JobOK(u)'
    <2>1. JobOK(u)
      BY GeoParts
    <2>2. job'[u].conn # NoConn => \A v \in Jobs \ {u} : job'[v].conn # job'[u].conn
      BY <1>4, <1>5, <1>6, <2>1 DEF JobOK
    <2>3. (\E v \in Jobs \ {u} : job[v].build # NoBuild) => \E v \in Jobs \ {u} : job'[v].build # NoBuild
      BY <1>2, <1>6, GeoQuiet
    <2>4. erased' => erased
      BY <1>1
    <2>5. job'[u].at = "idle" => job'[u] = Quiet
      BY <1>6, <2>1 DEF JobOK
    <2> QED
      BY <1>1, <1>6, <1>8, <2>1, <2>2, <2>3, <2>4, <2>5 DEF JobOK, Holding
  <1>11. SwitchOK'
    BY <1>4, <1>5 DEF SwitchOK
  <1>12. DownloadLockOK'
    <2>1. (\E v \in Jobs : job[v].at \in Holding) => (\E v \in Jobs : job'[v].at \in Holding)
      BY <1>1, <1>6 DEF Holding
    <2>2. lock' = lock /\ ("abandoned" \in causes => "abandoned" \in causes') /\ DownloadLockOK
      BY <1>1, GeoParts
    <2> QED
      BY ONLY <2>1, <2>2 DEF DownloadLockOK
  <1>13. FileOK'
    <2>1. (\E v \in Jobs : job[v].build # NoBuild) => (\E v \in Jobs : job'[v].build # NoBuild)
      BY <1>2, <1>6, GeoQuiet
    <2> QED
      BY <1>1, <1>8, <2>1, GeoParts DEF FileOK
  <1>14. ErasedOK'
    BY <1>1, GeoParts DEF ErasedOK
  <1>15. erased' \in BOOLEAN
    BY <1>1
  <1> QED
    BY <1>1, <1>7, <1>9, <1>10, <1>11, <1>12, <1>13, <1>14, <1>15, GeoParts, GeoFromParts

\* Whoever has looked an address up before the purge is late.
LEMMA GeoPurges ==
  ASSUME GeoInv, purge_locations
  PROVE  GeoInv'
  <1>1. /\ located' = {} /\ erased' = (~setting.on /\ ~enabled)
        /\ UNCHANGED <<setting, enabled, reader, disk, recorded, lock, causes>>
    BY DEF purge_locations
  <1>2. ASSUME NEW u \in Jobs
        PROVE  /\ job'[u] \in Job /\ job'[u].at = job[u].at /\ job'[u].conn = job[u].conn /\ job'[u].build = job[u].build
               /\ job'[u].fam = job[u].fam /\ job'[u].on = job[u].on /\ (~job'[u].late => ~job[u].late)
               /\ (job[u].at = "locate" => job'[u].late) /\ (job[u].at # "locate" => job'[u] = job[u])
    <2>1. job'[u] = [job[u] EXCEPT !.late = job[u].late \/ job[u].at = "locate"]
      BY DEF purge_locations
    <2>2. job[u] \in Job /\ job[u].late \in BOOLEAN
      BY GeoParts DEF Job
    <2>3. job[u].at = "locate" => job'[u] = [job[u] EXCEPT !.late = TRUE]
      BY <2>1, <2>2
    <2>4. job[u].at # "locate" => job'[u] = job[u]
      <3>1. job[u].at # "locate" => job'[u] = [job[u] EXCEPT !.late = job[u].late]
        BY <2>1, <2>2
      <3> QED
        BY <2>2, <3>1 DEF Job
    <2> QED
      BY <2>2, <2>3, <2>4, GeoAged
  <1>3. job' \in [Jobs -> Job]
    <2>1. job' = [u \in Jobs |-> job'[u]]
      BY DEF purge_locations
    <2> QED
      BY <1>2, <2>1
  <1>4. Parted' <=> Parted
    BY <1>1 DEF Parted
  <1>5. ASSUME NEW u \in Jobs PROVE JobOK(u)'
    <2>1. JobOK(u)
      BY GeoParts
    <2>2. job'[u].conn # NoConn => \A v \in Jobs \ {u} : job'[v].conn # job'[u].conn
      BY <1>2, <2>1 DEF JobOK
    <2>3. (\E v \in Jobs \ {u} : job[v].build # NoBuild) => \E v \in Jobs \ {u} : job'[v].build # NoBuild
      BY <1>2
    <2>4. job'[u].at = "idle" => job'[u] = Quiet
      BY <1>2, <2>1 DEF JobOK
    <2> QED
      BY <1>1, <1>2, <1>4, <2>1, <2>2, <2>3, <2>4 DEF JobOK, Holding
  <1>6. SwitchOK'
    <2>1. (\E v \in Jobs : job[v].at = "mirror" /\ ~job[v].late) => \E v \in Jobs : job'[v].at = "mirror" /\ ~job'[v].late
      BY <1>2
    <2> QED
      BY <1>1, <2>1, GeoParts DEF SwitchOK
  <1>7. DownloadLockOK'
    <2>1. (\E v \in Jobs : job[v].at \in Holding) => (\E v \in Jobs : job'[v].at \in Holding)
      BY <1>2
    <2>2. lock' = lock /\ ("abandoned" \in causes => "abandoned" \in causes') /\ DownloadLockOK
      BY <1>1, GeoParts
    <2> QED
      BY ONLY <2>1, <2>2 DEF DownloadLockOK
  <1>8. FileOK'
    <2>1. (\E v \in Jobs : job[v].build # NoBuild) => (\E v \in Jobs : job'[v].build # NoBuild)
      BY <1>2
    <2> QED
      BY <1>1, <1>4, <2>1, GeoParts DEF FileOK
  <1>9. ErasedOK'
    BY <1>1 DEF ErasedOK
  <1>10. erased' \in BOOLEAN
    BY <1>1
  <1> QED
    BY <1>1, <1>3, <1>5, <1>6, <1>7, <1>8, <1>9, <1>10, GeoParts, GeoFromParts

\* A restart: no job, no lock, and the switch as it is stored, if it is read.
LEMMA GeoRestarts ==
  ASSUME GeoInv, NEW settingsRead \in BOOLEAN, NEW rowRead \in BOOLEAN, init_geoip(settingsRead, rowRead)
  PROVE  GeoInv'
  <1>1. /\ job' = [t \in Jobs |-> Quiet] /\ lock' = [by |-> NoConn, n |-> 0]
        /\ enabled' = (settingsRead /\ setting.on) /\ erased' = (erased /\ ~setting.on)
        /\ reader' = IF settingsRead /\ rowRead THEN load(recorded, disk) ELSE NoBuild
        /\ causes' = (causes \ {"switch", "start", "unread"})
                       \cup (IF settingsRead THEN {} ELSE {"start"})
                       \cup (IF settingsRead /\ rowRead THEN {} ELSE {"unread"})
                       \cup {"abandoned" : t \in {u \in Jobs : job[u].at # "idle"}}
        /\ UNCHANGED <<setting, disk, recorded, located>>
    BY DEF init_geoip
  <1>2. job' \in [Jobs -> Job] /\ \A t \in Jobs : job'[t] = Quiet
    BY <1>1, GeoQuiet
  <1>3. \A t \in Jobs : JobOK(t)'
    BY <1>2, GeoQuietOK
  <1>4. (Parted => Parted') /\ ("login" \in causes => "login" \in causes')
    BY <1>1 DEF Parted
  <1>5. (\E t \in Jobs : job[t].build # NoBuild) => Parted'
    <2> SUFFICES ASSUME NEW t \in Jobs, job[t].build # NoBuild PROVE Parted'
      OBVIOUS
    <2>1. job[t].at # "idle"
      BY GeoParts DEF JobOK
    <2>2. "abandoned" \in causes'
      BY <1>1, <2>1
    <2> QED
      BY <2>2 DEF Parted
  <1>6. FileOK'
    BY <1>1, <1>4, <1>5, GeoParts DEF FileOK, load
  <1>7. DownloadLockOK'
    BY <1>1 DEF DownloadLockOK
  <1>8. setting.on \in BOOLEAN
    BY GeoParts DEF Settings
  <1>9. SwitchOK'
    <2>1. CASE settingsRead
      BY <1>1, <1>8, <2>1 DEF SwitchOK
    <2>2. CASE ~settingsRead
      <3>1. "start" \in causes'
        BY <1>1, <2>2
      <3> QED
        BY <3>1 DEF SwitchOK
    <2> QED
      BY <2>1, <2>2
  <1>10. ErasedOK'
    BY <1>1, <1>4, GeoParts DEF ErasedOK
  <1>11. enabled' \in BOOLEAN /\ erased' \in BOOLEAN
    BY <1>1, <1>8
  <1> QED
    BY <1>1, <1>2, <1>3, <1>6, <1>7, <1>9, <1>10, <1>11, GeoParts, GeoFromParts

LEMMA GeoInvStep ==
  ASSUME GeoInv, [GeoNext]_geoVars
  PROVE  GeoInv'
  <1>1. CASE UNCHANGED geoVars
    BY <1>1 DEF GeoInv, JobOK, SwitchOK, DownloadLockOK, FileOK, ErasedOK, Parted, geoVars
  <1>2. CASE GeoNext
    <2>1. CASE purge_locations \/ \E settingsRead, rowRead \in BOOLEAN : init_geoip(settingsRead, rowRead)
      BY <2>1, GeoPurges, GeoRestarts
    <2>2. CASE ~(purge_locations \/ \E settingsRead, rowRead \in BOOLEAN : init_geoip(settingsRead, rowRead))
      <3>1. PICK t \in Jobs :
              \/ \E s \in Settings : update_geoip(t, s)
              \/ \E force \in BOOLEAN, c \in Conns : read_settings(t, force, c)
              \/ set_enabled(t) \/ lock_download(t)
              \/ \E b \in Builds : fetch_build(t, b)
              \/ fetch_nothing(t) \/ install_bytes(t) \/ remove_stale_files(t)
              \/ unlock_download(t) \/ set_installed(t)
              \/ \E f \in Families : lookup(t, f)
              \/ set_family_location(t) \/ abandon(t)
        BY <1>2, <2>2 DEF GeoNext
      <3>2. CASE \E s \in Settings : update_geoip(t, s)
        BY <3>2, GeoUpdates
      <3>3. CASE \E force \in BOOLEAN, c \in Conns : read_settings(t, force, c)
        BY <3>3, GeoReads
      <3>4. CASE set_enabled(t) \/ lock_download(t)
        BY <3>4, GeoMirrors, GeoLocks
      <3>5. CASE fetch_nothing(t) \/ \E b \in Builds : fetch_build(t, b)
        BY <3>5, GeoFetches
      <3>6. CASE install_bytes(t) \/ remove_stale_files(t)
        BY <3>6, GeoInstalls
      <3>7. CASE unlock_download(t) \/ set_installed(t)
        BY <3>7, GeoUnlocks, GeoRecords
      <3>8. CASE \E f \in Families : lookup(t, f)
        BY <3>8, GeoLooksUp
      <3>9. CASE set_family_location(t) \/ abandon(t)
        BY <3>9, GeoLocates, GeoAbandons
      <3> QED
        BY <3>1, <3>2, <3>3, <3>4, <3>5, <3>6, <3>7, <3>8, <3>9
    <2> QED
      BY <2>1, <2>2
  <1> QED
    BY <1>1, <1>2

LEMMA GeoInvHolds == GeoInv => GeoTypeOK /\ GeoFileMatches /\ GeoSwitchHolds
  <1> SUFFICES ASSUME GeoInv PROVE GeoTypeOK /\ GeoFileMatches /\ GeoSwitchHolds
    OBVIOUS
  <1>1. GeoTypeOK
    BY GeoParts DEF GeoTypeOK, FileOK, DownloadLockOK, ErasedOK
  <1>2. GeoFileMatches
    BY GeoParts DEF GeoFileMatches, FileOK, Parted
  <1>3. ASSUME \A t \in Jobs : job[t].at = "idle"
        PROVE  /\ enabled # setting.on => causes \cap {"switch", "abandoned", "start"} # {}
               /\ lock.n > 0 => "abandoned" \in causes
    <2>1. enabled # setting.on => causes \cap {"switch", "abandoned", "start"} # {}
      BY <1>3, GeoParts DEF SwitchOK
    <2>2. lock.n > 0 => "abandoned" \in causes
      BY <1>3, GeoParts DEF DownloadLockOK, Holding
    <2> QED
      BY <2>1, <2>2
  <1>4. GeoSwitchHolds
    BY <1>3, GeoParts DEF GeoSwitchHolds, ErasedOK
  <1> QED
    BY <1>1, <1>2, <1>4

\* Updates of the geolocation database do not cross, whatever is dropped on
\* the way: what is in memory is on disk; the row, memory, the switch and the
\* lock go astray, and a purged location comes back, only for the named
\* causes: overlaps, dropped requests, and starts of the service whose queries
\* failed.
THEOREM GeoHolds == GeoSpec => [](GeoTypeOK /\ GeoFileMatches /\ GeoSwitchHolds)
  <1>1. GeoInit => GeoInv
    BY GeoInvInit
  <1>2. GeoInv /\ [GeoNext]_geoVars => GeoInv'
    BY GeoInvStep
  <1>3. GeoInv => GeoTypeOK /\ GeoFileMatches /\ GeoSwitchHolds
    BY GeoInvHolds
  <1> QED
    BY <1>1, <1>2, <1>3, PTL DEF GeoSpec

-----------------------------------------------------------------------------
(* Repositories.                                                           *)

RepoRow == [url : Urls, key : SshKeys \cup {Unset}, print : Urls \cup {Unset}]
Operator == [at : {"idle", "key", "probe", "write", "link"}, op : {"none", "key", "create", "update", "link"},
             id : Repos \cup {Unset}, url : Urls \cup Parts \cup {Unpatched}, key : SshKeys \cup {Unset, Unpatched},
             seenUrl : Urls \cup {Unset, Unpatched}, seenKey : SshKeys \cup {Unset}, late : BOOLEAN]

\* The room that a creation saw is still there unless another came first, and
\* its repository is nobody else's.
CreatorOK(h) ==
    LET o == operator[h] IN
    /\ o.op = "create" =>
         /\ o.id \in Repos \ DOMAIN repo /\ \A g \in Operators \ {h} : operator[g].id # o.id
         /\ o.url \in Urls /\ o.key \in SshKeys \cup {Unset} /\ o.at \in {"key", "probe", "write"}
         /\ ~o.late => Cardinality(DOMAIN repo) < MaxRepos
         /\ o.at = "write" => o.seenUrl \in {Unset, o.url}
    /\ o.op = "key" => o.at = "key" /\ (~o.late => Cardinality(vault) < MaxSshKeys)
    /\ o.at = "key" => o.key \in SshKeys /\ o.op \in {"key", "create"}

\* An update has read the URL that the repository has, unless another update
\* came first; the fingerprint it brings is of the URL it leaves.
UpdaterOK(h) ==
    LET o == operator[h] IN
    /\ o.op = "update" =>
         /\ o.url \in Urls \cup {Unpatched} /\ o.at \in {"probe", "write"}
         /\ o.at = "probe" => o.seenUrl \in Urls
         /\ o.at = "probe" /\ ~o.late /\ o.id \in DOMAIN repo => o.seenUrl = repo[o.id].url
         /\ o.at = "write" /\ o.seenUrl = Unpatched => "print" \in fault
         /\ o.at = "write" /\ o.url # Unpatched => o.seenUrl \in {Unset, Unpatched, o.url}
         /\ o.at = "write" /\ o.url = Unpatched /\ ~o.late /\ o.id \in DOMAIN repo =>
              o.seenUrl \in {Unset, Unpatched, repo[o.id].url}
    /\ o.at = "link" => o.op = "link" /\ o.url \in Parts
    /\ o.at = "idle" => o.op = "none"
    /\ o.at \in {"probe", "write"} => o.op \in {"create", "update"}

RepoOK(r) ==
    /\ repo[r] \in RepoRow /\ repo[r].key \in vault \cup {Unset}
    /\ repo[r].print \in {Unset, repo[r].url} \/ "print" \in fault

RepoInv ==
    /\ DOMAIN repo \subseteq Repos /\ IsFiniteSet(DOMAIN repo) /\ vault \subseteq SshKeys /\ IsFiniteSet(vault)
    /\ built \subseteq Parts \X DOMAIN repo /\ operator \in [Operators -> Operator]
    /\ repoOps \in 0 .. MaxRepoOps /\ fault \subseteq {"inline", "keys", "repos", "print"}
    /\ Cardinality(DOMAIN repo) <= MaxRepos \/ "repos" \in fault
    /\ Cardinality(vault) <= MaxSshKeys \/ "keys" \in fault \/ "inline" \in fault
    /\ \A r \in DOMAIN repo : RepoOK(r)
    /\ \A h \in Operators : CreatorOK(h) /\ UpdaterOK(h)

\* A step of the others leaves a handler where it is, or overtakes it.
SameStep(o, n) ==
    /\ n \in Operator /\ n.at = o.at /\ n.op = o.op /\ n.id = o.id /\ n.url = o.url /\ n.key = o.key
    /\ n.seenUrl = o.seenUrl /\ (~n.late => ~o.late)

LEMMA RepoOff == Off \in Operator /\ Off.at = "idle" /\ Off.op = "none" /\ Off.id = Unset
  BY DEF Off, Operator

LEMMA RepoInvInit == RepoInit => RepoInv
  <1> SUFFICES ASSUME RepoInit PROVE RepoInv
    OBVIOUS
  <1>1. operator \in [Operators -> Operator] /\ \A h \in Operators : operator[h] = Off
    BY RepoOff DEF RepoInit
  <1>2. DOMAIN repo = {} /\ vault = {} /\ built = {} /\ fault = {} /\ repoOps \in 0 .. MaxRepoOps
    BY RepositoriesAssumption DEF RepoInit
  <1>3. IsFiniteSet({}) /\ Cardinality({}) = 0
    BY FS_EmptySet
  <1>4. \A h \in Operators : CreatorOK(h) /\ UpdaterOK(h)
    BY <1>1, RepoOff DEF CreatorOK, UpdaterOK
  <1> QED
    BY <1>1, <1>2, <1>3, <1>4, RepositoriesAssumption DEF RepoInv

LEMMA RepoParts ==
  ASSUME RepoInv
  PROVE  /\ DOMAIN repo \subseteq Repos /\ IsFiniteSet(DOMAIN repo) /\ vault \subseteq SshKeys /\ IsFiniteSet(vault)
         /\ Cardinality(DOMAIN repo) \in Nat /\ Cardinality(vault) \in Nat
         /\ built \subseteq Parts \X DOMAIN repo /\ operator \in [Operators -> Operator]
         /\ repoOps \in 0 .. MaxRepoOps /\ fault \subseteq {"inline", "keys", "repos", "print"}
         /\ Cardinality(DOMAIN repo) <= MaxRepos \/ "repos" \in fault
         /\ Cardinality(vault) <= MaxSshKeys \/ "keys" \in fault \/ "inline" \in fault
         /\ \A r \in DOMAIN repo : RepoOK(r)
         /\ \A h \in Operators : operator[h] \in Operator /\ CreatorOK(h) /\ UpdaterOK(h)
  <1>1. IsFiniteSet(DOMAIN repo) /\ IsFiniteSet(vault)
    BY DEF RepoInv
  <1>2. Cardinality(DOMAIN repo) \in Nat /\ Cardinality(vault) \in Nat
    BY <1>1, FS_CardinalityType
  <1> QED
    BY <1>2 DEF RepoInv

LEMMA RepoKept ==
  ASSUME RepoInv, NEW g \in Operators, SameStep(operator[g], operator'[g]), fault \subseteq fault',
         operator[g].op = "create" =>
           operator[g].id \notin DOMAIN repo' /\ \A j \in Operators \ {g} : operator'[j].id # operator[g].id,
         operator[g].op = "create" /\ ~operator'[g].late => Cardinality(DOMAIN repo') < MaxRepos,
         operator[g].op = "key" /\ ~operator'[g].late => Cardinality(vault') < MaxSshKeys,
         operator[g].op = "update" /\ ~operator'[g].late /\ operator[g].id \in DOMAIN repo' =>
           operator[g].id \in DOMAIN repo /\ repo'[operator[g].id].url = repo[operator[g].id].url
  PROVE  CreatorOK(g)' /\ UpdaterOK(g)'
  <1>1. CreatorOK(g) /\ UpdaterOK(g)
    BY RepoParts
  <1>2. CreatorOK(g)'
    BY <1>1 DEF CreatorOK, SameStep
  <1>3. UpdaterOK(g)'
    BY <1>1 DEF UpdaterOK, SameStep
  <1> QED
    BY <1>2, <1>3

LEMMA RepoEnds ==
  ASSUME RepoInv, NEW h \in Operators, NEW ops, EndRepo(h, ops)
  PROVE  /\ operator' \in [Operators -> Operator] /\ operator'[h] = Off
         /\ \A g \in Operators \ {h} : SameStep(operator[g], operator'[g]) /\ (operator[g].op \in ops => operator'[g].late)
  <1>1. operator'[h] = Off
    BY DEF EndRepo
  <1>2. ASSUME NEW g \in Operators \ {h}
        PROVE  SameStep(operator[g], operator'[g]) /\ (operator[g].op \in ops => operator'[g].late)
    <2>1. operator[g] \in Operator
      BY RepoParts
    <2>2. operator'[g] = IF operator[g].op \in ops THEN [operator[g] EXCEPT !.late = TRUE] ELSE operator[g]
      BY DEF EndRepo
    <2>3. CASE operator[g].op \in ops
      <3>1. operator'[g] = [operator[g] EXCEPT !.late = TRUE]
        BY <2>2, <2>3
      <3> QED
        BY <2>1, <3>1 DEF Operator, SameStep
    <2>4. CASE operator[g].op \notin ops
      <3>1. operator'[g] = operator[g]
        BY <2>2, <2>4
      <3> QED
        BY <2>1, <2>4, <3>1 DEF SameStep
    <2> QED
      BY <2>3, <2>4
  <1>3. operator' = [g \in Operators |-> operator'[g]]
    BY DEF EndRepo
  <1>4. \A g \in Operators : operator'[g] \in Operator
    BY <1>1, <1>2, RepoOff DEF SameStep
  <1> QED
    BY <1>1, <1>2, <1>3, <1>4

\* A request begins: it counts or reads, and changes no row.
LEMMA RepoBegins ==
  ASSUME RepoInv, NEW h \in Operators, NEW o \in Operator, BeginRepo(h, o), UNCHANGED <<repo, vault, built, fault>>,
         \A g \in Operators : operator[g].op = "create" => operator[g].id # o.id,
         o.op = "create" =>
           /\ o.id \in Repos \ DOMAIN repo /\ \A g \in Operators : operator[g].id # o.id
           /\ o.url \in Urls /\ o.key \in SshKeys \cup {Unset} /\ o.at \in {"key", "probe"}
           /\ Cardinality(DOMAIN repo) < MaxRepos,
         o.op = "key" => o.at = "key" /\ Cardinality(vault) < MaxSshKeys,
         o.at = "key" => o.key \in SshKeys /\ o.op \in {"key", "create"},
         o.op = "update" =>
           o.url \in Urls \cup {Unpatched} /\ o.at = "probe" /\ o.seenUrl \in Urls /\ o.seenUrl = repo[o.id].url,
         o.at = "link" => o.op = "link" /\ o.url \in Parts,
         o.at \in {"probe", "write"} => o.op \in {"create", "update"},
         o.at # "idle"
  PROVE  RepoInv'
  <1>1. operator' \in [Operators -> Operator] /\ operator'[h] = o /\ \A g \in Operators \ {h} : operator'[g] = operator[g]
    BY RepoParts DEF BeginRepo
  <1>2. repoOps' \in 0 .. MaxRepoOps
    BY RepoParts, RepositoriesAssumption DEF BeginRepo
  <1>3. CreatorOK(h)'
    BY <1>1 DEF CreatorOK
  <1>4. UpdaterOK(h)'
    BY <1>1 DEF UpdaterOK
  <1>5. ASSUME NEW g \in Operators \ {h} PROVE CreatorOK(g)' /\ UpdaterOK(g)'
    <2>1. CreatorOK(g) /\ UpdaterOK(g) /\ operator[g] \in Operator
      BY RepoParts
    <2>2. SameStep(operator[g], operator'[g])
      BY <1>1, <2>1 DEF SameStep
    <2>3. operator[g].op = "create" =>
            operator[g].id \notin DOMAIN repo' /\ \A j \in Operators \ {g} : operator'[j].id # operator[g].id
      BY <1>1, <2>1 DEF CreatorOK
    <2>4. /\ operator[g].op = "create" /\ ~operator'[g].late => Cardinality(DOMAIN repo') < MaxRepos
          /\ operator[g].op = "key" /\ ~operator'[g].late => Cardinality(vault') < MaxSshKeys
      BY <1>1, <2>1 DEF CreatorOK
    <2> QED
      BY <2>2, <2>3, <2>4, RepoKept
  <1>6. \A r \in DOMAIN repo : RepoOK(r)'
    BY RepoParts DEF RepoOK
  <1> QED
    BY <1>1, <1>2, <1>3, <1>4, <1>5, <1>6, RepoParts DEF RepoInv

LEMMA RepoKeyBegins ==
  ASSUME RepoInv, NEW h \in Operators, NEW k \in SshKeys, create_ssh_key(h, k)
  PROVE  RepoInv'
  <1> DEFINE o == [Off EXCEPT !.at = "key", !.op = "key", !.key = k]
  <1>1. o \in Operator /\ o.at = "key" /\ o.op = "key" /\ o.key = k /\ o.id = Unset
    BY DEF Off, Operator
  <1>2. BeginRepo(h, o) /\ UNCHANGED <<repo, vault, built, fault>> /\ Cardinality(vault) < MaxSshKeys
    BY DEF create_ssh_key, Room
  <1>3. \A g \in Operators : operator[g].op = "create" => operator[g].id # Unset
    BY RepoParts, RepositoriesAssumption DEF CreatorOK
  <1> HIDE DEF o
  <1> QED
    BY <1>1, <1>2, <1>3, RepoBegins

LEMMA RepoCreateBegins ==
  ASSUME RepoInv, NEW h \in Operators, NEW r \in Repos, NEW u \in Urls, NEW k \in SshKeys \cup {Unset},
         create_repository(h, r, u, k)
  PROVE  RepoInv'
  <1> DEFINE o == [Off EXCEPT !.op = "create", !.id = r, !.url = u, !.key = k, !.at = resolve_key_for_repo(k)]
  <1>1. resolve_key_for_repo(k) \in {"key", "probe"} /\ (resolve_key_for_repo(k) = "key" => k \in SshKeys)
    BY DEF resolve_key_for_repo
  <1>2. o \in Operator /\ o.at = resolve_key_for_repo(k) /\ o.op = "create" /\ o.key = k /\ o.id = r /\ o.url = u
    BY <1>1 DEF Off, Operator
  <1>3. /\ BeginRepo(h, o) /\ UNCHANGED <<repo, vault, built, fault>> /\ Cardinality(DOMAIN repo) < MaxRepos
        /\ r \notin DOMAIN repo /\ \A g \in Operators : operator[g].id # r
    BY DEF create_repository, Room
  <1> HIDE DEF o
  <1> QED
    BY <1>1, <1>2, <1>3, RepoBegins

LEMMA RepoUpdateBegins ==
  ASSUME RepoInv, NEW h \in Operators, NEW r \in Repos, NEW u \in Urls \cup {Unpatched},
         NEW k \in SshKeys \cup {Unset, Unpatched}, update_repository(h, r, u, k)
  PROVE  RepoInv'
  <1> DEFINE o == [Off EXCEPT !.op = "update", !.at = "probe", !.id = r, !.url = u, !.key = k,
                              !.seenUrl = repo[r].url, !.seenKey = repo[r].key]
  <1>1. r \in DOMAIN repo /\ repo[r] \in RepoRow
    BY RepoParts DEF update_repository, RepoOK
  <1>2. repo[r].url \in Urls /\ repo[r].key \in SshKeys \cup {Unset}
    BY <1>1 DEF RepoRow
  <1>3. o \in Operator /\ o.at = "probe" /\ o.op = "update" /\ o.id = r /\ o.url = u /\ o.seenUrl = repo[r].url
    BY <1>2 DEF Off, Operator
  <1>4. BeginRepo(h, o) /\ UNCHANGED <<repo, vault, built, fault>>
    BY DEF update_repository
  <1>5. \A g \in Operators : operator[g].op = "create" => operator[g].id # r
    BY <1>1, RepoParts DEF CreatorOK
  <1> HIDE DEF o
  <1> QED
    BY <1>2, <1>3, <1>4, <1>5, RepoBegins

LEMMA RepoLinkBegins ==
  ASSUME RepoInv, NEW h \in Operators, NEW c \in Parts, NEW r \in Repos, link_component_repository(h, c, r)
  PROVE  RepoInv'
  <1> DEFINE o == [Off EXCEPT !.at = "link", !.op = "link", !.id = r, !.url = c]
  <1>1. o \in Operator /\ o.at = "link" /\ o.op = "link" /\ o.id = r /\ o.url = c
    BY DEF Off, Operator
  <1>2. BeginRepo(h, o) /\ UNCHANGED <<repo, vault, built, fault>> /\ r \in DOMAIN repo
    BY DEF link_component_repository
  <1>3. \A g \in Operators : operator[g].op = "create" => operator[g].id # r
    BY <1>2, RepoParts DEF CreatorOK
  <1> HIDE DEF o
  <1> QED
    BY <1>1, <1>2, <1>3, RepoBegins

\* What a step of h has to leave the others.
LEMMA RepoOthers ==
  ASSUME RepoInv, NEW h \in Operators, \A g \in Operators \ {h} : SameStep(operator[g], operator'[g]),
         operator'[h].id \in {operator[h].id, Unset}, fault \subseteq fault',
         \A g \in Operators \ {h} : operator[g].op = "create" => operator[g].id \notin DOMAIN repo',
         \A g \in Operators \ {h} : operator[g].op = "create" /\ ~operator'[g].late =>
           Cardinality(DOMAIN repo') < MaxRepos \/ Cardinality(DOMAIN repo') <= Cardinality(DOMAIN repo),
         \A g \in Operators \ {h} : operator[g].op = "key" /\ ~operator'[g].late =>
           Cardinality(vault') < MaxSshKeys \/ Cardinality(vault') <= Cardinality(vault),
         Cardinality(DOMAIN repo') \in Nat, Cardinality(vault') \in Nat,
         \A g \in Operators \ {h} : operator[g].op = "update" /\ ~operator'[g].late /\ operator[g].id \in DOMAIN repo' =>
           operator[g].id \in DOMAIN repo /\ repo'[operator[g].id].url = repo[operator[g].id].url
  PROVE  \A g \in Operators \ {h} : CreatorOK(g)' /\ UpdaterOK(g)'
  <1> SUFFICES ASSUME NEW g \in Operators \ {h} PROVE CreatorOK(g)' /\ UpdaterOK(g)'
    OBVIOUS
  <1>1. CreatorOK(g) /\ operator[g] \in Operator /\ SameStep(operator[g], operator'[g])
    BY RepoParts
  <1>2. operator[g].op = "create" => \A j \in Operators \ {g} : operator'[j].id # operator[g].id
    <2> SUFFICES ASSUME operator[g].op = "create", NEW j \in Operators \ {g} PROVE operator'[j].id # operator[g].id
      OBVIOUS
    <2>1. operator[j].id # operator[g].id /\ operator[g].id # Unset
      BY <1>1, RepositoriesAssumption DEF CreatorOK
    <2>2. operator'[j].id \in {operator[j].id, Unset}
      BY DEF SameStep
    <2> QED
      BY <2>1, <2>2
  <1>3. Cardinality(DOMAIN repo) \in Nat /\ Cardinality(vault) \in Nat /\ MaxRepos \in Nat /\ MaxSshKeys \in Nat
    BY RepoParts, RepositoriesAssumption
  <1>4. operator[g].op = "create" /\ ~operator'[g].late => Cardinality(DOMAIN repo') < MaxRepos
    BY <1>1, <1>3 DEF CreatorOK, SameStep
  <1>5. operator[g].op = "key" /\ ~operator'[g].late => Cardinality(vault') < MaxSshKeys
    BY <1>1, <1>3 DEF CreatorOK, SameStep
  <1> QED
    BY <1>1, <1>2, <1>4, <1>5, RepoKept

LEMMA RepoOffOK ==
  ASSUME NEW h \in Operators, operator'[h] = Off
  PROVE  CreatorOK(h)' /\ UpdaterOK(h)'
  BY RepoOff DEF CreatorOK, UpdaterOK

LEMMA RepoFromParts ==
  ASSUME (DOMAIN repo \subseteq Repos /\ IsFiniteSet(DOMAIN repo) /\ vault \subseteq SshKeys /\ IsFiniteSet(vault))',
         (built \subseteq Parts \X DOMAIN repo)', operator' \in [Operators -> Operator],
         repoOps' \in 0 .. MaxRepoOps, fault' \subseteq {"inline", "keys", "repos", "print"},
         Cardinality(DOMAIN repo') <= MaxRepos \/ "repos" \in fault',
         Cardinality(vault') <= MaxSshKeys \/ "keys" \in fault' \/ "inline" \in fault',
         \A r \in DOMAIN repo' : RepoOK(r)',
         \A h \in Operators : CreatorOK(h)' /\ UpdaterOK(h)'
  PROVE  RepoInv'
  BY DEF RepoInv

\* A handler stops, or only the links of components change.
LEMMA RepoCalm ==
  ASSUME RepoInv, NEW h \in Operators, UNCHANGED <<repo, vault, fault>>, built' \subseteq Parts \X DOMAIN repo,
         repoOps' \in 0 .. MaxRepoOps, operator' \in [Operators -> Operator],
         operator'[h] \in {Off, operator[h]},
         \A g \in Operators \ {h} : SameStep(operator[g], operator'[g])
  PROVE  RepoInv'
  <1>1. \A g \in Operators : operator[g] \in Operator /\ CreatorOK(g) /\ UpdaterOK(g)
    BY RepoParts
  <1>2. operator'[h].id \in {operator[h].id, Unset}
    BY RepoOff
  <1>3. \A g \in Operators \ {h} : operator[g].op = "create" => operator[g].id \notin DOMAIN repo'
    BY <1>1 DEF CreatorOK
  <1>4. Cardinality(DOMAIN repo') \in Nat /\ Cardinality(vault') \in Nat
    BY RepoParts
  <1>5. \A g \in Operators \ {h} : CreatorOK(g)' /\ UpdaterOK(g)'
    BY <1>2, <1>3, <1>4, RepoOthers
  <1>6. CASE operator'[h] = Off
    <2>1. CreatorOK(h)' /\ UpdaterOK(h)'
      BY <1>6, RepoOffOK
    <2>2. \A r \in DOMAIN repo : RepoOK(r)'
      BY RepoParts DEF RepoOK
    <2> QED
      BY <1>5, <2>1, <2>2, RepoParts, RepoFromParts
  <1>7. CASE operator'[h] = operator[h] /\ operator'[h] # Off
    <2>1. UpdaterOK(h)'
      BY <1>1, <1>7 DEF UpdaterOK
    <2>2. \A g \in Operators \ {h} : operator'[g].id = operator[g].id
      BY DEF SameStep
    <2>3. CreatorOK(h)'
      BY <1>1, <1>7, <2>2 DEF CreatorOK
    <2>4. \A r \in DOMAIN repo : RepoOK(r)'
      BY RepoParts DEF RepoOK
    <2> QED
      BY <1>5, <2>1, <2>3, <2>4, RepoParts, RepoFromParts
  <1> QED
    BY <1>6, <1>7

LEMMA RepoStops ==
  ASSUME RepoInv, NEW h \in Operators, StopRepo(h)
  PROVE  RepoInv'
  <1>1. /\ operator' \in [Operators -> Operator] /\ operator'[h] = Off
        /\ \A g \in Operators \ {h} : SameStep(operator[g], operator'[g])
    BY RepoEnds DEF StopRepo
  <1>2. UNCHANGED <<repo, vault, built, repoOps, fault>>
    BY DEF StopRepo
  <1> QED
    BY <1>1, <1>2, RepoCalm, RepoParts

LEMMA RepoValidated ==
  ASSUME RepoInv, NEW h \in Operators, validate_branch(h)
  PROVE  RepoInv'
  <1>1. /\ operator' \in [Operators -> Operator] /\ operator'[h] = Off
        /\ \A g \in Operators \ {h} : SameStep(operator[g], operator'[g])
    BY RepoEnds DEF validate_branch
  <1>2. UNCHANGED <<repo, vault, repoOps, fault>>
    BY DEF validate_branch
  <1>3. operator[h].at = "link" /\ UpdaterOK(h)
    BY RepoParts DEF validate_branch
  <1>4. operator[h].url \in Parts
    BY <1>3 DEF UpdaterOK
  <1>5. built' \subseteq Parts \X DOMAIN repo
    BY <1>4, RepoParts DEF validate_branch
  <1> QED
    BY <1>1, <1>2, <1>5, RepoCalm, RepoParts

LEMMA RepoUnlinked ==
  ASSUME RepoInv, NEW h \in Operators, NEW c \in Parts, NEW r \in Repos, unlink_component_repository(h, c, r)
  PROVE  RepoInv'
  <1>1. UNCHANGED <<repo, vault, operator, fault>> /\ built' \subseteq built
    BY DEF unlink_component_repository
  <1>2. repoOps' \in 0 .. MaxRepoOps
    BY RepoParts, RepositoriesAssumption DEF unlink_component_repository
  <1>3. \A g \in Operators : SameStep(operator[g], operator'[g])
    BY <1>1, RepoParts DEF SameStep
  <1> QED
    BY <1>1, <1>2, <1>3, RepoCalm, RepoParts

\* create_key_inner: the key is in the vault.
LEMMA RepoKeyWritten ==
  ASSUME RepoInv, NEW h \in Operators, create_key_inner(h)
  PROVE  RepoInv'
  <1>0. PICK o : o = operator[h]
    OBVIOUS
  <1>1. o \in Operator /\ o.at = "key" /\ CreatorOK(h) /\ UpdaterOK(h)
    BY <1>0, RepoParts DEF create_key_inner
  <1>2. o.key \in SshKeys /\ o.op \in {"key", "create"}
    BY <1>0, <1>1 DEF CreatorOK, UpdaterOK, Operator
  <1>3. /\ vault' = vault \cup {o.key} /\ UNCHANGED <<repo, built, repoOps>>
        /\ fault' = fault \cup (IF o.op = "create" THEN {"inline"} ELSE {}) \cup (IF o.late THEN {"keys"} ELSE {})
    BY <1>0 DEF create_key_inner
  <1>4. operator'[h] = IF o.op = "create" THEN [o EXCEPT !.at = "probe"] ELSE Off
    BY <1>0 DEF create_key_inner
  <1>5. ASSUME NEW g \in Operators \ {h}
        PROVE  SameStep(operator[g], operator'[g]) /\ (operator[g].op = "key" => operator'[g].late)
    <2>1. operator[g] \in Operator
      BY RepoParts
    <2>2. operator'[g] = IF operator[g].op = "key" THEN [operator[g] EXCEPT !.late = TRUE] ELSE operator[g]
      BY DEF create_key_inner
    <2>3. CASE operator[g].op = "key"
      <3>1. operator'[g] = [operator[g] EXCEPT !.late = TRUE]
        BY <2>2, <2>3
      <3> QED
        BY <2>1, <3>1 DEF Operator, SameStep
    <2>4. CASE operator[g].op # "key"
      <3>1. operator'[g] = operator[g]
        BY <2>2, <2>4
      <3> QED
        BY <2>1, <2>4, <3>1 DEF SameStep
    <2> QED
      BY <2>3, <2>4
  <1>6. /\ operator'[h] \in Operator /\ operator'[h].id \in {o.id, Unset}
        /\ o.op = "create" => /\ operator'[h].at = "probe" /\ operator'[h].op = "create" /\ operator'[h].id = o.id
                              /\ operator'[h].url = o.url /\ operator'[h].key = o.key /\ operator'[h].late = o.late
        /\ o.op = "key" => operator'[h] = Off
    <2>1. CASE o.op = "create"
      <3>1. operator'[h] = [o EXCEPT !.at = "probe"]
        BY <1>4, <2>1
      <3> QED
        BY <1>1, <2>1, <3>1 DEF Operator
    <2>2. CASE o.op = "key"
      BY <1>4, <2>2, RepoOff
    <2> QED
      BY <1>2, <2>1, <2>2
  <1>7. operator' \in [Operators -> Operator]
    <2>1. operator' = [g \in Operators |-> operator'[g]]
      BY DEF create_key_inner
    <2>2. \A g \in Operators : operator'[g] \in Operator
      BY <1>5, <1>6 DEF SameStep
    <2> QED
      BY <2>1, <2>2
  <1>8. IsFiniteSet(vault') /\ Cardinality(vault') \in Nat /\ Cardinality(vault') <= Cardinality(vault) + 1
    <2>1. IsFiniteSet(vault) /\ Cardinality(vault) \in Nat
      BY RepoParts
    <2>2. IsFiniteSet(vault') /\ (Cardinality(vault') = Cardinality(vault) \/ Cardinality(vault') = Cardinality(vault) + 1)
      BY <1>3, <2>1, FS_AddElement
    <2> QED
      BY <2>1, <2>2
  <1>9. \A g \in Operators \ {h} : CreatorOK(g)' /\ UpdaterOK(g)'
    <2>1. \A g \in Operators \ {h} : operator[g].op = "create" => operator[g].id \notin DOMAIN repo'
      BY <1>3, RepoParts DEF CreatorOK
    <2>2. Cardinality(DOMAIN repo') \in Nat /\ Cardinality(DOMAIN repo') <= Cardinality(DOMAIN repo) /\ repo' = repo
      BY <1>3, RepoParts
    <2>3. operator'[h].id \in {operator[h].id, Unset} /\ fault \subseteq fault'
      BY <1>0, <1>3, <1>6
    <2> QED
      BY <1>5, <1>8, <2>1, <2>2, <2>3, RepoOthers
  <1>10. CreatorOK(h)' /\ UpdaterOK(h)'
    <2>1. CASE o.op = "create"
      <3>1. \A g \in Operators \ {h} : operator'[g].id = operator[g].id
        BY <1>5 DEF SameStep
      <3>2. DOMAIN repo' = DOMAIN repo
        BY <1>3
      <3>3. CreatorOK(h)'
        BY <1>0, <1>1, <1>6, <2>1, <3>1, <3>2 DEF CreatorOK
      <3>4. UpdaterOK(h)'
        BY <1>6, <2>1 DEF UpdaterOK
      <3> QED
        BY <3>3, <3>4
    <2>2. CASE o.op = "key"
      BY <1>6, <2>2, RepoOffOK
    <2> QED
      BY <1>2, <2>1, <2>2
  <1>11. Cardinality(vault') <= MaxSshKeys \/ "keys" \in fault' \/ "inline" \in fault'
    <2>1. CASE o.op = "create" \/ o.late
      BY <1>3, <2>1
    <2>2. CASE o.op = "key" /\ ~o.late
      <3>1. Cardinality(vault) < MaxSshKeys /\ Cardinality(vault) \in Nat /\ MaxSshKeys \in Nat
        BY <1>0, <1>1, <2>2, RepoParts, RepositoriesAssumption DEF CreatorOK
      <3> QED
        BY <1>8, <3>1
    <2> QED
      BY <1>2, <2>1, <2>2
  <1>12. \A r \in DOMAIN repo' : RepoOK(r)'
    <2>1. fault \subseteq fault' /\ vault \subseteq vault' /\ repo' = repo
      BY <1>3
    <2> QED
      BY <2>1, RepoParts DEF RepoOK
  <1>13. vault' \subseteq SshKeys /\ fault' \subseteq {"inline", "keys", "repos", "print"} /\ fault \subseteq fault'
    BY <1>2, <1>3, RepoParts
  <1> QED
    BY <1>3, <1>7, <1>8, <1>9, <1>10, <1>11, <1>12, <1>13, RepoParts, RepoFromParts

\* The rows shrink or lose a key: nothing that a handler relies on goes.
LEMMA RepoShrinks ==
  ASSUME RepoInv, NEW h \in Operators, UNCHANGED <<operator, fault>>, repoOps < MaxRepoOps, repoOps' = repoOps + 1,
         DOMAIN repo' \subseteq DOMAIN repo, vault' \subseteq vault, built' \subseteq Parts \X DOMAIN repo',
         \A r \in DOMAIN repo' : /\ repo'[r].url = repo[r].url /\ repo'[r].print = repo[r].print
                                 /\ repo'[r] \in RepoRow /\ repo'[r].key \in vault' \cup {Unset}
  PROVE  RepoInv'
  <1>1. IsFiniteSet(DOMAIN repo) /\ IsFiniteSet(vault)
    BY RepoParts
  <1>2. /\ IsFiniteSet(DOMAIN repo') /\ IsFiniteSet(vault') /\ Cardinality(DOMAIN repo') <= Cardinality(DOMAIN repo)
        /\ Cardinality(vault') <= Cardinality(vault)
    BY <1>1, FS_Subset
  <1>3. Cardinality(DOMAIN repo') \in Nat /\ Cardinality(vault') \in Nat
    BY <1>2, FS_CardinalityType
  <1>4. \A g \in Operators : SameStep(operator[g], operator'[g]) /\ operator[g] \in Operator /\ CreatorOK(g) /\ UpdaterOK(g)
    BY RepoParts DEF SameStep
  <1>5. /\ \A g \in Operators : operator[g].op = "create" => operator[g].id \notin DOMAIN repo'
        /\ \A g \in Operators : operator[g].id \in DOMAIN repo' =>
             operator[g].id \in DOMAIN repo /\ repo'[operator[g].id].url = repo[operator[g].id].url
    BY <1>4 DEF CreatorOK
  <1>6. \A g \in Operators \ {h} : CreatorOK(g)' /\ UpdaterOK(g)'
    BY <1>2, <1>3, <1>4, <1>5, RepoOthers
  <1>7. UpdaterOK(h)'
    BY <1>4, <1>5 DEF UpdaterOK
  <1>8. CreatorOK(h)'
    <2>1. Cardinality(DOMAIN repo) \in Nat /\ Cardinality(vault) \in Nat /\ MaxRepos \in Nat /\ MaxSshKeys \in Nat
      BY RepoParts, RepositoriesAssumption
    <2>2. operator[h].op = "create" /\ ~operator[h].late => Cardinality(DOMAIN repo') < MaxRepos
      BY <1>2, <1>3, <1>4, <2>1 DEF CreatorOK
    <2>3. operator[h].op = "key" /\ ~operator[h].late => Cardinality(vault') < MaxSshKeys
      BY <1>2, <1>3, <1>4, <2>1 DEF CreatorOK
    <2> QED
      BY <1>4, <1>5, <2>2, <2>3 DEF CreatorOK
  <1>9. \A r \in DOMAIN repo' : RepoOK(r)'
    BY RepoParts DEF RepoOK
  <1>10. /\ Cardinality(DOMAIN repo') <= MaxRepos \/ "repos" \in fault'
         /\ Cardinality(vault') <= MaxSshKeys \/ "keys" \in fault' \/ "inline" \in fault'
    <2>1. Cardinality(DOMAIN repo) \in Nat /\ Cardinality(vault) \in Nat /\ MaxRepos \in Nat /\ MaxSshKeys \in Nat
      BY RepoParts, RepositoriesAssumption
    <2>2. /\ Cardinality(DOMAIN repo) <= MaxRepos \/ "repos" \in fault
          /\ Cardinality(vault) <= MaxSshKeys \/ "keys" \in fault \/ "inline" \in fault
      BY RepoParts
    <2> QED
      BY <1>2, <1>3, <2>1, <2>2
  <1>11. repoOps' \in 0 .. MaxRepoOps
    BY RepoParts, RepositoriesAssumption
  <1>12. DOMAIN repo' \subseteq Repos /\ vault' \subseteq SshKeys /\ operator' \in [Operators -> Operator]
         /\ fault' \subseteq {"inline", "keys", "repos", "print"}
    BY RepoParts
  <1> QED
    BY <1>2, <1>6, <1>7, <1>8, <1>9, <1>10, <1>11, <1>12, RepoFromParts

LEMMA RepoKeyDeleted ==
  ASSUME RepoInv, NEW h \in Operators, NEW k \in SshKeys, delete_ssh_key(h, k)
  PROVE  RepoInv'
  <1>1. /\ vault' = vault \ {k} /\ DOMAIN repo' = DOMAIN repo /\ repoOps < MaxRepoOps /\ repoOps' = repoOps + 1
        /\ UNCHANGED <<built, operator, fault>>
    BY DEF delete_ssh_key
  <1>2. ASSUME NEW r \in DOMAIN repo
        PROVE  /\ repo'[r].url = repo[r].url /\ repo'[r].print = repo[r].print
               /\ repo'[r] \in RepoRow /\ repo'[r].key \in vault' \cup {Unset}
    <2>1. repo[r] \in RepoRow /\ repo[r].key \in vault \cup {Unset}
      BY RepoParts DEF RepoOK
    <2>2. repo'[r] = IF repo[r].key = k THEN [repo[r] EXCEPT !.key = Unset] ELSE repo[r]
      BY DEF delete_ssh_key
    <2>3. CASE repo[r].key = k
      <3>1. repo'[r] = [repo[r] EXCEPT !.key = Unset]
        BY <2>2, <2>3
      <3> QED
        BY <2>1, <3>1 DEF RepoRow
    <2>4. CASE repo[r].key # k
      BY <1>1, <2>1, <2>2, <2>4
    <2> QED
      BY <2>3, <2>4
  <1>3. built' \subseteq Parts \X DOMAIN repo'
    BY <1>1, RepoParts
  <1> QED
    BY <1>1, <1>2, <1>3, RepoShrinks

LEMMA RepoDeleted ==
  ASSUME RepoInv, NEW h \in Operators, NEW r \in Repos, delete_repository(h, r)
  PROVE  RepoInv'
  <1>1. /\ DOMAIN repo' = DOMAIN repo \ {r} /\ repoOps < MaxRepoOps /\ repoOps' = repoOps + 1
        /\ UNCHANGED <<vault, operator, fault>> /\ built' = {p \in built : p[2] # r}
    BY DEF delete_repository
  <1>2. \A q \in DOMAIN repo' : repo'[q] = repo[q]
    BY DEF delete_repository
  <1>3. \A q \in DOMAIN repo' : /\ repo'[q].url = repo[q].url /\ repo'[q].print = repo[q].print
                                /\ repo'[q] \in RepoRow /\ repo'[q].key \in vault' \cup {Unset}
    BY <1>1, <1>2, RepoParts DEF RepoOK
  <1>4. built' \subseteq Parts \X DOMAIN repo'
    BY <1>1, RepoParts
  <1> QED
    BY <1>1, <1>3, <1>4, RepoShrinks

\* The host answers, or not.
LEMMA RepoProbed ==
  ASSUME RepoInv, NEW h \in Operators, NEW answers \in BOOLEAN, remote_info_for_key(h, answers)
  PROVE  RepoInv'
  <1>0. PICK o : o = operator[h]
    OBVIOUS
  <1>1. PICK seen : seen = Probed(o, answers)
    OBVIOUS
  <1>2. o \in Operator /\ o.at = "probe" /\ CreatorOK(h) /\ UpdaterOK(h)
    BY <1>0, RepoParts DEF remote_info_for_key
  <1>3. PICK n : n = [o EXCEPT !.at = "write", !.seenUrl = seen]
    OBVIOUS
  <1>4. /\ operator' = [operator EXCEPT ![h] = n] /\ UNCHANGED <<repo, vault, built, repoOps>>
        /\ fault' = IF seen = Unpatched THEN fault \cup {"print"} ELSE fault
    BY <1>0, <1>1, <1>3 DEF remote_info_for_key
  <1>5. seen \in {Unset, Unpatched, EffUrl(o)} /\ (o.op = "create" => seen \in {Unset, EffUrl(o)})
    BY <1>1 DEF Probed
  <1>6. o.op = "create" => EffUrl(o) = o.url /\ o.url \in Urls
    BY <1>0, <1>2, RepositoriesAssumption DEF CreatorOK, EffUrl
  <1>7. o.op = "update" => /\ o.url # Unpatched => EffUrl(o) = o.url /\ o.url \in Urls
                           /\ o.url = Unpatched => EffUrl(o) = o.seenUrl /\ o.seenUrl \in Urls
    BY <1>0, <1>2 DEF UpdaterOK, EffUrl
  <1>8. EffUrl(o) \in Urls \cup Parts \cup {Unset, Unpatched}
    BY <1>2 DEF EffUrl, Operator
  <1>9. CASE o.op \in {"create", "update"}
    <2>1. seen \in Urls \cup {Unset, Unpatched}
      BY <1>5, <1>6, <1>7, <1>9
    <2>2. /\ n \in Operator /\ n.at = "write" /\ n.op = o.op /\ n.id = o.id /\ n.url = o.url /\ n.key = o.key
          /\ n.seenUrl = seen /\ n.late = o.late
      BY <1>2, <1>3, <2>1 DEF Operator
    <2>3. operator' \in [Operators -> Operator] /\ operator'[h] = n /\ \A g \in Operators \ {h} : operator'[g] = operator[g]
      BY <1>4, <2>2, RepoParts
    <2>4. CreatorOK(h)'
      <3>1. o.op = "create" => seen \in {Unset, o.url}
        BY <1>5, <1>6
      <3> QED
        BY <1>0, <1>2, <1>4, <2>2, <2>3, <3>1 DEF CreatorOK
    <2>5. UpdaterOK(h)'
      <3>1. seen = Unpatched => "print" \in fault'
        BY <1>4
      <3>2. o.op = "update" /\ o.url # Unpatched => seen \in {Unset, Unpatched, o.url}
        BY <1>5, <1>7
      <3>3. o.op = "update" /\ o.url = Unpatched => seen \in {Unset, Unpatched, o.seenUrl}
        BY <1>5, <1>7
      <3>4. o.op = "update" /\ o.url = Unpatched /\ ~o.late /\ o.id \in DOMAIN repo => seen \in {Unset, Unpatched, repo[o.id].url}
        BY <1>0, <1>2, <3>3 DEF UpdaterOK
      <3>5. o.op = "update" => o.url \in Urls \cup {Unpatched}
        BY <1>0, <1>2 DEF UpdaterOK
      <3> QED
        BY <1>4, <1>9, <2>2, <2>3, <3>1, <3>2, <3>4, <3>5 DEF UpdaterOK
    <2>6. \A g \in Operators \ {h} : CreatorOK(g)' /\ UpdaterOK(g)'
      <3>1. \A g \in Operators \ {h} : SameStep(operator[g], operator'[g])
        BY <2>3, RepoParts DEF SameStep
      <3>2. operator'[h].id \in {operator[h].id, Unset} /\ fault \subseteq fault'
        BY <1>0, <1>4, <2>2, <2>3
      <3>3. \A g \in Operators \ {h} : operator[g].op = "create" => operator[g].id \notin DOMAIN repo'
        BY <1>4, RepoParts DEF CreatorOK
      <3>4. Cardinality(DOMAIN repo') \in Nat /\ Cardinality(vault') \in Nat /\ repo' = repo /\ vault' = vault
        BY <1>4, RepoParts
      <3> QED
        BY <3>1, <3>2, <3>3, <3>4, RepoOthers
    <2>7. \A r \in DOMAIN repo' : RepoOK(r)'
      BY <1>4, RepoParts DEF RepoOK
    <2>8. fault' \subseteq {"inline", "keys", "repos", "print"} /\ fault \subseteq fault'
      BY <1>4, RepoParts
    <2> QED
      BY <1>4, <2>3, <2>4, <2>5, <2>6, <2>7, <2>8, RepoParts, RepoFromParts
  <1>10. o.op \in {"create", "update"}
    BY <1>0, <1>2 DEF CreatorOK, UpdaterOK, Operator
  <1> QED
    BY <1>9, <1>10

\* INSERT: the row is there, if nothing refuses it, and other creations have
\* been overtaken.
LEMMA RepoInserted ==
  ASSUME RepoInv, NEW h \in Operators, insert_repository(h)
  PROVE  RepoInv'
  <1>0. PICK o : o = operator[h]
    OBVIOUS
  <1>1. o \in Operator /\ o.at = "write" /\ o.op = "create" /\ CreatorOK(h) /\ UpdaterOK(h)
    BY <1>0, RepoParts DEF insert_repository
  <1>2. /\ o.id \in Repos \ DOMAIN repo /\ o.url \in Urls /\ o.key \in SshKeys \cup {Unset} /\ o.seenUrl \in {Unset, o.url}
        /\ \A g \in Operators \ {h} : operator[g].id # o.id
        /\ ~o.late => Cardinality(DOMAIN repo) < MaxRepos
    BY <1>0, <1>1 DEF CreatorOK
  <1>3. /\ operator' \in [Operators -> Operator] /\ operator'[h] = Off
        /\ \A g \in Operators \ {h} : SameStep(operator[g], operator'[g]) /\ (operator[g].op = "create" => operator'[g].late)
    BY RepoEnds DEF insert_repository
  <1>4. UNCHANGED <<vault, built, repoOps>> /\ fault' = IF o.late THEN fault \cup {"repos"} ELSE fault
    BY <1>0 DEF insert_repository
  <1>5. fault \subseteq fault' /\ fault' \subseteq {"inline", "keys", "repos", "print"}
    BY <1>4, RepoParts
  <1>6. /\ DOMAIN repo \subseteq DOMAIN repo' /\ DOMAIN repo' \subseteq DOMAIN repo \cup {o.id}
        /\ \A r \in DOMAIN repo : repo'[r] = repo[r]
        /\ DOMAIN repo' = DOMAIN repo \/ DOMAIN repo' = DOMAIN repo \cup {o.id}
    BY <1>0, <1>2 DEF insert_repository
  <1>7. ASSUME NEW r \in DOMAIN repo' PROVE RepoOK(r)'
    <2>1. CASE r \in DOMAIN repo
      BY <1>4, <1>5, <1>6, <2>1, RepoParts DEF RepoOK
    <2>2. CASE r \notin DOMAIN repo
      <3>1. r = o.id /\ Storable(o)
        BY <1>0, <1>6, <2>2 DEF insert_repository
      <3>2. repo'[r] = [url |-> o.url, key |-> o.key, print |-> o.seenUrl]
        BY <1>0, <3>1 DEF insert_repository
      <3>3. o.key \in vault \cup {Unset}
        BY <1>2, <3>1, RepositoriesAssumption DEF Storable
      <3>4. repo'[r] \in RepoRow /\ repo'[r].key \in vault \cup {Unset} /\ repo'[r].print \in {Unset, repo'[r].url}
        BY <1>2, <3>2, <3>3 DEF RepoRow
      <3> QED
        BY <1>4, <3>4 DEF RepoOK
    <2> QED
      BY <2>1, <2>2
  <1>8. /\ IsFiniteSet(DOMAIN repo') /\ Cardinality(DOMAIN repo') \in Nat
        /\ Cardinality(DOMAIN repo') <= Cardinality(DOMAIN repo) + 1
    <2>1. IsFiniteSet(DOMAIN repo) /\ Cardinality(DOMAIN repo) \in Nat
      BY RepoParts
    <2>2. CASE DOMAIN repo' = DOMAIN repo
      BY <2>1, <2>2
    <2>3. CASE DOMAIN repo' = DOMAIN repo \cup {o.id}
      <3>1. /\ IsFiniteSet(DOMAIN repo \cup {o.id})
            /\ \/ Cardinality(DOMAIN repo \cup {o.id}) = Cardinality(DOMAIN repo)
               \/ Cardinality(DOMAIN repo \cup {o.id}) = Cardinality(DOMAIN repo) + 1
        BY <2>1, FS_AddElement
      <3> QED
        BY <2>1, <2>3, <3>1
    <2> QED
      BY <1>6, <2>2, <2>3
  <1>9. Cardinality(DOMAIN repo') <= MaxRepos \/ "repos" \in fault'
    <2>1. CASE o.late
      BY <1>4, <2>1
    <2>2. CASE ~o.late
      <3>1. Cardinality(DOMAIN repo) < MaxRepos /\ Cardinality(DOMAIN repo) \in Nat /\ MaxRepos \in Nat
        BY <1>2, <2>2, RepoParts, RepositoriesAssumption
      <3> QED
        BY <1>8, <3>1
    <2> QED
      BY <2>1, <2>2
  <1>10. \A g \in Operators \ {h} : CreatorOK(g)' /\ UpdaterOK(g)'
    <2>1. operator'[h].id \in {operator[h].id, Unset}
      BY <1>3, RepoOff
    <2>2. \A g \in Operators \ {h} : operator[g].op = "create" => operator[g].id \notin DOMAIN repo'
      <3>1. \A g \in Operators : operator[g].op = "create" => operator[g].id \notin DOMAIN repo
        BY RepoParts DEF CreatorOK
      <3> QED
        BY <1>2, <1>6, <3>1
    <2>3. Cardinality(vault') \in Nat /\ Cardinality(vault') <= Cardinality(vault)
      BY <1>4, RepoParts
    <2>4. \A g \in Operators \ {h} : operator[g].id \in DOMAIN repo' =>
            operator[g].id \in DOMAIN repo /\ repo'[operator[g].id].url = repo[operator[g].id].url
      BY <1>2, <1>6
    <2> QED
      BY <1>3, <1>5, <1>8, <2>1, <2>2, <2>3, <2>4, RepoOthers
  <1>11. CreatorOK(h)' /\ UpdaterOK(h)'
    BY <1>3, RepoOffOK
  <1>12. DOMAIN repo' \subseteq Repos /\ built' \subseteq Parts \X DOMAIN repo'
    BY <1>2, <1>4, <1>6, RepoParts
  <1>13. Cardinality(vault') <= MaxSshKeys \/ "keys" \in fault' \/ "inline" \in fault'
    BY <1>4, <1>5, RepoParts
  <1> QED
    BY <1>3, <1>4, <1>5, <1>7, <1>8, <1>9, <1>10, <1>11, <1>12, <1>13, RepoParts, RepoFromParts

\* UPDATE: the fingerprint is of the URL that the row is left with.
LEMMA RepoWritten ==
  ASSUME RepoInv, NEW h \in Operators, write_repository(h)
  PROVE  RepoInv'
  <1>0. PICK o : o = operator[h]
    OBVIOUS
  <1>1. o \in Operator /\ o.at = "write" /\ o.op = "update" /\ CreatorOK(h) /\ UpdaterOK(h)
    BY <1>0, RepoParts DEF write_repository
  <1>2. /\ o.url \in Urls \cup {Unpatched} /\ (o.seenUrl = Unpatched => "print" \in fault)
        /\ o.url # Unpatched => o.seenUrl \in {Unset, Unpatched, o.url}
        /\ o.url = Unpatched /\ ~o.late /\ o.id \in DOMAIN repo => o.seenUrl \in {Unset, Unpatched, repo[o.id].url}
        /\ o.seenUrl \in Urls \cup {Unset, Unpatched}
    BY <1>0, <1>1 DEF UpdaterOK, Operator
  <1>3. /\ operator' \in [Operators -> Operator] /\ operator'[h] = Off
        /\ \A g \in Operators \ {h} : SameStep(operator[g], operator'[g]) /\ (operator[g].op = "update" => operator'[g].late)
    BY RepoEnds DEF write_repository
  <1>4. UNCHANGED <<vault, built, repoOps>> /\ fault' = IF o.late THEN fault \cup {"print"} ELSE fault
    BY <1>0 DEF write_repository
  <1>5. fault \subseteq fault' /\ fault' \subseteq {"inline", "keys", "repos", "print"} /\ (o.late => "print" \in fault')
    BY <1>4, RepoParts
  <1>6. DOMAIN repo' = DOMAIN repo /\ \A r \in DOMAIN repo : r # o.id => repo'[r] = repo[r]
    BY <1>0 DEF write_repository
  <1>7. ASSUME NEW r \in DOMAIN repo PROVE RepoOK(r)'
    <2>0. repo[r] \in RepoRow /\ RepoOK(r)
      BY RepoParts DEF RepoOK
    <2>1. CASE repo'[r] = repo[r]
      BY <1>4, <1>5, <2>0, <2>1 DEF RepoOK
    <2>2. CASE repo'[r] # repo[r]
      <3>1. r = o.id /\ Storable(o)
        BY <1>0, <1>6, <2>2 DEF write_repository
      <3>2. repo'[r] = [url |-> IF o.url = Unpatched THEN repo[r].url ELSE o.url,
                        key |-> IF o.key = Unpatched THEN repo[r].key ELSE o.key,
                        print |-> IF o.seenUrl = Unpatched THEN repo[r].print ELSE o.seenUrl]
        BY <1>0, <3>1 DEF write_repository
      <3>3. o.key \in vault \cup {Unset, Unpatched} /\ vault \subseteq SshKeys
        BY <3>1, RepoParts DEF Storable
      <3>4. /\ repo[r].url \in Urls /\ repo[r].key \in vault \cup {Unset} /\ repo[r].print \in Urls \cup {Unset}
        BY <2>0 DEF RepoOK, RepoRow
      <3>5. repo'[r].key \in vault \cup {Unset} /\ repo'[r].url \in Urls /\ repo'[r].print \in Urls \cup {Unset}
        BY <1>2, <3>2, <3>3, <3>4
      <3>6. repo'[r] \in RepoRow
        BY <3>2, <3>3, <3>5 DEF RepoRow
      <3>7. repo'[r].print \in {Unset, repo'[r].url} \/ "print" \in fault'
        <4>1. CASE o.late \/ o.seenUrl = Unpatched
          BY <1>2, <1>5, <4>1
        <4>2. CASE ~o.late /\ o.seenUrl # Unpatched
          BY <1>2, <3>1, <3>2, <4>2
        <4> QED
          BY <4>1, <4>2
      <3> QED
        BY <1>4, <3>5, <3>6, <3>7 DEF RepoOK
    <2> QED
      BY <2>1, <2>2
  <1>8. \A g \in Operators \ {h} : CreatorOK(g)' /\ UpdaterOK(g)'
    <2>1. operator'[h].id \in {operator[h].id, Unset}
      BY <1>3, RepoOff
    <2>2. \A g \in Operators \ {h} : operator[g].op = "create" => operator[g].id \notin DOMAIN repo'
      BY <1>6, RepoParts DEF CreatorOK
    <2>3. /\ Cardinality(vault') \in Nat /\ Cardinality(vault') <= Cardinality(vault)
          /\ Cardinality(DOMAIN repo') \in Nat /\ Cardinality(DOMAIN repo') <= Cardinality(DOMAIN repo)
      BY <1>4, <1>6, RepoParts
    <2> QED
      BY <1>3, <1>5, <2>1, <2>2, <2>3, RepoOthers
  <1>9. CreatorOK(h)' /\ UpdaterOK(h)'
    BY <1>3, RepoOffOK
  <1>10. /\ Cardinality(vault') <= MaxSshKeys \/ "keys" \in fault' \/ "inline" \in fault'
         /\ Cardinality(DOMAIN repo') <= MaxRepos \/ "repos" \in fault'
    BY <1>4, <1>5, <1>6, RepoParts
  <1> QED
    BY <1>3, <1>4, <1>5, <1>6, <1>7, <1>8, <1>9, <1>10, RepoParts, RepoFromParts

LEMMA RepoInvStep ==
  ASSUME RepoInv, [RepoNext]_repoVars
  PROVE  RepoInv'
  <1>1. CASE UNCHANGED repoVars
    BY <1>1 DEF RepoInv, RepoOK, CreatorOK, UpdaterOK, repoVars
  <1>2. CASE RepoNext
    <2>1. PICK h \in Operators :
            \/ \E k \in SshKeys : create_ssh_key(h, k) \/ delete_ssh_key(h, k)
            \/ create_key_inner(h)
            \/ \E r \in Repos, u \in Urls, k \in SshKeys \cup {Unset} : create_repository(h, r, u, k)
            \/ \E r \in Repos, u \in Urls \cup {Unpatched}, k \in SshKeys \cup {Unset, Unpatched} :
                 update_repository(h, r, u, k)
            \/ \E answers \in BOOLEAN : remote_info_for_key(h, answers)
            \/ insert_repository(h) \/ write_repository(h)
            \/ \E r \in Repos : delete_repository(h, r)
            \/ \E c \in Parts, r \in Repos : link_component_repository(h, c, r) \/ unlink_component_repository(h, c, r)
            \/ validate_branch(h) \/ StopRepo(h)
      BY <1>2 DEF RepoNext
    <2>2. CASE \E k \in SshKeys : create_ssh_key(h, k) \/ delete_ssh_key(h, k)
      BY <2>2, RepoKeyBegins, RepoKeyDeleted
    <2>3. CASE \E r \in Repos, u \in Urls, k \in SshKeys \cup {Unset} : create_repository(h, r, u, k)
      BY <2>3, RepoCreateBegins
    <2>4. CASE \E r \in Repos, u \in Urls \cup {Unpatched}, k \in SshKeys \cup {Unset, Unpatched} :
                 update_repository(h, r, u, k)
      BY <2>4, RepoUpdateBegins
    <2>5. CASE \E answers \in BOOLEAN : remote_info_for_key(h, answers)
      BY <2>5, RepoProbed
    <2>6. CASE insert_repository(h) \/ write_repository(h) \/ create_key_inner(h)
      BY <2>6, RepoInserted, RepoWritten, RepoKeyWritten
    <2>7. CASE \E r \in Repos : delete_repository(h, r)
      BY <2>7, RepoDeleted
    <2>8. CASE \E c \in Parts, r \in Repos : link_component_repository(h, c, r) \/ unlink_component_repository(h, c, r)
      BY <2>8, RepoLinkBegins, RepoUnlinked
    <2>9. CASE validate_branch(h) \/ StopRepo(h)
      BY <2>9, RepoValidated, RepoStops
    <2> QED
      BY <2>1, <2>2, <2>3, <2>4, <2>5, <2>6, <2>7, <2>8, <2>9
  <1> QED
    BY <1>1, <1>2

LEMMA RepoInvGuards == RepoInv => RepoTypeOK /\ RepositoryGuards
  <1> SUFFICES ASSUME RepoInv PROVE RepoTypeOK /\ RepositoryGuards
    OBVIOUS
  <1>1. \A r \in DOMAIN repo : repo[r] \in [url : Urls, key : vault \cup {Unset}, print : Urls \cup {Unset}]
    BY RepoParts DEF RepoOK, RepoRow
  <1>2. \A h \in Operators : operator[h].at \in {"idle", "key", "probe", "write", "link"}
    BY RepoParts DEF Operator
  <1>3. RepoTypeOK
    BY <1>1, <1>2, RepoParts DEF RepoTypeOK
  <1>4. \A r \in DOMAIN repo : repo[r].print \notin {Unset, repo[r].url} => "print" \in fault
    BY RepoParts DEF RepoOK
  <1>5. RepositoryGuards
    BY <1>4, RepoParts, RepositoriesAssumption DEF RepositoryGuards
  <1> QED
    BY <1>3, <1>5

\* The caps on repositories and SSH keys, and the tie between a repository's
\* stored host fingerprint and its URL, are lost only to an overlap of two
\* creations, an inline key, overlapping updates or a failed probe.
THEOREM RepositoryCapsHold == RepoSpec => [](RepoTypeOK /\ RepositoryGuards)
  <1>1. RepoInit => RepoInv
    BY RepoInvInit
  <1>2. RepoInv /\ [RepoNext]_repoVars => RepoInv'
    BY RepoInvStep
  <1>3. RepoInv => RepoTypeOK /\ RepositoryGuards
    BY RepoInvGuards
  <1> QED
    BY <1>1, <1>2, <1>3, PTL DEF RepoSpec
=============================================================================
