---------------------------- MODULE OneTimeTicket ----------------------------
(***************************************************************************)
(* What the short-lived credentials of the sign-in flows promise: a ticket *)
(* is redeemed by at most one caller, an expired or withdrawn one by none, *)
(* and redeeming it has at most one effect, on one account.  Oidc          *)
(* implements it for the pending redirects, the pending device logins and  *)
(* the platform invitations.                                               *)
(***************************************************************************)
CONSTANTS Tickets, Accounts

VARIABLES
    state,      \* ticket -> "none", "open", "taken" or "gone"
    granted     \* ticket -> the accounts it has acted on

Issue(t) ==
    /\ state[t] = "none"
    /\ state' = [state EXCEPT ![t] = "open"]
    /\ UNCHANGED granted

Redeem(t) ==
    /\ state[t] = "open"
    /\ state' = [state EXCEPT ![t] = "taken"]
    /\ UNCHANGED granted

Withdraw(T) ==
    /\ \A t \in T : state[t] = "open"
    /\ state' = [t \in Tickets |-> IF t \in T THEN "gone" ELSE state[t]]
    /\ UNCHANGED granted

Grant(t, a) ==
    /\ state[t] = "taken" /\ granted[t] = {}
    /\ granted' = [granted EXCEPT ![t] = {a}]
    /\ UNCHANGED state

TicketInit ==
    /\ state = [t \in Tickets |-> "none"]
    /\ granted = [t \in Tickets |-> {}]

TicketNext ==
    \/ \E t \in Tickets : Issue(t) \/ Redeem(t) \/ \E a \in Accounts : Grant(t, a)
    \/ \E T \in SUBSET Tickets : Withdraw(T)

TicketSpec == TicketInit /\ [][TicketNext]_<<state, granted>>
=============================================================================
