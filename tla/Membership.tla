----------------------------- MODULE Membership -----------------------------
(***************************************************************************)
(* A project's visibility, its roles, members and invitations.             *)
(*                                                                         *)
(* Source: crates/api/src/projects.rs, crates/db (projects.rs,             *)
(* memberships.rs, roles.rs, invitations.rs) and crates/core/src/perms.rs. *)
(*                                                                         *)
(* ProjectContext loads the project and the caller's access when a request *)
(* comes in; the checks that follow, and the write, are separate           *)
(* statements.                                                             *)
(***************************************************************************)
EXTENDS Integers, FiniteSets

CONSTANTS
    People, Superadmins,
    Roles, AdminRole,   \* ids of roles
    Invites,            \* invitation tokens
    Agents,             \* handlers in flight
    NoRole,
    MaxCalls            \* bound on the requests begun, for TLC

ASSUME MembershipAssumption ==
    /\ Superadmins \subseteq People /\ AdminRole \in Roles /\ MaxCalls \in Nat
    /\ NoRole \notin People \cup Roles \cup Invites

\* The permissions the handlers of this module ask for.
Permission == {"member.add", "member.modify_role", "member.remove", "role.create", "role.modify",
               "role.delete", "project.modify", "project.delete"}

\* Presets a role is given: everything, the product owner's set, a viewer's.
Presets == {Permission, Permission \ {"project.delete"}, {}}

VARIABLES
    home,           \* the project: [st, vis]
    role,           \* role -> [there, perms]; AdminRole is the only admin role
    member,         \* person -> role, or NoRole
    invite,         \* token -> [st, role]
    call,           \* handler -> what it has checked and is about to write
    calls,
    stale,          \* history: handlers whose checks the admins changed under
    unguarded       \* history: ways an admin was taken out past the guard

memberVars == <<home, role, member, invite, call, calls, stale, unguarded>>

NoCall == [op |-> "none", who |-> NoRole, role |-> NoRole, invite |-> NoRole, blind |-> FALSE]

\* create_with_defaults leaves the default roles and the owner as the admin.
default_roles(r) == IF r = AdminRole THEN [there |-> TRUE, perms |-> Permission] ELSE [there |-> TRUE, perms |-> {}]

MemberInit ==
    /\ home \in [st : {"live"}, vis : {"private", "internal"}]
    /\ \E owner \in People : member = [a \in People |-> IF a = owner THEN AdminRole ELSE NoRole]
    /\ role = [r \in Roles |-> default_roles(r)]
    /\ invite = [t \in Invites |-> [st |-> "none", role |-> NoRole]]
    /\ call = [h \in Agents |-> NoCall] /\ calls = 0
    /\ stale = {} /\ unguarded = {}

Admins(m) == {a \in People : m[a] = AdminRole}

-----------------------------------------------------------------------------
(* Access.                                                                 *)

is_superadmin_grant(perm) == perm \in {"member.add", "member.modify_role", "member.remove"}

has(a, perm) ==
    \/ a \in Superadmins /\ is_superadmin_grant(perm)
    \/ member[a] # NoRole /\ (member[a] = AdminRole \/ perm \in role[member[a]].perms)

\* ProjectContext: a private project is not there for strangers.
ProjectContext(a) ==
    /\ home.st = "live"
    /\ home.vis # "private" \/ a \in Superadmins \/ member[a] # NoRole

require(a, perm) == ProjectContext(a) /\ has(a, perm)

\* A request that is answered in one step.
Answer(h) == call[h] = NoCall /\ calls < MaxCalls /\ calls' = calls + 1 /\ UNCHANGED call

Checked(h, rec) ==
    /\ call[h] = NoCall /\ calls < MaxCalls /\ calls' = calls + 1
    /\ call' = [call EXCEPT ![h] = rec]
    /\ stale' = stale \ {h}

\* The end of a handler that wrote the members: others hear of it when the
\* set of admins changed (for the properties only).
WriteMembers(h, m) ==
    /\ member' = m
    /\ call' = [call EXCEPT ![h] = NoCall]
    /\ stale' = IF Admins(m) = Admins(member) THEN stale
                ELSE stale \cup {g \in Agents \ {h} : call[g] # NoCall}
    /\ UNCHANGED <<role, calls, home>>

-----------------------------------------------------------------------------
(* Members.                                                                *)

\* Mutant: every member counts.
AllCount(S) == Cardinality({a \in People : member[a] # NoRole})

admin_count(S) == Cardinality(S)

\* The last admin is not to be demoted or removed; when the lookup fails the
\* guard is skipped (blind).
GuardAdmin(t, blind) == blind \/ member[t] # AdminRole \/ admin_count(Admins(member)) > 1

\* A membership to be written, and whether its lookup failed.
Upsert(t, r, blind) == [NoCall EXCEPT !.op = "upsert", !.who = t, !.role = r, !.blind = blind]

\* A failed lookup reads as "not a member" too.
add_member(h, a, t, r, blind) ==
    /\ require(a, "member.add") /\ role[r].there /\ (blind \/ member[t] = NoRole)
    /\ Checked(h, Upsert(t, r, blind))
    /\ UNCHANGED <<role, member, invite, unguarded, home>>

join_project(h, a, r) ==
    /\ ProjectContext(a) /\ a \in Superadmins /\ member[a] = NoRole /\ role[r].there
    /\ Checked(h, Upsert(a, r, FALSE))
    /\ UNCHANGED <<role, member, invite, unguarded, home>>

change_member_role(h, a, t, r, blind) ==
    /\ require(a, "member.modify_role") /\ role[r].there
    /\ r # AdminRole => GuardAdmin(t, blind)
    /\ Checked(h, [NoCall EXCEPT !.op = "change", !.who = t, !.role = r, !.blind = blind])
    /\ UNCHANGED <<role, member, invite, unguarded, home>>

\* Leaving is always allowed.
remove_member(h, a, t, blind) ==
    /\ ProjectContext(a) /\ (a # t => has(a, "member.remove"))
    /\ GuardAdmin(t, blind)
    /\ Checked(h, [NoCall EXCEPT !.op = "remove", !.who = t, !.blind = blind])
    /\ UNCHANGED <<role, member, invite, unguarded, home>>

\* The statements: an upsert replaces the role of a member, whoever they
\* are; a role that is gone fails the foreign key.
membership_upsert(t, r) == [member EXCEPT ![t] = r]
change_role(t, r) == [member EXCEPT ![t] = IF @ = NoRole THEN @ ELSE r]
remove(t) == [member EXCEPT ![t] = NoRole]

FinishMember(h) ==
    LET q == call[h]
        m == IF q.op = "remove" THEN remove(q.who)
             ELSE IF ~role[q.role].there THEN member
             ELSE IF q.op = "change" THEN change_role(q.who, q.role) ELSE membership_upsert(q.who, q.role)
    IN  /\ q.op \in {"upsert", "accept", "change", "remove"}
        /\ WriteMembers(h, m)
        /\ unguarded' = unguarded \cup
             IF member[q.who] # AdminRole \/ m[q.who] = AdminRole THEN {}
             ELSE IF q.op = "accept" THEN {"accepted"}
             ELSE (IF h \in stale THEN {"overlap"} ELSE {}) \cup (IF q.blind THEN {"blind"} ELSE {})
        /\ UNCHANGED invite

-----------------------------------------------------------------------------
(* Invitations.                                                            *)

invite_member(h, a, t, r) ==
    /\ require(a, "member.add") /\ role[r].there
    /\ Answer(h) /\ invite[t].st = "none"
    /\ invite' = [invite EXCEPT ![t] = [st |-> "pending", role |-> r]]
    /\ UNCHANGED <<role, member, stale, unguarded, home>>

InviteExpires(t) ==
    /\ invite[t].st = "pending"
    /\ invite' = [invite EXCEPT ![t].st = "expired"]
    /\ UNCHANGED <<role, member, call, calls, stale, unguarded, home>>

\* Any account that has the token may accept; it is looked up ...
accept_invitation(h, a, t) ==
    /\ invite[t].st = "pending"
    /\ Checked(h, [NoCall EXCEPT !.op = "mark", !.who = a, !.role = invite[t].role, !.invite = t])
    /\ UNCHANGED <<role, member, invite, unguarded, home>>

\* ... consumed by one guarded UPDATE, and then the membership is written.
mark_accepted(h) ==
    LET q == call[h] IN
    /\ q.op = "mark"
    /\ invite' = [invite EXCEPT ![q.invite].st = IF @ = "pending" THEN "used" ELSE @]
    /\ call' = [call EXCEPT ![h] = IF invite[q.invite].st = "pending" THEN [q EXCEPT !.op = "accept"] ELSE NoCall]
    /\ UNCHANGED <<role, member, calls, stale, unguarded, home>>

-----------------------------------------------------------------------------
(* Roles.                                                                  *)

create_role(h, a, r, P) ==
    /\ require(a, "role.create") /\ Answer(h) /\ ~role[r].there
    /\ role' = [role EXCEPT ![r] = [there |-> TRUE, perms |-> P]]
    /\ UNCHANGED <<member, invite, stale, unguarded, home>>

\* The admin role is out of reach.
update_permissions(h, a, r, P) ==
    /\ require(a, "role.modify") /\ Answer(h) /\ role[r].there /\ r # AdminRole
    /\ role' = [role EXCEPT ![r].perms = P]
    /\ UNCHANGED <<member, invite, stale, unguarded, home>>

\* A role with members stays (foreign key); its invitations go with it.
delete_role(h, a, r) ==
    /\ require(a, "role.delete") /\ Answer(h) /\ role[r].there /\ r # AdminRole
    /\ \A b \in People : member[b] # r
    /\ role' = [role EXCEPT ![r].there = FALSE]
    /\ invite' = [t \in Invites |-> IF invite[t].role = r THEN [st |-> "none", role |-> NoRole] ELSE invite[t]]
    /\ UNCHANGED <<member, stale, unguarded, home>>

-----------------------------------------------------------------------------
(* The project.                                                            *)

update_visibility(h, a, v) ==
    /\ require(a, "project.modify") /\ Answer(h)
    /\ home' = [home EXCEPT !.vis = v]
    /\ UNCHANGED <<role, member, invite, stale, unguarded>>

soft_delete_home(h, a) ==
    /\ require(a, "project.delete") /\ Answer(h)
    /\ home' = [home EXCEPT !.st = "deleted"]
    /\ UNCHANGED <<role, member, invite, stale, unguarded>>

\* A statement fails or the client is gone: what is left of the handler
\* does not happen.  A consumed invitation stays consumed.
CallEnds(h) ==
    /\ call[h] # NoCall
    /\ call' = [call EXCEPT ![h] = NoCall]
    /\ UNCHANGED <<home, role, member, invite, calls, stale, unguarded>>

-----------------------------------------------------------------------------
MemberNext ==
    \/ \E h \in Agents :
         \/ \E a \in People :
              \/ \E t \in People, r \in Roles :
                   \E blind \in BOOLEAN : add_member(h, a, t, r, blind) \/ change_member_role(h, a, t, r, blind)
              \/ \E t \in People, blind \in BOOLEAN : remove_member(h, a, t, blind)
              \/ \E r \in Roles : \/ join_project(h, a, r) \/ delete_role(h, a, r)
                                  \/ \E t \in Invites : invite_member(h, a, t, r)
                                  \/ \E P \in Presets : create_role(h, a, r, P) \/ update_permissions(h, a, r, P)
              \/ \E t \in Invites : accept_invitation(h, a, t)
              \/ \E v \in {"private", "internal"} : update_visibility(h, a, v)
              \/ soft_delete_home(h, a)
         \/ FinishMember(h) \/ mark_accepted(h) \/ CallEnds(h)
    \/ \E t \in Invites : InviteExpires(t)

MemberSpec == MemberInit /\ [][MemberNext]_memberVars

-----------------------------------------------------------------------------
(* Properties.                                                             *)

MemberTypeOK ==
    /\ home \in [st : {"live", "deleted"}, vis : {"private", "internal"}]
    /\ role \in [Roles -> [there : BOOLEAN, perms : SUBSET Permission]]
    /\ \A a \in People : member[a] # NoRole => member[a] \in Roles /\ role[member[a]].there
    /\ invite \in [Invites -> [st : {"none", "pending", "used", "expired"}, role : Roles \cup {NoRole}]]
    /\ \A h \in Agents : call[h].op \in {"none", "upsert", "change", "remove", "mark", "accept"}
    /\ calls \in 0 .. MaxCalls /\ stale \subseteq Agents /\ unguarded \subseteq {"accepted", "overlap", "blind"}

\* A project has an admin.  change_member_role and remove_member refuse to
\* take the last one and add_member a member, so it is lost only when the
\* admins change between a handler's checks and its write, when a handler's
\* lookup of the membership fails (the first two then skip the guard, and
\* add_member takes an admin for a stranger and replaces the role), or when an
\* admin accepts an invitation to a lesser role, which no guard looks at.
AdminLostNeedsCause == Admins(member) = {} => unguarded # {}
=============================================================================
