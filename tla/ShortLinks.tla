----------------------------- MODULE ShortLinks -----------------------------
(***************************************************************************)
(* Short links: projects are addressed by their issue prefix and boards by *)
(* their key, and names given up keep resolving through a history.         *)
(*                                                                         *)
(* Source: crates/api (projects.rs, boards.rs, the short-link history of   *)
(* admin/handlers.rs) and crates/db (projects.rs, boards.rs).              *)
(*                                                                         *)
(* Both follow one protocol, stated once: read the row, see that the new   *)
(* name is free, UPDATE under a unique constraint, then, best effort,      *)
(* record the name the row was read with.  A deleted project keeps its     *)
(* prefix; a deleted board frees its key and its history goes with it.     *)
(***************************************************************************)
EXTENDS Integers, FiniteSets

CONSTANTS
    Projects, Boards,   \* boards of one project
    Names,              \* prefixes and keys
    Viewers,            \* people who see the project
    Curators,           \* those who hold the permissions on shared boards
    Renamers,           \* handlers in flight
    Nobody,
    MaxRenames          \* bound on the requests begun, for TLC

ASSUME ShortLinksAssumption ==
    /\ Curators \subseteq Viewers /\ Projects \cap Boards = {} /\ MaxRenames \in Nat
    /\ Nobody \notin Projects \cup Boards \cup Names \cup Viewers

Things == Projects \cup Boards
Kind(t) == IF t \in Projects THEN Projects ELSE Boards

VARIABLES
    named,          \* thing -> [st, name, owner]; owner Nobody: shared
    history,        \* <<kind, name>> -> thing that gave the name up, or Nobody
    rename,         \* handler -> [at, thing, old, new, owner]
    lastBoard,      \* viewer -> board opened last, or Nobody
    renames,
    lastHolder,     \* history variable: <<kind, name>> -> thing that had the name last
    torn            \* history variable: names whose renames overlapped, failed or were pruned

linkVars == <<named, history, rename, lastBoard, renames, lastHolder, torn>>

Kinds == {Projects, Boards}
NoRename == [at |-> "idle", thing |-> Nobody, old |-> Nobody, new |-> Nobody, owner |-> Nobody]
NoThing == [st |-> "none", name |-> Nobody, owner |-> Nobody]

\* One project and its default board.
LinkInit ==
    \E p \in Projects, b \in Boards, x \in Names :
        /\ named = [t \in Things |-> IF t \in {p, b} THEN [st |-> "live", name |-> x, owner |-> Nobody] ELSE NoThing]
        /\ lastHolder = [k \in Kinds \X Names |-> IF k[2] # x THEN Nobody ELSE IF k[1] = Projects THEN p ELSE b]
        /\ history = [k \in Kinds \X Names |-> Nobody]
        /\ rename = [h \in Renamers |-> NoRename] /\ lastBoard = [a \in Viewers |-> Nobody]
        /\ renames = 0 /\ torn = {}

Ask(h) == rename[h].at = "idle" /\ renames < MaxRenames /\ renames' = renames + 1

\* Deleted projects count, deleted boards have no row.
name_exists(kind, x, except) == \E t \in kind \ {except} : named[t].name = x

-----------------------------------------------------------------------------
(* The protocol.                                                           *)

CreateCheck(h, t, x, owner) ==
    /\ Ask(h) /\ named[t].st = "none" /\ (\A g \in Renamers : rename[g].thing # t)
    /\ ~name_exists(Kind(t), x, Nobody)
    /\ rename' = [rename EXCEPT ![h] = [at |-> "create", thing |-> t, old |-> x, new |-> x, owner |-> owner]]
    /\ UNCHANGED <<named, history, lastBoard, lastHolder, torn>>

RenameCheck(h, t, x) ==
    /\ Ask(h) /\ named[t].st = "live" /\ ~name_exists(Kind(t), x, t)
    /\ rename' = [rename EXCEPT ![h] = [at |-> "update", thing |-> t, old |-> named[t].name, new |-> x,
                                        owner |-> named[t].owner]]
    /\ UNCHANGED <<named, history, lastBoard, lastHolder, torn>>

\* The INSERT or UPDATE.  A name taken meanwhile fails the constraint.  The
\* name that is really given up may not be the one that was read.
WriteName(h, at) ==
    LET q == rename[h]
        k == Kind(q.thing)
        ok == ~name_exists(k, q.new, q.thing) /\ (at = "update" => named[q.thing].st = "live") IN
    /\ q.at = at
    /\ named' = IF ok THEN [named EXCEPT ![q.thing] = [st |-> "live", name |-> q.new, owner |-> q.owner]] ELSE named
    /\ lastHolder' = IF ok THEN [lastHolder EXCEPT ![<<k, q.new>>] = q.thing] ELSE lastHolder
    /\ torn' = IF ok /\ at = "update" THEN torn \cup ({<<k, named[q.thing].name>>} \ {<<k, q.old>>, <<k, q.new>>}) ELSE torn
    /\ rename' = [rename EXCEPT ![h] = IF ok /\ at = "update" /\ q.new # q.old THEN [q EXCEPT !.at = "history"] ELSE NoRename]
    /\ UNCHANGED <<history, lastBoard, renames>>

\* Mutant: the first claim of a name stays.
FirstClaimStays(k, x, t) == [history EXCEPT ![<<k, x>>] = IF @ = Nobody THEN t ELSE @]

\* The last claim of a name wins.
claim(k, x, t) == [history EXCEPT ![<<k, x>>] = t]

RecordName(h, kind) ==
    LET q == rename[h] IN
    /\ q.at = "history" /\ Kind(q.thing) = kind
    /\ history' = IF kind = Boards /\ named[q.thing].st = "deleted" THEN history ELSE claim(kind, q.old, q.thing)
    /\ torn' = IF lastHolder[<<kind, q.old>>] = q.thing THEN torn ELSE torn \cup {<<kind, q.old>>}
    /\ rename' = [rename EXCEPT ![h] = NoRename]
    /\ UNCHANGED <<named, lastBoard, renames, lastHolder>>

\* What a name leads to: live names shadow the history.
Lookup(kind, x) ==
    LET live == {t \in kind : named[t].st = "live" /\ named[t].name = x}
    IN  IF live # {} THEN live ELSE {t \in kind : t = history[<<kind, x>>] /\ named[t].st = "live"}

-----------------------------------------------------------------------------
(* Projects.                                                               *)

\* unique_prefix, or a prefix of the caller's that must be free.
create_project(h) == \E t \in Projects, x \in Names : CreateCheck(h, t, x, Nobody)
create_with_defaults(h) == rename[h].thing \in Projects /\ WriteName(h, "create")
update_project(h) == \E t \in Projects, x \in Names : RenameCheck(h, t, x)
projects_update(h) == rename[h].thing \in Projects /\ WriteName(h, "update")
record_prefix_history(h) == RecordName(h, Projects)
resolve_by_prefix(x) == Lookup(Projects, x)

delete_project(h, t) ==
    /\ Ask(h) /\ t \in Projects /\ named[t].st = "live"
    /\ named' = [named EXCEPT ![t].st = "deleted"]
    /\ UNCHANGED <<history, rename, lastBoard, lastHolder, torn>>

-----------------------------------------------------------------------------
(* Boards.                                                                 *)

\* A personal board is for any viewer, a shared one needs the permission.
create_board(h, a, shared) ==
    /\ shared => a \in Curators
    /\ \E t \in Boards, x \in Names : CreateCheck(h, t, x, IF shared THEN Nobody ELSE a)
insert_board(h) == rename[h].thing \in Boards /\ WriteName(h, "create")

\* Someone else's personal board is not there.
load_for_write(a, t) == named[t].st = "live" /\ IF named[t].owner = Nobody THEN a \in Curators ELSE named[t].owner = a

update_board(h, a) == \E t \in Boards, x \in Names : load_for_write(a, t) /\ RenameCheck(h, t, x)
boards_update(h) == rename[h].thing \in Boards /\ WriteName(h, "update")
record_key_history(h) == RecordName(h, Boards)
get_board(x, a) == {t \in Lookup(Boards, x) : named[t].owner \in {Nobody, a}}

\* The row goes, with its history and as the last opened board.
delete_board(h, a, t) ==
    /\ Ask(h) /\ load_for_write(a, t)
    /\ named' = [named EXCEPT ![t] = [NoThing EXCEPT !.st = "deleted"]]
    /\ history' = [k \in Kinds \X Names |-> IF history[k] = t THEN Nobody ELSE history[k]]
    /\ lastBoard' = [b \in Viewers |-> IF lastBoard[b] = t THEN Nobody ELSE lastBoard[b]]
    /\ UNCHANGED <<rename, lastHolder, torn>>

\* The board is not checked, its foreign key is.
set_last_opened(h, a, t) ==
    /\ Ask(h) /\ named[t].st = "live"
    /\ lastBoard' = [lastBoard EXCEPT ![a] = t]
    /\ UNCHANGED <<named, history, rename, lastHolder, torn>>

-----------------------------------------------------------------------------
\* A superadmin prunes the history.
delete_short_link_history(h, k) ==
    /\ Ask(h) /\ history[k] # Nobody
    /\ history' = [history EXCEPT ![k] = Nobody] /\ torn' = torn \cup {k}
    /\ UNCHANGED <<named, rename, lastBoard, lastHolder>>

\* A statement fails: what is left of the handler does not happen.
RenameEnds(h) ==
    LET q == rename[h] IN
    /\ q.at # "idle"
    /\ torn' = IF q.at = "history" THEN torn \cup {<<Kind(q.thing), q.old>>} ELSE torn
    /\ rename' = [rename EXCEPT ![h] = NoRename]
    /\ UNCHANGED <<named, history, lastBoard, renames, lastHolder>>

LinkNext == \E h \in Renamers :
    \/ create_project(h) \/ create_with_defaults(h) \/ update_project(h) \/ projects_update(h) \/ record_prefix_history(h)
    \/ \E t \in Projects : delete_project(h, t)
    \/ \E a \in Viewers : \/ \E shared \in BOOLEAN : create_board(h, a, shared)
                          \/ update_board(h, a)
                          \/ \E t \in Boards : delete_board(h, a, t) \/ set_last_opened(h, a, t)
    \/ insert_board(h) \/ boards_update(h) \/ record_key_history(h)
    \/ \E k \in Kinds \X Names : delete_short_link_history(h, k)
    \/ RenameEnds(h)

LinkSpec == LinkInit /\ [][LinkNext]_linkVars

-----------------------------------------------------------------------------
(* Properties.                                                             *)

LinkTypeOK ==
    /\ named \in [Things -> [st : {"none", "live", "deleted"}, name : Names \cup {Nobody}, owner : Viewers \cup {Nobody}]]
    /\ \A s, t \in Things : Kind(s) = Kind(t) /\ named[s].name = named[t].name /\ named[s].name # Nobody => s = t
    /\ history \in [Kinds \X Names -> Things \cup {Nobody}] /\ lastHolder \in [Kinds \X Names -> Things \cup {Nobody}]
    /\ \A h \in Renamers : rename[h].at \in {"idle", "create", "update", "history"}
    /\ lastBoard \in [Viewers -> Boards \cup {Nobody}] /\ renames \in 0 .. MaxRenames /\ torn \subseteq Kinds \X Names

\* A short link leads to the project, or for those who may see it the board,
\* that had its name last, through any chain of renames, takeovers and
\* returns; unless renames of one thing overlapped, the history could not be
\* written, or a superadmin pruned it.
OldLinkLeadsHome ==
    \A k \in (Kinds \X Names) \ torn :
        (/\ lastHolder[k] # Nobody /\ named[lastHolder[k]].st = "live"
         /\ \A h \in Renamers : rename[h].at # "history" \/ Kind(rename[h].thing) # k[1] \/ rename[h].old # k[2])
        => /\ k[1] = Projects => resolve_by_prefix(k[2]) = {lastHolder[k]}
           /\ k[1] = Boards => \A a \in Viewers :
                get_board(k[2], a) = {t \in {lastHolder[k]} : named[t].owner \in {Nobody, a}}
=============================================================================
