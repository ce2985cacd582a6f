------------------------------ MODULE Releases ------------------------------
(***************************************************************************)
(* Releases, their versions, the components they ship, and the fix         *)
(* versions of an issue.                                                   *)
(*                                                                         *)
(* Source: crates/api/src/releases.rs, releases.rs, release_versions.rs    *)
(* and component_releases.rs of crates/db, the component and version parts *)
(* of update_issue and create_issue in crates/api/src/backlog.rs, and the  *)
(* triggers of V022__issue_component_versions.sql.                         *)
(*                                                                         *)
(* An issue has a version per component, and a column release_version_id   *)
(* that mirrors the first of them.  update_issue writes that column back   *)
(* from the row it read, guarded by the issue's own version counter, which *)
(* the triggers do not advance.  A transaction is one step.                *)
(***************************************************************************)
EXTENDS Integers, FiniteSets

CONSTANTS
    Comps, Rels,
    Vers,           \* version ids, numbers in creation order
    Patchers,       \* update_issue handlers in flight
    NoVer, Keep,    \* null, and a field that the patch leaves out
    MaxRelOps       \* bound on the requests begun, for TLC

ASSUME ReleasesAssumption ==
    /\ Vers \subseteq Nat /\ IsFiniteSet(Vers) /\ MaxRelOps \in Nat
    /\ NoVer \notin Vers /\ Keep \notin Vers /\ NoVer # Keep

VARIABLES
    parts,      \* components of the project
    version,    \* existing version -> [rel, ord]
    released,   \* releases of the project
    ships,      \* component_releases: pairs <<component, release>>
    card,       \* the issue: [ver, comps, fix, mirror, text]
    patcher,    \* handler -> its step and its patch
    relOps,     \* requests begun so far
    drift       \* history: why the mirror may differ

relVars == <<parts, version, released, ships, card, patcher, relOps, drift>>

NoPatch == [at |-> "idle", ver |-> 0, comps |-> Keep, fix |-> Keep, mirror |-> NoVer, direct |-> FALSE,
         text |-> FALSE]

\* Every component ships its versions in every release; the issue is new.
RelInit ==
    /\ parts = Comps /\ released = Rels
    /\ version = << >>
    /\ ships = Comps \X Rels
    /\ card = [ver |-> 1, comps |-> {}, fix |-> << >>, mirror |-> NoVer, text |-> FALSE]
    /\ patcher = [h \in Patchers |-> NoPatch] /\ relOps = 0 /\ drift = {}

-----------------------------------------------------------------------------
(* The triggers.                                                           *)

\* v comes before w: ORDER BY rv.order, rv.id.
Earlier(v, w) ==
    \/ version[v].ord < version[w].ord
    \/ version[v].ord = version[w].ord /\ v <= w

FixSet(fix) == {fix[c] : c \in DOMAIN fix}

\* Mutant: the mirror is any of the versions, here the last one.
MirrorLast(fix) ==
    IF fix = << >> THEN NoVer ELSE CHOOSE v \in FixSet(fix) : \A w \in FixSet(fix) : Earlier(w, v)

\* Trigger issue_mirror_release_version: what the mirror becomes.
issue_mirror_release_version(fix) ==
    IF fix = << >> THEN NoVer ELSE CHOOSE v \in FixSet(fix) : \A w \in FixSet(fix) : Earlier(v, w)

\* Rows of issue_component_versions were written or deleted (touched): the
\* trigger fires.
Mirrored(c, fix, touched) ==
    [c EXCEPT !.fix = fix, !.mirror = IF touched THEN issue_mirror_release_version(fix) ELSE @]

Without(fix, S) == [c \in DOMAIN fix \ S |-> fix[c]]

-----------------------------------------------------------------------------
(* Releases, versions and components.                                      *)

StepRel == relOps < MaxRelOps /\ relOps' = relOps + 1

create_release(r) ==
    /\ StepRel /\ r \notin released
    /\ released' = released \cup {r}
    /\ UNCHANGED <<parts, version, ships, card, patcher, drift>>

\* The release must be there; the order is one more than its largest.
create_version(v, r) ==
    /\ StepRel /\ r \in released /\ v \notin DOMAIN version /\ \A w \in DOMAIN version : w < v
    /\ LET ords == {version[w].ord : w \in {x \in DOMAIN version : version[x].rel = r}}
           top == IF ords = {} THEN 0 ELSE CHOOSE n \in ords : \A m \in ords : m <= n IN
       version' = [w \in DOMAIN version \cup {v} |-> IF w = v THEN [rel |-> r, ord |-> top + 1] ELSE version[w]]
    /\ UNCHANGED <<parts, released, ships, card, patcher, drift>>

\* Foreign keys: rows that name a deleted version go, the mirror is set null.
VersionsGone(S) ==
    LET gone == {c \in DOMAIN card.fix : card.fix[c] \in S} IN
    /\ card' = [Mirrored([card EXCEPT !.mirror = IF @ \in S THEN NoVer ELSE @],
                         Without(card.fix, gone), gone # {})
                  EXCEPT !.ver = card.ver]
    /\ drift' = IF gone # {} THEN {} ELSE drift

delete_version(v) ==
    /\ StepRel /\ v \in DOMAIN version
    /\ version' = [w \in DOMAIN version \ {v} |-> version[w]]
    /\ VersionsGone({v})
    /\ UNCHANGED <<parts, released, ships, patcher>>

\* Mutant: the versions of a deleted release stay.
DeleteReleaseOnly(r) ==
    /\ StepRel /\ r \in released
    /\ released' = released \ {r} /\ ships' = {p \in ships : p[2] # r}
    /\ UNCHANGED <<parts, version, card, patcher, drift>>

\* Its versions and its links go with the release.
delete_release(r) ==
    LET gone == {v \in DOMAIN version : version[v].rel = r} IN
    /\ StepRel /\ r \in released
    /\ released' = released \ {r}
    /\ version' = [w \in DOMAIN version \ gone |-> version[w]]
    /\ ships' = {p \in ships : p[2] # r}
    /\ VersionsGone(gone)
    /\ UNCHANGED <<parts, patcher>>

link_component_release(c, r) ==
    /\ StepRel /\ c \in parts /\ r \in released /\ <<c, r>> \notin ships
    /\ ships' = ships \cup {<<c, r>>}
    /\ UNCHANGED <<parts, version, released, card, patcher, drift>>

\* The versions issues already have are left alone.
unlink_component_release(c, r) ==
    /\ StepRel /\ <<c, r>> \in ships
    /\ ships' = ships \ {<<c, r>>}
    /\ UNCHANGED <<parts, version, released, card, patcher, drift>>

\* Deleting a component takes its rows with it, prune trigger or cascade.
delete_component(c) ==
    /\ StepRel /\ c \in parts
    /\ parts' = parts \ {c}
    /\ ships' = {p \in ships : p[1] # c}
    /\ card' = Mirrored([card EXCEPT !.comps = @ \ {c}], Without(card.fix, {c}), c \in DOMAIN card.fix)
    /\ drift' = IF c \in DOMAIN card.fix THEN {} ELSE drift
    /\ UNCHANGED <<version, released, patcher>>

-----------------------------------------------------------------------------
(* update_issue.                                                           *)

\* Either a version or a free text, and the version is in the project.
validate_issue_extras(v, text) ==
    /\ ~(v # NoVer /\ text)
    /\ v # NoVer => v \in DOMAIN version

\* Every pair names a component the issue will have and a version of a
\* release that ships it.
validate_component_versions(fix, comps) ==
    \A c \in DOMAIN fix : c \in comps /\ fix[c] \in DOMAIN version /\ <<c, version[fix[c]].rel>> \in ships

\* The handler reads the issue, merges the patch and checks it.
patch_issue(h, comps, fix, direct, text) ==
    /\ patcher[h].at = "idle" /\ StepRel
    /\ LET v == IF direct = Keep THEN card.mirror ELSE direct IN
       /\ comps # Keep => comps \subseteq parts
       /\ fix # Keep => validate_component_versions(fix, IF comps = Keep THEN card.comps ELSE comps)
       /\ validate_issue_extras(v, text)
       /\ patcher' = [patcher EXCEPT ![h] = [at |-> "row", ver |-> card.ver, comps |-> comps, fix |-> fix,
                                             mirror |-> v, direct |-> direct # Keep, text |-> text]]
    /\ UNCHANGED <<parts, version, released, ships, card, drift>>

\* UPDATE issues: the column is written with the rest, if the version is
\* still the one that was read and the foreign key holds.
update_row_of(h) ==
    LET p == patcher[h]
        hit == card.ver = p.ver /\ (p.mirror = NoVer \/ p.mirror \in DOMAIN version) IN
    /\ p.at = "row"
    /\ card' = IF hit THEN [card EXCEPT !.ver = @ + 1, !.mirror = p.mirror, !.text = p.text] ELSE card
    /\ drift' = drift \cup (IF hit /\ p.mirror # card.mirror THEN IF p.direct THEN {"direct"} ELSE {"stale"} ELSE {})
    /\ patcher' = [patcher EXCEPT ![h] = IF ~hit THEN NoPatch
                                         ELSE [p EXCEPT !.at = IF p.comps # Keep THEN "comps"
                                                               ELSE IF p.fix # Keep THEN "fix" ELSE "idle"]]
    /\ UNCHANGED <<parts, version, released, ships, relOps>>

\* The components that go away take their versions with them.
set_issue_components(h) ==
    LET p == patcher[h]
        gone == DOMAIN card.fix \ p.comps IN
    /\ p.at = "comps" /\ p.comps \subseteq parts
    /\ card' = Mirrored([card EXCEPT !.comps = p.comps], Without(card.fix, gone), gone # {})
    /\ drift' = IF gone # {} THEN {} ELSE drift
    /\ patcher' = [patcher EXCEPT ![h] = IF p.fix # Keep THEN [p EXCEPT !.at = "fix"] ELSE NoPatch]
    /\ UNCHANGED <<parts, version, released, ships, relOps>>

\* Every row is replaced; those of components the issue does not have are
\* left out.
set_issue_component_versions(h) ==
    LET p == patcher[h]
        fix == [c \in DOMAIN p.fix \cap card.comps |-> p.fix[c]] IN
    /\ p.at = "fix" /\ FixSet(fix) \subseteq DOMAIN version
    /\ card' = Mirrored(card, fix, card.fix # << >> \/ fix # << >>)
    /\ drift' = IF card.fix # << >> \/ fix # << >> THEN {} ELSE drift
    /\ patcher' = [patcher EXCEPT ![h] = NoPatch]
    /\ UNCHANGED <<parts, version, released, ships, relOps>>

\* A statement fails, a foreign key included: the earlier ones stay.
StopPatch(h) ==
    /\ patcher[h].at # "idle"
    /\ patcher' = [patcher EXCEPT ![h] = NoPatch]
    /\ UNCHANGED <<parts, version, released, ships, card, relOps, drift>>

\* A patch replaces components, or versions, or both, or names the column.
Pairs == UNION {[S -> Vers] : S \in SUBSET Comps}
Patches ==
    {<<S, Keep, Keep, card.text>> : S \in SUBSET Comps} \cup {<<Keep, f, Keep, card.text>> : f \in Pairs}
      \cup {<<DOMAIN f, f, Keep, card.text>> : f \in Pairs}
      \cup {<<Keep, Keep, v, FALSE>> : v \in Vers \cup {NoVer}}
      \cup {<<Keep, Keep, Keep, t>> : t \in BOOLEAN}

RelNext ==
    \/ \E h \in Patchers :
         \/ \E p \in Patches : patch_issue(h, p[1], p[2], p[3], p[4])
         \/ update_row_of(h) \/ set_issue_components(h) \/ set_issue_component_versions(h) \/ StopPatch(h)
    \/ \E r \in Rels : create_release(r) \/ delete_release(r)
    \/ \E v \in Vers : delete_version(v) \/ \E r \in Rels : create_version(v, r)
    \/ \E c \in Comps : delete_component(c)
    \/ \E c \in Comps, r \in Rels : link_component_release(c, r) \/ unlink_component_release(c, r)

RelSpec == RelInit /\ [][RelNext]_relVars

-----------------------------------------------------------------------------
(* Properties.                                                             *)

RelTypeOK ==
    /\ parts \subseteq Comps /\ released \subseteq Rels /\ ships \subseteq Comps \X Rels
    /\ DOMAIN version \subseteq Vers /\ \A v \in DOMAIN version : version[v] \in [rel : released, ord : Nat]
    /\ card.comps \subseteq parts /\ DOMAIN card.fix \subseteq Comps
    /\ card.mirror \in DOMAIN version \cup {NoVer} /\ card.text \in BOOLEAN
    /\ \A h \in Patchers : patcher[h].at \in {"idle", "row", "comps", "fix"}
    /\ relOps \in 0 .. MaxRelOps /\ drift \subseteq {"direct", "stale"}

\* Fix versions belong to components the issue has and to versions that are
\* there; the column the lists filter by is the first of them, unless since
\* the trigger last ran a patch named the column itself, or carried it over
\* from a row read before the trigger changed it.
MirrorNeedsCause ==
    /\ DOMAIN card.fix \subseteq card.comps /\ FixSet(card.fix) \subseteq DOMAIN version
    /\ card.fix # << >> /\ drift = {} =>
         /\ card.mirror \in FixSet(card.fix)
         /\ \A c \in DOMAIN card.fix : Earlier(card.mirror, card.fix[c])
=============================================================================
