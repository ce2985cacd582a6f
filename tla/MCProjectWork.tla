--------------------------- MODULE MCProjectWork ---------------------------
(***************************************************************************)
(* The work of one project: the tree of issues, epics and milestones, the  *)
(* time logged on it, its ordered catalogues, the creation of issues, the  *)
(* releases they ship in, the dates of milestones, and the live feed.      *)
(*                                                                         *)
(* The seven components share no state, so that their interleavings add    *)
(* nothing to what each can do alone: scene names the one that runs.       *)
(***************************************************************************)
EXTENDS Hierarchy, TimeTracking, Taxonomy, IssueCreation, Releases, MilestoneDates, EventStream

VARIABLE scene

WorkInit ==
    /\ TreeInit /\ TimeInit /\ TaxInit /\ MakeInit /\ RelInit /\ DateInit /\ StreamInit
    /\ scene \in {"tree", "time", "taxonomy", "creation", "releases", "dates", "events"}

WorkNext ==
    /\ UNCHANGED scene
    /\ \/ /\ scene = "tree" /\ TreeNext
          /\ UNCHANGED <<timeVars, taxVars, makeVars, relVars, dateVars, streamVars>>
       \/ /\ scene = "time" /\ TimeNext
          /\ UNCHANGED <<treeVars, taxVars, makeVars, relVars, dateVars, streamVars>>
       \/ /\ scene = "taxonomy" /\ TaxNext
          /\ UNCHANGED <<treeVars, timeVars, makeVars, relVars, dateVars, streamVars>>
       \/ /\ scene = "creation" /\ MakeNext
          /\ UNCHANGED <<treeVars, timeVars, taxVars, relVars, dateVars, streamVars>>
       \/ /\ scene = "releases" /\ RelNext
          /\ UNCHANGED <<treeVars, timeVars, taxVars, makeVars, dateVars, streamVars>>
       \/ /\ scene = "dates" /\ DateNext
          /\ UNCHANGED <<treeVars, timeVars, taxVars, makeVars, relVars, streamVars>>
       \/ /\ scene = "events" /\ StreamNext
          /\ UNCHANGED <<treeVars, timeVars, taxVars, makeVars, relVars, dateVars>>

workVars == <<treeVars, timeVars, taxVars, makeVars, relVars, dateVars, streamVars, scene>>

WorkSpec == WorkInit /\ [][WorkNext]_workVars

\* The components are given the same handlers, so that one small group of
\* permutations serves them all.
WorkSymmetry ==
    Permutations(Issues) \cup Permutations(Items) \cup
    Permutations(Editors \cup Clerks \cup Movers \cup Makers \cup Patchers)

\* The variables of every component keep their types, and the rows that refer
\* to each other stay consistent: entries to bookings, ranks to items,
\* versions to releases.
WorkTypeOK ==
    /\ scene = "tree" => TreeTypeOK
    /\ scene = "time" => TimeTypeOK
    /\ scene = "taxonomy" => TaxTypeOK
    /\ scene = "creation" => MakeTypeOK
    /\ scene = "releases" => RelTypeOK
    /\ scene = "dates" => DateTypeOK
    /\ scene = "events" => StreamTypeOK

\* What readers are shown agrees with the rows: the two reports of logged time
\* with each other, and the live feed with what was written.
ViewsAgree == ReportsAgree /\ StreamKeepsUp
=============================================================================
