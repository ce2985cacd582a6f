------------------------ MODULE AccessAndContentProofs ----------------------
(***************************************************************************)
(* Proofs about what is kept of the content of a project, for any number   *)
(* of handlers, rows and requests, and of the whole of MCAccessAndContent. *)
(*                                                                         *)
(* ShortLinks: KeyOK follows a name from the thing that held it last to    *)
(* where it leads now, through the rename that is still to be recorded.    *)
(*                                                                         *)
(* Files: UploadOK and ReclaimOK say that what a collector or a purge is   *)
(* about to remove from disk is used by no row, and by no upload that has  *)
(* its object and no row yet, unless the history says so.                  *)
(*                                                                         *)
(* Meetings: ReqOK gives a version of the meeting one text, one pair of    *)
(* times and one set of links; LateOK knows the uploads that a deletion    *)
(* overtook.                                                               *)
(*                                                                         *)
(* Docs: LockOK gives the clone to one handler at a time, and CloneOK      *)
(* lets it be ahead of the remote by that handler's commit only.           *)
(*                                                                         *)
(* Pictures: OwnerOK lets the one request that changes a picture be ahead  *)
(* of its row by its own image.                                            *)
(*                                                                         *)
(* Wiki: a page shows what its last saves gave it, and its newest revision *)
(* is the page.                                                            *)
(*                                                                         *)
(* Annotations: ClerkOK says what a handler found and still holds when it  *)
(* writes.                                                                 *)
(*                                                                         *)
(* MCAccessAndContent: its components share no state, so that each keeps   *)
(* its invariant in every scene.                                           *)
(***************************************************************************)
EXTENDS MCAccessAndContent, AccessProofs, FiniteSetTheorems, SequenceTheorems, TLAPS

(* ShortLinks.                                                             *)

Thing == [st : {"none", "live", "deleted"}, name : Names \cup {Nobody}, owner : Viewers \cup {Nobody}]
Rename == [at : {"idle", "create", "update", "history"}, thing : Things \cup {Nobody}, old : Names \cup {Nobody},
           new : Names \cup {Nobody}, owner : Viewers \cup {Nobody}]

\* A thing that is being created is nobody else's.
RenameOK(h) ==
    /\ rename[h].at # "idle" => rename[h].thing \in Things /\ rename[h].old \in Names /\ rename[h].new \in Names
    /\ rename[h].at = "create" =>
         named[rename[h].thing].st = "none" /\ \A g \in Renamers \ {h} : rename[g].thing # rename[h].thing

\* Whoever has a name is the last who had it.
ThingOK(t) ==
    /\ named[t].st = "live" => named[t].name \in Names
    /\ named[t].st = "none" => named[t].name = Nobody
    /\ named[t].name # Nobody => lastHolder[<<Kind(t), named[t].name>>] = t

\* A handler is about to record that the last holder gave up the name of k.
Pending(k) ==
    \E h \in Renamers : rename[h].at = "history" /\ rename[h].thing = lastHolder[k] /\ rename[h].old = k[2]

\* The last holder of a name is found by it, or gone, or about to be found.
KeyOK(k) ==
    lastHolder[k] # Nobody =>
        /\ lastHolder[k] \in k[1]
        /\ \/ named[lastHolder[k]].name = k[2] \/ named[lastHolder[k]].st = "deleted"
           \/ history[k] = lastHolder[k] \/ Pending(k)

LinkInv ==
    /\ LinkTypeOK /\ rename \in [Renamers -> Rename]
    /\ \A h \in Renamers : RenameOK(h)
    /\ \A t \in Things : ThingOK(t)
    /\ \A k \in Kinds \X Names : lastHolder[k] # Nobody => lastHolder[k] \in k[1]
    /\ \A k \in (Kinds \X Names) \ torn : KeyOK(k)

\* A thing is of one kind.
LEMMA KindIs ==
    ASSUME NEW t \in Things
    PROVE  Kind(t) \in Kinds /\ t \in Kind(t) /\ \A k \in Kinds : t \in k => k = Kind(t)
  BY ShortLinksAssumption DEF Things, Kind, Kinds

LEMMA KindsHold ==
    ASSUME NEW k \in Kinds, NEW t \in k
    PROVE  t \in Things /\ Kind(t) = k /\ t # Nobody
  BY ShortLinksAssumption DEF Things, Kind, Kinds

LEMMA LinkParts ==
    ASSUME LinkInv
    PROVE  /\ named \in [Things -> Thing] /\ rename \in [Renamers -> Rename]
           /\ history \in [Kinds \X Names -> Things \cup {Nobody}] /\ lastHolder \in [Kinds \X Names -> Things \cup {Nobody}]
           /\ lastBoard \in [Viewers -> Boards \cup {Nobody}] /\ renames \in 0 .. MaxRenames /\ torn \subseteq Kinds \X Names
           /\ \A h \in Renamers : RenameOK(h)
           /\ \A t \in Things : ThingOK(t)
           /\ \A k \in Kinds \X Names : lastHolder[k] # Nobody => lastHolder[k] \in k[1]
           /\ \A k \in (Kinds \X Names) \ torn : KeyOK(k)
           /\ \A s, t \in Things : Kind(s) = Kind(t) /\ named[s].name = named[t].name /\ named[s].name # Nobody => s = t
  BY DEF LinkInv, LinkTypeOK, Thing

\* Names are unique because each has one last holder.
LEMMA LinkFromParts ==
    ASSUME named' \in [Things -> Thing], rename' \in [Renamers -> Rename],
           history' \in [Kinds \X Names -> Things \cup {Nobody}], lastHolder' \in [Kinds \X Names -> Things \cup {Nobody}],
           lastBoard' \in [Viewers -> Boards \cup {Nobody}], renames' \in 0 .. MaxRenames, torn' \subseteq Kinds \X Names,
           \A h \in Renamers : RenameOK(h)', \A t \in Things : ThingOK(t)',
           \A k \in Kinds \X Names : lastHolder'[k] # Nobody => lastHolder'[k] \in k[1],
           \A k \in (Kinds \X Names) \ torn' : KeyOK(k)'
    PROVE  LinkInv'
  <1>1. \A s, t \in Things : Kind(s) = Kind(t) /\ named'[s].name = named'[t].name /\ named'[s].name # Nobody => s = t
    BY DEF ThingOK
  <1>2. \A h \in Renamers : rename'[h].at \in {"idle", "create", "update", "history"}
    BY DEF Rename
  <1>3. LinkTypeOK'
    BY <1>1, <1>2 DEF LinkTypeOK, Thing
  <1> QED
    BY <1>3 DEF LinkInv

LEMMA NoRenameIsFine == NoRename \in Rename /\ NoRename.at = "idle" /\ NoRename.thing = Nobody
  BY DEF NoRename, Rename

LEMMA LinkInvInit == LinkInit => LinkInv
  <1> SUFFICES ASSUME LinkInit PROVE LinkInv
    OBVIOUS
  <1> PICK p \in Projects, b \in Boards, x \in Names :
        /\ named = [t \in Things |-> IF t \in {p, b} THEN [st |-> "live", name |-> x, owner |-> Nobody] ELSE NoThing]
        /\ lastHolder = [k \in Kinds \X Names |-> IF k[2] # x THEN Nobody ELSE IF k[1] = Projects THEN p ELSE b]
        /\ history = [k \in Kinds \X Names |-> Nobody]
        /\ rename = [h \in Renamers |-> NoRename] /\ lastBoard = [a \in Viewers |-> Nobody]
        /\ renames = 0 /\ torn = {}
    BY DEF LinkInit
  <1>1. /\ p \in Things /\ b \in Things /\ p # Nobody /\ b # Nobody /\ x # Nobody
        /\ Kind(p) = Projects /\ Kind(b) = Boards /\ Projects # Boards
    BY ShortLinksAssumption DEF Things, Kind
  <1> DEFINE new == [st |-> "live", name |-> x, owner |-> Nobody]
  <1>2. new \in Thing /\ NoThing \in Thing /\ new.st = "live" /\ new.name = x /\ NoThing.st = "none" /\ NoThing.name = Nobody
    BY DEF Thing, NoThing
  <1>3. named \in [Things -> Thing] /\ named[p] = new /\ named[b] = new /\ \A t \in Things \ {p, b} : named[t] = NoThing
    BY <1>1, <1>2
  <1> HIDE DEF new
  <1>4. /\ \A k \in Kinds \X Names : lastHolder[k] = IF k[2] # x THEN Nobody ELSE IF k[1] = Projects THEN p ELSE b
        /\ lastHolder \in [Kinds \X Names -> Things \cup {Nobody}]
    BY <1>1
  <1>5. /\ <<Projects, x>> \in Kinds \X Names /\ <<Boards, x>> \in Kinds \X Names
        /\ lastHolder[<<Projects, x>>] = p /\ lastHolder[<<Boards, x>>] = b
    BY <1>1, <1>4 DEF Kinds
  <1>6. \A t \in Things : ThingOK(t)
    BY <1>1, <1>2, <1>3, <1>5 DEF ThingOK
  <1>7. \A k \in Kinds \X Names : lastHolder[k] # Nobody => lastHolder[k] \in k[1] /\ named[lastHolder[k]].name = k[2]
    BY <1>1, <1>2, <1>3, <1>4 DEF Kinds
  <1>8. \A k \in Kinds \X Names : KeyOK(k)
    BY <1>7 DEF KeyOK
  <1>9. rename \in [Renamers -> Rename] /\ \A h \in Renamers : rename[h].at = "idle" /\ RenameOK(h)
    BY NoRenameIsFine DEF RenameOK
  <1>10. \A s, t \in Things : Kind(s) = Kind(t) /\ named[s].name = named[t].name /\ named[s].name # Nobody => s = t
    BY <1>1, <1>2, <1>3
  <1>11. LinkTypeOK
    BY <1>3, <1>4, <1>9, <1>10, ShortLinksAssumption DEF LinkTypeOK, Thing
  <1> QED
    BY <1>6, <1>7, <1>8, <1>9, <1>11 DEF LinkInv

\* A request begins, none of whose names is given up yet.
LEMMA LinkBegins ==
    ASSUME LinkInv, NEW h \in Renamers, Ask(h), NEW q \in Rename, rename' = [rename EXCEPT ![h] = q],
           q.at \in {"create", "update"}, q.thing \in Things, q.old \in Names, q.new \in Names,
           q.at = "create" => named[q.thing].st = "none" /\ \A g \in Renamers : rename[g].thing # q.thing,
           q.at = "update" => named[q.thing].st = "live",
           UNCHANGED <<named, history, lastBoard, lastHolder, torn>>
    PROVE  LinkInv'
  <1>1. rename[h].at = "idle" /\ renames' \in 0 .. MaxRenames
    BY LinkParts, ShortLinksAssumption DEF Ask
  <1>2. rename' \in [Renamers -> Rename] /\ \A g \in Renamers : rename'[g] = IF g = h THEN q ELSE rename[g]
    BY LinkParts
  <1>3. \A g \in Renamers : RenameOK(g)'
    BY <1>2, LinkParts DEF RenameOK
  <1>4. \A k \in (Kinds \X Names) \ torn : KeyOK(k)'
    BY <1>1, <1>2, LinkParts DEF KeyOK, Pending
  <1>5. \A t \in Things : ThingOK(t)'
    BY LinkParts DEF ThingOK
  <1> QED
    BY <1>1, <1>2, <1>3, <1>4, <1>5, LinkParts, LinkFromParts

LEMMA LinkCreateBegins ==
    ASSUME LinkInv, NEW h \in Renamers, NEW t \in Things, NEW x \in Names, NEW o \in Viewers \cup {Nobody},
           CreateCheck(h, t, x, o)
    PROVE  LinkInv'
  <1> DEFINE q == [at |-> "create", thing |-> t, old |-> x, new |-> x, owner |-> o]
  <1>1. q \in Rename /\ q.at = "create" /\ q.thing = t /\ q.old = x /\ q.new = x
    BY DEF Rename
  <1>2. /\ Ask(h) /\ rename' = [rename EXCEPT ![h] = q] /\ named[t].st = "none" /\ \A g \in Renamers : rename[g].thing # t
        /\ UNCHANGED <<named, history, lastBoard, lastHolder, torn>>
    BY DEF CreateCheck
  <1> HIDE DEF q
  <1> QED
    BY <1>1, <1>2, LinkBegins

LEMMA LinkRenameBegins ==
    ASSUME LinkInv, NEW h \in Renamers, NEW t \in Things, NEW x \in Names, RenameCheck(h, t, x)
    PROVE  LinkInv'
  <1> DEFINE q == [at |-> "update", thing |-> t, old |-> named[t].name, new |-> x, owner |-> named[t].owner]
  <1>1. named[t].st = "live" /\ named[t].name \in Names /\ named[t].owner \in Viewers \cup {Nobody}
    BY LinkParts DEF RenameCheck, ThingOK, Thing
  <1>2. q \in Rename /\ q.at = "update" /\ q.thing = t /\ q.old = named[t].name /\ q.new = x
    BY <1>1 DEF Rename
  <1>3. /\ Ask(h) /\ rename' = [rename EXCEPT ![h] = q]
        /\ UNCHANGED <<named, history, lastBoard, lastHolder, torn>>
    BY DEF RenameCheck
  <1> HIDE DEF q
  <1> QED
    BY <1>1, <1>2, <1>3, LinkBegins

\* A handler that has given up no name ends.
LEMMA LinkGivesUp ==
    ASSUME LinkInv, NEW h \in Renamers, rename[h].at # "history", rename' = [rename EXCEPT ![h] = NoRename],
           UNCHANGED <<named, history, lastBoard, lastHolder, torn, renames>>
    PROVE  LinkInv'
  <1>1. rename' \in [Renamers -> Rename] /\ \A g \in Renamers : rename'[g] = IF g = h THEN NoRename ELSE rename[g]
    BY LinkParts, NoRenameIsFine
  <1>2. \A g \in Renamers : RenameOK(g)'
    BY <1>1, LinkParts, NoRenameIsFine, ShortLinksAssumption DEF RenameOK, Things
  <1>3. \A k \in (Kinds \X Names) \ torn : KeyOK(k)'
    BY <1>1, LinkParts DEF KeyOK, Pending
  <1>4. \A t \in Things : ThingOK(t)'
    BY LinkParts DEF ThingOK
  <1> QED
    BY <1>1, <1>2, <1>3, <1>4, LinkParts, LinkFromParts

\* The row gets its new name: it is the last holder of it, and the name it
\* loses is recorded next, unless another rename came between.
LEMMA LinkNamed ==
    ASSUME LinkInv, NEW h \in Renamers, NEW q \in Rename, q = rename[h], q.at \in {"create", "update"},
           q.thing \in Things, q.old \in Names, q.new \in Names, ~name_exists(Kind(q.thing), q.new, q.thing),
           q.at = "update" => named[q.thing].st = "live",
           NEW row \in Thing, row.st = "live", row.name = q.new,
           named' = [named EXCEPT ![q.thing] = row],
           lastHolder' = [lastHolder EXCEPT ![<<Kind(q.thing), q.new>>] = q.thing],
           torn' = IF q.at = "update"
                   THEN torn \cup ({<<Kind(q.thing), named[q.thing].name>>}
                                     \ {<<Kind(q.thing), q.old>>, <<Kind(q.thing), q.new>>})
                   ELSE torn,
           NEW n \in Rename, rename' = [rename EXCEPT ![h] = n],
           \/ n.at = "idle" /\ n.thing = Nobody /\ ~(q.at = "update" /\ q.new # q.old)
           \/ n.at = "history" /\ n.thing = q.thing /\ n.old = q.old /\ n.new = q.new /\ q.at = "update",
           UNCHANGED <<history, lastBoard, renames>>
    PROVE  LinkInv'
  <1> DEFINE kd == Kind(q.thing)
             key == <<kd, q.new>>
  <1>1. kd \in Kinds /\ q.thing \in kd /\ q.thing # Nobody /\ key \in Kinds \X Names /\ key[1] = kd /\ key[2] = q.new
    BY KindIs, ShortLinksAssumption DEF Things
  <1>2. /\ named' \in [Things -> Thing] /\ rename' \in [Renamers -> Rename]
        /\ lastHolder' \in [Kinds \X Names -> Things \cup {Nobody}]
        /\ \A t \in Things : named'[t] = IF t = q.thing THEN row ELSE named[t]
        /\ \A k \in Kinds \X Names : lastHolder'[k] = IF k = key THEN q.thing ELSE lastHolder[k]
        /\ \A g \in Renamers : rename'[g] = IF g = h THEN n ELSE rename[g]
    BY <1>1, LinkParts
  <1>3. torn \subseteq torn' /\ torn' \subseteq Kinds \X Names
    BY <1>1, LinkParts DEF ThingOK
  <1>4. q.new # Nobody /\ \A t \in Things : t # q.thing /\ Kind(t) = kd => named[t].name # q.new
    BY KindIs, ShortLinksAssumption DEF name_exists
  <1>5. \A t \in Things : ThingOK(t)'
    <2> SUFFICES ASSUME NEW t \in Things PROVE ThingOK(t)'
      OBVIOUS
    <2>1. CASE t = q.thing
      BY <1>1, <1>2, <2>1 DEF ThingOK
    <2>2. CASE t # q.thing
      <3>1. named'[t] = named[t] /\ ThingOK(t)
        BY <1>2, <2>2, LinkParts
      <3>2. CASE named[t].name = Nobody
        BY <3>1, <3>2 DEF ThingOK
      <3>3. CASE named[t].name # Nobody
        <4>1. named[t].name \in Names /\ Kind(t) \in Kinds
          BY <3>3, KindIs, LinkParts DEF Thing
        <4>2. <<Kind(t), named[t].name>> \in Kinds \X Names /\ <<Kind(t), named[t].name>> # key
          BY <2>2, <4>1, <1>4
        <4>3. lastHolder'[<<Kind(t), named[t].name>>] = lastHolder[<<Kind(t), named[t].name>>]
          BY <4>2, <1>2
        <4> QED
          BY <3>1, <4>3 DEF ThingOK
      <3> QED
        BY <3>2, <3>3
    <2> QED
      BY <2>1, <2>2
  <1>6. \A g \in Renamers : RenameOK(g)'
    <2>1. \A g \in Renamers \ {h} : rename[g].at = "create" => rename[g].thing # q.thing
      BY LinkParts DEF RenameOK
    <2>2. RenameOK(h)'
      BY <1>2 DEF RenameOK
    <2>3. n.thing \in {Nobody, q.thing} /\ Nobody \notin Things
      BY ShortLinksAssumption DEF Things
    <2>4. ASSUME NEW g \in Renamers \ {h} PROVE RenameOK(g)'
      BY <1>2, <2>1, <2>3, <2>4, LinkParts DEF RenameOK
    <2> QED
      BY <2>2, <2>4
  <1>7. \A k \in Kinds \X Names : lastHolder'[k] # Nobody => lastHolder'[k] \in k[1]
    BY <1>1, <1>2, LinkParts
  <1>8. ASSUME NEW k \in (Kinds \X Names) \ torn' PROVE KeyOK(k)'
    <2>1. CASE k = key
      BY <1>1, <1>2, <2>1 DEF KeyOK
    <2>2. CASE k # key
      <3>1. lastHolder'[k] = lastHolder[k] /\ KeyOK(k) /\ k \in Kinds \X Names /\ history'[k] = history[k]
        BY <1>2, <1>3, <1>8, <2>2, LinkParts
      <3>2. CASE lastHolder[k] = Nobody
        BY <3>1, <3>2 DEF KeyOK
      <3>3. CASE lastHolder[k] # Nobody /\ lastHolder[k] # q.thing
        <4>1. lastHolder[k] \in Things /\ named'[lastHolder[k]] = named[lastHolder[k]]
          BY <1>2, <3>1, <3>3, LinkParts
        <4>2. Pending(k) => Pending(k)'
          BY <1>2, <3>1 DEF Pending
        <4> QED
          BY <3>1, <4>1, <4>2 DEF KeyOK
      <3>4. CASE lastHolder[k] = q.thing
        <4>1. k = <<kd, k[2]>> /\ k[2] \in Names
          BY <1>1, <3>1, <3>4, KindIs DEF KeyOK
        <4>2. Pending(k) => Pending(k)'
          BY <1>2, <3>1 DEF Pending
        <4>3. CASE history[k] = q.thing \/ Pending(k)
          BY <3>1, <3>4, <4>2, <4>3 DEF KeyOK
        <4>4. CASE named[q.thing].name = k[2]
          <5>1. q.at = "update"
            BY <4>1, <4>4, LinkParts, ShortLinksAssumption DEF RenameOK, ThingOK
          <5>2. k[2] = q.old
            BY <1>8, <2>2, <4>1, <4>4, <5>1
          <5>3. q.new # q.old
            BY <2>2, <4>1, <5>2
          <5>4. n.at = "history" /\ n.thing = q.thing /\ n.old = k[2]
            BY <5>1, <5>2, <5>3
          <5>5. Pending(k)'
            BY <1>2, <3>1, <3>4, <5>4 DEF Pending
          <5> QED
            BY <3>1, <3>4, <5>5 DEF KeyOK
        <4>5. CASE named[q.thing].st = "deleted"
          BY <4>5, LinkParts DEF RenameOK
        <4> QED
          BY <1>1, <3>1, <3>4, <4>3, <4>4, <4>5 DEF KeyOK
      <3> QED
        BY <3>2, <3>3, <3>4
    <2> QED
      BY <2>1, <2>2
  <1> QED
    BY <1>2, <1>3, <1>5, <1>6, <1>7, <1>8, LinkParts, LinkFromParts

LEMMA LinkWrites ==
    ASSUME LinkInv, NEW h \in Renamers, NEW at \in {"create", "update"}, WriteName(h, at)
    PROVE  LinkInv'
  <1> PICK q \in Rename : q = rename[h]
    BY LinkParts
  <1> DEFINE k == Kind(q.thing)
             row == [st |-> "live", name |-> q.new, owner |-> q.owner]
             kept == [q EXCEPT !.at = "history"]
  <1> PICK ok \in BOOLEAN : ok <=> ~name_exists(k, q.new, q.thing) /\ (at = "update" => named[q.thing].st = "live")
    OBVIOUS
  <1> PICK b \in BOOLEAN : b <=> ok /\ at = "update" /\ q.new # q.old
    OBVIOUS
  <1> PICK n : n = IF b THEN kept ELSE NoRename
    OBVIOUS
  <1>1. q.at = at /\ q.thing \in Things /\ q.old \in Names /\ q.new \in Names
    BY LinkParts DEF WriteName, RenameOK
  <1>2. /\ named' = IF ok THEN [named EXCEPT ![q.thing] = row] ELSE named
        /\ lastHolder' = IF ok THEN [lastHolder EXCEPT ![<<k, q.new>>] = q.thing] ELSE lastHolder
        /\ torn' = IF ok /\ at = "update" THEN torn \cup ({<<k, named[q.thing].name>>} \ {<<k, q.old>>, <<k, q.new>>})
                   ELSE torn
        /\ rename' = [rename EXCEPT ![h] = n]
        /\ UNCHANGED <<history, lastBoard, renames>>
    BY DEF WriteName
  <1>3. row \in Thing /\ row.st = "live" /\ row.name = q.new
    BY <1>1 DEF Thing, Rename
  <1>4. kept \in Rename /\ kept.at = "history" /\ kept.thing = q.thing /\ kept.old = q.old /\ kept.new = q.new
    BY DEF Rename
  <1> HIDE DEF row, kept
  <1>5. CASE ~ok
    <2>1. n = NoRename
      BY <1>5
    <2> QED
      BY <1>1, <1>2, <1>5, <2>1, LinkGivesUp
  <1>6. CASE ok
    <2>1. /\ n \in Rename
          /\ \/ n.at = "idle" /\ n.thing = Nobody /\ ~(q.at = "update" /\ q.new # q.old)
             \/ n.at = "history" /\ n.thing = q.thing /\ n.old = q.old /\ n.new = q.new /\ q.at = "update"
      BY <1>1, <1>4, <1>6, NoRenameIsFine
    <2>2. ~name_exists(k, q.new, q.thing) /\ (q.at = "update" => named[q.thing].st = "live")
      BY <1>1, <1>6
    <2> QED
      BY <1>1, <1>2, <1>3, <1>6, <2>1, <2>2, LinkNamed
  <1> QED
    BY <1>5, <1>6

\* The name that was given up is claimed for the thing that had it last.
LEMMA LinkRecords ==
    ASSUME LinkInv, NEW h \in Renamers, NEW kind \in Kinds, RecordName(h, kind)
    PROVE  LinkInv'
  <1> PICK q \in Rename : q = rename[h]
    BY LinkParts
  <1> DEFINE key == <<kind, q.old>>
  <1>1. q.at = "history" /\ Kind(q.thing) = kind /\ q.thing \in Things /\ q.old \in Names
    BY LinkParts DEF RecordName, RenameOK
  <1>2. key \in Kinds \X Names /\ key[1] = kind /\ key[2] = q.old
    BY <1>1
  <1>3. /\ history' = IF kind = Boards /\ named[q.thing].st = "deleted" THEN history ELSE [history EXCEPT ![key] = q.thing]
        /\ torn' = IF lastHolder[key] = q.thing THEN torn ELSE torn \cup {key}
        /\ rename' = [rename EXCEPT ![h] = NoRename]
        /\ UNCHANGED <<named, lastBoard, renames, lastHolder>>
    BY DEF RecordName, claim
  <1>4. /\ history' \in [Kinds \X Names -> Things \cup {Nobody}] /\ torn \subseteq torn' /\ torn' \subseteq Kinds \X Names
        /\ rename' \in [Renamers -> Rename] /\ \A g \in Renamers : rename'[g] = IF g = h THEN NoRename ELSE rename[g]
        /\ \A k \in Kinds \X Names : k # key => history'[k] = history[k]
        /\ named[q.thing].st = "deleted" \/ history'[key] = q.thing
    BY <1>1, <1>2, <1>3, LinkParts, NoRenameIsFine
  <1>5. \A g \in Renamers : RenameOK(g)'
    BY <1>3, <1>4, LinkParts, NoRenameIsFine, ShortLinksAssumption DEF RenameOK, Things
  <1>6. \A t \in Things : ThingOK(t)'
    BY <1>3, LinkParts DEF ThingOK
  <1>7. ASSUME NEW k \in (Kinds \X Names) \ torn' PROVE KeyOK(k)'
    <2>1. CASE k = key
      BY <1>3, <1>4, <1>7, <2>1, LinkParts DEF KeyOK
    <2>2. CASE k # key
      <3>1. lastHolder[k] \in k[1] /\ rename[h].thing = lastHolder[k] => k[1] = kind /\ rename[h].old # k[2]
        BY <1>1, <1>2, <2>2, KindIs
      <3>2. lastHolder[k] # Nobody => (Pending(k) => Pending(k)')
        BY <1>3, <1>4, <1>7, <3>1, LinkParts DEF Pending
      <3> QED
        BY <1>3, <1>4, <1>7, <2>2, <3>2, LinkParts DEF KeyOK
    <2> QED
      BY <2>1, <2>2
  <1> QED
    BY <1>3, <1>4, <1>5, <1>6, <1>7, LinkParts, LinkFromParts

LEMMA LinkProjectDeleted ==
    ASSUME LinkInv, NEW h \in Renamers, NEW t \in Projects, delete_project(h, t)
    PROVE  LinkInv'
  <1>1. t \in Things /\ named[t].st = "live" /\ renames' \in 0 .. MaxRenames
    BY LinkParts, ShortLinksAssumption DEF delete_project, Ask, Things
  <1>2. named' = [named EXCEPT ![t].st = "deleted"] /\ UNCHANGED <<history, rename, lastBoard, lastHolder, torn>>
    BY DEF delete_project
  <1>3. /\ named' \in [Things -> Thing] /\ named'[t].st = "deleted" /\ named'[t].name = named[t].name
        /\ \A s \in Things : s # t => named'[s] = named[s]
    BY <1>1, <1>2, LinkParts DEF Thing
  <1>4. \A s \in Things : ThingOK(s)'
    BY <1>2, <1>3, LinkParts DEF ThingOK
  <1>5. \A g \in Renamers : RenameOK(g)'
    BY <1>1, <1>2, <1>3, LinkParts DEF RenameOK
  <1>6. \A k \in (Kinds \X Names) \ torn : KeyOK(k)'
    BY <1>2, <1>3, LinkParts DEF KeyOK, Pending
  <1> QED
    BY <1>1, <1>2, <1>3, <1>4, <1>5, <1>6, LinkParts, LinkFromParts

\* A deleted board has no name and no history.
LEMMA LinkBoardDeleted ==
    ASSUME LinkInv, NEW h \in Renamers, NEW a, NEW t \in Boards, delete_board(h, a, t)
    PROVE  LinkInv'
  <1> DEFINE gone == [NoThing EXCEPT !.st = "deleted"]
  <1>1. t \in Things /\ named[t].st = "live" /\ renames' \in 0 .. MaxRenames
    BY LinkParts, ShortLinksAssumption DEF delete_board, load_for_write, Ask, Things
  <1>2. gone \in Thing /\ gone.st = "deleted" /\ gone.name = Nobody
    BY DEF Thing, NoThing
  <1>3. /\ named' = [named EXCEPT ![t] = gone] /\ UNCHANGED <<rename, lastHolder, torn>>
        /\ history' = [k \in Kinds \X Names |-> IF history[k] = t THEN Nobody ELSE history[k]]
        /\ lastBoard' = [b \in Viewers |-> IF lastBoard[b] = t THEN Nobody ELSE lastBoard[b]]
    BY DEF delete_board
  <1> HIDE DEF gone
  <1>4. /\ named' \in [Things -> Thing] /\ \A s \in Things : named'[s] = IF s = t THEN gone ELSE named[s]
        /\ history' \in [Kinds \X Names -> Things \cup {Nobody}] /\ lastBoard' \in [Viewers -> Boards \cup {Nobody}]
        /\ \A k \in Kinds \X Names : history[k] # t => history'[k] = history[k]
    BY <1>1, <1>2, <1>3, LinkParts
  <1>5. \A s \in Things : ThingOK(s)'
    BY <1>2, <1>3, <1>4, LinkParts DEF ThingOK
  <1>6. \A g \in Renamers : RenameOK(g)'
    BY <1>1, <1>3, <1>4, LinkParts DEF RenameOK
  <1>7. \A k \in (Kinds \X Names) \ torn : KeyOK(k)'
    BY <1>2, <1>3, <1>4, LinkParts DEF KeyOK, Pending
  <1> QED
    BY <1>1, <1>3, <1>4, <1>5, <1>6, <1>7, LinkParts, LinkFromParts

\* Neither the board opened last nor a pruned history says who has a name.
LEMMA LinkOpened ==
    ASSUME LinkInv, NEW h \in Renamers, NEW a \in Viewers, NEW t \in Boards, set_last_opened(h, a, t)
    PROVE  LinkInv'
  <1>1. /\ renames' \in 0 .. MaxRenames /\ lastBoard' \in [Viewers -> Boards \cup {Nobody}]
        /\ UNCHANGED <<named, history, rename, lastHolder, torn>>
    BY LinkParts, ShortLinksAssumption DEF set_last_opened, Ask
  <1>2. (\A s \in Things : ThingOK(s)') /\ (\A g \in Renamers : RenameOK(g)') /\ \A k \in (Kinds \X Names) \ torn : KeyOK(k)'
    BY <1>1, LinkParts DEF ThingOK, RenameOK, KeyOK, Pending
  <1> QED
    BY <1>1, <1>2, LinkParts, LinkFromParts

LEMMA LinkPruned ==
    ASSUME LinkInv, NEW h \in Renamers, NEW j \in Kinds \X Names, delete_short_link_history(h, j)
    PROVE  LinkInv'
  <1>1. /\ renames' \in 0 .. MaxRenames /\ history' = [history EXCEPT ![j] = Nobody] /\ torn' = torn \cup {j}
        /\ UNCHANGED <<named, rename, lastBoard, lastHolder>>
    BY LinkParts, ShortLinksAssumption DEF delete_short_link_history, Ask
  <1>2. /\ history' \in [Kinds \X Names -> Things \cup {Nobody}] /\ torn' \subseteq Kinds \X Names
        /\ \A k \in Kinds \X Names : k # j => history'[k] = history[k]
    BY <1>1, LinkParts
  <1>3. (\A s \in Things : ThingOK(s)') /\ \A g \in Renamers : RenameOK(g)'
    BY <1>1, LinkParts DEF ThingOK, RenameOK
  <1>4. \A k \in (Kinds \X Names) \ torn' : KeyOK(k)'
    BY <1>1, <1>2, LinkParts DEF KeyOK, Pending
  <1> QED
    BY <1>1, <1>2, <1>3, <1>4, LinkParts, LinkFromParts

LEMMA LinkEnds ==
    ASSUME LinkInv, NEW h \in Renamers, RenameEnds(h)
    PROVE  LinkInv'
  <1> PICK q \in Rename : q = rename[h]
    BY LinkParts
  <1>1. rename' = [rename EXCEPT ![h] = NoRename] /\ UNCHANGED <<named, history, lastBoard, renames, lastHolder>>
    BY DEF RenameEnds
  <1>2. CASE q.at # "history"
    <2>1. torn' = torn
      BY <1>2 DEF RenameEnds
    <2> QED
      BY <1>1, <1>2, <2>1, LinkGivesUp
  <1>3. CASE q.at = "history"
    <2>1. torn' = torn \cup {<<Kind(q.thing), q.old>>}
      BY <1>3 DEF RenameEnds
    <2>2. q.thing \in Things /\ q.old \in Names /\ Kind(q.thing) \in Kinds
      BY <1>3, LinkParts, KindIs DEF RenameOK
    <2>3. /\ torn' \subseteq Kinds \X Names /\ rename' \in [Renamers -> Rename]
          /\ \A g \in Renamers : rename'[g] = IF g = h THEN NoRename ELSE rename[g]
      BY <1>1, <2>1, <2>2, LinkParts, NoRenameIsFine
    <2>4. \A g \in Renamers : RenameOK(g)'
      BY <1>1, <2>3, LinkParts, NoRenameIsFine, ShortLinksAssumption DEF RenameOK, Things
    <2>5. \A t \in Things : ThingOK(t)'
      BY <1>1, LinkParts DEF ThingOK
    <2>6. ASSUME NEW k \in (Kinds \X Names) \ torn' PROVE KeyOK(k)'
      <3>1. k \in (Kinds \X Names) \ torn /\ k # <<Kind(q.thing), q.old>> /\ KeyOK(k)
        BY <2>1, <2>6, LinkParts
      <3>2. lastHolder[k] \in k[1] /\ rename[h].thing = lastHolder[k] => rename[h].old # k[2]
        BY <2>2, <3>1, KindIs
      <3>3. lastHolder[k] # Nobody => (Pending(k) => Pending(k)')
        BY <1>1, <2>3, <3>1, <3>2, LinkParts DEF Pending
      <3> QED
        BY <1>1, <3>1, <3>3 DEF KeyOK
    <2> QED
      BY <1>1, <2>3, <2>4, <2>5, <2>6, LinkParts, LinkFromParts
  <1> QED
    BY <1>2, <1>3

LEMMA LinkInvStep == LinkInv /\ [LinkNext]_linkVars => LinkInv'
  <1> SUFFICES ASSUME LinkInv, [LinkNext]_linkVars PROVE LinkInv'
    OBVIOUS
  <1>1. CASE UNCHANGED linkVars
    BY <1>1
    DEF linkVars, LinkInv, LinkTypeOK, RenameOK, ThingOK, KeyOK, Pending
  <1>2. ASSUME NEW h \in Renamers, create_project(h) \/ \E a \in Viewers, common \in BOOLEAN : create_board(h, a, common)
        PROVE  LinkInv'
    <2>1. PICK t \in Things, x \in Names, o \in Viewers \cup {Nobody} : CreateCheck(h, t, x, o)
      BY <1>2 DEF create_project, create_board, Things
    <2> QED
      BY <2>1, LinkCreateBegins
  <1>3. ASSUME NEW h \in Renamers, update_project(h) \/ \E a \in Viewers : update_board(h, a)
        PROVE  LinkInv'
    <2>1. PICK t \in Things, x \in Names : RenameCheck(h, t, x)
      BY <1>3 DEF update_project, update_board, Things
    <2> QED
      BY <2>1, LinkRenameBegins
  <1>4. ASSUME NEW h \in Renamers, create_with_defaults(h) \/ projects_update(h) \/ insert_board(h) \/ boards_update(h)
        PROVE  LinkInv'
    BY <1>4, LinkWrites DEF create_with_defaults, projects_update, insert_board, boards_update
  <1>5. ASSUME NEW h \in Renamers, record_prefix_history(h) \/ record_key_history(h)
        PROVE  LinkInv'
    BY <1>5, LinkRecords DEF record_prefix_history, record_key_history, Kinds
  <1> QED
    BY <1>1, <1>2, <1>3, <1>4, <1>5, LinkProjectDeleted, LinkBoardDeleted, LinkOpened, LinkPruned, LinkEnds DEF LinkNext

LEMMA LinkInvariant == LinkSpec => []LinkInv
  BY LinkInvInit, LinkInvStep, PTL DEF LinkSpec

\* Live names shadow the history, and where there is none the history leads
\* to the last holder.
LEMMA LookupFinds ==
    ASSUME LinkInv, NEW k \in (Kinds \X Names) \ torn, lastHolder[k] # Nobody, named[lastHolder[k]].st = "live",
           \A h \in Renamers : rename[h].at # "history" \/ Kind(rename[h].thing) # k[1] \/ rename[h].old # k[2]
    PROVE  Lookup(k[1], k[2]) = {lastHolder[k]}
  <1> DEFINE t == lastHolder[k]
             live == {s \in k[1] : named[s].st = "live" /\ named[s].name = k[2]}
  <1>1. k[1] \in Kinds /\ k[2] \in Names /\ k = <<k[1], k[2]>> /\ t \in k[1] /\ k[2] # Nobody
    BY LinkParts, ShortLinksAssumption
  <1>2. \A s \in live : s = t
    BY <1>1, KindsHold, LinkParts DEF ThingOK
  <1>3. ~Pending(k)
    BY <1>1, KindsHold DEF Pending
  <1>4. named[t].name = k[2] \/ history[k] = t
    BY <1>3, LinkParts DEF KeyOK
  <1>5. CASE named[t].name = k[2]
    <2>1. live = {t}
      BY <1>1, <1>2, <1>5
    <2> QED
      BY <2>1 DEF Lookup
  <1>6. CASE named[t].name # k[2]
    <2>1. live = {}
      BY <1>2, <1>6
    <2>2. history[<<k[1], k[2]>>] = t
      BY <1>1, <1>4, <1>6
    <2>3. {s \in k[1] : s = history[<<k[1], k[2]>>] /\ named[s].st = "live"} = {t}
      BY <1>1, <2>2
    <2> QED
      BY <2>1, <2>3 DEF Lookup
  <1> QED
    BY <1>5, <1>6

\* Projects, boards, names, histories and handlers keep their types, and no
\* two projects or boards have one name.
THEOREM LinkTypeCorrect == LinkSpec => []LinkTypeOK
  <1>1. LinkInv => LinkTypeOK
    BY DEF LinkInv
  <1> QED
    BY <1>1, LinkInvariant, PTL

\* A short link leads to the project or the board that had its name last
\* (resolve_by_prefix, get_board), through any chain of renames, takeovers,
\* returns and deletions and for any number of handlers, unless renames of one
\* thing overlapped, the history could not be written or was pruned.
THEOREM OldLinksLeadHome == LinkSpec => []OldLinkLeadsHome
  <1>1. LinkInv => OldLinkLeadsHome
    BY LookupFinds DEF OldLinkLeadsHome, resolve_by_prefix, get_board
  <1> QED
    BY <1>1, LinkInvariant, PTL

-----------------------------------------------------------------------------
(* Files.                                                                  *)

Attachment == [target : FileTargets, key : Keys, st : {"live", "deleted", "expired"}]
Upload == [at : {"idle", "spooled", "adopted"}, target : FileTargets \cup {NoFile}, key : Keys \cup {NoFile}]

\* An upload that has its object on disk but no row yet: nobody is about to
\* remove the object, unless the history says so.
UploadOK(q) ==
    /\ q.at # "idle" => q.target \in FileTargets /\ q.key \in Keys
    /\ q.at = "adopted" => q.key \in object \cup shared /\ (q.key \in Reclaiming => q.key \in shared)

\* What is about to be removed from disk no row uses.
ReclaimOK(c) == c.at = "objects" => \A a \in Rows : attachment[a].key \in c.keys => attachment[a].key \in shared

FileInv ==
    /\ FileTypeOK /\ RowHasObject
    /\ \A u \in Uploaders : UploadOK(upload[u])
    /\ \A r \in {"gc", "purge"} : ReclaimOK(reclaim[r])

LEMMA FileParts ==
    ASSUME FileInv
    PROVE  /\ attachment \in [FileIds -> Attachment \cup {NoFile}] /\ object \subseteq Keys /\ leftover \in Nat
           /\ upload \in [Uploaders -> Upload] /\ shared \subseteq Keys /\ fileOps \in 0 .. MaxFileOps
           /\ reclaim \in [{"gc", "purge"} -> [at : {"idle", "rows", "objects"}, keys : SUBSET Keys]]
           /\ DOMAIN reclaim = {"gc", "purge"}
           /\ comment \in {"live", "deleted", "gone"}
           /\ served.start >= 0 /\ served.len >= 0 /\ served.start + served.len <= served.size
           /\ \A u \in Uploaders : UploadOK(upload[u])
           /\ \A r \in {"gc", "purge"} : ReclaimOK(reclaim[r])
           /\ \A a \in Rows : a \in FileIds /\ attachment[a] \in Attachment /\ attachment[a].key \in Keys
                              /\ attachment[a].key \in object \cup shared
  BY DEF FileInv, FileTypeOK, RowHasObject, Attachment, Upload, Rows

LEMMA FileFromParts ==
    ASSUME attachment' \in [FileIds -> Attachment \cup {NoFile}], object' \subseteq Keys, leftover' \in Nat,
           upload' \in [Uploaders -> Upload], shared' \subseteq Keys, fileOps' \in 0 .. MaxFileOps,
           reclaim' \in [{"gc", "purge"} -> [at : {"idle", "rows", "objects"}, keys : SUBSET Keys]],
           comment' \in {"live", "deleted", "gone"},
           served'.start >= 0 /\ served'.len >= 0 /\ served'.start + served'.len <= served'.size,
           \A u \in Uploaders : UploadOK(upload[u])', \A r \in {"gc", "purge"} : ReclaimOK(reclaim[r])',
           \A a \in Rows' : attachment'[a].key \in object' \cup shared'
    PROVE  FileInv'
  BY DEF FileInv, FileTypeOK, RowHasObject, Attachment, Upload

LEMMA NoUploadIsFine == NoUpload \in Upload /\ NoUpload.at = "idle" /\ NoUpload.target = NoFile
  BY DEF NoUpload, Upload

LEMMA FileInvInit == FileInit => FileInv
  <1> SUFFICES ASSUME FileInit PROVE FileInv
    OBVIOUS
  <1>1. upload \in [Uploaders -> Upload] /\ \A u \in Uploaders : UploadOK(upload[u])
    BY NoUploadIsFine DEF FileInit, UploadOK
  <1>2. reclaim \in [{"gc", "purge"} -> [at : {"idle", "rows", "objects"}, keys : SUBSET Keys]]
    BY DEF FileInit
  <1>3. (\A r \in {"gc", "purge"} : ReclaimOK(reclaim[r])) /\ Rows = {}
    BY DEF FileInit, ReclaimOK, Rows
  <1>4. served.start >= 0 /\ served.len >= 0 /\ served.start + served.len <= served.size
    BY DEF FileInit, Full
  <1>5. FileTypeOK
    BY <1>1, <1>2, <1>4, FilesAssumption DEF FileInit, FileTypeOK, Upload
  <1> QED
    BY <1>1, <1>3, <1>5 DEF FileInv, RowHasObject

\* What a request does before it writes.
LEMMA FileRequested ==
    ASSUME FileInv, NEW u \in Uploaders, FileRequest(u)
    PROVE  upload[u].at = "idle" /\ fileOps' \in 0 .. MaxFileOps
  BY FileParts, FilesAssumption DEF FileRequest

LEMMA FileReceived ==
    ASSUME FileInv, NEW u \in Uploaders, NEW t \in FileTargets, NEW k \in Keys, receive_file(u, t, k)
    PROVE  FileInv'
  <1> DEFINE q == [at |-> "spooled", target |-> t, key |-> k]
  <1>1. q \in Upload /\ q.at = "spooled" /\ q.target = t /\ q.key = k
    BY DEF Upload
  <1>2. upload' = [upload EXCEPT ![u] = q] /\ UNCHANGED <<attachment, object, leftover, reclaim, comment, served, shared>>
    BY DEF receive_file
  <1> HIDE DEF q
  <1>3. upload' \in [Uploaders -> Upload] /\ \A v \in Uploaders : upload'[v] = IF v = u THEN q ELSE upload[v]
    BY <1>1, <1>2, FileParts
  <1>4. \A v \in Uploaders : UploadOK(upload[v])'
    BY <1>1, <1>2, <1>3, FileParts DEF UploadOK, Reclaiming
  <1>5. fileOps' \in 0 .. MaxFileOps
    BY FileRequested DEF receive_file
  <1>6. \A r \in {"gc", "purge"} : ReclaimOK(reclaim[r])'
    BY <1>2, FileParts DEF ReclaimOK, Rows
  <1>7. \A a \in Rows' : attachment'[a].key \in object' \cup shared'
    BY <1>2, FileParts DEF Rows
  <1> QED
    BY <1>2, <1>3, <1>4, <1>5, <1>6, <1>7, FileParts, FileFromParts

LEMMA FileUploadFails ==
    ASSUME FileInv, NEW u \in Uploaders, UploadFails(u)
    PROVE  FileInv'
  <1>1. upload' = [upload EXCEPT ![u] = NoUpload] /\ UNCHANGED <<attachment, object, leftover, reclaim, comment, served, shared, fileOps>>
    BY DEF UploadFails
  <1>2. upload' \in [Uploaders -> Upload] /\ \A v \in Uploaders : upload'[v] = IF v = u THEN NoUpload ELSE upload[v]
    BY <1>1, FileParts, NoUploadIsFine
  <1>3. \A v \in Uploaders : UploadOK(upload[v])'
    BY <1>1, <1>2, FileParts, NoUploadIsFine DEF UploadOK, Reclaiming
  <1>4. \A r \in {"gc", "purge"} : ReclaimOK(reclaim[r])'
    BY <1>1, FileParts DEF ReclaimOK, Rows
  <1>5. \A a \in Rows' : attachment'[a].key \in object' \cup shared'
    BY <1>1, FileParts DEF Rows
  <1> QED
    BY <1>1, <1>2, <1>3, <1>4, <1>5, FileParts, FileFromParts

\* The object is there from now on; if someone is about to remove it, the
\* history says so.
LEMMA FileAdopted ==
    ASSUME FileInv, NEW u \in Uploaders, adopt(u)
    PROVE  FileInv'
  <1> PICK q \in Upload : q = upload[u] /\ UploadOK(q)
    BY FileParts
  <1> DEFINE n == [q EXCEPT !.at = "adopted"]
  <1>1. q.at = "spooled" /\ q.key \in Keys /\ q.target \in FileTargets
    BY DEF adopt, UploadOK
  <1>2. n \in Upload /\ n.at = "adopted" /\ n.key = q.key /\ n.target = q.target
    BY DEF Upload
  <1>3. /\ object' = object \cup {q.key} /\ upload' = [upload EXCEPT ![u] = n]
        /\ shared' = shared \cup ({q.key} \cap Reclaiming) /\ UNCHANGED <<attachment, leftover, reclaim, comment, served, fileOps>>
    BY FileParts DEF adopt, put_file
  <1> HIDE DEF n
  <1>4. /\ upload' \in [Uploaders -> Upload] /\ \A v \in Uploaders : upload'[v] = IF v = u THEN n ELSE upload[v]
        /\ object \subseteq object' /\ object' \subseteq Keys /\ shared \subseteq shared' /\ shared' \subseteq Keys
        /\ Reclaiming' = Reclaiming
    BY <1>1, <1>2, <1>3, FileParts DEF Reclaiming
  <1>5. \A v \in Uploaders : UploadOK(upload[v])'
    BY <1>1, <1>2, <1>3, <1>4, FileParts DEF UploadOK
  <1>6. \A r \in {"gc", "purge"} : ReclaimOK(reclaim[r])'
    BY <1>3, <1>4, FileParts DEF ReclaimOK, Rows
  <1>7. \A a \in Rows' : attachment'[a].key \in object' \cup shared'
    BY <1>3, <1>4, FileParts DEF Rows
  <1> QED
    BY <1>3, <1>4, <1>5, <1>6, <1>7, FileParts, FileFromParts

\* The row follows its object: nobody is about to remove that.
LEMMA FileRecorded ==
    ASSUME FileInv, NEW u \in Uploaders, store_and_record(u)
    PROVE  FileInv'
  <1> PICK q \in Upload : q = upload[u] /\ UploadOK(q)
    BY FileParts
  <1> DEFINE row == [target |-> q.target, key |-> q.key, st |-> "live"]
  <1>1. q.at = "adopted" /\ q.key \in Keys /\ q.target \in FileTargets
    BY DEF store_and_record, UploadOK
  <1>2. row \in Attachment /\ row.key = q.key
    BY <1>1 DEF Attachment
  <1>3. PICK a \in FileIds \ Rows : attachment' = [attachment EXCEPT ![a] = row]
    BY DEF store_and_record
  <1>4. upload' = [upload EXCEPT ![u] = NoUpload] /\ UNCHANGED <<object, leftover, reclaim, comment, served, shared, fileOps>>
    BY DEF store_and_record
  <1> HIDE DEF row
  <1>5. /\ upload' \in [Uploaders -> Upload] /\ \A v \in Uploaders : upload'[v] = IF v = u THEN NoUpload ELSE upload[v]
        /\ attachment' \in [FileIds -> Attachment \cup {NoFile}]
        /\ \A b \in FileIds : attachment'[b] = IF b = a THEN row ELSE attachment[b]
    BY <1>2, <1>3, <1>4, FileParts, NoUploadIsFine
  <1>6. \A v \in Uploaders : UploadOK(upload[v])'
    BY <1>4, <1>5, FileParts, NoUploadIsFine DEF UploadOK, Reclaiming
  <1>7. \A b \in Rows' : b = a \/ (b \in Rows /\ attachment'[b] = attachment[b])
    BY <1>5 DEF Rows
  <1>8. q.key \in object \cup shared /\ \A r \in {"gc", "purge"} : q.key \in reclaim[r].keys => q.key \in shared
    BY <1>1, FileParts DEF UploadOK, Reclaiming
  <1>9. \A r \in {"gc", "purge"} : ReclaimOK(reclaim[r])'
    BY <1>2, <1>4, <1>5, <1>7, <1>8, FileParts DEF ReclaimOK
  <1>10. \A b \in Rows' : attachment'[b].key \in object' \cup shared'
    BY <1>2, <1>4, <1>5, <1>7, <1>8, FileParts
  <1> QED
    BY <1>4, <1>5, <1>6, <1>9, <1>10, FileParts, FileFromParts

\* Rows go, or keep their key: neither takes an object from a row.
LEMMA FileRowsRestated ==
    ASSUME FileInv, attachment' \in [FileIds -> Attachment \cup {NoFile}],
           \A a \in Rows' : a \in Rows /\ attachment'[a].key = attachment[a].key,
           fileOps' \in 0 .. MaxFileOps, comment' \in {"live", "deleted", "gone"},
           UNCHANGED <<object, upload, leftover, reclaim, served, shared>>
    PROVE  FileInv'
  <1>1. \A v \in Uploaders : UploadOK(upload[v])'
    BY FileParts DEF UploadOK, Reclaiming
  <1>2. \A r \in {"gc", "purge"} : ReclaimOK(reclaim[r])'
    BY FileParts DEF ReclaimOK
  <1>3. \A a \in Rows' : attachment'[a].key \in object' \cup shared'
    BY FileParts
  <1> QED
    BY <1>1, <1>2, <1>3, FileParts, FileFromParts

LEMMA RowsSoftDeleted ==
    ASSUME FileInv, NEW S, S \subseteq Rows, soft_delete_rows(S)
    PROVE  /\ attachment' \in [FileIds -> Attachment \cup {NoFile}]
           /\ \A a \in Rows' : a \in Rows /\ attachment'[a].key = attachment[a].key /\ attachment'[a].target = attachment[a].target
                               /\ (attachment'[a].st = "live" => a \notin S /\ attachment[a].st = "live")
  <1>1. \A a \in Rows : /\ [attachment[a] EXCEPT !.st = "deleted"] \in Attachment
                        /\ [attachment[a] EXCEPT !.st = "deleted"].key = attachment[a].key
                        /\ [attachment[a] EXCEPT !.st = "deleted"].target = attachment[a].target
                        /\ [attachment[a] EXCEPT !.st = "deleted"].st = "deleted"
    BY FileParts DEF Attachment
  <1>2. \A a \in FileIds : attachment'[a] = IF a \in S THEN [attachment[a] EXCEPT !.st = "deleted"] ELSE attachment[a]
    BY DEF soft_delete_rows
  <1>3. attachment' \in [FileIds -> Attachment \cup {NoFile}]
    BY <1>1, FileParts DEF soft_delete_rows
  <1>4. ASSUME NEW a \in Rows' PROVE a \in FileIds /\ a \in Rows
    BY <1>2, <1>4 DEF Rows
  <1> QED
    BY <1>1, <1>2, <1>3, <1>4

LEMMA FileDeleted ==
    ASSUME FileInv, NEW u \in Uploaders, NEW a \in FileIds, delete_attachment(u, a)
    PROVE  FileInv'
  <1>1. soft_delete_rows({a}) /\ {a} \subseteq Rows /\ fileOps' \in 0 .. MaxFileOps
    BY FileRequested DEF delete_attachment, LiveFiles
  <1>2. UNCHANGED <<object, upload, leftover, reclaim, comment, served, shared>>
    BY DEF delete_attachment
  <1> QED
    BY <1>1, <1>2, RowsSoftDeleted, FileRowsRestated, FileParts

LEMMA FileCommentDeleted ==
    ASSUME FileInv, NEW u \in Uploaders, delete_comment(u)
    PROVE  FileInv'
  <1>1. fileOps' \in 0 .. MaxFileOps /\ comment' = "deleted" /\ UNCHANGED <<object, upload, leftover, reclaim, served, shared>>
    BY FileRequested DEF delete_comment
  <1>2. CASE attachment' = attachment
    BY <1>1, <1>2, FileRowsRestated, FileParts DEF Rows
  <1>3. CASE soft_delete_for_target(TheComment)
    <2> DEFINE S == {a \in LiveFiles : attachment[a].target = TheComment}
    <2>1. soft_delete_rows(S) /\ S \subseteq Rows
      BY <1>3 DEF soft_delete_for_target, LiveFiles
    <2> HIDE DEF S
    <2> QED
      BY <1>1, <2>1, RowsSoftDeleted, FileRowsRestated
  <1> QED
    BY <1>2, <1>3 DEF delete_comment

LEMMA FileGracePasses ==
    ASSUME FileInv, GracePasses
    PROVE  FileInv'
  <1>1. \A a \in Rows : /\ [attachment[a] EXCEPT !.st = "expired"] \in Attachment
                        /\ [attachment[a] EXCEPT !.st = "expired"].key = attachment[a].key
    BY FileParts DEF Attachment
  <1>2. /\ attachment' = [a \in FileIds |->
               IF a \in Rows /\ attachment[a].st = "deleted" THEN [attachment[a] EXCEPT !.st = "expired"] ELSE attachment[a]]
        /\ UNCHANGED <<object, upload, leftover, reclaim, comment, served, shared, fileOps>>
    BY DEF GracePasses
  <1>3. attachment' \in [FileIds -> Attachment \cup {NoFile}]
    BY <1>1, <1>2, FileParts
  <1>4. ASSUME NEW a \in Rows' PROVE a \in Rows /\ attachment'[a].key = attachment[a].key
    BY <1>1, <1>2, <1>4 DEF Rows
  <1> QED
    BY <1>2, <1>3, <1>4, FileRowsRestated, FileParts

\* A reclaimer gets new keys.  Uploads of one of them that have their object
\* already go into the history; at the objects, no row uses the keys.
LEMMA FileReclaims ==
    ASSUME FileInv, NEW r \in {"gc", "purge"}, NEW c \in [at : {"idle", "rows", "objects"}, keys : SUBSET Keys],
           reclaim' = [reclaim EXCEPT ![r] = c],
           attachment' \in [FileIds -> Attachment \cup {NoFile}], \A a \in Rows' : a \in Rows /\ attachment'[a] = attachment[a],
           NEW added \in SUBSET Keys, c.keys \subseteq reclaim[r].keys \cup added, shared' = shared \cup (added \cap Adopting),
           c.at = "objects" => \A a \in Rows' : attachment'[a].key \in c.keys => attachment'[a].key \in shared,
           fileOps' \in 0 .. MaxFileOps, comment' \in {"live", "deleted", "gone"},
           UNCHANGED <<object, upload, leftover, served>>
    PROVE  FileInv'
  <1>1. /\ reclaim' \in [{"gc", "purge"} -> [at : {"idle", "rows", "objects"}, keys : SUBSET Keys]]
        /\ \A s \in {"gc", "purge"} : reclaim'[s] = IF s = r THEN c ELSE reclaim[s]
        /\ shared \subseteq shared' /\ shared' \subseteq Keys
    BY FileParts
  <1>2. Reclaiming' \subseteq Reclaiming \cup added
    BY <1>1, FileParts DEF Reclaiming
  <1>3. ASSUME NEW u \in Uploaders PROVE UploadOK(upload[u])'
    <2>1. upload[u].at = "adopted" => upload[u].key \in Adopting
      BY DEF Adopting
    <2> QED
      BY <1>1, <1>2, <2>1, FileParts DEF UploadOK
  <1>4. \A s \in {"gc", "purge"} : ReclaimOK(reclaim[s])'
    BY <1>1, FileParts DEF ReclaimOK
  <1>5. \A a \in Rows' : attachment'[a].key \in object' \cup shared'
    BY <1>1, FileParts
  <1> QED
    BY <1>1, <1>3, <1>4, <1>5, FileParts, FileFromParts

\* Rows that are removed leave the others as they are.
LEMMA RowsRemoved ==
    ASSUME FileInv, NEW S, S \subseteq Rows, attachment' = [a \in FileIds |-> IF a \in S THEN NoFile ELSE attachment[a]]
    PROVE  /\ attachment' \in [FileIds -> Attachment \cup {NoFile}] /\ Rows' = Rows \ S /\ KeysOf(S) \in SUBSET Keys
           /\ \A a \in Rows' : a \in Rows /\ attachment'[a] = attachment[a]
  <1>1. attachment' \in [FileIds -> Attachment \cup {NoFile}]
    BY FileParts
  <1>2. Rows' = Rows \ S /\ \A a \in Rows' : a \in Rows /\ attachment'[a] = attachment[a]
    BY DEF Rows
  <1>3. KeysOf(S) \in SUBSET Keys
    BY FileParts DEF KeysOf
  <1> QED
    BY <1>1, <1>2, <1>3

LEMMA FileGcRows ==
    ASSUME FileInv, gc_rows
    PROVE  FileInv'
  <1> DEFINE S == {a \in Rows : attachment[a].st = "expired"}
             c == [at |-> "rows", keys |-> KeysOf(S)]
  <1>1. /\ S \subseteq Rows /\ attachment' = [a \in FileIds |-> IF a \in S THEN NoFile ELSE attachment[a]]
        /\ reclaim' = [reclaim EXCEPT !["gc"] = c] /\ shared' = shared \cup (KeysOf(S) \cap Adopting)
        /\ UNCHANGED <<object, upload, leftover, comment, served, fileOps>>
    BY DEF gc_rows
  <1> HIDE DEF S
  <1>2. /\ attachment' \in [FileIds -> Attachment \cup {NoFile}] /\ KeysOf(S) \in SUBSET Keys
        /\ \A a \in Rows' : a \in Rows /\ attachment'[a] = attachment[a]
    BY <1>1, RowsRemoved
  <1>3. c \in [at : {"idle", "rows", "objects"}, keys : SUBSET Keys] /\ c.at = "rows" /\ c.keys = KeysOf(S)
    BY <1>2
  <1> HIDE DEF c
  <1> QED
    BY <1>1, <1>2, <1>3, FileParts, FileReclaims

LEMMA FileGcOrphans ==
    ASSUME FileInv, gc_orphans
    PROVE  FileInv'
  <1> DEFINE c == [at |-> "objects", keys |-> reclaim["gc"].keys \ KeysOf(Rows)]
  <1>1. reclaim' = [reclaim EXCEPT !["gc"] = c] /\ UNCHANGED <<attachment, object, upload, leftover, comment, served, shared, fileOps>>
    BY FileParts DEF gc_orphans, orphan_storage_keys
  <1>2. c \in [at : {"idle", "rows", "objects"}, keys : SUBSET Keys] /\ c.at = "objects" /\ c.keys = reclaim["gc"].keys \ KeysOf(Rows)
    BY FileParts
  <1> HIDE DEF c
  <1>3. \A a \in Rows : attachment[a].key \notin c.keys
    BY <1>2 DEF KeysOf
  <1>4. Rows' = Rows /\ shared' = shared \cup ({} \cap Adopting)
    BY <1>1 DEF Rows
  <1>5. {} \in SUBSET Keys /\ c.keys \subseteq reclaim["gc"].keys \cup {} /\ "gc" \in {"gc", "purge"}
    BY <1>2
  <1>6. /\ attachment' \in [FileIds -> Attachment \cup {NoFile}] /\ \A a \in Rows' : a \in Rows /\ attachment'[a] = attachment[a]
        /\ fileOps' \in 0 .. MaxFileOps /\ comment' \in {"live", "deleted", "gone"}
        /\ \A a \in Rows' : attachment'[a].key \notin c.keys
    BY <1>1, <1>3, <1>4, FileParts
  <1> QED
    BY <1>1, <1>2, <1>4, <1>5, <1>6, FileReclaims

LEMMA FilePurged ==
    ASSUME FileInv, NEW u \in Uploaders, purge_issues(u)
    PROVE  FileInv'
  <1> DEFINE S == {a \in Rows : attachment[a].target = TheIssue}
             c == [at |-> "objects", keys |-> KeysOf(S) \ KeysOf(Rows \ S)]
  <1>1. /\ S \subseteq Rows /\ attachment' = [a \in FileIds |-> IF a \in S THEN NoFile ELSE attachment[a]]
        /\ reclaim' = [reclaim EXCEPT !["purge"] = c] /\ shared' = shared \cup (KeysOf(S) \cap Adopting)
        /\ comment' = "gone" /\ UNCHANGED <<object, upload, leftover, served>>
    BY DEF purge_issues, orphan_storage_keys
  <1>2. fileOps' \in 0 .. MaxFileOps
    BY FileRequested DEF purge_issues
  <1> HIDE DEF S
  <1>3. /\ attachment' \in [FileIds -> Attachment \cup {NoFile}] /\ KeysOf(S) \in SUBSET Keys /\ Rows' = Rows \ S
        /\ \A a \in Rows' : a \in Rows /\ attachment'[a] = attachment[a]
    BY <1>1, RowsRemoved
  <1>4. c \in [at : {"idle", "rows", "objects"}, keys : SUBSET Keys] /\ c.at = "objects" /\ c.keys = KeysOf(S) \ KeysOf(Rows \ S)
    BY <1>3
  <1> HIDE DEF c
  <1>5. \A a \in Rows' : attachment'[a].key \notin c.keys
    BY <1>3, <1>4 DEF KeysOf
  <1> QED
    BY <1>1, <1>2, <1>3, <1>4, <1>5, FileParts, FileReclaims

\* An object is removed for a key that no row uses.
LEMMA FileObjectDeleted ==
    ASSUME FileInv, NEW r \in {"gc", "purge"}, NEW k \in Keys, delete_object(r, k)
    PROVE  FileInv'
  <1> PICK c \in [at : {"idle", "rows", "objects"}, keys : SUBSET Keys] : c = reclaim[r] /\ ReclaimOK(c)
    BY FileParts
  <1> DEFINE n == [c EXCEPT !.keys = c.keys \ {k}]
  <1>1. c.at = "objects" /\ k \in c.keys
    BY DEF delete_object
  <1>2. n \in [at : {"idle", "rows", "objects"}, keys : SUBSET Keys] /\ n.at = "objects" /\ n.keys = c.keys \ {k}
    BY <1>1
  <1>3. /\ reclaim' = [reclaim EXCEPT ![r] = n] /\ object' \subseteq object /\ object \ {k} \subseteq object'
        /\ UNCHANGED <<attachment, upload, leftover, comment, served, shared, fileOps>>
    BY FileParts DEF delete_object
  <1> HIDE DEF n
  <1>4. /\ reclaim' \in [{"gc", "purge"} -> [at : {"idle", "rows", "objects"}, keys : SUBSET Keys]]
        /\ \A s \in {"gc", "purge"} : reclaim'[s] = IF s = r THEN n ELSE reclaim[s]
        /\ object' \subseteq Keys
    BY <1>2, <1>3, FileParts
  <1>5. Reclaiming' \subseteq Reclaiming /\ k \in Reclaiming
    BY <1>1, <1>2, <1>4, FileParts DEF Reclaiming
  <1>6. \A u \in Uploaders : UploadOK(upload[u])'
    BY <1>3, <1>5, FileParts DEF UploadOK
  <1>7. \A s \in {"gc", "purge"} : ReclaimOK(reclaim[s])'
    <2>1. Rows' = Rows /\ attachment' = attachment /\ shared' = shared
      BY <1>3 DEF Rows
    <2>2. n.keys \subseteq c.keys /\ c.at = "objects"
      BY <1>1, <1>2
    <2>3. \A a \in Rows : attachment[a].key \in c.keys => attachment[a].key \in shared
      BY <2>2 DEF ReclaimOK
    <2>4. ASSUME NEW s \in {"gc", "purge"}, s # r PROVE ReclaimOK(reclaim[s])'
      BY <1>4, <2>1, <2>4, FileParts DEF ReclaimOK
    <2>5. ReclaimOK(reclaim[r])'
      BY <1>4, <2>1, <2>2, <2>3 DEF ReclaimOK
    <2> QED
      BY <2>4, <2>5
  <1>8. \A a \in Rows' : attachment'[a].key \in object' \cup shared'
    BY <1>1, <1>3, FileParts DEF ReclaimOK, Rows
  <1> QED
    BY <1>3, <1>4, <1>6, <1>7, <1>8, FileParts, FileFromParts

LEMMA FileGcDone ==
    ASSUME FileInv, NEW r \in {"gc", "purge"}, run_gc(r)
    PROVE  FileInv'
  <1> PICK c \in [at : {"idle", "rows", "objects"}, keys : SUBSET Keys] : c = reclaim[r]
    BY FileParts
  <1> DEFINE n == [c EXCEPT !.at = "idle"]
  <1>1. n \in [at : {"idle", "rows", "objects"}, keys : SUBSET Keys] /\ n.at = "idle" /\ n.keys = c.keys
    OBVIOUS
  <1>2. reclaim' = [reclaim EXCEPT ![r] = n] /\ UNCHANGED <<attachment, object, upload, leftover, comment, served, shared, fileOps>>
    BY FileParts DEF run_gc
  <1> HIDE DEF n
  <1>3. {} \in SUBSET Keys /\ n.keys \subseteq reclaim[r].keys \cup {} /\ shared' = shared \cup ({} \cap Adopting)
    BY <1>1, <1>2
  <1>4. /\ attachment' \in [FileIds -> Attachment \cup {NoFile}] /\ \A a \in Rows' : a \in Rows /\ attachment'[a] = attachment[a]
        /\ fileOps' \in 0 .. MaxFileOps /\ comment' \in {"live", "deleted", "gone"}
    BY <1>2, FileParts DEF Rows
  <1> QED
    BY <1>1, <1>2, <1>3, <1>4, FileReclaims

LEMMA FileStops ==
    ASSUME FileInv, Stop
    PROVE  FileInv'
  <1>1. /\ upload' = [u \in Uploaders |-> NoUpload] /\ reclaim' = [r \in DOMAIN reclaim |-> [at |-> "idle", keys |-> {}]]
        /\ UNCHANGED <<attachment, object, comment, served, shared>>
    BY DEF Stop
  <1>2. leftover' \in Nat
    <2> DEFINE S == {u \in Uploaders : upload[u].at = "spooled"}
    <2>1. IsFiniteSet(S) /\ leftover' = leftover + Cardinality(S)
      BY FilesAssumption, FS_Subset DEF Stop
    <2>2. Cardinality(S) \in Nat
      BY <2>1, FS_CardinalityType
    <2> HIDE DEF S
    <2> QED
      BY <2>1, <2>2, FileParts
  <1>3. fileOps' \in 0 .. MaxFileOps
    BY FileParts, FilesAssumption DEF Stop
  <1>4. upload' \in [Uploaders -> Upload] /\ \A u \in Uploaders : UploadOK(upload[u])'
    BY <1>1, NoUploadIsFine DEF UploadOK
  <1>5. /\ reclaim' \in [{"gc", "purge"} -> [at : {"idle", "rows", "objects"}, keys : SUBSET Keys]]
        /\ \A r \in {"gc", "purge"} : reclaim'[r].at = "idle"
    BY <1>1, FileParts
  <1>6. \A r \in {"gc", "purge"} : ReclaimOK(reclaim[r])'
    BY <1>5 DEF ReclaimOK
  <1>7. \A a \in Rows' : attachment'[a].key \in object' \cup shared'
    BY <1>1, FileParts DEF Rows
  <1> QED
    BY <1>1, <1>2, <1>3, <1>4, <1>5, <1>6, <1>7, FileParts, FileFromParts

\* The range a download answers with lies within the object.
LEMMA RangeIsWithin ==
    ASSUME NEW from \in Nat \cup {-1}, NEW to \in Nat \cup {-1}, NEW size \in Nat, NEW x \in parse_range(from, to, size)
    PROVE  x.start >= 0 /\ x.len >= 0 /\ x.start + x.len <= x.size
  <1>1. CASE from = -1
    <2>1. to > 0 /\ size > 0 /\ x = [size |-> size, start |-> IF to >= size THEN 0 ELSE size - to,
                                     len |-> (size - 1) - (IF to >= size THEN 0 ELSE size - to) + 1]
      BY <1>1 DEF parse_range
    <2> QED
      BY <2>1
  <1>2. CASE from # -1 /\ to # -1 /\ to < from
    <2>1. x = [size |-> size, start |-> 0, len |-> size]
      BY <1>2 DEF parse_range, Full
    <2> QED
      BY <2>1
  <1>3. CASE from # -1 /\ ~(to # -1 /\ to < from)
    <2>1. from < size /\ x = [size |-> size, start |-> from,
                              len |-> (IF to = -1 \/ to >= size THEN size - 1 ELSE to) - from + 1]
      BY <1>3 DEF parse_range
    <2> QED
      BY <2>1, <1>3
  <1> QED
    BY <1>1, <1>2, <1>3

LEMMA FileDownloaded ==
    ASSUME FileInv, NEW a \in FileIds, NEW size \in Sizes, NEW from \in Sizes \cup {-1}, NEW to \in Sizes \cup {-1},
           download(a, from, to, size)
    PROVE  FileInv'
  <1>1. fileOps' \in 0 .. MaxFileOps
    BY FileParts, FilesAssumption DEF download
  <1>2. served' \in parse_range(from, to, size) /\ UNCHANGED <<attachment, object, upload, leftover, reclaim, comment, shared>>
    BY DEF download
  <1>3. served'.start >= 0 /\ served'.len >= 0 /\ served'.start + served'.len <= served'.size
    BY <1>2, FilesAssumption, RangeIsWithin
  <1>4. /\ \A u \in Uploaders : UploadOK(upload[u])'
        /\ \A r \in {"gc", "purge"} : ReclaimOK(reclaim[r])'
        /\ \A b \in Rows' : attachment'[b].key \in object' \cup shared'
    BY <1>2, FileParts DEF UploadOK, Reclaiming, ReclaimOK, Rows
  <1> QED
    BY <1>1, <1>2, <1>3, <1>4, FileParts, FileFromParts

LEMMA FileSwept ==
    ASSUME FileInv, sweep_staging
    PROVE  FileInv'
  <1>1. leftover' = 0 /\ UNCHANGED <<attachment, object, upload, reclaim, comment, served, shared, fileOps>>
    BY DEF sweep_staging
  <1>2. /\ \A u \in Uploaders : UploadOK(upload[u])'
        /\ \A r \in {"gc", "purge"} : ReclaimOK(reclaim[r])'
        /\ \A b \in Rows' : attachment'[b].key \in object' \cup shared'
    BY <1>1, FileParts DEF UploadOK, Reclaiming, ReclaimOK, Rows
  <1> QED
    BY <1>1, <1>2, FileParts, FileFromParts

LEMMA FileStutters ==
    ASSUME FileInv, UNCHANGED fileVars
    PROVE  FileInv'
  BY DEF fileVars, FileInv, FileTypeOK, RowHasObject, UploadOK, Reclaiming, ReclaimOK, Rows

LEMMA FileInvStep == FileInv /\ [FileNext]_fileVars => FileInv'
  <1> SUFFICES ASSUME FileInv, [FileNext]_fileVars PROVE FileInv'
    OBVIOUS
  <1>1. ASSUME NEW u \in Uploaders,
               \/ \E t \in {TheIssue, TheComment}, k \in Keys : receive_file(u, t, k)
               \/ UploadFails(u) \/ adopt(u) \/ store_and_record(u)
               \/ \E a \in FileIds : delete_attachment(u, a)
               \/ delete_comment(u) \/ purge_issues(u)
        PROVE  FileInv'
    BY <1>1, FilesAssumption, FileReceived, FileUploadFails, FileAdopted, FileRecorded, FileDeleted, FileCommentDeleted,
       FilePurged
  <1>2. CASE Collector \/ run_gc("purge") \/ \E k \in Keys : delete_object("purge", k)
    BY <1>2, FileGcRows, FileGcOrphans, FileGcDone, FileObjectDeleted DEF Collector
  <1> QED
    BY <1>1, <1>2, FileDownloaded, FileGracePasses, FileSwept, FileStops, FileStutters DEF FileNext

LEMMA FileInvariant == FileSpec => []FileInv
  BY FileInvInit, FileInvStep, PTL DEF FileSpec

\* The rows, objects, uploads and reclaimers keep their types, and a download
\* never answers with a range outside its object.
THEOREM FileTypeCorrect == FileSpec => []FileTypeOK
  <1>1. FileInv => FileTypeOK
    BY DEF FileInv
  <1> QED
    BY <1>1, FileInvariant, PTL

\* Neither the collector nor a purge takes the object of a row (run_gc,
\* purge_issues), however uploads, deletions, stops and the two reclaimers
\* interleave, unless the same content was being uploaded at that very time.
THEOREM RowsHaveObjects == FileSpec => []RowHasObject
  <1>1. FileInv => RowHasObject
    BY DEF FileInv
  <1> QED
    BY <1>1, FileInvariant, PTL
-----------------------------------------------------------------------------
(* Meetings.                                                               *)

Req == [at : {"idle", "create", "update", "add", "remove", "text"}, seen : MeetingRow, new : MeetingRow, relink : BOOLEAN]

\* The meeting is the row the handler read, but for links whose target went.
IsRead(m) ==
    /\ meeting.text = m.text /\ meeting.start = m.start /\ meeting.end = m.end
    /\ meeting.links \subseteq m.links /\ \A t \in m.links \ meeting.links : topic[t] = "gone"

\* A meeting is created once; a version stands for one text, one pair of
\* times and one set of links.
ReqOK(u) ==
    /\ times_ok(mreq[u].new.start, mreq[u].new.end)
    /\ mreq[u].at = "create" => /\ meeting.st = "none" /\ mreq[u].new.st = "live"
                                /\ \A v \in Uploaders \ {u} : mreq[v].at # "create"
    /\ mreq[u].at = "update" => /\ meeting.st # "none" /\ mreq[u].new.st = "live" /\ mreq[u].new.ver = mreq[u].seen.ver
                                /\ mreq[u].seen.ver <= meeting.ver
                                /\ mreq[u].seen.ver = meeting.ver => IsRead(mreq[u].seen)

\* Uploads to a deleted meeting are those it was deleted under.
LateOK ==
    meeting.st = "deleted" => \A u \in Uploaders : upload[u].target = TheMeeting => u \in overtaken

MeetingInv ==
    /\ FileInv /\ MeetingTypeOK /\ FilesDieWithMeeting /\ LateOK
    /\ mreq \in [Uploaders -> Req] /\ \A u \in Uploaders : ReqOK(u)

LEMMA MeetingParts ==
    ASSUME MeetingInv
    PROVE  /\ FileInv /\ FilesDieWithMeeting /\ LateOK /\ meeting \in MeetingRow /\ times_ok(meeting.start, meeting.end)
           /\ topic \in [Topics -> {"valid", "deleted", "gone"}] /\ mreq \in [Uploaders -> Req]
           /\ importing \subseteq Uploaders /\ overtaken \subseteq Uploaders /\ lateFiles \subseteq FileIds
           /\ \A u \in Uploaders : ReqOK(u)
  BY DEF MeetingInv, MeetingTypeOK

LEMMA MeetingFromParts ==
    ASSUME FileInv', FilesDieWithMeeting', LateOK', meeting' \in MeetingRow, times_ok(meeting'.start, meeting'.end),
           topic' \in [Topics -> {"valid", "deleted", "gone"}], mreq' \in [Uploaders -> Req],
           importing' \subseteq Uploaders, overtaken' \subseteq Uploaders, lateFiles' \subseteq FileIds,
           \A u \in Uploaders : ReqOK(u)'
    PROVE  MeetingInv'
  <1>1. \A u \in Uploaders : /\ mreq'[u].at \in {"idle", "create", "update", "add", "remove", "text"}
                             /\ {mreq'[u].seen, mreq'[u].new} \subseteq MeetingRow /\ mreq'[u].relink \in BOOLEAN
    BY DEF Req
  <1>2. MeetingTypeOK'
    BY <1>1 DEF MeetingTypeOK, times_ok
  <1> QED
    BY <1>2 DEF MeetingInv

LEMMA NoReqIsFine ==
    /\ NoMeeting \in MeetingRow /\ NoMeeting.st = "none" /\ times_ok(NoMeeting.start, NoMeeting.end)
    /\ NoReq \in Req /\ NoReq.at = "idle" /\ NoReq.new = NoMeeting
  <1>1. NoMeeting \in MeetingRow /\ NoMeeting.st = "none" /\ times_ok(NoMeeting.start, NoMeeting.end)
    BY MeetingsAssumption DEF NoMeeting, MeetingRow, times_ok
  <1>2. ASSUME NEW b \in BOOLEAN
        PROVE  [at |-> "idle", seen |-> NoMeeting, new |-> NoMeeting, relink |-> b] \in Req
    <2>1. "idle" \in {"idle", "create", "update", "add", "remove", "text"}
      OBVIOUS
    <2> QED
      BY <1>1, <2>1, Zenon DEF Req
  <1>3. NoReq \in Req
    BY <1>2, Zenon DEF NoReq
  <1>4. NoReq.at = "idle" /\ NoReq.new = NoMeeting
    BY DEF NoReq
  <1> QED
    BY <1>1, <1>3, <1>4

LEMMA MeetingInvInit == MeetingInit => MeetingInv
  <1> SUFFICES ASSUME MeetingInit PROVE MeetingInv
    OBVIOUS
  <1>1. FileInv /\ LiveFiles = {}
    BY FileInvInit DEF MeetingInit, FileInit, LiveFiles, Rows
  <1>2. meeting \in MeetingRow /\ times_ok(meeting.start, meeting.end) /\ meeting.st # "deleted"
    <2>1. CASE meeting = NoMeeting
      BY <2>1, NoReqIsFine
    <2>2. CASE meeting = [NoMeeting EXCEPT !.st = "live", !.ver = 1]
      <3>1. meeting = [st |-> "live", ver |-> 1, text |-> NoFile, start |-> 0, end |-> 0, links |-> {}]
        BY <2>2 DEF NoMeeting
      <3> QED
        BY <3>1, MeetingsAssumption DEF MeetingRow, times_ok
    <2> QED
      BY <2>1, <2>2 DEF MeetingInit
  <1>3. mreq \in [Uploaders -> Req] /\ \A u \in Uploaders : mreq[u] = NoReq
    BY NoReqIsFine DEF MeetingInit
  <1>4. \A u \in Uploaders : ReqOK(u)
    BY <1>3, NoReqIsFine DEF ReqOK
  <1>5. \A u \in Uploaders : /\ mreq[u].at \in {"idle", "create", "update", "add", "remove", "text"}
                             /\ {mreq[u].seen, mreq[u].new} \subseteq MeetingRow /\ mreq[u].relink \in BOOLEAN
    BY <1>3 DEF Req
  <1>6. MeetingTypeOK
    BY <1>2, <1>5 DEF MeetingTypeOK, MeetingInit
  <1> QED
    BY <1>1, <1>2, <1>3, <1>4, <1>6 DEF MeetingInv, FilesDieWithMeeting, LateOK

\* A write that passed its checks is on its way.
LEMMA MeetingRequested ==
    ASSUME MeetingInv, NEW u \in Uploaders, NEW rec \in Req, MeetingRequest(u, rec), times_ok(rec.new.start, rec.new.end),
           rec.at = "create" => meeting.st = "none" /\ rec.new.st = "live" /\ \A v \in Uploaders : mreq[v].at # "create",
           rec.at = "update" => meeting.st = "live" /\ rec.new.st = "live" /\ rec.new.ver = rec.seen.ver /\ rec.seen = meeting
    PROVE  MeetingInv'
  <1>1. /\ mreq' = [mreq EXCEPT ![u] = rec] /\ FileRequest(u)
        /\ UNCHANGED <<attachment, object, upload, leftover, reclaim, comment, served, shared, meeting, topic, importing,
                       overtaken, lateFiles>>
    BY DEF MeetingRequest
  <1>2. fileOps' \in 0 .. MaxFileOps /\ Rows' = Rows
    BY <1>1, FileRequested, MeetingParts DEF Rows
  <1>3. FileInv'
    BY <1>1, <1>2, FileRowsRestated, FileParts, MeetingParts
  <1>4. mreq' \in [Uploaders -> Req] /\ \A v \in Uploaders : mreq'[v] = IF v = u THEN rec ELSE mreq[v]
    BY <1>1, MeetingParts
  <1>5. meeting.ver \in Nat /\ IsRead(meeting)
    BY MeetingParts DEF MeetingRow, IsRead
  <1>6. \A v \in Uploaders : ReqOK(v)'
    BY <1>1, <1>4, <1>5, MeetingParts DEF ReqOK, IsRead
  <1>7. FilesDieWithMeeting' /\ LateOK'
    BY <1>1, <1>2, MeetingParts DEF FilesDieWithMeeting, LateOK, LiveFiles
  <1> QED
    BY <1>1, <1>3, <1>4, <1>6, <1>7, MeetingParts, MeetingFromParts

\* A version of the meeting is followed by the next one.
LEMMA MeetingWritten ==
    ASSUME MeetingInv, NEW u \in Uploaders, MeetingWrites(u), meeting' \in MeetingRow, times_ok(meeting'.start, meeting'.end),
           \/ meeting' = meeting
           \/ meeting.st = "live" /\ meeting'.st = "live" /\ meeting'.ver = meeting.ver + 1
           \/ meeting.st = "none" /\ meeting'.st = "live" /\ mreq[u].at = "create"
    PROVE  MeetingInv'
  <1>1. /\ mreq' = [mreq EXCEPT ![u] = NoReq]
        /\ UNCHANGED <<attachment, object, upload, leftover, reclaim, comment, served, shared, fileOps, topic, importing,
                       overtaken, lateFiles>>
    BY DEF MeetingWrites
  <1>2. FileInv' /\ Rows' = Rows
    BY <1>1, FileStutters, MeetingParts DEF fileVars, Rows
  <1>3. mreq' \in [Uploaders -> Req] /\ \A v \in Uploaders : mreq'[v] = IF v = u THEN NoReq ELSE mreq[v]
    BY <1>1, MeetingParts, NoReqIsFine
  <1>4. meeting.ver \in Nat
    BY MeetingParts DEF MeetingRow
  <1>5. ASSUME NEW v \in Uploaders PROVE ReqOK(v)'
    <2>1. CASE v = u
      BY <1>3, <2>1, NoReqIsFine DEF ReqOK
    <2>2. CASE v # u
      <3>1. mreq'[v] = mreq[v] /\ ReqOK(v) /\ mreq[v] \in Req /\ mreq[v].seen.ver \in Nat
        BY <1>3, <2>2, MeetingParts DEF Req, MeetingRow
      <3>2. CASE meeting' = meeting
        BY <1>1, <1>3, <3>1, <3>2, NoReqIsFine DEF ReqOK, IsRead
      <3>3. CASE meeting.st = "live" /\ meeting'.st = "live" /\ meeting'.ver = meeting.ver + 1
        BY <1>1, <1>3, <1>4, <3>1, <3>3, NoReqIsFine DEF ReqOK
      <3>4. CASE meeting.st = "none" /\ meeting'.st = "live" /\ mreq[u].at = "create"
        <4>1. mreq[v].at \notin {"create", "update"}
          BY <2>2, <3>1, <3>4, MeetingParts DEF ReqOK
        <4> QED
          BY <3>1, <4>1 DEF ReqOK
      <3> QED
        BY <3>2, <3>3, <3>4
    <2> QED
      BY <2>1, <2>2
  <1>6. FilesDieWithMeeting' /\ LateOK'
    BY <1>1, <1>2, MeetingParts DEF FilesDieWithMeeting, LateOK, LiveFiles
  <1> QED
    BY <1>1, <1>2, <1>3, <1>5, <1>6, MeetingParts, MeetingFromParts

\* The shape of a request.
LEMMA ReqFromParts ==
    ASSUME NEW at \in {"idle", "create", "update", "add", "remove", "text"}, NEW seen \in MeetingRow, NEW new \in MeetingRow,
           NEW b \in BOOLEAN
    PROVE  [at |-> at, seen |-> seen, new |-> new, relink |-> b] \in Req
  BY Zenon DEF Req

\* A request that read nothing.
Asked(at, new) == [NoReq EXCEPT !.at = at, !.new = new]

LEMMA ReqChanged ==
    ASSUME NEW at \in {"idle", "create", "update", "add", "remove", "text"}, NEW new \in MeetingRow
    PROVE  Asked(at, new) \in Req /\ Asked(at, new).at = at /\ Asked(at, new).new = new
  <1>1. ASSUME NEW q \in Req
        PROVE  /\ [q EXCEPT !.at = at, !.new = new] \in Req
               /\ [q EXCEPT !.at = at, !.new = new].at = at /\ [q EXCEPT !.at = at, !.new = new].new = new
    BY DEF Req
  <1> QED
    BY <1>1, NoReqIsFine DEF Asked

LEMMA MeetingCreateAsked ==
    ASSUME MeetingInv, NEW u \in Uploaders, NEW from \in Clock, NEW end \in Clock, NEW L \in SUBSET Topics,
           create_meeting(u, from, end, L)
    PROVE  MeetingInv'
  <1> DEFINE new == [st |-> "live", ver |-> 1, text |-> NoFile, start |-> from, end |-> end, links |-> L]
             rec == Asked("create", new)
  <1>1. new \in MeetingRow /\ new.st = "live" /\ times_ok(new.start, new.end)
    BY DEF create_meeting, MeetingRow, times_ok
  <1>2. MeetingRequest(u, rec) /\ meeting.st = "none" /\ \A v \in Uploaders : mreq[v].at # "create"
    BY DEF create_meeting, Asked
  <1> HIDE DEF new
  <1>3. rec \in Req /\ rec.at = "create" /\ rec.new = new
    BY <1>1, ReqChanged
  <1> HIDE DEF rec
  <1> QED
    BY <1>1, <1>2, <1>3, MeetingRequested

LEMMA MeetingUpdateAsked ==
    ASSUME MeetingInv, NEW u \in Uploaders, NEW k \in Keys, NEW from \in Clock, NEW end \in Clock, NEW L \in SUBSET Topics,
           NEW b \in BOOLEAN, update_meeting(u, k, from, end, L, b)
    PROVE  MeetingInv'
  <1> DEFINE new == [meeting EXCEPT !.text = k, !.start = from, !.end = end, !.links = L]
             rec == [at |-> "update", seen |-> meeting, new |-> new, relink |-> b]
  <1>1. meeting.st = "live" /\ meeting \in MeetingRow /\ times_ok(from, end)
    BY MeetingParts DEF update_meeting
  <1>2. new \in MeetingRow /\ new.st = "live" /\ new.ver = meeting.ver /\ times_ok(new.start, new.end)
    BY <1>1 DEF MeetingRow
  <1>3. MeetingRequest(u, rec)
    BY DEF update_meeting
  <1> HIDE DEF new
  <1>4. rec \in Req
    BY <1>1, <1>2, ReqFromParts
  <1>5. rec.at = "update" /\ rec.new = new /\ rec.seen = meeting
    OBVIOUS
  <1> HIDE DEF rec
  <1> QED
    BY <1>1, <1>2, <1>3, <1>4, <1>5, MeetingRequested

LEMMA MeetingToggleAsked ==
    ASSUME MeetingInv, NEW u \in Uploaders, NEW t \in Topics, NEW add \in BOOLEAN, toggle_link(u, t, add)
    PROVE  MeetingInv'
  <1> DEFINE new == [NoMeeting EXCEPT !.links = {t}]
             kind == IF add THEN "add" ELSE "remove"
             rec == Asked(kind, new)
  <1>1. new \in MeetingRow /\ times_ok(new.start, new.end)
    BY NoReqIsFine DEF MeetingRow
  <1>2. MeetingRequest(u, rec)
    <2>1. rec = [NoReq EXCEPT !.at = kind, !.new.links = {t}]
      BY NoReqIsFine DEF Asked
    <2> QED
      BY <2>1 DEF toggle_link
  <1>3. kind \in {"add", "remove"} /\ kind \in {"idle", "create", "update", "add", "remove", "text"}
    OBVIOUS
  <1> HIDE DEF new, kind
  <1>4. rec \in Req /\ rec.at = kind /\ rec.new = new
    BY <1>1, <1>3, ReqChanged
  <1> HIDE DEF rec
  <1> QED
    BY <1>1, <1>2, <1>3, <1>4, MeetingRequested

\* A row with another version, and other links or another text.
Relinked(m, v, L) == [m EXCEPT !.ver = v, !.links = L]
Rewritten(m, v, k) == [m EXCEPT !.text = k, !.ver = v]

LEMMA RowReplaced ==
    ASSUME NEW m \in MeetingRow, NEW v \in Nat
    PROVE  /\ \A L \in SUBSET Topics :
                /\ Relinked(m, v, L) \in MeetingRow /\ Relinked(m, v, L).st = m.st /\ Relinked(m, v, L).ver = v
                /\ Relinked(m, v, L).start = m.start /\ Relinked(m, v, L).end = m.end
           /\ \A k \in Keys \cup {NoFile} :
                /\ Rewritten(m, v, k) \in MeetingRow /\ Rewritten(m, v, k).st = m.st /\ Rewritten(m, v, k).ver = v
                /\ Rewritten(m, v, k).start = m.start /\ Rewritten(m, v, k).end = m.end
  BY DEF MeetingRow, Relinked, Rewritten

LEMMA MeetingCreated ==
    ASSUME MeetingInv, NEW u \in Uploaders, create_tx(u)
    PROVE  MeetingInv'
  <1>1. MeetingWrites(u) /\ mreq[u].at = "create" /\ (meeting' = mreq[u].new \/ meeting' = meeting)
    BY DEF create_tx
  <1>2. /\ mreq[u].new \in MeetingRow /\ times_ok(mreq[u].new.start, mreq[u].new.end) /\ mreq[u].new.st = "live"
        /\ meeting.st = "none"
    BY <1>1, MeetingParts DEF ReqOK, Req
  <1> QED
    BY <1>1, <1>2, MeetingWritten, MeetingParts

LEMMA MeetingUpdated ==
    ASSUME MeetingInv, NEW u \in Uploaders, update_tx(u)
    PROVE  MeetingInv'
  <1>1. MeetingWrites(u) /\ mreq[u].at = "update"
    BY DEF update_tx
  <1>2. CASE meeting' = meeting
    BY <1>1, <1>2, MeetingWritten, MeetingParts
  <1>3. CASE meeting' # meeting
    <2> PICK q \in Req : q = mreq[u]
      BY MeetingParts
    <2> DEFINE L == replace_links(q)
    <2>1. L \in SUBSET Topics
      BY MeetingParts DEF replace_links, Req, MeetingRow
    <2>2. /\ meeting.st = "live" /\ q.new \in MeetingRow /\ q.new.st = "live" /\ times_ok(q.new.start, q.new.end)
          /\ q.new.ver = meeting.ver
      BY <1>1, <1>3, MeetingParts DEF update_tx, ReqOK, Req
    <2> DEFINE ver == q.new.ver + 1
    <2>3. meeting' = Relinked(q.new, ver, L)
      BY <1>3 DEF update_tx, Relinked
    <2>v. ver \in Nat /\ ver = meeting.ver + 1
      BY <2>2 DEF MeetingRow
    <2> HIDE DEF L, ver
    <2>4. /\ meeting' \in MeetingRow /\ meeting'.st = "live" /\ meeting'.ver = ver
          /\ meeting'.start = q.new.start /\ meeting'.end = q.new.end
      BY <2>1, <2>2, <2>3, <2>v, RowReplaced
    <2>5. times_ok(meeting'.start, meeting'.end) /\ meeting'.ver = meeting.ver + 1
      BY <2>2, <2>4, <2>v
    <2> QED
      BY <1>1, <2>2, <2>4, <2>5, MeetingWritten
  <1> QED
    BY <1>2, <1>3

LEMMA MeetingToggled ==
    ASSUME MeetingInv, NEW u \in Uploaders, toggle_tx(u)
    PROVE  MeetingInv'
  <1>1. MeetingWrites(u)
    BY DEF toggle_tx
  <1>2. CASE meeting' = meeting
    BY <1>1, <1>2, MeetingWritten, MeetingParts
  <1>3. CASE meeting' # meeting
    <2>1. PICK L \in SUBSET Topics : meeting.st = "live" /\ meeting' = toggled(meeting, L)
      BY <1>3, MeetingParts DEF toggle_tx, Req, MeetingRow
    <2>2. L # meeting.links
      BY <1>3, <2>1, MeetingParts DEF toggled, MeetingRow
    <2> DEFINE ver == meeting.ver + 1
    <2>3. meeting' = Relinked(meeting, ver, L)
      BY <2>1, <2>2, MeetingParts DEF toggled, Relinked, MeetingRow
    <2>v. ver \in Nat /\ ver = meeting.ver + 1
      BY MeetingParts DEF MeetingRow
    <2> HIDE DEF ver
    <2>4. /\ meeting' \in MeetingRow /\ meeting'.st = "live" /\ meeting'.ver = ver
          /\ meeting'.start = meeting.start /\ meeting'.end = meeting.end
      BY <2>1, <2>3, <2>v, MeetingParts, RowReplaced
    <2>5. times_ok(meeting'.start, meeting'.end) /\ meeting'.ver = meeting.ver + 1
      BY <2>4, <2>v, MeetingParts
    <2> QED
      BY <1>1, <2>1, <2>4, <2>5, MeetingWritten
  <1> QED
    BY <1>2, <1>3

LEMMA MeetingTextSet ==
    ASSUME MeetingInv, NEW u \in Uploaders, set_text(u)
    PROVE  MeetingInv'
  <1>1. MeetingWrites(u)
    BY DEF set_text
  <1>2. CASE meeting.st # "live"
    <2>1. meeting' = meeting
      BY <1>2 DEF set_text
    <2> QED
      BY <1>1, <2>1, MeetingWritten, MeetingParts
  <1>3. CASE meeting.st = "live"
    <2> DEFINE ver == meeting.ver + 1
               k == mreq[u].new.text
    <2>1. meeting' = Rewritten(meeting, ver, k)
      BY <1>3 DEF set_text, Rewritten
    <2>2. k \in Keys \cup {NoFile}
      BY MeetingParts DEF Req, MeetingRow
    <2>v. ver \in Nat /\ ver = meeting.ver + 1
      BY MeetingParts DEF MeetingRow
    <2> HIDE DEF ver, k
    <2>3. /\ meeting' \in MeetingRow /\ meeting'.st = "live" /\ meeting'.ver = ver
          /\ meeting'.start = meeting.start /\ meeting'.end = meeting.end
      BY <1>3, <2>1, <2>2, <2>v, MeetingParts, RowReplaced
    <2>4. times_ok(meeting'.start, meeting'.end) /\ meeting'.ver = meeting.ver + 1
      BY <2>3, <2>v, MeetingParts
    <2> QED
      BY <1>1, <1>3, <2>3, <2>4, MeetingWritten
  <1> QED
    BY <1>2, <1>3

LEMMA MeetingFailed ==
    ASSUME MeetingInv, NEW u \in Uploaders, MeetingFails(u)
    PROVE  MeetingInv'
  BY MeetingWritten, MeetingParts DEF MeetingFails

\* A step of the files.  What is new of a deleted meeting is late.
LEMMA MeetingFilesMove ==
    ASSUME MeetingInv, FileInv', UNCHANGED <<meeting, topic>>, mreq' \in [Uploaders -> Req],
           \A v \in Uploaders : \/ mreq'[v] = mreq[v]
                                \/ mreq'[v].at = "text" /\ times_ok(mreq'[v].new.start, mreq'[v].new.end),
           importing' \subseteq Uploaders, overtaken' \subseteq Uploaders,
           lateFiles \subseteq lateFiles', lateFiles' \subseteq FileIds,
           \A a \in LiveFiles' : \/ a \in LiveFiles /\ attachment'[a].target = attachment[a].target
                                 \/ meeting.st = "deleted" /\ attachment'[a].target = TheMeeting => a \in lateFiles',
           \A v \in Uploaders : meeting.st = "deleted" /\ upload'[v].target = TheMeeting => v \in overtaken'
    PROVE  MeetingInv'
  <1>1. \A v \in Uploaders : ReqOK(v)'
    <2>1. ASSUME NEW v \in Uploaders PROVE ReqOK(v)'
      <3>1. CASE mreq'[v].at = "text" /\ times_ok(mreq'[v].new.start, mreq'[v].new.end)
        BY <3>1 DEF ReqOK
      <3>2. CASE mreq'[v] = mreq[v]
        BY <3>2, MeetingParts DEF ReqOK, IsRead
      <3> QED
        BY <3>1, <3>2
    <2> QED
      BY <2>1
  <1>2. FilesDieWithMeeting'
    BY MeetingParts DEF FilesDieWithMeeting
  <1>3. LateOK'
    BY DEF LateOK
  <1> QED
    BY <1>1, <1>2, <1>3, MeetingParts, MeetingFromParts

LEMMA MeetingFileReceived ==
    ASSUME MeetingInv, NEW u \in Uploaders, NEW k \in Keys, upload_artifact(u, k) \/ import_text(u, k)
    PROVE  MeetingInv'
  <1>1. /\ receive_file(u, TheMeeting, k) /\ meeting.st = "live" /\ importing' \subseteq Uploaders
        /\ UNCHANGED <<meeting, topic, mreq, overtaken, lateFiles>>
    BY MeetingParts DEF upload_artifact, import_text, require_meeting, meetingVars
  <1>2. FileInv'
    BY <1>1, FileReceived, MeetingsAssumption, MeetingParts
  <1>3. LiveFiles' = LiveFiles /\ attachment' = attachment
    BY <1>1 DEF receive_file, LiveFiles, Rows
  <1> QED
    BY <1>1, <1>2, <1>3, MeetingParts, MeetingFilesMove

LEMMA MeetingFileDeleted ==
    ASSUME MeetingInv, NEW u \in Uploaders, NEW a \in FileIds, delete_artifact(u, a)
    PROVE  MeetingInv'
  <1>1. delete_attachment(u, a) /\ UNCHANGED <<meeting, topic, mreq, importing, overtaken, lateFiles>>
    BY DEF delete_artifact, meetingVars
  <1>2. FileInv'
    BY <1>1, FileDeleted, MeetingParts
  <1>3. {a} \subseteq Rows /\ soft_delete_rows({a}) /\ upload' = upload
    BY <1>1 DEF delete_attachment, LiveFiles
  <1>4. \A b \in LiveFiles' : b \in LiveFiles /\ attachment'[b].target = attachment[b].target
    BY <1>3, MeetingParts, RowsSoftDeleted DEF LiveFiles
  <1>5. \A v \in Uploaders : meeting.st = "deleted" /\ upload'[v].target = TheMeeting => v \in overtaken'
    BY <1>1, <1>3, MeetingParts DEF LateOK
  <1> QED
    BY <1>1, <1>2, <1>4, <1>5, MeetingParts, MeetingFilesMove

\* The meeting and its files go together; uploads under way are overtaken.
LEMMA MeetingSoftDeleted ==
    ASSUME MeetingInv, NEW u \in Uploaders, soft_delete_meeting(u)
    PROVE  MeetingInv'
  <1> DEFINE S == {a \in LiveFiles : attachment[a].target = TheMeeting}
  <1>1. /\ soft_delete_rows(S) /\ S \subseteq Rows /\ meeting.st = "live" /\ FileRequest(u)
        /\ meeting' = [meeting EXCEPT !.st = "deleted"] /\ overtaken' = {v \in Uploaders : upload[v].target = TheMeeting}
        /\ UNCHANGED <<object, upload, leftover, reclaim, comment, served, shared, topic, mreq, importing, lateFiles>>
    BY DEF soft_delete_meeting, soft_delete_files, soft_delete_for_target, LiveFiles
  <1>2. \A a \in LiveFiles : attachment[a].target = TheMeeting => a \in S
    OBVIOUS
  <1> HIDE DEF S
  <1>3. /\ attachment' \in [FileIds -> Attachment \cup {NoFile}]
        /\ \A a \in Rows' : a \in Rows /\ attachment'[a].key = attachment[a].key /\ attachment'[a].target = attachment[a].target
                            /\ (attachment'[a].st = "live" => a \notin S /\ attachment[a].st = "live")
    BY <1>1, MeetingParts, RowsSoftDeleted
  <1>4. fileOps' \in 0 .. MaxFileOps
    BY <1>1, MeetingParts, FileRequested
  <1>5. FileInv'
    BY <1>1, <1>3, <1>4, MeetingParts, FileParts, FileRowsRestated
  <1>6. FilesDieWithMeeting'
    BY <1>2, <1>3 DEF FilesDieWithMeeting, LiveFiles
  <1>7. LateOK'
    BY <1>1 DEF LateOK
  <1>8. /\ meeting' \in MeetingRow /\ meeting'.st = "deleted" /\ meeting'.text = meeting.text /\ meeting'.ver = meeting.ver
        /\ meeting'.start = meeting.start /\ meeting'.end = meeting.end /\ meeting'.links = meeting.links
    BY <1>1, MeetingParts DEF MeetingRow
  <1>9. \A v \in Uploaders : ReqOK(v)'
    BY <1>1, <1>8, MeetingParts DEF ReqOK, IsRead
  <1>10. overtaken' \subseteq Uploaders /\ times_ok(meeting'.start, meeting'.end)
    BY <1>1, <1>8, MeetingParts
  <1> QED
    BY <1>1, <1>5, <1>6, <1>7, <1>8, <1>9, <1>10, MeetingParts, MeetingFromParts

LEMMA MeetingTopicGoes ==
    ASSUME MeetingInv, NEW t \in Topics, NEW s \in {"deleted", "gone"}, TopicGoes(t, s)
    PROVE  MeetingInv'
  <1>1. /\ UNCHANGED fileVars /\ UNCHANGED <<mreq, importing, overtaken, lateFiles>>
        /\ topic' \in [Topics -> {"valid", "deleted", "gone"}]
        /\ \A x \in Topics : topic[x] = "gone" => topic'[x] = "gone"
    BY MeetingParts DEF TopicGoes
  <1>2. FileInv' /\ LiveFiles' = LiveFiles /\ attachment' = attachment /\ upload' = upload
    BY <1>1, FileStutters, MeetingParts DEF fileVars, LiveFiles, Rows
  <1>3. /\ meeting' \in MeetingRow /\ meeting'.st = meeting.st /\ meeting'.text = meeting.text /\ meeting'.ver = meeting.ver
        /\ meeting'.start = meeting.start /\ meeting'.end = meeting.end
        /\ meeting'.links \subseteq meeting.links /\ \A x \in meeting.links \ meeting'.links : x \in Topics /\ topic'[x] = "gone"
    <2>1. CASE s = "gone"
      <3>1. meeting' = [meeting EXCEPT !.links = meeting.links \ {t}] /\ topic' = [topic EXCEPT ![t] = "gone"]
        BY <2>1 DEF TopicGoes
      <3> QED
        BY <3>1, MeetingParts DEF MeetingRow
    <2>2. CASE s # "gone"
      <3>1. meeting' = meeting
        BY <2>2 DEF TopicGoes
      <3> QED
        BY <3>1, MeetingParts
    <2> QED
      BY <2>1, <2>2
  <1>4. \A v \in Uploaders : mreq[v].seen.links \subseteq Topics
    BY MeetingParts DEF Req, MeetingRow
  <1>5. \A v \in Uploaders : IsRead(mreq[v].seen) => IsRead(mreq[v].seen)'
    BY <1>1, <1>3, <1>4 DEF IsRead
  <1>6. \A v \in Uploaders : ReqOK(v)'
    BY <1>1, <1>3, <1>5, MeetingParts DEF ReqOK
  <1>7. FilesDieWithMeeting' /\ LateOK' /\ times_ok(meeting'.start, meeting'.end)
    BY <1>1, <1>2, <1>3, MeetingParts DEF FilesDieWithMeeting, LateOK
  <1> QED
    BY <1>1, <1>2, <1>3, <1>6, <1>7, MeetingParts, MeetingFromParts

\* A file recorded for a deleted meeting is late.
LEMMA MeetingFileRecorded ==
    ASSUME MeetingInv, NEW u \in Uploaders, store_and_record(u), UNCHANGED <<meeting, topic>>,
           lateFiles' = (IF u \in overtaken THEN lateFiles \cup {a \in FileIds : attachment[a] # attachment'[a]}
                                            ELSE lateFiles),
           overtaken' = overtaken \ {u}, ImportRecorded(u) \/ (u \notin importing /\ UNCHANGED <<importing, mreq>>)
    PROVE  MeetingInv'
  <1>1. FileInv'
    BY FileRecorded, MeetingParts
  <1>2. importing' \subseteq Uploaders /\ overtaken' \subseteq Uploaders /\ lateFiles \subseteq lateFiles' /\ lateFiles' \subseteq FileIds
    BY MeetingParts DEF ImportRecorded
  <1>3. /\ mreq' \in [Uploaders -> Req]
        /\ \A v \in Uploaders : \/ mreq'[v] = mreq[v]
                                \/ mreq'[v].at = "text" /\ times_ok(mreq'[v].new.start, mreq'[v].new.end)
    <2>1. CASE UNCHANGED mreq
      BY <2>1, MeetingParts
    <2>2. CASE ImportRecorded(u)
      <3> DEFINE new == [NoMeeting EXCEPT !.text = upload[u].key]
                 rec == Asked("text", new)
      <3>1. upload[u].key \in Keys \cup {NoFile}
        BY MeetingParts, FileParts DEF Upload
      <3>2. new \in MeetingRow /\ times_ok(new.start, new.end)
        BY <3>1, NoReqIsFine DEF MeetingRow
      <3>3. mreq' = [mreq EXCEPT ![u] = rec]
        <4>1. rec = [NoReq EXCEPT !.at = "text", !.new.text = upload[u].key]
          BY NoReqIsFine DEF Asked
        <4> QED
          BY <2>2, <4>1 DEF ImportRecorded
      <3> HIDE DEF new
      <3>4. rec \in Req /\ rec.at = "text" /\ rec.new = new
        BY <3>2, ReqChanged
      <3> HIDE DEF rec
      <3>5. mreq' \in [Uploaders -> Req] /\ \A v \in Uploaders : mreq'[v] = IF v = u THEN rec ELSE mreq[v]
        BY <3>3, <3>4, MeetingParts
      <3> QED
        BY <3>2, <3>4, <3>5
    <2> QED
      BY <2>1, <2>2
  <1>4. PICK a \in FileIds \ Rows :
            attachment' = [attachment EXCEPT ![a] = [target |-> upload[u].target, key |-> upload[u].key, st |-> "live"]]
    BY DEF store_and_record
  <1>5. /\ \A b \in FileIds : b # a => attachment'[b] = attachment[b]
        /\ attachment'[a].target = upload[u].target /\ attachment'[a].st = "live" /\ attachment[a] = NoFile
    BY <1>4, MeetingParts, FileParts DEF Rows
  <1>6. a \in LiveFiles' /\ meeting.st = "deleted" /\ upload[u].target = TheMeeting => a \in lateFiles'
    BY <1>5, MeetingParts DEF LateOK, LiveFiles, Rows
  <1>7. \A b \in LiveFiles' : \/ b \in LiveFiles /\ attachment'[b].target = attachment[b].target
                              \/ meeting.st = "deleted" /\ attachment'[b].target = TheMeeting => b \in lateFiles'
    <2>1. ASSUME NEW b \in LiveFiles', b # a PROVE b \in LiveFiles /\ attachment'[b].target = attachment[b].target
      BY <1>5, <2>1 DEF LiveFiles, Rows
    <2> QED
      BY <1>5, <1>6, <2>1
  <1>8. \A v \in Uploaders : upload'[v] = IF v = u THEN NoUpload ELSE upload[v]
    BY MeetingParts, FileParts DEF store_and_record
  <1>9. \A v \in Uploaders : meeting.st = "deleted" /\ upload'[v].target = TheMeeting => v \in overtaken'
    BY <1>8, NoUploadIsFine, FilesAssumption, MeetingsAssumption, MeetingParts DEF LateOK
  <1> QED
    BY <1>1, <1>2, <1>3, <1>7, <1>9, MeetingFilesMove

LEMMA MeetingUploads ==
    ASSUME MeetingInv, NEW u \in Uploaders, UploadStep(u)
    PROVE  MeetingInv'
  <1>1. CASE /\ UploadFails(u) /\ overtaken' = overtaken \ {u} /\ importing' = importing \ {u}
             /\ UNCHANGED <<meeting, topic, mreq, lateFiles>>
    <2>1. FileInv'
      BY <1>1, FileUploadFails, MeetingParts
    <2>2. attachment' = attachment /\ LiveFiles' = LiveFiles
      BY <1>1 DEF UploadFails, LiveFiles, Rows
    <2>3. \A v \in Uploaders : upload'[v] = IF v = u THEN NoUpload ELSE upload[v]
      BY <1>1, MeetingParts, FileParts DEF UploadFails
    <2>4. \A v \in Uploaders : meeting.st = "deleted" /\ upload'[v].target = TheMeeting => v \in overtaken'
      BY <1>1, <2>3, NoUploadIsFine, FilesAssumption, MeetingsAssumption, MeetingParts DEF LateOK
    <2> QED
      BY <1>1, <2>1, <2>2, <2>4, MeetingParts, MeetingFilesMove
  <1>2. CASE adopt(u) /\ UNCHANGED meetingVars
    <2>1. FileInv' /\ UNCHANGED <<meeting, topic, mreq, importing, overtaken, lateFiles>>
      BY <1>2, FileAdopted, MeetingParts DEF meetingVars
    <2>2. attachment' = attachment /\ LiveFiles' = LiveFiles
      BY <1>2 DEF adopt, LiveFiles, Rows
    <2>3. \A v \in Uploaders : upload'[v].target = upload[v].target
      BY <1>2, MeetingParts, FileParts DEF adopt, Upload
    <2>4. \A v \in Uploaders : meeting.st = "deleted" /\ upload'[v].target = TheMeeting => v \in overtaken'
      BY <2>1, <2>3, MeetingParts DEF LateOK
    <2> QED
      BY <2>1, <2>2, <2>4, MeetingParts, MeetingFilesMove
  <1> QED
    BY <1>1, <1>2, MeetingFileRecorded DEF UploadStep

LEMMA MeetingStutters ==
    ASSUME MeetingInv, UNCHANGED allMeetingVars
    PROVE  MeetingInv'
  <1>1. FileInv' /\ LiveFiles' = LiveFiles /\ UNCHANGED <<attachment, upload, meeting, topic, mreq, importing, overtaken, lateFiles>>
    BY FileStutters, MeetingParts DEF allMeetingVars, fileVars, meetingVars, LiveFiles, Rows
  <1>2. \A v \in Uploaders : meeting.st = "deleted" /\ upload'[v].target = TheMeeting => v \in overtaken'
    BY <1>1, MeetingParts DEF LateOK
  <1> QED
    BY <1>1, <1>2, MeetingParts, MeetingFilesMove

LEMMA MeetingInvStep == MeetingInv /\ [MeetingNext]_allMeetingVars => MeetingInv'
  <1> SUFFICES ASSUME MeetingInv, [MeetingNext]_allMeetingVars PROVE MeetingInv'
    OBVIOUS
  <1>1. ASSUME NEW u \in Uploaders, NEW from \in Clock, NEW end \in Clock, NEW L \in SUBSET Topics, NEW k \in Keys,
               \/ create_meeting(u, from, end, L) \/ update_meeting(u, k, from, end, L, TRUE)
               \/ update_meeting(u, k, from, end, {}, FALSE)
        PROVE  MeetingInv'
    <2>1. TRUE \in BOOLEAN /\ FALSE \in BOOLEAN /\ {} \in SUBSET Topics
      OBVIOUS
    <2> QED
      BY <1>1, <2>1, MeetingCreateAsked, MeetingUpdateAsked, Zenon
  <1>2. ASSUME NEW u \in Uploaders,
               create_tx(u) \/ update_tx(u) \/ toggle_tx(u) \/ set_text(u) \/ MeetingFails(u)
                 \/ soft_delete_meeting(u) \/ UploadStep(u)
        PROVE  MeetingInv'
    BY <1>2, MeetingCreated, MeetingUpdated, MeetingToggled, MeetingTextSet, MeetingFailed, MeetingSoftDeleted, MeetingUploads
  <1>3. ASSUME NEW u \in Uploaders, NEW t \in Topics, NEW add \in BOOLEAN, toggle_link(u, t, add)
        PROVE  MeetingInv'
    BY <1>3, MeetingToggleAsked, Zenon
  <1>4. ASSUME NEW u \in Uploaders, NEW k \in Keys, upload_artifact(u, k) \/ import_text(u, k)
        PROVE  MeetingInv'
    BY <1>4, MeetingFileReceived
  <1>5. ASSUME NEW u \in Uploaders, NEW from \in Clock, NEW end \in Clock, NEW L \in SUBSET Topics, create_meeting(u, from, end, L)
        PROVE  MeetingInv'
    BY <1>5, MeetingCreateAsked
  <1> QED
    BY <1>1, <1>2, <1>3, <1>4, <1>5, MeetingFileDeleted, MeetingTopicGoes, MeetingStutters, Zenon DEF MeetingNext

LEMMA MeetingInvariant == MeetingSpec => []MeetingInv
  BY MeetingInvInit, MeetingInvStep, PTL DEF MeetingSpec

\* The meeting, its links and the requests on it keep their types, and no
\* write leaves the meeting with an end that does not follow its start,
\* times_ok being asked of the merged row before it is written.
THEOREM MeetingTypeCorrect == MeetingSpec => []MeetingTypeOK
  <1>1. MeetingInv => MeetingTypeOK
    BY DEF MeetingInv
  <1> QED
    BY <1>1, MeetingInvariant, PTL

\* With meetings and their imports beside the uploads, a row still has its
\* object, and a file of a deleted meeting is the one of an upload that was
\* under way when soft_delete took the others.
THEOREM FilesMatchRows == MeetingSpec => []DiskMatchesRows
  <1>1. MeetingInv => DiskMatchesRows
    BY DEF MeetingInv, FileInv, DiskMatchesRows
  <1> QED
    BY <1>1, MeetingInvariant, PTL

\* Another request's turn leaves the request of u as it is.
LEMMA OthersKeepRequests ==
    ASSUME MeetingInv, MeetingNext, NEW u \in Uploaders, mreq[u].at = "update", mreq'[u].at = "idle"
    PROVE  update_tx(u) \/ MeetingFails(u)
  <1>1. ASSUME NEW v \in Uploaders, NEW rec, MeetingRequest(v, rec) PROVE FALSE
    <2>1. v # u /\ mreq' = [mreq EXCEPT ![v] = rec]
      BY <1>1 DEF MeetingRequest
    <2> QED
      BY <2>1, MeetingParts
  <1>2. ASSUME NEW v \in Uploaders, MeetingWrites(v) PROVE v = u
    BY <1>2, MeetingParts DEF MeetingWrites
  <1>3. ASSUME NEW v \in Uploaders, UploadStep(v) PROVE FALSE
    <2>1. CASE ImportRecorded(v)
      <3> DEFINE new == [NoMeeting EXCEPT !.text = upload[v].key]
                 rec == [NoReq EXCEPT !.at = "text", !.new = new]
      <3>1. rec.at = "text"
        BY DEF NoReq
      <3>2. mreq' = [mreq EXCEPT ![v] = rec]
        <4>1. rec = [NoReq EXCEPT !.at = "text", !.new.text = upload[v].key]
          BY NoReqIsFine
        <4> QED
          BY <2>1, <4>1 DEF ImportRecorded
      <3> HIDE DEF rec
      <3> QED
        BY <3>1, <3>2, MeetingParts
    <2>2. CASE mreq' = mreq
      BY <2>2
    <2> QED
      BY <1>3, <2>1, <2>2 DEF UploadStep, meetingVars
  <1>4. ASSUME mreq' = mreq PROVE FALSE
    BY <1>4
  <1>5. ASSUME NEW v \in Uploaders, create_tx(v) \/ toggle_tx(v) \/ set_text(v) PROVE FALSE
    <2>1. v = u
      BY <1>2, <1>5 DEF create_tx, toggle_tx, set_text
    <2> QED
      BY <1>5, <2>1 DEF create_tx, toggle_tx, set_text
  <1>6. ASSUME NEW v \in Uploaders, update_tx(v) \/ MeetingFails(v) PROVE v = u
    BY <1>2, <1>6 DEF update_tx, MeetingFails
  <1>7. ASSUME NEW v \in Uploaders, NEW a \in FileIds, delete_artifact(v, a) PROVE FALSE
    BY <1>4, <1>7 DEF delete_artifact, meetingVars
  <1>8. ASSUME NEW v \in Uploaders, NEW k \in Keys, upload_artifact(v, k) \/ import_text(v, k) PROVE FALSE
    BY <1>4, <1>8 DEF upload_artifact, import_text, meetingVars
  <1>9. ASSUME NEW v \in Uploaders, soft_delete_meeting(v) PROVE FALSE
    BY <1>4, <1>9 DEF soft_delete_meeting
  <1>10. ASSUME NEW t \in Topics, NEW s \in {"deleted", "gone"}, TopicGoes(t, s) PROVE FALSE
    BY <1>4, <1>10 DEF TopicGoes
  <1>11. ASSUME NEW v \in Uploaders, NEW from \in Clock, NEW end \in Clock, NEW L \in SUBSET Topics,
                create_meeting(v, from, end, L)
         PROVE  FALSE
    BY <1>1, <1>11, Zenon DEF create_meeting
  <1>12. ASSUME NEW v \in Uploaders, NEW k \in Keys, NEW from \in Clock, NEW end \in Clock, NEW L, NEW b,
                update_meeting(v, k, from, end, L, b)
         PROVE  FALSE
    BY <1>1, <1>12, Zenon DEF update_meeting
  <1>13. ASSUME NEW v \in Uploaders, NEW t \in Topics, NEW add \in BOOLEAN, toggle_link(v, t, add)
         PROVE  FALSE
    BY <1>1, <1>13, Zenon DEF toggle_link
  <1> QED
    BY <1>3, <1>5, <1>6, <1>7, <1>8, <1>9, <1>10, <1>11, <1>12, <1>13, Zenon DEF MeetingNext

\* A PATCH replaces what its client read and nothing newer (update_tx under
\* the version of If-Match): no import, link or other patch that came
\* between is lost, whatever the handlers do meanwhile.
THEOREM PatchesReplaceWhatTheyRead == MeetingSpec => PatchReplacesWhatItRead
  <1> DEFINE Replaces == \A u \in Uploaders :
               mreq[u].at = "update" /\ mreq'[u].at = "idle" /\ meeting' # meeting =>
                 /\ meeting.text = mreq[u].seen.text
                 /\ <<meeting.start, meeting.end>> = <<mreq[u].seen.start, mreq[u].seen.end>>
                 /\ meeting.links \subseteq mreq[u].seen.links
                 /\ \A t \in mreq[u].seen.links \ meeting.links : topic[t] = "gone"
  <1>1. MeetingInv /\ [MeetingNext]_allMeetingVars => [Replaces]_allMeetingVars
    <2>1. ASSUME MeetingInv, MeetingNext, NEW u \in Uploaders,
                 mreq[u].at = "update", mreq'[u].at = "idle", meeting' # meeting
          PROVE  IsRead(mreq[u].seen)
      <3>1. update_tx(u)
        BY <2>1, OthersKeepRequests DEF MeetingFails
      <3>2. meeting.ver = mreq[u].seen.ver
        BY <2>1, <3>1 DEF update_tx
      <3> QED
        BY <2>1, <3>2, MeetingParts DEF ReqOK
    <2>2. ASSUME MeetingInv, MeetingNext PROVE Replaces
      BY <2>1, <2>2 DEF IsRead
    <2> QED
      BY <2>2
  <1>2. MeetingSpec => [][Replaces]_allMeetingVars
    BY <1>1, MeetingInvariant, PTL DEF MeetingSpec
  <1> QED
    BY <1>2 DEF PatchReplacesWhatItRead

-----------------------------------------------------------------------------
(* Docs.                                                                   *)

Commits == Seq(Texts)

LEMMA PrefixIs ==
    ASSUME NEW c \in Commits, NEW d \in Commits
    PROVE  IsPrefix(c, d) <=> Len(c) <= Len(d) /\ \A i \in 1 .. Len(c) : c[i] = d[i]
  <1>1. Len(c) \in Nat /\ Len(d) \in Nat /\ 1 \in 1 .. Len(c) + 1 /\ 1 \in 1 .. Len(d) + 1
    BY LenProperties DEF Commits
  <1>2. SubSeq(c, 1, Len(c)) = [i \in 1 .. Len(c) |-> c[i]]
    BY <1>1 DEF Commits
  <1>3. SubSeq(d, 1, Len(c)) = [i \in 1 .. Len(c) |-> d[i]]
    BY <1>1 DEF Commits
  <1> QED
    BY <1>1, <1>2, <1>3 DEF IsPrefix

Task == [pc : {"idle", "lock", "fetch", "fetched", "unlock", "relock", "edit", "push", "pushed", "refused"},
         op : {"none", "forced", "sync", "save"}, seen : Texts \cup {NoText}, text : Texts \cup {NoText},
         base : Histories, late : BOOLEAN]

\* The handler is at one of the steps, and has not timed out.
At(h, S) == task[h].pc \in S /\ ~task[h].late

TaskOK(h) ==
    /\ task[h].pc \in {"relock", "edit", "push", "pushed", "refused"} => task[h].op = "save"
    /\ task[h].op = "save" => task[h].text \in Texts
    /\ task[h].pc \in {"push", "pushed", "refused"} => Len(task[h].base) < MaxCommits
    /\ source.st = "none" => task[h].pc = "idle"

\* The lock excludes others, unless the source went under its holder.
LockOK ==
    Live \/ ~stray => \A h \in Scribes : At(h, {"fetch", "fetched", "unlock", "edit", "push", "pushed", "refused"}) => holder = h

\* Between commit and push the clone is one commit ahead of a commit of the
\* remote; otherwise it has none of its own.
CloneOK ==
    ~stray => /\ \A h \in Scribes : At(h, {"push", "refused"}) =>
                    clone = Append(task[h].base, task[h].text) /\ IsPrefix(task[h].base, remote)
              /\ \A h \in Scribes : At(h, {"pushed"}) => IsPrefix(Append(task[h].base, task[h].text), remote)
              /\ (\A h \in Scribes : ~At(h, {"push", "refused"})) => IsPrefix(clone, remote)

DocsInv ==
    /\ DocsTypeOK /\ task \in [Scribes -> Task] /\ LockOK /\ CloneOK /\ SavedIsOnRemote
    /\ \A h \in Scribes : TaskOK(h)
-----------------------------------------------------------------------------
(* Histories.                                                              *)

LEMMA HistoriesAre == Histories \subseteq Commits /\ \A c \in Commits : c \in Histories <=> Len(c) <= MaxCommits
  <1>1. Histories = UNION {[1 .. m -> Texts] : m \in 0 .. MaxCommits}
    BY DEF Histories, BoundedSeq, SeqOf
  <1>2. ASSUME NEW c \in Histories PROVE c \in Commits /\ Len(c) <= MaxCommits
    <2>1. PICK m \in 0 .. MaxCommits : c \in [1 .. m -> Texts]
      BY <1>1, <1>2
    <2>2. m \in Nat
      BY DocsAssumption
    <2>3. c \in Seq(Texts) /\ Len(c) = m
      BY <2>1, <2>2
    <2> QED
      BY <2>1, <2>3, DocsAssumption DEF Commits
  <1>3. ASSUME NEW c \in Commits, Len(c) <= MaxCommits PROVE c \in Histories
    <2>1. Len(c) \in 0 .. MaxCommits /\ c \in [1 .. Len(c) -> Texts]
      BY <1>3, LenProperties, DocsAssumption DEF Commits
    <2> QED
      BY <1>1, <2>1
  <1> QED
    BY <1>2, <1>3

LEMMA PrefixOfItself == \A c \in Commits : IsPrefix(c, c)
  BY PrefixIs, LenProperties DEF Commits

LEMMA NothingIsPrefix == <<>> \in Commits /\ \A c \in Commits : IsPrefix(<<>>, c)
  <1>1. <<>> \in Commits /\ Len(<<>>) = 0
    BY DEF Commits
  <1>2. ASSUME NEW c \in Commits PROVE Len(<<>>) <= Len(c) /\ \A i \in 1 .. Len(<<>>) : <<>>[i] = c[i]
    BY <1>1, LenProperties DEF Commits
  <1> QED
    BY <1>1, <1>2, PrefixIs

LEMMA PrefixChain ==
    ASSUME NEW b \in Commits, NEW c \in Commits, NEW d \in Commits, IsPrefix(b, c), IsPrefix(c, d)
    PROVE  IsPrefix(b, d)
  <1>1. Len(b) \in Nat /\ Len(c) \in Nat /\ Len(d) \in Nat
    BY LenProperties DEF Commits
  <1>2. Len(b) <= Len(c) /\ (\A i \in 1 .. Len(b) : b[i] = c[i]) /\ Len(c) <= Len(d) /\ \A i \in 1 .. Len(c) : c[i] = d[i]
    BY PrefixIs
  <1>3. Len(b) <= Len(d) /\ \A i \in 1 .. Len(b) : b[i] = d[i]
    BY <1>1, <1>2
  <1> QED
    BY <1>3, PrefixIs

LEMMA CommitExtends ==
    ASSUME NEW c \in Commits, NEW t \in Texts
    PROVE  Append(c, t) \in Commits /\ Len(Append(c, t)) = Len(c) + 1 /\ IsPrefix(c, Append(c, t)) /\ Append(c, t) # <<>>
  <1>1. Append(c, t) \in Commits /\ Len(Append(c, t)) = Len(c) + 1 /\ Append(c, t) # <<>>
        /\ \A i \in 1 .. Len(c) : Append(c, t)[i] = c[i]
    BY AppendProperties DEF Commits
  <1>2. Len(c) <= Len(Append(c, t)) /\ \A i \in 1 .. Len(c) : c[i] = Append(c, t)[i]
    BY <1>1, LenProperties DEF Commits
  <1> DEFINE d == Append(c, t)
  <1>3. d \in Commits /\ Len(c) <= Len(d) /\ \A i \in 1 .. Len(c) : c[i] = d[i]
    BY <1>1, <1>2
  <1> HIDE DEF d
  <1>4. IsPrefix(c, d)
    BY <1>3, PrefixIs
  <1> QED
    BY <1>1, <1>4 DEF d

LEMMA HistoryExtends ==
    ASSUME NEW c \in Histories, NEW t \in Texts, Len(c) < MaxCommits
    PROVE  Append(c, t) \in Histories /\ c \in Commits /\ Append(c, t) \in Commits
  <1>1. c \in Commits /\ Len(c) \in Nat
    BY HistoriesAre, LenProperties DEF Commits
  <1>2. Len(c) + 1 <= MaxCommits
    BY <1>1, DocsAssumption
  <1> QED
    BY <1>1, <1>2, CommitExtends, HistoriesAre
-----------------------------------------------------------------------------
(* The parts of the invariant.                                             *)

Source == [st : {"none", "live", "deleted"}, kind : {"git", "web"}, ro : BOOLEAN,
           status : {"pending", "syncing", "ready", "error"}, head : Histories, key : BOOLEAN]

PCs == {"idle", "lock", "fetch", "fetched", "unlock", "relock", "edit", "push", "pushed", "refused"}
Locked == {"fetch", "fetched", "unlock", "edit", "push", "pushed", "refused"}

LEMMA DocsParts ==
    ASSUME DocsInv
    PROVE  /\ source \in Source /\ writekey \in BOOLEAN /\ stray \in BOOLEAN
           /\ remote \in Histories \ {<<>>} /\ clone \in Histories /\ holder \in Scribes \cup {NoText}
           /\ task \in [Scribes -> Task] /\ shown \subseteq Texts /\ docOps \in 0 .. MaxDocOps /\ acked \subseteq Histories
           /\ LockOK /\ CloneOK /\ SavedIsOnRemote /\ \A h \in Scribes : TaskOK(h)
           /\ remote \in Commits /\ clone \in Commits /\ acked \subseteq Commits
  BY HistoriesAre DEF DocsInv, DocsTypeOK, Source

LEMMA DocsFromParts ==
    ASSUME source' \in Source, writekey' \in BOOLEAN, stray' \in BOOLEAN, remote' \in Histories \ {<<>>}, clone' \in Histories,
           holder' \in Scribes \cup {NoText}, task' \in [Scribes -> Task], shown' \subseteq Texts,
           docOps' \in 0 .. MaxDocOps, acked' \subseteq Histories,
           LockOK', CloneOK', SavedIsOnRemote', \A h \in Scribes : TaskOK(h)'
    PROVE  DocsInv'
  <1>1. \A h \in Scribes :
         /\ task'[h].pc \in {"idle", "lock", "fetch", "fetched", "unlock", "relock", "edit", "push", "pushed", "refused"}
         /\ task'[h].op \in {"none", "forced", "sync", "save"} /\ task'[h].late \in BOOLEAN
         /\ {task'[h].seen, task'[h].text} \subseteq Texts \cup {NoText} /\ task'[h].base \in Histories
    BY DEF Task
  <1>2. DocsTypeOK'
    BY <1>1 DEF DocsTypeOK, Source
  <1> QED
    BY <1>2 DEF DocsInv

\* Nobody gets at the clone without the lock.
LEMMA LockKept ==
    ASSUME LockOK, (Live \/ ~stray)' => Live \/ ~stray,
           \A g \in Scribes : At(g, Locked)' => At(g, Locked) /\ (holder = g => holder' = g)
    PROVE  LockOK'
  BY DEF LockOK, Locked

\* A step that leaves clone and remote alone and no commit half way.
LEMMA CloneKept ==
    ASSUME CloneOK, stray => stray', UNCHANGED <<clone, remote>>,
           \A g \in Scribes :
             \/ task'[g] = task[g]
             \/ ~At(g, {"push", "pushed", "refused"})' /\ ~At(g, {"push", "refused"})
    PROVE  CloneOK'
  <1>1. CASE stray'
    BY <1>1 DEF CloneOK
  <1>2. CASE ~stray'
    <2>1. ~stray
      BY <1>2
    <2>2. \A g \in Scribes : At(g, {"push", "refused"})' => task'[g] = task[g] /\ At(g, {"push", "refused"})
      BY DEF At
    <2>3. \A g \in Scribes : At(g, {"pushed"})' => task'[g] = task[g] /\ At(g, {"pushed"})
      BY DEF At
    <2>4. \A g \in Scribes : At(g, {"push", "refused"}) => At(g, {"push", "refused"})'
      BY DEF At
    <2> QED
      BY <2>1, <2>2, <2>3, <2>4 DEF CloneOK
  <1> QED
    BY <1>1, <1>2

\* What a handler is told survives on the remote: histories only grow.
LEMMA SavedKept ==
    ASSUME DocsInv, remote' \in Commits, IsPrefix(remote, remote'), NEW N, acked' \subseteq acked \cup N,
           \A c \in N : c \in Commits /\ IsPrefix(c, remote')
    PROVE  SavedIsOnRemote'
  <1>1. \A c \in acked : IsPrefix(c, remote')
    BY DocsParts, PrefixChain DEF SavedIsOnRemote
  <1> QED
    BY <1>1 DEF SavedIsOnRemote

LEMMA NoTaskIsFine ==
    NoTask \in Task /\ NoTask.pc = "idle" /\ NoTask.op = "none"
  <1>1. <<>> \in Histories
    BY NothingIsPrefix, HistoriesAre, DocsAssumption
  <1>2. ASSUME NEW b \in BOOLEAN
        PROVE  [pc |-> "idle", op |-> "none", seen |-> NoText, text |-> NoText, base |-> <<>>, late |-> b] \in Task
    <2>1. /\ "idle" \in {"idle", "lock", "fetch", "fetched", "unlock", "relock", "edit", "push", "pushed", "refused"}
          /\ "none" \in {"none", "forced", "sync", "save"} /\ NoText \in Texts \cup {NoText}
      OBVIOUS
    <2> QED
      BY <1>1, <2>1, Zenon DEF Task
  <1>3. NoTask \in Task
    BY <1>2, Zenon DEF NoTask
  <1> QED
    BY <1>3 DEF NoTask

\* How a task changes.
LEMMA TaskSteps ==
    ASSUME task \in [Scribes -> Task], NEW h \in Scribes, NEW pc \in PCs, Step(h, pc)
    PROVE  /\ task' \in [Scribes -> Task] /\ \A g \in Scribes \ {h} : task'[g] = task[g]
           /\ task'[h].pc = pc /\ task'[h].op = task[h].op /\ task'[h].text = task[h].text /\ task'[h].base = task[h].base
           /\ task'[h].late <=> task[h].late
  <1>1. task' = [task EXCEPT ![h] = [task[h] EXCEPT !.pc = pc]]
    BY DEF Step
  <1>2. [task[h] EXCEPT !.pc = pc] \in Task
    BY DEF Task, PCs
  <1>3. task' \in [Scribes -> Task] /\ (\A g \in Scribes \ {h} : task'[g] = task[g]) /\ task'[h] = [task[h] EXCEPT !.pc = pc]
    BY <1>1, <1>2
  <1> QED
    BY <1>3 DEF Task

LEMMA TaskEnds ==
    ASSUME task \in [Scribes -> Task], NEW h \in Scribes, Ends(h)
    PROVE  /\ task' \in [Scribes -> Task] /\ \A g \in Scribes \ {h} : task'[g] = task[g]
           /\ task'[h].pc = "idle" /\ task'[h].op = "none"
  BY NoTaskIsFine DEF Ends

LEMMA LockFreed ==
    ASSUME holder \in Scribes \cup {NoText}, NEW h \in Scribes, Free(h)
    PROVE  holder' \in Scribes \cup {NoText} /\ \A g \in Scribes \ {h} : holder = g => holder' = g
  BY DEF Free

LEMMA TaskStarts ==
    ASSUME task \in [Scribes -> Task], NEW h \in Scribes, NEW op \in {"forced", "sync"},
           task' = [task EXCEPT ![h] = [NoTask EXCEPT !.pc = "lock", !.op = op]]
    PROVE  /\ task' \in [Scribes -> Task] /\ \A g \in Scribes \ {h} : task'[g] = task[g]
           /\ task'[h].pc = "lock" /\ task'[h].op = op
  <1> DEFINE n(q) == [q EXCEPT !.pc = "lock", !.op = op]
  <1>1. ASSUME NEW q \in Task PROVE n(q) \in Task /\ n(q).pc = "lock" /\ n(q).op = op
    BY DEF Task
  <1>2. n(NoTask) \in Task /\ n(NoTask).pc = "lock" /\ n(NoTask).op = op
    BY <1>1, NoTaskIsFine
  <1>3. task' = [task EXCEPT ![h] = n(NoTask)]
    OBVIOUS
  <1> HIDE DEF n
  <1> QED
    BY <1>2, <1>3

LEMMA SaveStarts ==
    ASSUME task \in [Scribes -> Task], NEW h \in Scribes, NEW e \in Texts \cup {NoText}, NEW t \in Texts,
           task' = [task EXCEPT ![h] = [NoTask EXCEPT !.pc = "lock", !.op = "save", !.seen = e, !.text = t]]
    PROVE  /\ task' \in [Scribes -> Task] /\ \A g \in Scribes \ {h} : task'[g] = task[g]
           /\ task'[h].pc = "lock" /\ task'[h].text = t
  <1> DEFINE n(q) == [q EXCEPT !.pc = "lock", !.op = "save", !.seen = e, !.text = t]
  <1>1. ASSUME NEW q \in Task PROVE n(q) \in Task /\ n(q).pc = "lock" /\ n(q).text = t
    BY DEF Task
  <1>2. n(NoTask) \in Task /\ n(NoTask).pc = "lock" /\ n(NoTask).text = t
    BY <1>1, NoTaskIsFine
  <1>3. task' = [task EXCEPT ![h] = n(NoTask)]
    OBVIOUS
  <1> HIDE DEF n
  <1> QED
    BY <1>2, <1>3

\* Requests on the row and on the editor's key, and requests that begin: no
\* git task gets ahead.
LEMMA DocsRequested ==
    ASSUME DocsInv, source' \in Source, source'.st = source.st \/ (source.st = "none" /\ source'.st = "live"),
           UNCHANGED <<remote, clone, holder, acked, stray>>, shown' \subseteq Texts, writekey' \in BOOLEAN,
           docOps' \in 0 .. MaxDocOps, task' \in [Scribes -> Task],
           \A g \in Scribes :
             \/ task'[g] = task[g]
             \/ task[g].pc = "idle" /\ task'[g].pc = "lock" /\ source'.st # "none" /\ (task'[g].op = "save" => task'[g].text \in Texts)
    PROVE  DocsInv'
  <1>1. \A g \in Scribes : TaskOK(g)'
    BY DocsParts DEF TaskOK
  <1>2. LockOK'
    <2>1. CASE source.st = "none"
      <3>1. \A g \in Scribes : ~At(g, Locked)'
        BY <2>1, DocsParts DEF TaskOK, At, Locked
      <3> QED
        BY <3>1 DEF LockOK, Locked
    <2>2. CASE source.st # "none"
      <3>1. \A g \in Scribes : At(g, Locked)' => At(g, Locked) /\ holder' = holder
        BY DEF At, Locked
      <3> QED
        BY <2>2, <3>1, LockKept, DocsParts DEF Live
    <2> QED
      BY <2>1, <2>2
  <1>3. CloneOK'
    <2>1. \A g \in Scribes : \/ task'[g] = task[g]
                             \/ ~At(g, {"push", "pushed", "refused"})' /\ ~At(g, {"push", "refused"})
      BY DEF At
    <2> QED
      BY <2>1, CloneKept, DocsParts
  <1>4. SavedIsOnRemote'
    BY DocsParts DEF SavedIsOnRemote
  <1> QED
    BY <1>1, <1>2, <1>3, <1>4, DocsParts, DocsFromParts

LEMMA Asked4Docs ==
    ASSUME DocsInv, Ask4Docs
    PROVE  docOps' \in 0 .. MaxDocOps
  BY DocsParts, DocsAssumption DEF Ask4Docs

\* The row with other settings.
LEMMA SourceNamed ==
    ASSUME NEW q \in Source, NEW kind \in {"git", "web"}, NEW b \in BOOLEAN
    PROVE  [q EXCEPT !.st = "live", !.kind = kind, !.ro = b] \in Source /\ [q EXCEPT !.st = "live", !.kind = kind, !.ro = b].st = "live"
  BY DEF Source

LEMMA SourceSet ==
    ASSUME NEW q \in Source, NEW b \in BOOLEAN, NEW d \in BOOLEAN
    PROVE  [q EXCEPT !.ro = b, !.key = d] \in Source /\ [q EXCEPT !.ro = b, !.key = d].st = q.st
  BY DEF Source

LEMMA SourceUnkeyed ==
    ASSUME NEW q \in Source, NEW d \in BOOLEAN
    PROVE  [q EXCEPT !.key = d] \in Source /\ [q EXCEPT !.key = d].st = q.st
  BY DEF Source

LEMMA SourceMarked ==
    ASSUME NEW q \in Source, NEW s \in {"pending", "syncing", "ready", "error"}
    PROVE  /\ [q EXCEPT !.status = s] \in Source /\ [q EXCEPT !.status = s].st = q.st
           /\ \A c \in Histories : [q EXCEPT !.status = s, !.head = c] \in Source /\ [q EXCEPT !.status = s, !.head = c].st = q.st
           /\ [q EXCEPT !.st = "deleted"] \in Source /\ [q EXCEPT !.st = "deleted"].st = "deleted"
  BY DEF Source

LEMMA DocsCreated ==
    ASSUME DocsInv, NEW h \in Scribes, NEW kind \in {"git", "web"}, NEW ro \in BOOLEAN, create_source(h, kind, ro)
    PROVE  DocsInv'
  <1>1. source' \in Source /\ source'.st = "live"
    <2>1. PICK b \in BOOLEAN : b <=> (kind = "web" \/ ro)
      BY Zenon
    <2>2. source' = [source EXCEPT !.st = "live", !.kind = kind, !.ro = b]
      BY <2>1, Zenon DEF create_source
    <2> HIDE <2>1
    <2> QED
      BY <2>2, SourceNamed, DocsParts, Zenon
  <1>2. /\ source.st = "none" /\ task[h] = NoTask /\ UNCHANGED <<writekey, remote, clone, holder, shown, acked, stray>>
        /\ docOps' \in 0 .. MaxDocOps
    BY Asked4Docs DEF create_source
  <1>3. CASE task' = task
    BY <1>1, <1>2, <1>3, DocsRequested, DocsParts
  <1>4. CASE task' = [task EXCEPT ![h] = [NoTask EXCEPT !.pc = "lock", !.op = "forced"]]
    <2>1. task' \in [Scribes -> Task] /\ (\A g \in Scribes \ {h} : task'[g] = task[g]) /\ task'[h].pc = "lock" /\ task'[h].op = "forced"
      BY <1>4, TaskStarts, DocsParts
    <2> QED
      BY <1>1, <1>2, <2>1, DocsRequested, DocsParts, NoTaskIsFine
  <1> QED
    BY <1>3, <1>4 DEF create_source, spawn_initial_sync

LEMMA DocsUpdated ==
    ASSUME DocsInv, NEW h \in Scribes, NEW ro \in BOOLEAN, NEW branch \in BOOLEAN, NEW rekey \in BOOLEAN,
           update_source(h, ro, branch, rekey)
    PROVE  DocsInv'
  <1>1. source' \in Source /\ source'.st = source.st
    <2>1. PICK d \in BOOLEAN : d <=> (source.key \/ rekey)
      BY Zenon
    <2>2. source' = [source EXCEPT !.ro = ro, !.key = d]
      BY <2>1, Zenon DEF update_source
    <2> HIDE <2>1
    <2> QED
      BY <2>2, SourceSet, DocsParts, Zenon
  <1>2. /\ source.st = "live" /\ task[h] = NoTask /\ UNCHANGED <<writekey, remote, clone, holder, shown, acked, stray>>
        /\ docOps' \in 0 .. MaxDocOps
    BY Asked4Docs DEF update_source, Live
  <1>3. CASE task' = task
    BY <1>1, <1>2, <1>3, DocsRequested, DocsParts
  <1>4. CASE task' = [task EXCEPT ![h] = [NoTask EXCEPT !.pc = "lock", !.op = "forced"]]
    <2>1. task' \in [Scribes -> Task] /\ (\A g \in Scribes \ {h} : task'[g] = task[g]) /\ task'[h].pc = "lock" /\ task'[h].op = "forced"
      BY <1>4, TaskStarts, DocsParts
    <2> QED
      BY <1>1, <1>2, <2>1, DocsRequested, DocsParts, NoTaskIsFine
  <1> QED
    BY <1>3, <1>4 DEF update_source, spawn_initial_sync

LEMMA DocsSmallRequests ==
    ASSUME DocsInv, deploy_key_deleted \/ put_my_key \/ delete_my_key \/ \E path \in RequestPaths : get_doc(path)
    PROVE  DocsInv'
  <1>1. CASE deploy_key_deleted
    <2>1. source' \in Source /\ source'.st = source.st
      BY <1>1, SourceUnkeyed, DocsParts, Zenon DEF deploy_key_deleted
    <2>2. UNCHANGED <<writekey, remote, clone, holder, task, shown, acked, stray>> /\ docOps' \in 0 .. MaxDocOps
      BY <1>1, Asked4Docs DEF deploy_key_deleted
    <2> QED
      BY <2>1, <2>2, DocsRequested, DocsParts
  <1>2. CASE put_my_key \/ delete_my_key
    <2>1. writekey' \in BOOLEAN
      BY <1>2 DEF put_my_key, delete_my_key
    <2>2. UNCHANGED <<source, remote, clone, holder, task, shown, acked, stray>> /\ docOps' \in 0 .. MaxDocOps
      BY <1>2, Asked4Docs DEF put_my_key, delete_my_key
    <2> QED
      BY <2>1, <2>2, DocsRequested, DocsParts
  <1>3. CASE \E path \in RequestPaths : get_doc(path)
    <2>1. clone # <<>> /\ shown' = shown \cup {Last(clone)} /\ UNCHANGED <<source, writekey, remote, clone, holder, task, docOps, acked, stray>>
      BY <1>3 DEF get_doc
    <2>2. Last(clone) \in Texts
      <3>1. clone \in Seq(Texts) /\ clone # <<>>
        BY <2>1, DocsParts DEF Commits
      <3>2. Len(clone) \in 1 .. Len(clone)
        BY <3>1, EmptySeq, LenProperties
      <3> QED
        BY <3>1, <3>2 DEF Last
    <2> QED
      BY <2>1, <2>2, DocsRequested, DocsParts
  <1> QED
    BY <1>1, <1>2, <1>3

LEMMA DocsBegins ==
    ASSUME DocsInv, NEW h \in Scribes, refresh_due(h) \/ sync_now(h)
    PROVE  DocsInv'
  <1>1. /\ task' = [task EXCEPT ![h] = [NoTask EXCEPT !.pc = "lock", !.op = "sync"]] /\ task[h] = NoTask /\ source.st = "live"
        /\ UNCHANGED <<source, writekey, remote, clone, holder, shown, acked, stray>> /\ docOps' \in 0 .. MaxDocOps
    BY Asked4Docs DEF refresh_due, sync_now, due_for_sync, Live
  <1>2. task' \in [Scribes -> Task] /\ (\A g \in Scribes \ {h} : task'[g] = task[g]) /\ task'[h].pc = "lock" /\ task'[h].op = "sync"
    BY <1>1, TaskStarts, DocsParts
  <1> QED
    BY <1>1, <1>2, DocsRequested, DocsParts, NoTaskIsFine

LEMMA DocsSaveBegins ==
    ASSUME DocsInv, NEW h \in Scribes, NEW e \in Texts \cup {NoText}, NEW t \in Texts, save_doc(h, e, t)
    PROVE  DocsInv'
  <1>1. /\ task' = [task EXCEPT ![h] = [NoTask EXCEPT !.pc = "lock", !.op = "save", !.seen = e, !.text = t]]
        /\ task[h] = NoTask /\ source.st = "live"
        /\ UNCHANGED <<source, writekey, remote, clone, holder, shown, acked, stray>> /\ docOps' \in 0 .. MaxDocOps
    BY Asked4Docs DEF save_doc, Live
  <1>2. task' \in [Scribes -> Task] /\ (\A g \in Scribes \ {h} : task'[g] = task[g]) /\ task'[h].pc = "lock" /\ task'[h].text = t
    BY <1>1, SaveStarts, DocsParts
  <1> QED
    BY <1>1, <1>2, DocsRequested, DocsParts, NoTaskIsFine

\* One handler moves; it holds the lock where it needs it and takes it from
\* nobody.
LEMMA DocsHandlerMoves ==
    ASSUME DocsInv, NEW h \in Scribes, source' \in Source, source'.st = source.st, UNCHANGED <<writekey, shown, docOps>>,
           remote' \in Histories \ {<<>>}, clone' \in Histories, acked' \subseteq Histories, stray' \in BOOLEAN,
           task' \in [Scribes -> Task], \A g \in Scribes \ {h} : task'[g] = task[g], TaskOK(h)',
           holder' \in Scribes \cup {NoText}, \A g \in Scribes \ {h} : holder = g => holder' = g,
           Live \/ ~stray' => Live \/ ~stray,
           At(h, Locked)' /\ (Live \/ ~stray) => holder' = h,
           CloneOK', SavedIsOnRemote'
    PROVE  DocsInv'
  <1>1. \A g \in Scribes : TaskOK(g)'
    BY DocsParts DEF TaskOK
  <1>2. LockOK'
    <2> SUFFICES ASSUME Live' \/ ~stray', NEW g \in Scribes, At(g, Locked)' PROVE holder' = g
      BY DEF LockOK, Locked
    <2>1. Live \/ ~stray
      BY DEF Live
    <2>2. CASE g = h
      BY <2>1, <2>2
    <2>3. CASE g # h
      BY <2>1, <2>3, DocsParts DEF LockOK, Locked, At
    <2> QED
      BY <2>2, <2>3
  <1> QED
    BY <1>1, <1>2, DocsParts, DocsFromParts

\* A step that leaves the clone, the remote and what was told alone.
LEMMA DocsHandlerSteps ==
    ASSUME DocsInv, NEW h \in Scribes, source' \in Source, source'.st = source.st,
           UNCHANGED <<writekey, remote, clone, shown, docOps, acked>>, stray' \in BOOLEAN, stray => stray',
           task' \in [Scribes -> Task], \A g \in Scribes \ {h} : task'[g] = task[g], TaskOK(h)',
           holder' \in Scribes \cup {NoText}, \A g \in Scribes \ {h} : holder = g => holder' = g,
           At(h, Locked)' /\ (Live \/ ~stray) => holder' = h,
           ~At(h, {"push", "pushed", "refused"})', stray' \/ ~At(h, {"push", "refused"})
    PROVE  DocsInv'
  <1>1. CloneOK'
    <2>1. CASE stray'
      BY <2>1 DEF CloneOK
    <2>2. CASE ~stray'
      BY <2>2, CloneKept, DocsParts
    <2> QED
      BY <2>1, <2>2
  <1>2. SavedIsOnRemote'
    BY DocsParts DEF SavedIsOnRemote
  <1> QED
    BY <1>1, <1>2, DocsParts, DocsHandlerMoves

LEMMA DocsClaimed ==
    ASSUME DocsInv, NEW h \in Scribes, claim_for_sync(h)
    PROVE  DocsInv'
  <1>1. task[h].pc = "lock" /\ holder = NoText /\ holder' = h /\ UNCHANGED <<writekey, remote, clone, shown, docOps, acked, stray>>
    BY DEF claim_for_sync, lock_for
  <1>2. source' \in Source /\ source'.st = source.st
    BY SourceMarked, DocsParts DEF claim_for_sync
  <1>3. PICK pc \in {"fetch", "unlock"} : Step(h, pc)
    BY DEF claim_for_sync
  <1>4. /\ task' \in [Scribes -> Task] /\ \A g \in Scribes \ {h} : task'[g] = task[g]
        /\ task'[h].pc = pc /\ task'[h].op = task[h].op /\ task'[h].text = task[h].text
    BY <1>3, TaskSteps, DocsParts DEF PCs
  <1>5. TaskOK(h)'
    BY <1>1, <1>2, <1>4, DocsParts DEF TaskOK
  <1>6. ~At(h, {"push", "pushed", "refused"})' /\ ~At(h, {"push", "refused"})
    BY <1>1, <1>4 DEF At
  <1>7. \A g \in Scribes \ {h} : holder = g => holder' = g
    BY <1>1, DocsAssumption
  <1> QED
    BY <1>1, <1>2, <1>4, <1>5, <1>6, <1>7, DocsParts, DocsHandlerSteps

LEMMA DocsRelocked ==
    ASSUME DocsInv, NEW h \in Scribes, relock(h)
    PROVE  DocsInv'
  <1>1. task[h].pc = "relock" /\ holder = NoText /\ holder' = h /\ UNCHANGED <<source, writekey, remote, clone, shown, docOps, acked, stray>>
    BY DEF relock, lock_for
  <1>2. /\ task' \in [Scribes -> Task] /\ \A g \in Scribes \ {h} : task'[g] = task[g]
        /\ task'[h].pc = "edit" /\ task'[h].op = task[h].op /\ task'[h].text = task[h].text
    BY TaskSteps, DocsParts DEF PCs, relock
  <1>3. TaskOK(h)'
    BY <1>1, <1>2, DocsParts DEF TaskOK
  <1>4. ~At(h, {"push", "pushed", "refused"})' /\ ~At(h, {"push", "refused"})
    BY <1>1, <1>2 DEF At
  <1>5. \A g \in Scribes \ {h} : holder = g => holder' = g
    BY <1>1, DocsAssumption
  <1> QED
    BY <1>1, <1>2, <1>3, <1>4, <1>5, DocsParts, DocsHandlerSteps

LEMMA DocsSynced ==
    ASSUME DocsInv, NEW c \in Histories, mark_synced(c) \/ mark_failed \/ UNCHANGED source
    PROVE  source' \in Source /\ source'.st = source.st
  <1>1. source \in Source /\ "ready" \in {"pending", "syncing", "ready", "error"} /\ "error" \in {"pending", "syncing", "ready", "error"}
    BY DocsParts
  <1>2. /\ [source EXCEPT !.status = "error"] \in Source /\ [source EXCEPT !.status = "error"].st = source.st
        /\ [source EXCEPT !.status = "ready", !.head = c] \in Source /\ [source EXCEPT !.status = "ready", !.head = c].st = source.st
    BY <1>1, SourceMarked, Zenon
  <1> QED
    BY <1>1, <1>2, Zenon DEF mark_synced, mark_failed

LEMMA DocsFetchMarked ==
    ASSUME DocsInv, NEW h \in Scribes, fetched(h)
    PROVE  DocsInv'
  <1>1. At(h, {"fetched"}) /\ UNCHANGED <<writekey, remote, clone, holder, shown, docOps, acked, stray>>
    BY DEF fetched, At
  <1>2. source' \in Source /\ source'.st = source.st
    BY DocsSynced, DocsParts DEF fetched
  <1>3. /\ task' \in [Scribes -> Task] /\ \A g \in Scribes \ {h} : task'[g] = task[g]
        /\ task'[h].pc = "unlock" /\ task'[h].op = task[h].op /\ task'[h].text = task[h].text
    BY TaskSteps, DocsParts DEF PCs, fetched
  <1>4. TaskOK(h)'
    BY <1>1, <1>2, <1>3, DocsParts DEF TaskOK, At
  <1>5. ~At(h, {"push", "pushed", "refused"})' /\ ~At(h, {"push", "refused"}) /\ At(h, Locked)
    BY <1>1, <1>3 DEF At, Locked
  <1>6. Live \/ ~stray => holder' = h
    BY <1>1, <1>5, DocsParts DEF LockOK, Locked
  <1> QED
    BY <1>1, <1>2, <1>3, <1>4, <1>5, <1>6, DocsParts, DocsHandlerSteps

LEMMA DocsFetchFailed ==
    ASSUME DocsInv, NEW h \in Scribes, fetch_failed(h)
    PROVE  DocsInv'
  <1>1. task[h].pc = "fetch" /\ Free(h) /\ UNCHANGED <<writekey, remote, clone, shown, docOps, acked, stray>>
    BY DEF fetch_failed
  <1>2. source' \in Source /\ source'.st = source.st
    BY DocsSynced, DocsParts DEF fetch_failed
  <1>3. task' \in [Scribes -> Task] /\ (\A g \in Scribes \ {h} : task'[g] = task[g]) /\ task'[h].pc = "idle" /\ task'[h].op = "none"
    BY TaskEnds, DocsParts DEF fetch_failed
  <1>4. TaskOK(h)'
    BY <1>2, <1>3 DEF TaskOK
  <1>5. ~At(h, {"push", "pushed", "refused"})' /\ ~At(h, {"push", "refused"}) /\ ~At(h, Locked)'
    BY <1>1, <1>3 DEF At, Locked
  <1>6. holder' \in Scribes \cup {NoText} /\ \A g \in Scribes \ {h} : holder = g => holder' = g
    BY <1>1, LockFreed, DocsParts
  <1> QED
    BY <1>1, <1>2, <1>3, <1>4, <1>5, <1>6, DocsParts, DocsHandlerSteps

LEMMA DocsUnlocked ==
    ASSUME DocsInv, NEW h \in Scribes, unlock(h)
    PROVE  DocsInv'
  <1>1. task[h].pc = "unlock" /\ Free(h) /\ UNCHANGED <<source, writekey, remote, clone, shown, docOps, acked, stray>>
    BY DEF unlock
  <1>2. /\ task' \in [Scribes -> Task] /\ \A g \in Scribes \ {h} : task'[g] = task[g]
        /\ \/ task[h].op = "save" /\ task'[h].pc = "relock" /\ task'[h].op = task[h].op /\ task'[h].text = task[h].text
           \/ task'[h].pc = "idle" /\ task'[h].op = "none"
    BY TaskSteps, TaskEnds, DocsParts DEF PCs, unlock
  <1>3. TaskOK(h)'
    BY <1>1, <1>2, DocsParts DEF TaskOK
  <1>4. ~At(h, {"push", "pushed", "refused"})' /\ ~At(h, {"push", "refused"}) /\ ~At(h, Locked)'
    BY <1>1, <1>2 DEF At, Locked
  <1>5. holder' \in Scribes \cup {NoText} /\ \A g \in Scribes \ {h} : holder = g => holder' = g
    BY <1>1, LockFreed, DocsParts
  <1> QED
    BY <1>1, <1>2, <1>3, <1>4, <1>5, DocsParts, DocsHandlerSteps

LEMMA DocsTimesOut ==
    ASSUME DocsInv, NEW h \in Scribes, times_out(h)
    PROVE  DocsInv'
  <1>1. /\ task[h].pc \in {"fetch", "edit", "push", "refused"} /\ Free(h) /\ UNCHANGED <<writekey, remote, clone, shown, docOps, acked>>
        /\ stray' = (stray \/ task[h].pc \in {"push", "refused"})
    BY DEF times_out
  <1>2. source' \in Source /\ source'.st = source.st
    BY DocsSynced, DocsParts DEF times_out
  <1>3. /\ task' \in [Scribes -> Task] /\ \A g \in Scribes \ {h} : task'[g] = task[g]
        /\ task'[h].pc = task[h].pc /\ task'[h].op = task[h].op /\ task'[h].text = task[h].text
        /\ task'[h].base = task[h].base /\ task'[h].late
    <2>1. task' = [task EXCEPT ![h] = [task[h] EXCEPT !.late = TRUE]]
      BY DEF times_out
    <2> DEFINE n == [task[h] EXCEPT !.late = TRUE]
    <2>2. n \in Task /\ n.pc = task[h].pc /\ n.op = task[h].op /\ n.text = task[h].text /\ n.base = task[h].base /\ n.late
      BY DocsParts DEF Task
    <2> HIDE DEF n
    <2> QED
      BY <2>1, <2>2, DocsParts DEF n
  <1>4. TaskOK(h)'
    BY <1>2, <1>3, DocsParts DEF TaskOK
  <1>5. ~At(h, {"push", "pushed", "refused"})' /\ ~At(h, Locked)'
    BY <1>3 DEF At
  <1>6. holder' \in Scribes \cup {NoText} /\ \A g \in Scribes \ {h} : holder = g => holder' = g
    BY <1>1, LockFreed, DocsParts
  <1>7. stray' \in BOOLEAN /\ (stray => stray') /\ (stray' \/ ~At(h, {"push", "refused"}))
    BY <1>1 DEF At
  <1> QED
    BY <1>1, <1>2, <1>3, <1>4, <1>5, <1>6, <1>7, DocsParts, DocsHandlerSteps

LEMMA DocsLateEnds ==
    ASSUME DocsInv, NEW h \in Scribes, late_task_ends(h)
    PROVE  DocsInv'
  <1>1. task[h].late /\ UNCHANGED <<source, writekey, remote, clone, holder, shown, docOps, acked, stray>>
    BY DEF late_task_ends
  <1>2. task' \in [Scribes -> Task] /\ (\A g \in Scribes \ {h} : task'[g] = task[g]) /\ task'[h].pc = "idle" /\ task'[h].op = "none"
    BY TaskEnds, DocsParts DEF late_task_ends
  <1>3. TaskOK(h)'
    BY <1>2 DEF TaskOK
  <1>4. ~At(h, {"push", "pushed", "refused"})' /\ ~At(h, {"push", "refused"}) /\ ~At(h, Locked)'
    BY <1>1, <1>2 DEF At, Locked
  <1> QED
    BY <1>1, <1>2, <1>3, <1>4, DocsParts, DocsHandlerSteps

\* The holder of the lock is alone with the clone.
LEMMA HolderIsAlone ==
    ASSUME DocsInv, Live \/ ~stray, NEW h \in Scribes, At(h, Locked)
    PROVE  holder = h /\ \A g \in Scribes \ {h} : ~At(g, {"push", "refused"}) /\ ~At(g, {"pushed"})
  <1>1. \A g \in Scribes : At(g, Locked) => holder = g
    BY DocsParts DEF LockOK, Locked
  <1>2. \A g \in Scribes : At(g, {"push", "refused"}) \/ At(g, {"pushed"}) => At(g, Locked)
    BY DEF At, Locked
  <1> QED
    BY <1>1, <1>2

LEMMA DocsFetched ==
    ASSUME DocsInv, NEW h \in Scribes, fetch(h)
    PROVE  DocsInv'
  <1>1. task[h].pc = "fetch" /\ clone' = remote /\ UNCHANGED <<source, writekey, remote, holder, shown, docOps, acked>>
    BY DEF fetch
  <1>2. stray' \in BOOLEAN /\ (~stray' => ~task[h].late /\ (Live \/ ~stray))
    BY DocsParts, Zenon DEF fetch
  <1>3. /\ task' \in [Scribes -> Task] /\ \A g \in Scribes \ {h} : task'[g] = task[g]
        /\ task'[h].pc = "fetched" /\ task'[h].op = task[h].op /\ task'[h].text = task[h].text
        /\ task'[h].late <=> task[h].late
    BY TaskSteps, DocsParts DEF PCs, fetch
  <1>4. TaskOK(h)'
    BY <1>1, <1>3, DocsParts DEF TaskOK
  <1>5. (At(h, Locked)' => At(h, Locked)) /\ (~task[h].late => At(h, Locked))
    BY <1>1, <1>3 DEF At, Locked
  <1>6. At(h, Locked)' /\ (Live \/ ~stray) => holder' = h
    BY <1>1, <1>5, HolderIsAlone
  <1>7. CloneOK'
    <2> SUFFICES ASSUME ~stray' PROVE CloneOK'
      BY DEF CloneOK
    <2>1. \A g \in Scribes \ {h} : ~At(g, {"push", "refused"}) /\ ~At(g, {"pushed"})
      BY <1>2, <1>5, HolderIsAlone
    <2>2. \A g \in Scribes : ~At(g, {"push", "refused"})' /\ ~At(g, {"pushed"})'
      BY <1>3, <2>1 DEF At
    <2>3. IsPrefix(clone', remote')
      BY <1>1, PrefixOfItself, DocsParts
    <2> QED
      BY <2>2, <2>3 DEF CloneOK
  <1>8. SavedIsOnRemote'
    BY <1>1, DocsParts DEF SavedIsOnRemote
  <1> QED
    BY <1>1, <1>2, <1>3, <1>4, <1>6, <1>7, <1>8, DocsParts, DocsHandlerMoves

LEMMA DocsEdited ==
    ASSUME DocsInv, NEW h \in Scribes, edit(h)
    PROVE  DocsInv'
  <1>1. task[h].pc = "edit" /\ task[h].op = "save" /\ task[h].text \in Texts /\ UNCHANGED <<writekey, remote, shown, docOps>>
    BY DocsParts DEF edit, TaskOK
  <1>2. stray' \in BOOLEAN /\ (stray => stray') /\ (task[h].late => stray') /\ (~stray /\ ~task[h].late => ~stray')
    BY DocsParts, Zenon DEF edit
  <1>3. ~At(h, {"push", "refused"}) /\ (~task[h].late => At(h, Locked))
    BY <1>1 DEF At, Locked
  <1>4. ~stray' => /\ \A g \in Scribes : ~At(g, {"push", "refused"})
                   /\ \A g \in Scribes \ {h} : ~At(g, {"pushed"})
                   /\ IsPrefix(clone, remote) /\ holder = h
    <2> SUFFICES ASSUME ~stray' PROVE /\ \A g \in Scribes : ~At(g, {"push", "refused"})
                                      /\ \A g \in Scribes \ {h} : ~At(g, {"pushed"})
                                      /\ IsPrefix(clone, remote) /\ holder = h
      OBVIOUS
    <2>1. ~stray /\ At(h, Locked)
      BY <1>2, <1>3
    <2>2. (\A g \in Scribes : ~At(g, {"push", "refused"})) /\ (\A g \in Scribes \ {h} : ~At(g, {"pushed"})) /\ holder = h
      BY <1>3, <2>1, HolderIsAlone
    <2> QED
      BY <2>1, <2>2, DocsParts DEF CloneOK
  <1>5. CASE Ends(h) /\ Free(h) /\ clone' = clone
    <2>1. task' \in [Scribes -> Task] /\ (\A g \in Scribes \ {h} : task'[g] = task[g]) /\ task'[h].pc = "idle" /\ task'[h].op = "none"
      BY <1>5, TaskEnds, DocsParts
    <2>2. source' \in Source /\ source'.st = source.st
      BY <1>1, DocsSynced, DocsParts DEF edit
    <2>3. acked' \subseteq acked \cup {clone} /\ (stray \/ task[h].late => acked' = acked)
      BY <1>1 DEF edit, Acked
    <2>4. TaskOK(h)'
      BY <2>1, <2>2 DEF TaskOK
    <2>5. ~At(h, Locked)' /\ ~At(h, {"push", "pushed", "refused"})'
      BY <2>1 DEF At, Locked
    <2>6. holder' \in Scribes \cup {NoText} /\ \A g \in Scribes \ {h} : holder = g => holder' = g
      BY <1>5, LockFreed, DocsParts
    <2>7. CloneOK'
      BY <1>1, <1>2, <1>3, <1>5, <2>1, <2>5, CloneKept, DocsParts
    <2>8. SavedIsOnRemote'
      <3>1. CASE stray \/ task[h].late
        BY <1>1, <2>3, <3>1, DocsParts DEF SavedIsOnRemote
      <3>2. CASE ~stray /\ ~task[h].late
        BY <1>1, <1>2, <1>4, <2>3, <3>2, DocsParts DEF SavedIsOnRemote
      <3> QED
        BY <3>1, <3>2
    <2> QED
      BY <1>1, <1>2, <1>5, <2>1, <2>2, <2>3, <2>4, <2>5, <2>6, <2>7, <2>8, DocsParts, DocsHandlerMoves
  <1>6. CASE /\ Len(clone) < MaxCommits /\ clone' = Append(clone, task[h].text)
             /\ task' = [task EXCEPT ![h].pc = "push", ![h].base = clone] /\ UNCHANGED <<source, holder, acked>>
    <2>1. clone' \in Histories
      BY <1>1, <1>6, HistoryExtends, DocsParts
    <2>2. /\ task' \in [Scribes -> Task] /\ \A g \in Scribes \ {h} : task'[g] = task[g]
          /\ task'[h].pc = "push" /\ task'[h].op = task[h].op /\ task'[h].text = task[h].text /\ task'[h].base = clone
          /\ task'[h].late <=> task[h].late
      <3> DEFINE n == [task[h] EXCEPT !.pc = "push", !.base = clone]
      <3>1. /\ n \in Task /\ n.pc = "push" /\ n.op = task[h].op /\ n.text = task[h].text /\ n.base = clone
            /\ n.late <=> task[h].late
        BY DocsParts DEF Task
      <3>2. task' = [task EXCEPT ![h] = n]
        BY <1>6, DocsParts
      <3> HIDE DEF n
      <3> QED
        BY <3>1, <3>2, DocsParts
    <2>3. TaskOK(h)'
      BY <1>1, <1>6, <2>2, DocsParts DEF TaskOK
    <2>4. At(h, Locked)' => At(h, Locked)
      BY <1>3, <2>2 DEF At
    <2>5. At(h, Locked)' /\ (Live \/ ~stray) => holder' = h
      BY <1>6, <2>4, HolderIsAlone
    <2>6. CloneOK'
      <3> SUFFICES ASSUME ~stray' PROVE CloneOK'
        BY DEF CloneOK
      <3>1. \A g \in Scribes \ {h} : ~At(g, {"push", "refused"})' /\ ~At(g, {"pushed"})'
        BY <1>4, <2>2 DEF At
      <3>2. ~At(h, {"pushed"})' /\ At(h, {"push", "refused"})'
        BY <1>2, <2>2 DEF At
      <3>3. clone' = Append(task'[h].base, task'[h].text) /\ IsPrefix(task'[h].base, remote')
        BY <1>1, <1>4, <1>6, <2>2
      <3> QED
        BY <3>1, <3>2, <3>3 DEF CloneOK
    <2>7. SavedIsOnRemote'
      BY <1>1, <1>6, DocsParts DEF SavedIsOnRemote
    <2> QED
      BY <1>1, <1>2, <1>6, <2>1, <2>2, <2>3, <2>5, <2>6, <2>7, DocsParts, DocsHandlerMoves
  <1> QED
    BY <1>5, <1>6 DEF edit

\* Histories of the remote only grow: what was on it stays.
LEMMA RemoteGrows ==
    ASSUME DocsInv, remote' \in Commits, IsPrefix(remote, remote')
    PROVE  /\ \A c \in Commits : IsPrefix(c, remote) => IsPrefix(c, remote')
           /\ acked' = acked => SavedIsOnRemote'
  BY PrefixChain, DocsParts DEF SavedIsOnRemote

LEMMA DocsPushed ==
    ASSUME DocsInv, NEW h \in Scribes, push(h)
    PROVE  DocsInv'
  <1>1. /\ task[h].pc = "push" /\ task[h].op = "save" /\ task[h].text \in Texts /\ Len(task[h].base) < MaxCommits
        /\ UNCHANGED <<source, writekey, clone, holder, shown, docOps, acked>>
    BY DocsParts DEF push, TaskOK
  <1>2. stray' \in BOOLEAN /\ (stray => stray') /\ (task[h].late => stray')
    BY DocsParts, Zenon DEF push
  <1>3. \/ Step(h, "pushed") /\ remote' = clone /\ clone # <<>> /\ IsPrefix(remote, clone)
        \/ Step(h, "refused") /\ remote' = remote
    BY DEF push
  <1>4. remote' \in Histories \ {<<>>} /\ remote' \in Commits /\ IsPrefix(remote, remote')
    BY <1>3, PrefixOfItself, DocsParts
  <1>5. PICK pc \in {"pushed", "refused"} : Step(h, pc) /\ (pc = "pushed" => remote' = clone) /\ (pc = "refused" => remote' = remote)
    BY <1>3
  <1>6. /\ task' \in [Scribes -> Task] /\ \A g \in Scribes \ {h} : task'[g] = task[g]
        /\ task'[h].pc = pc /\ task'[h].op = task[h].op /\ task'[h].text = task[h].text /\ task'[h].base = task[h].base
        /\ task'[h].late <=> task[h].late
    BY <1>5, TaskSteps, DocsParts DEF PCs
  <1>7. TaskOK(h)'
    BY <1>1, <1>6, DocsParts DEF TaskOK
  <1>8. (At(h, Locked)' => At(h, Locked)) /\ (~task[h].late => At(h, Locked) /\ At(h, {"push", "refused"}))
    BY <1>1, <1>6 DEF At, Locked
  <1>9. At(h, Locked)' /\ (Live \/ ~stray) => holder' = h
    BY <1>1, <1>8, HolderIsAlone
  <1>10. CloneOK'
    <2> SUFFICES ASSUME ~stray' PROVE CloneOK'
      BY DEF CloneOK
    <2>1. ~stray /\ ~task[h].late /\ At(h, Locked) /\ At(h, {"push", "refused"})
      BY <1>2, <1>8
    <2>2. clone = Append(task[h].base, task[h].text) /\ IsPrefix(task[h].base, remote)
      BY <2>1, DocsParts DEF CloneOK
    <2>3. \A g \in Scribes \ {h} : ~At(g, {"push", "refused"})' /\ ~At(g, {"pushed"})'
      BY <1>6, <2>1, HolderIsAlone DEF At
    <2>4. task[h].base \in Commits
      BY DocsParts, HistoriesAre DEF Task
    <2>5. IsPrefix(task[h].base, remote')
      BY <1>4, <2>2, <2>4, RemoteGrows
    <2>6. CASE pc = "pushed"
      <3>1. ~At(h, {"push", "refused"})' /\ IsPrefix(clone', remote') /\ IsPrefix(Append(task'[h].base, task'[h].text), remote')
        <4>1. clone' = clone /\ remote' = clone /\ Append(task'[h].base, task'[h].text) = clone
          BY <1>1, <1>5, <1>6, <2>2, <2>6
        <4>2. IsPrefix(clone, clone) /\ ~At(h, {"push", "refused"})'
          BY <1>6, <2>6, PrefixOfItself, DocsParts DEF At
        <4> QED
          BY <4>1, <4>2
      <3> QED
        BY <2>3, <3>1 DEF CloneOK
    <2>7. CASE pc = "refused"
      <3>1. At(h, {"push", "refused"})' /\ ~At(h, {"pushed"})'
        BY <1>6, <2>1, <2>7 DEF At
      <3>2. clone' = Append(task'[h].base, task'[h].text) /\ IsPrefix(task'[h].base, remote')
        BY <1>1, <1>6, <2>2, <2>5
      <3> QED
        BY <2>3, <3>1, <3>2 DEF CloneOK
    <2> QED
      BY <2>6, <2>7
  <1>11. SavedIsOnRemote'
    BY <1>1, <1>4, RemoteGrows
  <1> QED
    BY <1>1, <1>2, <1>4, <1>6, <1>7, <1>9, <1>10, <1>11, DocsParts, DocsHandlerMoves

LEMMA DocsTold ==
    ASSUME DocsInv, NEW h \in Scribes, pushed(h)
    PROVE  DocsInv'
  <1> DEFINE c == Append(task[h].base, task[h].text)
  <1>1. At(h, {"pushed"}) /\ Free(h) /\ UNCHANGED <<writekey, remote, clone, shown, docOps, stray>> /\ mark_synced(c) /\ Acked(c)
    BY DEF pushed, At
  <1>2. c \in Histories
    <2>1. task[h].text \in Texts /\ Len(task[h].base) < MaxCommits /\ task[h].base \in Histories
      BY <1>1, DocsParts DEF At, TaskOK, Task
    <2> QED
      BY <2>1, HistoryExtends
  <1>3. ~stray => IsPrefix(c, remote)
    BY <1>1, DocsParts DEF CloneOK
  <1> HIDE DEF c
  <1>4. source' \in Source /\ source'.st = source.st
    BY <1>1, <1>2, DocsSynced
  <1>5. task' \in [Scribes -> Task] /\ (\A g \in Scribes \ {h} : task'[g] = task[g]) /\ task'[h].pc = "idle" /\ task'[h].op = "none"
    BY TaskEnds, DocsParts DEF pushed
  <1>6. acked' \subseteq Histories /\ SavedIsOnRemote'
    BY <1>1, <1>2, <1>3, DocsParts DEF Acked, SavedIsOnRemote
  <1>7. TaskOK(h)'
    BY <1>4, <1>5 DEF TaskOK
  <1>8. ~At(h, {"push", "pushed", "refused"})' /\ ~At(h, {"push", "refused"}) /\ ~At(h, Locked)'
    BY <1>1, <1>5 DEF At, Locked
  <1>9. holder' \in Scribes \cup {NoText} /\ \A g \in Scribes \ {h} : holder = g => holder' = g
    BY <1>1, LockFreed, DocsParts
  <1>10. CloneOK'
    BY <1>1, <1>5, <1>8, CloneKept, DocsParts
  <1> QED
    BY <1>1, <1>4, <1>5, <1>6, <1>7, <1>8, <1>9, <1>10, DocsParts, DocsHandlerMoves

LEMMA DocsRolledBack ==
    ASSUME DocsInv, NEW h \in Scribes, NEW undone \in BOOLEAN, rollback(h, undone)
    PROVE  DocsInv'
  <1>1. task[h].pc = "refused" /\ Free(h) /\ UNCHANGED <<source, writekey, remote, shown, docOps, acked>>
    BY DEF rollback
  <1>2. stray' \in BOOLEAN /\ (stray => stray') /\ (task[h].late => stray') /\ (~stray' => undone)
    BY DocsParts, Zenon DEF rollback
  <1>3. task' \in [Scribes -> Task] /\ (\A g \in Scribes \ {h} : task'[g] = task[g]) /\ task'[h].pc = "idle" /\ task'[h].op = "none"
    BY TaskEnds, DocsParts DEF rollback
  <1>4. task[h].base \in Histories /\ task[h].base \in Commits /\ task[h].text \in Texts
    BY <1>1, DocsParts, HistoriesAre DEF Task, TaskOK
  <1>5. clone' \in Histories /\ (clone' = clone \/ clone' = task[h].base) /\ (undone /\ clone # <<>> => clone' = task[h].base)
    BY <1>4, DocsParts DEF rollback
  <1>6. TaskOK(h)'
    BY <1>3 DEF TaskOK
  <1>7. ~At(h, {"push", "pushed", "refused"})' /\ ~At(h, {"push", "refused"})' /\ ~At(h, {"pushed"})' /\ ~At(h, Locked)'
    BY <1>3 DEF At, Locked
  <1>8. holder' \in Scribes \cup {NoText} /\ \A g \in Scribes \ {h} : holder = g => holder' = g
    BY <1>1, LockFreed, DocsParts
  <1>9. CloneOK'
    <2> SUFFICES ASSUME ~stray' PROVE CloneOK'
      BY DEF CloneOK
    <2>1. ~stray /\ At(h, {"push", "refused"}) /\ At(h, Locked) /\ undone
      BY <1>1, <1>2 DEF At, Locked
    <2>2. clone = Append(task[h].base, task[h].text) /\ IsPrefix(task[h].base, remote)
      BY <2>1, DocsParts DEF CloneOK
    <2>3. clone # <<>>
      BY <1>4, <2>2, CommitExtends
    <2>4. \A g \in Scribes \ {h} : ~At(g, {"push", "refused"})' /\ ~At(g, {"pushed"})'
      BY <1>3, <2>1, HolderIsAlone DEF At
    <2>5. IsPrefix(clone', remote')
      BY <1>1, <1>5, <2>1, <2>2, <2>3
    <2> QED
      BY <1>7, <2>4, <2>5 DEF CloneOK
  <1>10. SavedIsOnRemote'
    BY <1>1, DocsParts DEF SavedIsOnRemote
  <1> QED
    BY <1>1, <1>2, <1>3, <1>5, <1>6, <1>7, <1>8, <1>9, <1>10, DocsParts, DocsHandlerMoves

LEMMA DocsRemoteCommits ==
    ASSUME DocsInv, NEW t \in Texts, remote_commit(t)
    PROVE  DocsInv'
  <1>1. /\ Len(remote) < MaxCommits /\ remote' = Append(remote, t) /\ docOps' \in 0 .. MaxDocOps
        /\ UNCHANGED <<source, writekey, clone, holder, task, shown, acked, stray>>
    BY Asked4Docs DEF remote_commit
  <1>2. remote' \in Histories \ {<<>>} /\ remote' \in Commits /\ IsPrefix(remote, remote')
    BY <1>1, DocsParts, CommitExtends, HistoryExtends
  <1>3. /\ \A c \in Commits : IsPrefix(c, remote) => IsPrefix(c, remote')
        /\ SavedIsOnRemote'
    BY <1>1, <1>2, RemoteGrows
  <1>4. \A h \in Scribes : At(h, {"push", "refused"}) \/ At(h, {"pushed"}) =>
                             task[h].base \in Commits /\ Append(task[h].base, task[h].text) \in Commits
    <2>1. ASSUME NEW h \in Scribes, At(h, {"push", "refused"}) \/ At(h, {"pushed"})
          PROVE  task[h].base \in Histories /\ task[h].text \in Texts
      BY <2>1, DocsParts DEF At, TaskOK, Task
    <2> QED
      BY <2>1, HistoriesAre, CommitExtends
  <1>5. \A h \in Scribes : /\ At(h, {"push", "refused"})' <=> At(h, {"push", "refused"})
                           /\ At(h, {"pushed"})' <=> At(h, {"pushed"})
    BY <1>1 DEF At
  <1>6. CloneOK'
    BY <1>1, <1>3, <1>4, <1>5, DocsParts DEF CloneOK
  <1>7. LockOK'
    BY <1>1, DocsParts DEF LockOK, At, Live
  <1>8. \A h \in Scribes : TaskOK(h)'
    BY <1>1, DocsParts DEF TaskOK
  <1> QED
    BY <1>1, <1>2, <1>3, <1>6, <1>7, <1>8, DocsParts, DocsFromParts

\* Deleted while nobody held its lock, the source takes nothing with it.
LEMMA DocsDeleted ==
    ASSUME DocsInv, delete_source
    PROVE  DocsInv'
  <1>1. /\ source.st = "live" /\ source' \in Source /\ source'.st = "deleted" /\ docOps' \in 0 .. MaxDocOps
        /\ holder' = NoText /\ (clone' = <<>> \/ clone' = clone) /\ UNCHANGED <<writekey, remote, task, shown, acked>>
    BY Asked4Docs, SourceMarked, DocsParts DEF delete_source, forget_lock, remove_cache, Live
  <1>2. stray' \in BOOLEAN /\ (~stray' => ~stray /\ holder = NoText)
    BY DocsParts, Zenon DEF delete_source, forget_lock
  <1>3. ~stray' => \A h \in Scribes : ~At(h, Locked)
    BY <1>1, <1>2, DocsParts, DocsAssumption DEF LockOK, Locked, Live
  <1>4. \A h \in Scribes : /\ At(h, Locked)' <=> At(h, Locked)
                           /\ At(h, {"push", "refused"}) => At(h, Locked)
                           /\ At(h, {"push", "refused"})' => At(h, Locked)
                           /\ At(h, {"pushed"})' => At(h, Locked)
    BY <1>1 DEF At, Locked
  <1>5. LockOK'
    BY <1>1, <1>3, <1>4 DEF LockOK, Locked, Live
  <1>6. clone' \in Histories /\ (IsPrefix(clone, remote) => IsPrefix(clone', remote'))
    BY <1>1, DocsParts, NothingIsPrefix, HistoriesAre, DocsAssumption
  <1>7. CloneOK'
    BY <1>2, <1>3, <1>4, <1>6, DocsParts DEF CloneOK
  <1>8. SavedIsOnRemote' /\ \A h \in Scribes : TaskOK(h)'
    BY <1>1, DocsParts DEF SavedIsOnRemote, TaskOK
  <1> QED
    BY <1>1, <1>2, <1>5, <1>6, <1>7, <1>8, DocsParts, DocsFromParts

LEMMA DocsRestarts ==
    ASSUME DocsInv, restart
    PROVE  DocsInv'
  <1>1. /\ task' = [h \in Scribes |-> NoTask] /\ holder' = NoText /\ docOps' \in 0 .. MaxDocOps
        /\ UNCHANGED <<writekey, remote, clone, shown, acked>>
    BY Asked4Docs DEF restart
  <1>2. stray' \in BOOLEAN /\ (~stray' => ~stray /\ \A h \in Scribes : task[h].pc \notin {"push", "refused"})
    BY DocsParts, Zenon DEF restart
  <1>3. source' \in Source /\ source'.st = source.st
    <2>1. PICK s \in {"pending", "syncing", "ready", "error"} : source' = source \/ source' = [source EXCEPT !.status = s]
      BY DEF restart
    <2>2. source \in Source /\ [source EXCEPT !.status = s] \in Source /\ [source EXCEPT !.status = s].st = source.st
      BY SourceMarked, DocsParts, Zenon
    <2> QED
      BY <2>1, <2>2, Zenon
  <1>4. task' \in [Scribes -> Task] /\ \A h \in Scribes : task'[h].pc = "idle" /\ task'[h].op = "none"
    BY <1>1, NoTaskIsFine
  <1>5. \A h \in Scribes : ~At(h, Locked)' /\ ~At(h, {"push", "refused"})' /\ ~At(h, {"pushed"})'
    BY <1>4 DEF At, Locked
  <1>6. LockOK'
    BY <1>5 DEF LockOK, Locked
  <1>7. CloneOK'
    <2> SUFFICES ASSUME ~stray' PROVE CloneOK'
      BY DEF CloneOK
    <2>1. ~stray /\ \A h \in Scribes : ~At(h, {"push", "refused"})
      BY <1>2 DEF At
    <2> QED
      BY <1>1, <1>5, <2>1, DocsParts DEF CloneOK
  <1>8. SavedIsOnRemote' /\ \A h \in Scribes : TaskOK(h)'
    BY <1>1, <1>4, DocsParts DEF SavedIsOnRemote, TaskOK
  <1> QED
    BY <1>1, <1>2, <1>3, <1>4, <1>6, <1>7, <1>8, DocsParts, DocsFromParts

LEMMA DocsInvInit == DocsInit => DocsInv
  <1> SUFFICES ASSUME DocsInit PROVE DocsInv
    OBVIOUS
  <1>1. remote \in Histories /\ remote # <<>> /\ remote \in Commits
    <2>1. PICK t \in Texts : remote = <<t>>
      BY DEF DocsInit
    <2>2. <<t>> \in Commits /\ Len(<<t>>) = 1 /\ <<t>> # <<>>
      BY DEF Commits
    <2> QED
      BY <2>1, <2>2, HistoriesAre, DocsAssumption
  <1>2. clone \in Histories /\ IsPrefix(clone, remote) /\ clone \in Commits
    BY <1>1, PrefixOfItself, NothingIsPrefix, HistoriesAre, DocsAssumption DEF DocsInit
  <1>3. source \in Source
    <2>1. ASSUME NEW st \in {"none", "live", "deleted"}, NEW status \in {"pending", "syncing", "ready", "error"},
                 NEW b \in BOOLEAN, NEW d \in BOOLEAN
          PROVE  [st |-> st, kind |-> "git", ro |-> b, status |-> status, head |-> clone, key |-> d] \in Source
      <3>1. "git" \in {"git", "web"}
        OBVIOUS
      <3> QED
        BY <1>2, <3>1, Zenon DEF Source
    <2>2. /\ (IF writekey THEN "live" ELSE "none") \in {"none", "live", "deleted"}
          /\ (IF writekey THEN "ready" ELSE "pending") \in {"pending", "syncing", "ready", "error"}
          /\ TRUE \in BOOLEAN /\ FALSE \in BOOLEAN
      OBVIOUS
    <2> QED
      BY <2>1, <2>2, Zenon DEF DocsInit
  <1>4. task \in [Scribes -> Task] /\ \A h \in Scribes : task[h].pc = "idle" /\ task[h].op = "none"
    BY NoTaskIsFine DEF DocsInit
  <1>5. shown \subseteq Texts
    BY <1>2, LenProperties DEF DocsInit, Commits
  <1>6. \A h \in Scribes : TaskOK(h) /\ ~At(h, Locked) /\ ~At(h, {"push", "refused"}) /\ ~At(h, {"pushed"})
    BY <1>4 DEF TaskOK, At, Locked
  <1>7. LockOK /\ CloneOK /\ SavedIsOnRemote
    BY <1>2, <1>6 DEF LockOK, Locked, CloneOK, SavedIsOnRemote, DocsInit
  <1>8. \A h \in Scribes :
         /\ task[h].pc \in {"idle", "lock", "fetch", "fetched", "unlock", "relock", "edit", "push", "pushed", "refused"}
         /\ task[h].op \in {"none", "forced", "sync", "save"} /\ task[h].late \in BOOLEAN
         /\ {task[h].seen, task[h].text} \subseteq Texts \cup {NoText} /\ task[h].base \in Histories
    BY <1>4 DEF Task
  <1>9. holder \in Scribes \cup {NoText} /\ docOps \in 0 .. MaxDocOps /\ acked \subseteq Histories /\ {writekey, stray} \subseteq BOOLEAN
    <2>1. holder \in Scribes \cup {NoText} /\ docOps \in 0 .. MaxDocOps /\ acked \subseteq Histories
      BY DocsAssumption DEF DocsInit
    <2>2. {writekey, stray} \subseteq BOOLEAN
      BY Zenon DEF DocsInit
    <2> QED
      BY <2>1, <2>2
  <1>10. DocsTypeOK
    BY <1>1, <1>2, <1>3, <1>5, <1>8, <1>9 DEF DocsTypeOK, Source
  <1> QED
    BY <1>4, <1>6, <1>7, <1>10 DEF DocsInv

LEMMA DocsStutters ==
    ASSUME DocsInv, UNCHANGED docVars
    PROVE  DocsInv'
  <1>1. UNCHANGED <<source, writekey, remote, clone, holder, task, shown, docOps, acked, stray>>
    BY DEF docVars
  <1> QED
    BY <1>1, DocsRequested, DocsParts

LEMMA DocsInvStep == DocsInv /\ [DocsNext]_docVars => DocsInv'
  <1> SUFFICES ASSUME DocsInv, [DocsNext]_docVars PROVE DocsInv'
    OBVIOUS
  <1>1. ASSUME NEW h \in Scribes,
               \/ refresh_due(h) \/ sync_now(h) \/ claim_for_sync(h) \/ fetch(h) \/ fetched(h) \/ fetch_failed(h)
               \/ unlock(h) \/ times_out(h) \/ late_task_ends(h) \/ relock(h) \/ edit(h) \/ push(h) \/ pushed(h)
        PROVE  DocsInv'
    BY <1>1, DocsBegins, DocsClaimed, DocsFetched, DocsFetchMarked, DocsFetchFailed, DocsUnlocked, DocsTimesOut,
       DocsLateEnds, DocsRelocked, DocsEdited, DocsPushed, DocsTold, Zenon
  <1>2. ASSUME NEW h \in Scribes, \E kind \in {"git", "web"}, ro \in BOOLEAN : create_source(h, kind, ro)
        PROVE  DocsInv'
    BY <1>2, DocsCreated, Zenon
  <1>3. ASSUME NEW h \in Scribes, \E ro, branch, rekey \in BOOLEAN : update_source(h, ro, branch, rekey)
        PROVE  DocsInv'
    BY <1>3, DocsUpdated, Zenon
  <1>4. ASSUME NEW h \in Scribes, \E e \in Texts \cup {NoText}, t \in Texts : save_doc(h, e, t)
        PROVE  DocsInv'
    BY <1>4, DocsSaveBegins, Zenon
  <1>5. ASSUME NEW h \in Scribes, \E undone \in BOOLEAN : rollback(h, undone)
        PROVE  DocsInv'
    BY <1>5, DocsRolledBack, Zenon
  <1> QED
    BY <1>1, <1>2, <1>3, <1>4, <1>5, DocsSmallRequests, DocsRemoteCommits, DocsDeleted, DocsRestarts, DocsStutters, Zenon
       DEF DocsNext

LEMMA DocsInvariant == DocsSpec => []DocsInv
  BY DocsInvInit, DocsInvStep, PTL DEF DocsSpec

\* The row, the branches and the handlers keep their types: a head is a
\* history that the branch can have.
THEOREM DocsTypeCorrect == DocsSpec => []DocsTypeOK
  <1>1. DocsInv => DocsTypeOK
    BY DEF DocsInv
  <1> QED
    BY <1>1, DocsInvariant, PTL

\* A save that save_doc answered as pushed is in the remote's history and
\* stays in it, whatever other people push and however the handlers' syncs,
\* edits, time-outs, deletions and restarts interleave, the clone not being
\* left to a late task.
THEOREM SavesAreOnRemote == DocsSpec => []SavedIsOnRemote
  <1>1. DocsInv => SavedIsOnRemote
    BY DEF DocsInv
  <1> QED
    BY <1>1, DocsInvariant, PTL

-----------------------------------------------------------------------------
(* Pictures.                                                               *)

Paint == [owner : Owners, mime : Mimes \cup {NoImage}]

\* While nothing overlapped or failed, the one request that changes a picture
\* has its image on disk, and without one disk and row agree.
OwnerOK(o) ==
    /\ \A u, v \in Painters : paint[u] # NoImage /\ paint[v] # NoImage /\ paint[u].owner = o /\ paint[v].owner = o => u = v
    /\ \A u \in Painters : paint[u] # NoImage /\ paint[u].owner = o => image[o] = paint[u].mime
    /\ (\A u \in Painters : paint[u] = NoImage \/ paint[u].owner # o) => image[o] = picture[o]

PictureInv == PictureTypeOK /\ \A o \in Owners \ smeared : OwnerOK(o)

LEMMA PictureInvInit == PictureInit => PictureInv
  BY PicturesAssumption DEF PictureInit, PictureInv, PictureTypeOK, OwnerOK, Owners

LEMMA PicturePut ==
  ASSUME PictureInv, NEW u \in Painters, NEW o \in Owners, NEW m \in Mimes \cup {NoImage}, NEW ok \in BOOLEAN,
         PutObject(u, o, m, ok)
  PROVE  PictureInv'
  <1> DEFINE new == [owner |-> o, mime |-> m]
  <1>1. new \in Paint /\ new # NoImage /\ new.owner = o /\ new.mime = m
    BY PicturesAssumption DEF Paint
  <1>2. paint' = [paint EXCEPT ![u] = new] /\ paint[u] = NoImage
    BY DEF PutObject
  <1>3. image' \in [Owners -> Mimes \cup {NoImage, Torn}]
    BY DEF PutObject, PictureInv, PictureTypeOK
  <1>4. paint \in [Painters -> Paint \cup {NoImage}]
    BY DEF PictureInv, PictureTypeOK, Paint
  <1> HIDE DEF new
  <1>5. paint' \in [Painters -> Paint \cup {NoImage}] /\ paint'[u] = new
        /\ \A v \in Painters \ {u} : paint'[v] = paint[v]
    BY <1>1, <1>2, <1>4
  <1>6. PictureTypeOK'
    <2>1. paints' \in 0 .. MaxPaints
      BY PicturesAssumption DEF PutObject, PictureInv, PictureTypeOK
    <2>2. smeared' \subseteq Owners /\ picture' = picture /\ epicLive' = epicLive
      BY DEF PutObject, PictureInv, PictureTypeOK
    <2> QED
      BY <1>3, <1>5, <2>1, <2>2 DEF PictureInv, PictureTypeOK, Paint
  <1>7. ASSUME NEW p \in Owners \ smeared' PROVE OwnerOK(p)'
    <2>1. p \in Owners \ smeared /\ picture' = picture
      BY <1>7 DEF PutObject
    <2>2. OwnerOK(p)
      BY <2>1 DEF PictureInv
    <2>3. CASE p # o
      <3>1. image'[p] = image[p]
        BY <2>3 DEF PutObject, PictureInv, PictureTypeOK
      <3> QED
        BY <1>1, <1>2, <1>4, <1>5, <2>1, <2>2, <2>3, <3>1 DEF OwnerOK
    <2>4. CASE p = o
      <3>1. ok /\ Painting(o) = {}
        BY <1>7, <2>4 DEF PutObject
      <3>2. image'[o] = m
        BY <3>1 DEF PutObject, PictureInv, PictureTypeOK
      <3>3. \A v \in Painters : paint[v] = NoImage \/ paint[v].owner # o
        BY <3>1 DEF Painting
      <3>4. \A v \in Painters : paint'[v] # NoImage /\ paint'[v].owner = o => v = u
        BY <1>5, <3>3
      <3> QED
        BY <1>1, <1>5, <2>4, <3>2, <3>4 DEF OwnerOK
    <2> QED
      BY <2>3, <2>4
  <1> QED
    BY <1>6, <1>7 DEF PictureInv

LEMMA PicturePutFails ==
  ASSUME PictureInv, NEW o \in Owners, PutFails(o)
  PROVE  PictureInv'
  <1>1. PICK bytes \in {image[o], Torn} : image' = [image EXCEPT ![o] = bytes]
    BY DEF PutFails
  <1>2. image \in [Owners -> Mimes \cup {NoImage, Torn}] /\ image' \in [Owners -> Mimes \cup {NoImage, Torn}]
    BY <1>1 DEF PictureInv, PictureTypeOK
  <1>3. PictureTypeOK'
    <2>1. paints' \in 0 .. MaxPaints /\ smeared' \subseteq Owners
      BY PicturesAssumption DEF PutFails, PictureInv, PictureTypeOK
    <2> QED
      BY <1>2, <2>1 DEF PutFails, PictureInv, PictureTypeOK
  <1>4. ASSUME NEW p \in Owners \ smeared' PROVE OwnerOK(p)'
    <2>1. p \in Owners \ smeared /\ (image' = image \/ p # o)
      BY <1>4 DEF PutFails
    <2>2. image'[p] = image[p] /\ OwnerOK(p)
      BY <1>1, <1>2, <2>1 DEF PictureInv
    <2> QED
      BY <2>2 DEF PutFails, OwnerOK
  <1> QED
    BY <1>3, <1>4 DEF PictureInv

LEMMA PictureDone ==
  ASSUME PictureInv, NEW u \in Painters, PaintDone(u)
  PROVE  PictureInv'
  <1> DEFINE o == paint[u].owner
             m == paint[u].mime
  <1>1. paint[u] # NoImage /\ paint \in [Painters -> Paint \cup {NoImage}] /\ paint[u] \in Paint
    BY DEF PaintDone, PictureInv, PictureTypeOK, Paint
  <1>2. o \in Owners /\ m \in Mimes \cup {NoImage}
    BY <1>1 DEF Paint
  <1>3. paint' = [paint EXCEPT ![u] = NoImage] /\ UNCHANGED <<image, epicLive, paints>>
    BY DEF PaintDone
  <1>4. \/ picture' = [picture EXCEPT ![o] = m] /\ smeared' = smeared
        \/ picture' = picture /\ smeared' = smeared \cup {o}
    BY DEF PaintDone, SetImage
  <1> HIDE DEF o, m
  <1>5. PictureTypeOK'
    BY <1>1, <1>2, <1>3, <1>4 DEF PictureInv, PictureTypeOK, Paint
  <1>6. ASSUME NEW p \in Owners \ smeared' PROVE OwnerOK(p)'
    <2>1. p \in Owners \ smeared /\ OwnerOK(p)
      BY <1>4, <1>6 DEF PictureInv
    <2>2. CASE p # o
      <3>1. picture'[p] = picture[p]
        BY <1>4, <2>1, <2>2 DEF PictureInv, PictureTypeOK
      <3>2. \A v \in Painters : (paint'[v] # NoImage /\ paint'[v].owner = p) <=> (paint[v] # NoImage /\ paint[v].owner = p)
        BY <1>1, <1>3, <2>2 DEF o
      <3>3. \A v \in Painters : paint'[v] # NoImage => paint'[v] = paint[v]
        BY <1>1, <1>3
      <3> QED
        BY <1>3, <2>1, <3>1, <3>2, <3>3 DEF OwnerOK
    <2>3. CASE p = o
      <3>1. picture'[o] = m
        BY <1>2, <1>4, <1>6, <2>3 DEF PictureInv, PictureTypeOK
      <3>2. image[o] = m /\ \A v \in Painters : paint[v] # NoImage /\ paint[v].owner = o => v = u
        BY <1>1, <2>1, <2>3 DEF OwnerOK, o, m
      <3>3. \A v \in Painters : paint'[v] = NoImage \/ paint'[v].owner # o
        BY <1>1, <1>3, <3>2
      <3> QED
        BY <1>3, <2>3, <3>1, <3>2, <3>3 DEF OwnerOK
    <2> QED
      BY <2>2, <2>3
  <1> QED
    BY <1>5, <1>6 DEF PictureInv

LEMMA PictureFails ==
  ASSUME PictureInv, NEW u \in Painters, PaintFails(u)
  PROVE  PictureInv'
  <1>1. paint[u] # NoImage /\ paint \in [Painters -> Paint \cup {NoImage}] /\ paint[u] \in Paint
    BY DEF PaintFails, PictureInv, PictureTypeOK, Paint
  <1>2. paint[u].owner \in Owners
    BY <1>1 DEF Paint
  <1>3. PictureTypeOK'
    BY <1>1, <1>2 DEF PictureInv, PictureTypeOK, Paint, PaintFails
  <1>4. ASSUME NEW p \in Owners \ smeared' PROVE OwnerOK(p)'
    <2>1. p \in Owners \ smeared /\ p # paint[u].owner /\ OwnerOK(p)
      BY <1>4 DEF PictureInv, PaintFails
    <2>2. \A v \in Painters : paint'[v] # NoImage => paint'[v] = paint[v]
      BY <1>1 DEF PaintFails
    <2>3. \A v \in Painters : (paint'[v] # NoImage /\ paint'[v].owner = p) <=> (paint[v] # NoImage /\ paint[v].owner = p)
      BY <1>1, <2>1 DEF PaintFails
    <2>4. UNCHANGED <<picture, image>>
      BY DEF PaintFails
    <2> QED
      BY <2>1, <2>2, <2>3, <2>4 DEF OwnerOK
  <1> QED
    BY <1>3, <1>4 DEF PictureInv

LEMMA PictureInvStep == PictureInv /\ [PictureNext]_pictureVars => PictureInv'
  <1> SUFFICES ASSUME PictureInv, [PictureNext]_pictureVars PROVE PictureInv'
    OBVIOUS
  <1>1. ASSUME NEW u \in Painters, NEW m \in Mimes, upload_avatar(u, m) \/ upload_cover(u, m) \/ upload_icon(u, m)
        PROVE  PictureInv'
    <2>1. TRUE \in BOOLEAN /\ m \in Mimes \cup {NoImage} /\ {"avatar", "cover", "icon"} \subseteq Owners
      BY DEF Owners
    <2> QED
      BY <1>1, <2>1, PicturePut DEF upload_avatar, upload_cover, upload_icon
  <1>2. ASSUME NEW u \in Painters, NEW ok \in BOOLEAN,
               set_emoji_avatar(u, ok) \/ delete_avatar(u, ok) \/ delete_cover(u, ok) \/ delete_icon(u, ok)
        PROVE  PictureInv'
    <2>1. NoImage \in Mimes \cup {NoImage} /\ {"avatar", "cover", "icon"} \subseteq Owners
      BY DEF Owners
    <2> QED
      BY <1>2, <2>1, PicturePut DEF set_emoji_avatar, delete_avatar, delete_cover, delete_icon
  <1>3. CASE EpicDeleted
    <2>1. UNCHANGED <<picture, image, paint, smeared, paints>> /\ epicLive' \in BOOLEAN
      BY <1>3 DEF EpicDeleted
    <2> QED
      BY <2>1 DEF PictureInv, PictureTypeOK, OwnerOK
  <1>4. CASE UNCHANGED pictureVars
    BY <1>4 DEF pictureVars, PictureInv, PictureTypeOK, OwnerOK
  <1> QED
    BY <1>1, <1>2, <1>3, <1>4, PicturePutFails, PictureDone, PictureFails DEF PictureNext

LEMMA PictureInvariant == PictureSpec => []PictureInv
  BY PictureInvInit, PictureInvStep, PTL DEF PictureSpec

LEMMA PictureInvMatches == PictureInv => PictureTypeOK /\ PictureMatches
  <1> SUFFICES ASSUME PictureInv, NEW o \in Owners \ smeared, Painting(o) = {}
               PROVE  IF picture[o] = NoImage THEN image[o] = NoImage ELSE Serve(o) = {<<picture[o], picture[o]>>}
    BY DEF PictureInv, PictureMatches
  <1>1. image[o] = picture[o]
    BY DEF PictureInv, OwnerOK, Painting
  <1> QED
    BY <1>1 DEF Serve

\* Rows, objects and requests of pictures keep their types, and a picture
\* whose requests neither overlapped nor failed half way, in the write of the
\* object or before that of the row, is served whole and with the type of its
\* bytes: the upload_, set_ and delete_ handlers of avatars, epic covers and
\* project icons.
THEOREM PicturesMatch == PictureSpec => [](PictureTypeOK /\ PictureMatches)
  BY PictureInvariant, PictureInvMatches, PTL

-----------------------------------------------------------------------------
(* Wiki.                                                                   *)

PageRow == [title : Prose, body : Prose, version : Nat, gone : BOOLEAN]
PageText == [title : Prose, body : Prose]
Writer == [at : {"idle", "save"}, page : Pages \cup {NoPage}, title : Prose \cup {AsRead}, body : Prose \cup {AsRead},
           readTitle : Prose \cup {AsRead}, readBody : Prose \cup {AsRead}, late : BOOLEAN]

\* The saves of a page that are under way.
Saving(p) == {h \in Writers : writer[h].at = "save" /\ writer[h].page = p}

\* What a save leaves out it has read; and it is still what the page shows,
\* unless another save came first.
WriterOK(h) ==
    writer[h].at = "save" =>
        LET w == writer[h] IN
        /\ w.page \in DOMAIN page
        /\ w.title = AsRead => w.readTitle \in Prose /\ (~w.late => w.readTitle = page[w.page].title)
        /\ w.body = AsRead => w.readBody \in Prose /\ (~w.late => w.readBody = page[w.page].body)

PageOK(p) ==
    /\ page[p] \in PageRow /\ revs[p] \in Seq(PageText) /\ meant[p] \in PageText
    /\ page[p].version >= 1 /\ Len(revs[p]) = page[p].version
    /\ revs[p][page[p].version] = [title |-> page[p].title, body |-> page[p].body]
    /\ p \notin crossed => meant[p].title = page[p].title /\ meant[p].body = page[p].body

\* Every version of a page, and every save under way, is a request of its own.
CountOK(p) == page[p].version + Cardinality(Saving(p)) <= saves

WikiInv ==
    /\ DOMAIN page \subseteq Pages /\ DOMAIN revs = DOMAIN page /\ DOMAIN meant = DOMAIN page
    /\ writer \in [Writers -> Writer] /\ saves \in 0 .. MaxSaves /\ crossed \subseteq Pages
    /\ \A h \in Writers : WriterOK(h)
    /\ \A p \in DOMAIN page : PageOK(p)
    /\ \A p \in Pages : IsFiniteSet(Saving(p))
    /\ \A p \in DOMAIN page : CountOK(p)

LEMMA WikiInvInit == WikiInit => WikiInv
  <1> SUFFICES ASSUME WikiInit PROVE WikiInv
    OBVIOUS
  <1>1. Away \in Writer /\ Away.at = "idle"
    BY DEF Away, Writer
  <1>2. writer \in [Writers -> Writer] /\ \A h \in Writers : writer[h].at = "idle"
    BY <1>1 DEF WikiInit
  <1>3. DOMAIN page = {} /\ DOMAIN revs = {} /\ DOMAIN meant = {}
    BY DEF WikiInit
  <1>4. \A p \in Pages : Saving(p) = {}
    BY <1>2 DEF Saving
  <1>5. IsFiniteSet({})
    BY FS_EmptySet
  <1>6. saves \in 0 .. MaxSaves /\ crossed = {}
    BY WikiAssumption DEF WikiInit
  <1>7. \A h \in Writers : WriterOK(h)
    BY <1>2 DEF WriterOK
  <1> QED
    BY <1>2, <1>3, <1>4, <1>5, <1>6, <1>7 DEF WikiInv

LEMMA WikiParts ==
  ASSUME WikiInv, NEW p \in DOMAIN page
  PROVE  /\ p \in Pages /\ p \in DOMAIN revs /\ p \in DOMAIN meant
         /\ page[p] \in PageRow /\ page[p].title \in Prose /\ page[p].body \in Prose
         /\ page[p].version \in Nat /\ page[p].version >= 1 /\ page[p].gone \in BOOLEAN
         /\ revs[p] \in Seq(PageText) /\ Len(revs[p]) = page[p].version
         /\ revs[p][page[p].version] = [title |-> page[p].title, body |-> page[p].body]
         /\ meant[p] \in PageText /\ meant[p].title \in Prose /\ meant[p].body \in Prose
         /\ p \notin crossed => meant[p].title = page[p].title /\ meant[p].body = page[p].body
         /\ IsFiniteSet(Saving(p)) /\ Cardinality(Saving(p)) \in Nat
         /\ page[p].version + Cardinality(Saving(p)) <= saves
  <1>1. p \in Pages /\ p \in DOMAIN revs /\ p \in DOMAIN meant /\ PageOK(p) /\ CountOK(p) /\ IsFiniteSet(Saving(p))
    BY DEF WikiInv
  <1>2. Cardinality(Saving(p)) \in Nat
    BY <1>1, FS_CardinalityType
  <1> QED
    BY <1>1, <1>2 DEF PageOK, CountOK, PageRow, PageText

LEMMA WikiCounted ==
  ASSUME WikiInv, NEW p \in DOMAIN page
  PROVE  /\ p \in Pages /\ saves \in Nat /\ IsFiniteSet(Saving(p)) /\ Cardinality(Saving(p)) \in Nat /\ page[p].version \in Nat
         /\ page[p].version + Cardinality(Saving(p)) <= saves
  <1>1. saves \in Nat
    BY WikiAssumption DEF WikiInv
  <1> QED
    BY <1>1, WikiParts

\* The page row and its first revision.
LEMMA WikiCreate ==
  ASSUME WikiInv, NEW h \in Writers, NEW p \in Pages, NEW t \in Prose, NEW b \in Prose, create_page(h, p, t, b)
  PROVE  WikiInv'
  <1>1. p \notin DOMAIN page /\ writer' = writer /\ crossed' = crossed /\ saves' = saves + 1 /\ saves < MaxSaves
    BY DEF create_page
  <1>2. saves \in Nat /\ saves' \in 0 .. MaxSaves
    BY <1>1, WikiAssumption DEF WikiInv
  <1>3. \A q \in Pages : Saving(q)' = Saving(q)
    BY <1>1 DEF Saving
  <1>4. Saving(p) = {}
    BY <1>1 DEF Saving, WikiInv, WriterOK
  <1>5. /\ DOMAIN page' = DOMAIN page \cup {p} /\ DOMAIN revs' = DOMAIN revs \cup {p}
        /\ DOMAIN meant' = DOMAIN meant \cup {p}
    BY DEF create_page
  <1>6. \A q \in DOMAIN page : page'[q] = page[q] /\ revs'[q] = revs[q] /\ meant'[q] = meant[q]
    BY <1>1 DEF create_page, WikiInv
  <1>7. /\ page'[p] = [title |-> t, body |-> b, version |-> 1, gone |-> FALSE]
        /\ revs'[p] = <<[title |-> t, body |-> b]>> /\ meant'[p] = [title |-> t, body |-> b]
    BY DEF create_page
  <1>8. PageOK(p)'
    <2>1. [title |-> t, body |-> b] \in PageText /\ page'[p] \in PageRow
      BY <1>7 DEF PageText, PageRow
    <2>2. revs'[p] \in Seq(PageText) /\ Len(revs'[p]) = 1 /\ revs'[p][1] = [title |-> t, body |-> b]
      BY <1>7, <2>1
    <2> QED
      BY <1>7, <2>1, <2>2 DEF PageOK
  <1>9. \A q \in DOMAIN page' : PageOK(q)'
    <2>1. \A q \in DOMAIN page : PageOK(q)'
      BY <1>1, <1>6 DEF WikiInv, PageOK
    <2> QED
      BY <1>5, <1>8, <2>1
  <1>10. \A q \in DOMAIN page' : CountOK(q)'
    <2>1. Cardinality(Saving(p)') = 0
      BY <1>3, <1>4, FS_EmptySet
    <2>2. CountOK(p)'
      BY <1>1, <1>2, <1>7, <2>1 DEF CountOK
    <2>3. ASSUME NEW q \in DOMAIN page PROVE CountOK(q)'
      <3>1. /\ q \in Pages /\ Cardinality(Saving(q)) \in Nat /\ page[q].version \in Nat
            /\ page[q].version + Cardinality(Saving(q)) <= saves
        BY <2>3, WikiCounted
      <3>2. page'[q] = page[q] /\ Saving(q)' = Saving(q)
        BY <1>3, <1>6, <2>3, <3>1
      <3> QED
        BY <1>1, <1>2, <3>1, <3>2 DEF CountOK
    <2> QED
      BY <1>5, <2>2, <2>3
  <1>11. \A g \in Writers : WriterOK(g)'
    <2> SUFFICES ASSUME NEW g \in Writers PROVE WriterOK(g)'
      OBVIOUS
    <2>1. WriterOK(g)
      BY DEF WikiInv
    <2> QED
      BY <1>1, <1>5, <1>6, <2>1 DEF WriterOK
  <1> QED
    BY <1>1, <1>2, <1>3, <1>5, <1>9, <1>10, <1>11 DEF WikiInv

\* A save begins.
LEMMA WikiBegin ==
  ASSUME WikiInv, NEW h \in Writers, NEW p \in DOMAIN page, NEW w \in Writer,
         writer[h].at = "idle", saves < MaxSaves, saves' = saves + 1, writer' = [writer EXCEPT ![h] = w],
         UNCHANGED <<page, revs, meant, crossed>>,
         w.at = "save", w.page = p, ~w.late,
         w.title = AsRead => w.readTitle = page[p].title, w.body = AsRead => w.readBody = page[p].body
  PROVE  WikiInv'
  <1>1. saves \in Nat /\ saves' \in 0 .. MaxSaves
    BY WikiAssumption DEF WikiInv
  <1>2. writer' \in [Writers -> Writer] /\ writer'[h] = w /\ \A g \in Writers \ {h} : writer'[g] = writer[g]
    BY DEF WikiInv
  <1>3. \A g \in Writers : WriterOK(g)'
    <2>1. WriterOK(h)'
      BY <1>2, WikiParts DEF WriterOK
    <2>2. \A g \in Writers \ {h} : WriterOK(g)'
      BY <1>2 DEF WikiInv, WriterOK
    <2> QED
      BY <2>1, <2>2
  <1>4. Saving(p)' = Saving(p) \cup {h} /\ h \notin Saving(p)
    BY <1>2 DEF Saving
  <1>5. \A q \in Pages \ {p} : Saving(q)' = Saving(q)
    BY <1>2 DEF Saving
  <1>6. IsFiniteSet(Saving(p)') /\ Cardinality(Saving(p)') = Cardinality(Saving(p)) + 1
    <2>1. IsFiniteSet(Saving(p))
      BY WikiCounted
    <2> QED
      BY <1>4, <2>1, FS_AddElement
  <1>7. \A q \in Pages : IsFiniteSet(Saving(q)')
    BY <1>5, <1>6 DEF WikiInv
  <1>8. ASSUME NEW q \in DOMAIN page PROVE CountOK(q)'
    <2>1. page[q].version + Cardinality(Saving(q)) <= saves /\ page[q].version \in Nat /\ Cardinality(Saving(q)) \in Nat
      BY WikiParts
    <2>2. Cardinality(Saving(q)') \in {Cardinality(Saving(q)), Cardinality(Saving(q)) + 1}
      BY <1>5, <1>6, WikiParts
    <2>3. page'[q] = page[q]
      OBVIOUS
    <2> QED
      BY <1>1, <2>1, <2>2, <2>3 DEF CountOK
  <1>9. \A q \in DOMAIN page : PageOK(q)'
    BY DEF WikiInv, PageOK
  <1> QED
    BY <1>1, <1>2, <1>3, <1>7, <1>8, <1>9 DEF WikiInv

LEMMA WikiUpdate ==
  ASSUME WikiInv, NEW h \in Writers, NEW p \in Pages, NEW t \in Prose \cup {AsRead}, NEW b \in Prose \cup {AsRead},
         update_page(h, p, t, b)
  PROVE  WikiInv'
  <1> DEFINE w == [Away EXCEPT !.at = "save", !.page = p, !.title = t, !.body = b,
                     !.readTitle = page[p].title, !.readBody = page[p].body]
  <1>1. p \in DOMAIN page /\ page[p].title \in Prose /\ page[p].body \in Prose
    BY WikiParts DEF update_page
  <1>2. /\ w \in Writer /\ w.at = "save" /\ w.page = p /\ ~w.late /\ w.readTitle = page[p].title
        /\ w.readBody = page[p].body
    BY <1>1 DEF Writer, Away
  <1>3. writer' = [writer EXCEPT ![h] = w]
    BY DEF update_page
  <1> HIDE DEF w
  <1> QED
    BY <1>1, <1>2, <1>3, WikiBegin DEF update_page

LEMMA WikiRestore ==
  ASSUME WikiInv, NEW h \in Writers, NEW p \in Pages, NEW n \in 1 .. MaxSaves, restore(h, p, n)
  PROVE  WikiInv'
  <1> DEFINE w == [Away EXCEPT !.at = "save", !.page = p, !.title = revs[p][n].title, !.body = revs[p][n].body]
  <1>1. p \in DOMAIN page /\ n \in DOMAIN revs[p]
    BY DEF restore, WikiInv
  <1>2. revs[p] \in Seq(PageText)
    BY <1>1, WikiParts
  <1>3. revs[p][n] \in PageText
    BY <1>1, <1>2
  <1>4. revs[p][n].title \in Prose /\ revs[p][n].body \in Prose
    BY <1>3 DEF PageText
  <1>5. /\ w \in Writer /\ w.at = "save" /\ w.page = p /\ ~w.late /\ w.title # AsRead /\ w.body # AsRead
    BY <1>4, WikiAssumption DEF Writer, Away
  <1>6. writer' = [writer EXCEPT ![h] = w]
    BY DEF restore
  <1> HIDE DEF w
  <1> QED
    BY <1>1, <1>5, <1>6, WikiBegin DEF restore

\* A handler leaves, with or without having saved: fewer saves are under way.
LEMMA WikiLeaves ==
  ASSUME WikiInv, NEW h \in Writers, NEW q \in Pages, writer[h].at = "save", writer'[h].at = "idle",
         \A g \in Writers \ {h} : writer'[g].at = writer[g].at /\ writer'[g].page = writer[g].page
  PROVE  /\ IsFiniteSet(Saving(q)') /\ Cardinality(Saving(q)') \in Nat /\ Cardinality(Saving(q)') <= Cardinality(Saving(q))
         /\ writer[h].page = q => Cardinality(Saving(q)') = Cardinality(Saving(q)) - 1
  <1>1. IsFiniteSet(Saving(q)) /\ Saving(q)' = Saving(q) \ {h}
    BY DEF WikiInv, Saving
  <1>2. writer[h].page = q => h \in Saving(q)
    BY DEF Saving
  <1>3. IsFiniteSet(Saving(q)') /\ Cardinality(Saving(q)') <= Cardinality(Saving(q))
    BY <1>1, FS_Subset
  <1>4. Cardinality(Saving(q)') \in Nat
    BY <1>3, FS_CardinalityType
  <1>5. h \in Saving(q) => Cardinality(Saving(q)') = Cardinality(Saving(q)) - 1
    BY <1>1, FS_RemoveElement
  <1> QED
    BY <1>2, <1>3, <1>4, <1>5

LEMMA WikiStop ==
  ASSUME WikiInv, NEW h \in Writers, StopWriter(h)
  PROVE  WikiInv'
  <1>1. Away \in Writer /\ Away.at = "idle"
    BY DEF Away, Writer
  <1>2. /\ writer' \in [Writers -> Writer] /\ writer'[h] = Away /\ \A g \in Writers \ {h} : writer'[g] = writer[g]
        /\ UNCHANGED <<page, revs, saves, meant, crossed>>
    BY <1>1 DEF WikiInv, StopWriter
  <1>3. writer[h].at = "save"
    BY DEF WikiInv, StopWriter, Writer
  <1>4. \A q \in Pages : IsFiniteSet(Saving(q)') /\ Cardinality(Saving(q)') \in Nat /\ Cardinality(Saving(q)') <= Cardinality(Saving(q))
    BY <1>1, <1>2, <1>3, WikiLeaves
  <1>5. ASSUME NEW q \in DOMAIN page PROVE CountOK(q)'
    <2>1. /\ page[q].version + Cardinality(Saving(q)) <= saves /\ page[q].version \in Nat /\ Cardinality(Saving(q)) \in Nat
          /\ q \in Pages /\ saves \in Nat
      BY WikiCounted
    <2>2. Cardinality(Saving(q)') \in Nat /\ Cardinality(Saving(q)') <= Cardinality(Saving(q))
      BY <1>4, <2>1
    <2>3. page'[q] = page[q] /\ saves' = saves
      BY <1>2
    <2> QED
      BY <2>1, <2>2, <2>3 DEF CountOK
  <1>6. \A g \in Writers : WriterOK(g)'
    BY <1>1, <1>2 DEF WikiInv, WriterOK
  <1>7. \A q \in DOMAIN page : PageOK(q)'
    BY <1>2 DEF WikiInv, PageOK
  <1> QED
    BY <1>2, <1>4, <1>5, <1>6, <1>7 DEF WikiInv

LEMMA WikiDelete ==
  ASSUME WikiInv, NEW h \in Writers, NEW p \in Pages, soft_delete_page(h, p)
  PROVE  WikiInv'
  <1>1. p \in DOMAIN page /\ saves' = saves + 1 /\ UNCHANGED <<revs, writer, meant, crossed>>
    BY DEF soft_delete_page
  <1>2. saves \in Nat /\ saves' \in 0 .. MaxSaves
    BY WikiAssumption DEF WikiInv, soft_delete_page
  <1>3. /\ DOMAIN page' = DOMAIN page /\ \A q \in DOMAIN page \ {p} : page'[q] = page[q]
        /\ page'[p] = [page[p] EXCEPT !.gone = TRUE]
    BY <1>1 DEF soft_delete_page
  <1>4. page[p] \in PageRow
    BY <1>1, WikiParts
  <1>5. page'[p] \in PageRow /\ page'[p].title = page[p].title /\ page'[p].body = page[p].body /\ page'[p].version = page[p].version
    BY <1>3, <1>4 DEF PageRow
  <1>6. \A q \in DOMAIN page : page'[q] \in PageRow /\ page'[q].title = page[q].title /\ page'[q].body = page[q].body /\ page'[q].version = page[q].version
    BY <1>3, <1>5, WikiParts
  <1>7. \A q \in DOMAIN page : PageOK(q)'
    BY <1>1, <1>6 DEF WikiInv, PageOK
  <1>8. \A q \in Pages : Saving(q)' = Saving(q)
    BY <1>1 DEF Saving
  <1>9. ASSUME NEW q \in DOMAIN page PROVE CountOK(q)'
    <2>1. /\ q \in Pages /\ Cardinality(Saving(q)) \in Nat /\ page[q].version \in Nat
          /\ page[q].version + Cardinality(Saving(q)) <= saves
      BY <1>9, WikiCounted
    <2>2. page'[q].version = page[q].version /\ Saving(q)' = Saving(q)
      BY <1>6, <1>8, <1>9, <2>1
    <2> QED
      BY <1>1, <1>2, <2>1, <2>2 DEF CountOK
  <1>10. \A g \in Writers : WriterOK(g)'
    BY <1>1, <1>3, <1>6 DEF WikiInv, WriterOK
  <1> QED
    BY <1>1, <1>2, <1>3, <1>7, <1>8, <1>9, <1>10 DEF WikiInv

\* The transaction of a save.
LEMMA WikiSaves ==
  ASSUME WikiInv, NEW h \in Writers, save_page(h)
  PROVE  WikiInv'
  <1>0. PICK p : p = writer[h].page
    OBVIOUS
  <1> DEFINE w == writer[h]
             nt == Merged(w.title, w.readTitle)
             nb == Merged(w.body, w.readBody)
             new == [title |-> nt, body |-> nb]
             ver == page[p].version + 1
             mt == Merged(w.title, meant[p].title)
             mb == Merged(w.body, meant[p].body)
  <1>1. w \in Writer /\ w.at = "save" /\ WriterOK(h)
    BY DEF WikiInv, save_page
  <1>2. p \in DOMAIN page
    BY <1>0, <1>1 DEF WriterOK
  <1>3. /\ page[p] \in PageRow /\ page[p].title \in Prose /\ page[p].body \in Prose
        /\ page[p].version \in Nat /\ page[p].version >= 1 /\ page[p].gone \in BOOLEAN
        /\ revs[p] \in Seq(PageText) /\ Len(revs[p]) = page[p].version
        /\ meant[p] \in PageText /\ meant[p].title \in Prose /\ meant[p].body \in Prose
        /\ p \notin crossed => meant[p].title = page[p].title /\ meant[p].body = page[p].body
    BY <1>2, WikiParts
  <1>4. Away \in Writer /\ Away.at = "idle"
    BY DEF Away, Writer
  <1>5. /\ writer'[h] = Away
        /\ \A g \in Writers \ {h} : writer'[g] = IF writer[g].page = p THEN [writer[g] EXCEPT !.late = TRUE] ELSE writer[g]
    BY <1>0 DEF save_page
  <1>6. \A g \in Writers \ {h} : /\ writer'[g] \in Writer
                                 /\ writer'[g].at = writer[g].at /\ writer'[g].page = writer[g].page
                                 /\ writer'[g].title = writer[g].title /\ writer'[g].body = writer[g].body
                                 /\ writer'[g].readTitle = writer[g].readTitle /\ writer'[g].readBody = writer[g].readBody
                                 /\ writer[g].page = p => writer'[g].late
                                 /\ writer[g].page # p => writer'[g].late = writer[g].late
    <2> SUFFICES ASSUME NEW g \in Writers \ {h}
                 PROVE  /\ writer'[g] \in Writer
                        /\ writer'[g].at = writer[g].at /\ writer'[g].page = writer[g].page
                        /\ writer'[g].title = writer[g].title /\ writer'[g].body = writer[g].body
                        /\ writer'[g].readTitle = writer[g].readTitle /\ writer'[g].readBody = writer[g].readBody
                        /\ writer[g].page = p => writer'[g].late
                        /\ writer[g].page # p => writer'[g].late = writer[g].late
      OBVIOUS
    <2>1. writer[g] \in Writer
      BY DEF WikiInv
    <2> QED
      BY <1>5, <2>1 DEF Writer
  <1>7. writer' \in [Writers -> Writer]
    <2>1. \E f : writer' = [g \in Writers |-> f[g]]
      <3> DEFINE f == [g \in Writers |-> IF g = h THEN Away
                         ELSE IF writer[g].page = p THEN [writer[g] EXCEPT !.late = TRUE] ELSE writer[g]]
      <3>1. writer' = f
        BY <1>0 DEF save_page
      <3> HIDE DEF f
      <3>2. f = [g \in Writers |-> f[g]]
        BY DEF f
      <3> QED
        BY <3>1, <3>2
    <2> QED
      BY <1>4, <1>5, <1>6, <2>1
  <1>8. saves' = saves
    BY DEF save_page
  <1>9. /\ nt \in Prose /\ nb \in Prose /\ mt \in Prose /\ mb \in Prose
        /\ ~w.late /\ p \notin crossed => nt = mt /\ nb = mb
    BY <1>0, <1>1, <1>3 DEF WriterOK, Merged, Writer
  <1>10. new \in PageText /\ new.title = nt /\ new.body = nb
    BY <1>9 DEF PageText
  <1>11. ver \in Nat /\ ver >= 1
    BY <1>3
  <1>12. DOMAIN page' = DOMAIN page /\ DOMAIN revs' = DOMAIN revs /\ DOMAIN meant' = DOMAIN meant
         /\ crossed \subseteq crossed' /\ crossed' \subseteq crossed \cup {p}
    BY <1>0 DEF save_page
  <1>13. \A q \in DOMAIN page \ {p} : page'[q] = page[q] /\ revs'[q] = revs[q] /\ meant'[q] = meant[q]
    BY <1>0 DEF save_page, WikiInv
  <1>14. \/ page'[p] = page[p] /\ revs'[p] = revs[p] /\ meant'[p] = meant[p]
         \/ /\ page'[p] = page_row(p, new) /\ revs'[p] = Append(revs[p], new) /\ meant'[p] = [title |-> mt, body |-> mb]
            /\ p \notin crossed' => ~w.late
    BY <1>0, <1>2 DEF save_page, WikiInv
  <1>15. page_row(p, new) = [page[p] EXCEPT !.title = nt, !.body = nb, !.version = ver]
    BY <1>10 DEF page_row
  <1> HIDE DEF ver, nt, nb, mt, mb, new
  <1>16. /\ page_row(p, new) \in PageRow /\ page_row(p, new).title = nt /\ page_row(p, new).body = nb
         /\ page_row(p, new).version = ver
    BY <1>3, <1>9, <1>11, <1>15 DEF PageRow
  <1>17. PageOK(p)'
    <2>1. CASE page'[p] = page[p] /\ revs'[p] = revs[p] /\ meant'[p] = meant[p]
      BY <1>2, <1>12, <2>1 DEF WikiInv, PageOK
    <2>2. CASE /\ page'[p] = page_row(p, new) /\ revs'[p] = Append(revs[p], new) /\ meant'[p] = [title |-> mt, body |-> mb]
               /\ p \notin crossed' => ~w.late
      <3>1. meant'[p] \in PageText /\ meant'[p].title = mt /\ meant'[p].body = mb
        BY <1>9, <2>2 DEF PageText
      <3>2. revs'[p] \in Seq(PageText) /\ Len(revs'[p]) = ver /\ revs'[p][ver] = new
        BY <1>3, <1>10, <1>11, <2>2 DEF ver
      <3>3. new = [title |-> nt, body |-> nb]
        BY DEF new
      <3>4. p \notin crossed' => nt = mt /\ nb = mb
        BY <1>9, <1>12, <2>2
      <3> QED
        BY <1>11, <1>16, <2>2, <3>1, <3>2, <3>3, <3>4 DEF PageOK
    <2> QED
      BY <1>14, <2>1, <2>2
  <1>18. \A q \in DOMAIN page' : PageOK(q)'
    <2>1. ASSUME NEW q \in DOMAIN page \ {p} PROVE PageOK(q)'
      <3>1. PageOK(q)
        BY DEF WikiInv
      <3>2. q \in crossed <=> q \in crossed'
        BY <1>12
      <3> QED
        BY <1>13, <3>1, <3>2 DEF PageOK
    <2> QED
      BY <1>12, <1>17, <2>1
  <1>19. \A q \in Pages : /\ IsFiniteSet(Saving(q)') /\ Cardinality(Saving(q)') \in Nat
                          /\ Cardinality(Saving(q)') <= Cardinality(Saving(q))
                          /\ p = q => Cardinality(Saving(q)') = Cardinality(Saving(q)) - 1
    BY <1>0, <1>1, <1>4, <1>5, <1>6, WikiLeaves
  <1>20. \A q \in DOMAIN page' : CountOK(q)'
    <2> SUFFICES ASSUME NEW q \in DOMAIN page PROVE CountOK(q)'
      BY <1>12
    <2>1. /\ q \in Pages /\ saves \in Nat /\ Cardinality(Saving(q)) \in Nat /\ page[q].version \in Nat
          /\ page[q].version + Cardinality(Saving(q)) <= saves
      BY WikiCounted
    <2>2. /\ Cardinality(Saving(q)') \in Nat /\ Cardinality(Saving(q)') <= Cardinality(Saving(q))
          /\ p = q => Cardinality(Saving(q)') = Cardinality(Saving(q)) - 1
      BY <1>19, <2>1
    <2>3. page'[q].version = page[q].version \/ (p = q /\ page'[q].version = page[q].version + 1)
      BY <1>13, <1>14, <1>16 DEF ver
    <2> QED
      BY <1>8, <2>1, <2>2, <2>3 DEF CountOK
  <1>21. \A g \in Writers : WriterOK(g)'
    <2>1. WriterOK(h)'
      BY <1>4, <1>5 DEF WriterOK
    <2>2. ASSUME NEW g \in Writers \ {h} PROVE WriterOK(g)'
      <3>1. WriterOK(g)
        BY DEF WikiInv
      <3>2. CASE writer[g].page = p
        BY <1>6, <1>12, <3>1, <3>2 DEF WriterOK
      <3>3. CASE writer[g].page # p
        BY <1>6, <1>12, <1>13, <3>1, <3>3 DEF WriterOK
      <3> QED
        BY <3>2, <3>3
    <2> QED
      BY <2>1, <2>2
  <1>22. saves' \in 0 .. MaxSaves /\ crossed' \subseteq Pages
    BY <1>2, <1>8, <1>12 DEF WikiInv
  <1> QED
    BY <1>7, <1>12, <1>18, <1>19, <1>20, <1>21, <1>22 DEF WikiInv

LEMMA WikiInvStep == WikiInv /\ [WikiNext]_wikiVars => WikiInv'
  <1> SUFFICES ASSUME WikiInv, [WikiNext]_wikiVars PROVE WikiInv'
    OBVIOUS
  <1>1. CASE UNCHANGED wikiVars
    <2>1. UNCHANGED <<page, revs, writer, saves, meant, crossed>>
      BY <1>1 DEF wikiVars
    <2>2. \A q : Saving(q)' = Saving(q)
      BY <2>1 DEF Saving
    <2> QED
      BY <2>1, <2>2 DEF WikiInv, WriterOK, PageOK, CountOK
  <1> QED
    BY <1>1, WikiCreate, WikiUpdate, WikiRestore, WikiSaves, WikiStop, WikiDelete, Zenon DEF WikiNext

LEMMA WikiInvariant == WikiSpec => []WikiInv
  BY WikiInvInit, WikiInvStep, PTL DEF WikiSpec

LEMMA WikiInvKeeps == WikiInv => WikiTypeOK /\ WikiKeepsHistory
  <1> SUFFICES ASSUME WikiInv PROVE WikiTypeOK /\ WikiKeepsHistory
    OBVIOUS
  <1>1. ASSUME NEW p \in DOMAIN page
        PROVE  page[p] \in [title : Prose, body : Prose, version : 1 .. MaxSaves, gone : BOOLEAN]
    <2>1. /\ page[p].version \in Nat /\ Cardinality(Saving(p)) \in Nat /\ saves \in Nat
          /\ page[p].version + Cardinality(Saving(p)) <= saves
      BY WikiCounted
    <2>2. page[p].version >= 1 /\ page[p] \in PageRow
      BY WikiParts
    <2>3. saves <= MaxSaves /\ MaxSaves \in Nat
      BY WikiAssumption DEF WikiInv
    <2>4. page[p].version \in 1 .. MaxSaves
      BY <2>1, <2>2, <2>3
    <2> QED
      BY <2>2, <2>4 DEF PageRow
  <1>2. \A h \in Writers : writer[h].at \in {"idle", "save"}
    BY DEF WikiInv, Writer
  <1>3. WikiTypeOK
    BY <1>1, <1>2 DEF WikiInv, WikiTypeOK
  <1>4. ASSUME NEW p \in DOMAIN page, [title |-> page[p].title, body |-> page[p].body] # meant[p] PROVE p \in crossed
    <2>1. meant[p] \in PageText /\ (p \notin crossed => meant[p].title = page[p].title /\ meant[p].body = page[p].body)
      BY WikiParts
    <2> QED
      BY <1>4, <2>1 DEF PageText
  <1>5. WikiKeepsHistory
    BY <1>4, WikiParts DEF WikiKeepsHistory
  <1> QED
    BY <1>3, <1>5

\* Pages, revisions and saves keep their types; the newest revision is the
\* page and carries its version, and a page shows something else than each
\* field was last given only where two saves of it overlapped: the handlers
\* of wiki.rs, whose save does not compare the version it read.
THEOREM WikiHistoryIsKept == WikiSpec => [](WikiTypeOK /\ WikiKeepsHistory)
  BY WikiInvariant, WikiInvKeeps, PTL

-----------------------------------------------------------------------------
(* Annotations.                                                            *)

CustomerRow == [name : Titles, details : Details]
NoteRow == [author : Persons, on : Cards, old : BOOLEAN, gone : BOOLEAN]
Clerk == [at : {"idle", "insert", "update", "link", "edit", "remove"},
          id : Customers \cup Notes \cup (Cards \X Cards) \cup {Blank},
          name : Titles \cup Persons \cup {Blank}, details : Details \cup {Blank},
          readName : Titles \cup {Blank}, readDetails : Details \cup {Blank}, late : BOOLEAN]

\* What a handler found still holds when it writes, unless it was overtaken.
ClerkOK(h) ==
    LET k == clerk[h] IN
    /\ k.at = "insert" =>
         /\ k.id \in Customers \ DOMAIN customer /\ k.name \in Titles /\ k.details \in Details
         /\ \A g \in Clerks \ {h} : clerk[g].at \in {"insert", "update"} => clerk[g].id # k.id
         /\ ~k.late => Cardinality(DOMAIN customer) < MaxCustomers
    /\ k.at = "update" =>
         /\ k.id \in Customers /\ k.name \in Titles \cup {Blank} /\ k.readName \in Titles /\ k.readDetails \in Details
         /\ ~k.late /\ k.id \in DOMAIN customer =>
              k.readName = customer[k.id].name /\ k.readDetails = customer[k.id].details
    /\ k.at = "link" => k.id \in Cards \X Cards
    /\ k.at \in {"edit", "remove"} =>
         k.id \in DOMAIN note /\ (k.name \in Moderators \/ ~note[k.id].old \/ k.late)

CustomersOK ==
    /\ DOMAIN customer \subseteq Customers /\ IsFiniteSet(DOMAIN customer) /\ DOMAIN wished = DOMAIN customer
    /\ \A c \in DOMAIN customer : customer[c] \in CustomerRow /\ wished[c] \in CustomerRow
    /\ \A c \in DOMAIN customer : customer[c] = wished[c] \/ "update" \in hurried
    /\ \A c, d \in DOMAIN customer : c # d => customer[c].name # customer[d].name
    /\ Cardinality(DOMAIN customer) <= MaxCustomers \/ "insert" \in hurried

AnnInv ==
    /\ CustomersOK
    /\ cards \subseteq Cards /\ links \subseteq Cards \X Cards /\ watching \subseteq Cards \X Persons
    /\ DOMAIN note \subseteq Notes /\ \A n \in DOMAIN note : note[n] \in NoteRow
    /\ remarks \in 0 .. MaxRemarks /\ hurried \subseteq {"insert", "update"}
    /\ clerk \in [Clerks -> Clerk] /\ \A h \in Clerks : ClerkOK(h)

SameClerk(o, n) ==
    /\ n \in Clerk /\ n.at = o.at /\ n.id = o.id /\ n.name = o.name /\ n.details = o.details
    /\ n.readName = o.readName /\ n.readDetails = o.readDetails /\ (~n.late => ~o.late)

LEMMA AnnDesk == AtDesk \in Clerk /\ AtDesk.at = "idle"
  BY DEF AtDesk, Clerk

LEMMA AnnInvInit == AnnInit => AnnInv
  <1> SUFFICES ASSUME AnnInit PROVE AnnInv
    OBVIOUS
  <1>1. clerk \in [Clerks -> Clerk] /\ \A h \in Clerks : clerk[h] = AtDesk
    BY AnnDesk DEF AnnInit
  <1>2. DOMAIN customer = {} /\ DOMAIN wished = {} /\ DOMAIN note = {}
    BY DEF AnnInit
  <1>3. IsFiniteSet({}) /\ Cardinality({}) = 0
    BY FS_EmptySet
  <1>4. CustomersOK
    BY <1>2, <1>3, AnnotationsAssumption DEF CustomersOK
  <1>5. \A h \in Clerks : ClerkOK(h)
    BY <1>1, AnnDesk DEF ClerkOK
  <1> QED
    BY <1>1, <1>2, <1>4, <1>5, AnnotationsAssumption DEF AnnInv, AnnInit

LEMMA AnnParts ==
  ASSUME AnnInv
  PROVE  /\ CustomersOK /\ IsFiniteSet(DOMAIN customer) /\ Cardinality(DOMAIN customer) \in Nat
         /\ cards \subseteq Cards /\ links \subseteq Cards \X Cards /\ watching \subseteq Cards \X Persons
         /\ DOMAIN note \subseteq Notes /\ \A n \in DOMAIN note : note[n] \in NoteRow
         /\ remarks \in 0 .. MaxRemarks /\ hurried \subseteq {"insert", "update"}
         /\ clerk \in [Clerks -> Clerk] /\ \A h \in Clerks : clerk[h] \in Clerk /\ ClerkOK(h)
  <1>1. IsFiniteSet(DOMAIN customer)
    BY DEF AnnInv, CustomersOK
  <1>2. Cardinality(DOMAIN customer) \in Nat
    BY <1>1, FS_CardinalityType
  <1> QED
    BY <1>1, <1>2 DEF AnnInv

LEMMA AnnCustomersKept ==
  ASSUME AnnInv, UNCHANGED <<customer, wished, hurried>>
  PROVE  CustomersOK'
  BY AnnParts DEF CustomersOK

LEMMA AnnFromParts ==
  ASSUME CustomersOK', cards' \subseteq Cards, links' \subseteq Cards \X Cards, watching' \subseteq Cards \X Persons,
         DOMAIN note' \subseteq Notes, \A n \in DOMAIN note' : note'[n] \in NoteRow,
         remarks' \in 0 .. MaxRemarks, hurried' \subseteq {"insert", "update"},
         clerk' \in [Clerks -> Clerk], \A h \in Clerks : ClerkOK(h)'
  PROVE  AnnInv'
  BY DEF AnnInv

LEMMA AnnKept ==
  ASSUME AnnInv, NEW g \in Clerks, SameClerk(clerk[g], clerk'[g]),
         clerk[g].at = "insert" =>
           /\ clerk[g].id \notin DOMAIN customer'
           /\ \A j \in Clerks \ {g} : clerk'[j].at \in {"insert", "update"} => clerk'[j].id # clerk[g].id,
         clerk[g].at = "insert" /\ ~clerk'[g].late => Cardinality(DOMAIN customer') < MaxCustomers,
         clerk[g].at = "update" /\ ~clerk'[g].late /\ clerk[g].id \in DOMAIN customer' =>
           clerk[g].id \in DOMAIN customer /\ customer'[clerk[g].id] = customer[clerk[g].id],
         clerk[g].at \in {"edit", "remove"} =>
           clerk[g].id \in DOMAIN note' /\ (note'[clerk[g].id].old => note[clerk[g].id].old \/ clerk'[g].late)
  PROVE  ClerkOK(g)'
  <1>1. ClerkOK(g)
    BY AnnParts
  <1> QED
    BY <1>1 DEF ClerkOK, SameClerk

\* The table of customers and the comments are left alone: whoever keeps its
\* place keeps what it found.
LEMMA AnnStays ==
  ASSUME AnnInv, NEW G, G \subseteq Clerks, \A g \in G : SameClerk(clerk[g], clerk'[g]),
         customer' = customer,
         \A g \in Clerks \ G : clerk'[g].at = "idle"
                               \/ \A j \in G : clerk[j].at = "insert" => clerk'[g].id # clerk[j].id,
         \A g \in G : clerk[g].at \in {"edit", "remove"} =>
           clerk[g].id \in DOMAIN note' /\ (note'[clerk[g].id].old => note[clerk[g].id].old \/ clerk'[g].late)
  PROVE  \A g \in G : ClerkOK(g)'
  <1> SUFFICES ASSUME NEW g \in G PROVE ClerkOK(g)'
    OBVIOUS
  <1>1. ClerkOK(g) /\ SameClerk(clerk[g], clerk'[g]) /\ g \in Clerks
    BY AnnParts
  <1>2. clerk[g].at = "insert" =>
          /\ clerk[g].id \notin DOMAIN customer'
          /\ \A j \in Clerks \ {g} : clerk'[j].at \in {"insert", "update"} => clerk'[j].id # clerk[g].id
    BY <1>1 DEF ClerkOK, SameClerk
  <1>3. clerk[g].at = "insert" /\ ~clerk'[g].late => Cardinality(DOMAIN customer') < MaxCustomers
    BY <1>1 DEF ClerkOK, SameClerk
  <1> QED
    BY <1>1, <1>2, <1>3, AnnKept

\* Only links, watchers or issues change.
LEMMA AnnSurroundings ==
  ASSUME AnnInv, UNCHANGED <<customer, note, clerk, wished, hurried>>,
         cards' \subseteq Cards, links' \subseteq Cards \X Cards, watching' \subseteq Cards \X Persons,
         remarks < MaxRemarks, remarks' = remarks + 1
  PROVE  AnnInv'
  <1>1. \A g \in Clerks : SameClerk(clerk[g], clerk'[g])
    BY AnnParts DEF SameClerk
  <1>2. \A g \in Clerks : clerk[g].at \in {"edit", "remove"} => clerk[g].id \in DOMAIN note
    BY AnnParts DEF ClerkOK
  <1>3. \A g \in Clerks : ClerkOK(g)'
    BY <1>1, <1>2, AnnStays
  <1>4. remarks' \in 0 .. MaxRemarks
    BY AnnParts, AnnotationsAssumption
  <1> QED
    BY <1>3, <1>4, AnnParts, AnnCustomersKept, AnnFromParts

LEMMA AnnEnds ==
  ASSUME AnnInv, NEW h \in Clerks, NEW at, EndRemark(h, at)
  PROVE  /\ clerk' \in [Clerks -> Clerk] /\ clerk'[h] = AtDesk /\ ClerkOK(h)'
         /\ \A g \in Clerks \ {h} : SameClerk(clerk[g], clerk'[g]) /\ (clerk[g].at = at => clerk'[g].late)
  <1>1. clerk'[h] = AtDesk
    BY DEF EndRemark
  <1>2. ASSUME NEW g \in Clerks \ {h}
        PROVE  SameClerk(clerk[g], clerk'[g]) /\ (clerk[g].at = at => clerk'[g].late)
    <2>1. clerk[g] \in Clerk
      BY AnnParts
    <2>2. clerk'[g] = IF clerk[g].at = at THEN [clerk[g] EXCEPT !.late = TRUE] ELSE clerk[g]
      BY DEF EndRemark
    <2>3. CASE clerk[g].at = at
      <3>1. clerk'[g] = [clerk[g] EXCEPT !.late = TRUE]
        BY <2>2, <2>3
      <3> QED
        BY <2>1, <3>1 DEF Clerk, SameClerk
    <2>4. CASE clerk[g].at # at
      <3>1. clerk'[g] = clerk[g]
        BY <2>2, <2>4
      <3> QED
        BY <2>1, <2>4, <3>1 DEF SameClerk
    <2> QED
      BY <2>3, <2>4
  <1>3. clerk' = [g \in Clerks |-> clerk'[g]]
    BY DEF EndRemark
  <1>4. \A g \in Clerks : clerk'[g] \in Clerk
    BY <1>1, <1>2, AnnDesk DEF SameClerk
  <1>5. ClerkOK(h)'
    BY <1>1, AnnDesk DEF ClerkOK
  <1> QED
    BY <1>1, <1>2, <1>3, <1>4, <1>5

\* A link, a comment, or nothing is written, and the handler is done.
LEMMA AnnDone ==
  ASSUME AnnInv, NEW h \in Clerks, EndRemark(h, "none"), UNCHANGED <<customer, cards, watching, remarks, wished, hurried>>,
         links' \subseteq Cards \X Cards, DOMAIN note' = DOMAIN note,
         \A n \in DOMAIN note : note'[n] \in NoteRow /\ note'[n].old = note[n].old
  PROVE  AnnInv'
  <1>1. /\ clerk' \in [Clerks -> Clerk] /\ clerk'[h] = AtDesk /\ ClerkOK(h)'
        /\ \A g \in Clerks \ {h} : SameClerk(clerk[g], clerk'[g])
    BY AnnEnds
  <1>2. \A g \in Clerks \ {h} : clerk[g].at \in {"edit", "remove"} =>
           clerk[g].id \in DOMAIN note' /\ (note'[clerk[g].id].old => note[clerk[g].id].old \/ clerk'[g].late)
    BY AnnParts DEF ClerkOK
  <1>3. clerk'[h].at = "idle"
    BY <1>1, AnnDesk
  <1>4. \A g \in Clerks \ {h} : ClerkOK(g)'
    BY <1>1, <1>2, <1>3, AnnStays
  <1> QED
    BY <1>1, <1>4, AnnParts, AnnCustomersKept, AnnFromParts

LEMMA AnnLinked ==
  ASSUME AnnInv, NEW h \in Clerks, insert_link(h) \/ StopClerk(h)
  PROVE  AnnInv'
  <1>1. /\ EndRemark(h, "none") /\ UNCHANGED <<customer, cards, watching, note, remarks, wished, hurried>>
    BY DEF insert_link, StopClerk
  <1>2. links' \subseteq Cards \X Cards
    BY AnnParts DEF insert_link, StopClerk, ClerkOK
  <1> QED
    BY <1>1, <1>2, AnnParts, AnnDone

LEMMA AnnCommented ==
  ASSUME AnnInv, NEW h \in Clerks, write_comment(h)
  PROVE  AnnInv'
  <1>0. PICK n : n = clerk[h].id
    OBVIOUS
  <1>1. EndRemark(h, "none") /\ UNCHANGED <<customer, cards, links, watching, remarks, wished, hurried>>
    BY DEF write_comment
  <1>2. note' = IF clerk[h].at = "remove" THEN [note EXCEPT ![n].gone = TRUE] ELSE note
    BY <1>0 DEF write_comment
  <1>3. n \in DOMAIN note
    BY <1>0, AnnParts DEF ClerkOK, write_comment
  <1>4. DOMAIN note' = DOMAIN note
    BY <1>2
  <1>5. ASSUME NEW m \in DOMAIN note PROVE note'[m] \in NoteRow /\ note'[m].old = note[m].old
    <2>1. note[m] \in NoteRow
      BY AnnParts
    <2>2. CASE clerk[h].at = "remove" /\ m = n
      <3>1. note'[m] = [note[m] EXCEPT !.gone = TRUE]
        BY <1>2, <1>3, <2>2
      <3> QED
        BY <2>1, <3>1 DEF NoteRow
    <2>3. CASE clerk[h].at # "remove" \/ m # n
      <3>1. note'[m] = note[m]
        BY <1>2, <1>3, <2>3
      <3> QED
        BY <2>1, <3>1
    <2> QED
      BY <2>2, <2>3
  <1> QED
    BY <1>1, <1>4, <1>5, AnnParts, AnnDone

\* A request begins: it counts or reads, and changes no row.
LEMMA AnnBegins ==
  ASSUME AnnInv, NEW h \in Clerks, NEW k \in Clerk, BeginRemark(h, k),
         UNCHANGED <<customer, cards, links, watching, note, wished, hurried>>,
         k.at \in {"insert", "update"} => \A g \in Clerks : clerk[g].at = "insert" => clerk[g].id # k.id,
         k.at = "insert" =>
           /\ k.id \in Customers \ DOMAIN customer /\ k.name \in Titles /\ k.details \in Details
           /\ \A g \in Clerks : clerk[g].id # k.id
           /\ Cardinality(DOMAIN customer) < MaxCustomers,
         k.at = "update" =>
           /\ k.id \in Customers /\ k.name \in Titles \cup {Blank} /\ k.readName \in Titles /\ k.readDetails \in Details
           /\ k.readName = customer[k.id].name /\ k.readDetails = customer[k.id].details,
         k.at = "link" => k.id \in Cards \X Cards,
         k.at \in {"edit", "remove"} => k.id \in DOMAIN note /\ (k.name \in Moderators \/ ~note[k.id].old)
  PROVE  AnnInv'
  <1>1. clerk' \in [Clerks -> Clerk] /\ clerk'[h] = k /\ \A g \in Clerks \ {h} : clerk'[g] = clerk[g]
    BY AnnParts DEF BeginRemark
  <1>2. remarks' \in 0 .. MaxRemarks
    BY AnnParts, AnnotationsAssumption DEF BeginRemark
  <1>3. ClerkOK(h)'
    BY <1>1 DEF ClerkOK
  <1>4. ASSUME NEW g \in Clerks \ {h} PROVE ClerkOK(g)'
    <2>1. ClerkOK(g) /\ clerk[g] \in Clerk
      BY AnnParts
    <2>2. SameClerk(clerk[g], clerk'[g])
      BY <1>1, <2>1 DEF SameClerk
    <2>3. clerk[g].at = "insert" =>
            /\ clerk[g].id \notin DOMAIN customer'
            /\ \A j \in Clerks \ {g} : clerk'[j].at \in {"insert", "update"} => clerk'[j].id # clerk[g].id
      BY <1>1, <2>1 DEF ClerkOK
    <2>4. /\ clerk[g].at = "insert" /\ ~clerk'[g].late => Cardinality(DOMAIN customer') < MaxCustomers
          /\ clerk[g].at \in {"edit", "remove"} => clerk[g].id \in DOMAIN note'
      BY <1>1, <2>1 DEF ClerkOK
    <2> QED
      BY <2>2, <2>3, <2>4, AnnKept
  <1> QED
    BY <1>1, <1>2, <1>3, <1>4, AnnParts, AnnCustomersKept, AnnFromParts

LEMMA AnnCreateBegins ==
  ASSUME AnnInv, NEW h \in Clerks, NEW c \in Customers, NEW n \in Titles, NEW v \in Details, create_customer(h, c, n, v)
  PROVE  AnnInv'
  <1> DEFINE k == [AtDesk EXCEPT !.at = "insert", !.id = c, !.name = n, !.details = v]
  <1>1. k \in Clerk /\ k.at = "insert" /\ k.id = c /\ k.name = n /\ k.details = v
    BY DEF AtDesk, Clerk
  <1>2. /\ BeginRemark(h, k) /\ UNCHANGED <<customer, cards, links, watching, note, wished, hurried>>
        /\ Cardinality(DOMAIN customer) < MaxCustomers /\ c \notin DOMAIN customer /\ \A g \in Clerks : clerk[g].id # c
    BY DEF create_customer
  <1> HIDE DEF k
  <1> QED
    BY <1>1, <1>2, AnnBegins

LEMMA AnnUpdateBegins ==
  ASSUME AnnInv, NEW h \in Clerks, NEW c \in Customers, NEW n \in Titles \cup {Blank}, NEW v \in Details \cup {Blank},
         update_customer(h, c, n, v)
  PROVE  AnnInv'
  <1> DEFINE k == [AtDesk EXCEPT !.at = "update", !.id = c, !.name = n, !.details = v,
                     !.readName = customer[c].name, !.readDetails = customer[c].details]
  <1>1. c \in DOMAIN customer /\ customer[c] \in CustomerRow
    BY AnnParts DEF update_customer, CustomersOK
  <1>2. customer[c].name \in Titles /\ customer[c].details \in Details
    BY <1>1 DEF CustomerRow
  <1>3. /\ k \in Clerk /\ k.at = "update" /\ k.id = c /\ k.name = n /\ k.readName = customer[c].name
        /\ k.readDetails = customer[c].details
    BY <1>2 DEF AtDesk, Clerk
  <1>4. BeginRemark(h, k) /\ UNCHANGED <<customer, cards, links, watching, note, wished, hurried>>
    BY DEF update_customer
  <1>5. \A g \in Clerks : clerk[g].at = "insert" => clerk[g].id # c
    BY <1>1, AnnParts DEF ClerkOK
  <1> HIDE DEF k
  <1> QED
    BY <1>2, <1>3, <1>4, <1>5, AnnBegins

LEMMA AnnLinkBegins ==
  ASSUME AnnInv, NEW h \in Clerks, NEW s \in Cards, NEW t \in Cards, create_link(h, s, t)
  PROVE  AnnInv'
  <1> DEFINE k == [AtDesk EXCEPT !.at = "link", !.id = <<s, t>>]
  <1>1. k \in Clerk /\ k.at = "link" /\ k.id = <<s, t>>
    BY DEF AtDesk, Clerk
  <1>2. BeginRemark(h, k) /\ UNCHANGED <<customer, cards, links, watching, note, wished, hurried>>
    BY DEF create_link
  <1>3. k.id \in Cards \X Cards
    BY <1>1
  <1> HIDE DEF k
  <1> QED
    BY <1>1, <1>2, <1>3, AnnBegins

LEMMA AnnCommentBegins ==
  ASSUME AnnInv, NEW h \in Clerks, NEW n \in Notes, NEW u \in Persons, NEW what \in {"edit", "remove"},
         comment_meta(h, n, u, what)
  PROVE  AnnInv'
  <1> DEFINE k == [AtDesk EXCEPT !.at = what, !.id = n, !.name = u]
  <1>1. k \in Clerk /\ k.at = what /\ k.id = n /\ k.name = u
    BY DEF AtDesk, Clerk
  <1>2. /\ BeginRemark(h, k) /\ UNCHANGED <<customer, cards, links, watching, note, wished, hurried>>
        /\ n \in DOMAIN note /\ (u \in Moderators \/ ~note[n].old)
    BY DEF comment_meta, authorize_comment_mutation
  <1> HIDE DEF k
  <1> QED
    BY <1>1, <1>2, AnnBegins

\* INSERT: other creations have been overtaken.
LEMMA AnnInserted ==
  ASSUME AnnInv, NEW h \in Clerks, insert_customer(h)
  PROVE  AnnInv'
  <1>0. PICK k : k = clerk[h]
    OBVIOUS
  <1>1. k.at = "insert" /\ k \in Clerk /\ ClerkOK(h)
    BY <1>0, AnnParts DEF insert_customer
  <1>2. /\ k.id \in Customers \ DOMAIN customer /\ k.name \in Titles /\ k.details \in Details
        /\ \A g \in Clerks \ {h} : clerk[g].at \in {"insert", "update"} => clerk[g].id # k.id
        /\ ~k.late => Cardinality(DOMAIN customer) < MaxCustomers
    BY <1>0, <1>1 DEF ClerkOK
  <1>3. PICK row : row = [name |-> k.name, details |-> k.details]
    OBVIOUS
  <1>4. row \in CustomerRow /\ row.name = k.name
    BY <1>2, <1>3 DEF CustomerRow
  <1>5. /\ UNCHANGED <<cards, links, watching, note, remarks>>
        /\ hurried' = IF k.late THEN hurried \cup {"insert"} ELSE hurried
        /\ EndRemark(h, "insert")
    BY <1>0 DEF insert_customer
  <1>6. CASE NameFree(k.id, k.name)
    <2>1. /\ customer' = [c \in DOMAIN customer \cup {k.id} |-> IF c = k.id THEN row ELSE customer[c]]
          /\ wished' = [c \in DOMAIN wished \cup {k.id} |-> IF c = k.id THEN row ELSE wished[c]]
      BY <1>0, <1>3, <1>6 DEF insert_customer
    <2>2. /\ DOMAIN customer' = DOMAIN customer \cup {k.id} /\ DOMAIN wished' = DOMAIN customer'
          /\ customer'[k.id] = row /\ wished'[k.id] = row
          /\ \A c \in DOMAIN customer : customer'[c] = customer[c] /\ wished'[c] = wished[c]
      BY <1>2, <2>1, AnnParts DEF CustomersOK
    <2>3. /\ IsFiniteSet(DOMAIN customer \cup {k.id}) /\ Cardinality(DOMAIN customer \cup {k.id}) = Cardinality(DOMAIN customer) + 1
      BY <1>2, AnnParts, FS_AddElement
    <2>4. hurried \subseteq hurried'
      BY <1>5
    <2>5. \A c \in DOMAIN customer' : customer'[c] \in CustomerRow /\ wished'[c] \in CustomerRow
      BY <1>4, <2>2, AnnParts DEF CustomersOK
    <2>6. \A c \in DOMAIN customer' : customer'[c] = wished'[c] \/ "update" \in hurried'
      BY <2>2, <2>4, AnnParts DEF CustomersOK
    <2>7. \A c, d \in DOMAIN customer' : c # d => customer'[c].name # customer'[d].name
      <3>1. \A d \in DOMAIN customer : customer[d].name # k.name
        BY <1>2, <1>6 DEF NameFree
      <3>2. \A c, d \in DOMAIN customer : c # d => customer[c].name # customer[d].name
        BY AnnParts DEF CustomersOK
      <3> QED
        BY <1>4, <2>2, <3>1, <3>2
    <2>8. Cardinality(DOMAIN customer') <= MaxCustomers \/ "insert" \in hurried'
      <3>1. CASE k.late
        BY <1>5, <3>1
      <3>2. CASE ~k.late
        <4>1. Cardinality(DOMAIN customer) < MaxCustomers /\ Cardinality(DOMAIN customer) \in Nat /\ MaxCustomers \in Nat
          BY <1>2, <3>2, AnnParts, AnnotationsAssumption
        <4>2. Cardinality(DOMAIN customer') = Cardinality(DOMAIN customer) + 1
          BY <2>2, <2>3
        <4> QED
          BY <4>1, <4>2
      <3> QED
        BY <3>1, <3>2
    <2>9. DOMAIN customer' \subseteq Customers /\ IsFiniteSet(DOMAIN customer')
      BY <1>2, <2>2, <2>3, AnnParts DEF CustomersOK
    <2>10. CustomersOK'
      BY <2>2, <2>5, <2>6, <2>7, <2>8, <2>9 DEF CustomersOK
    <2>11. /\ clerk' \in [Clerks -> Clerk] /\ clerk'[h] = AtDesk /\ ClerkOK(h)'
           /\ \A g \in Clerks \ {h} : SameClerk(clerk[g], clerk'[g]) /\ (clerk[g].at = "insert" => clerk'[g].late)
      BY <1>5, AnnEnds
    <2>12. ASSUME NEW g \in Clerks \ {h} PROVE ClerkOK(g)'
      <3>1. ClerkOK(g) /\ SameClerk(clerk[g], clerk'[g])
        BY <2>11, AnnParts
      <3>2. ASSUME clerk[g].at = "insert"
            PROVE  /\ clerk[g].id \notin DOMAIN customer'
                   /\ \A j \in Clerks \ {g} : clerk'[j].at \in {"insert", "update"} => clerk'[j].id # clerk[g].id
        <4>1. clerk[g].id \notin DOMAIN customer /\ clerk[g].id # k.id
          BY <1>2, <3>1, <3>2 DEF ClerkOK
        <4>2. \A j \in Clerks \ {g} : clerk[j].at \in {"insert", "update"} => clerk[j].id # clerk[g].id
          BY <3>1, <3>2 DEF ClerkOK
        <4>3. \A j \in Clerks \ {h} : clerk'[j].at = clerk[j].at /\ clerk'[j].id = clerk[j].id
          BY <2>11 DEF SameClerk
        <4>4. clerk'[h].at = "idle"
          BY <2>11, AnnDesk
        <4> QED
          BY <2>2, <4>1, <4>2, <4>3, <4>4
      <3>3. clerk[g].at = "update" /\ clerk[g].id \in DOMAIN customer' =>
              clerk[g].id \in DOMAIN customer /\ customer'[clerk[g].id] = customer[clerk[g].id]
        BY <1>2, <2>2
      <3>4. clerk[g].at \in {"edit", "remove"} => clerk[g].id \in DOMAIN note' /\ note' = note
        BY <1>5, <3>1 DEF ClerkOK
      <3> QED
        BY <2>11, <3>1, <3>2, <3>3, <3>4, AnnKept
    <2>13. hurried' \subseteq {"insert", "update"}
      BY <1>5, AnnParts
    <2> QED
      BY <1>5, <2>10, <2>11, <2>12, <2>13, AnnParts, AnnFromParts
  <1>7. CASE ~NameFree(k.id, k.name)
    <2>1. customer' = customer /\ wished' = wished
      BY <1>0, <1>7 DEF insert_customer
    <2>2. hurried \subseteq hurried' /\ hurried' \subseteq {"insert", "update"}
      BY <1>5, AnnParts
    <2>3. CustomersOK'
      BY <2>1, <2>2, AnnParts DEF CustomersOK
    <2>4. /\ clerk' \in [Clerks -> Clerk] /\ clerk'[h] = AtDesk /\ ClerkOK(h)'
          /\ \A g \in Clerks \ {h} : SameClerk(clerk[g], clerk'[g])
      BY <1>5, AnnEnds
    <2>5. clerk'[h].at = "idle"
      BY <2>4, AnnDesk
    <2>6. \A g \in Clerks \ {h} : clerk[g].at \in {"edit", "remove"} => clerk[g].id \in DOMAIN note' /\ note' = note
      BY <1>5, AnnParts DEF ClerkOK
    <2>7. \A g \in Clerks \ {h} : ClerkOK(g)'
      BY <2>1, <2>4, <2>5, <2>6, AnnStays
    <2> QED
      BY <1>5, <2>2, <2>3, <2>4, <2>7, AnnParts, AnnFromParts
  <1> QED
    BY <1>6, <1>7

\* UPDATE: the row is what was read with the patch over it.
LEMMA AnnWritten ==
  ASSUME AnnInv, NEW h \in Clerks, write_customer(h)
  PROVE  AnnInv'
  <1>0. PICK k : k = clerk[h]
    OBVIOUS
  <1>1. k.at = "update" /\ k \in Clerk /\ ClerkOK(h)
    BY <1>0, AnnParts DEF write_customer
  <1>2. /\ k.id \in Customers /\ k.name \in Titles \cup {Blank} /\ k.readName \in Titles /\ k.readDetails \in Details
        /\ ~k.late /\ k.id \in DOMAIN customer =>
              k.readName = customer[k.id].name /\ k.readDetails = customer[k.id].details
        /\ k.details \in Details \cup {Blank}
    BY <1>0, <1>1 DEF ClerkOK, Clerk
  <1>3. PICK row : row = [name |-> merge_field(k.name, k.readName), details |-> merge_field(k.details, k.readDetails)]
    OBVIOUS
  <1>4. row \in CustomerRow
    BY <1>2, <1>3 DEF CustomerRow, merge_field
  <1>5. /\ UNCHANGED <<cards, links, watching, note, remarks>>
        /\ hurried' = IF k.late THEN hurried \cup {"update"} ELSE hurried
        /\ EndRemark(h, "update")
    BY <1>0 DEF write_customer
  <1>6. hurried \subseteq hurried' /\ hurried' \subseteq {"insert", "update"} /\ (k.late => "update" \in hurried')
    BY <1>5, AnnParts
  <1>7. CASE k.id \in DOMAIN customer /\ NameFree(k.id, row.name)
    <2>0. PICK w : w = [name |-> IF k.name = Blank THEN wished[k.id].name ELSE k.name,
                        details |-> IF k.details = Blank THEN wished[k.id].details ELSE k.details]
      OBVIOUS
    <2>1. customer' = [customer EXCEPT ![k.id] = row] /\ wished' = [wished EXCEPT ![k.id] = w]
      BY <1>0, <1>3, <1>7, <2>0 DEF write_customer
    <2>2. /\ DOMAIN customer' = DOMAIN customer /\ DOMAIN wished' = DOMAIN customer
          /\ customer'[k.id] = row /\ wished'[k.id] = w
          /\ \A c \in DOMAIN customer : c # k.id => customer'[c] = customer[c] /\ wished'[c] = wished[c]
      BY <1>7, <2>1, AnnParts DEF CustomersOK
    <2>3. customer[k.id] \in CustomerRow /\ wished[k.id] \in CustomerRow
      BY <1>7, AnnParts DEF CustomersOK
    <2>4. w \in CustomerRow
      BY <1>2, <2>0, <2>3 DEF CustomerRow
    <2>5. row = w \/ "update" \in hurried'
      <3>1. CASE k.late \/ "update" \in hurried
        BY <1>6, <3>1
      <3>2. CASE ~k.late /\ "update" \notin hurried
        <4>1. customer[k.id] = wished[k.id] /\ k.readName = wished[k.id].name /\ k.readDetails = wished[k.id].details
          BY <1>2, <1>7, <3>2, AnnParts DEF CustomersOK
        <4> QED
          BY <1>3, <2>0, <4>1 DEF merge_field
      <3> QED
        BY <3>1, <3>2
    <2>6. \A c, d \in DOMAIN customer' : c # d => customer'[c].name # customer'[d].name
      <3>1. \A d \in DOMAIN customer \ {k.id} : customer[d].name # row.name
        BY <1>7 DEF NameFree
      <3>2. \A c, d \in DOMAIN customer : c # d => customer[c].name # customer[d].name
        BY AnnParts DEF CustomersOK
      <3> QED
        BY <2>2, <3>1, <3>2
    <2>7. \A c \in DOMAIN customer : customer'[c] \in CustomerRow /\ wished'[c] \in CustomerRow
      BY <1>4, <2>2, <2>4, AnnParts DEF CustomersOK
    <2>8. \A c \in DOMAIN customer : customer'[c] = wished'[c] \/ "update" \in hurried'
      BY <1>6, <2>2, <2>5, AnnParts DEF CustomersOK
    <2>9. Cardinality(DOMAIN customer') <= MaxCustomers \/ "insert" \in hurried'
      BY <1>6, <2>2, AnnParts DEF CustomersOK
    <2>10. DOMAIN customer' \subseteq Customers /\ IsFiniteSet(DOMAIN customer') /\ DOMAIN wished' = DOMAIN customer'
      BY <2>2, AnnParts DEF CustomersOK
    <2>11. CustomersOK'
      BY <2>2, <2>6, <2>7, <2>8, <2>9, <2>10 DEF CustomersOK
    <2>12. /\ clerk' \in [Clerks -> Clerk] /\ clerk'[h] = AtDesk /\ ClerkOK(h)'
           /\ \A g \in Clerks \ {h} : SameClerk(clerk[g], clerk'[g]) /\ (clerk[g].at = "update" => clerk'[g].late)
      BY <1>5, AnnEnds
    <2>13. ASSUME NEW g \in Clerks \ {h} PROVE ClerkOK(g)'
      <3>1. ClerkOK(g) /\ SameClerk(clerk[g], clerk'[g]) /\ (clerk[g].at = "update" => clerk'[g].late)
        BY <2>12, AnnParts
      <3>2. \A j \in Clerks \ {h} : clerk'[j].at = clerk[j].at /\ clerk'[j].id = clerk[j].id
        BY <2>12 DEF SameClerk
      <3>3. clerk'[h].at = "idle"
        BY <2>12, AnnDesk
      <3>4. clerk[g].at = "insert" =>
              /\ clerk[g].id \notin DOMAIN customer'
              /\ \A j \in Clerks \ {g} : clerk'[j].at \in {"insert", "update"} => clerk'[j].id # clerk[g].id
        BY <2>2, <3>1, <3>2, <3>3 DEF ClerkOK
      <3>5. clerk[g].at = "insert" /\ ~clerk'[g].late => Cardinality(DOMAIN customer') < MaxCustomers
        BY <2>2, <3>1 DEF ClerkOK, SameClerk
      <3>6. clerk[g].at \in {"edit", "remove"} => clerk[g].id \in DOMAIN note' /\ note' = note
        BY <1>5, <3>1 DEF ClerkOK
      <3> QED
        BY <3>1, <3>4, <3>5, <3>6, AnnKept
    <2> QED
      BY <1>5, <1>6, <2>11, <2>12, <2>13, AnnParts, AnnFromParts
  <1>8. CASE ~(k.id \in DOMAIN customer /\ NameFree(k.id, row.name))
    <2>1. customer' = customer /\ wished' = wished
      BY <1>0, <1>3, <1>8 DEF write_customer
    <2>2. CustomersOK'
      BY <1>6, <2>1, AnnParts DEF CustomersOK
    <2>3. /\ clerk' \in [Clerks -> Clerk] /\ clerk'[h] = AtDesk /\ ClerkOK(h)'
          /\ \A g \in Clerks \ {h} : SameClerk(clerk[g], clerk'[g])
      BY <1>5, AnnEnds
    <2>4. clerk'[h].at = "idle"
      BY <2>3, AnnDesk
    <2>5. \A g \in Clerks \ {h} : clerk[g].at \in {"edit", "remove"} => clerk[g].id \in DOMAIN note' /\ note' = note
      BY <1>5, AnnParts DEF ClerkOK
    <2>6. \A g \in Clerks \ {h} : ClerkOK(g)'
      BY <2>1, <2>3, <2>4, <2>5, AnnStays
    <2> QED
      BY <1>5, <1>6, <2>2, <2>3, <2>6, AnnParts, AnnFromParts
  <1> QED
    BY <1>7, <1>8

LEMMA AnnDeleted ==
  ASSUME AnnInv, NEW c \in Customers, delete_customer(c)
  PROVE  AnnInv'
  <1>1. /\ DOMAIN customer' = DOMAIN customer \ {c} /\ DOMAIN wished' = DOMAIN customer \ {c}
        /\ \A d \in DOMAIN customer' : customer'[d] = customer[d] /\ wished'[d] = wished[d]
    BY AnnParts DEF delete_customer, CustomersOK
  <1>2. UNCHANGED <<cards, links, watching, note, clerk, hurried>> /\ remarks < MaxRemarks /\ remarks' = remarks + 1
    BY DEF delete_customer
  <1>3. IsFiniteSet(DOMAIN customer') /\ Cardinality(DOMAIN customer') <= Cardinality(DOMAIN customer)
    BY <1>1, AnnParts, FS_Subset
  <1>4. Cardinality(DOMAIN customer') \in Nat /\ Cardinality(DOMAIN customer) \in Nat /\ MaxCustomers \in Nat
    BY <1>3, AnnParts, FS_CardinalityType, AnnotationsAssumption
  <1>5. Cardinality(DOMAIN customer') <= MaxCustomers \/ "insert" \in hurried'
    BY <1>2, <1>3, <1>4, AnnParts DEF CustomersOK
  <1>6. CustomersOK'
    BY <1>1, <1>2, <1>3, <1>5, AnnParts DEF CustomersOK
  <1>7. ASSUME NEW g \in Clerks PROVE ClerkOK(g)'
    <2>1. ClerkOK(g) /\ SameClerk(clerk[g], clerk'[g])
      BY <1>2, AnnParts DEF SameClerk
    <2>2. clerk[g].at = "insert" =>
            /\ clerk[g].id \notin DOMAIN customer'
            /\ \A j \in Clerks \ {g} : clerk'[j].at \in {"insert", "update"} => clerk'[j].id # clerk[g].id
      BY <1>1, <1>2, <2>1 DEF ClerkOK
    <2>3. clerk[g].at = "insert" /\ ~clerk'[g].late => Cardinality(DOMAIN customer') < MaxCustomers
      BY <1>2, <1>3, <1>4, <2>1 DEF ClerkOK
    <2>4. clerk[g].at \in {"edit", "remove"} => clerk[g].id \in DOMAIN note' /\ note' = note
      BY <1>2, <2>1 DEF ClerkOK
    <2> QED
      BY <1>1, <2>1, <2>2, <2>3, <2>4, AnnKept
  <1>8. remarks' \in 0 .. MaxRemarks
    BY <1>2, AnnParts, AnnotationsAssumption
  <1> QED
    BY <1>2, <1>6, <1>7, <1>8, AnnParts, AnnFromParts

LEMMA AnnCreatesNote ==
  ASSUME AnnInv, NEW n \in Notes, NEW u \in Persons, NEW i \in Cards, create_comment(n, u, i)
  PROVE  AnnInv'
  <1>1. /\ UNCHANGED <<customer, cards, links, watching, clerk, wished, hurried>> /\ remarks < MaxRemarks
        /\ remarks' = remarks + 1 /\ n \notin DOMAIN note
    BY DEF create_comment
  <1>2. PICK row : row = [author |-> u, on |-> i, old |-> FALSE, gone |-> FALSE]
    OBVIOUS
  <1>3. note' = [m \in DOMAIN note \cup {n} |-> IF m = n THEN row ELSE note[m]]
    BY <1>2 DEF create_comment
  <1>4. row \in NoteRow
    BY <1>2 DEF NoteRow
  <1>5. DOMAIN note' \subseteq Notes /\ \A m \in DOMAIN note' : note'[m] \in NoteRow
    BY <1>3, <1>4, AnnParts
  <1>6. \A g \in Clerks : SameClerk(clerk[g], clerk'[g])
    BY <1>1, AnnParts DEF SameClerk
  <1>7. \A m \in DOMAIN note : m \in DOMAIN note' /\ note'[m] = note[m]
    BY <1>1, <1>3
  <1>8. \A g \in Clerks : clerk[g].at \in {"edit", "remove"} =>
          clerk[g].id \in DOMAIN note' /\ (note'[clerk[g].id].old => note[clerk[g].id].old \/ clerk'[g].late)
    BY <1>7, AnnParts DEF ClerkOK
  <1>9. \A g \in Clerks : ClerkOK(g)'
    BY <1>1, <1>6, <1>8, AnnStays
  <1>10. remarks' \in 0 .. MaxRemarks
    BY <1>1, AnnParts, AnnotationsAssumption
  <1> QED
    BY <1>1, <1>5, <1>9, <1>10, AnnParts, AnnCustomersKept, AnnFromParts

\* Whoever has the comment in hand when its window closes is late.
LEMMA AnnWindowCloses ==
  ASSUME AnnInv, NEW n \in Notes, window_closes(n)
  PROVE  AnnInv'
  <1>1. /\ UNCHANGED <<customer, cards, links, watching, wished, hurried>> /\ remarks < MaxRemarks
        /\ remarks' = remarks + 1 /\ n \in DOMAIN note /\ note' = [note EXCEPT ![n].old = TRUE]
    BY DEF window_closes
  <1>2. DOMAIN note' = DOMAIN note /\ \A m \in DOMAIN note : m # n => note'[m] = note[m]
    BY <1>1
  <1>3. note'[n] \in NoteRow
    <2>1. note[n] \in NoteRow /\ note'[n] = [note[n] EXCEPT !.old = TRUE]
      BY <1>1, AnnParts
    <2> QED
      BY <2>1 DEF NoteRow
  <1>4. ASSUME NEW g \in Clerks
        PROVE  SameClerk(clerk[g], clerk'[g]) /\ (clerk[g].id = n => clerk'[g].late)
    <2>1. clerk[g] \in Clerk
      BY AnnParts
    <2>2. clerk'[g] = IF clerk[g].id = n THEN [clerk[g] EXCEPT !.late = TRUE] ELSE clerk[g]
      BY DEF window_closes
    <2>3. CASE clerk[g].id = n
      <3>1. clerk'[g] = [clerk[g] EXCEPT !.late = TRUE]
        BY <2>2, <2>3
      <3> QED
        BY <2>1, <3>1 DEF Clerk, SameClerk
    <2>4. CASE clerk[g].id # n
      <3>1. clerk'[g] = clerk[g]
        BY <2>2, <2>4
      <3> QED
        BY <2>1, <2>4, <3>1 DEF SameClerk
    <2> QED
      BY <2>3, <2>4
  <1>5. clerk' \in [Clerks -> Clerk]
    <2>1. clerk' = [g \in Clerks |-> clerk'[g]]
      BY DEF window_closes
    <2>2. \A g \in Clerks : clerk'[g] \in Clerk
      BY <1>4 DEF SameClerk
    <2> QED
      BY <2>1, <2>2
  <1>6. \A g \in Clerks : clerk[g].at \in {"edit", "remove"} =>
          clerk[g].id \in DOMAIN note' /\ (note'[clerk[g].id].old => note[clerk[g].id].old \/ clerk'[g].late)
    <2>1. \A g \in Clerks : clerk[g].at \in {"edit", "remove"} => clerk[g].id \in DOMAIN note
      BY AnnParts DEF ClerkOK
    <2> QED
      BY <1>2, <1>4, <2>1
  <1>7. \A g \in Clerks : ClerkOK(g)'
    BY <1>1, <1>4, <1>6, AnnStays
  <1>8. remarks' \in 0 .. MaxRemarks
    BY <1>1, AnnParts, AnnotationsAssumption
  <1>9. \A m \in DOMAIN note' : note'[m] \in NoteRow
    BY <1>2, <1>3, AnnParts
  <1> QED
    BY <1>1, <1>2, <1>5, <1>7, <1>8, <1>9, AnnParts, AnnCustomersKept, AnnFromParts

LEMMA AnnInvStep ==
  ASSUME AnnInv, [AnnNext]_annVars
  PROVE  AnnInv'
  <1>1. CASE UNCHANGED annVars
    BY <1>1 DEF AnnInv, CustomersOK, ClerkOK, annVars
  <1>2. CASE AnnNext
    <2>1. CASE \E h \in Clerks, c \in Customers, n \in Titles, v \in Details : create_customer(h, c, n, v)
      BY <2>1, AnnCreateBegins
    <2>2. CASE \E h \in Clerks, c \in Customers, n \in Titles \cup {Blank}, v \in Details \cup {Blank} :
                 update_customer(h, c, n, v)
      BY <2>2, AnnUpdateBegins
    <2>3. CASE \E h \in Clerks :
                 insert_customer(h) \/ write_customer(h) \/ insert_link(h) \/ write_comment(h) \/ StopClerk(h)
      BY <2>3, AnnInserted, AnnWritten, AnnLinked, AnnCommented
    <2>4. CASE \E c \in Customers : delete_customer(c)
      BY <2>4, AnnDeleted
    <2>5. CASE \E h \in Clerks, s, t \in Cards : create_link(h, s, t)
      BY <2>5, AnnLinkBegins
    <2>6. CASE \E l \in links : delete_link(l)
      <3>1. /\ UNCHANGED <<customer, cards, watching, note, clerk, wished, hurried>> /\ links' \subseteq links
            /\ remarks < MaxRemarks /\ remarks' = remarks + 1
        BY <2>6 DEF delete_link
      <3> QED
        BY <3>1, AnnParts, AnnSurroundings
    <2>7. CASE \E i \in Cards, u \in Persons : add_watcher(i, u) \/ remove_watcher(i, u)
      <3>1. /\ UNCHANGED <<customer, cards, links, note, clerk, wished, hurried>> /\ watching' \subseteq Cards \X Persons
            /\ remarks < MaxRemarks /\ remarks' = remarks + 1
        BY <2>7, AnnParts DEF add_watcher, remove_watcher
      <3> QED
        BY <3>1, AnnParts, AnnSurroundings
    <2>8. CASE \E i \in Cards : issue_deleted(i)
      <3>1. /\ UNCHANGED <<customer, links, watching, note, clerk, wished, hurried>> /\ cards' \subseteq cards
            /\ remarks < MaxRemarks /\ remarks' = remarks + 1
        BY <2>8 DEF issue_deleted
      <3> QED
        BY <3>1, AnnParts, AnnSurroundings
    <2>9. CASE \E n \in Notes, u \in Persons, i \in Cards : create_comment(n, u, i)
      BY <2>9, AnnCreatesNote
    <2>10. CASE \E n \in Notes : window_closes(n)
      BY <2>10, AnnWindowCloses
    <2>11. CASE \E h \in Clerks, n \in Notes, u \in Persons, what \in {"edit", "remove"} : comment_meta(h, n, u, what)
      BY <2>11, AnnCommentBegins
    <2> QED
      BY <1>2, <2>1, <2>2, <2>3, <2>4, <2>5, <2>6, <2>7, <2>8, <2>9, <2>10, <2>11 DEF AnnNext
  <1> QED
    BY <1>1, <1>2

LEMMA AnnInvOverlap == AnnInv => AnnTypeOK /\ AnnotationsNeedOverlap
  <1> SUFFICES ASSUME AnnInv PROVE AnnTypeOK /\ AnnotationsNeedOverlap
    OBVIOUS
  <1>1. \A h \in Clerks : clerk[h].at \in {"idle", "insert", "update", "link", "edit", "remove"}
    BY AnnParts DEF Clerk
  <1>2. AnnTypeOK
    BY <1>1, AnnParts DEF AnnTypeOK, CustomersOK, CustomerRow, NoteRow
  <1>3. \A h \in Clerks : clerk[h].at \in {"edit", "remove"} /\ note[clerk[h].id].old /\ ~clerk[h].late
                         => clerk[h].name \in Moderators
    BY AnnParts DEF ClerkOK
  <1>4. /\ \A c, d \in DOMAIN customer : c # d => customer[c].name # customer[d].name
        /\ \A c \in DOMAIN customer : customer[c] # wished[c] => "update" \in hurried
    BY AnnParts DEF CustomersOK
  <1>5. Cardinality(DOMAIN customer) > MaxCustomers => "insert" \in hurried
    BY AnnParts, AnnotationsAssumption DEF CustomersOK
  <1> QED
    BY <1>2, <1>3, <1>4, <1>5 DEF AnnotationsNeedOverlap

\* Customer names stay unique in every interleaving; the cap, the fields last
\* given and the window for changing a comment give way only to an overlap.
THEOREM AnnotationsHold == AnnSpec => [](AnnTypeOK /\ AnnotationsNeedOverlap)
  <1>1. AnnInit => AnnInv
    BY AnnInvInit
  <1>2. AnnInv /\ [AnnNext]_annVars => AnnInv'
    BY AnnInvStep
  <1>3. AnnInv => AnnTypeOK /\ AnnotationsNeedOverlap
    BY AnnInvOverlap
  <1> QED
    BY <1>1, <1>2, <1>3, PTL DEF AnnSpec

-----------------------------------------------------------------------------
(* MCAccessAndContent.                                                     *)

\* A step of the whole is one of the component whose scene it is, and leaves
\* every other as it was.
LEMMA ComponentSteps ==
  ASSUME [AccessNext]_accessVars
  PROVE  /\ scene' = scene
         /\ [PictureNext]_pictureVars /\ [MemberNext]_memberVars /\ [LinkNext]_linkVars /\ [OidcNext]_oidcVars
         /\ [DocsNext]_docVars /\ [RepoNext]_repoVars /\ [TokenNext]_tokenVars /\ [WikiNext]_wikiVars
         /\ [AnnNext]_annVars /\ [GeoNext]_geoVars /\ [BudgetNext \/ DelayNext]_throttleVars
         /\ scene = "files" => [FileNext /\ UNCHANGED meetingVars]_allMeetingVars
         /\ scene # "files" => [MeetingNext]_allMeetingVars
  <1>1. CASE UNCHANGED accessVars
    BY <1>1 DEF accessVars
  <1>2. CASE AccessNext
    BY <1>2 DEF AccessNext
  <1> QED
    BY <1>1, <1>2

\* Each component runs as its own specification says, whatever scene it is;
\* so what the theorems above say of it, temporal or not, the whole keeps.
THEOREM ComponentsRunAlone ==
    AccessSpec => /\ PictureSpec /\ MemberSpec /\ LinkSpec /\ OidcSpec /\ DocsSpec /\ RepoSpec
                  /\ TokenSpec /\ WikiSpec /\ AnnSpec /\ GeoSpec /\ ThrottleSpec
  <1>1. AccessInit => /\ PictureInit /\ MemberInit /\ LinkInit /\ OidcInit /\ DocsInit /\ RepoInit
                      /\ TokenInit /\ WikiInit /\ AnnInit /\ GeoInit /\ ThrottleInit
    BY DEF AccessInit
  <1>2. [AccessNext]_accessVars =>
          /\ [PictureNext]_pictureVars /\ [MemberNext]_memberVars /\ [LinkNext]_linkVars /\ [OidcNext]_oidcVars
          /\ [DocsNext]_docVars /\ [RepoNext]_repoVars /\ [TokenNext]_tokenVars /\ [WikiNext]_wikiVars
          /\ [AnnNext]_annVars /\ [GeoNext]_geoVars /\ [BudgetNext \/ DelayNext]_throttleVars
    BY ComponentSteps
  <1> QED
    BY <1>1, <1>2, PTL DEF AccessSpec, PictureSpec, MemberSpec, LinkSpec, OidcSpec, DocsSpec, RepoSpec,
                           TokenSpec, WikiSpec, AnnSpec, GeoSpec, ThrottleSpec

\* Files run with the meetings they hang on, and once without any.
FilesInv ==
    /\ scene = "files" => FileInv /\ meeting = NoMeeting
    /\ scene # "files" => MeetingInv

LEMMA FilesInvariant == AccessSpec => []FilesInv
  <1>1. AccessInit => FilesInv
    BY MeetingInvInit DEF AccessInit, Parked, FilesInv, MeetingInv
  <1>2. FilesInv /\ [AccessNext]_accessVars => FilesInv'
    <2> SUFFICES ASSUME FilesInv, [AccessNext]_accessVars PROVE FilesInv'
      OBVIOUS
    <2>1. CASE scene = "files"
      <3>1. [FileNext]_fileVars /\ meeting' = meeting
        BY <2>1, ComponentSteps DEF allMeetingVars, meetingVars
      <3> QED
        BY <2>1, <3>1, ComponentSteps, FileInvStep DEF FilesInv
    <2>2. CASE scene # "files"
      BY <2>2, ComponentSteps, MeetingInvStep DEF FilesInv
    <2> QED
      BY <2>1, <2>2
  <1> QED
    BY <1>1, <1>2, PTL DEF AccessSpec

\* The variables of every component keep their types and every reference of a
\* row leads to a row, in each scene of the run and for any number of
\* handlers: what the handlers of these twelve components check and write.
THEOREM AccessTypesHold == AccessSpec => []AccessTypeOK
  <1>1. /\ PictureTypeOK /\ MemberTypeOK /\ LinkTypeOK /\ OidcTypeOK /\ DocsTypeOK /\ RepoTypeOK
        /\ TokenTypeOK /\ WikiTypeOK /\ AnnTypeOK /\ GeoTypeOK /\ ThrottleTypeOK /\ FilesInv
        => AccessTypeOK
    BY DEF AccessTypeOK, FilesInv, FileInv, MeetingInv
  <1> QED
    BY <1>1, ComponentsRunAlone, FilesInvariant, PicturesMatch, MemberTypeCorrect, LinkTypeCorrect,
       OidcTypeCorrect, DocsTypeCorrect, RepositoryCapsHold, AuthorityIsCurrent, WikiHistoryIsKept,
       AnnotationsHold, GeoHolds, CallersSlowed, PTL

\* What takes two steps comes apart only where two requests overlapped, one
\* stopped half way (a put that was torn among them), or one took a failed
\* lookup or settings read for an answer: the guards of members, repositories,
\* tokens, the wiki, annotations, pictures, the geolocation database and the
\* login delays.
THEOREM GuardsHoldUnlessOverlap == AccessSpec => []GuardsNeedOverlap
  <1>1. /\ AdminLostNeedsCause /\ RepositoryGuards /\ AuthorityNeedsOverlap /\ WikiKeepsHistory
        /\ AnnotationsNeedOverlap /\ PictureMatches /\ GeoFileMatches /\ GeoSwitchHolds /\ CallersAreSlowed
        => GuardsNeedOverlap
    BY DEF GuardsNeedOverlap
  <1> QED
    BY <1>1, ComponentsRunAlone, AdminsLostNeedCause, RepositoryCapsHold, AuthorityIsCurrent,
       WikiHistoryIsKept, AnnotationsHold, PicturesMatch, GeoHolds, CallersSlowed, PTL

\* Rows and objects, old links, ways in and saved texts agree in the whole as
\* they do in their components, a file being uploaded with or without a
\* meeting to hang on.
THEOREM WholeKeepsContent == AccessSpec => [](DiskMatchesRows /\ OldLinkLeadsHome /\ LockoutNeedsCause /\ SavedIsOnRemote)
  <1>1. FilesInv => DiskMatchesRows
    BY DEF FilesInv, MeetingInv, FileInv, DiskMatchesRows, FilesDieWithMeeting, NoMeeting
  <1> QED
    BY <1>1, ComponentsRunAlone, FilesInvariant, OldLinksLeadHome, LockoutsHaveACause, SavesAreOnRemote, PTL
=============================================================================
