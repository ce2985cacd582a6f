--------------------------- MODULE IssueSyncProofs ---------------------------
(***************************************************************************)
(* Proofs about IssueSync, for any number of issues and write handlers,    *)
(* any page limit and any overlap longer than two handlers take.           *)
(***************************************************************************)
EXTENDS IssueSync, TLAPS

\* The client has just loaded the issues there are.
LEMMA InitInv == Init => SyncInv
<1> SUFFICES ASSUME Init PROVE SyncInv  OBVIOUS
<1>1. \A i \in Issues : Current(i) \in Copy
  BY DEF Init, Current, Copy
<1>2. version \in [Issues -> Nat] /\ Deleted = {}
  BY DEF Init, Deleted
<1>3. held \in [Issues -> Copy \cup {NoCopy, NotShown}]
  BY <1>1 DEF Init
<1>4. Typed
  BY <1>2, <1>3 DEF Init, Typed, Ops
<1>5. Clocks
  BY IssueSyncAssumption DEF Init, Clocks
<1>6. LiveDelivered /\ TombstoneDelivered /\ StampsNear /\ PollSound
  BY <1>2 DEF Init, LiveDelivered, TombstoneDelivered, StampsNear, PollSound, Live
<1> QED  BY <1>4, <1>5, <1>6 DEF SyncInv, TypeOK

\* A statement that starts takes the clock for its stamp and writes nothing yet.
LEMMA StartInv ==
    ASSUME SyncInv, NEW w \in Writers, NEW kind \in Ops, NEW S \in SUBSET Issues,
           Start(w, kind, S)
    PROVE  SyncInv'
<1>1. Typed'
  BY DEF SyncInv, TypeOK, Typed, Start, Local, table, client, query, Copy
<1>2. Clocks'
  BY IssueSyncAssumption
  DEF SyncInv, TypeOK, Typed, Clocks, Start, Local, table, client, query
<1>3. LiveDelivered' /\ TombstoneDelivered'
  BY DEF SyncInv, LiveDelivered, TombstoneDelivered, Start, Live, Deleted, Current,
         overlapped, table, client, query
<1>4. StampsNear'
  BY DEF SyncInv, TypeOK, Typed, StampsNear, Start, Local, Live, table
<1>5. PollSound'
  BY DEF SyncInv, PollSound, Start, Live, Deleted, Current, table, client, query
<1> QED  BY <1>1, <1>2, <1>3, <1>4, <1>5 DEF SyncInv, TypeOK

\* update_issue reads a row.
LEMMA ReadIssueInv ==
    ASSUME SyncInv, NEW w \in Writers, NEW i \in Issues, ReadIssue(w, i)
    PROVE  SyncInv'
<1>1. Typed'
  BY DEF SyncInv, TypeOK, Typed, ReadIssue, Local, table, client, query, Copy, Ops
<1>2. Clocks' /\ StampsNear'
  BY DEF SyncInv, TypeOK, Typed, Clocks, StampsNear, ReadIssue, Local, Live, table, client, query
<1>3. LiveDelivered' /\ TombstoneDelivered' /\ PollSound'
  BY DEF SyncInv, LiveDelivered, TombstoneDelivered, PollSound, ReadIssue, Live, Deleted,
         Current, overlapped, table, client, query
<1> QED  BY <1>1, <1>2, <1>3 DEF SyncInv, TypeOK

\* A handler ends without writing relations.
LEMMA NoRelationsInv ==
    ASSUME SyncInv, NEW w \in Writers, NoRelations(w)
    PROVE  SyncInv'
<1>1. Typed'
  BY DEF SyncInv, TypeOK, Typed, NoRelations, Done, Local, table, client, query, Copy, Ops
<1>2. Clocks' /\ StampsNear'
  BY DEF SyncInv, TypeOK, Typed, Clocks, StampsNear, NoRelations, Done, Local, Live, table,
         client, query
<1>3. LiveDelivered' /\ TombstoneDelivered' /\ PollSound'
  BY DEF SyncInv, LiveDelivered, TombstoneDelivered, PollSound, NoRelations, Live, Deleted,
         Current, overlapped, table, client, query
<1> QED  BY <1>1, <1>2, <1>3 DEF SyncInv, TypeOK

\* What a commit writes is stamped at most Lag ago, so after any cursor the
\* server has handed out, or will hand out for a poll under way, less the overlap.
LEMMA CommitInv ==
    ASSUME SyncInv, NEW w \in Writers, Commit(w)
    PROVE  SyncInv'
<1> DEFINE M == Matched(w)
<1>1. M \subseteq Issues
  BY DEF SyncInv, TypeOK, Typed, Matched, Live, Deleted, Ops
<1>2. /\ stamp[w] \in Nat /\ stamp[w] <= now /\ now - stamp[w] <= Lag
      /\ stamp[w] > cursor - Overlap /\ stamp[w] > next - Overlap
  BY IssueSyncAssumption DEF SyncInv, TypeOK, Typed, Clocks, Commit
<1>3. /\ \A i \in Issues \ M : state'[i] = state[i] /\ fields'[i] = fields[i]
                               /\ mod'[i] = mod[i] /\ rels'[i] = rels[i]
      /\ \A i \in M : mod'[i] = stamp[w]
  BY <1>1 DEF Commit, set_modified_at, SyncInv, TypeOK, Typed
<1>4. /\ now' = now /\ rels' = rels /\ begun' = begun /\ held' = held /\ cursor' = cursor
      /\ more' = more /\ poll' = poll /\ start' = start /\ page' = page /\ got' = got
      /\ next' = next /\ unsent' = unsent
  BY DEF Commit, client, query
<1>5. LiveDelivered'
  <2> SUFFICES ASSUME NEW i \in Issues, state'[i] = "live", mod'[i] <= cursor - Overlap
               PROVE  held'[i] \in {Current(i)', NotShown}
    BY <1>4 DEF LiveDelivered, Live, overlapped
  <2>1. i \notin M
    BY IssueSyncAssumption, <1>2, <1>3 DEF SyncInv, TypeOK, Typed
  <2> QED  BY <1>3, <1>4, <2>1 DEF SyncInv, LiveDelivered, Live, Current, overlapped
<1>6. TombstoneDelivered'
  <2> SUFFICES ASSUME NEW i \in Issues, state'[i] = "deleted", mod'[i] <= cursor - Overlap
               PROVE  held'[i] \in {NoCopy, NotShown} \/ i \in unsent'
    BY <1>4 DEF TombstoneDelivered, Deleted, overlapped
  <2>1. i \notin M
    BY IssueSyncAssumption, <1>2, <1>3 DEF SyncInv, TypeOK, Typed
  <2> QED  BY <1>3, <1>4, <2>1 DEF SyncInv, TombstoneDelivered, Deleted, overlapped
<1>7. PollSound'
  <2>1. \A i \in Issues : mod'[i] <= next - Overlap => i \notin M
    BY IssueSyncAssumption, <1>2, <1>3 DEF SyncInv, TypeOK, Typed
  <2> QED  BY <1>3, <1>4, <2>1 DEF SyncInv, PollSound, Live, Deleted, Current
<1>8. CASE op[w] \in {"create", "update"} /\ M # {}
  <2>1. Local(w, "relations", op[w], M, 0, stamp[w])
    BY <1>8 DEF Commit
  <2>2. Typed'
    BY <1>1, <1>2, <1>4, <2>1
    DEF SyncInv, TypeOK, Typed, Commit, set_modified_at, Local, Copy, Ops
  <2>3. Clocks'
    BY <1>1, <1>2, <1>3, <1>4, <2>1 DEF SyncInv, TypeOK, Typed, Clocks, Commit, Local
  <2>4. StampsNear'
    <3> SUFFICES ASSUME NEW v \in Writers, pc'[v] = "relations", NEW i \in on'[v] \cap Live'
                 PROVE  mod'[i] >= stamp'[v] - Lag
      BY DEF StampsNear
    <3>1. CASE v = w
      BY <1>1, <1>2, <1>3, <2>1, <3>1, IssueSyncAssumption DEF SyncInv, TypeOK, Typed, Local
    <3>2. CASE v # w
      <4>1. pc[v] = "relations" /\ on'[v] = on[v] /\ stamp'[v] = stamp[v] /\ i \in Issues
        BY <2>1, <3>2 DEF SyncInv, TypeOK, Typed, Local, Live
      <4>2. CASE i \in M
        BY <1>2, <1>3, <4>1, <4>2, IssueSyncAssumption DEF SyncInv, TypeOK, Typed, Clocks
      <4>3. CASE i \notin M
        BY <1>3, <4>1, <4>3 DEF SyncInv, StampsNear, Live
      <4> QED  BY <4>2, <4>3
    <3> QED  BY <3>1, <3>2
  <2> QED  BY <1>5, <1>6, <1>7, <2>2, <2>3, <2>4 DEF SyncInv, TypeOK
<1>9. CASE ~ (op[w] \in {"create", "update"} /\ M # {})
  <2>1. Done(w)
    BY <1>9 DEF Commit
  <2>2. Typed'
    BY <1>1, <1>2, <1>4, <2>1
    DEF SyncInv, TypeOK, Typed, Commit, set_modified_at, Local, Done, Copy, Ops
  <2>3. Clocks'
    BY <1>1, <1>2, <1>3, <1>4, <2>1 DEF SyncInv, TypeOK, Typed, Clocks, Commit, Local, Done
  <2>4. StampsNear'
    <3> SUFFICES ASSUME NEW v \in Writers, pc'[v] = "relations", NEW i \in on'[v] \cap Live'
                 PROVE  mod'[i] >= stamp'[v] - Lag
      BY DEF StampsNear
    <3>1. v # w /\ pc[v] = "relations" /\ on'[v] = on[v] /\ stamp'[v] = stamp[v] /\ i \in Issues
      BY <2>1 DEF SyncInv, TypeOK, Typed, Local, Done, Live
    <3>2. CASE i \in M
      BY <1>2, <1>3, <3>1, <3>2, IssueSyncAssumption DEF SyncInv, TypeOK, Typed, Clocks
    <3>3. CASE i \notin M
      BY <1>3, <3>1, <3>3 DEF SyncInv, StampsNear, Live
    <3> QED  BY <3>2, <3>3
  <2> QED  BY <1>5, <1>6, <1>7, <2>2, <2>3, <2>4 DEF SyncInv, TypeOK
<1> QED  BY <1>8, <1>9

\* The relations are written at most Lag after the handler's stamp, so at most
\* twice Lag after the stamp the row has by then.
LEMMA WriteRelationsInv ==
    ASSUME SyncInv, NEW w \in Writers, WriteRelations(w)
    PROVE  SyncInv'
<1>0. PICK i \in on[w] :
        /\ rels' = [rels EXCEPT ![i] = @ + 1]
        /\ \E t \in {mod[i]} \cup stamp[w]..now : mod' = [mod EXCEPT ![i] = t]
  BY DEF WriteRelations
<1>1. PICK t \in {mod[i]} \cup stamp[w]..now : mod' = [mod EXCEPT ![i] = t]
  BY <1>0
<1>2. /\ i \in Issues /\ stamp[w] \in Nat /\ stamp[w] <= now /\ now - stamp[w] <= Lag
      /\ t \in Nat /\ t <= now /\ (t = mod[i] \/ t >= stamp[w])
  BY <1>1 DEF SyncInv, TypeOK, Typed, Clocks, WriteRelations
<1>3. /\ now' = now /\ state' = state /\ version' = version /\ fields' = fields
      /\ held' = held /\ cursor' = cursor /\ more' = more
      /\ poll' = poll /\ start' = start /\ page' = page /\ got' = got /\ next' = next
      /\ unsent' = unsent
      /\ \/ Done(w) /\ begun' = begun
         \/ begun' = begun + 1 /\ UNCHANGED <<pc, op, on, base, stamp>>
  BY DEF WriteRelations, client, query
<1>4. /\ mod'[i] = t /\ \A j \in Issues \ {i} : mod'[j] = mod[j] /\ rels'[j] = rels[j]
      /\ mod' \in [Issues -> Nat] /\ rels' \in [Issues -> Nat]
  BY <1>0, <1>1, <1>2 DEF SyncInv, TypeOK, Typed
<1>5. state[i] = "live" => t > cursor - Overlap /\ t > next - Overlap
  <2>1. state[i] = "live" => mod[i] >= stamp[w] - Lag
    BY <1>1, <1>2 DEF SyncInv, StampsNear, Live, WriteRelations
  <2> QED  BY <1>2, <2>1, IssueSyncAssumption DEF SyncInv, TypeOK, Typed, Clocks
<1>6. t # mod[i] => t > cursor - Overlap /\ t > next - Overlap
  BY <1>2, IssueSyncAssumption DEF SyncInv, TypeOK, Typed, Clocks
<1>7. Typed'
  BY <1>3, <1>4 DEF SyncInv, TypeOK, Typed, Done, Local, Ops
<1>8. Clocks'
  BY <1>2, <1>3, <1>4 DEF SyncInv, TypeOK, Typed, Clocks, Done, Local
<1>9. LiveDelivered'
  <2> SUFFICES ASSUME NEW j \in Issues, state[j] = "live", mod'[j] <= cursor - Overlap
               PROVE  held[j] \in {Current(j)', NotShown}
    BY <1>3 DEF LiveDelivered, Live, overlapped
  <2>1. j # i
    BY IssueSyncAssumption, <1>2, <1>4, <1>5 DEF SyncInv, TypeOK, Typed
  <2> QED  BY <1>3, <1>4, <2>1 DEF SyncInv, LiveDelivered, Live, Current, overlapped
<1>10. TombstoneDelivered'
  <2> SUFFICES ASSUME NEW j \in Issues, state[j] = "deleted", mod'[j] <= cursor - Overlap
               PROVE  held[j] \in {NoCopy, NotShown} \/ j \in unsent
    BY <1>3 DEF TombstoneDelivered, Deleted, overlapped
  <2>1. mod'[j] = mod[j]
    BY IssueSyncAssumption, <1>2, <1>4, <1>6 DEF SyncInv, TypeOK, Typed
  <2> QED  BY <2>1 DEF SyncInv, TombstoneDelivered, Deleted, overlapped
<1>11. StampsNear'
  <2> SUFFICES ASSUME NEW v \in Writers, pc'[v] = "relations", NEW j \in on'[v] \cap Live'
               PROVE  mod'[j] >= stamp'[v] - Lag
    BY DEF StampsNear
  <2>1. /\ pc[v] = "relations" /\ on'[v] = on[v] /\ stamp'[v] = stamp[v]
        /\ j \in Issues /\ j \in Live
    BY <1>3 DEF SyncInv, TypeOK, Typed, Done, Local, Live
  <2>2. mod[j] >= stamp[v] - Lag /\ stamp[v] <= now /\ stamp[v] \in Nat /\ mod[j] \in Nat
    BY <2>1 DEF SyncInv, TypeOK, Typed, Clocks, StampsNear
  <2>3. mod'[j] = mod[j] \/ mod'[j] >= stamp[w]
    BY <1>2, <1>4, <2>1
  <2> QED  BY <1>2, <1>4, <2>1, <2>2, <2>3, IssueSyncAssumption DEF SyncInv, TypeOK, Typed
<1>12. PollSound'
  <2>1. \A j \in Live : mod'[j] <= next - Overlap => j # i
    BY IssueSyncAssumption, <1>2, <1>4, <1>5 DEF SyncInv, TypeOK, Typed, Live
  <2>2. \A j \in Issues : mod'[j] <= next - Overlap => mod'[j] = mod[j]
    BY IssueSyncAssumption, <1>2, <1>4, <1>6 DEF SyncInv, TypeOK, Typed
  <2> QED  BY <1>3, <1>4, <2>1, <2>2 DEF SyncInv, PollSound, Live, Deleted, Current
<1> QED  BY <1>7, <1>8, <1>9, <1>10, <1>11, <1>12 DEF SyncInv, TypeOK

\* A purged issue is neither live nor deleted.
LEMMA PurgeInv == SyncInv /\ Purge => SyncInv'
<1> SUFFICES ASSUME SyncInv, Purge PROVE SyncInv'  OBVIOUS
<1>1. Live' = {} /\ Deleted' = {}
  BY DEF Purge, Live, Deleted
<1>2. Typed'
  BY DEF SyncInv, TypeOK, Typed, Purge, writers, client, query
<1>3. Clocks'
  BY DEF SyncInv, TypeOK, Typed, Clocks, Purge, writers, client, query
<1>4. LiveDelivered' /\ TombstoneDelivered' /\ StampsNear' /\ PollSound'
  BY <1>1 DEF SyncInv, LiveDelivered, TombstoneDelivered, StampsNear, PollSound, Purge,
              writers, client, query
<1> QED  BY <1>2, <1>3, <1>4 DEF SyncInv, TypeOK

\* The clock waits for the writes in flight.
LEMMA TickInv == SyncInv /\ Tick => SyncInv'
<1> SUFFICES ASSUME SyncInv, Tick PROVE SyncInv'  OBVIOUS
<1>1. Typed'
  BY DEF SyncInv, TypeOK, Typed, Tick, table, writers, client, query
<1>2. Clocks'
  BY IssueSyncAssumption
  DEF SyncInv, TypeOK, Typed, Clocks, Tick, table, writers, client, query
<1>3. LiveDelivered' /\ TombstoneDelivered' /\ StampsNear' /\ PollSound'
  BY DEF SyncInv, LiveDelivered, TombstoneDelivered, StampsNear, PollSound, Live, Deleted,
         Current, overlapped, Tick, table, writers, client, query
<1> QED  BY <1>1, <1>2, <1>3 DEF SyncInv, TypeOK

\* A poll begins: no page yet.
LEMMA DbNowInv ==
    ASSUME SyncInv, NEW kind \in {"board", "delta"}, db_now(kind)
    PROVE  SyncInv'
<1>1. Typed' /\ Clocks'
  BY DEF SyncInv, TypeOK, Typed, Clocks, db_now, table, writers, client
<1>2. LiveDelivered' /\ TombstoneDelivered' /\ StampsNear' /\ PollSound'
  BY DEF SyncInv, LiveDelivered, TombstoneDelivered, StampsNear, PollSound, Live, Deleted,
         Current, overlapped, db_now, table, writers, client
<1> QED  BY <1>1, <1>2 DEF SyncInv, TypeOK

\* The board's page holds live rows, and marks the others as left out.
LEMMA BoardRowsInv == SyncInv /\ BoardRows => SyncInv'
<1> SUFFICES ASSUME SyncInv, BoardRows PROVE SyncInv'  OBVIOUS
<1>1. \A i \in Issues : Current(i) \in Copy /\ Current(i).fields = fields[i]
  BY DEF SyncInv, TypeOK, Typed, Current, Copy
<1>2. PICK P \in SUBSET Live :
        /\ page' = P
        /\ got' = [i \in Issues |-> IF i \in P THEN Current(i)
                                   ELSE IF i \in Live THEN NotShown ELSE NoCopy]
  BY DEF BoardRows
<1>3. got' \in [Issues -> Copy \cup {NoCopy, NotShown}] /\ P \subseteq Issues
  BY <1>1, <1>2 DEF Live
<1>4. Typed' /\ Clocks'
  BY <1>2, <1>3 DEF SyncInv, TypeOK, Typed, Clocks, BoardRows, table, writers, client
<1>5. LiveDelivered' /\ TombstoneDelivered' /\ StampsNear'
  BY DEF SyncInv, LiveDelivered, TombstoneDelivered, StampsNear, Live, Deleted, Current,
         overlapped, BoardRows, table, writers, client
<1>6. PollSound'
  <2>1. /\ Live' = Live /\ Deleted' = Deleted /\ page' = P /\ fields' = fields
        /\ poll' = "board_rels" /\ Live \cap Deleted = {}
    BY <1>2 DEF BoardRows, Live, Deleted, table
  <2>2. \A i \in Issues : IF i \in P THEN got'[i] \in Copy ELSE got'[i] \in {NoCopy, NotShown}
    BY <1>1, <1>2
  <2>3. \A i \in Live : IF i \in P THEN got'[i].fields = fields[i] ELSE got'[i] = NotShown
    BY <1>1, <1>2 DEF Live
  <2>4. \A i \in Deleted : i \notin P
    BY <1>2, <2>1
  <2> QED  BY <2>1, <2>2, <2>3, <2>4 DEF PollSound
<1> QED  BY <1>4, <1>5, <1>6 DEF SyncInv, TypeOK

\* A row that the query leaves out of the page is stamped before the overlap,
\* and the client has it, or not before the last row on the page.
LEMMA DeltaRowsInv == SyncInv /\ DeltaRows => SyncInv'
<1> SUFFICES ASSUME SyncInv, DeltaRows PROVE SyncInv'  OBVIOUS
<1> DEFINE S == {i \in Live : mod[i] > overlapped}
<1>1. PICK P \in Pages(S) :
        /\ page' = P /\ next' \in Cursors(P)
        /\ got' = [i \in Issues |-> IF i \in P THEN Current(i) ELSE NoCopy]
  BY DEF DeltaRows
<1>2. /\ P \subseteq S /\ S \subseteq Live /\ Live \subseteq Issues
      /\ IF Cardinality(S) <= Limit THEN P = S ELSE Cardinality(P) = Limit
      /\ \A i \in P, j \in S \ P : mod[i] <= mod[j]
  BY DEF Pages, Live
<1>3. \A i \in Issues : Current(i) \in Copy
  BY DEF SyncInv, TypeOK, Typed, Current, Copy
<1>4. got' \in [Issues -> Copy \cup {NoCopy, NotShown}]
  BY <1>1, <1>3
<1>5. next' \in Nat /\ next' <= now
  BY <1>1, <1>2 DEF Cursors, SyncInv, TypeOK, Typed, Clocks
<1>6. Typed' /\ Clocks'
  BY <1>1, <1>2, <1>4, <1>5 DEF SyncInv, TypeOK, Typed, Clocks, DeltaRows, table, writers, client
<1>7. LiveDelivered' /\ TombstoneDelivered' /\ StampsNear'
  BY DEF SyncInv, LiveDelivered, TombstoneDelivered, StampsNear, Live, Deleted, Current,
         overlapped, DeltaRows, table, writers, client
<1>8. PollSound'
  <2>1. /\ Live' = Live /\ Deleted' = Deleted /\ Live \cap Deleted = {} /\ fields' = fields
        /\ mod' = mod /\ rels' = rels /\ held' = held /\ poll' = "delta_rels"
    BY DEF DeltaRows, Live, Deleted, table, client
  <2>2. \A i \in P : got'[i] \in Copy /\ got'[i].fields = fields[i]
    BY <1>1, <1>2, <1>3 DEF Current
  <2>3. ASSUME NEW i \in Live, mod[i] <= next' - Overlap, i \notin P
        PROVE  held[i] \in {Current(i), NotShown}
    <3>1. CASE mod[i] > overlapped
      <4>1. i \in S \ P
        BY <2>3, <3>1
      <4>2. Cardinality(P) = Limit
        BY <1>2, <4>1
      <4>3. PICK k \in P : next' = mod[k]
        BY <1>1, <4>2, IssueSyncAssumption DEF Cursors
      <4>4. mod[k] <= mod[i]
        BY <1>2, <4>1, <4>3
      <4> QED
        BY <1>2, <2>3, <4>3, <4>4, IssueSyncAssumption DEF SyncInv, TypeOK, Typed
    <3>2. CASE mod[i] <= overlapped
      BY <3>2 DEF SyncInv, LiveDelivered
    <3> QED
      BY <1>2, <3>1, <3>2, IssueSyncAssumption DEF SyncInv, TypeOK, Typed, overlapped
  <2>4. \A i \in Issues : Current(i)' = Current(i)
    BY <2>1 DEF Current
  <2>5. page' = P
    BY <1>1
  <2>6. \A i \in Issues : IF i \in page' THEN got'[i] \in Copy ELSE got'[i] \in {NoCopy, NotShown}
    BY <1>1, <2>2, <2>5
  <2>7. \A i \in Live' : mod'[i] <= next' - Overlap =>
            IF i \in page'
            THEN /\ got'[i].fields = fields'[i]
                 /\ poll' = "delta_tombstones" => got'[i].rels = rels'[i]
            ELSE IF poll' = "board_rels" THEN got'[i] = NotShown
            ELSE held'[i] \in {Current(i)', NotShown}
    BY <1>2, <2>1, <2>2, <2>3, <2>4, <2>5
  <2>8. \A i \in Deleted' : i \notin page'
    BY <1>2, <2>1, <2>5
  <2> QED  BY <2>6, <2>7, <2>8 DEF PollSound
<1> QED  BY <1>6, <1>7, <1>8 DEF SyncInv, TypeOK

\* The relations are read after the rows, and are at least as recent.
LEMMA HydratedCurrent ==
    ASSUME SyncInv, poll \in {"board_rels", "delta_rels"}
    PROVE  /\ Hydrated \in [Issues -> Copy \cup {NoCopy, NotShown}]
           /\ \A i \in page : /\ Hydrated[i] \in Copy /\ Hydrated[i].rels = rels[i]
                             /\ Hydrated[i].fields = got[i].fields
           /\ \A i \in Issues \ page : Hydrated[i] = got[i] /\ got[i] \in {NoCopy, NotShown}
<1>1. \A i \in page : i \in Issues /\ got[i] \in Copy /\ rels[i] \in Nat
  BY DEF SyncInv, TypeOK, Typed, PollSound
<1>2. \A i \in page : /\ [got[i] EXCEPT !.rels = rels[i]] \in Copy
                    /\ [got[i] EXCEPT !.rels = rels[i]].rels = rels[i]
                    /\ [got[i] EXCEPT !.rels = rels[i]].fields = got[i].fields
  BY <1>1 DEF Copy
<1>3. \A i \in Issues \ page : got[i] \in {NoCopy, NotShown}
  BY DEF SyncInv, PollSound
<1> QED  BY <1>1, <1>2, <1>3 DEF Hydrated

LEMMA HydrateInv == SyncInv /\ Hydrate => SyncInv'
<1> SUFFICES ASSUME SyncInv, Hydrate PROVE SyncInv'  OBVIOUS
<1>1. /\ Hydrated \in [Issues -> Copy \cup {NoCopy, NotShown}]
      /\ \A i \in page : /\ Hydrated[i] \in Copy /\ Hydrated[i].rels = rels[i]
                        /\ Hydrated[i].fields = got[i].fields
      /\ \A i \in Issues \ page : Hydrated[i] = got[i] /\ got[i] \in {NoCopy, NotShown}
  BY HydratedCurrent DEF Hydrate
<1>2. Typed' /\ Clocks'
  BY <1>1 DEF SyncInv, TypeOK, Typed, Clocks, Hydrate, table, writers, client
<1>3. LiveDelivered' /\ TombstoneDelivered' /\ StampsNear'
  BY DEF SyncInv, LiveDelivered, TombstoneDelivered, StampsNear, Live, Deleted, Current,
         overlapped, Hydrate, table, writers, client
<1>4. PollSound'
  BY <1>1 DEF SyncInv, PollSound, Live, Deleted, Current, Hydrate, table, client
<1> QED  BY <1>2, <1>3, <1>4 DEF SyncInv, TypeOK

\* A copy is its fields and its relations.
LEMMA CopyIsCurrent ==
    ASSUME NEW c \in Copy, NEW i \in Issues, c.fields = fields[i], c.rels = rels[i]
    PROVE  c = Current(i)
  BY DEF Copy, Current

LEMMA HydrateBoardInv == SyncInv /\ HydrateBoard => SyncInv'
<1> SUFFICES ASSUME SyncInv, HydrateBoard PROVE SyncInv'  OBVIOUS
<1>1. /\ Hydrated \in [Issues -> Copy \cup {NoCopy, NotShown}]
      /\ \A i \in page : /\ Hydrated[i] \in Copy /\ Hydrated[i].rels = rels[i]
                        /\ Hydrated[i].fields = got[i].fields
      /\ \A i \in Issues \ page : Hydrated[i] = got[i] /\ got[i] \in {NoCopy, NotShown}
  BY HydratedCurrent DEF HydrateBoard
<1>2. Typed' /\ Clocks' /\ StampsNear'
  <2>1. Typed'
    BY <1>1 DEF SyncInv, TypeOK, Typed, HydrateBoard, PollDone, table, writers
  <2>2. Clocks' /\ StampsNear'
    BY DEF SyncInv, TypeOK, Typed, Clocks, StampsNear, Live, HydrateBoard, PollDone,
           table, writers
  <2> QED  BY <2>1, <2>2
<1>3. PollSound'
  BY DEF PollSound, HydrateBoard, PollDone
<1>4. LiveDelivered'
  <2> SUFFICES ASSUME NEW i \in Live, mod[i] <= next - Overlap
               PROVE  Hydrated[i] \in {Current(i), NotShown}
    BY DEF LiveDelivered, Live, Current, overlapped, HydrateBoard, table
  <2>1. IF i \in page THEN got[i].fields = fields[i] ELSE got[i] = NotShown
    BY DEF SyncInv, PollSound, HydrateBoard
  <2> QED  BY <1>1, <2>1, CopyIsCurrent DEF Live
<1>5. TombstoneDelivered'
  <2> SUFFICES ASSUME NEW i \in Deleted, mod[i] <= next - Overlap
               PROVE  Hydrated[i] \in {NoCopy, NotShown}
    BY DEF TombstoneDelivered, Deleted, overlapped, HydrateBoard, table
  <2>1. i \notin page /\ i \in Issues
    BY DEF SyncInv, PollSound, HydrateBoard, Deleted
  <2> QED  BY <1>1, <2>1
<1> QED  BY <1>2, <1>3, <1>4, <1>5 DEF SyncInv, TypeOK

\* The client takes the page over and drops what the tombstones name.
LEMMA TombstonesInv == SyncInv /\ Tombstones => SyncInv'
<1> SUFFICES ASSUME SyncInv, Tombstones PROVE SyncInv'  OBVIOUS
<1> DEFINE dead == {i \in Deleted : mod[i] > overlapped}
<1>1. PICK T \in Pages(dead) :
        /\ held' = [i \in Issues |-> IF i \in T THEN NoCopy
                                      ELSE IF i \in page THEN got[i] ELSE held[i]]
        /\ unsent' = unsent \cup (dead \ T)
  BY DEF Tombstones
<1>2. T \subseteq Deleted /\ Live \cap Deleted = {} /\ Deleted \subseteq Issues
  BY DEF Pages, Live, Deleted
<1>3. more' \in BOOLEAN
  BY DEF Tombstones
<1>4. Typed'
  <2>1. held' \in [Issues -> Copy \cup {NoCopy, NotShown}]
    BY <1>1 DEF SyncInv, TypeOK, Typed
  <2>2. unsent' \subseteq Issues
    BY <1>1, <1>2 DEF SyncInv, TypeOK, Typed
  <2> QED
    BY <1>3, <2>1, <2>2 DEF SyncInv, TypeOK, Typed, Tombstones, PollDone, table, writers
<1>5. Clocks' /\ StampsNear'
  BY DEF SyncInv, TypeOK, Typed, Clocks, StampsNear, Live, Tombstones, PollDone, table, writers
<1>6. PollSound'
  BY DEF PollSound, Tombstones, PollDone
<1>7. LiveDelivered'
  <2> SUFFICES ASSUME NEW i \in Live, mod[i] <= next - Overlap
               PROVE  held'[i] \in {Current(i), NotShown}
    BY DEF LiveDelivered, Live, Current, overlapped, Tombstones, table
  <2>1. i \notin T /\ i \in Issues
    BY <1>2 DEF Live
  <2>2. IF i \in page THEN got[i] = Current(i) ELSE held[i] \in {Current(i), NotShown}
    BY <2>1, CopyIsCurrent DEF SyncInv, PollSound, Tombstones
  <2> QED  BY <1>1, <2>1, <2>2
<1>8. TombstoneDelivered'
  <2> SUFFICES ASSUME NEW i \in Deleted, mod[i] <= next - Overlap
               PROVE  held'[i] \in {NoCopy, NotShown} \/ i \in unsent'
    BY DEF TombstoneDelivered, Deleted, overlapped, Tombstones, table
  <2>1. i \notin page /\ i \in Issues
    BY DEF SyncInv, PollSound, Tombstones, Deleted
  <2>2. CASE i \in dead
    BY <1>1, <2>1, <2>2
  <2>3. CASE mod[i] <= overlapped
    BY <1>1, <2>1, <2>3 DEF SyncInv, TombstoneDelivered
  <2> QED
    BY <2>1, <2>2, <2>3, IssueSyncAssumption DEF SyncInv, TypeOK, Typed, overlapped
<1> QED  BY <1>4, <1>5, <1>6, <1>7, <1>8 DEF SyncInv, TypeOK

LEMMA PollFailsInv == SyncInv /\ PollFails => SyncInv'
<1> SUFFICES ASSUME SyncInv, PollFails PROVE SyncInv'  OBVIOUS
<1>1. Typed' /\ Clocks'
  BY DEF SyncInv, TypeOK, Typed, Clocks, PollFails, PollDone, table, writers, client
<1>2. LiveDelivered' /\ TombstoneDelivered' /\ StampsNear' /\ PollSound'
  BY DEF SyncInv, LiveDelivered, TombstoneDelivered, StampsNear, PollSound, Live, Deleted,
         Current, overlapped, PollFails, PollDone, table, writers, client
<1> QED  BY <1>1, <1>2 DEF SyncInv, TypeOK

\* Every step of a write handler keeps the invariant.
LEMMA WriteInv ==
    ASSUME SyncInv, NEW w \in Writers, Write(w)
    PROVE  SyncInv'
<1>1. ASSUME NEW i \in Issues, Create(w, i) \/ SoftDelete(w, i) PROVE SyncInv'
  <2>1. CASE Create(w, i)
    BY <1>1, <2>1, StartInv DEF Create, Ops
  <2>2. CASE SoftDelete(w, i)
    BY <1>1, <2>2, StartInv DEF SoftDelete, Ops
  <2> QED  BY <1>1, <2>1, <2>2
<1>2. ASSUME NEW i \in Issues, ReadIssue(w, i) PROVE SyncInv'
  BY <1>2, ReadIssueInv
<1>3. CASE SendUpdate(w)
  <2>1. on[w] \in SUBSET Issues
    BY DEF SyncInv, TypeOK, Typed
  <2> QED  BY <1>3, <2>1, StartInv DEF SendUpdate, Ops
<1>4. ASSUME NEW S \in SUBSET Issues, Restamp(w, S) PROVE SyncInv'
  BY <1>4, StartInv DEF Restamp, Ops
<1> QED
  BY <1>1, <1>2, <1>3, <1>4, CommitInv, WriteRelationsInv, NoRelationsInv DEF Write

LEMMA NextInv == SyncInv /\ [Next]_vars => SyncInv'
<1> SUFFICES ASSUME SyncInv, [Next]_vars PROVE SyncInv'  OBVIOUS
<1>1. CASE Tick  BY <1>1, TickInv
<1>2. CASE Purge  BY <1>2, PurgeInv
<1>3. CASE Client
  BY <1>3, DbNowInv, BoardRowsInv, DeltaRowsInv, HydrateInv, HydrateBoardInv, TombstonesInv,
     PollFailsInv DEF Client
<1>4. ASSUME NEW w \in Writers, Write(w) PROVE SyncInv'
  BY <1>4, WriteInv
<1>5. CASE UNCHANGED vars
  <2>1. Typed' /\ Clocks'
    BY <1>5 DEF SyncInv, TypeOK, Typed, Clocks, vars, table, writers, client, query
  <2>2. LiveDelivered' /\ TombstoneDelivered' /\ StampsNear' /\ PollSound'
    BY <1>5 DEF SyncInv, LiveDelivered, TombstoneDelivered, StampsNear, PollSound, Live,
                Deleted, Current, overlapped, vars, table, writers, client, query
  <2> QED  BY <2>1, <2>2 DEF SyncInv, TypeOK
<1> QED  BY <1>1, <1>2, <1>3, <1>4, <1>5 DEF Next

\* The inductive invariant of delta sync.
THEOREM SyncInvariant == Spec => []SyncInv
  BY InitInv, NextInv, PTL DEF Spec

\* Types, stamps and cursors behind the clock, writes within Lag.
THEOREM TypesHold == Spec => []TypeOK
<1>1. SyncInv => TypeOK  BY DEF SyncInv
<1> QED  BY <1>1, SyncInvariant, PTL

\* The cursor of a polling client never passes a live issue whose latest fields
\* and relations it does not have (list_issues_delta, issues_delta), other than
\* one its board left out and no delta has brought since (board_columns).
THEOREM LiveIssuesAreDelivered == Spec => []LiveDelivered
<1>1. SyncInv => LiveDelivered  BY DEF SyncInv
<1> QED  BY <1>1, SyncInvariant, PTL

\* Nor a deleted one it still has, unless a page had no room for its tombstone.
THEOREM TombstonesAreDelivered == Spec => []TombstoneDelivered
<1>1. SyncInv => TombstoneDelivered  BY DEF SyncInv
<1> QED  BY <1>1, SyncInvariant, PTL

=============================================================================
