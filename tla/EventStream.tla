---------------------------- MODULE EventStream ----------------------------
(***************************************************************************)
(* The live feed of a project: handlers publish what they wrote on a       *)
(* channel that is created for the first subscriber and dropped by the     *)
(* first publication that finds nobody listening.                          *)
(*                                                                         *)
(* Source: events.rs of crates/api, and the handlers of backlog.rs that    *)
(* write a row and publish it.                                             *)
(*                                                                         *)
(* The row is the number of writes to it, and an event is what its reader  *)
(* comes to know: the entity it carries, or Ids, after which the reader    *)
(* looks the row up.  A caller without issue.view is turned away and       *)
(* nothing changes.                                                        *)
(***************************************************************************)
EXTENDS Integers, Sequences, FiniteSets

CONSTANTS
    Streams, Publishers,
    Ids,            \* an event that carries identifiers only
    ChannelCapacity,
    MaxWrites       \* bound on the writes, for TLC

ASSUME StreamAssumption ==
    /\ ChannelCapacity \in Nat \ {0} /\ MaxWrites \in Nat
    /\ Ids \notin Nat

VARIABLES
    row,        \* writes to the row so far
    channel,    \* the channel in the map of EventBus, 0 for none
    channels,   \* channels created so far
    stream,     \* stream -> [open, ch, queue, lagged]
    publisher,  \* handler -> [at, ids, write, full, tx]
    told,       \* stream -> the newest write that its reader has heard of
    shown,      \* stream -> the write whose outcome its reader shows
    silent,     \* history: the writes that nobody published, or will
    crossed     \* history: a write while another was not published yet

streamVars == <<row, channel, channels, stream, publisher, told, shown, silent, crossed>>

Shut == [open |-> FALSE, ch |-> 0, queue |-> << >>, lagged |-> FALSE]
Unbusy == [at |-> "idle", ids |-> FALSE, write |-> 0, full |-> 0, tx |-> 0]

StreamInit ==
    /\ row = 0 /\ channel = 0 /\ channels = 0
    /\ stream = [s \in Streams |-> Shut] /\ publisher = [h \in Publishers |-> Unbusy]
    /\ told = [s \in Streams |-> 0] /\ shown = [s \in Streams |-> 0]
    /\ silent = {} /\ crossed = FALSE

receiver_count(c) == Cardinality({s \in Streams : stream[s].open /\ stream[s].ch = c})

-----------------------------------------------------------------------------
\* Mutant: every subscriber gets a channel of its own.
InsertAlways(s) == channels + 1

\* entry(project).or_insert_with(...): the channel of the map, or a new one.
subscribe(s) == IF channel = 0 THEN channels + 1 ELSE channel

\* The stream is opened, and its reader fetches the delta.
project_events(s) ==
    /\ ~stream[s].open
    /\ channel' = subscribe(s) /\ channels' = IF channel' > channels THEN channel' ELSE channels
    /\ channels' <= MaxWrites
    /\ stream' = [stream EXCEPT ![s] = [open |-> TRUE, ch |-> channel', queue |-> << >>, lagged |-> FALSE]]
    /\ told' = [told EXCEPT ![s] = row] /\ shown' = [shown EXCEPT ![s] = row]
    /\ UNCHANGED <<row, publisher, silent, crossed>>

\* The token's lifetime is over, or the reader leaves; a publication finds out.
stream_ends(s) ==
    /\ stream[s].open
    /\ stream' = [stream EXCEPT ![s] = Shut]
    /\ UNCHANGED <<row, channel, channels, publisher, told, shown, silent, crossed>>

\* A receiver that fell behind is told so, and fetches the delta.
recv_lagged(s) ==
    /\ stream[s].open /\ stream[s].lagged
    /\ stream' = [stream EXCEPT ![s].lagged = FALSE]
    /\ told' = [told EXCEPT ![s] = row] /\ shown' = [shown EXCEPT ![s] = row]
    /\ UNCHANGED <<row, channel, channels, publisher, silent, crossed>>

recv_change(s) ==
    LET event == Head(stream[s].queue)
        heard == IF event = Ids THEN row ELSE event IN
    /\ stream[s].open /\ ~stream[s].lagged /\ stream[s].queue # << >>
    /\ stream' = [stream EXCEPT ![s].queue = Tail(@)]
    /\ told' = [told EXCEPT ![s] = IF heard > @ THEN heard ELSE @]
    /\ shown' = [shown EXCEPT ![s] = heard]
    /\ UNCHANGED <<row, channel, channels, publisher, silent, crossed>>

-----------------------------------------------------------------------------
\* A handler commits a write.  An issue is read again with what hangs on it,
\* an epic is published as its statement returned it, and a comment, a
\* meeting, a board or a deletion by its identifiers.
write_row(h, what) ==
    /\ publisher[h].at = "idle" /\ row < MaxWrites
    /\ row' = row + 1
    /\ publisher' = [publisher EXCEPT ![h] = [at |-> IF what = "issue" THEN "read" ELSE "publish", ids |-> what = "ids",
                                               write |-> row + 1, full |-> row + 1, tx |-> 0]]
    /\ crossed' = (crossed \/ \E g \in Publishers : publisher[g].at # "idle")
    /\ UNCHANGED <<channel, channels, stream, told, shown, silent>>

\* Writes that are never published: an epic is moved, ranks are spread anew,
\* the issues follow their epic into a milestone, everything is purged.
write_quietly ==
    /\ row < MaxWrites
    /\ row' = row + 1 /\ silent' = silent \cup {row + 1}
    /\ crossed' = (crossed \/ \E g \in Publishers : publisher[g].at # "idle")
    /\ UNCHANGED <<channel, channels, stream, publisher, told, shown>>

\* get_issue: the row as it is now, with what others wrote since.
get_issue(h) ==
    /\ publisher[h].at = "read"
    /\ publisher' = [publisher EXCEPT ![h].full = row, ![h].at = "publish"]
    /\ UNCHANGED <<row, channel, channels, stream, told, shown, silent, crossed>>

\* Under the lock: no channel, a channel without receivers, which goes, or a
\* handle on it, which is used after the lock is released.
publish(h) ==
    LET heard == channel # 0 /\ receiver_count(channel) > 0 IN
    /\ publisher[h].at = "publish"
    /\ channel' = IF heard THEN channel ELSE 0
    /\ publisher' = [publisher EXCEPT ![h] = IF heard THEN [@ EXCEPT !.at = "send", !.tx = channel] ELSE Unbusy]
    /\ UNCHANGED <<row, channels, stream, told, shown, silent, crossed>>

\* The ring keeps the newest events; who has not read what it drops, lags.
Pushed(q, e) ==
    LET all == Append(q, e) IN
    IF Len(all) > ChannelCapacity THEN Tail(all) ELSE all

\* publish_issue and publish_epic carry the entity, the others identifiers.
payload(p) == IF p.ids THEN Ids ELSE p.full

send(h) ==
    LET p == publisher[h]
        event == payload(p) IN
    /\ p.at = "send"
    /\ stream' = [s \in Streams |->
         IF stream[s].open /\ stream[s].ch = p.tx
         THEN [open |-> TRUE, ch |-> p.tx, queue |-> Pushed(stream[s].queue, event),
               lagged |-> stream[s].lagged \/ Len(stream[s].queue) = ChannelCapacity]
         ELSE stream[s]]
    /\ publisher' = [publisher EXCEPT ![h] = Unbusy]
    /\ UNCHANGED <<row, channel, channels, told, shown, silent, crossed>>

\* Between the commit and the publication a query fails, which move_issue
\* answers as a success, or the client leaves and the handler is dropped.
write_unheard(h) ==
    /\ publisher[h].at \in {"read", "publish"}
    /\ publisher' = [publisher EXCEPT ![h] = Unbusy] /\ silent' = silent \cup {publisher[h].write}
    /\ UNCHANGED <<row, channel, channels, stream, told, shown, crossed>>

StreamNext ==
    \/ \E s \in Streams : project_events(s) \/ stream_ends(s) \/ recv_lagged(s) \/ recv_change(s)
    \/ \E h \in Publishers :
         \/ \E what \in {"issue", "epic", "ids"} : write_row(h, what)
         \/ get_issue(h) \/ publish(h) \/ send(h) \/ write_unheard(h)
    \/ write_quietly

StreamSpec == StreamInit /\ [][StreamNext]_streamVars

-----------------------------------------------------------------------------
(* Properties.                                                             *)

StreamTypeOK ==
    /\ row \in 0 .. MaxWrites /\ channel \in 0 .. channels /\ silent \subseteq 1 .. row
    /\ \A s \in Streams :
         /\ Len(stream[s].queue) <= ChannelCapacity
         /\ told[s] <= row /\ shown[s] <= told[s]
    /\ \A h \in Publishers : publisher[h].at \in {"idle", "read", "publish", "send"}

\* An open stream hangs on the channel that publications find, so that it
\* never ends because its channel was dropped.  Once the publications are out
\* and read, its reader has heard of every write but the latest ones nobody
\* published: those of the handlers that never do, and of those that failed or
\* were dropped after the commit.  And unless a write came between another and
\* its publication, whose older reading a later event may bring back, it shows
\* what it has heard: the last published write, or a later one.
StreamKeepsUp ==
    \A s \in Streams : stream[s].open =>
      /\ stream[s].ch = channel
      /\ (stream[s].queue = << >> /\ ~stream[s].lagged /\ \A h \in Publishers : publisher[h].at = "idle")
           => /\ (told[s] + 1) .. row \subseteq silent
              /\ crossed \/ (shown[s] + 1) .. row \subseteq silent
=============================================================================
