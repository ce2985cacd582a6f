------------------------------ MODULE Meetings ------------------------------
(***************************************************************************)
(* Meetings: their text, times and links, and the files kept with them.    *)
(*                                                                         *)
(* Source: crates/api/src/meetings.rs, crates/db/src/meetings.rs and       *)
(* crates/core/src/meeting.rs.  The files are those of module Files.       *)
(*                                                                         *)
(* A handler checks with separate queries and writes with one transaction; *)
(* an upload streams between the check that the meeting exists and its     *)
(* row.                                                                    *)
(***************************************************************************)
EXTENDS Files

CONSTANTS
    TheMeeting,     \* the meeting, also a target of files
    Topics,         \* participants, issues, epics and customers to link
    Clock           \* times of day; 0 stands for none

ASSUME MeetingsAssumption == TheMeeting \in FileTargets \ {TheIssue, TheComment} /\ 0 \in Clock /\ Clock \subseteq Nat

VARIABLES
    meeting,        \* [st, ver, text, start, end, links]
    topic,          \* topic -> "valid", "deleted" (its links stay) or "gone"
    mreq,           \* handler -> [at, seen, new, relink]: a write that passed its checks
    importing,      \* handlers whose upload is an imported text
    overtaken,      \* history: uploads under way when the meeting was deleted
    lateFiles       \* history: files such uploads recorded

meetingVars == <<meeting, topic, mreq, importing, overtaken, lateFiles>>
allMeetingVars == <<fileVars, meetingVars>>

NoMeeting == [st |-> "none", ver |-> 0, text |-> NoFile, start |-> 0, end |-> 0, links |-> {}]
NoReq == [at |-> "idle", seen |-> NoMeeting, new |-> NoMeeting, relink |-> FALSE]

MeetingInit ==
    /\ FileInit
    /\ meeting \in {NoMeeting, [NoMeeting EXCEPT !.st = "live", !.ver = 1]} /\ topic = [t \in Topics |-> "valid"]
    /\ mreq = [u \in Uploaders |-> NoReq] /\ importing = {} /\ overtaken = {} /\ lateFiles = {}

times_ok(start, end) == end = 0 \/ (start # 0 /\ end > start)

\* Every link must be to a live issue or epic, a customer or a member.
validate_links(L) == \A t \in L : topic[t] = "valid"

MeetingRequest(u, rec) ==
    /\ FileRequest(u) /\ mreq[u].at = "idle" /\ u \notin importing
    /\ mreq' = [mreq EXCEPT ![u] = rec]
    /\ UNCHANGED <<attachment, object, upload, leftover, reclaim, comment, served, shared,
                   meeting, topic, importing, overtaken, lateFiles>>

MeetingWrites(u) ==
    /\ mreq' = [mreq EXCEPT ![u] = NoReq]
    /\ UNCHANGED <<attachment, object, upload, leftover, reclaim, comment, served, shared, fileOps,
                   topic, importing, overtaken, lateFiles>>

-----------------------------------------------------------------------------
(* The meeting.                                                            *)

create_meeting(u, start, end, L) ==
    /\ meeting.st = "none" /\ (\A v \in Uploaders : mreq[v].at # "create")
    /\ times_ok(start, end) /\ validate_links(L)
    /\ MeetingRequest(u, [NoReq EXCEPT !.at = "create",
            !.new = [st |-> "live", ver |-> 1, text |-> NoFile, start |-> start, end |-> end, links |-> L]])

\* One transaction inserts the meeting and its links, whose targets must
\* still have a row.
create_tx(u) ==
    /\ mreq[u].at = "create"
    /\ meeting' = IF \A t \in mreq[u].new.links : topic[t] # "gone" THEN mreq[u].new ELSE meeting
    /\ MeetingWrites(u)

\* PATCH: If-Match names the version that is read here; the times are
\* checked on the merged result and links on the patch.
update_meeting(u, k, start, end, L, withLinks) ==
    /\ meeting.st = "live"
    /\ times_ok(start, end) /\ (withLinks => validate_links(L))
    /\ MeetingRequest(u, [at |-> "update", seen |-> meeting, relink |-> withLinks,
            new |-> [meeting EXCEPT !.text = k, !.start = start, !.end = end, !.links = L]])

\* The links of the patch replace those there are; without any, they stay.
replace_links(q) == IF q.relink THEN q.new.links ELSE meeting.links

\* The guarded UPDATE and the links in one transaction.
update_tx(u) ==
    LET q == mreq[u] IN
    /\ q.at = "update"
    /\ meeting' = IF /\ meeting.st = "live" /\ meeting.ver = q.seen.ver
                     /\ \A t \in replace_links(q) : topic[t] # "gone"
                  THEN [q.new EXCEPT !.ver = @ + 1, !.links = replace_links(q)] ELSE meeting
    /\ MeetingWrites(u)

\* Mutant: a link is changed and the version stays.
ToggleSilently(m, L) == [m EXCEPT !.links = L]

\* The version moves when the set of links does.
toggled(m, L) == [m EXCEPT !.links = L, !.ver = IF L = m.links THEN @ ELSE @ + 1]

toggle_link(u, t, add) ==
    /\ add => validate_links({t})
    /\ MeetingRequest(u, [NoReq EXCEPT !.at = IF add THEN "add" ELSE "remove", !.new.links = {t}])

toggle_tx(u) ==
    LET q == mreq[u]
        L == IF q.at = "add" THEN meeting.links \cup q.new.links ELSE meeting.links \ q.new.links IN
    /\ q.at \in {"add", "remove"}
    /\ meeting' = IF meeting.st = "live" /\ (q.at = "add" => \A t \in q.new.links : topic[t] # "gone")
                  THEN toggled(meeting, L) ELSE meeting
    /\ MeetingWrites(u)

\* Mutant: the files of a deleted meeting stay.
FilesStay(t) == UNCHANGED attachment

soft_delete_files(t) == soft_delete_for_target(t)

\* The meeting and its files, in one transaction.
soft_delete_meeting(u) ==
    /\ FileRequest(u) /\ meeting.st = "live"
    /\ meeting' = [meeting EXCEPT !.st = "deleted"]
    /\ soft_delete_files(TheMeeting)
    /\ overtaken' = {v \in Uploaders : upload[v].target = TheMeeting}
    /\ UNCHANGED <<object, upload, leftover, reclaim, comment, served, shared, topic, mreq, importing, lateFiles>>

\* A linked issue or epic is deleted and its link stays; or its row goes (a
\* purge, a customer removed) and the links with it, the version untouched.
TopicGoes(t, s) ==
    /\ topic[t] # "gone" /\ topic[t] # s
    /\ topic' = [topic EXCEPT ![t] = s]
    /\ meeting' = IF s = "gone" THEN [meeting EXCEPT !.links = @ \ {t}] ELSE meeting
    /\ UNCHANGED <<fileVars, mreq, importing, overtaken, lateFiles>>

-----------------------------------------------------------------------------
(* Files of the meeting.                                                   *)

require_meeting == meeting.st = "live"

\* The meeting is looked up, then the file is received; nobody looks again.
upload_artifact(u, k) ==
    /\ require_meeting /\ receive_file(u, TheMeeting, k) /\ mreq[u].at = "idle"
    /\ UNCHANGED meetingVars

import_text(u, k) ==
    /\ require_meeting /\ receive_file(u, TheMeeting, k) /\ mreq[u].at = "idle"
    /\ importing' = importing \cup {u}
    /\ UNCHANGED <<meeting, topic, mreq, overtaken, lateFiles>>

\* The row of an import is followed by set_text.
ImportRecorded(u) ==
    /\ u \in importing /\ importing' = importing \ {u}
    /\ mreq' = [mreq EXCEPT ![u] = [NoReq EXCEPT !.at = "text", !.new.text = upload[u].key]]

\* Unguarded: the text replaces whatever is there, in a meeting that is live.
set_text(u) ==
    /\ mreq[u].at = "text"
    /\ meeting' = IF meeting.st = "live" THEN [meeting EXCEPT !.text = mreq[u].new.text, !.ver = @ + 1] ELSE meeting
    /\ MeetingWrites(u)

delete_artifact(u, a) ==
    /\ a \in LiveFiles /\ attachment[a].target = TheMeeting
    /\ delete_attachment(u, a) /\ mreq[u].at = "idle"
    /\ UNCHANGED meetingVars

\* The meeting's part in a step of the upload of u.
UploadStep(u) ==
    \/ /\ store_and_record(u)
       /\ lateFiles' = IF u \in overtaken THEN lateFiles \cup {a \in FileIds : attachment[a] # attachment'[a]}
                                          ELSE lateFiles
       /\ overtaken' = overtaken \ {u}
       /\ ImportRecorded(u) \/ (u \notin importing /\ UNCHANGED <<importing, mreq>>)
       /\ UNCHANGED <<meeting, topic>>
    \/ UploadFails(u) /\ overtaken' = overtaken \ {u} /\ importing' = importing \ {u}
                      /\ UNCHANGED <<meeting, topic, mreq, lateFiles>>
    \/ adopt(u) /\ UNCHANGED meetingVars

\* A write fails, or its client is gone: the handler ends.
MeetingFails(u) ==
    /\ mreq[u].at # "idle" /\ UNCHANGED meeting
    /\ MeetingWrites(u)

MeetingNext ==
    \/ \E u \in Uploaders :
         \/ \E start \in Clock, end \in Clock, L \in SUBSET Topics :
              \/ create_meeting(u, start, end, L)
              \/ \E k \in Keys : update_meeting(u, k, start, end, L, TRUE)
         \/ \E start \in Clock, end \in Clock, k \in Keys : update_meeting(u, k, start, end, {}, FALSE)
         \/ create_tx(u) \/ update_tx(u) \/ toggle_tx(u) \/ set_text(u) \/ MeetingFails(u)
         \/ \E t \in Topics, add \in BOOLEAN : toggle_link(u, t, add)
         \/ soft_delete_meeting(u)
         \/ \E k \in Keys : upload_artifact(u, k) \/ import_text(u, k)
         \/ \E a \in FileIds : delete_artifact(u, a)
         \/ UploadStep(u)
    \/ \E t \in Topics, s \in {"deleted", "gone"} : TopicGoes(t, s)

MeetingSpec == MeetingInit /\ [][MeetingNext]_allMeetingVars

-----------------------------------------------------------------------------
(* Properties.                                                             *)

MeetingRow == [st : {"none", "live", "deleted"}, ver : Nat, text : Keys \cup {NoFile}, start : Clock, end : Clock,
               links : SUBSET Topics]

MeetingTypeOK ==
    /\ meeting \in MeetingRow /\ times_ok(meeting.start, meeting.end)
    /\ topic \in [Topics -> {"valid", "deleted", "gone"}]
    /\ \A u \in Uploaders : /\ mreq[u].at \in {"idle", "create", "update", "add", "remove", "text"}
                            /\ {mreq[u].seen, mreq[u].new} \subseteq MeetingRow /\ mreq[u].relink \in BOOLEAN
    /\ importing \subseteq Uploaders /\ overtaken \subseteq Uploaders /\ lateFiles \subseteq FileIds

\* A PATCH replaces what its client read (If-Match) and nothing newer: no
\* import, link or other patch that came between is lost.  Only links whose
\* target was removed meanwhile may be gone.
PatchReplacesWhatItRead ==
    [][\A u \in Uploaders :
         mreq[u].at = "update" /\ mreq'[u].at = "idle" /\ meeting' # meeting =>
           /\ meeting.text = mreq[u].seen.text
           /\ <<meeting.start, meeting.end>> = <<mreq[u].seen.start, mreq[u].seen.end>>
           /\ meeting.links \subseteq mreq[u].seen.links
           /\ \A t \in mreq[u].seen.links \ meeting.links : topic[t] = "gone"]_allMeetingVars

\* No file outlives its meeting (soft_delete takes them along), but for one
\* whose upload was under way when the meeting was deleted: upload_artifact
\* looks for the meeting before it receives the file and not again.
FilesDieWithMeeting ==
    meeting.st = "deleted" =>
        \A a \in LiveFiles : attachment[a].target = TheMeeting => a \in lateFiles

\* What the tables say of files is what there is: a row has its object on
\* disk, and a deleted meeting no files, whatever uploads, collectors, purges
\* and deletions cross, but for the crossings named above.
DiskMatchesRows == RowHasObject /\ FilesDieWithMeeting
=============================================================================
