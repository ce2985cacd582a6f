------------------------------- MODULE Files -------------------------------
(***************************************************************************)
(* Uploaded files: attachment rows in the database, content-addressed      *)
(* objects on disk, the garbage collector and the purges that remove both. *)
(*                                                                         *)
(* Source: crates/api (attachments.rs, the purges and comments of          *)
(* backlog.rs), crates/db (attachments.rs, backlog.rs) and                 *)
(* crates/storage/src/local.rs.                                            *)
(*                                                                         *)
(* Database and disk are not written together: each statement and each     *)
(* file operation is a step, and the process may stop between any two.     *)
(* A key stands for the SHA-256 of a content.                              *)
(***************************************************************************)
EXTENDS Integers, FiniteSets

CONSTANTS
    FileIds,        \* attachment ids
    Keys,           \* contents
    FileTargets,    \* what files can hang off
    TheIssue, TheComment,   \* an issue, and a comment on it
    Uploaders,      \* upload handlers in flight
    NoFile,
    Sizes,          \* object sizes a download may meet
    MaxFileOps      \* bound on the requests begun, for TLC

ASSUME FilesAssumption ==
    /\ {TheIssue, TheComment} \subseteq FileTargets /\ Sizes \subseteq Nat /\ MaxFileOps \in Nat /\ IsFiniteSet(Uploaders)
    /\ NoFile \notin FileIds \cup Keys \cup FileTargets

VARIABLES
    attachment,     \* id -> [target, key, st], or NoFile
    object,         \* keys with an object on disk
    upload,         \* handler -> [at, target, key]
    leftover,       \* spools whose upload was cut off by a stop
    reclaim,        \* "gc" and "purge" -> [at, keys]
    comment,        \* "live", "deleted" or "gone"
    served,         \* the range of the last download
    shared,         \* history: keys uploaded while being reclaimed
    fileOps

fileVars == <<attachment, object, upload, leftover, reclaim, comment, served, shared,
              fileOps>>

NoUpload == [at |-> "idle", target |-> NoFile, key |-> NoFile]
Full(size) == [size |-> size, start |-> 0, len |-> size]

FileInit ==
    /\ attachment = [a \in FileIds |-> NoFile] /\ object = {}
    /\ upload = [u \in Uploaders |-> NoUpload] /\ leftover = 0
    /\ reclaim = [r \in {"gc", "purge"} |-> [at |-> "idle", keys |-> {}]]
    /\ comment = "live"
    /\ served = Full(0) /\ shared = {} /\ fileOps = 0

Rows == {a \in FileIds : attachment[a] # NoFile}
LiveFiles == {a \in Rows : attachment[a].st = "live"}
KeysOf(S) == {attachment[a].key : a \in S}

FileRequest(u) ==
    /\ upload[u].at = "idle" /\ fileOps < MaxFileOps
    /\ fileOps' = fileOps + 1

-----------------------------------------------------------------------------
(* Uploads.                                                                *)

\* The body is spooled to the staging directory; whether the target exists
\* is not asked.
receive_file(u, t, k) ==
    /\ FileRequest(u)
    /\ upload' = [upload EXCEPT ![u] = [at |-> "spooled", target |-> t, key |-> k]]
    /\ UNCHANGED <<attachment, object, leftover, reclaim, comment, served, shared>>

\* Too large, a broken body, a type that contradicts the name, a failed
\* adoption or insert: the handler answers.  The spool removes itself; an
\* object already adopted stays.
UploadFails(u) ==
    /\ upload[u].at # "idle"
    /\ upload' = [upload EXCEPT ![u] = NoUpload]
    /\ UNCHANGED <<attachment, object, leftover, reclaim, comment, served, shared, fileOps>>

\* Keys somebody has decided, or is about to decide, to remove.
Reclaiming == UNION {reclaim[r].keys : r \in DOMAIN reclaim}

\* adopt: put_file keeps an object that is there and renames the spool
\* otherwise.
put_file(k) == object' = object \cup {k}

adopt(u) ==
    /\ upload[u].at = "spooled"
    /\ put_file(upload[u].key)
    /\ upload' = [upload EXCEPT ![u].at = "adopted"]
    /\ shared' = shared \cup ({upload[u].key} \cap Reclaiming)
    /\ UNCHANGED <<attachment, leftover, reclaim, comment, served, fileOps>>

\* ... and then the row.
store_and_record(u) ==
    /\ upload[u].at = "adopted"
    /\ \E a \in FileIds \ Rows :
         attachment' = [attachment EXCEPT ![a] = [target |-> upload[u].target, key |-> upload[u].key, st |-> "live"]]
    /\ upload' = [upload EXCEPT ![u] = NoUpload]
    /\ UNCHANGED <<object, leftover, reclaim, comment, served, shared, fileOps>>

-----------------------------------------------------------------------------
(* Downloads.                                                              *)

\* A single byte range of RFC 9110 against an object of the given size; "to"
\* or "from" is -1 when absent.  Nothing: 416.
parse_range(from, to, size) ==
    LET part(start, last) == [size |-> size, start |-> start, len |-> last - start + 1] IN
    IF from = -1 THEN {part(IF to >= size THEN 0 ELSE size - to, size - 1) : n \in {x \in {to} : x > 0 /\ size > 0}}
    ELSE IF to # -1 /\ to < from THEN {Full(size)}
    ELSE {part(from, IF to = -1 \/ to >= size THEN size - 1 ELSE to) : n \in {x \in {from} : x < size}}

\* A link is signed for a live row only and checked by its signature, not by
\* a session; the row may be gone when it is used.
sign_url(a) == a \in LiveFiles

download(a, from, to, size) ==
    /\ fileOps < MaxFileOps /\ fileOps' = fileOps + 1
    /\ sign_url(a) /\ attachment[a].key \in object
    /\ served' \in parse_range(from, to, size)
    /\ UNCHANGED <<attachment, object, upload, leftover, reclaim, comment, shared>>

-----------------------------------------------------------------------------
(* Deletion.                                                               *)

soft_delete_rows(S) ==
    attachment' = [a \in FileIds |->
        IF a \in S THEN [attachment[a] EXCEPT !.st = "deleted"] ELSE attachment[a]]

delete_attachment(u, a) ==
    /\ FileRequest(u) /\ a \in LiveFiles
    /\ soft_delete_rows({a})
    /\ UNCHANGED <<object, upload, leftover, reclaim, comment, served, shared>>

soft_delete_for_target(t) == soft_delete_rows({a \in LiveFiles : attachment[a].target = t})

\* The files of a deleted comment follow, at best.
delete_comment(u) ==
    /\ FileRequest(u) /\ comment = "live" /\ comment' = "deleted"
    /\ soft_delete_for_target(TheComment) \/ UNCHANGED attachment
    /\ UNCHANGED <<object, upload, leftover, reclaim, served, shared>>

\* The grace period of the deleted rows runs out.
GracePasses ==
    /\ \E a \in Rows : attachment[a].st = "deleted"
    /\ attachment' = [a \in FileIds |->
            IF a \in Rows /\ attachment[a].st = "deleted" THEN [attachment[a] EXCEPT !.st = "expired"] ELSE attachment[a]]
    /\ UNCHANGED <<object, upload, leftover, reclaim, comment, served, shared, fileOps>>

\* Uploads between adopting a content and recording it.
Adopting == {upload[u].key : u \in {v \in Uploaders : upload[v].at = "adopted"}}

\* gc, step 1: the expired rows go, their keys are collected.
gc_rows ==
    LET S == {a \in Rows : attachment[a].st = "expired"} IN
    /\ reclaim["gc"].at = "idle" /\ S # {}
    /\ attachment' = [a \in FileIds |-> IF a \in S THEN NoFile ELSE attachment[a]]
    /\ reclaim' = [reclaim EXCEPT !["gc"] = [at |-> "rows", keys |-> KeysOf(S)]]
    /\ shared' = shared \cup (KeysOf(S) \cap Adopting)
    /\ UNCHANGED <<object, upload, leftover, comment, served, fileOps>>

\* Mutant: keys that other rows still use are not kept.
AllOrphans(keys, S) == keys

\* The keys no row in S uses any more.
orphan_storage_keys(keys, S) == keys \ KeysOf(S)

\* gc, step 2: a second statement keeps the keys that are still used.
gc_orphans ==
    /\ reclaim["gc"].at = "rows"
    /\ reclaim' = [reclaim EXCEPT !["gc"] = [at |-> "objects", keys |-> orphan_storage_keys(@.keys, Rows)]]
    /\ UNCHANGED <<attachment, object, upload, leftover, comment, served, shared, fileOps>>

\* purge_issues removes the issue's rows and finds the orphans in one
\* transaction.  Its comments go too, their files do not.
purge_issues(u) ==
    LET S == {a \in Rows : attachment[a].target = TheIssue} IN
    /\ FileRequest(u) /\ reclaim["purge"].at = "idle"
    /\ attachment' = [a \in FileIds |-> IF a \in S THEN NoFile ELSE attachment[a]]
    /\ reclaim' = [reclaim EXCEPT !["purge"] = [at |-> "objects", keys |-> orphan_storage_keys(KeysOf(S), Rows \ S)]]
    /\ comment' = "gone"
    /\ shared' = shared \cup (KeysOf(S) \cap Adopting)
    /\ UNCHANGED <<object, upload, leftover, served>>

\* Both then delete the objects one by one; a failure is skipped.
delete_object(r, k) ==
    /\ reclaim[r].at = "objects" /\ k \in reclaim[r].keys
    /\ object' = object \ {k} \/ UNCHANGED object
    /\ reclaim' = [reclaim EXCEPT ![r].keys = @ \ {k}]
    /\ UNCHANGED <<attachment, upload, leftover, comment, served, shared, fileOps>>

run_gc(r) ==
    /\ reclaim[r].at = "objects" /\ reclaim[r].keys = {}
    /\ reclaim' = [reclaim EXCEPT ![r].at = "idle"]
    /\ UNCHANGED <<attachment, object, upload, leftover, comment, served, shared, fileOps>>

sweep_staging ==
    /\ leftover > 0 /\ leftover' = 0
    /\ UNCHANGED <<attachment, object, upload, reclaim, comment, served, shared, fileOps>>

-----------------------------------------------------------------------------
\* The process stops: spools and adopted objects stay, handlers are gone.
Stop ==
    /\ fileOps < MaxFileOps /\ fileOps' = fileOps + 1
    /\ leftover' = leftover + Cardinality({u \in Uploaders : upload[u].at = "spooled"})
    /\ upload' = [u \in Uploaders |-> NoUpload]
    /\ reclaim' = [r \in DOMAIN reclaim |-> [at |-> "idle", keys |-> {}]]
    /\ UNCHANGED <<attachment, object, comment, served, shared>>

Collector == gc_rows \/ gc_orphans \/ run_gc("gc") \/ \E k \in Keys : delete_object("gc", k)

FileNext ==
    \/ \E u \in Uploaders :
         \/ \E t \in {TheIssue, TheComment}, k \in Keys : receive_file(u, t, k)
         \/ UploadFails(u) \/ adopt(u) \/ store_and_record(u)
         \/ \E a \in FileIds : delete_attachment(u, a)
         \/ delete_comment(u) \/ purge_issues(u)
    \/ \E a \in FileIds, size \in Sizes, from \in Sizes \cup {-1}, to \in Sizes \cup {-1} :
         download(a, from, to, size)
    \/ GracePasses \/ Collector \/ run_gc("purge") \/ (\E k \in Keys : delete_object("purge", k))
    \/ sweep_staging \/ Stop

FileSpec == FileInit /\ [][FileNext]_fileVars

-----------------------------------------------------------------------------
(* Properties.                                                             *)

FileTypeOK ==
    /\ attachment \in [FileIds ->
         [target : FileTargets, key : Keys, st : {"live", "deleted", "expired"}] \cup {NoFile}]
    /\ object \subseteq Keys /\ leftover \in Nat
    /\ upload \in [Uploaders -> [at : {"idle", "spooled", "adopted"}, target : FileTargets \cup {NoFile},
                                 key : Keys \cup {NoFile}]]
    /\ reclaim \in [{"gc", "purge"} -> [at : {"idle", "rows", "objects"}, keys : SUBSET Keys]]
    /\ comment \in {"live", "deleted", "gone"}
    /\ served.start >= 0 /\ served.len >= 0 /\ served.start + served.len <= served.size
    /\ shared \subseteq Keys /\ fileOps \in 0 .. MaxFileOps

\* A row has its object: neither the collector nor a purge removes a content
\* some row uses, however often it was uploaded, unless the same content was
\* being uploaded at that very time.
RowHasObject == \A a \in Rows : attachment[a].key \in object \cup shared
=============================================================================
