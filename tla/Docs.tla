-------------------------------- MODULE Docs --------------------------------
(***************************************************************************)
(* A documentation source: a git branch on a remote host, the bare clone   *)
(* that serves it, the row that describes the clone, and the handlers that *)
(* fetch, read, edit and push one document.                                *)
(*                                                                         *)
(* Source: crates/api/src/docs.rs, crates/git/src/docs.rs, crates/db       *)
(* (doc_sources.rs, doc_user_keys.rs), crates/core/src/docs/path.rs.       *)
(*                                                                         *)
(* A commit is the sequence of texts the document has had; a blob's id is  *)
(* its text.  The remote (a git host, not in this repository) takes other  *)
(* people's commits and accepts a push only as a fast forward.  A git      *)
(* operation runs as a blocking task: when its timeout elapses the handler *)
(* goes on, gives up the lock, and the task continues (late).              *)
(***************************************************************************)
EXTENDS Integers, Sequences, FiniteSets, SequencesExt

CONSTANTS
    Texts,          \* what the document may say
    Scribes,        \* handlers in flight
    NoText,         \* If-Match "new", and nobody
    MaxDocOps,      \* bound on the requests begun, for TLC
    MaxCommits      \* bound on the length of a history, for TLC

ASSUME DocsAssumption == NoText \notin Texts \cup Scribes /\ MaxDocOps \in Nat /\ MaxCommits \in Nat \ {0}

VARIABLES
    source,     \* the row: [st, kind, ro, status, head, key]
    writekey,   \* the editor has registered a key of their own
    remote,     \* the branch on the git host: a non-empty history
    clone,      \* the branch in the cache directory; <<>>: none
    holder,     \* who holds the source's lock, or NoText
    task,       \* handler -> [pc, op, seen, text, base, late]
    shown,      \* the texts readers have been served
    docOps,
    acked,      \* history: commits answered as pushed
    stray       \* history: the clone was last written by a late task, or
                \* keeps a refused commit, or the source went under its holder

docVars == <<source, writekey, remote, clone, holder, task, shown, docOps, acked, stray>>

NoTask == [pc |-> "idle", op |-> "none", seen |-> NoText, text |-> NoText, base |-> <<>>, late |-> FALSE]

Histories == BoundedSeq(Texts, MaxCommits)

\* No source yet, or one that was synchronised and read by an editor with a key.
DocsInit ==
    /\ remote \in {<<t>> : t \in Texts} /\ writekey \in BOOLEAN
    /\ clone = IF writekey THEN remote ELSE <<>>
    /\ source = [st |-> IF writekey THEN "live" ELSE "none", kind |-> "git", ro |-> FALSE,
                 status |-> IF writekey THEN "ready" ELSE "pending", head |-> clone, key |-> TRUE]
    /\ task = [h \in Scribes |-> NoTask] /\ holder = NoText
    /\ shown = {clone[i] : i \in DOMAIN clone} /\ docOps = 0 /\ acked = {} /\ stray = FALSE

Ask4Docs == docOps < MaxDocOps /\ docOps' = docOps + 1
Step(h, pc) == task' = [task EXCEPT ![h].pc = pc]
Ends(h) == task' = [task EXCEPT ![h] = NoTask]
Free(h) == holder' = IF holder = h THEN NoText ELSE holder
Live == source.st = "live"
Tip(c) == IF c = <<>> THEN NoText ELSE Last(c)

-----------------------------------------------------------------------------
(* The row.                                                                *)

\* A clone in the background; a web link has nothing to clone.
spawn_initial_sync(h, kind) ==
    task' = IF kind = "git" THEN [task EXCEPT ![h] = [NoTask EXCEPT !.pc = "lock", !.op = "forced"]] ELSE task

\* Registration verifies the remote and starts the first clone.
create_source(h, kind, ro) ==
    /\ Ask4Docs /\ source.st = "none" /\ task[h] = NoTask
    /\ source' = [source EXCEPT !.st = "live", !.kind = kind, !.ro = (kind = "web" \/ ro)]
    /\ spawn_initial_sync(h, kind)
    /\ UNCHANGED <<writekey, remote, clone, holder, shown, acked, stray>>

\* A change of branch or key makes the clone one of something else.
invalidates_cache(branch, rekey) == branch \/ rekey

\* update_source: read_only, or a setting that invalidates the cache.
update_source(h, ro, branch, rekey) ==
    /\ Ask4Docs /\ Live /\ task[h] = NoTask
    /\ source.kind = "git" \/ (ro /\ ~branch /\ ~rekey)
    /\ source' = [source EXCEPT !.ro = ro, !.key = @ \/ rekey]
    /\ IF invalidates_cache(branch, rekey) THEN spawn_initial_sync(h, "git") ELSE UNCHANGED task
    /\ UNCHANGED <<writekey, remote, clone, holder, shown, acked, stray>>

\* A directory that cannot be removed stays.
remove_cache == clone' = <<>> \/ UNCHANGED clone

\* The next request finds a new lock, whoever holds the old one.
forget_lock == holder' = NoText /\ stray' = (stray \/ holder # NoText)

\* The row and the directory go without asking for the lock.
delete_source ==
    /\ Ask4Docs /\ Live
    /\ source' = [source EXCEPT !.st = "deleted"]
    /\ remove_cache /\ forget_lock
    /\ UNCHANGED <<writekey, remote, task, shown, acked>>

\* Deleting the deploy key leaves the source without one.
deploy_key_deleted ==
    /\ Ask4Docs /\ Live /\ source.key
    /\ source' = [source EXCEPT !.key = FALSE]
    /\ UNCHANGED <<writekey, remote, clone, holder, task, shown, acked, stray>>

put_my_key ==
    /\ Ask4Docs /\ ~writekey /\ writekey' = TRUE
    /\ UNCHANGED <<source, remote, clone, holder, task, shown, acked, stray>>

delete_my_key ==
    /\ Ask4Docs /\ writekey /\ writekey' = FALSE
    /\ UNCHANGED <<source, remote, clone, holder, task, shown, acked, stray>>

-----------------------------------------------------------------------------
(* Synchronisation.                                                        *)

\* Sources the background refresher may find due; web links never are.
due_for_sync == Live /\ source.kind = "git"

\* An unforced sync_source, from the refresher or a reader's request.
refresh_due(h) ==
    /\ Ask4Docs /\ due_for_sync /\ task[h] = NoTask
    /\ task' = [task EXCEPT ![h] = [NoTask EXCEPT !.pc = "lock", !.op = "sync"]]
    /\ UNCHANGED <<source, writekey, remote, clone, holder, shown, acked, stray>>

sync_now(h) == refresh_due(h)

lock_for(h) == holder = NoText /\ holder' = h

\* An unforced attempt too soon after another is refused, and so is one on a
\* source that is gone; a save goes on regardless.
claim_for_sync(h) ==
    /\ task[h].pc = "lock"
    /\ lock_for(h)
    /\ \/ /\ Live /\ Step(h, "fetch")
          /\ source' = [source EXCEPT !.status = "syncing"]
       \/ /\ ~Live \/ task[h].op = "sync"
          /\ Step(h, "unlock") /\ UNCHANGED source
    /\ UNCHANGED <<writekey, remote, clone, shown, docOps, acked, stray>>

\* sync_blocking: the directory is made if need be and the branch is forced
\* to the remote's.
fetch(h) ==
    /\ task[h].pc = "fetch" /\ source.key
    /\ clone' = remote
    /\ stray' = (task[h].late \/ (stray /\ ~Live))
    /\ Step(h, "fetched")
    /\ UNCHANGED <<source, writekey, remote, holder, shown, docOps, acked>>

mark_synced(c) == source' = IF Live THEN [source EXCEPT !.status = "ready", !.head = c] ELSE source
mark_failed == source' = IF Live THEN [source EXCEPT !.status = "error"] ELSE source

fetched(h) ==
    /\ task[h].pc = "fetched" /\ ~task[h].late
    /\ mark_synced(clone) /\ Step(h, "unlock")
    /\ UNCHANGED <<writekey, remote, clone, holder, shown, docOps, acked, stray>>

\* Unreachable, too large, no key: recorded, and an error for a save too.
fetch_failed(h) ==
    /\ task[h].pc = "fetch" /\ ~task[h].late
    /\ mark_failed /\ Ends(h) /\ Free(h)
    /\ UNCHANGED <<writekey, remote, clone, shown, docOps, acked, stray>>

unlock(h) ==
    /\ task[h].pc = "unlock"
    /\ Free(h)
    /\ IF task[h].op = "save" THEN Step(h, "relock") ELSE Ends(h)
    /\ UNCHANGED <<source, writekey, remote, clone, shown, docOps, acked, stray>>

\* run: the timeout elapses and the blocking task is left to itself.
times_out(h) ==
    /\ task[h].pc \in {"fetch", "edit", "push", "refused"} /\ ~task[h].late
    /\ task' = [task EXCEPT ![h].late = TRUE]
    /\ IF task[h].pc = "fetch" THEN mark_failed ELSE UNCHANGED source
    /\ Free(h)
    /\ stray' = (stray \/ task[h].pc \in {"push", "refused"})
    /\ UNCHANGED <<writekey, remote, clone, shown, docOps, acked>>

late_task_ends(h) ==
    /\ task[h].late /\ task[h].pc \in {"fetch", "fetched", "pushed"}
    /\ Ends(h)
    /\ UNCHANGED <<source, writekey, remote, clone, holder, shown, docOps, acked, stray>>

-----------------------------------------------------------------------------
(* Reading and saving.                                                     *)

ready_dir == Live /\ source.kind = "git" /\ source.head # <<>>

\* Paths are resolved segment by segment; leaving the jail is refused.
resolve(path) ==
    LET walk(out, seg) ==
            IF out = <<"escapes">> THEN out
            ELSE IF seg \in {"", "."} THEN out
            ELSE IF seg # ".." THEN Append(out, seg)
            ELSE IF out = <<>> THEN <<"escapes">> ELSE Front(out)
    IN  FoldLeft(walk, <<>>, path)

RequestPaths == {<<"doc.md">>, <<"..", "doc.md">>, <<".", "a", "..", "doc.md">>}

\* get_doc reads the branch of the clone, without the lock.
get_doc(path) ==
    /\ ready_dir /\ clone # <<>> /\ resolve(path) = <<"doc.md">>
    /\ Last(clone) \notin shown
    /\ shown' = shown \cup {Last(clone)}
    /\ UNCHANGED <<source, writekey, remote, clone, holder, task, docOps, acked, stray>>

\* save_doc: If-Match names the text the editor was shown, or none; then a
\* forced sync, and then the edit, under the lock again.
save_doc(h, e, t) ==
    /\ Ask4Docs /\ Live /\ source.kind = "git" /\ ~source.ro /\ writekey /\ task[h] = NoTask
    /\ e \in shown \cup {NoText}
    /\ task' = [task EXCEPT ![h] = [NoTask EXCEPT !.pc = "lock", !.op = "save", !.seen = e, !.text = t]]
    /\ UNCHANGED <<source, writekey, remote, clone, holder, shown, acked, stray>>

relock(h) ==
    /\ task[h].pc = "relock"
    /\ lock_for(h) /\ Step(h, "edit")
    /\ UNCHANGED <<source, writekey, remote, clone, shown, docOps, acked, stray>>

Acked(c) == acked' = IF stray THEN acked ELSE acked \cup {c}

\* edit_blocking up to the push: the text must still be the one the editor
\* saw; the same text again is no commit; the branch of the clone moves
\* before the remote has agreed.
edit(h) ==
    /\ task[h].pc = "edit" /\ UNCHANGED <<writekey, remote, shown, docOps>>
    /\ stray' = (stray \/ task[h].late)
    /\ \/ /\ clone = <<>> \/ Tip(clone) # task[h].seen
          /\ Ends(h) /\ Free(h) /\ UNCHANGED <<source, clone, acked>>
       \/ /\ clone # <<>> /\ Tip(clone) = task[h].seen /\ Tip(clone) = task[h].text
          /\ Ends(h) /\ Free(h) /\ UNCHANGED clone
          /\ IF task[h].late THEN UNCHANGED <<source, acked>> ELSE mark_synced(clone) /\ Acked(clone)
       \/ /\ clone # <<>> /\ Tip(clone) = task[h].seen /\ Tip(clone) # task[h].text
          /\ Len(clone) < MaxCommits
          /\ clone' = Append(clone, task[h].text)
          /\ task' = [task EXCEPT ![h].pc = "push", ![h].base = clone]
          /\ UNCHANGED <<source, holder, acked>>

\* Mutant: a push that the remote refuses counts as pushed.
PushUnasked(h) ==
    /\ task[h].pc = "push" /\ UNCHANGED <<source, writekey, clone, holder, shown, docOps, acked>>
    /\ stray' = (stray \/ task[h].late)
    /\ remote' \in {remote} \cup {c \in {clone} : IsPrefix(remote, c)}
    /\ Step(h, "pushed")

\* The branch is pushed by name: whatever the clone's branch is by then.
push(h) ==
    /\ task[h].pc = "push" /\ UNCHANGED <<source, writekey, clone, holder, shown, docOps, acked>>
    /\ stray' = (stray \/ task[h].late)
    /\ \/ /\ clone # <<>> /\ IsPrefix(remote, clone)
          /\ remote' = clone /\ Step(h, "pushed")
       \/ Step(h, "refused") /\ UNCHANGED remote

pushed(h) ==
    /\ task[h].pc = "pushed" /\ ~task[h].late
    /\ mark_synced(Append(task[h].base, task[h].text))
    /\ Acked(Append(task[h].base, task[h].text))
    /\ Ends(h) /\ Free(h)
    /\ UNCHANGED <<writekey, remote, clone, shown, docOps, stray>>

\* rollback: its own error is dropped.
rollback(h, undone) ==
    /\ task[h].pc = "refused"
    /\ clone' = IF undone /\ clone # <<>> THEN task[h].base ELSE clone
    /\ stray' = (stray \/ task[h].late \/ ~undone)
    /\ Ends(h) /\ Free(h)
    /\ UNCHANGED <<source, writekey, remote, shown, docOps, acked>>

-----------------------------------------------------------------------------
(* The rest of the world.                                                  *)

remote_commit(t) ==
    /\ Ask4Docs /\ Len(remote) < MaxCommits /\ t # Last(remote)
    /\ remote' = Append(remote, t)
    /\ UNCHANGED <<source, writekey, clone, holder, task, shown, acked, stray>>

\* The process dies and starts again: release_stale_claims.
restart ==
    /\ Ask4Docs /\ task # [h \in Scribes |-> NoTask]
    /\ task' = [h \in Scribes |-> NoTask] /\ holder' = NoText
    /\ source' = IF source.status # "syncing" THEN source
                 ELSE [source EXCEPT !.status = IF source.head = <<>> THEN "pending" ELSE "ready"]
    /\ stray' = (stray \/ \E h \in Scribes : task[h].pc \in {"push", "refused"})
    /\ UNCHANGED <<writekey, remote, clone, shown, acked>>

DocsNext ==
    \/ \E h \in Scribes :
         \/ \E kind \in {"git", "web"}, ro \in BOOLEAN : create_source(h, kind, ro)
         \/ \E ro, branch, rekey \in BOOLEAN : update_source(h, ro, branch, rekey)
         \/ refresh_due(h) \/ sync_now(h) \/ claim_for_sync(h) \/ fetch(h) \/ fetched(h) \/ fetch_failed(h)
         \/ unlock(h) \/ times_out(h) \/ late_task_ends(h)
         \/ \E e \in Texts \cup {NoText}, t \in Texts : save_doc(h, e, t)
         \/ relock(h) \/ edit(h) \/ push(h) \/ pushed(h)
         \/ \E undone \in BOOLEAN : rollback(h, undone)
    \/ \E path \in RequestPaths : get_doc(path)
    \/ \E t \in Texts : remote_commit(t)
    \/ delete_source \/ deploy_key_deleted \/ put_my_key \/ delete_my_key \/ restart

DocsSpec == DocsInit /\ [][DocsNext]_docVars

-----------------------------------------------------------------------------
DocsTypeOK ==
    /\ source \in [st : {"none", "live", "deleted"}, kind : {"git", "web"}, ro : BOOLEAN,
                   status : {"pending", "syncing", "ready", "error"}, head : Histories, key : BOOLEAN]
    /\ {writekey, stray} \subseteq BOOLEAN
    /\ remote \in Histories \ {<<>>} /\ clone \in Histories
    /\ holder \in Scribes \cup {NoText}
    /\ \A h \in Scribes :
         /\ task[h].pc \in {"idle", "lock", "fetch", "fetched", "unlock", "relock", "edit", "push", "pushed", "refused"}
         /\ task[h].op \in {"none", "forced", "sync", "save"} /\ task[h].late \in BOOLEAN
         /\ {task[h].seen, task[h].text} \subseteq Texts \cup {NoText} /\ task[h].base \in Histories
    /\ shown \subseteq Texts /\ docOps \in 0 .. MaxDocOps /\ acked \subseteq Histories

\* A save that was answered as pushed is in the history of the remote, as
\* long as no git task that timed out was still at work on the clone, no
\* refused commit was left in it and the source was not deleted under a
\* request that held its lock: the per-source lock keeps the fetches and
\* edits of other requests away between the commit and the push (sync_source
\* and save_doc take it).
SavedIsOnRemote == \A c \in acked : IsPrefix(c, remote)

\* What the comment of sync_source says: "The per-source lock is held for the
\* whole operation so a fetch can never interleave with an edit's push on the
\* same repository."
FetchNeverCrossesPush ==
    \A h, g \in Scribes : h # g => ~(task[h].pc = "fetch" /\ task[g].pc = "push")
=============================================================================
