-------------------------------- MODULE Wiki --------------------------------
(***************************************************************************)
(* Wiki pages and their revisions.                                         *)
(*                                                                         *)
(* Source: wiki.rs of crates/api and crates/db.                            *)
(*                                                                         *)
(* A save reads the page, fills in what the patch leaves out, and writes   *)
(* both fields and a revision in one transaction, without comparing the    *)
(* version it read.  The slug of a deleted page stays taken.               *)
(***************************************************************************)
EXTENDS Integers, Sequences

CONSTANTS
    Pages, Prose, Writers,
    NoPage, AsRead,     \* no page; a field that the patch leaves out
    MaxSaves            \* bound on the requests begun, for TLC

ASSUME WikiAssumption == MaxSaves \in Nat /\ AsRead \notin Prose /\ NoPage \notin Pages

VARIABLES
    page,       \* page, by its slug -> [title, body, version, gone]; pages that were created
    revs,       \* page -> its revisions, oldest first
    writer,     \* handler -> its step
    saves,      \* requests begun so far
    meant,      \* history: page -> the value each field was last given on purpose
    crossed     \* history: pages on which two saves overlapped

wikiVars == <<page, revs, writer, saves, meant, crossed>>

Away == [at |-> "idle", page |-> NoPage, title |-> AsRead, body |-> AsRead,
         readTitle |-> AsRead, readBody |-> AsRead, late |-> FALSE]

WikiInit ==
    /\ page = << >> /\ revs = << >> /\ meant = << >>
    /\ writer = [h \in Writers |-> Away] /\ saves = 0 /\ crossed = {}

-----------------------------------------------------------------------------
\* The page row and its first revision; a slug that was ever used is a 409.
create_page(h, p, t, b) ==
    /\ writer[h].at = "idle" /\ saves < MaxSaves /\ p \notin DOMAIN page
    /\ page' = [q \in DOMAIN page \cup {p} |-> IF q = p
                  THEN [title |-> t, body |-> b, version |-> 1, gone |-> FALSE] ELSE page[q]]
    /\ revs' = [q \in DOMAIN revs \cup {p} |-> IF q = p THEN <<[title |-> t, body |-> b]>> ELSE revs[q]]
    /\ meant' = [q \in DOMAIN meant \cup {p} |-> IF q = p THEN [title |-> t, body |-> b] ELSE meant[q]]
    /\ saves' = saves + 1
    /\ UNCHANGED <<writer, crossed>>

\* update reads the live page ...
update_page(h, p, t, b) ==
    /\ writer[h].at = "idle" /\ saves < MaxSaves
    /\ p \in DOMAIN page /\ ~page[p].gone
    /\ writer' = [writer EXCEPT ![h] = [Away EXCEPT !.at = "save", !.page = p, !.title = t, !.body = b,
                                          !.readTitle = page[p].title, !.readBody = page[p].body]]
    /\ saves' = saves + 1
    /\ UNCHANGED <<page, revs, meant, crossed>>

\* ... and restore reads a revision, also one of a deleted page.
restore(h, p, n) ==
    /\ writer[h].at = "idle" /\ saves < MaxSaves
    /\ p \in DOMAIN revs /\ n \in DOMAIN revs[p]
    /\ writer' = [writer EXCEPT ![h] = [Away EXCEPT !.at = "save", !.page = p,
                                          !.title = revs[p][n].title, !.body = revs[p][n].body]]
    /\ saves' = saves + 1
    /\ UNCHANGED <<page, revs, meant, crossed>>

\* unwrap_or: the patch's field, or else the one that was read.
Merged(given, read) == IF given = AsRead THEN read ELSE given

\* Mutant: the save does not count a version.
SaveUncounted(p, new) == [page[p] EXCEPT !.title = new.title, !.body = new.body]

\* UPDATE wiki_pages ... version = version + 1, where the page is live.
page_row(p, new) == [page[p] EXCEPT !.title = new.title, !.body = new.body, !.version = @ + 1]

\* The transaction of a save: the row, and a revision that carries its version.
save_page(h) ==
    LET w == writer[h]
        p == w.page
        new == [title |-> Merged(w.title, w.readTitle), body |-> Merged(w.body, w.readBody)] IN
    /\ w.at = "save"
    /\ IF page[p].gone
       THEN UNCHANGED <<page, revs, meant, crossed>>
       ELSE /\ page' = [page EXCEPT ![p] = page_row(p, new)]
            /\ revs' = [revs EXCEPT ![p] = Append(@, new)]
            /\ meant' = [meant EXCEPT ![p] = [title |-> Merged(w.title, @.title),
                                              body |-> Merged(w.body, @.body)]]
            /\ crossed' = IF w.late THEN crossed \cup {p} ELSE crossed
    /\ writer' = [g \in Writers |-> IF g = h THEN Away
                    ELSE IF writer[g].page = p THEN [writer[g] EXCEPT !.late = TRUE] ELSE writer[g]]
    /\ UNCHANGED saves

soft_delete_page(h, p) ==
    /\ writer[h].at = "idle" /\ saves < MaxSaves
    /\ p \in DOMAIN page /\ ~page[p].gone
    /\ page' = [page EXCEPT ![p].gone = TRUE] /\ saves' = saves + 1
    /\ UNCHANGED <<revs, writer, meant, crossed>>

\* A query fails or the process stops: the transaction is not committed.
StopWriter(h) ==
    /\ writer[h].at # "idle" /\ writer' = [writer EXCEPT ![h] = Away]
    /\ UNCHANGED <<page, revs, saves, meant, crossed>>

WikiNext == \E h \in Writers :
    \/ \E p \in Pages, t, b \in Prose : create_page(h, p, t, b)
    \/ \E p \in Pages, t, b \in Prose \cup {AsRead} : update_page(h, p, t, b)
    \/ \E p \in Pages, n \in 1 .. MaxSaves : restore(h, p, n)
    \/ save_page(h) \/ StopWriter(h)
    \/ \E p \in Pages : soft_delete_page(h, p)

WikiSpec == WikiInit /\ [][WikiNext]_wikiVars

-----------------------------------------------------------------------------
(* Properties.                                                             *)

WikiTypeOK ==
    /\ DOMAIN page \subseteq Pages /\ DOMAIN revs = DOMAIN page /\ DOMAIN meant = DOMAIN page
    /\ \A p \in DOMAIN page : page[p] \in [title : Prose, body : Prose, version : 1 .. MaxSaves, gone : BOOLEAN]
    /\ \A h \in Writers : writer[h].at \in {"idle", "save"}
    /\ saves \in 0 .. MaxSaves /\ crossed \subseteq Pages

\* The newest revision is the page and its number is the page's version, so
\* that nothing a save replaces is out of reach; and a page shows something
\* else than each field was last given only where two saves overlapped.
WikiKeepsHistory ==
    \A p \in DOMAIN page :
      /\ Len(revs[p]) = page[p].version
      /\ revs[p][page[p].version] = [title |-> page[p].title, body |-> page[p].body]
      /\ [title |-> page[p].title, body |-> page[p].body] # meant[p] => p \in crossed
=============================================================================
