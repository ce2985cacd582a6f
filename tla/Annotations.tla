---------------------------- MODULE Annotations ----------------------------
(***************************************************************************)
(* What hangs on a project and its issues: customers, links between        *)
(* issues, watchers and comments.                                          *)
(*                                                                         *)
(* Source: customers.rs, issue_relations.rs and the comment handlers of    *)
(* backlog.rs in crates/api; customers.rs, issue_links.rs,                 *)
(* issue_watchers.rs and comments.rs in crates/db.                         *)
(*                                                                         *)
(* Each handler reads, decides, and then writes with one statement.  A     *)
(* customer is its unique name and its details; the details stand for all  *)
(* the fields a patch merges over the row that was read.                   *)
(***************************************************************************)
EXTENDS Integers, FiniteSets

CONSTANTS
    Customers, Titles, Details,
    Cards,          \* issues of the project
    Persons, Moderators,
    Notes,          \* comments
    Clerks,         \* handlers in flight
    Blank,          \* null, or a field that the patch leaves out
    MaxCustomers,   \* MAX_CUSTOMERS_PER_PROJECT
    MaxRemarks      \* bound on the requests begun, for TLC

ASSUME AnnotationsAssumption ==
    /\ MaxCustomers \in Nat /\ MaxRemarks \in Nat /\ Moderators \subseteq Persons
    /\ Blank \notin Customers \cup Titles \cup Details \cup Notes \cup Persons

VARIABLES
    customer,   \* existing customer -> [name, details]
    cards,      \* issues that are not deleted
    links,      \* pairs <<source, target>>, of one type
    watching,   \* pairs <<issue, user>>
    note,       \* created comment -> [author, on, old, gone]; old: the window of 24 h is over
    clerk,      \* handler -> its step
    remarks,    \* requests begun so far
    wished,     \* history: customer -> the last name and details given on purpose
    hurried     \* history: what overlapped

annVars == <<customer, cards, links, watching, note, clerk, remarks, wished, hurried>>

AtDesk == [at |-> "idle", id |-> Blank, name |-> Blank, details |-> Blank,
           readName |-> Blank, readDetails |-> Blank, late |-> FALSE]

AnnInit ==
    /\ customer = << >> /\ cards = Cards /\ links = {} /\ watching = {} /\ note = << >>
    /\ clerk = [h \in Clerks |-> AtDesk] /\ remarks = 0 /\ wished = << >> /\ hurried = {}

-----------------------------------------------------------------------------
(* Customers.                                                              *)

BeginRemark(h, rec) ==
    /\ clerk[h].at = "idle" /\ remarks < MaxRemarks
    /\ remarks' = remarks + 1 /\ clerk' = [clerk EXCEPT ![h] = rec]

\* The handler ends; those in the steps it overtakes learn of it (history).
EndRemark(h, at) ==
    clerk' = [g \in Clerks |-> IF g = h THEN AtDesk
                ELSE IF clerk[g].at = at THEN [clerk[g] EXCEPT !.late = TRUE] ELSE clerk[g]]

\* UNIQUE (project_id, name).
NameFree(c, n) == \A d \in DOMAIN customer \ {c} : customer[d].name # n

\* create counts first ...
create_customer(h, c, n, v) ==
    /\ Cardinality(DOMAIN customer) < MaxCustomers
    /\ c \notin DOMAIN customer /\ \A g \in Clerks : clerk[g].id # c
    /\ BeginRemark(h, [AtDesk EXCEPT !.at = "insert", !.id = c, !.name = n, !.details = v])
    /\ UNCHANGED <<customer, cards, links, watching, note, wished, hurried>>

\* ... and inserts; a name in use is a 409.
insert_customer(h) ==
    LET k == clerk[h]
        row == [name |-> k.name, details |-> k.details]
        With(f) == [c \in DOMAIN f \cup {k.id} |-> IF c = k.id THEN row ELSE f[c]] IN
    /\ k.at = "insert"
    /\ customer' = IF NameFree(k.id, k.name) THEN With(customer) ELSE customer
    /\ wished' = IF NameFree(k.id, k.name) THEN With(wished) ELSE wished
    /\ hurried' = IF k.late THEN hurried \cup {"insert"} ELSE hurried
    /\ EndRemark(h, "insert")
    /\ UNCHANGED <<cards, links, watching, note, remarks>>

update_customer(h, c, n, v) ==
    /\ c \in DOMAIN customer
    /\ BeginRemark(h, [AtDesk EXCEPT !.at = "update", !.id = c, !.name = n, !.details = v,
                         !.readName = customer[c].name, !.readDetails = customer[c].details])
    /\ UNCHANGED <<customer, cards, links, watching, note, wished, hurried>>

\* Mutant: the merge goes the wrong way, what was read wins.
ReadWins(given, read) == IF read = Blank THEN given ELSE read

\* A field of the patch over the field that was read.
merge_field(given, read) == IF given = Blank THEN read ELSE given

\* The full row is written.
write_customer(h) ==
    LET k == clerk[h]
        row == [name |-> merge_field(k.name, k.readName),
                details |-> merge_field(k.details, k.readDetails)]
        ok == k.id \in DOMAIN customer /\ NameFree(k.id, row.name) IN
    /\ k.at = "update"
    /\ customer' = IF ok THEN [customer EXCEPT ![k.id] = row] ELSE customer
    /\ wished' = IF ok THEN [wished EXCEPT ![k.id] =
                   [name |-> IF k.name = Blank THEN @.name ELSE k.name,
                    details |-> IF k.details = Blank THEN @.details ELSE k.details]] ELSE wished
    /\ hurried' = IF k.late THEN hurried \cup {"update"} ELSE hurried
    /\ EndRemark(h, "update")
    /\ UNCHANGED <<cards, links, watching, note, remarks>>

delete_customer(c) ==
    /\ remarks < MaxRemarks /\ c \in DOMAIN customer /\ remarks' = remarks + 1
    /\ customer' = [d \in DOMAIN customer \ {c} |-> customer[d]]
    /\ wished' = [d \in DOMAIN wished \ {c} |-> wished[d]]
    /\ UNCHANGED <<cards, links, watching, note, clerk, hurried>>

-----------------------------------------------------------------------------
(* Links, watchers and the issues they hang on.                            *)

\* Both ends are live when they are looked at; a soft delete meanwhile goes
\* unnoticed.  The same pair again is a 409.
create_link(h, s, t) ==
    /\ s # t /\ {s, t} \subseteq cards
    /\ BeginRemark(h, [AtDesk EXCEPT !.at = "link", !.id = <<s, t>>])
    /\ UNCHANGED <<customer, cards, links, watching, note, wished, hurried>>

insert_link(h) ==
    /\ clerk[h].at = "link"
    /\ links' = links \cup {clerk[h].id}
    /\ EndRemark(h, "none")
    /\ UNCHANGED <<customer, cards, watching, note, remarks, wished, hurried>>

delete_link(l) ==
    /\ remarks < MaxRemarks /\ l \in links /\ remarks' = remarks + 1
    /\ links' = links \ {l}
    /\ UNCHANGED <<customer, cards, watching, note, clerk, wished, hurried>>

\* Adding twice is adding once.
add_watcher(i, u) ==
    /\ remarks < MaxRemarks /\ i \in cards /\ remarks' = remarks + 1
    /\ watching' = watching \cup {<<i, u>>}
    /\ UNCHANGED <<customer, cards, links, note, clerk, wished, hurried>>

remove_watcher(i, u) ==
    /\ remarks < MaxRemarks /\ <<i, u>> \in watching /\ remarks' = remarks + 1
    /\ watching' = watching \ {<<i, u>>}
    /\ UNCHANGED <<customer, cards, links, note, clerk, wished, hurried>>

\* The soft delete of an issue leaves links, watchers and comments in place.
issue_deleted(i) ==
    /\ remarks < MaxRemarks /\ i \in cards /\ remarks' = remarks + 1
    /\ cards' = cards \ {i}
    /\ UNCHANGED <<customer, links, watching, note, clerk, wished, hurried>>

-----------------------------------------------------------------------------
(* Comments.                                                               *)

\* The target is not looked at.
create_comment(n, u, i) ==
    /\ remarks < MaxRemarks /\ n \notin DOMAIN note /\ remarks' = remarks + 1
    /\ note' = [m \in DOMAIN note \cup {n} |-> IF m = n
                  THEN [author |-> u, on |-> i, old |-> FALSE, gone |-> FALSE] ELSE note[m]]
    /\ UNCHANGED <<customer, cards, links, watching, clerk, wished, hurried>>

\* 24 hours pass.
window_closes(n) ==
    /\ remarks < MaxRemarks /\ n \in DOMAIN note /\ ~note[n].old /\ remarks' = remarks + 1
    /\ note' = [note EXCEPT ![n].old = TRUE]
    /\ clerk' = [g \in Clerks |-> IF clerk[g].id = n THEN [clerk[g] EXCEPT !.late = TRUE] ELSE clerk[g]]
    /\ UNCHANGED <<customer, cards, links, watching, wished, hurried>>

\* The author while the window is open, a moderator at any time.
authorize_comment_mutation(n, u) ==
    \/ u \in Moderators
    \/ u = note[n].author /\ ~note[n].old

\* update_comment and delete_comment read the author and the age first.
comment_meta(h, n, u, what) ==
    /\ n \in DOMAIN note /\ ~note[n].gone
    /\ authorize_comment_mutation(n, u)
    /\ BeginRemark(h, [AtDesk EXCEPT !.at = what, !.id = n, !.name = u])
    /\ UNCHANGED <<customer, cards, links, watching, note, wished, hurried>>

\* The row if it is still there; a deletion also takes its attachments (Files).
write_comment(h) ==
    LET n == clerk[h].id IN
    /\ clerk[h].at \in {"edit", "remove"}
    /\ note' = IF clerk[h].at = "remove" THEN [note EXCEPT ![n].gone = TRUE] ELSE note
    /\ EndRemark(h, "none")
    /\ UNCHANGED <<customer, cards, links, watching, remarks, wished, hurried>>

\* A query fails or the process stops.
StopClerk(h) ==
    /\ clerk[h].at # "idle" /\ EndRemark(h, "none")
    /\ UNCHANGED <<customer, cards, links, watching, note, remarks, wished, hurried>>

AnnNext ==
    \/ \E h \in Clerks, c \in Customers, n \in Titles, v \in Details : create_customer(h, c, n, v)
    \/ \E h \in Clerks, c \in Customers, n \in Titles \cup {Blank}, v \in Details \cup {Blank} :
         update_customer(h, c, n, v)
    \/ \E h \in Clerks : insert_customer(h) \/ write_customer(h) \/ insert_link(h) \/ write_comment(h) \/ StopClerk(h)
    \/ \E c \in Customers : delete_customer(c)
    \/ \E h \in Clerks, s, t \in Cards : create_link(h, s, t)
    \/ \E l \in links : delete_link(l)
    \/ \E i \in Cards, u \in Persons : add_watcher(i, u) \/ remove_watcher(i, u)
    \/ \E i \in Cards : issue_deleted(i)
    \/ \E n \in Notes, u \in Persons, i \in Cards : create_comment(n, u, i)
    \/ \E n \in Notes : window_closes(n)
    \/ \E h \in Clerks, n \in Notes, u \in Persons, what \in {"edit", "remove"} : comment_meta(h, n, u, what)

AnnSpec == AnnInit /\ [][AnnNext]_annVars

-----------------------------------------------------------------------------
(* Properties.                                                             *)

AnnTypeOK ==
    /\ DOMAIN customer \subseteq Customers /\ DOMAIN wished = DOMAIN customer
    /\ \A c \in DOMAIN customer : customer[c] \in [name : Titles, details : Details]
    /\ cards \subseteq Cards /\ links \subseteq Cards \X Cards /\ watching \subseteq Cards \X Persons
    /\ \A n \in DOMAIN note : note[n] \in [author : Persons, on : Cards, old : BOOLEAN, gone : BOOLEAN]
    /\ \A h \in Clerks : clerk[h].at \in {"idle", "insert", "update", "link", "edit", "remove"}
    /\ remarks \in 0 .. MaxRemarks /\ hurried \subseteq {"insert", "update"}

\* Names stay unique.  The cap is passed only where creations overlapped; a
\* field shows something else than it was last given only where patches of a
\* customer overlapped; a comment is changed after its window by nobody but a
\* moderator, unless the window closed while the request was under way.
AnnotationsNeedOverlap ==
    /\ \A c, d \in DOMAIN customer : c # d => customer[c].name # customer[d].name
    /\ Cardinality(DOMAIN customer) > MaxCustomers => "insert" \in hurried
    /\ \A c \in DOMAIN customer : customer[c] # wished[c] => "update" \in hurried
    /\ \A h \in Clerks : clerk[h].at \in {"edit", "remove"} /\ note[clerk[h].id].old /\ ~clerk[h].late
                         => clerk[h].name \in Moderators
=============================================================================
