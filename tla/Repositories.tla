---------------------------- MODULE Repositories ----------------------------
(***************************************************************************)
(* The git repositories of a project, its SSH keys, and the components     *)
(* that are built from them.                                               *)
(*                                                                         *)
(* Source: crates/api/src/repositories.rs, and repositories.rs,            *)
(* ssh_keys.rs and component_repositories.rs of crates/db.                 *)
(*                                                                         *)
(* A handler counts or reads, then asks the remote host over SSH (a step   *)
(* that takes long and may fail), then writes with one statement that      *)
(* guards nothing.  A captured host fingerprint is modelled by the URL it  *)
(* was captured from.                                                      *)
(***************************************************************************)
EXTENDS Integers, FiniteSets

CONSTANTS
    Repos, Urls, SshKeys,
    Parts,          \* components of the project
    Operators,      \* handlers in flight
    Unset, Unpatched,   \* null, and a field that the patch leaves out
    MaxRepos,       \* MAX_REPOS_PER_PROJECT
    MaxSshKeys,     \* MAX_SSH_KEYS_PER_PROJECT
    MaxRepoOps      \* bound on the requests begun, for TLC

ASSUME RepositoriesAssumption ==
    /\ MaxRepos \in Nat /\ MaxSshKeys \in Nat /\ MaxRepoOps \in Nat
    /\ Unset \notin Urls \cup SshKeys \cup Repos /\ Unpatched \notin Urls \cup SshKeys /\ Unset # Unpatched

VARIABLES
    repo,       \* existing repository -> [url, key, print]
    vault,      \* SSH keys of the project
    built,      \* component_repositories: pairs <<component, repository>>
    operator,   \* handler -> its step
    repoOps,    \* requests begun so far
    fault       \* history: overlaps, inline keys and failed probes

repoVars == <<repo, vault, built, operator, repoOps, fault>>

Off == [at |-> "idle", op |-> "none", id |-> Unset, url |-> Unpatched, key |-> Unpatched,
        seenUrl |-> Unset, seenKey |-> Unset, late |-> FALSE]

RepoInit ==
    /\ repo = << >> /\ vault = {} /\ built = {}
    /\ operator = [h \in Operators |-> Off] /\ repoOps = 0 /\ fault = {}

-----------------------------------------------------------------------------
BeginRepo(h, rec) ==
    /\ operator[h].at = "idle" /\ repoOps < MaxRepoOps
    /\ repoOps' = repoOps + 1 /\ operator' = [operator EXCEPT ![h] = rec]

\* The handler ends; those of the kinds it overtook learn of it (history).
EndRepo(h, ops) ==
    operator' = [g \in Operators |-> IF g = h THEN Off
                   ELSE IF operator[g].op \in ops THEN [operator[g] EXCEPT !.late = TRUE] ELSE operator[g]]

\* Mutant: the cap is off by one.
RoomPlus(n, cap) == n <= cap

\* The caps, checked against a count read before the insert.
Room(n, cap) == n < cap

create_ssh_key(h, k) ==
    /\ k \notin vault /\ Room(Cardinality(vault), MaxSshKeys)
    /\ \A g \in Operators : operator[g].key # k
    /\ BeginRepo(h, [Off EXCEPT !.at = "key", !.op = "key", !.key = k])
    /\ UNCHANGED <<repo, vault, built, fault>>

\* create_key_inner: for its own endpoint, or inline for a repository, where
\* the cap is not looked at.
create_key_inner(h) ==
    LET o == operator[h] IN
    /\ o.at = "key"
    /\ vault' = vault \cup {o.key}
    /\ fault' = fault \cup (IF o.op = "create" THEN {"inline"} ELSE {}) \cup (IF o.late THEN {"keys"} ELSE {})
    /\ operator' = [g \in Operators |->
         IF g = h THEN IF o.op = "create" THEN [o EXCEPT !.at = "probe"] ELSE Off
         ELSE IF operator[g].op = "key" THEN [operator[g] EXCEPT !.late = TRUE] ELSE operator[g]]
    /\ UNCHANGED <<repo, built, repoOps>>

\* Mutant: repositories keep the key that is deleted.
DeleteKeyOnly(h, k) ==
    /\ operator[h].at = "idle" /\ repoOps < MaxRepoOps /\ k \in vault
    /\ vault' = vault \ {k} /\ repoOps' = repoOps + 1
    /\ UNCHANGED <<repo, built, operator, fault>>

\* Repositories and documentation sources that used the key are detached.
delete_ssh_key(h, k) ==
    /\ operator[h].at = "idle" /\ repoOps < MaxRepoOps /\ k \in vault
    /\ vault' = vault \ {k}
    /\ repo' = [r \in DOMAIN repo |-> IF repo[r].key = k THEN [repo[r] EXCEPT !.key = Unset] ELSE repo[r]]
    /\ repoOps' = repoOps + 1
    /\ UNCHANGED <<built, operator, fault>>

\* The key of a new repository: none, one of the vault, or a new one, which
\* is generated first.
resolve_key_for_repo(k) == IF k \in vault \cup {Unset} THEN "probe" ELSE "key"

\* create_repository counts, then resolves the key.
create_repository(h, r, u, k) ==
    /\ r \notin DOMAIN repo /\ \A g \in Operators : operator[g].id # r
    /\ Room(Cardinality(DOMAIN repo), MaxRepos)
    /\ k \notin vault \cup {Unset} => \A g \in Operators : operator[g].key # k
    /\ BeginRepo(h, [Off EXCEPT !.op = "create", !.id = r, !.url = u, !.key = k,
                                !.at = resolve_key_for_repo(k)])
    /\ UNCHANGED <<repo, vault, built, fault>>

\* update_repository reads the row; a key it assigns must be in the vault.
update_repository(h, r, u, k) ==
    /\ r \in DOMAIN repo /\ k \in vault \cup {Unset, Unpatched} /\ <<u, k>> # <<Unpatched, Unpatched>>
    /\ BeginRepo(h, [Off EXCEPT !.op = "update", !.at = "probe", !.id = r, !.url = u, !.key = k,
                                !.seenUrl = repo[r].url, !.seenKey = repo[r].key])
    /\ UNCHANGED <<repo, vault, built, fault>>

\* The URL and the key in effect: the patch's, or else those that were read.
EffUrl(o) == IF o.url = Unpatched THEN o.seenUrl ELSE o.url
EffKey(o) == IF o.key = Unpatched THEN o.seenKey ELSE o.key

\* remote_info_for_key: the key must still be there, the host must answer.
\* Without a key there is no probe, and an update clears the fingerprint.
Probed(o, answers) ==
    IF EffKey(o) = Unset THEN Unset
    ELSE IF answers /\ EffKey(o) \in vault THEN EffUrl(o)
    ELSE IF o.op = "create" THEN Unset ELSE Unpatched

remote_info_for_key(h, answers) ==
    LET o == operator[h] IN
    /\ o.at = "probe"
    /\ operator' = [operator EXCEPT ![h] = [o EXCEPT !.at = "write", !.seenUrl = Probed(o, answers)]]
    /\ fault' = IF Probed(o, answers) = Unpatched THEN fault \cup {"print"} ELSE fault
    /\ UNCHANGED <<repo, vault, built, repoOps>>

\* The URL is free, the key is there; otherwise 409 or 500.
Storable(o) ==
    /\ \A r \in DOMAIN repo \ {o.id} : repo[r].url # o.url
    /\ o.key \in vault \cup {Unset, Unpatched}

\* INSERT.  A refused one leaves the inline key behind.
insert_repository(h) ==
    LET o == operator[h] IN
    /\ o.at = "write" /\ o.op = "create"
    /\ repo' = IF Storable(o)
               THEN [r \in DOMAIN repo \cup {o.id} |->
                       IF r = o.id THEN [url |-> o.url, key |-> o.key, print |-> o.seenUrl] ELSE repo[r]]
               ELSE repo
    /\ fault' = IF o.late THEN fault \cup {"repos"} ELSE fault
    /\ EndRepo(h, {"create"})
    /\ UNCHANGED <<vault, built, repoOps>>

\* UPDATE of the fields the patch names, and of the fingerprint if probed.
write_repository(h) ==
    LET o == operator[h] IN
    /\ o.at = "write" /\ o.op = "update"
    /\ repo' = IF o.id \in DOMAIN repo /\ Storable(o)
               THEN [repo EXCEPT ![o.id] = [url |-> IF o.url = Unpatched THEN @.url ELSE o.url,
                                            key |-> IF o.key = Unpatched THEN @.key ELSE o.key,
                                            print |-> IF o.seenUrl = Unpatched THEN @.print ELSE o.seenUrl]]
               ELSE repo
    /\ fault' = IF o.late THEN fault \cup {"print"} ELSE fault
    /\ EndRepo(h, {"update"})
    /\ UNCHANGED <<vault, built, repoOps>>

delete_repository(h, r) ==
    /\ operator[h].at = "idle" /\ repoOps < MaxRepoOps /\ r \in DOMAIN repo
    /\ repo' = [q \in DOMAIN repo \ {r} |-> repo[q]]
    /\ built' = {p \in built : p[2] # r}
    /\ repoOps' = repoOps + 1
    /\ UNCHANGED <<vault, operator, fault>>

\* Linking checks both ends and asks the remote for the branch, best effort;
\* the foreign key decides in the end.
link_component_repository(h, c, r) ==
    /\ r \in DOMAIN repo /\ <<c, r>> \notin built
    /\ BeginRepo(h, [Off EXCEPT !.at = "link", !.op = "link", !.id = r, !.url = c])
    /\ UNCHANGED <<repo, vault, built, fault>>

\* The branch is there, or the remote could not be asked.
validate_branch(h) ==
    LET o == operator[h] IN
    /\ o.at = "link"
    /\ built' = IF o.id \in DOMAIN repo THEN built \cup {<<o.url, o.id>>} ELSE built
    /\ EndRepo(h, {})
    /\ UNCHANGED <<repo, vault, repoOps, fault>>

unlink_component_repository(h, c, r) ==
    /\ operator[h].at = "idle" /\ repoOps < MaxRepoOps /\ <<c, r>> \in built
    /\ built' = built \ {<<c, r>>} /\ repoOps' = repoOps + 1
    /\ UNCHANGED <<repo, vault, operator, fault>>

\* A statement fails or the process stops.
StopRepo(h) ==
    /\ operator[h].at # "idle" /\ EndRepo(h, {})
    /\ UNCHANGED <<repo, vault, built, repoOps, fault>>

RepoNext == \E h \in Operators :
    \/ \E k \in SshKeys : create_ssh_key(h, k) \/ delete_ssh_key(h, k)
    \/ create_key_inner(h)
    \/ \E r \in Repos, u \in Urls, k \in SshKeys \cup {Unset} : create_repository(h, r, u, k)
    \/ \E r \in Repos, u \in Urls \cup {Unpatched}, k \in SshKeys \cup {Unset, Unpatched} : update_repository(h, r, u, k)
    \/ \E answers \in BOOLEAN : remote_info_for_key(h, answers)
    \/ insert_repository(h) \/ write_repository(h)
    \/ \E r \in Repos : delete_repository(h, r)
    \/ \E c \in Parts, r \in Repos : link_component_repository(h, c, r) \/ unlink_component_repository(h, c, r)
    \/ validate_branch(h) \/ StopRepo(h)

RepoSpec == RepoInit /\ [][RepoNext]_repoVars

-----------------------------------------------------------------------------
(* Properties.                                                             *)

RepoTypeOK ==
    /\ DOMAIN repo \subseteq Repos /\ vault \subseteq SshKeys /\ built \subseteq Parts \X DOMAIN repo
    /\ \A r \in DOMAIN repo : repo[r] \in [url : Urls, key : vault \cup {Unset}, print : Urls \cup {Unset}]
    /\ \A h \in Operators : operator[h].at \in {"idle", "key", "probe", "write", "link"}
    /\ repoOps \in 0 .. MaxRepoOps /\ fault \subseteq {"inline", "keys", "repos", "print"}

\* The caps hold, and a fingerprint is of the repository's own URL, unless:
\* two creations overlapped, a key came inline with a repository, two updates
\* of one repository overlapped, or the host did not answer an update's probe.
RepositoryGuards ==
    /\ Cardinality(DOMAIN repo) > MaxRepos => "repos" \in fault
    /\ Cardinality(vault) > MaxSshKeys => fault \cap {"keys", "inline"} # {}
    /\ \A r \in DOMAIN repo : repo[r].print \notin {Unset, repo[r].url} => "print" \in fault
=============================================================================
