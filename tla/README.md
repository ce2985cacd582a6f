# IntelliPilot: verification project

IntelliPilot is a self-hosted project-management server: a Rust HTTP API (axum)
over PostgreSQL, with a web client and other API clients outside the repository.
This directory holds TLA+ models of its core logic, the TLC configurations that
check them and the TLAPS proofs of what matters most.

## How to run

    tlc -workers 2 -config RefreshSessions.cfg MCRefreshSessions
    tlapm RefreshSessionsProofs.tla

`PROJECT.json` lists every run with its module, configuration and expected
verdict, the source lines behind every definition ("map"), a mutated form that
each property must catch, the findings, the hazards and the theorems.

## The system and how it is modelled

A request is an async handler. It takes a database connection from a pool and
executes statements on it. Most handlers use no transaction: between two
statements any other handler may run, on this node or another, and a handler may
stop there (an error return, a dropped connection, a crash). PostgreSQL runs at
READ COMMITTED. So throughout, **one action is one statement together with the
computation up to the next await**, and a set of concurrent handlers interleaves
action by action. A transaction with row locks is modelled with its locks. Time
is a clock that advances by a separate action; where a property depends on how
long something takes, the bound is a named constant with an assumption.

### Inventory

| Part | State | Operations | What is hard | Module |
|---|---|---|---|---|
| Refresh sessions (`api/auth/handlers.rs`, `db/sessions.rs`) | families, tokens | refresh with rotation, logout, sign-in, revocations | two tabs with one cookie, failure between spending and inserting, bans in flight | `RefreshSessions` |
| Cookie jar (browser, external) | the cookie | send, receive | out-of-order answers, the grace window | `BrowserTabs` |
| Superadmin guard (`db/users.rs`, `oidc/resolve.rs`) | account flags, row locks | demote, deactivate, ban, delete, sync, bootstrap | write skew, unguarded writers | `SuperadminGuard` |
| Presence (`api/presence.rs`, `auth/extractor.rs`) | per-node status cache | check, store, sweep, invalidate | a stale status stored late, outages, several nodes | `Presence` |
| Sign-in and credentials (`auth/handlers.rs`, `mfa.rs`, `passkeys.rs`, `me.rs`) | password, TOTP, passkeys, codes, reset tokens, ceremonies | login, verify, enrol, change, reset, wipe | checked values used after they changed, one-time credentials, ignored errors | `SignIn` |
| Issue delta sync (`api/backlog.rs`, `db/backlog.rs`, `boards.rs`) | issues with stamps and relations; the client's copy and cursor | board load, delta poll, every stamping write | stamps earlier than visibility, stamps that go back, paging with an overlap | `IssueSync` |
| The backlog's tree (`api/backlog.rs`, `milestones.rs`, `issues_io.rs`, triggers of V019) | issues under parents and epics, epics in milestones | create, update, delete, purge, import, assign | cycles by overlap, a trigger that reads an epic about to move | `Hierarchy` |
| Creation of issues (`api/backlog.rs`, `issues_io.rs`, `db/idempotency.rs`) | refs, idempotency keys, half-made rows | create, bulk create, import, retry | duplicates, failure after the insert | `IssueCreation` |
| Ordered catalogues (`core/ordering.rs`, `taxonomy.rs`) | ranks, the default status | create, update, move, delete | rank exhaustion, a renormalisation over a stale list | `Taxonomy` |
| Releases and versions (`releases.rs`, triggers of V022) | versions, component links, fix versions, their mirror | create, delete, link, patch of an issue | a mirror written by trigger and by handler | `Releases` |
| Milestone dates (`milestones.rs`, CHECKs of V021, V029) | five dates, completion | create, update, complete, reopen | a rule stated in two places | `MilestoneDates` |
| Time tracking (`time_tracking.rs`) | entries, bookings, period locks, allowances | log, move, delete, book, lock, reports | locks against writes under way, reports that must agree | `TimeTracking` |
| Attachments and storage (`attachments.rs`, `storage/local.rs`) | rows, shared contents on disk, staging files | upload, download, delete, collect, purge | disk and rows written apart, contents shared | `Files` |
| Pictures (`avatar.rs`, `epic_cover.rs`, `project_icon.rs`) | one object and one row per owner | upload, replace, delete, serve | failure between object and row | `Pictures` |
| Meetings (`meetings.rs`) | text, times, links, files | create, patch, toggle, upload, import, delete | an upload overtaken by a deletion, If-Match against imports | `Meetings` (with `Files`) |
| Projects, members, roles (`projects.rs`, `core/perms.rs`) | visibility, roles, members, invitations | add, join, change, remove, invite, accept | the last administrator | `Membership` |
| Short links (`projects.rs`, `boards.rs`) | prefixes, board keys, their history | create, rename, resolve, prune | names taken over and taken back | `ShortLinks` |
| OpenID Connect and registration (`oidc/`, `auth/handlers.rs`) | requests, device codes, invitations, identities | start, callback, poll, link, unlink, register, logout | one-time use, the last way in, provisioning half done | `Oidc`, implements `OneTimeTicket` |
| Documentation and git (`docs.rs`, `git/docs.rs`) | source row, claim, lock, clone, remote | register, sync, edit, push, time out, restart | a late git task, a refused push in the clone | `Docs` |
| Repositories and keys (`repositories.rs`) | keys, repositories, fingerprints, component links | create, update, probe, delete, link | caps, a fingerprint of another URL | `Repositories` |
| Bearer tokens (`me_token.rs`, `app_tokens.rs`, `auth/extractor.rs`) | personal and application tokens | create, reset, disable, scope, revoke, authenticate | authority that changed after the lookup | `Tokens` |
| Wiki (`wiki.rs`) | pages, revisions | create, save, restore, delete | saves without a version check | `Wiki` |
| Customers, links, watchers, comments | rows of a project and its issues | create, patch, delete, edit within 24 hours | merges over a stale row, caps | `Annotations` |
| Live event feed (`api/events.rs`) | a channel per project, its receivers | subscribe, publish, send, receive, lag | events that overtake each other, a channel dropped under a send | `EventStream` |
| Geolocation (`api/geoip.rs`, `db/geoip.rs`, `main.rs`) | switch, file, row, advisory lock, reader in memory | switch, update, refresh, look up, purge, restart | updates that cross, a lock left with a connection, a stale switch | `GeoLookup` |
| Request budgets and login delay (`middleware/rate_limit.rs`, `auth/mod.rs`, `db/login_attempts.rs`) | buckets, recorded failures | count, refuse, sleep, record | window edges, logins that share one count | `Throttle` |
| Read models, labels, notifications, HTTP shell, crypto | | | | not modelled; reasons below and in `PROJECT.json` |

No two of the modules from `Hierarchy` on share a table in a way one of their
properties could see, except `Meetings`, which extends `Files`; the account
modules meet in the status of an account, which each of them changes at will.

## The modules

**RefreshSessions.** Rows of `refresh_token_families` and `refresh_tokens` are
functions from ids (`famUser`, `famState`, `tokFam`, `tokParent`, `tokUsed`,
`tokExpires`); a handler is its next statement (`pc`) and its locals (`rTok`,
`rFam`, `rUser`, `rWhy`). `RefreshLookup` to `RefreshInsert` are the statements of
`refresh`, with its early returns in `RefreshVerdict`; `LogoutLookup` and
`LogoutRevoke` those of `logout`; `CreateFamily` and `InsertFirstToken` those of
`establish_session`; `BanUser`, `EraseUser`, `SignOutEverywhere` followed by
`RevokeAll` the account operations. `DbError` fails any statement, before its
effect, and best-effort statements swallow the failure as the code does.

**BrowserTabs** composes sign-in and refresh with a browser: several tabs, one
jar. The browser is external; it is what the `Set-Cookie` headers do to it.
Assumption: two exchanges fit in `REFRESH_REUSE_GRACE_SECS`
(`2 * Latency <= Grace`) and answers are not lost.

**SuperadminGuard.** `LockTarget`, `CountOthers`, `WriteAndCommit` are the three
statements the four guarded transactions of `users.rs` share; `Decide` holds
their early returns. `update_user` is a work list of two transactions. `OidcSync`
is `sync_superadmin`; `LdapLogin`, `DeleteMe` and `Bootstrap` are the writers
without the guard.

**Presence.** `CheckCached`, `TouchLastSeen`, `Store` are the steps of
`Presence::check`, on a node each; `TouchFails` is the query that fails and lets
the request through. `BanUser` and `UnbanUser` write the row and then
`Invalidate` the cache of their own node; `Deactivate` and `DeleteUser` do not,
as in the code. `Restart` empties a node's cache.

**SignIn.** One account (every table is keyed by it) and all ways into it.
`LoginFind` to `FactorCheck` are the statements of `login`, in order, with the
ignored errors as `CheckFails`; the challenge (`VerifyTotp`, `ListCodes`,
`MarkCode`), the passkey ceremonies, `totp_start`, `totp_confirm`,
`totp_disable`, the recovery codes, password change and reset, the
administrator's factor reset and ban. New recovery codes replace the old in two
steps (`DeleteCodes` deletes what it finds, `ReplaceCodes` commits), so that two
overlapping regenerations leave both sets. History variables record what held during
a login (`seen`), which requests a sweep overtook (`overtaken`), how often a
one-time credential worked (`doors`) and whether the stored secret was shown to
work (`proof`).

**IssueSync.** `state`, `version`, `fields`, `mod`, `rels` are the issues of a
project and their relations; content is a counter that grows with every change.
A write takes its stamp when its statement starts (`Start`) and takes effect
later (`Commit`), on the rows that still match (`Matched`: version guard,
`deleted_at IS NULL`); its relations follow in transactions of their own, one or
several (`WriteRelations`); a purge counts as a write. `Restamp` is every other UPDATE of issue rows: a move, a
renormalisation, an epic's milestone cascade. The client's poll is four
statements: `db_now`, `DeltaRows`, `Hydrate`, `Tombstones`; the board load is
three, and shows any selection of the live issues (`BoardRows`: columns, filters and
limits decide; an issue left out is `NotShown` until a delta brings it). The client is external: it applies a page, then its tombstones, one poll
at a time. Not in this model: watchers and deletions of labels or customers,
which change a delivered issue without stamping it (a listed hazard).

**Hierarchy.** A handler checks (`validate_issue_associations`,
`parent_chain_contains`, `validate_epic_milestone_assignment`) and then writes. Two of
its lookups fail open: a walk whose query failed counts as "no cycle"
(`api/src/backlog.rs:1577`), a closed-milestone lookup as "open" (`:1071`). A
statement on an issue takes two steps, since its BEFORE trigger
(`issue_milestone_from_epic`) reads the epic before the row is visible to
others; a statement on an epic cascades (`epic_milestone_cascade`) to the issues
it sees and waits for those that are locked. `import_commit` is the second pass
of an import, which sets parents without a walk.

**IssueCreation.** `create_keyed`, `bulk_create_issues` and `import_rows` start;
`alloc_ref`, `insert_issue`, `set_relations`, `remember` are the statements they
share, any of which may be the last (`fail_make`).

**Taxonomy.** A rank is a whole number of the smallest steps an `f64` can tell
apart at that magnitude, `Gap` of them between normalised neighbours, so that
midpoints run out. `move_item` reads the list, `set_order` writes one rank or
renormalises the list that was read.

**Releases, MilestoneDates.** One issue with two components and its fix versions;
one milestone and its five dates. The triggers and CHECKs of the migrations are
operators of their own (`issue_mirror_release_version`, `TableAccepts`), so that
what the handlers expect can be compared with what the table does.

**TimeTracking.** Members' handlers look at the entry and the lock first
(`log_my_time`, `update_my_entry`, `delete_my_entry`) and write later
(`WriteMine`); ids are UUIDs, so that an id is given out once (`issued`) and an
entry that was deleted does not come back under a handler that read it; managers'
handlers are one step. Every report of the module is an operator over the entries.

**Files, Pictures, Meetings.** An upload is received, adopted (moved to its
content's name) and recorded; `gc_rows`, `gc_orphans`, `delete_object` are the
collector's, `purge_issues` the purge's steps; `Stop` is a restart, which sweeps
the staging area. `Meetings` extends `Files` with the meeting that files hang on:
PATCH under If-Match, toggled links, imports that store a file and then the text. A picture is put under its owner's name in place
(`storage/src/local.rs:67`): a put that fails leaves the object `Torn` under the old row
(`PutFails`).

**Membership, ShortLinks.** `ProjectContext` and `require` are the permission
check; the guard of the last administrator (`GuardAdmin`) is a count before the
write. Where a handler's lookup of the membership fails, it reads "not a member": the
change and the removal then skip the guard, and `add_member` goes on to an upsert that
replaces the role of whoever is there (`Upsert` with `blind`). A role that is deleted and made again under its slug is one element. In
`ShortLinks` projects and boards follow one protocol: see that the name is free,
write under the unique constraint, then record the old name.

**Oidc, OneTimeTicket.** A door is a request at work: a callback, a device poll,
an unlink, a registration. `take_auth_request`, `consume_device_request` and
`mark_accepted_platform` redeem; the identity provider answers as it likes.
`OneTimeTicket` is what the flows promise (a ticket is redeemed once, never after
it was withdrawn, and acts on one account); the refinement mapping reads
`ticket[t].st` and the history variable `granted`.

**Docs.** The remote is a sequence of texts, the clone another; a fetch copies, an
edit appends to the clone, `push` is a fast forward or is refused, `rollback` may
fail. `times_out` leaves the task running while the handler gives the lock up;
`restart` releases claims. Initially there is no source, or (so that two saves fit
in the bound) one that is synchronised. `stray` records that a late task, a refused
commit or a deleted source is about.

**Repositories, Tokens, Wiki, Annotations.** Read, merge, write, with the caps and
unique constraints. Each keeps a history variable of what was last given or which
requests overlapped, to say exactly when a guard may be passed.

**EventStream.** The row is the number of writes to it. `write_row`, `get_issue`,
`publish`, `send` are the steps of a handler that changes something and tells;
`send` runs after the lock of the map is released. `write_quietly` is a writer that
never tells (`move_epic`, a renormalisation of ranks, the milestone cascade of an epic, a
purge), `write_unheard` a handler that fails or is dropped between its commit and its
event (`move_issue` answers 204 when its re-read fails); `silent` collects these writes. A reader starts with a delta,
applies an entity as it comes and looks up what comes by id; `recv_lagged` sends
it back to the delta. The module says "Correctness must never depend on this stream",
and no other module does.

**GeoLookup.** A job is a request or the refresher, and holds a pooled connection
while it updates. `lock_download` to `set_installed` are the steps of an update in
their order: the lock is released before the row is written. `abandon` drops a job
where it stands, `init_geoip` is a restart: its reads of the settings and of the row may
fail, which leaves the switch off (cause `"start"`) or no reader loaded (`"unread"`).

**Throttle.** `check` and `layer` are the fixed-window budget; a login is
`login_sleeps` (the count and the delay of `lockout_delay`) and, after its sleep,
`login_fails` or `login_ends`. Budget and delay share only the clock and run as
two scenes.

## What the runs show

| Run | Bounds | Shows |
|---|---|---|
| `sessions` | 1 account, 1 family, 3 tokens, 2 handlers, clock to 2, grace 1, expiry 2, failures | the token chain never forks (`RotationIsLinear`); a swept ban is not outlived (`BanHolds`); a revocation stands (`RevocationIsFinal`); reuse is declared only for a token spent beyond the grace window (`ReuseIsLate`) |
| `browser_tabs` | 3 tabs, 4 tokens, latency 1, grace 2, expiry 2, clock to 3 | racing tabs never get the session revoked, nor lose a cookie before its token expires (`RaceNeverSignsOut`); at rest the jar holds the current token (`QuietJarIsCurrent`); a jar with a spent token gets its successor (`JarRecovers`) |
| `superadmin_guard` | 2 accounts, 2 requests, unguarded writers on | the decision is about the row as it still is (`DecisionIsFresh`); a lock-out needs overlapping transactions or an unguarded writer (`LockoutNeedsOverlap`); every request is answered (`RequestsFinish`) |
| `superadmin_concurrent` | the same, guarded writers only | **violation**: two overlapping requests remove the last two superadmins |
| `presence` | 2 accounts, 1 node, cache of 1, outages, restarts | a cached "ok" misses a block by one query at most (`CacheIsHonest`); a blocked account gets through for less than TTL plus one query (`BlockLag`) |
| `presence_ban_race` | 1 account, TTL 2 | **violation**: a status read before a ban is stored after `invalidate` and admits later requests |
| `sign_in` | 2 handlers, 1 passkey, 2 credential ids, 1 password change, failing queries | one-time credentials work once (`WorksOnce`); a login without a challenge was entitled to it (`LoginWasEntitled`); a session of an old password, or a confirmed secret nobody proved, needs an overlap (`OldPasswordNeedsOverlap`, `UnprovenFactorNeedsOverlap`) |
| `issue_sync` | 2 issues, 2 handlers, 2 writes (relations and purges included), any board selection, page of 1, overlap 3, lag 1, clock to 4 | the cursor never passes a live issue with a stale copy, unless its board left it out (`LiveDelivered`) nor a deleted one, unless its tombstone did not fit (`TombstoneDelivered`) |
| `issue_sync_paging` | 3 issues, page of 2 | **violation**: a full page stamped within the overlap returns its own cursor, and the scan repeats for ever (`ScanAdvances`) |
| `project_work` | 2 issues, 1 epic, 1 milestone; 2 entries in 2 months; 3 items with gap 2; 1 key, batches of 2; 2 components, 2 versions; 2 days; 2 handlers (1 planner); 2 streams, channel capacity 1; 3 or 4 requests | a cycle no longer than the walk needs an overlap, a failed walk or an import (`CycleNeedsCause`), a milestone that is not the epic's an overlap (`DriftNeedsOverlap`); nobody but a manager changes a locked month (`LockedMonthIsSealed`); the reports agree, and a reader whose queue is empty has heard of every write but the latest that nobody published, and shows what it heard unless a write came between another and its event (`ViewsAgree`); a retry makes one issue unless the first was running or failed (`RetryMakesOne`); a move nothing overlaps lands between its neighbours (`QuietMoveLands`); the mirror is the first fix version unless a patch wrote it (`MirrorNeedsCause`); the table refuses what the handlers accept in one case only (`RefusalIsExplained`) |
| `access_and_content` | 2 handlers; 2 files of 2 contents; 2 people, 2 roles; 2 projects and boards with 3 names; 2 accounts, subjects and tickets; 2 texts, 3 commits; caps of 1; 2 geolocation jobs, connections and variants (failing starts count as operations); windows of 4 s with budgets of 1 and 2, 5 requests, 3 logins, clock to 6; 3 to 5 requests | an attachment row has its object unless a reclaim crossed an upload of the same content, and a deleted meeting takes its files along, but for uploads it overtook (`DiskMatchesRows`); the last administrator, pictures and the geolocation database as their rows say, caps, fingerprints, authority, wiki and customer fields, the geolocation switch and the login delay are lost only to named overlaps or failures (failed lookups, torn puts and failed starts among them), and no address gets more than twice its budget in a window's length (`GuardsNeedOverlap`); an old link leads to the last holder of its name (`OldLinkLeadsHome`); an account keeps a way in (`LockoutNeedsCause`); a save answered as pushed is on the remote (`SavedIsOnRemote`); a PATCH replaces what it read (`PatchReplacesWhatItRead`); the sign-in tickets implement `OneTimeTicket` (`TicketsWorkOnce`) |
| `docs_lock` | one source, 2 handlers | **violation**: after a timeout a fetch runs beside a push that is still at work |

The last two passing runs check several components each. These share no state,
so that interleaving them adds no behaviour of any one of them: a variable
`scene`, chosen initially, names the component that runs, and the others stay in
one of their initial states (`Parked`).

Why the bounds are enough: every hazard listed involves two actors and at most
three rows, and the bounds let two handlers meet at every pair of statements
with time passing on either side of each limit (grace, expiry, TTL, overlap).
Ids are interchangeable, so sets of them are symmetric where no liveness is
checked. `IssueSync.cfg` has a VIEW that leaves out `more`, which no action and none
of its properties reads. Page limits, the cache size and the caps of 1 make "full" reachable, a
gap of 2 makes ranks run out at the second move, and a walk of `Depth` 2 is as
long as the longest chain of two issues. `MilestoneDates` has one planner, as
its overlap is with completion, which is an action of its own. What the
bounds leave open the proofs close for the components they treat. In
`browser_tabs` tokens expire within the run, so that a cookie is cleared for that
reason and no other.
`CHECK_DEADLOCK FALSE` is used where the bounded supply of ids or time runs out,
and in `superadmin_guard`, where nobody may be left to send a request.

Fairness: `browser_tabs` assumes weak fairness of each tab's exchange (a handler
that is running goes on, and its answer arrives), `superadmin_guard` of each
request's next statement (PostgreSQL grants a free row lock). No fairness is
assumed of users: nothing forces a tab to refresh or an admin to act.

## What is proved

TLAPS, for every value of the constants that satisfies the modules' assumptions:

- **RefreshSessionsProofs**: `TypeOK`, `RotationIsLinear`, `BanHolds`,
  `RevocationIsFinal`, `ReuseIsLate`. The invariant `SessionInv` adds what makes
  them inductive: the tables' foreign keys (`RowsOK`), what a handler has looked
  up stays (`HandlersOK`), a handler about to insert owns its family's turn
  (`InsertersOK`: this is what `mark_used`'s compare-and-set buys), a refresh past
  the gate at a sweep works on a revoked family (`SweptOK`), and the verdict
  "reuse" stays true while it is carried out (`LateOK`).
- **SuperadminGuardProofs**: `TypeOK`, `DecisionIsFresh` (from `LocksOK`: a
  transaction past its first statement holds its row), and `LockoutNeedsOverlap`
  (from `GuardInv`: without overlap the count is still true at the write).
- **PresenceProofs**: `TypeOK`, `CacheIsHonest`, `BlockLag` (from `CacheInv`: an
  "ok" not yet stored was read no later than the block it misses).
- **IssueSyncProofs**: `TypeOK`, `LiveDelivered`, `TombstoneDelivered`. The
  invariant `SyncInv` adds `StampsNear` (a reorder that waited for a row lock may
  turn a stamp back by `Lag` while an update's relations are still to come) and
  `PollSound` (what the next delta will not repeat is current on the page or in
  the client's copy already). The assumption `2 * Lag < Overlap` is what the five
  seconds of `DELTA_OVERLAP_SECS` must buy: twice the longest time from a
  statement's start to its handler's last write.

- **RefreshSessionsProofs** goes on to `BrowserTabs`: `RaceNeverSignsOut`,
  `QuietJarIsCurrent`. `TabInv` adds to `SessionInv` that a token handed out is known
  to nobody else until its answer arrives (`HeldOK`), that a spent token in the jar
  has its successor on the way (`JarOK`), and that a refresh presents a token spent
  at most `Latency` before it was sent (`RecentOK`). From these and
  `2 * Latency <= Grace` every late presentation is still within the grace window;
  with a longer latency the theorem is false.
- **SignInProofs**: `TypeOK`, `WorksOnce`, `LoginWasEntitled`,
  `OldPasswordNeedsOverlap`, `UnprovenFactorNeedsOverlap`, each from an invariant of
  its own. `CredentialsOK`: a credential that is still stored, or not issued yet, has
  opened no door, and no id is stored twice. `LoginsOK`: at each statement of `login`, which
  facts the request must have seen by then. `PasswordsOK`: a login past its check
  holds the current password, or was overtaken, or the sweep is due. `ConfirmOK`: a
  `totp_confirm` between its statements was shown a code of the secret stored now,
  or another request changed the secret meanwhile.
- **AccessProofs**:
  - the refinement `TicketsWorkOnce`, and `LockoutNeedsCause`. Initial states map to
    initial states and every step of `Oidc` to a step of `OneTimeTicket` or a stutter;
    the steps need `DoorsOK`: a door past its redemption is the only one with its
    ticket, which is taken and has not acted yet. `LockoutNeedsCause` needs `WaysInOK`:
    an unlink past its count still has another identity to leave, unless another unlink
    crossed it.
  - `AdminLostNeedsCause` from `ChecksHold`: while the administrators are those a
    handler saw and its lookups answered, its write leaves one.
  - `AuthorityNeedsOverlap` (tokens) from `ClientOK`: who acts on a token has shown its
    secret, and is entitled to act unless a change overtook the request.
  - `CallersAreSlowed` from `BudgetOK`, which knows what the current and the last
    window of a bucket have let through (so that a request and the one two budgets
    before it are a window apart), and `SleepOK`, which failures a sleeping login has
    counted.
  - `GeoFileMatches` and `GeoSwitchHolds` from `JobOK` and `DownloadLockOK`, which follow
    a download from its lock to its row, and name the starts that could not read;
    `RepositoryGuards` from `CreatorOK`: the room a
    creation saw is there until another comes first.
- **ProjectWorkProofs**:
  - `LockedMonthIsSealed` (an action property) from `RequestsOK`: what a member's
    handler saw before its checks is still the entry it writes, by its version, or
    the request is marked late.
  - `ReportsAgree`. The reports fold minutes over sets of rows. A fold over a finite set
    is a table over its subsets, filled by their size; by the least-number principle on
    those sizes the order of the elements does not matter, and the sum over two
    disjoint sets is the sum of theirs. Ids handed out are finitely many
    (`FewIssued`), so this holds of the rows; what is left of each report is which rows
    it reads.
  - `CycleNeedsCause` from `LoopInv`: the live parents have no loop within the walk, or
    `"cycle"` is in `raced`, and a handler about to write a parent still has it right
    (`WriterOK`: no chain leads from it to the issue), or was overtaken, or its walk failed.
    The recursive climb is turned into chains of live issues (`Ascends`: each under the
    next); a new edge closes a loop only if a chain led from the new parent to the
    child over old edges, which is what `parent_chain_contains` looked for.
  - `DriftNeedsOverlap` from `DriftOK` and `OrphanOK`: which handler between the
    trigger's read and its commit may still write another milestone than the epic's.
  - `RetryMakesOne` from `RefsOK` (a ref has one owner, a row or a handler) and
    `KeyOK` (an unexcused key has one request before its INSERT, one row after).
  - `RefusalIsExplained` from `PlansOK`: the checks of a handler hold for the row its
    UPDATE finds, by the version.
  - `MirrorNeedsCause`: the triggers move the mirror to a minimum of a set of
    versions; that the minimum exists comes from the least-number principle
    (well-foundedness of `<` on the naturals), since `Vers` is finite but arbitrary.
  - `QuietMoveLands` (an action property). The invariant keeps every list free of
    repetitions and every rank within a span that grows by one `Gap` per request that
    ended. A rank between two others is their midpoint where there is one; where there
    is none, the list is written anew in the order `Target` gives it, whose positions
    are those of the list without the item, shifted from the insertion on.
  - `StreamKeepsUp`: what a stream was told, what waits in its queue, what it is to look
    up and what publishers still have to send account for every write that is not silent.
  - The run's invariants `WorkTypeOK` and `ViewsAgree`, and all of the above, of the
    composition (`WorkRunsApart`: each component of `MCProjectWork` behaves as its own
    specification says, whatever the scene).
- **AccessAndContentProofs**:
  - `OldLinkLeadsHome` from `KeyOK`: a name leads to its last holder, or the rename
    that is still to record it is under way.
  - `DiskMatchesRows`, which joins `RowHasObject` and `FilesDieWithMeeting`. The first
    comes from `UploadOK` and `ReclaimOK`: an object about to be removed is
    used by no row, and an upload past its adoption has its object, unless the
    history (`shared`) says that they crossed. The invariant covers an upload that
    is adopted while the same content is being reclaimed.
    The second comes from `LateOK`: uploads to a deleted meeting are those the
    deletion overtook.
  - `PatchReplacesWhatItRead` (an action property) from `ReqOK`: a version of the
    meeting has one text and one pair of times, and its links only shrink without a
    new version when a topic is purged.
  - `SavedIsOnRemote` from `LockOK` and `CloneOK`: the lock's holder alone works on the
    clone, which is a prefix of the remote's history or, between commit and push, such
    a prefix with the holder's commit. Lemmas on prefixes of histories (`IsPrefix` of an
    appended or longer sequence) carry an acknowledged commit along.
  - `PictureMatches` from `OwnerOK`: the one request that changes a picture may be ahead
    of its row by its own image; a torn put is among the causes (`smeared`). `WikiKeepsHistory`: a page shows what its last saves
    gave it. `AnnotationsNeedOverlap` from `ClerkOK`: what a handler found and
    still holds when it writes.
  - The run's invariants `AccessTypeOK` and `GuardsNeedOverlap`, and the invariants of
    the components, of the composition (`ComponentsRunAlone`).

TLC checked each inductive invariant before it was proved. The assumptions on
constants are the modules' own: markers such as `Nil` are no ids, bounds are
numbers, and further only `2 * Latency <= Grace`, `2 * Lag < Overlap`,
`CheckTTL <= SweepAfter`, finite sets of issues, versions, uploaders, people and items
of a catalogue (all are rows of a table), a working time target in the settings
(`Targets # {}`), a rank gap, a rate window and a channel capacity of at least one, and
room for one commit (`MaxCommits > 0`). The bounds on requests are arbitrary.

With this every invariant and every safety property of a step that a passing run
checks is a theorem. Only model-checked is liveness (`JarRecovers`,
`RequestsFinish`): the prover has no fairness and no ENABLED. The four violations are
TLC's counterexamples. Induction over data is not available to the prover as a rule,
since its induction theorems take an operator; where it was needed (chains of parents,
sums, minima, positions in a list), the proof takes a smallest counterexample from a
set of numbers that is spelled out.

No module has a RECURSIVE operator.

## Findings

1. **Last superadmin** (`superadmin_concurrent`). The guard locks only its target
   and counts the others; two overlapping requests both pass.
2. **Ban and presence** (`presence_ban_race`). A check in flight restores the
   status the ban just dropped.
3. **Delta paging** (`issue_sync_paging`). A page whose rows are stamped within
   five seconds of each other answers with the cursor it was asked with.
4. **Docs lock** (`docs_lock`). A git task that times out gives the per-source lock
   back while its thread goes on; the next fetch crosses its push.

Further disagreements that the models contain, and that the properties above name
as the exceptions they allow:

- An issue moved under an epic while the epic moves to another milestone keeps the
  old milestone (`DriftNeedsOverlap`); two overlapping re-parentings, a walk whose query
  failed, or an import, make a cycle (`CycleNeedsCause`).
- A sole administrator who accepts an invitation to a lesser role is demoted by
  the upsert of `accept_invitation`, and one whose membership lookup fails in
  `add_member` by that of the handler (`GuardsNeedOverlap`).
- `move_epic`, renormalisations, the cascade of an epic's milestone and the purge write
  rows and publish nothing; `move_issue` answers 204 without an event when its re-read
  fails (`ViewsAgree`).
- `business_release_ok` "mirrors the table CHECK, so the user gets a 422 rather than
  a 500" (`api/src/milestones.rs:186`), but a PATCH that names a business release
  and clears the last technical end passes it and fails on the CHECK. Create takes
  an actual end before the start; update does not.
- An issue whose `release_version_id` was written back from a stale read differs
  from its first fix version until the next change (`MirrorNeedsCause`).
- A key created inline with a repository is not counted against the cap and stays
  when the repository is refused.
- `bulk_create_issues` calls its batch "all-or-nothing" (`api/src/backlog.rs:903`) and
  creates item by item; `create_issue` checks component versions after its insert.
- `edit_blocking` says "Committed with no ref update" (`git/src/docs.rs:550`) and moves
  the branch before the push.
- Deleting a source forgets its lock while a request may hold it.
- V004 says "FK cascade keeps the scope consistent when a project is deleted", but
  projects are only ever marked deleted: their ids stay in the scopes of
  application tokens, and may be put there.
- Two unlinks at a time, or a provisioning that stops half way, leave an account
  without a way in (`LockoutNeedsCause`).
- `try_lock_download` says its lock is "released by [`unlock_download`] or when the
  connection returns to the pool and is recycled" (`db/src/geoip.rs:154`), but the
  pool recycles with `RecyclingMethod::Fast` (`db/src/lib.rs:121`): a dropped update leaves the lock with the connection, and
  other connections are refused until the process ends or that one unlocks
  (`GeoSwitchHolds`).
- An update records its file after it gave the lock back: a row may name a file
  that a second update removed (`GeoFileMatches`). A refresher that read the switch
  before an administrator turned it off turns the copy in memory on again.
- `login_attempts::prune` has no caller; the buckets of the rate limit are never
  removed; a stream may deliver one more ready event after its token's deadline.
- `clear_is_new` runs before a create or update that may fail, leaving a project
  without a default status.

## Not modelled

- Notifications and mail: the delivery is a log line or an external call, and no
  modelled state depends on it.
- Read models, exports, previews and the listing of documents: queries only.
- Crypto, key generation, image decoding, Markdown, CSV and the protocols of LDAP,
  OpenID Connect and git: external, with every verdict possible.
- Edits of a single descriptive field (names, colours, labels, a key's name, a
  branch): no rule beyond the statement itself.
- A TOTP code presented twice within its window, a passkey removed during its
  ceremony (both possible, and nothing in the code promises otherwise), the partial
  state of `reset_two_factor`, and what a purge means to the clients of delta sync.

## Plan

The models, runs and theorems of the plan are in place. What could follow: a model of
watchers and deleted labels in `IssueSync` (the hazard that no property covers), a lost
answer in `BrowserTabs`, and a proof of the two liveness properties once the prover has
fairness.
