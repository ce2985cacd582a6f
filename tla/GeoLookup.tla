----------------------------- MODULE GeoLookup -----------------------------
(***************************************************************************)
(* The geolocation database: a file on disk, the reader in memory, the row *)
(* that names the file, and the switch that lets logins be located.        *)
(*                                                                         *)
(* Source: geoip.rs of crates/api and crates/db, the geolocation handlers  *)
(* of admin/handlers.rs, the start-up and the refresher of main.rs.        *)
(*                                                                         *)
(* An update holds an advisory lock of its database session while it       *)
(* downloads and installs, and records the outcome after giving it back.   *)
(* The lock stays with the connection when a request is dropped: the pool  *)
(* hands connections on as they are.  A build is a variant and a month;    *)
(* private addresses, for which lookup answers nothing, are left out.      *)
(***************************************************************************)
EXTENDS Integers, FiniteSets

CONSTANTS
    Variants, Jobs, Conns, Families,
    NoBuild, NoConn,
    MaxGeoOps       \* bound on the requests begun and the starts that fail, for TLC

\* Of this month, 1, and of the month before.
Builds == Variants \X {0, 1}

ASSUME GeoAssumption == MaxGeoOps \in Nat /\ NoConn \notin Conns /\ NoBuild \notin Builds

VARIABLES
    setting,    \* platform_settings: [on, variant, auto]
    enabled,    \* the copy of the switch in memory
    reader,     \* the build in memory
    disk,       \* the builds under the storage directory
    recorded,   \* the build that the row names
    lock,       \* the advisory lock: [by, n], the connection and how often it took it
    job,        \* request or refresh -> its step
    located,    \* sessions that carry a location
    geoOps,     \* requests begun and starts failed so far
    erased,     \* history: purged while the switch was off, and off since
    causes      \* history: what may part row, disk and memory

geoVars == <<setting, enabled, reader, disk, recorded, lock, job, located, geoOps, erased, causes>>

Quiet == [at |-> "idle", force |-> FALSE, conn |-> NoConn, on |-> FALSE, auto |-> FALSE, variant |-> NoBuild,
          have |-> NoBuild, build |-> NoBuild, fam |-> NoBuild, late |-> FALSE]

\* The service as it starts: switched off and with no database yet, or with
\* the one of last month.
GeoInit ==
    /\ setting \in [on : BOOLEAN, variant : Variants, auto : {TRUE}] /\ enabled = setting.on
    /\ recorded = IF setting.on THEN <<setting.variant, 0>> ELSE NoBuild
    /\ reader = recorded /\ disk = {recorded} \ {NoBuild}
    /\ lock = [by |-> NoConn, n |-> 0] /\ job = [t \in Jobs |-> Quiet]
    /\ located = {} /\ geoOps = 0 /\ erased = FALSE /\ causes = {}

\* pool.get(): a connection that no other job uses.
Pooled(c) == c \notin {job[t].conn : t \in Jobs}

Begin(t, rec) ==
    /\ job[t].at = "idle" /\ geoOps < MaxGeoOps
    /\ job' = [job EXCEPT ![t] = rec] /\ geoOps' = geoOps + 1

-----------------------------------------------------------------------------
\* PATCH of the settings, what is left out kept; who has read them and not
\* yet copied the switch is late.
update_geoip(t, s) ==
    /\ job[t].at = "idle" /\ geoOps < MaxGeoOps
    /\ setting' = s
    /\ job' = [u \in Jobs |-> IF u = t THEN [Quiet EXCEPT !.at = "mirror", !.on = s.on]
                               ELSE [job[u] EXCEPT !.late = @ \/ job[u].at = "mirror"]]
    /\ geoOps' = geoOps + 1 /\ erased' = (erased /\ ~s.on)
    /\ UNCHANGED <<enabled, reader, disk, recorded, lock, located, causes>>

\* geoip_refresh_once, one at a time, and update_geoip_database read the
\* settings; the second reads the row of the database with them.
read_settings(t, force, c) ==
    /\ Pooled(c)
    /\ ~force => \A u \in Jobs : job[u].conn = NoConn \/ job[u].force
    /\ Begin(t, [Quiet EXCEPT !.at = IF force THEN "lock" ELSE "mirror", !.force = force, !.conn = c,
                              !.on = setting.on, !.auto = setting.auto,
                              !.variant = setting.variant, !.have = recorded])
    /\ UNCHANGED <<setting, enabled, reader, disk, recorded, lock, located, erased, causes>>

\* set_enabled, with the switch as it was read.
set_enabled(t) ==
    LET k == job[t] IN
    /\ k.at = "mirror"
    /\ enabled' = k.on
    /\ job' = [job EXCEPT ![t] = IF k.conn # NoConn /\ k.on /\ k.auto THEN [k EXCEPT !.at = "lock"] ELSE Quiet]
    /\ causes' = IF k.late THEN causes \cup {"switch"} ELSE causes \ {"switch", "start"}
    /\ erased' = (erased /\ ~k.on)
    /\ UNCHANGED <<setting, reader, disk, recorded, lock, located, geoOps>>

\* Mutant: an update does not care who holds the lock.
LockedByAnyone(c) == TRUE

\* pg_try_advisory_lock: free, or held by this very session.
try_lock_download(c) == lock.by \in {NoConn, c}

lock_download(t) ==
    LET k == job[t] IN
    /\ k.at = "lock"
    /\ IF try_lock_download(k.conn)
       THEN /\ lock' = [by |-> k.conn, n |-> lock.n + 1]
            /\ job' = [job EXCEPT ![t] = [k EXCEPT !.at = "fetch", !.have = IF k.force THEN @ ELSE recorded]]
       ELSE job' = [job EXCEPT ![t] = Quiet] /\ UNCHANGED lock
    /\ UNCHANGED <<setting, enabled, reader, disk, recorded, located, geoOps, erased, causes>>

\* update: nothing to do where the row names this month's build of the
\* variant; else that build, or the one of the month before where the first
\* is not published, and where the row does not name that one.
update(k, b) ==
    /\ b \in Builds /\ b[1] = k.variant
    /\ ~k.force => k.have # <<k.variant, 1>> /\ k.have # b

fetch_build(t, b) ==
    /\ job[t].at = "fetch" /\ update(job[t], b)
    /\ job' = [job EXCEPT ![t].build = b, ![t].at = "install"]
    /\ UNCHANGED <<setting, enabled, reader, disk, recorded, lock, located, geoOps, erased, causes>>

\* AlreadyCurrent, a download that fails or bytes that do not open: nothing
\* is installed, and the row only notes when it was checked.
fetch_nothing(t) ==
    /\ job[t].at = "fetch"
    /\ job' = [job EXCEPT ![t].at = "unlock"]
    /\ UNCHANGED <<setting, enabled, reader, disk, recorded, lock, located, geoOps, erased, causes>>

\* load: a file that opens becomes the reader.
load(b, files) == IF b \in files THEN b ELSE NoBuild

\* install_bytes: the validated file is renamed into place and loaded ...
install_bytes(t) ==
    /\ job[t].at = "install"
    /\ disk' = disk \cup {job[t].build} /\ reader' = load(job[t].build, disk')
    /\ job' = [job EXCEPT ![t].at = "sweep"]
    /\ UNCHANGED <<setting, enabled, recorded, lock, located, geoOps, erased, causes>>

\* ... and every other one removed.
remove_stale_files(t) ==
    /\ job[t].at = "sweep"
    /\ disk' = disk \cap {job[t].build}
    /\ job' = [job EXCEPT ![t].at = "unlock"]
    /\ UNCHANGED <<setting, enabled, reader, recorded, lock, located, geoOps, erased, causes>>

unlock_download(t) ==
    /\ job[t].at = "unlock"
    /\ lock' = IF lock.n > 1 THEN [lock EXCEPT !.n = @ - 1] ELSE [by |-> NoConn, n |-> 0]
    /\ job' = [job EXCEPT ![t] = IF @.build = NoBuild THEN Quiet ELSE [@ EXCEPT !.at = "record"]]
    /\ UNCHANGED <<setting, enabled, reader, disk, recorded, located, geoOps, erased, causes>>

\* The row is written after the lock was given back: an update that went
\* through in between has removed the file.
set_installed(t) ==
    /\ job[t].at = "record"
    /\ recorded' = job[t].build
    /\ causes' = IF \E u \in Jobs \ {t} : job[u].build # NoBuild THEN causes \cup {"record"} ELSE causes
    /\ job' = [job EXCEPT ![t] = Quiet]
    /\ UNCHANGED <<setting, enabled, reader, disk, lock, located, geoOps, erased>>

-----------------------------------------------------------------------------
\* Mutant: the switch is not asked.
LookupRegardless(t, f) ==
    /\ reader # NoBuild /\ f \notin located
    /\ Begin(t, [Quiet EXCEPT !.at = "locate", !.fam = f])
    /\ UNCHANGED <<setting, enabled, reader, disk, recorded, lock, located, erased, causes>>

\* establish_session looks the address up, and stores what it found.
lookup(t, f) ==
    /\ enabled /\ reader # NoBuild /\ f \notin located
    /\ Begin(t, [Quiet EXCEPT !.at = "locate", !.fam = f])
    /\ UNCHANGED <<setting, enabled, reader, disk, recorded, lock, located, erased, causes>>

set_family_location(t) ==
    /\ job[t].at = "locate"
    /\ located' = located \cup {job[t].fam}
    /\ causes' = IF job[t].late THEN causes \cup {"login"} ELSE causes
    /\ job' = [job EXCEPT ![t] = Quiet]
    /\ UNCHANGED <<setting, enabled, reader, disk, recorded, lock, geoOps, erased>>

purge_locations ==
    /\ geoOps < MaxGeoOps /\ geoOps' = geoOps + 1
    /\ located' = {} /\ erased' = (~setting.on /\ ~enabled)
    /\ job' = [t \in Jobs |-> [job[t] EXCEPT !.late = @ \/ job[t].at = "locate"]]
    /\ UNCHANGED <<setting, enabled, reader, disk, recorded, lock, causes>>

-----------------------------------------------------------------------------
\* A request whose client went away, or a refresh whose query fails: the job
\* ends where it is, and its connection goes back with the lock it holds.
abandon(t) ==
    LET k == job[t] IN
    /\ k.at # "idle" /\ (k.force \/ k.conn = NoConn \/ k.at \in {"fetch", "record"})
    /\ job' = [job EXCEPT ![t] = Quiet]
    /\ causes' = causes \cup {"abandoned"}
    /\ UNCHANGED <<setting, enabled, reader, disk, recorded, lock, located, geoOps, erased>>

\* The process stops and starts: the sessions of the database end with it,
\* and init_geoip copies the switch, and then loads the file that the row
\* names, if it is there.  A query that fails ends it: what it has not come to
\* stays off, and empty.
init_geoip(settingsRead, rowRead) ==
    /\ job' = [t \in Jobs |-> Quiet] /\ lock' = [by |-> NoConn, n |-> 0]
    /\ enabled' = (settingsRead /\ setting.on)
    /\ reader' = IF settingsRead /\ rowRead THEN load(recorded, disk) ELSE NoBuild
    /\ causes' = (causes \ {"switch", "start", "unread"})
                   \cup (IF settingsRead THEN {} ELSE {"start"})
                   \cup (IF settingsRead /\ rowRead THEN {} ELSE {"unread"})
                   \cup {"abandoned" : t \in {u \in Jobs : job[u].at # "idle"}}
    /\ erased' = (erased /\ ~setting.on)
    /\ geoOps' = geoOps + (IF settingsRead /\ rowRead THEN 0 ELSE 1) /\ geoOps' <= MaxGeoOps
    /\ UNCHANGED <<setting, disk, recorded, located>>

Settings == [on : BOOLEAN, variant : Variants, auto : BOOLEAN]

GeoNext ==
    \/ \E t \in Jobs :
         \/ \E s \in Settings : update_geoip(t, s)
         \/ \E force \in BOOLEAN, c \in Conns : read_settings(t, force, c)
         \/ set_enabled(t) \/ lock_download(t)
         \/ \E b \in Builds : fetch_build(t, b)
         \/ fetch_nothing(t) \/ install_bytes(t) \/ remove_stale_files(t)
         \/ unlock_download(t) \/ set_installed(t)
         \/ \E f \in Families : lookup(t, f)
         \/ set_family_location(t) \/ abandon(t)
    \/ purge_locations
    \/ \E settingsRead, rowRead \in BOOLEAN : init_geoip(settingsRead, rowRead)

GeoSpec == GeoInit /\ [][GeoNext]_geoVars

-----------------------------------------------------------------------------
(* Properties.                                                             *)

GeoTypeOK ==
    /\ setting \in Settings /\ enabled \in BOOLEAN
    /\ reader \in Builds \cup {NoBuild} /\ recorded \in Builds \cup {NoBuild} /\ disk \subseteq Builds
    /\ lock.by \in Conns \cup {NoConn} /\ (lock.n = 0 <=> lock.by = NoConn)
    /\ located \subseteq Families

\* The build in memory is on disk: updates do not cross, so that none sweeps
\* away what another has just loaded.  The row names a file that is not there,
\* or another than the one in memory, only while an update is on its way to
\* the row, after one that never got there, or after one that recorded while
\* another was under way; memory may also be empty since a start whose queries
\* failed.
GeoFileMatches ==
    /\ reader # NoBuild => reader \in disk
    /\ recorded \notin disk \cup {NoBuild} \/ (reader # recorded /\ "unread" \notin causes) =>
         \/ \E t \in Jobs : job[t].build # NoBuild
         \/ causes \cap {"abandoned", "record"} # {}

\* The switch in memory is the stored one, an idle service holds no lock, and
\* what was purged while the switch was off stays purged, but for a change or
\* a login that overlapped, for requests that were dropped half way, and for a
\* start that could not read the settings, until they are read again.
GeoSwitchHolds ==
    /\ (\A t \in Jobs : job[t].at = "idle") =>
         /\ enabled # setting.on => causes \cap {"switch", "abandoned", "start"} # {}
         /\ lock.n > 0 => "abandoned" \in causes
    /\ erased /\ located # {} => "login" \in causes
=============================================================================
