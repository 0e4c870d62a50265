-------------------------- MODULE ProfileMigration --------------------------
(* The migration of the profile to the next schema, in durable phases that a    *)
(* journal records, and what else replaces the profile meanwhile: edits, the     *)
(* import of a file and its undoing, the recovery, the reset.  Every step is one *)
(* access to the database; a run stops anywhere and may be started again with the *)
(* same operation and a later time.  Nothing of the program starts a run yet.     *)
EXTENDS Nothing, Naturals

CONSTANTS
  Migrations,  \* the operation identifiers migrations are run with
  Retention,   \* how long a snapshot is valid (seven days)
  MaxTime,     \* bounds the time
  MaxBody,     \* bounds the contents an edit or an import brings
  MaxCrashes   \* bounds the interruptions

VARIABLES
  active,    \* the active profile
  journal,   \* the journal of each operation
  snapshot,  \* the one snapshot of what was there before a migration
  undo,      \* the profile an import replaced
  run,       \* the run of each operation
  restore,   \* the restoration from the recovery view
  clock, body, crashes

mVars == <<active, journal, snapshot, undo, run, restore, clock, body, crashes>>

Versions == {"source", "target", "newer", "unreadable"}
Envelopes == [version : Versions, body : 0..MaxBody, at : 0..MaxTime]
Phases == {"snapshotting", "snapshot-ready", "applying", "validating-target", "committed",
           "cleanup-pending", "complete", "blocked", "blocked-unreadable", "failed"}
Ended == {"complete", "blocked", "blocked-unreadable", "failed"}
Codes == {"none", "source-changed", "quota", "snapshot-missing", "snapshot-expired",
          "authority-changed", "invalid-target", "unsupported"}
Journals == [phase : Phases, source : Envelopes, target : Envelopes \cup {None}, code : Codes]
Snapshots == [op : Migrations, profile : Envelopes, expires : Nat]
Idle == [pc |-> "idle"]

\* The bounds are numbers, and no journal and no snapshot is none.
MigrationAssumption ==
  {Retention, MaxTime, MaxBody} \subseteq Nat /\ None \notin Journals \cup Snapshots

\* All runs are of one migration, as there is one snapshot.
OneMigration == \A o, p \in Migrations : o = p

\* The content of the profile in the next schema, with the time it was migrated.
Migrated(source, at) == [version |-> "target", body |-> source.body, at |-> at]

SnapshotOf(o, source, at) == [op |-> o, profile |-> source, expires |-> at + Retention]

Expired(record, at) == record.expires < at

\* An entry of the journal is written, and the run goes on with it: a run knows its
\* journal by what it read when it started and wrote since.
Phase(o, entry) ==
  /\ journal' = [journal EXCEPT ![o] = entry]
  /\ run' = [run EXCEPT ![o] = IF entry.phase \in Ended THEN Idle
                               ELSE [@ EXCEPT !.pc = entry.phase, !.base = None, !.entry = entry]]

Fail(o, code) == Phase(o, [run[o].entry EXCEPT !.phase = "failed", !.code = code])

GoOn(o, pc) == run' = [run EXCEPT ![o].pc = pc] /\ UNCHANGED journal

Others == UNCHANGED <<undo, restore, clock, body, crashes>>

-----------------------------------------------------------------------------
(* MigrationRunner.run.                                                       *)

\* A run reads its journal and the active profile.  It ends there when the journal
\* did, or when the profile is in the target schema already.
Start(o) ==
  /\ run[o] = Idle
  /\ IF journal[o] = None THEN active.version # "target" ELSE journal[o].phase \notin Ended
  /\ run' = [run EXCEPT ![o] =
       IF journal[o] = None THEN [pc |-> "preflight", at |-> clock, base |-> active, entry |-> None]
       ELSE [pc |-> journal[o].phase, at |-> clock, base |-> None, entry |-> journal[o]]]
  /\ UNCHANGED <<active, journal, snapshot>> /\ Others

\* What cannot be migrated is left alone, and the journal says why.
Preflight(o) ==
  /\ run[o].pc = "preflight"
  /\ LET entry(phase, code) == [phase |-> phase, source |-> run[o].base, target |-> None, code |-> code] IN
       Phase(o, CASE run[o].base.version = "unreadable" -> entry("blocked-unreadable", "unsupported")
                  [] run[o].base.version = "newer" -> entry("blocked", "unsupported")
                  [] OTHER -> entry("snapshotting", "none"))
  /\ UNCHANGED <<active, snapshot>> /\ Others

\* Slip: the profile is not compared with the one the migration started from.
SlipReadForSnapshot(o) ==
  /\ run[o].pc = "snapshotting"
  /\ run' = [run EXCEPT ![o].pc = "store-snapshot", ![o].base = active]
  /\ UNCHANGED <<active, journal, snapshot>> /\ Others

\* The profile that is kept is still the one the migration started from, and there
\* is room for it.
ReadForSnapshot(o) ==
  /\ run[o].pc = "snapshotting"
  /\ IF active # run[o].entry.source THEN Fail(o, "source-changed")
     ELSE \/ /\ run' = [run EXCEPT ![o].pc = "store-snapshot", ![o].base = active]
             /\ UNCHANGED journal
          \/ Phase(o, [run[o].entry EXCEPT !.phase = "blocked", !.code = "quota"])
  /\ UNCHANGED <<active, snapshot>> /\ Others

StoreSnapshot(o) ==
  /\ run[o].pc = "store-snapshot"
  /\ snapshot' = SnapshotOf(o, run[o].base, run[o].at)
  /\ GoOn(o, "snapshot-stored") /\ UNCHANGED active /\ Others

SnapshotStored(o) ==
  /\ run[o].pc = "snapshot-stored"
  /\ Phase(o, [run[o].entry EXCEPT !.phase = "snapshot-ready"])
  /\ UNCHANGED <<active, snapshot>> /\ Others

ValidateSnapshot(o) ==
  /\ run[o].pc = "snapshot-ready"
  /\ IF snapshot = None \/ snapshot.op # o THEN Fail(o, "snapshot-missing")
     ELSE IF Expired(snapshot, run[o].at) THEN Fail(o, "snapshot-expired")
     ELSE Phase(o, [run[o].entry EXCEPT !.phase = "applying"])
  /\ UNCHANGED <<active, snapshot>> /\ Others

\* The target is made from the snapshot there is, whoever took it; the profile is
\* replaced when it is still the source, and nothing is left to do when it is the
\* target.
ReadToApply(o) ==
  /\ run[o].pc = "applying"
  /\ IF snapshot = None THEN Fail(o, "snapshot-missing")
     ELSE IF Expired(snapshot, run[o].at) THEN Fail(o, "snapshot-expired")
     ELSE IF active = Migrated(snapshot.profile, run[o].at) \/ active = run[o].entry.source
          THEN /\ run' = [run EXCEPT ![o].pc = IF active = run[o].entry.source THEN "replace" ELSE "applied",
                                     ![o].base = snapshot.profile]
               /\ UNCHANGED journal
          ELSE Fail(o, "authority-changed")
  /\ UNCHANGED <<active, snapshot>> /\ Others

Replace(o) ==
  /\ run[o].pc = "replace"
  /\ active' = Migrated(run[o].base, run[o].at)
  /\ GoOn(o, "applied") /\ UNCHANGED snapshot /\ Others

Applied(o) ==
  /\ run[o].pc = "applied"
  /\ Phase(o, [run[o].entry EXCEPT !.phase = "validating-target",
                                   !.target = Migrated(run[o].base, run[o].at)])
  /\ UNCHANGED <<active, snapshot>> /\ Others

ValidateTarget(o) ==
  /\ run[o].pc = "validating-target"
  /\ IF active # run[o].entry.target THEN Fail(o, "invalid-target")
     ELSE Phase(o, [run[o].entry EXCEPT !.phase = "committed"])
  /\ UNCHANGED <<active, snapshot>> /\ Others

EndMigration(o) ==
  /\ run[o].pc \in {"committed", "cleanup-pending"}
  /\ Phase(o, [run[o].entry EXCEPT !.phase = IF @ = "committed" THEN "cleanup-pending" ELSE "complete"])
  /\ UNCHANGED <<active, snapshot>> /\ Others

Crash(o) ==
  /\ run[o] # Idle /\ crashes < MaxCrashes
  /\ run' = [run EXCEPT ![o] = Idle] /\ crashes' = crashes + 1
  /\ UNCHANGED <<active, journal, snapshot, undo, restore, clock, body>>

-----------------------------------------------------------------------------
(* What else replaces the profile.                                            *)

Fresh == body < MaxBody /\ body' = body + 1

\* The program edits a profile it can read.
Edit ==
  /\ active.version \in {"source", "target"} /\ Fresh
  /\ active' = [active EXCEPT !.body = body', !.at = 0]
  /\ UNCHANGED <<journal, snapshot, undo, run, restore, clock, crashes>>

\* A file replaces the profile, which is kept for undoing when it can be read.
ImportProfile(version) ==
  /\ Fresh /\ active' = [version |-> version, body |-> body', at |-> 0]
  /\ undo' = IF active.version \in {"source", "target"} THEN active ELSE None
  /\ UNCHANGED <<journal, snapshot, run, restore, clock, crashes>>

RestoreImport ==
  /\ undo # None /\ active' = undo /\ undo' = None
  /\ UNCHANGED <<journal, snapshot, run, restore, clock, body, crashes>>

\* One transaction restores the snapshot and clears it.
RestoreMigration ==
  /\ snapshot # None /\ ~Expired(snapshot, clock)
  /\ active' = snapshot.profile /\ snapshot' = None
  /\ UNCHANGED <<journal, undo, run, restore, clock, body, crashes>>

\* The recovery view reads the snapshot, replaces the profile and clears it, one
\* after the other.
RecoveryReads ==
  /\ restore = Idle /\ snapshot # None /\ ~Expired(snapshot, clock)
  /\ restore' = [pc |-> "replace", profile |-> snapshot.profile]
  /\ UNCHANGED <<active, journal, snapshot, undo, run, clock, body, crashes>>

RecoveryReplaces ==
  /\ restore.pc = "replace"
  /\ active' = restore.profile /\ restore' = [restore EXCEPT !.pc = "clear"]
  /\ UNCHANGED <<journal, snapshot, undo, run, clock, body, crashes>>

RecoveryClears ==
  /\ restore.pc = "clear" /\ snapshot' = None /\ restore' = Idle
  /\ UNCHANGED <<active, journal, undo, run, clock, body, crashes>>

\* Looking at the recovery view clears a snapshot that expired.
Inspect ==
  /\ snapshot # None /\ Expired(snapshot, clock) /\ snapshot' = None
  /\ UNCHANGED <<active, journal, undo, run, restore, clock, body, crashes>>

\* The reset deletes the database; nothing is left to read until a profile is made anew,
\* which is an import over nothing.  What runs or is shown goes on with what it read.
Reset ==
  /\ active' = [version |-> "unreadable", body |-> 0, at |-> 0]
  /\ journal' = [o \in Migrations |-> None] /\ snapshot' = None /\ undo' = None
  /\ UNCHANGED <<run, restore, clock, body, crashes>>

TimePasses ==
  /\ clock < MaxTime /\ clock' = clock + 1
  /\ UNCHANGED <<active, journal, snapshot, undo, run, restore, body, crashes>>

MigrationInit ==
  /\ active \in [version : {"source", "newer", "unreadable"}, body : {0}, at : {0}]
  /\ journal = [o \in Migrations |-> None] /\ snapshot = None /\ undo = None
  /\ run = [o \in Migrations |-> Idle] /\ restore = Idle
  /\ clock = 0 /\ body = 0 /\ crashes = 0

RunStep(o) ==
  \/ Start(o) \/ Preflight(o) \/ ReadForSnapshot(o) \/ StoreSnapshot(o) \/ SnapshotStored(o)
  \/ ValidateSnapshot(o) \/ ReadToApply(o) \/ Replace(o) \/ Applied(o) \/ ValidateTarget(o)
  \/ EndMigration(o)

MigrationNext ==
  \/ \E o \in Migrations : RunStep(o) \/ Crash(o)
  \/ Edit \/ RestoreImport \/ RestoreMigration \/ Inspect \/ Reset \/ TimePasses
  \/ \E version \in {"source", "target"} : ImportProfile(version)
  \/ RecoveryReads \/ RecoveryReplaces \/ RecoveryClears

MigrationSpec == MigrationInit /\ [][MigrationNext]_mVars

-----------------------------------------------------------------------------
MigrationTypeOK ==
  /\ active \in Envelopes /\ undo \in Envelopes \cup {None}
  /\ \A o \in Migrations : journal[o] = None \/ journal[o] \in Journals
  /\ snapshot = None \/ (snapshot.profile \in Envelopes /\ snapshot.op \in Migrations)

\* The phases of a run that has taken its snapshot.
Kept == {"snapshot-ready", "applying", "validating-target", "committed", "cleanup-pending", "complete"}

\* The snapshot a journal speaks of is the profile its migration started from, however
\* often it was interrupted and whatever was edited, imported or reset in between: the
\* recovery never brings back anything else (#snapshot compares before it stores).
SnapshotIsSource ==
  (snapshot # None /\ journal[snapshot.op] # None /\ journal[snapshot.op].phase \in Kept)
    => snapshot.profile = journal[snapshot.op].source

\* A migration replaces the profile by what it started from and by nothing else,
\* whatever was edited, imported, undone, restored or reset between two of its steps:
\* #snapshot and #apply compare the profile with the journal before they go on.
MigratesItsSource ==
  [][\A o \in Migrations :
       (run[o].pc = "replace" /\ run'[o].pc = "applied")
         => active' = Migrated(run[o].entry.source, run[o].at)]_mVars
=============================================================================
