------------------------------- MODULE Upgrades -------------------------------
(***************************************************************************)
(* How a database of an older release becomes one of this release.  There  *)
(* are three stores, each with a rule of its own:                          *)
(*   - the authority's store is never upgraded by opening it: an operator  *)
(*     calls the UpgradeVn of its version, which keeps a backup;           *)
(*   - an Environment's journal is upgraded by Open, under the journal's   *)
(*     lock, with no backup;                                               *)
(*   - the local store is migrated by whichever process opens it, with a   *)
(*     backup under a fresh name and no lock.                              *)
(* A version is installed by one transaction, version 12 of the authority  *)
(* by two; an upgrade over several versions can stop between any two, and  *)
(* ends with an error, the versions before kept, at one that refuses what  *)
(* is in the store.  Contents are counted by the writes of the older       *)
(* releases that made them.                                                *)
(***************************************************************************)
EXTENDS Integers, Sequences, FiniteSets, TLC

CONSTANTS
    Openers,   \* the processes that open the store
    MaxWrites, \* bound: writes by older releases
    MaxFaults  \* bound: processes that stop in the middle

VARIABLES
    kind,    \* which store this is
    ver,     \* its schema version: Absent, 0 (a file without a schema), 1, ...
    data,    \* its contents
    rows,    \* what an upgrade step treats apart, or "plain"
    dir,     \* the authority's blob directory is there
    backups, \* the backup files
    opener,  \* what each process is doing
    applied, \* the versions installed, in order
    left,    \* contents of the versions an UpgradeVn left, a set of records
    faults

upgradeVars == <<kind, ver, data, rows, dir, backups, opener, applied, left, faults>>

Absent == -1
Torn == -1
Resting == [at |-> "rest"]
Latest == CASE kind = "authority" -> 20 [] kind = "journal" -> 11 [] kind = "local" -> 14
Locked == \E p \in DOMAIN opener : opener[p] # Resting
BackupsOf(v) == {b \in backups : b.from = v}
Copy(v, d) == [from |-> v, data |-> d]
Goto(p, s) == opener' = [opener EXCEPT ![p] = s]

InitUpgrades(k, v, r, ps) ==
    /\ kind = k /\ ver = v /\ rows = r /\ data = 0
    /\ dir = (k = "authority" /\ v >= 4)
    /\ backups = {} /\ applied = <<>> /\ left = {} /\ faults = 0
    /\ opener = [p \in ps |-> Resting]

\* One transaction: the schema of the version, what it derives from the rows
\* already there, and the version's mark.
Install(v) ==
    /\ ver' = v
    /\ applied' = Append(applied, v)

------------------------------------------------------------------------------
(* The authority's store *)

\* checkSchemaVersion, with the lock: exactly this version, and from 12 on the
\* projection that its events fold to (checkStep13State).
Folded == ver >= 12 => rows # "unfolded"
checkSchemaVersion(v) == kind = "authority" /\ ver = v /\ ~Locked /\ Folded

\* CreateEmpty: a root that was not there, then every version in turn, then the
\* blob directory.  What it leaves when it stops is completed by no open.
CreateEmpty(p) ==
    /\ kind = "authority" /\ ver = Absent
    /\ ver' = 0
    /\ Goto(p, [at |-> "install", from |-> 0, goal |-> 20])
    /\ UNCHANGED <<kind, data, rows, dir, backups, applied, left, faults>>

\* What an UpgradeVn does when the backup of its version is there already: the
\* first trusts a valid one, the next five compare it, the others refuse.
MutReusable(v) == v <= 6 /\ \A b \in BackupsOf(v) : b.data # Torn
Reusable(v) ==
    CASE v = 1 -> \A b \in BackupsOf(v) : b.data # Torn
      [] v \in 2..6 -> \A b \in BackupsOf(v) : b.data = data
      [] OTHER -> FALSE

\* UpgradeVn: the version and what must hold of it, the backup (created empty
\* first), then the transactions of versions n + 1 .. goal.
Upgrade(p, v, blobs, goal) ==
    /\ checkSchemaVersion(v)
    /\ blobs => dir
    /\ \/ /\ BackupsOf(v) = {}
          /\ backups' = backups \cup {Copy(v, Torn)}
          /\ Goto(p, [at |-> "vacuum", from |-> v, goal |-> goal])
       \/ /\ BackupsOf(v) # {}
          /\ Reusable(v)
          /\ Goto(p, [at |-> "install", from |-> v, goal |-> goal])
          /\ UNCHANGED backups
    /\ UNCHANGED <<kind, ver, data, rows, dir, applied, left, faults>>

UpgradeV1(p) == Upgrade(p, 1, FALSE, 2)
\* Artifacts are bound to no submission: refused before the backup.
UpgradeV2(p) == rows # "artifacts" /\ Upgrade(p, 2, FALSE, 3)
UpgradeV3(p) == Upgrade(p, 3, FALSE, 4)
UpgradeV4(p) == Upgrade(p, 4, TRUE, 5)
UpgradeV5(p) == Upgrade(p, 5, TRUE, 6)
UpgradeV6(p) == Upgrade(p, 6, TRUE, 7)
UpgradeV7(p) == Upgrade(p, 7, FALSE, 8)
UpgradeV8(p) == Upgrade(p, 8, TRUE, 9)
UpgradeV9(p) == Upgrade(p, 9, TRUE, 10)
UpgradeV10(p) == Upgrade(p, 10, TRUE, 11)
UpgradeV11(p) == Upgrade(p, 11, TRUE, 20)
UpgradeV12(p) == Upgrade(p, 12, TRUE, 20)
upgradeV13(p) == Upgrade(p, 13, FALSE, 20)
UpgradeV14(p) == Upgrade(p, 14, TRUE, 20)
UpgradeV15(p) == Upgrade(p, 15, TRUE, 20)
UpgradeV16(p) == Upgrade(p, 16, TRUE, 20)
MutUpgradeV17(p) == Upgrade(p, 17, TRUE, 17)
UpgradeV17(p) == Upgrade(p, 17, TRUE, 18)
UpgradeV18(p) == Upgrade(p, 18, TRUE, 19)
UpgradeV19(p) == Upgrade(p, 19, TRUE, 20)

UpgradeAny(p) ==
    \/ UpgradeV1(p) \/ UpgradeV2(p) \/ UpgradeV3(p) \/ UpgradeV4(p) \/ UpgradeV5(p)
    \/ UpgradeV6(p) \/ UpgradeV7(p) \/ UpgradeV8(p) \/ UpgradeV9(p) \/ UpgradeV10(p)
    \/ UpgradeV11(p) \/ UpgradeV12(p) \/ upgradeV13(p) \/ UpgradeV14(p) \/ UpgradeV15(p)
    \/ UpgradeV16(p) \/ UpgradeV17(p) \/ UpgradeV18(p) \/ UpgradeV19(p)

\* VACUUM INTO, the copy's own validation, the comparison, the sync.
Vacuum(p) ==
    /\ opener[p].at = "vacuum"
    /\ backups' = (backups \ BackupsOf(ver)) \cup {Copy(ver, data)}
    /\ Goto(p, [opener[p] EXCEPT !.at = "install"])
    /\ UNCHANGED <<kind, ver, data, rows, dir, applied, left, faults>>

\* UpgradeV3 makes the blob directory before its transaction, CreateEmpty after
\* its last one.
initBlobDir(p) ==
    /\ kind = "authority" /\ opener[p].at = "install" /\ ~dir
    /\ opener[p].from = 3 \/ (opener[p].from = 0 /\ ver = 20)
    /\ dir' = TRUE
    /\ UNCHANGED <<kind, ver, data, rows, backups, opener, applied, left, faults>>

\* The transaction of a version, the next one of a creation or an upgrade.
InstallVersion(p, v) ==
    /\ kind = "authority" /\ opener[p].at = "install"
    /\ ver = v - 1 /\ v <= opener[p].goal
    /\ opener[p].from = 3 => dir
    /\ Install(v)
    /\ left' = IF ver = opener[p].from /\ ver > 0 THEN left \cup {Copy(ver, data)} ELSE left
    /\ UNCHANGED <<kind, data, rows, dir, backups, opener, faults>>

installBaseline(p) == InstallVersion(p, 1)
installStep3(p) == InstallVersion(p, 2)
installStep4(p) == InstallVersion(p, 3)
installStep6(p) == InstallVersion(p, 4)
installStep5(p) == InstallVersion(p, 5)
installM5Genesis(p) == InstallVersion(p, 6)
installStep8(p) == InstallVersion(p, 7)
installStep9(p) == InstallVersion(p, 8)
installStep10(p) == InstallVersion(p, 9)
installStep11(p) == InstallVersion(p, 10)
installStep12(p) == InstallVersion(p, 11)
installStep13(p) == InstallVersion(p, 12)
\* A transaction of its own, after installStep13's: the tables of version 12 are
\* filled from the events there.  (With nothing to fold it changes nothing.)
rebuildStep13Projection(p) ==
    /\ kind = "authority" /\ opener[p].at = "install"
    /\ opener[p].from = 11 /\ ver = 12 /\ rows = "unfolded"
    /\ rows' = "plain"
    /\ UNCHANGED <<kind, ver, data, dir, backups, opener, applied, left, faults>>

installStep14(p) == rows # "unfolded" /\ InstallVersion(p, 13)
installStep15(p) == InstallVersion(p, 14)
\* A claim-fenced repair with no close at the prefix it observed.
installStep16(p) == rows # "unwitnessed" /\ InstallVersion(p, 15)
\* A repair fenced by a journal whose state was not retained.
installStep17(p) == rows # "journal-fenced" /\ InstallVersion(p, 16)
\* A sweep submitted before its boundary was kept.
installBatchSweep(p) == rows # "early-sweep" /\ InstallVersion(p, 17)
installDependencies(p) == InstallVersion(p, 18)
installNamedBatches(p) == InstallVersion(p, 19)
installNamedBatchMembership(p) == InstallVersion(p, 20)

InstallAny(p) ==
    \/ installBaseline(p) \/ installStep3(p) \/ installStep4(p) \/ installStep6(p)
    \/ installStep5(p) \/ installM5Genesis(p) \/ installStep8(p) \/ installStep9(p)
    \/ installStep10(p) \/ installStep11(p) \/ installStep12(p) \/ installStep13(p)
    \/ installStep14(p) \/ installStep15(p) \/ installStep16(p) \/ installStep17(p)
    \/ installBatchSweep(p) \/ installDependencies(p) \/ installNamedBatches(p) \/ installNamedBatchMembership(p)

\* The transaction that refuses is rolled back, and the upgrade ends there.
RefusedBy == {<<"unwitnessed", 15>>, <<"journal-fenced", 16>>, <<"early-sweep", 17>>}
InstallRefused(p) ==
    /\ kind = "authority" /\ opener[p].at = "install"
    /\ <<rows, ver + 1>> \in RefusedBy /\ ver < opener[p].goal
    /\ Goto(p, Resting)
    /\ UNCHANGED <<kind, ver, data, rows, dir, backups, applied, left, faults>>

Installed(p) ==
    /\ kind = "authority" /\ opener[p].at = "install" /\ ver = opener[p].goal
    /\ opener[p].from = 0 => dir
    /\ Goto(p, Resting)
    /\ UNCHANGED <<kind, ver, data, rows, dir, backups, applied, left, faults>>

\* The operator removes the backup an upgrade of this version refuses.
RemoveBackup ==
    /\ kind = "authority" /\ ~Locked
    /\ ver \in 1..19 /\ BackupsOf(ver) # {} /\ ~Reusable(ver)
    /\ backups' = backups \ BackupsOf(ver)
    /\ UNCHANGED <<kind, ver, data, rows, dir, opener, applied, left, faults>>

\* OpenExisting of the release of a version; it has the lock as long as it runs.
OpenExisting == ver \in 1..20 /\ (ver >= 4 => dir) /\ Folded

------------------------------------------------------------------------------
(* An Environment's journal *)

\* Open, with the journal's lock: prepareDatabaseFile, then the schema of a new
\* file, or the upgrade of the version a file is at.  A file without a schema
\* is refused.
OpenJournal(p) ==
    /\ kind = "journal" /\ ~Locked
    /\ ver = Absent \/ ver \in 1..10
    /\ ver' = IF ver = Absent THEN 0 ELSE ver
    /\ Goto(p, [at |-> "schema"])
    /\ UNCHANGED <<kind, data, rows, dir, backups, applied, left, faults>>

SchemaFrom(p, v, to) ==
    /\ kind = "journal" /\ opener[p].at = "schema" /\ ver = v
    /\ Install(to)
    /\ UNCHANGED <<kind, data, dir, backups, opener, left, faults>>

installSchema(p) == SchemaFrom(p, 0, 9) /\ UNCHANGED rows
\* A command journaled by the first release has not been admitted yet.
upgradeSchemaV1(p) ==
    /\ SchemaFrom(p, 1, 2)
    /\ rows' = IF rows = "journaled" THEN "pre-admission" ELSE rows
upgradeSchemaV2(p) == SchemaFrom(p, 2, 3) /\ UNCHANGED rows
upgradeSchemaV3(p) == SchemaFrom(p, 3, 4) /\ UNCHANGED rows
\* Readiness without the proof of an acquisition is not carried over.
upgradeSchemaV4(p) ==
    /\ rows # "readiness"
    /\ SchemaFrom(p, 4, 5)
    /\ UNCHANGED rows
upgradeSchemaV5(p) == SchemaFrom(p, 5, 6) /\ UNCHANGED rows
upgradeSchemaV6(p) == SchemaFrom(p, 6, 7) /\ UNCHANGED rows
upgradeSchemaV7(p) == SchemaFrom(p, 7, 8) /\ UNCHANGED rows
upgradeSchemaV8(p) == SchemaFrom(p, 8, 9) /\ UNCHANGED rows
upgradeSchemaV9(p) == SchemaFrom(p, 9, 10) /\ UNCHANGED rows
upgradeSchemaV10(p) == SchemaFrom(p, 10, 11) /\ UNCHANGED rows

UpgradeSchema(p) ==
    \/ installSchema(p) \/ upgradeSchemaV1(p) \/ upgradeSchemaV2(p) \/ upgradeSchemaV3(p)
    \/ upgradeSchemaV4(p) \/ upgradeSchemaV5(p) \/ upgradeSchemaV6(p) \/ upgradeSchemaV7(p)
    \/ upgradeSchemaV8(p) \/ upgradeSchemaV9(p) \/ upgradeSchemaV10(p)

\* The loop of Open ends at this release's version, or with an error.
OpenedJournal(p) ==
    /\ kind = "journal" /\ opener[p].at = "schema"
    /\ ver = 11 \/ (ver = 4 /\ rows = "readiness")
    /\ Goto(p, Resting)
    /\ UNCHANGED <<kind, ver, data, rows, dir, backups, applied, left, faults>>

------------------------------------------------------------------------------
(* The local store *)

\* A Run of the first release has no locator; an anonymous Batch with members or
\* Runs has no owner.
rejectLegacyRuns == rows = "legacy-run"
rejectLegacyBatches == rows = "anonymous-batch"

\* migrate up to the backup: the version is read outside any transaction, and
\* an anonymous Batch that v3 cannot convert refuses the open before v2.
ReadVersion(p) ==
    /\ kind = "local" /\ opener[p] = Resting
    /\ ver < 14
    /\ ~(ver \in 1..2 /\ rejectLegacyBatches)
    /\ Goto(p, [at |-> IF ver > 0 THEN "checkpoint" ELSE "apply", next |-> ver + 1])
    /\ UNCHANGED <<kind, ver, data, rows, dir, backups, applied, left, faults>>

\* backup: the checkpoint, and a file of its own, O_EXCL under a free name.
Checkpoint(p) ==
    /\ opener[p].at = "checkpoint"
    /\ Goto(p, [at |-> "copy", next |-> opener[p].next, had |-> <<ver, data>>])
    /\ UNCHANGED <<kind, ver, data, rows, dir, backups, applied, left, faults>>

\* The copy is what the checkpoint left, unless another process wrote meanwhile.
CopyAside(p) ==
    /\ opener[p].at = "copy"
    /\ \E d \in {opener[p].had[2], Torn} :
         /\ d = Torn => opener[p].had # <<ver, data>>
         /\ backups' = backups \cup {Copy(opener[p].next - 1, d)}
    /\ Goto(p, [at |-> "apply", next |-> opener[p].next])
    /\ UNCHANGED <<kind, ver, data, rows, dir, applied, left, faults>>

\* applyMigration's statements and its row of schema_migrations fail on a
\* version that another process has installed since.
Conflicts(p) == opener[p].next \in 1..ver

\* The preflights of v2 and v3, and v13SyntheticHistory, which mints no event
\* that its fold would refuse.
v13Refuses == rows = "unfoldable"
Unmigratable(v) == (v = 2 /\ rejectLegacyRuns) \/ (v = 3 /\ rejectLegacyBatches) \/ (v = 13 /\ v13Refuses)

\* applyMigration, one transaction per pending version; an error ends the open.
applyMigration(p) ==
    /\ opener[p].at = "apply"
    /\ IF opener[p].next > 14 \/ Conflicts(p) \/ Unmigratable(opener[p].next)
       THEN /\ Goto(p, Resting)
            /\ UNCHANGED <<ver, applied>>
       ELSE /\ Install(opener[p].next)
            /\ Goto(p, [opener[p] EXCEPT !.next = @ + 1])
    /\ UNCHANGED <<kind, data, rows, dir, backups, left, faults>>

------------------------------------------------------------------------------

\* A release of the store's version writes: alone where a lock is held for as
\* long as the store is open, through a handle already open in the local store.
Write ==
    /\ kind # "local" => ~Locked
    /\ kind = "authority" => OpenExisting
    /\ ver >= 1 /\ ver < Latest /\ data < MaxWrites
    /\ data' = data + 1
    /\ UNCHANGED <<kind, ver, rows, dir, backups, opener, applied, left, faults>>

\* A process stops.
Crash(p) ==
    /\ opener[p] # Resting /\ faults < MaxFaults
    /\ faults' = faults + 1
    /\ Goto(p, Resting)
    /\ backups' = IF opener[p].at = "copy"
                  THEN backups \cup {Copy(opener[p].next - 1, Torn)} ELSE backups
    /\ UNCHANGED <<kind, ver, data, rows, dir, applied, left>>

Progress(p) ==
    \/ CreateEmpty(p) \/ UpgradeAny(p) \/ Vacuum(p) \/ initBlobDir(p) \/ InstallAny(p) \/ Installed(p)
    \/ rebuildStep13Projection(p) \/ InstallRefused(p)
    \/ OpenJournal(p) \/ UpgradeSchema(p) \/ OpenedJournal(p)
    \/ ReadVersion(p) \/ Checkpoint(p) \/ CopyAside(p) \/ applyMigration(p)

UpgradeStep ==
    \/ \E p \in DOMAIN opener : Progress(p) \/ Crash(p)
    \/ RemoveBackup \/ Write

\* What releases so far can have left: nothing, or a store of any version, with
\* rows that an upgrade treats apart where its version kept them.
Leftover(k, v, r) ==
    /\ k = "authority" => v \in {Absent} \cup 1..20
    /\ k = "journal" => v \in {Absent} \cup 1..11
    /\ k = "local" => v \in 0..14
    /\ \/ r = "plain"
       \/ k = "authority" /\ \/ r = "artifacts" /\ v = 2
                             \/ r = "unfolded" /\ v \in 1..11
                             \/ r = "unwitnessed" /\ v = 14
                             \/ r = "journal-fenced" /\ v = 15
                             \/ r = "early-sweep" /\ v \in 3..16
       \/ k = "journal" /\ \/ r = "journaled" /\ v = 1
                           \/ r = "readiness" /\ v \in 1..4
       \/ k = "local" /\ \/ r = "legacy-run" /\ v = 1
                         \/ r = "anonymous-batch" /\ v \in 1..2
                         \/ r = "unfoldable" /\ v \in 8..12
Rows == {"plain", "artifacts", "unfolded", "unwitnessed", "journal-fenced", "early-sweep",
         "journaled", "readiness", "legacy-run", "anonymous-batch", "unfoldable"}

InitUpgrade ==
    \E k \in {"authority", "journal", "local"}, v \in Absent..20, r \in Rows :
        Leftover(k, v, r) /\ InitUpgrades(k, v, r, Openers)

UpgradeSpec == InitUpgrade /\ [][UpgradeStep]_upgradeVars

------------------------------------------------------------------------------
(* Properties *)

\* An UpgradeVn later than the first leaves a backup with exactly the contents
\* it upgraded, however often it was interrupted, retried or written between;
\* each version is installed once and in order, by however many processes; no
\* journaled command of the first release is left in its old state; and nothing
\* is installed over a version 12 whose projection was not built.
UpgradedWhole ==
    /\ \A l \in left : l.from > 1 => l \in backups
    /\ \A i \in 2..Len(applied) : applied[i] = applied[i - 1] + 1
    /\ applied # <<>> => applied[Len(applied)] = ver
    /\ kind = "journal" /\ ver > 1 => rows # "journaled"
    /\ kind = "authority" /\ ver > 12 => rows # "unfolded"
===============================================================================
