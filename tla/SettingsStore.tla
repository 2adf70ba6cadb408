--------------------------- MODULE SettingsStore ---------------------------
(***************************************************************************)
(* src/src/device/settings_store.py: the only component that touches the   *)
(* device settings record.  A record lives in up to four files next to     *)
(* each other: the current record, its backup, a temporary and a           *)
(* quarantined one.  load() and commit() are sequences of file operations; *)
(* the power may fail between any two of them and each may raise OSError,  *)
(* so every file operation is an action of its own.                        *)
(*                                                                         *)
(* A record is <<version, payload>>: the payload stands for the Wi-Fi,     *)
(* admin and alert fields, which this module only moves around.            *)
(***************************************************************************)
EXTENDS Naturals, FiniteSets

CONSTANTS
    Payloads,    \* what a record may say
    Faults,      \* the file operations that may raise an OSError
    None,        \* load() found no usable record: the device is unconfigured
    Down,        \* no process is running, or its load() has not returned
    Absent,      \* there is no file of that name
    Bad          \* a file validate_settings_json rejects: torn, foreign, too new

FaultKinds == {"read", "write", "sync", "remove", "rename"}

ASSUME FaultsAssumption == Faults \subseteq FaultKinds
ASSUME PayloadsAssumption == None \notin Payloads /\ Down \notin Payloads /\ None # Down
ASSUME ContentAssumption ==
    /\ Absent # Bad
    /\ Absent \notin {1, 2} \X Payloads
    /\ Bad \notin {1, 2} \X Payloads

VARIABLES
    disk,       \* what each file holds, as the running system reads it
    unsynced,   \* the files whose data the flash may not hold yet
    pc,         \* the next file operation of load() or commit()
    record,     \* the record _commit_record is writing, Absent outside a commit
    served,     \* SettingsStore._cached once loaded, Down before
    promised    \* observer: the payloads a later boot may serve, {} if none is owed

vars == <<disk, unsynced, pc, record, served, promised>>

Files == {"current", "bak", "tmp", "rejected"}

Legacy == {1} \X Payloads
Canonical == {2} \X Payloads
Valid == {1, 2} \X Payloads
Contents == Valid \union {Absent, Bad}

CommitSteps == {"write", "sync_tmp", "remove", "rotate", "install", "sync_current"}
LoadSteps == {"load", "load_bak", "check_rejected", "quarantine", "sync_rejected",
              "restore", "sync_restored"}

Running == pc # "off"
Migrating == served = Down /\ pc \in CommitSteps

----------------------------------------------------------------------------
(* Files. *)

\* What opening the file shows: every OSError is taken for a missing file.
ReadBytes(f) == {disk[f]} \union (IF "read" \in Faults THEN {Absent} ELSE {})

\* os.rename: atomic, replaces the target, and the data moves with the name.
Rename(from, to) ==
    /\ disk' = [disk EXCEPT ![to] = disk[from], ![from] = Absent]
    /\ unsynced' = IF from \in unsynced THEN (unsynced \ {from}) \union {to}
                                        ELSE unsynced \ {to}

\* An operation of kind k raises and leaves the files as they are.
Raises(k) == k \in Faults /\ UNCHANGED <<disk, unsynced>>

\* Mutant of CallSync: the port has no os.sync.
CallSyncMissing == UNCHANGED <<disk, unsynced>>

\* os.sync: on return the flash holds every file.
CallSync == unsynced' = {} /\ UNCHANGED disk

----------------------------------------------------------------------------
(* load(): once per process, at boot. *)

\* load() returns s and latches it for the life of the process.
Serve(s) ==
    /\ pc' = "ready"
    /\ served' = s
    /\ promised' = IF s = None THEN promised ELSE {s}
    /\ record' = Absent

Goto(step) == pc' = step /\ UNCHANGED <<record, served, promised>>

PowerOn ==
    /\ pc = "off"
    /\ Goto("load")
    /\ UNCHANGED <<disk, unsynced>>

\* The current record decides: canonical, legacy, missing or invalid.
LoadCurrent ==
    /\ pc = "load"
    /\ UNCHANGED <<disk, unsynced>>
    /\ \E seen \in ReadBytes("current") :
        \/ seen \in Canonical /\ Serve(seen[2])
        \/ /\ seen \in Legacy
           /\ pc' = "write"
           /\ record' = <<2, seen[2]>>
           /\ UNCHANGED <<served, promised>>
        \/ seen = Absent /\ Goto("load_bak")
        \/ seen = Bad /\ Goto("check_rejected")

\* Mutant of LoadBackup: a missing current record means unconfigured.
LoadBackupIgnored ==
    /\ pc = "load_bak"
    /\ UNCHANGED <<disk, unsynced>>
    /\ Serve(None)

\* No current record: a valid backup is moved back into place.
LoadBackup ==
    /\ pc = "load_bak"
    /\ UNCHANGED <<disk, unsynced>>
    /\ \E seen \in ReadBytes("bak") :
        \/ seen \in Valid /\ Goto("restore")
        \/ seen \notin Valid /\ Serve(None)

\* Mutant of CheckRejected: an occupied quarantine is overwritten.
CheckRejectedOverwrites ==
    /\ pc = "check_rejected"
    /\ UNCHANGED <<disk, unsynced>>
    /\ \E seen \in ReadBytes("bak") :
        \/ seen \in Valid /\ Goto("quarantine")
        \/ seen \notin Valid /\ Serve(None)

\* An invalid current record: the backup may replace it only through an
\* empty quarantine.
CheckRejected ==
    /\ pc = "check_rejected"
    /\ UNCHANGED <<disk, unsynced>>
    /\ \E seen \in ReadBytes("bak"), rejected \in ReadBytes("rejected") :
        \/ seen \in Valid /\ rejected = Absent /\ Goto("quarantine")
        \/ ~(seen \in Valid /\ rejected = Absent) /\ Serve(None)

Quarantine ==
    /\ pc = "quarantine"
    /\ \/ Rename("current", "rejected") /\ Goto("sync_rejected")
       \/ Raises("rename") /\ Serve(None)

SyncRejected ==
    /\ pc = "sync_rejected"
    /\ \/ CallSync /\ Goto("restore")
       \/ Raises("sync") /\ Serve(None)

\* The backup's settings were read before the rename: what it holds is served.
RestoreBackup ==
    /\ pc = "restore"
    /\ \/ Rename("bak", "current") /\ Goto("sync_restored")
       \/ Raises("rename") /\ Serve(None)

\* A failed sync still counts as restored when the current record validates.
SyncRestored ==
    /\ pc = "sync_restored"
    /\ \/ CallSync /\ Serve(disk["current"][2])
       \/ /\ Raises("sync")
          /\ \E seen \in ReadBytes("current") :
                Serve(IF seen \in Valid THEN seen[2] ELSE None)

----------------------------------------------------------------------------
(* _commit_record(): for commit(), and for a legacy record inside load(). *)

Commit(p) ==
    /\ pc = "ready"
    /\ pc' = "write"
    /\ record' = <<2, p>>
    /\ promised' = IF promised = {} THEN {} ELSE promised \union {p}
    /\ UNCHANGED <<disk, unsynced, served>>

\* Mutant of CommitFails: the cache takes the record before it is in place.
CommitFailsButCaches == Serve(record[2])

\* SettingsCommitError: commit() lets it out, a migrating load() swallows it
\* and serves the migrated settings anyway.
CommitFails ==
    IF Migrating THEN Serve(record[2])
    ELSE /\ pc' = "ready"
         /\ record' = Absent
         /\ UNCHANGED <<served, promised>>

WriteTmp ==
    /\ pc = "write"
    /\ \/ /\ disk' = [disk EXCEPT !["tmp"] = record]
          /\ unsynced' = unsynced \union {"tmp"}
          /\ Goto("sync_tmp")
       \/ /\ "write" \in Faults
          /\ disk' \in {disk, [disk EXCEPT !["tmp"] = Bad]}
          /\ unsynced' = unsynced \union {"tmp"}
          /\ CommitFails

SyncTmp ==
    /\ pc = "sync_tmp"
    /\ \/ CallSync /\ Goto("remove")
       \/ Raises("sync") /\ CommitFails

RemoveBackup ==
    /\ pc = "remove"
    /\ \/ /\ Absent \in ReadBytes("bak")
          /\ Goto("rotate")
          /\ UNCHANGED <<disk, unsynced>>
       \/ /\ disk["bak"] # Absent
          /\ disk' = [disk EXCEPT !["bak"] = Absent]
          /\ unsynced' = unsynced \ {"bak"}
          /\ Goto("rotate")
       \/ disk["bak"] # Absent /\ Raises("remove") /\ CommitFails

\* Mutant of RotateCurrent: the current record is removed, not kept as backup.
RotateCurrentRemoves ==
    /\ pc = "rotate"
    /\ disk' = [disk EXCEPT !["current"] = Absent]
    /\ unsynced' = unsynced \ {"current"}
    /\ Goto("install")

RotateCurrent ==
    /\ pc = "rotate"
    /\ \/ /\ Absent \in ReadBytes("current")
          /\ Goto("install")
          /\ UNCHANGED <<disk, unsynced>>
       \/ disk["current"] # Absent /\ Rename("current", "bak") /\ Goto("install")
       \/ disk["current"] # Absent /\ Raises("rename") /\ CommitFails

InstallTmp ==
    /\ pc = "install"
    /\ \/ Rename("tmp", "current") /\ Goto("sync_current")
       \/ Raises("rename") /\ CommitFails

SyncCurrent ==
    /\ pc = "sync_current"
    /\ \/ CallSync /\ Serve(record[2])
       \/ Raises("sync") /\ CommitFails

----------------------------------------------------------------------------
(* Power loss: the process is gone, unsynced data may be torn. *)

PowerLoss ==
    /\ Running
    /\ \E torn \in SUBSET unsynced :
          disk' = [f \in Files |-> IF f \in torn THEN Bad ELSE disk[f]]
    /\ unsynced' = {}
    /\ pc' = "off"
    /\ record' = Absent
    /\ served' = Down
    /\ UNCHANGED promised

\* A process starts on whatever an earlier firmware, a manual copy or a worn
\* flash left behind; nothing is owed to anyone yet.
Init ==
    /\ disk \in [Files -> Contents]
    /\ unsynced = {}
    /\ pc = "off"
    /\ record = Absent
    /\ served = Down
    /\ promised = {}

Load ==
    \/ LoadCurrent \/ LoadBackup \/ CheckRejected \/ Quarantine
    \/ SyncRejected \/ RestoreBackup \/ SyncRestored

CommitRecord ==
    \/ WriteTmp \/ SyncTmp \/ RemoveBackup \/ RotateCurrent
    \/ InstallTmp \/ SyncCurrent

Next ==
    \/ PowerOn
    \/ Load
    \/ \E p \in Payloads : Commit(p)
    \/ CommitRecord
    \/ PowerLoss

Spec == Init /\ [][Next]_vars

----------------------------------------------------------------------------
(* Properties. *)

TypeOK ==
    /\ disk \in [Files -> Contents]
    /\ unsynced \in SUBSET Files
    /\ pc \in {"off", "ready"} \union LoadSteps \union CommitSteps
    /\ record \in Canonical \union {Absent}
    /\ served \in Payloads \union {None, Down}
    /\ promised \in SUBSET Payloads

\* The payload a boot from these files serves when no file operation fails.
Effective ==
    IF disk["current"] \in Valid THEN disk["current"][2]
    ELSE IF disk["bak"] \in Valid
            /\ (disk["current"] = Absent \/ disk["rejected"] = Absent)
         THEN disk["bak"][2]
         ELSE None

\* NeverLost: once a process has served or acknowledged a payload, the files
\* hold it, or the payload of a commit tried since, at every moment the power
\* may fail: commit() is atomic and what it acknowledged is durable.
NeverLost == promised # {} => Effective \in promised

\* RebootServes: a load() that follows such a promise serves a promised
\* payload, whatever step of whatever call the power failed in.
RebootServes ==
    [][(served = Down /\ pc' = "ready" /\ promised # {}) => served' \in promised]_vars

\* NoTornCurrent: no step of the protocol, power loss included, makes the
\* current record unreadable; only data synced before is ever renamed to it.
NoTornCurrent ==
    [][disk'["current"] = Bad => disk["current"] = Bad]_vars

\* EvidenceKept: a load() that has nothing to migrate only moves files: every
\* content it found, readable or not, is still in as many files afterwards.
Holding(c) == {f \in Files : disk[f] = c}
OnlyMovesFiles ==
    pc \in LoadSteps =>
        \A c \in Contents \ {Absent} :
            Cardinality(Holding(c)') >= Cardinality(Holding(c))
EvidenceKept == [][OnlyMovesFiles]_vars

----------------------------------------------------------------------------
(* What the store promises its callers, whatever its files do. *)

Contract == INSTANCE DurableRecord WITH
    stored <- Effective,
    request <- IF record = Absent \/ Migrating THEN None ELSE record[2]

\* ImplementsContract: load() and commit() over four files are a boot and an
\* atomic write of one durable record.
ImplementsContract == Contract!Spec
=============================================================================
