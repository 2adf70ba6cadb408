------------------------ MODULE SettingsStoreProofs ------------------------
(***************************************************************************)
(* Theorems about SettingsStore, for every set of payloads.                *)
(*                                                                         *)
(* Tidy holds whatever file operations fail; Owed, and with it NeverLost,  *)
(* RebootServes and the refinement of DurableRecord, needs every rename    *)
(* and every read to work (NoMoveFails): StoreRename.cfg shows what        *)
(* happens when a rename does not.                                         *)
(***************************************************************************)
EXTENDS SettingsStore, TLAPS, FiniteSetTheorems

NoMoveFails == "read" \notin Faults /\ "rename" \notin Faults

\* What a step of load() or commit() may rely on when it starts.
Tidy ==
    /\ unsynced \subseteq {"tmp"}
    /\ pc \notin {"ready", "write", "sync_tmp"} => unsynced = {}
    /\ pc \in CommitSteps <=> record # Absent
    /\ pc \in {"sync_tmp", "remove", "rotate", "install"} => disk["tmp"] = record
    /\ pc \in {"quarantine", "sync_rejected", "restore"} => disk["bak"] \in Valid
    /\ pc = "sync_restored" => disk["current"] \in Valid

Safe == TypeOK /\ Tidy

----------------------------------------------------------------------------

LEMMA ContentFacts ==
    /\ Absent \in Contents /\ Bad \in Contents /\ Absent \notin Valid /\ Bad \notin Valid
    /\ Absent # Bad /\ Absent \notin Canonical
    /\ \A p \in Payloads : <<2, p>> \in Canonical
    /\ \A c \in Valid : c[2] \in Payloads /\ c \in Contents
    /\ \A c \in Canonical : c \in Valid
    /\ \A c \in Legacy : c \in Valid
BY ContentAssumption, SMT DEF Contents, Valid, Legacy, Canonical

LEMMA RenameType ==
    ASSUME disk \in [Files -> Contents], unsynced \in SUBSET Files,
           NEW from \in Files, NEW to \in Files, Rename(from, to)
    PROVE  disk' \in [Files -> Contents] /\ unsynced' \in SUBSET Files
BY ContentFacts DEF Rename

LEMMA SafeInit == Init => Safe
BY DEF Init, Safe, TypeOK, Tidy, CommitSteps, LoadSteps, Files

LEMMA SafeNext == Safe /\ [Next]_vars => Safe'
<1> SUFFICES ASSUME Safe, [Next]_vars PROVE Safe'
    OBVIOUS
<1> USE ContentFacts DEF Safe, TypeOK, Tidy, Files, CommitSteps, LoadSteps, Goto, Serve
<1>1. CASE PowerOn
    BY <1>1 DEF PowerOn
<1>2. CASE LoadCurrent
    BY <1>2 DEF LoadCurrent, ReadBytes
<1>3. CASE LoadBackup
    BY <1>3 DEF LoadBackup, ReadBytes
<1>4. CASE CheckRejected
    BY <1>4 DEF CheckRejected, ReadBytes
<1>5. CASE Quarantine
    BY <1>5 DEF Quarantine, Rename, Raises
<1>6. CASE SyncRejected
    BY <1>6 DEF SyncRejected, CallSync, Raises
<1>7. CASE RestoreBackup
    BY <1>7 DEF RestoreBackup, Rename, Raises
<1>8. CASE SyncRestored
    <2>1. disk["current"] \in Valid /\ disk["current"][2] \in Payloads
        BY <1>8 DEF SyncRestored
    <2>2. \E s \in Payloads \union {None} : Serve(s)
        BY <1>8, <2>1 DEF SyncRestored, ReadBytes
    <2>3. disk' = disk /\ unsynced' = {}
        BY <1>8 DEF SyncRestored, CallSync, Raises
    <2>4. QED
        BY <2>1, <2>2, <2>3
<1>9. CASE \E p \in Payloads : Commit(p)
    BY <1>9 DEF Commit
<1>10. CASE WriteTmp
    <2>1. record \in Canonical /\ record[2] \in Payloads
        BY <1>10 DEF WriteTmp
    <2>2. disk' \in [Files -> Contents] /\ unsynced' = unsynced \union {"tmp"}
        BY <1>10, <2>1 DEF WriteTmp
    <2>3. CASE Goto("sync_tmp") /\ disk' = [disk EXCEPT !["tmp"] = record]
        BY <1>10, <2>1, <2>2, <2>3 DEF WriteTmp
    <2>4. CASE CommitFails
        BY <1>10, <2>1, <2>2, <2>4 DEF WriteTmp, CommitFails, Migrating
    <2>5. QED
        BY <1>10, <2>3, <2>4 DEF WriteTmp
<1>11. CASE SyncTmp
    BY <1>11 DEF SyncTmp, CallSync, Raises, CommitFails, Migrating
<1>12. CASE RemoveBackup
    BY <1>12 DEF RemoveBackup, ReadBytes, Raises, CommitFails, Migrating
<1>13. CASE RotateCurrent
    BY <1>13 DEF RotateCurrent, Rename, ReadBytes, Raises, CommitFails, Migrating
<1>14. CASE InstallTmp
    BY <1>14 DEF InstallTmp, Rename, Raises, CommitFails, Migrating
<1>15. CASE SyncCurrent
    BY <1>15 DEF SyncCurrent, CallSync, Raises, CommitFails, Migrating
<1>16. CASE PowerLoss
    BY <1>16 DEF PowerLoss, Running
<1>17. CASE UNCHANGED vars
    BY <1>17 DEF vars
<1>18. QED
    BY <1>1, <1>2, <1>3, <1>4, <1>5, <1>6, <1>7, <1>8, <1>9, <1>10, <1>11,
       <1>12, <1>13, <1>14, <1>15, <1>16, <1>17 DEF Next, Load, CommitRecord

\* TypeCorrect: every file, promise and record keeps its type, whatever file
\* operations fail.
THEOREM TypeCorrect == Spec => []TypeOK
<1>1. Init => Safe
    BY SafeInit
<1>2. Safe /\ [Next]_vars => Safe'
    BY SafeNext
<1>3. Safe => TypeOK
    BY DEF Safe
<1>4. QED
    BY <1>1, <1>2, <1>3, PTL DEF Spec

LEMMA Invariance == Spec => []Safe
<1>1. QED
    BY SafeInit, SafeNext, PTL DEF Spec

LEMMA CurrentStaysReadable ==
    ASSUME Safe, [Next]_vars, disk["current"] # Bad
    PROVE  disk'["current"] # Bad
<1> USE ContentFacts DEF Safe, TypeOK, Tidy, Files, CommitSteps, LoadSteps
<1>1. CASE Quarantine \/ RestoreBackup
    BY <1>1 DEF Quarantine, RestoreBackup, Rename, Raises
<1>2. CASE SyncRejected \/ SyncRestored
    BY <1>2 DEF SyncRejected, SyncRestored, CallSync, Raises
<1>3. CASE WriteTmp
    BY <1>3 DEF WriteTmp
<1>4. CASE SyncTmp \/ SyncCurrent
    BY <1>4 DEF SyncTmp, SyncCurrent, CallSync, Raises
<1>5. CASE RemoveBackup
    BY <1>5 DEF RemoveBackup, Raises
<1>6. CASE RotateCurrent \/ InstallTmp
    BY <1>6 DEF RotateCurrent, InstallTmp, Rename, Raises
<1>7. CASE PowerLoss
    BY <1>7 DEF PowerLoss
<1>8. CASE PowerOn \/ LoadCurrent \/ LoadBackup \/ CheckRejected
           \/ (\E p \in Payloads : Commit(p)) \/ UNCHANGED vars
    BY <1>8 DEF PowerOn, LoadCurrent, LoadBackup, CheckRejected, Commit, vars
<1>9. QED
    BY <1>1, <1>2, <1>3, <1>4, <1>5, <1>6, <1>7, <1>8 DEF Next, Load, CommitRecord

\* CurrentNeverTorn: NoTornCurrent with any set of failing file operations;
\* only data that was synced is ever renamed to the current record.
THEOREM CurrentNeverTorn == Spec => NoTornCurrent
<1>1. Safe /\ [Next]_vars => [disk'["current"] = Bad => disk["current"] = Bad]_vars
    BY CurrentStaysReadable
<1>2. QED
    BY <1>1, Invariance, PTL DEF Spec, NoTornCurrent

----------------------------------------------------------------------------
(* NeverLost, RebootServes and the refinement: no rename or read fails. *)

\* Which process is running, and what the files hold, at each step.
Placed ==
    /\ pc \in {"off"} \union LoadSteps => served = Down
    /\ pc = "ready" => served # Down
    /\ pc \in {"load_bak", "restore"} => disk["current"] = Absent
    /\ pc \in {"check_rejected", "quarantine"} => disk["current"] = Bad
    /\ pc = "quarantine" => disk["rejected"] = Absent
    /\ pc = "sync_rejected" => disk["current"] = Absent
    /\ pc = "rotate" => disk["bak"] = Absent
    /\ pc = "install" => disk["current"] = Absent
    /\ pc = "sync_current" => disk["current"] = record

\* A migration rewrites the payload the files already hold.
MigrationKeeps ==
    Migrating =>
        LET kept == IF pc = "install" THEN disk["bak"] ELSE disk["current"]
        IN  kept \in Valid /\ kept[2] = record[2]

\* The current record holds the served payload while a process works with it.
ServedInPlace ==
    served \notin {None, Down} =>
        (IF pc = "install" THEN disk["bak"] ELSE disk["current"]) \in Valid

\* Where a promised payload is: in the backup only while no process runs or
\* between the two renames that bring a record into place.
Owed ==
    promised # {} =>
        /\ record # Absent => record[2] \in promised
        /\ \/ disk["current"] \in Valid /\ disk["current"][2] \in promised
           \/ /\ pc \in {"off", "load", "load_bak", "restore", "install"}
              /\ disk["current"] = Absent
              /\ disk["bak"] \in Valid /\ disk["bak"][2] \in promised

Kept == Safe /\ Placed /\ MigrationKeeps /\ ServedInPlace /\ Owed

LEMMA KeptInit == Init => Kept
BY SafeInit DEF Init, Kept, Placed, MigrationKeeps, ServedInPlace, Owed,
   CommitSteps, LoadSteps, Migrating

LEMMA KeptNext == NoMoveFails /\ Kept /\ [Next]_vars => Kept'
<1> SUFFICES ASSUME NoMoveFails, Kept, [Next]_vars
             PROVE  (Placed /\ MigrationKeeps /\ ServedInPlace /\ Owed)'
    BY SafeNext DEF Kept
<1> USE ContentFacts, PayloadsAssumption
    DEF Kept, Placed, MigrationKeeps, ServedInPlace, Owed, Migrating,
        Safe, TypeOK, Tidy, Files, CommitSteps, LoadSteps, Goto, Serve, NoMoveFails
<1>1. CASE PowerOn
    BY <1>1 DEF PowerOn
<1>2. CASE LoadCurrent
    BY <1>2 DEF LoadCurrent, ReadBytes, Canonical, Legacy, Valid, Contents
<1>3. CASE LoadBackup
    BY <1>3 DEF LoadBackup, ReadBytes
<1>4. CASE CheckRejected
    BY <1>4 DEF CheckRejected, ReadBytes
<1>5. CASE Quarantine
    BY <1>5 DEF Quarantine, Rename, Raises
<1>6. CASE SyncRejected
    BY <1>6 DEF SyncRejected, CallSync, Raises
<1>7. CASE RestoreBackup
    BY <1>7 DEF RestoreBackup, Rename, Raises
<1>8. CASE SyncRestored
    BY <1>8 DEF SyncRestored, CallSync, Raises, ReadBytes
<1>9. CASE \E p \in Payloads : Commit(p)
    BY <1>9 DEF Commit
<1>10. CASE WriteTmp
    BY <1>10 DEF WriteTmp, CommitFails
<1>11. CASE SyncTmp
    BY <1>11 DEF SyncTmp, CallSync, Raises, CommitFails
<1>12. CASE RemoveBackup
    BY <1>12 DEF RemoveBackup, ReadBytes, Raises, CommitFails
<1>13. CASE RotateCurrent
    BY <1>13 DEF RotateCurrent, Rename, ReadBytes, Raises, CommitFails
<1>14. CASE InstallTmp
    BY <1>14 DEF InstallTmp, Rename, Raises, CommitFails
<1>15. CASE SyncCurrent
    BY <1>15 DEF SyncCurrent, CallSync, Raises, CommitFails
<1>16. CASE PowerLoss
    BY <1>16 DEF PowerLoss, Running
<1>17. CASE UNCHANGED vars
    BY <1>17 DEF vars
<1>18. QED
    BY <1>1, <1>2, <1>3, <1>4, <1>5, <1>6, <1>7, <1>8, <1>9, <1>10, <1>11,
       <1>12, <1>13, <1>14, <1>15, <1>16, <1>17 DEF Next, Load, CommitRecord

LEMMA KeptInvariant ==
    ASSUME NoMoveFails
    PROVE  Spec => []Kept
<1>1. Init => Kept
    BY KeptInit
<1>2. Kept /\ [Next]_vars => Kept'
    BY KeptNext
<1>3. QED
    BY <1>1, <1>2, PTL DEF Spec

\* PromisesKept: NeverLost for every set of payloads.  What a process served or
\* acknowledged survives any number of crashes, torn writes, failed writes,
\* syncs and removals.
THEOREM PromisesKept ==
    ASSUME NoMoveFails
    PROVE  Spec => []NeverLost
<1>1. Kept => NeverLost
    BY ContentFacts DEF Kept, Owed, NeverLost, Effective
<1>2. QED
    BY <1>1, KeptInvariant, PTL

LEMMA ServesOwed ==
    ASSUME NoMoveFails, Kept, [Next]_vars,
           served = Down, pc' = "ready", promised # {}
    PROVE  served' \in promised
<1> USE ContentFacts, PayloadsAssumption
    DEF Kept, Placed, MigrationKeeps, Owed, Migrating, Safe, TypeOK, Tidy,
        Files, CommitSteps, LoadSteps, Goto, Serve, NoMoveFails
<1>1. CASE LoadCurrent \/ LoadBackup \/ CheckRejected
    BY <1>1 DEF LoadCurrent, LoadBackup, CheckRejected, ReadBytes, Canonical, Valid
<1>2. CASE Quarantine \/ SyncRejected \/ RestoreBackup
    BY <1>2 DEF Quarantine, SyncRejected, RestoreBackup, Raises
<1>3. CASE SyncRestored
    BY <1>3 DEF SyncRestored, ReadBytes
<1>4. CASE CommitRecord
    BY <1>4 DEF CommitRecord, WriteTmp, SyncTmp, RemoveBackup, RotateCurrent,
                InstallTmp, SyncCurrent, CommitFails, Raises
<1>5. CASE PowerOn \/ (\E p \in Payloads : Commit(p)) \/ PowerLoss \/ UNCHANGED vars
    BY <1>5 DEF PowerOn, Commit, PowerLoss, vars
<1>6. QED
    BY <1>1, <1>2, <1>3, <1>4, <1>5 DEF Next, Load

\* RebootsServePromises: RebootServes for every set of payloads.
THEOREM RebootsServePromises ==
    ASSUME NoMoveFails
    PROVE  Spec => RebootServes
<1>1. Kept /\ [Next]_vars
          => [(served = Down /\ pc' = "ready" /\ promised # {}) => served' \in promised]_vars
    BY ServesOwed
<1>2. QED
    BY <1>1, KeptInvariant, PTL DEF Spec, RebootServes

----------------------------------------------------------------------------
(* Every step of the store is a step of one durable record, or stutters. *)

\* The two values of the contract that are not variables of the store.
Requested == IF record = Absent \/ Migrating THEN None ELSE record[2]

LEMMA StepImplements ==
    ASSUME NoMoveFails, Kept, [Next]_vars
    PROVE  [Contract!Next]_(Contract!vars)
<1> SUFFICES Contract!Next \/ UNCHANGED <<Effective, served, Requested>>
    BY DEF Contract!vars, Requested
<1> USE ContentFacts, PayloadsAssumption
    DEF Kept, Placed, MigrationKeeps, ServedInPlace, Migrating, Safe, TypeOK, Tidy,
        Files, CommitSteps, LoadSteps, Goto, Serve, NoMoveFails, Effective, Requested
<1>1. CASE PowerOn \/ UNCHANGED vars
    BY <1>1 DEF PowerOn, vars
<1>2. CASE LoadCurrent
    BY <1>2 DEF LoadCurrent, ReadBytes, Contract!Next, Contract!Boot, Canonical, Legacy, Valid
<1>3. CASE LoadBackup
    BY <1>3 DEF LoadBackup, ReadBytes, Contract!Next, Contract!Boot
<1>4. CASE CheckRejected
    BY <1>4 DEF CheckRejected, ReadBytes, Contract!Next, Contract!Boot
<1>5. CASE Quarantine
    BY <1>5 DEF Quarantine, Rename, Raises
<1>6. CASE SyncRejected
    BY <1>6 DEF SyncRejected, CallSync, Raises, Contract!Next, Contract!Boot
<1>7. CASE RestoreBackup
    BY <1>7 DEF RestoreBackup, Rename, Raises
<1>8. CASE SyncRestored
    BY <1>8 DEF SyncRestored, CallSync, Raises, ReadBytes, Contract!Next, Contract!Boot
<1>9. CASE \E p \in Payloads : Commit(p)
    BY <1>9 DEF Commit, Contract!Next, Contract!Request
<1>10. CASE WriteTmp
    BY <1>10 DEF WriteTmp, CommitFails, Contract!Next, Contract!Boot, Contract!Fail
<1>11. CASE SyncTmp
    BY <1>11 DEF SyncTmp, CallSync, Raises, CommitFails,
                 Contract!Next, Contract!Boot, Contract!Fail
<1>12. CASE RemoveBackup
    BY <1>12 DEF RemoveBackup, ReadBytes, Raises, CommitFails,
                 Contract!Next, Contract!Boot, Contract!Fail, Contract!Discard
<1>13. CASE RotateCurrent
    BY <1>13 DEF RotateCurrent, Rename, ReadBytes, Raises
<1>14. CASE InstallTmp
    BY <1>14 DEF InstallTmp, Rename, Raises, Contract!Next, Contract!Replace
<1>15. CASE SyncCurrent
    BY <1>15 DEF SyncCurrent, CallSync, Raises, CommitFails, Contract!Next,
                 Contract!Boot, Contract!Fail, Contract!Acknowledge
<1>16. CASE PowerLoss
    BY <1>16 DEF PowerLoss, Running, Contract!Next, Contract!PowerLoss
<1>17. QED
    BY <1>1, <1>2, <1>3, <1>4, <1>5, <1>6, <1>7, <1>8, <1>9, <1>10, <1>11,
       <1>12, <1>13, <1>14, <1>15, <1>16 DEF Next, Load, CommitRecord

\* ContractHolds: ImplementsContract for every set of payloads: to its callers
\* the four files are one payload that commit() replaces atomically.
THEOREM ContractHolds ==
    ASSUME NoMoveFails
    PROVE  Spec => ImplementsContract
<1>1. Init => Contract!Init
    BY ContentFacts DEF Init, Contract!Init, Effective
<1>2. Kept /\ [Next]_vars => [Contract!Next]_(Contract!vars)
    BY StepImplements
<1>3. QED
    BY <1>1, <1>2, KeptInvariant, PTL DEF Spec, ImplementsContract, Contract!Spec

----------------------------------------------------------------------------
(* EvidenceKept: a restore only renames onto names that are free, unless a *)
(* file that could not be read was taken for a missing one.                *)

Vacant ==
    /\ pc \in {"load_bak", "sync_rejected", "restore"} => disk["current"] = Absent
    /\ pc = "quarantine" => disk["rejected"] = Absent

LEMMA VacantNext ==
    ASSUME "read" \notin Faults, Safe, Vacant, [Next]_vars
    PROVE  Vacant'
<1> USE ContentFacts DEF Vacant, Safe, TypeOK, Tidy, Files, Goto, Serve
<1>1. CASE PowerOn \/ (\E p \in Payloads : Commit(p))
    BY <1>1 DEF PowerOn, Commit
<1>2. CASE LoadCurrent \/ LoadBackup \/ CheckRejected
    BY <1>2 DEF LoadCurrent, LoadBackup, CheckRejected, ReadBytes
<1>3. CASE Quarantine
    BY <1>3 DEF Quarantine, Rename
<1>4. CASE SyncRejected
    BY <1>4 DEF SyncRejected, CallSync
<1>5. CASE RestoreBackup \/ SyncRestored
    BY <1>5 DEF RestoreBackup, SyncRestored
<1>6. CASE CommitRecord
    <2>1. pc' \in {"sync_tmp", "remove", "rotate", "install", "sync_current", "ready"}
        BY <1>6 DEF CommitRecord, WriteTmp, SyncTmp, RemoveBackup, RotateCurrent, InstallTmp,
                    SyncCurrent, CommitFails
    <2> QED BY <2>1
<1>7. CASE PowerLoss
    BY <1>7 DEF PowerLoss
<1>8. CASE UNCHANGED vars
    BY <1>8 DEF vars
<1> QED BY <1>1, <1>2, <1>3, <1>4, <1>5, <1>6, <1>7, <1>8 DEF Next, Load

LEMMA FourFiles == IsFiniteSet(Files)
<1>1. IsFiniteSet({"current"})
    BY FS_Singleton
<1>2. IsFiniteSet({"current"} \union {"bak"})
    BY <1>1, FS_AddElement
<1>3. IsFiniteSet(({"current"} \union {"bak"}) \union {"tmp"})
    BY <1>2, FS_AddElement
<1>4. IsFiniteSet((({"current"} \union {"bak"}) \union {"tmp"}) \union {"rejected"})
    BY <1>3, FS_AddElement
<1>5. Files = (({"current"} \union {"bak"}) \union {"tmp"}) \union {"rejected"}
    BY DEF Files
<1> QED BY <1>4, <1>5

\* A rename onto a free name keeps every content in as many files.
LEMMA RenameMoves ==
    ASSUME disk \in [Files -> Contents], NEW from \in Files, NEW to \in Files, from # to,
           disk[to] = Absent, Rename(from, to), NEW c \in Contents \ {Absent}
    PROVE  Cardinality(Holding(c)') = Cardinality(Holding(c))
<1>1. IsFiniteSet(Files)
    BY FourFiles
<1>2. \A S : S \subseteq Files => IsFiniteSet(S)
    BY <1>1, FS_Subset
<1>3. disk' = [disk EXCEPT ![to] = disk[from], ![from] = Absent]
    BY DEF Rename
<1>4. CASE disk[from] = c
    <2> DEFINE rest == Holding(c) \ {from}
    <2>1. Holding(c) = rest \union {from} /\ from \notin rest
        BY <1>4 DEF Holding
    <2>2. Holding(c)' = rest \union {to} /\ to \notin rest
        BY <1>3, <1>4 DEF Holding
    <2>3. IsFiniteSet(rest)
        BY <1>2 DEF Holding
    <2> HIDE DEF rest
    <2>4. Cardinality(rest \union {from}) = Cardinality(rest) + 1
        BY <2>1, <2>3, FS_AddElement
    <2>5. Cardinality(rest \union {to}) = Cardinality(rest) + 1
        BY <2>2, <2>3, FS_AddElement
    <2>6. Cardinality(Holding(c)) = Cardinality(rest) + 1
        BY <2>1, <2>4
    <2>7. Cardinality(Holding(c)') = Cardinality(rest) + 1
        BY <2>2, <2>5
    <2> QED BY <2>6, <2>7
<1>5. CASE disk[from] # c
    <2>1. Holding(c)' = Holding(c)
        BY <1>3, <1>5 DEF Holding
    <2> QED BY <2>1
<1> QED BY <1>4, <1>5

\* EvidenceAlwaysKept: as long as files can be read, no step of a load(), power
\* loss included, loses a content it found, readable or not, whatever else fails.
THEOREM EvidenceAlwaysKept ==
    ASSUME "read" \notin Faults
    PROVE  Spec => EvidenceKept
<1>1. Safe /\ Vacant /\ [Next]_vars => [OnlyMovesFiles]_vars
    <2> SUFFICES ASSUME Safe, Vacant, Next, pc \in LoadSteps, NEW c \in Contents \ {Absent}
                 PROVE  Cardinality(Holding(c)') >= Cardinality(Holding(c))
        BY DEF OnlyMovesFiles
    <2>1. /\ disk \in [Files -> Contents] /\ unsynced = {}
          /\ pc \in {"load", "load_bak", "check_rejected", "quarantine", "sync_rejected", "restore",
                     "sync_restored"}
          /\ "current" \in Files /\ "bak" \in Files /\ "rejected" \in Files
        BY DEF Safe, TypeOK, Tidy, LoadSteps, Files
    <2>2. Cardinality(Holding(c)) \in Nat
        <3>1. IsFiniteSet(Files)
            BY FourFiles
        <3> QED BY <3>1, FS_Subset, FS_CardinalityType DEF Holding
    <2>3. ASSUME disk' = disk PROVE Cardinality(Holding(c)') >= Cardinality(Holding(c))
        <3>1. Holding(c)' = Holding(c)
            BY <2>3 DEF Holding
        <3> QED BY <2>2, <3>1
    <2>4. CASE Quarantine
        <3>1. CASE Rename("current", "rejected")
            <4>1. disk["rejected"] = Absent
                BY <2>4 DEF Quarantine, Vacant
            <4> QED BY <2>1, <2>2, <3>1, <4>1, RenameMoves
        <3> QED BY <2>3, <2>4, <3>1 DEF Quarantine, Raises
    <2>5. CASE RestoreBackup
        <3>1. CASE Rename("bak", "current")
            <4>1. disk["current"] = Absent
                BY <2>5 DEF RestoreBackup, Vacant
            <4> QED BY <2>1, <2>2, <3>1, <4>1, RenameMoves
        <3> QED BY <2>3, <2>5, <3>1 DEF RestoreBackup, Raises
    <2>6. CASE LoadCurrent \/ LoadBackup \/ CheckRejected \/ SyncRejected \/ SyncRestored
        BY <2>3, <2>6 DEF LoadCurrent, LoadBackup, CheckRejected, SyncRejected, SyncRestored,
                          CallSync, Raises
    <2>7. CASE PowerLoss
        <3>1. disk' = disk
            BY <2>1, <2>7 DEF PowerLoss
        <3> QED BY <2>3, <3>1
    <2>8. ~(PowerOn \/ CommitRecord \/ (\E p \in Payloads : Commit(p)))
        BY <2>1 DEF PowerOn, Commit, CommitRecord, WriteTmp, SyncTmp, RemoveBackup, RotateCurrent,
                    InstallTmp, SyncCurrent
    <2> QED BY <2>4, <2>5, <2>6, <2>7, <2>8 DEF Next, Load
<1>2. Init => Vacant
    BY DEF Init, Vacant
<1>3. Safe /\ Vacant /\ [Next]_vars => Vacant'
    BY VacantNext
<1> QED BY <1>1, <1>2, <1>3, Invariance, PTL DEF Spec, EvidenceKept
=============================================================================
