----------------------------- MODULE StoreProofs ----------------------------
(***************************************************************************)
(* What is kept on disk: the database and its migration to a sealed one    *)
(* (StateMigration), and the processes stored in it (Processes).           *)
(*                                                                         *)
(* StateMigration: for any number of crashes and writes, when no plaintext *)
(* boot follows a sealed one, no write is lost and what is served is       *)
(* complete and sealed.  NothingLost is not inductive: it does not say     *)
(* what the other directories hold at each step.  MInv adds that.          *)
(*                                                                         *)
(* Processes: the store, its watchers and its registrar, for any number of *)
(* triggers, any retention and any number of failures.                     *)
(***************************************************************************)
EXTENDS StateMigration, Processes, FiniteSetTheorems, TLAPS

\* Nothing was ever written, and there is no database.
Fresh == kind["db"] \in {"none", "empty"} /\ writes = 0 /\ data["db"] = 0

\* Before the first sealed boot there is a plaintext database, or none.
BeforeSealing ==
    /\ ~marker
    /\ kind["temp"] = "none" /\ kind["backup"] = "none"
    /\ pc \in {"down", "open", "serving"}
    /\ mode = "plain"

\* The directory a boot starts from is complete: the sealed database once there is
\* a marker, before that the backup of an interrupted swap, or the plaintext.
StartComplete ==
    /\ marker => \/ kind["db"] = "sealed" /\ data["db"] = writes
                 \/ Fresh /\ kind["backup"] = "none"
    /\ kind["backup"] \in {"none", "partial", "plain"}
    /\ ~marker => kind["backup"] # "partial"
    /\ kind["backup"] = "plain" => data["backup"] = writes
    /\ ~marker /\ kind["backup"] = "none" =>
          \/ kind["db"] = "plain" /\ data["db"] = writes
          \/ Fresh

\* What a boot has established by the time it reaches each of its steps.
Reached ==
    /\ pc \in {"stale_temp", "stale_backup", "clean_backup", "verify", "drop_backup"} => marker
    /\ pc \in {"rollback", "restore", "partial_temp", "source", "copy", "verify_copy",
               "set_aside", "swap_in", "mark"} => ~marker
    /\ pc \in {"stale_backup", "clean_backup", "source", "mark", "verify", "drop_backup",
               "seal", "open", "serving"} => kind["temp"] = "none"
    /\ pc \in {"partial_temp", "source", "copy", "verify_copy", "set_aside",
               "seal", "open", "serving"} => kind["backup"] = "none"
    /\ pc = "restore" => kind["backup"] = "plain" /\ kind["db"] = "none"
    /\ pc = "seal" /\ ~marker => Fresh
    /\ pc = "clean_backup" => kind["db"] = "sealed"
    /\ pc \in {"copy", "verify_copy", "set_aside"} => kind["db"] = "plain"
    /\ pc = "copy" => kind["temp"] \in {"none", "partial"}
    /\ pc \in {"verify_copy", "set_aside", "swap_in"} =>
          kind["temp"] = "sealed" /\ data["temp"] = writes
    /\ pc = "swap_in" => kind["backup"] = "plain" /\ kind["db"] = "none"
    /\ pc = "mark" => kind["backup"] = "plain" /\ kind["db"] = "sealed" /\ data["db"] = writes
    /\ pc \in {"verify", "drop_backup"} => kind["db"] = "sealed"
    /\ pc \in {"open", "serving"} /\ mode = "sealed" => marker
    /\ pc = "serving" => kind["db"] = mode

MInv ==
    /\ MigrationTypeOK
    /\ ~sealing => BeforeSealing
    /\ sealing /\ pc # "down" => mode = "sealed"
    /\ StartComplete
    /\ Reached

----------------------------------------------------------------------------
LEMMA InitMInv == MigrationInit => MInv
<1> SUFFICES ASSUME MigrationInit PROVE MInv
  OBVIOUS
<1>1. /\ kind["db"] = "none" /\ kind["temp"] = "none" /\ kind["backup"] = "none"
      /\ data["db"] = 0
      /\ kind \in [Dirs -> Contents] /\ data \in [Dirs -> Nat]
  BY DEF MigrationInit, Dirs, Contents, Formats
<1>2. MigrationTypeOK
  BY <1>1 DEF MigrationInit, MigrationTypeOK, Modes, Steps
<1>3. BeforeSealing /\ StartComplete /\ Reached
  BY <1>1 DEF MigrationInit, BeforeSealing, StartComplete, Reached, Fresh
<1> QED
  BY <1>2, <1>3 DEF MigrationInit, MInv

LEMMA NextMInv ==
  ASSUME ~PlainAfterSealed
  PROVE  MInv /\ [MigrationNext]_migrationVars => MInv'
<1> SUFFICES ASSUME MInv, [MigrationNext]_migrationVars PROVE MInv'
  OBVIOUS
<1> USE MigrationAssumption DEF MInv, MigrationTypeOK, BeforeSealing, StartComplete, Reached, Fresh,
        Dirs, Contents, Formats, Modes, Steps, exists, BootAt, Put, disk, history
<1>1. ASSUME NEW m \in Modes, Boot(m) PROVE MInv'
  <2>1. CASE m = "plain"
    <3>1. ~sealing /\ ~sealing'
      BY <1>1, <2>1 DEF Boot
    <3>2. sealing' \in BOOLEAN
      BY <1>1 DEF Boot
    <3> QED
      BY <1>1, <2>1, <3>1, <3>2 DEF Boot
  <2>2. CASE m = "sealed"
    <3>1. sealing'
      BY <1>1, <2>2 DEF Boot
    <3>2. sealing' \in BOOLEAN
      BY <1>1 DEF Boot
    <3> QED
      BY <1>1, <2>2, <3>1, <3>2 DEF Boot
  <2> QED
    BY <1>1, <2>1, <2>2
<1>2. CASE FetchDek
  BY <1>2 DEF FetchDek
<1>3. CASE CheckMarker
  BY <1>3 DEF CheckMarker
<1>4. CASE RemoveStaleTemp
  BY <1>4 DEF RemoveStaleTemp, RemoveBegins, RemoveEnds
<1>5. CASE CheckBackup
  BY <1>5 DEF CheckBackup, VerifyOpen
<1>6. CASE CleanBackup
  BY <1>6 DEF CleanBackup, RemoveBegins, RemoveEnds
<1>7. CASE CheckRollback
  BY <1>7 DEF CheckRollback, RemoveBegins, RemoveEnds
<1>8. CASE Restore
  BY <1>8 DEF Restore, Rename
<1>9. CASE RemovePartialTemp
  BY <1>9 DEF RemovePartialTemp, RemoveBegins, RemoveEnds
<1>10. CASE CheckSource
  BY <1>10 DEF CheckSource
<1>11. CASE CopyBegins
  BY <1>11 DEF CopyBegins
<1>12. CASE CopyEnds
  BY <1>12 DEF CopyEnds
<1>13. CASE VerifyCopy
  BY <1>13 DEF VerifyCopy, VerifyOpen
<1>14. CASE SetAside
  BY <1>14 DEF SetAside, Rename
<1>15. CASE SwapIn
  BY <1>15 DEF SwapIn, Rename
<1>16. CASE Mark
  BY <1>16 DEF Mark
<1>17. CASE Verify
  BY <1>17 DEF Verify, VerifyOpen
<1>18. CASE DropBackup
  BY <1>18 DEF DropBackup, RemoveBegins, RemoveEnds
<1>19. CASE Seal
  BY <1>19 DEF Seal
<1>20. CASE Open
  BY <1>20 DEF Open
<1>21. CASE Write
  BY <1>21 DEF Write
<1>22. CASE Stop
  BY <1>22 DEF Stop
<1>23. CASE UNCHANGED migrationVars
  BY <1>23 DEF migrationVars
<1> QED
  BY <1>1, <1>2, <1>3, <1>4, <1>5, <1>6, <1>7, <1>8, <1>9, <1>10, <1>11, <1>12, <1>13, <1>14, <1>15, <1>16, <1>17, <1>18, <1>19, <1>20, <1>21, <1>22, <1>23 DEF MigrationNext, BootStep

LEMMA AlwaysMInv ==
  ASSUME ~PlainAfterSealed PROVE MigrationSpec => []MInv
<1>1. MInv /\ [MigrationNext]_migrationVars => MInv'
  BY NextMInv
<1> QED
  BY <1>1, InitMInv, PTL DEF MigrationSpec

\* Every variable of the boot keeps its shape.
THEOREM MigrationTypeCorrect ==
  ASSUME ~PlainAfterSealed PROVE MigrationSpec => []MigrationTypeOK
<1>1. MInv => MigrationTypeOK
  BY DEF MInv
<1> QED
  BY <1>1, AlwaysMInv, PTL

\* Wherever a boot, a copy or a removal is cut off, and however often, the
\* directory the next boot starts from holds every acknowledged write.
THEOREM MigrationLosesNothing ==
  ASSUME ~PlainAfterSealed PROVE MigrationSpec => []NothingLost
<1>1. MInv => NothingLost
  BY DEF MInv, MigrationTypeOK, StartComplete, Fresh, NothingLost, Authoritative, exists, Dirs
<1> QED
  BY <1>1, AlwaysMInv, PTL

\* A node that serves has every write, and a sealed one has left no plaintext.
THEOREM MigrationServesEverything ==
  ASSUME ~PlainAfterSealed PROVE MigrationSpec => []ServesEverything
<1>1. MInv => ServesEverything
  BY DEF MInv, MigrationTypeOK, StartComplete, Reached, Fresh, ServesEverything, exists, Dirs, Modes
<1> QED
  BY <1>1, AlwaysMInv, PTL

\* The step that gives up the plaintext backup: either a complete sealed database
\* is live and marked, or the backup becomes the database again.
BackupGivenUp ==
    kind["backup"] = "plain" /\ kind'["backup"] # "plain" =>
        \/ marker /\ kind["db"] = "sealed" /\ data["db"] = data["backup"]
        \/ kind'["db"] = "plain" /\ data'["db"] = data["backup"]

LEMMA NextBackup == MInv /\ [MigrationNext]_migrationVars => BackupGivenUp
<1> SUFFICES ASSUME MInv, [MigrationNext]_migrationVars, kind["backup"] = "plain", kind'["backup"] # "plain"
             PROVE  \/ marker /\ kind["db"] = "sealed" /\ data["db"] = data["backup"]
                    \/ kind'["db"] = "plain" /\ data'["db"] = data["backup"]
  BY DEF BackupGivenUp
<1> USE DEF MInv, MigrationTypeOK, Dirs, Put, BootAt, exists
<1>1. CASE CleanBackup
  BY <1>1 DEF CleanBackup, RemoveBegins, RemoveEnds, StartComplete, Reached
<1>2. CASE DropBackup
  BY <1>2 DEF DropBackup, RemoveBegins, RemoveEnds, StartComplete, Reached
<1>3. CASE Restore
  BY <1>3 DEF Restore, Rename, Reached
<1>4. CASE SetAside
  BY <1>4 DEF SetAside, Rename, Reached
<1>5. CASE RemoveStaleTemp \/ CheckRollback \/ RemovePartialTemp
  BY <1>5 DEF RemoveStaleTemp, CheckRollback, RemovePartialTemp, RemoveBegins, RemoveEnds, disk
<1>6. CASE CheckBackup \/ VerifyCopy \/ Verify \/ SwapIn
  BY <1>6 DEF CheckBackup, VerifyCopy, Verify, VerifyOpen, SwapIn, Rename, disk
<1>7. CASE \/ FetchDek \/ CheckMarker \/ CheckSource \/ Mark \/ Seal \/ Stop \/ UNCHANGED migrationVars
  BY <1>7 DEF FetchDek, CheckMarker, CheckSource, Mark, Seal, Stop, migrationVars, disk
<1>8. CASE CopyBegins \/ CopyEnds \/ Open \/ Write \/ \E m \in Modes : Boot(m)
  BY <1>8 DEF CopyBegins, CopyEnds, Open, Write, Boot
<1> QED
  BY <1>1, <1>2, <1>3, <1>4, <1>5, <1>6, <1>7, <1>8 DEF MigrationNext, BootStep

\* The plaintext backup outlives the copy that replaces it, in every behaviour.
THEOREM MigrationBackupOutlivesCopy ==
  ASSUME ~PlainAfterSealed PROVE MigrationSpec => BackupOutlivesCopy
<1>1. MInv /\ [MigrationNext]_migrationVars => [BackupGivenUp]_migrationVars
  BY NextBackup
<1> QED
  BY <1>1, AlwaysMInv, PTL DEF MigrationSpec, BackupOutlivesCopy, BackupGivenUp

-----------------------------------------------------------------------------
(* Processes.                                                                *)

\* Most steps are first-order reasoning; the ones that need arithmetic cite SMT.
USE Zenon

LEMMA RequestFacts ==
    /\ Triggers \subseteq Requests /\ Edits \subseteq Requests
    /\ create \in Edits /\ update \in Edits /\ delete \in Edits
    /\ \A r \in Triggers : r \notin Edits
    /\ \A r \in Triggers : r \in Nat \ {0}
    /\ MaxTriggers \in Nat /\ IsFiniteSet(Triggers) /\ Cardinality(Triggers) = MaxTriggers
<1>1. IsFiniteSet(Triggers) /\ Cardinality(Triggers) = MaxTriggers
  BY ProcessesAssumption, FS_Interval, SMT DEF Triggers
<1> QED
  BY <1>1, ProcessesAssumption, SMT DEF Requests, Edits, Triggers

----------------------------------------------------------------------------
(* Shapes.                                                                  *)

StoreTypes ==
    /\ record \in Records /\ runs \in [Triggers -> Statuses \cup {"absent"}]
    /\ last \in Nat /\ seq \in [Triggers -> Nat] /\ put \subseteq Triggers

HandTypes ==
    /\ at \in [Requests -> Places]
    /\ copy \in [Requests -> Records] /\ doomed \in [Requests -> SUBSET Triggers]
    /\ outcome \in [Triggers -> Statuses]
    /\ upsets \in Nat /\ lost \subseteq Triggers /\ stale \in BOOLEAN
    \* A request that is about to write a record back holds one.
    /\ \A q \in Requests : at[q] \in {"write", "put_run", "put_record"} => copy[q] # None

ChatTypes ==
    /\ driver \in [Triggers -> {"none", "idle", "stopped"}] /\ prompted \subseteq Triggers
    /\ frames \in [Triggers -> Told] /\ pushed \in [Triggers -> Nat] /\ next \in [Triggers -> Nat]

SyncTypes ==
    /\ registry \in Records
    /\ sync \in [Requests -> {"none", "due", "push"}] /\ seen \in [Requests -> Records]
    /\ tries \in [Requests -> Nat] /\ behind \in [Requests -> SUBSET Requests]

Shapes == StoreTypes /\ HandTypes /\ ChatTypes /\ SyncTypes

LEMMA ShapesInit == Init => Shapes
<1> SUFFICES ASSUME NEW who \in DOMAIN Scenarios,
                    LET ran == {r \in Triggers \ who : \E s \in who \cap Triggers : r < s} IN
                    /\ at = [q \in Requests |-> IF q \in who THEN "coming" ELSE "over"]
                    /\ record = IF create \in who THEN None
                                ELSE [edit |-> create, run |-> Cardinality(ran)]
                    /\ registry = record
                    /\ runs = [r \in Triggers |-> IF r \in ran THEN "Failure" ELSE "absent"]
                    /\ last = Cardinality(ran)
                    /\ seq = [r \in Triggers |-> IF r \in ran THEN r ELSE 0]
                    /\ put = ran
                    /\ upsets = Scenarios[who]
                    /\ copy = [q \in Requests |-> None]
                    /\ doomed = [q \in Requests |-> {}]
                    /\ outcome = [r \in Triggers |-> "Running"]
                    /\ driver = [r \in Triggers |-> "none"]
                    /\ prompted = {}
                    /\ frames = [r \in Triggers |-> <<>>]
                    /\ pushed = [r \in Triggers |-> 0]
                    /\ next = [r \in Triggers |-> 0]
                    /\ sync = [q \in Requests |-> "none"] /\ seen = [q \in Requests |-> None]
                    /\ tries = [q \in Requests |-> 0] /\ behind = [q \in Requests |-> {}]
                    /\ lost = {} /\ stale = FALSE
             PROVE  Shapes
  BY DEF Init
<1> DEFINE ran == {r \in Triggers \ who : \E s \in who \cap Triggers : r < s}
<1>1. Cardinality(ran) \in Triggers \cup {0} /\ Cardinality(ran) \in Nat
  <2>1. ran \subseteq Triggers
    OBVIOUS
  <2>2. Cardinality(ran) <= MaxTriggers /\ Cardinality(ran) \in Nat
    BY <2>1, RequestFacts, FS_Subset, FS_CardinalityType
  <2> QED
    BY <2>2, RequestFacts, SMT DEF Triggers
<1>2. record \in Records
  BY <1>1, RequestFacts DEF Records
<1>3. StoreTypes
  BY <1>1, <1>2, RequestFacts DEF StoreTypes, Statuses
<1>4. HandTypes
  BY ProcessesAssumption DEF HandTypes, Places, Records, Statuses
<1>5. ChatTypes
  BY DEF ChatTypes, Told
<1>6. SyncTypes
  BY <1>2 DEF SyncTypes, Records
<1> QED
  BY <1>3, <1>4, <1>5, <1>6 DEF Shapes

LEMMA GotoTypes ==
    ASSUME NEW q \in Requests, NEW place \in Places, at \in [Requests -> Places], Goto(q, place)
    PROVE  /\ at' \in [Requests -> Places] /\ at'[q] = place
           /\ \A p \in Requests : p # q => at'[p] = at[p]
  BY DEF Goto

\* A step that moves one request, and leaves its copy or drops it.
LEMMA HandMoves ==
    ASSUME HandTypes, NEW q \in Requests, NEW place \in Places, Goto(q, place),
           copy' \in [Requests -> Records], \A p \in Requests : p # q => copy'[p] = copy[p],
           place \in {"write", "put_run", "put_record"} => copy'[q] # None,
           doomed' \in [Requests -> SUBSET Triggers], outcome' \in [Triggers -> Statuses],
           upsets' \in Nat, lost' \subseteq Triggers, stale' \in BOOLEAN
    PROVE  HandTypes'
<1>1. /\ at' \in [Requests -> Places] /\ at'[q] = place
      /\ \A p \in Requests : p # q => at'[p] = at[p]
  BY GotoTypes DEF HandTypes
<1> QED
  BY <1>1 DEF HandTypes

LEMMA HandUnchanged ==
    ASSUME HandTypes, UNCHANGED <<at, copy, doomed, outcome, lost, stale>>, upsets' \in Nat
    PROVE  HandTypes'
  BY DEF HandTypes

LEMMA StoreUnchanged ==
    ASSUME StoreTypes, UNCHANGED storeVars PROVE StoreTypes'
  BY DEF StoreTypes, storeVars

LEMMA ChatUnchanged ==
    ASSUME ChatTypes, UNCHANGED chatVars PROVE ChatTypes'
  BY DEF ChatTypes, chatVars

LEMMA SyncUnchanged ==
    ASSUME SyncTypes, UNCHANGED syncVars PROVE SyncTypes'
  BY DEF SyncTypes, syncVars

LEMMA UpsetTypes ==
    ASSUME upsets \in Nat, Upset PROVE upsets' \in Nat
  BY SMT DEF Upset

LEMMA NotifiesTypes ==
    ASSUME SyncTypes, NEW q \in Requests, Notifies(q)
    PROVE  /\ SyncTypes' /\ sync'[q] = "due" /\ (\A p \in Requests : p # q => sync'[p] = sync[p])
           /\ \E place \in {"prepare", "over"} : Goto(q, place)
<1>1. sync' \in [Requests -> {"none", "due", "push"}]
  BY DEF Notifies, SyncTypes
<1> QED
  BY <1>1 DEF Notifies, SyncTypes

LEMMA ConcludeTypes ==
    ASSUME HandTypes, ChatTypes, NEW r \in Triggers, NEW status \in Statuses, Conclude(r, status),
           UNCHANGED <<copy, doomed, upsets, lost, stale>>
    PROVE  HandTypes' /\ ChatTypes'
<1>1. outcome' \in [Triggers -> Statuses]
  BY DEF Conclude, HandTypes
<1>2. HandTypes'
  BY <1>1, HandMoves, RequestFacts DEF Conclude, HandTypes, Places
<1>3. Len(frames[r]) \in Nat
  BY SMT DEF ChatTypes, Told
<1>4. ChatTypes'
  BY <1>3 DEF Conclude, ChatTypes
<1> QED
  BY <1>2, <1>4

LEMMA InspectTypes == \A f : inspect_frame(f) \in Statuses
  BY DEF inspect_frame, Statuses

\* The steps of a trigger that conclude, or move it on.
LEMMA SyncEndsTypes ==
    ASSUME SyncTypes, NEW q \in Requests, SyncEnds(q), registry' \in Records
    PROVE  SyncTypes'
<1>1. None \in Records
  BY DEF Records
<1> QED
  BY <1>1 DEF SyncTypes, SyncEnds

LEMMA ShapesNext == Shapes /\ [Next]_vars => Shapes'
<1> SUFFICES ASSUME Shapes, [Next]_vars PROVE Shapes'
  OBVIOUS
<1>0. StoreTypes /\ HandTypes /\ ChatTypes /\ SyncTypes
  BY DEF Shapes
<1>a. /\ copy \in [Requests -> Records] /\ doomed \in [Requests -> SUBSET Triggers]
      /\ outcome \in [Triggers -> Statuses] /\ at \in [Requests -> Places]
      /\ upsets \in Nat /\ lost \subseteq Triggers /\ stale \in BOOLEAN
      /\ record \in Records /\ None \in Records
  BY <1>0 DEF HandTypes, StoreTypes, Records
<1>b. /\ Triggers \subseteq Requests /\ Edits \subseteq Requests
      /\ create \in Requests /\ update \in Requests /\ delete \in Requests
  BY RequestFacts
<1> USE DEF Places
<1>1. CASE Create
  <2>1. record' \in Records
    BY <1>1, RequestFacts DEF Create, Records
  <2>2. StoreTypes'
    BY <1>0, <1>1, <2>1 DEF Create, StoreTypes
  <2>3. SyncTypes' /\ \E place \in {"prepare", "over"} : Goto(create, place)
    BY <1>0, <1>b, <1>1, NotifiesTypes DEF Create
  <2>4. HandTypes'
    BY <1>0, <1>a, <1>b, <1>1, <2>3, HandMoves DEF Create
  <2>5. ChatTypes'
    BY <1>0, <1>1, ChatUnchanged DEF Create
  <2> QED
    BY <2>2, <2>3, <2>4, <2>5 DEF Shapes
<1>2. ASSUME NEW q \in Edits, EditReads(q) PROVE Shapes'
  <2>1. copy' \in [Requests -> Records] /\ copy'[q] = record
        /\ \A p \in Requests : p # q => copy'[p] = copy[p]
    BY <1>a, <1>b, <1>2 DEF EditReads
  <2>2. PICK place \in {"over", "write"} : Goto(q, place) /\ (place = "write" => record # None)
    BY <1>2 DEF EditReads
  <2>3. HandTypes'
    BY <1>0, <1>a, <1>b, <1>2, <2>1, <2>2, HandMoves DEF EditReads
  <2> QED
    BY <1>0, <1>2, <2>3, StoreUnchanged, ChatUnchanged, SyncUnchanged DEF EditReads, Shapes
<1>3. CASE UpdateWrites
  <2>1. copy[update] \in [edit: Edits, run: Triggers \cup {0}]
    BY <1>0, <1>b, <1>3 DEF UpdateWrites, HandTypes, Records
  <2>2. record' \in Records
    BY <1>3, <2>1, RequestFacts DEF UpdateWrites, Records
  <2>3. StoreTypes'
    BY <1>0, <1>3, <2>2 DEF UpdateWrites, StoreTypes
  <2>4. SyncTypes' /\ \E place \in {"prepare", "over"} : Goto(update, place)
    BY <1>0, <1>b, <1>3, NotifiesTypes DEF UpdateWrites
  <2>5. copy' \in [Requests -> Records] /\ \A p \in Requests : p # update => copy'[p] = copy[p]
    BY <1>a, <1>b, <1>3 DEF UpdateWrites
  <2>6. HandTypes'
    BY <1>0, <1>a, <1>b, <1>3, <2>4, <2>5, HandMoves, SMT DEF UpdateWrites
  <2>7. ChatTypes'
    BY <1>0, <1>3, ChatUnchanged DEF UpdateWrites
  <2> QED
    BY <2>3, <2>4, <2>6, <2>7 DEF Shapes
<1>4. CASE DeleteRecord
  <2>1. StoreTypes'
    BY <1>0, <1>a, <1>4 DEF DeleteRecord, StoreTypes
  <2>2. copy' \in [Requests -> Records] /\ \A p \in Requests : p # delete => copy'[p] = copy[p]
    BY <1>a, <1>b, <1>4 DEF DeleteRecord
  <2>3. HandTypes'
    BY <1>0, <1>a, <1>b, <1>4, <2>2, HandMoves DEF DeleteRecord
  <2> QED
    BY <1>0, <1>4, <2>1, <2>3, ChatUnchanged, SyncUnchanged DEF DeleteRecord, Shapes
<1>5. ASSUME NEW q \in Requests, ListRuns(q) PROVE Shapes'
  <2>1. PICK keys \in SUBSET Triggers :
          /\ doomed' = [doomed EXCEPT ![q] = keys]
          /\ IF keys = {} THEN Notifies(q) ELSE Goto(q, "drop") /\ UNCHANGED syncVars
    BY <1>5 DEF ListRuns, Stored, Excess
  <2>2. doomed' \in [Requests -> SUBSET Triggers]
    BY <1>a, <2>1
  <2>3. SyncTypes' /\ \E place \in {"prepare", "over", "drop"} : Goto(q, place)
    <3>1. CASE keys = {}
      BY <1>0, <2>1, <3>1, NotifiesTypes
    <3>2. CASE keys # {}
      BY <1>0, <2>1, <3>2, SyncUnchanged
    <3> QED
      BY <3>1, <3>2
  <2>4. HandTypes'
    BY <1>0, <1>a, <1>5, <2>2, <2>3, HandMoves DEF ListRuns
  <2> QED
    BY <1>0, <1>5, <2>3, <2>4, StoreUnchanged, ChatUnchanged DEF ListRuns, Shapes
<1>6. ASSUME NEW q \in Requests, DropRun(q) PROVE Shapes'
  <2>1. PICK r \in doomed[q] :
          /\ runs' = [runs EXCEPT ![r] = "absent"]
          /\ doomed' = [doomed EXCEPT ![q] = @ \ {r}]
          /\ IF doomed[q] = {r} THEN Notifies(q) ELSE UNCHANGED <<at, syncVars>>
    BY <1>6 DEF DropRun
  <2>2. doomed' \in [Requests -> SUBSET Triggers]
    BY <1>a, <2>1
  <2>3. StoreTypes'
    BY <1>0, <1>a, <1>6, <2>1 DEF DropRun, StoreTypes
  <2>4. SyncTypes' /\ (UNCHANGED at \/ \E place \in {"prepare", "over"} : Goto(q, place))
    <3>1. CASE doomed[q] = {r}
      BY <1>0, <2>1, <3>1, NotifiesTypes
    <3>2. CASE doomed[q] # {r}
      BY <1>0, <2>1, <3>2, SyncUnchanged
    <3> QED
      BY <3>1, <3>2
  <2>5. HandTypes'
    <3>1. CASE UNCHANGED at
      BY <1>0, <1>6, <2>2, <3>1 DEF DropRun, HandTypes
    <3>2. CASE \E place \in {"prepare", "over"} : Goto(q, place)
      BY <1>0, <1>a, <1>6, <2>2, <3>2, HandMoves DEF DropRun
    <3> QED
      BY <2>4, <3>1, <3>2
  <2> QED
    BY <1>0, <1>6, <2>3, <2>4, <2>5, ChatUnchanged DEF DropRun, Shapes
<1>7. ASSUME NEW q \in Requests, WriteFails(q) PROVE Shapes'
  <2>1. copy' \in [Requests -> Records] /\ \A p \in Requests : p # q => copy'[p] = copy[p]
    BY <1>a, <1>7 DEF WriteFails
  <2>2. doomed' \in [Requests -> SUBSET Triggers]
    BY <1>a, <1>7 DEF WriteFails
  <2>3. lost' \subseteq Triggers /\ stale' \in BOOLEAN /\ upsets' \in Nat
    BY <1>a, <1>7, UpsetTypes DEF WriteFails
  <2>4. HandTypes'
    BY <1>0, <1>a, <1>7, <2>1, <2>2, <2>3, HandMoves DEF WriteFails
  <2> QED
    BY <1>0, <1>7, <2>4, StoreUnchanged, ChatUnchanged, SyncUnchanged DEF WriteFails, Shapes
<1>8. ASSUME NEW q \in Requests, SyncReads(q) PROVE Shapes'
  <2>1. SyncTypes'
    BY <1>0, <1>a, <1>8 DEF SyncReads, SyncTypes, Pushing
  <2> QED
    BY <1>0, <1>a, <1>8, <2>1, StoreUnchanged, ChatUnchanged, HandUnchanged DEF SyncReads, Shapes
<1>9. ASSUME NEW q \in Requests, PushLands(q) PROVE Shapes'
  <2>1. registry' \in Records
    BY <1>0, <1>9 DEF PushLands, SyncTypes
  <2>2. SyncTypes'
    BY <1>0, <1>9, <2>1, SyncEndsTypes DEF PushLands
  <2>3. HandTypes'
    BY <1>0, <1>9 DEF PushLands, HandTypes
  <2> QED
    BY <1>0, <1>9, <2>2, <2>3, StoreUnchanged, ChatUnchanged DEF PushLands, Shapes
<1>10. ASSUME NEW q \in Requests, PushFails(q) PROVE Shapes'
  <2>1. SyncTypes'
    <3>1. CASE tries[q] < Retries
      BY <1>0, <1>10, <3>1, SMT DEF PushFails, SyncTypes
    <3>2. CASE ~(tries[q] < Retries)
      BY <1>0, <1>10, <3>2, SyncEndsTypes DEF PushFails, SyncTypes
    <3> QED
      BY <3>1, <3>2
  <2>2. upsets' \in Nat /\ stale' \in BOOLEAN
    BY <1>a, <1>10, UpsetTypes DEF PushFails
  <2>3. HandTypes'
    BY <1>0, <1>10, <2>2 DEF PushFails, HandTypes
  <2> QED
    BY <1>0, <1>10, <2>1, <2>3, StoreUnchanged, ChatUnchanged DEF PushFails, Shapes
<1>11. CASE Crash
  <2>1. HandTypes'
    BY <1>0, <1>a, <1>11, UpsetTypes DEF Crash, HandTypes
  <2>2. SyncTypes'
    BY <1>0, <1>a, <1>11 DEF Crash, SyncTypes
  <2> QED
    BY <1>0, <1>11, <2>1, <2>2, StoreUnchanged, ChatUnchanged DEF Crash, Shapes
<1>12. ASSUME NEW r \in Triggers, StartRun(r) PROVE Shapes'
  <2>1. CASE record = None
    <3>1. HandTypes'
      BY <1>0, <1>a, <1>b, <1>12, <2>1, HandMoves DEF StartRun
    <3>2. StoreTypes'
      BY <1>0, <1>12, <2>1 DEF StartRun, StoreTypes
    <3> QED
      BY <1>0, <1>12, <3>1, <3>2, ChatUnchanged, SyncUnchanged DEF StartRun, Shapes
  <2>2. CASE record # None
    <3>1. copy' \in [Requests -> Records] /\ copy'[r] = record
          /\ \A p \in Requests : p # r => copy'[p] = copy[p]
      BY <1>a, <1>b, <1>12, <2>2 DEF StartRun
    <3>2. HandTypes'
      BY <1>0, <1>a, <1>b, <1>12, <2>2, <3>1, HandMoves DEF StartRun
    <3>3. StoreTypes'
      BY <1>0, <1>12, <2>2, SMT DEF StartRun, StoreTypes, next_run_seq
    <3> QED
      BY <1>0, <1>12, <3>2, <3>3, ChatUnchanged, SyncUnchanged DEF StartRun, Shapes
  <2> QED
    BY <2>1, <2>2
<1>13. ASSUME NEW r \in Triggers, PutRun(r) PROVE Shapes'
  <2>1. StoreTypes'
    BY <1>0, <1>13 DEF PutRun, StoreTypes, Statuses
  <2>2. copy[r] # None
    BY <1>0, <1>b, <1>13 DEF PutRun, HandTypes
  <2>3. HandTypes'
    BY <1>0, <1>a, <1>b, <1>13, <2>2, HandMoves DEF PutRun
  <2> QED
    BY <1>0, <1>13, <2>1, <2>3, ChatUnchanged, SyncUnchanged DEF PutRun, Shapes
<1>14. ASSUME NEW r \in Triggers, PutRecord(r) PROVE Shapes'
  <2>1. copy[r] \in [edit: Edits, run: Triggers \cup {0}]
    BY <1>0, <1>b, <1>14 DEF PutRecord, HandTypes, Records
  <2>2. record' \in Records
    BY <1>14, <2>1 DEF PutRecord, Records
  <2>3. StoreTypes'
    BY <1>0, <1>14, <2>2 DEF PutRecord, StoreTypes
  <2>4. copy' \in [Requests -> Records] /\ \A p \in Requests : p # r => copy'[p] = copy[p]
    BY <1>a, <1>b, <1>14 DEF PutRecord
  <2>5. HandTypes'
    BY <1>0, <1>a, <1>b, <1>14, <2>4, HandMoves DEF PutRecord
  <2> QED
    BY <1>0, <1>14, <2>3, <2>5, ChatUnchanged, SyncUnchanged DEF PutRecord, Shapes
<1>15. ASSUME NEW r \in Triggers, Prepare(r) PROVE Shapes'
  <2>1. HandTypes'
    BY <1>0, <1>a, <1>b, <1>15, HandMoves DEF Prepare
  <2>2. ChatTypes'
    BY <1>0, <1>15 DEF Prepare, ChatTypes
  <2> QED
    BY <1>0, <1>15, <2>1, <2>2, StoreUnchanged, SyncUnchanged DEF Prepare, Shapes
<1>16. ASSUME NEW r \in Triggers, NEW status \in Statuses, Conclude(r, status),
              UNCHANGED <<storeVars, copy, doomed, syncVars, upsets, lost, stale>>
       PROVE  Shapes'
  BY <1>0, <1>16, ConcludeTypes, StoreUnchanged, SyncUnchanged DEF Shapes
<1>17. ASSUME NEW r \in Triggers, PrepareFails(r) \/ TimesOut(r) PROVE Shapes'
  BY <1>16, <1>17 DEF PrepareFails, TimesOut, Statuses
<1>18. ASSUME NEW r \in Triggers, SendPrompt(r) PROVE Shapes'
  <2>1. CASE driver[r] = "stopped"
    BY <1>16, <1>18, <2>1 DEF SendPrompt, Statuses
  <2>2. CASE driver[r] # "stopped"
    <3>1. HandTypes'
      BY <1>0, <1>a, <1>b, <1>18, <2>2, HandMoves DEF SendPrompt
    <3>2. ChatTypes'
      BY <1>0, <1>18, <2>2 DEF SendPrompt, ChatTypes
    <3> QED
      BY <1>0, <1>18, <3>1, <3>2, StoreUnchanged, SyncUnchanged DEF SendPrompt, Shapes
  <2> QED
    BY <2>1, <2>2
<1>19. ASSUME NEW r \in Triggers, HandlerDropped(r) PROVE Shapes'
  <2>1. upsets' \in Nat /\ lost' \subseteq Triggers
    BY <1>a, <1>19, UpsetTypes DEF HandlerDropped
  <2>2. HandTypes'
    BY <1>0, <1>a, <1>b, <1>19, <2>1, HandMoves DEF HandlerDropped
  <2> QED
    BY <1>0, <1>19, <2>2, StoreUnchanged, ChatUnchanged, SyncUnchanged DEF HandlerDropped, Shapes
<1>20. ASSUME NEW r \in Triggers, TurnEnds(r) PROVE Shapes'
  <2>1. ChatTypes'
    BY <1>0, <1>20 DEF TurnEnds, ChatTypes, Told
  <2> QED
    BY <1>0, <1>a, <1>20, <2>1, StoreUnchanged, HandUnchanged, SyncUnchanged DEF TurnEnds, Shapes
<1>21. ASSUME NEW r \in Triggers, DriverStops(r) PROVE Shapes'
  <2>1. ChatTypes'
    BY <1>0, <1>21 DEF DriverStops, ChatTypes
  <2>2. upsets' \in Nat
    BY <1>a, <1>21, UpsetTypes DEF DriverStops
  <2> QED
    BY <1>0, <1>21, <2>1, <2>2, StoreUnchanged, HandUnchanged, SyncUnchanged DEF DriverStops, Shapes
<1>22. ASSUME NEW r \in Triggers, Forward(r) PROVE Shapes'
  <2>1. ChatTypes'
    BY <1>0, <1>22, SMT DEF Forward, ChatTypes
  <2> QED
    BY <1>0, <1>a, <1>22, <2>1, StoreUnchanged, HandUnchanged, SyncUnchanged DEF Forward, Shapes
<1>23. ASSUME NEW r \in Triggers, NEW n \in Nat, next' = [next EXCEPT ![r] = n],
              UNCHANGED <<at, outcome, driver, prompted, frames, pushed>>,
              UNCHANGED <<storeVars, copy, doomed, syncVars, upsets, lost, stale>>
       PROVE  Shapes'
  <2>1. ChatTypes'
    BY <1>0, <1>23 DEF ChatTypes
  <2> QED
    BY <1>0, <1>a, <1>23, <2>1, StoreUnchanged, HandUnchanged, SyncUnchanged DEF Shapes
<1>24. ASSUME NEW r \in Triggers, Subscribe(r) PROVE Shapes'
  <2>1. \/ \E status \in Statuses : Conclude(r, status)
        \/ /\ next' = [next EXCEPT ![r] = pushed[r] + 1]
           /\ UNCHANGED <<at, outcome, driver, prompted, frames, pushed>>
    BY <1>24, InspectTypes DEF Subscribe, Statuses
  <2>2. pushed[r] + 1 \in Nat
    BY <1>0, SMT DEF ChatTypes
  <2>3. UNCHANGED <<storeVars, copy, doomed, syncVars, upsets, lost, stale>>
    BY <1>24 DEF Subscribe
  <2> QED
    BY <1>16, <1>23, <2>1, <2>2, <2>3
<1>25. ASSUME NEW r \in Triggers, Receive(r) PROVE Shapes'
  <2>1. \/ \E status \in Statuses : Conclude(r, status)
        \/ /\ next' = [next EXCEPT ![r] = @ + 1]
           /\ UNCHANGED <<at, outcome, driver, prompted, frames, pushed>>
    BY <1>25, InspectTypes DEF Receive
  <2>2. next[r] + 1 \in Nat
    BY <1>0, SMT DEF ChatTypes
  <2>3. UNCHANGED <<storeVars, copy, doomed, syncVars, upsets, lost, stale>>
    BY <1>25 DEF Receive
  <2> QED
    BY <1>16, <1>23, <2>1, <2>2, <2>3
<1>26. ASSUME NEW r \in Triggers, FinishLooksUp(r) PROVE Shapes'
  <2>1. HandTypes'
    BY <1>0, <1>a, <1>b, <1>26, HandMoves DEF FinishLooksUp
  <2> QED
    BY <1>0, <1>26, <2>1, StoreUnchanged, ChatUnchanged, SyncUnchanged DEF FinishLooksUp, Shapes
<1>27. ASSUME NEW r \in Triggers, FinishPuts(r) PROVE Shapes'
  <2>1. StoreTypes'
    BY <1>0, <1>a, <1>27 DEF FinishPuts, StoreTypes
  <2>2. HandTypes'
    BY <1>0, <1>a, <1>b, <1>27, HandMoves DEF FinishPuts
  <2> QED
    BY <1>0, <1>27, <2>1, <2>2, ChatUnchanged, SyncUnchanged DEF FinishPuts, Shapes
<1>28. CASE UNCHANGED vars
  BY <1>0, <1>a, <1>28, StoreUnchanged, HandUnchanged, ChatUnchanged, SyncUnchanged DEF vars, Shapes
<1> QED
  BY <1>b, <1>1, <1>2, <1>3, <1>4, <1>5, <1>6, <1>7, <1>8, <1>9, <1>10, <1>11, <1>12, <1>13, <1>14,
     <1>15, <1>17, <1>18, <1>19, <1>20, <1>21, <1>22, <1>24, <1>25, <1>26, <1>27, <1>28
     DEF Next, HandlerSteps, WatcherSteps

LEMMA AlwaysShapes == Spec => []Shapes
  BY ShapesInit, ShapesNext, PTL DEF Spec

\* The store's column families, the handlers, the watchers and the registrar keep their
\* shapes; a record is written back only by a request that has read one.
THEOREM ProcessTypeCorrect == Spec => []TypeOK
<1>1. Shapes => TypeOK
  BY DEF Shapes, StoreTypes, HandTypes, ChatTypes, SyncTypes, TypeOK
<1> QED
  BY <1>1, AlwaysShapes, PTL

----------------------------------------------------------------------------
(* The registrar: what the gateway will have registered once the pushes are through. *)

\* No request is between its first write and its notice, and no notice waits to be read.
Noticed == ~stale /\ \A q \in Requests : at[q] \notin {"list", "drop"} /\ sync[q] # "due"

\* The push of q carries the stored record, and every other one was under way before it.
Latest(q) ==
    /\ sync[q] = "push" /\ seen[q] = record
    /\ \A p \in Requests : sync[p] = "push" /\ p # q => p \in behind[q]

Announced ==
    Noticed => \/ registry = record /\ \A q \in Requests : sync[q] # "push"
               \/ \E q \in Requests : Latest(q)

\* Steps that touch neither the record nor the registrar, and do not enter or leave
\* the stretch between the first write and the notice.
Apart ==
    /\ UNCHANGED <<record, sync, seen, behind, registry, stale>>
    /\ \A q \in Requests : at[q] \in {"list", "drop"} => at'[q] \in {"list", "drop"}

LEMMA ApartKeeps == ASSUME Announced, Apart PROVE Announced'
<1> SUFFICES ASSUME Noticed' PROVE (\/ registry = record /\ \A q \in Requests : sync[q] # "push"
                                    \/ \E q \in Requests : Latest(q))'
  BY DEF Announced
<1>1. Noticed
  BY DEF Apart, Noticed
<1> QED
  BY <1>1 DEF Announced, Apart, Latest

LEMMA BusyKeeps ==
    ASSUME NEW q \in Requests, at'[q] \in {"list", "drop"} \/ sync'[q] = "due" PROVE Announced'
  BY DEF Announced, Noticed

LEMMA StaleKeeps == ASSUME stale' = TRUE PROVE Announced'
  BY DEF Announced, Noticed

LEMMA GotoApart ==
    ASSUME at \in [Requests -> Places], NEW q \in Requests, NEW place, Goto(q, place),
           at[q] \notin {"list", "drop"},
           UNCHANGED <<record, sync, seen, behind, registry, stale>>
    PROVE  Apart
  BY DEF Apart, Goto

LEMMA NotifiesDue ==
    ASSUME sync \in [Requests -> {"none", "due", "push"}], NEW q \in Requests, Notifies(q)
    PROVE  sync'[q] = "due"
  BY DEF Notifies

LEMMA AnnouncedInit == Init => Announced
<1> SUFFICES ASSUME Init PROVE registry = record /\ \A q \in Requests : sync[q] # "push"
  BY DEF Announced
<1> QED
  BY DEF Init

LEMMA AnnouncedNext == Shapes /\ Announced /\ [Next]_vars => Announced'
<1> SUFFICES ASSUME Shapes, Announced, [Next]_vars PROVE Announced'
  OBVIOUS
<1>a. /\ at \in [Requests -> Places] /\ sync \in [Requests -> {"none", "due", "push"}]
      /\ seen \in [Requests -> Records] /\ behind \in [Requests -> SUBSET Requests]
      /\ stale \in BOOLEAN
  BY DEF Shapes, HandTypes, SyncTypes
<1>b. /\ Triggers \subseteq Requests /\ Edits \subseteq Requests
      /\ create \in Requests /\ update \in Requests /\ delete \in Requests
  BY RequestFacts
<1>c. ASSUME NEW q \in Requests, Notifies(q) PROVE Announced'
  BY <1>a, <1>c, NotifiesDue, BusyKeeps
<1>d. ASSUME NEW q \in Requests, NEW place, Goto(q, place), at[q] \notin {"list", "drop"},
             UNCHANGED <<record, sync, seen, behind, registry, stale>>
      PROVE  Announced'
  BY <1>a, <1>d, GotoApart, ApartKeeps
<1>e. ASSUME UNCHANGED <<record, at, sync, seen, behind, registry, stale>> PROVE Announced'
  <2>1. Apart
    BY <1>e DEF Apart
  <2> QED
    BY <2>1, ApartKeeps
<1>f. ASSUME NEW r \in Triggers, NEW status, Conclude(r, status), at[r] \notin {"list", "drop"},
             UNCHANGED <<storeVars, syncVars, stale>>
      PROVE  Announced'
  BY <1>b, <1>d, <1>f DEF Conclude, storeVars, syncVars
<1>1. CASE Create
  BY <1>b, <1>c, <1>1 DEF Create
<1>2. ASSUME NEW q \in Edits, EditReads(q) PROVE Announced'
  BY <1>b, <1>d, <1>2 DEF EditReads, storeVars, syncVars
<1>3. CASE UpdateWrites
  BY <1>b, <1>c, <1>3 DEF UpdateWrites
<1>4. CASE DeleteRecord
  <2>1. at'[delete] = "list"
    BY <1>a, <1>b, <1>4 DEF DeleteRecord, Goto
  <2> QED
    BY <1>b, <2>1, BusyKeeps
<1>5. ASSUME NEW q \in Requests, ListRuns(q) PROVE Announced'
  <2>1. Notifies(q) \/ Goto(q, "drop")
    BY <1>5 DEF ListRuns
  <2>2. CASE Goto(q, "drop")
    <3>1. at'[q] = "drop"
      BY <1>a, <2>2 DEF Goto
    <3> QED
      BY <3>1, BusyKeeps
  <2> QED
    BY <1>c, <2>1, <2>2
<1>6. ASSUME NEW q \in Requests, DropRun(q) PROVE Announced'
  <2>1. Notifies(q) \/ at' = at
    BY <1>6 DEF DropRun
  <2>2. CASE at' = at
    <3>1. at'[q] = "drop"
      BY <1>6, <2>2 DEF DropRun
    <3> QED
      BY <3>1, BusyKeeps
  <2> QED
    BY <1>c, <2>1, <2>2
<1>7. ASSUME NEW q \in Requests, WriteFails(q) PROVE Announced'
  <2>1. CASE at[q] = "drop"
    BY <1>7, <2>1, StaleKeeps DEF WriteFails
  <2>2. CASE at[q] # "drop"
    <3>1. stale' = stale
      BY <1>a, <1>7, <2>2 DEF WriteFails
    <3>2. at[q] \notin {"list", "drop"} /\ Goto(q, "over")
          /\ UNCHANGED <<record, sync, seen, behind, registry>>
      BY <1>7, <2>2 DEF WriteFails, storeVars, syncVars
    <3> QED
      BY <1>d, <3>1, <3>2
  <2> QED
    BY <2>1, <2>2
<1>8. ASSUME NEW q \in Requests, SyncReads(q) PROVE Announced'
  <2>1. /\ record' = record /\ sync' = [sync EXCEPT ![q] = "push"]
        /\ seen' = [seen EXCEPT ![q] = record] /\ behind' = [behind EXCEPT ![q] = Pushing]
    BY <1>8 DEF SyncReads, storeVars
  <2>2. sync'[q] = "push" /\ seen'[q] = record' /\ behind'[q] = Pushing
    BY <1>a, <2>1
  <2>3. \A p \in Requests : sync'[p] = "push" /\ p # q => p \in behind'[q]
    BY <1>a, <2>1, <2>2 DEF Pushing
  <2>4. Latest(q)'
    BY <2>2, <2>3 DEF Latest
  <2> QED
    BY <2>4 DEF Announced
<1>9. ASSUME NEW q \in Requests, PushLands(q) PROVE Announced'
  <2> SUFFICES ASSUME Noticed' PROVE (\/ registry = record /\ \A p \in Requests : sync[p] # "push"
                                      \/ \E p \in Requests : Latest(p))'
    BY DEF Announced
  <2>1. /\ record' = record /\ at' = at /\ registry' = seen[q] /\ sync[q] = "push"
        /\ sync' = [sync EXCEPT ![q] = "none"] /\ seen' = [seen EXCEPT ![q] = None]
        /\ behind' = [behind EXCEPT ![q] = {}]
        /\ stale' = (stale \/ behind[q] \cap Pushing # {})
    BY <1>9 DEF PushLands, SyncEnds, storeVars
  <2>2. ~stale /\ behind[q] \cap Pushing = {}
    BY <2>1 DEF Noticed
  <2>3. \A p \in Requests : sync[p] # "due"
    <3> SUFFICES ASSUME NEW p \in Requests PROVE sync[p] # "due"
      OBVIOUS
    <3>1. sync'[p] # "due" /\ (p # q => sync'[p] = sync[p])
      BY <1>a, <2>1 DEF Noticed
    <3> QED
      BY <2>1, <3>1
  <2>4. Noticed
    BY <2>1, <2>2, <2>3 DEF Noticed
  <2>5. PICK p \in Requests : Latest(p)
    BY <2>1, <2>4 DEF Announced
  <2>6. CASE p = q
    <3>1. registry' = record'
      BY <2>1, <2>5, <2>6 DEF Latest
    <3>2. \A o \in Requests : sync'[o] # "push"
      BY <1>a, <2>1, <2>2, <2>5, <2>6 DEF Latest, Pushing
    <3> QED
      BY <3>1, <3>2
  <2>7. CASE p # q
    <3>1. sync'[p] = sync[p] /\ seen'[p] = seen[p] /\ behind'[p] = behind[p]
      BY <1>a, <2>1, <2>7
    <3>2. \A o \in Requests : sync'[o] = "push" => sync[o] = "push"
      BY <1>a, <2>1
    <3>3. Latest(p)'
      BY <2>1, <2>5, <3>1, <3>2 DEF Latest
    <3> QED
      BY <3>3
  <2> QED
    BY <2>6, <2>7
<1>10. ASSUME NEW q \in Requests, PushFails(q) PROVE Announced'
  <2>1. CASE tries[q] < Retries
    BY <1>e, <1>10, <2>1 DEF PushFails, storeVars
  <2>2. CASE ~(tries[q] < Retries)
    BY <1>10, <2>2, StaleKeeps DEF PushFails
  <2> QED
    BY <2>1, <2>2
<1>11. CASE Crash
  BY <1>11, StaleKeeps DEF Crash
<1>12. ASSUME NEW r \in Triggers, StartRun(r) PROVE Announced'
  <2>1. \E place \in {"over", "put_run"} : Goto(r, place)
    BY <1>12 DEF StartRun
  <2>2. at[r] \notin {"list", "drop"} /\ UNCHANGED <<record, sync, seen, behind, registry, stale>>
    BY <1>12 DEF StartRun, syncVars
  <2> QED
    BY <1>b, <1>d, <2>1, <2>2
<1>13. ASSUME NEW r \in Triggers, PutRun(r) PROVE Announced'
  BY <1>b, <1>d, <1>13 DEF PutRun, syncVars
<1>14. ASSUME NEW r \in Triggers, PutRecord(r) PROVE Announced'
  <2>1. at'[r] = "list"
    BY <1>a, <1>b, <1>14 DEF PutRecord, Goto
  <2> QED
    BY <1>b, <2>1, BusyKeeps
<1>15. ASSUME NEW r \in Triggers, Prepare(r) \/ HandlerDropped(r) \/ FinishLooksUp(r) \/ FinishPuts(r)
       PROVE  Announced'
  <2>1. \E place \in Places : Goto(r, place)
    BY <1>15 DEF Prepare, HandlerDropped, FinishLooksUp, FinishPuts, Places
  <2>2. at[r] \notin {"list", "drop"} /\ UNCHANGED <<record, sync, seen, behind, registry, stale>>
    BY <1>15 DEF Prepare, HandlerDropped, FinishLooksUp, FinishPuts, storeVars, syncVars
  <2> QED
    BY <1>b, <1>d, <2>1, <2>2
<1>16. ASSUME NEW r \in Triggers, PrepareFails(r) \/ TimesOut(r) PROVE Announced'
  BY <1>f, <1>16 DEF PrepareFails, TimesOut
<1>17. ASSUME NEW r \in Triggers, SendPrompt(r) PROVE Announced'
  <2>1. /\ at[r] = "send" /\ UNCHANGED <<storeVars, syncVars, stale>>
        /\ Conclude(r, "Failure") \/ Goto(r, "watch")
    BY <1>17 DEF SendPrompt
  <2> QED
    BY <1>b, <1>d, <1>f, <2>1 DEF storeVars, syncVars
<1>18. ASSUME NEW r \in Triggers, TurnEnds(r) \/ DriverStops(r) \/ Forward(r) PROVE Announced'
  BY <1>e, <1>18 DEF TurnEnds, DriverStops, Forward, storeVars, syncVars
<1>19. ASSUME NEW r \in Triggers, Subscribe(r) \/ Receive(r) PROVE Announced'
  <2>1. /\ at[r] = "watch" /\ UNCHANGED <<storeVars, syncVars, stale>>
        /\ (\E status \in Statuses : Conclude(r, status)) \/ at' = at
    BY <1>19, InspectTypes DEF Subscribe, Receive, Statuses
  <2> QED
    BY <1>e, <1>f, <2>1 DEF storeVars, syncVars
<1>20. CASE UNCHANGED vars
  BY <1>e, <1>20 DEF vars, storeVars, syncVars
<1> QED
  BY <1>b, <1>1, <1>2, <1>3, <1>4, <1>5, <1>6, <1>7, <1>8, <1>9, <1>10, <1>11, <1>12, <1>13, <1>14,
     <1>15, <1>16, <1>17, <1>18, <1>19, <1>20 DEF Next, HandlerSteps, WatcherSteps

\* The trigger registrar: once no request stands between its first write and its notice
\* and every push is through, the gateway has registered the stored record, unless a push
\* overtook another, was given up, or a request failed half-way.
THEOREM RegistryStaysCurrent == Spec => []RegistryCurrent
<1>1. Init => Shapes /\ Announced
  BY ShapesInit, AnnouncedInit
<1>2. Shapes /\ Announced /\ [Next]_vars => Shapes' /\ Announced'
  BY ShapesNext, AnnouncedNext
<1>3. Announced => RegistryCurrent
  <2> SUFFICES ASSUME Announced, ~stale,
                      \A q \in Requests : at[q] \notin {"list", "drop"} /\ sync[q] = "none"
               PROVE  registry = record
    BY DEF RegistryCurrent
  <2>1. Noticed
    BY DEF Noticed
  <2> QED
    BY <2>1 DEF Announced, Latest
<1> QED
  BY <1>1, <1>2, <1>3, PTL DEF Spec

----------------------------------------------------------------------------
(* The watcher: what a run stored as a success has been told.                *)

Early == {"coming", "write", "put_run", "put_record", "list", "drop", "prepare", "send"}

\* The watcher stands past frames that end nothing, and before its first look nothing
\* has been said.
OutcomeInv(r) ==
    /\ pushed[r] <= Len(frames[r])
    /\ r \in prompted => frames[r] = <<>>
    /\ at[r] \in Early => frames[r] = <<>> /\ r \notin prompted /\ next[r] = 0
    /\ at[r] \in Early \cup {"watch"} => outcome[r] # "Success" /\ runs[r] # "Success"
    /\ at[r] = "watch" =>
         next[r] <= pushed[r] + 1 /\ \A i \in 1..Len(frames[r]) : i < next[r] => frames[r][i] = "other"
    /\ outcome[r] = "Success" \/ runs[r] = "Success" => pushed[r] > 0 /\ frames[r] = <<"end">>

Outcomes == \A r \in Triggers : OutcomeInv(r)

\* Steps that tell the watcher of r nothing and do not bring it nearer to its outcome.
Untold(r) ==
    /\ outcome'[r] = outcome[r] /\ pushed'[r] = pushed[r] /\ frames'[r] = frames[r]
    /\ next'[r] = next[r] /\ (r \in prompted' <=> r \in prompted)
    /\ runs'[r] = runs[r] \/ runs'[r] # "Success"
    /\ at'[r] = at[r] \/ at'[r] \in {"finish", "put", "over"} \/ (at[r] \in Early /\ at'[r] \in Early)

LEMMA UntoldKeeps == ASSUME NEW r \in Triggers, OutcomeInv(r), Untold(r) PROVE OutcomeInv(r)'
  BY DEF OutcomeInv, Untold, Early

\* A status the watcher may store: a success only after the closing frame alone.
LEMMA ConcludeTold ==
    ASSUME Shapes, Outcomes, NEW r \in Triggers, NEW status, Conclude(r, status),
           UNCHANGED storeVars, at[r] \in {"prepare", "send", "watch"},
           status = "Success" => frames[r] = <<"end">>
    PROVE  Outcomes'
<1>a. /\ at \in [Requests -> Places] /\ outcome \in [Triggers -> Statuses] /\ r \in Requests
      /\ frames \in [Triggers -> Told] /\ pushed \in [Triggers -> Nat] /\ next \in [Triggers -> Nat]
  BY RequestFacts DEF Shapes, HandTypes, ChatTypes
<1>1. /\ outcome' = [outcome EXCEPT ![r] = status] /\ at' = [at EXCEPT ![r] = "finish"]
      /\ prompted' = prompted \ {r} /\ pushed' = [pushed EXCEPT ![r] = Len(frames[r])]
      /\ next' = [next EXCEPT ![r] = 0] /\ frames' = frames /\ runs' = runs
  BY DEF Conclude, Goto, storeVars
<1>2. ASSUME NEW p \in Triggers, p # r PROVE OutcomeInv(p)'
  <2>1. Untold(p)
    BY <1>a, <1>1, <1>2, RequestFacts DEF Untold
  <2> QED
    BY <2>1, UntoldKeeps DEF Outcomes
<1>3. OutcomeInv(r)'
  <2>1. /\ outcome'[r] = status /\ at'[r] = "finish" /\ r \notin prompted'
        /\ pushed'[r] = Len(frames[r]) /\ frames'[r] = frames[r] /\ runs'[r] = runs[r]
    BY <1>a, <1>1
  <2>2. runs[r] # "Success" /\ Len(frames[r]) \in Nat /\ Len(<<"end">>) = 1
    BY <1>a, SMT DEF Outcomes, OutcomeInv, Early, Told
  <2>3. pushed'[r] <= Len(frames'[r])
    <3>1. PICK n \in Nat : n = Len(frames[r])
      BY <2>2, Zenon
    <3>2. pushed'[r] = n /\ Len(frames'[r]) = n
      BY <2>1, <3>1, Zenon
    <3> QED
      BY <3>2, SMT
  <2>4. outcome'[r] = "Success" => pushed'[r] > 0 /\ frames'[r] = <<"end">>
    <3> SUFFICES ASSUME outcome'[r] = "Success" PROVE pushed'[r] > 0 /\ frames'[r] = <<"end">>
      OBVIOUS
    <3>1. frames[r] = <<"end">>
      BY <2>1, Zenon
    <3>2. Len(frames[r]) = 1
      BY <3>1, SMT
    <3>3. pushed'[r] = 1
      BY <2>1, <3>2, Zenon
    <3> QED
      BY <2>1, <3>1, <3>3, SMT
  <2>5. at'[r] \notin Early \cup {"watch"} /\ runs'[r] # "Success"
    BY <2>1, <2>2 DEF Early
  <2> QED
    BY <2>1, <2>3, <2>4, <2>5, Zenon DEF OutcomeInv
<1> QED
  BY <1>2, <1>3 DEF Outcomes

LEMMA OutcomesInit == Init => Outcomes
  BY RequestFacts, SMT DEF Init, Outcomes, OutcomeInv, Early

\* Steps in which no chat run says anything and no watcher concludes.
Hushed ==
    /\ UNCHANGED <<outcome, chatVars>>
    /\ \A r \in Triggers : runs'[r] = runs[r] \/ runs'[r] # "Success"
    /\ \A r \in Triggers :
         at'[r] = at[r] \/ at'[r] \in {"finish", "put", "over"} \/ (at[r] \in Early /\ at'[r] \in Early)

LEMMA HushedKeeps == ASSUME Outcomes, Hushed PROVE Outcomes'
<1> SUFFICES ASSUME NEW r \in Triggers PROVE OutcomeInv(r)'
  BY DEF Outcomes
<1>1. Untold(r)
  BY DEF Hushed, Untold, chatVars
<1> QED
  BY <1>1, UntoldKeeps DEF Outcomes

LEMMA HushedMoves ==
    ASSUME at \in [Requests -> Places], NEW q \in Requests, NEW place, Goto(q, place),
           place \in {"finish", "put", "over"} \/ (at[q] \in Early /\ place \in Early),
           UNCHANGED <<outcome, chatVars>>,
           \A r \in Triggers : runs'[r] = runs[r] \/ runs'[r] # "Success"
    PROVE  Hushed
<1>1. \A r \in Triggers : r \in Requests
  BY RequestFacts
<1> QED
  BY <1>1 DEF Hushed, Goto

LEMMA OutcomesNext == Shapes /\ Outcomes /\ [Next]_vars => Outcomes'
<1> SUFFICES ASSUME Shapes, Outcomes, [Next]_vars PROVE Outcomes'
  OBVIOUS
<1>a. /\ at \in [Requests -> Places] /\ outcome \in [Triggers -> Statuses]
      /\ runs \in [Triggers -> Statuses \cup {"absent"}]
      /\ frames \in [Triggers -> Told] /\ pushed \in [Triggers -> Nat] /\ next \in [Triggers -> Nat]
      /\ doomed \in [Requests -> SUBSET Triggers]
  BY DEF Shapes, StoreTypes, HandTypes, ChatTypes
<1>b. /\ Triggers \subseteq Requests /\ Edits \subseteq Requests
      /\ create \in Requests /\ update \in Requests /\ delete \in Requests
  BY RequestFacts
<1>c. ASSUME NEW q \in Requests, NEW place, Goto(q, place),
             place \in {"finish", "put", "over"} \/ (at[q] \in Early /\ place \in Early),
             UNCHANGED <<outcome, chatVars>>,
             \A r \in Triggers : runs'[r] = runs[r] \/ runs'[r] # "Success"
      PROVE  Outcomes'
  BY <1>a, <1>c, HushedMoves, HushedKeeps
<1>d. ASSUME NEW q \in Requests, at[q] \in Early, Notifies(q), UNCHANGED <<outcome, chatVars>>,
             \A r \in Triggers : runs'[r] = runs[r] \/ runs'[r] # "Success"
      PROVE  Outcomes'
  <2>1. \E place \in {"prepare", "over"} : Goto(q, place)
    BY <1>d DEF Notifies
  <2> QED
    BY <1>c, <1>d, <2>1 DEF Early
<1>e. ASSUME UNCHANGED <<runs, at, outcome, chatVars>> PROVE Outcomes'
  <2>1. Hushed
    BY <1>e DEF Hushed
  <2> QED
    BY <2>1, HushedKeeps
<1>1. CASE Create
  BY <1>b, <1>d, <1>1 DEF Create, Early
<1>2. ASSUME NEW q \in Edits, EditReads(q) PROVE Outcomes'
  <2>1. \E place \in {"over", "write"} : Goto(q, place)
    BY <1>2 DEF EditReads
  <2> QED
    BY <1>b, <1>c, <1>2, <2>1 DEF EditReads, storeVars, Early
<1>3. CASE UpdateWrites
  BY <1>b, <1>d, <1>3 DEF UpdateWrites, Early
<1>4. CASE DeleteRecord
  BY <1>b, <1>c, <1>4 DEF DeleteRecord, Early
<1>5. ASSUME NEW q \in Requests, ListRuns(q) PROVE Outcomes'
  <2>1. /\ at[q] = "list" /\ UNCHANGED <<runs, outcome, chatVars>>
        /\ Notifies(q) \/ Goto(q, "drop")
    BY <1>5 DEF ListRuns, storeVars
  <2> QED
    BY <1>c, <1>d, <2>1 DEF Early
<1>6. ASSUME NEW q \in Requests, DropRun(q) PROVE Outcomes'
  <2>1. /\ at[q] = "drop" /\ UNCHANGED <<outcome, chatVars>>
        /\ Notifies(q) \/ at' = at
    BY <1>6 DEF DropRun
  <2>2. \A r \in Triggers : runs'[r] = runs[r] \/ runs'[r] # "Success"
    BY <1>a, <1>6 DEF DropRun
  <2>3. CASE at' = at
    <3>1. Hushed
      BY <2>1, <2>2, <2>3 DEF Hushed
    <3> QED
      BY <3>1, HushedKeeps
  <2> QED
    BY <1>d, <2>1, <2>2, <2>3 DEF Early
<1>7. ASSUME NEW q \in Requests, WriteFails(q) PROVE Outcomes'
  BY <1>c, <1>7 DEF WriteFails, storeVars
<1>8. ASSUME NEW q \in Requests, SyncReads(q) \/ PushLands(q) \/ PushFails(q) PROVE Outcomes'
  BY <1>e, <1>8 DEF SyncReads, PushLands, PushFails, storeVars
<1>9. CASE Crash
  <2>1. Hushed
    BY <1>a, <1>b, <1>9 DEF Crash, Hushed, storeVars, Early
  <2> QED
    BY <2>1, HushedKeeps
<1>10. ASSUME NEW r \in Triggers, StartRun(r) PROVE Outcomes'
  <2>1. \E place \in {"over", "put_run"} : Goto(r, place)
    BY <1>10 DEF StartRun
  <2> QED
    BY <1>b, <1>c, <1>10, <2>1 DEF StartRun, Early
<1>11. ASSUME NEW r \in Triggers, PutRun(r) PROVE Outcomes'
  <2>1. \A p \in Triggers : runs'[p] = runs[p] \/ runs'[p] # "Success"
    BY <1>a, <1>11 DEF PutRun
  <2> QED
    BY <1>b, <1>c, <1>11, <2>1 DEF PutRun, Early
<1>12. ASSUME NEW r \in Triggers, PutRecord(r) PROVE Outcomes'
  BY <1>b, <1>c, <1>12 DEF PutRecord, Early
<1>13. ASSUME NEW r \in Triggers, Prepare(r) PROVE Outcomes'
  <2> SUFFICES ASSUME NEW p \in Triggers PROVE OutcomeInv(p)'
    BY DEF Outcomes
  <2>1. Untold(p)
    BY <1>a, <1>b, <1>13 DEF Prepare, Untold, Goto, storeVars, Early
  <2> QED
    BY <2>1, UntoldKeeps DEF Outcomes
<1>14. ASSUME NEW r \in Triggers, PrepareFails(r) \/ TimesOut(r) PROVE Outcomes'
  BY <1>14, ConcludeTold DEF PrepareFails, TimesOut
<1>15. ASSUME NEW r \in Triggers, SendPrompt(r) PROVE Outcomes'
  <2>1. CASE driver[r] = "stopped"
    BY <1>15, <2>1, ConcludeTold DEF SendPrompt
  <2>2. CASE driver[r] # "stopped"
    <3>1. /\ prompted' = prompted \cup {r} /\ at' = [at EXCEPT ![r] = "watch"] /\ at[r] = "send"
          /\ UNCHANGED <<outcome, driver, frames, pushed, next, runs>>
      BY <1>15, <2>2 DEF SendPrompt, Goto, storeVars
    <3>2. ASSUME NEW p \in Triggers, p # r PROVE OutcomeInv(p)'
      <4>1. Untold(p)
        BY <1>a, <1>b, <3>1, <3>2 DEF Untold
      <4> QED
        BY <4>1, UntoldKeeps DEF Outcomes
    <3>3. OutcomeInv(r)'
      <4>1. at'[r] = "watch"
        BY <1>a, <1>b, <3>1
      <4>2. OutcomeInv(r) /\ at[r] \in Early /\ pushed[r] \in Nat
        BY <1>a, <3>1 DEF Outcomes, Early
      <4> QED
        BY <3>1, <4>1, <4>2, SMT DEF OutcomeInv, Early
    <3> QED
      BY <3>2, <3>3 DEF Outcomes
  <2> QED
    BY <2>1, <2>2
<1>16. ASSUME NEW r \in Triggers, HandlerDropped(r) PROVE Outcomes'
  BY <1>b, <1>c, <1>16 DEF HandlerDropped, storeVars
<1>17. ASSUME NEW r \in Triggers, TurnEnds(r) PROVE Outcomes'
  <2>1. PICK fs \in Told : frames' = [frames EXCEPT ![r] = fs] /\ Len(fs) \in Nat
    BY <1>17 DEF TurnEnds, Told
  <2>2. /\ r \in prompted /\ prompted' = prompted \ {r} /\ at[r] \in {"send", "watch"}
        /\ UNCHANGED <<at, outcome, pushed, next, runs>>
    BY <1>17 DEF TurnEnds, Watched, storeVars
  <2>3. ASSUME NEW p \in Triggers, p # r PROVE OutcomeInv(p)'
    <3>1. Untold(p)
      BY <1>a, <2>1, <2>2, <2>3 DEF Untold
    <3> QED
      BY <3>1, UntoldKeeps DEF Outcomes
  <2>4. OutcomeInv(r)'
    <3>1. OutcomeInv(r)
      BY DEF Outcomes
    <3>2. at[r] = "watch" /\ frames[r] = <<>> /\ Len(frames[r]) = 0
      BY <2>2, <3>1 DEF OutcomeInv, Early
    <3>3. /\ pushed[r] = 0 /\ next[r] <= 1 /\ next[r] \in Nat
          /\ outcome[r] # "Success" /\ runs[r] # "Success"
      BY <1>a, <3>1, <3>2, SMT DEF OutcomeInv
    <3> QED
      BY <1>a, <2>1, <2>2, <3>2, <3>3, SMT DEF OutcomeInv, Early
  <2> QED
    BY <2>3, <2>4 DEF Outcomes
<1>18. ASSUME NEW r \in Triggers, DriverStops(r) PROVE Outcomes'
  <2> SUFFICES ASSUME NEW p \in Triggers PROVE OutcomeInv(p)'
    BY DEF Outcomes
  <2>1. Untold(p)
    BY <1>18 DEF DriverStops, Untold, storeVars
  <2> QED
    BY <2>1, UntoldKeeps DEF Outcomes
<1>19. ASSUME NEW r \in Triggers, Forward(r) PROVE Outcomes'
  <2>1. /\ pushed' = [pushed EXCEPT ![r] = @ + 1] /\ at[r] \in {"send", "watch"}
        /\ pushed[r] < Len(frames[r])
        /\ UNCHANGED <<at, outcome, prompted, frames, next, runs>>
    BY <1>19 DEF Forward, Watched, storeVars
  <2>2. ASSUME NEW p \in Triggers, p # r PROVE OutcomeInv(p)'
    <3>1. Untold(p)
      BY <1>a, <2>1, <2>2 DEF Untold
    <3> QED
      BY <3>1, UntoldKeeps DEF Outcomes
  <2>3. OutcomeInv(r)'
    <3>1. OutcomeInv(r) /\ pushed[r] \in Nat /\ next[r] \in Nat /\ pushed'[r] = pushed[r] + 1
      BY <1>a, <2>1 DEF Outcomes
    <3>2. Len(frames[r]) \in Nat
      BY <1>a, SMT DEF Told
    <3> QED
      BY <2>1, <3>1, <3>2, SMT DEF OutcomeInv, Early
  <2> QED
    BY <2>2, <2>3 DEF Outcomes
<1>20. ASSUME NEW r \in Triggers, at[r] = "watch", NEW n \in Nat, n <= pushed[r] + 1,
              \A i \in 1..Len(frames[r]) : i < n => frames[r][i] = "other",
              next' = [next EXCEPT ![r] = n], UNCHANGED <<at, outcome, driver, prompted, frames, pushed>>,
              UNCHANGED storeVars
       PROVE  Outcomes'
  <2>1. ASSUME NEW p \in Triggers, p # r PROVE OutcomeInv(p)'
    <3>1. Untold(p)
      BY <1>a, <1>20, <2>1 DEF Untold, storeVars
    <3> QED
      BY <3>1, UntoldKeeps DEF Outcomes
  <2>2. OutcomeInv(r)'
    BY <1>a, <1>20 DEF Outcomes, OutcomeInv, Early, storeVars
  <2> QED
    BY <2>1, <2>2 DEF Outcomes
<1>21. ASSUME NEW r \in Triggers, Subscribe(r) PROVE Outcomes'
  <2> DEFINE ends == {i \in 1..pushed[r] : inspect_frame(frames[r][i]) # "Running"}
  <2>0. at[r] = "watch" /\ OutcomeInv(r) /\ UNCHANGED storeVars
    BY <1>21 DEF Subscribe, Outcomes
  <2>1. CASE ends # {}
    <3>1. PICK i \in ends : (\A j \in ends : i <= j) /\ Conclude(r, inspect_frame(frames[r][i]))
      BY <1>21, <2>1 DEF Subscribe
    <3>2. ASSUME inspect_frame(frames[r][i]) = "Success" PROVE frames[r] = <<"end">>
      <4>1. frames[r] \in Told /\ i \in 1..Len(frames[r]) /\ frames[r][i] = "end"
        BY <1>a, <2>0, <3>1, <3>2, SMT DEF OutcomeInv, inspect_frame, Told
      <4>2. CASE frames[r] = <<"fatal", "end">>
        <5>1. 1 \in ends
          BY <1>a, <3>1, <4>2, SMT DEF inspect_frame
        <5>2. i = 1
          BY <3>1, <5>1, SMT
        <5> QED
          BY <4>1, <4>2, <5>2, SMT
      <4> QED
        BY <4>1, <4>2, SMT DEF Told
    <3> QED
      BY <2>0, <3>1, <3>2, ConcludeTold
  <2>2. CASE ends = {} /\ driver[r] = "stopped"
    BY <1>21, <2>0, <2>2, ConcludeTold DEF Subscribe
  <2>3. CASE ends = {} /\ driver[r] # "stopped"
    <3>1. /\ next' = [next EXCEPT ![r] = pushed[r] + 1]
          /\ UNCHANGED <<at, outcome, driver, prompted, frames, pushed>>
      BY <1>21, <2>3 DEF Subscribe
    <3>2. pushed[r] \in Nat /\ frames[r] \in Told /\ pushed[r] <= Len(frames[r])
      BY <1>a, <2>0 DEF OutcomeInv
    <3>3. ASSUME NEW i \in 1..Len(frames[r]), i < pushed[r] + 1 PROVE frames[r][i] = "other"
      <4>1. i \in 1..pushed[r] /\ i \in 1..Len(frames[r])
        BY <3>2, <3>3, SMT DEF Told
      <4>2. frames[r][i] # "end" /\ frames[r][i] # "fatal"
        BY <2>3, <4>1 DEF inspect_frame
      <4> QED
        BY <3>2, <4>1, <4>2, SMT DEF Told
    <3>4. pushed[r] + 1 \in Nat /\ pushed[r] + 1 <= pushed[r] + 1
      BY <3>2, SMT
    <3> QED
      BY <1>20, <2>0, <3>1, <3>3, <3>4, Zenon
  <2> QED
    BY <2>1, <2>2, <2>3
<1>22. ASSUME NEW r \in Triggers, Receive(r) PROVE Outcomes'
  <2>0. /\ at[r] = "watch" /\ OutcomeInv(r) /\ UNCHANGED storeVars
        /\ next[r] # 0 /\ next[r] <= pushed[r] /\ pushed[r] <= Len(frames[r])
        /\ pushed[r] \in Nat /\ next[r] \in Nat /\ frames[r] \in Told
    BY <1>a, <1>22 DEF Receive, Outcomes, OutcomeInv
  <2>a. next[r] \in 1..Len(frames[r])
    BY <2>0, SMT DEF Told
  <2>1. CASE inspect_frame(frames[r][next[r]]) # "Running"
    <3>1. Conclude(r, inspect_frame(frames[r][next[r]]))
      BY <1>22, <2>1 DEF Receive
    <3>2. ASSUME inspect_frame(frames[r][next[r]]) = "Success" PROVE frames[r] = <<"end">>
      <4>1. frames[r][next[r]] = "end"
        BY <3>2 DEF inspect_frame
      <4>2. \A i \in 1..Len(frames[r]) : i < next[r] => frames[r][i] = "other"
        BY <2>0 DEF OutcomeInv
      <4>3. CASE frames[r] = <<"fatal", "end">>
        <5>1. next[r] = 2
          BY <2>a, <4>1, <4>3, SMT
        <5>2. 1 \in 1..Len(frames[r]) /\ 1 < next[r]
          BY <4>3, <5>1, SMT
        <5>3. frames[r][1] = "other"
          BY <4>2, <5>2
        <5> QED
          BY <4>3, <5>3, SMT
      <4> QED
        BY <2>0, <2>a, <4>1, <4>3, SMT DEF Told
    <3> QED
      BY <2>0, <3>1, <3>2, ConcludeTold
  <2>2. CASE inspect_frame(frames[r][next[r]]) = "Running"
    <3>1. /\ next' = [next EXCEPT ![r] = next[r] + 1]
          /\ UNCHANGED <<at, outcome, driver, prompted, frames, pushed>>
      BY <1>22, <2>2 DEF Receive
    <3>2. frames[r][next[r]] = "other"
      <4>1. frames[r][next[r]] # "end" /\ frames[r][next[r]] # "fatal"
        BY <2>2 DEF inspect_frame
      <4> QED
        BY <2>0, <2>a, <4>1, SMT DEF Told
    <3>3. ASSUME NEW i \in 1..Len(frames[r]), i < next[r] + 1 PROVE frames[r][i] = "other"
      <4>1. CASE i = next[r]
        BY <3>2, <4>1
      <4>2. CASE i # next[r]
        <5>1. i < next[r]
          BY <2>0, <3>3, <4>2, SMT
        <5> QED
          BY <2>0, <3>3, <5>1 DEF OutcomeInv
      <4> QED
        BY <4>1, <4>2
    <3>4. next[r] + 1 \in Nat /\ next[r] + 1 <= pushed[r] + 1
      BY <2>0, SMT
    <3> QED
      BY <1>20, <2>0, <3>1, <3>3, <3>4
  <2> QED
    BY <2>1, <2>2
<1>23. ASSUME NEW r \in Triggers, FinishLooksUp(r) PROVE Outcomes'
  <2>1. \E place \in {"over", "put"} : Goto(r, place)
    BY <1>23 DEF FinishLooksUp
  <2> QED
    BY <1>b, <1>c, <1>23, <2>1 DEF FinishLooksUp, storeVars
<1>24. ASSUME NEW r \in Triggers, FinishPuts(r) PROVE Outcomes'
  <2>1. /\ runs' = [runs EXCEPT ![r] = outcome[r]] /\ at' = [at EXCEPT ![r] = "over"]
        /\ at[r] = "put" /\ UNCHANGED <<outcome, chatVars>>
    BY <1>24 DEF FinishPuts, Goto
  <2>2. ASSUME NEW p \in Triggers, p # r PROVE OutcomeInv(p)'
    <3>1. Untold(p)
      BY <1>a, <1>b, <2>1, <2>2 DEF Untold, chatVars
    <3> QED
      BY <3>1, UntoldKeeps DEF Outcomes
  <2>3. OutcomeInv(r)'
    <3>1. OutcomeInv(r) /\ runs'[r] = outcome[r] /\ at'[r] = "over"
      BY <1>a, <1>b, <2>1 DEF Outcomes
    <3> QED
      BY <2>1, <3>1 DEF OutcomeInv, Early, chatVars
  <2> QED
    BY <2>2, <2>3 DEF Outcomes
<1>25. CASE UNCHANGED vars
  BY <1>e, <1>25 DEF vars, storeVars
<1> QED
  BY <1>b, <1>1, <1>2, <1>3, <1>4, <1>5, <1>6, <1>7, <1>8, <1>9, <1>10, <1>11, <1>12, <1>13, <1>14,
     <1>15, <1>16, <1>17, <1>18, <1>19, <1>21, <1>22, <1>23, <1>24, <1>25
     DEF Next, HandlerSteps, WatcherSteps

\* watch_process_run: a run is stored as a success only when its turn has ended without
\* a panic, wherever the watcher joined the frames.
THEOREM SuccessIsTold == Spec => []OutcomeTold
<1>1. Init => Shapes /\ Outcomes
  BY ShapesInit, OutcomesInit
<1>2. Shapes /\ Outcomes /\ [Next]_vars => Shapes' /\ Outcomes'
  BY ShapesNext, OutcomesNext
<1>3. Outcomes => OutcomeTold
  BY DEF Outcomes, OutcomeInv, OutcomeTold
<1> QED
  BY <1>1, <1>2, <1>3, PTL DEF Spec

----------------------------------------------------------------------------
(* Retention: what prune_runs may delete.                                    *)

\* The runs with numbers above that of r.
Newer(r) == {s \in put : seq[s] > seq[r]}

KeptInv ==
    /\ \A r \in Triggers : runs[r] # "absent" => r \in put
    /\ \A r \in Triggers : at[r] = "coming" => r \notin put
    /\ \A r \in Triggers : at[r] \notin {"coming", "put_run", "over"} => r \in put
    /\ \A q \in Triggers : \A r \in doomed[q] : r \in put /\ Cardinality(Newer(r)) >= MaxKept

\* Runs are numbered when they start, so the newer ones of a run that has started only
\* become more.
LEMMA NewerGrows ==
    ASSUME put' \subseteq Triggers, put \subseteq put', \A s \in put : seq'[s] = seq[s],
           NEW r \in put, Cardinality(Newer(r)) >= MaxKept
    PROVE  r \in put' /\ Cardinality(Newer(r)') >= MaxKept
<1>1. Newer(r) \subseteq Newer(r)'
  BY DEF Newer
<1>2. IsFiniteSet(Newer(r)')
  BY RequestFacts, FS_Subset DEF Newer
<1>3. /\ Cardinality(Newer(r)) <= Cardinality(Newer(r)')
      /\ Cardinality(Newer(r)) \in Nat /\ Cardinality(Newer(r)') \in Nat
  BY <1>1, <1>2, FS_Subset, FS_CardinalityType
<1> QED
  BY <1>3, ProcessesAssumption, SMT

\* What prune_runs takes for excess among the keys it lists.
LEMMA ExcessIsOld ==
    ASSUME put \subseteq Triggers, NEW keys, keys \subseteq put, NEW r \in Excess(keys)
    PROVE  r \in put /\ Cardinality(Newer(r)) >= MaxKept
<1> DEFINE newer == {s \in keys : seq[s] > seq[r]}
<1>1. newer \subseteq Newer(r) /\ Newer(r) \subseteq Triggers
  BY DEF Newer
<1>2. Cardinality(newer) >= MaxKept
  BY DEF Excess
<1>3. IsFiniteSet(Newer(r))
  BY <1>1, RequestFacts, FS_Subset
<1> HIDE DEF newer
<1>4. /\ Cardinality(newer) <= Cardinality(Newer(r))
      /\ Cardinality(newer) \in Nat /\ Cardinality(Newer(r)) \in Nat
  BY <1>1, <1>3, FS_Subset, FS_CardinalityType
<1>5. Cardinality(Newer(r)) >= MaxKept
  BY <1>2, <1>4, ProcessesAssumption, SMT
<1> QED
  BY <1>5 DEF Excess

\* Steps that start no run and list none.
Unlisted ==
    /\ put' = put /\ \A s \in put : seq'[s] = seq[s]
    /\ \A q \in Triggers : doomed'[q] \subseteq doomed[q]
    /\ \A r \in Triggers : runs'[r] # "absent" => r \in put
    /\ \A r \in Triggers : at'[r] = "coming" => at[r] = "coming"
    /\ \A r \in Triggers : at'[r] \notin {"coming", "put_run", "over"} =>
                             at[r] \notin {"coming", "put_run", "over"}

LEMMA UnlistedKeeps == ASSUME Shapes, KeptInv, Unlisted PROVE KeptInv'
<1>1. put' \subseteq Triggers
  BY DEF Unlisted, Shapes, StoreTypes
<1>2. ASSUME NEW q \in Triggers, NEW r \in doomed'[q]
      PROVE  r \in put' /\ Cardinality(Newer(r)') >= MaxKept
  <2>1. r \in put /\ Cardinality(Newer(r)) >= MaxKept
    BY <1>2 DEF Unlisted, KeptInv
  <2> QED
    BY <1>1, <2>1, NewerGrows DEF Unlisted
<1>3. /\ \A r \in Triggers : runs'[r] # "absent" => r \in put'
      /\ \A r \in Triggers : at'[r] = "coming" => r \notin put'
      /\ \A r \in Triggers : at'[r] \notin {"coming", "put_run", "over"} => r \in put'
  BY DEF Unlisted, KeptInv
<1> QED
  BY <1>2, <1>3 DEF KeptInv

LEMMA KeptInit == Init => KeptInv
<1> SUFFICES ASSUME Init PROVE KeptInv
  OBVIOUS
<1>1. PICK who \in DOMAIN Scenarios :
        /\ at = [q \in Requests |-> IF q \in who THEN "coming" ELSE "over"]
        /\ put \subseteq Triggers \ who
        /\ runs = [r \in Triggers |-> IF r \in put THEN "Failure" ELSE "absent"]
        /\ doomed = [q \in Requests |-> {}]
  BY SMT DEF Init
<1> QED
  BY <1>1, RequestFacts DEF KeptInv

\* A step of request q alone, from a place to another.
LEMMA MovesUnlisted ==
    ASSUME Shapes, KeptInv, NEW q \in Requests, NEW place, Goto(q, place),
           place = "over" \/ (q \in Triggers => at[q] \notin {"coming", "put_run", "over"}),
           place # "coming",
           put' = put, seq' = seq, \A p \in Triggers : doomed'[p] \subseteq doomed[p],
           \A r \in Triggers : runs'[r] # "absent" => r \in put
    PROVE  KeptInv'
<1>1. at \in [Requests -> Places] /\ Triggers \subseteq Requests
  BY RequestFacts DEF Shapes, HandTypes
<1>2. at'[q] = place /\ \A p \in Requests : p # q => at'[p] = at[p]
  BY <1>1 DEF Goto
<1>3. Unlisted
  BY <1>1, <1>2 DEF Unlisted
<1> QED
  BY <1>3, UnlistedKeeps

LEMMA KeptNext == Shapes /\ KeptInv /\ [Next]_vars => KeptInv'
<1> SUFFICES ASSUME Shapes, KeptInv, [Next]_vars PROVE KeptInv'
  OBVIOUS
<1>a. /\ at \in [Requests -> Places] /\ runs \in [Triggers -> Statuses \cup {"absent"}]
      /\ seq \in [Triggers -> Nat] /\ put \subseteq Triggers
      /\ doomed \in [Requests -> SUBSET Triggers] /\ outcome \in [Triggers -> Statuses]
  BY DEF Shapes, StoreTypes, HandTypes
<1>b. /\ Triggers \subseteq Requests /\ Edits \subseteq Requests
      /\ create \in Requests /\ update \in Requests /\ delete \in Requests
      /\ create \notin Triggers /\ update \notin Triggers /\ delete \notin Triggers
  BY RequestFacts
<1>k. \A r \in Triggers : runs[r] # "absent" => r \in put
  BY DEF KeptInv
<1>c. ASSUME NEW q \in Requests, NEW place, Goto(q, place), place # "coming",
             place = "over" \/ (q \in Triggers => at[q] \notin {"coming", "put_run", "over"}),
             UNCHANGED <<put, seq, runs, doomed>>
      PROVE  KeptInv'
  BY <1>c, <1>k, MovesUnlisted
<1>d. ASSUME NEW q \in Requests, Notifies(q) PROVE \E place \in {"prepare", "over"} : Goto(q, place)
  BY <1>d DEF Notifies
<1>e. ASSUME UNCHANGED <<put, seq, runs, doomed, at>> PROVE KeptInv'
  <2>1. Unlisted
    BY <1>e, <1>k DEF Unlisted
  <2> QED
    BY <2>1, UnlistedKeeps
<1>1. CASE Create
  BY <1>b, <1>c, <1>d, <1>1 DEF Create
<1>2. ASSUME NEW q \in Edits, EditReads(q) PROVE KeptInv'
  <2>1. q \notin Triggers /\ q \in Requests /\ \E place \in {"over", "write"} : Goto(q, place)
    BY <1>2, RequestFacts DEF EditReads
  <2> QED
    BY <1>c, <1>2, <2>1 DEF EditReads, storeVars
<1>3. CASE UpdateWrites
  BY <1>b, <1>c, <1>d, <1>3 DEF UpdateWrites
<1>4. CASE DeleteRecord
  BY <1>b, <1>c, <1>4 DEF DeleteRecord
<1>5. ASSUME NEW q \in Requests, ListRuns(q) PROVE KeptInv'
  <2>1. /\ at[q] = "list" /\ put' = put /\ seq' = seq /\ runs' = runs
        /\ doomed' = [doomed EXCEPT ![q] = IF q = delete THEN Stored ELSE Excess(Stored)]
        /\ Notifies(q) \/ Goto(q, "drop")
    BY <1>5 DEF ListRuns, storeVars
  <2>2. \E place \in {"prepare", "over", "drop"} : Goto(q, place)
    BY <1>d, <2>1
  <2>3. /\ \A r \in Triggers : runs'[r] # "absent" => r \in put'
        /\ \A r \in Triggers : at'[r] = "coming" => r \notin put'
        /\ \A r \in Triggers : at'[r] \notin {"coming", "put_run", "over"} => r \in put'
    <3>1. \A r \in Triggers : at'[r] = at[r] \/ (at[r] = "list" /\ at'[r] \in {"prepare", "over", "drop"})
      BY <1>a, <1>b, <2>1, <2>2 DEF Goto
    <3> QED
      BY <2>1, <3>1 DEF KeptInv
  <2>4. ASSUME NEW p \in Triggers, NEW r \in doomed'[p]
        PROVE  r \in put' /\ Cardinality(Newer(r)') >= MaxKept
    <3>1. r \in put /\ Cardinality(Newer(r)) >= MaxKept
      <4>1. CASE p = q
        <5>1. r \in Excess(Stored)
          BY <1>a, <1>b, <2>1, <2>4, <4>1
        <5>2. Stored \subseteq put
          BY <1>k DEF Stored
        <5> QED
          BY <1>a, <5>1, <5>2, ExcessIsOld
      <4>2. CASE p # q
        BY <1>a, <1>b, <2>1, <2>4, <4>2 DEF KeptInv
      <4> QED
        BY <4>1, <4>2
    <3> QED
      BY <1>a, <2>1, <3>1, NewerGrows
  <2> QED
    BY <2>3, <2>4 DEF KeptInv
<1>6. ASSUME NEW q \in Requests, DropRun(q) PROVE KeptInv'
  <2>1. PICK r \in doomed[q] :
          /\ runs' = [runs EXCEPT ![r] = "absent"] /\ doomed' = [doomed EXCEPT ![q] = @ \ {r}]
          /\ Notifies(q) \/ at' = at
    BY <1>6 DEF DropRun
  <2>2. \A p \in Triggers : doomed'[p] \subseteq doomed[p]
    BY <1>a, <1>b, <2>1
  <2>3. \A p \in Triggers : runs'[p] # "absent" => p \in put
    BY <1>a, <1>k, <2>1
  <2>4. at[q] = "drop" /\ put' = put /\ seq' = seq
    BY <1>6 DEF DropRun
  <2>5. CASE Notifies(q)
    BY <1>d, <2>2, <2>3, <2>4, <2>5, MovesUnlisted
  <2>6. CASE at' = at
    <3>1. Unlisted
      BY <2>2, <2>3, <2>4, <2>6 DEF Unlisted
    <3> QED
      BY <3>1, UnlistedKeeps
  <2> QED
    BY <2>1, <2>5, <2>6
<1>7. ASSUME NEW q \in Requests, WriteFails(q) PROVE KeptInv'
  <2>1. \A p \in Triggers : doomed'[p] \subseteq doomed[p]
    BY <1>a, <1>b, <1>7 DEF WriteFails
  <2> QED
    BY <1>k, <1>7, <2>1, MovesUnlisted DEF WriteFails, storeVars
<1>8. ASSUME NEW q \in Requests, SyncReads(q) \/ PushLands(q) \/ PushFails(q) PROVE KeptInv'
  BY <1>e, <1>8 DEF SyncReads, PushLands, PushFails, storeVars
<1>9. CASE Crash
  <2>1. Unlisted
    BY <1>a, <1>b, <1>k, <1>9 DEF Crash, Unlisted, storeVars
  <2> QED
    BY <2>1, UnlistedKeeps
<1>10. ASSUME NEW r \in Triggers, StartRun(r) PROVE KeptInv'
  <2>1. /\ at[r] = "coming" /\ put' = put /\ runs' = runs /\ doomed' = doomed
        /\ seq' = seq \/ seq' = [seq EXCEPT ![r] = next_run_seq]
        /\ \E place \in {"over", "put_run"} : Goto(r, place)
    BY <1>10 DEF StartRun
  <2>2. r \notin put
    BY <2>1 DEF KeptInv
  <2>3. \A s \in put : seq'[s] = seq[s]
    BY <1>a, <2>1, <2>2
  <2>4. Unlisted
    BY <1>a, <1>b, <1>k, <2>1, <2>3 DEF Unlisted, Goto
  <2> QED
    BY <2>4, UnlistedKeeps
<1>11. ASSUME NEW r \in Triggers, PutRun(r) PROVE KeptInv'
  <2>1. /\ at[r] = "put_run" /\ put' = put \cup {r} /\ runs' = [runs EXCEPT ![r] = "Running"]
        /\ at' = [at EXCEPT ![r] = "put_record"] /\ seq' = seq /\ doomed' = doomed
    BY <1>11 DEF PutRun, Goto
  <2>2. /\ \A p \in Triggers : runs'[p] # "absent" => p \in put'
        /\ \A p \in Triggers : at'[p] = "coming" => p \notin put'
        /\ \A p \in Triggers : at'[p] \notin {"coming", "put_run", "over"} => p \in put'
    BY <1>a, <1>b, <2>1 DEF KeptInv
  <2>3. ASSUME NEW q \in Triggers, NEW p \in doomed'[q]
        PROVE  p \in put' /\ Cardinality(Newer(p)') >= MaxKept
    <3>1. p \in put /\ Cardinality(Newer(p)) >= MaxKept
      BY <2>1, <2>3 DEF KeptInv
    <3>2. put' \subseteq Triggers /\ put \subseteq put' /\ \A s \in put : seq'[s] = seq[s]
      BY <1>a, <2>1
    <3> QED
      BY <3>1, <3>2, NewerGrows
  <2> QED
    BY <2>2, <2>3 DEF KeptInv
<1>12. ASSUME NEW r \in Triggers, PutRecord(r) PROVE KeptInv'
  BY <1>b, <1>c, <1>12 DEF PutRecord
<1>13. ASSUME NEW r \in Triggers, Prepare(r) \/ HandlerDropped(r) \/ FinishLooksUp(r) PROVE KeptInv'
  <2>1. \E place \in {"send", "over", "put"} : Goto(r, place)
    BY <1>13 DEF Prepare, HandlerDropped, FinishLooksUp
  <2>2. at[r] \in {"prepare", "send", "finish"} /\ UNCHANGED <<put, seq, runs, doomed>>
    BY <1>13 DEF Prepare, HandlerDropped, FinishLooksUp, storeVars
  <2> QED
    BY <1>b, <1>c, <2>1, <2>2
<1>14. ASSUME NEW r \in Triggers,
              PrepareFails(r) \/ TimesOut(r) \/ SendPrompt(r) \/ Subscribe(r) \/ Receive(r)
       PROVE  KeptInv'
  <2>1. at[r] \in {"prepare", "send", "watch"} /\ UNCHANGED <<storeVars, doomed>>
    BY <1>14 DEF PrepareFails, TimesOut, SendPrompt, Subscribe, Receive
  <2>2. at' = at \/ \E place \in {"finish", "watch"} : Goto(r, place)
    BY <1>14 DEF PrepareFails, TimesOut, SendPrompt, Subscribe, Receive, Conclude
  <2> QED
    BY <1>b, <1>c, <1>e, <2>1, <2>2 DEF storeVars
<1>15. ASSUME NEW r \in Triggers, TurnEnds(r) \/ DriverStops(r) \/ Forward(r) PROVE KeptInv'
  BY <1>e, <1>15 DEF TurnEnds, DriverStops, Forward, storeVars
<1>16. ASSUME NEW r \in Triggers, FinishPuts(r) PROVE KeptInv'
  <2>1. /\ at[r] = "put" /\ Goto(r, "over") /\ put' = put /\ seq' = seq /\ doomed' = doomed
        /\ runs' = [runs EXCEPT ![r] = outcome[r]]
    BY <1>16 DEF FinishPuts
  <2>2. r \in put
    BY <2>1 DEF KeptInv
  <2>3. \A p \in Triggers : runs'[p] # "absent" => p \in put
    BY <1>a, <1>k, <2>1, <2>2
  <2> QED
    BY <1>b, <2>1, <2>3, MovesUnlisted
<1>17. CASE UNCHANGED vars
  BY <1>e, <1>17 DEF vars, storeVars
<1> QED
  BY <1>b, <1>1, <1>2, <1>3, <1>4, <1>5, <1>6, <1>7, <1>8, <1>9, <1>10, <1>11, <1>12, <1>13, <1>14,
     <1>15, <1>16, <1>17 DEF Next, HandlerSteps, WatcherSteps

\* Only the loops of delete_cf take a run out of the store.
LEMMA OnlyDropsDelete ==
    ASSUME Shapes, [Next]_vars, NEW r \in Triggers, runs[r] # "absent", runs'[r] = "absent"
    PROVE  \E q \in Requests : q \in Triggers \cup {delete} /\ DropRun(q) /\ r \in doomed[q]
<1>a. runs \in [Triggers -> Statuses \cup {"absent"}] /\ outcome \in [Triggers -> Statuses]
      /\ doomed \in [Requests -> SUBSET Triggers]
  BY DEF Shapes, StoreTypes, HandTypes
<1>b. Triggers \subseteq Requests /\ delete \in Requests
  BY RequestFacts
<1>1. runs' # runs
  OBVIOUS
<1>2. ASSUME NEW q \in Requests, DropRun(q) PROVE r \in doomed[q]
  <2>1. PICK s \in doomed[q] : runs' = [runs EXCEPT ![s] = "absent"]
    BY <1>2 DEF DropRun
  <2>2. r = s
    BY <1>a, <2>1
  <2> QED
    BY <2>1, <2>2
<1>3. ASSUME NEW s \in Triggers, PutRun(s) \/ FinishPuts(s) PROVE FALSE
  <2>1. \E status \in Statuses : runs' = [runs EXCEPT ![s] = status]
    BY <1>a, <1>3 DEF PutRun, FinishPuts, Statuses
  <2> QED
    BY <1>a, <2>1 DEF Statuses
<1>4. ASSUME NEW q \in Requests,
             \/ EditReads(q) \/ ListRuns(q) \/ WriteFails(q) \/ SyncReads(q) \/ PushLands(q)
             \/ PushFails(q)
      PROVE  FALSE
  BY <1>1, <1>4 DEF EditReads, ListRuns, WriteFails, SyncReads, PushLands, PushFails, storeVars
<1>5. ASSUME NEW s \in Triggers,
             \/ StartRun(s) \/ PutRecord(s) \/ Prepare(s) \/ PrepareFails(s) \/ SendPrompt(s)
             \/ HandlerDropped(s) \/ TurnEnds(s) \/ DriverStops(s) \/ Forward(s) \/ Subscribe(s)
             \/ Receive(s) \/ FinishLooksUp(s) \/ TimesOut(s)
      PROVE  FALSE
  BY <1>1, <1>5 DEF StartRun, PutRecord, Prepare, PrepareFails, SendPrompt, HandlerDropped, TurnEnds,
     DriverStops, Forward, Subscribe, Receive, FinishLooksUp, TimesOut, storeVars
<1>6. ~(Create \/ UpdateWrites \/ DeleteRecord \/ Crash \/ UNCHANGED vars)
  BY <1>1 DEF Create, UpdateWrites, DeleteRecord, Crash, vars, storeVars
<1>7. Edits \subseteq Requests
  BY RequestFacts
<1> QED
  BY <1>b, <1>2, <1>3, <1>4, <1>5, <1>6, <1>7 DEF Next, HandlerSteps, WatcherSteps

\* prune_runs: a run leaves the history only with its process, or when MaxKept runs with
\* higher numbers have been started, whatever overlapping triggers have listed.
THEOREM PruningKeepsNewest == Spec => NewestKept
<1>1. Init => Shapes /\ KeptInv
  BY ShapesInit, KeptInit
<1>2. Shapes /\ KeptInv /\ [Next]_vars => Shapes' /\ KeptInv'
  BY ShapesNext, KeptNext
<1>3. Shapes /\ KeptInv /\ [Next]_vars =>
        [\A r \in Triggers :
           runs[r] # "absent" /\ runs'[r] = "absent"
           => \/ r \in doomed[delete]
              \/ Cardinality({s \in put : seq[s] > seq[r]}) >= MaxKept]_vars
  <2> SUFFICES ASSUME Shapes, KeptInv, [Next]_vars, NEW r \in Triggers,
                      runs[r] # "absent", runs'[r] = "absent"
               PROVE  \/ r \in doomed[delete]
                      \/ Cardinality({s \in put : seq[s] > seq[r]}) >= MaxKept
    OBVIOUS
  <2>1. PICK q \in Requests : q \in Triggers \cup {delete} /\ r \in doomed[q]
    BY OnlyDropsDelete
  <2> QED
    BY <2>1 DEF KeptInv, Newer
<1> QED
  BY <1>1, <1>2, <1>3, PTL DEF Spec, NewestKept
=============================================================================
