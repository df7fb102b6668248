--------------------------- MODULE StateMigration ---------------------------
(***************************************************************************)
(* The boot of a node and the encrypt-in-place migration of its state.      *)
(*                                                                          *)
(* Node::run creates the database directory, prepares sealing, opens the    *)
(* store and serves.  On a sealed boot migrate_state_if_needed converts     *)
(* plaintext state with a copy, two renames, a marker file and the removal  *)
(* of the backup; the process may stop before any of these, or in the       *)
(* middle of a copy or a removal, and the next boot picks up the pieces.    *)
(*                                                                          *)
(* A directory is what is in it: nothing at all ("none"), no database       *)
(* ("empty"), remains ("partial"), or a database whose values are plain,    *)
(* sealed or both.  Its data is the number of writes it holds.              *)
(***************************************************************************)
EXTENDS Integers

CONSTANTS
    MaxWrites,       \* bound: writes the store acknowledges
    MaxStops,        \* bound: crashes and failed boots
    PlainAfterSealed \* a plaintext boot may follow a sealed one (local use only:
                     \* a swarm agent refuses it)

ASSUME MigrationAssumption ==
    /\ MaxWrites \in Nat /\ MaxStops \in Nat
    /\ PlainAfterSealed \in BOOLEAN

Dirs == {"db", "temp", "backup"}
Formats == {"plain", "sealed", "mixed"}
Contents == {"none", "empty", "partial"} \cup Formats
Modes == {"plain", "sealed"}

VARIABLES
    kind,     \* the content of <db>, <db>.sealed-migrating, <db>.plaintext-backup
    data,     \* how many writes each of them holds
    marker,   \* $data_dir/.aura-sealed exists
    pc,       \* where the boot stands
    mode,     \* the mode of this boot
    sealing,  \* some boot was a sealed one
    writes,   \* writes acknowledged so far
    stops

migrationVars == <<kind, data, marker, pc, mode, sealing, writes, stops>>

Steps == {"down", "dek", "marker", "stale_temp", "stale_backup", "clean_backup",
          "rollback", "restore", "partial_temp", "source", "copy", "verify_copy", "set_aside",
          "swap_in", "mark", "verify", "drop_backup", "seal", "open", "serving"}

exists(d) == kind[d] # "none"
disk == <<kind, data, marker>>
history == <<mode, sealing, writes, stops>>

BootAt(l) == pc' = l
Put(d, k, n) ==
    /\ kind' = [kind EXCEPT ![d] = k]
    /\ data' = [data EXCEPT ![d] = n]

----------------------------------------------------------------------------
MigrationInit ==
    /\ kind = [d \in Dirs |-> "none"]
    /\ data = [d \in Dirs |-> 0]
    /\ marker = FALSE
    /\ pc = "down"
    /\ mode = "plain"
    /\ sealing = FALSE
    /\ writes = 0 /\ stops = 0

\* Node::run: create_dir_all(db_path), then prepare_state_sealing, which returns
\* at once in plaintext mode.
Boot(m) ==
    /\ pc = "down"
    /\ m = "plain" => PlainAfterSealed \/ ~sealing
    /\ mode' = m
    /\ sealing' = (sealing \/ m = "sealed")
    /\ IF exists("db") THEN UNCHANGED <<kind, data>> ELSE Put("db", "empty", 0)
    /\ BootAt(IF m = "sealed" THEN "dek" ELSE "open")
    /\ UNCHANGED <<marker, writes, stops>>

\* fetch_dek_with_retry got a key.
FetchDek ==
    /\ pc = "dek"
    /\ BootAt("marker")
    /\ UNCHANGED <<disk, history>>

\* migrate_state_if_needed: already sealed, or not?
CheckMarker ==
    /\ pc = "marker"
    /\ BootAt(IF marker THEN "stale_temp" ELSE "rollback")
    /\ UNCHANGED <<disk, history>>

\* if d.exists() { remove_dir_all(d)? }, which is not atomic.
RemoveBegins(d, at) ==
    /\ pc = at
    /\ exists(d) /\ kind[d] # "partial"
    /\ Put(d, "partial", 0)
    /\ UNCHANGED <<marker, pc, history>>

RemoveEnds(d, at, next) ==
    /\ pc = at
    /\ kind[d] \in {"none", "partial"}
    /\ Put(d, "none", 0)
    /\ BootAt(next)
    /\ UNCHANGED <<marker, history>>

\* std::fs::rename of a directory fails when the target is a directory that is
\* not empty; the error ends the boot.
Rename(a, b, at, next) ==
    /\ pc = at
    /\ IF kind[b] \in {"none", "empty"}
       THEN /\ kind' = [kind EXCEPT ![b] = kind[a], ![a] = "none"]
            /\ data' = [data EXCEPT ![b] = data[a], ![a] = 0]
            /\ BootAt(next)
       ELSE /\ BootAt("down")
            /\ UNCHANGED <<kind, data>>
    /\ UNCHANGED <<marker, history>>

\* verify_sealed_open: RocksStore::open_sealed, which creates a database where
\* there is none, and reads no value.
VerifyOpen(d, at, next) ==
    /\ pc = at
    /\ IF kind[d] \in Formats THEN UNCHANGED <<kind, data>> ELSE Put(d, "sealed", 0)
    /\ BootAt(next)
    /\ UNCHANGED <<marker, history>>

----------------------------------------------------------------------------
(* The marker is there.                                                     *)

RemoveStaleTemp == RemoveBegins("temp", "stale_temp") \/ RemoveEnds("temp", "stale_temp", "stale_backup")

\* Mutant: the deferred cleanup is forgotten.
CheckBackupNever ==
    /\ pc = "stale_backup"
    /\ BootAt("seal")
    /\ UNCHANGED <<disk, history>>

\* A backup left behind goes only after the live database opened.
CheckBackup ==
    \/ exists("backup") /\ VerifyOpen("db", "stale_backup", "clean_backup")
    \/ /\ pc = "stale_backup"
       /\ ~exists("backup")
       /\ BootAt("seal")
       /\ UNCHANGED <<disk, history>>

CleanBackup ==
    RemoveBegins("backup", "clean_backup") \/ RemoveEnds("backup", "clean_backup", "seal")

----------------------------------------------------------------------------
(* No marker.                                                               *)

\* Mutants: an interrupted swap is not rolled back; the copy is not removed.
CheckRollbackNever ==
    /\ pc = "rollback"
    /\ BootAt("partial_temp")
    /\ UNCHANGED <<disk, history>>

CheckRollbackKeepsDb ==
    /\ pc = "rollback"
    /\ BootAt(IF exists("backup") THEN "restore" ELSE "partial_temp")
    /\ UNCHANGED <<disk, history>>

\* A backup without a marker is the authoritative plaintext: remove whatever
\* sits at <db>, then rename the backup back.
CheckRollback ==
    \/ /\ pc = "rollback"
       /\ ~exists("backup")
       /\ BootAt("partial_temp")
       /\ UNCHANGED <<disk, history>>
    \/ exists("backup") /\ RemoveBegins("db", "rollback")
    \/ exists("backup") /\ RemoveEnds("db", "rollback", "restore")

Restore == Rename("backup", "db", "restore", "partial_temp")

RemovePartialTemp ==
    RemoveBegins("temp", "partial_temp") \/ RemoveEnds("temp", "partial_temp", "source")

\* db_has_data: a CURRENT file.  Remains may have one or not.
CheckSource ==
    /\ pc = "source"
    /\ \E b \in BOOLEAN :
         BootAt(IF kind["db"] \in Formats \/ (kind["db"] = "partial" /\ b) THEN "copy" ELSE "seal")
    /\ UNCHANGED <<disk, history>>

\* (1) seal_db_copy: <db> is opened read-only; the destination is created, filled
\* in batches and flushed.
CopyBegins ==
    /\ pc = "copy"
    /\ kind["temp"] = "none"
    /\ Put("temp", "partial", 0)
    /\ UNCHANGED <<marker, pc, history>>

CopyEnds ==
    /\ pc = "copy"
    /\ kind["temp"] = "partial"
    /\ Put("temp", "sealed", data["db"])
    /\ BootAt("verify_copy")
    /\ UNCHANGED <<marker, history>>

VerifyCopy == VerifyOpen("temp", "verify_copy", "set_aside")

\* Mutant: the marker comes before the swap is complete.
SetAsideAndMark ==
    /\ pc = "set_aside"
    /\ kind' = [kind EXCEPT !["backup"] = kind["db"], !["db"] = "none"]
    /\ data' = [data EXCEPT !["backup"] = data["db"], !["db"] = 0]
    /\ marker' = TRUE
    /\ BootAt("swap_in")
    /\ UNCHANGED history

\* (2) and (3): plaintext aside, sealed copy live.
SetAside == Rename("db", "backup", "set_aside", "swap_in")
SwapIn == Rename("temp", "db", "swap_in", "mark")

\* (4) write_sealed_marker.
Mark ==
    /\ pc = "mark"
    /\ marker' = TRUE
    /\ BootAt("verify")
    /\ UNCHANGED <<kind, data, history>>

\* (5) the live database opens; only then the plaintext goes.
Verify == VerifyOpen("db", "verify", "drop_backup")
DropBackup ==
    RemoveBegins("backup", "drop_backup") \/ RemoveEnds("backup", "drop_backup", "seal")

----------------------------------------------------------------------------
\* prepare_with_config writes the marker again, whatever the outcome.
Seal ==
    /\ pc = "seal"
    /\ marker' = TRUE
    /\ BootAt("open")
    /\ UNCHANGED <<kind, data, history>>

\* Node::run opens the store, creating it if there is none.
Open ==
    /\ pc = "open"
    /\ IF kind["db"] \in Formats THEN UNCHANGED <<kind, data>> ELSE Put("db", mode, 0)
    /\ BootAt("serving")
    /\ UNCHANGED <<marker, history>>

\* A write through the store of this boot.
Write ==
    /\ pc = "serving"
    /\ writes < MaxWrites
    /\ writes' = writes + 1
    /\ Put("db", IF kind["db"] = mode THEN mode ELSE "mixed", data["db"] + 1)
    /\ UNCHANGED <<marker, pc, mode, sealing, stops>>

\* The process dies, or a step returns an error and the boot fails.
Stop ==
    /\ pc # "down"
    /\ stops < MaxStops
    /\ stops' = stops + 1
    /\ BootAt("down")
    /\ UNCHANGED <<disk, mode, sealing, writes>>

BootStep ==
    \/ \E m \in Modes : Boot(m)
    \/ FetchDek \/ CheckMarker
    \/ RemoveStaleTemp \/ CheckBackup \/ CleanBackup
    \/ CheckRollback \/ Restore \/ RemovePartialTemp \/ CheckSource
    \/ CopyBegins \/ CopyEnds \/ VerifyCopy \/ SetAside \/ SwapIn
    \/ Mark \/ Verify \/ DropBackup
    \/ Seal \/ Open

MigrationNext == BootStep \/ Write \/ Stop

MigrationSpec == MigrationInit /\ [][MigrationNext]_migrationVars

\* The supervisor restarts a node that is down, and a boot runs to its end unless
\* it stops.
FairSpec == MigrationSpec /\ WF_migrationVars(BootStep)

----------------------------------------------------------------------------
(* Properties.                                                              *)

\* Every variable keeps its shape.
MigrationTypeOK ==
    /\ kind \in [Dirs -> Contents]
    /\ data \in [Dirs -> Nat]
    /\ marker \in BOOLEAN /\ sealing \in BOOLEAN
    /\ pc \in Steps
    /\ mode \in Modes
    /\ writes \in Nat /\ stops \in Nat

\* Where the next boot will look for the state.
Authoritative == IF ~marker /\ exists("backup") THEN "backup" ELSE "db"

\* "plaintext data is never mutated in place and never lost before a verified
\* sealed copy has taken its place": wherever the process stops, the directory the
\* next boot starts from holds every acknowledged write.
NothingLost ==
    writes > 0 => kind[Authoritative] \in {"plain", "sealed"} /\ data[Authoritative] = writes

\* A node that serves has every write, and in sealed mode nothing in plain: not in
\* the database, not in a backup, not in an unfinished copy.
ServesEverything ==
    pc = "serving" =>
        /\ data["db"] = writes
        /\ mode = "sealed" => marker /\ kind["db"] = "sealed" /\ ~exists("backup") /\ ~exists("temp")

\* The plaintext backup is given up only for a complete sealed database with the
\* marker set, or by becoming the database again.
BackupOutlivesCopy ==
    [][kind["backup"] = "plain" /\ kind'["backup"] # "plain" =>
         \/ marker /\ kind["db"] = "sealed" /\ data["db"] = data["backup"]
         \/ kind'["db"] = "plain" /\ data'["db"] = data["backup"]]_migrationVars

\* "a failed boot can simply retry": no crash, wherever it falls, leaves the
\* directories in a state that fails every later boot.
BootSucceeds == <>[](pc = "serving")
=============================================================================
