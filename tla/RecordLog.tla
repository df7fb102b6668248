----------------------------- MODULE RecordLog -----------------------------
(***************************************************************************)
(* One agent's record log and the tasks that append to it.                  *)
(*                                                                          *)
(* The store keeps the log as a map from sequence number to entry plus a    *)
(* separate head counter (rocks_store: CF record, agent_meta/head_seq).     *)
(* Every writer follows the same optimistic protocol: read the head, load   *)
(* the trailing window, hash, and ask the store to append at head + 1; the  *)
(* store re-checks the head under its append lock.  Four kinds of writer    *)
(* differ in what they hash and in what they do when the store refuses:     *)
(*                                                                          *)
(*   direct - Kernel::process_direct, reason, the tool pipeline             *)
(*   stream - Kernel::reason_streaming finalised by ReasonStreamHandle      *)
(*   system - write_system_record, which retries a refused append           *)
(*   spawn  - KernelSpawnHook's Delegate entry on the parent's log          *)
(*                                                                          *)
(* A context hash is hash(tx || hashes of the window's entries).  BLAKE3 is *)
(* taken to be injective, and an entry never changes once written, so the   *)
(* hash is represented by the set of sequence numbers that were hashed.     *)
(***************************************************************************)
EXTENDS Integers

CONSTANTS
    Tasks,        \* concurrent tasks that write this agent's log
    Kernels,      \* Kernel instances bound to this agent
    KernelOf,     \* the Kernel a task calls into
    KindsOf,      \* the kinds of writer a task may act as
    WindowSize,   \* KernelConfig::record_window_size (50 in every production config)
    MaxRetries,   \* write_system_record's MAX_RETRIES
    MaxOps        \* bound: how many operations each task starts

Kinds == {"direct", "stream", "system", "spawn"}

ASSUME ConstantsAssumption ==
    /\ KernelOf \in [Tasks -> Kernels]
    /\ KindsOf \in [Tasks -> SUBSET Kinds]
    /\ WindowSize \in Nat \ {0}
    /\ MaxRetries \in Nat
    /\ MaxOps \in [Tasks -> Nat]

VARIABLES
    rec,      \* CF record: sequence number -> entry
    head,     \* agent_meta/head_seq (0 when the key is absent)
    counter,  \* Kernel::seq of each kernel instance
    \* per task, the operation it is in:
    pc,       \* where it stands
    kind,     \* as which kind of writer it acts
    txn,      \* the number of its current transaction
    seq,      \* the sequence number it was handed
    window,   \* the window it loaded
    tries,    \* write_system_record's attempt counter
    start     \* auxiliary: the head when the operation began

store == <<rec, head>>
locals == <<kind, txn, seq, window, tries, start>>
vars == <<store, counter, pc, locals>>

Txs == [task : Tasks, n : Nat]
Entries == [tx : Txs, kind : Kinds, hashed : SUBSET Nat]

max(a, b) == IF a >= b THEN a ELSE b
saturating_sub(a, b) == max(a - b, 0)

\* ReadStore::scan_record(agent, from, limit): keys are contiguous from 1.
scan_record(from, limit) ==
    {s \in DOMAIN rec : from <= s /\ s < max(from, 1) + limit}

\* Mutant: the window starts one entry too early.
load_window_early(next) == scan_record(saturating_sub(next, WindowSize + 1), WindowSize)

\* Kernel::load_window.
load_window(next) == scan_record(saturating_sub(next, WindowSize), WindowSize)

\* The window append_system_record_once hashes: from_seq = (head - 49).max(1),
\* limit 50, and nothing at all for an empty log.
system_window(h) ==
    IF h = 0 THEN {} ELSE scan_record(max(saturating_sub(h, WindowSize - 1), 1), WindowSize)

\* ReplayConsumer::validate_entry recomputes the hash of entry s from this.
replay_window(s) ==
    {r \in scan_record(saturating_sub(s, WindowSize), WindowSize) : r < s}

TxOf(t) == [task |-> t, n |-> txn[t]]
Idle(t) == pc[t] = "idle"
Goto(t, label) == pc' = [pc EXCEPT ![t] = label]

----------------------------------------------------------------------------
(* The store: append_entry_direct_internal, one step under append_lock.     *)

\* Mutants: the head check dropped, or one too lenient.
assert_nothing(next) == TRUE
assert_not_older(next) == next >= head

\* RocksStore::assert_next_seq.
assert_next_seq(next) == next = head + 1

\* One WriteBatch puts the entry and the new head.
append_record_and_head(next, entry) ==
    /\ rec' = [s \in DOMAIN rec \cup {next} |-> IF s = next THEN entry ELSE rec[s]]
    /\ head' = next

----------------------------------------------------------------------------
Init ==
    /\ rec = [s \in {} |-> s]
    /\ head = 0
    /\ counter = [k \in Kernels |-> 1]
    /\ pc = [t \in Tasks |-> "idle"]
    /\ kind = [t \in Tasks |-> "direct"]
    /\ txn = [t \in Tasks |-> 0]
    /\ seq = [t \in Tasks |-> 0]
    /\ window = [t \in Tasks |-> {}]
    /\ tries = [t \in Tasks |-> 0]
    /\ start = [t \in Tasks |-> 0]

\* Kernel::new: the scheduler builds a kernel per drain, a session one per session.
NewKernel(k) ==
    /\ \A t \in Tasks : KernelOf[t] = k => Idle(t)
    /\ counter' = [counter EXCEPT ![k] = head + 1]
    /\ UNCHANGED <<store, pc, locals>>

\* A caller starts an operation; nothing is read yet.
Begin(t, as) ==
    /\ Idle(t)
    /\ as \in KindsOf[t]
    /\ txn[t] < MaxOps[t]
    /\ kind' = [kind EXCEPT ![t] = as]
    /\ txn' = [txn EXCEPT ![t] = @ + 1]
    /\ tries' = [tries EXCEPT ![t] = 0]
    /\ start' = [start EXCEPT ![t] = head]
    /\ Goto(t, IF as = "stream" THEN "snapshot" ELSE "next_seq")
    /\ UNCHANGED <<store, counter, seq, window>>

\* Mutant: the counter is left at the number handed out.
NextSeqNotAdvanced(t) ==
    /\ pc[t] = "next_seq"
    /\ seq' = [seq EXCEPT ![t] = head + 1]
    /\ counter' = IF kind[t] \in {"direct", "stream"}
                  THEN [counter EXCEPT ![KernelOf[t]] = head + 1] ELSE counter
    /\ window' = IF kind[t] = "spawn" THEN [window EXCEPT ![t] = {}] ELSE window
    /\ Goto(t, IF kind[t] \in {"direct", "system"} THEN "window" ELSE "append")
    /\ UNCHANGED <<store, kind, txn, tries, start>>

\* Kernel::next_seq (ReasonStreamHandle::next_seq is the same code): re-read the
\* head and leave the in-memory counter one past the number handed out.  The
\* non-kernel writers read the head and have no counter; the spawn hook hashes
\* its entry over an empty window.
NextSeq(t) ==
    /\ pc[t] = "next_seq"
    /\ seq' = [seq EXCEPT ![t] = head + 1]
    /\ counter' = IF kind[t] \in {"direct", "stream"}
                  THEN [counter EXCEPT ![KernelOf[t]] = head + 2] ELSE counter
    /\ window' = IF kind[t] = "spawn" THEN [window EXCEPT ![t] = {}] ELSE window
    /\ Goto(t, IF kind[t] \in {"direct", "system"} THEN "window" ELSE "append")
    /\ UNCHANGED <<store, kind, txn, tries, start>>

\* The window is a second store read: other tasks may have appended in between.
LoadWindow(t) ==
    /\ pc[t] = "window"
    /\ window' = [window EXCEPT ![t] =
                    IF kind[t] = "system" THEN system_window(seq[t] - 1)
                    ELSE load_window(seq[t])]
    /\ Goto(t, "append")
    /\ UNCHANGED <<store, counter, kind, txn, seq, tries, start>>

\* reason_streaming: the window is loaded before the provider is called, at the
\* sequence number the in-memory counter projects.
StreamSnapshot(t) ==
    /\ pc[t] = "snapshot"
    /\ window' = [window EXCEPT ![t] = load_window(counter[KernelOf[t]])]
    /\ Goto(t, "streaming")
    /\ UNCHANGED <<store, counter, kind, txn, seq, tries, start>>

\* Mutant: a dropped stream does not consume its handle.
StreamFinalizeUnrecorded(t) ==
    /\ pc[t] = "streaming"
    /\ Goto(t, "idle")
    /\ UNCHANGED <<store, counter, locals>>

\* The stream ends, errors or is dropped: RecordingStream consumes the handle.
StreamFinalize(t) ==
    /\ pc[t] = "streaming"
    /\ Goto(t, "next_seq")
    /\ UNCHANGED <<store, counter, locals>>

\* The provider refused the handshake or timed out: record_reasoning_failure is
\* an ordinary direct append, with a window of its own.
StreamHandshakeFails(t) ==
    /\ pc[t] = "streaming"
    /\ kind' = [kind EXCEPT ![t] = "direct"]
    /\ Goto(t, "next_seq")
    /\ UNCHANGED <<store, counter, txn, seq, window, tries, start>>

\* Mutant: one retry too few.
CanRetryLess(t) == kind[t] = "system" /\ tries[t] + 1 < MaxRetries

\* Only write_system_record starts over, while it has retries left.
CanRetry(t) == kind[t] = "system" /\ tries[t] < MaxRetries

\* Mutant: an append that landed is retried as well.
AppendOkRetried(t) ==
    /\ pc[t] = "append"
    /\ assert_next_seq(seq[t])
    /\ append_record_and_head(seq[t], [tx |-> TxOf(t), kind |-> kind[t], hashed |-> window[t]])
    /\ tries' = IF CanRetry(t) THEN [tries EXCEPT ![t] = @ + 1] ELSE tries
    /\ Goto(t, IF CanRetry(t) THEN "next_seq" ELSE "idle")
    /\ UNCHANGED <<counter, kind, txn, seq, window, start>>

\* The append lands.
AppendOk(t) ==
    /\ pc[t] = "append"
    /\ assert_next_seq(seq[t])
    /\ append_record_and_head(seq[t], [tx |-> TxOf(t), kind |-> kind[t], hashed |-> window[t]])
    /\ Goto(t, "idle")
    /\ UNCHANGED <<counter, locals>>

\* SequenceMismatch: every writer but write_system_record reports the error to
\* its caller (RecordingStream only logs it).
AppendRefused(t) ==
    /\ pc[t] = "append"
    /\ ~assert_next_seq(seq[t])
    /\ tries' = IF CanRetry(t) THEN [tries EXCEPT ![t] = @ + 1] ELSE tries
    /\ Goto(t, IF CanRetry(t) THEN "next_seq" ELSE "idle")
    /\ UNCHANGED <<store, counter, kind, txn, seq, window, start>>

Next ==
    \/ \E k \in Kernels : NewKernel(k)
    \/ \E t \in Tasks :
        \/ \E as \in Kinds : Begin(t, as)
        \/ NextSeq(t) \/ LoadWindow(t)
        \/ StreamSnapshot(t) \/ StreamFinalize(t) \/ StreamHandshakeFails(t)
        \/ AppendOk(t) \/ AppendRefused(t)

Spec == Init /\ [][Next]_vars

----------------------------------------------------------------------------
(* Properties.                                                              *)

\* Every variable keeps its shape; sequence numbers and windows stay natural.
TypeOK ==
    /\ head \in Nat
    /\ rec \in [DOMAIN rec -> Entries]
    /\ DOMAIN rec \subseteq Nat
    /\ counter \in [Kernels -> Nat]
    /\ pc \in [Tasks -> {"idle", "next_seq", "window", "append", "snapshot", "streaming"}]
    /\ kind \in [Tasks -> Kinds]
    /\ txn \in [Tasks -> Nat]
    /\ seq \in [Tasks -> Nat]
    /\ window \in [Tasks -> SUBSET Nat]
    /\ tries \in [Tasks -> Nat]
    /\ start \in [Tasks -> Nat]

\* docs/invariants.md section 7: an agent's entries have contiguous sequence
\* numbers starting at 1 and ending at the head, whatever writers race.
Contiguous == DOMAIN rec = 1..head

\* docs/invariants.md section 10: no step modifies or deletes an entry that is in
\* the log, and the head never moves back.
AppendOnly ==
    [][/\ DOMAIN rec \subseteq DOMAIN rec'
       /\ \A s \in DOMAIN rec : rec'[s] = rec[s]
       /\ head <= head']_vars

\* A transaction is never in the log twice: a refused append wrote nothing, so
\* write_system_record's retry cannot duplicate its record.
RecordedAtMostOnce ==
    \A r, s \in DOMAIN rec : rec[r].tx = rec[s].tx => r = s

\* What Kernel::new with replay_from accepts: the context hash of entry s equals
\* the one ReplayConsumer::validate_entry recomputes from the stored log.
Replays(s) == rec[s].hashed = replay_window(s)

\* The direct and system writers hash exactly the window that replay recomputes,
\* although they read the head, read the window and append in three separate
\* steps: any append that lands in between makes the store refuse theirs.
WindowedWritersReplay ==
    \A s \in DOMAIN rec : rec[s].kind \in {"direct", "system"} => Replays(s)

\* The whole log replays (Kernel::new with replay_from does not refuse it).
LogReplays == \A s \in DOMAIN rec : Replays(s)

\* No entry's hash depends on itself or on a later entry, whichever window its
\* writer took and however stale the kernel's counter was when it took it.
HashesOlderEntries ==
    \A s \in DOMAIN rec : rec[s].hashed \subseteq 1..(s - 1)

\* write_system_record gives up only under real contention: when it returns the
\* "sequence mismatch unresolved" error, at least MaxRetries + 1 entries of other
\* writers landed since it was called.
GivesUpOnlyUnderContention ==
    [][\A t \in Tasks :
        (kind[t] = "system" /\ pc[t] = "append" /\ pc'[t] = "idle" /\ head' = head)
            => head >= start[t] + MaxRetries + 1]_vars

\* docs/invariants.md section 3, "Every LLM call is recorded": a task that is done
\* with its streaming call has left a Reasoning entry for it.
StreamingCallsRecorded ==
    \A t \in Tasks : Idle(t) /\ kind[t] = "stream" =>
        \E s \in DOMAIN rec : rec[s].tx = TxOf(t)
=============================================================================
