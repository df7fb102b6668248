-------------------------- MODULE RecordLogProofs --------------------------
(* Proofs about RecordLog, for any number of writers, kernels and retries,   *)
(* and for any window size.                                                  *)
EXTENDS RecordLog, TLAPS

(***************************************************************************)
(* The trailing window of sequence number s, as arithmetic.                 *)
(***************************************************************************)
WindowBefore(s) == {r \in 1..(s - 1) : s - WindowSize <= r}

\* When the log is contiguous, what a kernel loads for the next sequence number
\* is the trailing window of that number.
LEMMA LoadWindowIsTrailing ==
    ASSUME head \in Nat, Contiguous
    PROVE  load_window(head + 1) = WindowBefore(head + 1)
  BY ConstantsAssumption
  DEF Contiguous, load_window, scan_record, saturating_sub, max, WindowBefore

\* The same for the window write_system_record computes its own way.
LEMMA SystemWindowIsTrailing ==
    ASSUME head \in Nat, Contiguous
    PROVE  system_window(head) = WindowBefore(head + 1)
  BY ConstantsAssumption
  DEF Contiguous, system_window, scan_record, saturating_sub, max, WindowBefore

\* Replay recomputes the trailing window of every entry in the log.
LEMMA ReplayWindowIsTrailing ==
    ASSUME head \in Nat, Contiguous, NEW s \in 1..head
    PROVE  replay_window(s) = WindowBefore(s)
  BY ConstantsAssumption
  DEF Contiguous, replay_window, scan_record, saturating_sub, max, WindowBefore

(***************************************************************************)
(* The inductive invariant.  Contiguous alone is not enough for the hash    *)
(* chain: it needs to know that a writer about to append never holds a      *)
(* number past the next one, and that if the number it holds is still the   *)
(* next one then nothing was appended since it read the head, so the window *)
(* it loaded is still the trailing window.                                  *)
(***************************************************************************)
Windowed == {"direct", "system"}

SeqNotAhead ==
    \A t \in Tasks : pc[t] \in {"window", "append"} => seq[t] \in 1..(head + 1)

WindowsInLog == \A t \in Tasks : window[t] \subseteq 1..head

FreshWindow ==
    \A t \in Tasks :
        (pc[t] = "append" /\ kind[t] \in Windowed /\ seq[t] = head + 1)
            => window[t] = WindowBefore(head + 1)

HashedTrailing ==
    \A s \in DOMAIN rec : rec[s].kind \in Windowed => rec[s].hashed = WindowBefore(s)

IInv ==
    /\ TypeOK /\ Contiguous
    /\ SeqNotAhead /\ WindowsInLog /\ FreshWindow
    /\ HashedTrailing /\ HashesOlderEntries

\* The initial state, an empty log with idle tasks, satisfies the invariant.
LEMMA InitIInv == Init => IInv
  BY ConstantsAssumption
  DEF Init, IInv, TypeOK, Contiguous, SeqNotAhead, WindowsInLog, FreshWindow,
      HashedTrailing, HashesOlderEntries, Kinds

\* Types are preserved by every step.
LEMMA NextTypeOK == TypeOK /\ [Next]_vars => TypeOK'
<1> SUFFICES ASSUME TypeOK, [Next]_vars PROVE TypeOK'
  OBVIOUS
<1> USE ConstantsAssumption DEF TypeOK, store, locals, Goto
<1>1. ASSUME NEW k \in Kernels, NewKernel(k) PROVE TypeOK'
  BY <1>1 DEF NewKernel
<1>2. ASSUME NEW t \in Tasks, NEW as \in Kinds, Begin(t, as) PROVE TypeOK'
  <2>1. pc' \in [Tasks -> {"idle", "next_seq", "window", "append", "snapshot", "streaming"}]
    BY <1>2 DEF Begin
  <2>2. txn' \in [Tasks -> Nat] /\ tries' \in [Tasks -> Nat] /\ start' \in [Tasks -> Nat]
    BY <1>2 DEF Begin
  <2>3. kind' \in [Tasks -> Kinds]
    BY <1>2 DEF Begin
  <2> QED
    BY <1>2, <2>1, <2>2, <2>3 DEF Begin
<1>3. ASSUME NEW t \in Tasks, NextSeq(t) PROVE TypeOK'
  <2>1. counter' \in [Kernels -> Nat]
    BY <1>3 DEF NextSeq
  <2>2. window' \in [Tasks -> SUBSET Nat]
    BY <1>3 DEF NextSeq
  <2> QED
    BY <1>3, <2>1, <2>2 DEF NextSeq
<1>4. ASSUME NEW t \in Tasks, LoadWindow(t) PROVE TypeOK'
  BY <1>4 DEF LoadWindow, system_window, load_window, scan_record
<1>5. ASSUME NEW t \in Tasks, StreamSnapshot(t) PROVE TypeOK'
  BY <1>5 DEF StreamSnapshot, load_window, scan_record
<1>6. ASSUME NEW t \in Tasks, StreamFinalize(t) PROVE TypeOK'
  BY <1>6 DEF StreamFinalize
<1>7. ASSUME NEW t \in Tasks, StreamHandshakeFails(t) PROVE TypeOK'
  BY <1>7 DEF StreamHandshakeFails, Kinds
<1>8. ASSUME NEW t \in Tasks, AppendOk(t) PROVE TypeOK'
  BY <1>8 DEF AppendOk, append_record_and_head, assert_next_seq, TxOf, Entries, Txs
<1>9. ASSUME NEW t \in Tasks, AppendRefused(t) PROVE TypeOK'
  BY <1>9 DEF AppendRefused
<1>10. CASE UNCHANGED vars
  BY <1>10 DEF vars
<1> QED
  BY <1>1, <1>2, <1>3, <1>4, <1>5, <1>6, <1>7, <1>8, <1>9, <1>10 DEF Next

\* A step that leaves the store alone keeps the facts about stored entries.
LEMMA StoreUnchanged ==
    ASSUME IInv, UNCHANGED store
    PROVE  Contiguous' /\ HashedTrailing' /\ HashesOlderEntries'
  BY DEF IInv, store, Contiguous, HashedTrailing, HashesOlderEntries, WindowBefore

\* What a successful append does to the store.
LEMMA AppendEffect ==
    ASSUME TypeOK, Contiguous, NEW t \in Tasks, AppendOk(t)
    PROVE  /\ seq[t] = head + 1 /\ head' = head + 1
           /\ DOMAIN rec' = 1..(head + 1)
           /\ rec'[head + 1] = [tx |-> TxOf(t), kind |-> kind[t], hashed |-> window[t]]
           /\ \A s \in 1..head : rec'[s] = rec[s]
<1>1. seq[t] = head + 1 /\ head' = head + 1 /\ head \in Nat
  BY DEF AppendOk, assert_next_seq, append_record_and_head, TypeOK
<1> DEFINE e == [tx |-> TxOf(t), kind |-> kind[t], hashed |-> window[t]]
<1>2. rec' = [s \in (1..head) \cup {head + 1} |-> IF s = head + 1 THEN e ELSE rec[s]]
  BY <1>1 DEF AppendOk, append_record_and_head, Contiguous
<1> HIDE DEF e
<1>3. (1..head) \cup {head + 1} = 1..(head + 1)
  BY <1>1
<1> QED
  BY <1>1, <1>2, <1>3 DEF e

\* A successful append extends the hash chain: the number it was handed is the
\* next one, so the window it loaded is the trailing one.
LEMMA AppendIInv ==
    ASSUME IInv, TypeOK', NEW t \in Tasks, AppendOk(t)
    PROVE  IInv'
<1>1. /\ seq[t] = head + 1 /\ head' = head + 1
      /\ DOMAIN rec' = 1..(head + 1)
      /\ rec'[head + 1] = [tx |-> TxOf(t), kind |-> kind[t], hashed |-> window[t]]
      /\ \A s \in 1..head : rec'[s] = rec[s]
  BY AppendEffect DEF IInv
<1>h. head \in Nat /\ DOMAIN rec = 1..head
  BY DEF IInv, TypeOK, Contiguous
<1>2. Contiguous'
  BY <1>1 DEF Contiguous
<1>3. /\ pc' = [pc EXCEPT ![t] = "idle"] /\ pc[t] = "append"
      /\ UNCHANGED <<kind, seq, window>>
  BY DEF AppendOk, Goto, locals
<1>4. SeqNotAhead'
  BY <1>1, <1>h, <1>3 DEF IInv, SeqNotAhead, TypeOK
<1>5. WindowsInLog'
  BY <1>1, <1>h, <1>3 DEF IInv, WindowsInLog
<1>6. FreshWindow'
  BY <1>1, <1>h, <1>3 DEF IInv, SeqNotAhead, FreshWindow, TypeOK
<1>7. rec'[head + 1].kind = kind[t] /\ rec'[head + 1].hashed = window[t]
  BY <1>1
<1>8. \A s \in 1..(head + 1) : s \in 1..head \/ s = head + 1
  BY <1>h
<1>9. HashedTrailing'
  <2>1. kind[t] \in Windowed => window[t] = WindowBefore(head + 1)
    BY <1>1, <1>3 DEF IInv, FreshWindow
  <2>2. \A s \in 1..head : rec'[s].kind \in Windowed => rec'[s].hashed = WindowBefore(s)
    BY <1>1, <1>h DEF IInv, HashedTrailing
  <2> QED
    BY <1>1, <1>7, <1>8, <2>1, <2>2 DEF HashedTrailing, WindowBefore
<1>10. HashesOlderEntries'
  <2>1. \A s \in 1..head : rec'[s].hashed \subseteq 1..(s - 1)
    BY <1>1, <1>h DEF IInv, HashesOlderEntries
  <2>2. rec'[head + 1].hashed \subseteq 1..((head + 1) - 1)
    BY <1>7, <1>h DEF IInv, WindowsInLog
  <2> QED
    BY <1>1, <1>8, <2>1, <2>2 DEF HashesOlderEntries
<1> QED
  BY <1>2, <1>4, <1>5, <1>6, <1>9, <1>10 DEF IInv

\* Every step keeps the inductive invariant.
LEMMA NextIInv == IInv /\ [Next]_vars => IInv'
<1> SUFFICES ASSUME IInv, [Next]_vars PROVE IInv'
  OBVIOUS
<1>t. TypeOK'
  BY NextTypeOK DEF IInv
<1> USE ConstantsAssumption, <1>t DEF IInv, TypeOK, SeqNotAhead, WindowsInLog, FreshWindow
<1>1. ASSUME NEW k \in Kernels, NewKernel(k) PROVE IInv'
  BY <1>1, StoreUnchanged DEF NewKernel, store, locals, WindowBefore
<1>2. ASSUME NEW t \in Tasks, NEW as \in Kinds, Begin(t, as) PROVE IInv'
  BY <1>2, StoreUnchanged DEF Begin, store, Goto, WindowBefore
<1>3. ASSUME NEW t \in Tasks, NextSeq(t) PROVE IInv'
  <2>1. SeqNotAhead' /\ WindowsInLog'
    BY <1>3 DEF NextSeq, store, Goto
  <2>2. FreshWindow'
    BY <1>3 DEF NextSeq, store, Goto, WindowBefore, Windowed
  <2> QED
    BY <1>3, <2>1, <2>2, StoreUnchanged DEF NextSeq, store
<1>4. ASSUME NEW t \in Tasks, LoadWindow(t) PROVE IInv'
  <2>1. SeqNotAhead'
    BY <1>4 DEF LoadWindow, store, Goto
  <2>2. WindowsInLog'
    BY <1>4 DEF LoadWindow, store, Goto, load_window, system_window, scan_record, Contiguous
  <2>3. (seq[t] = head + 1 /\ kind[t] \in Windowed) => window'[t] = WindowBefore(head + 1)
    BY <1>4, LoadWindowIsTrailing, SystemWindowIsTrailing DEF LoadWindow, store, Windowed
  <2>4. FreshWindow'
    BY <1>4, <2>3 DEF LoadWindow, store, Goto, WindowBefore
  <2> QED
    BY <1>4, <2>1, <2>2, <2>4, StoreUnchanged DEF LoadWindow, store
<1>5. ASSUME NEW t \in Tasks, StreamSnapshot(t) PROVE IInv'
  <2>1. WindowsInLog'
    BY <1>5 DEF StreamSnapshot, store, Goto, load_window, scan_record, Contiguous
  <2>2. SeqNotAhead' /\ FreshWindow'
    BY <1>5 DEF StreamSnapshot, store, Goto, WindowBefore
  <2> QED
    BY <1>5, <2>1, <2>2, StoreUnchanged DEF StreamSnapshot, store
<1>6. ASSUME NEW t \in Tasks, StreamFinalize(t) PROVE IInv'
  BY <1>6, StoreUnchanged DEF StreamFinalize, store, locals, Goto, WindowBefore
<1>7. ASSUME NEW t \in Tasks, StreamHandshakeFails(t) PROVE IInv'
  BY <1>7, StoreUnchanged DEF StreamHandshakeFails, store, Goto, WindowBefore
<1>8. ASSUME NEW t \in Tasks, AppendOk(t) PROVE IInv'
  BY <1>8, AppendIInv
<1>9. ASSUME NEW t \in Tasks, AppendRefused(t) PROVE IInv'
  BY <1>9, StoreUnchanged DEF AppendRefused, store, Goto, WindowBefore
<1>10. CASE UNCHANGED vars
  BY <1>10, StoreUnchanged DEF vars, store, locals, WindowBefore
<1> QED
  BY <1>1, <1>2, <1>3, <1>4, <1>5, <1>6, <1>7, <1>8, <1>9, <1>10 DEF Next

\* The invariant holds throughout.
LEMMA AlwaysIInv == Spec => []IInv
  BY InitIInv, NextIInv, PTL DEF Spec

\* Type correctness of every reachable state.
THEOREM TypeCorrect == Spec => []TypeOK
  BY AlwaysIInv, PTL DEF IInv

\* docs/invariants.md section 7 for any number of concurrent writers: the log has
\* no gap and ends at the head (assert_next_seq under the append lock).
THEOREM LogContiguous == Spec => []Contiguous
  BY AlwaysIInv, PTL DEF IInv

\* The three-step read-head, load-window, append of the kernel and of
\* write_system_record always leaves an entry that replay accepts.
THEOREM WindowedEntriesReplay == Spec => []WindowedWritersReplay
<1>1. IInv => WindowedWritersReplay
  <2> SUFFICES ASSUME IInv, NEW s \in DOMAIN rec, rec[s].kind \in {"direct", "system"}
               PROVE  rec[s].hashed = replay_window(s)
    BY DEF WindowedWritersReplay, Replays
  <2>1. rec[s].hashed = WindowBefore(s)
    BY DEF IInv, HashedTrailing, Windowed
  <2>2. head \in Nat /\ Contiguous /\ s \in 1..head
    BY DEF IInv, TypeOK, Contiguous
  <2> QED
    BY <2>1, <2>2, ReplayWindowIsTrailing
<1> QED
  BY <1>1, AlwaysIInv, PTL

\* The hash chain is well founded for all four kinds of writer: an entry's hash
\* covers older entries only.
THEOREM HashChainWellFounded == Spec => []HashesOlderEntries
  BY AlwaysIInv, PTL DEF IInv

\* docs/invariants.md section 10: no step of any writer changes a stored entry.
THEOREM LogAppendOnly == Spec => AppendOnly
<1> DEFINE Step == /\ DOMAIN rec \subseteq DOMAIN rec'
                   /\ \A s \in DOMAIN rec : rec'[s] = rec[s]
                   /\ head <= head'
<1>1. ASSUME IInv, [Next]_vars PROVE [Step]_vars
  <2>1. CASE \E t \in Tasks : AppendOk(t)
    <3> PICK t \in Tasks : AppendOk(t)
      BY <2>1
    <3>1. head \in Nat /\ DOMAIN rec = 1..head
      BY <1>1 DEF IInv, TypeOK, Contiguous
    <3>2. /\ head' = head + 1
          /\ DOMAIN rec' = 1..(head + 1)
          /\ \A s \in 1..head : rec'[s] = rec[s]
      BY <1>1, AppendEffect DEF IInv
    <3> QED
      BY <3>1, <3>2
  <2>2. CASE UNCHANGED store
    BY <1>1, <2>2 DEF store, IInv, TypeOK
  <2>3. (\E t \in Tasks : AppendOk(t)) \/ UNCHANGED store
    BY <1>1 DEF Next, NewKernel, Begin, NextSeq, LoadWindow, StreamSnapshot,
                StreamFinalize, StreamHandshakeFails, AppendRefused, vars, store
  <2> QED
    BY <2>1, <2>2, <2>3
<1> QED
  BY <1>1, AlwaysIInv, PTL DEF Spec, AppendOnly

(***************************************************************************)
(* write_system_record gives up only after MaxRetries + 1 foreign appends.  *)
(* Each attempt that fails was overtaken, and the head never moves back.    *)
(***************************************************************************)
TriesPaidFor ==
    \A t \in Tasks :
        /\ pc[t] = "next_seq" => start[t] + tries[t] <= head
        /\ pc[t] \in {"window", "append"} => start[t] + tries[t] < seq[t]
        /\ pc[t] \in {"snapshot", "streaming"} => start[t] <= head /\ tries[t] = 0
        /\ pc[t] # "idle" /\ kind[t] # "system" => tries[t] = 0
        /\ tries[t] <= MaxRetries

\* No attempt has failed initially.
LEMMA InitTriesPaidFor == Init => TriesPaidFor
<1> SUFFICES ASSUME Init, NEW t \in Tasks
             PROVE  pc[t] = "idle" /\ tries[t] = 0 /\ 0 <= MaxRetries
  BY DEF TriesPaidFor
<1> QED
  BY ConstantsAssumption DEF Init

\* The accounting of failed attempts is inductive.
LEMMA NextTriesPaidFor == IInv /\ TriesPaidFor /\ [Next]_vars => TriesPaidFor'
<1> SUFFICES ASSUME IInv, TriesPaidFor, [Next]_vars PROVE TriesPaidFor'
  OBVIOUS
<1>t. TypeOK'
  BY NextTypeOK DEF IInv
<1> USE ConstantsAssumption, <1>t DEF IInv, TypeOK, TriesPaidFor, store, locals, Goto
<1>1. ASSUME NEW k \in Kernels, NewKernel(k) PROVE TriesPaidFor'
  BY <1>1 DEF NewKernel
<1>2. ASSUME NEW t \in Tasks, NEW as \in Kinds, Begin(t, as) PROVE TriesPaidFor'
  <2>1. /\ tries'[t] = 0 /\ start'[t] = head /\ head' = head
        /\ pc'[t] \in {"snapshot", "next_seq"}
    BY <1>2 DEF Begin
  <2>2. \A u \in Tasks \ {t} :
          pc'[u] = pc[u] /\ kind'[u] = kind[u] /\ tries'[u] = tries[u] /\ start'[u] = start[u]
    BY <1>2 DEF Begin
  <2>3. seq' = seq
    BY <1>2 DEF Begin
  <2> QED
    BY <2>1, <2>2, <2>3
<1>3. ASSUME NEW t \in Tasks, NextSeq(t) PROVE TriesPaidFor'
  BY <1>3 DEF NextSeq
<1>4. ASSUME NEW t \in Tasks, LoadWindow(t) PROVE TriesPaidFor'
  BY <1>4 DEF LoadWindow
<1>5. ASSUME NEW t \in Tasks, StreamSnapshot(t) PROVE TriesPaidFor'
  BY <1>5 DEF StreamSnapshot
<1>6. ASSUME NEW t \in Tasks, StreamFinalize(t) PROVE TriesPaidFor'
  BY <1>6 DEF StreamFinalize
<1>7. ASSUME NEW t \in Tasks, StreamHandshakeFails(t) PROVE TriesPaidFor'
  BY <1>7 DEF StreamHandshakeFails
<1>8. ASSUME NEW t \in Tasks, AppendOk(t) PROVE TriesPaidFor'
  <2>1. head' = head + 1
    BY <1>8 DEF AppendOk, assert_next_seq, append_record_and_head
  <2>2. pc' = [pc EXCEPT ![t] = "idle"] /\ UNCHANGED <<kind, seq, tries, start>>
    BY <1>8 DEF AppendOk
  <2> QED
    BY <2>1, <2>2
<1>9. ASSUME NEW t \in Tasks, AppendRefused(t) PROVE TriesPaidFor'
  <2>1. seq[t] <= head
    <3>1. seq[t] \in 1..(head + 1)
      BY <1>9 DEF AppendRefused, SeqNotAhead
    <3>2. seq[t] # head + 1
      BY <1>9 DEF AppendRefused, assert_next_seq
    <3> QED
      BY <3>1, <3>2
  <2>2. UNCHANGED <<head, kind, seq, start>> /\ pc[t] = "append"
    BY <1>9 DEF AppendRefused
  <2>3. CASE CanRetry(t)
    <3>1. tries' = [tries EXCEPT ![t] = @ + 1] /\ pc' = [pc EXCEPT ![t] = "next_seq"]
      BY <1>9, <2>3 DEF AppendRefused
    <3> QED
      BY <2>1, <2>2, <2>3, <3>1 DEF CanRetry
  <2>4. CASE ~CanRetry(t)
    <3>1. tries' = tries /\ pc' = [pc EXCEPT ![t] = "idle"]
      BY <1>9, <2>4 DEF AppendRefused
    <3> QED
      BY <2>2, <3>1
  <2> QED
    BY <2>3, <2>4
<1>10. CASE UNCHANGED vars
  BY <1>10 DEF vars
<1> QED
  BY <1>1, <1>2, <1>3, <1>4, <1>5, <1>6, <1>7, <1>8, <1>9, <1>10 DEF Next

\* The "sequence mismatch unresolved" error means what its text says: the head
\* moved at least MaxRetries + 1 times while the call was running.
THEOREM GivesUpUnderContention == Spec => GivesUpOnlyUnderContention
<1> DEFINE Step == \A t \in Tasks :
        (kind[t] = "system" /\ pc[t] = "append" /\ pc'[t] = "idle" /\ head' = head)
            => head >= start[t] + MaxRetries + 1
<1>2. Spec => []TriesPaidFor
  BY InitTriesPaidFor, AlwaysIInv, NextTriesPaidFor, PTL DEF Spec
<1>3. ASSUME IInv, TriesPaidFor, [Next]_vars PROVE [Step]_vars
  <2> SUFFICES ASSUME NEW t \in Tasks, Next,
                      kind[t] = "system", pc[t] = "append", pc'[t] = "idle", head' = head
               PROVE  head >= start[t] + MaxRetries + 1
    BY <1>3
  <2> USE ConstantsAssumption DEF IInv, TypeOK
  <2>1. AppendRefused(t)
    <3>1. ~AppendOk(t)
      BY <1>3 DEF AppendOk, assert_next_seq, append_record_and_head
    <3>2. \A k \in Kernels : ~NewKernel(k)
      BY <1>3 DEF NewKernel
    <3>3. \A u \in Tasks \ {t} :
            ~ \/ \E as \in Kinds : Begin(u, as)
              \/ NextSeq(u) \/ LoadWindow(u) \/ StreamSnapshot(u) \/ StreamFinalize(u)
              \/ StreamHandshakeFails(u) \/ AppendOk(u) \/ AppendRefused(u)
      BY <1>3 DEF Goto, Begin, NextSeq, LoadWindow, StreamSnapshot, StreamFinalize,
                  StreamHandshakeFails, AppendOk, AppendRefused
    <3>4. ~ \/ \E as \in Kinds : Begin(t, as)
            \/ NextSeq(t) \/ LoadWindow(t) \/ StreamSnapshot(t) \/ StreamFinalize(t)
            \/ StreamHandshakeFails(t)
      BY DEF Begin, Idle, NextSeq, LoadWindow, StreamSnapshot, StreamFinalize,
             StreamHandshakeFails
    <3> QED
      BY <3>1, <3>2, <3>3, <3>4 DEF Next
  <2>2. seq[t] <= head
    <3>1. seq[t] \in 1..(head + 1)
      BY <1>3 DEF SeqNotAhead
    <3>2. seq[t] # head + 1
      BY <2>1 DEF AppendRefused, assert_next_seq
    <3> QED
      BY <3>1, <3>2, <1>3
  <2>3. ~CanRetry(t)
    BY <1>3, <2>1 DEF AppendRefused, Goto
  <2> QED
    BY <1>3, <2>2, <2>3 DEF TriesPaidFor, CanRetry
<1> QED
  BY <1>2, <1>3, AlwaysIInv, PTL DEF Spec, GivesUpOnlyUnderContention

(***************************************************************************)
(* A transaction is recorded at most once: while a task is busy with its    *)
(* current transaction no entry carries it, and no entry carries a          *)
(* transaction its task has not started.                                    *)
(***************************************************************************)
Unrecorded(t) == \A s \in DOMAIN rec : rec[s].tx # [task |-> t, n |-> txn[t]]

TxOnce ==
    /\ \A t \in Tasks : \A s \in DOMAIN rec :
            rec[s].tx.task = t => rec[s].tx.n <= txn[t]
    /\ \A t \in Tasks : pc[t] # "idle" => Unrecorded(t)
    /\ RecordedAtMostOnce

\* A step that neither appends nor starts a transaction keeps TxOnce if every
\* task that is busy after it was busy before it.
LEMMA TxOnceKept ==
    ASSUME TxOnce, UNCHANGED <<store, txn>>,
           \A t \in Tasks : pc'[t] # "idle" => pc[t] # "idle"
    PROVE  TxOnce'
  BY DEF TxOnce, Unrecorded, RecordedAtMostOnce, store

\* TxOnce is inductive.
LEMMA NextTxOnce == IInv /\ TxOnce /\ [Next]_vars => TxOnce'
<1> SUFFICES ASSUME IInv, TxOnce, [Next]_vars PROVE TxOnce'
  OBVIOUS
<1>p. pc \in [Tasks -> {"idle", "next_seq", "window", "append", "snapshot", "streaming"}]
  BY DEF IInv, TypeOK
<1>1. ASSUME NEW k \in Kernels, NewKernel(k) PROVE TxOnce'
  BY <1>1, TxOnceKept DEF NewKernel, locals
<1>2. ASSUME NEW t \in Tasks, NEW as \in Kinds, Begin(t, as) PROVE TxOnce'
  <2>1. /\ UNCHANGED store
        /\ txn \in [Tasks -> Nat]
        /\ txn' = [txn EXCEPT ![t] = @ + 1]
        /\ \A u \in Tasks \ {t} : pc'[u] = pc[u]
    BY <1>2, <1>p DEF Begin, Goto, IInv, TypeOK
  <2>2. \A u \in Tasks : txn[u] <= txn'[u] /\ txn[u] \in Nat
    BY <2>1
  <2>3. \A s \in DOMAIN rec : rec[s].tx \in Txs
    BY DEF IInv, TypeOK, Entries
  <2>4. \A u \in Tasks : \A s \in DOMAIN rec :
          rec[s].tx.task = u => rec[s].tx.n <= txn'[u]
    BY <2>1, <2>2, <2>3 DEF TxOnce, Txs
  <2>5. \A s \in DOMAIN rec : rec[s].tx # [task |-> t, n |-> txn'[t]]
    BY <2>1, <2>2, <2>3 DEF TxOnce, Txs
  <2>6. \A u \in Tasks \ {t} : pc'[u] # "idle" =>
          \A s \in DOMAIN rec : rec[s].tx # [task |-> u, n |-> txn'[u]]
    BY <2>1 DEF TxOnce, Unrecorded
  <2> QED
    BY <2>1, <2>4, <2>5, <2>6 DEF TxOnce, Unrecorded, RecordedAtMostOnce, store
<1>3. ASSUME NEW t \in Tasks, NextSeq(t) PROVE TxOnce'
  BY <1>3, <1>p, TxOnceKept DEF NextSeq, Goto
<1>4. ASSUME NEW t \in Tasks, LoadWindow(t) PROVE TxOnce'
  BY <1>4, <1>p, TxOnceKept DEF LoadWindow, Goto
<1>5. ASSUME NEW t \in Tasks, StreamSnapshot(t) PROVE TxOnce'
  BY <1>5, <1>p, TxOnceKept DEF StreamSnapshot, Goto
<1>6. ASSUME NEW t \in Tasks, StreamFinalize(t) PROVE TxOnce'
  BY <1>6, <1>p, TxOnceKept DEF StreamFinalize, Goto, locals
<1>7. ASSUME NEW t \in Tasks, StreamHandshakeFails(t) PROVE TxOnce'
  BY <1>7, <1>p, TxOnceKept DEF StreamHandshakeFails, Goto
<1>8. ASSUME NEW t \in Tasks, AppendOk(t) PROVE TxOnce'
  <2>1. /\ head' = head + 1 /\ head \in Nat /\ DOMAIN rec = 1..head
        /\ DOMAIN rec' = 1..(head + 1)
        /\ rec'[head + 1] = [tx |-> TxOf(t), kind |-> kind[t], hashed |-> window[t]]
        /\ \A s \in 1..head : rec'[s] = rec[s]
    BY <1>8, AppendEffect DEF IInv, TypeOK, Contiguous
  <2>2. rec'[head + 1].tx = [task |-> t, n |-> txn[t]]
    BY <2>1 DEF TxOf
  <2>3. /\ pc[t] # "idle" /\ pc'[t] = "idle" /\ txn' = txn
        /\ \A u \in Tasks \ {t} : pc'[u] = pc[u]
    BY <1>8, <1>p DEF AppendOk, Goto, locals
  <2>4. \A s \in 1..(head + 1) : s \in 1..head \/ s = head + 1
    BY <2>1
  <2>5. \A s \in 1..head : rec[s].tx # [task |-> t, n |-> txn[t]]
    BY <2>1, <2>3 DEF TxOnce, Unrecorded
  <2>n. txn[t] \in Nat
    BY DEF IInv, TypeOK
  <2>6. \A u \in Tasks : \A s \in DOMAIN rec' :
          rec'[s].tx.task = u => rec'[s].tx.n <= txn'[u]
    BY <2>1, <2>2, <2>3, <2>4, <2>n DEF TxOnce
  <2>7. \A u \in Tasks : pc'[u] # "idle" => Unrecorded(u)'
    BY <2>1, <2>2, <2>3, <2>4 DEF TxOnce, Unrecorded
  <2>8. RecordedAtMostOnce'
    BY <2>1, <2>2, <2>4, <2>5 DEF TxOnce, RecordedAtMostOnce
  <2> QED
    BY <2>6, <2>7, <2>8 DEF TxOnce
<1>9. ASSUME NEW t \in Tasks, AppendRefused(t) PROVE TxOnce'
  BY <1>9, <1>p, TxOnceKept DEF AppendRefused, Goto
<1>10. CASE UNCHANGED vars
  BY <1>10, TxOnceKept DEF vars, locals
<1> QED
  BY <1>1, <1>2, <1>3, <1>4, <1>5, <1>6, <1>7, <1>8, <1>9, <1>10 DEF Next

\* No race between writers and no retry of write_system_record puts the same
\* transaction into the log twice.
THEOREM RecordedOnce == Spec => []RecordedAtMostOnce
<1>1. Init => TxOnce
  BY DEF Init, TxOnce, Unrecorded, RecordedAtMostOnce
<1>2. TxOnce => RecordedAtMostOnce
  BY DEF TxOnce
<1> QED
  BY <1>1, <1>2, AlwaysIInv, NextTxOnce, PTL DEF Spec

(***************************************************************************)
(* With one task driving its kernel, streaming entries replay as well.      *)
(* The kernel's in-memory counter is then exact whenever a streaming call   *)
(* reads it, and nothing is appended between the snapshot and the append.   *)
(***************************************************************************)
SoleKernelWriter ==
    /\ \A t, u \in Tasks : t = u
    /\ \A t \in Tasks : KindsOf[t] \subseteq {"direct", "stream"}

Sequential ==
    \A t \in Tasks :
        /\ kind[t] \in {"direct", "stream"}
        /\ pc[t] \in {"idle", "snapshot", "streaming", "next_seq"}
                => counter[KernelOf[t]] = head + 1
        /\ pc[t] \in {"window", "append"}
                => counter[KernelOf[t]] = head + 2 /\ seq[t] = head + 1
        /\ pc[t] \in {"snapshot", "streaming"} => kind[t] = "stream"
        /\ (kind[t] = "stream" /\ pc[t] \in {"streaming", "next_seq", "append"})
                => window[t] = WindowBefore(head + 1)
        /\ kind[t] = "stream" => pc[t] # "window"

AllTrailing == \A s \in DOMAIN rec : rec[s].hashed = WindowBefore(s)

\* Sequential /\ AllTrailing is inductive for a sole writer.
LEMMA NextSequential ==
    ASSUME SoleKernelWriter, IInv, Sequential, AllTrailing, [Next]_vars
    PROVE  Sequential' /\ AllTrailing'
<1>t. TypeOK'
  BY NextTypeOK DEF IInv
<1> USE ConstantsAssumption, <1>t DEF SoleKernelWriter, IInv, TypeOK, Sequential, store, locals, Goto
<1>a. ASSUME UNCHANGED rec PROVE AllTrailing'
  BY <1>a DEF AllTrailing, WindowBefore
<1>1. ASSUME NEW k \in Kernels, NewKernel(k) PROVE Sequential' /\ AllTrailing'
  BY <1>1, <1>a DEF NewKernel, Idle, WindowBefore
<1>2. ASSUME NEW t \in Tasks, NEW as \in Kinds, Begin(t, as) PROVE Sequential' /\ AllTrailing'
  BY <1>2, <1>a DEF Begin, Idle, WindowBefore
<1>3. ASSUME NEW t \in Tasks, NextSeq(t) PROVE Sequential' /\ AllTrailing'
  BY <1>3, <1>a DEF NextSeq, WindowBefore
<1>4. ASSUME NEW t \in Tasks, LoadWindow(t) PROVE Sequential' /\ AllTrailing'
  BY <1>4, <1>a DEF LoadWindow, WindowBefore
<1>5. ASSUME NEW t \in Tasks, StreamSnapshot(t) PROVE Sequential' /\ AllTrailing'
  <2>1. window'[t] = WindowBefore(head + 1)
    BY <1>5, LoadWindowIsTrailing DEF StreamSnapshot
  <2> QED
    BY <1>5, <1>a, <2>1 DEF StreamSnapshot, WindowBefore
<1>6. ASSUME NEW t \in Tasks, StreamFinalize(t) PROVE Sequential' /\ AllTrailing'
  BY <1>6, <1>a DEF StreamFinalize, WindowBefore
<1>7. ASSUME NEW t \in Tasks, StreamHandshakeFails(t) PROVE Sequential' /\ AllTrailing'
  BY <1>7, <1>a DEF StreamHandshakeFails, WindowBefore
<1>8. ASSUME NEW t \in Tasks, AppendOk(t) PROVE Sequential' /\ AllTrailing'
  <2>1. /\ head' = head + 1 /\ head \in Nat /\ DOMAIN rec = 1..head
        /\ DOMAIN rec' = 1..(head + 1)
        /\ rec'[head + 1] = [tx |-> TxOf(t), kind |-> kind[t], hashed |-> window[t]]
        /\ \A s \in 1..head : rec'[s] = rec[s]
    BY <1>8, AppendEffect DEF Contiguous
  <2>2. rec'[head + 1].hashed = WindowBefore(head + 1)
    <3>1. rec'[head + 1].hashed = window[t] /\ pc[t] = "append" /\ seq[t] = head + 1
      BY <1>8, <2>1 DEF AppendOk
    <3>2. CASE kind[t] = "stream"
      BY <3>1, <3>2
    <3>3. CASE kind[t] = "direct"
      BY <3>1, <3>3 DEF FreshWindow, Windowed
    <3> QED
      BY <3>2, <3>3
  <2>3. \A s \in 1..(head + 1) : s \in 1..head \/ s = head + 1
    BY <2>1
  <2>4. AllTrailing'
    <3>1. \A s \in 1..head : rec'[s].hashed = WindowBefore(s)
      BY <2>1 DEF AllTrailing
    <3>2. \A s \in 1..(head + 1) : rec'[s].hashed = WindowBefore(s)
      BY <2>2, <2>3, <3>1
    <3> QED
      BY <2>1, <3>2 DEF AllTrailing, WindowBefore
  <2>5. Sequential'
    <3>1. pc[t] = "append" /\ pc'[t] = "idle" /\ UNCHANGED <<counter, kind, window, seq>>
      BY <1>8 DEF AppendOk
    <3>2. counter[KernelOf[t]] = head + 2
      BY <3>1
    <3>3. counter'[KernelOf[t]] = head' + 1
      BY <2>1, <3>1, <3>2
    <3>4. kind'[t] \in {"direct", "stream"}
      BY <3>1
    <3> QED
      BY <3>1, <3>3, <3>4
  <2> QED
    BY <2>4, <2>5
<1>9. ASSUME NEW t \in Tasks, AppendRefused(t) PROVE Sequential' /\ AllTrailing'
  BY <1>9 DEF AppendRefused, assert_next_seq
<1>10. CASE UNCHANGED vars
  BY <1>10, <1>a DEF vars, WindowBefore
<1> QED
  BY <1>1, <1>2, <1>3, <1>4, <1>5, <1>6, <1>7, <1>8, <1>9, <1>10 DEF Next

\* docs/invariants.md section 6 for the agent's own turn: if one task drives the
\* kernel and nothing else writes the log, all of the log replays.
THEOREM SoleWriterLogReplays ==
    ASSUME SoleKernelWriter
    PROVE  Spec => []LogReplays
<1>1. Init => Sequential /\ AllTrailing
  BY ConstantsAssumption DEF Init, Sequential, AllTrailing
<1>2. IInv /\ Sequential /\ AllTrailing /\ [Next]_vars => Sequential' /\ AllTrailing'
  BY SoleKernelWriter, NextSequential
<1>3. IInv /\ AllTrailing => LogReplays
  BY ReplayWindowIsTrailing DEF LogReplays, Replays, AllTrailing, IInv, TypeOK, Contiguous
<1> QED
  BY <1>1, <1>2, <1>3, AlwaysIInv, PTL DEF Spec
=============================================================================
