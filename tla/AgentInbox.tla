----------------------------- MODULE AgentInbox -----------------------------
(***************************************************************************)
(* One agent's persistent inbox, its processing claim and the scheduler     *)
(* tasks that drain it.                                                      *)
(*                                                                          *)
(* A client of POST /tx enqueues a transaction, gets 202 Accepted, and a    *)
(* background task calls Scheduler::schedule_agent, which drains the inbox  *)
(* if it wins the store-backed claim.  Two other kinds of task append to    *)
(* the same log: an admin (PUT tool permissions) under the claim, and a     *)
(* chat session's kernel without it.                                        *)
(*                                                                          *)
(* The inbox is a map from slot to transaction plus two cursors.  Enqueue   *)
(* reads the tail and writes the batch in two steps, with no lock.  The log *)
(* is the sequence of its transactions (RecordLog has the detail); entries  *)
(* that did not come through the inbox are Other.                           *)
(***************************************************************************)
EXTENDS Integers, Sequences, FiniteSets

CONSTANTS
    Clients,      \* connections, each submitting one transaction after another
    MaxTx,        \* bound: transactions per client
    Admins,       \* PUT tool-permissions requests, one append each
    Sessions,     \* direct appends by a session kernel, one each
    Poison,       \* transactions process_tx rejects (malformed capability install)
    StatusWindow, \* how many entries tx_status_handler scans (100)
    MaxFailures,  \* bound: turns that end in an error or a timeout
    MaxCrashes,   \* bound: process crashes
    Other         \* an entry that did not come from the inbox

Txs == Clients \X (1..MaxTx)
Tasks == Txs \cup Admins \cup Sessions

ASSUME InboxAssumption ==
    /\ MaxTx \in Nat /\ MaxFailures \in Nat /\ MaxCrashes \in Nat
    /\ StatusWindow \in Nat \ {0}
    /\ Poison \subseteq Txs
    /\ Other \notin Txs
    /\ Txs \cap Admins = {} /\ Txs \cap Sessions = {} /\ Admins \cap Sessions = {}

VARIABLES
    inbox,      \* CF inbox: slot -> transaction
    ihead,      \* agent_meta/inbox_head
    itail,      \* agent_meta/inbox_tail
    log,        \* the transactions of the record log, in order
    claim,      \* agent_meta/processing_claim is present
    registered, \* the agent has an AgentIdentity (in memory)
    failed,     \* RouterState::failed_txs (in memory)
    accepted,   \* transactions answered with 202
    failures, crashes,
    \* per task:
    pc,         \* where it stands
    slot,       \* the tail it read, then the dequeue token it holds
    got,        \* the transaction it dequeued
    seq         \* the record sequence number it was handed

queue == <<inbox, ihead, itail>>
memory == <<registered, failed>>
bounds == <<failures, crashes>>
vars == <<queue, log, claim, memory, accepted, bounds, pc, slot, got, seq>>

Goto(t, label) == pc' = [pc EXCEPT ![t] = label]

\* The states in which a task holds the claim.
Claimed == {"drain", "process", "append", "turn", "respond", "reply", "release", "release_err"}
Holds(t) == t \notin Sessions /\ pc[t] \in Claimed

----------------------------------------------------------------------------
Init ==
    /\ inbox = [s \in {} |-> s]
    /\ ihead = 0 /\ itail = 0
    /\ log = <<>>
    /\ claim = FALSE
    /\ registered = FALSE
    /\ failed = {} /\ accepted = {}
    /\ failures = 0 /\ crashes = 0
    /\ pc = [t \in Tasks |-> IF t \in Txs THEN "idle"
                             ELSE IF t \in Admins THEN "claim" ELSE "respond"]
    /\ slot = [t \in Tasks |-> 0]
    /\ got = [t \in Tasks |-> Other]
    /\ seq = [t \in Tasks |-> 0]

\* A session start or the automaton bridge registers the agent's model identity.
Register ==
    /\ ~registered
    /\ registered' = TRUE
    /\ UNCHANGED <<queue, log, claim, failed, accepted, bounds, pc, slot, got, seq>>

\* A client sends its next request when it has the answer to the previous one.
Answered(x) ==
    \A y \in Txs : y[1] = x[1] /\ y[2] < x[2] => pc[y] \notin {"idle", "enqueue"}

\* RocksStore::enqueue_tx, first half: read the tail.
EnqueueRead(x) ==
    /\ pc[x] = "idle"
    /\ Answered(x)
    /\ slot' = [slot EXCEPT ![x] = itail]
    /\ Goto(x, "enqueue")
    /\ UNCHANGED <<queue, log, claim, memory, accepted, bounds, got, seq>>

\* Second half: one batch puts the transaction and the new tail; the handler
\* answers 202 and spawns the scheduling task.
EnqueueWrite(x) ==
    /\ pc[x] = "enqueue"
    /\ inbox' = [s \in DOMAIN inbox \cup {slot[x]} |-> IF s = slot[x] THEN x ELSE inbox[s]]
    /\ itail' = slot[x] + 1
    /\ accepted' = accepted \cup {x}
    /\ Goto(x, "schedule")
    /\ UNCHANGED <<ihead, log, claim, memory, bounds, slot, got, seq>>

\* schedule_agent_with_options: leave at once when nothing is pending, fail when
\* the agent has no identity, otherwise go for the claim.
has_pending_tx == itail > ihead

Schedule(x) ==
    /\ pc[x] = "schedule"
    /\ Goto(x, IF has_pending_tx /\ registered THEN "claim" ELSE "done")
    /\ failed' = IF has_pending_tx /\ ~registered THEN failed \cup {x} ELSE failed
    /\ UNCHANGED <<queue, log, claim, registered, accepted, bounds, slot, got, seq>>

\* Mutant: the claim is set without being tested.
TryClaimBlind(t) ==
    /\ pc[t] = "claim"
    /\ claim' = TRUE
    /\ Goto(t, IF t \in Admins THEN "respond" ELSE "drain")
    /\ UNCHANGED <<queue, log, memory, accepted, bounds, slot, got, seq>>

\* RocksStore::try_claim_agent_processing, under its lock.
TryClaim(t) ==
    /\ pc[t] = "claim"
    /\ ~claim
    /\ claim' = TRUE
    /\ Goto(t, IF t \in Admins THEN "respond" ELSE "drain")
    /\ UNCHANGED <<queue, log, memory, accepted, bounds, slot, got, seq>>

\* Mutant: a task that lost the claim drains all the same.
SkipClaimIgnored(x) ==
    /\ pc[x] = "claim"
    /\ x \in Txs
    /\ claim
    /\ Goto(x, "drain")
    /\ UNCHANGED <<queue, log, claim, memory, accepted, bounds, slot, got, seq>>

\* "Agent already processing, skipping".  (An admin sleeps 10 ms and polls again.)
SkipClaim(x) ==
    /\ pc[x] = "claim"
    /\ x \in Txs
    /\ claim
    /\ Goto(x, "done")
    /\ UNCHANGED <<queue, log, claim, memory, accepted, bounds, slot, got, seq>>

\* The worker's loop: RocksStore::dequeue_tx.  The entry stays in the inbox.
dequeue_empty == ihead >= itail

\* Mutants: the newest entry first; the entry removed before it is recorded.
DequeueNewest(x) ==
    /\ pc[x] = "drain"
    /\ ~dequeue_empty /\ itail - 1 \in DOMAIN inbox
    /\ slot' = [slot EXCEPT ![x] = itail - 1]
    /\ got' = [got EXCEPT ![x] = inbox[itail - 1]]
    /\ Goto(x, "process")
    /\ UNCHANGED <<queue, log, claim, memory, accepted, bounds, seq>>

DequeueRemoves(x) ==
    /\ pc[x] = "drain"
    /\ ~dequeue_empty /\ ihead \in DOMAIN inbox
    /\ slot' = [slot EXCEPT ![x] = ihead]
    /\ got' = [got EXCEPT ![x] = inbox[ihead]]
    /\ inbox' = [s \in DOMAIN inbox \ {ihead} |-> inbox[s]]
    /\ ihead' = ihead + 1
    /\ Goto(x, "process")
    /\ UNCHANGED <<itail, log, claim, memory, accepted, bounds, seq>>

Dequeue(x) ==
    /\ pc[x] = "drain"
    /\ ~dequeue_empty /\ ihead \in DOMAIN inbox
    /\ slot' = [slot EXCEPT ![x] = ihead]
    /\ got' = [got EXCEPT ![x] = inbox[ihead]]
    /\ Goto(x, "process")
    /\ UNCHANGED <<queue, log, claim, memory, accepted, bounds, seq>>

\* Mutant: an empty inbox ends the task without releasing the claim.
DequeueNoneHolding(x) ==
    /\ pc[x] = "drain"
    /\ dequeue_empty \/ ihead \notin DOMAIN inbox
    /\ Goto(x, IF dequeue_empty THEN "done" ELSE "release_err")
    /\ UNCHANGED <<queue, log, claim, memory, accepted, bounds, slot, got, seq>>

\* "Inbox empty, worker done", or StoreError::InboxCorruption.
DequeueNone(x) ==
    /\ pc[x] = "drain"
    /\ dequeue_empty \/ ihead \notin DOMAIN inbox
    /\ Goto(x, IF dequeue_empty THEN "release" ELSE "release_err")
    /\ UNCHANGED <<queue, log, claim, memory, accepted, bounds, slot, got, seq>>

\* Kernel::process_dequeued: take a sequence number, unless process_tx rejects the
\* transaction, which then stays at the head of the inbox.
Process(x) ==
    /\ pc[x] = "process"
    /\ seq' = [seq EXCEPT ![x] = Len(log) + 1]
    /\ Goto(x, IF got[x] \in Poison THEN "release_err" ELSE "append")
    /\ UNCHANGED <<queue, log, claim, memory, accepted, bounds, slot, got>>

\* Mutant: the inbox is not advanced with the append.
AppendKeepsInbox(x) ==
    /\ pc[x] = "append"
    /\ seq[x] = Len(log) + 1
    /\ log' = Append(log, got[x])
    /\ Goto(x, "turn")
    /\ UNCHANGED <<queue, claim, memory, accepted, bounds, slot, got, seq>>

\* append_entry_atomic_internal: entry, head, inbox delete and inbox_head in one
\* batch under append_lock.  It does not compare the token with inbox_head.
AppendDequeued(x) ==
    /\ pc[x] = "append"
    /\ seq[x] = Len(log) + 1
    /\ log' = Append(log, got[x])
    /\ inbox' = [s \in DOMAIN inbox \ {slot[x]} |-> inbox[s]]
    /\ ihead' = slot[x] + 1
    /\ Goto(x, "turn")
    /\ UNCHANGED <<itail, claim, memory, accepted, bounds, slot, got, seq>>

\* SequenceMismatch: the drain ends with an error, nothing was consumed.
AppendDequeuedRefused(x) ==
    /\ pc[x] = "append"
    /\ seq[x] # Len(log) + 1
    /\ Goto(x, "release_err")
    /\ UNCHANGED <<queue, log, claim, memory, accepted, bounds, slot, got, seq>>

\* The agent loop runs on the prompt ...
TurnOk(x) ==
    /\ pc[x] = "turn"
    /\ Goto(x, "respond")
    /\ UNCHANGED <<queue, log, claim, memory, accepted, bounds, slot, got, seq>>

\* ... or fails, or exceeds AGENT_LOOP_TIMEOUT, which ends the whole drain.
TurnFails(x) ==
    /\ pc[x] = "turn"
    /\ failures < MaxFailures
    /\ failures' = failures + 1
    /\ Goto(x, "release_err")
    /\ UNCHANGED <<queue, log, claim, memory, accepted, crashes, slot, got, seq>>

\* Kernel::process_direct (the reply, a session's entry) or write_system_record
\* (an admin's): read the head ...
Respond(t) ==
    /\ pc[t] = "respond"
    /\ seq' = [seq EXCEPT ![t] = Len(log) + 1]
    /\ Goto(t, "reply")
    /\ UNCHANGED <<queue, log, claim, memory, accepted, bounds, slot, got>>

\* Mutant: the drain stops after one transaction.
ReplyEndsDrain(t) ==
    /\ pc[t] = "reply"
    /\ seq[t] = Len(log) + 1
    /\ log' = Append(log, Other)
    /\ Goto(t, IF t \in Sessions THEN "done" ELSE "release")
    /\ UNCHANGED <<queue, claim, memory, accepted, bounds, slot, got, seq>>

\* ... and append.
ReplyOk(t) ==
    /\ pc[t] = "reply"
    /\ seq[t] = Len(log) + 1
    /\ log' = Append(log, Other)
    /\ Goto(t, IF t \in Txs THEN "drain" ELSE IF t \in Admins THEN "release" ELSE "done")
    /\ UNCHANGED <<queue, claim, memory, accepted, bounds, slot, got, seq>>

\* Refused: write_system_record retries (there are fewer sessions than retries),
\* a drain ends with an error, a session reports the error.
ReplyRefused(t) ==
    /\ pc[t] = "reply"
    /\ seq[t] # Len(log) + 1
    /\ Goto(t, IF t \in Txs THEN "release_err" ELSE IF t \in Admins THEN "respond" ELSE "done")
    /\ UNCHANGED <<queue, log, claim, memory, accepted, bounds, slot, got, seq>>

\* ProcessingClaim::release on every exit path; an error then goes to failed_txs.
Release(t) ==
    /\ pc[t] \in {"release", "release_err"}
    /\ claim' = FALSE
    /\ failed' = IF pc[t] = "release_err" THEN failed \cup {t} ELSE failed
    /\ Goto(t, "done")
    /\ UNCHANGED <<queue, log, registered, accepted, bounds, slot, got, seq>>

\* The process dies and restarts: tasks and memory are gone, the store is not,
\* and nothing at startup clears a claim or schedules a waiting inbox.
Crash ==
    /\ crashes < MaxCrashes
    /\ crashes' = crashes + 1
    /\ pc' = [t \in Tasks |-> IF pc[t] = "idle" THEN "idle" ELSE "done"]
    /\ registered' = FALSE
    /\ failed' = {}
    /\ UNCHANGED <<queue, log, claim, accepted, failures, slot, got, seq>>

TxStep(x) ==
    \/ EnqueueRead(x) \/ EnqueueWrite(x) \/ Schedule(x) \/ SkipClaim(x)
    \/ Dequeue(x) \/ DequeueNone(x) \/ Process(x)
    \/ AppendDequeued(x) \/ AppendDequeuedRefused(x)
    \/ TurnOk(x) \/ TurnFails(x)

TaskStep(t) == TryClaim(t) \/ Respond(t) \/ ReplyOk(t) \/ ReplyRefused(t) \/ Release(t)

Next ==
    \/ Register \/ Crash
    \/ \E x \in Txs : TxStep(x)
    \/ \E t \in Tasks : TaskStep(t)

Spec == Init /\ [][Next]_vars

\* The runtime polls every spawned task until it finishes: the scheduling task of
\* an accepted transaction, an admin's and a session's request keep taking steps.
\* A client need not submit, and nobody need register the agent.
Fairness ==
    /\ \A x \in Txs : WF_vars(pc[x] # "idle" /\ (TxStep(x) \/ TaskStep(x)))
    /\ \A t \in Admins \cup Sessions : WF_vars(TaskStep(t))

FairSpec == Spec /\ Fairness

----------------------------------------------------------------------------
(* Properties.                                                              *)

Recorded == {log[i] : i \in DOMAIN log} \ {Other}
Queued == {inbox[s] : s \in ihead..(itail - 1)}

\* Every variable keeps its shape; a task that processes holds a transaction.
TypeOK ==
    /\ ihead \in Nat /\ itail \in Nat
    /\ DOMAIN inbox \subseteq Nat
    /\ inbox \in [DOMAIN inbox -> Txs]
    /\ log \in Seq(Txs \cup {Other})
    /\ claim \in BOOLEAN /\ registered \in BOOLEAN
    /\ failed \subseteq Tasks /\ accepted \subseteq Txs
    /\ failures \in Nat /\ crashes \in Nat
    /\ pc \in [Tasks -> Claimed \cup {"idle", "enqueue", "schedule", "claim", "done"}]
    /\ slot \in [Tasks -> Nat]
    /\ got \in [Tasks -> Txs \cup {Other}]
    /\ seq \in [Tasks -> Nat]

\* docs/invariants.md section 12, "At most one task may process a given agent's
\* transaction queue at any time": the claim is present whenever a task drains or
\* writes under it, and no two tasks do so together, across crashes.
SingleDrainer ==
    /\ \A t \in Tasks : Holds(t) => claim
    /\ \A t, u \in Tasks : Holds(t) /\ Holds(u) => t = u

\* The inbox cursor never moves back, although append_entry_atomic_internal writes
\* the token it is given without comparing it with the cursor.
CursorAdvances == [][ihead <= ihead']_vars

\* A transaction that went through the inbox is never recorded twice: not after a
\* crash between dequeue and append, a failed turn, or a refused append.
RecordedAtMostOnce ==
    \A i, j \in DOMAIN log : log[i] = log[j] /\ log[i] # Other => i = j

\* An accepted transaction is either recorded or still waiting in the inbox where
\* a drain will find it.
NothingLost == accepted = Recorded \cup Queued

\* The entries of a log that came through the inbox, in the order of the log: the
\* k-th is the one with k such entries up to and including it.
Entries(l) == {i \in DOMAIN l : l[i] # Other}
UpTo(l, i) == {j \in Entries(l) : j <= i}
Ranked(l, k) == {i \in Entries(l) : Cardinality(UpTo(l, i)) = k}
The(S) == CHOOSE i \in S : TRUE
FromInbox(l) == [k \in 1..Cardinality(Entries(l)) |-> l[The(Ranked(l, k))]]

\* What lies between the cursors, oldest first.
QueuedInOrder == [k \in 1..(itail - ihead) |-> inbox[ihead + k - 1]]

\* With one client the inbox implements FifoQueue: transactions reach the log
\* exactly once and in the order in which they were accepted.
Fifo == INSTANCE FifoQueue WITH
    Msgs <- Txs,
    pending <- QueuedInOrder,
    done <- FromInbox(log)

ImplementsFifo == Fifo!Spec

\* Sessions write without the claim; one that is done may have written.
SessionWrote == \E s \in Sessions : pc[s] = "done"

AppendsProtected ==
    \A t \in Tasks : Holds(t) /\ pc[t] \in {"append", "reply"} => seq[t] = Len(log) + 1

\* Until a writer that takes no claim gets in, the store refuses no append of a
\* claim holder: the read-before-append window of Kernel::next_seq is harmless
\* between the drains and the admins.
ClaimProtectsAppends == ~SessionWrote => AppendsProtected

\* tx_status_handler: scan the last entries, then failed_txs, then the inbox.
tx_status(x) ==
    LET from == IF Len(log) - StatusWindow > 1 THEN Len(log) - StatusWindow ELSE 1
    IN  IF \E i \in DOMAIN log : from <= i /\ i < from + StatusWindow /\ log[i] = x
        THEN "processed"
        ELSE IF x \in failed THEN "failed"
        ELSE IF has_pending_tx THEN "pending" ELSE "unknown"

\* An accepted transaction whose entry is the newest of the log is never reported
\* as "unknown", the status of a transaction that was never submitted.
FreshStatusKnown ==
    \A x \in accepted : (log # <<>> /\ log[Len(log)] = x) => tx_status(x) # "unknown"

\* A task that wins the claim gets its own transaction recorded, and every one
\* before it, or reports an error, unless the process dies.
DrainRecordsOwn ==
    \A x \in Txs : pc[x] = "drain" ~> (x \in Recorded \/ x \in failed \/ crashes > 0)

\* Whoever takes the claim gives it back, unless the process dies.
ClaimReleased == claim ~> (~claim \/ crashes > 0)

\* An admin's request, which polls for the claim, is eventually written.
AdminServed == \A a \in Admins : <>(pc[a] = "done")

\* Every accepted transaction the scheduler agrees to dispatch is eventually
\* recorded, whichever task ends up draining it.
EventuallyRecorded == \A x \in Txs : pc[x] = "claim" ~> x \in Recorded
=============================================================================
