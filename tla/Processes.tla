----------------------------- MODULE Processes ------------------------------
(***************************************************************************)
(* A process of an agent: an instruction with a schedule, kept in the      *)
(* process store (aura-store-db/src/processes.rs), edited and triggered    *)
(* over HTTP (aura-runtime/src/gateway/handlers/processes.rs), run as a    *)
(* one-shot chat run whose outcome a watcher writes back, and announced    *)
(* to the swarm gateway by the trigger registrar (trigger_registrar.rs).   *)
(*                                                                         *)
(* Every operation of the store is a series of single reads and writes of  *)
(* RocksDB with no lock around it, so requests interleave between them.    *)
(* One process is modelled: processes share only the counter behind the    *)
(* run numbers.  A record is the edit and the run it was written by; a     *)
(* frame of the chat run is what inspect_frame tells apart.                *)
(***************************************************************************)
EXTENDS Naturals, Sequences, FiniteSets

CONSTANTS
    MaxTriggers,   \* bound: the requests to run the process
    create, update, delete,   \* the other requests
    Scenarios,     \* bound: the requests of one behaviour, and how many upsets it may have
    MaxKept,       \* MAX_PROCESS_RUNS_KEPT
    Retries,       \* the length of RETRY_DELAYS
    None

Triggers == 1..MaxTriggers
Edits == {create, update, delete}
Requests == Triggers \cup Edits

ASSUME ProcessesAssumption ==
    /\ Cardinality(Edits) = 3 /\ Edits \cap Triggers = {}
    /\ \A who \in DOMAIN Scenarios : who \subseteq Requests /\ Scenarios[who] \in Nat
    /\ MaxTriggers \in Nat /\ MaxKept \in Nat \ {0} /\ Retries \in Nat

VARIABLES
    record,     \* the processes column family: the process, or None
    runs,       \* the process_runs column family: per trigger, the status stored
    last,       \* LAST of next_run_seq
    seq,        \* per trigger: the number of its run
    at,         \* per request: where its handler, then its watcher, stands
    copy,       \* per request: the record it has read and not yet written back
    doomed,     \* per request: the runs it has listed and is about to delete
    outcome,    \* per trigger: the status it is about to store
    driver,     \* per trigger: the driver of its chat run
    prompted,   \* triggers whose prompt is in the driver's command channel
    frames,     \* per trigger: what the driver has sent to its event forwarder
    pushed,     \* per trigger: how many of these are in the event channel
    next,       \* per trigger: the watcher's place in the channel, 0 before it subscribes
    sync,       \* per request: where the registrar's task it has spawned stands
    seen,       \* per request: the record that task has read
    tries,      \* per request: the failed attempts of that task
    behind,     \* per request: the tasks with a push under way when that one read
    registry,   \* what the swarm gateway has registered
    upsets,     \* failed writes and pushes, stops, lost clients and crashes still to come
    put,        \* history: triggers whose run has been in the store
    lost,       \* history: triggers nobody is left to finish
    stale       \* history: a push came late or never, or a write was not announced

storeVars == <<record, runs, last, seq, put>>
chatVars == <<driver, prompted, frames, pushed, next>>
syncVars == <<sync, seen, tries, behind, registry>>
vars == <<storeVars, at, copy, doomed, outcome, chatVars, syncVars, upsets, lost, stale>>

\* The triggers numbered below those of the behaviour have run before it.
Init ==
    \E who \in DOMAIN Scenarios :
    LET ran == {r \in Triggers \ who : \E s \in who \cap Triggers : r < s} IN
    /\ at = [q \in Requests |-> IF q \in who THEN "coming" ELSE "over"]
    /\ record = IF create \in who THEN None ELSE [edit |-> create, run |-> Cardinality(ran)]
    /\ registry = record
    /\ runs = [r \in Triggers |-> IF r \in ran THEN "Failure" ELSE "absent"]
    /\ last = Cardinality(ran) /\ seq = [r \in Triggers |-> IF r \in ran THEN r ELSE 0]
    /\ put = ran
    /\ upsets = Scenarios[who]
    /\ copy = [q \in Requests |-> None]
    /\ doomed = [q \in Requests |-> {}]
    /\ outcome = [r \in Triggers |-> "Running"]
    /\ driver = [r \in Triggers |-> "none"]
    /\ prompted = {}
    /\ frames = [r \in Triggers |-> <<>>]
    /\ pushed = [r \in Triggers |-> 0]
    /\ next = [r \in Triggers |-> 0]
    /\ sync = [q \in Requests |-> "none"] /\ seen = [q \in Requests |-> None]
    /\ tries = [q \in Requests |-> 0] /\ behind = [q \in Requests |-> {}]
    /\ lost = {} /\ stale = FALSE

Goto(q, place) == at' = [at EXCEPT ![q] = place]

Upset == upsets > 0 /\ upsets' = upsets - 1

Stored == {r \in Triggers : runs[r] # "absent"}

\* Mutant: a trigger does not announce the schedule it has advanced.
NotifiesEdits(q) ==
    /\ sync' = IF q \in Edits THEN [sync EXCEPT ![q] = "due"] ELSE sync
    /\ UNCHANGED <<seen, tries, behind, registry>>
    /\ Goto(q, IF q \in Triggers THEN "prepare" ELSE "over")

\* The store is done: notify_trigger_registrar spawns a task and does not wait for
\* it; an edit is answered, a trigger goes on to start the run.
Notifies(q) ==
    /\ sync' = [sync EXCEPT ![q] = "due"]
    /\ UNCHANGED <<seen, tries, behind, registry>>
    /\ Goto(q, IF q \in Triggers THEN "prepare" ELSE "over")

----------------------------------------------------------------------------
(* Create, update and delete.                                               *)

\* create: a new id, so nothing is read first.
Create ==
    /\ at[create] = "coming"
    /\ record' = [edit |-> create, run |-> 0]
    /\ Notifies(create)
    /\ UNCHANGED <<runs, last, seq, put, copy, doomed, outcome, chatVars, upsets, lost, stale>>

\* update and delete read the record; an unknown id is refused.
EditReads(q) ==
    /\ q \in {update, delete} /\ at[q] = "coming" /\ at[create] # "coming"
    /\ copy' = [copy EXCEPT ![q] = record]
    /\ Goto(q, IF record = None THEN "over" ELSE "write")
    /\ UNCHANGED <<storeVars, doomed, outcome, chatVars, syncVars, upsets, lost, stale>>

\* update: the whole record is written, its run as it was read.
UpdateWrites ==
    /\ at[update] = "write"
    /\ record' = [edit |-> update, run |-> copy[update].run]
    /\ copy' = [copy EXCEPT ![update] = None]
    /\ Notifies(update)
    /\ UNCHANGED <<runs, last, seq, put, doomed, outcome, chatVars, upsets, lost, stale>>

DeleteRecord ==
    /\ at[delete] = "write"
    /\ record' = None
    /\ copy' = [copy EXCEPT ![delete] = None]
    /\ Goto(delete, "list")
    /\ UNCHANGED <<runs, last, seq, put, doomed, outcome, chatVars, syncVars, upsets, lost, stale>>

----------------------------------------------------------------------------
(* Trigger, and ProcessStore::start_run.                                    *)

\* The wall clock, or one more than the last number: strictly increasing either way.
next_run_seq == last + 1

\* The handler's get and the one of start_run, which also draws the run's number.
StartRun(r) ==
    /\ at[r] = "coming" /\ at[create] # "coming"
    /\ \A s \in Triggers : s < r => at[s] # "coming"
    /\ IF record = None
       THEN Goto(r, "over") /\ UNCHANGED <<last, seq, copy>>
       ELSE /\ last' = next_run_seq
            /\ seq' = [seq EXCEPT ![r] = next_run_seq]
            /\ copy' = [copy EXCEPT ![r] = record]
            /\ Goto(r, "put_run")
    /\ UNCHANGED <<record, runs, put, doomed, outcome, chatVars, syncVars, upsets, lost, stale>>

PutRun(r) ==
    /\ at[r] = "put_run"
    /\ runs' = [runs EXCEPT ![r] = "Running"]
    /\ put' = put \cup {r}
    /\ Goto(r, "put_record")
    /\ UNCHANGED <<record, last, seq, copy, doomed, outcome, chatVars, syncVars, upsets, lost, stale>>

\* The record as it was read, with the time of this run and the next.
PutRecord(r) ==
    /\ at[r] = "put_record"
    /\ record' = [edit |-> copy[r].edit, run |-> r]
    /\ copy' = [copy EXCEPT ![r] = None]
    /\ Goto(r, "list")
    /\ UNCHANGED <<runs, last, seq, put, doomed, outcome, chatVars, syncVars, upsets, lost, stale>>

\* Mutant: one run too many is taken for excess.
ExcessOff(keys) ==
    {r \in keys : Cardinality({s \in keys : seq[s] > seq[r]}) + 1 >= MaxKept}

\* prune_runs: the keys beyond MaxKept, counted from the newest.
Excess(keys) ==
    {r \in keys : Cardinality({s \in keys : seq[s] > seq[r]}) >= MaxKept}

\* prune_runs and delete list the keys of the process's runs.
ListRuns(q) ==
    /\ at[q] = "list"
    /\ LET keys == IF q = delete THEN Stored ELSE Excess(Stored) IN
       /\ doomed' = [doomed EXCEPT ![q] = keys]
       /\ IF keys = {} THEN Notifies(q) ELSE Goto(q, "drop") /\ UNCHANGED syncVars
    /\ UNCHANGED <<storeVars, copy, outcome, chatVars, upsets, lost, stale>>

\* Their loop of delete_cf, the oldest key first.
DropRun(q) ==
    /\ at[q] = "drop"
    /\ \E r \in doomed[q] :
       /\ \A s \in doomed[q] : seq[r] <= seq[s]
       /\ runs' = [runs EXCEPT ![r] = "absent"]
       /\ doomed' = [doomed EXCEPT ![q] = @ \ {r}]
       /\ IF doomed[q] = {r} THEN Notifies(q) ELSE UNCHANGED <<at, syncVars>>
    /\ UNCHANGED <<record, last, seq, put, copy, outcome, chatVars, upsets, lost, stale>>

\* A write fails: the handler, or the watcher, gives up.
WriteFails(q) ==
    /\ Upset
    /\ at[q] \in {"put_run", "put_record", "drop", "write", "put"}
    /\ Goto(q, "over")
    /\ lost' = IF at[q] = "put_run" THEN lost ELSE lost \cup ({q} \cap Triggers)
    /\ stale' = (stale \/ at[q] = "drop")
    /\ copy' = [copy EXCEPT ![q] = None] /\ doomed' = [doomed EXCEPT ![q] = {}]
    /\ UNCHANGED <<storeVars, outcome, chatVars, syncVars>>

\* prepare_chat_session succeeds, and spawn_chat_run starts the driver.
Prepare(r) ==
    /\ at[r] = "prepare"
    /\ driver' = [driver EXCEPT ![r] = "idle"]
    /\ Goto(r, "send")
    /\ UNCHANGED <<storeVars, copy, doomed, outcome, prompted, frames, pushed, next, syncVars,
                   upsets, lost, stale>>

\* There is a status to store: finish_run is next, and then the chat run, which
\* nobody watches from here on, is shut down.
Conclude(r, status) ==
    /\ outcome' = [outcome EXCEPT ![r] = status]
    /\ Goto(r, "finish")
    /\ driver' = [driver EXCEPT ![r] = "stopped"]
    /\ prompted' = prompted \ {r}
    /\ pushed' = [pushed EXCEPT ![r] = Len(frames[r])]
    /\ next' = [next EXCEPT ![r] = 0]
    /\ UNCHANGED frames

PrepareFails(r) ==
    /\ at[r] = "prepare"
    /\ Conclude(r, "Failure")
    /\ UNCHANGED <<storeVars, copy, doomed, syncVars, upsets, lost, stale>>

\* The prompt goes to the driver, if it still runs; then the watcher is spawned.
SendPrompt(r) ==
    /\ at[r] = "send"
    /\ IF driver[r] = "stopped"
       THEN Conclude(r, "Failure")
       ELSE /\ prompted' = prompted \cup {r}
            /\ Goto(r, "watch")
            /\ UNCHANGED <<outcome, driver, frames, pushed, next>>
    /\ UNCHANGED <<storeVars, copy, doomed, syncVars, upsets, lost, stale>>

\* The client goes away while the handler awaits: its future is dropped.
HandlerDropped(r) ==
    /\ Upset
    /\ at[r] \in {"prepare", "send"}
    /\ Goto(r, "over")
    /\ lost' = lost \cup {r}
    /\ UNCHANGED <<storeVars, copy, doomed, outcome, chatVars, syncVars, stale>>

----------------------------------------------------------------------------
(* The chat run: as much of it as its watcher can tell apart, and as long   *)
(* as it is watched (all of it is in ChatRun).                              *)

Watched(r) == at[r] \in {"send", "watch"}

\* finalize_turn: the turn's end; a panic, told as a fatal error and an end; or an
\* error the client may recover from, with no end.
TurnEnds(r) ==
    /\ Watched(r) /\ driver[r] = "idle" /\ r \in prompted
    /\ \E fs \in {<<"end">>, <<"fatal", "end">>, <<"other">>} : frames' = [frames EXCEPT ![r] = fs]
    /\ prompted' = prompted \ {r}
    /\ UNCHANGED <<storeVars, at, copy, doomed, outcome, driver, pushed, next, syncVars, upsets,
                   lost, stale>>

\* The driver stops, with nothing to do past its retention, or by
\* POST /v1/run/:id/stop, which cancels the turn.
DriverStops(r) ==
    /\ Watched(r) /\ driver[r] = "idle"
    /\ IF r \in prompted THEN Upset ELSE UNCHANGED upsets
    /\ driver' = [driver EXCEPT ![r] = "stopped"]
    /\ UNCHANGED <<storeVars, at, copy, doomed, outcome, prompted, frames, pushed, next, syncVars,
                   lost, stale>>

\* The event forwarder: ChatEventChannel::push.
Forward(r) ==
    /\ Watched(r) /\ pushed[r] < Len(frames[r])
    /\ pushed' = [pushed EXCEPT ![r] = @ + 1]
    /\ UNCHANGED <<storeVars, at, copy, doomed, outcome, driver, prompted, frames, next, syncVars,
                   upsets, lost, stale>>

----------------------------------------------------------------------------
(* The watcher, and ProcessStore::finish_run.                               *)

\* Mutant: every frame that closes something ends the run well.
InspectAny(f) == IF f = "other" THEN "Running" ELSE "Success"

inspect_frame(f) ==
    IF f = "end" THEN "Success" ELSE IF f = "fatal" THEN "Failure" ELSE "Running"

\* run_outcome subscribes and goes through the history.
Subscribe(r) ==
    /\ at[r] = "watch" /\ next[r] = 0
    /\ LET ends == {i \in 1..pushed[r] : inspect_frame(frames[r][i]) # "Running"} IN
       IF ends # {}
       THEN \E i \in ends : (\A j \in ends : i <= j) /\ Conclude(r, inspect_frame(frames[r][i]))
       ELSE IF driver[r] = "stopped" THEN Conclude(r, "Failure")
       ELSE /\ next' = [next EXCEPT ![r] = pushed[r] + 1]
            /\ UNCHANGED <<at, outcome, driver, prompted, frames, pushed>>
    /\ UNCHANGED <<storeVars, copy, doomed, syncVars, upsets, lost, stale>>

\* live.recv.  What a lagging receiver skips is text: nothing follows the closing
\* frames of a run with one turn.  The channel is never closed, for the watcher's own
\* handle keeps its sender alive.
Receive(r) ==
    /\ at[r] = "watch" /\ next[r] # 0 /\ next[r] <= pushed[r]
    /\ LET status == inspect_frame(frames[r][next[r]]) IN
       IF status # "Running" THEN Conclude(r, status)
       ELSE /\ next' = [next EXCEPT ![r] = @ + 1]
            /\ UNCHANGED <<at, outcome, driver, prompted, frames, pushed>>
    /\ UNCHANGED <<storeVars, copy, doomed, syncVars, upsets, lost, stale>>

\* Mutant: a run without a driver is not timed out.
TimesOutDriven(r) ==
    /\ at[r] = "watch" /\ driver[r] # "stopped"
    /\ Conclude(r, "Failure")
    /\ UNCHANGED <<storeVars, copy, doomed, syncVars, upsets, lost, stale>>

\* TRIGGER_RUN_TIMEOUT
TimesOut(r) ==
    /\ at[r] = "watch"
    /\ Conclude(r, "Failure")
    /\ UNCHANGED <<storeVars, copy, doomed, syncVars, upsets, lost, stale>>

\* finish_run looks the run up; one pruned or deleted is not found.
FinishLooksUp(r) ==
    /\ at[r] = "finish"
    /\ Goto(r, IF runs[r] = "absent" THEN "over" ELSE "put")
    /\ UNCHANGED <<storeVars, copy, doomed, outcome, chatVars, syncVars, upsets, lost, stale>>

\* The run is stored as it ended.  (Then the chat run, watched no more, is shut down.)
FinishPuts(r) ==
    /\ at[r] = "put"
    /\ runs' = [runs EXCEPT ![r] = outcome[r]]
    /\ Goto(r, "over")
    /\ UNCHANGED <<record, last, seq, put, copy, doomed, outcome, chatVars, syncVars, upsets, lost,
                   stale>>

----------------------------------------------------------------------------
(* The trigger registrar.                                                   *)

Pushing == {q \in Requests : sync[q] = "push"}

\* sync_now: trigger_metadata, read once for all attempts.
SyncReads(q) ==
    /\ sync[q] = "due"
    /\ sync' = [sync EXCEPT ![q] = "push"]
    /\ seen' = [seen EXCEPT ![q] = record]
    /\ behind' = [behind EXCEPT ![q] = Pushing]
    /\ UNCHANGED <<storeVars, at, copy, doomed, outcome, chatVars, tries, registry, upsets, lost,
                   stale>>

SyncEnds(q) ==
    /\ sync' = [sync EXCEPT ![q] = "none"]
    /\ seen' = [seen EXCEPT ![q] = None]
    /\ tries' = [tries EXCEPT ![q] = 0]
    /\ behind' = [behind EXCEPT ![q] = {}]

\* The gateway replaces what it has registered.
PushLands(q) ==
    /\ sync[q] = "push"
    /\ registry' = seen[q]
    /\ stale' = (stale \/ behind[q] \cap Pushing # {})
    /\ SyncEnds(q)
    /\ UNCHANGED <<storeVars, at, copy, doomed, outcome, chatVars, upsets, lost>>

\* An attempt fails: again after a delay, or given up.  (A gateway that stays down
\* for the attempts of one push is one upset.)
PushFails(q) ==
    /\ sync[q] = "push"
    /\ IF tries[q] = 0 THEN Upset ELSE UNCHANGED upsets
    /\ IF tries[q] < Retries
       THEN tries' = [tries EXCEPT ![q] = @ + 1] /\ UNCHANGED <<sync, seen, behind, stale>>
       ELSE SyncEnds(q) /\ stale' = TRUE
    /\ UNCHANGED <<storeVars, at, copy, doomed, outcome, chatVars, registry, lost>>

\* The node stops and starts again.  Nothing looks for runs left Running.
Crash ==
    /\ Upset
    /\ at' = [q \in Requests |-> IF at[q] = "coming" THEN "coming" ELSE "over"]
    /\ copy' = [q \in Requests |-> None] /\ doomed' = [q \in Requests |-> {}]
    /\ sync' = [q \in Requests |-> "none"] /\ seen' = [q \in Requests |-> None]
    /\ tries' = [q \in Requests |-> 0] /\ behind' = [q \in Requests |-> {}]
    /\ lost' = {r \in Triggers : at[r] # "coming"}
    /\ stale' = TRUE
    /\ UNCHANGED <<storeVars, outcome, chatVars, registry>>

----------------------------------------------------------------------------
HandlerSteps(r) ==
    \/ PutRun(r) \/ PutRecord(r) \/ ListRuns(r) \/ DropRun(r)
    \/ Prepare(r) \/ PrepareFails(r) \/ SendPrompt(r)

WatcherSteps(r) == Subscribe(r) \/ Receive(r) \/ FinishLooksUp(r) \/ FinishPuts(r)

Next ==
    \/ Create \/ UpdateWrites \/ DeleteRecord \/ ListRuns(delete) \/ DropRun(delete) \/ Crash
    \/ \E q \in Edits : EditReads(q)
    \/ \E q \in Requests : WriteFails(q) \/ SyncReads(q) \/ PushLands(q) \/ PushFails(q)
    \/ \E r \in Triggers :
         \/ StartRun(r) \/ HandlerSteps(r) \/ HandlerDropped(r)
         \/ TurnEnds(r) \/ DriverStops(r) \/ Forward(r)
         \/ WatcherSteps(r) \/ TimesOut(r)

\* A handler that is not dropped is polled to its end, so is the watcher, a task of
\* its own, and its timeout fires.  Nothing is assumed of the chat run.
Spec ==
    /\ Init /\ [][Next]_vars
    /\ \A r \in Triggers : WF_vars(HandlerSteps(r) \/ WatcherSteps(r) \/ TimesOut(r))

----------------------------------------------------------------------------
Statuses == {"Running", "Success", "Failure"}
Records == [edit: Edits, run: Triggers \cup {0}] \cup {None}
Places == {"coming", "write", "put_run", "put_record", "list", "drop", "prepare", "send", "watch",
           "finish", "put", "over"}
Told == {<<>>, <<"end">>, <<"fatal", "end">>, <<"other">>}

(* Every variable keeps its shape.                                          *)
TypeOK ==
    /\ record \in Records /\ registry \in Records
    /\ runs \in [Triggers -> Statuses \cup {"absent"}]
    /\ last \in Nat /\ seq \in [Triggers -> Nat] /\ put \subseteq Triggers
    /\ at \in [Requests -> Places]
    /\ copy \in [Requests -> Records] /\ doomed \in [Requests -> SUBSET Triggers]
    /\ outcome \in [Triggers -> Statuses]
    /\ driver \in [Triggers -> {"none", "idle", "stopped"}] /\ prompted \subseteq Triggers
    /\ frames \in [Triggers -> Told] /\ pushed \in [Triggers -> Nat] /\ next \in [Triggers -> Nat]
    /\ sync \in [Requests -> {"none", "due", "push"}] /\ seen \in [Requests -> Records]
    /\ tries \in [Requests -> Nat] /\ behind \in [Requests -> SUBSET Requests]
    /\ upsets \in Nat /\ lost \subseteq Triggers /\ stale \in BOOLEAN

(* watch_process_run: a run is stored as a success only when its turn has ended and   *)
(* did not panic, although a turn that panics sends the same closing frame.            *)
OutcomeTold ==
    \A r \in Triggers : runs[r] = "Success" => pushed[r] > 0 /\ frames[r] = <<"end">>

(* prune_runs: a run leaves the history only with its process, or when MaxKept runs    *)
(* with higher numbers have been started, whatever the triggers that list and delete   *)
(* at the same time have seen.                                                         *)
NewestKept ==
    [][\A r \in Triggers :
         runs[r] # "absent" /\ runs'[r] = "absent"
         => \/ r \in doomed[delete]
            \/ Cardinality({s \in put : seq[s] > seq[r]}) >= MaxKept]_vars

(* trigger_registrar.rs: when no request is between its first write and its notice,    *)
(* and every push is through, the gateway has registered the stored schedule, unless   *)
(* pushes overtook each other, one was given up, or a request failed half-way.         *)
RegistryCurrent ==
    (/\ \A q \in Requests : at[q] \notin {"list", "drop"} /\ sync[q] = "none"
     /\ ~stale)
    => registry = record

(* watch_process_run and the handler: a run stored as Running gets another status or   *)
(* leaves the history, whatever becomes of its chat run, unless a write failed, its    *)
(* client went away before the watcher was spawned, or the node went down.             *)
RunSettles ==
    \A r \in Triggers : runs[r] = "Running" ~> (runs[r] # "Running" \/ r \in lost)
=============================================================================
