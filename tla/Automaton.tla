----------------------------- MODULE Automaton ------------------------------
(***************************************************************************)
(* Background automatons of a project: the runtime that ticks one          *)
(* (aura-automaton/src/runtime.rs), the dev loop and the single-task run   *)
(* it executes, the bridge that starts, pauses and stops them              *)
(* (aura-engine/src/automaton), and the replayable event stream a client   *)
(* attaches to.                                                            *)
(*                                                                         *)
(* An automaton is named by the request that installs it.  An event is     *)
(* "event" or "Done"; the agent's run of a task is its outcome, the calls  *)
(* to the project's task list are what they answer.                        *)
(***************************************************************************)
EXTENDS Naturals, Sequences

CONSTANTS
    DevLoops,    \* requests to start the project's dev loop
    TaskRuns,    \* requests to run its first task alone
    Controls,    \* requests to pause or to stop
    Clients,     \* WebSocket clients
    Scenarios,   \* who may arrive in one behaviour, and what is done by then
    Order,       \* the project's tasks, in order
    EventCap,    \* capacity of an automaton's event mpsc (1024 in the code)
    Capacity,    \* EVENT_BROADCAST_CAPACITY = EVENT_HISTORY_CAPACITY
    MaxFaults,   \* bound on failures of the task list and of the set-up
    MaxAdvice,   \* bound on the advisory events in a behaviour
    None

Automata == DevLoops \cup TaskRuns
Tasks == {Order[i] : i \in DOMAIN Order}

ASSUME AutomatonAssumption ==
    /\ \A s \in Scenarios : /\ s.who \subseteq Automata \cup Controls \cup Clients
                            /\ s.done \subseteq Tasks
    /\ Order \in Seq(Tasks) \ {<<>>} /\ EventCap \in Nat \ {0} /\ Capacity \in Nat \ {0}
    /\ MaxFaults \in Nat /\ MaxAdvice \in Nat
    /\ None \notin Automata

VARIABLES
    arriving,   \* the requests of this behaviour
    request,    \* per automaton: where its start request stands
    control,    \* per control request: where it stands
    tracked,    \* project_handles: the automaton the project's entry names
    held,       \* automata whose handle, hence whose pause sender, is alive
    instances,  \* AutomatonRuntime::instances
    pc,         \* per automaton: where run_automaton stands
    cancelled,  \* automata whose token is cancelled
    paused,     \* automata whose pause channel says true
    unseen,     \* ... and whose receiver has not seen the last send
    finished,   \* automata whose published status is a final one
    loop,       \* per automaton: DevLoopState and the task in hand
    status,     \* per task: its status in the project's task list
    events,     \* per automaton: the event mpsc
    talking,    \* automata with an agent-event forwarder, which holds a sender
    forwarder,  \* per automaton: the task that feeds its EventChannel
    history,    \* per automaton: EventChannel::history
    done,       \* automata whose EventChannel::done is set
    expired,    \* ... and whose RETENTION_AFTER_DONE has passed since
    client,     \* per client: its subscription
    faults, advice,   \* how often the bounds were used
    stuck,      \* history: tasks whose last transition or start could not be told
    verdicts    \* history: per automaton, how many LoopFinished it emitted

bridge == <<arriving, request, control, tracked, held>>
signals == <<cancelled, paused, unseen>>
stream == <<forwarder, history, done, expired, client>>
counts == <<faults, advice>>
vars == <<bridge, instances, pc, signals, finished, loop, status, events, talking, stream,
          counts, stuck, verdicts>>

Idle == [ready |-> FALSE, queue |-> {}, task |-> None, tries |-> 0, result |-> "none",
         over |-> FALSE]

Away == [at |-> "away", of |-> None, replay |-> <<>>, live |-> <<>>]

Init ==
    /\ \E s \in Scenarios :
         /\ arriving = s.who
         /\ status = [t \in Tasks |-> IF t \in s.done THEN "done" ELSE "ready"]
    /\ request = [a \in Automata |-> "none"] /\ control = [o \in Controls |-> "none"]
    /\ tracked = None /\ held = {} /\ instances = {}
    /\ pc = [a \in Automata |-> "none"]
    /\ cancelled = {} /\ paused = {} /\ unseen = {} /\ finished = {}
    /\ loop = [a \in Automata |-> Idle]
    /\ events = [a \in Automata |-> <<>>] /\ talking = {}
    /\ forwarder = [a \in Automata |-> "none"]
    /\ history = [a \in Automata |-> <<>>] /\ done = {} /\ expired = {}
    /\ client = [c \in Clients |-> Away]
    /\ faults = 0 /\ advice = 0 /\ stuck = {}
    /\ verdicts = [a \in Automata |-> 0]

-----------------------------------------------------------------------------
(* The event mpsc.  It is followed only in behaviours in which a client     *)
(* comes; otherwise the forwarder is taken to keep up.                      *)

Watched == arriving \cap Clients # {}

Closed(a) == forwarder[a] = "gone"

\* TickContext::emit succeeds n times in a row: there is room, or nobody listens.
Fits(a, n) == ~Watched \/ Closed(a) \/ Len(events[a]) + n <= EventCap

\* try_send, one event after the other: those without room are dropped.
SendAll(a, es) ==
    events' = [events EXCEPT ![a] =
                 IF ~Watched \/ Closed(a) THEN @
                 ELSE IF Len(@) + Len(es) <= EventCap THEN @ \o es
                 ELSE @ \o SubSeq(es, 1, EventCap - Len(@))]

Some(n) == [i \in 1..n |-> "event"]

\* A call outside the node fails.
Fault == faults < MaxFaults /\ faults' = faults + 1 /\ UNCHANGED advice

NoFault == UNCHANGED counts

-----------------------------------------------------------------------------
(* The bridge.                                                              *)

Goto(a, where) == pc' = [pc EXCEPT ![a] = where]
Asks(a, where) == request' = [request EXCEPT ![a] = where]

\* project_handles.remove: the handle of whatever the entry names is dropped.
Untrack ==
    /\ tracked' = None
    /\ held' = held \ {tracked}

\* start_dev_loop_with_capabilities looks for a running loop of the project; an
\* entry whose loop is over or unknown to the runtime is removed next.
StartDevLoop(a) ==
    /\ a \in DevLoops \cap arriving /\ request[a] = "none"
    /\ Asks(a, IF tracked = None THEN "prepare"
               ELSE IF tracked \notin finished /\ tracked \in instances THEN "over"
               ELSE "removing")
    /\ UNCHANGED <<arriving, control, tracked, held, instances, pc, signals, finished, loop, status,
                   events, talking, stream, counts, stuck, verdicts>>

DropStale(a) ==
    /\ request[a] = "removing"
    /\ Asks(a, "prepare")
    /\ Untrack
    /\ UNCHANGED <<arriving, control, instances, pc, signals, finished, loop, status, events,
                   talking, stream, counts, stuck, verdicts>>

\* run_task_with_capabilities has no such check.
RunTask(a) ==
    /\ a \in TaskRuns \cap arriving /\ request[a] = "none"
    /\ Asks(a, "prepare")
    /\ UNCHANGED <<arriving, control, tracked, held, instances, pc, signals, finished, loop, status,
                   events, talking, stream, counts, stuck, verdicts>>

\* prepare_automaton_run fails.
PrepareFails(a) ==
    /\ request[a] = "prepare"
    /\ Asks(a, "over")
    /\ Fault
    /\ UNCHANGED <<arriving, control, tracked, held, instances, pc, signals, finished, loop, status,
                   events, talking, stream, stuck, verdicts>>

\* prepare_automaton_run is over; AutomatonRuntime::install registers and spawns.
Install(a) ==
    /\ request[a] = "prepare"
    /\ Asks(a, "track")
    /\ instances' = instances \cup {a}
    /\ held' = held \cup {a}
    /\ Goto(a, "installing")
    /\ UNCHANGED <<arriving, control, tracked, signals, finished, loop, status, events, talking,
                   stream, counts, stuck, verdicts>>

\* spawn_event_forwarder; the handle of a dev loop replaces the project's entry,
\* that of a task run is dropped.
Track(a) ==
    /\ request[a] = "track"
    /\ Asks(a, "over")
    /\ forwarder' = [forwarder EXCEPT ![a] = IF Watched THEN "recv" ELSE "none"]
    /\ IF a \in DevLoops
         THEN tracked' = a /\ held' = held \ {tracked}
         ELSE held' = held \ {a} /\ UNCHANGED tracked
    /\ UNCHANGED <<arriving, control, instances, pc, signals, finished, loop, status, events,
                   talking, history, done, expired, client, counts, stuck, verdicts>>

Controlled(o, where) ==
    /\ o \in arriving /\ control[o] = "none"
    /\ control' = [control EXCEPT ![o] = where]

\* pause_dev_loop, pause_by_id.
Pause(o) ==
    /\ Controlled(o, "over")
    /\ tracked # None /\ tracked \notin finished
    /\ paused' = paused \cup {tracked}
    /\ unseen' = unseen \cup {tracked}
    /\ UNCHANGED <<arriving, request, tracked, held, instances, pc, cancelled, finished, loop,
                   status, events, talking, stream, counts, stuck, verdicts>>

\* stop_dev_loop, stop_by_id: the token of the tracked automaton is cancelled,
\* unless it has finished; either way the entry goes next.
Stop(o) ==
    /\ Controlled(o, "removing")
    /\ tracked # None
    /\ cancelled' = IF tracked \in finished THEN cancelled ELSE cancelled \cup {tracked}
    /\ UNCHANGED <<arriving, request, tracked, held, instances, pc, paused, unseen, finished, loop,
                   status, events, talking, stream, counts, stuck, verdicts>>

\* stop_by_id of an automaton no entry names.
StopUntracked(o, a) ==
    /\ Controlled(o, "over")
    /\ a # tracked /\ a \in instances
    /\ cancelled' = cancelled \cup {a}
    /\ UNCHANGED <<arriving, request, tracked, held, instances, pc, paused, unseen, finished, loop,
                   status, events, talking, stream, counts, stuck, verdicts>>

\* Mutant: somebody else keeps the handle of the stopped automaton.
RemoveKeepsHandle(o) ==
    /\ control[o] = "removing"
    /\ control' = [control EXCEPT ![o] = "over"]
    /\ tracked' = None
    /\ UNCHANGED <<arriving, request, held, instances, pc, signals, finished, loop, status, events,
                   talking, stream, counts, stuck, verdicts>>

\* The second half of a stop: whatever the entry names by now loses its handle.
Remove(o) ==
    /\ control[o] = "removing"
    /\ control' = [control EXCEPT ![o] = "over"]
    /\ Untrack
    /\ UNCHANGED <<arriving, request, instances, pc, signals, finished, loop, status, events,
                   talking, stream, counts, stuck, verdicts>>

-----------------------------------------------------------------------------
(* run_automaton.                                                           *)

runtime == <<bridge, signals, stream>>

\* DevLoopState::save, and the variables of the tick.
Saves(a, state) == loop' = [loop EXCEPT ![a] = state]

Ended(a) == pc[a] \in {"ended", "unborn"}

\* on_install, then Started; the dev loop's logs a line.
OnInstall(a) ==
    /\ pc[a] = "installing"
    /\ SendAll(a, Some(IF a \in DevLoops THEN 2 ELSE 1))
    /\ Goto(a, "top")
    /\ UNCHANGED <<runtime, instances, finished, loop, status, talking, counts, stuck, verdicts>>

\* The dev loop's start request does not parse.
InstallFails(a) ==
    /\ pc[a] = "installing" /\ a \in DevLoops
    /\ Fault
    /\ SendAll(a, <<"event", "Done">>)
    /\ finished' = finished \cup {a}
    /\ instances' = instances \ {a}
    /\ Goto(a, "unborn")
    /\ UNCHANGED <<runtime, loop, status, talking, stuck, verdicts>>

\* The top of the loop: cancelled, paused, or another tick.
LoopTop(a) ==
    /\ pc[a] = "top"
    /\ Goto(a, IF a \in cancelled THEN "stop" ELSE IF a \in paused THEN "check" ELSE "tick")
    /\ SendAll(a, Some(IF a \in paused \ cancelled THEN 1 ELSE 0))
    /\ UNCHANGED <<runtime, instances, finished, loop, status, talking, counts, stuck, verdicts>>

\* The paused loop looks at its token before it waits for a change ...
PausedLooks(a) ==
    /\ pc[a] = "check"
    /\ Goto(a, IF a \in cancelled THEN "stop" ELSE "wait")
    /\ UNCHANGED <<runtime, instances, finished, loop, status, events, talking, counts, stuck,
                   verdicts>>

\* ... of the pause channel.  Nothing sends false; the loss of the sender ends the
\* wait, and the loop ticks on unless it was cancelled.
PausedWakes(a) ==
    /\ pc[a] = "wait"
    /\ \/ a \in unseen /\ unseen' = unseen \ {a} /\ Goto(a, "check")
       \/ /\ a \notin unseen /\ a \notin held
          /\ Goto(a, IF a \in cancelled THEN "stop" ELSE "tick")
          /\ UNCHANGED unseen
    /\ UNCHANGED <<bridge, stream, cancelled, paused, instances, finished, loop, status, events,
                   talking, counts, stuck, verdicts>>

\* on_stop: a dev loop that has not said so says that it is over.  The final
\* status is published.
OnStop(a) ==
    /\ pc[a] = "stop"
    /\ LET speaks == a \in DevLoops /\ ~loop[a].over
       IN  /\ SendAll(a, Some(IF speaks THEN 1 ELSE 0))
           /\ verdicts' = [verdicts EXCEPT ![a] = @ + (IF speaks THEN 1 ELSE 0)]
    /\ finished' = finished \cup {a}
    /\ Goto(a, "report")
    /\ UNCHANGED <<runtime, instances, loop, status, talking, counts, stuck>>

\* Stopped and Done, and the runtime forgets the automaton.
Report(a) ==
    /\ pc[a] = "report"
    /\ SendAll(a, <<"event", "Done">>)
    /\ instances' = instances \ {a}
    /\ Saves(a, Idle)
    /\ Goto(a, "ended")
    /\ UNCHANGED <<runtime, finished, status, talking, counts, stuck, verdicts>>

-----------------------------------------------------------------------------
(* A tick.  One that fails logs an error; the loop ends after it.           *)

Ticking(a) == pc[a] = "tick"

\* The tick emits n events and goes on to `where`, or fails for want of room.
EmitThen(a, n, where) ==
    /\ SendAll(a, Some(IF Fits(a, n) THEN n ELSE n + 1))
    /\ Goto(a, IF Fits(a, n) THEN where ELSE "stop")

TickFails(a) ==
    /\ Fault
    /\ SendAll(a, <<"event">>)
    /\ Goto(a, "stop")

\* transition_task, whose failure is only logged.
Transition(t, s) ==
    \/ /\ status' = [status EXCEPT ![t] = s]
       /\ stuck' = stuck \ {t}
       /\ NoFault
    \/ /\ Fault
       /\ stuck' = stuck \cup {t}
       /\ UNCHANGED status

\* The dev loop is cancelled before it does anything.
TickCancelled(a) ==
    /\ Ticking(a) /\ a \in DevLoops \cap cancelled
    /\ Goto(a, "stop")
    /\ UNCHANGED <<runtime, instances, finished, loop, status, events, talking, counts, stuck,
                   verdicts>>

\* initialize_queue: the tasks that are not done.
InitQueue(a) ==
    /\ Ticking(a) /\ a \in DevLoops \ cancelled /\ ~loop[a].ready
    /\ \/ TickFails(a) /\ UNCHANGED loop
       \/ /\ Saves(a, [loop[a] EXCEPT !.ready = TRUE,
                                      !.queue = {t \in Tasks : status[t] # "done"}])
          /\ EmitThen(a, 1, "top")
          /\ NoFault
    /\ UNCHANGED <<runtime, instances, finished, status, talking, stuck, verdicts>>

\* Mutant: loop_finished is not saved.
FinishUnsaved(a) ==
    /\ Ticking(a) /\ a \in DevLoops \ cancelled /\ loop[a].ready /\ loop[a].queue = {}
    /\ verdicts' = [verdicts EXCEPT ![a] = @ + 1]
    /\ EmitThen(a, 1, "stop")
    /\ UNCHANGED <<runtime, instances, finished, loop, status, talking, counts, stuck>>

\* finish: nothing is left to do.
Finish(a) ==
    /\ Ticking(a) /\ a \in DevLoops \ cancelled /\ loop[a].ready /\ loop[a].queue = {}
    /\ Saves(a, [loop[a] EXCEPT !.over = TRUE])
    /\ verdicts' = [verdicts EXCEPT ![a] = @ + 1]
    /\ EmitThen(a, 1, "stop")
    /\ UNCHANGED <<runtime, instances, finished, status, talking, counts, stuck>>

\* run_tracked_task starts a forwarder of the agent's events.
Talks(a) == talking' = IF Watched THEN talking \cup {a} ELSE talking

\* Task t leaves the queue and, unless its run cannot start, is the one in hand.
Takes(a, t, task) ==
    Saves(a, [ready |-> loop[a].ready, queue |-> loop[a].queue \ {t}, task |-> task,
              tries |-> 1, result |-> "none", over |-> FALSE])

Position(t) == CHOOSE i \in DOMAIN Order : Order[i] = t

\* process_next_task: the first task leaves the queue; unless it cannot be read it
\* becomes in_progress, then TaskStarted is emitted.
BeginTask(a) ==
    /\ Ticking(a) /\ a \in DevLoops \ cancelled /\ loop[a].ready
    /\ \E t \in loop[a].queue :
       /\ \A u \in loop[a].queue : Position(t) <= Position(u)
       /\ \/ /\ TickFails(a)                       \* get_project
             /\ Takes(a, t, None)
             /\ UNCHANGED <<status, talking, stuck>>
          \/ /\ Fault                              \* get_task
             /\ Takes(a, t, None)
             /\ Goto(a, "top")
             /\ UNCHANGED <<status, events, talking, stuck>>
          \/ /\ Fits(a, 1)
             /\ Transition(t, "in_progress")
             /\ Takes(a, t, t)
             /\ EmitThen(a, 1, "exec")
             /\ Talks(a)
          \/ /\ ~Fits(a, 1)
             /\ status' = [status EXCEPT ![t] = "in_progress"]
             /\ stuck' = stuck \cup {t}
             /\ Takes(a, t, None)
             /\ EmitThen(a, 1, "exec")
             /\ NoFault
             /\ UNCHANGED talking
    /\ UNCHANGED <<runtime, instances, finished, verdicts>>

\* TaskRunAutomaton::tick: TaskStarted comes first.
BeginRun(a) ==
    /\ Ticking(a) /\ a \in TaskRuns
    /\ \/ /\ TickFails(a)                          \* fetch_task_context
          /\ UNCHANGED <<loop, status, talking, stuck>>
       \/ /\ EmitThen(a, 1, "exec")
          /\ IF Fits(a, 1)
               THEN /\ Transition(Order[1], "in_progress")
                    /\ Takes(a, Order[1], Order[1])
                    /\ Talks(a)
               ELSE NoFault /\ UNCHANGED <<loop, status, talking, stuck>>
    /\ UNCHANGED <<runtime, instances, finished, verdicts>>

\* run_tracked_task returns, early when the token is cancelled; the dev loop
\* checks the build of a task that was not stopped.
Execute(a) ==
    /\ pc[a] = "exec"
    /\ \E result \in {"ok", "error"} :
         /\ Saves(a, [loop[a] EXCEPT !.result = result])
         /\ Goto(a, IF result = "ok" /\ a \in DevLoops \ cancelled THEN "build" ELSE "settle")
    /\ UNCHANGED <<runtime, instances, finished, status, events, talking, counts, stuck, verdicts>>

\* verify_build_after_agent: a red build is given one more run.
Build(a) ==
    /\ pc[a] = "build"
    /\ \/ Goto(a, "settle") /\ UNCHANGED <<loop, talking>>
       \/ /\ loop[a].tries = 1
          /\ Saves(a, [loop[a] EXCEPT !.tries = 2])
          /\ Talks(a)
          /\ Goto(a, "exec")
       \/ /\ loop[a].tries = 2
          /\ Saves(a, [loop[a] EXCEPT !.result = "error"])
          /\ Goto(a, "settle")
          /\ UNCHANGED talking
    /\ UNCHANGED <<runtime, instances, finished, status, events, counts, stuck, verdicts>>

\* The task in hand is let go.
LetGo(a, over) ==
    Saves(a, [ready |-> loop[a].ready, queue |-> loop[a].queue, task |-> None,
              tries |-> 0, result |-> "none", over |-> over])

\* Mutant: the status of a cancelled task is left to the next loop.
SettleCancelledQuiet(a) ==
    /\ pc[a] = "settle" /\ a \in cancelled
    /\ LetGo(a, FALSE)
    /\ EmitThen(a, 1, "stop")
    /\ UNCHANGED <<runtime, instances, finished, status, talking, counts, stuck, verdicts>>

\* finalize_task_outcome, of a stopped task: it is ready again.
SettleCancelled(a) ==
    /\ pc[a] = "settle" /\ a \in cancelled
    /\ Transition(loop[a].task, "ready")
    /\ LetGo(a, FALSE)
    /\ EmitThen(a, 1, "stop")
    /\ UNCHANGED <<runtime, instances, finished, talking, verdicts>>

\* Of one that succeeded: TaskCompleted and TokenUsage; the dev loop goes on.
SettleDone(a) ==
    /\ pc[a] = "settle" /\ a \notin cancelled /\ loop[a].result = "ok"
    /\ Transition(loop[a].task, "done")
    /\ LetGo(a, FALSE)
    /\ EmitThen(a, 2, IF a \in DevLoops THEN "top" ELSE "stop")
    /\ UNCHANGED <<runtime, instances, finished, talking, verdicts>>

\* Of one that failed: TaskFailed, and for the dev loop LoopFinished.
SettleFailed(a) ==
    /\ pc[a] = "settle" /\ a \notin cancelled /\ loop[a].result = "error"
    /\ Transition(loop[a].task, "failed")
    /\ LET last == a \in DevLoops /\ Fits(a, 1)
       IN  /\ LetGo(a, last)
           /\ verdicts' = [verdicts EXCEPT ![a] = @ + (IF last THEN 1 ELSE 0)]
    /\ EmitThen(a, IF a \in DevLoops THEN 2 ELSE 1, "stop")
    /\ UNCHANGED <<runtime, instances, finished, talking>>

-----------------------------------------------------------------------------
(* The event stream.                                                        *)

rest == <<bridge, instances, pc, signals, finished, loop, status, faults, stuck, verdicts>>

\* spawn_agent_event_forwarder: an advisory event, dropped when there is no room.
Advise(a) ==
    /\ a \in talking /\ advice < MaxAdvice
    /\ advice' = advice + 1
    /\ SendAll(a, <<"event">>)
    /\ UNCHANGED <<rest, talking, stream>>

\* It ends, and drops its sender, some time after the run of the task.
TalkEnds(a) ==
    /\ a \in talking /\ pc[a] # "exec"
    /\ talking' = talking \ {a}
    /\ UNCHANGED <<rest, events, stream, advice>>

Following(a, places) == {c \in Clients : client[c].of = a /\ client[c].at \in places}

LastOf(seq, n) == IF Len(seq) <= n THEN seq ELSE SubSeq(seq, Len(seq) + 1 - n, Len(seq))

\* spawn_event_forwarder's task: the event goes into the history, under its lock,
Take(a) ==
    /\ forwarder[a] = "recv" /\ events[a] # <<>>
    /\ history' = [history EXCEPT ![a] = LastOf(Append(@, Head(events[a])), Capacity)]
    /\ events' = [events EXCEPT ![a] = Tail(@)]
    /\ forwarder' = [forwarder EXCEPT ![a] = Head(events[a])]
    /\ UNCHANGED <<rest, talking, done, expired, client, advice>>

\* then to the receivers there are; a slow one loses its oldest.
Broadcast(a) ==
    /\ forwarder[a] \in {"event", "Done"}
    /\ client' = [c \in Clients |->
                    IF c \in Following(a, {"listening", "live"})
                    THEN [client[c] EXCEPT !.live = LastOf(Append(@, forwarder[a]), Capacity)]
                    ELSE client[c]]
    /\ forwarder' = [forwarder EXCEPT ![a] =
                       IF @ = "Done" /\ a \notin done THEN "mark" ELSE "recv"]
    /\ UNCHANGED <<rest, events, talking, history, done, expired, advice>>

MarkDone(a) ==
    /\ forwarder[a] = "mark"
    /\ done' = done \cup {a}
    /\ forwarder' = [forwarder EXCEPT ![a] = "recv"]
    /\ UNCHANGED <<rest, events, talking, history, expired, client, advice>>

ForwarderEndsIf(a, over) ==
    /\ forwarder[a] = "recv" /\ over
    /\ Following(a, {"cloned", "listening"}) = {}
    /\ forwarder' = [forwarder EXCEPT ![a] = "gone"]
    /\ events' = [events EXCEPT ![a] = <<>>]
    /\ history' = [history EXCEPT ![a] = <<>>]
    /\ UNCHANGED <<rest, talking, done, expired, client, advice>>

\* Mutant: the stream is kept until Done and the retention time have passed.
ForwarderWaitsForDone(a) == ForwarderEndsIf(a, a \in expired)

\* Every sender is gone and nothing is left, or RETENTION_AFTER_DONE has passed
\* since Done: the channel is removed, once no subscribe_events holds its entry.
ForwarderEnds(a) ==
    ForwarderEndsIf(a, \/ events[a] = <<>> /\ Ended(a) /\ a \notin talking
                       \/ a \in expired)

\* RETENTION_AFTER_DONE passes.
Expire(a) ==
    /\ a \in done \ expired /\ ~Closed(a)
    /\ expired' = expired \cup {a}
    /\ UNCHANGED <<rest, events, talking, forwarder, history, done, client, advice>>

\* subscribe_events: the history is cloned,
Attach(c, a) ==
    /\ c \in arriving /\ client[c].at = "away" /\ request[a] = "over"
    /\ client' = [client EXCEPT ![c] =
                    IF forwarder[a] \in {"none", "gone"} THEN [@ EXCEPT !.at = "ended"]
                    ELSE [@ EXCEPT !.at = "cloned", !.of = a, !.replay = history[a]]]
    /\ UNCHANGED <<rest, events, talking, forwarder, history, done, expired, advice>>

\* then the receiver is created,
Listen(c) ==
    /\ client[c].at = "cloned"
    /\ client' = [client EXCEPT ![c].at = "listening"]
    /\ UNCHANGED <<rest, events, talking, forwarder, history, done, expired, advice>>

Hangs(c) == [Away EXCEPT !.at = "ended", !.of = client[c].of]

\* then `done` is read.  forward_automaton_subscription replays the history and
\* follows the receiver, unless it came upon Done.
LoadDone(c) ==
    /\ client[c].at = "listening"
    /\ client' = [client EXCEPT ![c] =
                    IF \/ client[c].of \in done
                       \/ \E i \in DOMAIN client[c].replay : client[c].replay[i] = "Done"
                    THEN Hangs(c)
                    ELSE [@ EXCEPT !.at = "live", !.replay = <<>>]]
    /\ UNCHANGED <<rest, events, talking, forwarder, history, done, expired, advice>>

\* An event, Done, or the end of the channel.
Receive(c) ==
    /\ client[c].at = "live"
    /\ \/ /\ client[c].live # <<>>
          /\ client' = [client EXCEPT ![c] = IF Head(@.live) = "Done" THEN Hangs(c)
                                             ELSE [@ EXCEPT !.live = Tail(@)]]
       \/ /\ client[c].live = <<>> /\ Closed(client[c].of)
          /\ client' = [client EXCEPT ![c] = Hangs(c)]
    /\ UNCHANGED <<rest, events, talking, forwarder, history, done, expired, advice>>

\* The client closes the socket.
Leave(c) ==
    /\ client[c].at = "live"
    /\ client' = [client EXCEPT ![c] = Hangs(c)]
    /\ UNCHANGED <<rest, events, talking, forwarder, history, done, expired, advice>>

-----------------------------------------------------------------------------
Run(a) ==
    \/ OnInstall(a) \/ InstallFails(a) \/ LoopTop(a) \/ PausedLooks(a) \/ PausedWakes(a)
    \/ TickCancelled(a) \/ InitQueue(a) \/ Finish(a) \/ BeginTask(a) \/ BeginRun(a)
    \/ Execute(a) \/ Build(a) \/ SettleCancelled(a) \/ SettleDone(a) \/ SettleFailed(a)
    \/ OnStop(a) \/ Report(a)

Forward(a) ==
    TalkEnds(a) \/ Take(a) \/ Broadcast(a) \/ MarkDone(a) \/ Expire(a) \/ ForwarderEnds(a)

Follow(c) == Listen(c) \/ LoadDone(c) \/ Receive(c)

\* What the node does by itself, once asked.
Progress ==
    \/ \E a \in Automata : \/ DropStale(a) \/ PrepareFails(a) \/ Install(a) \/ Track(a)
                           \/ Run(a) \/ Forward(a)
    \/ \E o \in Controls : Remove(o)
    \/ \E c \in Clients : Follow(c)

\* What others do, or may do.
Environment ==
    \/ \E a \in Automata : StartDevLoop(a) \/ RunTask(a) \/ Advise(a)
    \/ \E o \in Controls : Pause(o) \/ Stop(o) \/ \E a \in Automata : StopUntracked(o, a)
    \/ \E c \in Clients : Leave(c) \/ \E a \in Automata : Attach(c, a)

Next == Progress \/ Environment

Spec == Init /\ [][Next]_vars /\ WF_vars(Progress)

-----------------------------------------------------------------------------
LoopStates ==
    [ready: BOOLEAN, queue: SUBSET Tasks, task: Tasks \cup {None}, tries: 0..2,
     result: {"none", "ok", "error"}, over: BOOLEAN]

\* The shapes of what the other properties read.
TypeOK ==
    /\ request \in [Automata -> {"none", "removing", "prepare", "track", "over"}]
    /\ pc \in [Automata -> {"none", "installing", "unborn", "top", "check", "wait", "tick", "exec",
                            "build", "settle", "stop", "report", "ended"}]
    /\ loop \in [Automata -> LoopStates]
    /\ status \in [Tasks -> {"ready", "in_progress", "done", "failed"}]
    /\ verdicts \in [Automata -> Nat]
    /\ stuck \subseteq Tasks

\* A stopped automaton ends, whatever it was doing when the stop came: paused (the
\* stop drops its handle, which ends the wait), between ticks or in the middle of a
\* task, also when racing starts have replaced its entry.
StopEnds == \A a \in Automata : []<>(a \in cancelled => Ended(a))

\* The stream of a client ends once the automaton has, also when Done was dropped
\* for want of room or was broadcast between the three steps of subscribe_events.
StreamsEnd ==
    \A c \in Clients : []<>(client[c].at \in {"cloned", "listening", "live"}
                            => ~Ended(client[c].of))

\* A task is in_progress only while an automaton works on it: however its run, the
\* build or a stop end, the task is settled, unless the task list refused the
\* transition or TaskStarted found the event channel full.
TasksOwned ==
    \A t \in Tasks \ stuck : status[t] = "in_progress" =>
        \E a \in Automata : loop[a].task = t /\ pc[a] \in {"exec", "build", "settle"}

\* A dev loop that was installed says exactly once that it is over, on each of the
\* ways its last tick can end and when it is stopped (loop_finished).
OneVerdict ==
    \A a \in DevLoops : pc[a] = "ended" => verdicts[a] = 1

\* Stated by the comments on RETENTION_AFTER_DONE and spawn_event_forwarder, and
\* false of the code: after Done the channel stays for the retention time, so that
\* a client that comes late can still have the history.
RetainedAfterDone == \A a \in done : Closed(a) => a \in expired
=============================================================================
