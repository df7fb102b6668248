------------------------------ MODULE ChatRun ------------------------------
(***************************************************************************)
(* One reattachable chat run of the gateway: the driver task that owns the *)
(* session and runs its turns (session/chat.rs), the event channel that    *)
(* numbers, keeps and broadcasts what the run says (session/chat_run.rs),  *)
(* the WebSocket attaches that replay it and follow it live, and the       *)
(* mailbox in which the agents the session spawned leave their messages    *)
(* (session/agent_inbox.rs).                                               *)
(*                                                                         *)
(* A frame is <<kind, turn>>; its text is left out.  The n-th frame the    *)
(* forwarder pushes is number n: the replay history and the live receivers *)
(* hold numbers.                                                           *)
(***************************************************************************)
EXTENDS Integers, Sequences, FiniteSets

CONSTANTS
    Sockets,     \* WebSocket attaches, each used once
    MaxEffort,   \* bound on commands, messages of spawned agents and talking turns together
    Commands,    \* kinds of inbound message the clients send
    MaxCommands, \* bound on the commands sent in a behaviour
    MaxDeltas,   \* bound on the frames a turn emits besides its start and its end
    OutCap,      \* capacity of the outbound mpsc (1024 in the code)
    Capacity     \* CHAT_EVENT_BROADCAST_CAPACITY = CHAT_EVENT_HISTORY_CAPACITY

ASSUME ChatRunAssumption ==
    /\ Commands \subseteq {"user", "generate", "cancel", "approval"}
    /\ MaxCommands \in Nat /\ MaxEffort \in Nat /\ MaxDeltas \in Nat
    /\ OutCap \in Nat \ {0} /\ Capacity \in Nat \ {0}
    /\ IsFiniteSet(Sockets)

VARIABLES
    registered, \* the run has an entry in ChatRunRegistry
    shutdown,   \* ChatRunHandle::shutdown is cancelled
    driver,     \* where run_chat_driver stands
    turns,      \* turns started so far; the last one is the active one
    loop,       \* per turn: its agent loop (or generation proxy) task
    forward,    \* turns whose stream_forward task is alive
    deltas,     \* per turn: the frames it has emitted
    cancelled,  \* turns whose cancel_token is cancelled
    commands,   \* the command mpsc
    asked,      \* commands sent so far
    mailbox,    \* how many messages AgentMailbox::queue holds
    permit,     \* the permit of AgentMailbox::ready (tokio Notify)
    posted,     \* mail delivered so far
    outbound,   \* the outbound mpsc
    pushed,     \* frames pushed so far
    history,    \* ChatEventChannel::history, as push numbers
    done,       \* ChatEventChannel::done
    attach,     \* per socket: where handle_chat_ws_attach stands
    snapshot,   \* per socket: the replay still to be written
    next,       \* per socket: the next number its live receiver reads
    wrote,      \* per socket: the last thing it was sent
    told        \* per socket: the last number the frames and gaps it was sent account for

run == <<registered, shutdown, driver>>
turn == <<turns, loop, forward, deltas, cancelled>>
inbound == <<commands, asked>>
mail == <<mailbox, permit, posted>>
channel == <<pushed, history, done>>
sockets == <<attach, snapshot, next, wrote, told>>
vars == <<run, turn, inbound, mail, outbound, channel, sockets>>

\* Every turn answers one command or one piece of mail.
Turns == 1..MaxEffort

Frame == {<<"ready", 0>>} \cup ({"start", "delta", "end", "error"} \X (Turns \cup {0}))

\* Attaches that hold an AttachGuard.
Attached == {s \in Sockets : attach[s] \in {"subscribed", "replay", "replay_only", "live"}}

\* A turn that has something to say; the effort of one that is over is forgotten.
Effort == asked + posted + Cardinality({t \in Turns : deltas[t] > 0})

MaySay(t) == deltas[t] < MaxDeltas /\ Effort < MaxEffort

\* mpsc::Sender::try_send with its error ignored.
TrySend(frame) ==
    outbound' = IF Len(outbound) < OutCap THEN Append(outbound, frame) ELSE outbound

Init ==
    /\ registered = TRUE /\ shutdown = FALSE /\ driver = "boot"
    /\ turns = 0
    /\ loop = [t \in Turns |-> "none"]
    /\ forward = {} /\ cancelled = {}
    /\ deltas = [t \in Turns |-> 0]
    /\ commands = <<>> /\ asked = 0
    /\ mailbox = 0 /\ permit = FALSE /\ posted = 0
    /\ outbound = <<>> /\ pushed = 0 /\ history = <<>> /\ done = FALSE
    /\ attach = [s \in Sockets |-> "away"]
    /\ snapshot = [s \in Sockets |-> <<>>]
    /\ next = [s \in Sockets |-> 0]
    /\ wrote = [s \in Sockets |-> <<"nothing", 0>>]
    /\ told = [s \in Sockets |-> 0]

-----------------------------------------------------------------------------
(* The driver, idle.                                                        *)

\* run_chat_driver: emit_session_ready, then the loop.
Boot ==
    /\ driver = "boot"
    /\ driver' = "pop"
    /\ TrySend(<<"ready", 0>>)
    /\ UNCHANGED <<registered, shutdown, turn, inbound, mail, channel, sockets>>

\* start_turn: announce the turn, then prepare_turn_context.
StartTurn ==
    /\ turns' = turns + 1
    /\ driver' = "prepare"
    /\ TrySend(<<"start", turns + 1>>)
    /\ UNCHANGED <<loop, forward, deltas, cancelled>>

\* drive_idle first looks into the mailbox ...
PopMail ==
    /\ driver = "pop" /\ mailbox > 0
    /\ mailbox' = mailbox - 1
    /\ StartTurn
    /\ UNCHANGED <<registered, shutdown, inbound, permit, posted, channel, sockets>>

\* Mutant: drive_idle relies on the notification alone.
NoMailUnchecked ==
    /\ driver = "pop"
    /\ driver' = "wait"
    /\ UNCHANGED <<registered, shutdown, turn, inbound, mail, outbound, channel, sockets>>

\* ... and waits when there is nothing in it.
NoMail ==
    /\ driver = "pop" /\ mailbox = 0
    /\ driver' = "wait"
    /\ UNCHANGED <<registered, shutdown, turn, inbound, mail, outbound, channel, sockets>>

\* Mutant: a stop waits for the clients to leave.
IdleShutdownPatient ==
    /\ driver = "wait" /\ shutdown /\ Attached = {}
    /\ driver' = "closing"
    /\ UNCHANGED <<registered, shutdown, turn, inbound, mail, outbound, channel, sockets>>

\* The branches of its biased select, in order: the run is stopped;
IdleShutdown ==
    /\ driver = "wait" /\ shutdown
    /\ driver' = "closing"
    /\ UNCHANGED <<registered, shutdown, turn, inbound, mail, outbound, channel, sockets>>

\* the mailbox has been written to since the last wait;
MailReady ==
    /\ driver = "wait" /\ ~shutdown /\ permit
    /\ permit' = FALSE
    /\ IF mailbox > 0
         THEN mailbox' = mailbox - 1 /\ StartTurn
         ELSE driver' = "pop" /\ UNCHANGED <<mailbox, turn, outbound>>
    /\ UNCHANGED <<registered, shutdown, inbound, posted, channel, sockets>>

\* dispatch_idle_message: a user message starts a turn, a generation request a
\* generation task or (no router, unknown mode) an error, an approval may be
\* refused by the broker, a cancel has nothing to cancel.  (The command channel is
\* never found closed here: its registry entry goes only with a shutdown or by the
\* driver itself.  Its 256 places are not modelled, MaxCommands is smaller.)
IdleCommand ==
    /\ driver = "wait" /\ ~shutdown /\ ~permit /\ commands # <<>>
    /\ commands' = Tail(commands)
    /\ \/ Head(commands) = "user" /\ StartTurn
       \/ /\ Head(commands) = "generate"
          /\ turns' = turns + 1
          /\ loop' = [loop EXCEPT ![turns + 1] = "generating"]
          /\ driver' = "turn"
          /\ UNCHANGED <<forward, deltas, cancelled, outbound>>
       \/ /\ Head(commands) \in {"generate", "approval"}
          /\ driver' = "pop" /\ TrySend(<<"error", 0>>) /\ UNCHANGED turn
       \/ /\ Head(commands) \in {"cancel", "approval"}
          /\ driver' = "pop" /\ UNCHANGED <<turn, outbound>>
    /\ UNCHANGED <<registered, shutdown, asked, mail, channel, sockets>>

\* Mutant: the deadline is the first branch of the select.
RetentionFirst ==
    /\ driver = "wait"
    /\ driver' = IF Attached = {} THEN "closing" ELSE "pop"
    /\ UNCHANGED <<registered, shutdown, turn, inbound, mail, outbound, channel, sockets>>

\* or CHAT_RUN_IDLE_RETENTION has passed: the run is reaped unless a client is
\* attached.
RetentionElapsed ==
    /\ driver = "wait" /\ ~shutdown /\ ~permit /\ commands = <<>>
    /\ driver' = IF Attached = {} THEN "closing" ELSE "pop"
    /\ UNCHANGED <<registered, shutdown, turn, inbound, mail, outbound, channel, sockets>>

-----------------------------------------------------------------------------
(* The driver, with a turn.                                                 *)

\* prepare_turn_context succeeds and dispatch_turn_to_agent spawns the two tasks.
Dispatch ==
    /\ driver = "prepare"
    /\ driver' = "turn"
    /\ loop' = [loop EXCEPT ![turns] = "running"]
    /\ forward' = forward \cup {turns}
    /\ UNCHANGED <<registered, shutdown, turns, deltas, cancelled, inbound, mail, outbound,
                   channel, sockets>>

\* It fails: an error, no turn, no AssistantMessageEnd.
PrepareFails ==
    /\ driver = "prepare"
    /\ driver' = "pop"
    /\ TrySend(<<"error", turns>>)
    /\ UNCHANGED <<registered, shutdown, turn, inbound, mail, channel, sockets>>

\* Mutant: the stopped run leaves its turn running.
TurnShutdownQuiet ==
    /\ driver = "turn" /\ shutdown
    /\ driver' = "closing"
    /\ UNCHANGED <<registered, shutdown, turn, inbound, mail, outbound, channel, sockets>>

\* The branches of drive_active_turn, in order: the run is stopped;
TurnShutdown ==
    /\ driver = "turn" /\ shutdown
    /\ driver' = "closing"
    /\ cancelled' = cancelled \cup {turns}
    /\ UNCHANGED <<registered, shutdown, turns, loop, forward, deltas, inbound, mail, outbound,
                   channel, sockets>>

\* handle_msg_during_turn: only a cancel and an approval are taken;
TurnCommand ==
    /\ driver = "turn" /\ ~shutdown /\ commands # <<>>
    /\ commands' = Tail(commands)
    /\ \/ /\ Head(commands) = "cancel"
          /\ cancelled' = cancelled \cup {turns}
          /\ UNCHANGED outbound
       \/ /\ Head(commands) = "approval"
          /\ UNCHANGED <<cancelled, outbound>>
       \/ /\ Head(commands) # "cancel"
          /\ TrySend(<<"error", 0>>)
          /\ UNCHANGED cancelled
    /\ UNCHANGED <<run, turns, loop, forward, deltas, asked, mail, channel, sockets>>

\* The active turn is over: its handles and its token are dropped.
DropTurn ==
    /\ loop' = [loop EXCEPT ![turns] = "over"]
    /\ deltas' = [deltas EXCEPT ![turns] = 0]
    /\ cancelled' = cancelled \ {turns}
    /\ UNCHANGED <<turns, forward>>

\* the task of the turn has ended: complete_agent_turn is next, a generation is
\* simply over.
TurnJoined ==
    /\ driver = "turn" /\ ~shutdown /\ commands = <<>>
    /\ loop[turns] \in {"ok", "failed", "panicked", "generated"}
    /\ IF loop[turns] = "generated"
         THEN driver' = "pop" /\ DropTurn
         ELSE driver' = "finish" /\ UNCHANGED turn
    /\ UNCHANGED <<registered, shutdown, inbound, mail, outbound, channel, sockets>>

\* send_outbound_with_backpressure: it waits for room, up to a timeout.
SendOrTimeOut(frame) ==
    \/ Len(outbound) < OutCap /\ outbound' = Append(outbound, frame)
    \/ Len(outbound) >= OutCap /\ UNCHANGED outbound

\* Mutant: the turn is finalised without awaiting its stream_forward task.
FinalizeUnjoined ==
    /\ driver = "finish"
    /\ SendOrTimeOut(<<IF loop[turns] = "ok" THEN "end" ELSE "error", turns>>)
    /\ IF loop[turns] = "panicked"
         THEN driver' = "finish_end" /\ UNCHANGED turn
         ELSE driver' = "pop" /\ DropTurn
    /\ UNCHANGED <<registered, shutdown, inbound, mail, channel, sockets>>

\* complete_agent_turn: await the stream_forward task, then finalize_turn; a
\* panic is an error and an end.
FinalizeTurn ==
    /\ driver = "finish" /\ turns \notin forward
    /\ SendOrTimeOut(<<IF loop[turns] = "ok" THEN "end" ELSE "error", turns>>)
    /\ IF loop[turns] = "panicked"
         THEN driver' = "finish_end" /\ UNCHANGED turn
         ELSE driver' = "pop" /\ DropTurn
    /\ UNCHANGED <<registered, shutdown, inbound, mail, channel, sockets>>

\* The end that follows a panic's error.
FinalizePanic ==
    /\ driver = "finish_end"
    /\ SendOrTimeOut(<<"end", turns>>)
    /\ driver' = "pop"
    /\ DropTurn
    /\ UNCHANGED <<registered, shutdown, inbound, mail, channel, sockets>>

\* The end of run_chat_driver: cancel the turn in flight (TurnShutdown has, and
\* no other branch closes the run with one) and mark the channel done ...
MarkDone ==
    /\ driver = "closing"
    /\ driver' = "marked"
    /\ done' = TRUE
    /\ UNCHANGED <<registered, shutdown, turn, inbound, mail, outbound, pushed, history, sockets>>

\* ... then the session, its mailbox and the command receiver are dropped, and
\* spawn_chat_run's task removes the registry entry.
DriverReturns ==
    /\ driver = "marked"
    /\ driver' = "gone"
    /\ registered' = FALSE
    /\ UNCHANGED <<shutdown, turn, inbound, mail, outbound, channel, sockets>>

-----------------------------------------------------------------------------
(* The tasks of a turn.                                                     *)

\* forward_events_to_ws delivers an event: the loop may have ended, its event
\* channel still holding some.
ForwardEvent(t) ==
    /\ t \in forward /\ MaySay(t)
    /\ Len(outbound) < OutCap
    /\ outbound' = Append(outbound, <<"delta", t>>)
    /\ deltas' = [deltas EXCEPT ![t] = @ + 1]
    /\ UNCHANGED <<run, turns, loop, forward, cancelled, inbound, mail, channel, sockets>>

\* The delivery timed out: the sink is closed and the task ends.
ForwardGivesUp(t) ==
    /\ t \in forward /\ MaySay(t) /\ Len(outbound) >= OutCap
    /\ forward' = forward \ {t}
    /\ UNCHANGED <<run, turns, loop, deltas, cancelled, inbound, mail, outbound, channel, sockets>>

\* Mutant: the turn keeps an event sender until it is cancelled.
ForwardEndsCancelled(t) ==
    /\ t \in forward /\ loop[t] # "running" /\ t \in cancelled
    /\ forward' = forward \ {t}
    /\ UNCHANGED <<run, turns, loop, deltas, cancelled, inbound, mail, outbound, channel, sockets>>

\* Every event sender is gone: the task ends.
ForwardEnds(t) ==
    /\ t \in forward /\ loop[t] # "running"
    /\ forward' = forward \ {t}
    /\ UNCHANGED <<run, turns, loop, deltas, cancelled, inbound, mail, outbound, channel, sockets>>

\* The agent loop returns, or panics; a cancelled one returns early.
LoopEnds(t) ==
    /\ loop[t] = "running"
    /\ \E outcome \in {"ok", "failed", "panicked"} : loop' = [loop EXCEPT ![t] = outcome]
    /\ UNCHANGED <<run, turns, forward, deltas, cancelled, inbound, mail, outbound, channel, sockets>>

\* run_generation_proxy relays a router event, if there is room ...
GenerationEvent(t) ==
    /\ loop[t] = "generating" /\ MaySay(t)
    /\ TrySend(<<"delta", t>>)
    /\ deltas' = [deltas EXCEPT ![t] = @ + 1]
    /\ UNCHANGED <<run, turns, loop, forward, cancelled, inbound, mail, channel, sockets>>

\* ... and returns.
GenerationEnds(t) ==
    /\ loop[t] = "generating"
    /\ loop' = [loop EXCEPT ![t] = "generated"]
    /\ UNCHANGED <<run, turns, forward, deltas, cancelled, inbound, mail, outbound, channel, sockets>>

-----------------------------------------------------------------------------
(* The event channel.                                                       *)

\* The last n elements of a sequence.
LastOf(seq, n) == SubSeq(seq, Len(seq) + 1 - n, Len(seq))

\* spawn_event_forwarder's task, ChatEventChannel::push: evict, append and
\* broadcast under the history lock.
Push ==
    /\ outbound # <<>>
    /\ outbound' = Tail(outbound)
    /\ pushed' = pushed + 1
    /\ LET kept == IF Len(history) >= Capacity THEN LastOf(history, Capacity - 1) ELSE history
       IN  history' = Append(kept, pushed + 1)
    /\ UNCHANGED <<run, turn, inbound, mail, done, sockets>>

\* The oldest frame the broadcast ring still holds.
Oldest == IF pushed > Capacity THEN pushed + 1 - Capacity ELSE 1

-----------------------------------------------------------------------------
(* The attaches.                                                            *)

\* ws_stream_handler: the run is looked up, then the socket is upgraded.
LookUp(s) ==
    /\ attach[s] = "away" /\ registered
    /\ attach' = [attach EXCEPT ![s] = "upgrading"]
    /\ UNCHANGED <<run, turn, inbound, mail, outbound, channel, snapshot, next, wrote, told>>

\* Mutant: the live receiver is created after the history lock is released, a
\* frame having been pushed in between when there is one to push.
SubscribeUnlocked(s) ==
    /\ attach[s] = "upgrading"
    /\ attach' = [attach EXCEPT ![s] = "subscribed"]
    /\ snapshot' = [snapshot EXCEPT ![s] = history]
    /\ outbound' = IF outbound = <<>> THEN outbound ELSE Tail(outbound)
    /\ pushed' = IF outbound = <<>> THEN pushed ELSE pushed + 1
    /\ next' = [next EXCEPT ![s] = pushed' + 1]
    /\ told' = [told EXCEPT ![s] = pushed - Len(history)]
    /\ UNCHANGED <<run, turn, inbound, mail, history, done, wrote>>

\* handle_chat_ws_attach: AttachGuard::new, then subscribe's snapshot and live
\* receiver under the history lock ...
Subscribe(s) ==
    /\ attach[s] = "upgrading"
    /\ attach' = [attach EXCEPT ![s] = "subscribed"]
    /\ snapshot' = [snapshot EXCEPT ![s] = history]
    /\ next' = [next EXCEPT ![s] = pushed + 1]
    /\ told' = [told EXCEPT ![s] = pushed - Len(history)]
    /\ UNCHANGED <<run, turn, inbound, mail, outbound, channel, wrote>>

\* ... and its look at done, after the lock: a finished run is replayed only.
LoadDone(s) ==
    /\ attach[s] = "subscribed"
    /\ attach' = [attach EXCEPT ![s] = IF done THEN "replay_only" ELSE "replay"]
    /\ UNCHANGED <<run, turn, inbound, mail, outbound, channel, snapshot, next, wrote, told>>

\* send_outbound_frame: a frame accounts for one number, a gap for those it names.
Write(s, item) ==
    /\ wrote' = [wrote EXCEPT ![s] = item]
    /\ told' = [told EXCEPT ![s] = @ + (IF item[1] = "frame" THEN 1 ELSE item[2])]

\* The attach is over: its subscription and what it wrote are gone.
Detach(s) ==
    /\ attach' = [attach EXCEPT ![s] = "ended"]
    /\ snapshot' = [snapshot EXCEPT ![s] = <<>>]
    /\ next' = [next EXCEPT ![s] = 0]
    /\ wrote' = [wrote EXCEPT ![s] = <<"nothing", 0>>]
    /\ told' = [told EXCEPT ![s] = 0]

\* The writer replays the snapshot ...
Replay(s) ==
    /\ attach[s] \in {"replay", "replay_only"} /\ snapshot[s] # <<>>
    /\ Write(s, <<"frame", Head(snapshot[s])>>)
    /\ snapshot' = [snapshot EXCEPT ![s] = Tail(@)]
    /\ UNCHANGED <<run, turn, inbound, mail, outbound, channel, attach, next>>

\* ... then follows the live receiver, or ends.
ReplayDone(s) ==
    /\ attach[s] \in {"replay", "replay_only"} /\ snapshot[s] = <<>>
    /\ IF attach[s] = "replay"
         THEN attach' = [attach EXCEPT ![s] = "live"] /\ UNCHANGED <<snapshot, next, wrote, told>>
         ELSE Detach(s)
    /\ UNCHANGED <<run, turn, inbound, mail, outbound, channel>>

\* Mutant: the newest frame is left for the next one to flush out.
ReceiveLate(s) ==
    /\ attach[s] = "live" /\ next[s] < pushed /\ next[s] >= Oldest
    /\ Write(s, <<"frame", next[s]>>)
    /\ next' = [next EXCEPT ![s] = @ + 1]
    /\ UNCHANGED <<run, turn, inbound, mail, outbound, channel, attach, snapshot>>

\* The receiver reads the next frame of the ring.
Receive(s) ==
    /\ attach[s] = "live" /\ next[s] <= pushed /\ next[s] >= Oldest
    /\ Write(s, <<"frame", next[s]>>)
    /\ next' = [next EXCEPT ![s] = @ + 1]
    /\ UNCHANGED <<run, turn, inbound, mail, outbound, channel, attach, snapshot>>

\* RecvError::Lagged(n): n frames have left the ring unread; the client is told.
Lagged(s) ==
    /\ attach[s] = "live" /\ next[s] < Oldest
    /\ Write(s, <<"lagged", Oldest - next[s]>>)
    /\ next' = [next EXCEPT ![s] = Oldest]
    /\ UNCHANGED <<run, turn, inbound, mail, outbound, channel, attach, snapshot>>

\* The client closes its socket, or the socket fails.
Close(s) ==
    /\ attach[s] \in {"replay", "replay_only", "live"}
    /\ Detach(s)
    /\ UNCHANGED <<run, turn, inbound, mail, outbound, channel>>

\* The reader forwards an inbound frame to the driver ...
Command(s, c) ==
    /\ attach[s] \in {"replay", "replay_only", "live"}
    /\ driver # "gone" /\ asked < MaxCommands /\ Effort < MaxEffort
    /\ asked' = asked + 1
    /\ commands' = Append(commands, c)
    /\ UNCHANGED <<run, turn, mail, outbound, channel, sockets>>

\* ... and, once the driver is gone, closes the attach instead.
CommandRefused(s) ==
    /\ attach[s] = "live" /\ driver = "gone"
    /\ Detach(s)
    /\ UNCHANGED <<run, turn, inbound, mail, outbound, channel>>

-----------------------------------------------------------------------------
(* The rest of the node.                                                    *)

\* SessionInbox::deliver, while the mailbox can be upgraded.
Deliver ==
    /\ Effort < MaxEffort /\ driver # "gone"
    /\ posted' = posted + 1
    /\ mailbox' = mailbox + 1
    /\ permit' = TRUE
    /\ UNCHANGED <<run, turn, inbound, outbound, channel, sockets>>

\* run_stop_handler removes the entry and signals the driver.
StopRun ==
    /\ registered
    /\ registered' = FALSE /\ shutdown' = TRUE
    /\ UNCHANGED <<driver, turn, inbound, mail, outbound, channel, sockets>>

\* watch_process_run, after a triggered run's outcome: the entry stays until the
\* driver returns.
WatcherStops ==
    /\ ~shutdown
    /\ shutdown' = TRUE
    /\ UNCHANGED <<registered, driver, turn, inbound, mail, outbound, channel, sockets>>

DriverStep ==
    \/ Boot \/ PopMail \/ NoMail
    \/ IdleShutdown \/ MailReady \/ IdleCommand \/ RetentionElapsed
    \/ Dispatch \/ PrepareFails
    \/ TurnShutdown \/ TurnCommand \/ TurnJoined \/ FinalizeTurn \/ FinalizePanic
    \/ MarkDone \/ DriverReturns

TurnStep(t) ==
    \/ ForwardEvent(t) \/ ForwardGivesUp(t) \/ ForwardEnds(t) \/ LoopEnds(t)
    \/ GenerationEvent(t) \/ GenerationEnds(t)

WriterStep(s) ==
    \/ Subscribe(s) \/ LoadDone(s) \/ Replay(s) \/ ReplayDone(s) \/ Receive(s) \/ Lagged(s)

ClientStep(s) ==
    \/ LookUp(s) \/ Close(s) \/ CommandRefused(s)
    \/ \E c \in Commands : Command(s, c)

Next ==
    \/ DriverStep \/ Push
    \/ \E t \in Turns : TurnStep(t)
    \/ \E s \in Sockets : WriterStep(s) \/ ClientStep(s)
    \/ Deliver \/ StopRun \/ WatcherStops

Spec == Init /\ [][Next]_vars

\* The runtime polls every spawned task: the driver, the forwarder, the tasks of a
\* turn, a writer whose socket takes frames.  AgentLoop bounds its iterations and
\* every model call and tool has a timeout, so a loop returns.  No client need
\* attach, send or close, no agent need write, nobody need stop the run.
Fairness ==
    /\ WF_vars(DriverStep) /\ WF_vars(Push)
    /\ WF_vars(\E t \in Turns : TurnStep(t))
    /\ \A s \in Sockets : WF_vars(WriterStep(s))

FairSpec == Spec /\ Fairness

-----------------------------------------------------------------------------
(* Properties.                                                              *)

\* Every variable keeps its shape; outbound and history stay within their caps.
TypeOK ==
    /\ registered \in BOOLEAN /\ shutdown \in BOOLEAN /\ done \in BOOLEAN
    /\ driver \in {"boot", "pop", "wait", "prepare", "turn", "finish", "finish_end",
                   "closing", "marked", "gone"}
    /\ turns \in Turns \cup {0}
    /\ loop \in [Turns -> {"none", "running", "ok", "failed", "panicked", "generating",
                          "generated", "over"}]
    /\ forward \subseteq Turns /\ cancelled \subseteq Turns
    /\ deltas \in [Turns -> 0..MaxDeltas]
    /\ commands \in Seq(Commands) /\ asked \in 0..MaxCommands
    /\ mailbox \in 0..posted /\ permit \in BOOLEAN /\ posted \in 0..MaxEffort
    /\ outbound \in Seq(Frame) /\ Len(outbound) <= OutCap
    /\ pushed \in Nat
    /\ history \in Seq(1..pushed) /\ Len(history) <= Capacity
    /\ attach \in [Sockets -> {"away", "upgrading", "subscribed", "replay", "replay_only",
                               "live", "ended"}]
    /\ \A s \in Sockets :
         /\ snapshot[s] \in Seq(1..pushed) /\ next[s] \in 0..(pushed + 1)
         /\ wrote[s] \in {"nothing", "frame", "lagged"} \X (0..pushed)
         /\ told[s] \in 0..pushed

\* chat_run.rs: "observes each message exactly once - never both in the replayed
\* history and again on the live receiver, and never dropped between the two".  The
\* frames a socket was sent and the gaps it was told of add up to the number of the
\* frame it gets, and in the live phase to everything its receiver has read.
ExactlyOnce ==
    \A s \in Sockets :
        /\ wrote[s][1] = "frame" => wrote[s][2] = told[s]
        /\ attach[s] = "live" => told[s] = next[s] - 1

\* The frames of a turn are never mixed with those of another and none follows the
\* turn's last: whoever sends one, it is of the active turn, which is not closed yet.
\* (The driver awaits the forwarder of a turn before it closes the turn.)
TurnsInOrder ==
    [][Len(outbound') > Len(outbound) =>
         LET t == outbound'[Len(outbound')][2]
         IN  t # 0 => t = turns' /\ loop[t] # "over"]_vars

\* chat.rs, "cancel any in-flight turn so its background task stops promptly": only
\* the active turn's loop runs, and once the driver has left its loop that one is
\* cancelled.
NoStrayTurn ==
    \A t \in Turns :
        loop[t] \in {"running", "generating"} =>
            /\ t = turns
            /\ driver \in {"turn", "closing", "marked", "gone"}
            /\ driver # "turn" => t \in cancelled

\* AgentMailbox: a message that waits while the driver waits always has a wake-up
\* pending, although two deliveries leave one permit and a wait may consume the
\* permit of a message an earlier pop has taken.
NoLostMail ==
    driver = "wait" /\ mailbox > 0 => permit

\* run_chat_driver: a run nobody stopped is closed only when no client is attached
\* and neither a command nor an agent's message is waiting.
ReapLosesNothing ==
    [][(driver = "wait" /\ driver' = "closing" /\ ~shutdown) =>
         (Attached = {} /\ commands = <<>> /\ mailbox = 0)]_vars

\* A stopped run ends, whatever its turn was doing and however full its outbound
\* channel is.
StopEndsRun == shutdown ~> driver = "gone"

\* An agent's message to a session is answered by a turn unless the run closes.
MailIsHandled == []<>(mailbox = 0 \/ driver = "gone")

\* A live attach reads everything the run says.
AttachCatchesUp ==
    \A s \in Sockets : []<>(attach[s] # "live" \/ next[s] > pushed)

\* chat.rs, mark_done: "so a late attach replays history without waiting on a live
\* receiver that will never fire": nothing is pushed once the channel is done.
DoneIsFinal == [][done => pushed' = pushed]_vars
=============================================================================
