----------------------------- MODULE AgentLoop ------------------------------
(***************************************************************************)
(* One task of the agent loop (aura-agent/src/agent_loop): run_task spins  *)
(* turns while the user keeps steering, run_turn spins model requests      *)
(* while the model wants to go on, and the stream pump turns one request   *)
(* into a reply and the results of the tools the reply called.  The user   *)
(* pushes inputs and stops the task at any point, through InputQueue.      *)
(*                                                                         *)
(* The model's stream and the tools are the environment: every event order *)
(* and every outcome the pump distinguishes may happen.                    *)
(***************************************************************************)
EXTENDS InputQueue, History, FiniteSets

CONSTANTS
    InitialHistories,  \* the transcripts a task may be started on
    MaxIterations,     \* config.max_iterations
    MaxTaskIterations, \* config.max_iterations_per_task
    MaxTurns,          \* config.max_turns_per_task
    MaxRetries,        \* llm_retry: attempts after the first one
    MaxRecoveries,     \* MAX_OUTPUT_LIMIT_RECOVERIES
    EditLimit,         \* identical failed edits that stop the task
    ImplementNow,      \* steering.implement_now_threshold: reads before the nudge
    MaxCalls,          \* bound: tool calls the model makes in one reply
    MaxEffort          \* bound: tool calls and user inputs of the task together

VARIABLES
    pc,        \* where the loop is
    messages,  \* state.messages
    taken,     \* inputs drained from the queue and not yet in the history
    turn,      \* run_task's counters and run_turn's locals
    run,       \* the rest of LoopState; history: the requests made, the tools
               \* called and the set of those that ran
    pump,      \* locals of run_stream_pump and drive_stream
    client,    \* pieces of the current reply on the user's screen
    result     \* how the task ended

loopVars == <<pc, messages, taken, turn, run, pump, client, result>>
vars == <<queueVars, loopVars>>

(* What the closing text of a turn looks like to the nudges. *)
TextKinds == {"plain", "promise", "markup"}

ToolKinds == {"read", "edit", "task_done"}

(* What a tool of each kind may return. *)
Outcomes(kind) == CASE kind = "read"      -> {"fresh", "error"}
                    [] kind = "edit"      -> {"written", "error"}
                    [] kind = "task_done" -> {"done", "error"}

\* Mutant: a new turn counts its iterations from zero.
FreshTurnFromZero(index, offset) ==
    [index |-> index, offset |-> 0, count |-> 0, visible |-> FALSE, nudged |-> {}]

FreshTurn(index, offset) ==
    [index |-> index, offset |-> offset, count |-> 0, visible |-> FALSE, nudged |-> {}]

(* One attempt of the pump: nothing seen yet. *)
FreshStream == [seen |-> <<>>, ready |-> <<>>, spawned |-> <<>>, ran |-> <<>>,
                shown |-> 0, inBlock |-> FALSE, text |-> FALSE]

FreshPump == [attempt |-> 0, reset |-> 0, stop |-> "none", how |-> "none",
              stream |-> FreshStream]

Init ==
    /\ InitQueue
    /\ pc = "turn_top"
    /\ messages \in InitialHistories
    /\ taken = <<>>
    /\ turn = FreshTurn(0, 0)
    /\ run = [wrote |-> FALSE, done |-> FALSE, truncated |-> FALSE, latched |-> FALSE,
              recoveries |-> 0, failedEdits |-> 0, tools |-> 0, cache |-> "none",
              explored |-> 0, requests |-> 0, ran |-> {}]
    /\ pump = FreshPump
    /\ client = 0
    /\ result = "none"

-----------------------------------------------------------------------------
(* run_task and run_turn *)

Iteration == turn.offset + turn.count

(* An ended task leaves its locals behind. *)
Finish(how) == pc' = "ended" /\ result' = how /\ turn' = FreshTurn(turn.index, Iteration)

\* Mutant: only the newest of several drained inputs is kept.
ApplyNewestInput(ms, inputs) ==
    IF inputs = <<>> \/ Last(inputs) \in Cancellers THEN ms ELSE append_warning(ms, Last(inputs))

(* Inputs reach the history in order; an in-band Cancel leaves no trace. *)
apply_user_inputs_to_messages(ms, inputs) ==
    FoldLeft(append_warning, ms, SelectSeq(inputs, LAMBDA i : i \notin Cancellers))

(* Top of the turn loop: a fired token wins over the drain. *)
DrainPendingInput ==
    /\ pc = "turn_top"
    /\ \/ /\ cancelled
          /\ Finish("cancelled")
          /\ UNCHANGED <<queueVars, taken>>
       \/ /\ ~cancelled
          /\ taken' = inbox
          /\ DrainTakes
          /\ pc' = "apply"
          /\ UNCHANGED <<turn, result>>
    /\ UNCHANGED <<messages, run, pump, client>>

(* The drained inputs join the history, then the iteration ceiling. *)
ApplyInput ==
    /\ pc = "apply"
    /\ DrainClears
    /\ messages' = apply_user_inputs_to_messages(messages, taken)
    /\ taken' = <<>>
    /\ IF Iteration >= MaxIterations
       THEN Finish("IterationBudgetExceeded")
       ELSE pc' = "sample" /\ UNCHANGED <<turn, result>>
    /\ UNCHANGED <<run, pump, client>>

(* The history compact_if_needed and apply_summary_compaction leave: with
   pressure, the middle range chosen on the repaired history is replaced
   by a summary, and repaired again unless the splice saved nothing. *)
compact_if_needed(ms) ==
    LET repaired == validate_and_repair(ms)
        Spliced(r) == apply_message_summary(validate_and_repair(repaired), r[1], r[2])
    IN  {repaired}
        \cup {Spliced(r) : r \in select_summary_range(repaired)}
        \cup {validate_and_repair(Spliced(r)) : r \in select_summary_range(repaired)}

(* The one-shot nudge to stop reading and write. *)
ImplementNowFires == run.explored >= ImplementNow /\ ~run.wrote /\ ~run.latched

(* A request is prepared: cancellation, the implement-now steering, repair
   and compaction. *)
RunSamplingRequest ==
    /\ pc = "sample"
    /\ \/ /\ cancelled
          /\ Finish("cancelled")
          /\ UNCHANGED <<messages, run, pump, client>>
       \/ /\ ~cancelled
          /\ run' = [run EXCEPT !.latched = @ \/ ImplementNowFires, !.requests = @ + 1]
          /\ messages' \in compact_if_needed(
               IF ImplementNowFires THEN append_warning(messages, "implement_now") ELSE messages)
          /\ pc' = "open"
          /\ pump' = FreshPump
          /\ client' = 0
          /\ UNCHANGED <<turn, result>>
    /\ UNCHANGED <<queueVars, taken>>

-----------------------------------------------------------------------------
(* run_stream_pump: attempts *)

(* The request fails for good; the loop reports it and breaks. *)
PumpError ==
    /\ Finish("llm_error")
    /\ pump' = [pump EXCEPT !.how = "error", !.stream = FreshStream]

PumpCancelled ==
    /\ Finish("cancelled")
    /\ pump' = [pump EXCEPT !.how = "cancelled", !.stream = FreshStream]

\* Mutant: the client is not told to drop what the failed attempt showed.
RetryKeepsShown(shown) ==
    IF pump.attempt < MaxRetries
    THEN /\ pump' = [pump EXCEPT !.attempt = @ + 1, !.reset = 0, !.stream = FreshStream]
         /\ pc' = "open"
         /\ UNCHANGED <<turn, result>>
    ELSE PumpError

\* Mutant: retries are not counted.
RetryForever(shown) ==
    /\ pump' = [pump EXCEPT !.reset = shown, !.stream = FreshStream]
    /\ pc' = "open"
    /\ UNCHANGED <<turn, result>>

(* An attempt failed in a way that may be replayed: try again, or give up
   when the budget is spent.  shown is what the client has of it. *)
Retry(shown) ==
    IF pump.attempt < MaxRetries
    THEN /\ pump' = [pump EXCEPT !.attempt = @ + 1, !.reset = shown, !.stream = FreshStream]
         /\ pc' = "open"
         /\ UNCHANGED <<turn, result>>
    ELSE PumpError

(* The client drops the pieces of the failed attempt. *)
StreamReset == client' = IF client < pump.reset THEN 0 ELSE client - pump.reset

(* One attempt: wait out the backoff, reset the client, open the stream. *)
OpenStream ==
    /\ pc = "open"
    /\ \/ cancelled /\ PumpCancelled /\ UNCHANGED client
       \/ /\ ~cancelled
          /\ StreamReset
          /\ \/ /\ pc' = "stream"
                /\ pump' = [pump EXCEPT !.reset = 0]
                /\ UNCHANGED <<turn, result>>
             \/ Retry(0)
             \/ PumpError
    /\ UNCHANGED <<queueVars, messages, taken, run>>

-----------------------------------------------------------------------------
(* drive_stream: the events of one attempt *)

stream == pump.stream

Streaming == pc = "stream" /\ ~cancelled

(* Bound: one block of text per reply, before its calls. *)
MaySpeak == Streaming /\ ~stream.text /\ stream.seen = <<>>

(* A piece of text arrives before its block closes. *)
TextDelta ==
    /\ MaySpeak
    /\ ~stream.inBlock
    /\ pump' = [pump EXCEPT !.stream.inBlock = TRUE, !.stream.shown = @ + 1]
    /\ client' = client + 1
    /\ UNCHANGED <<queueVars, pc, messages, taken, turn, run, result>>

(* A text block closes; it is shown now unless its pieces already were. *)
MessageDone ==
    /\ MaySpeak
    /\ pump' = [pump EXCEPT !.stream.text = TRUE,
                            !.stream.inBlock = FALSE,
                            !.stream.shown = IF stream.inBlock THEN @ ELSE @ + 1]
    /\ client' = IF stream.inBlock THEN client ELSE client + 1
    /\ UNCHANGED <<queueVars, pc, messages, taken, turn, run, result>>

(* Bounds: an input counts like a call, but a stop may come during any reply
   that started within the bound. *)
WithinEffort(calls) == Len(pushed) + calls < MaxEffort

MayPush(s) ==
    sender[s] = "idle" =>
      WithinEffort(IF s \in Cancellers THEN run.tools ELSE run.tools + Len(stream.seen))

(* The model may call another tool in this reply. *)
MayCall == /\ Streaming
           /\ ~stream.inBlock
           /\ Len(stream.seen) < MaxCalls
           /\ WithinEffort(run.tools + Len(stream.seen))

(* A call answered on the spot, without running a tool. *)
Answered(str, kind, answer) ==
    [str EXCEPT !.seen = Append(@, kind),
                !.ready = Append(@, [at |-> Len(str.seen) + 1, value |-> answer])]

(* A malformed call is answered with its parse error. *)
InvalidToolUse ==
    /\ MayCall
    /\ pump' = [pump EXCEPT !.stream = Answered(stream, "edit", "error")]
    /\ UNCHANGED <<queueVars, pc, messages, taken, turn, run, client, result>>

(* partition_circling_duplicate_reads: reads are refused once the model was
   told to implement and has written nothing. *)
Circling(kind) == kind = "read" /\ run.latched /\ ~run.wrote

(* A call is refused, served from the cache, or queued to run; then pending
   inputs are drained into the history (not after a refusal). *)
ToolUse ==
    /\ MayCall
    /\ \E kind \in ToolKinds :
         \/ /\ Circling(kind)
            /\ pump' = [pump EXCEPT !.stream = Answered(stream, kind, "error")]
            /\ UNCHANGED <<queueVars, pc, taken>>
         \/ /\ ~Circling(kind)
            /\ IF kind = "read" /\ run.cache # "none"
               THEN pump' = [pump EXCEPT !.stream = Answered(stream, kind, run.cache)]
               ELSE pump' = [pump EXCEPT
                      !.stream.seen = Append(@, kind),
                      !.stream.spawned = Append(@, Len(stream.seen) + 1)]
            /\ IF hasPending
               THEN taken' = inbox /\ DrainTakes /\ pc' = "pump_apply"
               ELSE UNCHANGED <<queueVars, pc, taken>>
    /\ UNCHANGED <<messages, turn, run, client, result>>

(* The inputs drained between two calls join the history at once. *)
PumpApplyInput ==
    /\ pc = "pump_apply"
    /\ DrainClears
    /\ messages' = apply_user_inputs_to_messages(messages, taken)
    /\ taken' = <<>>
    /\ pc' = "stream"
    /\ UNCHANGED <<turn, run, pump, client, result>>

(* interrupted_outcome: a closed transport or an aborted partial call is
   replayed, but only while no call was admitted. *)
StreamInterrupted ==
    /\ Streaming
    /\ \E replayable \in BOOLEAN :
         IF replayable /\ stream.seen = <<>> THEN Retry(stream.shown) ELSE PumpError
    /\ UNCHANGED <<queueVars, messages, taken, run, client>>

(* A silent stream times out; that is not retried. *)
StreamTimeout ==
    /\ Streaming
    /\ PumpError
    /\ UNCHANGED <<queueVars, messages, taken, run, client>>

(* The model finishes its reply; synthesize_response settles the stop
   reason: truncation is kept, otherwise admitted calls mean tool use. *)
Completed ==
    /\ Streaming
    /\ ~stream.inBlock
    /\ \E reason \in {"MaxTokens", "ToolUse", "EndTurn"} :
         pump' = [pump EXCEPT !.stop =
                    IF reason # "MaxTokens" /\ stream.seen # <<>> THEN "ToolUse" ELSE reason]
    /\ pc' = "drain"
    /\ UNCHANGED <<queueVars, messages, taken, turn, run, client, result>>

-----------------------------------------------------------------------------
(* drive_stream: the tools of the reply *)

ToolId(i) == run.tools + i

(* A tool runs to its outcome.  A successful edit outdates every earlier read
   of the file. *)
Execute(i) ==
    /\ i \in ToSet(stream.spawned) \ DOMAIN stream.ran
    /\ \E new \in Outcomes(stream.seen[i]) :
         LET Outdated(old) == IF new = "written" /\ old = "fresh" THEN "stale" ELSE old
         IN  /\ pump' = [pump EXCEPT !.stream.ran =
                          [j \in DOMAIN @ \cup {i} |-> IF j = i THEN new ELSE Outdated(@[j])]]
             /\ run' = [run EXCEPT !.cache = Outdated(@), !.ran = @ \cup {ToolId(i)}]
    /\ UNCHANGED <<queueVars, pc, messages, taken, turn, client, result>>

\* Mutant: tools start while the reply is still streaming.
RunToolEarly(i) == pc \in {"stream", "drain"} /\ ~cancelled /\ Execute(i)

(* Queued tools make progress only when the drain loop polls them, after the
   reply is complete; then they all run concurrently. *)
RunTool(i) == pc = "drain" /\ ~cancelled /\ Execute(i)

(* Results leave the queue in submission order: the calls answered once its
   first k results are drained. *)
Resolved(k) == {stream.ready[i].at : i \in DOMAIN stream.ready}
               \cup {stream.spawned[i] : i \in 1..k}

(* How far the drain loop may have got. *)
Drained(k) == {stream.spawned[i] : i \in 1..k} \subseteq DOMAIN stream.ran

ResultOf(i) ==
    IF i \in DOMAIN stream.ran THEN stream.ran[i]
    ELSE (CHOOSE r \in ToSet(stream.ready) : r.at = i).value

\* Mutant: a stop answers only the calls that have a result.
ResolvedOnly(k) ==
    SelectSeq([i \in DOMAIN stream.seen |->
                 [at |-> i, value |-> IF i \in Resolved(k) THEN ResultOf(i) ELSE "none"]],
              LAMBDA r : r.value # "none")

(* Calls and results in the order the model made the calls; a call without
   a result yet is answered [CANCELLED], which also stops the loop. *)
cancelled_outcome(k) ==
    [i \in DOMAIN stream.seen |->
       [at |-> i, value |-> IF i \in Resolved(k) THEN ResultOf(i) ELSE "cancelled"]]

(* update_cache: writes invalidate first, then the reads of the same batch
   are remembered. *)
update_cache ==
    LET With(values) == {i \in DOMAIN stream.ran : stream.ran[i] \in values}
        kept == IF With({"written"}) # {} THEN "none" ELSE run.cache
    IN  IF With({"fresh", "stale"}) = {} THEN kept
        ELSE stream.ran[Max(With({"fresh", "stale"}))]

-----------------------------------------------------------------------------
(* accumulate_response, dispatch and the end of run_sampling_request *)

Reply == Message("assistant",
                 [i \in DOMAIN stream.seen |-> ToolId(i)],
                 <<>>,
                 IF stream.text THEN <<"text">> ELSE <<>>)

(* guard_failed_edits: a success starts the count afresh; reading between two
   attempts does not. *)
FailedEdits(batch) ==
    LET Step(n, r) == IF n >= EditLimit THEN n
                      ELSE IF r.value = "written" THEN 0
                      ELSE IF stream.seen[r.at] = "edit" /\ r.value = "error"
                      THEN n + 1 ELSE n
    IN  FoldLeft(Step, run.failedEdits, batch)

(* track_tool_effects: reads and searches made, counted up to the threshold. *)
Explored(batch) ==
    LET reads == Cardinality({i \in DOMAIN batch : stream.seen[batch[i].at] = "read"})
    IN  IF run.explored + reads > ImplementNow THEN ImplementNow ELSE run.explored + reads

(* process_tool_results answers the calls in one user message. *)
process_tool_results(ms, batch) ==
    IF batch = <<>> THEN ms
    ELSE Append(ms, Message("user", <<>>, [i \in DOMAIN batch |-> ToolId(batch[i].at)], <<>>))

(* should_stop_for_budget: the last iteration but one, or the credits. *)
StopForBudget(creditsSpent) == creditsSpent \/ Iteration + 1 >= MaxIterations - 1

(* The reply enters the history, its batch is dispatched, and the turn loop
   decides what follows.  dispatch ignores the batch of a reply that simply
   ended; a stalled batch breaks the task. *)
Respond(stop, batch, cache) ==
    LET values  == {batch[i].value : i \in DOMAIN batch}
        replied == Append(messages, Reply)
        bail    == cancelled /\ batch = <<>>
        process == stop = "ToolUse" \/ (stop = "MaxTokens" /\ stream.seen # <<>>)
        failed  == IF process THEN FailedEdits(batch) ELSE run.failedEdits
        stalled == failed >= EditLimit
        halts   == process /\ (batch = <<>> \/ stalled \/ values \cap {"done", "cancelled"} # {})
        recover == stop = "MaxTokens" /\ ~halts /\ run.recoveries < MaxRecoveries
        done    == IF process THEN process_tool_results(replied, batch) ELSE replied
        follows == recover \/ (stop = "ToolUse" /\ ~halts)
    IN  IF bail
        THEN /\ messages' = replied
             /\ run' = [run EXCEPT !.tools = @ + Len(stream.seen)]
             /\ Finish("cancelled")
        ELSE /\ messages' = IF recover THEN Append(done, UserMessage(<<"continue">>)) ELSE done
             /\ run' = [run EXCEPT
                  !.tools = @ + Len(stream.seen),
                  !.cache = cache,
                  !.wrote = @ \/ (process /\ "written" \in values),
                  !.done = @ \/ (process /\ "done" \in values),
                  !.explored = IF process THEN Explored(batch) ELSE @,
                  !.failedEdits = failed,
                  !.truncated = (stop = "MaxTokens"),
                  !.recoveries = IF recover THEN @ + 1 ELSE @]
             /\ \/ stalled /\ Finish("stalled")
                \/ /\ ~stalled /\ follows
                   /\ \E creditsSpent \in BOOLEAN :
                        IF StopForBudget(creditsSpent)
                        THEN Finish("timed_out")
                        ELSE /\ pc' = "turn_top"
                             /\ turn' = [turn EXCEPT !.count = @ + 1, !.visible = @ \/ HasContent(Reply)]
                             /\ UNCHANGED result
                \/ /\ ~stalled /\ ~follows
                   /\ pc' = "turn_end"
                   /\ turn' = [turn EXCEPT !.count = @ + 1, !.visible = @ \/ HasContent(Reply)]
                   /\ UNCHANGED result

(* The pump is done and its locals are gone. *)
PumpReplied == pump' = [FreshPump EXCEPT !.how = "replied"]

(* A stop during the stream: nothing admitted leaves nothing behind. *)
StreamCancelled ==
    /\ pc = "stream" /\ cancelled
    /\ IF stream.seen = <<>>
       THEN PumpCancelled /\ UNCHANGED <<messages, run>>
       ELSE Respond("ToolUse", cancelled_outcome(0), run.cache) /\ PumpReplied
    /\ UNCHANGED <<queueVars, taken, client>>

(* A stop while tools run: the results not drained yet are dropped. *)
DrainCancelled ==
    /\ pc = "drain" /\ cancelled
    /\ \E k \in 0..(Len(stream.spawned) - 1) :
         Drained(k) /\ Respond("ToolUse", cancelled_outcome(k), run.cache)
    /\ PumpReplied
    /\ UNCHANGED <<queueVars, taken, client>>

(* Every tool has answered. *)
DrainDone ==
    /\ pc = "drain"
    /\ Drained(Len(stream.spawned))
    /\ Respond(pump.stop, cancelled_outcome(Len(stream.spawned)), update_cache)
    /\ PumpReplied
    /\ UNCHANGED <<queueVars, taken, client>>

-----------------------------------------------------------------------------
(* The end of a turn and of the task *)

(* The text of the last assistant message. *)
LastText ==
    LET spoken == {i \in DOMAIN messages : messages[i].role = "assistant"}
    IN  IF spoken # {} /\ messages[Max(spoken)].notes # <<>> THEN TextKinds ELSE {"none"}

NoOp == ~turn.visible /\ ~run.wrote /\ ~run.done

(* The recoveries the reply calls for: an announced action not taken, tool
   markup leaked into the text, or nothing at all. *)
Nudges(text) == (IF text = "promise" /\ ~run.done THEN {"unfinished"} ELSE {})
                \cup (IF text = "markup" THEN {"markup"} ELSE {})
                \cup (IF NoOp THEN {"no_op"} ELSE {})

(* The model stopped: pending input goes on, exhausted truncation gives up,
   one nudge of each kind retries, and otherwise the turn is over. *)
TurnStops ==
    /\ pc = "turn_end"
    /\ \/ /\ hasPending
          /\ pc' = "turn_top"
          /\ UNCHANGED <<messages, turn, result>>
       \/ /\ ~hasPending /\ run.truncated
          /\ Finish("truncated")
          /\ UNCHANGED messages
       \/ /\ ~hasPending /\ ~run.truncated
          /\ \E text \in LastText : \E nudge \in Nudges(text) \ turn.nudged :
               /\ turn' = [turn EXCEPT !.nudged = @ \cup {nudge}]
               /\ messages' = append_warning(messages, "nudge")
          /\ pc' = "turn_top"
          /\ UNCHANGED result
       \/ /\ ~hasPending /\ ~run.truncated
          /\ \E text \in LastText : Nudges(text) \subseteq turn.nudged
          /\ pc' = "task_end"
          /\ UNCHANGED <<messages, turn, result>>
    /\ UNCHANGED <<queueVars, taken, run, pump, client>>

(* run_task: a cleanly ended turn is followed by another only for pending
   input, within the task's ceilings. *)
TurnEnded ==
    /\ pc = "task_end"
    /\ IF ~hasPending THEN Finish("completed")
       ELSE IF turn.index + 1 >= MaxTurns THEN Finish("TurnBudgetExceeded")
       ELSE IF Iteration >= MaxTaskIterations THEN Finish("IterationBudgetExceeded")
       ELSE pc' = "turn_top" /\ turn' = FreshTurn(turn.index + 1, Iteration) /\ UNCHANGED result
    /\ UNCHANGED <<queueVars, messages, taken, run, pump, client>>

-----------------------------------------------------------------------------
Step ==
    \/ DrainPendingInput \/ ApplyInput \/ RunSamplingRequest
    \/ OpenStream
    \/ TextDelta \/ MessageDone \/ InvalidToolUse \/ ToolUse \/ PumpApplyInput
    \/ StreamInterrupted \/ StreamTimeout \/ Completed
    \/ \E i \in 1..MaxCalls : RunTool(i)
    \/ StreamCancelled \/ DrainCancelled \/ DrainDone
    \/ TurnStops \/ TurnEnded

User ==
    /\ pc # "ended"
    /\ \E s \in Senders : MayPush(s) /\ Push(s)
    /\ UNCHANGED loopVars

(* A task that is over stays over; stopping anywhere else is a deadlock. *)
Ended == pc = "ended" /\ UNCHANGED vars

Next == Step \/ User \/ Ended

(* The thread that runs the task keeps taking steps until the task is over. *)
Fairness == []<><<Step>>_vars \/ <>(pc = "ended")

Spec == Init /\ [][Next]_vars /\ Fairness

-----------------------------------------------------------------------------
(* Properties *)

(* Between requests, and however the task ends - completed, out of budget,
   stopped during a stream or while tools ran - every tool call in the
   transcript is answered in the message after it and every result answers a
   call of the message before: the next request will be accepted. *)
TranscriptPaired ==
    pc \in {"turn_top", "apply", "sample", "turn_end", "task_end", "ended"} => Paired(messages)

Steers(ms) ==
    LET notes == FlattenSeq([i \in DOMAIN ms |-> ms[i].notes])
    IN  SelectSeq(notes, LAMBDA n : n \in Senders)

(* What the user sends is neither lost, duplicated nor reordered: the inputs in
   the transcript, then those drained, then those buffered are the inputs
   pushed, in-band cancels left out. *)
InputsKept ==
    LET Said(inputs) == SelectSeq(inputs, LAMBDA s : s \notin Cancellers)
    IN  Steers(messages) \o Said(taken) \o Said(inbox) = Said(pushed)

(* No tool runs behind the transcript's back: once a request is over - replied,
   failed, timed out or cancelled - every tool that ran has its call and a
   result in the history. *)
RanIsRecorded ==
    pc \notin {"open", "stream", "pump_apply", "drain"} =>
      \A t \in run.ran : \E i \in DOMAIN messages : t \in ToSet(messages[i].results)

(* The user's screen shows the reply and nothing of the attempts that were
   replayed. *)
ClientShowsReply == pc = "stream" => client = stream.shown

(* max_iterations is a ceiling on model requests for the whole task, across its
   turns, nudges, recoveries and steered inputs. *)
WithinBudget == run.requests <= MaxIterations

(* A task ends: retries, nudges, output recoveries and turns are all bounded,
   whatever the model and the tools answer, as long as they answer. *)
TaskEnds == <>(pc = "ended")

(* The lock-free probe agrees with the buffer while nobody is inside a push or
   a drain. *)
FlagReflectsBuffer ==
    (pc \notin {"apply", "pump_apply"} /\ \A s \in Senders : sender[s] # "flagging")
      => hasPending = (inbox # <<>>)

(* A batch in which a write succeeded leaves no outdated read in the cache. *)
CacheIsFresh ==
    [][(/\ pc = "drain" /\ pc' # "drain"
        /\ \E i \in DOMAIN stream.ran : stream.ran[i] = "written")
         => run'.cache # "stale"]_vars
=============================================================================
