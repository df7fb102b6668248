---------------------------- MODULE ToolPipeline ----------------------------
(***************************************************************************)
(* The tool calls of one chat session: the kernel's propose / decide /      *)
(* execute pipeline, the live approval broker and the agent loop that runs  *)
(* calls concurrently.                                                      *)
(*                                                                          *)
(* Every turn builds a fresh kernel, with the user's stored defaults as of  *)
(* that moment and an empty table of session decisions.  The stream pump    *)
(* starts one Kernel::process_tools future per tool call of a response; a   *)
(* caller may also hand over several proposals at once.  A batch below is   *)
(* one such future.  The futures of a turn share one task, so a step here   *)
(* is what runs between two awaits, cut where a crash or a refused append   *)
(* can separate two effects.                                                *)
(*                                                                          *)
(* An append is refused when another writer of the agent's log took the     *)
(* sequence number in between (RecordLog has that race in detail).          *)
(***************************************************************************)
EXTENDS Integers, Sequences, FiniteSets

CONSTANTS
    Tools,          \* tool names, standing for a tool with its arguments
    Barred,         \* denied by the mode, capability or scope gate
    Integrated,     \* tools that require an installed integration
    Override,       \* AgentToolPermissions: some tools -> on / off / ask
    Defaults,       \* the UserToolDefaults a user may have or PUT
    HasPrompter,    \* the session has an approval broker
    Hooks,          \* plugin hooks are attached to the kernel
    PerToolTimeout, \* AgentLoopConfig::per_tool_timeout
    ApprovalWindow, \* TOOL_APPROVAL_NO_CLIENT_TIMEOUT
    MaxBatches,     \* bound: process_tools futures
    MaxSlots,       \* bound: proposals per batch
    MaxCalls,       \* bound: proposals of all batches
    MaxTurns,       \* bound: turns of the session
    MaxUpsets       \* bound: outside writes, refused appends, cancellations, crashes

States == {"allow", "deny", "ask"}
Remembers == {"once", "session", "forever"}
Answers == [decision: {"allow", "deny"}, remember: Remembers]
NoAnswer == [decision |-> "none", remember |-> "none"]
Batches == 1..MaxBatches
Calls == Batches \X (1..MaxSlots)

ASSUME PipelineAssumption ==
    /\ Barred \subseteq Tools /\ Integrated \subseteq Tools
    /\ Override \in [DOMAIN Override -> States] /\ DOMAIN Override \subseteq Tools
    /\ Defaults \subseteq [Tools -> States] /\ Defaults # {}
    /\ HasPrompter \in BOOLEAN /\ Hooks \in BOOLEAN
    /\ PerToolTimeout \in Nat /\ ApprovalWindow \in Nat
    /\ MaxBatches \in Nat /\ MaxSlots \in Nat /\ MaxCalls \in Nat
    /\ MaxTurns \in Nat /\ MaxUpsets \in Nat

VARIABLES
    log,       \* the agent's tool entries, in order
    stored,    \* UserToolDefaults in the store
    installed, \* the integration is in the stored runtime capabilities
    \* the turn and its kernel:
    turn,      \* number of the turn, 0 before the first
    live,      \* a turn is running
    config,    \* PolicyConfig::user_default of the turn's kernel
    session,   \* Policy::session_tool_states of the turn's kernel
    \* the broker:
    pending,   \* calls with an entry in ToolApprovalBroker::pending
    answer,    \* the response sent to a waiting call
    \* per batch:
    pc, batch, slot,
    snap,      \* runtime capabilities loaded when the batch began
    turnOf,    \* the turn it belongs to
    \* per call:
    at,        \* sequence number of its latest entry
    verdict,   \* PolicyEvaluation::verdict, once decided
    effect,    \* its executor: none, running, done, timeout, or blocked by a hook
    started,   \* calls whose executor was invoked
    upsets

kernel == <<turn, live, config, session>>
broker == <<pending, answer>>
frame == <<batch, snap, turnOf>>
exec == <<effect, started>>
vars == <<log, stored, installed, kernel, broker, pc, slot, frame, at, verdict, exec, upsets>>

Here(b) == <<b, slot[b]>>
Tool(c) == batch[c[1]][c[2]]
Active == {"propose", "authorize", "prompt", "workspace", "run"}
Approved(b) == {i \in 1..Len(batch[b]) : verdict[<<b, i>>] = "allow"}

Entry(kind, c, v, by, remember, ref) ==
    [kind |-> kind, call |-> c, verdict |-> v, by |-> by, remember |-> remember, ref |-> ref]

----------------------------------------------------------------------------
Init ==
    /\ log = <<>>
    /\ stored \in Defaults
    /\ installed \in BOOLEAN
    /\ turn = 0 /\ live = FALSE
    /\ config = stored
    /\ session = [t \in Tools |-> "none"]
    /\ pending = {} /\ answer = [c \in Calls |-> NoAnswer]
    /\ pc = [b \in Batches |-> "unused"]
    /\ batch = [b \in Batches |-> <<>>]
    /\ slot = [b \in Batches |-> 1]
    /\ snap = [b \in Batches |-> FALSE]
    /\ turnOf = [b \in Batches |-> 0]
    /\ at = [c \in Calls |-> 0]
    /\ verdict = [c \in Calls |-> "none"]
    /\ effect = [c \in Calls |-> "none"]
    /\ started = {}
    /\ upsets = 0

\* prepare_turn: build_kernel_with_config reads the defaults and makes a new
\* Policy, whose table of session decisions is empty.
StartTurn ==
    /\ ~live /\ turn < MaxTurns
    /\ turn' = turn + 1 /\ live' = TRUE
    /\ config' = stored
    /\ session' = [t \in Tools |-> "none"]
    /\ UNCHANGED <<log, stored, installed, broker, pc, slot, frame, at, verdict, exec, upsets>>

\* process_many on a non-empty list: load_runtime_capabilities, once.
Launch(b, tools) ==
    /\ live /\ pc[b] = "unused"
    /\ \A d \in Batches : d < b => pc[d] # "unused"
    /\ Len(tools) + Cardinality({c \in Calls : c[2] \in DOMAIN batch[c[1]]}) <= MaxCalls
    /\ batch' = [batch EXCEPT ![b] = tools]
    /\ snap' = [snap EXCEPT ![b] = installed]
    /\ turnOf' = [turnOf EXCEPT ![b] = turn]
    /\ pc' = [pc EXCEPT ![b] = "propose"]
    /\ UNCHANGED <<log, stored, installed, kernel, broker, slot, at, verdict, exec, upsets>>

----------------------------------------------------------------------------
(* Recording.                                                               *)

\* append_tool_entry fails: process_many returns the error and drops the rest.
Refuse(b) ==
    /\ upsets < MaxUpsets
    /\ upsets' = upsets + 1
    /\ pc' = [pc EXCEPT ![b] = "failed"]
    /\ UNCHANGED <<log, slot, at, verdict>>

\* record_tool_proposal
RecordProposal(b) ==
    /\ pc[b] = "propose"
    /\ \/ /\ log' = Append(log, Entry("proposal", Here(b), "none", "none", "none", 0))
          /\ at' = [at EXCEPT ![Here(b)] = Len(log) + 1]
          /\ pc' = [pc EXCEPT ![b] = "authorize"]
          /\ UNCHANGED <<slot, verdict, upsets>>
       \/ Refuse(b)
    /\ UNCHANGED <<stored, installed, kernel, broker, frame, exec>>

\* Mutant: the verdict is acted on but not recorded.
DecideUnlogged(b, v, by, remember) ==
    /\ verdict' = [verdict EXCEPT ![Here(b)] = v]
    /\ pc' = [pc EXCEPT ![b] = "workspace"]
    /\ UNCHANGED <<log, at, slot, upsets>>

\* Mutant: the batch is dispatched after its first decision.
DecideEager(b, v, by, remember) ==
    /\ log' = Append(log, Entry("decision", Here(b), v, by, remember, at[Here(b)]))
    /\ at' = [at EXCEPT ![Here(b)] = Len(log) + 1]
    /\ verdict' = [verdict EXCEPT ![Here(b)] = v]
    /\ pc' = [pc EXCEPT ![b] = "workspace"]
    /\ UNCHANGED <<slot, upsets>>

\* The tail of authorize_tool_proposal: append the PolicyDecision entry, then
\* go on to the batch's next proposal.
Decide(b, v, by, remember) ==
    \/ /\ log' = Append(log, Entry("decision", Here(b), v, by, remember, at[Here(b)]))
       /\ at' = [at EXCEPT ![Here(b)] = Len(log) + 1]
       /\ verdict' = [verdict EXCEPT ![Here(b)] = v]
       /\ IF slot[b] < Len(batch[b])
          THEN /\ slot' = [slot EXCEPT ![b] = @ + 1]
               /\ pc' = [pc EXCEPT ![b] = "propose"]
          ELSE /\ slot' = [slot EXCEPT ![b] = 1]
               /\ pc' = [pc EXCEPT ![b] = "workspace"]
       /\ UNCHANGED upsets
    \/ Refuse(b)

----------------------------------------------------------------------------
(* Policy.                                                                  *)

\* resolve_effective_permission
resolve_tool_state(t) == IF t \in DOMAIN Override THEN Override[t] ELSE config[t]

\* Mutant: the on / off / ask state is consulted before the gates.
PolicyAskFirst(b, t) ==
    IF resolve_tool_state(t) = "ask" /\ session[t] = "none" THEN <<"prompt", "tool_state">>
    ELSE IF t \in Barred THEN <<"deny", "gate">>
    ELSE <<"allow", "tool_state">>

\* Mutant: any remembered decision counts as a grant.
PolicyGrantBlind(b, t) ==
    IF session[t] # "none" THEN <<"allow", "session_grant">>
    ELSE IF resolve_tool_state(t) # "ask" THEN <<resolve_tool_state(t), "tool_state">>
    ELSE <<"prompt", "tool_state">>

\* evaluate_proposal followed by live_tool_prompt_explained: the hard gates
\* first, then the session's decision, then the tool's on / off / ask state.
Policy(b, t) ==
    IF t \in Barred THEN <<"deny", "gate">>
    ELSE IF t \in Integrated /\ ~snap[b] THEN <<"deny", "integration">>
    ELSE IF session[t] # "none" THEN <<session[t], "session_grant">>
    ELSE IF resolve_tool_state(t) # "ask" THEN <<resolve_tool_state(t), "tool_state">>
    ELSE IF HasPrompter THEN <<"prompt", "tool_state">>
    ELSE <<"deny", "no_live_session">>

\* authorize_tool_proposal: decided by policy, decided by a PermissionRequest
\* hook, or put to the user through the broker.
Authorize(b) ==
    /\ pc[b] = "authorize"
    /\ LET p == Policy(b, Tool(Here(b))) IN
       \/ /\ p[1] # "prompt"
          /\ Decide(b, p[1], p[2], "none")
          /\ UNCHANGED pending
       \/ /\ p[1] = "prompt" /\ Hooks
          /\ \E v \in {"allow", "deny"} : Decide(b, v, "permission_hook", "none")
          /\ UNCHANGED pending
       \/ /\ p[1] = "prompt"
          /\ pending' = pending \cup {Here(b)}
          /\ pc' = [pc EXCEPT ![b] = "prompt"]
          /\ UNCHANGED <<log, at, verdict, slot, upsets>>
    /\ UNCHANGED <<stored, installed, kernel, answer, frame, exec>>

----------------------------------------------------------------------------
(* The approval broker.                                                     *)

Waiting(b) == pc[b] = "prompt" /\ answer[Here(b)] = NoAnswer

\* ToolApprovalBroker::respond: takes the entry out of the registry; when the
\* prompt's future is gone the answer goes nowhere.
Respond(c, a) ==
    /\ c \in pending
    /\ pending' = pending \ {c}
    /\ answer' = IF pc[c[1]] = "prompt" /\ c = Here(c[1])
                 THEN [answer EXCEPT ![c] = a] ELSE answer
    /\ UNCHANGED <<log, stored, installed, kernel, pc, slot, frame, at, verdict, exec, upsets>>

\* Mutant: an answer for this call only is remembered too.
ApplyOnce(t, a) ==
    /\ session' = [session EXCEPT ![t] = a.decision]
    /\ UNCHANGED stored

\* apply_live_approval_response.  "forever" writes the whole defaults record,
\* folded into the ones the kernel was configured with.
Apply(t, a) ==
    /\ session' = IF a.remember = "once" THEN session
                  ELSE [session EXCEPT ![t] = a.decision]
    /\ stored' = IF a.remember = "forever" THEN [config EXCEPT ![t] = a.decision]
                 ELSE stored

\* resolve_prompt receives the answer.
TakeAnswer(b) ==
    /\ pc[b] = "prompt" /\ answer[Here(b)] # NoAnswer
    /\ LET a == answer[Here(b)] IN
       /\ Apply(Tool(Here(b)), a)
       /\ Decide(b, a.decision, "user", a.remember)
    /\ answer' = [answer EXCEPT ![Here(b)] = NoAnswer]
    /\ UNCHANGED <<installed, turn, live, config, pending, frame, exec>>

\* Nobody answered within the approval window: denied once, in the user's name.
\* The per-tool timer started earlier, so it must be the longer one.
AutoDeny(b) ==
    /\ Waiting(b) /\ ApprovalWindow < PerToolTimeout
    /\ pending' = pending \ {Here(b)}
    /\ Decide(b, "deny", "user", "once")
    /\ UNCHANGED <<stored, installed, kernel, answer, frame, exec>>

\* The prompt cannot be delivered, or a "forever" answer cannot be stored:
\* process_many returns the error.
PromptFails(b) ==
    /\ pc[b] = "prompt" /\ answer[Here(b)].remember \in {"none", "forever"}
    /\ pending' = pending \ {Here(b)}
    /\ answer' = [answer EXCEPT ![Here(b)] = NoAnswer]
    /\ pc' = [pc EXCEPT ![b] = "failed"]
    /\ UNCHANGED <<log, stored, installed, kernel, slot, frame, at, verdict, exec, upsets>>

----------------------------------------------------------------------------
(* Execution.                                                               *)

\* create_dir_all, the PreToolUse hook for each approved call, and join_all
\* over the calls no hook blocked.
Dispatch(b) ==
    /\ pc[b] = "workspace"
    /\ \E blocked \in SUBSET Approved(b) :
         /\ Hooks \/ blocked = {}
         /\ effect' = [c \in Calls |->
                IF c[1] = b /\ c[2] \in blocked THEN "blocked"
                ELSE IF c[1] = b /\ c[2] \in Approved(b) THEN "running" ELSE effect[c]]
         /\ started' = started \cup ({b} \X (Approved(b) \ blocked))
    /\ pc' = [pc EXCEPT ![b] = "run"]
    /\ UNCHANGED <<log, stored, installed, kernel, broker, slot, frame, at, verdict, upsets>>

WorkspaceFails(b) ==
    /\ pc[b] = "workspace"
    /\ pc' = [pc EXCEPT ![b] = "failed"]
    /\ UNCHANGED <<log, stored, installed, kernel, broker, slot, frame, at, verdict, exec, upsets>>

\* execute_with_timeout: the executor returns, or its time is up and a failed
\* effect stands in for its result.
Finish(c) ==
    /\ pc[c[1]] = "run" /\ effect[c] = "running"
    /\ \E r \in {"done", "timeout"} : effect' = [effect EXCEPT ![c] = r]
    /\ UNCHANGED <<log, stored, installed, kernel, broker, pc, slot, frame, at, verdict, started, upsets>>

Joined(b) == \A i \in 1..Len(batch[b]) : effect[<<b, i>>] # "running"

\* Mutant: the pairing loop expects an effect for a denied proposal too.
RecordExecutionUnpaired(b) ==
    /\ pc[b] = "run" /\ Joined(b)
    /\ slot[b] \in Approved(b)
    /\ log' = Append(log, Entry("execution", Here(b), effect[Here(b)], "none", "none", at[Here(b)]))
    /\ at' = [at EXCEPT ![Here(b)] = Len(log) + 1]
    /\ IF slot[b] < Len(batch[b])
       THEN slot' = [slot EXCEPT ![b] = @ + 1] /\ UNCHANGED pc
       ELSE pc' = [pc EXCEPT ![b] = "done"] /\ UNCHANGED slot
    /\ UNCHANGED <<stored, installed, kernel, broker, frame, exec, verdict, upsets>>

\* The pairing loop: record_tool_execution for the next slot, if approved.
RecordExecution(b) ==
    /\ pc[b] = "run" /\ Joined(b)
    /\ \/ /\ IF slot[b] \in Approved(b)
             THEN /\ log' = Append(log, Entry("execution", Here(b), effect[Here(b)],
                                              "none", "none", at[Here(b)]))
                  /\ at' = [at EXCEPT ![Here(b)] = Len(log) + 1]
             ELSE UNCHANGED <<log, at>>
          /\ IF slot[b] < Len(batch[b])
             THEN slot' = [slot EXCEPT ![b] = @ + 1] /\ UNCHANGED pc
             ELSE pc' = [pc EXCEPT ![b] = "done"] /\ UNCHANGED slot
          /\ UNCHANGED <<verdict, upsets>>
       \/ slot[b] \in Approved(b) /\ Refuse(b)
    /\ UNCHANGED <<stored, installed, kernel, broker, frame, exec>>

----------------------------------------------------------------------------
(* The agent loop, the HTTP API and the process around it.                  *)

\* The future is not yet polled, or suspended at an await.
Suspended(b) ==
    \/ pc[b] \in {"propose", "run"} /\ slot[b] = 1
    \/ pc[b] \in {"prompt", "workspace"}

\* spawn_tool_with_timeout gives up on a call: its future is dropped wherever
\* it is suspended, unless what it waits for has arrived (tokio polls it first).
\* A prompt may be cut short even when its window is the shorter of the two: the
\* batch's hooks and earlier prompts have used up some of the time.  The broker
\* keeps a dropped prompt's registry entry.
PerToolTimeoutFires(b) ==
    /\ \/ Waiting(b)
       \/ pc[b] = "workspace"
       \/ pc[b] = "run" /\ ~Joined(b)
    /\ pc' = [pc EXCEPT ![b] = "dropped"]
    /\ answer' = [c \in Calls |-> IF c[1] = b THEN NoAnswer ELSE answer[c]]
    /\ UNCHANGED <<log, stored, installed, kernel, pending, slot, frame, at, verdict, exec, upsets>>

DropAll ==
    /\ live' = FALSE
    /\ pc' = [b \in Batches |-> IF pc[b] \in Active THEN "dropped" ELSE pc[b]]
    /\ answer' = [c \in Calls |-> NoAnswer]

\* The user stops the turn: the pump drops the futures in flight.
Cancel ==
    /\ live /\ upsets < MaxUpsets
    /\ \A b \in Batches : pc[b] \in Active => Suspended(b)
    /\ upsets' = upsets + 1
    /\ DropAll
    /\ UNCHANGED <<log, stored, installed, turn, config, session, pending, slot, frame,
                   at, verdict, exec>>

EndTurn ==
    /\ live /\ \A b \in Batches : pc[b] \notin Active
    /\ live' = FALSE
    /\ UNCHANGED <<log, stored, installed, turn, config, session, broker, pc, slot, frame,
                   at, verdict, exec, upsets>>

\* PUT of the user's defaults: replaces the stored record.
PutDefaults(d) ==
    /\ upsets < MaxUpsets
    /\ upsets' = upsets + 1
    /\ stored' = d
    /\ UNCHANGED <<log, installed, kernel, broker, pc, slot, frame, at, verdict, exec>>

\* Another session of the agent starts: SessionStart clears the stored runtime
\* capabilities and record_runtime_capabilities installs its own.
Reinstall(i) ==
    /\ upsets < MaxUpsets
    /\ upsets' = upsets + 1
    /\ installed' = i
    /\ UNCHANGED <<log, stored, kernel, broker, pc, slot, frame, at, verdict, exec>>

Crash ==
    /\ upsets < MaxUpsets
    /\ upsets' = upsets + 1
    /\ DropAll
    /\ pending' = {}
    /\ UNCHANGED <<log, stored, installed, turn, config, session, slot, frame, at, verdict,
                   exec>>

Step(b) ==
    \/ RecordProposal(b) \/ Authorize(b) \/ TakeAnswer(b) \/ AutoDeny(b)
    \/ Dispatch(b) \/ RecordExecution(b)

BatchesOf(n) == UNION {[1..k -> Tools] : k \in 1..n}

Next ==
    \/ StartTurn \/ EndTurn \/ Cancel \/ Crash
    \/ \E d \in Defaults : PutDefaults(d)
    \/ \E i \in BOOLEAN : Reinstall(i)
    \/ \E c \in Calls : Finish(c) \/ \E a \in Answers : Respond(c, a)
    \/ \E b \in Batches :
         \/ \E tools \in BatchesOf(MaxSlots) : Launch(b, tools)
         \/ Step(b) \/ PromptFails(b) \/ WorkspaceFails(b) \/ PerToolTimeoutFires(b)

Spec == Init /\ [][Next]_vars

\* The runtime polls a future whose await is ready, and its timers fire: the
\* executor's, the approval window and the per-tool timeout.  Nobody has to answer a prompt.
FairSpec ==
    /\ Spec
    /\ \A b \in Batches : WF_vars(Step(b)) /\ WF_vars(PerToolTimeoutFires(b))
    /\ \A c \in Calls : WF_vars(Finish(c))

----------------------------------------------------------------------------
Verdicts == {"none", "allow", "deny", "done", "timeout", "blocked"}
Sources == {"none", "gate", "integration", "session_grant", "tool_state",
            "no_live_session", "permission_hook", "user"}
Entries == [kind: {"proposal", "decision", "execution"}, call: Calls, verdict: Verdicts,
            by: Sources, remember: Remembers \cup {"none"}, ref: Nat]

(* Every variable keeps its shape.                                          *)
TypeOK ==
    /\ log \in Seq(Entries)
    /\ stored \in [Tools -> States] /\ config \in [Tools -> States]
    /\ session \in [Tools -> {"none", "allow", "deny"}]
    /\ installed \in BOOLEAN /\ live \in BOOLEAN /\ turn \in Nat
    /\ pending \subseteq Calls
    /\ answer \in [Calls -> Answers \cup {NoAnswer}]
    /\ pc \in [Batches -> Active \cup {"unused", "failed", "dropped", "done"}]
    /\ batch \in [Batches -> Seq(Tools)]
    /\ slot \in [Batches -> Nat]
    /\ snap \in [Batches -> BOOLEAN]
    /\ turnOf \in [Batches -> Nat]
    /\ at \in [Calls -> Nat]
    /\ verdict \in [Calls -> {"none", "allow", "deny"}]
    /\ effect \in [Calls -> {"none", "running", "done", "timeout", "blocked"}]
    /\ started \subseteq Calls

DecidedAt(i, c, v) == log[i].kind = "decision" /\ log[i].call = c /\ log[i].verdict = v
RecordedDecision(c, v) == \E i \in 1..Len(log) : DecidedAt(i, c, v)

(* No executor is invoked before the call's proposal and an approving       *)
(* decision that references it are in the log, whatever prompts, hooks,     *)
(* timeouts and crashes came in between.                                    *)
RunsOnlyApproved ==
    \A c \in started : \E i \in 1..Len(log) :
        /\ DecidedAt(i, c, "allow")
        /\ log[i].ref \in 1..(i - 1)
        /\ log[log[i].ref].kind = "proposal" /\ log[log[i].ref].call = c

(* In a batch of several proposals nothing runs until every proposal of the *)
(* batch has its decision in the log (process_many decides all, then runs). *)
BatchDecidedFirst ==
    \A c \in started : \A i \in 1..Len(batch[c[1]]) :
        \E v \in {"allow", "deny"} : RecordedDecision(<<c[1], i>>, v)

(* The hard gates are final: neither a hook, nor an answer, nor a session   *)
(* decision lets a barred tool run, or one whose integration was missing    *)
(* when its batch began.                                                    *)
GatesFinal ==
    \A c \in started :
        Tool(c) \notin Barred /\ (Tool(c) \in Integrated => snap[c[1]])

(* A tool set to ask runs only with consent the log accounts for: a user or *)
(* hook approval of this very call, or an earlier approval of the tool in   *)
(* the same turn that the user asked to have remembered.                    *)
ConsentRecorded ==
    \A b \in Batches, i \in 1..MaxSlots :
        /\ <<b, i>> \in started /\ turnOf[b] = turn
        /\ resolve_tool_state(Tool(<<b, i>>)) = "ask"
        => \E k \in 1..Len(log) :
             /\ log[k].kind = "decision" /\ log[k].verdict = "allow"
             /\ \/ log[k].call = <<b, i>> /\ log[k].by \in {"user", "permission_hook"}
                \/ /\ log[k].by = "user" /\ log[k].remember # "once"
                   /\ Tool(log[k].call) = Tool(<<b, i>>) /\ turnOf[log[k].call[1]] = turn

(* Every execution entry follows from an approving decision of the same     *)
(* call, a call has at most one, and those of a batch are in the order of   *)
(* its proposals although the executors finish in any order.                *)
ExecutionsInOrder ==
    \A j \in 1..Len(log) : log[j].kind = "execution" =>
        /\ log[j].ref \in 1..(j - 1) /\ DecidedAt(log[j].ref, log[j].call, "allow")
        /\ \A i \in 1..(j - 1) :
             log[i].kind = "execution" /\ log[i].call[1] = log[j].call[1]
             => log[i].call[2] < log[j].call[2]

(* A decision remembered as deny is overruled only by a live answer: while  *)
(* the session holds a deny for a tool, no step approves a call to it       *)
(* except one that was already being prompted for.                          *)
SessionDenyHolds ==
    [][\A c \in Calls :
         verdict'[c] = "allow" /\ verdict[c] # "allow" /\ session[Tool(c)] = "deny"
         => pc[c[1]] = "prompt"]_vars

(* A batch that started comes to an end: no prompt and no executor holds    *)
(* the turn for ever.                                                       *)
BatchEnds == \A b \in Batches : pc[b] \in Active ~> pc[b] \notin Active

----------------------------------------------------------------------------
(* What the documents and comments say, where the code does otherwise.      *)

Ended(b) == pc[b] \in {"done", "failed", "dropped"}

(* Every call that ran and is over left its ToolExecution entry             *)
(* (docs/invariants.md, record schema version 3).                           *)
EveryRunRecorded ==
    \A c \in started : Ended(c[1]) =>
        \E i \in 1..Len(log) : log[i].kind = "execution" /\ log[i].call = c

(* A call given up on has a decision in the log: an unanswered prompt ends  *)
(* in an automatic denial (TOOL_APPROVAL_NO_CLIENT_TIMEOUT).                *)
PromptDecided ==
    \A i \in 1..Len(log) : log[i].kind = "proposal" /\ pc[log[i].call[1]] = "dropped" =>
        \E v \in {"allow", "deny"} : RecordedDecision(log[i].call, v)

(* A decision the user asked to have remembered for ever is in the stored   *)
(* defaults until another one for the same tool replaces it.                *)
RememberedForever ==
    \A i \in 1..Len(log) :
        /\ log[i].by = "user" /\ log[i].remember = "forever"
        /\ \A j \in (i + 1)..Len(log) :
             log[j].remember = "forever" => Tool(log[j].call) # Tool(log[i].call)
        => stored[Tool(log[i].call)] = log[i].verdict

(* A decision the user asked to have remembered for the session is not      *)
(* asked for again in a later turn of the session.                          *)
SessionRemembered ==
    \A b \in Batches, i \in 1..Len(log) :
        /\ pc[b] = "prompt"
        /\ log[i].by = "user" /\ log[i].remember = "session"
        /\ turnOf[log[i].call[1]] < turnOf[b]
        => Tool(log[i].call) # Tool(Here(b))
=============================================================================
