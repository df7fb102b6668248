---------------------------- MODULE AgentsProofs ----------------------------
(***************************************************************************)
(* The automatons that work through tasks (Automaton) and the agents a     *)
(* turn spawns (Lineage).                                                   *)
(*                                                                         *)
(* Automaton: for any set of starts, controls and clients, any tasks,      *)
(* capacities and faults, a task in_progress has an automaton at work on   *)
(* it, and a dev loop gives one verdict.  TasksOwned needs that an         *)
(* automaton at work has a task in hand (TaskInHand) and that nothing runs *)
(* before it is installed (RunsInstalled).  OneVerdict speaks of the end   *)
(* only; VerdictKept says what `over` and the count are on the way.        *)
(*                                                                         *)
(* Lineage: the arithmetic of permissions and modes, and that a spawned    *)
(* agent never may do more than the agents above it.                       *)
(***************************************************************************)
EXTENDS Automaton, Lineage, TLAPS

\* Most steps are first-order reasoning; the ones that need arithmetic cite SMT.
USE Zenon

\* The count follows loop_finished until on_stop, which fills in a missing verdict.
VerdictKept ==
    \A a \in DevLoops :
        /\ pc[a] \in {"report", "ended"} => verdicts[a] = 1
        /\ pc[a] \notin {"report", "ended"} => verdicts[a] = IF loop[a].over THEN 1 ELSE 0
        /\ loop[a].over => pc[a] \in {"stop", "report"}

\* An automaton runs only once it is installed.
RunsInstalled ==
    \A a \in Automata : request[a] \in {"none", "removing", "prepare"} => pc[a] = "none"

\* An automaton at work has a task in hand.
TaskInHand ==
    \A a \in Automata : pc[a] \in {"exec", "build", "settle"} => loop[a].task \in Tasks

AInv == TypeOK /\ TasksOwned /\ VerdictKept /\ RunsInstalled /\ TaskInHand

\* What AInv reads.
owned == <<request, pc, loop, status, verdicts, stuck>>

LEMMA OrderStarts == Order[1] \in Tasks
  BY AutomatonAssumption, SMT DEF Tasks

LEMMA InitEstablishes == Init => AInv
<1> SUFFICES ASSUME Init PROVE AInv
  OBVIOUS
<1>1. TypeOK
  BY SMT DEF Init, TypeOK, Idle, LoopStates
<1>2. TasksOwned
  BY DEF Init, TasksOwned
<1>3. VerdictKept
  BY DEF Init, VerdictKept, Idle, Automata
<1>4. RunsInstalled
  BY DEF Init, RunsInstalled
<1>5. TaskInHand
  BY DEF Init, TaskInHand
<1> QED
  BY <1>1, <1>2, <1>3, <1>4, <1>5 DEF AInv

\* A step that leaves alone what AInv reads.
LEMMA OthersKeep == AInv /\ UNCHANGED owned => AInv'
  BY SMT DEF AInv, TypeOK, TasksOwned, VerdictKept, RunsInstalled, TaskInHand, owned

\* A start request that moves on before its automaton is installed, or after.
LEMMA RequestsKeep ==
    ASSUME AInv, NEW a \in Automata, NEW w \in {"removing", "prepare", "over"},
           Asks(a, w), w \in {"removing", "prepare"} => pc[a] = "none",
           UNCHANGED <<pc, loop, status, verdicts, stuck>>
    PROVE  AInv'
  BY DEF AInv, TypeOK, TasksOwned, VerdictKept, RunsInstalled, TaskInHand, Asks

\* A step of automaton a takes no task from another.
LEMMA OwnersKept ==
    ASSUME TypeOK, TasksOwned, NEW a \in Automata, NEW w, Goto(a, w),
           \A b \in Automata \ {a} : loop'[b] = loop[b],
           NEW u \in Tasks \ stuck, status[u] = "in_progress",
           ~(loop[a].task = u /\ pc[a] \in {"exec", "build", "settle"})
    PROVE  \E b \in Automata : loop'[b].task = u /\ pc'[b] \in {"exec", "build", "settle"}
<1>1. PICK b \in Automata : loop[b].task = u /\ pc[b] \in {"exec", "build", "settle"}
  BY DEF TasksOwned
<1>2. b # a
  BY <1>1
<1>3. loop'[b] = loop[b] /\ pc'[b] = pc[b]
  BY <1>2 DEF Goto, TypeOK
<1> QED
  BY <1>1, <1>3

\* A step between ticks.
LEMMA MovesKeep ==
    ASSUME AInv, NEW a \in Automata,
           pc[a] \notin {"none", "exec", "build", "settle", "stop", "report", "ended"},
           NEW w \in {"unborn", "top", "check", "wait", "tick", "stop"}, Goto(a, w),
           UNCHANGED <<request, loop, status, verdicts, stuck>>
    PROVE  AInv'
<1>1. TypeOK'
  BY DEF AInv, TypeOK, Goto
<1>2. TasksOwned'
  BY SMT DEF AInv, TypeOK, TasksOwned, Goto
<1>3. VerdictKept'
  BY DEF AInv, TypeOK, VerdictKept, Goto, Automata
<1>4. RunsInstalled'
  BY DEF AInv, TypeOK, RunsInstalled, Goto
<1>5. TaskInHand'
  BY DEF AInv, TypeOK, TaskInHand, Goto
<1> QED
  BY <1>1, <1>2, <1>3, <1>4, <1>5 DEF AInv

LEMMA BridgeKeeps ==
    ASSUME AInv, NEW a \in Automata,
           \/ StartDevLoop(a) \/ RunTask(a) \/ DropStale(a) \/ PrepareFails(a) \/ Install(a)
           \/ Track(a)
    PROVE  AInv'
<1>1. CASE StartDevLoop(a)
  <2>1. PICK w \in {"removing", "prepare", "over"} : Asks(a, w)
    BY <1>1 DEF StartDevLoop
  <2> QED
    BY <1>1, <2>1, RequestsKeep DEF StartDevLoop, AInv, RunsInstalled
<1>2. CASE RunTask(a)
  BY <1>2, RequestsKeep DEF RunTask, AInv, RunsInstalled
<1>3. CASE DropStale(a)
  BY <1>3, RequestsKeep DEF DropStale, AInv, RunsInstalled
<1>4. CASE PrepareFails(a)
  BY <1>4, RequestsKeep DEF PrepareFails
<1>5. CASE Install(a)
  <2> USE <1>5 DEF Install, Goto, Asks
  <2>0. pc[a] = "none"
    BY DEF AInv, RunsInstalled
  <2>1. TypeOK'
    BY DEF AInv, TypeOK
  <2>2. TasksOwned'
    BY <2>0 DEF AInv, TypeOK, TasksOwned
  <2>3. VerdictKept'
    BY <2>0 DEF AInv, TypeOK, VerdictKept, Automata
  <2>4. RunsInstalled'
    BY DEF AInv, TypeOK, RunsInstalled
  <2>5. TaskInHand'
    BY DEF AInv, TypeOK, TaskInHand
  <2> QED
    BY <2>1, <2>2, <2>3, <2>4, <2>5 DEF AInv
<1>6. CASE Track(a)
  BY <1>6, RequestsKeep DEF Track
<1> QED
  BY <1>1, <1>2, <1>3, <1>4, <1>5, <1>6

LEMMA LoopKeeps ==
    ASSUME AInv, NEW a \in Automata,
           \/ OnInstall(a) \/ InstallFails(a) \/ LoopTop(a) \/ PausedLooks(a) \/ PausedWakes(a)
           \/ TickCancelled(a)
    PROVE  AInv'
<1> USE DEF runtime, bridge
<1>1. CASE OnInstall(a)
  BY <1>1, MovesKeep DEF OnInstall
<1>2. CASE InstallFails(a)
  BY <1>2, MovesKeep DEF InstallFails
<1>3. CASE LoopTop(a)
  <2>1. PICK w \in {"stop", "check", "tick"} : Goto(a, w)
    BY <1>3 DEF LoopTop
  <2> QED
    BY <1>3, <2>1, MovesKeep DEF LoopTop
<1>4. CASE PausedLooks(a)
  <2>1. PICK w \in {"stop", "wait"} : Goto(a, w)
    BY <1>4 DEF PausedLooks
  <2> QED
    BY <1>4, <2>1, MovesKeep DEF PausedLooks
<1>5. CASE PausedWakes(a)
  <2>1. PICK w \in {"stop", "check", "tick"} : Goto(a, w)
    BY <1>5 DEF PausedWakes
  <2> QED
    BY <1>5, <2>1, MovesKeep DEF PausedWakes
<1>6. CASE TickCancelled(a)
  BY <1>6, MovesKeep DEF TickCancelled, Ticking
<1> QED
  BY <1>1, <1>2, <1>3, <1>4, <1>5, <1>6

Statuses == {"ready", "in_progress", "done", "failed"}

Working == {"exec", "build", "settle"}

\* A step of a that saves r and goes to w leaves nothing in_progress but what another
\* had in hand before it and what a has in hand after it.
Hands(a, r, w) ==
    /\ \A u \in Tasks \ stuck' : status'[u] = "in_progress" =>
          \/ /\ u \notin stuck /\ status[u] = "in_progress"
             /\ ~(loop[a].task = u /\ pc[a] \in Working)
          \/ r.task = u /\ w \in Working
    /\ w \in Working => r.task \in Tasks

\* n is the number of verdicts of a that fits r at w.
Verdict(a, r, w, n) ==
    a \in DevLoops => /\ w = "ended" => n = 1
                      /\ w # "ended" => n = IF r.over THEN 1 ELSE 0
                      /\ r.over => w = "stop"

LEMMA SavesKeep ==
    ASSUME AInv, NEW a \in Automata, pc[a] # "none", UNCHANGED request,
           NEW r \in LoopStates, Saves(a, r),
           NEW w \in {"top", "exec", "build", "settle", "stop", "ended"}, Goto(a, w),
           status' \in [Tasks -> Statuses], stuck' \subseteq Tasks,
           Hands(a, r, w),
           NEW n \in Nat, verdicts' = [verdicts EXCEPT ![a] = n],
           Verdict(a, r, w, n)
    PROVE  AInv'
<1>1. TypeOK'
  BY DEF AInv, TypeOK, Saves, Goto, Statuses
<1>2. TasksOwned'
  <2> SUFFICES ASSUME NEW u \in Tasks \ stuck', status'[u] = "in_progress"
               PROVE  \E b \in Automata : /\ loop'[b].task = u
                                          /\ pc'[b] \in {"exec", "build", "settle"}
    BY DEF TasksOwned
  <2>1. CASE r.task = u /\ w \in {"exec", "build", "settle"}
    <3>1. loop'[a] = r /\ pc'[a] = w
      BY DEF AInv, TypeOK, Saves, Goto
    <3> QED
      BY <2>1, <3>1 DEF Working
  <2>2. CASE ~(r.task = u /\ w \in {"exec", "build", "settle"})
    <3>1. \A b \in Automata \ {a} : loop'[b] = loop[b]
      BY DEF AInv, TypeOK, Saves
    <3> QED
      BY <2>2, <3>1, OwnersKept, SMT DEF AInv, Hands, Working
  <2> QED
    BY <2>1, <2>2
<1>3. VerdictKept'
  <2> SUFFICES ASSUME NEW b \in DevLoops
               PROVE  /\ pc'[b] \in {"report", "ended"} => verdicts'[b] = 1
                      /\ pc'[b] \notin {"report", "ended"} =>
                            verdicts'[b] = IF loop'[b].over THEN 1 ELSE 0
                      /\ loop'[b].over => pc'[b] \in {"stop", "report"}
    BY DEF VerdictKept
  <2>0. b \in Automata
    BY DEF Automata
  <2>1. CASE b = a
    <3>1. loop'[a] = r /\ pc'[a] = w /\ verdicts'[a] = n
      BY DEF AInv, TypeOK, Saves, Goto
    <3> QED
      BY <2>1, <3>1 DEF Verdict
  <2>2. CASE b # a
    <3>1. loop'[b] = loop[b] /\ pc'[b] = pc[b] /\ verdicts'[b] = verdicts[b]
      BY <2>0, <2>2 DEF AInv, TypeOK, Saves, Goto
    <3> QED
      BY <3>1 DEF AInv, VerdictKept
  <2> QED
    BY <2>1, <2>2
<1>4. RunsInstalled'
  BY DEF AInv, TypeOK, RunsInstalled, Goto
<1>5. TaskInHand'
  BY DEF AInv, TypeOK, TaskInHand, Goto, Saves, Hands, Working
<1> QED
  BY <1>1, <1>2, <1>3, <1>4, <1>5 DEF AInv

\* The same when the step gives no verdict.
LEMMA SilentSavesKeep ==
    ASSUME AInv, NEW a \in Automata, pc[a] \in {"tick", "exec", "build", "settle"},
           UNCHANGED <<request, verdicts>>,
           NEW r \in LoopStates, Saves(a, r),
           a \in DevLoops /\ r.over => loop[a].over,
           NEW w \in {"top", "exec", "build", "settle", "stop"}, Goto(a, w),
           status' \in [Tasks -> Statuses], stuck' \subseteq Tasks,
           Hands(a, r, w)
    PROVE  AInv'
<1>1. PICK n \in Nat : n = verdicts[a] /\ verdicts' = [verdicts EXCEPT ![a] = n]
  BY SMT DEF AInv, TypeOK
<1>2. a \in DevLoops => ~r.over /\ n = 0
  BY <1>1 DEF AInv, VerdictKept
<1>3. Verdict(a, r, w, n)
  BY <1>2 DEF Verdict
<1>4. pc[a] # "none" /\ w \in {"top", "exec", "build", "settle", "stop", "ended"}
  OBVIOUS
<1> QED
  BY <1>1, <1>3, <1>4, SavesKeep

LEMMA EndKeeps ==
    ASSUME AInv, NEW a \in Automata, OnStop(a) \/ Report(a)
    PROVE  AInv'
<1> USE DEF runtime, bridge
<1>1. CASE OnStop(a)
  <2> USE <1>1 DEF OnStop, Goto
  <2>1. TypeOK'
    BY SMT DEF AInv, TypeOK
  <2>2. TasksOwned'
    BY OwnersKept, SMT DEF AInv, TypeOK, TasksOwned
  <2>3. VerdictKept'
    BY SMT DEF AInv, TypeOK, VerdictKept, Automata, LoopStates
  <2>4. RunsInstalled'
    BY DEF AInv, TypeOK, RunsInstalled
  <2>5. TaskInHand'
    BY DEF AInv, TypeOK, TaskInHand
  <2> QED
    BY <2>1, <2>2, <2>3, <2>4, <2>5 DEF AInv
<1>2. CASE Report(a)
  <2>1. Idle \in LoopStates /\ ~Idle.over
    BY SMT DEF Idle, LoopStates
  <2>2. verdicts[a] \in Nat /\ verdicts' = [verdicts EXCEPT ![a] = verdicts[a]]
    BY <1>2 DEF Report, AInv, TypeOK
  <2>3. Verdict(a, Idle, "ended", verdicts[a])
    BY <1>2, <2>1 DEF Report, AInv, VerdictKept, Verdict
  <2>4. status' \in [Tasks -> Statuses] /\ stuck' \subseteq Tasks
    BY <1>2 DEF Report, AInv, TypeOK, Statuses
  <2>5. Hands(a, Idle, "ended")
    BY <1>2 DEF Report, Hands, Working
  <2> QED
    BY <1>2, <2>1, <2>2, <2>3, <2>4, <2>5, SavesKeep DEF Report
<1> QED
  BY <1>1, <1>2

\* A tick that begins no task: the queue is read, or found empty.
LEMMA QueueKeeps ==
    ASSUME AInv, NEW a \in Automata, InitQueue(a) \/ Finish(a)
    PROVE  AInv'
<1> USE DEF runtime, bridge
<1>0. loop[a] \in LoopStates /\ status \in [Tasks -> Statuses] /\ stuck \subseteq Tasks
  BY DEF AInv, TypeOK, Statuses
<1>1. CASE InitQueue(a)
  <2>1. CASE TickFails(a) /\ UNCHANGED loop
    BY <1>1, <2>1, MovesKeep DEF InitQueue, TickFails, Ticking
  <2>2. CASE ~(TickFails(a) /\ UNCHANGED loop)
    <3> DEFINE r == [loop[a] EXCEPT !.ready = TRUE,
                                    !.queue = {t \in Tasks : status[t] # "done"}]
    <3>1. r \in LoopStates /\ r.over = loop[a].over
      BY <1>0 DEF LoopStates
    <3>2. PICK w \in {"top", "stop"} : Goto(a, w)
      BY <1>1, <2>2 DEF InitQueue, EmitThen
    <3>3. Saves(a, r) /\ pc[a] = "tick" /\ UNCHANGED <<request, verdicts, status, stuck>>
      BY <1>1, <2>2 DEF InitQueue, Ticking
    <3>4. Hands(a, r, w)
      BY <3>2, <3>3 DEF Hands, Working
    <3> HIDE DEF r
    <3> QED
      BY <1>0, <3>1, <3>2, <3>3, <3>4, SilentSavesKeep
  <2> QED
    BY <2>1, <2>2
<1>2. CASE Finish(a)
  <2> DEFINE r == [loop[a] EXCEPT !.over = TRUE]
  <2>1. r \in LoopStates /\ r.over
    BY <1>0 DEF LoopStates
  <2>2. Saves(a, r) /\ pc[a] = "tick" /\ Goto(a, "stop")
        /\ UNCHANGED <<request, status, stuck>>
    BY <1>2 DEF Finish, Ticking, EmitThen
  <2>3. verdicts[a] = 0
    BY <1>2, <2>2 DEF Finish, AInv, VerdictKept
  <2>4. verdicts' = [verdicts EXCEPT ![a] = 1]
    BY <1>2, <2>3, SMT DEF Finish
  <2>5. Hands(a, r, "stop") /\ Verdict(a, r, "stop", 1)
    BY <2>1, <2>2 DEF Hands, Working, Verdict
  <2> HIDE DEF r
  <2> QED
    BY <1>0, <2>1, <2>2, <2>4, <2>5, SavesKeep
<1> QED
  BY <1>1, <1>2

\* Beginning a task: it is stuck, or in_progress and in a's hands.
LEMMA BeginningHands ==
    ASSUME AInv, NEW a \in Automata, pc[a] = "tick", NEW t \in Tasks,
           Transition(t, "in_progress"), NEW r, r.task = t
    PROVE  /\ status' \in [Tasks -> Statuses] /\ stuck' \subseteq Tasks
           /\ Hands(a, r, "exec")
  BY DEF AInv, TypeOK, Transition, Hands, Working, Statuses

\* Settling the task in hand: it is stuck, or no longer in_progress.
LEMMA SettlingHands ==
    ASSUME AInv, NEW a \in Automata, pc[a] = "settle", NEW s \in Statuses \ {"in_progress"},
           Transition(loop[a].task, s), NEW r, NEW w \in {"top", "stop"}
    PROVE  /\ status' \in [Tasks -> Statuses] /\ stuck' \subseteq Tasks
           /\ Hands(a, r, w)
<1>1. loop[a].task \in Tasks
  BY DEF AInv, TaskInHand
<1> QED
  BY <1>1 DEF AInv, TypeOK, Transition, Hands, Working, Statuses

\* The states that Takes and LetGo save.
Taken(l, t, task) == [ready |-> l.ready, queue |-> l.queue \ {t}, task |-> task,
                      tries |-> 1, result |-> "none", over |-> FALSE]

Released(l, over) == [ready |-> l.ready, queue |-> l.queue, task |-> None,
                      tries |-> 0, result |-> "none", over |-> over]

LEMMA TakenState ==
    ASSUME NEW l \in LoopStates, NEW t \in Tasks, NEW task \in Tasks \cup {None}
    PROVE  /\ Taken(l, t, task) \in LoopStates
           /\ Taken(l, t, task).over = FALSE /\ Taken(l, t, task).task = task
<1>1. l.queue \ {t} \in SUBSET Tasks
  BY DEF LoopStates
<1>2. Taken(l, t, task) \in LoopStates
  BY <1>1, SMT DEF LoopStates, Taken
<1> QED
  BY <1>2 DEF Taken

LEMMA ReleasedState ==
    ASSUME NEW l \in LoopStates, NEW over \in BOOLEAN
    PROVE  Released(l, over) \in LoopStates /\ Released(l, over).over = over
<1>1. Released(l, over) \in LoopStates
  BY SMT DEF LoopStates, Released
<1> QED
  BY <1>1 DEF Released

LEMMA BeginTaskKeeps ==
    ASSUME AInv, NEW a \in Automata, BeginTask(a)
    PROVE  AInv'
<1> USE DEF runtime, bridge
<1>0. /\ loop[a] \in LoopStates /\ status \in [Tasks -> Statuses] /\ stuck \subseteq Tasks
      /\ pc[a] = "tick" /\ UNCHANGED <<request, verdicts>>
  BY DEF AInv, TypeOK, Statuses, BeginTask, Ticking
<1>1. PICK t \in loop[a].queue :
         \/ TickFails(a) /\ Takes(a, t, None) /\ UNCHANGED <<status, talking, stuck>>
         \/ Goto(a, "top") /\ Takes(a, t, None) /\ UNCHANGED <<status, events, talking, stuck>>
         \/ /\ Fits(a, 1) /\ Transition(t, "in_progress") /\ Takes(a, t, t)
            /\ EmitThen(a, 1, "exec")
         \/ /\ ~Fits(a, 1) /\ Takes(a, t, None) /\ EmitThen(a, 1, "exec")
            /\ status' = [status EXCEPT ![t] = "in_progress"] /\ stuck' = stuck \cup {t}
  BY DEF BeginTask
<1>2. t \in Tasks
  BY <1>0, <1>1 DEF LoopStates
<1> DEFINE r(task) == Taken(loop[a], t, task)
<1>3. \A task \in Tasks \cup {None} :
         r(task) \in LoopStates /\ r(task).over = FALSE /\ r(task).task = task
  BY <1>0, <1>2, TakenState
<1>4. \A task : Takes(a, t, task) => Saves(a, r(task))
  BY DEF Takes, Taken
<1> HIDE DEF r
<1>5. CASE Takes(a, t, None) /\ (Goto(a, "stop") \/ Goto(a, "top")) /\ UNCHANGED <<status, stuck>>
  <2>1. PICK w \in {"top", "stop"} : Goto(a, w)
    BY <1>5
  <2>2. Hands(a, r(None), w)
    BY <1>0, <1>5, <2>1 DEF Hands, Working
  <2> QED
    BY <1>0, <1>3, <1>4, <1>5, <2>1, <2>2, SilentSavesKeep
<1>6. CASE Fits(a, 1) /\ Transition(t, "in_progress") /\ Takes(a, t, t) /\ EmitThen(a, 1, "exec")
  <2>1. Goto(a, "exec")
    BY <1>6 DEF EmitThen
  <2>2. status' \in [Tasks -> Statuses] /\ stuck' \subseteq Tasks /\ Hands(a, r(t), "exec")
    BY <1>0, <1>2, <1>3, <1>6, BeginningHands
  <2> QED
    BY <1>0, <1>2, <1>3, <1>4, <1>6, <2>1, <2>2, SilentSavesKeep
<1>7. CASE /\ ~Fits(a, 1) /\ Takes(a, t, None) /\ EmitThen(a, 1, "exec")
           /\ status' = [status EXCEPT ![t] = "in_progress"] /\ stuck' = stuck \cup {t}
  <2>1. Goto(a, "stop")
    BY <1>7 DEF EmitThen
  <2>2. status' \in [Tasks -> Statuses] /\ stuck' \subseteq Tasks /\ Hands(a, r(None), "stop")
    BY <1>0, <1>2, <1>7 DEF Hands, Working, Statuses
  <2> QED
    BY <1>0, <1>3, <1>4, <1>7, <2>1, <2>2, SilentSavesKeep
<1> QED
  BY <1>1, <1>5, <1>6, <1>7 DEF TickFails

LEMMA BeginRunKeeps ==
    ASSUME AInv, NEW a \in Automata, BeginRun(a)
    PROVE  AInv'
<1> USE DEF runtime, bridge
<1>0. /\ loop[a] \in LoopStates /\ pc[a] = "tick" /\ UNCHANGED <<request, verdicts>>
  BY DEF AInv, TypeOK, BeginRun, Ticking
<1>1. CASE Goto(a, "stop") /\ UNCHANGED <<loop, status, stuck>>
  BY <1>0, <1>1, MovesKeep
<1>2. CASE /\ Goto(a, "exec") /\ Transition(Order[1], "in_progress")
           /\ Takes(a, Order[1], Order[1])
  <2>0. PICK t \in Tasks : t = Order[1]
    BY OrderStarts
  <2> DEFINE r == Taken(loop[a], t, t)
  <2>1. r \in LoopStates /\ r.over = FALSE /\ r.task = t
    BY <1>0, TakenState
  <2>2. Saves(a, r)
    BY <1>2, <2>0 DEF Takes, Taken
  <2> HIDE DEF r
  <2>3. status' \in [Tasks -> Statuses] /\ stuck' \subseteq Tasks /\ Hands(a, r, "exec")
    BY <1>0, <1>2, <2>0, <2>1, BeginningHands
  <2> QED
    BY <1>0, <1>2, <2>1, <2>2, <2>3, SilentSavesKeep
<1> QED
  BY <1>1, <1>2 DEF BeginRun, TickFails, EmitThen

LEMMA WorkKeeps ==
    ASSUME AInv, NEW a \in Automata, Execute(a) \/ Build(a)
    PROVE  AInv'
<1> USE DEF runtime, bridge
<1>0. /\ loop[a] \in LoopStates /\ status' \in [Tasks -> Statuses] /\ stuck' \subseteq Tasks
      /\ pc[a] \in {"exec", "build"} /\ UNCHANGED <<request, verdicts, status, stuck>>
  BY DEF AInv, TypeOK, Statuses, Execute, Build
<1>1. loop[a].task \in Tasks
  BY <1>0 DEF AInv, TaskInHand
<1>2. PICK r \in LoopStates, w \in Working :
         Saves(a, r) /\ Goto(a, w) /\ r.over = loop[a].over /\ r.task = loop[a].task
  <2>1. CASE Execute(a)
    <3>1. PICK result \in {"ok", "error"} :
             /\ Saves(a, [loop[a] EXCEPT !.result = result])
             /\ Goto(a, "build") \/ Goto(a, "settle")
      BY <2>1 DEF Execute
    <3> QED
      BY <1>0, <3>1, SMT DEF LoopStates, Working
  <2>2. CASE Build(a) /\ UNCHANGED loop
    <3>1. Saves(a, loop[a])
      BY <2>2 DEF Saves, AInv, TypeOK
    <3>2. Goto(a, "settle") \/ Goto(a, "exec")
      BY <2>2 DEF Build
    <3> QED
      BY <1>0, <3>1, <3>2 DEF Working
  <2>3. CASE Build(a) /\ Saves(a, [loop[a] EXCEPT !.tries = 2]) /\ Goto(a, "exec")
    BY <1>0, <2>3, SMT DEF LoopStates, Working
  <2>4. CASE Build(a) /\ Saves(a, [loop[a] EXCEPT !.result = "error"]) /\ Goto(a, "settle")
    BY <1>0, <2>4, SMT DEF LoopStates, Working
  <2> QED
    BY <2>1, <2>2, <2>3, <2>4 DEF Build
<1>3. Hands(a, r, w)
  BY <1>0, <1>1, <1>2 DEF Hands, Working
<1>4. w \in {"top", "exec", "build", "settle", "stop"}
  BY <1>2 DEF Working
<1> QED
  BY <1>0, <1>2, <1>3, <1>4, SilentSavesKeep

LEMMA SettleKeeps ==
    ASSUME AInv, NEW a \in Automata, SettleCancelled(a) \/ SettleDone(a) \/ SettleFailed(a)
    PROVE  AInv'
<1> USE DEF runtime, bridge
<1> DEFINE r(over) == Released(loop[a], over)
<1>0. /\ loop[a] \in LoopStates /\ pc[a] = "settle" /\ UNCHANGED request
      /\ a \in DevLoops => verdicts[a] = 0
  <2>1. pc[a] = "settle" /\ UNCHANGED request
    BY DEF SettleCancelled, SettleDone, SettleFailed
  <2>2. loop[a] \in LoopStates
    BY DEF AInv, TypeOK
  <2>3. a \in DevLoops => verdicts[a] = 0
    BY <2>1 DEF AInv, VerdictKept
  <2> QED
    BY <2>1, <2>2, <2>3
<1>1. \A over \in BOOLEAN : r(over) \in LoopStates /\ r(over).over = over
  BY <1>0, ReleasedState
<1>4. \A over : LetGo(a, over) => Saves(a, r(over))
  BY DEF LetGo, Released
<1> HIDE DEF r
<1>2. CASE SettleCancelled(a) \/ SettleDone(a)
  <2>1. PICK s \in {"ready", "done"} : Transition(loop[a].task, s)
    BY <1>2 DEF SettleCancelled, SettleDone
  <2>2. PICK w \in {"top", "stop"} : Goto(a, w)
    BY <1>2 DEF SettleCancelled, SettleDone, EmitThen
  <2>3. status' \in [Tasks -> Statuses] /\ stuck' \subseteq Tasks /\ Hands(a, r(FALSE), w)
    <3>1. s \in Statuses \ {"in_progress"}
      BY <2>1 DEF Statuses
    <3> QED
      BY <1>0, <2>1, <2>2, <3>1, SettlingHands
  <2>4. Saves(a, r(FALSE)) /\ UNCHANGED verdicts
    BY <1>4, <1>2 DEF SettleCancelled, SettleDone
  <2> QED
    BY <1>0, <1>1, <2>2, <2>3, <2>4, SilentSavesKeep
<1>3. CASE SettleFailed(a)
  <2>1. Transition(loop[a].task, "failed") /\ Goto(a, "stop")
    BY <1>3 DEF SettleFailed, EmitThen
  <2>2. PICK last \in BOOLEAN : /\ LetGo(a, last) /\ last = (a \in DevLoops /\ Fits(a, 1))
                                /\ verdicts' = [verdicts EXCEPT ![a] = verdicts[a] + (IF last THEN 1 ELSE 0)]
    BY <1>3 DEF SettleFailed
  <2>3. PICK n \in Nat : /\ n = verdicts[a] + (IF last THEN 1 ELSE 0)
                         /\ verdicts' = [verdicts EXCEPT ![a] = n]
    <3>1. verdicts[a] \in Nat
      BY DEF AInv, TypeOK
    <3>2. verdicts[a] + (IF last THEN 1 ELSE 0) \in Nat
      BY <3>1, SMT
    <3> QED
      BY <2>2, <3>2
  <2>4. Saves(a, r(last)) /\ r(last) \in LoopStates /\ r(last).over = last
    BY <1>1, <1>4, <2>2
  <2>5. Verdict(a, r(last), "stop", n)
    BY <1>0, <2>3, <2>4, SMT DEF Verdict
  <2>6. status' \in [Tasks -> Statuses] /\ stuck' \subseteq Tasks /\ Hands(a, r(last), "stop")
    <3>1. "failed" \in Statuses \ {"in_progress"}
      BY DEF Statuses
    <3> QED
      BY <1>0, <2>1, <3>1, SettlingHands
  <2> QED
    BY <1>0, <2>1, <2>3, <2>4, <2>5, <2>6, SavesKeep
<1> QED
  BY <1>2, <1>3

\* Controls, forwarders and clients leave alone what AInv reads.
LEMMA StreamsKeep ==
    ASSUME AInv,
           \/ \E a \in Automata : Forward(a) \/ Advise(a)
           \/ \E o \in Controls : \/ Pause(o) \/ Stop(o) \/ Remove(o)
                                  \/ \E a \in Automata : StopUntracked(o, a)
           \/ \E c \in Clients : Follow(c) \/ Leave(c) \/ \E a \in Automata : Attach(c, a)
    PROVE  AInv'
<1>1. UNCHANGED owned
  <2> USE DEF owned, rest, bridge
  <2>1. CASE \E a \in Automata : Forward(a) \/ Advise(a)
    BY <2>1 DEF Forward, Advise, TalkEnds, Take, Broadcast, MarkDone, Expire, ForwarderEnds,
                ForwarderEndsIf
  <2>2. CASE \E o \in Controls : \/ Pause(o) \/ Stop(o) \/ Remove(o)
                                 \/ \E a \in Automata : StopUntracked(o, a)
    BY <2>2 DEF Pause, Stop, Remove, StopUntracked
  <2>3. CASE \E c \in Clients : Follow(c) \/ Leave(c) \/ \E a \in Automata : Attach(c, a)
    BY <2>3 DEF Follow, Listen, LoadDone, Receive, Leave, Attach
  <2> QED
    BY <2>1, <2>2, <2>3
<1> QED
  BY <1>1, OthersKeep

LEMMA NextKeeps == AInv /\ [Next]_vars => AInv'
<1> SUFFICES ASSUME AInv, [Next]_vars PROVE AInv'
  OBVIOUS
<1>1. CASE UNCHANGED vars
  BY <1>1, OthersKeep DEF vars, owned, bridge
<1>2. ASSUME NEW a \in Automata,
             \/ StartDevLoop(a) \/ RunTask(a) \/ DropStale(a) \/ PrepareFails(a) \/ Install(a)
             \/ Track(a)
      PROVE  AInv'
  BY <1>2, BridgeKeeps
<1>3. ASSUME NEW a \in Automata, Run(a) PROVE AInv'
  BY <1>3, LoopKeeps, QueueKeeps, BeginTaskKeeps, BeginRunKeeps, WorkKeeps, SettleKeeps, EndKeeps
  DEF Run
<1> QED
  BY <1>1, <1>2, <1>3, StreamsKeep DEF Next, Progress, Environment

LEMMA AInvHolds == Spec => []AInv
<1>1. Init => AInv
  BY InitEstablishes
<1>2. AInv /\ [Next]_vars => AInv'
  BY NextKeeps
<1> QED
  BY <1>1, <1>2, PTL DEF Spec

\* However starts race, runs fail, builds turn red and stops fall, a task that is
\* in_progress has an automaton at work on it (process_next_task,
\* finalize_task_outcome), unless a transition or TaskStarted was lost.
THEOREM AutomatonTasksOwned == Spec => []TasksOwned
<1>1. AInv => TasksOwned
  BY DEF AInv
<1> QED
  BY <1>1, AInvHolds, PTL

\* Whichever way a dev loop ends, LoopFinished is emitted exactly once (finish,
\* finalize_task_outcome, on_stop).
THEOREM AutomatonOneVerdict == Spec => []OneVerdict
<1>1. AInv => OneVerdict
  BY DEF AInv, VerdictKept, OneVerdict
<1> QED
  BY <1>1, AInvHolds, PTL

-----------------------------------------------------------------------------
(* Lineage.                                                                  *)

(* Coverage of capabilities composes: what covers a capability covers all
   that one covers (capability.rs:67). *)
LEMMA SatisfiesTransitive ==
    ASSUME NEW a, NEW b, NEW c, satisfies(a, b), satisfies(b, c)
    PROVE  satisfies(a, c)
  BY DEF satisfies

(* A bundle contained in another allows nothing the other does not. *)
LEMMA ContainedAllowsLess ==
    ASSUME NEW p, NEW q, contains(p, q), NEW cap, allows(q, cap)
    PROVE  allows(p, cap)
<1>1. PICK own \in q.capabilities : satisfies(own, cap)
  BY DEF allows
<1>2. PICK above \in p.capabilities : satisfies(above, own)
  BY <1>1 DEF contains, allows
<1>. QED
  BY <1>1, <1>2, SatisfiesTransitive DEF allows

(* Fewer capabilities allow less. *)
LEMMA FewerAllowsLess ==
    ASSUME NEW p, NEW q, q.capabilities \subseteq p.capabilities, NEW cap, allows(q, cap)
    PROVE  allows(p, cap)
  BY DEF allows

(* What a narrowed bundle allows, both of its bundles allow: the fourth
   invariant of math.rs. *)
THEOREM NarrowAllowsBoth ==
    ASSUME NEW p, NEW q, NEW cap, allows(narrow(p, q), cap)
    PROVE  allows(p, cap) /\ allows(q, cap)
<1>1. /\ narrow(p, q).capabilities \subseteq p.capabilities
      /\ narrow(p, q).capabilities \subseteq q.capabilities
  BY DEF narrow
<1>. QED
  BY <1>1, FewerAllowsLess

(* Where two axes are not both restricted to disjoint sets, their intersection
   is contained in either; disjoint axes intersect to the empty list, which
   restricts nothing (scope.rs:53). *)
THEOREM NarrowKeepsAxis ==
    ASSUME NEW a, NEW b, a = {} \/ b = {} \/ a \cap b # {}
    PROVE  axis_contains(a, axis_intersect(a, b)) /\ axis_contains(b, axis_intersect(a, b))
  BY DEF axis_contains, axis_intersect

(* The table of legal mode overrides agrees with the mode gate: a mode that
   counts as narrower lets no further action through (derivation.rs:312,
   gate.rs:79). *)
THEOREM ModeNarrowingSound ==
    ASSUME NEW parent \in Modes, NEW child \in Modes, narrowing_allowed(parent, child)
    PROVE  ModeGate(child) \subseteq ModeGate(parent)
<1>1. CASE parent = child
  BY <1>1
<1>2. CASE parent = "Agent"
  BY <1>2 DEF Modes, ModeGate, GatedAction
<1>3. CASE parent = "Plan" /\ child # "Agent"
  BY <1>3 DEF Modes, ModeGate
<1>. QED
  BY <1>1, <1>2, <1>3 DEF narrowing_allowed

-----------------------------------------------------------------------------
(* What the state machine keeps: the same of the contexts of running turns and
   of the children on their way into the table. *)

CtxWithin == \A t \in Turns : ctx[t] # Nothing => Within(ctx[t].entry)
PlanWithin == \A t \in Turns : plan[t] # Nothing => Within(plan[t].entry)

LInv == LineageTypeOK /\ NeverWider /\ CtxWithin /\ PlanWithin

LEMMA NarrowTyped ==
    ASSUME NEW p \in Permissions, NEW q \in Permissions
    PROVE  narrow(p, q) \in Permissions
  BY DEF narrow, Permissions, Scope, axis_intersect

LEMMA NarrowPermissionsTyped ==
    ASSUME NEW p \in Permissions, NEW kind
    PROVE  narrow_permissions(p, kind) \in Permissions
  BY DEF narrow_permissions, Permissions

LEMMA RootEntryOK ==
    ASSUME NEW perms \in Permissions, NEW mode \in Modes
    PROVE  RootEntry(perms, mode) \in Entry /\ Within(RootEntry(perms, mode))
  BY SMT DEF RootEntry, Entry, Within

(* Only an agent in mode Agent passes the gate of a spawning tool. *)
LEMMA SpawnerIsAgent ==
    ASSUME NEW e, e.mode \in Modes, PassesGates(e)
    PROVE  e.mode = "Agent"
  BY DEF PassesGates, ModeGate, Modes

(* A child with no more capabilities than an agent in mode Agent is within it
   and within all that is above it. *)
LEMMA ChildWithin ==
    ASSUME NEW e, NEW own, Within(own), own.mode = "Agent",
           \A cap \in Capability : allows(e.perms, cap) => allows(own.perms, cap),
           NEW u \in own.above \cup {StandingOf(own)}
    PROVE  /\ \A cap \in Capability : allows(e.perms, cap) => allows(u.perms, cap)
           /\ ModeGate(e.mode) \subseteq ModeGate(u.mode)
<1>1. ModeGate(e.mode) \subseteq ModeGate(own.mode)
  BY DEF ModeGate
<1>2. CASE u \in own.above
  BY <1>1, <1>2 DEF Within
<1>3. CASE u = StandingOf(own)
  <2>1. u.perms = own.perms /\ u.mode = own.mode
    BY <1>3 DEF StandingOf
  <2>. QED
    BY <1>1, <2>1
<1>. QED
  BY <1>2, <1>3

(* The entry a task call plans. *)
TaskEntry(t, kind, mode, derived) ==
    [chain |-> <<ctx[t].agent>> \o table[ctx[t].agent].chain,
     perms |-> narrow_permissions(derived, kind),
     mode  |-> mode,
     above |-> ctx[t].entry.above \cup {StandingOf(ctx[t].entry)}]

(* The entry a spawn_agent call plans. *)
SpawnEntry(t, perms) ==
    [chain |-> <<ctx[t].agent>> \o table[ctx[t].agent].chain,
     perms |-> perms,
     mode  |-> table[ctx[t].agent].mode,
     above |-> ctx[t].entry.above \cup table[ctx[t].agent].above
               \cup {StandingOf(ctx[t].entry), StandingOf(table[ctx[t].agent])}]

LEMMA StandingTyped ==
    ASSUME NEW e \in Entry
    PROVE  StandingOf(e) \in Standing
  BY DEF StandingOf, Standing, Entry

LEMMA CallerTyped ==
    ASSUME LineageTypeOK, NEW t \in Turns, ctx[t] # Nothing, ctx[t].agent \in DOMAIN table
    PROVE  /\ ctx[t].agent \in Agents /\ ctx[t].entry \in Entry
           /\ table[ctx[t].agent] \in Entry
  BY DEF LineageTypeOK, Context

LEMMA ChainTyped ==
    ASSUME NEW p \in Agents, NEW s \in Seq(Agents)
    PROVE  <<p>> \o s \in Seq(Agents)
  BY SMT

LEMMA TaskEntryOK ==
    ASSUME LInv, Bundles \subseteq Permissions, NEW t \in Turns, NEW c \in Hosted,
           NEW kind \in Kinds, NEW mode \in Modes, NEW override \in Bundles \cup {Nothing},
           Task(t, c, kind, mode, override)
    PROVE  \E derived \in Permissions :
             /\ TaskEntry(t, kind, mode, derived) \in Entry
             /\ Within(TaskEntry(t, kind, mode, derived))
             /\ Begin(t, c, TaskEntry(t, kind, mode, derived))
<1>. DEFINE own == ctx[t].entry
            asked == IF override = Nothing THEN own.perms ELSE override
            requested == narrow_permissions(asked, kind)
<1>1. /\ ctx[t] # Nothing /\ ctx[t].agent \in DOMAIN table /\ PassesGates(own)
      /\ \E derived \in derive(own.perms, Len(own.chain) + 1, mode, requested) :
            Begin(t, c, TaskEntry(t, kind, mode, derived))
  BY DEF Task, TaskEntry
<1>2. PICK derived \in derive(own.perms, Len(own.chain) + 1, mode, requested) :
            Begin(t, c, TaskEntry(t, kind, mode, derived))
  BY <1>1
<1>3. derived = narrow(own.perms, requested)
  BY <1>2 DEF derive
<1>4. /\ ctx[t].agent \in Agents /\ own \in Entry /\ table[ctx[t].agent] \in Entry
  BY <1>1, CallerTyped DEF LInv
<1>5. own.perms \in Permissions /\ own.mode \in Modes /\ own.above \subseteq Standing
  BY <1>4 DEF Entry
<1>6. asked \in Permissions
  BY <1>5
<1>7. requested \in Permissions
  BY <1>6, NarrowPermissionsTyped
<1>8. derived \in Permissions
  BY <1>3, <1>5, <1>7, NarrowTyped
<1>9. TaskEntry(t, kind, mode, derived) \in Entry
  <2>1. narrow_permissions(derived, kind) \in Permissions
    BY <1>8, NarrowPermissionsTyped
  <2>2. <<ctx[t].agent>> \o table[ctx[t].agent].chain \in Seq(Agents)
    BY <1>4, ChainTyped DEF Entry
  <2>3. own.above \cup {StandingOf(own)} \subseteq Standing
    BY <1>4, <1>5, StandingTyped
  <2>. QED
    BY <2>1, <2>2, <2>3 DEF TaskEntry, Entry
<1>10. Within(TaskEntry(t, kind, mode, derived))
  <2>. DEFINE e == TaskEntry(t, kind, mode, derived)
  <2>1. e.perms.capabilities \subseteq own.perms.capabilities
    BY <1>3 DEF TaskEntry, narrow_permissions, narrow
  <2>2. \A cap \in Capability : allows(e.perms, cap) => allows(own.perms, cap)
    BY <2>1 DEF allows
  <2>3. own.mode = "Agent"
    BY <1>1, <1>5, SpawnerIsAgent
  <2>4. Within(own)
    BY <1>1 DEF LInv, CtxWithin
  <2>5. e.above = own.above \cup {StandingOf(own)}
    BY DEF TaskEntry
  <2>. HIDE DEF e, own
  <2>. QED
    BY <2>2, <2>3, <2>4, <2>5, ChildWithin DEF Within, e
<1>. QED
  BY <1>2, <1>8, <1>9, <1>10

LEMMA SpawnEntryOK ==
    ASSUME LInv, Bundles \subseteq Permissions, NEW t \in Turns, NEW c \in Hosted,
           NEW asked \in Bundles \cup {Nothing}, Spawn(t, c, asked)
    PROVE  \E perms \in Permissions :
             /\ SpawnEntry(t, perms) \in Entry
             /\ Within(SpawnEntry(t, perms))
             /\ Begin(t, c, SpawnEntry(t, perms))
<1>. DEFINE own == ctx[t].entry
            p == ctx[t].agent
            perms == IF asked = Nothing THEN own.perms ELSE asked
            e == SpawnEntry(t, perms)
<1>1. /\ ctx[t] # Nothing /\ p \in DOMAIN table /\ PassesGates(own)
      /\ contains(own.perms, perms) /\ contains(table[p].perms, perms)
      /\ table[p].mode = "Agent"
  BY DEF Spawn, allows_spawn
<1>2. Begin(t, c, e)
  BY DEF Spawn, SpawnEntry
<1>3. p \in Agents /\ own \in Entry /\ table[p] \in Entry
  BY <1>1, CallerTyped DEF LInv
<1>6. perms \in Permissions
  BY <1>3 DEF Entry
<1>. HIDE DEF perms
<1>4. e \in Entry
  <2>1. <<p>> \o table[p].chain \in Seq(Agents)
    BY <1>3, ChainTyped DEF Entry
  <2>2. own.above \cup table[p].above \cup {StandingOf(own), StandingOf(table[p])}
          \subseteq Standing
    BY <1>3, StandingTyped DEF Entry
  <2>3. table[p].mode \in Modes /\ perms \in Permissions
    BY <1>3, <1>6 DEF Entry
  <2>. QED
    BY <2>1, <2>2, <2>3 DEF SpawnEntry, Entry
<1>5. Within(e)
  <2>1. e.perms = perms
    BY DEF SpawnEntry
  <2>2. \A cap \in Capability : allows(e.perms, cap) => allows(own.perms, cap)
    BY <1>1, <2>1, ContainedAllowsLess
  <2>3. \A cap \in Capability : allows(e.perms, cap) => allows(table[p].perms, cap)
    BY <1>1, <2>1, ContainedAllowsLess
  <2>4. own.mode = "Agent"
    BY <1>1, <1>3, SpawnerIsAgent DEF Entry
  <2>5. Within(own) /\ Within(table[p])
    BY <1>1 DEF LInv, CtxWithin, NeverWider
  <2>6. e.above = (own.above \cup {StandingOf(own)})
                   \cup (table[p].above \cup {StandingOf(table[p])})
    BY DEF SpawnEntry
  <2>7. \A u \in own.above \cup {StandingOf(own)} :
          /\ \A cap \in Capability : allows(e.perms, cap) => allows(u.perms, cap)
          /\ ModeGate(e.mode) \subseteq ModeGate(u.mode)
    <3>. HIDE DEF e, own
    <3>. QED
      BY <2>2, <2>4, <2>5, ChildWithin
  <2>8. \A u \in table[p].above \cup {StandingOf(table[p])} :
          /\ \A cap \in Capability : allows(e.perms, cap) => allows(u.perms, cap)
          /\ ModeGate(e.mode) \subseteq ModeGate(u.mode)
    <3>. HIDE DEF e, p
    <3>. QED
      BY <1>1, <2>3, <2>5, ChildWithin
  <2>. HIDE DEF e, own, p
  <2>. QED
    BY <2>6, <2>7, <2>8 DEF Within
<1>. QED
  BY <1>2, <1>4, <1>5, <1>6

(* The child of a call replaces nothing but the plan of its turn. *)
LEMMA BeginKeeps ==
    ASSUME LInv, NEW t \in Turns, NEW c \in Hosted, NEW e \in Entry, Within(e), Begin(t, c, e)
    PROVE  LInv'
<1>1. LineageTypeOK'
  <2>1. [child |-> c, entry |-> e] \in Plan
    BY DEF Plan
  <2>2. plan' \in [Turns -> Plan \cup {Nothing}]
    BY <2>1 DEF Begin, LInv, LineageTypeOK
  <2>3. e.chain \in Seq(Agents)
    BY DEF Entry
  <2>4. DOMAIN born' \subseteq Hosted /\ born' \in [DOMAIN born' -> Seq(Agents)]
    BY <2>3 DEF Begin, LInv, LineageTypeOK
  <2>. QED
    BY <2>2, <2>4 DEF Begin, LInv, LineageTypeOK
<1>2. NeverWider' /\ CtxWithin'
  BY DEF Begin, LInv, NeverWider, CtxWithin, Within
<1>3. PlanWithin'
  <2>. SUFFICES ASSUME NEW x \in Turns, plan'[x] # Nothing PROVE Within(plan'[x].entry)
    BY DEF PlanWithin, Within
  <2>1. CASE x = t
    BY <2>1 DEF Begin, LInv, LineageTypeOK
  <2>2. CASE x # t
    BY <2>2 DEF Begin, LInv, LineageTypeOK, PlanWithin
  <2>. QED
    BY <2>1, <2>2
<1>. QED
  BY <1>1, <1>2, <1>3 DEF LInv

LEMMA PutKeeps ==
    ASSUME LInv, NEW a \in Agents, NEW e \in Entry, Within(e), table' = Put(a, e)
    PROVE  /\ DOMAIN table' \subseteq Agents /\ table' \in [DOMAIN table' -> Entry]
           /\ NeverWider'
<1>1. /\ DOMAIN table' = DOMAIN table \cup {a}
      /\ \A x \in DOMAIN table' : table'[x] = IF x = a THEN e ELSE table[x]
      /\ table' = [x \in DOMAIN table' |-> table'[x]]
  BY DEF Put
<1>2. \A x \in DOMAIN table' : table'[x] \in Entry
  BY <1>1 DEF LInv, LineageTypeOK
<1>3. \A x \in DOMAIN table' : Within(table'[x])
  BY <1>1 DEF LInv, NeverWider
<1>. QED
  BY <1>1, <1>2, <1>3 DEF LInv, LineageTypeOK, NeverWider, Within

LEMMA LInvInductive ==
    ASSUME LInv, Bundles \subseteq Permissions, [LineageNext]_lineageVars
    PROVE  LInv'
<1>1. ASSUME NEW t \in Turns, NEW a \in Roots, NEW perms \in Bundles, NEW mode \in Modes,
             RootTurn(t, a, perms, mode)
      PROVE  LInv'
  <2>. DEFINE e == RootEntry(perms, mode)
  <2>1. e \in Entry /\ Within(e)
    BY RootEntryOK
  <2>. HIDE DEF e
  <2>2. /\ table' = Put(a, e)
        /\ ctx' = [ctx EXCEPT ![t] = [agent |-> a, entry |-> e]]
        /\ UNCHANGED <<plan, born>>
    BY <1>1 DEF RootTurn, e
  <2>3. a \in Agents
    BY DEF Agents
  <2>4. DOMAIN table' \subseteq Agents /\ table' \in [DOMAIN table' -> Entry] /\ NeverWider'
    BY <2>1, <2>2, <2>3, PutKeeps
  <2>5. [agent |-> a, entry |-> e] \in Context
    BY <2>1, <2>3 DEF Context
  <2>6. LineageTypeOK'
    BY <2>2, <2>4, <2>5 DEF LInv, LineageTypeOK
  <2>7. CtxWithin'
    BY <2>1, <2>2 DEF LInv, LineageTypeOK, CtxWithin, Within
  <2>8. PlanWithin'
    BY <2>2 DEF LInv, PlanWithin, Within
  <2>. QED
    BY <2>4, <2>6, <2>7, <2>8 DEF LInv
<1>2. ASSUME NEW t \in Turns, NEW a \in Hosted, HostedTurn(t, a)
      PROVE  LInv'
  <2>1. a \in Agents /\ table[a] \in Entry /\ Within(table[a])
    BY <1>2 DEF HostedTurn, Agents, LInv, LineageTypeOK, NeverWider
  <2>2. [agent |-> a, entry |-> table[a]] \in Context
    BY <2>1 DEF Context
  <2>3. LineageTypeOK'
    BY <1>2, <2>2 DEF HostedTurn, LInv, LineageTypeOK
  <2>4. NeverWider' /\ PlanWithin'
    BY <1>2 DEF HostedTurn, LInv, NeverWider, PlanWithin, Within
  <2>5. CtxWithin'
    BY <1>2, <2>1 DEF HostedTurn, LInv, LineageTypeOK, CtxWithin, Within
  <2>. QED
    BY <2>3, <2>4, <2>5 DEF LInv
<1>3. ASSUME NEW t \in Turns, EndTurn(t)
      PROVE  LInv'
  <2>1. LineageTypeOK'
    BY <1>3 DEF EndTurn, LInv, LineageTypeOK
  <2>2. NeverWider'
    BY <1>3 DEF EndTurn, LInv, NeverWider, Within
  <2>3. CtxWithin' /\ PlanWithin'
    BY <1>3 DEF EndTurn, LInv, LineageTypeOK, CtxWithin, PlanWithin, Within
  <2>. QED
    BY <2>1, <2>2, <2>3 DEF LInv
<1>4. ASSUME NEW t \in Turns, Call(t)
      PROVE  LInv'
  <2>1. ASSUME NEW c \in Hosted, NEW kind \in Kinds, NEW mode \in Modes,
               NEW override \in Bundles \cup {Nothing}, Task(t, c, kind, mode, override)
        PROVE  LInv'
    BY <2>1, TaskEntryOK, BeginKeeps
  <2>2. ASSUME NEW c \in Hosted, NEW asked \in Bundles \cup {Nothing}, Spawn(t, c, asked)
        PROVE  LInv'
    BY <2>2, SpawnEntryOK, BeginKeeps
  <2>. QED
    BY <1>4, <2>1, <2>2 DEF Call
<1>5. ASSUME NEW t \in Turns, Insert(t)
      PROVE  LInv'
  <2>. DEFINE c == plan[t].child
              e == plan[t].entry
  <2>1. c \in Agents /\ e \in Entry /\ Within(e)
    BY <1>5 DEF Insert, LInv, LineageTypeOK, Plan, PlanWithin, Agents
  <2>. HIDE DEF c, e
  <2>2. table' = Put(c, e) /\ plan' = [plan EXCEPT ![t] = Nothing] /\ UNCHANGED <<ctx, born>>
    BY <1>5 DEF Insert, c, e
  <2>3. DOMAIN table' \subseteq Agents /\ table' \in [DOMAIN table' -> Entry] /\ NeverWider'
    BY <2>1, <2>2, PutKeeps
  <2>4. LineageTypeOK'
    BY <2>2, <2>3 DEF LInv, LineageTypeOK
  <2>5. CtxWithin' /\ PlanWithin'
    BY <2>2 DEF LInv, LineageTypeOK, CtxWithin, PlanWithin, Within
  <2>. QED
    BY <2>3, <2>4, <2>5 DEF LInv
<1>6. ASSUME NEW a \in Agents, NEW self \in BOOLEAN, remove_subtree(a, self)
      PROVE  LInv'
  <2>1. PICK gone : table' = [x \in DOMAIN table \ gone |-> table[x]] /\ UNCHANGED <<ctx, plan, born>>
    BY <1>6 DEF remove_subtree
  <2>2. LineageTypeOK'
    BY <2>1 DEF LInv, LineageTypeOK
  <2>3. NeverWider'
    BY <2>1 DEF LInv, NeverWider, Within
  <2>4. CtxWithin' /\ PlanWithin'
    BY <2>1 DEF LInv, CtxWithin, PlanWithin, Within
  <2>. QED
    BY <2>2, <2>3, <2>4 DEF LInv
<1>7. ASSUME UNCHANGED lineageVars
      PROVE  LInv'
  BY <1>7 DEF lineageVars, LInv, LineageTypeOK, NeverWider, CtxWithin, PlanWithin, Within
<1>. QED
  BY <1>1, <1>2, <1>3, <1>4, <1>5, <1>6, <1>7 DEF LineageNext

LEMMA LInvInit ==
    ASSUME LineageInit
    PROVE  LInv
<1>1. LineageTypeOK
  BY DEF LineageInit, LineageTypeOK
<1>2. NeverWider /\ CtxWithin /\ PlanWithin
  BY DEF LineageInit, NeverWider, CtxWithin, PlanWithin
<1>. QED
  BY <1>1, <1>2 DEF LInv

(* For any sessions, kinds, requests and depth, with reused ids and removals in
   between: no agent in the table may do more than an agent above it could when
   it spawned. *)
THEOREM DescendantsNeverWider ==
    ASSUME Bundles \subseteq Permissions
    PROVE  LineageSpec => []NeverWider
<1>1. LineageInit => LInv
  BY LInvInit
<1>2. LInv /\ [LineageNext]_lineageVars => LInv'
  BY LInvInductive
<1>3. LInv => NeverWider
  BY DEF LInv
<1>. QED
  BY <1>1, <1>2, <1>3, PTL DEF LineageSpec

-----------------------------------------------------------------------------
(* Lines.  When no id is used twice, what the host knows of an agent's line is
   what the agent was born with, wherever it is kept: in the table, in a turn's
   context, in a plan. *)

Settled(a, chain) ==
    \/ a \in Roots /\ chain = <<>>
    \/ a \in DOMAIN born /\ chain = born[a]

Sound(a, chain) ==
    /\ Len(chain) < MaxDepth
    /\ Distinct(chain) /\ ~In(a, chain)
    /\ \A i \in DOMAIN chain : chain[i] \in Roots \cup DOMAIN born

BInv ==
    /\ \A a \in DOMAIN table : Settled(a, table[a].chain)
    /\ \A t \in Turns : ctx[t] # Nothing => Settled(ctx[t].agent, ctx[t].entry.chain)
    /\ \A t \in Turns : plan[t] # Nothing => Settled(plan[t].child, plan[t].entry.chain)
    /\ \A a \in DOMAIN born : Sound(a, born[a])

(* The line of a new child of p. *)
LEMMA LongerLine ==
    ASSUME LInv, NEW p \in Agents, NEW c \in Hosted, NEW s \in Seq(Agents),
           MaxDepth \in Nat \ {0}, Roots \cap Hosted = {}, c \notin DOMAIN born,
           Settled(p, s), \A a \in DOMAIN born : Sound(a, born[a]),
           Len(s) + 2 <= MaxDepth
    PROVE  /\ Len(<<p>> \o s) < MaxDepth
           /\ Distinct(<<p>> \o s) /\ ~In(c, <<p>> \o s)
           /\ \A i \in DOMAIN (<<p>> \o s) : (<<p>> \o s)[i] \in Roots \cup DOMAIN born
<1>. DEFINE n == <<p>> \o s
<1>1. /\ Len(n) = Len(s) + 1 /\ DOMAIN n = 1..(Len(s) + 1) /\ DOMAIN s = 1..Len(s)
      /\ n[1] = p
      /\ \A i \in 2..(Len(s) + 1) : i - 1 \in DOMAIN s /\ n[i] = s[i - 1]
  BY SMT
<1>2. /\ Distinct(s) /\ ~In(p, s)
      /\ \A i \in DOMAIN s : s[i] \in Roots \cup DOMAIN born
      /\ p \in Roots \cup DOMAIN born
  <2>1. CASE p \in Roots /\ s = <<>>
    BY <2>1, SMT DEF Distinct, In
  <2>2. CASE p \in DOMAIN born /\ s = born[p]
    BY <2>2 DEF Sound
  <2>. QED
    BY <2>1, <2>2 DEF Settled
<1>3. Len(s) \in Nat
  BY SMT
<1>. HIDE DEF n
<1>4. Len(n) < MaxDepth
  BY <1>1, <1>3, SMT
<1>5. ASSUME NEW i \in DOMAIN n PROVE n[i] \in Roots \cup DOMAIN born
  <2>1. i = 1 \/ i \in 2..(Len(s) + 1)
    BY <1>1, <1>3, SMT
  <2> QED
    BY <1>1, <1>2, <2>1
<1>6. ~In(c, n)
  <2>1. c \notin Roots \cup DOMAIN born
    OBVIOUS
  <2>. QED
    BY <1>5, <2>1 DEF In
<1>7. Distinct(n)
  <2>. SUFFICES ASSUME NEW i \in DOMAIN n, NEW j \in DOMAIN n, n[i] = n[j] PROVE i = j
    BY DEF Distinct
  <2>1. \A k \in 2..(Len(s) + 1) : n[k] # p
    BY <1>1, <1>2 DEF In
  <2>2. CASE i = 1 \/ j = 1
    BY <1>1, <1>3, <2>1, <2>2, SMT
  <2>3. CASE i # 1 /\ j # 1
    <3>1. i \in 2..(Len(s) + 1) /\ j \in 2..(Len(s) + 1)
      BY <1>1, <1>3, <2>3, SMT
    <3>2. s[i - 1] = s[j - 1] /\ i - 1 \in DOMAIN s /\ j - 1 \in DOMAIN s
      BY <1>1, <3>1
    <3>3. i - 1 = j - 1
      BY <1>2, <3>2 DEF Distinct
    <3>. QED
      BY <1>3, <3>1, <3>3, SMT
  <2>. QED
    BY <2>2, <2>3
<1>. QED
  BY <1>4, <1>5, <1>6, <1>7 DEF n

(* A call that begins with a child's sound line keeps every other line. *)
LEMMA BeginKeepsLines ==
    ASSUME LInv, BInv, NEW t \in Turns, NEW c \in Hosted, NEW e \in Entry,
           c \notin DOMAIN born, Sound(c, e.chain), Begin(t, c, e)
    PROVE  BInv'
<1>1. /\ DOMAIN born' = DOMAIN born \cup {c}
      /\ born'[c] = e.chain
      /\ \A a \in DOMAIN born : born'[a] = born[a]
      /\ UNCHANGED <<table, ctx>>
      /\ plan' = [plan EXCEPT ![t] = [child |-> c, entry |-> e]]
  BY DEF Begin
<1>2. \A a, s : Settled(a, s) => Settled(a, s)'
  BY <1>1 DEF Settled
<1>3. \A a, s : Sound(a, s) => Sound(a, s)'
  BY <1>1 DEF Sound
<1>4. \A a \in DOMAIN table' : Settled(a, table[a].chain)'
  BY <1>1, <1>2 DEF BInv, Settled
<1>5. \A x \in Turns : ctx'[x] # Nothing => Settled(ctx[x].agent, ctx[x].entry.chain)'
  BY <1>1, <1>2 DEF BInv, Settled
<1>6. \A x \in Turns : plan'[x] # Nothing => Settled(plan[x].child, plan[x].entry.chain)'
  <2>. SUFFICES ASSUME NEW x \in Turns, plan'[x] # Nothing
                PROVE  Settled(plan[x].child, plan[x].entry.chain)'
    OBVIOUS
  <2>1. CASE x = t
    BY <1>1, <2>1 DEF Settled, LInv, LineageTypeOK
  <2>2. CASE x # t
    BY <1>1, <2>2 DEF BInv, Settled, LInv, LineageTypeOK
  <2>. QED
    BY <2>1, <2>2
<1>7. \A a \in DOMAIN born' : Sound(a, born[a])'
  BY <1>1, <1>3 DEF BInv, Sound
<1>. QED
  BY <1>4, <1>5, <1>6, <1>7 DEF BInv

(* What both calls share: the caller's two snapshots agree on its line. *)
LEMMA CallerLine ==
    ASSUME LInv, BInv, Roots \cap Hosted = {}, NEW t \in Turns, ctx[t] # Nothing,
           ctx[t].agent \in DOMAIN table
    PROVE  /\ ctx[t].entry.chain = table[ctx[t].agent].chain
           /\ Settled(ctx[t].agent, table[ctx[t].agent].chain)
           /\ ctx[t].agent \in Agents /\ table[ctx[t].agent].chain \in Seq(Agents)
<1>1. ctx[t].agent \in Agents /\ table[ctx[t].agent] \in Entry
  BY CallerTyped DEF LInv
<1>2. Settled(ctx[t].agent, table[ctx[t].agent].chain) /\ Settled(ctx[t].agent, ctx[t].entry.chain)
  BY DEF BInv
<1>3. DOMAIN born \subseteq Hosted
  BY DEF LInv, LineageTypeOK
<1>. QED
  BY <1>1, <1>2, <1>3 DEF Settled, Entry

LEMMA BInvInductive ==
    ASSUME LInv, BInv, Bundles \subseteq Permissions, Roots \cap Hosted = {}, ~Reuse,
           MaxDepth \in Nat \ {0}, [LineageNext]_lineageVars
    PROVE  BInv'
<1>1. ASSUME NEW t \in Turns, NEW a \in Roots, NEW perms \in Bundles, NEW mode \in Modes,
             RootTurn(t, a, perms, mode)
      PROVE  BInv'
  <2>1. /\ DOMAIN table' = DOMAIN table \cup {a} /\ table'[a].chain = <<>>
        /\ \A x \in DOMAIN table : x # a => table'[x] = table[x]
    BY <1>1 DEF RootTurn, Put, RootEntry
  <2>2. /\ ctx'[t].agent = a /\ ctx'[t].entry.chain = <<>>
        /\ \A x \in Turns : x # t => ctx'[x] = ctx[x]
        /\ UNCHANGED <<plan, born>>
    BY <1>1 DEF RootTurn, RootEntry, LInv, LineageTypeOK
  <2>. QED
    BY <2>1, <2>2 DEF BInv, Settled, Sound
<1>2. ASSUME NEW t \in Turns, NEW a \in Hosted, HostedTurn(t, a)
      PROVE  BInv'
  <2>1. /\ a \in DOMAIN table /\ ctx'[t].agent = a /\ ctx'[t].entry = table[a]
        /\ \A x \in Turns : x # t => ctx'[x] = ctx[x]
        /\ UNCHANGED <<table, plan, born>>
    BY <1>2 DEF HostedTurn, LInv, LineageTypeOK
  <2>. QED
    BY <2>1, SMT DEF BInv, Settled, Sound
<1>3. ASSUME NEW t \in Turns, EndTurn(t)
      PROVE  BInv'
  BY <1>3 DEF EndTurn, LInv, LineageTypeOK, BInv, Settled, Sound
<1>4. ASSUME NEW t \in Turns, NEW c \in Hosted, NEW kind \in Kinds, NEW mode \in Modes,
             NEW override \in Bundles \cup {Nothing}, Task(t, c, kind, mode, override)
      PROVE  BInv'
  <2>1. PICK derived \in Permissions :
             /\ TaskEntry(t, kind, mode, derived) \in Entry
             /\ Begin(t, c, TaskEntry(t, kind, mode, derived))
    BY <1>4, TaskEntryOK
  <2>2. /\ ctx[t] # Nothing /\ ctx[t].agent \in DOMAIN table /\ c \notin DOMAIN born
        /\ Len(ctx[t].entry.chain) + 1 + 1 <= MaxDepth
    <3>1. /\ ctx[t] # Nothing /\ ctx[t].agent \in DOMAIN table /\ c \notin DOMAIN born
          /\ ~(Len(ctx[t].entry.chain) + 1 + 1 > MaxDepth)
      BY <1>4 DEF Task, derive
    <3>2. Len(ctx[t].entry.chain) \in Nat
      BY <3>1, CallerTyped, SMT DEF LInv, Entry
    <3>. QED
      BY <3>1, <3>2, SMT
  <2>3. Sound(c, <<ctx[t].agent>> \o table[ctx[t].agent].chain)
    <3>1. Len(table[ctx[t].agent].chain) + 2 <= MaxDepth
      BY <2>2, CallerLine, SMT
    <3>. QED
      BY <2>2, <3>1, CallerLine, LongerLine DEF BInv, Sound
  <2>4. TaskEntry(t, kind, mode, derived).chain = <<ctx[t].agent>> \o table[ctx[t].agent].chain
    BY DEF TaskEntry
  <2>. QED
    BY <2>1, <2>2, <2>3, <2>4, BeginKeepsLines
<1>5. ASSUME NEW t \in Turns, NEW c \in Hosted, NEW asked \in Bundles \cup {Nothing}, Spawn(t, c, asked)
      PROVE  BInv'
  <2>1. PICK perms \in Permissions :
          SpawnEntry(t, perms) \in Entry /\ Begin(t, c, SpawnEntry(t, perms))
    BY <1>5, SpawnEntryOK
  <2>2. /\ ctx[t] # Nothing /\ ctx[t].agent \in DOMAIN table /\ c \notin DOMAIN born
        /\ Len(table[ctx[t].agent].chain) + 2 <= MaxDepth
    BY <1>5 DEF Spawn
  <2>3. Sound(c, <<ctx[t].agent>> \o table[ctx[t].agent].chain)
    BY <2>2, CallerLine, LongerLine DEF BInv, Sound
  <2>4. SpawnEntry(t, perms).chain = <<ctx[t].agent>> \o table[ctx[t].agent].chain
    BY DEF SpawnEntry
  <2>. QED
    BY <2>1, <2>2, <2>3, <2>4, BeginKeepsLines
<1>6. ASSUME NEW t \in Turns, Insert(t)
      PROVE  BInv'
  <2>1. /\ plan[t] # Nothing
        /\ DOMAIN table' = DOMAIN table \cup {plan[t].child}
        /\ table'[plan[t].child] = plan[t].entry
        /\ \A x \in DOMAIN table : x # plan[t].child => table'[x] = table[x]
    BY <1>6 DEF Insert, Put
  <2>2. /\ plan'[t] = Nothing /\ \A x \in Turns : x # t => plan'[x] = plan[x]
        /\ UNCHANGED <<ctx, born>>
    BY <1>6 DEF Insert, LInv, LineageTypeOK
  <2>. QED
    BY <2>1, <2>2, SMT DEF BInv, Settled, Sound
<1>7. ASSUME NEW a \in Agents, NEW self \in BOOLEAN, remove_subtree(a, self)
      PROVE  BInv'
  <2>1. PICK gone : table' = [x \in DOMAIN table \ gone |-> table[x]] /\ UNCHANGED <<ctx, plan, born>>
    BY <1>7 DEF remove_subtree
  <2>. QED
    BY <2>1 DEF BInv, Settled, Sound
<1>8. ASSUME UNCHANGED lineageVars
      PROVE  BInv'
  BY <1>8 DEF lineageVars, BInv, Settled, Sound
<1>. QED
  BY <1>1, <1>2, <1>3, <1>4, <1>5, <1>6, <1>7, <1>8 DEF LineageNext, Call

(* When ids are never reused, every line of the table is shorter than the depth
   limit and repeats no agent, at any depth limit and for any number of turns
   spawning at once. *)
THEOREM LinesBounded ==
    ASSUME Bundles \subseteq Permissions, Roots \cap Hosted = {}, ~Reuse,
           MaxDepth \in Nat \ {0}
    PROVE  LineageSpec => []LineageBounded
<1>1. LineageInit => LInv /\ BInv
  BY LInvInit DEF LineageInit, BInv
<1>2. LInv /\ BInv /\ [LineageNext]_lineageVars => LInv' /\ BInv'
  BY LInvInductive, BInvInductive
<1>3. LInv /\ BInv => LineageBounded
  <2>. SUFFICES ASSUME BInv, NEW a \in DOMAIN table
                PROVE  /\ Len(table[a].chain) < MaxDepth
                       /\ Distinct(table[a].chain) /\ ~In(a, table[a].chain)
    BY DEF LineageBounded
  <2>1. CASE table[a].chain = <<>>
    BY <2>1, SMT DEF Distinct, In
  <2>2. CASE a \in DOMAIN born /\ table[a].chain = born[a]
    BY <2>2 DEF BInv, Sound
  <2>. QED
    BY <2>1, <2>2 DEF BInv, Settled
<1>. QED
  BY <1>1, <1>2, <1>3, PTL DEF LineageSpec
=============================================================================
