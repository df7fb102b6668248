----------------------------- MODULE AgentHost -----------------------------
(***************************************************************************)
(* The agent host: the table of agents that other agents spawned, their     *)
(* message queues, the task that runs each turn, and the lifecycle calls.   *)
(*                                                                          *)
(* Every access to the table takes one lock, so a step here is what the     *)
(* code does under one acquisition of it; between two acquisitions anything *)
(* else may happen.  A call is one use of task, spawn_agent or              *)
(* send_to_agent.  The messages of call c are <<c, 0>>, its request, and    *)
(* <<c, h>>, the reply that handling <<c, h - 1>> produced.                 *)
(*                                                                          *)
(* A stop token is the sequence of (agent, version) pairs from the topmost  *)
(* ancestor: child_token appends a pair, and a token is cancelled when one  *)
(* of its prefixes was.                                                     *)
(***************************************************************************)
EXTENDS Integers, Sequences, FiniteSets

CONSTANTS
    Root,         \* the surface's agent
    Agents,       \* ids of hosted agents
    Calls,        \* uses of task, spawn_agent and send_to_agent
    User,         \* the sender of a message that no agent sent
    Nobody,       \* no reply target
    MaxDepth,     \* AgentHostConfig::max_depth
    MaxRunning,   \* AgentHostConfig::max_running
    Ways,         \* the ways agents are spawned: a task, a detached one, spawn_agent
    FreshIds,     \* spawn_agent never names an id that was used before
    Plans,        \* bound: the sequences of lifecycle actions taken, on any agents
    MaxFailures   \* bound: failed writes, failed and timed-out turns

Everyone == Agents \cup {Root}
\* A child is less than MaxDepth deep, and each reply after the first a level higher.
Hops == 0..MaxDepth
Msgs == Calls \X Hops
Request(c) == <<c, 0>>
ReplyTo(m) == <<m[1], m[2] + 1>>

LifecycleActions == {"pause", "resume", "stop", "restart"}

ASSUME HostAssumption ==
    /\ Root \notin Agents /\ {User, Nobody} \cap Everyone = {} /\ User # Nobody
    /\ MaxDepth \in Nat \ {0} /\ MaxRunning \in Nat
    /\ MaxFailures \in Nat
    /\ FreshIds \in BOOLEAN
    /\ Ways \subseteq {"task", "detached", "spawn"}
    /\ Plans \subseteq Seq(LifecycleActions)

VARIABLES
    \* the table (AgentEntry)
    here, chain, oneShot, running, paused, queue, hist, tok,
    life,      \* how often the id was inserted
    ver,       \* how many stop tokens it had
    cancelled, \* tokens cancelled explicitly
    inbox,     \* the agent's inbox in the store
    due,       \* pump calls about to be made
    lockgen,   \* which parent_locks entry a new caller would get
    \* per call
    pc, by, kid, mode, turn, snapChain, snapTok, lock,
    \* per message
    ph, frm, dst, held, epoch, out, conv, rpl,
    ran,       \* the turn in which the model got the message
    \* history of restarts
    forgotten, \* messages an agent had started before its last restart
    ops,       \* the lifecycle actions taken so far
    failures

table == <<here, chain, oneShot, running, paused, queue, hist, tok, life, ver, cancelled>>
stores == <<inbox, due, lockgen>>
calls == <<pc, by, kid, mode, turn, snapChain, snapTok, lock>>
turns == <<held, epoch, out, conv, rpl, ran>>
msgs == <<ph, frm, dst>>
counts == <<ops, failures>>
vars == <<table, stores, calls, turns, msgs, forgotten, counts>>

Parent(a) == chain[a][1]
Depth(a) == IF a = Root THEN 0 ELSE Len(chain[a])
Ancestors(a) == {chain[a][i] : i \in 1..Len(chain[a])}
Below(t) == {a \in Agents : here[a] /\ t \in Ancestors(a)}
Cancelled(t) == \E i \in 1..Len(t) : SubSeq(t, 1, i) \in cancelled

\* A turn holds `running' in the first three; then it answers and retires.
InTurn == {"start", "sched", "finished"}
AtAwait == {"lock", "wait"}
Closed == {"done", "gone"}
CallsOf(m) == {c \in Calls : turn[c] = m /\ pc[c] # "idle"}
Waits(m) == m[2] = 0 /\ mode[m[1]] = "task"

----------------------------------------------------------------------------
Init ==
    /\ here = [a \in Agents |-> FALSE]
    /\ chain = [a \in Agents |-> <<>>]
    /\ oneShot = [a \in Agents |-> FALSE]
    /\ running = [a \in Agents |-> FALSE]
    /\ paused = [a \in Agents |-> FALSE]
    /\ queue = [a \in Agents |-> <<>>]
    /\ hist = [a \in Agents |-> {}]
    /\ tok = [a \in Agents |-> <<>>]
    /\ life = [a \in Agents |-> 0]
    /\ ver = [a \in Agents |-> 0]
    /\ cancelled = {}
    /\ inbox = [a \in Agents |-> <<>>]
    /\ due = [a \in Agents |-> 0]
    /\ lockgen = [a \in Everyone |-> 0]
    /\ pc = [c \in Calls |-> "idle"]
    /\ by = [c \in Calls |-> Nobody]
    /\ kid = [c \in Calls |-> Nobody]
    /\ mode = [c \in Calls |-> "none"]
    /\ turn = [c \in Calls |-> Nobody]
    /\ snapChain = [c \in Calls |-> <<>>]
    /\ snapTok = [c \in Calls |-> <<>>]
    /\ lock = [c \in Calls |-> <<>>]
    /\ ph = [m \in Msgs |-> "none"]
    /\ frm = [m \in Msgs |-> Nobody]
    /\ dst = [m \in Msgs |-> Nobody]
    /\ held = [m \in Msgs |-> <<>>]
    /\ epoch = [m \in Msgs |-> 0]
    /\ out = [m \in Msgs |-> "none"]
    /\ conv = [m \in Msgs |-> {}]
    /\ rpl = [m \in Msgs |-> Nobody]
    /\ ran = [m \in Msgs |-> Nobody]
    /\ forgotten = [a \in Agents |-> {}]
    /\ ops = <<>> /\ failures = 0

----------------------------------------------------------------------------
(* Calls.  A root calls while its surface runs a turn; a hosted agent calls *)
(* from a turn of its own, t.                                               *)
Callers == {<<Root, Nobody>>} \cup {<<dst[t], t>> : t \in {m \in Msgs : ph[m] = "sched"}}
Unused(k) == life[k] = 0 /\ \A c \in Calls : kid[c] # k

\* enqueue to a hosted agent: push, then pump.
Pushed(to, m) ==
    /\ queue' = [queue EXCEPT ![to] = Append(@, m)]
    /\ due' = [due EXCEPT ![to] = @ + 1]

\* deliver_message: queued at a hosted agent, handed to a root, or the agent is unknown.
Deliver(from, to, m, ph0) ==
    /\ ph' = [ph0 EXCEPT ![m] = IF to = Root THEN "root" ELSE IF here[to] THEN "queued" ELSE "lost"]
    /\ frm' = [frm EXCEPT ![m] = from]
    /\ dst' = [dst EXCEPT ![m] = to]
    /\ IF to # Root /\ here[to] THEN Pushed(to, m) ELSE UNCHANGED <<queue, due>>

\* send_to_agent and delegate_task, or AgentHost::send from the user.
Send(c) ==
    /\ pc[c] = "idle"
    /\ \E from \in Callers \cup {<<User, Nobody>>}, to \in Everyone :
        /\ from[1] # to
        /\ IF to = Root THEN from[1] # User ELSE here[to]
        /\ Deliver(from[1], to, Request(c), ph)
        /\ by' = [by EXCEPT ![c] = from[1]]
        /\ turn' = [turn EXCEPT ![c] = from[2]]
    /\ mode' = [mode EXCEPT ![c] = "send"]
    /\ pc' = [pc EXCEPT ![c] = "done"]
    /\ UNCHANGED <<here, chain, oneShot, running, paused, hist, tok, life, ver, cancelled,
                   inbox, lockgen, kid, snapChain, snapTok, lock, turns, forgotten, counts>>

\* The depth a spawn would reach, computed by derive from a chain that has the parent
\* in it (dispatch_task) and by spawn_agent itself.
DepthAllowed(p) == Depth(p) + 2 <= MaxDepth

\* dispatch_task and spawn_agent up to create_child: the checks and the snapshot of
\* the parent.  A rejected call changes nothing.
SpawnBegin(c) ==
    /\ pc[c] = "idle"
    /\ \E from \in Callers, k \in Agents, md \in Ways :
        LET p == from[1] IN
        /\ p # Root => here[p]
        /\ DepthAllowed(p)
        /\ Cardinality({a \in Agents : here[a] /\ running[a]}) < MaxRunning
        /\ IF md = "spawn" /\ ~FreshIds THEN ~here[k] ELSE Unused(k)
        /\ by' = [by EXCEPT ![c] = p]
        /\ turn' = [turn EXCEPT ![c] = from[2]]
        /\ kid' = [kid EXCEPT ![c] = k]
        /\ mode' = [mode EXCEPT ![c] = md]
        /\ snapChain' = [snapChain EXCEPT ![c] = IF p = Root THEN <<>> ELSE chain[p]]
        /\ snapTok' = [snapTok EXCEPT ![c] = IF p = Root THEN <<>> ELSE tok[p]]
    /\ pc' = [pc EXCEPT ![c] = "snap"]
    /\ UNCHANGED <<table, stores, lock, turns, msgs, forgotten, counts>>

\* create_child: parent_lock, then wait for it.
TakeLock(c) ==
    /\ pc[c] = "snap"
    /\ lock' = [lock EXCEPT ![c] = <<by[c], lockgen[by[c]]>>]
    /\ pc' = [pc EXCEPT ![c] = "lock"]
    /\ UNCHANGED <<table, stores, by, kid, mode, turn, snapChain, snapTok, turns, msgs,
                   forgotten, counts>>

Acquire(c) ==
    /\ pc[c] = "lock"
    /\ \A d \in Calls : pc[d] = "write" => lock[d] # lock[c]
    /\ pc' = [pc EXCEPT ![c] = "write"]
    /\ UNCHANGED <<table, stores, by, kid, mode, turn, snapChain, snapTok, lock, turns, msgs,
                   forgotten, counts>>

\* Queued messages that are dropped with their entry; a waiting task is told it was
\* cancelled (notify_dropped, or the receiver seeing its sender dropped).
QueuedIn(S) == UNION {{queue[a][i] : i \in 1..Len(queue[a])} : a \in S}
Drop(D, ph0, pc0) ==
    /\ ph' = [m \in Msgs |-> IF m \in D THEN "dropped" ELSE ph0[m]]
    /\ pc' = [c \in Calls |-> IF Request(c) \in D /\ pc0[c] = "wait" THEN "done" ELSE pc0[c]]

\* The guard and the snapshot of create_child go out of scope.
Created(c) ==
    /\ lock' = [lock EXCEPT ![c] = <<>>]
    /\ snapChain' = [snapChain EXCEPT ![c] = <<>>]
    /\ snapTok' = [snapTok EXCEPT ![c] = <<>>]

\* The entry goes into the table, over whatever is there.
InsertEntry(c, ancestors, token) ==
    LET k == kid[c] IN
    /\ pc[c] = "write"
    /\ Drop(QueuedIn({k}), ph, [pc EXCEPT ![c] = "push"])
    /\ here' = [here EXCEPT ![k] = TRUE]
    /\ chain' = [chain EXCEPT ![k] = ancestors]
    /\ tok' = [tok EXCEPT ![k] = token]
    /\ ver' = [ver EXCEPT ![k] = @ + 1]
    /\ life' = [life EXCEPT ![k] = @ + 1]
    /\ oneShot' = [oneShot EXCEPT ![k] = mode[c] # "spawn"]
    /\ running' = [running EXCEPT ![k] = FALSE]
    /\ paused' = [paused EXCEPT ![k] = FALSE]
    /\ queue' = [queue EXCEPT ![k] = <<>>]
    /\ hist' = [hist EXCEPT ![k] = {}]
    /\ Created(c)
    /\ UNCHANGED <<cancelled, stores, by, kid, mode, turn, turns, frm, dst, forgotten, counts>>

\* Mutants: a token of its own for the child; its ancestors in the wrong order; the
\* call taken for the parent.
InsertFreshToken(c) ==
    InsertEntry(c, <<by[c]>> \o snapChain[c], <<<<kid[c], ver[kid[c]] + 1>>>>)
InsertRootFirst(c) ==
    InsertEntry(c, Append(snapChain[c], by[c]), Append(snapTok[c], <<kid[c], ver[kid[c]] + 1>>))
InsertCallAsParent(c) ==
    InsertEntry(c, <<c>> \o snapChain[c], Append(snapTok[c], <<kid[c], ver[kid[c]] + 1>>))

\* create_child from the record writes on: the guard is released, and the entry is
\* made from what the snapshot held.
Insert(c) ==
    InsertEntry(c, <<by[c]>> \o snapChain[c], Append(snapTok[c], <<kid[c], ver[kid[c]] + 1>>))

\* A record could not be written: the call is rejected.
InsertFails(c) ==
    /\ pc[c] = "write"
    /\ failures < MaxFailures
    /\ failures' = failures + 1
    /\ pc' = [pc EXCEPT ![c] = "done"]
    /\ Created(c)
    /\ UNCHANGED <<table, stores, by, kid, mode, turn, turns, msgs, forgotten, ops>>

\* The prompt is queued; a task that is not detached waits for its result.
PushPrompt(c) ==
    LET k == kid[c] IN
    /\ pc[c] = "push"
    /\ here[k]
    /\ Pushed(k, Request(c))
    /\ frm' = [frm EXCEPT ![Request(c)] = by[c]]
    /\ dst' = [dst EXCEPT ![Request(c)] = k]
    /\ ph' = [ph EXCEPT ![Request(c)] = "queued"]
    /\ pc' = [pc EXCEPT ![c] = IF mode[c] = "task" THEN "wait" ELSE "done"]
    /\ UNCHANGED <<here, chain, oneShot, running, paused, hist, tok, life, ver, cancelled,
                   inbox, lockgen, by, kid, mode, turn, snapChain, snapTok, lock, turns,
                   forgotten, counts>>

\* "unknown agent": it was removed meanwhile.  spawn_agent without a prompt also ends.
PushNothing(c) ==
    /\ pc[c] = "push"
    /\ ~here[kid[c]] \/ mode[c] = "spawn"
    /\ pc' = [pc EXCEPT ![c] = "done"]
    /\ UNCHANGED <<table, stores, by, kid, mode, turn, snapChain, snapTok, lock, turns, msgs,
                   forgotten, counts>>

\* The root's turn is cancelled while a call of it waits.
RootGone(c) ==
    /\ by[c] = Root
    /\ pc[c] \in AtAwait
    /\ pc' = [pc EXCEPT ![c] = "gone"]
    /\ Created(c)
    /\ UNCHANGED <<table, stores, by, kid, mode, turn, turns, msgs, forgotten, counts>>

----------------------------------------------------------------------------
(* Turns.                                                                   *)
Start(a, m) ==
    /\ queue' = [queue EXCEPT ![a] = Tail(@)]
    /\ running' = [running EXCEPT ![a] = TRUE]
    /\ ph' = [ph EXCEPT ![m] = "start"]
    /\ held' = [held EXCEPT ![m] = tok[a]]
    /\ epoch' = [epoch EXCEPT ![m] = life[a]]
    /\ conv' = [conv EXCEPT ![m] = hist[a]]

PumpIf(a, free) ==
    /\ due[a] > 0
    /\ due' = [due EXCEPT ![a] = @ - 1]
    /\ IF free /\ here[a] /\ ~paused[a] /\ queue[a] # <<>>
       THEN Start(a, Head(queue[a]))
       ELSE UNCHANGED <<queue, running, ph, held, epoch, conv>>
    /\ UNCHANGED <<here, chain, oneShot, paused, hist, tok, life, ver, cancelled, inbox, lockgen,
                   calls, out, rpl, ran, frm, dst, forgotten, counts>>

\* Mutant: an agent that is running a turn starts another.
PumpAgain(a) == PumpIf(a, TRUE)

Pump(a) == PumpIf(a, ~running[a])

\* The agent was stopped or restarted, or the root's turn that waits was cancelled (only
\* a root's surface passes a cancel token along).
Stopped(m) ==
    Cancelled(held[m]) \/ (Waits(m) /\ by[m[1]] = Root /\ pc[m[1]] = "gone")

\* execute: the prompt goes into the store's inbox; then select! looks at the tokens
\* before it polls the scheduler.
Execute(m) ==
    /\ ph[m] = "start"
    /\ inbox' = [inbox EXCEPT ![dst[m]] = Append(@, m)]
    /\ ph' = [ph EXCEPT ![m] = IF Stopped(m) THEN "finished" ELSE "sched"]
    /\ out' = [out EXCEPT ![m] = IF Stopped(m) THEN "cancelled" ELSE @]
    /\ UNCHANGED <<table, due, lockgen, calls, held, epoch, conv, rpl, ran, frm, dst, forgotten,
                   counts>>

\* enqueue_tx failed.
ExecuteFails(m) ==
    /\ ph[m] = "start"
    /\ failures < MaxFailures
    /\ failures' = failures + 1
    /\ ph' = [ph EXCEPT ![m] = "finished"]
    /\ out' = [out EXCEPT ![m] = "failed"]
    /\ UNCHANGED <<table, stores, calls, held, epoch, conv, rpl, ran, frm, dst, forgotten, ops>>

\* The worker takes the prompt at the head of the inbox and runs the loop on it.
Drain(m) ==
    LET a == dst[m] IN
    /\ ph[m] = "sched"
    /\ inbox[a] # <<>>
    /\ inbox' = [inbox EXCEPT ![a] = Tail(@)]
    /\ ran' = [ran EXCEPT ![Head(inbox[a])] = m]
    /\ conv' = [conv EXCEPT ![m] = @ \cup {Head(inbox[a])}]
    /\ UNCHANGED <<table, due, lockgen, calls, held, epoch, out, rpl, msgs, forgotten, counts>>

\* The inbox is empty and every tool call of the turn has returned.
Complete(m) ==
    /\ ph[m] = "sched"
    /\ inbox[dst[m]] = <<>>
    /\ \A c \in CallsOf(m) : pc[c] \in Closed
    /\ ph' = [ph EXCEPT ![m] = "finished"]
    /\ out' = [out EXCEPT ![m] = "ok"]
    /\ UNCHANGED <<table, stores, calls, held, epoch, conv, rpl, ran, frm, dst, forgotten, counts>>

\* The turn's future is dropped at an await point, and with it the calls it makes.
DropTurn(m, o) ==
    /\ ph[m] = "sched"
    /\ \A c \in CallsOf(m) : pc[c] \in Closed \cup AtAwait
    /\ pc' = [c \in Calls |-> IF c \in CallsOf(m) /\ pc[c] \in AtAwait THEN "gone" ELSE pc[c]]
    /\ ph' = [ph EXCEPT ![m] = "finished"]
    /\ out' = [out EXCEPT ![m] = o]

\* select! sees a token while the scheduler runs.
CancelTurn(m) ==
    /\ ph[m] = "sched"
    /\ Stopped(m)
    /\ DropTurn(m, "cancelled")
    /\ UNCHANGED <<table, stores, by, kid, mode, turn, snapChain, snapTok, lock, held, epoch,
                   conv, rpl, ran, frm, dst, forgotten, counts>>

\* The scheduler returned an error, or the turn of a task ran out of time.
FailTurn(m) ==
    /\ ph[m] = "sched"
    /\ failures < MaxFailures
    /\ failures' = failures + 1
    /\ \E o \in {"failed"} \cup (IF oneShot[dst[m]] THEN {"timeout"} ELSE {}) : DropTurn(m, o)
    /\ UNCHANGED <<table, stores, by, kid, mode, turn, snapChain, snapTok, lock, held, epoch,
                   conv, rpl, ran, frm, dst, forgotten, ops>>

\* run_turn once execute returned, under the lock: whatever entry the id has now is
\* updated.
SettleTo(m, to) ==
    LET a == dst[m] IN
    /\ ph[m] = "finished"
    /\ ph' = [ph EXCEPT ![m] = "settled"]
    /\ IF here[a]
       THEN /\ running' = [running EXCEPT ![a] = FALSE]
            /\ hist' = [hist EXCEPT ![a] = IF out[m] = "ok" THEN conv[m] ELSE @]
            /\ rpl' = [rpl EXCEPT ![m] = to]
       ELSE UNCHANGED <<running, hist, rpl>>
    /\ UNCHANGED <<here, chain, oneShot, paused, queue, tok, life, ver, cancelled, stores, calls,
                   held, epoch, out, conv, ran, frm, dst, forgotten, counts>>

\* Mutant: a reply is answered to whoever sent it.
SettlePingPong(m) == SettleTo(m, frm[m])

\* A request is answered to its sender; a reply's turn reports to the agent's parent.
Settle(m) == SettleTo(m, IF m[2] = 0 THEN frm[m] ELSE Parent(dst[m]))

\* A waiter gets the result.
AnswerIf(m, told) ==
    /\ ph[m] = "settled"
    /\ Waits(m)
    /\ pc' = [pc EXCEPT ![m[1]] = IF @ = "wait" /\ told THEN "done" ELSE @]
    /\ ph' = [ph EXCEPT ![m] = "retire"]
    /\ UNCHANGED <<table, stores, by, kid, mode, turn, snapChain, snapTok, lock, turns, frm, dst,
                   forgotten, counts>>

\* Mutant: no answer for a waiter whose agent was removed.
AnswerWaiterIfHere(m) == AnswerIf(m, here[dst[m]])

AnswerWaiter(m) == AnswerIf(m, TRUE)

\* Without one the reply is delivered, or lost with its target.
Answer(m) ==
    /\ ph[m] = "settled"
    /\ ~Waits(m)
    /\ IF rpl[m] \in Everyone
       THEN Deliver(dst[m], rpl[m], ReplyTo(m), [ph EXCEPT ![m] = "retire"])
       ELSE /\ ph' = [ph EXCEPT ![m] = "retire"]
            /\ UNCHANGED <<frm, dst, queue, due>>
    /\ UNCHANGED <<here, chain, oneShot, running, paused, hist, tok, life, ver, cancelled, inbox,
                   lockgen, calls, turns, forgotten, counts>>

\* A root's inbox takes the message, or it is appended to the root's record; or both fail.
RootHears(m) ==
    /\ ph[m] = "root"
    /\ \E r \in {"told", "lost"} :
        /\ ph' = [ph EXCEPT ![m] = r]
        /\ failures' = IF r = "lost" THEN failures + 1 ELSE failures
    /\ failures' <= MaxFailures
    /\ UNCHANGED <<table, stores, calls, turns, frm, dst, forgotten, ops>>

\* remove_subtree.
Remove(S, ph0) ==
    /\ here' = [a \in Agents |-> here[a] /\ a \notin S]
    /\ queue' = [a \in Agents |-> IF a \in S THEN <<>> ELSE queue[a]]
    /\ cancelled' = cancelled \cup {tok[a] : a \in S}
    /\ lockgen' = [a \in Everyone |-> IF a \in S THEN lockgen[a] + 1 ELSE lockgen[a]]
    /\ Drop(QueuedIn(S), ph0, pc)

\* run_turn returns, and with it goes what the turn held.
TurnOver(m) ==
    /\ held' = [held EXCEPT ![m] = <<>>]
    /\ epoch' = [epoch EXCEPT ![m] = 0]
    /\ conv' = [conv EXCEPT ![m] = {}]
    /\ rpl' = [rpl EXCEPT ![m] = Nobody]

Done(a) == here[a] /\ oneShot[a] /\ ~running[a] /\ queue[a] = <<>>

RetireAnd(m, pumps) ==
    LET a == dst[m] IN
    /\ ph[m] = "retire"
    /\ IF Done(a)
       THEN Remove({a} \cup Below(a), [ph EXCEPT ![m] = "over"]) /\ UNCHANGED due
       ELSE /\ ph' = [ph EXCEPT ![m] = "over"]
            /\ due' = [due EXCEPT ![a] = @ + pumps]
            /\ UNCHANGED <<here, queue, cancelled, lockgen, pc>>
    /\ TurnOver(m)
    /\ UNCHANGED <<chain, oneShot, running, paused, hist, tok, life, ver, inbox, by, kid, mode,
                   turn, snapChain, snapTok, lock, out, ran, frm, dst, forgotten, counts>>

\* Mutant: the next turn is not started.
RetireQuiet(m) == RetireAnd(m, 0)

\* retire_if_done, and pump when the agent stays.
Retire(m) == RetireAnd(m, 1)

----------------------------------------------------------------------------
(* lifecycle, on any hosted agent; resume and restart pump every agent.     *)
Lifecycle(a, action) ==
    /\ here[a]
    /\ ops' = Append(ops, action)
    /\ \E p \in Plans : Len(ops') <= Len(p) /\ ops' = SubSeq(p, 1, Len(ops'))

SetPaused(a, p) ==
    paused' = [b \in Agents |-> IF b \in {a} \cup Below(a) THEN p ELSE paused[b]]

Pause(a) ==
    /\ Lifecycle(a, "pause")
    /\ SetPaused(a, TRUE)
    /\ UNCHANGED <<here, chain, oneShot, running, queue, hist, tok, life, ver, cancelled, stores,
                   calls, turns, msgs, forgotten, failures>>

\* Mutant: only the agent that was resumed is pumped.
ResumeOne(a) ==
    /\ Lifecycle(a, "resume")
    /\ SetPaused(a, FALSE)
    /\ due' = [due EXCEPT ![a] = @ + 1]
    /\ UNCHANGED <<here, chain, oneShot, running, queue, hist, tok, life, ver, cancelled, inbox,
                   lockgen, calls, turns, msgs, forgotten, failures>>

PumpAll(h) == due' = [b \in Agents |-> IF h[b] THEN due[b] + 1 ELSE due[b]]

Resume(a) ==
    /\ Lifecycle(a, "resume")
    /\ SetPaused(a, FALSE)
    /\ PumpAll(here)
    /\ UNCHANGED <<here, chain, oneShot, running, queue, hist, tok, life, ver, cancelled, inbox,
                   lockgen, calls, turns, msgs, forgotten, failures>>

Stop(a) ==
    /\ Lifecycle(a, "stop")
    /\ Remove({a} \cup Below(a), ph)
    /\ UNCHANGED <<chain, oneShot, running, paused, hist, tok, life, ver, inbox, due, by, kid,
                   mode, turn, snapChain, snapTok, lock, turns, frm, dst, forgotten, failures>>

\* Started before now: what a restart is to make the agent forget.
StartedBy(a) == {m \in Msgs : dst[m] = a /\ ph[m] \notin {"none", "queued"}}

RestartCancelling(a, S) ==
    LET up == IF Parent(a) = Root THEN <<>> ELSE IF here[Parent(a)] THEN tok[Parent(a)] ELSE <<>> IN
    /\ Lifecycle(a, "restart")
    /\ here' = [b \in Agents |-> here[b] /\ b \notin Below(a)]
    /\ queue' = [b \in Agents |-> IF b \in Below(a) THEN <<>> ELSE queue[b]]
    /\ cancelled' = cancelled \cup {tok[b] : b \in S}
    /\ lockgen' = [b \in Everyone |-> IF b \in Below(a) THEN lockgen[b] + 1 ELSE lockgen[b]]
    /\ Drop(QueuedIn(Below(a)), ph, pc)
    /\ paused' = [paused EXCEPT ![a] = FALSE]
    /\ tok' = [tok EXCEPT ![a] = Append(up, <<a, ver[a] + 1>>)]
    /\ ver' = [ver EXCEPT ![a] = @ + 1]
    /\ hist' = [hist EXCEPT ![a] = {}]
    /\ forgotten' = [forgotten EXCEPT ![a] = StartedBy(a)]
    /\ PumpAll(here')
    /\ UNCHANGED <<chain, oneShot, running, life, inbox, by, kid, mode, turn, snapChain, snapTok,
                   lock, turns, frm, dst, failures>>

\* Mutant: the old token is not cancelled.
RestartKeepsToken(a) == RestartCancelling(a, Below(a))

\* A fresh token under the parent's, a cleared conversation; the queue stays.
Restart(a) == RestartCancelling(a, {a} \cup Below(a))

----------------------------------------------------------------------------
CallStep(c) ==
    \/ Send(c) \/ SpawnBegin(c) \/ TakeLock(c) \/ Acquire(c) \/ Insert(c) \/ InsertFails(c)
    \/ PushPrompt(c) \/ PushNothing(c) \/ RootGone(c)

TurnStep(m) ==
    \/ Execute(m) \/ ExecuteFails(m) \/ Drain(m) \/ Complete(m) \/ CancelTurn(m) \/ FailTurn(m)
    \/ Settle(m) \/ AnswerWaiter(m) \/ Answer(m) \/ RootHears(m) \/ Retire(m)

AgentStep(a) ==
    Pump(a) \/ Pause(a) \/ Resume(a) \/ Stop(a) \/ Restart(a)

Next ==
    \/ \E c \in Calls : CallStep(c)
    \/ \E m \in Msgs : TurnStep(m)
    \/ \E a \in Agents : AgentStep(a)

Spec == Init /\ [][Next]_vars

\* The runtime does not stop while a task is ready: a spawn that passed its checks goes
\* on, a turn takes its steps, and a model that was asked answers.  Which task goes first
\* is left open, and nobody has to make a call.
Progress ==
    \/ \E c \in Calls : TakeLock(c) \/ Acquire(c) \/ Insert(c) \/ PushPrompt(c) \/ PushNothing(c)
    \/ \E m \in Msgs : \/ Execute(m) \/ Drain(m) \/ Complete(m) \/ CancelTurn(m)
                       \/ Settle(m) \/ AnswerWaiter(m) \/ Answer(m) \/ Retire(m)
    \/ \E a \in Agents : Pump(a)

Fairness == WF_vars(Progress)

FairSpec == Spec /\ Fairness

----------------------------------------------------------------------------
Tokens == Seq(Agents \X Nat)

\* Every variable has its shape.
TypeOK ==
    /\ here \in [Agents -> BOOLEAN] /\ oneShot \in [Agents -> BOOLEAN]
    /\ running \in [Agents -> BOOLEAN] /\ paused \in [Agents -> BOOLEAN]
    /\ chain \in [Agents -> Seq(Everyone)]
    /\ queue \in [Agents -> Seq(Msgs)] /\ inbox \in [Agents -> Seq(Msgs)]
    /\ hist \in [Agents -> SUBSET Msgs] /\ forgotten \in [Agents -> SUBSET Msgs]
    /\ tok \in [Agents -> Tokens] /\ cancelled \subseteq Tokens
    /\ life \in [Agents -> Nat] /\ ver \in [Agents -> Nat] /\ due \in [Agents -> Nat]
    /\ lockgen \in [Everyone -> Nat]
    /\ pc \in [Calls -> {"idle", "snap", "lock", "write", "push", "wait", "done", "gone"}]
    /\ by \in [Calls -> Everyone \cup {User, Nobody}]
    /\ kid \in [Calls -> Agents \cup {Nobody}]
    /\ mode \in [Calls -> {"none", "send", "task", "detached", "spawn"}]
    /\ turn \in [Calls -> Msgs \cup {Nobody}]
    /\ snapChain \in [Calls -> Seq(Everyone)] /\ snapTok \in [Calls -> Tokens]
    /\ lock \in [Calls -> {<<>>} \cup (Everyone \X Nat)]
    /\ ph \in [Msgs -> {"none", "queued", "start", "sched", "finished", "settled", "retire",
                        "over", "root", "told", "lost", "dropped"}]
    /\ frm \in [Msgs -> Everyone \cup {User, Nobody}]
    /\ dst \in [Msgs -> Everyone \cup {Nobody}]
    /\ rpl \in [Msgs -> Everyone \cup {User, Nobody}]
    /\ held \in [Msgs -> Tokens] /\ epoch \in [Msgs -> Nat]
    /\ out \in [Msgs -> {"none", "ok", "cancelled", "failed", "timeout"}]
    /\ conv \in [Msgs -> SUBSET Msgs] /\ ran \in [Msgs -> Msgs \cup {Nobody}]
    /\ ops \in Seq(LifecycleActions) /\ failures \in Nat

\* The running flag is exact: an agent in the table is marked running just when one turn
\* of it is in flight, and there is never a second one, whatever is sent, paused,
\* stopped and restarted meanwhile (AgentEntry::running, pump, run_turn).
OneTurnAtATime ==
    \A a \in Agents :
        /\ \A m, n \in Msgs : dst[m] = a /\ dst[n] = a /\ ph[m] \in InTurn /\ ph[n] \in InTurn
                              => m = n
        /\ here[a] => (running[a] <=> \E m \in Msgs : dst[m] = a /\ ph[m] \in InTurn)

\* No message is stranded: when an agent that is free to run has one queued, somebody is
\* about to pump it, although push and pump take the lock separately (enqueue, pump).
NoLostWakeup ==
    \A a \in Agents :
        here[a] /\ ~running[a] /\ ~paused[a] /\ queue[a] # <<>>
        => due[a] > 0 \/ \E m \in Msgs : dst[m] = a /\ ph[m] \in {"settled", "retire"}

\* A parent that waits for a task is never forgotten: its request is queued at an agent
\* in the table, or in a turn that has not answered yet (notify_dropped, run_turn).
WaiterNotForgotten ==
    \A c \in Calls :
        pc[c] = "wait" =>
            LET m == Request(c) IN
            \/ ph[m] = "queued" /\ here[dst[m]] /\ \E i \in 1..Len(queue[dst[m]]) : queue[dst[m]][i] = m
            \/ ph[m] \in InTurn \cup {"settled"}

\* Replies climb: each hop of a reply after the first is at least one level nearer to the
\* root, so a call causes at most MaxDepth replies ("keeps two agents from replying to each other
\* forever").
RepliesClimb ==
    \A m \in Msgs : m[2] > 0 /\ ph[m] # "none" => m[2] + Depth(dst[m]) <= MaxDepth

\* Stopping reaches every turn: one that runs for an agent no longer in the table holds a
\* cancelled token, whatever restarts replaced the agent's token before.
StopReachesTurns ==
    \A m \in Msgs : ph[m] \in {"start", "sched"} /\ ~here[dst[m]] => Cancelled(held[m])

\* The chain of an agent is its parent followed by its parent's chain, up to the root.
ChainIsPath ==
    \A a \in Agents : here[a] =>
        /\ chain[a] # <<>> /\ chain[a][Len(chain[a])] = Root /\ a \notin Ancestors(a)
        /\ Parent(a) \in Agents /\ here[Parent(a)] => Tail(chain[a]) = chain[Parent(a)]

\* A child whose parent was stopped while it was being created enters the table with a
\* token that is already cancelled (child_token of the snapshot's token).
OrphanBornStopped ==
    [][\A a \in Agents :
        ~here[a] /\ here'[a] /\ chain'[a][1] # Root /\ ~here[chain'[a][1]]
        => Cancelled(tok'[a])]_vars

\* A task whose parent waits for it is answered, if nobody pauses an agent.
TaskAnswered == \A c \in Calls : []<>(pc[c] # "wait")

\* A message queued at an agent is taken up or dropped with the agent.
QueuedIsHandled == \A m \in Msgs : []<>(ph[m] # "queued")

----------------------------------------------------------------------------
(* What the comments say and the code does not do.                          *)

\* "Most child agents that may be running a turn at once."
RunningBounded == Cardinality({a \in Agents : here[a] /\ running[a]}) <= MaxRunning

\* "Serialises writes to one parent's record log from parallel spawns."
SpawnWritesSerialised ==
    \A c, d \in Calls : pc[c] = "write" /\ pc[d] = "write" /\ by[c] = by[d] => c = d

\* "Apply `action` to `target` and its descendants": no agent outlives an ancestor.
NoOrphans ==
    \A a \in Agents : here[a] => \A b \in Ancestors(a) : b = Root \/ here[b]

\* "Clear the conversation": after a restart the agent has none of the old messages.
RestartForgets == \A a \in Agents : here[a] => hist[a] \cap forgotten[a] = {}

\* "Cancels just this turn": a message whose turn was cancelled runs in no other turn.
CancelledStaysCancelled ==
    \A m \in Msgs : out[m] = "cancelled" => ran[m] \in {Nobody, m}

\* "Stopped while the turn ran: ... nobody but a waiter should hear about it."
StoppedTurnIsSilent ==
    \A m \in Msgs : ph[m] \in {"settled", "retire"} /\ rpl[m] \in Everyone
                    => epoch[m] = life[dst[m]]

\* A reply is "Never answered automatically": nothing goes back to who sent it.
ReplyNotAnswered ==
    \A m \in Msgs : m[2] > 1 /\ ph[m] # "none" => dst[m] # frm[<<m[1], m[2] - 1>>]
=============================================================================
