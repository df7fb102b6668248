--------------------------- MODULE AgentHostProofs ---------------------------
(***************************************************************************)
(* Proofs about AgentHost, for any agents, calls, depth and plans, when a  *)
(* spawned agent gets an id that was not used before (FreshIds).           *)
(***************************************************************************)
EXTENDS AgentHost, TLAPS

\* Most steps are first-order reasoning; the ones that need arithmetic or sequences cite SMT.
USE Zenon

-----------------------------------------------------------------------------
(* The inductive invariant. *)

\* A call here has passed its checks, and its child is not in the table yet.
Creating == {"snap", "lock", "write"}

Known(x) == x = Root \/ (x \in Agents /\ life[x] > 0)

\* An id has one place in the tree for ever: it is inserted once, a level below its parent.
Family ==
    /\ \A a \in Agents : here[a] => life[a] > 0
    /\ \A a \in Agents : life[a] > 0 =>
         /\ chain[a] # <<>> /\ Len(chain[a]) < MaxDepth
         /\ Known(chain[a][1])
         /\ Len(chain[a]) = Depth(chain[a][1]) + 1
    /\ \A c \in Calls : pc[c] \in Creating =>
         /\ life[kid[c]] = 0
         /\ \A d \in Calls : kid[d] = kid[c] => d = c
         /\ snapChain[c] = IF by[c] = Root THEN <<>> ELSE chain[by[c]]
         /\ Len(snapChain[c]) + 1 < MaxDepth
    /\ \A c \in Calls : pc[c] \in Creating \cup {"push"} => kid[c] \in Agents /\ Known(by[c])

\* Messages go between agents that were inserted, and replies climb.
Letters ==
    /\ \A m \in Msgs : ph[m] # "none" =>
         /\ Known(dst[m])
         /\ frm[m] \in Everyone => Known(frm[m])
         /\ m[2] > 0 => m[2] + Depth(dst[m]) <= MaxDepth
    /\ \A m \in Msgs : ph[m] \notin {"none", "root", "told", "lost"} => dst[m] \in Agents
    /\ \A m \in Msgs : ph[m] \in {"settled", "retire"} /\ rpl[m] \in Everyone =>
         /\ Known(rpl[m])
         /\ m[2] + 1 + Depth(rpl[m]) <= MaxDepth
    /\ \A m \in Msgs : ph[m] \notin {"settled", "retire"} => rpl[m] = Nobody

\* Nothing is sent twice: a call's request and the reply to a message are new.
Unsent ==
    /\ \A c \in Calls : pc[c] \in Creating \cup {"idle", "push"} => ph[Request(c)] = "none"
    /\ \A m \in Msgs : ph[m] \notin {"retire", "over"} /\ ReplyTo(m) \in Msgs
                       => ph[ReplyTo(m)] = "none"

\* The queues hold just the queued messages, each once, at agents of the table.
Queues ==
    /\ \A a \in Agents : \A i \in 1..Len(queue[a]) :
         ph[queue[a][i]] = "queued" /\ dst[queue[a][i]] = a
    /\ \A a \in Agents : \A i, j \in 1..Len(queue[a]) : queue[a][i] = queue[a][j] => i = j
    /\ \A m \in Msgs : ph[m] = "queued" => \E i \in 1..Len(queue[dst[m]]) : queue[dst[m]][i] = m
    /\ \A a \in Agents : ~here[a] => queue[a] = <<>>

Waiting ==
    \A c \in Calls : pc[c] = "wait" =>
      /\ mode[c] = "task"
      /\ ph[Request(c)] \in InTurn \cup {"queued", "settled"}

Reached(t, C) == \E i \in 1..Len(t) : SubSeq(t, 1, i) \in C

\* A turn, and a call that creates a child, hold the token their agent has in the table,
\* or one that was cancelled.
Stoppable ==
    /\ \A a \in Agents : here[a] => tok[a] # <<>>
    /\ \A m \in Msgs : ph[m] \in {"start", "sched"} =>
         \/ Reached(held[m], cancelled)
         \/ here[dst[m]] /\ held[m] = tok[dst[m]]
    /\ \A c \in Calls : pc[c] \in Creating /\ by[c] # Root =>
         \/ Reached(snapTok[c], cancelled)
         \/ here[by[c]] /\ snapTok[c] = tok[by[c]]

Rest ==
    /\ Family /\ Letters /\ Unsent /\ Queues /\ Waiting /\ Stoppable
    /\ OneTurnAtATime /\ NoLostWakeup

HostInv == TypeOK /\ Rest

-----------------------------------------------------------------------------
(* The shapes of the table, the calls and the messages. *)

TableTypes ==
    /\ here \in [Agents -> BOOLEAN] /\ oneShot \in [Agents -> BOOLEAN]
    /\ running \in [Agents -> BOOLEAN] /\ paused \in [Agents -> BOOLEAN]
    /\ chain \in [Agents -> Seq(Everyone)]
    /\ queue \in [Agents -> Seq(Msgs)] /\ inbox \in [Agents -> Seq(Msgs)]
    /\ hist \in [Agents -> SUBSET Msgs] /\ forgotten \in [Agents -> SUBSET Msgs]
    /\ tok \in [Agents -> Tokens] /\ cancelled \subseteq Tokens
    /\ life \in [Agents -> Nat] /\ ver \in [Agents -> Nat] /\ due \in [Agents -> Nat]
    /\ lockgen \in [Everyone -> Nat]

CallTypes ==
    /\ pc \in [Calls -> {"idle", "snap", "lock", "write", "push", "wait", "done", "gone"}]
    /\ by \in [Calls -> Everyone \cup {User, Nobody}]
    /\ kid \in [Calls -> Agents \cup {Nobody}]
    /\ mode \in [Calls -> {"none", "send", "task", "detached", "spawn"}]
    /\ turn \in [Calls -> Msgs \cup {Nobody}]
    /\ snapChain \in [Calls -> Seq(Everyone)] /\ snapTok \in [Calls -> Tokens]
    /\ lock \in [Calls -> {<<>>} \cup (Everyone \X Nat)]

MsgTypes ==
    /\ ph \in [Msgs -> {"none", "queued", "start", "sched", "finished", "settled", "retire",
                        "over", "root", "told", "lost", "dropped"}]
    /\ frm \in [Msgs -> Everyone \cup {User, Nobody}]
    /\ dst \in [Msgs -> Everyone \cup {Nobody}]
    /\ rpl \in [Msgs -> Everyone \cup {User, Nobody}]
    /\ held \in [Msgs -> Tokens] /\ epoch \in [Msgs -> Nat]
    /\ out \in [Msgs -> {"none", "ok", "cancelled", "failed", "timeout"}]
    /\ conv \in [Msgs -> SUBSET Msgs] /\ ran \in [Msgs -> Msgs \cup {Nobody}]

CountTypes == ops \in Seq(LifecycleActions) /\ failures \in Nat

LEMMA Typed == TypeOK <=> TableTypes /\ CallTypes /\ MsgTypes /\ CountTypes
BY DEF TypeOK, TableTypes, CallTypes, MsgTypes, CountTypes

LEMMA TypedNext == TypeOK' <=> TableTypes' /\ CallTypes' /\ MsgTypes' /\ CountTypes'
BY DEF TypeOK, TableTypes, CallTypes, MsgTypes, CountTypes

LEMMA TableTypesFrame == TableTypes /\ UNCHANGED <<table, stores, forgotten>> => TableTypes'
BY DEF TableTypes, table, stores

LEMMA CallTypesFrame == CallTypes /\ UNCHANGED calls => CallTypes'
BY DEF CallTypes, calls

LEMMA MsgTypesFrame == MsgTypes /\ UNCHANGED <<turns, msgs>> => MsgTypes'
BY DEF MsgTypes, turns, msgs

LEMMA CountTypesFrame == CountTypes /\ UNCHANGED counts => CountTypes'
BY DEF CountTypes, counts

LEMMA PumpAllTypes ==
    ASSUME due \in [Agents -> Nat], NEW h, PumpAll(h)
    PROVE  due' \in [Agents -> Nat] /\ \A b \in Agents : h[b] => due'[b] > 0
BY SMT DEF PumpAll

LEMMA RemovedTypes ==
    ASSUME TableTypes, NEW S \in SUBSET Agents
    PROVE  /\ [b \in Agents |-> here[b] /\ b \notin S] \in [Agents -> BOOLEAN]
           /\ [b \in Agents |-> IF b \in S THEN <<>> ELSE queue[b]] \in [Agents -> Seq(Msgs)]
           /\ [b \in Everyone |-> IF b \in S THEN lockgen[b] + 1 ELSE lockgen[b]]
                \in [Everyone -> Nat]
           /\ cancelled \cup {tok[b] : b \in S} \subseteq Tokens
BY SMT DEF TableTypes

LEMMA Appended ==
    ASSUME NEW E, NEW s \in Seq(E), NEW e \in E
    PROVE  Append(s, e) \in Seq(E) /\ Append(s, e) # <<>>
<1>1. Append(s, e) \in Seq(E) BY SMT
<1>2. Append(s, e) # <<>>
  <2>1. Len(Append(s, e)) = Len(s) + 1 /\ Len(s) \in Nat BY SMT
  <2>2. Len(<<>>) = 0 BY SMT
  <2> QED BY <2>1, <2>2, SMT
<1> QED BY <1>1, <1>2

LEMMA NewToken ==
    ASSUME NEW t \in Tokens, NEW a \in Agents, NEW v \in Nat
    PROVE  Append(t, <<a, v + 1>>) \in Tokens /\ Append(t, <<a, v + 1>>) # <<>>
<1>1. <<a, v + 1>> \in Agents \X Nat BY SMT
<1> QED BY <1>1, Appended DEF Tokens

-----------------------------------------------------------------------------
(* What the messages and tokens are. *)

LEMMA MsgFacts ==
    /\ \A c \in Calls : Request(c) \in Msgs /\ Request(c)[1] = c /\ Request(c)[2] = 0
    /\ \A c, d \in Calls : Request(c) = Request(d) => c = d
    /\ \A m \in Msgs : m[1] \in Calls /\ m[2] \in Nat /\ m[2] <= MaxDepth
    /\ \A m \in Msgs : m[2] < MaxDepth => ReplyTo(m) \in Msgs
    /\ \A m \in Msgs : ReplyTo(m)[2] = m[2] + 1 /\ ReplyTo(m) # m
    /\ \A m \in Msgs : \A c \in Calls : ReplyTo(m) # Request(c)
    /\ \A m, n \in Msgs : ReplyTo(m) = ReplyTo(n) => m = n
    /\ \A m \in Msgs : m[2] = 0 => m = Request(m[1])
BY HostAssumption, SMT DEF Msgs, Hops, Request, ReplyTo

LEMMA Reaches == \A t : Cancelled(t) <=> Reached(t, cancelled)
BY DEF Cancelled, Reached

\* A cancelled token stays so, and so do the tokens made from it.
LEMMA ReachedGrows ==
    ASSUME NEW t, NEW C, NEW D, C \subseteq D, Reached(t, C)
    PROVE  Reached(t, D)
BY DEF Reached

LEMMA ReachedBelow ==
    ASSUME NEW t \in Tokens, NEW e \in Agents \X Nat, NEW C, Reached(t, C)
    PROVE  Reached(Append(t, e), C)
<1>1. PICK i \in 1..Len(t) : SubSeq(t, 1, i) \in C BY DEF Reached
<1>2. i \in 1..Len(Append(t, e)) BY SMT DEF Tokens
<1>3. SubSeq(Append(t, e), 1, i) = SubSeq(t, 1, i) BY SMT DEF Tokens
<1> QED BY <1>1, <1>2, <1>3 DEF Reached

LEMMA ReachedSelf ==
    ASSUME NEW t \in Tokens, t # <<>>, NEW C, t \in C
    PROVE  Reached(t, C)
<1>1. Len(t) \in 1..Len(t) BY SMT DEF Tokens
<1>2. SubSeq(t, 1, Len(t)) = t BY SMT DEF Tokens
<1> QED BY <1>1, <1>2 DEF Reached

-----------------------------------------------------------------------------
(* Frames: what leaves each part of the invariant alone. *)

\* No call begins to create a child, or to push a prompt, in this step.
NothingBegun ==
    \A c \in Calls :
      /\ pc'[c] \in Creating => /\ pc[c] \in Creating /\ by'[c] = by[c]
                                /\ snapChain'[c] = snapChain[c] /\ snapTok'[c] = snapTok[c]
      /\ pc'[c] \in {"idle", "push"} => pc'[c] = pc[c] /\ by'[c] = by[c]

\* Nor to wait.
CallsRunDown ==
    /\ NothingBegun
    /\ \A c \in Calls : pc'[c] = "wait" => pc[c] = "wait" /\ mode'[c] = mode[c]

LEMMA FamilyFrame ==
    ASSUME Family, NothingBegun, UNCHANGED <<life, chain, kid>>,
           \A a \in Agents : here'[a] => here[a]
    PROVE  Family'
BY SMT DEF Family, NothingBegun, Creating, Known, Depth

LEMMA LettersFrame ==
    ASSUME Letters, UNCHANGED <<life, chain, dst, frm, rpl>>,
           \A m \in Msgs : /\ ph[m] = "none" => ph'[m] = "none"
                           /\ ph'[m] \notin {"none", "root", "told", "lost"}
                              => ph[m] \notin {"none", "root", "told", "lost"}
                           /\ ph'[m] \in {"settled", "retire"} <=> ph[m] \in {"settled", "retire"}
    PROVE  Letters'
BY DEF Letters, Known, Depth

LEMMA UnsentFrame ==
    ASSUME Unsent, NothingBegun,
           \A m \in Msgs : /\ ph[m] = "none" => ph'[m] = "none"
                           /\ ph[m] \in {"retire", "over"} => ph'[m] \in {"retire", "over"}
    PROVE  Unsent'
BY MsgFacts DEF Unsent, NothingBegun, Creating

LEMMA QueuesFrame ==
    ASSUME Queues, TypeOK, UNCHANGED <<queue, dst, here>>,
           \A m \in Msgs : ph'[m] = "queued" <=> ph[m] = "queued"
    PROVE  Queues'
<1>1. \A a \in Agents : \A i \in 1..Len(queue[a]) : queue[a][i] \in Msgs BY SMT DEF TypeOK
<1> QED BY <1>1, SMT DEF Queues

LEMMA WaitingFrame ==
    ASSUME Waiting, CallsRunDown,
           \A c \in Calls : ph[Request(c)] \in InTurn \cup {"queued", "settled"} /\ pc'[c] = "wait"
                            => ph'[Request(c)] \in InTurn \cup {"queued", "settled"}
    PROVE  Waiting'
BY DEF Waiting, CallsRunDown, NothingBegun

LEMMA StoppableFrame ==
    ASSUME Stoppable, NothingBegun, UNCHANGED <<here, tok, cancelled>>,
           \A m \in Msgs : ph'[m] \in {"start", "sched"} =>
               ph[m] \in {"start", "sched"} /\ held'[m] = held[m] /\ dst'[m] = dst[m]
    PROVE  Stoppable'
BY SMT DEF Stoppable, NothingBegun

LEMMA OneTurnFrame ==
    ASSUME OneTurnAtATime, UNCHANGED <<here, running>>,
           \A m \in Msgs : /\ ph'[m] \in InTurn <=> ph[m] \in InTurn
                           /\ ph[m] \in InTurn => dst'[m] = dst[m]
    PROVE  OneTurnAtATime'
BY SMT DEF OneTurnAtATime

LEMMA WakeFrame ==
    ASSUME NoLostWakeup, UNCHANGED <<queue, running>>,
           \A a \in Agents : here'[a] => here[a],
           \A a \in Agents : paused[a] => paused'[a],
           \A a \in Agents : due[a] > 0 => due'[a] > 0,
           \A m \in Msgs : ph[m] \in {"settled", "retire"}
                           => ph'[m] \in {"settled", "retire"} /\ dst'[m] = dst[m]
    PROVE  NoLostWakeup'
<1> SUFFICES ASSUME NEW a \in Agents, here'[a], ~running'[a], ~paused'[a], queue'[a] # <<>>
             PROVE  (due[a] > 0 \/ \E m \in Msgs : dst[m] = a /\ ph[m] \in {"settled", "retire"})'
  BY DEF NoLostWakeup
<1>1. due[a] > 0 \/ \E m \in Msgs : dst[m] = a /\ ph[m] \in {"settled", "retire"}
  BY DEF NoLostWakeup
<1> QED BY <1>1

-----------------------------------------------------------------------------
(* Steps that only move a call, or a turn, along. *)

LEMMA CallFrame ==
    ASSUME HostInv, TypeOK', CallsRunDown, UNCHANGED <<table, due, kid, msgs, held, rpl>>
    PROVE  Rest'
<1> USE DEF HostInv, Rest, table, msgs
<1>1. Family' BY FamilyFrame DEF CallsRunDown
<1>2. Letters' BY LettersFrame
<1>3. Unsent' BY UnsentFrame DEF CallsRunDown
<1>4. Queues' BY QueuesFrame
<1>5. Waiting' BY WaitingFrame
<1>6. Stoppable' BY StoppableFrame DEF CallsRunDown
<1>7. OneTurnAtATime' BY OneTurnFrame
<1>8. NoLostWakeup' BY WakeFrame
<1> QED BY <1>1, <1>2, <1>3, <1>4, <1>5, <1>6, <1>7, <1>8

LEMMA TurnFrame ==
    ASSUME HostInv, TypeOK', CallsRunDown, NEW m \in Msgs, NEW v,
           UNCHANGED <<table, due, kid, frm, dst, held, rpl>>,
           ph' = [ph EXCEPT ![m] = v],
           \/ ph[m] \in {"start", "sched"} /\ v \in {"sched", "finished"}
           \/ ph[m] = "root" /\ v \in {"told", "lost"}
    PROVE  Rest'
<1> USE DEF HostInv, Rest, table
<1>0. /\ ph'[m] = v /\ \A n \in Msgs : n # m => ph'[n] = ph[n]
  <2>1. DOMAIN ph = Msgs BY Typed DEF MsgTypes
  <2> QED BY <2>1
<1>1. Family' BY FamilyFrame DEF CallsRunDown
<1>2. Letters' BY <1>0, LettersFrame
<1>3. Unsent' BY <1>0, UnsentFrame DEF CallsRunDown
<1>4. Queues' BY <1>0, QueuesFrame
<1>5. Waiting'
  <2>1. \A n \in Msgs : ph[n] \in InTurn \cup {"queued", "settled"}
                        => ph'[n] \in InTurn \cup {"queued", "settled"}
    BY <1>0 DEF InTurn
  <2> QED BY <2>1, WaitingFrame, MsgFacts
<1>6. Stoppable' BY <1>0, StoppableFrame DEF CallsRunDown
<1>7. OneTurnAtATime' BY <1>0, OneTurnFrame DEF InTurn
<1>8. NoLostWakeup' BY <1>0, WakeFrame
<1> QED BY <1>1, <1>2, <1>3, <1>4, <1>5, <1>6, <1>7, <1>8

-----------------------------------------------------------------------------
(* Calls. *)

LEMMA TakeLockKeeps == ASSUME HostInv, NEW c \in Calls, TakeLock(c) PROVE HostInv'
<1>0. CallTypes /\ by[c] \in Everyone /\ lockgen[by[c]] \in Nat
  BY Typed DEF HostInv, Rest, Family, Creating, Known, Everyone, TableTypes, TakeLock
<1>1. CallTypes' BY <1>0 DEF CallTypes, TakeLock
<1>2. TypeOK'
  BY <1>1, Typed, TypedNext, TableTypesFrame, MsgTypesFrame, CountTypesFrame DEF HostInv, TakeLock
<1>3. CallsRunDown BY <1>0 DEF CallTypes, CallsRunDown, NothingBegun, Creating, TakeLock
<1> QED BY <1>2, <1>3, CallFrame DEF HostInv, TakeLock, table, stores, turns, msgs

LEMMA AcquireKeeps == ASSUME HostInv, NEW c \in Calls, Acquire(c) PROVE HostInv'
<1>0. CallTypes BY Typed DEF HostInv
<1>1. CallTypes' BY <1>0 DEF CallTypes, Acquire
<1>2. TypeOK'
  BY <1>1, Typed, TypedNext, TableTypesFrame, MsgTypesFrame, CountTypesFrame DEF HostInv, Acquire
<1>3. CallsRunDown BY <1>0 DEF CallTypes, CallsRunDown, NothingBegun, Creating, Acquire
<1> QED BY <1>2, <1>3, CallFrame DEF HostInv, Acquire, table, stores, turns, msgs

LEMMA CreatedTypes ==
    ASSUME CallTypes, NEW c \in Calls, NEW v \in {"push", "done", "gone"},
           pc' = [pc EXCEPT ![c] = v], Created(c), UNCHANGED <<by, kid, mode, turn>>
    PROVE  CallTypes'
<1>1. lock' \in [Calls -> {<<>>} \cup (Everyone \X Nat)] BY DEF CallTypes, Created
<1>2. <<>> \in Tokens /\ <<>> \in Seq(Everyone) BY SMT DEF Tokens
<1>3. snapChain' \in [Calls -> Seq(Everyone)] /\ snapTok' \in [Calls -> Tokens]
  BY <1>2 DEF CallTypes, Created
<1>4. pc' \in [Calls -> {"idle", "snap", "lock", "write", "push", "wait", "done", "gone"}]
  BY DEF CallTypes
<1> QED BY <1>1, <1>3, <1>4 DEF CallTypes

LEMMA InsertFailsKeeps == ASSUME HostInv, NEW c \in Calls, InsertFails(c) PROVE HostInv'
<1>0. CallTypes BY Typed DEF HostInv
<1>1. CallTypes' BY <1>0, CreatedTypes DEF InsertFails
<1>2. CountTypes' BY Typed, SMT DEF HostInv, CountTypes, InsertFails
<1>3. TypeOK'
  BY <1>1, <1>2, Typed, TypedNext, TableTypesFrame, MsgTypesFrame DEF HostInv, InsertFails
<1>4. CallsRunDown BY <1>0 DEF CallTypes, CallsRunDown, NothingBegun, Creating, Created, InsertFails
<1> QED BY <1>3, <1>4, CallFrame DEF HostInv, InsertFails, table, stores, turns, msgs

LEMMA PushNothingKeeps == ASSUME HostInv, NEW c \in Calls, PushNothing(c) PROVE HostInv'
<1>0. CallTypes BY Typed DEF HostInv
<1>1. CallTypes' BY <1>0 DEF CallTypes, PushNothing
<1>2. TypeOK'
  BY <1>1, Typed, TypedNext, TableTypesFrame, MsgTypesFrame, CountTypesFrame DEF HostInv, PushNothing
<1>3. CallsRunDown BY <1>0 DEF CallTypes, CallsRunDown, NothingBegun, Creating, PushNothing
<1> QED BY <1>2, <1>3, CallFrame DEF HostInv, PushNothing, table, stores, turns, msgs

LEMMA RootGoneKeeps == ASSUME HostInv, NEW c \in Calls, RootGone(c) PROVE HostInv'
<1>0. CallTypes BY Typed DEF HostInv
<1>1. CallTypes' BY <1>0, CreatedTypes DEF RootGone
<1>2. TypeOK'
  BY <1>1, Typed, TypedNext, TableTypesFrame, MsgTypesFrame, CountTypesFrame DEF HostInv, RootGone
<1>3. CallsRunDown BY <1>0 DEF CallTypes, CallsRunDown, NothingBegun, Creating, Created, RootGone
<1> QED BY <1>2, <1>3, CallFrame DEF HostInv, RootGone, table, stores, turns, msgs

-----------------------------------------------------------------------------
(* Turns. *)

LEMMA ExecuteKeeps == ASSUME HostInv, NEW m \in Msgs, Execute(m) PROVE HostInv'
<1>0. TableTypes /\ MsgTypes /\ dst[m] \in Agents BY Typed DEF HostInv, Rest, Letters, Execute
<1>1. PICK v \in {"sched", "finished"} : ph' = [ph EXCEPT ![m] = v] BY DEF Execute
<1>2. TableTypes'
  <2>1. inbox \in [Agents -> Seq(Msgs)] BY <1>0 DEF TableTypes
  <2>2. inbox' = [inbox EXCEPT ![dst[m]] = Append(@, m)] BY DEF Execute
  <2>3. inbox' \in [Agents -> Seq(Msgs)] BY <1>0, <2>1, <2>2, SMT
  <2> QED BY <1>0, <2>3 DEF TableTypes, Execute, table
<1>3. MsgTypes' BY <1>0, <1>1 DEF MsgTypes, Execute
<1>4. TypeOK'
  BY <1>2, <1>3, Typed, TypedNext, CallTypesFrame, CountTypesFrame DEF HostInv, Execute
<1>5. CallsRunDown BY DEF CallsRunDown, NothingBegun, Execute, calls
<1> QED BY <1>1, <1>4, <1>5, TurnFrame DEF HostInv, Execute, table, calls

LEMMA ExecuteFailsKeeps == ASSUME HostInv, NEW m \in Msgs, ExecuteFails(m) PROVE HostInv'
<1>0. MsgTypes /\ CountTypes BY Typed DEF HostInv
<1>1. MsgTypes' BY <1>0 DEF MsgTypes, ExecuteFails
<1>2. CountTypes' BY <1>0, SMT DEF CountTypes, ExecuteFails
<1>3. TypeOK'
  BY <1>1, <1>2, Typed, TypedNext, TableTypesFrame, CallTypesFrame DEF HostInv, ExecuteFails
<1>4. CallsRunDown BY DEF CallsRunDown, NothingBegun, ExecuteFails, calls
<1> QED BY <1>3, <1>4, TurnFrame DEF HostInv, ExecuteFails, table, stores, calls

LEMMA DrainKeeps == ASSUME HostInv, NEW m \in Msgs, Drain(m) PROVE HostInv'
<1>0. TableTypes /\ MsgTypes /\ dst[m] \in Agents BY Typed DEF HostInv, Rest, Letters, Drain
<1>1. Head(inbox[dst[m]]) \in Msgs /\ Tail(inbox[dst[m]]) \in Seq(Msgs)
  BY <1>0, SMT DEF TableTypes, Drain
<1>2. TableTypes' BY <1>0, <1>1 DEF TableTypes, Drain, table
<1>3. MsgTypes' BY <1>0, <1>1 DEF MsgTypes, Drain, msgs
<1>4. TypeOK'
  BY <1>2, <1>3, Typed, TypedNext, CallTypesFrame, CountTypesFrame DEF HostInv, Drain
<1>5. CallsRunDown BY DEF CallsRunDown, NothingBegun, Drain, calls
<1> QED BY <1>4, <1>5, CallFrame DEF HostInv, Drain, table, calls, msgs

LEMMA CompleteKeeps == ASSUME HostInv, NEW m \in Msgs, Complete(m) PROVE HostInv'
<1>0. MsgTypes BY Typed DEF HostInv
<1>1. MsgTypes' BY <1>0 DEF MsgTypes, Complete
<1>2. TypeOK'
  BY <1>1, Typed, TypedNext, TableTypesFrame, CallTypesFrame, CountTypesFrame DEF HostInv, Complete
<1>3. CallsRunDown BY DEF CallsRunDown, NothingBegun, Complete, calls
<1> QED BY <1>2, <1>3, TurnFrame DEF HostInv, Complete, table, stores, calls

LEMMA DropTurnKeeps ==
    ASSUME HostInv, NEW m \in Msgs, NEW o \in {"cancelled", "failed", "timeout"}, DropTurn(m, o),
           CountTypes',
           UNCHANGED <<table, stores, by, kid, mode, turn, snapChain, snapTok, lock, held, epoch,
                       conv, rpl, ran, frm, dst, forgotten>>
    PROVE  HostInv'
<1>0. CallTypes /\ MsgTypes BY Typed DEF HostInv
<1>1. CallTypes' BY <1>0 DEF CallTypes, DropTurn
<1>2. MsgTypes' BY <1>0 DEF MsgTypes, DropTurn
<1>3. TypeOK' BY <1>1, <1>2, Typed, TypedNext, TableTypesFrame DEF HostInv
<1>4. CallsRunDown BY <1>0 DEF CallTypes, CallsRunDown, NothingBegun, Creating, DropTurn
<1> QED BY <1>3, <1>4, TurnFrame DEF HostInv, DropTurn, table, stores

LEMMA CancelTurnKeeps == ASSUME HostInv, NEW m \in Msgs, CancelTurn(m) PROVE HostInv'
<1>1. CountTypes' BY Typed, CountTypesFrame DEF HostInv, CancelTurn
<1> QED BY <1>1, DropTurnKeeps DEF CancelTurn

LEMMA FailTurnKeeps == ASSUME HostInv, NEW m \in Msgs, FailTurn(m) PROVE HostInv'
<1>1. CountTypes' BY Typed, SMT DEF HostInv, CountTypes, FailTurn
<1>2. PICK o \in {"failed", "timeout"} : DropTurn(m, o) BY DEF FailTurn
<1> QED BY <1>1, <1>2, DropTurnKeeps DEF FailTurn

LEMMA RootHearsKeeps == ASSUME HostInv, NEW m \in Msgs, RootHears(m) PROVE HostInv'
<1>0. MsgTypes /\ CountTypes BY Typed DEF HostInv
<1>1. PICK r \in {"told", "lost"} : /\ ph' = [ph EXCEPT ![m] = r]
                                    /\ failures' = IF r = "lost" THEN failures + 1 ELSE failures
  BY DEF RootHears
<1>2. MsgTypes' BY <1>0, <1>1 DEF MsgTypes, RootHears, turns
<1>3. CountTypes' BY <1>0, <1>1, SMT DEF CountTypes, RootHears
<1>4. TypeOK'
  BY <1>2, <1>3, Typed, TypedNext, TableTypesFrame, CallTypesFrame DEF HostInv, RootHears
<1>5. CallsRunDown BY DEF CallsRunDown, NothingBegun, RootHears, calls
<1> QED BY <1>1, <1>4, <1>5, TurnFrame DEF HostInv, RootHears, table, stores, calls, turns

-----------------------------------------------------------------------------
(* Pump: an agent that is free takes the message at the head of its queue. *)

LEMMA QueueTypes ==
    ASSUME TableTypes
    PROVE  /\ \A b \in Agents : queue[b] \in Seq(Msgs)
           /\ \A b \in Agents : \A i \in 1..Len(queue[b]) : queue[b][i] \in Msgs
<1>1. queue \in [Agents -> Seq(Msgs)] BY DEF TableTypes
<1>2. \A b \in Agents : queue[b] \in Seq(Msgs) BY <1>1
<1> QED BY <1>2, SMT

\* What a start does to the message, and to all others.
LEMMA StartMoves ==
    ASSUME MsgTypes, NEW a \in Agents, NEW m \in Msgs, Start(a, m)
    PROVE  /\ ph'[m] = "start" /\ held'[m] = tok[a]
           /\ \A n \in Msgs : n # m => ph'[n] = ph[n] /\ held'[n] = held[n]
BY DEF MsgTypes, Start

LEMMA StartQueues ==
    ASSUME HostInv, NEW a \in Agents, queue[a] # <<>>, Start(a, Head(queue[a])),
           UNCHANGED <<dst, here>>
    PROVE  Queues'
<1> DEFINE m == Head(queue[a])
<1>0. TableTypes /\ MsgTypes /\ Queues BY Typed DEF HostInv, Rest
<1>1. /\ \A b \in Agents : queue[b] \in Seq(Msgs)
      /\ \A b \in Agents : \A i \in 1..Len(queue[b]) : queue[b][i] \in Msgs
  BY <1>0, QueueTypes
<1>2. 1 \in 1..Len(queue[a]) /\ m = queue[a][1] /\ m \in Msgs BY <1>1, SMT
<1>3. ph[m] = "queued" /\ dst[m] = a BY <1>0, <1>2, SMT DEF Queues
<1>4. /\ Len(Tail(queue[a])) = Len(queue[a]) - 1
      /\ \A i \in 1..Len(Tail(queue[a])) :
            i + 1 \in 1..Len(queue[a]) /\ Tail(queue[a])[i] = queue[a][i + 1]
  BY <1>1, SMT
<1>5. queue'[a] = Tail(queue[a]) /\ \A b \in Agents : b # a => queue'[b] = queue[b]
  BY <1>0 DEF TableTypes, Start
<1>6. ph'[m] = "start" /\ \A n \in Msgs : n # m => ph'[n] = ph[n]
  BY <1>0, <1>2, StartMoves, ZenonT(30)
<1>7. ASSUME NEW b \in Agents, NEW i \in 1..Len(queue'[b])
      PROVE  ph'[queue'[b][i]] = "queued" /\ dst'[queue'[b][i]] = b
  <2>1. CASE b = a
    <3>1. i + 1 \in 1..Len(queue[a]) /\ queue'[a][i] = queue[a][i + 1] BY <1>4, <1>5, <2>1
    <3>2. queue[a][i + 1] # m BY <1>0, <1>2, <3>1, SMT DEF Queues
    <3>3. /\ queue[a][i + 1] \in Msgs
          /\ ph[queue[a][i + 1]] = "queued" /\ dst[queue[a][i + 1]] = a
      BY <1>0, <1>1, <3>1, SMT DEF Queues
    <3> QED BY <1>6, <2>1, <3>1, <3>2, <3>3
  <2>2. CASE b # a
    <3>1. queue[b][i] # m BY <1>0, <1>3, <1>5, <2>2, SMT DEF Queues
    <3>2. queue[b][i] \in Msgs /\ ph[queue[b][i]] = "queued" /\ dst[queue[b][i]] = b
      BY <1>0, <1>1, <1>5, <2>2, SMT DEF Queues
    <3> QED BY <1>5, <1>6, <2>2, <3>1, <3>2
  <2> QED BY <2>1, <2>2
<1>8. ASSUME NEW b \in Agents, NEW i \in 1..Len(queue'[b]), NEW j \in 1..Len(queue'[b]),
             queue'[b][i] = queue'[b][j]
      PROVE  i = j
  <2>1. CASE b = a
    <3>1. /\ i + 1 \in 1..Len(queue[a]) /\ j + 1 \in 1..Len(queue[a])
          /\ queue[a][i + 1] = queue[a][j + 1]
      BY <1>4, <1>5, <1>8, <2>1
    <3>2. i + 1 = j + 1 BY <1>0, <3>1 DEF Queues
    <3>3. i \in Int /\ j \in Int BY <1>8, SMT
    <3> QED BY <3>2, <3>3, SMT
  <2>2. CASE b # a BY <1>0, <1>5, <1>8, <2>2, SMT DEF Queues
  <2> QED BY <2>1, <2>2
<1>9. ASSUME NEW n \in Msgs, ph'[n] = "queued"
      PROVE  \E i \in 1..Len(queue'[dst'[n]]) : queue'[dst'[n]][i] = n
  <2>1. n # m /\ ph[n] = "queued" BY <1>6, <1>9
  <2>2. dst[n] \in Agents BY <2>1 DEF HostInv, Rest, Letters
  <2>3. PICK i \in 1..Len(queue[dst[n]]) : queue[dst[n]][i] = n BY <1>0, <2>1 DEF Queues
  <2>4. CASE dst[n] = a
    <3>1. i # 1 BY <1>2, <2>1, <2>3, <2>4
    <3>2. i - 1 \in 1..Len(Tail(queue[a])) /\ (i - 1) + 1 = i BY <1>1, <1>4, <2>3, <2>4, <3>1, SMT
    <3>3. queue'[a][i - 1] = n BY <1>4, <1>5, <2>3, <2>4, <3>2
    <3> QED BY <1>5, <2>4, <3>2, <3>3
  <2>5. CASE dst[n] # a BY <1>5, <2>2, <2>3, <2>5
  <2> QED BY <2>4, <2>5
<1>10. \A b \in Agents : ~here'[b] => queue'[b] = <<>>
  <2>1. here[a] BY <1>0 DEF Queues
  <2> QED BY <1>0, <1>5, <2>1 DEF Queues
<1> QED BY <1>7, <1>8, <1>9, <1>10 DEF Queues

LEMMA StartKeeps ==
    ASSUME HostInv, NEW a \in Agents, here[a], ~running[a], queue[a] # <<>>,
           Start(a, Head(queue[a])), due' = [due EXCEPT ![a] = @ - 1],
           UNCHANGED <<here, paused, chain, life, tok, cancelled, calls, rpl, frm, dst>>
    PROVE  Rest'
<1> DEFINE m == Head(queue[a])
<1>0. TableTypes /\ MsgTypes BY Typed DEF HostInv
<1>1. m \in Msgs /\ 1 \in 1..Len(queue[a]) /\ m = queue[a][1] BY <1>0, SMT DEF TableTypes
<1>2. ph[m] = "queued" /\ dst[m] = a BY <1>1, SMT DEF HostInv, Rest, Queues
<1>3. /\ ph'[m] = "start" /\ held'[m] = tok[a]
      /\ \A n \in Msgs : n # m => ph'[n] = ph[n] /\ held'[n] = held[n]
  BY <1>0, <1>1, StartMoves
<1>4. CallsRunDown BY DEF CallsRunDown, NothingBegun, calls
<1>5. Family' BY <1>4, FamilyFrame DEF HostInv, Rest, calls, CallsRunDown
<1>6. Letters' BY <1>2, <1>3, LettersFrame DEF HostInv, Rest
<1>7. Unsent' BY <1>2, <1>3, <1>4, UnsentFrame DEF HostInv, Rest, CallsRunDown
<1>8. Queues' BY StartQueues
<1>9. Waiting'
  <2>1. \A n \in Msgs : ph[n] \in InTurn \cup {"queued", "settled"}
                        => ph'[n] \in InTurn \cup {"queued", "settled"}
    BY <1>3 DEF InTurn
  <2> QED BY <1>4, <2>1, WaitingFrame, MsgFacts DEF HostInv, Rest
<1>10. Stoppable'
  <2>1. Stoppable BY DEF HostInv, Rest
  <2>2. \A n \in Msgs : ph'[n] \in {"start", "sched"} =>
           \/ Reached(held'[n], cancelled')
           \/ here'[dst'[n]] /\ held'[n] = tok'[dst'[n]]
    BY <1>2, <1>3, <2>1 DEF Stoppable
  <2> QED BY <2>1, <2>2 DEF Stoppable, calls
<1>11. OneTurnAtATime'
  <2>1. OneTurnAtATime BY DEF HostInv, Rest
  <2>2. \A n \in Msgs : dst[n] = a => ph[n] \notin InTurn BY <2>1 DEF OneTurnAtATime
  <2>3. running'[a] = TRUE /\ \A b \in Agents : b # a => running'[b] = running[b]
    BY <1>0 DEF TableTypes, Start
  <2>4. ph'[m] \in InTurn BY <1>3 DEF InTurn
  <2> QED BY <1>1, <1>2, <1>3, <2>1, <2>2, <2>3, <2>4, SMT DEF OneTurnAtATime
<1>12. NoLostWakeup'
  <2>1. running'[a] = TRUE /\ \A b \in Agents : b # a => running'[b] = running[b]
    BY <1>0 DEF TableTypes, Start
  <2>2. \A b \in Agents : b # a => queue'[b] = queue[b] /\ due'[b] = due[b]
    BY <1>0 DEF TableTypes, Start
  <2>3. \A n \in Msgs : ph[n] \in {"settled", "retire"} => ph'[n] = ph[n] BY <1>2, <1>3
  <2> QED BY <2>1, <2>2, <2>3, SMT DEF HostInv, Rest, NoLostWakeup
<1> QED BY <1>5, <1>6, <1>7, <1>8, <1>9, <1>10, <1>11, <1>12 DEF Rest

LEMMA PumpKeeps == ASSUME HostInv, NEW a \in Agents, Pump(a) PROVE HostInv'
<1>0. TableTypes /\ MsgTypes BY Typed DEF HostInv
<1>1. due' \in [Agents -> Nat] BY <1>0, SMT DEF TableTypes, Pump, PumpIf
<1>2. CallTypes' /\ CountTypes'
  BY Typed, CallTypesFrame, CountTypesFrame DEF HostInv, Pump, PumpIf
<1>3. CASE ~running[a] /\ here[a] /\ ~paused[a] /\ queue[a] # <<>>
  <2>1. Start(a, Head(queue[a])) BY <1>3 DEF Pump, PumpIf
  <2>2. Head(queue[a]) \in Msgs /\ Tail(queue[a]) \in Seq(Msgs) BY <1>0, <1>3, SMT DEF TableTypes
  <2>3. TableTypes' BY <1>0, <1>1, <2>1, <2>2 DEF TableTypes, Pump, PumpIf, Start
  <2>4. tok[a] \in Tokens /\ life[a] \in Nat /\ hist[a] \in SUBSET Msgs BY <1>0 DEF TableTypes
  <2>5. MsgTypes' BY <1>0, <2>1, <2>2, <2>4 DEF MsgTypes, Pump, PumpIf, Start
  <2>6. TypeOK' BY <1>2, <2>3, <2>5, TypedNext
  <2>7. Rest' BY <1>3, <2>1, StartKeeps DEF Pump, PumpIf
  <2> QED BY <2>6, <2>7 DEF HostInv
<1>4. CASE ~(~running[a] /\ here[a] /\ ~paused[a] /\ queue[a] # <<>>)
  <2>1. UNCHANGED <<queue, running, ph, held, epoch, conv>> BY <1>4 DEF Pump, PumpIf
  <2>2. TableTypes' BY <1>0, <1>1, <2>1 DEF TableTypes, Pump, PumpIf
  <2>3. MsgTypes' BY <1>0, <2>1 DEF MsgTypes, Pump, PumpIf
  <2>4. TypeOK' BY <1>2, <2>2, <2>3, TypedNext
  <2>5. CallsRunDown BY DEF CallsRunDown, NothingBegun, Pump, PumpIf, calls
  <2>6. Family' BY <2>5, FamilyFrame DEF HostInv, Rest, Pump, PumpIf, calls, CallsRunDown
  <2>7. Letters' BY <2>1, LettersFrame DEF HostInv, Rest, Pump, PumpIf
  <2>8. Unsent' BY <2>1, <2>5, UnsentFrame DEF HostInv, Rest, CallsRunDown
  <2>9. Queues' BY <2>1, QueuesFrame DEF HostInv, Rest, Pump, PumpIf
  <2>10. Waiting' BY <2>1, <2>5, WaitingFrame DEF HostInv, Rest
  <2>11. Stoppable' BY <2>1, <2>5, StoppableFrame DEF HostInv, Rest, Pump, PumpIf, CallsRunDown
  <2>12. OneTurnAtATime' BY <2>1, OneTurnFrame DEF HostInv, Rest, Pump, PumpIf
  <2>13. NoLostWakeup'
    <3>1. \A b \in Agents : b # a => due'[b] = due[b] BY <1>0 DEF TableTypes, Pump, PumpIf
    <3> QED BY <1>4, <2>1, <3>1, ZenonT(30) DEF HostInv, Rest, NoLostWakeup, Pump, PumpIf
  <2> QED BY <2>4, <2>6, <2>7, <2>8, <2>9, <2>10, <2>11, <2>12, <2>13 DEF HostInv, Rest
<1> QED BY <1>3, <1>4

-----------------------------------------------------------------------------
(* Pause and resume. *)

LEMMA LifecycleTypes ==
    ASSUME CountTypes, NEW a \in Agents, NEW action \in LifecycleActions, Lifecycle(a, action),
           UNCHANGED failures
    PROVE  CountTypes'
BY SMT DEF CountTypes, Lifecycle

\* A step that touches only the paused flags and the pumps that are due.
LEMMA PausedFrame ==
    ASSUME HostInv, CountTypes', paused' \in [Agents -> BOOLEAN], due' \in [Agents -> Nat],
           UNCHANGED <<here, chain, oneShot, running, queue, hist, tok, life, ver, cancelled, inbox,
                       lockgen, calls, turns, msgs, forgotten>>,
           NoLostWakeup'
    PROVE  HostInv'
<1>1. TableTypes' BY Typed DEF HostInv, TableTypes
<1>2. TypeOK' BY <1>1, Typed, TypedNext, CallTypesFrame, MsgTypesFrame DEF HostInv
<1>3. CallsRunDown BY DEF CallsRunDown, NothingBegun, calls
<1>4. Family' BY <1>3, FamilyFrame DEF HostInv, Rest, calls, CallsRunDown
<1>5. Letters' BY LettersFrame DEF HostInv, Rest, turns, msgs
<1>6. Unsent' BY <1>3, UnsentFrame DEF HostInv, Rest, msgs, CallsRunDown
<1>7. Queues' BY QueuesFrame DEF HostInv, Rest, msgs
<1>8. Waiting' BY <1>3, WaitingFrame DEF HostInv, Rest, msgs
<1>9. Stoppable' BY <1>3, StoppableFrame DEF HostInv, Rest, turns, msgs, CallsRunDown
<1>10. OneTurnAtATime' BY OneTurnFrame DEF HostInv, Rest, msgs
<1> QED BY <1>2, <1>4, <1>5, <1>6, <1>7, <1>8, <1>9, <1>10 DEF HostInv, Rest

LEMMA SetPausedTypes ==
    ASSUME TableTypes, NEW a, NEW p \in BOOLEAN, SetPaused(a, p)
    PROVE  paused' \in [Agents -> BOOLEAN]
BY DEF TableTypes, SetPaused

LEMMA PauseKeeps == ASSUME HostInv, NEW a \in Agents, Pause(a) PROVE HostInv'
<1>0. TableTypes /\ CountTypes BY Typed DEF HostInv
<1>1. CountTypes' BY <1>0, LifecycleTypes DEF Pause, LifecycleActions
<1>2. paused' \in [Agents -> BOOLEAN] BY <1>0, SetPausedTypes DEF Pause
<1>3. due' \in [Agents -> Nat] BY <1>0 DEF TableTypes, Pause, stores
<1>4. NoLostWakeup'
  <2>1. \A b \in Agents : paused[b] => paused'[b] BY DEF Pause, SetPaused
  <2> QED BY <2>1, WakeFrame DEF HostInv, Rest, Pause, stores, msgs
<1> QED BY <1>1, <1>2, <1>3, <1>4, PausedFrame DEF Pause, stores

LEMMA ResumeKeeps == ASSUME HostInv, NEW a \in Agents, Resume(a) PROVE HostInv'
<1>0. TableTypes /\ CountTypes BY Typed DEF HostInv
<1>1. CountTypes' BY <1>0, LifecycleTypes DEF Resume, LifecycleActions
<1>2. paused' \in [Agents -> BOOLEAN] BY <1>0, SetPausedTypes DEF Resume
<1>3. due' \in [Agents -> Nat] /\ \A b \in Agents : here[b] => due'[b] > 0
  BY <1>0, PumpAllTypes DEF TableTypes, Resume
<1>4. NoLostWakeup' BY <1>3 DEF NoLostWakeup, Resume
<1> QED BY <1>1, <1>2, <1>3, <1>4, PausedFrame DEF Resume

-----------------------------------------------------------------------------
(* The end of a turn. *)

\* Whoever a result goes to was inserted, and is near enough to the root for the reply.
LEMMA ReplyTarget ==
    ASSUME HostInv, NEW m \in Msgs, ph[m] = "finished",
           NEW to, to = IF m[2] = 0 THEN frm[m] ELSE Parent(dst[m])
    PROVE  /\ to \in Everyone \cup {User, Nobody}
           /\ to \in Everyone => Known(to) /\ m[2] + 1 + Depth(to) <= MaxDepth
<1>0. TableTypes /\ MsgTypes /\ Family /\ Letters BY Typed DEF HostInv, Rest
<1>1. dst[m] \in Agents /\ life[dst[m]] > 0
  BY <1>0, HostAssumption DEF Letters, Known
<1>2. CASE m[2] = 0
  <2>1. to = frm[m] /\ to \in Everyone \cup {User, Nobody} BY <1>0, <1>2 DEF MsgTypes
  <2>2. ASSUME to \in Everyone PROVE Known(to) /\ m[2] + 1 + Depth(to) <= MaxDepth
    <3>1. Known(to) BY <1>0, <2>1, <2>2 DEF Letters
    <3>2. CASE to = Root BY <1>2, <3>1, <3>2, HostAssumption, SMT DEF Depth
    <3>3. CASE to # Root
      <4>1. to \in Agents /\ life[to] > 0 BY <3>1, <3>3 DEF Known
      <4>2. Len(chain[to]) < MaxDepth /\ Len(chain[to]) \in Nat
        BY <1>0, <4>1, SMT DEF Family, TableTypes
      <4> QED BY <1>2, <3>1, <3>3, <4>2, HostAssumption, SMT DEF Depth
    <3> QED BY <3>2, <3>3
  <2> QED BY <2>1, <2>2
<1>3. CASE m[2] # 0
  <2>1. to = chain[dst[m]][1] BY <1>3 DEF Parent
  <2>2. Known(to) /\ Len(chain[dst[m]]) = Depth(to) + 1 BY <1>0, <1>1, <2>1 DEF Family
  <2>3. m[2] > 0 BY <1>3, MsgFacts, SMT
  <2>4. m[2] + Depth(dst[m]) <= MaxDepth /\ Depth(dst[m]) = Len(chain[dst[m]])
    BY <1>0, <1>1, <2>3, HostAssumption DEF Letters, Depth
  <2>5. Depth(to) \in Nat BY <1>0, <2>2, SMT DEF Known, Depth, TableTypes
  <2>6. m[2] \in Nat BY MsgFacts
  <2>7. m[2] + 1 + Depth(to) <= MaxDepth BY <2>2, <2>4, <2>5, <2>6, HostAssumption, SMT
  <2> QED BY <2>2, <2>7 DEF Known, Everyone
<1> QED BY <1>2, <1>3

LEMMA SettleKeeps == ASSUME HostInv, NEW m \in Msgs, Settle(m) PROVE HostInv'
<1> DEFINE a == dst[m]
           to == IF m[2] = 0 THEN frm[m] ELSE Parent(dst[m])
<1>0. TableTypes /\ MsgTypes /\ ph[m] = "finished" BY Typed DEF HostInv, Settle, SettleTo
<1>1. a \in Agents BY <1>0 DEF HostInv, Rest, Letters
<1>2. /\ to \in Everyone \cup {User, Nobody}
      /\ to \in Everyone => Known(to) /\ m[2] + 1 + Depth(to) <= MaxDepth
  BY <1>0, ReplyTarget
<1>3. /\ UNCHANGED <<here, chain, oneShot, paused, queue, tok, life, ver, cancelled, stores, calls,
                     held, epoch, out, conv, ran, frm, dst, forgotten, counts>>
      /\ ph' = [ph EXCEPT ![m] = "settled"]
  BY DEF Settle, SettleTo
<1>4. /\ running' \in [Agents -> BOOLEAN] /\ hist' \in [Agents -> SUBSET Msgs]
      /\ rpl' \in [Msgs -> Everyone \cup {User, Nobody}]
      /\ rpl'[m] \in {to, Nobody} /\ \A n \in Msgs : n # m => rpl'[n] = rpl[n]
      /\ here[a] => running'[a] = FALSE
      /\ \A b \in Agents : b # a => running'[b] = running[b]
  <2>1. CASE here[a]
    <3>1. /\ running' = [running EXCEPT ![a] = FALSE]
          /\ hist' = [hist EXCEPT ![a] = IF out[m] = "ok" THEN conv[m] ELSE @]
          /\ rpl' = [rpl EXCEPT ![m] = to]
      BY <2>1 DEF Settle, SettleTo
    <3>2. conv[m] \in SUBSET Msgs /\ hist[a] \in SUBSET Msgs BY <1>0, <1>1 DEF MsgTypes, TableTypes
    <3>3. hist' \in [Agents -> SUBSET Msgs] /\ running' \in [Agents -> BOOLEAN]
      BY <1>0, <1>1, <3>1, <3>2 DEF TableTypes
    <3>4. rpl' \in [Msgs -> Everyone \cup {User, Nobody}] BY <1>0, <1>2, <3>1 DEF MsgTypes
    <3>5. rpl'[m] = to /\ \A n \in Msgs : n # m => rpl'[n] = rpl[n] BY <1>0, <3>1 DEF MsgTypes
    <3>6. running'[a] = FALSE /\ \A b \in Agents : b # a => running'[b] = running[b]
      BY <1>0, <1>1, <3>1 DEF TableTypes
    <3> QED BY <3>3, <3>4, <3>5, <3>6
  <2>2. CASE ~here[a]
    <3>1. UNCHANGED <<running, hist, rpl>> BY <2>2 DEF Settle, SettleTo
    <3>2. rpl[m] = Nobody BY <1>0 DEF HostInv, Rest, Letters
    <3> QED BY <1>0, <2>2, <3>1, <3>2 DEF TableTypes, MsgTypes
  <2> QED BY <2>1, <2>2
<1>5. ph'[m] = "settled" /\ \A n \in Msgs : n # m => ph'[n] = ph[n] BY <1>0, <1>3 DEF MsgTypes
<1>6. TypeOK'
  <2>1. TableTypes' BY <1>0, <1>3, <1>4 DEF TableTypes, stores
  <2>2. MsgTypes' BY <1>0, <1>3, <1>4 DEF MsgTypes
  <2> QED BY <1>3, <2>1, <2>2, Typed, TypedNext, CallTypesFrame, CountTypesFrame DEF HostInv
<1>7. CallsRunDown BY <1>3 DEF CallsRunDown, NothingBegun, calls
<1>8. Family' BY <1>3, <1>7, FamilyFrame DEF HostInv, Rest, calls, CallsRunDown
<1>9. Letters'
  <2>0. Letters BY DEF HostInv, Rest
  <2>1. \A n \in Msgs : ph[n] # "none" <=> ph'[n] # "none" BY <1>0, <1>5
  <2>2. \A x : (Known(x) <=> (x = Root \/ (x \in Agents /\ life'[x] > 0)))
    BY <1>3 DEF Known
  <2>3. \A x : Depth(x) = IF x = Root THEN 0 ELSE Len(chain'[x]) BY <1>3 DEF Depth
  <2>4. Nobody \notin Everyone BY HostAssumption
  <2>5. \A n \in Msgs : ph'[n] \in {"settled", "retire"} /\ rpl'[n] \in Everyone =>
           Known(rpl'[n]) /\ n[2] + 1 + Depth(rpl'[n]) <= MaxDepth
    BY <1>2, <1>4, <1>5, <2>0, <2>4, SMT DEF Letters
  <2>6. \A n \in Msgs : ph'[n] \notin {"settled", "retire"} => rpl'[n] = Nobody
    BY <1>4, <1>5, <2>0 DEF Letters
  <2>7. \A n \in Msgs : ph'[n] \notin {"none", "root", "told", "lost"} => dst[n] \in Agents
    BY <1>1, <1>5, <2>0 DEF Letters
  <2>8. \A n \in Msgs : ph'[n] # "none" =>
         /\ Known(dst[n])
         /\ frm[n] \in Everyone => Known(frm[n])
         /\ n[2] > 0 => n[2] + Depth(dst[n]) <= MaxDepth
    BY <2>0, <2>1 DEF Letters
  <2> QED BY <1>3, <2>2, <2>3, <2>5, <2>6, <2>7, <2>8 DEF Letters, Known, Depth
<1>10. Unsent' BY <1>0, <1>5, <1>7, UnsentFrame DEF HostInv, Rest, CallsRunDown
<1>11. Queues' BY <1>0, <1>3, <1>5, QueuesFrame DEF HostInv, Rest
<1>12. Waiting'
  <2>1. \A n \in Msgs : ph[n] \in InTurn \cup {"queued", "settled"}
                        => ph'[n] \in InTurn \cup {"queued", "settled"}
    BY <1>5
  <2> QED BY <1>7, <2>1, WaitingFrame, MsgFacts DEF HostInv, Rest
<1>13. Stoppable' BY <1>0, <1>3, <1>5, <1>7, StoppableFrame DEF HostInv, Rest, CallsRunDown
<1>14. OneTurnAtATime'
  <2>0. OneTurnAtATime BY DEF HostInv, Rest
  <2>1. ph[m] \in InTurn /\ ph'[m] \notin InTurn BY <1>0, <1>5 DEF InTurn
  <2>2. \A n \in Msgs : dst[n] = a => ph'[n] \notin InTurn
    BY <1>1, <1>5, <2>0, <2>1, SMT DEF OneTurnAtATime
  <2> QED BY <1>3, <1>4, <1>5, <2>0, <2>1, <2>2, SMT DEF OneTurnAtATime
<1>15. NoLostWakeup'
  <2>0. NoLostWakeup BY DEF HostInv, Rest
  <2>1. \A n \in Msgs : ph[n] \in {"settled", "retire"} => ph'[n] = ph[n] BY <1>0, <1>5
  <2> QED BY <1>3, <1>4, <1>5, <2>0, <2>1, SMT DEF NoLostWakeup, stores
<1> QED BY <1>6, <1>8, <1>9, <1>10, <1>11, <1>12, <1>13, <1>14, <1>15 DEF HostInv, Rest

\* The waiter of a message hears of it, and no other call is touched.
LEMMA AnswerWaiterKeeps == ASSUME HostInv, NEW m \in Msgs, AnswerWaiter(m) PROVE HostInv'
<1>0. /\ CallTypes /\ MsgTypes /\ ph[m] = "settled" /\ m[2] = 0 /\ m[1] \in Calls
      /\ m = Request(m[1])
  BY Typed, MsgFacts DEF HostInv, AnswerWaiter, AnswerIf, Waits
<1>1. /\ pc' = [pc EXCEPT ![m[1]] = IF @ = "wait" THEN "done" ELSE @]
      /\ ph' = [ph EXCEPT ![m] = "retire"]
      /\ UNCHANGED <<table, stores, by, kid, mode, turn, snapChain, snapTok, lock, turns, frm, dst,
                     forgotten, counts>>
  BY DEF AnswerWaiter, AnswerIf
<1>2. /\ pc'[m[1]] = IF pc[m[1]] = "wait" THEN "done" ELSE pc[m[1]]
      /\ \A c \in Calls : c # m[1] => pc'[c] = pc[c]
      /\ ph'[m] = "retire" /\ \A n \in Msgs : n # m => ph'[n] = ph[n]
  BY <1>0, <1>1 DEF CallTypes, MsgTypes
<1>3. CallTypes' BY <1>0, <1>1 DEF CallTypes
<1>4. MsgTypes' BY <1>0, <1>1 DEF MsgTypes, turns
<1>5. TypeOK'
  BY <1>1, <1>3, <1>4, Typed, TypedNext, TableTypesFrame, CountTypesFrame DEF HostInv
<1>6. CallsRunDown BY <1>1, <1>2, SMT DEF CallsRunDown, NothingBegun, Creating
<1>7. Family' BY <1>1, <1>6, FamilyFrame DEF HostInv, Rest, table, CallsRunDown
<1>8. Letters' BY <1>0, <1>1, <1>2, LettersFrame DEF HostInv, Rest, table, turns
<1>9. Unsent' BY <1>0, <1>2, <1>6, UnsentFrame DEF HostInv, Rest, CallsRunDown
<1>10. Queues' BY <1>0, <1>1, <1>2, QueuesFrame DEF HostInv, Rest, table
<1>11. Waiting'
  <2>1. \A c \in Calls : pc'[c] = "wait" => c # m[1] /\ Request(c) # m /\ Request(c) \in Msgs
    BY <1>0, <1>2, MsgFacts, SMT
  <2> QED BY <1>2, <1>6, <2>1, WaitingFrame DEF HostInv, Rest
<1>12. Stoppable' BY <1>0, <1>1, <1>2, <1>6, StoppableFrame DEF HostInv, Rest, table, turns, CallsRunDown
<1>13. OneTurnAtATime' BY <1>0, <1>1, <1>2, OneTurnFrame DEF HostInv, Rest, table, InTurn
<1>14. NoLostWakeup' BY <1>0, <1>1, <1>2, WakeFrame DEF HostInv, Rest, table, stores
<1> QED BY <1>5, <1>7, <1>8, <1>9, <1>10, <1>11, <1>12, <1>13, <1>14 DEF HostInv, Rest

-----------------------------------------------------------------------------
(* A message is sent: by Send, PushPrompt or Answer. *)

\* x is new; `from' sends it to `to', and the message it answers, if any, is done with.
Sends(x, from, to) ==
    /\ ph'[x] = IF to = Root THEN "root" ELSE IF here[to] THEN "queued" ELSE "lost"
    /\ dst'[x] = to /\ frm'[x] = from
    /\ \A n \in Msgs : n # x =>
         /\ dst'[n] = dst[n] /\ frm'[n] = frm[n]
         /\ ph'[n] = ph[n] \/ (ph[n] = "settled" /\ ph'[n] = "retire")
    /\ IF to # Root /\ here[to] THEN Pushed(to, x) ELSE UNCHANGED <<queue, due>>
    /\ UNCHANGED <<here, chain, running, paused, tok, life, cancelled, rpl, held>>

LEMMA SendsPhases ==
    ASSUME NEW x \in Msgs, NEW from, NEW to, Sends(x, from, to), ph[x] = "none"
    PROVE  \A n \in Msgs : /\ ph[n] \in {"settled", "retire"} => ph'[n] \in {"settled", "retire"}
                           /\ ph'[n] \in {"settled", "retire"} => ph[n] \in {"settled", "retire"}
                           /\ ph'[n] \in InTurn <=> ph[n] \in InTurn
                           /\ ph'[n] \in {"start", "sched"} => ph[n] \in {"start", "sched"}
                           /\ ph[n] # "none" => n # x /\ ph'[n] # "none"
                           /\ ph'[n] \notin {"retire", "over"} => ph[n] \notin {"retire", "over"}
BY DEF Sends, InTurn

LEMMA SendsLetters ==
    ASSUME HostInv, NEW x \in Msgs, NEW from, NEW to \in Everyone, Sends(x, from, to),
           ph[x] = "none", Known(to), from \in Everyone => Known(from),
           x[2] > 0 => x[2] + Depth(to) <= MaxDepth
    PROVE  Letters'
<1>0. Letters BY DEF HostInv, Rest
<1>1. /\ \A y : (y = Root \/ (y \in Agents /\ life'[y] > 0)) <=> Known(y)
      /\ \A y : (IF y = Root THEN 0 ELSE Len(chain'[y])) = Depth(y)
  BY DEF Sends, Known, Depth
<1>2. \A n \in Msgs : ph'[n] # "none" =>
         /\ Known(dst'[n])
         /\ frm'[n] \in Everyone => Known(frm'[n])
         /\ n[2] > 0 => n[2] + Depth(dst'[n]) <= MaxDepth
  <2> TAKE n \in Msgs
  <2>1. CASE n = x BY <2>1 DEF Sends
  <2>2. CASE n # x
    <3>1. dst'[n] = dst[n] /\ frm'[n] = frm[n] /\ (ph'[n] # "none" => ph[n] # "none")
      BY <2>2 DEF Sends
    <3> QED BY <1>0, <3>1 DEF Letters
  <2> QED BY <2>1, <2>2
<1>3. \A n \in Msgs : ph'[n] \notin {"none", "root", "told", "lost"} => dst'[n] \in Agents
  <2> TAKE n \in Msgs
  <2>1. CASE n = x BY <2>1 DEF Sends, Everyone
  <2>2. CASE n # x BY <1>0, <2>2 DEF Sends, Letters
  <2> QED BY <2>1, <2>2
<1>4. \A n \in Msgs : ph'[n] \in {"settled", "retire"} /\ rpl'[n] \in Everyone =>
         Known(rpl'[n]) /\ n[2] + 1 + Depth(rpl'[n]) <= MaxDepth
  BY <1>0, SendsPhases DEF Letters, Sends
<1>5. \A n \in Msgs : ph'[n] \notin {"settled", "retire"} => rpl'[n] = Nobody
  BY <1>0, SendsPhases DEF Letters, Sends
<1> QED BY <1>1, <1>2, <1>3, <1>4, <1>5 DEF Letters, Known, Depth

LEMMA SendsUnsent ==
    ASSUME HostInv, NEW x \in Msgs, NEW from, NEW to, Sends(x, from, to), ph[x] = "none",
           \A c \in Calls : pc'[c] \in Creating \cup {"idle", "push"} =>
               pc[c] \in Creating \cup {"idle", "push"} /\ Request(c) # x,
           \A n \in Msgs : ReplyTo(n) = x => ph'[n] \in {"retire", "over"}
    PROVE  Unsent'
<1>0. Unsent BY DEF HostInv, Rest
<1>1. \A n \in Msgs : n # x /\ ph[n] = "none" => ph'[n] = "none" BY DEF Sends
<1>2. \A c \in Calls : pc'[c] \in Creating \cup {"idle", "push"} => ph'[Request(c)] = "none"
  BY <1>0, <1>1, MsgFacts DEF Unsent
<1>3. \A n \in Msgs : ph'[n] \notin {"retire", "over"} /\ ReplyTo(n) \in Msgs
                      => ph'[ReplyTo(n)] = "none"
  BY <1>0, <1>1, SendsPhases DEF Unsent
<1> QED BY <1>2, <1>3 DEF Unsent

LEMMA SendsQueues ==
    ASSUME HostInv, NEW x \in Msgs, NEW from, NEW to \in Everyone, Sends(x, from, to),
           ph[x] = "none"
    PROVE  Queues'
<1>0. TableTypes /\ Queues /\ Letters BY Typed DEF HostInv, Rest
<1>1. /\ \A b \in Agents : queue[b] \in Seq(Msgs)
      /\ \A b \in Agents : \A i \in 1..Len(queue[b]) : queue[b][i] \in Msgs
  BY <1>0, QueueTypes
<1>2. \A b \in Agents : \A i \in 1..Len(queue[b]) :
         queue[b][i] # x /\ ph'[queue[b][i]] = "queued" /\ dst'[queue[b][i]] = b
  BY <1>0, <1>1, SMT DEF Queues, Sends
<1>3. ASSUME NEW n \in Msgs, n # x, ph'[n] = "queued"
      PROVE  /\ dst'[n] = dst[n] /\ dst[n] \in Agents
             /\ \E i \in 1..Len(queue[dst[n]]) : queue[dst[n]][i] = n
  <2>1. ph[n] = "queued" /\ dst'[n] = dst[n] BY <1>3 DEF Sends
  <2>2. dst[n] \in Agents BY <1>0, <2>1 DEF Letters
  <2> QED BY <1>0, <2>1, <2>2 DEF Queues
<1>4. CASE to # Root /\ here[to]
  <2>1. to \in Agents BY <1>4 DEF Everyone
  <2>2. /\ queue'[to] = Append(queue[to], x)
        /\ \A b \in Agents : b # to => queue'[b] = queue[b]
    BY <1>0, <1>4, <2>1 DEF Sends, Pushed, TableTypes
  <2>3. /\ Len(queue'[to]) = Len(queue[to]) + 1 /\ Len(queue[to]) \in Nat
        /\ queue'[to][Len(queue[to]) + 1] = x
        /\ \A i \in 1..Len(queue[to]) : queue'[to][i] = queue[to][i]
    BY <1>1, <2>1, <2>2, SMT
  <2>4. ph'[x] = "queued" /\ dst'[x] = to BY <1>4 DEF Sends
  <2>5. ASSUME NEW b \in Agents, NEW i \in 1..Len(queue'[b])
        PROVE  ph'[queue'[b][i]] = "queued" /\ dst'[queue'[b][i]] = b
    <3>1. CASE b # to BY <1>2, <2>2, <3>1, SMT
    <3>2. CASE b = to /\ i = Len(queue[to]) + 1 BY <2>3, <2>4, <3>2
    <3>3. CASE b = to /\ i # Len(queue[to]) + 1
      <4>1. i \in 1..Len(queue[to]) BY <2>3, <3>3, SMT
      <4> QED BY <1>2, <2>1, <2>3, <3>3, <4>1, SMT
    <3> QED BY <3>1, <3>2, <3>3
  <2>6. ASSUME NEW b \in Agents, NEW i \in 1..Len(queue'[b]), NEW j \in 1..Len(queue'[b]),
               queue'[b][i] = queue'[b][j]
        PROVE  i = j
    <3>1. CASE b # to BY <1>0, <2>2, <2>6, <3>1, SMT DEF Queues
    <3>2. CASE b = to
      <4>1. \A k \in 1..Len(queue'[to]) : k = Len(queue[to]) + 1 \/ k \in 1..Len(queue[to])
        BY <2>3, SMT
      <4>2. \A k \in 1..Len(queue[to]) : queue'[to][k] = queue[to][k] /\ queue[to][k] # x
        BY <1>2, <2>1, <2>3, ZenonT(60)
      <4>3. CASE i \in 1..Len(queue[to]) /\ j \in 1..Len(queue[to])
        BY <1>0, <2>1, <2>6, <3>2, <4>2, <4>3, SMT DEF Queues
      <4>4. CASE ~(i \in 1..Len(queue[to]) /\ j \in 1..Len(queue[to]))
        BY <2>3, <2>6, <3>2, <4>1, <4>2, <4>4
      <4> QED BY <4>3, <4>4
    <3> QED BY <3>1, <3>2
  <2>7. ASSUME NEW n \in Msgs, ph'[n] = "queued"
        PROVE  \E i \in 1..Len(queue'[dst'[n]]) : queue'[dst'[n]][i] = n
    <3>1. CASE n = x
      <4>1. Len(queue[to]) + 1 \in 1..Len(queue'[to]) BY <2>3, SMT
      <4> QED BY <2>3, <2>4, <3>1, <4>1
    <3>2. CASE n # x
      <4>1. PICK i \in 1..Len(queue[dst[n]]) : queue[dst[n]][i] = n BY <1>3, <2>7, <3>2
      <4>2. dst'[n] = dst[n] /\ dst[n] \in Agents BY <1>3, <2>7, <3>2
      <4>3. CASE dst[n] # to BY <2>2, <4>1, <4>2, <4>3
      <4>4. CASE dst[n] = to
        <5>1. i \in 1..Len(queue'[to]) /\ queue'[to][i] = n BY <2>3, <4>1, <4>4, SMT
        <5> QED BY <4>2, <4>4, <5>1
      <4> QED BY <4>3, <4>4
    <3> QED BY <3>1, <3>2
  <2>8. \A b \in Agents : ~here'[b] => queue'[b] = <<>> BY <1>0, <1>4, <2>2, SMT DEF Queues, Sends
  <2> QED BY <2>5, <2>6, <2>7, <2>8 DEF Queues
<1>5. CASE ~(to # Root /\ here[to])
  <2>1. UNCHANGED <<queue, here>> /\ ph'[x] # "queued" BY <1>5 DEF Sends
  <2> QED BY <1>0, <1>2, <1>3, <2>1, SMT DEF Queues
<1> QED BY <1>4, <1>5

LEMMA SendsTurns ==
    ASSUME HostInv, NEW x \in Msgs, NEW from, NEW to \in Everyone, Sends(x, from, to),
           ph[x] = "none"
    PROVE  OneTurnAtATime' /\ NoLostWakeup'
<1>0. TableTypes /\ OneTurnAtATime /\ NoLostWakeup BY Typed DEF HostInv, Rest
<1>1. \A n \in Msgs : ph[n] \in InTurn \cup {"settled", "retire"} => dst'[n] = dst[n]
  BY DEF Sends, InTurn
<1>2. OneTurnAtATime' BY <1>0, <1>1, SendsPhases, OneTurnFrame DEF Sends
<1>3. NoLostWakeup'
  <2>1. CASE to # Root /\ here[to]
    <3>1. to \in Agents BY <2>1 DEF Everyone
    <3>2. /\ due'[to] = due[to] + 1 /\ due[to] \in Nat
          /\ \A b \in Agents : b # to => due'[b] = due[b] /\ queue'[b] = queue[b]
      BY <1>0, <2>1, <3>1, ZenonT(30) DEF Sends, Pushed, TableTypes
    <3>3. due'[to] > 0 BY <3>2, SMT
    <3>4. ASSUME NEW b \in Agents, here'[b], ~running'[b], ~paused'[b], queue'[b] # <<>>
          PROVE  due'[b] > 0 \/ \E n \in Msgs : dst'[n] = b /\ ph'[n] \in {"settled", "retire"}
      <4>1. CASE b = to BY <3>3, <4>1
      <4>2. CASE b # to
        <5>1. here[b] /\ ~running[b] /\ ~paused[b] /\ queue[b] # <<>>
          BY <3>2, <3>4, <4>2 DEF Sends
        <5>2. due[b] > 0 \/ \E n \in Msgs : dst[n] = b /\ ph[n] \in {"settled", "retire"}
          BY <1>0, <5>1 DEF NoLostWakeup
        <5> QED BY <1>1, <3>2, <4>2, <5>2, SendsPhases
      <4> QED BY <4>1, <4>2
    <3> QED BY <3>4 DEF NoLostWakeup
  <2>2. CASE ~(to # Root /\ here[to])
    <3>1. UNCHANGED <<queue, due>> BY <2>2 DEF Sends
    <3> QED BY <1>0, <1>1, <3>1, SendsPhases, WakeFrame DEF Sends
  <2> QED BY <2>1, <2>2
<1> QED BY <1>2, <1>3

LEMMA SendsTypes ==
    ASSUME TableTypes, NEW x \in Msgs, NEW to \in Everyone,
           IF to # Root /\ here[to] THEN Pushed(to, x) ELSE UNCHANGED <<queue, due>>
    PROVE  queue' \in [Agents -> Seq(Msgs)] /\ due' \in [Agents -> Nat]
<1>1. CASE to # Root /\ here[to]
  <2>1. to \in Agents BY <1>1 DEF Everyone
  <2>2. Append(queue[to], x) \in Seq(Msgs) /\ due[to] + 1 \in Nat BY <2>1, SMT DEF TableTypes
  <2>3. queue \in [Agents -> Seq(Msgs)] /\ due \in [Agents -> Nat] BY DEF TableTypes
  <2>4. Pushed(to, x) BY <1>1
  <2> QED BY <2>2, <2>3, <2>4 DEF Pushed
<1>2. CASE ~(to # Root /\ here[to]) BY <1>2 DEF TableTypes
<1> QED BY <1>1, <1>2

LEMMA CallerFacts ==
    ASSUME HostInv, NEW from \in Callers
    PROVE  Known(from[1]) /\ from[1] \in Everyone /\ from[2] \in Msgs \cup {Nobody}
<1>1. CASE from = <<Root, Nobody>> BY <1>1 DEF Known, Everyone
<1>2. CASE from # <<Root, Nobody>>
  <2>1. PICK t \in Msgs : ph[t] = "sched" /\ from = <<dst[t], t>> BY <1>2 DEF Callers
  <2>2. dst[t] \in Agents /\ Known(dst[t]) BY <2>1 DEF HostInv, Rest, Letters
  <2> QED BY <2>1, <2>2 DEF Everyone
<1> QED BY <1>1, <1>2

LEMMA SendKeeps == ASSUME HostInv, NEW c \in Calls, Send(c) PROVE HostInv'
<1> DEFINE x == Request(c)
<1>0. TableTypes /\ CallTypes /\ MsgTypes /\ x \in Msgs BY Typed, MsgFacts DEF HostInv
<1>1. ph[x] = "none" BY DEF HostInv, Rest, Unsent, Send
<1>2. PICK from \in Callers \cup {<<User, Nobody>>}, to \in Everyone :
        /\ IF to = Root THEN from[1] # User ELSE here[to]
        /\ Deliver(from[1], to, x, ph)
        /\ by' = [by EXCEPT ![c] = from[1]]
        /\ turn' = [turn EXCEPT ![c] = from[2]]
  BY DEF Send
<1>3. /\ from[1] \in Everyone \cup {User} /\ from[2] \in Msgs \cup {Nobody}
      /\ from[1] \in Everyone => Known(from[1])
  <2>1. CASE from \in Callers BY <2>1, CallerFacts
  <2>2. CASE from = <<User, Nobody>> BY <2>2, HostAssumption
  <2> QED BY <2>1, <2>2
<1>4. Known(to)
  <2>1. CASE to = Root BY <2>1 DEF Known
  <2>2. CASE to # Root
    <3>1. to \in Agents /\ here[to] BY <1>2, <2>2 DEF Everyone
    <3> QED BY <3>1 DEF HostInv, Rest, Family, Known
  <2> QED BY <2>1, <2>2
<1>5. /\ UNCHANGED <<here, chain, oneShot, running, paused, hist, tok, life, ver, cancelled,
                     inbox, lockgen, kid, snapChain, snapTok, lock, turns, forgotten, counts>>
      /\ mode' = [mode EXCEPT ![c] = "send"] /\ pc' = [pc EXCEPT ![c] = "done"]
  BY DEF Send
<1>6. Sends(x, from[1], to)
  <2>1. /\ ph'[x] = IF to = Root THEN "root" ELSE IF here[to] THEN "queued" ELSE "lost"
        /\ dst'[x] = to /\ frm'[x] = from[1]
        /\ \A n \in Msgs : n # x => dst'[n] = dst[n] /\ frm'[n] = frm[n] /\ ph'[n] = ph[n]
    BY <1>0, <1>2 DEF Deliver, MsgTypes
  <2> QED BY <1>2, <1>5, <2>1 DEF Sends, Deliver, turns
<1>7. TypeOK'
  <2>1. queue' \in [Agents -> Seq(Msgs)] /\ due' \in [Agents -> Nat]
    BY <1>0, <1>2, SendsTypes DEF Deliver
  <2>2. TableTypes' BY <1>0, <1>5, <2>1 DEF TableTypes
  <2>3. CallTypes' BY <1>0, <1>2, <1>3, <1>5 DEF CallTypes
  <2>4. MsgTypes'
    <3>1. frm' \in [Msgs -> Everyone \cup {User, Nobody}] /\ dst' \in [Msgs -> Everyone \cup {Nobody}]
      BY <1>0, <1>2, <1>3 DEF Deliver, MsgTypes
    <3>2. ph' \in [Msgs -> {"none", "queued", "start", "sched", "finished", "settled", "retire",
                            "over", "root", "told", "lost", "dropped"}]
      BY <1>0, <1>2 DEF Deliver, MsgTypes
    <3> QED BY <1>0, <1>5, <3>1, <3>2 DEF MsgTypes, turns
  <2> QED BY <1>5, <2>2, <2>3, <2>4, Typed, TypedNext, CountTypesFrame DEF HostInv
<1>8. /\ pc'[c] = "done"
      /\ \A d \in Calls : d # c => pc'[d] = pc[d] /\ by'[d] = by[d] /\ mode'[d] = mode[d]
  BY <1>0, <1>2, <1>5 DEF CallTypes
<1>9. CallsRunDown BY <1>5, <1>8 DEF CallsRunDown, NothingBegun, Creating
<1>10. Family' BY <1>5, <1>9, FamilyFrame DEF HostInv, Rest, CallsRunDown
<1>11. Letters' BY <1>0, <1>1, <1>3, <1>4, <1>6, SendsLetters, MsgFacts, SMT
<1>12. Unsent'
  <2>1. \A d \in Calls : pc'[d] \in Creating \cup {"idle", "push"} =>
           pc[d] \in Creating \cup {"idle", "push"} /\ Request(d) # x
    BY <1>8, MsgFacts DEF Creating
  <2>2. \A n \in Msgs : ReplyTo(n) # x BY MsgFacts
  <2> QED BY <1>0, <1>1, <1>6, <2>1, <2>2, SendsUnsent
<1>13. Queues' BY <1>0, <1>1, <1>6, SendsQueues
<1>14. Waiting'
  <2>1. \A d \in Calls : pc'[d] = "wait" => Request(d) # x /\ ph'[Request(d)] = ph[Request(d)]
    BY <1>0, <1>2, <1>8, MsgFacts, SMT DEF Deliver, MsgTypes
  <2> QED BY <1>9, <2>1, WaitingFrame, ZenonT(30) DEF HostInv, Rest
<1>15. Stoppable'
  BY <1>0, <1>1, <1>6, <1>9, SendsPhases, StoppableFrame DEF HostInv, Rest, Sends, CallsRunDown
<1>16. OneTurnAtATime' /\ NoLostWakeup' BY <1>0, <1>1, <1>6, SendsTurns
<1> QED BY <1>7, <1>10, <1>11, <1>12, <1>13, <1>14, <1>15, <1>16 DEF HostInv, Rest

LEMMA PushPromptKeeps == ASSUME HostInv, NEW c \in Calls, PushPrompt(c) PROVE HostInv'
<1> DEFINE x == Request(c)
           k == kid[c]
<1>0. TableTypes /\ CallTypes /\ MsgTypes /\ x \in Msgs BY Typed, MsgFacts DEF HostInv
<1>1. ph[x] = "none" /\ here[k] BY ZenonT(30) DEF HostInv, Rest, Unsent, PushPrompt
<1>2. k \in Agents /\ k \in Everyone /\ k # Root /\ Known(by[c]) /\ by[c] \in Everyone
  BY HostAssumption, SMT DEF HostInv, Rest, Family, PushPrompt, Everyone, Known
<1>3. Known(k) BY <1>1, <1>2 DEF HostInv, Rest, Family, Known
<1>4. /\ UNCHANGED <<here, chain, oneShot, running, paused, hist, tok, life, ver, cancelled,
                     inbox, lockgen, by, kid, mode, turn, snapChain, snapTok, lock, turns,
                     forgotten, counts>>
      /\ pc' = [pc EXCEPT ![c] = IF mode[c] = "task" THEN "wait" ELSE "done"]
      /\ Pushed(k, x)
  BY DEF PushPrompt
<1>5. /\ ph'[x] = "queued" /\ dst'[x] = k /\ frm'[x] = by[c]
      /\ \A n \in Msgs : n # x => dst'[n] = dst[n] /\ frm'[n] = frm[n] /\ ph'[n] = ph[n]
  BY <1>0 DEF PushPrompt, MsgTypes
<1>6. Sends(x, by[c], k) BY <1>1, <1>2, <1>4, <1>5 DEF Sends, turns
<1>7. TypeOK'
  <2>1. queue' \in [Agents -> Seq(Msgs)] /\ due' \in [Agents -> Nat]
    BY <1>0, <1>1, <1>2, <1>4, SendsTypes
  <2>2. TableTypes' BY <1>0, <1>4, <2>1 DEF TableTypes
  <2>3. CallTypes' BY <1>0, <1>4 DEF CallTypes
  <2>4. MsgTypes'
    <3>1. frm' \in [Msgs -> Everyone \cup {User, Nobody}] /\ dst' \in [Msgs -> Everyone \cup {Nobody}]
      BY <1>0, <1>2 DEF PushPrompt, MsgTypes
    <3>2. ph' \in [Msgs -> {"none", "queued", "start", "sched", "finished", "settled", "retire",
                            "over", "root", "told", "lost", "dropped"}]
      BY <1>0 DEF PushPrompt, MsgTypes
    <3> QED BY <1>0, <1>4, <3>1, <3>2 DEF MsgTypes, turns
  <2> QED BY <1>4, <2>2, <2>3, <2>4, Typed, TypedNext, CountTypesFrame DEF HostInv
<1>8. /\ pc'[c] = IF mode[c] = "task" THEN "wait" ELSE "done"
      /\ \A d \in Calls : d # c => pc'[d] = pc[d]
  BY <1>0, <1>4, ZenonT(30) DEF CallTypes
<1>9. NothingBegun
  <2>1. UNCHANGED <<by, snapChain, snapTok>> BY <1>4
  <2>2. pc'[c] \in {"wait", "done"} /\ \A d \in Calls : d # c => pc'[d] = pc[d] BY <1>8
  <2> QED BY <2>1, <2>2 DEF NothingBegun, Creating
<1>10. Family' BY <1>4, <1>9, FamilyFrame, ZenonT(30) DEF HostInv, Rest
<1>11. Letters' BY <1>0, <1>1, <1>2, <1>3, <1>6, SendsLetters, MsgFacts, SMT
<1>12. Unsent'
  <2>1. \A d \in Calls : pc'[d] \in Creating \cup {"idle", "push"} =>
           pc[d] \in Creating \cup {"idle", "push"} /\ Request(d) # x
    BY <1>8, MsgFacts DEF Creating
  <2>2. \A n \in Msgs : ReplyTo(n) # x BY MsgFacts
  <2> QED BY <1>0, <1>1, <1>6, <2>1, <2>2, SendsUnsent
<1>13. Queues' BY <1>0, <1>1, <1>2, <1>6, SendsQueues, ZenonT(30)
<1>14. Waiting'
  <2>1. \A d \in Calls : d # c => Request(d) \in Msgs /\ Request(d) # x BY MsgFacts
  <2> QED BY <1>4, <1>5, <1>8, <2>1, SMT DEF HostInv, Rest, Waiting
<1>15. Stoppable'
  BY <1>0, <1>1, <1>6, <1>9, SendsPhases, StoppableFrame DEF HostInv, Rest, Sends
<1>16. OneTurnAtATime' /\ NoLostWakeup' BY <1>0, <1>1, <1>2, <1>6, SendsTurns
<1> QED BY <1>7, <1>10, <1>11, <1>12, <1>13, <1>14, <1>15, <1>16 DEF HostInv, Rest

LEMMA AnswerKeeps == ASSUME HostInv, NEW m \in Msgs, Answer(m) PROVE HostInv'
<1> DEFINE x == ReplyTo(m)
           to == rpl[m]
<1>0. TableTypes /\ CallTypes /\ MsgTypes /\ ph[m] = "settled" /\ ~Waits(m)
  BY Typed DEF HostInv, Answer
<1>1. UNCHANGED <<here, chain, oneShot, running, paused, hist, tok, life, ver, cancelled, inbox,
                  lockgen, calls, turns, forgotten, counts>>
  BY DEF Answer
<1>2. CallsRunDown BY <1>1 DEF CallsRunDown, NothingBegun, calls
<1>3. Family' BY <1>1, <1>2, FamilyFrame DEF HostInv, Rest, CallsRunDown, calls
\* The turn of a message someone waits for answers the waiter instead.
<1>4. \A c \in Calls : pc[c] = "wait" => Request(c) # m
  BY <1>0, MsgFacts, SMT DEF HostInv, Rest, Waiting, Waits
<1>5. CASE to \in Everyone
  <2>1. Known(to) /\ m[2] + 1 + Depth(to) <= MaxDepth BY <1>0, <1>5, ZenonT(30) DEF HostInv, Rest, Letters
  <2>2. Depth(to) \in Nat BY <1>0, <2>1, SMT DEF Known, Depth, TableTypes
  <2>3. x \in Msgs /\ x # m /\ x[2] = m[2] + 1 BY <2>1, <2>2, MsgFacts, HostAssumption, SMT
  <2>4. ph[x] = "none" BY <1>0, <2>3 DEF HostInv, Rest, Unsent
  <2>5. Deliver(dst[m], to, x, [ph EXCEPT ![m] = "retire"]) BY <1>5 DEF Answer
  <2>6. /\ ph'[x] = IF to = Root THEN "root" ELSE IF here[to] THEN "queued" ELSE "lost"
        /\ dst'[x] = to /\ frm'[x] = dst[m] /\ ph'[m] = "retire"
        /\ \A n \in Msgs : n # x => dst'[n] = dst[n] /\ frm'[n] = frm[n]
        /\ \A n \in Msgs : n # x /\ n # m => ph'[n] = ph[n]
    BY <1>0, <2>3, <2>5 DEF Deliver, MsgTypes
  <2>7. Sends(x, dst[m], to) BY <1>0, <1>1, <2>5, <2>6 DEF Sends, Deliver, turns
  <2>8. dst[m] \in Agents /\ Known(dst[m]) BY <1>0 DEF HostInv, Rest, Letters
  <2>9. TypeOK'
    <3>1. queue' \in [Agents -> Seq(Msgs)] /\ due' \in [Agents -> Nat]
      BY <1>0, <1>5, <2>3, <2>5, SendsTypes DEF Deliver
    <3>2. TableTypes' BY <1>0, <1>1, <3>1 DEF TableTypes
    <3>3. frm' \in [Msgs -> Everyone \cup {User, Nobody}] /\ dst' \in [Msgs -> Everyone \cup {Nobody}]
      BY <1>0, <1>5, <2>5, <2>8 DEF Deliver, MsgTypes, Everyone
    <3>4. ph' \in [Msgs -> {"none", "queued", "start", "sched", "finished", "settled", "retire",
                            "over", "root", "told", "lost", "dropped"}]
      BY <1>0, <2>5 DEF Deliver, MsgTypes
    <3>5. MsgTypes' BY <1>0, <1>1, <3>3, <3>4 DEF MsgTypes, turns
    <3> QED BY <1>1, <3>2, <3>5, Typed, TypedNext, CallTypesFrame, CountTypesFrame DEF HostInv
  <2>10. Letters' BY <1>5, <2>1, <2>3, <2>4, <2>7, <2>8, SendsLetters
  <2>11. Unsent'
    <3>1. \A c \in Calls : pc'[c] = pc[c] /\ Request(c) # x BY <1>1, MsgFacts DEF calls
    <3>2. \A n \in Msgs : ReplyTo(n) = x => ph'[n] \in {"retire", "over"} BY <2>6, MsgFacts
    <3> QED BY <2>3, <2>4, <2>7, <3>1, <3>2, SendsUnsent
  <2>12. Queues' BY <1>5, <2>3, <2>4, <2>7, SendsQueues
  <2>13. Waiting'
    <3>1. \A c \in Calls : pc'[c] = "wait" => ph'[Request(c)] = ph[Request(c)]
      BY <1>1, <1>4, <2>6, MsgFacts DEF calls
    <3> QED BY <1>2, <3>1, WaitingFrame DEF HostInv, Rest
  <2>14. Stoppable'
    BY <1>2, <2>3, <2>4, <2>7, SendsPhases, StoppableFrame DEF HostInv, Rest, Sends, CallsRunDown
  <2>15. OneTurnAtATime' /\ NoLostWakeup' BY <1>5, <2>3, <2>4, <2>7, SendsTurns
  <2> QED BY <1>3, <2>9, <2>10, <2>11, <2>12, <2>13, <2>14, <2>15 DEF HostInv, Rest
<1>6. CASE to \notin Everyone
  <2>1. ph' = [ph EXCEPT ![m] = "retire"] /\ UNCHANGED <<frm, dst, queue, due>>
    BY <1>6 DEF Answer
  <2>2. ph'[m] = "retire" /\ \A n \in Msgs : n # m => ph'[n] = ph[n] BY <1>0, <2>1 DEF MsgTypes
  <2>3. TypeOK'
    <3>1. TableTypes' BY <1>0, <1>1, <2>1 DEF TableTypes
    <3>2. MsgTypes' BY <1>0, <1>1, <2>1 DEF MsgTypes, turns
    <3> QED BY <1>1, <3>1, <3>2, Typed, TypedNext, CallTypesFrame, CountTypesFrame DEF HostInv
  <2>4. Letters' BY <1>0, <1>1, <2>1, <2>2, LettersFrame DEF HostInv, Rest, turns
  <2>5. Unsent' BY <1>0, <1>2, <2>2, UnsentFrame DEF HostInv, Rest, CallsRunDown
  <2>6. Queues' BY <1>0, <1>1, <2>1, <2>2, QueuesFrame DEF HostInv, Rest
  <2>7. Waiting'
    <3>1. \A c \in Calls : pc'[c] = "wait" => ph'[Request(c)] = ph[Request(c)]
      BY <1>1, <1>4, <2>2, MsgFacts DEF calls
    <3> QED BY <1>2, <3>1, WaitingFrame DEF HostInv, Rest
  <2>8. Stoppable'
    BY <1>0, <1>1, <1>2, <2>1, <2>2, StoppableFrame DEF HostInv, Rest, turns, CallsRunDown
  <2>9. OneTurnAtATime' BY <1>0, <1>1, <2>1, <2>2, OneTurnFrame DEF HostInv, Rest, InTurn
  <2>10. NoLostWakeup' BY <1>0, <1>1, <2>1, <2>2, WakeFrame DEF HostInv, Rest
  <2> QED BY <1>3, <2>3, <2>4, <2>5, <2>6, <2>7, <2>8, <2>9, <2>10 DEF HostInv, Rest
<1> QED BY <1>5, <1>6

-----------------------------------------------------------------------------
(* Agents leave the table: Stop, Restart and Retire. *)

LEMMA QueuedThere ==
    ASSUME HostInv, NEW S \in SUBSET Agents
    PROVE  QueuedIn(S) = {n \in Msgs : ph[n] = "queued" /\ dst[n] \in S}
<1>0. TableTypes /\ Queues BY Typed DEF HostInv, Rest
<1>1. \A b \in Agents : \A i \in 1..Len(queue[b]) :
        queue[b][i] \in Msgs /\ ph[queue[b][i]] = "queued" /\ dst[queue[b][i]] = b
  BY <1>0, QueueTypes, SMT DEF Queues
<1>2. \A n \in QueuedIn(S) : n \in Msgs /\ ph[n] = "queued" /\ dst[n] \in S
  <2> TAKE n \in QueuedIn(S)
  <2>1. PICK b \in S : n \in {queue[b][i] : i \in 1..Len(queue[b])} BY DEF QueuedIn
  <2>2. PICK i \in 1..Len(queue[b]) : n = queue[b][i] BY <2>1
  <2> QED BY <1>1, <2>1, <2>2
<1>3. \A n \in Msgs : ph[n] = "queued" /\ dst[n] \in S => n \in QueuedIn(S)
  <2> SUFFICES ASSUME NEW n \in Msgs, ph[n] = "queued", dst[n] \in S PROVE n \in QueuedIn(S)
    OBVIOUS
  <2>1. PICK i \in 1..Len(queue[dst[n]]) : queue[dst[n]][i] = n BY <1>0 DEF Queues
  <2>2. n \in {queue[dst[n]][j] : j \in 1..Len(queue[dst[n]])} BY <2>1
  <2> QED BY <2>2 DEF QueuedIn
<1> QED BY <1>2, <1>3

\* The agents of S leave, with their queues; every token that is replaced or leaves the
\* table is cancelled; and a turn may be over with it.
Leaves(S) ==
    /\ \A b \in Agents : here'[b] <=> here[b] /\ b \notin S
    /\ \A b \in Agents : queue'[b] = IF b \in S THEN <<>> ELSE queue[b]
    /\ cancelled \subseteq cancelled'
    /\ \A b \in Agents : here[b] => tok[b] \in cancelled' \/ (b \notin S /\ tok'[b] = tok[b])
    /\ \A b \in Agents : here'[b] => tok'[b] # <<>>
    /\ \A n \in Msgs : IF ph[n] = "queued" /\ dst[n] \in S THEN ph'[n] = "dropped"
                       ELSE ph'[n] = ph[n] \/ (ph[n] = "retire" /\ ph'[n] = "over")
    /\ \A n \in Msgs : ph'[n] # "over" => held'[n] = held[n] /\ rpl'[n] = rpl[n]
    /\ \A n \in Msgs : ph'[n] = "over" => rpl'[n] = Nobody
    /\ \A c \in Calls : pc'[c] = IF /\ ph[Request(c)] = "queued" /\ dst[Request(c)] \in S
                                    /\ pc[c] = "wait"
                                 THEN "done" ELSE pc[c]
    /\ UNCHANGED <<chain, running, life, by, kid, mode, snapChain, snapTok, frm, dst>>

LEMMA LeavesKeeps ==
    ASSUME HostInv, NEW S \in SUBSET Agents, Leaves(S)
    PROVE  /\ Family' /\ Letters' /\ Unsent' /\ Queues' /\ Waiting' /\ Stoppable'
           /\ OneTurnAtATime'
<1>0. /\ TableTypes /\ MsgTypes
      /\ Family /\ Letters /\ Unsent /\ Queues /\ Waiting /\ Stoppable /\ OneTurnAtATime
  BY Typed DEF HostInv, Rest
<1>1. CallsRunDown BY DEF CallsRunDown, NothingBegun, Creating, Leaves
<1>2. \A b \in Agents : here'[b] => here[b] BY DEF Leaves
<1>3. Family' BY <1>0, <1>1, <1>2, FamilyFrame DEF CallsRunDown, Leaves
<1>4. Letters'
  <2>1. /\ \A y : (y = Root \/ (y \in Agents /\ life'[y] > 0)) <=> Known(y)
        /\ \A y : (IF y = Root THEN 0 ELSE Len(chain'[y])) = Depth(y)
    BY DEF Leaves, Known, Depth
  <2>2. \A n \in Msgs : /\ ph'[n] # "none" => ph[n] # "none"
                        /\ ph'[n] \notin {"none", "root", "told", "lost"}
                           => ph[n] \notin {"none", "root", "told", "lost"}
    BY DEF Leaves
  <2>3. \A n \in Msgs : ph'[n] \in {"settled", "retire"}
                        => ph[n] \in {"settled", "retire"} /\ rpl'[n] = rpl[n]
    BY DEF Leaves
  <2>4. \A n \in Msgs : ph'[n] \notin {"settled", "retire"} => rpl'[n] = Nobody
    BY <1>0 DEF Leaves, Letters
  <2>5. \A n \in Msgs : ph'[n] # "none" =>
           /\ Known(dst'[n])
           /\ frm'[n] \in Everyone => Known(frm'[n])
           /\ n[2] > 0 => n[2] + Depth(dst'[n]) <= MaxDepth
    BY <1>0, <2>2 DEF Leaves, Letters
  <2>6. \A n \in Msgs : ph'[n] \notin {"none", "root", "told", "lost"} => dst'[n] \in Agents
    BY <1>0, <2>2 DEF Leaves, Letters
  <2>7. \A n \in Msgs : ph'[n] \in {"settled", "retire"} /\ rpl'[n] \in Everyone =>
           Known(rpl'[n]) /\ n[2] + 1 + Depth(rpl'[n]) <= MaxDepth
    BY <1>0, <2>3 DEF Letters
  <2> QED BY <2>1, <2>4, <2>5, <2>6, <2>7 DEF Letters, Known, Depth
<1>5. Unsent'
  <2>1. \A n \in Msgs : /\ ph[n] = "none" => ph'[n] = "none"
                        /\ ph[n] \in {"retire", "over"} => ph'[n] \in {"retire", "over"}
    BY DEF Leaves
  <2> QED BY <1>0, <1>1, <2>1, UnsentFrame DEF CallsRunDown
<1>6. Queues'
  <2>1. \A b \in Agents : \A i \in 1..Len(queue[b]) : queue[b][i] \in Msgs BY <1>0, QueueTypes
  <2>2. \A b \in Agents : \A i \in 1..Len(queue'[b]) : b \notin S /\ queue'[b] = queue[b]
    <3> TAKE b \in Agents
    <3>1. CASE b \in S
      <4>1. queue'[b] = <<>> BY <3>1 DEF Leaves
      <4> QED BY <4>1, SMT
    <3>2. CASE b \notin S BY <3>2 DEF Leaves
    <3> QED BY <3>1, <3>2
  <2>3. \A n \in Msgs : ph'[n] = "queued" <=> ph[n] = "queued" /\ dst[n] \notin S
    BY DEF Leaves
  <2>4. \A b \in Agents : \A i \in 1..Len(queue'[b]) :
          ph'[queue'[b][i]] = "queued" /\ dst'[queue'[b][i]] = b
    BY <1>0, <2>1, <2>2, <2>3, SMT DEF Queues, Leaves
  <2>5. \A b \in Agents : \A i, j \in 1..Len(queue'[b]) : queue'[b][i] = queue'[b][j] => i = j
    BY <1>0, <2>2, SMT DEF Queues
  <2>6. \A n \in Msgs : ph'[n] = "queued"
                        => \E i \in 1..Len(queue'[dst'[n]]) : queue'[dst'[n]][i] = n
    <3> SUFFICES ASSUME NEW n \in Msgs, ph'[n] = "queued"
                 PROVE  \E i \in 1..Len(queue'[dst'[n]]) : queue'[dst'[n]][i] = n
      OBVIOUS
    <3>1. ph[n] = "queued" /\ dst[n] \notin S /\ dst[n] \in Agents BY <1>0, <2>3 DEF Letters
    <3>2. dst'[n] = dst[n] /\ queue'[dst[n]] = queue[dst[n]] BY <3>1, ZenonT(30) DEF Leaves
    <3> QED BY <1>0, <3>1, <3>2, SMT DEF Queues
  <2>7. \A b \in Agents : ~here'[b] => queue'[b] = <<>> BY <1>0, SMT DEF Queues, Leaves
  <2> QED BY <2>4, <2>5, <2>6, <2>7 DEF Queues
<1>7. Waiting'
  <2>1. \A c \in Calls : pc'[c] = "wait" /\ ph[Request(c)] \in InTurn \cup {"queued", "settled"}
                         => ph'[Request(c)] = ph[Request(c)]
    BY MsgFacts, SMT DEF Leaves, InTurn
  <2> QED BY <1>0, <1>1, <2>1, WaitingFrame
<1>8. Stoppable'
  <2>1. \A t : Reached(t, cancelled) => Reached(t, cancelled') BY ReachedGrows DEF Leaves
  <2>2. \A b \in Agents : here[b] => Reached(tok[b], cancelled') \/ (here'[b] /\ tok'[b] = tok[b])
    <3> SUFFICES ASSUME NEW b \in Agents, here[b], tok[b] \in cancelled'
                 PROVE  Reached(tok[b], cancelled')
      BY DEF Leaves
    <3>1. tok[b] \in Tokens /\ tok[b] # <<>> BY <1>0 DEF TableTypes, Stoppable
    <3> QED BY <3>1, ReachedSelf
  <2>3. \A n \in Msgs : ph'[n] \in {"start", "sched"} =>
          /\ ph[n] \in {"start", "sched"} /\ held'[n] = held[n] /\ dst'[n] = dst[n]
          /\ dst[n] \in Agents
    BY <1>0 DEF Leaves, Letters
  <2>4. \A n \in Msgs : ph'[n] \in {"start", "sched"} =>
          \/ Reached(held'[n], cancelled')
          \/ here'[dst'[n]] /\ held'[n] = tok'[dst'[n]]
    BY <1>0, <2>1, <2>2, <2>3, SMT DEF Stoppable
  <2>5. \A c \in Calls : pc'[c] \in Creating /\ by'[c] # Root =>
          /\ pc[c] \in Creating /\ by'[c] = by[c] /\ snapTok'[c] = snapTok[c] /\ by[c] \in Agents
    BY <1>0, <1>1 DEF CallsRunDown, NothingBegun, Family, Known
  <2>6. \A c \in Calls : pc'[c] \in Creating /\ by'[c] # Root =>
          \/ Reached(snapTok'[c], cancelled')
          \/ here'[by'[c]] /\ snapTok'[c] = tok'[by'[c]]
    BY <1>0, <2>1, <2>2, <2>5, SMT DEF Stoppable
  <2>7. \A b \in Agents : here'[b] => tok'[b] # <<>> BY DEF Leaves
  <2> QED BY <2>4, <2>6, <2>7 DEF Stoppable
<1>9. OneTurnAtATime'
  <2>1. \A n \in Msgs : ph'[n] \in InTurn <=> ph[n] \in InTurn BY DEF Leaves, InTurn
  <2> QED BY <1>0, <1>2, <2>1, SMT DEF OneTurnAtATime, Leaves
<1> QED BY <1>3, <1>4, <1>5, <1>6, <1>7, <1>8, <1>9

LEMMA DropTypes ==
    ASSUME CallTypes, MsgTypes, NEW D, NEW ph0, Drop(D, ph0, pc),
           \A n \in Msgs : ph0[n] = ph[n] \/ ph0[n] = "over",
           UNCHANGED <<by, kid, mode, turn, snapChain, snapTok, lock>>
    PROVE  /\ CallTypes'
           /\ ph' \in [Msgs -> {"none", "queued", "start", "sched", "finished", "settled", "retire",
                                "over", "root", "told", "lost", "dropped"}]
<1>1. pc' \in [Calls -> {"idle", "snap", "lock", "write", "push", "wait", "done", "gone"}]
  BY DEF CallTypes, Drop
<1>2. CallTypes' BY <1>1 DEF CallTypes
<1>3. \A n \in Msgs : ph[n] \in {"none", "queued", "start", "sched", "finished", "settled",
                                 "retire", "over", "root", "told", "lost", "dropped"}
  BY DEF MsgTypes
<1> QED BY <1>2, <1>3 DEF Drop

LEMMA StopKeeps == ASSUME HostInv, NEW a \in Agents, Stop(a) PROVE HostInv'
<1> DEFINE S == {a} \cup Below(a)
<1>0. TableTypes /\ CallTypes /\ MsgTypes /\ CountTypes /\ Stoppable /\ NoLostWakeup
  BY Typed DEF HostInv, Rest
<1>1. S \in SUBSET Agents BY DEF Below
<1>2. /\ Remove(S, ph)
      /\ UNCHANGED <<chain, oneShot, running, paused, hist, tok, life, ver, inbox, due, by, kid,
                     mode, turn, snapChain, snapTok, lock, turns, frm, dst, forgotten, failures>>
  BY DEF Stop
<1> HIDE DEF S
<1>3. QueuedIn(S) = {n \in Msgs : ph[n] = "queued" /\ dst[n] \in S} BY <1>1, QueuedThere
<1>4. /\ \A n \in Msgs : ph'[n] = IF ph[n] = "queued" /\ dst[n] \in S THEN "dropped" ELSE ph[n]
      /\ \A c \in Calls : pc'[c] = IF /\ ph[Request(c)] = "queued" /\ dst[Request(c)] \in S
                                      /\ pc[c] = "wait"
                                   THEN "done" ELSE pc[c]
  BY <1>2, <1>3, MsgFacts DEF Remove, Drop
<1>5. TypeOK'
  <2>1. /\ here' \in [Agents -> BOOLEAN] /\ queue' \in [Agents -> Seq(Msgs)]
        /\ lockgen' \in [Everyone -> Nat] /\ cancelled' \subseteq Tokens
    BY <1>0, <1>1, <1>2, RemovedTypes DEF Remove
  <2>2. TableTypes' BY <1>0, <1>2, <2>1 DEF TableTypes
  <2>3. /\ CallTypes'
        /\ ph' \in [Msgs -> {"none", "queued", "start", "sched", "finished", "settled", "retire",
                             "over", "root", "told", "lost", "dropped"}]
    BY <1>0, <1>2, DropTypes DEF Remove
  <2>4. MsgTypes' BY <1>0, <1>2, <2>3 DEF MsgTypes, turns
  <2>5. CountTypes' BY <1>0, <1>2, LifecycleTypes DEF Stop, LifecycleActions
  <2> QED BY <2>2, <2>3, <2>4, <2>5, TypedNext
<1>6. Leaves(S)
  <2>1. \A b \in Agents : (here'[b] <=> here[b] /\ b \notin S)
                          /\ queue'[b] = IF b \in S THEN <<>> ELSE queue[b]
    BY <1>2 DEF Remove
  <2>2. cancelled \subseteq cancelled' /\ \A b \in S : tok[b] \in cancelled' BY <1>2 DEF Remove
  <2>3. \A b \in Agents : here'[b] => tok'[b] # <<>> BY <1>0, <1>2, <2>1 DEF Stoppable
  <2>4. \A n \in Msgs : ph'[n] = "over" => rpl'[n] = Nobody
    BY <1>2, <1>4 DEF HostInv, Rest, Letters, turns
  <2> QED BY <1>2, <1>4, <2>1, <2>2, <2>3, <2>4 DEF Leaves, turns
<1>7. NoLostWakeup'
  <2>1. \A b \in Agents : here'[b] => here[b] /\ queue'[b] = queue[b] BY <1>6 DEF Leaves
  <2>2. \A n \in Msgs : ph[n] \in {"settled", "retire"} => ph'[n] = ph[n] BY <1>4
  <2>3. UNCHANGED <<due, running, paused, dst>> BY <1>2
  <2> QED BY <1>0, <2>1, <2>2, <2>3, ZenonT(30) DEF NoLostWakeup
<1> QED BY <1>1, <1>5, <1>6, <1>7, LeavesKeeps DEF HostInv, Rest

LEMMA RestartKeeps == ASSUME HostInv, NEW a \in Agents, Restart(a) PROVE HostInv'
<1> DEFINE S == Below(a)
           up == IF Parent(a) = Root THEN <<>> ELSE IF here[Parent(a)] THEN tok[Parent(a)] ELSE <<>>
<1>0. TableTypes /\ CallTypes /\ MsgTypes /\ CountTypes /\ Stoppable /\ Family
  BY Typed DEF HostInv, Rest
<1>1. S \in SUBSET Agents BY DEF Below
<1>2. /\ here[a]
      /\ here' = [b \in Agents |-> here[b] /\ b \notin S]
      /\ queue' = [b \in Agents |-> IF b \in S THEN <<>> ELSE queue[b]]
      /\ cancelled' = cancelled \cup {tok[b] : b \in {a} \cup S}
      /\ lockgen' = [b \in Everyone |-> IF b \in S THEN lockgen[b] + 1 ELSE lockgen[b]]
      /\ Drop(QueuedIn(S), ph, pc)
      /\ paused' = [paused EXCEPT ![a] = FALSE]
      /\ tok' = [tok EXCEPT ![a] = Append(up, <<a, ver[a] + 1>>)]
      /\ ver' = [ver EXCEPT ![a] = @ + 1]
      /\ hist' = [hist EXCEPT ![a] = {}]
      /\ forgotten' = [forgotten EXCEPT ![a] = StartedBy(a)]
      /\ PumpAll(here')
      /\ UNCHANGED <<chain, oneShot, running, life, inbox, by, kid, mode, turn, snapChain, snapTok,
                     lock, turns, frm, dst, failures>>
  BY DEF Restart, RestartCancelling, Lifecycle
<1>3. up \in Tokens
  <2>1. Known(Parent(a)) BY <1>0, <1>2 DEF Family, Parent
  <2>2. <<>> \in Tokens BY SMT DEF Tokens
  <2> QED BY <1>0, <2>1, <2>2 DEF Known, TableTypes
<1>4. /\ Append(up, <<a, ver[a] + 1>>) \in Tokens
      /\ Append(up, <<a, ver[a] + 1>>) # <<>>
  <2>1. ver[a] \in Nat BY <1>0 DEF TableTypes
  <2> QED BY <1>3, <2>1, NewToken
<1> HIDE DEF S, up
<1>5. QueuedIn(S) = {n \in Msgs : ph[n] = "queued" /\ dst[n] \in S} BY <1>1, QueuedThere
<1>6. /\ \A n \in Msgs : ph'[n] = IF ph[n] = "queued" /\ dst[n] \in S THEN "dropped" ELSE ph[n]
      /\ \A c \in Calls : pc'[c] = IF /\ ph[Request(c)] = "queued" /\ dst[Request(c)] \in S
                                      /\ pc[c] = "wait"
                                   THEN "done" ELSE pc[c]
  BY <1>2, <1>5, MsgFacts DEF Drop
<1>7. /\ tok'[a] = Append(up, <<a, ver[a] + 1>>)
      /\ \A b \in Agents : b # a => tok'[b] = tok[b]
  BY <1>0, <1>2 DEF TableTypes
<1>8. TypeOK'
  <2>1. /\ here' \in [Agents -> BOOLEAN] /\ queue' \in [Agents -> Seq(Msgs)]
        /\ lockgen' \in [Everyone -> Nat]
    BY <1>0, <1>1, <1>2, RemovedTypes
  <2>2. cancelled' \subseteq Tokens /\ paused' \in [Agents -> BOOLEAN]
    <3>1. {a} \cup S \in SUBSET Agents BY <1>1
    <3> QED BY <1>0, <1>2, <3>1, RemovedTypes DEF TableTypes
  <2>3. tok' \in [Agents -> Tokens] BY <1>0, <1>2, <1>4 DEF TableTypes
  <2>4. ver' \in [Agents -> Nat] /\ hist' \in [Agents -> SUBSET Msgs]
    <3>1. hist' \in [Agents -> SUBSET Msgs] BY <1>0, <1>2 DEF TableTypes
    <3>2. ver \in [Agents -> Nat] /\ ver' = [ver EXCEPT ![a] = @ + 1] BY <1>0, <1>2 DEF TableTypes
    <3>3. ver' \in [Agents -> Nat] BY <3>2, SMT
    <3> QED BY <3>1, <3>3
  <2>5. forgotten' \in [Agents -> SUBSET Msgs]
    <3>1. StartedBy(a) \in SUBSET Msgs BY DEF StartedBy
    <3> QED BY <1>0, <1>2, <3>1 DEF TableTypes
  <2>6. due' \in [Agents -> Nat] BY <1>0, <1>2, PumpAllTypes DEF TableTypes
  <2>7. TableTypes' BY <1>0, <1>2, <2>1, <2>2, <2>3, <2>4, <2>5, <2>6 DEF TableTypes
  <2>8. /\ CallTypes'
        /\ ph' \in [Msgs -> {"none", "queued", "start", "sched", "finished", "settled", "retire",
                             "over", "root", "told", "lost", "dropped"}]
    BY <1>0, <1>2, DropTypes
  <2>9. MsgTypes' BY <1>0, <1>2, <2>8 DEF MsgTypes, turns
  <2>10. CountTypes'
    BY <1>0, <1>2, LifecycleTypes DEF Restart, RestartCancelling, LifecycleActions
  <2> QED BY <2>7, <2>8, <2>9, <2>10, TypedNext
<1>9. Leaves(S)
  <2>1. \A b \in Agents : (here'[b] <=> here[b] /\ b \notin S)
                          /\ queue'[b] = IF b \in S THEN <<>> ELSE queue[b]
    BY <1>2
  <2>2. cancelled \subseteq cancelled' /\ \A b \in {a} \cup S : tok[b] \in cancelled' BY <1>2
  <2>3. \A b \in Agents : here'[b] => tok'[b] # <<>> BY <1>0, <1>4, <1>7, <2>1 DEF Stoppable
  <2>4. \A b \in Agents : here[b] => tok[b] \in cancelled' \/ (b \notin S /\ tok'[b] = tok[b])
    BY <1>7, <2>2
  <2>5. \A n \in Msgs : ph'[n] = "over" => rpl'[n] = Nobody
    BY <1>2, <1>6 DEF HostInv, Rest, Letters, turns
  <2> QED BY <1>2, <1>6, <2>1, <2>2, <2>3, <2>4, <2>5 DEF Leaves, turns
<1>10. NoLostWakeup'
  <2>1. \A b \in Agents : due[b] \in Nat BY <1>0 DEF TableTypes
  <2>2. \A b \in Agents : here'[b] => due'[b] = due[b] + 1 BY <1>2 DEF PumpAll
  <2>3. \A b \in Agents : here'[b] => due'[b] > 0 BY <2>1, <2>2, SMT
  <2> QED BY <2>3 DEF NoLostWakeup
<1> QED BY <1>1, <1>8, <1>9, <1>10, LeavesKeeps DEF HostInv, Rest

LEMMA TurnOverTypes ==
    ASSUME MsgTypes, NEW m \in Msgs, TurnOver(m), UNCHANGED <<out, ran, frm, dst>>,
           ph' \in [Msgs -> {"none", "queued", "start", "sched", "finished", "settled", "retire",
                             "over", "root", "told", "lost", "dropped"}]
    PROVE  /\ MsgTypes'
           /\ rpl'[m] = Nobody
           /\ \A n \in Msgs : n # m => held'[n] = held[n] /\ rpl'[n] = rpl[n]
<1>1. <<>> \in Tokens BY SMT DEF Tokens
<1>2. held' \in [Msgs -> Tokens] /\ rpl' \in [Msgs -> Everyone \cup {User, Nobody}]
  BY <1>1 DEF MsgTypes, TurnOver
<1>3. epoch' \in [Msgs -> Nat] /\ conv' \in [Msgs -> SUBSET Msgs] BY DEF MsgTypes, TurnOver
<1>4. MsgTypes' BY <1>2, <1>3 DEF MsgTypes
<1> QED BY <1>4, ZenonT(30) DEF MsgTypes, TurnOver

LEMMA RetireKeeps == ASSUME HostInv, NEW m \in Msgs, Retire(m) PROVE HostInv'
<1> DEFINE a == dst[m]
           S == IF Done(a) THEN {a} \cup Below(a) ELSE {}
           ph0 == [ph EXCEPT ![m] = "over"]
<1>0. /\ TableTypes /\ CallTypes /\ MsgTypes /\ CountTypes /\ Stoppable /\ NoLostWakeup
      /\ Letters /\ Unsent
      /\ ph[m] = "retire"
  BY Typed DEF HostInv, Rest, Retire, RetireAnd
<1>1. a \in Agents /\ S \in SUBSET Agents BY <1>0 DEF Below, Letters
<1>2. /\ TurnOver(m)
      /\ UNCHANGED <<chain, oneShot, running, paused, hist, tok, life, ver, inbox, by, kid, mode,
                     turn, snapChain, snapTok, lock, out, ran, frm, dst, forgotten, counts>>
  BY DEF Retire, RetireAnd
<1>3. \A n \in Msgs : ph0[n] = IF n = m THEN "over" ELSE ph[n] BY <1>0 DEF MsgTypes
<1>4. CASE Done(a)
  <2>0. S = {a} \cup Below(a) BY <1>4
  <2>1. Remove(S, ph0) /\ UNCHANGED due BY <1>4 DEF Retire, RetireAnd
  <2> HIDE DEF S, ph0
  <2>2. QueuedIn(S) = {n \in Msgs : ph[n] = "queued" /\ dst[n] \in S} BY <1>1, QueuedThere
  <2>3. /\ \A n \in Msgs : ph'[n] = IF ph[n] = "queued" /\ dst[n] \in S THEN "dropped" ELSE ph0[n]
        /\ \A c \in Calls : pc'[c] = IF /\ ph[Request(c)] = "queued" /\ dst[Request(c)] \in S
                                        /\ pc[c] = "wait"
                                     THEN "done" ELSE pc[c]
    BY <2>1, <2>2, MsgFacts DEF Remove, Drop
  <2>4. /\ CallTypes'
        /\ ph' \in [Msgs -> {"none", "queued", "start", "sched", "finished", "settled", "retire",
                             "over", "root", "told", "lost", "dropped"}]
    <3>1. \A n \in Msgs : ph0[n] = ph[n] \/ ph0[n] = "over" BY <1>3
    <3> QED BY <1>0, <1>2, <2>1, <3>1, DropTypes DEF Remove
  <2>5. /\ MsgTypes' /\ rpl'[m] = Nobody
        /\ \A n \in Msgs : n # m => held'[n] = held[n] /\ rpl'[n] = rpl[n]
    BY <1>0, <1>2, <2>4, TurnOverTypes
  <2>6. TypeOK'
    <3>1. /\ here' \in [Agents -> BOOLEAN] /\ queue' \in [Agents -> Seq(Msgs)]
          /\ lockgen' \in [Everyone -> Nat] /\ cancelled' \subseteq Tokens
      BY <1>0, <1>1, <2>1, RemovedTypes DEF Remove
    <3>2. TableTypes' BY <1>0, <1>2, <2>1, <3>1 DEF TableTypes
    <3>3. CountTypes' BY <1>0, <1>2, CountTypesFrame
    <3> QED BY <2>4, <2>5, <3>2, <3>3, TypedNext
  <2>7. Leaves(S)
    <3>1. \A b \in Agents : (here'[b] <=> here[b] /\ b \notin S)
                            /\ queue'[b] = IF b \in S THEN <<>> ELSE queue[b]
      BY <2>1 DEF Remove
    <3>2. cancelled \subseteq cancelled' /\ \A b \in S : tok[b] \in cancelled' BY <2>1 DEF Remove
    <3>3. \A b \in Agents : here'[b] => tok'[b] # <<>> BY <1>0, <1>2, <3>1 DEF Stoppable
    <3>4. \A b \in Agents : here[b] => tok[b] \in cancelled' \/ (b \notin S /\ tok'[b] = tok[b])
      BY <1>2, <3>2
    <3>5. \A n \in Msgs : IF ph[n] = "queued" /\ dst[n] \in S THEN ph'[n] = "dropped"
                          ELSE ph'[n] = ph[n] \/ (ph[n] = "retire" /\ ph'[n] = "over")
      BY <1>0, <1>3, <2>3
    <3>6. ph'[m] = "over" BY <1>0, <1>3, <2>3
    <3>7. \A n \in Msgs : ph'[n] # "over" => held'[n] = held[n] /\ rpl'[n] = rpl[n]
      BY <2>5, <3>6
    <3>8. \A n \in Msgs : ph'[n] = "over" => rpl'[n] = Nobody
      <4>1. \A n \in Msgs : n # m /\ ph'[n] = "over" => ph[n] = "over" BY <1>3, <2>3
      <4> QED BY <1>0, <2>5, <4>1 DEF Letters
    <3> QED BY <1>2, <2>3, <3>1, <3>2, <3>3, <3>4, <3>5, <3>7, <3>8 DEF Leaves
  <2>8. NoLostWakeup'
    <3>1. \A b \in Agents : here'[b] => here[b] /\ queue'[b] = queue[b] /\ b # a
      BY <2>0, <2>7 DEF Leaves
    <3>2. \A n \in Msgs : n # m /\ ph[n] \in {"settled", "retire"} => ph'[n] = ph[n]
      BY <1>3, <2>3
    <3>3. UNCHANGED <<due, running, paused, dst>> BY <1>2, <2>1
    <3> SUFFICES ASSUME NEW b \in Agents, here'[b], ~running'[b], ~paused'[b], queue'[b] # <<>>
                 PROVE  (due[b] > 0 \/ \E n \in Msgs : dst[n] = b /\ ph[n] \in {"settled", "retire"})'
      BY DEF NoLostWakeup
    <3>4. due[b] > 0 \/ \E n \in Msgs : dst[n] = b /\ ph[n] \in {"settled", "retire"}
      BY <1>0, <3>1, <3>3 DEF NoLostWakeup
    <3>5. \A n \in Msgs : dst[n] = b => n # m BY <3>1
    <3> QED BY <3>2, <3>3, <3>4, <3>5
  <2> QED BY <1>1, <2>6, <2>7, <2>8, LeavesKeeps DEF HostInv, Rest
<1>5. CASE ~Done(a)
  <2>0. S = {} BY <1>5
  <2>1. /\ ph' = ph0 /\ due' = [due EXCEPT ![a] = @ + 1]
        /\ UNCHANGED <<here, queue, cancelled, lockgen, pc>>
    BY <1>5 DEF Retire, RetireAnd
  <2>2. ph' \in [Msgs -> {"none", "queued", "start", "sched", "finished", "settled", "retire",
                          "over", "root", "told", "lost", "dropped"}]
    BY <1>0, <2>1 DEF MsgTypes
  <2> HIDE DEF S, ph0
  <2>3. /\ MsgTypes' /\ rpl'[m] = Nobody
        /\ \A n \in Msgs : n # m => held'[n] = held[n] /\ rpl'[n] = rpl[n]
    BY <1>0, <1>2, <2>2, TurnOverTypes
  <2>4. due'[a] > 0 /\ due' \in [Agents -> Nat] /\ \A b \in Agents : b # a => due'[b] = due[b]
    <3>1. due \in [Agents -> Nat] BY <1>0 DEF TableTypes
    <3> HIDE DEF a
    <3>2. due'[a] = due[a] + 1 /\ \A b \in Agents : b # a => due'[b] = due[b]
      BY <1>1, <2>1, <3>1
    <3> QED BY <1>1, <2>1, <3>1, <3>2, SMT
  <2>5. TypeOK'
    <3>1. TableTypes' BY <1>0, <1>2, <2>1, <2>4 DEF TableTypes
    <3>2. CallTypes' BY <1>0, <1>2, <2>1 DEF CallTypes
    <3>3. CountTypes' BY <1>0, <1>2, CountTypesFrame
    <3> QED BY <2>3, <3>1, <3>2, <3>3, TypedNext
  <2>6. Leaves(S)
    <3>1. \A n \in Msgs : n # m => ph'[n] = ph[n] BY <1>3, <2>1
    <3>2. ph'[m] = "over" BY <1>3, <2>1
    <3>3. \A n \in Msgs : ph'[n] = "over" => rpl'[n] = Nobody
      BY <1>0, <2>3, <3>1 DEF Letters
    <3>4. \A n \in Msgs : ph'[n] # "over" => held'[n] = held[n] /\ rpl'[n] = rpl[n]
      BY <2>3, <3>2
    <3>5. \A b \in Agents : here'[b] => tok'[b] # <<>> BY <1>0, <1>2, <2>1 DEF Stoppable
    <3> QED BY <1>0, <1>2, <2>0, <2>1, <3>1, <3>2, <3>3, <3>4, <3>5 DEF Leaves
  <2>7. NoLostWakeup'
    <3>1. \A n \in Msgs : dst[n] # a => ph'[n] = ph[n] BY <1>3, <2>1
    <3>2. ASSUME NEW b \in Agents, here'[b], ~running'[b], ~paused'[b], queue'[b] # <<>>, b # a
          PROVE  due'[b] > 0 \/ \E n \in Msgs : dst'[n] = b /\ ph'[n] \in {"settled", "retire"}
      <4>1. due[b] > 0 \/ \E n \in Msgs : dst[n] = b /\ ph[n] \in {"settled", "retire"}
        BY <1>0, <1>2, <2>1, <3>2 DEF NoLostWakeup
      <4> QED BY <1>2, <2>4, <3>1, <3>2, <4>1
    <3> QED BY <2>4, <3>2 DEF NoLostWakeup
  <2> QED BY <1>1, <2>5, <2>6, <2>7, LeavesKeeps DEF HostInv, Rest
<1> QED BY <1>4, <1>5

-----------------------------------------------------------------------------
(* A child is created. *)

LEMMA SpawnBeginKeeps == ASSUME FreshIds, HostInv, NEW c \in Calls, SpawnBegin(c) PROVE HostInv'
<1>0. TableTypes /\ CallTypes /\ Family /\ Stoppable /\ Unsent /\ Waiting
  BY Typed DEF HostInv, Rest
<1>1. PICK from \in Callers, k \in Agents, md \in Ways :
        /\ from[1] # Root => here[from[1]]
        /\ DepthAllowed(from[1])
        /\ Unused(k)
        /\ by' = [by EXCEPT ![c] = from[1]]
        /\ turn' = [turn EXCEPT ![c] = from[2]]
        /\ kid' = [kid EXCEPT ![c] = k]
        /\ mode' = [mode EXCEPT ![c] = md]
        /\ snapChain' = [snapChain EXCEPT ![c] = IF from[1] = Root THEN <<>> ELSE chain[from[1]]]
        /\ snapTok' = [snapTok EXCEPT ![c] = IF from[1] = Root THEN <<>> ELSE tok[from[1]]]
  BY DEF SpawnBegin
<1> DEFINE p == from[1]
<1>2. Known(p) /\ p \in Everyone /\ from[2] \in Msgs \cup {Nobody} BY CallerFacts
<1>3. /\ pc[c] = "idle" /\ pc' = [pc EXCEPT ![c] = "snap"]
      /\ UNCHANGED <<table, stores, lock, turns, msgs, forgotten, counts>>
  BY DEF SpawnBegin
<1>4. /\ pc'[c] = "snap" /\ by'[c] = p /\ kid'[c] = k
      /\ snapChain'[c] = (IF p = Root THEN <<>> ELSE chain[p])
      /\ snapTok'[c] = (IF p = Root THEN <<>> ELSE tok[p])
      /\ \A d \in Calls : d # c => /\ pc'[d] = pc[d] /\ by'[d] = by[d] /\ kid'[d] = kid[d]
                                   /\ mode'[d] = mode[d]
                                   /\ snapChain'[d] = snapChain[d] /\ snapTok'[d] = snapTok[d]
  BY <1>0, <1>1, <1>3 DEF CallTypes
<1>5. /\ (IF p = Root THEN <<>> ELSE chain[p]) \in Seq(Everyone)
      /\ (IF p = Root THEN <<>> ELSE tok[p]) \in Tokens
  <2>1. <<>> \in Tokens /\ <<>> \in Seq(Everyone) BY SMT DEF Tokens
  <2> QED BY <1>0, <1>2, <2>1 DEF TableTypes, Known
<1>6. TypeOK'
  <2>1. snapChain' \in [Calls -> Seq(Everyone)] /\ snapTok' \in [Calls -> Tokens]
    BY <1>0, <1>1, <1>5 DEF CallTypes
  <2>2. /\ by' \in [Calls -> Everyone \cup {User, Nobody}] /\ kid' \in [Calls -> Agents \cup {Nobody}]
        /\ turn' \in [Calls -> Msgs \cup {Nobody}]
    BY <1>0, <1>1, <1>2 DEF CallTypes
  <2>3. /\ mode' \in [Calls -> {"none", "send", "task", "detached", "spawn"}]
        /\ pc' \in [Calls -> {"idle", "snap", "lock", "write", "push", "wait", "done", "gone"}]
    <3>1. md \in {"task", "detached", "spawn"} BY HostAssumption
    <3> QED BY <1>0, <1>1, <1>3, <3>1 DEF CallTypes
  <2>4. CallTypes' BY <1>0, <1>3, <2>1, <2>2, <2>3 DEF CallTypes
  <2> QED BY <1>3, <2>4, Typed, TypedNext, TableTypesFrame, MsgTypesFrame, CountTypesFrame
          DEF HostInv
<1>7. Family'
  <2>1. life' = life /\ chain' = chain /\ here' = here BY <1>3 DEF table
  <2>2. life[k] = 0 /\ \A d \in Calls : kid[d] # k BY <1>1 DEF Unused
  <2>3. Len(snapChain'[c]) + 1 < MaxDepth
    <3>1. Len(snapChain'[c]) = Depth(p)
      <4>1. CASE p = Root BY <1>4, <4>1 DEF Depth
      <4>2. CASE p # Root BY <1>4, <4>2, ZenonT(30) DEF Depth
      <4> QED BY <4>1, <4>2
    <3>2. Len(snapChain'[c]) \in Nat BY <1>4, <1>5, SMT
    <3>3. Depth(p) + 2 <= MaxDepth BY <1>1 DEF DepthAllowed
    <3> QED BY <3>1, <3>2, <3>3, HostAssumption, SMT
  <2>4. ASSUME NEW d \in Calls, pc'[d] \in Creating
        PROVE  /\ life[kid'[d]] = 0
               /\ \A e \in Calls : kid'[e] = kid'[d] => e = d
               /\ snapChain'[d] = IF by'[d] = Root THEN <<>> ELSE chain[by'[d]]
               /\ Len(snapChain'[d]) + 1 < MaxDepth
    <3>1. CASE d = c BY <1>4, <2>2, <2>3, <3>1
    <3>2. CASE d # c
      <4>1. /\ pc'[d] = pc[d] /\ by'[d] = by[d] /\ kid'[d] = kid[d]
            /\ snapChain'[d] = snapChain[d]
        BY <1>4, <3>2
      <4>2. /\ life[kid[d]] = 0 /\ \A e \in Calls : kid[e] = kid[d] => e = d
            /\ snapChain[d] = IF by[d] = Root THEN <<>> ELSE chain[by[d]]
            /\ Len(snapChain[d]) + 1 < MaxDepth
        BY <1>0, <2>4, <4>1 DEF Family
      <4>3. \A e \in Calls : kid'[e] = kid'[d] => e = d BY <1>4, <2>2, <4>1, <4>2
      <4> QED BY <4>1, <4>2, <4>3
    <3> QED BY <3>1, <3>2
  <2>5. ASSUME NEW d \in Calls, pc'[d] \in Creating \cup {"push"}
        PROVE  kid'[d] \in Agents /\ Known(by'[d])
    <3>1. CASE d = c BY <1>2, <1>4, <3>1
    <3>2. CASE d # c BY <1>0, <1>4, <2>5, <3>2 DEF Family
    <3> QED BY <3>1, <3>2
  <2> QED BY <1>0, <2>1, <2>4, <2>5 DEF Family, Known, Depth
<1>8. Letters' BY <1>3, LettersFrame DEF HostInv, Rest, table, turns, msgs
<1>9. Unsent'
  <2>1. \A d \in Calls : pc'[d] \in Creating \cup {"idle", "push"}
                         => pc[d] \in Creating \cup {"idle", "push"}
    BY <1>3, <1>4
  <2> QED BY <1>0, <1>3, <2>1 DEF Unsent, msgs
<1>10. Queues' BY <1>3, QueuesFrame DEF HostInv, Rest, table, msgs
<1>11. Waiting'
  <2>1. ph' = ph BY <1>3 DEF msgs
  <2> QED BY <1>0, <1>4, <2>1 DEF Waiting
<1>12. Stoppable'
  <2>1. here' = here /\ tok' = tok /\ cancelled' = cancelled /\ ph' = ph /\ dst' = dst /\ held' = held
    BY <1>3 DEF table, msgs, turns
  <2>2. ASSUME NEW d \in Calls, pc'[d] \in Creating, by'[d] # Root
        PROVE  \/ Reached(snapTok'[d], cancelled)
               \/ here[by'[d]] /\ snapTok'[d] = tok[by'[d]]
    <3>1. CASE d = c BY <1>1, <1>4, <2>2, <3>1
    <3>2. CASE d # c BY <1>0, <1>4, <2>2, <3>2, ZenonT(30) DEF Stoppable
    <3> QED BY <3>1, <3>2
  <2> QED BY <1>0, <2>1, <2>2 DEF Stoppable
<1>13. OneTurnAtATime' BY <1>3, OneTurnFrame DEF HostInv, Rest, table, msgs
<1>14. NoLostWakeup' BY <1>3, WakeFrame DEF HostInv, Rest, table, stores, msgs
<1> QED BY <1>6, <1>7, <1>8, <1>9, <1>10, <1>11, <1>12, <1>13, <1>14 DEF HostInv, Rest

LEMMA InsertKeeps == ASSUME HostInv, NEW c \in Calls, Insert(c) PROVE HostInv'
<1> DEFINE k == kid[c]
           up == <<by[c]>> \o snapChain[c]
           t == Append(snapTok[c], <<kid[c], ver[kid[c]] + 1>>)
<1>0. /\ TableTypes /\ CallTypes /\ MsgTypes
      /\ Family /\ Letters /\ Unsent /\ Queues /\ Waiting /\ Stoppable
      /\ OneTurnAtATime /\ NoLostWakeup
  BY Typed DEF HostInv, Rest
<1>1. pc[c] = "write" BY DEF Insert, InsertEntry
<1>2. /\ k \in Agents /\ life[k] = 0 /\ Known(by[c]) /\ by[c] \in Everyone
      /\ \A d \in Calls : kid[d] = k => d = c
      /\ snapChain[c] = (IF by[c] = Root THEN <<>> ELSE chain[by[c]])
      /\ Len(snapChain[c]) + 1 < MaxDepth
  BY <1>0, <1>1 DEF Family, Creating, Known, Everyone
\* The id is new: it has no entry, no queue and no messages.
<1>3. ~here[k] /\ queue[k] = <<>>
  <2>1. life[k] = 0 /\ (here[k] => life[k] > 0) BY <1>0, <1>2 DEF Family
  <2>2. ~here[k] BY <2>1, SMT
  <2> QED BY <1>0, <1>2, <2>2 DEF Queues
<1>4. \A x : Known(x) => x # k BY <1>2, HostAssumption, SMT DEF Known, Everyone
<1>5. QueuedIn({k}) = {}
  <2>1. {k} \in SUBSET Agents BY <1>2
  <2>2. \A n \in Msgs : ph[n] = "queued" => dst[n] # k BY <1>0, <1>4 DEF Letters
  <2> QED BY <2>1, <2>2, QueuedThere
<1>6. /\ Drop({}, ph, [pc EXCEPT ![c] = "push"])
      /\ here' = [here EXCEPT ![k] = TRUE]
      /\ chain' = [chain EXCEPT ![k] = up]
      /\ tok' = [tok EXCEPT ![k] = t]
      /\ ver' = [ver EXCEPT ![k] = @ + 1]
      /\ life' = [life EXCEPT ![k] = @ + 1]
      /\ oneShot' = [oneShot EXCEPT ![k] = mode[c] # "spawn"]
      /\ running' = [running EXCEPT ![k] = FALSE]
      /\ paused' = [paused EXCEPT ![k] = FALSE]
      /\ queue' = [queue EXCEPT ![k] = <<>>]
      /\ hist' = [hist EXCEPT ![k] = {}]
      /\ Created(c)
      /\ UNCHANGED <<cancelled, stores, by, kid, mode, turn, turns, frm, dst, forgotten, counts>>
  BY <1>5 DEF Insert, InsertEntry
<1>7. up \in Seq(Everyone) /\ up # <<>> /\ Len(up) = Len(snapChain[c]) + 1 /\ up[1] = by[c]
  <2>1. snapChain[c] \in Seq(Everyone) /\ by[c] \in Everyone BY <1>0, <1>2 DEF CallTypes
  <2> QED BY <2>1, SMT
<1>8. t \in Tokens /\ t # <<>>
  <2>1. snapTok[c] \in Tokens /\ k \in Agents /\ ver[k] \in Nat
    BY <1>0, <1>2 DEF CallTypes, TableTypes
  <2> QED BY <2>1, NewToken
<1> HIDE DEF k, up, t
<1>9. ph' = ph /\ pc' = [pc EXCEPT ![c] = "push"]
  <2>1. ph' = [n \in Msgs |-> ph[n]] /\ pc' = [d \in Calls |-> [pc EXCEPT ![c] = "push"][d]]
    <3>1. Drop({}, ph, [pc EXCEPT ![c] = "push"]) BY <1>6
    <3> QED BY <3>1, SMT DEF Drop
  <2> QED BY <1>0, <2>1 DEF MsgTypes, CallTypes
<1>10. /\ here'[k] = TRUE /\ chain'[k] = up /\ tok'[k] = t /\ running'[k] = FALSE
       /\ life'[k] = 1
       /\ \A b \in Agents : b # k => /\ here'[b] = here[b] /\ chain'[b] = chain[b]
                                     /\ tok'[b] = tok[b] /\ life'[b] = life[b]
                                     /\ running'[b] = running[b] /\ paused'[b] = paused[b]
  <2>1. k \in Agents /\ life[k] = 0 BY <1>2 DEF k
  <2>2. life'[k] = life[k] + 1 BY <1>0, <1>6, <2>1 DEF TableTypes
  <2>3. life'[k] = 1 BY <2>1, <2>2, SMT
  <2> QED BY <1>0, <1>6, <2>1, <2>3 DEF TableTypes
<1>11. queue' = queue
  <2>1. queue \in [Agents -> Seq(Msgs)] BY <1>0 DEF TableTypes
  <2> QED BY <1>2, <1>3, <1>6, <2>1
<1>12. /\ pc'[c] = "push"
       /\ \A d \in Calls : d # c => /\ pc'[d] = pc[d]
                                    /\ snapChain'[d] = snapChain[d] /\ snapTok'[d] = snapTok[d]
  BY <1>0, <1>6, <1>9 DEF CallTypes, Created
<1>13. TypeOK'
  <2>1. /\ here' \in [Agents -> BOOLEAN] /\ oneShot' \in [Agents -> BOOLEAN]
        /\ running' \in [Agents -> BOOLEAN] /\ paused' \in [Agents -> BOOLEAN]
    BY <1>0, <1>2, <1>6 DEF TableTypes
  <2>2. chain' \in [Agents -> Seq(Everyone)] /\ tok' \in [Agents -> Tokens]
    BY <1>0, <1>2, <1>6, <1>7, <1>8 DEF TableTypes
  <2>3. ver' \in [Agents -> Nat] /\ life' \in [Agents -> Nat] /\ hist' \in [Agents -> SUBSET Msgs]
    <3>1. ver \in [Agents -> Nat] /\ ver' = [ver EXCEPT ![k] = @ + 1]
      BY <1>0, <1>6 DEF TableTypes
    <3>2. life \in [Agents -> Nat] /\ life' = [life EXCEPT ![k] = @ + 1]
      BY <1>0, <1>6 DEF TableTypes
    <3>3. k \in Agents BY <1>2 DEF k
    <3>4. ver' \in [Agents -> Nat] /\ life' \in [Agents -> Nat] BY <3>1, <3>2, <3>3, SMT
    <3>5. hist' \in [Agents -> SUBSET Msgs] BY <1>0, <1>6 DEF TableTypes
    <3> QED BY <3>4, <3>5
  <2>4. TableTypes' BY <1>0, <1>6, <1>11, <2>1, <2>2, <2>3 DEF TableTypes, stores
  <2>5. CallTypes' BY <1>0, <1>6, <1>9, CreatedTypes
  <2>6. MsgTypes' BY <1>0, <1>6, <1>9 DEF MsgTypes, turns
  <2> QED BY <1>6, <2>4, <2>5, <2>6, Typed, TypedNext, CountTypesFrame DEF HostInv
<1>14. Family'
  <2>1. ASSUME NEW b \in Agents, life'[b] > 0
        PROVE  /\ chain'[b] # <<>> /\ Len(chain'[b]) < MaxDepth
               /\ Known(chain'[b][1])
               /\ Len(chain'[b]) = Depth(chain'[b][1]) + 1
    <3>1. CASE b = k
      <4>1. Depth(by[c]) = Len(snapChain[c])
        BY <1>2, <1>7 DEF Depth
      <4> QED BY <1>2, <1>7, <1>10, <3>1, <4>1, ZenonT(30)
    <3>2. CASE b # k
      <4>1. chain'[b] = chain[b] /\ life[b] > 0 BY <1>10, <2>1, <3>2
      <4> QED BY <1>0, <4>1 DEF Family
    <3> QED BY <3>1, <3>2
  <2>2. ASSUME NEW b \in Agents, life'[b] > 0
        PROVE  Known(chain[b][1])' /\ Len(chain'[b]) = Depth(chain[b][1])' + 1
    <3>1. Known(chain'[b][1]) /\ Len(chain'[b]) = Depth(chain'[b][1]) + 1 BY <2>1, <2>2
    <3> QED BY <1>4, <1>10, <3>1 DEF Known, Depth
  <2>3. \A b \in Agents : here'[b] => life'[b] > 0
    <3>1. 1 > 0 BY SMT
    <3> QED BY <1>0, <1>10, <3>1 DEF Family
  <2>4. ASSUME NEW d \in Calls, pc'[d] \in Creating
        PROVE  /\ life'[kid[d]] = 0
               /\ \A e \in Calls : kid[e] = kid[d] => e = d
               /\ snapChain'[d] = IF by[d] = Root THEN <<>> ELSE chain'[by[d]]
               /\ Len(snapChain'[d]) + 1 < MaxDepth
    <3>1. d # c /\ pc[d] \in Creating BY <1>12, <2>4 DEF Creating
    <3>2. kid[d] # k /\ kid[d] \in Agents BY <1>0, <1>2, <3>1 DEF Family
    <3>3. by[d] # k /\ Known(by[d]) BY <1>0, <1>4, <3>1 DEF Family
    <3>4. by[d] # Root => chain'[by[d]] = chain[by[d]] BY <1>10, <3>3 DEF Known
    <3>5. /\ life[kid[d]] = 0
          /\ \A e \in Calls : kid[e] = kid[d] => e = d
          /\ snapChain[d] = IF by[d] = Root THEN <<>> ELSE chain[by[d]]
          /\ Len(snapChain[d]) + 1 < MaxDepth
      BY <1>0, <3>1 DEF Family
    <3>6. life'[kid[d]] = life[kid[d]] BY <1>10, <3>2
    <3>7. snapChain'[d] = snapChain[d] BY <1>12, <3>1
    <3> QED BY <3>4, <3>5, <3>6, <3>7
  <2>5. ASSUME NEW d \in Calls, pc'[d] \in Creating \cup {"push"}
        PROVE  kid[d] \in Agents /\ Known(by[d])'
    <3>1. pc[d] \in Creating \cup {"push"} BY <1>1, <1>12, <2>5 DEF Creating
    <3>2. kid[d] \in Agents /\ Known(by[d]) BY <1>0, <3>1 DEF Family
    <3>3. by' = by BY <1>6
    <3>4. CASE by[d] = Root BY <3>2, <3>3, <3>4 DEF Known
    <3>5. CASE by[d] # Root
      <4>1. by[d] \in Agents /\ by[d] # k /\ life[by[d]] > 0 BY <1>4, <3>2, <3>5 DEF Known
      <4>2. life'[by[d]] > 0 BY <1>10, <4>1
      <4> QED BY <3>2, <3>3, <4>1, <4>2 DEF Known
    <3> QED BY <3>4, <3>5
  <2> QED BY <1>6, <2>1, <2>2, <2>3, <2>4, <2>5 DEF Family
<1>15. Letters'
  <2>1. /\ \A n \in Msgs : ph[n] # "none" =>
             /\ Known(dst[n]) /\ frm[n] \in Everyone => Known(frm[n])
             /\ n[2] > 0 => n[2] + Depth(dst[n]) <= MaxDepth
        /\ \A n \in Msgs : ph[n] \in {"settled", "retire"} /\ rpl[n] \in Everyone =>
             Known(rpl[n]) /\ n[2] + 1 + Depth(rpl[n]) <= MaxDepth
    BY <1>0 DEF Letters
  <2>2. \A y : Known(y) => /\ y = Root \/ (y \in Agents /\ life'[y] > 0)
                           /\ (IF y = Root THEN 0 ELSE Len(chain'[y])) = Depth(y)
    BY <1>4, <1>10 DEF Known, Depth
  <2>3. ph' = ph /\ dst' = dst /\ frm' = frm /\ rpl' = rpl BY <1>6, <1>9 DEF turns
  <2> QED BY <1>0, <2>1, <2>2, <2>3 DEF Letters, Known, Depth
<1>16. Unsent'
  <2>1. \A d \in Calls : pc'[d] \in Creating \cup {"idle", "push"}
                         => pc[d] \in Creating \cup {"idle", "push"}
    BY <1>1, <1>12 DEF Creating
  <2> QED BY <1>0, <1>9, <2>1 DEF Unsent
<1>17. Queues'
  <2>1. \A b \in Agents : ~here'[b] => ~here[b] BY <1>10
  <2>2. dst' = dst BY <1>6
  <2>3. Queues BY <1>0
  <2> QED BY <1>9, <1>11, <2>1, <2>2, <2>3, ZenonT(30) DEF Queues
<1>18. Waiting' BY <1>0, <1>6, <1>9, <1>12 DEF Waiting
<1>19. Stoppable'
  <2>1. ASSUME NEW b \in Agents, here'[b] PROVE tok'[b] # <<>>
    <3>1. CASE b = k BY <1>8, <1>10, <3>1
    <3>2. CASE b # k
      <4>1. here[b] /\ tok'[b] = tok[b] BY <1>10, <2>1, <3>2
      <4> QED BY <1>0, <4>1 DEF Stoppable
    <3> QED BY <3>1, <3>2
  <2>2. \A b \in Agents : here[b] => here'[b] /\ tok'[b] = tok[b] BY <1>3, <1>10
  <2>3. \A n \in Msgs : ph[n] \in {"start", "sched"} => dst[n] \in Agents BY <1>0 DEF Letters
  <2>4. \A d \in Calls : pc'[d] \in Creating /\ by[d] # Root =>
          pc[d] \in Creating /\ by[d] \in Agents /\ snapTok'[d] = snapTok[d]
    BY <1>0, <1>12 DEF Family, Known, Creating
  <2>5. dst' = dst /\ held' = held /\ cancelled' = cancelled /\ by' = by BY <1>6 DEF turns
  <2> QED BY <1>0, <1>9, <2>1, <2>2, <2>3, <2>4, <2>5, ZenonT(30) DEF Stoppable
<1>20. OneTurnAtATime'
  <2>1. \A n \in Msgs : ph[n] \in InTurn => dst[n] # k BY <1>0, <1>4 DEF Letters, InTurn
  <2>2. dst' = dst /\ ph' = ph BY <1>6, <1>9
  <2> QED BY <1>0, <1>10, <2>1, <2>2, ZenonT(30) DEF OneTurnAtATime
<1>21. NoLostWakeup'
  <2>1. dst' = dst /\ due' = due /\ ph' = ph /\ queue' = queue BY <1>6, <1>9, <1>11 DEF stores
  <2>2. ASSUME NEW b \in Agents, here'[b], ~running'[b], ~paused'[b], queue'[b] # <<>>
        PROVE  due'[b] > 0 \/ \E n \in Msgs : dst'[n] = b /\ ph'[n] \in {"settled", "retire"}
    <3>1. b # k BY <1>3, <2>1, <2>2
    <3>2. here[b] /\ ~running[b] /\ ~paused[b] /\ queue[b] # <<>> BY <1>10, <2>1, <2>2, <3>1
    <3>3. due[b] > 0 \/ \E n \in Msgs : dst[n] = b /\ ph[n] \in {"settled", "retire"}
      BY <1>0, <3>2 DEF NoLostWakeup
    <3> QED BY <2>1, <3>3
  <2> QED BY <2>2 DEF NoLostWakeup
<1> QED BY <1>13, <1>14, <1>15, <1>16, <1>17, <1>18, <1>19, <1>20, <1>21 DEF HostInv, Rest

-----------------------------------------------------------------------------
(* All steps, and what follows. *)

LEMMA InitEstablishes == Init => HostInv
<1> SUFFICES ASSUME Init PROVE HostInv OBVIOUS
<1>1. TypeOK
  <2>1. <<>> \in Tokens /\ <<>> \in Seq(Everyone) /\ <<>> \in Seq(Msgs) BY SMT DEF Tokens
  <2>2. TableTypes BY <2>1 DEF Init, TableTypes
  <2>3. CallTypes BY <2>1 DEF Init, CallTypes
  <2>4. MsgTypes BY <2>1 DEF Init, MsgTypes
  <2>5. CountTypes BY SMT DEF Init, CountTypes
  <2> QED BY <2>2, <2>3, <2>4, <2>5, Typed
<1>2. Family BY SMT DEF Init, Family, Creating
<1>3. Letters BY DEF Init, Letters
<1>4. Unsent BY MsgFacts DEF Init, Unsent
<1>5. Queues
  <2>1. \A a \in Agents : queue[a] = <<>> BY DEF Init
  <2>2. \A m \in Msgs : ph[m] # "queued" BY DEF Init
  <2> QED BY <2>1, <2>2, SMT DEF Queues
<1>6. Waiting BY DEF Init, Waiting
<1>7. Stoppable BY DEF Init, Stoppable, Creating
<1>8. OneTurnAtATime BY DEF Init, OneTurnAtATime, InTurn
<1>9. NoLostWakeup BY DEF Init, NoLostWakeup
<1> QED BY <1>1, <1>2, <1>3, <1>4, <1>5, <1>6, <1>7, <1>8, <1>9 DEF HostInv, Rest

LEMMA StutterKeeps == HostInv /\ UNCHANGED vars => HostInv'
<1> SUFFICES ASSUME HostInv, UNCHANGED vars PROVE HostInv' OBVIOUS
<1>1. UNCHANGED <<table, stores, calls, turns, msgs, forgotten, counts>> BY DEF vars
<1>2. TypeOK'
  BY <1>1, Typed, TypedNext, TableTypesFrame, CallTypesFrame, MsgTypesFrame, CountTypesFrame
     DEF HostInv
<1>3. CallsRunDown BY <1>1 DEF CallsRunDown, NothingBegun, calls
<1> QED BY <1>1, <1>2, <1>3, CallFrame DEF HostInv, stores, calls, turns

LEMMA NextKeeps == FreshIds /\ HostInv /\ [Next]_vars => HostInv'
<1> SUFFICES ASSUME FreshIds, HostInv, [Next]_vars PROVE HostInv' OBVIOUS
<1>1. ASSUME NEW c \in Calls, CallStep(c) PROVE HostInv'
  BY <1>1, SendKeeps, SpawnBeginKeeps, TakeLockKeeps, AcquireKeeps, InsertKeeps,
     InsertFailsKeeps, PushPromptKeeps, PushNothingKeeps, RootGoneKeeps DEF CallStep
<1>2. ASSUME NEW m \in Msgs, TurnStep(m) PROVE HostInv'
  BY <1>2, ExecuteKeeps, ExecuteFailsKeeps, DrainKeeps, CompleteKeeps, CancelTurnKeeps,
     FailTurnKeeps, SettleKeeps, AnswerWaiterKeeps, AnswerKeeps, RootHearsKeeps, RetireKeeps
     DEF TurnStep
<1>3. ASSUME NEW a \in Agents, AgentStep(a) PROVE HostInv'
  BY <1>3, PumpKeeps, PauseKeeps, ResumeKeeps, StopKeeps, RestartKeeps DEF AgentStep
<1>4. CASE UNCHANGED vars BY <1>4, StutterKeeps
<1> QED BY <1>1, <1>2, <1>3, <1>4 DEF Next

\* Every step of the host, its turns and its callers keeps the invariant (host.rs).
THEOREM HostInvHolds == ASSUME FreshIds PROVE Spec => []HostInv
<1>1. HostInv /\ [Next]_vars => HostInv' BY NextKeeps
<1> QED BY <1>1, InitEstablishes, PTL DEF Spec

\* A parent that waits for a task is never forgotten: until the result is handed to it, the
\* request is queued at an agent in the table or in a turn that has still to answer, however
\* stops, restarts, failures and retirements interleave (create_child, notify_dropped, run_turn).
THEOREM WaitersRemembered == ASSUME FreshIds PROVE Spec => []WaiterNotForgotten
<1>1. HostInv => WaiterNotForgotten
  <2> SUFFICES ASSUME HostInv, NEW c \in Calls, pc[c] = "wait"
               PROVE  \/ /\ ph[Request(c)] = "queued" /\ here[dst[Request(c)]]
                         /\ \E i \in 1..Len(queue[dst[Request(c)]]) :
                              queue[dst[Request(c)]][i] = Request(c)
                      \/ ph[Request(c)] \in InTurn \cup {"settled"}
    BY DEF WaiterNotForgotten
  <2>1. Request(c) \in Msgs /\ ph[Request(c)] \in InTurn \cup {"queued", "settled"}
    BY MsgFacts DEF HostInv, Rest, Waiting
  <2>2. ASSUME ph[Request(c)] = "queued"
        PROVE  /\ here[dst[Request(c)]]
               /\ \E i \in 1..Len(queue[dst[Request(c)]]) : queue[dst[Request(c)]][i] = Request(c)
    <3>1. dst[Request(c)] \in Agents BY <2>1, <2>2 DEF HostInv, Rest, Letters
    <3>2. PICK i \in 1..Len(queue[dst[Request(c)]]) : queue[dst[Request(c)]][i] = Request(c)
      BY <2>1, <2>2 DEF HostInv, Rest, Queues
    <3>3. queue[dst[Request(c)]] # <<>> BY <3>2, SMT
    <3> QED BY <3>1, <3>2, <3>3 DEF HostInv, Rest, Queues
  <2> QED BY <2>1, <2>2
<1> QED BY <1>1, HostInvHolds, PTL

\* Stopping reaches every turn: one that still runs for an agent that left the table holds a
\* token that was cancelled, itself or with an ancestor's (remove_subtree, lifecycle, execute).
THEOREM StopsReachTurns == ASSUME FreshIds PROVE Spec => []StopReachesTurns
<1>1. HostInv => StopReachesTurns
  BY Reaches DEF HostInv, Rest, Stoppable, StopReachesTurns
<1> QED BY <1>1, HostInvHolds, PTL

\* No message is stranded at an agent that is free to take it: somebody is about to pump it
\* (enqueue, pump, run_turn, lifecycle).
THEOREM WakeupsKept == ASSUME FreshIds PROVE Spec => []NoLostWakeup
<1>1. HostInv => NoLostWakeup BY DEF HostInv, Rest
<1> QED BY <1>1, HostInvHolds, PTL

\* The running flag is exact, and no agent runs two turns at once (pump, run_turn).
THEOREM TurnsExclusive == ASSUME FreshIds PROVE Spec => []OneTurnAtATime
<1>1. HostInv => OneTurnAtATime BY DEF HostInv, Rest
<1> QED BY <1>1, HostInvHolds, PTL

\* Replies climb towards the root, so automatic replies come to an end (run_turn's reply target).
THEOREM RepliesEnd == ASSUME FreshIds PROVE Spec => []RepliesClimb
<1>1. HostInv => RepliesClimb BY DEF HostInv, Rest, Letters, RepliesClimb
<1> QED BY <1>1, HostInvHolds, PTL

\* Only Insert brings an agent into the table, and what it brings was made from a snapshot.
LEMMA Newcomers ==
    ASSUME HostInv, [Next]_vars, NEW a \in Agents, ~here[a], here'[a]
    PROVE  \E c \in Calls : Insert(c) /\ kid[c] = a
<1>1. ASSUME NEW c \in Calls, CallStep(c) PROVE \E d \in Calls : Insert(d) /\ kid[d] = a
  <2>1. CASE Insert(c)
    <3>1. here' = [here EXCEPT ![kid[c]] = TRUE] BY <2>1 DEF Insert, InsertEntry
    <3>2. kid[c] = a BY <3>1, Typed DEF HostInv, TableTypes
    <3> QED BY <2>1, <3>2
  <2>2. CASE ~Insert(c)
    <3>1. here' = here
      BY <1>1, <2>2 DEF CallStep, Send, SpawnBegin, TakeLock, Acquire, InsertFails, PushPrompt,
                        PushNothing, RootGone, table
    <3> QED BY <3>1
  <2> QED BY <2>1, <2>2
<1>2. ASSUME NEW m \in Msgs, TurnStep(m) PROVE here'[a] => here[a]
  <2>1. CASE Retire(m)
    <3>1. here' = here \/ here' = [b \in Agents |-> here[b] /\ b \notin {dst[m]} \cup Below(dst[m])]
      BY <2>1 DEF Retire, RetireAnd, Remove
    <3> QED BY <3>1
  <2>2. CASE ~Retire(m)
    <3>1. here' = here
      BY <1>2, <2>2 DEF TurnStep, Execute, ExecuteFails, Drain, Complete, CancelTurn, FailTurn,
                        Settle, SettleTo, AnswerWaiter, AnswerIf, Answer, RootHears, table
    <3> QED BY <3>1
  <2> QED BY <2>1, <2>2
<1>3. ASSUME NEW b \in Agents, AgentStep(b) PROVE here'[a] => here[a]
  BY <1>3 DEF AgentStep, Pump, PumpIf, Pause, Resume, Stop, Remove, Restart, RestartCancelling
<1>4. CASE UNCHANGED vars BY <1>4 DEF vars, table
<1> QED BY <1>1, <1>2, <1>3, <1>4 DEF Next

\* A child whose parent was stopped while it was being created enters the table with a token
\* that is already cancelled, so its turns end at once (create_child's child_token).
THEOREM OrphansBornStopped == ASSUME FreshIds PROVE Spec => OrphanBornStopped
<1>1. HostInv /\ [Next]_vars =>
        [\A a \in Agents : ~here[a] /\ here'[a] /\ chain'[a][1] # Root /\ ~here[chain'[a][1]]
                           => Cancelled(tok'[a])]_vars
  <2> SUFFICES ASSUME HostInv, [Next]_vars,
                      NEW a \in Agents, ~here[a], here'[a], chain'[a][1] # Root, ~here[chain'[a][1]]
               PROVE  Cancelled(tok'[a])
    OBVIOUS
  <2>1. PICK c \in Calls : Insert(c) /\ kid[c] = a BY Newcomers
  <2>2. /\ pc[c] = "write"
        /\ chain' = [chain EXCEPT ![a] = <<by[c]>> \o snapChain[c]]
        /\ tok' = [tok EXCEPT ![a] = Append(snapTok[c], <<a, ver[a] + 1>>)]
    BY <2>1 DEF Insert, InsertEntry
  <2>3. TableTypes /\ CallTypes BY Typed DEF HostInv
  <2>4. by[c] \in Everyone BY <2>2 DEF HostInv, Rest, Family, Creating, Known, Everyone
  <2>5. chain'[a][1] = by[c]
    <3>1. snapChain[c] \in Seq(Everyone) BY <2>3 DEF CallTypes
    <3>2. (<<by[c]>> \o snapChain[c])[1] = by[c] BY <2>4, <3>1, SMT
    <3> QED BY <2>2, <2>3, <3>2 DEF TableTypes
  <2>6. Reached(snapTok[c], cancelled) BY <2>2, <2>5, ZenonT(30) DEF HostInv, Rest, Stoppable, Creating
  <2>7. snapTok[c] \in Tokens /\ <<a, ver[a] + 1>> \in Agents \X Nat
    BY <2>3, SMT DEF TableTypes, CallTypes
  <2>8. Reached(Append(snapTok[c], <<a, ver[a] + 1>>), cancelled) BY <2>6, <2>7, ReachedBelow
  <2>9. tok'[a] = Append(snapTok[c], <<a, ver[a] + 1>>) BY <2>2, <2>3 DEF TableTypes
  <2> QED BY <2>8, <2>9, Reaches
<1> QED BY <1>1, HostInvHolds, PTL DEF Spec, OrphanBornStopped
=============================================================================
