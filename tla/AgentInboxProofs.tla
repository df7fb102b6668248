-------------------------- MODULE AgentInboxProofs --------------------------
(* Proofs about AgentInbox, for every set of clients, admins and sessions.   *)
EXTENDS AgentInbox, FiniteSetTheorems, SequenceTheorems, TLAPS

----------------------------------------------------------------------------
(* Type correctness.                                                        *)

LEMMA InitTypeOK == Init => TypeOK
<1> SUFFICES ASSUME Init PROVE TypeOK
  OBVIOUS
<1>1. DOMAIN inbox = {} /\ inbox \in [DOMAIN inbox -> Txs]
  BY DEF Init
<1>2. log \in Seq(Txs \cup {Other})
  BY DEF Init
<1>3. pc \in [Tasks -> Claimed \cup {"idle", "enqueue", "schedule", "claim", "done"}]
  BY DEF Init, Claimed
<1> QED
  BY <1>1, <1>2, <1>3 DEF Init, TypeOK

LEMMA NextTypeOK == TypeOK /\ [Next]_vars => TypeOK'
<1> USE InboxAssumption
<1> SUFFICES ASSUME TypeOK, [Next]_vars PROVE TypeOK'
  OBVIOUS
<1>0. \A x \in Txs : x \in Tasks
  BY DEF Tasks
<1>1. CASE Register
  BY <1>1 DEF TypeOK, Register, queue, bounds
<1>2. CASE Crash
  <2>1. pc' \in [Tasks -> Claimed \cup {"idle", "enqueue", "schedule", "claim", "done"}]
    BY <1>2 DEF Crash
  <2>2. /\ inbox' = inbox /\ ihead' = ihead /\ itail' = itail /\ log' = log
        /\ claim' = claim /\ accepted' = accepted /\ failures' = failures
        /\ slot' = slot /\ got' = got /\ seq' = seq
        /\ registered' = FALSE /\ failed' = {} /\ crashes' = crashes + 1
    BY <1>2 DEF Crash, queue
  <2>3. claim' \in BOOLEAN /\ registered' \in BOOLEAN
    BY <2>2, Zenon DEF TypeOK
  <2>4. crashes' \in Nat
    BY <2>2 DEF TypeOK
  <2> QED
    BY <2>1, <2>2, <2>3, <2>4, Zenon DEF TypeOK
<1>3. ASSUME NEW x \in Txs, TxStep(x) PROVE TypeOK'
  <2> USE <1>0 DEF TypeOK, Goto, queue, memory, bounds
  <2>1. CASE EnqueueRead(x)
    BY <2>1 DEF EnqueueRead
  <2>2. CASE EnqueueWrite(x)
    <3>1. slot[x] \in Nat
      OBVIOUS
    <3>2. DOMAIN inbox' = DOMAIN inbox \cup {slot[x]} /\ inbox' \in [DOMAIN inbox' -> Txs]
      BY <2>2 DEF EnqueueWrite
    <3> QED
      BY <3>1, <3>2, <2>2, SMTT(30) DEF EnqueueWrite, Claimed
  <2>3. CASE Schedule(x)
    BY <2>3 DEF Schedule
  <2>4. CASE SkipClaim(x)
    BY <2>4 DEF SkipClaim
  <2>5. CASE Dequeue(x)
    BY <2>5 DEF Dequeue, Claimed
  <2>6. CASE DequeueNone(x)
    BY <2>6 DEF DequeueNone, Claimed
  <2>7. CASE Process(x)
    <3>1. Len(log) + 1 \in Nat
      OBVIOUS
    <3>2. pc' \in [Tasks -> Claimed \cup {"idle", "enqueue", "schedule", "claim", "done"}]
      BY <2>7 DEF Process, Claimed
    <3>3. seq' \in [Tasks -> Nat]
      BY <3>1, <2>7 DEF Process
    <3> QED
      BY <3>2, <3>3, <2>7 DEF Process
  <2>8. CASE AppendDequeued(x)
    <3>1. DOMAIN inbox' \subseteq DOMAIN inbox /\ inbox' \in [DOMAIN inbox' -> Txs]
      BY <2>8 DEF AppendDequeued
    <3>2. log' \in Seq(Txs \cup {Other})
      BY <2>8 DEF AppendDequeued
    <3> QED
      BY <3>1, <3>2, <2>8, SMTT(30) DEF AppendDequeued, Claimed
  <2>9. CASE AppendDequeuedRefused(x)
    BY <2>9 DEF AppendDequeuedRefused, Claimed
  <2>10. CASE TurnOk(x)
    BY <2>10 DEF TurnOk, Claimed
  <2>11. CASE TurnFails(x)
    <3>1. pc' \in [Tasks -> Claimed \cup {"idle", "enqueue", "schedule", "claim", "done"}]
      BY <2>11 DEF TurnFails, Claimed
    <3>2. failures' \in Nat
      BY <2>11 DEF TurnFails
    <3> QED
      BY <3>1, <3>2, <2>11 DEF TurnFails
  <2> QED
    BY <1>3, <2>1, <2>2, <2>3, <2>4, <2>5, <2>6, <2>7, <2>8, <2>9, <2>10, <2>11 DEF TxStep
<1>4. ASSUME NEW t \in Tasks, TaskStep(t) PROVE TypeOK'
  <2> USE DEF TypeOK, Goto, queue, memory, bounds
  <2>1. CASE TryClaim(t)
    BY <2>1 DEF TryClaim, Claimed
  <2>2. CASE Respond(t)
    BY <2>2, SMTT(30) DEF Respond, Claimed
  <2>3. CASE ReplyOk(t)
    <3>1. log' \in Seq(Txs \cup {Other})
      BY <2>3 DEF ReplyOk
    <3> QED
      BY <3>1, <2>3 DEF ReplyOk, Claimed
  <2>4. CASE ReplyRefused(t)
    BY <2>4 DEF ReplyRefused, Claimed
  <2>5. CASE Release(t)
    BY <2>5 DEF Release
  <2> QED
    BY <1>4, <2>1, <2>2, <2>3, <2>4, <2>5 DEF TaskStep
<1>5. CASE UNCHANGED vars
  BY <1>5 DEF TypeOK, vars, queue, memory, bounds
<1> QED
  BY <1>1, <1>2, <1>3, <1>4, <1>5 DEF Next

\* AgentInbox's variables keep their shape.
THEOREM InboxTypeCorrect == Spec => []TypeOK
  BY InitTypeOK, NextTypeOK, PTL DEF Spec
----------------------------------------------------------------------------
(* Mutual exclusion by the claim.                                           *)

\* A session never takes part in the claim protocol.
SessionsPc == \A t \in Sessions : pc[t] \in {"respond", "reply", "done"}

\* While a drain works on a transaction its token is the inbox cursor.
TokenIsHead ==
    \A x \in Txs : pc[x] \in {"process", "append"} => slot[x] = ihead

MInv == TypeOK /\ SessionsPc /\ SingleDrainer /\ TokenIsHead

LEMMA InitMInv == Init => MInv
<1> SUFFICES ASSUME Init PROVE MInv
  OBVIOUS
<1>1. TypeOK
  BY InitTypeOK
<1>2. \A t \in Tasks : pc[t] \in {"idle", "claim", "respond"}
  BY DEF Init
<1>3. \A t \in Tasks : pc[t] = "respond" => t \in Sessions
  BY DEF Init, Tasks
<1>4. \A t \in Tasks : ~Holds(t)
  BY <1>2, <1>3 DEF Holds, Claimed
<1>5. SessionsPc
  BY InboxAssumption DEF Init, SessionsPc, Tasks
<1> QED
  BY <1>1, <1>2, <1>4, <1>5 DEF MInv, SingleDrainer, TokenIsHead, Tasks

\* Every step other than TryClaim, Release and Crash keeps the claim and adds no
\* holder.
LEMMA QuietSteps ==
  ASSUME MInv, NEW u \in Tasks,
         \/ Register
         \/ u \in Txs /\ TxStep(u)
         \/ Respond(u) \/ ReplyOk(u) \/ ReplyRefused(u)
  PROVE  /\ claim' = claim
         /\ SessionsPc'
         /\ \A t \in Tasks : Holds(t)' => Holds(t)
<1> USE InboxAssumption DEF MInv, TypeOK, SessionsPc, Holds, Claimed, Tasks, Goto
<1>1. CASE Register
  BY <1>1 DEF Register
<1>2. CASE u \in Txs /\ EnqueueRead(u)
  BY <1>2 DEF EnqueueRead
<1>3. CASE u \in Txs /\ EnqueueWrite(u)
  BY <1>3 DEF EnqueueWrite
<1>4. CASE u \in Txs /\ Schedule(u)
  BY <1>4 DEF Schedule
<1>5. CASE u \in Txs /\ SkipClaim(u)
  BY <1>5 DEF SkipClaim
<1>6. CASE u \in Txs /\ Dequeue(u)
  BY <1>6 DEF Dequeue
<1>7. CASE u \in Txs /\ DequeueNone(u)
  BY <1>7 DEF DequeueNone
<1>8. CASE u \in Txs /\ Process(u)
  BY <1>8 DEF Process
<1>9. CASE u \in Txs /\ AppendDequeued(u)
  BY <1>9 DEF AppendDequeued
<1>10. CASE u \in Txs /\ AppendDequeuedRefused(u)
  BY <1>10 DEF AppendDequeuedRefused
<1>11. CASE u \in Txs /\ TurnOk(u)
  BY <1>11 DEF TurnOk
<1>12. CASE u \in Txs /\ TurnFails(u)
  BY <1>12 DEF TurnFails
<1>13. CASE Respond(u)
  BY <1>13 DEF Respond
<1>14. CASE ReplyOk(u)
  BY <1>14 DEF ReplyOk
<1>15. CASE ReplyRefused(u)
  BY <1>15 DEF ReplyRefused
<1> QED
  BY <1>1, <1>2, <1>3, <1>4, <1>5, <1>6, <1>7, <1>8, <1>9, <1>10, <1>11, <1>12, <1>13, <1>14, <1>15 DEF TxStep

LEMMA NextSingleDrainer == MInv /\ [Next]_vars => SessionsPc' /\ SingleDrainer'
<1> SUFFICES ASSUME MInv, [Next]_vars PROVE SessionsPc' /\ SingleDrainer'
  OBVIOUS
<1>1. ASSUME NEW u \in Tasks,
             \/ Register
             \/ u \in Txs /\ TxStep(u)
             \/ Respond(u) \/ ReplyOk(u) \/ ReplyRefused(u)
      PROVE SessionsPc' /\ SingleDrainer'
  <2>1. claim' = claim /\ SessionsPc' /\ \A t \in Tasks : Holds(t)' => Holds(t)
    BY <1>1, QuietSteps
  <2> QED
    BY <2>1, Zenon DEF MInv, SingleDrainer
<1>2. ASSUME NEW t \in Tasks, TryClaim(t) PROVE SessionsPc' /\ SingleDrainer'
  <2>1. claim' = TRUE
    BY <1>2 DEF TryClaim
  <2>2. \A u \in Tasks : ~Holds(u)
    BY <1>2, Zenon DEF TryClaim, MInv, SingleDrainer
  <2>3. \A u \in Tasks : u # t => pc'[u] = pc[u]
    BY <1>2 DEF TryClaim, Goto, MInv, TypeOK
  <2>4. \A u \in Tasks : Holds(u)' => u = t
    BY <2>2, <2>3 DEF Holds
  <2>5. t \notin Sessions
    BY <1>2 DEF TryClaim, MInv, SessionsPc
  <2>6. SessionsPc'
    BY <2>3, <2>5 DEF MInv, SessionsPc, Tasks
  <2> QED
    BY <2>1, <2>4, <2>6, Zenon DEF SingleDrainer
<1>3. ASSUME NEW t \in Tasks, Release(t) PROVE SessionsPc' /\ SingleDrainer'
  <2>1. t \notin Sessions
    BY <1>3 DEF Release, MInv, SessionsPc
  <2>2. Holds(t)
    BY <2>1, <1>3 DEF Release, Holds, Claimed
  <2>3. \A u \in Tasks : u # t => pc'[u] = pc[u]
    BY <1>3 DEF Release, Goto, MInv, TypeOK
  <2>4. pc'[t] = "done"
    BY <1>3 DEF Release, Goto, MInv, TypeOK
  <2>5. \A u \in Tasks : ~Holds(u)'
    <3>1. ~Holds(t)'
      BY <2>4 DEF Holds, Claimed
    <3>2. \A u \in Tasks : u # t => ~Holds(u)
      BY <2>2, Zenon DEF MInv, SingleDrainer
    <3> QED
      BY <3>1, <3>2, <2>3 DEF Holds
  <2>6. SessionsPc'
    BY <2>1, <2>3 DEF MInv, SessionsPc, Tasks
  <2> QED
    BY <2>5, <2>6, Zenon DEF SingleDrainer
<1>4. CASE Crash
  <2>1. \A u \in Tasks : pc'[u] \in {"idle", "done"}
    BY <1>4 DEF Crash
  <2>2. \A u \in Sessions : pc'[u] = "done"
    BY <1>4 DEF Crash, MInv, SessionsPc, Tasks
  <2>3. \A u \in Tasks : ~Holds(u)'
    BY <2>1 DEF Holds, Claimed
  <2> QED
    BY <2>2, <2>3, Zenon DEF SingleDrainer, SessionsPc
<1>5. CASE UNCHANGED vars
  BY <1>5 DEF vars, MInv, SessionsPc, SingleDrainer, Holds
<1>6. CASE Register
  <2>1. CASE Tasks = {}
    BY <2>1, <1>6 DEF Register, MInv, SessionsPc, SingleDrainer, Tasks
  <2>2. CASE Tasks # {}
    BY <2>2, <1>1, <1>6
  <2> QED
    BY <2>1, <2>2
<1> QED
  BY <1>1, <1>2, <1>3, <1>4, <1>5, <1>6 DEF Next, TaskStep, Tasks

LEMMA NextTokenIsHead == MInv /\ [Next]_vars => TokenIsHead'
<1> SUFFICES ASSUME MInv, [Next]_vars PROVE TokenIsHead'
  OBVIOUS
<1>1. ASSUME NEW x \in Txs, AppendDequeued(x) PROVE TokenIsHead'
  <2>1. Holds(x)
    BY <1>1, InboxAssumption DEF AppendDequeued, Holds, Claimed
  <2>2. ASSUME NEW y \in Txs, pc[y] \in {"process", "append"} PROVE y = x
    <3>1. Holds(y)
      BY <2>2, InboxAssumption DEF Holds, Claimed
    <3> QED
      BY <3>1, <2>1, Zenon DEF MInv, SingleDrainer, Tasks
  <2>3. pc' = [pc EXCEPT ![x] = "turn"] /\ slot' = slot
    BY <1>1 DEF AppendDequeued, Goto
  <2> QED
    BY <2>2, <2>3 DEF TokenIsHead, MInv, TypeOK, Tasks
<1>2. ASSUME NEW x \in Txs, Dequeue(x) PROVE TokenIsHead'
  BY <1>2 DEF Dequeue, Goto, queue, TokenIsHead, MInv, TypeOK, Tasks
<1>3. ASSUME NEW x \in Txs, EnqueueRead(x) PROVE TokenIsHead'
  BY <1>3 DEF EnqueueRead, Goto, queue, TokenIsHead, MInv, TypeOK, Tasks
<1>4. ASSUME NEW x \in Txs,
             \/ EnqueueWrite(x) \/ Schedule(x) \/ SkipClaim(x) \/ DequeueNone(x)
             \/ Process(x) \/ AppendDequeuedRefused(x) \/ TurnOk(x) \/ TurnFails(x)
      PROVE TokenIsHead'
  <2> USE DEF Goto, queue, TokenIsHead, MInv, TypeOK, Tasks
  <2>1. CASE EnqueueWrite(x)
    BY <2>1 DEF EnqueueWrite
  <2>2. CASE Schedule(x)
    BY <2>2 DEF Schedule
  <2>3. CASE SkipClaim(x)
    BY <2>3 DEF SkipClaim
  <2>4. CASE DequeueNone(x)
    BY <2>4 DEF DequeueNone
  <2>5. CASE Process(x)
    BY <2>5 DEF Process
  <2>6. CASE AppendDequeuedRefused(x)
    BY <2>6 DEF AppendDequeuedRefused
  <2>7. CASE TurnOk(x)
    BY <2>7 DEF TurnOk
  <2>8. CASE TurnFails(x)
    BY <2>8 DEF TurnFails
  <2> QED
    BY <1>4, <2>1, <2>2, <2>3, <2>4, <2>5, <2>6, <2>7, <2>8
<1>5. ASSUME NEW t \in Tasks, TaskStep(t) PROVE TokenIsHead'
  <2> USE DEF Goto, queue, TokenIsHead, MInv, TypeOK, Tasks
  <2>1. CASE TryClaim(t)
    BY <2>1 DEF TryClaim
  <2>2. CASE Respond(t)
    BY <2>2 DEF Respond
  <2>3. CASE ReplyOk(t)
    BY <2>3 DEF ReplyOk
  <2>4. CASE ReplyRefused(t)
    BY <2>4 DEF ReplyRefused
  <2>5. CASE Release(t)
    BY <2>5 DEF Release
  <2> QED
    BY <1>5, <2>1, <2>2, <2>3, <2>4, <2>5 DEF TaskStep
<1>6. CASE Register
  BY <1>6 DEF Register, TokenIsHead, MInv, queue
<1>7. CASE Crash
  BY <1>7 DEF Crash, TokenIsHead, MInv, queue, Tasks
<1>8. CASE UNCHANGED vars
  BY <1>8 DEF vars, TokenIsHead, MInv, queue
<1> QED
  BY <1>1, <1>2, <1>3, <1>4, <1>5, <1>6, <1>7, <1>8 DEF Next, TxStep

LEMMA NextMInv == MInv /\ [Next]_vars => MInv'
  BY NextTypeOK, NextSingleDrainer, NextTokenIsHead DEF MInv

LEMMA AlwaysMInv == Spec => []MInv
  BY InitMInv, NextMInv, PTL DEF Spec

\* At most one task processes the agent's queue at any time, and only while the
\* claim is present: Scheduler, ProcessingClaim and the store's compare-and-set.
THEOREM ClaimIsExclusive == Spec => []SingleDrainer
  BY AlwaysMInv, PTL DEF MInv

LEMMA StepCursor == MInv /\ [Next]_vars => ihead <= ihead'
<1> SUFFICES ASSUME MInv, [Next]_vars PROVE ihead <= ihead'
  OBVIOUS
<1>1. ASSUME NEW x \in Txs, AppendDequeued(x) PROVE ihead <= ihead'
  BY <1>1 DEF AppendDequeued, MInv, TypeOK, TokenIsHead
<1>2. (\A x \in Txs : ~AppendDequeued(x)) => ihead' = ihead
  <2> SUFFICES ASSUME \A x \in Txs : ~AppendDequeued(x) PROVE ihead' = ihead
    OBVIOUS
  <2> USE DEF queue
  <2>1. ASSUME NEW x \in Txs, TxStep(x) PROVE ihead' = ihead
    BY <2>1 DEF TxStep, EnqueueRead, EnqueueWrite, Schedule, SkipClaim, Dequeue,
                DequeueNone, Process, AppendDequeuedRefused, TurnOk, TurnFails
  <2>2. ASSUME NEW t \in Tasks, TaskStep(t) PROVE ihead' = ihead
    BY <2>2 DEF TaskStep, TryClaim, Respond, ReplyOk, ReplyRefused, Release
  <2> QED
    BY <2>1, <2>2 DEF Next, vars, Register, Crash
<1> QED
  BY <1>1, <1>2 DEF MInv, TypeOK

\* The inbox cursor never moves back: the claim makes the token of every append
\* the current cursor, so append_entry_atomic_internal need not compare them.
THEOREM CursorNeverMovesBack == Spec => CursorAdvances
<1>1. MInv /\ [Next]_vars => [ihead <= ihead']_vars
  BY StepCursor
<1> QED
  BY <1>1, AlwaysMInv, PTL DEF Spec, CursorAdvances

----------------------------------------------------------------------------
(* No transaction is recorded twice, with any number of racing clients.     *)

\* A transaction that was not enqueued yet is nowhere.
FreshNowhere ==
    \A x \in Txs : pc[x] \in {"idle", "enqueue"} =>
        /\ x \notin Recorded
        /\ \A s \in DOMAIN inbox : inbox[s] # x

\* A transaction is in at most one slot, and in none once it is recorded.
OneSlot ==
    /\ \A r, s \in DOMAIN inbox : inbox[r] = inbox[s] => r = s
    /\ \A s \in DOMAIN inbox : inbox[s] \notin Recorded

\* What a drain is about to record is not recorded yet and is in no other slot,
\* although a racing enqueue may have overwritten its own.
InHand ==
    \A x \in Txs : pc[x] \in {"process", "append"} =>
        /\ got[x] \in Txs
        /\ got[x] \notin Recorded
        /\ pc[got[x]] \notin {"idle", "enqueue"}
        /\ \A s \in DOMAIN inbox : inbox[s] = got[x] => s = slot[x]

OInv == RecordedAtMostOnce /\ FreshNowhere /\ OneSlot /\ InHand

LEMMA InitOInv == Init => OInv
  BY DEF Init, OInv, RecordedAtMostOnce, FreshNowhere, OneSlot, InHand, Recorded, Tasks

\* A step that touches neither inbox nor log, hands out no transaction and makes
\* no task fresh keeps the invariant.
LEMMA QuietOInv ==
  ASSUME MInv, OInv, inbox' = inbox, log' = log,
         \A x \in Txs : pc'[x] \in {"idle", "enqueue"} => pc[x] \in {"idle", "enqueue"},
         \A x \in Txs : pc'[x] \in {"process", "append"} =>
             pc[x] \in {"process", "append"} /\ got'[x] = got[x] /\ slot'[x] = slot[x]
  PROVE  OInv'
<1>1. Recorded' = Recorded
  BY DEF Recorded
<1>2. RecordedAtMostOnce' /\ OneSlot'
  BY <1>1 DEF OInv, RecordedAtMostOnce, OneSlot
<1>3. FreshNowhere'
  BY <1>1 DEF OInv, FreshNowhere
<1>4. InHand'
  BY <1>1 DEF OInv, InHand
<1> QED
  BY <1>2, <1>3, <1>4 DEF OInv

LEMMA EnqueueWriteOInv ==
  ASSUME MInv, OInv, NEW x \in Txs, EnqueueWrite(x) PROVE OInv'
<1>1. Recorded' = Recorded /\ log' = log
  BY DEF Recorded, EnqueueWrite
<1>2. x \notin Recorded /\ \A s \in DOMAIN inbox : inbox[s] # x
  BY DEF EnqueueWrite, OInv, FreshNowhere
<1>3. /\ DOMAIN inbox' = DOMAIN inbox \cup {slot[x]}
      /\ inbox'[slot[x]] = x
      /\ \A s \in DOMAIN inbox : s # slot[x] => inbox'[s] = inbox[s]
  BY DEF EnqueueWrite
<1>4. pc' = [pc EXCEPT ![x] = "schedule"] /\ pc[x] = "enqueue" /\ got' = got /\ slot' = slot
  BY DEF EnqueueWrite, Goto
<1>5. RecordedAtMostOnce'
  BY <1>1 DEF OInv, RecordedAtMostOnce
<1>6. OneSlot'
  BY <1>1, <1>2, <1>3 DEF OInv, OneSlot
<1>7. FreshNowhere'
  BY <1>1, <1>3, <1>4 DEF OInv, FreshNowhere, MInv, TypeOK, Tasks
<1>8. InHand'
  <2> SUFFICES ASSUME NEW y \in Txs, pc'[y] \in {"process", "append"}
               PROVE  /\ got'[y] \in Txs
                      /\ got'[y] \notin Recorded'
                      /\ pc'[got'[y]] \notin {"idle", "enqueue"}
                      /\ \A s \in DOMAIN inbox' : inbox'[s] = got'[y] => s = slot'[y]
    BY DEF InHand
  <2>1. pc[y] \in {"process", "append"}
    BY <1>4 DEF MInv, TypeOK, Tasks
  <2>2. /\ got[y] \in Txs /\ got[y] \notin Recorded
        /\ pc[got[y]] \notin {"idle", "enqueue"}
        /\ \A s \in DOMAIN inbox : inbox[s] = got[y] => s = slot[y]
    BY <2>1 DEF OInv, InHand
  <2>3. got[y] # x
    BY <2>2, <1>4
  <2> QED
    BY <2>2, <2>3, <1>1, <1>3, <1>4 DEF MInv, TypeOK, Tasks
<1> QED
  BY <1>5, <1>6, <1>7, <1>8 DEF OInv

LEMMA DequeueOInv ==
  ASSUME MInv, OInv, NEW x \in Txs, Dequeue(x) PROVE OInv'
<1>1. Recorded' = Recorded /\ log' = log /\ inbox' = inbox
  BY DEF Recorded, Dequeue, queue
<1>2. /\ pc' = [pc EXCEPT ![x] = "process"]
      /\ got' = [got EXCEPT ![x] = inbox[ihead]]
      /\ slot' = [slot EXCEPT ![x] = ihead]
      /\ ihead \in DOMAIN inbox
  BY DEF Dequeue, Goto
<1>3. RecordedAtMostOnce' /\ OneSlot'
  BY <1>1 DEF OInv, RecordedAtMostOnce, OneSlot
<1>4. FreshNowhere'
  BY <1>1, <1>2 DEF OInv, FreshNowhere, MInv, TypeOK, Tasks
<1>5. InHand'
  <2> SUFFICES ASSUME NEW y \in Txs, pc'[y] \in {"process", "append"}
               PROVE  /\ got'[y] \in Txs
                      /\ got'[y] \notin Recorded'
                      /\ pc'[got'[y]] \notin {"idle", "enqueue"}
                      /\ \A s \in DOMAIN inbox' : inbox'[s] = got'[y] => s = slot'[y]
    BY DEF InHand
  <2>1. CASE y = x
    <3>1. got'[y] = inbox[ihead] /\ slot'[y] = ihead /\ inbox[ihead] \in Txs
      BY <2>1, <1>2 DEF MInv, TypeOK, Tasks
    <3>2. pc[inbox[ihead]] \notin {"idle", "enqueue"}
      BY <1>2, <3>1 DEF OInv, FreshNowhere
    <3> QED
      BY <3>1, <3>2, <1>1, <1>2 DEF OInv, OneSlot, MInv, TypeOK, Tasks
  <2>2. CASE y # x
    <3>1. pc[y] \in {"process", "append"} /\ got'[y] = got[y] /\ slot'[y] = slot[y]
      BY <2>2, <1>2 DEF MInv, TypeOK, Tasks
    <3> QED
      BY <3>1, <1>1, <1>2 DEF OInv, InHand, MInv, TypeOK, Tasks
  <2> QED
    BY <2>1, <2>2
<1> QED
  BY <1>3, <1>4, <1>5 DEF OInv

\* Appending e adds e to the recorded transactions and nothing else.
LEMMA AppendRecorded ==
  ASSUME TypeOK, NEW e \in Txs \cup {Other}, log' = Append(log, e)
  PROVE  /\ Len(log') = Len(log) + 1
         /\ DOMAIN log' = 1..(Len(log) + 1)
         /\ DOMAIN log = 1..Len(log)
         /\ \A i \in 1..Len(log) : log'[i] = log[i]
         /\ log'[Len(log) + 1] = e
         /\ Recorded' = Recorded \cup ({e} \ {Other})
<1>1. /\ Len(log') = Len(log) + 1
      /\ DOMAIN log' = 1..(Len(log) + 1)
      /\ DOMAIN log = 1..Len(log)
      /\ \A i \in 1..Len(log) : log'[i] = log[i]
      /\ log'[Len(log) + 1] = e
      /\ Len(log) \in Nat
  BY DEF TypeOK
<1>2. \A i \in DOMAIN log' : i \in DOMAIN log \/ i = Len(log) + 1
  BY <1>1
<1>3. Len(log) + 1 \in DOMAIN log' /\ \A i \in DOMAIN log : i \in DOMAIN log'
  BY <1>1
<1>4. {log'[i] : i \in DOMAIN log'} = {log[i] : i \in DOMAIN log} \cup {e}
  BY <1>1, <1>2, <1>3
<1> QED
  BY <1>1, <1>4 DEF Recorded

LEMMA AppendOtherOInv ==
  ASSUME MInv, OInv, log' = Append(log, Other), inbox' = inbox,
         \A x \in Txs : pc'[x] \in {"idle", "enqueue"} => pc[x] \in {"idle", "enqueue"},
         \A x \in Txs : pc'[x] \in {"process", "append"} =>
             pc[x] \in {"process", "append"} /\ got'[x] = got[x] /\ slot'[x] = slot[x]
  PROVE  OInv'
<1>1. /\ DOMAIN log' = 1..(Len(log) + 1)
      /\ DOMAIN log = 1..Len(log)
      /\ \A i \in 1..Len(log) : log'[i] = log[i]
      /\ log'[Len(log) + 1] = Other
      /\ Recorded' = Recorded
  BY AppendRecorded DEF MInv
<1>2. Len(log) \in Nat
  BY DEF MInv, TypeOK
<1>3. RecordedAtMostOnce'
  <2> SUFFICES ASSUME NEW i \in DOMAIN log', NEW j \in DOMAIN log',
                      log'[i] = log'[j], log'[i] # Other
               PROVE  i = j
    BY DEF RecordedAtMostOnce
  <2>1. i \in 1..Len(log) /\ j \in 1..Len(log)
    BY <1>1, <1>2
  <2> QED
    BY <2>1, <1>1 DEF OInv, RecordedAtMostOnce
<1>4. OneSlot' /\ FreshNowhere'
  BY <1>1 DEF OInv, OneSlot, FreshNowhere
<1>5. InHand'
  BY <1>1 DEF OInv, InHand
<1> QED
  BY <1>3, <1>4, <1>5 DEF OInv

LEMMA AppendDequeuedOInv ==
  ASSUME MInv, OInv, NEW x \in Txs, AppendDequeued(x) PROVE OInv'
<1>1. /\ pc[x] = "append" /\ pc' = [pc EXCEPT ![x] = "turn"]
      /\ got' = got /\ slot' = slot
      /\ log' = Append(log, got[x])
      /\ DOMAIN inbox' = DOMAIN inbox \ {slot[x]}
      /\ \A s \in DOMAIN inbox' : inbox'[s] = inbox[s]
  BY DEF AppendDequeued, Goto
<1>2. /\ got[x] \in Txs /\ got[x] \notin Recorded
      /\ pc[got[x]] \notin {"idle", "enqueue"}
      /\ \A s \in DOMAIN inbox : inbox[s] = got[x] => s = slot[x]
  BY <1>1 DEF OInv, InHand
<1>3. /\ DOMAIN log' = 1..(Len(log) + 1)
      /\ DOMAIN log = 1..Len(log)
      /\ \A i \in 1..Len(log) : log'[i] = log[i]
      /\ log'[Len(log) + 1] = got[x]
      /\ Recorded' = Recorded \cup {got[x]}
  BY <1>1, <1>2, AppendRecorded, InboxAssumption DEF MInv
<1>4. Len(log) \in Nat
  BY DEF MInv, TypeOK
<1>5. \A i \in 1..Len(log) : log[i] # got[x]
  BY <1>2, <1>3, InboxAssumption DEF Recorded
<1>6. RecordedAtMostOnce'
  <2> SUFFICES ASSUME NEW i \in DOMAIN log', NEW j \in DOMAIN log',
                      log'[i] = log'[j], log'[i] # Other
               PROVE  i = j
    BY DEF RecordedAtMostOnce
  <2>1. CASE i \in 1..Len(log) /\ j \in 1..Len(log)
    BY <2>1, <1>3 DEF OInv, RecordedAtMostOnce
  <2>2. CASE i = Len(log) + 1 \/ j = Len(log) + 1
    BY <2>2, <1>3, <1>4, <1>5
  <2> QED
    BY <2>1, <2>2, <1>3, <1>4
<1>7. OneSlot'
  BY <1>1, <1>2, <1>3 DEF OInv, OneSlot
<1>8. FreshNowhere'
  BY <1>1, <1>2, <1>3 DEF OInv, FreshNowhere, MInv, TypeOK, Tasks
<1>9. InHand'
  <2>1. \A y \in Txs : pc'[y] \in {"process", "append"} => FALSE
    <3> SUFFICES ASSUME NEW y \in Txs, pc'[y] \in {"process", "append"} PROVE FALSE
      OBVIOUS
    <3>1. y # x /\ pc[y] \in {"process", "append"}
      BY <1>1 DEF MInv, TypeOK, Tasks
    <3>2. Holds(x) /\ Holds(y)
      BY <1>1, <3>1, InboxAssumption DEF Holds, Claimed
    <3> QED
      BY <3>1, <3>2, Zenon DEF MInv, SingleDrainer, Tasks
  <2> QED
    BY <2>1 DEF InHand
<1> QED
  BY <1>6, <1>7, <1>8, <1>9 DEF OInv

LEMMA NextOInv == MInv /\ OInv /\ [Next]_vars => OInv'
<1> SUFFICES ASSUME MInv, OInv, [Next]_vars PROVE OInv'
  OBVIOUS
<1>1. ASSUME NEW x \in Txs, TxStep(x) PROVE OInv'
  <2> USE DEF MInv, TypeOK, Goto, Tasks, queue
  <2>1. CASE EnqueueRead(x)
    BY <2>1, QuietOInv DEF EnqueueRead
  <2>2. CASE EnqueueWrite(x)
    BY <2>2, EnqueueWriteOInv
  <2>3. CASE Schedule(x)
    BY <2>3, QuietOInv DEF Schedule
  <2>4. CASE SkipClaim(x)
    BY <2>4, QuietOInv DEF SkipClaim
  <2>5. CASE Dequeue(x)
    BY <2>5, DequeueOInv
  <2>6. CASE DequeueNone(x)
    BY <2>6, QuietOInv DEF DequeueNone
  <2>7. CASE Process(x)
    BY <2>7, QuietOInv DEF Process
  <2>8. CASE AppendDequeued(x)
    BY <2>8, AppendDequeuedOInv
  <2>9. CASE AppendDequeuedRefused(x)
    BY <2>9, QuietOInv DEF AppendDequeuedRefused
  <2>10. CASE TurnOk(x)
    BY <2>10, QuietOInv DEF TurnOk
  <2>11. CASE TurnFails(x)
    BY <2>11, QuietOInv DEF TurnFails
  <2> QED
    BY <1>1, <2>1, <2>2, <2>3, <2>4, <2>5, <2>6, <2>7, <2>8, <2>9, <2>10, <2>11 DEF TxStep
<1>2. ASSUME NEW t \in Tasks, TaskStep(t) PROVE OInv'
  <2> USE DEF MInv, TypeOK, Goto, Tasks, queue
  <2>1. CASE TryClaim(t)
    BY <2>1, QuietOInv DEF TryClaim
  <2>2. CASE Respond(t)
    BY <2>2, QuietOInv DEF Respond
  <2>3. CASE ReplyOk(t)
    BY <2>3, AppendOtherOInv DEF ReplyOk
  <2>4. CASE ReplyRefused(t)
    BY <2>4, QuietOInv DEF ReplyRefused
  <2>5. CASE Release(t)
    BY <2>5, QuietOInv DEF Release
  <2> QED
    BY <1>2, <2>1, <2>2, <2>3, <2>4, <2>5 DEF TaskStep
<1>3. CASE Register
  BY <1>3, QuietOInv DEF Register, queue
<1>4. CASE Crash
  BY <1>4, QuietOInv DEF Crash, queue, Tasks
<1>5. CASE UNCHANGED vars
  BY <1>5, QuietOInv DEF vars, queue
<1> QED
  BY <1>1, <1>2, <1>3, <1>4, <1>5 DEF Next

\* No transaction of the inbox is recorded twice, however many clients race in
\* enqueue_tx, whatever crashes, fails or is refused.
THEOREM InboxRecordedOnce == Spec => []RecordedAtMostOnce
<1>1. Spec => []OInv
  BY AlwaysMInv, InitOInv, NextOInv, PTL DEF Spec
<1> QED
  BY <1>1, PTL DEF OInv

----------------------------------------------------------------------------
(* One client: nothing that was accepted is lost.                           *)

\* A client's requests leave "enqueue" in order.
InTurn ==
    \A x, y \in Txs : x[1] = y[1] /\ x[2] < y[2] /\ pc[y] # "idle"
                        => pc[x] \notin {"idle", "enqueue"}

\* The inbox has no holes, the enqueuing request knows the tail, and a drain holds
\* the entry at the cursor.
Solid ==
    /\ ihead <= itail
    /\ DOMAIN inbox = ihead..(itail - 1)
    /\ \A x \in Txs : pc[x] = "enqueue" => slot[x] = itail
    /\ \A x \in Txs : pc[x] \in {"process", "append"} => ihead < itail /\ got[x] = inbox[ihead]

LInv == InTurn /\ Solid /\ NothingLost

LEMMA InitLInv == Init => LInv
<1> SUFFICES ASSUME Init PROVE LInv
  OBVIOUS
<1>1. \A x \in Txs : pc[x] = "idle"
  BY DEF Init, Tasks
<1>2. Recorded = {} /\ Queued = {}
  BY DEF Init, Recorded, Queued
<1> QED
  BY <1>1, <1>2 DEF Init, LInv, InTurn, Solid, NothingLost

LEMMA TxsOrdered ==
  ASSUME NEW c, Clients = {c}, NEW x \in Txs, NEW y \in Txs, x # y
  PROVE  x[1] = y[1] /\ (x[2] < y[2] \/ y[2] < x[2])
  BY InboxAssumption DEF Txs

\* A step that leaves inbox and log alone, starts no enqueue and hands out nothing.
LEMMA QuietLInv ==
  ASSUME MInv, LInv, inbox' = inbox, ihead' = ihead, itail' = itail, accepted' = accepted,
         Recorded' = Recorded,
         \A x \in Txs : pc'[x] # "idle" => pc[x] # "idle",
         \A x \in Txs : pc'[x] \in {"idle", "enqueue"} => pc[x] = pc'[x] /\ slot'[x] = slot[x],
         \A x \in Txs : pc'[x] \in {"process", "append"} =>
             pc[x] \in {"process", "append"} /\ got'[x] = got[x] /\ slot'[x] = slot[x]
  PROVE  LInv'
<1>1. InTurn'
  BY DEF LInv, InTurn
<1>2. Solid'
  BY DEF LInv, Solid
<1>3. Queued' = Queued
  BY DEF Queued
<1>4. NothingLost'
  BY <1>3 DEF LInv, NothingLost
<1> QED
  BY <1>1, <1>2, <1>4 DEF LInv

LEMMA EnqueueReadLInv ==
  ASSUME NEW c, Clients = {c}, MInv, LInv, NEW x \in Txs, EnqueueRead(x) PROVE LInv'
<1>1. /\ pc[x] = "idle" /\ Answered(x)
      /\ pc' = [pc EXCEPT ![x] = "enqueue"] /\ slot' = [slot EXCEPT ![x] = itail]
      /\ inbox' = inbox /\ ihead' = ihead /\ itail' = itail /\ accepted' = accepted
      /\ log' = log /\ got' = got
  BY DEF EnqueueRead, Goto, queue
<1>2. InTurn'
  <2> SUFFICES ASSUME NEW y \in Txs, NEW z \in Txs, y[1] = z[1], y[2] < z[2], pc'[z] # "idle"
               PROVE  pc'[y] \notin {"idle", "enqueue"}
    BY DEF InTurn
  <2>1. CASE z = x
    <3>1. y # x
      BY <2>1, InboxAssumption DEF Txs
    <3> QED
      BY <2>1, <3>1, <1>1 DEF Answered, MInv, TypeOK, Tasks
  <2>2. CASE z # x
    <3>1. pc[z] # "idle"
      BY <2>2, <1>1 DEF MInv, TypeOK, Tasks
    <3>2. pc[y] \notin {"idle", "enqueue"}
      BY <3>1 DEF LInv, InTurn
    <3> QED
      BY <3>2, <1>1 DEF MInv, TypeOK, Tasks
  <2> QED
    BY <2>1, <2>2
<1>3. Solid'
  BY <1>1 DEF LInv, Solid, MInv, TypeOK, Tasks
<1>4. Queued' = Queued /\ Recorded' = Recorded
  BY <1>1 DEF Queued, Recorded
<1>5. NothingLost'
  BY <1>1, <1>4 DEF LInv, NothingLost
<1> QED
  BY <1>2, <1>3, <1>5 DEF LInv

LEMMA EnqueueWriteLInv ==
  ASSUME NEW c, Clients = {c}, MInv, LInv, NEW x \in Txs, EnqueueWrite(x) PROVE LInv'
<1>1. /\ pc[x] = "enqueue"
      /\ pc' = [pc EXCEPT ![x] = "schedule"]
      /\ DOMAIN inbox' = DOMAIN inbox \cup {slot[x]}
      /\ inbox'[slot[x]] = x
      /\ \A s \in DOMAIN inbox : s # slot[x] => inbox'[s] = inbox[s]
      /\ itail' = slot[x] + 1 /\ ihead' = ihead
      /\ accepted' = accepted \cup {x}
      /\ log' = log /\ got' = got /\ slot' = slot
  BY DEF EnqueueWrite, Goto
<1>2. /\ slot[x] = itail /\ ihead <= itail /\ DOMAIN inbox = ihead..(itail - 1)
      /\ ihead \in Nat /\ itail \in Nat
  BY <1>1 DEF LInv, Solid, MInv, TypeOK
<1>3. InTurn'
  BY <1>1 DEF LInv, InTurn, MInv, TypeOK, Tasks
<1>4. \A y \in Txs : y # x => pc[y] # "enqueue"
  <2> SUFFICES ASSUME NEW y \in Txs, y # x, pc[y] = "enqueue" PROVE FALSE
    OBVIOUS
  <2>1. x[1] = y[1] /\ (x[2] < y[2] \/ y[2] < x[2])
    BY TxsOrdered
  <2> QED
    BY <2>1, <1>1 DEF LInv, InTurn
<1>5. DOMAIN inbox' = ihead'..(itail' - 1) /\ ihead' <= itail'
  BY <1>1, <1>2
<1>6. \A s \in ihead..(itail - 1) : inbox'[s] = inbox[s]
  BY <1>1, <1>2
<1>7. Solid'
  <2>1. \A y \in Txs : pc'[y] # "enqueue"
    BY <1>1, <1>4 DEF MInv, TypeOK, Tasks
  <2>2. ASSUME NEW y \in Txs, pc'[y] \in {"process", "append"}
        PROVE  ihead' < itail' /\ got'[y] = inbox'[ihead']
    <3>1. pc[y] \in {"process", "append"}
      BY <2>2, <1>1 DEF MInv, TypeOK, Tasks
    <3>2. ihead < itail /\ got[y] = inbox[ihead]
      BY <3>1 DEF LInv, Solid
    <3> QED
      BY <3>2, <1>1, <1>2, <1>6
  <2> QED
    BY <2>1, <2>2, <1>5 DEF Solid
<1>8. Queued' = Queued \cup {x}
  <2>1. ihead'..(itail' - 1) = (ihead..(itail - 1)) \cup {itail}
    BY <1>1, <1>2
  <2> QED
    BY <2>1, <1>1, <1>2, <1>6 DEF Queued
<1>9. Recorded' = Recorded
  BY <1>1 DEF Recorded
<1>10. NothingLost'
  BY <1>1, <1>8, <1>9 DEF LInv, NothingLost
<1> QED
  BY <1>3, <1>7, <1>10 DEF LInv

LEMMA DequeueLInv ==
  ASSUME MInv, LInv, NEW x \in Txs, Dequeue(x) PROVE LInv'
<1>1. /\ pc[x] = "drain" /\ ihead < itail
      /\ pc' = [pc EXCEPT ![x] = "process"] /\ slot' = [slot EXCEPT ![x] = ihead]
      /\ got' = [got EXCEPT ![x] = inbox[ihead]]
      /\ inbox' = inbox /\ ihead' = ihead /\ itail' = itail /\ accepted' = accepted
      /\ log' = log
  BY DEF Dequeue, Goto, queue, dequeue_empty, MInv, TypeOK
<1>2. InTurn'
  BY <1>1 DEF LInv, InTurn, MInv, TypeOK, Tasks
<1>3. Solid'
  BY <1>1 DEF LInv, Solid, MInv, TypeOK, Tasks
<1>4. Queued' = Queued /\ Recorded' = Recorded
  BY <1>1 DEF Queued, Recorded
<1>5. NothingLost'
  BY <1>1, <1>4 DEF LInv, NothingLost
<1> QED
  BY <1>2, <1>3, <1>5 DEF LInv

LEMMA AppendDequeuedLInv ==
  ASSUME MInv, OInv, LInv, NEW x \in Txs, AppendDequeued(x) PROVE LInv'
<1>1. /\ pc[x] = "append" /\ pc' = [pc EXCEPT ![x] = "turn"]
      /\ got' = got /\ slot' = slot /\ itail' = itail /\ accepted' = accepted
      /\ log' = Append(log, got[x])
      /\ DOMAIN inbox' = DOMAIN inbox \ {slot[x]}
      /\ \A s \in DOMAIN inbox' : inbox'[s] = inbox[s]
      /\ ihead' = slot[x] + 1
  BY DEF AppendDequeued, Goto
<1>2. /\ slot[x] = ihead /\ ihead < itail /\ got[x] = inbox[ihead]
      /\ DOMAIN inbox = ihead..(itail - 1) /\ ihead \in Nat /\ itail \in Nat
  BY <1>1 DEF LInv, Solid, MInv, TypeOK, TokenIsHead
<1>3. got[x] \in Txs
  BY <1>1 DEF OInv, InHand
<1>4. Recorded' = Recorded \cup {got[x]}
  BY <1>1, <1>3, AppendRecorded, InboxAssumption DEF MInv
<1>5. InTurn'
  BY <1>1 DEF LInv, InTurn, MInv, TypeOK, Tasks
<1>6. DOMAIN inbox' = ihead'..(itail' - 1) /\ ihead' <= itail'
  BY <1>1, <1>2
<1>7. Solid'
  <2>1. \A y \in Txs : pc'[y] = "enqueue" => slot'[y] = itail'
    BY <1>1 DEF LInv, Solid, MInv, TypeOK, Tasks
  <2>2. \A y \in Txs : pc'[y] \notin {"process", "append"}
    <3> SUFFICES ASSUME NEW y \in Txs, pc'[y] \in {"process", "append"} PROVE FALSE
      OBVIOUS
    <3>1. y # x /\ pc[y] \in {"process", "append"}
      BY <1>1 DEF MInv, TypeOK, Tasks
    <3>2. Holds(x) /\ Holds(y)
      BY <1>1, <3>1, InboxAssumption DEF Holds, Claimed
    <3> QED
      BY <3>1, <3>2, Zenon DEF MInv, SingleDrainer, Tasks
  <2> QED
    BY <2>1, <2>2, <1>6 DEF Solid
<1>8. Queued = Queued' \cup {got[x]}
  <2>1. ihead..(itail - 1) = (ihead'..(itail' - 1)) \cup {ihead}
    BY <1>1, <1>2
  <2> QED
    BY <2>1, <1>1, <1>2, <1>6 DEF Queued
<1>9. NothingLost'
  BY <1>1, <1>4, <1>8 DEF LInv, NothingLost
<1> QED
  BY <1>5, <1>7, <1>9 DEF LInv

LEMMA NextLInv ==
  ASSUME NEW c, Clients = {c} PROVE MInv /\ OInv /\ LInv /\ [Next]_vars => LInv'
<1> SUFFICES ASSUME MInv, OInv, LInv, [Next]_vars PROVE LInv'
  OBVIOUS
<1>0. log' = log => Recorded' = Recorded
  BY DEF Recorded
<1>1. ASSUME NEW x \in Txs, TxStep(x) PROVE LInv'
  <2> USE DEF MInv, TypeOK, Goto, Tasks, queue
  <2>1. CASE EnqueueRead(x)
    BY <2>1, EnqueueReadLInv
  <2>2. CASE EnqueueWrite(x)
    BY <2>2, EnqueueWriteLInv
  <2>3. CASE Schedule(x)
    BY <2>3, <1>0, QuietLInv DEF Schedule
  <2>4. CASE SkipClaim(x)
    BY <2>4, <1>0, QuietLInv DEF SkipClaim
  <2>5. CASE Dequeue(x)
    BY <2>5, DequeueLInv
  <2>6. CASE DequeueNone(x)
    BY <2>6, <1>0, QuietLInv DEF DequeueNone
  <2>7. CASE Process(x)
    BY <2>7, <1>0, QuietLInv DEF Process
  <2>8. CASE AppendDequeued(x)
    BY <2>8, AppendDequeuedLInv
  <2>9. CASE AppendDequeuedRefused(x)
    BY <2>9, <1>0, QuietLInv DEF AppendDequeuedRefused
  <2>10. CASE TurnOk(x)
    BY <2>10, <1>0, QuietLInv DEF TurnOk
  <2>11. CASE TurnFails(x)
    BY <2>11, <1>0, QuietLInv DEF TurnFails
  <2> QED
    BY <1>1, <2>1, <2>2, <2>3, <2>4, <2>5, <2>6, <2>7, <2>8, <2>9, <2>10, <2>11 DEF TxStep
<1>2. ASSUME NEW t \in Tasks, TaskStep(t) PROVE LInv'
  <2> USE DEF MInv, TypeOK, Goto, Tasks, queue
  <2>1. CASE TryClaim(t)
    BY <2>1, <1>0, QuietLInv DEF TryClaim
  <2>2. CASE Respond(t)
    BY <2>2, <1>0, QuietLInv DEF Respond
  <2>3. CASE ReplyOk(t)
    <3>1. Recorded' = Recorded
      BY <2>3, AppendRecorded DEF ReplyOk
    <3> QED
      BY <2>3, <3>1, QuietLInv DEF ReplyOk
  <2>4. CASE ReplyRefused(t)
    BY <2>4, <1>0, QuietLInv DEF ReplyRefused
  <2>5. CASE Release(t)
    BY <2>5, <1>0, QuietLInv DEF Release
  <2> QED
    BY <1>2, <2>1, <2>2, <2>3, <2>4, <2>5 DEF TaskStep
<1>3. CASE Register
  BY <1>3, <1>0, QuietLInv DEF Register, queue
<1>4. CASE Crash
  BY <1>4, <1>0, QuietLInv DEF Crash, queue, Tasks
<1>5. CASE UNCHANGED vars
  BY <1>5, <1>0, QuietLInv DEF vars, queue
<1> QED
  BY <1>1, <1>2, <1>3, <1>4, <1>5 DEF Next

\* With one client, every accepted transaction is recorded or still in the inbox
\* where the next drain finds it, across crashes, failed turns and refused appends.
THEOREM OneClientLosesNothing ==
  ASSUME NEW c, Clients = {c} PROVE Spec => []NothingLost
<1>1. Spec => []OInv
  BY AlwaysMInv, InitOInv, NextOInv, PTL DEF Spec
<1>2. Init => LInv
  BY InitLInv
<1>3. MInv /\ OInv /\ LInv /\ [Next]_vars => LInv'
  BY NextLInv
<1>4. Spec => []LInv
  BY <1>1, <1>2, <1>3, AlwaysMInv, PTL DEF Spec
<1> QED
  BY <1>4, PTL DEF LInv

----------------------------------------------------------------------------
(* The claim protects the read-before-append window.                        *)

\* A task whose program counter is "done" never leaves it.
LEMMA DoneStays ==
  ASSUME TypeOK, [Next]_vars, NEW s \in Tasks, pc[s] = "done"
  PROVE  pc'[s] = "done"
<1> USE DEF TypeOK, Goto
<1>1. ASSUME NEW x \in Txs, TxStep(x) PROVE pc'[s] = "done"
  BY <1>1 DEF TxStep, EnqueueRead, EnqueueWrite, Schedule, SkipClaim, Dequeue, DequeueNone,
       Process, AppendDequeued, AppendDequeuedRefused, TurnOk, TurnFails
<1>2. ASSUME NEW t \in Tasks, TaskStep(t) PROVE pc'[s] = "done"
  BY <1>2 DEF TaskStep, TryClaim, Respond, ReplyOk, ReplyRefused, Release
<1>3. CASE Register
  BY <1>3 DEF Register
<1>4. CASE Crash
  BY <1>4 DEF Crash
<1>5. CASE UNCHANGED vars
  BY <1>5 DEF vars
<1> QED
  BY <1>1, <1>2, <1>3, <1>4, <1>5 DEF Next

LEMMA NextProtected ==
  MInv /\ ClaimProtectsAppends /\ [Next]_vars => ClaimProtectsAppends'
<1> SUFFICES ASSUME MInv, ClaimProtectsAppends, [Next]_vars, ~SessionWrote'
             PROVE  AppendsProtected'
  BY DEF ClaimProtectsAppends
<1>0. AppendsProtected
  <2>1. ASSUME NEW s \in Sessions, pc[s] = "done" PROVE FALSE
    BY <2>1, DoneStays DEF SessionWrote, MInv, Tasks
  <2> QED
    BY <2>1 DEF SessionWrote, ClaimProtectsAppends
<1>1. ASSUME NEW u \in Tasks \ Sessions, pc[u] \in {"append", "reply"},
             pc'[u] \notin {"append", "reply"},
             \A t \in Tasks : t # u => pc'[t] = pc[t]
      PROVE AppendsProtected'
  <2>1. Holds(u)
    BY <1>1 DEF Holds, Claimed
  <2>2. \A t \in Tasks \ Sessions : pc'[t] \in {"append", "reply"} => FALSE
    <3> SUFFICES ASSUME NEW t \in Tasks \ Sessions, pc'[t] \in {"append", "reply"} PROVE FALSE
      OBVIOUS
    <3>1. t # u /\ Holds(t)
      BY <1>1 DEF Holds, Claimed
    <3> QED
      BY <2>1, <3>1, Zenon DEF MInv, SingleDrainer
  <2> QED
    BY <2>2 DEF AppendsProtected, Holds
<1>2. ASSUME log' = log,
             \A t \in Tasks : pc'[t] \in {"append", "reply"} =>
                 \/ pc[t] = pc'[t] /\ seq'[t] = seq[t]
                 \/ seq'[t] = Len(log) + 1
      PROVE AppendsProtected'
  BY <1>0, <1>2 DEF AppendsProtected, Holds, Claimed
<1> USE DEF MInv, TypeOK, Goto, Tasks
<1>3. ASSUME NEW x \in Txs, TxStep(x) PROVE AppendsProtected'
  <2>1. CASE EnqueueRead(x)
    BY <2>1, <1>2 DEF EnqueueRead
  <2>2. CASE EnqueueWrite(x)
    BY <2>2, <1>2 DEF EnqueueWrite
  <2>3. CASE Schedule(x)
    BY <2>3, <1>2 DEF Schedule
  <2>4. CASE SkipClaim(x)
    BY <2>4, <1>2 DEF SkipClaim
  <2>5. CASE Dequeue(x)
    BY <2>5, <1>2 DEF Dequeue
  <2>6. CASE DequeueNone(x)
    BY <2>6, <1>2 DEF DequeueNone
  <2>7. CASE Process(x)
    BY <2>7, <1>2 DEF Process
  <2>8. CASE AppendDequeued(x)
    BY <2>8, <1>1, InboxAssumption DEF AppendDequeued
  <2>9. CASE AppendDequeuedRefused(x)
    BY <2>9, <1>2 DEF AppendDequeuedRefused
  <2>10. CASE TurnOk(x)
    BY <2>10, <1>2 DEF TurnOk
  <2>11. CASE TurnFails(x)
    BY <2>11, <1>2 DEF TurnFails
  <2> QED
    BY <1>3, <2>1, <2>2, <2>3, <2>4, <2>5, <2>6, <2>7, <2>8, <2>9, <2>10, <2>11 DEF TxStep
<1>4. ASSUME NEW t \in Tasks, TaskStep(t) PROVE AppendsProtected'
  <2>1. CASE TryClaim(t)
    BY <2>1, <1>2 DEF TryClaim
  <2>2. CASE Respond(t)
    BY <2>2, <1>2 DEF Respond
  <2>3. CASE ReplyOk(t)
    <3>1. t \notin Sessions
      BY <2>3, InboxAssumption DEF ReplyOk, SessionWrote
    <3> QED
      BY <2>3, <3>1, <1>1 DEF ReplyOk
  <2>4. CASE ReplyRefused(t)
    BY <2>4, <1>2 DEF ReplyRefused
  <2>5. CASE Release(t)
    BY <2>5, <1>2 DEF Release
  <2> QED
    BY <1>4, <2>1, <2>2, <2>3, <2>4, <2>5 DEF TaskStep
<1>5. CASE Register
  BY <1>5, <1>2 DEF Register
<1>6. CASE Crash
  BY <1>6, <1>2 DEF Crash
<1>7. CASE UNCHANGED vars
  BY <1>7, <1>2 DEF vars
<1> QED
  BY <1>3, <1>4, <1>5, <1>6, <1>7 DEF Next

\* Among the writers that take the claim, no append of a claim holder is ever
\* refused for its sequence number: only a session, which takes none, can do that.
THEOREM ClaimSerialisesAppends == Spec => []ClaimProtectsAppends
<1>1. Init => ClaimProtectsAppends
  BY DEF Init, ClaimProtectsAppends, AppendsProtected, Tasks
<1>2. MInv /\ ClaimProtectsAppends /\ [Next]_vars => ClaimProtectsAppends'
  BY NextProtected
<1> QED
  BY <1>1, <1>2, AlwaysMInv, PTL DEF Spec

----------------------------------------------------------------------------
(* The inbox implements FifoQueue.                                          *)

\* A function that is a sequence and one element more, or all but the first.
LEMMA IsAppend ==
  ASSUME NEW T, NEW s \in Seq(T), NEW e \in T, NEW n \in Nat, Len(s) = n,
         NEW f \in [1..(n + 1) -> T], \A k \in 1..n : f[k] = s[k], f[n + 1] = e
  PROVE  f = Append(s, e)
<1>1. f \in Seq(T) /\ Len(f) = n + 1
  OBVIOUS
<1>2. Append(s, e) \in Seq(T) /\ Len(Append(s, e)) = n + 1
  OBVIOUS
<1>3. \A k \in 1..(n + 1) : f[k] = Append(s, e)[k]
  OBVIOUS
<1> QED
  BY <1>1, <1>2, <1>3, SeqEqual

LEMMA IsTail ==
  ASSUME NEW T, NEW s \in Seq(T), s # <<>>,
         NEW f \in [1..(Len(s) - 1) -> T], \A k \in 1..(Len(s) - 1) : f[k] = s[k + 1]
  PROVE  f = Tail(s)
<1>1. f \in Seq(T) /\ Len(f) = Len(s) - 1
  OBVIOUS
<1>2. Tail(s) \in Seq(T) /\ Len(Tail(s)) = Len(s) - 1
  OBVIOUS
<1>3. \A k \in 1..(Len(s) - 1) : f[k] = Tail(s)[k]
  OBVIOUS
<1> QED
  BY <1>1, <1>2, <1>3, SeqEqual

\* The inbox entries of a log are finitely many, and each rank is taken.
LEMMA EntriesFinite ==
  ASSUME NEW l \in Seq(Txs \cup {Other})
  PROVE  IsFiniteSet(Entries(l)) /\ Cardinality(Entries(l)) \in Nat
<1>1. IsFiniteSet(1..Len(l)) /\ Entries(l) \in SUBSET (1..Len(l))
  BY FS_Interval DEF Entries
<1> QED
  BY <1>1, FS_Subset, FS_CardinalityType

EveryRank(l) == \A k \in 1..Cardinality(Entries(l)) : Ranked(l, k) # {}

\* An entry that did not come through the inbox changes nothing of what did.
LEMMA AppendForeign ==
  ASSUME NEW l \in Seq(Txs \cup {Other}), EveryRank(l)
  PROVE  /\ FromInbox(Append(l, Other)) = FromInbox(l)
         /\ EveryRank(Append(l, Other))
<1> DEFINE m == Append(l, Other)
<1>1. /\ DOMAIN l = 1..Len(l) /\ DOMAIN m = 1..(Len(l) + 1) /\ Len(l) \in Nat
      /\ m[Len(l) + 1] = Other /\ \A i \in 1..Len(l) : m[i] = l[i]
  OBVIOUS
<1> HIDE DEF m
<1>2. Entries(m) = Entries(l)
  BY <1>1 DEF Entries
<1>3. \A k : Ranked(m, k) = Ranked(l, k)
  BY <1>2 DEF Ranked, UpTo
<1>4. \A k \in 1..Cardinality(Entries(l)) : m[The(Ranked(l, k))] = l[The(Ranked(l, k))]
  <2> SUFFICES ASSUME NEW k \in 1..Cardinality(Entries(l))
               PROVE  m[The(Ranked(l, k))] = l[The(Ranked(l, k))]
    OBVIOUS
  <2>1. The(Ranked(l, k)) \in Ranked(l, k)
    BY DEF EveryRank, The
  <2>2. The(Ranked(l, k)) \in 1..Len(l)
    BY <2>1, <1>1 DEF Ranked, Entries
  <2> QED
    BY <2>2, <1>1
<1>5. FromInbox(m) = FromInbox(l)
  BY <1>2, <1>3, <1>4 DEF FromInbox
<1>6. EveryRank(m)
  BY <1>2, <1>3 DEF EveryRank
<1> QED
  BY <1>5, <1>6 DEF m

\* An entry that came through the inbox is the next of them.
LEMMA AppendOwn ==
  ASSUME NEW l \in Seq(Txs \cup {Other}), EveryRank(l), NEW x \in Txs
  PROVE  /\ FromInbox(Append(l, x)) = Append(FromInbox(l), x)
         /\ EveryRank(Append(l, x))
<1> DEFINE m == Append(l, x)
           n == Cardinality(Entries(l))
<1>1. /\ DOMAIN l = 1..Len(l) /\ DOMAIN m = 1..(Len(l) + 1) /\ Len(l) \in Nat
      /\ m[Len(l) + 1] = x /\ \A i \in 1..Len(l) : m[i] = l[i]
  OBVIOUS
<1>2. x # Other
  BY InboxAssumption
<1>3. n \in Nat /\ IsFiniteSet(Entries(l)) /\ Entries(l) \subseteq 1..Len(l)
  <2>1. Entries(l) \subseteq 1..Len(l)
    BY <1>1 DEF Entries
  <2> QED
    BY <2>1, EntriesFinite
<1> HIDE DEF m, n
<1>4. Entries(m) = Entries(l) \cup {Len(l) + 1}
  BY <1>1, <1>2 DEF Entries
<1>5. Len(l) + 1 \notin Entries(l)
  BY <1>1, <1>3
<1>6. Cardinality(Entries(m)) = n + 1
  <2>1. \A e : e \notin Entries(l) => Cardinality(Entries(l) \cup {e}) = Cardinality(Entries(l)) + 1
    BY <1>3, FS_AddElement, Zenon
  <2> QED
    BY <2>1, <1>4, <1>5 DEF n
<1>7. ASSUME NEW i \in Entries(l)
      PROVE  UpTo(m, i) = UpTo(l, i) /\ Cardinality(UpTo(l, i)) \in Nat /\ Cardinality(UpTo(l, i)) <= n
  <2>1. i \in 1..Len(l) /\ \A j \in Entries(l) : j \in 1..Len(l)
    BY <1>3
  <2>2. UpTo(m, i) = UpTo(l, i)
    BY <2>1, <1>1, <1>4 DEF UpTo
  <2>3. UpTo(l, i) \in SUBSET Entries(l)
    BY DEF UpTo
  <2>4. IsFiniteSet(UpTo(l, i)) /\ Cardinality(UpTo(l, i)) <= n
    BY <2>3, <1>3, FS_Subset DEF n
  <2> QED
    BY <2>2, <2>4, FS_CardinalityType
<1>8. UpTo(m, Len(l) + 1) = Entries(m)
  <2>1. \A j \in Entries(m) : j <= Len(l) + 1
    BY <1>1, <1>3, <1>4
  <2> QED
    BY <2>1 DEF UpTo
<1>9. ASSUME NEW k \in 1..n PROVE Ranked(m, k) = Ranked(l, k)
  <2>1. Cardinality(UpTo(m, Len(l) + 1)) # k
    BY <1>3, <1>6, <1>8
  <2>2. \A i \in Entries(l) : Cardinality(UpTo(m, i)) = Cardinality(UpTo(l, i))
    BY <1>7
  <2> QED
    BY <2>1, <2>2, <1>4 DEF Ranked
<1>10. Ranked(m, n + 1) = {Len(l) + 1}
  <2>1. Cardinality(UpTo(m, Len(l) + 1)) = n + 1
    BY <1>6, <1>8
  <2>2. \A i \in Entries(l) : Cardinality(UpTo(m, i)) # n + 1
    BY <1>3, <1>7
  <2> QED
    BY <2>1, <2>2, <1>4, <1>5 DEF Ranked
<1>11. The(Ranked(m, n + 1)) = Len(l) + 1
  BY <1>10 DEF The
<1>12. ASSUME NEW k \in 1..n
       PROVE  The(Ranked(l, k)) \in 1..Len(l) /\ Ranked(l, k) # {}
  <2>1. Ranked(l, k) # {}
    BY DEF EveryRank, n
  <2>2. The(Ranked(l, k)) \in Ranked(l, k)
    BY <2>1 DEF The
  <2> QED
    BY <2>1, <2>2, <1>3 DEF Ranked
<1>13. EveryRank(m)
  <2> SUFFICES ASSUME NEW k \in 1..(n + 1) PROVE Ranked(m, k) # {}
    BY <1>6 DEF EveryRank
  <2>1. CASE k = n + 1
    BY <2>1, <1>10, Zenon
  <2>2. CASE k # n + 1
    BY <2>2, <1>3, <1>9, <1>12
  <2> QED
    BY <2>1, <2>2
<1>14. FromInbox(l) \in Seq(Txs \cup {Other}) /\ Len(FromInbox(l)) = n
  <2>1. \A k \in 1..n : l[The(Ranked(l, k))] \in Txs \cup {Other}
    BY <1>12
  <2>2. FromInbox(l) \in [1..n -> Txs \cup {Other}]
    BY <2>1 DEF FromInbox, n
  <2> QED
    BY <2>2, <1>3
<1>15. FromInbox(m) = Append(FromInbox(l), x)
  <2>1. FromInbox(m) = [k \in 1..(n + 1) |-> m[The(Ranked(m, k))]]
    BY <1>6 DEF FromInbox
  <2>2. \A k \in 1..n : FromInbox(m)[k] = FromInbox(l)[k]
    <3> SUFFICES ASSUME NEW k \in 1..n PROVE FromInbox(m)[k] = FromInbox(l)[k]
      OBVIOUS
    <3>1. FromInbox(m)[k] = m[The(Ranked(l, k))]
      BY <2>1, <1>3, <1>9
    <3>2. FromInbox(l)[k] = l[The(Ranked(l, k))]
      BY DEF FromInbox, n
    <3> QED
      BY <3>1, <3>2, <1>1, <1>12
  <2>3. FromInbox(m)[n + 1] = x
    BY <2>1, <1>1, <1>3, <1>11
  <2>4. FromInbox(m) \in [1..(n + 1) -> Txs \cup {Other}]
    <3>1. \A k \in 1..(n + 1) : m[The(Ranked(m, k))] \in Txs \cup {Other}
      BY <1>1, <1>3, <1>9, <1>11, <1>12
    <3> QED
      BY <2>1, <3>1
  <2> QED
    BY <2>2, <2>3, <2>4, <1>3, <1>14, IsAppend
<1> QED
  BY <1>13, <1>15 DEF m

\* What the log has from the inbox is recorded, and an append of a foreign entry or a
\* step that leaves the log alone delivers nothing.
LEMMA DeliveredRecorded ==
  ASSUME log \in Seq(Txs \cup {Other}), EveryRank(log)
  PROVE  \A k \in DOMAIN FromInbox(log) : FromInbox(log)[k] \in Recorded
<1> SUFFICES ASSUME NEW k \in 1..Cardinality(Entries(log)) PROVE FromInbox(log)[k] \in Recorded
  BY DEF FromInbox
<1>1. The(Ranked(log, k)) \in Ranked(log, k)
  BY DEF EveryRank, The
<1>2. The(Ranked(log, k)) \in Entries(log)
  BY <1>1 DEF Ranked
<1>3. log[The(Ranked(log, k))] \in Recorded
  BY <1>2 DEF Entries, Recorded
<1> QED
  BY <1>3 DEF FromInbox

\* With a solid inbox, what lies between the cursors is a sequence of transactions.
LEMMA QueuedIsSeq ==
  ASSUME TypeOK, Solid
  PROVE  /\ QueuedInOrder \in Seq(Txs) /\ Len(QueuedInOrder) = itail - ihead
         /\ \A k \in 1..(itail - ihead) : QueuedInOrder[k] = inbox[ihead + k - 1]
<1>1. /\ ihead \in Nat /\ itail \in Nat /\ ihead <= itail
      /\ DOMAIN inbox = ihead..(itail - 1) /\ \A s \in DOMAIN inbox : inbox[s] \in Txs
  BY DEF TypeOK, Solid
<1>2. \A k \in 1..(itail - ihead) : inbox[ihead + k - 1] \in Txs
  BY <1>1
<1>3. QueuedInOrder \in [1..(itail - ihead) -> Txs]
  BY <1>2 DEF QueuedInOrder
<1> QED
  BY <1>1, <1>3 DEF QueuedInOrder

LEMMA EnqueueSubmits ==
  ASSUME NEW c, Clients = {c}, MInv, OInv, LInv, LInv', TypeOK', EveryRank(log),
         NEW x \in Txs, EnqueueWrite(x)
  PROVE  Fifo!Submit(x)
<1>1. /\ pc[x] = "enqueue" /\ ihead' = ihead /\ itail' = slot[x] + 1 /\ log' = log
      /\ inbox' = [s \in DOMAIN inbox \cup {slot[x]} |-> IF s = slot[x] THEN x ELSE inbox[s]]
  BY DEF EnqueueWrite
<1>2. /\ slot[x] = itail /\ ihead <= itail /\ DOMAIN inbox = ihead..(itail - 1)
      /\ ihead \in Nat /\ itail \in Nat
  BY <1>1 DEF LInv, Solid, MInv, TypeOK
<1>3. /\ QueuedInOrder \in Seq(Txs) /\ Len(QueuedInOrder) = itail - ihead
      /\ \A k \in 1..(itail - ihead) : QueuedInOrder[k] = inbox[ihead + k - 1]
  BY QueuedIsSeq DEF MInv, LInv
<1>4. QueuedInOrder' \in [1..((itail - ihead) + 1) -> Txs]
  <2>1. QueuedInOrder' = [k \in 1..((itail - ihead) + 1) |-> inbox'[ihead + k - 1]]
    <3>1. itail' - ihead' = (itail - ihead) + 1 /\ ihead' = ihead
      BY <1>1, <1>2
    <3> QED
      BY <3>1 DEF QueuedInOrder
  <2>2. DOMAIN inbox' = ihead..itail /\ \A s \in DOMAIN inbox' : inbox'[s] \in Txs
    <3>1. DOMAIN inbox' = ihead..itail
      BY <1>1, <1>2
    <3> QED
      BY <3>1 DEF TypeOK
  <2>3. \A k \in 1..((itail - ihead) + 1) : ihead + k - 1 \in ihead..itail
    BY <1>2
  <2> QED
    BY <2>1, <2>2, <2>3
<1>5. \A k \in 1..(itail - ihead) : QueuedInOrder'[k] = QueuedInOrder[k]
  BY <1>1, <1>2, <1>3 DEF QueuedInOrder
<1>6. QueuedInOrder'[(itail - ihead) + 1] = x
  BY <1>1, <1>2 DEF QueuedInOrder
<1>7. QueuedInOrder' = Append(QueuedInOrder, x)
  <2>1. itail - ihead \in Nat
    BY <1>2
  <2> QED
    BY <2>1, <1>3, <1>4, <1>5, <1>6, IsAppend
<1>8. FromInbox(log)' = FromInbox(log)
  BY <1>1
<1>9. x \notin Fifo!Waiting
  <2>1. \A s \in DOMAIN inbox : inbox[s] # x
    BY <1>1 DEF OInv, FreshNowhere
  <2> QED
    BY <2>1, <1>2, <1>3 DEF Fifo!Waiting
<1>10. x \notin Fifo!Delivered
  <2>1. x \notin Recorded
    BY <1>1 DEF OInv, FreshNowhere
  <2> QED
    BY <2>1, DeliveredRecorded DEF Fifo!Delivered, MInv, TypeOK
<1> QED
  BY <1>7, <1>8, <1>9, <1>10 DEF Fifo!Submit

LEMMA AppendCommits ==
  ASSUME MInv, OInv, LInv, LInv', TypeOK', EveryRank(log), NEW x \in Txs, AppendDequeued(x)
  PROVE  Fifo!Commit /\ EveryRank(log')
<1>1. /\ pc[x] = "append" /\ itail' = itail /\ ihead' = slot[x] + 1
      /\ log' = Append(log, got[x])
      /\ inbox' = [s \in DOMAIN inbox \ {slot[x]} |-> inbox[s]]
  BY DEF AppendDequeued
<1>2. /\ slot[x] = ihead /\ ihead < itail /\ got[x] = inbox[ihead]
      /\ DOMAIN inbox = ihead..(itail - 1) /\ ihead \in Nat /\ itail \in Nat
  BY <1>1 DEF LInv, Solid, MInv, TypeOK, TokenIsHead
<1>3. got[x] \in Txs
  BY <1>1 DEF OInv, InHand
<1>4. FromInbox(log') = Append(FromInbox(log), got[x]) /\ EveryRank(log')
  <2>1. log \in Seq(Txs \cup {Other})
    BY DEF MInv, TypeOK
  <2>2. /\ FromInbox(Append(log, got[x])) = Append(FromInbox(log), got[x])
        /\ EveryRank(Append(log, got[x]))
    BY <2>1, <1>3, AppendOwn
  <2> QED
    BY <2>2, <1>1
<1>5. /\ QueuedInOrder \in Seq(Txs) /\ Len(QueuedInOrder) = itail - ihead
      /\ \A k \in 1..(itail - ihead) : QueuedInOrder[k] = inbox[ihead + k - 1]
  BY QueuedIsSeq DEF MInv, LInv
<1>6. QueuedInOrder # <<>> /\ Head(QueuedInOrder) = got[x]
  BY <1>2, <1>5
<1>7. QueuedInOrder' \in [1..((itail - ihead) - 1) -> Txs]
  <2>1. QueuedInOrder' = [k \in 1..((itail - ihead) - 1) |-> inbox'[(ihead + 1) + k - 1]]
    <3>1. itail' - ihead' = (itail - ihead) - 1 /\ ihead' = ihead + 1
      BY <1>1, <1>2
    <3> QED
      BY <3>1 DEF QueuedInOrder
  <2>2. DOMAIN inbox' = (ihead + 1)..(itail - 1) /\ \A s \in DOMAIN inbox' : inbox'[s] \in Txs
    <3>1. DOMAIN inbox' = (ihead + 1)..(itail - 1)
      BY <1>1, <1>2
    <3> QED
      BY <3>1 DEF TypeOK
  <2>3. \A k \in 1..((itail - ihead) - 1) : (ihead + 1) + k - 1 \in (ihead + 1)..(itail - 1)
    BY <1>2
  <2> QED
    BY <2>1, <2>2, <2>3
<1>8. \A k \in 1..((itail - ihead) - 1) : QueuedInOrder'[k] = QueuedInOrder[k + 1]
  <2> SUFFICES ASSUME NEW k \in 1..((itail - ihead) - 1)
               PROVE  QueuedInOrder'[k] = QueuedInOrder[k + 1]
    OBVIOUS
  <2>1. k \in 1..(itail' - ihead') /\ ihead' + k - 1 = ihead + (k + 1) - 1
    BY <1>1, <1>2
  <2>2. QueuedInOrder'[k] = inbox'[ihead + (k + 1) - 1]
    BY <2>1 DEF QueuedInOrder
  <2>3. inbox'[ihead + (k + 1) - 1] = inbox[ihead + (k + 1) - 1]
    BY <1>1, <1>2
  <2>4. QueuedInOrder[k + 1] = inbox[ihead + (k + 1) - 1]
    BY <1>2, <1>5
  <2> QED
    BY <2>2, <2>3, <2>4
<1>9. QueuedInOrder' = Tail(QueuedInOrder)
  BY <1>5, <1>6, <1>7, <1>8, IsTail
<1> QED
  BY <1>4, <1>6, <1>9 DEF Fifo!Commit

\* Every other step leaves both alone.
LEMMA StepIsFifo ==
  ASSUME NEW c, Clients = {c}, MInv, OInv, LInv, MInv', LInv', EveryRank(log), [Next]_vars
  PROVE  /\ [Fifo!Next]_<<QueuedInOrder, FromInbox(log)>>
         /\ EveryRank(log')
<1> DEFINE Goal == [Fifo!Next]_<<QueuedInOrder, FromInbox(log)>> /\ EveryRank(log')
<1>1. ASSUME queue' = queue, log' = log PROVE Goal
  <2>1. QueuedInOrder' = QueuedInOrder
    BY <1>1 DEF queue, QueuedInOrder
  <2>2. FromInbox(log)' = FromInbox(log) /\ EveryRank(log')
    BY <1>1
  <2> QED
    BY <2>1, <2>2
<1>2. ASSUME queue' = queue, log' = Append(log, Other) PROVE Goal
  <2>1. QueuedInOrder' = QueuedInOrder
    BY <1>2 DEF queue, QueuedInOrder
  <2>2. FromInbox(log') = FromInbox(log) /\ EveryRank(log')
    BY <1>2, AppendForeign DEF MInv, TypeOK
  <2> QED
    BY <2>1, <2>2
<1>3. ASSUME NEW x \in Txs, EnqueueWrite(x) PROVE Goal
  <2>1. Fifo!Submit(x)
    BY <1>3, EnqueueSubmits DEF MInv
  <2>2. log' = log
    BY <1>3 DEF EnqueueWrite
  <2> QED
    BY <2>1, <2>2 DEF Fifo!Next
<1>4. ASSUME NEW x \in Txs, AppendDequeued(x) PROVE Goal
  BY <1>4, AppendCommits DEF Fifo!Next, MInv
<1> HIDE DEF Goal
<1>5. ASSUME NEW x \in Txs, TxStep(x) PROVE Goal
  <2>1. CASE EnqueueWrite(x)
    BY <2>1, <1>3
  <2>2. CASE AppendDequeued(x)
    BY <2>2, <1>4
  <2>3. CASE ~EnqueueWrite(x) /\ ~AppendDequeued(x)
    <3>1. queue' = queue /\ log' = log
      BY <2>3, <1>5 DEF TxStep, queue, EnqueueRead, Schedule, SkipClaim, Dequeue, DequeueNone,
           Process, AppendDequeuedRefused, TurnOk, TurnFails
    <3> QED
      BY <3>1, <1>1
  <2> QED
    BY <2>1, <2>2, <2>3
<1>6. ASSUME NEW t \in Tasks, TaskStep(t) PROVE Goal
  <2>1. CASE ReplyOk(t)
    BY <2>1, <1>2 DEF ReplyOk
  <2>2. CASE ~ReplyOk(t)
    <3>1. queue' = queue /\ log' = log
      BY <2>2, <1>6 DEF TaskStep, queue, TryClaim, Respond, ReplyRefused, Release
    <3> QED
      BY <3>1, <1>1
  <2> QED
    BY <2>1, <2>2
<1>7. ASSUME Register PROVE Goal
  BY <1>7, <1>1 DEF Register
<1>8. ASSUME Crash PROVE Goal
  BY <1>8, <1>1 DEF Crash
<1>9. ASSUME UNCHANGED vars PROVE Goal
  BY <1>9, <1>1 DEF vars
<1>10. Goal
  BY <1>5, <1>6, <1>7, <1>8, <1>9 DEF Next
<1> QED
  BY <1>10 DEF Goal

\* enqueue_tx, dequeue_tx and append_entry_atomic_internal with one client are a queue:
\* what is accepted reaches the log exactly once and in order, although enqueue is two
\* steps, the log is shared and every task may crash.
THEOREM InboxIsQueue ==
  ASSUME NEW c, Clients = {c} PROVE Spec => ImplementsFifo
<1>1. Init => EveryRank(log) /\ Fifo!Init
  <2> SUFFICES ASSUME Init PROVE EveryRank(log) /\ Fifo!Init
    OBVIOUS
  <2>1. Entries(log) = {}
    BY DEF Init, Entries
  <2>2. Cardinality(Entries(log)) = 0
    BY <2>1, FS_EmptySet
  <2>3. EveryRank(log) /\ FromInbox(log) = <<>>
    BY <2>2 DEF EveryRank, FromInbox
  <2>4. QueuedInOrder = <<>>
    BY DEF Init, QueuedInOrder
  <2> QED
    BY <2>3, <2>4 DEF Fifo!Init
<1>2. Spec => []OInv
  BY AlwaysMInv, InitOInv, NextOInv, PTL DEF Spec
<1>3. Init => LInv
  BY InitLInv
<1>4. MInv /\ OInv /\ LInv /\ [Next]_vars => LInv'
  BY NextLInv
<1>5. Spec => []LInv
  BY <1>2, <1>3, <1>4, AlwaysMInv, PTL DEF Spec
<1>6. MInv /\ OInv /\ LInv /\ MInv' /\ LInv' /\ EveryRank(log) /\ [Next]_vars
      => [Fifo!Next]_<<QueuedInOrder, FromInbox(log)>> /\ EveryRank(log)'
  BY StepIsFifo
<1> QED
  BY <1>1, <1>2, <1>5, <1>6, AlwaysMInv, PTL DEF Spec, ImplementsFifo, Fifo!Spec
=============================================================================
