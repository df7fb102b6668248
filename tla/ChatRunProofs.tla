--------------------------- MODULE ChatRunProofs ---------------------------
(***************************************************************************)
(* Proofs about the chat run, for any number of sockets, any capacities    *)
(* and any bounds.                                                         *)
(***************************************************************************)
EXTENDS ChatRun, FiniteSetTheorems, SequenceTheorems, TLAPS

\* Most steps are first-order reasoning; the ones that need arithmetic cite SMT.
USE Zenon

----------------------------------------------------------------------------
(* What the steps of each task leave alone.                                 *)

\* Only the forwarder writes the channel, and only attaches write what they keep.
LEMMA SocketsLeftAlone ==
    ASSUME \/ DriverStep \/ Deliver \/ StopRun \/ WatcherStops
           \/ \E t \in Turns : TurnStep(t)
    PROVE  UNCHANGED <<pushed, history, sockets>>
<1>1. ASSUME NEW t \in Turns, TurnStep(t) PROVE UNCHANGED <<pushed, history, sockets>>
  BY <1>1 DEF TurnStep, ForwardEvent, ForwardGivesUp, ForwardEnds, LoopEnds, GenerationEvent,
              GenerationEnds, channel
<1>2. ASSUME DriverStep PROVE UNCHANGED <<pushed, history, sockets>>
  BY <1>2 DEF DriverStep, Boot, PopMail, NoMail, IdleShutdown, MailReady, IdleCommand,
              RetentionElapsed, Dispatch, PrepareFails, TurnShutdown, TurnCommand, TurnJoined,
              FinalizeTurn, FinalizePanic, MarkDone, DriverReturns, channel
<1> QED
  BY <1>1, <1>2 DEF Deliver, StopRun, WatcherStops, channel

\* The forwarder and the attaches change nothing of the driver's, the turns' and the
\* mailbox's state.
LEMMA DriverLeftAlone ==
    ASSUME Push \/ \E s \in Sockets : WriterStep(s) \/ ClientStep(s)
    PROVE  UNCHANGED <<run, turn, mail>>
<1>1. ASSUME NEW s \in Sockets, WriterStep(s) PROVE UNCHANGED <<run, turn, mail>>
  BY <1>1 DEF WriterStep, Subscribe, LoadDone, Replay, ReplayDone, Receive, Lagged
<1>2. ASSUME NEW s \in Sockets, ClientStep(s) PROVE UNCHANGED <<run, turn, mail>>
  BY <1>2 DEF ClientStep, LookUp, Close, CommandRefused, Command
<1> QED
  BY <1>1, <1>2 DEF Push

\* The attaches send nothing, and leave the channel alone.
LEMMA ChannelLeftAlone ==
    ASSUME \E s \in Sockets : WriterStep(s) \/ ClientStep(s)
    PROVE  UNCHANGED <<outbound, channel>>
<1>1. ASSUME NEW s \in Sockets, WriterStep(s) PROVE UNCHANGED <<outbound, channel>>
  BY <1>1 DEF WriterStep, Subscribe, LoadDone, Replay, ReplayDone, Receive, Lagged
<1>2. ASSUME NEW s \in Sockets, ClientStep(s) PROVE UNCHANGED <<outbound, channel>>
  BY <1>2 DEF ClientStep, LookUp, Close, CommandRefused, Command
<1> QED
  BY <1>1, <1>2

\* The tasks of a turn leave everything to the driver that is not theirs.
LEMMA TurnStepLeavesAlone ==
    ASSUME NEW t \in Turns, TurnStep(t)
    PROVE  UNCHANGED <<run, turns, cancelled, inbound, mail, channel>>
  BY DEF TurnStep, ForwardEvent, ForwardGivesUp, ForwardEnds, LoopEnds, GenerationEvent,
         GenerationEnds

----------------------------------------------------------------------------
(* The mailbox and its notification.                                        *)

MailInv == mailbox \in Nat /\ permit \in BOOLEAN /\ NoLostMail

LEMMA MailInit == Init => MailInv
<1> SUFFICES ASSUME Init PROVE MailInv
  OBVIOUS
<1>1. mailbox \in Nat
  BY DEF Init
<1>2. permit \in BOOLEAN /\ NoLostMail
  BY Zenon DEF Init, NoLostMail
<1> QED
  BY <1>1, <1>2 DEF MailInv

LEMMA MailUnchanged ==
    ASSUME MailInv, UNCHANGED <<driver, mailbox, permit>> PROVE MailInv'
  BY DEF MailInv, NoLostMail

\* A driver that takes no mail and does not begin to wait.
LEMMA MailElsewhere ==
    ASSUME MailInv, mailbox' = mailbox, permit' = permit, driver' # "wait" PROVE MailInv'
  BY DEF MailInv, NoLostMail

LEMMA MailNext == MailInv /\ [Next]_vars => MailInv'
<1> SUFFICES ASSUME MailInv, [Next]_vars PROVE MailInv'
  OBVIOUS
<1> USE DEF mail, run
<1>1. CASE Boot
  BY <1>1, MailElsewhere DEF Boot
<1>2. CASE PopMail
  BY <1>2, SMT DEF PopMail, StartTurn, MailInv, NoLostMail
<1>3. CASE NoMail
  BY <1>3, SMT DEF NoMail, MailInv, NoLostMail
<1>4. CASE MailReady
  <2>1. mailbox' \in Nat
    BY <1>4, SMT DEF MailReady, MailInv
  <2>2. permit' \in BOOLEAN /\ NoLostMail'
    BY <1>4, Zenon DEF MailReady, StartTurn, NoLostMail
  <2> QED
    BY <2>1, <2>2 DEF MailInv
<1>5. CASE IdleCommand
  BY <1>5, MailElsewhere DEF IdleCommand, StartTurn
<1>6. CASE IdleShutdown \/ RetentionElapsed
  BY <1>6, MailElsewhere DEF IdleShutdown, RetentionElapsed
<1>7. CASE Dispatch \/ PrepareFails \/ TurnShutdown
  BY <1>7, MailElsewhere DEF Dispatch, PrepareFails, TurnShutdown
<1>8. CASE TurnCommand
  BY <1>8, MailUnchanged DEF TurnCommand
<1>9. CASE TurnJoined \/ FinalizeTurn \/ FinalizePanic
  BY <1>9, MailElsewhere DEF TurnJoined, FinalizeTurn, FinalizePanic
<1>10. CASE MarkDone \/ DriverReturns
  BY <1>10, MailElsewhere DEF MarkDone, DriverReturns
<1>11. CASE Push \/ \E s \in Sockets : WriterStep(s) \/ ClientStep(s)
  BY <1>11, DriverLeftAlone, MailUnchanged
<1>12. CASE \E t \in Turns : TurnStep(t)
  BY <1>12, TurnStepLeavesAlone, MailUnchanged
<1>13. CASE Deliver
  BY <1>13, SMT DEF Deliver, MailInv, NoLostMail
<1>14. CASE StopRun \/ WatcherStops
  BY <1>14, MailUnchanged DEF StopRun, WatcherStops
<1>15. CASE UNCHANGED vars
  BY <1>15, MailUnchanged DEF vars
<1> QED
  BY <1>1, <1>2, <1>3, <1>4, <1>5, <1>6, <1>7, <1>8, <1>9, <1>10, <1>11, <1>12, <1>13, <1>14,
     <1>15 DEF Next, DriverStep

LEMMA AlwaysMailInv == Spec => []MailInv
  BY MailInit, MailNext, PTL DEF Spec

\* AgentMailbox and drive_idle: a message never waits for a driver that waits without a
\* wake-up to come.
THEOREM MailNeverLost == Spec => []NoLostMail
  BY AlwaysMailInv, PTL DEF MailInv

\* run_chat_driver, CHAT_RUN_IDLE_RETENTION: a run nobody stopped is closed only with no
\* client attached and nothing waiting, although the deadline does not look into the
\* mailbox.
THEOREM ReapingLosesNothing == Spec => ReapLosesNothing
<1> DEFINE Reaps == (driver = "wait" /\ driver' = "closing" /\ ~shutdown) =>
                      (Attached = {} /\ commands = <<>> /\ mailbox = 0)
<1>1. MailInv /\ [Next]_vars => [Reaps]_vars
  <2> SUFFICES ASSUME MailInv, Next, driver = "wait", driver' = "closing", ~shutdown
               PROVE  Attached = {} /\ commands = <<>> /\ mailbox = 0
    OBVIOUS
  <2> USE DEF run
  <2>1. RetentionElapsed => Attached = {} /\ commands = <<>> /\ mailbox = 0
    BY SMT DEF RetentionElapsed, MailInv, NoLostMail
  <2>2. ~(Push \/ \E s \in Sockets : WriterStep(s) \/ ClientStep(s))
    BY DriverLeftAlone
  <2>3. ~ \E t \in Turns : TurnStep(t)
    BY TurnStepLeavesAlone
  <2>4. ~(Deliver \/ StopRun \/ WatcherStops)
    BY DEF Deliver, StopRun, WatcherStops
  <2>5. ~(Boot \/ PopMail \/ NoMail \/ IdleShutdown \/ MailReady \/ IdleCommand)
    BY DEF Boot, PopMail, NoMail, IdleShutdown, MailReady, IdleCommand, StartTurn
  <2>6. ~(Dispatch \/ PrepareFails \/ TurnShutdown \/ TurnCommand \/ TurnJoined \/ FinalizeTurn
          \/ FinalizePanic \/ MarkDone \/ DriverReturns)
    BY DEF Dispatch, PrepareFails, TurnShutdown, TurnCommand, TurnJoined, FinalizeTurn,
           FinalizePanic, MarkDone, DriverReturns
  <2> QED
    BY <2>1, <2>2, <2>3, <2>4, <2>5, <2>6 DEF Next, DriverStep
<1> QED
  BY <1>1, AlwaysMailInv, PTL DEF Spec, ReapLosesNothing
----------------------------------------------------------------------------
(* Every turn answers one command or one message, so there are enough       *)
(* numbers for the turns.                                                   *)

BudgetInv ==
    /\ turns \in Nat /\ mailbox \in Nat /\ asked \in Nat /\ posted \in Nat
    /\ commands \in Seq(Commands)
    /\ turns + mailbox + Len(commands) <= asked + posted
    /\ asked + posted <= MaxEffort
    /\ driver \in {"prepare", "turn", "finish", "finish_end"} => turns > 0

LEMMA EffortCounts ==
    ASSUME asked \in Nat, posted \in Nat, Effort < MaxEffort
    PROVE  asked + posted + 1 <= MaxEffort
<1>1. Cardinality({t \in Turns : deltas[t] > 0}) \in Nat
  <2>1. IsFiniteSet(Turns)
    BY ChatRunAssumption, FS_Interval, SMT DEF Turns
  <2> QED
    BY <2>1, FS_Subset, FS_CardinalityType
<1> QED
  BY <1>1, ChatRunAssumption, SMT DEF Effort

LEMMA BudgetInit == Init => BudgetInv
  BY ChatRunAssumption, SMT DEF Init, BudgetInv

LEMMA BudgetUnchanged ==
    ASSUME BudgetInv, UNCHANGED <<driver, turns, mailbox, asked, posted, commands>>
    PROVE  BudgetInv'
  BY DEF BudgetInv

\* A driver's step that starts no turn and takes no command.
LEMMA BudgetKept ==
    ASSUME BudgetInv, UNCHANGED <<turns, mailbox, asked, posted, commands>>,
           \/ driver' \in {"pop", "wait", "closing", "marked", "gone"}
           \/ driver \in {"prepare", "turn", "finish", "finish_end"}
    PROVE  BudgetInv'
  BY DEF BudgetInv

LEMMA BudgetMail ==
    ASSUME BudgetInv, mailbox > 0, mailbox' = mailbox - 1, turns' = turns + 1,
           UNCHANGED <<asked, posted, commands>>
    PROVE  BudgetInv'
  BY SMT DEF BudgetInv

LEMMA BudgetCommand ==
    ASSUME BudgetInv, commands # <<>>, commands' = Tail(commands),
           \/ turns' = turns + 1
           \/ turns' = turns /\ driver' = "pop"
           \/ turns' = turns /\ driver = "turn",
           UNCHANGED <<mailbox, asked, posted>>
    PROVE  BudgetInv'
  BY SMT DEF BudgetInv

LEMMA BudgetNext == BudgetInv /\ [Next]_vars => BudgetInv'
<1> SUFFICES ASSUME BudgetInv, [Next]_vars PROVE BudgetInv'
  OBVIOUS
<1> USE DEF run, turn, inbound, mail
<1>1. CASE Boot \/ NoMail \/ IdleShutdown \/ RetentionElapsed \/ MarkDone \/ DriverReturns
  BY <1>1, BudgetKept DEF Boot, NoMail, IdleShutdown, RetentionElapsed, MarkDone, DriverReturns
<1>2. CASE PopMail
  BY <1>2, BudgetMail DEF PopMail, StartTurn
<1>3. CASE MailReady
  BY <1>3, BudgetMail, BudgetKept DEF MailReady, StartTurn
<1>4. CASE IdleCommand
  BY <1>4, BudgetCommand DEF IdleCommand, StartTurn
<1>5. CASE Dispatch \/ PrepareFails \/ TurnShutdown
  BY <1>5, BudgetKept DEF Dispatch, PrepareFails, TurnShutdown
<1>6. CASE TurnCommand
  BY <1>6, BudgetCommand DEF TurnCommand
<1>7. CASE TurnJoined \/ FinalizeTurn \/ FinalizePanic
  BY <1>7, BudgetKept DEF TurnJoined, FinalizeTurn, FinalizePanic, DropTurn
<1>8. CASE Push
  BY <1>8, BudgetUnchanged DEF Push
<1>9. CASE \E s \in Sockets : WriterStep(s)
  BY <1>9, BudgetUnchanged DEF WriterStep, Subscribe, LoadDone, Replay, ReplayDone, Receive, Lagged
<1>10. ASSUME NEW s \in Sockets, LookUp(s) \/ Close(s) \/ CommandRefused(s) PROVE BudgetInv'
  BY <1>10, BudgetUnchanged DEF LookUp, Close, CommandRefused
<1>11. ASSUME NEW s \in Sockets, NEW c \in Commands, Command(s, c) PROVE BudgetInv'
  <2>1. asked + posted + 1 <= MaxEffort
    BY <1>11, EffortCounts DEF Command, BudgetInv
  <2> QED
    BY <1>11, <2>1, SMT DEF Command, BudgetInv
<1>12. CASE \E t \in Turns : TurnStep(t)
  BY <1>12, TurnStepLeavesAlone, BudgetUnchanged
<1>13. CASE Deliver
  <2>1. asked + posted + 1 <= MaxEffort
    BY <1>13, EffortCounts DEF Deliver, BudgetInv
  <2> QED
    BY <1>13, <2>1, SMT DEF Deliver, BudgetInv
<1>14. CASE StopRun \/ WatcherStops
  BY <1>14, BudgetUnchanged DEF StopRun, WatcherStops
<1>15. CASE UNCHANGED vars
  BY <1>15, BudgetUnchanged DEF vars
<1> QED
  BY <1>1, <1>2, <1>3, <1>4, <1>5, <1>6, <1>7, <1>8, <1>9, <1>10, <1>11, <1>12, <1>13, <1>14,
     <1>15 DEF Next, DriverStep, ClientStep

----------------------------------------------------------------------------
(* One turn at a time.                                                      *)

\* A turn's tasks exist from its dispatch until it is finalised; a turn that was not
\* started has none.
TurnInv ==
    /\ loop \in [Turns -> {"none", "running", "ok", "failed", "panicked", "generating",
                           "generated", "over"}]
    /\ forward \subseteq Turns
    /\ \A t \in Turns : t > turns => loop[t] = "none"
    /\ driver = "prepare" => loop[turns] = "none"
    /\ driver \in {"finish", "finish_end"} => loop[turns] \in {"ok", "failed", "panicked"}
    /\ \A t \in forward :
         /\ t = turns /\ loop[t] \in {"running", "ok", "failed", "panicked"}
         /\ driver \in {"turn", "finish", "closing", "marked", "gone"}
    /\ NoStrayTurn

LEMMA TurnInit == Init => TurnInv
  BY SMT DEF Init, TurnInv, NoStrayTurn, Turns

LEMMA TurnUnchanged ==
    ASSUME TurnInv, UNCHANGED <<driver, turn>> PROVE TurnInv'
  BY DEF TurnInv, NoStrayTurn, turn

LEMMA ActiveTurn ==
    ASSUME BudgetInv
    PROVE  /\ turns \in Nat /\ MaxEffort \in Nat
           /\ driver \in {"prepare", "turn", "finish", "finish_end"} => turns \in Turns
  BY ChatRunAssumption, SMT DEF BudgetInv, Turns

LEMMA MoreTurns ==
    ASSUME BudgetInv' PROVE turns' <= MaxEffort
<1>1. Len(commands') \in Nat
  BY LenProperties DEF BudgetInv
<1>2. /\ turns' \in Nat /\ mailbox' \in Nat /\ asked' \in Nat /\ posted' \in Nat
      /\ turns' + mailbox' + Len(commands') <= asked' + posted' /\ asked' + posted' <= MaxEffort
  BY Zenon DEF BudgetInv
<1>3. \A a, b, c, d, e, f \in Nat : a + b + c <= d + e /\ d + e <= f => a <= f
  BY SMT
<1> QED
  BY <1>1, <1>2, <1>3, ChatRunAssumption

\* An idle driver has no turn.
LEMMA IdleNoTurn ==
    ASSUME TurnInv, driver \in {"boot", "pop", "wait"},
           turn' = turn, driver' \in {"boot", "pop", "wait", "closing"}
    PROVE  TurnInv'
  BY DEF TurnInv, NoStrayTurn, turn

LEMMA StartsTurn ==
    ASSUME TurnInv, BudgetInv, BudgetInv', driver \in {"pop", "wait"}, StartTurn
    PROVE  TurnInv'
<1>1. turns + 1 \in Turns /\ turns \in Nat
  <2>1. turns' <= MaxEffort
    BY MoreTurns
  <2> QED
    BY <2>1, ChatRunAssumption, SMT DEF StartTurn, BudgetInv, Turns
<1> QED
  BY <1>1, SMT DEF TurnInv, NoStrayTurn, StartTurn, Turns

LEMMA DropsTurn ==
    ASSUME TurnInv, BudgetInv, turns \in Turns, turns \notin forward, DropTurn,
           driver \in {"turn", "finish", "finish_end"}, driver' = "pop"
    PROVE  TurnInv'
<1>1. \A t \in Turns : loop'[t] = IF t = turns THEN "over" ELSE loop[t]
  BY DEF TurnInv, DropTurn
<1>2. /\ loop' \in [Turns -> {"none", "running", "ok", "failed", "panicked", "generating",
                              "generated", "over"}]
      /\ forward' = forward /\ turns' = turns
  BY DEF TurnInv, DropTurn
<1>3. \A t \in Turns : loop[t] \in {"running", "generating"} => t = turns
  BY DEF TurnInv, NoStrayTurn
<1>4. NoStrayTurn'
  BY <1>1, <1>3 DEF NoStrayTurn
<1> QED
  BY <1>1, <1>2, <1>4, SMT DEF TurnInv, BudgetInv

LEMMA TurnNext == TurnInv /\ BudgetInv /\ [Next]_vars => TurnInv'
<1> SUFFICES ASSUME TurnInv, BudgetInv, [Next]_vars PROVE TurnInv'
  OBVIOUS
<1>0. BudgetInv'
  BY BudgetNext
<1>a. /\ turns \in Nat /\ MaxEffort \in Nat
      /\ driver \in {"prepare", "turn", "finish", "finish_end"} => turns \in Turns
  BY ActiveTurn
<1>1. CASE Boot \/ NoMail \/ IdleShutdown \/ RetentionElapsed
  BY <1>1, IdleNoTurn DEF Boot, NoMail, IdleShutdown, RetentionElapsed, turn
<1>2. CASE PopMail
  BY <1>0, <1>2, StartsTurn DEF PopMail
<1>3. CASE MailReady
  BY <1>0, <1>3, StartsTurn, IdleNoTurn DEF MailReady, turn
<1>4. CASE IdleCommand
  <2>1. CASE StartTurn
    BY <1>0, <1>4, <2>1, StartsTurn DEF IdleCommand
  <2>2. CASE UNCHANGED turn /\ driver' = "pop"
    BY <1>4, <2>2, IdleNoTurn DEF IdleCommand, turn
  <2>3. CASE /\ turns' = turns + 1 /\ driver' = "turn"
             /\ loop' = [loop EXCEPT ![turns + 1] = "generating"]
             /\ UNCHANGED <<forward, deltas, cancelled>>
    <3>1. turns + 1 \in Turns
      BY <1>0, <1>a, <2>3, MoreTurns, SMT DEF Turns
    <3>2. driver = "wait"
      BY <1>4 DEF IdleCommand
    <3> QED
      BY <1>a, <2>3, <3>1, <3>2, SMT DEF TurnInv, NoStrayTurn, Turns
  <2> QED
    BY <1>4, <2>1, <2>2, <2>3 DEF IdleCommand
<1>5. CASE Dispatch
  BY <1>5, <1>a, SMT DEF Dispatch, TurnInv, NoStrayTurn, Turns
<1>6. CASE PrepareFails
  BY <1>6 DEF PrepareFails, TurnInv, NoStrayTurn, turn
<1>7. CASE TurnShutdown
  BY <1>7, <1>a DEF TurnShutdown, TurnInv, NoStrayTurn
<1>8. CASE TurnCommand
  BY <1>8 DEF TurnCommand, TurnInv, NoStrayTurn, run
<1>9. CASE TurnJoined
  <2>1. CASE loop[turns] = "generated"
    <3>1. turns \notin forward /\ DropTurn /\ driver = "turn" /\ driver' = "pop" /\ turns \in Turns
      BY <1>9, <2>1, <1>a DEF TurnJoined, TurnInv
    <3> QED
      BY <3>1, DropsTurn
  <2>2. CASE loop[turns] # "generated"
    BY <1>9, <2>2, <1>a DEF TurnJoined, TurnInv, NoStrayTurn, turn
  <2> QED
    BY <2>1, <2>2
<1>10. CASE FinalizeTurn
  <2>1. CASE loop[turns] = "panicked"
    BY <1>10, <2>1, <1>a, SMT DEF FinalizeTurn, TurnInv, NoStrayTurn, turn
  <2>2. CASE loop[turns] # "panicked"
    BY <1>10, <2>2, <1>a, DropsTurn DEF FinalizeTurn
  <2> QED
    BY <2>1, <2>2
<1>11. CASE FinalizePanic
  <2>1. turns \notin forward
    BY <1>11 DEF FinalizePanic, TurnInv
  <2> QED
    BY <1>11, <2>1, <1>a, DropsTurn DEF FinalizePanic
<1>12. CASE MarkDone \/ DriverReturns
  BY <1>12 DEF MarkDone, DriverReturns, TurnInv, NoStrayTurn, turn
<1>13. CASE Push \/ \E s \in Sockets : WriterStep(s) \/ ClientStep(s)
  BY <1>13, DriverLeftAlone, TurnUnchanged DEF run
<1>14. ASSUME NEW t \in Turns, TurnStep(t) PROVE TurnInv'
  <2>1. UNCHANGED <<driver, turns, cancelled>>
    BY <1>14, TurnStepLeavesAlone DEF run
  <2>2. CASE ForwardEvent(t) \/ GenerationEvent(t)
    BY <2>1, <2>2 DEF ForwardEvent, GenerationEvent, TurnInv, NoStrayTurn
  <2>3. CASE ForwardGivesUp(t) \/ ForwardEnds(t)
    BY <2>1, <2>3 DEF ForwardGivesUp, ForwardEnds, TurnInv, NoStrayTurn
  <2>4. ASSUME loop[t] \in {"running", "generating"},
               NEW o \in {"ok", "failed", "panicked", "generated"},
               loop[t] = "running" <=> o # "generated",
               loop' = [loop EXCEPT ![t] = o], forward' = forward
        PROVE  TurnInv'
    <3>1. t = turns /\ driver \in {"turn", "closing", "marked", "gone"}
      BY <2>4 DEF TurnInv, NoStrayTurn
    <3> QED
      BY <2>1, <2>4, <3>1 DEF TurnInv, NoStrayTurn
  <2>5. CASE LoopEnds(t)
    BY <2>4, <2>5 DEF LoopEnds
  <2>6. CASE GenerationEnds(t)
    BY <2>4, <2>6 DEF GenerationEnds
  <2> QED
    BY <1>14, <2>2, <2>3, <2>5, <2>6 DEF TurnStep
<1>15. CASE Deliver \/ StopRun \/ WatcherStops
  BY <1>15, TurnUnchanged DEF Deliver, StopRun, WatcherStops, run
<1>16. CASE UNCHANGED vars
  BY <1>16, TurnUnchanged DEF vars, run
<1> QED
  BY <1>1, <1>2, <1>3, <1>4, <1>5, <1>6, <1>7, <1>8, <1>9, <1>10, <1>11, <1>12, <1>13, <1>14,
     <1>15, <1>16 DEF Next, DriverStep

LEMMA AlwaysTurnInv == Spec => []TurnInv /\ []BudgetInv
<1>1. Spec => []BudgetInv
  BY BudgetInit, BudgetNext, PTL DEF Spec
<1> QED
  BY <1>1, TurnInit, TurnNext, PTL DEF Spec

\* chat.rs: only the active turn's loop runs, and a loop that outlives the driver has
\* been cancelled.
THEOREM NoTurnStrays == Spec => []NoStrayTurn
  BY AlwaysTurnInv, PTL DEF TurnInv

----------------------------------------------------------------------------
(* The frames of the turns.                                                 *)

OutInv == outbound \in Seq(Frame) /\ Len(outbound) <= OutCap

\* A step that sends nothing, one frame if there is room for it, or takes one out.
SendsAtMost(frame) ==
    outbound' = outbound \/ (Len(outbound) < OutCap /\ outbound' = Append(outbound, frame))

LEMMA SendsKeepsOut ==
    ASSUME OutInv, NEW f \in Frame, SendsAtMost(f) PROVE OutInv'
  BY ChatRunAssumption, SMT DEF OutInv, SendsAtMost

\* What every step may send.
LEMMA FramesSent ==
    ASSUME TurnInv, BudgetInv, OutInv, Next
    PROVE  \/ outbound # <<>> /\ outbound' = Tail(outbound)
           \/ \E f \in Frame : /\ SendsAtMost(f)
                               /\ f[2] # 0 => f[2] = turns' /\ f[2] \in Turns /\ loop[f[2]] # "over"
<1> DEFINE Fits(f) == /\ SendsAtMost(f)
                      /\ f[2] # 0 => f[2] = turns' /\ f[2] \in Turns /\ loop[f[2]] # "over"
           Goal == \/ outbound # <<>> /\ outbound' = Tail(outbound)
                   \/ \E f \in Frame : Fits(f)
<1>0. BudgetInv'
  BY BudgetNext
<1>a. /\ turns \in Nat /\ MaxEffort \in Nat
      /\ driver \in {"prepare", "turn", "finish", "finish_end"} => turns \in Turns
  BY ActiveTurn
<1>b. ASSUME NEW k \in {"start", "delta", "end", "error"}, NEW t \in Turns,
             SendsAtMost(<<k, t>>), t = turns', loop[t] # "over"
      PROVE  Goal
  <2>1. <<k, t>> \in Frame /\ <<k, t>>[2] = t
    BY DEF Frame
  <2> QED
    BY <1>b, <2>1
<1>c. ASSUME NEW k \in {"ready", "error"}, SendsAtMost(<<k, 0>>) PROVE Goal
  <2>1. <<k, 0>> \in Frame /\ <<k, 0>>[2] = 0
    BY DEF Frame
  <2> QED
    BY <1>c, <2>1
<1>d. ASSUME UNCHANGED outbound PROVE Goal
  <2>1. SendsAtMost(<<"error", 0>>)
    BY <1>d DEF SendsAtMost
  <2> QED
    BY <2>1, <1>c
<1>e. ASSUME StartTurn, driver \in {"pop", "wait"} PROVE Goal
  <2>1. turns' \in Turns /\ loop[turns'] = "none" /\ turns' = turns + 1
    <3>1. turns' \in Turns /\ turns' = turns + 1
      BY <1>e, <1>0, <1>a, MoreTurns, SMT DEF StartTurn, Turns
    <3> QED
      BY <3>1, <1>a, SMT DEF TurnInv
  <2>2. SendsAtMost(<<"start", turns'>>)
    BY <1>e, <2>1 DEF StartTurn, TrySend, SendsAtMost
  <2> QED
    BY <1>b, <2>1, <2>2
<1> SUFFICES Goal
  OBVIOUS
<1> HIDE DEF Goal
<1>1. CASE Boot
  BY <1>1, <1>c DEF Boot, TrySend, SendsAtMost
<1>2. CASE PopMail
  BY <1>2, <1>e DEF PopMail
<1>3. CASE MailReady
  BY <1>3, <1>d, <1>e DEF MailReady
<1>4. CASE IdleCommand
  BY <1>4, <1>c, <1>d, <1>e DEF IdleCommand, TrySend, SendsAtMost
<1>5. CASE PrepareFails
  <2>1. turns \in Turns /\ turns' = turns /\ loop[turns] # "over"
    BY <1>5, <1>a DEF PrepareFails, TurnInv, turn
  <2>2. SendsAtMost(<<"error", turns>>)
    BY <1>5 DEF PrepareFails, TrySend, SendsAtMost
  <2> QED
    BY <1>b, <2>1, <2>2
<1>6. CASE TurnCommand
  BY <1>6, <1>c, <1>d DEF TurnCommand, TrySend, SendsAtMost
<1>7. CASE FinalizeTurn
  <2>1. turns \in Turns /\ turns' = turns /\ loop[turns] # "over"
    BY <1>7, <1>a DEF FinalizeTurn, TurnInv, turn, DropTurn
  <2>2. PICK k \in {"end", "error"} : SendsAtMost(<<k, turns>>)
    BY <1>7 DEF FinalizeTurn, SendOrTimeOut, SendsAtMost
  <2> QED
    BY <1>b, <2>1, <2>2
<1>8. CASE FinalizePanic
  <2>1. turns \in Turns /\ turns' = turns /\ loop[turns] # "over"
    BY <1>8, <1>a DEF FinalizePanic, TurnInv, DropTurn
  <2>2. SendsAtMost(<<"end", turns>>)
    BY <1>8 DEF FinalizePanic, SendOrTimeOut, SendsAtMost
  <2> QED
    BY <1>b, <2>1, <2>2
<1>9. CASE NoMail \/ IdleShutdown \/ RetentionElapsed \/ Dispatch \/ TurnShutdown \/ TurnJoined
           \/ MarkDone \/ DriverReturns
  BY <1>9, <1>d DEF NoMail, IdleShutdown, RetentionElapsed, Dispatch, TurnShutdown, TurnJoined,
                    MarkDone, DriverReturns
<1>10. CASE Push
  BY <1>10 DEF Push, Goal
<1>11. ASSUME NEW t \in Turns, TurnStep(t) PROVE Goal
  <2>1. UNCHANGED turns
    BY <1>11, TurnStepLeavesAlone
  <2>2. CASE ForwardEvent(t)
    <3>1. t = turns' /\ loop[t] # "over"
      BY <2>1, <2>2 DEF ForwardEvent, TurnInv
    <3>2. SendsAtMost(<<"delta", t>>)
      BY <2>2 DEF ForwardEvent, SendsAtMost
    <3> QED
      BY <1>b, <3>1, <3>2
  <2>3. CASE GenerationEvent(t)
    <3>1. t = turns' /\ loop[t] # "over"
      BY <2>1, <2>3 DEF GenerationEvent, TurnInv, NoStrayTurn
    <3>2. SendsAtMost(<<"delta", t>>)
      BY <2>3 DEF GenerationEvent, SendsAtMost, TrySend
    <3> QED
      BY <1>b, <3>1, <3>2
  <2>4. CASE ForwardGivesUp(t) \/ ForwardEnds(t) \/ LoopEnds(t) \/ GenerationEnds(t)
    BY <1>d, <2>4 DEF ForwardGivesUp, ForwardEnds, LoopEnds, GenerationEnds
  <2> QED
    BY <1>11, <2>2, <2>3, <2>4 DEF TurnStep
<1>12. CASE \E s \in Sockets : WriterStep(s) \/ ClientStep(s)
  BY <1>12, <1>d, ChannelLeftAlone
<1>13. CASE Deliver \/ StopRun \/ WatcherStops
  BY <1>13, <1>d DEF Deliver, StopRun, WatcherStops
<1> QED
  BY <1>1, <1>2, <1>3, <1>4, <1>5, <1>6, <1>7, <1>8, <1>9, <1>10, <1>11, <1>12, <1>13
     DEF Next, DriverStep

LEMMA OutNext == TurnInv /\ BudgetInv /\ OutInv /\ [Next]_vars => OutInv'
<1> SUFFICES ASSUME TurnInv, BudgetInv, OutInv, [Next]_vars PROVE OutInv'
  OBVIOUS
<1>1. CASE outbound # <<>> /\ outbound' = Tail(outbound)
  BY <1>1, ChatRunAssumption, SMT DEF OutInv
<1>2. ASSUME NEW f \in Frame, SendsAtMost(f) PROVE OutInv'
  BY <1>2, SendsKeepsOut
<1>3. CASE UNCHANGED vars
  BY <1>3 DEF OutInv, vars
<1> QED
  BY <1>1, <1>2, <1>3, FramesSent

LEMMA AlwaysOutInv == Spec => []OutInv
<1>1. Init => OutInv
  BY ChatRunAssumption, SMT DEF Init, OutInv
<1> QED
  BY <1>1, OutNext, AlwaysTurnInv, PTL DEF Spec

\* complete_agent_turn: every frame that is sent is of the active turn, which is not
\* closed yet: the frames of two turns are never mixed, and none follows a turn's last.
THEOREM TurnsNeverMixed == Spec => TurnsInOrder
<1> DEFINE InOrder == Len(outbound') > Len(outbound) =>
                        LET t == outbound'[Len(outbound')][2]
                        IN  t # 0 => t = turns' /\ loop[t] # "over"
<1>1. TurnInv /\ BudgetInv /\ OutInv /\ [Next]_vars => [InOrder]_vars
  <2> SUFFICES ASSUME TurnInv, BudgetInv, OutInv, Next, Len(outbound') > Len(outbound),
                      outbound'[Len(outbound')][2] # 0
               PROVE  /\ outbound'[Len(outbound')][2] = turns'
                      /\ loop[outbound'[Len(outbound')][2]] # "over"
    OBVIOUS
  <2>1. ~(outbound # <<>> /\ outbound' = Tail(outbound))
    BY SMT DEF OutInv
  <2>2. PICK f \in Frame :
          /\ SendsAtMost(f)
          /\ f[2] # 0 => f[2] = turns' /\ f[2] \in Turns /\ loop[f[2]] # "over"
    BY <2>1, FramesSent
  <2>3. outbound'[Len(outbound')] = f
    BY <2>2, SMT DEF SendsAtMost, OutInv
  <2> QED
    BY <2>2, <2>3
<1> QED
  BY <1>1, AlwaysTurnInv, AlwaysOutInv, PTL DEF Spec, TurnsInOrder

----------------------------------------------------------------------------
(* The channel and its attaches.                                            *)

\* The numbers that follow l, in order and none missing.
Follows(seq, l) == \A i \in 1..Len(seq) : seq[i] = l + i

\* The history holds the numbers of the frames pushed last, none missing.
ChannelInv ==
    /\ pushed \in Nat
    /\ history \in Seq(Nat) /\ Len(history) <= Capacity /\ Len(history) <= pushed
    /\ Follows(history, pushed - Len(history))

\* What is left of a snapshot follows what the socket was told of, and the receiver
\* takes over where the snapshot ends.
SocketInv(s) ==
    /\ attach[s] \in {"subscribed", "replay", "replay_only"} =>
         told[s] + Len(snapshot[s]) + 1 = next[s] /\ Follows(snapshot[s], told[s])
    /\ attach[s] = "live" => told[s] + 1 = next[s]
    /\ attach[s] \in {"away", "upgrading", "ended"} => wrote[s][1] = "nothing"
    /\ wrote[s][1] = "frame" => wrote[s][2] = told[s]
    /\ next[s] <= pushed + 1 /\ told[s] <= pushed /\ wrote[s][2] <= pushed

SocketTypes ==
    /\ attach \in [Sockets -> {"away", "upgrading", "subscribed", "replay", "replay_only",
                               "live", "ended"}]
    /\ snapshot \in [Sockets -> Seq(Nat)]
    /\ next \in [Sockets -> Nat] /\ told \in [Sockets -> Nat]
    /\ wrote \in [Sockets -> {"nothing", "frame", "lagged"} \X Nat]

AttachInv == ChannelInv /\ SocketTypes /\ \A s \in Sockets : SocketInv(s)

LEMMA AttachInit == Init => AttachInv
<1> SUFFICES ASSUME Init PROVE AttachInv
  OBVIOUS
<1>1. ChannelInv
  <2>1. history = <<>> /\ pushed = 0 /\ Len(history) = 0 /\ history \in Seq(Nat)
    BY SMT DEF Init
  <2>2. Follows(history, 0)
    BY <2>1, SMT DEF Follows
  <2> QED
    BY <2>1, <2>2, ChatRunAssumption, SMT DEF ChannelInv
<1>2. SocketTypes
  BY SMT DEF Init, SocketTypes
<1>3. \A s \in Sockets : SocketInv(s)
  BY SMT DEF Init, SocketInv
<1> QED
  BY <1>1, <1>2, <1>3 DEF AttachInv

LEMMA AttachUnchanged ==
    ASSUME AttachInv, UNCHANGED <<pushed, history, sockets>> PROVE AttachInv'
  BY DEF AttachInv, ChannelInv, SocketTypes, SocketInv, sockets

LEMMA TailFollows ==
    ASSUME NEW seq \in Seq(Nat), seq # <<>>, NEW l \in Nat, Follows(seq, l)
    PROVE  /\ Head(seq) = l + 1 /\ Tail(seq) \in Seq(Nat) /\ Follows(Tail(seq), l + 1)
           /\ Len(Tail(seq)) = Len(seq) - 1 /\ Len(seq) # 0
<1>1. /\ Tail(seq) \in Seq(Nat) /\ Len(Tail(seq)) = Len(seq) - 1 /\ Len(seq) \in Nat \ {0}
      /\ \A i \in 1..Len(Tail(seq)) : Tail(seq)[i] = seq[i + 1]
  BY HeadTailProperties, EmptySeq
<1>2. Head(seq) = l + 1
  BY <1>1, SMT DEF Follows
<1>3. ASSUME NEW i \in 1..Len(Tail(seq)) PROVE Tail(seq)[i] = (l + 1) + i
  <2>1. i + 1 \in 1..Len(seq) /\ Tail(seq)[i] = seq[i + 1]
    BY <1>1, SMT
  <2>2. seq[i + 1] = l + (i + 1)
    BY <2>1 DEF Follows
  <2> QED
    BY <1>1, <2>1, <2>2, SMT
<1> QED
  BY <1>1, <1>2, <1>3 DEF Follows

LEMMA AppendFollows ==
    ASSUME NEW seq \in Seq(Nat), NEW l \in Nat, Follows(seq, l)
    PROVE  /\ Append(seq, l + Len(seq) + 1) \in Seq(Nat)
           /\ Len(Append(seq, l + Len(seq) + 1)) = Len(seq) + 1
           /\ Follows(Append(seq, l + Len(seq) + 1), l)
<1>1. Len(seq) \in Nat /\ l + Len(seq) + 1 \in Nat
  BY LenProperties, SMT
<1> DEFINE longer == Append(seq, l + Len(seq) + 1)
<1>2. /\ longer \in Seq(Nat) /\ Len(longer) = Len(seq) + 1
      /\ \A i \in 1..Len(seq) : longer[i] = seq[i]
      /\ longer[Len(seq) + 1] = l + Len(seq) + 1
  BY <1>1, AppendProperties, SMT
<1> HIDE DEF longer
<1>3. ASSUME NEW i \in 1..Len(longer) PROVE longer[i] = l + i
  <2>1. CASE i = Len(seq) + 1
    BY <1>1, <1>2, <2>1, SMT
  <2>2. CASE i # Len(seq) + 1
    <3>1. i \in 1..Len(seq)
      BY <1>1, <1>2, <2>2, SMT
    <3> QED
      BY <1>2, <3>1 DEF Follows
  <2> QED
    BY <2>1, <2>2
<1> QED
  BY <1>2, <1>3 DEF Follows, longer

\* ChatEventChannel::push keeps the history contiguous when it evicts.
LEMMA PushKeepsHistory ==
    ASSUME ChannelInv, Push PROVE ChannelInv'
<1> DEFINE kept == IF Len(history) >= Capacity THEN LastOf(history, Capacity - 1) ELSE history
           l == pushed - Len(kept)
<1>0. /\ Len(history) \in Nat /\ Capacity \in Nat \ {0} /\ pushed \in Nat
      /\ history \in Seq(Nat) /\ Len(history) <= Capacity /\ Len(history) <= pushed
      /\ pushed - Len(history) \in Nat /\ Follows(history, pushed - Len(history))
  BY ChatRunAssumption, LenProperties, SMT DEF ChannelInv
<1>1. /\ kept \in Seq(Nat) /\ Len(kept) \in Nat /\ Len(kept) < Capacity /\ Len(kept) <= pushed
      /\ Follows(kept, l)
  <2>1. CASE Len(history) < Capacity
    <3>1. kept = history
      BY <1>0, <2>1, SMT
    <3> HIDE DEF kept
    <3> QED
      BY <1>0, <2>1, <3>1
  <2>2. CASE ~(Len(history) < Capacity)
    <3>1. Len(history) = Capacity /\ kept = SubSeq(history, 2, Len(history)) /\ history # <<>>
      BY <1>0, <2>2, SMT DEF LastOf
    <3>2. kept = Tail(history)
      BY <1>0, <3>1, TailIsSubSeq
    <3> HIDE DEF kept
    <3>3. /\ kept \in Seq(Nat) /\ Len(kept) = Len(history) - 1
          /\ Follows(kept, (pushed - Len(history)) + 1)
      <4>1. /\ Tail(history) \in Seq(Nat) /\ Len(Tail(history)) = Len(history) - 1
            /\ Follows(Tail(history), (pushed - Len(history)) + 1)
        BY <1>0, <3>1, TailFollows, Zenon
      <4> QED
        BY <3>2, <4>1, Zenon
    <3>4. (pushed - Len(history)) + 1 = l
      BY <1>0, <3>3, SMT
    <3> QED
      BY <1>0, <3>1, <3>3, <3>4, SMT
  <2> QED
    BY <2>1, <2>2
<1>2. pushed' = pushed + 1 /\ history' = Append(kept, pushed + 1)
  BY DEF Push
<1> HIDE DEF kept
<1>3. l \in Nat /\ l + Len(kept) + 1 = pushed + 1 /\ pushed' - (Len(kept) + 1) = l
  BY <1>0, <1>1, <1>2, SMT
<1> HIDE DEF l
<1>4. history' \in Seq(Nat) /\ Len(history') = Len(kept) + 1 /\ Follows(history', l)
  BY <1>1, <1>2, <1>3, AppendFollows
<1>5. Len(history') <= Capacity /\ Len(history') <= pushed' /\ pushed' - Len(history') = l
  BY <1>0, <1>1, <1>2, <1>3, <1>4, SMT
<1>6. pushed' \in Nat
  BY <1>0, <1>2, SMT
<1> QED
  BY <1>4, <1>5, <1>6 DEF ChannelInv

LEMMA AttachPush ==
    ASSUME AttachInv, Push PROVE AttachInv'
<1>1. ChannelInv'
  BY PushKeepsHistory DEF AttachInv
<1>2. UNCHANGED sockets /\ pushed' = pushed + 1 /\ pushed \in Nat
  BY DEF Push, AttachInv, ChannelInv
<1>3. SocketTypes'
  BY <1>2 DEF AttachInv, SocketTypes, sockets
<1>4. ASSUME NEW s \in Sockets PROVE SocketInv(s)'
  <2>1. SocketInv(s) /\ next[s] \in Nat /\ told[s] \in Nat /\ wrote[s][2] \in Nat
    BY DEF AttachInv, SocketTypes
  <2> QED
    BY <1>2, <2>1, SMT DEF SocketInv, sockets
<1> QED
  BY <1>1, <1>3, <1>4 DEF AttachInv

\* A step of one attach: the others stay as they are.
Moves(s, a, ss, n, w, l) ==
    /\ attach' = [attach EXCEPT ![s] = a] /\ snapshot' = [snapshot EXCEPT ![s] = ss]
    /\ next' = [next EXCEPT ![s] = n] /\ wrote' = [wrote EXCEPT ![s] = w]
    /\ told' = [told EXCEPT ![s] = l]

Fits(a, ss, n, w, l) ==
    /\ a \in {"away", "upgrading", "subscribed", "replay", "replay_only", "live", "ended"}
    /\ ss \in Seq(Nat) /\ n \in Nat /\ w \in {"nothing", "frame", "lagged"} \X Nat /\ l \in Nat
    /\ a \in {"subscribed", "replay", "replay_only"} =>
         l + Len(ss) + 1 = n /\ Follows(ss, l)
    /\ a = "live" => l + 1 = n
    /\ a \in {"away", "upgrading", "ended"} => w[1] = "nothing"
    /\ w[1] = "frame" => w[2] = l
    /\ n <= pushed + 1 /\ l <= pushed /\ w[2] <= pushed

LEMMA AttachMoves ==
    ASSUME AttachInv, NEW s \in Sockets, UNCHANGED <<pushed, history>>,
           NEW a, NEW ss, NEW n, NEW w, NEW l, Moves(s, a, ss, n, w, l), Fits(a, ss, n, w, l)
    PROVE  AttachInv'
<1>1. ChannelInv'
  BY DEF AttachInv, ChannelInv
<1>2. SocketTypes'
  BY DEF AttachInv, SocketTypes, Moves, Fits
<1>3. SocketInv(s)'
  <2>1. attach'[s] = a /\ snapshot'[s] = ss /\ next'[s] = n /\ wrote'[s] = w /\ told'[s] = l
    BY DEF AttachInv, SocketTypes, Moves
  <2> QED
    BY <2>1 DEF SocketInv, Fits
<1>4. ASSUME NEW p \in Sockets, p # s PROVE SocketInv(p)'
  <2>1. /\ attach'[p] = attach[p] /\ snapshot'[p] = snapshot[p] /\ next'[p] = next[p]
        /\ wrote'[p] = wrote[p] /\ told'[p] = told[p]
    BY <1>4 DEF AttachInv, SocketTypes, Moves
  <2> QED
    BY <2>1 DEF SocketInv, AttachInv
<1> QED
  BY <1>1, <1>2, <1>3, <1>4 DEF AttachInv

LEMMA AttachSteps ==
    ASSUME AttachInv, NEW s \in Sockets, WriterStep(s) \/ ClientStep(s) PROVE AttachInv'
<1>0. UNCHANGED <<pushed, history>>
  BY ChannelLeftAlone DEF channel
<1>a. /\ attach[s] \in {"away", "upgrading", "subscribed", "replay", "replay_only", "live", "ended"}
      /\ snapshot[s] \in Seq(Nat) /\ next[s] \in Nat /\ told[s] \in Nat
      /\ wrote[s] \in {"nothing", "frame", "lagged"} \X Nat
      /\ pushed \in Nat /\ Len(snapshot[s]) \in Nat
  BY LenProperties DEF AttachInv, SocketTypes, ChannelInv
<1>b. /\ attach = [attach EXCEPT ![s] = attach[s]] /\ snapshot = [snapshot EXCEPT ![s] = snapshot[s]]
      /\ next = [next EXCEPT ![s] = next[s]] /\ wrote = [wrote EXCEPT ![s] = wrote[s]]
      /\ told = [told EXCEPT ![s] = told[s]]
  BY DEF AttachInv, SocketTypes
<1>c. SocketInv(s)
  BY DEF AttachInv
<1>d. ASSUME Detach(s) PROVE AttachInv'
  <2>1. Moves(s, "ended", <<>>, 0, <<"nothing", 0>>, 0)
    BY <1>d DEF Detach, Moves
  <2>2. Fits("ended", <<>>, 0, <<"nothing", 0>>, 0)
    BY <1>a, SMT DEF Fits
  <2> QED
    BY <1>0, <2>1, <2>2, AttachMoves
<1>1. CASE Subscribe(s)
  <2>1. /\ pushed - Len(history) \in Nat /\ history \in Seq(Nat) /\ Len(history) \in Nat
        /\ Follows(history, pushed - Len(history))
    BY LenProperties, SMT DEF AttachInv, ChannelInv
  <2>2. Moves(s, "subscribed", history, pushed + 1, wrote[s], pushed - Len(history))
    BY <1>b, <1>1 DEF Subscribe, Moves
  <2>3. wrote[s][1] # "frame" /\ wrote[s][2] <= pushed
    BY <1>c, <1>1 DEF Subscribe, SocketInv
  <2>4. Fits("subscribed", history, pushed + 1, wrote[s], pushed - Len(history))
    BY <1>a, <2>1, <2>3, SMT DEF Fits
  <2> QED
    BY <1>0, <2>2, <2>4, AttachMoves
<1>2. CASE LoadDone(s)
  <2>1. PICK a \in {"replay", "replay_only"} : attach' = [attach EXCEPT ![s] = a]
    BY <1>2 DEF LoadDone
  <2>2. Moves(s, a, snapshot[s], next[s], wrote[s], told[s])
    BY <1>b, <1>2, <2>1 DEF LoadDone, Moves
  <2>3. Fits(a, snapshot[s], next[s], wrote[s], told[s])
    BY <1>a, <1>c, <1>2 DEF LoadDone, SocketInv, Fits
  <2> QED
    BY <1>0, <2>2, <2>3, AttachMoves
<1>3. CASE Replay(s)
  <2>0. snapshot[s] # <<>> /\ attach[s] \in {"replay", "replay_only"}
    BY <1>3 DEF Replay
  <2>1. /\ told[s] + Len(snapshot[s]) + 1 = next[s] /\ Follows(snapshot[s], told[s])
        /\ next[s] <= pushed + 1
    BY <1>c, <2>0 DEF SocketInv
  <2>2. /\ Head(snapshot[s]) = told[s] + 1 /\ Tail(snapshot[s]) \in Seq(Nat)
        /\ Follows(Tail(snapshot[s]), told[s] + 1)
        /\ Len(Tail(snapshot[s])) = Len(snapshot[s]) - 1 /\ Len(snapshot[s]) # 0
    BY <1>a, <2>0, <2>1, TailFollows
  <2>5. Moves(s, attach[s], Tail(snapshot[s]), next[s], <<"frame", told[s] + 1>>, told[s] + 1)
    BY <1>b, <1>3, <2>2 DEF Replay, Write, Moves
  <2>6. Fits(attach[s], Tail(snapshot[s]), next[s], <<"frame", told[s] + 1>>, told[s] + 1)
    <3>1. /\ told[s] \in Nat /\ next[s] \in Nat /\ pushed \in Nat
          /\ Len(snapshot[s]) \in Nat
      BY <1>a, Zenon
    <3>2. /\ told[s] + 1 \in Nat
          /\ (told[s] + 1) + Len(Tail(snapshot[s])) + 1 = next[s]
          /\ told[s] + 1 <= pushed
      <4>1. PICK k \in Nat : k = Len(snapshot[s])
        BY <3>1, Zenon
      <4>2. PICK l \in Nat : l = told[s]
        BY <3>1, Zenon
      <4>3. k # 0 /\ l + k + 1 = next[s] /\ next[s] <= pushed + 1 /\ Len(Tail(snapshot[s])) = k - 1
        BY <2>1, <2>2, <4>1, <4>2, Zenon
      <4>4. l + 1 \in Nat /\ (l + 1) + (k - 1) + 1 = next[s] /\ l + 1 <= pushed
        BY <3>1, <4>3, SMT
      <4> QED
        BY <4>2, <4>3, <4>4, Zenon
    <3>3. /\ <<"frame", told[s] + 1>> \in {"nothing", "frame", "lagged"} \X Nat
          /\ <<"frame", told[s] + 1>>[1] = "frame" /\ <<"frame", told[s] + 1>>[2] = told[s] + 1
      BY <3>2
    <3> QED
      BY <1>a, <2>0, <2>1, <2>2, <3>2, <3>3 DEF Fits
  <2> QED
    BY <1>0, <2>5, <2>6, AttachMoves
<1>4. CASE ReplayDone(s)
  <2>1. CASE attach[s] = "replay"
    <3>1. Moves(s, "live", snapshot[s], next[s], wrote[s], told[s])
      BY <1>b, <1>4, <2>1 DEF ReplayDone, Moves
    <3>2. Len(snapshot[s]) = 0
      BY <1>4, SMT DEF ReplayDone
    <3>3. Fits("live", snapshot[s], next[s], wrote[s], told[s])
      BY <1>a, <1>c, <2>1, <3>2, SMT DEF SocketInv, Fits
    <3> QED
      BY <1>0, <3>1, <3>3, AttachMoves
  <2>2. CASE attach[s] # "replay"
    BY <1>4, <1>d, <2>2 DEF ReplayDone
  <2> QED
    BY <2>1, <2>2
<1>5. CASE Receive(s)
  <2>1. told[s] + 1 = next[s] /\ next[s] <= pushed /\ attach[s] = "live"
    BY <1>c, <1>5 DEF Receive, SocketInv
  <2>2. Moves(s, attach[s], snapshot[s], next[s] + 1, <<"frame", next[s]>>, told[s] + 1)
    BY <1>b, <1>5 DEF Receive, Write, Moves
  <2>3. Fits(attach[s], snapshot[s], next[s] + 1, <<"frame", next[s]>>, told[s] + 1)
    BY <1>a, <2>1, SMT DEF Fits
  <2> QED
    BY <1>0, <2>2, <2>3, AttachMoves
<1>6. CASE Lagged(s)
  <2>1. Oldest \in Nat /\ Oldest <= pushed + 1
    BY <1>a, ChatRunAssumption, SMT DEF Oldest
  <2>2. told[s] + 1 = next[s] /\ next[s] < Oldest /\ attach[s] = "live"
    BY <1>c, <1>6 DEF Lagged, SocketInv
  <2>3. /\ Oldest - next[s] \in Nat /\ told[s] + (Oldest - next[s]) \in Nat
        /\ told[s] + (Oldest - next[s]) + 1 = Oldest /\ Oldest - next[s] <= pushed
    <3>1. \A o, n, l, p \in Nat : o <= p + 1 /\ l + 1 = n /\ n < o =>
            /\ o - n \in Nat /\ l + (o - n) \in Nat /\ l + (o - n) + 1 = o /\ o - n <= p
      BY SMT
    <3> QED
      BY <1>a, <2>1, <2>2, <3>1
  <2>4. Moves(s, attach[s], snapshot[s], Oldest, <<"lagged", Oldest - next[s]>>,
              told[s] + (Oldest - next[s]))
    BY <1>b, <1>6 DEF Lagged, Write, Moves
  <2>5. Fits(attach[s], snapshot[s], Oldest, <<"lagged", Oldest - next[s]>>,
             told[s] + (Oldest - next[s]))
    BY <1>a, <2>1, <2>2, <2>3, SMT DEF Fits
  <2> QED
    BY <1>0, <2>4, <2>5, AttachMoves
<1>7. CASE LookUp(s)
  <2>1. Moves(s, "upgrading", snapshot[s], next[s], wrote[s], told[s])
    BY <1>b, <1>7 DEF LookUp, Moves
  <2>2. Fits("upgrading", snapshot[s], next[s], wrote[s], told[s])
    BY <1>a, <1>c, <1>7 DEF LookUp, SocketInv, Fits
  <2> QED
    BY <1>0, <2>1, <2>2, AttachMoves
<1>8. CASE Close(s) \/ CommandRefused(s)
  BY <1>8, <1>d DEF Close, CommandRefused
<1>9. CASE \E c \in Commands : Command(s, c)
  BY <1>0, <1>9, AttachUnchanged DEF Command
<1> QED
  BY <1>1, <1>2, <1>3, <1>4, <1>5, <1>6, <1>7, <1>8, <1>9 DEF WriterStep, ClientStep

LEMMA AttachNext == AttachInv /\ [Next]_vars => AttachInv'
<1> SUFFICES ASSUME AttachInv, [Next]_vars PROVE AttachInv'
  OBVIOUS
<1>1. CASE \/ DriverStep \/ Deliver \/ StopRun \/ WatcherStops \/ \E t \in Turns : TurnStep(t)
  BY <1>1, SocketsLeftAlone, AttachUnchanged
<1>2. CASE Push
  BY <1>2, AttachPush
<1>3. CASE UNCHANGED vars
  BY <1>3, AttachUnchanged DEF vars, channel
<1>4. ASSUME NEW s \in Sockets, WriterStep(s) \/ ClientStep(s) PROVE AttachInv'
  BY <1>4, AttachSteps
<1> QED
  BY <1>1, <1>2, <1>3, <1>4 DEF Next

LEMMA AlwaysAttachInv == Spec => []AttachInv
  BY AttachInit, AttachNext, PTL DEF Spec

\* ChatEventChannel::subscribe: whatever is pushed, evicted or lost to a slow socket, an
\* attach gets every frame once, or is told how many it has missed.
THEOREM EachFrameOnce == Spec => []ExactlyOnce
<1>1. AttachInv => ExactlyOnce
  <2> SUFFICES ASSUME AttachInv, NEW s \in Sockets
               PROVE  /\ wrote[s][1] = "frame" => wrote[s][2] = told[s]
                      /\ attach[s] = "live" => told[s] = next[s] - 1
    BY DEF ExactlyOnce
  <2>1. SocketInv(s) /\ told[s] \in Nat /\ next[s] \in Nat
    BY DEF AttachInv, SocketTypes
  <2> QED
    BY <2>1, SMT DEF SocketInv
<1> QED
  BY <1>1, AlwaysAttachInv, PTL
=============================================================================
