------------------------- MODULE ToolPipelineProofs -------------------------
(* Proofs about ToolPipeline, for all tools, gates, defaults, timeouts and   *)
(* bounds.                                                                   *)
EXTENDS ToolPipeline, TLAPS

----------------------------------------------------------------------------
(* Type correctness.                                                        *)

PcValues == Active \cup {"unused", "failed", "dropped", "done"}

LEMMA PairFacts ==
    ASSUME NEW c \in Calls
    PROVE  c[1] \in Batches /\ c[2] \in 1..MaxSlots /\ c[2] \in Nat /\ c = <<c[1], c[2]>>
BY PipelineAssumption DEF Calls

LEMMA PolicyValues ==
    ASSUME TypeOK, NEW b \in Batches, NEW t \in Tools
    PROVE  /\ Policy(b, t)[1] \in {"allow", "deny", "prompt"}
           /\ Policy(b, t)[2] \in Sources
<1> USE PipelineAssumption
<1>1. resolve_tool_state(t) \in States
  BY DEF resolve_tool_state, TypeOK
<1>2. session[t] \in {"none", "allow", "deny"}
  BY DEF TypeOK
<1> QED
  BY <1>1, <1>2 DEF Policy, States, Sources

\* An append keeps the log a sequence of entries, and keeps every old entry.
LEMMA AppendFacts ==
    ASSUME NEW s \in Seq(Entries), NEW e \in Entries
    PROVE  /\ Append(s, e) \in Seq(Entries)
           /\ Len(Append(s, e)) = Len(s) + 1 /\ Len(s) \in Nat
           /\ Append(s, e)[Len(s) + 1] = e
           /\ \A i \in 1..Len(s) : Append(s, e)[i] = s[i]
OBVIOUS

----------------------------------------------------------------------------
(* The inductive invariant.                                                 *)

Over == {"done", "failed", "dropped"}
Deciding == {"propose", "authorize", "prompt"}

GateOpen(c) == Tool(c) \notin Barred /\ (Tool(c) \in Integrated => snap[c[1]])

\* Entry i decides call c as v, and references the call's proposal.
Justifies(i, c, v) ==
    /\ i \in 1..Len(log) /\ DecidedAt(i, c, v)
    /\ log[i].ref \in 1..(i - 1)
    /\ log[log[i].ref].kind = "proposal" /\ log[log[i].ref].call = c

\* The slot a batch works on is one of its proposals.
SlotInv ==
    \A b \in Batches :
        /\ Len(batch[b]) <= MaxSlots
        /\ pc[b] \in {"unused", "workspace"} => slot[b] = 1
        /\ pc[b] \in Active => slot[b] \in 1..Len(batch[b])

\* Verdicts are reached slot by slot, and each has its entry.
VerdictInv ==
    \A c \in Calls :
        /\ verdict[c] # "none" => \E i \in 1..Len(log) : Justifies(i, c, verdict[c])
        /\ pc[c[1]] = "unused" => verdict[c] = "none"
        /\ pc[c[1]] \in Deciding => (verdict[c] # "none" <=> c[2] < slot[c[1]])
        /\ pc[c[1]] \in {"workspace", "run"} /\ c[2] <= Len(batch[c[1]]) => verdict[c] # "none"

\* While a call is being decided, at names its proposal entry.
ProposalInv ==
    \A b \in Batches : pc[b] \in {"authorize", "prompt"} =>
        /\ at[Here(b)] \in 1..Len(log)
        /\ log[at[Here(b)]].kind = "proposal" /\ log[at[Here(b)]].call = Here(b)

\* An approved call passed the gates, and so did one put to the user.
GateInv ==
    /\ \A c \in Calls : verdict[c] = "allow" => GateOpen(c)
    /\ \A b \in Batches : pc[b] = "prompt" => GateOpen(Here(b))

\* What runs was approved, and its whole batch decided.
StartedInv ==
    \A c \in started :
        /\ pc[c[1]] \in Over \cup {"run"}
        /\ c[2] <= Len(batch[c[1]]) /\ verdict[c] = "allow"
        /\ \A d \in Calls : d[1] = c[1] /\ d[2] <= Len(batch[d[1]]) => verdict[d] # "none"

\* Until its execution is recorded, at names an approved call's decision.
DecisionInv ==
    \A c \in Calls :
        /\ verdict[c] = "allow" /\ pc[c[1]] \in Active
        /\ pc[c[1]] = "run" => slot[c[1]] <= c[2]
        => at[c] \in 1..Len(log) /\ DecidedAt(at[c], c, "allow")

\* Executions are recorded behind the slot the pairing loop has reached.
ExecutionInv ==
    /\ ExecutionsInOrder
    /\ \A j \in 1..Len(log) : log[j].kind = "execution" =>
         /\ pc[log[j].call[1]] \in Over \cup {"run"}
         /\ pc[log[j].call[1]] = "run" => log[j].call[2] < slot[log[j].call[1]]

IInv ==
    /\ SlotInv /\ VerdictInv /\ ProposalInv /\ GateInv
    /\ StartedInv /\ DecisionInv /\ ExecutionInv

LEMMA LogCalls ==
    ASSUME TypeOK
    PROVE  \A j \in 1..Len(log) : log[j] \in Entries /\ log[j].call \in Calls /\ log[j].ref \in Nat
<1>1. log \in Seq(Entries)
  BY DEF TypeOK
<1>2. \A j \in 1..Len(log) : log[j] \in Entries
  BY <1>1
<1> QED
  BY <1>2 DEF Entries

----------------------------------------------------------------------------
LEMMA InitTypeOK == Init => TypeOK
<1> SUFFICES ASSUME Init PROVE TypeOK
  OBVIOUS
<1>1. stored \in [Tools -> States] /\ config \in [Tools -> States]
  BY PipelineAssumption DEF Init
<1>2. installed \in BOOLEAN /\ live \in BOOLEAN
  BY Zenon DEF Init
<1>3. snap \in [Batches -> BOOLEAN]
  BY DEF Init
<1>4. answer \in [Calls -> Answers \cup {NoAnswer}]
  BY DEF Init
<1>5. /\ log \in Seq(Entries) /\ batch \in [Batches -> Seq(Tools)]
      /\ pending \subseteq Calls /\ started \subseteq Calls /\ turn \in Nat
  BY DEF Init
<1>6. /\ session \in [Tools -> {"none", "allow", "deny"}]
      /\ pc \in [Batches -> Active \cup {"unused", "failed", "dropped", "done"}]
      /\ slot \in [Batches -> Nat] /\ turnOf \in [Batches -> Nat] /\ at \in [Calls -> Nat]
      /\ verdict \in [Calls -> {"none", "allow", "deny"}]
      /\ effect \in [Calls -> {"none", "running", "done", "timeout", "blocked"}]
  BY DEF Init
<1> QED
  BY <1>1, <1>2, <1>3, <1>4, <1>5, <1>6, Zenon DEF TypeOK

\* The types of what one batch's recording changes.
RecordTypes ==
    /\ log \in Seq(Entries) /\ at \in [Calls -> Nat]
    /\ pc \in [Batches -> PcValues] /\ slot \in [Batches -> Nat]
    /\ verdict \in [Calls -> {"none", "allow", "deny"}]

LEMMA RefuseTypes ==
    ASSUME RecordTypes, NEW b \in Batches, Refuse(b)
    PROVE  RecordTypes'
BY DEF RecordTypes, Refuse, PcValues, Active

LEMMA DecideTypes ==
    ASSUME RecordTypes, SlotInv, NEW b \in Batches, pc[b] \in Active, batch \in [Batches -> Seq(Tools)],
           NEW v \in {"allow", "deny"}, NEW by \in Sources, NEW r \in Remembers \cup {"none"},
           Decide(b, v, by, r)
    PROVE  RecordTypes'
<1>1. CASE Refuse(b)
  BY <1>1, RefuseTypes
<1>2. CASE ~Refuse(b)
  <2>0. Here(b) \in Calls
    BY PipelineAssumption DEF Here, Calls, SlotInv
  <2> DEFINE e == Entry("decision", Here(b), v, by, r, at[Here(b)])
  <2>1. e \in Entries
    BY <2>0 DEF Entry, Entries, Verdicts, RecordTypes
  <2>2. log' = Append(log, e) /\ at' = [at EXCEPT ![Here(b)] = Len(log) + 1]
    BY <1>2 DEF Decide
  <2> HIDE DEF e
  <2>3. log' \in Seq(Entries) /\ at' \in [Calls -> Nat]
    <3>1. log \in Seq(Entries) /\ at \in [Calls -> Nat]
      BY DEF RecordTypes
    <3>2. Append(log, e) \in Seq(Entries) /\ Len(log) \in Nat
      BY <3>1, <2>1, AppendFacts
    <3>3. Len(log) + 1 \in Nat
      BY <3>2
    <3> QED
      BY <3>1, <3>2, <3>3, <2>2, Zenon
  <2>4. pc' \in [Batches -> PcValues] /\ slot' \in [Batches -> Nat]
    <3>1. slot[b] \in Nat /\ slot[b] + 1 \in Nat /\ 1 \in Nat
      BY DEF RecordTypes
    <3>2. "propose" \in PcValues /\ "workspace" \in PcValues
      BY DEF PcValues, Active
    <3>3. \/ slot' = [slot EXCEPT ![b] = slot[b] + 1] /\ pc' = [pc EXCEPT ![b] = "propose"]
          \/ slot' = [slot EXCEPT ![b] = 1] /\ pc' = [pc EXCEPT ![b] = "workspace"]
      BY <1>2, Zenon DEF Decide
    <3> QED
      BY <3>1, <3>2, <3>3 DEF RecordTypes
  <2>5. verdict' \in [Calls -> {"none", "allow", "deny"}]
    BY <1>2 DEF Decide, RecordTypes
  <2> QED
    BY <2>3, <2>4, <2>5 DEF RecordTypes
<1> QED
  BY <1>1, <1>2

LEMMA NextTypeOK == TypeOK /\ SlotInv /\ [Next]_vars => TypeOK'
<1> USE PipelineAssumption
<1> SUFFICES ASSUME TypeOK, SlotInv, [Next]_vars PROVE TypeOK'
  OBVIOUS
<1> USE DEF kernel, broker, frame, exec
<1>0. RecordTypes
  BY DEF TypeOK, RecordTypes, PcValues
<1>1. CASE StartTurn
  <2>1. session' \in [Tools -> {"none", "allow", "deny"}] /\ config' \in [Tools -> States] /\ turn' \in Nat
    BY <1>1 DEF StartTurn, TypeOK
  <2>2. live' \in BOOLEAN
    BY <1>1, Zenon DEF StartTurn
  <2> QED
    BY <1>1, <2>1, <2>2, Zenon DEF StartTurn, TypeOK
<1>2. CASE EndTurn
  BY <1>2, Zenon DEF EndTurn, TypeOK
<1>3. CASE Cancel \/ Crash
  <2>1. pc' \in [Batches -> Active \cup {"unused", "failed", "dropped", "done"}]
    BY <1>3 DEF Cancel, Crash, DropAll, TypeOK
  <2>2. answer' \in [Calls -> Answers \cup {NoAnswer}]
    BY <1>3 DEF Cancel, Crash, DropAll
  <2>3. pending' \subseteq Calls
    BY <1>3 DEF Cancel, Crash, TypeOK
  <2>4. live' \in BOOLEAN
    BY <1>3, Zenon DEF Cancel, Crash, DropAll
  <2> QED
    BY <1>3, <2>1, <2>2, <2>3, <2>4, Zenon DEF Cancel, Crash, TypeOK
<1>4. ASSUME NEW d \in Defaults, PutDefaults(d) PROVE TypeOK'
  <2>1. stored' \in [Tools -> States]
    BY <1>4 DEF PutDefaults
  <2> QED
    BY <1>4, <2>1, Zenon DEF PutDefaults, TypeOK
<1>5. ASSUME NEW i \in BOOLEAN, Reinstall(i) PROVE TypeOK'
  BY <1>5, Zenon DEF Reinstall, TypeOK
<1>6. ASSUME NEW c \in Calls, Finish(c) PROVE TypeOK'
  <2>1. effect' \in [Calls -> {"none", "running", "done", "timeout", "blocked"}]
    BY <1>6 DEF Finish, TypeOK
  <2> QED
    BY <1>6, <2>1, Zenon DEF Finish, TypeOK
<1>7. ASSUME NEW c \in Calls, NEW a \in Answers, Respond(c, a) PROVE TypeOK'
  <2>1. answer' \in [Calls -> Answers \cup {NoAnswer}]
    BY <1>7 DEF Respond, TypeOK
  <2>2. pending' \subseteq Calls
    BY <1>7 DEF Respond, TypeOK
  <2> QED
    BY <1>7, <2>1, <2>2, Zenon DEF Respond, TypeOK
<1>8. ASSUME NEW b \in Batches, NEW tools \in BatchesOf(MaxSlots), Launch(b, tools) PROVE TypeOK'
  <2>1. tools \in Seq(Tools)
    BY DEF BatchesOf
  <2>2. batch' \in [Batches -> Seq(Tools)]
    BY <1>8, <2>1 DEF Launch, TypeOK
  <2>3. snap' \in [Batches -> BOOLEAN]
    BY <1>8 DEF Launch, TypeOK
  <2>4. turnOf' \in [Batches -> Nat]
    BY <1>8 DEF Launch, TypeOK
  <2>5. pc' \in [Batches -> Active \cup {"unused", "failed", "dropped", "done"}]
    BY <1>8 DEF Launch, TypeOK, Active
  <2> QED
    BY <1>8, <2>2, <2>3, <2>4, <2>5, Zenon DEF Launch, TypeOK
<1>9. ASSUME NEW b \in Batches, RecordProposal(b) PROVE TypeOK'
  <2>1. RecordTypes'
    <3>1. CASE Refuse(b)
      BY <3>1, <1>0, RefuseTypes
    <3>2. CASE ~Refuse(b)
      <4>0. Here(b) \in Calls
        BY <1>9 DEF RecordProposal, Here, Calls, SlotInv, Active, TypeOK
      <4> DEFINE e == Entry("proposal", Here(b), "none", "none", "none", 0)
      <4>1. e \in Entries
        BY <4>0 DEF Entry, Entries, Verdicts, Sources
      <4>2. /\ log' = Append(log, e) /\ at' = [at EXCEPT ![Here(b)] = Len(log) + 1]
            /\ pc' = [pc EXCEPT ![b] = "authorize"] /\ slot' = slot /\ verdict' = verdict
        BY <1>9, <3>2 DEF RecordProposal
      <4> HIDE DEF e
      <4>3. Append(log, e) \in Seq(Entries) /\ Len(log) \in Nat
        BY <1>0, <4>1, AppendFacts DEF RecordTypes
      <4>4. Len(log) + 1 \in Nat
        BY <4>3
      <4>5. log' \in Seq(Entries) /\ at' \in [Calls -> Nat]
        BY <1>0, <4>2, <4>3, <4>4, Zenon DEF RecordTypes
      <4>6. pc' \in [Batches -> PcValues]
        BY <1>0, <4>2 DEF RecordTypes, PcValues, Active
      <4> QED
        BY <1>0, <4>2, <4>5, <4>6, Zenon DEF RecordTypes
    <3> QED
      BY <3>1, <3>2
  <2> QED
    BY <1>9, <2>1, Zenon DEF RecordProposal, RecordTypes, PcValues, TypeOK
<1>10. ASSUME NEW b \in Batches, Authorize(b) PROVE TypeOK'
  <2>0. pc[b] = "authorize" /\ Here(b) \in Calls /\ Tool(Here(b)) \in Tools
    BY <1>10 DEF Authorize, Here, Tool, Calls, SlotInv, Active, TypeOK
  <2>1. RecordTypes' /\ pending' \subseteq Calls
    <3> DEFINE p == Policy(b, Tool(Here(b)))
    <3>1. p[1] \in {"allow", "deny", "prompt"} /\ p[2] \in Sources
      BY <2>0, PolicyValues
    <3> HIDE DEF p
    <3>2. \/ \E v \in {"allow", "deny"}, by \in Sources : Decide(b, v, by, "none") /\ pending' = pending
          \/ /\ pending' = pending \cup {Here(b)} /\ pc' = [pc EXCEPT ![b] = "prompt"]
             /\ UNCHANGED <<log, at, verdict, slot, upsets>>
      <4>1. CASE p[1] # "prompt" /\ Decide(b, p[1], p[2], "none") /\ UNCHANGED pending
        BY <4>1, <3>1
      <4>2. CASE \E v \in {"allow", "deny"} : Decide(b, v, "permission_hook", "none") /\ UNCHANGED pending
        BY <4>2 DEF Sources
      <4> QED
        BY <1>10, <4>1, <4>2 DEF Authorize, p
    <3>3. CASE \E v \in {"allow", "deny"}, by \in Sources : Decide(b, v, by, "none") /\ pending' = pending
      <4>1. pc[b] \in Active /\ batch \in [Batches -> Seq(Tools)] /\ pending \subseteq Calls
        BY <2>0 DEF TypeOK, Active
      <4> QED
        BY <3>3, <4>1, <1>0, DecideTypes
    <3>4. CASE /\ pending' = pending \cup {Here(b)} /\ pc' = [pc EXCEPT ![b] = "prompt"]
               /\ UNCHANGED <<log, at, verdict, slot, upsets>>
      BY <3>4, <2>0, <1>0 DEF RecordTypes, PcValues, Active, TypeOK
    <3> QED
      BY <3>2, <3>3, <3>4
  <2> QED
    BY <1>10, <2>1, Zenon DEF Authorize, RecordTypes, PcValues, TypeOK
<1>11. ASSUME NEW b \in Batches, TakeAnswer(b) PROVE TypeOK'
  <2>0. pc[b] = "prompt" /\ Here(b) \in Calls /\ Tool(Here(b)) \in Tools
    BY <1>11 DEF TakeAnswer, Here, Tool, Calls, SlotInv, Active, TypeOK
  <2>1. answer[Here(b)] \in Answers
    BY <1>11, <2>0 DEF TakeAnswer, TypeOK
  <2>2. answer[Here(b)].decision \in {"allow", "deny"} /\ answer[Here(b)].remember \in Remembers
    BY <2>1 DEF Answers
  <2>3. session' \in [Tools -> {"none", "allow", "deny"}] /\ stored' \in [Tools -> States]
    BY <1>11, <2>0, <2>2 DEF TakeAnswer, Apply, TypeOK, States
  <2>4. RecordTypes'
    <3>1. PICK v \in {"allow", "deny"}, r \in Remembers : Decide(b, v, "user", r)
      BY <1>11, <2>2 DEF TakeAnswer
    <3>2. pc[b] \in Active /\ batch \in [Batches -> Seq(Tools)] /\ "user" \in Sources
      BY <2>0 DEF TypeOK, Active, Sources
    <3> QED
      BY <3>1, <3>2, <1>0, DecideTypes
  <2>5. answer' \in [Calls -> Answers \cup {NoAnswer}]
    BY <1>11, <2>0 DEF TakeAnswer, TypeOK
  <2> QED
    BY <1>11, <2>3, <2>4, <2>5, Zenon DEF TakeAnswer, RecordTypes, PcValues, TypeOK
<1>12. ASSUME NEW b \in Batches, AutoDeny(b) PROVE TypeOK'
  <2>1. RecordTypes'
    <3>1. /\ pc[b] \in Active /\ batch \in [Batches -> Seq(Tools)] /\ "user" \in Sources
          /\ "once" \in Remembers
      BY <1>12 DEF AutoDeny, Waiting, TypeOK, Active, Sources, Remembers
    <3>2. Decide(b, "deny", "user", "once")
      BY <1>12 DEF AutoDeny
    <3> QED
      BY <3>1, <3>2, <1>0, DecideTypes
  <2>2. pending' \subseteq Calls
    BY <1>12 DEF AutoDeny, TypeOK
  <2> QED
    BY <1>12, <2>1, <2>2, Zenon DEF AutoDeny, RecordTypes, PcValues, TypeOK
<1>13. ASSUME NEW b \in Batches, Dispatch(b) PROVE TypeOK'
  <2>1. PICK blocked \in SUBSET Approved(b) :
          /\ effect' = [c \in Calls |->
                IF c[1] = b /\ c[2] \in blocked THEN "blocked"
                ELSE IF c[1] = b /\ c[2] \in Approved(b) THEN "running" ELSE effect[c]]
          /\ started' = started \cup ({b} \X (Approved(b) \ blocked))
    BY <1>13 DEF Dispatch
  <2>2. effect' \in [Calls -> {"none", "running", "done", "timeout", "blocked"}]
    BY <2>1 DEF TypeOK
  <2>3. Approved(b) \subseteq 1..MaxSlots
    BY DEF Approved, SlotInv, TypeOK
  <2>4. started' \subseteq Calls
    BY <2>1, <2>3 DEF TypeOK, Calls
  <2>5. pc' \in [Batches -> Active \cup {"unused", "failed", "dropped", "done"}]
    BY <1>13 DEF Dispatch, TypeOK, Active
  <2> QED
    BY <1>13, <2>2, <2>4, <2>5, Zenon DEF Dispatch, TypeOK
<1>14. ASSUME NEW b \in Batches, RecordExecution(b) PROVE TypeOK'
  <2>1. RecordTypes'
    <3>1. CASE Refuse(b)
      BY <3>1, <1>0, RefuseTypes
    <3>2. CASE ~Refuse(b)
      <4>0. pc[b] = "run" /\ Joined(b) /\ Here(b) \in Calls /\ slot[b] \in 1..Len(batch[b])
        BY <1>14 DEF RecordExecution, Here, Calls, SlotInv, Active, TypeOK
      <4>1. log' \in Seq(Entries) /\ at' \in [Calls -> Nat]
        <5> DEFINE e == Entry("execution", Here(b), effect[Here(b)], "none", "none", at[Here(b)])
        <5>1. effect[Here(b)] # "running"
          BY <4>0 DEF Joined, Here
        <5>2. e \in Entries
          BY <4>0, <5>1 DEF Entry, Entries, Verdicts, Sources, TypeOK
        <5>3. \/ log' = Append(log, e) /\ at' = [at EXCEPT ![Here(b)] = Len(log) + 1]
              \/ log' = log /\ at' = at
          BY <1>14, <3>2 DEF RecordExecution
        <5> HIDE DEF e
        <5>4. Append(log, e) \in Seq(Entries) /\ Len(log) \in Nat
          BY <1>0, <5>2, AppendFacts DEF RecordTypes
        <5>5. Len(log) + 1 \in Nat
          BY <5>4
        <5> QED
          BY <1>0, <5>3, <5>4, <5>5, Zenon DEF RecordTypes
      <4>2. pc' \in [Batches -> PcValues] /\ slot' \in [Batches -> Nat] /\ verdict' = verdict
        <5>1. \/ slot' = [slot EXCEPT ![b] = slot[b] + 1] /\ pc' = pc
              \/ pc' = [pc EXCEPT ![b] = "done"] /\ slot' = slot
          BY <1>14, <3>2, Zenon DEF RecordExecution
        <5>2. verdict' = verdict
          BY <1>14, <3>2, Zenon DEF RecordExecution
        <5>3. slot[b] + 1 \in Nat /\ "done" \in PcValues
          BY <1>0 DEF RecordTypes, PcValues
        <5>4. slot' \in [Batches -> Nat] /\ pc' \in [Batches -> PcValues]
          BY <5>1, <5>3, <1>0 DEF RecordTypes
        <5> QED
          BY <5>2, <5>4
      <4> QED
        BY <1>0, <4>1, <4>2, Zenon DEF RecordTypes
    <3> QED
      BY <3>1, <3>2
  <2> QED
    BY <1>14, <2>1, Zenon DEF RecordExecution, RecordTypes, PcValues, TypeOK
<1>15. ASSUME NEW b \in Batches, PromptFails(b) \/ WorkspaceFails(b) \/ PerToolTimeoutFires(b) PROVE TypeOK'
  <2>1. pc' \in [Batches -> Active \cup {"unused", "failed", "dropped", "done"}]
    BY <1>15 DEF PromptFails, WorkspaceFails, PerToolTimeoutFires, TypeOK
  <2>2. answer' \in [Calls -> Answers \cup {NoAnswer}]
    BY <1>15 DEF PromptFails, WorkspaceFails, PerToolTimeoutFires, TypeOK
  <2>3. pending' \subseteq Calls
    BY <1>15 DEF PromptFails, WorkspaceFails, PerToolTimeoutFires, TypeOK
  <2> QED
    BY <1>15, <2>1, <2>2, <2>3, Zenon DEF PromptFails, WorkspaceFails, PerToolTimeoutFires, TypeOK
<1>16. CASE UNCHANGED vars
  BY <1>16, Zenon DEF vars, TypeOK
<1> QED
  BY <1>1, <1>2, <1>3, <1>4, <1>5, <1>6, <1>7, <1>8, <1>9, <1>10, <1>11, <1>12, <1>13,
     <1>14, <1>15, <1>16 DEF Next, Step

----------------------------------------------------------------------------
(* The invariant is inductive.                                              *)

LEMMA InitIInv == Init => IInv
<1> SUFFICES ASSUME Init PROVE IInv
  OBVIOUS
<1> USE PipelineAssumption
<1>1. \A b \in Batches : pc[b] = "unused" /\ slot[b] = 1 /\ Len(batch[b]) = 0
  BY DEF Init
<1>2. \A c \in Calls : c[1] \in Batches /\ verdict[c] = "none" /\ pc[c[1]] = "unused"
  BY <1>1, PairFacts DEF Init
<1>3. Len(log) = 0 /\ started = {}
  BY DEF Init
<1>4. SlotInv
  BY <1>1 DEF SlotInv, Active
<1>5. VerdictInv
  BY <1>2 DEF VerdictInv, Deciding
<1>6. ProposalInv /\ GateInv
  BY <1>1, <1>2 DEF ProposalInv, GateInv
<1>7. StartedInv /\ DecisionInv
  BY <1>2, <1>3 DEF StartedInv, DecisionInv
<1>8. ExecutionInv
  BY <1>3 DEF ExecutionInv, ExecutionsInOrder
<1> QED
  BY <1>4, <1>5, <1>6, <1>7, <1>8 DEF IInv

\* Steps that leave the log and the calls alone and at most give up batches.
Calm ==
    /\ log' = log /\ batch' = batch /\ snap' = snap /\ slot' = slot
    /\ verdict' = verdict /\ at' = at /\ started' = started
    /\ \A b \in Batches : pc'[b] = pc[b] \/ (pc[b] \in Active /\ pc'[b] \in Over)

LEMMA CalmIInv == ASSUME TypeOK, IInv, Calm PROVE IInv'
<1>0. Over \cap Active = {} /\ Deciding \subseteq Active
  BY DEF Over, Active, Deciding
<1>1. \A c \in Calls : c[1] \in Batches
  BY PairFacts
<1>2. /\ \A c \in Calls : GateOpen(c)' <=> GateOpen(c)
      /\ \A b \in Batches : Here(b)' = Here(b)
  BY DEF Calm, Tool, Here, GateOpen
<1>3. \A i, c, v : Justifies(i, c, v)' = Justifies(i, c, v) /\ DecidedAt(i, c, v)' = DecidedAt(i, c, v)
  BY DEF Calm, Justifies, DecidedAt
<1>4. SlotInv'
  BY <1>0 DEF IInv, SlotInv, Calm, Over, Active
<1>5. VerdictInv'
  <2> SUFFICES ASSUME NEW c \in Calls
      PROVE /\ verdict'[c] # "none" => \E i \in 1..Len(log)' : Justifies(i, c, verdict[c])'
            /\ pc'[c[1]] = "unused" => verdict'[c] = "none"
            /\ pc'[c[1]] \in Deciding => (verdict'[c] # "none" <=> c[2] < slot'[c[1]])
            /\ pc'[c[1]] \in {"workspace", "run"} /\ c[2] <= Len(batch'[c[1]]) => verdict'[c] # "none"
    BY DEF VerdictInv
  <2>1. verdict'[c] # "none" => \E i \in 1..Len(log)' : Justifies(i, c, verdict[c])'
    BY <1>3 DEF IInv, VerdictInv, Calm, Justifies, DecidedAt
  <2>2. pc'[c[1]] = pc[c[1]] \/ pc'[c[1]] \in Over
    BY <1>1 DEF Calm
  <2> QED
    BY <2>1, <2>2 DEF IInv, VerdictInv, Calm, Over, Deciding
<1>6. ProposalInv'
  <2>1. \A b \in Batches : pc'[b] \in {"authorize", "prompt"} => pc[b] \in {"authorize", "prompt"}
    BY DEF Calm, Over
  <2> QED
    BY <2>1, <1>2 DEF IInv, ProposalInv, Calm
<1>7. GateInv'
  <2>1. \A c \in Calls : verdict'[c] = "allow" => GateOpen(c)'
    BY <1>2 DEF IInv, GateInv, Calm
  <2>2. \A b \in Batches : GateOpen(Here(b))' <=> GateOpen(Here(b))
    BY DEF Calm, Here, Tool, GateOpen
  <2>3. \A b \in Batches : pc'[b] = "prompt" => pc[b] = "prompt"
    BY DEF Calm, Over
  <2> QED
    BY <2>1, <2>2, <2>3 DEF IInv, GateInv
<1>8. StartedInv'
  <2>1. started \subseteq Calls
    BY DEF TypeOK
  <2> QED
    BY <2>1, <1>1 DEF IInv, StartedInv, Calm, Over
<1>9. DecisionInv'
  BY <1>1, <1>3 DEF IInv, DecisionInv, Calm, Over, Active, DecidedAt
<1>10. ExecutionInv'
  <2>1. ExecutionsInOrder'
    BY <1>3 DEF IInv, ExecutionInv, ExecutionsInOrder, Calm, DecidedAt
  <2>2. \A j \in 1..Len(log) : log[j].call \in Calls
    BY LogCalls
  <2>3. \A j \in 1..Len(log) : log[j].call[1] \in Batches
    BY <2>2, <1>1
  <2>4. \A j \in 1..Len(log)' : log'[j].kind = "execution" =>
          /\ pc'[log'[j].call[1]] \in Over \cup {"run"}
          /\ pc'[log'[j].call[1]] = "run" => log'[j].call[2] < slot'[log'[j].call[1]]
    BY <2>3 DEF IInv, ExecutionInv, Calm, Over
  <2> QED
    BY <2>1, <2>4 DEF ExecutionInv
<1> QED
  BY <1>4, <1>5, <1>6, <1>7, <1>8, <1>9, <1>10 DEF IInv

LEMMA LaunchIInv ==
    ASSUME TypeOK, IInv, NEW b \in Batches, NEW tools \in BatchesOf(MaxSlots), Launch(b, tools)
    PROVE  IInv'
<1> USE PipelineAssumption DEF kernel, broker, exec
<1>0. /\ log' = log /\ slot' = slot /\ verdict' = verdict /\ at' = at /\ started' = started
      /\ pc[b] = "unused" /\ pc'[b] = "propose" /\ batch'[b] = tools
      /\ \A d \in Batches : d # b => pc'[d] = pc[d] /\ batch'[d] = batch[d] /\ snap'[d] = snap[d]
  BY DEF Launch, TypeOK
<1>1. \A c \in Calls : c[1] \in Batches /\ c[2] \in 1..MaxSlots
  BY PairFacts
<1>2. Len(tools) \in 1..MaxSlots
  BY DEF BatchesOf
<1>3. \A c \in Calls : c[1] = b => verdict[c] = "none" /\ c \notin started
  BY <1>0, <1>1 DEF IInv, VerdictInv, StartedInv, Over
<1>4. \A c \in Calls : c[1] # b => (GateOpen(c)' <=> GateOpen(c))
  BY <1>0, <1>1 DEF GateOpen, Tool
<1>5. \A d \in Batches : Here(d)' = Here(d) /\ Here(d)[1] = d
  BY <1>0 DEF Here
<1>6. \A i, c, v : Justifies(i, c, v)' = Justifies(i, c, v) /\ DecidedAt(i, c, v)' = DecidedAt(i, c, v)
  BY <1>0 DEF Justifies, DecidedAt
<1>7. SlotInv'
  BY <1>0, <1>2 DEF IInv, SlotInv, Active
<1>8. VerdictInv'
  <2> SUFFICES ASSUME NEW c \in Calls
      PROVE /\ verdict'[c] # "none" => \E i \in 1..Len(log)' : Justifies(i, c, verdict[c])'
            /\ pc'[c[1]] = "unused" => verdict'[c] = "none"
            /\ pc'[c[1]] \in Deciding => (verdict'[c] # "none" <=> c[2] < slot'[c[1]])
            /\ pc'[c[1]] \in {"workspace", "run"} /\ c[2] <= Len(batch'[c[1]]) => verdict'[c] # "none"
    BY DEF VerdictInv
  <2>1. verdict'[c] # "none" => \E i \in 1..Len(log)' : Justifies(i, c, verdict[c])'
    BY <1>0, <1>6 DEF IInv, VerdictInv, Justifies, DecidedAt
  <2>2. CASE c[1] # b
    BY <2>1, <2>2, <1>0, <1>1 DEF IInv, VerdictInv
  <2>3. CASE c[1] = b
    <3>1. slot[b] = 1 /\ ~(c[2] < 1)
      BY <1>0, <1>1 DEF IInv, SlotInv
    <3> QED
      BY <2>1, <2>3, <3>1, <1>0, <1>3
  <2> QED
    BY <2>2, <2>3
<1>9. ProposalInv'
  BY <1>0, <1>5 DEF IInv, ProposalInv
<1>10. GateInv'
  <2>1. \A c \in Calls : verdict'[c] = "allow" => GateOpen(c)'
    BY <1>0, <1>3, <1>4 DEF IInv, GateInv
  <2>2. \A d \in Batches : d # b => (GateOpen(Here(d))' <=> GateOpen(Here(d)))
    BY <1>0 DEF GateOpen, Tool, Here
  <2> QED
    BY <2>1, <2>2, <1>0 DEF IInv, GateInv
<1>11. StartedInv'
  <2>1. started \subseteq Calls
    BY DEF TypeOK
  <2> QED
    BY <2>1, <1>0, <1>1, <1>3 DEF IInv, StartedInv
<1>12. DecisionInv'
  BY <1>0, <1>1, <1>3, <1>6 DEF IInv, DecisionInv, DecidedAt
<1>13. ExecutionInv'
  <2>1. ExecutionsInOrder'
    BY <1>0, <1>6 DEF IInv, ExecutionInv, ExecutionsInOrder, DecidedAt
  <2>2. \A j \in 1..Len(log) : log[j].call \in Calls
    BY LogCalls
  <2> QED
    BY <2>1, <2>2, <1>0, <1>1 DEF IInv, ExecutionInv, Over
<1> QED
  BY <1>7, <1>8, <1>9, <1>10, <1>11, <1>12, <1>13 DEF IInv

----------------------------------------------------------------------------
(* Steps that append an entry.                                              *)

Grows(e) ==
    /\ Len(log)' = Len(log) + 1 /\ Len(log) \in Nat
    /\ log'[Len(log) + 1] = e
    /\ \A i \in 1..Len(log) : log'[i] = log[i]

LEMMA AppendGrows ==
    ASSUME TypeOK, NEW e \in Entries, log' = Append(log, e)
    PROVE  Grows(e)
<1>1. log \in Seq(Entries)
  BY DEF TypeOK
<1> QED
  BY <1>1, AppendFacts DEF Grows

LEMMA GrowKeeps ==
    ASSUME NEW e, Grows(e)
    PROVE  \A i \in 1..Len(log) : \A c, v :
             /\ i \in 1..Len(log)'
             /\ DecidedAt(i, c, v) => DecidedAt(i, c, v)'
             /\ Justifies(i, c, v) => Justifies(i, c, v)'
<1>1. \A i \in 1..Len(log) : i \in 1..Len(log)' /\ log'[i] = log[i]
  BY DEF Grows
<1>2. \A i \in 1..Len(log) : \A c, v : DecidedAt(i, c, v) => DecidedAt(i, c, v)'
  BY <1>1 DEF DecidedAt
<1>3. ASSUME NEW i \in 1..Len(log), NEW c, NEW v, Justifies(i, c, v)
      PROVE  Justifies(i, c, v)'
  <2>1. log[i].ref \in 1..Len(log)
    BY <1>3 DEF Justifies, Grows
  <2> QED
    BY <1>1, <1>2, <1>3, <2>1 DEF Justifies
<1> QED
  BY <1>1, <1>2, <1>3

\* A verdict that stays keeps its justification.
LEMMA GrowJustified ==
    ASSUME NEW e, Grows(e), VerdictInv, NEW c \in Calls, verdict[c] # "none", verdict'[c] = verdict[c]
    PROVE  \E i \in 1..Len(log)' : Justifies(i, c, verdict[c])'
<1>1. PICK i \in 1..Len(log) : Justifies(i, c, verdict[c])
  BY DEF VerdictInv
<1>2. PICK v : v = verdict[c]
  OBVIOUS
<1>3. Justifies(i, c, v)' /\ i \in 1..Len(log)'
  BY <1>1, <1>2, GrowKeeps
<1> QED
  BY <1>2, <1>3 DEF Justifies, DecidedAt

LEMMA HereFacts ==
    ASSUME TypeOK, SlotInv, NEW b \in Batches, pc[b] \in Active
    PROVE  /\ Here(b) \in Calls /\ Here(b)[1] = b /\ Here(b)[2] = slot[b]
           /\ \A c \in Calls : c[1] = b /\ c[2] = slot[b] => c = Here(b)
           /\ slot[b] \in 1..Len(batch[b]) /\ Len(batch[b]) \in Nat
BY PipelineAssumption, PairFacts DEF Here, Calls, SlotInv, TypeOK

\* The execution part, for an entry that is not an execution.
LEMMA GrowExecution ==
    ASSUME TypeOK, ExecutionInv, NEW e \in Entries, Grows(e), e.kind # "execution",
           \A d \in Batches : pc[d] \in Over \cup {"run"} => pc'[d] = pc[d] /\ slot'[d] = slot[d]
    PROVE  ExecutionInv'
<1>1. \A j \in 1..Len(log)' : log'[j].kind = "execution" => j \in 1..Len(log) /\ log'[j] = log[j]
  BY DEF Grows
<1>2. \A j \in 1..Len(log) : log[j].call \in Calls /\ log[j].call[1] \in Batches
  BY LogCalls, PairFacts
<1>3. ExecutionsInOrder'
  <2> SUFFICES ASSUME NEW j \in 1..Len(log), log'[j] = log[j], log[j].kind = "execution"
      PROVE  /\ log[j].ref \in 1..(j - 1) /\ DecidedAt(log[j].ref, log[j].call, "allow")'
             /\ \A i \in 1..(j - 1) :
                  log'[i].kind = "execution" /\ log'[i].call[1] = log[j].call[1]
                  => log'[i].call[2] < log[j].call[2]
    BY <1>1 DEF ExecutionsInOrder, DecidedAt
  <2>1. log[j].ref \in 1..(j - 1) /\ DecidedAt(log[j].ref, log[j].call, "allow")
    BY DEF ExecutionInv, ExecutionsInOrder
  <2>2. \A i \in 1..(j - 1) : i \in 1..Len(log) /\ log'[i] = log[i]
    BY DEF Grows
  <2> QED
    BY <2>1, <2>2 DEF ExecutionInv, ExecutionsInOrder, DecidedAt
<1> QED
  BY <1>1, <1>2, <1>3 DEF ExecutionInv

LEMMA ProposeIInv ==
    ASSUME TypeOK, IInv, NEW b \in Batches, pc[b] = "propose", pc' = [pc EXCEPT ![b] = "authorize"],
           NEW e \in Entries, Grows(e), e.kind = "proposal", e.call = Here(b),
           at' = [at EXCEPT ![Here(b)] = Len(log) + 1],
           slot' = slot, batch' = batch, snap' = snap, verdict' = verdict, started' = started
    PROVE  IInv'
<1>0. /\ Here(b) \in Calls /\ Here(b)[1] = b /\ Here(b)[2] = slot[b]
      /\ slot[b] \in 1..Len(batch[b])
  BY HereFacts DEF IInv, Active
<1>1. \A c \in Calls : c[1] \in Batches
  BY PairFacts
<1>2. pc'[b] = "authorize" /\ \A d \in Batches : d # b => pc'[d] = pc[d]
  BY DEF TypeOK
<1>3. at'[Here(b)] = Len(log) + 1 /\ \A c \in Calls : c # Here(b) => at'[c] = at[c]
  BY <1>0 DEF TypeOK
<1>4. \A d \in Batches : Here(d)' = Here(d) /\ (d # b => Here(d) # Here(b))
  BY DEF Here
<1>5. SlotInv'
  BY <1>2 DEF IInv, SlotInv, Active
<1>6. VerdictInv'
  <2> SUFFICES ASSUME NEW c \in Calls
      PROVE /\ verdict'[c] # "none" => \E i \in 1..Len(log)' : Justifies(i, c, verdict[c])'
            /\ pc'[c[1]] = "unused" => verdict'[c] = "none"
            /\ pc'[c[1]] \in Deciding => (verdict'[c] # "none" <=> c[2] < slot'[c[1]])
            /\ pc'[c[1]] \in {"workspace", "run"} /\ c[2] <= Len(batch'[c[1]]) => verdict'[c] # "none"
    BY DEF VerdictInv
  <2>1. verdict[c] # "none" => \E i \in 1..Len(log)' : Justifies(i, c, verdict[c])'
    BY GrowJustified DEF IInv
  <2> QED
    BY <2>1, <1>1, <1>2 DEF IInv, VerdictInv, Deciding
<1>7. ProposalInv'
  <2> SUFFICES ASSUME NEW d \in Batches, pc'[d] \in {"authorize", "prompt"}
      PROVE  /\ at'[Here(d)] \in 1..Len(log)'
             /\ log'[at'[Here(d)]].kind = "proposal" /\ log'[at'[Here(d)]].call = Here(d)
    BY <1>4 DEF ProposalInv
  <2>1. CASE d = b
    BY <2>1, <1>3 DEF Grows
  <2>2. CASE d # b
    <3>1. pc[d] \in Active /\ pc[d] \in {"authorize", "prompt"}
      BY <2>2, <1>2 DEF Active
    <3>2. Here(d) \in Calls
      BY <3>1, HereFacts DEF IInv
    <3> QED
      BY <2>2, <3>1, <3>2, <1>3, <1>4 DEF IInv, ProposalInv, Grows
  <2> QED
    BY <2>1, <2>2
<1>8. GateInv'
  <2>1. \A c \in Calls : GateOpen(c)' <=> GateOpen(c)
    BY DEF GateOpen, Tool
  <2>2. \A d \in Batches : GateOpen(Here(d))' <=> GateOpen(Here(d))
    BY DEF GateOpen, Tool, Here
  <2> QED
    BY <2>1, <2>2, <1>2 DEF IInv, GateInv
<1>9. StartedInv'
  <2>1. started \subseteq Calls
    BY DEF TypeOK
  <2> QED
    BY <2>1, <1>1, <1>2 DEF IInv, StartedInv, Over
<1>10. DecisionInv'
  <2> SUFFICES ASSUME NEW c \in Calls, verdict[c] = "allow", pc'[c[1]] \in Active,
                      pc'[c[1]] = "run" => slot[c[1]] <= c[2]
      PROVE  at'[c] \in 1..Len(log)' /\ DecidedAt(at[c], c, "allow")'
    BY DEF DecisionInv
  <2>1. c # Here(b)
    <3>1. verdict[Here(b)] # "none" <=> slot[b] < slot[b]
      BY <1>0 DEF IInv, VerdictInv, Deciding
    <3> QED
      BY <3>1, <1>0
  <2>2. at[c] \in 1..Len(log) /\ DecidedAt(at[c], c, "allow")
    BY <1>1, <1>2 DEF IInv, DecisionInv, Active
  <2> QED
    BY <2>1, <2>2, <1>3 DEF Grows, DecidedAt
<1>11. ExecutionInv'
  BY <1>2, GrowExecution DEF IInv, Over
<1> QED
  BY <1>5, <1>6, <1>7, <1>8, <1>9, <1>10, <1>11 DEF IInv

LEMMA DecideIInv ==
    ASSUME TypeOK, IInv, NEW b \in Batches, pc[b] \in {"authorize", "prompt"},
           NEW v \in {"allow", "deny"}, v = "allow" => GateOpen(Here(b)),
           NEW e \in Entries, Grows(e), e.kind = "decision", e.call = Here(b),
           e.verdict = v, e.ref = at[Here(b)],
           at' = [at EXCEPT ![Here(b)] = Len(log) + 1],
           verdict' = [verdict EXCEPT ![Here(b)] = v],
           \/ /\ slot[b] < Len(batch[b])
              /\ slot' = [slot EXCEPT ![b] = slot[b] + 1] /\ pc' = [pc EXCEPT ![b] = "propose"]
           \/ /\ ~(slot[b] < Len(batch[b]))
              /\ slot' = [slot EXCEPT ![b] = 1] /\ pc' = [pc EXCEPT ![b] = "workspace"],
           batch' = batch, snap' = snap, started' = started
    PROVE  IInv'
<1>0. /\ Here(b) \in Calls /\ Here(b)[1] = b /\ Here(b)[2] = slot[b]
      /\ slot[b] \in 1..Len(batch[b]) /\ Len(batch[b]) \in Nat
      /\ \A c \in Calls : c[1] = b /\ c[2] = slot[b] => c = Here(b)
  BY HereFacts DEF IInv, Active
<1>1. \A c \in Calls : c[1] \in Batches /\ c[2] \in Nat
  BY PairFacts
<1>2. \A d \in Batches : d # b => pc'[d] = pc[d] /\ slot'[d] = slot[d]
  BY DEF TypeOK
<1>3. \/ slot[b] < Len(batch[b]) /\ slot'[b] = slot[b] + 1 /\ pc'[b] = "propose"
      \/ slot[b] = Len(batch[b]) /\ slot'[b] = 1 /\ pc'[b] = "workspace"
  BY <1>0 DEF TypeOK
<1>4. /\ at'[Here(b)] = Len(log) + 1 /\ verdict'[Here(b)] = v
      /\ \A c \in Calls : c # Here(b) => at'[c] = at[c] /\ verdict'[c] = verdict[c]
  BY <1>0 DEF TypeOK
<1>5. \A d \in Batches : d # b => Here(d)' = Here(d) /\ Here(d) # Here(b)
  BY <1>2 DEF Here
<1>6. SlotInv'
  <2> SUFFICES ASSUME NEW d \in Batches
      PROVE  /\ Len(batch[d]) <= MaxSlots
             /\ pc'[d] \in {"unused", "workspace"} => slot'[d] = 1
             /\ pc'[d] \in Active => slot'[d] \in 1..Len(batch[d])
    BY DEF SlotInv
  <2>1. CASE d = b
    BY <2>1, <1>0, <1>3 DEF IInv, SlotInv
  <2>2. CASE d # b
    BY <2>2, <1>2 DEF IInv, SlotInv
  <2> QED
    BY <2>1, <2>2
<1>7. VerdictInv'
  <2> SUFFICES ASSUME NEW c \in Calls
      PROVE /\ verdict'[c] # "none" => \E i \in 1..Len(log)' : Justifies(i, c, verdict[c])'
            /\ pc'[c[1]] = "unused" => verdict'[c] = "none"
            /\ pc'[c[1]] \in Deciding => (verdict'[c] # "none" <=> c[2] < slot'[c[1]])
            /\ pc'[c[1]] \in {"workspace", "run"} /\ c[2] <= Len(batch'[c[1]]) => verdict'[c] # "none"
    BY DEF VerdictInv
  <2>1. verdict'[c] # "none" => \E i \in 1..Len(log)' : Justifies(i, c, verdict[c])'
    <3>1. CASE c = Here(b)
      <4>1. /\ at[c] \in 1..Len(log)
            /\ log[at[c]].kind = "proposal" /\ log[at[c]].call = c
        BY <3>1 DEF IInv, ProposalInv
      <4>2. /\ Len(log) + 1 \in 1..Len(log)' /\ log'[Len(log) + 1] = e
            /\ log'[at[c]] = log[at[c]] /\ at[c] \in 1..((Len(log) + 1) - 1)
        BY <4>1 DEF Grows
      <4>3. PICK i \in 1..Len(log)' : i = Len(log) + 1
        BY <4>2
      <4>4. Justifies(i, c, verdict[c])'
        BY <3>1, <4>1, <4>2, <4>3, <1>4 DEF Justifies, DecidedAt
      <4> QED
        BY <4>4
    <3>2. CASE c # Here(b)
      BY <3>2, <1>4, GrowJustified DEF IInv
    <3> QED
      BY <3>1, <3>2
  <2>2. CASE c[1] # b
    <3>1. c # Here(b)
      BY <2>2, <1>0
    <3> QED
      BY <2>1, <2>2, <3>1, <1>1, <1>2, <1>4, SMTT(30) DEF IInv, VerdictInv
  <2>3. CASE c[1] = b
    <3>1. verdict[c] # "none" <=> c[2] < slot[b]
      BY <2>3 DEF IInv, VerdictInv, Deciding
    <3>2. c[2] = slot[b] => verdict'[c] # "none"
      BY <2>3, <1>0, <1>4
    <3>3. c[2] # slot[b] => verdict'[c] = verdict[c]
      BY <2>3, <1>0, <1>4
    <3>4. verdict'[c] # "none" <=> c[2] < slot[b] + 1
      BY <3>1, <3>2, <3>3, <1>0, <1>1
    <3> QED
      BY <2>1, <2>3, <3>4, <1>0, <1>1, <1>3, SMTT(30) DEF Deciding
  <2> QED
    BY <2>2, <2>3
<1>8. ProposalInv'
  <2> SUFFICES ASSUME NEW d \in Batches, pc'[d] \in {"authorize", "prompt"}
      PROVE  /\ at'[Here(d)'] \in 1..Len(log)'
             /\ log'[at'[Here(d)']].kind = "proposal" /\ log'[at'[Here(d)']].call = Here(d)'
    BY DEF ProposalInv
  <2>1. d # b
    BY <1>3
  <2>2. pc[d] \in Active /\ pc[d] \in {"authorize", "prompt"}
    BY <2>1, <1>2 DEF Active
  <2>3. Here(d) \in Calls
    BY <2>2, HereFacts DEF IInv
  <2> QED
    BY <2>1, <2>2, <2>3, <1>4, <1>5 DEF IInv, ProposalInv, Grows
<1>9. GateInv'
  <2>1. \A c \in Calls : GateOpen(c)' <=> GateOpen(c)
    BY DEF GateOpen, Tool
  <2>2. \A d \in Batches : d # b => (GateOpen(Here(d))' <=> GateOpen(Here(d)))
    BY <1>5 DEF GateOpen, Tool
  <2>3. \A c \in Calls : verdict'[c] = "allow" => GateOpen(c)
    BY <1>4 DEF IInv, GateInv
  <2> QED
    BY <2>1, <2>2, <2>3, <1>2, <1>3 DEF IInv, GateInv
<1>10. StartedInv'
  <2>1. started \subseteq Calls
    BY DEF TypeOK
  <2>2. \A c \in started : c[1] # b
    BY DEF IInv, StartedInv, Over
  <2>3. \A c \in Calls : c[1] # b => pc'[c[1]] = pc[c[1]] /\ verdict'[c] = verdict[c]
    BY <1>0, <1>1, <1>2, <1>4
  <2> QED
    BY <2>1, <2>2, <2>3, SMTT(30) DEF IInv, StartedInv
<1>11. DecisionInv'
  <2> SUFFICES ASSUME NEW c \in Calls, verdict'[c] = "allow", pc'[c[1]] \in Active,
                      pc'[c[1]] = "run" => slot'[c[1]] <= c[2]
      PROVE  at'[c] \in 1..Len(log)' /\ DecidedAt(at[c], c, "allow")'
    BY DEF DecisionInv
  <2>1. CASE c = Here(b)
    BY <2>1, <1>4 DEF Grows, DecidedAt
  <2>2. CASE c # Here(b)
    <3>1. at[c] \in 1..Len(log) /\ DecidedAt(at[c], c, "allow")
      BY <2>2, <1>1, <1>2, <1>4 DEF IInv, DecisionInv, Active
    <3> QED
      BY <2>2, <3>1, <1>4 DEF Grows, DecidedAt
  <2> QED
    BY <2>1, <2>2
<1>12. ExecutionInv'
  BY <1>2, GrowExecution DEF IInv, Over
<1> QED
  BY <1>6, <1>7, <1>8, <1>9, <1>10, <1>11, <1>12 DEF IInv

----------------------------------------------------------------------------
(* The other steps of a batch.                                              *)

\* Asking the user and dispatching move one batch on and append nothing.
LEMMA MoveIInv ==
    ASSUME TypeOK, IInv, NEW b \in Batches, NEW to, pc' = [pc EXCEPT ![b] = to],
           \/ pc[b] = "authorize" /\ to = "prompt" /\ GateOpen(Here(b)) /\ started' = started
           \/ /\ pc[b] = "workspace" /\ to = "run"
              /\ started \subseteq started' /\ started' \subseteq Calls
              /\ \A c \in started' \ started :
                   c[1] = b /\ c[2] <= Len(batch[b]) /\ verdict[c] = "allow",
           log' = log, batch' = batch, snap' = snap, slot' = slot, verdict' = verdict, at' = at
    PROVE  IInv'
<1>0. \A c \in Calls : c[1] \in Batches /\ c[2] \in 1..MaxSlots
  BY PairFacts
<1>1. pc'[b] = to /\ \A d \in Batches : d # b => pc'[d] = pc[d]
  BY DEF TypeOK
<1>2. /\ \A c \in Calls : GateOpen(c)' <=> GateOpen(c)
      /\ \A d \in Batches : GateOpen(Here(d))' <=> GateOpen(Here(d))
      /\ \A d \in Batches : Here(d)' = Here(d)
  BY DEF Tool, Here, GateOpen
<1>3. \A i, c, v : (Justifies(i, c, v)' <=> Justifies(i, c, v)) /\ (DecidedAt(i, c, v)' <=> DecidedAt(i, c, v))
  BY DEF Justifies, DecidedAt
<1>4. SlotInv'
  BY <1>1 DEF IInv, SlotInv, Active
<1>5. VerdictInv'
  <2> SUFFICES ASSUME NEW c \in Calls
      PROVE /\ verdict'[c] # "none" => \E i \in 1..Len(log)' : Justifies(i, c, verdict[c])'
            /\ pc'[c[1]] = "unused" => verdict'[c] = "none"
            /\ pc'[c[1]] \in Deciding => (verdict'[c] # "none" <=> c[2] < slot'[c[1]])
            /\ pc'[c[1]] \in {"workspace", "run"} /\ c[2] <= Len(batch'[c[1]]) => verdict'[c] # "none"
    BY DEF VerdictInv
  <2>1. verdict'[c] # "none" => \E i \in 1..Len(log)' : Justifies(i, c, verdict[c])'
    BY DEF IInv, VerdictInv, Justifies, DecidedAt
  <2> QED
    BY <2>1, <1>0, <1>1 DEF IInv, VerdictInv, Deciding
<1>6. ProposalInv'
  BY <1>1, <1>2 DEF IInv, ProposalInv
<1>7. GateInv'
  BY <1>1, <1>2 DEF IInv, GateInv
<1>8. StartedInv'
  <2> SUFFICES ASSUME NEW c \in started'
      PROVE  /\ pc'[c[1]] \in Over \cup {"run"}
             /\ c[2] <= Len(batch[c[1]]) /\ verdict[c] = "allow"
             /\ \A d \in Calls : d[1] = c[1] /\ d[2] <= Len(batch[d[1]]) => verdict[d] # "none"
    BY DEF StartedInv
  <2>0. c \in Calls
    BY DEF TypeOK
  <2>1. CASE c \in started
    <3>1. c[1] # b
      BY <2>1 DEF IInv, StartedInv, Over
    <3> QED
      BY <2>0, <2>1, <3>1, <1>0, <1>1 DEF IInv, StartedInv
  <2>2. CASE c \notin started
    <3>1. c[1] = b /\ c[2] <= Len(batch[b]) /\ verdict[c] = "allow" /\ pc[b] = "workspace" /\ to = "run"
      BY <2>2
    <3> QED
      BY <3>1, <1>1 DEF IInv, VerdictInv
  <2> QED
    BY <2>1, <2>2
<1>9. DecisionInv'
  <2> SUFFICES ASSUME NEW c \in Calls, verdict[c] = "allow", pc'[c[1]] \in Active,
                      pc'[c[1]] = "run" => slot[c[1]] <= c[2]
      PROVE  at[c] \in 1..Len(log) /\ DecidedAt(at[c], c, "allow")
    BY <1>3 DEF DecisionInv, DecidedAt
  <2> QED
    BY <1>0, <1>1 DEF IInv, DecisionInv, Active
<1>10. ExecutionInv'
  <2>1. ExecutionsInOrder'
    BY <1>3 DEF IInv, ExecutionInv, ExecutionsInOrder, DecidedAt
  <2>2. \A j \in 1..Len(log) : log[j].call \in Calls /\ log[j].call[1] \in Batches
    BY LogCalls, <1>0
  <2>3. \A j \in 1..Len(log)' : log'[j].kind = "execution" =>
          /\ pc'[log'[j].call[1]] \in Over \cup {"run"}
          /\ pc'[log'[j].call[1]] = "run" => log'[j].call[2] < slot'[log'[j].call[1]]
    BY <2>2, <1>1, SMTT(30) DEF IInv, ExecutionInv, Over
  <2> QED
    BY <2>1, <2>3 DEF ExecutionInv
<1> QED
  BY <1>4, <1>5, <1>6, <1>7, <1>8, <1>9, <1>10 DEF IInv

\* The pairing loop's step, with or without an entry.
LEMMA ExecuteIInv ==
    ASSUME TypeOK, IInv, NEW b \in Batches, pc[b] = "run", NEW e \in Entries,
           \/ /\ Grows(e) /\ e.kind = "execution" /\ e.call = Here(b) /\ e.ref = at[Here(b)]
              /\ at' = [at EXCEPT ![Here(b)] = Len(log) + 1] /\ verdict[Here(b)] = "allow"
           \/ log' = log /\ at' = at,
           \/ /\ slot[b] < Len(batch[b])
              /\ slot' = [slot EXCEPT ![b] = slot[b] + 1] /\ pc' = pc
           \/ pc' = [pc EXCEPT ![b] = "done"] /\ slot' = slot,
           batch' = batch, snap' = snap, verdict' = verdict, started' = started
    PROVE  IInv'
<1>0. /\ Here(b) \in Calls /\ Here(b)[1] = b /\ Here(b)[2] = slot[b]
      /\ slot[b] \in 1..Len(batch[b]) /\ Len(batch[b]) \in Nat
      /\ \A c \in Calls : c[1] = b /\ c[2] = slot[b] => c = Here(b)
  BY HereFacts DEF IInv, Active
<1>1. \A c \in Calls : c[1] \in Batches /\ c[2] \in Nat
  BY PairFacts
<1>2. \A d \in Batches : d # b => pc'[d] = pc[d] /\ slot'[d] = slot[d]
  BY DEF TypeOK
<1>3. \/ slot[b] < Len(batch[b]) /\ slot'[b] = slot[b] + 1 /\ pc'[b] = "run"
      \/ slot'[b] = slot[b] /\ pc'[b] = "done"
  BY <1>0 DEF TypeOK
<1>4. \A c \in Calls : c # Here(b) => at'[c] = at[c]
  BY <1>0 DEF TypeOK
<1>5. \A d \in Batches : d # b => Here(d)' = Here(d) /\ Here(d) # Here(b)
  BY <1>2 DEF Here
<1>6. Len(log) \in Nat /\ \A i \in 1..Len(log) : i \in 1..Len(log)' /\ log'[i] = log[i]
  BY DEF Grows, TypeOK
<1>7. SlotInv'
  <2> SUFFICES ASSUME NEW d \in Batches
      PROVE  /\ Len(batch[d]) <= MaxSlots
             /\ pc'[d] \in {"unused", "workspace"} => slot'[d] = 1
             /\ pc'[d] \in Active => slot'[d] \in 1..Len(batch[d])
    BY DEF SlotInv
  <2>1. CASE d = b
    BY <2>1, <1>0, <1>3 DEF IInv, SlotInv
  <2>2. CASE d # b
    BY <2>2, <1>2 DEF IInv, SlotInv
  <2> QED
    BY <2>1, <2>2
<1>8. VerdictInv'
  <2> SUFFICES ASSUME NEW c \in Calls
      PROVE /\ verdict'[c] # "none" => \E i \in 1..Len(log)' : Justifies(i, c, verdict[c])'
            /\ pc'[c[1]] = "unused" => verdict'[c] = "none"
            /\ pc'[c[1]] \in Deciding => (verdict'[c] # "none" <=> c[2] < slot'[c[1]])
            /\ pc'[c[1]] \in {"workspace", "run"} /\ c[2] <= Len(batch'[c[1]]) => verdict'[c] # "none"
    BY DEF VerdictInv
  <2>1. verdict'[c] # "none" => \E i \in 1..Len(log)' : Justifies(i, c, verdict[c])'
    <3>1. CASE log' = log
      BY <3>1, SMTT(30) DEF IInv, VerdictInv, Justifies, DecidedAt
    <3>2. CASE Grows(e)
      BY <3>2, GrowJustified DEF IInv
    <3> QED
      BY <3>1, <3>2
  <2> QED
    BY <2>1, <1>1, <1>2, <1>3 DEF IInv, VerdictInv, Deciding
<1>9. ProposalInv'
  <2> SUFFICES ASSUME NEW d \in Batches, pc'[d] \in {"authorize", "prompt"}
      PROVE  /\ at'[Here(d)'] \in 1..Len(log)'
             /\ log'[at'[Here(d)']].kind = "proposal" /\ log'[at'[Here(d)']].call = Here(d)'
    BY DEF ProposalInv
  <2>1. d # b
    BY <1>3
  <2>2. pc[d] \in Active /\ pc[d] \in {"authorize", "prompt"}
    BY <2>1, <1>2 DEF Active
  <2>3. Here(d) \in Calls
    BY <2>2, HereFacts DEF IInv
  <2> QED
    BY <2>1, <2>2, <2>3, <1>4, <1>5, <1>6 DEF IInv, ProposalInv
<1>10. GateInv'
  <2>1. \A c \in Calls : GateOpen(c)' <=> GateOpen(c)
    BY DEF GateOpen, Tool
  <2>2. \A d \in Batches : d # b => (GateOpen(Here(d))' <=> GateOpen(Here(d)))
    BY <1>5 DEF GateOpen, Tool
  <2> QED
    BY <2>1, <2>2, <1>2, <1>3 DEF IInv, GateInv
<1>11. StartedInv'
  <2>1. \A c \in started : c \in Calls /\ c[1] \in Batches
    BY <1>1 DEF TypeOK
  <2> QED
    BY <2>1, <1>2, <1>3 DEF IInv, StartedInv, Over
<1>12. DecisionInv'
  <2> SUFFICES ASSUME NEW c \in Calls, verdict'[c] = "allow", pc'[c[1]] \in Active,
                      pc'[c[1]] = "run" => slot'[c[1]] <= c[2]
      PROVE  at'[c] \in 1..Len(log)' /\ DecidedAt(at[c], c, "allow")'
    BY DEF DecisionInv
  <2>1. c # Here(b) /\ (pc[c[1]] = "run" => slot[c[1]] <= c[2]) /\ pc[c[1]] \in Active
    <3>1. CASE c[1] = b
      BY <3>1, <1>0, <1>1, <1>3 DEF Active
    <3>2. CASE c[1] # b
      BY <3>2, <1>0, <1>1, <1>2
    <3> QED
      BY <3>1, <3>2
  <2>2. at[c] \in 1..Len(log) /\ DecidedAt(at[c], c, "allow")
    BY <2>1 DEF IInv, DecisionInv
  <2> QED
    BY <2>1, <2>2, <1>4, <1>6 DEF DecidedAt
<1>13. ExecutionInv'
  <2>1. \A j \in 1..Len(log) : log[j].call \in Calls /\ log[j].call[1] \in Batches /\ log[j].call[2] \in Nat
    BY LogCalls, <1>1
  <2>2. \A j \in 1..Len(log)' :
          \/ j \in 1..Len(log) /\ log'[j] = log[j]
          \/ j = Len(log) + 1 /\ log'[j] = e /\ Grows(e)
    BY <1>6 DEF Grows
  <2>3. ASSUME Grows(e), ~(log' = log)
        PROVE  /\ at[Here(b)] \in 1..Len(log) /\ DecidedAt(at[Here(b)], Here(b), "allow")
               /\ e.kind = "execution" /\ e.call = Here(b) /\ e.ref = at[Here(b)]
    BY <2>3, <1>0, SMTT(30) DEF IInv, DecisionInv, Active
  <2>4. ASSUME NEW j \in 1..Len(log)', log'[j].kind = "execution"
        PROVE  /\ pc'[log'[j].call[1]] \in Over \cup {"run"}
               /\ pc'[log'[j].call[1]] = "run" => log'[j].call[2] < slot'[log'[j].call[1]]
    <3>1. CASE j \in 1..Len(log)
      <4>1. /\ log'[j] = log[j] /\ log[j].call[1] \in Batches /\ log[j].call[2] \in Nat
            /\ pc[log[j].call[1]] \in Over \cup {"run"}
            /\ pc[log[j].call[1]] = "run" => log[j].call[2] < slot[log[j].call[1]]
        BY <2>1, <2>4, <3>1, <1>6 DEF IInv, ExecutionInv
      <4>2. CASE log[j].call[1] = b
        BY <4>1, <4>2, <1>0, <1>3 DEF Over
      <4>3. CASE log[j].call[1] # b
        BY <4>1, <4>3, <1>2
      <4> QED
        BY <4>2, <4>3
    <3>2. CASE j \notin 1..Len(log)
      <4>1. log'[j] = e /\ Grows(e) /\ ~(log' = log)
        BY <2>2, <2>4, <3>2 DEF Grows
      <4>2. log'[j].call = Here(b)
        BY <4>1, <2>3
      <4>3. log'[j].call[1] = b /\ log'[j].call[2] = slot[b]
        BY <4>2, <1>0
      <4>4. slot[b] \in Nat
        BY <1>0
      <4> QED
        BY <4>3, <4>4, <1>3 DEF Over
    <3> QED
      BY <3>1, <3>2
  <2>5. ASSUME NEW j \in 1..Len(log)', log'[j].kind = "execution"
        PROVE  /\ log'[j].ref \in 1..(j - 1) /\ DecidedAt(log[j].ref, log[j].call, "allow")'
               /\ \A i \in 1..(j - 1) :
                    log'[i].kind = "execution" /\ log'[i].call[1] = log'[j].call[1]
                    => log'[i].call[2] < log'[j].call[2]
    <3>1. CASE j \in 1..Len(log)
      <4>1. /\ log'[j] = log[j] /\ log[j].ref \in 1..(j - 1)
            /\ DecidedAt(log[j].ref, log[j].call, "allow")
        BY <2>5, <3>1, <1>6 DEF IInv, ExecutionInv, ExecutionsInOrder
      <4>2. \A i \in 1..(j - 1) : i \in 1..Len(log) /\ log'[i] = log[i]
        BY <3>1, <1>6
      <4>3. DecidedAt(log[j].ref, log[j].call, "allow")'
        BY <4>1, <4>2 DEF DecidedAt
      <4>4. log[j].kind = "execution"
        BY <2>5, <4>1
      <4>5. \A i \in 1..(j - 1) : log[i].kind = "execution" /\ log[i].call[1] = log[j].call[1]
                               => log[i].call[2] < log[j].call[2]
        BY <3>1, <4>4 DEF IInv, ExecutionInv, ExecutionsInOrder
      <4> QED
        BY <4>1, <4>2, <4>3, <4>5
    <3>2. CASE j \notin 1..Len(log)
      <4>1. j = Len(log) + 1 /\ log'[j] = e /\ Grows(e) /\ ~(log' = log)
        BY <2>2, <2>5, <3>2 DEF Grows
      <4>2. \A i \in 1..(j - 1) : i \in 1..Len(log) /\ log'[i] = log[i]
        BY <4>1, <1>6
      <4>3. e.ref \in 1..(j - 1) /\ DecidedAt(log[j].ref, log[j].call, "allow")'
        BY <4>1, <4>2, <2>3 DEF DecidedAt
      <4>4. \A i \in 1..Len(log) : log[i].kind = "execution" /\ log[i].call[1] = b => log[i].call[2] < slot[b]
        BY DEF IInv, ExecutionInv
      <4>5. log'[j].ref = e.ref /\ log'[j].call = Here(b)
        BY <4>1, <2>3
      <4>6. Here(b)[1] = b /\ Here(b)[2] = slot[b]
        BY DEF Here
      <4>7. ASSUME NEW i \in 1..(j - 1), log'[i].kind = "execution", log'[i].call[1] = b
            PROVE  log'[i].call[2] < slot[b]
        BY <4>2, <4>4, <4>7
      <4> QED
        BY <4>3, <4>5, <4>6, <4>7
    <3> QED
      BY <3>1, <3>2
  <2>6. ExecutionsInOrder'
    BY <2>5 DEF ExecutionsInOrder
  <2> QED
    BY <2>4, <2>6 DEF ExecutionInv
<1> QED
  BY <1>7, <1>8, <1>9, <1>10, <1>11, <1>12, <1>13 DEF IInv

----------------------------------------------------------------------------
(* The whole next-state relation.                                           *)

LEMMA RefuseCalm ==
    ASSUME TypeOK, NEW b \in Batches, pc[b] \in Active, Refuse(b),
           batch' = batch, snap' = snap, started' = started
    PROVE  Calm
BY DEF Refuse, Calm, Over, TypeOK

LEMMA DecideStep ==
    ASSUME TypeOK, IInv, NEW b \in Batches, pc[b] \in {"authorize", "prompt"},
           NEW v \in {"allow", "deny"}, v = "allow" => GateOpen(Here(b)),
           NEW by \in Sources, NEW r \in Remembers \cup {"none"}, Decide(b, v, by, r),
           batch' = batch, snap' = snap, started' = started
    PROVE  IInv'
<1>0. pc[b] \in Active /\ Here(b) \in Calls
  BY HereFacts DEF IInv, Active
<1>1. CASE Refuse(b)
  BY <1>0, <1>1, RefuseCalm, CalmIInv
<1>2. CASE ~Refuse(b)
  <2>1. Entry("decision", Here(b), v, by, r, at[Here(b)]) \in Entries
    BY <1>0 DEF Entry, Entries, Verdicts, TypeOK
  <2>2. PICK e \in Entries : e = Entry("decision", Here(b), v, by, r, at[Here(b)])
    BY <2>1
  <2>3. e.kind = "decision" /\ e.call = Here(b) /\ e.verdict = v /\ e.ref = at[Here(b)]
    BY <2>2 DEF Entry
  <2>4. /\ log' = Append(log, e) /\ at' = [at EXCEPT ![Here(b)] = Len(log) + 1]
        /\ verdict' = [verdict EXCEPT ![Here(b)] = v]
    BY <1>2, <2>2, Zenon DEF Decide
  <2>5. \/ /\ slot[b] < Len(batch[b])
           /\ slot' = [slot EXCEPT ![b] = slot[b] + 1] /\ pc' = [pc EXCEPT ![b] = "propose"]
        \/ /\ ~(slot[b] < Len(batch[b]))
           /\ slot' = [slot EXCEPT ![b] = 1] /\ pc' = [pc EXCEPT ![b] = "workspace"]
    BY <1>2, Zenon DEF Decide
  <2>6. Grows(e)
    BY <2>4, AppendGrows
  <2> QED
    BY <2>3, <2>4, <2>5, <2>6, DecideIInv
<1> QED
  BY <1>1, <1>2

\* Only a call that passed the gates is allowed or put to the user.
LEMMA PolicyGates ==
    ASSUME TypeOK, NEW b \in Batches, Here(b)[1] = b, Policy(b, Tool(Here(b)))[1] # "deny"
    PROVE  GateOpen(Here(b))
BY DEF Policy, GateOpen

LEMMA StepIInv ==
    ASSUME TypeOK, IInv, NEW b \in Batches, Step(b)
    PROVE  IInv'
<1> USE DEF kernel, broker, frame, exec
<1>1. CASE RecordProposal(b)
  <2>0. pc[b] \in Active /\ Here(b) \in Calls /\ batch' = batch /\ snap' = snap /\ started' = started
    BY <1>1, HereFacts DEF IInv, RecordProposal, Active
  <2>1. CASE Refuse(b)
    BY <2>0, <2>1, RefuseCalm, CalmIInv
  <2>2. CASE ~Refuse(b)
    <3>1. Entry("proposal", Here(b), "none", "none", "none", 0) \in Entries
      BY <2>0 DEF Entry, Entries, Verdicts, Sources
    <3>2. PICK e \in Entries : e = Entry("proposal", Here(b), "none", "none", "none", 0)
      BY <3>1
    <3>3. e.kind = "proposal" /\ e.call = Here(b)
      BY <3>2 DEF Entry
    <3>4. /\ pc[b] = "propose" /\ log' = Append(log, e)
          /\ at' = [at EXCEPT ![Here(b)] = Len(log) + 1]
          /\ pc' = [pc EXCEPT ![b] = "authorize"] /\ slot' = slot /\ verdict' = verdict
      BY <1>1, <2>2, <3>2 DEF RecordProposal
    <3>5. Grows(e)
      BY <3>4, AppendGrows
    <3> QED
      BY <2>0, <3>3, <3>4, <3>5, ProposeIInv
  <2> QED
    BY <2>1, <2>2
<1>2. CASE Authorize(b)
  <2>0. /\ pc[b] = "authorize" /\ pc[b] \in Active /\ Here(b) \in Calls /\ Here(b)[1] = b
        /\ batch' = batch /\ snap' = snap /\ started' = started
    BY <1>2, HereFacts DEF IInv, Authorize, Active
  <2> DEFINE p == Policy(b, Tool(Here(b)))
  <2>1. Tool(Here(b)) \in Tools
    BY <2>0, HereFacts DEF IInv, Tool, TypeOK
  <2>2. p[1] \in {"allow", "deny", "prompt"} /\ p[2] \in Sources
    BY <2>1, PolicyValues
  <2>3. p[1] # "deny" => GateOpen(Here(b))
    BY <2>0, PolicyGates
  <2>4. \/ p[1] # "prompt" /\ Decide(b, p[1], p[2], "none")
        \/ p[1] = "prompt" /\ \E v \in {"allow", "deny"} : Decide(b, v, "permission_hook", "none")
        \/ /\ p[1] = "prompt" /\ pc' = [pc EXCEPT ![b] = "prompt"]
           /\ log' = log /\ at' = at /\ verdict' = verdict /\ slot' = slot
    BY <1>2 DEF Authorize
  <2> HIDE DEF p
  <2>5. CASE p[1] # "prompt" /\ Decide(b, p[1], p[2], "none")
    <3>1. PICK v \in {"allow", "deny"}, by \in Sources : v = p[1] /\ by = p[2]
      BY <2>2, <2>5
    <3>2. Decide(b, v, by, "none") /\ (v = "allow" => GateOpen(Here(b)))
      BY <2>3, <2>5, <3>1
    <3> QED
      BY <2>0, <3>2, DecideStep
  <2>6. CASE p[1] = "prompt" /\ \E v \in {"allow", "deny"} : Decide(b, v, "permission_hook", "none")
    <3>1. PICK v \in {"allow", "deny"} : Decide(b, v, "permission_hook", "none")
      BY <2>6
    <3>2. "permission_hook" \in Sources /\ GateOpen(Here(b))
      BY <2>3, <2>6 DEF Sources
    <3> QED
      BY <2>0, <3>1, <3>2, DecideStep
  <2>7. CASE /\ p[1] = "prompt" /\ pc' = [pc EXCEPT ![b] = "prompt"]
             /\ log' = log /\ at' = at /\ verdict' = verdict /\ slot' = slot
    BY <2>0, <2>3, <2>7, MoveIInv
  <2> QED
    BY <2>4, <2>5, <2>6, <2>7
<1>3. CASE TakeAnswer(b)
  <2>0. /\ pc[b] = "prompt" /\ Here(b) \in Calls /\ answer[Here(b)] # NoAnswer
        /\ batch' = batch /\ snap' = snap /\ started' = started
    BY <1>3, HereFacts DEF IInv, TakeAnswer, Active
  <2>1. answer[Here(b)] \in Answers
    BY <2>0 DEF TypeOK
  <2>2. PICK v \in {"allow", "deny"}, r \in Remembers : Decide(b, v, "user", r)
    BY <1>3, <2>1 DEF TakeAnswer, Answers
  <2>3. "user" \in Sources /\ GateOpen(Here(b))
    BY <2>0 DEF Sources, IInv, GateInv
  <2> QED
    BY <2>0, <2>2, <2>3, DecideStep
<1>4. CASE AutoDeny(b)
  <2>1. /\ pc[b] = "prompt" /\ Decide(b, "deny", "user", "once")
        /\ batch' = batch /\ snap' = snap /\ started' = started
    BY <1>4 DEF AutoDeny, Waiting
  <2>2. "user" \in Sources /\ "once" \in Remembers
    BY DEF Sources, Remembers
  <2> QED
    BY <2>1, <2>2, DecideStep
<1>5. CASE Dispatch(b)
  <2>0. /\ pc[b] = "workspace" /\ pc' = [pc EXCEPT ![b] = "run"] /\ log' = log /\ at' = at
        /\ verdict' = verdict /\ slot' = slot /\ batch' = batch /\ snap' = snap
    BY <1>5 DEF Dispatch
  <2>1. PICK blocked \in SUBSET Approved(b) : started' = started \cup ({b} \X (Approved(b) \ blocked))
    BY <1>5 DEF Dispatch
  <2>2. Approved(b) \subseteq 1..MaxSlots /\ \A i \in Approved(b) : i <= Len(batch[b]) /\ verdict[<<b, i>>] = "allow"
    BY PipelineAssumption DEF Approved, IInv, SlotInv, TypeOK
  <2>3. started \subseteq started' /\ started' \subseteq Calls
    BY <2>1, <2>2 DEF TypeOK, Calls
  <2>4. \A c \in started' \ started : c[1] = b /\ c[2] <= Len(batch[b]) /\ verdict[c] = "allow"
    BY <2>1, <2>2
  <2> QED
    BY <2>0, <2>3, <2>4, MoveIInv
<1>6. CASE RecordExecution(b)
  <2>0. /\ pc[b] = "run" /\ Joined(b) /\ pc[b] \in Active /\ Here(b) \in Calls /\ slot[b] \in 1..Len(batch[b])
        /\ batch' = batch /\ snap' = snap /\ started' = started
    BY <1>6, HereFacts DEF IInv, RecordExecution, Active
  <2>1. CASE Refuse(b)
    BY <2>0, <2>1, RefuseCalm, CalmIInv
  <2>2. CASE ~Refuse(b)
    <3>1. effect[Here(b)] # "running"
      BY <2>0 DEF Joined, Here
    <3>2. Entry("execution", Here(b), effect[Here(b)], "none", "none", at[Here(b)]) \in Entries
      BY <2>0, <3>1 DEF Entry, Entries, Verdicts, Sources, TypeOK
    <3>3. PICK e \in Entries :
            e = Entry("execution", Here(b), effect[Here(b)], "none", "none", at[Here(b)])
      BY <3>2
    <3>4. e.kind = "execution" /\ e.call = Here(b) /\ e.ref = at[Here(b)]
      BY <3>3 DEF Entry
    <3>5. \/ /\ log' = Append(log, e) /\ at' = [at EXCEPT ![Here(b)] = Len(log) + 1]
             /\ slot[b] \in Approved(b)
          \/ log' = log /\ at' = at
      BY <1>6, <2>2, <3>3, Zenon DEF RecordExecution
    <3>6. slot[b] \in Approved(b) => verdict[Here(b)] = "allow"
      BY DEF Approved, Here
    <3>7. \/ /\ slot[b] < Len(batch[b])
             /\ slot' = [slot EXCEPT ![b] = slot[b] + 1] /\ pc' = pc
          \/ pc' = [pc EXCEPT ![b] = "done"] /\ slot' = slot
      BY <1>6, <2>2, Zenon DEF RecordExecution
    <3>8. verdict' = verdict
      BY <1>6, <2>2, Zenon DEF RecordExecution
    <3>9. log' = Append(log, e) => Grows(e)
      BY AppendGrows
    <3> QED
      BY <2>0, <3>4, <3>5, <3>6, <3>7, <3>8, <3>9, ExecuteIInv
  <2> QED
    BY <2>1, <2>2
<1> QED
  BY <1>1, <1>2, <1>3, <1>4, <1>5, <1>6 DEF Step

LEMMA NextIInv == TypeOK /\ IInv /\ [Next]_vars => IInv'
<1> SUFFICES ASSUME TypeOK, IInv, [Next]_vars PROVE IInv'
  OBVIOUS
<1> USE DEF kernel, broker, frame, exec
<1>1. ASSUME NEW b \in Batches, Step(b) PROVE IInv'
  BY <1>1, StepIInv
<1>2. ASSUME NEW b \in Batches, NEW tools \in BatchesOf(MaxSlots), Launch(b, tools) PROVE IInv'
  BY <1>2, LaunchIInv
<1>3. CASE Cancel \/ Crash
  <2>1. Calm
    BY <1>3 DEF Cancel, Crash, DropAll, Calm, Over
  <2> QED
    BY <2>1, CalmIInv
<1>4. ASSUME NEW b \in Batches, PromptFails(b) \/ WorkspaceFails(b) \/ PerToolTimeoutFires(b) PROVE IInv'
  <2>1. pc[b] \in Active
    BY <1>4 DEF PromptFails, WorkspaceFails, PerToolTimeoutFires, Waiting, Active
  <2>2. Calm
    BY <1>4, <2>1 DEF PromptFails, WorkspaceFails, PerToolTimeoutFires, Calm, Over, TypeOK
  <2> QED
    BY <2>2, CalmIInv
<1>5. CASE StartTurn \/ EndTurn \/ UNCHANGED vars
  <2>1. Calm
    BY <1>5 DEF StartTurn, EndTurn, vars, Calm
  <2> QED
    BY <2>1, CalmIInv
<1>6. ASSUME NEW d, PutDefaults(d) \/ Reinstall(d) \/ Finish(d) \/ \E a \in Answers : Respond(d, a) PROVE IInv'
  <2>1. Calm
    BY <1>6 DEF PutDefaults, Reinstall, Finish, Respond, Calm
  <2> QED
    BY <2>1, CalmIInv
<1> QED
  BY <1>1, <1>2, <1>3, <1>4, <1>5, <1>6 DEF Next

LEMMA PipelineInvariant == Spec => [](TypeOK /\ IInv)
<1>1. Init => TypeOK /\ IInv
  BY InitTypeOK, InitIInv
<1>2. (TypeOK /\ IInv) /\ [Next]_vars => (TypeOK /\ IInv)'
  BY NextTypeOK, NextIInv DEF IInv
<1> QED
  BY <1>1, <1>2, PTL DEF Spec

----------------------------------------------------------------------------
(* Every variable keeps its shape through turns, prompts and failures.      *)
THEOREM PipelineTypeCorrect == Spec => []TypeOK
BY PipelineInvariant, PTL

(* No executor runs before the call's proposal and an approving decision    *)
(* referencing it are in the log, for any number of concurrent calls.       *)
THEOREM PipelineRunsOnlyApproved == Spec => []RunsOnlyApproved
<1>1. TypeOK /\ IInv => RunsOnlyApproved
  <2> SUFFICES ASSUME TypeOK, IInv, NEW c \in started
      PROVE  \E i \in 1..Len(log) :
               /\ DecidedAt(i, c, "allow") /\ log[i].ref \in 1..(i - 1)
               /\ log[log[i].ref].kind = "proposal" /\ log[log[i].ref].call = c
    BY DEF RunsOnlyApproved
  <2>1. c \in Calls /\ verdict[c] = "allow"
    BY DEF TypeOK, IInv, StartedInv
  <2>2. \E i \in 1..Len(log) : Justifies(i, c, "allow")
    BY <2>1 DEF IInv, VerdictInv
  <2> QED
    BY <2>2 DEF Justifies
<1> QED
  BY <1>1, PipelineInvariant, PTL

(* Nothing of a batch runs until all its proposals are decided in the log.  *)
THEOREM PipelineBatchDecidedFirst == Spec => []BatchDecidedFirst
<1>1. TypeOK /\ IInv => BatchDecidedFirst
  <2> SUFFICES ASSUME TypeOK, IInv, NEW c \in started, NEW i \in 1..Len(batch[c[1]])
      PROVE  \E v \in {"allow", "deny"} : RecordedDecision(<<c[1], i>>, v)
    BY DEF BatchDecidedFirst
  <2>0. c[1] \in Batches
    BY PairFacts DEF TypeOK
  <2>1. <<c[1], i>> \in Calls
    BY <2>0, PipelineAssumption, SMTT(30) DEF Calls, IInv, SlotInv, TypeOK
  <2>2. verdict[<<c[1], i>>] \in {"allow", "deny"}
    <3>1. PICK d \in Calls : d = <<c[1], i>> /\ d[1] = c[1] /\ d[2] = i
      BY <2>1
    <3>2. d[2] <= Len(batch[d[1]])
      BY <3>1, <2>0 DEF TypeOK
    <3>3. verdict[d] # "none"
      BY <3>1, <3>2 DEF IInv, StartedInv
    <3> QED
      BY <3>1, <3>3 DEF TypeOK
  <2>3. \E k \in 1..Len(log) : Justifies(k, <<c[1], i>>, verdict[<<c[1], i>>])
    BY <2>1, <2>2 DEF IInv, VerdictInv
  <2> QED
    BY <2>2, <2>3 DEF Justifies, RecordedDecision
<1> QED
  BY <1>1, PipelineInvariant, PTL

(* No hook, answer or remembered decision lets a tool past a hard gate.     *)
THEOREM PipelineGatesFinal == Spec => []GatesFinal
<1>1. TypeOK /\ IInv => GatesFinal
  BY DEF TypeOK, IInv, StartedInv, GateInv, GateOpen, GatesFinal
<1> QED
  BY <1>1, PipelineInvariant, PTL

(* Executions reference an approval of the same call, at most one per call, *)
(* and those of a batch are in proposal order.                              *)
THEOREM PipelineExecutionsInOrder == Spec => []ExecutionsInOrder
<1>1. TypeOK /\ IInv => ExecutionsInOrder
  BY DEF IInv, ExecutionInv
<1> QED
  BY <1>1, PipelineInvariant, PTL

(* While the session holds a deny for a tool, no step approves a call to it *)
(* except one that was already being prompted for.                          *)
THEOREM PipelineSessionDeny == Spec => SessionDenyHolds
<1> DEFINE A == \A c \in Calls :
                  verdict'[c] = "allow" /\ verdict[c] # "allow" /\ session[Tool(c)] = "deny"
                  => pc[c[1]] = "prompt"
<1>1. TypeOK /\ IInv /\ [Next]_vars => A
  <2> SUFFICES ASSUME TypeOK, IInv, [Next]_vars, NEW c \in Calls, verdict'[c] = "allow",
                      verdict[c] # "allow", session[Tool(c)] = "deny", pc[c[1]] # "prompt"
      PROVE  FALSE
    OBVIOUS
  <2> USE DEF kernel, broker, frame, exec
  <2>1. verdict' # verdict
    OBVIOUS
  <2>2. PICK b \in Batches : Authorize(b) \/ TakeAnswer(b) \/ AutoDeny(b)
    BY <2>1 DEF Next, Step, vars, StartTurn, EndTurn, Cancel, Crash, DropAll, PutDefaults, Reinstall,
       Finish, Respond, Launch, RecordProposal, Refuse, Dispatch, RecordExecution, PromptFails,
       WorkspaceFails, PerToolTimeoutFires
  <2>3. Here(b) \in Calls /\ Here(b)[1] = b
    BY <2>2, HereFacts DEF IInv, Active, Authorize, TakeAnswer, AutoDeny, Waiting
  <2>4. ASSUME NEW v, NEW by, NEW r, Decide(b, v, by, r) PROVE c = Here(b) /\ v = "allow"
    <3>1. verdict' = [verdict EXCEPT ![Here(b)] = v]
      BY <2>1, <2>4 DEF Decide, Refuse
    <3> QED
      BY <3>1, <2>3 DEF TypeOK
  <2>5. CASE TakeAnswer(b)
    <3>1. PICK v, by, r : Decide(b, v, by, r)
      BY <2>5 DEF TakeAnswer
    <3> QED
      BY <2>3, <2>4, <2>5, <3>1 DEF TakeAnswer
  <2>6. CASE AutoDeny(b)
    BY <2>3, <2>4, <2>6 DEF AutoDeny, Waiting
  <2>7. CASE Authorize(b)
    <3> DEFINE p == Policy(b, Tool(Here(b)))
    <3>1. \/ Decide(b, p[1], p[2], "none")
          \/ p[1] = "prompt" /\ \E v \in {"allow", "deny"} : Decide(b, v, "permission_hook", "none")
      BY <2>1, <2>7 DEF Authorize
    <3> HIDE DEF p
    <3>2. c = Here(b) /\ p[1] \in {"allow", "prompt"}
      <4>1. CASE Decide(b, p[1], p[2], "none")
        <5>1. PICK v, by : v = p[1] /\ by = p[2]
          OBVIOUS
        <5>2. Decide(b, v, by, "none")
          BY <4>1, <5>1
        <5> QED
          BY <5>1, <5>2, <2>4
      <4> QED
        BY <3>1, <4>1, <2>4
    <3>3. Policy(b, Tool(c))[1] = "deny"
      BY DEF Policy
    <3> QED
      BY <3>2, <3>3 DEF p
  <2> QED
    BY <2>2, <2>5, <2>6, <2>7
<1>2. TypeOK /\ IInv /\ [Next]_vars => [A]_vars
  BY <1>1
<1> QED
  BY <1>2, PipelineInvariant, PTL DEF Spec, SessionDenyHolds
=============================================================================
