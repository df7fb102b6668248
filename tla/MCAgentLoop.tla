---------------------------- MODULE MCAgentLoop -----------------------------
(* Instances of AgentLoop, and the transcripts its repair passes are tried on. *)
EXTENDS AgentLoop

CONSTANTS writer, stopper

MCHistories == {<<UserMessage(<<"prompt">>)>>}

Said == Message("assistant", <<>>, <<>>, <<"said">>)
Asked == UserMessage(<<"asked">>)
Calls(ids) == Message("assistant", ids, <<>>, <<>>)
Answers(ids) == Message("user", <<>>, ids, <<>>)

(* Bounds: every transcript of up to four of these messages, in any order... *)
Fragments == {Asked, UserMessage(<<Blank>>), Answers(<<1>>), Message("user", <<>>, <<2>>, <<"asked">>),
              Said, Calls(<<1>>), Message("assistant", <<1, 2>>, <<>>, <<"said">>)}

Broken == UNION {[1..n -> Fragments] : n \in 0..4}

(* ... and every transcript of a prompt and up to five of these exchanges, long
   enough to be summarised. *)
Exchange(kind, i) ==
    CASE kind = "talk" -> <<Said, Asked>>
      [] kind = "call" -> <<Calls(<<2*i>>), Answers(<<2*i>>)>>
      [] kind = "calls" -> <<Calls(<<2*i, 2*i + 1>>),
                             Message("user", <<>>, <<2*i + 1, 2*i>>, <<"asked">>)>>

Long == {<<Asked>> \o FlattenSeq([i \in DOMAIN x |-> Exchange(x[i], i)]) :
           x \in UNION {[1..n -> {"talk", "call", "calls"}] : n \in 1..5}}

Notes(ms) == SelectSeq(FlattenSeq([i \in DOMAIN ms |-> ms[i].notes]),
                       LAMBDA n : n \notin {Blank, "context"})

RepairIsSound ==
    /\ \A ms \in Broken \cup Long : \A sent \in compact_if_needed(ms) : Sendable(sent)
    /\ \A ms \in Broken : Notes(validate_and_repair(ms)) = Notes(ms)
    /\ \A ms \in Long : validate_and_repair(ms) = ms
    /\ \A ms \in Long : \A sent \in compact_if_needed(ms) :
         /\ Head(sent) = Head(ms)
         /\ \A k \in 0..(PreserveRecent - 1) :
              LET was == ms[Len(ms) - k]
                  now == sent[Len(sent) - k]
              IN  now.uses = was.uses /\ now.results = was.results

(* Whatever transcript a request starts from - resumed, cut short, edited by an
   earlier compaction - what is sent starts with the user and pairs every tool
   call with its result.  Repair keeps all that was said, in order, and leaves
   an intact transcript alone; a summary keeps the opening message and the
   calls and results of the recent tail. *)
RequestIsSendable == (pc = "open" => Sendable(messages)) /\ RepairIsSound
=============================================================================
