------------------------------ MODULE History -------------------------------
(***************************************************************************)
(* The conversation history the agent loop sends to the model, and the     *)
(* passes that keep it acceptable to the Messages API: validate_and_repair *)
(* (aura-agent/src/sanitize.rs), append_warning                            *)
(* (aura-agent-steering/src/helpers.rs), and the summary splice of         *)
(* aura-context-compaction/src/messages.rs.                                *)
(*                                                                         *)
(* A message is its role and the blocks it carries: the ids of its         *)
(* tool_use blocks, the ids its tool_result blocks answer, and its text.   *)
(***************************************************************************)
EXTENDS Naturals, Sequences, SequencesExt

CONSTANTS
    PreserveRecent,   \* CompactionConfig::micro().preserve_recent
    MinSpan           \* fewest messages worth summarising (4 in the code)

ASSUME SpanAssumption == PreserveRecent \in Nat /\ MinSpan \in Nat \ {0}

(* Text that trims to nothing; an API request may not carry only that. *)
Blank == "blank"

Message(role, uses, results, notes) ==
    [role |-> role, uses |-> uses, results |-> results, notes |-> notes]

UserMessage(notes) == Message("user", <<>>, <<>>, notes)

HasContent(m) == m.uses # <<>> \/ m.results # <<>> \/ m.notes # <<>>

(* Pass 1: drop messages with no block but blank text. *)
remove_empty_messages(ms) ==
    SelectSeq(ms, LAMBDA m : \/ m.uses # <<>>
                             \/ m.results # <<>>
                             \/ \E i \in DOMAIN m.notes : m.notes[i] # Blank)

(* Pass 2: neighbours of one role become one message. *)
merge_consecutive_same_role(ms) ==
    LET Add(acc, m) ==
          IF acc # <<>> /\ Last(acc).role = m.role
          THEN Append(Front(acc),
                      Message(m.role, Last(acc).uses \o m.uses,
                              Last(acc).results \o m.results, Last(acc).notes \o m.notes))
          ELSE Append(acc, m)
    IN  FoldLeft(Add, <<>>, ms)

(* Pass 3: a result stays only if the previous message holds its call. *)
fix_orphan_tool_results(ms) ==
    LET Kept(i) == [ms[i] EXCEPT !.results =
                      SelectSeq(@, LAMBDA t : i > 1 /\ t \in ToSet(ms[i-1].uses))]
    IN  SelectSeq([i \in DOMAIN ms |-> Kept(i)], HasContent)

(* The calls of message i that the next message does not answer. *)
Unanswered(ms, i) ==
    SelectSeq(ms[i].uses,
              LAMBDA t : ~(/\ i < Len(ms)
                           /\ ms[i+1].role = "user"
                           /\ t \in ToSet(ms[i+1].results)))

(* Pass 4: an unanswered call gets a synthetic result in the next message. *)
fix_unpaired_tool_uses(ms) ==
    LET Missing(i) == IF i > 0 /\ ms[i].role = "assistant" THEN Unanswered(ms, i) ELSE <<>>
        Fixed(i) ==
          CASE ms[i].role = "user" ->
                 <<[ms[i] EXCEPT !.results = Missing(i-1) \o @]>>
            [] /\ ms[i].role = "assistant"
               /\ Missing(i) # <<>>
               /\ ~(i < Len(ms) /\ ms[i+1].role = "user") ->
                 <<ms[i], Message("user", <<>>, Missing(i), <<>>)>>
            [] OTHER -> <<ms[i]>>
    IN  FlattenSeq([i \in DOMAIN ms |-> Fixed(i)])

(* Pass 5: a conversation opens with the user. *)
ensure_starts_with_user(ms) ==
    IF ms = <<>> \/ ms[1].role # "user" THEN <<UserMessage(<<"context">>)>> \o ms ELSE ms

validate_and_repair(ms) ==
    LET merged == merge_consecutive_same_role(remove_empty_messages(ms))
        joined == merge_consecutive_same_role(fix_orphan_tool_results(merged))
    IN  ensure_starts_with_user(fix_unpaired_tool_uses(joined))

(* Text for the model joins a trailing user message, so that it never
   separates a call from its result. *)
append_warning(ms, note) ==
    IF ms # <<>> /\ Last(ms).role = "user"
    THEN Append(Front(ms), [Last(ms) EXCEPT !.notes = Append(@, note)])
    ELSE Append(ms, UserMessage(<<note>>))

(* Positions count from 0, as in the code. *)
result_is_for_previous_tool_use(ms, idx) ==
    /\ idx > 0
    /\ ToSet(ms[idx+1].results) \cap ToSet(ms[idx].uses) # {}

\* Mutant: the end of the range is taken as it falls.
BoundaryUnchecked(ms, end) == FALSE

boundary_splits_tool_pair(ms, end) ==
    end < Len(ms) /\ result_is_for_previous_tool_use(ms, end)

(* The middle of the history a summary may replace: after the first message,
   before the recent tail, cutting no call from its result. *)
select_summary_range(ms) ==
    LET last  == Len(ms) - PreserveRecent
        start == CHOOSE s \in 1..last :
                   /\ s = last \/ ~result_is_for_previous_tool_use(ms, s)
                   /\ \A r \in 1..(s-1) : result_is_for_previous_tool_use(ms, r)
        end   == CHOOSE e \in start..last :
                   /\ e = start \/ ~boundary_splits_tool_pair(ms, e)
                   /\ \A f \in (e+1)..last : boundary_splits_tool_pair(ms, f)
    IN  IF Len(ms) <= PreserveRecent + 2 \/ end - start < MinSpan
        THEN {} ELSE {<<start, end>>}

(* The splice, refused when the range no longer fits the history. *)
apply_message_summary(ms, start, end) ==
    IF \/ start = 0 \/ start >= end \/ end > Len(ms)
       \/ result_is_for_previous_tool_use(ms, start)
       \/ boundary_splits_tool_pair(ms, end)
    THEN ms
    ELSE SubSeq(ms, 1, start)
         \o <<Message("assistant", <<>>, <<>>, <<"summary">>)>>
         \o SubSeq(ms, end + 1, Len(ms))

(* What the API demands of tool blocks: every call is answered in the next
   message, and every result answers a call of the previous one. *)
Paired(ms) ==
    \A i \in DOMAIN ms :
      /\ ms[i].uses # <<>> => /\ i < Len(ms)
                              /\ ms[i+1].role = "user"
                              /\ ToSet(ms[i].uses) \subseteq ToSet(ms[i+1].results)
      /\ ms[i].results # <<>> => /\ i > 1
                                 /\ ToSet(ms[i].results) \subseteq ToSet(ms[i-1].uses)

Sendable(ms) == ms # <<>> /\ ms[1].role = "user" /\ Paired(ms)
=============================================================================
