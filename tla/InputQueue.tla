----------------------------- MODULE InputQueue -----------------------------
(***************************************************************************)
(* The buffer through which a user steers a running agent task             *)
(* (aura-agent/src/session/input_queue.rs).  Handles push inputs from any  *)
(* thread; the agent loop takes them all at once.  The buffer is guarded   *)
(* by a mutex, but the flag the loop probes is a separate atomic, written  *)
(* outside the lock by both sides, so a push and a drain are each several  *)
(* steps that interleave.                                                  *)
(***************************************************************************)
EXTENDS Naturals, Sequences

CONSTANTS
    Senders,      \* threads holding a handle; each pushes one input
    Cancellers    \* the senders whose input is UserInput::Cancel

ASSUME CancellersSend == Cancellers \subseteq Senders

VARIABLES
    inbox,        \* inner: the buffered inputs, named by their senders
    hasPending,   \* has_pending: the lock-free probe
    cancelled,    \* the cancellation token shared with the loop
    sender,       \* where each sender is inside push()
    pushed        \* history: every input in the order it entered the buffer

queueVars == <<inbox, hasPending, cancelled, sender, pushed>>

InitQueue ==
    /\ inbox = <<>>
    /\ hasPending = FALSE
    /\ cancelled = FALSE
    /\ sender = [s \in Senders |-> "idle"]
    /\ pushed = <<>>

(* push: the input goes to the back of the buffer, under the lock.  A push
   that a closed queue refuses changes nothing; it is one the sender never
   makes. *)
PushAppends(s) ==
    /\ sender[s] = "idle"
    /\ inbox' = Append(inbox, s)
    /\ pushed' = Append(pushed, s)
    /\ sender' = [sender EXCEPT ![s] = "flagging"]
    /\ UNCHANGED <<hasPending, cancelled>>

(* push: the flag is raised after the lock is released. *)
PushFlags(s) ==
    /\ sender[s] = "flagging"
    /\ hasPending' = TRUE
    /\ sender' = [sender EXCEPT ![s] = IF s \in Cancellers THEN "firing" ELSE "sent"]
    /\ UNCHANGED <<inbox, cancelled, pushed>>

(* push: an in-band Cancel fires the shared token last. *)
PushFires(s) ==
    /\ sender[s] = "firing"
    /\ cancelled' = TRUE
    /\ sender' = [sender EXCEPT ![s] = "sent"]
    /\ UNCHANGED <<inbox, hasPending, pushed>>

Push(s) == PushAppends(s) \/ PushFlags(s) \/ PushFires(s)

(* drain, first half: everything buffered leaves under the lock. *)
DrainTakes ==
    /\ inbox' = <<>>
    /\ UNCHANGED <<hasPending, cancelled, sender, pushed>>

(* drain, second half: the flag is cleared, whatever was pushed since. *)
DrainClears ==
    /\ hasPending' = FALSE
    /\ UNCHANGED <<inbox, cancelled, sender, pushed>>
=============================================================================
