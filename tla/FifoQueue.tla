----------------------------- MODULE FifoQueue -----------------------------
(* What an agent's inbox promises to the callers of enqueue_tx: every        *)
(* transaction that was accepted is handed to the record log exactly once,   *)
(* in the order of acceptance.                                               *)
EXTENDS Sequences

CONSTANT Msgs

VARIABLES
    pending,  \* accepted and not yet recorded, oldest first
    done      \* recorded, in the order of the record log

Waiting == {pending[i] : i \in DOMAIN pending}
Delivered == {done[i] : i \in DOMAIN done}

Init == pending = <<>> /\ done = <<>>

Submit(m) ==
    /\ m \notin Waiting \cup Delivered
    /\ pending' = Append(pending, m)
    /\ UNCHANGED done

Commit ==
    /\ pending # <<>>
    /\ done' = Append(done, Head(pending))
    /\ pending' = Tail(pending)

Next == Commit \/ \E m \in Msgs : Submit(m)

Spec == Init /\ [][Next]_<<pending, done>>
=============================================================================
