----------------------------- MODULE FifoQueue -----------------------------
(***************************************************************************)
(* What lock_free::ring_buffer promises to one process that pushes and one *)
(* that pops: a queue.  Elements come out in the order they went in, each  *)
(* once, unchanged, and no more than Bound are in it.                      *)
(***************************************************************************)
EXTENDS Integers, Sequences

CONSTANTS Values, Bound, NoElement

VARIABLES queue,
          taken     \* the element taken last

FifoInit == queue = <<>> /\ taken = NoElement

Enqueue ==
    /\ Len(queue) < Bound
    /\ \E value \in Values : queue' = Append(queue, value)
    /\ UNCHANGED taken

Dequeue ==
    /\ queue # <<>>
    /\ taken' = Head(queue)
    /\ queue' = Tail(queue)

FifoSpec == FifoInit /\ [][Enqueue \/ Dequeue]_<<queue, taken>>
=============================================================================
