---------------------------- MODULE BoundedStack ----------------------------
(***************************************************************************)
(* What the buffer of use_semaphores.cpp is to its threads: a stack that   *)
(* never holds more than Bound items.  A thread that takes one gets the    *)
(* last that was put there.                                                *)
(***************************************************************************)
EXTENDS Integers, Sequences

CONSTANTS Takers, Values, Bound

VARIABLES stack,
          got        \* the item a thread took last

PushItem ==
    /\ Len(stack) < Bound
    /\ \E value \in Values : stack' = Append(stack, value)
    /\ UNCHANGED got

PopItem(t) ==
    /\ stack # <<>>
    /\ got' = [got EXCEPT ![t] = stack[Len(stack)]]
    /\ stack' = SubSeq(stack, 1, Len(stack) - 1)

StackInit == stack = <<>> /\ got \in [Takers -> Values]
StackNext == PushItem \/ \E t \in Takers : PopItem(t)
StackSpec == StackInit /\ [][StackNext]_<<stack, got>>
=============================================================================
