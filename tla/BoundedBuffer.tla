---------------------------- MODULE BoundedBuffer ----------------------------
(***************************************************************************)
(* use_semaphores.cpp: threads share a buffer of a fixed size.  One        *)
(* semaphore counts the slots that are empty, another those that are       *)
(* filled, and a mutex guards the buffer while an item is put or taken.    *)
(*                                                                         *)
(* Every call is asserted to succeed; a run in which one fails is aborted. *)
(* A run has the semaphores for itself: it creates them exclusively.       *)
(***************************************************************************)
EXTENDS Integers, Sequences, FiniteSets

CONSTANTS producers, consumers,
          Items,           \* what rand() % 100 tells apart
          buffer_size,
          Rounds           \* of every thread

ASSUME BufferAssumption ==
    /\ IsFiniteSet(producers) /\ IsFiniteSet(consumers)
    /\ Cardinality(producers) = Cardinality(consumers)
    /\ producers \cap consumers = {}
    /\ Items # {} /\ buffer_size \in Nat \ {0} /\ Rounds \in Nat \ {0}

Workers == producers \cup consumers

VARIABLES
    buffer,
    empty_slots, filled_slots,     \* the values of the semaphores
    buffer_mutex,                  \* the thread that has locked it, or none
    stage,                         \* where the control of a thread is
    round,                         \* how often a thread has been through its loop
    item                           \* a thread's variable

bufferVars == <<buffer, empty_slots, filled_slots, buffer_mutex, stage, round, item>>

Stages == {"wait", "lock", "enter", "take", "unlock", "post", "exit"}

BufferTypeOK ==
    /\ buffer \in Seq(Items)
    /\ empty_slots \in Nat /\ filled_slots \in Nat
    /\ buffer_mutex \in SUBSET Workers
    /\ stage \in [Workers -> Stages]
    /\ round \in [Workers -> Nat]
    /\ item \in [Workers -> Items]

BufferInit ==
    /\ buffer = <<>>
    /\ empty_slots = buffer_size
    /\ filled_slots = 0
    /\ buffer_mutex = {}
    /\ stage = [t \in Workers |-> "wait"]
    /\ round = [t \in Workers |-> 0]
    /\ item \in [Workers -> Items]

-----------------------------------------------------------------------------
Continue(t, from, to) ==
    /\ stage[t] = from
    /\ stage' = [stage EXCEPT ![t] = to]

WaitEmpty(t) ==
    /\ Continue(t, "wait", "lock")
    /\ empty_slots > 0
    /\ empty_slots' = empty_slots - 1
    /\ \E value \in Items : item' = [item EXCEPT ![t] = value]
    /\ UNCHANGED <<buffer, filled_slots, buffer_mutex, round>>

WaitFilled(t) ==
    /\ Continue(t, "wait", "lock")
    /\ filled_slots > 0
    /\ filled_slots' = filled_slots - 1
    /\ UNCHANGED <<buffer, empty_slots, buffer_mutex, round, item>>

\* Variant: the mutex is not waited for.
LockBufferUnguarded(t) ==
    /\ Continue(t, "lock", "enter")
    /\ buffer_mutex' = {t}
    /\ UNCHANGED <<buffer, empty_slots, filled_slots, round, item>>

LockBuffer(t) ==
    /\ Continue(t, "lock", "enter")
    /\ buffer_mutex = {}
    /\ buffer_mutex' = {t}
    /\ UNCHANGED <<buffer, empty_slots, filled_slots, round, item>>

PushBack(t) ==
    /\ Continue(t, "enter", "unlock")
    /\ buffer' = Append(buffer, item[t])
    /\ UNCHANGED <<empty_slots, filled_slots, buffer_mutex, round, item>>

\* back() of an empty vector is undefined: it may return anything.
ReadBack(t) ==
    /\ Continue(t, "enter", "take")
    /\ \E value \in IF buffer = <<>> THEN Items ELSE {buffer[Len(buffer)]} :
          item' = [item EXCEPT ![t] = value]
    /\ UNCHANGED <<buffer, empty_slots, filled_slots, buffer_mutex, round>>

PopBack(t) ==
    /\ Continue(t, "take", "unlock")
    /\ buffer' = SubSeq(buffer, 1, Len(buffer) - 1)
    /\ UNCHANGED <<empty_slots, filled_slots, buffer_mutex, round, item>>

UnlockBuffer(t) ==
    /\ Continue(t, "unlock", "post")
    /\ buffer_mutex' = {}
    /\ UNCHANGED <<buffer, empty_slots, filled_slots, round, item>>

\* The loop is done after Rounds times; the thread exits.
EndRound(t) ==
    /\ Continue(t, "post", IF round[t] + 1 < Rounds THEN "wait" ELSE "exit")
    /\ round' = [round EXCEPT ![t] = @ + 1]
    /\ UNCHANGED <<buffer, buffer_mutex, item>>

PostFilled(t) ==
    /\ EndRound(t)
    /\ filled_slots' = filled_slots + 1
    /\ UNCHANGED empty_slots

PostEmpty(t) ==
    /\ EndRound(t)
    /\ empty_slots' = empty_slots + 1
    /\ UNCHANGED filled_slots

Produce(t) == WaitEmpty(t) \/ LockBuffer(t) \/ PushBack(t) \/ UnlockBuffer(t) \/ PostFilled(t)

Consume(t) ==
    WaitFilled(t) \/ LockBuffer(t) \/ ReadBack(t) \/ PopBack(t) \/ UnlockBuffer(t) \/ PostEmpty(t)

BufferNext == (\E t \in producers : Produce(t)) \/ (\E t \in consumers : Consume(t))

BufferSpec == BufferInit /\ [][BufferNext]_bufferVars

-----------------------------------------------------------------------------
(* Properties *)

At(threads, stages) == {t \in threads : stage[t] \in stages}

\* An item that has been read is a consumer's, though pop_back is yet to come.
StackView == INSTANCE BoundedStack WITH
    Takers <- consumers, Values <- Items, Bound <- buffer_size,
    stack <- IF At(consumers, {"take"}) = {} THEN buffer ELSE SubSeq(buffer, 1, Len(buffer) - 1),
    got <- [t \in consumers |-> item[t]]

\* What the semaphores and the mutex of use_semaphores.cpp are there for: whatever the
\* threads' interleaving, the buffer is a stack of at most buffer_size items, from which
\* every item is taken once, the last one first, and none is taken that was not put there.
ImplementsBoundedStack == StackView!StackSpec

\* What makes it inductive: each slot is empty, reserved by a producer, in use, or given
\* back by a consumer; each item is filled, about to be, or claimed by a consumer; and
\* who works on the buffer has locked it.
BufferIInv ==
    /\ BufferTypeOK
    /\ empty_slots + Cardinality(At(producers, {"lock", "enter"})) + Len(buffer)
          + Cardinality(At(consumers, {"unlock", "post"})) = buffer_size
    /\ filled_slots + Cardinality(At(producers, {"unlock", "post"}))
          + Cardinality(At(consumers, {"lock", "enter", "take"})) = Len(buffer)
    /\ \A t \in Workers : stage[t] \in {"enter", "take", "unlock"} => buffer_mutex = {t}
    /\ At(producers, {"take"}) = {}
=============================================================================
