--------------------------- MODULE ThreadsafeQueue ---------------------------
(***************************************************************************)
(* apps/threading: preparation threads push chunks into a queue and notify *)
(* one of the processing threads, which wait until the queue is not empty. *)
(*                                                                         *)
(* The program is there twice.  threadsafe_queue notifies before it        *)
(* unlocks, wait_for_condition after that; a preparation thread here does  *)
(* either.  Chunks have no content.                                        *)
(***************************************************************************)
EXTENDS Integers, FiniteSets

CONSTANTS Preparers, Processors,
          MaxChunks      \* of every preparation thread

ASSUME QueueAssumption ==
    /\ IsFiniteSet(Preparers) /\ IsFiniteSet(Processors)
    /\ Preparers \cap Processors = {}
    /\ MaxChunks \in Nat

VARIABLES
    data_queue,      \* how many chunks there are
    queue_mutex,     \* the thread that has locked it, or none
    at,              \* where the control of a thread is
    prepared         \* the chunks a thread has prepared

queueVars == <<data_queue, queue_mutex, at, prepared>>

Participants == Preparers \cup Processors

\* "asleep" in data_pushed.wait, "awake" from it and about to lock again, to see whether the
\* queue is empty.
Places == {"start", "push", "notify", "notify_unlocked", "unlock",
           "asleep", "awake", "pop", "process", "end"}

QueueTypeOK ==
    /\ data_queue \in Nat
    /\ queue_mutex \in SUBSET Participants
    /\ at \in [Participants -> Places]
    /\ prepared \in [Preparers -> Nat]

QueueInit ==
    /\ data_queue = 0
    /\ queue_mutex = {}
    /\ at = [t \in Participants |-> "start"]
    /\ prepared = [t \in Preparers |-> 0]

-----------------------------------------------------------------------------
From(places) == {t \in Participants : at[t] \in places}

Go(t, from, to) ==
    /\ at[t] = from
    /\ at' = [at EXCEPT ![t] = to]

LockQueue(t) == queue_mutex = {} /\ queue_mutex' = {t}
UnlockQueue == queue_mutex' = {}

PrepareChunk(t) ==
    /\ prepared[t] < MaxChunks
    /\ Go(t, "start", "push")
    /\ LockQueue(t)
    /\ prepared' = [prepared EXCEPT ![t] = @ + 1]
    /\ UNCHANGED data_queue

\* more_data_to_prepare says that there is none.
StopPreparing(t) ==
    /\ Go(t, "start", "end")
    /\ UNCHANGED <<data_queue, queue_mutex, prepared>>

PushChunk(t) ==
    /\ Go(t, "push", "notify")
    /\ data_queue' = data_queue + 1
    /\ UNCHANGED <<queue_mutex, prepared>>

\* Some thread that sleeps wakes, if there is one.
Notify(t, from, to) ==
    /\ at[t] = from
    /\ \/ /\ From({"asleep"}) = {}
          /\ at' = [at EXCEPT ![t] = to]
       \/ \E u \in From({"asleep"}) : at' = [at EXCEPT ![t] = to, ![u] = "awake"]
    /\ UNCHANGED <<data_queue, queue_mutex, prepared>>

\* Variant: notified is only who waits for a queue that was empty.
NotifyFirstOnly(t) ==
    IF data_queue = 1 THEN Notify(t, "notify", "unlock")
    ELSE Go(t, "notify", "unlock") /\ UNCHANGED <<data_queue, queue_mutex, prepared>>

NotifyLocked(t) == Notify(t, "notify", "unlock")

UnlockPushed(t) ==
    /\ Go(t, "unlock", "start")
    /\ UnlockQueue
    /\ UNCHANGED <<data_queue, prepared>>

UnlockBeforeNotify(t) ==
    /\ Go(t, "notify", "notify_unlocked")
    /\ UnlockQueue
    /\ UNCHANGED <<data_queue, prepared>>

NotifyUnlocked(t) == Notify(t, "notify_unlocked", "start")

-----------------------------------------------------------------------------
\* The predicate of data_pushed.wait, which is asked with the mutex locked: the thread goes
\* on, or unlocks and sleeps in one step.
SeeChunk(t, from) ==
    /\ data_queue > 0
    /\ Go(t, from, "pop")
    /\ LockQueue(t)
    /\ UNCHANGED <<data_queue, prepared>>

FallAsleep(t, from) ==
    /\ data_queue = 0
    /\ queue_mutex = {}
    /\ Go(t, from, "asleep")
    /\ UNCHANGED <<data_queue, queue_mutex, prepared>>

\* A condition variable may wake a thread that nobody has notified.
WakeUnnotified(t) ==
    /\ Go(t, "asleep", "awake")
    /\ UNCHANGED <<data_queue, queue_mutex, prepared>>

PopChunk(t) ==
    /\ Go(t, "pop", "process")
    /\ data_queue' = data_queue - 1
    /\ UnlockQueue
    /\ UNCHANGED prepared

\* try_pop takes a chunk without waiting, if there is one.
TryPopChunk(t) ==
    /\ data_queue > 0
    /\ queue_mutex = {}
    /\ Go(t, "start", "process")
    /\ data_queue' = data_queue - 1
    /\ UNCHANGED <<queue_mutex, prepared>>

\* A thread goes on until is_last_chunk says otherwise.
ProcessChunk(t) ==
    /\ Go(t, "process", "start") \/ Go(t, "process", "end")
    /\ UNCHANGED <<data_queue, queue_mutex, prepared>>

Prepare(t) ==
    PrepareChunk(t) \/ StopPreparing(t) \/ PushChunk(t) \/ NotifyLocked(t) \/ UnlockPushed(t)
    \/ UnlockBeforeNotify(t) \/ NotifyUnlocked(t)

Process(t) ==
    \/ \E from \in {"start", "awake"} : SeeChunk(t, from) \/ FallAsleep(t, from)
    \/ WakeUnnotified(t) \/ PopChunk(t) \/ TryPopChunk(t) \/ ProcessChunk(t)

QueueNext == (\E t \in Preparers : Prepare(t)) \/ (\E t \in Processors : Process(t))

QueueSpec == QueueInit /\ [][QueueNext]_queueVars

-----------------------------------------------------------------------------
(* Properties *)

\* Nobody sleeps over a chunk: as long as a processing thread sleeps, there is for every
\* chunk in the queue a thread that is awake to take it, has it already before it, or is
\* about to be notified, whatever others pop meanwhile and whoever wakes unnotified
\* (push and wait_and_pop of threadsafe_queue.hpp, wait_for_condition.hpp).
NoLostWakeup ==
    From({"asleep"}) # {} =>
        data_queue <= Cardinality(From({"notify", "notify_unlocked", "awake", "pop"}))

\* What makes it inductive: who works on the queue has locked it, and who is to pop a chunk
\* finds one.
QueueIInv ==
    /\ QueueTypeOK
    /\ \A t \in Participants :
          /\ at[t] \in {"push", "notify", "unlock", "pop"} => queue_mutex = {t}
          /\ at[t] = "pop" => data_queue > 0
    /\ NoLostWakeup
=============================================================================
