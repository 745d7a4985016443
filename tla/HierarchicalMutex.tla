-------------------------- MODULE HierarchicalMutex --------------------------
(***************************************************************************)
(* apps/threading, hierarchical_mutex: threads lock mutexes that have a    *)
(* level each.  A thread-local variable says how low a thread has come; a  *)
(* thread that asks for a mutex that is not below it gets an exception,    *)
(* and changes nothing.  The same goes for unlocking in another order than *)
(* the reverse of locking.                                                 *)
(***************************************************************************)
EXTENDS Naturals

CONSTANTS Threads, Mutexes,
          hierarchy_value,   \* the level of each mutex
          ULONG_MAX          \* the level of a thread that has locked nothing

ASSUME HierarchyAssumption ==
    /\ ULONG_MAX \in Nat
    /\ hierarchy_value \in [Mutexes -> 0 .. ULONG_MAX]

VARIABLES
    internal_mutex,                \* the thread that has locked it, or none
    previous_hierarchy_value,
    this_thread_hierarchy_value,
    call,                          \* where a thread is in a call of a mutex
    subject                        \* the mutex of that call, or of the last one

mutexVars == <<internal_mutex, previous_hierarchy_value, this_thread_hierarchy_value,
               call, subject>>

Nobody == {}
Calls == {"none", "lock", "update", "restore", "unlock"}
Levels == 0 .. ULONG_MAX

MutexTypeOK ==
    /\ internal_mutex \in [Mutexes -> {Nobody} \cup {{t} : t \in Threads}]
    /\ previous_hierarchy_value \in [Mutexes -> Levels]
    /\ this_thread_hierarchy_value \in [Threads -> Levels]
    /\ call \in [Threads -> Calls]
    /\ subject \in [Threads -> Mutexes]

MutexInit ==
    /\ internal_mutex = [m \in Mutexes |-> Nobody]
    /\ previous_hierarchy_value = [m \in Mutexes |-> 0]
    /\ this_thread_hierarchy_value = [t \in Threads |-> ULONG_MAX]
    /\ call = [t \in Threads |-> "none"]
    /\ subject \in [Threads -> Mutexes]

-----------------------------------------------------------------------------
Holds(t, m) == internal_mutex[m] = {t}

\* Variant: a mutex on the thread's own level is let through.
NotAbove(t, m) == this_thread_hierarchy_value[t] >= hierarchy_value[m]

\* check_for_hierarchy_violation, when it does not throw.
InOrder(t, m) == this_thread_hierarchy_value[t] > hierarchy_value[m]

Enter(t, m, stage) ==
    /\ call' = [call EXCEPT ![t] = stage]
    /\ subject' = [subject EXCEPT ![t] = m]

Advance(t, from, to) ==
    /\ call[t] = from
    /\ call' = [call EXCEPT ![t] = to]
    /\ UNCHANGED subject

Seize(t, m) ==
    /\ internal_mutex[m] = Nobody
    /\ internal_mutex' = [internal_mutex EXCEPT ![m] = {t}]

Lock(t, m) ==
    /\ call[t] = "none"
    /\ InOrder(t, m)
    /\ Enter(t, m, "lock")
    /\ UNCHANGED <<internal_mutex, previous_hierarchy_value, this_thread_hierarchy_value>>

\* try_lock, when it succeeds; otherwise it changes nothing.
TryLock(t, m) ==
    /\ call[t] = "none"
    /\ InOrder(t, m)
    /\ Seize(t, m)
    /\ Enter(t, m, "update")
    /\ UNCHANGED <<previous_hierarchy_value, this_thread_hierarchy_value>>

\* internal_mutex.lock() waits until nobody has it.
Acquire(t) ==
    /\ Advance(t, "lock", "update")
    /\ Seize(t, subject[t])
    /\ UNCHANGED <<previous_hierarchy_value, this_thread_hierarchy_value>>

\* update_hierarchy_value
Update(t) ==
    /\ Advance(t, "update", "none")
    /\ previous_hierarchy_value' =
          [previous_hierarchy_value EXCEPT ![subject[t]] = this_thread_hierarchy_value[t]]
    /\ this_thread_hierarchy_value' =
          [this_thread_hierarchy_value EXCEPT ![t] = hierarchy_value[subject[t]]]
    /\ UNCHANGED internal_mutex

\* unlock of a mutex the thread has, when its check does not throw.
Unlock(t, m) ==
    /\ call[t] = "none"
    /\ Holds(t, m)
    /\ this_thread_hierarchy_value[t] = hierarchy_value[m]
    /\ Enter(t, m, "restore")
    /\ UNCHANGED <<internal_mutex, previous_hierarchy_value, this_thread_hierarchy_value>>

Restore(t) ==
    /\ Advance(t, "restore", "unlock")
    /\ this_thread_hierarchy_value' =
          [this_thread_hierarchy_value EXCEPT ![t] = previous_hierarchy_value[subject[t]]]
    /\ UNCHANGED <<internal_mutex, previous_hierarchy_value>>

Release(t) ==
    /\ Advance(t, "unlock", "none")
    /\ internal_mutex' = [internal_mutex EXCEPT ![subject[t]] = Nobody]
    /\ UNCHANGED <<previous_hierarchy_value, this_thread_hierarchy_value>>

MutexStep(t) ==
    \/ \E m \in Mutexes : Lock(t, m) \/ TryLock(t, m) \/ Unlock(t, m)
    \/ Acquire(t) \/ Update(t) \/ Restore(t) \/ Release(t)

MutexNext == \E t \in Threads : MutexStep(t)

MutexSpec == MutexInit /\ [][MutexNext]_mutexVars

-----------------------------------------------------------------------------
(* Properties *)

WaitsFor(t, u) == call[t] = "lock" /\ Holds(u, subject[t])

\* No threads wait for each other in a circle, whichever mutexes they lock and in
\* whatever order they try to unlock them: what every thread of a set waits for is
\* never held within the set (lock and unlock of hierarchical_mutex.hpp).
NoCircularWait ==
    \A S \in SUBSET Threads :
        S # {} => \E t \in S : \A u \in S : ~WaitsFor(t, u)

\* The mutexes a thread has, without the one it is about to give back and the one it
\* has just been given.
Kept(t) == {m \in Mutexes : Holds(t, m) /\ ~(call[t] \in {"update", "unlock"} /\ m = subject[t])}

\* What makes it inductive: a thread is no higher than anything it has; its mutexes are on
\* different levels, and remember the level above them, so that the one it may unlock is
\* the one it locked last.
Descending(t) ==
    /\ \A m \in Kept(t) : this_thread_hierarchy_value[t] <= hierarchy_value[m]
    /\ \A m, n \in Kept(t) :
          hierarchy_value[n] > hierarchy_value[m] =>
              previous_hierarchy_value[m] <= hierarchy_value[n]
    /\ \A m, n \in Kept(t) : m # n => hierarchy_value[m] # hierarchy_value[n]
    /\ call[t] \in {"lock", "update"} => InOrder(t, subject[t])
    /\ call[t] \in {"update", "restore", "unlock"} => Holds(t, subject[t])
    /\ call[t] = "restore" => this_thread_hierarchy_value[t] = hierarchy_value[subject[t]]
    /\ call[t] = "unlock" => \A m \in Kept(t) : hierarchy_value[m] > hierarchy_value[subject[t]]

MutexIInv == MutexTypeOK /\ \A t \in Threads : Descending(t)
=============================================================================
