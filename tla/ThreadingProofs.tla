--------------------------- MODULE ThreadingProofs ---------------------------
(***************************************************************************)
(* Proofs about the programs of threads: hierarchical mutexes keep threads *)
(* from waiting for each other in a circle, for any threads, mutexes and   *)
(* levels; the queue's notifications are not lost, for every number of     *)
(* threads and chunks; and the bounded buffer is a stack, for every number *)
(* of threads and rounds and every size.                                   *)
(***************************************************************************)
EXTENDS HierarchicalMutex, ThreadsafeQueue, BoundedBuffer, Counting

-----------------------------------------------------------------------------
(* Hierarchical mutexes *)

\* Before the first call nobody has a mutex.
LEMMA MutexInitIInv == MutexInit => MutexIInv
BY HierarchyAssumption
   DEF MutexInit, MutexIInv, MutexTypeOK, Descending, Kept, Holds, Nobody, Calls, Levels,
       InOrder

\* Every step of a call keeps the types.
LEMMA MutexTypeStep ==
    ASSUME MutexTypeOK, NEW t \in Threads, MutexStep(t)
    PROVE  MutexTypeOK'
<1> USE HierarchyAssumption DEF MutexTypeOK, Nobody, Calls, Levels, Enter, Advance, Seize
<1>1. ASSUME NEW m \in Mutexes, Lock(t, m) PROVE MutexTypeOK'
    BY <1>1 DEF Lock
<1>2. ASSUME NEW m \in Mutexes, TryLock(t, m) PROVE MutexTypeOK'
    BY <1>2 DEF TryLock
<1>3. ASSUME NEW m \in Mutexes, Unlock(t, m) PROVE MutexTypeOK'
    BY <1>3 DEF Unlock
<1>4. CASE Acquire(t)
    BY <1>4 DEF Acquire
<1>5. CASE Update(t)
    BY <1>5 DEF Update
<1>6. CASE Restore(t)
    BY <1>6 DEF Restore
<1>7. CASE Release(t)
    BY <1>7 DEF Release
<1>8. QED
    BY <1>1, <1>2, <1>3, <1>4, <1>5, <1>6, <1>7 DEF MutexStep

\* A thread's calls leave the mutexes and the level of the others alone: a mutex that
\* somebody has is neither seized, nor does anybody else write what it remembers.
LEMMA OthersDescend ==
    ASSUME MutexIInv, NEW t \in Threads, MutexStep(t), NEW u \in Threads, u # t
    PROVE  Descending(u)'
<1> USE HierarchyAssumption
<1> DEFINE Same == /\ call'[u] = call[u] /\ subject'[u] = subject[u]
                   /\ this_thread_hierarchy_value'[u] = this_thread_hierarchy_value[u]
                   /\ \A m \in Mutexes : Holds(u, m)' <=> Holds(u, m)
                   /\ \A m \in Mutexes : Holds(u, m) =>
                         previous_hierarchy_value'[m] = previous_hierarchy_value[m]
<1>0. ASSUME call[t] = "unlock" PROVE internal_mutex[subject[t]] = {t}
  <2>1. Descending(t)
    BY DEF MutexIInv
  <2>2. Holds(t, subject[t])
    BY <1>0, <2>1 DEF Descending
  <2>3. QED
    BY <2>2 DEF Holds
<1>1. Same
  <2> USE DEF MutexIInv, MutexTypeOK, Enter, Advance, Seize, Holds, Nobody
  <2>1. ASSUME NEW m \in Mutexes, Lock(t, m) PROVE Same
    BY <2>1 DEF Lock
  <2>2. ASSUME NEW m \in Mutexes, TryLock(t, m) PROVE Same
    BY <2>2 DEF TryLock
  <2>3. ASSUME NEW m \in Mutexes, Unlock(t, m) PROVE Same
    BY <2>3 DEF Unlock
  <2>4. CASE Acquire(t)
    BY <2>4 DEF Acquire
  <2>5. CASE Update(t)
    BY <2>5 DEF Update, Descending
  <2>6. CASE Restore(t)
    BY <2>6 DEF Restore
  <2>7. CASE Release(t)
    <3>1. call[t] = "unlock"
      BY <2>7 DEF Release
    <3>2. internal_mutex[subject[t]] = {t} /\ {t} # {u} /\ {u} # {}
      BY <1>0, <3>1, Zenon
    <3>3. /\ internal_mutex' = [internal_mutex EXCEPT ![subject[t]] = {}]
          /\ call' = [call EXCEPT ![t] = "none"] /\ subject' = subject
          /\ this_thread_hierarchy_value' = this_thread_hierarchy_value
          /\ previous_hierarchy_value' = previous_hierarchy_value
      BY <2>7 DEF Release
    <3>4. QED
      BY <3>2, <3>3
  <2>8. QED
    BY <2>1, <2>2, <2>3, <2>4, <2>5, <2>6, <2>7 DEF MutexStep
<1>2. /\ Kept(u)' = Kept(u)
      /\ Kept(u) \subseteq {m \in Mutexes : Holds(u, m)}
    BY <1>1 DEF Kept
<1>3. subject[u] \in Mutexes
    BY DEF MutexIInv, MutexTypeOK
<1>4. QED
    BY <1>1, <1>2, <1>3 DEF MutexIInv, Descending, InOrder

\* What a thread keeps while it calls, and how low it is afterwards.
LEMMA CallerDescends ==
    ASSUME MutexIInv, NEW t \in Threads, MutexStep(t)
    PROVE  Descending(t)'
<1> USE HierarchyAssumption DEF MutexIInv, MutexTypeOK
<1>0. /\ \A m \in Mutexes : hierarchy_value[m] \in Levels
      /\ \A m \in Mutexes : previous_hierarchy_value[m] \in Levels
      /\ this_thread_hierarchy_value[t] \in Levels /\ Levels \subseteq Nat
      /\ subject[t] \in Mutexes /\ Descending(t)
    BY DEF Levels
<1>1. ASSUME NEW m \in Mutexes, Lock(t, m) PROVE Descending(t)'
  <2>1. Kept(t)' = Kept(t)
    BY <1>1 DEF Lock, Enter, Kept, Holds
  <2>2. QED
    BY <1>0, <1>1, <2>1 DEF Lock, Enter, Descending, InOrder
<1>2. ASSUME NEW m \in Mutexes, TryLock(t, m) PROVE Descending(t)'
  <2>1. Kept(t)' = Kept(t) /\ Holds(t, m)'
    BY <1>2 DEF TryLock, Enter, Seize, Kept, Holds, Nobody
  <2>2. QED
    BY <1>0, <1>2, <2>1 DEF TryLock, Enter, Descending, InOrder
<1>3. ASSUME NEW m \in Mutexes, Unlock(t, m) PROVE Descending(t)'
  <2>1. Kept(t)' = Kept(t) /\ Holds(t, m)'
    BY <1>3 DEF Unlock, Enter, Kept, Holds
  <2>2. QED
    BY <1>0, <1>3, <2>1 DEF Unlock, Enter, Descending
<1>4. CASE Acquire(t)
  <2>1. Kept(t)' = Kept(t) /\ Holds(t, subject[t])'
    BY <1>0, <1>4 DEF Acquire, Advance, Seize, Kept, Holds, Nobody
  <2>2. QED
    BY <1>0, <1>4, <2>1 DEF Acquire, Advance, Descending, InOrder
<1>5. CASE Update(t)
  <2>1. /\ Kept(t)' = Kept(t) \cup {subject[t]} /\ subject[t] \notin Kept(t)
        /\ InOrder(t, subject[t])
    BY <1>0, <1>5 DEF Update, Advance, Kept, Holds, Descending
  <2>2. /\ this_thread_hierarchy_value'[t] = hierarchy_value[subject[t]]
        /\ previous_hierarchy_value'[subject[t]] = this_thread_hierarchy_value[t]
        /\ \A m \in Mutexes \ {subject[t]} :
              previous_hierarchy_value'[m] = previous_hierarchy_value[m]
    BY <1>0, <1>5 DEF Update
  <2>3. \A m \in Kept(t) : hierarchy_value[m] > hierarchy_value[subject[t]]
    <3>1. /\ this_thread_hierarchy_value[t] > hierarchy_value[subject[t]]
          /\ \A m \in Kept(t) : this_thread_hierarchy_value[t] <= hierarchy_value[m]
      BY <1>0, <2>1 DEF Descending, InOrder
    <3> TAKE m \in Kept(t)
    <3>2. /\ hierarchy_value[m] \in Nat /\ hierarchy_value[subject[t]] \in Nat
          /\ this_thread_hierarchy_value[t] \in Nat
      BY <1>0 DEF Kept
    <3>3. this_thread_hierarchy_value[t] <= hierarchy_value[m]
      BY <3>1
    <3>4. QED
      BY <3>1, <3>2, <3>3
  <2>4. QED
    BY <1>0, <1>5, <2>1, <2>2, <2>3 DEF Update, Advance, Descending, Kept
<1>6. CASE Restore(t)
  <2>1. Kept(t)' = Kept(t) \ {subject[t]} /\ subject[t] \in Kept(t) /\ Holds(t, subject[t])'
    BY <1>0, <1>6 DEF Restore, Advance, Kept, Holds, Descending
  <2>2. \A m \in Kept(t)' :
           /\ hierarchy_value[m] > hierarchy_value[subject[t]]
           /\ previous_hierarchy_value[subject[t]] <= hierarchy_value[m]
    <3>1. /\ this_thread_hierarchy_value[t] = hierarchy_value[subject[t]]
          /\ \A m \in Kept(t) : this_thread_hierarchy_value[t] <= hierarchy_value[m]
          /\ \A m \in Kept(t) : m # subject[t] => hierarchy_value[m] # hierarchy_value[subject[t]]
          /\ \A m \in Kept(t) : hierarchy_value[m] > hierarchy_value[subject[t]] =>
                previous_hierarchy_value[subject[t]] <= hierarchy_value[m]
      BY <1>0, <1>6, <2>1 DEF Descending, Restore, Advance
    <3>2. \A m \in Kept(t)' : m \in Kept(t) /\ m # subject[t] /\ m \in Mutexes
      BY <2>1 DEF Kept
    <3>3. QED
      BY <1>0, <3>1, <3>2
  <2>3. QED
    BY <1>0, <1>6, <2>1, <2>2 DEF Restore, Advance, Descending
<1>7. CASE Release(t)
  <2>1. Kept(t)' = Kept(t)
    BY <1>0, <1>7 DEF Release, Advance, Kept, Holds, Nobody
  <2>2. QED
    BY <1>0, <1>7, <2>1 DEF Release, Advance, Descending
<1>8. QED
    BY <1>1, <1>2, <1>3, <1>4, <1>5, <1>6, <1>7 DEF MutexStep

\* Every thread stays no higher than the mutexes it has, and those stay in order.
THEOREM MutexInvariance == MutexSpec => []MutexIInv
<1>1. MutexIInv /\ [MutexNext]_mutexVars => MutexIInv'
  <2> SUFFICES ASSUME MutexIInv, [MutexNext]_mutexVars PROVE MutexIInv'
      OBVIOUS
  <2>1. CASE UNCHANGED mutexVars
      BY <2>1 DEF mutexVars, MutexIInv, MutexTypeOK, Descending, Kept, Holds, InOrder
  <2>2. ASSUME NEW t \in Threads, MutexStep(t) PROVE MutexIInv'
    <3>1. MutexTypeOK'
      BY <2>2, MutexTypeStep DEF MutexIInv
    <3>2. \A u \in Threads : Descending(u)'
      BY <2>2, OthersDescend, CallerDescends
    <3>3. QED
      BY <3>1, <3>2 DEF MutexIInv
  <2>3. QED
      BY <2>1, <2>2 DEF MutexNext
<1>2. QED
    BY <1>1, MutexInitIInv, PTL DEF MutexSpec

\* Of the threads of any set, one that waits for the lowest mutex is not kept waiting
\* within the set: who has that mutex waits, if at all, for a lower one.
THEOREM NoCircularWaitHolds == MutexSpec => []NoCircularWait
<1>1. MutexIInv => NoCircularWait
  <2> SUFFICES ASSUME MutexIInv, NEW S \in SUBSET Threads, S # {},
                      \A t \in S : \E u \in S : WaitsFor(t, u)
               PROVE  FALSE
      BY DEF NoCircularWait
  <2> DEFINE Wanted == {hierarchy_value[subject[t]] : t \in S}
  <2>1. Wanted \in SUBSET Nat /\ Wanted # {}
      BY HierarchyAssumption DEF MutexIInv, MutexTypeOK
  <2>2. PICK t \in S : \A r \in S : hierarchy_value[subject[t]] <= hierarchy_value[subject[r]]
    <3>1. PICK n \in Wanted : \A k \in Wanted : n <= k
      BY <2>1, LeastOf
    <3>2. QED
      BY <3>1
  <2>3. PICK u \in S : WaitsFor(t, u)
      OBVIOUS
  <2>4. call[u] = "lock"
      BY DEF WaitsFor
  <2>5. subject[t] \in Kept(u)
      BY <2>3, <2>4 DEF WaitsFor, Kept, MutexIInv, MutexTypeOK
  <2>6. this_thread_hierarchy_value[u] <= hierarchy_value[subject[t]]
      BY <2>5 DEF MutexIInv, Descending
  <2>7. this_thread_hierarchy_value[u] > hierarchy_value[subject[u]]
      BY <2>4 DEF MutexIInv, Descending, InOrder
  <2>8. hierarchy_value[subject[t]] <= hierarchy_value[subject[u]]
      BY <2>2
  <2>9. QED
      BY <2>6, <2>7, <2>8, HierarchyAssumption DEF MutexIInv, MutexTypeOK, Levels
<1>2. QED
    BY <1>1, MutexInvariance, PTL

-----------------------------------------------------------------------------
(* The queue *)

Locked == {"push", "notify", "unlock", "pop"}
Carers == {"notify", "notify_unlocked", "awake", "pop"}

\* What is left of the invariant when its parts are named.
Guarded ==
    \A t \in Participants :
        /\ at[t] \in Locked => queue_mutex = {t}
        /\ at[t] = "pop" => data_queue > 0
Cared == From({"asleep"}) # {} => data_queue <= Cardinality(From(Carers))

\* The invariant of the queue by its parts.
LEMMA Parts == QueueIInv <=> QueueTypeOK /\ Guarded /\ Cared
BY DEF QueueIInv, Guarded, Cared, NoLostWakeup, Locked, Carers

\* Finitely many threads are at any of some places.
LEMMA FromFinite ==
    ASSUME NEW X
    PROVE  IsFiniteSet(From(X)) /\ Cardinality(From(X)) \in Nat
<1>1. IsFiniteSet(Participants)
    BY QueueAssumption, FS_Union DEF QueueAssumption, Participants
<1>2. IsFiniteSet(From(X))
    BY <1>1, FS_Subset DEF From
<1>3. QED
    BY <1>2, FS_CardinalityType

\* How many threads care for a chunk while one of them goes on.
LEMMA CarersMove ==
    ASSUME at \in [Participants -> Places], NEW t \in Participants, NEW from, NEW to,
           Go(t, from, to)
    PROVE  /\ Cardinality(From(Carers)) \in Nat
           /\ Cardinality(From(Carers)') = Cardinality(From(Carers))
                 + (IF to \in Carers THEN 1 ELSE 0) - (IF from \in Carers THEN 1 ELSE 0)
<1> DEFINE A == From(Carers)
           B == From(Carers)'
<1>1. IsFiniteSet(A)
    BY FromFinite
<1>2. A \ {t} = B \ {t}
    BY DEF From, Go
<1>3. /\ t \in A <=> from \in Carers
      /\ t \in B <=> to \in Carers
    BY DEF From, Go
<1>4. In(t, A) = (IF from \in Carers THEN 1 ELSE 0) /\ In(t, B) = (IF to \in Carers THEN 1 ELSE 0)
    BY <1>3 DEF In
<1> HIDE DEF A, B
<1>5. Cardinality(A) \in Nat /\ Cardinality(B) = Cardinality(A) + In(t, B) - In(t, A)
    BY <1>1, <1>2, CountMove
<1>6. QED
    BY <1>4, <1>5 DEF A, B

\* One that cares no longer takes a chunk with it, and none falls asleep over one.
LEMMA CaredMove ==
    ASSUME QueueIInv, NEW t \in Participants, NEW from, NEW to, Go(t, from, to),
           data_queue' \in Int,
           \/ to = "asleep" /\ data_queue' = 0
           \/ to # "asleep" /\ from \in Carers /\ to \notin Carers /\ data_queue' <= data_queue - 1
           \/ to # "asleep" /\ from \notin Carers /\ to \notin Carers /\ data_queue' <= data_queue
           \/ to # "asleep" /\ from \notin Carers /\ to \in Carers /\ data_queue' <= data_queue + 1
           \/ to # "asleep" /\ from \in Carers /\ to \in Carers /\ data_queue' <= data_queue
    PROVE  Cared'
<1>1. /\ at \in [Participants -> Places] /\ data_queue \in Nat /\ Cared
    BY Parts DEF QueueTypeOK
<1>2. Cardinality(From(Carers)) \in Nat
    BY FromFinite
<1>3. Cardinality(From(Carers)') = Cardinality(From(Carers))
          + (IF to \in Carers THEN 1 ELSE 0) - (IF from \in Carers THEN 1 ELSE 0)
    BY <1>1, CarersMove
<1>4. Cardinality(From(Carers)') \in Nat
  <2>1. IsFiniteSet(Participants) /\ From(Carers)' \subseteq Participants
      BY QueueAssumption, FS_Union DEF QueueAssumption, Participants, From
  <2>2. QED
      BY <2>1, FS_Subset, FS_CardinalityType
<1>5. CASE to = "asleep" /\ data_queue' = 0
    BY <1>4, <1>5 DEF Cared
<1>6. CASE to # "asleep"
  <2>1. From({"asleep"})' \subseteq From({"asleep"})
      BY <1>1, <1>6 DEF From, Go
  <2>2. CASE From({"asleep"}) = {}
      BY <2>1, <2>2 DEF Cared
  <2>3. CASE data_queue <= Cardinality(From(Carers))
    <3>1. data_queue' <= Cardinality(From(Carers)')
        BY <1>1, <1>2, <1>3, <1>6, <2>3
    <3>2. QED
        BY <3>1 DEF Cared
  <2>4. QED
      BY <1>1, <2>2, <2>3 DEF Cared
<1>7. QED
    BY <1>5, <1>6

\* A thread that has waited for a chunk is counted among those who care.
LEMMA NotifyMove ==
    ASSUME QueueIInv, NEW t \in Participants, NEW from \in {"notify", "notify_unlocked"},
           NEW to \in {"unlock", "start"}, Notify(t, from, to)
    PROVE  Cared'
<1>1. /\ at \in [Participants -> Places] /\ data_queue \in Nat /\ data_queue' = data_queue
      /\ at[t] = from /\ Cared
    BY Parts DEF QueueTypeOK, Notify
<1>2. CASE From({"asleep"}) = {} /\ at' = [at EXCEPT ![t] = to]
    BY <1>1, <1>2 DEF Cared, From
<1>3. ASSUME NEW u \in From({"asleep"}), at' = [at EXCEPT ![t] = to, ![u] = "awake"]
      PROVE  Cared'
  <2> DEFINE A == From(Carers)
             C == A \ {t}
             B == From(Carers)'
  <2>1. u \in Participants /\ at[u] = "asleep" /\ u # t
      BY <1>1, <1>3 DEF From
  <2>2. /\ t \in A /\ t \notin C /\ u \notin C /\ u \in B /\ t \notin B
        /\ A \ {t} = C \ {t} /\ C \ {u} = B \ {u}
      BY <1>1, <1>3, <2>1 DEF From, Carers
  <2>3. IsFiniteSet(A) /\ IsFiniteSet(C)
      BY FromFinite, FS_Subset
  <2>4. In(t, A) = 1 /\ In(t, C) = 0 /\ In(u, C) = 0 /\ In(u, B) = 1
      BY <2>2 DEF In
  <2> HIDE DEF A, B, C
  <2>5. Cardinality(A) \in Nat /\ Cardinality(C) = Cardinality(A) + In(t, C) - In(t, A)
      BY <2>2, <2>3, CountMove
  <2>6. Cardinality(C) \in Nat /\ Cardinality(B) = Cardinality(C) + In(u, B) - In(u, C)
      BY <2>2, <2>3, CountMove
  <2>7. Cardinality(B) = Cardinality(A)
      BY <2>4, <2>5, <2>6
  <2>8. data_queue <= Cardinality(A)
      BY <1>1, <1>3 DEF Cared, A
  <2>9. QED
      BY <1>1, <2>7, <2>8 DEF Cared, A, B
<1>4. QED
    BY <1>2, <1>3 DEF Notify

-----------------------------------------------------------------------------
(* The invariant *)

\* At first nobody sleeps and there is no chunk.
LEMMA QueueInitIInv == QueueInit => QueueIInv
<1> SUFFICES ASSUME QueueInit PROVE QueueIInv
    OBVIOUS
<1>1. From({"asleep"}) = {}
    BY DEF QueueInit, From
<1>2. QED
    BY <1>1 DEF QueueInit, QueueIInv, QueueTypeOK, Places, Participants, NoLostWakeup

\* A preparation thread's step keeps the invariant.
LEMMA PrepareStep ==
    ASSUME QueueIInv, NEW t \in Preparers, Prepare(t)
    PROVE  QueueIInv'
<1>0. /\ QueueTypeOK /\ Guarded /\ Cared /\ t \in Participants
      /\ at \in [Participants -> Places] /\ data_queue \in Nat
      /\ \A u \in Participants : {u} # {} /\ (u # t => {u} # {t})
    BY Parts DEF QueueTypeOK, Participants
<1>1. CASE PrepareChunk(t)
  <2>1. QueueTypeOK' /\ Guarded'
      BY <1>0, <1>1 DEF PrepareChunk, LockQueue, Go, QueueTypeOK, Guarded, Places, Locked
  <2>2. Go(t, "start", "push") /\ data_queue' = data_queue
      BY <1>1 DEF PrepareChunk
  <2>3. Cared'
      BY <1>0, <1>1, <2>2, CaredMove DEF Carers
  <2>4. QED
      BY <2>1, <2>3 DEF QueueIInv, Guarded, Cared, NoLostWakeup, Locked, Carers
<1>2. CASE StopPreparing(t)
  <2>1. QueueTypeOK' /\ Guarded'
      BY <1>0, <1>2 DEF StopPreparing, Go, QueueTypeOK, Guarded, Places, Locked
  <2>2. Go(t, "start", "end") /\ data_queue' = data_queue
      BY <1>2 DEF StopPreparing
  <2>3. Cared'
      BY <1>0, <1>2, <2>2, CaredMove DEF Carers
  <2>4. QED
      BY <2>1, <2>3 DEF QueueIInv, Guarded, Cared, NoLostWakeup, Locked, Carers
<1>3. CASE PushChunk(t)
  <2>1. QueueTypeOK' /\ Guarded'
      BY <1>0, <1>3 DEF PushChunk, Go, QueueTypeOK, Guarded, Places, Locked
  <2>2. Go(t, "push", "notify") /\ data_queue' = data_queue + 1
      BY <1>3 DEF PushChunk
  <2>3. Cared'
      BY <1>0, <1>3, <2>2, CaredMove DEF Carers
  <2>4. QED
      BY <2>1, <2>3 DEF QueueIInv, Guarded, Cared, NoLostWakeup, Locked, Carers
<1>4. CASE NotifyLocked(t)
  <2>1. QueueTypeOK' /\ Guarded'
      BY <1>0, <1>4 DEF NotifyLocked, Notify, From, QueueTypeOK, Guarded, Places, Locked
  <2>2. Cared'
      BY <1>0, <1>4, NotifyMove DEF NotifyLocked
  <2>3. QED
      BY <2>1, <2>2 DEF QueueIInv, Guarded, Cared, NoLostWakeup, Locked, Carers
<1>5. CASE UnlockPushed(t)
  <2>1. QueueTypeOK' /\ Guarded'
      BY <1>0, <1>5 DEF UnlockPushed, UnlockQueue, Go, QueueTypeOK, Guarded, Places, Locked
  <2>2. Go(t, "unlock", "start") /\ data_queue' = data_queue
      BY <1>5 DEF UnlockPushed
  <2>3. Cared'
      BY <1>0, <1>5, <2>2, CaredMove DEF Carers
  <2>4. QED
      BY <2>1, <2>3 DEF QueueIInv, Guarded, Cared, NoLostWakeup, Locked, Carers
<1>6. CASE UnlockBeforeNotify(t)
  <2>1. QueueTypeOK' /\ Guarded'
      BY <1>0, <1>6 DEF UnlockBeforeNotify, UnlockQueue, Go, QueueTypeOK, Guarded, Places, Locked
  <2>2. Go(t, "notify", "notify_unlocked") /\ data_queue' = data_queue
      BY <1>6 DEF UnlockBeforeNotify
  <2>3. Cared'
      BY <1>0, <1>6, <2>2, CaredMove DEF Carers
  <2>4. QED
      BY <2>1, <2>3 DEF QueueIInv, Guarded, Cared, NoLostWakeup, Locked, Carers
<1>7. CASE NotifyUnlocked(t)
  <2>1. QueueTypeOK' /\ Guarded'
      BY <1>0, <1>7 DEF NotifyUnlocked, Notify, From, QueueTypeOK, Guarded, Places, Locked
  <2>2. Cared'
      BY <1>0, <1>7, NotifyMove DEF NotifyUnlocked
  <2>3. QED
      BY <2>1, <2>2 DEF QueueIInv, Guarded, Cared, NoLostWakeup, Locked, Carers
<1>8. QED
    BY <1>1, <1>2, <1>3, <1>4, <1>5, <1>6, <1>7 DEF Prepare

\* A processing thread's step keeps the invariant.
LEMMA ProcessStep ==
    ASSUME QueueIInv, NEW t \in Processors, Process(t)
    PROVE  QueueIInv'
<1>0. /\ QueueTypeOK /\ Guarded /\ Cared /\ t \in Participants
      /\ at \in [Participants -> Places] /\ data_queue \in Nat
      /\ \A u \in Participants : {u} # {} /\ (u # t => {u} # {t})
    BY Parts DEF QueueTypeOK, Participants
<1>1. ASSUME NEW from \in {"start", "awake"}, SeeChunk(t, from) PROVE QueueIInv'
  <2>1. QueueTypeOK' /\ Guarded'
      BY <1>0, <1>1 DEF SeeChunk, LockQueue, Go, QueueTypeOK, Guarded, Places, Locked
  <2>2. Go(t, from, "pop") /\ data_queue' = data_queue
      BY <1>1 DEF SeeChunk
  <2>3. Cared'
      BY <1>0, <1>1, <2>2, CaredMove DEF Carers
  <2>4. QED
      BY <2>1, <2>3 DEF QueueIInv, Guarded, Cared, NoLostWakeup, Locked, Carers
<1>2. ASSUME NEW from \in {"start", "awake"}, FallAsleep(t, from) PROVE QueueIInv'
  <2>1. QueueTypeOK' /\ Guarded'
      BY <1>0, <1>2 DEF FallAsleep, Go, QueueTypeOK, Guarded, Places, Locked
  <2>2. Go(t, from, "asleep") /\ data_queue' = 0
      BY <1>2 DEF FallAsleep
  <2>3. Cared'
      BY <1>0, <1>2, <2>2, CaredMove DEF Carers
  <2>4. QED
      BY <2>1, <2>3 DEF QueueIInv, Guarded, Cared, NoLostWakeup, Locked, Carers
<1>3. CASE WakeUnnotified(t)
  <2>1. QueueTypeOK' /\ Guarded'
      BY <1>0, <1>3 DEF WakeUnnotified, Go, QueueTypeOK, Guarded, Places, Locked
  <2>2. Go(t, "asleep", "awake") /\ data_queue' = data_queue
      BY <1>3 DEF WakeUnnotified
  <2>3. Cared'
      BY <1>0, <1>3, <2>2, CaredMove DEF Carers
  <2>4. QED
      BY <2>1, <2>3 DEF QueueIInv, Guarded, Cared, NoLostWakeup, Locked, Carers
<1>4. CASE PopChunk(t)
  <2>1. QueueTypeOK' /\ Guarded'
      BY <1>0, <1>4 DEF PopChunk, UnlockQueue, Go, QueueTypeOK, Guarded, Places, Locked
  <2>2. Go(t, "pop", "process") /\ data_queue' = data_queue - 1
      BY <1>4 DEF PopChunk
  <2>3. Cared'
      BY <1>0, <1>4, <2>2, CaredMove DEF Carers
  <2>4. QED
      BY <2>1, <2>3 DEF QueueIInv, Guarded, Cared, NoLostWakeup, Locked, Carers
<1>5. CASE TryPopChunk(t)
  <2>1. QueueTypeOK' /\ Guarded'
      BY <1>0, <1>5 DEF TryPopChunk, Go, QueueTypeOK, Guarded, Places, Locked
  <2>2. Go(t, "start", "process") /\ data_queue' = data_queue - 1
      BY <1>5 DEF TryPopChunk
  <2>3. Cared'
      BY <1>0, <1>5, <2>2, CaredMove DEF Carers
  <2>4. QED
      BY <2>1, <2>3 DEF QueueIInv, Guarded, Cared, NoLostWakeup, Locked, Carers
<1>6. CASE ProcessChunk(t)
  <2>1. QueueTypeOK' /\ Guarded'
      BY <1>0, <1>6 DEF ProcessChunk, Go, QueueTypeOK, Guarded, Places, Locked
  <2>2. /\ Go(t, "process", "start") \/ Go(t, "process", "end")
        /\ data_queue' = data_queue
      BY <1>6 DEF ProcessChunk
  <2>3. Cared'
      BY <1>0, <2>2, CaredMove DEF Carers
  <2>4. QED
      BY <2>1, <2>3 DEF QueueIInv, Guarded, Cared, NoLostWakeup, Locked, Carers
<1>7. QED
    BY <1>1, <1>2, <1>3, <1>4, <1>5, <1>6 DEF Process

\* Types, the mutex and the chunks that somebody cares for.
THEOREM QueueInvariance == QueueSpec => []QueueIInv
<1>1. QueueIInv /\ [QueueNext]_queueVars => QueueIInv'
  <2> SUFFICES ASSUME QueueIInv, [QueueNext]_queueVars PROVE QueueIInv'
      OBVIOUS
  <2>1. CASE UNCHANGED queueVars
      BY <2>1 DEF queueVars, QueueIInv, QueueTypeOK, NoLostWakeup, From
  <2>2. CASE QueueNext
      BY <2>2, PrepareStep, ProcessStep DEF QueueNext
  <2>3. QED
      BY <2>1, <2>2
<1>2. QED
    BY <1>1, QueueInitIInv, PTL DEF QueueSpec

\* No thread sleeps over a chunk that nobody cares for.
THEOREM NoLostWakeupHolds == QueueSpec => []NoLostWakeup
<1>1. QueueIInv => NoLostWakeup
    BY DEF QueueIInv
<1>2. QED
    BY <1>1, QueueInvariance, PTL

-----------------------------------------------------------------------------
(* The bounded buffer *)

\* Where a producer has a slot it has not filled, and has filled one; and where a consumer
\* has an item it has not taken.
Puts == {"lock", "enter"}
Gone == {"unlock", "post"}
Claims == {"lock", "enter", "take"}

-----------------------------------------------------------------------------
(* Counting threads by their stages *)

\* How many of some threads are in some stages, while one of the threads goes on.
LEMMA AtMove ==
    ASSUME BufferAssumption, stage \in [Workers -> Stages],
           NEW t \in Workers, NEW from, NEW to, Continue(t, from, to),
           NEW S \in {producers, consumers}, NEW X
    PROVE  /\ Cardinality(At(S, X)) \in Nat
           /\ Cardinality(At(S, X)') = Cardinality(At(S, X))
                 + (IF t \in S /\ to \in X THEN 1 ELSE 0)
                 - (IF t \in S /\ from \in X THEN 1 ELSE 0)
<1> DEFINE A == At(S, X)
           B == At(S, X)'
<1>1. IsFiniteSet(S) /\ A \subseteq S /\ S \subseteq Workers
    BY DEF BufferAssumption, At, Workers
<1>2. IsFiniteSet(A)
    BY <1>1, FS_Subset
<1>3. A \ {t} = B \ {t}
    BY <1>1 DEF At, Continue
<1>4. /\ t \in A <=> t \in S /\ from \in X
      /\ t \in B <=> t \in S /\ to \in X
    BY <1>1 DEF At, Continue
<1>5. In(t, A) = (IF t \in S /\ from \in X THEN 1 ELSE 0)
    BY <1>4 DEF In
<1>6. In(t, B) = (IF t \in S /\ to \in X THEN 1 ELSE 0)
    BY <1>4 DEF In
<1> HIDE DEF A, B
<1>7. /\ Cardinality(A) \in Nat
      /\ Cardinality(B) = Cardinality(A) + In(t, B) - In(t, A)
    BY <1>2, <1>3, CountMove
<1>8. QED
    BY <1>5, <1>6, <1>7 DEF A, B

\* A thread in one of the stages is counted.
LEMMA AtLeastOne ==
    ASSUME BufferAssumption, NEW S \in {producers, consumers}, NEW X,
           NEW t \in S, stage[t] \in X
    PROVE  Cardinality(At(S, X)) \in Nat /\ Cardinality(At(S, X)) >= 1
<1>1. IsFiniteSet(At(S, X)) /\ t \in At(S, X)
    BY FS_Subset DEF BufferAssumption, At
<1>2. /\ Cardinality(At(S, X)) \in Nat
      /\ Cardinality(At(S, X) \ {t}) = Cardinality(At(S, X)) - 1
      /\ Cardinality(At(S, X) \ {t}) \in Nat
    BY <1>1, FS_CardinalityType, FS_RemoveElement, FS_Subset
<1>3. QED
    BY <1>2

\* Nobody is in any of the stages: there are none.
LEMMA AtNone ==
    ASSUME NEW S, NEW X, At(S, X) = {}
    PROVE  Cardinality(At(S, X)) = 0
BY FS_EmptySet

-----------------------------------------------------------------------------
(* The invariant *)

\* A run starts with every slot empty.
LEMMA BufferInitIInv == BufferInit => BufferIInv
<1> SUFFICES ASSUME BufferInit PROVE BufferIInv
    OBVIOUS
<1>1. BufferTypeOK
    BY BufferAssumption DEF BufferAssumption, BufferInit, BufferTypeOK, Stages
<1>2. /\ At(producers, {"lock", "enter"}) = {} /\ At(producers, {"unlock", "post"}) = {}
      /\ At(consumers, {"lock", "enter", "take"}) = {} /\ At(consumers, {"unlock", "post"}) = {}
      /\ At(producers, {"take"}) = {}
    BY DEF BufferInit, At, Workers
<1>3. QED
    BY <1>1, <1>2, AtNone, BufferAssumption DEF BufferInit, BufferIInv, BufferAssumption, Workers

\* Slots that are reserved, items stored but not posted, items claimed, slots freed but not posted.
Reserved == Cardinality(At(producers, Puts))
Stored == Cardinality(At(producers, Gone))
Claimed == Cardinality(At(consumers, Claims))
Freed == Cardinality(At(consumers, Gone))

\* By how much the count of those in X changes when one of them goes on.
Change(from, to, X) == (IF to \in X THEN 1 ELSE 0) - (IF from \in X THEN 1 ELSE 0)

\* The four counts while a thread goes on.
LEMMA Counts ==
    ASSUME BufferIInv, NEW t \in Workers, NEW from, NEW to, Continue(t, from, to)
    PROVE  /\ Reserved \in Nat /\ Stored \in Nat /\ Claimed \in Nat /\ Freed \in Nat
           /\ t \in producers =>
                 /\ Reserved' = Reserved + Change(from, to, Puts)
                 /\ Stored' = Stored + Change(from, to, Gone)
                 /\ Claimed' = Claimed /\ Freed' = Freed
           /\ t \in consumers =>
                 /\ Reserved' = Reserved /\ Stored' = Stored
                 /\ Claimed' = Claimed + Change(from, to, Claims)
                 /\ Freed' = Freed + Change(from, to, Gone)
<1>1. stage \in [Workers -> Stages]
    BY DEF BufferIInv, BufferTypeOK
<1>2. producers \cap consumers = {}
    BY BufferAssumption DEF BufferAssumption
<1> DEFINE Gain(S, X) == IF t \in S /\ to \in X THEN 1 ELSE 0
           Loss(S, X) == IF t \in S /\ from \in X THEN 1 ELSE 0
<1>3. Reserved \in Nat /\ Reserved' = Reserved + Gain(producers, Puts) - Loss(producers, Puts)
    BY <1>1, BufferAssumption, AtMove DEF Reserved
<1>4. Stored \in Nat /\ Stored' = Stored + Gain(producers, Gone) - Loss(producers, Gone)
    BY <1>1, BufferAssumption, AtMove DEF Stored
<1>5. Claimed \in Nat /\ Claimed' = Claimed + Gain(consumers, Claims) - Loss(consumers, Claims)
    BY <1>1, BufferAssumption, AtMove DEF Claimed
<1>6. Freed \in Nat /\ Freed' = Freed + Gain(consumers, Gone) - Loss(consumers, Gone)
    BY <1>1, BufferAssumption, AtMove DEF Freed
<1>7. QED
    BY <1>2, <1>3, <1>4, <1>5, <1>6 DEF Change

Slots == empty_slots + Reserved + Len(buffer) + Freed
Filled == filled_slots + Stored + Claimed

\* The invariant in these terms.
LEMMA Named ==
    BufferIInv <=>
        /\ BufferTypeOK
        /\ Slots = buffer_size
        /\ Filled = Len(buffer)
        /\ \A t \in Workers : stage[t] \in {"enter", "take", "unlock"} => buffer_mutex = {t}
        /\ At(producers, {"take"}) = {}
BY DEF BufferIInv, Slots, Filled, Reserved, Stored, Claimed, Freed, Puts, Gone, Claims

\* A step keeps the invariant if it keeps the types and both accounts and the thread works on
\* the buffer only with the mutex.
LEMMA GuardedStep ==
    ASSUME BufferIInv, NEW t \in Workers, NEW from, NEW to, Continue(t, from, to),
           BufferTypeOK', Slots' = Slots, Filled' - Len(buffer') = Filled - Len(buffer),
           \/ buffer_mutex' = buffer_mutex
              /\ (to \in {"enter", "take", "unlock"} => from \in {"enter", "take", "unlock"})
           \/ buffer_mutex = {} /\ buffer_mutex' = {t}
           \/ from = "unlock" /\ to = "post",
           t \in producers => to # "take",
           Filled' \in Int
    PROVE  BufferIInv'
<1>1. stage \in [Workers -> Stages] /\ stage' = [stage EXCEPT ![t] = to] /\ stage[t] = from
    BY DEF BufferIInv, BufferTypeOK, Continue
<1>2. /\ \A u \in Workers : stage[u] \in {"enter", "take", "unlock"} => buffer_mutex = {u}
      /\ \A u \in producers : u \in Workers /\ stage[u] # "take"
    BY DEF BufferIInv, At, Workers
<1>3. \A u \in Workers : {u} # {} /\ (u # t => {u} # {t})
    OBVIOUS
<1>4. \A u \in Workers : stage'[u] \in {"enter", "take", "unlock"} => buffer_mutex' = {u}
    BY <1>1, <1>2, <1>3
<1>5. At(producers, {"take"})' = {}
    BY <1>1, <1>2 DEF At
<1>6. Slots = buffer_size /\ Filled = Len(buffer) /\ Len(buffer) \in Nat
    BY Named DEF BufferTypeOK
<1>7. Len(buffer') \in Nat
    BY DEF BufferTypeOK
<1>8. Slots' = buffer_size /\ Filled' = Len(buffer')
    BY <1>6, <1>7
<1>9. QED
    BY <1>4, <1>5, <1>8
       DEF BufferIInv, Slots, Filled, Reserved, Stored, Claimed, Freed, Puts, Gone, Claims

\* Every step of a thread keeps the invariant.
LEMMA WorkStep ==
    ASSUME BufferIInv, NEW t \in Workers,
           \/ t \in producers /\ Produce(t)
           \/ t \in consumers /\ Consume(t)
    PROVE  BufferIInv'
<1>0. /\ BufferTypeOK /\ Slots = buffer_size /\ Filled = Len(buffer) /\ buffer_size \in Nat
      /\ t \in producers \/ t \in consumers
      /\ ~(t \in producers /\ t \in consumers)
      /\ buffer \in Seq(Items) /\ Len(buffer) \in Nat
      /\ empty_slots \in Nat /\ filled_slots \in Nat
    BY Named, BufferAssumption DEF BufferAssumption, BufferTypeOK
<1>1. CASE t \in producers /\ WaitEmpty(t)
  <2>1. Continue(t, "wait", "lock")
      BY <1>1 DEF WaitEmpty
  <2>2. /\ Reserved \in Nat /\ Stored \in Nat /\ Claimed \in Nat /\ Freed \in Nat
        /\ Reserved' = Reserved + 1 /\ Stored' = Stored
        /\ Claimed' = Claimed /\ Freed' = Freed
      BY <1>0, <1>1, <2>1, Counts DEF Change, Puts, Gone, Claims
  <2>3. /\ empty_slots' = empty_slots - 1 /\ filled_slots' = filled_slots
        /\ Len(buffer') = Len(buffer) /\ buffer' \in Seq(Items)
      BY <1>0, <1>1 DEF WaitEmpty, BufferTypeOK
  <2>4. BufferTypeOK'
      BY <1>0, <1>1, <2>1, <2>3 DEF WaitEmpty, Continue, Stages, BufferTypeOK
  <2>5. Slots' = Slots /\ Filled' - Len(buffer') = Filled - Len(buffer) /\ Filled' \in Int
      BY <1>0, <2>2, <2>3 DEF Slots, Filled
  <2>6. QED
      BY <1>0, <1>1, <2>1, <2>4, <2>5, GuardedStep DEF WaitEmpty
<1>2. CASE t \in consumers /\ WaitFilled(t)
  <2>1. Continue(t, "wait", "lock")
      BY <1>2 DEF WaitFilled
  <2>2. /\ Reserved \in Nat /\ Stored \in Nat /\ Claimed \in Nat /\ Freed \in Nat
        /\ Reserved' = Reserved /\ Stored' = Stored
        /\ Claimed' = Claimed + 1 /\ Freed' = Freed
      BY <1>0, <1>2, <2>1, Counts DEF Change, Puts, Gone, Claims
  <2>3. /\ empty_slots' = empty_slots /\ filled_slots' = filled_slots - 1
        /\ Len(buffer') = Len(buffer) /\ buffer' \in Seq(Items)
      BY <1>0, <1>2 DEF WaitFilled, BufferTypeOK
  <2>4. BufferTypeOK'
      BY <1>0, <1>2, <2>1, <2>3 DEF WaitFilled, Continue, Stages, BufferTypeOK
  <2>5. Slots' = Slots /\ Filled' - Len(buffer') = Filled - Len(buffer) /\ Filled' \in Int
      BY <1>0, <2>2, <2>3 DEF Slots, Filled
  <2>6. QED
      BY <1>0, <1>2, <2>1, <2>4, <2>5, GuardedStep DEF WaitFilled
<1>3. CASE t \in producers /\ LockBuffer(t)
  <2>1. Continue(t, "lock", "enter")
      BY <1>3 DEF LockBuffer
  <2>2. /\ Reserved \in Nat /\ Stored \in Nat /\ Claimed \in Nat /\ Freed \in Nat
        /\ Reserved' = Reserved /\ Stored' = Stored
        /\ Claimed' = Claimed /\ Freed' = Freed
      BY <1>0, <1>3, <2>1, Counts DEF Change, Puts, Gone, Claims
  <2>3. /\ empty_slots' = empty_slots /\ filled_slots' = filled_slots
        /\ Len(buffer') = Len(buffer) /\ buffer' \in Seq(Items)
      BY <1>0, <1>3 DEF LockBuffer, BufferTypeOK
  <2>4. BufferTypeOK'
      BY <1>0, <1>3, <2>1, <2>3 DEF LockBuffer, Continue, Stages, BufferTypeOK
  <2>5. Slots' = Slots /\ Filled' - Len(buffer') = Filled - Len(buffer) /\ Filled' \in Int
      BY <1>0, <2>2, <2>3 DEF Slots, Filled
  <2>6. QED
      BY <1>0, <1>3, <2>1, <2>4, <2>5, GuardedStep DEF LockBuffer
<1>4. CASE t \in consumers /\ LockBuffer(t)
  <2>1. Continue(t, "lock", "enter")
      BY <1>4 DEF LockBuffer
  <2>2. /\ Reserved \in Nat /\ Stored \in Nat /\ Claimed \in Nat /\ Freed \in Nat
        /\ Reserved' = Reserved /\ Stored' = Stored
        /\ Claimed' = Claimed /\ Freed' = Freed
      BY <1>0, <1>4, <2>1, Counts DEF Change, Puts, Gone, Claims
  <2>3. /\ empty_slots' = empty_slots /\ filled_slots' = filled_slots
        /\ Len(buffer') = Len(buffer) /\ buffer' \in Seq(Items)
      BY <1>0, <1>4 DEF LockBuffer, BufferTypeOK
  <2>4. BufferTypeOK'
      BY <1>0, <1>4, <2>1, <2>3 DEF LockBuffer, Continue, Stages, BufferTypeOK
  <2>5. Slots' = Slots /\ Filled' - Len(buffer') = Filled - Len(buffer) /\ Filled' \in Int
      BY <1>0, <2>2, <2>3 DEF Slots, Filled
  <2>6. QED
      BY <1>0, <1>4, <2>1, <2>4, <2>5, GuardedStep DEF LockBuffer
<1>5. CASE t \in producers /\ PushBack(t)
  <2>1. Continue(t, "enter", "unlock")
      BY <1>5 DEF PushBack
  <2>2. /\ Reserved \in Nat /\ Stored \in Nat /\ Claimed \in Nat /\ Freed \in Nat
        /\ Reserved' = Reserved - 1 /\ Stored' = Stored + 1
        /\ Claimed' = Claimed /\ Freed' = Freed
      BY <1>0, <1>5, <2>1, Counts DEF Change, Puts, Gone, Claims
  <2>3. /\ empty_slots' = empty_slots /\ filled_slots' = filled_slots
        /\ Len(buffer') = Len(buffer) + 1 /\ buffer' \in Seq(Items)
      BY <1>0, <1>5 DEF PushBack, BufferTypeOK
  <2>4. BufferTypeOK'
      BY <1>0, <1>5, <2>1, <2>3 DEF PushBack, Continue, Stages, BufferTypeOK
  <2>5. Slots' = Slots /\ Filled' - Len(buffer') = Filled - Len(buffer) /\ Filled' \in Int
      BY <1>0, <2>2, <2>3 DEF Slots, Filled
  <2>6. QED
      BY <1>0, <1>5, <2>1, <2>4, <2>5, GuardedStep DEF PushBack
<1>6. CASE t \in consumers /\ ReadBack(t)
  <2>1. Continue(t, "enter", "take")
      BY <1>6 DEF ReadBack
  <2>2. /\ Reserved \in Nat /\ Stored \in Nat /\ Claimed \in Nat /\ Freed \in Nat
        /\ Reserved' = Reserved /\ Stored' = Stored
        /\ Claimed' = Claimed /\ Freed' = Freed
      BY <1>0, <1>6, <2>1, Counts DEF Change, Puts, Gone, Claims
  <2>3. /\ empty_slots' = empty_slots /\ filled_slots' = filled_slots
        /\ Len(buffer') = Len(buffer) /\ buffer' \in Seq(Items)
      BY <1>0, <1>6 DEF ReadBack, BufferTypeOK
  <2>4. BufferTypeOK'
      BY <1>0, <1>6, <2>1, <2>3 DEF ReadBack, Continue, Stages, BufferTypeOK
  <2>5. Slots' = Slots /\ Filled' - Len(buffer') = Filled - Len(buffer) /\ Filled' \in Int
      BY <1>0, <2>2, <2>3 DEF Slots, Filled
  <2>6. QED
      BY <1>0, <1>6, <2>1, <2>4, <2>5, GuardedStep DEF ReadBack
<1>7. CASE t \in consumers /\ PopBack(t)
  <2>1. Continue(t, "take", "unlock")
      BY <1>7 DEF PopBack
  <2>2. /\ Reserved \in Nat /\ Stored \in Nat /\ Claimed \in Nat /\ Freed \in Nat
        /\ Reserved' = Reserved /\ Stored' = Stored
        /\ Claimed' = Claimed - 1 /\ Freed' = Freed + 1
      BY <1>0, <1>7, <2>1, Counts DEF Change, Puts, Gone, Claims
  <2>3. Claimed >= 1
      BY <1>7, <2>1, AtLeastOne, BufferAssumption DEF Claimed, Claims, Continue
  <2>4. Len(buffer) >= 1
      BY <1>0, <2>2, <2>3 DEF Filled
  <2>5. /\ empty_slots' = empty_slots /\ filled_slots' = filled_slots
        /\ Len(buffer') = Len(buffer) - 1 /\ buffer' \in Seq(Items)
      BY <1>0, <1>7, <2>4 DEF PopBack, BufferTypeOK
  <2>6. BufferTypeOK'
      BY <1>0, <1>7, <2>1, <2>5 DEF PopBack, Continue, Stages, BufferTypeOK
  <2>7. Slots' = Slots /\ Filled' - Len(buffer') = Filled - Len(buffer) /\ Filled' \in Int
      BY <1>0, <2>2, <2>5 DEF Slots, Filled
  <2>8. QED
      BY <1>0, <1>7, <2>1, <2>6, <2>7, GuardedStep DEF PopBack
<1>8. CASE t \in producers /\ UnlockBuffer(t)
  <2>1. Continue(t, "unlock", "post")
      BY <1>8 DEF UnlockBuffer
  <2>2. /\ Reserved \in Nat /\ Stored \in Nat /\ Claimed \in Nat /\ Freed \in Nat
        /\ Reserved' = Reserved /\ Stored' = Stored
        /\ Claimed' = Claimed /\ Freed' = Freed
      BY <1>0, <1>8, <2>1, Counts DEF Change, Puts, Gone, Claims
  <2>3. /\ empty_slots' = empty_slots /\ filled_slots' = filled_slots
        /\ Len(buffer') = Len(buffer) /\ buffer' \in Seq(Items)
      BY <1>0, <1>8 DEF UnlockBuffer, BufferTypeOK
  <2>4. BufferTypeOK'
      BY <1>0, <1>8, <2>1, <2>3 DEF UnlockBuffer, Continue, Stages, BufferTypeOK
  <2>5. Slots' = Slots /\ Filled' - Len(buffer') = Filled - Len(buffer) /\ Filled' \in Int
      BY <1>0, <2>2, <2>3 DEF Slots, Filled
  <2>6. QED
      BY <1>0, <1>8, <2>1, <2>4, <2>5, GuardedStep DEF UnlockBuffer
<1>9. CASE t \in consumers /\ UnlockBuffer(t)
  <2>1. Continue(t, "unlock", "post")
      BY <1>9 DEF UnlockBuffer
  <2>2. /\ Reserved \in Nat /\ Stored \in Nat /\ Claimed \in Nat /\ Freed \in Nat
        /\ Reserved' = Reserved /\ Stored' = Stored
        /\ Claimed' = Claimed /\ Freed' = Freed
      BY <1>0, <1>9, <2>1, Counts DEF Change, Puts, Gone, Claims
  <2>3. /\ empty_slots' = empty_slots /\ filled_slots' = filled_slots
        /\ Len(buffer') = Len(buffer) /\ buffer' \in Seq(Items)
      BY <1>0, <1>9 DEF UnlockBuffer, BufferTypeOK
  <2>4. BufferTypeOK'
      BY <1>0, <1>9, <2>1, <2>3 DEF UnlockBuffer, Continue, Stages, BufferTypeOK
  <2>5. Slots' = Slots /\ Filled' - Len(buffer') = Filled - Len(buffer) /\ Filled' \in Int
      BY <1>0, <2>2, <2>3 DEF Slots, Filled
  <2>6. QED
      BY <1>0, <1>9, <2>1, <2>4, <2>5, GuardedStep DEF UnlockBuffer
<1>10. CASE t \in producers /\ PostFilled(t)
  <2> DEFINE to == IF round[t] + 1 < Rounds THEN "wait" ELSE "exit"
  <2>1. Continue(t, "post", to) /\ to \in {"wait", "exit"}
      BY <1>10 DEF PostFilled, EndRound
  <2> HIDE DEF to
  <2>2. /\ Reserved \in Nat /\ Stored \in Nat /\ Claimed \in Nat /\ Freed \in Nat
        /\ Reserved' = Reserved /\ Stored' = Stored - 1
        /\ Claimed' = Claimed /\ Freed' = Freed
      BY <1>0, <1>10, <2>1, Counts DEF Change, Puts, Gone, Claims
  <2>3. /\ empty_slots' = empty_slots /\ filled_slots' = filled_slots + 1
        /\ Len(buffer') = Len(buffer) /\ buffer' \in Seq(Items)
      BY <1>0, <1>10 DEF PostFilled, EndRound, BufferTypeOK
  <2>4. BufferTypeOK'
      BY <1>0, <1>10, <2>1, <2>3 DEF PostFilled, EndRound, Continue, Stages, BufferTypeOK
  <2>5. Slots' = Slots /\ Filled' - Len(buffer') = Filled - Len(buffer) /\ Filled' \in Int
      BY <1>0, <2>2, <2>3 DEF Slots, Filled
  <2>6. QED
      BY <1>0, <1>10, <2>1, <2>4, <2>5, GuardedStep DEF PostFilled, EndRound
<1>11. CASE t \in consumers /\ PostEmpty(t)
  <2> DEFINE to == IF round[t] + 1 < Rounds THEN "wait" ELSE "exit"
  <2>1. Continue(t, "post", to) /\ to \in {"wait", "exit"}
      BY <1>11 DEF PostEmpty, EndRound
  <2> HIDE DEF to
  <2>2. /\ Reserved \in Nat /\ Stored \in Nat /\ Claimed \in Nat /\ Freed \in Nat
        /\ Reserved' = Reserved /\ Stored' = Stored
        /\ Claimed' = Claimed /\ Freed' = Freed - 1
      BY <1>0, <1>11, <2>1, Counts DEF Change, Puts, Gone, Claims
  <2>3. /\ empty_slots' = empty_slots + 1 /\ filled_slots' = filled_slots
        /\ Len(buffer') = Len(buffer) /\ buffer' \in Seq(Items)
      BY <1>0, <1>11 DEF PostEmpty, EndRound, BufferTypeOK
  <2>4. BufferTypeOK'
      BY <1>0, <1>11, <2>1, <2>3 DEF PostEmpty, EndRound, Continue, Stages, BufferTypeOK
  <2>5. Slots' = Slots /\ Filled' - Len(buffer') = Filled - Len(buffer) /\ Filled' \in Int
      BY <1>0, <2>2, <2>3 DEF Slots, Filled
  <2>6. QED
      BY <1>0, <1>11, <2>1, <2>4, <2>5, GuardedStep DEF PostEmpty, EndRound
<1>12. QED
    BY <1>0, <1>1, <1>2, <1>3, <1>4, <1>5, <1>6, <1>7, <1>8, <1>9, <1>10, <1>11 DEF Produce, Consume

\* Every slot and every item is accounted for, and the mutex guards the buffer.
THEOREM BufferInvariance == BufferSpec => []BufferIInv
<1>1. BufferIInv /\ [BufferNext]_bufferVars => BufferIInv'
  <2> SUFFICES ASSUME BufferIInv, [BufferNext]_bufferVars PROVE BufferIInv'
      OBVIOUS
  <2>1. CASE UNCHANGED bufferVars
      BY <2>1 DEF bufferVars, BufferIInv, BufferTypeOK, At
  <2>2. CASE BufferNext
      BY <2>2, WorkStep DEF BufferNext, Workers
  <2>3. QED
      BY <2>1, <2>2
<1>2. QED
    BY <1>1, BufferInitIInv, PTL DEF BufferSpec

-----------------------------------------------------------------------------
(* The stack *)

Seen == IF At(consumers, {"take"}) = {} THEN buffer ELSE SubSeq(buffer, 1, Len(buffer) - 1)
Got == [t \in consumers |-> item[t]]

\* Who is to put an item finds room, and who is to take one finds the buffer filled.
LEMMA RoomAndItem ==
    ASSUME BufferIInv, NEW t \in Workers, stage[t] = "enter"
    PROVE  /\ At(consumers, {"take"}) = {}
           /\ t \in producers => Len(buffer) < buffer_size
           /\ t \in consumers => Len(buffer) > 0
<1>1. /\ BufferTypeOK /\ Slots = buffer_size /\ Filled = Len(buffer)
      /\ \A u \in Workers : stage[u] \in {"enter", "take", "unlock"} => buffer_mutex = {u}
    BY Named
<1>2. At(consumers, {"take"}) = {}
    BY <1>1 DEF At, Workers
<1>3. Reserved \in Nat /\ Stored \in Nat /\ Claimed \in Nat /\ Freed \in Nat
  <2>1. IsFiniteSet(producers) /\ IsFiniteSet(consumers)
      BY BufferAssumption DEF BufferAssumption
  <2>2. /\ IsFiniteSet(At(producers, Puts)) /\ IsFiniteSet(At(producers, Gone))
        /\ IsFiniteSet(At(consumers, Claims)) /\ IsFiniteSet(At(consumers, Gone))
      BY <2>1, FS_Subset DEF At
  <2>3. QED
      BY <2>2, FS_CardinalityType DEF Reserved, Stored, Claimed, Freed
<1>4. t \in producers => Reserved >= 1
    BY BufferAssumption, AtLeastOne DEF Reserved, Puts
<1>5. t \in consumers => Claimed >= 1
    BY BufferAssumption, AtLeastOne DEF Claimed, Claims
<1>6. empty_slots \in Nat /\ filled_slots \in Nat /\ Len(buffer) \in Nat
    BY <1>1 DEF BufferTypeOK
<1>7. QED
    BY <1>1, <1>2, <1>3, <1>4, <1>5, <1>6 DEF Slots, Filled

\* A step of the threads is one of the stack, or none.
LEMMA StackStep ==
    ASSUME BufferIInv, NEW t \in Workers,
           \/ t \in producers /\ Produce(t)
           \/ t \in consumers /\ Consume(t)
    PROVE  StackView!StackNext \/ (Seen' = Seen /\ Got' = Got)
<1>0. /\ BufferTypeOK
      /\ \A u \in Workers : stage[u] \in {"enter", "take", "unlock"} => buffer_mutex = {u}
      /\ At(producers, {"take"}) = {}
      /\ buffer \in Seq(Items) /\ item \in [Workers -> Items]
      /\ stage \in [Workers -> Stages]
      /\ producers \cap consumers = {}
    BY BufferAssumption DEF BufferIInv, BufferTypeOK, BufferAssumption
<1>1. ASSUME NEW from, NEW to, Continue(t, from, to), from # "take", to # "take",
             UNCHANGED buffer, \A u \in consumers : item'[u] = item[u]
      PROVE  Seen' = Seen /\ Got' = Got
  <2>1. At(consumers, {"take"})' = At(consumers, {"take"})
      BY <1>0, <1>1 DEF Continue, At, Workers
  <2>2. QED
      BY <1>1, <2>1 DEF Seen, Got
<1>2. CASE t \in producers /\ WaitEmpty(t)
    BY <1>0, <1>1, <1>2 DEF WaitEmpty, Workers
<1>3. CASE t \in consumers /\ WaitFilled(t)
    BY <1>1, <1>3 DEF WaitFilled
<1>4. CASE LockBuffer(t)
    BY <1>1, <1>4 DEF LockBuffer
<1>5. CASE t \in producers /\ PushBack(t)
  <2>1. At(consumers, {"take"}) = {} /\ Len(buffer) < buffer_size
      BY <1>5, RoomAndItem DEF PushBack, Continue
  <2>2. At(consumers, {"take"})' = {}
      BY <1>0, <1>5, <2>1 DEF PushBack, Continue, At
  <2>3. Seen = buffer /\ Seen' = Append(buffer, item[t]) /\ item[t] \in Items /\ Got' = Got
      BY <1>0, <1>5, <2>1, <2>2 DEF PushBack, Seen, Got
  <2>4. QED
      BY <2>1, <2>3 DEF StackView!StackNext, StackView!PushItem, Seen, Got
<1>6. CASE t \in consumers /\ ReadBack(t)
  <2>1. At(consumers, {"take"}) = {} /\ Len(buffer) > 0 /\ buffer # <<>>
      BY <1>0, <1>6, RoomAndItem DEF ReadBack, Continue
  <2>2. t \in At(consumers, {"take"})'
      BY <1>0, <1>6 DEF ReadBack, Continue, At
  <2>3. item' = [item EXCEPT ![t] = buffer[Len(buffer)]]
      BY <1>6, <2>1 DEF ReadBack
  <2>4. /\ Seen = buffer /\ Seen' = SubSeq(buffer, 1, Len(buffer) - 1)
        /\ Got' = [Got EXCEPT ![t] = buffer[Len(buffer)]]
      BY <1>0, <1>6, <2>1, <2>2, <2>3 DEF ReadBack, Seen, Got, Workers
  <2>5. /\ Seen # <<>> /\ Seen' = SubSeq(Seen, 1, Len(Seen) - 1)
        /\ Got' = [Got EXCEPT ![t] = Seen[Len(Seen)]]
      BY <2>1, <2>4
  <2>6. StackView!PopItem(t)
      BY <2>5, Zenon DEF StackView!PopItem, Seen, Got
  <2>7. QED
      BY <1>6, <2>6, Zenon DEF StackView!StackNext
<1>7. CASE t \in consumers /\ PopBack(t)
  <2>1. t \in At(consumers, {"take"}) /\ buffer_mutex = {t}
      BY <1>0, <1>7 DEF PopBack, Continue, At
  <2>2. At(consumers, {"take"})' = {}
      BY <1>0, <1>7, <2>1 DEF PopBack, Continue, At, Workers
  <2>3. QED
      BY <1>7, <2>1, <2>2 DEF PopBack, Seen, Got
<1>8. CASE UnlockBuffer(t)
    BY <1>1, <1>8 DEF UnlockBuffer
<1>9. CASE \/ t \in producers /\ PostFilled(t)
           \/ t \in consumers /\ PostEmpty(t)
    BY <1>1, <1>9 DEF PostFilled, PostEmpty, EndRound
<1>10. QED
    BY <1>2, <1>3, <1>4, <1>5, <1>6, <1>7, <1>8, <1>9 DEF Produce, Consume

\* The buffer, its semaphores and its mutex implement the bounded stack: what a consumer
\* reads is taken from the stack at once, though pop_back follows.
THEOREM StackRefinement == BufferSpec => ImplementsBoundedStack
<1>1. BufferInit => StackView!StackInit
  <2> SUFFICES ASSUME BufferInit PROVE StackView!StackInit
      OBVIOUS
  <2>1. At(consumers, {"take"}) = {} /\ consumers \subseteq Workers
      BY DEF BufferInit, At, Workers
  <2>2. QED
      BY <2>1 DEF BufferInit, StackView!StackInit
<1>2. BufferIInv /\ [BufferNext]_bufferVars =>
          [StackView!StackNext]_<<Seen, Got>>
  <2> SUFFICES ASSUME BufferIInv, [BufferNext]_bufferVars
               PROVE  StackView!StackNext \/ (Seen' = Seen /\ Got' = Got)
      OBVIOUS
  <2>1. CASE UNCHANGED bufferVars
      BY <2>1 DEF bufferVars, Seen, Got, At
  <2>2. CASE BufferNext
      BY <2>2, StackStep DEF BufferNext, Workers
  <2>3. QED
      BY <2>1, <2>2
<1>3. QED
    BY <1>1, <1>2, BufferInvariance, PTL
       DEF BufferSpec, ImplementsBoundedStack, StackView!StackSpec, Seen, Got
=============================================================================
