----------------------- MODULE ConsumerProducerProofs -----------------------
(***************************************************************************)
(* Proofs about ConsumerProducer, for every number of children and         *)
(* messages, every capacity and every number of failures.                  *)
(***************************************************************************)
EXTENDS ConsumerProducer, Counting

\* Process numbers and counts are naturals.
LEMMA CountFacts ==
    /\ ChildProducerCount \in Nat /\ ChildConsumerCount \in Nat
    /\ ChildrenCount \in Nat /\ ChildrenCount >= 1
    /\ ProducerCount \in Nat /\ ConsumerCount \in Nat
    /\ MessageCount \in Nat /\ Capacity \in Nat /\ MaxFaults \in Nat
    /\ Parent \in Procs
    /\ Children \subseteq Procs /\ Parent \notin Children
    /\ Procs = Children \cup {Parent}
BY CountsAssumption
   DEF ChildrenCount, ProducerCount, ConsumerCount, Parent, Procs, Children

\* The group sizes and the initial values of the semaphores, spelled out.
LEMMA SemFacts ==
    /\ GroupSize["readiness"] = ChildrenCount
    /\ GroupSize["written"] = ConsumerCount
    /\ GroupSize["read"] = ProducerCount
    /\ GroupSize["producers"] = ProducerCount
    /\ GroupSize \in [Semaphores -> Nat]
    /\ InitValues = [s \in Semaphores |-> IF s = "read" THEN Capacity ELSE 0]
    /\ InitValues \in [Semaphores -> Nat]
    /\ {"readiness", "written", "read", "producers"} \subseteq Semaphores
BY CountFacts DEF GroupSize, InitValues, Semaphores

\* Every producer's messages are elements a slot can hold.
LEMMA MessageType ==
    ASSUME NEW p \in Producers, NEW n \in 0 .. (MessageCount - 1)
    PROVE  MessageOf(p, n) \in Messages
BY DEF Messages

-----------------------------------------------------------------------------
(* Type correctness *)

\* Where control may go.
LEMMA LabelFacts ==
    /\ \A p \in Procs : Failure(p) \in Labels /\ AfterRun(p) \in Labels
                        /\ RunLabel(p) \in Labels
    /\ \A n \in Nat : LoopLabel(n) \in Labels
    /\ \A n \in Nat : LoopLabel(n) \in {"push", "write_slot"} => n < MessageCount
    /\ \A p \in Procs : {Failure(p), AfterRun(p), RunLabel(p)}
                          \cap {"push", "write_slot"} = {}
BY CountFacts DEF Failure, AfterRun, RunLabel, LoopLabel, Labels, Exited

\* The ring's indices stay inside the array.
LEMMA SuccType == \A s \in Ring!Slots : Ring!Succ(s) \in Ring!Slots
BY CountFacts, CountsAssumption DEF Ring!Slots, Ring!Succ

TypeInv == TypeOK /\ LoopBound

\* The state main.cpp starts the parent in has the right types.
LEMMA InitTypeInv == Init => TypeInv
<1> SUFFICES ASSUME Init PROVE TypeInv
    OBVIOUS
<1>1. Notifier!SemTypeOK
  <2>1. sem \in [Semaphores -> Nat] /\ faults \in 0 .. MaxFaults
    BY SemFacts, CountFacts DEF Init, Notifier!SemInit
  <2>2. removed \in BOOLEAN
    BY DEF Init, Notifier!SemInit
  <2>3. QED
    BY <2>1, <2>2 DEF Notifier!SemTypeOK
<1>2. Ring!RingTypeOK
    BY CountFacts, CountsAssumption
       DEF Init, Ring!RingInit, Ring!RingTypeOK, Ring!Slots, Ring!Elements, Ring!NoSlot
<1>3. pc \in [Procs -> Labels] /\ LoopBound
    BY CountFacts DEF Init, Labels, Exited, LoopBound
<1>4. done_flag \in BOOLEAN
    BY DEF Init
<1>5. QED
    BY <1>1, <1>2, <1>3, <1>4, CountFacts
       DEF Init, TypeInv, TypeOK, Ring!Elements

\* A step that only touches the semaphore set.
LEMMA OnlySemType ==
    ASSUME TypeInv, OnlySem, Notifier!SemTypeOK', NEW p \in Procs,
           NEW from, NEW to \in Labels, Goto(p, from, to),
           to \in {"push", "write_slot"} => i[p] < MessageCount
    PROVE  TypeInv'
BY DEF TypeInv, TypeOK, LoopBound, OnlySem, localVars, countVars, ringVars, Goto,
       Ring!RingTypeOK, Ring!Elements

\* The operations of the semaphore set keep its type.
LEMMA SemType ==
    ASSUME Notifier!SemTypeOK, NEW s \in Semaphores
    PROVE  /\ Notifier!NotifyOne(s) => Notifier!SemTypeOK'
           /\ Notifier!NotifyAll(s) => Notifier!SemTypeOK'
           /\ Notifier!WaitForOne(s) => Notifier!SemTypeOK'
           /\ Notifier!WaitForAll(s) => Notifier!SemTypeOK'
           /\ Notifier!WaitTillNone(s) => Notifier!SemTypeOK'
           /\ Notifier!CallFails => Notifier!SemTypeOK'
           /\ Notifier!Remove => Notifier!SemTypeOK'
<1> USE SemFacts, CountFacts DEF Notifier!SemTypeOK
<1>1. ASSUME NEW n \in Nat, Notifier!IncreaseValue(s, n)
      PROVE  Notifier!SemTypeOK'
    BY <1>1 DEF Notifier!IncreaseValue
<1>2. ASSUME NEW n \in Nat, Notifier!DecreaseValue(s, n)
      PROVE  Notifier!SemTypeOK'
    BY <1>2 DEF Notifier!DecreaseValue
<1>3. ASSUME Notifier!WaitForZero(s) PROVE Notifier!SemTypeOK'
    BY <1>3 DEF Notifier!WaitForZero, Notifier!semVars
<1>4. ASSUME Notifier!CallFails PROVE Notifier!SemTypeOK'
    BY <1>4 DEF Notifier!CallFails
<1>5. ASSUME Notifier!Remove PROVE Notifier!SemTypeOK'
    BY <1>5 DEF Notifier!Remove
<1>6. GroupSize[s] \in Nat
    OBVIOUS
<1>7. QED
    BY <1>1, <1>2, <1>3, <1>4, <1>5, <1>6
       DEF Notifier!NotifyOne, Notifier!NotifyAll, Notifier!WaitForOne,
           Notifier!WaitForAll, Notifier!WaitTillNone

\* The error branch of any semaphore operation.
LEMMA SemopFailsType ==
    ASSUME TypeInv, NEW p \in Procs, NEW from, NEW to \in Labels,
           to \notin {"push", "write_slot"}, SemopFails(p, from, to)
    PROVE  TypeInv'
<1>1. Notifier!SemTypeOK'
    BY SemType, SemFacts DEF SemopFails, TypeInv, TypeOK
<1>2. QED
    BY <1>1, OnlySemType DEF SemopFails

\* Every other step on the semaphore set alone.
LEMMA SemopType ==
    ASSUME TypeInv, NEW p \in Procs, NEW from, NEW to \in Labels,
           to \in {"push", "write_slot"} => i[p] < MessageCount,
           Goto(p, from, to), OnlySem, NEW s \in Semaphores,
           \/ Notifier!NotifyOne(s) \/ Notifier!NotifyAll(s)
           \/ Notifier!WaitForOne(s) \/ Notifier!WaitForAll(s)
           \/ Notifier!WaitTillNone(s) \/ Notifier!Remove
    PROVE  TypeInv'
<1>1. Notifier!SemTypeOK'
    BY SemType DEF TypeInv, TypeOK
<1>2. QED
    BY <1>1, OnlySemType

\* The labels a parent step goes to.
LEMMA ParentLabels ==
    {"start_production", "await_start", "wait_consumed", "load_consumed",
     "wait_children", "exit_failure", "exit_success", "succeeded", "failed",
     "assert_counts", "store_done", "aborted", "notify_stop", "attach",
     "wait_ready"} \subseteq Labels
BY DEF Labels, Exited

\* Every step of the parent, its error branches included, keeps the types.
LEMMA ParentType ==
    ASSUME TypeInv, ParentStep
    PROVE  TypeInv'
<1> USE CountFacts, SemFacts, ParentLabels
<1>1. CASE CreateProcess
    BY <1>1 DEF CreateProcess, TypeInv, TypeOK, LoopBound, semVars, localVars,
       countVars, ringVars, Ring!RingTypeOK, Ring!Elements, Notifier!SemTypeOK,
       Children, ChildrenCount
<1>2. CASE CreateProcessFails
    BY <1>2 DEF CreateProcessFails, TypeInv, TypeOK, LoopBound, localVars,
       countVars, ringVars, Ring!RingTypeOK, Ring!Elements, Notifier!SemTypeOK,
       ChildrenCount
<1>3. CASE CheckCreated \/ AssertCounts \/ WaitTillAllChildrenTerminate
    BY <1>3 DEF CheckCreated, AssertCounts, WaitTillAllChildrenTerminate, TypeInv,
       TypeOK, LoopBound, Goto, semVars, localVars, countVars, ringVars,
       Ring!RingTypeOK, Ring!Elements, Notifier!SemTypeOK
<1>4. CASE WaitTillAllChildrenReady
    BY <1>4, SemopType DEF WaitTillAllChildrenReady
<1>5. CASE StartProduction
    BY <1>5, SemopType DEF StartProduction
<1>6. CASE SetupParentFails
    BY <1>6, SemopFailsType DEF SetupParentFails
<1>7. CASE WaitTillProductionComplete
    BY <1>7, SemopType DEF WaitTillProductionComplete
<1>8. CASE WaitTillAllMessagesConsumed
    BY <1>8, SemopType DEF WaitTillAllMessagesConsumed
<1>9. CASE FinalWaitFails
    BY <1>9, SemopFailsType DEF FinalWaitFails
<1>10. CASE LoadConsumed
    BY <1>10 DEF LoadConsumed, TypeInv, TypeOK, LoopBound, Goto, semVars,
       countVars, ringVars, Ring!RingTypeOK, Ring!Elements, Notifier!SemTypeOK
<1>11. CASE StoreDone
    BY <1>11 DEF StoreDone, TypeInv, TypeOK, LoopBound, Goto, semVars, localVars,
       countVars, ringVars, Ring!RingTypeOK, Ring!Elements, Notifier!SemTypeOK
<1>12. CASE NotifyStop
    BY <1>12, SemopType DEF NotifyStop
<1>13. CASE StopFails
    BY <1>13, SemopFailsType DEF StopFails
<1>14. CASE LeaveMain
    BY <1>14, SemopType DEF LeaveMain
<1>15. QED
    BY <1>1, <1>2, <1>3, <1>4, <1>5, <1>6, <1>7, <1>8, <1>9, <1>10, <1>11, <1>12,
       <1>13, <1>14 DEF ParentStep

\* The labels producers and consumers move to are labels.
LEMMA ProcLabels ==
    {"wait_ready", "signal_readiness", "failed", "push", "write_slot",
     "count_produced", "notify_written", "wait_read", "notify_completion",
     "wait_message", "check_done", "check_done_failed", "pop", "read_slot",
     "count_consumed", "notify_read", "succeeded"} \subseteq Labels
BY DEF Labels, Exited

\* Every step of a producer keeps the types and stays inside its loop bound.
LEMMA ProducerType ==
    ASSUME TypeInv, NEW p \in Procs, IsProducer(p), ProducerStep(p)
    PROVE  TypeInv'
<1> USE LabelFacts, CountFacts, SemFacts, ProcLabels
<1>0. i[p] \in Nat /\ Ring!RingTypeOK /\ i \in [Procs -> Nat]
    BY DEF TypeInv, TypeOK
<1>1. CASE AwaitStart(p)
    BY <1>0, <1>1, SemopType DEF AwaitStart
<1>2. CASE AwaitStartFails(p)
    BY <1>2, SemopFailsType DEF AwaitStartFails
<1>3. CASE PushReserve(p)
  <2>1. Ring!RingTypeOK'
    BY <1>0, <1>3, SuccType
       DEF PushReserve, Ring!ReserveWrite, Ring!RingTypeOK, Ring!Elements
  <2>2. QED
    BY <1>3, <2>1 DEF PushReserve, TypeInv, TypeOK, LoopBound, Goto, semVars,
       localVars, countVars, Notifier!SemTypeOK, Ring!Elements
<1>4. CASE PushWrite(p)
  <2>1. MessageOf(p, i[p]) \in Messages
    BY <1>0, <1>4, MessageType DEF PushWrite, Goto, TypeInv, LoopBound, Producers
  <2>2. PICK element \in {MessageOf(p, i[p]), Torn} :
          data' = [data EXCEPT ![writing[p]] = element]
    BY <1>4 DEF PushWrite, Ring!WriteSlot
  <2>3. data' \in [Ring!Slots -> Ring!Elements]
    BY <1>0, <2>1, <2>2 DEF Ring!RingTypeOK, Ring!Elements
  <2>4. clashed' \in SUBSET Procs
    BY <1>0, <1>4 DEF PushWrite, Ring!WriteSlot, Ring!RingTypeOK, Ring!OtherWriters
  <2>5. Ring!RingTypeOK'
    BY <1>0, <1>4, <2>3, <2>4
       DEF PushWrite, Ring!WriteSlot, Ring!RingTypeOK, Ring!Elements
  <2>6. QED
    BY <1>4, <2>5 DEF PushWrite, TypeInv, TypeOK, LoopBound, Goto, semVars,
       localVars, countVars, Notifier!SemTypeOK, Ring!Elements
<1>5. CASE CountProduced(p)
    BY <1>5 DEF CountProduced, TypeInv, TypeOK, LoopBound, Goto, semVars,
       localVars, ringVars, Ring!RingTypeOK, Notifier!SemTypeOK, Ring!Elements
<1>6. CASE NotifyWritten(p)
    BY <1>6, SemopType DEF NotifyWritten
<1>7. CASE WaitRead(p)
  <2>1. Notifier!SemTypeOK'
    BY <1>7, SemType DEF WaitRead, TypeInv, TypeOK
  <2>2. QED
    BY <1>0, <1>7, <2>1 DEF WaitRead, TypeInv, TypeOK, LoopBound, Goto,
       countVars, ringVars, Ring!RingTypeOK, Ring!Elements
<1>8. CASE NotifyCompletion(p)
    BY <1>8, SemopType DEF NotifyCompletion
<1>9. CASE ProduceFails(p)
  <2>1. CASE CreateMessageFails(p)
    BY <1>0, <1>9, <2>1 DEF CreateMessageFails, OnlySem, TypeInv, TypeOK, LoopBound, Goto,
       Failure, Notifier!SemTypeOK, countVars, ringVars, localVars, Ring!RingTypeOK,
       Ring!Elements
  <2>2. QED
    BY <1>9, <2>1, SemopFailsType DEF ProduceFails
<1>10. QED
    BY <1>1, <1>2, <1>3, <1>4, <1>5, <1>6, <1>7, <1>8, <1>9 DEF ProducerStep

\* Every step of a consumer keeps the types.
LEMMA ConsumerType ==
    ASSUME TypeInv, NEW p \in Procs, ConsumerStep(p)
    PROVE  TypeInv'
<1> USE LabelFacts, CountFacts, SemFacts, ProcLabels
<1>0. Ring!RingTypeOK
    BY DEF TypeInv, TypeOK
<1>1. CASE WaitMessage(p)
    BY <1>1, SemopType DEF WaitMessage
<1>2. CASE WaitMessageFails(p)
    BY <1>2, SemopFailsType DEF WaitMessageFails
<1>3. CASE CheckDone(p)
    BY <1>3 DEF CheckDone, TypeInv, TypeOK, LoopBound, Goto, semVars, localVars,
       countVars, ringVars, Ring!RingTypeOK, Notifier!SemTypeOK, Ring!Elements
<1>4. CASE PopReserve(p)
  <2>1. Ring!RingTypeOK'
    BY <1>0, <1>4, SuccType
       DEF PopReserve, Ring!ReserveRead, Ring!RingTypeOK, Ring!Elements
  <2>2. QED
    BY <1>4, <2>1 DEF PopReserve, TypeInv, TypeOK, LoopBound, Goto, semVars,
       localVars, countVars, Notifier!SemTypeOK, Ring!Elements
<1>5. CASE PopRead(p)
  <2>1. Ring!RingTypeOK' /\ message' \in [Procs -> Ring!Elements]
    BY <1>0, <1>5
       DEF PopRead, Ring!ReadSlot, Ring!RingTypeOK, Ring!Elements, TypeInv, TypeOK
  <2>2. QED
    BY <1>5, <2>1 DEF PopRead, TypeInv, TypeOK, LoopBound, Goto, semVars,
       countVars, Notifier!SemTypeOK, Ring!Elements
<1>6. CASE CountConsumed(p)
    BY <1>6 DEF CountConsumed, TypeInv, TypeOK, LoopBound, Goto, semVars,
       localVars, ringVars, Ring!RingTypeOK, Notifier!SemTypeOK, Ring!Elements
<1>7. CASE NotifyRead(p)
  <2>1. Notifier!SemTypeOK'
    BY <1>7, SemType DEF NotifyRead, TypeInv, TypeOK
  <2>2. QED
    BY <1>7, <2>1 DEF NotifyRead, TypeInv, TypeOK, LoopBound, Goto,
       countVars, ringVars, Ring!RingTypeOK, Ring!Elements
<1>8. CASE NotifyReadFails(p)
    BY <1>8, SemopFailsType DEF NotifyReadFails
<1>9. QED
    BY <1>1, <1>2, <1>3, <1>4, <1>5, <1>6, <1>7, <1>8 DEF ConsumerStep

\* Attaching, signalling readiness, producing and consuming keep the types.
LEMMA ProcType ==
    ASSUME TypeInv, NEW p \in Procs, ProcStep(p)
    PROVE  TypeInv'
<1> USE LabelFacts, CountFacts, SemFacts, ProcLabels
<1>1. CASE AttachAndConstruct(p)
  <2>1. Ring!RingTypeOK'
    BY <1>1, CountsAssumption
       DEF AttachAndConstruct, Ring!Construct, Ring!RingTypeOK, Ring!Elements,
           Ring!Slots, TypeInv, TypeOK
  <2>2. QED
    BY <1>1, <2>1 DEF AttachAndConstruct, TypeInv, TypeOK, LoopBound, Goto, semVars,
       localVars, Notifier!SemTypeOK, Ring!Elements
<1>2. CASE AttachFails(p)
    BY <1>2, SemopFailsType DEF AttachFails
<1>3. CASE SignalReadiness(p)
    BY <1>3, SemopType DEF SignalReadiness
<1>4. CASE SignalReadinessFails(p)
    BY <1>4, SemopFailsType DEF SignalReadinessFails
<1>5. QED
    BY <1>1, <1>2, <1>3, <1>4, ProducerType, ConsumerType DEF ProcStep

\* Types and the loop bound are inductive.
LEMMA TypeStep == TypeInv /\ [Next]_vars => TypeInv'
<1> SUFFICES ASSUME TypeInv, [Next]_vars PROVE TypeInv'
    OBVIOUS
<1>1. CASE ParentStep
    BY <1>1, ParentType
<1>2. CASE \E p \in Procs : ProcStep(p)
    BY <1>2, ProcType
<1>3. CASE UNCHANGED vars
    BY <1>3 DEF vars, TypeInv, TypeOK, LoopBound, semVars, localVars, countVars,
       ringVars, Ring!RingTypeOK, Ring!Elements, Notifier!SemTypeOK
<1>4. QED
    BY <1>1, <1>2, <1>3 DEF Next

\* Every variable keeps the type the program gives it: labels stay labels, no
\* semaphore or counter becomes negative, indices stay inside the ring.
THEOREM TypeCorrect == Spec => []TypeOK
<1>1. Init => TypeInv
    BY InitTypeInv
<1>2. TypeInv /\ [Next]_vars => TypeInv'
    BY TypeStep
<1>3. TypeInv => TypeOK
    BY DEF TypeInv
<1>4. QED
    BY <1>1, <1>2, <1>3, PTL DEF Spec

-----------------------------------------------------------------------------
(* Counting processes by label *)

\* The processes are finitely many: there are as many children as main.cpp counts.
LEMMA ProcsFinite ==
    /\ IsFiniteSet(Procs) /\ IsFiniteSet(Children) /\ IsFiniteSet(Producers)
    /\ Cardinality(Children) = ChildrenCount
    /\ Producers \subseteq Procs
<1>1. IsFiniteSet(Procs)
    BY CountFacts, FS_Interval DEF Procs
<1>2. IsFiniteSet(Children) /\ Cardinality(Children) = ChildrenCount
    BY CountFacts, FS_Interval DEF Children
<1>3. Producers \subseteq Procs
    BY DEF Producers
<1>4. QED
    BY <1>1, <1>2, <1>3, FS_Subset

\* What a move of p does to the counts of the invariant.
LEMMA GotoCounts ==
    ASSUME pc \in [Procs -> Labels], NEW p \in Procs, NEW from, NEW to,
           Goto(p, from, to)
    PROVE  /\ TokenHolders \in Nat /\ Poppers \in Nat /\ SlotReturners \in Nat
           /\ Announcers \in Nat /\ Debtors \in Nat
           /\ TokenHolders' = TokenHolders + In(to, Popping \cup {"check_done"})
                                           - In(from, Popping \cup {"check_done"})
           /\ Poppers' = Poppers + In(to, Popping) - In(from, Popping)
           /\ SlotReturners' = SlotReturners + In(to, {"notify_read"})
                                             - In(from, {"notify_read"})
           /\ Announcers' = Announcers + In(to, {"notify_written"})
                                       - In(from, {"notify_written"})
           /\ Debtors' = IF p \in Producers
                           THEN Debtors + In(to, Unpaid) - In(from, Unpaid)
                           ELSE Debtors
<1>1. /\ \A q \in Procs \ {p} : pc'[q] = pc[q]
      /\ pc[p] = from /\ pc'[p] = to
    BY DEF Goto
<1>2. ASSUME NEW L
      PROVE  /\ CountAt(L) \in Nat
             /\ CountAt(L)' = CountAt(L) + In(to, L) - In(from, L)
  <2> DEFINE A == {q \in Procs : pc[q] \in L}
             B == {q \in Procs : pc'[q] \in L}
  <2>1. IsFiniteSet(A)
    BY ProcsFinite, FS_Subset
  <2>2. A \ {p} = B \ {p}
    BY <1>1
  <2>3. In(p, A) = In(from, L) /\ In(p, B) = In(to, L)
    BY <1>1 DEF In
  <2>4. CountAt(L) = Cardinality(A) /\ CountAt(L)' = Cardinality(B)
    BY DEF CountAt
  <2> HIDE DEF A, B
  <2>5. QED
    BY <2>1, <2>2, <2>3, <2>4, CountMove
<1>3. Debtors \in Nat
  <2>1. {q \in Producers : pc[q] \in Unpaid} \subseteq Producers
    OBVIOUS
  <2>2. QED
    BY <2>1, ProcsFinite, FS_Subset, FS_CardinalityType DEF Debtors
<1>4. CASE p \in Producers
  <2>1. \A q \in Producers \ {p} : pc'[q] = pc[q]
    BY <1>1, ProcsFinite
  <2>2. Debtors' = Debtors + In(to, Unpaid) - In(from, Unpaid)
    <3> DEFINE A == {q \in Producers : pc[q] \in Unpaid}
               B == {q \in Producers : pc'[q] \in Unpaid}
    <3>1. IsFiniteSet(A)
      BY ProcsFinite, FS_Subset
    <3>2. A \ {p} = B \ {p}
      BY <2>1
    <3>3. In(p, A) = In(from, Unpaid) /\ In(p, B) = In(to, Unpaid)
      BY <1>1, <1>4 DEF In
    <3>4. Debtors = Cardinality(A) /\ Debtors' = Cardinality(B)
      BY DEF Debtors
    <3> HIDE DEF A, B
    <3>5. QED
      BY <3>1, <3>2, <3>3, <3>4, CountMove
  <2>3. QED
    BY <1>2, <1>3, <1>4, <2>2 DEF TokenHolders, Poppers, SlotReturners, Announcers
<1>5. CASE p \notin Producers
  <2>1. \A q \in Producers : pc'[q] = pc[q]
    BY <1>1, <1>5, ProcsFinite
  <2>2. {q \in Producers : pc[q] \in Unpaid} = {q \in Producers : pc'[q] \in Unpaid}
    BY <2>1
  <2>3. Debtors' = Debtors
    BY <2>2 DEF Debtors
  <2>4. QED
    BY <1>2, <1>3, <1>5, <2>3 DEF TokenHolders, Poppers, SlotReturners, Announcers
<1>6. QED
    BY <1>4, <1>5

-----------------------------------------------------------------------------
(* Every step but the two of the fork loop moves one process *)

\* Labels a child has been forked before it can reach.
Born == Labels \ {"unborn"}

\* Every label but one is reached only after the fork.
LEMMA BornLabels ==
    /\ {"attach", "wait_ready", "signal_readiness", "failed", "push", "write_slot",
        "count_produced", "notify_written", "wait_read", "notify_completion",
        "wait_message", "check_done", "check_done_failed", "pop", "read_slot",
        "count_consumed", "notify_read", "succeeded", "await_start",
        "start_production", "wait_production", "wait_consumed", "load_consumed",
        "assert_counts", "store_done", "notify_stop", "wait_children", "aborted",
        "exit_failure", "exit_success", "fork"} \subseteq Born
    /\ \A p \in Procs : Failure(p) \in Born /\ AfterRun(p) \in Born
                        /\ RunLabel(p) \in Born
    /\ \A n \in Nat : LoopLabel(n) \in Born
    /\ \A n : LoopLabel(n) \in {"push", "notify_completion"}
BY CountFacts DEF Born, Labels, Exited, Failure, AfterRun, RunLabel, LoopLabel

\* A producer's step: it moves between labels of the producer, or stops.
LEMMA ProducerMoves ==
    ASSUME TypeInv, NEW p \in Procs, ProducerStep(p)
    PROVE  \E from \in {"await_start", "push", "write_slot", "count_produced",
                        "notify_written", "wait_read", "notify_completion"},
              to \in {"push", "write_slot", "count_produced", "notify_written",
                      "wait_read", "notify_completion", Failure(p), AfterRun(p)} :
              /\ Goto(p, from, to)
              /\ UNCHANGED <<forked, done_flag, consumed_message_count>>
              /\ sem'["readiness"] = sem["readiness"]
<1> USE CountFacts, SemFacts, BornLabels DEF SemopFails, OnlySem, countVars
<1>0. sem \in [Semaphores -> Nat]
    BY DEF TypeInv, TypeOK, Notifier!SemTypeOK
<1>1. CASE AwaitStart(p)
    BY <1>0, <1>1 DEF AwaitStart, Notifier!WaitForOne, Notifier!DecreaseValue
<1>2. CASE AwaitStartFails(p)
    BY <1>2 DEF AwaitStartFails, Notifier!CallFails
<1>3. CASE PushReserve(p) \/ PushWrite(p)
    BY <1>3 DEF PushReserve, PushWrite, semVars
<1>4. CASE CountProduced(p)
    BY <1>4 DEF CountProduced, semVars
<1>5. CASE NotifyWritten(p)
    BY <1>0, <1>5 DEF NotifyWritten, Notifier!NotifyOne, Notifier!IncreaseValue
<1>6. CASE WaitRead(p)
    BY <1>0, <1>6 DEF WaitRead, Notifier!WaitForOne, Notifier!DecreaseValue
<1>7. CASE NotifyCompletion(p)
    BY <1>0, <1>7 DEF NotifyCompletion, Notifier!NotifyOne, Notifier!IncreaseValue
<1>8. CASE ProduceFails(p)
    BY <1>8 DEF ProduceFails, CreateMessageFails, Notifier!CallFails
<1>9. QED
    BY <1>1, <1>2, <1>3, <1>4, <1>5, <1>6, <1>7, <1>8 DEF ProducerStep

\* A consumer's step: it moves between labels of the consumer, or stops.
LEMMA ConsumerMoves ==
    ASSUME TypeInv, NEW p \in Procs, ConsumerStep(p)
    PROVE  \E from \in {"wait_message", "check_done", "check_done_failed", "pop",
                        "read_slot", "count_consumed", "notify_read"},
              to \in {"wait_message", "check_done", "check_done_failed", "pop",
                      "read_slot", "count_consumed", "notify_read",
                      "succeeded", "failed"} :
              /\ Goto(p, from, to)
              /\ UNCHANGED <<forked, done_flag, produced_message_count>>
              /\ sem'["readiness"] = sem["readiness"]
<1> USE CountFacts, SemFacts DEF SemopFails, OnlySem, countVars
<1>0. sem \in [Semaphores -> Nat]
    BY DEF TypeInv, TypeOK, Notifier!SemTypeOK
<1>1. CASE WaitMessage(p)
    BY <1>0, <1>1 DEF WaitMessage, Notifier!WaitForOne, Notifier!DecreaseValue
<1>2. CASE WaitMessageFails(p) \/ NotifyReadFails(p)
    BY <1>2 DEF WaitMessageFails, NotifyReadFails, Notifier!CallFails
<1>3. CASE CheckDone(p)
    BY <1>3 DEF CheckDone, semVars
<1>4. CASE PopReserve(p) \/ PopRead(p)
    BY <1>4 DEF PopReserve, PopRead, semVars
<1>5. CASE CountConsumed(p)
    BY <1>5 DEF CountConsumed, semVars
<1>6. CASE NotifyRead(p)
    BY <1>0, <1>6 DEF NotifyRead, Notifier!NotifyOne, Notifier!IncreaseValue
<1>7. QED
    BY <1>1, <1>2, <1>3, <1>4, <1>5, <1>6 DEF ConsumerStep

\* A process that was forked moves to a label of a forked process.
LEMMA ForkOrderMove ==
    ASSUME TypeInv, ForkOrder, NEW p \in Procs, NEW from \in Born, NEW to \in Born,
           Goto(p, from, to), forked' = forked,
           p = Parent /\ from = "fork" => forked = ChildrenCount
    PROVE  ForkOrder'
<1> USE CountFacts DEF TypeInv, TypeOK
<1>1. \A c \in Children : c > forked => pc'[c] = "unborn"
    BY DEF ForkOrder, Goto, Born
<1>2. pc'[Parent] # "fork" => forked = ChildrenCount
    BY DEF ForkOrder, Goto
<1>3. QED
    BY <1>1, <1>2 DEF ForkOrder

\* create_child_processes forks the children in order, also when a fork fails.
LEMMA ForkOrderStep == TypeInv /\ ForkOrder /\ [Next]_vars => ForkOrder'
<1> SUFFICES ASSUME TypeInv, ForkOrder, [Next]_vars PROVE ForkOrder'
    OBVIOUS
<1> USE CountFacts, BornLabels
<1>1. CASE CreateProcess
    BY <1>1 DEF CreateProcess, ForkOrder, TypeInv, TypeOK, Children, ChildrenCount,
       Parent, Procs
<1>2. CASE CreateProcessFails
    BY <1>2 DEF CreateProcessFails, ForkOrder, TypeInv, TypeOK, Children,
       ChildrenCount
<1>3. CASE ParentStep /\ ~CreateProcess /\ ~CreateProcessFails
    BY <1>3, ForkOrderMove
       DEF ParentStep, CheckCreated, WaitTillAllChildrenReady, StartProduction,
           SetupParentFails, WaitTillProductionComplete,
           WaitTillAllMessagesConsumed, FinalWaitFails, LoadConsumed,
           AssertCounts, StoreDone, NotifyStop, StopFails,
           WaitTillAllChildrenTerminate, LeaveMain, SemopFails, OnlySem
<1>4. ASSUME NEW p \in Procs, ProcStep(p) PROVE ForkOrder'
  <2>1. CASE AttachAndConstruct(p)
    BY <2>1, ForkOrderMove DEF AttachAndConstruct
  <2>2. CASE AttachFails(p)
    BY <2>2, ForkOrderMove DEF AttachFails, SemopFails, OnlySem
  <2>3. CASE SignalReadiness(p)
    BY <2>3, ForkOrderMove DEF SignalReadiness, OnlySem
  <2>4. CASE SignalReadinessFails(p)
    BY <2>4, ForkOrderMove DEF SignalReadinessFails, SemopFails, OnlySem
  <2>5. CASE ProducerStep(p)
    BY <2>5, ForkOrderMove, ProducerMoves
  <2>6. CASE ConsumerStep(p)
    BY <2>6, ForkOrderMove, ConsumerMoves
  <2>7. QED
    BY <1>4, <2>1, <2>2, <2>3, <2>4, <2>5, <2>6 DEF ProcStep
<1>5. CASE UNCHANGED vars
    BY <1>5 DEF vars, ForkOrder
<1>6. QED
    BY <1>1, <1>2, <1>3, <1>4, <1>5 DEF Next, ParentStep

-----------------------------------------------------------------------------
(* The barrier *)

\* A move that does not take a child back before its readiness signal.
LEMMA ReadyGrows ==
    ASSUME TypeInv, NEW p \in Procs, NEW from, NEW to, Goto(p, from, to),
           \/ p = Parent
           \/ from \in Unready
           \/ to \notin Unready
    PROVE  /\ ReadyChildren \subseteq ReadyChildren'
           /\ Cardinality(ReadyChildren) <= Cardinality(ReadyChildren')
           /\ Cardinality(ReadyChildren) \in Nat
           /\ AllReady => AllReady'
<1>1. ReadyChildren \subseteq ReadyChildren'
    BY CountFacts DEF ReadyChildren, Goto, TypeInv, TypeOK
<1>2. /\ ReadyChildren \subseteq Children /\ ReadyChildren' \subseteq Children
      /\ IsFiniteSet(ReadyChildren) /\ IsFiniteSet(ReadyChildren')
  <2>1. ReadyChildren \subseteq Children /\ ReadyChildren' \subseteq Children
    BY DEF ReadyChildren
  <2>2. QED
    BY <2>1, ProcsFinite, FS_Subset
<1>3. QED
    BY <1>1, <1>2, FS_Subset, FS_CardinalityType DEF AllReady

\* A child that signals its readiness joins the ready ones.
LEMMA ReadyJoins ==
    ASSUME TypeInv, NEW p \in Children, NEW from \in Unready,
           NEW to, to \notin Unready, Goto(p, from, to)
    PROVE  Cardinality(ReadyChildren') = Cardinality(ReadyChildren) + 1
<1>1. /\ ReadyChildren' = ReadyChildren \cup {p}
      /\ p \notin ReadyChildren
    BY CountFacts DEF ReadyChildren, Goto, TypeInv, TypeOK
<1>2. IsFiniteSet(ReadyChildren)
  <2>1. ReadyChildren \subseteq Children
    BY DEF ReadyChildren
  <2>2. QED
    BY <2>1, ProcsFinite, FS_Subset
<1>3. Cardinality(ReadyChildren \cup {p}) = Cardinality(ReadyChildren) + 1
    BY <1>1, <1>2, FS_AddElement
<1>4. QED
    BY <1>1, <1>3, Zenon

\* As many readiness signals as children: all children are ready.
LEMMA AllCounted ==
    ASSUME Cardinality(ReadyChildren) >= ChildrenCount
    PROVE  AllReady
<1>1. ReadyChildren \subseteq Children
    BY DEF ReadyChildren
<1>2. /\ IsFiniteSet(ReadyChildren)
      /\ Cardinality(ReadyChildren) <= Cardinality(Children)
      /\ Cardinality(ReadyChildren) = Cardinality(Children)
           => ReadyChildren = Children
    BY <1>1, ProcsFinite, FS_Subset
<1>3. Cardinality(ReadyChildren) \in Nat
    BY <1>2, FS_CardinalityType
<1>4. QED
    BY <1>2, <1>3, ProcsFinite, CountFacts DEF AllReady

\* The first two parts of Barrier under a move that signals no readiness.
LEMMA BarrierMove ==
    ASSUME TypeInv, Barrier, NEW p \in Procs, NEW from, NEW to, Goto(p, from, to),
           p = Parent \/ from \in Unready \/ to \notin Unready,
           sem'["readiness"] = sem["readiness"],
           to # "start_production",
           p = Parent /\ to \in {"fork", "attach", "wait_ready"}
             => from \in {"fork", "attach", "wait_ready"},
           Quiet /\ ~Constructed => Quiet' \/ Constructed'
    PROVE  Barrier'
<1> USE CountFacts, SemFacts
<1>1. sem["readiness"] \in Nat
    BY DEF TypeInv, TypeOK, Notifier!SemTypeOK
<1>2. sem'["readiness"] <= Cardinality(ReadyChildren')
  <2>1. /\ Cardinality(ReadyChildren) <= Cardinality(ReadyChildren')
        /\ Cardinality(ReadyChildren) \in Nat
    BY ReadyGrows
  <2>2. Cardinality(ReadyChildren') \in Nat
    <3>1. ReadyChildren' \subseteq Children
      BY DEF ReadyChildren
    <3>2. QED
      BY <3>1, ProcsFinite, FS_Subset, FS_CardinalityType
  <2>3. sem["readiness"] <= Cardinality(ReadyChildren)
    BY DEF Barrier
  <2>4. QED
    BY <1>1, <2>1, <2>2, <2>3
<1>3. pc'[Parent] = "start_production" => AllReady'
    BY ReadyGrows DEF Barrier, Goto, TypeInv, TypeOK
<1>4. Constructed => Constructed'
    BY ReadyGrows DEF Constructed, Goto, TypeInv, TypeOK
<1>5. (Cardinality(ReadyChildren))' = Cardinality(ReadyChildren')
    OBVIOUS
<1>6. QED
    BY <1>2, <1>3, <1>4, <1>5 DEF Barrier

\* Which labels are before the readiness signal, and which quiet.
LEMMA QuietLabels ==
    /\ Unready = {"unborn", "attach", "signal_readiness"}
    /\ ParentQuiet = {"fork", "attach", "wait_ready", "start_production",
                      "exit_failure", "failed"}
    /\ ChildQuiet = {"unborn", "attach", "signal_readiness", "await_start",
                     "wait_message", "check_done_failed", "succeeded", "failed"}
BY DEF Unready, ParentQuiet, ChildQuiet, Exited

\* Before production has started, a producer can only fail to wait for its start.
LEMMA QuietProducer ==
    ASSUME TypeInv, NEW p \in Procs, ProducerStep(p), Quiet
    PROVE  Quiet'
<1> USE CountFacts, SemFacts, QuietLabels
<1>1. p \in Children /\ pc[p] \in ChildQuiet
    BY ProducerMoves DEF Quiet, Goto
<1>2. CASE AwaitStart(p)
    BY <1>2 DEF AwaitStart, Notifier!WaitForOne, Notifier!DecreaseValue, Quiet
<1>3. CASE AwaitStartFails(p)
    BY <1>1, <1>3 DEF AwaitStartFails, SemopFails, Notifier!CallFails, OnlySem,
       countVars, Goto, Quiet, AfterRun, TypeInv, TypeOK
<1>4. CASE ~AwaitStart(p) /\ ~AwaitStartFails(p)
    BY <1>1, <1>4 DEF ProducerStep, PushReserve, PushWrite, CountProduced,
       NotifyWritten, WaitRead, NotifyCompletion, ProduceFails, CreateMessageFails,
       SemopFails, Goto
<1>5. QED
    BY <1>2, <1>3, <1>4

\* Before production has started, a consumer can only fail to wait for a message.
LEMMA QuietConsumer ==
    ASSUME TypeInv, NEW p \in Procs, ConsumerStep(p), Quiet
    PROVE  Quiet'
<1> USE CountFacts, SemFacts, QuietLabels
<1>1. p \in Children /\ pc[p] \in ChildQuiet
    BY ConsumerMoves DEF Quiet, Goto
<1>2. CASE WaitMessage(p)
    BY <1>2 DEF WaitMessage, Notifier!WaitForOne, Notifier!DecreaseValue, Quiet
<1>3. CASE WaitMessageFails(p)
    BY <1>1, <1>3 DEF WaitMessageFails, SemopFails, Notifier!CallFails, OnlySem,
       countVars, Goto, Quiet, TypeInv, TypeOK
<1>4. CASE CheckDone(p)
    BY <1>1, <1>4 DEF CheckDone, semVars, countVars, Goto, Quiet, TypeInv, TypeOK
<1>5. CASE ~WaitMessage(p) /\ ~WaitMessageFails(p) /\ ~CheckDone(p)
    BY <1>1, <1>5 DEF ConsumerStep, PopReserve, PopRead, CountConsumed, NotifyRead,
       NotifyReadFails, SemopFails, Goto
<1>6. QED
    BY <1>2, <1>3, <1>4, <1>5

\* The parent's steps that do not fork a child, count no readiness signal and
\* do not start production.
LEMMA QuietParent ==
    ASSUME TypeInv, ParentStep, Quiet, ~Constructed, Barrier,
           ~CreateProcess, ~CreateProcessFails, ~WaitTillAllChildrenReady
    PROVE  Quiet'
<1> USE CountFacts, SemFacts, QuietLabels
<1>1. pc[Parent] \in {"fork", "attach", "wait_ready", "exit_failure", "failed"}
    BY DEF Quiet, Barrier, Constructed
<1>2. CASE CheckCreated
    BY <1>2 DEF CheckCreated, semVars, countVars, Goto, Quiet, TypeInv, TypeOK
<1>3. CASE SetupParentFails
    BY <1>1, <1>3 DEF SetupParentFails, SemopFails, Notifier!CallFails, OnlySem,
       countVars, Goto, Quiet, TypeInv, TypeOK
<1>4. CASE LeaveMain
    BY <1>1, <1>4 DEF LeaveMain, Notifier!Remove, OnlySem, countVars, Goto, Quiet,
       TypeInv, TypeOK
<1>5. CASE ~CheckCreated /\ ~SetupParentFails /\ ~LeaveMain
    BY <1>1, <1>5 DEF ParentStep, StartProduction, WaitTillProductionComplete,
       WaitTillAllMessagesConsumed, FinalWaitFails, LoadConsumed, AssertCounts,
       StoreDone, NotifyStop, StopFails, WaitTillAllChildrenTerminate,
       SemopFails, Goto
<1>6. QED
    BY <1>2, <1>3, <1>4, <1>5

\* No step of the parent breaks the start-up barrier.
LEMMA BarrierParent ==
    ASSUME TypeInv, ForkOrder, Barrier, ParentStep
    PROVE  Barrier'
<1> USE CountFacts, SemFacts
<1>0. sem \in [Semaphores -> Nat]
    BY DEF TypeInv, TypeOK, Notifier!SemTypeOK
<1>1. CASE CreateProcess
  <2>1. /\ forked + 1 \in Children
        /\ Goto(forked + 1, "unborn", "attach")
        /\ pc'[Parent] = pc[Parent]
    BY <1>1 DEF CreateProcess, ForkOrder, Goto, TypeInv, TypeOK, Children,
       ChildrenCount, Parent
  <2>2. Quiet' /\ sem' = sem
    BY <1>1, <2>1, QuietLabels
       DEF CreateProcess, semVars, countVars, Barrier, Constructed, Quiet, TypeInv,
           TypeOK
  <2>3. QED
    BY <1>1, <2>1, <2>2, BarrierMove, QuietLabels
<1>2. CASE CreateProcessFails
    BY <1>2 DEF CreateProcessFails, Barrier, Quiet, Constructed, AllReady,
       ReadyChildren, countVars
<1>3. CASE WaitTillAllChildrenReady
  <2>1. /\ sem["readiness"] >= ChildrenCount
        /\ sem'["readiness"] = sem["readiness"] - ChildrenCount
        /\ Goto(Parent, "wait_ready", "start_production")
    BY <1>0, <1>3 DEF WaitTillAllChildrenReady, Notifier!WaitForAll,
       Notifier!DecreaseValue
  <2>2. Cardinality(ReadyChildren) \in Nat
    <3>1. ReadyChildren \subseteq Children
      BY DEF ReadyChildren
    <3>2. QED
      BY <3>1, ProcsFinite, FS_Subset, FS_CardinalityType
  <2>3. Cardinality(ReadyChildren) >= ChildrenCount
    BY <1>0, <2>1, <2>2 DEF Barrier
  <2>4. AllReady
    BY <2>3, AllCounted
  <2>5. ReadyChildren' = ReadyChildren
    BY <2>1 DEF ReadyChildren, Goto, TypeInv, TypeOK
  <2>6. AllReady' /\ Cardinality(ReadyChildren') = Cardinality(ReadyChildren)
    BY <2>4, <2>5, Zenon DEF AllReady
  <2>7. Constructed' /\ pc'[Parent] = "start_production"
    BY <2>1, <2>6 DEF Constructed, Goto, TypeInv, TypeOK
  <2>8. sem'["readiness"] <= Cardinality(ReadyChildren')
    BY <1>0, <2>1, <2>2, <2>3, <2>6 DEF Barrier
  <2>9. (Cardinality(ReadyChildren))' = Cardinality(ReadyChildren')
    OBVIOUS
  <2>10. QED
    BY <2>6, <2>7, <2>8, <2>9 DEF Barrier
<1>4. CASE ~CreateProcess /\ ~CreateProcessFails /\ ~WaitTillAllChildrenReady
  <2>1. Quiet /\ ~Constructed => Quiet'
    BY <1>4, QuietParent
  <2>2. \E from \in Born \ {"attach", "wait_ready", "unborn"}, to \in Born :
           /\ Goto(Parent, from, to) \/ Goto(Parent, "wait_ready", to)
           /\ to \notin {"fork", "start_production", "wait_ready"}
           /\ to = "attach" => from = "fork" /\ Goto(Parent, from, to)
           /\ sem'["readiness"] = sem["readiness"]
    BY <1>0, <1>4, BornLabels
       DEF ParentStep, CheckCreated, StartProduction,
           SetupParentFails, WaitTillProductionComplete,
           WaitTillAllMessagesConsumed, FinalWaitFails, LoadConsumed,
           AssertCounts, StoreDone, NotifyStop, StopFails,
           WaitTillAllChildrenTerminate, LeaveMain, SemopFails, OnlySem, semVars,
           Notifier!NotifyAll, Notifier!WaitForAll, Notifier!WaitTillNone,
           Notifier!IncreaseValue, Notifier!DecreaseValue, Notifier!WaitForZero,
           Notifier!CallFails, Notifier!Remove, Notifier!semVars
  <2>3. QED
    BY <2>1, <2>2, BarrierMove
<1>5. QED
    BY <1>1, <1>2, <1>3, <1>4

\* No step of a child, nor a construction, breaks the start-up barrier.
LEMMA BarrierProc ==
    ASSUME TypeInv, ForkOrder, Barrier, NEW p \in Procs, ProcStep(p)
    PROVE  Barrier'
<1> USE CountFacts, SemFacts, QuietLabels
<1>0. sem \in [Semaphores -> Nat]
    BY DEF TypeInv, TypeOK, Notifier!SemTypeOK
<1>1. CASE AttachAndConstruct(p)
  <2>1. Quiet => Quiet'
    BY <1>1 DEF AttachAndConstruct, Goto, semVars, Quiet, TypeInv, TypeOK
  <2>2. /\ Goto(p, "attach", IF p = Parent THEN "wait_ready" ELSE "signal_readiness")
        /\ sem' = sem
    BY <1>1 DEF AttachAndConstruct, semVars
  <2>3. CASE p = Parent
    BY <2>1, <2>2, <2>3, BarrierMove
  <2>4. CASE p # Parent
    BY <2>1, <2>2, <2>4, BarrierMove
  <2>5. QED
    BY <2>3, <2>4
<1>2. CASE AttachFails(p)
  <2>1. Quiet => Quiet'
    BY <1>2 DEF AttachFails, SemopFails, Notifier!CallFails, OnlySem, countVars, Goto,
       Quiet, TypeInv, TypeOK, Failure
  <2>2. QED
    BY <1>2, <2>1, BarrierMove DEF AttachFails, SemopFails, Notifier!CallFails, Failure
<1>3. CASE p \in Children /\ SignalReadiness(p)
  <2>1. /\ Goto(p, "signal_readiness", RunLabel(p))
        /\ sem' = [sem EXCEPT !["readiness"] = @ + 1]
        /\ RunLabel(p) \in {"await_start", "wait_message"}
    BY <1>3 DEF SignalReadiness, Notifier!NotifyOne, Notifier!IncreaseValue, RunLabel
  <2>2. Quiet => Quiet'
    BY <1>0, <1>3, <2>1 DEF SignalReadiness, OnlySem, countVars, Goto, Quiet, TypeInv,
       TypeOK, Semaphores
  <2>3. /\ AllReady => AllReady'
        /\ Cardinality(ReadyChildren) \in Nat
    BY <2>1, ReadyGrows
  <2>4. Cardinality(ReadyChildren') = Cardinality(ReadyChildren) + 1
    BY <1>3, <2>1, ReadyJoins
  <2>5. sem'["readiness"] <= Cardinality(ReadyChildren')
    BY <1>0, <2>1, <2>3, <2>4 DEF Barrier
  <2>6. pc'[Parent] = pc[Parent]
    BY <1>3, <2>1 DEF Goto, TypeInv, TypeOK
  <2>7. (Cardinality(ReadyChildren))' = Cardinality(ReadyChildren')
    OBVIOUS
  <2>8. QED
    BY <2>2, <2>3, <2>5, <2>6, <2>7 DEF Barrier, Constructed
<1>4. CASE p \in Children /\ SignalReadinessFails(p)
  <2>1. Quiet => Quiet'
    BY <1>4 DEF SignalReadinessFails, SemopFails, Notifier!CallFails, OnlySem,
       countVars, Goto, Quiet, TypeInv, TypeOK
  <2>2. QED
    BY <1>4, <2>1, BarrierMove DEF SignalReadinessFails, SemopFails, Notifier!CallFails
<1>5. CASE ProducerStep(p)
    BY <1>5, QuietProducer, ProducerMoves, BarrierMove DEF Failure, AfterRun
<1>6. CASE ConsumerStep(p)
    BY <1>6, QuietConsumer, ConsumerMoves, BarrierMove
<1>7. QED
    BY <1>1, <1>2, <1>3, <1>4, <1>5, <1>6 DEF ProcStep

\* The start-up barrier is inductive, given types and fork order.
LEMMA BarrierStep ==
    TypeInv /\ ForkOrder /\ Barrier /\ [Next]_vars => Barrier'
<1> SUFFICES ASSUME TypeInv, ForkOrder, Barrier, [Next]_vars PROVE Barrier'
    OBVIOUS
<1>1. CASE ParentStep
    BY <1>1, BarrierParent
<1>2. CASE \E p \in Procs : ProcStep(p)
    BY <1>2, BarrierProc
<1>3. CASE UNCHANGED vars
    BY <1>3 DEF vars, semVars, countVars, Barrier, Quiet, Constructed, AllReady,
       ReadyChildren
<1>4. QED
    BY <1>1, <1>2, <1>3 DEF Next

\* The barrier holds when nothing has been forked.
LEMMA InitBarrier == Init => ForkOrder /\ Barrier
<1> SUFFICES ASSUME Init PROVE ForkOrder /\ Barrier
    OBVIOUS
<1> USE CountFacts, SemFacts, QuietLabels
<1>1. ForkOrder
    BY DEF Init, ForkOrder
<1>2. Quiet
    BY DEF Init, Quiet, Notifier!SemInit
<1>3. sem["readiness"] = 0 /\ pc[Parent] = "fork"
    BY DEF Init, Notifier!SemInit
<1>4. Cardinality(ReadyChildren) \in Nat
  <2>1. ReadyChildren \subseteq Children
    BY DEF ReadyChildren
  <2>2. QED
    BY <2>1, ProcsFinite, FS_Subset, FS_CardinalityType
<1>5. QED
    BY <1>1, <1>2, <1>3, <1>4 DEF Barrier

-----------------------------------------------------------------------------
(* The accounts of the written and the read semaphore *)

Accounts == WrittenAccount /\ ReadAccount

\* The numbers the accounts add up are natural.
LEMMA AccountTypes ==
    ASSUME TypeInv
    PROVE  /\ sem \in [Semaphores -> Nat] /\ pc \in [Procs -> Labels]
           /\ sem["written"] \in Nat /\ sem["read"] \in Nat
           /\ produced_message_count \in Nat /\ consumed_message_count \in Nat
           /\ Capacity \in Nat
BY SemFacts, CountFacts DEF TypeInv, TypeOK, Notifier!SemTypeOK

\* A move between labels that no count looks at, with the counters, the flag and
\* both semaphores as they were.
LEMMA AccountMove ==
    ASSUME TypeInv, Accounts, NEW p \in Procs, NEW from, NEW to, Goto(p, from, to),
           UNCHANGED <<done_flag, countVars>>,
           sem'["written"] = sem["written"], sem'["read"] = sem["read"],
           to \notin Popping \cup {"check_done", "notify_written", "notify_read"},
           p \in Producers /\ from \in Unpaid => to \in Unpaid
    PROVE  Accounts'
<1> DEFINE held == In(from, Popping \cup {"check_done"})
           popping == In(from, Popping)
           returning == In(from, {"notify_read"})
           announcing == In(from, {"notify_written"})
<1>1. /\ held \in {0, 1} /\ popping \in {0, 1} /\ returning \in {0, 1}
      /\ announcing \in {0, 1}
      /\ In(to, Popping \cup {"check_done"}) = 0 /\ In(to, Popping) = 0
      /\ In(to, {"notify_read"}) = 0 /\ In(to, {"notify_written"}) = 0
      /\ p \in Producers => In(to, Unpaid) >= In(from, Unpaid)
      /\ In(to, Unpaid) \in {0, 1} /\ In(from, Unpaid) \in {0, 1}
    BY DEF In
<1>2. /\ TokenHolders \in Nat /\ Poppers \in Nat /\ SlotReturners \in Nat
      /\ Announcers \in Nat /\ Debtors \in Nat
      /\ TokenHolders' <= TokenHolders /\ Poppers' <= Poppers
      /\ SlotReturners' <= SlotReturners /\ Announcers' <= Announcers
      /\ Debtors' >= Debtors
      /\ TokenHolders' \in Int /\ Poppers' \in Int /\ SlotReturners' \in Int
      /\ Announcers' \in Int /\ Debtors' \in Int
  <2>1. /\ TokenHolders \in Nat /\ Poppers \in Nat /\ SlotReturners \in Nat
        /\ Announcers \in Nat /\ Debtors \in Nat
        /\ TokenHolders' = TokenHolders + In(to, Popping \cup {"check_done"}) - held
        /\ Poppers' = Poppers + In(to, Popping) - popping
        /\ SlotReturners' = SlotReturners + In(to, {"notify_read"}) - returning
        /\ Announcers' = Announcers + In(to, {"notify_written"}) - announcing
        /\ Debtors' = IF p \in Producers
                        THEN Debtors + In(to, Unpaid) - In(from, Unpaid)
                        ELSE Debtors
    BY GotoCounts, AccountTypes, Zenon
  <2> HIDE DEF held, popping, returning, announcing
  <2>2. /\ TokenHolders' = TokenHolders + 0 - held
        /\ Poppers' = Poppers + 0 - popping
        /\ SlotReturners' = SlotReturners + 0 - returning
        /\ Announcers' = Announcers + 0 - announcing
    BY <1>1, <2>1, Zenon
  <2>3. QED
    BY <1>1, <2>1, <2>2
<1>3. WrittenAccount'
    BY <1>2, AccountTypes DEF Accounts, WrittenAccount, countVars
<1>4. ReadAccount'
    BY <1>2, AccountTypes DEF Accounts, ReadAccount, countVars
<1>5. QED
    BY <1>3, <1>4 DEF Accounts

\* A consumer that looks at the done flag holds a token and does not pop yet.
LEMMA HoldersAndPoppers ==
    ASSUME NEW p \in Procs, pc[p] = "check_done"
    PROVE  Poppers + 1 <= TokenHolders
<1> DEFINE A == {q \in Procs : pc[q] \in Popping}
           B == {q \in Procs : pc[q] \in Popping \cup {"check_done"}}
<1>1. IsFiniteSet(A) /\ IsFiniteSet(B)
  <2>1. A \subseteq Procs /\ B \subseteq Procs
    OBVIOUS
  <2>2. QED
    BY <2>1, ProcsFinite, FS_Subset
<1>2. A \cup {p} \subseteq B /\ p \notin A
    BY DEF Popping
<1>3. Cardinality(A \cup {p}) = Cardinality(A) + 1
    BY <1>1, <1>2, FS_AddElement
<1>4. Cardinality(A \cup {p}) <= Cardinality(B)
    BY <1>1, <1>2, FS_Subset
<1>5. Poppers = Cardinality(A) /\ TokenHolders = Cardinality(B)
    BY DEF Poppers, TokenHolders, CountAt
<1> HIDE DEF A, B
<1>6. QED
    BY <1>3, <1>4, <1>5

\* Every step of produce_messages keeps both accounts: a message is counted before
\* it is announced, and a token of the read semaphore pays for it.
LEMMA AccountProducer ==
    ASSUME TypeInv, Accounts, NEW p \in Producers, ProducerStep(p)
    PROVE  Accounts'
<1> USE AccountTypes, SemFacts DEF In, Popping, Unpaid
<1>0. p \in Procs
    BY ProcsFinite
<1>1. CASE AwaitStart(p)
    BY <1>0, <1>1, AccountMove, BornLabels
       DEF AwaitStart, Notifier!WaitForOne, Notifier!DecreaseValue, OnlySem
<1>2. CASE AwaitStartFails(p)
    BY <1>0, <1>2, AccountMove
       DEF AwaitStartFails, SemopFails, Notifier!CallFails, OnlySem, AfterRun
<1>3. CASE PushReserve(p) \/ PushWrite(p)
    BY <1>0, <1>3, AccountMove DEF PushReserve, PushWrite, semVars
<1>4. CASE CountProduced(p)
  <2>1. /\ Goto(p, "count_produced", "notify_written")
        /\ produced_message_count' = produced_message_count + 1
        /\ UNCHANGED <<sem, done_flag, consumed_message_count>>
    BY <1>4 DEF CountProduced, semVars
  <2>2. /\ TokenHolders' = TokenHolders /\ Poppers' = Poppers
        /\ SlotReturners' = SlotReturners /\ Announcers' = Announcers + 1
        /\ Debtors' = Debtors + 1
        /\ TokenHolders \in Nat /\ Poppers \in Nat /\ SlotReturners \in Nat
        /\ Announcers \in Nat /\ Debtors \in Nat
    BY <1>0, <2>1, GotoCounts
  <2>3. QED
    BY <2>1, <2>2 DEF Accounts, WrittenAccount, ReadAccount
<1>5. CASE NotifyWritten(p)
  <2>1. /\ Goto(p, "notify_written", "wait_read")
        /\ sem'["written"] = sem["written"] + 1 /\ sem'["read"] = sem["read"]
        /\ UNCHANGED <<done_flag, countVars>>
    BY <1>5 DEF NotifyWritten, Notifier!NotifyOne, Notifier!IncreaseValue, OnlySem
  <2>2. /\ TokenHolders' = TokenHolders /\ Poppers' = Poppers
        /\ SlotReturners' = SlotReturners /\ Announcers' = Announcers - 1
        /\ Debtors' = Debtors
        /\ TokenHolders \in Nat /\ Poppers \in Nat /\ SlotReturners \in Nat
        /\ Announcers \in Nat /\ Debtors \in Nat
    BY <1>0, <2>1, GotoCounts
  <2>3. QED
    BY <2>1, <2>2 DEF Accounts, WrittenAccount, ReadAccount, countVars
<1>6. CASE WaitRead(p)
  <2>1. /\ Goto(p, "wait_read", LoopLabel(i[p] + 1))
        /\ sem'["read"] = sem["read"] - 1 /\ sem'["written"] = sem["written"]
        /\ UNCHANGED <<done_flag, countVars>>
        /\ LoopLabel(i[p] + 1) \in {"push", "notify_completion"}
    BY <1>6, BornLabels
       DEF WaitRead, Notifier!WaitForOne, Notifier!DecreaseValue
  <2>2. /\ TokenHolders' = TokenHolders /\ Poppers' = Poppers
        /\ SlotReturners' = SlotReturners /\ Announcers' = Announcers
        /\ Debtors' = Debtors - 1
        /\ TokenHolders \in Nat /\ Poppers \in Nat /\ SlotReturners \in Nat
        /\ Announcers \in Nat /\ Debtors \in Nat
    BY <1>0, <2>1, GotoCounts
  <2>3. QED
    BY <2>1, <2>2 DEF Accounts, WrittenAccount, ReadAccount, countVars
<1>7. CASE NotifyCompletion(p)
    BY <1>0, <1>7, AccountMove
       DEF NotifyCompletion, Notifier!NotifyOne, Notifier!IncreaseValue, OnlySem,
           AfterRun
<1>8. CASE ProduceFails(p)
    BY <1>0, <1>8, AccountMove
       DEF ProduceFails, CreateMessageFails, SemopFails, Notifier!CallFails, OnlySem,
           Failure, semVars
<1>9. QED
    BY <1>1, <1>2, <1>3, <1>4, <1>5, <1>6, <1>7, <1>8 DEF ProducerStep

\* Every step of consume_messages keeps both accounts: a token is taken before its
\* message is counted, and the slot is freed after it.
LEMMA AccountConsumer ==
    ASSUME TypeInv, Accounts, NEW p \in Procs \ Producers, ConsumerStep(p)
    PROVE  Accounts'
<1> USE AccountTypes, SemFacts DEF In, Popping, Unpaid
<1>0. p \in Procs /\ p \notin Producers
    OBVIOUS
<1>1. CASE WaitMessage(p)
  <2>1. /\ Goto(p, "wait_message", "check_done")
        /\ sem'["written"] = sem["written"] - 1 /\ sem'["read"] = sem["read"]
        /\ UNCHANGED <<done_flag, countVars>>
    BY <1>1 DEF WaitMessage, Notifier!WaitForOne, Notifier!DecreaseValue, OnlySem
  <2>2. /\ TokenHolders' = TokenHolders + 1 /\ Poppers' = Poppers
        /\ SlotReturners' = SlotReturners /\ Announcers' = Announcers
        /\ Debtors' = Debtors
        /\ TokenHolders \in Nat /\ Poppers \in Nat /\ SlotReturners \in Nat
        /\ Announcers \in Nat /\ Debtors \in Nat
    BY <1>0, <2>1, GotoCounts
  <2>3. QED
    BY <2>1, <2>2 DEF Accounts, WrittenAccount, ReadAccount, countVars
<1>2. CASE WaitMessageFails(p) \/ NotifyReadFails(p)
    BY <1>0, <1>2, AccountMove
       DEF WaitMessageFails, NotifyReadFails, SemopFails, Notifier!CallFails, OnlySem
<1>3. CASE CheckDone(p)
  <2>1. CASE done_flag \/ pc[p] # "check_done"
    BY <1>0, <1>3, <2>1, AccountMove DEF CheckDone, semVars, Goto
  <2>2. CASE ~done_flag /\ pc[p] = "check_done"
    <3>1. /\ Goto(p, "check_done", "pop")
          /\ UNCHANGED <<sem, done_flag, countVars>>
      BY <1>3, <2>2 DEF CheckDone, semVars, Goto
    <3>2. /\ TokenHolders' = TokenHolders /\ Poppers' = Poppers + 1
          /\ SlotReturners' = SlotReturners /\ Announcers' = Announcers
          /\ Debtors' = Debtors
          /\ TokenHolders \in Nat /\ Poppers \in Nat /\ SlotReturners \in Nat
          /\ Announcers \in Nat /\ Debtors \in Nat
      BY <1>0, <3>1, GotoCounts
    <3>3. Poppers + 1 <= TokenHolders
      BY <1>0, <2>2, HoldersAndPoppers
    <3>4. QED
      BY <2>2, <3>1, <3>2, <3>3 DEF Accounts, WrittenAccount, ReadAccount, countVars
  <2>3. QED
    BY <2>1, <2>2
<1>4. CASE PopReserve(p) \/ PopRead(p)
  <2>1. \/ Goto(p, "pop", "read_slot") \/ Goto(p, "read_slot", "count_consumed")
    BY <1>4 DEF PopReserve, PopRead
  <2>2. UNCHANGED <<sem, done_flag, countVars>>
    BY <1>4 DEF PopReserve, PopRead, semVars
  <2>3. /\ TokenHolders' = TokenHolders /\ Poppers' = Poppers
        /\ SlotReturners' = SlotReturners /\ Announcers' = Announcers
        /\ Debtors' = Debtors
        /\ TokenHolders \in Nat /\ Poppers \in Nat /\ SlotReturners \in Nat
        /\ Announcers \in Nat /\ Debtors \in Nat
    BY <1>0, <2>1, GotoCounts
  <2>4. QED
    BY <2>2, <2>3 DEF Accounts, WrittenAccount, ReadAccount, countVars
<1>5. CASE CountConsumed(p)
  <2>1. /\ Goto(p, "count_consumed", "notify_read")
        /\ consumed_message_count' = consumed_message_count + 1
        /\ UNCHANGED <<sem, done_flag, produced_message_count>>
    BY <1>5 DEF CountConsumed, semVars
  <2>2. /\ TokenHolders' = TokenHolders - 1 /\ Poppers' = Poppers - 1
        /\ SlotReturners' = SlotReturners + 1 /\ Announcers' = Announcers
        /\ Debtors' = Debtors
        /\ TokenHolders \in Nat /\ Poppers \in Nat /\ SlotReturners \in Nat
        /\ Announcers \in Nat /\ Debtors \in Nat
    BY <1>0, <2>1, GotoCounts
  <2>3. QED
    BY <2>1, <2>2 DEF Accounts, WrittenAccount, ReadAccount
<1>6. CASE NotifyRead(p)
  <2>1. /\ Goto(p, "notify_read", "wait_message")
        /\ sem'["read"] = sem["read"] + 1 /\ sem'["written"] = sem["written"]
        /\ UNCHANGED <<done_flag, countVars>>
    BY <1>6 DEF NotifyRead, Notifier!NotifyOne, Notifier!IncreaseValue
  <2>2. /\ TokenHolders' = TokenHolders /\ Poppers' = Poppers
        /\ SlotReturners' = SlotReturners - 1 /\ Announcers' = Announcers
        /\ Debtors' = Debtors
        /\ TokenHolders \in Nat /\ Poppers \in Nat /\ SlotReturners \in Nat
        /\ Announcers \in Nat /\ Debtors \in Nat
    BY <1>0, <2>1, GotoCounts
  <2>3. QED
    BY <2>1, <2>2 DEF Accounts, WrittenAccount, ReadAccount, countVars
<1>7. QED
    BY <1>1, <1>2, <1>3, <1>4, <1>5, <1>6 DEF ConsumerStep

\* Every step of the parent keeps both accounts: the tokens of the shutdown are added
\* after done_flag.
LEMMA AccountParent ==
    ASSUME TypeInv, ForkOrder, DoneStored, Accounts, ParentStep
    PROVE  Accounts'
<1> USE AccountTypes, SemFacts, CountFacts DEF In, Popping, Unpaid
<1>1. CASE CreateProcess
  <2>1. /\ forked + 1 \in Procs
        /\ Goto(forked + 1, "unborn", "attach")
    BY <1>1 DEF CreateProcess, ForkOrder, Goto, TypeInv, TypeOK, Children,
       ChildrenCount
  <2>2. QED
    BY <1>1, <2>1, AccountMove DEF CreateProcess, semVars
<1>2. CASE CreateProcessFails
    BY <1>2 DEF CreateProcessFails, Accounts, WrittenAccount, ReadAccount, countVars,
       TokenHolders, Poppers, SlotReturners, Announcers, Debtors, CountAt
<1>3. CASE CheckCreated
    BY <1>3, AccountMove DEF CheckCreated, semVars
<1>4. CASE WaitTillAllChildrenReady
    BY <1>4, AccountMove DEF WaitTillAllChildrenReady, Notifier!WaitForAll,
       Notifier!DecreaseValue, OnlySem
<1>5. CASE StartProduction
    BY <1>5, AccountMove DEF StartProduction, Notifier!NotifyAll,
       Notifier!IncreaseValue, OnlySem
<1>6. CASE SetupParentFails \/ FinalWaitFails \/ StopFails
    BY <1>6, AccountMove DEF SetupParentFails, FinalWaitFails, StopFails,
       SemopFails, Notifier!CallFails, OnlySem
<1>7. CASE WaitTillProductionComplete
    BY <1>7, AccountMove DEF WaitTillProductionComplete, Notifier!WaitForAll,
       Notifier!DecreaseValue, OnlySem
<1>8. CASE WaitTillAllMessagesConsumed
    BY <1>8, AccountMove DEF WaitTillAllMessagesConsumed, Notifier!WaitTillNone,
       Notifier!WaitForZero, Notifier!semVars, OnlySem
<1>9. CASE LoadConsumed \/ AssertCounts \/ WaitTillAllChildrenTerminate
    BY <1>9, AccountMove DEF LoadConsumed, AssertCounts,
       WaitTillAllChildrenTerminate, semVars
<1>10. CASE StoreDone
  <2>1. /\ Goto(Parent, "store_done", "notify_stop")
        /\ done_flag' = TRUE
        /\ UNCHANGED <<sem, countVars>>
    BY <1>10 DEF StoreDone, semVars
  <2>2. /\ TokenHolders' = TokenHolders /\ Poppers' = Poppers
        /\ SlotReturners' = SlotReturners /\ Announcers' = Announcers
        /\ Debtors' = Debtors
    BY <2>1, GotoCounts
  <2>3. QED
    BY <2>1, <2>2 DEF Accounts, WrittenAccount, ReadAccount, countVars
<1>11. CASE NotifyStop
  <2>1. /\ Goto(Parent, "notify_stop", "wait_children")
        /\ sem'["read"] = sem["read"]
        /\ UNCHANGED <<done_flag, countVars>>
    BY <1>11 DEF NotifyStop, Notifier!NotifyAll, Notifier!IncreaseValue, OnlySem
  <2>2. /\ TokenHolders' = TokenHolders /\ Poppers' = Poppers
        /\ SlotReturners' = SlotReturners /\ Announcers' = Announcers
        /\ Debtors' = Debtors
    BY <2>1, GotoCounts
  <2>3. done_flag
    BY <1>11 DEF NotifyStop, Goto, DoneStored
  <2>4. QED
    BY <2>1, <2>2, <2>3 DEF Accounts, WrittenAccount, ReadAccount, countVars
<1>12. CASE LeaveMain
    BY <1>12, AccountMove DEF LeaveMain, Notifier!Remove, OnlySem
<1>13. QED
    BY <1>1, <1>2, <1>3, <1>4, <1>5, <1>6, <1>7, <1>8, <1>9, <1>10, <1>11, <1>12
       DEF ParentStep

\* While somebody has still to construct shared_data the program is quiet.
LEMMA AttachQuiet ==
    ASSUME Barrier, NEW p \in Procs, pc[p] = "attach"
    PROVE  Quiet
BY CountFacts, QuietLabels DEF Barrier, Constructed, AllReady, ReadyChildren

\* Every step of a process keeps both accounts; one that constructs shared_data does so
\* while nothing has been counted.
LEMMA AccountProc ==
    ASSUME TypeInv, Barrier, Accounts, NEW p \in Procs, ProcStep(p)
    PROVE  Accounts'
<1> USE AccountTypes, SemFacts, CountFacts DEF Popping, Unpaid
<1>1. CASE AttachAndConstruct(p)
  <2>1. Quiet
    BY <1>1, AttachQuiet DEF AttachAndConstruct, Goto
  <2>2. UNCHANGED <<sem, done_flag, countVars>>
    BY <1>1, <2>1 DEF AttachAndConstruct, Quiet, semVars, countVars
  <2>3. CASE p = Parent
    BY <1>1, <2>2, <2>3, AccountMove DEF AttachAndConstruct
  <2>4. CASE p # Parent
    BY <1>1, <2>2, <2>4, AccountMove DEF AttachAndConstruct
  <2>5. QED
    BY <2>3, <2>4
<1>2. CASE AttachFails(p)
    BY <1>2, AccountMove
       DEF AttachFails, SemopFails, Notifier!CallFails, OnlySem, Failure
<1>3. CASE SignalReadiness(p)
    BY <1>3, AccountMove DEF SignalReadiness, Notifier!NotifyOne,
       Notifier!IncreaseValue, OnlySem, RunLabel
<1>4. CASE SignalReadinessFails(p)
    BY <1>4, AccountMove
       DEF SignalReadinessFails, SemopFails, Notifier!CallFails, OnlySem
<1>5. CASE IsProducer(p) /\ ProducerStep(p)
    BY <1>5, AccountProducer DEF Producers
<1>6. CASE ~IsProducer(p) /\ ConsumerStep(p)
    BY <1>6, AccountConsumer DEF Producers
<1>7. QED
    BY <1>1, <1>2, <1>3, <1>4, <1>5, <1>6 DEF ProcStep

\* The stop tokens are never added before done_flag is stored.
LEMMA DoneStoredStep ==
    TypeInv /\ Barrier /\ DoneStored /\ [Next]_vars => DoneStored'
<1> SUFFICES ASSUME TypeInv, Barrier, DoneStored, [Next]_vars PROVE DoneStored'
    OBVIOUS
<1> USE CountFacts DEF TypeInv, TypeOK
<1>1. CASE ParentStep
    BY <1>1 DEF ParentStep, CreateProcess, CreateProcessFails, CheckCreated,
       WaitTillAllChildrenReady, StartProduction, SetupParentFails,
       WaitTillProductionComplete, WaitTillAllMessagesConsumed, FinalWaitFails,
       LoadConsumed, AssertCounts, StoreDone, NotifyStop, StopFails,
       WaitTillAllChildrenTerminate, LeaveMain, SemopFails, OnlySem, Goto, DoneStored
<1>2. ASSUME NEW p \in Procs, ProcStep(p) PROVE DoneStored'
  <2>1. CASE AttachAndConstruct(p)
    <3>1. Quiet
      BY <2>1, AttachQuiet DEF AttachAndConstruct, Goto
    <3>2. QED
      BY <2>1, <3>1, QuietLabels DEF AttachAndConstruct, Goto, Quiet, DoneStored
  <2>2. CASE AttachFails(p) \/ SignalReadiness(p) \/ SignalReadinessFails(p)
    BY <2>2 DEF AttachFails, SignalReadiness, SignalReadinessFails, SemopFails,
       OnlySem, Goto, DoneStored, Failure, RunLabel
  <2>3. CASE ProducerStep(p)
    BY <2>3, ProducerMoves DEF Goto, DoneStored, Failure, AfterRun
  <2>4. CASE ConsumerStep(p)
    BY <2>4, ConsumerMoves DEF Goto, DoneStored
  <2>5. QED
    BY <1>2, <2>1, <2>2, <2>3, <2>4 DEF ProcStep
<1>3. CASE UNCHANGED vars
    BY <1>3 DEF vars, DoneStored
<1>4. QED
    BY <1>1, <1>2, <1>3 DEF Next

\* The accounts are inductive, given types, fork order and barrier.
LEMMA AccountStep ==
    TypeInv /\ ForkOrder /\ Barrier /\ DoneStored /\ Accounts /\ [Next]_vars
        => Accounts'
<1> SUFFICES ASSUME TypeInv, ForkOrder, Barrier, DoneStored, Accounts, [Next]_vars
             PROVE  Accounts'
    OBVIOUS
<1>1. CASE ParentStep
    BY <1>1, AccountParent
<1>2. CASE \E p \in Procs : ProcStep(p)
    BY <1>2, AccountProc
<1>3. CASE UNCHANGED vars
    BY <1>3 DEF vars, semVars, countVars, Accounts, WrittenAccount, ReadAccount,
       TokenHolders, Poppers, SlotReturners, Announcers, Debtors, CountAt
<1>4. QED
    BY <1>1, <1>2, <1>3 DEF Next

\* The accounts hold initially: no message, and as many free slots as the queue has.
LEMMA InitAccounts == Init => DoneStored /\ Accounts
<1> SUFFICES ASSUME Init PROVE DoneStored /\ Accounts
    OBVIOUS
<1>1. ASSUME NEW L, "fork" \notin L, "unborn" \notin L
      PROVE  CountAt(L) = 0
  <2>1. {p \in Procs : pc[p] \in L} = {}
    BY <1>1 DEF Init
  <2>2. QED
    BY <2>1, FS_EmptySet, Zenon DEF CountAt
<1>2. TokenHolders = 0 /\ Poppers = 0 /\ SlotReturners = 0 /\ Announcers = 0
    BY <1>1 DEF TokenHolders, Poppers, SlotReturners, Announcers, Popping
<1>3. Debtors = 0
  <2>1. {p \in Producers : pc[p] \in Unpaid} = {}
    BY DEF Init, Producers, Unpaid
  <2>2. QED
    BY <2>1, FS_EmptySet, Zenon DEF Debtors
<1>4. QED
    BY <1>2, <1>3, SemFacts, CountFacts
       DEF Init, Notifier!SemInit, Accounts, WrittenAccount, ReadAccount, DoneStored,
           Parent

-----------------------------------------------------------------------------
(* The theorems *)

\* IInv holds initially and is kept by every step.
LEMMA IInvInductive ==
    /\ Init => IInv
    /\ IInv /\ [Next]_vars => IInv'
<1>1. IInv <=> TypeInv /\ ForkOrder /\ Barrier /\ DoneStored /\ Accounts
    BY DEF IInv, TypeInv, Accounts
<1>2. Init => IInv
    BY <1>1, InitTypeInv, InitBarrier, InitAccounts
<1>3. IInv /\ [Next]_vars
        => (TypeInv /\ ForkOrder /\ Barrier /\ DoneStored /\ Accounts)'
    BY <1>1, TypeStep, ForkOrderStep, BarrierStep, DoneStoredStep, AccountStep
<1>4. QED
    BY <1>2, <1>3 DEF IInv, TypeInv, Accounts

\* The inductive invariant: the barrier at start-up, and the accounts of the
\* semaphores that signal a written and a read message.
THEOREM Invariance == Spec => []IInv
BY IInvInductive, PTL DEF Spec

\* What the counts are bounded by.
LEMMA DebtorBound ==
    /\ Debtors \in Nat /\ Debtors <= Cardinality(Producers)
    /\ Cardinality(Producers) \in Nat
    /\ \A p \in Producers : pc[p] \notin Unpaid => Debtors < Cardinality(Producers)
<1> DEFINE D == {p \in Producers : pc[p] \in Unpaid}
<1>1. D \subseteq Producers
    OBVIOUS
<1>2. /\ IsFiniteSet(D) /\ Cardinality(D) <= Cardinality(Producers)
      /\ Cardinality(D) = Cardinality(Producers) => D = Producers
    BY <1>1, ProcsFinite, FS_Subset
<1>3. Cardinality(D) \in Nat /\ Cardinality(Producers) \in Nat
    BY <1>2, ProcsFinite, FS_CardinalityType
<1>4. \A p \in Producers : pc[p] \notin Unpaid => D # Producers
    OBVIOUS
<1>5. Debtors = Cardinality(D)
    BY DEF Debtors
<1> HIDE DEF D
<1>6. QED
    BY <1>2, <1>3, <1>4, <1>5

\* The processes at some labels are counted by a natural number, and one that is there
\* is counted.
LEMMA CountTypes ==
    ASSUME NEW L
    PROVE  /\ CountAt(L) \in Nat
           /\ \A p \in Procs : pc[p] \in L => CountAt(L) >= 1
<1> DEFINE A == {q \in Procs : pc[q] \in L}
<1>1. IsFiniteSet(A)
    BY ProcsFinite, FS_Subset
<1>2. Cardinality(A) \in Nat
    BY <1>1, FS_CardinalityType
<1>3. ASSUME NEW p \in Procs, pc[p] \in L
      PROVE  Cardinality(A) >= 1
  <2>1. p \in A
    BY <1>3
  <2>2. Cardinality({p}) = 1 /\ {p} \subseteq A
    BY <2>1, FS_Singleton
  <2>3. Cardinality({p}) <= Cardinality(A)
    BY <1>1, <2>2, FS_Subset
  <2>4. QED
    BY <1>2, <2>2, <2>3
<1>4. QED
    BY <1>2, <1>3 DEF CountAt

\* No process constructs shared_data once production has started.
THEOREM NoLateConstructionHolds == Spec => []NoLateConstruction
<1>1. IInv => NoLateConstruction
    BY CountFacts, QuietLabels
       DEF IInv, Barrier, Quiet, Constructed, AllReady, ReadyChildren,
           NoLateConstruction
<1>2. QED
    BY <1>1, Invariance, PTL

\* No consumer counts a message before some producer has counted it.
THEOREM ConsumedAtMostProducedHolds == Spec => []ConsumedAtMostProduced
<1>1. IInv => ConsumedAtMostProduced
  <2> SUFFICES ASSUME IInv PROVE ConsumedAtMostProduced
    OBVIOUS
  <2>1. Poppers \in Nat
    BY CountTypes DEF Poppers
  <2>2. /\ produced_message_count \in Nat /\ consumed_message_count \in Nat
    BY DEF IInv, TypeOK
  <2>3. QED
    BY <2>1, <2>2 DEF IInv, WrittenAccount, ConsumedAtMostProduced
<1>2. QED
    BY <1>1, Invariance, PTL

\* What the account of free slots says about the two counters alone.
LEMMA ReadFacts ==
    ASSUME IInv
    PROVE  /\ produced_message_count \in Nat /\ consumed_message_count \in Nat
           /\ Capacity \in Nat
           /\ produced_message_count <= Capacity + consumed_message_count + Debtors
<1>1. SlotReturners \in Nat
    BY CountTypes DEF SlotReturners
<1>2. sem["read"] \in Nat /\ Capacity \in Nat /\ Debtors \in Nat
    BY SemFacts, CountFacts, DebtorBound DEF IInv, TypeOK, Notifier!SemTypeOK
<1>3. produced_message_count \in Nat /\ consumed_message_count \in Nat
    BY DEF IInv, TypeOK
<1>4. QED
    BY <1>1, <1>2, <1>3 DEF IInv, ReadAccount

\* Production runs ahead of consumption by at most the capacity and one message
\* of each producer.
THEOREM BacklogBoundHolds == Spec => []BacklogBound
<1>1. IInv => BacklogBound
    BY ReadFacts, DebtorBound DEF BacklogBound
<1>2. QED
    BY <1>1, Invariance, PTL

\* Every step advances one counter by one, within the bounds, or none.
LEMMA AccountSimulation ==
    IInv /\ [Next]_vars
        => [Account!Produce \/ Account!Consume]_<<produced_message_count,
                                                   consumed_message_count>>
<1> SUFFICES ASSUME IInv, [Next]_vars
             PROVE  \/ Account!Produce \/ Account!Consume
                    \/ UNCHANGED countVars
    BY DEF countVars
<1>0. TypeInv /\ Barrier /\ WrittenAccount
    BY DEF IInv, TypeInv
<1>1. CASE ParentStep
    BY <1>1 DEF ParentStep, CreateProcess, CreateProcessFails, CheckCreated,
       WaitTillAllChildrenReady, StartProduction, SetupParentFails,
       WaitTillProductionComplete, WaitTillAllMessagesConsumed, FinalWaitFails,
       LoadConsumed, AssertCounts, StoreDone, NotifyStop, StopFails,
       WaitTillAllChildrenTerminate, LeaveMain, SemopFails, OnlySem
<1>2. ASSUME NEW p \in Procs, ProcStep(p)
      PROVE  Account!Produce \/ Account!Consume \/ UNCHANGED countVars
  <2>1. CASE AttachAndConstruct(p)
    <3>1. Quiet
      BY <1>0, <2>1, AttachQuiet DEF AttachAndConstruct, Goto
    <3>2. QED
      BY <2>1, <3>1 DEF AttachAndConstruct, Quiet, countVars
  <2>2. CASE AttachFails(p) \/ SignalReadiness(p) \/ SignalReadinessFails(p)
    BY <2>2 DEF AttachFails, SignalReadiness, SignalReadinessFails, SemopFails,
       OnlySem
  <2>3. CASE IsProducer(p) /\ CountProduced(p)
    <3>1. p \in Producers /\ pc[p] = "count_produced"
      BY <1>2, <2>3 DEF Producers, CountProduced, Goto
    <3>2. Debtors < Cardinality(Producers)
      BY <3>1, DebtorBound DEF Unpaid
    <3>3. produced_message_count - consumed_message_count
            < Capacity + Cardinality(Producers)
      BY <3>2, ReadFacts, DebtorBound
    <3>4. QED
      BY <2>3, <3>3 DEF CountProduced, Account!Produce
  <2>4. CASE CountConsumed(p)
    <3>1. pc[p] \in Popping
      BY <2>4 DEF CountConsumed, Goto, Popping
    <3>2. Poppers >= 1 /\ Poppers \in Nat
      BY <3>1, CountTypes DEF Poppers
    <3>3. consumed_message_count < produced_message_count
      BY <1>0, <3>2, ReadFacts DEF WrittenAccount
    <3>4. QED
      BY <2>4, <3>3 DEF CountConsumed, Account!Consume
  <2>5. CASE ProducerStep(p) /\ ~CountProduced(p)
    BY <2>5 DEF ProducerStep, AwaitStart, AwaitStartFails, PushReserve, PushWrite,
       NotifyWritten, WaitRead, NotifyCompletion, ProduceFails, CreateMessageFails,
       SemopFails, OnlySem
  <2>6. CASE ConsumerStep(p) /\ ~CountConsumed(p)
    BY <2>6 DEF ConsumerStep, WaitMessage, WaitMessageFails, CheckDone, PopReserve,
       PopRead, NotifyRead, NotifyReadFails, SemopFails, OnlySem
  <2>7. QED
    BY <1>2, <2>1, <2>2, <2>3, <2>4, <2>5, <2>6 DEF ProcStep
<1>3. CASE UNCHANGED vars
    BY <1>3 DEF vars
<1>4. QED
    BY <1>1, <1>2, <1>3 DEF Next

\* The program implements the account: its counters start at zero, only ever
\* advance by one, never leave their bounds, and are never reset after that.
THEOREM Refinement == Spec => ImplementsAccount
<1>1. Init => Account!AccountInit
    BY DEF Init, Account!AccountInit
<1>2. IInv /\ [Next]_vars
        => [Account!Produce \/ Account!Consume]_<<produced_message_count,
                                                   consumed_message_count>>
    BY AccountSimulation
<1>3. QED
    BY <1>1, <1>2, Invariance, PTL DEF Spec, ImplementsAccount, Account!AccountSpec
=============================================================================
