------------------------ MODULE SleepingBarberProofs ------------------------
(***************************************************************************)
(* Proofs about SleepingBarber, for every number of generators, barbers,   *)
(* chairs, customers and failures.                                         *)
(***************************************************************************)
EXTENDS SleepingBarber, Counting

\* Process numbers and counts are naturals; generators and barbers are children.
LEMMA ShopFacts ==
    /\ GeneratorCount \in Nat /\ BarberCount \in Nat
    /\ ChildrenCount \in Nat /\ ChildrenCount >= 1
    /\ Chairs \in Nat /\ Chairs > 1 /\ MaxFaults \in Nat
    /\ Parent \in Procs /\ Parent \notin Children
    /\ Procs = Children \cup {Parent}
    /\ Generators \subseteq Children /\ Barbers \subseteq Children
    /\ Generators \cap Barbers = {}
BY ShopAssumption DEF ShopAssumption, ChildrenCount, Parent, Procs, Children, Generators, Barbers

\* The group sizes and the initial values of the semaphores, spelled out.
LEMMA SemFacts ==
    /\ GroupSize["readiness"] = ChildrenCount
    /\ GroupSize \in [Semaphores -> Nat]
    /\ InitValues = [s \in Semaphores |-> IF s = "empty_chair" THEN Chairs ELSE 0]
    /\ InitValues \in [Semaphores -> Nat]
    /\ {"readiness", "empty_chair", "customer_waiting"} \subseteq Semaphores
BY ShopFacts DEF GroupSize, InitValues, Semaphores

\* Where control may go.
LEMMA LabelFacts ==
    /\ Labels = {"fork", "attach", "wait_ready", "open", "notify_chairs", "notify_barbers",
                 "wait_children", "assert_counts", "exit_failure", "exit_success", "aborted",
                 "unborn", "signal_readiness",
                 "arrive", "generator_check", "take_number", "refuse", "push", "write_slot",
                 "notify_waiting",
                 "wait_customer", "barber_check", "pop", "read_slot", "trim", "notify_chair",
                 "drain", "drain_empty", "try_pop", "try_empty", "try_cas", "drain_read",
                 "drain_trim", "succeeded", "failed"}
BY DEF Labels, Draining, Exited

-----------------------------------------------------------------------------
(* Type correctness *)

\* The operations of the semaphore set keep its type.
LEMMA SemType ==
    ASSUME Notifier!SemTypeOK, NEW s \in Semaphores
    PROVE  /\ Notifier!NotifyOne(s) => Notifier!SemTypeOK'
           /\ Notifier!NotifyAll(s) => Notifier!SemTypeOK'
           /\ Notifier!WaitForOne(s) => Notifier!SemTypeOK'
           /\ Notifier!WaitForAll(s) => Notifier!SemTypeOK'
           /\ Notifier!NoneToTake(s) => Notifier!SemTypeOK'
           /\ Notifier!CallFails => Notifier!SemTypeOK'
           /\ Notifier!Remove => Notifier!SemTypeOK'
<1> USE SemFacts, ShopFacts DEF Notifier!SemTypeOK
<1>1. ASSUME NEW n \in Nat, Notifier!IncreaseValue(s, n)
      PROVE  Notifier!SemTypeOK'
    BY <1>1 DEF Notifier!IncreaseValue
<1>2. ASSUME NEW n \in Nat, Notifier!DecreaseValue(s, n)
      PROVE  Notifier!SemTypeOK'
    BY <1>2 DEF Notifier!DecreaseValue
<1>3. ASSUME Notifier!WouldWait(s, 1) PROVE Notifier!SemTypeOK'
    BY <1>3 DEF Notifier!WouldWait, Notifier!semVars
<1>4. ASSUME Notifier!CallFails PROVE Notifier!SemTypeOK'
    BY <1>4 DEF Notifier!CallFails
<1>5. ASSUME Notifier!Remove PROVE Notifier!SemTypeOK'
    BY <1>5 DEF Notifier!Remove
<1>6. GroupSize[s] \in Nat
    OBVIOUS
<1>7. QED
    BY <1>1, <1>2, <1>3, <1>4, <1>5, <1>6
       DEF Notifier!NotifyOne, Notifier!NotifyAll, Notifier!WaitForOne,
           Notifier!WaitForAll, Notifier!NoneToTake

\* The ring's indices stay inside the array.
LEMMA SuccType == \A s \in Ring!Slots : Ring!Succ(s) \in Ring!Slots
BY ShopFacts DEF Ring!Slots, Ring!Succ

\* Reserving, copying and constructing keep the types of the ring.
LEMMA RingType ==
    ASSUME Ring!RingTypeOK, NEW p \in Procs
    PROVE  /\ Ring!ReserveWrite(p) => Ring!RingTypeOK'
           /\ Ring!ReserveRead(p) => Ring!RingTypeOK'
           /\ Ring!WriteSlot(p, Customer) => Ring!RingTypeOK'
           /\ \A element \in Ring!Elements : Ring!ReadSlot(p, element) => Ring!RingTypeOK'
           /\ Ring!Construct => Ring!RingTypeOK'
<1> USE DEF Ring!RingTypeOK
<1>1. ASSUME Ring!ReserveWrite(p) PROVE Ring!RingTypeOK'
    BY <1>1, SuccType DEF Ring!ReserveWrite
<1>2. ASSUME Ring!ReserveRead(p) PROVE Ring!RingTypeOK'
    BY <1>2, SuccType DEF Ring!ReserveRead
<1>3. ASSUME Ring!WriteSlot(p, Customer) PROVE Ring!RingTypeOK'
  <2>1. data' \in [Ring!Slots -> Ring!Elements]
    BY <1>3 DEF Ring!WriteSlot, Ring!Elements
  <2>2. writing' \in [Procs -> Ring!Slots \cup {Ring!NoSlot}]
    BY <1>3 DEF Ring!WriteSlot
  <2>3. clashed' \in SUBSET Procs
    BY <1>3 DEF Ring!WriteSlot, Ring!OtherWriters
  <2>4. QED
    BY <1>3, <2>1, <2>2, <2>3 DEF Ring!WriteSlot
<1>4. ASSUME NEW element \in Ring!Elements, Ring!ReadSlot(p, element) PROVE Ring!RingTypeOK'
    BY <1>4 DEF Ring!ReadSlot
<1>5. ASSUME Ring!Construct PROVE Ring!RingTypeOK'
    BY <1>5, ShopFacts DEF Ring!Construct, Ring!Slots, Ring!Elements
<1>6. QED
    BY <1>1, <1>2, <1>3, <1>4, <1>5

\* The state main.cpp starts the parent in has the right types.
LEMMA InitType == Init => TypeOK
<1> SUFFICES ASSUME Init PROVE TypeOK
    OBVIOUS
<1>1. Notifier!SemTypeOK
  <2>1. sem \in [Semaphores -> Nat] /\ faults \in 0 .. MaxFaults
    BY SemFacts, ShopFacts DEF Init, Notifier!SemInit
  <2>2. removed \in BOOLEAN
    BY DEF Init, Notifier!SemInit
  <2>3. QED
    BY <2>1, <2>2 DEF Notifier!SemTypeOK
<1>2. Ring!RingTypeOK
    BY ShopFacts DEF Init, Ring!RingInit, Ring!RingTypeOK, Ring!Slots, Ring!Elements, Ring!NoSlot
<1>3. seen \in [Barbers -> Ring!Slots]
    BY ShopFacts DEF Init, Ring!Slots
<1>4. pc \in [Procs -> Labels] /\ forked \in 0 .. ChildrenCount
    BY ShopFacts, LabelFacts DEF Init
<1>5. shop_closed \in BOOLEAN /\ disturbed \in BOOLEAN
    BY DEF Init
<1>6. QED
    BY <1>1, <1>2, <1>3, <1>4, <1>5, ShopFacts DEF Init, TypeOK, Answers

\* A step that only touches control and the semaphore set.
LEMMA OnlySemType ==
    ASSUME TypeOK, OnlySem, Notifier!SemTypeOK', pc' \in [Procs -> Labels]
    PROVE  TypeOK'
BY DEF TypeOK, OnlySem, counts, ringVars, locals, Ring!RingTypeOK

\* A step that only touches control.
LEMMA OnlyControlType ==
    ASSUME TypeOK, OnlyControl, pc' \in [Procs -> Labels]
    PROVE  TypeOK'
<1>1. Notifier!SemTypeOK'
    BY DEF TypeOK, OnlyControl, semVars, Notifier!SemTypeOK
<1>2. QED
    BY <1>1, OnlySemType DEF OnlyControl

\* A step that only touches control and the ring.
LEMMA OnlyRingType ==
    ASSUME TypeOK, OnlyRing, Ring!RingTypeOK', pc' \in [Procs -> Labels]
    PROVE  TypeOK'
BY DEF TypeOK, OnlyRing, counts, semVars, locals, Notifier!SemTypeOK

\* Control goes from label to label.
LEMMA GotoType ==
    ASSUME TypeOK, NEW p, NEW from, NEW to \in Labels, Goto(p, from, to)
    PROVE  pc' \in [Procs -> Labels]
BY DEF TypeOK, Goto

\* The error branch of any semaphore operation.
LEMMA SemopFailsType ==
    ASSUME TypeOK, NEW p, NEW from, NEW to \in Labels, SemopFails(p, from, to)
    PROVE  TypeOK'
<1>1. Notifier!SemTypeOK'
    BY SemType, SemFacts DEF SemopFails, TypeOK
<1>2. QED
    BY <1>1, GotoType, OnlySemType DEF SemopFails

\* Every other step on the semaphore set alone.
LEMMA SemopType ==
    ASSUME TypeOK, NEW p, NEW from, NEW to \in Labels, Goto(p, from, to), OnlySem,
           NEW s \in Semaphores,
           \/ Notifier!NotifyOne(s) \/ Notifier!NotifyAll(s)
           \/ Notifier!WaitForAll(s) \/ Notifier!Remove
    PROVE  TypeOK'
<1>1. Notifier!SemTypeOK'
    BY SemType DEF TypeOK
<1>2. QED
    BY <1>1, GotoType, OnlySemType

\* Every step of the parent keeps the types.
LEMMA ParentType ==
    ASSUME TypeOK, ParentStep
    PROVE  TypeOK'
<1> USE ShopFacts, SemFacts, LabelFacts
<1>1. CASE CreateProcess
    BY <1>1 DEF CreateProcess, TypeOK, semVars, counts, ringVars, locals,
       Ring!RingTypeOK, Notifier!SemTypeOK, Children, ChildrenCount
<1>2. CASE CreateProcessFails
  <2>1. Notifier!SemTypeOK' /\ forked' \in 0 .. ChildrenCount
    BY <1>2, ShopAssumption
       DEF CreateProcessFails, TypeOK, Notifier!SemTypeOK, ChildrenCount, ShopAssumption
  <2>2. QED
    BY <1>2, <2>1 DEF CreateProcessFails, TypeOK, counts, ringVars, locals, Ring!RingTypeOK
<1>3. CASE CheckCreated \/ AssertCounts
  <2>1. OnlyControl /\ pc' \in [Procs -> Labels]
    BY <1>3 DEF CheckCreated, AssertCounts, Goto, TypeOK
  <2>2. QED
    BY <2>1, OnlyControlType
<1>4. CASE WaitTillAllChildrenReady
    BY <1>4, SemopType DEF WaitTillAllChildrenReady
<1>5. CASE WaitTillAllChildrenReadyFails
    BY <1>5, SemopFailsType DEF WaitTillAllChildrenReadyFails
<1>6. CASE CloseShop
    BY <1>6 DEF CloseShop, Goto, TypeOK, semVars, counts, ringVars, locals,
       Ring!RingTypeOK, Notifier!SemTypeOK
<1>7. CASE NotifyChairs
    BY <1>7, SemopType, SemopFailsType DEF NotifyChairs
<1>8. CASE NotifyBarbers
    BY <1>8, SemopType, SemopFailsType DEF NotifyBarbers
<1>9. CASE WaitTillAllChildrenTerminate
  <2>1. CASE Goto(Parent, "wait_children", "assert_counts") /\ OnlyControl
    BY <2>1, GotoType, OnlyControlType
  <2>2. CASE SemopFails(Parent, "wait_children", "exit_failure")
    BY <2>2, SemopFailsType
  <2>3. QED
    BY <1>9, <2>1, <2>2 DEF WaitTillAllChildrenTerminate
<1>10. CASE LeaveMain
    BY <1>10, SemopType DEF LeaveMain
<1>11. QED
    BY <1>1, <1>2, <1>3, <1>4, <1>5, <1>6, <1>7, <1>8, <1>9, <1>10 DEF ParentStep

\* Attaching and signalling readiness keep the types.
LEMMA SetupType ==
    ASSUME TypeOK, NEW p \in Procs, SetupStep(p)
    PROVE  TypeOK'
<1> USE LabelFacts, ShopFacts, SemFacts
<1>1. CASE AttachAndConstruct(p)
  <2>1. Ring!RingTypeOK' /\ pc' \in [Procs -> Labels]
    BY <1>1, RingType DEF AttachAndConstruct, Goto, TypeOK
  <2>2. shop_closed' \in BOOLEAN /\ disturbed' \in BOOLEAN
    BY <1>1 DEF AttachAndConstruct
  <2>3. QED
    BY <1>1, <2>1, <2>2 DEF AttachAndConstruct, TypeOK, semVars, locals, Notifier!SemTypeOK
<1>2. CASE AttachFails(p)
    BY <1>2, SemopFailsType DEF AttachFails
<1>3. CASE SignalReadiness(p)
    BY <1>3, SemopType DEF SignalReadiness
<1>4. CASE SignalReadinessFails(p)
    BY <1>4, SemopFailsType DEF SignalReadinessFails
<1>5. QED
    BY <1>1, <1>2, <1>3, <1>4 DEF SetupStep

\* Every step of a generator keeps the types.
LEMMA GeneratorType ==
    ASSUME TypeOK, NEW p \in Generators, GeneratorStep(p)
    PROVE  TypeOK'
<1> USE LabelFacts, ShopFacts, SemFacts
<1>0. p \in Procs /\ p \in Children
    OBVIOUS
<1>1. CASE Arrive(p)
  <2>1. Notifier!SemTypeOK'
    BY <1>1, SemType DEF Arrive, TypeOK
  <2>2. answer' \in [Children -> Answers] /\ pc' \in [Procs -> Labels]
    BY <1>1 DEF Arrive, TypeOK, Answers, Goto
  <2>3. QED
    BY <1>1, <2>1, <2>2 DEF Arrive, TypeOK, counts, ringVars, Ring!RingTypeOK
<1>2. CASE GeneratorCheck(p)
  <2>1. OnlyControl /\ pc' \in [Procs -> Labels]
    BY <1>2 DEF GeneratorCheck, Goto, TypeOK
  <2>2. QED
    BY <2>1, OnlyControlType
<1>3. CASE TakeNumber(p)
  <2>1. answer[p] \in {"taken", "again", "error"}
    BY <1>0 DEF TypeOK, Answers
  <2>2. pc' \in [Procs -> Labels]
    BY <1>3, <2>1 DEF TakeNumber, Goto, TypeOK
  <2>3. QED
    BY <1>3, <2>2 DEF TakeNumber, TypeOK, semVars, ringVars, locals,
       Ring!RingTypeOK, Notifier!SemTypeOK
<1>4. CASE Refuse(p)
    BY <1>4 DEF Refuse, Goto, TypeOK, semVars, ringVars, locals,
       Ring!RingTypeOK, Notifier!SemTypeOK
<1>5. CASE PushReserve(p) \/ PushWrite(p)
  <2>1. OnlyRing /\ Ring!RingTypeOK' /\ pc' \in [Procs -> Labels]
    BY <1>0, <1>5, RingType DEF PushReserve, PushWrite, Goto, TypeOK
  <2>2. QED
    BY <2>1, OnlyRingType
<1>6. CASE NotifyWaiting(p)
    BY <1>6, SemopType, SemopFailsType DEF NotifyWaiting
<1>7. QED
    BY <1>1, <1>2, <1>3, <1>4, <1>5, <1>6 DEF GeneratorStep

\* Every step of a barber keeps the types.
LEMMA BarberType ==
    ASSUME TypeOK, NEW p \in Barbers, BarberStep(p)
    PROVE  TypeOK'
<1> USE LabelFacts, ShopFacts, SemFacts
<1>0. p \in Procs /\ p \in Children
    OBVIOUS
<1>1. CASE WaitForCustomer(p)
  <2>1. Notifier!SemTypeOK'
    BY <1>1, SemType DEF WaitForCustomer, TypeOK
  <2>2. answer' \in [Children -> Answers] /\ pc' \in [Procs -> Labels]
    BY <1>1 DEF WaitForCustomer, TypeOK, Answers, Goto
  <2>3. QED
    BY <1>1, <2>1, <2>2 DEF WaitForCustomer, TypeOK, counts, ringVars, Ring!RingTypeOK
<1>2. CASE BarberCheck(p)
  <2>1. OnlyControl
    BY <1>2 DEF BarberCheck
  <2>2. answer[p] \in {"taken", "error"}
    BY <1>0 DEF TypeOK, Answers
  <2>3. pc' \in [Procs -> Labels]
    BY <1>2, <2>2 DEF BarberCheck, Goto, TypeOK
  <2>4. QED
    BY <2>1, <2>3, OnlyControlType
<1>3. CASE PopReserve(p) \/ PopRead(p) \/ DrainCas(p)
  <2>1. OnlyRing /\ Ring!RingTypeOK' /\ pc' \in [Procs -> Labels]
    BY <1>0, <1>3, RingType DEF PopReserve, PopRead, DrainCas, Goto, TypeOK, ringVars, Ring!RingTypeOK
  <2>2. QED
    BY <2>1, OnlyRingType
<1>4. CASE TrimHair(p)
    BY <1>4 DEF TrimHair, Goto, TypeOK, semVars, ringVars, locals,
       Ring!RingTypeOK, Notifier!SemTypeOK
<1>5. CASE NotifyChair(p)
    BY <1>5, SemopType, SemopFailsType DEF NotifyChair
<1>6. CASE DrainLoad(p)
  <2>1. seen' \in [Barbers -> Ring!Slots] /\ pc' \in [Procs -> Labels]
    BY <1>6 DEF DrainLoad, Goto, TypeOK, Ring!RingTypeOK
  <2>2. QED
    BY <1>6, <2>1 DEF DrainLoad, OnlySeen, TypeOK, semVars, counts, ringVars,
       Ring!RingTypeOK, Notifier!SemTypeOK
<1>7. CASE DrainEmpty(p)
  <2>1. OnlyControl /\ pc' \in [Procs -> Labels]
    BY <1>7 DEF DrainEmpty, Goto, TypeOK
  <2>2. QED
    BY <2>1, OnlyControlType
<1>8. QED
    BY <1>1, <1>2, <1>3, <1>4, <1>5, <1>6, <1>7 DEF BarberStep

\* Types are inductive.
LEMMA TypeStep == TypeOK /\ [Next]_vars => TypeOK'
<1> SUFFICES ASSUME TypeOK, [Next]_vars PROVE TypeOK'
    OBVIOUS
<1>1. CASE UNCHANGED vars
    BY <1>1 DEF vars, TypeOK, semVars, counts, ringVars, locals, Ring!RingTypeOK, Notifier!SemTypeOK
<1>2. CASE \E p \in Procs : Step(p)
    BY <1>2, ParentType, SetupType, GeneratorType, BarberType DEF Step
<1>3. QED
    BY <1>1, <1>2 DEF Next

-----------------------------------------------------------------------------
(* Opening before closing *)

NotReady == {"unborn", "attach", "signal_readiness"}
Before == {"fork", "attach", "wait_ready"}
Notifying == {"notify_chairs", "notify_barbers"}

\* The children that are ready are finitely many; only all of them are as many as all.
LEMMA ReadyFacts ==
    /\ IsFiniteSet(Children) /\ Cardinality(Children) = ChildrenCount
    /\ IsFiniteSet(Ready) /\ Cardinality(Ready) \in Nat
    /\ Cardinality(Ready) >= ChildrenCount => Ready = Children
<1>1. IsFiniteSet(Children) /\ Cardinality(Children) = ChildrenCount
    BY ShopFacts, FS_Interval DEF Children
<1>2. Ready \subseteq Children
    BY DEF Ready
<1>3. IsFiniteSet(Ready) /\ Cardinality(Ready) \in Nat /\ Cardinality(Ready) <= ChildrenCount
    BY <1>1, <1>2, FS_Subset, FS_CardinalityType
<1>4. Cardinality(Ready) = Cardinality(Children) => Ready = Children
    BY <1>1, <1>2, FS_Subset
<1>5. QED
    BY <1>1, <1>3, <1>4, ShopFacts

\* More children are ready after a step than before.
LEMMA ReadyGrows ==
    ASSUME Ready \subseteq Ready'
    PROVE  Cardinality(Ready) <= Cardinality(Ready') /\ Cardinality(Ready') \in Nat
<1>1. IsFiniteSet(Ready')
  <2>1. Ready' \subseteq Children
    BY DEF Ready
  <2>2. QED
    BY <2>1, ReadyFacts, FS_Subset
<1>2. QED
    BY <1>1, FS_Subset, FS_CardinalityType

\* A child that is ready goes on.
LEMMA ReadyChildMoves ==
    ASSUME TypeOK, OpenBeforeClosed, NEW p \in Children, NEW from, NEW to, Goto(p, from, to),
           from \notin NotReady, to \notin NotReady,
           forked' = forked, shop_closed' = shop_closed,
           sem'["readiness"] = sem["readiness"]
    PROVE  OpenBeforeClosed'
<1>1. /\ pc \in [Procs -> Labels] /\ p \in Procs /\ p # Parent /\ Parent \in Procs
      /\ \A q \in Procs : pc'[q] = IF q = p THEN to ELSE pc[q]
      /\ pc[p] = from /\ Children \subseteq Procs
    BY ShopFacts DEF TypeOK, Goto
<1>2. Ready' = Ready
    BY <1>1 DEF Ready, NotReady
<1>3. \A c \in Children : c > forked => pc'[c] = "unborn"
    BY <1>1 DEF OpenBeforeClosed, NotReady
<1>4. pc'[Parent] = pc[Parent]
    BY <1>1
<1>5. QED
    BY <1>2, <1>3, <1>4 DEF OpenBeforeClosed

\* The parent goes on, and neither opens nor closes.
LEMMA ParentMoves ==
    ASSUME TypeOK, OpenBeforeClosed, NEW from, NEW to, Goto(Parent, from, to),
           to \in Before => from \in Before,
           to # "open",
           to \in Notifying => from \in Notifying,
           forked' = forked, shop_closed' = shop_closed,
           sem'["readiness"] = sem["readiness"]
    PROVE  OpenBeforeClosed'
<1>1. /\ pc \in [Procs -> Labels] /\ Parent \in Procs /\ Parent \notin Children
      /\ \A q \in Procs : pc'[q] = IF q = Parent THEN to ELSE pc[q]
      /\ pc[Parent] = from /\ Children \subseteq Procs
    BY ShopFacts DEF TypeOK, Goto
<1>2. Ready' = Ready /\ \A c \in Children : pc'[c] = pc[c]
    BY <1>1 DEF Ready
<1>3. pc'[Parent] = to /\ pc[Parent] = from
    BY <1>1
<1>4. QED
    BY <1>2, <1>3 DEF OpenBeforeClosed, Before, Notifying

\* The value of one semaphore while another changes, or a call fails.
LEMMA OtherSem ==
    ASSUME TypeOK, NEW s \in Semaphores \ {"readiness"}
    PROVE  /\ Notifier!NotifyOne(s) => sem'["readiness"] = sem["readiness"]
           /\ Notifier!NotifyAll(s) => sem'["readiness"] = sem["readiness"]
           /\ Notifier!WaitForOne(s) => sem'["readiness"] = sem["readiness"]
           /\ Notifier!NoneToTake(s) => sem'["readiness"] = sem["readiness"]
BY SemFacts
   DEF TypeOK, Notifier!SemTypeOK, Notifier!NotifyOne, Notifier!NotifyAll, Notifier!WaitForOne,
       Notifier!NoneToTake, Notifier!IncreaseValue, Notifier!DecreaseValue, Notifier!WouldWait,
       Notifier!semVars

\* The parent's steps open the shop when all are ready, and close it only when it is open.
LEMMA ParentOpening ==
    ASSUME TypeOK, OpenBeforeClosed, ParentStep
    PROVE  OpenBeforeClosed'
<1> USE DEF Before, Notifying
<1>1. CASE CreateProcess
  <2>1. /\ pc \in [Procs -> Labels] /\ forked \in Nat /\ forked + 1 \in Children
        /\ forked + 1 # Parent /\ Children \subseteq Procs /\ Children \subseteq Nat /\ Parent \in Procs
    BY <1>1, ShopFacts DEF CreateProcess, TypeOK, Children, Parent
  <2>2. pc[forked + 1] = "unborn" /\ pc[Parent] = "fork" /\ ~shop_closed
    BY <1>1, <2>1 DEF CreateProcess, OpenBeforeClosed
  <2>3. \A q \in Procs : pc'[q] = IF q = forked + 1 THEN "attach" ELSE pc[q]
    BY <1>1, <2>1 DEF CreateProcess
  <2>4. Ready' = Ready /\ pc'[Parent] = "fork"
    BY <2>1, <2>2, <2>3 DEF Ready
  <2>5. \A c \in Children : c > forked + 1 => pc'[c] = "unborn"
    BY <2>1, <2>3 DEF OpenBeforeClosed
  <2>6. QED
    BY <1>1, <2>2, <2>4, <2>5 DEF CreateProcess, OpenBeforeClosed, semVars
<1>2. CASE CreateProcessFails
  <2>1. forked' \in Nat /\ forked \in Nat /\ forked <= forked' /\ Children \subseteq Nat
    BY <1>2, ShopFacts DEF CreateProcessFails, TypeOK, Children
  <2>2. \A c \in Children : c > forked' => pc[c] = "unborn"
    BY <2>1 DEF OpenBeforeClosed
  <2>3. QED
    BY <1>2, <2>2 DEF CreateProcessFails, OpenBeforeClosed, Ready
<1>3. CASE CheckCreated \/ AssertCounts
    BY <1>3, ParentMoves DEF CheckCreated, AssertCounts, OnlyControl, OnlySem, semVars
<1>4. CASE WaitTillAllChildrenReady
  <2>1. /\ sem["readiness"] >= ChildrenCount /\ sem["readiness"] \in Nat
        /\ sem'["readiness"] = sem["readiness"] - ChildrenCount
    BY <1>4, SemFacts
       DEF WaitTillAllChildrenReady, Notifier!WaitForAll, Notifier!DecreaseValue, TypeOK,
           Notifier!SemTypeOK
  <2>2. Ready = Children
    BY <2>1, ReadyFacts, ShopFacts DEF OpenBeforeClosed
  <2>3. /\ pc[Parent] = "wait_ready" /\ pc'[Parent] = "open" /\ \A c \in Children : pc'[c] = pc[c]
        /\ forked' = forked /\ shop_closed' = shop_closed
    BY <1>4, ShopFacts DEF WaitTillAllChildrenReady, Goto, TypeOK, OnlySem
  <2>4. Ready' = Ready
    BY <2>3 DEF Ready
  <2>5. sem'["readiness"] <= Cardinality(Ready)
    BY <2>1, ReadyFacts, ShopFacts DEF OpenBeforeClosed
  <2>6. QED
    BY <2>2, <2>3, <2>4, <2>5 DEF OpenBeforeClosed
<1>5. CASE CloseShop
  <2>1. /\ pc[Parent] = "open" /\ pc'[Parent] = "notify_chairs"
        /\ \A c \in Children : pc'[c] = pc[c]
        /\ forked' = forked /\ sem' = sem /\ shop_closed'
    BY <1>5, ShopFacts DEF CloseShop, Goto, TypeOK, semVars
  <2>2. Ready' = Ready
    BY <2>1 DEF Ready
  <2>3. QED
    BY <2>1, <2>2 DEF OpenBeforeClosed
<1>6. CASE NotifyChairs \/ NotifyBarbers
  <2>1. /\ sem'["readiness"] = sem["readiness"] /\ OnlySem
        /\ \/ Goto(Parent, "notify_chairs", "notify_barbers")
           \/ Goto(Parent, "notify_barbers", "wait_children")
    BY <1>6, OtherSem, SemFacts
       DEF NotifyChairs, NotifyBarbers, SemopFails, Notifier!CallFails
  <2>2. QED
    BY <2>1, ParentMoves DEF OnlySem
<1>7. CASE WaitTillAllChildrenReadyFails \/ WaitTillAllChildrenTerminate \/ LeaveMain
  <2>1. /\ sem' = sem /\ OnlySem
        /\ \E from, to : /\ Goto(Parent, from, to)
                         /\ to \in {"exit_failure", "assert_counts", "failed", "succeeded"}
    BY <1>7 DEF WaitTillAllChildrenReadyFails, WaitTillAllChildrenTerminate, LeaveMain, SemopFails,
       Notifier!CallFails, Notifier!Remove, OnlyControl, semVars
  <2>2. QED
    BY <2>1, ParentMoves DEF OnlySem
<1>8. QED
    BY <1>1, <1>2, <1>3, <1>4, <1>5, <1>6, <1>7 DEF ParentStep

\* Nobody attaches once the shop has closed, and a child is ready before it signals.
LEMMA SetupOpening ==
    ASSUME TypeOK, OpenBeforeClosed, NEW p \in Procs, SetupStep(p)
    PROVE  OpenBeforeClosed' /\ (shop_closed' => shop_closed)
<1>0. /\ pc \in [Procs -> Labels] /\ Parent \in Procs /\ Parent \notin Children
      /\ Children \subseteq Procs /\ Procs = Children \cup {Parent}
    BY ShopFacts DEF TypeOK
<1>1. CASE AttachAndConstruct(p)
  <2>1. /\ pc[p] = "attach" /\ ~shop_closed' /\ sem' = sem /\ forked' = forked
        /\ \A q \in Procs : pc'[q] = IF q # p THEN pc[q]
                              ELSE IF p = Parent THEN "wait_ready" ELSE "signal_readiness"
    BY <1>0, <1>1 DEF AttachAndConstruct, Goto, semVars
  <2>2. Ready' = Ready
    BY <1>0, <2>1 DEF Ready
  <2>3. \A c \in Children : c > forked => pc'[c] = "unborn"
    BY <1>0, <2>1 DEF OpenBeforeClosed
  <2>4. p # Parent => Ready # Children
    BY <1>0, <2>1 DEF Ready
  <2>5. ~shop_closed /\ (pc[Parent] # "open" \/ p = Parent)
    BY <2>1, <2>4 DEF OpenBeforeClosed
  <2>6. pc'[Parent] = "wait_ready" \/ (p # Parent /\ pc'[Parent] = pc[Parent])
    BY <1>0, <2>1
  <2>7. pc'[Parent] # "open" /\ pc'[Parent] \notin Notifying
    BY <2>5, <2>6 DEF OpenBeforeClosed, Notifying
  <2>8. QED
    BY <2>1, <2>2, <2>3, <2>7 DEF OpenBeforeClosed, Notifying
<1>2. CASE AttachFails(p) /\ p = Parent
    BY <1>2, ParentMoves
       DEF AttachFails, SemopFails, Notifier!CallFails, OnlySem, Before, Notifying
<1>3. CASE p \in Children /\ (AttachFails(p) \/ SignalReadinessFails(p) \/ SignalReadiness(p))
  <2>1. /\ pc[p] \in {"attach", "signal_readiness"} /\ pc'[p] \notin NotReady
        /\ \A q \in Procs \ {p} : pc'[q] = pc[q]
        /\ forked' = forked /\ shop_closed' = shop_closed
    BY <1>0, <1>3
       DEF AttachFails, SignalReadinessFails, SignalReadiness, SemopFails, Goto, OnlySem, NotReady
  <2>2. p \notin Ready /\ p \in Ready' /\ Ready' = Ready \cup {p}
    BY <1>0, <1>3, <2>1 DEF Ready, NotReady
  <2>3. Cardinality(Ready') = Cardinality(Ready) + 1
    BY <2>2, ReadyFacts, FS_AddElement
  <2>4. sem'["readiness"] <= sem["readiness"] + 1 /\ sem["readiness"] \in Nat /\ sem'["readiness"] \in Nat
    BY <1>3, SemFacts
       DEF AttachFails, SignalReadinessFails, SignalReadiness, SemopFails, TypeOK,
           Notifier!SemTypeOK, Notifier!CallFails, Notifier!NotifyOne, Notifier!IncreaseValue
  <2>5. sem'["readiness"] <= Cardinality(Ready')
    BY <2>3, <2>4, ReadyFacts DEF OpenBeforeClosed
  <2>6. Ready # Children /\ pc'[Parent] = pc[Parent]
    BY <1>0, <1>3, <2>1, <2>2
  <2>7. \A c \in Children : c > forked => pc'[c] = "unborn"
    BY <1>0, <1>3, <2>1 DEF OpenBeforeClosed
  <2>8. QED
    BY <2>1, <2>5, <2>6, <2>7 DEF OpenBeforeClosed
<1>4. shop_closed' => shop_closed
    BY <1>1 DEF SetupStep, AttachAndConstruct, AttachFails, SignalReadiness, SignalReadinessFails,
       SemopFails, OnlySem
<1>6. QED
    BY <1>0, <1>1, <1>2, <1>3, <1>4 DEF SetupStep

\* Generators and barbers at work leave the barrier and the parent alone.
LEMMA WorkOpening ==
    ASSUME TypeOK, OpenBeforeClosed, NEW p \in Children,
           \/ p \in Generators /\ GeneratorStep(p)
           \/ p \in Barbers /\ BarberStep(p)
    PROVE  OpenBeforeClosed' /\ shop_closed' = shop_closed
<1>1. /\ forked' = forked /\ shop_closed' = shop_closed
      /\ sem'["readiness"] = sem["readiness"]
  <2>1. p \in Generators /\ GeneratorStep(p) =>
           /\ forked' = forked /\ shop_closed' = shop_closed
           /\ sem'["readiness"] = sem["readiness"]
    BY OtherSem, SemFacts
       DEF GeneratorStep, Arrive, GeneratorCheck, TakeNumber, Refuse, PushReserve, PushWrite,
           NotifyWaiting, SemopFails, Notifier!CallFails, OnlyControl, OnlySem, OnlyRing, semVars
  <2>2. p \in Barbers /\ BarberStep(p) =>
           /\ forked' = forked /\ shop_closed' = shop_closed
           /\ sem'["readiness"] = sem["readiness"]
    BY OtherSem, SemFacts
       DEF BarberStep, WaitForCustomer, BarberCheck, PopReserve, PopRead, TrimHair, NotifyChair,
           DrainLoad, DrainEmpty, DrainCas, SemopFails, Notifier!CallFails, OnlyControl, OnlySem,
           OnlyRing, OnlySeen, semVars
  <2>3. QED
    BY <2>1, <2>2
<1>2. \E from, to : Goto(p, from, to) /\ from \notin NotReady /\ to \notin NotReady
  <2>1. answer[p] \in {"taken", "again", "error"} /\ shop_closed \in BOOLEAN
    BY DEF TypeOK, Answers
  <2>2. p \in Generators /\ GeneratorStep(p) =>
           \E from, to : Goto(p, from, to) /\ from \notin NotReady /\ to \notin NotReady
    BY <2>1
       DEF GeneratorStep, Arrive, GeneratorCheck, TakeNumber, Refuse, PushReserve, PushWrite,
           NotifyWaiting, SemopFails, NotReady
  <2>3. p \in Barbers => answer[p] # "again"
    BY DEF TypeOK
  <2>4. p \in Barbers /\ BarberStep(p) =>
           \E from, to : Goto(p, from, to) /\ from \notin NotReady /\ to \notin NotReady
    BY <2>1, <2>3
       DEF BarberStep, WaitForCustomer, BarberCheck, PopReserve, PopRead, TrimHair, NotifyChair,
           DrainLoad, DrainEmpty, DrainCas, SemopFails, NotReady
  <2>5. QED
    BY <2>2, <2>4
<1>3. QED
    BY <1>1, <1>2, ReadyChildMoves

-----------------------------------------------------------------------------
(* The account of the chairs *)

\* Who holds a chair.
SeatedGenerators ==
    {p \in Generators :
        \/ answer[p] = "taken" /\ pc[p] \in {"generator_check", "take_number"}
        \/ pc[p] \in {"push", "write_slot", "notify_waiting"}}
SeatedBarbers ==
    {p \in Barbers :
        \/ answer[p] = "taken" /\ pc[p] = "barber_check"
        \/ pc[p] \in {"pop", "read_slot", "trim", "notify_chair"}}
Seated == SeatedGenerators \cup SeatedBarbers

\* What the semaphores of the chairs and the customers come to together.
Tokens == sem["empty_chair"] + sem["customer_waiting"]

\* The account of the chairs in these words.
LEMMA AccountNamed ==
    /\ ChairHolders = Cardinality(SeatedGenerators) + Cardinality(SeatedBarbers)
    /\ ChairAccount <=> (~shop_closed => Tokens + ChairHolders <= Chairs)
BY DEF ChairAccount, ChairHolders, SeatedGenerators, SeatedBarbers, Tokens

\* How many hold a chair while one process goes on.
LEMMA HoldersMove ==
    ASSUME NEW p, \A q \in Children \ {p} : pc'[q] = pc[q] /\ answer'[q] = answer[q]
    PROVE  ChairHolders \in Nat /\ ChairHolders' = ChairHolders + In(p, Seated') - In(p, Seated)
<1>1. IsFiniteSet(SeatedGenerators) /\ IsFiniteSet(SeatedBarbers)
  <2>1. SeatedGenerators \subseteq Children /\ SeatedBarbers \subseteq Children
    BY ShopFacts DEF SeatedGenerators, SeatedBarbers
  <2>2. QED
    BY <2>1, ReadyFacts, FS_Subset
<1>2. SeatedGenerators \ {p} = SeatedGenerators' \ {p}
    BY ShopFacts DEF SeatedGenerators
<1>3. SeatedBarbers \ {p} = SeatedBarbers' \ {p}
    BY ShopFacts DEF SeatedBarbers
<1>4. /\ Cardinality(SeatedGenerators) \in Nat
      /\ Cardinality(SeatedGenerators') =
            Cardinality(SeatedGenerators) + In(p, SeatedGenerators') - In(p, SeatedGenerators)
    BY <1>1, <1>2, CountMove
<1>5. /\ Cardinality(SeatedBarbers) \in Nat
      /\ Cardinality(SeatedBarbers') =
            Cardinality(SeatedBarbers) + In(p, SeatedBarbers') - In(p, SeatedBarbers)
    BY <1>1, <1>3, CountMove
<1>6. /\ In(p, Seated) = In(p, SeatedGenerators) + In(p, SeatedBarbers)
      /\ In(p, Seated') = In(p, SeatedGenerators') + In(p, SeatedBarbers')
  <2>1. SeatedGenerators \subseteq Generators /\ SeatedBarbers \subseteq Barbers
        /\ SeatedGenerators' \subseteq Generators /\ SeatedBarbers' \subseteq Barbers
    BY DEF SeatedGenerators, SeatedBarbers
  <2>2. QED
    BY <2>1, ShopFacts DEF In, Seated
<1>7. /\ ChairHolders = Cardinality(SeatedGenerators) + Cardinality(SeatedBarbers)
      /\ ChairHolders' = Cardinality(SeatedGenerators') + Cardinality(SeatedBarbers')
    BY DEF ChairHolders, SeatedGenerators, SeatedBarbers
<1>8. /\ In(p, SeatedGenerators) \in Int /\ In(p, SeatedGenerators') \in Int
      /\ In(p, SeatedBarbers) \in Int /\ In(p, SeatedBarbers') \in Int
    BY DEF In
<1>9. QED
    BY <1>4, <1>5, <1>6, <1>7, <1>8

\* A step that gives no more tokens than it gives up a chair.
LEMMA AccountMove ==
    ASSUME TypeOK, ChairAccount, NEW p,
           \A q \in Children \ {p} : pc'[q] = pc[q] /\ answer'[q] = answer[q],
           ~shop_closed' => ~shop_closed /\ Tokens' + In(p, Seated') <= Tokens + In(p, Seated),
           Tokens \in Int, Tokens' \in Int
    PROVE  ChairAccount'
<1>1. ChairHolders \in Nat /\ ChairHolders' = ChairHolders + In(p, Seated') - In(p, Seated)
    BY HoldersMove
<1>2. In(p, Seated) \in Int /\ In(p, Seated') \in Int
    BY DEF In
<1>3. ~shop_closed => Tokens + ChairHolders <= Chairs
    BY AccountNamed
<1>4. ~shop_closed' => Tokens' + ChairHolders' <= Chairs
    BY <1>1, <1>2, <1>3, ShopFacts
<1>5. QED
    BY <1>4 DEF ChairAccount, Tokens

\* What a call on a semaphore does to the tokens.
LEMMA TokenMoves ==
    ASSUME TypeOK, NEW s \in {"empty_chair", "customer_waiting"}
    PROVE  /\ Tokens \in Nat
           /\ Notifier!NotifyOne(s) => Tokens' = Tokens + 1
           /\ Notifier!WaitForOne(s) => Tokens' = Tokens - 1
           /\ Notifier!NoneToTake(s) => Tokens' = Tokens
           /\ Notifier!CallFails => Tokens' = Tokens
           /\ UNCHANGED semVars => Tokens' = Tokens
BY SemFacts
   DEF Tokens, TypeOK, Notifier!SemTypeOK, Notifier!NotifyOne, Notifier!WaitForOne,
       Notifier!NoneToTake, Notifier!IncreaseValue, Notifier!DecreaseValue, Notifier!WouldWait,
       Notifier!CallFails, Notifier!semVars, semVars

\* A generator takes a chair with the token, and gives it up for a customer's.
LEMMA GeneratorAccount ==
    ASSUME TypeOK, ChairAccount, NEW p \in Generators, GeneratorStep(p)
    PROVE  ChairAccount'
<1>0. /\ p \in Children /\ p \in Procs /\ p \notin Barbers /\ Children \subseteq Procs
      /\ pc \in [Procs -> Labels] /\ answer \in [Children -> Answers]
      /\ answer[p] \in {"taken", "again", "error"}
      /\ Tokens \in Nat
    BY ShopFacts, TokenMoves DEF TypeOK, Answers
<1>1. /\ In(p, Seated) = IF \/ answer[p] = "taken" /\ pc[p] \in {"generator_check", "take_number"}
                            \/ pc[p] \in {"push", "write_slot", "notify_waiting"}
                         THEN 1 ELSE 0
      /\ In(p, Seated') = IF \/ answer'[p] = "taken" /\ pc'[p] \in {"generator_check", "take_number"}
                             \/ pc'[p] \in {"push", "write_slot", "notify_waiting"}
                          THEN 1 ELSE 0
    BY <1>0 DEF In, Seated, SeatedGenerators, SeatedBarbers
<1>2. CASE Arrive(p)
  <2>1. /\ pc[p] = "arrive" /\ pc'[p] = "generator_check" /\ shop_closed' = shop_closed
        /\ \A q \in Children \ {p} : pc'[q] = pc[q] /\ answer'[q] = answer[q]
    BY <1>0, <1>2 DEF Arrive, Goto
  <2>2. \/ answer'[p] = "taken" /\ Tokens' = Tokens - 1
        \/ answer'[p] # "taken" /\ Tokens' = Tokens
    BY <1>0, <1>2, TokenMoves DEF Arrive
  <2>3. QED
    BY <1>0, <1>1, <2>1, <2>2, AccountMove
<1>3. CASE GeneratorCheck(p) \/ TakeNumber(p) \/ Refuse(p) \/ PushReserve(p) \/ PushWrite(p)
  <2>1. /\ Tokens' = Tokens /\ answer' = answer /\ shop_closed' = shop_closed
        /\ \A q \in Children \ {p} : pc'[q] = pc[q]
    BY <1>0, <1>3, TokenMoves
       DEF GeneratorCheck, TakeNumber, Refuse, PushReserve, PushWrite, OnlyControl, OnlySem, OnlyRing,
           locals, Goto
  <2>2. \/ pc[p] = "generator_check" /\ pc'[p] \in {"succeeded", "take_number"}
        \/ pc[p] = "take_number" /\ answer[p] = "taken" /\ pc'[p] = "push"
        \/ pc[p] = "take_number" /\ answer[p] # "taken" /\ pc'[p] \in {"refuse", "failed"}
        \/ pc[p] = "refuse" /\ pc'[p] = "arrive"
        \/ pc[p] = "push" /\ pc'[p] = "write_slot"
        \/ pc[p] = "write_slot" /\ pc'[p] = "notify_waiting"
    BY <1>0, <1>3 DEF GeneratorCheck, TakeNumber, Refuse, PushReserve, PushWrite, Goto
  <2>3. QED
    BY <1>0, <1>1, <2>1, <2>2, AccountMove
<1>4. CASE NotifyWaiting(p)
  <2>1. /\ pc[p] = "notify_waiting" /\ pc'[p] \in {"arrive", "failed"}
        /\ answer' = answer /\ shop_closed' = shop_closed
        /\ \A q \in Children \ {p} : pc'[q] = pc[q]
    BY <1>0, <1>4 DEF NotifyWaiting, SemopFails, OnlySem, locals, Goto
  <2>2. Tokens' \in {Tokens, Tokens + 1}
    BY <1>4, TokenMoves DEF NotifyWaiting, SemopFails
  <2>3. QED
    BY <1>0, <1>1, <2>1, <2>2, AccountMove
<1>5. QED
    BY <1>2, <1>3, <1>4 DEF GeneratorStep

\* A barber takes a customer's token, and gives the chair back after serving.
LEMMA BarberAccount ==
    ASSUME TypeOK, ChairAccount, NEW p \in Barbers, BarberStep(p)
    PROVE  ChairAccount'
<1>0. /\ p \in Children /\ p \in Procs /\ p \notin Generators /\ Children \subseteq Procs
      /\ pc \in [Procs -> Labels] /\ answer \in [Children -> Answers]
      /\ answer[p] \in {"taken", "error"}
      /\ Tokens \in Nat
    BY ShopFacts, TokenMoves DEF TypeOK, Answers
<1>1. /\ In(p, Seated) = IF \/ answer[p] = "taken" /\ pc[p] = "barber_check"
                            \/ pc[p] \in {"pop", "read_slot", "trim", "notify_chair"}
                         THEN 1 ELSE 0
      /\ In(p, Seated') = IF \/ answer'[p] = "taken" /\ pc'[p] = "barber_check"
                             \/ pc'[p] \in {"pop", "read_slot", "trim", "notify_chair"}
                          THEN 1 ELSE 0
    BY <1>0 DEF In, Seated, SeatedGenerators, SeatedBarbers
<1>2. CASE WaitForCustomer(p)
  <2>1. /\ pc[p] = "wait_customer" /\ pc'[p] = "barber_check" /\ shop_closed' = shop_closed
        /\ \A q \in Children \ {p} : pc'[q] = pc[q] /\ answer'[q] = answer[q]
    BY <1>0, <1>2 DEF WaitForCustomer, Goto
  <2>2. \/ answer'[p] = "taken" /\ Tokens' = Tokens - 1
        \/ answer'[p] # "taken" /\ Tokens' = Tokens
    BY <1>0, <1>2, TokenMoves DEF WaitForCustomer
  <2>3. QED
    BY <1>0, <1>1, <2>1, <2>2, AccountMove
<1>3. CASE \/ BarberCheck(p) \/ PopReserve(p) \/ PopRead(p) \/ TrimHair(p)
           \/ DrainLoad(p) \/ DrainEmpty(p) \/ DrainCas(p)
  <2>1. /\ Tokens' = Tokens /\ answer' = answer /\ shop_closed' = shop_closed
        /\ \A q \in Children \ {p} : pc'[q] = pc[q]
    BY <1>0, <1>3, TokenMoves
       DEF BarberCheck, PopReserve, PopRead, TrimHair, DrainLoad, DrainEmpty, DrainCas,
           OnlyControl, OnlySem, OnlyRing, OnlySeen, locals, Goto
  <2>2. \/ pc[p] = "barber_check" /\ answer[p] = "taken" /\ pc'[p] \in {"drain", "pop"}
        \/ pc[p] = "barber_check" /\ answer[p] # "taken" /\ pc'[p] \in {"drain", "failed"}
        \/ pc[p] = "pop" /\ pc'[p] = "read_slot"
        \/ pc[p] = "read_slot" /\ pc'[p] = "trim"
        \/ pc[p] = "trim" /\ pc'[p] = "notify_chair"
        \/ /\ pc[p] \in {"drain_read", "drain_trim", "drain", "try_pop", "drain_empty", "try_empty",
                          "try_cas"}
           /\ pc'[p] \in {"drain_trim", "drain", "drain_empty", "try_empty", "succeeded", "try_pop",
                           "try_cas", "drain_read"}
    BY <1>0, <1>3
       DEF BarberCheck, PopReserve, PopRead, TrimHair, DrainLoad, DrainEmpty, DrainCas, Goto
  <2>3. QED
    BY <1>0, <1>1, <2>1, <2>2, AccountMove
<1>4. CASE NotifyChair(p)
  <2>1. /\ pc[p] = "notify_chair" /\ pc'[p] \in {"wait_customer", "failed"}
        /\ answer' = answer /\ shop_closed' = shop_closed
        /\ \A q \in Children \ {p} : pc'[q] = pc[q]
    BY <1>0, <1>4 DEF NotifyChair, SemopFails, OnlySem, locals, Goto
  <2>2. Tokens' \in {Tokens, Tokens + 1}
    BY <1>4, TokenMoves DEF NotifyChair, SemopFails
  <2>3. QED
    BY <1>0, <1>1, <2>1, <2>2, AccountMove
<1>5. QED
    BY <1>2, <1>3, <1>4 DEF BarberStep

\* Nobody sets up once the shop has closed.
LEMMA SetUpWhileOpen ==
    ASSUME TypeOK, NEW p \in Procs, SetupStep(p), OpenBeforeClosed
    PROVE  ~shop_closed
<1>0. pc[p] \in {"attach", "signal_readiness"}
    BY DEF SetupStep, AttachAndConstruct, AttachFails, SignalReadiness, SignalReadinessFails,
       SemopFails, Goto
<1>1. p \in Children => Ready # Children
    BY <1>0 DEF Ready
<1>2. p = Parent => pc[Parent] = "attach"
    BY ShopFacts DEF SetupStep, AttachAndConstruct, AttachFails, SemopFails, Goto
<1>3. QED
    BY <1>1, <1>2, ShopFacts DEF OpenBeforeClosed

\* Setting up touches neither chairs nor customers.
LEMMA SetupAccount ==
    ASSUME TypeOK, ChairAccount, NEW p \in Procs, SetupStep(p), shop_closed' => shop_closed,
           OpenBeforeClosed, OpenBeforeClosed'
    PROVE  ChairAccount'
<1>0. /\ pc \in [Procs -> Labels] /\ Children \subseteq Procs /\ Tokens \in Nat
    BY ShopFacts, TokenMoves DEF TypeOK
<1>1. /\ answer' = answer /\ \A q \in Children \ {p} : pc'[q] = pc[q]
      /\ pc[p] \in {"attach", "signal_readiness"}
      /\ pc'[p] \in {"wait_ready", "signal_readiness", "exit_failure", "failed", "arrive", "wait_customer"}
    BY <1>0 DEF SetupStep, AttachAndConstruct, AttachFails, SignalReadiness, SignalReadinessFails,
       SemopFails, OnlySem, locals, Goto
<1>2. Tokens' = Tokens
    BY SemFacts, TokenMoves
       DEF SetupStep, AttachAndConstruct, AttachFails, SignalReadiness, SignalReadinessFails,
           SemopFails, TypeOK, Notifier!SemTypeOK, Notifier!NotifyOne, Notifier!IncreaseValue, Tokens
<1>3. In(p, Seated) = 0 /\ In(p, Seated') = 0
    BY <1>1 DEF In, Seated, SeatedGenerators, SeatedBarbers
<1>4. ~shop_closed
    BY SetUpWhileOpen
<1>5. QED
    BY <1>0, <1>1, <1>2, <1>3, <1>4, AccountMove

\* The parent gives tokens to a group only when the shop is closed.
LEMMA ParentAccount ==
    ASSUME TypeOK, ChairAccount, OpenBeforeClosed, ParentStep
    PROVE  ChairAccount'
<1>0. /\ pc \in [Procs -> Labels] /\ Children \subseteq Procs /\ Parent \in Procs
      /\ Parent \notin Children /\ Tokens \in Nat
    BY ShopFacts, TokenMoves DEF TypeOK
<1>1. CASE NotifyChairs \/ NotifyBarbers
  <2>1. shop_closed'
    BY <1>1 DEF NotifyChairs, NotifyBarbers, SemopFails, OnlySem, Goto, OpenBeforeClosed
  <2>2. QED
    BY <2>1 DEF ChairAccount
<1>2. CASE CloseShop
    BY <1>2 DEF CloseShop, ChairAccount
<1>3. CASE CreateProcess
  <2>1. forked + 1 \in Children /\ pc[forked + 1] = "unborn"
    BY <1>3, ShopFacts DEF CreateProcess, OpenBeforeClosed, TypeOK, Children
  <2>2. /\ answer' = answer /\ shop_closed' = shop_closed /\ Tokens' = Tokens
        /\ pc' = [pc EXCEPT ![forked + 1] = "attach"]
    BY <1>3, TokenMoves DEF CreateProcess, locals
  <2>3. In(forked + 1, Seated) = 0 /\ In(forked + 1, Seated') = 0
    BY <1>0, <2>1, <2>2 DEF In, Seated, SeatedGenerators, SeatedBarbers
  <2>4. QED
    BY <1>0, <2>1, <2>2, <2>3, AccountMove
<1>4. CASE \/ CreateProcessFails \/ CheckCreated \/ WaitTillAllChildrenReady
           \/ WaitTillAllChildrenReadyFails \/ WaitTillAllChildrenTerminate \/ AssertCounts \/ LeaveMain
  <2>1. /\ answer' = answer /\ shop_closed' = shop_closed
        /\ \A q \in Children : pc'[q] = pc[q]
    BY <1>0, <1>4
       DEF CreateProcessFails, CheckCreated, WaitTillAllChildrenReady, WaitTillAllChildrenReadyFails,
           WaitTillAllChildrenTerminate, AssertCounts, LeaveMain, SemopFails, OnlyControl, OnlySem,
           locals, Goto
  <2>2. Tokens' = Tokens
    BY <1>4, SemFacts, TokenMoves
       DEF CreateProcessFails, CheckCreated, WaitTillAllChildrenReady, WaitTillAllChildrenReadyFails,
           WaitTillAllChildrenTerminate, AssertCounts, LeaveMain, SemopFails, OnlyControl, OnlySem,
           Tokens, TypeOK, Notifier!SemTypeOK, Notifier!WaitForAll, Notifier!DecreaseValue,
           Notifier!Remove
  <2>3. In(Parent, Seated) = 0 /\ In(Parent, Seated') = 0
    BY <1>0, ShopFacts DEF In, Seated, SeatedGenerators, SeatedBarbers
  <2>4. QED
    BY <1>0, <2>1, <2>2, <2>3, AccountMove
<1>5. QED
    BY <1>1, <1>2, <1>3, <1>4 DEF ParentStep

-----------------------------------------------------------------------------
(* The account of the customers *)

\* 1 if p is a child at one of the labels.
At(p, labels) == IF p \in Children /\ pc[p] \in labels THEN 1 ELSE 0

\* How many children are at some labels while one process goes on.
LEMMA CountAtMove ==
    ASSUME NEW labels, NEW p, \A q \in Children \ {p} : pc'[q] = pc[q]
    PROVE  /\ CountAt(labels) \in Nat
           /\ CountAt(labels)' = CountAt(labels) + At(p, labels)' - At(p, labels)
<1> DEFINE S == {q \in Children : pc[q] \in labels}
           N == {q \in Children : pc'[q] \in labels}
<1>1. IsFiniteSet(S) /\ S \ {p} = N \ {p}
    BY ReadyFacts, FS_Subset
<1>2. /\ Cardinality(S) \in Nat
      /\ Cardinality(N) = Cardinality(S) + In(p, N) - In(p, S)
    BY <1>1, CountMove
<1>3. In(p, N) = At(p, labels)' /\ In(p, S) = At(p, labels)
    BY DEF In, At
<1>4. QED
    BY <1>2, <1>3 DEF CountAt

\* 1 if p is a generator with a chair, on its way to the queue.
Enters(p) == IF /\ p \in Generators
                /\ \/ answer[p] = "taken" /\ pc[p] = "take_number"
                   \/ pc[p] = "push"
             THEN 1 ELSE 0
Arrives(p) == IF /\ p \in Generators
                 /\ \/ answer[p] = "taken" /\ pc[p] \in {"generator_check", "take_number"}
                    \/ pc[p] = "push"
              THEN 1 ELSE 0

\* How many have a chair and are not in the queue while one process goes on.
LEMMA ArrivingMove ==
    ASSUME NEW p, \A q \in Children \ {p} : pc'[q] = pc[q] /\ answer'[q] = answer[q]
    PROVE  /\ Entering \in Nat /\ Entering' = Entering + Enters(p)' - Enters(p)
           /\ Arriving \in Nat /\ Arriving' = Arriving + Arrives(p)' - Arrives(p)
<1> DEFINE E == {q \in Generators : \/ answer[q] = "taken" /\ pc[q] = "take_number"
                                    \/ pc[q] = "push"}
           A == {q \in Generators :
                   \/ answer[q] = "taken" /\ pc[q] \in {"generator_check", "take_number"}
                   \/ pc[q] = "push"}
<1>1. IsFiniteSet(E) /\ IsFiniteSet(A)
  <2>1. E \subseteq Children /\ A \subseteq Children
    BY ShopFacts
  <2>2. QED
    BY <2>1, ReadyFacts, FS_Subset
<1>2. E \ {p} = E' \ {p} /\ A \ {p} = A' \ {p}
    BY ShopFacts
<1>3. /\ Cardinality(E) \in Nat
      /\ Cardinality(E') = Cardinality(E) + In(p, E') - In(p, E)
    BY <1>1, <1>2, CountMove
<1>4. /\ Cardinality(A) \in Nat
      /\ Cardinality(A') = Cardinality(A) + In(p, A') - In(p, A)
    BY <1>1, <1>2, CountMove
<1>5. /\ In(p, E) = Enters(p) /\ In(p, E') = Enters(p)'
      /\ In(p, A) = Arrives(p) /\ In(p, A') = Arrives(p)'
    BY DEF In, Enters, Arrives
<1>6. QED
    BY <1>3, <1>4, <1>5 DEF Entering, Arriving

\* Who is past the door has come through it.
LEMMA EnteringArrives ==
    /\ Entering \in Nat /\ Arriving \in Nat /\ Entering <= Arriving
    /\ Entering' \in Nat /\ Arriving' \in Nat /\ Entering' <= Arriving'
<1> DEFINE E == {q \in Generators : \/ answer[q] = "taken" /\ pc[q] = "take_number"
                                    \/ pc[q] = "push"}
           A == {q \in Generators :
                   \/ answer[q] = "taken" /\ pc[q] \in {"generator_check", "take_number"}
                   \/ pc[q] = "push"}
<1>1. E \subseteq A /\ A \subseteq Children /\ E' \subseteq A' /\ A' \subseteq Children
    BY ShopFacts
<1>2. IsFiniteSet(A) /\ IsFiniteSet(E) /\ IsFiniteSet(A') /\ IsFiniteSet(E')
    BY <1>1, ReadyFacts, FS_Subset
<1>3. /\ Cardinality(E) <= Cardinality(A) /\ Cardinality(E) \in Nat /\ Cardinality(A) \in Nat
      /\ Cardinality(E') <= Cardinality(A') /\ Cardinality(E') \in Nat /\ Cardinality(A') \in Nat
    BY <1>1, <1>2, FS_Subset, FS_CardinalityType
<1>4. QED
    BY <1>3 DEF Entering, Arriving

\* The numbers the account is made of.
Numbers ==
    /\ {InHand, Entering, Arriving, Announcing, Serving, Fetching,
        sem["empty_chair"], sem["customer_waiting"],
        next_customer_id, served_customers, refused_customers} \subseteq Nat
    /\ Entering <= Arriving /\ Waiting \in Int

\* Counts are naturals in every state of the right types.
LEMMA NumbersFacts == (TypeOK => Numbers) /\ (TypeOK' => Numbers')
<1>1. \A labels : CountAt(labels) \in Nat
    BY ReadyFacts, FS_Subset, FS_CardinalityType DEF CountAt
<1>2. {InHand, Announcing, Serving, Fetching} \subseteq Nat
    BY <1>1 DEF InHand, Announcing, Serving, Fetching
<1>3. {InHand', Announcing', Serving', Fetching'} \subseteq Nat
  <2>1. ASSUME NEW labels PROVE CountAt(labels)' \in Nat
    <3> DEFINE N == {q \in Children : pc'[q] \in labels}
    <3>1. IsFiniteSet(N)
      BY ReadyFacts, FS_Subset
    <3>2. QED
      BY <3>1, FS_CardinalityType DEF CountAt
  <2>2. QED
    BY <2>1 DEF InHand, Announcing, Serving, Fetching
<1>4. TypeOK => Numbers
  <2>1. TypeOK => /\ {sem["empty_chair"], sem["customer_waiting"]} \subseteq Nat
                  /\ {next_customer_id, served_customers, refused_customers} \subseteq Nat
    BY SemFacts DEF TypeOK, Notifier!SemTypeOK
  <2>2. QED
    BY <1>2, <2>1, EnteringArrives DEF Numbers, Waiting
<1>5. TypeOK' => Numbers'
  <2>1. TypeOK' => /\ {sem'["empty_chair"], sem'["customer_waiting"]} \subseteq Nat
                   /\ {next_customer_id', served_customers', refused_customers'} \subseteq Nat
    BY SemFacts DEF TypeOK, Notifier!SemTypeOK
  <2>2. QED
    BY <1>3, <2>1, EnteringArrives DEF Numbers, Waiting
<1>6. QED
    BY <1>4, <1>5

\* The indices while customers come and go, without %.
LEMMA IndexMoves ==
    ASSUME NEW r \in Ring!Slots, NEW w \in Ring!Slots, NEW n \in 0 .. Chairs,
           w = (r + n) % Chairs
    PROVE  /\ n < Chairs => Ring!Succ(w) = (r + (n + 1)) % Chairs
           /\ n > 0 => w = (Ring!Succ(r) + (n - 1)) % Chairs
           /\ w # r => n > 0
<1>1. /\ Chairs \in Nat /\ Chairs > 1 /\ r \in 0 .. Chairs - 1 /\ w \in 0 .. Chairs - 1
    BY ShopFacts DEF Ring!Slots
<1>2. ASSUME NEW s \in 0 .. Chairs - 1, NEW m \in 0 .. Chairs
      PROVE  (s + m) % Chairs = IF s + m < Chairs THEN s + m ELSE s + m - Chairs
  <2>1. s + m < Chairs => (s + m) % Chairs = s + m
    BY <1>1
  <2>2. s + m >= Chairs => (s + m) % Chairs = s + m - Chairs
    BY <1>1
  <2>3. QED
    BY <1>1, <2>1, <2>2
<1>3. \A s \in 0 .. Chairs - 1 : Ring!Succ(s) = IF s + 1 < Chairs THEN s + 1 ELSE s + 1 - Chairs
    BY <1>1, <1>2 DEF Ring!Succ
<1>4. w = IF r + n < Chairs THEN r + n ELSE r + n - Chairs
    BY <1>1, <1>2
<1>5. ASSUME n < Chairs PROVE Ring!Succ(w) = (r + (n + 1)) % Chairs
  <2>1. n + 1 \in 0 .. Chairs
    BY <1>1, <1>5
  <2>2. (r + (n + 1)) % Chairs =
           IF r + (n + 1) < Chairs THEN r + (n + 1) ELSE r + (n + 1) - Chairs
    BY <1>1, <1>2, <2>1
  <2>3. Ring!Succ(w) = IF w + 1 < Chairs THEN w + 1 ELSE w + 1 - Chairs
    BY <1>1, <1>3
  <2> DEFINE sw == Ring!Succ(w)
             rn == (r + (n + 1)) % Chairs
  <2> HIDE DEF sw, rn
  <2>4. sw = rn
    BY <1>1, <1>4, <1>5, <2>2, <2>3 DEF sw, rn
  <2>5. QED
    BY <2>4 DEF sw, rn
<1>6. ASSUME n > 0 PROVE w = (Ring!Succ(r) + (n - 1)) % Chairs
  <2>1. PICK s \in 0 .. Chairs - 1 :
           /\ s = Ring!Succ(r)
           /\ s = IF r + 1 < Chairs THEN r + 1 ELSE r + 1 - Chairs
    BY <1>1, <1>3
  <2>2. n - 1 \in 0 .. Chairs
    BY <1>1, <1>6
  <2>3. (s + (n - 1)) % Chairs = IF s + (n - 1) < Chairs THEN s + (n - 1) ELSE s + (n - 1) - Chairs
    BY <1>1, <1>2, <2>2
  <2>4. w = (s + (n - 1)) % Chairs
    BY <1>1, <1>4, <1>6, <2>1, <2>3
  <2>5. QED
    BY <2>1, <2>4
<1>7. w # r => n > 0
    BY <1>1, <1>4
<1>8. QED
    BY <1>5, <1>6, <1>7

\* What has gone wrong once stays so.
LEMMA UndisturbedBefore ==
    ASSUME TypeOK, OneUndisturbed', NEW p \in Procs, Step(p)
    PROVE  OneUndisturbed
<1>1. faults \in Nat /\ removed \in BOOLEAN /\ disturbed \in BOOLEAN
    BY ShopFacts DEF TypeOK, Notifier!SemTypeOK
<1> USE DEF SemopFails, OnlySem, OnlyControl, OnlyRing, OnlySeen, semVars,
            Notifier!CallFails, Notifier!NotifyOne, Notifier!NotifyAll, Notifier!WaitForOne,
            Notifier!WaitForAll, Notifier!NoneToTake, Notifier!IncreaseValue,
            Notifier!DecreaseValue, Notifier!WouldWait, Notifier!semVars, Notifier!Remove
<1>2. CASE SetupStep(p)
  <2>1. /\ faults' \in {faults, faults + 1} /\ (removed => removed')
    BY <1>2 DEF SetupStep, AttachAndConstruct, AttachFails, SignalReadiness, SignalReadinessFails
  <2>2. AttachAndConstruct(p) => (disturbed => disturbed')
    BY DEF AttachAndConstruct
  <2>3. ~AttachAndConstruct(p) => disturbed' = disturbed
    BY <1>2 DEF SetupStep, AttachFails, SignalReadiness, SignalReadinessFails
  <2>4. QED
    BY <1>1, <2>1, <2>2, <2>3 DEF OneUndisturbed
<1>3. CASE ParentStep
  <2>1. /\ faults' \in {faults, faults + 1} /\ (removed => removed') /\ (disturbed => disturbed')
    BY <1>3 DEF ParentStep, CreateProcess, CreateProcessFails, CheckCreated,
       WaitTillAllChildrenReady, WaitTillAllChildrenReadyFails, CloseShop, NotifyChairs, NotifyBarbers,
       WaitTillAllChildrenTerminate, AssertCounts, LeaveMain
  <2>2. QED
    BY <1>1, <2>1 DEF OneUndisturbed
<1>4. CASE GeneratorStep(p)
  <2>1. /\ faults' \in {faults, faults + 1} /\ (removed => removed') /\ (disturbed => disturbed')
    BY <1>4 DEF GeneratorStep, Arrive, GeneratorCheck, TakeNumber, Refuse, PushReserve, PushWrite,
       NotifyWaiting
  <2>2. QED
    BY <1>1, <2>1 DEF OneUndisturbed
<1>5. CASE BarberStep(p)
  <2>1. /\ faults' \in {faults, faults + 1} /\ (removed => removed') /\ (disturbed => disturbed')
    BY <1>5 DEF BarberStep, WaitForCustomer, BarberCheck, PopReserve, PopRead, TrimHair,
       NotifyChair, DrainLoad, DrainEmpty, DrainCas
  <2>2. QED
    BY <1>1, <2>1 DEF OneUndisturbed
<1>6. QED
    BY <1>2, <1>3, <1>4, <1>5 DEF Step

\* No call fails while nothing has gone wrong.
LEMMA NoCallFails == ASSUME TypeOK, OneUndisturbed', Notifier!CallFails PROVE FALSE
BY ShopFacts DEF TypeOK, Notifier!SemTypeOK, OneUndisturbed, Notifier!CallFails

\* The labels that count.
Hands == {"refuse", "push", "read_slot", "trim", "drain_read", "drain_trim"}
Announcers == {"write_slot", "notify_waiting"}
Servers == {"read_slot", "trim", "notify_chair"}
Fetchers == {"barber_check", "pop"}

\* All the counts while one process goes on.
LEMMA CountsMove ==
    ASSUME NEW p, \A q \in Children \ {p} : pc'[q] = pc[q] /\ answer'[q] = answer[q]
    PROVE  /\ InHand' = InHand + At(p, Hands)' - At(p, Hands)
           /\ Announcing' = Announcing + At(p, Announcers)' - At(p, Announcers)
           /\ Serving' = Serving + At(p, Servers)' - At(p, Servers)
           /\ Fetching' = Fetching + At(p, Fetchers)' - At(p, Fetchers)
           /\ Entering' = Entering + Enters(p)' - Enters(p)
           /\ Arriving' = Arriving + Arrives(p)' - Arrives(p)
<1>1. \A q \in Children \ {p} : pc'[q] = pc[q]
    OBVIOUS
<1>2. /\ CountAt(Hands)' = CountAt(Hands) + At(p, Hands)' - At(p, Hands)
      /\ CountAt(Announcers)' = CountAt(Announcers) + At(p, Announcers)' - At(p, Announcers)
      /\ CountAt(Servers)' = CountAt(Servers) + At(p, Servers)' - At(p, Servers)
      /\ CountAt(Fetchers)' = CountAt(Fetchers) + At(p, Fetchers)' - At(p, Fetchers)
    BY <1>1, CountAtMove
<1>3. /\ InHand = CountAt(Hands) /\ Announcing = CountAt(Announcers)
      /\ Serving = CountAt(Servers) /\ Fetching = CountAt(Fetchers)
      /\ InHand' = CountAt(Hands)' /\ Announcing' = CountAt(Announcers)'
      /\ Serving' = CountAt(Servers)' /\ Fetching' = CountAt(Fetchers)'
    BY DEF InHand, Announcing, Serving, Fetching, Hands, Announcers, Servers, Fetchers
<1>4. QED
    BY <1>2, <1>3, ArrivingMove

\* Nobody leaves while one child goes on from where it works.
LEMMA NobodyLeaves ==
    ASSUME TypeOK, NobodyGone, NEW p \in Children, shop_closed' = shop_closed,
           \A q \in Children \ {p} : pc'[q] = pc[q] /\ answer'[q] = answer[q],
           pc'[p] \notin {"fork", "aborted", "failed"}, answer'[p] # "error",
           pc'[p] \in Draining \cup {"succeeded"} => shop_closed
    PROVE  NobodyGone'
BY DEF NobodyGone

\* Another process goes on: the barber finds its own as it was.
LEMMA KeepsInPlace ==
    ASSUME NEW b \in Barbers, Numbers, Numbers', CustomersInPlace(b),
           pc'[b] = pc[b], seen'[b] = seen[b], shop_closed' = shop_closed,
           read_idx' = read_idx, write_idx' = write_idx, Waiting' = Waiting,
           Waiting' + Entering' <= Chairs,
           ~shop_closed =>
              /\ sem'["customer_waiting"] + Announcing' + Fetching'
                   = sem["customer_waiting"] + Announcing + Fetching
              /\ sem'["empty_chair"] + Arriving' + Serving'
                   = sem["empty_chair"] + Arriving + Serving
    PROVE  CustomersInPlace(b)'
<1>1. ~shop_closed' =>
          /\ Waiting' = sem'["customer_waiting"] + Announcing' + Fetching'
          /\ Waiting' + sem'["empty_chair"] + Arriving' + Serving' <= Chairs
    BY ShopFacts DEF CustomersInPlace, Numbers
<1>2. QED
    BY <1>1 DEF CustomersInPlace

\* What a call does to the tokens of chairs and customers.
LEMMA TokensMove ==
    ASSUME TypeOK
    PROVE  /\ Notifier!NotifyOne("customer_waiting") =>
                 /\ sem'["customer_waiting"] = sem["customer_waiting"] + 1
                 /\ sem'["empty_chair"] = sem["empty_chair"]
           /\ Notifier!NotifyOne("empty_chair") =>
                 /\ sem'["empty_chair"] = sem["empty_chair"] + 1
                 /\ sem'["customer_waiting"] = sem["customer_waiting"]
           /\ Notifier!WaitForOne("customer_waiting") =>
                 /\ sem'["customer_waiting"] = sem["customer_waiting"] - 1
                 /\ sem'["empty_chair"] = sem["empty_chair"]
           /\ Notifier!WaitForOne("empty_chair") =>
                 /\ sem'["empty_chair"] = sem["empty_chair"] - 1
                 /\ sem'["customer_waiting"] = sem["customer_waiting"]
           /\ Notifier!NoneToTake("empty_chair") => sem' = sem
BY SemFacts
   DEF TypeOK, Notifier!SemTypeOK, Notifier!NotifyOne, Notifier!WaitForOne,
       Notifier!NoneToTake, Notifier!IncreaseValue, Notifier!DecreaseValue, Notifier!WouldWait,
       Notifier!semVars

\* A generator brings a customer from the door to the queue: each number it gives out, each
\* slot it takes and each token it sends belongs to one.
LEMMA GeneratorCustomers ==
    ASSUME TypeOK, TypeOK', CustomersKnown, NEW p \in Generators, GeneratorStep(p),
           shop_closed' = shop_closed, OneUndisturbed, OneUndisturbed'
    PROVE  CustomersKnown'
<1>0. /\ p \in Children /\ p \in Procs /\ p \notin Barbers /\ Children \subseteq Procs
      /\ Barbers \subseteq Children /\ Chairs \in Nat
      /\ pc \in [Procs -> Labels] /\ answer \in [Children -> Answers]
      /\ answer[p] \in {"taken", "again"} /\ shop_closed \in BOOLEAN
    BY ShopFacts DEF TypeOK, Answers, CustomersKnown, NobodyGone
<1>1. NobodyGone /\ \A b \in Barbers : CustomersInPlace(b)
    BY DEF CustomersKnown
<1>2. Numbers /\ Numbers'
    BY NumbersFacts
<1>3. /\ At(p, Hands) = IF pc[p] \in Hands THEN 1 ELSE 0
      /\ At(p, Hands)' = IF pc'[p] \in Hands THEN 1 ELSE 0
      /\ At(p, Announcers) = IF pc[p] \in Announcers THEN 1 ELSE 0
      /\ At(p, Announcers)' = IF pc'[p] \in Announcers THEN 1 ELSE 0
      /\ At(p, Servers) = IF pc[p] \in Servers THEN 1 ELSE 0
      /\ At(p, Servers)' = IF pc'[p] \in Servers THEN 1 ELSE 0
      /\ At(p, Fetchers) = IF pc[p] \in Fetchers THEN 1 ELSE 0
      /\ At(p, Fetchers)' = IF pc'[p] \in Fetchers THEN 1 ELSE 0
      /\ Enters(p) = IF (answer[p] = "taken" /\ pc[p] = "take_number") \/ pc[p] = "push"
                     THEN 1 ELSE 0
      /\ Enters(p)' = IF (answer'[p] = "taken" /\ pc'[p] = "take_number") \/ pc'[p] = "push"
                      THEN 1 ELSE 0
      /\ Arrives(p) = IF \/ answer[p] = "taken" /\ pc[p] \in {"generator_check", "take_number"}
                         \/ pc[p] = "push"
                      THEN 1 ELSE 0
      /\ Arrives(p)' = IF \/ answer'[p] = "taken" /\ pc'[p] \in {"generator_check", "take_number"}
                          \/ pc'[p] = "push"
                       THEN 1 ELSE 0
    BY <1>0 DEF At, Enters, Arrives
<1>4. /\ Waiting = next_customer_id - served_customers - refused_customers - InHand
      /\ Waiting' = next_customer_id' - served_customers' - refused_customers' - InHand'
    BY DEF Waiting
<1> USE DEF Hands, Announcers, Servers, Fetchers
<1>5. ASSUME \A q \in Children \ {p} : pc'[q] = pc[q] /\ answer'[q] = answer[q],
             pc'[p] \notin {"fork", "aborted", "failed"} \cup Draining \cup NotReady,
             answer'[p] # "error", pc'[p] = "succeeded" => shop_closed,
             \A b \in Barbers : CustomersInPlace(b)'
      PROVE  CustomersKnown'
  <2>1. NobodyGone'
    BY <1>0, <1>1, <1>5, NobodyLeaves
  <2>2. p \in Ready'
    BY <1>0, <1>5 DEF Ready, NotReady
  <2>3. QED
    BY <1>5, <2>1, <2>2 DEF CustomersKnown
<1>6. CASE Arrive(p)
  <2>1. /\ pc[p] = "arrive" /\ pc'[p] = "generator_check"
        /\ \A q \in Children \ {p} : pc'[q] = pc[q] /\ answer'[q] = answer[q]
        /\ counts' = counts /\ read_idx' = read_idx /\ write_idx' = write_idx /\ seen' = seen
    BY <1>0, <1>6 DEF Arrive, Goto, ringVars
  <2>2. \/ /\ answer'[p] = "taken" /\ sem'["empty_chair"] = sem["empty_chair"] - 1
           /\ sem'["customer_waiting"] = sem["customer_waiting"]
        \/ answer'[p] = "again" /\ sem' = sem
    BY <1>0, <1>6, TokensMove, NoCallFails DEF Arrive
  <2>3. Waiting' = Waiting /\ Entering' = Entering
        /\ Announcing' = Announcing /\ Fetching' = Fetching /\ Serving' = Serving
        /\ sem'["empty_chair"] + Arriving' = sem["empty_chair"] + Arriving
        /\ sem'["customer_waiting"] = sem["customer_waiting"]
    BY <1>2, <1>3, <1>4, <2>1, <2>2, CountsMove DEF counts, Numbers
  <2>4. ASSUME NEW b \in Barbers PROVE CustomersInPlace(b)'
    <3>1. CustomersInPlace(b) /\ Waiting' + Entering' <= Chairs
      BY <1>1, <2>3 DEF CustomersInPlace
    <3>2. pc'[b] = pc[b] /\ seen'[b] = seen[b]
      BY <1>0, <2>1
    <3>3. /\ sem'["customer_waiting"] + Announcing' + Fetching'
               = sem["customer_waiting"] + Announcing + Fetching
          /\ sem'["empty_chair"] + Arriving' + Serving'
               = sem["empty_chair"] + Arriving + Serving
      BY <1>2, <2>3 DEF Numbers
    <3>4. QED
      BY <1>2, <2>1, <2>3, <3>1, <3>2, <3>3, KeepsInPlace
  <2>5. QED
    BY <1>5, <2>1, <2>2, <2>4 DEF Draining, NotReady
<1>7. CASE GeneratorCheck(p)
  <2>1. /\ pc[p] = "generator_check"
        /\ pc'[p] = IF shop_closed THEN "succeeded" ELSE "take_number"
        /\ answer' = answer
        /\ \A q \in Children \ {p} : pc'[q] = pc[q] /\ answer'[q] = answer[q]
        /\ counts' = counts /\ read_idx' = read_idx /\ write_idx' = write_idx /\ seen' = seen
        /\ sem' = sem
    BY <1>0, <1>7 DEF GeneratorCheck, Goto, ringVars, OnlyControl, OnlySem, locals, semVars
  <2>2. /\ Waiting' = Waiting
        /\ Announcing' = Announcing /\ Fetching' = Fetching /\ Serving' = Serving
        /\ ~shop_closed => Arriving' = Arriving
        /\ shop_closed => Entering' = Entering
    BY <1>2, <1>3, <1>4, <2>1, CountsMove DEF counts, Numbers
  <2>3. ASSUME NEW b \in Barbers PROVE CustomersInPlace(b)'
    <3>1. CustomersInPlace(b)
      BY <1>1
    <3>2. Waiting' + Entering' <= Chairs
      <4>1. CASE shop_closed
        BY <2>2, <3>1, <4>1 DEF CustomersInPlace
      <4>2. CASE ~shop_closed
        <5>1. /\ Waiting' = Waiting /\ Arriving' = Arriving
              /\ Waiting + sem["empty_chair"] + Arriving + Serving <= Chairs
          BY <2>2, <3>1, <4>2 DEF CustomersInPlace
        <5>2. /\ Waiting \in Int /\ Arriving \in Nat /\ sem["empty_chair"] \in Nat
              /\ Serving \in Nat /\ Entering' \in Nat /\ Arriving' \in Nat
              /\ Entering' <= Arriving'
          BY <1>2 DEF Numbers
        <5>3. Chairs \in Int
          BY <1>0
        <5>4. PICK w \in Int, a \in Nat, c \in Nat, v \in Nat :
                 w = Waiting /\ a = Arriving /\ c = sem["empty_chair"] /\ v = Serving
          BY <5>2
        <5>5. PICK e \in Nat : e = Entering'
          BY <5>2
        <5>6. w + c + a + v <= Chairs /\ e <= a
          BY <5>1, <5>2, <5>4, <5>5
        <5>7. w + e <= Chairs
          BY <5>3, <5>6
        <5>8. QED
          BY <5>1, <5>4, <5>5, <5>7
      <4>3. QED
        BY <4>1, <4>2
    <3>3. pc'[b] = pc[b] /\ seen'[b] = seen[b]
      BY <1>0, <2>1
    <3>4. QED
      BY <1>2, <2>1, <2>2, <3>1, <3>2, <3>3, KeepsInPlace
  <2>4. QED
    BY <1>0, <1>5, <2>1, <2>3 DEF Draining, NotReady
<1>8. CASE TakeNumber(p) \/ Refuse(p)
  <2>1. /\ \/ /\ pc[p] = "take_number" /\ counts' = <<next_customer_id + 1, served_customers, refused_customers>>
              /\ \/ answer[p] = "taken" /\ pc'[p] = "push"
                 \/ answer[p] = "again" /\ pc'[p] = "refuse"
           \/ /\ pc[p] = "refuse" /\ pc'[p] = "arrive"
              /\ counts' = <<next_customer_id, served_customers, refused_customers + 1>>
        /\ answer' = answer
        /\ \A q \in Children \ {p} : pc'[q] = pc[q] /\ answer'[q] = answer[q]
        /\ read_idx' = read_idx /\ write_idx' = write_idx /\ seen' = seen
        /\ sem' = sem
    BY <1>0, <1>8 DEF TakeNumber, Refuse, Goto, ringVars, locals, semVars, counts
  <2>2. /\ Waiting' = Waiting /\ Entering' = Entering /\ Arriving' = Arriving
        /\ Announcing' = Announcing /\ Fetching' = Fetching /\ Serving' = Serving
    BY <1>2, <1>3, <1>4, <2>1, CountsMove DEF counts, Numbers
  <2>3. ASSUME NEW b \in Barbers PROVE CustomersInPlace(b)'
    <3>1. CustomersInPlace(b) /\ Waiting' + Entering' <= Chairs
      BY <1>1, <2>2 DEF CustomersInPlace
    <3>2. pc'[b] = pc[b] /\ seen'[b] = seen[b]
      BY <1>0, <2>1
    <3>3. QED
      BY <1>2, <2>1, <2>2, <3>1, <3>2, KeepsInPlace
  <2>4. QED
    BY <1>0, <1>5, <2>1, <2>3 DEF Draining, NotReady
<1>9. CASE PushReserve(p)
  <2>1. /\ pc[p] = "push" /\ pc'[p] = "write_slot" /\ answer' = answer
        /\ \A q \in Children \ {p} : pc'[q] = pc[q] /\ answer'[q] = answer[q]
        /\ counts' = counts /\ read_idx' = read_idx /\ write_idx' = Ring!Succ(write_idx)
        /\ seen' = seen /\ sem' = sem
    BY <1>0, <1>9 DEF PushReserve, Ring!ReserveWrite, Goto, OnlyRing, locals, semVars
  <2>2. /\ Waiting' = Waiting + 1 /\ Entering' = Entering - 1 /\ Arriving' = Arriving - 1
        /\ Announcing' = Announcing + 1 /\ Fetching' = Fetching /\ Serving' = Serving
    BY <1>2, <1>3, <1>4, <2>1, CountsMove DEF counts, Numbers
  <2>3. ASSUME NEW b \in Barbers PROVE CustomersInPlace(b)'
    <3>1. /\ CustomersInPlace(b) /\ pc'[b] = pc[b] /\ seen'[b] = seen[b]
      BY <1>0, <1>1, <2>1
    <3>2. /\ Waiting \in 0 .. Chairs /\ Waiting < Chairs
          /\ Waiting' > 0 /\ Waiting' + Entering' <= Chairs
      <4>1. Waiting >= 0 /\ Waiting + Entering <= Chairs
        BY <3>1 DEF CustomersInPlace
      <4>2. Waiting \in Int /\ Entering \in Nat /\ Waiting' \in Int /\ Entering' \in Nat
        BY <1>2 DEF Numbers
      <4>3. QED
        BY <2>2, <4>1, <4>2, ShopFacts
    <3>3. write_idx' = (read_idx' + Waiting') % Chairs
      <4>1. write_idx = (read_idx + Waiting) % Chairs
        BY <3>1 DEF CustomersInPlace
      <4>2. write_idx \in Ring!Slots /\ read_idx \in Ring!Slots
        BY DEF TypeOK, Ring!RingTypeOK
      <4>3. Ring!Succ(write_idx) = (read_idx + (Waiting + 1)) % Chairs
        BY <3>2, <4>1, <4>2, IndexMoves
      <4>4. QED
        BY <2>1, <2>2, <4>3
    <3>4. ~shop_closed =>
             /\ Waiting = sem["customer_waiting"] + Announcing + Fetching
             /\ Waiting + sem["empty_chair"] + Arriving + Serving <= Chairs
      BY <3>1 DEF CustomersInPlace
    <3>5. /\ {Waiting, Announcing, Fetching, Arriving, Serving} \subseteq Int
          /\ {sem["customer_waiting"], sem["empty_chair"]} \subseteq Int
      BY <1>2 DEF Numbers
    <3>6. ~shop_closed' =>
             /\ Waiting' = sem'["customer_waiting"] + Announcing' + Fetching'
             /\ Waiting' + sem'["empty_chair"] + Arriving' + Serving' <= Chairs
      <4>1. Chairs \in Int /\ sem' = sem
        BY <1>0, <2>1
      <4>2. PICK w \in Int, n \in Int, f \in Int, a \in Int, v \in Int, t \in Int, c \in Int :
               /\ w = Waiting /\ n = Announcing /\ f = Fetching /\ a = Arriving /\ v = Serving
               /\ t = sem["customer_waiting"] /\ c = sem["empty_chair"]
        BY <3>5
      <4>3. ~shop_closed => w = t + n + f /\ w + c + a + v <= Chairs
        BY <3>4, <4>2
      <4>4. ~shop_closed => w + 1 = t + (n + 1) + f /\ (w + 1) + c + (a - 1) + v <= Chairs
        BY <4>1, <4>3
      <4>5. QED
        BY <2>2, <4>1, <4>2, <4>4
    <3>7. QED
      BY <1>2, <2>1, <3>1, <3>2, <3>3, <3>6 DEF CustomersInPlace, Numbers
  <2>4. QED
    BY <1>0, <1>5, <2>1, <2>3 DEF Draining, NotReady
<1>10. CASE PushWrite(p)
  <2>1. /\ pc[p] = "write_slot" /\ pc'[p] = "notify_waiting" /\ answer' = answer
        /\ \A q \in Children \ {p} : pc'[q] = pc[q] /\ answer'[q] = answer[q]
        /\ counts' = counts /\ read_idx' = read_idx /\ write_idx' = write_idx
        /\ seen' = seen /\ sem' = sem
    BY <1>0, <1>10 DEF PushWrite, Ring!WriteSlot, Goto, OnlyRing, locals, semVars
  <2>2. /\ Waiting' = Waiting /\ Entering' = Entering /\ Arriving' = Arriving
        /\ Announcing' = Announcing /\ Fetching' = Fetching /\ Serving' = Serving
    BY <1>2, <1>3, <1>4, <2>1, CountsMove DEF counts, Numbers
  <2>3. ASSUME NEW b \in Barbers PROVE CustomersInPlace(b)'
    <3>1. CustomersInPlace(b) /\ Waiting' + Entering' <= Chairs
      BY <1>1, <2>2 DEF CustomersInPlace
    <3>2. pc'[b] = pc[b] /\ seen'[b] = seen[b]
      BY <1>0, <2>1
    <3>3. QED
      BY <1>2, <2>1, <2>2, <3>1, <3>2, KeepsInPlace
  <2>4. QED
    BY <1>0, <1>5, <2>1, <2>3 DEF Draining, NotReady
<1>11. CASE NotifyWaiting(p)
  <2>1. /\ pc[p] = "notify_waiting" /\ pc'[p] = "arrive" /\ answer' = answer
        /\ \A q \in Children \ {p} : pc'[q] = pc[q] /\ answer'[q] = answer[q]
        /\ counts' = counts /\ read_idx' = read_idx /\ write_idx' = write_idx
        /\ seen' = seen
        /\ sem'["customer_waiting"] = sem["customer_waiting"] + 1
        /\ sem'["empty_chair"] = sem["empty_chair"]
    BY <1>0, <1>11, NoCallFails, TokensMove
       DEF NotifyWaiting, SemopFails, Goto, OnlySem, locals, ringVars
  <2>2. /\ Waiting' = Waiting /\ Entering' = Entering /\ Arriving' = Arriving
        /\ Announcing' = Announcing - 1 /\ Fetching' = Fetching /\ Serving' = Serving
    BY <1>2, <1>3, <1>4, <2>1, CountsMove DEF counts, Numbers
  <2>3. ASSUME NEW b \in Barbers PROVE CustomersInPlace(b)'
    <3>1. CustomersInPlace(b) /\ Waiting' + Entering' <= Chairs
      BY <1>1, <2>2 DEF CustomersInPlace
    <3>2. pc'[b] = pc[b] /\ seen'[b] = seen[b]
      BY <1>0, <2>1
    <3>3. sem'["customer_waiting"] + Announcing' + Fetching'
            = sem["customer_waiting"] + Announcing + Fetching
      BY <1>2, <2>1, <2>2 DEF Numbers
    <3>4. QED
      BY <1>2, <2>1, <2>2, <3>1, <3>2, <3>3, KeepsInPlace
  <2>4. QED
    BY <1>0, <1>5, <2>1, <2>3 DEF Draining, NotReady
<1>12. QED
    BY <1>6, <1>7, <1>8, <1>9, <1>10, <1>11 DEF GeneratorStep

\* The barber fetches a customer for each token it takes, and after closing time goes by the
\* indices: it takes no customer that is not in the queue.
LEMMA BarberCustomers ==
    ASSUME TypeOK, TypeOK', CustomersKnown, NEW p \in Barbers, BarberStep(p),
           shop_closed' = shop_closed, OneUndisturbed, OneUndisturbed'
    PROVE  CustomersKnown'
<1>0. /\ p \in Children /\ p \in Procs /\ p \notin Generators /\ Children \subseteq Procs
      /\ Chairs \in Nat /\ Chairs > 1
      /\ pc \in [Procs -> Labels] /\ answer \in [Children -> Answers]
      /\ answer[p] = "taken" /\ shop_closed \in BOOLEAN
      /\ read_idx \in Ring!Slots /\ write_idx \in Ring!Slots /\ seen \in [Barbers -> Ring!Slots]
  <2>1. answer[p] \in {"taken", "again", "error"} /\ answer[p] # "again" /\ answer[p] # "error"
    BY ShopFacts DEF TypeOK, Answers, CustomersKnown, NobodyGone
  <2>2. QED
    BY <2>1, ShopFacts DEF TypeOK, Ring!RingTypeOK
<1>1. /\ NobodyGone /\ CustomersInPlace(p)
      /\ \A b \in Barbers : b = p
  <2>1. \A b \in Barbers : b = p
    BY ShopAssumption DEF ShopAssumption, OneUndisturbed, Barbers, Children, Generators, ChildrenCount
  <2>2. QED
    BY <2>1 DEF CustomersKnown
<1>2. Numbers /\ Numbers'
    BY NumbersFacts
<1>3. /\ At(p, Hands) = IF pc[p] \in Hands THEN 1 ELSE 0
      /\ At(p, Hands)' = IF pc'[p] \in Hands THEN 1 ELSE 0
      /\ At(p, Announcers) = IF pc[p] \in Announcers THEN 1 ELSE 0
      /\ At(p, Announcers)' = IF pc'[p] \in Announcers THEN 1 ELSE 0
      /\ At(p, Servers) = IF pc[p] \in Servers THEN 1 ELSE 0
      /\ At(p, Servers)' = IF pc'[p] \in Servers THEN 1 ELSE 0
      /\ At(p, Fetchers) = IF pc[p] \in Fetchers THEN 1 ELSE 0
      /\ At(p, Fetchers)' = IF pc'[p] \in Fetchers THEN 1 ELSE 0
      /\ Enters(p) = 0 /\ Enters(p)' = 0 /\ Arrives(p) = 0 /\ Arrives(p)' = 0
    BY <1>0 DEF At, Enters, Arrives
<1>4. /\ Waiting = next_customer_id - served_customers - refused_customers - InHand
      /\ Waiting' = next_customer_id' - served_customers' - refused_customers' - InHand'
    BY DEF Waiting
<1> USE DEF Hands, Announcers, Servers, Fetchers
<1>5. ASSUME \A q \in Children \ {p} : pc'[q] = pc[q] /\ answer'[q] = answer[q],
             pc'[p] \notin {"fork", "aborted", "failed"} \cup NotReady,
             answer'[p] # "error", pc'[p] \in Draining \cup {"succeeded"} => shop_closed,
             CustomersInPlace(p)'
      PROVE  CustomersKnown'
  <2>1. NobodyGone'
    BY <1>0, <1>1, <1>5, NobodyLeaves
  <2>2. p \in Ready'
    BY <1>0, <1>5 DEF Ready, NotReady
  <2>3. QED
    BY <1>1, <1>5, <2>1, <2>2 DEF CustomersKnown
\* What a step that leaves the queue alone has to show.
<1>6. ASSUME Waiting' = Waiting, Entering' = Entering, read_idx' = read_idx, write_idx' = write_idx,
             pc'[p] \in {"pop", "try_cas"} => Waiting > 0,
             pc'[p] \in {"drain_empty", "try_empty", "try_cas"} => seen'[p] = read_idx,
             ~shop_closed =>
                /\ sem'["customer_waiting"] + Announcing' + Fetching'
                     = sem["customer_waiting"] + Announcing + Fetching
                /\ sem'["empty_chair"] + Arriving' + Serving'
                     = sem["empty_chair"] + Arriving + Serving
      PROVE  CustomersInPlace(p)'
  <2>1. ~shop_closed' =>
           /\ Waiting' = sem'["customer_waiting"] + Announcing' + Fetching'
           /\ Waiting' + sem'["empty_chair"] + Arriving' + Serving' <= Chairs
    BY <1>0, <1>1, <1>2, <1>6 DEF CustomersInPlace, Numbers
  <2>2. QED
    BY <1>1, <1>6, <2>1 DEF CustomersInPlace
\* What a step that takes a customer out of the queue has to show.
<1>7. ASSUME Waiting > 0, Waiting' = Waiting - 1, Entering' = Entering,
             read_idx' = Ring!Succ(read_idx), write_idx' = write_idx,
             pc'[p] \notin {"pop", "try_cas", "drain_empty", "try_empty"},
             ~shop_closed =>
                /\ sem'["customer_waiting"] + Announcing' + Fetching'
                     = sem["customer_waiting"] + Announcing + Fetching - 1
                /\ sem'["empty_chair"] + Arriving' + Serving'
                     = sem["empty_chair"] + Arriving + Serving + 1
      PROVE  CustomersInPlace(p)'
  <2>1. ~shop_closed' =>
           /\ Waiting' = sem'["customer_waiting"] + Announcing' + Fetching'
           /\ Waiting' + sem'["empty_chair"] + Arriving' + Serving' <= Chairs
    BY <1>0, <1>1, <1>2, <1>7 DEF CustomersInPlace, Numbers
  <2>2. Waiting' >= 0 /\ Waiting' + Entering' <= Chairs /\ Waiting \in 0 .. Chairs
    BY <1>0, <1>1, <1>2, <1>7 DEF CustomersInPlace, Numbers
  <2>3. write_idx' = (read_idx' + Waiting') % Chairs
    <3>1. write_idx = (read_idx + Waiting) % Chairs
      BY <1>1 DEF CustomersInPlace
    <3>2. write_idx = (Ring!Succ(read_idx) + (Waiting - 1)) % Chairs
      BY <1>0, <1>7, <2>2, <3>1, IndexMoves
    <3>3. QED
      BY <1>7, <3>2
  <2>4. QED
    BY <1>7, <2>1, <2>2, <2>3 DEF CustomersInPlace
<1>8. CASE WaitForCustomer(p)
  <2>1. /\ pc[p] = "wait_customer" /\ pc'[p] = "barber_check" /\ answer'[p] = "taken"
        /\ \A q \in Children \ {p} : pc'[q] = pc[q] /\ answer'[q] = answer[q]
        /\ counts' = counts /\ read_idx' = read_idx /\ write_idx' = write_idx /\ seen' = seen
        /\ sem'["customer_waiting"] = sem["customer_waiting"] - 1
        /\ sem'["empty_chair"] = sem["empty_chair"]
    BY <1>0, <1>8, TokensMove, NoCallFails DEF WaitForCustomer, Goto, ringVars
  <2>2. /\ Waiting' = Waiting /\ Entering' = Entering /\ Arriving' = Arriving
        /\ Announcing' = Announcing /\ Fetching' = Fetching + 1 /\ Serving' = Serving
    BY <1>2, <1>3, <1>4, <2>1, CountsMove DEF counts, Numbers
  <2>3. sem'["customer_waiting"] + Announcing' + Fetching'
          = sem["customer_waiting"] + Announcing + Fetching
    BY <1>2, <2>1, <2>2 DEF Numbers
  <2>4. CustomersInPlace(p)'
    BY <1>6, <2>1, <2>2, <2>3
  <2>5. QED
    BY <1>5, <2>1, <2>4 DEF Draining, NotReady
<1>9. CASE BarberCheck(p)
  <2>1. /\ pc[p] = "barber_check" /\ pc'[p] = IF shop_closed THEN "drain" ELSE "pop"
        /\ answer' = answer /\ sem' = sem
        /\ \A q \in Children \ {p} : pc'[q] = pc[q] /\ answer'[q] = answer[q]
        /\ counts' = counts /\ read_idx' = read_idx /\ write_idx' = write_idx /\ seen' = seen
    BY <1>0, <1>9 DEF BarberCheck, Goto, ringVars, OnlyControl, OnlySem, locals, semVars
  <2>2. /\ Waiting' = Waiting /\ Entering' = Entering /\ Arriving' = Arriving
        /\ Announcing' = Announcing /\ Serving' = Serving
        /\ Fetching' = IF shop_closed THEN Fetching - 1 ELSE Fetching
    BY <1>2, <1>3, <1>4, <2>1, CountsMove DEF counts, Numbers
  <2>3. ~shop_closed => Waiting > 0
    <3>1. Fetching > 0
      <4>1. Fetching' = Fetching + At(p, Fetchers)' - 1 /\ At(p, Fetchers)' >= 0
        BY <1>3, <2>1, CountsMove
      <4>2. p \in {q \in Children : pc[q] \in {"barber_check", "pop"}}
        BY <1>0, <2>1
      <4>3. QED
        <5> DEFINE S == {q \in Children : pc[q] \in {"barber_check", "pop"}}
        <5>1. IsFiniteSet(S)
          BY ReadyFacts, FS_Subset
        <5>2. Cardinality(S) # 0 /\ Cardinality(S) \in Nat
          BY <4>2, <5>1, FS_EmptySet, FS_CardinalityType
        <5>3. QED
          BY <5>2 DEF Fetching, CountAt
    <3>2. QED
      BY <1>1, <1>2, <3>1 DEF CustomersInPlace, Numbers
  <2>4. CustomersInPlace(p)'
    BY <1>6, <2>1, <2>2, <2>3
  <2>5. QED
    BY <1>0, <1>5, <2>1, <2>4 DEF Draining, NotReady
<1>10. CASE PopReserve(p)
  <2>1. /\ pc[p] = "pop" /\ pc'[p] = "read_slot" /\ answer' = answer /\ sem' = sem
        /\ \A q \in Children \ {p} : pc'[q] = pc[q] /\ answer'[q] = answer[q]
        /\ counts' = counts /\ read_idx' = Ring!Succ(read_idx) /\ write_idx' = write_idx
    BY <1>0, <1>10 DEF PopReserve, Ring!ReserveRead, Goto, OnlyRing, locals, semVars
  <2>2. /\ Waiting' = Waiting - 1 /\ Entering' = Entering /\ Arriving' = Arriving
        /\ Announcing' = Announcing /\ Fetching' = Fetching - 1 /\ Serving' = Serving + 1
    BY <1>2, <1>3, <1>4, <2>1, CountsMove DEF counts, Numbers
  <2>3. Waiting > 0
    BY <1>1, <2>1 DEF CustomersInPlace
  <2>4. /\ sem'["customer_waiting"] + Announcing' + Fetching'
             = sem["customer_waiting"] + Announcing + Fetching - 1
        /\ sem'["empty_chair"] + Arriving' + Serving'
             = sem["empty_chair"] + Arriving + Serving + 1
    BY <1>2, <2>1, <2>2 DEF Numbers
  <2>5. CustomersInPlace(p)'
    BY <1>7, <2>1, <2>2, <2>3, <2>4
  <2>6. QED
    BY <1>0, <1>5, <2>1, <2>5 DEF Draining, NotReady
<1>11. CASE PopRead(p) \/ TrimHair(p)
  <2>1. /\ \/ /\ counts' = counts
              /\ \/ pc[p] = "read_slot" /\ pc'[p] = "trim"
                 \/ pc[p] = "drain_read" /\ pc'[p] = "drain_trim"
           \/ /\ counts' = <<next_customer_id, served_customers + 1, refused_customers>>
              /\ \/ pc[p] = "trim" /\ pc'[p] = "notify_chair"
                 \/ pc[p] = "drain_trim" /\ pc'[p] = "drain"
        /\ answer' = answer /\ sem' = sem
        /\ \A q \in Children \ {p} : pc'[q] = pc[q] /\ answer'[q] = answer[q]
        /\ read_idx' = read_idx /\ write_idx' = write_idx
    BY <1>0, <1>11
       DEF PopRead, TrimHair, Ring!ReadSlot, Goto, OnlyRing, locals, semVars, counts, ringVars
  <2>2. /\ Waiting' = Waiting /\ Entering' = Entering /\ Arriving' = Arriving
        /\ Announcing' = Announcing /\ Fetching' = Fetching /\ Serving' = Serving
    BY <1>2, <1>3, <1>4, <2>1, CountsMove DEF counts, Numbers
  <2>3. CustomersInPlace(p)'
    BY <1>6, <2>1, <2>2
  <2>4. pc[p] \in Draining => shop_closed
    BY <1>0, <1>1 DEF NobodyGone
  <2>5. QED
    BY <1>0, <1>5, <2>1, <2>3, <2>4 DEF Draining, NotReady
<1>12. CASE NotifyChair(p)
  <2>1. /\ pc[p] = "notify_chair" /\ pc'[p] = "wait_customer" /\ answer' = answer
        /\ \A q \in Children \ {p} : pc'[q] = pc[q] /\ answer'[q] = answer[q]
        /\ counts' = counts /\ read_idx' = read_idx /\ write_idx' = write_idx
        /\ sem'["empty_chair"] = sem["empty_chair"] + 1
        /\ sem'["customer_waiting"] = sem["customer_waiting"]
    BY <1>0, <1>12, TokensMove, NoCallFails
       DEF NotifyChair, SemopFails, Goto, OnlySem, locals, ringVars
  <2>2. /\ Waiting' = Waiting /\ Entering' = Entering /\ Arriving' = Arriving
        /\ Announcing' = Announcing /\ Fetching' = Fetching /\ Serving' = Serving - 1
    BY <1>2, <1>3, <1>4, <2>1, CountsMove DEF counts, Numbers
  <2>3. sem'["empty_chair"] + Arriving' + Serving' = sem["empty_chair"] + Arriving + Serving
    BY <1>2, <2>1, <2>2 DEF Numbers
  <2>4. CustomersInPlace(p)'
    BY <1>6, <2>1, <2>2, <2>3
  <2>5. QED
    BY <1>0, <1>5, <2>1, <2>4 DEF Draining, NotReady
<1>13. CASE DrainLoad(p) \/ DrainEmpty(p)
  <2>1. /\ \/ pc[p] = "drain" /\ pc'[p] = "drain_empty" /\ seen'[p] = read_idx
           \/ pc[p] = "try_pop" /\ pc'[p] = "try_empty" /\ seen'[p] = read_idx
           \/ pc[p] = "drain_empty" /\ pc'[p] \in {"succeeded", "try_pop"}
           \/ pc[p] = "try_empty" /\ pc'[p] = "drain"
           \/ pc[p] = "try_empty" /\ pc'[p] = "try_cas" /\ seen[p] # write_idx /\ seen' = seen
        /\ answer' = answer /\ sem' = sem
        /\ \A q \in Children \ {p} : pc'[q] = pc[q] /\ answer'[q] = answer[q]
        /\ counts' = counts /\ read_idx' = read_idx /\ write_idx' = write_idx
    BY <1>0, <1>13 DEF DrainLoad, DrainEmpty, Goto, OnlySeen, OnlyControl, OnlySem, locals, semVars,
       ringVars
  <2>2. /\ Waiting' = Waiting /\ Entering' = Entering /\ Arriving' = Arriving
        /\ Announcing' = Announcing /\ Fetching' = Fetching /\ Serving' = Serving
    BY <1>2, <1>3, <1>4, <2>1, CountsMove DEF counts, Numbers
  <2>3. pc'[p] = "try_cas" => Waiting > 0 /\ seen[p] = read_idx
    <3>1. pc'[p] = "try_cas" => seen[p] = read_idx /\ write_idx # read_idx
      BY <1>1, <2>1 DEF CustomersInPlace
    <3>2. Waiting \in 0 .. Chairs /\ write_idx = (read_idx + Waiting) % Chairs
      BY <1>0, <1>1, <1>2 DEF CustomersInPlace, Numbers
    <3>3. write_idx # read_idx => Waiting > 0
      BY <1>0, <3>2, IndexMoves
    <3>4. QED
      BY <3>1, <3>3
  <2>4. CustomersInPlace(p)'
    BY <1>6, <2>1, <2>2, <2>3
  <2>5. pc[p] \in Draining => shop_closed
    BY <1>0, <1>1 DEF NobodyGone
  <2>6. QED
    BY <1>0, <1>5, <2>1, <2>4, <2>5 DEF Draining, NotReady
<1>14. CASE DrainCas(p)
  <2>1. pc[p] = "try_cas" /\ read_idx = seen[p] /\ Waiting > 0 /\ shop_closed
    BY <1>0, <1>1, <1>14 DEF DrainCas, Goto, CustomersInPlace, NobodyGone, Draining
  <2>2. /\ pc'[p] = "drain_read" /\ answer' = answer /\ sem' = sem
        /\ \A q \in Children \ {p} : pc'[q] = pc[q] /\ answer'[q] = answer[q]
        /\ counts' = counts /\ read_idx' = Ring!Succ(read_idx) /\ write_idx' = write_idx
    BY <1>0, <1>14, <2>1 DEF DrainCas, Ring!ReserveRead, Goto, OnlyRing, locals, semVars
  <2>3. /\ Waiting' = Waiting - 1 /\ Entering' = Entering
    BY <1>2, <1>3, <1>4, <2>1, <2>2, CountsMove DEF counts, Numbers
  <2>4. CustomersInPlace(p)'
    BY <1>7, <2>1, <2>2, <2>3
  <2>5. QED
    BY <1>0, <1>5, <2>1, <2>2, <2>4 DEF Draining, NotReady
<1>15. QED
    BY <1>8, <1>9, <1>10, <1>11, <1>12, <1>13, <1>14 DEF BarberStep

\* A process that is not at work goes on: no count changes.
LEMMA OutsideTheQueue ==
    ASSUME TypeOK, TypeOK', OneUndisturbed, CustomersKnown, NEW p \in Procs,
           \A q \in Children \ {p} : pc'[q] = pc[q],
           p \in Children => {pc[p], pc'[p]} \subseteq NotReady \cup {"arrive", "wait_customer"},
           answer' = answer, seen' = seen, counts' = counts,
           read_idx' = read_idx, write_idx' = write_idx,
           shop_closed => shop_closed',
           ~shop_closed' => /\ sem'["empty_chair"] = sem["empty_chair"]
                            /\ sem'["customer_waiting"] = sem["customer_waiting"],
           Ready' = {} => Ready = {} /\ ~shop_closed'
    PROVE  CustomersKnown'
<1>0. /\ Generators \subseteq Children /\ Barbers \subseteq Children /\ Generators \cap Barbers = {}
      /\ shop_closed \in BOOLEAN /\ shop_closed' \in BOOLEAN
    BY ShopFacts DEF TypeOK
<1>1. NobodyGone /\ (Ready = {} => Fresh) /\ \A b \in Barbers : CustomersInPlace(b)
    BY DEF CustomersKnown
<1>2. /\ At(p, Hands) = 0 /\ At(p, Hands)' = 0 /\ At(p, Announcers) = 0 /\ At(p, Announcers)' = 0
      /\ At(p, Servers) = 0 /\ At(p, Servers)' = 0 /\ At(p, Fetchers) = 0 /\ At(p, Fetchers)' = 0
      /\ Enters(p) = 0 /\ Enters(p)' = 0 /\ Arrives(p) = 0 /\ Arrives(p)' = 0
    BY <1>0 DEF At, Enters, Arrives, Hands, Announcers, Servers, Fetchers, NotReady
<1>3. Numbers /\ Numbers'
    BY NumbersFacts
<1>4. /\ InHand' = InHand /\ Entering' = Entering /\ Arriving' = Arriving
      /\ Announcing' = Announcing /\ Fetching' = Fetching /\ Serving' = Serving
    BY <1>2, <1>3, CountsMove DEF Numbers
<1>5. Waiting' = Waiting
    BY <1>4 DEF Waiting, counts
<1>6. NobodyGone'
  <2>1. ASSUME NEW c \in Children
        PROVE  /\ pc'[c] \notin {"fork", "aborted", "failed"} /\ answer'[c] # "error"
               /\ pc'[c] \in Draining \cup {"succeeded"} => shop_closed'
    <3>1. CASE c = p
      BY <1>1, <2>1, <3>1 DEF NobodyGone, NotReady, Draining
    <3>2. CASE c # p
      BY <1>1, <2>1, <3>2 DEF NobodyGone
    <3>3. QED
      BY <3>1, <3>2
  <2>2. QED
    BY <2>1 DEF NobodyGone
<1>7. Ready' = {} => Fresh'
    BY <1>1 DEF Fresh, counts
<1>8. ASSUME NEW b \in Barbers PROVE CustomersInPlace(b)'
  <2>1. CustomersInPlace(b) /\ seen'[b] = seen[b]
    BY <1>1
  <2>2. /\ pc'[b] \in {"pop", "try_cas"} => pc[b] \in {"pop", "try_cas"}
        /\ pc'[b] \in {"drain_empty", "try_empty", "try_cas"}
             => pc[b] \in {"drain_empty", "try_empty", "try_cas"}
    BY <1>0 DEF NotReady
  <2>3. QED
    BY <1>0, <1>4, <1>5, <2>1, <2>2 DEF CustomersInPlace
<1>9. QED
    BY <1>6, <1>7, <1>8 DEF CustomersKnown

\* Setting up changes nothing: a construction that disturbs nobody finds all as it was made.
LEMMA SetupCustomers ==
    ASSUME TypeOK, TypeOK', CustomersKnown, OpenBeforeClosed, NEW p \in Procs, SetupStep(p),
           OneUndisturbed, OneUndisturbed'
    PROVE  CustomersKnown'
<1>0. /\ pc \in [Procs -> Labels] /\ Children \subseteq Procs /\ ~shop_closed
      /\ shop_closed \in BOOLEAN /\ shop_closed' \in BOOLEAN
      /\ Barbers \subseteq Children /\ Parent \notin Children
    BY ShopFacts, SetUpWhileOpen DEF TypeOK
<1>1. NobodyGone /\ (Ready = {} => Fresh)
    BY DEF CustomersKnown
<1>2. CASE AttachAndConstruct(p)
  <2>1. /\ pc[p] = "attach" /\ pc'[p] \in {"wait_ready", "signal_readiness"}
        /\ p \in Children => pc'[p] = "signal_readiness"
        /\ \A q \in Children \ {p} : pc'[q] = pc[q]
        /\ answer' = answer /\ seen' = seen /\ sem' = sem /\ shop_closed' = FALSE
        /\ next_customer_id' = 0 /\ served_customers' = 0 /\ refused_customers' = 0
        /\ read_idx' = 0 /\ write_idx' = 0
    BY <1>0, <1>2 DEF AttachAndConstruct, Ring!Construct, Goto, locals, semVars
  <2>2. Ready = {}
    <3>1. ASSUME NEW c \in Children PROVE pc[c] \in NotReady
      <4>1. ~Running(c)
        BY <1>2 DEF AttachAndConstruct, OneUndisturbed
      <4>2. pc[c] \notin {"fork", "aborted", "failed", "succeeded"}
        BY <1>0, <1>1 DEF NobodyGone
      <4>3. QED
        BY <4>1, <4>2 DEF Running, HasMemory, Exited, NotReady
    <3>2. QED
      BY <3>1 DEF Ready, NotReady
  <2>3. Fresh
    BY <1>1, <2>2
  <2>4. counts' = counts /\ read_idx' = read_idx /\ write_idx' = write_idx
    BY <2>1, <2>3 DEF Fresh, counts
  <2>5. p \in Children => {pc[p], pc'[p]} \subseteq NotReady \cup {"arrive", "wait_customer"}
    BY <2>1 DEF NotReady
  <2>6. QED
    BY <1>0, <2>1, <2>2, <2>4, <2>5, OutsideTheQueue
<1>3. CASE p \in Children /\ SignalReadiness(p)
  <2>1. /\ pc[p] = "signal_readiness" /\ pc'[p] \in {"arrive", "wait_customer"}
        /\ \A q \in Children \ {p} : pc'[q] = pc[q]
        /\ answer' = answer /\ seen' = seen /\ shop_closed' = shop_closed /\ counts' = counts
        /\ read_idx' = read_idx /\ write_idx' = write_idx
    BY <1>0, <1>3 DEF SignalReadiness, Goto, OnlySem, locals, ringVars
  <2>2. /\ sem'["empty_chair"] = sem["empty_chair"]
        /\ sem'["customer_waiting"] = sem["customer_waiting"]
    BY <1>3, SemFacts
       DEF SignalReadiness, TypeOK, Notifier!SemTypeOK, Notifier!NotifyOne, Notifier!IncreaseValue
  <2>3. Ready' # {} /\ {pc[p], pc'[p]} \subseteq NotReady \cup {"arrive", "wait_customer"}
    BY <1>3, <2>1 DEF Ready, NotReady
  <2>4. QED
    BY <2>1, <2>2, <2>3, OutsideTheQueue
<1>4. ~AttachFails(p) /\ ~SignalReadinessFails(p)
    BY NoCallFails DEF AttachFails, SignalReadinessFails, SemopFails
<1>5. QED
    BY <1>2, <1>3, <1>4 DEF SetupStep

\* The parent touches neither queue nor counts, and gives tokens only when the shop is closed.
LEMMA ParentCustomers ==
    ASSUME TypeOK, TypeOK', CustomersKnown, OpenBeforeClosed, ParentStep,
           OneUndisturbed, OneUndisturbed'
    PROVE  CustomersKnown'
<1>0. /\ pc \in [Procs -> Labels] /\ Parent \in Procs /\ Parent \notin Children
      /\ shop_closed \in BOOLEAN /\ Children # {} /\ Children \subseteq Procs
  <2>1. 1 \in Children
    BY ShopFacts DEF Children
  <2>2. QED
    BY <2>1, ShopFacts DEF TypeOK
<1>1. CASE CreateProcess
  <2>1. forked + 1 \in Children /\ pc[forked + 1] = "unborn" /\ ~shop_closed
    BY <1>1, ShopFacts DEF CreateProcess, OpenBeforeClosed, TypeOK, Children
  <2>2. /\ pc'[forked + 1] = "attach" /\ \A q \in Children \ {forked + 1} : pc'[q] = pc[q]
        /\ answer' = answer /\ seen' = seen /\ counts' = counts /\ sem' = sem
        /\ read_idx' = read_idx /\ write_idx' = write_idx /\ shop_closed' = shop_closed
    BY <1>0, <1>1, <2>1 DEF CreateProcess, locals, ringVars, semVars
  <2>3. Ready' = Ready
    BY <1>0, <2>1, <2>2 DEF Ready
  <2>4. {pc[forked + 1], pc'[forked + 1]} \subseteq NotReady
    BY <2>1, <2>2 DEF NotReady
  <2>5. forked + 1 \in Procs
    BY <1>0, <2>1
  <2>6. QED
    BY <2>1, <2>2, <2>3, <2>4, <2>5, OutsideTheQueue
<1>2. ASSUME ~CreateProcess
      PROVE  /\ \A q \in Children : pc'[q] = pc[q]
             /\ answer' = answer /\ seen' = seen /\ counts' = counts
             /\ read_idx' = read_idx /\ write_idx' = write_idx
    BY <1>0, <1>2
       DEF ParentStep, CreateProcessFails, CheckCreated, WaitTillAllChildrenReady,
           WaitTillAllChildrenReadyFails, CloseShop, NotifyChairs, NotifyBarbers,
           WaitTillAllChildrenTerminate, AssertCounts, LeaveMain, SemopFails, Goto,
           OnlyControl, OnlySem, locals, ringVars
<1>3. ASSUME ~CreateProcess PROVE Ready' = Ready
    BY <1>2, <1>3 DEF Ready
<1>4. CASE NotifyChairs \/ NotifyBarbers
  <2>1. shop_closed /\ shop_closed' /\ Ready = Children /\ ~CreateProcess
    BY <1>4 DEF NotifyChairs, NotifyBarbers, SemopFails, OnlySem, Goto, OpenBeforeClosed, CreateProcess
  <2>2. QED
    BY <1>0, <1>2, <1>3, <2>1, OutsideTheQueue
<1>5. CASE CloseShop
  <2>1. /\ shop_closed' /\ sem' = sem /\ Ready = Children /\ ~CreateProcess
    BY <1>5 DEF CloseShop, Goto, OpenBeforeClosed, CreateProcess, semVars
  <2>2. QED
    BY <1>0, <1>2, <1>3, <2>1, OutsideTheQueue
<1>6. CASE \/ CheckCreated \/ WaitTillAllChildrenReady \/ WaitTillAllChildrenTerminate
           \/ AssertCounts
  <2>1. shop_closed' = shop_closed /\ (~CreateProcess \/ CheckCreated)
    BY <1>6 DEF CheckCreated, WaitTillAllChildrenReady, WaitTillAllChildrenTerminate,
       AssertCounts, SemopFails, OnlyControl, OnlySem, CreateProcess, Goto
  <2>2. ~CreateProcess
    BY <2>1, ShopFacts DEF CheckCreated, CreateProcess
  <2>3. /\ sem'["empty_chair"] = sem["empty_chair"]
        /\ sem'["customer_waiting"] = sem["customer_waiting"]
    BY <1>6, SemFacts
       DEF CheckCreated, WaitTillAllChildrenReady, WaitTillAllChildrenTerminate, AssertCounts,
           SemopFails, OnlyControl, semVars, TypeOK, Notifier!SemTypeOK, Notifier!WaitForAll,
           Notifier!DecreaseValue, Notifier!CallFails
  <2>4. Ready = {} => ~shop_closed
    BY <1>0 DEF OpenBeforeClosed
  <2>5. QED
    BY <1>0, <1>2, <1>3, <2>1, <2>2, <2>3, <2>4, OutsideTheQueue
<1>7. ~CreateProcessFails /\ ~WaitTillAllChildrenReadyFails /\ ~LeaveMain
  <2>1. ~CreateProcessFails
    BY ShopFacts DEF CreateProcessFails, OneUndisturbed, TypeOK, Notifier!SemTypeOK
  <2>2. ~WaitTillAllChildrenReadyFails
    BY NoCallFails DEF WaitTillAllChildrenReadyFails, SemopFails
  <2>3. ~LeaveMain
    BY DEF LeaveMain, Notifier!Remove, OneUndisturbed
  <2>4. QED
    BY <2>1, <2>2, <2>3
<1>8. QED
    BY <1>1, <1>4, <1>5, <1>6, <1>7 DEF ParentStep

-----------------------------------------------------------------------------
(* The theorems *)

\* The program starts with every chair free.
LEMMA InitIInv == Init => IInv
<1> SUFFICES ASSUME Init PROVE IInv
    OBVIOUS
<1>1. Ready = {} /\ Children \subseteq Nat /\ \A c \in Children : pc[c] = "unborn"
    BY ShopFacts DEF Init, Ready, Children, Parent
<1>2. OpenBeforeClosed
  <2>1. Cardinality(Ready) = 0
    BY <1>1, FS_EmptySet
  <2>2. sem["readiness"] = 0 /\ pc[Parent] = "fork" /\ shop_closed = FALSE
    BY SemFacts, ShopFacts DEF Init, Notifier!SemInit, Parent
  <2>3. QED
    BY <2>1, <2>2, <1>1 DEF OpenBeforeClosed
<1>3. SeatedGenerators = {} /\ SeatedBarbers = {}
    BY <1>1, ShopFacts DEF SeatedGenerators, SeatedBarbers
<1>4. sem["empty_chair"] = Chairs /\ sem["customer_waiting"] = 0
    BY SemFacts DEF Init, Notifier!SemInit
<1>5. ChairAccount
    BY <1>3, <1>4, AccountNamed, FS_EmptySet, ShopFacts DEF Tokens
<1>6. CustomersKnown
  <2>1. NobodyGone
    BY <1>1, ShopFacts DEF Init, NobodyGone, Draining
  <2>2. Fresh
    BY <1>4 DEF Init, Ring!RingInit, Fresh
  <2>3. \A labels : "unborn" \notin labels => CountAt(labels) = 0
    <3>1. ASSUME NEW labels, "unborn" \notin labels PROVE {c \in Children : pc[c] \in labels} = {}
      BY <1>1, <3>1
    <3>2. QED
      BY <3>1, FS_EmptySet DEF CountAt
  <2>4. InHand = 0 /\ Announcing = 0 /\ Serving = 0 /\ Fetching = 0
    BY <2>3 DEF InHand, Announcing, Serving, Fetching
  <2>5. Entering = 0 /\ Arriving = 0
    <3>1. /\ {p \in Generators : \/ answer[p] = "taken" /\ pc[p] = "take_number"
                                 \/ pc[p] = "push"} = {}
          /\ {p \in Generators :
                \/ answer[p] = "taken" /\ pc[p] \in {"generator_check", "take_number"}
                \/ pc[p] = "push"} = {}
      BY <1>1, ShopFacts
    <3>2. QED
      BY <3>1, FS_EmptySet DEF Entering, Arriving
  <2>6. Waiting = 0 /\ read_idx = 0 /\ write_idx = 0
    BY <2>2, <2>4 DEF Waiting, Fresh
  <2>7. ASSUME NEW b \in Barbers PROVE CustomersInPlace(b)
    <3>1. pc[b] = "unborn" /\ 0 % Chairs = 0
      BY <1>1, ShopFacts
    <3>2. QED
      BY <1>4, <2>4, <2>5, <2>6, <3>1, ShopFacts DEF CustomersInPlace
  <2>8. QED
    BY <2>1, <2>2, <2>7 DEF CustomersKnown
<1>7. QED
    BY <1>2, <1>5, <1>6, InitType DEF IInv

\* Types, the order of opening and closing, and the account of the chairs are an
\* invariant of the program, whatever fails; the account of the customers is one while
\* nothing has failed, nobody was disturbed, and one barber serves.
THEOREM Invariance == Spec => []IInv
<1>1. IInv /\ [Next]_vars => IInv'
  <2> SUFFICES ASSUME IInv, [Next]_vars PROVE IInv'
      OBVIOUS
  <2>1. TypeOK /\ OpenBeforeClosed /\ ChairAccount /\ CustomersKnown /\ TypeOK'
      BY TypeStep DEF IInv
  <2>2. CASE UNCHANGED vars
    <3>1. OpenBeforeClosed' /\ ChairAccount'
      BY <2>1, <2>2
         DEF vars, semVars, locals, OpenBeforeClosed, Ready, ChairAccount, ChairHolders
    <3>2. CustomersKnown'
      BY <2>1, <2>2
         DEF vars, semVars, locals, counts, ringVars, CustomersKnown, OneUndisturbed, NobodyGone,
             Ready, Fresh, CustomersInPlace, Waiting, InHand, Announcing, Serving, Fetching,
             CountAt, Entering, Arriving
    <3>3. QED
      BY <2>1, <3>1, <3>2 DEF IInv
  <2>3. ASSUME NEW p \in Procs, SetupStep(p) PROVE IInv'
    <3>1. OpenBeforeClosed' /\ ChairAccount'
      BY <2>1, <2>3, SetupOpening, SetupAccount
    <3>2. OneUndisturbed' => OneUndisturbed
      BY <2>1, <2>3, UndisturbedBefore DEF Step
    <3>3. CustomersKnown'
      BY <2>1, <2>3, <3>2, SetupCustomers DEF CustomersKnown
    <3>4. QED
      BY <2>1, <3>1, <3>3 DEF IInv
  <2>4. CASE ParentStep
    <3>1. OpenBeforeClosed' /\ ChairAccount'
      BY <2>1, <2>4, ParentOpening, ParentAccount
    <3>2. OneUndisturbed' => OneUndisturbed
      BY <2>1, <2>4, ShopFacts, UndisturbedBefore DEF Step
    <3>3. CustomersKnown'
      BY <2>1, <2>4, <3>2, ParentCustomers DEF CustomersKnown
    <3>4. QED
      BY <2>1, <3>1, <3>3 DEF IInv
  <2>5. ASSUME NEW p \in Generators, GeneratorStep(p) PROVE IInv'
    <3>1. OpenBeforeClosed' /\ shop_closed' = shop_closed /\ ChairAccount'
      BY <2>1, <2>5, ShopFacts, WorkOpening, GeneratorAccount
    <3>2. OneUndisturbed' => OneUndisturbed
      BY <2>1, <2>5, ShopFacts, UndisturbedBefore DEF Step
    <3>3. CustomersKnown'
      BY <2>1, <2>5, <3>1, <3>2, GeneratorCustomers DEF CustomersKnown
    <3>4. QED
      BY <2>1, <3>1, <3>3 DEF IInv
  <2>6. ASSUME NEW p \in Barbers, BarberStep(p) PROVE IInv'
    <3>1. OpenBeforeClosed' /\ shop_closed' = shop_closed /\ ChairAccount'
      BY <2>1, <2>6, ShopFacts, WorkOpening, BarberAccount
    <3>2. OneUndisturbed' => OneUndisturbed
      BY <2>1, <2>6, ShopFacts, UndisturbedBefore DEF Step
    <3>3. CustomersKnown'
      BY <2>1, <2>6, <3>1, <3>2, BarberCustomers DEF CustomersKnown
    <3>4. QED
      BY <2>1, <3>1, <3>3 DEF IInv
  <2>7. QED
      BY <2>2, <2>3, <2>4, <2>5, <2>6 DEF Next, Step
<1>2. QED
    BY <1>1, InitIInv, PTL DEF Spec

\* Until the shop closes no chair appears from nowhere.
THEOREM ChairAccountHolds == Spec => []ChairAccount
<1>1. IInv => ChairAccount
    BY DEF IInv
<1>2. QED
    BY <1>1, Invariance, PTL

\* With one barber no customer is lost or invented, and no push overruns the chairs, for any
\* number of generators and chairs, while the shop is open and while it closes.
THEOREM CustomerAccountHolds == Spec => []CustomerAccount
<1>1. IInv => CustomerAccount
  <2> SUFFICES ASSUME IInv, OneUndisturbed
               PROVE  Waiting \in 0 .. Chairs /\ write_idx = (read_idx + Waiting) % Chairs
    BY DEF CustomerAccount
  <2>1. GeneratorCount + 1 \in Barbers
    BY ShopFacts DEF OneUndisturbed, Barbers, Children, Generators, ChildrenCount
  <2>2. PICK b \in Barbers : CustomersInPlace(b)
    BY <2>1 DEF IInv, CustomersKnown
  <2>3. Waiting \in Int /\ Entering \in Nat
    BY NumbersFacts DEF IInv, Numbers
  <2>4. /\ Waiting >= 0 /\ Waiting + Entering <= Chairs
        /\ write_idx = (read_idx + Waiting) % Chairs
    BY <2>2 DEF CustomersInPlace
  <2>5. QED
    BY <2>3, <2>4, ShopFacts
<1>2. QED
    BY <1>1, Invariance, PTL
=============================================================================
