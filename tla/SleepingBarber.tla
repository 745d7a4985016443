--------------------------- MODULE SleepingBarber ---------------------------
(***************************************************************************)
(* apps/sleeping_barber_problem: customer generators push customers into a *)
(* ring buffer with as many slots as the shop has chairs, barbers pop and  *)
(* serve them, and the parent closes the shop after a while.  The chairs   *)
(* and the customers waiting are counted by two semaphores.                *)
(*                                                                         *)
(* Processes are numbered: 0 is the parent, 1 .. GeneratorCount are the    *)
(* generators, the barbers follow.  A customer is a number in the program; *)
(* here all of them are one element of the ring.                           *)
(***************************************************************************)
EXTENDS Integers, FiniteSets

CONSTANTS GeneratorCount,    \* customer_generator_count
          BarberCount,       \* barber_count
          Chairs,            \* waiting_chair_count, the capacity of the ring too
          MaxCustomers,      \* bound: generators sleep on when so many have come
          MaxFaults,         \* bound on injected failures
          Customer, Blank, Torn

ASSUME ShopAssumption ==
    /\ GeneratorCount \in Nat \ {0}
    /\ BarberCount \in Nat \ {0}
    /\ Chairs \in Nat \ {0, 1}
    /\ MaxCustomers \in Nat
    /\ MaxFaults \in Nat

Parent == 0
ChildrenCount == GeneratorCount + BarberCount
Children == 1 .. ChildrenCount
Procs == 0 .. ChildrenCount
Generators == 1 .. GeneratorCount
Barbers == Children \ Generators

Semaphores == {"readiness", "empty_chair", "customer_waiting"}
GroupSize == [s \in Semaphores |->
                CASE s = "readiness"        -> ChildrenCount
                  [] s = "empty_chair"      -> GeneratorCount
                  [] s = "customer_waiting" -> BarberCount]
InitValues == [s \in Semaphores |-> IF s = "empty_chair" THEN Chairs ELSE 0]

VARIABLES
    pc, forked,
    sem, removed, faults,
    shop_closed, next_customer_id, served_customers, refused_customers,
    data, read_idx, write_idx, writing, clashed, reading,   \* customer_queue
    answer,     \* result of the last wait of a generator or a barber
    seen,       \* a barber that drains the queue: the index it has loaded
    disturbed   \* history: shared_data was constructed when a child was already running

Ring == INSTANCE RingReservation WITH Capacity <- Chairs, Values <- {Customer}
Notifier == INSTANCE SystemVGroupNotifier

ringVars == <<data, read_idx, write_idx, writing, clashed, reading>>
semVars == <<sem, removed, faults>>
counts == <<next_customer_id, served_customers, refused_customers>>
locals == <<answer, seen>>
vars == <<pc, forked, semVars, shop_closed, counts, ringVars, locals, disturbed>>

Exited == {"succeeded", "failed"}
Draining == {"drain", "drain_empty", "try_pop", "try_empty", "try_cas", "drain_read",
             "drain_trim"}
Labels == {"fork", "attach", "wait_ready", "open", "notify_chairs", "notify_barbers",
           "wait_children", "assert_counts", "exit_failure", "exit_success", "aborted",
           "unborn", "signal_readiness",
           "arrive", "generator_check", "take_number", "refuse", "push", "write_slot",
           "notify_waiting",
           "wait_customer", "barber_check", "pop", "read_slot", "trim", "notify_chair"}
          \cup Draining \cup Exited
Answers == {"taken", "again", "error"}

TypeOK ==
    /\ pc \in [Procs -> Labels]
    /\ forked \in 0 .. ChildrenCount
    /\ Notifier!SemTypeOK
    /\ shop_closed \in BOOLEAN
    /\ {next_customer_id, served_customers, refused_customers} \subseteq Nat
    /\ Ring!RingTypeOK
    /\ answer \in [Children -> Answers] /\ \A b \in Barbers : answer[b] # "again"
    /\ seen \in [Barbers -> Ring!Slots]
    /\ disturbed \in BOOLEAN

Init ==
    /\ pc = [p \in Procs |-> IF p = Parent THEN "fork" ELSE "unborn"]
    /\ forked = 0
    /\ Notifier!SemInit(InitValues)
    /\ shop_closed = FALSE
    /\ next_customer_id = 0 /\ served_customers = 0 /\ refused_customers = 0
    /\ Ring!RingInit
    /\ answer = [p \in Children |-> "taken"]
    /\ seen = [b \in Barbers |-> 0]
    /\ disturbed = FALSE

-----------------------------------------------------------------------------
Goto(p, from, to) ==
    /\ pc[p] = from
    /\ pc' = [pc EXCEPT ![p] = to]

\* Steps that, besides control, change the semaphores only, nothing, the ring
\* only, or the local variables only.
OnlySem == UNCHANGED <<forked, shop_closed, counts, ringVars, locals, disturbed>>
OnlyControl == UNCHANGED semVars /\ OnlySem
OnlyRing == UNCHANGED <<forked, semVars, shop_closed, counts, locals, disturbed>>
OnlySeen == UNCHANGED <<forked, semVars, shop_closed, counts, ringVars, answer,
                        disturbed>>

SemopFails(p, from, to) == Goto(p, from, to) /\ Notifier!CallFails /\ OnlySem

-----------------------------------------------------------------------------
(* Creation and set-up *)

CreateProcess ==
    /\ pc[Parent] = "fork"
    /\ forked < ChildrenCount
    /\ forked' = forked + 1
    /\ pc' = [pc EXCEPT ![forked + 1] = "attach"]
    /\ UNCHANGED <<semVars, shop_closed, counts, ringVars, locals, disturbed>>

\* A failed fork leaves the inner loop only: the barbers are forked all the same.
CreateProcessFails ==
    /\ pc[Parent] = "fork"
    /\ forked < ChildrenCount
    /\ faults < MaxFaults
    /\ faults' = faults + 1
    /\ forked' = IF forked < GeneratorCount THEN GeneratorCount ELSE ChildrenCount
    /\ UNCHANGED <<pc, sem, removed, shop_closed, counts, ringVars, locals, disturbed>>

CheckCreated ==
    /\ forked = ChildrenCount
    /\ Goto(Parent, "fork", IF \E c \in Children : pc[c] = "unborn"
                            THEN "exit_failure" ELSE "attach")
    /\ OnlyControl

HasMemory(p) == pc[p] \notin {"unborn", "fork", "attach", "aborted"} \cup Exited
Running(p) == HasMemory(p) /\ pc[p] # "signal_readiness"

\* Every process constructs shared_data.  Children that are ready do not wait for
\* the others, so that they may be serving or generating customers by then.
AttachAndConstruct(p) ==
    /\ removed => \E q \in Procs : HasMemory(q)
    /\ Goto(p, "attach", IF p = Parent THEN "wait_ready" ELSE "signal_readiness")
    /\ shop_closed' = FALSE
    /\ next_customer_id' = 0 /\ served_customers' = 0 /\ refused_customers' = 0
    /\ Ring!Construct
    /\ disturbed' = (disturbed \/ \E q \in Children : Running(q))
    /\ UNCHANGED <<forked, semVars, locals>>

AttachFails(p) ==
    SemopFails(p, "attach", IF p = Parent THEN "exit_failure" ELSE "failed")

SignalReadiness(p) ==
    /\ Goto(p, "signal_readiness",
            IF p \in Generators THEN "arrive" ELSE "wait_customer")
    /\ Notifier!NotifyOne("readiness")
    /\ OnlySem

SignalReadinessFails(p) == SemopFails(p, "signal_readiness", "failed")

\* Variant: one child that is ready is enough.
WaitTillOneChildReady ==
    /\ Goto(Parent, "wait_ready", "open")
    /\ Notifier!WaitForOne("readiness")
    /\ OnlySem

WaitTillAllChildrenReady ==
    /\ Goto(Parent, "wait_ready", "open")
    /\ Notifier!WaitForAll("readiness")
    /\ OnlySem

WaitTillAllChildrenReadyFails == SemopFails(Parent, "wait_ready", "exit_failure")

-----------------------------------------------------------------------------
(* The parent: sleep, then close the shop *)

CloseShop ==
    /\ Goto(Parent, "open", "notify_chairs")
    /\ shop_closed' = TRUE
    /\ UNCHANGED <<forked, semVars, counts, ringVars, locals, disturbed>>

\* The results of both notify_all are ignored.
NotifyChairs ==
    \/ Goto(Parent, "notify_chairs", "notify_barbers")
         /\ Notifier!NotifyAll("empty_chair") /\ OnlySem
    \/ SemopFails(Parent, "notify_chairs", "notify_barbers")

\* Variant: the barbers are not woken.
ForgetBarbers == Goto(Parent, "notify_barbers", "wait_children") /\ OnlyControl

NotifyBarbers ==
    \/ Goto(Parent, "notify_barbers", "wait_children")
         /\ Notifier!NotifyAll("customer_waiting") /\ OnlySem
    \/ SemopFails(Parent, "notify_barbers", "wait_children")

WaitTillAllChildrenTerminate ==
    \/ /\ \A c \in Children : pc[c] \in Exited
       /\ Goto(Parent, "wait_children", "assert_counts")
       /\ OnlyControl
    \/ SemopFails(Parent, "wait_children", "exit_failure")

AssertCounts ==
    /\ Goto(Parent, "assert_counts",
            IF served_customers + refused_customers = next_customer_id
            THEN "exit_success" ELSE "aborted")
    /\ OnlyControl

LeaveMain ==
    /\ \/ Goto(Parent, "exit_failure", "failed")
       \/ Goto(Parent, "exit_success", "succeeded")
    /\ Notifier!Remove
    /\ OnlySem

-----------------------------------------------------------------------------
(* generate_customers *)

CountAt(labels) == Cardinality({p \in Children : pc[p] \in labels})

\* A customer arrives and tries to take a chair, without waiting for one.
Arrive(p) ==
    /\ shop_closed \/ next_customer_id + CountAt({"generator_check", "take_number"})
                        < MaxCustomers
    /\ Goto(p, "arrive", "generator_check")
    /\ \/ Notifier!WaitForOne("empty_chair") /\ answer' = [answer EXCEPT ![p] = "taken"]
       \/ Notifier!NoneToTake("empty_chair") /\ answer' = [answer EXCEPT ![p] = "again"]
       \/ Notifier!CallFails /\ answer' = [answer EXCEPT ![p] = "error"]
    /\ UNCHANGED <<forked, shop_closed, counts, ringVars, seen, disturbed>>

\* Variant: customers come in after closing time.
IgnoreClosed(p) == Goto(p, "generator_check", "take_number") /\ OnlyControl

\* shop_closed is looked at before the answer; a chair that was taken is kept.
GeneratorCheck(p) ==
    /\ Goto(p, "generator_check", IF shop_closed THEN "succeeded" ELSE "take_number")
    /\ OnlyControl

TakeNumber(p) ==
    /\ Goto(p, "take_number", CASE answer[p] = "taken" -> "push"
                                [] answer[p] = "again" -> "refuse"
                                [] answer[p] = "error" -> "failed")
    /\ next_customer_id' = next_customer_id + 1
    /\ UNCHANGED <<forked, semVars, shop_closed, served_customers, refused_customers,
                   ringVars, locals, disturbed>>

Refuse(p) ==
    /\ Goto(p, "refuse", "arrive")
    /\ refused_customers' = refused_customers + 1
    /\ UNCHANGED <<forked, semVars, shop_closed, next_customer_id, served_customers,
                   ringVars, locals, disturbed>>

PushReserve(p) ==
    Goto(p, "push", "write_slot") /\ Ring!ReserveWrite(p) /\ OnlyRing

PushWrite(p) ==
    Goto(p, "write_slot", "notify_waiting") /\ Ring!WriteSlot(p, Customer) /\ OnlyRing

NotifyWaiting(p) ==
    \/ Goto(p, "notify_waiting", "arrive")
         /\ Notifier!NotifyOne("customer_waiting") /\ OnlySem
    \/ SemopFails(p, "notify_waiting", "failed")

-----------------------------------------------------------------------------
(* serve_customer *)

WaitForCustomer(p) ==
    /\ Goto(p, "wait_customer", "barber_check")
    /\ \/ /\ Notifier!WaitForOne("customer_waiting")
          /\ answer' = [answer EXCEPT ![p] = "taken"]
       \/ Notifier!CallFails /\ answer' = [answer EXCEPT ![p] = "error"]
    /\ UNCHANGED <<forked, shop_closed, counts, ringVars, seen, disturbed>>

BarberCheck(p) ==
    /\ Goto(p, "barber_check", CASE shop_closed -> "drain"
                                 [] ~shop_closed /\ answer[p] = "taken" -> "pop"
                                 [] ~shop_closed /\ answer[p] = "error" -> "failed")
    /\ OnlyControl

PopReserve(p) ==
    Goto(p, "pop", "read_slot") /\ Ring!ReserveRead(p) /\ OnlyRing

PopRead(p) ==
    /\ \/ Goto(p, "read_slot", "trim")
       \/ Goto(p, "drain_read", "drain_trim")
    /\ \E element \in Ring!Elements : Ring!ReadSlot(p, element)
    /\ OnlyRing

TrimHair(p) ==
    /\ \/ Goto(p, "trim", "notify_chair")
       \/ Goto(p, "drain_trim", "drain")
    /\ served_customers' = served_customers + 1
    /\ UNCHANGED <<forked, semVars, shop_closed, next_customer_id, refused_customers,
                   ringVars, locals, disturbed>>

NotifyChair(p) ==
    \/ Goto(p, "notify_chair", "wait_customer")
         /\ Notifier!NotifyOne("empty_chair") /\ OnlySem
    \/ SemopFails(p, "notify_chair", "failed")

\* while (!customer_queue.empty()) try_pop: both load read_idx, then write_idx.
DrainLoad(p) ==
    /\ Goto(p, "drain", "drain_empty") \/ Goto(p, "try_pop", "try_empty")
    /\ seen' = [seen EXCEPT ![p] = read_idx]
    /\ OnlySeen

DrainEmpty(p) ==
    /\ \/ Goto(p, "drain_empty", IF seen[p] = write_idx THEN "succeeded" ELSE "try_pop")
       \/ Goto(p, "try_empty", IF seen[p] = write_idx THEN "drain" ELSE "try_cas")
    /\ OnlyControl

DrainCas(p) ==
    /\ Goto(p, "try_cas", IF read_idx = seen[p] THEN "drain_read" ELSE "drain")
    /\ IF read_idx = seen[p] THEN Ring!ReserveRead(p) ELSE UNCHANGED ringVars
    /\ OnlyRing

-----------------------------------------------------------------------------
ParentStep ==
    \/ CreateProcess \/ CreateProcessFails \/ CheckCreated
    \/ WaitTillAllChildrenReady \/ WaitTillAllChildrenReadyFails
    \/ CloseShop \/ NotifyChairs \/ NotifyBarbers
    \/ WaitTillAllChildrenTerminate \/ AssertCounts \/ LeaveMain

SetupStep(p) ==
    \/ AttachAndConstruct(p) \/ AttachFails(p)
    \/ p \in Children /\ (SignalReadiness(p) \/ SignalReadinessFails(p))

GeneratorStep(p) ==
    \/ Arrive(p) \/ GeneratorCheck(p) \/ TakeNumber(p) \/ Refuse(p)
    \/ PushReserve(p) \/ PushWrite(p) \/ NotifyWaiting(p)

BarberStep(p) ==
    \/ WaitForCustomer(p) \/ BarberCheck(p) \/ PopReserve(p) \/ PopRead(p)
    \/ TrimHair(p) \/ NotifyChair(p) \/ DrainLoad(p) \/ DrainEmpty(p) \/ DrainCas(p)

Step(p) ==
    \/ SetupStep(p)
    \/ p = Parent /\ ParentStep
    \/ p \in Generators /\ GeneratorStep(p)
    \/ p \in Barbers /\ BarberStep(p)

Next == \E p \in Procs : Step(p)

Spec == Init /\ [][Next]_vars

\* Every process keeps running, the parent's sleep ends; no failure is ever owed.
FairSpec == Spec /\ \A p \in Procs : WF_vars(Step(p) /\ faults' = faults)

-----------------------------------------------------------------------------
(* Properties *)

\* Until the shop closes every chair is free, taken by a customer on the way to
\* the queue, waiting there, or just left by one: none appears from nowhere,
\* whenever processes construct shared_data and whichever call fails.
ChairHolders ==
    Cardinality({p \in Generators :
        \/ answer[p] = "taken" /\ pc[p] \in {"generator_check", "take_number"}
        \/ pc[p] \in {"push", "write_slot", "notify_waiting"}})
    + Cardinality({p \in Barbers :
        \/ answer[p] = "taken" /\ pc[p] = "barber_check"
        \/ pc[p] \in {"pop", "read_slot", "trim", "notify_chair"}})
ChairAccount ==
    ~shop_closed => sem["empty_chair"] + sem["customer_waiting"] + ChairHolders <= Chairs

\* What makes ChairAccount inductive: the shop closes, for good, only when every child has
\* signalled that it is ready, so that nobody constructs shared_data and opens it again; and
\* tokens are given to all of a group only when it is closed.
Ready == {c \in Children : pc[c] \notin {"unborn", "attach", "signal_readiness"}}
OpenBeforeClosed ==
    /\ \A c \in Children : c > forked => pc[c] = "unborn"
    /\ sem["readiness"] <= Cardinality(Ready)
    /\ shop_closed \/ pc[Parent] = "open" => Ready = Children
    /\ pc[Parent] \in {"fork", "attach", "wait_ready", "open"} => ~shop_closed
    /\ pc[Parent] \in {"notify_chairs", "notify_barbers"} => shop_closed
\* Every customer who has come is refused, served, in somebody's hands or in the
\* queue, also while the shop closes; the queue holds no more than Chairs, and the
\* indices say how many (up to the full ring that looks empty).  The tokens that
\* wake everybody at closing time never let a customer in.  (A second barber that
\* drains the queue would take the customers of one that is about to pop.)
InHand == CountAt({"refuse", "push", "read_slot", "trim", "drain_read", "drain_trim"})
Waiting == next_customer_id - served_customers - refused_customers - InHand
OneUndisturbed == BarberCount = 1 /\ ~disturbed /\ faults = 0 /\ ~removed
CustomerAccount ==
    OneUndisturbed => /\ Waiting \in 0 .. Chairs
                      /\ write_idx = (read_idx + Waiting) % Chairs

\* What makes it inductive.  Nobody has left with an error, or before closing time, and
\* a construction while no child is ready finds everything as it leaves it.
NobodyGone ==
    /\ \A c \in Children : pc[c] \notin {"fork", "aborted", "failed"} /\ answer[c] # "error"
    /\ \A c \in Children : pc[c] \in Draining \cup {"succeeded"} => shop_closed
Fresh ==
    /\ {next_customer_id, served_customers, refused_customers, read_idx, write_idx} = {0}
    /\ sem["empty_chair"] = Chairs /\ sem["customer_waiting"] = 0

\* Who has a chair but is not in the queue yet: all of them, and those whom closing time
\* does not turn away.
Entering ==
    Cardinality({p \in Generators :
        \/ answer[p] = "taken" /\ pc[p] = "take_number"
        \/ pc[p] = "push"})
Arriving ==
    Cardinality({p \in Generators :
        \/ answer[p] = "taken" /\ pc[p] \in {"generator_check", "take_number"}
        \/ pc[p] = "push"})

\* Who has yet to give a token for a customer in the queue, or a chair; who is about to fetch one.
Announcing == CountAt({"write_slot", "notify_waiting"})
Serving == CountAt({"read_slot", "trim", "notify_chair"})
Fetching == CountAt({"barber_check", "pop"})

\* The queue has room for them.  Until closing time each customer in it has a token, which
\* its generator has yet to give, or the barber has taken; afterwards the barber goes by
\* the indices, of which nobody else moves the one it has loaded.
CustomersInPlace(b) ==
    /\ Waiting >= 0 /\ Waiting + Entering <= Chairs
    /\ write_idx = (read_idx + Waiting) % Chairs
    /\ pc[b] \in {"pop", "try_cas"} => Waiting > 0
    /\ pc[b] \in {"drain_empty", "try_empty", "try_cas"} => seen[b] = read_idx
    /\ ~shop_closed =>
          /\ Waiting = sem["customer_waiting"] + Announcing + Fetching
          /\ Waiting + sem["empty_chair"] + Arriving + Serving <= Chairs
CustomersKnown ==
    OneUndisturbed => /\ NobodyGone /\ (Ready = {} => Fresh)
                      /\ \A b \in Barbers : CustomersInPlace(b)
IInv == TypeOK /\ OpenBeforeClosed /\ ChairAccount /\ CustomersKnown

\* The shop closes: every process ends, unless the final assert stops the parent,
\* even though generators do not wait for the barbers and the other way round.
ShopCloses ==
    pc[Parent] = "notify_chairs" /\ [](faults = 0)
        ~> \/ \A p \in Procs : pc[p] \in Exited
           \/ pc[Parent] = "aborted" /\ \A c \in Children : pc[c] \in Exited

\* Violated: barber.hpp:38, `finishing serving last customers'.  When the closing
\* barber sees an empty queue nobody is in it: not so when every chair is taken.
\* The parent's assert(served + refused == arrived) fails in consequence.
LastCustomersServed ==
    \A b \in Barbers :
        ~disturbed /\ pc[b] = "drain_empty" /\ seen[b] = write_idx => Waiting = 0
=============================================================================
