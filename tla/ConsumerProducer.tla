-------------------------- MODULE ConsumerProducer --------------------------
(***************************************************************************)
(* apps/consumer_producer_problem: a parent process forks children, waits  *)
(* until they are ready, starts production, takes part in it, and shuts    *)
(* the consumers down.  Producers push messages into a ring buffer in      *)
(* shared memory; every hand-over is signalled through a System V          *)
(* semaphore set that is used as four group notifiers.                     *)
(*                                                                         *)
(* Processes are numbered: 0 is the parent, 1, 2, ... its children in the  *)
(* order they are forked.  Interleaving is per atomic access or semop.     *)
(***************************************************************************)
EXTENDS Integers, FiniteSets

CONSTANTS ChildProducerCount,   \* child_producer_count
          ChildConsumerCount,   \* child_consumer_count
          MessageCount,         \* message_count, per producer
          Capacity,             \* message_queue_capacity
          MaxFaults,            \* bound on injected failures
          Blank, Torn           \* see RingReservation

\* main.cpp: static_assert(producer_count > 0), static_assert(consumer_count > 0)
ASSUME CountsAssumption ==
    /\ ChildProducerCount \in Nat \ {0}
    /\ ChildConsumerCount \in Nat \ {0}
    /\ MessageCount \in Nat
    /\ Capacity \in Nat \ {0, 1}
    /\ MaxFaults \in Nat

Parent == 0
ChildrenCount == ChildProducerCount + ChildConsumerCount
Children == 1 .. ChildrenCount
Procs == 0 .. ChildrenCount

\* create_child_processes: the loop runs c = 0 first, over child_producer_count
\* children, and assigns is_producer = c; the parent is a producer too.
IsProducer(p) == p = Parent \/ p > ChildProducerCount
Producers == {p \in Procs : IsProducer(p)}
Consumers == Procs \ Producers

\* Only the parent's info.group_id is ever assigned (the last loop counter).
GroupId(p) == IF p = Parent THEN ChildConsumerCount ELSE 0

\* "message with id: i from producer: group_id"
MessageOf(p, id) == <<id, GroupId(p)>>
Messages == {MessageOf(p, id) : p \in Producers, id \in 0 .. (MessageCount - 1)}

\* The constants of main.cpp that size the notifiers.
ProducerCount == ChildProducerCount + 1
ConsumerCount == ChildConsumerCount

Semaphores == {"readiness", "written", "read", "producers"}
GroupSize == [s \in Semaphores |->
                CASE s = "readiness" -> ChildrenCount
                  [] s = "written"   -> ConsumerCount
                  [] s = "read"      -> ProducerCount
                  [] s = "producers" -> ProducerCount]
\* Variant: one free slot too many.
InitValuesOneMore == [s \in Semaphores |-> IF s = "read" THEN Capacity + 1 ELSE 0]

InitValues == [s \in Semaphores |-> IF s = "read" THEN Capacity ELSE 0]

VARIABLES
    pc,                        \* where each process is
    forked,                    \* children the fork loop has gone past
    sem, removed, faults,      \* the semaphore set, and the shared memory's removal
    done_flag,                 \* shared_data
    produced_message_count,
    consumed_message_count,
    data, read_idx, write_idx, writing, clashed, reading,   \* message_queue
    i,                         \* producer: loop counter of produce_messages
    message,                   \* consumer: the message popped last
    observed                   \* parent: the left operand of the final assert

Ring == INSTANCE RingReservation WITH Values <- Messages
Notifier == INSTANCE SystemVGroupNotifier

ringVars == <<data, read_idx, write_idx, writing, clashed, reading>>
semVars == <<sem, removed, faults>>
countVars == <<produced_message_count, consumed_message_count>>
localVars == <<i, message, observed>>
vars == <<pc, forked, semVars, done_flag, countVars, ringVars, localVars>>

Exited == {"succeeded", "failed"}

Labels == {"unborn", "attach", "signal_readiness",
           "fork", "wait_ready", "start_production",
           "await_start", "push", "write_slot", "count_produced",
           "notify_written", "wait_read", "notify_completion",
           "wait_message", "check_done", "check_done_failed", "pop",
           "read_slot", "count_consumed", "notify_read",
           "wait_production", "wait_consumed", "load_consumed",
           "assert_counts", "store_done", "notify_stop", "wait_children",
           "exit_failure", "exit_success", "aborted"} \cup Exited

TypeOK ==
    /\ pc \in [Procs -> Labels]
    /\ forked \in 0 .. ChildrenCount
    /\ Notifier!SemTypeOK
    /\ done_flag \in BOOLEAN
    /\ produced_message_count \in Nat
    /\ consumed_message_count \in Nat
    /\ Ring!RingTypeOK
    /\ i \in [Procs -> Nat]
    /\ message \in [Procs -> Ring!Elements]
    /\ observed \in Nat

Init ==
    /\ pc = [p \in Procs |-> IF p = Parent THEN "fork" ELSE "unborn"]
    /\ forked = 0
    /\ Notifier!SemInit(InitValues)
    /\ done_flag = FALSE
    /\ produced_message_count = 0
    /\ consumed_message_count = 0
    /\ Ring!RingInit
    /\ i = [p \in Procs |-> 0]
    /\ message = [p \in Procs |-> Blank]
    /\ observed = 0

-----------------------------------------------------------------------------
Goto(p, from, to) ==
    /\ pc[p] = from
    /\ pc' = [pc EXCEPT ![p] = to]

\* A child that gives up is gone; the parent still has to leave main.
Failure(p) == IF p = Parent THEN "exit_failure" ELSE "failed"

\* A step of p whose only other effect is on the semaphore set.
OnlySem == UNCHANGED <<forked, done_flag, countVars, ringVars, localVars>>

\* The error branch of a semaphore operation.
SemopFails(p, from, to) == Goto(p, from, to) /\ Notifier!CallFails /\ OnlySem

-----------------------------------------------------------------------------
(* Creation and set-up *)

CreateProcess ==
    /\ pc[Parent] = "fork"
    /\ forked < ChildrenCount
    /\ forked' = forked + 1
    /\ pc' = [pc EXCEPT ![forked + 1] = "attach"]
    /\ UNCHANGED <<semVars, done_flag, countVars, ringVars, localVars>>

\* A failed fork leaves the inner loop only: the children of the other role follow.
CreateProcessFails ==
    /\ pc[Parent] = "fork"
    /\ forked < ChildrenCount
    /\ faults < MaxFaults
    /\ faults' = faults + 1
    /\ forked' = IF forked < ChildProducerCount THEN ChildProducerCount
                                                ELSE ChildrenCount
    /\ UNCHANGED <<pc, sem, removed, done_flag, countVars, ringVars, localVars>>

CheckCreated ==
    /\ forked = ChildrenCount
    /\ Goto(Parent, "fork", IF \E c \in Children : pc[c] = "unborn"
                            THEN "exit_failure" ELSE "attach")
    /\ UNCHANGED <<forked, semVars, done_flag, countVars, ringVars, localVars>>

HasMemory(p) == pc[p] \notin {"unborn", "fork", "attach", "aborted"} \cup Exited

\* Every process, the parent included, constructs shared_data in the memory it
\* attaches.  A removed segment can be attached while somebody still holds it.
AttachAndConstruct(p) ==
    /\ removed => \E q \in Procs : HasMemory(q)
    /\ Goto(p, "attach", IF p = Parent THEN "wait_ready" ELSE "signal_readiness")
    /\ done_flag' = FALSE
    /\ produced_message_count' = 0
    /\ consumed_message_count' = 0
    /\ Ring!Construct
    /\ UNCHANGED <<forked, semVars, localVars>>

AttachFails(p) == SemopFails(p, "attach", Failure(p))

RunLabel(p) == IF IsProducer(p) THEN "await_start" ELSE "wait_message"

SignalReadiness(p) ==
    /\ Goto(p, "signal_readiness", RunLabel(p))
    /\ Notifier!NotifyOne("readiness")
    /\ OnlySem

SignalReadinessFails(p) == SemopFails(p, "signal_readiness", "failed")

\* Variant: the parent goes on when the first child is ready.
WaitTillOneChildReady ==
    /\ Goto(Parent, "wait_ready", "start_production")
    /\ Notifier!WaitForOne("readiness")
    /\ OnlySem

WaitTillAllChildrenReady ==
    /\ Goto(Parent, "wait_ready", "start_production")
    /\ Notifier!WaitForAll("readiness")
    /\ OnlySem

StartProduction ==
    /\ Goto(Parent, "start_production", "await_start")
    /\ Notifier!NotifyAll("producers")
    /\ OnlySem

SetupParentFails ==
    \/ SemopFails(Parent, "wait_ready", "exit_failure")
    \/ SemopFails(Parent, "start_production", "exit_failure")

-----------------------------------------------------------------------------
(* The producer: run_producer and produce_messages *)

\* Variant: the loop runs once too often.
LoopLabelOnceMore(n) == IF n <= MessageCount THEN "push" ELSE "notify_completion"

LoopLabel(n) == IF n < MessageCount THEN "push" ELSE "notify_completion"

\* What follows a run() that returned true: nothing for a child, finalize for
\* the parent.
AfterRun(p) == IF p = Parent THEN "wait_production" ELSE "succeeded"

\* Variant: a producer starts when it likes.
StartAtOnce(p) ==
    /\ Goto(p, "await_start", LoopLabel(i[p]))
    /\ UNCHANGED <<forked, semVars, done_flag, countVars, ringVars, localVars>>

AwaitStart(p) ==
    /\ Goto(p, "await_start", LoopLabel(i[p]))
    /\ Notifier!WaitForOne("producers")
    /\ OnlySem

\* `return EXIT_FAILURE' from a function returning bool: true, that is success.
AwaitStartFails(p) == SemopFails(p, "await_start", AfterRun(p))

\* snprintf fails.
CreateMessageFails(p) ==
    /\ Goto(p, "push", Failure(p))
    /\ faults < MaxFaults
    /\ faults' = faults + 1
    /\ UNCHANGED <<sem, removed>>
    /\ OnlySem

PushReserve(p) ==
    /\ Goto(p, "push", "write_slot")
    /\ Ring!ReserveWrite(p)
    /\ UNCHANGED <<forked, semVars, done_flag, countVars, localVars>>

PushWrite(p) ==
    /\ Goto(p, "write_slot", "count_produced")
    /\ Ring!WriteSlot(p, MessageOf(p, i[p]))
    /\ UNCHANGED <<forked, semVars, done_flag, countVars, localVars>>

CountProduced(p) ==
    /\ Goto(p, "count_produced", "notify_written")
    /\ produced_message_count' = produced_message_count + 1
    /\ UNCHANGED <<forked, semVars, done_flag, consumed_message_count, ringVars,
                   localVars>>

NotifyWritten(p) ==
    /\ Goto(p, "notify_written", "wait_read")
    /\ Notifier!NotifyOne("written")
    /\ OnlySem

\* The push comes first; only after it the producer waits for a free slot.
WaitRead(p) ==
    /\ Goto(p, "wait_read", LoopLabel(i[p] + 1))
    /\ Notifier!WaitForOne("read")
    /\ i' = [i EXCEPT ![p] = @ + 1]
    /\ UNCHANGED <<forked, done_flag, countVars, ringVars, message, observed>>

NotifyCompletion(p) ==
    /\ Goto(p, "notify_completion", AfterRun(p))
    /\ Notifier!NotifyOne("producers")
    /\ OnlySem

ProduceFails(p) ==
    \/ CreateMessageFails(p)
    \/ SemopFails(p, "notify_written", Failure(p))
    \/ SemopFails(p, "wait_read", Failure(p))
    \/ SemopFails(p, "notify_completion", Failure(p))

-----------------------------------------------------------------------------
(* The consumer: consume_messages *)

WaitMessage(p) ==
    /\ Goto(p, "wait_message", "check_done")
    /\ Notifier!WaitForOne("written")
    /\ OnlySem

WaitMessageFails(p) == SemopFails(p, "wait_message", "check_done_failed")

\* Variant: a consumer pops whatever woke it.
IgnoreDone(p) ==
    /\ \/ Goto(p, "check_done", "pop")
       \/ Goto(p, "check_done_failed", "failed")
    /\ UNCHANGED <<forked, semVars, done_flag, countVars, ringVars, localVars>>

\* done_flag is looked at before the result of the wait.
CheckDone(p) ==
    /\ \/ Goto(p, "check_done", IF done_flag THEN "succeeded" ELSE "pop")
       \/ Goto(p, "check_done_failed", IF done_flag THEN "succeeded" ELSE "failed")
    /\ UNCHANGED <<forked, semVars, done_flag, countVars, ringVars, localVars>>

PopReserve(p) ==
    /\ Goto(p, "pop", "read_slot")
    /\ Ring!ReserveRead(p)
    /\ UNCHANGED <<forked, semVars, done_flag, countVars, localVars>>

PopRead(p) ==
    /\ Goto(p, "read_slot", "count_consumed")
    /\ \E element \in Ring!Elements :
           /\ Ring!ReadSlot(p, element)
           /\ message' = [message EXCEPT ![p] = element]
    /\ UNCHANGED <<forked, semVars, done_flag, countVars, i, observed>>

CountConsumed(p) ==
    /\ Goto(p, "count_consumed", "notify_read")
    /\ consumed_message_count' = consumed_message_count + 1
    /\ UNCHANGED <<forked, semVars, done_flag, produced_message_count, ringVars,
                   localVars>>

NotifyRead(p) ==
    /\ Goto(p, "notify_read", "wait_message")
    /\ Notifier!NotifyOne("read")
    /\ message' = [message EXCEPT ![p] = Blank]
    /\ UNCHANGED <<forked, done_flag, countVars, ringVars, i, observed>>

NotifyReadFails(p) == SemopFails(p, "notify_read", "failed")

-----------------------------------------------------------------------------
(* The parent after its own production: finalize_parent_process *)

WaitTillProductionComplete ==
    /\ Goto(Parent, "wait_production", "wait_consumed")
    /\ Notifier!WaitForAll("producers")
    /\ OnlySem

WaitTillAllMessagesConsumed ==
    /\ Goto(Parent, "wait_consumed", "load_consumed")
    /\ Notifier!WaitTillNone("written")
    /\ OnlySem

\* EXIT_FAILURE again: the parent reports success and skips the shutdown.
FinalWaitFails ==
    \/ SemopFails(Parent, "wait_production", "exit_success")
    \/ SemopFails(Parent, "wait_consumed", "exit_success")

LoadConsumed ==
    /\ Goto(Parent, "load_consumed", "assert_counts")
    /\ observed' = consumed_message_count
    /\ UNCHANGED <<forked, semVars, done_flag, countVars, ringVars, i, message>>

\* The assert aborts without running a destructor: the semaphores stay.
AssertCounts ==
    /\ Goto(Parent, "assert_counts",
            IF observed = produced_message_count THEN "store_done" ELSE "aborted")
    /\ UNCHANGED <<forked, semVars, done_flag, countVars, ringVars, localVars>>

\* Variant: the stop tokens come without the flag.
ForgetDone ==
    /\ Goto(Parent, "store_done", "notify_stop")
    /\ UNCHANGED <<forked, semVars, done_flag, countVars, ringVars, localVars>>

StoreDone ==
    /\ Goto(Parent, "store_done", "notify_stop")
    /\ done_flag' = TRUE
    /\ UNCHANGED <<forked, semVars, countVars, ringVars, localVars>>

NotifyStop ==
    /\ Goto(Parent, "notify_stop", "wait_children")
    /\ Notifier!NotifyAll("written")
    /\ OnlySem

\* The second is wait() interrupted.
StopFails ==
    \/ SemopFails(Parent, "notify_stop", "exit_failure")
    \/ SemopFails(Parent, "wait_children", "exit_failure")

WaitTillAllChildrenTerminate ==
    /\ \A c \in Children : pc[c] \in Exited
    /\ Goto(Parent, "wait_children", "exit_success")
    /\ UNCHANGED <<forked, semVars, done_flag, countVars, ringVars, localVars>>

\* Variant: the semaphore set outlives the parent.
LeaveSemaphores ==
    /\ \/ Goto(Parent, "exit_failure", "failed")
       \/ Goto(Parent, "exit_success", "succeeded")
    /\ UNCHANGED semVars
    /\ OnlySem

\* The parent's resource removers run on every return from main.
LeaveMain ==
    /\ \/ Goto(Parent, "exit_failure", "failed")
       \/ Goto(Parent, "exit_success", "succeeded")
    /\ Notifier!Remove
    /\ OnlySem

-----------------------------------------------------------------------------
ParentStep ==
    \/ CreateProcess \/ CreateProcessFails \/ CheckCreated
    \/ WaitTillAllChildrenReady \/ StartProduction \/ SetupParentFails
    \/ WaitTillProductionComplete \/ WaitTillAllMessagesConsumed \/ FinalWaitFails
    \/ LoadConsumed \/ AssertCounts \/ StoreDone \/ NotifyStop \/ StopFails
    \/ WaitTillAllChildrenTerminate \/ LeaveMain

ProducerStep(p) ==
    \/ AwaitStart(p) \/ AwaitStartFails(p)
    \/ PushReserve(p) \/ PushWrite(p) \/ CountProduced(p)
    \/ NotifyWritten(p) \/ WaitRead(p) \/ NotifyCompletion(p) \/ ProduceFails(p)

ConsumerStep(p) ==
    \/ WaitMessage(p) \/ WaitMessageFails(p) \/ CheckDone(p)
    \/ PopReserve(p) \/ PopRead(p) \/ CountConsumed(p)
    \/ NotifyRead(p) \/ NotifyReadFails(p)

ProcStep(p) ==
    \/ AttachAndConstruct(p) \/ AttachFails(p)
    \/ p \in Children /\ (SignalReadiness(p) \/ SignalReadinessFails(p))
    \/ IsProducer(p) /\ ProducerStep(p)
    \/ ~IsProducer(p) /\ ConsumerStep(p)

Next == ParentStep \/ \E p \in Procs : ProcStep(p)

Spec == Init /\ [][Next]_vars

Step(p) == ProcStep(p) \/ (p = Parent /\ ParentStep)

\* The kernel schedules every process that can run; no failure is ever owed.
Fairness == \A p \in Procs : WF_vars(Step(p) /\ faults' = faults)

FairSpec == Spec /\ Fairness

-----------------------------------------------------------------------------
(* The inductive invariant *)

\* A producer that pushes is inside its loop.
LoopBound ==
    \A p \in Procs : pc[p] \in {"push", "write_slot"} => i[p] < MessageCount

CountAt(labels) == Cardinality({p \in Procs : pc[p] \in labels})

\* Children are forked in order.
ForkOrder ==
    /\ \A c \in Children : c > forked => pc[c] = "unborn"
    /\ pc[Parent] # "fork" => forked = ChildrenCount

\* Labels of a process that may still construct shared_data, or be forked.
Unready == {"unborn", "attach", "signal_readiness"}

ReadyChildren == {c \in Children : pc[c] \notin Unready}
AllReady == ReadyChildren = Children

\* Labels of processes before production has started.
ParentQuiet == {"fork", "attach", "wait_ready", "start_production",
                "exit_failure", "failed"}
ChildQuiet == Unready \cup {"await_start", "wait_message", "check_done_failed"}
                \cup Exited

Quiet ==
    /\ produced_message_count = 0
    /\ consumed_message_count = 0
    /\ done_flag = FALSE
    /\ sem["written"] = 0
    /\ sem["producers"] = 0
    /\ pc[Parent] \in ParentQuiet
    /\ \A c \in Children : pc[c] \in ChildQuiet

Constructed == AllReady /\ pc[Parent] \notin {"fork", "attach", "wait_ready"}

\* The barrier: as long as one child is not ready, or the parent itself has not
\* constructed, nothing that production needs has happened.
Barrier ==
    /\ sem["readiness"] <= Cardinality(ReadyChildren)
    /\ pc[Parent] = "start_production" => AllReady
    /\ Quiet \/ Constructed

Popping == {"pop", "read_slot", "count_consumed"}
Unpaid == {"notify_written", "wait_read", "exit_failure", "failed"}

\* Consumers that have taken a token and not counted its message, those of them
\* that have passed the done_flag, and those that have yet to free the slot.
TokenHolders == CountAt(Popping \cup {"check_done"})
Poppers == CountAt(Popping)
SlotReturners == CountAt({"notify_read"})

\* Producers that have counted a message and not announced it, and those that
\* have counted it and not waited for a free slot (or failed in between).
Announcers == CountAt({"notify_written"})
Debtors == Cardinality({p \in Producers : pc[p] \in Unpaid})

\* Every token of the written semaphore, and every consumer that holds one,
\* stands for a message that has been counted as produced.  Stop tokens are
\* the exception, and no consumer pops on one.
WrittenAccount ==
    /\ ~done_flag => sem["written"] + TokenHolders + Announcers
                       + consumed_message_count <= produced_message_count
    /\ Poppers + consumed_message_count <= produced_message_count

\* The stop tokens are added after the flag that tells them from messages.
DoneStored == pc[Parent] = "notify_stop" => done_flag

\* Every token of the read semaphore is a free slot nobody has paid with.
ReadAccount ==
    produced_message_count + sem["read"] + SlotReturners
        <= Capacity + consumed_message_count + Debtors

IInv == TypeOK /\ LoopBound /\ ForkOrder /\ Barrier
        /\ DoneStored /\ WrittenAccount /\ ReadAccount

-----------------------------------------------------------------------------
(* Properties *)

\* Once production has been started no process has still to construct
\* shared_data: the construction every process performs (main.cpp:135) never
\* wipes counters, indices or messages that are in use.
NoLateConstruction ==
    pc[Parent] \notin {"fork", "attach", "wait_ready", "exit_failure", "failed"}
        => \A c \in Children : pc[c] \notin {"unborn", "attach", "signal_readiness"}

\* A consumer never counts a message nobody has counted as produced, whatever
\* the interleaving of producers, consumers and the stop signal.
ConsumedAtMostProduced == consumed_message_count <= produced_message_count

\* The read semaphore limits how far production runs ahead: by the capacity
\* plus one message of each producer, which pushes before it waits.
BacklogBound ==
    produced_message_count - consumed_message_count
        <= Capacity + Cardinality(Producers)

\* The two counters behave as MessageAccount says.
Account == INSTANCE MessageAccount
             WITH produced <- produced_message_count,
                  consumed <- consumed_message_count,
                  Backlog <- Capacity + Cardinality(Producers)
ImplementsAccount == Account!AccountSpec

\* When the parent has left main its children do not stay behind, blocked on
\* the semaphores it removed.
ParentGoneReleasesChildren ==
    pc[Parent] \in Exited
        ~> \A c \in Children : pc[c] \in Exited \cup {"unborn"}

\* Once every producer has finished and the parent waits for the backlog, the
\* shutdown runs to its end, unless the final assert stops the parent.
ShutdownCompletes ==
    [](faults = 0) =>
    (/\ pc[Parent] = "wait_consumed"
     /\ \A p \in Producers \ {Parent} : pc[p] \in Exited)
        ~> \/ \A p \in Procs : pc[p] \in Exited
           \/ pc[Parent] = "aborted"

\* Violated: parent.hpp:89, assert(consumed == produced).
FinalAssertHolds == pc[Parent] # "aborted"

\* Violated: "all producers done" (parent.hpp:77) while a producer is not done.
ProductionDoneIsTrue ==
    pc[Parent] = "wait_consumed"
        => \A p \in Producers \ {Parent} : pc[p] \in Exited
=============================================================================
