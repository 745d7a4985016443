---------------------------- MODULE SemaphoreSet ----------------------------
(***************************************************************************)
(* unix::ipc::system_v::semaphore_set: a set of counting semaphores shared *)
(* by processes, and the calls system_v::group_notifier makes on it.       *)
(*                                                                         *)
(* A call that must wait is a step that is not enabled yet: semop puts the *)
(* caller to sleep and applies the whole change at once when it fits.  A   *)
(* call fails when the set has been removed (EIDRM, EINVAL) or when it is  *)
(* interrupted or short of memory (EINTR, ENOMEM); the latter are counted  *)
(* by faults and bounded by MaxFaults.                                     *)
(*                                                                         *)
(* The kernel keeps a value in 0 .. SEMVMX (32767); counters here are      *)
(* naturals, the programs that use the set stay far below that limit.      *)
(***************************************************************************)
EXTENDS Integers

CONSTANTS Semaphores,  \* indices in the set
          MaxFaults    \* bound on injected failures

VARIABLES sem,         \* value of each semaphore
          removed,     \* IPC_RMID has been done
          faults       \* failures injected so far

semVars == <<sem, removed, faults>>

SemTypeOK ==
    /\ sem \in [Semaphores -> Nat]
    /\ removed \in BOOLEAN
    /\ faults \in 0 .. MaxFaults

\* create_private followed by set_values.
SemInit(init_values) ==
    /\ sem = init_values
    /\ removed = FALSE
    /\ faults = 0

\* increase_value: never waits.
IncreaseValue(s, increment) ==
    /\ ~removed
    /\ sem' = [sem EXCEPT ![s] = @ + increment]
    /\ UNCHANGED <<removed, faults>>

\* Variant: decrease_value does not wait.
DecreaseAtOnce(s, decrement) ==
    /\ ~removed
    /\ sem' = [sem EXCEPT ![s] = @ - decrement]
    /\ UNCHANGED <<removed, faults>>

\* decrease_value: waits until the whole decrement fits.
DecreaseValue(s, decrement) ==
    /\ ~removed
    /\ sem[s] >= decrement
    /\ sem' = [sem EXCEPT ![s] = @ - decrement]
    /\ UNCHANGED <<removed, faults>>

\* try_decreasing_value when the decrement does not fit: EAGAIN.
WouldWait(s, decrement) ==
    /\ ~removed
    /\ sem[s] < decrement
    /\ UNCHANGED semVars

\* change_value with 0, used by wait_till_none: waits for zero, changes nothing.
WaitForZero(s) ==
    /\ ~removed
    /\ sem[s] = 0
    /\ UNCHANGED semVars

\* The error branch of any of the calls above.
CallFails ==
    /\ removed \/ faults < MaxFaults
    /\ faults' = IF removed THEN faults ELSE faults + 1
    /\ UNCHANGED <<sem, removed>>

\* remove, which wakes every sleeping caller with an error.
Remove ==
    /\ removed' = TRUE
    /\ UNCHANGED <<sem, faults>>
=============================================================================
