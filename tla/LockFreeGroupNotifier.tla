----------------------- MODULE LockFreeGroupNotifier -----------------------
(***************************************************************************)
(* lock_free::group_notifier: a counting semaphore on one atomic counter.  *)
(*                                                                         *)
(* wait_for_one loads the counter, sleeps while it is zero, and exchanges  *)
(* the value loaded BEFORE it slept.  With one waiter that exchange fails  *)
(* after a sleep, and the loop goes round.  With two, the other may have   *)
(* taken the token meanwhile: the exchange then turns 0 into -1 and lets a *)
(* thread through that has no token, and as wait(0) returns at once on a   *)
(* negative counter, others after it.                                      *)
(***************************************************************************)
EXTENDS Integers

CONSTANTS Waiters, NotifierSize     \* NotifierSize is group_size_

VARIABLES counter,
          expected      \* the value wait_for_one loaded

NotifierTypeOK == counter \in Int /\ expected \in [Waiters -> Int]

NotifierInit(init_value) == counter = init_value /\ expected = [p \in Waiters |-> 0]

LoadCounter(p) ==
    /\ expected' = [expected EXCEPT ![p] = counter]
    /\ UNCHANGED counter

\* counter_.wait(0), entered only if the loaded value was not positive.
Awake(p) == counter # 0

ExchangeCounter(p) ==
    /\ counter = expected[p]
    /\ counter' = expected[p] - 1
    /\ UNCHANGED expected

\* A weak exchange may fail although the values are equal.  It stores the value it
\* found in expected, which is loaded again before it is used.
ExchangeCounterFails(p) == UNCHANGED <<counter, expected>>

NotifyOne == counter' = counter + 1 /\ UNCHANGED expected

NotifyAll == counter' = counter + NotifierSize /\ UNCHANGED expected
=============================================================================
