------------------------ MODULE SystemVGroupNotifier ------------------------
(***************************************************************************)
(* unix::ipc::system_v::group_notifier: a group of processes that signal   *)
(* and wait on one semaphore of a semaphore_set.  Each notifier of a       *)
(* program is named by the semaphore it uses; GroupSize is the group_size  *)
(* it was built with.                                                      *)
(*                                                                         *)
(* The group size is only the amount notify_all adds and wait_for_all      *)
(* takes.  Nothing ties it to the number of processes that really wait.    *)
(***************************************************************************)
EXTENDS SemaphoreSet

CONSTANT GroupSize    \* group_size_ of each notifier

WaitForOne(s) == DecreaseValue(s, 1)

\* wait_for and notify take any number of tokens at once.
WaitFor(s, count) == DecreaseValue(s, count)

WaitForAll(s) == DecreaseValue(s, GroupSize[s])

NotifyOne(s) == IncreaseValue(s, 1)

Notify(s, count) == IncreaseValue(s, count)

NotifyAll(s) == IncreaseValue(s, GroupSize[s])

\* try_waiting_for_one takes a token as WaitForOne does, or says there is none.
NoneToTake(s) == WouldWait(s, 1)

WaitTillNone(s) == WaitForZero(s)
=============================================================================
