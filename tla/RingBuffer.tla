----------------------------- MODULE RingBuffer -----------------------------
(***************************************************************************)
(* lock_free::ring_buffer, one step per atomic access.  Each process uses  *)
(* one member function over and over: try_push, try_pop, push or pop.      *)
(*                                                                         *)
(* push and pop test for neither full nor empty.  Their callers in this    *)
(* repository count free slots and elements with semaphores (MaxHeld free  *)
(* slots at the start): a push is preceded by a wait for a free slot and   *)
(* followed by the announcement of an element, a pop the other way round.  *)
(* ring_buffer contains neither; they are its environment here.            *)
(***************************************************************************)
EXTENDS RingReservation, FiniteSets, Sequences

CONSTANTS Usages,     \* the assignments of member functions to processes
          MaxHeld     \* free slots the callers of push hand out

VARIABLES calls,      \* the function each process calls
          pc,
          seen,       \* the index a process has loaded
          free,       \* the callers' semaphore of free slots
          filled,     \* the callers' semaphore of elements
          held,       \* history: elements pushed and not popped, by the indices
          taken       \* history: the element returned last

tokens == <<free, filled>>
history == <<held, taken>>
vars == <<ringVars, calls, pc, seen, tokens, history>>

MemberFunctions == {"try_push", "try_pop", "push", "pop", "none"}
Steps == {"idle", "check_full", "check_empty", "cas_write", "cas_read",
          "write", "read"}

ASSUME ProcsAssumption == IsFiniteSet(Procs)
ASSUME UsagesAssumption == Usages \subseteq [Procs -> MemberFunctions]
ASSUME MaxHeldAssumption == MaxHeld \in 1 .. Capacity
ASSUME BlankAssumption == Blank \notin Values

TypeOK ==
    /\ RingTypeOK
    /\ calls \in [Procs -> MemberFunctions]
    /\ pc \in [Procs -> Steps]
    /\ seen \in [Procs -> Slots]
    /\ free \in Nat
    /\ filled \in Nat
    /\ held \in Int
    /\ taken \in Elements

Init ==
    /\ RingInit
    /\ calls \in Usages
    /\ pc = [p \in Procs |-> "idle"]
    /\ seen = [p \in Procs |-> 0]
    /\ free = MaxHeld
    /\ filled = 0
    /\ held = 0
    /\ taken = Blank

LooksEmpty == read_idx = write_idx
LooksFull == Succ(write_idx) = read_idx

Goto(p, from, to) ==
    /\ pc[p] = from
    /\ pc' = [pc EXCEPT ![p] = to]

-----------------------------------------------------------------------------
(* try_push and push *)

StartTryPush(p) ==
    /\ calls[p] = "try_push"
    /\ Goto(p, "idle", "check_full")
    /\ seen' = [seen EXCEPT ![p] = write_idx]
    /\ UNCHANGED <<ringVars, calls, tokens, history>>

\* Variant: the next index is not wrapped.
CheckFullUnwrapped(p) ==
    /\ Goto(p, "check_full", IF seen[p] + 1 = read_idx THEN "idle" ELSE "cas_write")
    /\ UNCHANGED <<ringVars, calls, seen, tokens, history>>

\* The test compares the index loaded before with read_idx as it is now.
CheckFull(p) ==
    /\ Goto(p, "check_full", IF Succ(seen[p]) = read_idx THEN "idle" ELSE "cas_write")
    /\ UNCHANGED <<ringVars, calls, seen, tokens, history>>

StartPush(p) ==
    /\ calls[p] = "push"
    /\ free > 0
    /\ free' = free - 1
    /\ Goto(p, "idle", "cas_write")
    /\ seen' = [seen EXCEPT ![p] = write_idx]
    /\ UNCHANGED <<ringVars, calls, filled, history>>

\* Variant: a store in place of the compare-exchange.
StoreWrite(p) ==
    /\ Goto(p, "cas_write", "write")
    /\ writing' = [writing EXCEPT ![p] = seen[p]]
    /\ write_idx' = Succ(seen[p])
    /\ held' = held + 1
    /\ UNCHANGED <<data, read_idx, clashed, reading, calls, seen, tokens, taken>>

CasWrite(p) ==
    /\ write_idx = seen[p]
    /\ Goto(p, "cas_write", "write")
    /\ ReserveWrite(p)
    /\ held' = held + 1
    /\ UNCHANGED <<calls, seen, tokens, taken>>

\* Variant: a failed exchange is retried with the index it was tried with.
CasWriteFailsStale(p) ==
    /\ write_idx # seen[p]
    /\ Goto(p, "cas_write", IF calls[p] = "push" THEN "cas_write" ELSE "idle")
    /\ UNCHANGED <<ringVars, calls, seen, tokens, history>>

\* try_push gives up; push takes the index the failed exchange has read.
CasWriteFails(p) ==
    /\ write_idx # seen[p]
    /\ Goto(p, "cas_write", IF calls[p] = "push" THEN "cas_write" ELSE "idle")
    /\ seen' = IF calls[p] = "push" THEN [seen EXCEPT ![p] = write_idx] ELSE seen
    /\ UNCHANGED <<ringVars, calls, tokens, history>>

Write(p) ==
    /\ Goto(p, "write", "idle")
    /\ \E value \in Values : WriteSlot(p, value)
    /\ filled' = IF calls[p] = "push" THEN filled + 1 ELSE filled
    /\ UNCHANGED <<calls, seen, free, history>>

-----------------------------------------------------------------------------
(* try_pop and pop *)

StartTryPop(p) ==
    /\ calls[p] = "try_pop"
    /\ Goto(p, "idle", "check_empty")
    /\ seen' = [seen EXCEPT ![p] = read_idx]
    /\ UNCHANGED <<ringVars, calls, tokens, history>>

\* Variant: no test for empty.
SkipCheckEmpty(p) ==
    /\ Goto(p, "check_empty", "cas_read")
    /\ UNCHANGED <<ringVars, calls, seen, tokens, history>>

CheckEmpty(p) ==
    /\ Goto(p, "check_empty", IF seen[p] = write_idx THEN "idle" ELSE "cas_read")
    /\ UNCHANGED <<ringVars, calls, seen, tokens, history>>

StartPop(p) ==
    /\ calls[p] = "pop"
    /\ filled > 0
    /\ filled' = filled - 1
    /\ Goto(p, "idle", "cas_read")
    /\ seen' = [seen EXCEPT ![p] = read_idx]
    /\ UNCHANGED <<ringVars, calls, free, history>>

CasRead(p) ==
    /\ read_idx = seen[p]
    /\ Goto(p, "cas_read", "read")
    /\ ReserveRead(p)
    /\ held' = held - 1
    /\ UNCHANGED <<calls, seen, tokens, taken>>

CasReadFails(p) ==
    /\ read_idx # seen[p]
    /\ Goto(p, "cas_read", IF calls[p] = "pop" THEN "cas_read" ELSE "idle")
    /\ seen' = IF calls[p] = "pop" THEN [seen EXCEPT ![p] = read_idx] ELSE seen
    /\ UNCHANGED <<ringVars, calls, tokens, history>>

Read(p) ==
    /\ Goto(p, "read", "idle")
    /\ \E element \in Elements : ReadSlot(p, element) /\ taken' = element
    /\ free' = IF calls[p] = "pop" THEN free + 1 ELSE free
    /\ UNCHANGED <<calls, seen, filled, held>>

-----------------------------------------------------------------------------
Step(p) ==
    \/ StartTryPush(p) \/ CheckFull(p) \/ StartPush(p)
    \/ CasWrite(p) \/ CasWriteFails(p) \/ Write(p)
    \/ StartTryPop(p) \/ CheckEmpty(p) \/ StartPop(p)
    \/ CasRead(p) \/ CasReadFails(p) \/ Read(p)

Next == \E p \in Procs : Step(p)

Spec == Init /\ [][Next]_vars

\* Every thread inside a member function keeps running.
FairSpec == Spec /\ \A p \in Procs : WF_vars(Step(p))

-----------------------------------------------------------------------------
(* How the buffer is used *)

Callers(function) == {p \in Procs : calls[p] = function}
Sole(function) == \A p, q \in Callers(function) : p = q

\* One process on each side, through try_push and try_pop.
SoleTrying ==
    /\ \A p \in Procs : calls[p] \in {"try_push", "try_pop", "none"}
    /\ Sole("try_push") /\ Sole("try_pop")

\* Any number of processes, through push and pop on counted slots.
Counted == \A p \in Procs : calls[p] \in {"push", "pop", "none"}
SoleCounted == Counted /\ Sole("push") /\ Sole("pop")

\* The indices are exactly held slots apart.
Aligned == write_idx = (read_idx + held) % Capacity

-----------------------------------------------------------------------------
(* The inductive invariant *)

\* A process is inside the function it calls, and has a slot exactly while it
\* copies an element.
InPlace ==
    \A p \in Procs :
        /\ pc[p] # "idle" => calls[p] # "none"
        /\ pc[p] \in {"cas_write", "write"} => calls[p] \in {"try_push", "push"}
        /\ pc[p] \in {"cas_read", "read"} => calls[p] \in {"try_pop", "pop"}
        /\ pc[p] = "check_full" => calls[p] = "try_push"
        /\ pc[p] = "check_empty" => calls[p] = "try_pop"
        /\ writing[p] # NoSlot <=> pc[p] = "write"
        /\ reading[p] # NoSlot <=> pc[p] = "read"

\* The one process on a side sees its own index, and what its test has found
\* stays true: the other side only makes room, or adds elements.
SoleAccount ==
    SoleTrying =>
        /\ held \in 0 .. Capacity - 1
        /\ Aligned
        /\ \A p \in Procs :
              /\ pc[p] \in {"check_full", "cas_write"} => seen[p] = write_idx
              /\ pc[p] = "cas_write" => held < Capacity - 1
              /\ pc[p] \in {"check_empty", "cas_read"} => seen[p] = read_idx
              /\ pc[p] = "cas_read" => held > 0

CountAt(steps) == Cardinality({p \in Procs : pc[p] \in steps})

\* Every slot handed out is free, on its way into the ring, in it, or on its way
\* out; the indices count the ones in it.
CountedAccount ==
    Counted =>
        /\ free + CountAt({"cas_write"}) + held + CountAt({"read"}) = MaxHeld
        /\ held = CountAt({"write"}) + filled + CountAt({"cas_read"})
        /\ Aligned

\* With one process on each side, the slot being written or read is the one its
\* index has just left, and nobody else writes it.
SlotsKnown ==
    SoleCounted =>
        /\ clashed = {}
        /\ \A p \in Procs :
              /\ pc[p] = "write" => Succ(writing[p]) = write_idx
              /\ pc[p] = "read" => Succ(reading[p]) = read_idx

IInv == TypeOK /\ InPlace /\ SoleAccount /\ CountedAccount /\ SlotsKnown

-----------------------------------------------------------------------------
(* Properties *)

\* With one process that tries to push and one that tries to pop, the ring
\* holds between none and Capacity - 1 elements, and empty() and full() say so
\* exactly, although each process decides on an index it has loaded earlier.
SoleOccupancy ==
    SoleTrying
    => /\ held \in 0 .. Capacity - 1
       /\ LooksEmpty <=> held = 0
       /\ LooksFull <=> held = Capacity - 1

\* With any number of processes that push and pop on counted slots, the indices
\* never run past each other: no more elements are in the ring than slots were
\* handed out, and none is popped that was not pushed.  Retried exchanges,
\* a free slot announced before others are read, and wrapped indices change
\* nothing about it.
CountedOccupancy == Counted => held \in 0 .. MaxHeld /\ Aligned

\* The elements announced, in the order of the slots from the one read next.
Popping == {p \in Procs : pc[p] \in {"cas_read", "read"}}
NextRead == (read_idx - Cardinality({p \in Procs : pc[p] = "read"})) % Capacity
Announced == [k \in 1 .. filled + Cardinality(Popping) |->
                 data[(NextRead + k - 1) % Capacity]]

\* One process that pushes and one that pops on counted slots see a queue, even
\* though an index moves before its element is copied and a ring holding
\* Capacity elements is indistinguishable from an empty one.
Queue == INSTANCE FifoQueue
           WITH Bound <- MaxHeld, NoElement <- Blank,
                queue <- IF SoleCounted THEN Announced ELSE <<>>,
                taken <- IF SoleCounted THEN taken ELSE Blank
ImplementsFifo == Queue!FifoSpec

\* push is lock-free: as long as somebody is trying, pushes succeed.  A failed
\* exchange must make the next one use the index it has read.
PushLockFree ==
    []<>(\E p \in Callers("push") : pc[p] = "cas_write")
        => []<><<write_idx' # write_idx>>_vars
=============================================================================
