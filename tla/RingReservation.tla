-------------------------- MODULE RingReservation --------------------------
(***************************************************************************)
(* What push and pop of lock_free::ring_buffer do to the shared buffer,    *)
(* each in the two steps other processes can tell apart: the index is      *)
(* advanced first (ReserveWrite, ReserveRead), the element is copied after *)
(* it (WriteSlot, ReadSlot).  Between the two the slot already counts as   *)
(* filled (or free) to everybody else.                                     *)
(*                                                                         *)
(* The copy of an element is not atomic and nothing orders it against the  *)
(* copies of other processes.  A read that meets a write in progress may   *)
(* return the old element, the new one or a mix (Torn); two writes of one  *)
(* slot that overlap may leave a mix.                                      *)
(***************************************************************************)
EXTENDS Integers

CONSTANTS Procs,      \* processes or threads that share the buffer
          Values,     \* elements pushed
          Capacity,   \* size of data_
          Blank,      \* a slot nobody has written: value-initialised
          Torn        \* a mix of two elements

VARIABLES data,       \* data_
          read_idx,   \* read_idx_
          write_idx,  \* write_idx_
          writing,    \* slot a process has reserved for writing and not written
          clashed,    \* writers whose slot was written since they reserved it
          reading     \* slot a process has taken and not read

ringVars == <<data, read_idx, write_idx, writing, clashed, reading>>

\* static_assert(Capacity > 1)
ASSUME CapacityAssumption == Capacity \in Nat /\ Capacity > 1

\* Integers outside Slots
NoSlot == -1

Slots == 0 .. (Capacity - 1)
Elements == Values \cup {Blank, Torn}

Succ(idx) == (idx + 1) % Capacity

RingTypeOK ==
    /\ data \in [Slots -> Elements]
    /\ read_idx \in Slots
    /\ write_idx \in Slots
    /\ writing \in [Procs -> Slots \cup {NoSlot}]
    /\ clashed \in SUBSET Procs
    /\ reading \in [Procs -> Slots \cup {NoSlot}]

RingInit ==
    /\ data = [s \in Slots |-> Blank]
    /\ read_idx = 0
    /\ write_idx = 0
    /\ writing = [p \in Procs |-> NoSlot]
    /\ clashed = {}
    /\ reading = [p \in Procs |-> NoSlot]

-----------------------------------------------------------------------------
OtherWriters(p) == {q \in Procs \ {p} : writing[q] = writing[p]}
BeingWritten(s) == \E q \in Procs : writing[q] = s

\* push: the compare-exchange that succeeds.  There is no check for full.
ReserveWrite(p) ==
    /\ writing[p] = NoSlot
    /\ writing' = [writing EXCEPT ![p] = write_idx]
    /\ write_idx' = Succ(write_idx)
    /\ UNCHANGED <<data, read_idx, clashed, reading>>

\* push: data_[write_idx] = value.
WriteSlot(p, value) ==
    /\ writing[p] # NoSlot
    /\ \E element \in {value} \cup
                      (IF p \in clashed \/ OtherWriters(p) # {} THEN {Torn} ELSE {}) :
           data' = [data EXCEPT ![writing[p]] = element]
    /\ clashed' = (clashed \cup OtherWriters(p)) \ {p}
    /\ writing' = [writing EXCEPT ![p] = NoSlot]
    /\ UNCHANGED <<read_idx, write_idx, reading>>

\* Variant: the slot read is the one the index moves to.
ReserveReadNext(p) ==
    /\ reading[p] = NoSlot
    /\ reading' = [reading EXCEPT ![p] = Succ(read_idx)]
    /\ read_idx' = Succ(read_idx)
    /\ UNCHANGED <<data, write_idx, writing, clashed>>

\* pop: the compare-exchange that succeeds.  There is no check for empty.
ReserveRead(p) ==
    /\ reading[p] = NoSlot
    /\ reading' = [reading EXCEPT ![p] = read_idx]
    /\ read_idx' = Succ(read_idx)
    /\ UNCHANGED <<data, write_idx, writing, clashed>>

\* pop: what the copy out of slot s may deliver.
Readable(s) == {data[s]} \cup (IF BeingWritten(s) THEN {Torn} ELSE {})

\* pop: return data_[read_idx], delivering element.
ReadSlot(p, element) ==
    /\ reading[p] # NoSlot
    /\ element \in Readable(reading[p])
    /\ reading' = [reading EXCEPT ![p] = NoSlot]
    /\ UNCHANGED <<data, read_idx, write_idx, writing, clashed>>

\* new (memory) ring_buffer{}: the bytes are zeroed whatever other processes do.
Construct ==
    /\ data' = [s \in Slots |-> Blank]
    /\ read_idx' = 0
    /\ write_idx' = 0
    /\ UNCHANGED <<writing, clashed, reading>>

-----------------------------------------------------------------------------
RingNext ==
    \E p \in Procs :
        \/ ReserveWrite(p)
        \/ \E value \in Values : WriteSlot(p, value)
        \/ ReserveRead(p)
        \/ \E element \in Elements : ReadSlot(p, element)

RingSpec == RingInit /\ [][RingNext]_ringVars
=============================================================================
