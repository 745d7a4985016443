-------------------------- MODULE MessageRingBuffer --------------------------
(***************************************************************************)
(* lock_free::message_ring_buffer: messages of any length in one array,    *)
(* each behind its length, between two atomic indices.                     *)
(*                                                                         *)
(* A slot of the array holds one unit of a message (a message_t).  A       *)
(* length takes LengthSize slots and may wrap around the end of the array, *)
(* as may a body.  loaded[p] and length[p] are the local variables of a    *)
(* thread in try_push or try_pop: the index it loaded of its own side, and *)
(* message.size() or msg_size.                                             *)
(*                                                                         *)
(* Each operator is one access to shared memory, in the order of the code; *)
(* the caller's program counter puts them one after the other.             *)
(***************************************************************************)
EXTENDS Integers, Sequences

CONSTANTS Threads, Capacity,
          LengthSize,    \* sizeof(std::size_t)
          Zero           \* what a slot that was never written holds

VARIABLES cells, write_idx, read_idx, loaded, length

Slots == 0 .. Capacity - 1
Wrap(i) == i % Capacity
Required(size) == LengthSize + size

\* One slot of a length, one slot of the body of a message.
LengthCells == [length : Nat, part : 1 .. LengthSize]
BodyCells == [id : Nat, part : 1 .. Capacity]
Units == {Zero} \cup LengthCells \cup BodyCells

MessageRingTypeOK ==
    /\ cells \in [Slots -> Units]
    /\ write_idx \in Slots /\ read_idx \in Slots
    /\ loaded \in [Threads -> Slots]
    /\ length \in [Threads -> Nat]

MessageRingInit ==
    /\ cells = [s \in Slots |-> Zero]
    /\ write_idx = 0 /\ read_idx = 0
    /\ loaded = [p \in Threads |-> 0]
    /\ length = [p \in Threads |-> 0]

-----------------------------------------------------------------------------
(* copy_data: count slots from index i on, those past the end from 0 on. *)

Region(i, count) == {s \in Slots : Wrap(s - i) < count}

CopyTo(i, units) ==
    cells' = [s \in Slots |->
                IF s \in Region(i, Len(units)) THEN units[Wrap(s - i) + 1] ELSE cells[s]]

\* Variant: what does not fit before the end is not written at its beginning.
CopiedUnwrapped(i, count) ==
    [k \in 1 .. count |-> IF i + k - 1 \in Slots THEN cells[i + k - 1] ELSE Zero]

Copied(i, count) == [k \in 1 .. count |-> cells[Wrap(i + k - 1)]]

Prefix(size) == [k \in 1 .. LengthSize |-> [length |-> size, part |-> k]]

\* What a thread makes of the slots at i as a length.  Slots that hold no length,
\* because they are parts of something else or of two things, may give any.
LengthsAt(i) ==
    LET whole == {size \in 0 .. Capacity : Copied(i, LengthSize) = Prefix(size)}
    IN  IF whole # {} THEN whole
        ELSE IF \A k \in 1 .. LengthSize : Copied(i, LengthSize)[k] = Zero THEN {0}
        ELSE 0 .. Capacity + 1

-----------------------------------------------------------------------------
(* try_push *)

LoadWriteIdx(p) ==
    /\ loaded' = [loaded EXCEPT ![p] = write_idx]
    /\ UNCHANGED <<cells, write_idx, read_idx, length>>

AvailableMemory(w, r) == IF r <= w THEN Capacity - w + r - 1 ELSE r - w - 1

\* Variant: the message must leave room to spare.
FitsWithSpareRoom(p) ==
    /\ loaded[p] + 1 # read_idx
    /\ AvailableMemory(loaded[p], read_idx) > Required(length[p])

\* Neither full nor short of space; read_idx_ is loaded for this test.
Fits(p) ==
    /\ loaded[p] + 1 # read_idx
    /\ AvailableMemory(loaded[p], read_idx) >= Required(length[p])

WriteIdxIsLoaded(p) == write_idx = loaded[p]

\* compare_exchange_strong; when it fails try_push says `again'.
ExchangeWriteIdx(p) ==
    /\ write_idx' = IF WriteIdxIsLoaded(p) THEN Wrap(loaded[p] + Required(length[p]))
                    ELSE write_idx
    /\ UNCHANGED <<cells, read_idx, loaded, length>>

WriteLength(p) ==
    /\ CopyTo(loaded[p], Prefix(length[p]))
    /\ UNCHANGED <<write_idx, read_idx, loaded, length>>

WriteBody(p, body) ==
    /\ CopyTo(Wrap(loaded[p] + LengthSize), body)
    /\ UNCHANGED <<write_idx, read_idx, loaded, length>>

-----------------------------------------------------------------------------
(* try_pop *)

LoadReadIdx(p) ==
    /\ loaded' = [loaded EXCEPT ![p] = read_idx]
    /\ UNCHANGED <<cells, write_idx, read_idx, length>>

LooksEmpty(p) == loaded[p] = write_idx

\* The length is read before the message is owned.
ReadLength(p) ==
    /\ \E size \in LengthsAt(loaded[p]) : length' = [length EXCEPT ![p] = size]
    /\ UNCHANGED <<cells, write_idx, read_idx, loaded>>

\* msg_size > Capacity, or the exchange fails: try_pop says `again'.
ReadIdxIsLoaded(p) == length[p] <= Capacity /\ read_idx = loaded[p]

ExchangeReadIdx(p) ==
    /\ read_idx' = IF ReadIdxIsLoaded(p) THEN Wrap(loaded[p] + Required(length[p]))
                   ELSE read_idx
    /\ UNCHANGED <<cells, write_idx, loaded, length>>

\* The body that is copied out once the message is owned.
Body(p) == Copied(Wrap(loaded[p] + LengthSize), length[p])
=============================================================================
