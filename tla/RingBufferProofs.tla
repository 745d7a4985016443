-------------------------- MODULE RingBufferProofs --------------------------
(***************************************************************************)
(* Proofs about RingBuffer, for every capacity, every finite set of        *)
(* processes, every assignment of functions to them and every number of    *)
(* counted slots.                                                          *)
(***************************************************************************)
EXTENDS RingBuffer, Counting

\* Indices stay inside the array, and Succ wraps at its end only.
LEMMA SuccFacts ==
    ASSUME NEW s \in Slots
    PROVE  /\ Succ(s) \in Slots
           /\ Succ(s) = IF s = Capacity - 1 THEN 0 ELSE s + 1
<1>1. Capacity \in Nat /\ Capacity > 1 /\ s \in 0 .. Capacity - 1
    BY CapacityAssumption DEF Slots
<1>2. CASE s = Capacity - 1
  <2>1. (s + 1) % Capacity = 0
    BY <1>1, <1>2
  <2>2. QED
    BY <2>1, <1>1, <1>2 DEF Succ, Slots
<1>3. CASE s # Capacity - 1
  <2>1. (s + 1) % Capacity = s + 1
    BY <1>1, <1>3
  <2>2. QED
    BY <2>1, <1>1, <1>3 DEF Succ, Slots
<1>4. QED
    BY <1>2, <1>3

\* The distance between two indices without %, for as many elements as fit.
LEMMA LinearAligned ==
    ASSUME NEW r \in Slots, NEW w \in Slots, NEW n \in 0 .. Capacity
    PROVE  w = (r + n) % Capacity <=> w = r + n \/ w = r + n - Capacity
<1>1. /\ Capacity \in Nat /\ Capacity > 1
      /\ r \in 0 .. Capacity - 1 /\ w \in 0 .. Capacity - 1
    BY CapacityAssumption DEF Slots
<1>2. CASE r + n < Capacity
  <2>1. (r + n) % Capacity = r + n
    BY <1>1, <1>2
  <2>2. QED
    BY <2>1, <1>1, <1>2
<1>3. CASE r + n >= Capacity
  <2>1. (r + n) % Capacity = r + n - Capacity
    BY <1>1, <1>3
  <2>2. QED
    BY <2>1, <1>1, <1>3
<1>4. QED
    BY <1>1, <1>2, <1>3

-----------------------------------------------------------------------------
(* Types, and control *)

\* What the assumptions say of the constants.
LEMMA ConstantFacts ==
    /\ Capacity \in Nat /\ Capacity > 1 /\ 0 \in Slots /\ NoSlot \notin Slots
    /\ MaxHeld \in Nat /\ 1 <= MaxHeld /\ MaxHeld <= Capacity
    /\ Blank \in Elements
BY CapacityAssumption, MaxHeldAssumption DEF Slots, NoSlot, Elements

\* A value-initialised ring with idle processes has the right types and control.
LEMMA InitInPlace == Init => TypeOK /\ InPlace
BY ConstantFacts, UsagesAssumption
   DEF Init, RingInit, TypeOK, RingTypeOK, InPlace, Steps, Elements

\* The two halves of push and of pop keep the ring's types.
LEMMA RingType ==
    ASSUME RingTypeOK, NEW p \in Procs
    PROVE  /\ ReserveWrite(p) => RingTypeOK'
           /\ ReserveRead(p) => RingTypeOK'
           /\ \A value \in Values : WriteSlot(p, value) => RingTypeOK'
           /\ \A element \in Elements : ReadSlot(p, element) => RingTypeOK'
<1> USE DEF RingTypeOK
<1>1. ASSUME ReserveWrite(p) PROVE RingTypeOK'
    BY <1>1, SuccFacts DEF ReserveWrite
<1>2. ASSUME ReserveRead(p) PROVE RingTypeOK'
    BY <1>2, SuccFacts DEF ReserveRead
<1>3. ASSUME NEW value \in Values, WriteSlot(p, value) PROVE RingTypeOK'
  <2>1. data' \in [Slots -> Elements]
    BY <1>3 DEF WriteSlot, Elements
  <2>2. writing' \in [Procs -> Slots \cup {NoSlot}]
    BY <1>3 DEF WriteSlot
  <2>3. clashed' \in SUBSET Procs
    BY <1>3 DEF WriteSlot, OtherWriters
  <2>4. QED
    BY <1>3, <2>1, <2>2, <2>3 DEF WriteSlot
<1>4. ASSUME NEW element \in Elements, ReadSlot(p, element) PROVE RingTypeOK'
    BY <1>4 DEF ReadSlot
<1>5. QED
    BY <1>1, <1>2, <1>3, <1>4

\* Every step of a process keeps the types, and a process has a slot exactly
\* while it copies an element.
LEMMA InPlaceStep ==
    TypeOK /\ InPlace /\ [Next]_vars => TypeOK' /\ InPlace'
<1> SUFFICES ASSUME TypeOK, InPlace, [Next]_vars PROVE TypeOK' /\ InPlace'
    OBVIOUS
<1> USE ConstantFacts DEF TypeOK, InPlace, Steps, Goto, tokens, history
<1>1. CASE UNCHANGED vars
    BY <1>1 DEF vars, ringVars, RingTypeOK
<1>2. ASSUME NEW p \in Procs, Step(p) PROVE TypeOK' /\ InPlace'
  <2>1. CASE StartTryPush(p)
    BY <2>1 DEF StartTryPush, ringVars, RingTypeOK
  <2>2. CASE CheckFull(p)
    BY <2>2 DEF CheckFull, ringVars, RingTypeOK
  <2>3. CASE StartPush(p)
    BY <2>3 DEF StartPush, ringVars, RingTypeOK
  <2>4. CASE CasWrite(p)
    <3>1. RingTypeOK'
      BY <2>4, RingType DEF CasWrite
    <3>2. InPlace'
      BY <2>4 DEF CasWrite, ReserveWrite, RingTypeOK
    <3>3. QED
      BY <2>4, <3>1, <3>2 DEF CasWrite, RingTypeOK, ReserveWrite
  <2>5. CASE CasWriteFails(p)
    BY <2>5 DEF CasWriteFails, ringVars, RingTypeOK
  <2>6. CASE Write(p)
    <3>1. PICK value \in Values : WriteSlot(p, value)
      BY <2>6 DEF Write
    <3>2. RingTypeOK'
      BY <3>1, RingType
    <3>3. InPlace'
      BY <2>6, <3>1 DEF Write, WriteSlot, RingTypeOK
    <3>4. QED
      BY <2>6, <3>2, <3>3 DEF Write
  <2>7. CASE StartTryPop(p)
    BY <2>7 DEF StartTryPop, ringVars, RingTypeOK
  <2>8. CASE CheckEmpty(p)
    BY <2>8 DEF CheckEmpty, ringVars, RingTypeOK
  <2>9. CASE StartPop(p)
    BY <2>9 DEF StartPop, ringVars, RingTypeOK
  <2>10. CASE CasRead(p)
    <3>1. RingTypeOK'
      BY <2>10, RingType DEF CasRead
    <3>2. InPlace'
      BY <2>10 DEF CasRead, ReserveRead, RingTypeOK
    <3>3. QED
      BY <2>10, <3>1, <3>2 DEF CasRead, RingTypeOK, ReserveRead
  <2>11. CASE CasReadFails(p)
    BY <2>11 DEF CasReadFails, ringVars, RingTypeOK
  <2>12. CASE Read(p)
    <3>1. PICK element \in Elements : ReadSlot(p, element) /\ taken' = element
      BY <2>12 DEF Read
    <3>2. RingTypeOK'
      BY <3>1, RingType
    <3>3. InPlace'
      BY <2>12, <3>1 DEF Read, ReadSlot, RingTypeOK
    <3>4. taken' \in Elements
      BY <3>1
    <3>5. QED
      BY <2>12, <3>2, <3>3, <3>4 DEF Read
  <2>13. QED
    BY <1>2, <2>1, <2>2, <2>3, <2>4, <2>5, <2>6, <2>7, <2>8, <2>9, <2>10,
       <2>11, <2>12 DEF Step
<1>3. QED
    BY <1>1, <1>2 DEF Next

-----------------------------------------------------------------------------
(* One process on each side *)

\* Processes on the same side are the same process.
LEMMA SoleProcess ==
    ASSUME SoleTrying, InPlace, NEW p \in Procs, NEW q \in Procs
    PROVE  /\ {pc[p], pc[q]} \subseteq {"check_full", "cas_write", "write"} => p = q
           /\ {pc[p], pc[q]} \subseteq {"check_empty", "cas_read", "read"} => p = q
           /\ pc[p] \in {"cas_write", "write"} => calls[p] = "try_push"
           /\ pc[p] \in {"cas_read", "read"} => calls[p] = "try_pop"
BY DEF SoleTrying, InPlace, Sole, Callers

\* What empty() and full() see, in terms of the elements held.
LEMMA LooksLinear ==
    ASSUME TypeOK, held \in 0 .. Capacity - 1, Aligned
    PROVE  /\ LooksEmpty <=> held = 0
           /\ LooksFull <=> held = Capacity - 1
<1>1. /\ Capacity \in Nat /\ Capacity > 1
      /\ read_idx \in 0 .. Capacity - 1 /\ write_idx \in 0 .. Capacity - 1
    BY ConstantFacts DEF TypeOK, RingTypeOK, Slots
<1>2. write_idx = read_idx + held \/ write_idx = read_idx + held - Capacity
  <2>1. held \in 0 .. Capacity
    BY <1>1
  <2>2. read_idx \in Slots /\ write_idx \in Slots
    BY DEF TypeOK, RingTypeOK
  <2>3. QED
    BY <2>1, <2>2, LinearAligned DEF Aligned
<1>3. Succ(write_idx) = IF write_idx = Capacity - 1 THEN 0 ELSE write_idx + 1
    BY <1>1, SuccFacts DEF Slots
<1>4. QED
    BY <1>1, <1>2, <1>3 DEF LooksEmpty, LooksFull

\* An exchange that succeeds keeps the indices held elements apart.
LEMMA AlignedMove ==
    ASSUME TypeOK, held \in 0 .. Capacity, Aligned, NEW p \in Procs
    PROVE  /\ CasWrite(p) /\ held < Capacity => Aligned'
           /\ CasRead(p) /\ held > 0 => Aligned'
<1>1. /\ Capacity \in Nat /\ Capacity > 1
      /\ read_idx \in 0 .. Capacity - 1 /\ write_idx \in 0 .. Capacity - 1
    BY ConstantFacts DEF TypeOK, RingTypeOK, Slots
<1>2. write_idx = read_idx + held \/ write_idx = read_idx + held - Capacity
  <2>1. held \in 0 .. Capacity
    BY <1>1
  <2>2. read_idx \in Slots /\ write_idx \in Slots
    BY DEF TypeOK, RingTypeOK
  <2>3. QED
    BY <2>1, <2>2, LinearAligned DEF Aligned
<1>3. ASSUME CasWrite(p), held < Capacity PROVE Aligned'
  <2>1. /\ write_idx' = IF write_idx = Capacity - 1 THEN 0 ELSE write_idx + 1
        /\ read_idx' = read_idx /\ held' = held + 1
    BY <1>1, <1>3, SuccFacts DEF CasWrite, ReserveWrite, Slots
  <2>2. \/ write_idx' = read_idx' + held'
        \/ write_idx' = read_idx' + held' - Capacity
    BY <1>1, <1>2, <1>3, <2>1
  <2>3. read_idx' \in Slots /\ write_idx' \in Slots /\ held' \in 0 .. Capacity
    BY <1>1, <1>3, <2>1 DEF Slots
  <2>4. QED
    BY <1>1, <2>2, <2>3, LinearAligned DEF Aligned
<1>4. ASSUME CasRead(p), held > 0 PROVE Aligned'
  <2>1. /\ read_idx' = IF read_idx = Capacity - 1 THEN 0 ELSE read_idx + 1
        /\ write_idx' = write_idx /\ held' = held - 1
    BY <1>1, <1>4, SuccFacts DEF CasRead, ReserveRead, Slots
  <2>2. \/ write_idx' = read_idx' + held'
        \/ write_idx' = read_idx' + held' - Capacity
    BY <1>1, <1>2, <1>4, <2>1
  <2>3. read_idx' \in Slots /\ write_idx' \in Slots /\ held' \in 0 .. Capacity
    BY <1>1, <1>4, <2>1 DEF Slots
  <2>4. QED
    BY <1>1, <2>2, <2>3, LinearAligned DEF Aligned
<1>5. QED
    BY <1>3, <1>4

\* The account of one process on each side is inductive.
LEMMA SoleAccountStep ==
    TypeOK /\ InPlace /\ SoleAccount /\ [Next]_vars => SoleAccount'
<1> SUFFICES ASSUME TypeOK, InPlace, SoleAccount, [Next]_vars, SoleTrying'
             PROVE  SoleAccount'
    BY DEF SoleAccount
<1>1. calls' = calls
    BY DEF Next, Step, vars, StartTryPush, CheckFull, StartPush, CasWrite,
           CasWriteFails, Write, StartTryPop, CheckEmpty, StartPop, CasRead,
           CasReadFails, Read
<1>2. SoleTrying
    BY <1>1 DEF SoleTrying, Sole, Callers
<1>3. /\ held \in 0 .. Capacity - 1
      /\ held \in 0 .. Capacity
      /\ Aligned
      /\ \A p \in Procs :
            /\ pc[p] \in {"check_full", "cas_write"} => seen[p] = write_idx
            /\ pc[p] = "cas_write" => held < Capacity - 1
            /\ pc[p] \in {"check_empty", "cas_read"} => seen[p] = read_idx
            /\ pc[p] = "cas_read" => held > 0
    BY <1>2, ConstantFacts DEF SoleAccount
<1>4. CASE UNCHANGED vars
    BY <1>3, <1>4 DEF vars, ringVars, history, SoleAccount, Aligned
<1>5. ASSUME NEW p \in Procs, Step(p) PROVE SoleAccount'
  <2> USE DEF Goto, TypeOK
  <2>1. CASE StartTryPush(p)
    BY <1>3, <2>1 DEF StartTryPush, ringVars, history, SoleAccount, Aligned
  <2>2. CASE CheckFull(p)
    <3>1. pc'[p] = "cas_write" => held < Capacity - 1
      BY <1>3, <2>2, LooksLinear, ConstantFacts DEF CheckFull, LooksFull
    <3>2. QED
      BY <1>3, <2>2, <3>1 DEF CheckFull, ringVars, history, SoleAccount, Aligned
  <2>3. CASE StartPush(p)
    BY <1>2, <2>3 DEF StartPush, SoleTrying
  <2>4. CASE CasWrite(p)
    <3>1. Aligned'
      <4>1. held < Capacity
        BY <1>3, ConstantFacts
      <4>2. QED
        BY <1>3, <2>4, <4>1, AlignedMove
    <3>2. held' \in 0 .. Capacity - 1
      BY <1>3, <2>4, ConstantFacts DEF CasWrite
    <3>3. ASSUME NEW q \in Procs
          PROVE  /\ pc'[q] \notin {"check_full", "cas_write"}
                 /\ pc'[q] \in {"check_empty", "cas_read"} => seen'[q] = read_idx'
                 /\ pc'[q] = "cas_read" => held' > 0
      BY <1>2, <1>3, <2>4, SoleProcess DEF CasWrite, ReserveWrite
    <3>4. QED
      BY <3>1, <3>2, <3>3 DEF SoleAccount
  <2>5. CASE CasWriteFails(p)
    BY <1>3, <2>5 DEF CasWriteFails
  <2>6. CASE Write(p)
    BY <1>3, <2>6 DEF Write, WriteSlot, history, SoleAccount, Aligned
  <2>7. CASE StartTryPop(p)
    BY <1>3, <2>7 DEF StartTryPop, ringVars, history, SoleAccount, Aligned
  <2>8. CASE CheckEmpty(p)
    <3>1. pc'[p] = "cas_read" => held > 0
      BY <1>3, <2>8, LooksLinear, ConstantFacts DEF CheckEmpty, LooksEmpty
    <3>2. QED
      BY <1>3, <2>8, <3>1 DEF CheckEmpty, ringVars, history, SoleAccount, Aligned
  <2>9. CASE StartPop(p)
    BY <1>2, <2>9 DEF StartPop, SoleTrying
  <2>10. CASE CasRead(p)
    <3>1. Aligned'
      <4>1. held > 0
        BY <1>3, <2>10 DEF CasRead
      <4>2. QED
        BY <1>3, <2>10, <4>1, AlignedMove
    <3>2. held' \in 0 .. Capacity - 1
      BY <1>3, <2>10, ConstantFacts DEF CasRead
    <3>3. ASSUME NEW q \in Procs
          PROVE  /\ pc'[q] \notin {"check_empty", "cas_read"}
                 /\ pc'[q] \in {"check_full", "cas_write"} => seen'[q] = write_idx'
                 /\ pc'[q] = "cas_write" => held' < Capacity - 1
      BY <1>2, <1>3, <2>10, SoleProcess, ConstantFacts DEF CasRead, ReserveRead
    <3>4. QED
      BY <3>1, <3>2, <3>3 DEF SoleAccount
  <2>11. CASE CasReadFails(p)
    BY <1>3, <2>11 DEF CasReadFails
  <2>12. CASE Read(p)
    BY <1>3, <2>12 DEF Read, ReadSlot, history, SoleAccount, Aligned
  <2>13. QED
    BY <1>5, <2>1, <2>2, <2>3, <2>4, <2>5, <2>6, <2>7, <2>8, <2>9, <2>10,
       <2>11, <2>12 DEF Step
<1>6. QED
    BY <1>4, <1>5 DEF Next

-----------------------------------------------------------------------------
(* Counted slots *)

\* What a move of p does to the count of processes at some steps.
LEMMA GotoCount ==
    ASSUME pc \in [Procs -> Steps], NEW p \in Procs, NEW from, NEW to,
           Goto(p, from, to), NEW steps
    PROVE  /\ CountAt(steps) \in Nat
           /\ CountAt(steps)' \in Nat
           /\ CountAt(steps)' = CountAt(steps) + In(to, steps) - In(from, steps)
<1> DEFINE A == {q \in Procs : pc[q] \in steps}
           B == {q \in Procs : pc'[q] \in steps}
<1>1. IsFiniteSet(A)
    BY ProcsAssumption, FS_Subset
<1>2. A \ {p} = B \ {p}
    BY DEF Goto
<1>3. In(p, A) = In(from, steps) /\ In(p, B) = In(to, steps)
    BY DEF Goto, In
<1>4. /\ Cardinality(A) \in Nat
      /\ Cardinality(B) = Cardinality(A) + In(p, B) - In(p, A)
    BY <1>1, <1>2, CountMove
<1>5. IsFiniteSet(B) /\ Cardinality(B) \in Nat
    BY ProcsAssumption, FS_Subset, FS_CardinalityType
<1>6. QED
    BY <1>3, <1>4, <1>5 DEF CountAt

\* The part of CountedAccount that counts.
Account ==
    /\ free + CountAt({"cas_write"}) + held + CountAt({"read"}) = MaxHeld
    /\ held = CountAt({"write"}) + filled + CountAt({"cas_read"})

\* The account of counted slots is inductive.
LEMMA CountedAccountStep ==
    TypeOK /\ InPlace /\ CountedAccount /\ [Next]_vars => CountedAccount'
<1> SUFFICES ASSUME TypeOK, InPlace, CountedAccount, [Next]_vars, Counted'
             PROVE  Account' /\ Aligned'
    BY DEF CountedAccount, Account
<1>1. calls' = calls
    BY DEF Next, Step, vars, StartTryPush, CheckFull, StartPush, CasWrite,
           CasWriteFails, Write, StartTryPop, CheckEmpty, StartPop, CasRead,
           CasReadFails, Read
<1>2. Counted
    BY <1>1 DEF Counted
<1>3. Account /\ Aligned
    BY <1>2 DEF CountedAccount, Account
<1>4. CASE UNCHANGED vars
    BY <1>3, <1>4 DEF vars, ringVars, history, tokens, Account, CountAt, Aligned
<1>5. ASSUME NEW p \in Procs, Step(p) PROVE Account' /\ Aligned'
  <2> DEFINE c == CountAt({"cas_write"})
             w == CountAt({"write"})
             d == CountAt({"cas_read"})
             r == CountAt({"read"})
  <2>1. PICK from, to : Goto(p, from, to)
    BY <1>5 DEF Step, StartTryPush, CheckFull, StartPush, CasWrite,
           CasWriteFails, Write, StartTryPop, CheckEmpty, StartPop, CasRead,
           CasReadFails, Read
  <2>2. pc \in [Procs -> Steps]
    BY DEF TypeOK
  <2>3. /\ c \in Nat /\ w \in Nat /\ d \in Nat /\ r \in Nat
        /\ free \in Nat /\ filled \in Nat /\ held \in Int
        /\ MaxHeld \in Nat /\ MaxHeld <= Capacity /\ Capacity \in Nat
    BY <2>1, <2>2, GotoCount, ConstantFacts DEF TypeOK
  <2>4. ASSUME NEW f, NEW t, Goto(p, f, t)
        PROVE  /\ c' = c + In(t, {"cas_write"}) - In(f, {"cas_write"})
               /\ w' = w + In(t, {"write"}) - In(f, {"write"})
               /\ d' = d + In(t, {"cas_read"}) - In(f, {"cas_read"})
               /\ r' = r + In(t, {"read"}) - In(f, {"read"})
               /\ c' \in Nat /\ d' \in Nat
    BY <2>2, <2>4, GotoCount
  <2>5. free + c + held + r = MaxHeld /\ held = w + filled + d
    BY <1>3 DEF Account
  <2> SUFFICES /\ free' + c' + held' + r' = MaxHeld
               /\ held' = w' + filled' + d'
               /\ Aligned'
    BY DEF Account
  <2> HIDE DEF c, w, d, r
  <2> USE DEF In
  <2>6. CASE StartTryPush(p) \/ CheckFull(p) \/ StartTryPop(p) \/ CheckEmpty(p)
    BY <1>2, <2>6 DEF StartTryPush, CheckFull, StartTryPop, CheckEmpty, Counted,
                      InPlace, Goto
  <2>7. CASE StartPush(p)
    <3>1. c' = c + 1 /\ w' = w /\ d' = d /\ r' = r
      BY <2>3, <2>4, <2>7 DEF StartPush
    <3>2. QED
      BY <1>3, <2>3, <2>5, <2>7, <3>1 DEF StartPush, history, ringVars, Aligned
  <2>8. CASE CasWrite(p)
    <3>1. c' = c - 1 /\ w' = w + 1 /\ d' = d /\ r' = r
      BY <2>3, <2>4, <2>8 DEF CasWrite
    <3>2. c' \in Nat
      BY <2>4, <2>8 DEF CasWrite
    <3>3. held \in 0 .. Capacity /\ held < Capacity
      BY <2>3, <2>5, <3>1, <3>2
    <3>4. Aligned'
      BY <1>3, <2>8, <3>3, AlignedMove
    <3>5. QED
      BY <2>3, <2>5, <2>8, <3>1, <3>4 DEF CasWrite, tokens
  <2>9. CASE CasWriteFails(p)
    <3>1. c' = c /\ w' = w /\ d' = d /\ r' = r
      <4>1. Goto(p, "cas_write", "cas_write")
        BY <1>2, <2>9 DEF CasWriteFails, Counted, InPlace, Goto
      <4>2. QED
        BY <2>3, <2>4, <4>1
    <3>2. QED
      BY <1>3, <2>3, <2>5, <2>9, <3>1
         DEF CasWriteFails, history, tokens, ringVars, Aligned
  <2>10. CASE Write(p)
    <3>1. c' = c /\ w' = w - 1 /\ d' = d /\ r' = r
      BY <2>3, <2>4, <2>10 DEF Write
    <3>2. filled' = filled + 1
      BY <1>2, <2>10 DEF Write, Counted, InPlace, Goto
    <3>3. QED
      BY <1>3, <2>3, <2>5, <2>10, <3>1, <3>2 DEF Write, WriteSlot, history, Aligned
  <2>11. CASE StartPop(p)
    <3>1. c' = c /\ w' = w /\ d' = d + 1 /\ r' = r
      BY <2>3, <2>4, <2>11 DEF StartPop
    <3>2. QED
      BY <1>3, <2>3, <2>5, <2>11, <3>1 DEF StartPop, history, ringVars, Aligned
  <2>12. CASE CasRead(p)
    <3>1. c' = c /\ w' = w /\ d' = d - 1 /\ r' = r + 1
      BY <2>3, <2>4, <2>12 DEF CasRead
    <3>2. d' \in Nat
      BY <2>4, <2>12 DEF CasRead
    <3>3. held \in 0 .. Capacity /\ held > 0
      BY <2>3, <2>5, <3>1, <3>2
    <3>4. Aligned'
      BY <1>3, <2>12, <3>3, AlignedMove
    <3>5. QED
      BY <2>3, <2>5, <2>12, <3>1, <3>4 DEF CasRead, tokens
  <2>13. CASE CasReadFails(p)
    <3>1. c' = c /\ w' = w /\ d' = d /\ r' = r
      <4>1. Goto(p, "cas_read", "cas_read")
        BY <1>2, <2>13 DEF CasReadFails, Counted, InPlace, Goto
      <4>2. QED
        BY <2>3, <2>4, <4>1
    <3>2. QED
      BY <1>3, <2>3, <2>5, <2>13, <3>1
         DEF CasReadFails, history, tokens, ringVars, Aligned
  <2>14. CASE Read(p)
    <3>1. c' = c /\ w' = w /\ d' = d /\ r' = r - 1
      BY <2>3, <2>4, <2>14 DEF Read
    <3>2. free' = free + 1
      BY <1>2, <2>14 DEF Read, Counted, InPlace, Goto
    <3>3. QED
      BY <1>3, <2>3, <2>5, <2>14, <3>1, <3>2 DEF Read, ReadSlot, Aligned
  <2>15. QED
    BY <1>5, <2>6, <2>7, <2>8, <2>9, <2>10, <2>11, <2>12, <2>13, <2>14 DEF Step
<1>6. QED
    BY <1>4, <1>5 DEF Next

-----------------------------------------------------------------------------
(* One process on each side of counted slots *)

\* Counted processes on the same side are the same process, and none tries.
LEMMA CountedProcess ==
    ASSUME SoleCounted, InPlace, NEW p \in Procs, NEW q \in Procs
    PROVE  /\ {pc[p], pc[q]} \subseteq {"cas_write", "write"} => p = q
           /\ {pc[p], pc[q]} \subseteq {"cas_read", "read"} => p = q
           /\ pc[p] \notin {"check_full", "check_empty"}
           /\ pc[p] \in {"cas_write", "write"} => calls[p] = "push"
           /\ pc[p] \in {"cas_read", "read"} => calls[p] = "pop"
BY DEF SoleCounted, Counted, InPlace, Sole, Callers

\* The one writer meets no other write.
LEMMA WriterAlone ==
    ASSUME SoleCounted, InPlace, NEW p \in Procs, pc[p] = "write"
    PROVE  OtherWriters(p) = {}
<1>1. ASSUME NEW q \in Procs, q # p PROVE writing[q] # writing[p]
    BY <1>1, CountedProcess DEF InPlace
<1>2. QED
    BY <1>1 DEF OtherWriters

\* No step changes who calls what.
LEMMA CallsKept == [Next]_vars => calls' = calls /\ (SoleCounted' <=> SoleCounted)
<1> SUFFICES ASSUME [Next]_vars
             PROVE  calls' = calls /\ (SoleCounted' <=> SoleCounted)
    OBVIOUS
<1>1. calls' = calls
    BY DEF Next, Step, vars, StartTryPush, CheckFull, StartPush, CasWrite,
           CasWriteFails, Write, StartTryPop, CheckEmpty, StartPop, CasRead,
           CasReadFails, Read
<1>2. QED
    BY <1>1 DEF SoleCounted, Counted, Sole, Callers

\* Where the one writer and the one reader are is inductive.
LEMMA SlotsKnownStep ==
    TypeOK /\ InPlace /\ SlotsKnown /\ [Next]_vars => SlotsKnown'
<1> SUFFICES ASSUME TypeOK, InPlace, SlotsKnown, [Next]_vars, SoleCounted'
             PROVE  SlotsKnown'
    BY DEF SlotsKnown
<1>1. SoleCounted
    BY CallsKept
<1>2. /\ clashed = {}
      /\ \A p \in Procs :
            /\ pc[p] = "write" => Succ(writing[p]) = write_idx
            /\ pc[p] = "read" => Succ(reading[p]) = read_idx
    BY <1>1 DEF SlotsKnown
<1>3. CASE UNCHANGED vars
    BY <1>2, <1>3 DEF vars, ringVars, SlotsKnown, Succ
<1>4. ASSUME NEW p \in Procs, Step(p) PROVE SlotsKnown'
  <2> USE DEF Goto, TypeOK, RingTypeOK
  <2>1. CASE \/ StartTryPush(p) \/ CheckFull(p) \/ StartPush(p) \/ CasWriteFails(p)
             \/ StartTryPop(p) \/ CheckEmpty(p) \/ StartPop(p) \/ CasReadFails(p)
    BY <1>2, <2>1 DEF StartTryPush, CheckFull, StartPush, CasWriteFails,
           StartTryPop, CheckEmpty, StartPop, CasReadFails, ringVars, SlotsKnown, Succ
  <2>2. CASE CasWrite(p)
    <3>1. ASSUME NEW q \in Procs, pc'[q] = "write" PROVE q = p
      BY <1>1, <2>2, <3>1, CountedProcess DEF CasWrite
    <3>2. writing'[p] = write_idx /\ write_idx' = Succ(write_idx)
      BY <2>2 DEF CasWrite, ReserveWrite
    <3>3. ASSUME NEW q \in Procs, pc'[q] = "read" PROVE Succ(reading'[q]) = read_idx'
      BY <1>2, <2>2, <3>3 DEF CasWrite, ReserveWrite
    <3>4. clashed' = {}
      BY <1>2, <2>2 DEF CasWrite, ReserveWrite
    <3>5. QED
      BY <3>1, <3>2, <3>3, <3>4 DEF SlotsKnown, Succ
  <2>3. CASE Write(p)
    <3>1. PICK value \in Values : WriteSlot(p, value)
      BY <2>3 DEF Write
    <3>2. clashed' = {}
      BY <1>1, <1>2, <2>3, <3>1, WriterAlone DEF Write, WriteSlot
    <3>3. QED
      BY <1>2, <2>3, <3>1, <3>2 DEF Write, WriteSlot, SlotsKnown, Succ
  <2>4. CASE CasRead(p)
    <3>1. ASSUME NEW q \in Procs, pc'[q] = "read" PROVE q = p
      BY <1>1, <2>4, <3>1, CountedProcess DEF CasRead
    <3>2. reading'[p] = read_idx /\ read_idx' = Succ(read_idx)
      BY <2>4 DEF CasRead, ReserveRead
    <3>3. ASSUME NEW q \in Procs, pc'[q] = "write" PROVE Succ(writing'[q]) = write_idx'
      BY <1>2, <2>4, <3>3 DEF CasRead, ReserveRead
    <3>4. clashed' = {}
      BY <1>2, <2>4 DEF CasRead, ReserveRead
    <3>5. QED
      BY <3>1, <3>2, <3>3, <3>4 DEF SlotsKnown, Succ
  <2>5. CASE Read(p)
    BY <1>2, <2>5 DEF Read, ReadSlot, SlotsKnown, Succ
  <2>6. QED
    BY <1>4, <2>1, <2>2, <2>3, <2>4, <2>5 DEF Step
<1>5. QED
    BY <1>3, <1>4 DEF Next

-----------------------------------------------------------------------------
(* The queue *)

\* The slot k places from s on, and how many elements are announced.
Place(s, k) == (s + k - 1) % Capacity
Length == filled + Cardinality(Popping)

\* As many places as there are slots are different slots.
LEMMA PlaceFacts ==
    ASSUME NEW s \in Slots, NEW k \in 1 .. Capacity
    PROVE  /\ Place(s, k) \in Slots
           /\ Place(s, k) = s + k - 1 \/ Place(s, k) = s + k - 1 - Capacity
           /\ Place(s, 1) = s
           /\ \A m \in 1 .. Capacity : m # k => Place(s, m) # Place(s, k)
<1>1. Capacity \in Nat /\ Capacity > 1 /\ s \in 0 .. Capacity - 1
    BY ConstantFacts DEF Slots
<1>2. ASSUME NEW m \in 1 .. Capacity
      PROVE  /\ Place(s, m) \in 0 .. Capacity - 1
             /\ Place(s, m) = s + m - 1 \/ Place(s, m) = s + m - 1 - Capacity
  <2>1. CASE s + m - 1 < Capacity
    <3>1. (s + m - 1) % Capacity = s + m - 1
      BY <1>1, <2>1
    <3>2. QED
      BY <1>1, <2>1, <3>1 DEF Place
  <2>2. CASE s + m - 1 >= Capacity
    <3>1. (s + m - 1) % Capacity = s + m - 1 - Capacity
      BY <1>1, <2>2
    <3>2. QED
      BY <1>1, <2>2, <3>1 DEF Place
  <2>3. QED
    BY <1>1, <2>1, <2>2
<1>3. Place(s, 1) = s
  <2>1. 1 \in 1 .. Capacity
    BY <1>1
  <2>2. QED
    BY <1>1, <1>2, <2>1
<1>4. ASSUME NEW m \in 1 .. Capacity, m # k PROVE Place(s, m) # Place(s, k)
    BY <1>1, <1>2, <1>4
<1>5. QED
    BY <1>2, <1>3, <1>4 DEF Slots

\* A value added at the end of a window, and the first one taken from it.
LEMMA WindowEnds ==
    ASSUME NEW E, NEW n \in Nat, NEW q \in [1 .. n -> E]
    PROVE  /\ q \in Seq(E) /\ Len(q) = n
           /\ \A v \in E, r \in [1 .. n + 1 -> E] :
                 (\A k \in 1 .. n : r[k] = q[k]) /\ r[n + 1] = v => r = Append(q, v)
           /\ n > 0 => /\ q # <<>> /\ Head(q) = q[1]
                       /\ Tail(q) = [k \in 1 .. n - 1 |-> q[k + 1]]
<1>1. q \in Seq(E) /\ Len(q) = n
    OBVIOUS
<1>2. ASSUME NEW v \in E, NEW r \in [1 .. n + 1 -> E],
             \A k \in 1 .. n : r[k] = q[k], r[n + 1] = v
      PROVE  r = Append(q, v)
    BY <1>1, <1>2
<1>3. ASSUME n > 0
      PROVE  /\ q # <<>> /\ Head(q) = q[1]
             /\ Tail(q) = [k \in 1 .. n - 1 |-> q[k + 1]]
  <2>1. q # <<>> /\ Head(q) = q[1]
    BY <1>1, <1>3
  <2>2. Len(Tail(q)) = n - 1 /\ Tail(q) \in Seq(E)
    BY <1>1, <1>3, <2>1
  <2>3. \A k \in 1 .. n - 1 : Tail(q)[k] = q[k + 1]
    BY <1>1, <1>3, <2>1
  <2>4. ASSUME NEW t \in Seq(E), Len(t) = n - 1, \A k \in 1 .. n - 1 : t[k] = q[k + 1]
        PROVE  t = [k \in 1 .. n - 1 |-> q[k + 1]]
    BY <2>4
  <2>5. QED
    BY <2>1, <2>2, <2>3, <2>4
<1>4. QED
    BY <1>1, <1>2, <1>3

\* At most one process is past the reservation on each side.
LEMMA CountOne ==
    ASSUME SoleCounted, InPlace, NEW steps,
           steps \subseteq {"cas_write", "write"} \/ steps \subseteq {"cas_read", "read"}
    PROVE  /\ CountAt(steps) \in {0, 1}
           /\ \A p \in Procs : pc[p] \in steps => CountAt(steps) = 1
           /\ (\A p \in Procs : pc[p] \notin steps) => CountAt(steps) = 0
<1> DEFINE A == {q \in Procs : pc[q] \in steps}
<1>1. ASSUME NEW p \in Procs, pc[p] \in steps PROVE Cardinality(A) = 1
  <2>1. A = {p}
    BY <1>1, CountedProcess
  <2>2. QED
    BY <2>1, FS_Singleton
<1>2. ASSUME \A p \in Procs : pc[p] \notin steps PROVE Cardinality(A) = 0
  <2>1. A = {}
    BY <1>2
  <2>2. QED
    BY <2>1, FS_EmptySet
<1>3. QED
    BY <1>1, <1>2 DEF CountAt

\* The announced elements start at the slot being read, or else at read_idx, and
\* the slot being written is the one behind them.
LEMMA Window ==
    ASSUME IInv, SoleCounted
    PROVE  /\ Length \in 0 .. MaxHeld
           /\ NextRead \in Slots
           /\ Announced \in [1 .. Length -> Elements]
           /\ \A k \in 1 .. Length : Announced[k] = data[Place(NextRead, k)]
           /\ \A p \in Procs : pc[p] = "read" => Length > 0 /\ reading[p] = NextRead
           /\ (\A p \in Procs : pc[p] # "read") => NextRead = read_idx
           /\ \A p \in Procs :
                 pc[p] = "write" => /\ Length < MaxHeld
                                    /\ writing[p] = Place(NextRead, Length + 1)
<1> DEFINE c == CountAt({"cas_write"})
           w == CountAt({"write"})
           d == CountAt({"cas_read"})
           r == CountAt({"read"})
<1>1. /\ Capacity \in Nat /\ Capacity > 1 /\ MaxHeld \in Nat /\ MaxHeld <= Capacity
      /\ read_idx \in 0 .. Capacity - 1 /\ write_idx \in 0 .. Capacity - 1
      /\ free \in Nat /\ filled \in Nat /\ held \in Int
    BY ConstantFacts DEF IInv, TypeOK, RingTypeOK, Slots
<1>2. c \in {0, 1} /\ w \in {0, 1} /\ d \in {0, 1} /\ r \in {0, 1}
    BY CountOne DEF IInv
<1>3. free + c + held + r = MaxHeld /\ held = w + filled + d /\ Aligned
    BY DEF IInv, CountedAccount, SoleCounted
<1>4. Cardinality(Popping) = d + r
  <2>1. CountAt({"cas_read", "read"}) = d + r
    <3>1. CASE \E p \in Procs : pc[p] \in {"cas_read", "read"}
      <4>1. PICK p \in Procs : pc[p] \in {"cas_read", "read"}
        BY <3>1
      <4>2. CountAt({"cas_read", "read"}) = 1
        BY <4>1, CountOne DEF IInv
      <4>3. \A q \in Procs : q # p => pc[q] \notin {"cas_read", "read"}
        BY <4>1, CountedProcess DEF IInv
      <4>4. CASE pc[p] = "read"
        <5>1. r = 1
          BY <4>4, CountOne DEF IInv
        <5>2. \A q \in Procs : pc[q] \notin {"cas_read"}
          BY <4>3, <4>4
        <5>3. d = 0
          BY <5>2, CountOne DEF IInv
        <5>4. QED
          BY <4>2, <5>1, <5>3
      <4>5. CASE pc[p] = "cas_read"
        <5>1. d = 1
          BY <4>5, CountOne DEF IInv
        <5>2. \A q \in Procs : pc[q] \notin {"read"}
          BY <4>3, <4>5
        <5>3. r = 0
          BY <5>2, CountOne DEF IInv
        <5>4. QED
          BY <4>2, <5>1, <5>3
      <4>6. QED
        BY <4>1, <4>4, <4>5
    <3>2. CASE \A p \in Procs : pc[p] \notin {"cas_read", "read"}
      <4>1. /\ \A p \in Procs : pc[p] \notin {"cas_read"}
            /\ \A p \in Procs : pc[p] \notin {"read"}
        BY <3>2
      <4>2. CountAt({"cas_read", "read"}) = 0 /\ d = 0 /\ r = 0
        BY <3>2, <4>1, CountOne DEF IInv
      <4>3. QED
        BY <4>2
    <3>3. QED
      BY <3>1, <3>2
  <2>2. QED
    BY <2>1 DEF CountAt, Popping
<1>5. NextRead = (read_idx - r) % Capacity
  <2>1. {p \in Procs : pc[p] = "read"} = {p \in Procs : pc[p] \in {"read"}}
    OBVIOUS
  <2>2. QED
    BY <2>1 DEF NextRead, CountAt
<1> HIDE DEF c, w, d, r
<1>6. /\ r = 0 => NextRead = read_idx
      /\ r = 1 => NextRead = IF read_idx = 0 THEN Capacity - 1 ELSE read_idx - 1
  <2>1. CASE r = 0
    <3>1. read_idx % Capacity = read_idx /\ read_idx - r = read_idx
      BY <1>1, <2>1
    <3>2. QED
      BY <1>5, <2>1, <3>1
  <2>2. CASE r = 1 /\ read_idx > 0
    <3>1. (read_idx - 1) % Capacity = read_idx - 1
      BY <1>1, <2>2
    <3>2. QED
      BY <1>5, <2>2, <3>1
  <2>3. CASE r = 1 /\ read_idx = 0
    <3>1. (0 - 1) % Capacity = Capacity - 1
      BY <1>1
    <3>2. QED
      BY <1>5, <2>3, <3>1
  <2>4. QED
    BY <1>1, <1>2, <2>1, <2>2, <2>3
<1>7. NextRead \in 0 .. Capacity - 1
    BY <1>1, <1>2, <1>6
<1>8. NextRead \in Slots
    BY <1>7 DEF Slots
<1>9. Length = filled + d + r /\ Length \in 0 .. MaxHeld
    BY <1>1, <1>2, <1>3, <1>4 DEF Length
<1>10. /\ Announced = [k \in 1 .. Length |-> data[Place(NextRead, k)]]
       /\ Announced \in [1 .. Length -> Elements]
  <2>1. Announced = [k \in 1 .. Length |-> data[Place(NextRead, k)]]
    BY Zenon DEF Announced, Place, Length
  <2>2. ASSUME NEW k \in 1 .. Length PROVE data[Place(NextRead, k)] \in Elements
    <3>1. k \in 1 .. Capacity
      BY <1>1, <1>9
    <3>2. Place(NextRead, k) \in Slots
      BY <1>8, <3>1, PlaceFacts
    <3>3. QED
      BY <3>2 DEF IInv, TypeOK, RingTypeOK
  <2>3. QED
    BY <2>1, <2>2
<1>11. ASSUME NEW p \in Procs, pc[p] = "read"
       PROVE  Length > 0 /\ reading[p] = NextRead
  <2>1. r = 1
    BY <1>11, CountOne DEF IInv, r
  <2>2. reading[p] \in Slots /\ Succ(reading[p]) = read_idx
    BY <1>11 DEF IInv, TypeOK, RingTypeOK, InPlace, SlotsKnown
  <2>3. /\ reading[p] \in 0 .. Capacity - 1
        /\ read_idx = IF reading[p] = Capacity - 1 THEN 0 ELSE reading[p] + 1
    BY <2>2, SuccFacts DEF Slots
  <2>4. QED
    BY <1>1, <1>2, <1>6, <1>9, <2>1, <2>3
<1>12. ASSUME \A p \in Procs : pc[p] # "read" PROVE NextRead = read_idx
  <2>1. \A p \in Procs : pc[p] \notin {"read"}
    BY <1>12
  <2>2. r = 0
    BY <2>1, CountOne DEF IInv, r
  <2>3. QED
    BY <1>6, <2>2
<1>13. ASSUME NEW p \in Procs, pc[p] = "write"
       PROVE  Length < MaxHeld /\ writing[p] = Place(NextRead, Length + 1)
  <2>1. w = 1
    BY <1>13, CountOne DEF IInv, w
  <2>2. Length < MaxHeld /\ Length + 1 \in 1 .. Capacity /\ held = Length + 1 - r
        /\ held \in 0 .. Capacity
    BY <1>1, <1>2, <1>3, <1>9, <2>1
  <2>3. writing[p] \in Slots /\ Succ(writing[p]) = write_idx
    BY <1>13 DEF IInv, TypeOK, RingTypeOK, InPlace, SlotsKnown
  <2>4. /\ writing[p] \in 0 .. Capacity - 1
        /\ write_idx = IF writing[p] = Capacity - 1 THEN 0 ELSE writing[p] + 1
    BY <2>3, SuccFacts DEF Slots
  <2>5. write_idx = read_idx + held \/ write_idx = read_idx + held - Capacity
    <3>1. read_idx \in Slots /\ write_idx \in Slots
      BY DEF IInv, TypeOK, RingTypeOK
    <3>2. QED
      BY <1>3, <2>2, <3>1, LinearAligned DEF Aligned
  <2>6. /\ Place(NextRead, Length + 1) \in 0 .. Capacity - 1
        /\ \/ Place(NextRead, Length + 1) = NextRead + Length
           \/ Place(NextRead, Length + 1) = NextRead + Length - Capacity
    <3>1. /\ Place(NextRead, Length + 1) \in Slots
          /\ \/ Place(NextRead, Length + 1) = NextRead + (Length + 1) - 1
             \/ Place(NextRead, Length + 1) = NextRead + (Length + 1) - 1 - Capacity
      BY <1>8, <2>2, PlaceFacts
    <3>2. QED
      BY <1>1, <1>7, <1>9, <3>1 DEF Slots
  <2>7. PICK place \in 0 .. Capacity - 1 : place = Place(NextRead, Length + 1)
    BY <2>6
  <2>8. writing[p] = place
    BY <1>1, <1>2, <1>6, <1>7, <1>9, <2>2, <2>4, <2>5, <2>6, <2>7
  <2>9. QED
    BY <2>2, <2>7, <2>8
<1>14. QED
    BY <1>8, <1>9, <1>10, <1>11, <1>12, <1>13

\* A step that leaves the slots, their start and their number alone.
LEMMA AnnouncedKept ==
    ASSUME data' = data, NextRead' = NextRead, Length' = Length, UNCHANGED taken
    PROVE  Announced' = Announced /\ taken' = taken
<1>1. Announced = [k \in 1 .. Length |-> data[(NextRead + k - 1) % Capacity]]
    BY Zenon DEF Announced, Length
<1>2. Announced' = [k \in 1 .. Length' |-> data'[(NextRead' + k - 1) % Capacity]]
    BY Zenon DEF Announced, Length
<1>3. QED
    BY <1>1, <1>2

\* The copy into the slot enqueues.
LEMMA WriteEnqueues ==
    ASSUME IInv, SoleCounted, NEW p \in Procs, Write(p)
    PROVE  /\ Len(Announced) < MaxHeld
           /\ \E value \in Values : Announced' = Append(Announced, value)
           /\ UNCHANGED taken
<1>1. PICK value \in Values : WriteSlot(p, value)
    BY DEF Write
<1>2. pc[p] = "write" /\ pc' = [pc EXCEPT ![p] = "idle"] /\ read_idx' = read_idx
      /\ filled' = filled + 1 /\ UNCHANGED taken
    BY <1>1, CountedProcess DEF IInv, Write, WriteSlot, Goto, history
<1>3. data' = [data EXCEPT ![writing[p]] = value]
  <2>1. clashed = {} /\ OtherWriters(p) = {}
    BY <1>2, WriterAlone DEF IInv, SlotsKnown
  <2>2. QED
    BY <1>1, <2>1 DEF WriteSlot
<1>4. /\ Popping' = Popping
      /\ {q \in Procs : pc'[q] = "read"} = {q \in Procs : pc[q] = "read"}
    BY <1>2 DEF Popping, IInv, TypeOK
<1>5. NextRead' = NextRead
    BY <1>2, <1>4, Zenon DEF NextRead
<1>6. /\ Length \in 0 .. MaxHeld /\ Length < MaxHeld /\ Length + 1 \in 1 .. Capacity
      /\ NextRead \in Slots /\ writing[p] = Place(NextRead, Length + 1)
      /\ Announced \in [1 .. Length -> Elements]
      /\ \A k \in 1 .. Length : Announced[k] = data[Place(NextRead, k)]
  <2>1. Length \in 0 .. MaxHeld /\ Length < MaxHeld
    BY <1>2, Window
  <2>2. QED
    BY <1>2, <2>1, Window, ConstantFacts
<1>7. Length' = Length + 1
  <2>1. filled \in Nat /\ Cardinality(Popping) \in Int
    <3>1. Cardinality(Popping) \in Nat
      BY ProcsAssumption, FS_Subset, FS_CardinalityType DEF Popping
    <3>2. QED
      BY <3>1 DEF IInv, TypeOK
  <2>2. QED
    BY <1>2, <1>4, <2>1 DEF Length
<1>8. Announced' = [k \in 1 .. Length + 1 |-> data'[Place(NextRead, k)]]
  <2>1. Announced' = [k \in 1 .. Length' |-> data'[(NextRead' + k - 1) % Capacity]]
    BY Zenon DEF Announced, Length
  <2>2. QED
    BY <1>5, <1>7, <2>1 DEF Place
<1>9. ASSUME NEW k \in 1 .. Length
      PROVE  data'[Place(NextRead, k)] = Announced[k]
  <2>1. k \in 1 .. Capacity /\ k # Length + 1
    BY <1>6, ConstantFacts
  <2>2. Place(NextRead, k) \in Slots /\ Place(NextRead, k) # Place(NextRead, Length + 1)
    BY <1>6, <2>1, PlaceFacts
  <2>3. QED
    BY <1>3, <1>6, <2>2 DEF IInv, TypeOK, RingTypeOK
<1>10. data'[Place(NextRead, Length + 1)] = value
  <2>1. Place(NextRead, Length + 1) \in Slots
    BY <1>6, PlaceFacts
  <2>2. QED
    BY <1>3, <1>6, <2>1 DEF IInv, TypeOK, RingTypeOK
<1>11. Announced' = Append(Announced, value) /\ Len(Announced) = Length
  <2>1. Length \in Nat /\ value \in Elements
    BY <1>6, ConstantFacts DEF Elements
  <2>2. ASSUME NEW k \in 1 .. Length + 1 PROVE data'[Place(NextRead, k)] \in Elements
    <3>1. CASE k = Length + 1
      BY <1>10, <2>1, <3>1
    <3>2. CASE k # Length + 1
      <4>1. k \in 1 .. Length
        BY <2>1, <3>2
      <4>2. QED
        BY <1>6, <1>9, <4>1
    <3>3. QED
      BY <3>1, <3>2
  <2>3. Announced' \in [1 .. Length + 1 -> Elements]
    BY <1>8, <2>2
  <2>4. /\ \A k \in 1 .. Length : Announced'[k] = Announced[k]
        /\ Announced'[Length + 1] = value
    BY <1>8, <1>9, <1>10, <2>1
  <2>5. QED
    BY <1>6, <2>1, <2>3, <2>4, WindowEnds
<1>12. QED
    BY <1>2, <1>6, <1>11

\* The copy out of the slot dequeues.
LEMMA ReadDequeues ==
    ASSUME IInv, SoleCounted, NEW p \in Procs, Read(p)
    PROVE  /\ Announced # <<>>
           /\ taken' = Head(Announced)
           /\ Announced' = Tail(Announced)
<1>1. PICK element \in Elements : ReadSlot(p, element) /\ taken' = element
    BY DEF Read
<1>2. pc[p] = "read" /\ pc' = [pc EXCEPT ![p] = "idle"] /\ read_idx' = read_idx
      /\ filled' = filled /\ data' = data
    BY <1>1 DEF Read, ReadSlot, Goto
<1>3. /\ Length \in 0 .. MaxHeld /\ Length > 0 /\ NextRead \in Slots
      /\ reading[p] = NextRead /\ Succ(NextRead) = read_idx
      /\ Announced \in [1 .. Length -> Elements]
      /\ \A k \in 1 .. Length : Announced[k] = data[Place(NextRead, k)]
  <2>1. Succ(reading[p]) = read_idx
    BY <1>2 DEF IInv, SlotsKnown
  <2>2. QED
    BY <1>2, <2>1, Window
<1>4. taken' = data[NextRead]
  <2>1. ASSUME NEW q \in Procs, writing[q] = NextRead PROVE FALSE
    <3>1. pc[q] = "write"
      BY <1>3, <2>1, ConstantFacts DEF IInv, InPlace
    <3>2. Length < MaxHeld /\ writing[q] = Place(NextRead, Length + 1)
      BY <3>1, Window
    <3>3. 1 \in 1 .. Capacity /\ Length + 1 \in 1 .. Capacity /\ 1 # Length + 1
      BY <1>3, <3>2, ConstantFacts
    <3>4. QED
      BY <1>3, <2>1, <3>2, <3>3, PlaceFacts
  <2>2. QED
    BY <1>1, <1>3, <2>1 DEF ReadSlot, Readable, BeingWritten
<1>5. Popping = {p} /\ Popping' = {}
      /\ {q \in Procs : pc'[q] = "read"} = {}
  <2>1. \A q \in Procs : q # p => pc[q] \notin {"cas_read", "read"}
    BY <1>2, CountedProcess DEF IInv
  <2>2. QED
    BY <1>2, <2>1 DEF Popping, IInv, TypeOK
<1>6. filled \in Nat /\ Length = filled + 1 /\ Length' = filled
  <2>1. Cardinality(Popping) = 1 /\ Cardinality(Popping') = 0
    BY <1>5, FS_Singleton, FS_EmptySet
  <2>2. Length' = filled' + Cardinality(Popping')
    BY DEF Length
  <2>3. filled \in Nat
    BY DEF IInv, TypeOK
  <2>4. QED
    BY <1>2, <2>1, <2>2, <2>3 DEF Length
<1>7. NextRead' = read_idx
  <2>1. Cardinality({q \in Procs : pc'[q] = "read"}) = 0
    BY <1>5, FS_EmptySet
  <2>2. NextRead' = (read_idx - 0) % Capacity
    BY <1>2, <2>1, Zenon DEF NextRead
  <2>3. read_idx \in 0 .. Capacity - 1 /\ Capacity \in Nat /\ Capacity > 1
    BY ConstantFacts DEF IInv, TypeOK, RingTypeOK, Slots
  <2>4. QED
    BY <2>2, <2>3
<1>8. Announced' = [k \in 1 .. Length - 1 |-> data[Place(read_idx, k)]]
  <2>1. Announced' = [k \in 1 .. Length' |-> data'[(NextRead' + k - 1) % Capacity]]
    BY Zenon DEF Announced, Length
  <2>2. Length' = Length - 1
    BY <1>6
  <2>3. QED
    BY <1>2, <1>7, <2>1, <2>2 DEF Place
<1>9. ASSUME NEW k \in 1 .. Length - 1
      PROVE  data[Place(read_idx, k)] = Announced[k + 1]
  <2>1. k \in 1 .. Capacity /\ k + 1 \in 1 .. Capacity /\ k + 1 \in 1 .. Length
    BY <1>3, ConstantFacts
  <2>2. /\ NextRead \in 0 .. Capacity - 1 /\ read_idx \in 0 .. Capacity - 1
        /\ read_idx = IF NextRead = Capacity - 1 THEN 0 ELSE NextRead + 1
        /\ Capacity \in Nat /\ Capacity > 1
    BY <1>3, SuccFacts, ConstantFacts DEF Slots
  <2>3. read_idx \in Slots
    BY <2>2 DEF Slots
  <2>4. PICK here \in 0 .. Capacity - 1, there \in 0 .. Capacity - 1 :
            /\ here = Place(read_idx, k)
            /\ here = read_idx + k - 1 \/ here = read_idx + k - 1 - Capacity
            /\ there = Place(NextRead, k + 1)
            /\ there = NextRead + (k + 1) - 1 \/ there = NextRead + (k + 1) - 1 - Capacity
    <3>1. /\ Place(read_idx, k) \in Slots
          /\ \/ Place(read_idx, k) = read_idx + k - 1
             \/ Place(read_idx, k) = read_idx + k - 1 - Capacity
      BY <2>1, <2>3, PlaceFacts
    <3>2. /\ Place(NextRead, k + 1) \in Slots
          /\ \/ Place(NextRead, k + 1) = NextRead + (k + 1) - 1
             \/ Place(NextRead, k + 1) = NextRead + (k + 1) - 1 - Capacity
      BY <1>3, <2>1, PlaceFacts
    <3>3. QED
      BY <3>1, <3>2 DEF Slots
  <2>5. here = there
    BY <2>1, <2>2, <2>4
  <2>6. QED
    BY <1>3, <2>1, <2>4, <2>5
<1>10. Announced # <<>> /\ Head(Announced) = Announced[1]
       /\ Tail(Announced) = [k \in 1 .. Length - 1 |-> Announced[k + 1]]
  <2>1. Length \in Nat /\ Length > 0
    BY <1>3
  <2>2. QED
    BY <1>3, <2>1, WindowEnds
<1>11. Announced[1] = data[NextRead]
  <2>1. 1 \in 1 .. Length /\ 1 \in 1 .. Capacity
    BY <1>3, ConstantFacts
  <2>2. QED
    BY <1>3, <2>1, PlaceFacts
<1>12. QED
    BY <1>4, <1>8, <1>9, <1>10, <1>11

\* Every step of one process on each side enqueues, dequeues, or leaves the queue alone.
LEMMA FifoStep ==
    ASSUME IInv, SoleCounted, [Next]_vars
    PROVE  \/ /\ Len(Announced) < MaxHeld
              /\ \E value \in Values : Announced' = Append(Announced, value)
              /\ UNCHANGED taken
           \/ /\ Announced # <<>>
              /\ taken' = Head(Announced)
              /\ Announced' = Tail(Announced)
           \/ Announced' = Announced /\ taken' = taken
<1> USE DEF history, tokens
<1>1. ASSUME data' = data, read_idx' = read_idx, filled' = filled, UNCHANGED taken,
             \A q \in Procs : /\ pc'[q] = "read" <=> pc[q] = "read"
                              /\ pc'[q] = "cas_read" <=> pc[q] = "cas_read"
      PROVE  Announced' = Announced /\ taken' = taken
  <2>1. /\ {q \in Procs : pc'[q] = "read"} = {q \in Procs : pc[q] = "read"}
        /\ Popping' = Popping
      BY <1>1 DEF Popping
  <2>2. NextRead' = NextRead /\ Length' = Length
      BY <1>1, <2>1, Zenon DEF NextRead, Length
  <2>3. QED
      BY <1>1, <2>2, AnnouncedKept
<1>2. CASE UNCHANGED vars
    BY <1>1, <1>2 DEF vars, ringVars
<1>3. ASSUME NEW p \in Procs, StartPop(p) \/ CasRead(p)
      PROVE  Announced' = Announced /\ taken' = taken
  <2>1. \A q \in Procs : pc[q] # "read"
    <3>1. CASE CasRead(p)
      BY <3>1, CountedProcess DEF IInv, CasRead, Goto
    <3>2. CASE StartPop(p)
      <4>1. ASSUME NEW q \in Procs, pc[q] = "read" PROVE FALSE
        <5>1. calls[p] = "pop" /\ calls[q] = "pop" /\ pc[p] = "idle"
          BY <3>2, <4>1, CountedProcess DEF IInv, StartPop, Goto
        <5>2. p = q
          BY <5>1 DEF SoleCounted, Sole, Callers
        <5>3. QED
          BY <4>1, <5>1, <5>2
      <4>2. QED
        BY <4>1
    <3>3. QED
      BY <1>3, <3>1, <3>2
  <2>2. NextRead = read_idx
    BY <2>1, Window
  <2>3. CASE StartPop(p)
    <3>1. \A q \in Procs : pc'[q] # "read"
      BY <2>1, <2>3 DEF StartPop, Goto, IInv, TypeOK
    <3>2. {q \in Procs : pc'[q] = "read"} = {q \in Procs : pc[q] = "read"}
      BY <2>1, <3>1
    <3>3. /\ read_idx' = read_idx /\ data' = data /\ UNCHANGED taken
          /\ filled' = filled - 1
      BY <2>3 DEF StartPop, ringVars
    <3>4. NextRead' = NextRead
      BY <3>2, <3>3, Zenon DEF NextRead
    <3>5. Popping = {} /\ Popping' = {p}
      <4>1. ASSUME NEW q \in Procs, pc[q] \in {"cas_read", "read"} PROVE FALSE
        <5>1. calls[p] = "pop" /\ calls[q] = "pop" /\ pc[p] = "idle"
          BY <2>3, <4>1, CountedProcess DEF IInv, StartPop, Goto
        <5>2. p = q
          BY <5>1 DEF SoleCounted, Sole, Callers
        <5>3. QED
          BY <4>1, <5>1, <5>2
      <4>2. Popping = {}
        BY <4>1 DEF Popping
      <4>3. Popping' = {p}
        BY <2>3, <4>1 DEF Popping, StartPop, Goto, IInv, TypeOK
      <4>4. QED
        BY <4>2, <4>3
    <3>6. Length' = Length
      <4>1. Cardinality(Popping) = 0 /\ Cardinality(Popping') = 1
        BY <3>5, FS_Singleton, FS_EmptySet
      <4>2. Length' = filled' + Cardinality(Popping') /\ filled \in Nat
        BY DEF Length, IInv, TypeOK
      <4>3. QED
        BY <3>3, <4>1, <4>2 DEF Length
    <3>7. QED
      BY <3>3, <3>4, <3>6, AnnouncedKept
  <2>4. CASE CasRead(p)
    <3>1. /\ read_idx' = Succ(read_idx) /\ data' = data /\ UNCHANGED taken
          /\ filled' = filled /\ pc[p] = "cas_read" /\ pc' = [pc EXCEPT ![p] = "read"]
      BY <2>4 DEF CasRead, ReserveRead, Goto
    <3>2. Popping' = Popping /\ {q \in Procs : pc'[q] = "read"} = {p}
      BY <2>1, <3>1 DEF Popping, IInv, TypeOK
    <3>3. Length' = Length
      BY <3>1, <3>2, Zenon DEF Length
    <3>4. NextRead' = read_idx
      <4>1. Cardinality({q \in Procs : pc'[q] = "read"}) = 1
        BY <3>2, FS_Singleton
      <4>2. NextRead' = (read_idx' - 1) % Capacity
        BY <4>1, Zenon DEF NextRead
      <4>3. /\ Capacity \in Nat /\ Capacity > 1 /\ read_idx \in 0 .. Capacity - 1
            /\ read_idx' = IF read_idx = Capacity - 1 THEN 0 ELSE read_idx + 1
        BY <3>1, SuccFacts, ConstantFacts DEF IInv, TypeOK, RingTypeOK, Slots
      <4>4. CASE read_idx = Capacity - 1
        <5>1. (0 - 1) % Capacity = Capacity - 1
          BY <4>3
        <5>2. QED
          BY <4>2, <4>3, <4>4, <5>1
      <4>5. CASE read_idx # Capacity - 1
        <5>1. read_idx' - 1 = read_idx /\ read_idx % Capacity = read_idx
          BY <4>3, <4>5
        <5>2. QED
          BY <4>2, <5>1
      <4>6. QED
        BY <4>4, <4>5
    <3>5. QED
      BY <2>2, <3>1, <3>3, <3>4, AnnouncedKept
  <2>5. QED
    BY <1>3, <2>3, <2>4
<1>4. ASSUME NEW p \in Procs, Step(p), ~ Write(p), ~ Read(p), ~ StartPop(p), ~ CasRead(p)
      PROVE  Announced' = Announced /\ taken' = taken
  <2>1. /\ data' = data /\ read_idx' = read_idx /\ filled' = filled /\ UNCHANGED taken
    BY <1>4, CountedProcess DEF IInv, Step, StartTryPush, CheckFull, StartPush, CasWrite,
           CasWriteFails, ReserveWrite, StartTryPop, CheckEmpty, CasReadFails, ringVars
  <2>2. ~ StartTryPop(p) /\ ~ CheckEmpty(p) /\ ~ StartTryPush(p) /\ ~ CheckFull(p)
    BY CountedProcess DEF IInv, SoleCounted, Counted, StartTryPop, StartTryPush,
                          CheckEmpty, CheckFull, Goto
  <2>3. CASE StartPush(p) \/ CasWrite(p) \/ CasWriteFails(p)
    BY <1>1, <2>1, <2>3 DEF StartPush, CasWrite, CasWriteFails, Goto, IInv, TypeOK
  <2>4. CASE CasReadFails(p)
    <3>1. calls[p] = "pop"
      BY <2>4, CountedProcess DEF IInv, CasReadFails, Goto
    <3>2. pc' = pc
      BY <2>4, <3>1 DEF CasReadFails, Goto, IInv, TypeOK
    <3>3. QED
      BY <1>1, <2>1, <3>2
  <2>5. QED
    BY <1>4, <2>2, <2>3, <2>4 DEF Step
<1>5. QED
    BY <1>2, <1>3, <1>4, WriteEnqueues, ReadDequeues DEF Next

-----------------------------------------------------------------------------
(* The theorems *)

\* An empty ring, MaxHeld free slots and idle processes satisfy the accounts.
LEMMA InitAccounts == Init => SoleAccount /\ CountedAccount /\ SlotsKnown
<1> SUFFICES ASSUME Init PROVE SoleAccount /\ CountedAccount /\ SlotsKnown
    OBVIOUS
<1>1. ASSUME NEW steps, "idle" \notin steps PROVE CountAt(steps) = 0
  <2>1. {p \in Procs : pc[p] \in steps} = {}
    BY <1>1 DEF Init
  <2>2. QED
    BY <2>1, FS_EmptySet DEF CountAt
<1>2. /\ CountAt({"cas_write"}) = 0 /\ CountAt({"write"}) = 0
      /\ CountAt({"cas_read"}) = 0 /\ CountAt({"read"}) = 0
    BY <1>1
<1>3. Aligned
    BY ConstantFacts, LinearAligned DEF Init, RingInit, Aligned
<1>4. SoleAccount
    BY <1>3, ConstantFacts DEF Init, SoleAccount
<1>5. CountedAccount
    BY <1>2, <1>3, ConstantFacts DEF Init, CountedAccount
<1>6. SlotsKnown
    BY DEF Init, RingInit, SlotsKnown
<1>7. QED
    BY <1>4, <1>5, <1>6

\* Types, control, both accounts and the slots in use are inductive together.
THEOREM Invariance == Spec => []IInv
<1>1. Init => IInv
    BY InitInPlace, InitAccounts DEF IInv
<1>2. IInv /\ [Next]_vars => IInv'
    BY InPlaceStep, SoleAccountStep, CountedAccountStep, SlotsKnownStep DEF IInv
<1>3. QED
    BY <1>1, <1>2, PTL DEF Spec

\* Every variable keeps the type the class gives it.
THEOREM TypeCorrect == Spec => []TypeOK
<1>1. IInv => TypeOK
    BY DEF IInv
<1>2. QED
    BY <1>1, Invariance, PTL

\* One process that tries to push and one that tries to pop never overrun or
\* underrun the ring, whatever the capacity and however they interleave.
THEOREM SoleOccupancyHolds == Spec => []SoleOccupancy
<1>1. IInv => SoleOccupancy
    BY LooksLinear DEF IInv, SoleAccount, SoleOccupancy
<1>2. QED
    BY <1>1, Invariance, PTL

\* Any number of processes that push and pop on at most Capacity counted slots
\* keep the indices as far apart as there are elements.
THEOREM CountedOccupancyHolds == Spec => []CountedOccupancy
<1>1. IInv => CountedOccupancy
  <2> SUFFICES ASSUME IInv, Counted PROVE held \in 0 .. MaxHeld /\ Aligned
    BY DEF CountedOccupancy
  <2>1. ASSUME NEW steps PROVE CountAt(steps) \in Nat
    BY ProcsAssumption, FS_Subset, FS_CardinalityType DEF CountAt
  <2>2. /\ CountAt({"cas_write"}) \in Nat /\ CountAt({"write"}) \in Nat
        /\ CountAt({"cas_read"}) \in Nat /\ CountAt({"read"}) \in Nat
    BY <2>1
  <2>3. QED
    BY <2>2, ConstantFacts DEF IInv, CountedAccount, TypeOK
<1>2. QED
    BY <1>1, Invariance, PTL

\* One process that pushes and one that pops on counted slots see a queue that holds at
\* most as many elements as slots were handed out, for every capacity.
THEOREM FifoRefinement == Spec => ImplementsFifo
<1> DEFINE q == IF SoleCounted THEN Announced ELSE <<>>
           t == IF SoleCounted THEN taken ELSE Blank
<1>1. Init => Queue!FifoInit
  <2> SUFFICES ASSUME Init PROVE q = <<>> /\ t = Blank
    BY DEF Queue!FifoInit
  <2>1. Popping = {} /\ filled = 0 /\ taken = Blank
    BY DEF Init, Popping
  <2>2. filled + Cardinality(Popping) = 0
    BY <2>1, FS_EmptySet
  <2>3. Announced = <<>>
    BY <2>2 DEF Announced
  <2>4. QED
    BY <2>1, <2>3
<1>2. IInv /\ [Next]_vars => [Queue!Enqueue \/ Queue!Dequeue]_<<q, t>>
  <2> SUFFICES ASSUME IInv, [Next]_vars
               PROVE  Queue!Enqueue \/ Queue!Dequeue \/ (q' = q /\ t' = t)
    OBVIOUS
  <2>1. CASE ~ SoleCounted
    <3>1. ~ SoleCounted'
      BY <2>1, CallsKept
    <3>2. QED
      BY <2>1, <3>1
  <2>2. CASE SoleCounted
    <3>1. SoleCounted'
      BY <2>2, CallsKept
    <3>2. q = Announced /\ q' = Announced' /\ t = taken /\ t' = taken'
      BY <2>2, <3>1
    <3>3. \/ /\ Len(q) < MaxHeld
             /\ \E value \in Values : q' = Append(q, value)
             /\ t' = t
          \/ q # <<>> /\ t' = Head(q) /\ q' = Tail(q)
          \/ q' = q /\ t' = t
      BY <2>2, <3>2, FifoStep
    <3>4. QED
      BY <3>3, Zenon DEF Queue!Enqueue, Queue!Dequeue
  <2>3. QED
    BY <2>1, <2>2
<1>3. QED
    BY <1>1, <1>2, Invariance, PTL DEF Spec, ImplementsFifo, Queue!FifoSpec
=============================================================================
