-------------------------- MODULE AsyncLoggerProofs --------------------------
(***************************************************************************)
(* Proofs about AsyncLogger with one writer, for every capacity, every set *)
(* of sizes that fit, and every number of messages and failures.           *)
(***************************************************************************)
EXTENDS AsyncLogger, SequenceTheorems, FiniteSetTheorems, TLAPS

\* The constants are natural numbers, a message is longer than its head and fits.
LEMMA LoggerFacts ==
    /\ Capacity \in Nat /\ Capacity > 0 /\ LengthSize \in Nat /\ LengthSize > 0
    /\ HeadSize \in Nat /\ HeadSize > 0 /\ MessageCount \in Nat /\ MaxFaults \in Nat
    /\ \A size \in MessageSizes : size \in Nat /\ size > 1 /\ LengthSize + size < Capacity
    /\ Main \notin Writers /\ Main \in Threads /\ Writers \subseteq Threads
BY LoggerAssumption DEF LoggerAssumption, Threads

-----------------------------------------------------------------------------
(* Positions in the ring *)

\* A position is a number of whole rounds and a slot.
LEMMA WrapFacts ==
    ASSUME NEW a \in Int
    PROVE  /\ Ring!Wrap(a) \in Ring!Slots /\ Ring!Wrap(a) \in Nat
           /\ a \div Capacity \in Int
           /\ a = Capacity * (a \div Capacity) + Ring!Wrap(a)
           /\ a \in Ring!Slots => Ring!Wrap(a) = a
BY LoggerFacts DEF Ring!Wrap, Ring!Slots

\* And only one.
LEMMA WrapUnique ==
    ASSUME NEW q \in Int, NEW r \in Ring!Slots, NEW a \in Int, a = Capacity * q + r
    PROVE  Ring!Wrap(a) = r
BY LoggerFacts DEF Ring!Wrap, Ring!Slots

\* Wrapping before an addition makes no difference.
LEMMA WrapAdd ==
    ASSUME NEW a \in Int, NEW b \in Int
    PROVE  Ring!Wrap(Ring!Wrap(a) + b) = Ring!Wrap(a + b)
<1> DEFINE u == a \div Capacity
           v == (a + b) \div Capacity
<1>1. a = Capacity * u + Ring!Wrap(a) /\ u \in Int /\ Ring!Wrap(a) \in Nat
    BY WrapFacts
<1>2. a + b \in Int
    OBVIOUS
<1>3. /\ a + b = Capacity * v + Ring!Wrap(a + b) /\ v \in Int
      /\ Ring!Wrap(a + b) \in Ring!Slots /\ Ring!Wrap(a + b) \in Nat
    BY <1>2, WrapFacts
<1> HIDE DEF u, v
<1>4. Ring!Wrap(a) + b = Capacity * (v - u) + Ring!Wrap(a + b)
    BY <1>1, <1>3, LoggerFacts
<1>5. v - u \in Int /\ Ring!Wrap(a) + b \in Int
    BY <1>1, <1>3
<1>6. QED
    BY <1>3, <1>4, <1>5, WrapUnique

\* The distance of two positions can be told from their slots if it is short of a round.
LEMMA WrapDistance ==
    ASSUME NEW a \in Int, NEW b \in Int
    PROVE  /\ a - b \in Ring!Slots => Ring!Wrap(Ring!Wrap(a) - Ring!Wrap(b)) = a - b
           /\ b - a \in 1 .. Capacity
                => Ring!Wrap(Ring!Wrap(a) - Ring!Wrap(b)) = a - b + Capacity
<1> DEFINE u == a \div Capacity
           v == b \div Capacity
<1>1. /\ a = Capacity * u + Ring!Wrap(a) /\ u \in Int /\ Ring!Wrap(a) \in Nat
      /\ b = Capacity * v + Ring!Wrap(b) /\ v \in Int /\ Ring!Wrap(b) \in Nat
    BY WrapFacts
<1> HIDE DEF u, v
<1>2. /\ Ring!Wrap(a) - Ring!Wrap(b) = Capacity * (v - u) + (a - b)
      /\ Ring!Wrap(a) - Ring!Wrap(b) = Capacity * (v - u - 1) + (a - b + Capacity)
    BY <1>1, LoggerFacts
<1>3. CASE a - b \in Ring!Slots
  <2>1. Ring!Wrap(Ring!Wrap(a) - Ring!Wrap(b)) = a - b
    BY <1>1, <1>2, <1>3, WrapUnique
  <2>2. QED
    BY <2>1, <1>3, LoggerFacts DEF Ring!Slots
<1>4. CASE b - a \in 1 .. Capacity
  <2>1. a - b + Capacity \in Ring!Slots
    BY <1>4, LoggerFacts DEF Ring!Slots
  <2>2. v - u - 1 \in Int /\ Ring!Wrap(a) - Ring!Wrap(b) \in Int
    BY <1>1
  <2>3. Ring!Wrap(Ring!Wrap(a) - Ring!Wrap(b)) = a - b + Capacity
    BY <1>2, <2>1, <2>2, WrapUnique
  <2>4. QED
    BY <2>3, <1>4, LoggerFacts DEF Ring!Slots
<1>5. QED
    BY <1>3, <1>4

\* A copy to position q puts its units there and leaves what is up to a round behind its end.
LEMMA CopyPlaces ==
    ASSUME NEW q \in Nat, NEW n \in 0 .. Capacity, NEW units, Len(units) = n,
           Ring!CopyTo(Ring!Wrap(q), units)
    PROVE  /\ \A k \in 1 .. n : cells'[Ring!Wrap(q + k - 1)] = units[k]
           /\ \A r \in Nat : r < q /\ q + n <= r + Capacity
                                => cells'[Ring!Wrap(r)] = cells[Ring!Wrap(r)]
<1> USE LoggerFacts
<1>1. ASSUME NEW k \in 1 .. n
      PROVE  cells'[Ring!Wrap(q + k - 1)] = units[k]
  <2>0. q + k - 1 \in Int
    OBVIOUS
  <2>1. Ring!Wrap(q + k - 1) \in Ring!Slots
    BY <2>0, WrapFacts
  <2>2. Ring!Wrap(Ring!Wrap(q + k - 1) - Ring!Wrap(q)) = k - 1
    <3>1. (q + k - 1) - q = k - 1 /\ k - 1 \in Ring!Slots
      BY DEF Ring!Slots
    <3>2. QED
      BY <2>0, <3>1, WrapDistance
  <2>3. Ring!Wrap(q + k - 1) \in Ring!Region(Ring!Wrap(q), Len(units))
    BY <2>1, <2>2 DEF Ring!Region
  <2>4. k - 1 + 1 = k
    OBVIOUS
  <2>5. QED
    BY <2>1, <2>2, <2>3, <2>4 DEF Ring!CopyTo
<1>2. ASSUME NEW r \in Nat, r < q, q + n <= r + Capacity
      PROVE  cells'[Ring!Wrap(r)] = cells[Ring!Wrap(r)]
  <2>1. CASE q - r \in 1 .. Capacity
    <3>1. Ring!Wrap(Ring!Wrap(r) - Ring!Wrap(q)) = r - q + Capacity
      BY <2>1, WrapDistance
    <3>2. Ring!Wrap(r) \in Ring!Slots /\ Ring!Wrap(r) \notin Ring!Region(Ring!Wrap(q), Len(units))
      BY <3>1, <1>2, WrapFacts DEF Ring!Region
    <3>3. QED
      BY <3>2 DEF Ring!CopyTo
  <2>2. q - r \in 1 .. Capacity
    BY <1>2
  <2>3. QED
    BY <2>1, <2>2
<1>3. QED
    BY <1>1, <1>2

-----------------------------------------------------------------------------
(* Types *)

\* A function on 1 .. n is a sequence of length n.
LEMMA IsSequence ==
    ASSUME NEW S, NEW n \in Nat, NEW f \in [1 .. n -> S]
    PROVE  f \in Seq(S) /\ Len(f) = n
<1>1. f \in Seq(S)
    BY SeqDef
<1>2. Len(f) \in Nat /\ DOMAIN f = 1 .. Len(f)
    BY <1>1, LenProperties
<1>3. 1 .. n = 1 .. Len(f)
    BY <1>2
<1>4. Len(f) = n
  <2>1. n <= Len(f)
    BY <1>2, <1>3
  <2>2. Len(f) <= n
    BY <1>2, <1>3
  <2>3. QED
    BY <1>2, <2>1, <2>2
<1>5. QED
    BY <1>1, <1>4

\* The body of a message that is logged.
LEMMA MessageFacts ==
    ASSUME sizes \in Seq(MessageSizes), NEW m \in 1 .. Len(sizes)
    PROVE  /\ sizes[m] \in Nat /\ sizes[m] > 1 /\ LengthSize + sizes[m] < Capacity
           /\ Message(m) \in Seq(Ring!Units) /\ Len(Message(m)) = sizes[m]
           /\ \A k \in 1 .. sizes[m] : Message(m)[k] = [id |-> m, part |-> k]
<1>1. sizes[m] \in MessageSizes /\ m \in Nat
    BY ElementOfSeq, LenProperties
<1>2. sizes[m] \in Nat /\ sizes[m] > 1 /\ LengthSize + sizes[m] < Capacity
    BY <1>1, LoggerFacts
<1>3. ASSUME NEW k \in 1 .. sizes[m] PROVE [id |-> m, part |-> k] \in Ring!Units
    BY <1>1, <1>2, LoggerFacts DEF Ring!Units, Ring!BodyCells
<1>4. Message(m) \in [1 .. sizes[m] -> Ring!Units]
    BY <1>3 DEF Message
<1>5. Message(m) \in Seq(Ring!Units) /\ Len(Message(m)) = sizes[m]
    BY <1>2, <1>4, IsSequence
<1>6. QED
    BY <1>2, <1>5 DEF Message

\* What is copied in or out is a sequence of units.
LEMMA PrefixFacts ==
    ASSUME NEW size \in Nat
    PROVE  /\ Ring!Prefix(size) \in Seq(Ring!Units) /\ Len(Ring!Prefix(size)) = LengthSize
           /\ \A k \in 1 .. LengthSize : Ring!Prefix(size)[k] = [length |-> size, part |-> k]
<1>1. Ring!Prefix(size) \in [1 .. LengthSize -> Ring!Units]
    BY LoggerFacts DEF Ring!Prefix, Ring!Units, Ring!LengthCells
<1>2. Ring!Prefix(size) \in Seq(Ring!Units) /\ Len(Ring!Prefix(size)) = LengthSize
    BY <1>1, LoggerFacts, IsSequence
<1>3. QED
    BY <1>2 DEF Ring!Prefix

\* What try_pop copies out of the ring, unit by unit.
LEMMA CopiedFacts ==
    ASSUME cells \in [Ring!Slots -> Ring!Units], NEW i \in Nat, NEW n \in Nat
    PROVE  /\ Ring!Copied(i, n) \in Seq(Ring!Units) /\ Len(Ring!Copied(i, n)) = n
           /\ \A k \in 1 .. n : Ring!Copied(i, n)[k] = cells[Ring!Wrap(i + k - 1)]
<1>1. ASSUME NEW k \in 1 .. n PROVE cells[Ring!Wrap(i + k - 1)] \in Ring!Units
  <2>1. i + k - 1 \in Int
    OBVIOUS
  <2>2. QED
    BY <2>1, WrapFacts
<1>2. Ring!Copied(i, n) \in [1 .. n -> Ring!Units]
    BY <1>1 DEF Ring!Copied
<1>3. Ring!Copied(i, n) \in Seq(Ring!Units) /\ Len(Ring!Copied(i, n)) = n
    BY <1>2, IsSequence
<1>4. QED
    BY <1>3 DEF Ring!Copied

\* Copying units into the ring keeps it one of units.
LEMMA CopyType ==
    ASSUME cells \in [Ring!Slots -> Ring!Units], NEW i \in Nat, NEW units \in Seq(Ring!Units),
           Ring!CopyTo(i, units)
    PROVE  cells' \in [Ring!Slots -> Ring!Units]
<1>1. ASSUME NEW s \in Ring!Slots, s \in Ring!Region(i, Len(units))
      PROVE  units[Ring!Wrap(s - i) + 1] \in Ring!Units
  <2>1. s - i \in Int
    BY LoggerFacts DEF Ring!Slots
  <2>2. Ring!Wrap(s - i) \in Nat /\ Ring!Wrap(s - i) < Len(units) /\ Len(units) \in Nat
    BY <2>1, <1>1, WrapFacts, LenProperties DEF Ring!Region
  <2>3. Ring!Wrap(s - i) + 1 \in 1 .. Len(units)
    BY <2>2
  <2>4. QED
    BY <2>3, ElementOfSeq
<1>2. QED
    BY <1>1 DEF Ring!CopyTo

\* A text copied to the beginning of a memory.
LEMMA OverwriteFacts ==
    ASSUME NEW memory \in Seq(Ring!Units), NEW text \in Seq(Ring!Units)
    PROVE  /\ Overwrite(memory, text) \in Seq(Ring!Units)
           /\ Len(Overwrite(memory, text)) =
                 IF Len(text) < Len(memory) THEN Len(memory) ELSE Len(text)
           /\ SubSeq(Overwrite(memory, text), 1, Len(text)) = text
<1> DEFINE rest == SubSeq(memory, Len(text) + 1, Len(memory))
<1>1. /\ Len(text) \in Nat /\ Len(memory) \in Nat
      /\ Len(text) + 1 \in Int /\ Len(memory) \in Int
    BY LenProperties
<1>2. \A i \in Len(text) + 1 .. Len(memory) : memory[i] \in Ring!Units
    BY <1>1, ElementOfSeq
<1>3. /\ rest \in Seq(Ring!Units)
      /\ Len(rest) = IF Len(text) + 1 <= Len(memory) THEN Len(memory) - Len(text) ELSE 0
    BY <1>1, <1>2, SubSeqProperties
<1> HIDE DEF rest
<1>4. /\ text \o rest \in Seq(Ring!Units) /\ Len(text \o rest) = Len(text) + Len(rest)
      /\ \A i \in 1 .. Len(text) + Len(rest) :
            (text \o rest)[i] = IF i <= Len(text) THEN text[i] ELSE rest[i - Len(text)]
    BY <1>3, ConcatProperties
<1>5. SubSeq(text \o rest, 1, Len(text)) = text
  <2>1. \A i \in 1 .. Len(text) : (text \o rest)[i] \in Ring!Units
    BY <1>1, <1>3, <1>4, ElementOfSeq
  <2>2. /\ SubSeq(text \o rest, 1, Len(text)) \in Seq(Ring!Units)
        /\ Len(SubSeq(text \o rest, 1, Len(text))) = Len(text)
        /\ \A i \in 1 .. Len(text) : SubSeq(text \o rest, 1, Len(text))[i] = (text \o rest)[i]
    BY <1>1, <2>1, SubSeqProperties
  <2>3. \A i \in 1 .. Len(text) : SubSeq(text \o rest, 1, Len(text))[i] = text[i]
    BY <1>1, <1>3, <1>4, <2>2
  <2>4. QED
    BY <2>2, <2>3, SeqEqual
<1>6. Overwrite(memory, text) = text \o rest
    BY DEF Overwrite, rest
<1>7. QED
    BY <1>1, <1>3, <1>4, <1>5, <1>6

\* Labels of the main thread, labels of a writer.
LEMMA GotoType ==
    ASSUME TypeOK, NEW p \in Threads, NEW from, NEW to, Goto(p, from, to),
           IF p = Main THEN to \in MainLabels ELSE to \in WriterLabels
    PROVE  /\ pc' \in [Threads -> MainLabels \cup WriterLabels]
           /\ pc'[Main] \in MainLabels /\ \A w \in Writers : pc'[w] \in WriterLabels
<1>1. p \in Writers \/ p = Main
    BY DEF Threads
<1>2. QED
    BY <1>1, LoggerFacts DEF Goto, TypeOK

\* The operations of the semaphore keep its type.
LEMMA SemType ==
    ASSUME Bytes!SemTypeOK, NEW n \in Nat
    PROVE  /\ Bytes!Notify(FreeBytes, n) => Bytes!SemTypeOK'
           /\ Bytes!WaitFor(FreeBytes, n) => Bytes!SemTypeOK'
           /\ Bytes!WaitForAll(FreeBytes) => Bytes!SemTypeOK'
           /\ Bytes!CallFails => Bytes!SemTypeOK'
           /\ Bytes!Remove => Bytes!SemTypeOK'
<1> USE LoggerFacts DEF Bytes!SemTypeOK, Semaphores, FreeBytes
<1>1. ASSUME Bytes!Notify(FreeBytes, n) PROVE Bytes!SemTypeOK'
    BY <1>1 DEF Bytes!Notify, Bytes!IncreaseValue
<1>2. ASSUME Bytes!WaitFor(FreeBytes, n) PROVE Bytes!SemTypeOK'
    BY <1>2 DEF Bytes!WaitFor, Bytes!DecreaseValue
<1>3. ASSUME Bytes!WaitForAll(FreeBytes) PROVE Bytes!SemTypeOK'
    BY <1>3 DEF Bytes!WaitForAll, Bytes!DecreaseValue, GroupSize
<1>4. ASSUME Bytes!CallFails PROVE Bytes!SemTypeOK'
    BY <1>4 DEF Bytes!CallFails
<1>5. ASSUME Bytes!Remove PROVE Bytes!SemTypeOK'
    BY <1>5 DEF Bytes!Remove
<1>6. QED
    BY <1>1, <1>2, <1>3, <1>4, <1>5

\* TypeOK in the parts that the steps change.
CountsType == stop_flag \in BOOLEAN /\ pushed_count \in Nat /\ pop_count \in Nat
HistoryType ==
    /\ sizes \in Seq(MessageSizes) /\ Len(sizes) <= MessageCount
    /\ starts \in Seq(Nat) /\ starts # <<>>
    /\ printed \in Seq(Seq(Ring!Units)) /\ leaked \in Nat /\ waited \in BOOLEAN
ControlType ==
    /\ pc \in [Threads -> MainLabels \cup WriterLabels]
    /\ pc[Main] \in MainLabels /\ \A w \in Writers : pc[w] \in WriterLabels
BufferType == buffer \in [Writers -> Seq(Ring!Units)]

\* The type invariant by what its parts are about, before and after a step.
LEMMA TypeParts ==
    /\ TypeOK <=> /\ ControlType /\ Ring!MessageRingTypeOK /\ Written!NotifierTypeOK
                  /\ Bytes!SemTypeOK /\ CountsType /\ BufferType /\ HistoryType
    /\ TypeOK' <=> /\ ControlType' /\ Ring!MessageRingTypeOK' /\ Written!NotifierTypeOK'
                   /\ Bytes!SemTypeOK' /\ CountsType' /\ BufferType' /\ HistoryType'
BY DEF TypeOK, ControlType, CountsType, BufferType, HistoryType

\* What a step leaves alone keeps its type.
LEMMA Unchanged ==
    /\ Ring!MessageRingTypeOK /\ UNCHANGED ringVars => Ring!MessageRingTypeOK'
    /\ Written!NotifierTypeOK /\ UNCHANGED writtenVars => Written!NotifierTypeOK'
    /\ Bytes!SemTypeOK /\ UNCHANGED semVars => Bytes!SemTypeOK'
    /\ CountsType /\ UNCHANGED <<stop_flag, counts>> => CountsType'
    /\ BufferType /\ UNCHANGED buffer => BufferType'
    /\ HistoryType /\ UNCHANGED history => HistoryType'
BY DEF ringVars, writtenVars, semVars, counts, history, Ring!MessageRingTypeOK,
       Written!NotifierTypeOK, Bytes!SemTypeOK, CountsType, BufferType, HistoryType

\* The memory that main's message and a writer's need is a number.
LEMMA RequiredType == TypeOK => \A p \in Threads : Ring!Required(length[p]) \in Nat
BY LoggerFacts DEF TypeOK, Ring!MessageRingTypeOK, Ring!Required

\* Steps of log and of the end of the logger keep the types.
LEMMA MainType ==
    ASSUME TypeOK, MainInPlace, LogStep \/ EndStep
    PROVE  TypeOK'
<1> USE LoggerFacts
<1>0. /\ ControlType /\ Ring!MessageRingTypeOK /\ Written!NotifierTypeOK
      /\ Bytes!SemTypeOK /\ CountsType /\ BufferType /\ HistoryType
      /\ Ring!Required(length[Main]) \in Nat /\ length[Main] \in Nat
    BY TypeParts, RequiredType DEF Ring!MessageRingTypeOK
<1>1. ControlType'
  <2>1. \E from, to : Goto(Main, from, to) /\ to \in MainLabels
    BY DEF LogStep, EndStep, Log, WaitForBytes, WaitForBytesFails, PushLoad, PushCheck,
       PushRefused, PushExchange, PushLength, PushBody, NotifyWritten, WaitTillAllPopped,
       AllPopped, WaitTillAllPoppedFails, Destroy, Stop, NotifyWriters, Join,
       RemoveSemaphores, RemoveSemaphoresFails, MainLabels
  <2>2. QED
    BY <2>1, GotoType DEF ControlType
<1>2. CASE \/ WaitForBytes \/ WaitForBytesFails \/ WaitTillAllPoppedFails
           \/ RemoveSemaphores \/ RemoveSemaphoresFails
  <2>1. Bytes!SemTypeOK'
    BY <1>0, <1>2, SemType
       DEF WaitForBytes, WaitForBytesFails, WaitTillAllPoppedFails, RemoveSemaphores,
           RemoveSemaphoresFails
  <2>2. OnlySem
    BY <1>2 DEF WaitForBytes, WaitForBytesFails, WaitTillAllPoppedFails, RemoveSemaphores,
           RemoveSemaphoresFails
  <2>3. QED
    BY <1>0, <1>1, <2>1, <2>2, TypeParts, Unchanged DEF OnlySem
<1>3. CASE PushCheck \/ WaitTillAllPopped \/ Destroy \/ Join
  <2>1. OnlyControl
    BY <1>3 DEF PushCheck, WaitTillAllPopped, Destroy, Join
  <2>2. QED
    BY <1>0, <1>1, <2>1, TypeParts, Unchanged DEF OnlyControl
<1>4. CASE Log
  <2>1. HistoryType'
    <3>1. PICK size \in MessageSizes : sizes' = Append(sizes, size)
      BY <1>4 DEF Log
    <3>2. /\ sizes' \in Seq(MessageSizes) /\ Len(sizes') = Len(sizes) + 1 /\ Len(sizes) \in Nat
          /\ Len(sizes) < MessageCount
      BY <1>0, <1>4, <3>1, AppendProperties, LenProperties DEF HistoryType, Log, Current
    <3>3. QED
      BY <1>0, <1>4, <3>2 DEF HistoryType, Log
  <2>2. Ring!MessageRingTypeOK'
    BY <1>0, <1>4 DEF Log, Ring!MessageRingTypeOK
  <2>3. QED
    BY <1>0, <1>1, <1>4, <2>1, <2>2, TypeParts, Unchanged DEF Log
<1>5. CASE PushRefused \/ AllPopped
  <2>1. Bytes!SemTypeOK'
    BY <1>0, <1>5, SemType, Unchanged DEF PushRefused, AllPopped
  <2>2. HistoryType'
    <3>1. CASE PushRefused
      BY <1>0, <3>1 DEF PushRefused, HistoryType
    <3>2. CASE AllPopped
      BY <1>0, <3>2 DEF AllPopped, HistoryType
    <3>3. QED
      BY <1>5, <3>1, <3>2
  <2>3. UNCHANGED <<ringVars, writtenVars, stop_flag, counts, buffer>>
    BY <1>5 DEF PushRefused, AllPopped
  <2>4. QED
    BY <1>0, <1>1, <2>1, <2>2, <2>3, TypeParts, Unchanged
<1>6. CASE PushLoad \/ PushLength \/ PushBody
  <2>1. OnlyRing
    BY <1>6 DEF PushLoad, PushLength, PushBody
  <2>2. loaded[Main] \in Ring!Slots /\ loaded[Main] \in Nat /\ loaded[Main] + LengthSize \in Int
    BY <1>0 DEF Ring!MessageRingTypeOK, Ring!Slots
  <2>3. ASSUME PushLength \/ PushBody PROVE cells' \in [Ring!Slots -> Ring!Units]
    <3>1. CASE PushLength
      BY <1>0, <2>2, <3>1, PrefixFacts, CopyType
         DEF PushLength, Ring!WriteLength, Ring!MessageRingTypeOK
    <3>2. CASE PushBody
      <4>1. Current \in 1 .. Len(sizes)
        BY <1>0, <3>2, LenProperties
           DEF PushBody, Goto, MainInPlace, Writing, Current, CountsType, HistoryType, Pushed
      <4>2. Message(Current) \in Seq(Ring!Units)
        BY <1>0, <4>1, MessageFacts DEF HistoryType
      <4>3. Ring!Wrap(loaded[Main] + LengthSize) \in Nat
        BY <2>2, WrapFacts
      <4>4. QED
        BY <1>0, <3>2, <4>2, <4>3, CopyType DEF PushBody, Ring!WriteBody, Ring!MessageRingTypeOK
    <3>3. QED
      BY <2>3, <3>1, <3>2
  <2>4. Ring!MessageRingTypeOK'
    BY <1>0, <1>6, <2>3
       DEF PushLoad, PushLength, PushBody, Ring!LoadWriteIdx, Ring!WriteLength, Ring!WriteBody,
           Ring!MessageRingTypeOK
  <2>5. QED
    BY <1>0, <1>1, <2>1, <2>4, TypeParts, Unchanged DEF OnlyRing
<1>7. CASE PushExchange
  <2>1. loaded[Main] + Ring!Required(length[Main]) \in Int
    BY <1>0 DEF Ring!MessageRingTypeOK, Ring!Slots
  <2>2. Ring!MessageRingTypeOK'
    BY <1>0, <1>7, <2>1, WrapFacts
       DEF PushExchange, Ring!ExchangeWriteIdx, Ring!MessageRingTypeOK
  <2>3. starts' \in Seq(Nat) /\ starts' # <<>>
    <3>1. Len(starts) \in 1 .. Len(starts)
      BY <1>0, EmptySeq DEF HistoryType
    <3>2. starts[Len(starts)] + Ring!Required(length[Main]) \in Nat
      BY <1>0, <3>1, ElementOfSeq DEF HistoryType
    <3>3. \A place \in Nat : Append(starts, place) \in Seq(Nat) /\ Append(starts, place) # <<>>
      <4>1. starts \in Seq(Nat)
        BY <1>0 DEF HistoryType
      <4>2. QED
        BY <4>1, AppendProperties
    <3>4. QED
      BY <1>0, <1>7, <3>2, <3>3 DEF PushExchange, HistoryType
  <2>4. HistoryType'
    BY <1>0, <1>7, <2>3 DEF HistoryType, PushExchange
  <2>5. QED
    BY <1>0, <1>1, <1>7, <2>2, <2>4, TypeParts, Unchanged DEF PushExchange
<1>8. CASE NotifyWritten
  <2>1. CountsType' /\ Written!NotifierTypeOK'
    BY <1>0, <1>8 DEF NotifyWritten, CountsType, Written!NotifyOne, Written!NotifierTypeOK
  <2>2. QED
    BY <1>0, <1>1, <1>8, <2>1, TypeParts, Unchanged DEF NotifyWritten
<1>9. CASE Stop
  <2>1. CountsType'
    BY <1>0, <1>9 DEF Stop, CountsType, counts
  <2>2. QED
    BY <1>0, <1>1, <1>9, <2>1, TypeParts, Unchanged DEF Stop
<1>10. CASE NotifyWriters
  <2>1. Written!NotifierTypeOK'
    BY <1>0, <1>10, LoggerAssumption, FS_CardinalityType
       DEF LoggerAssumption, NotifyWriters, Written!NotifyAll, Written!NotifierTypeOK
  <2>2. QED
    BY <1>0, <1>1, <1>10, <2>1, TypeParts, Unchanged DEF NotifyWriters, OnlyWritten
<1>11. QED
    BY <1>2, <1>3, <1>4, <1>5, <1>6, <1>7, <1>8, <1>9, <1>10 DEF LogStep, EndStep

\* Steps of a writer keep the types.
LEMMA WriterType ==
    ASSUME TypeOK, NEW w \in Writers, WriterStep(w)
    PROVE  TypeOK'
<1> USE LoggerFacts
<1>0. /\ ControlType /\ Ring!MessageRingTypeOK /\ Written!NotifierTypeOK
      /\ Bytes!SemTypeOK /\ CountsType /\ BufferType /\ HistoryType
      /\ Ring!Required(length[w]) \in Nat /\ length[w] \in Nat /\ w # Main /\ w \in Threads
      /\ loaded[w] \in Ring!Slots /\ loaded[w] \in Nat
    BY TypeParts, RequiredType DEF Ring!MessageRingTypeOK, Ring!Slots
<1>1. ControlType'
  <2>1. \E from, to : Goto(w, from, to) /\ to \in WriterLabels
    BY DEF WriterStep, WaitLoad, WakeUp, TakeToken, TakeTokenFails, CheckStop, PopLoad,
       PopCheckEmpty, PopLength, PopExchange, PopBody, ReturnBytes, ReturnBytesFails, Format,
       Goto, WriterLabels
  <2>2. QED
    BY <1>0, <2>1, GotoType DEF ControlType
<1>2. CASE WaitLoad(w) \/ TakeToken(w) \/ TakeTokenFails(w)
  <2>1. Written!NotifierTypeOK'
    BY <1>0, <1>2
       DEF WaitLoad, TakeToken, TakeTokenFails, Written!LoadCounter, Written!ExchangeCounter,
           Written!ExchangeCounterFails, Written!NotifierTypeOK
  <2>2. OnlyWritten
    BY <1>2 DEF WaitLoad, TakeToken, TakeTokenFails
  <2>3. QED
    BY <1>0, <1>1, <2>1, <2>2, TypeParts, Unchanged DEF OnlyWritten
<1>3. CASE WakeUp(w) \/ CheckStop(w) \/ PopCheckEmpty(w)
  <2>1. OnlyControl
    BY <1>3 DEF WakeUp, CheckStop, PopCheckEmpty
  <2>2. QED
    BY <1>0, <1>1, <2>1, TypeParts, Unchanged DEF OnlyControl
<1>4. CASE PopLoad(w) \/ PopLength(w) \/ PopExchange(w)
  <2>1. OnlyRing
    BY <1>4 DEF PopLoad, PopLength, PopExchange
  <2>2. CASE PopLoad(w)
    BY <1>0, <1>1, <2>1, <2>2, TypeParts, Unchanged
       DEF OnlyRing, PopLoad, Ring!LoadReadIdx, Ring!MessageRingTypeOK
  <2>3. CASE PopLength(w)
    <3>1. PICK size \in Ring!LengthsAt(loaded[w]) : length' = [length EXCEPT ![w] = size]
      BY <2>3 DEF PopLength, Ring!ReadLength
    <3>2. size \in Nat
      BY <3>1 DEF Ring!LengthsAt
    <3>3. Ring!MessageRingTypeOK'
      BY <1>0, <2>3, <3>1, <3>2 DEF PopLength, Ring!ReadLength, Ring!MessageRingTypeOK
    <3>4. QED
      BY <1>0, <1>1, <2>1, <3>3, TypeParts, Unchanged DEF OnlyRing
  <2>4. CASE PopExchange(w)
    <3>1. loaded[w] + Ring!Required(length[w]) \in Int
      BY <1>0
    <3>2. Ring!MessageRingTypeOK'
      BY <1>0, <2>4, <3>1, WrapFacts DEF PopExchange, Ring!ExchangeReadIdx, Ring!MessageRingTypeOK
    <3>3. QED
      BY <1>0, <1>1, <2>1, <3>2, TypeParts, Unchanged DEF OnlyRing
  <2>5. QED
    BY <1>4, <2>2, <2>3, <2>4
<1>5. CASE PopBody(w)
  <2>1. loaded[w] + LengthSize \in Int
    BY <1>0
  <2>2. Ring!Body(w) \in Seq(Ring!Units)
    BY <1>0, <2>1, WrapFacts, CopiedFacts DEF Ring!Body, Ring!MessageRingTypeOK
  <2>3. Overwrite(buffer[w], Ring!Body(w)) \in Seq(Ring!Units)
    BY <1>0, <2>2, OverwriteFacts DEF BufferType
  <2>4. BufferType'
    BY <1>0, <1>5, <2>3 DEF PopBody, BufferType
  <2>5. CountsType'
    BY <1>0, <1>5 DEF PopBody, CountsType
  <2>6. QED
    BY <1>0, <1>1, <1>5, <2>4, <2>5, TypeParts, Unchanged DEF PopBody
<1>6. CASE ReturnBytes(w) \/ ReturnBytesFails(w)
  <2>1. Bytes!SemTypeOK'
    BY <1>0, <1>6, SemType DEF ReturnBytes, ReturnBytesFails
  <2>2. HistoryType'
    BY <1>0, <1>6 DEF ReturnBytes, ReturnBytesFails, HistoryType, OnlySem, history
  <2>3. UNCHANGED <<ringVars, writtenVars, stop_flag, counts, buffer>>
    BY <1>6 DEF ReturnBytes, ReturnBytesFails, OnlySem
  <2>4. QED
    BY <1>0, <1>1, <2>1, <2>2, <2>3, TypeParts, Unchanged
<1>7. CASE Format(w)
  <2>1. printed' \in Seq(Seq(Ring!Units))
    BY <1>0, <1>7, AppendProperties DEF Format, HistoryType, BufferType
  <2>2. HistoryType'
    BY <1>0, <1>7, <2>1 DEF Format, HistoryType
  <2>3. QED
    BY <1>0, <1>1, <1>7, <2>2, TypeParts, Unchanged DEF Format
<1>8. QED
    BY <1>2, <1>3, <1>4, <1>5, <1>6, <1>7 DEF WriterStep

-----------------------------------------------------------------------------
(* The parts of the invariant, and the steps that leave them alone *)

\* The invariant of a logger with one writer w, by name, before and after a step.
LEMMA Parts ==
    ASSUME NEW w, Writers = {w}
    PROVE  /\ IInv <=>
                /\ TypeOK /\ PlacesInOrder /\ MainInPlace /\ MessagesHeld
                /\ PrintedInOrder /\ OwnTextOnly
                /\ TokensAreMessages(w) /\ WriterInPlace(w) /\ BytesAccounted(w)
                /\ PrintedSoFar(w)
           /\ IInv' <=>
                /\ TypeOK' /\ PlacesInOrder' /\ MainInPlace' /\ MessagesHeld'
                /\ PrintedInOrder' /\ OwnTextOnly'
                /\ TokensAreMessages(w)' /\ WriterInPlace(w)' /\ BytesAccounted(w)'
                /\ PrintedSoFar(w)'
BY DEF IInv

\* Numbers of messages and positions, and their order.
LEMMA StateFacts ==
    ASSUME TypeOK, PlacesInOrder, MainInPlace, NEW w \in Writers, TokensAreMessages(w)
    PROVE  /\ Pushed \in Nat /\ Current \in Nat /\ Pushed <= Current /\ Current <= Pushed + 1
           /\ Len(starts) = Pushed + 1 /\ Len(sizes) = Current /\ Current <= MessageCount
           /\ pop_count \in Nat /\ pushed_count \in Nat
           /\ pop_count <= pushed_count /\ pushed_count <= Pushed
           /\ Popped(w) \in pop_count .. pushed_count /\ Popped(w) \in Nat
           /\ \A i \in 1 .. Pushed + 1 : starts[i] \in Nat
           /\ \A m \in 1 .. Current :
                 /\ sizes[m] \in Nat /\ sizes[m] > 1 /\ LengthSize + sizes[m] < Capacity
                 /\ Ring!Required(sizes[m]) \in 1 .. Capacity
           /\ InRing(w) \in Nat
<1>1. starts \in Seq(Nat) /\ starts # <<>> /\ sizes \in Seq(MessageSizes) /\ Current <= MessageCount
    BY DEF TypeOK, Current
<1>2. Len(starts) \in Nat \ {0} /\ Len(sizes) \in Nat
    BY <1>1, EmptySeq, LenProperties
<1>3. /\ Pushed \in Nat /\ Current \in Nat /\ Pushed <= Current /\ Current <= Pushed + 1
      /\ Len(starts) = Pushed + 1 /\ Len(sizes) = Current
    BY <1>2 DEF PlacesInOrder, Pushed, Current
<1>4. pop_count \in Nat /\ pushed_count \in Nat
    BY DEF TypeOK
<1>5. pop_count <= pushed_count /\ pushed_count <= Pushed
    BY <1>3, <1>4 DEF TokensAreMessages, MainInPlace
<1>6. Popped(w) \in pop_count .. pushed_count /\ Popped(w) \in Nat
    BY <1>4, <1>5 DEF Popped, TokensAreMessages, AboutToPop
<1>7. \A i \in 1 .. Pushed + 1 : starts[i] \in Nat
    BY <1>1, <1>3, ElementOfSeq
<1>8. \A m \in 1 .. Current : /\ sizes[m] \in Nat /\ sizes[m] > 1 /\ LengthSize + sizes[m] < Capacity
                              /\ Ring!Required(sizes[m]) \in 1 .. Capacity
    BY <1>1, <1>3, MessageFacts, LoggerFacts DEF Ring!Required
<1>9. InRing(w) \in Nat
  <2>1. /\ Popped(w) + 1 \in 1 .. Pushed + 1 /\ Pushed + 1 \in 1 .. Pushed + 1
        /\ Popped(w) + 1 < Pushed + 1 \/ Popped(w) + 1 = Pushed + 1
    BY <1>3, <1>4, <1>5, <1>6
  <2>2. starts[Popped(w) + 1] <= starts[Pushed + 1]
    BY <1>7, <2>1 DEF PlacesInOrder
  <2>3. QED
    BY <1>7, <2>1, <2>2 DEF InRing
<1>10. QED
    BY <1>1, <1>3, <1>4, <1>5, <1>6, <1>7, <1>8, <1>9

\* The places of the messages depend on where they start and how long they are.
LEMMA KeepsPlaces == PlacesInOrder /\ UNCHANGED <<starts, sizes>> => PlacesInOrder'
BY DEF PlacesInOrder, Pushed, Current

\* So do the properties of what is printed.
LEMMA KeepsText ==
    UNCHANGED <<printed, sizes>> => /\ PrintedInOrder => PrintedInOrder'
                                    /\ OwnTextOnly => OwnTextOnly'
BY DEF PrintedInOrder, OwnTextOnly, Message

Unprinted == {"return_bytes", "format", "failed"}

\* The printed part stays right while the writer neither pops nor prints.
LEMMA KeepsPrinted ==
    ASSUME NEW w, PrintedSoFar(w), UNCHANGED <<printed, sizes, pop_count, buffer>>,
           pc'[w] = pc[w] \/ (pc[w] \notin Unprinted /\ pc'[w] \notin Unprinted)
    PROVE  PrintedSoFar(w)'
BY DEF PrintedSoFar, Message, Unprinted

\* The ring keeps its messages while nobody copies into it and none is completed.
LEMMA KeepsHeld ==
    ASSUME MessagesHeld, UNCHANGED <<cells, starts, sizes, counts>>,
           pc'[Main] = pc[Main] \/ pc'[Main] \notin {"write_body", "notify_one"}
    PROVE  MessagesHeld'
BY DEF MessagesHeld, counts, Holds, Unit, Pushed

\* main stays where it is in the ring while it does not move.
LEMMA KeepsMain ==
    ASSUME MainInPlace, UNCHANGED <<write_idx, starts, sizes, pushed_count, stop_flag>>,
           pc'[Main] = pc[Main], loaded'[Main] = loaded[Main], length'[Main] = length[Main]
    PROVE  MainInPlace'
BY DEF MainInPlace, Pushed, Current, Entering, Writing

\* The tokens stay messages while nobody touches the notifier or the counts.
LEMMA KeepsTokens ==
    ASSUME NEW w, TokensAreMessages(w), UNCHANGED <<writtenVars, counts>>,
           pc'[w] = pc[w], stop_flag => stop_flag'
    PROVE  TokensAreMessages(w)'
BY DEF TokensAreMessages, AboutToPop, writtenVars, counts

\* The writer stays where it is in the ring while it does not move.
LEMMA KeepsWriter ==
    ASSUME NEW w, WriterInPlace(w), UNCHANGED <<read_idx, starts, sizes, pop_count>>,
           pc'[w] = pc[w], loaded'[w] = loaded[w], length'[w] = length[w]
    PROVE  WriterInPlace(w)'
BY DEF WriterInPlace, Popped

\* What is in the ring stays the same when nobody pushes or pops.
LEMMA KeepsInRing ==
    ASSUME NEW w, UNCHANGED <<starts, pop_count>>,
           pc'[w] = pc[w] \/ (pc[w] # "read_body" /\ pc'[w] # "read_body")
    PROVE  InRing(w)' = InRing(w)
BY DEF InRing, Popped, Pushed

\* The distance between the indices is what is in the ring.
LEMMA IndexDistance ==
    ASSUME TypeOK, PlacesInOrder, MainInPlace, NEW w \in Writers, TokensAreMessages(w),
           WriterInPlace(w), BytesAccounted(w)
    PROVE  /\ Used = InRing(w)
           /\ write_idx - read_idx =
                 IF read_idx <= write_idx THEN InRing(w) ELSE InRing(w) - Capacity
<1> DEFINE a == starts[Pushed + 1]
           b == starts[Popped(w) + 1]
<1>1. /\ a \in Nat /\ b \in Nat /\ InRing(w) = a - b /\ InRing(w) \in Nat /\ InRing(w) < Capacity
      /\ write_idx = Ring!Wrap(a) /\ read_idx = Ring!Wrap(b)
    BY StateFacts DEF MainInPlace, WriterInPlace, BytesAccounted, InRing
<1>2. /\ write_idx \in Ring!Slots /\ read_idx \in Ring!Slots
      /\ write_idx \in 0 .. Capacity - 1 /\ read_idx \in 0 .. Capacity - 1
    BY DEF TypeOK, Ring!MessageRingTypeOK, Ring!Slots
<1> HIDE DEF a, b
<1>3. a - b \in Ring!Slots
    BY <1>1, LoggerFacts DEF Ring!Slots
<1>4. Ring!Wrap(write_idx - read_idx) = InRing(w)
    BY <1>1, <1>3, WrapDistance
<1>5. CASE read_idx <= write_idx
  <2>1. write_idx - read_idx \in Int /\ write_idx - read_idx \in Ring!Slots
    BY <1>2, <1>5, LoggerFacts DEF Ring!Slots
  <2>2. Ring!Wrap(write_idx - read_idx) = write_idx - read_idx
    BY <2>1, WrapFacts
  <2>3. QED
    BY <1>4, <1>5, <2>2 DEF Used
<1>6. CASE ~(read_idx <= write_idx)
  <2>1. /\ write_idx - read_idx \in Int /\ write_idx - read_idx + Capacity \in Ring!Slots
        /\ write_idx - read_idx = Capacity * (-1) + (write_idx - read_idx + Capacity)
    BY <1>2, <1>6, LoggerFacts DEF Ring!Slots
  <2>2. Ring!Wrap(write_idx - read_idx) = write_idx - read_idx + Capacity
    BY <2>1, WrapUnique
  <2>3. QED
    BY <1>1, <1>2, <1>4, <1>6, <2>2, LoggerFacts DEF Used
<1>7. QED
    BY <1>5, <1>6

-----------------------------------------------------------------------------
(* Steps of the main thread that do not touch the ring *)

\* What most steps of the main thread leave to the writer.
MainOnly ==
    /\ UNCHANGED <<cells, write_idx, read_idx, length, counts, buffer, sizes, starts, printed>>
    /\ \A w \in Writers : pc'[w] = pc[w] /\ loaded'[w] = loaded[w]

\* Steps of main that leave the ring and the messages alone.
LEMMA MainOnlyKeeps ==
    ASSUME NEW w, Writers = {w}, IInv, MainOnly, pc'[Main] \notin {"write_body", "notify_one"}
    PROVE  /\ PlacesInOrder' /\ MessagesHeld' /\ PrintedInOrder' /\ OwnTextOnly'
           /\ WriterInPlace(w)' /\ PrintedSoFar(w)'
           /\ InRing(w)' = InRing(w) /\ BytesOf(w)' = BytesOf(w)
<1>1. /\ UNCHANGED <<cells, write_idx, read_idx, length, counts, pop_count>>
      /\ UNCHANGED <<buffer, sizes, starts, printed>>
      /\ pc'[w] = pc[w] /\ loaded'[w] = loaded[w]
    BY DEF MainOnly, counts
<1>2. /\ PlacesInOrder /\ MessagesHeld /\ PrintedInOrder /\ OwnTextOnly
      /\ WriterInPlace(w) /\ PrintedSoFar(w)
    BY Parts
<1>3. PlacesInOrder' /\ PrintedInOrder' /\ OwnTextOnly'
    BY <1>1, <1>2, KeepsPlaces, KeepsText
<1>4. MessagesHeld'
    BY <1>1, <1>2, KeepsHeld
<1>5. WriterInPlace(w)'
    BY <1>1, <1>2, KeepsWriter
<1>6. PrintedSoFar(w)'
  <2>1. UNCHANGED <<printed, sizes, pop_count, buffer>>
    BY <1>1
  <2>2. pc'[w] = pc[w] \/ (pc[w] \notin Unprinted /\ pc'[w] \notin Unprinted)
    BY <1>1
  <2>3. QED
    BY <1>2, <2>1, <2>2, KeepsPrinted
<1>7. InRing(w)' = InRing(w)
  <2>1. UNCHANGED <<starts, pop_count>>
    BY <1>1
  <2>2. pc'[w] = pc[w] \/ (pc[w] # "read_body" /\ pc'[w] # "read_body")
    BY <1>1
  <2>3. QED
    BY <2>1, <2>2, KeepsInRing
<1>8. BytesOf(w)' = BytesOf(w)
    BY <1>1 DEF BytesOf, Ring!Required
<1>9. QED
    BY <1>3, <1>4, <1>5, <1>6, <1>7, <1>8

\* Bytes are counted with numbers, before and after a step.
ByteNumbers ==
    /\ sem[FreeBytes] \in Nat /\ leaked \in Nat /\ BytesOfMain \in Nat
    /\ \A w \in Writers : BytesOf(w) \in Nat
    /\ \A p \in Threads : /\ length[p] \in Nat /\ Ring!Required(length[p]) \in Nat
                          /\ Ring!Required(length[p]) > 0

\* The numbers that the account of bytes adds up are numbers.
LEMMA ByteTypes == (TypeOK => ByteNumbers) /\ (TypeOK' => ByteNumbers')
<1> USE LoggerFacts
<1>1. ASSUME TypeOK PROVE ByteNumbers
  <2>1. /\ sem \in [{FreeBytes} -> Nat] /\ leaked \in Nat
        /\ \A p \in Threads : length[p] \in Nat
    BY <1>1 DEF TypeOK, Bytes!SemTypeOK, Semaphores, Ring!MessageRingTypeOK
  <2>2. QED
    BY <2>1 DEF ByteNumbers, BytesOfMain, BytesOf, Ring!Required
<1>2. ASSUME TypeOK' PROVE ByteNumbers'
  <2>1. /\ sem' \in [{FreeBytes} -> Nat] /\ leaked' \in Nat
        /\ \A p \in Threads : length'[p] \in Nat
    BY <1>2 DEF TypeOK, Bytes!SemTypeOK, Semaphores, Ring!MessageRingTypeOK
  <2>2. QED
    BY <2>1 DEF ByteNumbers, BytesOfMain, BytesOf, Ring!Required
<1>3. QED
    BY <1>1, <1>2

\* The semaphore is a number of bytes.
LEMMA ByteFacts ==
    ASSUME TypeOK
    PROVE  /\ sem[FreeBytes] \in Nat /\ leaked \in Nat
           /\ \A p \in Threads : Ring!Required(length[p]) \in Nat /\ Ring!Required(length[p]) > 0
           /\ BytesOfMain \in Nat /\ \A w \in Writers : BytesOf(w) \in Nat
           /\ \A n \in Nat :
                 /\ Bytes!Notify(FreeBytes, n) => sem'[FreeBytes] = sem[FreeBytes] + n
                 /\ Bytes!WaitFor(FreeBytes, n) => /\ sem[FreeBytes] >= n
                                                   /\ sem'[FreeBytes] = sem[FreeBytes] - n
           /\ Bytes!WaitForAll(FreeBytes) => /\ sem[FreeBytes] >= Capacity
                                             /\ sem'[FreeBytes] = sem[FreeBytes] - Capacity
           /\ Bytes!CallFails \/ Bytes!Remove => sem'[FreeBytes] = sem[FreeBytes]
<1> USE LoggerFacts
<1>1. sem \in [{FreeBytes} -> Nat] /\ leaked \in Nat
    BY DEF TypeOK, Bytes!SemTypeOK, Semaphores
<1>2. \A p \in Threads : Ring!Required(length[p]) \in Nat /\ Ring!Required(length[p]) > 0
    BY DEF TypeOK, Ring!MessageRingTypeOK, Ring!Required
<1>3. BytesOfMain \in Nat /\ \A w \in Writers : BytesOf(w) \in Nat
    BY <1>2 DEF BytesOfMain, BytesOf
<1>4. ASSUME NEW n \in Nat
      PROVE  /\ Bytes!Notify(FreeBytes, n) => sem'[FreeBytes] = sem[FreeBytes] + n
             /\ Bytes!WaitFor(FreeBytes, n) => /\ sem[FreeBytes] >= n
                                               /\ sem'[FreeBytes] = sem[FreeBytes] - n
    BY <1>1 DEF Bytes!Notify, Bytes!WaitFor, Bytes!IncreaseValue, Bytes!DecreaseValue
<1>5. Bytes!WaitForAll(FreeBytes) => /\ sem[FreeBytes] >= Capacity
                                     /\ sem'[FreeBytes] = sem[FreeBytes] - Capacity
    BY <1>1 DEF Bytes!WaitForAll, Bytes!DecreaseValue, GroupSize, Semaphores
<1>6. QED
    BY <1>1, <1>2, <1>3, <1>4, <1>5 DEF Bytes!CallFails, Bytes!Remove

\* Bytes change hands, and nobody pushes or pops.
LEMMA KeepsBytes ==
    ASSUME NEW w, Writers = {w}, TypeOK, TypeOK', BytesAccounted(w),
           InRing(w) \in Nat, InRing(w)' = InRing(w), waited' = waited,
           waited => UNCHANGED counts /\ (pc'[Main] = "stop" \/ stop_flag'),
           \/ waited
           \/ sem'[FreeBytes] + BytesOfMain' + BytesOf(w)' + leaked' =
                 sem[FreeBytes] + BytesOfMain + BytesOf(w) + leaked,
           leaked' >= leaked,
           pc'[Main] = "push_exchange" => InRing(w) + Ring!Required(length'[Main]) < Capacity,
           \/ pc'[w] = pc[w]
           \/ pc'[w] \notin {"failed", "return_bytes"}
           \/ leaked' > 0 /\ ~waited
    PROVE  BytesAccounted(w)'
<1>1. /\ sem[FreeBytes] \in Nat /\ leaked \in Nat /\ BytesOfMain \in Nat /\ BytesOf(w) \in Nat
      /\ sem'[FreeBytes] \in Nat /\ leaked' \in Nat /\ BytesOfMain' \in Nat
      /\ BytesOf(w)' \in Nat /\ LengthSize + length'[Main] \in Nat
    BY ByteTypes DEF ByteNumbers, Ring!Required, Threads
<1>2. InRing(w)' < Capacity
    BY DEF BytesAccounted
<1>3. ~waited' => sem'[FreeBytes] + BytesOfMain' + InRing(w)' + BytesOf(w)' + leaked' = Capacity
    BY <1>1, LoggerFacts DEF BytesAccounted
<1>4. pc'[w] = "failed" => leaked' > 0
    BY <1>1 DEF BytesAccounted
<1>5. waited' => /\ pc'[Main] = "stop" \/ stop_flag'
                 /\ pop_count' = MessageCount /\ pushed_count' = MessageCount
                 /\ pc'[w] \notin {"return_bytes", "failed"}
    BY DEF BytesAccounted, counts
<1>6. QED
    BY <1>2, <1>3, <1>4, <1>5 DEF BytesAccounted

\* The steps around a push.
LEMMA WaitAndCheckStep ==
    ASSUME NEW w, Writers = {w}, IInv, TypeOK',
           WaitForBytes \/ WaitForBytesFails \/ PushCheck \/ PushRefused
    PROVE  IInv'
<1> USE LoggerFacts
<1>0. /\ TypeOK /\ PlacesInOrder /\ MainInPlace /\ TokensAreMessages(w)
      /\ WriterInPlace(w) /\ BytesAccounted(w)
    BY Parts
<1>1. /\ w \in Writers /\ w # Main /\ Main \in Threads /\ w \in Threads
      /\ pc \in [Threads -> MainLabels \cup WriterLabels]
    BY <1>0 DEF TypeOK
<1>2. /\ MainOnly /\ UNCHANGED <<writtenVars, stop_flag, waited>>
      /\ \/ pc[Main] = "wait_bytes" /\ pc'[Main] \in {"push", "stop"}
         \/ pc[Main] = "check" /\ pc'[Main] \in {"push_exchange", "stop"}
    BY <1>1 DEF MainOnly, WaitForBytes, WaitForBytesFails, PushCheck, PushRefused, OnlySem,
       OnlyControl, Goto, history, ringVars
<1>3. /\ PlacesInOrder' /\ MessagesHeld' /\ PrintedInOrder' /\ OwnTextOnly'
      /\ WriterInPlace(w)' /\ PrintedSoFar(w)'
      /\ InRing(w)' = InRing(w) /\ BytesOf(w)' = BytesOf(w)
    BY <1>1, <1>2, MainOnlyKeeps
<1>4. TokensAreMessages(w)'
    BY <1>0, <1>1, <1>2, KeepsTokens DEF MainOnly
<1>5. MainInPlace'
  <2>1. loaded' = loaded
    BY DEF WaitForBytes, WaitForBytesFails, PushCheck, PushRefused, OnlySem, OnlyControl, ringVars
  <2>2. QED
    BY <1>0, <1>1, <1>2, <2>1
       DEF MainOnly, counts, MainInPlace, Pushed, Current, Entering, Writing
<1>6. ~waited
    BY <1>0, <1>2 DEF BytesAccounted, MainInPlace
<1>7. sem'[FreeBytes] + BytesOfMain' + leaked' = sem[FreeBytes] + BytesOfMain + leaked
  <2>1. length' = length
    BY <1>2 DEF MainOnly
  <2>2. CASE WaitForBytes
    BY <1>0, <1>1, <2>1, <2>2, ByteFacts DEF WaitForBytes, Goto, BytesOfMain, OnlySem, history
  <2>3. CASE WaitForBytesFails
    BY <1>0, <1>1, <2>1, <2>3, ByteFacts DEF WaitForBytesFails, Goto, BytesOfMain, OnlySem, history
  <2>4. CASE PushCheck
    BY <1>0, <1>1, <2>1, <2>4, ByteFacts
       DEF PushCheck, Goto, BytesOfMain, OnlyControl, history, semVars
  <2>5. CASE PushRefused
    BY <1>0, <1>1, <2>1, <2>5, ByteFacts DEF PushRefused, Goto, BytesOfMain, semVars
  <2>6. QED
    BY <2>2, <2>3, <2>4, <2>5
<1>8. pc'[Main] = "push_exchange" => InRing(w) + Ring!Required(length[Main]) < Capacity
  <2>1. SUFFICES ASSUME PushCheck
                 PROVE  InRing(w) + Ring!Required(length[Main]) < Capacity
    BY <1>1 DEF WaitForBytes, WaitForBytesFails, PushRefused, Goto
  <2>2. /\ loaded[Main] = write_idx
        /\ Ring!AvailableMemory(write_idx, read_idx) >= Ring!Required(length[Main])
    BY <1>0, <2>1 DEF PushCheck, Goto, MainInPlace, Ring!Fits
  <2>3. /\ write_idx \in Nat /\ read_idx \in Nat /\ InRing(w) \in Nat
        /\ Ring!Required(length[Main]) \in Nat
        /\ write_idx - read_idx =
              IF read_idx <= write_idx THEN InRing(w) ELSE InRing(w) - Capacity
    <3>1. write_idx \in Nat /\ read_idx \in Nat
      BY <1>0 DEF TypeOK, Ring!MessageRingTypeOK, Ring!Slots
    <3>2. Ring!Required(length[Main]) \in Nat
      BY <1>0, <1>1, ByteTypes DEF ByteNumbers
    <3>3. QED
      BY <1>0, <1>1, <3>1, <3>2, IndexDistance, StateFacts
  <2>4. QED
    BY <2>2, <2>3 DEF Ring!AvailableMemory
<1>9. BytesAccounted(w)'
  <2>1. length' = length /\ pc'[w] = pc[w] /\ waited' = waited
    BY <1>1, <1>2 DEF MainOnly
  <2>2. leaked' >= leaked /\ leaked \in Nat /\ leaked' \in Nat
    <3>1. leaked' = leaked \/ leaked' = leaked + Ring!Required(length[Main])
      BY DEF WaitForBytes, WaitForBytesFails, PushCheck, PushRefused, OnlySem, OnlyControl, history
    <3>2. QED
      BY <1>0, <1>1, <3>1, ByteTypes DEF ByteNumbers
  <2>3. /\ sem[FreeBytes] \in Nat /\ BytesOfMain \in Nat /\ InRing(w) \in Nat /\ BytesOf(w) \in Nat
        /\ sem'[FreeBytes] \in Nat /\ BytesOfMain' \in Nat
    BY <1>0, <1>1, ByteTypes, StateFacts DEF ByteNumbers
  <2>4. QED
    BY <1>0, <1>3, <1>6, <1>7, <1>8, <2>1, <2>2, <2>3 DEF BytesAccounted
<1>10. QED
    BY <1>3, <1>4, <1>5, <1>9, Parts

\* The steps between pushes, and those of the end but the one that waits for the writer.
LEMMA EndStepKeeps ==
    ASSUME NEW w, Writers = {w}, IInv, TypeOK',
           \/ PushLoad \/ WaitTillAllPopped \/ WaitTillAllPoppedFails \/ Destroy \/ Stop
           \/ NotifyWriters \/ Join \/ RemoveSemaphores \/ RemoveSemaphoresFails
    PROVE  IInv'
<1> USE LoggerFacts
<1>0. /\ TypeOK /\ PlacesInOrder /\ MainInPlace /\ TokensAreMessages(w)
      /\ WriterInPlace(w) /\ BytesAccounted(w)
    BY Parts
<1>1. /\ w \in Writers /\ w # Main /\ Main \in Threads /\ w \in Threads
      /\ pc \in [Threads -> MainLabels \cup WriterLabels] /\ loaded \in [Threads -> Ring!Slots]
    BY <1>0 DEF TypeOK, Ring!MessageRingTypeOK
<1>2. MainOnly /\ UNCHANGED <<expected, leaked, waited, printed>>
    BY <1>1 DEF MainOnly, PushLoad, WaitTillAllPopped, WaitTillAllPoppedFails, Destroy, Stop,
       NotifyWriters, Join, RemoveSemaphores, RemoveSemaphoresFails, OnlySem, OnlyControl,
       OnlyRing, OnlyWritten, Goto, history, ringVars, writtenVars, Ring!LoadWriteIdx,
       Written!NotifyAll
<1>3. /\ stop_flag => stop_flag'
      /\ pc'[Main] \in {"check", "wait_all", "stop", "notify_all", "join", "remove", "ended",
                         "aborted"}
    BY <1>1 DEF PushLoad, WaitTillAllPopped, WaitTillAllPoppedFails, Destroy, Stop,
       NotifyWriters, Join, RemoveSemaphores, RemoveSemaphoresFails, OnlySem, OnlyControl,
       OnlyRing, OnlyWritten, Goto
<1>4. /\ PlacesInOrder' /\ MessagesHeld' /\ PrintedInOrder' /\ OwnTextOnly'
      /\ WriterInPlace(w)' /\ PrintedSoFar(w)'
      /\ InRing(w)' = InRing(w) /\ BytesOf(w)' = BytesOf(w)
    BY <1>1, <1>2, <1>3, MainOnlyKeeps
<1>5. TokensAreMessages(w)'
  <2>1. CASE NotifyWriters
    <3>1. stop_flag /\ stop_flag'
      BY <1>0, <1>1, <2>1 DEF NotifyWriters, Goto, MainInPlace, OnlyWritten
    <3>2. counter' = counter + Cardinality(Writers) /\ Cardinality(Writers) \in Nat /\ counter \in Int
      BY <1>0, <2>1, LoggerAssumption, FS_CardinalityType
         DEF LoggerAssumption, NotifyWriters, Written!NotifyAll, TypeOK, Written!NotifierTypeOK
    <3>3. counter' >= counter /\ counter' \in Int
      BY <3>2
    <3>4. QED
      BY <1>0, <1>1, <1>2, <3>1, <3>2, <3>3 DEF TokensAreMessages, MainOnly, counts, AboutToPop
  <2>2. CASE ~NotifyWriters
    <3>1. UNCHANGED writtenVars
      BY <2>2 DEF PushLoad, WaitTillAllPopped, WaitTillAllPoppedFails, Destroy, Stop,
         Join, RemoveSemaphores, RemoveSemaphoresFails, OnlySem, OnlyControl, OnlyRing
    <3>2. QED
      BY <1>0, <1>1, <1>2, <1>3, <3>1, KeepsTokens DEF MainOnly
  <2>3. QED
    BY <2>1, <2>2
<1>6. MainInPlace'
  <2>1. CASE PushLoad
    BY <1>0, <1>1, <1>2, <2>1 DEF PushLoad, OnlyRing, Ring!LoadWriteIdx, Goto, MainOnly, counts,
       MainInPlace, Pushed, Current, Entering, Writing
  <2>2. CASE WaitTillAllPopped \/ Destroy
    BY <1>0, <1>1, <1>2, <2>2 DEF WaitTillAllPopped, Destroy, OnlyControl, Goto, MainOnly, counts,
       MainInPlace, Pushed, Current, Entering, Writing
  <2>3. CASE WaitTillAllPoppedFails \/ RemoveSemaphores \/ RemoveSemaphoresFails
    BY <1>0, <1>1, <1>2, <2>3 DEF WaitTillAllPoppedFails, RemoveSemaphores, RemoveSemaphoresFails,
       OnlySem, Goto, MainOnly, counts, MainInPlace, Pushed, Current, Entering, Writing
  <2>4. CASE Stop \/ NotifyWriters \/ Join
    BY <1>0, <1>1, <1>2, <2>4 DEF Stop, NotifyWriters, Join, OnlyWritten, OnlyControl, Goto,
       MainOnly, counts, MainInPlace, Pushed, Current, Entering, Writing
  <2>5. QED
    BY <2>1, <2>2, <2>3, <2>4
<1>7. BytesAccounted(w)'
  <2>1. sem'[FreeBytes] = sem[FreeBytes]
    <3>1. UNCHANGED semVars \/ Bytes!CallFails \/ Bytes!Remove
      BY DEF PushLoad, WaitTillAllPopped, WaitTillAllPoppedFails, Destroy, Stop, NotifyWriters,
         Join, RemoveSemaphores, RemoveSemaphoresFails, OnlyControl, OnlyRing, OnlyWritten
    <3>2. QED
      BY <1>0, <3>1, ByteFacts DEF semVars
  <2>2. BytesOfMain' = BytesOfMain
    <3>1. /\ length' = length
          /\ pc[Main] \in {"push", "check", "push_exchange"}
               <=> pc'[Main] \in {"push", "check", "push_exchange"}
      BY <1>1, <1>2 DEF MainOnly, PushLoad, WaitTillAllPopped, WaitTillAllPoppedFails, Destroy,
         Stop, NotifyWriters, Join, RemoveSemaphores, RemoveSemaphoresFails, Goto
    <3>2. QED
      BY <3>1 DEF BytesOfMain
  <2>3. waited => pc'[Main] = "stop" \/ stop_flag'
    <3>1. waited => pc[Main] = "stop" \/ stop_flag
      BY <1>0 DEF BytesAccounted
    <3>2. pc[Main] = "stop" => stop_flag'
      BY <1>1 DEF PushLoad, WaitTillAllPopped, WaitTillAllPoppedFails, Destroy, Stop,
         NotifyWriters, Join, RemoveSemaphores, RemoveSemaphoresFails, Goto
    <3>3. QED
      BY <1>3, <3>1, <3>2
  <2>4. /\ UNCHANGED counts /\ leaked' = leaked /\ waited' = waited /\ pc'[w] = pc[w]
        /\ pc'[Main] # "push_exchange"
    BY <1>1, <1>2, <1>3 DEF MainOnly
  <2>5. InRing(w) \in Nat /\ leaked \in Nat
    BY <1>0, <1>1, StateFacts, ByteTypes DEF ByteNumbers
  <2>6. QED
    BY <1>0, <1>4, <2>1, <2>2, <2>3, <2>4, <2>5, KeepsBytes
<1>8. QED
    BY <1>4, <1>5, <1>6, <1>7, Parts

\* The ring is empty when everything pushed is popped, and only then.
LEMMA EmptyRing ==
    ASSUME TypeOK, PlacesInOrder, MainInPlace, NEW w \in Writers, TokensAreMessages(w)
    PROVE  InRing(w) = 0 <=> Popped(w) = Pushed
<1>1. /\ Pushed \in Nat /\ pushed_count \in Nat /\ pop_count \in Nat /\ pushed_count <= Pushed
      /\ Popped(w) \in pop_count .. pushed_count /\ Popped(w) \in Nat
      /\ \A i \in 1 .. Pushed + 1 : starts[i] \in Nat
    BY StateFacts
<1>2. Popped(w) + 1 \in 1 .. Pushed + 1 /\ Pushed + 1 \in 1 .. Pushed + 1 /\ Popped(w) <= Pushed
    BY <1>1
<1>3. Popped(w) # Pushed => starts[Popped(w) + 1] < starts[Pushed + 1]
    BY <1>1, <1>2 DEF PlacesInOrder
<1>4. starts[Popped(w) + 1] \in Nat /\ starts[Pushed + 1] \in Nat
    BY <1>1, <1>2
<1>5. QED
    BY <1>3, <1>4 DEF InRing

\* A client that is told that everything is popped has nothing left to wait for.
LEMMA AllPoppedKeeps ==
    ASSUME NEW w, Writers = {w}, IInv, TypeOK', AllPopped
    PROVE  IInv'
<1> USE LoggerFacts
<1>0. /\ TypeOK /\ PlacesInOrder /\ MainInPlace /\ TokensAreMessages(w)
      /\ WriterInPlace(w) /\ BytesAccounted(w)
    BY Parts
<1>1. /\ w \in Writers /\ w # Main /\ Main \in Threads /\ w \in Threads
      /\ pc \in [Threads -> MainLabels \cup WriterLabels]
    BY <1>0 DEF TypeOK
<1>2. /\ pc[Main] = "wait_all" /\ pc'[Main] = "stop" /\ pc'[w] = pc[w] /\ waited'
      /\ UNCHANGED <<ringVars, writtenVars, stop_flag, counts, buffer, sizes, starts, printed, leaked>>
      /\ Bytes!WaitForAll(FreeBytes)
    BY <1>1 DEF AllPopped, Goto
<1>3. MainOnly
    BY <1>1, <1>2 DEF MainOnly, ringVars
<1>4. /\ PlacesInOrder' /\ MessagesHeld' /\ PrintedInOrder' /\ OwnTextOnly'
      /\ WriterInPlace(w)' /\ PrintedSoFar(w)'
      /\ InRing(w)' = InRing(w) /\ BytesOf(w)' = BytesOf(w)
    BY <1>2, <1>3, MainOnlyKeeps
<1>5. TokensAreMessages(w)'
    BY <1>0, <1>2, KeepsTokens
<1>6. MainInPlace'
    BY <1>0, <1>2 DEF MainInPlace, ringVars, counts, Pushed, Current, Entering, Writing
<1>7. /\ Current = MessageCount /\ Pushed = Current /\ pushed_count = Pushed /\ ~stop_flag
    BY <1>0, <1>2 DEF MainInPlace, Entering, Writing
<1>8. InRing(w) = 0 /\ BytesOf(w) = 0 /\ leaked = 0
  <2>1. ~waited
    BY <1>0, <1>2, <1>7 DEF BytesAccounted
  <2>2. /\ sem[FreeBytes] \in Nat /\ BytesOfMain \in Nat /\ InRing(w) \in Nat
        /\ BytesOf(w) \in Nat /\ leaked \in Nat
    BY <1>0, <1>1, StateFacts, ByteTypes DEF ByteNumbers
  <2>3. sem[FreeBytes] >= Capacity
    BY <1>0, <1>2, ByteFacts
  <2>4. QED
    BY <1>0, <2>1, <2>2, <2>3 DEF BytesAccounted
<1>9. pc[w] \notin {"read_body", "return_bytes", "failed"}
  <2>1. Ring!Required(length[w]) # 0
    BY <1>0, <1>1, ByteTypes DEF ByteNumbers
  <2>2. QED
    BY <1>0, <1>8, <2>1 DEF BytesOf, BytesAccounted
<1>10. pop_count = Pushed
  <2>1. Popped(w) = Pushed
    BY <1>0, <1>1, <1>8, EmptyRing
  <2>2. pop_count \in Nat
    BY <1>0 DEF TypeOK
  <2>3. QED
    BY <1>9, <2>1, <2>2 DEF Popped
<1>11. BytesAccounted(w)'
  <2>1. InRing(w)' < Capacity
    BY <1>4, <1>8
  <2>2. QED
    BY <1>2, <1>7, <1>9, <1>10, <2>1 DEF BytesAccounted, counts
<1>12. QED
    BY <1>4, <1>5, <1>6, <1>11, Parts

\* A message is put together: its text is known from now on, its place is not yet.
LEMMA LogKeeps ==
    ASSUME NEW w, Writers = {w}, IInv, TypeOK', Log
    PROVE  IInv'
<1> USE LoggerFacts
<1>0. /\ TypeOK /\ PlacesInOrder /\ MainInPlace /\ TokensAreMessages(w) /\ MessagesHeld
      /\ PrintedInOrder /\ OwnTextOnly
      /\ WriterInPlace(w) /\ BytesAccounted(w) /\ PrintedSoFar(w)
    BY Parts
<1>1. /\ w \in Writers /\ w # Main /\ Main \in Threads /\ w \in Threads
      /\ pc \in [Threads -> MainLabels \cup WriterLabels] /\ length \in [Threads -> Nat]
    BY <1>0 DEF TypeOK, Ring!MessageRingTypeOK
<1> PICK size \in MessageSizes : /\ sizes' = Append(sizes, size)
                                 /\ length' = [length EXCEPT ![Main] = size]
    BY DEF Log
<1>2. /\ pc[Main] = "log" /\ pc'[Main] = "wait_bytes" /\ pc'[w] = pc[w]
      /\ UNCHANGED <<cells, write_idx, read_idx, loaded, writtenVars, semVars, stop_flag>>
      /\ UNCHANGED <<counts, buffer, starts, printed, leaked, waited>>
      /\ length'[w] = length[w] /\ length'[Main] = size
    BY <1>1 DEF Log, Goto
<1>3. /\ Current' = Current + 1 /\ sizes'[Current + 1] = size /\ Current \in Nat
      /\ \A m \in 1 .. Current : sizes'[m] = sizes[m]
  <2>1. sizes \in Seq(MessageSizes)
    BY <1>0 DEF TypeOK
  <2>2. Len(sizes) \in Nat
    BY <2>1, LenProperties
  <2>3. QED
    BY <2>1, <2>2, AppendProperties DEF Current
<1>4. /\ Pushed \in Nat /\ Pushed = Current /\ Pushed' = Pushed /\ Pushed = pushed_count
      /\ pop_count \in Nat /\ pop_count <= pushed_count
    BY <1>0, <1>1, <1>2, StateFacts DEF MainInPlace, Entering, Writing, Pushed
<1>5. PlacesInOrder'
  <2>1. \A m \in 1 .. Pushed : sizes'[m] = sizes[m]
    BY <1>3, <1>4
  <2>2. UNCHANGED starts
    BY <1>2
  <2>3. QED
    BY <1>0, <1>3, <1>4, <2>1, <2>2 DEF PlacesInOrder
<1>6. MainInPlace'
    BY <1>0, <1>2, <1>3, <1>4 DEF MainInPlace, Entering, Writing, counts
<1>7. MessagesHeld'
  <2>1. ASSUME NEW m \in pop_count + 1 .. pushed_count
        PROVE  Holds(m, Ring!Required(sizes[m]))' /\ sizes'[m] = sizes[m]
    <3>1. m \in 1 .. Current
      BY <1>4
    <3>2. sizes'[m] = sizes[m]
      BY <1>3, <3>1
    <3>3. Holds(m, Ring!Required(sizes[m]))
      BY <1>0 DEF MessagesHeld
    <3>4. QED
      BY <1>2, <3>2, <3>3 DEF Holds, Unit
  <2>2. QED
    BY <1>2, <2>1 DEF MessagesHeld, counts
<1>8. TokensAreMessages(w)'
    BY <1>0, <1>2, KeepsTokens
<1>9. WriterInPlace(w)'
  <2>1. /\ Popped(w)' = Popped(w)
        /\ pc[w] \in {"pop_exchange", "read_body"} => pop_count + 1 \in 1 .. Current
        /\ pc[w] \in {"return_bytes", "format"} => pop_count \in 1 .. Current
    BY <1>0, <1>2, <1>4 DEF TokensAreMessages, AboutToPop, Popped, counts, WriterInPlace
  <2>2. QED
    BY <1>0, <1>2, <1>3, <2>1 DEF WriterInPlace, counts
<1>10. BytesAccounted(w)'
  <2>1. InRing(w)' = InRing(w) /\ InRing(w) \in Nat
    BY <1>0, <1>1, <1>2, StateFacts, KeepsInRing DEF counts
  <2>2. BytesOf(w)' = BytesOf(w) /\ BytesOfMain' = BytesOfMain
    BY <1>2 DEF BytesOf, BytesOfMain, Ring!Required
  <2>3. ~waited
    BY <1>0, <1>2 DEF BytesAccounted, MainInPlace
  <2>4. sem' = sem /\ leaked' = leaked /\ leaked \in Nat
    BY <1>0, <1>2, ByteTypes DEF semVars, ByteNumbers
  <2>5. sem'[FreeBytes] + BytesOfMain' + BytesOf(w)' + leaked' =
          sem[FreeBytes] + BytesOfMain + BytesOf(w) + leaked /\ leaked' >= leaked
    BY <2>2, <2>4
  <2>6. QED
    BY <1>0, <1>2, <2>1, <2>3, <2>5, KeepsBytes
<1>11. /\ Len(printed) \in Nat /\ Len(printed) <= Current
       /\ \A i \in DOMAIN printed : i \in 1 .. Current
  <2>1. printed \in Seq(Seq(Ring!Units))
    BY <1>0 DEF TypeOK
  <2>2. Len(printed) \in Nat /\ DOMAIN printed = 1 .. Len(printed)
    BY <2>1, LenProperties
  <2>3. Len(printed) <= pop_count
    BY <1>0, <1>4 DEF PrintedSoFar
  <2>4. QED
    BY <1>4, <2>2, <2>3
<1>12. PrintedInOrder'
  <2>1. \A i \in DOMAIN printed : Message(i)' = Message(i) /\ sizes'[i] = sizes[i] /\ i <= Len(sizes')
    BY <1>3, <1>11 DEF Message, Current
  <2>2. QED
    BY <1>0, <1>2, <2>1 DEF PrintedInOrder
<1>13. OwnTextOnly'
  <2>1. \A i \in DOMAIN printed : sizes'[i] = sizes[i] /\ \A j \in 1 .. i : sizes'[j] = sizes[j]
    <3>1. \A i \in DOMAIN printed : i \in 1 .. Current /\ \A j \in 1 .. i : j \in 1 .. Current
      BY <1>3, <1>11
    <3>2. QED
      BY <1>3, <3>1
  <2>2. QED
    BY <1>0, <1>2, <2>1 DEF OwnTextOnly
<1>14. PrintedSoFar(w)'
  <2>1. \A j \in 1 .. pop_count : sizes'[j] = sizes[j]
    <3>1. \A j \in 1 .. pop_count : j \in 1 .. Current
      BY <1>3, <1>4
    <3>2. QED
      BY <1>3, <3>1
  <2>2. pc[w] \in {"return_bytes", "format"} =>
           sizes'[pop_count] = sizes[pop_count] /\ Message(pop_count)' = Message(pop_count)
    <3>1. pc[w] \in {"return_bytes", "format"} => pop_count \in 1 .. pop_count
      BY <1>0, <1>4 DEF WriterInPlace
    <3>2. QED
      BY <1>2, <2>1, <3>1 DEF Message, counts
  <2>3. QED
    BY <1>0, <1>2, <2>1, <2>2 DEF PrintedSoFar, counts
<1>15. QED
    BY <1>5, <1>6, <1>7, <1>8, <1>9, <1>10, <1>12, <1>13, <1>14, Parts

-----------------------------------------------------------------------------
(* The steps of try_push behind its test *)

\* A message enters the ring.
LEMMA PushExchangeKeeps ==
    ASSUME NEW w, Writers = {w}, IInv, TypeOK', PushExchange
    PROVE  IInv'
<1> USE LoggerFacts
<1> DEFINE R == Ring!Required(length[Main])
<1>0. /\ TypeOK /\ PlacesInOrder /\ MainInPlace /\ TokensAreMessages(w) /\ MessagesHeld
      /\ PrintedInOrder /\ OwnTextOnly
      /\ WriterInPlace(w) /\ BytesAccounted(w) /\ PrintedSoFar(w)
    BY Parts
<1>1. /\ w \in Writers /\ w # Main /\ Main \in Threads /\ w \in Threads
      /\ pc \in [Threads -> MainLabels \cup WriterLabels] /\ starts \in Seq(Nat)
    BY <1>0 DEF TypeOK
<1>2. /\ pc[Main] = "push_exchange" /\ loaded[Main] = write_idx /\ Current = Pushed + 1
      /\ length[Main] = sizes[Current] /\ pushed_count = Pushed /\ ~stop_flag
    BY <1>0 DEF PushExchange, Goto, MainInPlace, Entering, Writing
<1>3. /\ pc'[Main] = "write_length" /\ pc'[w] = pc[w]
      /\ write_idx' = Ring!Wrap(write_idx + R)
      /\ starts' = Append(starts, starts[Len(starts)] + R)
      /\ UNCHANGED <<cells, read_idx, loaded, length, writtenVars, semVars, stop_flag, counts>>
      /\ UNCHANGED <<buffer, sizes, printed, leaked, waited, sem>>
    BY <1>1, <1>2 DEF PushExchange, Goto, Ring!ExchangeWriteIdx, Ring!WriteIdxIsLoaded, semVars
<1>4. /\ Pushed \in Nat /\ Current \in Nat /\ Len(starts) = Pushed + 1
      /\ pop_count \in Nat /\ pushed_count \in Nat /\ pop_count <= pushed_count
      /\ Popped(w) \in pop_count .. pushed_count /\ Popped(w) \in Nat /\ InRing(w) \in Nat
      /\ \A i \in 1 .. Pushed + 1 : starts[i] \in Nat
      /\ R \in Nat /\ R > 0
    BY <1>0, <1>1, StateFacts, ByteTypes DEF ByteNumbers
<1> DEFINE next == starts[Pushed + 1] + R
<1>5. /\ Pushed' = Pushed + 1 /\ Current' = Current
      /\ starts'[Pushed + 2] = next /\ next \in Nat
      /\ \A i \in 1 .. Pushed + 1 : starts'[i] = starts[i]
  <2>1. Pushed + 1 \in 1 .. Pushed + 1 /\ starts[Pushed + 1] \in Nat /\ next \in Nat
    BY <1>4
  <2>2. starts' = Append(starts, next)
    BY <1>3, <1>4
  <2>3. /\ Len(starts') = Len(starts) + 1 /\ starts'[Len(starts) + 1] = next
        /\ \A i \in 1 .. Len(starts) : starts'[i] = starts[i]
    BY <1>1, <2>1, <2>2, AppendProperties
  <2>4. Pushed + 2 = Len(starts) + 1
    BY <1>4
  <2>5. Pushed' = Pushed + 1
    BY <1>4, <2>3 DEF Pushed
  <2>6. QED
    BY <1>3, <1>4, <2>1, <2>3, <2>4, <2>5 DEF Current
<1>6. PlacesInOrder'
  <2>1. starts'[1] = 0 /\ Current' \in {Pushed', Pushed' + 1}
    BY <1>0, <1>2, <1>4, <1>5 DEF PlacesInOrder
  <2>2. ASSUME NEW m \in 1 .. Pushed + 1
        PROVE  starts'[m + 1] = starts'[m] + Ring!Required(sizes[m])
    <3>1. CASE m = Pushed + 1
      BY <1>2, <1>4, <1>5, <3>1
    <3>2. CASE m # Pushed + 1
      <4>1. m \in 1 .. Pushed /\ m + 1 \in 1 .. Pushed + 1
        BY <1>4, <3>2
      <4>2. QED
        BY <1>0, <1>5, <4>1 DEF PlacesInOrder
    <3>3. QED
      BY <3>1, <3>2
  <2>3. ASSUME NEW i \in 1 .. Pushed + 2, NEW j \in 1 .. Pushed + 2, i < j
        PROVE  starts'[i] < starts'[j]
    <3>1. i \in 1 .. Pushed + 1 /\ starts'[i] = starts[i] /\ starts[i] \in Nat
      BY <1>4, <1>5, <2>3
    <3>2. CASE j = Pushed + 2
      <4>1. starts[i] <= starts[Pushed + 1] /\ starts[Pushed + 1] \in Nat
        <5>1. Pushed + 1 \in 1 .. Pushed + 1 /\ (i = Pushed + 1 \/ i < Pushed + 1)
          BY <1>4, <3>1
        <5>2. QED
          BY <1>0, <1>4, <3>1, <5>1 DEF PlacesInOrder
      <4>2. QED
        BY <1>4, <1>5, <3>1, <3>2, <4>1
    <3>3. CASE j # Pushed + 2
      <4>1. j \in 1 .. Pushed + 1
        BY <1>4, <3>3
      <4>2. QED
        BY <1>0, <1>5, <2>3, <3>1, <4>1 DEF PlacesInOrder
    <3>4. QED
      BY <3>2, <3>3
  <2>4. Pushed' + 1 = Pushed + 2
    BY <1>4, <1>5
  <2>5. QED
    BY <1>3, <1>5, <2>1, <2>2, <2>3, <2>4 DEF PlacesInOrder, Ring!Required
<1>7. MainInPlace'
  <2>1. write_idx = Ring!Wrap(starts[Pushed + 1])
    BY <1>0 DEF MainInPlace
  <2>2. Pushed + 1 \in 1 .. Pushed + 1 /\ starts[Pushed + 1] \in Int /\ R \in Int
    BY <1>4
  <2>3. write_idx' = Ring!Wrap(next)
    BY <1>3, <2>1, <2>2, WrapAdd
  <2>4. starts'[Pushed' + 1] = next /\ starts'[Pushed'] = starts[Pushed + 1]
    BY <1>4, <1>5, <2>2
  <2>5. write_idx' = Ring!Wrap(starts'[Pushed' + 1]) /\ loaded'[Main] = Ring!Wrap(starts'[Pushed'])
    BY <1>2, <1>3, <2>1, <2>3, <2>4
  <2>6. pushed_count' = Pushed' - 1 /\ Current' = Pushed' /\ length'[Main] = sizes'[Current']
    BY <1>2, <1>3, <1>4, <1>5 DEF counts
  <2>7. QED
    BY <1>2, <1>3, <2>5, <2>6 DEF MainInPlace, Entering, Writing
<1>8. MessagesHeld'
  <2>1. ASSUME NEW m \in pop_count + 1 .. pushed_count
        PROVE  Holds(m, Ring!Required(sizes[m]))'
    <3>1. m \in 1 .. Pushed + 1
      BY <1>2, <1>4
    <3>2. starts'[m] = starts[m] /\ Holds(m, Ring!Required(sizes[m]))
      BY <1>0, <1>5, <3>1 DEF MessagesHeld
    <3>3. QED
      BY <1>3, <3>2 DEF Holds, Unit, Ring!Required
  <2>2. UNCHANGED <<sizes, pop_count, pushed_count>>
    BY <1>3 DEF counts
  <2>3. QED
    BY <1>3, <2>1, <2>2 DEF MessagesHeld, Ring!Required
<1>9. TokensAreMessages(w)'
    BY <1>0, <1>3, KeepsTokens
<1>10. Popped(w)' = Popped(w) /\ starts'[Popped(w) + 1] = starts[Popped(w) + 1] /\ pop_count' = pop_count
  <2>1. Popped(w) + 1 \in 1 .. Pushed + 1
    BY <1>2, <1>4
  <2>2. QED
    BY <1>3, <1>5, <2>1 DEF Popped, counts
<1>11. WriterInPlace(w)'
  <2>1. starts'[pop_count + 1] = starts[pop_count + 1]
    <3>1. pop_count + 1 \in 1 .. Pushed + 1
      BY <1>2, <1>4
    <3>2. QED
      BY <1>5, <3>1
  <2>2. QED
    BY <1>0, <1>3, <1>10, <2>1 DEF WriterInPlace
<1>12. BytesAccounted(w)'
  <2>1. InRing(w)' = InRing(w) + R
    <3>1. starts'[Pushed' + 1] = next /\ starts[Pushed + 1] \in Nat /\ starts[Popped(w) + 1] \in Nat
      BY <1>2, <1>4, <1>5
    <3>2. QED
      BY <1>4, <1>10, <3>1 DEF InRing
  <2>2. InRing(w) + R < Capacity /\ ~waited
    BY <1>0, <1>2 DEF BytesAccounted
  <2>3. BytesOfMain = R /\ BytesOfMain' = 0 /\ BytesOf(w)' = BytesOf(w)
    BY <1>2, <1>3 DEF BytesOfMain, BytesOf, Ring!Required
  <2>4. sem[FreeBytes] \in Nat /\ leaked \in Nat /\ BytesOf(w) \in Nat
    BY <1>0, <1>1, ByteTypes DEF ByteNumbers
  <2>5. sem'[FreeBytes] + BytesOfMain' + InRing(w)' + BytesOf(w)' + leaked' = Capacity
    BY <1>0, <1>3, <1>4, <2>1, <2>2, <2>3, <2>4 DEF BytesAccounted
  <2>6. QED
    BY <1>0, <1>3, <1>4, <2>1, <2>2, <2>5 DEF BytesAccounted
<1>13. PrintedSoFar(w)' /\ PrintedInOrder' /\ OwnTextOnly'
  <2>1. UNCHANGED <<printed, sizes, pop_count, buffer>> /\ UNCHANGED <<printed, sizes>>
    BY <1>3 DEF counts
  <2>2. PrintedSoFar(w)'
    BY <1>0, <1>3, <2>1, KeepsPrinted
  <2>3. QED
    BY <1>0, <2>1, <2>2, KeepsText
<1>14. QED
    BY <1>6, <1>7, <1>8, <1>9, <1>11, <1>12, <1>13, Parts

\* While main writes, what it writes and what the writer has not copied out yet span no
\* more than the ring: the semaphore counts the bytes of both.
LEMMA Window ==
    ASSUME NEW w, Writers = {w}, IInv, ~waited
    PROVE  /\ pop_count + 1 \in 1 .. Pushed + 1
           /\ starts[pop_count + 1] <= starts[Pushed + 1]
           /\ starts[Pushed + 1] <= starts[pop_count + 1] + Capacity
<1> USE LoggerFacts
<1>0. /\ TypeOK /\ PlacesInOrder /\ MainInPlace /\ TokensAreMessages(w)
      /\ WriterInPlace(w) /\ BytesAccounted(w) /\ w \in Writers
    BY Parts
<1>1. /\ Pushed \in Nat /\ pop_count \in Nat /\ pushed_count \in Nat
      /\ pop_count <= pushed_count /\ pushed_count <= Pushed
      /\ \A i \in 1 .. Pushed + 1 : starts[i] \in Nat
      /\ Popped(w) \in pop_count .. pushed_count /\ InRing(w) \in Nat
    BY <1>0, StateFacts
<1>2. /\ sem[FreeBytes] \in Nat /\ leaked \in Nat /\ BytesOf(w) \in Nat /\ BytesOfMain \in Nat
    BY <1>0, ByteTypes DEF ByteNumbers
<1>3. InRing(w) + BytesOf(w) <= Capacity
    BY <1>0, <1>1, <1>2 DEF BytesAccounted
<1>4. pop_count + 1 \in 1 .. Pushed + 1 /\ Pushed + 1 \in 1 .. Pushed + 1
    BY <1>1
<1>5. starts[pop_count + 1] \in Nat /\ starts[Pushed + 1] \in Nat
    BY <1>1, <1>4
<1>6. CASE pc[w] = "read_body"
  <2>1. Popped(w) = pop_count + 1 /\ length[w] = sizes[pop_count + 1]
    BY <1>0, <1>6 DEF Popped, WriterInPlace
  <2>2. pop_count + 1 \in 1 .. Pushed /\ pop_count + 2 \in 1 .. Pushed + 1
    BY <1>1, <2>1
  <2>3. starts[(pop_count + 1) + 1] = starts[pop_count + 1] + Ring!Required(sizes[pop_count + 1])
    BY <1>0, <2>2 DEF PlacesInOrder
  <2>4. (pop_count + 1) + 1 = pop_count + 2 /\ starts[pop_count + 2] \in Nat
    BY <1>1, <2>2
  <2>5. BytesOf(w) = Ring!Required(sizes[pop_count + 1])
    BY <1>6, <2>1 DEF BytesOf
  <2>6. InRing(w) = starts[Pushed + 1] - starts[pop_count + 2]
    BY <2>1, <2>4 DEF InRing
  <2>7. starts[Pushed + 1] - starts[pop_count + 1] = InRing(w) + BytesOf(w)
    BY <1>2, <1>5, <2>3, <2>4, <2>5, <2>6
  <2>8. QED
    BY <1>1, <1>2, <1>3, <1>4, <1>5, <2>7
<1>7. CASE pc[w] # "read_body"
  <2>1. InRing(w) = starts[Pushed + 1] - starts[pop_count + 1]
    BY <1>1, <1>7 DEF InRing, Popped
  <2>2. QED
    BY <1>1, <1>2, <1>3, <1>4, <1>5, <2>1
<1>8. QED
    BY <1>6, <1>7

\* The message main writes starts behind the messages in the ring, and ends before they
\* come round again.
LEMMA HeldPlaces ==
    ASSUME NEW w, Writers = {w}, IInv, pc[Main] \in {"write_length", "write_body"}
    PROVE  /\ Pushed \in 1 .. Pushed /\ Current = Pushed /\ pushed_count = Pushed - 1
           /\ starts[Pushed] \in Nat /\ sizes[Pushed] \in Nat
           /\ starts[Pushed + 1] = starts[Pushed] + LengthSize + sizes[Pushed]
           /\ LengthSize + sizes[Pushed] <= Capacity
           /\ \A m \in pop_count + 1 .. pushed_count : \A k \in 1 .. Ring!Required(sizes[m]) :
                 /\ starts[m] + k - 1 \in Nat /\ starts[m] + k - 1 < starts[Pushed]
                 /\ starts[Pushed + 1] <= starts[m] + k - 1 + Capacity
<1> USE LoggerFacts
<1>0. /\ TypeOK /\ PlacesInOrder /\ MainInPlace /\ TokensAreMessages(w)
      /\ WriterInPlace(w) /\ BytesAccounted(w) /\ w \in Writers
    BY Parts
<1>1. /\ Current = Pushed /\ pushed_count = Pushed - 1 /\ ~waited
    BY <1>0 DEF MainInPlace, Writing, BytesAccounted
<1>2. /\ Pushed \in Nat /\ pop_count \in Nat /\ pushed_count \in Nat
      /\ pop_count <= pushed_count
      /\ \A i \in 1 .. Pushed + 1 : starts[i] \in Nat
      /\ \A m \in 1 .. Pushed : /\ sizes[m] \in Nat /\ LengthSize + sizes[m] < Capacity
                              /\ Ring!Required(sizes[m]) \in Nat
    BY <1>0, <1>1, StateFacts
<1>3. Pushed \in 1 .. Pushed /\ Pushed \in 1 .. Pushed + 1 /\ Pushed + 1 \in 1 .. Pushed + 1
    BY <1>1, <1>2
<1>4. /\ starts[Pushed] \in Nat /\ starts[Pushed + 1] \in Nat /\ sizes[Pushed] \in Nat
      /\ LengthSize + sizes[Pushed] <= Capacity
    BY <1>2, <1>3
<1>5. starts[Pushed + 1] = starts[Pushed] + LengthSize + sizes[Pushed]
  <2>1. starts[Pushed + 1] = starts[Pushed] + Ring!Required(sizes[Pushed])
    BY <1>0, <1>3 DEF PlacesInOrder
  <2>2. QED
    BY <1>4, <2>1 DEF Ring!Required
<1>6. ASSUME NEW m \in pop_count + 1 .. pushed_count, NEW k \in 1 .. Ring!Required(sizes[m])
      PROVE  /\ starts[m] + k - 1 \in Nat /\ starts[m] + k - 1 < starts[Pushed]
             /\ starts[Pushed + 1] <= starts[m] + k - 1 + Capacity
  <2>1. m \in 1 .. Pushed /\ m + 1 \in 1 .. Pushed + 1 /\ m + 1 <= Pushed
    BY <1>1, <1>2
  <2>2. /\ starts[m + 1] = starts[m] + Ring!Required(sizes[m])
        /\ starts[m] \in Nat /\ starts[m + 1] \in Nat /\ Ring!Required(sizes[m]) \in Nat
    BY <1>0, <1>2, <2>1 DEF PlacesInOrder
  <2>3. starts[m + 1] <= starts[Pushed]
    <3>1. m + 1 < Pushed \/ m + 1 = Pushed
      BY <1>2, <2>1
    <3>2. QED
      BY <1>0, <1>3, <1>4, <2>1, <2>2, <3>1 DEF PlacesInOrder
  <2>4. starts[pop_count + 1] <= starts[m] /\ starts[pop_count + 1] \in Nat
    <3>1. /\ pop_count + 1 < m \/ pop_count + 1 = m
          /\ pop_count + 1 \in 1 .. Pushed + 1 /\ m \in 1 .. Pushed + 1
      BY <1>1, <1>2, <2>1
    <3>2. starts[pop_count + 1] \in Nat
      BY <1>2, <3>1
    <3>3. pop_count + 1 < m => starts[pop_count + 1] < starts[m]
      BY <1>0, <3>1 DEF PlacesInOrder
    <3>4. QED
      BY <2>2, <3>1, <3>2, <3>3
  <2>5. starts[Pushed + 1] <= starts[pop_count + 1] + Capacity
    BY <1>1, Window
  <2>6. PICK a \in Nat, b \in Nat, c \in Nat, d \in Nat, e \in Nat, r \in Nat :
           /\ a = starts[m] /\ b = starts[m + 1] /\ c = starts[Pushed] /\ d = starts[Pushed + 1]
           /\ e = starts[pop_count + 1] /\ r = Ring!Required(sizes[m])
    BY <1>4, <2>2, <2>4
  <2>7. k \in 1 .. r /\ b = a + r /\ b <= c /\ e <= a /\ d <= e + Capacity
    BY <2>2, <2>3, <2>4, <2>5, <2>6
  <2>8. a + k - 1 \in Nat /\ a + k - 1 < c /\ d <= a + k - 1 + Capacity
    BY <2>7
  <2>9. QED
    BY <2>6, <2>8
<1>7. QED
    BY <1>1, <1>3, <1>4, <1>5, <1>6

\* So writing between its start and its end spares them.
LEMMA CopyKeepsHeld ==
    ASSUME NEW w, Writers = {w}, IInv, pc[Main] \in {"write_length", "write_body"},
           NEW q \in Nat, NEW n \in Nat, starts[Pushed] <= q, q + n <= starts[Pushed + 1],
           \A r \in Nat : r < q /\ q + n <= r + Capacity
                            => cells'[Ring!Wrap(r)] = cells[Ring!Wrap(r)]
    PROVE  \A m \in pop_count + 1 .. pushed_count : \A k \in 1 .. Ring!Required(sizes[m]) :
                 cells'[Ring!Wrap(starts[m] + k - 1)] = Unit(m, k)
<1> USE LoggerFacts
<1>1. MessagesHeld
    BY Parts
<1> SUFFICES ASSUME NEW m \in pop_count + 1 .. pushed_count,
                    NEW k \in 1 .. Ring!Required(sizes[m])
             PROVE  cells'[Ring!Wrap(starts[m] + k - 1)] = Unit(m, k)
    OBVIOUS
<1>2. PICK r \in Nat : /\ r = starts[m] + k - 1 /\ r < starts[Pushed]
                       /\ starts[Pushed + 1] <= r + Capacity
    BY HeldPlaces
<1>3. PICK c \in Nat, d \in Nat : c = starts[Pushed] /\ d = starts[Pushed + 1]
  <2>1. starts[Pushed] \in Nat /\ starts[Pushed + 1] \in Nat
    BY HeldPlaces
  <2>2. QED
    BY <2>1
<1>4. r < q /\ q + n <= r + Capacity
    BY <1>2, <1>3
<1>5. cells'[Ring!Wrap(r)] = cells[Ring!Wrap(r)]
    BY <1>4
<1>6. cells[Ring!Wrap(starts[m] + k - 1)] = Unit(m, k)
    BY <1>1 DEF MessagesHeld, Holds
<1>7. QED
    BY <1>2, <1>5, <1>6

\* Writing into the ring is about MessagesHeld and leaves the rest.
LEMMA PushCopyKeeps ==
    ASSUME NEW w, Writers = {w}, IInv, TypeOK', PushLength \/ PushBody, MessagesHeld'
    PROVE  IInv'
<1> USE LoggerFacts
<1>0. /\ TypeOK /\ PlacesInOrder /\ MainInPlace /\ TokensAreMessages(w)
      /\ PrintedInOrder /\ OwnTextOnly
      /\ WriterInPlace(w) /\ BytesAccounted(w) /\ PrintedSoFar(w)
    BY Parts
<1>1. /\ w \in Writers /\ w # Main /\ Main \in Threads /\ w \in Threads
      /\ pc \in [Threads -> MainLabels \cup WriterLabels]
    BY <1>0 DEF TypeOK
<1>2. /\ pc[Main] \in {"write_length", "write_body"} /\ pc'[Main] \in {"write_body", "notify_one"}
      /\ pc'[w] = pc[w]
      /\ UNCHANGED <<write_idx, read_idx, loaded, length, writtenVars, semVars, stop_flag, counts>>
      /\ UNCHANGED <<buffer, starts, sizes, printed, leaked, waited, sem, pushed_count, pop_count>>
    BY <1>1 DEF PushLength, PushBody, Goto, Ring!WriteLength, Ring!WriteBody, OnlyRing, semVars,
       history, counts
<1>3. PlacesInOrder' /\ PrintedInOrder' /\ OwnTextOnly' /\ TokensAreMessages(w)' /\ WriterInPlace(w)'
    BY <1>0, <1>2, KeepsPlaces, KeepsText, KeepsTokens, KeepsWriter
<1>4. PrintedSoFar(w)'
    BY <1>0, <1>2, KeepsPrinted
<1>5. MainInPlace'
    BY <1>0, <1>2 DEF MainInPlace, Pushed, Current, Entering, Writing
<1>6. BytesAccounted(w)'
  <2>1. InRing(w)' = InRing(w)
    BY <1>2, KeepsInRing
  <2>2. BytesOf(w)' = BytesOf(w) /\ BytesOfMain' = BytesOfMain
    BY <1>2 DEF BytesOf, BytesOfMain, Ring!Required
  <2>3. ~waited
    BY <1>0, <1>2 DEF BytesAccounted, MainInPlace
  <2>4. InRing(w) \in Nat /\ leaked \in Nat
    BY <1>0, <1>1, StateFacts, ByteTypes DEF ByteNumbers
  <2>5. leaked' >= leaked
    BY <1>2, <2>4
  <2>6. QED
    BY <1>0, <1>2, <2>1, <2>2, <2>3, <2>4, <2>5, KeepsBytes
<1>7. QED
    BY <1>3, <1>4, <1>5, <1>6, Parts

\* The copy of the length, which may wrap, keeps the invariant.
LEMMA PushLengthKeeps ==
    ASSUME NEW w, Writers = {w}, IInv, TypeOK', PushLength
    PROVE  IInv'
<1> USE LoggerFacts
<1>0. TypeOK /\ MainInPlace
    BY Parts
<1>1. /\ pc[Main] = "write_length" /\ pc'[Main] = "write_body"
      /\ UNCHANGED <<starts, sizes, pushed_count, pop_count>>
      /\ Ring!CopyTo(loaded[Main], Ring!Prefix(length[Main]))
    BY <1>0 DEF PushLength, Goto, OnlyRing, history, counts, Ring!WriteLength, TypeOK, Threads
<1>2. /\ starts[Pushed] \in Nat /\ sizes[Pushed] \in Nat /\ LengthSize <= Capacity
      /\ starts[Pushed] + LengthSize <= starts[Pushed + 1]
      /\ pc[Main] \in {"write_length", "write_body"}
  <2>1. /\ starts[Pushed] \in Nat /\ sizes[Pushed] \in Nat
        /\ starts[Pushed + 1] = starts[Pushed] + LengthSize + sizes[Pushed]
        /\ LengthSize + sizes[Pushed] <= Capacity
    BY <1>1, HeldPlaces
  <2>2. PICK a \in Nat, b \in Nat : a = starts[Pushed] /\ b = sizes[Pushed]
    BY <2>1
  <2>3. LengthSize + b <= Capacity /\ starts[Pushed + 1] = a + LengthSize + b
    BY <2>1, <2>2
  <2>4. QED
    BY <1>1, <2>1, <2>2, <2>3
<1>3. PICK q \in Nat : q = starts[Pushed]
    BY <1>2
<1>4. PICK units : /\ units = Ring!Prefix(sizes[Pushed]) /\ Len(units) = LengthSize
                  /\ \A k \in 1 .. LengthSize : units[k] = [length |-> sizes[Pushed], part |-> k]
    BY <1>2, PrefixFacts
<1>5. Ring!CopyTo(Ring!Wrap(q), units)
  <2>1. loaded[Main] = Ring!Wrap(starts[Pushed]) /\ length[Main] = sizes[Pushed]
    BY <1>0, <1>1 DEF MainInPlace, Writing
  <2>2. QED
    BY <1>1, <1>3, <1>4, <2>1
<1>6. LengthSize \in 0 .. Capacity
    BY <1>2
<1>7. /\ \A k \in 1 .. LengthSize : cells'[Ring!Wrap(q + k - 1)] = units[k]
      /\ \A r \in Nat : r < q /\ q + LengthSize <= r + Capacity
                            => cells'[Ring!Wrap(r)] = cells[Ring!Wrap(r)]
    BY <1>4, <1>5, <1>6, CopyPlaces
<1>8. starts[Pushed] <= q /\ q + LengthSize <= starts[Pushed + 1]
    BY <1>2, <1>3
<1>9. \A m \in pop_count + 1 .. pushed_count : \A k \in 1 .. Ring!Required(sizes[m]) :
            cells'[Ring!Wrap(starts[m] + k - 1)] = Unit(m, k)
    BY <1>2, <1>7, <1>8, CopyKeepsHeld
<1>10. Pushed' = Pushed
    BY <1>1 DEF Pushed
<1>11. Holds(Pushed, LengthSize)'
  <2>1. PICK p : p = Pushed
    OBVIOUS
  <2>2. starts'[p] = q /\ sizes' = sizes /\ Pushed' = p
    BY <1>1, <1>3, <1>10, <2>1
  <2>3. ASSUME NEW k \in 1 .. LengthSize
        PROVE  cells'[Ring!Wrap(q + k - 1)] = [length |-> sizes[p], part |-> k] /\ k <= LengthSize
    BY <1>4, <1>7, <2>1
  <2>4. \A k \in 1 .. LengthSize : cells'[Ring!Wrap(starts'[p] + k - 1)] = Unit(p, k)'
    BY <2>2, <2>3 DEF Unit
  <2>5. Holds(p, LengthSize)'
    BY <2>4 DEF Holds
  <2>6. QED
    BY <2>2, <2>5
<1>12. \A m \in pop_count + 1 .. pushed_count : Holds(m, Ring!Required(sizes[m]))'
    BY <1>1, <1>9 DEF Holds, Unit, Ring!Required
<1>13. MessagesHeld'
    BY <1>1, <1>11, <1>12 DEF MessagesHeld, Ring!Required
<1>14. QED
    BY <1>13, PushCopyKeeps

\* The copy of the body, which may wrap, keeps the invariant and completes the message.
LEMMA PushBodyKeeps ==
    ASSUME NEW w, Writers = {w}, IInv, TypeOK', PushBody
    PROVE  IInv'
<1> USE LoggerFacts
<1>0. TypeOK /\ MainInPlace /\ MessagesHeld
    BY Parts
<1>1. /\ pc[Main] = "write_body" /\ pc'[Main] = "notify_one"
      /\ UNCHANGED <<starts, sizes, pushed_count, pop_count>>
      /\ Ring!CopyTo(Ring!Wrap(loaded[Main] + LengthSize), Message(Current))
    BY <1>0 DEF PushBody, Goto, OnlyRing, history, counts, Ring!WriteBody, TypeOK, Threads
<1>2. /\ Pushed \in 1 .. Pushed /\ Current = Pushed
      /\ starts[Pushed] \in Nat /\ sizes[Pushed] \in Nat
      /\ starts[Pushed + 1] = starts[Pushed] + LengthSize + sizes[Pushed]
      /\ LengthSize + sizes[Pushed] <= Capacity
      /\ pc[Main] \in {"write_length", "write_body"}
    BY <1>1, HeldPlaces
<1>3. PICK n \in Nat, q \in Nat : n = sizes[Pushed] /\ q = starts[Pushed] + LengthSize
    BY <1>2
<1>4. /\ n \in 0 .. Capacity
      /\ starts[Pushed] <= q /\ q + n <= starts[Pushed + 1]
    BY <1>2, <1>3
<1>5. PICK units : /\ units = Message(Current) /\ Len(units) = n
                  /\ \A k \in 1 .. n : units[k] = [id |-> Pushed, part |-> k]
  <2>1. Pushed \in 1 .. Len(sizes) /\ sizes \in Seq(MessageSizes)
    BY <1>0, <1>2 DEF TypeOK, Current
  <2>2. /\ Len(Message(Pushed)) = n
        /\ \A k \in 1 .. n : Message(Pushed)[k] = [id |-> Pushed, part |-> k]
    BY <1>3, <2>1, MessageFacts
  <2>3. QED
    BY <1>2, <2>2
<1>6. Ring!CopyTo(Ring!Wrap(q), units)
  <2>1. starts[Pushed] \in Int /\ LengthSize \in Int
    BY <1>2
  <2>2. Ring!Wrap(Ring!Wrap(starts[Pushed]) + LengthSize) = Ring!Wrap(q)
    BY <1>3, <2>1, WrapAdd
  <2>3. loaded[Main] = Ring!Wrap(starts[Pushed])
    BY <1>0, <1>1 DEF MainInPlace, Writing
  <2>4. QED
    BY <1>1, <1>5, <2>2, <2>3
<1>7. /\ \A k \in 1 .. n : cells'[Ring!Wrap(q + k - 1)] = units[k]
      /\ \A r \in Nat : r < q /\ q + n <= r + Capacity
                            => cells'[Ring!Wrap(r)] = cells[Ring!Wrap(r)]
    BY <1>4, <1>5, <1>6, CopyPlaces
<1>8. \A m \in pop_count + 1 .. pushed_count : \A k \in 1 .. Ring!Required(sizes[m]) :
            cells'[Ring!Wrap(starts[m] + k - 1)] = Unit(m, k)
    BY <1>2, <1>4, <1>7, CopyKeepsHeld
<1>9. Pushed' = Pushed /\ Ring!Required(sizes[Pushed]) = LengthSize + n
    BY <1>1, <1>3 DEF Pushed, Ring!Required
<1>10. Holds(Pushed, Ring!Required(sizes[Pushed]))'
  <2>1. ASSUME NEW k \in 1 .. LengthSize + n
        PROVE  cells'[Ring!Wrap(starts[Pushed] + k - 1)] = Unit(Pushed, k)
    <3>1. CASE k <= LengthSize
      <4>1. cells[Ring!Wrap(starts[Pushed] + k - 1)] = Unit(Pushed, k)
        BY <1>0, <1>1, <3>1 DEF MessagesHeld, Holds
      <4>2. PICK r \in Nat : r = starts[Pushed] + k - 1 /\ r < q /\ q + n <= r + Capacity
        BY <1>2, <1>3, <3>1
      <4>3. QED
        BY <1>7, <4>1, <4>2
    <3>2. CASE ~(k <= LengthSize)
      <4>1. PICK l \in 1 .. n : l = k - LengthSize /\ q + l - 1 = starts[Pushed] + k - 1
        BY <1>2, <1>3, <3>2
      <4>2. cells'[Ring!Wrap(q + l - 1)] = units[l]
        BY <1>7
      <4>3. QED
        BY <1>5, <3>2, <4>1, <4>2 DEF Unit
    <3>3. QED
      BY <3>1, <3>2
  <2>2. \A k \in 1 .. LengthSize + n : Unit(Pushed, k)' = Unit(Pushed, k)
    BY <1>1, <1>9 DEF Unit
  <2>3. Ring!Required(sizes[Pushed])' = LengthSize + n
    BY <1>1, <1>9 DEF Ring!Required
  <2>4. QED
    BY <1>1, <1>9, <2>1, <2>2, <2>3 DEF Holds
<1>11. \A m \in pop_count + 1 .. pushed_count : Holds(m, Ring!Required(sizes[m]))'
    BY <1>1, <1>8 DEF Holds, Unit, Ring!Required
<1>12. MessagesHeld'
    BY <1>1, <1>10, <1>11 DEF MessagesHeld, Ring!Required
<1>13. QED
    BY <1>12, PushCopyKeeps

\* A message that is written is announced: now the writer may pop it.
LEMMA NotifyWrittenKeeps ==
    ASSUME NEW w, Writers = {w}, IInv, TypeOK', NotifyWritten
    PROVE  IInv'
<1> USE LoggerFacts
<1>0. /\ TypeOK /\ PlacesInOrder /\ MainInPlace /\ TokensAreMessages(w) /\ MessagesHeld
      /\ PrintedInOrder /\ OwnTextOnly
      /\ WriterInPlace(w) /\ BytesAccounted(w) /\ PrintedSoFar(w)
    BY Parts
<1>1. /\ w \in Writers /\ w # Main /\ Main \in Threads /\ w \in Threads
      /\ pc \in [Threads -> MainLabels \cup WriterLabels]
      /\ counter \in Int /\ pop_count \in Nat /\ pushed_count \in Nat
    BY <1>0 DEF TypeOK, Written!NotifierTypeOK
<1>2. /\ pc[Main] = "notify_one" /\ pc'[Main] = "log" /\ pc'[w] = pc[w]
      /\ pushed_count' = pushed_count + 1 /\ counter' = counter + 1
      /\ UNCHANGED <<cells, write_idx, read_idx, loaded, length, semVars, stop_flag, pop_count>>
      /\ UNCHANGED <<expected, buffer, starts, sizes, printed, leaked, waited, sem>>
    BY <1>1 DEF NotifyWritten, Goto, ringVars, history, semVars, Written!NotifyOne
<1>3. PlacesInOrder' /\ PrintedInOrder' /\ OwnTextOnly' /\ WriterInPlace(w)'
    BY <1>0, <1>2, KeepsPlaces, KeepsText, KeepsWriter
<1>4. PrintedSoFar(w)'
    BY <1>0, <1>2, KeepsPrinted
<1>5. /\ pushed_count = Pushed - 1 /\ Current = Pushed /\ ~stop_flag /\ Pushed \in Nat
  <2>1. pushed_count = Pushed - 1 /\ Current = Pushed /\ ~stop_flag
    BY <1>0, <1>2 DEF MainInPlace, Writing
  <2>2. QED
    BY <1>0, <1>1, <2>1, StateFacts
<1>6. MainInPlace'
    BY <1>0, <1>1, <1>2, <1>5 DEF MainInPlace, Pushed, Current, Entering, Writing
<1>7. TokensAreMessages(w)'
  <2>1. /\ counter >= 0 /\ counter' >= 0 /\ (counter > 0 => counter' > 0)
        /\ pop_count <= pushed_count'
        /\ AboutToPop(w) => pop_count < pushed_count'
    BY <1>0, <1>1, <1>2 DEF TokensAreMessages
  <2>2. AboutToPop(w)' <=> AboutToPop(w)
    BY <1>2 DEF AboutToPop
  <2>3. ~stop_flag => counter' + pop_count + (IF AboutToPop(w) \/ pc[w] = "check_stop" THEN 1 ELSE 0)
                         <= pushed_count'
    BY <1>0, <1>1, <1>2 DEF TokensAreMessages
  <2>4. /\ pc'[w] = "sleep" => expected'[w] <= 0
        /\ pc'[w] = "take" => expected'[w] > 0 \/ counter' > 0
    BY <1>0, <1>2, <2>1 DEF TokensAreMessages
  <2>5. (~stop_flag => counter + pop_count + (IF AboutToPop(w) \/ pc[w] = "check_stop" THEN 1 ELSE 0)
                         <= pushed_count)'
    BY <1>2, <2>2, <2>3
  <2>6. QED
    BY <1>2, <2>1, <2>2, <2>4, <2>5 DEF TokensAreMessages
<1>8. MessagesHeld'
  <2>1. ASSUME NEW m \in pop_count + 1 .. pushed_count + 1
        PROVE  Holds(m, Ring!Required(sizes[m]))
    <3>1. CASE m = pushed_count + 1
      BY <1>0, <1>1, <1>2, <1>5, <3>1 DEF MessagesHeld
    <3>2. CASE m # pushed_count + 1
      <4>1. m \in pop_count + 1 .. pushed_count
        BY <1>1, <3>2
      <4>2. QED
        BY <1>0, <4>1 DEF MessagesHeld
    <3>3. QED
      BY <3>1, <3>2
  <2>2. \A m \in pop_count + 1 .. pushed_count + 1 : Holds(m, Ring!Required(sizes[m]))'
    BY <1>2, <2>1 DEF Holds, Unit, Ring!Required
  <2>3. QED
    BY <1>2, <2>2 DEF MessagesHeld, Ring!Required
<1>9. BytesAccounted(w)'
  <2>1. InRing(w)' = InRing(w)
    BY <1>2, KeepsInRing
  <2>2. BytesOf(w)' = BytesOf(w) /\ BytesOfMain' = BytesOfMain
    BY <1>2 DEF BytesOf, BytesOfMain, Ring!Required
  <2>3. ~waited
    BY <1>0, <1>2, <1>5 DEF BytesAccounted
  <2>4. InRing(w) \in Nat /\ leaked \in Nat
    BY <1>0, <1>1, StateFacts, ByteTypes DEF ByteNumbers
  <2>5. leaked' >= leaked /\ pc'[Main] # "push_exchange"
    BY <1>2, <2>4
  <2>6. QED
    BY <1>0, <1>2, <2>1, <2>2, <2>3, <2>4, <2>5, KeepsBytes
<1>10. QED
    BY <1>3, <1>4, <1>6, <1>7, <1>8, <1>9, Parts

-----------------------------------------------------------------------------
(* The steps of the writer *)

\* A writer that has taken a token finds a message.
LEMMA NeverEmpty ==
    ASSUME NEW w, Writers = {w}, IInv, pc[w] = "check_empty"
    PROVE  ~Ring!LooksEmpty(w)
<1> USE LoggerFacts
<1>0. /\ TypeOK /\ PlacesInOrder /\ MainInPlace /\ TokensAreMessages(w)
      /\ WriterInPlace(w) /\ BytesAccounted(w) /\ w \in Writers
    BY Parts
<1>1. /\ pop_count \in Nat /\ pushed_count \in Nat /\ Pushed \in Nat /\ pushed_count <= Pushed
      /\ InRing(w) \in Nat
    BY <1>0, StateFacts
<1>2. pop_count < pushed_count /\ Popped(w) = pop_count /\ loaded[w] = read_idx
    BY <1>0, <1>1 DEF TokensAreMessages, AboutToPop, Popped, WriterInPlace
<1>3. InRing(w) # 0
    BY <1>0, <1>1, <1>2, EmptyRing
<1>4. read_idx \in Nat
    BY <1>0 DEF TypeOK, Ring!MessageRingTypeOK, Ring!Slots
<1>5. read_idx # write_idx
  <2>1. SUFFICES ASSUME read_idx = write_idx PROVE FALSE
    OBVIOUS
  <2>2. write_idx - read_idx = InRing(w)
    BY <1>0, <1>4, <2>1, IndexDistance
  <2>3. QED
    BY <1>1, <1>3, <1>4, <2>1, <2>2
<1>6. QED
    BY <1>2, <1>5 DEF Ring!LooksEmpty

\* The steps in which the writer waits for a message and looks for it.
LEMMA WriterWaitKeeps ==
    ASSUME NEW w, Writers = {w}, IInv, TypeOK',
           \/ WaitLoad(w) \/ WakeUp(w) \/ TakeToken(w) \/ TakeTokenFails(w) \/ CheckStop(w)
           \/ PopLoad(w) \/ PopCheckEmpty(w)
    PROVE  IInv'
<1> USE LoggerFacts
<1>0. /\ TypeOK /\ PlacesInOrder /\ MainInPlace /\ TokensAreMessages(w) /\ MessagesHeld
      /\ PrintedInOrder /\ OwnTextOnly
      /\ WriterInPlace(w) /\ BytesAccounted(w) /\ PrintedSoFar(w)
    BY Parts
<1>1. /\ w \in Writers /\ w # Main /\ Main \in Threads /\ w \in Threads
      /\ pc \in [Threads -> MainLabels \cup WriterLabels]
      /\ loaded \in [Threads -> Ring!Slots] /\ expected \in [Writers -> Int]
      /\ counter \in Int /\ pop_count \in Nat /\ pushed_count \in Nat
    BY <1>0 DEF TypeOK, Written!NotifierTypeOK, Ring!MessageRingTypeOK
<1>2. /\ UNCHANGED <<cells, write_idx, read_idx, length, semVars, stop_flag, counts>>
      /\ UNCHANGED <<buffer, starts, sizes, printed, leaked, waited, sem, pushed_count, pop_count>>
      /\ pc'[Main] = pc[Main] /\ loaded'[Main] = loaded[Main]
    BY <1>1 DEF WaitLoad, WakeUp, TakeToken, TakeTokenFails, CheckStop, PopLoad, PopCheckEmpty,
       OnlyWritten, OnlyControl, OnlyRing, Goto, ringVars, history, semVars, counts, Ring!LoadReadIdx
<1>3. /\ pc[w] \in {"wait", "sleep", "take", "check_stop", "pop", "check_empty"}
      /\ pc'[w] \in {"wait", "sleep", "take", "check_stop", "pop", "check_empty", "left",
                     "read_length"}
    BY <1>1, NeverEmpty DEF WaitLoad, WakeUp, TakeToken, TakeTokenFails, CheckStop, PopLoad,
       PopCheckEmpty, Goto
<1>4. PlacesInOrder' /\ PrintedInOrder' /\ OwnTextOnly'
    BY <1>0, <1>2, KeepsPlaces, KeepsText
<1>5. PrintedSoFar(w)'
  <2>1. pc[w] \notin Unprinted /\ pc'[w] \notin Unprinted
    BY <1>3 DEF Unprinted
  <2>2. QED
    BY <1>0, <1>2, <2>1, KeepsPrinted
<1>6. MainInPlace' /\ MessagesHeld'
  <2>1. length'[Main] = length[Main] /\ pc'[Main] = pc[Main]
    BY <1>2
  <2>2. MainInPlace'
    BY <1>0, <1>2, <2>1, KeepsMain
  <2>3. QED
    BY <1>0, <1>2, <2>2, KeepsHeld
<1>7. WriterInPlace(w)'
  <2>1. Popped(w)' = Popped(w)
    BY <1>2, <1>3 DEF Popped
  <2>2. pc'[w] \in {"check_empty", "read_length"} => loaded'[w] = read_idx
    <3>1. CASE PopLoad(w)
      BY <1>1, <3>1 DEF PopLoad, Ring!LoadReadIdx
    <3>2. CASE PopCheckEmpty(w)
      BY <1>0, <1>1, <3>2 DEF PopCheckEmpty, OnlyControl, ringVars, WriterInPlace, Goto
    <3>3. CASE ~PopLoad(w) /\ ~PopCheckEmpty(w)
      BY <1>1, <3>3 DEF WaitLoad, WakeUp, TakeToken, TakeTokenFails, CheckStop, Goto
    <3>4. QED
      BY <3>1, <3>2, <3>3
  <2>3. pc'[w] \notin {"pop_exchange", "read_body", "return_bytes", "format"}
    BY <1>3
  <2>4. QED
    BY <1>0, <1>2, <2>1, <2>2, <2>3 DEF WriterInPlace
<1>8. TokensAreMessages(w)'
  <2>1. CASE WaitLoad(w)
    BY <1>0, <1>1, <1>2, <2>1 DEF WaitLoad, Written!LoadCounter, TokensAreMessages, AboutToPop
  <2>2. CASE WakeUp(w)
    BY <1>0, <1>1, <1>2, <2>2
       DEF WakeUp, Written!Awake, OnlyControl, writtenVars, Goto, TokensAreMessages, AboutToPop
  <2>3. CASE TakeToken(w)
    <3>1. /\ pc[w] = "take" /\ pc'[w] = "check_stop" /\ counter = expected[w]
          /\ counter' = counter - 1
      BY <1>1, <2>3 DEF TakeToken, Written!ExchangeCounter, Goto
    <3>2. counter' >= 0 /\ counter' \in Int
      BY <1>0, <1>1, <3>1 DEF TokensAreMessages
    <3>3. ~stop_flag => counter' + pop_count + 1 <= pushed_count
      BY <1>0, <1>1, <3>1 DEF TokensAreMessages, AboutToPop
    <3>4. QED
      BY <1>0, <1>2, <3>1, <3>2, <3>3 DEF TokensAreMessages, AboutToPop
  <2>4. CASE TakeTokenFails(w)
    BY <1>0, <1>1, <1>2, <2>4
       DEF TakeTokenFails, Written!ExchangeCounterFails, Goto, TokensAreMessages, AboutToPop
  <2>5. CASE CheckStop(w)
    <3>1. /\ pc[w] = "check_stop" /\ pc'[w] = IF stop_flag THEN "left" ELSE "pop"
          /\ UNCHANGED <<counter, expected>>
      BY <1>1, <2>5 DEF CheckStop, OnlyControl, writtenVars, Goto
    <3>2. ~stop_flag => counter + pop_count + 1 <= pushed_count /\ counter >= 0
      BY <1>0, <1>1, <3>1 DEF TokensAreMessages, AboutToPop
    <3>3. ~stop_flag => pop_count < pushed_count
      BY <1>1, <3>2
    <3>4. QED
      BY <1>0, <1>2, <3>1, <3>2, <3>3 DEF TokensAreMessages, AboutToPop
  <2>6. CASE PopLoad(w) \/ PopCheckEmpty(w)
    <3>1. UNCHANGED <<counter, expected>> /\ AboutToPop(w) /\ AboutToPop(w)'
          /\ pc'[w] \in {"check_empty", "read_length"}
      BY <1>1, <2>6, NeverEmpty
         DEF PopLoad, PopCheckEmpty, OnlyRing, OnlyControl, writtenVars, Goto, AboutToPop
    <3>2. QED
      BY <1>0, <1>2, <3>1 DEF TokensAreMessages
  <2>7. QED
    BY <2>1, <2>2, <2>3, <2>4, <2>5, <2>6
<1>9. BytesAccounted(w)'
  <2>1. InRing(w)' = InRing(w)
    <3>1. pc[w] # "read_body" /\ pc'[w] # "read_body"
      BY <1>3
    <3>2. QED
      BY <1>2, <3>1, KeepsInRing
  <2>2. BytesOf(w)' = BytesOf(w) /\ BytesOfMain' = BytesOfMain
    BY <1>2, <1>3 DEF BytesOf, BytesOfMain, Ring!Required
  <2>3. InRing(w) \in Nat /\ leaked \in Nat
    BY <1>0, <1>1, StateFacts, ByteTypes DEF ByteNumbers
  <2>4. leaked' >= leaked
    BY <1>2, <2>3
  <2>5. waited => UNCHANGED counts /\ (pc'[Main] = "stop" \/ stop_flag')
    BY <1>0, <1>2 DEF BytesAccounted
  <2>6. pc'[Main] = "push_exchange" => InRing(w) + Ring!Required(length'[Main]) < Capacity
    BY <1>0, <1>2 DEF BytesAccounted
  <2>7. pc'[w] \notin {"failed", "return_bytes"}
    BY <1>3
  <2>8. QED
    BY <1>0, <1>2, <2>1, <2>2, <2>3, <2>4, <2>5, <2>6, <2>7, KeepsBytes
<1>10. QED
    BY <1>4, <1>5, <1>6, <1>7, <1>8, <1>9, Parts

\* The message the writer is about to pop, and is copying out.
LEMMA NextMessage ==
    ASSUME NEW w, Writers = {w}, IInv, AboutToPop(w)
    PROVE  /\ pop_count \in Nat /\ pop_count + 1 \in 1 .. Current /\ pop_count + 1 \in 1 .. Pushed
           /\ pop_count + 1 \in pop_count + 1 .. pushed_count
           /\ sizes[pop_count + 1] \in Nat /\ sizes[pop_count + 1] \in 0 .. Capacity
           /\ starts[pop_count + 1] \in Nat /\ starts[pop_count + 2] \in Nat
           /\ starts[pop_count + 2] = starts[pop_count + 1] + LengthSize + sizes[pop_count + 1]
           /\ \A k \in 1 .. LengthSize + sizes[pop_count + 1] :
                 cells[Ring!Wrap(starts[pop_count + 1] + k - 1)] = Unit(pop_count + 1, k)
           /\ pushed_count \in Nat /\ pop_count < pushed_count /\ ~waited
<1> USE LoggerFacts
<1>0. /\ TypeOK /\ PlacesInOrder /\ MainInPlace /\ TokensAreMessages(w) /\ MessagesHeld
      /\ WriterInPlace(w) /\ BytesAccounted(w) /\ w \in Writers
    BY Parts
<1>1. /\ pop_count \in Nat /\ pushed_count \in Nat /\ Pushed \in Nat /\ pushed_count <= Pushed
      /\ Current \in Nat /\ Pushed <= Current
      /\ \A i \in 1 .. Pushed + 1 : starts[i] \in Nat
      /\ \A m \in 1 .. Current : sizes[m] \in Nat /\ LengthSize + sizes[m] < Capacity
    BY <1>0, StateFacts
<1>2. pop_count < pushed_count
    BY <1>0 DEF TokensAreMessages
<1>3. /\ pop_count + 1 \in 1 .. Current /\ pop_count + 1 \in 1 .. Pushed
      /\ pop_count + 1 \in pop_count + 1 .. pushed_count
      /\ pop_count + 1 \in 1 .. Pushed + 1 /\ pop_count + 2 \in 1 .. Pushed + 1
      /\ (pop_count + 1) + 1 = pop_count + 2
    BY <1>1, <1>2
<1>4. /\ sizes[pop_count + 1] \in Nat /\ LengthSize + sizes[pop_count + 1] < Capacity
      /\ starts[pop_count + 1] \in Nat /\ starts[pop_count + 2] \in Nat
    BY <1>1, <1>3
<1>5. starts[(pop_count + 1) + 1] = starts[pop_count + 1] + Ring!Required(sizes[pop_count + 1])
    BY <1>0, <1>3 DEF PlacesInOrder
<1>6. starts[pop_count + 2] = starts[pop_count + 1] + LengthSize + sizes[pop_count + 1]
    BY <1>3, <1>4, <1>5 DEF Ring!Required
<1>7. \A k \in 1 .. LengthSize + sizes[pop_count + 1] :
          cells[Ring!Wrap(starts[pop_count + 1] + k - 1)] = Unit(pop_count + 1, k)
    BY <1>0, <1>3 DEF MessagesHeld, Holds, Ring!Required
<1>8. ~waited
    BY <1>1, <1>2, <1>0 DEF BytesAccounted
<1>9. sizes[pop_count + 1] \in 0 .. Capacity
    BY <1>4
<1>10. QED
    BY <1>1, <1>2, <1>3, <1>4, <1>6, <1>7, <1>8, <1>9

\* What the writer reads as a length is the length of the next message.
LEMMA LengthIsThere ==
    ASSUME NEW w, Writers = {w}, IInv, pc[w] = "read_length"
    PROVE  Ring!LengthsAt(loaded[w]) = {sizes[pop_count + 1]}
<1> USE LoggerFacts
<1>0. TypeOK /\ WriterInPlace(w) /\ AboutToPop(w)
    BY Parts DEF AboutToPop
<1>1. PICK s \in Nat, n \in 0 .. Capacity :
         /\ s = starts[pop_count + 1] /\ n = sizes[pop_count + 1]
         /\ \A k \in 1 .. LengthSize + n : cells[Ring!Wrap(s + k - 1)] = Unit(pop_count + 1, k)
    BY <1>0, NextMessage
<1>2. loaded[w] = Ring!Wrap(s) /\ loaded[w] \in Nat
  <2>1. Popped(w) = pop_count /\ pop_count \in Nat
    BY <1>0, NextMessage DEF Popped
  <2>2. loaded[w] = Ring!Wrap(s)
    BY <1>0, <1>1, <2>1 DEF WriterInPlace
  <2>3. QED
    BY <2>2, WrapFacts
<1>3. \A k \in 1 .. LengthSize : Ring!Copied(loaded[w], LengthSize)[k] = [length |-> n, part |-> k]
  <2>1. SUFFICES ASSUME NEW k \in 1 .. LengthSize
                 PROVE  Ring!Copied(loaded[w], LengthSize)[k] = [length |-> n, part |-> k]
    OBVIOUS
  <2>2. Ring!Copied(loaded[w], LengthSize)[k] = cells[Ring!Wrap(loaded[w] + k - 1)]
    BY DEF Ring!Copied
  <2>3. Ring!Wrap(Ring!Wrap(s) + (k - 1)) = Ring!Wrap(s + (k - 1))
    <3>1. s \in Int /\ k - 1 \in Int
      OBVIOUS
    <3>2. QED
      BY <3>1, WrapAdd
  <2>4. Ring!Wrap(s) + (k - 1) = loaded[w] + k - 1 /\ s + (k - 1) = s + k - 1
    BY <1>2
  <2>5. k \in 1 .. LengthSize + n
    OBVIOUS
  <2>6. Ring!Wrap(loaded[w] + k - 1) = Ring!Wrap(s + k - 1)
    BY <1>2, <2>3, <2>4
  <2>7. cells[Ring!Wrap(s + k - 1)] = [length |-> n, part |-> k]
    <3>1. Unit(pop_count + 1, k) = [length |-> n, part |-> k]
      <4>1. k <= LengthSize
        OBVIOUS
      <4>2. QED
        BY <1>1, <4>1 DEF Unit
    <3>2. cells[Ring!Wrap(s + k - 1)] = Unit(pop_count + 1, k)
      BY <1>1, <2>5
    <3>3. QED
      BY <3>1, <3>2
  <2>8. QED
    BY <2>2, <2>6, <2>7
<1>4. Ring!Copied(loaded[w], LengthSize) = Ring!Prefix(n)
    BY <1>3 DEF Ring!Copied, Ring!Prefix
<1>5. \A size \in 0 .. Capacity : Ring!Prefix(size) = Ring!Prefix(n) => size = n
  <2>1. SUFFICES ASSUME NEW size \in 0 .. Capacity, Ring!Prefix(size) = Ring!Prefix(n)
                 PROVE  size = n
    OBVIOUS
  <2>2. 1 \in 1 .. LengthSize
    OBVIOUS
  <2>3. Ring!Prefix(size)[1] = [length |-> size, part |-> 1] /\ Ring!Prefix(n)[1] = [length |-> n, part |-> 1]
    BY <2>2, PrefixFacts
  <2>4. [length |-> size, part |-> 1] = [length |-> n, part |-> 1]
    BY <2>1, <2>3
  <2>5. QED
    BY <2>4
<1>6. {size \in 0 .. Capacity : Ring!Copied(loaded[w], LengthSize) = Ring!Prefix(size)} = {n}
    BY <1>4, <1>5
<1>7. QED
    BY <1>1, <1>6 DEF Ring!LengthsAt

\* The length is read before the message is owned.
LEMMA PopLengthKeeps ==
    ASSUME NEW w, Writers = {w}, IInv, TypeOK', PopLength(w)
    PROVE  IInv'
<1> USE LoggerFacts
<1>0. /\ TypeOK /\ PlacesInOrder /\ MainInPlace /\ TokensAreMessages(w) /\ MessagesHeld
      /\ PrintedInOrder /\ OwnTextOnly
      /\ WriterInPlace(w) /\ BytesAccounted(w) /\ PrintedSoFar(w)
    BY Parts
<1>1. /\ w \in Writers /\ w # Main /\ Main \in Threads /\ w \in Threads
      /\ pc \in [Threads -> MainLabels \cup WriterLabels] /\ length \in [Threads -> Nat]
    BY <1>0 DEF TypeOK, Ring!MessageRingTypeOK
<1>2. /\ pc[w] = "read_length" /\ pc'[w] = "pop_exchange" /\ pc'[Main] = pc[Main]
      /\ UNCHANGED <<cells, write_idx, read_idx, loaded, writtenVars, semVars, stop_flag, counts>>
      /\ UNCHANGED <<buffer, starts, sizes, printed, leaked, waited, sem, pushed_count, pop_count>>
      /\ length'[Main] = length[Main]
    BY <1>1 DEF PopLength, OnlyRing, Goto, history, semVars, counts, Ring!ReadLength
<1>3. length'[w] = sizes[pop_count + 1]
    BY <1>1, <1>2, LengthIsThere DEF PopLength, Ring!ReadLength
<1>4. PlacesInOrder' /\ PrintedInOrder' /\ OwnTextOnly' /\ MainInPlace' /\ MessagesHeld'
    BY <1>0, <1>2, KeepsPlaces, KeepsText, KeepsMain, KeepsHeld
<1>5. PrintedSoFar(w)'
  <2>1. pc[w] \notin Unprinted /\ pc'[w] \notin Unprinted
    BY <1>2 DEF Unprinted
  <2>2. QED
    BY <1>0, <1>2, <2>1, KeepsPrinted
<1>6. TokensAreMessages(w)'
    BY <1>0, <1>2 DEF TokensAreMessages, AboutToPop, writtenVars
<1>7. WriterInPlace(w)'
    BY <1>0, <1>2, <1>3 DEF WriterInPlace, Popped
<1>8. BytesAccounted(w)'
  <2>1. InRing(w)' = InRing(w) /\ BytesOf(w)' = BytesOf(w) /\ BytesOfMain' = BytesOfMain
    BY <1>2 DEF InRing, Popped, Pushed, BytesOf, BytesOfMain, Ring!Required
  <2>2. InRing(w) \in Nat /\ leaked \in Nat
    BY <1>0, <1>1, StateFacts, ByteTypes DEF ByteNumbers
  <2>3. leaked' >= leaked
    BY <1>2, <2>2
  <2>4. waited => UNCHANGED counts /\ (pc'[Main] = "stop" \/ stop_flag')
    BY <1>0, <1>2 DEF BytesAccounted
  <2>5. pc'[Main] = "push_exchange" => InRing(w) + Ring!Required(length'[Main]) < Capacity
    BY <1>0, <1>2 DEF BytesAccounted
  <2>6. pc'[w] \notin {"failed", "return_bytes"}
    BY <1>2
  <2>7. QED
    BY <1>0, <1>2, <2>1, <2>2, <2>3, <2>4, <2>5, <2>6, KeepsBytes
<1>9. QED
    BY <1>4, <1>5, <1>6, <1>7, <1>8, Parts

\* The message leaves the ring, its bytes go from the ring to the writer.
LEMMA PopExchangeKeeps ==
    ASSUME NEW w, Writers = {w}, IInv, TypeOK', PopExchange(w)
    PROVE  IInv'
<1> USE LoggerFacts
<1>0. /\ TypeOK /\ PlacesInOrder /\ MainInPlace /\ TokensAreMessages(w) /\ MessagesHeld
      /\ PrintedInOrder /\ OwnTextOnly
      /\ WriterInPlace(w) /\ BytesAccounted(w) /\ PrintedSoFar(w)
    BY Parts
<1>1. /\ w \in Writers /\ w # Main /\ Main \in Threads /\ w \in Threads
      /\ pc \in [Threads -> MainLabels \cup WriterLabels] /\ pc[w] = "pop_exchange"
    BY <1>0 DEF TypeOK, PopExchange, Goto
<1> PICK a \in Nat, b \in Nat, n \in Nat :
       /\ a = starts[pop_count + 1] /\ b = starts[pop_count + 2] /\ n = sizes[pop_count + 1]
       /\ b = a + LengthSize + n /\ n <= Capacity /\ pop_count \in Nat /\ ~waited
  <2>1. AboutToPop(w)
    BY <1>1 DEF AboutToPop
  <2>2. QED
    BY <2>1, NextMessage
<1>2. /\ loaded[w] = read_idx /\ length[w] = n /\ read_idx = Ring!Wrap(a) /\ Popped(w) = pop_count
  <2>1. Popped(w) = pop_count
    BY <1>1 DEF Popped
  <2>2. QED
    BY <1>0, <1>1, <2>1 DEF WriterInPlace
<1>3. /\ pc'[w] = "read_body" /\ pc'[Main] = pc[Main]
      /\ read_idx' = Ring!Wrap(read_idx + (LengthSize + n))
      /\ UNCHANGED <<cells, write_idx, loaded, length, writtenVars, semVars, stop_flag, counts>>
      /\ UNCHANGED <<buffer, starts, sizes, printed, leaked, waited, sem, pushed_count, pop_count>>
    BY <1>1, <1>2 DEF PopExchange, OnlyRing, Goto, history, semVars, counts, Ring!ExchangeReadIdx,
       Ring!ReadIdxIsLoaded, Ring!Required
<1>4. PlacesInOrder' /\ PrintedInOrder' /\ OwnTextOnly' /\ MainInPlace' /\ MessagesHeld'
    BY <1>0, <1>3, KeepsPlaces, KeepsText, KeepsMain, KeepsHeld
<1>5. PrintedSoFar(w)'
  <2>1. pc[w] \notin Unprinted /\ pc'[w] \notin Unprinted
    BY <1>1, <1>3 DEF Unprinted
  <2>2. QED
    BY <1>0, <1>3, <2>1, KeepsPrinted
<1>6. TokensAreMessages(w)'
    BY <1>0, <1>1, <1>3 DEF TokensAreMessages, AboutToPop, writtenVars
<1>7. Popped(w)' = pop_count + 1 /\ starts'[Popped(w)' + 1] = b
  <2>1. Popped(w)' = pop_count + 1
    BY <1>3 DEF Popped
  <2>2. (pop_count + 1) + 1 = pop_count + 2
    OBVIOUS
  <2>3. QED
    BY <1>3, <2>1, <2>2
<1>8. WriterInPlace(w)'
  <2>1. a \in Int /\ LengthSize + n \in Int /\ a + (LengthSize + n) = b
    OBVIOUS
  <2>2. read_idx' = Ring!Wrap(b)
    BY <1>2, <1>3, <2>1, WrapAdd
  <2>3. loaded'[w] = Ring!Wrap(starts'[pop_count' + 1]) /\ length'[w] = sizes'[pop_count' + 1]
    BY <1>2, <1>3
  <2>4. QED
    BY <1>3, <1>7, <2>2, <2>3 DEF WriterInPlace
<1>9. BytesAccounted(w)'
  <2>1. PICK c \in Nat : c = starts[Pushed + 1]
    <3>1. Pushed \in Nat /\ \A i \in 1 .. Pushed + 1 : starts[i] \in Nat
      BY <1>0, <1>1, StateFacts
    <3>2. Pushed + 1 \in 1 .. Pushed + 1
      BY <3>1
    <3>3. QED
      BY <3>1, <3>2
  <2>2. InRing(w) = c - a /\ InRing(w)' = c - b
    BY <1>2, <1>3, <1>7, <2>1 DEF InRing, Pushed
  <2>3. BytesOf(w) = 0 /\ BytesOf(w)' = LengthSize + n /\ BytesOfMain' = BytesOfMain
    BY <1>1, <1>2, <1>3 DEF BytesOf, BytesOfMain, Ring!Required
  <2>4. /\ sem[FreeBytes] \in Nat /\ leaked \in Nat /\ BytesOfMain \in Nat
        /\ Ring!Required(length[Main]) \in Nat
    BY <1>0, <1>1, ByteTypes DEF ByteNumbers
  <2>5. InRing(w)' < Capacity
    BY <1>0, <2>1, <2>2 DEF BytesAccounted
  <2>6. pc'[Main] = "push_exchange" => InRing(w)' + Ring!Required(length'[Main]) < Capacity
    <3>1. pc[Main] = "push_exchange" => InRing(w) + Ring!Required(length[Main]) < Capacity
      BY <1>0 DEF BytesAccounted
    <3>2. QED
      BY <1>3, <2>2, <2>4, <3>1 DEF Ring!Required
  <2>7. sem[FreeBytes] + BytesOfMain + InRing(w) + BytesOf(w) + leaked = Capacity
    BY <1>0 DEF BytesAccounted
  <2>8. sem'[FreeBytes] + BytesOfMain' + InRing(w)' + BytesOf(w)' + leaked' = Capacity
    BY <1>3, <2>2, <2>3, <2>4, <2>7
  <2>9. QED
    BY <1>3, <2>5, <2>6, <2>8 DEF BytesAccounted, Ring!Required
<1>10. QED
    BY <1>4, <1>5, <1>6, <1>8, <1>9, Parts

\* What the writer copies out is the message.
LEMMA BodyIsThere ==
    ASSUME NEW w, Writers = {w}, IInv, pc[w] = "read_body"
    PROVE  Ring!Body(w) = Message(pop_count + 1)
<1> USE LoggerFacts
<1>0. TypeOK /\ WriterInPlace(w) /\ AboutToPop(w)
    BY Parts DEF AboutToPop
<1>1. PICK s \in Nat, n \in Nat :
         /\ s = starts[pop_count + 1] /\ n = sizes[pop_count + 1]
         /\ \A k \in 1 .. LengthSize + n : cells[Ring!Wrap(s + k - 1)] = Unit(pop_count + 1, k)
    BY <1>0, NextMessage
<1>2. loaded[w] = Ring!Wrap(s) /\ length[w] = n
    BY <1>0, <1>1 DEF WriterInPlace
<1>3. PICK i \in Nat : i = Ring!Wrap(loaded[w] + LengthSize) /\ i = Ring!Wrap(s + LengthSize)
  <2>1. s \in Int /\ LengthSize \in Int /\ s + LengthSize \in Int
    OBVIOUS
  <2>2. Ring!Wrap(Ring!Wrap(s) + LengthSize) = Ring!Wrap(s + LengthSize)
    BY <2>1, WrapAdd
  <2>3. Ring!Wrap(s + LengthSize) \in Nat
    BY <2>1, WrapFacts
  <2>4. QED
    BY <1>2, <2>2, <2>3
<1>4. \A k \in 1 .. n : cells[Ring!Wrap(i + k - 1)] = [id |-> pop_count + 1, part |-> k]
  <2>1. SUFFICES ASSUME NEW k \in 1 .. n
                 PROVE  cells[Ring!Wrap(i + k - 1)] = [id |-> pop_count + 1, part |-> k]
    OBVIOUS
  <2>2. s + LengthSize \in Int /\ k - 1 \in Int
    OBVIOUS
  <2>3. Ring!Wrap(Ring!Wrap(s + LengthSize) + (k - 1)) = Ring!Wrap((s + LengthSize) + (k - 1))
    BY <2>2, WrapAdd
  <2>4. PICK l \in 1 .. LengthSize + n : /\ l = LengthSize + k /\ l - LengthSize = k
                                         /\ ~(l <= LengthSize)
                                         /\ (s + LengthSize) + (k - 1) = s + l - 1
    OBVIOUS
  <2>5. i + k - 1 = i + (k - 1)
    OBVIOUS
  <2>6. Ring!Wrap(i + k - 1) = Ring!Wrap(s + l - 1)
    BY <1>3, <2>3, <2>4, <2>5
  <2>7. cells[Ring!Wrap(s + l - 1)] = Unit(pop_count + 1, l)
    BY <1>1
  <2>8. Unit(pop_count + 1, l) = [id |-> pop_count + 1, part |-> k]
    BY <2>4 DEF Unit
  <2>9. QED
    BY <2>6, <2>7, <2>8
<1>5. Ring!Body(w) = [k \in 1 .. n |-> cells[Ring!Wrap(i + k - 1)]]
    BY <1>2, <1>3 DEF Ring!Body, Ring!Copied
<1>6. Message(pop_count + 1) = [k \in 1 .. n |-> [id |-> pop_count + 1, part |-> k]]
    BY <1>1 DEF Message
<1>7. QED
    BY <1>4, <1>5, <1>6

\* The body is copied into the memory of the writer, over what was there.
LEMMA PopBodyKeeps ==
    ASSUME NEW w, Writers = {w}, IInv, TypeOK', PopBody(w)
    PROVE  IInv'
<1> USE LoggerFacts
<1>0. /\ TypeOK /\ PlacesInOrder /\ MainInPlace /\ TokensAreMessages(w) /\ MessagesHeld
      /\ PrintedInOrder /\ OwnTextOnly
      /\ WriterInPlace(w) /\ BytesAccounted(w) /\ PrintedSoFar(w)
    BY Parts
<1>1. /\ w \in Writers /\ w # Main /\ Main \in Threads /\ w \in Threads
      /\ pc \in [Threads -> MainLabels \cup WriterLabels] /\ pc[w] = "read_body"
      /\ buffer \in [Writers -> Seq(Ring!Units)] /\ AboutToPop(w) /\ counter \in Int
    BY <1>0 DEF TypeOK, PopBody, Goto, AboutToPop, Written!NotifierTypeOK
<1> DEFINE next == pop_count + 1
<1>2. /\ pop_count \in Nat /\ pushed_count \in Nat /\ pop_count < pushed_count /\ ~waited
      /\ next \in 1 .. Len(sizes) /\ next \in Nat
    BY <1>1, NextMessage DEF Current
<1>3. /\ pc'[w] = "return_bytes" /\ pc'[Main] = pc[Main] /\ pop_count' = next
      /\ buffer'[w] = Overwrite(buffer[w], Message(next))
      /\ UNCHANGED <<cells, write_idx, read_idx, loaded, length, writtenVars, semVars, stop_flag>>
      /\ UNCHANGED <<starts, sizes, printed, leaked, waited, sem, pushed_count>>
    BY <1>1, BodyIsThere DEF PopBody, Goto, ringVars, history, semVars
<1>4. PlacesInOrder' /\ PrintedInOrder' /\ OwnTextOnly' /\ MainInPlace'
    BY <1>0, <1>3, KeepsPlaces, KeepsText, KeepsMain
<1>5. MessagesHeld'
  <2>1. next + 1 .. pushed_count \subseteq pop_count + 1 .. pushed_count
    BY <1>2
  <2>2. QED
    BY <1>0, <1>3, <2>1 DEF MessagesHeld, Holds, Unit, Pushed, Ring!Required
<1>6. TokensAreMessages(w)'
  <2>1. ~stop_flag => counter + next <= pushed_count
    BY <1>0, <1>1, <1>2 DEF TokensAreMessages
  <2>2. next <= pushed_count /\ counter >= 0
    BY <1>0, <1>2 DEF TokensAreMessages
  <2>3. ~stop_flag' => counter' + pop_count' + 0 <= pushed_count'
    BY <1>1, <1>2, <1>3, <2>1 DEF writtenVars
  <2>4. QED
    BY <1>3, <2>2, <2>3 DEF TokensAreMessages, AboutToPop, writtenVars
<1>7. Popped(w)' = Popped(w)
    BY <1>1, <1>2, <1>3 DEF Popped
<1>8. WriterInPlace(w)'
    BY <1>0, <1>1, <1>2, <1>3, <1>7 DEF WriterInPlace
<1>9. BytesAccounted(w)'
  <2>1. InRing(w)' = InRing(w) /\ BytesOf(w)' = BytesOf(w) /\ BytesOfMain' = BytesOfMain
    BY <1>1, <1>3, <1>7 DEF InRing, Pushed, BytesOf, BytesOfMain, Ring!Required
  <2>2. InRing(w) \in Nat /\ leaked \in Nat
    BY <1>0, <1>1, StateFacts, ByteTypes DEF ByteNumbers
  <2>3. leaked' >= leaked
    BY <1>3, <2>2
  <2>4. InRing(w)' < Capacity
    BY <1>0, <2>1 DEF BytesAccounted
  <2>5. pc'[Main] = "push_exchange" => InRing(w)' + Ring!Required(length'[Main]) < Capacity
    BY <1>0, <1>3, <2>1 DEF BytesAccounted
  <2>6. sem'[FreeBytes] + BytesOfMain' + InRing(w)' + BytesOf(w)' + leaked' = Capacity
    BY <1>0, <1>2, <1>3, <2>1 DEF BytesAccounted
  <2>7. QED
    BY <1>2, <1>3, <2>4, <2>5, <2>6 DEF BytesAccounted, Ring!Required
<1>10. PrintedSoFar(w)'
  <2>1. /\ sizes[next] \in Nat /\ Message(next) \in Seq(Ring!Units) /\ Len(Message(next)) = sizes[next]
    BY <1>0, <1>2, MessageFacts DEF TypeOK
  <2>2. /\ Len(buffer'[w]) = IF sizes[next] < Len(buffer[w]) THEN Len(buffer[w]) ELSE sizes[next]
        /\ SubSeq(buffer'[w], 1, sizes[next]) = Message(next)
    <3>1. buffer[w] \in Seq(Ring!Units)
      BY <1>1
    <3>2. PICK memory \in Seq(Ring!Units), text \in Seq(Ring!Units) :
             memory = buffer[w] /\ text = Message(next)
      BY <2>1, <3>1
    <3>3. /\ Len(Overwrite(memory, text)) =
                IF Len(text) < Len(memory) THEN Len(memory) ELSE Len(text)
          /\ SubSeq(Overwrite(memory, text), 1, Len(text)) = text
      BY OverwriteFacts
    <3>4. Len(text) = sizes[next] /\ buffer'[w] = Overwrite(memory, text)
      BY <1>3, <2>1, <3>2
    <3>5. QED
      BY <3>2, <3>3, <3>4
  <2>3. Len(buffer[w]) \in Nat
    BY <1>1, LenProperties
  <2>4. \A j \in 1 .. pop_count : sizes[j] \in Nat /\ sizes[j] <= Len(buffer[w])
    <3>1. \A j \in 1 .. pop_count : j \in 1 .. Len(sizes)
      BY <1>2
    <3>2. \A j \in 1 .. pop_count : sizes[j] \in Nat
      BY <1>0, <3>1, MessageFacts DEF TypeOK
    <3>3. QED
      BY <1>0, <3>2 DEF PrintedSoFar
  <2>5. \A j \in 1 .. next : sizes[j] <= Len(buffer'[w])
    <3>1. SUFFICES ASSUME NEW j \in 1 .. next PROVE sizes[j] <= Len(buffer'[w])
      OBVIOUS
    <3>2. CASE j = next
      BY <2>1, <2>2, <2>3, <3>2
    <3>3. CASE j # next
      <4>1. j \in 1 .. pop_count
        BY <1>2, <3>3
      <4>2. QED
        BY <2>1, <2>2, <2>3, <2>4, <4>1
    <3>4. QED
      BY <3>2, <3>3
  <2>6. \E j \in 1 .. next : Len(buffer'[w]) = sizes[j]
    <3>1. CASE sizes[next] < Len(buffer[w])
      <4>1. buffer[w] # <<>>
        BY <2>1, <2>3, <3>1, EmptySeq
      <4>2. PICK j \in 1 .. pop_count : Len(buffer[w]) = sizes[j]
        BY <1>0, <4>1 DEF PrintedSoFar
      <4>3. j \in 1 .. next
        BY <1>2
      <4>4. QED
        BY <2>2, <3>1, <4>2, <4>3
    <3>2. CASE ~(sizes[next] < Len(buffer[w]))
      BY <1>2, <2>2, <3>2
    <3>3. QED
      BY <3>1, <3>2
  <2>7. Len(printed) = pop_count' - 1
    BY <1>0, <1>1, <1>2, <1>3 DEF PrintedSoFar
  <2>8. Message(pop_count)' = Message(next)
    BY <1>3 DEF Message
  <2>9. QED
    BY <1>3, <2>2, <2>5, <2>6, <2>7, <2>8 DEF PrintedSoFar
<1>11. QED
    BY <1>4, <1>5, <1>6, <1>8, <1>9, <1>10, Parts

\* The bytes go back to the semaphore, or are lost with the writer.
LEMMA ReturnBytesKeeps ==
    ASSUME NEW w, Writers = {w}, IInv, TypeOK', ReturnBytes(w) \/ ReturnBytesFails(w)
    PROVE  IInv'
<1> USE LoggerFacts
<1>0. /\ TypeOK /\ PlacesInOrder /\ MainInPlace /\ TokensAreMessages(w) /\ MessagesHeld
      /\ PrintedInOrder /\ OwnTextOnly
      /\ WriterInPlace(w) /\ BytesAccounted(w) /\ PrintedSoFar(w)
    BY Parts
<1>1. /\ w \in Writers /\ w # Main /\ Main \in Threads /\ w \in Threads
      /\ pc \in [Threads -> MainLabels \cup WriterLabels] /\ pc[w] = "return_bytes"
    BY <1>0 DEF TypeOK, ReturnBytes, ReturnBytesFails, Goto
<1>2. /\ pc'[w] \in {"format", "failed"} /\ pc'[Main] = pc[Main]
      /\ UNCHANGED <<cells, write_idx, read_idx, loaded, length, writtenVars, stop_flag, counts>>
      /\ UNCHANGED <<buffer, starts, sizes, printed, waited, pushed_count, pop_count>>
    BY <1>1 DEF ReturnBytes, ReturnBytesFails, OnlySem, Goto, ringVars, history, counts
<1>3. PlacesInOrder' /\ PrintedInOrder' /\ OwnTextOnly' /\ MainInPlace' /\ MessagesHeld'
    BY <1>0, <1>2, KeepsPlaces, KeepsText, KeepsMain, KeepsHeld
<1>4. PrintedSoFar(w)'
    BY <1>0, <1>1, <1>2 DEF PrintedSoFar, Message
<1>5. TokensAreMessages(w)'
    BY <1>0, <1>1, <1>2 DEF TokensAreMessages, AboutToPop, writtenVars
<1>6. WriterInPlace(w)'
    BY <1>0, <1>1, <1>2 DEF WriterInPlace, Popped
<1>7. BytesAccounted(w)'
  <2>1. InRing(w)' = InRing(w) /\ BytesOfMain' = BytesOfMain
    BY <1>1, <1>2 DEF InRing, Pushed, Popped, BytesOfMain, Ring!Required
  <2>2. ~waited
    BY <1>0, <1>1 DEF BytesAccounted
  <2>3. /\ InRing(w) \in Nat /\ leaked \in Nat /\ sem[FreeBytes] \in Nat /\ BytesOfMain \in Nat
        /\ Ring!Required(length[w]) \in Nat /\ Ring!Required(length[w]) > 0
    BY <1>0, <1>1, StateFacts, ByteTypes DEF ByteNumbers
  <2>4. BytesOf(w) = Ring!Required(length[w]) /\ BytesOf(w)' = 0
    BY <1>1, <1>2 DEF BytesOf
  <2>5. CASE ReturnBytes(w)
    <3>1. /\ sem'[FreeBytes] = sem[FreeBytes] + Ring!Required(length[w]) /\ leaked' = leaked
          /\ pc'[w] = "format"
      BY <1>0, <1>1, <2>3, <2>5, ByteFacts DEF ReturnBytes, OnlySem, history, Goto
    <3>2. sem'[FreeBytes] + BytesOfMain' + BytesOf(w)' + leaked' =
            sem[FreeBytes] + BytesOfMain + BytesOf(w) + leaked /\ leaked' >= leaked
      BY <2>1, <2>3, <2>4, <3>1
    <3>3. pc'[Main] = "push_exchange" => InRing(w) + Ring!Required(length'[Main]) < Capacity
      BY <1>0, <1>2 DEF BytesAccounted
    <3>4. QED
      BY <1>0, <1>2, <2>1, <2>2, <2>3, <3>1, <3>2, <3>3, KeepsBytes
  <2>6. CASE ReturnBytesFails(w)
    <3>1. /\ sem'[FreeBytes] = sem[FreeBytes] /\ leaked' = leaked + Ring!Required(length[w])
      BY <1>0, <2>6, ByteFacts DEF ReturnBytesFails
    <3>2. /\ sem'[FreeBytes] + BytesOfMain' + BytesOf(w)' + leaked' =
               sem[FreeBytes] + BytesOfMain + BytesOf(w) + leaked
          /\ leaked' >= leaked /\ leaked' > 0
      BY <2>1, <2>3, <2>4, <3>1
    <3>3. pc'[Main] = "push_exchange" => InRing(w) + Ring!Required(length'[Main]) < Capacity
      BY <1>0, <1>2 DEF BytesAccounted
    <3>4. QED
      BY <1>0, <1>2, <2>1, <2>2, <2>3, <3>2, <3>3, KeepsBytes
  <2>7. QED
    BY <2>5, <2>6
<1>8. QED
    BY <1>3, <1>4, <1>5, <1>6, <1>7, Parts

\* The message is printed.
LEMMA FormatKeeps ==
    ASSUME NEW w, Writers = {w}, IInv, TypeOK', Format(w)
    PROVE  IInv'
<1> USE LoggerFacts
<1>0. /\ TypeOK /\ PlacesInOrder /\ MainInPlace /\ TokensAreMessages(w) /\ MessagesHeld
      /\ PrintedInOrder /\ OwnTextOnly
      /\ WriterInPlace(w) /\ BytesAccounted(w) /\ PrintedSoFar(w)
    BY Parts
<1>1. /\ w \in Writers /\ w # Main /\ Main \in Threads /\ w \in Threads
      /\ pc \in [Threads -> MainLabels \cup WriterLabels] /\ pc[w] = "format"
      /\ printed \in Seq(Seq(Ring!Units)) /\ buffer[w] \in Seq(Ring!Units)
      /\ sizes \in Seq(MessageSizes) /\ pop_count \in Nat
    BY <1>0 DEF TypeOK, Format, Goto
<1>2. /\ pc'[w] = "wait" /\ pc'[Main] = pc[Main] /\ printed' = Append(printed, buffer[w])
      /\ UNCHANGED <<cells, write_idx, read_idx, loaded, length, writtenVars, stop_flag, counts>>
      /\ UNCHANGED <<buffer, starts, sizes, leaked, waited, sem, semVars, pushed_count, pop_count>>
    BY <1>1 DEF Format, Goto, ringVars, counts, semVars
<1>3. PlacesInOrder' /\ MainInPlace' /\ MessagesHeld'
    BY <1>0, <1>2, KeepsPlaces, KeepsMain, KeepsHeld
<1>4. TokensAreMessages(w)' /\ WriterInPlace(w)'
    BY <1>0, <1>1, <1>2 DEF TokensAreMessages, AboutToPop, writtenVars, WriterInPlace, Popped
<1>5. BytesAccounted(w)'
  <2>1. InRing(w)' = InRing(w) /\ BytesOfMain' = BytesOfMain /\ BytesOf(w)' = BytesOf(w)
    BY <1>1, <1>2 DEF InRing, Pushed, Popped, BytesOfMain, BytesOf, Ring!Required
  <2>2. InRing(w) \in Nat /\ leaked \in Nat
    BY <1>0, <1>1, StateFacts, ByteTypes DEF ByteNumbers
  <2>3. leaked' >= leaked
    BY <1>2, <2>2
  <2>4. waited => UNCHANGED counts /\ (pc'[Main] = "stop" \/ stop_flag')
    BY <1>0, <1>2 DEF BytesAccounted
  <2>5. pc'[Main] = "push_exchange" => InRing(w) + Ring!Required(length'[Main]) < Capacity
    BY <1>0, <1>2 DEF BytesAccounted
  <2>6. pc'[w] \notin {"failed", "return_bytes"}
    BY <1>2
  <2>7. QED
    BY <1>0, <1>2, <2>1, <2>2, <2>3, <2>4, <2>5, <2>6, KeepsBytes
<1>6. /\ pop_count \in 1 .. Len(sizes) /\ pop_count \in 1 .. pop_count /\ Len(printed) = pop_count - 1
      /\ \A j \in 1 .. pop_count : j \in 1 .. Len(sizes) /\ sizes[j] \in Nat
      /\ sizes[pop_count] > 1
  <2>1. pop_count > 0 /\ Len(printed) = pop_count - 1
    BY <1>0, <1>1 DEF WriterInPlace, PrintedSoFar
  <2>2. pop_count <= Current /\ Current \in Nat
    <3>1. /\ pop_count <= pushed_count /\ pushed_count <= Pushed /\ Pushed <= Current
          /\ pushed_count \in Nat /\ Pushed \in Nat /\ Current \in Nat
      BY <1>0, <1>1, StateFacts
    <3>2. QED
      BY <1>1, <3>1
  <2>3. pop_count \in 1 .. Len(sizes) /\ \A j \in 1 .. pop_count : j \in 1 .. Len(sizes)
    BY <1>1, <2>1, <2>2 DEF Current
  <2>4. /\ \A j \in 1 .. pop_count : sizes[j] \in Nat
        /\ sizes[pop_count] > 1
    BY <1>1, <2>3, MessageFacts
  <2>5. QED
    BY <1>1, <2>1, <2>3, <2>4
<1>7. /\ DOMAIN printed = 1 .. pop_count - 1 /\ DOMAIN printed' = 1 .. pop_count
      /\ \A i \in 1 .. pop_count - 1 : printed'[i] = printed[i]
      /\ printed'[pop_count] = buffer[w] /\ Len(printed') = pop_count
  <2>1. /\ Len(printed') = Len(printed) + 1 /\ printed'[Len(printed) + 1] = buffer[w]
        /\ \A i \in 1 .. Len(printed) : printed'[i] = printed[i]
        /\ printed' \in Seq(Seq(Ring!Units))
    BY <1>1, <1>2, AppendProperties
  <2>2. DOMAIN printed = 1 .. Len(printed) /\ DOMAIN printed' = 1 .. Len(printed')
    BY <1>1, <2>1, LenProperties
  <2>3. Len(printed) + 1 = pop_count
    BY <1>1, <1>6
  <2>4. QED
    BY <1>6, <2>1, <2>2, <2>3
<1>8. PrintedInOrder'
  <2>1. SUFFICES ASSUME NEW i \in 1 .. pop_count
                 PROVE  i <= Len(sizes) /\ SubSeq(printed'[i], 1, sizes[i]) = Message(i)
    BY <1>2, <1>7 DEF PrintedInOrder, Message
  <2>2. CASE i = pop_count
    <3>1. SubSeq(buffer[w], 1, sizes[pop_count]) = Message(pop_count)
      BY <1>0, <1>1 DEF PrintedSoFar
    <3>2. QED
      BY <1>1, <1>6, <1>7, <2>2, <3>1
  <2>3. CASE i # pop_count
    <3>1. i \in 1 .. pop_count - 1
      BY <1>1, <2>3
    <3>2. QED
      BY <1>0, <1>7, <3>1 DEF PrintedInOrder
  <2>4. QED
    BY <2>2, <2>3
<1>9. OwnTextOnly'
  <2>1. SUFFICES ASSUME NEW i \in 1 .. pop_count, \A j \in 1 .. i : sizes[j] <= sizes[i]
                 PROVE  Len(printed'[i]) = sizes[i]
    BY <1>2, <1>7 DEF OwnTextOnly
  <2>2. CASE i = pop_count
    <3>1. Len(buffer[w]) \in Nat /\ sizes[pop_count] \in Nat /\ sizes[pop_count] > 1
      BY <1>1, <1>6, LenProperties
    <3>2. sizes[pop_count] <= Len(buffer[w])
      BY <1>0, <1>6 DEF PrintedSoFar
    <3>3. buffer[w] # <<>>
      BY <3>1, <3>2, EmptySeq
    <3>4. PICK j \in 1 .. pop_count : Len(buffer[w]) = sizes[j]
      BY <1>0, <3>3 DEF PrintedSoFar
    <3>5. sizes[j] <= sizes[pop_count]
      BY <2>1, <2>2
    <3>6. QED
      BY <1>7, <2>2, <3>1, <3>2, <3>4, <3>5
  <2>3. CASE i # pop_count
    <3>1. i \in 1 .. pop_count - 1
      BY <1>1, <2>3
    <3>2. QED
      BY <1>0, <1>7, <2>1, <3>1 DEF OwnTextOnly
  <2>4. QED
    BY <2>2, <2>3
<1>10. PrintedSoFar(w)'
  <2>1. Len(printed') = pop_count' - 0
    BY <1>1, <1>2, <1>7
  <2>2. QED
    BY <1>0, <1>2, <2>1 DEF PrintedSoFar
<1>11. QED
    BY <1>3, <1>4, <1>5, <1>8, <1>9, <1>10, Parts

-----------------------------------------------------------------------------
(* The invariant *)

\* When the logger is created nothing is pushed, popped or printed, and all bytes are free.
LEMMA InitInvariant ==
    ASSUME NEW w, Writers = {w}, Init
    PROVE  IInv
<1> USE LoggerFacts
<1>1. /\ pc = [p \in Threads |-> IF p = Main THEN "log" ELSE "wait"] /\ w # Main
      /\ w \in Threads /\ pc[Main] = "log" /\ pc[w] = "wait"
      /\ write_idx = 0 /\ read_idx = 0 /\ counter = 0 /\ sem[FreeBytes] = Capacity
      /\ stop_flag = FALSE /\ pushed_count = 0 /\ pop_count = 0 /\ buffer[w] = <<>>
      /\ sizes = <<>> /\ starts = <<0>> /\ printed = <<>> /\ leaked = 0 /\ waited = FALSE
    BY DEF Init, Ring!MessageRingInit, Written!NotifierInit, Bytes!SemInit, Semaphores
<1>2. TypeOK
  <2>1. ControlType
    BY <1>1 DEF ControlType, MainLabels, WriterLabels, Threads
  <2>2. Ring!MessageRingTypeOK
    BY DEF Init, Ring!MessageRingInit, Ring!MessageRingTypeOK, Ring!Slots, Ring!Units
  <2>3. Written!NotifierTypeOK
    BY DEF Init, Written!NotifierInit, Written!NotifierTypeOK
  <2>4. Bytes!SemTypeOK
    <3>1. sem = [t \in Semaphores |-> Capacity] /\ removed = FALSE /\ faults = 0
      BY DEF Init, Bytes!SemInit
    <3>2. sem \in [Semaphores -> Nat]
      BY <3>1
    <3>3. removed \in BOOLEAN
      BY <3>1
    <3>4. faults \in 0 .. MaxFaults
      BY <3>1
    <3>5. QED
      BY <3>2, <3>3, <3>4 DEF Bytes!SemTypeOK
  <2>5. CountsType
    BY <1>1 DEF CountsType
  <2>6. BufferType
    BY EmptySeq DEF Init, BufferType
  <2>7. HistoryType
    <3>1. <<>> \in Seq(MessageSizes) /\ <<>> \in Seq(Seq(Ring!Units)) /\ Len(<<>>) = 0
      BY EmptySeq
    <3>2. <<0>> \in Seq(Nat) /\ <<0>> # <<>>
      OBVIOUS
    <3>3. sizes \in Seq(MessageSizes) /\ Len(sizes) <= MessageCount /\ printed \in Seq(Seq(Ring!Units))
      BY <1>1, <3>1
    <3>4. starts \in Seq(Nat) /\ starts # <<>>
      BY <1>1, <3>2
    <3>5. QED
      BY <1>1, <3>3, <3>4 DEF HistoryType
  <2>8. QED
    BY <2>1, <2>2, <2>3, <2>4, <2>5, <2>6, <2>7, TypeParts
<1>3. Pushed = 0 /\ Current = 0 /\ Popped(w) = 0 /\ starts[1] = 0
    BY <1>1 DEF Pushed, Current, Popped
<1>4. Ring!Wrap(0) = 0
    BY DEF Ring!Wrap
<1>5. PlacesInOrder /\ MainInPlace /\ MessagesHeld
    BY <1>1, <1>3, <1>4 DEF PlacesInOrder, MainInPlace, MessagesHeld, Entering, Writing
<1>6. PrintedInOrder /\ OwnTextOnly
    BY <1>1 DEF PrintedInOrder, OwnTextOnly
<1>7. TokensAreMessages(w) /\ WriterInPlace(w) /\ PrintedSoFar(w)
  <2>1. TokensAreMessages(w)
    BY <1>1 DEF TokensAreMessages, AboutToPop
  <2>2. WriterInPlace(w)
    BY <1>1, <1>3, <1>4 DEF WriterInPlace
  <2>3. PrintedSoFar(w)
    <3>1. Len(printed) = 0 /\ pop_count - 0 = 0 /\ 1 .. pop_count = {}
      BY <1>1, EmptySeq
    <3>2. QED
      BY <1>1, <3>1 DEF PrintedSoFar
  <2>4. QED
    BY <2>1, <2>2, <2>3
<1>8. BytesAccounted(w)
    BY <1>1, <1>3 DEF BytesAccounted, InRing, BytesOf, BytesOfMain
<1>9. QED
    BY <1>2, <1>5, <1>6, <1>7, <1>8, Parts

\* Every step of the program keeps the invariant.
LEMMA StepInvariant ==
    ASSUME NEW w, Writers = {w}, IInv, [Next]_vars
    PROVE  IInv'
<1>1. CASE LogStep \/ EndStep
  <2>1. TypeOK'
    BY <1>1, Parts, MainType
  <2>2. QED
    BY <1>1, <2>1, LogKeeps, WaitAndCheckStep, EndStepKeeps, PushExchangeKeeps, PushLengthKeeps,
       PushBodyKeeps, NotifyWrittenKeeps, AllPoppedKeeps DEF LogStep, EndStep
<1>2. CASE WriterStep(w)
  <2>1. TypeOK'
    BY <1>2, Parts, WriterType
  <2>2. QED
    BY <1>2, <2>1, WriterWaitKeeps, PopLengthKeeps, PopExchangeKeeps, PopBodyKeeps,
       ReturnBytesKeeps, FormatKeeps DEF WriterStep
<1>3. CASE UNCHANGED vars
  <2>1. /\ UNCHANGED <<pc, cells, write_idx, read_idx, loaded, length, counter, expected>>
        /\ UNCHANGED <<sem, removed, faults, stop_flag, pushed_count, pop_count, counts>>
        /\ UNCHANGED <<buffer, sizes, starts, printed, leaked, waited>>
        /\ UNCHANGED <<ringVars, writtenVars, semVars, history>>
    BY <1>3 DEF vars, ringVars, writtenVars, semVars, counts, history
  <2>2. TypeOK'
    <3>1. ControlType => ControlType'
      BY <2>1 DEF ControlType
    <3>2. QED
      BY <2>1, <3>1, Parts, TypeParts, Unchanged
  <2>3. PlacesInOrder' /\ PrintedInOrder' /\ OwnTextOnly' /\ MainInPlace' /\ MessagesHeld'
    BY <2>1, Parts, KeepsPlaces, KeepsText, KeepsMain, KeepsHeld
  <2>4. TokensAreMessages(w)' /\ WriterInPlace(w)'
    BY <2>1, Parts, KeepsTokens, KeepsWriter
  <2>5. PrintedSoFar(w)'
    BY <2>1, Parts DEF PrintedSoFar, Message
  <2>6. BytesAccounted(w)'
    BY <2>1, Parts DEF BytesAccounted, InRing, Pushed, Popped, BytesOf, BytesOfMain, Ring!Required
  <2>7. QED
    BY <2>2, <2>3, <2>4, <2>5, <2>6, Parts
<1>4. QED
    BY <1>1, <1>2, <1>3 DEF Next

\* With one writer, as main.cpp starts the logger (writer_group with one thread): whatever
\* the capacity, the sizes and the failures, the types are kept, messages lie in order and
\* whole in the ring, every token is a message, and every byte is accounted for.
THEOREM LoggerInvariance == ASSUME OneWriter PROVE Spec => []IInv
<1>1. Init => IInv
    BY InitInvariant DEF OneWriter
<1>2. IInv /\ [Next]_vars => IInv'
    BY StepInvariant DEF OneWriter
<1>3. QED
    BY <1>1, <1>2, PTL DEF Spec

-----------------------------------------------------------------------------
(* What follows from it *)

\* The sum over one writer.
LEMMA SumOfOne ==
    ASSUME NEW w, BytesOf(w) \in Nat
    PROVE  SumOver({w}, BytesOf) = BytesOf(w)
<1> DEFINE F(f) == [T \in SUBSET {w} |->
                      IF T = {} THEN 0
                      ELSE LET x == CHOOSE x \in T : TRUE IN BytesOf(x) + f[T \ {x}]]
           sum == CHOOSE f : f = F(f)
           g == [T \in SUBSET {w} |-> IF T = {} THEN 0 ELSE BytesOf(w)]
<1>1. SumOver({w}, BytesOf) = sum[{w}]
    BY DEF SumOver
<1>2. (CHOOSE x \in {w} : TRUE) = w
    OBVIOUS
<1>3. \A T \in SUBSET {w} : T = {} \/ T = {w}
    OBVIOUS
<1>4. g = F(g)
  <2>1. g[{}] = 0
    OBVIOUS
  <2>2. BytesOf(w) + g[{w} \ {w}] = BytesOf(w)
    BY <2>1
  <2>3. ASSUME NEW T \in SUBSET {w}
        PROVE  (IF T = {} THEN 0 ELSE BytesOf(w)) =
               (IF T = {} THEN 0 ELSE LET x == CHOOSE x \in T : TRUE IN BytesOf(x) + g[T \ {x}])
    <3>1. CASE T = {}
      BY <3>1
    <3>2. CASE T = {w}
      BY <1>2, <2>2, <3>2
    <3>3. QED
      BY <1>3, <3>1, <3>2
  <2>4. QED
    BY <2>3
<1>5. sum = F(sum)
  <2>1. \E f : f = F(f)
    BY <1>4
  <2> HIDE DEF F
  <2>2. QED
    BY <2>1
<1> HIDE DEF sum, g
<1>6. sum[{}] = 0
    BY <1>5
<1>7. sum[{w}] = BytesOf(w) + sum[{w} \ {w}]
    BY <1>2, <1>5
<1>8. {w} \ {w} = {}
    OBVIOUS
<1>9. sum[{w} \ {w}] = 0
    BY <1>6, <1>8
<1>10. sum[{w}] = BytesOf(w)
    BY <1>7, <1>9
<1>11. QED
    BY <1>1, <1>10

\* Until the client has waited for all, every byte is in one of its places, also when
\* the distance of the two indices is taken from the slots they point to.
THEOREM ByteAccountHolds == ASSUME OneWriter PROVE Spec => []ByteAccount
<1>1. IInv => ByteAccount
  <2>1. SUFFICES ASSUME IInv, ~waited
                 PROVE  sem[FreeBytes] + BytesOfMain + Used + SumOver(Writers, BytesOf) + leaked
                          = Capacity
    BY DEF ByteAccount
  <2>2. PICK w \in Writers : Writers = {w}
    BY DEF OneWriter
  <2>3. /\ TypeOK /\ PlacesInOrder /\ MainInPlace /\ TokensAreMessages(w)
        /\ WriterInPlace(w) /\ BytesAccounted(w)
    BY <2>1, <2>2, Parts
  <2>4. Used = InRing(w)
    BY <2>2, <2>3, IndexDistance
  <2>5. SumOver(Writers, BytesOf) = BytesOf(w)
    <3>1. BytesOf(w) \in Nat
      BY <2>2, <2>3, ByteTypes DEF ByteNumbers
    <3>2. QED
      BY <2>2, <3>1, SumOfOne
  <2>6. sem[FreeBytes] + BytesOfMain + InRing(w) + BytesOf(w) + leaked = Capacity
    BY <2>1, <2>3 DEF BytesAccounted
  <2>7. QED
    BY <2>4, <2>5, <2>6
<1>2. QED
    BY <1>1, LoggerInvariance, PTL

\* A slot of a region is a place of the region.
LEMMA RegionPlaces ==
    ASSUME NEW i \in Int, NEW q \in Nat, Ring!Wrap(i) = Ring!Wrap(q), NEW n \in Nat,
           NEW s \in Ring!Region(i, n)
    PROVE  \E x \in Nat : q <= x /\ x < q + n /\ Ring!Wrap(x) = s
<1> USE LoggerFacts
<1>1. s \in Ring!Slots /\ s \in Int /\ s - i \in Int /\ Ring!Wrap(s - i) < n
    BY DEF Ring!Region, Ring!Slots
<1>2. PICK d \in Nat : d = Ring!Wrap(s - i) /\ d < n
    BY <1>1, WrapFacts
<1>3. Ring!Wrap(q + d) = s
  <2>1. Ring!Wrap(Ring!Wrap(q) + d) = Ring!Wrap(q + d) /\ Ring!Wrap(Ring!Wrap(i) + d) = Ring!Wrap(i + d)
    <3>1. q \in Int /\ d \in Int
      OBVIOUS
    <3>2. QED
      BY <3>1, WrapAdd
  <2>2. Ring!Wrap(Ring!Wrap(s - i) + i) = Ring!Wrap((s - i) + i)
    BY <1>1, WrapAdd
  <2>3. (s - i) + i = s /\ d + i = i + d
    BY <1>1
  <2>4. Ring!Wrap(s) = s
    BY <1>1, WrapFacts
  <2>5. Ring!Wrap(i + d) = s
    BY <1>2, <2>2, <2>3, <2>4
  <2>6. QED
    BY <2>1, <2>5
<1>4. q + d \in Nat /\ q <= q + d /\ q + d < q + n
    BY <1>2
<1>5. QED
    BY <1>3, <1>4

\* Nobody copies into slots another thread copies out of: the message that is written and
\* the one that is read lie apart, and within one round.
THEOREM SlotsApartHolds == ASSUME OneWriter PROVE Spec => []SlotsApart
<1> USE LoggerFacts
<1>1. IInv => SlotsApart
  <2>1. SUFFICES ASSUME IInv, NEW w \in Writers, NEW s \in PushRegion, s \in ReadRegion(w)
                 PROVE  FALSE
    BY DEF SlotsApart
  <2>2. Writers = {w}
    BY DEF OneWriter
  <2>3. pc[Main] \in {"write_length", "write_body"} /\ pc[w] = "read_body"
    BY <2>1 DEF PushRegion, ReadRegion
  <2>4. TypeOK /\ PlacesInOrder /\ MainInPlace /\ WriterInPlace(w) /\ TokensAreMessages(w)
    BY <2>1, <2>2, Parts
  <2>5. AboutToPop(w)
    BY <2>3 DEF AboutToPop
  <2>6. /\ Pushed \in 1 .. Pushed /\ Current = Pushed /\ pushed_count = Pushed - 1
        /\ starts[Pushed] \in Nat /\ sizes[Pushed] \in Nat
        /\ starts[Pushed + 1] = starts[Pushed] + LengthSize + sizes[Pushed]
    BY <2>1, <2>2, <2>3, HeldPlaces
  <2>7. /\ pop_count \in Nat /\ pop_count < pushed_count /\ pop_count + 1 \in 1 .. Pushed
        /\ starts[pop_count + 1] \in Nat /\ starts[pop_count + 2] \in Nat
        /\ sizes[pop_count + 1] \in Nat /\ ~waited
        /\ starts[pop_count + 2] = starts[pop_count + 1] + LengthSize + sizes[pop_count + 1]
    BY <2>1, <2>2, <2>5, NextMessage
  <2>8. starts[Pushed + 1] <= starts[pop_count + 1] + Capacity
    BY <2>1, <2>2, <2>7, Window
  <2>9. starts[pop_count + 2] <= starts[Pushed]
    <3>1. /\ pop_count + 2 < Pushed \/ pop_count + 2 = Pushed
          /\ pop_count + 2 \in 1 .. Pushed + 1 /\ Pushed \in 1 .. Pushed + 1
      BY <2>6, <2>7
    <3>2. QED
      BY <2>4, <2>6, <2>7, <3>1 DEF PlacesInOrder
  <2>10. PICK a \in Nat, b \in Nat, m \in Nat, n \in Nat :
            /\ a = starts[pop_count + 1] /\ m = sizes[pop_count + 1]
            /\ b = starts[Pushed] /\ n = sizes[Pushed]
            /\ a + LengthSize + m <= b /\ b + LengthSize + n <= a + Capacity
    BY <2>6, <2>7, <2>8, <2>9
  <2>11. \E y \in Nat : a <= y /\ y < a + LengthSize + m /\ Ring!Wrap(y) = s
    <3>1. loaded[w] = Ring!Wrap(a) /\ length[w] = m
      BY <2>3, <2>4, <2>10 DEF WriterInPlace
    <3>2. s \in Ring!Region(Ring!Wrap(a) + LengthSize, m)
      BY <2>1, <2>3, <3>1 DEF ReadRegion
    <3>3. /\ a \in Int /\ LengthSize \in Int /\ Ring!Wrap(a) + LengthSize \in Int
          /\ a + LengthSize \in Nat
      BY WrapFacts
    <3>4. Ring!Wrap(Ring!Wrap(a) + LengthSize) = Ring!Wrap(a + LengthSize)
      BY <3>3, WrapAdd
    <3>5. PICK y \in Nat : a + LengthSize <= y /\ y < a + LengthSize + m /\ Ring!Wrap(y) = s
      BY <3>2, <3>3, <3>4, RegionPlaces
    <3>6. a <= y
      BY <3>5
    <3>7. QED
      BY <3>5, <3>6
  <2>12. \E x \in Nat : b <= x /\ x < b + LengthSize + n /\ Ring!Wrap(x) = s
    <3>1. loaded[Main] = Ring!Wrap(b) /\ length[Main] = n
      BY <2>3, <2>4, <2>6, <2>10 DEF MainInPlace, Writing
    <3>2. /\ b \in Int /\ LengthSize \in Int /\ Ring!Wrap(b) + LengthSize \in Int
          /\ b + LengthSize \in Nat /\ Ring!Wrap(b) \in Int /\ LengthSize + n \in Nat
          /\ Ring!Wrap(Ring!Wrap(b)) = Ring!Wrap(b)
      BY WrapFacts
    <3>3. CASE pc[Main] = "write_length"
      <4>1. s \in Ring!Region(Ring!Wrap(b), LengthSize + n)
        BY <2>1, <3>1, <3>3 DEF PushRegion, Ring!Required
      <4>2. PICK x \in Nat : b <= x /\ x < b + (LengthSize + n) /\ Ring!Wrap(x) = s
        BY <3>2, <4>1, RegionPlaces
      <4>3. QED
        BY <4>2
    <3>4. CASE pc[Main] = "write_body"
      <4>1. s \in Ring!Region(Ring!Wrap(b) + LengthSize, n)
        BY <2>1, <3>1, <3>4 DEF PushRegion
      <4>2. Ring!Wrap(Ring!Wrap(b) + LengthSize) = Ring!Wrap(b + LengthSize)
        BY <3>2, WrapAdd
      <4>3. PICK x \in Nat : b + LengthSize <= x /\ x < b + LengthSize + n /\ Ring!Wrap(x) = s
        BY <3>2, <4>1, <4>2, RegionPlaces
      <4>4. b <= x
        BY <4>3
      <4>5. QED
        BY <4>3, <4>4
    <3>5. QED
      BY <2>3, <3>3, <3>4
  <2>13. PICK x \in Nat, y \in Nat : y < x /\ x < y + Capacity /\ Ring!Wrap(x) = Ring!Wrap(y)
    BY <2>10, <2>11, <2>12
  <2>14. Ring!Wrap(Ring!Wrap(x) - Ring!Wrap(y)) = x - y
    <3>1. x \in Int /\ y \in Int /\ x - y \in Ring!Slots
      BY <2>13 DEF Ring!Slots
    <3>2. QED
      BY <3>1, WrapDistance
  <2>15. Ring!Wrap(x) - Ring!Wrap(y) = 0 /\ Ring!Wrap(0) = 0
    <3>1. Ring!Wrap(x) \in Int /\ 0 \in Ring!Slots
      BY WrapFacts DEF Ring!Slots
    <3>2. Ring!Wrap(0) = 0
      BY <3>1, WrapFacts
    <3>3. QED
      BY <2>13, <3>1, <3>2
  <2>16. QED
    BY <2>13, <2>14, <2>15
<1>2. QED
    BY <1>1, LoggerInvariance, PTL

\* What the file holds are the messages in the order of their logging, each once and with
\* its own text first.
THEOREM PrintedInOrderHolds == ASSUME OneWriter PROVE Spec => []PrintedInOrder
<1>1. IInv => PrintedInOrder
    BY DEF IInv
<1>2. QED
    BY <1>1, LoggerInvariance, PTL

\* A message at least as long as all before it is printed alone; only the memory of a
\* longer one can show behind it.
THEOREM OwnTextOnlyHolds == ASSUME OneWriter PROVE Spec => []OwnTextOnly
<1>1. IInv => OwnTextOnly
    BY DEF IInv
<1>2. QED
    BY <1>1, LoggerInvariance, PTL

\* A push is refused only when there is not one free byte: the slot the ring leaves unused
\* is the only thing that stops a message for which the semaphore had the bytes.
THEOREM RefusedOnlyWhenNoByteLeftHolds ==
    ASSUME OneWriter PROVE Spec => RefusedOnlyWhenNoByteLeft
<1> USE LoggerFacts
<1>1. IInv /\ [Next]_vars => [pc[Main] = "check" /\ pc'[Main] = "stop" => sem[FreeBytes] = 0]_vars
  <2>1. SUFFICES ASSUME IInv, Next, pc[Main] = "check", pc'[Main] = "stop"
                 PROVE  sem[FreeBytes] = 0
    BY DEF vars
  <2>2. PICK w \in Writers : Writers = {w}
    BY DEF OneWriter
  <2>3. /\ TypeOK /\ PlacesInOrder /\ MainInPlace /\ TokensAreMessages(w)
        /\ WriterInPlace(w) /\ BytesAccounted(w)
    BY <2>1, <2>2, Parts
  <2>4. /\ w # Main /\ pc \in [Threads -> MainLabels \cup WriterLabels]
    BY <2>2, <2>3 DEF TypeOK
  <2>5. PushRefused
    <3>1. ~WriterStep(w)
      BY <2>1, <2>2, <2>4 DEF WriterStep, WaitLoad, WakeUp, TakeToken, TakeTokenFails, CheckStop,
         PopLoad, PopCheckEmpty, PopLength, PopExchange, PopBody, ReturnBytes, ReturnBytesFails,
         Format, Goto
    <3>2. ~EndStep
      BY <2>1 DEF EndStep, WaitTillAllPopped, AllPopped, WaitTillAllPoppedFails, Destroy, Stop,
         NotifyWriters, Join, RemoveSemaphores, RemoveSemaphoresFails, Goto
    <3>3. LogStep => PushCheck \/ PushRefused
      BY <2>1 DEF LogStep, Log, WaitForBytes, WaitForBytesFails, PushLoad, PushExchange, PushLength,
         PushBody, NotifyWritten, Goto
    <3>4. ~PushCheck
      BY <2>1, <2>4 DEF PushCheck, Goto
    <3>5. QED
      BY <2>1, <2>2, <3>1, <3>2, <3>3, <3>4 DEF Next
  <2>6. /\ loaded[Main] = write_idx /\ ~stop_flag
        /\ write_idx \in 0 .. Capacity - 1 /\ read_idx \in 0 .. Capacity - 1
    BY <2>1, <2>3 DEF MainInPlace, TypeOK, Ring!MessageRingTypeOK, Ring!Slots
  <2>7. /\ sem[FreeBytes] \in Nat /\ leaked \in Nat /\ BytesOf(w) \in Nat
        /\ Ring!Required(length[Main]) \in Nat /\ Ring!Required(length[Main]) > 0
        /\ InRing(w) \in Nat /\ InRing(w) < Capacity
    BY <2>2, <2>3, ByteTypes, StateFacts DEF ByteNumbers, BytesAccounted
  <2>8. PICK r \in Nat, u \in Nat, b \in Nat, l \in Nat, t \in Nat :
           /\ r = Ring!Required(length[Main]) /\ u = InRing(w) /\ b = BytesOf(w) /\ l = leaked
           /\ t = sem[FreeBytes] /\ r > 0
    BY <2>7
  <2>9. t + r + u + b + l = Capacity
    <3>1. BytesOfMain = r /\ ~waited
      BY <2>1, <2>3, <2>6, <2>8 DEF BytesOfMain, BytesAccounted
    <3>2. QED
      BY <2>3, <2>8, <3>1 DEF BytesAccounted
  <2>10. write_idx - read_idx = IF read_idx <= write_idx THEN u ELSE u - Capacity
    BY <2>2, <2>3, <2>8, IndexDistance
  <2>11. write_idx + 1 = read_idx \/ ~(Ring!AvailableMemory(write_idx, read_idx) >= r)
    BY <2>5, <2>6, <2>8 DEF PushRefused, Ring!Fits
  <2>12. Ring!AvailableMemory(write_idx, read_idx) = Capacity - u - 1
    BY <2>6, <2>8, <2>10 DEF Ring!AvailableMemory
  <2>13. u + r >= Capacity
    <3>1. CASE write_idx + 1 = read_idx
      BY <2>6, <2>8, <2>10, <3>1
    <3>2. CASE ~(Ring!AvailableMemory(write_idx, read_idx) >= r)
      BY <2>8, <2>12, <3>2
    <3>3. QED
      BY <2>11, <3>1, <3>2
  <2>14. QED
    BY <2>8, <2>9, <2>13
<1>2. QED
    BY <1>1, LoggerInvariance, PTL DEF Spec, RefusedOnlyWhenNoByteLeft

\* The destructor goes on behind its join only when every writer has left, however many
\* there are.
WritersJoined ==
    pc \in [Threads -> MainLabels \cup WriterLabels] /\
    (pc[Main] \in {"remove", "ended", "aborted"} => \A w \in Writers : Gone(w))

\* The semaphores are removed only after all writers have ended.
LEMMA JoinedInvariance == Spec => []WritersJoined
<1> USE LoggerFacts
<1>1. Init => WritersJoined
    BY DEF Init, WritersJoined, MainLabels, WriterLabels
<1>2. WritersJoined /\ [Next]_vars => WritersJoined'
  <2>1. SUFFICES ASSUME WritersJoined, [Next]_vars PROVE WritersJoined'
    OBVIOUS
  <2>2. CASE LogStep
    <3>1. \E from : \E to \in MainLabels :
             Goto(Main, from, to) /\ to \notin {"remove", "ended", "aborted"}
      BY <2>2 DEF LogStep, Log, WaitForBytes, WaitForBytesFails, PushLoad, PushCheck, PushRefused,
         PushExchange, PushLength, PushBody, NotifyWritten, MainLabels
    <3>2. QED
      BY <2>1, <3>1 DEF WritersJoined, Goto
  <2>3. CASE EndStep
    <3>1. \E from : \E to \in MainLabels :
             /\ Goto(Main, from, to)
             /\ to \in {"remove", "ended", "aborted"} =>
                   from \in {"remove", "ended", "aborted"} \/ \A w \in Writers : Gone(w)
      BY <2>3 DEF EndStep, WaitTillAllPopped, AllPopped, WaitTillAllPoppedFails, Destroy, Stop,
         NotifyWriters, Join, RemoveSemaphores, RemoveSemaphoresFails, MainLabels
    <3>2. QED
      BY <2>1, <3>1 DEF WritersJoined, Goto, Gone
  <2>4. CASE \E w \in Writers : WriterStep(w)
    <3>1. PICK w \in Writers : WriterStep(w)
      BY <2>4
    <3>2. \E from : \E to \in WriterLabels : Goto(w, from, to) /\ from \notin {"left", "failed"}
      <4>1. CASE WaitLoad(w)
        BY <4>1 DEF WaitLoad, WriterLabels, Goto
      <4>2. CASE ~WaitLoad(w)
        BY <3>1, <4>2 DEF WriterStep, WakeUp, TakeToken, TakeTokenFails, CheckStop, PopLoad,
           PopCheckEmpty, PopLength, PopExchange, PopBody, ReturnBytes, ReturnBytesFails, Format,
           WriterLabels
      <4>3. QED
        BY <4>1, <4>2
    <3>3. w \in Threads /\ w # Main
      BY <3>1
    <3>4. QED
      BY <2>1, <3>1, <3>2, <3>3 DEF WritersJoined, Goto, Gone
  <2>5. CASE UNCHANGED vars
    BY <2>1, <2>5 DEF vars, WritersJoined, Gone
  <2>6. QED
    BY <2>1, <2>2, <2>3, <2>4, <2>5 DEF Next
<1>3. QED
    BY <1>1, <1>2, PTL DEF Spec

\* A client for which wait_till_all_popped returned true finds every message in the file
\* once the logger is destroyed.
THEOREM AllPrintedAfterWaitHolds == ASSUME OneWriter PROVE Spec => []AllPrintedAfterWait
<1>1. IInv /\ WritersJoined => AllPrintedAfterWait
  <2>1. SUFFICES ASSUME IInv, WritersJoined, waited, pc[Main] \in {"remove", "ended"}
                 PROVE  Len(printed) = MessageCount
    BY DEF AllPrintedAfterWait
  <2>2. PICK w \in Writers : Writers = {w}
    BY DEF OneWriter
  <2>3. pc[w] \in {"left", "failed"}
    BY <2>1 DEF WritersJoined, Gone
  <2>4. pop_count = MessageCount /\ pc[w] # "failed"
    BY <2>1, <2>2, Parts DEF BytesAccounted
  <2>5. Len(printed) = pop_count - 0
    BY <2>1, <2>2, <2>3, <2>4, Parts DEF PrintedSoFar
  <2>6. QED
    BY <2>4, <2>5, LoggerFacts
<1>2. QED
    BY <1>1, LoggerInvariance, JoinedInvariance, PTL
=============================================================================
