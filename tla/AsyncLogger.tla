---------------------------- MODULE AsyncLogger ----------------------------
(***************************************************************************)
(* apps/asynchronous_logger: the main thread logs messages into a message  *)
(* ring buffer, writer threads pop, format and print them.  A System V     *)
(* semaphore counts the bytes of the buffer that are free, a lock-free     *)
(* notifier counts the messages that are written.                          *)
(*                                                                         *)
(* A message is known by its number; its body has as many slots as sizes   *)
(* says, the first HeadSize of them the address of the function that       *)
(* formats it and the arguments, the rest the format.                      *)
(***************************************************************************)
EXTENDS Integers, Sequences, FiniteSets

CONSTANTS Main, Writers,
          Capacity,          \* MessageQueueCapacity
          LengthSize, Zero,  \* see MessageRingBuffer
          HeadSize,          \* sizeof(uintptr_t) and the sizes of the arguments
          MessageSizes,      \* sizes of messages the main thread may log
          MessageCount,      \* message_count
          MaxFaults          \* bound on injected failures

ASSUME LoggerAssumption ==
    /\ Writers # {} /\ IsFiniteSet(Writers) /\ Main \notin Writers
    /\ {Capacity, LengthSize, HeadSize} \subseteq Nat \ {0}
    /\ {MessageCount, MaxFaults} \subseteq Nat
    /\ \A size \in MessageSizes :
          size \in Nat /\ HeadSize < size /\ LengthSize + size < Capacity

Threads == {Main} \cup Writers
FreeBytes == "read_message_bytes"
Semaphores == {FreeBytes}
GroupSize == [s \in Semaphores |-> Capacity]

VARIABLES
    pc,
    cells, write_idx, read_idx, loaded, length,   \* message_queue_
    counter, expected,                            \* written_message_count_notifier_
    sem, removed, faults,                         \* read_message_bytes_notifier_
    stop_flag, pushed_count, pop_count,
    buffer,     \* memory of a writer's output_message_buffer
    sizes,      \* history: sizes of the messages given to log
    starts,     \* history: where each message in the ring starts, and where the next one
                \* will, counted on without wrapping
    printed,    \* history: what went to the file, a text for each message
    leaked,     \* history: bytes whose semaphore tokens nobody gives back
    waited      \* history: wait_till_all_popped has returned true

Ring == INSTANCE MessageRingBuffer
Written == INSTANCE LockFreeGroupNotifier
              WITH Waiters <- Writers, NotifierSize <- Cardinality(Writers)
Bytes == INSTANCE SystemVGroupNotifier

ringVars == <<cells, write_idx, read_idx, loaded, length>>
writtenVars == <<counter, expected>>
semVars == <<sem, removed, faults>>
counts == <<pushed_count, pop_count>>
history == <<sizes, starts, printed, leaked, waited>>
vars == <<pc, ringVars, writtenVars, semVars, stop_flag, counts, buffer, history>>

MainLabels == {"log", "wait_bytes", "push", "check", "push_exchange", "write_length",
               "write_body", "notify_one", "wait_all", "stop", "notify_all", "join",
               "remove", "ended", "aborted"}
WriterLabels == {"wait", "sleep", "take", "check_stop", "pop", "check_empty",
                 "read_length", "pop_exchange", "read_body", "return_bytes", "format",
                 "left", "failed"}

\* What the main thread logs as message m.
Message(m) == [k \in 1 .. sizes[m] |-> [id |-> m, part |-> k]]
Current == Len(sizes)

TypeOK ==
    /\ pc \in [Threads -> MainLabels \cup WriterLabels]
    /\ pc[Main] \in MainLabels /\ \A w \in Writers : pc[w] \in WriterLabels
    /\ Ring!MessageRingTypeOK /\ Written!NotifierTypeOK /\ Bytes!SemTypeOK
    /\ stop_flag \in BOOLEAN
    /\ {pushed_count, pop_count, leaked} \subseteq Nat
    /\ buffer \in [Writers -> Seq(Ring!Units)] /\ printed \in Seq(Seq(Ring!Units))
    /\ sizes \in Seq(MessageSizes) /\ Len(sizes) <= MessageCount
    /\ starts \in Seq(Nat) /\ starts # <<>>
    /\ waited \in BOOLEAN

\* create, the constructor and the start of the writers.
Init ==
    /\ pc = [p \in Threads |-> IF p = Main THEN "log" ELSE "wait"]
    /\ Ring!MessageRingInit
    /\ Written!NotifierInit(0)
    /\ Bytes!SemInit([s \in Semaphores |-> Capacity])
    /\ stop_flag = FALSE
    /\ pushed_count = 0 /\ pop_count = 0
    /\ buffer = [w \in Writers |-> <<>>]
    /\ sizes = <<>> /\ starts = <<0>> /\ printed = <<>> /\ leaked = 0 /\ waited = FALSE

-----------------------------------------------------------------------------
Goto(p, from, to) ==
    /\ pc[p] = from
    /\ pc' = [pc EXCEPT ![p] = to]

\* Steps that, besides control, change one part only.
OnlyControl == UNCHANGED <<ringVars, writtenVars, semVars, stop_flag, counts, buffer, history>>
OnlyRing == UNCHANGED <<writtenVars, semVars, stop_flag, counts, buffer, history>>
OnlyWritten == UNCHANGED <<ringVars, semVars, stop_flag, counts, buffer, history>>
OnlySem == UNCHANGED <<ringVars, writtenVars, stop_flag, counts, buffer, history>>

-----------------------------------------------------------------------------
(* log *)

\* fill_buffer: the message is put together in a buffer of its own.
Log ==
    /\ Current < MessageCount
    /\ Goto(Main, "log", "wait_bytes")
    /\ \E size \in MessageSizes :
          /\ sizes' = Append(sizes, size)
          /\ length' = [length EXCEPT ![Main] = size]
    /\ UNCHANGED <<cells, write_idx, read_idx, loaded, writtenVars, semVars, stop_flag,
                   counts, buffer, starts, printed, leaked, waited>>

\* Variant: the bytes of the length are forgotten.
WaitForBodyBytes ==
    /\ Goto(Main, "wait_bytes", "push")
    /\ Bytes!WaitFor(FreeBytes, length[Main])
    /\ OnlySem

\* Variant: log does not wait.
SkipWaitForBytes == Goto(Main, "wait_bytes", "push") /\ OnlyControl

WaitForBytes ==
    /\ Goto(Main, "wait_bytes", "push")
    /\ Bytes!WaitFor(FreeBytes, Ring!Required(length[Main]))
    /\ OnlySem

\* A log that fails makes main leave, which runs the destructor.
WaitForBytesFails ==
    /\ Goto(Main, "wait_bytes", "stop")
    /\ Bytes!CallFails
    /\ OnlySem

PushLoad == Goto(Main, "push", "check") /\ Ring!LoadWriteIdx(Main) /\ OnlyRing

PushCheck == Ring!Fits(Main) /\ Goto(Main, "check", "push_exchange") /\ OnlyControl

\* full or not_enough_space: log gives up, and keeps the bytes it has waited for.
PushRefused ==
    /\ ~Ring!Fits(Main)
    /\ Goto(Main, "check", "stop")
    /\ leaked' = leaked + Ring!Required(length[Main])
    /\ UNCHANGED <<ringVars, writtenVars, semVars, stop_flag, counts, buffer, sizes, starts,
                   printed, waited>>

PushExchange ==
    /\ Goto(Main, "push_exchange", IF Ring!WriteIdxIsLoaded(Main) THEN "write_length"
                                   ELSE "push")
    /\ Ring!ExchangeWriteIdx(Main)
    /\ starts' = IF Ring!WriteIdxIsLoaded(Main)
                 THEN Append(starts, starts[Len(starts)] + Ring!Required(length[Main]))
                 ELSE starts
    /\ UNCHANGED <<writtenVars, semVars, stop_flag, counts, buffer, sizes, printed, leaked,
                   waited>>

PushLength == Goto(Main, "write_length", "write_body") /\ Ring!WriteLength(Main) /\ OnlyRing

PushBody ==
    /\ Goto(Main, "write_body", "notify_one")
    /\ Ring!WriteBody(Main, Message(Current))
    /\ OnlyRing

NotifyWritten ==
    /\ Goto(Main, "notify_one", "log")
    /\ pushed_count' = pushed_count + 1
    /\ Written!NotifyOne
    /\ UNCHANGED <<ringVars, semVars, stop_flag, pop_count, buffer, history>>

-----------------------------------------------------------------------------
(* The end of the logger.  Main goes on to the destructor; a client may call *)
(* wait_till_all_popped before, as a comment in main does.                   *)

WaitTillAllPopped ==
    /\ Current = MessageCount
    /\ Goto(Main, "log", "wait_all")
    /\ OnlyControl

\* Variant: it waits until one byte is free.
OneBytePopped ==
    /\ Goto(Main, "wait_all", "stop")
    /\ Bytes!WaitForOne(FreeBytes)
    /\ waited' = TRUE
    /\ UNCHANGED <<ringVars, writtenVars, stop_flag, counts, buffer, sizes, starts, printed,
                   leaked>>

AllPopped ==
    /\ Goto(Main, "wait_all", "stop")
    /\ Bytes!WaitForAll(FreeBytes)
    /\ waited' = TRUE
    /\ UNCHANGED <<ringVars, writtenVars, stop_flag, counts, buffer, sizes, starts, printed,
                   leaked>>

WaitTillAllPoppedFails ==
    /\ Goto(Main, "wait_all", "stop")
    /\ Bytes!CallFails
    /\ OnlySem

Destroy ==
    /\ Current = MessageCount
    /\ Goto(Main, "log", "stop")
    /\ OnlyControl

Stop ==
    /\ Goto(Main, "stop", "notify_all")
    /\ stop_flag' = TRUE
    /\ UNCHANGED <<ringVars, writtenVars, semVars, counts, buffer, history>>

\* Variant: the writers are not woken.
ForgetWriters == Goto(Main, "notify_all", "join") /\ OnlyControl

NotifyWriters ==
    /\ Goto(Main, "notify_all", "join")
    /\ Written!NotifyAll
    /\ OnlyWritten

Gone(w) == pc[w] \in {"left", "failed"}

Join ==
    /\ \A w \in Writers : Gone(w)
    /\ Goto(Main, "join", "remove")
    /\ OnlyControl

RemoveSemaphores == Goto(Main, "remove", "ended") /\ Bytes!Remove /\ OnlySem

\* assert(semaphores_.remove())
RemoveSemaphoresFails == Goto(Main, "remove", "aborted") /\ Bytes!CallFails /\ OnlySem

-----------------------------------------------------------------------------
(* writer_group::start *)

WaitLoad(w) ==
    /\ pc[w] = "wait"
    /\ pc' = [pc EXCEPT ![w] = IF counter <= 0 THEN "sleep" ELSE "take"]
    /\ Written!LoadCounter(w)
    /\ OnlyWritten

WakeUp(w) == Written!Awake(w) /\ Goto(w, "sleep", "take") /\ OnlyControl

TakeToken(w) ==
    /\ Goto(w, "take", "check_stop")
    /\ Written!ExchangeCounter(w)
    /\ OnlyWritten

TakeTokenFails(w) ==
    /\ Goto(w, "take", "wait")
    /\ Written!ExchangeCounterFails(w)
    /\ OnlyWritten

CheckStop(w) ==
    /\ Goto(w, "check_stop", IF stop_flag THEN "left" ELSE "pop")
    /\ OnlyControl

PopLoad(w) == Goto(w, "pop", "check_empty") /\ Ring!LoadReadIdx(w) /\ OnlyRing

\* An empty buffer makes the writer leave for good.
PopCheckEmpty(w) ==
    /\ Goto(w, "check_empty", IF Ring!LooksEmpty(w) THEN "failed" ELSE "read_length")
    /\ OnlyControl

PopLength(w) == Goto(w, "read_length", "pop_exchange") /\ Ring!ReadLength(w) /\ OnlyRing

PopExchange(w) ==
    /\ Goto(w, "pop_exchange", IF Ring!ReadIdxIsLoaded(w) THEN "read_body" ELSE "pop")
    /\ Ring!ExchangeReadIdx(w)
    /\ OnlyRing

\* Variant: what was there stays in front.
OverwriteNothing(memory, text) == memory \o text

\* What a memory holds after text has been copied to its beginning.
Overwrite(memory, text) == text \o SubSeq(memory, Len(text) + 1, Len(memory))

\* The vector is resized, not cleared: a longer message leaves its end behind.
PopBody(w) ==
    /\ Goto(w, "read_body", "return_bytes")
    /\ buffer' = [buffer EXCEPT ![w] = Overwrite(@, Ring!Body(w))]
    /\ pop_count' = pop_count + 1
    /\ UNCHANGED <<ringVars, writtenVars, semVars, stop_flag, pushed_count, history>>

ReturnBytes(w) ==
    /\ Goto(w, "return_bytes", "format")
    /\ Bytes!Notify(FreeBytes, Ring!Required(length[w]))
    /\ OnlySem

\* The writer leaves with a message that is not printed and bytes not given back.
ReturnBytesFails(w) ==
    /\ Goto(w, "return_bytes", "failed")
    /\ Bytes!CallFails
    /\ leaked' = leaked + Ring!Required(length[w])
    /\ UNCHANGED <<ringVars, writtenVars, stop_flag, counts, buffer, sizes, starts, printed,
                   waited>>

\* format_message: printf is given the address of the format, not its length, and
\* stops at the first zero byte.
Format(w) ==
    /\ Goto(w, "format", "wait")
    /\ printed' = Append(printed, buffer[w])
    /\ UNCHANGED <<ringVars, writtenVars, semVars, stop_flag, counts, buffer, sizes, starts,
                   leaked, waited>>

-----------------------------------------------------------------------------
LogStep ==
    \/ Log \/ WaitForBytes \/ WaitForBytesFails \/ PushLoad \/ PushCheck \/ PushRefused
    \/ PushExchange \/ PushLength \/ PushBody \/ NotifyWritten

EndStep ==
    \/ WaitTillAllPopped \/ AllPopped \/ WaitTillAllPoppedFails \/ Destroy \/ Stop
    \/ NotifyWriters \/ Join \/ RemoveSemaphores \/ RemoveSemaphoresFails

WriterStep(w) ==
    \/ WaitLoad(w) \/ WakeUp(w) \/ TakeToken(w) \/ TakeTokenFails(w) \/ CheckStop(w)
    \/ PopLoad(w) \/ PopCheckEmpty(w) \/ PopLength(w) \/ PopExchange(w) \/ PopBody(w)
    \/ ReturnBytes(w) \/ ReturnBytesFails(w) \/ Format(w)

Next == LogStep \/ EndStep \/ \E w \in Writers : WriterStep(w)

Spec == Init /\ [][Next]_vars

\* Threads are scheduled, no failure is owed, and a weak exchange does not fail
\* spuriously for ever.
NoFault == faults' = faults
FairSpec ==
    /\ Spec
    /\ WF_vars((LogStep \/ EndStep) /\ NoFault)
    /\ \A w \in Writers : WF_vars(WriterStep(w) /\ NoFault) /\ SF_vars(TakeToken(w))

-----------------------------------------------------------------------------
(* Properties *)

Used == Ring!Wrap(write_idx - read_idx)

\* The bytes main has waited for and not announced to the ring yet.
BytesOfMain ==
    IF pc[Main] \in {"push", "check", "push_exchange"} THEN Ring!Required(length[Main]) ELSE 0

\* The bytes a writer has taken out of the ring and not given back yet.
BytesOf(w) ==
    IF pc[w] \in {"read_body", "return_bytes"} THEN Ring!Required(length[w]) ELSE 0

SumOver(S, Op(_)) ==
    LET sum[T \in SUBSET S] == IF T = {} THEN 0
                               ELSE LET x == CHOOSE x \in T : TRUE IN Op(x) + sum[T \ {x}]
    IN  sum[S]

\* Until the client has waited for all, every byte is free, waited for by main, in
\* the ring, with a writer, or leaked (log with PushRefused, start with
\* ReturnBytesFails).  It relates the semaphore to the distance of two indices that
\* wrap: were the ring ever overrun, the distance would be short by a whole round.
ByteAccount ==
    ~waited => sem[FreeBytes] + BytesOfMain + Used + SumOver(Writers, BytesOf) + leaked = Capacity

\* What makes it inductive, and SlotsApart and the order of printing with it, for one
\* writer as main.cpp starts.  Positions that do not wrap tell messages apart that share
\* slots in turn; Pushed of them are in the ring or have been.
Pushed == Len(starts) - 1

\* How many messages the writer owns or has owned; pop_count is a step behind.
Popped(w) == pop_count + (IF pc[w] = "read_body" THEN 1 ELSE 0)

\* Messages lie one behind the other.
PlacesInOrder ==
    /\ starts[1] = 0 /\ Current \in {Pushed, Pushed + 1}
    /\ \A m \in 1 .. Pushed : starts[m + 1] = starts[m] + Ring!Required(sizes[m])
    /\ \A i, j \in 1 .. Pushed + 1 : i < j => starts[i] < starts[j]

\* The main thread is about to push the message it logs last, or is writing it.
Entering == pc[Main] \in {"wait_bytes", "push", "check", "push_exchange"}
Writing == pc[Main] \in {"write_length", "write_body", "notify_one"}
MainInPlace ==
    /\ write_idx = Ring!Wrap(starts[Pushed + 1])
    /\ pushed_count = IF Writing THEN Pushed - 1 ELSE Pushed
    /\ Entering => Current = Pushed + 1
    /\ Writing => Current = Pushed /\ loaded[Main] = Ring!Wrap(starts[Pushed])
    /\ Entering \/ Writing => length[Main] = sizes[Current]
    /\ pc[Main] \in {"log", "wait_all"} => Current = Pushed
    /\ pc[Main] = "wait_all" => Current = MessageCount
    /\ pc[Main] \in {"check", "push_exchange"} => loaded[Main] = write_idx
    /\ stop_flag <=> pc[Main] \in {"notify_all", "join", "remove", "ended", "aborted"}

\* The writer pops only what is written: until the logger stops, each token is a message.
AboutToPop(w) == pc[w] \in {"pop", "check_empty", "read_length", "pop_exchange", "read_body"}
TokensAreMessages(w) ==
    /\ counter >= 0
    /\ pc[w] = "sleep" => expected[w] <= 0
    /\ pc[w] = "take" => expected[w] > 0 \/ counter > 0
    /\ pop_count <= pushed_count /\ (AboutToPop(w) => pop_count < pushed_count)
    /\ ~stop_flag => counter + pop_count + (IF AboutToPop(w) \/ pc[w] = "check_stop" THEN 1 ELSE 0)
                        <= pushed_count

WriterInPlace(w) ==
    /\ read_idx = Ring!Wrap(starts[Popped(w) + 1])
    /\ pc[w] \in {"check_empty", "read_length", "pop_exchange"} => loaded[w] = read_idx
    /\ pc[w] = "read_body" => loaded[w] = Ring!Wrap(starts[pop_count + 1])
    /\ pc[w] \in {"pop_exchange", "read_body"} => length[w] = sizes[pop_count + 1]
    /\ pc[w] \in {"return_bytes", "format"} => pop_count > 0 /\ length[w] = sizes[pop_count]

\* ByteAccount without wrapping, and what the client that has waited knows.
InRing(w) == starts[Pushed + 1] - starts[Popped(w) + 1]
BytesAccounted(w) ==
    /\ InRing(w) < Capacity
    /\ pc[Main] = "push_exchange" => InRing(w) + Ring!Required(length[Main]) < Capacity
    /\ ~waited => sem[FreeBytes] + BytesOfMain + InRing(w) + BytesOf(w) + leaked = Capacity
    /\ pc[w] = "failed" => leaked > 0
    /\ waited => /\ pc[Main] = "stop" \/ stop_flag
                 /\ pop_count = MessageCount /\ pushed_count = MessageCount
                 /\ pc[w] \notin {"return_bytes", "failed"}

\* The k-th slot of message m, and that its first slots are in place.
Unit(m, k) == IF k <= LengthSize THEN [length |-> sizes[m], part |-> k]
                                 ELSE [id |-> m, part |-> k - LengthSize]
Holds(m, count) == \A k \in 1 .. count : cells[Ring!Wrap(starts[m] + k - 1)] = Unit(m, k)

MessagesHeld ==
    /\ \A m \in pop_count + 1 .. pushed_count : Holds(m, Ring!Required(sizes[m]))
    /\ pc[Main] = "write_body" => Holds(Pushed, LengthSize)
    /\ pc[Main] = "notify_one" => Holds(Pushed, Ring!Required(sizes[Pushed]))

\* Slots that are being written, or hold a message, or are being read.
PushRegion ==
    CASE pc[Main] = "write_length" -> Ring!Region(loaded[Main], Ring!Required(length[Main]))
      [] pc[Main] = "write_body"   -> Ring!Region(loaded[Main] + LengthSize, length[Main])
      [] OTHER -> {}
ReadRegion(w) ==
    IF pc[w] = "read_body" THEN Ring!Region(loaded[w] + LengthSize, length[w]) ELSE {}

\* Nobody copies into slots another thread copies out of.  try_pop moves read_idx_
\* before it copies the body, so the ring alone would let try_push reuse the slots;
\* the bytes the writer holds prevent it.
SlotsApart == \A w \in Writers : PushRegion \cap ReadRegion(w) = {}

\* log is refused a push only when not one byte is free: the semaphore counts all
\* slots, of which the ring leaves one unused.
RefusedOnlyWhenNoByteLeft ==
    [][pc[Main] = "check" /\ pc'[Main] = "stop" => sem[FreeBytes] = 0]_vars

\* What is printed are the messages in the order of their logging, each once and
\* with its own text first (writer_group::start, main.cpp:98).
PrintedInOrder ==
    \A i \in DOMAIN printed :
        i <= Len(sizes) /\ SubSeq(printed[i], 1, sizes[i]) = Message(i)

\* Text of another message can follow only if an earlier one was longer.
OwnTextOnly ==
    \A i \in DOMAIN printed :
        (\A j \in 1 .. i : sizes[j] <= sizes[i]) => Len(printed[i]) = sizes[i]

\* The memory of the writer is as long as the longest message so far.
PrintedSoFar(w) ==
    /\ Len(printed) =
         pop_count - (IF pc[w] \in {"return_bytes", "format", "failed"} THEN 1 ELSE 0)
    /\ pc[w] \in {"return_bytes", "format"} =>
         SubSeq(buffer[w], 1, sizes[pop_count]) = Message(pop_count)
    /\ \A j \in 1 .. pop_count : sizes[j] <= Len(buffer[w])
    /\ buffer[w] = <<>> \/ \E j \in 1 .. pop_count : Len(buffer[w]) = sizes[j]

OneWriter == \E w \in Writers : Writers = {w}
IInv ==
    /\ TypeOK /\ PlacesInOrder /\ MainInPlace /\ MessagesHeld /\ PrintedInOrder /\ OwnTextOnly
    /\ \A w \in Writers :
          TokensAreMessages(w) /\ WriterInPlace(w) /\ BytesAccounted(w) /\ PrintedSoFar(w)

\* A client for which wait_till_all_popped returned true finds all messages in the
\* file once the logger is destroyed.  Without the call the destructor drops those
\* not popped, and main ends with success all the same.
AllPrintedAfterWait ==
    waited /\ pc[Main] \in {"remove", "ended"} => Len(printed) = MessageCount

\* The asserts of output_message_buffer (main.cpp:42, main.cpp:67): a popped message
\* holds the address of its formatter, the arguments, and a format.
MessageHoldsFormat == \A w \in Writers : pc[w] = "format" => length[w] > HeadSize

\* The logger comes to its end and joins its writers, unless a writer has left with
\* an error: then log or wait_till_all_popped may wait for bytes nobody gives back.
LoggerEnds ==
    <>(pc[Main] \in {"ended", "aborted"} \/ \E w \in Writers : pc[w] = "failed")
=============================================================================
