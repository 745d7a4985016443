-------------------------- MODULE MCSmallPrograms --------------------------
(***************************************************************************)
(* The smaller programs for TLC, side by side: create_language's readers,  *)
(* the disk scheduler, the text editor, and the threads that share mutexes,*)
(* a buffer or a queue have nothing to do with each other.  A behaviour is *)
(* one of one of them, with the others idle in their initial states.       *)
(***************************************************************************)
EXTENDS Kaleidoscope, Scan, HierarchicalMutex, BoundedBuffer, ThreadsafeQueue, TextEditor

MCChains == UNION {[1 .. n -> {"<", "+", "-", "*"}] : n \in 0 .. 4}

\* All strings of up to four characters, with and without an EOF character.
MCCharacters == {"a", "def", "1", "0", ".", "+", "#", " ", "\n"}
MCStrings == UNION {[1 .. n -> MCCharacters] : n \in 0 .. 4}

\* All texts of up to four fragments, of which three can make a definition.
MCFragments ==
    { <<"def", " ">>, <<"extern", " ">>, <<"a", " ">>, <<"1", " ">>, <<"a", "(">>, <<"(">>, <<")">>,
      <<",">>, <<"*">>, <<";">>, <<"a", "(", "a", " ", "a", ")">> }
MCPrograms == {FlattenSeq(f) : f \in UNION {[1 .. n -> MCFragments] : n \in 0 .. 4}}

MCTexts ==
    MCStrings \cup {Append(s, EOF) : s \in MCStrings \cup MCPrograms \cup {Written(ops) : ops \in MCChains}}

\* Three mutexes, two of them on the same level.
MCLevels == [m \in Mutexes |-> IF m = "high" THEN 3 ELSE 1]

VARIABLE part
mcVars == <<part, kaleidoscopeVars, scanVars, mutexVars, bufferVars, queueVars, editorVars>>

LanguageIdle == text = <<>> /\ Init
DiskIdle == requests = {} /\ head_position = MinTrack /\ curr_direction = "left"
MutexIdle == subject = [t \in Threads |-> "high"] /\ MutexInit
BufferIdle == item = [t \in Workers |-> 1] /\ BufferInit

MCInit ==
    \/ part = "language" /\ Init /\ DiskIdle /\ MutexIdle /\ BufferIdle /\ QueueInit /\ EditorInit
    \/ part = "disk" /\ ScanInit /\ LanguageIdle /\ MutexIdle /\ BufferIdle /\ QueueInit /\ EditorInit
    \/ part = "mutex" /\ MutexInit /\ LanguageIdle /\ DiskIdle /\ BufferIdle /\ QueueInit /\ EditorInit
    \/ part = "buffer" /\ BufferInit /\ LanguageIdle /\ DiskIdle /\ MutexIdle /\ QueueInit /\ EditorInit
    \/ /\ part \in {"queue", "editor"}
       /\ QueueInit /\ EditorInit /\ LanguageIdle /\ DiskIdle /\ MutexIdle /\ BufferIdle

\* The readers and the editor end, the buffer's threads exit, and processing threads may wait for a chunk
\* that nobody prepares any more; there is no other state that a program may stop in.
MCEnd ==
    /\ \/ part = "language" /\ AllLexed /\ Ended /\ source_rest = <<>>
       \/ part = "buffer" /\ \A t \in Workers : stage[t] = "exit"
       \/ part = "editor" /\ doing \in Ends
       \/ part = "queue" /\ \A t \in Participants : at[t] \in {"end", "asleep"}
    /\ UNCHANGED mcVars

MCNext ==
    \/ part = "language" /\ Next
       /\ UNCHANGED <<part, scanVars, mutexVars, bufferVars, queueVars, editorVars>>
    \/ part = "disk" /\ ScanNext
       /\ UNCHANGED <<part, kaleidoscopeVars, mutexVars, bufferVars, queueVars, editorVars>>
    \/ part = "mutex" /\ MutexNext
       /\ UNCHANGED <<part, kaleidoscopeVars, scanVars, bufferVars, queueVars, editorVars>>
    \/ part = "buffer" /\ BufferNext
       /\ UNCHANGED <<part, kaleidoscopeVars, scanVars, mutexVars, queueVars, editorVars>>
    \/ part = "queue" /\ QueueNext
       /\ UNCHANGED <<part, kaleidoscopeVars, scanVars, mutexVars, bufferVars, editorVars>>
    \/ part = "editor" /\ EditorNext
       /\ UNCHANGED <<part, kaleidoscopeVars, scanVars, mutexVars, bufferVars, queueVars>>
    \/ MCEnd

MCSpec ==
    MCInit /\ [][MCNext]_mcVars /\ WF_kaleidoscopeVars(Parse) /\ ScanFairness
=============================================================================
