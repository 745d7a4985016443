-------------------------- MODULE SequentialProofs --------------------------
(***************************************************************************)
(* Proofs about the sequential programs: the disk scheduler, for every     *)
(* number of tracks, the text editor, for all keys and any number of them, *)
(* and the lexers of create_language, for texts of any length.             *)
(***************************************************************************)
EXTENDS Scan, TextEditor, KaleidoscopeLexers, Counting, SequenceTheorems

-----------------------------------------------------------------------------
(* The disk scheduler *)

\* Some requests have a first and a last one.
LEMMA Extremes ==
    ASSUME NEW pending \in SUBSET Tracks, pending # {}
    PROVE  /\ Min(pending) \in pending /\ \A r \in pending : Min(pending) <= r
           /\ Max(pending) \in pending /\ \A r \in pending : r <= Max(pending)
<1>1. /\ MinTrack \in Nat /\ MaxTrack \in Nat
      /\ \A r \in pending : r \in Nat /\ MaxTrack - r \in Nat
    BY TracksAssumption DEF Tracks
<1>2. \E x \in pending : \A y \in pending : x <= y
    BY <1>1, LeastOf
<1>3. \E x \in pending : \A y \in pending : x >= y
  <2> DEFINE above == {MaxTrack - r : r \in pending}
  <2>1. PICK n \in above : \A k \in above : n <= k
    <3>1. above \in SUBSET Nat /\ above # {}
      BY <1>1
    <3> HIDE DEF above
    <3>2. QED
      BY <3>1, LeastOf
  <2>2. PICK x \in pending : n = MaxTrack - x
    BY <2>1
  <2>3. ASSUME NEW y \in pending PROVE x >= y
    BY <1>1, <2>1, <2>2
  <2>4. QED
    BY <2>3
<1>4. Min(pending) \in pending /\ \A r \in pending : Min(pending) <= r
    BY <1>2 DEF Min
<1>5. Max(pending) \in pending /\ \A r \in pending : Max(pending) >= r
    BY <1>3 DEF Max
<1>6. QED
    BY <1>1, <1>4, <1>5

\* A least number is the one that is there and below which none is.
LEMMA LeastIs ==
    ASSUME NEW S \in SUBSET Nat, NEW n \in S, \A k \in S : n <= k
    PROVE  Min(S) = n
<1>1. ASSUME NEW x \in S, \A y \in S : x <= y PROVE x = n
    BY <1>1
<1>2. QED
    BY <1>1 DEF Min

\* What select_next chooses is waiting, and nothing waits on the way there.
LEMMA Selected ==
    ASSUME NEW head \in Tracks, NEW direction \in {"left", "right"},
           NEW pending \in SUBSET Tracks, pending # {}
    PROVE  LET selected == SelectFromSet(head, direction, pending)
           IN  /\ selected.request \in pending
               /\ selected.direction \in {"left", "right"}
               /\ \A r \in pending : /\ ~(head < r /\ r < selected.request)
                                     /\ ~(selected.request < r /\ r < head)
<1> DEFINE greater == {r \in pending : r > head}
           less == {r \in pending : r < head}
<1>1. \A r \in pending \cup {head} : r \in Int
    BY TracksAssumption DEF Tracks
<1>2. /\ greater # {} => /\ Min(greater) \in greater
                         /\ \A r \in greater : Min(greater) <= r
      /\ less # {} => Max(less) \in less /\ \A r \in less : r <= Max(less)
      /\ Min(pending) \in pending /\ \A r \in pending : Min(pending) <= r
      /\ Max(pending) \in pending /\ \A r \in pending : r <= Max(pending)
  <2>1. greater \in SUBSET Tracks /\ less \in SUBSET Tracks
    OBVIOUS
  <2> HIDE DEF greater, less
  <2>2. QED
    BY <2>1, Extremes
<1>3. CASE direction = "right" /\ greater = {}
    BY <1>1, <1>2, <1>3 DEF SelectFromSet, Selection
<1>4. CASE direction = "right" /\ greater # {}
    BY <1>1, <1>2, <1>4 DEF SelectFromSet, Selection
<1>5. CASE direction = "left" /\ less = {}
    BY <1>1, <1>2, <1>5 DEF SelectFromSet, Selection
<1>6. CASE direction = "left" /\ less # {}
    BY <1>1, <1>2, <1>6 DEF SelectFromSet, Selection
<1>7. QED
    BY <1>3, <1>4, <1>5, <1>6

\* The head stays on the disk, and so do the requests.
THEOREM ScanTypeCorrect == ScanSpec => []ScanTypeOK
<1>1. ScanInit => ScanTypeOK
    BY DEF ScanInit, ScanTypeOK
<1>2. ScanTypeOK /\ [ScanNext]_scanVars => ScanTypeOK'
  <2> SUFFICES ASSUME ScanTypeOK, [ScanNext]_scanVars PROVE ScanTypeOK'
    OBVIOUS
  <2> USE DEF ScanTypeOK
  <2>1. CASE SelectNext
    <3> DEFINE selected == SelectFromSet(head_position, curr_direction, requests)
    <3>1. selected.request \in requests /\ selected.direction \in {"left", "right"}
      BY <2>1, Selected DEF SelectNext
    <3>2. /\ head_position' = selected.request /\ curr_direction' = selected.direction
          /\ requests' = requests \ {selected.request}
      BY <2>1 DEF SelectNext
    <3> HIDE DEF selected
    <3>3. QED
      BY <3>1, <3>2
  <2>2. CASE \E r \in Tracks \ requests : Arrive(r)
    BY <2>2 DEF Arrive
  <2>3. CASE UNCHANGED scanVars
    BY <2>3 DEF scanVars
  <2>4. QED
    BY <2>1, <2>2, <2>3 DEF ScanNext
<1>3. QED
    BY <1>1, <1>2, PTL DEF ScanSpec

\* The head never jumps over a request, on a disk of any size.
THEOREM NothingIsPassedHolds == ScanSpec => NothingIsPassed
<1>1. ScanTypeOK /\ [ScanNext]_scanVars =>
          [SelectNext => \A r \in requests :
              ~(head_position < r /\ r < head_position') /\ ~(head_position' < r /\ r < head_position)]_scanVars
  <2> SUFFICES ASSUME ScanTypeOK, SelectNext, NEW r \in requests
               PROVE  /\ ~(head_position < r /\ r < head_position')
                      /\ ~(head_position' < r /\ r < head_position)
    OBVIOUS
  <2>1. head_position' = SelectFromSet(head_position, curr_direction, requests).request
    BY DEF SelectNext
  <2>2. QED
    BY <2>1, Selected DEF ScanTypeOK
<1>2. QED
    BY <1>1, ScanTypeCorrect, PTL DEF ScanSpec, NothingIsPassed

\* select_next chooses the same on an array and on a flat_set, except that a head moving left
\* serves a request where it stands at once from an array.
THEOREM SelectionsAgreeHolds == ScanSpec => []SelectionsAgree
<1>1. ScanTypeOK => SelectionsAgree
  <2> SUFFICES ASSUME ScanTypeOK, requests # {}, NEW direction \in {"left", "right"}
               PROVE  SelectFromArray(head_position, direction, requests) =
                          IF direction = "left" /\ head_position \in requests
                          THEN Selection(head_position, "left")
                          ELSE SelectFromSet(head_position, direction, requests)
    BY DEF SelectionsAgree
  <2> DEFINE greater == {r \in requests : r > head_position}
             others == requests \ greater
  <2>0. head_position \in Int /\ \A r \in requests : r \in Int
    BY TracksAssumption DEF ScanTypeOK, Tracks
  <2>1. CASE direction = "right"
    <3>1. direction # "left"
      BY <2>1
    <3>2. QED
      BY <2>1, <3>1, Zenon DEF SelectFromSet, SelectFromArray
  <2>2. CASE direction = "left" /\ head_position \notin requests
    <3>1. others = {r \in requests : r < head_position}
      BY <2>0, <2>2
    <3>2. direction # "right"
      BY <2>2
    <3>3. QED
      BY <2>2, <3>1, <3>2, Zenon DEF SelectFromSet, SelectFromArray
  <2>3. CASE direction = "left" /\ head_position \in requests
    <3>0. ~(head_position > head_position)
      BY <2>0
    <3>1. head_position \in others /\ others \in SUBSET Tracks /\ others # {}
      BY <2>3, <3>0, Zenon DEF ScanTypeOK
    <3>2. Max(others) \in others /\ \A r \in others : r <= Max(others)
      BY <3>1, Extremes
    <3>3. Max(others) = head_position
      BY <2>0, <3>1, <3>2
    <3>4. direction # "right"
      BY <2>3
    <3>5. QED
      BY <2>3, <3>1, <3>3, <3>4, Zenon DEF SelectFromArray
  <2>4. QED
    BY <2>1, <2>2, <2>3
<1>2. QED
    BY <1>1, ScanTypeCorrect, PTL

\* Where the head is after the first moves, and after it has turned.
LEMMA AfterFacts ==
    ASSUME NEW head \in Tracks, NEW n \in Nat
    PROVE  /\ ToEnd(head, "left") = head - MinTrack
           /\ ToEnd(head, "right") = MaxTrack - head
           /\ n <= head - MinTrack => After(n, head, "left") = head - n
           /\ n > head - MinTrack =>
                 After(n, head, "left") = MinTrack + (n - (head - MinTrack))
           /\ n <= MaxTrack - head => After(n, head, "right") = head + n
           /\ n > MaxTrack - head =>
                 After(n, head, "right") = MaxTrack - (n - (MaxTrack - head))
<1>1. head \in Int /\ MinTrack \in Int /\ MaxTrack \in Int
    BY TracksAssumption DEF Tracks
<1>2. QED
    BY <1>1 DEF ToEnd, After

\* To the left: to the first track, and back to the last request behind the head.
LEMMA SweepLeft ==
    ASSUME NEW head \in Tracks, NEW pending \in SUBSET Tracks, pending # {},
           NEW way, way = (head - MinTrack)
                          + (IF head < Max(pending) THEN Max(pending) - MinTrack ELSE 0)
    PROVE  Min(Sweeps(pending, head, "left")) = way
<1>1. /\ MinTrack \in Nat /\ MaxTrack \in Nat /\ MinTrack < MaxTrack
      /\ head \in Nat /\ MinTrack <= head /\ head <= MaxTrack
      /\ \A r \in pending : r \in Nat /\ MinTrack <= r /\ r <= MaxTrack
    BY TracksAssumption DEF Tracks
<1>2. PICK last \in pending : last = Max(pending) /\ \A r \in pending : r <= last
    BY Extremes
<1>3. /\ way \in Nat /\ head - MinTrack <= way /\ way <= 2 * (MaxTrack - MinTrack)
      /\ way = (head - MinTrack) + (IF head < last THEN last - MinTrack ELSE 0)
    BY <1>1, <1>2
<1>4. ASSUME NEW r \in pending
      PROVE  \E i \in 0 .. way : r = After(i, head, "left")
  <2>1. CASE r <= head
    <3>1. head - r \in 0 .. way /\ head - r \in Nat /\ head - r <= head - MinTrack
      BY <1>1, <1>3, <2>1
    <3>2. After(head - r, head, "left") = head - (head - r)
      BY <3>1, AfterFacts
    <3>3. r = After(head - r, head, "left")
      BY <1>1, <3>2
    <3>4. QED
      BY <3>1, <3>3
  <2>2. CASE head < r
    <3> DEFINE i == (head - MinTrack) + (r - MinTrack)
    <3>1. i \in 0 .. way /\ i \in Nat /\ i > head - MinTrack
      BY <1>1, <1>2, <1>3, <2>2
    <3>2. After(i, head, "left") = MinTrack + (i - (head - MinTrack))
      BY <3>1, AfterFacts
    <3>3. r = After(i, head, "left")
      BY <1>1, <3>2
    <3>4. QED
      BY <3>1, <3>3
  <2>3. QED
    BY <1>1, <2>1, <2>2
<1>5. ASSUME NEW k \in Sweeps(pending, head, "left") PROVE k \in Nat /\ way <= k
  <2>1. k \in head - MinTrack .. 2 * (MaxTrack - MinTrack)
    BY AfterFacts DEF Sweeps
  <2>2. PICK i \in 0 .. k : last = After(i, head, "left")
    BY <1>2 DEF Sweeps
  <2>3. CASE last <= head
    BY <1>1, <1>3, <2>1, <2>3
  <2>4. CASE head < last
    <3>1. k \in Nat /\ i \in Nat /\ i <= k
      BY <1>1, <2>1
    <3>2. CASE i <= head - MinTrack
      <4>1. last = head - i
        BY <2>2, <3>1, <3>2, AfterFacts
      <4>2. QED
        BY <1>1, <2>4, <3>1, <4>1
    <3>3. CASE i > head - MinTrack
      <4>1. last = MinTrack + (i - (head - MinTrack))
        BY <2>2, <3>1, <3>3, AfterFacts
      <4>2. QED
        BY <1>1, <1>3, <2>4, <3>1, <4>1
    <3>4. QED
      BY <1>1, <3>1, <3>2, <3>3
  <2>5. QED
    BY <1>1, <2>3, <2>4
<1>6. way \in Sweeps(pending, head, "left")
  <2>1. way \in ToEnd(head, "left") .. 2 * (MaxTrack - MinTrack)
    BY <1>1, <1>3, AfterFacts
  <2>2. QED
    BY <1>4, <2>1 DEF Sweeps
<1>7. Sweeps(pending, head, "left") \in SUBSET Nat
    BY <1>5
<1>8. QED
    BY <1>5, <1>6, <1>7, LeastIs

\* To the right: to the last track, and back to the first request behind the head.
LEMMA SweepRight ==
    ASSUME NEW head \in Tracks, NEW pending \in SUBSET Tracks, pending # {},
           NEW way, way = (MaxTrack - head)
                          + (IF head > Min(pending) THEN MaxTrack - Min(pending) ELSE 0)
    PROVE  Min(Sweeps(pending, head, "right")) = way
<1>1. /\ MinTrack \in Nat /\ MaxTrack \in Nat /\ MinTrack < MaxTrack
      /\ head \in Nat /\ MinTrack <= head /\ head <= MaxTrack
      /\ \A r \in pending : r \in Nat /\ MinTrack <= r /\ r <= MaxTrack
    BY TracksAssumption DEF Tracks
<1>2. PICK first \in pending : first = Min(pending) /\ \A r \in pending : first <= r
    BY Extremes
<1>3. /\ way \in Nat /\ MaxTrack - head <= way /\ way <= 2 * (MaxTrack - MinTrack)
      /\ way = (MaxTrack - head) + (IF head > first THEN MaxTrack - first ELSE 0)
    BY <1>1, <1>2
<1>4. ASSUME NEW r \in pending
      PROVE  \E i \in 0 .. way : r = After(i, head, "right")
  <2>1. CASE head <= r
    <3>1. r - head \in 0 .. way /\ r - head \in Nat /\ r - head <= MaxTrack - head
      BY <1>1, <1>3, <2>1
    <3>2. After(r - head, head, "right") = head + (r - head)
      BY <3>1, AfterFacts
    <3>3. r = After(r - head, head, "right")
      BY <1>1, <3>2
    <3>4. QED
      BY <3>1, <3>3
  <2>2. CASE r < head
    <3> DEFINE i == (MaxTrack - head) + (MaxTrack - r)
    <3>1. i \in 0 .. way /\ i \in Nat /\ i > MaxTrack - head
      BY <1>1, <1>2, <1>3, <2>2
    <3>2. After(i, head, "right") = MaxTrack - (i - (MaxTrack - head))
      BY <3>1, AfterFacts
    <3>3. r = After(i, head, "right")
      BY <1>1, <3>2
    <3>4. QED
      BY <3>1, <3>3
  <2>3. QED
    BY <1>1, <2>1, <2>2
<1>5. ASSUME NEW k \in Sweeps(pending, head, "right") PROVE k \in Nat /\ way <= k
  <2>1. k \in MaxTrack - head .. 2 * (MaxTrack - MinTrack)
    BY AfterFacts DEF Sweeps
  <2>2. PICK i \in 0 .. k : first = After(i, head, "right")
    BY <1>2 DEF Sweeps
  <2>3. CASE head <= first
    BY <1>1, <1>3, <2>1, <2>3
  <2>4. CASE first < head
    <3>1. k \in Nat /\ i \in Nat /\ i <= k
      BY <1>1, <2>1
    <3>2. CASE i <= MaxTrack - head
      <4>1. first = head + i
        BY <2>2, <3>1, <3>2, AfterFacts
      <4>2. QED
        BY <1>1, <2>4, <3>1, <4>1
    <3>3. CASE i > MaxTrack - head
      <4>1. first = MaxTrack - (i - (MaxTrack - head))
        BY <2>2, <3>1, <3>3, AfterFacts
      <4>2. QED
        BY <1>1, <1>3, <2>4, <3>1, <4>1
    <3>4. QED
      BY <1>1, <3>1, <3>2, <3>3
  <2>5. QED
    BY <1>1, <2>3, <2>4
<1>6. way \in Sweeps(pending, head, "right")
  <2>1. way \in ToEnd(head, "right") .. 2 * (MaxTrack - MinTrack)
    BY <1>1, <1>3, AfterFacts
  <2>2. QED
    BY <1>4, <2>1 DEF Sweeps
<1>7. Sweeps(pending, head, "right") \in SUBSET Nat
    BY <1>5
<1>8. QED
    BY <1>5, <1>6, <1>7, LeastIs

\* compute_seek_distance is the number of moves of a sweep over all requests, on a disk of
\* any size.
THEOREM SeekDistanceIsTravelledHolds == ScanSpec => []SeekDistanceIsTravelled
<1>1. ScanTypeOK => SeekDistanceIsTravelled
  <2> SUFFICES ASSUME ScanTypeOK, NEW direction \in {"left", "right"}
               PROVE  SeekDistance(requests, head_position, direction) =
                          IF requests \subseteq {head_position} THEN 0
                          ELSE Min(Sweeps(requests, head_position, direction))
    BY DEF SeekDistanceIsTravelled
  <2>1. CASE requests \subseteq {head_position}
    BY <2>1, Zenon DEF SeekDistance
  <2>2. CASE ~(requests \subseteq {head_position})
    <3>1. requests # {} /\ requests \in SUBSET Tracks /\ head_position \in Tracks
      BY <2>2 DEF ScanTypeOK
    <3>2. CASE direction = "left"
      <4>1. SeekDistance(requests, head_position, direction) =
              (head_position - MinTrack)
              + (IF head_position < Max(requests) THEN Max(requests) - MinTrack ELSE 0)
        BY <2>2, <3>2 DEF SeekDistance
      <4>2. QED
        BY <2>2, <3>1, <3>2, <4>1, SweepLeft
    <3>3. CASE direction = "right"
      <4>1. SeekDistance(requests, head_position, direction) =
              (MaxTrack - head_position)
              + (IF head_position > Min(requests) THEN MaxTrack - Min(requests) ELSE 0)
        BY <2>2, <3>3 DEF SeekDistance
      <4>2. QED
        BY <2>2, <3>1, <3>3, <4>1, SweepRight
    <3>4. QED
      BY <3>2, <3>3
  <2>3. QED
    BY <2>1, <2>2
<1>2. QED
    BY <1>1, ScanTypeCorrect, PTL

-----------------------------------------------------------------------------
(* The text editor *)

\* An answer has four items.
LEMMA AnswerFacts ==
    /\ Len(Answer) = 4 /\ DOMAIN Answer = 1 .. 4
    /\ Answer[1] = "escape" /\ Answer[2] = "[" /\ Answer[3] = "numbers" /\ Answer[4] = "R"
    /\ \A i \in 1 .. 4 : Answer[i] \in Characters
BY DEF Answer, Characters, Range

\* process_key changes the document and the modes.
LEMMA ProcessKeyType ==
    ASSUME NEW editor \in Editors, NEW key \in Characters
    PROVE  ProcessKey(editor, key) \in Editors
<1>1. /\ editor.document \in Seq(Characters)
      /\ editor.edit_mode \in BOOLEAN /\ editor.keep_running \in BOOLEAN
    BY DEF Editors
<1>2. editor.document # <<>> => Front(editor.document) \in Seq(Characters)
    BY <1>1 DEF Front
<1>3. Append(editor.document, key) \in Seq(Characters)
    BY <1>1
<1>4. CASE editor.edit_mode
    BY <1>1, <1>2, <1>3, <1>4 DEF ProcessKey, Editors
<1>5. CASE ~ editor.edit_mode
    BY <1>1, <1>5 DEF ProcessKey, Editors
<1>6. QED
    BY <1>4, <1>5

\* An editor is its parts.
LEMMA EditorParts ==
    ASSUME NEW editor \in Editors
    PROVE  editor = [document |-> editor.document, edit_mode |-> editor.edit_mode,
                     keep_running |-> editor.keep_running]
BY DEF Editors

\* A key processed is the next state of the editor.
LEMMA ReadKeyEditor ==
    ASSUME EditorTypeOK, ReadKey
    PROVE  /\ stdin # <<>> /\ stdin[1] \in Item /\ Head(stdin) = stdin[1]
           /\ Editor' = ProcessKey(Editor, stdin[1].key) /\ Editor' \in Editors
<1>1. stdin # <<>> /\ stdin[1] \in Item /\ Head(stdin) = stdin[1]
    BY DEF EditorTypeOK, ReadKey
<1>2. PICK editor \in {ProcessKey(Editor, Head(stdin).key)} :
          /\ document' = editor.document
          /\ edit_mode' = editor.edit_mode
          /\ keep_running' = editor.keep_running
    BY DEF ReadKey
<1>3. stdin[1].key \in Characters
    BY <1>1 DEF Item
<1>4. editor \in Editors
    BY <1>1, <1>2, <1>3, ProcessKeyType DEF EditorTypeOK
<1>5. Editor' = editor
    BY <1>2, <1>4, EditorParts DEF Editor
<1>6. QED
    BY <1>1, <1>2, <1>4, <1>5

\* An editor in front of which nothing has been typed.
LEMMA NothingTyped ==
    /\ <<>> \in Seq(Keys) /\ <<>> \in Seq(Item) /\ Len(<<>>) = 0
    /\ \A e \in Editors : <<e>> \in Seq(Editors) /\ Len(<<e>>) = 1 /\ <<e>>[1] = e
OBVIOUS

\* Setting raw mode leaves the editor alone, and nothing typed before it.
LEMMA EnableRawModeEffect ==
    ASSUME EditorTypeOK, EnableRawMode
    PROVE  /\ EditorTypeOK'
           /\ typed' = <<>> /\ stdin' = <<>> /\ Editor' = Editor
           /\ meant'[1] = Editor
           /\ doing = "start" /\ doing' = "read" /\ asked' = asked
<1>0. /\ Editor \in Editors /\ buf \in Seq(Item) /\ asked \in BOOLEAN
    BY DEF EditorTypeOK
<1>1. /\ typed' = <<>> /\ stdin' = <<>> /\ meant' = <<Editor>> /\ Editor' = Editor
      /\ doing = "start" /\ doing' = "read" /\ asked' = asked /\ buf' = buf
      /\ raw_mode' = TRUE
    BY DEF EnableRawMode, Proceed, Editor
<1>2. meant' \in Seq(Editors) /\ Len(meant') = 1 /\ meant'[1] = Editor
    BY <1>0, <1>1, NothingTyped
<1>3. typed' \in Seq(Keys) /\ stdin' \in Seq(Item) /\ Len(typed') = 0
    BY <1>1, NothingTyped, Zenon
<1>4. Len(meant') = Len(typed') + 1 /\ doing' \in Modes
    BY <1>1, <1>2, <1>3 DEF Modes
<1>5. EditorTypeOK'
    BY <1>0, <1>1, <1>2, <1>3, <1>4 DEF EditorTypeOK
<1>6. QED
    BY <1>1, <1>2, <1>5

\* Every step of the program, the terminal or the user keeps the types.
LEMMA EditorTypeStep ==
    EditorTypeOK /\ [EditorNext]_editorVars => EditorTypeOK'
<1> SUFFICES ASSUME EditorTypeOK, [EditorNext]_editorVars PROVE EditorTypeOK'
    OBVIOUS
<1>0. /\ Editor \in Editors
      /\ typed \in Seq(Keys) /\ meant \in Seq(Editors) /\ Len(meant) = Len(typed) + 1
      /\ buf \in Seq(Item) /\ stdin \in Seq(Item)
      /\ doing \in Modes
      /\ raw_mode \in BOOLEAN /\ asked \in BOOLEAN
    BY DEF EditorTypeOK
<1>1. CASE UNCHANGED editorVars
    BY <1>0, <1>1 DEF editorVars, history, EditorTypeOK, Editor
<1>2. CASE Report \/ DisableRawMode \/ CallFails \/ AskPosition
  <2>1. /\ Editor' = Editor /\ typed' = typed /\ meant' = meant
        /\ stdin' \in {stdin, <<>>} /\ buf' \in {buf, <<>>}
    BY <1>2 DEF Report, DisableRawMode, CallFails, AskPosition, history, Editor
  <2>2. doing' \in Modes /\ raw_mode' \in BOOLEAN /\ asked' \in BOOLEAN
    BY <1>0, <1>2 DEF Report, DisableRawMode, CallFails, AskPosition, Proceed, Modes, Ends
  <2>3. buf' \in Seq(Item) /\ stdin' \in Seq(Item)
    BY <1>0, <2>1, NothingTyped, Zenon
  <2>4. QED
    BY <1>0, <2>1, <2>2, <2>3 DEF EditorTypeOK
<1>3. CASE ReadKey
  <2>1. Editor' \in Editors
    BY <1>3, ReadKeyEditor
  <2>2. stdin # <<>>
    BY <1>3 DEF ReadKey
  <2>3. stdin' \in Seq(Item)
    BY <1>0, <1>3, <2>2 DEF ReadKey
  <2>4. QED
    BY <1>0, <1>3, <2>1, <2>3 DEF ReadKey, Proceed, history, EditorTypeOK, Modes
<1>4. CASE ReadPosition
  <2>1. stdin # <<>> /\ Head(stdin) \in Item
    BY <1>0, <1>4 DEF ReadPosition
  <2>2. stdin' \in Seq(Item) /\ buf' \in Seq(Item)
    BY <1>0, <1>4, <2>1 DEF ReadPosition
  <2>3. doing' \in Modes
    BY <1>4 DEF ReadPosition, Modes, Ends
  <2>4. QED
    BY <1>0, <1>4, <2>2, <2>3 DEF ReadPosition, history, EditorTypeOK, Editor
<1>5. CASE AnswerRequest
  <2>1. [i \in DOMAIN Answer |-> [key |-> Answer[i], nr |-> 0]] \in Seq(Item)
    BY AnswerFacts DEF Item
  <2>2. stdin' \in Seq(Item)
    BY <1>0, <1>5, <2>1 DEF AnswerRequest
  <2>3. QED
    BY <1>0, <1>5, <2>2 DEF AnswerRequest, history, EditorTypeOK, Editor
<1>6. ASSUME NEW key \in Keys, TypeKey(key) PROVE EditorTypeOK'
  <2>1. typed' = Append(typed, key) /\ typed' \in Seq(Keys) /\ Len(typed') \in Nat
    BY <1>0, <1>6 DEF TypeKey
  <2>2. [key |-> key, nr |-> Len(typed')] \in Item
    BY <2>1 DEF Item, Characters
  <2>3. stdin' \in Seq(Item)
    BY <1>0, <1>6, <2>2 DEF TypeKey
  <2>4. Last(meant) \in Editors
    BY <1>0 DEF Last
  <2>5. ProcessKey(Last(meant), key) \in Editors
    BY <2>4, ProcessKeyType DEF Characters
  <2>6. meant' \in Seq(Editors) /\ Len(meant') = Len(typed') + 1
    BY <1>0, <1>6, <2>1, <2>5 DEF TypeKey
  <2>7. QED
    BY <1>0, <1>6, <2>1, <2>3, <2>6 DEF TypeKey, EditorTypeOK, Editor
<1>7. CASE EnableRawMode
    BY <1>7, EnableRawModeEffect
<1>8. QED
    BY <1>1, <1>2, <1>3, <1>4, <1>5, <1>6, <1>7 DEF EditorNext, EditorStep

\* The items that come, one by one.
LEMMA ExpectedIs ==
    ASSUME NEW n \in Nat, NEW m \in Nat, n <= m, NEW i \in Nat
    PROVE  /\ i <= m - n => Expected(n, m, i) = Typed(n + i)
           /\ i > m - n /\ i <= m - n + 4 =>
                 Expected(n, m, i) = [key |-> Answer[i - (m - n)], nr |-> 0]
           /\ i > m - n + 4 => Expected(n, m, i) = Typed(n + i - 4)
BY AnswerFacts DEF Expected

\* Another key changes none of them, and comes last.
LEMMA ExpectedKept ==
    ASSUME EditorTypeOK, NEW key \in Keys, TypeKey(key)
    PROVE  /\ Len(typed') = Len(typed) + 1
           /\ \A i \in 1 .. Len(typed) : Typed(i)' = Typed(i) /\ meant'[i] = meant[i]
           /\ meant'[Len(typed) + 1] = meant[Len(typed) + 1]
           /\ meant'[Len(typed) + 2] = ProcessKey(meant[Len(typed) + 1], key)
           /\ typed'[Len(typed) + 1] = key
           /\ Len(stdin') = Len(stdin) + 1
           /\ \A i \in 1 .. Len(stdin) : stdin'[i] = stdin[i]
           /\ stdin'[Len(stdin) + 1] = Typed(Len(typed))'
           /\ LooksLikeAnswer => LooksLikeAnswer'
<1>1. /\ typed \in Seq(Keys) /\ stdin \in Seq(Item)
      /\ meant \in Seq(Editors) /\ Len(meant) = Len(typed) + 1
    BY DEF EditorTypeOK
<1>2. typed' = Append(typed, key)
    BY DEF TypeKey
<1>3. /\ Len(typed) \in Nat /\ Len(typed') = Len(typed) + 1
      /\ \A i \in 1 .. Len(typed) : typed'[i] = typed[i]
      /\ typed'[Len(typed) + 1] = key
    BY <1>1, <1>2
<1>4. Last(meant) = meant[Len(typed) + 1] /\ Last(meant) \in Editors
    BY <1>1, <1>3 DEF Last
<1>5. /\ \A i \in 1 .. Len(typed) + 1 : meant'[i] = meant[i]
      /\ meant'[Len(typed) + 2] = ProcessKey(meant[Len(typed) + 1], key)
  <2>1. PICK next \in Editors : next = ProcessKey(Last(meant), key)
    BY <1>4, ProcessKeyType DEF Characters
  <2>2. meant' = Append(meant, next)
    BY <2>1 DEF TypeKey
  <2>3. QED
    BY <1>1, <1>3, <1>4, <2>1, <2>2
<1>6. /\ Len(stdin') = Len(stdin) + 1
      /\ \A i \in 1 .. Len(stdin) : stdin'[i] = stdin[i]
      /\ stdin'[Len(stdin) + 1] = [key |-> key, nr |-> Len(typed) + 1]
  <2>0. [key |-> key, nr |-> Len(typed) + 1] \in Item
    BY <1>3 DEF Item, Characters
  <2>1. PICK item \in Item : item = [key |-> key, nr |-> Len(typed) + 1]
    BY <2>0
  <2>2. stdin' = Append(stdin, item)
    BY <1>3, <2>1 DEF TypeKey
  <2>3. QED
    BY <1>1, <2>1, <2>2
<1>7. ASSUME LooksLikeAnswer PROVE LooksLikeAnswer'
  <2>1. PICK i \in 0 .. Len(typed) - 3 : \A j \in 1 .. 3 : typed[i + j] = Answer[j]
    BY <1>7 DEF LooksLikeAnswer
  <2>2. i \in 0 .. Len(typed') - 3 /\ \A j \in 1 .. 3 : i + j \in 1 .. Len(typed)
    BY <1>3, <2>1
  <2>3. \A j \in 1 .. 3 : typed'[i + j] = Answer[j]
    BY <1>3, <2>1, <2>2
  <2>4. QED
    BY <2>2, <2>3 DEF LooksLikeAnswer
<1>8. ASSUME NEW i \in 1 .. Len(typed) PROVE Typed(i)' = Typed(i)
  <2>1. typed'[i] = typed[i]
    BY <1>3
  <2>2. QED
    BY <2>1 DEF Typed
<1>9. Typed(Len(typed))' = [key |-> key, nr |-> Len(typed) + 1]
    BY <1>3 DEF Typed
<1>10. QED
    BY <1>3, <1>5, <1>6, <1>7, <1>8, <1>9

\* What has been read is what was to come, and no R before its end.
ReadAsExpected(answer, n, m) ==
    /\ \A i \in 1 .. Len(answer) : answer[i] = Expected(n, m, i)
    /\ \A i \in 1 .. Len(answer) - 1 : answer[i].key # "R"

\* What has been read of an answer is accepted only if it is one: keys in front of it would
\* have to look like one.
LEMMA AcceptedIsAnswer ==
    ASSUME EditorTypeOK, NEW n \in Nat, n <= Len(typed), NEW m \in n .. Len(typed),
           ~ LooksLikeAnswer,
           NEW answer \in Seq(Item), ReadAsExpected(answer, n, m), Accepted(answer)
    PROVE  m = n /\ Len(answer) = 4
<1>0. /\ \A i \in 1 .. Len(answer) : answer[i] = Expected(n, m, i)
      /\ \A i \in 1 .. Len(answer) - 1 : answer[i].key # "R"
    BY DEF ReadAsExpected
<1>1. /\ Len(answer) \in Nat /\ Len(answer) > 3 /\ Len(typed) \in Nat /\ m \in Nat
      /\ m <= Len(typed) /\ n <= m
      /\ answer[1].key = "escape" /\ answer[2].key = "[" /\ answer[3].key = "numbers"
    BY AnswerFacts DEF Accepted, EditorTypeOK
<1>2. ASSUME m - n >= 3 PROVE FALSE
  <2>1. ASSUME NEW j \in 1 .. 3 PROVE typed[n + j] = Answer[j]
    <3>1. answer[j] = Expected(n, m, j) /\ answer[j].key = Answer[j]
      BY <1>0, <1>1, <2>1 DEF Accepted
    <3>2. j \in Nat /\ j <= m - n
      BY <1>1, <1>2
    <3>3. Expected(n, m, j) = Typed(n + j)
      BY <1>1, <3>2, ExpectedIs
    <3>4. QED
      BY <3>1, <3>3 DEF Typed
  <2>2. n \in 0 .. Len(typed) - 3
    BY <1>1, <1>2
  <2>3. QED
    BY <2>1, <2>2 DEF LooksLikeAnswer
<1>3. ASSUME m - n = 1 PROVE FALSE
  <2>1. answer[2] = Expected(n, m, 2)
    BY <1>0, <1>1
  <2>2. Expected(n, m, 2) = [key |-> Answer[2 - (m - n)], nr |-> 0]
    <3>1. 2 \in Nat /\ 2 > m - n /\ 2 <= m - n + 4
      BY <1>1, <1>3
    <3>2. QED
      BY <1>1, <3>1, ExpectedIs
  <2>3. QED
    BY <1>1, <1>3, <2>1, <2>2, AnswerFacts
<1>4. ASSUME m - n = 2 PROVE FALSE
  <2>1. answer[3] = Expected(n, m, 3)
    BY <1>0, <1>1
  <2>2. Expected(n, m, 3) = [key |-> Answer[3 - (m - n)], nr |-> 0]
    <3>1. 3 \in Nat /\ 3 > m - n /\ 3 <= m - n + 4
      BY <1>1, <1>4
    <3>2. QED
      BY <1>1, <3>1, ExpectedIs
  <2>3. QED
    BY <1>1, <1>4, <2>1, <2>2, AnswerFacts
<1>5. m = n
    BY <1>1, <1>2, <1>3, <1>4
<1>6. ASSUME Len(answer) > 4 PROVE FALSE
  <2>1. answer[4] = Expected(n, m, 4) /\ answer[4].key # "R"
    BY <1>0, <1>1, <1>6
  <2>2. Expected(n, m, 4) = [key |-> Answer[4 - (m - n)], nr |-> 0]
    <3>1. 4 \in Nat /\ 4 > m - n /\ 4 <= m - n + 4
      BY <1>1, <1>5
    <3>2. QED
      BY <1>1, <3>1, ExpectedIs
  <2>3. QED
    BY <1>1, <1>5, <2>1, <2>2, AnswerFacts
<1>7. Len(answer) = 4
  <2>1. PICK read \in Nat : read = Len(answer)
    BY <1>1
  <2>2. read > 3 /\ ~(read > 4)
    BY <1>1, <1>6, <2>1
  <2>3. QED
    BY <2>1, <2>2
<1>8. QED
    BY <1>5, <1>7

\* What the invariant says while an answer is read, with the keys before it.
Reading(n, m) ==
    /\ asked => m = Len(typed)
    /\ \A i \in DOMAIN buf : buf[i].key # "R"
    /\ Len(buf) + Len(stdin) = Len(typed) - n + (IF asked THEN 0 ELSE 4)
    /\ \A i \in 1 .. Len(buf) : buf[i] = Expected(n, m, i)
    /\ \A i \in 1 .. Len(stdin) : stdin[i] = Expected(n, m, Len(buf) + i)

\* And between answers.
Waiting(n) ==
    /\ ~asked
    /\ Len(stdin) = Len(typed) - n
    /\ \A i \in 1 .. Len(stdin) : stdin[i] = Typed(n + i)

\* What n processed keys mean, by whether an answer is being read.
LEMMA ProcessedParts ==
    ASSUME EditorTypeOK, NEW n \in 0 .. Len(typed)
    PROVE  Processed(n) <=> /\ Editor = meant[n + 1]
                            /\ doing # "position" => Waiting(n)
                            /\ doing = "position" => \E m \in n .. Len(typed) : Reading(n, m)
<1>1. DOMAIN stdin = 1 .. Len(stdin) /\ DOMAIN buf = 1 .. Len(buf)
    BY DEF EditorTypeOK
<1>2. QED
    BY <1>1, AnswerFacts DEF Processed, Waiting, Reading

\* The same after a step.
LEMMA ProcessedPartsNext ==
    ASSUME EditorTypeOK', NEW n \in Nat, n <= Len(typed')
    PROVE  Processed(n)' <=> /\ Editor' = meant'[n + 1]
                             /\ doing' # "position" => Waiting(n)'
                             /\ doing' = "position" =>
                                   \E m \in Nat : n <= m /\ m <= Len(typed') /\ Reading(n, m)'
<1>1. DOMAIN stdin' = 1 .. Len(stdin') /\ DOMAIN buf' = 1 .. Len(buf')
    BY DEF EditorTypeOK
<1>2. Len(typed') \in Nat
    BY DEF EditorTypeOK
<1>3. Processed(n)' <=> /\ Editor' = meant'[n + 1]
                        /\ doing' # "position" => Waiting(n)'
                        /\ doing' = "position" =>
                              \E m \in n .. Len(typed') : Reading(n, m)'
    BY <1>1, <1>2, AnswerFacts DEF Processed, Waiting, Reading
<1>4. n .. Len(typed') = {m \in Nat : n <= m /\ m <= Len(typed')}
    BY <1>2
<1>5. (\E m \in n .. Len(typed') : Reading(n, m)')
          <=> \E m \in Nat : n <= m /\ m <= Len(typed') /\ Reading(n, m)'
    BY <1>4
<1>6. QED
    BY <1>3, <1>5

\* When raw mode is set none of the keys kept is processed, for there are none.
LEMMA EnableRawModeStep ==
    ASSUME EditorTypeOK, EnableRawMode, ~asked
    PROVE  0 \in 0 .. Len(typed') /\ Processed(0)'
<1>1. /\ EditorTypeOK'
      /\ typed' = <<>> /\ stdin' = <<>> /\ Editor' = Editor /\ meant'[1] = Editor
      /\ doing' = "read" /\ asked' = FALSE
    BY EnableRawModeEffect DEF EditorTypeOK
<1>2. Len(typed') = 0 /\ Len(stdin') = 0
    BY <1>1
<1>3. Waiting(0)'
    BY <1>1, <1>2 DEF Waiting
<1>4. 0 \in Nat /\ 0 <= Len(typed') /\ Editor' = meant'[0 + 1]
    BY <1>1, <1>2
<1>5. Processed(0)'
    BY <1>1, <1>3, <1>4, ProcessedPartsNext
<1>6. QED
    BY <1>2, <1>5

\* What the program does in raw mode.
RawModeStep ==
    ReadKey \/ AskPosition \/ ReadPosition \/ Report \/ DisableRawMode \/ CallFails

\* Another step of the program, or of the terminal, keeps the count of keys or processes one.
LEMMA ProgramStep ==
    ASSUME EditorTypeOK, EditorTypeOK', ~ LooksLikeAnswer, doing' \notin Ends,
           \A i \in DOMAIN typed : meant[i + 1] = ProcessKey(meant[i], typed[i]),
           NEW n \in 0 .. Len(typed), Processed(n),
           RawModeStep \/ AnswerRequest
    PROVE  /\ typed' = typed /\ meant' = meant
           /\ \E k \in 0 .. Len(typed) : Processed(k)'
<1>0. /\ Len(typed) \in Nat /\ n \in Nat /\ n <= Len(typed)
      /\ typed \in Seq(Keys) /\ stdin \in Seq(Item) /\ buf \in Seq(Item)
      /\ Len(stdin) \in Nat /\ Len(buf) \in Nat
      /\ meant \in Seq(Editors) /\ Len(meant) = Len(typed) + 1
    BY SMTT(30) DEF EditorTypeOK
<1>1. /\ Editor = meant[n + 1]
      /\ doing # "position" => Waiting(n)
      /\ doing = "position" => \E m \in n .. Len(typed) : Reading(n, m)
    BY ProcessedParts
<1>2. /\ typed' = typed /\ meant' = meant
    BY DEF RawModeStep, ReadKey, AskPosition, ReadPosition, Report, DisableRawMode, CallFails,
           AnswerRequest, history
<1>3. \A i \in Nat : Typed(i)' = Typed(i)
    BY <1>2 DEF Typed
<1>4. \A k \in Nat, m \in Nat, i \in Nat : Expected(k, m, i)' = Expected(k, m, i)
    BY <1>2 DEF Expected, Typed
<1>5. ASSUME NEW k \in 0 .. Len(typed), Editor' = meant[k + 1],
             doing' # "position" => Waiting(k)',
             doing' = "position" =>
                 \E m \in Nat : k <= m /\ m <= Len(typed) /\ Reading(k, m)'
      PROVE  \E j \in 0 .. Len(typed) : Processed(j)'
    BY <1>0, <1>2, <1>5, ProcessedPartsNext
<1>6. CASE Report
  <2>1. /\ doing # "position" /\ doing' # "position" /\ Editor' = Editor
        /\ asked' = asked /\ stdin' = stdin
    BY <1>6 DEF Report, Proceed, Editor, history
  <2>2. Waiting(n)'
    BY <1>0, <1>1, <1>2, <1>3, <2>1 DEF Waiting
  <2>3. QED
    BY <1>1, <1>2, <1>5, <2>1, <2>2
<1>7. CASE ReadKey
  <2>1. /\ doing # "position" /\ doing' # "position" /\ stdin # <<>> /\ asked' = asked
        /\ stdin' = Tail(stdin)
    BY <1>7 DEF ReadKey, Proceed
  <2>2. Waiting(n)
    BY <1>1, <2>1
  <2>3. Len(stdin) > 0 /\ n + 1 \in 1 .. Len(typed) /\ stdin[1] = Typed(n + 1)
    BY <1>0, <2>1, <2>2 DEF Waiting
  <2>4. Editor' = meant[n + 2]
    <3>1. Editor' = ProcessKey(Editor, stdin[1].key)
      BY <1>7, ReadKeyEditor
    <3>2. stdin[1].key = typed[n + 1]
      BY <2>3 DEF Typed
    <3>3. n + 1 \in DOMAIN typed /\ (n + 1) + 1 = n + 2
      BY <1>0, <2>3
    <3>4. QED
      BY <1>1, <3>1, <3>2, <3>3
  <2>5. PICK k \in 0 .. Len(typed) : k = n + 1
    BY <1>0, <2>3
  <2>6. Waiting(k)'
    <3>1. Len(stdin') = Len(stdin) - 1 /\ \A i \in 1 .. Len(stdin) - 1 : stdin'[i] = stdin[i + 1]
      BY <1>0, <2>1
    <3>2. Len(stdin) = Len(typed) - n /\ \A i \in 1 .. Len(stdin) : stdin[i] = Typed(n + i)
      BY <2>2 DEF Waiting
    <3>3. ASSUME NEW i \in 1 .. Len(stdin')
          PROVE  k + i \in Nat /\ stdin'[i] = Typed(k + i)
      <4>1. i + 1 \in 1 .. Len(stdin) /\ i \in 1 .. Len(stdin) - 1
            /\ n + (i + 1) = k + i /\ k + i \in Nat
        BY <1>0, <2>5, <3>1
      <4>2. QED
        BY <3>1, <3>2, <4>1
    <3>4. \A i \in 1 .. Len(stdin') : stdin'[i] = Typed(k + i)'
      BY <1>3, <3>3
    <3>5. ~asked' /\ Len(stdin') = Len(typed') - k
      BY <1>0, <1>2, <2>1, <2>2, <2>5, <3>1, <3>2 DEF Waiting
    <3>6. QED
      BY <3>4, <3>5 DEF Waiting
  <2>7. Editor' = meant[k + 1]
    BY <1>0, <2>4, <2>5
  <2>8. QED
    BY <1>2, <1>5, <2>1, <2>6, <2>7
<1>8. CASE AskPosition
  <2>1. /\ doing # "position" /\ doing' = "position" /\ Editor' = Editor
        /\ asked' = TRUE /\ buf' = <<>> /\ stdin' = stdin
    BY <1>8 DEF AskPosition, Proceed, Editor, history
  <2>2. Waiting(n)
    BY <1>1, <2>1
  <2>3. ASSUME NEW i \in 1 .. Len(stdin)
        PROVE  stdin[i] = Expected(n, Len(typed), 0 + i)
    <3>1. /\ Len(stdin) = Len(typed) - n
          /\ stdin[i] = Typed(n + i)
      BY <2>2 DEF Waiting
    <3>2. i \in Nat /\ i <= Len(typed) - n /\ 0 + i = i
      BY <1>0, <3>1
    <3>3. PICK l \in Nat : l = Len(typed) /\ n \in Nat /\ n <= l
      BY <1>0
    <3>4. i <= l - n
      BY <3>2, <3>3
    <3>5. Expected(n, l, i) = Typed(n + i)
      BY <3>2, <3>3, <3>4, ExpectedIs
    <3>6. QED
      BY <3>1, <3>2, <3>3, <3>5
  <2>4. Len(buf') = 0 /\ DOMAIN buf' = {}
    BY <2>1
  <2>5. Reading(n, Len(typed))'
    <3>1. \A i \in 1 .. Len(stdin') : stdin'[i] = Expected(n, Len(typed), Len(buf') + i)
      BY <2>1, <2>3, <2>4
    <3>2. \A i \in 1 .. Len(stdin') : Len(buf') + i \in Nat
      BY <1>0, <2>4
    <3>3. \A i \in 1 .. Len(stdin') : stdin'[i] = Expected(n, Len(typed), Len(buf) + i)'
      BY <1>0, <1>2, <3>1, <3>2 DEF Expected, Typed
    <3>4. Len(buf') + Len(stdin') = Len(typed') - n
      BY <1>0, <1>2, <2>1, <2>2, <2>4 DEF Waiting
    <3>5. QED
      BY <1>0, <1>2, <2>1, <2>4, <3>3, <3>4 DEF Reading
  <2>6. QED
    BY <1>0, <1>1, <1>2, <1>5, <2>1, <2>5
<1>9. CASE ReadPosition
  <2>1. /\ doing = "position" /\ stdin # <<>> /\ stdin' = Tail(stdin)
        /\ buf' = Append(buf, Head(stdin)) /\ Editor' = Editor /\ asked' = asked
    BY <1>9 DEF ReadPosition, Editor, history
  <2>2. PICK m \in n .. Len(typed) : Reading(n, m)
    BY <1>1, <2>1
  <2>3. /\ Len(stdin) > 0 /\ Head(stdin) = stdin[1] /\ stdin[1] \in Item
        /\ Len(stdin') = Len(stdin) - 1
        /\ \A i \in 1 .. Len(stdin) - 1 : stdin'[i] = stdin[i + 1]
    BY <1>0, <2>1
  <2>4. /\ buf' \in Seq(Item) /\ Len(buf') = Len(buf) + 1
        /\ \A i \in 1 .. Len(buf) : buf'[i] = buf[i]
        /\ buf'[Len(buf) + 1] = stdin[1]
    BY <1>0, <2>1, <2>3
  <2>5. /\ asked => m = Len(typed)
        /\ \A i \in 1 .. Len(buf) : buf[i].key # "R"
        /\ Len(buf) + Len(stdin) = Len(typed) - n + (IF asked THEN 0 ELSE 4)
        /\ \A i \in 1 .. Len(buf) : buf[i] = Expected(n, m, i)
        /\ \A i \in 1 .. Len(stdin) : stdin[i] = Expected(n, m, Len(buf) + i)
    BY <1>0, <2>2 DEF Reading
  <2>6. \A i \in 1 .. Len(buf') : buf'[i] = Expected(n, m, i)
    <3>1. buf'[Len(buf) + 1] = Expected(n, m, Len(buf) + 1)
      BY <1>0, <2>3, <2>4, <2>5
    <3>2. \A i \in 1 .. Len(buf') : i = Len(buf) + 1 \/ i \in 1 .. Len(buf)
      BY <1>0, <2>4, SMTT(30)
    <3>3. QED
      BY <2>4, <2>5, <3>1, <3>2
  <2>7. ASSUME NEW i \in 1 .. Len(stdin')
        PROVE  /\ Len(buf') + i \in Nat
               /\ stdin'[i] = Expected(n, m, Len(buf') + i)
    <3>1. /\ i \in 1 .. Len(stdin) - 1 /\ i + 1 \in 1 .. Len(stdin)
          /\ Len(buf') + i \in Nat /\ Len(buf') + i = Len(buf) + (i + 1)
      BY <1>0, <2>3, <2>4
    <3>2. QED
      BY <2>3, <2>5, <3>1
  <2>8. CASE Head(stdin).key # "R"
    <3>1. doing' = "position"
      BY <1>9, <2>8 DEF ReadPosition, Ends
    <3>2. \A i \in DOMAIN buf' : buf'[i].key # "R"
      <4>1. DOMAIN buf' = 1 .. Len(buf')
        BY <2>4
      <4>2. \A i \in 1 .. Len(buf') : i = Len(buf) + 1 \/ i \in 1 .. Len(buf)
        BY <1>0, <2>4
      <4>3. QED
        BY <2>3, <2>4, <2>5, <2>8, <4>1, <4>2
    <3>3. Len(buf') + Len(stdin') = Len(typed') - n + (IF asked' THEN 0 ELSE 4)
      <4>1. PICK l \in Nat, b \in Nat, s \in Nat :
                l = Len(typed) /\ b = Len(buf) /\ s = Len(stdin)
        BY <1>0
      <4>2. Len(buf') = b + 1 /\ Len(stdin') = s - 1 /\ typed' = typed /\ asked' = asked
        BY <1>2, <2>1, <2>3, <2>4, <4>1
      <4>3. PICK extra \in {0, 4} : extra = IF asked THEN 0 ELSE 4
        OBVIOUS
      <4>4. b + s = l - n + extra
        BY <2>5, <4>1, <4>3
      <4>5. extra = IF asked' THEN 0 ELSE 4
        BY <4>2, <4>3, Zenon
      <4>6. (b + 1) + (s - 1) = l - n + extra
        BY <4>1, <4>4
      <4>7. Len(typed') = l
        BY <4>1, <4>2
      <4>8. QED
        BY <4>2, <4>5, <4>6, <4>7
    <3>4. \A i \in 1 .. Len(buf') : buf'[i] = Expected(n, m, i)'
      <4>1. \A i \in 1 .. Len(buf') : i \in Nat
        OBVIOUS
      <4>2. m \in Nat
        BY <1>0
      <4>3. QED
        BY <1>0, <1>4, <2>6, <4>1, <4>2
    <3>5. \A i \in 1 .. Len(stdin') : stdin'[i] = Expected(n, m, Len(buf) + i)'
      BY <1>2, <2>7 DEF Expected, Typed
    <3>6. Reading(n, m)'
      BY <1>2, <2>1, <2>5, <3>2, <3>3, <3>4, <3>5 DEF Reading
    <3>7. m \in Nat /\ n <= m /\ m <= Len(typed)
      BY <1>0
    <3>8. QED
      BY <1>0, <1>1, <1>2, <1>5, <2>1, <3>1, <3>6, <3>7
  <2>9. CASE Head(stdin).key = "R"
    <3>1. doing' = "report" /\ Accepted(buf')
      BY <1>9, <2>9 DEF ReadPosition, Ends
    <3>2. ASSUME NEW i \in 1 .. Len(buf') - 1 PROVE buf'[i].key # "R"
      <4>1. i \in 1 .. Len(buf)
        BY <1>0, <2>4
      <4>2. QED
        BY <2>4, <2>5, <4>1
    <3>3. PICK answer \in Seq(Item) : answer = buf'
      BY <2>4
    <3>4. m = n /\ Len(buf') = 4
      <4>1. ReadAsExpected(answer, n, m)
        BY <2>6, <3>2, <3>3 DEF ReadAsExpected
      <4>2. Accepted(answer)
        BY <3>1, <3>3
      <4>3. n \in Nat /\ n <= Len(typed)
        BY <1>0
      <4>4. m = n /\ Len(answer) = 4
        BY <4>1, <4>2, <4>3, AcceptedIsAnswer
      <4>5. QED
        BY <3>3, <4>4
    <3>5. ~ asked
      BY <1>0, <2>3, <2>4, <2>5, <3>4
    <3>6. ASSUME NEW i \in 1 .. Len(stdin') PROVE stdin'[i] = Typed(n + i) /\ n + i \in Nat
      <4>1. 4 + i \in Nat /\ 4 + i > m - n + 4 /\ n + (4 + i) - 4 = n + i /\ n + i \in Nat
        BY <1>0, <2>3, <3>4
      <4>2. Expected(n, m, 4 + i) = Typed(n + i)
        BY <1>0, <3>4, <4>1, ExpectedIs
      <4>3. QED
        BY <2>7, <3>4, <4>1, <4>2
    <3>7. \A i \in 1 .. Len(stdin') : stdin'[i] = Typed(n + i)'
      BY <1>3, <3>6
    <3>8. ~ asked' /\ Len(stdin') = Len(typed') - n
      BY <1>0, <1>2, <2>1, <2>3, <2>4, <2>5, <3>4, <3>5
    <3>9. Waiting(n)'
      BY <3>7, <3>8 DEF Waiting
    <3>10. QED
      BY <1>1, <1>2, <1>5, <2>1, <3>1, <3>9
  <2>10. QED
    BY <2>8, <2>9
<1>10. CASE AnswerRequest
  <2> DEFINE items == [i \in DOMAIN Answer |-> [key |-> Answer[i], nr |-> 0]]
  <2>1. /\ asked /\ asked' = FALSE /\ stdin' = stdin \o items
        /\ doing' = doing /\ buf' = buf /\ Editor' = Editor
    BY <1>10 DEF AnswerRequest, Editor, history
  <2>2. doing = "position"
    BY <1>1, <2>1 DEF Waiting
  <2>3. PICK m \in n .. Len(typed) : Reading(n, m)
    BY <1>1, <2>2
  <2>4. /\ m = Len(typed) /\ Len(buf) + Len(stdin) = m - n /\ m \in Nat
        /\ \A i \in DOMAIN buf : buf[i].key # "R"
        /\ \A i \in 1 .. Len(buf) : buf[i] = Expected(n, m, i)
        /\ \A i \in 1 .. Len(stdin) : stdin[i] = Expected(n, m, Len(buf) + i)
    <3>1. m = Len(typed) /\ Len(buf) + Len(stdin) = Len(typed) - n + 0
      BY <2>1, <2>3 DEF Reading
    <3>2. Len(buf) + Len(stdin) = m - n /\ m \in Nat
      <4>1. PICK b \in Nat, s \in Nat, l \in Nat :
                b = Len(buf) /\ s = Len(stdin) /\ l = Len(typed)
        BY <1>0
      <4>2. m = l /\ b + s = l - n + 0 /\ n \in Nat
        BY <1>0, <3>1, <4>1
      <4>3. b + s = m - n /\ m \in Nat
        BY <4>1, <4>2
      <4>4. QED
        BY <4>1, <4>3
    <3>3. QED
      BY <2>3, <3>1, <3>2 DEF Reading
  <2>5. /\ items \in Seq(Item) /\ Len(items) = 4
        /\ \A i \in 1 .. 4 : items[i] = [key |-> Answer[i], nr |-> 0]
    BY AnswerFacts DEF Item
  <2> HIDE DEF items
  <2>6. /\ Len(stdin') = Len(stdin) + 4
        /\ \A i \in 1 .. Len(stdin) : stdin'[i] = stdin[i]
        /\ \A i \in Len(stdin) + 1 .. Len(stdin) + 4 : stdin'[i] = items[i - Len(stdin)]
    <3>0. PICK answered \in Seq(Item) : answered = items
      BY <2>5
    <3>1. stdin \in Seq(Item)
      BY <1>0
    <3>2. /\ Len(stdin \o answered) = Len(stdin) + Len(answered)
          /\ \A i \in 1 .. Len(stdin) + Len(answered) :
              (stdin \o answered)[i] = IF i <= Len(stdin) THEN stdin[i]
                                       ELSE answered[i - Len(stdin)]
      BY <3>1, ConcatProperties
    <3>3. /\ \A i \in 1 .. Len(stdin) : i \in 1 .. Len(stdin) + 4 /\ i <= Len(stdin)
          /\ \A i \in Len(stdin) + 1 .. Len(stdin) + 4 :
                 i \in 1 .. Len(stdin) + 4 /\ ~(i <= Len(stdin))
      BY <1>0, SMTT(30)
    <3>4. QED
      BY <2>1, <2>5, <3>0, <3>2, <3>3
  <2>7. ASSUME NEW i \in 1 .. Len(stdin')
        PROVE  Len(buf) + i \in Nat /\ stdin'[i] = Expected(n, m, Len(buf) + i)
    <3>1. Len(buf) + i \in Nat
      BY <1>0, <2>6
    <3>2. CASE i <= Len(stdin)
      <4>1. i \in 1 .. Len(stdin)
        BY <1>0, <2>6, <3>2
      <4>2. QED
        BY <2>4, <2>6, <3>1, <4>1
    <3>3. CASE i > Len(stdin)
      <4>0. PICK b \in Nat, s \in Nat : b = Len(buf) /\ s = Len(stdin)
        BY <1>0
      <4>1. /\ i \in Len(stdin) + 1 .. Len(stdin) + 4 /\ i - Len(stdin) \in 1 .. 4
            /\ Len(buf) + i > m - n /\ Len(buf) + i <= m - n + 4
            /\ (Len(buf) + i) - (m - n) = i - Len(stdin)
        <5>1. i \in 1 .. s + 4 /\ i > s /\ b + s = m - n /\ m \in Nat /\ n \in Nat
          BY <1>0, <2>4, <2>6, <3>3, <4>0
        <5>2. /\ i \in s + 1 .. s + 4 /\ i - s \in 1 .. 4
              /\ b + i > m - n /\ b + i <= m - n + 4 /\ (b + i) - (m - n) = i - s
          BY <5>1
        <5>3. QED
          BY <4>0, <5>2
      <4>2. Expected(n, m, Len(buf) + i) = [key |-> Answer[i - Len(stdin)], nr |-> 0]
        <5>1. m \in Nat /\ n \in Nat /\ n <= m
          BY <1>0, <2>4
        <5>2. PICK k \in Nat : k = Len(buf) + i
          BY <3>1
        <5>3. k > m - n /\ k <= m - n + 4
          BY <4>1, <5>2
        <5>4. Expected(n, m, k) = [key |-> Answer[k - (m - n)], nr |-> 0]
          BY <5>1, <5>3, ExpectedIs
        <5>5. k - (m - n) = i - Len(stdin)
          BY <4>1, <5>2
        <5>6. QED
          BY <5>2, <5>4, <5>5
      <4>3. QED
        BY <2>5, <2>6, <3>1, <4>1, <4>2
    <3>4. QED
      BY <1>0, <2>6, <3>2, <3>3
  <2>8. \A i \in 1 .. Len(stdin') : stdin'[i] = Expected(n, m, Len(buf) + i)'
    BY <1>2, <2>1, <2>7 DEF Expected, Typed
  <2>9. \A i \in 1 .. Len(buf') : buf'[i] = Expected(n, m, i)'
    BY <1>2, <2>1, <2>4 DEF Expected, Typed
  <2>10. Len(buf') + Len(stdin') = Len(typed') - n + 4
    <3>1. PICK b \in Nat, s \in Nat : b = Len(buf) /\ s = Len(stdin)
      BY <1>0
    <3>2. Len(buf') = b /\ Len(stdin') = s + 4 /\ Len(typed') = m /\ b + s = m - n
      BY <1>2, <2>1, <2>4, <2>6, <3>1
    <3>3. n \in Nat /\ m \in Nat
      BY <1>0, <2>4
    <3>4. b + (s + 4) = m - n + 4
      BY <3>1, <3>2, <3>3
    <3>5. QED
      BY <3>2, <3>4
  <2>11. Reading(n, m)'
    BY <2>1, <2>4, <2>8, <2>9, <2>10 DEF Reading
  <2>12. n <= m /\ m <= Len(typed)
    BY <1>0, <2>4
  <2>13. QED
    BY <1>1, <1>2, <1>5, <2>1, <2>2, <2>4, <2>11, <2>12
<1>11. CASE DisableRawMode \/ CallFails
    BY <1>11 DEF DisableRawMode, CallFails, Proceed, Ends
<1>12. QED
    BY <1>2, <1>6, <1>7, <1>8, <1>9, <1>10, <1>11 DEF RawModeStep

\* The items that come stay the same ones when a key is typed: it comes behind them, and an
\* answer that is still to come, behind it.
LEMMA ItemsStay ==
    ASSUME EditorTypeOK, NEW key \in Keys, TypeKey(key),
           NEW n \in Nat, NEW m \in Nat, NEW l \in Nat, l = Len(typed), n <= m, m <= l,
           NEW answered \in {0, 4}, NEW next \in Nat,
           answered = 0 => m = l /\ next = l + 1,
           answered = 4 => next = m,
           NEW i \in 1 .. l - n + answered
    PROVE  Expected(n, next, i)' = Expected(n, m, i)
<1>1. /\ i <= next - n => Expected(n, next, i)' = Typed(n + i)'
      /\ i > next - n /\ i <= next - n + 4 =>
            Expected(n, next, i)' = [key |-> Answer[i - (next - n)], nr |-> 0]
      /\ i > next - n + 4 => Expected(n, next, i)' = Typed(n + i - 4)'
    BY AnswerFacts, SMTT(30) DEF Expected, Answer
<1>2. \A k \in 1 .. l : Typed(k)' = Typed(k)
    BY ExpectedKept
<1>3. CASE answered = 0
  <2>1. i \in Nat /\ i <= next - n /\ i <= m - n /\ n + i \in 1 .. l
    BY <1>3
  <2>2. Expected(n, next, i)' = Typed(n + i)' /\ Expected(n, m, i) = Typed(n + i)
    BY <1>1, <2>1, ExpectedIs
  <2>3. QED
    BY <1>2, <2>1, <2>2
<1>4. CASE answered = 4
  <2>0. i \in Nat /\ next = m
    BY <1>4
  <2>1. CASE i <= m - n
    <3>1. n + i \in 1 .. l
      BY <2>0, <2>1
    <3>2. Expected(n, next, i)' = Typed(n + i)'
      BY <1>1, <2>0, <2>1
    <3>3. Expected(n, m, i) = Typed(n + i)
      BY <2>0, <2>1, ExpectedIs
    <3>4. QED
      BY <1>2, <3>1, <3>2, <3>3
  <2>2. CASE i > m - n /\ i <= m - n + 4
    <3>1. Expected(n, next, i)' = [key |-> Answer[i - (next - n)], nr |-> 0]
      BY <1>1, <2>0, <2>2
    <3>2. Expected(n, m, i) = [key |-> Answer[i - (m - n)], nr |-> 0]
      BY <2>0, <2>2, ExpectedIs
    <3>3. QED
      BY <2>0, <3>1, <3>2
  <2>3. CASE i > m - n + 4
    <3>1. n + i - 4 \in 1 .. l
      BY <1>4, <2>0, <2>3
    <3>2. Expected(n, next, i)' = Typed(n + i - 4)'
      BY <1>1, <2>0, <2>3
    <3>3. Expected(n, m, i) = Typed(n + i - 4)
      BY <2>0, <2>3, ExpectedIs
    <3>4. QED
      BY <1>2, <3>1, <3>2, <3>3
  <2>4. QED
    BY <2>0, <2>1, <2>2, <2>3
<1>5. QED
    BY <1>3, <1>4

\* A key that is typed is one more to come.
LEMMA TypeKeyStep ==
    ASSUME EditorTypeOK, EditorTypeOK', NEW key \in Keys, TypeKey(key),
           NEW n \in 0 .. Len(typed), Processed(n)
    PROVE  n \in 0 .. Len(typed') /\ Processed(n)'
<1>0. PICK l \in Nat, s \in Nat, b \in Nat : l = Len(typed) /\ s = Len(stdin) /\ b = Len(buf)
    BY SMTT(30) DEF EditorTypeOK
<1>1. /\ n \in Nat /\ n <= l
      /\ Len(typed') = l + 1 /\ Len(stdin') = s + 1
      /\ \A i \in 1 .. l : Typed(i)' = Typed(i) /\ meant'[i] = meant[i]
      /\ meant'[l + 1] = meant[l + 1]
      /\ \A i \in 1 .. s : stdin'[i] = stdin[i]
    BY <1>0, ExpectedKept
<1>2. stdin'[s + 1] = Typed(l + 1)'
    BY <1>0, <1>1, ExpectedKept DEF Typed
<1>3. /\ Editor = meant[n + 1]
      /\ doing # "position" => Waiting(n)
      /\ doing = "position" => \E m \in n .. Len(typed) : Reading(n, m)
    BY ProcessedParts
<1>4. /\ Editor' = Editor /\ doing' = doing /\ asked' = asked /\ buf' = buf
    BY DEF TypeKey, Editor
<1>5. n <= Len(typed') /\ n \in 0 .. Len(typed')
    BY <1>1
<1>6. Editor' = meant'[n + 1]
  <2>1. n + 1 \in 1 .. l \/ n = l
    BY <1>1
  <2>2. QED
    BY <1>1, <1>3, <1>4, <2>1
<1>7. ASSUME doing # "position" PROVE Waiting(n)'
  <2>1. /\ ~asked /\ s = l - n
        /\ \A i \in 1 .. s : stdin[i] = Typed(n + i)
    BY <1>0, <1>3, <1>7 DEF Waiting
  <2>2. ASSUME NEW i \in 1 .. s + 1 PROVE stdin'[i] = Typed(n + i)'
    <3>1. CASE i \in 1 .. s
      <4>1. PICK k \in 1 .. l : k = n + i
        BY <1>1, <2>1, <3>1
      <4>2. stdin'[i] = Typed(k)
        BY <1>1, <2>1, <3>1, <4>1
      <4>3. Typed(k)' = Typed(k)
        BY <1>1
      <4>4. QED
        BY <4>1, <4>2, <4>3
    <3>2. CASE i = s + 1
      <4>1. n + i = l + 1
        BY <1>1, <2>1, <3>2
      <4>2. QED
        BY <1>2, <3>2, <4>1
    <3>3. QED
      BY <3>1, <3>2
  <2>3. Len(stdin') = Len(typed') - n
    BY <1>1, <2>1
  <2>4. \A i \in 1 .. Len(stdin') : stdin'[i] = Typed(n + i)'
    BY <1>1, <2>2
  <2>5. QED
    BY <1>4, <2>1, <2>3, <2>4 DEF Waiting
<1>8. ASSUME doing = "position"
      PROVE  \E m \in Nat : n <= m /\ m <= Len(typed') /\ Reading(n, m)'
  <2>1. PICK m \in n .. Len(typed) : Reading(n, m)
    BY <1>3, <1>8
  <2>2. PICK answered \in {0, 4} : answered = IF asked THEN 0 ELSE 4
    OBVIOUS
  <2>3. /\ asked => m = l
        /\ \A i \in DOMAIN buf : buf[i].key # "R"
        /\ b + s = l - n + answered
        /\ \A i \in 1 .. b : buf[i] = Expected(n, m, i)
        /\ \A i \in 1 .. s : stdin[i] = Expected(n, m, b + i)
    BY <1>0, <2>1, <2>2 DEF Reading
  <2>4. m \in Nat /\ n <= m /\ m <= l
    BY <1>0, <1>1
  <2>5. PICK next \in Nat : next = IF asked THEN l + 1 ELSE m
    BY <2>4
  <2>6. /\ n <= next /\ next <= l + 1
        /\ answered = 0 => m = l /\ next = l + 1
        /\ answered = 4 => next = m
        /\ asked => next = l + 1
    BY <1>1, <2>2, <2>3, <2>4, <2>5
  <2>7. /\ \A i \in 1 .. l - n + answered : Expected(n, next, i)' = Expected(n, m, i)
        /\ Expected(n, next, l - n + answered + 1)' = Typed(l + 1)'
    <3>1. /\ n \in Nat /\ m \in Nat /\ l \in Nat /\ l = Len(typed)
          /\ n <= m /\ m <= l /\ next \in Nat /\ answered \in {0, 4}
      BY <1>0, <1>1, <2>4
    <3>2. (answered = 0 => m = l /\ next = l + 1) /\ (answered = 4 => next = m)
      BY <2>6
    <3>3. ASSUME NEW i \in 1 .. l - n + answered
          PROVE  Expected(n, next, i)' = Expected(n, m, i)
      BY <3>1, <3>2, ItemsStay
    <3>4. PICK last \in Nat : last = l - n + answered + 1
      <4>1. l - n \in Nat /\ (answered = 0 \/ answered = 4)
        BY <3>1
      <4>2. l - n + answered + 1 \in Nat
        BY <4>1
      <4>3. QED
        BY <4>2
    <3>5. PICK newest \in Nat : newest = l + 1
      BY <3>1
    <3>6. Expected(n, next, last)' = Typed(newest)'
      <4>1. /\ last <= next - n => Expected(n, next, last)' = Typed(n + last)'
            /\ last > next - n + 4 => Expected(n, next, last)' = Typed(n + last - 4)'
        <5>1. n \in Nat /\ next \in Nat /\ last \in Nat
          BY <3>1
        <5>2. QED
          BY <5>1, AnswerFacts, SMTT(30) DEF Expected
      <4>2. CASE answered = 0
        <5>1. last <= next - n /\ n + last = newest
          BY <3>1, <3>2, <3>4, <3>5, <4>2
        <5>2. QED
          BY <4>1, <5>1
      <4>3. CASE answered = 4
        <5>1. last > next - n + 4 /\ n + last - 4 = newest
          BY <3>1, <3>2, <3>4, <3>5, <4>3
        <5>2. QED
          BY <4>1, <5>1
      <4>4. QED
        BY <4>2, <4>3
    <3>7. QED
      BY <3>3, <3>4, <3>5, <3>6
  <2>8. ASSUME NEW i \in 1 .. b PROVE buf'[i] = Expected(n, next, i)'
    <3>1. i \in 1 .. l - n + answered
      BY <2>3
    <3>2. QED
      BY <1>4, <2>3, <2>7, <3>1
  <2>9. ASSUME NEW i \in 1 .. s + 1
        PROVE  \E k \in Nat : k = b + i /\ stdin'[i] = Expected(n, next, k)'
    <3>1. CASE i \in 1 .. s
      <4>1. PICK k \in 1 .. l - n + answered : k = b + i
        BY <2>3, <3>1
      <4>2. stdin'[i] = Expected(n, m, k)
        BY <1>1, <2>3, <3>1, <4>1
      <4>3. Expected(n, next, k)' = Expected(n, m, k)
        BY <2>7
      <4>4. QED
        BY <4>1, <4>2, <4>3
    <3>2. CASE i = s + 1
      <4>1. PICK k \in Nat : k = b + i
        OBVIOUS
      <4>2. k = l - n + answered + 1
        BY <2>3, <3>2, <4>1
      <4>3. QED
        BY <1>2, <2>7, <3>2, <4>1, <4>2
    <3>3. QED
      BY <3>1, <3>2
  <2>10. \A i \in 1 .. Len(stdin') : stdin'[i] = Expected(n, next, Len(buf) + i)'
    <3>1. ASSUME NEW i \in 1 .. s + 1
          PROVE  stdin'[i] = Expected(n, next, Len(buf) + i)'
      <4>1. PICK k \in Nat : k = b + i /\ stdin'[i] = Expected(n, next, k)'
        BY <2>9
      <4>2. k = Len(buf') + i
        BY <1>0, <1>4, <4>1
      <4>3. QED
        BY <4>1, <4>2
    <3>2. QED
      BY <1>1, <3>1
  <2>11. \A i \in 1 .. Len(buf') : buf'[i] = Expected(n, next, i)'
    BY <1>0, <1>4, <2>8
  <2>12. Len(buf') + Len(stdin') = Len(typed') - n + (IF asked' THEN 0 ELSE 4)
    <3>1. b + (s + 1) = (l + 1) - n + answered
      BY <1>1, <2>3
    <3>2. Len(buf') = b /\ asked' = asked
      BY <1>0, <1>4
    <3>3. QED
      BY <1>1, <2>2, <3>1, <3>2
  <2>13. Reading(n, next)'
    BY <1>1, <1>4, <2>3, <2>6, <2>10, <2>11, <2>12 DEF Reading
  <2>14. QED
    BY <1>1, <2>6, <2>13
<1>9. QED
    BY <1>1, <1>4, <1>5, <1>6, <1>7, <1>8, ProcessedPartsNext

\* The keys that the items carry are those after the n processed ones.
LEMMA UnreadIs ==
    ASSUME EditorTypeOK, NEW n \in 0 .. Len(typed), Processed(n)
    PROVE  Unread = n + 1 .. Len(typed)
<1>0. PICK l \in Nat, s \in Nat, b \in Nat : l = Len(typed) /\ s = Len(stdin) /\ b = Len(buf)
    BY DEF EditorTypeOK
<1>1. /\ n \in Nat /\ n <= l
      /\ DOMAIN stdin = 1 .. s /\ DOMAIN buf = 1 .. b
    BY <1>0 DEF EditorTypeOK
<1>2. /\ doing # "position" => Waiting(n)
      /\ doing = "position" => \E m \in n .. Len(typed) : Reading(n, m)
    BY ProcessedParts
<1>3. CASE doing # "position"
  <2>1. s = l - n /\ \A i \in 1 .. s : stdin[i] = Typed(n + i)
    BY <1>0, <1>2, <1>3 DEF Waiting
  <2>2. Unread = {stdin[i].nr : i \in 1 .. s} \ {0}
    BY <1>1, <1>3 DEF Unread, Range
  <2>3. ASSUME NEW i \in 1 .. s PROVE stdin[i].nr = n + i
    <3>1. stdin[i] = Typed(n + i)
      BY <2>1
    <3>2. Typed(n + i).nr = n + i
      BY DEF Typed
    <3>3. QED
      BY <3>1, <3>2
  <2>4. Unread = {n + i : i \in 1 .. s} \ {0}
    BY <2>2, <2>3
  <2>5. {n + i : i \in 1 .. s} \ {0} = n + 1 .. l
    <3>1. ASSUME NEW k \in n + 1 .. l PROVE k \in {n + i : i \in 1 .. s} \ {0}
      <4>1. PICK i \in 1 .. s : i = k - n
        BY <1>1, <2>1
      <4>2. k = n + i /\ k # 0
        BY <1>1, <4>1
      <4>3. QED
        BY <4>2
    <3>2. ASSUME NEW i \in 1 .. s PROVE n + i \in n + 1 .. l
      BY <1>1, <2>1
    <3>3. QED
      BY <3>1, <3>2
  <2>6. QED
    BY <1>0, <2>4, <2>5
<1>4. CASE doing = "position"
  <2>1. PICK m \in n .. Len(typed) : Reading(n, m)
    BY <1>2, <1>4
  <2>2. PICK answered \in {0, 4} : answered = IF asked THEN 0 ELSE 4
    OBVIOUS
  <2>3. /\ answered = 0 => m = l
        /\ b + s = l - n + answered
        /\ \A i \in 1 .. b : buf[i] = Expected(n, m, i)
        /\ \A i \in 1 .. s : stdin[i] = Expected(n, m, b + i)
    <3>1. /\ asked => m = Len(typed)
          /\ Len(buf) + Len(stdin) = Len(typed) - n + (IF asked THEN 0 ELSE 4)
          /\ \A i \in 1 .. Len(buf) : buf[i] = Expected(n, m, i)
          /\ \A i \in 1 .. Len(stdin) : stdin[i] = Expected(n, m, Len(buf) + i)
      BY <2>1 DEF Reading
    <3>2. answered = 0 => m = l
      BY <1>0, <2>2, <3>1
    <3>3. b + s = l - n + answered
      BY <1>0, <2>2, <3>1
    <3>4. \A i \in 1 .. b : buf[i] = Expected(n, m, i)
      BY <1>0, <3>1
    <3>5. \A i \in 1 .. s : stdin[i] = Expected(n, m, b + i)
      BY <1>0, <3>1
    <3>6. QED
      BY <3>2, <3>3, <3>4, <3>5
  <2>4. m \in Nat /\ n <= m /\ m <= l /\ (answered = 0 \/ answered = 4)
    BY <1>0, <1>1
  <2>5. Unread = ({stdin[i].nr : i \in 1 .. s} \cup {buf[i].nr : i \in 1 .. b}) \ {0}
    BY <1>1, <1>4 DEF Unread, Range
  <2>6. \A k \in 1 .. b + s : Expected(n, m, k).nr \in
            ({stdin[i].nr : i \in 1 .. s} \cup {buf[i].nr : i \in 1 .. b})
    <3>1. ASSUME NEW k \in 1 .. b + s, k <= b
          PROVE  Expected(n, m, k).nr \in {buf[i].nr : i \in 1 .. b}
      <4>1. k \in 1 .. b
        BY <3>1
      <4>2. QED
        BY <2>3, <4>1
    <3>2. ASSUME NEW k \in 1 .. b + s, k > b
          PROVE  Expected(n, m, k).nr \in {stdin[i].nr : i \in 1 .. s}
      <4>1. PICK i \in 1 .. s : i = k - b
        BY <3>2
      <4>2. b + i = k
        BY <4>1
      <4>3. stdin[i] = Expected(n, m, k)
        BY <2>3, <4>2
      <4>4. QED
        BY <4>3
    <3>3. \A k \in 1 .. b + s : k <= b \/ k > b
      OBVIOUS
    <3>4. QED
      BY <3>1, <3>2, <3>3
  <2>7. ASSUME NEW k \in n + 1 .. l PROVE k \in Unread
    <3>1. CASE k <= m
      <4>1. PICK i \in 1 .. b + s : i = k - n
        BY <1>1, <2>3, <2>4
      <4>2. i \in Nat /\ i <= m - n /\ n + i = k /\ k # 0
        BY <1>1, <2>4, <3>1, <4>1
      <4>3. Expected(n, m, i) = Typed(k)
        <5>1. Expected(n, m, i) = Typed(n + i)
          BY <1>1, <2>4, <4>2, ExpectedIs
        <5>2. QED
          BY <4>2, <5>1
      <4>4. Expected(n, m, i).nr = k
        BY <4>3 DEF Typed
      <4>5. QED
        BY <2>5, <2>6, <4>2, <4>4
    <3>2. CASE k > m
      <4>1. answered = 4
        BY <2>3, <2>4, <3>2
      <4>2. PICK i \in 1 .. b + s : i = k - n + 4
        BY <1>1, <2>3, <2>4, <4>1
      <4>3. i \in Nat /\ i > m - n + 4 /\ n + i - 4 = k /\ k # 0
        BY <1>1, <2>4, <3>2, <4>2
      <4>4. Expected(n, m, i) = Typed(k)
        <5>1. Expected(n, m, i) = Typed(n + i - 4)
          BY <1>1, <2>4, <4>3, ExpectedIs
        <5>2. QED
          BY <4>3, <5>1
      <4>5. Expected(n, m, i).nr = k
        BY <4>4 DEF Typed
      <4>6. QED
        BY <2>5, <2>6, <4>3, <4>5
    <3>3. QED
      BY <1>1, <2>4, <3>1, <3>2
  <2>8. ASSUME NEW k \in 1 .. b + s PROVE Expected(n, m, k).nr \in {0} \cup (n + 1 .. l)
    <3>0. k \in Nat /\ k >= 1 /\ k <= l - n + answered
      BY <2>3
    <3>1. CASE k <= m - n
      <4>1. Expected(n, m, k) = Typed(n + k)
        BY <1>1, <2>4, <3>0, <3>1, ExpectedIs
      <4>2. n + k \in n + 1 .. l
        BY <1>1, <2>4, <3>0, <3>1
      <4>3. QED
        BY <4>1, <4>2 DEF Typed
    <3>2. CASE k > m - n /\ k <= m - n + 4
      <4>1. Expected(n, m, k) = [key |-> Answer[k - (m - n)], nr |-> 0]
        BY <1>1, <2>4, <3>0, <3>2, ExpectedIs
      <4>2. QED
        BY <4>1
    <3>3. CASE k > m - n + 4
      <4>1. Expected(n, m, k) = Typed(n + k - 4)
        BY <1>1, <2>4, <3>0, <3>3, ExpectedIs
      <4>2. n + k - 4 \in n + 1 .. l
        BY <1>1, <2>3, <2>4, <3>0, <3>3, SMTT(30)
      <4>3. QED
        BY <4>1, <4>2 DEF Typed
    <3>4. QED
      BY <1>1, <2>4, <3>0, <3>1, <3>2, <3>3
  <2>9. ASSUME NEW i \in 1 .. b PROVE buf[i].nr \in {0} \cup (n + 1 .. l)
    <3>1. i \in 1 .. b + s
      OBVIOUS
    <3>2. QED
      BY <2>3, <2>8, <3>1
  <2>10. ASSUME NEW i \in 1 .. s PROVE stdin[i].nr \in {0} \cup (n + 1 .. l)
    <3>1. b + i \in 1 .. b + s
      OBVIOUS
    <3>2. QED
      BY <2>3, <2>8, <3>1
  <2>11. ASSUME NEW k \in Unread PROVE k \in n + 1 .. l
    <3>1. k \in {stdin[i].nr : i \in 1 .. s} \cup {buf[i].nr : i \in 1 .. b} /\ k # 0
      BY <2>5
    <3>2. k \in {0} \cup (n + 1 .. l)
      BY <2>9, <2>10, <3>1
    <3>3. QED
      BY <3>1, <3>2
  <2>12. Unread = n + 1 .. l
    BY <2>7, <2>11
  <2>13. QED
    BY <1>0, <2>12
<1>5. QED
    BY <1>3, <1>4

\* What the keys make of an editor is added to and never changed.
LEMMA MeantStep ==
    ASSUME EditorTypeOK, [EditorNext]_editorVars,
           \A i \in DOMAIN typed : meant[i + 1] = ProcessKey(meant[i], typed[i])
    PROVE  \A i \in DOMAIN typed' : meant'[i + 1] = ProcessKey(meant'[i], typed'[i])
<1>1. CASE typed' = typed /\ meant' = meant
    BY <1>1
<1>2. ASSUME NEW key \in Keys, TypeKey(key)
      PROVE  \A i \in DOMAIN typed' : meant'[i + 1] = ProcessKey(meant'[i], typed'[i])
  <2>1. PICK l \in Nat : l = Len(typed)
    BY DEF EditorTypeOK
  <2>2. /\ typed \in Seq(Keys) /\ typed' = Append(typed, key)
    BY <1>2 DEF EditorTypeOK, TypeKey
  <2>3. /\ DOMAIN typed = 1 .. l /\ DOMAIN typed' = 1 .. l + 1
        /\ \A i \in 1 .. l : typed'[i] = typed[i]
        /\ typed'[l + 1] = key
    BY <2>1, <2>2
  <2>4. /\ \A i \in 1 .. l : meant'[i] = meant[i]
        /\ meant'[l + 1] = meant[l + 1]
        /\ meant'[l + 2] = ProcessKey(meant[l + 1], key)
    BY <1>2, <2>1, ExpectedKept
  <2>5. ASSUME NEW i \in 1 .. l PROVE meant'[i + 1] = ProcessKey(meant'[i], typed'[i])
    <3>1. meant'[i + 1] = meant[i + 1]
      <4>1. i + 1 \in 1 .. l \/ i = l
        BY <2>1
      <4>2. QED
        BY <2>4, <4>1
    <3>2. QED
      BY <2>3, <2>4, <3>1
  <2>6. (l + 1) + 1 = l + 2 /\ \A i \in 1 .. l + 1 : i \in 1 .. l \/ i = l + 1
    BY <2>1
  <2>7. meant'[(l + 1) + 1] = ProcessKey(meant'[l + 1], typed'[l + 1])
    BY <2>3, <2>4, <2>6
  <2>8. QED
    BY <2>3, <2>5, <2>6, <2>7
<1>3. QED
  <2>1. CASE UNCHANGED editorVars
    BY <1>1, <2>1 DEF editorVars, history
  <2>2. CASE RawModeStep \/ AnswerRequest
    <3>1. UNCHANGED history
      BY <2>2 DEF RawModeStep, ReadKey, AskPosition, ReadPosition, Report, DisableRawMode,
                  CallFails, AnswerRequest
    <3>2. QED
      BY <1>1, <3>1 DEF history
  <2>3. CASE EnableRawMode
    <3>1. typed' = <<>>
      BY <2>3, EnableRawModeEffect
    <3>2. QED
      BY <3>1
  <2>4. QED
    BY <1>2, <2>1, <2>2, <2>3 DEF EditorNext, EditorStep, RawModeStep

\* The program does not go on once it has ended, and in raw mode the user takes nothing back.
LEMMA NeverAgain ==
    ASSUME EditorTypeOK, [EditorNext]_editorVars, ~EnableRawMode
    PROVE  /\ doing' \notin Ends => doing \notin Ends
           /\ LooksLikeAnswer => LooksLikeAnswer'
<1>1. CASE UNCHANGED editorVars
    BY <1>1 DEF editorVars, history, LooksLikeAnswer
<1>2. CASE RawModeStep \/ AnswerRequest
  <2>1. UNCHANGED typed
    BY <1>2 DEF RawModeStep, ReadKey, AskPosition, ReadPosition, Report, DisableRawMode,
                CallFails, AnswerRequest, history
  <2>2. doing \notin Ends
    BY <1>2 DEF RawModeStep, ReadKey, AskPosition, ReadPosition, Report, DisableRawMode,
                CallFails, AnswerRequest, Proceed, Ends
  <2>3. QED
    BY <2>1, <2>2 DEF LooksLikeAnswer
<1>3. ASSUME NEW key \in Keys, TypeKey(key)
      PROVE  doing \notin Ends /\ (LooksLikeAnswer => LooksLikeAnswer')
    BY <1>3, ExpectedKept DEF TypeKey
<1>4. QED
    BY <1>1, <1>2, <1>3 DEF EditorNext, EditorStep, RawModeStep

\* Nothing is asked of the terminal before raw mode is set.
LEMMA NothingAsked ==
    ASSUME EditorTypeOK, [EditorNext]_editorVars, doing = "start" => ~asked
    PROVE  doing' = "start" => ~asked'
<1>1. CASE UNCHANGED editorVars
    BY <1>1 DEF editorVars
<1>2. CASE AnswerRequest \/ \E key \in Keys : TypeKey(key)
    BY <1>2 DEF AnswerRequest, TypeKey
<1>3. CASE EditorStep
    BY <1>3 DEF EditorStep, EnableRawMode, ReadKey, AskPosition, ReadPosition, Report,
                DisableRawMode, CallFails, Proceed
<1>4. QED
    BY <1>1, <1>2, <1>3 DEF EditorNext

\* The inductive invariant: between two answers the keys typed and not processed stand in
\* the standard input; while an answer is read, they and the answer stand in what has been
\* read of it and in the standard input, the answer behind some of them.  The keys are those
\* typed since raw mode has been set (enable_raw_mode discards the others).
THEOREM EditorInvariance == EditorSpec => []EditorIInv
<1>1. EditorInit => EditorIInv
  <2> SUFFICES ASSUME EditorInit PROVE EditorIInv
    OBVIOUS
  <2>1. /\ document = <<>> /\ edit_mode = TRUE /\ keep_running = TRUE /\ buf = <<>>
        /\ doing = "start" /\ raw_mode = FALSE /\ stdin = <<>> /\ asked = FALSE
        /\ typed = <<>> /\ meant = <<Editor>>
    BY DEF EditorInit
  <2>2. Editor \in Editors
    <3>1. <<>> \in Seq(Characters)
      OBVIOUS
    <3>2. QED
      BY <2>1, <3>1 DEF Editor, Editors
  <2>3. meant \in Seq(Editors) /\ Len(meant) = 1 /\ meant[1] = Editor
    BY <2>1, <2>2, NothingTyped
  <2>5. EditorTypeOK
    <3>1. typed \in Seq(Keys) /\ buf \in Seq(Item) /\ stdin \in Seq(Item) /\ Len(typed) = 0
      BY <2>1, NothingTyped, Zenon
    <3>2. Len(meant) = Len(typed) + 1
      BY <2>3, <3>1
    <3>3. doing \in Modes /\ raw_mode \in BOOLEAN /\ asked \in BOOLEAN
      BY <2>1 DEF Modes
    <3>4. QED
      BY <2>2, <2>3, <3>1, <3>2, <3>3 DEF EditorTypeOK
  <2>6. DOMAIN typed = {} /\ Len(typed) = 0 /\ Len(stdin) = 0
    BY <2>1
  <2>7. 0 \in 0 .. Len(typed) /\ Processed(0)
    BY <2>1, <2>3, <2>5, <2>6, ProcessedParts DEF Waiting
  <2>8. QED
    BY <2>1, <2>5, <2>6, <2>7 DEF EditorIInv
<1>2. EditorIInv /\ [EditorNext]_editorVars => EditorIInv'
  <2> SUFFICES ASSUME EditorIInv, [EditorNext]_editorVars PROVE EditorIInv'
    OBVIOUS
  <2>1. /\ EditorTypeOK
        /\ doing = "start" => ~asked
        /\ \A i \in DOMAIN typed : meant[i + 1] = ProcessKey(meant[i], typed[i])
        /\ doing \notin Ends /\ ~LooksLikeAnswer => \E n \in 0 .. Len(typed) : Processed(n)
    BY DEF EditorIInv
  <2>2. EditorTypeOK'
    BY <2>1, EditorTypeStep
  <2>3. \A i \in DOMAIN typed' : meant'[i + 1] = ProcessKey(meant'[i], typed'[i])
    BY <2>1, MeantStep
  <2>4. doing' = "start" => ~asked'
    BY <2>1, NothingAsked
  <2>5. ASSUME doing' \notin Ends, ~LooksLikeAnswer', ~EnableRawMode
        PROVE  \E n \in 0 .. Len(typed') : Processed(n)'
    <3>1. doing \notin Ends /\ ~LooksLikeAnswer
      BY <2>1, <2>5, NeverAgain
    <3>2. PICK n \in 0 .. Len(typed) : Processed(n)
      BY <2>1, <3>1
    <3>3. CASE UNCHANGED editorVars
      <4>1. Processed(n)'
        BY <3>2, <3>3 DEF editorVars, history, Processed, Expected, Typed, Editor
      <4>2. QED
        BY <3>3, <4>1 DEF editorVars, history
    <3>4. CASE RawModeStep \/ AnswerRequest
      BY <2>1, <2>2, <2>5, <3>1, <3>2, <3>4, ProgramStep
    <3>5. ASSUME NEW key \in Keys, TypeKey(key)
          PROVE  \E k \in 0 .. Len(typed') : Processed(k)'
      BY <2>1, <2>2, <3>2, <3>5, TypeKeyStep
    <3>6. QED
      BY <2>5, <3>3, <3>4, <3>5 DEF EditorNext, EditorStep, RawModeStep
  <2>6. ASSUME EnableRawMode
        PROVE  \E n \in 0 .. Len(typed') : Processed(n)'
    BY <2>1, <2>6, EnableRawModeEffect, EnableRawModeStep
  <2>7. QED
    BY <2>2, <2>3, <2>4, <2>5, <2>6 DEF EditorIInv
<1>3. QED
    BY <1>1, <1>2, PTL DEF EditorSpec

\* KeysInOrder, for all keys and however many of them: no key typed in raw mode is swallowed
\* with an answer and no part of an answer is taken for a key, unless the user types what
\* looks like an answer (run and get_cursor_position); what was typed before raw mode was set
\* has no effect (enable_raw_mode).
THEOREM KeysInOrderHolds == EditorSpec => []KeysInOrder
<1>1. EditorIInv => KeysInOrder
  <2> SUFFICES ASSUME EditorIInv, doing \notin Ends, ~LooksLikeAnswer
               PROVE  Editor = meant[Len(typed) - Cardinality(Unread) + 1]
    BY DEF KeysInOrder
  <2>1. EditorTypeOK
    BY DEF EditorIInv
  <2>2. PICK n \in 0 .. Len(typed) : Processed(n)
    BY DEF EditorIInv
  <2>3. PICK l \in Nat : l = Len(typed) /\ n \in Nat /\ n <= l
    BY <2>1 DEF EditorTypeOK
  <2>4. Unread = n + 1 .. l
    BY <2>1, <2>2, <2>3, UnreadIs
  <2>5. Cardinality(n + 1 .. l) = l - n
    <3>1. n + 1 \in Int /\ l \in Int
      BY <2>3
    <3>2. Cardinality(n + 1 .. l) = IF n + 1 > l THEN 0 ELSE l - (n + 1) + 1
      BY <3>1, FS_Interval
    <3>3. QED
      BY <2>3, <3>2
  <2>6. Len(typed) - Cardinality(Unread) + 1 = n + 1
    BY <2>3, <2>4, <2>5
  <2>7. Editor = meant[n + 1]
    BY <2>1, <2>2, ProcessedParts
  <2>8. QED
    BY <2>6, <2>7
<1>2. QED
    BY <1>1, EditorInvariance, PTL

-----------------------------------------------------------------------------
(* The lexers of create_language *)

\* What the readers may be given, as a fact about one text.
IsText(T) ==
    /\ T \in Seq(LexCharacters \cup {EOF})
    /\ \A i \in 1 .. Len(T) - 1 : T[i] # EOF

\* Some numbers have a least one.
LEMMA LeastThere ==
    ASSUME NEW S \in SUBSET Nat, S # {}
    PROVE  Min(S) \in S /\ \A k \in S : Min(S) <= k
<1>1. PICK n \in S : \A k \in S : n <= k
    BY LeastOf
<1>2. QED
    BY <1>1, LeastIs

\* The program reads on up to the end of the text or the first character that is not
\* among these.
LEMMA ReadWhileStops ==
    ASSUME NEW T, Len(T) \in Nat, NEW i \in 0 .. Len(T), NEW these
    PROVE  LET e == ReadWhile(T, i, these)
           IN  /\ e \in i .. Len(T)
               /\ \A k \in i .. e - 1 : LastRead(T, k) \in these
               /\ e = Len(T) \/ LastRead(T, e) \notin these
<1> DEFINE stops == {k \in i .. Len(T) : IsEmpty(T, k) \/ LastRead(T, k) \notin these}
<1>1. stops \in SUBSET Nat /\ Len(T) \in stops
    BY DEF IsEmpty
<1>2. Min(stops) \in stops /\ \A k \in stops : Min(stops) <= k
  <2> HIDE DEF stops
  <2>1. QED
    BY <1>1, LeastThere
<1>3. ReadWhile(T, i, these) = Min(stops)
    BY DEF ReadWhile
<1> DEFINE e == Min(stops)
<1>4. e \in i .. Len(T) /\ (e = Len(T) \/ LastRead(T, e) \notin these)
    BY <1>2 DEF IsEmpty
<1>5. ASSUME NEW k \in i .. e - 1 PROVE LastRead(T, k) \in these
  <2>1. k \in i .. Len(T) /\ ~(e <= k)
    BY <1>4
  <2>2. k \notin stops
    BY <1>2, <2>1
  <2>3. QED
    BY <2>1, <2>2
<1>6. QED
    BY <1>3, <1>4, <1>5

\* gettok stops at the first character that is not among these, and EOF never is.
LEMMA PastStops ==
    ASSUME NEW T, NEW size \in Nat, NEW i \in 0 .. size + 1, NEW these, EOF \notin these
    PROVE  LET p == Past(T, size, i, these)
           IN  /\ p \in i .. size + 1
               /\ \A k \in i .. p - 1 : Char(T, size, k) \in these
               /\ Char(T, size, p) \notin these
<1> DEFINE stops == {k \in i .. size + 1 : Char(T, size, k) \notin these}
<1>1. stops \in SUBSET Nat /\ size + 1 \in stops
    BY DEF Char
<1>2. Min(stops) \in stops /\ \A k \in stops : Min(stops) <= k
  <2> HIDE DEF stops
  <2>1. QED
    BY <1>1, LeastThere
<1>3. Past(T, size, i, these) = Min(stops)
    BY DEF Past
<1> DEFINE p == Min(stops)
<1>4. p \in i .. size + 1 /\ Char(T, size, p) \notin these
    BY <1>2
<1>5. ASSUME NEW k \in i .. p - 1 PROVE Char(T, size, k) \in these
  <2>1. k \in i .. size + 1 /\ ~(p <= k)
    BY <1>4
  <2>2. k \notin stops
    BY <1>2, <2>1
  <2>3. QED
    BY <2>1, <2>2
<1>6. QED
    BY <1>3, <1>4, <1>5

\* Where such a character is behind characters that all are among these, gettok stops
\* there.
LEMMA PastIs ==
    ASSUME NEW T, NEW size \in Nat, NEW i \in Nat, NEW p \in i .. size + 1, NEW these,
           \A k \in i .. p - 1 : Char(T, size, k) \in these,
           Char(T, size, p) \notin these
    PROVE  Past(T, size, i, these) = p
<1> DEFINE stops == {k \in i .. size + 1 : Char(T, size, k) \notin these}
<1>1. stops \in SUBSET Nat /\ p \in stops
    OBVIOUS
<1>2. ASSUME NEW k \in stops PROVE p <= k
  <2>1. k \in i .. size + 1 /\ k \notin i .. p - 1
    OBVIOUS
  <2>2. QED
    BY <2>1
<1>3. Min(stops) = p
  <2> HIDE DEF stops
  <2>1. QED
    BY <1>1, <1>2, LeastIs
<1>4. QED
    BY <1>3 DEF Past

\* Once something has been read, it is a character of the text.
LEMMA ReadIs ==
    ASSUME NEW T, NEW k, k # 0
    PROVE  LastRead(T, k) = T[k]
    BY DEF LastRead

\* What an input of the tutorial's lexer has of a text: all of it before its EOF
\* character, or all but the last character.
Sizes(T, whole, short) ==
    /\ short = IF Len(T) = 0 THEN 0 ELSE Len(T) - 1
    /\ whole = Len(T) \/ (whole = short /\ Len(T) > 0 /\ T[Len(T)] = EOF)

\* On the whole input the tutorial's lexer sees the text's characters, on the short one
\* an EOF in place of the last.
LEMMA WhatIsSeen ==
    ASSUME NEW T, IsText(T), NEW whole, NEW short, Sizes(T, whole, short)
    PROVE  /\ whole \in Nat /\ short \in Nat
           /\ \A k \in 0 .. Len(T) : Char(T, whole, k) = LastRead(T, k)
           /\ \A k \in Nat : k > Len(T) => Char(T, whole, k) = EOF
           /\ \A k \in 0 .. Len(T) - 1 : Char(T, short, k) = LastRead(T, k)
           /\ Len(T) > 0 => \A k \in Nat : k >= Len(T) => Char(T, short, k) = EOF
<1>1. Len(T) \in Nat
    BY DEF IsText
<1>2. CASE whole = Len(T)
    BY <1>1, <1>2 DEF Sizes, Char
<1>3. CASE whole = short /\ Len(T) > 0 /\ T[Len(T)] = EOF
  <2>1. short = Len(T) - 1 /\ LastRead(T, Len(T)) = EOF
    <3>1. Len(T) # 0 /\ T[Len(T)] = EOF
      BY <1>1, <1>3
    <3>2. short = Len(T) - 1
      BY <3>1 DEF Sizes
    <3>3. QED
      BY <3>1, <3>2 DEF LastRead
  <2>2. ASSUME NEW k \in 0 .. Len(T) PROVE Char(T, whole, k) = LastRead(T, k)
    BY <1>1, <1>3, <2>1 DEF Char
  <2>3. /\ \A k \in Nat : k > Len(T) => Char(T, whole, k) = EOF
        /\ \A k \in 0 .. Len(T) - 1 : Char(T, short, k) = LastRead(T, k)
        /\ \A k \in Nat : k >= Len(T) => Char(T, short, k) = EOF
    BY <1>1, <1>3, <2>1 DEF Char
  <2>4. QED
    BY <1>1, <1>3, <2>1, <2>2, <2>3
<1>4. QED
    BY <1>2, <1>3 DEF Sizes

\* On the short input the tutorial's lexer stops where the program does.
LEMMA ShortStops ==
    ASSUME NEW T, IsText(T), NEW whole, NEW short, Sizes(T, whole, short), Len(T) > 0,
           NEW i \in 0 .. Len(T), NEW these, EOF \notin these
    PROVE  Past(T, short, i, these) = ReadWhile(T, i, these)
<1>1. Len(T) \in Nat /\ short = Len(T) - 1
    BY DEF IsText, Sizes
<1>2. PICK e \in i .. Len(T) :
          /\ e = ReadWhile(T, i, these)
          /\ \A k \in i .. e - 1 : LastRead(T, k) \in these
          /\ e = Len(T) \/ LastRead(T, e) \notin these
    BY <1>1, ReadWhileStops
<1>3. \A k \in i .. e - 1 : Char(T, short, k) \in these
  <2>1. \A k \in i .. e - 1 : k \in 0 .. Len(T) - 1
    BY <1>1
  <2>2. QED
    BY <1>2, <2>1, WhatIsSeen
<1>4. Char(T, short, e) \notin these
  <2>1. CASE e = Len(T)
    BY <1>1, <2>1, WhatIsSeen
  <2>2. CASE e # Len(T)
    <3>1. e \in 0 .. Len(T) - 1
      BY <1>1, <2>2
    <3>2. QED
      BY <1>2, <2>2, <3>1, WhatIsSeen
  <2>3. QED
    BY <2>1, <2>2
<1>5. e \in i .. short + 1 /\ i \in Nat /\ short \in Nat
    BY <1>1
<1>6. QED
    BY <1>2, <1>3, <1>4, <1>5, PastIs

\* On the whole input too, unless the last character is still among these: then it stops
\* behind it.
LEMMA WholeStops ==
    ASSUME NEW T, IsText(T), NEW whole, NEW short, Sizes(T, whole, short),
           NEW i \in 0 .. Len(T), NEW these, EOF \notin these,
           NEW e, e = ReadWhile(T, i, these)
    PROVE  Past(T, whole, i, these) = IF LastRead(T, e) \in these THEN e + 1 ELSE e
<1>1. Len(T) \in Nat /\ whole \in Nat /\ i \in Nat
    BY WhatIsSeen DEF IsText
<1>2. /\ e \in i .. Len(T)
      /\ \A k \in i .. e - 1 : LastRead(T, k) \in these
      /\ e = Len(T) \/ LastRead(T, e) \notin these
    BY <1>1, ReadWhileStops
<1>3. \A k \in i .. e - 1 : Char(T, whole, k) \in these
  <2>1. \A k \in i .. e - 1 : k \in 0 .. Len(T)
    BY <1>1, <1>2
  <2>2. QED
    BY <1>2, <2>1, WhatIsSeen
<1>4. Char(T, whole, e) = LastRead(T, e)
    BY <1>1, <1>2, WhatIsSeen
<1>5. CASE LastRead(T, e) \notin these
  <2>1. e \in i .. whole + 1
    BY <1>1, <1>2 DEF Sizes
  <2>2. QED
    BY <1>1, <1>3, <1>4, <1>5, <2>1, PastIs
<1>6. CASE LastRead(T, e) \in these
  <2>1. e = Len(T) /\ Char(T, whole, e + 1) = EOF
    BY <1>1, <1>2, <1>6, WhatIsSeen
  <2>2. whole = Len(T)
    <3>1. CASE whole = Len(T)
      BY <3>1
    <3>2. CASE Len(T) > 0 /\ T[Len(T)] = EOF
      <4>1. e # 0 /\ T[e] = EOF
        BY <1>1, <2>1, <3>2
      <4>2. LastRead(T, e) = EOF
        BY <4>1, ReadIs
      <4>3. QED
        BY <1>6, <4>2
    <3>3. QED
      BY <3>1, <3>2 DEF Sizes
  <2>3. e + 1 \in i .. whole + 1
    BY <1>1, <1>2, <2>1, <2>2
  <2>4. \A k \in i .. (e + 1) - 1 : Char(T, whole, k) \in these
    <3>1. ASSUME NEW k \in i .. (e + 1) - 1 PROVE k \in i .. e - 1 \/ k = e
      BY <1>1, <1>2
    <3>2. QED
      BY <1>3, <1>4, <1>6, <3>1
  <2>5. QED
    BY <1>1, <1>6, <2>1, <2>3, <2>4, PastIs
<1>7. QED
    BY <1>5, <1>6

\* The classes of characters do not overlap, and EOF is in none of them.
LEMMA Classes ==
    /\ Letters \cap (InNumbers \cup Spaces \cup {"#", EOF}) = {}
    /\ InNumbers \cap (Spaces \cup {"#", EOF}) = {} /\ "#" \notin Spaces
    /\ EOF \notin Spaces /\ EOF \notin AlphaNumeric /\ EOF \notin InNumbers
    /\ EOF \notin InLine /\ EOF \notin Digits /\ EOF \notin LexCharacters
    /\ Letters \subseteq AlphaNumeric /\ Digits \subseteq InNumbers /\ "#" \in InLine
    /\ InNumbers = Digits \cup {"."} /\ "." \notin Digits
    /\ EOF # "#"
    BY DEF Letters, InNumbers, Spaces, Digits, AlphaNumeric, InLine, LexCharacters, Symbols, EOF

\* Where a pass is over without a token.
Nothing == {NoToken, EofToken, CommentToken}

\* A word, a number and a symbol are tokens, and none of them is the abort.
LEMMA TokensApart ==
    /\ \A letters : Word(letters) \notin Nothing \cup {AbortToken}
    /\ \A digits, fraction : Number(digits, fraction) \notin Nothing \cup {AbortToken}
    /\ \A c \in LexCharacters : Token(c, <<>>) \notin Nothing \cup {AbortToken}
    /\ AbortToken \notin Nothing
    /\ CommentToken \notin {NoToken, EofToken}
<1>1. \A letters : Word(letters).kind \in {"def", "extern", "identifier"}
    BY DEF Word, Token
<1>2. \A digits, fraction : Number(digits, fraction).kind = "number"
    BY DEF Number, Token
<1>3. \A c : Token(c, <<>>).kind = c
    BY DEF Token
<1>4. \A t \in Nothing : t.kind \in {"none", "eof", "comment"}
    BY DEF Nothing, NoToken, EofToken, CommentToken, Token
<1>5. AbortToken.kind = "abort" /\ CommentToken.kind = "comment"
      /\ NoToken.kind = "none" /\ EofToken.kind = "eof"
    BY DEF AbortToken, CommentToken, NoToken, EofToken, Token
<1>6. LexCharacters \cap {"none", "eof", "comment", "abort"} = {}
    BY DEF LexCharacters, AlphaNumeric, Letters, Digits, Spaces, Symbols
<1>7. QED
    BY <1>1, <1>2, <1>3, <1>4, <1>5, <1>6

\* A pass of gettok that is at a letter behind the spaces.
LEMMA SourceWord ==
    ASSUME NEW T, NEW size, NEW place, NEW b, Past(T, size, place, Spaces) = b,
           Char(T, size, b) \in Letters
    PROVE  LET word == Past(T, size, b, AlphaNumeric)
           IN  GetTok(T, size, place) = [token |-> Word(SubSeq(T, b, word - 1)), place |-> word]
    BY Classes DEF GetTok

\* The same at a digit or a point.
LEMMA SourceNumber ==
    ASSUME NEW T, NEW size, NEW place, NEW b, Past(T, size, place, Spaces) = b,
           Char(T, size, b) \in InNumbers
    PROVE  GetTok(T, size, place) = [token |-> NumVal(T, size, b),
                                     place |-> Past(T, size, b, InNumbers)]
    BY Classes DEF GetTok

\* The same at a comment, whose line may be the last.
LEMMA SourceComment ==
    ASSUME NEW T, NEW size, NEW place, NEW b, Past(T, size, place, Spaces) = b,
           Char(T, size, b) = "#"
    PROVE  LET line == Past(T, size, b, InLine)
           IN  GetTok(T, size, place) =
                   [token |-> IF Char(T, size, line) = EOF THEN EofToken ELSE CommentToken,
                    place |-> line]
    BY Classes DEF GetTok

\* The same at the end of the input, which is not left.
LEMMA SourceEof ==
    ASSUME NEW T, NEW size, NEW place, NEW b, Past(T, size, place, Spaces) = b,
           Char(T, size, b) = EOF
    PROVE  GetTok(T, size, place) = [token |-> EofToken, place |-> b]
    BY Classes DEF GetTok

\* The same at any other character, which is its own token.
LEMMA SourceOther ==
    ASSUME NEW T, NEW size, NEW place, NEW b, Past(T, size, place, Spaces) = b,
           NEW c, c = Char(T, size, b), c \notin Letters \cup InNumbers \cup {"#", EOF}
    PROVE  GetTok(T, size, place) = [token |-> Token(c, <<>>), place |-> b + 1]
<1>1. c \notin Letters /\ c \notin InNumbers /\ ~(c = "#") /\ ~(c = EOF)
    OBVIOUS
<1>2. QED
    BY <1>1 DEF GetTok

\* A pass of get_token that has something left, by what it is at behind the spaces.
LEMMA ProgramPass ==
    ASSUME NEW T, NEW i, ~IsEmpty(T, i), NEW b, b = ReadWhile(T, i, Spaces),
           NEW c, c = LastRead(T, b)
    PROVE  /\ c \in Spaces => GetToken(T, i) = [token |-> NoToken, index |-> b]
           /\ c \in Letters => GetToken(T, i) = LexWord(T, b)
           /\ c \in InNumbers => GetToken(T, i) = LexNumber(T, b)
           /\ c = "#" => GetToken(T, i) = LexComment(T, b)
           /\ c = EOF => GetToken(T, i) = [token |-> EofToken, index |-> b]
           /\ c \notin Spaces \cup Letters \cup InNumbers \cup {"#", EOF} =>
                  GetToken(T, i) = [token |-> Token(c, <<>>), index |-> Read(T, b)]
    BY Classes DEF GetToken

\* When a pass of the program agrees with those of the tutorial's lexer on the whole and
\* the short input: it aborts; or all find the same and stop at the same character; or
\* it has come to the end of the text and one of the inputs has given the same and has
\* nothing left but spaces.
Same(t, u) == t = u \/ (t \in Nothing /\ u \in Nothing)
EndsWith(T, size, pass, source) ==
    /\ Same(source.token, pass.token)
    /\ \A k \in source.place .. size : LastRead(T, k) \in Spaces
Agrees(T, whole, short, pass, onWhole, onShort) ==
    \/ pass.token = AbortToken
    \/ /\ pass.index < Len(T) /\ pass.token \notin {NoToken, EofToken}
       /\ onWhole = [token |-> pass.token, place |-> pass.index]
       /\ onShort = [token |-> pass.token, place |-> pass.index]
    \/ /\ pass.index = Len(T)
       /\ EndsWith(T, whole, pass, onWhole) \/ EndsWith(T, short, pass, onShort)

\* Letters and digits: the whole input always gives the same word.
LEMMA WordsAgree ==
    ASSUME NEW T, IsText(T), NEW whole, NEW short, Sizes(T, whole, short),
           NEW i, NEW b \in 1 .. Len(T), LastRead(T, b) \in Letters,
           Past(T, whole, i, Spaces) = b, Past(T, short, i, Spaces) = b,
           NEW pass, pass = LexWord(T, b)
    PROVE  Agrees(T, whole, short, pass, GetTok(T, whole, i), GetTok(T, short, i))
<1>1. Len(T) \in Nat /\ whole \in Nat /\ short \in Nat /\ b \in Nat /\ Len(T) > 0
    BY WhatIsSeen DEF IsText
<1>2. PICK e \in b .. Len(T) :
          /\ e = ReadWhile(T, b, AlphaNumeric)
          /\ \A k \in b .. e - 1 : LastRead(T, k) \in AlphaNumeric
          /\ e = Len(T) \/ LastRead(T, e) \notin AlphaNumeric
    BY <1>1, ReadWhileStops
<1> DEFINE inside == LastRead(T, e) \in AlphaNumeric
           last == IF inside THEN e ELSE e - 1
<1>3. pass = [token |-> Word(SubSeq(T, b, last)), index |-> e]
    BY <1>2 DEF LexWord
<1>4. GetTok(T, whole, i) = [token |-> pass.token, place |-> IF inside THEN e + 1 ELSE e]
  <2>1. Char(T, whole, b) \in Letters
    BY <1>1, WhatIsSeen
  <2>2. Past(T, whole, b, AlphaNumeric) = IF inside THEN e + 1 ELSE e
    BY <1>1, <1>2, WholeStops, Classes
  <2>3. (IF inside THEN e + 1 ELSE e) - 1 = last
    BY <1>2
  <2>4. QED
    BY <1>3, <2>1, <2>2, <2>3, SourceWord
<1>5. Past(T, short, b, AlphaNumeric) = e
    BY <1>1, <1>2, ShortStops, Classes
<1>6. ASSUME b < Len(T), ~inside
      PROVE  GetTok(T, short, i) = [token |-> pass.token, place |-> e]
  <2>1. Char(T, short, b) \in Letters
    BY <1>1, <1>6, WhatIsSeen
  <2>2. QED
    BY <1>3, <1>5, <1>6, <2>1, SourceWord
<1>7. b < Len(T) => e > b
  <2>1. CASE e = b /\ b < Len(T)
    BY <1>2, <2>1, Classes
  <2>2. QED
    BY <1>2, <2>1
<1>8. pass.token \notin Nothing
    BY <1>3, TokensApart
<1>9. CASE inside
  <2>1. e = Len(T) /\ \A k \in e + 1 .. whole : LastRead(T, k) \in Spaces
    BY <1>1, <1>2, <1>9 DEF Sizes
  <2>2. QED
    BY <1>3, <1>4, <1>7, <1>9, <2>1 DEF Agrees, EndsWith, Same
<1>10. CASE ~inside /\ e < Len(T)
  <2>1. b < Len(T)
    BY <1>1, <1>2, <1>10
  <2>2. QED
    BY <1>3, <1>4, <1>6, <1>7, <1>8, <1>10, <2>1 DEF Agrees, Nothing
<1>11. CASE ~inside /\ e = Len(T)
  <2>1. b < Len(T)
    BY <1>1, <1>2, <1>11, Classes
  <2>2. \A k \in e .. short : LastRead(T, k) \in Spaces
    BY <1>1, <1>11 DEF Sizes
  <2>3. QED
    BY <1>3, <1>6, <1>7, <1>11, <2>1, <2>2 DEF Agrees, EndsWith, Same
<1>12. QED
    BY <1>2, <1>9, <1>10, <1>11

\* A comment: at its line's end all go on, and at the end of the text the short input
\* has nothing left.
LEMMA CommentsAgree ==
    ASSUME NEW T, IsText(T), NEW whole, NEW short, Sizes(T, whole, short),
           NEW i, NEW b \in 1 .. Len(T), LastRead(T, b) = "#",
           Past(T, whole, i, Spaces) = b, Past(T, short, i, Spaces) = b,
           NEW pass, pass = LexComment(T, b)
    PROVE  Agrees(T, whole, short, pass, GetTok(T, whole, i), GetTok(T, short, i))
<1>1. Len(T) \in Nat /\ whole \in Nat /\ short \in Nat /\ b \in Nat /\ Len(T) > 0
    BY WhatIsSeen DEF IsText
<1>2. PICK e \in b .. Len(T) :
          /\ e = ReadWhile(T, b, InLine)
          /\ \A k \in b .. e - 1 : LastRead(T, k) \in InLine
          /\ e = Len(T) \/ LastRead(T, e) \notin InLine
    BY <1>1, ReadWhileStops
<1>3. pass = [token |-> IF LastRead(T, e) = EOF THEN EofToken ELSE CommentToken, index |-> e]
    BY <1>2 DEF LexComment
<1>4. Past(T, short, b, InLine) = e
    BY <1>1, <1>2, ShortStops, Classes
<1>5. b < Len(T) => e > b
  <2>1. CASE e = b /\ b < Len(T)
    BY <1>2, <2>1, Classes
  <2>2. QED
    BY <1>2, <2>1
<1>6. CASE e < Len(T)
  <2>1. LastRead(T, e) # EOF /\ b < Len(T)
    <3>1. e \in 1 .. Len(T) - 1 /\ e # 0 /\ b < Len(T)
      BY <1>1, <1>2, <1>6
    <3>2. T[e] # EOF
      BY <3>1 DEF IsText
    <3>3. QED
      BY <3>1, <3>2 DEF LastRead
  <2>2. Past(T, whole, b, InLine) = e
    BY <1>1, <1>2, <1>6, WholeStops, Classes
  <2>3. /\ Char(T, whole, b) = "#" /\ Char(T, short, b) = "#"
        /\ Char(T, whole, e) = LastRead(T, e) /\ Char(T, short, e) = LastRead(T, e)
    <3>1. b \in 0 .. Len(T) - 1 /\ e \in 0 .. Len(T) - 1 /\ b \in 0 .. Len(T) /\ e \in 0 .. Len(T)
      BY <1>1, <1>2, <1>6, <2>1
    <3>2. QED
      BY <3>1, WhatIsSeen
  <2>4. /\ GetTok(T, whole, i) = [token |-> CommentToken, place |-> e]
        /\ GetTok(T, short, i) = [token |-> CommentToken, place |-> e]
    BY <1>4, <2>1, <2>2, <2>3, SourceComment
  <2>5. QED
    BY <1>2, <1>3, <1>5, <1>6, <2>1, <2>4, TokensApart DEF Agrees
<1>7. CASE e = Len(T)
  <2>1. Char(T, short, e) = EOF
    BY <1>1, <1>7, WhatIsSeen
  <2>2. GetTok(T, short, i) = [token |-> EofToken, place |-> e]
    <3>1. CASE b = Len(T)
      BY <1>7, <2>1, <3>1, SourceEof
    <3>2. CASE b < Len(T)
      <4>1. Char(T, short, b) = "#"
        BY <1>1, <3>2, WhatIsSeen
      <4>2. QED
        BY <1>4, <2>1, <4>1, SourceComment
    <3>3. QED
      BY <1>1, <3>1, <3>2
  <2>3. \A k \in e .. short : LastRead(T, k) \in Spaces
    BY <1>1, <1>7 DEF Sizes
  <2>4. Same(EofToken, pass.token)
    BY <1>3 DEF Same, Nothing
  <2>5. QED
    BY <1>2, <1>3, <1>5, <1>7, <2>2, <2>3, <2>4 DEF Agrees, EndsWith
<1>8. QED
    BY <1>2, <1>6, <1>7

\* No number of the text has two points.
OnePoint(T, size) ==
    \A i, j \in 1 .. size :
        i < j /\ T[i] = "." /\ T[j] = "." => \E k \in i .. j : T[k] \notin InNumbers

\* A number that the tutorial's lexer finds, by the places of its point and its end.
LEMMA SourceNumberFound ==
    ASSUME NEW T, NEW size \in Nat, NEW i, NEW b \in Nat,
           Past(T, size, i, Spaces) = b, Char(T, size, b) \in InNumbers,
           NEW point \in Nat, NEW end \in b .. size + 1,
           Past(T, size, b, Digits) = point,
           end = IF Char(T, size, point) = "." THEN Past(T, size, point + 1, Digits)
                 ELSE point,
           \A k \in b .. end - 1 : Char(T, size, k) \in InNumbers,
           Char(T, size, end) \notin InNumbers
    PROVE  GetTok(T, size, i) =
               [token |-> Number(SubSeq(T, b, point - 1), SubSeq(T, point + 1, end - 1)),
                place |-> end]
<1>1. NumVal(T, size, b) = Number(SubSeq(T, b, point - 1), SubSeq(T, point + 1, end - 1))
    BY DEF NumVal
<1>2. Past(T, size, b, InNumbers) = end
    BY PastIs
<1>3. QED
    BY <1>1, <1>2, SourceNumber

\* A number that starts before the last character: the short input always gives the
\* same, and the whole one too when it ends before the last character.
LEMMA NumbersAgree ==
    ASSUME NEW T, IsText(T), NEW whole, NEW short, Sizes(T, whole, short),
           NEW i, NEW b \in 1 .. Len(T) - 1, LastRead(T, b) \in InNumbers,
           Past(T, whole, i, Spaces) = b, Past(T, short, i, Spaces) = b,
           OnePoint(T, whole), NEW pass, pass = LexNumber(T, b)
    PROVE  Agrees(T, whole, short, pass, GetTok(T, whole, i), GetTok(T, short, i))
<1>1. /\ Len(T) \in Nat /\ whole \in Nat /\ short = Len(T) - 1 /\ short \in Nat
      /\ whole >= short /\ b \in Nat /\ b < Len(T) /\ b >= 1
    BY WhatIsSeen DEF IsText, Sizes
<1>2. PICK point \in b .. Len(T) :
          /\ point = ReadWhile(T, b, Digits)
          /\ \A k \in b .. point - 1 : LastRead(T, k) \in Digits
          /\ point = Len(T) \/ LastRead(T, point) \notin Digits
  <2>1. b \in 0 .. Len(T)
    BY <1>1
  <2>2. QED
    BY <1>1, <2>1, ReadWhileStops
<1>3. LastRead(T, b) \in Digits => point > b
    BY <1>1, <1>2
<1>4. point \in Nat /\ b <= point /\ point <= Len(T)
    BY <1>1, <1>2
<1>5. PICK from \in Nat :
          /\ from = Read(T, point) /\ point <= from /\ from <= Len(T)
          /\ point < Len(T) => from = point + 1
    BY <1>1, <1>4 DEF Read, IsEmpty
<1>6. PICK end : end = IF LastRead(T, point) = "." THEN ReadWhile(T, from, Digits) ELSE point
    OBVIOUS
<1>7. /\ end \in point .. Len(T) /\ (point < Len(T) /\ LastRead(T, point) = "." => end > point)
      /\ \A k \in b .. end - 1 : LastRead(T, k) \in InNumbers
      /\ end < Len(T) => LastRead(T, end) \notin Digits
  <2>1. CASE LastRead(T, point) = "."
    <3>1. PICK e \in from .. Len(T) :
              /\ e = ReadWhile(T, from, Digits)
              /\ \A k \in from .. e - 1 : LastRead(T, k) \in Digits
              /\ e = Len(T) \/ LastRead(T, e) \notin Digits
      <4>1. from \in 0 .. Len(T)
        BY <1>1, <1>5
      <4>2. QED
        BY <1>1, <4>1, ReadWhileStops
    <3>2. end = e /\ e \in Nat /\ from <= e /\ e <= Len(T)
      BY <1>1, <1>5, <1>6, <2>1, <3>1
    <3>3. ASSUME NEW k \in b .. e - 1 PROVE LastRead(T, k) \in InNumbers
      <4>1. k \in b .. point - 1 \/ k = point \/ k \in from .. e - 1
        <5>1. from <= point + 1
          <6>1. CASE point < Len(T)
            BY <1>4, <1>5, <6>1
          <6>2. CASE ~(point < Len(T))
            BY <1>1, <1>4, <1>5, <6>2
          <6>3. QED
            BY <6>1, <6>2
        <5>2. QED
          BY <1>1, <1>4, <3>2, <5>1
      <4>2. QED
        BY <1>2, <2>1, <3>1, <4>1, Classes
    <3>4. /\ e \in point .. Len(T) /\ (point < Len(T) => e > point)
          /\ e < Len(T) => LastRead(T, e) \notin Digits
      <4>1. e \in point .. Len(T) /\ (point < Len(T) => e > point)
        BY <1>4, <1>5, <3>2
      <4>2. QED
        BY <3>1, <4>1
    <3>5. QED
      BY <3>2, <3>3, <3>4
  <2>2. CASE LastRead(T, point) # "."
    <3>1. end = point
      BY <1>6, <2>2
    <3>2. QED
      BY <1>2, <2>2, <3>1, Classes
  <2>3. QED
    BY <2>1, <2>2
<1>8. end \in Nat /\ point <= end /\ end <= Len(T)
    BY <1>1, <1>4, <1>7
<1>9. end > b
  <2>1. CASE LastRead(T, b) \in Digits
    BY <1>1, <1>3, <1>4, <1>8, <2>1
  <2>2. CASE LastRead(T, b) = "."
    <3>1. CASE point = b
      BY <1>1, <1>7, <2>2, <3>1
    <3>2. CASE point # b
      BY <1>1, <1>4, <1>8, <3>2
    <3>3. QED
      BY <3>1, <3>2
  <2>3. QED
    BY <2>1, <2>2, Classes
<1>10. pass = [token |-> IF LastRead(T, b) = "0" THEN AbortToken
                        ELSE Number(SubSeq(T, b, point - 1), SubSeq(T, point + 1, end - 1)),
              index |-> end]
  <2>1. ~(point = b /\ LastRead(T, b) \in Digits)
    BY <1>1, <1>3
  <2>2. QED
    BY <1>2, <1>5, <1>6, <2>1 DEF LexNumber
<1>11. end < Len(T) => LastRead(T, end) \notin InNumbers
  <2>1. CASE end < Len(T) /\ LastRead(T, end) = "."
    <3>1. LastRead(T, point) = "." /\ point < end
      <4>1. LastRead(T, point) = "."
        BY <1>6, <1>7, <2>1
      <4>2. point < Len(T)
        BY <1>1, <1>4, <1>8, <2>1
      <4>3. QED
        BY <1>7, <4>1, <4>2
    <3>2. /\ point \in 1 .. whole /\ end \in 1 .. whole
          /\ \A k \in point .. end : k # 0 /\ (k \in b .. end - 1 \/ k = end)
      BY <1>1, <1>4, <1>8, <2>1, <3>1
    <3>3. T[point] = "." /\ T[end] = "."
      <4>1. point # 0 /\ end # 0
        BY <1>1, <1>4, <1>8
      <4>2. QED
        BY <2>1, <3>1, <4>1, ReadIs
    <3>4. \A k \in point .. end : T[k] \in InNumbers
      <4>1. ASSUME NEW k \in point .. end PROVE LastRead(T, k) \in InNumbers
        BY <1>7, <2>1, <3>2, Classes
      <4>2. \A k \in point .. end : k # 0
        BY <3>2
      <4>3. QED
        BY <4>1, <4>2, ReadIs
    <3>5. QED
      BY <3>1, <3>2, <3>3, <3>4 DEF OnePoint
  <2>2. QED
    BY <1>7, <2>1, Classes
<1> DEFINE number == Number(SubSeq(T, b, point - 1), SubSeq(T, point + 1, end - 1))
<1>12. GetTok(T, short, i) = [token |-> number, place |-> end]
  <2>1. Past(T, short, b, Digits) = point
    BY <1>1, <1>2, ShortStops, Classes
  <2>2. \A k \in b .. end - 1 : Char(T, short, k) \in InNumbers
    <3>1. \A k \in b .. end - 1 : k \in 0 .. Len(T) - 1
      BY <1>1, <1>8
    <3>2. QED
      BY <1>7, <3>1, WhatIsSeen
  <2>3. Char(T, short, end) \notin InNumbers
    <3>1. CASE end < Len(T)
      <4>1. end \in 0 .. Len(T) - 1
        BY <1>1, <1>8, <3>1
      <4>2. QED
        BY <1>11, <3>1, <4>1, WhatIsSeen
    <3>2. CASE end = Len(T)
      BY <1>1, <3>2, WhatIsSeen, Classes
    <3>3. QED
      BY <1>1, <1>8, <3>1, <3>2
  <2>4. end = IF Char(T, short, point) = "." THEN Past(T, short, point + 1, Digits) ELSE point
    <3>1. CASE point < Len(T)
      <4>1. Char(T, short, point) = LastRead(T, point)
        BY <1>1, <1>4, <3>1, WhatIsSeen
      <4>2. Past(T, short, point + 1, Digits) = ReadWhile(T, from, Digits)
        <5>1. point + 1 \in 0 .. Len(T) /\ from = point + 1 /\ Len(T) > 0
          BY <1>1, <1>4, <1>5, <3>1
        <5>2. QED
          BY <5>1, ShortStops, Classes
      <4>3. QED
        BY <1>6, <4>1, <4>2
    <3>2. CASE point = Len(T)
      <4>1. Char(T, short, point) = EOF
        BY <1>1, <3>2, WhatIsSeen
      <4>2. end = point
        BY <1>1, <1>8, <3>2
      <4>3. EOF # "."
        BY Classes
      <4>4. QED
        BY <4>1, <4>2, <4>3
    <3>3. QED
      BY <1>1, <1>4, <3>1, <3>2
  <2>5. Char(T, short, b) \in InNumbers
    BY <1>1, WhatIsSeen
  <2>6. end \in b .. short + 1 /\ point \in Nat
    BY <1>1, <1>4, <1>8
  <2> HIDE DEF number
  <2>7. GetTok(T, short, i) =
            [token |-> Number(SubSeq(T, b, point - 1), SubSeq(T, point + 1, end - 1)),
             place |-> end]
    <3>1. short \in Nat /\ b \in Nat
      BY <1>1
    <3>2. QED
      BY <3>1, <2>1, <2>2, <2>3, <2>4, <2>5, <2>6, SourceNumberFound
  <2>8. QED
    BY <2>7 DEF number
<1>13. ASSUME end < Len(T) PROVE GetTok(T, whole, i) = [token |-> number, place |-> end]
  <2>1. point < Len(T) /\ LastRead(T, point) \notin Digits
    BY <1>1, <1>2, <1>4, <1>8, <1>13
  <2>2. Past(T, whole, b, Digits) = point
    BY <1>1, <1>2, <2>1, WholeStops, Classes
  <2>3. /\ \A k \in b .. end - 1 : Char(T, whole, k) \in InNumbers
        /\ Char(T, whole, end) \notin InNumbers
    <3>1. end \in 0 .. Len(T) /\ \A k \in b .. end - 1 : k \in 0 .. Len(T)
      BY <1>1, <1>8
    <3>2. QED
      BY <1>7, <1>11, <1>13, <3>1, WhatIsSeen
  <2>4. end = IF Char(T, whole, point) = "." THEN Past(T, whole, point + 1, Digits) ELSE point
    <3>1. Char(T, whole, point) = LastRead(T, point)
      BY <1>1, <1>4, WhatIsSeen
    <3>2. CASE LastRead(T, point) = "."
      <4>1. end = ReadWhile(T, point + 1, Digits) /\ point + 1 \in 0 .. Len(T)
        BY <1>1, <1>4, <1>5, <1>6, <2>1, <3>2
      <4>2. LastRead(T, end) \notin Digits
        BY <1>7, <1>13
      <4>3. Past(T, whole, point + 1, Digits) = end
        BY <4>1, <4>2, WholeStops, Classes
      <4>4. QED
        BY <3>1, <3>2, <4>3
    <3>3. CASE LastRead(T, point) # "."
      BY <1>6, <3>1, <3>3
    <3>4. QED
      BY <3>2, <3>3
  <2>5. Char(T, whole, b) \in InNumbers
    BY <1>1, WhatIsSeen
  <2>6. end \in b .. whole + 1 /\ point \in Nat
    BY <1>1, <1>4, <1>8
  <2> HIDE DEF number
  <2>7. GetTok(T, whole, i) =
            [token |-> Number(SubSeq(T, b, point - 1), SubSeq(T, point + 1, end - 1)),
             place |-> end]
    <3>1. whole \in Nat /\ b \in Nat
      BY <1>1
    <3>2. QED
      BY <3>1, <2>2, <2>3, <2>4, <2>5, <2>6, SourceNumberFound
  <2>8. QED
    BY <2>7 DEF number
<1>14. end \in b + 1 .. Len(T)
    BY <1>1, <1>8, <1>9
<1>15. number \notin Nothing
    BY TokensApart
<1>16. pass = [token |-> IF LastRead(T, b) = "0" THEN AbortToken ELSE number, index |-> end]
    BY <1>10
<1> HIDE DEF number
<1>17. CASE LastRead(T, b) = "0"
    BY <1>16, <1>14, <1>17 DEF Agrees
<1>18. CASE LastRead(T, b) # "0" /\ end < Len(T)
    BY <1>16, <1>12, <1>13, <1>14, <1>15, <1>18 DEF Agrees, Nothing
<1>19. CASE LastRead(T, b) # "0" /\ end = Len(T)
  <2>1. \A k \in end .. short : LastRead(T, k) \in Spaces
    BY <1>1, <1>19
  <2>2. QED
    BY <1>16, <1>12, <1>14, <1>19, <2>1 DEF Agrees, EndsWith, Same
<1>20. QED
    BY <1>1, <1>14, <1>17, <1>18, <1>19

\* Subsequences of one element and of none.
LEMMA ShortSubSeqs ==
    ASSUME NEW X, NEW T \in Seq(X), NEW b \in 1 .. Len(T)
    PROVE  /\ SubSeq(T, b, b) = <<T[b]>>
           /\ SubSeq(T, b, b - 1) = <<>> /\ SubSeq(T, b + 1, b - 1) = <<>>
           /\ SubSeq(T, b + 2, b) = <<>> /\ SubSeq(T, b + 1, b) = <<>>
<1>1. b \in Int /\ \A k \in b .. b : T[k] \in X
    OBVIOUS
<1>2. PICK one : one = SubSeq(T, b, b)
    OBVIOUS
<1>3. one \in Seq(X) /\ Len(one) = 1 /\ one[1] = T[b]
  <2>1. /\ SubSeq(T, b, b) \in Seq(X)
        /\ Len(SubSeq(T, b, b)) = IF b <= b THEN b - b + 1 ELSE 0
        /\ \A i \in 1 .. b - b + 1 : SubSeq(T, b, b)[i] = T[b + i - 1]
    BY <1>1, SubSeqProperties
  <2>2. b - b + 1 = 1 /\ b + 1 - 1 = b
    BY <1>1
  <2>3. QED
    BY <1>2, <2>1, <2>2
<1>4. one = <<T[b]>>
    BY <1>1, <1>3
<1>5. b - 1 \in Int /\ b + 1 \in Int /\ b + 2 \in Int
      /\ b - 1 < b /\ b - 1 < b + 1 /\ b < b + 2 /\ b < b + 1
    BY <1>1
<1>6. QED
    BY <1>1, <1>2, <1>4, <1>5, SubSeqEmpty

\* A number of the last character alone is what the whole input gives.
LEMMA LastNumberAgrees ==
    ASSUME NEW T, IsText(T), NEW whole, NEW short, Sizes(T, whole, short), Len(T) > 0,
           NEW i, NEW b, b = Len(T), LastRead(T, b) \in InNumbers,
           Past(T, whole, i, Spaces) = b, NEW pass, pass = LexNumber(T, b)
    PROVE  /\ pass.index = Len(T)
           /\ pass.token = AbortToken \/ EndsWith(T, whole, pass, GetTok(T, whole, i))
<1>1. b \in Nat /\ b > 0 /\ b = Len(T) /\ T \in Seq(LexCharacters \cup {EOF})
    BY DEF IsText
<1>2. T[b] = LastRead(T, b) /\ whole = b
  <2>1. T[b] = LastRead(T, b)
    <3>1. b # 0
      BY <1>1
    <3>2. QED
      BY <3>1 DEF LastRead
  <2>2. QED
    BY <1>1, <2>1, Classes DEF Sizes
<1>3. \A these : ReadWhile(T, b, these) = b
  <2>1. ASSUME NEW these PROVE ReadWhile(T, b, these) = b
    <3>1. ReadWhile(T, b, these) \in b .. b
      BY <1>1, ReadWhileStops
    <3>2. QED
      BY <1>1, <3>1
  <2>2. QED
    BY <2>1
<1>4. Read(T, b) = b
    BY <1>1 DEF Read, IsEmpty
<1>5. SubSeq(T, b, b) = <<T[b]>> /\ SubSeq(T, b, b - 1) = <<>>
      /\ SubSeq(T, b + 1, b - 1) = <<>> /\ SubSeq(T, b + 1, b) = <<>> /\ SubSeq(T, b + 2, b) = <<>>
  <2>1. b \in 1 .. Len(T)
    BY <1>1
  <2>2. QED
    BY <1>1, <2>1, ShortSubSeqs
<1>6. Char(T, whole, b) = LastRead(T, b) /\ Char(T, whole, b + 1) = EOF
    BY <1>1, WhatIsSeen
<1>7. /\ Past(T, whole, b, Digits) = IF LastRead(T, b) \in Digits THEN b + 1 ELSE b
      /\ Past(T, whole, b + 1, Digits) = b + 1
  <2>1. Past(T, whole, b, Digits) = IF LastRead(T, b) \in Digits THEN b + 1 ELSE b
    BY <1>1, <1>3, WholeStops, Classes
  <2>2. b + 1 \in b + 1 .. whole + 1 /\ whole \in Nat /\ b + 1 \in Nat
    BY <1>1, <1>2
  <2>3. \A k \in b + 1 .. (b + 1) - 1 : Char(T, whole, k) \in Digits
    BY <1>1
  <2>4. QED
    BY <1>6, <2>1, <2>2, <2>3, PastIs, Classes
<1>8. /\ b + 1 \in b .. whole + 1 /\ whole \in Nat /\ b + 1 \in Nat
      /\ \A k \in b .. (b + 1) - 1 : Char(T, whole, k) \in InNumbers
      /\ Char(T, whole, b + 1) \notin InNumbers
  <2>1. \A k \in b .. (b + 1) - 1 : k = b
    BY <1>1
  <2>2. QED
    BY <1>1, <1>2, <1>6, <2>1, Classes
<1>9. CASE LastRead(T, b) \in Digits
  <2>1. LastRead(T, b) # "."
    BY <1>9, Classes
  <2>2. pass = [token |-> IF LastRead(T, b) = "0" THEN AbortToken
                          ELSE Number(<<T[b]>>, <<>>), index |-> b]
    BY <1>3, <1>5, <1>9, <2>1 DEF LexNumber
  <2>3. Char(T, whole, b + 1) # "."
    BY <1>6, Classes
  <2>4. GetTok(T, whole, i) = [token |-> Number(SubSeq(T, b, (b + 1) - 1),
                                                SubSeq(T, (b + 1) + 1, (b + 1) - 1)),
                               place |-> b + 1]
    <3>1. Past(T, whole, b, Digits) = b + 1 /\ Char(T, whole, b) \in InNumbers
      BY <1>6, <1>7, <1>9, Classes
    <3>2. PICK next : next = b + 1
      OBVIOUS
    <3>3. next = IF Char(T, whole, next) = "." THEN Past(T, whole, next + 1, Digits) ELSE next
      BY <2>3, <3>2
    <3>4. GetTok(T, whole, i) = [token |-> Number(SubSeq(T, b, next - 1),
                                                  SubSeq(T, next + 1, next - 1)),
                                 place |-> next]
      <4>1. /\ next \in b .. whole + 1 /\ whole \in Nat /\ next \in Nat
            /\ \A k \in b .. next - 1 : Char(T, whole, k) \in InNumbers
            /\ Char(T, whole, next) \notin InNumbers
        BY <1>8, <3>2
      <4>2. b \in Nat /\ Past(T, whole, b, Digits) = next
        BY <1>1, <3>1, <3>2
      <4>3. QED
        BY <3>1, <3>3, <4>1, <4>2, SourceNumberFound
    <3>5. QED
      BY <3>2, <3>4
  <2>5. (b + 1) - 1 = b /\ (b + 1) + 1 = b + 2
    BY <1>1
  <2>6. GetTok(T, whole, i) = [token |-> Number(<<T[b]>>, <<>>), place |-> b + 1]
    BY <1>5, <2>4, <2>5
  <2>7. \A k \in b + 1 .. whole : LastRead(T, k) \in Spaces
    BY <1>1, <1>2
  <2>8. QED
    BY <1>1, <2>2, <2>6, <2>7 DEF EndsWith, Same
<1>10. CASE LastRead(T, b) = "."
  <2>1. LastRead(T, b) \notin Digits /\ LastRead(T, b) # "0"
    BY <1>10, Classes
  <2>2. pass = [token |-> Number(<<>>, <<>>), index |-> b]
    BY <1>3, <1>4, <1>5, <1>10, <2>1 DEF LexNumber
  <2>3. GetTok(T, whole, i) = [token |-> Number(SubSeq(T, b, b - 1),
                                                SubSeq(T, b + 1, (b + 1) - 1)),
                               place |-> b + 1]
    <3>1. Past(T, whole, b, Digits) = b /\ Char(T, whole, b) \in InNumbers
      BY <1>6, <1>7, <1>10, <2>1, Classes
    <3>2. PICK next : next = b + 1
      OBVIOUS
    <3>3. next = IF Char(T, whole, b) = "." THEN Past(T, whole, b + 1, Digits) ELSE b
      BY <1>6, <1>7, <1>10, <3>2
    <3>4. GetTok(T, whole, i) = [token |-> Number(SubSeq(T, b, b - 1),
                                                  SubSeq(T, b + 1, next - 1)),
                                 place |-> next]
      <4>1. /\ next \in b .. whole + 1 /\ whole \in Nat /\ b \in Nat
            /\ \A k \in b .. next - 1 : Char(T, whole, k) \in InNumbers
            /\ Char(T, whole, next) \notin InNumbers
        BY <1>1, <1>8, <3>2
      <4>2. QED
        BY <3>1, <3>3, <4>1, SourceNumberFound
    <3>5. QED
      BY <3>2, <3>4
  <2>4. (b + 1) - 1 = b
    BY <1>1
  <2>5. GetTok(T, whole, i) = [token |-> Number(<<>>, <<>>), place |-> b + 1]
    BY <1>5, <2>3, <2>4
  <2>6. \A k \in b + 1 .. whole : LastRead(T, k) \in Spaces
    BY <1>1, <1>2
  <2>7. QED
    BY <1>1, <2>2, <2>5, <2>6 DEF EndsWith, Same
<1>11. QED
    BY <1>9, <1>10, Classes

\* Any other character is a token of its own.
LEMMA OthersAgree ==
    ASSUME NEW T, IsText(T), NEW whole, NEW short, Sizes(T, whole, short),
           NEW i, NEW b \in 1 .. Len(T), NEW c, c = LastRead(T, b),
           c \notin Spaces \cup Letters \cup InNumbers \cup {"#", EOF},
           Past(T, whole, i, Spaces) = b, Past(T, short, i, Spaces) = b,
           NEW pass, pass = [token |-> Token(c, <<>>), index |-> Read(T, b)]
    PROVE  Agrees(T, whole, short, pass, GetTok(T, whole, i), GetTok(T, short, i))
<1>1. /\ Len(T) \in Nat /\ whole \in Nat /\ short = Len(T) - 1 /\ b \in Nat /\ b >= 1
      /\ b <= Len(T) /\ whole <= Len(T)
    BY WhatIsSeen DEF IsText, Sizes
<1>2. c = T[b] /\ c \in LexCharacters
  <2>1. c = T[b]
    <3>1. b # 0
      BY <1>1
    <3>2. QED
      BY <3>1 DEF LastRead
  <2>2. T[b] \in LexCharacters \cup {EOF}
    BY DEF IsText
  <2>3. QED
    BY <2>1, <2>2
<1>3. Read(T, b) = IF b = Len(T) THEN b ELSE b + 1
    BY DEF Read, IsEmpty
<1>4. GetTok(T, whole, i) = [token |-> Token(c, <<>>), place |-> b + 1]
  <2>1. Char(T, whole, b) = c
    BY <1>1, WhatIsSeen
  <2>2. QED
    BY <2>1, SourceOther
<1>5. CASE b = Len(T)
  <2>1. \A k \in b + 1 .. whole : LastRead(T, k) \in Spaces
    BY <1>1, <1>5
  <2>2. QED
    BY <1>1, <1>3, <1>4, <1>5, <2>1 DEF Agrees, EndsWith, Same
<1>6. CASE b < Len(T)
  <2>1. GetTok(T, short, i) = [token |-> Token(c, <<>>), place |-> b + 1]
    <3>1. Char(T, short, b) = c
      BY <1>1, <1>6, WhatIsSeen
    <3>2. QED
      BY <3>1, SourceOther
  <2>2. pass = [token |-> Token(c, <<>>), index |-> b + 1] /\ b + 1 \in b .. Len(T)
    BY <1>1, <1>3, <1>6
  <2>3. CASE b + 1 = Len(T)
    <3>1. \A k \in b + 1 .. short : LastRead(T, k) \in Spaces
      BY <1>1, <2>3
    <3>2. QED
      BY <1>1, <1>6, <2>1, <2>2, <2>3, <3>1 DEF Agrees, EndsWith, Same
  <2>4. CASE b + 1 < Len(T)
    <3>1. Token(c, <<>>) \notin {NoToken, EofToken}
      BY <1>2, TokensApart DEF Nothing
    <3>2. QED
      BY <1>1, <1>4, <1>6, <2>1, <2>2, <2>4, <3>1 DEF Agrees
  <2>5. QED
    BY <1>1, <1>6, <2>3, <2>4
<1>7. QED
    BY <1>1, <1>5, <1>6

\* The program reads on when it is at one of these.
LEMMA ReadWhileMoves ==
    ASSUME NEW T, Len(T) \in Nat, NEW i \in 0 .. Len(T) - 1, NEW these,
           LastRead(T, i) \in these
    PROVE  ReadWhile(T, i, these) \in i + 1 .. Len(T)
<1>1. PICK e \in i .. Len(T) :
          e = ReadWhile(T, i, these) /\ (e = Len(T) \/ LastRead(T, e) \notin these)
  <2>1. i \in 0 .. Len(T)
    OBVIOUS
  <2>2. QED
    BY <2>1, ReadWhileStops
<1>2. e # i
    BY <1>1
<1>3. QED
    BY <1>1, <1>2

\* Every pass of get_token that has something left reads on, up to the end of the text.
LEMMA PassReadsOn ==
    ASSUME NEW T, IsText(T), NEW i \in 0 .. Len(T) - 1, NEW pass, pass = GetToken(T, i)
    PROVE  pass.index \in i + 1 .. Len(T)
<1>1. Len(T) \in Nat /\ i \in 0 .. Len(T) /\ ~IsEmpty(T, i)
    BY DEF IsText, IsEmpty
<1>2. PICK b \in i .. Len(T) : /\ b = ReadWhile(T, i, Spaces)
                               /\ b = Len(T) \/ LastRead(T, b) \notin Spaces
    BY <1>1, ReadWhileStops
<1>3. PICK c : c = LastRead(T, b)
    OBVIOUS
<1>0. /\ c \in Spaces => pass = [token |-> NoToken, index |-> b]
      /\ c \in Letters => pass = LexWord(T, b)
      /\ c \in InNumbers => pass = LexNumber(T, b)
      /\ c = "#" => pass = LexComment(T, b)
      /\ c = EOF => pass = [token |-> EofToken, index |-> b]
      /\ c \notin Spaces \cup Letters \cup InNumbers \cup {"#", EOF} =>
             pass = [token |-> Token(c, <<>>), index |-> Read(T, b)]
    BY <1>1, <1>2, <1>3, ProgramPass
<1>4. b \in 0 .. Len(T) /\ (b # Len(T) => b \in 0 .. Len(T) - 1)
    BY <1>1, <1>2
<1>5. \A these : ReadWhile(T, b, these) \in b .. Len(T)
  <2>1. ASSUME NEW these PROVE ReadWhile(T, b, these) \in b .. Len(T)
    BY <1>1, <1>4, ReadWhileStops
  <2>2. QED
    BY <2>1
<1>6. \A these : b # Len(T) /\ c \in these => ReadWhile(T, b, these) \in b + 1 .. Len(T)
  <2>1. ASSUME NEW these, b # Len(T), c \in these
        PROVE  ReadWhile(T, b, these) \in b + 1 .. Len(T)
    BY <1>1, <1>3, <1>4, <2>1, ReadWhileMoves
  <2>2. QED
    BY <2>1
<1>7. ASSUME NEW e \in b .. Len(T), b # Len(T) => e > b, e = pass.index
      PROVE  pass.index \in i + 1 .. Len(T)
    BY <1>1, <1>2, <1>7
<1>8. CASE c \in Spaces
  <2>1. pass.index = b /\ b = Len(T)
    BY <1>2, <1>3, <1>0, <1>8
  <2>2. QED
    BY <1>1, <2>1
<1>9. CASE c \in Letters
  <2>1. pass.index = ReadWhile(T, b, AlphaNumeric)
    BY <1>0, <1>9 DEF LexWord
  <2>2. c \in AlphaNumeric
    BY <1>9, Classes
  <2>3. PICK e : e = ReadWhile(T, b, AlphaNumeric)
    OBVIOUS
  <2>4. e \in b .. Len(T) /\ (b # Len(T) => e > b)
    BY <1>4, <1>5, <1>6, <2>2, <2>3
  <2>5. QED
    BY <1>7, <2>1, <2>3, <2>4
<1>10. CASE c \in InNumbers
  <2>1. PICK point : point = ReadWhile(T, b, Digits)
    OBVIOUS
  <2>2. point \in b .. Len(T) /\ (b # Len(T) /\ c \in Digits => point > b)
    BY <1>4, <1>5, <1>6, <2>1
  <2>3. PICK e : e = IF LastRead(T, point) = "." THEN ReadWhile(T, Read(T, point), Digits)
                     ELSE point
    OBVIOUS
  <2>4. pass.index = e
    BY <1>0, <1>10, <2>1, <2>3 DEF LexNumber
  <2>5. CASE LastRead(T, point) = "."
    <3>1. PICK from : from = Read(T, point)
      OBVIOUS
    <3>2. from \in point .. Len(T) /\ (point # Len(T) => from > point)
      BY <1>1, <1>4, <2>2, <3>1 DEF Read, IsEmpty
    <3>3. from \in 0 .. Len(T) /\ e = ReadWhile(T, from, Digits)
      BY <1>1, <1>4, <2>2, <2>3, <2>5, <3>1, <3>2
    <3>4. e \in from .. Len(T)
      BY <1>1, <3>3, ReadWhileStops
    <3>5. e \in b .. Len(T) /\ (b # Len(T) => e > b)
      BY <1>1, <1>4, <2>2, <3>2, <3>4
    <3>6. QED
      BY <1>7, <2>4, <3>5
  <2>6. CASE LastRead(T, point) # "."
    <3>1. e = point
      BY <2>3, <2>6
    <3>2. b # Len(T) => c \in Digits \/ point > b
      BY <1>3, <1>4, <1>10, <2>2, <2>6, Classes
    <3>3. e \in b .. Len(T) /\ (b # Len(T) => e > b)
      BY <2>2, <3>1, <3>2
    <3>4. QED
      BY <1>7, <2>4, <3>3
  <2>7. QED
    BY <2>5, <2>6
<1>11. CASE c = "#"
  <2>1. pass.index = ReadWhile(T, b, InLine)
    BY <1>0, <1>11 DEF LexComment
  <2>2. c \in InLine
    BY <1>11, Classes
  <2>3. PICK e : e = ReadWhile(T, b, InLine)
    OBVIOUS
  <2>4. e \in b .. Len(T) /\ (b # Len(T) => e > b)
    BY <1>4, <1>5, <1>6, <2>2, <2>3
  <2>5. QED
    BY <1>7, <2>1, <2>3, <2>4
<1>12. CASE c = EOF
  <2>1. pass.index = b
    BY <1>0, <1>12
  <2>2. b = Len(T)
    <3>1. ASSUME b # Len(T) PROVE FALSE
      <4>1. b # 0 => b \in 1 .. Len(T) - 1
        BY <1>1, <1>4, <3>1
      <4>2. LastRead(T, 0) # EOF
        BY DEF LastRead, EOF
      <4>3. b # 0 => LastRead(T, b) # EOF
        BY <4>1, ReadIs DEF IsText
      <4>4. QED
        BY <1>3, <1>12, <4>2, <4>3
    <3>2. QED
      BY <3>1
  <2>3. QED
    BY <1>1, <2>1, <2>2
<1>13. CASE c \notin Spaces \cup Letters \cup InNumbers \cup {"#", EOF}
  <2>1. pass.index = Read(T, b)
    BY <1>2, <1>3, <1>0, <1>13
  <2>2. PICK e : e = Read(T, b)
    OBVIOUS
  <2>3. e \in b .. Len(T) /\ (b # Len(T) => e > b)
    BY <1>1, <1>4, <2>2 DEF Read, IsEmpty
  <2>4. QED
    BY <1>7, <2>1, <2>2, <2>3
<1>14. QED
    BY <1>8, <1>9, <1>10, <1>11, <1>12, <1>13

\* A pass of each lexer from the same character: whatever the program's has found, the
\* tutorial's has found on one of its inputs.
LEMMA PassAgrees ==
    ASSUME NEW T, IsText(T), NEW whole, NEW short, Sizes(T, whole, short),
           NEW i \in 0 .. Len(T) - 1, OnePoint(T, whole), NEW pass, pass = GetToken(T, i)
    PROVE  Agrees(T, whole, short, pass, GetTok(T, whole, i), GetTok(T, short, i))
<1>1. /\ Len(T) \in Nat /\ Len(T) > 0 /\ i \in 0 .. Len(T) /\ ~IsEmpty(T, i)
      /\ short = Len(T) - 1
    BY DEF IsText, IsEmpty, Sizes
<1>2. PICK b \in i .. Len(T) : /\ b = ReadWhile(T, i, Spaces)
                               /\ b = Len(T) \/ LastRead(T, b) \notin Spaces
    BY <1>1, ReadWhileStops
<1>3. PICK c : c = LastRead(T, b)
    OBVIOUS
<1>0. /\ c \in Spaces => pass = [token |-> NoToken, index |-> b]
      /\ c \in Letters => pass = LexWord(T, b)
      /\ c \in InNumbers => pass = LexNumber(T, b)
      /\ c = "#" => pass = LexComment(T, b)
      /\ c = EOF => pass = [token |-> EofToken, index |-> b]
      /\ c \notin Spaces \cup Letters \cup InNumbers \cup {"#", EOF} =>
             pass = [token |-> Token(c, <<>>), index |-> Read(T, b)]
    BY <1>1, <1>2, <1>3, ProgramPass
<1>4. Past(T, short, i, Spaces) = b
    BY <1>1, <1>2, ShortStops, Classes
<1>5. c \notin Spaces => Past(T, whole, i, Spaces) = b
    BY <1>1, <1>2, <1>3, WholeStops, Classes
<1>6. c \notin Spaces => b \in 1 .. Len(T)
  <2>1. LastRead(T, 0) \in Spaces
    BY DEF LastRead, Spaces
  <2>2. QED
    BY <1>1, <1>2, <1>3, <2>1
<1>7. Char(T, short, Len(T)) = EOF /\ \A k \in Len(T) .. short : LastRead(T, k) \in Spaces
    BY <1>1, WhatIsSeen
<1>8. CASE c \in Spaces
  <2>1. pass = [token |-> NoToken, index |-> Len(T)] /\ b = Len(T)
    BY <1>2, <1>3, <1>0, <1>8
  <2>2. GetTok(T, short, i) = [token |-> EofToken, place |-> Len(T)]
    BY <1>4, <1>7, <2>1, SourceEof
  <2>3. QED
    BY <1>7, <2>1, <2>2 DEF Agrees, EndsWith, Same, Nothing
<1>9. CASE c \in Letters
  <2>1. c \notin Spaces /\ pass = LexWord(T, b)
    BY <1>0, <1>9, Classes
  <2>2. QED
    BY <1>3, <1>4, <1>5, <1>6, <1>9, <2>1, WordsAgree
<1>10. CASE c \in InNumbers
  <2>1. c \notin Spaces /\ pass = LexNumber(T, b)
    BY <1>0, <1>10, Classes
  <2>2. CASE b < Len(T)
    <3>1. b \in 1 .. Len(T) - 1
      BY <1>1, <1>6, <2>1, <2>2
    <3>2. QED
      BY <1>3, <1>4, <1>5, <1>10, <2>1, <3>1, NumbersAgree
  <2>3. CASE b = Len(T)
    <3>1. /\ pass.index = Len(T)
          /\ pass.token = AbortToken \/ EndsWith(T, whole, pass, GetTok(T, whole, i))
      BY <1>1, <1>3, <1>5, <1>10, <2>1, <2>3, LastNumberAgrees
    <3>2. QED
      BY <3>1 DEF Agrees
  <2>4. QED
    BY <1>1, <1>6, <2>1, <2>2, <2>3
<1>11. CASE c = "#"
  <2>1. c \notin Spaces /\ pass = LexComment(T, b)
    BY <1>0, <1>11, Classes
  <2>2. QED
    BY <1>3, <1>4, <1>5, <1>6, <1>11, <2>1, CommentsAgree
<1>12. CASE c = EOF
  <2>1. c \notin Spaces /\ pass = [token |-> EofToken, index |-> b]
    BY <1>0, <1>12, Classes
  <2>2. b = Len(T)
    <3>1. ASSUME b # Len(T) PROVE FALSE
      <4>1. b \in 1 .. Len(T) - 1 /\ b # 0
        BY <1>1, <1>6, <2>1, <3>1
      <4>2. T[b] # EOF
        BY <4>1 DEF IsText
      <4>3. QED
        BY <1>3, <1>12, <4>1, <4>2 DEF LastRead
    <3>2. QED
      BY <3>1
  <2>3. GetTok(T, short, i) = [token |-> EofToken, place |-> b]
    BY <1>4, <1>7, <2>2, SourceEof
  <2>4. QED
    BY <1>7, <2>1, <2>2, <2>3 DEF Agrees, EndsWith, Same
<1>13. CASE c \notin Spaces \cup Letters \cup InNumbers \cup {"#", EOF}
  <2>1. c \notin Spaces /\ pass = [token |-> Token(c, <<>>), index |-> Read(T, b)]
    BY <1>2, <1>3, <1>0, <1>13
  <2>2. QED
    BY <1>3, <1>4, <1>5, <1>6, <1>13, <2>1, OthersAgree
<1>14. QED
    BY <1>8, <1>9, <1>10, <1>11, <1>12, <1>13

\* Where only spaces are left of an input, gettok answers tok_eof, and again.
LEMMA EndPass ==
    ASSUME NEW T, NEW size \in Nat, NEW place \in 0 .. size + 1,
           \A k \in place .. size : LastRead(T, k) \in Spaces
    PROVE  GetTok(T, size, place) = [token |-> EofToken, place |-> size + 1]
<1>1. \A k \in place .. (size + 1) - 1 : Char(T, size, k) \in Spaces
    BY DEF Char
<1>2. Char(T, size, size + 1) = EOF
    BY DEF Char
<1>3. size + 1 \in place .. size + 1 /\ place \in Nat
    OBVIOUS
<1>4. Past(T, size, place, Spaces) = size + 1
    BY <1>1, <1>2, <1>3, PastIs, Classes
<1>5. QED
    BY <1>2, <1>4, SourceEof

\* gettok stays within its input, or stops directly behind it.
LEMMA SourceStaysWithin ==
    ASSUME NEW T, NEW size \in Nat, NEW place \in 0 .. size + 1
    PROVE  GetTok(T, size, place).place \in 0 .. size + 1
<1>1. PICK b \in place .. size + 1 : b = Past(T, size, place, Spaces)
    BY PastStops, Classes
<1>2. \A these : EOF \notin these => Past(T, size, b, these) \in 0 .. size + 1
  <2>1. ASSUME NEW these, EOF \notin these PROVE Past(T, size, b, these) \in 0 .. size + 1
    <3>1. Past(T, size, b, these) \in b .. size + 1
      BY <1>1, <2>1, PastStops
    <3>2. QED
      BY <1>1, <3>1
  <2>2. QED
    BY <2>1
<1>3. PICK c : c = Char(T, size, b)
    OBVIOUS
<1>4. CASE c \in Letters
    BY <1>1, <1>2, <1>3, <1>4, SourceWord, Classes
<1>5. CASE c \in InNumbers
    BY <1>1, <1>2, <1>3, <1>5, SourceNumber, Classes
<1>6. CASE c = "#"
  <2>1. GetTok(T, size, place).place = Past(T, size, b, InLine)
    <3>1. Past(T, size, place, Spaces) = b /\ Char(T, size, b) = "#"
      BY <1>1, <1>3, <1>6
    <3>2. QED
      BY <3>1, SourceComment
  <2>2. QED
    BY <1>2, <2>1, Classes
<1>7. CASE c = EOF
  <2>1. GetTok(T, size, place).place = b
    <3>1. Past(T, size, place, Spaces) = b /\ Char(T, size, b) = EOF
      BY <1>1, <1>3, <1>7
    <3>2. QED
      BY <3>1, SourceEof
  <2>2. QED
    BY <1>1, <2>1
<1>8. CASE c \notin Letters \cup InNumbers \cup {"#", EOF}
  <2>1. GetTok(T, size, place).place = b + 1
    BY <1>1, <1>3, <1>8, SourceOther
  <2>2. b <= size
    BY <1>1, <1>3, <1>8 DEF Char
  <2>3. QED
    BY <1>1, <2>1, <2>2
<1>9. QED
    BY <1>4, <1>5, <1>6, <1>7, <1>8

\* What has been found is the same after the same was found.
LEMMA SameTaken ==
    ASSUME NEW found, NEW t, NEW u, Same(t, u)
    PROVE  Taken(found, t) = Taken(found, u)
    BY DEF Same, Taken, Nothing

\* The two inputs of the tutorial's lexer.
LEMMA InputSizes ==
    ASSUME text \in Texts
    PROVE  /\ IsText(text) /\ Len(text) \in Nat
           /\ Sizes(text, Size("whole"), Size("short"))
           /\ Size("whole") \in Nat /\ Size("short") \in Nat
           /\ IsTerminated => Size("whole") = Size("short")
<1>1. IsText(text) /\ Len(text) \in Nat
    BY TextsAssumption DEF IsText
<1>2. (text = <<>>) <=> (Len(text) = 0)
    BY <1>1, EmptySeq DEF IsText
<1>3. Sizes(text, Size("whole"), Size("short"))
  <2>1. CASE IsTerminated
    <3>1. Len(text) # 0 /\ text[Len(text)] = EOF
      BY <1>2, <2>1 DEF IsTerminated, Last
    <3>2. Size("whole") = Len(text) - 1 /\ Size("short") = Len(text) - 1
      BY <2>1 DEF Size, IsTerminated
    <3>3. QED
      BY <1>1, <3>1, <3>2 DEF Sizes
  <2>2. CASE ~IsTerminated
    BY <1>1, <1>2, <2>2 DEF Sizes, Size
  <2>3. QED
    BY <2>1, <2>2
<1>4. Size("whole") \in Nat /\ Size("short") \in Nat
    BY <1>1, <1>3, WhatIsSeen
<1>5. IsTerminated => Size("whole") = Size("short")
    BY DEF Size
<1>6. QED
    BY <1>1, <1>3, <1>4, <1>5

\* Nothing has been read at first, so the lexers are in step.
LEMMA LexersInitially == LexersInit => LexersIInv
<1> SUFFICES ASSUME LexersInit PROVE LexersIInv
    OBVIOUS
<1>1. /\ Len(text) \in Nat /\ text \in Texts
      /\ \A x \in Inputs : Size(x) \in Nat
      /\ Sizes(text, Size("whole"), Size("short"))
    BY InputSizes DEF LexersInit, Inputs
<1>2. LexersTypeOK
    BY <1>1 DEF LexersInit, LexersTypeOK
<1>3. OneSource /\ InStep
    BY DEF LexersInit, OneSource, InStep, Inputs
<1>4. AgreesAtTheEnd
  <2>1. CASE Len(text) = 0
    <3>1. Size("whole") = 0
      BY <1>1, <2>1 DEF Sizes
    <3>2. NothingLeft("whole", 0)
      <4>1. LastRead(text, 0) \in Spaces
        BY DEF LastRead, Spaces
      <4>2. \A k \in 0 .. Size("whole") : k = 0
        BY <3>1
      <4>3. QED
        BY <4>1, <4>2 DEF NothingLeft
    <3>3. QED
      BY <3>2 DEF LexersInit, AgreesAtTheEnd, Inputs
  <2>2. CASE Len(text) # 0
    BY <1>1, <2>2 DEF LexersInit, AgreesAtTheEnd
  <2>3. QED
    BY <2>1, <2>2
<1>5. QED
    BY <1>2, <1>3, <1>4 DEF LexersIInv

\* Each step keeps the invariant.
LEMMA LexersStepKeeps == LexersIInv /\ LexersNext => LexersIInv'
<1> SUFFICES ASSUME LexersIInv, LexersNext PROVE LexersIInv'
    OBVIOUS
<1>1. /\ text \in Texts /\ index \in 0 .. Len(text) /\ lexed \in {"no", "eof", "abort"}
      /\ source_place \in [Inputs -> Nat] /\ DOMAIN source_tokens = Inputs
      /\ \A x \in Inputs : source_place[x] <= Size(x) + 1
    BY DEF LexersIInv, LexersTypeOK
<1>2. /\ IsText(text) /\ Len(text) \in Nat
      /\ Sizes(text, Size("whole"), Size("short"))
      /\ \A x \in Inputs : Size(x) \in Nat /\ source_place[x] \in 0 .. Size(x) + 1
    BY <1>1, InputSizes DEF Inputs
<1>3. /\ text' = text /\ \A x \in Inputs : Size(x)' = Size(x)
      /\ IsTerminated' = IsTerminated /\ TwoPoints' = TwoPoints
    BY DEF LexersNext, Size, IsTerminated, TwoPoints
<1>4. \A x \in Inputs :
          /\ source_place'[x] = GetTok(text, Size(x), source_place[x]).place
          /\ source_tokens'[x] =
                 Taken(source_tokens[x], GetTok(text, Size(x), source_place[x]).token)
    BY DEF LexersNext, SourceGetNextToken
<1>5. /\ DOMAIN source_tokens' = Inputs
      /\ source_place' \in [Inputs -> Nat]
      /\ \A x \in Inputs : source_place'[x] <= Size(x) + 1
  <2>1. ASSUME NEW x \in Inputs
        PROVE  GetTok(text, Size(x), source_place[x]).place \in 0 .. Size(x) + 1
    BY <1>2, SourceStaysWithin
  <2>2. ASSUME NEW x \in Inputs
        PROVE  source_place'[x] \in Nat /\ source_place'[x] <= Size(x) + 1
    BY <1>2, <1>4, <2>1
  <2>3. /\ source_place' = [x \in Inputs |-> source_place'[x]]
        /\ DOMAIN source_tokens' = Inputs
    BY DEF LexersNext, SourceGetNextToken
  <2>4. QED
    BY <2>2, <2>3
<1>6. OneSource'
  <2>1. IsTerminated => Size("whole") = Size("short")
    BY <1>1, InputSizes
  <2>2. OneSource /\ "whole" \in Inputs /\ "short" \in Inputs
    BY DEF LexersIInv, Inputs
  <2>3. QED
    BY <1>3, <1>4, <2>1, <2>2 DEF OneSource
<1>7. PICK pass : pass = GetToken(text, index)
    OBVIOUS
<1>8. lexed = "no" =>
          /\ index' = pass.index /\ tokens' = Taken(tokens, pass.token)
          /\ lexed' = CASE pass.token \in {NoToken, EofToken} -> "eof"
                        [] pass.token = AbortToken -> "abort"
                        [] OTHER -> "no"
    BY <1>7 DEF LexersNext, GetNextToken, Lex
<1>9. lexed # "no" => index' = index /\ tokens' = tokens /\ lexed' = lexed
    BY DEF LexersNext, GetNextToken, lexerVars
<1>10. /\ pass.token \in {NoToken, EofToken} => pass.token # AbortToken
       /\ lexed = "no" => /\ pass.token = AbortToken => lexed' = "abort"
                          /\ pass.token \in {NoToken, EofToken} => lexed' = "eof"
                          /\ pass.token \notin {NoToken, EofToken, AbortToken} => lexed' = "no"
                          /\ lexed' \in {"no", "eof", "abort"}
    BY <1>8, TokensApart DEF Nothing
<1>11. index = Len(text) => pass = [token |-> NoToken, index |-> index]
  <2>1. ASSUME index = Len(text) PROVE ReadWhile(text, index, Spaces) = index
    <3>1. ReadWhile(text, index, Spaces) \in index .. Len(text)
      BY <1>1, <1>2, ReadWhileStops
    <3>2. QED
      BY <1>1, <1>2, <2>1, <3>1
  <2>2. QED
    BY <1>7, <2>1 DEF GetToken, IsEmpty
<1>12. index < Len(text) => pass.index \in index + 1 .. Len(text)
  <2>1. index < Len(text) => index \in 0 .. Len(text) - 1
    BY <1>1, <1>2
  <2>2. QED
    BY <1>2, <1>7, <2>1, PassReadsOn
<1>13. LexersTypeOK'
  <2>1. index' \in 0 .. Len(text)
    <3>1. CASE lexed # "no"
      BY <1>1, <1>9, <3>1
    <3>2. CASE lexed = "no" /\ index = Len(text)
      BY <1>1, <1>8, <1>11, <3>2
    <3>3. CASE lexed = "no" /\ index < Len(text)
      BY <1>1, <1>2, <1>8, <1>12, <3>3
    <3>4. QED
      BY <1>1, <1>2, <3>1, <3>2, <3>3
  <2>2. lexed' \in {"no", "eof", "abort"}
    BY <1>1, <1>9, <1>10
  <2>3. QED
    BY <1>1, <1>3, <1>5, <2>1, <2>2 DEF LexersTypeOK
<1>14. ASSUME NEW x \in Inputs, NothingLeft(x, source_place[x])
       PROVE  source_tokens'[x] = source_tokens[x] /\ NothingLeft(x, source_place[x])'
  <2>1. GetTok(text, Size(x), source_place[x]) = [token |-> EofToken, place |-> Size(x) + 1]
    <3>1. Size(x) \in Nat /\ source_place[x] \in 0 .. Size(x) + 1
      BY <1>2
    <3>2. \A k \in source_place[x] .. Size(x) : LastRead(text, k) \in Spaces
      BY <1>14 DEF NothingLeft
    <3>3. QED
      BY <3>1, <3>2, EndPass
  <2>2. source_place'[x] = Size(x) + 1 /\ source_tokens'[x] = Taken(source_tokens[x], EofToken)
    BY <1>4, <2>1
  <2>3. \A k \in source_place'[x] .. Size(x) : LastRead(text, k) \in Spaces
    BY <1>2, <2>2
  <2>4. NothingLeft(x, source_place[x])'
    BY <1>3, <2>3 DEF NothingLeft
  <2>5. QED
    BY <2>2, <2>4 DEF Taken
<1>15. CASE TwoPoints
    BY <1>3, <1>6, <1>13, <1>15 DEF LexersIInv
<1>16. ASSUME ~TwoPoints, AgreesAtTheEnd, lexed # "no" PROVE InStep' /\ AgreesAtTheEnd'
  <2>1. InStep'
    BY <1>9, <1>16 DEF InStep
  <2>2. CASE lexed = "abort"
    BY <1>9, <2>1, <2>2 DEF AgreesAtTheEnd
  <2>3. CASE lexed # "abort"
    <3>1. PICK x \in Inputs : source_tokens[x] = tokens /\ NothingLeft(x, source_place[x])
      BY <1>16, <2>3 DEF AgreesAtTheEnd
    <3>2. source_tokens'[x] = tokens' /\ NothingLeft(x, source_place[x])'
      BY <1>9, <1>14, <1>16, <3>1
    <3>3. QED
      BY <2>1, <3>2 DEF AgreesAtTheEnd
  <2>4. QED
    BY <2>2, <2>3
<1>17. ASSUME ~TwoPoints, AgreesAtTheEnd, lexed = "no", index = Len(text)
       PROVE  InStep' /\ AgreesAtTheEnd'
  <2>1. lexed' = "eof" /\ tokens' = tokens
    BY <1>8, <1>10, <1>11, <1>17 DEF Taken
  <2>2. PICK x \in Inputs : source_tokens[x] = tokens /\ NothingLeft(x, source_place[x])
    BY <1>2, <1>17 DEF AgreesAtTheEnd
  <2>3. source_tokens'[x] = tokens' /\ NothingLeft(x, source_place[x])'
    BY <1>14, <2>1, <2>2
  <2>4. QED
    BY <2>1, <2>3 DEF InStep, AgreesAtTheEnd
<1>18. ASSUME ~TwoPoints, InStep, lexed = "no", index < Len(text)
       PROVE  InStep' /\ AgreesAtTheEnd'
  <2> DEFINE found(x) == GetTok(text, Size(x), index)
  <2>1. \A x \in Inputs : source_place[x] = index /\ source_tokens[x] = tokens
    BY <1>18 DEF InStep
  <2>2. \A x \in Inputs : /\ source_place'[x] = found(x).place
                          /\ source_tokens'[x] = Taken(tokens, found(x).token)
    BY <1>4, <2>1
  <2>3. Agrees(text, Size("whole"), Size("short"), pass, found("whole"), found("short"))
    <3>1. index \in 0 .. Len(text) - 1
      BY <1>1, <1>2, <1>18
    <3>2. OnePoint(text, Size("whole"))
      BY <1>18 DEF OnePoint, TwoPoints
    <3>3. QED
      BY <1>2, <1>7, <3>1, <3>2, PassAgrees
  <2> HIDE DEF found
  <2>4. CASE pass.token = AbortToken
    BY <1>8, <1>10, <1>18, <2>4 DEF InStep, AgreesAtTheEnd
  <2>5. CASE /\ pass.token # AbortToken
             /\ pass.index < Len(text) /\ pass.token \notin {NoToken, EofToken}
             /\ found("whole") = [token |-> pass.token, place |-> pass.index]
             /\ found("short") = [token |-> pass.token, place |-> pass.index]
    <3>1. lexed' = "no" /\ index' < Len(text')
      BY <1>3, <1>8, <1>10, <1>18, <2>5
    <3>2. \A x \in Inputs : source_place'[x] = index' /\ source_tokens'[x] = tokens'
      BY <1>8, <1>18, <2>2, <2>5 DEF Inputs
    <3>3. QED
      BY <3>1, <3>2 DEF InStep, AgreesAtTheEnd
  <2>6. ASSUME NEW x \in Inputs, pass.index = Len(text),
               EndsWith(text, Size(x), pass, found(x))
        PROVE  InStep' /\ AgreesAtTheEnd'
    <3>1. ~(index' < Len(text)')
      BY <1>2, <1>3, <1>8, <1>18, <2>6
    <3>2. source_tokens'[x] = tokens'
      BY <1>8, <1>18, <2>2, <2>6, SameTaken DEF EndsWith
    <3>3. \A k \in source_place'[x] .. Size(x) : LastRead(text, k) \in Spaces
      BY <2>2, <2>6 DEF EndsWith
    <3>4. NothingLeft(x, source_place[x])'
      BY <1>3, <3>3 DEF NothingLeft
    <3>5. QED
      BY <3>1, <3>2, <3>4 DEF InStep, AgreesAtTheEnd
  <2>7. QED
    BY <2>3, <2>4, <2>5, <2>6 DEF Agrees, Inputs
<1>19. QED
    BY <1>1, <1>2, <1>3, <1>6, <1>13, <1>15, <1>16, <1>17, <1>18 DEF LexersIInv

\* The two lexers stay in step up to the end of the text, whatever the text.
THEOREM LexersStayInStep == LexersSpec => []LexersIInv
<1>1. ASSUME LexersIInv, UNCHANGED lexersVars PROVE LexersIInv'
  <2>1. /\ text' = text /\ index' = index /\ tokens' = tokens /\ lexed' = lexed
        /\ source_place' = source_place /\ source_tokens' = source_tokens
    BY <1>1 DEF lexersVars, lexerVars, sourceLexerVars
  <2>2. QED
    BY <1>1, <2>1 DEF LexersIInv, LexersTypeOK, OneSource, InStep, AgreesAtTheEnd, NothingLeft,
                      TwoPoints, IsTerminated, Size
<1>2. LexersIInv /\ [LexersNext]_lexersVars => LexersIInv'
    BY <1>1, LexersStepKeeps
<1>3. QED
    BY <1>2, LexersInitially, PTL DEF LexersSpec

\* On every text with its EOF character the program's lexer finds the tutorial's tokens,
\* but for numbers that start with a zero or have two points.
THEOREM LexersAgreeHolds == LexersSpec => []LexersAgree
<1>1. LexersIInv => LexersAgree
    BY DEF LexersIInv, LexersAgree, AgreesAtTheEnd, AllLexed, OneSource, Inputs
<1>2. QED
    BY <1>1, LexersStayInStep, PTL

\* On every other text it loses at most the last character, with the same exceptions.
THEOREM OnlyTheLastCharacterIsLostHolds == LexersSpec => []OnlyTheLastCharacterIsLost
<1>1. LexersIInv => OnlyTheLastCharacterIsLost
    BY DEF LexersIInv, OnlyTheLastCharacterIsLost, AgreesAtTheEnd, AllLexed
<1>2. QED
    BY <1>1, LexersStayInStep, PTL

\* Every pass of get_token ends the program's reading or reads on, so that there are no
\* more passes than characters.
THEOREM EveryPassReadsOn ==
    LexersSpec => [][lexed = "no" => lexed' # "no" \/ index' > index]_lexersVars
<1>1. ASSUME LexersIInv, LexersNext, lexed = "no" PROVE lexed' # "no" \/ index' > index
  <2>1. text \in Texts /\ index \in 0 .. Len(text)
    BY <1>1 DEF LexersIInv, LexersTypeOK
  <2>2. IsText(text) /\ Len(text) \in Nat
    BY <2>1, InputSizes
  <2>3. PICK pass : pass = GetToken(text, index)
    OBVIOUS
  <2>4. /\ index' = pass.index
        /\ pass.token \in {NoToken, EofToken} => lexed' = "eof"
    BY <1>1, <2>3, TokensApart DEF LexersNext, GetNextToken, Lex, Nothing
  <2>5. CASE index = Len(text)
    <3>1. pass.token = NoToken
      BY <2>3, <2>5 DEF GetToken, IsEmpty
    <3>2. QED
      BY <2>4, <3>1
  <2>6. CASE index \in 0 .. Len(text) - 1
    <3>1. pass.index \in index + 1 .. Len(text)
      BY <2>2, <2>3, <2>6, PassReadsOn
    <3>2. QED
      BY <2>1, <2>2, <2>4, <3>1
  <2>7. QED
    BY <2>1, <2>2, <2>5, <2>6
<1>2. LexersIInv /\ [LexersNext]_lexersVars =>
          [lexed = "no" => lexed' # "no" \/ index' > index]_lexersVars
    BY <1>1
<1>3. QED
    BY <1>2, LexersStayInStep, PTL DEF LexersSpec
=============================================================================
