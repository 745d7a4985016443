----------------------------- MODULE TextEditor -----------------------------
(***************************************************************************)
(* apps/text_editor: the program processes a key, shows the document, and  *)
(* asks the terminal for the position of the cursor.  The answer comes     *)
(* back through the standard input, like the keys, and after whatever the  *)
(* user has typed meanwhile.  Setting the mode of the terminal (tcsetattr  *)
(* with TCSAFLUSH) discards what has not been read.                        *)
(*                                                                         *)
(* What is written on the screen is left out: a call that writes succeeds, *)
(* or fails and ends the program.  The numbers of an answer are one item,  *)
(* which a user can type too.                                              *)
(***************************************************************************)
EXTENDS Integers, Sequences, SequencesExt

CONSTANTS Keys,       \* what the user types
          MaxKeys,    \* how many of them, before raw mode is set and after it
          BufSize     \* of the buffer for an answer, without the final zero

VARIABLES
    document, edit_mode, keep_running,
    buf,           \* what has been read of an answer
    doing,         \* where run() is
    raw_mode,      \* whether the terminal is in raw mode
    stdin,         \* what has not been read: each key with its number, 0 in an answer
    asked,         \* whether the terminal still has to answer
    typed,         \* history: the keys of the user since raw mode was last set, or the start
    meant          \* history: what they make of an editor, from none of them on

history == <<typed, meant>>
editorVars == <<document, edit_mode, keep_running, buf, doing, raw_mode, stdin, asked, history>>

Answer == <<"escape", "[", "numbers", "R">>
Ends == {"success", "failure"}

Editor == [document |-> document, edit_mode |-> edit_mode, keep_running |-> keep_running]

EditorInit ==
    /\ document = <<>> /\ edit_mode = TRUE /\ keep_running = TRUE
    /\ buf = <<>>
    /\ doing = "start"
    /\ raw_mode = FALSE
    /\ stdin = <<>> /\ asked = FALSE
    /\ typed = <<>> /\ meant = <<Editor>>

-----------------------------------------------------------------------------
\* process_key, on a state of the editor.
ProcessKey(editor, key) ==
    IF editor.edit_mode THEN
        CASE key = "delete" -> [editor EXCEPT !.document = IF @ = <<>> THEN @ ELSE Front(@)]
          [] key = "escape" -> [editor EXCEPT !.edit_mode = FALSE]
          [] OTHER -> [editor EXCEPT !.document = Append(@, key)]
    ELSE [editor EXCEPT !.keep_running = @ /\ key # "q", !.edit_mode = (key = "e")]

Proceed(from, to) == doing = from /\ doing' = to

\* What the user has typed before is discarded, and never means anything.
EnableRawMode ==
    /\ Proceed("start", "read")
    /\ raw_mode' = TRUE
    /\ stdin' = <<>>
    /\ typed' = <<>> /\ meant' = <<Editor>>
    /\ UNCHANGED <<document, edit_mode, keep_running, buf, asked>>

ReadKey ==
    /\ Proceed("read", "show")
    /\ stdin # <<>>
    /\ \E editor \in {ProcessKey(Editor, Head(stdin).key)} :
          /\ document' = editor.document
          /\ edit_mode' = editor.edit_mode
          /\ keep_running' = editor.keep_running
    /\ stdin' = Tail(stdin)
    /\ UNCHANGED <<buf, raw_mode, asked, history>>

\* The document is shown and the position asked for.
AskPosition ==
    /\ keep_running
    /\ Proceed("show", "position")
    /\ buf' = <<>>
    /\ asked' = TRUE
    /\ UNCHANGED <<document, edit_mode, keep_running, raw_mode, stdin, history>>

\* Variant: what stands before the numbers is not looked at.
AcceptedByNumbers(answer) == Len(answer) > 3 /\ answer[3].key = "numbers"

\* ESC, [, and two numbers, with anything between them and the R.
Accepted(answer) ==
    Len(answer) > 3 /\ \A i \in 1 .. 3 : answer[i].key = Answer[i]

ReadPosition ==
    /\ doing = "position"
    /\ stdin # <<>>
    /\ buf' = Append(buf, Head(stdin))
    /\ stdin' = Tail(stdin)
    /\ doing' = CASE Head(stdin).key = "R" -> IF Accepted(buf') THEN "report" ELSE "failure"
                  [] OTHER -> IF Len(buf') < BufSize THEN "position" ELSE "failure"
    /\ UNCHANGED <<document, edit_mode, keep_running, raw_mode, asked, history>>

\* The position and, in view mode, the menu are shown.
Report ==
    /\ Proceed("report", "read")
    /\ UNCHANGED <<document, edit_mode, keep_running, buf, raw_mode, stdin, asked, history>>

DisableRawMode ==
    /\ ~keep_running
    /\ Proceed("show", "success")
    /\ raw_mode' = FALSE
    /\ stdin' = <<>>
    /\ UNCHANGED <<document, edit_mode, keep_running, buf, asked, history>>

\* A call fails: run returns false and leaves the terminal as it is.  When no key can be
\* read it returns EXIT_FAILURE, which is true.
CallFails ==
    /\ doing \notin Ends
    /\ doing' = IF doing = "read" THEN "success" ELSE "failure"
    /\ UNCHANGED <<document, edit_mode, keep_running, buf, raw_mode, stdin, asked, history>>

EditorStep ==
    \/ EnableRawMode \/ ReadKey \/ AskPosition \/ ReadPosition \/ Report \/ DisableRawMode
    \/ CallFails

-----------------------------------------------------------------------------
(* The terminal and the user *)

AnswerRequest ==
    /\ asked /\ doing \notin Ends
    /\ asked' = FALSE
    /\ stdin' = stdin \o [i \in DOMAIN Answer |-> [key |-> Answer[i], nr |-> 0]]
    /\ UNCHANGED <<document, edit_mode, keep_running, buf, doing, raw_mode, history>>

TypeKey(key) ==
    /\ Len(typed) < MaxKeys /\ doing \notin Ends
    /\ typed' = Append(typed, key)
    /\ meant' = Append(meant, ProcessKey(Last(meant), key))
    /\ stdin' = Append(stdin, [key |-> key, nr |-> Len(typed')])
    /\ UNCHANGED <<document, edit_mode, keep_running, buf, doing, raw_mode, asked>>

EditorNext == EditorStep \/ AnswerRequest \/ \E key \in Keys : TypeKey(key)

EditorSpec == EditorInit /\ [][EditorNext]_editorVars

-----------------------------------------------------------------------------
(* Properties *)

\* The user has typed what an answer begins with.
LooksLikeAnswer ==
    \E i \in 0 .. Len(typed) - 3 : \A j \in 1 .. 3 : typed[i + j] = Answer[j]

\* The keys typed and not processed yet.
Unread ==
    {item.nr : item \in Range(stdin) \cup (IF doing = "position" THEN Range(buf) ELSE {})} \ {0}

\* While the program runs, the document and the mode are what the keys typed in raw mode make
\* of them, up to those still to be read: no key is swallowed with an answer, and no part of
\* an answer is taken for a key, unless the user types what looks like an answer (run and
\* get_cursor_position).  What was typed before raw mode was set is discarded
\* (enable_raw_mode) and has no effect.
KeysInOrder ==
    doing \notin Ends /\ ~LooksLikeAnswer =>
        Editor = meant[Len(typed) - Cardinality(Unread) + 1]

-----------------------------------------------------------------------------
(* The inductive invariant *)

Characters == Keys \cup Range(Answer)
Item == [key : Characters, nr : Nat]
Editors == [document : Seq(Characters), edit_mode : BOOLEAN, keep_running : BOOLEAN]
Modes == {"start", "read", "show", "position", "report"} \cup Ends

EditorTypeOK ==
    /\ Editor \in Editors
    /\ typed \in Seq(Keys)
    /\ meant \in Seq(Editors) /\ Len(meant) = Len(typed) + 1
    /\ buf \in Seq(Item) /\ stdin \in Seq(Item)
    /\ doing \in Modes
    /\ raw_mode \in BOOLEAN /\ asked \in BOOLEAN

Typed(i) == [key |-> typed[i], nr |-> i]

\* The i-th item that comes when n keys are processed and an answer stands behind m keys.
Expected(n, m, i) ==
    CASE i <= m - n -> Typed(n + i)
      [] i > m - n /\ i <= m - n + Len(Answer) -> [key |-> Answer[i - (m - n)], nr |-> 0]
      [] OTHER -> Typed(n + i - Len(Answer))

\* n keys are processed, and the others are still to come, with at most one answer among
\* them, of which get_cursor_position may have read a part.
Processed(n) ==
    /\ Editor = meant[n + 1]
    /\ doing # "position" =>
          /\ ~asked
          /\ Len(stdin) = Len(typed) - n
          /\ \A i \in DOMAIN stdin : stdin[i] = Typed(n + i)
    /\ doing = "position" =>
          /\ \A i \in DOMAIN buf : buf[i].key # "R"
          /\ Len(buf) + Len(stdin) = Len(typed) - n + (IF asked THEN 0 ELSE Len(Answer))
          /\ \E m \in n .. Len(typed) :
                /\ asked => m = Len(typed)
                /\ \A i \in DOMAIN buf : buf[i] = Expected(n, m, i)
                /\ \A i \in DOMAIN stdin : stdin[i] = Expected(n, m, Len(buf) + i)

EditorIInv ==
    /\ EditorTypeOK
    /\ doing = "start" => ~asked
    /\ \A i \in DOMAIN typed : meant[i + 1] = ProcessKey(meant[i], typed[i])
    /\ doing \notin Ends /\ ~LooksLikeAnswer => \E n \in 0 .. Len(typed) : Processed(n)
=============================================================================
