------------------------- MODULE KaleidoscopeLexers -------------------------
(***************************************************************************)
(* create_language: the program's lexer and the tutorial's on one text.    *)
(*                                                                         *)
(* The program's reader is given a string, at whose end main puts an EOF   *)
(* character or not; the tutorial's reads what stands before the EOF, and  *)
(* once more the text without its last character.  The readers share       *)
(* nothing, so in which order they make their passes does not matter; here *)
(* each makes one a step.                                                  *)
(***************************************************************************)
EXTENDS OriginalLexer

CONSTANT Texts     \* what the readers may be given

\* An EOF character stands only at the end of a text.
ASSUME TextsAssumption ==
    \A t \in Texts : /\ t \in Seq(LexCharacters \cup {EOF})
                     /\ \A i \in 1 .. Len(t) - 1 : t[i] # EOF

Inputs == {"whole", "short"}

VARIABLES text,
          index, tokens, lexed,                           \* the program
          source_place, source_tokens, source_lexed       \* the tutorial, for each input

lexerVars == <<index, tokens, lexed>>
sourceLexerVars == <<source_place, source_tokens, source_lexed>>
lexersVars == <<text, lexerVars, sourceLexerVars>>

IsTerminated == text # <<>> /\ Last(text) = EOF
\* How much of the text an input has.
Size(x) ==
    IF text # <<>> /\ (x = "short" \/ IsTerminated) THEN Len(text) - 1 ELSE Len(text)

Taken(found, token) ==
    IF token \in {NoToken, EofToken, CommentToken} THEN found ELSE Append(found, token)

\* lexed: "eof" when get_next_token has answered eof, "abort" when lex_number has
\* ended the program.
LexersInit ==
    /\ text \in Texts
    /\ index = 0
    /\ tokens = <<>>
    /\ lexed = "no"
    /\ source_place = [x \in Inputs |-> 0]
    /\ source_tokens = [x \in Inputs |-> <<>>]
    /\ source_lexed = [x \in Inputs |-> FALSE]

AllLexed == lexed # "no" /\ \A x \in Inputs : source_lexed[x]

Lex(next) ==
    /\ index' = next.index
    /\ tokens' = Taken(tokens, next.token)
    /\ lexed' = CASE next.token \in {NoToken, EofToken} -> "eof"
                  [] next.token = AbortToken -> "abort"
                  [] OTHER -> "no"

GetNextToken ==
    \/ lexed = "no" /\ \E next \in {GetToken(text, index)} : Lex(next)
    \/ lexed # "no" /\ UNCHANGED lexerVars

\* gettok does not eat the EOF: behind the last token it answers tok_eof for ever.
SourceGetNextToken ==
    \E next \in {[x \in Inputs |-> GetTok(text, Size(x), source_place[x])]} :
        /\ source_place' = [x \in Inputs |-> next[x].place]
        /\ source_tokens' = [x \in Inputs |-> Taken(source_tokens[x], next[x].token)]
        /\ source_lexed' = [x \in Inputs |-> next[x].token = EofToken]

LexersNext == ~AllLexed /\ GetNextToken /\ SourceGetNextToken /\ UNCHANGED text

LexersSpec == LexersInit /\ [][LexersNext]_lexersVars

-----------------------------------------------------------------------------
(* Properties *)

TwoPoints ==
    \E i, j \in 1 .. Size("whole") :
        /\ i < j /\ text[i] = "." /\ text[j] = "."
        /\ \A k \in i .. j : text[k] \in InNumbers

\* On a text with its EOF character the program's lexer finds the tutorial's tokens,
\* unless a number starts with a zero, where it aborts, or has two points.
LexersAgree ==
    AllLexed /\ IsTerminated /\ ~TwoPoints =>
        tokens = source_tokens["whole"] \/ lexed = "abort"

\* On a text without one, as main's second sample, the program loses at most the
\* last character: get_token asks whether the reader is empty before it looks at
\* the character it has already read, and so does lex_number.  Here, too, texts with a
\* number of two points are left out, and those at which the program aborts, on a number
\* that starts with a zero.
OnlyTheLastCharacterIsLost ==
    AllLexed /\ ~IsTerminated /\ ~TwoPoints =>
        (\E x \in Inputs : tokens = source_tokens[x]) \/ lexed = "abort"

-----------------------------------------------------------------------------
(* The inductive invariant *)

LexersTypeOK ==
    /\ text \in Texts
    /\ index \in 0 .. Len(text)
    /\ lexed \in {"no", "eof", "abort"}
    /\ source_place \in [Inputs -> Nat]
    /\ \A x \in Inputs : source_place[x] <= Size(x) + 1
    /\ DOMAIN source_tokens = Inputs

\* A text with its EOF character has one source.
OneSource ==
    IsTerminated => /\ source_place["whole"] = source_place["short"]
                    /\ source_tokens["whole"] = source_tokens["short"]

\* As long as the program has something to read, its lexer and the tutorial's are at
\* the same character of their inputs and have found the same tokens.
InStep ==
    lexed = "no" /\ index < Len(text) =>
        \A x \in Inputs : source_place[x] = index /\ source_tokens[x] = tokens

\* Only spaces are left.
NothingLeft(x, place) ==
    \A i \in place .. Size(x) : LastRead(text, i) \in Spaces

\* From then on one of the inputs has the program's tokens and no others.
AgreesAtTheEnd ==
    \/ lexed = "no" /\ index < Len(text)
    \/ lexed = "abort"
    \/ \E x \in Inputs : source_tokens[x] = tokens /\ NothingLeft(x, source_place[x])

LexersIInv == LexersTypeOK /\ OneSource /\ (TwoPoints \/ (InStep /\ AgreesAtTheEnd))
=============================================================================
