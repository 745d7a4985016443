------------------------- MODULE KaleidoscopeLexer -------------------------
(***************************************************************************)
(* kaleidoscope::lexer on a buffer_reader (apps/create_language).          *)
(*                                                                         *)
(* A text is a sequence of characters.  A character stands for its class:  *)
(* one letter for all, "def" and "extern" for letters that spell a keyword *)
(* when they stand alone, two digits of which one is zero.  Numbers are    *)
(* exact here: the digits before and after the point.                      *)
(*                                                                         *)
(* The lexer's state is the index_ of its reader: last_ is the character   *)
(* read last.  Loops are written by the index they stop at, and a call     *)
(* that get_token makes of itself is another pass.                         *)
(***************************************************************************)
EXTENDS Integers, Sequences, SequencesExt, FiniteSetsExt

Letters == {"a", "def", "extern"}
Digits == {"0", "1"}
AlphaNumeric == Letters \cup Digits
InNumbers == Digits \cup {"."}
Spaces == {" ", "\n"}
\* The map symbols.  Any other character is unknown, such as ";".
Symbols == {"(", ")", ",", "<", "+", "-", "*"}
LexCharacters == AlphaNumeric \cup Spaces \cup Symbols \cup {".", "#", ";"}
InLine == LexCharacters \ {"\n"}
EOF == "EOF"     \* static_cast<char>(EOF), behind the text

Token(kind, value) == [kind |-> kind, value |-> value]
EofToken == Token("eof", <<>>)
\* lex_number asserts that the first digit is not zero: the program ends here.
AbortToken == Token("abort", <<>>)

\* A number without the zeros that do not count.
Number(digits, fraction) ==
    LET significant == SelectInSeq(digits, LAMBDA d : d # "0")
        last == SelectLastInSeq(fraction, LAMBDA d : d # "0")
    IN  Token("number",
              << IF significant = 0 THEN <<>> ELSE SubSeq(digits, significant, Len(digits)),
                 SubSeq(fraction, 1, last) >>)

Word(letters) ==
    CASE letters = <<"def">>    -> Token("def", <<>>)
      [] letters = <<"extern">> -> Token("extern", <<>>)
      [] OTHER                  -> Token("identifier", letters)

-----------------------------------------------------------------------------
(* buffer_reader *)

\* Variant: the last character does not count.
IsEmptyEarly(text, index) == index + 1 >= Len(text)

IsEmpty(text, index) == index = Len(text)

\* read: at the end of the text nothing changes.
Read(text, index) == IF IsEmpty(text, index) THEN index ELSE index + 1

\* last_, which read alone changes: the space it starts with, then what was read.
LastRead(text, index) == IF index = 0 THEN " " ELSE text[index]

\* Reading on while last_ is in these and something is left to read.
ReadWhile(text, index, these) ==
    Min({i \in index .. Len(text) : IsEmpty(text, i) \/ LastRead(text, i) \notin these})

-----------------------------------------------------------------------------
(* get_token *)

NoToken == Token("none", <<>>)
\* Not a token: behind a comment get_token calls itself.
CommentToken == Token("comment", <<>>)

\* Letters and digits: the loop ends behind them, or with the last of them read when
\* that is the end of the text.
LexWord(text, index) ==
    LET next == ReadWhile(text, index, AlphaNumeric)
        end == IF LastRead(text, next) \in AlphaNumeric THEN next ELSE next - 1
    IN  [token |-> Word(SubSeq(text, index, end)), index |-> next]

\* while (!reader.empty() && isdigit(last)): a digit that is read but has nothing behind
\* it is not taken, unless it is the first.
LexNumber(text, index) ==
    LET point == ReadWhile(text, index, Digits)
        digits == IF point = index /\ LastRead(text, index) \in Digits THEN <<text[index]>>
                  ELSE SubSeq(text, index, point - 1)
        next == IF LastRead(text, point) = "." THEN ReadWhile(text, Read(text, point), Digits)
                ELSE point
    IN  [token |-> IF LastRead(text, index) = "0" THEN AbortToken
                   ELSE Number(digits, SubSeq(text, point + 1, next - 1)),
         index |-> next]

\* Variant: a comment is not followed by another token.
LexCommentNoMore(text, index) ==
    [token |-> NoToken, index |-> ReadWhile(text, index, InLine)]

\* A comment goes up to the next line.
LexComment(text, index) ==
    LET next == ReadWhile(text, index, InLine)
    IN  [token |-> IF LastRead(text, next) = EOF THEN EofToken ELSE CommentToken,
         index |-> next]

\* One pass of get_token.  Whether anything is left is asked before last_ is looked
\* at, which may hold a character that no token has been made of.
GetToken(text, index) ==
    LET begun == ReadWhile(text, index, Spaces)
        char == LastRead(text, begun)
    IN  IF IsEmpty(text, index) \/ char \in Spaces
        THEN [token |-> NoToken, index |-> begun]
        ELSE CASE char \in Letters -> LexWord(text, begun)
               [] char \in InNumbers -> LexNumber(text, begun)
               [] char = "#" -> LexComment(text, begun)
               [] char = EOF -> [token |-> EofToken, index |-> begun]
               [] OTHER -> [token |-> Token(char, <<>>), index |-> Read(text, begun)]
=============================================================================
