--------------------------- MODULE OriginalLexer ---------------------------
(***************************************************************************)
(* create_language/include/kaleidoscope/original/lexer.hpp: the tutorial's *)
(* lexer, which the program's own was written after.  gettok reads         *)
(* standard input, where nothing follows the last character.               *)
(*                                                                         *)
(* The input is what a text has up to a place size.  The lexer's state is  *)
(* the place of LastChar: 0 for the space it starts with, and any place    *)
(* behind the input for EOF.                                               *)
(***************************************************************************)
EXTENDS KaleidoscopeLexer

Char(text, size, place) == IF place > size THEN EOF ELSE LastRead(text, place)

\* The first place from there on whose character is not in these.
Past(text, size, place, these) ==
    Min({i \in place .. size + 1 : Char(text, size, i) \notin these})

\* strtod of digits and points: it stops at a second point.
NumVal(text, size, place) ==
    LET point == Past(text, size, place, Digits)
        end == IF Char(text, size, point) = "." THEN Past(text, size, point + 1, Digits)
               ELSE point
    IN  Number(SubSeq(text, place, point - 1), SubSeq(text, point + 1, end - 1))

\* One pass of gettok, which calls itself behind a comment.
GetTok(text, size, place) ==
    LET begun == Past(text, size, place, Spaces)
        char == Char(text, size, begun)
        word == Past(text, size, begun, AlphaNumeric)
        number == Past(text, size, begun, InNumbers)
        line == Past(text, size, begun, InLine)
    IN  CASE char \in Letters ->
                [token |-> Word(SubSeq(text, begun, word - 1)), place |-> word]
          [] char \in InNumbers ->
                [token |-> NumVal(text, size, begun), place |-> number]
          [] char = "#" ->
                [token |-> IF Char(text, size, line) = EOF THEN EofToken ELSE CommentToken,
                 place |-> line]
          [] char = EOF -> [token |-> EofToken, place |-> begun]
          [] OTHER -> [token |-> Token(char, <<>>), place |-> begun + 1]
=============================================================================
