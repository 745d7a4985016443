--------------------------- MODULE Kaleidoscope ---------------------------
(***************************************************************************)
(* create_language: the program's lexer and parser and the tutorial's,     *)
(* which it keeps beside them, reading the same text.                      *)
(*                                                                         *)
(* A parser cannot influence what its lexer finds, so the lexers are done  *)
(* with the text before the parsers start.                                 *)
(***************************************************************************)
EXTENDS KaleidoscopeLexers, KaleidoscopeParser, OriginalKaleidoscope

CONSTANT Chains     \* operators that stand between the numbers of an expression

kaleidoscopeVars == <<lexersVars, parserVars, sourceVars>>

\* The text of one expression: a number, and after each operator another one.  No
\* two are written the same.
Operand(i) == [j \in 1 .. i |-> "1"]
RECURSIVE Written(_)
Written(ops) ==
    IF ops = <<>> THEN Operand(1)
    ELSE Written(Front(ops)) \o <<" ", Last(ops), " ">> \o Operand(Len(ops) + 1)

Init ==
    /\ LexersInit
    /\ rest = <<>> /\ parsed = <<>>
    /\ source_rest = <<>> /\ source_parsed = <<>>

\* What the lexers find lies before the parsers.
LexersStep ==
    /\ LexersNext
    /\ rest' = tokens' /\ source_rest' = source_tokens'["whole"]
    /\ UNCHANGED <<parsed, source_parsed>>

\* The two programs share nothing; the order of their steps does not matter.
Parse ==
    /\ AllLexed
    /\ \/ ParserStep /\ UNCHANGED <<lexersVars, sourceVars>>
       \/ Ended /\ SourceStep /\ UNCHANGED <<lexersVars, parserVars>>

Next == LexersStep \/ Parse

Spec == Init /\ [][Next]_kaleidoscopeVars /\ WF_kaleidoscopeVars(Parse)

-----------------------------------------------------------------------------
(* Properties *)

\* A tree with what the tutorial's BinaryExprAST loses taken away.
RECURSIVE WithoutRhs(_)
WithoutRhs(tree) ==
    CASE tree.node \in DOMAIN Precedence ->
            SourceBinary(tree.node, WithoutRhs(tree.children[1]), None)
      [] tree.node \in {"call", "function"} ->
            [tree EXCEPT !.children = [i \in DOMAIN tree.children |->
                                           WithoutRhs(tree.children[i])]]
      [] OTHER -> tree

\* When both parsers have read the same tokens to the end they have reported the same
\* definitions, prototypes and expressions in the same order, but for the operands
\* the tutorial's tree loses.
ReadingsAgree ==
    AllLexed /\ rest = <<>> /\ source_rest = <<>> /\ tokens = source_tokens["whole"] =>
        [i \in DOMAIN parsed |-> WithoutRhs(parsed[i])] = source_parsed

\* The tree of an expression by the table of precedences: its last operator of the
\* lowest precedence is the root.
RECURSIVE ChainTree(_, _)
ChainTree(ops, first) ==
    LET last == CHOOSE i \in DOMAIN ops :
                   \A j \in DOMAIN ops :
                       \/ Precedence[ops[i]] < Precedence[ops[j]]
                       \/ Precedence[ops[i]] = Precedence[ops[j]] /\ j <= i
    IN  IF ops = <<>> THEN NumberOf(Number(Operand(first), <<>>).value)
        ELSE Binary(ops[last], ChainTree(SubSeq(ops, 1, last - 1), first),
                    ChainTree(SubSeq(ops, last + 1, Len(ops)), first + last))

\* Climbing precedences gives an expression of numbers and operators the tree that
\* the table says, with operators of one precedence to the left.
TreeFollowsPrecedence ==
    LET ops == SelectSeq(text, LAMBDA c : c \in DOMAIN Precedence)
    IN  AllLexed /\ rest = <<>> /\ ops \in Chains /\ text = Append(Written(ops), EOF) =>
            parsed = <<Function(Anonymous, ChainTree(ops, 1))>>

\* Whatever the text, main_loop comes to the end of it or aborts on the way: every
\* round takes a token, also where nothing could be parsed.
MainLoopEnds == AllLexed ~> Ended
=============================================================================
