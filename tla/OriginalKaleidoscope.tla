----------------------- MODULE OriginalKaleidoscope -----------------------
(***************************************************************************)
(* create_language/include/kaleidoscope/original: the tutorial's parser,   *)
(* which the program's own was written after, on the tokens of its lexer.  *)
(*                                                                         *)
(* A parse function takes the tokens left and gives its result, None for   *)
(* nullptr, with the tokens left then.  Code generation is left out.       *)
(***************************************************************************)
EXTENDS Integers, Sequences, KaleidoscopeLexer, KaleidoscopeTrees

VARIABLES source_rest,     \* tokens from CurTok on
          source_parsed    \* what MainLoop has reported as parsed

sourceVars == <<source_rest, source_parsed>>

-----------------------------------------------------------------------------
(* The parser *)

CurTok(rest) == IF rest = <<>> THEN "eof" ELSE Head(rest).kind
\* getNextToken: behind the last token there is always another eof.
Next1(rest) == IF rest = <<>> THEN rest ELSE Tail(rest)

\* BinopPrecedence and GetTokPrecendence.
TokPrecedence(rest) ==
    CASE CurTok(rest) = "<" -> 10
      [] CurTok(rest) = "+" -> 20
      [] CurTok(rest) = "-" -> 30
      [] CurTok(rest) = "*" -> 40
      [] OTHER -> -1

\* BinaryExprAST: RHS is initialised with what is left of LHS, and is lost.
SourceBinary(op, lhs, rhs) == Binary(op, lhs, None)

RECURSIVE ParseExpression(_), ParseBinOpRHS(_, _, _), ParsePrimary(_), ParseArgs(_, _)

ParseParenExpr(rest) ==
    With(ParseExpression(Next1(rest)), LAMBDA V :
        IF V.tree # None /\ CurTok(V.rest) = ")" THEN Parsed(V.tree, Next1(V.rest))
        ELSE Failed(V.rest))

\* The loop over the arguments of a call, up to the closing parenthesis.
ParseArgs(rest, args) ==
    With(ParseExpression(rest), LAMBDA Arg :
        CASE Arg.tree = None -> Failed(Arg.rest)
          [] Arg.tree # None /\ CurTok(Arg.rest) = ")" ->
                Parsed(Append(args, Arg.tree), Arg.rest)
          [] Arg.tree # None /\ CurTok(Arg.rest) = "," ->
                ParseArgs(Next1(Arg.rest), Append(args, Arg.tree))
          [] OTHER -> Failed(Arg.rest))

ParseIdentifierExpr(rest) ==
    LET IdName == Head(rest).value
        after == Next1(rest)
        Args == IF CurTok(Next1(after)) = ")" THEN Parsed(<<>>, Next1(after))
                ELSE ParseArgs(Next1(after), <<>>)
    IN  IF CurTok(after) # "(" THEN Parsed(Variable(IdName), after)
        ELSE With(Args, LAMBDA call :
                 IF call.tree = None THEN Failed(call.rest)
                 ELSE Parsed(Call(IdName, call.tree), Next1(call.rest)))

ParsePrimary(rest) ==
    CASE CurTok(rest) = "identifier" -> ParseIdentifierExpr(rest)
      [] CurTok(rest) = "number" -> Parsed(NumberOf(Head(rest).value), Next1(rest))
      [] CurTok(rest) = "(" -> ParseParenExpr(rest)
      [] OTHER -> Failed(rest)

ParseBinOpRHS(ExprPrec, LHS, rest) ==
    LET TokPrec == TokPrecedence(rest)
        Climb(RHS) == IF RHS.tree # None /\ TokPrec < TokPrecedence(RHS.rest)
                      THEN ParseBinOpRHS(TokPrec + 1, RHS.tree, RHS.rest) ELSE RHS
    IN  IF TokPrec < ExprPrec THEN Parsed(LHS, rest)
        ELSE With(With(ParsePrimary(Next1(rest)), Climb), LAMBDA RHS :
                 IF RHS.tree = None THEN Failed(RHS.rest)
                 ELSE ParseBinOpRHS(ExprPrec, SourceBinary(CurTok(rest), LHS, RHS.tree),
                                    RHS.rest))

ParseExpression(rest) ==
    With(ParsePrimary(rest), LAMBDA LHS :
        IF LHS.tree = None THEN LHS ELSE ParseBinOpRHS(0, LHS.tree, LHS.rest))

SourcePrototype(rest) ==
    LET opened == Next1(rest)
        args == Next1(opened)
        closed == SelectInSeq(args, LAMBDA t : t.kind # "identifier")
        end == IF closed = 0 THEN <<>> ELSE SubSeq(args, closed, Len(args))
        names == SubSeq(args, 1, Len(args) - Len(end))
    IN  CASE CurTok(rest) # "identifier" -> Failed(rest)
          [] CurTok(rest) = "identifier" /\ CurTok(opened) # "(" -> Failed(opened)
          [] CurTok(rest) = "identifier" /\ CurTok(opened) = "(" /\ CurTok(end) # ")" ->
                Failed(end)
          [] OTHER -> Parsed(Prototype(Head(rest).value, Values(names)), Next1(end))

SourceDefinition(rest) ==
    With(SourcePrototype(Next1(rest)), LAMBDA Proto :
        IF Proto.tree = None THEN Proto
        ELSE With(ParseExpression(Proto.rest), LAMBDA E :
                 IF E.tree = None THEN E ELSE Parsed(Function(Proto.tree, E.tree), E.rest)))

SourceExtern(rest) == SourcePrototype(Next1(rest))

ParseTopLevelExpr(rest) ==
    With(ParseExpression(rest), LAMBDA E :
        IF E.tree = None THEN E ELSE Parsed(Function(Anonymous, E.tree), E.rest))

-----------------------------------------------------------------------------
(* MainLoop *)

\* A failure is not reported; one token is skipped.
SourceHandle(result) ==
    /\ source_rest' = IF result.tree = None THEN Next1(result.rest) ELSE result.rest
    /\ source_parsed' = IF result.tree = None THEN source_parsed
                        ELSE Append(source_parsed, result.tree)

SourceSkipSemicolon ==
    /\ CurTok(source_rest) = ";"
    /\ source_rest' = Next1(source_rest)
    /\ UNCHANGED source_parsed

SourceHandleDefinition ==
    /\ CurTok(source_rest) = "def"
    /\ \E result \in {SourceDefinition(source_rest)} : SourceHandle(result)

SourceHandleExtern ==
    /\ CurTok(source_rest) = "extern"
    /\ \E result \in {SourceExtern(source_rest)} : SourceHandle(result)

SourceHandleTopLevelExpression ==
    /\ CurTok(source_rest) \notin {"eof", ";", "def", "extern"}
    /\ \E result \in {ParseTopLevelExpr(source_rest)} : SourceHandle(result)

SourceStep ==
    \/ SourceSkipSemicolon \/ SourceHandleDefinition \/ SourceHandleExtern
    \/ SourceHandleTopLevelExpression
=============================================================================
