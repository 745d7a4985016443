------------------------ MODULE KaleidoscopeParser ------------------------
(***************************************************************************)
(* kaleidoscope/parser.hpp: recursive descent over the tokens the lexer    *)
(* hands out one at a time.                                                *)
(*                                                                         *)
(* rest is current_token() and everything get_next_token() will return     *)
(* after it, which the parser cannot influence.  A parse function takes    *)
(* the tokens left and gives its tree, None for an empty one, with the     *)
(* tokens left then.  Every failing branch stops before the token it does  *)
(* not expect.                                                             *)
(***************************************************************************)
EXTENDS Integers, Sequences, SequencesExt, KaleidoscopeLexer, KaleidoscopeTrees

VARIABLES rest,      \* the tokens from the current one on
          parsed     \* the trees main_loop has reported as parsed, in order

parserVars == <<rest, parsed>>

\* Behind the last token get_next_token answers eof for ever.
Current(tokens) == IF tokens = <<>> THEN "eof" ELSE Head(tokens).kind
GetNext(tokens) == IF tokens = <<>> THEN tokens ELSE Tail(tokens)

-----------------------------------------------------------------------------
(* Expressions *)

Precedence ==
    [op \in {"<", "+", "-", "*"} |->
        CASE op = "<" -> 10 [] op = "+" -> 20 [] op = "-" -> 30 [] op = "*" -> 40]

GetTokenPrecedence(tokens) ==
    IF Current(tokens) \in DOMAIN Precedence THEN Precedence[Current(tokens)] ELSE -1

RECURSIVE Expression(_), BinaryOperationRhs(_, _, _), Primary(_), Arguments(_, _)

ParenthesisExpression(tokens) ==
    With(Expression(GetNext(tokens)), LAMBDA inner :
        IF inner.tree # None /\ Current(inner.rest) = ")"
        THEN Parsed(inner.tree, GetNext(inner.rest))
        ELSE Failed(inner.rest))

\* Parsed arguments, with the closing parenthesis still to be eaten.
Arguments(tokens, args) ==
    With(Expression(tokens), LAMBDA arg :
        IF arg.tree = None \/ Current(arg.rest) \notin {")", ","} THEN Failed(arg.rest)
        ELSE IF Current(arg.rest) = ")" THEN Parsed(Append(args, arg.tree), arg.rest)
        ELSE Arguments(GetNext(arg.rest), Append(args, arg.tree)))

\* Variant: the closing parenthesis of a call is not eaten.
IdentifierExpressionOpen(tokens) ==
    LET identifier == Head(tokens).value
        opened == GetNext(tokens)
        begin == GetNext(opened)
    IN  IF Current(opened) # "(" THEN Parsed(Variable(identifier), opened)
        ELSE With(IF Current(begin) = ")" THEN Parsed(<<>>, begin) ELSE Arguments(begin, <<>>),
                  LAMBDA args : IF args.tree = None THEN args
                                ELSE Parsed(Call(identifier, args.tree), args.rest))

IdentifierExpression(tokens) ==
    LET identifier == Head(tokens).value
        opened == GetNext(tokens)
        begin == GetNext(opened)
    IN  IF Current(opened) # "(" THEN Parsed(Variable(identifier), opened)
        ELSE With(IF Current(begin) = ")" THEN Parsed(<<>>, begin) ELSE Arguments(begin, <<>>),
                  LAMBDA args : IF args.tree = None THEN args
                                ELSE Parsed(Call(identifier, args.tree), GetNext(args.rest)))

Primary(tokens) ==
    CASE Current(tokens) = "identifier" -> IdentifierExpression(tokens)
      [] Current(tokens) = "number"     -> Parsed(NumberOf(Head(tokens).value), GetNext(tokens))
      [] Current(tokens) = "("          -> ParenthesisExpression(tokens)
      [] OTHER                          -> Failed(tokens)

\* Variant: an operator that binds as tightly as the one before it also takes the
\* operand between them.
BinaryOperationRhsToTheRight(precedence, lhs, tokens) ==
    LET bound == GetTokenPrecedence(tokens)
        Rhs(operand) == IF operand.tree # None /\ bound <= GetTokenPrecedence(operand.rest)
                        THEN BinaryOperationRhs(bound, operand.tree, operand.rest)
                        ELSE operand
    IN  IF bound < precedence THEN Parsed(lhs, tokens)
        ELSE With(With(Primary(GetNext(tokens)), Rhs), LAMBDA rhs :
                 IF rhs.tree = None THEN rhs
                 ELSE BinaryOperationRhs(precedence, Binary(Current(tokens), lhs, rhs.tree),
                                         rhs.rest))

\* Every operator with a precedence has a binary_operator, so the error "unknown
\* binary operator" cannot occur.
BinaryOperationRhs(precedence, lhs, tokens) ==
    LET bound == GetTokenPrecedence(tokens)
        Rhs(operand) == IF operand.tree # None /\ bound < GetTokenPrecedence(operand.rest)
                        THEN BinaryOperationRhs(bound + 1, operand.tree, operand.rest)
                        ELSE operand
    IN  IF bound < precedence THEN Parsed(lhs, tokens)
        ELSE With(With(Primary(GetNext(tokens)), Rhs), LAMBDA rhs :
                 IF rhs.tree = None THEN rhs
                 ELSE BinaryOperationRhs(precedence, Binary(Current(tokens), lhs, rhs.tree),
                                         rhs.rest))

Expression(tokens) ==
    With(Primary(tokens), LAMBDA lhs :
        IF lhs.tree = None THEN lhs ELSE BinaryOperationRhs(0, lhs.tree, lhs.rest))

-----------------------------------------------------------------------------
(* Definitions *)

\* Arguments of a prototype are separated by nothing.
ParsePrototype(tokens) ==
    LET opened == GetNext(tokens)
        begin == GetNext(opened)
        count == SelectInSeq(Append(begin, EofToken), LAMBDA t : t.kind # "identifier") - 1
        closed == SubSeq(begin, count + 1, Len(begin))
    IN  IF Current(tokens) # "identifier" THEN Failed(tokens)
        ELSE IF Current(opened) # "(" THEN Failed(opened)
        ELSE IF Current(closed) # ")" THEN Failed(closed)
        ELSE Parsed(Prototype(Head(tokens).value, Values(SubSeq(begin, 1, count))),
                    GetNext(closed))

ParseDefinition(tokens) ==
    With(ParsePrototype(GetNext(tokens)), LAMBDA proto :
        IF proto.tree = None THEN proto
        ELSE With(Expression(proto.rest), LAMBDA body :
                 IF body.tree = None THEN body
                 ELSE Parsed(Function(proto.tree, body.tree), body.rest)))

ParseExtern(tokens) == ParsePrototype(GetNext(tokens))

ParseTopLevelExpression(tokens) ==
    With(Expression(tokens), LAMBDA body :
        IF body.tree = None THEN body ELSE Parsed(Function(Anonymous, body.tree), body.rest))

-----------------------------------------------------------------------------
(* main_loop *)

\* The lexer aborts the program when it meets a number it does not lex.
Aborted == Current(rest) = "abort"
Ended == rest = <<>> \/ Aborted

\* Variant: after a failure the parser goes on with the token it failed at.
HandleWithoutSkipping(result) ==
    /\ rest' = result.rest
    /\ parsed' = IF result.tree = None \/ Current(result.rest) = "abort" THEN parsed
                 ELSE Append(parsed, result.tree)

\* A failure is reported and one token skipped.  A parse function that reads up to
\* the number that aborts reports nothing.
Handle(result) ==
    /\ rest' = IF result.tree = None /\ Current(result.rest) # "abort"
               THEN GetNext(result.rest) ELSE result.rest
    /\ parsed' = IF result.tree = None \/ Current(result.rest) = "abort" THEN parsed
                 ELSE Append(parsed, result.tree)

SkipSemicolon ==
    /\ Current(rest) = ";"
    /\ rest' = GetNext(rest)
    /\ UNCHANGED parsed

HandleDefinition ==
    /\ Current(rest) = "def"
    /\ \E result \in {ParseDefinition(rest)} : Handle(result)

HandleExtern ==
    /\ Current(rest) = "extern"
    /\ \E result \in {ParseExtern(rest)} : Handle(result)

HandleTopLevelExpression ==
    /\ ~Ended
    /\ Current(rest) \notin {";", "def", "extern"}
    /\ \E result \in {ParseTopLevelExpression(rest)} : Handle(result)

ParserStep ==
    \/ SkipSemicolon \/ HandleDefinition \/ HandleExtern \/ HandleTopLevelExpression
=============================================================================
