------------------------- MODULE KaleidoscopeTrees -------------------------
(***************************************************************************)
(* kaleidoscope::ast, and what a parse function gives back: a tree or None *)
(* (std::monostate, nullptr) with the tokens that are left.                *)
(***************************************************************************)
EXTENDS Sequences

Tree(node, name, children) == [node |-> node, name |-> name, children |-> children]

None == Tree("none", <<>>, <<>>)
NumberOf(value) == Tree("number", value, <<>>)
Variable(name) == Tree("variable", name, <<>>)
Binary(op, lhs, rhs) == Tree(op, <<>>, <<lhs, rhs>>)
Call(callee, args) == Tree("call", callee, args)
Prototype(name, args) == Tree("prototype", name, args)
Function(proto, body) == Tree("function", <<>>, <<proto, body>>)
\* The prototype of a top-level expression.
Anonymous == Prototype(<<>>, <<>>)

\* body with result standing for a value that is computed once.  In an action TLC
\* computes a LET definition again wherever it is used, at every level of a parse.
With(value, body(_)) == CHOOSE r \in {body(result) : result \in {value}} : TRUE

Parsed(tree, rest) == [tree |-> tree, rest |-> rest]
Failed(rest) == Parsed(None, rest)

Values(tokens) == [i \in DOMAIN tokens |-> tokens[i].value]
=============================================================================
