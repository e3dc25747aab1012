------------------------------- MODULE Syntax -------------------------------
(***************************************************************************)
(* The syntax tree (src/include/ast.h, src/src/ast/ast.c): records with a  *)
(* kind k.  Line numbers are left out.                                     *)
(***************************************************************************)
EXTENDS Sequences

NoNode == [k |-> "none"]                       \* a NULL expression or statement

\* Types: a kind, and the name of a named class; NoType is a NULL TypeInfo.
Type(kind) == [kind |-> kind, name |-> ""]
ClassType(name) == [kind |-> "class", name |-> name]
NoType == Type("null")

\* Expressions
Num(n)          == [k |-> "num", n |-> n]
Bool(b)         == [k |-> "bool", b |-> b]
Text(s)         == [k |-> "text", s |-> s]     \* a literal part of a string
Interpolated(parts)   == [k |-> "str", parts |-> parts]
Str(s)          == Interpolated(<<Text(s)>>)
Id(x)           == [k |-> "id", id |-> x]
Bin(op, l, r)   == [k |-> "bin", op |-> op, l |-> l, r |-> r]
Un(op, e)       == [k |-> "un", op |-> op, e |-> e]
Within(e, lo, hi) == [k |-> "between", e |-> e, lo |-> lo, hi |-> hi]
Cond(c, t, f)   == [k |-> "tern", c |-> c, t |-> t, f |-> f]
ListLit(items)  == [k |-> "list", items |-> items]
DataLit(es)     == [k |-> "data", entries |-> es]
FunLit(ps, ret, body) == [k |-> "fun", params |-> ps, ret |-> ret, body |-> body]
AwaitE(e)       == [k |-> "await", e |-> e]
Dot(obj, name)  == [k |-> "member", obj |-> obj, name |-> name]
At(obj, idx)    == [k |-> "index", obj |-> obj, idx |-> idx]
AssignE(op, t, e) == [k |-> "assign", op |-> op, target |-> t, e |-> e]
CallE(f, args)  == [k |-> "call", callee |-> f, args |-> args]
New(name, args) == [k |-> "new", name |-> name, args |-> args]

\* Statements; e is the expression a statement evaluates first.
Var(name, type, e)   == [k |-> "var", name |-> name, type |-> type, e |-> e, fixed |-> FALSE]
Fixed(name, type, e) == [k |-> "var", name |-> name, type |-> type, e |-> e, fixed |-> TRUE]
Do(e)                == [k |-> "expr", e |-> e]
If(e, body, elifs, els) == [k |-> "if", e |-> e, body |-> body, elifs |-> elifs, els |-> els]
Loop(c, body)        == [k |-> "while", e |-> NoNode, c |-> c, body |-> body]
DoLoop(body, c)      == [k |-> "do", e |-> NoNode, c |-> c, body |-> body]
For(x, iter, c, body) == [k |-> "for", e |-> NoNode, var |-> x, iter |-> iter, c |-> c, body |-> body]
Each(iter, x, body)  == [k |-> "iterate", e |-> NoNode, var |-> x, iter |-> iter, c |-> NoNode, body |-> body]
Fun(name, ps, ret, body) ==
  [k |-> "fundecl", e |-> NoNode, name |-> name, params |-> ps, ret |-> ret, body |-> body]
Return(e)            == [k |-> "return", e |-> e]
Block(stmts)         == [k |-> "block", e |-> NoNode, stmts |-> stmts]
Class(name, parent, members) ==
  [k |-> "class", e |-> NoNode, name |-> name, parent |-> parent, members |-> members]
Try(body, err, handler) == [k |-> "try", e |-> NoNode, body |-> body, err |-> err, handler |-> handler]
Decl(k, name)        == [k |-> k, e |-> NoNode, name |-> name]   \* enum, struct, import, export
=============================================================================
