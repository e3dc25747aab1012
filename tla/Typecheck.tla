----------------------------- MODULE Typecheck -----------------------------
(***************************************************************************)
(* The type checker (src/src/typecheck/typecheck.c) over the trees of      *)
(* Syntax.  A scope chain is one sequence of symbols, newest last: nothing *)
(* ever changes a symbol, so pushing a scope is going on from the outer    *)
(* sequence and leaving it is going back to it.  Checks give the sequence  *)
(* of errors reported; statements also give the scope they leave.          *)
(***************************************************************************)
EXTENDS Integers, Sequences, FiniteSetsExt, Syntax

RECURSIVE infer_type(_, _, _), check_expr(_, _, _), check_stmt(_, _, _), check_block(_, _, _)

Sym(name, fixed, type) == [name |-> name, fixed |-> fixed, type |-> type, params |-> <<>>]
NoSym == Sym("", FALSE, NoType)

\* Faulty variant: the oldest symbol of a name wins.
OldestFound(scope, name) ==
  LET hit == {i \in DOMAIN scope : scope[i].name = name}
  IN IF hit = {} THEN NoSym ELSE scope[Min(hit)]

\* The symbol a name means: its newest.
scope_find(scope, name) ==
  LET hit == {i \in DOMAIN scope : scope[i].name = name}
  IN IF hit = {} THEN NoSym ELSE scope[Max(hit)]

\* The newest class of a name, by position; 0 if there is none.
find_class(tc, name) ==
  LET hit == {i \in DOMAIN tc.classes : tc.classes[i].name = name}
  IN IF hit = {} THEN 0 ELSE Max(hit)

\* The method of a class or of its nearest ancestor; NoNode if none.
RECURSIVE find_class_member(_, _, _)
find_class_member(tc, c, name) ==
  IF c = 0 THEN NoNode
  ELSE LET ms == tc.classes[c].members
           hit == {i \in DOMAIN ms : ms[i].k = "fundecl" /\ ms[i].name = name}
       IN IF hit = {} THEN find_class_member(tc, tc.classes[c].parent, name) ELSE ms[Min(hit)]

type_family(kind) ==
  CASE kind \in {"num", "decimal", "scifi"} -> "num"
    [] kind \in {"list", "MixedList", "vector", "matrix"} -> "list"
    [] OTHER -> kind

types_conflict(declared, actual) ==
  /\ {declared.kind, actual.kind} \cap {"null", "unknown", "void"} = {}
  /\ IF declared.kind = "class" /\ actual.kind = "class" THEN declared.name # actual.name
     ELSE /\ "class" \notin {declared.kind, actual.kind}
          /\ type_family(declared.kind) # type_family(actual.kind)

Known(t) == t.kind # "null"

\* Arguments against parameters, by position, as far as both go.
check_call_args(tc, params, args, scope) ==
  LET n == Min({Len(params), Len(args)})
      bad == {i \in 1..n : types_conflict(params[i].type, infer_type(tc, args[i], scope))}
  IN [i \in 1..Cardinality(bad) |-> "argument type"]

\* The method a call names, when the object's type is a known class.
Method(tc, callee, scope) ==
  LET t == infer_type(tc, callee.obj, scope)
  IN IF t.kind # "class" THEN NoNode ELSE find_class_member(tc, find_class(tc, t.name), callee.name)

infer_type(tc, e, scope) ==
  CASE e.k = "num"  -> Type("num")
    [] e.k \in {"bool", "between"} -> Type("bool")
    [] e.k = "str"  -> Type("string")
    [] e.k \in {"list", "data"} -> Type(e.k)
    [] e.k = "id"   -> scope_find(scope, e.id).type
    [] e.k = "tern" -> LET a == infer_type(tc, e.t, scope) b == infer_type(tc, e.f, scope)
                       IN IF Known(a) /\ Known(b) /\ ~types_conflict(a, b) THEN a ELSE NoType
    [] e.k = "bin"  ->
         LET l == infer_type(tc, e.l, scope) r == infer_type(tc, e.r, scope)
         IN CASE e.op \in {">", "<", ">=", "<=", "==", "!=", "&&", "||"} -> Type("bool")
              [] e.op = "+" /\ "string" \in {l.kind, r.kind} -> Type("string")
              [] e.op = "/" -> Type("decimal")
              [] OTHER -> IF Known(l) THEN l ELSE r
    [] e.k = "new"  -> IF find_class(tc, e.name) = 0 THEN NoType ELSE ClassType(e.name)
    [] e.k = "call" /\ e.callee.k = "id" ->
         LET sym == scope_find(scope, e.callee.id) IN IF sym.params = <<>> THEN NoType ELSE sym.type
    [] e.k = "call" /\ e.callee.k = "member" ->
         LET m == Method(tc, e.callee, scope) IN IF m = NoNode THEN NoType ELSE m.ret
    [] OTHER -> NoType

RECURSIVE check_expr_list(_, _, _)
check_expr_list(tc, es, scope) ==
  IF es = <<>> THEN <<>> ELSE check_expr(tc, Head(es), scope) \o check_expr_list(tc, Tail(es), scope)

ParamSyms(params) == [i \in DOMAIN params |-> Sym(params[i].name, FALSE, params[i].type)]

\* A function's body, under its parameters and its own return type.
Body(tc, f, scope) ==
  check_block([tc EXCEPT !.ret = f.ret], f.body.stmts, scope \o ParamSyms(f.params))

\* An assignment to a name against the symbol the scope has for it.
CheckTarget(tc, e, scope) ==
  LET sym == scope_find(scope, e.target.id)
  IN IF e.target.k # "id" THEN <<>>
     ELSE (IF sym.fixed THEN <<"fixed reassigned">> ELSE <<>>)
       \o (IF types_conflict(sym.type, infer_type(tc, e.e, scope)) THEN <<"assigned type">> ELSE <<>>)

CheckNew(tc, e, scope) ==
  LET c == find_class(tc, e.name)
      ctor == find_class_member(tc, c, "constructor")
  IN IF c = 0 THEN <<"unknown class">>
     ELSE IF ctor = NoNode THEN <<>> ELSE check_call_args(tc, ctor.params, e.args, scope)

CheckCallee(tc, e, scope) ==
  LET m == Method(tc, e.callee, scope)
  IN CASE e.callee.k = "id" -> check_call_args(tc, scope_find(scope, e.callee.id).params, e.args, scope)
       [] e.callee.k = "member" ->
            check_expr(tc, e.callee.obj, scope)
              \o (IF e.callee.obj = Id("live") /\ e.callee.name = "deg" /\ Len(e.args) < 2
                    THEN <<"live.deg arity">> ELSE <<>>)
              \o (IF m = NoNode THEN <<>> ELSE check_call_args(tc, m.params, e.args, scope))
       [] OTHER -> check_expr(tc, e.callee, scope)

check_expr(tc, e, scope) ==
  LET All(es) == check_expr_list(tc, es, scope)
  IN CASE e.k = "str"  -> All(e.parts)
       [] e.k = "bin"  -> All(<<e.l, e.r>>)
       [] e.k \in {"un", "await"} -> All(<<e.e>>)
       [] e.k = "tern" -> All(<<e.c, e.t, e.f>>)
       [] e.k = "between" -> All(<<e.e, e.lo, e.hi>>)
       [] e.k = "list" -> All(e.items)
       [] e.k = "data" -> All([i \in DOMAIN e.entries |-> e.entries[i].e])
       [] e.k = "fun"  -> Body(tc, e, scope)
       [] e.k = "member" -> All(<<e.obj>>)
       [] e.k = "index"  -> All(<<e.obj, e.idx>>)
       [] e.k = "assign" -> CheckTarget(tc, e, scope) \o All(<<e.target, e.e>>)
       [] e.k = "new"    -> CheckNew(tc, e, scope) \o All(e.args)
       [] e.k = "call"   -> All(e.args) \o CheckCallee(tc, e, scope)
       [] OTHER -> <<>>

-----------------------------------------------------------------------------
\* Function signatures of a block, known before its first statement.
RECURSIVE HoistSigs(_)
HoistSigs(list) ==
  IF list = <<>> THEN <<>>
  ELSE (IF Head(list).k # "fundecl" THEN <<>>
        ELSE <<[Sym(Head(list).name, TRUE, Head(list).ret) EXCEPT !.params = Head(list).params]>>)
       \o HoistSigs(Tail(list))

RECURSIVE CheckList(_, _, _)
CheckList(tc, list, scope) ==
  IF list = <<>> THEN <<>>
  ELSE LET r == check_stmt(tc, Head(list), scope) IN r.errs \o CheckList(tc, Tail(list), r.scope)

check_block(tc, list, scope) == CheckList(tc, list, scope \o HoistSigs(list))

RECURSIVE CheckElifs(_, _, _)
CheckElifs(tc, elifs, scope) ==
  IF elifs = <<>> THEN <<>>
  ELSE check_expr(tc, Head(elifs).c, scope) \o check_stmt(tc, Head(elifs).body, scope).errs
       \o CheckElifs(tc, Tail(elifs), scope)

check_stmt(tc, s, scope) ==
  LET Ex(e) == IF e = NoNode THEN <<>> ELSE check_expr(tc, e, scope)
      In(e, sc) == IF e = NoNode THEN <<>> ELSE check_expr(tc, e, sc)
      St(b, sc) == IF b = NoNode THEN <<>> ELSE check_stmt(tc, b, sc).errs
      With(name) == Append(scope, Sym(name, FALSE, NoType))
      Out(errs) == [scope |-> scope, errs |-> errs]
      got == infer_type(tc, s.e, scope)
      If1(c, msg) == IF c THEN <<msg>> ELSE <<>>
  IN CASE s.k = "var" ->
            [scope |-> Append(scope, Sym(s.name, s.fixed, s.type)),
             errs |-> If1(s.type.kind = "unknown", "missing annotation") \o Ex(s.e)
                      \o If1(s.e # NoNode /\ types_conflict(s.type, got), "initializer type")
                      \o If1(s.fixed /\ s.e = NoNode, "fixed without initializer")]
       [] s.k = "expr"   -> Out(Ex(s.e))
       [] s.k = "if"     -> Out(Ex(s.e) \o St(s.body, scope) \o CheckElifs(tc, s.elifs, scope) \o St(s.els, scope))
       [] s.k \in {"while", "do"} -> Out(Ex(s.c) \o St(s.body, scope))
       [] s.k \in {"for", "iterate"} ->
            Out(Ex(s.iter) \o In(s.c, With(s.var)) \o St(s.body, With(s.var)))
       [] s.k = "fundecl" -> Out(Body(tc, s, scope))
       [] s.k = "return" -> Out(Ex(s.e) \o If1(s.e # NoNode /\ types_conflict(tc.ret, got), "return type"))
       [] s.k = "block"  -> Out(check_block(tc, s.stmts, scope))
       [] s.k \in {"enum", "struct"} ->
            [scope |-> Append(scope, Sym(s.name, TRUE, NoType)), errs |-> <<>>]
       [] s.k = "class"  ->
            LET self == Append(scope, Sym(s.name, TRUE, NoType))
            IN [scope |-> self,
                errs |-> CheckList(tc, s.members,
                           self \o <<Sym("this", TRUE, NoType), Sym("super", TRUE, NoType)>>)]
       [] s.k = "try"    -> Out(St(s.body, scope) \o St(s.handler, With(s.err)))
       [] OTHER -> Out(<<>>)

\* The classes of the program's own statement list, then their parents.
register_classes(list) ==
  LET cs == SelectSeq(list, LAMBDA s : s.k = "class")
      tc == [classes |-> cs, ret |-> NoType]
  IN [i \in DOMAIN cs |->
        [name |-> cs[i].name, members |-> cs[i].members,
         parent |-> LET newest == find_class(tc, cs[i].name)
                        last == Max({j \in DOMAIN cs : cs[j].name = cs[i].name /\ cs[j].parent # ""} \cup {0})
                    IN IF i # newest \/ last = 0 THEN 0 ELSE find_class(tc, cs[last].parent)]]

typecheck_program(program) ==
  check_block([classes |-> register_classes(program), ret |-> NoType], program, <<>>)
=============================================================================
