------------------------------- MODULE Interp -------------------------------
(***************************************************************************)
(* The tree-walking interpreter (src/src/interp/interp.c) over the values  *)
(* and environments of Values.  A program is a sequence of statements of   *)
(* Syntax.                                                                 *)
(* Evaluation gives [st, v], execution [st, sig, v].  Of the builtin       *)
(* namespaces live.on, live.in, live.deg, live.after, worker.spawn,        *)
(* Task.all and http.get are here: what a spawned function or a timer      *)
(* callback does when it runs is interp_invoke and interp_invoke_closure,  *)
(* live.in finds nothing left to read, http.get is a call that failed, and *)
(* a worker's methods are in WorkerHandle.                                 *)
(***************************************************************************)
EXTENDS Values, Syntax

\* The one recursion over the tree: an expression is evaluated, a statement
\* executed.
RECURSIVE Walk(_, _, _, _)
Eval(st, e, env) == Walk("expr", st, e, env)
Exec(st, s, env) == Walk("stmt", st, s, env)

Res(s, sig, v) == [st |-> s, sig |-> sig, v |-> v]
res_none(st) == Res(st, "none", Void)

Namespaces == {"live", "json", "env", "file", "dir", "Task", "server", "socket", "worker", "http"}
is_reserved_namespace(name) == name \in Namespaces

-----------------------------------------------------------------------------
\* Operators on values

\* C's remainder takes the sign of the dividend.
Rem(a, b) == LET m == (IF a < 0 THEN -a ELSE a) % (IF b < 0 THEN -b ELSE b)
             IN IF a < 0 THEN -m ELSE m

\* Exponents other than integers, and 0 to a negative power, are not modelled.
Power(x, n) == IF n >= 0 THEN DecV(x[1]^n, x[2]^n) ELSE DecV(x[2]^(-n), x[1]^(-n))

Arith(op, x, y) ==
  CASE op = "+" -> <<x[1] * y[2] + y[1] * x[2], x[2] * y[2]>>
    [] op = "-" -> <<x[1] * y[2] - y[1] * x[2], x[2] * y[2]>>
    [] op = "*" -> <<x[1] * y[1], x[2] * y[2]>>
    [] op = "/" -> <<x[1] * y[2], x[2] * y[1]>>
    [] op = "%" -> <<Rem(x[1] * y[2], y[1] * x[2]), x[2] * y[2]>>

Order(op, x, y) ==
  LET a == x[1] * y[2] b == y[1] * x[2]
  IN CASE op = ">" -> a > b [] op = "<" -> a < b [] op = ">=" -> a >= b [] op = "<=" -> a <= b

eval_binary(st, op, l, r) ==
  LET x == value_as_number(l)
      y == value_as_number(r)
      ints == l.k = "num" /\ r.k = "num"
      Out(z) == R(st, IF ints THEN NumV(z[1]) ELSE DecV(z[1], z[2]))
  IN CASE op = "+" /\ (l.k = "str" \/ r.k = "str") ->
            R(st, StrV(value_to_display_string(st, l) \o value_to_display_string(st, r)))
       [] op = "==" -> R(st, BoolV(value_equal(l, r)))
       [] op = "!=" -> R(st, BoolV(~value_equal(l, r)))
       [] op = "&&" -> R(st, BoolV(value_truthy(st, l) /\ value_truthy(st, r)))
       [] op = "||" -> R(st, BoolV(value_truthy(st, l) \/ value_truthy(st, r)))
       [] OTHER ->
            IF ~is_numericish(l) \/ ~is_numericish(r)
              THEN Error(st, "operator requires numeric operands")
            ELSE CASE op \in {">", "<", ">=", "<="} -> R(st, BoolV(Order(op, x, y)))
                   [] op = "<<" -> R(st, NumV(AsInt(l) * 2^AsInt(r)))
                   [] op = ">>" -> R(st, NumV(AsInt(l) \div 2^AsInt(r)))
                   [] op \in {"+", "-", "*"} -> Out(Arith(op, x, y))
                   [] op = "/" -> IF y[1] = 0 THEN Error(st, "division by zero")
                                  ELSE LET z == Arith(op, x, y) IN R(st, DecV(z[1], z[2]))
                   [] op = "%" -> IF AsInt(r) = 0 THEN Error(st, "modulo by zero")
                                  ELSE Out(Arith(op, x, y))
                   [] op = "**" -> IF ints /\ r.n >= 0 THEN R(st, NumV(l.n^r.n))
                                   ELSE R(st, Power(x, AsInt(r)))

\* list.sort(): an exchange sort; strings compare as text, all else as numbers.
\* TLC has no order on strings, so programs sort numbers.
Greater(a, b) == Order(">", value_as_number(a), value_as_number(b))

RECURSIVE Exchange(_, _, _)
Exchange(arr, a, b) ==
  IF a > Len(arr) THEN arr
  ELSE IF b > Len(arr) THEN Exchange(arr, a + 1, a + 2)
  ELSE Exchange(IF Greater(arr[a], arr[b]) THEN [arr EXCEPT ![a] = arr[b], ![b] = arr[a]] ELSE arr,
                a, b + 1)

\* Faulty variant: the first cell is freed but stays the head.
DeleteKeepsHead(st, l, i) ==
  LET cs == CellsOf(st, l)
      s1 == [st EXCEPT !.cells[cs[i + 1]].freed = TRUE]
  IN IF i \notin 0..(Len(cs) - 1) THEN st
     ELSE IF i = 0 THEN s1
     ELSE [s1 EXCEPT !.cells[cs[i]].next = st.cells[cs[i + 1]].next]

\* list.delete(i): no cell, no effect.
Delete(st, l, i) ==
  LET cs == CellsOf(st, l)
  IN IF i \in 0..(Len(cs) - 1) THEN RemoveCell(st, l, cs, i + 1) ELSE st

RECURSIVE AppendAll(_, _, _)
AppendAll(st, l, items) ==
  IF items = <<>> THEN st
  ELSE AppendAll(value_list_append(st, l, Head(items)), l, Tail(items))

\* Methods of a list; what a failed argument evaluated to is appended too.
call_list_method(st, l, name, args, env) ==
  LET a == Eval(st, args[1], env)
  IN CASE name \in {"append", "insert", "delete", "concat"} /\ args = <<>> -> R(st, Void)
       [] name = "append" -> R(value_list_append(a.st, l, a.v), Void)
       [] name = "insert" -> R(value_list_insert_front(a.st, l, a.v), Void)
       [] name = "delete" -> R(Delete(a.st, l, AsInt(a.v)), Void)
       [] name = "sort"   -> R(Relink(st, l, Exchange(Items(st, l), 1, 2)), Void)
       [] name = "concat" ->
            R(IF a.v.k # "list" THEN a.st
              ELSE IF a.v.list = l /\ Items(a.st, l) # <<>> THEN Diverge(a.st)
              ELSE AppendAll(a.st, l, Items(a.st, a.v.list)), Void)
       [] OTHER -> Error(st, "unknown list method")

-----------------------------------------------------------------------------
\* Calls

RECURSIVE eval_args(_, _, _)
eval_args(st, args, env) ==
  IF args = <<>> THEN [st |-> st, vs |-> <<>>]
  ELSE LET h == Eval(st, Head(args), env)
           t == eval_args(h.st, Tail(args), env)
       IN [st |-> t.st, vs |-> <<h.v>> \o t.vs]

\* Parameters are bound in order; one without an argument is void.
RECURSIVE Bind(_, _, _, _)
Bind(st, e, params, vs) ==
  IF params = <<>> THEN st
  ELSE Bind(env_define(st, e, Head(params).name, IF vs = <<>> THEN Void ELSE Head(vs), FALSE),
            e, Tail(params), IF vs = <<>> THEN <<>> ELSE Tail(vs))

\* The classes of a statement list: defined first, then linked to their parents.
RECURSIVE DefineClasses(_, _, _), LinkClasses(_, _, _)
DefineClasses(st, list, env) ==
  IF list = <<>> THEN st
  ELSE LET s == Head(list)
           s1 == [st EXCEPT !.classes = Append(@,
                   [name |-> s.name, parent |-> 0, members |-> s.members, closure |-> env])]
       IN DefineClasses(IF s.k # "class" THEN st
                        ELSE env_define(s1, env, s.name, ClassV(Len(s1.classes)), TRUE),
                        Tail(list), env)

LinkClasses(st, list, env) ==
  IF list = <<>> THEN st
  ELSE LET s == Head(list)
           self == env_get(st, env, s.name)
           parent == env_get(st, env, s.parent)
       IN LinkClasses(IF s.k = "class" /\ s.parent # "" /\ self.k = "class" /\ parent.k = "class"
                        THEN [st EXCEPT !.classes[self.class].parent = parent.class] ELSE st,
                      Tail(list), env)

hoist_classes(st, list, env) == LinkClasses(DefineClasses(st, list, env), list, env)

\* A function value: its parameters, body and the scope it was made in.
NewFunc(st, f, env) ==
  R([st EXCEPT !.funcs = Append(@, [params |-> f.params, body |-> f.body, closure |-> env])],
    FuncV(Len(st.funcs) + 1))

RECURSIVE hoist_functions(_, _, _)
hoist_functions(st, list, env) ==
  IF list = <<>> THEN st
  ELSE LET s == Head(list) f == NewFunc(st, s, env)
       IN hoist_functions(IF s.k # "fundecl" THEN st ELSE env_define(f.st, env, s.name, f.v, TRUE),
                          Tail(list), env)

\* Statements in order until one returns or fails.
RECURSIVE ExecList(_, _, _)
GoOn(r, list, env) == IF r.sig # "none" \/ Failed(r.st) THEN r ELSE ExecList(r.st, list, env)
ExecList(st, list, env) ==
  IF list = <<>> THEN res_none(st) ELSE GoOn(Exec(st, Head(list), env), Tail(list), env)

exec_block(st, list, parent) ==
  LET e == Len(st.envs) + 1
  IN ExecList(hoist_functions(hoist_classes(Tick(env_new(st, parent)), list, e), list, e), list, e)

\* What a call gives whose body ended with r.
Returned(r) == R(r.st, IF r.sig = "return" THEN r.v ELSE Void)

\* A body run in a scope of its own below parent, with the arguments bound.
CallBody(st, parent, params, vs, body) ==
  LET e == Len(st.envs) + 1
  IN Returned(exec_block(Bind(env_new(st, parent), e, params, vs), body.stmts, e))

\* Arguments beyond the parameters are not evaluated.
call_value(st, fn, args, env) ==
  IF fn.k # "func" THEN Error(st, "attempted to call a non-function value")
  ELSE LET f == st.funcs[fn.func]
           a == eval_args(st, SubSeq(args, 1, Min({Len(args), Len(f.params)})), env)
       IN CallBody(a.st, f.closure, f.params, a.vs, f.body)

\* How worker threads call a function: below the globals, not its closure.
interp_invoke(st, fn, vs) ==
  IF fn.k # "func" THEN Error(st, "attempted to call a non-function value")
  ELSE CallBody(st, Globals, st.funcs[fn.func].params, vs, st.funcs[fn.func].body)

\* How handlers, callbacks and timers are called: below the closure.
interp_invoke_closure(st, fn, vs) ==
  IF fn.k # "func" THEN Error(st, "attempted to call a non-function value")
  ELSE CallBody(st, st.funcs[fn.func].closure, st.funcs[fn.func].params, vs, st.funcs[fn.func].body)

\* Faulty variant: an ancestor's method hides the class's own.
RECURSIVE OldestMethod(_, _, _)
OldestMethod(st, c, name) ==
  IF c = 0 THEN <<>>
  ELSE LET ms == st.classes[c].members
           hit == {i \in DOMAIN ms : ms[i].k = "fundecl" /\ ms[i].name = name}
           up == OldestMethod(st, st.classes[c].parent, name)
       IN IF up # <<>> \/ hit = {} THEN up ELSE <<c, ms[Min(hit)]>>

\* The class, from c up, that defines a method, and the method; <<>> if none.
RECURSIVE find_method(_, _, _)
find_method(st, c, name) ==
  IF c = 0 THEN <<>>
  ELSE LET ms == st.classes[c].members
           hit == {i \in DOMAIN ms : ms[i].k = "fundecl" /\ ms[i].name = name}
       IN IF hit = {} THEN find_method(st, st.classes[c].parent, name) ELSE <<c, ms[Min(hit)]>>

\* A method's body below its class's scope, with this and super bound: super
\* is the parent of the class that defines the method.
invoke_method(st, m, this, vs) ==
  LET class == m[1]
      e  == Len(st.envs) + 1
      s1 == env_define(env_new(st, st.classes[class].closure), e, "this", this, TRUE)
      up == st.classes[class].parent
      s2 == IF up = 0 THEN s1 ELSE env_define(s1, e, "super", SuperV(up, this), TRUE)
  IN Returned(exec_block(Bind(s2, e, m[2].params, vs), m[2].body.stmts, e))

\* Fields get their declared values, the parent's first, so a child's win.
RECURSIVE init_fields_recursive(_, _, _)
init_fields_recursive(st, c, d) ==
  LET RECURSIVE Fields(_, _, _)
      Fields(s, ms, env) ==
        IF ms = <<>> THEN s
        ELSE LET m == Head(ms)
                 i == IF m.e = NoNode THEN R(s, Void) ELSE Eval(s, m.e, env)
             IN Fields(IF m.k = "var" THEN value_data_set(i.st, d, m.name, i.v) ELSE s, Tail(ms), env)
      s1 == IF st.classes[c].parent = 0 THEN st ELSE init_fields_recursive(st, st.classes[c].parent, d)
  IN Fields(env_new(s1, st.classes[c].closure), st.classes[c].members, Len(s1.envs) + 1)

construct_instance(st, c, args, env) ==
  LET d  == Len(st.datas) + 1
      s1 == init_fields_recursive([st EXCEPT !.datas = Append(@, <<>>)], c, d)
      this == InstV(Len(s1.insts) + 1)
      s2 == [s1 EXCEPT !.insts = Append(@, [class |-> c, fields |-> d])]
      m  == find_method(s2, c, "constructor")
      a  == eval_args(s2, args, env)
  IN IF m = <<>> THEN R(s2, this) ELSE R(invoke_method(a.st, m, this, a.vs).st, this)

\* live.on(v) prints nothing once its argument has failed.
live_on(st, v) ==
  IF Failed(st) THEN st
  ELSE [st EXCEPT !.trace = Append(@, [ev |-> "on", s |-> value_to_display_string(st, v)])]

\* The other builtins that print do not ask whether an argument has failed.
\* A run that was cut off prints nothing more.
Say(st, ev, s) == IF st.fuel = 0 THEN st ELSE [st EXCEPT !.trace = Append(@, [ev |-> ev, s |-> s])]

\* live.in(prompt) gives the line it reads, here the empty one of an input
\* that has ended.
live_in(a, args) == R(IF args = <<>> THEN a.st ELSE Say(a.st, "in", value_to_display_string(a.st, a.v)), StrV(""))

\* live.deg(type, values...) prints a verdict on each value.
Verdict(want, v) ==
  CASE want \notin {"string", "num", "decimal", "bool"} -> "unknown type"
    [] v.k = (CASE want = "string" -> "str" [] want = "decimal" -> "dec" [] OTHER -> want) -> "met"
    [] OTHER -> "mismatch"

RECURSIVE Judge(_, _, _, _)
Judge(st, want, values, env) ==
  IF values = <<>> THEN st
  ELSE LET a == Eval(st, Head(values), env)
       IN Judge(Say(a.st, "deg", Verdict(want, a.v)), want, Tail(values), env)

live_deg(a, args, env) ==
  IF args = <<>> THEN Error(a.st, "live.deg expects at least a type name")
  ELSE R(Judge(a.st, IF a.v.k = "str" THEN a.v.s ELSE "", Tail(args), env), Void)

\* A function left to the reactor or to a worker thread, for later.
Leave(st, f, via) == [st EXCEPT !.jobs = Append(@, [f |-> f, via |-> via])]

\* Except for live.on, the builtins go on with what a failed argument gave.
FirstArg(st, args, env) == IF args = <<>> THEN R(st, Void) ELSE Eval(st, args[1], env)

live_after(st, args, env) ==
  LET a == Eval(st, args[1], env)
      b == Eval(a.st, args[2], env)
  IN IF Len(args) < 2 THEN Error(st, "live.after expects (delay_ms, callback)")
     ELSE R(Leave(b.st, b.v, "timer"), NumV(Len(b.st.jobs) + 1))

Task_all(a) == R(a.st, TaskV(TRUE, a.v))
\* A request that fails: module HttpConn has the others.
http_get(a) == R(a.st, TaskV(FALSE, StrV("no route to host")))
worker_spawn(a) == R(Leave(a.st, a.v, "worker"), [k |-> "worker"])

\* The builtin namespaces; None when the method is not one of theirs.
builtin_dispatch(st, ns, name, args, env) ==
  LET a == FirstArg(st, args, env)
  IN CASE <<ns, name>> = <<"live", "on">>      -> R(live_on(a.st, a.v), Void)
       [] <<ns, name>> = <<"live", "in">>      -> live_in(a, args)
       [] <<ns, name>> = <<"live", "deg">>     -> live_deg(a, args, env)
       [] <<ns, name>> = <<"live", "after">>   -> live_after(st, args, env)
       [] <<ns, name>> = <<"Task", "all">>     -> Task_all(a)
       [] <<ns, name>> = <<"http", "get">>     -> http_get(a)
       [] <<ns, name>> = <<"worker", "spawn">> -> worker_spawn(a)
       [] OTHER -> R(st, None)

\* await, and a task's own await method: its result, or its error raised.
Await(st, t) == IF t.done THEN R(st, t.result) ELSE Error(st, t.result.s)

\* object.name(args)
CallMember(st, callee, args, env) ==
  LET name == callee.name
      ns == callee.obj.k = "id" /\ ~Defined(st, env, callee.obj.id) /\ callee.obj.id \in Namespaces
      built == builtin_dispatch(st, callee.obj.id, name, args, env)
      o == Eval(st, callee.obj, env)
      own == find_method(o.st, o.st.insts[o.v.inst].class, name)
      up == find_method(o.st, o.v.class, name)
      a == eval_args(o.st, args, env)
      Callback(then) == IF then /\ args # <<>>
                          THEN interp_invoke_closure(a.st, a.vs[1], <<o.v.result>>).st ELSE a.st
  IN IF ns /\ built.v # None THEN built
     ELSE IF Failed(o.st) THEN R(o.st, Void)
     ELSE CASE o.v.k = "list" -> call_list_method(o.st, o.v.list, name, args, env)
            [] o.v.k = "inst" -> IF own = <<>> THEN Error(o.st, "no such method")
                                 ELSE invoke_method(a.st, own, o.v, a.vs)
            [] o.v.k = "task" -> CASE name = "then"  -> R(Callback(o.v.done), o.v)
                                   [] name = "catch" -> R(Callback(~o.v.done), o.v)
                                   [] name = "await" -> Await(a.st, o.v)
                                   [] OTHER -> Error(a.st, "unknown Task method")
            [] o.v.k = "super" -> IF up = <<>> THEN Error(a.st, "no parent method to call via super")
                                  ELSE invoke_method(a.st, up, o.v.inst, a.vs)
            [] OTHER -> Error(o.st, "unknown method for this value")

\* callee(args); a bare super(args) runs the parent's constructor, if any.
Call(st, callee, args, env) ==
  LET f == Eval(st, callee, env)
      m == find_method(f.st, f.v.class, "constructor")
      a == eval_args(f.st, args, env)
  IN IF callee.k = "member" THEN CallMember(st, callee, args, env)
     ELSE IF Failed(f.st) THEN R(f.st, Void)
     ELSE IF f.v.k # "super" THEN call_value(f.st, f.v, args, env)
     ELSE IF m = <<>> THEN R(f.st, Void)
     ELSE invoke_method(a.st, m, f.v.inst, a.vs)

-----------------------------------------------------------------------------
\* Expressions

\* The text so far grows by each part; a failed part ends it.
RECURSIVE eval_string_interp(_, _, _, _)
eval_string_interp(st, parts, env, text) ==
  IF parts = <<>> THEN R(st, StrV(text))
  ELSE IF Head(parts).k = "text" THEN eval_string_interp(st, Tail(parts), env, text \o Head(parts).s)
  ELSE LET p == Eval(st, Head(parts), env)
       IN IF Failed(p.st) THEN R(p.st, StrV(""))
          ELSE eval_string_interp(p.st, Tail(parts), env, text \o value_to_display_string(p.st, p.v))

RECURSIVE EvalData(_, _, _, _)
EvalData(st, d, entries, env) ==
  IF entries = <<>> THEN st
  ELSE LET a == Eval(st, Head(entries).e, env)
       IN EvalData(value_data_set(a.st, d, Head(entries).key, a.v), d, Tail(entries), env)

\* An index is read even when the object or the index has failed to evaluate.
Index(st, o, i) ==
  LET n == AsInt(i)
      key == IF i.k = "str" THEN i.s ELSE ""
      got == value_data_get(st, o.data, key)
  IN CASE o.k = "list" -> IF n \in 0..(Len(Items(st, o.list)) - 1) THEN R(st, Items(st, o.list)[n + 1])
                          ELSE Error(st, "list index out of range")
       [] o.k = "data" -> R(st, IF got = None THEN Void ELSE got)
       [] o.k = "str"  -> IF n \in 0..(Len(o.s) - 1) THEN R(st, StrV(SubSeq(o.s, n + 1, n + 1)))
                          ELSE Error(st, "string index out of range")
       [] OTHER -> Error(st, "value is not indexable")

Member(st, o, name) ==
  LET d == IF o.k = "data" THEN o.data ELSE st.insts[o.inst].fields
      got == value_data_get(st, d, name)
  IN CASE o.k = "data" -> R(st, IF got = None THEN Void ELSE got)
       [] o.k = "inst" -> IF got = None THEN Error(st, "no such field") ELSE R(st, got)
       [] OTHER -> Error(st, "cannot access member on this value")

\* The target's own expressions are evaluated here, after the value.
set_lvalue(st, t, v, env) ==
  LET o == Eval(st, t.obj, env)
      i == Eval(o.st, t.idx, env)
      cs == CellsOf(i.st, o.v.list)
      key == IF i.v.k = "str" THEN i.v.s ELSE ""
  IN CASE t.k = "id" ->
            IF is_reserved_namespace(t.id) /\ ~Defined(st, env, t.id) THEN st
            ELSE IF env_is_fixed(st, env, t.id) THEN rt_error(st, "cannot reassign fixed variable")
            ELSE env_set(st, env, t.id, v)
       [] t.k = "index" ->
            (CASE o.v.k = "list" ->
                    IF AsInt(i.v) \in 0..(Len(cs) - 1) THEN SetItem(i.st, cs, AsInt(i.v) + 1, v)
                    ELSE rt_error(i.st, "list index out of range")
               [] o.v.k = "data" -> value_data_set(i.st, o.v.data, key, v)
               [] OTHER -> rt_error(i.st, "value is not assignable by index"))
       [] t.k = "member" ->
            (CASE o.v.k = "data" -> value_data_set(o.st, o.v.data, t.name, v)
               [] o.v.k = "inst" -> value_data_set(o.st, o.st.insts[o.v.inst].fields, t.name, v)
               [] OTHER -> rt_error(o.st, "cannot assign member on this value"))
       [] OTHER -> rt_error(st, "invalid assignment target")

\* = stores what its right side gave, failed or not; a compound operator
\* reads the target, then the right side, and computes on whatever they gave.
Assign(st, e, env) ==
  LET cur == Eval(st, e.target, env)
      rhs == Eval(IF e.op = "=" THEN st ELSE cur.st, e.e, env)
      new == IF e.op = "=" THEN rhs ELSE eval_binary(rhs.st, e.op, cur.v, rhs.v)
  IN R(set_lvalue(new.st, e.target, new.v, env), new.v)

Between(a, b, c) ==
  LET x == value_as_number(a) IN Order(">=", x, value_as_number(b)) /\ Order("<=", x, value_as_number(c))

Unary(op, v) ==
  LET x == value_as_number(v)
  IN IF v.k = "num" THEN NumV(-v.n) ELSE DecV(-x[1], x[2])

eval_expr(st, e, env) ==
  LET Ev(x) == Eval(st, x, env)
      Two(x, y) == LET a == Eval(st, x, env) b == Eval(a.st, y, env)
                   IN [st |-> b.st, l |-> a.v, r |-> b.v]
  IN IF Failed(st) THEN R(st, Void)
  ELSE CASE e.k = "num"  -> R(st, NumV(e.n))
         [] e.k = "bool" -> R(st, BoolV(e.b))
         [] e.k = "str"  -> eval_string_interp(st, e.parts, env, "")
         [] e.k = "id"   -> IF Defined(st, env, e.id) THEN R(st, env_get(st, env, e.id))
                            ELSE Error(st, "undefined variable")
         [] e.k = "bin"  -> LET a == Two(e.l, e.r)
                            IN IF Failed(a.st) THEN R(a.st, Void) ELSE eval_binary(a.st, e.op, a.l, a.r)
         [] e.k = "un"   -> LET a == Ev(e.e)
                            IN R(a.st, IF e.op = "!" THEN BoolV(~value_truthy(a.st, a.v)) ELSE Unary(e.op, a.v))
         [] e.k = "between" -> LET a == Two(e.e, e.lo) c == Eval(a.st, e.hi, env)
                               IN R(c.st, BoolV(Between(a.l, a.r, c.v)))
         [] e.k = "tern" -> LET a == Ev(e.c)
                            IN Eval(a.st, IF value_truthy(a.st, a.v) THEN e.t ELSE e.f, env)
         [] e.k = "list" -> LET a == eval_args(st, e.items, env)
                            IN R(list_new(a.st, a.vs), ListV(Len(a.st.lists) + 1))
         [] e.k = "data" -> R(EvalData([st EXCEPT !.datas = Append(@, <<>>)], Len(st.datas) + 1, e.entries, env),
                              DataV(Len(st.datas) + 1))
         [] e.k = "fun"  -> NewFunc(st, e, env)
         [] e.k = "await" -> LET a == Ev(e.e)
                             IN IF Failed(a.st) THEN R(a.st, Void)
                                ELSE IF a.v.k = "task" THEN Await(a.st, a.v) ELSE a
         [] e.k = "member" -> LET a == Ev(e.obj)
                              IN IF Failed(a.st) THEN R(a.st, Void) ELSE Member(a.st, a.v, e.name)
         [] e.k = "index"  -> LET a == Two(e.obj, e.idx) IN Index(a.st, a.l, a.r)
         [] e.k = "assign" -> Assign(st, e, env)
         [] e.k = "call"   -> Call(st, e.callee, e.args, env)
         [] e.k = "new"    -> LET c == env_get(st, env, e.name)
                              IN IF c.k # "class" THEN Error(st, "not a known class")
                                 ELSE construct_instance(st, c.class, e.args, env)

-----------------------------------------------------------------------------
\* Statements

\* The conditions after a false if; a failed one counts as false.
RECURSIVE Elifs(_, _, _, _)
Elifs(st, elifs, els, env) ==
  IF elifs = <<>> THEN IF els = NoNode THEN res_none(st) ELSE Exec(st, els, env)
  ELSE LET c == Eval(st, Head(elifs).c, env)
       IN IF value_truthy(c.st, c.v) THEN Exec(c.st, Head(elifs).body, env)
          ELSE Elifs(c.st, Tail(elifs), els, env)

RECURSIVE While(_, _, _)
While(st, s, env) ==
  LET c == Eval(st, s.c, env)
      r == Exec(Tick(c.st), s.body, env)
  IN IF ~value_truthy(c.st, c.v) \/ Failed(c.st) THEN res_none(c.st)
     ELSE IF r.sig # "none" THEN r
     ELSE IF Failed(r.st) THEN res_none(r.st) ELSE While(r.st, s, env)

RECURSIVE DoWhile(_, _, _)
DoWhile(st, s, env) ==
  LET r == Exec(Tick(st), s.body, env)
      c == Eval(r.st, s.c, env)
  IN IF r.sig # "none" THEN r
     ELSE IF Failed(r.st) THEN res_none(r.st)
     ELSE IF value_truthy(c.st, c.v) /\ ~Failed(c.st) THEN DoWhile(c.st, s, env) ELSE res_none(c.st)

\* One pass of a loop body with its variable bound in a scope of its own.
\* A false condition skips the body; after a failed one no later pass acts.
Pass(st, s, item, env) ==
  LET e == Len(st.envs) + 1
      s1 == env_define(Tick(env_new(st, env)), e, s.var, item, FALSE)
      c == IF s.c = NoNode THEN R(s1, BoolV(TRUE)) ELSE Eval(s1, s.c, e)
  IN IF value_truthy(c.st, c.v) THEN Exec(c.st, s.body, e) ELSE res_none(c.st)

\* The loop walks the list's cells as they are when it gets to them; its step
\* through a cell that delete() has freed is undefined, and ends the run here.
RECURSIVE Cells(_, _, _, _)
Cells(st, c, s, env) ==
  IF c = 0 THEN res_none(st)
  ELSE LET r == Pass(st, s, st.cells[c].item, env)
       IN IF r.sig # "none" THEN r
          ELSE IF Failed(r.st) THEN res_none(r.st)
          ELSE IF r.st.cells[c].freed THEN res_none(Diverge(r.st))
          ELSE Cells(r.st, r.st.cells[c].next, s, env)

\* iterate() over a data object: the values it had at the start, oldest first.
RECURSIVE Pairs(_, _, _, _)
Pairs(st, pairs, s, env) ==
  IF pairs = <<>> THEN res_none(st)
  ELSE LET r == Pass(st, s, pairs[Len(pairs)].val, env)
       IN IF r.sig # "none" THEN r
          ELSE IF Failed(r.st) THEN res_none(r.st)
          ELSE Pairs(r.st, SubSeq(pairs, 1, Len(pairs) - 1), s, env)

ForIn(st, s, env) ==
  LET c == Eval(st, s.iter, env)
  IN IF c.v.k = "list" THEN Cells(c.st, c.st.lists[c.v.list], s, env)
     ELSE res_none(rt_error(c.st, "for-in requires a list"))

Iterate(st, s, env) ==
  LET c == Eval(st, s.iter, env)
  IN CASE c.v.k = "list" -> Cells(c.st, c.st.lists[c.v.list], s, env)
       [] c.v.k = "data" -> Pairs(c.st, c.st.datas[c.v.data], s, env)
       [] OTHER -> res_none(rt_error(c.st, "iterate() requires a list or data collection"))

\* Faulty variant: had_runtime_error stays set.
CaughtStillSet(st) == [st EXCEPT !.trace = Append(@, [ev |-> "catch", s |-> st.err])]
\* The state a catch block starts in.
Caught(st) == [st EXCEPT !.err = NoError, !.trace = Append(@, [ev |-> "catch", s |-> st.err])]

\* The error of the block is bound to a name for the catch block; a block that
\* did not fail leaves nothing behind, the signal of its return included.
TryCatch(st, s, env) ==
  LET r == Exec([st EXCEPT !.err = NoError], s.body, env)
      e == Len(r.st.envs) + 1
      s1 == env_define(env_new(r.st, env), e, s.err, StrV(r.st.err), FALSE)
  IN IF r.st.fuel = 0 THEN res_none(r.st)
     ELSE IF r.st.err # NoError THEN Exec(Caught(s1), s.handler, e)
     ELSE res_none([r.st EXCEPT !.err = st.err])

exec_stmt(st, s, env) ==
  LET a == IF s.e = NoNode THEN R(st, Void) ELSE Eval(st, s.e, env)
  IN IF Failed(st) THEN res_none(st)
  ELSE CASE s.k = "var" -> IF Failed(a.st) THEN res_none(a.st)
                           ELSE res_none(env_define(a.st, env, s.name, a.v, s.fixed))
         [] s.k = "expr"   -> res_none(a.st)
         [] s.k = "if"     -> IF Failed(a.st) THEN res_none(a.st)
                              ELSE IF value_truthy(a.st, a.v) THEN Exec(a.st, s.body, env)
                              ELSE Elifs(a.st, s.elifs, s.els, env)
         [] s.k = "while"  -> While(st, s, env)
         [] s.k = "do"     -> DoWhile(st, s, env)
         [] s.k = "for"    -> ForIn(st, s, env)
         [] s.k = "iterate" -> Iterate(st, s, env)
         [] s.k = "return" -> Res(a.st, "return", a.v)
         [] s.k = "block"  -> exec_block(st, s.stmts, env)
         [] s.k = "try"    -> TryCatch(st, s, env)
         [] s.k \in {"fundecl", "class", "enum", "struct", "import", "export", "break", "continue"} ->
              res_none(st)

Walk(what, st, node, env) ==
  IF what = "expr" THEN eval_expr(st, node, env) ELSE exec_stmt(st, node, env)

\* The program's statements run in the globals themselves.
interp_run(st, program) ==
  ExecList(hoist_functions(hoist_classes(st, program, Globals), program, Globals), program, Globals).st
=============================================================================
