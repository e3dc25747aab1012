------------------------------- MODULE Values -------------------------------
(***************************************************************************)
(* The interpreter's values (src/src/interp/value.c) and the state of      *)
(* struct Interp.  The C code's mutable heap is one record st that every   *)
(* operator takes and gives back: besides envs, lists, cells and datas of  *)
(* module Store it has                                                     *)
(*   insts, classes, funcs   what instance, class and function values      *)
(*            point to                                                     *)
(*   jobs     functions given to worker.spawn and live.after, in order     *)
(*   err      error_message; NoError stands for a clear had_runtime_error  *)
(*   trace    what happened in order: what live.on, live.in and live.deg   *)
(*            print, errors, catches                                       *)
(*   fuel     the blocks and iterations left before a run is cut off       *)
(* Numbers are exact (decimals are fractions); line numbers are dropped    *)
(* from messages.                                                          *)
(***************************************************************************)
EXTENDS Store, FiniteSets, TLC

NoError == ""

-----------------------------------------------------------------------------
Void      == [k |-> "void"]
NumV(n)   == [k |-> "num", n |-> n]
DecV(p, q) == [k |-> "dec", p |-> IF q < 0 THEN -p ELSE p, q |-> IF q < 0 THEN -q ELSE q]
BoolV(b)  == [k |-> "bool", b |-> b]
StrV(s)   == [k |-> "str", s |-> s]
ListV(l)  == [k |-> "list", list |-> l]
DataV(d)  == [k |-> "data", data |-> d]
FuncV(f)  == [k |-> "func", func |-> f]
ClassV(c) == [k |-> "class", class |-> c]
InstV(i)  == [k |-> "inst", inst |-> i]
SuperV(c, i) == [k |-> "super", class |-> c, inst |-> i]
TaskV(ok, v) == [k |-> "task", done |-> ok, result |-> v]

\* The interpreter with nothing defined but the scope of the globals.
interp_init(fuel) ==
  [envs |-> << [parent |-> 0, vars |-> <<>>] >>, lists |-> <<>>, cells |-> <<>>,
   datas |-> <<>>, insts |-> <<>>, classes |-> <<>>, funcs |-> <<>>, jobs |-> <<>>,
   err |-> NoError, trace |-> <<>>, fuel |-> fuel]

Globals == 1

\* had_runtime_error, or the run was cut off.
Failed(st) == st.err # NoError \/ st.fuel = 0
Tick(st) == [st EXCEPT !.fuel = IF @ = 0 THEN 0 ELSE @ - 1]
Diverge(st) == [st EXCEPT !.fuel = 0]

rt_error(st, msg) ==
  [st EXCEPT !.err = msg, !.trace = Append(@, [ev |-> "error", s |-> msg])]

\* What every evaluation gives: the state after it and a value.
R(s, v) == [st |-> s, v |-> v]
Error(st, msg) == R(rt_error(st, msg), Void)

\* The cells of a chain from cell c on.
RECURSIVE Chain(_, _)
Chain(st, c) == IF c = 0 THEN <<>> ELSE <<c>> \o Chain(st, st.cells[c].next)

CellsOf(st, l) == Chain(st, st.lists[l])
Items(st, l) == ItemsOf(st.cells, CellsOf(st, l))

value_list_append(st, l, item) == AppendCell(st, l, CellsOf(st, l), item)

\* value_as_number as a fraction <<p, q>> with q > 0; anything else counts 0.
value_as_number(v) ==
  CASE v.k = "num"  -> <<v.n, 1>>
    [] v.k = "dec"  -> <<v.p, v.q>>
    [] v.k = "bool" -> IF v.b THEN <<1, 1>> ELSE <<0, 1>>
    [] OTHER        -> <<0, 1>>

\* The C cast of a number to long long: toward zero.
AsInt(v) ==
  LET x == value_as_number(v)
  IN IF x[1] >= 0 THEN x[1] \div x[2] ELSE -((-x[1]) \div x[2])

value_truthy(st, v) ==
  CASE v.k = "bool" -> v.b
    [] v.k \in {"num", "dec"} -> value_as_number(v)[1] # 0
    [] v.k = "str"  -> v.s # ""
    [] v.k = "void" -> FALSE
    [] v.k = "list" -> st.lists[v.list] # 0
    [] v.k = "data" -> st.datas[v.data] # <<>>
    [] OTHER        -> TRUE

is_numericish(v) == v.k \in {"num", "dec", "bool"}

value_equal(a, b) ==
  IF is_numericish(a) /\ is_numericish(b)
    THEN LET x == value_as_number(a) y == value_as_number(b) IN x[1] * y[2] = y[1] * x[2]
    ELSE a = b                          \* same text, both void, or the same object

RECURSIVE Joined(_)
Joined(ss) ==
  IF ss = <<>> THEN "" ELSE IF Len(ss) = 1 THEN ss[1] ELSE ss[1] \o ", " \o Joined(Tail(ss))

RECURSIVE value_to_display_string(_, _)
value_to_display_string(st, v) ==
  LET Show(d) == "{" \o Joined([i \in DOMAIN st.datas[d] |->
                   st.datas[d][i].key \o ": " \o value_to_display_string(st, st.datas[d][i].val)]) \o "}"
  IN CASE v.k = "str"   -> v.s
       [] v.k = "num"   -> ToString(v.n)
       [] v.k = "dec"   -> IF v.p % v.q = 0 THEN ToString(v.p \div v.q)
                                            ELSE ToString(v.p) \o "/" \o ToString(v.q)
       [] v.k = "bool"  -> IF v.b THEN "true" ELSE "false"
       [] v.k = "void"  -> "void"
       [] v.k = "func"  -> "<function>"
       [] v.k = "class" -> "<class " \o st.classes[v.class].name \o ">"
       [] v.k = "inst"  -> st.classes[st.insts[v.inst].class].name \o " " \o Show(st.insts[v.inst].fields)
       [] v.k = "list"  -> "[" \o Joined([i \in DOMAIN Items(st, v.list) |->
                             value_to_display_string(st, Items(st, v.list)[i])]) \o "]"
       [] v.k = "data"  -> Show(v.data)
       [] OTHER         -> "<native>"

-----------------------------------------------------------------------------
\* Environments (value.c)

\* The binding a name means in scope e, as <<scope, position>>; <<0, 0>> if none.
RECURSIVE env_find(_, _, _)
env_find(st, e, name) ==
  IF e = 0 THEN <<0, 0>>
  ELSE IF NewestIn(st, e, name) # 0 THEN <<e, NewestIn(st, e, name)>>
  ELSE env_find(st, st.envs[e].parent, name)

Defined(st, e, name) == env_find(st, e, name)[1] # 0
Binding(st, e, name) ==
  LET at == env_find(st, e, name) IN st.envs[at[1]].vars[at[2]]

env_get(st, e, name) == IF Defined(st, e, name) THEN Binding(st, e, name).v ELSE None
env_is_fixed(st, e, name) == Defined(st, e, name) /\ Binding(st, e, name).fixed

\* An unknown name is defined in the scope of the assignment (set_lvalue).
env_set(st, e, name, v) ==
  LET at == env_find(st, e, name)
  IN IF at[1] = 0 THEN env_define(st, e, name, v, FALSE)
                  ELSE Rebind(st, at[1], at[2], v)
=============================================================================
