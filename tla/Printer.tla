------------------------------- MODULE Printer -------------------------------
(***************************************************************************)
(* A reference for the parser: how a tree of Syntax is written, with       *)
(* parentheses only where the precedence of the operators asks for them.   *)
(* Everything binary groups to the left except the power operator.         *)
(***************************************************************************)
EXTENDS Parser

\* How tightly an expression binds, loosest first.
Prec(e) ==
  CASE e.k \in {"assign", "await"} -> 0
    [] e.k = "tern" -> 1
    [] e.k = "between" -> 6
    [] e.k = "un" -> 11
    [] e.k = "bin" ->
         (CASE e.op = "||" -> 2 [] e.op = "&&" -> 3 [] e.op \in {"==", "!="} -> 4
            [] e.op \in {"<", ">", "<=", ">="} -> 5 [] e.op \in {"<<", ">>"} -> 7
            [] e.op \in {"+", "-"} -> 8 [] e.op \in {"*", "/", "%"} -> 9 [] e.op = "**" -> 10)
    [] OTHER -> 12

RECURSIVE Expr(_), Stmt(_), Commas(_), Concat(_)

Concat(ss) == IF ss = <<>> THEN <<>> ELSE Head(ss) \o Concat(Tail(ss))
Commas(ss) ==
  IF ss = <<>> THEN <<>> ELSE IF Len(ss) = 1 THEN ss[1] ELSE ss[1] \o <<Tok(",")>> \o Commas(Tail(ss))

Paren(ts) == <<Tok("(")>> \o ts \o <<Tok(")")>>
\* An expression where one that binds at least as tightly as n is wanted.
Sub(e, n) == IF Prec(e) < n THEN Paren(Expr(e)) ELSE Expr(e)
Exps(es) == Commas([i \in DOMAIN es |-> Expr(es[i])])
Args(es) == Paren(Exps(es))

Name(x) == <<IF x \in {"this", "super", "Task"} THEN Tok(x) ELSE IdTok(x)>>
TypeToks(t) == IF t.kind = "class" THEN <<IdTok(t.name)>> ELSE <<Tok(t.kind)>>
Colon(t, silent) == IF t.kind \in silent THEN <<>> ELSE <<Tok(":")>> \o TypeToks(t)
Param1(p) == <<IdTok(p.name)>> \o Colon(p.type, {"unknown"})
Sig(f) == Paren(Commas([i \in DOMAIN f.params |-> Param1(f.params[i])])) \o Colon(f.ret, {"void"}) \o Stmt(f.body)

StrPart(p) ==
  IF p.k = "text" THEN IF p.s = "" THEN <<>> ELSE <<Chars(p.s)>>
  ELSE <<Tok("{"), Tok("{")>> \o Expr(p) \o <<Tok("}"), Tok("}")>>

Expr(e) ==
  CASE e.k = "num"  -> <<NumTok(e.n)>>
    [] e.k = "bool" -> <<Tok(IF e.b THEN "true" ELSE "false")>>
    [] e.k = "str"  -> <<StrTok(Concat([i \in DOMAIN e.parts |-> StrPart(e.parts[i])]))>>
    [] e.k = "id"   -> Name(e.id)
    [] e.k = "bin"  -> LET left == IF e.op = "**" THEN 11 ELSE Prec(e)
                           right == IF e.op = "**" THEN 10 ELSE Prec(e) + 1
                       IN Sub(e.l, left) \o <<Tok(e.op)>> \o Sub(e.r, right)
    [] e.k = "un"   -> <<Tok(e.op)>> \o Sub(e.e, 11)
    [] e.k = "between" -> Sub(e.e, 7) \o <<Tok("<<<")>> \o Args(<<e.lo, e.hi>>)
    [] e.k = "tern" -> Sub(e.c, 2) \o <<Tok("?")>> \o Expr(e.t) \o <<Tok(":")>> \o Expr(e.f)
    [] e.k = "list" -> <<Tok("[")>> \o Exps(e.items) \o <<Tok("]")>>
    [] e.k = "data" -> <<Tok("{")>> \o Commas([i \in DOMAIN e.entries |->
                          <<IdTok(e.entries[i].key), Tok(":")>> \o Expr(e.entries[i].e)]) \o <<Tok("}")>>
    [] e.k = "fun"  -> <<Tok("fun")>> \o Sig(e)
    [] e.k = "await" -> <<Tok("await")>> \o Expr(e.e)
    [] e.k = "member" -> Sub(e.obj, 12) \o <<Tok("."), IdTok(e.name)>>
    [] e.k = "index" -> Sub(e.obj, 12) \o <<Tok("[")>> \o Expr(e.idx) \o <<Tok("]")>>
    [] e.k = "assign" -> Sub(e.target, 2)
                         \o <<Tok(CHOOSE o \in DOMAIN AssignOps : AssignOps[o] = e.op)>> \o Expr(e.e)
    [] e.k = "call" -> Sub(e.callee, 12) \o Args(e.args)
    [] e.k = "new"  -> <<Tok("new"), IdTok(e.name)>> \o Args(e.args)

Stmts(list) == Concat([i \in DOMAIN list |-> Stmt(list[i])])
Semi == <<Tok(";")>>
Cond1(word, c) == <<Tok(word)>> \o Paren(Expr(c))

Stmt(s) ==
  CASE s.k = "var" -> <<Tok(IF s.fixed THEN "fixed" ELSE "var"), IdTok(s.name)>> \o Colon(s.type, {"unknown"})
                      \o (IF s.e = NoNode THEN <<>> ELSE <<Tok("=")>> \o Expr(s.e)) \o Semi
    [] s.k = "expr"  -> Expr(s.e) \o Semi
    [] s.k = "if"    -> Cond1("if", s.e) \o Stmt(s.body)
                        \o Concat([i \in DOMAIN s.elifs |-> Cond1("elif", s.elifs[i].c) \o Stmt(s.elifs[i].body)])
                        \o (IF s.els = NoNode THEN <<>> ELSE <<Tok("else")>> \o Stmt(s.els))
    [] s.k = "while" -> Cond1("loop", s.c) \o Stmt(s.body)
    [] s.k = "do"    -> <<Tok("do"), Tok("loop")>> \o Stmt(s.body) \o Cond1("while", s.c) \o Semi
    [] s.k = "for"   -> <<Tok("for")>> \o Paren(<<IdTok(s.var), Tok("in")>> \o Expr(s.iter)
                          \o (IF s.c = NoNode THEN <<>> ELSE <<Tok(",")>> \o Expr(s.c))) \o Stmt(s.body)
    [] s.k = "iterate" -> <<Tok("iterate")>> \o Paren(Expr(s.iter) \o <<Tok(","), IdTok(s.var)>>) \o Stmt(s.body)
    [] s.k = "fundecl" -> <<Tok("fun"), IdTok(s.name)>> \o Sig(s)
    [] s.k = "return" -> <<Tok("return")>> \o (IF s.e = NoNode THEN <<>> ELSE Expr(s.e)) \o Semi
    [] s.k = "block" -> <<Tok("{")>> \o Stmts(s.stmts) \o <<Tok("}")>>
    [] s.k = "class" -> <<Tok("class"), IdTok(s.name)>>
                        \o (IF s.parent = "" THEN <<>> ELSE <<Tok("extends"), IdTok(s.parent)>>)
                        \o <<Tok("{")>> \o Stmts(s.members) \o <<Tok("}")>>
    [] s.k = "try"   -> <<Tok("try")>> \o Stmt(s.body) \o <<Tok("catch")>>
                        \o Paren(<<IdTok(s.err), Tok(":"), Tok("string")>>) \o Stmt(s.handler)
    [] s.k = "struct" -> <<Tok("struct"), IdTok(s.name), Tok("{"), IdTok("f"), Tok(":"), Tok("num"), Tok(";"), Tok("}")>>
    [] s.k = "enum"   -> <<Tok("enum"), IdTok(s.name), Tok("{"), IdTok("U"), Tok(","), IdTok("V"), Tok("}")>>
    [] s.k = "import" -> <<Tok("import"), StrTok(<<Chars("lib.jag")>>)>> \o Semi
    [] s.k = "export" -> <<Tok("export"), IdTok(s.name)>> \o Semi

\* The same tokens with interpolations written ${ } instead of {{ }}.
RECURSIVE DollarRaw(_)
DollarRaw(raw) ==
  LET Twice(t) == Len(raw) >= 2 /\ raw[1].t = t /\ raw[2].t = t
  IN IF raw = <<>> THEN <<>>
     ELSE IF Twice("{") THEN <<Tok("$"), Tok("{")>> \o DollarRaw(SubSeq(raw, 3, Len(raw)))
     ELSE IF Twice("}") THEN <<Tok("}")>> \o DollarRaw(SubSeq(raw, 3, Len(raw)))
     ELSE <<raw[1]>> \o DollarRaw(Tail(raw))
Dollars(toks) == [i \in DOMAIN toks |-> IF toks[i].t = "STR" THEN StrTok(DollarRaw(toks[i].raw)) ELSE toks[i]]
=============================================================================
