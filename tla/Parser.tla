------------------------------- MODULE Parser -------------------------------
(***************************************************************************)
(* The recursive-descent parser (src/src/parser/parser.c) from tokens to   *)
(* the trees of Syntax.  A parser is [toks, pos, err]: the tokens, ended   *)
(* by TOK_EOF, the position of the current one, and had_error.             *)
(* Parsing gives [p, n]: the parser after it and a node.  A token is a     *)
(* record with its type t, an identifier, number or string with its text.  *)
(* The text of a string literal is kept as the tokens it would lex to,     *)
(* so that an interpolated expression is a part of it.  Decimal literals   *)
(* and the element types of generics, which nothing reads, are left out.   *)
(***************************************************************************)
EXTENDS Integers, Sequences, FiniteSetsExt, TLC, Syntax

Tok(t)    == [t |-> t]
IdTok(x)  == [t |-> "IDENT", id |-> x]
NumTok(n) == [t |-> "NUM", n |-> n]
StrTok(raw) == [t |-> "STR", raw |-> raw]
Chars(s)  == [t |-> "CHARS", id |-> s]         \* plain text inside a string

tok_str(tok) ==
  CASE tok.t \in {"IDENT", "CHARS"} -> tok.id
    [] tok.t = "NUM" -> ToString(tok.n)
    [] tok.t = "STR" -> "string"
    [] OTHER -> tok.t

init_parser(toks) == [toks |-> Append(toks, Tok("EOF")), pos |-> 1, err |-> FALSE]

Cur(p) == p.toks[p.pos]
check(p, t) == Cur(p).t = t
advance_p(p) == IF check(p, "EOF") THEN p ELSE [p EXCEPT !.pos = @ + 1]
error_at(p) == [p EXCEPT !.err = TRUE]

\* An unexpected token is reported and skipped.
expect(p, t) == advance_p(IF check(p, t) THEN p ELSE error_at(p))

RECURSIVE ExpectAll(_, _)
ExpectAll(p, ts) == IF ts = <<>> THEN p ELSE ExpectAll(expect(p, Head(ts)), Tail(ts))

N(p, n) == [p |-> p, n |-> n]

\* Rules that several others refer to are known by name: parse(rule, p) is the
\* only recursion between rules, so that each is expanded once.
RECURSIVE parse(_, _)
parse_expr(p) == parse("assignment", p)

-----------------------------------------------------------------------------
\* Types and parameters

TypeWords == {"string", "num", "decimal", "bool", "scifi", "data", "list", "MixedList",
              "enum", "struct", "vector", "matrix", "Task", "Worker", "Socket"}

parse_type(p) ==
  LET q == advance_p(p)
  IN CASE check(p, "IDENT") -> N(q, ClassType(Cur(p).id))
       [] Cur(p).t \in TypeWords ->
            N(IF check(q, "<") THEN expect(parse("type", advance_p(q)).p, ">") ELSE q, Type(Cur(p).t))
       [] OTHER -> N(advance_p(error_at(p)), Type("unknown"))

\* An optional annotation after a colon.
Annotation(p, default) == IF check(p, ":") THEN parse("type", advance_p(p)) ELSE N(p, default)

RECURSIVE Params(_)
Params(p) ==
  LET t == Annotation(expect(p, "IDENT"), Type("unknown"))
      prm == [name |-> tok_str(Cur(p)), type |-> t.n]
      rest == Params(advance_p(t.p))
  IN IF check(t.p, ",") THEN N(rest.p, <<prm>> \o rest.n) ELSE N(t.p, <<prm>>)

parse_param_list(p) == IF check(p, ")") THEN N(p, <<>>) ELSE Params(p)

-----------------------------------------------------------------------------
\* Blocks and string literals

\* The statements so far, list, and those that follow.
RECURSIVE StmtsUntilBrace(_)
StmtsUntilBrace(list) ==
  LET s == parse("statement", list.p)
  IN IF Cur(list.p).t \in {"}", "EOF"} THEN list ELSE StmtsUntilBrace(N(s.p, Append(list.n, s.n)))

parse_block(p) ==
  LET b == StmtsUntilBrace(N(expect(p, "{"), <<>>)) IN N(expect(b.p, "}"), Block(b.n))

\* An interpolated expression has a parser of its own: its errors are
\* printed and forgotten, and tokens it leaves over are ignored.
parse_expr_substring(toks) == parse("assignment", init_parser(toks)).n

\* The position of the brace that closes the expression starting at j.
RECURSIVE CloseAt(_, _, _)
CloseAt(raw, j, depth) ==
  IF j > Len(raw) THEN j
  ELSE IF raw[j].t = "{" THEN CloseAt(raw, j + 1, depth + 1)
  ELSE IF raw[j].t = "}" THEN IF depth = 1 THEN j ELSE CloseAt(raw, j + 1, depth - 1)
  ELSE CloseAt(raw, j + 1, depth)

RECURSIVE Spelled(_)
Spelled(toks) == IF toks = <<>> THEN "" ELSE tok_str(Head(toks)) \o Spelled(Tail(toks))

\* How many symbols open an interpolation: two for {{ and one for ${.
OpenLen(dbl) == IF dbl THEN 2 ELSE 1

\* The parts of a string from i on, when its literal text began at lit.
RECURSIVE StrParts(_, _, _)
StrParts(raw, i, lit) ==
  LET Is(j, t) == j \in DOMAIN raw /\ raw[j].t = t
      dbl == Is(i, "{") /\ Is(i + 1, "{")
      open == dbl \/ (Is(i, "$") /\ Is(i + 1, "{"))
      text == IF i > lit THEN <<Text(Spelled(SubSeq(raw, lit, i - 1)))>> ELSE <<>>
      from == i + OpenLen(dbl)
      to == CloseAt(raw, from, 1)
      next == IF dbl /\ Is(to + 1, "}") THEN to + 2 ELSE to + 1
  IN IF i > Len(raw) THEN text
     ELSE IF ~open THEN StrParts(raw, i + 1, lit)
     ELSE text \o <<parse_expr_substring(SubSeq(raw, from, to - 1))>> \o StrParts(raw, next, next)

parse_string_literal_token(tok) ==
  LET parts == StrParts(tok.raw, 1, 1) IN IF parts = <<>> THEN Str("") ELSE Interpolated(parts)

-----------------------------------------------------------------------------
\* Expressions

\* One or more expressions separated by commas.
RECURSIVE Exprs(_)
Exprs(p) ==
  LET e == parse("assignment", p) rest == Exprs(advance_p(e.p))
  IN IF check(e.p, ",") THEN N(rest.p, <<e.n>> \o rest.n) ELSE N(e.p, <<e.n>>)

ExprsUntil(p, close) == IF check(p, close) THEN N(p, <<>>) ELSE Exprs(p)

\* The arguments after an opening parenthesis, and the closing one.
parse_arg_list(p) == LET a == ExprsUntil(p, ")") IN N(expect(a.p, ")"), a.n)

RECURSIVE Entries(_)
Entries(p) ==
  LET key == IF check(p, "STR") THEN advance_p(p) ELSE expect(p, "IDENT")
      v == parse("assignment", expect(key, ":"))
      entry == [key |-> IF check(p, "STR") THEN Spelled(Cur(p).raw) ELSE tok_str(Cur(p)), e |-> v.n]
      rest == Entries(advance_p(v.p))
  IN IF check(v.p, ",") THEN N(rest.p, <<entry>> \o rest.n) ELSE N(v.p, <<entry>>)

\* Parameters, return type and body, from the opening parenthesis on.
Signature(p) ==
  LET ps == parse_param_list(expect(p, "("))
      ret == Annotation(expect(ps.p, ")"), Type("void"))
      body == parse("block", ret.p)
  IN N(body.p, [params |-> ps.n, ret |-> ret.n, body |-> body.n])

parse_primary(p) ==
  LET t == Cur(p).t
      q == advance_p(p)
      fun == parse("signature", IF check(IF t = "fun" THEN q ELSE p, "async")
                         THEN expect(advance_p(IF t = "fun" THEN q ELSE p), "fun") ELSE q)
      args == parse_arg_list(ExpectAll(q, <<"IDENT", "(">>))
      inner == parse("assignment", q)
      items == ExprsUntil(q, "]")
      entries == IF check(q, "}") THEN N(q, <<>>) ELSE Entries(q)
  IN CASE t = "NUM" -> N(q, Num(Cur(p).n))
       [] t \in {"true", "false"} -> N(q, Bool(t = "true"))
       [] t = "STR" -> N(q, parse_string_literal_token(Cur(p)))
       [] t \in {"IDENT", "Task", "this", "super"} -> N(q, Id(tok_str(Cur(p))))
       [] t = "new" -> N(args.p, New(tok_str(Cur(q)), args.n))
       [] t = "await" -> N(inner.p, AwaitE(inner.n))
       [] t \in {"fun", "async"} -> N(fun.p, FunLit(fun.n.params, fun.n.ret, fun.n.body))
       [] t = "(" -> N(expect(inner.p, ")"), inner.n)
       [] t = "[" -> N(expect(items.p, "]"), ListLit(items.n))
       [] t = "{" -> N(expect(entries.p, "}"), DataLit(entries.n))
       [] OTHER -> N(advance_p(error_at(p)), Bool(FALSE))

\* After a dot an identifier and most keywords are names.
Keywords == TypeWords \cup
  {"var", "fixed", "fun", "async", "await", "return", "if", "elif", "else", "loop", "do", "while",
   "for", "in", "iterate", "class", "public", "private", "import", "export", "try", "catch",
   "true", "false"}
is_member_name_token(t) == t = "IDENT" \/ t \in Keywords

\* Members, calls and indexes, as many as follow.
RECURSIVE Postfix(_, _)
Postfix(p, e) ==
  LET q == advance_p(p)
      name == tok_str(Cur(q))
      dot == IF is_member_name_token(Cur(q).t) THEN advance_p(q) ELSE expect(q, "IDENT")
      margs == parse_arg_list(advance_p(dot))
      args == parse_arg_list(q)
      idx == parse("assignment", q)
  IN CASE check(p, ".") -> IF check(dot, "(") THEN Postfix(margs.p, CallE(Dot(e, name), margs.n))
                           ELSE Postfix(dot, Dot(e, name))
       [] check(p, "[") -> Postfix(expect(idx.p, "]"), At(e, idx.n))
       [] check(p, "(") -> Postfix(args.p, CallE(e, args.n))
       [] OTHER -> N(p, e)

parse_postfix(p) == LET e == parse_primary(p) IN Postfix(e.p, e.n)

parse_unary(p) ==
  LET e == parse("unary", advance_p(p))
  IN IF Cur(p).t \in {"!", "-"} THEN N(e.p, Un(Cur(p).t, e.n)) ELSE parse_postfix(p)

parse_power(p) ==
  LET l == parse("unary", p) r == parse("power", advance_p(l.p))
  IN IF check(l.p, "**") THEN N(r.p, Bin("**", l.n, r.n)) ELSE l

\* Faulty variant: sums bind tighter than products.
SumsTighter == << {"||"}, {"&&"}, {"==", "!="}, {">", "<", ">=", "<="}, {}, {"<<", ">>"}, {"*", "/", "%"}, {"+", "-"} >>
\* The left-associative levels, loosest first: parse_or, parse_and,
\* parse_equality, parse_comparison, (parse_between), parse_shift, parse_add,
\* parse_mul.
Ops == << {"||"}, {"&&"}, {"==", "!="}, {">", "<", ">=", "<="}, {}, {"<<", ">>"}, {"+", "-"}, {"*", "/", "%"} >>
BetweenLevel == 5

\* value <<< (low, high), after its value.
parse_between(l) ==
  LET lo == parse("assignment", expect(advance_p(l.p), "("))
      hi == parse("assignment", expect(lo.p, ","))
  IN IF check(l.p, "<<<") THEN N(expect(hi.p, ")"), Within(l.n, lo.n, hi.n)) ELSE l

\* The operators of one level that follow its first operand.
RECURSIVE Level(_, _), Rest(_, _), Levels(_, _, _)
Rest(l, lvl) ==
  LET r == Level(advance_p(l.p), lvl + 1)
  IN IF Cur(l.p).t \in Ops[lvl] THEN Rest(N(r.p, Bin(Cur(l.p).t, l.n, r.n)), lvl) ELSE l

\* The levels on the way back from the innermost one, k, to lvl: what one gives
\* is the first operand of the next, and after the last token there is no more.
Levels(l, k, lvl) ==
  IF k < lvl \/ check(l.p, "EOF") THEN l
  ELSE Levels(IF k = BetweenLevel THEN parse_between(l) ELSE Rest(l, k), k - 1, lvl)

Level(p, lvl) == Levels(parse("power", p), Len(Ops), lvl)

parse_ternary(p) ==
  LET c == Level(p, 1)
      t == parse("assignment", advance_p(c.p))
      f == parse("assignment", expect(t.p, ":"))
  IN IF check(c.p, "?") THEN N(f.p, Cond(c.n, t.n, f.n)) ELSE c

\* An assignment token and the operator its node carries.
AssignOps == [o \in {"=", "+=", "-=", "*=", "/=", "%=", "**="} |->
                CASE o = "=" -> "=" [] o = "+=" -> "+" [] o = "-=" -> "-" [] o = "*=" -> "*"
                  [] o = "/=" -> "/" [] o = "%=" -> "%" [] o = "**=" -> "**"]
is_assign_op(t) == t \in DOMAIN AssignOps

parse_assignment(p) ==
  LET l == parse_ternary(p) v == parse("assignment", advance_p(l.p))
  IN IF is_assign_op(Cur(l.p).t) THEN N(v.p, AssignE(AssignOps[Cur(l.p).t], l.n, v.n)) ELSE l

-----------------------------------------------------------------------------
\* Statements: each operator starts after the word that introduces it.

parse_var_or_fixed(p, fixed) ==
  LET t == Annotation(expect(p, "IDENT"), Type("unknown"))
      e == IF check(t.p, "=") THEN parse("assignment", advance_p(t.p)) ELSE N(t.p, NoNode)
      name == tok_str(Cur(p))
  IN N(expect(e.p, ";"), IF fixed THEN Fixed(name, t.n, e.n) ELSE Var(name, t.n, e.n))

\* vector<num> name = [...];
VectorDecl(p) ==
  LET t == parse("type", p)
      q == expect(t.p, "IDENT")
      e == IF check(q, "=") THEN parse("assignment", advance_p(q)) ELSE N(q, NoNode)
  IN N(expect(e.p, ";"), Var(tok_str(Cur(t.p)), t.n, e.n))

parse_fun_decl(p) ==
  LET f == parse("signature", expect(p, "IDENT"))
  IN N(f.p, Fun(tok_str(Cur(p)), f.n.params, f.n.ret, f.n.body))

\* A parenthesised condition and a block.
Guarded(p) ==
  LET c == parse("assignment", expect(p, "(")) b == parse("block", expect(c.p, ")"))
  IN N(b.p, [c |-> c.n, body |-> b.n])

RECURSIVE ElifChain(_)
ElifChain(p) ==
  LET g == Guarded(advance_p(p)) rest == ElifChain(g.p)
  IN IF check(p, "elif") THEN N(rest.p, <<g.n>> \o rest.n) ELSE N(p, <<>>)

parse_if(p) ==
  LET g == Guarded(p)
      elifs == ElifChain(g.p)
      els == IF check(elifs.p, "else") THEN parse("block", advance_p(elifs.p)) ELSE N(elifs.p, NoNode)
  IN N(els.p, If(g.n.c, g.n.body, elifs.n, els.n))

ReturnStmt(p) ==
  LET e == IF check(p, ";") THEN N(p, NoNode) ELSE parse("assignment", p) IN N(expect(e.p, ";"), Return(e.n))

LoopStmt(p) == LET g == Guarded(p) IN N(g.p, Loop(g.n.c, g.n.body))

DoStmt(p) ==
  LET b == parse("block", expect(p, "loop"))
      c == parse("assignment", ExpectAll(b.p, <<"while", "(">>))
  IN N(ExpectAll(c.p, <<")", ";">>), DoLoop(b.n, c.n))

ForStmt(p) ==
  LET q == expect(p, "(")
      iter == parse("assignment", ExpectAll(q, <<"IDENT", "in">>))
      c == IF check(iter.p, ",") THEN parse("assignment", advance_p(iter.p)) ELSE N(iter.p, NoNode)
      b == parse("block", expect(c.p, ")"))
  IN N(b.p, For(tok_str(Cur(q)), iter.n, c.n, b.n))

IterateStmt(p) ==
  LET iter == parse("assignment", expect(p, "("))
      q == expect(iter.p, ",")
      b == parse("block", ExpectAll(q, <<"IDENT", ")">>))
  IN N(b.p, Each(iter.n, tok_str(Cur(q)), b.n))

\* Fields and methods; anything else is reported and skipped.
RECURSIVE Members(_)
Members(p) ==
  LET q == advance_p(p)
      m == CASE check(p, "var")   -> parse_var_or_fixed(q, FALSE)
             [] check(p, "fixed") -> parse_var_or_fixed(q, TRUE)
             [] check(p, "fun")   -> parse_fun_decl(q)
             [] OTHER             -> N(advance_p(error_at(p)), NoNode)
      rest == Members(m.p)
  IN IF Cur(p).t \in {"}", "EOF"} THEN N(p, <<>>)
     ELSE N(rest.p, IF m.n = NoNode THEN rest.n ELSE <<m.n>> \o rest.n)

\* From the word class, or public or private before it.
ClassStmt(p) ==
  LET q == expect(IF Cur(p).t \in {"public", "private"} THEN advance_p(p) ELSE p, "class")
      q1 == expect(q, "IDENT")
      sub == check(q1, "extends")
      q2 == IF sub THEN expect(advance_p(q1), "IDENT") ELSE q1
      ms == Members(expect(q2, "{"))
  IN N(expect(ms.p, "}"),
       Class(tok_str(Cur(q)), IF sub THEN tok_str(Cur(advance_p(q1))) ELSE "", ms.n))

RECURSIVE EnumValues(_), StructFields(_)
EnumValues(p) == LET q == expect(p, "IDENT") IN IF check(q, ",") THEN EnumValues(advance_p(q)) ELSE q
StructFields(p) ==
  IF Cur(p).t \in {"}", "EOF"} THEN p
  ELSE StructFields(expect(parse("type", ExpectAll(p, <<"IDENT", ":">>)).p, ";"))

EnumStmt(p) ==
  LET q == ExpectAll(p, <<"IDENT", "{">>)
  IN N(expect(IF check(q, "}") THEN q ELSE EnumValues(q), "}"), Decl("enum", tok_str(Cur(p))))
StructStmt(p) ==
  N(expect(StructFields(ExpectAll(p, <<"IDENT", "{">>)), "}"), Decl("struct", tok_str(Cur(p))))

\* import "path"; or import name from "path"; an identifier is taken as the
\* name only if it has four letters.
ImportStmt(p) ==
  LET bound == check(p, "IDENT") /\ Len(Cur(p).id) = 4 /\ Cur(p).id # "from"
      q == advance_p(p)
      path == IF ~bound THEN p
              ELSE IF Cur(q) = IdTok("from") THEN advance_p(q) ELSE error_at(q)
  IN N(ExpectAll(path, <<"STR", ";">>), Decl("import", tok_str(Cur(path))))
ExportStmt(p) == N(ExpectAll(p, <<"IDENT", ";">>), Decl("export", tok_str(Cur(p))))

TryStmt(p) ==
  LET b == parse("block", p)
      q == ExpectAll(b.p, <<"catch", "(">>)
      t == Annotation(expect(q, "IDENT"), NoType)
      h == parse("block", expect(t.p, ")"))
  IN N(h.p, Try(b.n, tok_str(Cur(q)), h.n))

ExprStmt(p) == LET e == parse("assignment", p) IN N(expect(e.p, ";"), Do(e.n))

parse_statement(p) ==
  LET q == advance_p(p) t == Cur(p).t
  IN CASE t = "var"     -> parse_var_or_fixed(q, FALSE)
       [] t = "fixed"   -> parse_var_or_fixed(q, TRUE)
       [] t = "if"      -> parse_if(q)
       [] t = "async"   -> parse_fun_decl(expect(q, "fun"))
       [] t = "fun"     -> parse_fun_decl(q)
       [] t = "return"  -> ReturnStmt(q)
       [] t = "loop"    -> LoopStmt(q)
       [] t = "do"      -> DoStmt(q)
       [] t = "for"     -> ForStmt(q)
       [] t = "iterate" -> IterateStmt(q)
       [] t \in {"class", "public", "private"} -> ClassStmt(p)
       [] t = "enum"    -> EnumStmt(q)
       [] t = "struct"  -> StructStmt(q)
       [] t \in {"vector", "matrix"} -> VectorDecl(p)
       [] t = "import"  -> ImportStmt(q)
       [] t = "export"  -> ExportStmt(q)
       [] t = "try"     -> TryStmt(q)
       [] t = "{"       -> parse("block", p)
       [] OTHER         -> ExprStmt(p)

-----------------------------------------------------------------------------
parse(rule, p) ==
  CASE rule = "assignment" -> parse_assignment(p)
    [] rule = "power"      -> parse_power(p)
    [] rule = "unary"      -> parse_unary(p)
    [] rule = "type"       -> parse_type(p)
    [] rule = "signature"  -> Signature(p)
    [] rule = "block"      -> parse_block(p)
    [] rule = "statement"  -> parse_statement(p)

\* Statements up to the end of the file or the first one with an error.
RECURSIVE Program(_)
Program(list) ==
  LET s == parse("statement", list.p)
  IN IF check(list.p, "EOF") \/ list.p.err THEN list ELSE Program(N(s.p, Append(list.n, s.n)))

\* [p, n] with had_error in p.err and the statements in n.
parse_program(toks) == Program(N(init_parser(toks), <<>>))
=============================================================================
