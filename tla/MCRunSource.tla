---------------------------- MODULE MCRunSource ----------------------------
(***************************************************************************)
(* Instances of RunSource: the texts to lex and the programs to run.       *)
(***************************************************************************)
EXTENDS RunSource

NumT == Type("num")
On(e) == Do(CallE(Dot(Id("live"), "on"), <<e>>))
Set(x, e) == Do(AssignE("=", Id(x), e))
Div0 == Bin("/", Num(1), Num(0))
Thunk(stmts) == FunLit(<<>>, Type("void"), Block(stmts))
Taking(x, stmts) == FunLit(<<[name |-> x, type |-> Type("unknown")]>>, Type("void"), Block(stmts))
Fetch == CallE(Dot(Id("http"), "get"), <<Str("url")>>)

\* Texts: every sequence of up to three characters of these kinds, and longer
\* ones around << <, exponents, comments and escapes in strings.
Alphabet == {"1", ".", "e", "+", "=", "*", "/", "<", ">", "\"", "\\", "&", " ", "\n"}
MCTexts == UNION {[1..n -> Alphabet] : n \in 1..3}
           \cup {<<"<", "<", "<", c>> : c \in Alphabet} \cup {<<"1", ".", "1", "e", c, "1">> : c \in Alphabet}
           \cup {<<"/", "*", a, b, "*", "/", c>> : a, b, c \in {"1", "*", "/", "\n"}}
           \cup {<<"/", "/", a, b, c>> : a, b, c \in {"1", "*", "/", "\n"}}
           \cup {<<"\"", a, b, c, d>> : a, b, c, d \in {"1", "\\", "\""}}

\* Documents: every sequence of up to three characters of JSON, and longer ones
\* with two entries or with an escape.
JsonChars == {"{", "}", "[", "]", ":", ",", "\"", "\\", "n", "0", "1", ".", "-", "null", " "}
Quoted(s) == <<"\"">> \o s \o <<"\"">>
JsonTokens == {<<c>> : c \in JsonChars} \cup {Quoted(<<>>), Quoted(<<"n">>), Quoted(<<"\\", "n">>), <<"[", "1">>, <<"{", "}">>}
MCDocuments ==
  UNION {[1..n -> JsonChars] : n \in 1..3}
  \cup {Quoted(a \o b) : a \in {<<"\\">>, <<"\\", "\\">>}, b \in JsonTokens}
  \cup {<<"[">> \o a \o b \o c : a, b, c \in JsonTokens}
  \cup {<<"{">> \o Quoted(<<"n">>) \o a \o b \o <<",">> \o c \o <<":">> \o a \o <<"}">> : a, b, c \in JsonTokens}

\* Statements that fail, assign, shadow, loop, return or leave work behind, on
\* a variable a, a fixed k, a list l and a function f that assigns to a.
Pool ==
  { Set("a", Div0), Set("k", Num(2)), Set("b", Num(3)), On(Id("a")), On(Id("b")),
    On(Interpolated(<<Text("a="), Div0>>)),
    Fixed("a", NumT, Num(5)),
    Block(<<Set("a", Num(2)), Var("a", NumT, Num(3)), Set("a", Num(4))>>),
    Do(AssignE("+", Id("a"), CallE(Id("f"), <<Num(1), Div0>>))),
    For("x", Id("a"), NoNode, Block(<<On(Id("x"))>>)),
    For("x", Id("l"), Bin(">", Id("x"), Num(1)), Block(<<On(Id("x"))>>)),
    On(At(Id("l"), Num(5))), On(CallE(Dot(Id("live"), "in"), <<Div0>>)),
    Do(CallE(Dot(Id("live"), "deg"), <<Str("num"), Id("a"), Div0>>)),
    If(Div0, Block(<<On(Str("then"))>>), <<[c |-> Bool(TRUE), body |-> Block(<<On(Str("elif"))>>)]>>, NoNode),
    If(Bool(FALSE), Block(<<>>), <<[c |-> Div0, body |-> Block(<<>>)]>>, Block(<<On(Str("else"))>>)),
    Loop(Bin("<", Id("a"), Num(3)), Block(<<Do(AssignE("+", Id("a"), Num(1)))>>)),
    Return(Id("a")),
    Try(Block(<<Set("a", Id("nope"))>>), "e", Block(<<Set("a", Num(0))>>)),
    Do(CallE(Dot(CallE(Dot(Id("Task"), "all"), <<Num(4)>>), "then"), <<Taking("r", <<Set("a", Id("r"))>>)>>)),
    Do(CallE(Dot(Fetch, "catch"), <<Taking("r", <<On(Id("r"))>>)>>)),
    Set("a", AwaitE(Fetch)),
    Do(CallE(Dot(Id("l"), "append"), <<Div0>>)),
    Do(CallE(Dot(Id("worker"), "spawn"), <<Thunk(<<On(Id("a")), Set("a", Num(7))>>)>>)),
    Do(CallE(Dot(Id("live"), "after"), <<Num(1), Thunk(<<Set("a", Div0), On(Id("a"))>>)>>)) }

Prelude(withFun) ==
  <<Var("a", NumT, Num(1)), Fixed("k", NumT, Num(1)), Var("l", Type("list"), ListLit(<<Num(1), Num(2)>>))>>
  \o (IF withFun THEN <<Fun("f", <<[name |-> "x", type |-> NumT]>>, NumT,
                            Block(<<Set("a", Id("x")), Return(Id("a"))>>))>> ELSE <<>>)

StmtPrograms ==
  {Prelude(f) \o <<Try(Block(<<s, t>>), "e", Block(<<On(Id("e")), u>>)), On(Str("end"))>> :
     f \in BOOLEAN, s \in Pool, t \in Pool, u \in {On(Id("a")), Set("k", Num(2)), Set("a", Div0), Return(Num(1))}}

\* Three classes, each with or without m, a constructor and f.
SuperM == Do(CallE(Dot(Id("super"), "m"), <<>>))
SuperC == Do(CallE(Id("super"), <<>>))
Method1(class, name, super, kind) ==
  IF kind = "none" THEN <<>>
  ELSE <<Fun(name, <<>>, Type("void"),
             Block(<<On(Str(class \o name))>> \o IF kind = "super" THEN <<super>> ELSE <<>>))>>
Members1(class, n, m, c, f) ==
  (IF f THEN <<Var("f", NumT, Num(n))>> ELSE <<>>)
  \o Method1(class, "m", SuperM, m) \o Method1(class, "constructor", SuperC, c)

Kinds == {"none", "plain", "super"}
ClassPrograms ==
  {<<Class("A", "", Members1("A", 1, m[1], c[1], f[1])),
     Class("B", "A", Members1("B", 2, m[2], c[2], f[2])),
     Class("C", "B", Members1("C", 3, m[3], c[3], f[3])),
     Var("c", ClassType("C"), New("C", <<>>)), Do(CallE(Dot(Id("c"), "m"), <<>>)), On(Dot(Id("c"), "f"))>> :
     m \in [1..3 -> Kinds], c \in {<<"none", "plain", "super">>, <<"plain", "super", "super">>,
                                   <<"super", "none", "super">>, <<"none", "none", "none">>,
                                   <<"plain", "none", "super">>},
     f \in {<<TRUE, FALSE, TRUE>>, <<TRUE, TRUE, FALSE>>, <<FALSE, FALSE, FALSE>>, <<TRUE, FALSE, FALSE>>}}

\* Expressions of two operators, in a function that is never called.
BinOps == UNION {Ops[i] : i \in DOMAIN Ops} \cup {"**"}
Leaf == Id("x")
One == {Bin(o, Leaf, Leaf) : o \in BinOps}
       \cup {Un("!", Leaf), Un("-", Leaf), Within(Leaf, Leaf, Leaf), Cond(Leaf, Leaf, Leaf),
             AssignE("=", Leaf, Leaf), AssignE("**", Leaf, Leaf), AwaitE(Leaf), Dot(Leaf, "m"),
             At(Leaf, Leaf), CallE(Leaf, <<Leaf>>), New("A", <<Leaf, Leaf>>), ListLit(<<Leaf, Leaf>>),
             DataLit(<<[key |-> "k", e |-> Leaf]>>), Interpolated(<<Text("t"), Leaf, Text("u")>>),
             FunLit(<<>>, Type("void"), Block(<<Return(Leaf)>>))}
Two == UNION {
  {Bin(o, e, Leaf), Bin(o, Leaf, e)} : o \in BinOps, e \in One}
  \cup UNION {{Un("-", e), Within(e, Leaf, e), Cond(e, e, Leaf), Cond(Leaf, Leaf, e), AssignE("=", Leaf, e),
               AwaitE(e), Dot(e, "m"), At(e, e), CallE(e, <<e, Leaf>>), ListLit(<<e>>),
               Interpolated(<<e>>), DataLit(<<[key |-> "k", e |-> e]>>)} : e \in One}
ExprPrograms == {<<Fun("g", <<[name |-> "x", type |-> Type("unknown")]>>, Type("void"), Block(<<Return(e)>>))>> : e \in Two}

\* One of each statement the other programs do not have.
OtherStmts ==
  {<<Decl("struct", "S"), Decl("enum", "E"), Decl("import", "string"), Decl("export", "S")>>,
   <<Var("d", Type("data"), DataLit(<<[key |-> "p", e |-> Num(1)], [key |-> "q", e |-> Num(2)]>>)),
     Each(Id("d"), "v", Block(<<On(Id("v"))>>)),
     DoLoop(Block(<<Do(AssignE("+", Dot(Id("d"), "p"), Num(1)))>>), Bin("<", Dot(Id("d"), "p"), Num(3))),
     Return(NoNode)>>}

\* Three operations on a list, the second through another name of it: its
\* methods, an assignment, and loops over it whose body changes it.
ListOp(x) ==
  LET M(name, args) == Do(CallE(Dot(Id(x), name), args))
      Small == Bin("<", Id("x"), Num(2))
  IN { M("append", <<Num(3)>>), M("insert", <<Num(0)>>), M("delete", <<Num(0)>>), M("delete", <<Num(1)>>),
       M("delete", <<Num(7)>>), M("sort", <<>>), M("concat", <<ListLit(<<Num(1), Num(4)>>)>>),
       Do(AssignE("=", At(Id(x), Num(0)), Num(9))),
       For("x", Id("l"), Small, Block(<<Do(CallE(Dot(Id(x), "append"), <<Bin("+", Id("x"), Num(1))>>))>>)),
       For("x", Id("l"), NoNode, Block(<<M("insert", <<Num(0)>>)>>)),
       For("x", Id("l"), NoNode, Block(<<M("delete", <<Num(1)>>)>>)),
       For("x", Id("l"), Small, Block(<<M("delete", <<Num(0)>>)>>)),
       For("x", Id("l"), NoNode, Block(<<M("sort", <<>>)>>)) }
ListPrograms ==
  {<<Var("l", Type("list"), ListLit(<<Num(2), Num(1)>>)), Var("m", Type("list"), Id("l")),
     a, b, On(Id("l")), c, On(Id("m"))>> : a \in ListOp("l"), b \in ListOp("m"), c \in ListOp("l")}

\* A string with one expression in it, for the other way to open it.
MCStringPrograms ==
  {<<Var("s", Type("string"), Interpolated(parts))>> :
     parts \in UNION {{<<Text("t"), e, Text("u")>>, <<e>>, <<e, Text("u")>>, <<Leaf, e>>} : e \in One \cup {Leaf}}}

MCPrograms == ListPrograms \cup StmtPrograms \cup ClassPrograms \cup ExprPrograms \cup OtherStmts
=============================================================================
