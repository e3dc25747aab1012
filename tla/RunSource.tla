------------------------------ MODULE RunSource ------------------------------
(***************************************************************************)
(* One run of a source file (run_source in src/src/main.c): lexer, parser, *)
(* type checker and interpreter in turn, each stopping the run when it     *)
(* fails, then the functions the program left to a worker thread or to a   *)
(* timer of the reactor.  A source is a text of characters, which is only  *)
(* lexed, a program, whose text is the tokens Printer writes it with, or a *)
(* JSON document, which json.parse reads.                                  *)
(***************************************************************************)
EXTENDS Interp, Typecheck, Printer, Json

CONSTANTS Texts,        \* sequences of characters
          Documents,    \* sequences of characters, for json.parse
          Programs,     \* sequences of statements
          Openers,      \* how the text of a program opens interpolations
          MaxFuel       \* blocks and loop passes a run may take

VARIABLES src,    \* the source: [text, doc, prog, open], all but one of the first three empty
          stage,  \* how far the run has come
          lexed,  \* the lexemes of a text
          json,   \* what json.parse made of a document
          toks,   \* the tokens of a program
          tree,   \* what parse_program gave
          errs,   \* what typecheck_program reported
          st      \* the interpreter
vars == <<src, stage, lexed, json, toks, tree, errs, st>>

Init == /\ src \in [text : Texts, doc : {<<>>}, prog : {<<>>}, open : {"{{"}]
                  \cup [text : {<<>>}, doc : Documents, prog : {<<>>}, open : {"{{"}]
                  \cup [text : {<<>>}, doc : {<<>>}, prog : Programs, open : Openers]
        /\ stage = "read"
        /\ lexed = <<>> /\ json = JVoid /\ toks = <<>> /\ errs = <<>>
        /\ tree = N(init_parser(<<>>), <<>>)
        /\ st = interp_init(MaxFuel)

Lex == /\ stage = "read" /\ src.doc = <<>>
       /\ lexed' = Lexemes(src.text, 1)
       /\ toks' = IF src.open = "{{" THEN Stmts(src.prog) ELSE Dollars(Stmts(src.prog))
       /\ stage' = IF src.prog = <<>> THEN "lexed" ELSE "parse"
       /\ UNCHANGED <<src, json, tree, errs, st>>

ReadJson == /\ stage = "read" /\ src.doc # <<>>
            /\ json' = json_parse(src.doc)
            /\ stage' = "json"
            /\ UNCHANGED <<src, lexed, toks, tree, errs, st>>

Parse == /\ stage = "parse"
         /\ tree' = parse_program(toks)
         /\ stage' = IF tree'.p.err THEN "parsing failed" ELSE "check"
         /\ UNCHANGED <<src, lexed, json, toks, errs, st>>

Check == /\ stage = "check"
         /\ errs' = typecheck_program(tree.n)
         /\ stage' = IF errs' = <<>> THEN "run" ELSE "type errors"
         /\ UNCHANGED <<src, lexed, json, toks, tree, st>>

Run == /\ stage = "run"
       /\ st' = interp_run(st, tree.n)
       /\ stage' = "reactor"
       /\ UNCHANGED <<src, lexed, json, toks, tree, errs>>

\* A worker thread or a timer runs one of the functions left to it.  A worker
\* may start before the script has ended; that the script does not take the
\* interpreter lock, and races with it, is not modelled.
RunJob == /\ stage = "reactor"
          /\ \E i \in DOMAIN st.jobs :
               LET job == st.jobs[i]
                   s == [st EXCEPT !.jobs = SubSeq(@, 1, i - 1) \o SubSeq(@, i + 1, Len(@))]
               IN st' = (IF job.via = "worker" THEN interp_invoke(s, job.f, <<>>)
                                               ELSE interp_invoke_closure(s, job.f, <<>>)).st
          /\ UNCHANGED <<src, stage, lexed, json, toks, tree, errs>>

Next == Lex \/ ReadJson \/ Parse \/ Check \/ Run \/ RunJob
Spec == Init /\ [][Next]_vars

-----------------------------------------------------------------------------
\* Properties

\* Reference for the lexer: whether a sequence of characters is one lexeme.
AllIn(s, set) == \A i \in DOMAIN s : s[i] \in set
IsInt(s) == s # <<>> /\ AllIn(s, Digits)
IsNumber(s) ==
  \E i \in 0..Len(s) : \E j \in i..Len(s) :
    LET int == SubSeq(s, 1, i) frac == SubSeq(s, i + 1, j) exp == SubSeq(s, j + 1, Len(s))
    IN /\ IsInt(int)
       /\ frac = <<>> \/ (frac[1] = "." /\ IsInt(Tail(frac)))
       /\ exp = <<>> \/ (exp[1] \in {"e", "E"}
                          /\ (IsInt(Tail(exp)) \/ (Len(exp) > 1 /\ exp[2] \in {"+", "-"} /\ IsInt(SubSeq(exp, 3, Len(exp))))))
IsName(s) == s # <<>> /\ s[1] \in Letters /\ AllIn(s, Letters \cup Digits)
Puncts == {<<"(">>, <<";">>, <<".">>, <<"+">>, <<"+", "=">>, <<"*">>, <<"*", "=">>, <<"*", "*">>,
           <<"*", "*", "=">>, <<"/">>, <<"/", "=">>, <<"=">>, <<"=", "=">>, <<"&", "&">>, <<"<">>,
           <<"<", "=">>, <<"<", "<">>, <<"<", "<", "<">>, <<">">>, <<">", "=">>, <<">", ">">>}
IsLexeme(s) == IsNumber(s) \/ IsName(s) \/ s \in Puncts

\* A string: a quote, and no other before the last character that a backslash
\* does not take with it.
Taken(s, i) == \E n \in 1..(i - 2) : n % 2 = 1 /\ AllIn(SubSeq(s, i - n, i - 1), {"\\"}) /\ s[i - n - 1] # "\\"
Quotes(s) == {i \in 2..Len(s) : s[i] = "\"" /\ ~Taken(s, i)}
IsString(s, last) == s[1] = "\"" /\ (Quotes(s) = {Len(s)} \/ (last /\ Quotes(s) = {}))

\* What may lie between two tokens: blanks, comments up to the end of their
\* line, and comments up to the first that closes them.  Only at the end of the
\* text may a comment be left open.
Opens(s, i, next) == i < Len(s) /\ s[i] = "/" /\ s[i + 1] \in next
Closers(s) == {i \in 3..(Len(s) - 1) : s[i] = "*" /\ s[i + 1] = "/"}
RECURSIVE IsGap(_, _)
IsGap(s, last) ==
  \/ s = <<>>
  \/ s # <<>> /\ s[1] \in Blanks /\ IsGap(Tail(s), last)
  \/ /\ Opens(s, 1, {"/"})
     /\ \/ last /\ AllIn(s, Range(s) \ {"\n"})
        \/ \E n \in DOMAIN s : /\ s[n] = "\n" /\ "\n" \notin Range(SubSeq(s, 1, n - 1))
                            /\ IsGap(SubSeq(s, n + 1, Len(s)), last)
  \/ /\ Opens(s, 1, {"*"})
     /\ IF Closers(s) = {} THEN last ELSE IsGap(SubSeq(s, Min(Closers(s)) + 2, Len(s)), last)

\* Whether a lexeme of a text is one: a string that ends where it is closed, a
\* character that starts nothing, or the longest lexeme that starts there.
WellLexed(text, tok) ==
  LET Upto(n) == SubSeq(text, tok.from, n)
      whole == {n \in tok.from..Len(text) : IsLexeme(Upto(n))}
  IN CASE tok.t = "STR"   -> IsString(Upto(tok.to), tok.to = Len(text))
       [] tok.t = "ERROR" -> tok.to = tok.from /\ whole = {} /\ text[tok.from] \notin Blanks \cup {"\""}
       [] OTHER -> whole # {} /\ tok.to = Max(whole) /\ ~Opens(text, tok.from, {"/", "*"})

\* Every token is the longest that starts where it starts, a character is an
\* error only when no token starts with it, a string ends at the first quote
\* that is not escaped, and what lies between two tokens is blanks and whole
\* comments: lexer_next's match, peek and backtracking never split or join
\* tokens, and a comment never takes more or less than itself.
LongestTokens ==
  stage = "lexed" =>
    LET End(k) == IF k = 0 THEN 0 ELSE lexed[k].to
        Start(k) == IF k > Len(lexed) THEN Len(src.text) + 1 ELSE lexed[k].from
    IN /\ \A k \in DOMAIN lexed : WellLexed(src.text, lexed[k])
       /\ \A k \in 0..Len(lexed) : IsGap(SubSeq(src.text, End(k) + 1, Start(k + 1) - 1), k = Len(lexed))

\* Values that are the same but for a decimal that has no fraction, which %g
\* writes like an integer, and the sign of 0.
RECURSIVE SameJson(_, _)
SameJson(a, b) ==
  CASE a.k \in {"num", "dec"} ->
         /\ b.k \in {"num", "dec"} /\ a.int = b.int /\ a.frac = b.frac
         /\ a.neg = b.neg \/ a.int \o a.frac = <<>>
    [] a.k = "list" -> b.k = "list" /\ Len(a.items) = Len(b.items)
                         /\ \A i \in DOMAIN a.items : SameJson(a.items[i], b.items[i])
    [] a.k = "data" -> b.k = "data" /\ Len(a.pairs) = Len(b.pairs)
                         /\ \A i \in DOMAIN a.pairs :
                              a.pairs[i][1] = b.pairs[i][1] /\ SameJson(a.pairs[i][2], b.pairs[i][2])
    [] OTHER -> a = b

\* Whether no key in a value has a quote or a backslash.
RECURSIVE PlainKeys(_)
PlainKeys(v) ==
  CASE v.k = "list" -> \A i \in DOMAIN v.items : PlainKeys(v.items[i])
    [] v.k = "data" -> \A i \in DOMAIN v.pairs :
         Range(v.pairs[i][1]) \cap {"\"", "\\"} = {} /\ PlainKeys(v.pairs[i][2])
    [] OTHER -> TRUE

\* Whatever json.parse makes of a document, well-formed or not, comes back when
\* json.stringify writes it and json.parse reads it again: escapes, nesting, the
\* order of entries and empty collections survive.  Keys that need an escape
\* are excluded, because json.stringify writes none in keys.
JsonRoundTrip == stage = "json" /\ PlainKeys(json) => SameJson(json_parse(json_stringify(json)), json)

\* The parser gives back the tree a text was written from: precedence,
\* associativity and the nesting of blocks, calls and interpolations are read
\* as Printer writes them, and nothing of a well-formed text is an error.
Parsed == src.prog # <<>> /\ stage \notin {"read", "parse"}
ParsesBack == Parsed /\ src.open = "{{" => tree.n = src.prog /\ ~tree.p.err

\* The other way to open an interpolation, ${ }, gives the same tree, as the
\* language guide says of the two forms.
DollarParsesBack == Parsed /\ src.open = "${" => tree.n = src.prog


\* A catch takes the error away: the error caught is the last one that was
\* raised, with no line of live.on in between, and once the handler has run
\* without another the run is not failing.
CaughtOnce ==
  LET n(ev) == {i \in DOMAIN st.trace : st.trace[i].ev = ev}
      last(ev) == Max(n(ev) \cup {0})
  IN /\ \A c \in n("catch") : \E i \in n("error") :
          /\ i < c /\ st.trace[i].s = st.trace[c].s
          /\ \A j \in (i + 1)..(c - 1) : st.trace[j].ev \in {"in", "deg"}
     /\ st.fuel > 0 => (st.err # NoError <=> last("error") > last("catch"))

\* Whether a statement list declares functions or classes anywhere, or passes
\* a function literal to a call.
RECURSIVE HasFun(_)
HasFun(list) ==
  \E i \in DOMAIN list :
    LET s == list[i]
    IN \/ s.k \in {"fundecl", "class"}
       \/ s.k = "expr" /\ s.e.k = "call" /\ \E a \in Range(s.e.args) : a.k = "fun"
       \/ s.k = "block" /\ HasFun(s.stmts)
       \/ s.k \in {"if", "while", "do", "for", "iterate", "try"} /\ HasFun(s.body.stmts)
       \/ s.k = "try" /\ HasFun(s.handler.stmts)

\* In a program without functions or classes, the checker has found
\* every assignment to a fixed variable that the interpreter would run into.
FixedFoundEarly ==
  stage = "reactor" /\ ~HasFun(src.prog)
    => \A i \in DOMAIN st.trace : st.trace[i].s # "cannot reassign fixed variable"

\* Reference for objects: what a program prints that declares classes one below
\* the other, the root first, and then makes one object of the last class,
\* calls its method m and prints its field f.  A body is a line to print and
\* perhaps a call of super.
Own(class, name) == {i \in DOMAIN class.members : class.members[i].name = name}
Line(s) == <<[ev |-> "on", s |-> s]>>
Fault(s) == <<[ev |-> "error", s |-> s]>>

\* What running a method prints: the nearest class of cs that has it, cs being
\* the chain of classes from the one asked first up to the root.
RECURSIVE Says(_, _, _)
Says(cs, name, absent) ==
  IF cs = <<>> THEN absent
  ELSE IF Own(cs[1], name) = {} THEN Says(Tail(cs), name, absent)
  ELSE LET body == cs[1].members[Min(Own(cs[1], name))].body.stmts
           up == IF name = "m" THEN Fault("no parent method to call via super") ELSE <<>>
       IN Line(body[1].e.args[1].parts[1].s)
          \o (IF Len(body) = 1 THEN <<>>
              ELSE IF Len(cs) = 1 THEN Fault("undefined variable")
              ELSE Says(Tail(cs), name, up))

RECURSIVE FieldSays(_)
FieldSays(cs) ==
  IF cs = <<>> THEN Fault("no such field")
  ELSE IF Own(cs[1], "f") = {} THEN FieldSays(Tail(cs))
  ELSE Line(ToString(cs[1].members[Min(Own(cs[1], "f"))].e.n))

\* The three phases in order, as far as no error stops them.
RECURSIVE UntilFault(_)
UntilFault(phases) ==
  IF phases = <<>> THEN <<>>
  ELSE LET p == Head(phases)
       IN IF \E i \in DOMAIN p : p[i].ev = "error" THEN p ELSE p \o UntilFault(Tail(phases))

\* Objects behave as single inheritance says: a constructor or method runs the
\* nearest definition above the object's class, super goes on from the class
\* that contains the call and not from the object's, and a field has the value
\* its most derived declaration gives it.
Dispatch ==
  LET classes == SelectSeq(src.prog, LAMBDA s : s.k = "class")
      cs == [i \in DOMAIN classes |-> classes[Len(classes) + 1 - i]]
  IN stage = "reactor" /\ classes # <<>> =>
       st.trace = UntilFault(<<Says(cs, "constructor", <<>>), Says(cs, "m", Fault("no such method")), FieldSays(cs)>>)

\* Reference for lists: the sequence of numbers a list stands for.  The list
\* after one call of a method on it:
Method1After(q, name, args) ==
  LET n == args[1].n
  IN CASE name = "append" -> Append(q, n)
       [] name = "insert" -> <<n>> \o q
       [] name = "delete" -> IF n < Len(q) THEN RemoveAt(q, n + 1) ELSE q
       [] name = "sort"   -> SortSeq(q, LAMBDA a, b : a < b)
       [] name = "concat" -> q \o [i \in DOMAIN args[1].items |-> args[1].items[i].n]

\* After a loop over it that has come to its i-th element: the loop goes on
\* into what its body appends, never sees what it inserts in front, and goes
\* through the elements as they were before its body sorted them.  A body that
\* deletes the element the loop is at frees the cell the loop goes on from.
RECURSIVE Looped(_, _, _)
Looped(q, i, loop) ==
  LET call == loop.body.stmts[1].e
      name == call.callee.name
      n == call.args[1].n
      gone == name = "delete" /\ n < Len(q)
  IN IF i > Len(q) THEN [q |-> q, freed |-> FALSE]
     ELSE IF loop.c # NoNode /\ q[i] >= 2 THEN Looped(q, i + 1, loop)
     ELSE IF name = "append" THEN Looped(Append(q, q[i] + 1), i + 1, loop)
     ELSE IF name = "sort" \/ (gone /\ n + 1 = i) THEN [q |-> Method1After(q, name, call.args), freed |-> gone]
     ELSE Looped(Method1After(q, name, call.args),
                 IF name = "insert" THEN i + 2 ELSE IF gone /\ n + 1 < i THEN i ELSE i + 1, loop)

After(q, s) == IF s.k = "for" THEN Looped(q, 1, s)
               ELSE [q |-> Method1After(q, s.e.callee.name, s.e.args), freed |-> FALSE]

RECURSIVE ListSays(_, _)
ListSays(stmts, q) ==
  IF stmts = <<>> THEN <<>>
  ELSE LET s == Head(stmts)
       IN IF s.k = "expr" /\ s.e.k = "assign"
            THEN IF q = <<>> THEN Fault("list index out of range")
                             ELSE ListSays(Tail(stmts), [q EXCEPT ![1] = s.e.e.n])
          ELSE IF s.k = "expr" /\ s.e.callee.name = "on"
            THEN Line("[" \o Joined([i \in DOMAIN q |-> ToString(q[i])]) \o "]") \o ListSays(Tail(stmts), q)
          ELSE IF After(q, s).freed THEN <<>> ELSE ListSays(Tail(stmts), After(q, s).q)

\* A list is a sequence shared by all its names: whatever methods, assignments
\* and loops a program applies to it through either of two names, the linked
\* cells hold what the operations on sequences say, also when a loop's body
\* changes the list it walks.  The one exception is a body that deletes the
\* element its loop is at: the loop then goes on from a freed cell, what happens
\* is undefined, and the reference, like the model, ends the run there.  In every
\* program, no list holds a freed cell or one of another list.
ListsAreSequences ==
  /\ Linked(st, [l \in DOMAIN st.lists |-> CellsOf(st, l)])
  /\ stage = "reactor" /\ src.prog[1].k = "var" /\ src.prog[1].name = "l"
    => st.trace = ListSays(SubSeq(src.prog, 3, Len(src.prog)),
                           [i \in DOMAIN src.prog[1].e.items |-> src.prog[1].e.items[i].n])
=============================================================================
