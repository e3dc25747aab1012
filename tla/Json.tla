-------------------------------- MODULE Json --------------------------------
(***************************************************************************)
(* json.parse and json.stringify (src/src/runtime/json.c).  A document is  *)
(* a sequence of characters, in which true, false and null are one each;   *)
(* strings of values are sequences of characters too.  Parsing gives       *)
(* [v, i]: a value and the position behind it.  It never fails: whatever   *)
(* does not fit is skipped or taken for the number 0.  A number is its     *)
(* sign and its digits before and behind the point; exponents, and numbers *)
(* too long for a long long or for %g, are left out.                       *)
(***************************************************************************)
EXTENDS Lexer, SequencesExt

JVoid == [k |-> "void"]
JBool(b) == [k |-> "bool", b |-> b]
JStr(s) == [k |-> "str", s |-> s]
JNum(neg, int) == [k |-> "num", neg |-> neg, int |-> int, frac |-> <<>>]
JDec(neg, int, frac) == [k |-> "dec", neg |-> neg, int |-> int, frac |-> frac]
JList(items) == [k |-> "list", items |-> items]
JData(pairs) == [k |-> "data", pairs |-> pairs]     \* newest first, as DataNodes are

\* value_data_set on pairs <<key, value>>
SetPair(pairs, key, v) ==
  LET at == {i \in DOMAIN pairs : pairs[i][1] = key}
  IN IF at = {} THEN <<<<key, v>>>> \o pairs ELSE [pairs EXCEPT ![Min(at)] = <<key, v>>]

json_skip_ws(d, i) == Past(d, i, Blanks)

\* What a backslash makes of the character behind it.
Unescaped(c) == IF c = "n" THEN "\n" ELSE IF c = "t" THEN "\t" ELSE c

\* The characters up to the closing quote, or to the end if there is none.
RECURSIVE RawChars(_, _)
RawChars(d, i) ==
  LET c == CharAt(d, i)
      esc == c = "\\" /\ CharAt(d, i + 1) # "NUL"
      rest == RawChars(d, IF esc THEN i + 2 ELSE i + 1)
  IN IF c \in {"NUL", "\""} THEN [v |-> <<>>, i |-> IF c = "\"" THEN i + 1 ELSE i]
     ELSE [v |-> <<IF esc THEN Unescaped(d[i + 1]) ELSE c>> \o rest.v, i |-> rest.i]

\* Without an opening quote the string is empty and nothing is read.
json_parse_string_raw(d, i) ==
  IF CharAt(d, i) = "\"" THEN RawChars(d, i + 1) ELSE [v |-> <<>>, i |-> i]

\* Digits without the zeros in front: what atoll and atof make of them.
RECURSIVE NoZeros(_)
NoZeros(s) == IF s # <<>> /\ s[1] = "0" THEN NoZeros(Tail(s)) ELSE s

ParseNumber(d, i) ==
  LET neg == CharAt(d, i) = "-"
      from == IF neg THEN i + 1 ELSE i
      point == Past(d, from, Digits)
      float == CharAt(d, point) = "."
      end == IF float THEN Past(d, point + 1, Digits) ELSE point
      int == NoZeros(SubSeq(d, from, point - 1))
      frac == Reverse(NoZeros(Reverse(SubSeq(d, point + 1, end - 1))))
  IN [v |-> IF float THEN JDec(neg, int, frac) ELSE JNum(neg /\ int # <<>>, int), i |-> end]

RECURSIVE json_parse_value(_, _)

\* The entries of an object and the items of a list, from i on: a comma asks
\* for another one, anything else ends them, and only a closing bracket is read.
RECURSIVE ParseEntries(_, _, _), ParseItems(_, _, _)
ParseEntries(d, i, pairs) ==
  LET key == json_parse_string_raw(d, json_skip_ws(d, i))
      colon == json_skip_ws(d, key.i)
      val == json_parse_value(d, IF CharAt(d, colon) = ":" THEN colon + 1 ELSE colon)
      now == SetPair(pairs, key.v, val.v)
      next == json_skip_ws(d, val.i)
  IN CASE CharAt(d, next) = "," -> ParseEntries(d, next + 1, now)
       [] CharAt(d, next) = "}" -> [v |-> JData(now), i |-> next + 1]
       [] OTHER -> [v |-> JData(now), i |-> next]

ParseItems(d, i, items) ==
  LET item == json_parse_value(d, i)
      now == Append(items, item.v)
      next == json_skip_ws(d, item.i)
  IN CASE CharAt(d, next) = "," -> ParseItems(d, next + 1, now)
       [] CharAt(d, next) = "]" -> [v |-> JList(now), i |-> next + 1]
       [] OTHER -> [v |-> JList(now), i |-> next]

json_parse_value(d, from) ==
  LET i == json_skip_ws(d, from)
      c == CharAt(d, i)
      str == json_parse_string_raw(d, i)
      inner == json_skip_ws(d, i + 1)
  IN CASE c = "\"" -> [v |-> JStr(str.v), i |-> str.i]
       [] c = "{" -> IF CharAt(d, inner) = "}" THEN [v |-> JData(<<>>), i |-> inner + 1]
                                               ELSE ParseEntries(d, inner, <<>>)
       [] c = "[" -> IF CharAt(d, inner) = "]" THEN [v |-> JList(<<>>), i |-> inner + 1]
                                               ELSE ParseItems(d, inner, <<>>)
       [] c \in {"true", "false"} -> [v |-> JBool(c = "true"), i |-> i + 1]
       [] c = "null" -> [v |-> JVoid, i |-> i + 1]
       [] OTHER -> ParseNumber(d, i)

json_parse(d) == json_parse_value(d, 1).v

-----------------------------------------------------------------------------
\* Faulty variant: only quotes are escaped.
EscapedQuotes(c) == IF c = "\"" THEN <<"\\", c>> ELSE <<c>>
\* A character of a string value; keys are written as they are.
Escaped(c) == IF c \in {"\"", "\\"} THEN <<"\\", c>> ELSE IF c = "\n" THEN <<"\\", "n">> ELSE <<c>>

NumberText(v) ==
  (IF v.neg THEN <<"-">> ELSE <<>>) \o (IF v.int = <<>> THEN <<"0">> ELSE v.int)
    \o (IF v.frac = <<>> THEN <<>> ELSE <<".">> \o v.frac)

\* Several texts with commas between them.
RECURSIVE CommaSeparated(_)
CommaSeparated(ss) ==
  IF ss = <<>> THEN <<>> ELSE IF Len(ss) = 1 THEN ss[1] ELSE ss[1] \o <<",">> \o CommaSeparated(Tail(ss))

\* Objects are written oldest entry first.
RECURSIVE json_stringify(_)
json_stringify(v) ==
  CASE v.k = "str" -> <<"\"">> \o FlattenSeq([i \in DOMAIN v.s |-> Escaped(v.s[i])]) \o <<"\"">>
    [] v.k \in {"num", "dec"} -> NumberText(v)
    [] v.k = "bool" -> <<IF v.b THEN "true" ELSE "false">>
    [] v.k = "list" -> <<"[">> \o CommaSeparated([i \in DOMAIN v.items |-> json_stringify(v.items[i])]) \o <<"]">>
    [] v.k = "data" ->
         LET old == Reverse(v.pairs)
         IN <<"{">> \o CommaSeparated([i \in DOMAIN old |->
                <<"\"">> \o old[i][1] \o <<"\"", ":">> \o json_stringify(old[i][2])]) \o <<"}">>
    [] OTHER -> <<"null">>
=============================================================================
