-------------------------------- MODULE Lexer --------------------------------
(***************************************************************************)
(* The lexer (src/src/lexer/lexer.c).  A source is a sequence of           *)
(* characters; cur is the position of the next one.  A lexeme is           *)
(* [t, from, to]: its token class and the first and last of its            *)
(* characters.  The keyword table only renames identifiers and is left     *)
(* out; so are line numbers.                                               *)
(***************************************************************************)
EXTENDS Integers, Sequences, FiniteSetsExt

Digits  == {"0", "1", "2"}
Letters == {"a", "e", "E", "_"}
Blanks  == {" ", "\t", "\r", "\n"}

\* The character at a position; NUL past the end.
CharAt(src, i) == IF i \in DOMAIN src THEN src[i] ELSE "NUL"

\* The first position from i on where the characters stop being in set.
RECURSIVE Past(_, _, _)
Past(src, i, set) == IF CharAt(src, i) \in set THEN Past(src, i + 1, set) ELSE i

RECURSIVE LineEnd(_, _), CommentEnd(_, _)
LineEnd(src, i) == IF CharAt(src, i) \in {"NUL", "\n"} THEN i ELSE LineEnd(src, i + 1)
CommentEnd(src, i) ==
  IF CharAt(src, i) = "NUL" THEN i
  ELSE IF CharAt(src, i) = "*" /\ CharAt(src, i + 1) = "/" THEN i + 2 ELSE CommentEnd(src, i + 1)

RECURSIVE skip_ws_and_comments(_, _)
skip_ws_and_comments(src, i) ==
  CASE CharAt(src, i) \in Blanks -> skip_ws_and_comments(src, i + 1)
    [] CharAt(src, i) = "/" /\ CharAt(src, i + 1) = "/" -> skip_ws_and_comments(src, LineEnd(src, i))
    [] CharAt(src, i) = "/" /\ CharAt(src, i + 1) = "*" -> skip_ws_and_comments(src, CommentEnd(src, i + 2))
    [] OTHER -> i

make(t, from, next) == [t |-> t, from |-> from, to |-> next - 1]

identifier_or_keyword(src, i) == make("IDENT", i, Past(src, i, Letters \cup Digits))

AfterSign(src, i) == IF CharAt(src, i) \in {"+", "-"} THEN i + 1 ELSE i
\* Faulty variant: an E after a number always starts an exponent.
AnyExponent(src, i) == CharAt(src, i) \in {"E", "e"}
\* An exponent needs a digit, or the E is left for the next token.
HasExponent(src, i) ==
  CharAt(src, i) \in {"E", "e"} /\ CharAt(src, AfterSign(src, i + 1)) \in Digits

number(src, i) ==
  LET int  == Past(src, i, Digits)
      dec  == CharAt(src, int) = "." /\ CharAt(src, int + 1) \in Digits
      frac == IF dec THEN Past(src, int + 1, Digits) ELSE int
      sci  == HasExponent(src, frac)
  IN make(IF sci THEN "SCIFI" ELSE IF dec THEN "DECIMAL" ELSE "NUM", i,
          IF sci THEN Past(src, AfterSign(src, frac + 1), Digits) ELSE frac)

\* The closing quote, or the end of the source; a backslash takes the next
\* character with it.
RECURSIVE QuoteAt(_, _)
QuoteAt(src, i) ==
  IF CharAt(src, i) \in {"NUL", "\""} THEN i
  ELSE QuoteAt(src, IF CharAt(src, i) = "\\" /\ CharAt(src, i + 1) # "NUL" THEN i + 2 ELSE i + 1)

string_lit(src, i) ==
  LET q == QuoteAt(src, i + 1) IN make("STR", i, IF CharAt(src, q) = "NUL" THEN q ELSE q + 1)

\* Operators and punctuation: how many characters the one at i takes, 0 for
\* a character that starts none.
PunctLen(src, i) ==
  LET c == CharAt(src, i) d == CharAt(src, i + 1) e == CharAt(src, i + 2)
  IN CASE c \in {"(", ")", "{", "}", "[", "]", ";", ":", ",", ".", "?"} -> 1
       [] c = "*" /\ d = "*" -> IF e = "=" THEN 3 ELSE 2
       [] c \in {"+", "-", "*", "/", "%", "=", "!"} -> IF d = "=" THEN 2 ELSE 1
       [] c \in {"&", "|"} -> IF d = c THEN 2 ELSE 0
       [] c = ">" -> IF d \in {"=", ">"} THEN 2 ELSE 1
       [] c = "<" -> IF d = "=" THEN 2 ELSE IF d = "<" THEN IF e = "<" THEN 3 ELSE 2 ELSE 1
       [] OTHER -> 0

lexer_next(src, cur) ==
  LET i == skip_ws_and_comments(src, cur)
      c == CharAt(src, i)
  IN CASE c = "NUL" -> make("EOF", i, i)
       [] c \in Letters -> identifier_or_keyword(src, i)
       [] c \in Digits  -> number(src, i)
       [] c = "\""      -> string_lit(src, i)
       [] OTHER -> IF PunctLen(src, i) = 0 THEN make("ERROR", i, i + 1)
                   ELSE make("PUNCT", i, i + PunctLen(src, i))

\* The tokens from cur on, as the parser reads them one by one.
RECURSIVE Lexemes(_, _)
Lexemes(src, cur) ==
  LET tok == lexer_next(src, cur)
  IN IF tok.t = "EOF" THEN <<>> ELSE <<tok>> \o Lexemes(src, tok.to + 1)
=============================================================================
