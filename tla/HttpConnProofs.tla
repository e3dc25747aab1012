--------------------------- MODULE HttpConnProofs ---------------------------
(***************************************************************************)
(* What holds of an HTTP exchange for all requests, route tables, handlers *)
(* and limits, wherever recv() and send() cut the streams and whenever one *)
(* of the two sides goes away.  Each buffer and each stream is a piece of  *)
(* one message; the invariant says which and where it starts.              *)
(***************************************************************************)
EXTENDS HttpConn, SequenceTheorems, FiniteSetTheorems, WellFoundedInduction, TLAPS

\* What the streams carry: bytes, the unit that opens a head, and heads.  (The
\* provers do not know that the text of a literal is a string.)
Unit ==
    STRING \cup {"Not Found", [head |-> "open"]}
    \cup [method : STRING, path : Seq(STRING), cl : Int]
    \cup [status : Statuses, cl : Int]

\* The values of res.
HandlerField == Headers \cup {JsonType}
Response == [status : Statuses, body : Bodies \cup {<<"Not Found">>}, headers : Seq(HandlerField)]

\* The message the client sends, and the one the server answers with.
AskedHead == [method |-> request.method, path |-> request.path, cl |-> request.cl]
Asked == Message(AskedHead, request.body)
AnswerHead == [status |-> res.status, cl |-> content_length_of(res)]
Answer == Message(AnswerHead, res.body)

\* s is the part of message m that follows its first k units.
Piece(s, k, m) == k + Len(s) <= Len(m) /\ \A i \in 1 .. Len(s) : s[i] = m[k + i]

Types ==
    /\ TypeOK
    /\ seen \in [route : Nat, params : SUBSET (STRING \X STRING), body : Seq(Unit)]
    /\ buf \in Seq(Unit) /\ up \in Seq(Unit) /\ todo \in Seq(Unit)
    /\ out \in Seq(Unit) /\ down \in Seq(Unit) /\ cbuf \in Seq(Unit)

\* The client's message, in order: what the server has read, what is under way
\* and what is still to be sent.  What is sent to a closed connection is lost.
UpStream ==
    /\ cpc = "connect" => buf = <<>> /\ up = <<>>
    /\ Piece(buf, 0, Asked)
    /\ Piece(up, Len(buf), Asked)
    /\ cpc = "send" /\ ~ServerClosed => Piece(todo, Len(buf) + Len(up), Asked)

\* The handler gets what was read, and no more is read.
Routed ==
    /\ pc = "read" => seen = NotYet
    /\ pc # "end" => Len(buf) <= MaxBuf
    /\ pc \in {"handler", "respond", "write"} \/ seen # NotYet =>
        Complete(buf) /\ Len(buf) <= MaxBuf /\ seen.body = BodyOf(buf)

\* The server's message, in order.  If the request is what it says, the server
\* has read all of it, and then close() takes nothing from the client.
DownStream ==
    /\ pc \in {"read", "handler", "respond"} => down = <<>> /\ cbuf = <<>> /\ out = <<>>
    /\ Piece(cbuf, 0, Answer)
    /\ Piece(down, Len(cbuf), Answer)
    /\ pc = "write" /\ ~ClientClosed =>
        /\ Piece(out, Len(cbuf) + Len(down), Answer)
        /\ Len(cbuf) + Len(down) + Len(out) = Len(Answer)
    /\ pc = "end" /\ Honest /\ ~ClientClosed =>
        (cbuf = <<>> /\ down = <<>>) \/ Len(cbuf) + Len(down) = Len(Answer)

\* What was returned is the whole answer, or at least as much of it as its head
\* announces.
Got ==
    /\ result.status = res.status
    /\ result.body \in Seq(Unit) /\ IsPrefix(result.body, res.body)
    /\ Honest /\ ~crashed /\ 2 + Len(res.body) <= MaxResp
       => result.body = res.body \/ Len(result.body) >= content_length_of(res)

\* A response that was returned is final: so is what it was made from.
Answered == result.ok => pc \in {"write", "end"} /\ cpc = "done" /\ Got

IInv == Types /\ UpStream /\ Routed /\ ParamsOfRoute /\ DownStream /\ Answered
-----------------------------------------------------------------------------
(* Messages and their pieces. *)

LEMMA OneUnit == \A u \in Unit : <<u>> \in Seq(Unit) /\ Len(<<u>>) = 1 /\ <<u>>[1] = u
    OBVIOUS

LEMMA MessageShape ==
    ASSUME NEW h \in Unit, NEW b \in Seq(Unit)
    PROVE  /\ Message(h, b) \in Seq(Unit)
           /\ Len(Message(h, b)) = 2 + Len(b)
           /\ Message(h, b)[2] = h
           /\ \A i \in 1 .. Len(b) : Message(h, b)[2 + i] = b[i]
<1> DEFINE o == <<[head |-> "open"]>>
<1>0. [head |-> "open"] \in Unit
    BY DEF Unit
<1>1. o \in Seq(Unit) /\ <<h>> \in Seq(Unit) /\ Len(o) = 1 /\ Len(<<h>>) = 1
    BY <1>0, OneUnit
<1>2. o \o <<h>> \in Seq(Unit) /\ Len(o \o <<h>>) = 2 /\ (o \o <<h>>)[2] = h
    BY <1>1
<1> QED
    BY <1>2 DEF Message

LEMMA BodyInSeq == \A b \in Seq(STRING) : b \in Seq(Unit)
    BY SeqMonotonic DEF Unit

\* What a side that has read a piece from the start of a message makes of it.
LEMMA BodyOfPiece ==
    ASSUME NEW h \in Unit, NEW m \in Seq(Unit), NEW b \in Seq(Unit),
           Piece(b, 0, Message(h, m)), Len(b) >= 2
    PROVE  /\ b[2] = h
           /\ BodyOf(b) \in Seq(Unit)
           /\ Len(BodyOf(b)) = Len(b) - 2
           /\ IsPrefix(BodyOf(b), m)
           /\ Len(b) = 2 + Len(m) => BodyOf(b) = m
<1>1. /\ Len(Message(h, m)) = 2 + Len(m)
      /\ Message(h, m)[2] = h
      /\ \A i \in 1 .. Len(m) : Message(h, m)[2 + i] = m[i]
    BY MessageShape
<1>2. /\ BodyOf(b) \in Seq(Unit)
      /\ Len(BodyOf(b)) = Len(b) - 2
      /\ \A i \in 1 .. Len(b) - 2 : BodyOf(b)[i] = b[2 + i]
  <2>1. Len(b) \in Nat /\ \A i \in 3 .. Len(b) : b[i] \in Unit
      OBVIOUS
  <2>2. /\ BodyOf(b) \in Seq(Unit)
        /\ Len(BodyOf(b)) = IF 3 <= Len(b) THEN Len(b) - 3 + 1 ELSE 0
        /\ \A i \in 1 .. Len(b) - 3 + 1 : BodyOf(b)[i] = b[3 + i - 1]
      BY <2>1, SubSeqProperties DEF BodyOf
  <2>3. ASSUME NEW i \in 1 .. Len(b) - 2 PROVE BodyOf(b)[i] = b[2 + i]
    <3>1. i \in 1 .. Len(b) - 3 + 1 /\ 3 + i - 1 = 2 + i
        BY <2>1
    <3> QED
        BY <2>2, <3>1
  <2>4. Len(BodyOf(b)) = Len(b) - 2
    <3>1. Len(b) \in Nat /\ Len(b) >= 2
        OBVIOUS
    <3>2. CASE 2 < Len(b)
        BY <2>2, <3>1, <3>2
    <3>3. CASE Len(b) = 2
        BY <2>2, <3>3
    <3>4. 2 < Len(b) \/ Len(b) = 2
      <4>1. \A n \in Nat : n >= 2 => 2 < n \/ n = 2
          OBVIOUS
      <4> QED
          BY <3>1, <4>1, Zenon
    <3> QED
        BY <3>2, <3>3, <3>4
  <2> QED
      BY <2>2, <2>3, <2>4
<1>3. b[2] = h /\ Len(b) <= 2 + Len(m)
    BY <1>1 DEF Piece
<1>4. \A i \in 1 .. Len(b) - 2 : BodyOf(b)[i] = m[i]
  <2> SUFFICES ASSUME NEW i \in 1 .. Len(b) - 2 PROVE BodyOf(b)[i] = m[i]
      OBVIOUS
  <2>1. b[2 + i] = Message(h, m)[0 + (2 + i)]
      BY DEF Piece
  <2>2. i \in 1 .. Len(m)
      BY <1>3
  <2> QED
      BY <1>1, <1>2, <2>1, <2>2
<1>5. SubSeq(BodyOf(b), 1, Len(BodyOf(b))) = SubSeq(m, 1, Len(BodyOf(b)))
  <2> DEFINE n == Len(b) - 2
             s == SubSeq(BodyOf(b), 1, n)
             t == SubSeq(m, 1, n)
  <2>1. n \in Nat /\ n <= Len(m) /\ n = Len(BodyOf(b))
      BY <1>2, <1>3
  <2>2. s \in Seq(Unit) /\ Len(s) = n /\ \A i \in 1 .. n : s[i] = BodyOf(b)[i]
      BY <1>2, <2>1
  <2>3. t \in Seq(Unit) /\ Len(t) = n /\ \A i \in 1 .. n : t[i] = m[i]
      BY <2>1
  <2>4. s = t
      BY <1>4, <2>2, <2>3, SeqEqual
  <2> QED
      BY <2>1, <2>4
<1>6. IsPrefix(BodyOf(b), m)
    BY <1>2, <1>3, <1>5 DEF IsPrefix
<1>7. ASSUME Len(b) = 2 + Len(m) PROVE BodyOf(b) = m
    BY <1>2, <1>4, <1>7, SeqEqual
<1> QED
    BY <1>2, <1>3, <1>6, <1>7

\* A prefix is the first part of the sequence.
LEMMA PrefixOf ==
    ASSUME NEW s \in Seq(Unit), NEW t \in Seq(Unit), IsPrefix(s, t)
    PROVE  Len(s) \in 0 .. Len(t) /\ s = SubSeq(t, 1, Len(s))
<1>1. Len(s) \in Nat /\ Len(t) \in Nat /\ Len(s) <= Len(t) /\ SubSeq(s, 1, Len(s)) = SubSeq(t, 1, Len(s))
    BY DEF IsPrefix
<1>2. SubSeq(s, 1, Len(s)) = s
    OBVIOUS
<1>3. Len(s) \in 0 .. Len(t)
    BY <1>1
<1>4. s = SubSeq(t, 1, Len(s))
    BY <1>1, <1>2, Zenon
<1> QED
    BY <1>3, <1>4

\* A piece that grows by what follows it, and one that loses its front.
LEMMA PieceMoves ==
    ASSUME NEW m \in Seq(Unit), NEW s \in Seq(Unit), NEW t \in Seq(Unit), NEW k \in Nat,
           NEW n \in 1 .. Len(t),
           Piece(s, k, m), Piece(t, k + Len(s), m)
    PROVE  /\ s \o SubSeq(t, 1, n) \in Seq(Unit)
           /\ Len(s \o SubSeq(t, 1, n)) = Len(s) + n
           /\ Piece(s \o SubSeq(t, 1, n), k, m)
           /\ SubSeq(t, n + 1, Len(t)) \in Seq(Unit)
           /\ Len(SubSeq(t, n + 1, Len(t))) = Len(t) - n
           /\ Piece(SubSeq(t, n + 1, Len(t)), k + Len(s \o SubSeq(t, 1, n)), m)
<1> DEFINE f == SubSeq(t, 1, n)
           s1 == s \o f
           t1 == SubSeq(t, n + 1, Len(t))
<1>1. f \in Seq(Unit) /\ Len(f) = n /\ \A i \in 1 .. n : f[i] = t[i]
    OBVIOUS
<1>2. /\ s1 \in Seq(Unit) /\ Len(s1) = Len(s) + n
      /\ \A i \in 1 .. Len(s1) : s1[i] = IF i <= Len(s) THEN s[i] ELSE f[i - Len(s)]
    BY <1>1, ConcatProperties, SMTT(30)
<1>3. /\ t1 \in Seq(Unit) /\ Len(t1) = Len(t) - n
      /\ \A i \in 1 .. Len(t) - n : t1[i] = t[n + i]
    OBVIOUS
<1>4. Piece(s1, k, m)
  <2>1. ASSUME NEW i \in 1 .. Len(s1) PROVE s1[i] = m[k + i]
    <3>1. CASE i <= Len(s)
        BY <1>2, <3>1 DEF Piece
    <3>2. CASE i > Len(s)
      <4>1. i - Len(s) \in 1 .. n /\ i - Len(s) \in 1 .. Len(t)
          BY <1>2, <3>2
      <4>2. s1[i] = t[i - Len(s)]
          BY <1>1, <1>2, <3>2, <4>1
      <4>3. t[i - Len(s)] = m[(k + Len(s)) + (i - Len(s))]
          BY <4>1 DEF Piece
      <4> QED
          BY <4>2, <4>3
    <3> QED
        BY <1>2, <3>1, <3>2
  <2>2. k + Len(s1) <= Len(m)
      BY <1>2 DEF Piece
  <2> QED
      BY <2>1, <2>2 DEF Piece
<1>5. Piece(t1, k + Len(s1), m)
  <2>1. ASSUME NEW i \in 1 .. Len(t1) PROVE t1[i] = m[k + Len(s1) + i]
    <3>1. n + i \in 1 .. Len(t)
        BY <1>3
    <3>2. t[n + i] = m[(k + Len(s)) + (n + i)]
        BY <3>1 DEF Piece
    <3>3. (k + Len(s)) + (n + i) = k + Len(s1) + i
        BY <1>2
    <3> QED
        BY <1>3, <3>2, <3>3
  <2>2. (k + Len(s)) + Len(t) <= Len(m)
      BY DEF Piece
  <2>3. k + Len(s1) + Len(t1) = (k + Len(s)) + Len(t)
    <3>1. Len(s1) = Len(s) + n /\ Len(t1) = Len(t) - n
        BY <1>2, <1>3
    <3>2. k \in Nat /\ n \in Nat /\ Len(s) \in Nat /\ Len(t) \in Nat
        OBVIOUS
    <3> HIDE DEF s1, t1
    <3> QED
        BY <3>1, <3>2
  <2> QED
      BY <1>2, <1>3, <2>1, <2>2, <2>3 DEF Piece
<1> QED
    BY <1>2, <1>3, <1>4, <1>5
-----------------------------------------------------------------------------
(* The two messages, the routes and the end of a request. *)

LEMMA AskedShape ==
    ASSUME Types
    PROVE  /\ AskedHead \in Unit /\ request.body \in Seq(Unit) /\ Asked \in Seq(Unit)
           /\ Len(request.body) \in Nat /\ Len(Asked) = 2 + Len(request.body)
           /\ request.cl \in -MaxBuf .. MaxBuf /\ request.path \in Seq(STRING)
<1>1. request \in [method : STRING, path : Seq(STRING), cl : -MaxBuf .. MaxBuf, body : Seq(STRING)]
    BY HttpAssumption DEF Types, TypeOK
<1>2. AskedHead \in [method : STRING, path : Seq(STRING), cl : Int]
    BY <1>1, HttpAssumption DEF AskedHead
<1>3. AskedHead \in Unit
    BY <1>2 DEF Unit
<1>4. request.body \in Seq(Unit)
    BY <1>1, BodyInSeq
<1> QED
    BY <1>1, <1>3, <1>4, MessageShape DEF Asked

\* The least element of a set of numbers.
LEMMA LeastIn ==
    ASSUME NEW S \in SUBSET Nat, S # {}
    PROVE  Min(S) \in S
<1> DEFINE less == {p \in Nat \X Nat : p[1] < p[2]}
<1>1. IsWellFoundedOn(less, Nat)
    BY NatLessThanWellFounded, Zenon DEF OpToRel
<1>2. PICK i \in S : \A k \in S : ~(<<k, i>> \in less)
    BY <1>1, WFMin
<1>3. ASSUME NEW k \in S PROVE i <= k
  <2>1. k \in Nat /\ i \in Nat /\ ~(<<k, i>> \in less)
      BY <1>2
  <2>2. ~(k < i)
      BY <2>1
  <2> QED
      BY <2>1, <2>2
<1> QED
    BY <1>3 DEF Min

\* The fields of an answer's head and the numbers in them.
LEMMA FieldsShape ==
    ASSUME NEW r \in Response, Len(r.body) \in Nat
    PROVE  /\ Len(r.headers) \in Nat /\ DOMAIN Fields(r) = 1 .. Len(r.headers) + 1
           /\ \A i \in 1 .. Len(r.headers) :
                /\ Fields(r)[i] = r.headers[i]
                /\ Fields(r)[i].len \in Int /\ 2 * Fields(r)[i].len < SizeMod
           /\ Fields(r)[Len(r.headers) + 1].key = "Content-Length"
           /\ Fields(r)[Len(r.headers) + 1].len = Len(r.body)
<1> DEFINE last == [key |-> "Content-Length", len |-> Len(r.body), long |-> FALSE]
           G == HandlerField \cup {last}
<1>1. r.headers \in Seq(HandlerField)
    BY DEF Response
<1>2. r.headers \in Seq(G) /\ last \in G /\ Len(r.headers) \in Nat
    BY <1>1, SeqMonotonic
<1>3. /\ Fields(r) \in Seq(G) /\ Len(Fields(r)) = Len(r.headers) + 1
      /\ \A i \in 1 .. Len(r.headers) : Fields(r)[i] = r.headers[i]
      /\ Fields(r)[Len(r.headers) + 1] = last
  <2> HIDE DEF G, last
  <2>1. Fields(r) = Append(r.headers, last)
      BY DEF Fields, last
  <2> QED
      BY <1>2, <2>1, AppendProperties
<1>4. ASSUME NEW i \in 1 .. Len(r.headers)
      PROVE  Fields(r)[i].len \in Int /\ 2 * Fields(r)[i].len < SizeMod
  <2>1. r.headers[i] \in HandlerField
      BY <1>1, ElementOfSeq
  <2>2. \A h \in Headers : h.len \in Int /\ 2 * h.len < SizeMod
      BY HttpAssumption
  <2>3. JsonType.len \in Int /\ 2 * JsonType.len < SizeMod
    <3>1. \A m, n \in Nat : 2 * n < m => 2 * 0 < m
        OBVIOUS
    <3> QED
        BY <3>1, HttpAssumption DEF JsonType
  <2> QED
      BY <1>3, <2>1, <2>2, <2>3 DEF HandlerField
<1>6. last.key = "Content-Length" /\ last.len = Len(r.body)
    OBVIOUS
<1>5. DOMAIN Fields(r) = 1 .. Len(r.headers) + 1
  <2> HIDE DEF G
  <2> QED
      BY <1>3
<1> HIDE DEF last, G
<1> QED
    BY <1>2, <1>3, <1>4, <1>5, <1>6

\* What the client reads as the length is the body's, or a number that a handler
\* has set, or none.
LEMMA LengthRead ==
    ASSUME NEW r \in Response, Len(r.body) \in Nat
    PROVE  /\ content_length_of(r) \in Int
           /\ content_length_of(r) = Len(r.body) \/ 2 * content_length_of(r) < SizeMod
<1> DEFINE fs == Fields(r)
           found == {i \in Lines(fs) :
                       fs[i].key \in LengthKeys /\ Cardinality(Lines(fs) \cap 1 .. i) <= MaxHeaders}
<1>1. content_length_of(r) = IF found = {} THEN 0 ELSE fs[Min(found)].len
    BY DEF content_length_of
<1>2. found \subseteq 1 .. Len(r.headers) + 1 /\ Len(r.headers) \in Nat
    BY FieldsShape DEF Lines
<1>3. CASE found = {}
  <2>1. \A m, n \in Nat : 2 * n < m => 2 * 0 < m
      OBVIOUS
  <2>2. 2 * 0 < SizeMod
      BY <2>1, HttpAssumption
  <2> HIDE DEF found, fs
  <2> QED
      BY <1>1, <1>3, <2>2
<1>4. CASE found # {}
  <2>1. found \in SUBSET Nat
      BY <1>2
  <2> HIDE DEF found
  <2>2. Min(found) \in 1 .. Len(r.headers) + 1
      BY <1>2, <1>4, <2>1, LeastIn
  <2>3. content_length_of(r) = Fields(r)[Min(found)].len
      BY <1>1, <1>4
  <2>4. CASE Min(found) = Len(r.headers) + 1
    <3>1. Fields(r)[Len(r.headers) + 1].len = Len(r.body)
        BY FieldsShape
    <3> QED
        BY <2>3, <2>4, <3>1
  <2>5. CASE Min(found) # Len(r.headers) + 1
    <3>1. Min(found) \in 1 .. Len(r.headers)
        BY <1>2, <2>2, <2>5
    <3> QED
        BY <2>3, <3>1, FieldsShape
  <2> QED
      BY <2>4, <2>5
<1> QED
    BY <1>3, <1>4

\* If the handler's fields are plain, it is the body's.
LEMMA PlainLength ==
    ASSUME NEW r \in Response, Len(r.body) \in Nat, PlainHeaders(r.headers)
    PROVE  content_length_of(r) = Len(r.body)
<1> DEFINE fs == Fields(r)
           n == Len(r.headers)
           found == {i \in Lines(fs) :
                       fs[i].key \in LengthKeys /\ Cardinality(Lines(fs) \cap 1 .. i) <= MaxHeaders}
<1>1. /\ n \in Nat /\ DOMAIN fs = 1 .. n + 1
      /\ \A i \in 1 .. n : fs[i] = r.headers[i]
      /\ fs[n + 1].key = "Content-Length" /\ fs[n + 1].len = Len(r.body)
    BY FieldsShape
<1>2. n < MaxHeaders /\ \A i \in 1 .. n : r.headers[i].key \notin LengthKeys /\ ~r.headers[i].long
  <2>1. DOMAIN r.headers = 1 .. n
    <3>1. r.headers \in Seq(HandlerField)
        BY DEF Response
    <3> QED
        BY <3>1
  <2> QED
      BY <2>1 DEF PlainHeaders
<1> HIDE DEF fs, n
<1>3. Lines(fs) = 1 .. n + 1
  <2>1. ASSUME NEW i \in 1 .. n + 1, i # 1 PROVE ~fs[i - 1].long
    <3>1. i - 1 \in 1 .. n
        BY <1>1, <2>1
    <3> QED
        BY <1>1, <1>2, <3>1
  <2> QED
      BY <1>1, <2>1 DEF Lines
<1>4. found = {n + 1}
  <2>1. ASSUME NEW i \in found PROVE i = n + 1
    <3>1. i \in 1 .. n + 1 /\ fs[i].key \in LengthKeys
        BY <1>3
    <3>2. i \notin 1 .. n
        BY <1>1, <1>2, <3>1
    <3> QED
        BY <1>1, <3>1, <3>2
  <2>2. n + 1 \in found
    <3>1. (1 .. n + 1) \cap 1 .. n + 1 = 1 .. n + 1 /\ n + 1 \in 1 .. n + 1
        BY <1>1
    <3>2. Cardinality(1 .. n + 1) = n + 1
        BY <1>1, FS_Interval
    <3>3. n + 1 <= MaxHeaders
        BY <1>1, <1>2, HttpAssumption
    <3>4. fs[n + 1].key \in LengthKeys
        BY <1>1, HttpAssumption
    <3> QED
        BY <1>3, <3>1, <3>2, <3>3, <3>4
  <2> HIDE DEF found
  <2> QED
      BY <2>1, <2>2
<1>5. content_length_of(r) = IF found = {} THEN 0 ELSE fs[Min(found)].len
    BY DEF content_length_of, fs
<1> HIDE DEF found
<1>6. Min(found) = n + 1
  <2>1. found \in SUBSET Nat /\ found # {}
      BY <1>1, <1>4
  <2> QED
      BY <1>4, <2>1, LeastIn
<1> QED
    BY <1>1, <1>4, <1>5, <1>6

LEMMA ResponseShape ==
    ASSUME NEW r \in Response
    PROVE  LET h == [status |-> r.status, cl |-> content_length_of(r)]
           IN /\ h \in Unit /\ r.body \in Seq(Unit) /\ Message(h, r.body) \in Seq(Unit)
              /\ Len(r.body) \in Nat /\ Len(Message(h, r.body)) = 2 + Len(r.body)
<1> DEFINE h == [status |-> r.status, cl |-> content_length_of(r)]
<1>1. /\ r.status \in Statuses
      /\ r.body \in Bodies \cup {<<"Not Found">>}
    BY DEF Response
<1>2. r.body \in Seq(Unit) /\ Len(r.body) \in Nat
  <2>1. "Not Found" \in Unit
      BY DEF Unit
  <2>2. <<"Not Found">> \in Seq(Unit) /\ Len(<<"Not Found">>) = 1
      BY <2>1, OneUnit, Zenon
  <2>3. \A b \in Bodies : b \in Seq(Unit)
      BY BodyInSeq, HttpAssumption
  <2>4. r.body \in Seq(Unit)
      BY <1>1, <2>2, <2>3, Zenon
  <2> QED
      BY <2>4
<1>3. h \in [status : Statuses, cl : Int]
    BY <1>1, <1>2, LengthRead
<1>4. h \in Unit
    BY <1>3 DEF Unit
<1> HIDE DEF h
<1>5. Message(h, r.body) \in Seq(Unit) /\ Len(Message(h, r.body)) = 2 + Len(r.body)
    BY <1>2, <1>4, MessageShape
<1> QED
    BY <1>2, <1>4, <1>5 DEF h

LEMMA AnswerShape ==
    ASSUME Types
    PROVE  /\ AnswerHead \in Unit /\ res.body \in Seq(Unit) /\ Answer \in Seq(Unit)
           /\ Len(res.body) \in Nat /\ Len(Answer) = 2 + Len(res.body)
           /\ content_length_of(res) \in Int
           /\ content_length_of(res) = Len(res.body) \/ 2 * content_length_of(res) < SizeMod
<1>1. res \in Response
    BY DEF Types, TypeOK, Response, HandlerField
<1>2. /\ AnswerHead \in Unit /\ res.body \in Seq(Unit) /\ Answer \in Seq(Unit)
      /\ Len(res.body) \in Nat /\ Len(Answer) = 2 + Len(res.body)
    BY <1>1, ResponseShape DEF Answer, AnswerHead
<1> QED
    BY <1>1, <1>2, LengthRead

LEMMA AnswerNext ==
    ASSUME Types'
    PROVE  Len(Answer') \in Nat /\ Len(Answer') >= 2
<1>1. res' \in Response
    BY DEF Types, TypeOK, Response, HandlerField
<1>2. Len(res'.body) \in Nat /\ Len(Answer') = 2 + Len(res'.body)
    BY <1>1, ResponseShape DEF Answer, AnswerHead
<1> QED
    BY <1>2

\* match_route gives a route that matches, or none.
LEMMA RouteFound ==
    ASSUME routes \in Tables, NEW method, NEW path, match_route(method, path) # 0
    PROVE  /\ match_route(method, path) \in DOMAIN routes
           /\ Matches(routes[match_route(method, path)], method, path)
<1> DEFINE fit == {i \in DOMAIN routes : Matches(routes[i], method, path)}
<1>1. fit # {} /\ match_route(method, path) = Min(fit)
    BY DEF match_route
<1>2. fit \in SUBSET Nat
    BY HttpAssumption
<1> HIDE DEF fit
<1>5. match_route(method, path) \in fit
    BY <1>1, <1>2, LeastIn
<1> QED
    BY <1>5 DEF fit

\* What it means that the server stops reading: the limit on the buffer keeps
\* the sum of the head and Content-Length from wrapping around.
LEMMA CompleteMeans ==
    ASSUME Types, UpStream, Complete(buf), Len(buf) <= MaxBuf
    PROVE  /\ Len(buf) >= 2 /\ buf[2] = AskedHead
           /\ BodyOf(buf) \in Seq(Unit)
           /\ IsPrefix(BodyOf(buf), request.body)
           /\ request.cl >= 0 => Len(BodyOf(buf)) >= request.cl
           /\ Honest => BodyOf(buf) = request.body /\ up = <<>>
<1>1. Len(buf) >= 2 /\ Len(buf) \in Nat /\ Len(buf) >= (2 + buf[2].cl) % SizeMod
    BY DEF Types, Complete, Enough, find_header_end
<1>2. /\ buf[2] = AskedHead /\ BodyOf(buf) \in Seq(Unit) /\ Len(BodyOf(buf)) = Len(buf) - 2
      /\ IsPrefix(BodyOf(buf), request.body)
      /\ Len(buf) = 2 + Len(request.body) => BodyOf(buf) = request.body
    BY <1>1, AskedShape, BodyOfPiece, SMTT(30) DEF Types, UpStream, Asked
<1>3. ASSUME request.cl >= 0 PROVE Len(buf) >= 2 + request.cl
  <2>1. 2 + request.cl \in Nat /\ SizeMod \in Nat /\ 2 + request.cl < SizeMod
    <3>1. \A l, c, n, m \in Int : l >= 2 /\ l <= n /\ c >= 0 /\ c <= n /\ 2 * n < m
                                  => 2 + c \in Nat /\ 2 + c < m
        OBVIOUS
    <3>2. request.cl \in Int /\ request.cl <= MaxBuf
        BY AskedShape, HttpAssumption
    <3> QED
        BY <1>1, <1>3, <3>1, <3>2, HttpAssumption
  <2>2. (2 + request.cl) % SizeMod = 2 + request.cl
      BY <2>1
  <2> QED
      BY <1>1, <1>2, <2>2 DEF AskedHead
<1>4. ASSUME Honest PROVE Len(buf) = 2 + Len(request.body) /\ up = <<>>
  <2>1. Len(buf) >= 2 + Len(request.body)
      BY <1>3, <1>4, AskedShape DEF Honest
  <2>2. Len(buf) + Len(up) <= 2 + Len(request.body)
      BY AskedShape DEF UpStream, Piece
  <2>3. Len(up) \in Nat /\ Len(request.body) \in Nat /\ up \in Seq(Unit)
      BY AskedShape DEF Types
  <2>4. Len(buf) = 2 + Len(request.body) /\ Len(up) = 0
      BY <1>1, <2>1, <2>2, <2>3
  <2> QED
      BY <2>3, <2>4
<1>5. request.cl >= 0 => Len(BodyOf(buf)) >= request.cl
    BY <1>1, <1>2, <1>3, AskedShape
<1> QED
    BY <1>1, <1>2, <1>4, <1>5
-----------------------------------------------------------------------------
(* What leaves each part of the invariant as it is. *)

LEMMA UpKept ==
    ASSUME UpStream, UNCHANGED <<request, buf, up>>,
           cpc' = "connect" => cpc = "connect",
           cpc' = "send" => cpc = "send" /\ todo' = todo,
           ServerClosed => ServerClosed'
    PROVE  UpStream'
<1>1. Asked' = Asked
    BY DEF Asked, AskedHead
<1> QED
    BY <1>1 DEF UpStream, Piece

LEMMA RoutedKept ==
    ASSUME Routed, UNCHANGED <<pc, buf, seen>>
    PROVE  Routed'
    BY DEF Routed

LEMMA ParamsKept ==
    ASSUME ParamsOfRoute, UNCHANGED <<routes, seen>>
    PROVE  ParamsOfRoute'
    BY DEF ParamsOfRoute

LEMMA DownKept ==
    ASSUME DownStream, UNCHANGED <<request, pc, res, out, down, cbuf>>,
           ClientClosed => ClientClosed'
    PROVE  DownStream'
<1>1. Answer' = Answer /\ (Honest' <=> Honest)
    BY DEF Answer, AnswerHead, Honest
<1> QED
    BY <1>1 DEF DownStream, Piece

LEMMA AnsweredKept ==
    ASSUME Answered, UNCHANGED <<request, res, result>>,
           pc \in {"write", "end"} => pc' \in {"write", "end"},
           cpc = "done" => cpc' = "done", crashed => crashed'
    PROVE  Answered'
    BY DEF Answered, Got, Honest

LEMMA InitIInv == Init => IInv
<1> SUFFICES ASSUME Init PROVE IInv
    OBVIOUS
<1>1. <<>> \in Seq(Unit) /\ Len(<<>>) = 0
    BY EmptySeq
<1>2. Types
  <2>1. res \in Response
    <3>1. <<>> \in Seq(HandlerField)
        BY EmptySeq
    <3> QED
        BY <3>1, HttpAssumption DEF Init, http_make_response, Response
  <2>2. seen \in [route : Nat, params : SUBSET (STRING \X STRING), body : Seq(Unit)]
      BY <1>1 DEF Init, NotYet
  <2>3. seen.route \in 0 .. Len(routes)
      BY HttpAssumption DEF Init, NotYet
  <2>4. result.ok \in BOOLEAN /\ calls \in 0 .. MaxCalls
      BY HttpAssumption DEF Init
  <2>5. TypeOK
      BY <2>1, <2>3, <2>4 DEF Init, TypeOK, Response, HandlerField
  <2>6. /\ buf \in Seq(Unit) /\ up \in Seq(Unit) /\ todo \in Seq(Unit)
        /\ out \in Seq(Unit) /\ down \in Seq(Unit) /\ cbuf \in Seq(Unit)
      BY <1>1 DEF Init
  <2> QED
      BY <2>2, <2>5, <2>6 DEF Types
<1>3. UpStream
    BY <1>1, <1>2, AskedShape DEF Init, UpStream, Piece
<1>4. Routed /\ ParamsOfRoute
    BY <1>1, HttpAssumption DEF Init, Routed, ParamsOfRoute, NotYet
<1>5. DownStream
    BY <1>1, <1>2, AnswerShape DEF Init, DownStream, Piece
<1>6. Answered
    BY DEF Init, Answered
<1> QED
    BY <1>2, <1>3, <1>4, <1>5, <1>6 DEF IInv
-----------------------------------------------------------------------------
(* The server's steps. *)

LEMMA ReadKeeps ==
    ASSUME IInv, NEW n \in DOMAIN up, Read(n)
    PROVE  IInv'
<1> USE DEF IInv
<1>0. /\ buf \in Seq(Unit) /\ up \in Seq(Unit) /\ todo \in Seq(Unit) /\ Asked \in Seq(Unit)
      /\ Len(buf) \in Nat /\ Len(up) \in Nat /\ n \in 1 .. Len(up)
    BY AskedShape DEF Types
<1>1. /\ buf' \in Seq(Unit) /\ Len(buf') = Len(buf) + n /\ Piece(buf', 0, Asked)
      /\ up' \in Seq(Unit) /\ Len(up') = Len(up) - n /\ Piece(up', Len(buf'), Asked)
  <2>1. Piece(buf, 0, Asked) /\ Piece(up, 0 + Len(buf), Asked)
      BY <1>0 DEF UpStream
  <2>4. buf' = buf \o SubSeq(up, 1, n) /\ up' = SubSeq(up, n + 1, Len(up))
      BY DEF Read
  <2>5. 0 \in Nat
      OBVIOUS
  <2>2. /\ buf' \in Seq(Unit) /\ Len(buf') = Len(buf) + n /\ Piece(buf', 0, Asked)
        /\ up' \in Seq(Unit) /\ Len(up') = Len(up) - n /\ Piece(up', 0 + Len(buf'), Asked)
    <3>1. /\ buf \o SubSeq(up, 1, n) \in Seq(Unit)
          /\ Len(buf \o SubSeq(up, 1, n)) = Len(buf) + n
          /\ Piece(buf \o SubSeq(up, 1, n), 0, Asked)
          /\ SubSeq(up, n + 1, Len(up)) \in Seq(Unit)
          /\ Len(SubSeq(up, n + 1, Len(up))) = Len(up) - n
          /\ Piece(SubSeq(up, n + 1, Len(up)), 0 + Len(buf \o SubSeq(up, 1, n)), Asked)
        BY <1>0, <2>1, <2>5, PieceMoves
    <3> QED
        BY <2>4, <3>1
  <2>3. 0 + Len(buf') = Len(buf')
      BY <1>0, <2>2
  <2> QED
      BY <2>2, <2>3
<1>2. Types'
    BY <1>1 DEF Types, TypeOK, Read, clientSide
<1>3. UpStream'
  <2>1. Asked' = Asked
      BY DEF Read, Asked, AskedHead
  <2>2. cpc' # "connect"
      BY <1>0 DEF Read, clientSide, UpStream
  <2>3. Len(buf') + Len(up') = Len(buf) + Len(up)
      BY <1>0, <1>1
  <2>4. cpc' = "send" /\ ~ServerClosed' => Piece(todo', Len(buf') + Len(up'), Asked)
      BY <2>3 DEF Read, Serves, clientSide, ServerClosed, UpStream
  <2> QED
      BY <1>1, <2>1, <2>2, <2>4 DEF UpStream
<1>4. Routed'
    BY <1>0, <1>1, HttpAssumption, SMTT(30) DEF Read, Serves, Routed
<1>5. ParamsOfRoute'
    BY ParamsKept DEF Read
<1>6. DownStream'
  <2>1. Answer' = Answer
      BY DEF Read, Answer, AnswerHead
  <2>2. pc = "read" /\ pc' \in {"read", "end"} /\ UNCHANGED <<out, down, cbuf>>
      BY DEF Read, Serves, clientSide
  <2> QED
      BY <2>1, <2>2 DEF DownStream
<1>7. Answered'
    BY AnsweredKept DEF Read, Serves, clientSide
<1> QED
    BY <1>2, <1>3, <1>4, <1>5, <1>6, <1>7

LEMMA ReadEofKeeps ==
    ASSUME IInv, ReadEof
    PROVE  IInv'
<1> USE DEF IInv
<1>1. Types'
    BY DEF Types, TypeOK, ReadEof, clientSide
<1>2. UpStream'
    BY UpKept DEF ReadEof, clientSide, ServerClosed
<1>3. Routed'
    BY DEF ReadEof, Serves, Routed
<1>4. ParamsOfRoute'
    BY ParamsKept DEF ReadEof
<1>5. DownStream'
  <2>1. Answer' = Answer
      BY DEF ReadEof, Answer, AnswerHead
  <2> QED
      BY <2>1 DEF DownStream, ReadEof, Serves, clientSide
<1>6. Answered'
    BY AnsweredKept DEF ReadEof, clientSide
<1> QED
    BY <1>1, <1>2, <1>3, <1>4, <1>5, <1>6

\* The route's pattern has as many segments as the path, so what it captures
\* has the names of its own parameters.
LEMMA CapturesNames ==
    ASSUME routes \in Tables, NEW method, NEW path \in Seq(STRING),
           NEW i \in DOMAIN routes, Matches(routes[i], method, path)
    PROVE  /\ Captures(i, path) \in SUBSET (STRING \X STRING)
           /\ {p[1] : p \in Captures(i, path)} = Range(routes[i].pattern) \cap Param
<1>1. routes[i].pattern \in Seq(STRING)
  <2> DEFINE R == [method : STRING, pattern : Seq(STRING)]
  <2>1. routes \in Seq(R)
      BY HttpAssumption
  <2>2. routes[i] \in R
    <3> HIDE DEF R
    <3>1. i \in 1 .. Len(routes)
        BY <2>1
    <3> QED
        BY <2>1, <3>1
  <2> QED
      BY <2>2
<1>2. DOMAIN routes[i].pattern = DOMAIN path
    BY <1>1 DEF Matches
<1>3. \A j \in DOMAIN path : routes[i].pattern[j] \in STRING /\ path[j] \in STRING
    BY <1>1, <1>2
<1>4. Captures(i, path) \in SUBSET (STRING \X STRING)
    BY <1>3 DEF Captures
<1>5. ASSUME NEW p \in Captures(i, path)
      PROVE  p[1] \in Range(routes[i].pattern) \cap Param
  <2>1. PICK j \in DOMAIN path : routes[i].pattern[j] \in Param /\ p = <<routes[i].pattern[j], path[j]>>
      BY DEF Captures
  <2> QED
      BY <1>2, <2>1 DEF Range
<1>6. ASSUME NEW q \in Range(routes[i].pattern) \cap Param
      PROVE  \E p \in Captures(i, path) : p[1] = q
  <2>1. PICK j \in DOMAIN path : routes[i].pattern[j] = q
      BY <1>2 DEF Range
  <2>2. <<routes[i].pattern[j], path[j]>> \in Captures(i, path)
      BY <2>1 DEF Captures
  <2> QED
      BY <2>1, <2>2
<1> QED
    BY <1>4, <1>5, <1>6

LEMMA RouteKeeps ==
    ASSUME IInv, Route
    PROVE  IInv'
<1> USE DEF IInv
<1> DEFINE i == match_route(buf[2].method, buf[2].path)
<1>0. pc = "read" /\ ~crashed /\ Complete(buf) /\ Len(buf) <= MaxBuf /\ routes \in Tables
    BY DEF Route, Serves, Routed, Types, TypeOK
<1>1. buf[2] = AskedHead /\ BodyOf(buf) \in Seq(Unit) /\ buf[2].path \in Seq(STRING)
    BY <1>0, CompleteMeans, AskedShape DEF AskedHead
<1>2. i # 0 => i \in DOMAIN routes /\ Matches(routes[i], buf[2].method, buf[2].path)
    BY <1>0, RouteFound
<1>3. i \in 0 .. Len(routes) /\ i \in Nat
    BY <1>0, <1>2, HttpAssumption, SMTT(30)
<1>4. /\ seen' = [route |-> i, body |-> BodyOf(buf),
                  params |-> IF i = 0 THEN {} ELSE Captures(i, buf[2].path)]
      /\ pc' \in {"handler", "respond"}
      /\ res' = res \/ res' = [res EXCEPT !.status = 404, !.body = <<"Not Found">>]
      /\ UNCHANGED <<request, routes, err, buf, out, ran, calls, cpc, todo, cbuf, result, up, down, crashed>>
    BY DEF Route, clientSide
<1> HIDE DEF i
<1>5. /\ seen'.params \in SUBSET (STRING \X STRING)
      /\ i # 0 => {p[1] : p \in seen'.params} = Range(routes[i].pattern) \cap Param
    BY <1>0, <1>1, <1>2, <1>4, CapturesNames
<1>6. Types'
  <2>1. seen' \in [route : Nat, params : SUBSET (STRING \X STRING), body : Seq(Unit)]
      BY <1>1, <1>3, <1>4, <1>5
  <2>2. res' \in Response
    <3>1. /\ res \in Response
          /\ 404 \in Statuses
        BY HttpAssumption DEF Types, TypeOK, Response, HandlerField
    <3>2. CASE res' = res
        BY <3>1, <3>2
    <3>3. CASE res' = [res EXCEPT !.status = 404, !.body = <<"Not Found">>]
      <4> DEFINE B == Bodies \cup {<<"Not Found">>}
                 nf == <<"Not Found">>
      <4>1. nf \in B
          OBVIOUS
      <4> HIDE DEF B, nf
      <4>2. /\ res \in [status : Statuses, body : B, headers : Seq(HandlerField)]
            /\ res' = [res EXCEPT !.status = 404, !.body = nf]
          BY <3>1, <3>3 DEF B, nf, Response
      <4>3. res' \in [status : Statuses, body : B, headers : Seq(HandlerField)]
          BY <3>1, <4>1, <4>2, ZenonT(40)
      <4> QED
          BY <4>3 DEF B, Response
    <3> QED
        BY <1>4, <3>2, <3>3
  <2>3. TypeOK'
      BY <1>3, <1>4, <2>2 DEF Types, TypeOK, Response, HandlerField
  <2> QED
      BY <1>4, <2>1, <2>3 DEF Types
<1>7. UpStream'
    BY <1>0, <1>4, UpKept DEF ServerClosed
<1>8. Routed'
    BY <1>0, <1>4 DEF Routed
<1>9. ParamsOfRoute'
    BY <1>4, <1>5 DEF ParamsOfRoute
<1>10. DownStream'
  <2>1. down = <<>> /\ cbuf = <<>> /\ out = <<>> /\ Len(<<>>) = 0
      BY <1>0, EmptySeq DEF DownStream
  <2>2. Len(Answer') \in Nat
      BY <1>6, AnswerNext
  <2> QED
      BY <1>4, <2>1, <2>2 DEF DownStream, Piece
<1>11. Answered'
    BY <1>0, <1>4 DEF Answered
<1> QED
    BY <1>6, <1>7, <1>8, <1>9, <1>10, <1>11

\* A statement of the handler changes res, and nothing has been answered yet.
LEMMA StatementKeeps ==
    ASSUME IInv, Statement,
           res' \in Response
    PROVE  IInv'
<1> USE DEF IInv
<1>0. pc = "handler" /\ calls' = calls + 1 /\ calls < MaxCalls
    BY DEF Statement, Serves
<1>1. UNCHANGED <<request, routes, err, pc, buf, seen, out, ran, cpc, todo, cbuf, result, up, down, crashed>>
    BY DEF Statement, clientSide
<1>2. Types'
  <2>1. calls' \in 0 .. MaxCalls
    <3>1. MaxCalls \in Nat /\ calls \in 0 .. MaxCalls
        BY HttpAssumption DEF Types, TypeOK
    <3> QED
        BY <1>0, <3>1
  <2> QED
      BY <1>1, <2>1 DEF Types, TypeOK, Response, HandlerField
<1>3. UpStream'
    BY <1>1, UpKept DEF ServerClosed
<1>4. Routed' /\ ParamsOfRoute'
    BY <1>1, RoutedKept, ParamsKept
<1>5. DownStream'
  <2>1. down = <<>> /\ cbuf = <<>> /\ out = <<>> /\ Len(<<>>) = 0
      BY <1>0, EmptySeq DEF DownStream
  <2>2. Len(Answer') \in Nat
      BY <1>2, AnswerNext
  <2> QED
      BY <1>0, <1>1, <2>1, <2>2 DEF DownStream, Piece
<1>6. Answered'
    BY <1>0, <1>1 DEF Answered
<1> QED
    BY <1>2, <1>3, <1>4, <1>5, <1>6

\* value_data_set on the headers.
LEMMA FieldSet ==
    ASSUME NEW hs \in Seq(HandlerField), NEW h \in HandlerField
    PROVE  SetField(hs, h) \in Seq(HandlerField)
<1> DEFINE g == [i \in DOMAIN hs |-> IF hs[i].key = h.key THEN h ELSE hs[i]]
<1>1. Len(hs) \in Nat /\ DOMAIN hs = 1 .. Len(hs) /\ \A i \in 1 .. Len(hs) : hs[i] \in HandlerField
    OBVIOUS
<1>2. g \in [1 .. Len(hs) -> HandlerField]
    BY <1>1
<1>3. g \in Seq(HandlerField)
    BY <1>1, <1>2
<1>4. <<h>> \o hs \in Seq(HandlerField)
    OBVIOUS
<1> QED
    BY <1>3, <1>4 DEF SetField

LEMMA HandlerStepKeeps ==
    ASSUME IInv, HandlerStep
    PROVE  IInv'
<1> DEFINE B == Bodies \cup {<<"Not Found">>}
           H == Seq(HandlerField)
           R == [status : Statuses, body : B, headers : H]
<1>1. res \in R /\ \A b \in Bodies : b \in B
    BY DEF IInv, Types, TypeOK, HandlerField
<1>2. \A h \in HandlerField : SetField(res.headers, h) \in H
    BY <1>1, FieldSet
<1>4. JsonType \in HandlerField /\ \A h \in Headers : h \in HandlerField
    BY DEF HandlerField
<1> HIDE DEF B, H
<1>3. Statement /\ res' \in R
  <2>1. ASSUME NEW b \in Bodies, Send(b) \/ Json(b) PROVE Statement /\ res' \in R
      BY <1>1, <1>2, <1>4, <2>1 DEF Send, Json
  <2>2. ASSUME NEW s \in Statuses, Status(s) PROVE Statement /\ res' \in R
      BY <1>1, <2>2 DEF Status
  <2>3. ASSUME NEW h \in Headers, Header(h) PROVE Statement /\ res' \in R
      BY <1>1, <1>2, <1>4, <2>3 DEF Header
  <2> QED
      BY <2>1, <2>2, <2>3 DEF HandlerStep
<1> QED
    BY <1>3, StatementKeeps DEF B, H, Response

LEMMA FailsKeeps ==
    ASSUME IInv, Fails
    PROVE  IInv'
<1> USE DEF IInv
<1>1. UNCHANGED <<request, routes, pc, buf, seen, res, out, ran, calls, cpc, todo, cbuf, result, up, down, crashed>>
      /\ err' = TRUE
    BY DEF Fails, server, clientSide
<1>2. Types'
    BY <1>1, ZenonT(40) DEF Types, TypeOK
<1>3. UpStream' /\ Routed' /\ ParamsOfRoute'
    BY <1>1, UpKept, RoutedKept, ParamsKept DEF ServerClosed
<1>4. DownStream' /\ Answered'
    BY <1>1, DownKept, AnsweredKept DEF ClientClosed
<1> QED
    BY <1>2, <1>3, <1>4

LEMMA CrashKeeps ==
    ASSUME IInv, Crash
    PROVE  IInv'
<1> USE DEF IInv
<1>1. UNCHANGED <<request, routes, err, pc, buf, seen, res, out, ran, calls, cpc, todo, cbuf, result, up, down>>
      /\ crashed' = TRUE
    BY DEF Crash, server, clientSide
<1>2. Types'
    BY <1>1, ZenonT(40) DEF Types, TypeOK
<1>3. UpStream' /\ Routed' /\ ParamsOfRoute'
    BY <1>1, UpKept, RoutedKept, ParamsKept DEF ServerClosed
<1>4. DownStream' /\ Answered'
    BY <1>1, DownKept, AnsweredKept DEF ClientClosed
<1> QED
    BY <1>2, <1>3, <1>4

LEMMA HandlerReturnsKeeps ==
    ASSUME IInv, HandlerReturns
    PROVE  IInv'
<1> USE DEF IInv
<1>1. UNCHANGED <<request, routes, err, buf, seen, res, out, calls, cpc, todo, cbuf, result, up, down, crashed>>
      /\ pc = "handler" /\ pc' = "respond" /\ ran' = ~err
    BY DEF HandlerReturns, Serves, clientSide
<1>2. Types'
    BY <1>1 DEF Types, TypeOK
<1>3. UpStream' /\ ParamsOfRoute'
    BY <1>1, UpKept, ParamsKept DEF ServerClosed
<1>4. Routed'
    BY <1>1 DEF Routed
<1>5. DownStream'
  <2>1. Answer' = Answer
      BY <1>1 DEF Answer, AnswerHead
  <2> QED
      BY <1>1, <2>1 DEF DownStream
<1>6. Answered'
    BY <1>1, AnsweredKept
<1> QED
    BY <1>2, <1>3, <1>4, <1>5, <1>6

LEMMA RespondKeeps ==
    ASSUME IInv, Respond
    PROVE  IInv'
<1> USE DEF IInv
<1>1. UNCHANGED <<request, routes, err, buf, seen, res, ran, calls, cpc, todo, cbuf, result, up, down, crashed>>
      /\ pc = "respond" /\ pc' = "write" /\ out' = Answer
    BY DEF Respond, Serves, clientSide, Answer, AnswerHead
<1>2. Types'
    BY <1>1, AnswerShape DEF Types, TypeOK
<1>3. UpStream' /\ ParamsOfRoute'
    BY <1>1, UpKept, ParamsKept DEF ServerClosed
<1>4. Routed'
    BY <1>1 DEF Routed
<1>5. DownStream'
  <2>1. Answer' = Answer
      BY <1>1 DEF Answer, AnswerHead
  <2>2. down = <<>> /\ cbuf = <<>> /\ Len(<<>>) = 0 /\ Len(Answer) \in Nat
      BY <1>1, AnswerShape, EmptySeq DEF DownStream
  <2>3. Piece(Answer, 0 + 0, Answer) /\ Piece(<<>>, 0, Answer) /\ 0 + 0 + Len(Answer) = Len(Answer)
      BY <2>2 DEF Piece
  <2> QED
      BY <1>1, <2>1, <2>2, <2>3 DEF DownStream
<1>6. Answered'
    BY <1>1, AnsweredKept
<1> QED
    BY <1>2, <1>3, <1>4, <1>5, <1>6

LEMMA WriteKeeps ==
    ASSUME IInv, NEW n \in DOMAIN out, Write(n)
    PROVE  IInv'
<1> USE DEF IInv
<1>0. /\ down \in Seq(Unit) /\ out \in Seq(Unit) /\ cbuf \in Seq(Unit) /\ Answer \in Seq(Unit)
      /\ Len(down) \in Nat /\ Len(out) \in Nat /\ Len(cbuf) \in Nat /\ n \in 1 .. Len(out)
    BY AnswerShape DEF Types
<1>1. UNCHANGED <<request, routes, err, pc, buf, seen, res, ran, calls, cpc, todo, cbuf, result, up, crashed>>
      /\ pc = "write"
    BY DEF Write, Serves, clientSide
<1>2. out' = SubSeq(out, n + 1, Len(out)) /\ down' = IF ClientClosed THEN down ELSE down \o SubSeq(out, 1, n)
    BY DEF Write
<1>3. out' \in Seq(Unit)
    BY <1>0, <1>2
<1>4. Answer' = Answer /\ (ClientClosed' <=> ClientClosed)
    BY <1>1 DEF Answer, AnswerHead, ClientClosed
<1>5. down' \in Seq(Unit) /\ DownStream'
  <2>1. CASE ClientClosed
      BY <1>1, <1>2, <1>4, <2>1 DEF DownStream, Types
  <2>2. CASE ~ClientClosed
    <3>1. Piece(down, Len(cbuf), Answer) /\ Piece(out, Len(cbuf) + Len(down), Answer)
        BY <1>1, <2>2 DEF DownStream
    <3>2. /\ down \o SubSeq(out, 1, n) \in Seq(Unit)
          /\ Len(down \o SubSeq(out, 1, n)) = Len(down) + n
          /\ Piece(down \o SubSeq(out, 1, n), Len(cbuf), Answer)
          /\ Len(SubSeq(out, n + 1, Len(out))) = Len(out) - n
          /\ Piece(SubSeq(out, n + 1, Len(out)), Len(cbuf) + Len(down \o SubSeq(out, 1, n)), Answer)
        BY <1>0, <3>1, PieceMoves, SMTT(30)
    <3>3. /\ down' \in Seq(Unit) /\ Len(down') = Len(down) + n /\ Piece(down', Len(cbuf), Answer)
          /\ Len(out') = Len(out) - n /\ Piece(out', Len(cbuf) + Len(down'), Answer)
        BY <1>2, <2>2, <3>2
    <3>4. Len(cbuf) + Len(down') + Len(out') = Len(cbuf) + Len(down) + Len(out)
        BY <1>0, <3>3
    <3> QED
        BY <1>1, <1>4, <2>2, <3>3, <3>4 DEF DownStream
  <2> QED
      BY <2>1, <2>2
<1>6. Types'
    BY <1>1, <1>3, <1>5 DEF Types, TypeOK
<1>7. UpStream' /\ Routed' /\ ParamsOfRoute'
    BY <1>1, UpKept, RoutedKept, ParamsKept DEF ServerClosed
<1>8. Answered'
    BY <1>1, AnsweredKept
<1> QED
    BY <1>5, <1>6, <1>7, <1>8

LEMMA WriteFailsKeeps ==
    ASSUME IInv, WriteFails
    PROVE  IInv'
<1> USE DEF IInv
<1>1. UNCHANGED <<request, routes, err, pc, buf, seen, res, ran, calls, cpc, todo, cbuf, result, up, down, crashed>>
      /\ pc = "write" /\ out' = <<>> /\ ClientClosed
    BY DEF WriteFails, Serves, clientSide
<1>2. Types'
    BY <1>1, EmptySeq DEF Types, TypeOK
<1>3. UpStream' /\ Routed' /\ ParamsOfRoute'
    BY <1>1, UpKept, RoutedKept, ParamsKept DEF ServerClosed
<1>4. DownStream'
  <2>1. Answer' = Answer /\ ClientClosed'
      BY <1>1 DEF Answer, AnswerHead, ClientClosed
  <2> QED
      BY <1>1, <2>1 DEF DownStream
<1>5. Answered'
    BY <1>1, AnsweredKept
<1> QED
    BY <1>2, <1>3, <1>4, <1>5

\* Only a request that is not what it says leaves something unread, and only
\* then does close() reset the connection.
LEMMA EndKeeps ==
    ASSUME IInv, End
    PROVE  IInv'
<1> USE DEF IInv
<1>1. UNCHANGED <<request, routes, err, buf, seen, res, out, ran, calls, cpc, todo, cbuf, result, up, crashed>>
      /\ pc = "write" /\ pc' = "end" /\ out = <<>> /\ (down' = down \/ down' = <<>>)
      /\ (up = <<>> => down' = down)
    BY DEF End, Serves, clientSide
<1>0. <<>> \in Seq(Unit) /\ Len(<<>>) = 0 /\ Len(cbuf) \in Nat /\ Len(down) \in Nat /\ Len(Answer) \in Nat
    BY AnswerShape, EmptySeq DEF Types
<1>2. Types'
    BY <1>0, <1>1, ZenonT(40) DEF Types, TypeOK
<1>3. UpStream' /\ ParamsOfRoute'
    BY <1>1, UpKept, ParamsKept DEF ServerClosed
<1>4. Routed'
    BY <1>1 DEF Routed
<1>5. DownStream'
  <2>1. Answer' = Answer /\ (Honest' <=> Honest) /\ (ClientClosed' <=> ClientClosed)
      BY <1>1 DEF Answer, AnswerHead, Honest, ClientClosed
  <2>2. Complete(buf) /\ Len(buf) <= MaxBuf
      BY <1>1 DEF Routed
  <2>3. Honest => down' = down
      BY <1>1, <2>2, CompleteMeans
  <2>4. Piece(cbuf, 0, Answer) /\ Piece(down, Len(cbuf), Answer) /\ Piece(<<>>, Len(cbuf), Answer)
      BY <1>0 DEF DownStream, Piece
  <2>5. ~ClientClosed => Len(cbuf) + Len(down) = Len(Answer)
      BY <1>0, <1>1 DEF DownStream
  <2> QED
      BY <1>1, <2>1, <2>3, <2>4, <2>5 DEF DownStream
<1>6. Answered'
    BY <1>1, AnsweredKept
<1> QED
    BY <1>2, <1>3, <1>4, <1>5, <1>6
-----------------------------------------------------------------------------
(* The client's steps. *)

LEMMA ClientEndsKeeps ==
    ASSUME IInv, ConnectFails \/ ClientWriteFails \/ ClientDies
    PROVE  IInv'
<1> USE DEF IInv
<1>1. UNCHANGED <<request, routes, err, pc, buf, seen, res, out, ran, calls, todo, cbuf, result, up, down, crashed>>
      /\ cpc \in {"connect", "send", "recv"} /\ cpc' \in {"done", "dead"}
    BY DEF ConnectFails, ClientWriteFails, ClientDies, server
<1>2. Types'
    BY <1>1, ZenonT(40) DEF Types, TypeOK
<1>3. UpStream' /\ Routed' /\ ParamsOfRoute'
    BY <1>1, UpKept, RoutedKept, ParamsKept DEF ServerClosed
<1>4. DownStream' /\ Answered'
    BY <1>1, DownKept, AnsweredKept DEF ClientClosed
<1> QED
    BY <1>2, <1>3, <1>4

LEMMA ConnectKeeps ==
    ASSUME IInv, Connect
    PROVE  IInv'
<1> USE DEF IInv
<1>1. UNCHANGED <<request, routes, err, pc, buf, seen, res, out, ran, calls, cbuf, result, up, down, crashed>>
      /\ cpc = "connect" /\ cpc' = "send" /\ todo' = Asked
    BY DEF Connect, server, Asked, AskedHead
<1>2. Types'
    BY <1>1, AskedShape, ZenonT(40) DEF Types, TypeOK
<1>3. UpStream'
  <2>1. Asked' = Asked
      BY <1>1 DEF Asked, AskedHead
  <2>2. buf = <<>> /\ up = <<>> /\ Len(<<>>) = 0 /\ Len(Asked) \in Nat
      BY <1>1, AskedShape, EmptySeq DEF UpStream
  <2>3. Piece(Asked, 0 + 0, Asked) /\ Piece(<<>>, 0, Asked)
      BY <2>2 DEF Piece
  <2> QED
      BY <1>1, <2>1, <2>2, <2>3 DEF UpStream
<1>4. Routed' /\ ParamsOfRoute'
    BY <1>1, RoutedKept, ParamsKept
<1>5. DownStream' /\ Answered'
    BY <1>1, DownKept, AnsweredKept DEF ClientClosed
<1> QED
    BY <1>2, <1>3, <1>4, <1>5

LEMMA ClientWriteKeeps ==
    ASSUME IInv, NEW n \in DOMAIN todo, ClientWrite(n)
    PROVE  IInv'
<1> USE DEF IInv
<1>0. /\ up \in Seq(Unit) /\ todo \in Seq(Unit) /\ buf \in Seq(Unit) /\ Asked \in Seq(Unit)
      /\ Len(up) \in Nat /\ Len(todo) \in Nat /\ Len(buf) \in Nat /\ n \in 1 .. Len(todo)
    BY AskedShape, SMTT(30) DEF Types
<1>1. UNCHANGED <<request, routes, err, pc, buf, seen, res, out, ran, calls, cbuf, result, down, crashed>>
      /\ cpc = "send" /\ cpc' \in {"send", "recv"}
    BY DEF ClientWrite, server
<1>2. todo' = SubSeq(todo, n + 1, Len(todo)) /\ up' = IF ServerClosed THEN up ELSE up \o SubSeq(todo, 1, n)
    BY DEF ClientWrite
<1>3. todo' \in Seq(Unit)
    BY <1>0, <1>2
<1>4. Asked' = Asked /\ (ServerClosed' <=> ServerClosed)
    BY <1>1 DEF Asked, AskedHead, ServerClosed
<1>5. up' \in Seq(Unit) /\ UpStream'
  <2>1. CASE ServerClosed
      BY <1>1, <1>2, <1>4, <2>1 DEF UpStream, Types
  <2>2. CASE ~ServerClosed
    <3>1. Piece(up, Len(buf), Asked) /\ Piece(todo, Len(buf) + Len(up), Asked)
        BY <1>1, <2>2 DEF UpStream
    <3>2. /\ up \o SubSeq(todo, 1, n) \in Seq(Unit)
          /\ Len(up \o SubSeq(todo, 1, n)) = Len(up) + n
          /\ Piece(up \o SubSeq(todo, 1, n), Len(buf), Asked)
          /\ Piece(SubSeq(todo, n + 1, Len(todo)), Len(buf) + Len(up \o SubSeq(todo, 1, n)), Asked)
        BY <1>0, <3>1, PieceMoves
    <3>3. /\ up' \in Seq(Unit) /\ Piece(up', Len(buf), Asked)
          /\ Piece(todo', Len(buf) + Len(up'), Asked)
        BY <1>2, <2>2, <3>2
    <3> QED
        BY <1>1, <1>4, <3>3 DEF UpStream
  <2> QED
      BY <2>1, <2>2
<1>6. Types'
    BY <1>1, <1>3, <1>5 DEF Types, TypeOK
<1>7. Routed' /\ ParamsOfRoute'
    BY <1>1, RoutedKept, ParamsKept
<1>8. DownStream' /\ Answered'
    BY <1>1, DownKept, AnsweredKept DEF ClientClosed
<1> QED
    BY <1>5, <1>6, <1>7, <1>8

\* What the client makes of what it has read, once it has the head.
LEMMA Reply ==
    ASSUME Types, NEW b \in Seq(Unit), Piece(b, 0, Answer), Len(b) >= 2
    PROVE  /\ b[2].status = res.status /\ b[2].cl = content_length_of(res)
           /\ BodyOf(b) \in Seq(Unit) /\ Len(BodyOf(b)) = Len(b) - 2
           /\ IsPrefix(BodyOf(b), res.body)
           /\ Len(b) = Len(Answer) => BodyOf(b) = res.body
<1>1. /\ b[2] = AnswerHead /\ IsPrefix(BodyOf(b), res.body)
      /\ BodyOf(b) \in Seq(Unit) /\ Len(BodyOf(b)) = Len(b) - 2
      /\ Len(b) = 2 + Len(res.body) => BodyOf(b) = res.body
    BY AnswerShape, BodyOfPiece DEF Answer
<1> QED
    BY <1>1, AnswerShape DEF AnswerHead

\* What it means that the client stops reading: the sum cannot wrap around for a
\* length that is not negative.
LEMMA AllMeans ==
    ASSUME Types, NEW b \in Seq(Unit), Len(b) >= 2, b[2].cl = content_length_of(res),
           HasAll(b), 2 + Len(res.body) <= MaxResp
    PROVE  Len(b) - 2 >= content_length_of(res)
<1> DEFINE c == content_length_of(res)
<1>1. c \in Int /\ (c = Len(res.body) \/ 2 * c < SizeMod) /\ Len(res.body) \in Nat /\ Len(b) \in Nat
    BY AnswerShape
<1>2. c = 0 \/ Len(b) >= (2 + c) % SizeMod
    BY DEF HasAll, find_header_end
<1> HIDE DEF c
<1>3. CASE c <= 0
    BY <1>1, <1>3 DEF c
<1>4. CASE c > 0
  <2>1. \A n, m, k \in Nat : \A x \in Int :
            2 + n <= m /\ 2 * m < k /\ x > 0 /\ (x = n \/ 2 * x < k) => 2 + x \in Nat /\ 2 + x < k
      OBVIOUS
  <2>2. 2 + c \in Nat /\ 2 + c < SizeMod /\ SizeMod \in Nat
      BY <1>1, <1>4, <2>1, HttpAssumption
  <2>3. (2 + c) % SizeMod = 2 + c
      BY <2>2
  <2>4. Len(b) >= 2 + c
      BY <1>2, <1>4, <2>3
  <2> QED
      BY <1>1, <2>4 DEF c
<1> QED
    BY <1>1, <1>3, <1>4

LEMMA ClientReadKeeps ==
    ASSUME IInv, NEW n \in DOMAIN down, ClientRead(n)
    PROVE  IInv'
<1> USE DEF IInv
<1>0. /\ cbuf \in Seq(Unit) /\ down \in Seq(Unit) /\ out \in Seq(Unit) /\ Answer \in Seq(Unit)
      /\ Len(cbuf) \in Nat /\ Len(down) \in Nat /\ Len(out) \in Nat /\ n \in 1 .. Len(down)
      /\ Len(Answer) = 2 + Len(res.body) /\ Len(res.body) \in Nat
    BY AnswerShape DEF Types
<1>1. UNCHANGED <<request, routes, err, pc, buf, seen, res, out, ran, calls, todo, up, crashed>>
      /\ cpc = "recv"
    BY DEF ClientRead, server
<1>2. cbuf' = cbuf \o SubSeq(down, 1, n) /\ down' = SubSeq(down, n + 1, Len(down))
    BY DEF ClientRead
<1>3. /\ cbuf' \in Seq(Unit) /\ Len(cbuf') = Len(cbuf) + n /\ Piece(cbuf', 0, Answer)
      /\ down' \in Seq(Unit) /\ Len(down') = Len(down) - n /\ Piece(down', Len(cbuf'), Answer)
  <2>1. Piece(cbuf, 0, Answer) /\ Piece(down, 0 + Len(cbuf), Answer) /\ 0 \in Nat
      BY <1>0 DEF DownStream
  <2>2. /\ cbuf \o SubSeq(down, 1, n) \in Seq(Unit)
        /\ Len(cbuf \o SubSeq(down, 1, n)) = Len(cbuf) + n
        /\ Piece(cbuf \o SubSeq(down, 1, n), 0, Answer)
        /\ SubSeq(down, n + 1, Len(down)) \in Seq(Unit)
        /\ Len(SubSeq(down, n + 1, Len(down))) = Len(down) - n
        /\ Piece(SubSeq(down, n + 1, Len(down)), 0 + Len(cbuf \o SubSeq(down, 1, n)), Answer)
      BY <1>0, <2>1, PieceMoves
  <2>3. /\ cbuf' \in Seq(Unit) /\ Len(cbuf') = Len(cbuf) + n /\ Piece(cbuf', 0, Answer)
        /\ down' \in Seq(Unit) /\ Len(down') = Len(down) - n /\ Piece(down', 0 + Len(cbuf'), Answer)
      BY <1>2, <2>2
  <2>4. 0 + Len(cbuf') = Len(cbuf')
      BY <1>0, <2>3
  <2> QED
      BY <2>3, <2>4
<1>4. Answer' = Answer /\ (Honest' <=> Honest)
    BY <1>1 DEF Answer, AnswerHead, Honest
<1>5. pc \in {"write", "end"} /\ down # <<>>
  <2>1. down # <<>>
      BY <1>0, EmptySeq
  <2> QED
      BY <2>1 DEF DownStream, Types, TypeOK
<1>6. DownStream'
  <2>1. Len(cbuf') + Len(down') = Len(cbuf) + Len(down)
      BY <1>0, <1>3
  <2>2. ~ClientClosed
      BY <1>1 DEF ClientClosed
  <2> QED
      BY <1>1, <1>3, <1>4, <1>5, <2>1, <2>2 DEF DownStream
<1>7. CASE Len(cbuf') > MaxResp
  <2>1. /\ cpc' = "done"
        /\ result' = IF find_header_end(cbuf) > 0
                     THEN [ok |-> TRUE, status |-> cbuf'[2].status, body |-> BodyOf(cbuf')]
                     ELSE [ok |-> FALSE]
      BY <1>7 DEF ClientRead, Return
  <2>2. CASE ~(find_header_end(cbuf) > 0)
    <3>1. result'.ok = FALSE
        BY <2>1, <2>2
    <3> QED
        BY <1>1, <1>3, <1>6, <2>1, <3>1, UpKept, RoutedKept, ParamsKept
        DEF Types, TypeOK, Answered, ServerClosed
  <2>3. CASE find_header_end(cbuf) > 0
    <3>1. Len(cbuf') >= 2
      <4>1. Len(cbuf) >= 2
          BY <2>3 DEF find_header_end
      <4> QED
          BY <1>0, <1>3, <4>1
    <3>2. /\ result'.ok = TRUE /\ result'.status = res.status
          /\ result'.body \in Seq(Unit) /\ IsPrefix(result'.body, res.body)
        BY <1>3, <2>1, <2>3, <3>1, Reply
    <3>3. ~(2 + Len(res.body) <= MaxResp)
      <4>1. 0 + Len(cbuf') <= Len(Answer)
          BY <1>3 DEF Piece
      <4>2. \A l, r, m \in Nat : 0 + l <= 2 + r /\ l > m => ~(2 + r <= m)
          OBVIOUS
      <4>3. MaxResp \in Nat /\ Len(cbuf') \in Nat
          BY <1>3, HttpAssumption
      <4> QED
          BY <1>0, <1>7, <4>1, <4>2, <4>3, Zenon
    <3>4. Got'
        BY <1>1, <3>2, <3>3 DEF Got
    <3> QED
        BY <1>1, <1>3, <1>5, <1>6, <2>1, <3>2, <3>4, UpKept, RoutedKept, ParamsKept
        DEF Types, TypeOK, Answered, ServerClosed
  <2> QED
      BY <2>2, <2>3
<1>8. CASE ~(Len(cbuf') > MaxResp)
  <2>1. UNCHANGED <<cpc, result>>
      BY <1>8 DEF ClientRead
  <2> QED
      BY <1>1, <1>3, <1>6, <2>1, UpKept, RoutedKept, ParamsKept, AnsweredKept, ZenonT(40)
      DEF Types, TypeOK, ServerClosed
<1> QED
    BY <1>7, <1>8

LEMMA ClientReturnsKeeps ==
    ASSUME IInv, ClientReturns
    PROVE  IInv'
<1> USE DEF IInv
<1>0. /\ cbuf \in Seq(Unit) /\ Len(cbuf) \in Nat /\ Piece(cbuf, 0, Answer)
      /\ Len(Answer) = 2 + Len(res.body) /\ Len(res.body) \in Nat
    BY AnswerShape DEF Types, DownStream
<1>1. UNCHANGED <<request, routes, err, pc, buf, seen, res, out, ran, calls, todo, cbuf, up, down, crashed>>
      /\ cpc = "recv" /\ cpc' = "done" /\ (HasAll(cbuf) \/ (down = <<>> /\ ServerClosed))
      /\ result' = IF find_header_end(cbuf) > 0
                   THEN [ok |-> TRUE, status |-> cbuf[2].status, body |-> BodyOf(cbuf)]
                   ELSE [ok |-> FALSE]
    BY DEF ClientReturns, Return, server
<1>2. UpStream' /\ Routed' /\ ParamsOfRoute' /\ DownStream'
    BY <1>1, UpKept, RoutedKept, ParamsKept, DownKept DEF ServerClosed, ClientClosed
<1>3. CASE ~(find_header_end(cbuf) > 0)
  <2>1. result'.ok = FALSE
      BY <1>1, <1>3
  <2> QED
      BY <1>1, <1>2, <2>1 DEF Types, TypeOK, Answered
<1>4. CASE find_header_end(cbuf) > 0
  <2>1. Len(cbuf) >= 2 /\ cbuf # <<>>
    <3>1. Len(cbuf) >= 2
        BY <1>4 DEF find_header_end
    <3> QED
        BY <3>1, EmptySeq
  <2>2. /\ cbuf[2].status = res.status /\ cbuf[2].cl = content_length_of(res)
        /\ BodyOf(cbuf) \in Seq(Unit) /\ Len(BodyOf(cbuf)) = Len(cbuf) - 2
        /\ IsPrefix(BodyOf(cbuf), res.body)
        /\ Len(cbuf) = Len(Answer) => BodyOf(cbuf) = res.body
      BY <1>0, <2>1, Reply
  <2>3. result'.ok = TRUE /\ result'.status = res.status /\ result'.body = BodyOf(cbuf)
      BY <1>1, <1>4, <2>2
  <2>4. pc \in {"write", "end"}
      BY <2>1 DEF DownStream, Types, TypeOK
  <2>5. ASSUME Honest, ~crashed, 2 + Len(res.body) <= MaxResp
        PROVE  BodyOf(cbuf) = res.body \/ Len(BodyOf(cbuf)) >= content_length_of(res)
    <3>2. CASE HasAll(cbuf)
        BY <1>0, <2>1, <2>2, <2>5, <3>2, AllMeans
    <3>3. CASE down = <<>> /\ ServerClosed
      <4>1. pc = "end" /\ ~ClientClosed
          BY <1>1, <2>5, <3>3 DEF ServerClosed, ClientClosed
      <4>2. Len(cbuf) + Len(down) = Len(Answer) /\ Len(down) = 0
          BY <2>1, <2>5, <3>3, <4>1, EmptySeq DEF DownStream
      <4> QED
          BY <1>0, <2>2, <4>2
    <3> QED
        BY <1>1, <3>2, <3>3
  <2>6. Got'
      BY <1>1, <2>2, <2>3, <2>5 DEF Got, Honest
  <2> QED
      BY <1>1, <1>2, <2>3, <2>4, <2>6 DEF Types, TypeOK, Answered
<1> QED
    BY <1>3, <1>4
-----------------------------------------------------------------------------
(* The theorems. *)

LEMMA IInvStep == IInv /\ [Next]_vars => IInv'
<1> SUFFICES ASSUME IInv, [Next]_vars PROVE IInv'
    OBVIOUS
<1>1. CASE ServerStep
    BY <1>1, ReadKeeps, ReadEofKeeps, RouteKeeps, HandlerReturnsKeeps, RespondKeeps, WriteFailsKeeps,
       EndKeeps, WriteKeeps DEF ServerStep
<1>2. CASE HandlerStep
    BY <1>2, HandlerStepKeeps
<1>3. CASE ClientStep
    BY <1>3, ClientEndsKeeps, ConnectKeeps, ClientReturnsKeeps, ClientWriteKeeps, ClientReadKeeps
    DEF ClientStep
<1>4. CASE Fails \/ Crash \/ ClientDies
    BY <1>4, FailsKeeps, CrashKeeps, ClientEndsKeeps
<1>5. CASE UNCHANGED vars
  <2>1. UNCHANGED <<request, routes, err, pc, buf, seen, res, out, ran, calls, cpc, todo, cbuf, result,
                    up, down, crashed>>
      BY <1>5 DEF vars, server, clientSide
  <2>2. Types'
      BY <2>1, ZenonT(40) DEF IInv, Types, TypeOK
  <2>3. UpStream' /\ Routed' /\ ParamsOfRoute' /\ DownStream' /\ Answered'
      BY <2>1, UpKept, RoutedKept, ParamsKept, DownKept, AnsweredKept DEF IInv, ServerClosed, ClientClosed
  <2> QED
      BY <2>2, <2>3 DEF IInv
<1> QED
    BY <1>1, <1>2, <1>3, <1>4, <1>5 DEF Next

\* The invariant of the exchange: where each buffer and stream of http_conn_entry
\* and do_request lies in its message.
THEOREM Exchange == Spec => []IInv
    BY InitIInv, IInvStep, PTL DEF Spec

\* Every variable of http_conn_entry and do_request keeps its type: no route
\* number is out of range, and no response is other than a handler can make it.
THEOREM TypeCorrect == Spec => []TypeOK
<1>1. IInv => TypeOK
    BY DEF IInv, Types
<1> QED
    BY <1>1, Exchange, PTL

\* http_conn_entry: wherever recv() cuts the request, and for every limit on the
\* buffer, the handler sees at least the announced part of the body, and the
\* whole body if it is as long as Content-Length says.
THEOREM BodyIsWhole == Spec => []BodyWhole
<1>1. IInv => BodyWhole
  <2> SUFFICES ASSUME IInv, pc # "read", seen # NotYet
               PROVE  /\ IsPrefix(seen.body, request.body)
                      /\ request.cl >= 0 => Len(seen.body) >= request.cl
                      /\ Honest => seen.body = request.body
      BY DEF BodyWhole
  <2>1. Complete(buf) /\ Len(buf) <= MaxBuf /\ seen.body = BodyOf(buf)
      BY DEF IInv, Routed
  <2> QED
      BY <2>1, CompleteMeans DEF IInv
<1> QED
    BY <1>1, Exchange, PTL

\* match_route: for every route table and path, a handler's params have exactly
\* the names of its own pattern's parameters.
THEOREM ParamsAreOwn == Spec => []ParamsOfRoute
<1>1. IInv => ParamsOfRoute
    BY DEF IInv
<1> QED
    BY <1>1, Exchange, PTL

\* do_request returns what the handler made of res: status and body, and the
\* whole body unless the server's process ended, the response is too long for
\* the client, the request was not what its Content-Length says, or header fields
\* of the handler hide the length.
THEOREM ExchangeRoundTrip == Spec => []RoundTrip
<1>1. IInv => RoundTrip
  <2> SUFFICES ASSUME IInv, result.ok, Honest, ~crashed, 2 + Len(res.body) <= MaxResp,
                      PlainHeaders(res.headers)
               PROVE  result.body = res.body
      BY DEF IInv, Answered, Got, RoundTrip
  <2>1. res \in Response /\ res.body \in Seq(Unit) /\ Len(res.body) \in Nat
      BY AnswerShape DEF IInv, Types, TypeOK, Response, HandlerField
  <2>2. content_length_of(res) = Len(res.body)
      BY <2>1, PlainLength
  <2>3. /\ result.body \in Seq(Unit) /\ IsPrefix(result.body, res.body)
        /\ result.body = res.body \/ Len(result.body) >= Len(res.body)
      BY <2>2 DEF IInv, Answered, Got
  <2>4. Len(result.body) \in 0 .. Len(res.body) /\ result.body = SubSeq(res.body, 1, Len(result.body))
      BY <2>1, <2>3, PrefixOf
  <2>5. CASE Len(result.body) >= Len(res.body)
    <3>1. Len(result.body) = Len(res.body)
        BY <2>1, <2>4, <2>5
    <3>2. SubSeq(res.body, 1, Len(res.body)) = res.body
        BY <2>1
    <3> QED
        BY <2>4, <3>1, <3>2, Zenon
  <2> QED
      BY <2>3, <2>5
<1> QED
    BY <1>1, Exchange, PTL
-----------------------------------------------------------------------------
(* The promise to the caller. *)

\* A request is accepted when it is routed.  Only then is there an answer, and
\* what no route fits is answered with the 404.
Handled ==
    /\ pc = "read" => ~Accepted /\ res.headers = <<>>
    /\ pc = "handler" => seen.route # 0
    /\ pc \in {"respond", "write"} => Accepted
    /\ pc = "respond" /\ seen.route = 0 => res.body = NotFound.body /\ res.headers = <<>>
    /\ ~Accepted => cbuf = <<>> /\ down = <<>>
    /\ ~ClientClosed => result = [ok |-> FALSE]

\* What http_conn_entry and do_request do with the streams does not show.
LEMMA SameCall ==
    ASSUME UNCHANGED <<request, pc, seen, res, result, crashed>>, ClientClosed' <=> ClientClosed
    PROVE  UNCHANGED Call!vars
<1>1. (Accepted' <=> Accepted) /\ (Final' <=> Final)
    BY DEF Accepted, Final
<1> QED
    BY <1>1 DEF Call!vars

LEMMA InitHandled == Init => Handled
    BY DEF Init, Handled, Accepted, NotYet, http_make_response, ClientClosed

\* match_route's loop has ended: the request is accepted.
LEMMA RouteAccepts ==
    ASSUME IInv, Handled, Route
    PROVE  Handled' /\ \E n \in 0 .. Len(request.body) : Call!Accept(n)
<1> DEFINE i == match_route(buf[2].method, buf[2].path)
           n == Len(BodyOf(buf))
<1>1. /\ pc = "read" /\ ~crashed /\ Complete(buf)
      /\ UNCHANGED <<request, cpc, cbuf, down, result, crashed>>
      /\ seen'.route = i /\ seen'.body = BodyOf(buf)
    BY DEF Route, Serves, clientSide
<1>2. /\ BodyOf(buf) \in Seq(Unit) /\ IsPrefix(BodyOf(buf), request.body)
      /\ request.cl >= 0 => n >= request.cl
      /\ Honest => BodyOf(buf) = request.body
    BY <1>1, CompleteMeans DEF IInv, Routed
<1>3. request.body \in Seq(Unit) /\ Len(request.body) \in Nat /\ request.cl \in Int
    BY AskedShape, HttpAssumption DEF IInv
<1>4. n \in 0 .. Len(request.body) /\ BodyOf(buf) = SubSeq(request.body, 1, n)
    BY <1>2, <1>3, PrefixOf
<1>5. \/ /\ i = 0 /\ pc' = "respond"
         /\ res'.status = 404 /\ res'.body = NotFound.body /\ res'.headers = <<>>
      \/ i # 0 /\ pc' = "handler" /\ res' = res
  <2>1. CASE i = 0
    <3>1. pc' = "respond" /\ res' = [res EXCEPT !.status = 404, !.body = <<"Not Found">>]
        BY <2>1 DEF Route
    <3>2. res'.status = 404 /\ res'.body = <<"Not Found">> /\ res'.headers = res.headers
        BY <3>1 DEF IInv, Types, TypeOK
    <3> QED
        BY <1>1, <2>1, <3>1, <3>2 DEF NotFound, Handled
  <2>2. CASE i # 0
      BY <2>2 DEF Route
  <2> QED
      BY <2>1, <2>2
<1> HIDE DEF i
<1>6. ~Accepted /\ Accepted' /\ ~Final /\ ~Final' /\ (ClientClosed' <=> ClientClosed)
    BY <1>1, <1>5 DEF Handled, Accepted, Final, ClientClosed
<1>7. Handled'
    BY <1>1, <1>5, <1>6 DEF Handled, NotFound
<1>8. n >= request.cl
  <2>1. \A a \in Nat : \A c \in Int : (c >= 0 => a >= c) => a >= c
      OBVIOUS
  <2>2. n \in Nat
      BY <1>2
  <2> QED
      BY <1>2, <1>3, <2>1, <2>2, Zenon
<1> HIDE DEF n
<1>9. Call!Accept(n)
  <2>1. Honest => n = Len(request.body)
      BY <1>2 DEF n
  <2> QED
      BY <1>1, <1>4, <1>6, <1>8, <2>1 DEF Call!Accept, Call!First, Call!Honest, Honest
<1> QED
    BY <1>4, <1>7, <1>9

LEMMA ReadHides ==
    ASSUME Handled, ReadEof \/ \E n \in DOMAIN up : Read(n)
    PROVE  Handled' /\ UNCHANGED Call!vars
<1>1. /\ pc = "read" /\ pc' \in {"read", "end"}
      /\ UNCHANGED <<request, seen, res, cpc, cbuf, down, result, crashed>>
    BY DEF ReadEof, Read, Serves, clientSide
<1>2. ~Accepted /\ ~Accepted' /\ ~Final /\ ~Final' /\ (ClientClosed' <=> ClientClosed)
    BY <1>1 DEF Handled, Accepted, Final, ClientClosed
<1>3. Handled'
    BY <1>1, <1>2 DEF Handled
<1> QED
    BY <1>1, <1>2, <1>3 DEF Call!vars

\* A handler and its calls on res: nothing is final before the response.
LEMMA HandlerHides ==
    ASSUME IInv, Handled, HandlerReturns \/ HandlerStep
    PROVE  Handled' /\ UNCHANGED Call!vars
<1>1. /\ pc = "handler" /\ pc' \in {"handler", "respond"}
      /\ UNCHANGED <<request, seen, cpc, cbuf, down, result, crashed>>
    BY DEF HandlerReturns, HandlerStep, Send, Json, Status, Header, Statement, Serves, clientSide
<1>2. seen.route # 0 /\ Accepted /\ Accepted' /\ ~Final /\ ~Final' /\ (ClientClosed' <=> ClientClosed)
    BY <1>1 DEF Handled, Accepted, Final, ClientClosed
<1>3. Handled'
    BY <1>1, <1>2 DEF Handled
<1> QED
    BY <1>1, <1>2, <1>3 DEF Call!vars

LEMMA RespondAnswers ==
    ASSUME IInv, Handled, Respond
    PROVE  Handled' /\ Call!Answer
<1> DEFINE r == [status |-> res.status, body |-> res.body, cl |-> content_length_of(res)]
<1>1. /\ pc = "respond" /\ pc' = "write" /\ ~crashed
      /\ UNCHANGED <<request, seen, res, cpc, cbuf, down, result, crashed>>
    BY DEF Respond, Serves, clientSide
<1>2. Accepted /\ Accepted' /\ ~Final /\ Final' /\ (ClientClosed' <=> ClientClosed)
    BY <1>1 DEF Handled, Accepted, Final, ClientClosed
<1>3. Handled'
    BY <1>1, <1>2 DEF Handled
<1>4. r \in [status : Statuses, body : Bodies \cup {NotFound.body}, cl : Int]
    BY AnswerShape DEF IInv, Types, TypeOK, NotFound
<1>5. ASSUME seen.route = 0 PROVE r = NotFound
  <2>1. res.status = 404 /\ res.body = NotFound.body /\ res.headers = <<>>
      BY <1>1, <1>2, <1>5 DEF Handled, Accepted
  <2>2. PlainHeaders(<<>>)
      BY HttpAssumption DEF PlainHeaders
  <2>3. res.body = <<"Not Found">> /\ Len(<<"Not Found">>) = 1
    <3>1. "Not Found" \in Unit
        BY DEF Unit
    <3>2. Len(<<"Not Found">>) = 1
        BY <3>1, OneUnit, Zenon
    <3> QED
        BY <2>1, <3>2 DEF NotFound
  <2>4. content_length_of(res) = 1
    <3>1. res \in Response
        BY DEF IInv, Types, TypeOK, Response, HandlerField
    <3>2. Len(res.body) = 1
        BY <2>3, Zenon
    <3>3. PlainHeaders(res.headers) /\ Len(res.body) \in Nat
        BY <2>1, <2>2, <3>2
    <3>4. content_length_of(res) = Len(res.body)
        BY <3>1, <3>3, PlainLength, Zenon
    <3> QED
        BY <3>2, <3>4
  <2> QED
      BY <2>1, <2>4 DEF NotFound
<1>6. Call!Answer
  <2>1. seen.route' = seen.route /\ content_length_of(res') = content_length_of(res)
      BY <1>1
  <2> QED
      BY <1>1, <1>2, <1>4, <1>5, <2>1 DEF Call!Answer
<1> QED
    BY <1>3, <1>6

LEMMA WriteHides ==
    ASSUME Handled, WriteFails \/ End \/ \E n \in DOMAIN out : Write(n)
    PROVE  Handled' /\ UNCHANGED Call!vars
<1>1. /\ pc = "write" /\ pc' \in {"write", "end"}
      /\ UNCHANGED <<request, seen, res, cpc, cbuf, result, crashed>>
    BY DEF WriteFails, End, Write, Serves, clientSide
<1>2. Accepted /\ Accepted' /\ Final /\ Final' /\ (ClientClosed' <=> ClientClosed)
    BY <1>1 DEF Handled, Accepted, Final, ClientClosed
<1>3. Handled'
    BY <1>1, <1>2 DEF Handled
<1> QED
    BY <1>1, <1>2, <1>3 DEF Call!vars

LEMMA OtherHides ==
    ASSUME Handled, Fails \/ Connect \/ UNCHANGED vars \/ \E n \in DOMAIN todo : ClientWrite(n)
    PROVE  Handled' /\ UNCHANGED Call!vars
<1>1. /\ UNCHANGED <<request, pc, seen, res, cbuf, down, result, crashed>>
      /\ ClientClosed' <=> ClientClosed
    BY DEF Fails, Connect, vars, ClientWrite, server, clientSide, ClientClosed
<1>2. Handled'
    BY <1>1 DEF Handled, Accepted
<1> QED
    BY <1>1, <1>2, SameCall

LEMMA CrashIsCrash ==
    ASSUME Handled, Crash
    PROVE  Handled' /\ Call!Crash
<1>1. ~crashed /\ crashed' = TRUE /\ UNCHANGED <<request, pc, seen, res, cpc, cbuf, down, result>>
    BY DEF Crash, server, clientSide
<1>2. (Accepted' <=> Accepted) /\ (Final' <=> Final) /\ (ClientClosed' <=> ClientClosed)
    BY <1>1 DEF Accepted, Final, ClientClosed
<1>3. Handled'
    BY <1>1, <1>2 DEF Handled
<1> QED
    BY <1>1, <1>2, <1>3 DEF Call!Crash

\* The client ends with no answer.
LEMMA GivesUp ==
    ASSUME Handled, ~ClientClosed, ClientClosed', UNCHANGED <<request, pc, seen, res, result, crashed>>
    PROVE  Call!GiveUp
<1>1. (Accepted' <=> Accepted) /\ (Final' <=> Final)
    BY DEF Accepted, Final
<1> QED
    BY <1>1 DEF Call!GiveUp

LEMMA EndsWithout ==
    ASSUME Handled, ConnectFails \/ ClientWriteFails \/ ClientDies
    PROVE  Handled' /\ Call!GiveUp
<1>1. /\ UNCHANGED <<request, pc, seen, res, cbuf, down, result, crashed>>
      /\ ~ClientClosed /\ ClientClosed'
    BY DEF ConnectFails, ClientWriteFails, ClientDies, server, ClientClosed
<1>2. Handled'
    BY <1>1 DEF Handled, Accepted
<1> QED
    BY <1>1, <1>2, GivesUp

\* do_request returns what it found in b, after the invariant has said what that is.
LEMMA Returned ==
    ASSUME IInv, IInv', Handled, NEW b \in Seq(Unit), cpc = "recv", cpc' = "done",
           UNCHANGED <<request, pc, seen, res, crashed>>,
           result' = [ok |-> TRUE, status |-> b[2].status, body |-> BodyOf(b)],
           Piece(b, 0, Answer), Len(b) >= 2, Accepted
    PROVE  \E n \in 0 .. Len(res.body) : Final /\ Call!Return(n)
<1> DEFINE n == Len(BodyOf(b))
<1>1. result'.ok = TRUE /\ result'.status = b[2].status /\ result'.body = BodyOf(b)
    OBVIOUS
<1>2. pc \in {"write", "end"} /\ Got'
    BY <1>1 DEF IInv, Answered
<1>3. /\ b[2].status = res.status /\ IsPrefix(BodyOf(b), res.body)
      /\ Honest /\ ~crashed /\ 2 + Len(res.body) <= MaxResp
         => BodyOf(b) = res.body \/ n >= content_length_of(res)
    BY <1>1, <1>2 DEF Got, Honest
<1>4. BodyOf(b) \in Seq(Unit) /\ res.body \in Seq(Unit) /\ Len(res.body) \in Nat
  <2>1. res.body \in Seq(Unit) /\ AnswerHead \in Unit /\ Len(res.body) \in Nat
      BY AnswerShape DEF IInv
  <2> QED
      BY <2>1, BodyOfPiece DEF Answer
<1>5. n \in 0 .. Len(res.body) /\ BodyOf(b) = SubSeq(res.body, 1, n)
    BY <1>3, <1>4, PrefixOf
<1>6. Final /\ Final' /\ Accepted' /\ ~ClientClosed /\ ClientClosed'
    BY <1>2 DEF Final, Accepted, ClientClosed
<1>7. Honest /\ ~crashed /\ Len(res.body) <= MaxResp - 2
      => n = Len(res.body) \/ n >= content_length_of(res)
  <2>1. \A l, m \in Nat : l <= m - 2 => 2 + l <= m
      OBVIOUS
  <2>2. Len(res.body) <= MaxResp - 2 => 2 + Len(res.body) <= MaxResp
      BY <1>4, <2>1, HttpAssumption, Zenon
  <2> QED
      BY <1>3, <2>2
<1>8. result' = [ok |-> TRUE, status |-> res.status, body |-> SubSeq(res.body, 1, n)]
    BY <1>3, <1>5
<1> HIDE DEF n
<1>9. Call!Return(n)
    BY <1>6, <1>7, <1>8 DEF Call!Return, Call!First, Call!Honest, Honest
<1> QED
    BY <1>5, <1>6, <1>9

LEMMA ClientReadReturns ==
    ASSUME IInv, IInv', Handled, NEW n \in DOMAIN down, ClientRead(n)
    PROVE  Handled' /\ (UNCHANGED Call!vars \/ Call!Next)
<1>1. /\ UNCHANGED <<request, pc, seen, res, crashed>> /\ cpc = "recv" /\ ~ClientClosed
      /\ cbuf' = cbuf \o SubSeq(down, 1, n)
    BY DEF ClientRead, server, ClientClosed
<1>2. down # <<>> /\ Accepted
  <2>1. down \in Seq(Unit)
      BY DEF IInv, Types
  <2>2. down # <<>>
      BY <2>1, EmptySeq
  <2> QED
      BY <2>2 DEF Handled
<1>3. Accepted' /\ result = [ok |-> FALSE]
    BY <1>1, <1>2 DEF Accepted, Handled
<1>4. CASE ~(Len(cbuf') > MaxResp)
  <2>1. UNCHANGED <<cpc, result>>
      BY <1>4 DEF ClientRead
  <2> QED
      BY <1>1, <1>2, <1>3, <2>1, SameCall DEF Handled, ClientClosed
<1>5. CASE Len(cbuf') > MaxResp /\ ~(find_header_end(cbuf) > 0)
  <2>1. cpc' = "done" /\ result' = result
      BY <1>3, <1>5 DEF ClientRead, Return
  <2>2. Call!GiveUp
      BY <1>1, <2>1, GivesUp DEF ClientClosed
  <2> QED
      BY <1>1, <1>3, <2>1, <2>2 DEF Handled, ClientClosed, Call!Next
<1>6. CASE Len(cbuf') > MaxResp /\ find_header_end(cbuf) > 0
  <2>1. /\ cpc' = "done"
        /\ result' = [ok |-> TRUE, status |-> cbuf'[2].status, body |-> BodyOf(cbuf')]
      BY <1>6 DEF ClientRead, Return
  <2>2. cbuf' \in Seq(Unit) /\ Piece(cbuf', 0, Answer')
      BY DEF IInv, Types, DownStream
  <2>3. Answer' = Answer
      BY <1>1 DEF Answer, AnswerHead
  <2>4. Len(cbuf') >= 2
    <3>1. cbuf \in Seq(Unit) /\ down \in Seq(Unit) /\ Len(cbuf) >= 2
        BY <1>6 DEF IInv, Types, find_header_end
    <3>2. SubSeq(down, 1, n) \in Seq(Unit) /\ Len(SubSeq(down, 1, n)) \in Nat
        BY <3>1
    <3> QED
        BY <1>1, <3>1, <3>2
  <2>5. \E k \in 0 .. Len(res.body) : Final /\ Call!Return(k)
      BY <1>1, <1>2, <2>1, <2>2, <2>3, <2>4, Returned
  <2>6. Call!Next
      BY <2>5 DEF Call!Next
  <2> QED
      BY <1>1, <1>3, <2>1, <2>6 DEF Handled, ClientClosed
<1> QED
    BY <1>4, <1>5, <1>6

LEMMA ClientReturnsReturns ==
    ASSUME IInv, IInv', Handled, ClientReturns
    PROVE  Handled' /\ Call!Next
<1>1. /\ UNCHANGED <<request, pc, seen, res, cbuf, down, crashed>>
      /\ cpc = "recv" /\ cpc' = "done" /\ ~ClientClosed /\ ClientClosed'
    BY DEF ClientReturns, Return, server, ClientClosed
<1>2. Handled'
    BY <1>1 DEF Handled, Accepted
<1>3. CASE ~(find_header_end(cbuf) > 0)
  <2>1. result' = result
      BY <1>1, <1>3 DEF ClientReturns, Return, Handled
  <2> QED
      BY <1>1, <1>2, <2>1, GivesUp DEF Call!Next
<1>4. CASE find_header_end(cbuf) > 0
  <2>1. result' = [ok |-> TRUE, status |-> cbuf[2].status, body |-> BodyOf(cbuf)]
      BY <1>4 DEF ClientReturns, Return
  <2>2. cbuf \in Seq(Unit) /\ Piece(cbuf, 0, Answer) /\ Len(cbuf) >= 2
      BY <1>4 DEF IInv, Types, DownStream, find_header_end
  <2>3. Accepted
      BY <2>2, EmptySeq DEF Handled
  <2>4. \E n \in 0 .. Len(res.body) : Final /\ Call!Return(n)
      BY <1>1, <2>1, <2>2, <2>3, Returned
  <2> QED
      BY <1>2, <2>4 DEF Call!Next
<1> QED
    BY <1>3, <1>4

LEMMA CallStep == IInv /\ IInv' /\ Handled /\ [Next]_vars => Handled' /\ [Call!Next]_(Call!vars)
<1> SUFFICES ASSUME IInv, IInv', Handled, [Next]_vars
             PROVE  Handled' /\ (Call!Next \/ UNCHANGED Call!vars)
    OBVIOUS
<1>1. CASE ServerStep
  <2>1. CASE Route
      BY <2>1, RouteAccepts DEF Call!Next
  <2>2. CASE Respond
      BY <2>2, RespondAnswers DEF Call!Next
  <2> QED
      BY <1>1, <2>1, <2>2, ReadHides, HandlerHides, WriteHides DEF ServerStep
<1>2. CASE HandlerStep
    BY <1>2, HandlerHides
<1>3. CASE ClientStep
    BY <1>3, EndsWithout, OtherHides, ClientReturnsReturns, ClientReadReturns DEF ClientStep, Call!Next
<1>4. CASE Fails \/ Crash \/ ClientDies
    BY <1>4, OtherHides, CrashIsCrash, EndsWithout DEF Call!Next
<1>5. CASE UNCHANGED vars
    BY <1>5, OtherHides
<1> QED
    BY <1>1, <1>2, <1>3, <1>4, <1>5 DEF Next

\* http_conn_entry and do_request together are a remote call: the request is
\* accepted once, and as a whole if it is what it says, it is answered once, and
\* the Task returns that answer, wherever the streams are cut and whenever one of
\* the two processes goes away.
THEOREM CallKept == Spec => ImplementsRemoteCall
<1>1. Init => Call!Init
    BY DEF Init, Call!Init, Accepted, Final, NotYet, http_make_response, ClientClosed, Unanswered
<1>2. Spec => []IInv
    BY Exchange
<1>3. IInv /\ IInv' /\ Handled /\ [Next]_vars => Handled' /\ [Call!Next]_(Call!vars)
    BY CallStep
<1>4. Spec => Call!Spec
    BY <1>1, <1>2, <1>3, InitHandled, PTL DEF Spec, Call!Spec
<1> QED
    BY <1>4 DEF ImplementsRemoteCall
=============================================================================
