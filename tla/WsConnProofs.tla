---------------------------- MODULE WsConnProofs ----------------------------
(***************************************************************************)
(* What holds of a WebSocket connection for all routes, limits and clients *)
(* and wherever recv() and send() cut the streams.  One invariant is about *)
(* what the connection's coroutine writes while its socket object is used  *)
(* by its own handlers only; another, without that condition, follows the  *)
(* client's frames from the stream through the buffer to on_message.       *)
(***************************************************************************)
EXTENDS WsConn, SequenceTheorems, TLAPS

-----------------------------------------------------------------------------
(* What is written. *)

\* The write the coroutine is in, at each place of ws_conn_entry.
Stages ==
    /\ \A x \in Ctx : w[x].op = "none" => w[x].left = 0
    /\ pc = "reject" => w["conn"].op = "400"
    /\ pc = "upgrade" => w["conn"].op = "101"
    /\ pc = "pong" => w["conn"].op = "pong"
    /\ pc = "reply" => w["conn"].op = "close"
    /\ pc \in Code => w["conn"].op \in {"none", "text", "close"}
    /\ pc \notin Code \cup {"reject", "upgrade", "pong", "reply"} => w["conn"] = Idle

\* Only the coroutine writes.  Once the client is gone nothing arrives any more.
Own ==
    /\ \A x \in Ctx : x # "conn" => w[x] = Idle
    /\ ~gone => wire.half = IF w["conn"].left = 1 THEN "conn" ELSE "none"
    /\ ~wire.torn /\ ~wire.late /\ ~wire.stale
    /\ sock.closed => w["conn"].op \in {"none", "pong"} /\ pc # "head"
    /\ wire.close => sock.closed \/ (w["conn"].op = "close" /\ w["conn"].left = 0)

\* on_close runs when the frame loop has ended and neither side has closed.
Announced ==
    /\ pc = "onclose" => calls = 1
    /\ calls # 0 => calls = 1 /\ pc \in {"onclose", "close", "end"} /\ gone
    /\ pc \in {"close", "end"} /\ sock.on_close /\ ~sock.closed => calls = 1

WInv == TypeOK /\ Stages /\ (~strayed => Own /\ Announced)
-----------------------------------------------------------------------------
(* What is read.  In these definitions z stands for sent. *)

\* The units after the head, and all units.
FrameUnit == [op : {"part", "text", "continuation", "other", "ping", "close"}, len : {0, 1}, id : Nat]
AnyUnit == FrameUnit \cup RequestHead
Kind == {"head", "text", "continuation", "ping", "close"}

\* What the client has sent and the server has not consumed.
Stream == buf \o net

\* A header unit of a frame the client has sent.
Header(u, z) == u.id \in DOMAIN z /\ u.op = z[u.id] /\ (u.op = "text" => u.len = 1)

\* Whole frames: a header with its payload and then the next frame's header, up
\* to the last frame that was sent.
Frames(s, z) ==
    /\ s # <<>> => Header(s[1], z) /\ s[Len(s)].len = 0 /\ s[Len(s)].id = Len(z)
    /\ \A i \in 2 .. Len(s) :
        IF s[i - 1].len = 1
        THEN s[i].len = 0 /\ s[i].id = s[i - 1].id
        ELSE Header(s[i], z) /\ s[i].id = s[i - 1].id + 1

\* The number of the frame that s starts with, or of the one still to come.
First(s, z) == IF s = <<>> THEN Len(z) + 1 ELSE s[1].id

\* What follows the head in a stream.
Rest(s) == SubSeq(s, 3, Len(s))
WithHead(s, z) ==
    /\ Len(s) >= 2 /\ s[1] = Unit("part", 0, 0) /\ s[2] \in RequestHead
    /\ Rest(s) \in Seq(FrameUnit) /\ Frames(Rest(s), z) /\ First(Rest(s), z) = 2

\* While the head is read nothing is consumed; then it is taken off.
Streams ==
    /\ sent \in Seq(Kind) /\ buf \in Seq(AnyUnit) /\ net \in Seq(AnyUnit)
    /\ pc \in {"head", "upgrade"} => got = <<>>
    /\ pc \in {"head", "upgrade"} => IF sent = <<>> THEN Stream = <<>> ELSE WithHead(Stream, sent)
    /\ pc = "upgrade" => Len(buf) >= 2
    /\ pc \in Serving => sent # <<>> /\ Stream \in Seq(FrameUnit) /\ Frames(Stream, sent)
    /\ pc \in {"message", "pong", "reply"} => try_parse_frame
    /\ pc = "pong" => buf[1].op = "ping"

\* on_message has had every text frame since the first it got, up to the frame
\* that is being read, unless the server has closed.
Delivered ==
    pc \in Serving /\ got # <<>> =>
        /\ sock.on_message
        /\ pc = "message" => got[Len(got)] = First(Stream, sent)
        /\ pc # "message" =>
            /\ got[Len(got)] < First(Stream, sent)
            /\ ~sock.closed => \A k \in got[Len(got)] + 1 .. First(Stream, sent) - 1 : sent[k] # "text"

MInv == got \in Seq(Nat) /\ Streams /\ Delivered /\ MessagesInOrder
-----------------------------------------------------------------------------
(* The writes. *)

Writes == [op : {"none", "101", "400", "text", "close", "pong"}, left : 0 .. 2]

LEMMA StartsWrite ==
    ASSUME w \in [Ctx -> Writes], NEW x \in Ctx, NEW op \in {"101", "400", "text", "close", "pong"},
           StartWrite(x, op)
    PROVE  /\ w' \in [Ctx -> Writes] /\ w'[x].op = op /\ w'[x].left = 2
           /\ \A y \in Ctx : y # x => w'[y] = w[y]
    BY DEF Writes, StartWrite

LEMMA ReturnsFrom ==
    ASSUME w \in [Ctx -> Writes], NEW x \in Ctx, Return(x)
    PROVE  /\ w' \in [Ctx -> Writes] /\ w'[x] = Idle /\ w'[x].op = "none" /\ w'[x].left = 0
           /\ \A y \in Ctx : y # x => w'[y] = w[y]
    BY DEF Writes, Return, Idle

LEMMA WritesOn ==
    ASSUME w \in [Ctx -> Writes], NEW x \in Ctx, NEW n \in 0 .. 2, w' = [w EXCEPT ![x].left = n]
    PROVE  /\ w' \in [Ctx -> Writes] /\ w'[x].op = w[x].op /\ w'[x].left = n
           /\ \A y \in Ctx : y # x => w'[y] = w[y]
    BY DEF Writes

LEMMA IdleWrite ==
    ASSUME w \in [Ctx -> Writes], NEW x \in Ctx
    PROVE  w[x] = Idle <=> w[x].op = "none" /\ w[x].left = 0
    BY DEF Writes, Idle

LEMMA WriteTypes == TypeOK => w \in [Ctx -> Writes]
    BY DEF TypeOK, Writes

LEMMA InitWInv == Init => WInv
<1> SUFFICES ASSUME Init PROVE WInv
    OBVIOUS
<1>1. \A x \in Ctx : w[x] = Idle /\ w[x].op = "none" /\ w[x].left = 0
    BY DEF Init, Idle
<1>2. w \in [Ctx -> Writes]
    BY DEF Init, Writes, Idle
<1>3. wire \in [half : Ctx \cup {"none"}, torn : BOOLEAN, close : BOOLEAN, late : BOOLEAN, stale : BOOLEAN]
    BY DEF Init
<1>4. TypeOK
  <2>1. sock \in [closed : BOOLEAN, on_message : BOOLEAN, on_close : BOOLEAN]
      BY DEF Init
  <2>2. sends \in 0 .. MaxSends /\ calls \in Nat
      BY WsAssumption DEF Init
  <2>3. run \in Ctx \cup {"loop", "killed"} /\ routes \subseteq Path /\ pc \in Open \cup {"refused", "end"}
      BY DEF Init, Ctx, Open
  <2>4. gone \in BOOLEAN /\ strayed \in BOOLEAN
      BY DEF Init
  <2> QED
      BY <1>2, <1>3, <2>1, <2>2, <2>3, <2>4 DEF TypeOK, Writes
<1>5. Stages
    BY <1>1 DEF Init, Stages, Ctx, Code
<1>6. Own /\ Announced
    BY <1>1 DEF Init, Own, Announced, Ctx
<1> QED
    BY <1>4, <1>5, <1>6 DEF WInv

\* Steps that leave the write, the socket object and the stage alone.
LEMMA QuietKeeps ==
    ASSUME WInv, UNCHANGED <<pc, w, wire, sock, calls, sends, strayed>>,
           run' \in Ctx \cup {"loop", "killed"}, routes' \subseteq Path, gone' \in BOOLEAN, gone => gone'
    PROVE  WInv'
<1>1. TypeOK'
    BY DEF WInv, TypeOK
<1>2. Stages'
    BY DEF WInv, Stages
<1>3. ~strayed' => Own' /\ Announced'
    BY DEF WInv, Own, Announced
<1> QED
    BY <1>1, <1>2, <1>3 DEF WInv

LEMMA QuietSteps ==
    ASSUME WInv,
           \/ \E n \in DOMAIN net : ReadFrames(n)
           \/ ReadBlocks \/ OtherFrame \/ Leave
           \/ \E x \in Ctx : WriteBlocks(x) \/ WriteKills(x) \/ Resume(x) \/ Elsewhere(x)
           \/ \E x \in Ctx : \E p \in Path : ws_server_route(x, p)
           \/ \E h \in RequestHead : SendRequest(h)
           \/ \E op \in DOMAIN PayloadLen : SendFrame(op)
    PROVE  WInv'
<1>1. run \in Ctx \cup {"loop", "killed"} /\ routes \subseteq Path /\ gone \in BOOLEAN
    BY DEF WInv, TypeOK
<1> USE DEF client, hist
<1>2. CASE (\E n \in DOMAIN net : ReadFrames(n)) \/ ReadBlocks \/ OtherFrame \/ Leave
    BY <1>1, <1>2, QuietKeeps DEF ReadFrames, Receive, ReadBlocks, OtherFrame, Leave
<1>3. CASE \E x \in Ctx : WriteBlocks(x) \/ WriteKills(x) \/ Resume(x) \/ Elsewhere(x)
    BY <1>1, <1>3, QuietKeeps DEF WriteBlocks, WriteKills, Resume, Elsewhere
<1>4. CASE \E x \in Ctx : \E p \in Path : ws_server_route(x, p)
    BY <1>1, <1>4, QuietKeeps DEF ws_server_route
<1>5. CASE (\E h \in RequestHead : SendRequest(h)) \/ (\E op \in DOMAIN PayloadLen : SendFrame(op))
    BY <1>1, <1>5, QuietKeeps DEF SendRequest, SendFrame
<1> QED
    BY <1>2, <1>3, <1>4, <1>5

\* Steps of the coroutine from one place to another, with no write before or after.
LEMMA IdleSteps ==
    ASSUME WInv,
           \/ \E n \in DOMAIN net : ReadHead(n)
           \/ HeadEof \/ TextFrame \/ FramesEof \/ End \/ CallReturns
           \/ CloseFrame /\ sock.closed
    PROVE  WInv'
<1> USE DEF client, hist, WInv
<1>1. /\ UNCHANGED <<w, wire, sock, gone, routes, sends, strayed>>
      /\ w["conn"] = Idle /\ run' \in {run, "loop"}
    BY DEF ReadHead, HeadEof, TextFrame, FramesEof, End, CallReturns, CloseFrame, At, InCode, Parsed
<1>2. \/ calls' = calls /\ pc = "head" /\ pc' \in {"head", "giveup"}
      \/ calls' = calls /\ pc = "frames" /\ pc' \in {"frames", "message"}
      \/ calls' = calls /\ pc \in {"frames"} /\ pc' = "close" /\ sock.closed
      \/ pc = "frames" /\ gone
         /\ IF Announces THEN pc' = "onclose" /\ calls' = calls + 1 ELSE pc' = "close" /\ calls' = calls
      \/ calls' = calls /\ pc = "giveup" /\ pc' = "refused"
      \/ calls' = calls /\ pc = "close" /\ pc' = "end"
      \/ calls' = calls /\ pc = "onclose" /\ pc' = "close"
      \/ calls' = calls /\ pc \in {"handler", "message"} /\ pc' = "frames"
    BY DEF ReadHead, HeadEof, TextFrame, FramesEof, End, CallReturns, CloseFrame, At, InCode, Parsed, Code
<1>3. TypeOK'
    BY <1>1, <1>2 DEF TypeOK, Open, Serving, Code
<1>4. Stages'
    BY <1>1, <1>2 DEF Stages, Code, Idle
<1>5. ASSUME ~strayed' PROVE Own'
    BY <1>1, <1>2, <1>5 DEF Own
<1>6. ASSUME ~strayed' PROVE Announced'
  <2>1. Own /\ Announced /\ calls \in Nat
      BY <1>1, <1>6 DEF TypeOK
  <2> QED
      BY <1>1, <1>2, <2>1 DEF Announced, Announces
<1> QED
    BY <1>3, <1>4, <1>5, <1>6

\* The coroutine starts a write of its own.
LEMMA EntryWrites ==
    ASSUME WInv,
           \/ \E p \in Path \cup {"missing"} : Handshake(p)
           \/ PingFrame
           \/ CloseFrame /\ ~sock.closed
    PROVE  WInv'
<1> USE DEF client, hist, WInv
<1>0. "conn" \in Ctx /\ w \in [Ctx -> Writes]
    BY WriteTypes DEF Ctx
<1>1. UNCHANGED <<run, wire, sock, gone, routes, sends, strayed, calls>> /\ w["conn"] = Idle
    BY DEF Handshake, PingFrame, CloseFrame, At, Parsed
<1>2. \/ pc = "head" /\ pc' = "upgrade" /\ StartWrite("conn", "101")
      \/ pc = "head" /\ pc' = "reject" /\ StartWrite("conn", "400")
      \/ pc = "frames" /\ pc' = "pong" /\ StartWrite("conn", "pong")
      \/ pc = "frames" /\ pc' = "reply" /\ StartWrite("conn", "close") /\ ~sock.closed
    BY DEF Handshake, PingFrame, CloseFrame, At, Parsed
<1>3. /\ w' \in [Ctx -> Writes] /\ w'["conn"].left = 2
      /\ \A y \in Ctx : y # "conn" => w'[y] = w[y]
      /\ \/ pc = "head" /\ pc' = "upgrade" /\ w'["conn"].op = "101"
         \/ pc = "head" /\ pc' = "reject" /\ w'["conn"].op = "400"
         \/ pc = "frames" /\ pc' = "pong" /\ w'["conn"].op = "pong"
         \/ pc = "frames" /\ pc' = "reply" /\ w'["conn"].op = "close" /\ ~sock.closed
    BY <1>0, <1>2, StartsWrite
<1>4. TypeOK'
    BY <1>1, <1>3 DEF TypeOK, Open, Serving, Code, Writes
<1>5. Stages'
    BY <1>0, <1>1, <1>3 DEF Stages, Code
<1>6. ASSUME ~strayed' PROVE Own' /\ Announced'
  <2>1. Own /\ Announced
      BY <1>1, <1>6
  <2> QED
      BY <1>1, <1>3, <2>1 DEF Own, Announced, Idle
<1> QED
    BY <1>4, <1>5, <1>6

\* Jaguar code starts a write.
LEMMA CodeWrites ==
    ASSUME WInv, NEW x \in Ctx, Send(x) \/ Close(x)
    PROVE  WInv'
<1> USE DEF client, hist, WInv
<1>0. "conn" \in Ctx /\ w \in [Ctx -> Writes]
    BY WriteTypes DEF Ctx
<1>1. /\ UNCHANGED <<run, pc, wire, sock, gone, routes, calls>> /\ w[x] = Idle
      /\ x = "conn" => pc \in Code
      /\ strayed' = (strayed \/ x # "conn") /\ ~sock.closed
    BY DEF Send, Close, Uses, InCode
<1>2. sends' \in 0 .. MaxSends
    BY WsAssumption DEF Send, Close, TypeOK
<1>3. StartWrite(x, "text") \/ StartWrite(x, "close")
    BY DEF Send, Close
<1>4. /\ w' \in [Ctx -> Writes] /\ w'[x].op \in {"text", "close"} /\ w'[x].left = 2
      /\ \A y \in Ctx : y # x => w'[y] = w[y]
    BY <1>0, <1>3, StartsWrite
<1>5. TypeOK'
    BY <1>1, <1>2, <1>4 DEF TypeOK, Writes
<1>6. Stages'
    BY <1>0, <1>1, <1>4 DEF Stages, Code
<1>7. ASSUME ~strayed' PROVE Own' /\ Announced'
  <2>1. Own /\ Announced /\ x = "conn"
      BY <1>1, <1>7 DEF TypeOK
  <2> QED
      BY <1>1, <1>4, <2>1 DEF Own, Announced, Idle
<1> QED
    BY <1>5, <1>6, <1>7

\* A write of the coroutine has returned.
LEMMA EntryReturns ==
    ASSUME WInv, Rejected \/ Switched \/ Ponged \/ Replied
    PROVE  WInv'
<1> USE DEF client, hist, WInv
<1>0. "conn" \in Ctx /\ w \in [Ctx -> Writes]
    BY WriteTypes DEF Ctx
<1>1. UNCHANGED <<run, wire, gone, routes, sends, strayed, calls>> /\ Return("conn") /\ w["conn"].left = 0
    BY DEF Rejected, Switched, Ponged, Replied, Returned
<1>2. \/ pc = "reject" /\ pc' = "giveup" /\ sock' = sock
      \/ pc = "upgrade" /\ pc' = "handler" /\ sock' = sock
      \/ pc = "pong" /\ pc' = "frames" /\ sock' = sock
      \/ pc = "reply" /\ pc' = "close" /\ sock' = [sock EXCEPT !.closed = TRUE]
    BY DEF Rejected, Switched, Ponged, Replied
<1>3. /\ w' \in [Ctx -> Writes] /\ w'["conn"] = Idle /\ w'["conn"].op = "none" /\ w'["conn"].left = 0
      /\ \A y \in Ctx : y # "conn" => w'[y] = w[y]
    BY <1>0, <1>1, ReturnsFrom
<1>4. /\ sock' \in [closed : BOOLEAN, on_message : BOOLEAN, on_close : BOOLEAN]
      /\ sock'.on_close = sock.on_close /\ sock'.closed = (sock.closed \/ pc = "reply")
    BY <1>2 DEF TypeOK
<1>5. TypeOK'
    BY <1>1, <1>2, <1>3, <1>4 DEF TypeOK, Open, Serving, Code, Writes
<1>6. Stages'
    BY <1>0, <1>2, <1>3 DEF Stages, Code
<1>7. ASSUME ~strayed' PROVE Own' /\ Announced'
  <2>1. Own /\ Announced
      BY <1>1, <1>7
  <2>2. w["conn"].op = "close" => pc = "reply"
      BY <1>2 DEF Stages
  <2>3. Own'
      BY <1>1, <1>2, <1>3, <1>4, <2>1, <2>2 DEF Own
  <2>4. Announced'
      BY <1>1, <1>2, <1>4, <2>1 DEF Announced
  <2> QED
      BY <2>3, <2>4
<1> QED
    BY <1>5, <1>6, <1>7

LEMMA CodeReturns ==
    ASSUME WInv, NEW x \in Ctx, MethodReturns(x)
    PROVE  WInv'
<1> USE DEF client, hist, WInv
<1>0. "conn" \in Ctx /\ w \in [Ctx -> Writes]
    BY WriteTypes DEF Ctx
<1>1. /\ UNCHANGED <<run, pc, wire, gone, routes, sends, strayed, calls>> /\ Return(x) /\ w[x].left = 0
      /\ w[x] # Idle /\ (x = "conn" => pc \in Code)
      /\ sock' = [sock EXCEPT !.closed = @ \/ w[x].op = "close"]
    BY DEF MethodReturns, Returned
<1>3. /\ w' \in [Ctx -> Writes] /\ w'[x] = Idle /\ w'[x].op = "none" /\ w'[x].left = 0
      /\ \A y \in Ctx : y # x => w'[y] = w[y]
    BY <1>0, <1>1, ReturnsFrom
<1>4. /\ sock' \in [closed : BOOLEAN, on_message : BOOLEAN, on_close : BOOLEAN]
      /\ sock'.on_close = sock.on_close /\ sock'.closed = (sock.closed \/ w[x].op = "close")
    BY <1>1 DEF TypeOK
<1>5. TypeOK'
    BY <1>1, <1>3, <1>4 DEF TypeOK, Writes
<1>6. Stages'
    BY <1>0, <1>1, <1>3 DEF Stages, Code
<1>7. ASSUME ~strayed' PROVE Own' /\ Announced'
  <2>1. Own /\ Announced /\ x = "conn"
      BY <1>1, <1>7 DEF Own
  <2>2. Own'
      BY <1>1, <1>3, <1>4, <2>1 DEF Own, Code
  <2>3. Announced'
      BY <1>1, <1>4, <2>1 DEF Announced, Code
  <2> QED
      BY <2>2, <2>3
<1> QED
    BY <1>5, <1>6, <1>7

LEMMA OnKeeps ==
    ASSUME WInv, NEW x \in Ctx, NEW e \in {"on_message", "on_close"}, On(x, e)
    PROVE  WInv'
<1> USE DEF client, WInv
<1>1. /\ UNCHANGED <<run, pc, w, wire, gone, routes, sends, calls>>
      /\ sock' = [sock EXCEPT ![e] = TRUE] /\ strayed' = (strayed \/ x # "conn")
      /\ x = "conn" => pc \in Code
    BY DEF On, Uses, InCode
<1>2. sock' \in [closed : BOOLEAN, on_message : BOOLEAN, on_close : BOOLEAN] /\ sock'.closed = sock.closed
    BY <1>1 DEF TypeOK
<1>3. TypeOK'
    BY <1>1, <1>2 DEF TypeOK
<1>4. Stages'
    BY <1>1 DEF Stages
<1>5. ASSUME ~strayed' PROVE Own' /\ Announced'
  <2>1. Own /\ Announced /\ pc \in Code
      BY <1>1, <1>5 DEF TypeOK
  <2> QED
      BY <1>1, <1>2, <2>1 DEF Own, Announced, Code
<1> QED
    BY <1>3, <1>4, <1>5

LEMMA WriteFailsKeeps ==
    ASSUME WInv, NEW x \in Ctx, WriteFails(x)
    PROVE  WInv'
<1> USE DEF client, hist, WInv
<1>0. "conn" \in Ctx /\ w \in [Ctx -> Writes] /\ w[x].left # 0 /\ w[x].op # "none"
    BY WriteTypes DEF Ctx, WriteFails, Writing, Stages, Writes
<1>1. /\ UNCHANGED <<run, pc, sock, gone, wire, routes, sends, strayed, calls>>
      /\ w' = [w EXCEPT ![x].left = 0] /\ (pc \notin Open \/ gone)
    BY DEF WriteFails
<1>3. /\ w' \in [Ctx -> Writes] /\ w'[x].op = w[x].op /\ w'[x].left = 0
      /\ \A y \in Ctx : y # x => w'[y] = w[y]
  <2>1. 0 \in 0 .. 2
      OBVIOUS
  <2> QED
      BY <1>0, <1>1, <2>1, WritesOn
<1>4. x = "conn" => w["conn"] # Idle /\ pc \in Code \cup {"reject", "upgrade", "pong", "reply"}
    BY <1>0 DEF Stages, Idle
<1>5. TypeOK'
    BY <1>1, <1>3 DEF TypeOK, Writes
<1>6. Stages'
    BY <1>0, <1>1, <1>3, <1>4 DEF Stages
<1>7. ASSUME ~strayed' PROVE Own' /\ Announced'
  <2>1. Own /\ Announced /\ x = "conn"
      BY <1>0, <1>1, <1>7 DEF Own, Idle
  <2>2. gone
      BY <1>1, <1>4, <2>1 DEF Open, Serving
  <2> QED
      BY <1>0, <1>1, <1>3, <2>1, <2>2 DEF Own, Announced
<1> QED
    BY <1>5, <1>6, <1>7

LEMMA WriteSomeKeeps ==
    ASSUME WInv, NEW x \in Ctx, WriteSome(x)
    PROVE  WInv'
<1> USE DEF client, hist, WInv
<1>0. "conn" \in Ctx /\ w \in [Ctx -> Writes] /\ w[x].left \in 1 .. 2 /\ w[x].op # "none"
    BY WriteTypes DEF Ctx, WriteSome, Writing, Stages, Writes
<1> DEFINE n == w[x].left - 1
<1>1. UNCHANGED <<run, pc, sock, gone, routes, sends, strayed, calls>> /\ w' = [w EXCEPT ![x].left = n]
    BY <1>0 DEF WriteSome
<1>2. n \in 0 .. 2 /\ n = IF w[x].left = 2 THEN 1 ELSE 0
    BY <1>0
<1> HIDE DEF n
<1>3. /\ w' \in [Ctx -> Writes] /\ w'[x].op = w[x].op /\ w'[x].left = n
      /\ \A y \in Ctx : y # x => w'[y] = w[y]
    BY <1>0, <1>1, <1>2, WritesOn, ZenonT(40)
<1>4. wire' \in [half : Ctx \cup {"none"}, torn : BOOLEAN, close : BOOLEAN, late : BOOLEAN, stale : BOOLEAN]
    BY ZenonT(40) DEF WriteSome, Arrived, TypeOK
<1>5. TypeOK'
    BY <1>1, <1>3, <1>4 DEF TypeOK, Writes
<1>6. x = "conn" => w["conn"] # Idle /\ pc \in Code \cup {"reject", "upgrade", "pong", "reply"}
    BY <1>0 DEF Stages, Idle
<1>7. Stages'
    BY <1>0, <1>1, <1>3, <1>6 DEF Stages
<1>8. ASSUME ~strayed' PROVE Own' /\ Announced'
  <2>1. Own /\ Announced /\ x = "conn"
      BY <1>0, <1>1, <1>8 DEF Own, Idle
  <2>2. pc \in Open
      BY <1>6, <2>1 DEF Open, Serving
  <2>3. CASE gone
    <3>1. wire' = wire
        BY <2>2, <2>3 DEF WriteSome
    <3>2. w["conn"].left # 0
        BY <1>0, <2>1
    <3> QED
        BY <1>1, <1>3, <2>1, <2>3, <3>1, <3>2 DEF Own, Announced
  <2>4. CASE ~gone
    <3> DEFINE first == w["conn"].left = 2
               op == w["conn"].op
    <3>1. wire' = Arrived("conn")
        BY <2>1, <2>2, <2>4 DEF WriteSome
    <3>2. /\ wire'.half = IF first THEN "conn" ELSE "none"
          /\ wire'.torn <=> wire.torn \/ wire.half # IF first THEN "none" ELSE "conn"
          /\ wire'.close <=> wire.close \/ (op = "close" /\ ~first)
          /\ wire'.late <=> wire.late \/ (wire.close /\ op # "pong")
          /\ wire'.stale <=> wire.stale
        BY <3>1 DEF Arrived, TypeOK
    <3>3. wire.half = (IF first THEN "none" ELSE "conn") /\ w["conn"].left # 0
        BY <1>0, <2>1, <2>4 DEF Own
    <3>4. wire.close => op = "pong"
        BY <1>0, <2>1, <3>3 DEF Own
    <3>5. n = IF first THEN 1 ELSE 0
        BY <1>2, <2>1
    <3> HIDE DEF first, op
    <3>6. w'["conn"].op = op /\ w'["conn"].left = n /\ w["conn"].op = op
        BY <1>3, <2>1 DEF op
    <3>7. ~wire'.torn /\ ~wire'.late /\ ~wire'.stale
        BY <2>1, <3>2, <3>3, <3>4 DEF Own
    <3>8. wire'.half = IF w'["conn"].left = 1 THEN "conn" ELSE "none"
        BY <3>2, <3>5, <3>6
    <3>9. wire'.close => sock.closed \/ (op = "close" /\ w'["conn"].left = 0)
        BY <2>1, <3>2, <3>3, <3>5, <3>6 DEF Own
    <3>10. Own'
        BY <1>1, <1>3, <2>1, <3>6, <3>7, <3>8, <3>9 DEF Own
    <3>11. Announced'
        BY <1>1, <2>1, <2>4 DEF Announced
    <3> QED
        BY <3>10, <3>11
  <2> QED
      BY <2>3, <2>4
<1> QED
    BY <1>5, <1>7, <1>8

LEMMA WInvStep == WInv /\ [Next]_vars => WInv'
<1> SUFFICES ASSUME WInv, [Next]_vars PROVE WInv'
    OBVIOUS
<1>1. CASE Entry
    BY <1>1, QuietSteps, IdleSteps, EntryWrites, EntryReturns DEF Entry
<1>2. CASE CallReturns \/ Leave
    BY <1>2, QuietSteps, IdleSteps
<1>3. CASE \E x \in Ctx : WriteSome(x) \/ WriteFails(x) \/ Send(x) \/ Close(x) \/ MethodReturns(x)
    BY <1>3, WriteSomeKeeps, WriteFailsKeeps, CodeWrites, CodeReturns
<1>4. CASE \E x \in Ctx : WriteBlocks(x) \/ WriteKills(x) \/ Resume(x) \/ Elsewhere(x)
    BY <1>4, QuietSteps
<1>5. CASE \E x \in Ctx : \E e \in {"on_message", "on_close"} : On(x, e)
    BY <1>5, OnKeeps
<1>6. CASE \E x \in Ctx : \E p \in Path : ws_server_route(x, p)
    BY <1>6, QuietSteps
<1>7. CASE (\E h \in RequestHead : SendRequest(h)) \/ (\E op \in DOMAIN PayloadLen : SendFrame(op))
    BY <1>7, QuietSteps
<1>8. CASE UNCHANGED vars
    BY <1>8, QuietKeeps DEF vars, client, hist, WInv, TypeOK
<1> QED
    BY <1>1, <1>2, <1>3, <1>4, <1>5, <1>6, <1>7, <1>8 DEF Next

\* The invariant of what ws_conn_entry and ws_conn_call_method write.
THEOREM CoroutineWrites == Spec => []WInv
    BY InitWInv, WInvStep, PTL DEF Spec

\* Every variable of ws_conn_entry and of the socket object keeps its type.
THEOREM TypeCorrect == Spec => []TypeOK
<1>1. WInv => TypeOK
    BY DEF WInv
<1> QED
    BY <1>1, CoroutineWrites, PTL

\* While only a connection's own handlers use its socket object, its client is
\* sent whole frames, whatever prefix send() takes and however often a write
\* suspends, nothing but pongs after a Close, and nothing after close(fd).
THEOREM SentWhole == Spec => []WholeFrames
<1>1. WInv => WholeFrames
    BY DEF WInv, Own, WholeFrames
<1> QED
    BY <1>1, CoroutineWrites, PTL

\* on_close is called at most once, only when the client has gone, and it has been
\* called when a connection ends on which neither side has closed.
THEOREM ClosedOnce == Spec => []CloseCallback
<1>1. WInv => CloseCallback
    BY DEF WInv, TypeOK, Own, Announced, CloseCallback
<1> QED
    BY <1>1, CoroutineWrites, PTL
-----------------------------------------------------------------------------
(* The reads: streams. *)

\* recv() moves units from the network to the buffer.
LEMMA ReceiveMoves ==
    ASSUME buf \in Seq(AnyUnit), net \in Seq(AnyUnit), NEW n \in DOMAIN net, Receive(n)
    PROVE  buf' \in Seq(AnyUnit) /\ net' \in Seq(AnyUnit) /\ Stream' = Stream
<1> DEFINE f == SubSeq(net, 1, n)
           g == SubSeq(net, n + 1, Len(net))
<1>0. n \in 1 .. Len(net) /\ Len(net) \in Nat /\ Len(buf) \in Nat
    OBVIOUS
<1>1. /\ f \in Seq(AnyUnit) /\ Len(f) = n /\ \A i \in 1 .. n : f[i] = net[i]
      /\ g \in Seq(AnyUnit) /\ Len(g) = Len(net) - n /\ \A i \in 1 .. Len(net) - n : g[i] = net[n + i]
    BY <1>0
<1>2. buf' = buf \o f /\ net' = g
    BY DEF Receive
<1> HIDE DEF f, g
<1>3. /\ buf \o f \in Seq(AnyUnit) /\ Len(buf \o f) = Len(buf) + n
      /\ \A i \in 1 .. Len(buf) + n : (buf \o f)[i] = IF i <= Len(buf) THEN buf[i] ELSE f[i - Len(buf)]
    BY <1>0, <1>1, ConcatProperties
<1>4. f \o g = net
  <2>1. /\ f \o g \in Seq(AnyUnit) /\ Len(f \o g) = Len(net)
        /\ \A i \in 1 .. Len(net) : (f \o g)[i] = IF i <= n THEN f[i] ELSE g[i - n]
      BY <1>0, <1>1, ConcatProperties
  <2>2. ASSUME NEW i \in 1 .. Len(net) PROVE (f \o g)[i] = net[i]
    <3>1. CASE i <= n
        BY <1>1, <2>1, <3>1
    <3>2. CASE ~(i <= n)
      <4>1. i - n \in 1 .. Len(net) - n /\ n + (i - n) = i
          BY <1>0, <3>2
      <4> QED
          BY <1>1, <2>1, <3>2, <4>1
    <3> QED
        BY <3>1, <3>2
  <2> QED
      BY <2>1, <2>2, SeqEqual
<1>5. (buf \o f) \o g = buf \o (f \o g)
  <2>1. \A p, q, r \in Seq(AnyUnit) : (p \o q) \o r = p \o (q \o r)
      BY ConcatAssociative, SMTT(30)
  <2> QED
      BY <1>1, <2>1
<1> QED
    BY <1>1, <1>2, <1>3, <1>4, <1>5 DEF Stream

\* Taking units off the front of the buffer takes them off the stream.
LEMMA DropFront ==
    ASSUME NEW b \in Seq(AnyUnit), NEW t \in Seq(AnyUnit), NEW c \in 1 .. Len(b)
    PROVE  /\ SubSeq(b, c + 1, Len(b)) \in Seq(AnyUnit)
           /\ SubSeq(b, c + 1, Len(b)) \o t = SubSeq(b \o t, c + 1, Len(b \o t))
<1> DEFINE d == SubSeq(b, c + 1, Len(b))
           e == SubSeq(b \o t, c + 1, Len(b \o t))
<1>0. Len(b) \in Nat /\ Len(t) \in Nat /\ c \in Nat /\ c >= 1 /\ c <= Len(b)
    OBVIOUS
<1>1. d \in Seq(AnyUnit) /\ Len(d) = Len(b) - c /\ \A i \in 1 .. Len(b) - c : d[i] = b[c + i]
    BY <1>0
<1>2. /\ b \o t \in Seq(AnyUnit) /\ Len(b \o t) = Len(b) + Len(t)
      /\ \A i \in 1 .. Len(b) + Len(t) : (b \o t)[i] = IF i <= Len(b) THEN b[i] ELSE t[i - Len(b)]
    BY ConcatProperties
<1>3. /\ e \in Seq(AnyUnit) /\ Len(e) = (Len(b) + Len(t)) - c
      /\ \A i \in 1 .. (Len(b) + Len(t)) - c : e[i] = (b \o t)[c + i]
    BY <1>0, <1>2
<1> HIDE DEF d, e
<1>4. /\ d \o t \in Seq(AnyUnit) /\ Len(d \o t) = (Len(b) + Len(t)) - c
      /\ \A i \in 1 .. (Len(b) + Len(t)) - c :
            (d \o t)[i] = IF i <= Len(b) - c THEN d[i] ELSE t[i - (Len(b) - c)]
  <2>1. /\ d \o t \in Seq(AnyUnit) /\ Len(d \o t) = Len(d) + Len(t)
        /\ \A i \in 1 .. Len(d) + Len(t) : (d \o t)[i] = IF i <= Len(d) THEN d[i] ELSE t[i - Len(d)]
      BY <1>1, ConcatProperties
  <2>2. Len(d) = Len(b) - c /\ Len(d) + Len(t) = (Len(b) + Len(t)) - c
      BY <1>0, <1>1
  <2> QED
      BY <2>1, <2>2
<1>5. ASSUME NEW i \in 1 .. (Len(b) + Len(t)) - c PROVE (d \o t)[i] = e[i]
  <2>1. c + i \in 1 .. Len(b) + Len(t) /\ (i <= Len(b) - c <=> c + i <= Len(b))
        /\ i - (Len(b) - c) = (c + i) - Len(b)
      BY <1>0
  <2>2. CASE i <= Len(b) - c
    <3>1. i \in 1 .. Len(b) - c
        BY <1>0, <2>2
    <3> QED
        BY <1>1, <1>2, <1>3, <1>4, <2>1, <2>2, <3>1
  <2>3. CASE ~(i <= Len(b) - c)
      BY <1>2, <1>3, <1>4, <2>1, <2>3
  <2> QED
      BY <2>2, <2>3
<1>6. d \o t = e
    BY <1>3, <1>4, <1>5, SeqEqual
<1> QED
    BY <1>1, <1>6 DEF d, e

\* Consuming the first frame of a stream of whole frames.
LEMMA Consumed ==
    ASSUME NEW z \in Seq(Kind), NEW s \in Seq(FrameUnit), s # <<>>, Frames(s, z)
    PROVE  LET t == SubSeq(s, 2 + s[1].len, Len(s))
           IN /\ 1 + s[1].len <= Len(s) /\ s[1].id \in DOMAIN z
              /\ t \in Seq(FrameUnit) /\ Frames(t, z) /\ First(t, z) = s[1].id + 1
<1> DEFINE c == 1 + s[1].len
           t == SubSeq(s, 2 + s[1].len, Len(s))
<1>0. Len(s) \in Nat /\ Len(s) >= 1 /\ \A i \in 1 .. Len(s) : s[i] \in FrameUnit
    BY EmptySeq
<1>1. \A i \in 1 .. Len(s) : s[i].len \in {0, 1} /\ s[i].id \in Nat
    BY <1>0 DEF FrameUnit
<1>2. Header(s[1], z) /\ s[Len(s)].len = 0 /\ s[Len(s)].id = Len(z)
    BY DEF Frames
<1>3. \A i \in 2 .. Len(s) :
        IF s[i - 1].len = 1
        THEN s[i].len = 0 /\ s[i].id = s[i - 1].id
        ELSE Header(s[i], z) /\ s[i].id = s[i - 1].id + 1
    BY DEF Frames
<1>4. c \in 1 .. Len(s) /\ s[c].len = 0 /\ s[c].id = s[1].id
  <2>0. 1 \in 1 .. Len(s)
      BY <1>0
  <2>1. CASE s[1].len = 0
      BY <1>0, <2>1
  <2>2. CASE s[1].len = 1
    <3>1. Len(s) # 1
        BY <1>2, <2>2
    <3>2. 2 \in 2 .. Len(s)
      <4>1. \A l \in Nat : l >= 1 /\ l # 1 => 2 \in 2 .. l
          OBVIOUS
      <4> QED
          BY <1>0, <3>1, <4>1, Zenon
    <3>3. s[2].len = 0 /\ s[2].id = s[2 - 1].id
        BY <1>3, <2>2, <3>2
    <3> QED
        BY <1>0, <2>2, <3>2, <3>3
  <2> QED
      BY <1>1, <2>0, <2>1, <2>2
<1>5. 2 + s[1].len = c + 1
  <2>1. s[1].len \in Nat
      BY <1>0, <1>1
  <2> QED
      BY <2>1
<1>6. t = SubSeq(s, c + 1, Len(s))
    BY <1>5
<1> HIDE DEF c, t
<1>7. t \in Seq(FrameUnit) /\ Len(t) = Len(s) - c /\ \A i \in 1 .. Len(s) - c : t[i] = s[c + i]
    BY <1>0, <1>4, <1>6
<1>8. ASSUME c < Len(s)
      PROVE  /\ t # <<>> /\ Header(t[1], z) /\ t[1].id = s[1].id + 1
             /\ t[Len(t)].len = 0 /\ t[Len(t)].id = Len(z)
  <2>1. c + 1 \in 2 .. Len(s) /\ (c + 1) - 1 = c /\ 1 \in 1 .. Len(s) - c /\ Len(t) \in 1 .. Len(s) - c
        /\ c + Len(t) = Len(s)
      BY <1>0, <1>4, <1>7, <1>8
  <2>2. Header(s[c + 1], z) /\ s[c + 1].id = s[c].id + 1
    <3>1. ~(s[(c + 1) - 1].len = 1)
        BY <1>4, <2>1
    <3>2. Header(s[c + 1], z) /\ s[c + 1].id = s[(c + 1) - 1].id + 1
        BY <1>3, <2>1, <3>1, Zenon
    <3> QED
        BY <2>1, <3>2
  <2>3. t[1] = s[c + 1] /\ t[Len(t)] = s[Len(s)] /\ t # <<>>
      BY <1>7, <2>1, EmptySeq
  <2> QED
      BY <1>2, <1>4, <2>2, <2>3
<1>9. ASSUME ~(c < Len(s)) PROVE t = <<>> /\ Len(z) = s[1].id
  <2>1. c = Len(s) /\ Len(t) = 0
    <3>1. \A l, k \in Nat : k <= l /\ ~(k < l) => k = l /\ l - k = 0
        OBVIOUS
    <3>2. c \in Nat /\ c <= Len(s)
        BY <1>4
    <3> QED
        BY <1>0, <1>7, <1>9, <3>1, <3>2, Zenon
  <2> QED
      BY <1>2, <1>4, <1>7, <2>1
<1>10. ASSUME NEW i \in 2 .. Len(t)
       PROVE  IF t[i - 1].len = 1
              THEN t[i].len = 0 /\ t[i].id = t[i - 1].id
              ELSE Header(t[i], z) /\ t[i].id = t[i - 1].id + 1
  <2>1. i \in 1 .. Len(s) - c /\ i - 1 \in 1 .. Len(s) - c /\ c + i \in 2 .. Len(s) /\ (c + i) - 1 = c + (i - 1)
      BY <1>0, <1>4, <1>7
  <2>2. t[i] = s[c + i] /\ t[i - 1] = s[(c + i) - 1]
      BY <1>7, <2>1
  <2> QED
      BY <1>3, <2>1, <2>2
<1>11. Frames(t, z) /\ First(t, z) = s[1].id + 1
    BY <1>8, <1>9, <1>10 DEF Frames, First
<1>12. s[1].id \in DOMAIN z /\ c <= Len(s)
    BY <1>0, <1>2, <1>4 DEF Header
<1> QED
    BY <1>7, <1>11, <1>12 DEF c, t

LEMMA FrameShape ==
    ASSUME NEW op \in DOMAIN PayloadLen, NEW id \in Nat
    PROVE  /\ op \in {"text", "continuation", "ping", "close"}
           /\ Frame(op, id) \in Seq(FrameUnit) /\ Len(Frame(op, id)) \in {1, 2}
           /\ Frame(op, id)[1].op = op /\ Frame(op, id)[1].id = id
           /\ op = "text" => Frame(op, id)[1].len = 1
           /\ Len(Frame(op, id)) = 2 => Frame(op, id)[1].len = 1
           /\ Frame(op, id)[Len(Frame(op, id))].len = 0 /\ Frame(op, id)[Len(Frame(op, id))].id = id
<1> DEFINE l == PayloadLen[op]
           u == Unit(op, l, id)
           v == Unit("other", 0, id)
           p == [i \in 1 .. l |-> v]
<1>1. op \in {"text", "continuation", "ping", "close"} /\ l \in {0, 1} /\ (op = "text" => l = 1)
    BY DEF PayloadLen
<1>2. u \in FrameUnit /\ u.op = op /\ u.len = l /\ u.id = id
    BY <1>1 DEF Unit, FrameUnit
<1>3. v \in FrameUnit /\ v.len = 0 /\ v.id = id
    BY DEF Unit, FrameUnit
<1>4. Frame(op, id) = <<u>> \o p
    BY DEF Frame
<1> HIDE DEF l, u, v
<1>5. p \in Seq(FrameUnit) /\ Len(p) = l /\ (l = 1 => p[1] = v)
    BY <1>1, <1>3
<1>6. <<u>> \in Seq(FrameUnit) /\ Len(<<u>>) = 1 /\ <<u>>[1] = u
    BY <1>2
<1> HIDE DEF p
<1>7. /\ <<u>> \o p \in Seq(FrameUnit) /\ Len(<<u>> \o p) = 1 + l /\ (<<u>> \o p)[1] = u
      /\ l = 1 => (<<u>> \o p)[2] = v
    BY <1>1, <1>5, <1>6
<1>8. CASE l = 0
    BY <1>1, <1>2, <1>4, <1>7, <1>8
<1>9. CASE l = 1
    BY <1>1, <1>2, <1>3, <1>4, <1>7, <1>9
<1> QED
    BY <1>1, <1>8, <1>9

\* The frame that a stream starts with is one the client has sent, or the next.
LEMMA FirstBounds ==
    ASSUME NEW z \in Seq(Kind), NEW s \in Seq(FrameUnit), Frames(s, z)
    PROVE  First(s, z) \in 1 .. Len(z) + 1
<1>1. CASE s = <<>>
    BY <1>1 DEF First
<1>2. CASE s # <<>>
  <2>1. s[1].id \in 1 .. Len(z)
      BY <1>2 DEF Frames, Header
  <2> QED
      BY <1>2, <2>1 DEF First
<1> QED
    BY <1>1, <1>2

\* A new frame at the end of a stream of whole frames.
LEMMA Grown ==
    ASSUME NEW z \in Seq(Kind), NEW s \in Seq(FrameUnit), Frames(s, z), NEW op \in DOMAIN PayloadLen
    PROVE  /\ s \o Frame(op, Len(z) + 1) \in Seq(FrameUnit)
           /\ Frames(s \o Frame(op, Len(z) + 1), Append(z, op))
           /\ First(s \o Frame(op, Len(z) + 1), Append(z, op)) = First(s, z)
<1> DEFINE n == Len(z) + 1
           f == Frame(op, n)
           y == Append(z, op)
           g == s \o f
<1>0. Len(z) \in Nat /\ n \in Nat /\ Len(s) \in Nat
    OBVIOUS
<1>1. /\ op \in {"text", "continuation", "ping", "close"}
      /\ f \in Seq(FrameUnit) /\ Len(f) \in {1, 2} /\ f[1].op = op /\ f[1].id = n
      /\ op = "text" => f[1].len = 1
      /\ Len(f) = 2 => f[1].len = 1
      /\ f[Len(f)].len = 0 /\ f[Len(f)].id = n
    BY <1>0, FrameShape
<1>2. Len(y) = n /\ y[n] = op /\ DOMAIN y = 1 .. n /\ \A k \in 1 .. Len(z) : y[k] = z[k]
  <2>1. op \in Kind
      BY <1>1 DEF Kind
  <2> QED
      BY <2>1, AppendProperties
<1> HIDE DEF n, f, y
<1>3. /\ g \in Seq(FrameUnit) /\ Len(g) = Len(s) + Len(f)
      /\ \A i \in 1 .. Len(s) + Len(f) : g[i] = IF i <= Len(s) THEN s[i] ELSE f[i - Len(s)]
    BY <1>1, ConcatProperties
<1> HIDE DEF g
<1>4. (\A i \in 1 .. Len(s) : g[i] = s[i]) /\ g[Len(s) + 1] = f[1] /\ g[Len(g)] = f[Len(f)]
  <2>1. \A i \in 1 .. Len(s) : i \in 1 .. Len(s) + Len(f) /\ i <= Len(s)
      BY <1>0, <1>1
  <2>2. Len(s) + 1 \in 1 .. Len(s) + Len(f) /\ ~(Len(s) + 1 <= Len(s)) /\ (Len(s) + 1) - Len(s) = 1
      BY <1>0, <1>1
  <2>3. /\ Len(s) + Len(f) \in 1 .. Len(s) + Len(f) /\ ~(Len(s) + Len(f) <= Len(s))
        /\ (Len(s) + Len(f)) - Len(s) = Len(f)
      BY <1>0, <1>1
  <2> QED
      BY <1>3, <2>1, <2>2, <2>3
<1>5. ASSUME NEW u, Header(u, z) PROVE Header(u, y)
  <2>1. u.id \in 1 .. Len(z) /\ u.id \in 1 .. n
      BY <1>0, <1>5 DEF Header, n
  <2> QED
      BY <1>2, <1>5, <2>1 DEF Header
<1>6. Header(f[1], y)
  <2>1. n \in 1 .. n
      BY <1>0 DEF n
  <2> QED
      BY <1>1, <1>2, <2>1 DEF Header
<1>7. g # <<>>
    BY <1>0, <1>1, <1>3, EmptySeq
<1>8. Header(g[1], y) /\ First(g, y) = First(s, z)
  <2>1. CASE s = <<>>
    <3>1. Len(s) + 1 = 1
        BY <2>1, EmptySeq
    <3>2. g[1] = f[1]
        BY <1>4, <3>1
    <3> QED
        BY <1>1, <1>6, <1>7, <2>1, <3>2 DEF First, n
  <2>2. CASE s # <<>>
    <3>1. 1 \in 1 .. Len(s)
        BY <2>2, EmptySeq
    <3>2. g[1] = s[1] /\ Header(s[1], z)
        BY <1>4, <2>2, <3>1 DEF Frames
    <3> QED
        BY <1>5, <1>7, <2>2, <3>2 DEF First
  <2> QED
      BY <2>1, <2>2
<1>9. ASSUME NEW i \in 2 .. Len(g)
      PROVE  IF g[i - 1].len = 1
             THEN g[i].len = 0 /\ g[i].id = g[i - 1].id
             ELSE Header(g[i], y) /\ g[i].id = g[i - 1].id + 1
  <2>1. CASE i <= Len(s)
    <3>1. i \in 2 .. Len(s) /\ i \in 1 .. Len(s) /\ i - 1 \in 1 .. Len(s)
        BY <1>0, <2>1
    <3>2. g[i] = s[i] /\ g[i - 1] = s[i - 1]
        BY <1>4, <3>1
    <3>3. IF s[i - 1].len = 1
          THEN s[i].len = 0 /\ s[i].id = s[i - 1].id
          ELSE Header(s[i], z) /\ s[i].id = s[i - 1].id + 1
        BY <3>1 DEF Frames
    <3> QED
        BY <1>5, <3>2, <3>3
  <2>2. CASE i = Len(s) + 1
    <3>1. i - 1 = Len(s) /\ Len(s) \in 1 .. Len(s) /\ s # <<>>
        BY <1>0, <2>2, EmptySeq
    <3>2. g[i] = f[1] /\ g[i - 1] = s[Len(s)]
        BY <1>4, <2>2, <3>1
    <3>3. s[Len(s)].len = 0 /\ s[Len(s)].id = Len(z)
        BY <3>1 DEF Frames
    <3> QED
        BY <1>1, <1>6, <3>2, <3>3 DEF n
  <2>3. CASE i > Len(s) + 1
    <3>1. Len(f) = 2 /\ i = Len(g) /\ i - 1 = Len(s) + 1
        BY <1>0, <1>1, <1>3, <2>3
    <3>2. g[i] = f[2] /\ g[i - 1] = f[1]
        BY <1>4, <3>1
    <3> QED
        BY <1>1, <3>1, <3>2
  <2> QED
      BY <1>0, <2>1, <2>2, <2>3
<1>10. Frames(g, y)
    BY <1>1, <1>2, <1>4, <1>8, <1>9 DEF Frames
<1> QED
    BY <1>3, <1>8, <1>10 DEF g, f, n, y

\* The head ends with the stream's second unit.
LEMMA HeadEnd ==
    ASSUME Streams, pc \in {"head", "upgrade"}
    PROVE  find_header_end = IF Len(buf) >= 2 THEN 2 ELSE 0
<1>0. /\ buf \in Seq(AnyUnit) /\ net \in Seq(AnyUnit) /\ Len(buf) \in Nat
      /\ Len(Stream) = Len(buf) + Len(net)
      /\ \A k \in 1 .. Len(buf) : Stream[k] = buf[k]
    BY DEF Streams, Stream
<1>1. ASSUME NEW k \in 1 .. Len(buf) PROVE buf[k].op = "head" <=> k = 2
  <2>1. WithHead(Stream, sent) /\ Stream \in Seq(AnyUnit) /\ k \in 1 .. Len(Stream)
    <3>1. Len(Stream) >= 1 /\ k \in 1 .. Len(Stream)
        BY <1>0
    <3>2. Stream # <<>>
        BY <3>1, EmptySeq
    <3> QED
        BY <1>0, <3>1, <3>2 DEF Streams, Stream
  <2>2. CASE k = 1
      BY <1>0, <2>1, <2>2 DEF WithHead, Unit
  <2>3. CASE k = 2
      BY <1>0, <2>1, <2>3 DEF WithHead, RequestHead
  <2>4. CASE k > 2
    <3>1. k - 2 \in 1 .. Len(Stream) - 2 /\ Len(Stream) \in Nat /\ Len(Stream) >= 3
        BY <1>0, <2>1, <2>4
    <3>2. Len(Rest(Stream)) = Len(Stream) - 2 /\ Rest(Stream)[k - 2] = Stream[k]
        BY <2>1, <3>1 DEF Rest
    <3>3. Rest(Stream)[k - 2] \in FrameUnit
        BY <2>1, <3>1, <3>2 DEF WithHead
    <3> QED
        BY <1>0, <2>4, <3>2, <3>3 DEF FrameUnit
  <2> QED
      BY <2>2, <2>3, <2>4
<1> DEFINE P(i) == IF i = 0 THEN \A k \in DOMAIN buf : buf[k].op # "head" ELSE buf[i].op = "head"
<1>2. find_header_end = CHOOSE i \in 0 .. Len(buf) : P(i)
    BY DEF find_header_end
<1>3. CASE Len(buf) >= 2
  <2>1. 2 \in 0 .. Len(buf) /\ 2 \in 1 .. Len(buf)
      BY <1>0, <1>3
  <2>2. \A i \in 0 .. Len(buf) : P(i) <=> i = 2
      BY <1>0, <1>1, <2>1
  <2> HIDE DEF P
  <2> QED
      BY <1>2, <1>3, <2>1, <2>2
<1>4. CASE ~(Len(buf) >= 2)
  <2>1. 0 \in 0 .. Len(buf) /\ \A i \in 0 .. Len(buf) : i # 2
      BY <1>0, <1>4
  <2>2. \A i \in 0 .. Len(buf) : P(i) <=> i = 0
      BY <1>0, <1>1, <2>1
  <2> HIDE DEF P
  <2> QED
      BY <1>2, <1>4, <2>1, <2>2
<1> QED
    BY <1>3, <1>4
-----------------------------------------------------------------------------
(* The reads: steps. *)

LEMMA InitMInv == Init => MInv
<1> SUFFICES ASSUME Init PROVE MInv
    OBVIOUS
<1>1. /\ buf = <<>> /\ net = <<>> /\ sent = <<>> /\ got = <<>> /\ pc = "head"
      /\ \A S : <<>> \in Seq(S)
    BY EmptySeq DEF Init
<1>2. Stream = <<>>
    BY <1>1 DEF Stream
<1>3. Streams
    BY <1>1, <1>2 DEF Streams, Serving, Code
<1>4. Delivered /\ MessagesInOrder
    BY <1>1, EmptySeq DEF Delivered, MessagesInOrder
<1> QED
    BY <1>1, <1>3, <1>4 DEF MInv

\* Steps that leave the streams and what on_message got alone.
LEMMA StageMoves ==
    ASSUME MInv, UNCHANGED <<buf, net, sent, got>>,
           sock.on_message => sock'.on_message, sock.closed => sock'.closed,
           \/ pc' = pc
           \/ pc' \in {"giveup", "reject"}
           \/ pc = "head" /\ pc' = "upgrade" /\ Len(buf) >= 2
           \/ pc = "frames" /\ pc' = "pong" /\ try_parse_frame /\ buf[1].op = "ping"
           \/ pc = "frames" /\ pc' = "reply" /\ try_parse_frame
           \/ pc \in {"frames", "handler", "onclose"} /\ pc' \in {"frames", "onclose", "close"}
    PROVE  MInv'
<1>1. Stream' = Stream /\ (try_parse_frame' <=> try_parse_frame)
    BY DEF Stream, try_parse_frame
<1>2. MessagesInOrder'
    BY DEF MInv, MessagesInOrder
<1>3. Streams'
    BY <1>1 DEF MInv, Streams, Serving, Code
<1>4. Delivered'
    BY <1>1 DEF MInv, Delivered, Serving, Code
<1> QED
    BY <1>2, <1>3, <1>4 DEF MInv

LEMMA QuietReads ==
    ASSUME MInv, TypeOK,
           \/ Leave \/ ReadBlocks \/ HeadEof \/ Rejected \/ PingFrame \/ FramesEof
           \/ \E p \in Path \cup {"missing"} : Handshake(p)
           \/ CloseFrame /\ ~sock.closed
           \/ CallReturns /\ pc # "message"
           \/ \E x \in Ctx :
                \/ WriteSome(x) \/ WriteBlocks(x) \/ WriteFails(x) \/ WriteKills(x) \/ Resume(x)
                \/ Send(x) \/ Close(x) \/ MethodReturns(x) \/ Elsewhere(x)
                \/ \E e \in {"on_message", "on_close"} : On(x, e)
                \/ \E p \in Path : ws_server_route(x, p)
    PROVE  MInv'
<1> USE DEF client, hist
<1>1. CASE Leave \/ ReadBlocks \/ HeadEof \/ Rejected \/ PingFrame \/ FramesEof
    BY <1>1, StageMoves DEF Leave, ReadBlocks, HeadEof, Rejected, PingFrame, FramesEof, At, Parsed
<1>2. ASSUME NEW p \in Path \cup {"missing"}, Handshake(p) PROVE MInv'
  <2>1. pc = "head" /\ find_header_end # 0
      BY <1>2 DEF Handshake, At
  <2>2. Len(buf) >= 2
      BY <2>1, HeadEnd DEF MInv
  <2> QED
      BY <1>2, <2>1, <2>2, StageMoves DEF Handshake
<1>3. CASE CloseFrame /\ ~sock.closed
    BY <1>3, StageMoves DEF CloseFrame, At, Parsed
<1>4. CASE CallReturns /\ pc # "message"
    BY <1>4, StageMoves DEF CallReturns, InCode, Code
<1>5. CASE \E x \in Ctx : WriteSome(x) \/ WriteBlocks(x) \/ WriteFails(x) \/ WriteKills(x) \/ Resume(x)
    BY <1>5, StageMoves DEF WriteSome, WriteBlocks, WriteFails, WriteKills, Resume
<1>6. CASE \E x \in Ctx : Send(x) \/ Close(x) \/ Elsewhere(x)
    BY <1>6, StageMoves DEF Send, Close, Elsewhere
<1>7. CASE \E x \in Ctx : \E p \in Path : ws_server_route(x, p)
    BY <1>7, StageMoves DEF ws_server_route
<1>8. ASSUME NEW x \in Ctx, MethodReturns(x) PROVE MInv'
  <2>1. (sock.on_message => sock'.on_message) /\ (sock.closed => sock'.closed)
      BY <1>8 DEF MethodReturns, TypeOK
  <2> QED
      BY <1>8, <2>1, StageMoves DEF MethodReturns
<1>9. ASSUME NEW x \in Ctx, NEW e \in {"on_message", "on_close"}, On(x, e) PROVE MInv'
  <2>1. (sock.on_message => sock'.on_message) /\ (sock.closed => sock'.closed)
      BY <1>9 DEF On, TypeOK
  <2> QED
      BY <1>9, <2>1, StageMoves DEF On
<1> QED
    BY <1>1, <1>2, <1>3, <1>4, <1>5, <1>6, <1>7, <1>8, <1>9

LEMMA ReadKeeps ==
    ASSUME MInv, NEW n \in DOMAIN net, ReadHead(n) \/ ReadFrames(n)
    PROVE  MInv'
<1> USE DEF client, hist
<1>1. /\ Receive(n) /\ UNCHANGED <<sock, sent, got>>
      /\ \/ pc = "head" /\ pc' \in {"head", "giveup"}
         \/ pc = "frames" /\ pc' = "frames"
    BY DEF ReadHead, ReadFrames, At
<1>2. buf' \in Seq(AnyUnit) /\ net' \in Seq(AnyUnit) /\ Stream' = Stream
    BY <1>1, ReceiveMoves DEF MInv, Streams
<1>3. MessagesInOrder'
    BY <1>1 DEF MInv, MessagesInOrder
<1>4. Streams'
    BY <1>1, <1>2 DEF MInv, Streams, Serving, Code
<1>5. Delivered'
    BY <1>1, <1>2 DEF MInv, Delivered, Serving, Code
<1> QED
    BY <1>1, <1>3, <1>4, <1>5 DEF MInv

\* What a parsed frame says of the stream.
LEMMA ParsedFrame ==
    ASSUME Streams, pc \in Serving, try_parse_frame
    PROVE  /\ Stream # <<>> /\ Stream[1] = buf[1] /\ Header(buf[1], sent)
           /\ buf[1].len \in {0, 1} /\ buf[1].id \in 1 .. Len(sent)
           /\ 1 + buf[1].len \in 1 .. Len(buf)
<1>1. /\ buf \in Seq(AnyUnit) /\ net \in Seq(AnyUnit) /\ sent \in Seq(Kind)
      /\ Stream \in Seq(FrameUnit) /\ Frames(Stream, sent)
    BY DEF Streams
<1>2. buf # <<>> /\ Len(buf) \in Nat /\ Len(buf) >= 1 /\ Len(buf) >= 1 + buf[1].len
    BY <1>1, EmptySeq DEF try_parse_frame
<1>3. Stream[1] = buf[1] /\ Len(Stream) >= 1 /\ Len(Stream) \in Nat
    BY <1>1, <1>2 DEF Stream
<1>4. Stream # <<>> /\ Stream[1] \in FrameUnit
    BY <1>1, <1>3, EmptySeq
<1>5. Header(buf[1], sent)
    BY <1>1, <1>3, <1>4 DEF Frames
<1>6. buf[1].len \in {0, 1} /\ buf[1].id \in 1 .. Len(sent)
    BY <1>1, <1>3, <1>4, <1>5 DEF FrameUnit, Header
<1> QED
    BY <1>2, <1>3, <1>4, <1>5, <1>6

\* A frame is consumed; it is not a text frame that on_message should have had.
LEMMA ConsumeKeeps ==
    ASSUME MInv, pc \in Serving, try_parse_frame, buf' = Consume, UNCHANGED <<net, sent, got>>,
           pc' \in {"frames", "close"},
           sock.on_message => sock'.on_message, sock.closed => sock'.closed,
           pc # "message" /\ buf[1].op = "text" => ~sock.on_message \/ sock'.closed
    PROVE  MInv'
<1> DEFINE d == buf[1].id
           c == 1 + buf[1].len
<1>0. /\ buf \in Seq(AnyUnit) /\ net \in Seq(AnyUnit) /\ sent \in Seq(Kind) /\ sent # <<>>
      /\ Stream \in Seq(FrameUnit) /\ Frames(Stream, sent)
    BY DEF MInv, Streams
<1>1. /\ Stream # <<>> /\ Stream[1] = buf[1] /\ Header(buf[1], sent)
      /\ buf[1].len \in {0, 1} /\ d \in 1 .. Len(sent) /\ c \in 1 .. Len(buf)
    BY ParsedFrame DEF MInv
<1>2. Consume = SubSeq(buf, c + 1, Len(buf))
  <2>1. 2 + buf[1].len = c + 1
      BY <1>1
  <2> QED
      BY <2>1 DEF Consume
<1>3. buf' \in Seq(AnyUnit) /\ Stream' = SubSeq(Stream, c + 1, Len(Stream))
  <2> HIDE DEF c
  <2>1. /\ SubSeq(buf, c + 1, Len(buf)) \in Seq(AnyUnit)
        /\ SubSeq(buf, c + 1, Len(buf)) \o net = SubSeq(buf \o net, c + 1, Len(buf \o net))
      BY <1>0, <1>1, DropFront
  <2>2. buf' = SubSeq(buf, c + 1, Len(buf)) /\ net' = net
      BY <1>2
  <2> QED
      BY <2>1, <2>2 DEF Stream
<1>4. Stream' \in Seq(FrameUnit) /\ Frames(Stream', sent) /\ First(Stream', sent) = d + 1
  <2>1. 2 + Stream[1].len = c + 1
      BY <1>1
  <2>2. LET t == SubSeq(Stream, 2 + Stream[1].len, Len(Stream))
        IN t \in Seq(FrameUnit) /\ Frames(t, sent) /\ First(t, sent) = Stream[1].id + 1
      BY <1>0, <1>1, Consumed
  <2> QED
      BY <1>1, <1>3, <2>1, <2>2
<1>5. First(Stream, sent) = d
    BY <1>1 DEF First
<1> HIDE DEF d, c
<1>6. MessagesInOrder'
    BY DEF MInv, MessagesInOrder
<1>7. Streams'
    BY <1>0, <1>3, <1>4 DEF Streams, Serving, Code
<1>8. ASSUME got # <<>>
      PROVE  /\ sock'.on_message /\ got[Len(got)] < d + 1
             /\ ~sock'.closed => \A k \in got[Len(got)] + 1 .. (d + 1) - 1 : sent[k] # "text"
  <2>1. got[Len(got)] \in Nat /\ d \in Nat
      BY <1>1, <1>8, EmptySeq DEF MInv
  <2>2. sock.on_message
      BY <1>8 DEF MInv, Delivered
  <2>3. CASE pc = "message"
    <3>1. got[Len(got)] = d
        BY <1>5, <1>8, <2>3 DEF MInv, Delivered
    <3> QED
        BY <2>1, <2>2, <3>1
  <2>4. CASE pc # "message"
    <3>1. /\ got[Len(got)] < d
          /\ ~sock.closed => \A k \in got[Len(got)] + 1 .. d - 1 : sent[k] # "text"
        BY <1>5, <1>8, <2>4 DEF MInv, Delivered
    <3>2. ~sock'.closed => sent[d] # "text"
        BY <1>1, <2>2, <2>4 DEF Header, d
    <3>3. \A k \in got[Len(got)] + 1 .. (d + 1) - 1 : k = d \/ k \in got[Len(got)] + 1 .. d - 1
        BY <2>1
    <3>4. got[Len(got)] < d + 1
        BY <2>1, <3>1
    <3> QED
        BY <2>2, <3>1, <3>2, <3>3, <3>4
  <2> QED
      BY <2>3, <2>4
<1>9. Delivered'
    BY <1>4, <1>8 DEF Delivered
<1> QED
    BY <1>6, <1>7, <1>9 DEF MInv

LEMMA ConsumeSteps ==
    ASSUME MInv, TypeOK,
           \/ TextFrame /\ ~(sock.on_message /\ ~sock.closed)
           \/ Ponged \/ OtherFrame \/ Replied
           \/ CloseFrame /\ sock.closed
           \/ CallReturns /\ pc = "message"
    PROVE  MInv'
<1> USE DEF client, hist
<1>0. "frames" \in Serving /\ "message" \in Serving /\ "pong" \in Serving /\ "reply" \in Serving
    BY DEF Serving, Code
<1>1. CASE TextFrame /\ ~(sock.on_message /\ ~sock.closed)
    BY <1>0, <1>1, ConsumeKeeps DEF TextFrame, Parsed, At
<1>2. CASE Ponged
  <2>1. pc = "pong" /\ try_parse_frame /\ buf[1].op = "ping"
      BY <1>2 DEF Ponged, MInv, Streams
  <2> QED
      BY <1>0, <1>2, <2>1, ConsumeKeeps DEF Ponged
<1>3. CASE OtherFrame
    BY <1>0, <1>3, ConsumeKeeps DEF OtherFrame, Parsed, At
<1>4. CASE Replied
  <2>1. pc = "reply" /\ try_parse_frame
      BY <1>4 DEF Replied, MInv, Streams
  <2>2. sock'.closed /\ (sock.on_message => sock'.on_message)
      BY <1>4 DEF Replied, TypeOK
  <2> QED
      BY <1>0, <1>4, <2>1, <2>2, ConsumeKeeps DEF Replied
<1>5. CASE CloseFrame /\ sock.closed
    BY <1>0, <1>5, ConsumeKeeps DEF CloseFrame, Parsed, At
<1>6. CASE CallReturns /\ pc = "message"
  <2>1. try_parse_frame
      BY <1>6 DEF MInv, Streams
  <2> QED
      BY <1>0, <1>6, <2>1, ConsumeKeeps DEF CallReturns
<1> QED
    BY <1>1, <1>2, <1>3, <1>4, <1>5, <1>6

\* The handed frame is the first in the stream, so it comes after all that were
\* handed before, and none was skipped since.
LEMMA HandKeeps ==
    ASSUME MInv, TextFrame, sock.on_message, ~sock.closed
    PROVE  MInv'
<1> USE DEF client
<1> DEFINE d == buf[1].id
<1>0. /\ pc = "frames" /\ try_parse_frame /\ buf[1].op = "text"
      /\ pc' = "message" /\ got' = Append(got, buf[2].id) /\ UNCHANGED <<buf, net, sent, sock>>
    BY DEF TextFrame, Parsed, At
<1>1. /\ buf \in Seq(AnyUnit) /\ net \in Seq(AnyUnit) /\ sent \in Seq(Kind)
      /\ Stream \in Seq(FrameUnit) /\ Frames(Stream, sent) /\ got \in Seq(Nat) /\ Len(got) \in Nat
    BY <1>0 DEF MInv, Streams, Serving
<1>2. /\ Stream # <<>> /\ Stream[1] = buf[1] /\ Header(buf[1], sent)
      /\ d \in 1 .. Len(sent) /\ 1 + buf[1].len \in 1 .. Len(buf)
    BY <1>0, ParsedFrame DEF MInv, Serving
<1>3. buf[1].len = 1 /\ sent[d] = "text" /\ d \in DOMAIN sent /\ d \in Nat
    BY <1>0, <1>1, <1>2 DEF Header
<1>4. buf[2].id = d
  <2>1. Len(buf) \in Nat /\ Len(buf) >= 2 /\ Len(Stream) >= 2 /\ Stream[2] = buf[2]
      BY <1>1, <1>2, <1>3 DEF Stream
  <2>2. 2 \in 2 .. Len(Stream) /\ 2 - 1 = 1
      BY <1>1, <2>1
  <2>3. Stream[2].id = Stream[2 - 1].id
      BY <1>1, <1>2, <1>3, <2>2 DEF Frames
  <2> QED
      BY <1>2, <2>1, <2>2, <2>3
<1>5. First(Stream, sent) = d /\ Stream' = Stream
    BY <1>0, <1>2 DEF First, Stream
<1> HIDE DEF d
<1>6. /\ got' \in Seq(Nat) /\ Len(got') = Len(got) + 1 /\ got'[Len(got) + 1] = d
      /\ DOMAIN got' = 1 .. Len(got) + 1 /\ \A i \in 1 .. Len(got) : got'[i] = got[i]
    BY <1>0, <1>1, <1>3, <1>4, AppendProperties
<1>7. MessagesInOrder'
  <2>1. ASSUME NEW i \in 1 .. Len(got) + 1 PROVE got'[i] \in DOMAIN sent /\ sent[got'[i]] = "text"
    <3>1. CASE i = Len(got) + 1
        BY <1>3, <1>6, <3>1
    <3>2. CASE i # Len(got) + 1
      <4>1. i \in 1 .. Len(got) /\ i \in DOMAIN got
          BY <1>1, <3>2
      <4> QED
          BY <1>6, <4>1 DEF MInv, MessagesInOrder
    <3> QED
        BY <3>1, <3>2
  <2>2. ASSUME NEW i \in 1 .. Len(got) + 1, i > 1
        PROVE  /\ got'[i - 1] < got'[i]
               /\ \A k \in got'[i - 1] + 1 .. got'[i] - 1 : sent[k] # "text"
    <3>1. CASE i = Len(got) + 1
      <4>1. i - 1 = Len(got) /\ Len(got) \in 1 .. Len(got) /\ got # <<>>
          BY <1>1, <2>2, <3>1, EmptySeq
      <4>2. /\ got[Len(got)] < d
            /\ \A k \in got[Len(got)] + 1 .. d - 1 : sent[k] # "text"
          BY <1>0, <1>5, <4>1 DEF MInv, Delivered, Serving
      <4>3. got'[i] = d /\ got'[i - 1] = got[Len(got)]
          BY <1>6, <3>1, <4>1
      <4> QED
          BY <4>2, <4>3
    <3>2. CASE i # Len(got) + 1
      <4>0. \A l \in Nat : \A j \in 1 .. l + 1 : j > 1 /\ j # l + 1 => j \in 1 .. l /\ j - 1 \in 1 .. l
          OBVIOUS
      <4>3. i \in 1 .. Len(got) /\ i - 1 \in 1 .. Len(got)
          BY <1>1, <2>2, <3>2, <4>0, Zenon
      <4>1. i \in DOMAIN got /\ i \in 1 .. Len(got) /\ i - 1 \in 1 .. Len(got)
          BY <1>1, <4>3
      <4>2. got'[i] = got[i] /\ got'[i - 1] = got[i - 1]
          BY <1>6, <4>1
      <4> QED
          BY <2>2, <4>1, <4>2 DEF MInv, MessagesInOrder
    <3> QED
        BY <3>1, <3>2
  <2> QED
      BY <1>0, <1>6, <2>1, <2>2 DEF MessagesInOrder
<1>8. Streams'
  <2>1. try_parse_frame' /\ sent # <<>>
      BY <1>0 DEF try_parse_frame, MInv, Streams, Serving
  <2> QED
      BY <1>0, <1>1, <1>5, <2>1 DEF Streams
<1>9. Delivered'
    BY <1>0, <1>5, <1>6 DEF Delivered
<1> QED
    BY <1>6, <1>7, <1>8, <1>9 DEF MInv

\* After the 101 the head is taken off the stream.
LEMMA SwitchedKeeps ==
    ASSUME MInv, Switched
    PROVE  MInv'
<1> USE DEF client, hist
<1>0. /\ pc = "upgrade" /\ pc' = "handler" /\ UNCHANGED <<net, sent, got, sock>>
      /\ buf' = SubSeq(buf, 1 + find_header_end, Len(buf))
    BY DEF Switched
<1>1. /\ buf \in Seq(AnyUnit) /\ net \in Seq(AnyUnit) /\ sent \in Seq(Kind) /\ got = <<>>
      /\ Len(buf) >= 2 /\ Len(buf) \in Nat
    BY <1>0 DEF MInv, Streams
<1>2. find_header_end = 2
    BY <1>0, <1>1, HeadEnd DEF MInv
<1>3. sent # <<>> /\ WithHead(Stream, sent)
  <2>1. Len(Stream) = Len(buf) + Len(net) /\ Len(net) \in Nat
      BY <1>1 DEF Stream
  <2>2. Stream # <<>>
      BY <1>1, <2>1, EmptySeq
  <2> QED
      BY <1>0, <2>2 DEF MInv, Streams
<1>4. buf' \in Seq(AnyUnit) /\ Stream' = Rest(Stream)
  <2>1. 2 \in 1 .. Len(buf) /\ 1 + find_header_end = 2 + 1 /\ 2 + 1 = 3
      BY <1>1, <1>2
  <2>2. /\ SubSeq(buf, 2 + 1, Len(buf)) \in Seq(AnyUnit)
        /\ SubSeq(buf, 2 + 1, Len(buf)) \o net = SubSeq(buf \o net, 2 + 1, Len(buf \o net))
      BY <1>1, <2>1, DropFront
  <2>3. buf' = SubSeq(buf, 2 + 1, Len(buf)) /\ net' = net
      BY <1>0, <2>1
  <2> QED
      BY <2>1, <2>2, <2>3 DEF Stream, Rest
<1>5. Streams'
    BY <1>0, <1>1, <1>3, <1>4 DEF Streams, WithHead
<1>6. Delivered' /\ MessagesInOrder'
    BY <1>0, <1>1 DEF MInv, Delivered, MessagesInOrder
<1> QED
    BY <1>0, <1>5, <1>6 DEF MInv

LEMMA EndKeeps ==
    ASSUME MInv, End
    PROVE  MInv'
<1> USE DEF client, hist
<1>1. pc' \in {"end", "refused"} /\ buf' = <<>> /\ net' = <<>> /\ UNCHANGED <<sent, got>>
    BY DEF End
<1>2. Streams' /\ Delivered'
    BY <1>1, EmptySeq DEF MInv, Streams, Delivered, Serving, Code
<1>3. MessagesInOrder'
    BY <1>1 DEF MInv, MessagesInOrder
<1> QED
    BY <1>1, <1>2, <1>3 DEF MInv

LEMMA SendRequestKeeps ==
    ASSUME MInv, NEW h \in RequestHead, SendRequest(h)
    PROVE  MInv'
<1> USE DEF client, hist
<1> DEFINE p == Unit("part", 0, 0)
<1>0. /\ sent = <<>> /\ net' = <<p, h>> /\ sent' = <<"head">> /\ UNCHANGED <<pc, buf, got, sock>>
    BY DEF SendRequest
<1>1. p \in AnyUnit /\ h \in AnyUnit
    BY DEF Unit, AnyUnit, FrameUnit
<1> HIDE DEF p
<1>2. net' \in Seq(AnyUnit) /\ Len(net') = 2 /\ net'[1] = p /\ net'[2] = h
    BY <1>0, <1>1
<1>3. sent' \in Seq(Kind) /\ sent' # <<>> /\ Len(sent') = 1
  <2>1. "head" \in Kind
      BY DEF Kind
  <2> QED
      BY <1>0, <2>1
<1>4. pc \notin Serving
    BY <1>0 DEF MInv, Streams
<1>5. ASSUME pc \in {"head", "upgrade"} PROVE pc # "upgrade" /\ WithHead(Stream', sent')
  <2>1. buf \in Seq(AnyUnit) /\ net \in Seq(AnyUnit) /\ Stream = <<>>
      BY <1>0, <1>5 DEF MInv, Streams
  <2>2. buf = <<>> /\ Len(buf) = 0
    <3>1. Len(Stream) = Len(buf) + Len(net) /\ Len(buf) \in Nat /\ Len(net) \in Nat /\ Len(Stream) = 0
        BY <2>1, EmptySeq DEF Stream
    <3>2. Len(buf) = 0
        BY <3>1
    <3> QED
        BY <2>1, <3>2
  <2>3. Stream' = net'
      BY <1>0, <1>2, <2>2 DEF Stream
  <2>4. Rest(net') = <<>>
      BY <1>2 DEF Rest
  <2>5. First(<<>>, sent') = 2 /\ Frames(<<>>, sent') /\ <<>> \in Seq(FrameUnit)
      BY <1>3, EmptySeq DEF First, Frames
  <2>6. pc # "upgrade"
      BY <2>2 DEF MInv, Streams
  <2> QED
      BY <1>2, <2>3, <2>4, <2>5, <2>6 DEF WithHead, p
<1>6. Streams'
  <2>1. pc \in {"message", "pong", "reply"} => pc \in Serving
      BY DEF Serving, Code
  <2> QED
      BY <1>0, <1>2, <1>3, <1>4, <1>5, <2>1 DEF MInv, Streams
<1>7. Delivered'
    BY <1>0, <1>4 DEF Delivered
<1>8. MessagesInOrder'
  <2>1. DOMAIN got = {}
      BY <1>0, EmptySeq DEF MInv, MessagesInOrder
  <2> QED
      BY <1>0, <2>1 DEF MessagesInOrder
<1> QED
    BY <1>0, <1>6, <1>7, <1>8 DEF MInv

LEMMA SendFrameKeeps ==
    ASSUME MInv, NEW op \in DOMAIN PayloadLen, SendFrame(op)
    PROVE  MInv'
<1> USE DEF client, hist
<1> DEFINE f == Frame(op, Len(sent) + 1)
<1>0. /\ Len(sent) >= 1 /\ net' = net \o f /\ sent' = Append(sent, op) /\ UNCHANGED <<pc, buf, got, sock>>
    BY WsAssumption DEF SendFrame
<1>1. /\ buf \in Seq(AnyUnit) /\ net \in Seq(AnyUnit) /\ sent \in Seq(Kind) /\ Len(sent) \in Nat
      /\ got \in Seq(Nat) /\ sent # <<>>
    BY <1>0, EmptySeq DEF MInv, Streams
<1>2. op \in Kind /\ f \in Seq(FrameUnit)
  <2>1. Len(sent) + 1 \in Nat
      BY <1>1
  <2> QED
      BY <2>1, FrameShape DEF Kind
<1>3. f \in Seq(AnyUnit) /\ Stream \in Seq(AnyUnit)
  <2>1. FrameUnit \subseteq AnyUnit
      BY DEF AnyUnit
  <2>2. f \in Seq(AnyUnit)
      BY <1>2, <2>1, SeqMonotonic
  <2> QED
      BY <1>1, <2>2 DEF Stream
<1>4. /\ sent' \in Seq(Kind) /\ sent' # <<>> /\ Len(sent') = Len(sent) + 1 /\ DOMAIN sent' = 1 .. Len(sent) + 1
      /\ \A k \in 1 .. Len(sent) : sent'[k] = sent[k]
    BY <1>0, <1>1, <1>2, AppendProperties, EmptySeq
<1> HIDE DEF f
<1>5. net' \in Seq(AnyUnit) /\ Stream' = Stream \o f
  <2>1. \A q, r, t \in Seq(AnyUnit) : (q \o r) \o t = q \o (r \o t)
      BY ConcatAssociative
  <2>2. (buf \o net) \o f = buf \o (net \o f)
      BY <1>1, <1>3, <2>1
  <2> QED
      BY <1>0, <1>1, <1>3, <2>2 DEF Stream
<1>6. ASSUME NEW s \in Seq(FrameUnit), Frames(s, sent)
      PROVE  /\ s \o f \in Seq(FrameUnit) /\ Frames(s \o f, sent')
             /\ First(s \o f, sent') = First(s, sent)
    BY <1>0, <1>1, <1>6, Grown DEF f
<1>7. ASSUME pc \in {"head", "upgrade"} PROVE WithHead(Stream', sent')
  <2>1. WithHead(Stream, sent)
      BY <1>1, <1>7 DEF MInv, Streams
  <2>2. Len(Stream) \in Nat /\ Len(Stream) >= 2 /\ Rest(Stream) \in Seq(FrameUnit) /\ Frames(Rest(Stream), sent)
      BY <1>3, <2>1 DEF WithHead
  <2>3. Rest(Stream \o f) = Rest(Stream) \o f
    <3>1. 2 \in 1 .. Len(Stream) /\ 2 + 1 = 3
        BY <2>2
    <3>2. SubSeq(Stream, 2 + 1, Len(Stream)) \o f = SubSeq(Stream \o f, 2 + 1, Len(Stream \o f))
        BY <1>3, <3>1, DropFront
    <3> QED
        BY <3>1, <3>2 DEF Rest
  <2>4. Len(Stream \o f) >= 2 /\ (Stream \o f)[1] = Stream[1] /\ (Stream \o f)[2] = Stream[2]
      BY <1>3, <2>2
  <2>5. /\ Rest(Stream) \o f \in Seq(FrameUnit) /\ Frames(Rest(Stream) \o f, sent')
        /\ First(Rest(Stream) \o f, sent') = 2
      BY <1>6, <2>1, <2>2 DEF WithHead
  <2> QED
      BY <1>5, <2>1, <2>3, <2>4, <2>5 DEF WithHead
<1>8. ASSUME pc \in Serving
      PROVE  /\ Stream' \in Seq(FrameUnit) /\ Frames(Stream', sent')
             /\ First(Stream', sent') = First(Stream, sent) /\ First(Stream, sent) \in 1 .. Len(sent) + 1
  <2>1. Stream \in Seq(FrameUnit) /\ Frames(Stream, sent)
      BY <1>8 DEF MInv, Streams
  <2> QED
      BY <1>1, <1>5, <1>6, <2>1, FirstBounds
<1>9. Streams'
  <2>1. try_parse_frame' <=> try_parse_frame
      BY <1>0 DEF try_parse_frame
  <2> QED
      BY <1>0, <1>4, <1>5, <1>7, <1>8, <2>1 DEF MInv, Streams
<1>10. Delivered'
  <2> SUFFICES ASSUME pc \in Serving, got # <<>>
               PROVE  /\ sock.on_message
                      /\ pc = "message" => got[Len(got)] = First(Stream, sent)
                      /\ pc # "message" =>
                        /\ got[Len(got)] < First(Stream, sent)
                        /\ ~sock.closed => \A k \in got[Len(got)] + 1 .. First(Stream, sent) - 1 : sent'[k] # "text"
      BY <1>0, <1>8 DEF Delivered
  <2>1. got[Len(got)] \in Nat
      BY <1>1, EmptySeq
  <2>2. \A k \in got[Len(got)] + 1 .. First(Stream, sent) - 1 : k \in 1 .. Len(sent)
      BY <1>1, <1>8, <2>1
  <2> QED
      BY <1>4, <2>2 DEF MInv, Delivered
<1>11. MessagesInOrder'
  <2>1. ASSUME NEW i \in DOMAIN got PROVE got[i] \in DOMAIN sent' /\ sent'[got[i]] = "text"
    <3>1. got[i] \in 1 .. Len(sent) /\ sent[got[i]] = "text"
        BY <1>1 DEF MInv, MessagesInOrder
    <3> QED
        BY <1>1, <1>4, <3>1
  <2>2. ASSUME NEW i \in DOMAIN got, i > 1
        PROVE  /\ got[i - 1] < got[i]
               /\ \A k \in got[i - 1] + 1 .. got[i] - 1 : sent'[k] # "text"
    <3>1. /\ got[i] \in 1 .. Len(sent) /\ got[i - 1] < got[i]
          /\ \A k \in got[i - 1] + 1 .. got[i] - 1 : sent[k] # "text"
        BY <1>1, <2>2 DEF MInv, MessagesInOrder
    <3>2. i - 1 \in 1 .. Len(got) /\ got[i - 1] \in Nat
        BY <1>1, <2>2
    <3>3. \A k \in got[i - 1] + 1 .. got[i] - 1 : k \in 1 .. Len(sent)
        BY <1>1, <3>1, <3>2, SMTT(30)
    <3> QED
        BY <1>4, <3>1, <3>3
  <2> QED
      BY <1>0, <2>1, <2>2 DEF MessagesInOrder
<1> QED
    BY <1>0, <1>1, <1>9, <1>10, <1>11 DEF MInv

LEMMA MInvStep == TypeOK /\ MInv /\ [Next]_vars => MInv'
<1> SUFFICES ASSUME TypeOK, MInv, [Next]_vars PROVE MInv'
    OBVIOUS
<1>1. CASE Entry
    BY <1>1, ReadKeeps, QuietReads, SwitchedKeeps, ConsumeSteps, HandKeeps, EndKeeps DEF Entry
<1>2. CASE CallReturns \/ Leave
    BY <1>2, QuietReads, ConsumeSteps
<1>3. CASE \E x \in Ctx :
            \/ WriteSome(x) \/ WriteBlocks(x) \/ WriteFails(x) \/ WriteKills(x) \/ Resume(x)
            \/ Send(x) \/ Close(x) \/ MethodReturns(x) \/ Elsewhere(x)
            \/ \E e \in {"on_message", "on_close"} : On(x, e)
            \/ \E p \in Path : ws_server_route(x, p)
    BY <1>3, QuietReads
<1>4. CASE (\E h \in RequestHead : SendRequest(h)) \/ (\E op \in DOMAIN PayloadLen : SendFrame(op))
    BY <1>4, SendRequestKeeps, SendFrameKeeps
<1>5. CASE UNCHANGED vars
    BY <1>5, StageMoves DEF vars, client, hist
<1> QED
    BY <1>1, <1>2, <1>3, <1>4, <1>5 DEF Next

\* on_message gets the client's text frames in the order they were sent, none
\* twice and none left out in between, wherever recv() cuts the stream, for any
\* number of frames and whoever else uses the socket object.
THEOREM TextInOrder == Spec => []MessagesInOrder
<1>1. MInv => MessagesInOrder
    BY DEF MInv
<1>2. Spec => []MInv
    BY InitMInv, MInvStep, TypeCorrect, PTL DEF Spec
<1> QED
    BY <1>1, <1>2, PTL
-----------------------------------------------------------------------------
(* The promise to the handlers. *)

\* on_close ends the frame loop, also where code elsewhere uses the socket object.
Lost == calls \in {0, 1} /\ (calls # 0 => pc \in {"onclose", "close", "end"})

LEMMA LostStep == Lost /\ [Next]_vars => Lost'
<1> SUFFICES ASSUME Lost, [Next]_vars PROVE Lost'
    OBVIOUS
<1> USE DEF client, hist
<1>1. CASE \/ \E n \in DOMAIN net : ReadHead(n) \/ ReadFrames(n)
           \/ \E p \in Path \cup {"missing"} : Handshake(p)
    BY <1>1 DEF ReadHead, ReadFrames, Handshake, At, Lost
<1>2. CASE HeadEof \/ Rejected \/ Switched \/ ReadBlocks \/ FramesEof \/ End
    BY <1>2 DEF HeadEof, Rejected, Switched, ReadBlocks, FramesEof, End, At, Lost
<1>3. CASE TextFrame \/ PingFrame \/ Ponged \/ OtherFrame \/ CloseFrame \/ Replied
    BY <1>3 DEF TextFrame, PingFrame, Ponged, OtherFrame, CloseFrame, Replied, Parsed, At, Lost
<1>4. CASE CallReturns \/ Leave
    BY <1>4 DEF CallReturns, Leave, InCode, Code, Lost
<1>5. CASE \E x \in Ctx : WriteSome(x) \/ WriteBlocks(x) \/ WriteFails(x) \/ WriteKills(x) \/ Resume(x)
    BY <1>5 DEF WriteSome, WriteBlocks, WriteFails, WriteKills, Resume, Lost
<1>6. CASE \E x \in Ctx :
            \/ Send(x) \/ Close(x) \/ MethodReturns(x) \/ Elsewhere(x)
            \/ \E e \in {"on_message", "on_close"} : On(x, e)
            \/ \E p \in Path : ws_server_route(x, p)
    BY <1>6 DEF Send, Close, MethodReturns, Elsewhere, On, ws_server_route, Lost
<1>7. CASE (\E h \in RequestHead : SendRequest(h)) \/ (\E op \in DOMAIN PayloadLen : SendFrame(op))
    BY <1>7 DEF SendRequest, SendFrame, Lost
<1>8. CASE UNCHANGED vars
    BY <1>8 DEF vars, Lost
<1> QED
    BY <1>1, <1>2, <1>3, <1>4, <1>5, <1>6, <1>7, <1>8 DEF Next, Entry

\* What the handlers see: the variables of the abstract connection.
View == <<sent, got, sock.closed, calls>>

LEMMA HiddenSteps ==
    ASSUME TypeOK,
           \/ \E n \in DOMAIN net : ReadHead(n) \/ ReadFrames(n)
           \/ \E p \in Path \cup {"missing"} : Handshake(p)
           \/ HeadEof \/ Rejected \/ Switched \/ ReadBlocks \/ PingFrame \/ Ponged \/ OtherFrame
           \/ CloseFrame \/ End \/ CallReturns \/ Leave
           \/ \E x \in Ctx :
                \/ WriteSome(x) \/ WriteBlocks(x) \/ WriteFails(x) \/ WriteKills(x) \/ Resume(x)
                \/ Send(x) \/ Close(x) \/ Elsewhere(x)
                \/ \E e \in {"on_message", "on_close"} : On(x, e)
                \/ \E p \in Path : ws_server_route(x, p)
    PROVE  UNCHANGED View
<1> USE DEF client, hist, View
<1>1. CASE \/ \E n \in DOMAIN net : ReadHead(n) \/ ReadFrames(n)
           \/ \E p \in Path \cup {"missing"} : Handshake(p)
    BY <1>1 DEF ReadHead, ReadFrames, Handshake
<1>2. CASE HeadEof \/ Rejected \/ Switched \/ ReadBlocks \/ PingFrame \/ Ponged \/ OtherFrame
    BY <1>2 DEF HeadEof, Rejected, Switched, ReadBlocks, PingFrame, Ponged, OtherFrame
<1>3. CASE CloseFrame \/ End \/ CallReturns \/ Leave
    BY <1>3 DEF CloseFrame, End, CallReturns, Leave
<1>4. CASE \E x \in Ctx : WriteSome(x) \/ WriteBlocks(x) \/ WriteFails(x) \/ WriteKills(x) \/ Resume(x)
    BY <1>4 DEF WriteSome, WriteBlocks, WriteFails, WriteKills, Resume
<1>5. CASE \E x \in Ctx : Send(x) \/ Close(x) \/ Elsewhere(x) \/ \E p \in Path : ws_server_route(x, p)
    BY <1>5 DEF Send, Close, Elsewhere, ws_server_route
<1>6. CASE \E x \in Ctx : \E e \in {"on_message", "on_close"} : On(x, e)
    BY <1>6 DEF On, TypeOK
<1> QED
    BY <1>1, <1>2, <1>3, <1>4, <1>5, <1>6

\* A Close frame of the server is out, or it answered the client's.
LEMMA ClosingSteps ==
    ASSUME TypeOK, Replied \/ \E x \in Ctx : MethodReturns(x)
    PROVE  Socket!Close \/ UNCHANGED View
<1> USE DEF client, hist
<1>1. UNCHANGED <<sent, got, calls>>
    BY DEF Replied, MethodReturns
<1>2. sock.closed \in BOOLEAN /\ sock'.closed \in BOOLEAN /\ (sock.closed => sock'.closed)
    BY DEF Replied, MethodReturns, TypeOK
<1>3. CASE ~sock.closed /\ sock'.closed
    BY <1>1, <1>3 DEF Socket!Close
<1>4. CASE sock'.closed <=> sock.closed
  <2>1. sock'.closed = sock.closed
      BY <1>2, <1>4
  <2> QED
      BY <1>1, <2>1 DEF View
<1> QED
    BY <1>2, <1>3, <1>4

\* The frame handed to on_message is the next text frame.
LEMMA HandsNext ==
    ASSUME MInv, MInv', Lost, TextFrame
    PROVE  Socket!Next \/ UNCHANGED View
<1> USE DEF client, hist
<1>1. CASE ~(sock.on_message /\ ~sock.closed)
    BY <1>1 DEF TextFrame, View
<1>2. CASE sock.on_message /\ ~sock.closed
  <2> DEFINE i == buf[2].id
             n == Len(got)
  <2>1. got' = Append(got, i) /\ UNCHANGED <<sent, sock, calls>> /\ pc = "frames"
      BY <1>2 DEF TextFrame, Parsed, At
  <2>2. calls = 0
      BY <2>1 DEF Lost
  <2>3. got \in Seq(Nat) /\ n \in Nat /\ got' \in Seq(Nat) /\ MessagesInOrder'
      BY DEF MInv
  <2> HIDE DEF i
  <2>4. Len(got') = n + 1 /\ got'[n + 1] = i /\ \A k \in 1 .. n : got'[k] = got[k]
    <3>1. got' \in Seq(Nat)
        BY <2>3
    <3> QED
        BY <2>1, <2>3, <3>1
  <2>5. n + 1 \in DOMAIN got'
      BY <2>3, <2>4
  <2>6. i \in DOMAIN sent /\ sent[i] = "text"
      BY <2>1, <2>4, <2>5, <2>3 DEF MessagesInOrder
  <2>7. ASSUME got # <<>>
        PROVE  got[n] < i /\ \A k \in got[n] + 1 .. i - 1 : sent[k] # "text"
    <3>1. n + 1 > 1 /\ (n + 1) - 1 = n /\ n \in 1 .. n
        BY <2>3, <2>7, EmptySeq
    <3>2. got'[n] = got[n]
        BY <2>4, <3>1
    <3>3. /\ got'[n] < got'[n + 1]
          /\ \A k \in got'[n] + 1 .. got'[n + 1] - 1 : sent'[k] # "text"
        BY <2>3, <2>5, <3>1 DEF MessagesInOrder
    <3> QED
        BY <2>1, <2>4, <3>2, <3>3
  <2>8. Socket!IsNext(i)
      BY <2>6, <2>7 DEF Socket!IsNext
  <2>9. Socket!Deliver(i)
      BY <1>2, <2>1, <2>2, <2>8 DEF Socket!Deliver
  <2> QED
      BY <2>6, <2>9 DEF Socket!Next
<1> QED
    BY <1>1, <1>2

LEMMA SocketStep == TypeOK /\ MInv /\ MInv' /\ Lost /\ [Next]_vars => [Socket!Next]_(Socket!vars)
<1> SUFFICES ASSUME TypeOK, MInv, MInv', Lost, [Next]_vars
             PROVE  Socket!Next \/ UNCHANGED View
    BY DEF View, Socket!vars
<1>1. CASE Entry
  <2>1. CASE TextFrame
      BY <2>1, HandsNext
  <2>2. CASE Replied
      BY <2>2, ClosingSteps DEF Socket!Next
  <2>3. CASE FramesEof
    <3>1. calls = 0 /\ UNCHANGED <<sent, got, sock>> /\ pc = "frames"
        BY <2>3 DEF FramesEof, At, Lost, client, hist
    <3>2. CASE Announces
      <4>1. calls' = 1
          BY <2>3, <3>1, <3>2 DEF FramesEof, Announces
      <4> QED
          BY <3>1, <4>1 DEF Socket!Next, Socket!Lose
    <3>3. CASE ~Announces
        BY <2>3, <3>1, <3>3 DEF FramesEof, View
    <3> QED
        BY <3>2, <3>3
  <2> QED
      BY <1>1, <2>1, <2>2, <2>3, HiddenSteps DEF Entry
<1>2. CASE CallReturns \/ Leave
    BY <1>2, HiddenSteps
<1>3. CASE \E x \in Ctx :
            \/ WriteSome(x) \/ WriteBlocks(x) \/ WriteFails(x) \/ WriteKills(x) \/ Resume(x)
            \/ Send(x) \/ Close(x) \/ MethodReturns(x) \/ Elsewhere(x)
            \/ \E e \in {"on_message", "on_close"} : On(x, e)
            \/ \E p \in Path : ws_server_route(x, p)
    BY <1>3, HiddenSteps, ClosingSteps DEF Socket!Next
<1>4. CASE \E h \in RequestHead : SendRequest(h)
    BY <1>4 DEF SendRequest, client, hist, Socket!Next, Socket!Connect
<1>5. CASE \E op \in DOMAIN PayloadLen : SendFrame(op)
  <2>1. PICK op \in DOMAIN PayloadLen : SendFrame(op)
      BY <1>5
  <2>2. sent # <<>>
      BY <2>1, EmptySeq, WsAssumption DEF SendFrame
  <2>3. Socket!SendFrame(op)
      BY <2>1, <2>2 DEF SendFrame, client, hist, Socket!SendFrame
  <2> QED
      BY <2>3 DEF Socket!Next
<1>6. CASE UNCHANGED vars
    BY <1>6 DEF vars, client, hist, View
<1> QED
    BY <1>1, <1>2, <1>3, <1>4, <1>5, <1>6 DEF Next

\* The connection keeps what MessageSocket promises to its handlers: on_message
\* is called for the next text frame only and never after a close, on_close at
\* most once and last, wherever the streams are cut, whatever suspends, and also
\* when code elsewhere uses the socket object.  Continuation frames are dropped.
THEOREM SocketKept == Spec => ImplementsMessageSocket
<1>1. Init => Socket!Init /\ Lost
    BY DEF Init, Socket!Init, Lost
<1>2. Spec => [](TypeOK /\ MInv /\ Lost)
    BY <1>1, InitMInv, MInvStep, LostStep, TypeCorrect, PTL DEF Spec
<1>3. (TypeOK /\ MInv /\ Lost) /\ (TypeOK /\ MInv /\ Lost)' /\ [Next]_vars => [Socket!Next]_(Socket!vars)
    BY SocketStep
<1>4. Spec => Socket!Spec
    BY <1>1, <1>2, <1>3, PTL DEF Spec, Socket!Spec
<1> QED
    BY <1>4 DEF ImplementsMessageSocket
=============================================================================
