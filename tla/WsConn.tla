------------------------------- MODULE WsConn -------------------------------
(***************************************************************************)
(* One WebSocket connection, from accept() to close(): ws_conn_entry and   *)
(* ws_conn_call_method of src/src/runtime/ws.c over net_read_some and      *)
(* net_write_all of netutil.c.                                             *)
(*                                                                         *)
(* Everything runs on the main thread, and run says what: the connection's *)
(* coroutine, the reactor loop, or Jaguar code elsewhere, which may keep   *)
(* the socket object and use it: a timer callback, or the coroutine of     *)
(* another connection.  A coroutine gives the thread away only where a     *)
(* read or a write would block.                                            *)
(*                                                                         *)
(* Bytes are units.  A frame the client sends is a header unit, with the   *)
(* length of the payload, and that many payload units; the request head    *)
(* ends with a unit that holds the blank line.  A frame the server sends   *)
(* is written in two parts, since send() may take any prefix of it.        *)
(***************************************************************************)
EXTENDS Naturals, Sequences

CONSTANTS Path,      \* paths a route may be registered for
          MaxHead,   \* the handshake's limit of 65536 bytes, in units
          MaxFrames, \* bound: frames the client sends
          MaxSends   \* bound: frames Jaguar code sends

ASSUME WsAssumption ==
    "missing" \notin Path /\ MaxHead \in Nat /\ MaxFrames \in Nat /\ MaxSends \in Nat

VARIABLES
    run,     \* who has the main thread; "killed" after SIGPIPE
    routes,  \* g_ws_routes: the paths that have a handler
    pc,      \* where the coroutine is in ws_conn_entry
    sock,    \* SocketConnNative: closed, on_message, on_close
    buf,     \* Buf b of ws_conn_entry
    w,       \* the write each context is in, if any
    net,     \* units sent by the client and not yet received
    gone,    \* the client has closed its end
    \* history
    sent,    \* the kinds of frames the client has sent
    sends,   \* frames Jaguar code has sent
    wire,    \* what the client has been sent, summed up
    got,     \* text frames handed to on_message, by number
    calls,   \* calls of on_close
    strayed  \* code elsewhere has used the socket object

client == <<net, gone, sent>>
hist == <<sends, got, calls, strayed>>
vars == <<run, routes, pc, sock, buf, w, client, wire, hist>>

Ctx == {"conn", "timer", "other"}
Code == {"handler", "message", "onclose"}
Serving == Code \cup {"frames", "pong", "reply", "close"}
Open == Serving \cup {"head", "reject", "upgrade", "giveup"}

Idle == [op |-> "none", left |-> 0]
\* The coroutine is in ws_conn_entry itself, or x runs Jaguar code.
At(stage) == run = "conn" /\ w["conn"] = Idle /\ pc = stage
InCode(x) == run = x /\ w[x] = Idle /\ (x = "conn" => pc \in Code)

Init ==
    /\ run = "conn"
    /\ routes \in SUBSET Path
    /\ pc = "head"
    /\ sock = [closed |-> FALSE, on_message |-> FALSE, on_close |-> FALSE]
    /\ buf = <<>>
    /\ w = [x \in Ctx |-> Idle]
    /\ net = <<>> /\ gone = FALSE /\ sent = <<>>
    /\ wire = [half |-> "none", torn |-> FALSE, close |-> FALSE, late |-> FALSE, stale |-> FALSE]
    /\ sends = 0 /\ got = <<>> /\ calls = 0 /\ strayed = FALSE
-----------------------------------------------------------------------------
(* The client.  It acts while the loop polls: what arrives while the       *)
(* coroutine runs is what a recv() that took less had left.                *)

Unit(op, len, id) == [op |-> op, len |-> len, id |-> id]

\* A payload unit that is taken for a header looks like an unknown opcode.
PayloadLen == [text |-> 1, continuation |-> 1, ping |-> 0, close |-> 0]
Frame(op, id) ==
    <<Unit(op, PayloadLen[op], id)>> \o [i \in 1 .. PayloadLen[op] |-> Unit("other", 0, id)]

\* The path of the request line may be missing, and so may the key.
RequestHead == [op : {"head"}, path : Path \cup {"missing"}, key : BOOLEAN]

SendRequest(h) ==
    /\ run = "loop" /\ pc \in Open /\ ~gone /\ sent = <<>>
    /\ net' = <<Unit("part", 0, 0), h>>
    /\ sent' = <<"head">>
    /\ UNCHANGED <<run, routes, pc, sock, buf, w, gone, wire, hist>>

SendFrame(op) ==
    /\ run = "loop" /\ pc \in Open /\ ~gone /\ Len(sent) \in 1 .. MaxFrames
    /\ net' = net \o Frame(op, Len(sent) + 1)
    /\ sent' = Append(sent, op)
    /\ UNCHANGED <<run, routes, pc, sock, buf, w, gone, wire, hist>>

\* It may go away under a write, too.
Leave ==
    /\ ~gone /\ (run = "loop" \/ \E x \in Ctx : run = x /\ w[x] # Idle)
    /\ gone' = TRUE
    /\ UNCHANGED <<run, routes, pc, sock, buf, w, net, sent, wire, hist>>
-----------------------------------------------------------------------------
(* net_write_all.  Every caller ignores its result. *)

StartWrite(x, op) == w' = [w EXCEPT ![x] = [op |-> op, left |-> 2]]
Writing(x) == run = x /\ w[x].left > 0
Returned(x) == run = x /\ w[x] # Idle /\ w[x].left = 0
Return(x) == w' = [w EXCEPT ![x] = Idle]

\* What the client has been sent once the next part of x's frame has arrived:
\* half is a frame of which it has the first part; torn, that something else
\* came between two parts; late, that more than pongs followed a Close.
Arrived(x) ==
    LET op == w[x].op
        first == w[x].left = 2
    IN [wire EXCEPT !.half = IF first THEN x ELSE "none",
                    !.torn = @ \/ wire.half # IF first THEN "none" ELSE x,
                    !.close = @ \/ (op = "close" /\ ~first),
                    !.late = @ \/ (wire.close /\ op # "pong")]

\* send() takes a prefix.  What is sent to a client that is gone is lost; a
\* descriptor that was closed names somebody else's connection by now.
WriteSome(x) ==
    /\ Writing(x)
    /\ wire' = CASE pc \notin Open -> [wire EXCEPT !.stale = TRUE]
                 [] gone -> wire
                 [] OTHER -> Arrived(x)
    /\ w' = [w EXCEPT ![x].left = @ - 1]
    /\ UNCHANGED <<run, routes, pc, sock, buf, client, hist>>

\* Faulty variant: after the wait the frame is sent from its beginning.
WriteBlocksRestarts(x) ==
    /\ Writing(x) /\ x # "timer" /\ pc \in Open /\ ~gone
    /\ run' = "loop" /\ StartWrite(x, w[x].op)
    /\ UNCHANGED <<routes, pc, sock, buf, client, wire, hist>>

\* EAGAIN in a coroutine: reactor_await_fd.  In a timer callback the call sleeps
\* and tries again, and nothing else runs meanwhile.
WriteBlocks(x) ==
    /\ Writing(x) /\ x # "timer" /\ pc \in Open /\ ~gone
    /\ run' = "loop"
    /\ UNCHANGED <<routes, pc, sock, buf, w, client, wire, hist>>

\* EBADF, EPIPE or ECONNRESET: the rest is dropped.
WriteFails(x) ==
    /\ Writing(x) /\ (pc \notin Open \/ gone)
    /\ w' = [w EXCEPT ![x].left = 0]
    /\ UNCHANGED <<run, routes, pc, sock, buf, client, wire, hist>>

\* EPIPE also raises SIGPIPE, which nothing in the program handles.
WriteKills(x) ==
    /\ Writing(x) /\ pc \in Open /\ gone
    /\ run' = "killed"
    /\ UNCHANGED <<routes, pc, sock, buf, w, client, wire, hist>>

\* The reactor resumes a coroutine when its descriptor is ready.  (A connection
\* whose socket others wait for may lose its registration: module Reactor.)
Resume(x) ==
    /\ run = "loop"
    /\ \/ w[x] # Idle
       \/ x = "conn" /\ pc \in Open /\ (net # <<>> \/ gone)
    /\ run' = x
    /\ UNCHANGED <<routes, pc, sock, buf, w, client, wire, hist>>
-----------------------------------------------------------------------------
(* ws_conn_entry: the handshake. *)

\* find_header_end
find_header_end == CHOOSE i \in 0 .. Len(buf) :
    IF i = 0 THEN \A k \in DOMAIN buf : buf[k].op # "head" ELSE buf[i].op = "head"

\* net_read_some appends what recv() returns: any number of units.
Receive(n) ==
    /\ n \in 1 .. Len(net)
    /\ buf' = buf \o SubSeq(net, 1, n)
    /\ net' = SubSeq(net, n + 1, Len(net))

\* The loop that reads the request head, and gives up when it gets too long.
ReadHead(n) ==
    /\ At("head") /\ find_header_end = 0
    /\ Receive(n)
    /\ pc' = IF Len(buf') > MaxHead THEN "giveup" ELSE pc
    /\ UNCHANGED <<run, routes, sock, w, gone, sent, wire, hist>>

HeadEof ==
    /\ At("head") /\ find_header_end = 0
    /\ net = <<>> /\ gone
    /\ pc' = "giveup"
    /\ UNCHANGED <<run, routes, sock, buf, w, client, wire, hist>>

\* The request line, the key and the route.  When sscanf finds no path, path is
\* uninitialised and may equal any route's.
Handshake(path) ==
    /\ At("head") /\ find_header_end # 0
    /\ LET h == buf[find_header_end] IN
        /\ h.path \in {path, "missing"}
        /\ IF h.key /\ path \in routes
           THEN pc' = "upgrade" /\ StartWrite("conn", "101")
           ELSE pc' = "reject" /\ StartWrite("conn", "400")
    /\ UNCHANGED <<run, routes, sock, buf, client, wire, hist>>

Rejected ==
    /\ Returned("conn") /\ pc = "reject"
    /\ Return("conn")
    /\ pc' = "giveup"
    /\ UNCHANGED <<run, routes, sock, buf, client, wire, hist>>

\* After the 101 the rest of the buffer is the start of the first frame, and the
\* route's handler is called with the socket object.
Switched ==
    /\ Returned("conn") /\ pc = "upgrade"
    /\ Return("conn")
    /\ buf' = SubSeq(buf, 1 + find_header_end, Len(buf))
    /\ pc' = "handler"
    /\ UNCHANGED <<run, routes, sock, client, wire, hist>>
-----------------------------------------------------------------------------
(* ws_conn_entry: the frame loop. *)

\* try_parse_frame
try_parse_frame == buf # <<>> /\ Len(buf) >= 1 + buf[1].len
Parsed(op) == At("frames") /\ try_parse_frame /\ buf[1].op = op

\* buf_consume_front of a whole frame
Consume == SubSeq(buf, 2 + buf[1].len, Len(buf))

ReadFrames(n) ==
    /\ At("frames") /\ ~try_parse_frame
    /\ Receive(n)
    /\ UNCHANGED <<run, routes, pc, sock, w, gone, sent, wire, hist>>

\* Faulty variant: the end of the stream is taken for EAGAIN.
ReadBlocksAtEof ==
    /\ At("head") \/ (At("frames") /\ ~try_parse_frame)
    /\ net = <<>>
    /\ run' = "loop"
    /\ UNCHANGED <<routes, pc, sock, buf, w, client, wire, hist>>

\* EAGAIN in net_read_some
ReadBlocks ==
    /\ \/ At("head") /\ find_header_end = 0
       \/ At("frames") /\ ~try_parse_frame
    /\ net = <<>> /\ ~gone
    /\ run' = "loop"
    /\ UNCHANGED <<routes, pc, sock, buf, w, client, wire, hist>>

\* Text and binary frames.
TextFrame ==
    /\ Parsed("text")
    /\ IF sock.on_message /\ ~sock.closed
       THEN pc' = "message" /\ got' = Append(got, buf[2].id) /\ UNCHANGED buf
       ELSE buf' = Consume /\ UNCHANGED <<pc, got>>
    /\ UNCHANGED <<run, routes, sock, w, client, wire, sends, calls, strayed>>

PingFrame ==
    /\ Parsed("ping")
    /\ pc' = "pong"
    /\ StartWrite("conn", "pong")
    /\ UNCHANGED <<run, routes, sock, buf, client, wire, hist>>

Ponged ==
    /\ Returned("conn") /\ pc = "pong"
    /\ Return("conn")
    /\ buf' = Consume
    /\ pc' = "frames"
    /\ UNCHANGED <<run, routes, sock, client, wire, hist>>

\* Continuation frames and unknown opcodes: no branch is for them, and their
\* payload is dropped.
OtherFrame ==
    /\ Parsed("continuation") \/ Parsed("other")
    /\ buf' = Consume
    /\ UNCHANGED <<run, routes, pc, sock, w, client, wire, hist>>

\* A Close frame is answered unless one was sent before; the loop ends.
CloseFrame ==
    /\ Parsed("close")
    /\ IF ~sock.closed
       THEN pc' = "reply" /\ StartWrite("conn", "close") /\ UNCHANGED buf
       ELSE pc' = "close" /\ buf' = Consume /\ UNCHANGED w
    /\ UNCHANGED <<run, routes, sock, client, wire, hist>>

Replied ==
    /\ Returned("conn") /\ pc = "reply"
    /\ Return("conn")
    /\ sock' = [sock EXCEPT !.closed = TRUE]
    /\ buf' = Consume
    /\ pc' = "close"
    /\ UNCHANGED <<run, routes, client, wire, hist>>

\* The test of on_close after the loop.  It fails after every Close frame.
Announces == sock.on_close /\ ~sock.closed

FramesEof ==
    /\ At("frames") /\ ~try_parse_frame
    /\ net = <<>> /\ gone
    /\ IF Announces
       THEN pc' = "onclose" /\ calls' = calls + 1
       ELSE pc' = "close" /\ UNCHANGED calls
    /\ UNCHANGED <<run, routes, sock, buf, w, client, wire, sends, got, strayed>>

\* buf_free, close(fd) and return.
End ==
    /\ At("giveup") \/ At("close")
    /\ pc' = IF pc = "close" THEN "end" ELSE "refused"
    /\ buf' = <<>> /\ net' = <<>>
    /\ run' = "loop"
    /\ UNCHANGED <<routes, sock, w, gone, sent, wire, hist>>
-----------------------------------------------------------------------------
(* Jaguar code: x uses the socket object through ws_conn_call_method. *)

Uses(x) ==
    /\ InCode(x) /\ pc \in Serving \cup {"end"}
    /\ strayed' = (strayed \/ x # "conn")

\* ws.on("message", f), ws.on("close", f)
On(x, event) ==
    /\ Uses(x)
    /\ sock' = [sock EXCEPT ![event] = TRUE]
    /\ UNCHANGED <<run, routes, pc, buf, w, client, wire, sends, got, calls>>

\* ws.send(text)
Send(x) ==
    /\ Uses(x) /\ sends < MaxSends
    /\ ~sock.closed
    /\ StartWrite(x, "text")
    /\ sends' = sends + 1
    /\ UNCHANGED <<run, routes, pc, sock, buf, client, wire, got, calls>>

\* ws.close(): the flag is set when the Close frame is out.
Close(x) ==
    /\ Uses(x)
    /\ ~sock.closed
    /\ StartWrite(x, "close")
    /\ UNCHANGED <<run, routes, pc, sock, buf, client, wire, sends, got, calls>>

MethodReturns(x) ==
    /\ Returned(x) /\ (x = "conn" => pc \in Code)
    /\ Return(x)
    /\ sock' = [sock EXCEPT !.closed = @ \/ w[x].op = "close"]
    /\ UNCHANGED <<run, routes, pc, buf, client, wire, hist>>

\* socket.route, in a handler or a callback
ws_server_route(x, p) ==
    /\ InCode(x)
    /\ routes' = routes \cup {p}
    /\ UNCHANGED <<run, pc, sock, buf, w, client, wire, hist>>

\* Faulty variant: a frame that was handed to on_message stays in the buffer.
CallReturnsKeeps ==
    /\ InCode("conn")
    /\ pc' = IF pc = "onclose" THEN "close" ELSE "frames"
    /\ UNCHANGED <<run, routes, sock, buf, w, client, wire, hist>>

\* Faulty variant: the loop goes on after on_close, and meets the end again.
CallReturnsLoops ==
    /\ InCode("conn")
    /\ pc' = "frames"
    /\ buf' = IF pc = "message" THEN Consume ELSE buf
    /\ UNCHANGED <<run, routes, sock, w, client, wire, hist>>

\* interp_invoke_closure returns to ws_conn_entry.
CallReturns ==
    /\ InCode("conn")
    /\ pc' = IF pc = "onclose" THEN "close" ELSE "frames"
    /\ buf' = IF pc = "message" THEN Consume ELSE buf
    /\ UNCHANGED <<run, routes, sock, w, client, wire, hist>>

\* The loop runs a timer callback, or another connection's handler, and these return.
Elsewhere(x) ==
    /\ x # "conn" /\ w[x] = Idle
    /\ \/ run = "loop" /\ run' = x
       \/ run = x /\ run' = "loop"
    /\ UNCHANGED <<routes, pc, sock, buf, w, client, wire, hist>>
-----------------------------------------------------------------------------
Entry ==
    \/ \E n \in DOMAIN net : ReadHead(n) \/ ReadFrames(n)
    \/ \E p \in Path \cup {"missing"} : Handshake(p)
    \/ HeadEof \/ Rejected \/ Switched \/ ReadBlocks
    \/ TextFrame \/ PingFrame \/ Ponged \/ OtherFrame \/ CloseFrame \/ Replied
    \/ FramesEof \/ End

Next ==
    \/ Entry \/ CallReturns \/ Leave
    \/ \E x \in Ctx :
        \/ WriteSome(x) \/ WriteBlocks(x) \/ WriteFails(x) \/ WriteKills(x) \/ Resume(x)
        \/ Send(x) \/ Close(x) \/ MethodReturns(x) \/ Elsewhere(x)
        \/ \E e \in {"on_message", "on_close"} : On(x, e)
        \/ \E p \in Path : ws_server_route(x, p)
    \/ \E h \in RequestHead : SendRequest(h)
    \/ \E op \in DOMAIN PayloadLen : SendFrame(op)

Spec == Init /\ [][Next]_vars

\* The main thread runs, Jaguar code returns, and the reactor reports a ready
\* descriptor although other callbacks run in between (module Reactor).
Step(x) == WriteSome(x) \/ WriteFails(x) \/ MethodReturns(x) \/ (run = x /\ Elsewhere(x))

Fairness ==
    /\ WF_vars(Entry \/ CallReturns)
    /\ WF_vars(\E x \in Ctx : Step(x))
    /\ SF_vars(Resume("conn"))

FairSpec == Spec /\ Fairness
-----------------------------------------------------------------------------
(* Properties. *)

\* Every variable of the connection model keeps its type.
TypeOK ==
    /\ run \in Ctx \cup {"loop", "killed"}
    /\ routes \subseteq Path
    /\ pc \in Open \cup {"refused", "end"}
    /\ sock \in [closed : BOOLEAN, on_message : BOOLEAN, on_close : BOOLEAN]
    /\ w \in [Ctx -> [op : {"none", "101", "400", "text", "close", "pong"}, left : 0 .. 2]]
    /\ gone \in BOOLEAN /\ strayed \in BOOLEAN
    /\ sends \in 0 .. MaxSends /\ calls \in Nat
    /\ wire \in [half : Ctx \cup {"none"}, torn : BOOLEAN, close : BOOLEAN,
                 late : BOOLEAN, stale : BOOLEAN]

\* As long as a connection's socket object is used by its own handlers only,
\* what its client receives is a sequence of whole frames, however often the
\* writes suspend, with one Close at most and after it nothing but the answers
\* to the client's pings, and nothing is written once the descriptor is closed.
WholeFrames == ~strayed => ~wire.torn /\ ~wire.late /\ ~wire.stale

\* on_message gets the client's text frames in the order they were sent, none
\* twice and none left out between two that it gets, however recv() cuts the
\* stream, whatever other frames lie between and whoever else uses the socket.
\* Nothing is said of continuation frames: the code drops them (OtherFrame).
MessagesInOrder ==
    /\ \A i \in DOMAIN got : got[i] \in DOMAIN sent /\ sent[got[i]] = "text"
    /\ \A i \in DOMAIN got : i > 1 =>
        /\ got[i - 1] < got[i]
        /\ \A k \in got[i - 1] + 1 .. got[i] - 1 : sent[k] # "text"

\* on_close is called at most once, only when the client has gone, and it has
\* been called when a connection ends that has the callback and on which neither
\* side has closed.  Nothing is said of a connection that ends with a Close
\* frame (DisconnectAnnounced does, and fails).
CloseCallback ==
    ~strayed =>
        /\ calls <= 1
        /\ calls = 1 => gone
        /\ (pc = "end" /\ sock.on_close /\ ~sock.closed) => calls = 1

\* examples/websocket_chat.jag shows "close detection" with an on("close") that
\* logs "client disconnected": a client that closes an open connection by sending
\* a Close frame, as browsers do, is announced to the callback.
DisconnectAnnounced ==
    (pc = "reply" /\ sock.on_close) ~> (calls = 1 \/ run = "killed" \/ strayed)

\* The socket object as its handlers see it.
Socket == INSTANCE MessageSocket WITH
    Kind <- DOMAIN PayloadLen, closed <- sock.closed, lost <- calls

\* on_message is called for the next text frame only, with none left out or
\* repeated, and neither after the server has closed nor after on_close, which
\* is called once at most: whatever suspends, whoever closes, and also when code
\* elsewhere uses the socket object.  Continuation frames reach no handler.
ImplementsMessageSocket == Socket!Spec

\* When the client leaves, the coroutine returns and the descriptor is closed
\* (unless SIGPIPE kills the process), as long as no other code waits for it.
ClientGoneEnds == gone ~> (pc \notin Open \/ run = "killed" \/ strayed)
=============================================================================
