------------------------------ MODULE HttpConn ------------------------------
(***************************************************************************)
(* One HTTP exchange: the server's connection coroutine http_conn_entry    *)
(* and the client do_request, both of src/src/runtime/http.c, with a byte  *)
(* stream in each direction that recv() and send() cut anywhere.           *)
(*                                                                         *)
(* Bytes are units: a head is an opening unit and a closing unit with the  *)
(* fields, and a body is a sequence of numbers.  The client is do_request  *)
(* with any request, also one whose Content-Length does not fit its body,  *)
(* as other programs may send; it may go away at any time, and so may the  *)
(* server's process.  Other handlers, timers and workers share one error   *)
(* flag with the handler of this request.                                  *)
(***************************************************************************)
EXTENDS Integers, Sequences, SequencesExt

CONSTANTS Requests,  \* requests: method, path (segments), cl, body
          Tables,    \* route tables, newest first: method, pattern (segments)
          Param,     \* the pattern segments of the form {name}
          Bodies,    \* bodies handlers send
          Statuses,  \* codes handlers set
          Headers,   \* header fields handlers set: key, long, and len, the number
                     \* in a field that gives the length
          LengthKeys,\* the names that count as Content-Length (strcasecmp)
          MaxHeaders,\* the client's limit of 48 header fields
          MaxCalls,  \* bound: calls a handler makes on res
          MaxBuf,    \* the server's limit of 4 MiB, in units
          MaxResp,   \* the client's limit of 16 MiB, in units
          SizeMod    \* 2^64: the width of size_t, in units

ASSUME HttpAssumption ==
    /\ MaxCalls \in Nat
    /\ MaxBuf \in Nat /\ MaxResp \in Nat /\ SizeMod \in Nat /\ 2 * MaxBuf < SizeMod
    /\ \A r \in Requests :
        r \in [method : STRING, path : Seq(STRING), cl : -MaxBuf .. MaxBuf, body : Seq(STRING)]
    /\ \A t \in Tables : t \in Seq([method : STRING, pattern : Seq(STRING)])
    /\ <<>> \in Bodies /\ \A b \in Bodies : b \in Seq(STRING)
    /\ {200, 404} \subseteq Statuses
    /\ MaxHeaders \in Nat \ {0} /\ 2 * MaxResp < SizeMod
    /\ "Content-Length" \in LengthKeys
    /\ \A h \in Headers : h \in [key : STRING, len : Int, long : BOOLEAN]
                           /\ -SizeMod <= 2 * h.len /\ 2 * h.len < SizeMod

VARIABLES
    request,  \* what the client asks for
    routes,   \* g_routes
    err,      \* it->had_runtime_error
    pc,       \* where http_conn_entry is
    buf,      \* its Buf b
    seen,     \* req_val, once built: the route, params and body
    res,      \* res_val: status, body, headers
    out,      \* what net_write_all still has to send
    cpc,      \* where do_request is
    todo,     \* what its net_write_all still has to send
    cbuf,     \* its Buf resp
    result,   \* the Task it returns: an error, or status and body
    up, down, \* the streams to the server and to the client
    \* history
    ran,      \* the handler ran to its end
    calls,    \* calls the handler made on res
    crashed   \* the server's process has ended

server == <<pc, buf, seen, res, out, ran, calls>>
clientSide == <<cpc, todo, cbuf, result>>
vars == <<request, routes, err, server, clientSide, up, down, crashed>>

\* A head and its body.  find_header_end looks for the unit that closes it.
Message(head, body) == <<[head |-> "open"]>> \o <<head>> \o body
find_header_end(b) == IF Len(b) >= 2 THEN 2 ELSE 0
BodyOf(b) == SubSeq(b, 3, Len(b))

NotYet == [route |-> 0, params |-> {}, body |-> <<>>]
\* http_make_response
http_make_response == [status |-> 200, body |-> <<>>, headers |-> <<>>]

Init ==
    /\ request \in Requests
    /\ routes \in Tables
    /\ err = FALSE
    /\ pc = "read" /\ buf = <<>> /\ seen = NotYet /\ res = http_make_response /\ out = <<>>
    /\ cpc = "connect" /\ todo = <<>> /\ cbuf = <<>> /\ result = [ok |-> FALSE]
    /\ up = <<>> /\ down = <<>>
    /\ ran = FALSE /\ calls = 0 /\ crashed = FALSE

\* What each side sees of the other: the stream ends when it has closed.
ServerClosed == pc = "end" \/ crashed
ClientClosed == cpc \in {"done", "dead"}
-----------------------------------------------------------------------------
(* http_conn_entry: reading. *)

Serves(stage) == pc = stage /\ ~crashed

\* Faulty variant: the bytes of the head count for the body.
EnoughWithHead(b, cl) == Len(b) >= cl % SizeMod
\* Faulty variant: one byte more is waited for.
EnoughAndMore(b, cl) == Len(b) > (find_header_end(b) + cl) % SizeMod
\* content_length_of the head in b, as the sum of two size_t's with header_end
\* wraps around: a negative length is satisfied at once.
Enough(b, cl) == Len(b) >= (find_header_end(b) + cl) % SizeMod
Complete(b) == find_header_end(b) > 0 /\ Enough(b, b[2].cl)

\* net_read_some; a request that grows past the limit is dropped.
Read(n) ==
    /\ Serves("read") /\ ~Complete(buf)
    /\ n \in 1 .. Len(up)
    /\ buf' = buf \o SubSeq(up, 1, n)
    /\ up' = SubSeq(up, n + 1, Len(up))
    /\ pc' = IF Len(buf') > MaxBuf THEN "end" ELSE pc
    /\ UNCHANGED <<request, routes, err, seen, res, out, ran, calls, clientSide, down, crashed>>

ReadEof ==
    /\ Serves("read") /\ ~Complete(buf)
    /\ up = <<>> /\ ClientClosed
    /\ pc' = "end"
    /\ UNCHANGED <<request, routes, err, buf, seen, res, out, ran, calls, clientSide, up, down, crashed>>
-----------------------------------------------------------------------------
(* http_conn_entry: routing and the handler. *)

\* One turn of match_route's loop over the routes.  strtok_r drops empty
\* segments, so paths and patterns are sequences of segments.
Matches(r, method, path) ==
    /\ r.method = method
    /\ Len(r.pattern) = Len(path)
    /\ \A i \in DOMAIN path : r.pattern[i] \in Param \/ r.pattern[i] = path[i]

\* Faulty variant: params_out is filled while a route is tried.
CapturesTried(i, path) ==
    UNION {{<<routes[k].pattern[j], path[j]>> :
                j \in {j \in DOMAIN path \cap DOMAIN routes[k].pattern : routes[k].pattern[j] \in Param}}
           : k \in 1 .. i}
\* params_out: what the matching route captures, and nothing of routes that
\* were tried before it.
Captures(i, path) ==
    {<<routes[i].pattern[j], path[j]>> : j \in {j \in DOMAIN path : routes[i].pattern[j] \in Param}}

\* match_route: the newest route that matches, or 0.
match_route(method, path) ==
    LET fit == {i \in DOMAIN routes : Matches(routes[i], method, path)}
    IN IF fit = {} THEN 0 ELSE Min(fit)

\* parse_request, and req_val: the body is all that has been read.
Route ==
    /\ Serves("read") /\ Complete(buf)
    /\ LET i == match_route(buf[2].method, buf[2].path) IN
        /\ seen' = [route |-> i, body |-> BodyOf(buf),
                    params |-> IF i = 0 THEN {} ELSE Captures(i, buf[2].path)]
        /\ IF i = 0
           THEN pc' = "respond" /\ res' = [res EXCEPT !.status = 404, !.body = <<"Not Found">>]
           ELSE pc' = "handler" /\ UNCHANGED res
    /\ UNCHANGED <<request, routes, err, buf, out, ran, calls, clientSide, up, down, crashed>>

\* A statement of the handler: none runs while the flag is set.
Statement ==
    /\ Serves("handler") /\ ~err /\ calls < MaxCalls
    /\ calls' = calls + 1
    /\ UNCHANGED <<request, routes, err, pc, buf, seen, out, ran, clientSide, up, down, crashed>>

\* value_data_set on the headers: a field keeps its place, a new one comes first.
JsonType == [key |-> "Content-Type", len |-> 0, long |-> FALSE]
SetField(hs, h) ==
    IF \E i \in DOMAIN hs : hs[i].key = h.key
    THEN [i \in DOMAIN hs |-> IF hs[i].key = h.key THEN h ELSE hs[i]]
    ELSE <<h>> \o hs

\* http_response_call_method
Send(b) == Statement /\ res' = [res EXCEPT !.body = b]
Json(b) == Statement /\ res' = [res EXCEPT !.body = b, !.headers = SetField(@, JsonType)]
Status(s) == Statement /\ res' = [res EXCEPT !.status = s]
Header(h) == Statement /\ res' = [res EXCEPT !.headers = SetField(@, h)]

\* The handler fails, or another handler, a timer callback or a worker does:
\* nothing outside a try statement resets the flag.
Fails ==
    /\ ~err /\ ~crashed
    /\ err' = TRUE
    /\ UNCHANGED <<request, routes, server, clientSide, up, down, crashed>>

\* interp_invoke_closure returns; with the flag set it has skipped the rest.
HandlerReturns ==
    /\ Serves("handler")
    /\ pc' = "respond"
    /\ ran' = ~err
    /\ UNCHANGED <<request, routes, err, buf, seen, res, out, calls, clientSide, up, down, crashed>>
-----------------------------------------------------------------------------
(* http_conn_entry: the response. *)

\* The fields of the head: those of the handler, and then the length of the body.
Fields(r) ==
    Append(r.headers, [key |-> "Content-Length", len |-> Len(r.body), long |-> FALSE])

\* Each is written through a buffer of 256 bytes.  One that is longer loses the
\* end of its line, and to a reader the next one is a part of it.
Lines(fs) == {i \in DOMAIN fs : i = 1 \/ ~fs[i - 1].long}

\* parse_request keeps so many lines only, and get_header takes the first of the
\* name: the length the client reads in the answer, or 0 if it finds none.
content_length_of(r) ==
    LET fs == Fields(r)
        found == {i \in Lines(fs) :
                    fs[i].key \in LengthKeys /\ Cardinality(Lines(fs) \cap 1 .. i) <= MaxHeaders}
    IN IF found = {} THEN 0 ELSE fs[Min(found)].len

Respond ==
    /\ Serves("respond")
    /\ pc' = "write"
    /\ out' = Message([status |-> res.status, cl |-> content_length_of(res)], res.body)
    /\ UNCHANGED <<request, routes, err, buf, seen, res, ran, calls, clientSide, up, down, crashed>>

\* net_write_all.  Its result is ignored; SIGPIPE is not.
Write(n) ==
    /\ Serves("write") /\ n \in DOMAIN out
    /\ down' = IF ClientClosed THEN down ELSE down \o SubSeq(out, 1, n)
    /\ out' = SubSeq(out, n + 1, Len(out))
    /\ UNCHANGED <<request, routes, err, pc, buf, seen, res, ran, calls, clientSide, up, crashed>>

WriteFails ==
    /\ Serves("write") /\ out # <<>> /\ ClientClosed
    /\ out' = <<>>
    /\ UNCHANGED <<request, routes, err, pc, buf, seen, res, ran, calls, clientSide, up, down, crashed>>

\* close(fd).  If the client sent more than was read, the connection is reset and
\* the client may lose what it has not received.
End ==
    /\ Serves("write") /\ out = <<>>
    /\ pc' = "end"
    /\ down' \in IF up = <<>> THEN {down} ELSE {down, <<>>}
    /\ UNCHANGED <<request, routes, err, buf, seen, res, out, ran, calls, clientSide, up, crashed>>

\* The process ends, for one because a write raised SIGPIPE.
Crash ==
    /\ ~crashed
    /\ crashed' = TRUE
    /\ UNCHANGED <<request, routes, err, server, clientSide, up, down>>
-----------------------------------------------------------------------------
(* do_request. *)

\* A bad URL, https, or no connection: an error, and nothing is sent.
ConnectFails ==
    /\ cpc = "connect"
    /\ cpc' = "done"
    /\ UNCHANGED <<request, routes, err, server, todo, cbuf, result, up, down, crashed>>

Connect ==
    /\ cpc = "connect" /\ ~crashed
    /\ cpc' = "send"
    /\ todo' = Message([method |-> request.method, path |-> request.path, cl |-> request.cl], request.body)
    /\ UNCHANGED <<request, routes, err, server, cbuf, result, up, down, crashed>>

ClientWrite(n) ==
    /\ cpc = "send" /\ n \in DOMAIN todo
    /\ up' = IF ServerClosed THEN up ELSE up \o SubSeq(todo, 1, n)
    /\ todo' = SubSeq(todo, n + 1, Len(todo))
    /\ cpc' = IF n = Len(todo) THEN "recv" ELSE cpc
    /\ UNCHANGED <<request, routes, err, server, cbuf, result, down, crashed>>

ClientWriteFails ==
    /\ cpc = "send" /\ ServerClosed
    /\ cpc' = "done"
    /\ UNCHANGED <<request, routes, err, server, todo, cbuf, result, up, down, crashed>>

\* Faulty variant: the head is enough, as if every response were empty.
HasAllHead(b) == find_header_end(b) > 0
\* A response without Content-Length, or with 0, is complete with its head.  The
\* sum wraps around as the server's does.
HasAll(b) ==
    /\ find_header_end(b) > 0
    /\ b[2].cl = 0 \/ Len(b) >= (find_header_end(b) + b[2].cl) % SizeMod

Return(found, b) ==
    /\ cpc' = "done"
    /\ result' = IF found THEN [ok |-> TRUE, status |-> b[2].status, body |-> BodyOf(b)] ELSE [ok |-> FALSE]

\* net_read_some.  Past the limit the client makes do with what it has, and with
\* what it knew of the head before.
ClientRead(n) ==
    /\ cpc = "recv" /\ ~HasAll(cbuf)
    /\ n \in 1 .. Len(down)
    /\ cbuf' = cbuf \o SubSeq(down, 1, n)
    /\ down' = SubSeq(down, n + 1, Len(down))
    /\ IF Len(cbuf') > MaxResp THEN Return(find_header_end(cbuf) > 0, cbuf') ELSE UNCHANGED <<cpc, result>>
    /\ UNCHANGED <<request, routes, err, server, todo, up, crashed>>

\* All is there, or the connection was closed: whatever there is is final.
ClientReturns ==
    /\ cpc = "recv"
    /\ HasAll(cbuf) \/ (down = <<>> /\ ServerClosed)
    /\ Return(find_header_end(cbuf) > 0, cbuf)
    /\ UNCHANGED <<request, routes, err, server, todo, cbuf, up, down, crashed>>

\* The client's process ends.
ClientDies ==
    /\ cpc \in {"send", "recv"}
    /\ cpc' = "dead"
    /\ UNCHANGED <<request, routes, err, server, todo, cbuf, result, up, down, crashed>>
-----------------------------------------------------------------------------
ServerStep ==
    \/ \E n \in DOMAIN up : Read(n)
    \/ ReadEof \/ Route \/ HandlerReturns \/ Respond \/ WriteFails \/ End
    \/ \E n \in DOMAIN out : Write(n)
HandlerStep ==
    \/ \E b \in Bodies : Send(b) \/ Json(b)
    \/ \E s \in Statuses : Status(s)
    \/ \E h \in Headers : Header(h)
ClientStep ==
    \/ ConnectFails \/ Connect \/ ClientWriteFails \/ ClientReturns
    \/ \E n \in DOMAIN todo : ClientWrite(n)
    \/ \E n \in DOMAIN down : ClientRead(n)

Next == ServerStep \/ HandlerStep \/ ClientStep \/ Fails \/ Crash \/ ClientDies

Spec == Init /\ [][Next]_vars

\* Both processes run, handlers return, and the streams deliver.
FairSpec == Spec /\ WF_vars(ServerStep) /\ WF_vars(ClientStep)
-----------------------------------------------------------------------------
(* Properties. *)

Honest == request.cl = Len(request.body)

\* Every variable of the exchange keeps its type.
TypeOK ==
    /\ request \in Requests /\ routes \in Tables
    /\ err \in BOOLEAN /\ ran \in BOOLEAN /\ crashed \in BOOLEAN
    /\ pc \in {"read", "handler", "respond", "write", "end"}
    /\ cpc \in {"connect", "send", "recv", "done", "dead"}
    /\ res \in [status : Statuses, body : Bodies \cup {<<"Not Found">>},
                headers : Seq(Headers \cup {JsonType})]
    /\ seen.route \in 0 .. Len(routes)
    /\ result.ok \in BOOLEAN
    /\ calls \in 0 .. MaxCalls

\* However the streams are cut, a request's handler sees the start of the body
\* its client sent, at least as much of it as was announced, and exactly the
\* body if its length is what Content-Length says.
BodyWhole ==
    pc # "read" /\ seen # NotYet =>
        /\ IsPrefix(seen.body, request.body)
        /\ request.cl >= 0 => Len(seen.body) >= request.cl
        /\ Honest => seen.body = request.body

\* A handler's params are those of its own pattern: routes that were tried
\* first, and matched a part of the path, leave nothing behind.
ParamsOfRoute ==
    seen.route # 0 =>
        {p[1] : p \in seen.params} = Range(routes[seen.route].pattern) \cap Param

\* The handler has left the length of its answer to the server: it has set no
\* Content-Length itself, no field too long for a line and not too many fields.
PlainHeaders(hs) ==
    /\ Len(hs) < MaxHeaders
    /\ \A i \in DOMAIN hs : hs[i].key \notin LengthKeys /\ ~hs[i].long

\* What http.get returns is what the handler made of res, with the status it set
\* and the body it sent last.  The body may be cut short only if the server's
\* process ended, the response is too long for the client, the request was not
\* what its Content-Length says, or header fields of the handler hide the length.
RoundTrip ==
    result.ok =>
        /\ result.status = res.status
        /\ IsPrefix(result.body, res.body)
        /\ Honest /\ ~crashed /\ 2 + Len(res.body) <= MaxResp /\ PlainHeaders(res.headers)
           => result.body = res.body

\* The exchange as its caller sees it.  A request that no route fits leaves the
\* status 404 behind, one that is dropped leaves nothing.
Accepted == seen.route # 0 \/ res.status = 404
Final == Accepted /\ pc \in {"write", "end"}
NotFound == [status |-> 404, body |-> <<"Not Found">>, cl |-> 1]

Unanswered == [status |-> 0, body |-> <<>>, cl |-> 0]

Call == INSTANCE RemoteCall WITH
    Request <- Requests,
    Response <- [status : Statuses, body : Bodies \cup {NotFound.body}, cl : Int],
    Limit <- MaxResp - 2,
    stage <- IF ~Accepted THEN "asked" ELSE IF Final THEN "answered"
             ELSE IF seen.route = 0 THEN "unknown" ELSE "handled",
    given <- seen.body,
    answer <- IF Final
              THEN [status |-> res.status, body |-> res.body, cl |-> content_length_of(res)]
              ELSE Unanswered,
    caller <- IF ClientClosed THEN "done" ELSE "waits"

\* One request is handled once and answered once, and http.get returns that
\* answer, with the status of its handler or the 404 of match_route: wherever
\* the streams are cut, whichever side goes away, whatever handlers fail and
\* whatever header fields they set.  Of an answer whose fields give another
\* length the client gets as much as they say at least.
ImplementsRemoteCall == Call!Spec

\* A request that is what it says gets its answer: http.get returns, whatever
\* handlers fail and whether the server's process ends or not.
TaskReturns == Honest ~> ClientClosed
=============================================================================
