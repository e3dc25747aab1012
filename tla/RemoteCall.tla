------------------------------ MODULE RemoteCall ------------------------------
(***************************************************************************)
(* What http.get and http.post promise, with no streams, no buffers and no *)
(* cut messages: a call of another process.  The request is accepted once, *)
(* as a whole if it is what it says; it is answered once, by its handler   *)
(* or because nothing handles it; and the caller, who may give up at any   *)
(* time, gets that answer, as a whole if it is what it says, or an error,  *)
(* once.  The other process may end.                                       *)
(***************************************************************************)
EXTENDS Integers, Sequences

CONSTANTS Request,   \* requests: their body, and cl, the length they announce
          Response,  \* answers: status, body, and cl, the length they announce
          NotFound,  \* the answer to a request that nothing handles
          Limit      \* longer bodies of answers may be cut

VARIABLES request,   \* what the caller asks
          stage,     \* "asked", "handled" or "unknown", and then "answered"
          given,     \* the part of the request's body that was accepted
          answer,    \* once it is answered
          caller,    \* "waits" or "done"
          result,    \* what the caller got: an error, or status and body
          crashed    \* the process that answers has ended

vars == <<request, stage, given, answer, caller, result, crashed>>

Honest == request.cl = Len(request.body)
First(n, s) == SubSeq(s, 1, n)

Init ==
    /\ request \in Request
    /\ stage = "asked" /\ given = <<>>
    /\ answer = [status |-> 0, body |-> <<>>, cl |-> 0]
    /\ caller = "waits" /\ result = [ok |-> FALSE]
    /\ crashed = FALSE

\* Only a request that misstates its length is accepted in part, and never less
\* of it than it announces.
Accept(n) ==
    /\ ~crashed /\ stage = "asked"
    /\ n >= request.cl /\ (Honest => n = Len(request.body))
    /\ stage' \in {"handled", "unknown"}
    /\ given' = First(n, request.body)
    /\ UNCHANGED <<request, answer, caller, result, crashed>>

Answer ==
    /\ ~crashed
    /\ stage = "handled" \/ (stage = "unknown" /\ answer' = NotFound)
    /\ stage' = "answered"
    /\ answer' \in Response
    /\ UNCHANGED <<request, given, caller, result, crashed>>

\* An honest request gets the whole answer, if it fits and the process lives on:
\* only one that announces less than it has is cut, and not below that.
Return(n) ==
    /\ caller = "waits" /\ stage = "answered"
    /\ Honest /\ ~crashed /\ Len(answer.body) <= Limit =>
        n = Len(answer.body) \/ n >= answer.cl
    /\ caller' = "done"
    /\ result' = [ok |-> TRUE, status |-> answer.status, body |-> First(n, answer.body)]
    /\ UNCHANGED <<request, stage, given, answer, crashed>>

\* The caller gets an error, or ends.
GiveUp ==
    /\ caller = "waits"
    /\ caller' = "done"
    /\ UNCHANGED <<request, stage, given, answer, result, crashed>>

Crash ==
    /\ ~crashed
    /\ crashed' = TRUE
    /\ UNCHANGED <<request, stage, given, answer, caller, result>>

Next ==
    \/ \E n \in 0 .. Len(request.body) : Accept(n)
    \/ Answer
    \/ \E n \in 0 .. Len(answer.body) : Return(n)
    \/ GiveUp \/ Crash

Spec == Init /\ [][Next]_vars
=============================================================================
