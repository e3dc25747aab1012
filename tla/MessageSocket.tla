----------------------------- MODULE MessageSocket -----------------------------
(***************************************************************************)
(* What a WebSocket connection promises to the handlers that use its       *)
(* socket object, with no bytes, no buffers and no suspended writes: the   *)
(* client's text and binary frames come in order and without gaps from the *)
(* first one on, closing is final and ends them, and the client's          *)
(* disappearance is announced at most once, as the last thing.  It is less *)
(* than the documents promise: frames of other kinds, continuation frames  *)
(* among them, reach no handler, since the code drops them.                *)
(***************************************************************************)
EXTENDS Naturals, Sequences

CONSTANT Kind       \* the kinds of frames a client may send

VARIABLES sent,     \* the client's request head and frames, by kind
          got,      \* the text frames handed to on_message, by number
          closed,   \* the server has sent a Close frame
          lost      \* how often on_close was called

vars == <<sent, got, closed, lost>>

Init ==
    /\ sent = <<>> /\ got = <<>>
    /\ closed = FALSE /\ lost = 0

Connect ==
    /\ sent = <<>>
    /\ sent' = <<"head">>
    /\ UNCHANGED <<got, closed, lost>>

SendFrame(k) ==
    /\ sent # <<>>
    /\ sent' = Append(sent, k)
    /\ UNCHANGED <<got, closed, lost>>

\* Text frame i is the next one after the last that was handed over.
IsNext(i) ==
    /\ i \in DOMAIN sent /\ sent[i] = "text"
    /\ got # <<>> =>
        /\ got[Len(got)] < i
        /\ \A k \in got[Len(got)] + 1 .. i - 1 : sent[k] # "text"

Deliver(i) ==
    /\ ~closed /\ lost = 0
    /\ IsNext(i)
    /\ got' = Append(got, i)
    /\ UNCHANGED <<sent, closed, lost>>

Close ==
    /\ ~closed
    /\ closed' = TRUE
    /\ UNCHANGED <<sent, got, lost>>

Lose ==
    /\ lost = 0
    /\ lost' = 1
    /\ UNCHANGED <<sent, got, closed>>

Next ==
    \/ Connect \/ Close \/ Lose
    \/ \E k \in Kind : SendFrame(k)
    \/ \E i \in DOMAIN sent : Deliver(i)

Spec == Init /\ [][Next]_vars
=============================================================================
