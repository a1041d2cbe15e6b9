------------------------------ MODULE MsgChannel ------------------------------
(***************************************************************************)
(* What the record-marking codec promises its user: a reliable FIFO        *)
(* channel of whole messages. The application queues messages, each is    *)
(* sent once, and the peer receives every sent message, unchanged and in  *)
(* the order it was sent.                                                  *)
(***************************************************************************)
EXTENDS Naturals, Sequences

CONSTANTS
    Msgs,       \* the messages the application may send
    NumSends    \* how many it sends

VARIABLES
    queued,     \* the messages the application has still to send, in order
    inTransit,  \* the messages sent and not yet received, in order
    received    \* the messages the peer has received, in order

vars == <<queued, inTransit, received>>

Init ==
    /\ queued \in [1..NumSends -> Msgs]
    /\ inTransit = <<>>
    /\ received = <<>>

Send ==
    /\ queued # <<>>
    /\ inTransit' = Append(inTransit, Head(queued))
    /\ queued' = Tail(queued)
    /\ UNCHANGED received

Deliver ==
    /\ inTransit # <<>>
    /\ received' = Append(received, Head(inTransit))
    /\ inTransit' = Tail(inTransit)
    /\ UNCHANGED queued

Next == Send \/ Deliver

\* Every queued message is eventually sent, and every sent one received.
Spec == Init /\ [][Next]_vars /\ WF_vars(Send) /\ WF_vars(Deliver)
===============================================================================
