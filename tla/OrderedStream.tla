----------------------------- MODULE OrderedStream -----------------------------
(***************************************************************************)
(* What the sending side of a connection promises: whole messages are      *)
(* accepted one after the other, their bytes reach the socket in that      *)
(* order with nothing left out, repeated or mixed, the end of the stream   *)
(* comes after everything accepted before it, and what was accepted is     *)
(* delivered unless the connection breaks.  Breaking ends the obligation   *)
(* to deliver, not the order.                                              *)
(***************************************************************************)
EXTENDS Naturals, Sequences

CONSTANT Messages   \* the byte strings that may be sent

VARIABLES delivered,  \* bytes the socket has taken
          queue,      \* bytes accepted and not delivered
          closing,    \* the end of the stream was asked for
          fin,        \* the end of the stream was sent
          broken      \* the peer is gone or the connection closed

abstractVars == <<delivered, queue, closing, fin, broken>>

Init == delivered = <<>> /\ queue = <<>> /\ closing = FALSE /\ fin = FALSE /\ broken = FALSE

\* the bytes all in order, k of them now delivered
Split(all, k) == delivered' = SubSeq(all, 1, k) /\ queue' = SubSeq(all, k + 1, Len(all))

\* a message is accepted; some bytes may go out at once
Send(m) ==
  /\ ~fin \/ broken
  /\ \E k \in Len(delivered)..(Len(delivered) + Len(queue) + Len(m)) :
       Split(delivered \o queue \o m, k)
  /\ fin => UNCHANGED delivered
  /\ UNCHANGED <<closing, fin, broken>>

Deliver ==
  /\ ~fin /\ queue # <<>>
  /\ \E k \in (Len(delivered) + 1)..(Len(delivered) + Len(queue)) :
       /\ Split(delivered \o queue, k)
       \* the last bytes may take the end of the stream with them
       /\ fin' = TRUE => closing /\ queue' = <<>>
  /\ fin' \in BOOLEAN
  /\ UNCHANGED <<closing, broken>>

Shutdown == ~closing /\ closing' = TRUE /\ UNCHANGED <<delivered, queue, fin, broken>>

Fin ==
  /\ closing /\ ~fin
  /\ queue = <<>> \/ broken
  /\ fin' = TRUE
  /\ UNCHANGED <<delivered, queue, closing, broken>>

Break ==
  /\ ~broken /\ broken' = TRUE
  /\ closing' \in {closing, TRUE}
  /\ UNCHANGED <<delivered, queue, fin>>

Next == (\E m \in Messages : Send(m)) \/ Deliver \/ Shutdown \/ Fin \/ Break

\* While the connection lasts the queue is emptied (senders pause now and then)
\* and an end of the stream that was asked for is sent.
Live == /\ (queue # <<>>) ~> (queue = <<>> \/ broken)
        /\ closing ~> (fin \/ broken)

Spec == Init /\ [][Next]_abstractVars /\ Live

=============================================================================
