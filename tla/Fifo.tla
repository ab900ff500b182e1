-------------------------------- MODULE Fifo --------------------------------
(***************************************************************************)
(* What the serial input promises its callers: every byte the line         *)
(* delivered is returned once, in the order of arrival, and "no character" *)
(* is reported only when there is none.  The buffer holds at most Capacity *)
(* bytes that were not returned yet.                                       *)
(***************************************************************************)
EXTENDS Integers, Sequences

CONSTANTS Bytes, NoChar, Capacity

VARIABLES
  queue,   \* the bytes received and not returned
  got      \* what the last call returned

Init == queue = <<>> /\ got = NoChar

Put == \E b \in Bytes :
         /\ Len(queue) < Capacity
         /\ queue' = Append(queue, b)
         /\ UNCHANGED got

Get ==
  /\ queue # <<>>
  /\ got' = Head(queue)
  /\ queue' = Tail(queue)

GetNothing ==
  /\ queue = <<>>
  /\ got' = NoChar
  /\ UNCHANGED queue

Next == Put \/ Get \/ GetNothing

Spec == Init /\ [][Next]_<<queue, got>>
=============================================================================
