-------------------------------- MODULE Delivery --------------------------------
(***************************************************************************)
(* What a transfer promises: the operations of the files that are offered  *)
(* reach the other side once each, file by file and in order, and it is    *)
(* done when all of them have been received.  It may stop at any point.    *)
(***************************************************************************)
EXTENDS Integers, SequencesExt

CONSTANT End  \* marks the end of a file

VARIABLES
  offered,   \* the files the client has begun to send: path and operations
  received,  \* what the server has handled: path and operation, or path and End
  done       \* the server has all

dvars == <<offered, received, done>>

Flat(f) == [k \in 1..Len(f.ops) + 1 |->
              <<f.path, IF k <= Len(f.ops) THEN f.ops[k] ELSE End>>]

Stream == FoldLeft(LAMBDA s, f : s \o Flat(f), <<>>, offered)

Init == offered = <<>> /\ received = <<>> /\ done = FALSE

\* One file more.
Offer == /\ ~done
         /\ IsPrefix(offered, offered') /\ Len(offered') = Len(offered) + 1
         /\ UNCHANGED <<received, done>>

\* Several at once, as they come in a chunk.
Receive(n) == /\ n > Len(received)
              /\ received' = SubSeq(Stream, 1, n)
              /\ UNCHANGED <<offered, done>>

Finish == /\ ~done /\ received = Stream
          /\ done' = TRUE
          /\ UNCHANGED <<offered, received>>

Next == \/ Offer
        \/ \E n \in 1..Len(Stream) : Receive(n)
        \/ Finish

Spec == Init /\ [][Next]_dvars
=============================================================================
