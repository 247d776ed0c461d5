-------------------------------- MODULE Framing --------------------------------
(***************************************************************************)
(* Messages on a log file or a socket (message_functions.c): four bytes    *)
(* with the length, here two cells so that a write can end between them,   *)
(* and the packed message.  packMessage() uses one buffer for all messages *)
(* of a process; the memory it asks for may not be had.                    *)
(***************************************************************************)
EXTENDS Messages

CONSTANT MaxFaults  \* bound: things that go wrong

ASSUME FaultsAssumption == MaxFaults \in Nat

VARIABLE faults  \* how many have gone wrong

HeaderSize == 2
Header(n) == <<<<"length_high", n>>, <<"length_low", n>>>>
Frame(cells) == Header(PackedSize(cells)) \o cells
IsHeader(c) == c[1] \in {"length_high", "length_low"}

\* Whether a call does what it is asked for.
Outcome(ok) == /\ ~ok => faults < MaxFaults
               /\ faults' = IF ok THEN faults ELSE faults + 1

-----------------------------------------------------------------------------
(* packMessage(): what has been allocated (0 when bufbegin is NULL) and    *)
(* totallen, which it takes for the size of the buffer.                    *)

NoBuffer == [allocated |-> 0, totallen |-> 0]

Grows(b, n) == n + HeaderSize > b.totallen

\* Mutant: a buffer that is there is always taken to be large enough.
ReservedOnce(b, n, ok) ==
  IF b.allocated = 0 /\ ok
  THEN [allocated |-> n + HeaderSize, totallen |-> n + HeaderSize]
  ELSE [b EXCEPT !.totallen = n + HeaderSize]

Reserved(b, n, ok) ==
  CASE Grows(b, n) /\ ok -> [allocated |-> n + HeaderSize, totallen |-> n + HeaderSize]
    [] Grows(b, n) /\ ~ok -> [b EXCEPT !.allocated = 0]
    [] ~Grows(b, n) -> [b EXCEPT !.totallen = n + HeaderSize]

\* After an allocation has failed the next message that would have fitted is
\* written through NULL.
PackResult(b, n, ok) ==
  CASE Grows(b, n) -> IF ok THEN "packed" ELSE "failed"
    [] ~Grows(b, n) /\ b.allocated = 0 -> "crashed"
    [] OTHER -> "packed"

\* The buffer is as large as packMessage() takes it to be.
Holds(b) == b.allocated # 0 => b.totallen <= b.allocated
=============================================================================
