-------------------------------- MODULE LogFile --------------------------------
(***************************************************************************)
(* One epoch of the log on disk: logGeneric() appends records with one     *)
(* write() each and does not look back, loadLog() reads them.  A write may *)
(* be short, memory may be short, the machine may go down and take what    *)
(* was not on disk with it (the log is not opened with O_SYNC); a file     *)
(* system that is started again goes on where the file ends.               *)
(***************************************************************************)
EXTENDS Framing, LogRecords

CONSTANTS
  Records,    \* what the file system may record
  Junk,       \* a record that is read where there is none
  MaxRecords  \* bound: records of the epoch

ASSUME LogFileAssumption == /\ MaxRecords \in Nat
                            /\ Records \subseteq {r \in Recs : JustLogged(r.op)}
                            /\ Null \notin Recs \union Ops
ASSUME JunkAssumption == Junk \in Recs

VARIABLES
  file,    \* the log
  buffer,  \* packMessage()'s in the file system
  fsup,    \* the file system runs
  stage,   \* "record", "load", "loaded", "failed" or "crashed"
  pos,     \* where loadLog() has come to
  loaded,  \* the records it has read
  \* history
  tries,   \* operations executed
  whole,   \* records in front of the first damage, with the place where each ends
  damage,  \* where something else than a whole record begins, or -1
  unread   \* a call that loadLog() makes has failed

lvars == <<file, buffer, fsup, stage, pos, loaded, tries, whole, damage, unread>>
reader == <<stage, pos, loaded, unread>>

LInit == /\ file = <<>> /\ buffer = NoBuffer /\ fsup = TRUE
         /\ stage = "record" /\ pos = 0 /\ loaded = <<>>
         /\ tries = 0 /\ whole = <<>> /\ damage = -1 /\ unread = FALSE

-----------------------------------------------------------------------------
(* The file system.                                                        *)

Recording == stage = "record" /\ fsup /\ tries < MaxRecords

\* What is in the file after some cells have been written to its end.
Appended(r, cells) ==
  /\ file' = file \o cells
  /\ IF cells = Frame(PackFileOperation(r)) /\ damage = -1
     THEN whole' = Append(whole, [rec |-> r, end |-> Len(file')]) /\ UNCHANGED damage
     ELSE /\ damage' = IF damage = -1 /\ cells # <<>> THEN Len(file) ELSE damage
          /\ UNCHANGED whole

\* Mutant: the length is written with a record of its own size less.
LogGenericUncounted(r) ==
  LET cells == PackFileOperation(r)
      n == PackedSize(cells)
  IN  /\ Recording /\ tries' = tries + 1
      /\ PackResult(buffer, n, TRUE) = "packed"
      /\ buffer' = Reserved(buffer, n, TRUE)
      /\ file' = file \o Header(n - 1) \o cells
      /\ whole' = Append(whole, [rec |-> r, end |-> Len(file')])
      /\ UNCHANGED <<fsup, reader, damage, faults>>

\* logGeneric(): the result of packMessage() is not looked at, and when it failed
\* buf and msglen are whatever was in memory.
LogGeneric(r) == \E ok \in BOOLEAN, n \in 0..Len(Frame(PackFileOperation(r))) :
  LET cells == Frame(PackFileOperation(r))
      size == PackedSize(PackFileOperation(r))
      result == PackResult(buffer, size, ok)
      short == result = "packed" /\ n < Len(cells)
  IN  /\ Recording
      /\ tries' = tries + 1
      /\ Outcome(ok /\ ~short)
      /\ ~ok => result = "failed"
      /\ buffer' = Reserved(buffer, size, ok)
      /\ fsup' = (result # "crashed")
      /\ CASE result = "packed" -> Appended(r, SubSeq(cells, 1, n))
           [] result = "failed" -> n <= 1 /\ Appended(r, [k \in 1..n |-> <<"memory", k>>])
           [] result = "crashed" -> n = 0 /\ Appended(r, <<>>)
      /\ UNCHANGED reader

\* The machine goes down and the file keeps n cells, the first m whole records with
\* them.
GoDown(n) == \E m \in 0..Len(whole) :
  LET last == IF m = 0 THEN 0 ELSE whole[m].end
  IN  /\ stage = "record" /\ Outcome(FALSE)
      /\ n \in 0..Len(file)
      /\ \A k \in DOMAIN whole : k <= m <=> whole[k].end <= n
      /\ file' = SubSeq(file, 1, n)
      /\ whole' = SubSeq(whole, 1, m)
      /\ damage' = IF damage # -1 /\ damage < n THEN damage
                   ELSE IF last = n THEN -1 ELSE last
      /\ fsup' = FALSE
      /\ UNCHANGED <<buffer, reader, tries>>

\* openOpLog() in a new process.
Mount == /\ ~fsup
         /\ fsup' = TRUE /\ buffer' = NoBuffer
         /\ UNCHANGED <<file, reader, tries, whole, damage, faults>>

-----------------------------------------------------------------------------
(* The client, after the log has been switched.                            *)

Switched == /\ stage = "record" /\ fsup
            /\ stage' = "load"
            /\ UNCHANGED <<file, buffer, fsup, pos, loaded, tries, whole, damage, unread, faults>>

\* The length that is read where there is no header is any number.
LengthAt(k) ==
  LET cells == SubSeq(file, k + 1, k + HeaderSize)
  IN  IF cells[1][1] = "length_high" /\ cells = Header(cells[1][2]) THEN {cells[1][2]}
      ELSE 0..Len(file)

\* What unpacking may make of a part of the file: parts of several records are
\* not a message or some other one.
Unpacked(cells) ==
  IF \E c \in ToSet(cells) : IsHeader(c) \/ c[1] = "memory" THEN {Null, Junk}
  ELSE {UnpackFileOperation(cells)}

\* Fewer than four bytes are the end of the log, a short message is an error and
\* one that cannot be unpacked is used all the same.
LoadRecord ==
  /\ stage = "load"
  /\ IF Len(file) - pos < HeaderSize
     THEN stage' = "loaded" /\ UNCHANGED <<pos, loaded>>
     ELSE \E n \in LengthAt(pos) :
            IF n > Len(file) - pos - HeaderSize
            THEN stage' = "failed" /\ UNCHANGED <<pos, loaded>>
            ELSE LET start == pos + HeaderSize
                 IN  \E r \in Unpacked(SubSeq(file, start + 1, start + n)) :
                       /\ pos' = start + n
                       /\ IF r = Null
                          THEN stage' = "crashed" /\ UNCHANGED loaded
                          ELSE loaded' = Append(loaded, r) /\ UNCHANGED stage
  /\ UNCHANGED <<file, buffer, fsup, tries, whole, damage, unread, faults>>

\* A read() of the length that fails ends the loop as the end of the log does.  When
\* the memory for a message or for its operation is refused, or the message cannot
\* be read, loadLog() fails; when none is left to unpack the message in, the result
\* is used all the same.
LoadFails ==
  /\ stage = "load" /\ Outcome(FALSE)
  /\ \/ stage' = "loaded"
     \/ /\ Len(file) - pos >= HeaderSize
        /\ stage' = "failed"
     \/ /\ Len(file) - pos >= HeaderSize
        /\ \E n \in LengthAt(pos) : n <= Len(file) - pos - HeaderSize
        /\ stage' = "crashed"
  /\ unread' = TRUE
  /\ UNCHANGED <<file, buffer, fsup, pos, loaded, tries, whole, damage>>

LNext == \/ \E r \in Records : LogGeneric(r)
         \/ \E n \in 0..Len(file) : GoDown(n)
         \/ Mount
         \/ Switched
         \/ LoadRecord
         \/ LoadFails

-----------------------------------------------------------------------------
(* Properties.                                                             *)

Kept == [k \in DOMAIN whole |-> whole[k].rec]

\* What loadLog() makes of the log: what it has read is what was recorded, in
\* order, up to the place where a write was short or a crash has cut the file.
\* Unless a call it makes itself fails, a log without such a place loads to the end,
\* and one with it only if less than a header is left of the record there.  (When
\* read() fails the epoch ends there for the client, and the rest of it is lost.)
LoadsWhatWasRecorded ==
  LET n == IF Len(loaded) < Len(whole) THEN Len(loaded) ELSE Len(whole)
  IN  /\ SubSeq(loaded, 1, n) = SubSeq(Kept, 1, n)
      /\ Len(loaded) > Len(whole) => damage # -1
      /\ ~unread =>
           /\ damage = -1 => stage \notin {"failed", "crashed"}
           /\ stage = "loaded" => Len(loaded) >= Len(whole)
           /\ stage = "loaded" /\ Len(loaded) = Len(whole) /\ damage # -1
                => Len(file) - damage < HeaderSize
=============================================================================
