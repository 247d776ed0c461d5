-------------------------------- MODULE Pipeline --------------------------------
(***************************************************************************)
(* An epoch from the file system to the server: LogFile up to the end of   *)
(* loadLog(), the tables of Compaction made of what it has read, and       *)
(* Transfer.  What becomes of operations that add and drop names, which    *)
(* the tables merge, and what all of them do to a tree, is the subject of  *)
(* Mirroring.                                                              *)
(***************************************************************************)
EXTENDS LogFile, Transfer

\* Operations as they are sent, with the data of writes.
SentOps == Ops \union [id : Nat, type : {"WRITE"}, offset : Nat, size : Nat \ {0},
                       data : Seq(Paths \X Nat)]

ASSUME PipelineAssumption == Null \notin SentOps /\ End \notin SentOps

pvars == <<lvars, tvars, faults>>

PInit == LInit /\ TInit /\ faults = 0

\* addOperation() for each record.
Tables == FoldLeft(LAMBDA tb, r : AddOperation(tb, r.path, r.op), EmptyTables, loaded)

Record == LNext /\ UNCHANGED tvars

Connect == /\ stage = "loaded" /\ phase = "off"
           /\ \E tb \in {Tables} : StartTransfer(tb)
           /\ UNCHANGED lvars

ClientStep == Client /\ UNCHANGED lvars
ServerStep == Server /\ UNCHANGED lvars
Breaks == Break /\ UNCHANGED lvars

PNext == Record \/ Connect \/ ClientStep \/ ServerStep \/ Breaks

\* The client and the server go on as long as one of them can; nothing has to go wrong,
\* and the file system records nothing it does not have to.
Progress == (LoadRecord /\ UNCHANGED tvars) \/ Connect \/ ClientStep \/ ServerStep

PSpec == PInit /\ [][PNext]_pvars
PFairSpec == PSpec /\ WF_pvars(Progress)

-----------------------------------------------------------------------------
(* Properties.                                                             *)

\* Every variable has its type; the client has no file open before the first one,
\* the server none between two.
PTypeOK ==
  /\ stage \in {"record", "load", "loaded", "failed", "crashed"} /\ pos \in 0..Len(file)
  /\ unread \in BOOLEAN
  /\ fsup \in BOOLEAN /\ faults \in 0..MaxFaults /\ damage \in -1..Len(file)
  /\ phase \in Phases /\ connected \in BOOLEAN
  /\ server \in {"off", "receive", "done", "failed"} /\ handled \in 0..nfiles
  /\ stored \in Paths \union {Nowhere} /\ fd \in Paths \union {Nowhere, Gone}
  /\ sfd \in Paths \union {Nowhere}
  /\ phase # "off" => stage = "loaded"
  /\ offered = <<>> => fd = Nowhere
  /\ received # <<>> /\ Last(received).op = End => sfd = Nowhere

\* The data of the operations that wait for their chunk is in the buffer that is
\* used now, where nothing else has been put, and it is that of their own file:
\* the buffer is reused and may move, and the descriptor is kept between calls.
DataWaits ==
  /\ dyndata.offset <= Len(dyndata.bytes)
  /\ \A k \in opstart..opstart + nops - 1 :
       LET o == operations[k]
           at == pointers[k]
       IN  at # Null =>
             /\ at.generation = dyndata.generation
             /\ at.from + at.length <= dyndata.offset
             /\ Content(dyndata, at) = [n \in 1..o.size |-> Byte(Path, o.offset + n - 1)]

\* Neither process packs a message past the end of its buffer, or through NULL
\* unless it has been refused memory.
BuffersHold ==
  /\ Holds(buffer) /\ Holds(packing)
  /\ faults = 0 => buffer.totallen = 0 \/ buffer.allocated # 0
  /\ faults = 0 /\ phase # "off" => packing.totallen = 0 \/ packing.allocated # 0

\* The operations on a path, in what was recorded or handled.
Of(p, s) == {k \in DOMAIN s : s[k].path = p /\ s[k].op # End}
Writes(p, s) == {k \in Of(p, s) : s[k].op.type = "WRITE"}
Others(p, s) == Of(p, s) \ Writes(p, s)

\* Nothing was recorded that moves operations to another path or drops them.
KeepsNames == \A k \in DOMAIN loaded : loaded[k].op.type \notin Removals \union {"LINK"}

\* A write is made to its own file with the data the snapshot has for it; without
\* data it comes only if that could not be read.  When the server has finished and no
\* operation removes a name or adds one, all of the epoch has come: every operation
\* that is not a write, once and with its number, and every byte that was written.
\* (A truncate makes writes superfluous: what is left of them is in Mirroring.)
Arrives ==
  /\ \A k \in DOMAIN received :
       LET r == received[k]
       IN  r.op # End /\ r.op.type = "WRITE" =>
             /\ r.to = r.path
             /\ \/ r.op.data = [n \in 1..r.op.size |-> Byte(r.path, r.op.offset + n - 1)]
                \/ /\ r.op.data = <<>>
                   /\ faults > 0 \/ r.op.offset + r.op.size > snapshot[r.path]
  /\ server = "done" /\ KeepsNames => \A p \in Paths :
       /\ {received[k].op : k \in Others(p, received)}
             = {[loaded[k].op EXCEPT !.id = k - 1] : k \in Others(p, loaded)}
       /\ Cardinality(Others(p, received)) = Cardinality(Others(p, loaded))
       /\ (\A k \in Of(p, loaded) : loaded[k].op.type # "TRUNCATE") =>
            UNION {Span(received[k].op) : k \in Writes(p, received)}
              = UNION {Span(loaded[k].op) : k \in Writes(p, loaded)}

\* The transfer is a delivery of the files' operations, whatever way they are cut
\* into chunks.  (Data is the subject of Arrives.)
Plain(o) == IF o # End /\ o.type = "WRITE" THEN [o EXCEPT !.data = <<>>] ELSE o
PlainFile(f) == [path |-> f.path, ops |-> [k \in DOMAIN f.ops |-> Plain(f.ops[k])]]

D == INSTANCE Delivery WITH
       offered <- [k \in DOMAIN offered |-> PlainFile(offered[k])],
       received <- [k \in DOMAIN received |-> <<received[k].path, Plain(received[k].op)>>],
       done <- (server = "done")
ImplementsDelivery == D!Spec

\* A log that loads is sent to the end and confirmed, unless something goes wrong
\* or the file whose operations end with a write is not in the snapshot.  When it is
\* the server's memory, the client waits for SyncFinish for ever.
Completes ==
  stage = "loaded" ~> \/ phase = "done"
                      \/ faults > 0 /\ phase = "failed"
                      \/ faults > 0 /\ phase = "wait" /\ server = "failed"
                      \/ phase = "crashed" /\ (faults > 0 \/ snapshot[Path] = -1)
=============================================================================
