-------------------------------- MODULE Transfer --------------------------------
(***************************************************************************)
(* How the operations of the files get from the client to the server:      *)
(* transferFile() collects them into chunks, with the data of writes that  *)
(* loadWriteData() reads from the snapshot into one buffer for all of a    *)
(* chunk, and handleClient() takes the chunks apart again.                 *)
(*                                                                         *)
(* A byte of the snapshot is its path and offset.  A pointer into the      *)
(* buffer is the generation of the allocation, a position and a length.    *)
(***************************************************************************)
EXTENDS Framing, Compaction

CONSTANTS
  Snapshots,    \* what may be in the snapshot: the length of each file, or -1
  MESSAGE_MAX,  \* size of the buffer, and what a chunk may hold
  Gone,         \* a descriptor that has been closed
  End           \* the end of a file, among the operations received

Phases == {"off", "next", "op", "load", "full", "wait", "done", "failed", "crashed"}

ASSUME TransferAssumption == /\ MESSAGE_MAX \in Nat \ {0} /\ Gone \notin Paths \union {Nowhere}
                             /\ Snapshots \subseteq [Paths -> Nat \union {-1}]
                             /\ Null \notin [generation : Nat, from : Nat, length : Nat]

VARIABLES
  snapshot,   \* length of the files in the snapshot
  tables,     \* the files that are still to be sent, in the client's hash table
  phase,      \* where the client stands
  operations, \* of the file that is sent, after optimizeOperations()
  cur,        \* transferFile()'s i: the operation it has come to
  opstart,    \* first operation of the next chunk
  nops,       \* operations in it
  dyndata,    \* the buffer: its contents, how much of it is used, its generation
  pointers,   \* where the data of operations in it is
  stored,     \* loadWriteData()'s storedpath
  fd,         \* and fd: the path it is open on, Nowhere for -1, or Gone
  packing,    \* packMessage()'s buffer in the client
  wire,       \* messages under way
  connected,  \* the connection holds
  nfiles,     \* number_files of SyncInit
  server,     \* "off", "receive", "done" or "failed"
  handled,    \* files the server has finished
  sfd,        \* the path its descriptor is open on, or Nowhere
  \* history
  offered,    \* files with the operations that were to be sent
  received    \* what the server has handled, and where it wrote

tvars == <<snapshot, tables, phase, operations, cur, opstart, nops, dyndata, pointers, stored, fd,
           packing, wire, connected, nfiles, server, handled, sfd, offered, received>>
filevars == <<snapshot, tables, nfiles, offered>>
chunkvars == <<operations, cur, opstart, nops, dyndata, pointers>>
cachevars == <<stored, fd>>
servervars == <<server, handled, sfd, received>>

NoData == [bytes |-> <<>>, offset |-> 0, generation |-> 0]

TInit == /\ snapshot = [p \in Paths |-> -1]
         /\ tables = EmptyTables /\ phase = "off"
         /\ operations = <<>> /\ cur = 1 /\ opstart = 1 /\ nops = 0
         /\ dyndata = NoData /\ pointers = <<>>
         /\ stored = Nowhere /\ fd = Nowhere /\ packing = NoBuffer
         /\ wire = <<>> /\ connected = TRUE /\ nfiles = 0
         /\ server = "off" /\ handled = 0 /\ sfd = Nowhere
         /\ offered = <<>> /\ received = <<>>

Byte(p, k) == <<p, k>>

\* The file that is sent.
Path == Last(offered).path

-----------------------------------------------------------------------------
(* loadWriteData(), with open() or a later call that fails.  The result is *)
(* a record: whether it succeeded, the buffer, the pointer and the         *)
(* descriptor afterwards.                                                  *)

\* The file is opened when it is not the one of the last call.
Opened(p, opens) ==
  IF stored = p THEN fd ELSE IF snapshot[p] = -1 \/ ~opens THEN Nowhere ELSE p

\* Larger by the size of the operation when that does not fit in at all; what is
\* in it is kept and may have moved.
Grown(d, size) ==
  IF size <= Len(d.bytes) THEN d
  ELSE [d EXCEPT !.bytes = @ \o [k \in 1..size |-> Null], !.generation = @ + 1]

\* pread() of all that is asked for.
Reads(f, o) == f \in Paths /\ o.offset + o.size <= snapshot[f]

Filled(d, f, o) ==
  [d EXCEPT !.bytes = [k \in DOMAIN @ |->
                         IF k > d.offset /\ k <= d.offset + o.size
                         THEN Byte(f, o.offset + k - d.offset - 1) ELSE @[k]],
            !.offset = @ + o.size]

\* Mutant: the descriptor of the last call is used whatever file that was.
LoadWriteDataStale(d, p, o, opens, ok) ==
  LET f == IF fd = Nowhere THEN Opened(p, opens) ELSE fd
      g == Grown(d, o.size)
  IN  IF ok /\ Reads(f, o)
      THEN [ok |-> TRUE, data |-> Filled(g, f, o), fd |-> f,
            pointer |-> [generation |-> g.generation, from |-> d.offset, length |-> o.size]]
      ELSE [ok |-> FALSE, data |-> g, fd |-> f, pointer |-> Null]

LoadWriteData(d, p, o, opens, ok) ==
  LET f == Opened(p, opens)
      g == Grown(d, o.size)
  IN  IF f = Nowhere /\ stored # p
      THEN [ok |-> FALSE, data |-> d, fd |-> f, pointer |-> Null]
      ELSE IF ok /\ Reads(f, o)
      THEN [ok |-> TRUE, data |-> Filled(g, f, o), fd |-> f,
            pointer |-> [generation |-> g.generation, from |-> d.offset, length |-> o.size]]
      ELSE [ok |-> FALSE, data |-> g, fd |-> f, pointer |-> Null]

-----------------------------------------------------------------------------
(* transferChunk() and sendMessage().                                      *)

\* What is behind a pointer when the chunk is packed.
Content(d, ptr) == IF ptr = Null THEN <<>>
                   ELSE SubSeq(d.bytes, ptr.from + 1, ptr.from + ptr.length)

Chunk(last) ==
  [path |-> Path, last |-> last,
   ops |-> [k \in 1..nops |->
              LET o == operations[opstart + k - 1]
              IN  IF o.type = "WRITE"
                  THEN [o EXCEPT !.data = Content(dyndata, pointers[opstart + k - 1])]
                  ELSE o]]

\* The client is gone and with it the connection.
Leaves(how) == phase' = how /\ connected' = FALSE

\* The chunk is sent, the next one begins at operation n and the buffer is used
\* from its beginning.  What is sent into a broken connection may be refused,
\* or be lost.
TransferChunk(last, n, then) ==
  \E cells \in {PackFileChunk(Chunk(last))} : \E size \in {PackedSize(cells)}, ok \in BOOLEAN :
  LET result == PackResult(packing, size, ok)
  IN  /\ Outcome(ok)
      /\ ~ok => result = "failed"
      /\ packing' = Reserved(packing, size, ok)
      /\ wire' = IF result = "packed" /\ connected
                 THEN Append(wire, [cells |-> cells, whole |-> TRUE]) ELSE wire
      /\ \/ result = "packed" /\ phase' = then /\ UNCHANGED connected
         \/ result = "packed" /\ ~connected /\ Leaves("failed")
         \/ result # "packed" /\ Leaves(result)
      /\ opstart' = n /\ nops' = 0
      /\ dyndata' = [dyndata EXCEPT !.offset = 0]

-----------------------------------------------------------------------------
(* transfer() and transferFile().                                          *)

StartTransfer(tb) ==
  /\ snapshot' \in Snapshots
  /\ tables' = tb /\ nfiles' = Len(tb.files)
  /\ phase' = "next" /\ server' = "receive"
  /\ UNCHANGED <<chunkvars, cachevars, packing, wire, connected, handled, sfd,
                 offered, received, faults>>

BeginFile == \E ok \in BOOLEAN :
  /\ phase = "next" /\ tables.files # <<>>
  /\ Outcome(ok)
  /\ \E f \in {First(tables.files)} : \E os \in OptimizeOperations(f.ops) :
       /\ tables' = Deleted(tables, f.path)
       /\ operations' = os
       /\ pointers' = [k \in DOMAIN os |-> Null]
       /\ offered' = Append(offered, [path |-> f.path, ops |-> os])
  /\ IF ok THEN phase' = "op" /\ UNCHANGED connected ELSE Leaves("failed")
  /\ dyndata' = [bytes |-> [k \in 1..MESSAGE_MAX |-> Null], offset |-> 0,
                 generation |-> dyndata.generation + 1]
  /\ cur' = 1 /\ opstart' = 1 /\ nops' = 0
  /\ UNCHANGED <<snapshot, cachevars, packing, wire, nfiles, servervars>>

Op == operations[cur]
AtOp(at) == phase = at /\ cur <= Len(operations)

Overflows == Op.type = "WRITE" /\ Op.size + dyndata.offset > Len(dyndata.bytes)

\* Mutant: the next chunk begins where the one that was sent began.
FlushResends == /\ AtOp("op") /\ Overflows
                /\ TransferChunk(FALSE, opstart, "load")
                /\ UNCHANGED <<filevars, operations, cur, pointers, cachevars, servervars>>

\* A write that does not fit goes into the next chunk; before the first one the
\* chunk that is sent may have no operations.
Flush == /\ AtOp("op") /\ Overflows
         /\ TransferChunk(FALSE, cur, "load")
         /\ UNCHANGED <<filevars, operations, cur, pointers, cachevars, servervars>>

\* After the last operation the file is closed; when it could not be opened
\* that call compares NULL with the stored path.
LoadOp == \E opens, ok \in BOOLEAN :
  /\ \/ AtOp("load")
     \/ AtOp("op") /\ ~Overflows
  /\ ~ok => opens /\ Op.type = "WRITE"
  /\ ~opens => Op.type = "WRITE" /\ stored # Path
  /\ Outcome(opens /\ ok)
  /\ \E load \in {IF Op.type = "WRITE" THEN LoadWriteData(dyndata, Path, Op, opens, ok)
                   ELSE [data |-> dyndata, fd |-> fd, pointer |-> Null]} :
     LET closes == Op.type = "WRITE" /\ cur = Len(operations)
     IN  /\ dyndata' = load.data
         /\ pointers' = [pointers EXCEPT ![cur] = load.pointer]
         /\ stored' = IF Op.type = "WRITE" THEN Path ELSE stored
         /\ fd' = IF closes /\ load.fd # Nowhere THEN Gone ELSE load.fd
         /\ IF closes /\ load.fd = Nowhere
            THEN Leaves("crashed") /\ UNCHANGED <<cur, nops>>
            ELSE LET full == load.data.offset >= MESSAGE_MAX
                 IN  /\ nops' = nops + 1
                     /\ cur' = IF full THEN cur ELSE cur + 1
                     /\ phase' = IF full THEN "full" ELSE "op"
                     /\ UNCHANGED connected
  /\ UNCHANGED <<filevars, operations, opstart, packing, wire, servervars>>

\* Mutant: only what is left over at the end can be the last chunk.
FlushFullNotLast == /\ AtOp("full")
                    /\ TransferChunk(FALSE, cur + 1, "op")
                    /\ cur' = cur + 1
                    /\ UNCHANGED <<filevars, operations, pointers, cachevars, servervars>>

FlushFull == /\ AtOp("full")
             /\ TransferChunk(cur = Len(operations), cur + 1, "op")
             /\ cur' = cur + 1
             /\ UNCHANGED <<filevars, operations, pointers, cachevars, servervars>>

EndFile == /\ phase = "op" /\ cur > Len(operations)
           /\ IF nops > 0 THEN TransferChunk(TRUE, opstart, "next")
              ELSE phase' = "next" /\ UNCHANGED <<opstart, nops, dyndata, packing, wire, connected, faults>>
           /\ UNCHANGED <<filevars, operations, cur, pointers, cachevars, servervars>>

\* SyncFinish is waited for, and received or not.
EndFiles == /\ phase = "next" /\ tables.files = <<>>
            /\ phase' = "wait"
            /\ UNCHANGED <<filevars, chunkvars, cachevars, packing, wire, connected,
                           servervars, faults>>

Confirmed == /\ phase = "wait"
             /\ \/ server = "done" /\ phase' = "done" /\ UNCHANGED connected
                \/ ~connected /\ Leaves("failed")
             /\ UNCHANGED <<filevars, chunkvars, cachevars, packing, wire, servervars, faults>>

Client == BeginFile \/ Flush \/ LoadOp \/ FlushFull \/ EndFile \/ EndFiles \/ Confirmed

-----------------------------------------------------------------------------
(* handleClient(), after syncInit().                                       *)

\* The descriptor of a file after an operation: a write opens it when it is not.
Descriptor(p, f, o) == CASE o.type = "CREATE" -> p
                         [] o.type = "WRITE" -> IF f = Nowhere THEN p ELSE f
                         [] o.type = "UNLINK" -> Nowhere
                         [] OTHER -> f

Descriptors(c) ==
  [k \in 0..Len(c.ops) |->
     FoldLeft(LAMBDA f, o : Descriptor(c.path, f, o), sfd, SubSeq(c.ops, 1, k))]

\* Mutant: the descriptor of a file is not closed at its end.
HandleChunkKeepsOpen(c) ==
  \E fds \in {Descriptors(c)} :
  LET done == [k \in DOMAIN c.ops |-> [path |-> c.path, op |-> c.ops[k], to |-> fds[k]]]
  IN  /\ received' = received \o done
                       \o (IF c.last THEN <<[path |-> c.path, op |-> End]>> ELSE <<>>)
      /\ handled' = IF c.last THEN handled + 1 ELSE handled
      /\ sfd' = fds[Len(c.ops)]

\* The operations of a chunk, and the end of the file.
HandleChunk(c) ==
  \E fds \in {Descriptors(c)} :
  LET done == [k \in DOMAIN c.ops |-> [path |-> c.path, op |-> c.ops[k], to |-> fds[k]]]
  IN  /\ received' = received \o done
                       \o (IF c.last THEN <<[path |-> c.path, op |-> End]>> ELSE <<>>)
      /\ handled' = IF c.last THEN handled + 1 ELSE handled
      /\ sfd' = IF c.last THEN Nowhere ELSE fds[Len(c.ops)]

\* recvMessage() may be refused the memory it asks for: then handleClient() returns
\* and leaves the connection open.
ReceiveChunk == \E ok \in BOOLEAN :
  /\ Outcome(ok)
  /\ server = "receive" /\ handled < nfiles /\ wire # <<>>
  /\ \E c \in {UnpackFileChunk(Head(wire).cells)} :
       IF ok /\ Head(wire).whole /\ c # Null
       THEN HandleChunk(c) /\ UNCHANGED server
       ELSE server' = "failed" /\ UNCHANGED <<handled, sfd, received>>
  /\ wire' = Tail(wire)
  /\ UNCHANGED <<filevars, phase, chunkvars, cachevars, packing, connected>>

ReceiveNothing ==
  /\ server = "receive" /\ handled < nfiles /\ wire = <<>> /\ ~connected
  /\ server' = "failed"
  /\ UNCHANGED <<filevars, phase, chunkvars, cachevars, packing, wire, connected,
                 handled, sfd, received, faults>>

Finish ==
  /\ server = "receive" /\ handled = nfiles
  /\ server' = "done"
  /\ UNCHANGED <<filevars, phase, chunkvars, cachevars, packing, wire, connected,
                 handled, sfd, received, faults>>

Server == ReceiveChunk \/ ReceiveNothing \/ Finish

-----------------------------------------------------------------------------
\* What has been sent arrives up to some point, at which a message may be cut.
Break == \E n \in 0..Len(wire), part \in BOOLEAN :
  /\ connected /\ phase # "off" /\ Outcome(FALSE)
  /\ connected' = FALSE
  /\ part => n < Len(wire)
  /\ wire' = SubSeq(wire, 1, n)
               \o (IF part THEN <<[wire[n + 1] EXCEPT !.whole = FALSE]>> ELSE <<>>)
  /\ UNCHANGED <<filevars, phase, chunkvars, cachevars, packing, servervars>>

TNext == Client \/ Server \/ Break
=============================================================================
