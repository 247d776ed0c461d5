----------------------------- MODULE SyncSession ------------------------------
(***************************************************************************)
(* A source and a mirror together: SyncClient and SyncServer joined by TCP *)
(* connections.  The client sends SyncInit, waits for SyncInitResponse,    *)
(* sends its files and waits for SyncFinish; the server handles one        *)
(* connection after the other, the ones whose client has died first.       *)
(*                                                                         *)
(* Every operation of an epoch is a file of its own with one chunk; what a *)
(* file's chunks are is below this level.  The bytes a connection carries  *)
(* arrive in order; of what was sent last any part may be lost when it     *)
(* breaks.                                                                 *)
(***************************************************************************)
EXTENDS Integers, SequencesExt

CONSTANTS
  SyncId, Absent, Empty, Partial,
  MaxOps,       \* bound: operations executed by the file system
  MaxSessions,  \* bound: connections the server accepts
  MaxFaults     \* bound: crashes, failing calls and broken connections

ASSUME SessionAssumption == /\ Absent \notin SyncId /\ Empty \notin SyncId
                            /\ Absent # Empty /\ Partial \notin {Absent, Empty}
                            /\ Absent \notin Seq(Nat) /\ Absent \notin Nat
                            /\ MaxOps \in Nat /\ MaxSessions \in Nat
                            /\ MaxFaults \in Nat

VARIABLES
  \* SyncClient
  fsup, executed, pend, reqby, log, sync, idfile, csnap, cpc, newsync, cid,
  epoch, answered, logged, acked, idepoch, clobbered, stale,
  \* SyncServer
  rootdir, snapshot, syncid, lastid, spc, cur, errflag, left, todo, islast,
  reply, got, chunks, sessions, trouble,
  \* the client in transfer()
  tpc,     \* "connect", "init", "response", "files"
  sent,    \* files sent
  conn,    \* its connection: "none", "open", "closed" by the other side
  down,    \* messages on their way to it
  \* the server's end
  queue,   \* connections not finished, the first of which is being handled:
           \* messages on their way and whether the client's end is open
  faults

cvars == <<fsup, executed, pend, reqby, log, sync, idfile, csnap, cpc, newsync,
           cid, epoch, answered, logged, acked, idepoch, clobbered, stale>>
svars == <<rootdir, snapshot, syncid, lastid, spc, cur, errflag, left, todo,
           islast, reply, got, chunks, sessions, trouble>>
net == <<tpc, sent, conn, down, queue>>
vars == <<cvars, svars, net, faults>>

C == INSTANCE SyncClient
S == INSTANCE SyncServer WITH Op <- 1..MaxOps, SyncId <- C!Id,
                              MaxFiles <- MaxOps, MaxChunks <- MaxOps,
                              MaxChunkOps <- 1

Init == /\ C!CInit /\ S!SInit
        /\ tpc = "connect" /\ sent = 0 /\ conn = "none" /\ down = <<>>
        /\ queue = <<>> /\ faults = 0

-----------------------------------------------------------------------------
(* The transport.                                                          *)

\* The connection the server is handling is that of the running client.
Current == conn = "open" /\ Len(queue) = 1

Push(msg) == queue' = [queue EXCEPT ![Len(queue)].up = Append(@, msg)]
Pop == queue' = [queue EXCEPT ![1].up = Tail(@)]

\* The client's end is gone: what the server has not read yet arrives up to
\* some point.
CutUp == IF conn # "open" THEN queue' = queue
         ELSE \E k \in 0..Len(Last(queue).up) :
                queue' = [queue EXCEPT ![Len(queue)] =
                            [up |-> SubSeq(@.up, 1, k), open |-> FALSE]]

Hangup == /\ CutUp
          /\ tpc' = "connect" /\ sent' = 0 /\ conn' = "none" /\ down' = <<>>

-----------------------------------------------------------------------------
(* transfer() and initiateSync().                                          *)

Connect == /\ cpc = "transfer" /\ tpc = "connect"
           /\ queue' = Append(queue, [up |-> <<>>, open |-> TRUE])
           /\ conn' = "open"
           /\ tpc' = "init"
           /\ UNCHANGED <<cvars, svars, sent, down, faults>>

\* Mutant: one file too many is announced.
SendInitOneMore ==
  /\ cpc = "transfer" /\ tpc = "init" /\ conn = "open"
  /\ Push([type |-> "init", id |-> idfile, n |-> Len(epoch) + 1])
  /\ tpc' = "response"
  /\ UNCHANGED <<cvars, svars, sent, conn, down, faults>>

SendInit == /\ cpc = "transfer" /\ tpc = "init" /\ conn = "open"
            /\ Push([type |-> "init", id |-> idfile, n |-> Len(epoch)])
            /\ tpc' = "response"
            /\ UNCHANGED <<cvars, svars, sent, conn, down, faults>>

RecvResponse == /\ cpc = "transfer" /\ tpc = "response" /\ down # <<>>
                /\ Head(down) = "continue"
                /\ down' = Tail(down)
                /\ tpc' = "files"
                /\ UNCHANGED <<cvars, svars, sent, conn, queue, faults>>

SendFile == /\ cpc = "transfer" /\ tpc = "files" /\ conn = "open"
            /\ sent < Len(epoch)
            /\ Push([type |-> "file", op |-> epoch[sent + 1]])
            /\ sent' = sent + 1
            /\ UNCHANGED <<cvars, svars, tpc, conn, down, faults>>

\* Mutant: SyncFinish is not waited for.
TransferDoneEarly == /\ cpc = "transfer" /\ tpc = "files" /\ sent = Len(epoch)
                     /\ C!Transfer(TRUE)
                     /\ Hangup
                     /\ UNCHANGED <<svars, faults>>

\* recvMessage() returns SyncFinish.
TransferDone == /\ cpc = "transfer" /\ tpc = "files" /\ sent = Len(epoch)
                /\ down # <<>>
                /\ C!Transfer(TRUE)
                /\ Hangup
                /\ UNCHANGED <<svars, faults>>

\* The server refuses, or the connection is gone.
TransferFails == /\ cpc = "transfer"
                 /\ \/ tpc = "response" /\ down # <<>> /\ Head(down) = "refused"
                    \/ conn = "closed" /\ down = <<>>
                    \/ conn = "closed" /\ tpc = "files" /\ sent < Len(epoch)
                 /\ C!Transfer(FALSE)
                 /\ Hangup
                 /\ UNCHANGED <<svars, faults>>

-----------------------------------------------------------------------------
(* The rest of the client and the file system.                             *)

\* A run is started when there is something to synchronise.
Start == /\ log # <<>> \/ sync # Absent
         /\ C!Open

\* The file system serves a request in less than ten seconds, so that only an
\* answer that went to somebody else is waited for in vain.
GiveUp == reqby = "none" /\ C!Timeout

\* generateSyncId() does not repeat an id that is still in use.
NewId == \E i \in SyncId \ {syncid, lastid} : C!GenerateId(i)

ClientLocal == /\ \/ Start \/ C!Signal \/ C!Answer \/ GiveUp
                  \/ C!KeepId \/ NewId
                  \/ C!ClientTruncateId(TRUE) \/ C!ClientWriteId(TRUE)
                  \/ C!KeepSnapshot \/ C!TakeSnapshot(csnap = Absent)
                  \/ C!DropSnapshot(TRUE) \/ C!DropId \/ C!DropSync
               /\ UNCHANGED <<svars, net, faults>>

Filesystem == /\ C!Execute \/ C!Record \/ C!Switch \/ C!FsStart
              /\ UNCHANGED <<svars, net, faults>>

-----------------------------------------------------------------------------
(* The server.                                                             *)

ServerAccept == /\ queue # <<>>
                /\ S!Accept
                /\ UNCHANGED <<cvars, net, faults>>

Incoming == queue[1].up

ServerRecv ==
  /\ spc # "accept" /\ Incoming # <<>>
  /\ LET msg == Head(Incoming)
     IN  \/ msg.type = "init" /\ S!RecvInit(msg.id, msg.n)
         \/ msg.type = "file" /\ S!RecvChunk(<<msg.op>>, TRUE)
  /\ Pop
  /\ UNCHANGED <<cvars, tpc, sent, conn, down, faults>>

\* handleClient() has returned.
Done == /\ queue' = Tail(queue)
        /\ conn' = IF Current THEN "closed" ELSE conn

ServerRecvFails == /\ spc # "accept" /\ Incoming = <<>> /\ ~queue[1].open
                   /\ S!RecvFails
                   /\ Done
                   /\ UNCHANGED <<cvars, tpc, sent, down, faults>>

\* A message to a connection whose client is gone is sent or not.
ServerSend == \E ok \in BOOLEAN :
  /\ spc # "accept" /\ (ok \/ ~queue[1].open)
  /\ S!Respond(ok) \/ S!Finish(ok)
  /\ down' = IF Current /\ ok THEN Append(down, reply') ELSE down
  /\ IF spc' = "accept" THEN Done ELSE UNCHANGED <<queue, conn>>
  /\ UNCHANGED <<cvars, tpc, sent, faults>>

ServerLocal == /\ \/ S!RevertDelete(TRUE) \/ S!RevertCreate(TRUE)
                  \/ S!RevertDrop(TRUE) \/ S!DropStale(TRUE)
                  \/ S!CreateBase(rootdir # Absent) \/ S!TruncateId(TRUE)
                  \/ S!WriteId(TRUE) \/ S!RenameId(TRUE)
                  \/ S!ApplyOp \/ S!EndChunk \/ S!CommitEpoch
               /\ UNCHANGED <<cvars, net, faults>>

-----------------------------------------------------------------------------
(* What goes wrong.                                                        *)

Fault == faults < MaxFaults /\ faults' = faults + 1

ClientDies == /\ Fault
              /\ C!ClientCrash
              /\ Hangup
              /\ UNCHANGED svars

\* The file system dies between two operations and is mounted again.  (One that
\* dies with an operation it has not recorded loses it before this level: the
\* mirror can never have it.)
FilesystemDies == /\ Fault
                  /\ pend = 0 /\ C!FsCrash
                  /\ UNCHANGED <<svars, net>>

SwitchFails == /\ Fault
               /\ C!SwitchFails
               /\ UNCHANGED <<svars, net>>

ClientCallFails == /\ Fault
                   /\ \/ C!ClientTruncateId(FALSE) \/ C!ClientWriteId(FALSE)
                      \/ C!TakeSnapshot(FALSE) \/ C!DropSnapshot(FALSE)
                   /\ UNCHANGED <<svars, net>>

ServerCallFails ==
  /\ Fault
  /\ \/ S!RevertDelete(FALSE) \/ S!RevertCreate(FALSE) \/ S!RevertDrop(FALSE)
     \/ S!DropStale(FALSE) \/ S!CreateBase(FALSE)
     \/ S!TruncateId(FALSE) \/ S!WriteId(FALSE)
  /\ UNCHANGED <<cvars, net>>

\* A failure at the end of handleClient(), which closes the connection.
ServerGivesUp == /\ Fault
                 /\ S!CommitFails \/ S!RenameId(FALSE)
                 /\ Done
                 /\ UNCHANGED <<cvars, tpc, sent, down>>

\* Every connection is reset; a message that had arrived may still be read.
ServerDies == /\ Fault
              /\ S!Crash
              /\ queue' = <<>>
              /\ conn' = IF conn = "open" THEN "closed" ELSE conn
              /\ down' \in {down, <<>>}
              /\ UNCHANGED <<cvars, tpc, sent>>

ConnectionBreaks == /\ Fault
                    /\ conn = "open"
                    /\ CutUp
                    /\ conn' = "closed"
                    /\ down' \in {down, <<>>}
                    /\ UNCHANGED <<cvars, svars, tpc, sent>>

-----------------------------------------------------------------------------
ClientTransfer == \/ Connect \/ SendInit \/ RecvResponse \/ SendFile
                  \/ TransferDone \/ TransferFails
Client == ClientLocal \/ ClientTransfer
Server == ServerAccept \/ ServerRecv \/ ServerRecvFails \/ ServerSend
          \/ ServerLocal
CallFails == SwitchFails \/ ClientCallFails \/ ServerCallFails
Faults == \/ ClientDies \/ FilesystemDies \/ ServerDies \/ ConnectionBreaks
          \/ CallFails \/ ServerGivesUp

Next == Filesystem \/ Client \/ Server \/ Faults

Spec == Init /\ [][Next]_vars

\* The three processes run, and a client is started again and again.
Fairness == WF_vars(Filesystem) /\ WF_vars(Client) /\ WF_vars(Server)
FairSpec == Spec /\ Fairness

-----------------------------------------------------------------------------
(* Properties                                                              *)

\* The types of both sides and of what is in the connections: the numbers and
\* ids of a SyncInit message are in the range the server expects.
TypeOK ==
  /\ C!CTypeOK /\ S!TypeOK
  /\ tpc \in {"connect", "init", "response", "files"} /\ sent \in 0..MaxOps
  /\ conn \in {"none", "open", "closed"} /\ down \in Seq(S!Replies)
  /\ \A c \in Range(queue) : c.up \in Seq([type : {"init"}, id : C!Id,
                                           n : 0..MaxOps]
                                          \union [type : {"file"},
                                                  op : 1..MaxOps])
                             /\ c.open \in BOOLEAN

Mirror == S!Recovered

\* What was recorded at the source is at the mirror, where no crash takes it
\* away again, or still in a log file at the source: the client deletes the
\* log of an epoch (client.c:115-126) only after the server has committed it
\* (server.c:119-147), whichever of them dies or fails in between.  A switch that
\* replaces a .sync file and a revert block that loses the saved tree are the
\* two ways in which it is lost.
EndToEnd == ~clobbered /\ ~trouble => logged \subseteq ToSet(Mirror)
                            \union C!OpsOf(log) \union C!OpsOf(sync)

\* The mirror never has an operation without all those before it, however
\* often epochs are sent again and whatever is left over of connections whose
\* client is gone.  It may have an operation twice: an epoch whose confirmation
\* is lost is sent again.
NoGaps == ~clobbered /\ ~trouble => \A i \in 1..Len(Mirror) :
            Mirror[i] <= 1 + (IF i = 1 THEN 0 ELSE Mirror[i - 1])

\* The mirror changes by whole epochs, and by the one the source holds at that
\* moment: neither half of an epoch that was interrupted nor what a client
\* that is gone has left in a connection gets there in any other way.  (A revert
\* block that loses the saved tree ends this: trouble.)
WholeEpochs == [][~clobbered' /\ ~trouble' /\ Mirror' # Mirror =>
                    sync # Absent /\ Mirror' = Mirror \o sync]_vars

\* What was recorded reaches the mirror, given that the two processes run, that
\* a message or the end of a connection is reported to the one that waits for
\* it, and that nothing was lost in the two ways named at EndToEnd.
Delivered == \A op \in 1..MaxOps :
               (op \in logged) ~> (clobbered \/ trouble \/ op \in ToSet(Mirror))

\* "If we receive syncid, we already marked as successfully done [...] send
\* the confirmation, don't sync" (server.c:249-256).
DoneIdNotSyncedAgain ==
  spc \in {"files", "ops"} /\ lastid # Absent => cur # lastid
=============================================================================
