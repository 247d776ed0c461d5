------------------------------ MODULE SyncServer ------------------------------
(***************************************************************************)
(* The mirror's daemon (syncedfs-daemon/server.c with snapshot.c and       *)
(* syncid.c): a single thread that accepts a connection, takes a snapshot  *)
(* of its tree, writes down the id of the synchronisation, applies the     *)
(* operations it receives and deletes the snapshot again, which commits    *)
(* them.  A snapshot and a readable id found at the start of a session     *)
(* mean that the previous one did not finish: the tree is put back.        *)
(*                                                                         *)
(* A subvolume is the sequence of the operations that made it, or Absent.  *)
(***************************************************************************)
EXTENDS Sequences, Integers

CONSTANTS
  Op,           \* operations on the mirrored tree
  SyncId,       \* ids a client may send
  Absent,       \* the path does not exist
  Empty,        \* the sync-id file exists and holds nothing
  Partial,      \* it holds the beginning of an id
  MaxSessions,  \* bound: connections accepted
  MaxFiles,     \* bound: number_files of a SyncInit message
  MaxChunks,    \* bound: FileChunk messages received in a session
  MaxChunkOps   \* bound: operations in one FileChunk

ASSUME Markers == /\ Absent \notin SyncId /\ Empty \notin SyncId
                  /\ Absent # Empty /\ Partial \notin {Absent, Empty}
                  /\ Absent \notin Seq(Op)
ASSUME Bounds == /\ MaxSessions \in Nat /\ MaxFiles \in Nat
                 /\ MaxChunks \in Nat /\ MaxChunkOps \in Nat

VARIABLES
  \* durable: subvolumes and files
  rootdir,   \* the mirrored tree, config.rootdir
  snapshot,  \* config.snapshot
  syncid,    \* <resource>.syncid
  lastid,    \* <resource>.syncid.last
  \* of the process
  spc,       \* where handleClient() and syncInit() stand
  cur,       \* syncinit->sync_id
  errflag,   \* errflag of syncInit()
  left,      \* files still to be received, nfiles - i
  todo,      \* operations of the current chunk not handled yet
  islast,    \* chunk->last_chunk
  reply,     \* the last message sent on this connection
  \* history and bounds
  got,       \* operations handled in this session
  chunks,    \* chunks received in this session
  sessions,  \* connections accepted
  trouble    \* a revert has dropped the snapshot without restoring the tree

disk == <<rootdir, snapshot, syncid, lastid>>
transfer == <<left, todo, islast, got, chunks>>
svars == <<rootdir, snapshot, syncid, lastid, spc, cur, errflag, left, todo,
           islast, reply, got, chunks, sessions, trouble>>

Pcs == {"accept", "init", "revertDelete", "revertCreate", "revertDrop",
        "dropStale", "create", "truncateId", "writeId", "respond",
        "files", "ops", "rename", "finish"}
Replies == {"none", "continue", "refused", "finish"}

Subvolume == Seq(Op) \union {Absent}
Id == SyncId \union {Partial}
IdFile == Id \union {Absent, Empty}

SInit == /\ rootdir = <<>> /\ snapshot = Absent
         /\ syncid = Absent /\ lastid = Absent
         /\ spc = "accept" /\ cur = Absent /\ errflag = FALSE
         /\ left = 0 /\ todo = <<>> /\ islast = FALSE /\ reply = "none"
         /\ got = <<>> /\ chunks = 0 /\ sessions = 0 /\ trouble = FALSE

\* readSyncId() succeeds: the file exists and has a line in it, which may be
\* the beginning of an id.
Readable == syncid \in Id

\* The condition under which syncInit() reverts to the snapshot.
HaveBase == snapshot # Absent /\ Readable

\* What the tree is brought back to if the process dies now and the next
\* session runs syncInit().
Recovered == IF HaveBase THEN snapshot ELSE rootdir

\* handleClient() returns; cfd is left open on some paths, which the peer
\* cannot tell apart from a slow server.
Return == /\ spc' = "accept"
          /\ cur' = Absent /\ errflag' = FALSE
          /\ left' = 0 /\ todo' = <<>> /\ islast' = FALSE
          /\ got' = <<>> /\ chunks' = 0

-----------------------------------------------------------------------------
(* startServer(): one connection after the other.                          *)

Accept == /\ spc = "accept"
          /\ sessions < MaxSessions
          /\ sessions' = sessions + 1
          /\ spc' = "init"
          /\ reply' = "none"
          /\ UNCHANGED <<disk, cur, errflag, transfer, trouble>>

(* syncInit().  The test for an id that was already synchronised compares  *)
(* the address of a local array with that of the received string           *)
(* (server.c:255), so it never holds and lastid is never looked at.        *)

\* Mutant: a snapshot is always taken for one that was left over.
RecvInitDrops(id, n) ==
  /\ spc = "init"
  /\ cur' = id
  /\ left' = n
  /\ spc' = IF snapshot # Absent THEN "dropStale" ELSE "create"
  /\ UNCHANGED <<disk, errflag, todo, islast, reply, got, chunks, sessions,
                 trouble>>

RecvInit(id, n) ==
  /\ spc = "init"
  /\ cur' = id
  /\ left' = n
  /\ spc' = IF HaveBase THEN "revertDelete"
            ELSE IF snapshot # Absent THEN "dropStale" ELSE "create"
  /\ UNCHANGED <<disk, errflag, todo, islast, reply, got, chunks, sessions,
                 trouble>>

\* The message names another resource.
RefuseResource == /\ spc = "init"
                  /\ reply' = "refused"
                  /\ Return
                  /\ UNCHANGED <<disk, sessions, trouble>>

(* The revert block.  Its three calls run whatever the ones before them    *)
(* returned; deleting a missing subvolume is an error, and a snapshot      *)
(* taken onto an existing tree lands inside it and leaves it as it is.     *)

RevertDelete(ok) ==
  /\ spc = "revertDelete"
  /\ rootdir' = IF ok THEN Absent ELSE rootdir
  /\ errflag' = (~ok \/ rootdir = Absent)
  /\ spc' = "revertCreate"
  /\ UNCHANGED <<snapshot, syncid, lastid, cur, transfer, reply, sessions,
                 trouble>>

RevertCreate(ok) ==
  /\ spc = "revertCreate"
  /\ rootdir' = IF ok /\ rootdir = Absent THEN snapshot ELSE rootdir
  /\ errflag' = (errflag \/ ~ok)
  /\ spc' = "revertDrop"
  /\ UNCHANGED <<snapshot, syncid, lastid, cur, transfer, reply, sessions,
                 trouble>>

\* Mutant: the result of the last call stands for all three.
RevertDropAlone(ok) ==
  /\ spc = "revertDrop"
  /\ snapshot' = IF ok THEN Absent ELSE snapshot
  /\ errflag' = ~ok
  /\ trouble' = (trouble \/ (ok /\ rootdir # snapshot))
  /\ spc' = IF ok THEN "create" ELSE "respond"
  /\ UNCHANGED <<rootdir, syncid, lastid, cur, transfer, reply, sessions>>

RevertDrop(ok) ==
  /\ spc = "revertDrop"
  /\ snapshot' = IF ok THEN Absent ELSE snapshot
  /\ errflag' = (errflag \/ ~ok)
  /\ trouble' = (trouble \/ (ok /\ rootdir # snapshot))
  /\ spc' = IF errflag \/ ~ok THEN "respond" ELSE "create"
  /\ UNCHANGED <<rootdir, syncid, lastid, cur, transfer, reply, sessions>>

\* A snapshot without a readable id: nothing was applied since it was taken.
DropStale(ok) ==
  /\ spc = "dropStale"
  /\ snapshot' = IF ok THEN Absent ELSE snapshot
  /\ errflag' = ~ok
  /\ spc' = IF ok THEN "create" ELSE "respond"
  /\ UNCHANGED <<rootdir, syncid, lastid, cur, transfer, reply, sessions,
                 trouble>>

\* Mutant: the result of createSnapshot() is not looked at.
CreateBaseUnchecked(ok) ==
  /\ spc = "create"
  /\ ok => rootdir # Absent
  /\ snapshot' = IF ok THEN rootdir ELSE snapshot
  /\ errflag' = FALSE
  /\ spc' = "truncateId"
  /\ UNCHANGED <<rootdir, syncid, lastid, cur, transfer, reply, sessions,
                 trouble>>

CreateBase(ok) ==
  /\ spc = "create"
  /\ ok => rootdir # Absent
  /\ snapshot' = IF ok THEN rootdir ELSE snapshot
  /\ errflag' = ~ok
  /\ spc' = IF ok THEN "truncateId" ELSE "respond"
  /\ UNCHANGED <<rootdir, syncid, lastid, cur, transfer, reply, sessions,
                 trouble>>

(* writeSyncId() opens and truncates the file, then writes it and closes   *)
(* it; a call that fails leaves any part of the id in it.                  *)

TruncateId(ok) ==
  /\ spc = "truncateId"
  /\ syncid' = IF ok THEN Empty ELSE syncid
  /\ errflag' = ~ok
  /\ spc' = IF ok THEN "writeId" ELSE "respond"
  /\ UNCHANGED <<rootdir, snapshot, lastid, cur, transfer, reply, sessions,
                 trouble>>

WriteId(ok) ==
  /\ spc = "writeId"
  /\ syncid' \in IF ok THEN {cur} ELSE {Empty, Partial, cur}
  /\ errflag' = ~ok
  /\ spc' = "respond"
  /\ UNCHANGED <<rootdir, snapshot, lastid, cur, transfer, reply, sessions,
                 trouble>>

\* Mutant: the client is told to continue whatever syncInit() has met.
RespondRegardless(sent) ==
  /\ spc = "respond"
  /\ reply' = IF sent THEN "continue" ELSE reply
  /\ IF sent THEN spc' = "files" /\ UNCHANGED <<cur, errflag, transfer>>
             ELSE Return
  /\ UNCHANGED <<disk, sessions, trouble>>

\* sent: sendMessage() succeeded.
Respond(sent) ==
  /\ spc = "respond"
  /\ reply' = IF ~sent THEN reply
              ELSE IF errflag THEN "refused" ELSE "continue"
  /\ IF sent /\ ~errflag
     THEN spc' = "files" /\ UNCHANGED <<cur, errflag, transfer>>
     ELSE Return
  /\ UNCHANGED <<disk, sessions, trouble>>

-----------------------------------------------------------------------------
(* handleClient(): files, chunks, operations.                              *)

\* Mutant: do ... while over the files, so that one is received at least.
RecvChunkFirst(ops, last) ==
  /\ spc = "files"
  /\ chunks < MaxChunks
  /\ chunks' = chunks + 1
  /\ todo' = ops
  /\ islast' = last
  /\ spc' = "ops"
  /\ UNCHANGED <<disk, cur, errflag, left, reply, got, sessions, trouble>>

RecvChunk(ops, last) ==
  /\ spc = "files" /\ left > 0
  /\ chunks < MaxChunks
  /\ chunks' = chunks + 1
  /\ todo' = ops
  /\ islast' = last
  /\ spc' = "ops"
  /\ UNCHANGED <<disk, cur, errflag, left, reply, got, sessions, trouble>>

\* handleGenericOperation(): whether the call on the tree succeeds is not
\* looked at.
ApplyOp ==
  /\ spc = "ops" /\ todo # <<>>
  /\ rootdir' = Append(rootdir, Head(todo))
  /\ got' = Append(got, Head(todo))
  /\ todo' = Tail(todo)
  /\ UNCHANGED <<snapshot, syncid, lastid, spc, cur, errflag, left, islast,
                 reply, chunks, sessions, trouble>>

EndChunk ==
  /\ spc = "ops" /\ todo = <<>>
  /\ left' = IF islast THEN left - 1 ELSE left
  /\ spc' = "files"
  /\ UNCHANGED <<disk, cur, errflag, todo, islast, reply, got, chunks,
                 sessions, trouble>>

\* Mutant: a peer that goes away between its files is not noticed.
RecvFailsAtInit == /\ spc = "init"
                   /\ Return
                   /\ UNCHANGED <<disk, reply, sessions, trouble>>

\* recvMessage() returns NULL: the peer is gone or sent something else.
RecvFails == /\ spc = "init" \/ (spc = "files" /\ left > 0)
             /\ Return
             /\ UNCHANGED <<disk, reply, sessions, trouble>>

\* Mutant: the result of deleteSnapshot() is not looked at.
CommitUnchecked ==
  /\ spc = "files" /\ left = 0
  /\ snapshot' \in {Absent, snapshot}
  /\ spc' = "rename"
  /\ UNCHANGED <<rootdir, syncid, lastid, cur, errflag, transfer, reply,
                 sessions, trouble>>

\* deleteSnapshot() after the last file: the point of commit.
CommitEpoch ==
  /\ spc = "files" /\ left = 0
  /\ snapshot' = Absent
  /\ spc' = "rename"
  /\ UNCHANGED <<rootdir, syncid, lastid, cur, errflag, transfer, reply,
                 sessions, trouble>>

CommitFails == /\ spc = "files" /\ left = 0
               /\ Return
               /\ UNCHANGED <<disk, reply, sessions, trouble>>

RenameId(ok) ==
  /\ spc = "rename"
  /\ IF ok
     THEN /\ syncid' = Absent /\ lastid' = syncid
          /\ spc' = "finish"
          /\ UNCHANGED <<cur, errflag, transfer>>
     ELSE UNCHANGED <<syncid, lastid>> /\ Return
  /\ UNCHANGED <<rootdir, snapshot, reply, sessions, trouble>>

Finish(sent) ==
  /\ spc = "finish"
  /\ reply' = IF sent THEN "finish" ELSE reply
  /\ Return
  /\ UNCHANGED <<disk, sessions, trouble>>

\* The process dies and is started again.
Crash == /\ reply' = "none"
         /\ Return
         /\ UNCHANGED <<disk, sessions, trouble>>

-----------------------------------------------------------------------------
ChunkOps == UNION {[1..k -> Op] : k \in 0..MaxChunkOps}

\* The steps that wait for nobody.
Step(ok) == \/ RevertDelete(ok) \/ RevertCreate(ok) \/ RevertDrop(ok)
            \/ DropStale(ok) \/ CreateBase(ok)
            \/ TruncateId(ok) \/ WriteId(ok) \/ Respond(ok)
            \/ RenameId(ok) \/ Finish(ok)

Local == \/ \E ok \in BOOLEAN : Step(ok)
         \/ ApplyOp \/ EndChunk
         \/ CommitEpoch \/ CommitFails

\* The steps that wait for a message.
Receive == \/ \E id \in SyncId, n \in 0..MaxFiles : RecvInit(id, n)
           \/ RefuseResource
           \/ \E ops \in ChunkOps, last \in BOOLEAN : RecvChunk(ops, last)
           \/ RecvFails

SNext == Accept \/ Receive \/ Local \/ Crash

SSpec == SInit /\ [][SNext]_svars

\* The process runs, and the transport reports a message or a dead peer.
SFairSpec == SSpec /\ WF_svars(Local) /\ WF_svars(Receive)

-----------------------------------------------------------------------------
(* Properties                                                              *)

\* The types of the variables of the daemon; operations are only handled
\* while files are missing, and only on a tree that is there.
TypeOK ==
  /\ rootdir \in Subvolume /\ snapshot \in Subvolume
  /\ syncid \in IdFile /\ lastid \in IdFile
  /\ spc \in Pcs /\ cur \in SyncId \union {Absent} /\ errflag \in BOOLEAN
  /\ left \in Nat /\ todo \in Seq(Op) /\ islast \in BOOLEAN
  /\ reply \in Replies /\ got \in Seq(Op) /\ chunks \in Nat
  /\ sessions \in Nat /\ trouble \in BOOLEAN
  /\ spc = "ops" => left > 0
  /\ spc \in {"truncateId", "writeId", "files", "ops"} => rootdir # Absent
  /\ spc = "respond" /\ ~errflag => rootdir # Absent

\* While an epoch is being received, and when its files are all there, the
\* tree is the snapshot plus exactly what was received, and the id on disk
\* is the one of this session (server.c:307-333): whatever stops the session
\* now, the next one reverts to the snapshot and nothing else.
ReceivingIsGuarded ==
  spc \in {"files", "ops"} =>
    /\ snapshot \in Seq(Op) /\ rootdir = snapshot \o got
    /\ syncid = cur /\ cur \in SyncId

\* A tree that no snapshot stands behind is there and is clean (the comment
\* at server.c:296-298): it is only replaced or extended behind a snapshot
\* with a readable id.
UnguardedIsWhole == ~HaveBase => rootdir \in Seq(Op)

\* Where syncInit() and the end of handleClient() stand, and what they have
\* established by then.
StepsInOrder ==
  /\ spc \in {"revertDelete", "revertCreate", "revertDrop"} => HaveBase
  /\ spc = "dropStale" => ~HaveBase
  /\ spc = "create" => snapshot = Absent
  /\ spc \in {"truncateId", "writeId"} =>
       rootdir \in Seq(Op) /\ snapshot = rootdir
  /\ spc = "writeId" => syncid = Empty
  /\ spc = "respond" /\ ~errflag =>
       rootdir \in Seq(Op) /\ snapshot = rootdir /\ syncid = cur
  /\ spc \in {"rename", "finish"} => snapshot = Absent
  /\ spc # "accept" /\ spc # "init" => cur \in SyncId
  /\ spc \notin {"files", "ops", "rename", "finish"} => got = <<>>

\* The three together, unless the revert block has lost the saved tree.
Guarded ==
  ~trouble => ReceivingIsGuarded /\ UnguardedIsWhole /\ StepsInOrder

\* The tree the mirror comes back to changes in one way only: by the whole of
\* what a session received after its last file, in the step that deletes the
\* snapshot (server.c:120).  Crashes, refusals, failing calls and half-done
\* reverts leave it as it was, unless the revert block has dropped the snapshot
\* without having put the tree back.
AtomicCommit ==
  [][~trouble' =>
       \/ Recovered' = Recovered
       \/ /\ spc = "files" /\ left = 0 /\ spc' = "rename"
          /\ Recovered' = Recovered \o got]_svars

\* Once SyncFinish was sent no crash or next session undoes the epoch: there
\* is no snapshot left to revert to (server.c:119-144).
ConfirmedIsFinal == reply = "finish" => snapshot = Absent

\* "This should not fail, if yes, we are in trouble" (server.c:279): a session
\* whose revert block loses the saved tree, by whichever of its three calls,
\* receives nothing; the client is told.
LossIsReported ==
  [][~trouble /\ trouble' => errflag' /\ spc' = "respond"]_svars

\* The daemon implements the abstract replica.
Replica == INSTANCE AtomicReplica WITH
  content <- IF trouble THEN <<>> ELSE Recovered,
  staged <- IF ~trouble /\ spc \in {"files", "ops"} THEN got ELSE <<>>,
  mode <- IF trouble THEN "idle"
          ELSE IF spc \in {"files", "ops"} THEN "receiving"
          ELSE IF spc = "rename" \/ spc = "finish" THEN "committed"
          ELSE "idle",
  lost <- trouble
ImplementsReplica == Replica!RSpec

\* Every session comes to an end and the server accepts again.
SessionsEnd == (spc # "accept") ~> (spc = "accept")
=============================================================================
