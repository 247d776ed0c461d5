-------------------------- MODULE SyncSession_proofs --------------------------
(***************************************************************************)
(* What holds of a source and its mirror together, for any number of       *)
(* operations, ids, connections and faults: what was recorded is at the    *)
(* mirror or still at the source, and the mirror only ever grows by the    *)
(* whole epoch that the source holds, in order and without a gap.          *)
(*                                                                         *)
(* Source and mirror are, taken by themselves, instances of SyncClient and *)
(* SyncServer, so that their theorems hold of them here; what is added is  *)
(* an invariant about what is in the connections between them.             *)
(***************************************************************************)
EXTENDS SyncSession, TLAPS

CP == INSTANCE SyncClient_proofs
SP == INSTANCE SyncServer_proofs WITH Op <- 1..MaxOps, SyncId <- C!Id,
                                      MaxFiles <- MaxOps, MaxChunks <- MaxOps,
                                      MaxChunkOps <- 1

-----------------------------------------------------------------------------
(* The inductive invariant.                                                *)

Ops == 1..MaxOps
InitMsg == [type : {"init"}, id : C!Id, n : 0..MaxOps]
FileMsg == [type : {"file"}, op : Ops]
Conn == [up : Seq(InitMsg \union FileMsg), open : BOOLEAN]
Epoch(s) == s \in Seq(Ops) /\ Len(s) <= MaxOps

Pending == IF pend = 0 THEN 0 ELSE 1

\* The number before the first one of .log.
Base == executed - Pending - Len(log)

\* Operations are recorded in the order in which they are executed.
LogInv == /\ executed \in 0..MaxOps /\ pend \in {0, executed}
          /\ Base >= 0
          /\ \A i \in 1..Len(log) : log[i] = Base + i
          /\ sync # Absent => Epoch(sync)
          /\ Epoch(epoch)

\* What is in the connections has its type; the client has a connection only
\* while it transfers, and the one it has opened last is its own.
NetInv ==
  /\ tpc \in {"connect", "init", "response", "files"} /\ sent \in 0..MaxOps
  /\ conn \in {"none", "open", "closed"} /\ down \in Seq(S!Replies)
  /\ queue \in Seq(Conn)
  /\ tpc = "connect" <=> conn = "none"
  /\ cpc # "transfer" => tpc = "connect"
  /\ tpc # "files" => sent = 0
  /\ conn = "open" => queue # <<>>
  /\ spc # "accept" => queue # <<>>

\* Nothing is left of a session that is over.
IdleInv == spc \in {"accept", "init"} => got = <<>> /\ todo = <<>>

\* The last operation the mirror has.
Reached == IF Mirror = <<>> THEN 0 ELSE Mirror[Len(Mirror)]

\* The mirror has all that was switched so far.
Arrived == /\ Reached = Base
           /\ sync # Absent => \A i \in 1..Len(sync) : sync[i] \in ToSet(Mirror)

Dropping == {"dropSnap", "dropId", "dropSync"}

\* No operation is there without the one before it.
Gapless == \A i \in 1..Len(Mirror) :
             Mirror[i] <= 1 + (IF i = 1 THEN 0 ELSE Mirror[i - 1])

\* .sync goes on where what the mirror has ends, unless the mirror has it too,
\* and .log goes on where that ends.
MirrorInv ==
  /\ Gapless
  /\ sync = Absent => Reached = Base
  /\ sync # Absent => /\ Base - Len(sync) >= 0
                      /\ \A i \in 1..Len(sync) : sync[i] = Base - Len(sync) + i
                      /\ Reached \in {Base - Len(sync), Base}
  /\ acked \subseteq ToSet(Mirror)
  /\ cpc \in Dropping => Arrived /\ queue = <<>>

\* Messages of which k files have gone before carry epoch s from there on.
Carries(up, k, s) ==
  /\ k + Len(up) <= Len(s)
  /\ \A j \in 1..Len(up) : up[j] \in FileMsg /\ up[j].op = s[k + j]

\* A connection with epoch s nothing was read of yet.
Fresh(up, s) ==
  /\ Len(up) <= Len(s) + 1
  /\ up # <<>> => up[1] \in InitMsg /\ up[1].n = Len(s)
  /\ \A j \in 2..Len(up) : up[j] \in FileMsg /\ up[j].op = s[j - 1]

Before == {"revertDelete", "revertCreate", "revertDrop", "dropStale", "create",
           "truncateId", "writeId", "respond"}
Receiving == {"files", "ops"}
After == {"rename", "finish"}
Handling == spc \in Before \union Receiving \union After

\* The connections carry .sync, all of it or a part.
StreamInv ==
  /\ queue # <<>> => sync # Absent
  /\ \A k \in 1..Len(queue) : k > 1 \/ ~Handling => Fresh(queue[k].up, sync)

\* What the server has received is how .sync begins, and the rest of it comes.
SessionInv ==
  /\ spc \in Before => /\ got = <<>> /\ todo = <<>> /\ left = Len(sync)
                       /\ Carries(queue[1].up, 0, sync)
  /\ spc \in Receiving => /\ Len(got) <= Len(sync)
                          /\ \A j \in 1..Len(got) : got[j] = sync[j]
                          /\ Carries(queue[1].up, Len(got) + Len(todo), sync)
  /\ spc = "files" => todo = <<>> /\ left = Len(sync) - Len(got)
  /\ spc = "ops" => /\ islast
                    /\ \/ todo = <<>> /\ left = Len(sync) - Len(got) + 1
                       \/ /\ Len(todo) = 1 /\ Len(got) < Len(sync)
                          /\ todo[1] = sync[Len(got) + 1]
                          /\ left = Len(sync) - Len(got)
  /\ spc \in After => /\ Arrived /\ queue[1].up = <<>>
                      /\ Len(got) = Len(sync) /\ todo = <<>>

\* What the client has sent on its connection is what has been received there
\* and what is under way, and what comes back belongs to it.
SenderInv ==
  /\ tpc \in {"connect", "init"} => down = <<>>
  /\ conn = "open" /\ ~(Len(queue) = 1 /\ Handling) =>
       /\ down = <<>> /\ tpc \in {"init", "response"}
       /\ Len(queue[Len(queue)].up) = IF tpc = "init" THEN 0 ELSE 1
  /\ conn = "open" /\ Len(queue) = 1 /\ Handling =>
       /\ spc \in Before =>
            tpc = "response" /\ down = <<>> /\ queue[1].up = <<>>
       /\ spc \notin Before =>
            /\ \/ tpc = "response" /\ down = <<"continue">>
               \/ tpc = "files" /\ down = <<>>
            /\ Len(got) + Len(todo) + Len(queue[1].up) = sent
  /\ \A i \in 1..Len(down) : i > 1 \/ tpc = "files" => down[i] = "finish"
  /\ \A i \in 1..Len(down) :
       down[i] = "finish" => Arrived /\ conn = "closed" /\ queue = <<>>

\* All of it, as long as no switch has replaced a .sync file and the mirror has
\* not lost its saved tree.
Sound == MirrorInv /\ StreamInv /\ SessionInv /\ SenderInv
InOrder == ~clobbered /\ ~trouble => Sound

-----------------------------------------------------------------------------
(* The definitions of SyncClient and SyncServer, as SyncSession and as their *)
(* proof modules instantiate them, are the same.                           *)

\* The definitions of the source.
LEMMA SameClient == /\ C!CInit <=> CP!CInit
                    /\ C!CNext <=> CP!CNext
                    /\ cvars = CP!cvars
                    /\ C!CTypeOK <=> CP!CTypeOK
                    /\ C!NoLoss <=> CP!NoLoss
                    /\ \A f : C!OpsOf(f) = CP!OpsOf(f)
<1>1. /\ C!CInit <=> CP!CInit
      /\ C!CNext <=> CP!CNext
      /\ cvars = CP!cvars
  BY DEF cvars, C!CNext, C!FsNext, C!ClientNext, C!ClientStep, C!Execute,
     C!Record, C!RenameLog, C!Switch, C!SwitchFails, C!Id, C!FsCrash,
     C!FsStart, C!Open, C!Signal, C!Answer, C!Timeout, C!KeepId, C!GenerateId,
     C!ClientTruncateId, C!ClientWriteId, C!KeepSnapshot, C!TakeSnapshot,
     C!Transfer, C!DropSnapshot, C!DropId, C!DropSync, C!ToSet, C!ClientCrash,
     C!Advance, C!Exit, C!fs, C!process, C!ghosts, C!CInit, C!cvars, CP!CNext,
     CP!FsNext, CP!ClientNext, CP!ClientStep, CP!Execute, CP!Record,
     CP!RenameLog, CP!Switch, CP!SwitchFails, CP!Id, CP!FsCrash, CP!FsStart,
     CP!Open, CP!Signal, CP!Answer, CP!Timeout, CP!KeepId, CP!GenerateId,
     CP!ClientTruncateId, CP!ClientWriteId, CP!KeepSnapshot, CP!TakeSnapshot,
     CP!Transfer, CP!DropSnapshot, CP!DropId, CP!DropSync, CP!ToSet,
     CP!ClientCrash, CP!Advance, CP!Exit, CP!fs, CP!process, CP!ghosts,
     CP!CInit, CP!cvars
<1>2. C!CTypeOK <=> CP!CTypeOK
  BY DEF C!CTypeOK, CP!CTypeOK, C!CPcs, CP!CPcs, C!Id, CP!Id
<1>3. \A f : C!OpsOf(f) = CP!OpsOf(f)
  BY DEF C!OpsOf, CP!OpsOf, C!ToSet, CP!ToSet
<1>4. C!NoLoss <=> CP!NoLoss
  BY DEF C!NoLoss, CP!NoLoss, C!OpsOf, CP!OpsOf, C!ToSet, CP!ToSet
<1> QED BY <1>1, <1>2, <1>3, <1>4

\* The definitions of the mirror.
LEMMA SameServer == /\ S!SInit <=> SP!SInit
                    /\ S!SNext <=> SP!SNext
                    /\ svars = SP!svars
                    /\ S!TypeOK <=> SP!TypeOK
                    /\ S!Guarded <=> SP!Guarded
                    /\ S!Recovered = SP!Recovered
<1>1. /\ S!SInit <=> SP!SInit
      /\ S!SNext <=> SP!SNext
      /\ svars = SP!svars
  BY DEF svars, S!svars, S!disk, S!transfer, S!SInit, S!Id, S!Readable,
     S!HaveBase, S!Return, S!Accept, S!RecvInit, S!RefuseResource,
     S!RevertDelete, S!RevertCreate, S!RevertDrop, S!DropStale, S!CreateBase,
     S!TruncateId, S!WriteId, S!Respond, S!RecvChunk, S!ApplyOp, S!EndChunk,
     S!RecvFails, S!CommitEpoch, S!CommitFails, S!RenameId, S!Finish, S!Crash,
     S!ChunkOps, S!Step, S!Local, S!Receive, S!SNext, SP!svars, SP!disk,
     SP!transfer, SP!SInit, SP!Id, SP!Readable, SP!HaveBase, SP!Return,
     SP!Accept, SP!RecvInit, SP!RefuseResource, SP!RevertDelete,
     SP!RevertCreate, SP!RevertDrop, SP!DropStale, SP!CreateBase,
     SP!TruncateId, SP!WriteId, SP!Respond, SP!RecvChunk, SP!ApplyOp,
     SP!EndChunk, SP!RecvFails, SP!CommitEpoch, SP!CommitFails, SP!RenameId,
     SP!Finish, SP!Crash, SP!ChunkOps, SP!Step, SP!Local, SP!Receive, SP!SNext
<1>2. S!TypeOK <=> SP!TypeOK
  BY DEF S!TypeOK, SP!TypeOK, S!Subvolume, S!IdFile, S!Pcs, S!Replies,
     SP!Subvolume, SP!IdFile, SP!Pcs, SP!Replies, S!Id, SP!Id
<1>3. S!Guarded <=> SP!Guarded
  BY DEF S!Guarded, S!ReceivingIsGuarded, S!UnguardedIsWhole, S!StepsInOrder,
     S!HaveBase, S!Readable, SP!Guarded, SP!ReceivingIsGuarded,
     SP!UnguardedIsWhole, SP!StepsInOrder, SP!HaveBase, SP!Readable, S!Id,
     SP!Id
<1>4. S!Recovered = SP!Recovered
  BY DEF S!Recovered, S!HaveBase, S!Readable, SP!Recovered, SP!HaveBase,
     SP!Readable, S!Id, SP!Id
<1> QED BY <1>1, <1>2, <1>3, <1>4

\* The set of a sequence's members, as SyncClient names it.
LEMMA SameToSet == \A s : C!ToSet(s) = ToSet(s)
  BY DEF C!ToSet, ToSet

\* A sequence over a set is one over a larger set.
LEMMA SeqOver ==
  ASSUME NEW A, NEW B, A \subseteq B, NEW s \in Seq(A)
  PROVE  s \in Seq(B)
  OBVIOUS

\* What the constants of the two instances are assumed to be.
LEMMA ServerConstants ==
  /\ Absent \notin C!Id /\ Empty \notin C!Id
  /\ Absent # Empty /\ Partial \notin {Absent, Empty}
  /\ Absent \notin Seq(Ops)
  /\ MaxSessions \in Nat /\ MaxOps \in Nat /\ 1 \in Nat
<1>1. Absent \notin Seq(Ops)
  <2> SUFFICES ASSUME Absent \in Seq(Ops) PROVE FALSE
    OBVIOUS
  <2>1. Absent \in Seq(Nat)
    <3>1. Ops \subseteq Nat
      BY SessionAssumption DEF Ops
    <3> QED BY <3>1, SeqOver
  <2> QED BY <2>1, SessionAssumption
<1> QED BY <1>1, SessionAssumption DEF C!Id

-----------------------------------------------------------------------------
\* What SyncClient establishes about the variables of the source.
Taken == {"id", "truncateId", "writeId", "snap", "transfer", "dropSnap",
          "dropId", "dropSync"}
ClientFacts ==
  /\ C!CTypeOK /\ C!NoLoss
  /\ answered => cpc = "wait" /\ sync # Absent
  /\ cpc \in Taken => sync # Absent /\ (~clobbered => epoch = sync)
  /\ cpc = "transfer" => idfile \in C!Id

\* They follow from its inductive invariant.
LEMMA ClientPromises == CP!CInv => ClientFacts
  BY SameClient DEF CP!CInv, CP!ReqInv, CP!HeldInv, CP!IdInv, CP!Holding,
     CP!CPcs, C!Id, CP!Id, ClientFacts, Taken

\* The invariant of SyncClient is inductive here as it is there.
LEMMA ClientInit == C!CInit => CP!CInv
<1>1. CP!CInit => CP!CTypeOK
  BY CP!CTypeInit, SessionAssumption
<1>2. CP!CInit => CP!HeldInv
  BY CP!HeldInit, SessionAssumption
<1>3. CP!CInit => CP!IdInv
  BY CP!IdInit, SessionAssumption
<1>4. CP!CInit => CP!SnapInv
  BY CP!SnapInit, SessionAssumption
<1>5. CP!CInit => CP!ReqInv
  BY DEF CP!CInit, CP!ReqInv
<1> QED BY <1>1, <1>2, <1>3, <1>4, <1>5, SameClient DEF CP!CInv

\* Every step of the source keeps it.
LEMMA ClientStep == CP!CInv /\ [C!CNext]_cvars => CP!CInv'
<1>1. CP!CTypeOK /\ CP!ReqInv /\ [CP!CNext]_(CP!cvars)
        => CP!CTypeOK' /\ CP!ReqInv'
  BY CP!CTypeStep, SessionAssumption
<1>2. CP!CTypeOK /\ CP!ReqInv /\ CP!HeldInv /\ [CP!CNext]_(CP!cvars)
        => CP!HeldInv'
  BY CP!HeldStep, SessionAssumption
<1>3. CP!CTypeOK /\ CP!ReqInv /\ CP!HeldInv /\ CP!IdInv
        /\ [CP!CNext]_(CP!cvars) => CP!IdInv'
  BY CP!IdStep, SessionAssumption
<1>4. CP!CTypeOK /\ CP!ReqInv /\ CP!HeldInv /\ CP!SnapInv
        /\ [CP!CNext]_(CP!cvars) => CP!SnapInv'
  BY CP!SnapStep, SessionAssumption
<1>5. [C!CNext]_cvars => [CP!CNext]_(CP!cvars)
  <2>1. UNCHANGED cvars => UNCHANGED CP!cvars
    BY DEF cvars, CP!cvars
  <2> QED BY <2>1, SameClient
<1> QED BY <1>1, <1>2, <1>3, <1>4, <1>5 DEF CP!CInv

\* What SyncServer establishes about the variables of the mirror.
ServerFacts == S!TypeOK /\ S!Guarded

\* Its invariants are inductive here as they are there.
LEMMA ServerInit == S!SInit => ServerFacts
<1>1. SP!SInit => SP!TypeOK
  BY SP!TypeInit, ServerConstants DEF Ops
<1>2. SP!SInit => SP!Guarded
  BY SP!GuardedInit, ServerConstants DEF Ops
<1> QED BY <1>1, <1>2, SameServer DEF ServerFacts

\* The steps of the mirror in both instances.
LEMMA SameServerStep == [S!SNext]_svars => [SP!SNext]_(SP!svars)
<1>1. UNCHANGED svars => UNCHANGED SP!svars
  BY DEF svars, SP!svars
<1> QED BY <1>1, SameServer

\* The invariants of the mirror in both instances, after a step.
LEMMA SameServerPrimed == /\ S!TypeOK' <=> SP!TypeOK'
                          /\ S!Guarded' <=> SP!Guarded'
                          /\ S!Recovered' = SP!Recovered'
<1>1. (S!TypeOK <=> SP!TypeOK)' /\ (S!Guarded <=> SP!Guarded)'
        /\ (S!Recovered = SP!Recovered)'
  <2>1. /\ S!TypeOK <=> SP!TypeOK
        /\ S!Guarded <=> SP!Guarded
        /\ S!Recovered = SP!Recovered
    BY SameServer
  <2> QED BY <2>1, PTL
<1> QED BY <1>1

\* Every step of the mirror keeps them.
LEMMA ServerStep == ServerFacts /\ [S!SNext]_svars => ServerFacts'
<1>1. SP!TypeOK /\ [SP!SNext]_(SP!svars) => SP!TypeOK'
  BY SP!TypeStep, ServerConstants DEF Ops
<1>2. SP!TypeOK /\ SP!Guarded /\ [SP!SNext]_(SP!svars) => SP!Guarded'
  BY SP!GuardedStep, ServerConstants DEF Ops
<1> QED
  BY <1>1, <1>2, SameServer, SameServerStep, SameServerPrimed DEF ServerFacts

\* The mirror changes only when an epoch is committed.
LEMMA ServerCommits ==
  ASSUME ServerFacts, [S!SNext]_svars, ~trouble'
  PROVE  \/ Mirror' = Mirror
         \/ /\ spc = "files" /\ left = 0 /\ spc' = "rename"
            /\ Mirror' = Mirror \o got
<1>1. SP!TypeOK /\ SP!Guarded /\ [SP!SNext]_(SP!svars)
  BY SameServer, SameServerStep DEF ServerFacts
<1>2. \/ SP!Recovered' = SP!Recovered
      \/ /\ spc = "files" /\ left = 0 /\ spc' = "rename"
         /\ SP!Recovered' = SP!Recovered \o got
  BY <1>1, SP!CommitStep, ServerConstants DEF Ops
<1> QED BY <1>2, SameServer, SameServerPrimed DEF Mirror

-----------------------------------------------------------------------------
\* A step of the source, whose file system only dies between operations here.
SourceNext == C!Execute \/ C!Record \/ C!Switch \/ C!SwitchFails
              \/ (pend = 0 /\ C!FsCrash) \/ C!FsStart \/ C!ClientNext

\* A step of the whole is one of the source or leaves it alone ...
LEMMA ClientSteps == [Next]_vars => [SourceNext]_cvars
<1> SUFFICES ASSUME [Next]_vars PROVE [SourceNext]_cvars
  OBVIOUS
<1> USE DEF SourceNext, C!ClientNext, C!ClientStep
<1>1. CASE Filesystem
  BY <1>1 DEF Filesystem
<1>2. CASE ClientLocal
  BY <1>2 DEF ClientLocal, Start, GiveUp, NewId
<1>3. CASE ClientTransfer
  BY <1>3 DEF ClientTransfer, Connect, SendInit, RecvResponse, SendFile,
              TransferDone, TransferFails
<1>4. CASE Server
  BY <1>4 DEF Server, ServerAccept, ServerRecv, ServerRecvFails, ServerSend,
              ServerLocal
<1>5. CASE Faults
  BY <1>5 DEF Faults, CallFails, ClientDies, FilesystemDies, SwitchFails,
              ClientCallFails, ServerCallFails, ServerGivesUp, ServerDies,
              ConnectionBreaks
<1>6. CASE UNCHANGED vars
  BY <1>6 DEF vars
<1> QED BY <1>1, <1>2, <1>3, <1>4, <1>5, <1>6 DEF Next, Client

\* The numbers of recorded operations stay in order.
LEMMA LogStep == LogInv /\ ClientFacts /\ [SourceNext]_cvars => LogInv'
<1> SUFFICES ASSUME LogInv, ClientFacts, [SourceNext]_cvars PROVE LogInv'
  OBVIOUS
<1>0. /\ log \in Seq(Nat) /\ executed \in 0..MaxOps /\ pend \in {0, executed}
      /\ MaxOps \in Nat
  BY SessionAssumption DEF LogInv, ClientFacts, C!CTypeOK
<1>e. Epoch(<<>>)
  BY <1>0 DEF Epoch
<1> USE DEF LogInv, Base, Pending
<1>1. CASE C!Execute
  <2>1. /\ executed' = executed + 1 /\ pend = 0 /\ pend' = executed'
        /\ executed < MaxOps /\ UNCHANGED <<log, sync, epoch>>
    BY <1>1 DEF C!Execute, C!process
  <2>2. Base' = Base
    BY <1>0, <2>1
  <2> QED BY <1>0, <2>1, <2>2
<1>2. CASE C!Record
  <2>1. /\ pend # 0 /\ pend = executed /\ pend' = 0 /\ log' = Append(log, pend)
        /\ UNCHANGED <<executed, sync, epoch>>
    BY <1>2 DEF C!Record, C!process
  <2>2. Base' = Base /\ Len(log') = Len(log) + 1 /\ log'[Len(log) + 1] = pend
        /\ \A i \in 1..Len(log) : log'[i] = log[i]
    BY <1>0, <2>1
  <2>3. \A i \in 1..Len(log') : log'[i] = Base' + i
    <3>1. Base + Len(log') = pend
      BY <1>0, <2>1, <2>2
    <3>2. \A i \in 1..Len(log) : log'[i] = Base' + i
      BY <2>2
    <3>3. ASSUME NEW i \in 1..Len(log') PROVE log'[i] = Base' + i
      <4>1. CASE i \in 1..Len(log)
        BY <3>2, <4>1
      <4>2. CASE i = Len(log) + 1
        <5>1. log'[i] = pend
          BY <2>2, <4>2
        <5>2. Base' + i = pend
          BY <2>2, <3>1, <4>2
        <5> QED BY <5>1, <5>2
      <4>3. Len(log') = Len(log) + 1 /\ Len(log) \in Nat
        BY <1>0, <2>2
      <4> QED BY <4>1, <4>2, <4>3
    <3> QED BY <3>3
  <2> QED BY <1>0, <2>1, <2>2, <2>3
<1>3. CASE C!RenameLog /\ UNCHANGED <<executed, pend, epoch>>
  <2>1. sync' = log /\ log' = <<>> /\ UNCHANGED <<executed, pend, epoch>>
    BY <1>3 DEF C!RenameLog
  <2>2. Epoch(log)
    <3>1. Len(log) <= MaxOps
      BY <1>0
    <3>2. \A i \in 1..Len(log) : log[i] \in Ops
      BY <1>0 DEF Ops
    <3> QED BY <1>0, <3>1, <3>2 DEF Epoch
  <2>3. Len(log') = 0 /\ Base' >= 0
    BY <1>0, <2>1
  <2> QED BY <1>0, <2>1, <2>2, <2>3
<1>4. CASE C!ClientNext
  <2>1. UNCHANGED <<executed, pend, log>> /\ sync' \in {sync, Absent}
    BY <1>4 DEF C!ClientNext, C!ClientStep, C!Open, C!Signal, C!Answer,
       C!Timeout, C!KeepId, C!GenerateId, C!ClientTruncateId, C!ClientWriteId,
       C!KeepSnapshot, C!TakeSnapshot, C!Transfer, C!DropSnapshot, C!DropId,
       C!DropSync, C!ClientCrash, C!fs
  <2>2. epoch' \in {epoch, <<>>} \/ (sync # Absent /\ epoch' = sync)
    BY <1>4 DEF C!ClientNext, C!ClientStep, C!Open, C!Signal, C!Answer,
       C!Timeout, C!KeepId, C!GenerateId, C!ClientTruncateId, C!ClientWriteId,
       C!KeepSnapshot, C!TakeSnapshot, C!Transfer, C!DropSnapshot, C!DropId,
       C!DropSync, C!ClientCrash, C!process, C!Exit, C!Advance, ClientFacts
  <2>3. Epoch(epoch')
    BY <1>e, <2>2
  <2> QED BY <2>1, <2>3
<1>5. CASE UNCHANGED <<executed, pend, log, sync, epoch>>
  BY <1>5
<1>6. CASE C!Switch \/ C!SwitchFails
  <2>1. UNCHANGED <<executed, pend, epoch>>
        /\ (C!RenameLog \/ UNCHANGED <<log, sync>>)
    BY <1>6 DEF C!Switch, C!SwitchFails, C!process
  <2> QED BY <1>3, <1>5, <2>1
<1>7. CASE (pend = 0 /\ C!FsCrash) \/ C!FsStart \/ UNCHANGED cvars
  BY <1>5, <1>7 DEF C!FsCrash, C!FsStart, C!process, cvars
<1> QED BY <1>1, <1>2, <1>4, <1>6, <1>7 DEF SourceNext

-----------------------------------------------------------------------------
(* What sending, receiving and losing a connection do to the queue.        *)

Msg == InitMsg \union FileMsg

\* A connection is what is on its way and whether its other end is open.
LEMMA ConnFacts ==
  /\ \A c \in Conn : c.up \in Seq(Msg) /\ c.open \in BOOLEAN
  /\ \A u \in Seq(Msg), o \in BOOLEAN : [up |-> u, open |-> o] \in Conn
  BY DEF Conn, Msg

\* What is on its way on a connection changes.
LEMMA UpReplaced ==
  ASSUME NEW c \in Conn, NEW u
  PROVE  [c EXCEPT !.up = u] = [up |-> u, open |-> c.open]
  BY DEF Conn

\* A sequence in which the last member is replaced.
LEMMA LastReplaced ==
  ASSUME NEW q \in Seq(Conn), q # <<>>, NEW c \in Conn
  PROVE  LET r == [q EXCEPT ![Len(q)] = c]
         IN  /\ r \in Seq(Conn) /\ Len(r) = Len(q) /\ r # <<>>
             /\ r[Len(q)] = c
             /\ \A k \in 1..Len(q) : k # Len(q) => r[k] = q[k]
  OBVIOUS

\* A message is sent on the connection that was opened last.
LEMMA PushFacts ==
  ASSUME queue \in Seq(Conn), queue # <<>>, NEW m \in Msg, Push(m)
  PROVE  /\ queue' \in Seq(Conn) /\ Len(queue') = Len(queue) /\ queue' # <<>>
         /\ queue'[Len(queue)].up = Append(queue[Len(queue)].up, m)
         /\ \A k \in 1..Len(queue) : k # Len(queue) => queue'[k] = queue[k]
<1> DEFINE n == Len(queue)
           c == [up |-> Append(queue[n].up, m), open |-> queue[n].open]
<1>1. n \in 1..Len(queue) /\ queue[n] \in Conn
  OBVIOUS
<1>2. queue[n].up \in Seq(Msg) /\ queue[n].open \in BOOLEAN
  BY <1>1, ConnFacts
<1>3. c \in Conn
  <2>1. Append(queue[n].up, m) \in Seq(Msg)
    BY <1>2
  <2> QED BY <1>2, <2>1, ConnFacts
<1>4. queue' = [queue EXCEPT ![n] = c]
  <2>1. [queue[n] EXCEPT !.up = Append(queue[n].up, m)] = c
    BY <1>1, UpReplaced
  <2> QED BY <2>1 DEF Push
<1> HIDE DEF c
<1>5. /\ queue' \in Seq(Conn) /\ Len(queue') = Len(queue) /\ queue' # <<>>
      /\ queue'[n] = c
      /\ \A k \in 1..Len(queue) : k # Len(queue) => queue'[k] = queue[k]
  BY <1>3, <1>4, LastReplaced
<1> QED BY <1>5 DEF c

\* A message is received from the connection that is handled.
LEMMA PopFacts ==
  ASSUME queue \in Seq(Conn), queue # <<>>, Incoming # <<>>, Pop
  PROVE  /\ queue' \in Seq(Conn) /\ Len(queue') = Len(queue) /\ queue' # <<>>
         /\ queue'[1].up \in Seq(Msg)
         /\ Len(queue'[1].up) = Len(queue[1].up) - 1
         /\ \A j \in 1..Len(queue'[1].up) :
              queue'[1].up[j] = queue[1].up[j + 1]
         /\ \A k \in 2..Len(queue) : queue'[k] = queue[k]
         /\ Head(Incoming) = queue[1].up[1] /\ Head(Incoming) \in Msg
         /\ Len(queue[1].up) \in Nat \ {0}
<1> DEFINE u == queue[1].up
           c == [up |-> Tail(u), open |-> queue[1].open]
<1>1. 1 \in 1..Len(queue) /\ queue[1] \in Conn
  OBVIOUS
<1>2. u \in Seq(Msg) /\ u # <<>> /\ queue[1].open \in BOOLEAN
  BY <1>1, ConnFacts DEF Incoming
<1>t. /\ Tail(u) \in Seq(Msg) /\ Len(Tail(u)) = Len(u) - 1
      /\ \A j \in 1..Len(Tail(u)) : Tail(u)[j] = u[j + 1]
      /\ Head(u) = u[1] /\ Head(u) \in Msg /\ Len(u) \in Nat \ {0}
  <2> HIDE DEF u
  <2> QED BY <1>2
<1>3. c \in Conn
  BY <1>2, <1>t, ConnFacts
<1>4. queue' = [queue EXCEPT ![1] = c]
  <2>1. [queue[1] EXCEPT !.up = Tail(u)] = c
    BY <1>1, UpReplaced
  <2> QED BY <2>1 DEF Pop
<1> HIDE DEF c
<1>5. /\ queue' \in Seq(Conn) /\ Len(queue') = Len(queue) /\ queue' # <<>>
      /\ queue'[1] = c
      /\ \A k \in 2..Len(queue) : queue'[k] = queue[k]
  BY <1>1, <1>3, <1>4
<1> QED BY <1>5, <1>t DEF c, Incoming

\* The client's end is gone: of what was sent last some is lost.
LEMMA CutFacts ==
  ASSUME queue \in Seq(Conn), conn = "open" => queue # <<>>, CutUp
  PROVE  /\ queue' \in Seq(Conn) /\ Len(queue') = Len(queue)
         /\ queue' # <<>> <=> queue # <<>>
         /\ \A k \in 1..Len(queue) :
              /\ Len(queue'[k].up) <= Len(queue[k].up)
              /\ \A j \in 1..Len(queue'[k].up) :
                   queue'[k].up[j] = queue[k].up[j]
<1>1. CASE conn # "open"
  <2>1. \A k \in 1..Len(queue) : Len(queue[k].up) \in Nat
    BY ConnFacts
  <2> QED BY <1>1, <2>1 DEF CutUp
<1>2. CASE conn = "open"
  <2> DEFINE n == Len(queue)
             u == queue[n].up
  <2>0. queue # <<>> /\ n \in 1..Len(queue) /\ queue[n] \in Conn
    BY <1>2
  <2>1. u \in Seq(Msg)
    BY <2>0, ConnFacts
  <2>2. PICK k \in 0..Len(u) :
          queue' = [queue EXCEPT
                      ![n] = [up |-> SubSeq(u, 1, k), open |-> FALSE]]
    BY <1>2 DEF CutUp, Last
  <2> DEFINE c == [up |-> SubSeq(u, 1, k), open |-> FALSE]
  <2>3. /\ SubSeq(u, 1, k) \in Seq(Msg) /\ Len(SubSeq(u, 1, k)) = k
        /\ \A j \in 1..k : SubSeq(u, 1, k)[j] = u[j]
    <3> HIDE DEF u
    <3> QED BY <2>1
  <2>4. c \in Conn
    BY <2>3, ConnFacts
  <2>5. queue' = [queue EXCEPT ![n] = c]
    BY <2>2
  <2> HIDE DEF c
  <2>6. /\ queue' \in Seq(Conn) /\ Len(queue') = Len(queue) /\ queue' # <<>>
        /\ queue'[n] = c
        /\ \A i \in 1..Len(queue) : i # Len(queue) => queue'[i] = queue[i]
    BY <2>0, <2>4, <2>5, LastReplaced
  <2>7. c.up = SubSeq(u, 1, k)
    BY DEF c
  <2>8. Len(queue'[n].up) <= Len(queue[n].up)
        /\ \A j \in 1..Len(queue'[n].up) : queue'[n].up[j] = queue[n].up[j]
    BY <2>1, <2>3, <2>6, <2>7
  <2>9. \A i \in 1..Len(queue) : Len(queue[i].up) \in Nat
    BY ConnFacts
  <2> QED BY <2>0, <2>6, <2>8, <2>9
<1> QED BY <1>1, <1>2

\* The first connection is finished.
LEMMA TailFacts ==
  ASSUME queue \in Seq(Conn), queue # <<>>
  PROVE  /\ Tail(queue) \in Seq(Conn) /\ Len(Tail(queue)) = Len(queue) - 1
         /\ \A k \in 1..Len(Tail(queue)) : Tail(queue)[k] = queue[k + 1]
         /\ Tail(queue) # <<>> <=> Len(queue) # 1
<1>1. /\ Tail(queue) \in Seq(Conn) /\ Len(Tail(queue)) = Len(queue) - 1
      /\ \A k \in 1..Len(Tail(queue)) : Tail(queue)[k] = queue[k + 1]
  OBVIOUS
<1>2. \A s \in Seq(Conn) : s = <<>> <=> Len(s) = 0
  OBVIOUS
<1>3. Len(queue) \in Nat
  OBVIOUS
<1>4. Tail(queue) = <<>> <=> Len(Tail(queue)) = 0
  BY <1>1, <1>2
<1>5. Tail(queue) = <<>> <=> Len(queue) = 1
  BY ONLY <1>1, <1>3, <1>4
<1> QED BY <1>1, <1>5

\* A connection is opened.
LEMMA OpenFacts ==
  ASSUME queue \in Seq(Conn), NEW c \in Conn
  PROVE  /\ Append(queue, c) \in Seq(Conn)
         /\ Len(Append(queue, c)) = Len(queue) + 1 /\ Append(queue, c) # <<>>
         /\ Append(queue, c)[Len(queue) + 1] = c
         /\ \A k \in 1..Len(queue) : Append(queue, c)[k] = queue[k]
  OBVIOUS

-----------------------------------------------------------------------------
\* What the steps of the source do that are not about the connection.
LEMMA FilesystemEffect ==
  Filesystem \/ SwitchFails \/ FilesystemDies =>
    UNCHANGED <<idfile, cpc, epoch, acked, svars, net>>
  BY DEF Filesystem, SwitchFails, FilesystemDies, C!Execute, C!Record,
     C!Switch, C!SwitchFails, C!FsCrash, C!FsStart, C!process, C!ghosts

\* A step of synchronize() outside transfer() changes .sync only to remove it.
LEMMA LocalEffect ==
  ClientLocal \/ ClientCallFails =>
    /\ cpc # "transfer"
    /\ UNCHANGED <<executed, pend, log, acked, clobbered, svars, net>>
    /\ \/ sync' = sync /\ (cpc' \in Dropping => cpc \in Dropping)
       \/ sync' = Absent /\ cpc = "dropSync" /\ cpc' = "idle"
  BY DEF ClientLocal, ClientCallFails, Start, GiveUp, NewId, C!Open, C!Signal,
     C!Answer, C!Timeout, C!KeepId, C!GenerateId, C!ClientTruncateId,
     C!ClientWriteId, C!KeepSnapshot, C!TakeSnapshot, C!DropSnapshot, C!DropId,
     C!DropSync, Dropping, C!Advance, C!Exit, C!fs, C!process, C!ghosts

\* The steps of the mirror that need no message: nothing comes or goes, and the
\* session stays where it is or goes on to its next part.
LEMMA ServerLocalEffect ==
  ServerLocal \/ ServerCallFails =>
    /\ spc \notin {"accept", "init"}
    /\ spc' \notin {"accept", "init"}
    /\ UNCHANGED <<cvars, net, reply, sessions>>
  BY DEF ServerLocal, ServerCallFails, S!RevertDelete, S!RevertCreate,
     S!RevertDrop, S!DropStale, S!CreateBase, S!TruncateId, S!WriteId,
     S!RenameId, S!ApplyOp, S!EndChunk, S!CommitEpoch

\* What is in the connections keeps its type.
LEMMA NetStep ==
  NetInv /\ LogInv /\ ClientFacts /\ ServerFacts /\ [Next]_vars => NetInv'
<1> SUFFICES ASSUME NetInv, LogInv, ClientFacts, ServerFacts, [Next]_vars
             PROVE  NetInv'
  OBVIOUS
<1>0. MaxOps \in Nat
  BY SessionAssumption
<1>s. <<>> \in Seq(S!Replies) /\ <<>> \in Seq(Msg)
  OBVIOUS
<1>q. queue \in Seq(Conn)
  BY DEF NetInv
<1>1. CASE Filesystem \/ SwitchFails \/ FilesystemDies \/ ClientLocal
           \/ ClientCallFails \/ UNCHANGED vars
  <2>1. /\ UNCHANGED <<spc, net>>
        /\ cpc' # "transfer" => cpc # "transfer" \/ cpc' = cpc
    BY <1>1, FilesystemEffect, LocalEffect DEF net, svars, vars, cvars
  <2> QED BY <1>1, <2>1, LocalEffect DEF NetInv, net
<1>2. CASE Connect
  <2>1. [up |-> <<>>, open |-> TRUE] \in Conn
    BY <1>s, ConnFacts
  <2>2. queue' \in Seq(Conn) /\ queue' # <<>>
    BY <1>2, <1>q, <2>1, OpenFacts DEF Connect
  <2> QED BY <1>2, <2>2 DEF Connect, NetInv, cvars, svars
<1>3. CASE SendInit
  <2>1. [type |-> "init", id |-> idfile, n |-> Len(epoch)] \in Msg
    BY <1>3, <1>0 DEF SendInit, Msg, InitMsg, ClientFacts, LogInv, Epoch
  <2>2. queue' \in Seq(Conn) /\ queue' # <<>>
    BY <1>3, <1>q, <2>1, PushFacts DEF SendInit, NetInv
  <2> QED BY <1>3, <2>2 DEF SendInit, NetInv, cvars, svars
<1>4. CASE RecvResponse
  <2>1. down' \in Seq(S!Replies)
    BY <1>4 DEF RecvResponse, NetInv
  <2> QED BY <1>4, <2>1 DEF RecvResponse, NetInv, cvars, svars
<1>5. CASE SendFile
  <2>1. sent \in Nat /\ sent < Len(epoch) /\ sent + 1 \in 1..Len(epoch)
        /\ sent' = sent + 1 /\ sent' \in 0..MaxOps
    BY <1>5, <1>0 DEF SendFile, NetInv, LogInv, Epoch
  <2>2. epoch[sent + 1] \in Ops
    BY <2>1 DEF LogInv, Epoch
  <2>3. [type |-> "file", op |-> epoch[sent + 1]] \in Msg
    BY <2>2 DEF Msg, FileMsg
  <2>4. queue' \in Seq(Conn) /\ queue' # <<>>
    BY <1>5, <1>q, <2>3, PushFacts DEF SendFile, NetInv
  <2>5. /\ tpc = "files" /\ cpc = "transfer"
        /\ UNCHANGED <<cpc, spc, tpc, conn, down>>
    BY <1>5 DEF SendFile, cvars, svars
  <2> QED BY <2>1, <2>4, <2>5 DEF NetInv
<1>6. CASE TransferDone \/ TransferFails \/ ClientDies
  <2>1. CutUp /\ tpc' = "connect" /\ sent' = 0 /\ conn' = "none" /\ down' = <<>>
        /\ spc' = spc
    BY <1>6 DEF TransferDone, TransferFails, ClientDies, Hangup, svars
  <2>2. queue' \in Seq(Conn) /\ (queue' # <<>> <=> queue # <<>>)
    BY <1>q, <2>1, CutFacts DEF NetInv
  <2> QED BY <1>0, <1>s, <2>1, <2>2 DEF NetInv
<1>7. CASE ServerAccept
  BY <1>7 DEF ServerAccept, NetInv, net, cvars
<1>8. CASE ServerRecv
  <2>1. queue # <<>> /\ queue' \in Seq(Conn) /\ queue' # <<>>
    BY <1>8, <1>q, PopFacts DEF ServerRecv, NetInv
  <2> QED BY <1>8, <2>1 DEF ServerRecv, NetInv, cvars
<1>d. ASSUME Done, spc # "accept"
      PROVE  /\ queue' \in Seq(Conn)
             /\ conn' \in {"none", "open", "closed"}
             /\ conn' = "none" <=> conn = "none"
             /\ conn' = "open" => queue' # <<>>
  <2>1. queue # <<>> /\ conn \in {"none", "open", "closed"}
    BY <1>d DEF NetInv
  <2>2. queue' \in Seq(Conn) /\ (queue' # <<>> <=> Len(queue) # 1)
    BY <1>d, <1>q, <2>1, TailFacts DEF Done
  <2> QED BY <1>d, <2>1, <2>2 DEF Done, Current
<1>9. CASE ServerRecvFails \/ ServerGivesUp
  <2>1. /\ spc' = "accept" /\ spc # "accept" /\ Done
        /\ UNCHANGED <<cpc, tpc, sent, down>>
    BY <1>9 DEF ServerRecvFails, ServerGivesUp, S!RecvFails, S!CommitFails,
       S!RenameId, S!Return, cvars
  <2> QED BY <1>d, <2>1 DEF NetInv
<1>10. CASE ServerSend
  <2>1. reply' \in S!Replies /\ spc # "accept"
    BY <1>10 DEF ServerSend, S!Respond, S!Finish, S!Replies, ServerFacts,
       S!TypeOK
  <2>2. UNCHANGED <<cpc, tpc, sent>> /\ down' \in {down, Append(down, reply')}
        /\ (UNCHANGED <<queue, conn>> \/ (Done /\ spc' = "accept"))
    <3>1. PICK ok \in BOOLEAN :
            /\ down' = IF Current /\ ok THEN Append(down, reply') ELSE down
            /\ IF spc' = "accept" THEN Done ELSE UNCHANGED <<queue, conn>>
            /\ UNCHANGED <<cvars, tpc, sent, faults>>
      BY <1>10 DEF ServerSend
    <3>2. UNCHANGED <<cpc, tpc, sent>>
      BY <3>1 DEF cvars
    <3>3. down' \in {down, Append(down, reply')}
      BY <3>1
    <3>4. UNCHANGED <<queue, conn>> \/ (Done /\ spc' = "accept")
      BY <3>1
    <3> QED BY <3>2, <3>3, <3>4
  <2>3. down' \in Seq(S!Replies)
    BY <2>1, <2>2 DEF NetInv
  <2>4. CASE UNCHANGED <<queue, conn>>
    BY <2>1, <2>2, <2>3, <2>4 DEF NetInv
  <2>5. CASE Done /\ spc' = "accept"
    BY <1>d, <2>1, <2>2, <2>3, <2>5 DEF NetInv
  <2> QED BY <2>2, <2>4, <2>5
<1>11. CASE ServerLocal \/ ServerCallFails
  BY <1>11, ServerLocalEffect DEF NetInv, net, cvars
<1>12. CASE ServerDies
  <2>1. spc' = "accept" /\ UNCHANGED <<cpc, tpc, sent>> /\ queue' = <<>>
        /\ conn' = (IF conn = "open" THEN "closed" ELSE conn)
        /\ down' \in {down, <<>>}
    BY <1>12 DEF ServerDies, S!Crash, S!Return, cvars
  <2>2. queue' \in Seq(Conn)
    BY <2>1
  <2> QED BY <1>s, <2>1, <2>2 DEF NetInv
<1>13. CASE ConnectionBreaks
  <2>1. CutUp /\ conn = "open" /\ conn' = "closed" /\ down' \in {down, <<>>}
        /\ UNCHANGED <<cpc, spc, tpc, sent>>
    BY <1>13 DEF ConnectionBreaks, cvars, svars
  <2>2. queue' \in Seq(Conn) /\ (queue' # <<>> <=> queue # <<>>)
    BY <1>q, <2>1, CutFacts DEF NetInv
  <2> QED BY <1>s, <2>1, <2>2 DEF NetInv
<1> QED
  BY <1>1, <1>2, <1>3, <1>4, <1>5, <1>6, <1>7, <1>8, <1>9, <1>10, <1>11, <1>12,
     <1>13
     DEF Next, Client, ClientTransfer, Server, Faults, CallFails

\* The steps that leave the mirror alone.
SourceOnly == \/ Filesystem \/ Client \/ ClientDies \/ FilesystemDies
              \/ SwitchFails \/ ClientCallFails \/ ConnectionBreaks

\* They change nothing there.
LEMMA SourceOnlyEffect == SourceOnly => UNCHANGED svars
  BY DEF SourceOnly, Filesystem, Client, ClientLocal, ClientTransfer, Connect,
     SendInit, RecvResponse, SendFile, TransferDone, TransferFails, ClientDies,
     FilesystemDies, SwitchFails, ClientCallFails, ConnectionBreaks

\* ... and so is every step one of the mirror, whose messages are in the range
\* it expects.
LEMMA ServerSteps == NetInv /\ [Next]_vars => [S!SNext]_svars
<1> SUFFICES ASSUME NetInv, [Next]_vars PROVE [S!SNext]_svars
  OBVIOUS
<1> USE DEF S!SNext, S!Receive, S!Local, S!Step
<1>1. CASE SourceOnly \/ UNCHANGED vars
  <2>1. UNCHANGED svars
    BY <1>1, SourceOnlyEffect DEF vars
  <2> QED BY <2>1
<1>2. CASE ServerAccept \/ ServerRecvFails \/ ServerLocal \/ ServerDies
           \/ ServerCallFails \/ ServerGivesUp
  BY <1>2 DEF ServerAccept, ServerRecvFails, ServerLocal, ServerDies,
     ServerCallFails, ServerGivesUp
<1>3. CASE ServerSend
  BY <1>3 DEF ServerSend
<1>4. CASE ServerRecv
  <2> DEFINE m == Head(Incoming)
  <2>1. m \in Msg
    BY <1>4, PopFacts DEF ServerRecv, NetInv
  <2>2. CASE m.type = "init" /\ S!RecvInit(m.id, m.n)
    <3>1. m.id \in C!Id /\ m.n \in 0..MaxOps
      BY <2>1, <2>2 DEF Msg, InitMsg, FileMsg
    <3> QED BY <2>2, <3>1
  <2>3. CASE m.type = "file" /\ S!RecvChunk(<<m.op>>, TRUE)
    <3>1. m.op \in Ops
      BY <2>1, <2>3 DEF Msg, InitMsg, FileMsg
    <3>2. <<m.op>> \in S!ChunkOps
      <4>1. <<m.op>> \in [1..1 -> Ops]
        BY <3>1
      <4>2. 1 \in 0..1
        OBVIOUS
      <4> QED BY <4>1, <4>2 DEF S!ChunkOps, Ops
    <3> QED BY <2>3, <3>2
  <2> QED BY <1>4, <2>2, <2>3 DEF ServerRecv
<1> QED BY <1>1, <1>2, <1>3, <1>4
        DEF Next, SourceOnly, Server, Faults, CallFails

\* A session starts with nothing and leaves nothing behind.
LEMMA IdleStep == IdleInv /\ [Next]_vars => IdleInv'
<1> SUFFICES ASSUME IdleInv, [Next]_vars PROVE IdleInv'
  OBVIOUS
<1> USE DEF IdleInv
<1>1. CASE SourceOnly \/ UNCHANGED vars
  <2>1. UNCHANGED svars
    BY <1>1, SourceOnlyEffect DEF vars
  <2> QED BY <2>1 DEF svars
<1>2. CASE ServerAccept
  BY <1>2 DEF ServerAccept, S!Accept, S!transfer
<1>3. CASE ServerRecv
  BY <1>3 DEF ServerRecv, S!RecvInit, S!RecvChunk
<1>4. CASE ServerRecvFails \/ ServerDies
  BY <1>4 DEF ServerRecvFails, ServerDies, S!RecvFails, S!Crash, S!Return
<1>5. CASE ServerGivesUp
  BY <1>5 DEF ServerGivesUp, S!CommitFails, S!RenameId, S!Return
<1>6. CASE ServerSend
  <2>1. PICK ok \in BOOLEAN : S!Respond(ok) \/ S!Finish(ok)
    BY <1>6 DEF ServerSend
  <2> QED BY <2>1 DEF S!Respond, S!Finish, S!Return
<1>7. CASE ServerLocal \/ ServerCallFails
  BY <1>7, ServerLocalEffect
<1> QED BY <1>1, <1>2, <1>3, <1>4, <1>5, <1>6, <1>7
        DEF Next, SourceOnly, Server, Faults, CallFails

-----------------------------------------------------------------------------
(* The mirror's content, step by step.                                     *)

Known == ClientFacts /\ ServerFacts /\ LogInv /\ NetInv /\ IdleInv

\* The mirror is a sequence of operations.
LEMMA MirrorType == ServerFacts /\ ~trouble => Mirror \in Seq(Ops)
  BY DEF ServerFacts, S!Guarded, S!UnguardedIsWhole, S!TypeOK, S!Subvolume,
     S!HaveBase, Mirror, S!Recovered, Ops

\* What the source and the connections do leaves it alone.
LEMMA MirrorKept == UNCHANGED svars => Mirror' = Mirror
  BY DEF svars, Mirror, S!Recovered, S!HaveBase, S!Readable, S!Id, C!Id

\* The parts of a session within which nothing is received or committed.
SamePart == \/ spc' = spc
            \/ spc \in Before /\ spc' \in Before
            \/ spc \in After /\ spc' \in After
            \/ spc = "accept" /\ spc' = "init"

\* Steps that move neither messages nor operations.
LEMMA Frame ==
  ASSUME Sound, Mirror' = Mirror, Base' = Base, SamePart,
         UNCHANGED <<sync, acked, clobbered, got, todo, left, islast, tpc,
                     sent, conn, down, queue>>,
         cpc' \in Dropping => cpc \in Dropping
  PROVE  Sound'
<1>1. Reached' = Reached /\ (Arrived' <=> Arrived)
  BY DEF Reached, Arrived
<1>2. MirrorInv'
  BY <1>1 DEF Sound, MirrorInv, Gapless
<1>3. /\ spc \in Before <=> spc' \in Before
      /\ spc \in Receiving <=> spc' \in Receiving
      /\ spc \in After <=> spc' \in After
      /\ spc = "files" <=> spc' = "files"
      /\ spc = "ops" <=> spc' = "ops"
  BY DEF SamePart, Before, Receiving, After
<1>4. StreamInv'
  BY <1>3 DEF Sound, StreamInv, Handling, Fresh
<1>5. SessionInv'
  BY <1>1, <1>3 DEF Sound, SessionInv, Carries
<1>6. SenderInv'
  BY <1>1, <1>3 DEF Sound, SenderInv, Handling
<1> QED BY <1>2, <1>4, <1>5, <1>6 DEF Sound

\* An operation moves into .log.
LEMMA RecordSound ==
  ASSUME Known, Sound, C!Execute \/ C!Record, UNCHANGED <<svars, net>>
  PROVE  Sound'
<1>1. Base' = Base
  <2>0. executed \in Nat /\ pend \in {0, executed} /\ log \in Seq(Nat)
    BY DEF Known, ClientFacts, LogInv, C!CTypeOK
  <2>1. CASE C!Execute
    BY <2>0, <2>1 DEF C!Execute, Base, Pending
  <2>2. CASE C!Record
    <3>1. Len(log') = Len(log) + 1
      BY <2>0, <2>2 DEF C!Record
    <3> QED BY <2>0, <2>2, <3>1 DEF C!Record, Base, Pending
  <2> QED BY <2>1, <2>2
<1>2. UNCHANGED <<sync, acked, clobbered, cpc>>
  BY DEF C!Execute, C!Record, C!ghosts
<1> QED BY <1>1, <1>2, MirrorKept, Frame DEF SamePart, svars, net

\* .log becomes .sync: what the mirror has ends where it begins.
LEMMA SwitchSound ==
  ASSUME Known, Sound, C!RenameLog, ~clobbered',
         UNCHANGED <<executed, pend, acked, cpc, svars, net>>
  PROVE  Sound'
<1>1. /\ sync = Absent /\ sync' = log /\ log' = <<>> /\ sync' # Absent
      /\ UNCHANGED <<executed, pend, acked, cpc>>
  <2>1. log \in Seq(Nat)
    BY DEF Known, ClientFacts, C!CTypeOK
  <2> QED BY <2>1, SessionAssumption DEF C!RenameLog
<1>2. queue = <<>> /\ spc = "accept" /\ Reached = Base
  BY <1>1 DEF Known, Sound, StreamInv, MirrorInv, NetInv
<1>3. tpc = "connect" /\ conn = "none" /\ down = <<>>
  BY <1>1, <1>2 DEF Known, ClientFacts, Taken, NetInv, Sound, SenderInv
<1>4. UNCHANGED <<spc, tpc, conn, down, queue>> /\ Mirror' = Mirror
      /\ Reached' = Reached
  BY MirrorKept DEF svars, net, Reached
<1>5. Base' = Base + Len(sync') /\ Len(sync') \in Nat /\ Base \in Nat
      /\ \A i \in 1..Len(sync') : sync'[i] = Base + i
  <2>0. executed \in Nat /\ pend \in {0, executed} /\ log \in Seq(Nat)
    BY DEF Known, ClientFacts, LogInv, C!CTypeOK
  <2>1. \A i \in 1..Len(log) : log[i] = Base + i
    BY DEF Known, LogInv
  <2>2. Base >= 0
    BY DEF Known, LogInv
  <2>3. Base' = executed - Pending - Len(log') /\ Len(log') = 0
    BY <1>1 DEF Base, Pending
  <2>4. Base = executed - Pending - Len(log) /\ Pending \in {0, 1}
    BY DEF Base, Pending
  <2>5. Base' = Base + Len(log)
    BY <2>0, <2>3, <2>4
  <2> QED BY <1>1, <2>0, <2>1, <2>2, <2>4, <2>5
<1>6. MirrorInv'
  <2>1. Gapless' /\ acked' \subseteq ToSet(Mirror')
    BY <1>1, <1>4 DEF Sound, MirrorInv, Gapless
  <2>2. cpc' \notin Dropping
    BY <1>1 DEF Known, ClientFacts, Taken, Dropping
  <2>3. Base' - Len(sync') = Base
    BY <1>5
  <2> QED BY <1>1, <1>2, <1>4, <1>5, <2>1, <2>2, <2>3 DEF MirrorInv
<1>7. StreamInv' /\ SessionInv' /\ SenderInv'
  BY <1>2, <1>3, <1>4
     DEF StreamInv, SessionInv, SenderInv, Before, Receiving, After
<1> QED BY <1>6, <1>7 DEF Sound

\* What else happens to the file system.
LEMMA FilesystemSound ==
  ASSUME Known, Sound, Filesystem \/ SwitchFails \/ FilesystemDies, ~clobbered'
  PROVE  Sound'
<1>1. UNCHANGED <<idfile, cpc, epoch, acked, svars, net>>
  BY FilesystemEffect
<1>2. CASE C!Execute \/ C!Record
  BY <1>1, <1>2, RecordSound
<1>3. CASE C!RenameLog /\ UNCHANGED <<executed, pend>>
  BY <1>1, <1>3, SwitchSound
<1>4. CASE UNCHANGED <<executed, pend, log, sync, clobbered>>
  <2>1. Base' = Base
    BY <1>4 DEF Base, Pending
  <2> QED BY <1>1, <1>4, <2>1, MirrorKept, Frame DEF SamePart, svars, net
<1>5. CASE C!Switch \/ C!SwitchFails
  BY <1>3, <1>4, <1>5 DEF C!Switch, C!SwitchFails
<1>6. CASE FilesystemDies \/ C!FsStart
  BY <1>4, <1>6 DEF FilesystemDies, C!FsCrash, C!FsStart, C!ghosts
<1> QED BY <1>2, <1>5, <1>6 DEF Filesystem, SwitchFails

\* An epoch that has arrived is removed at the source.
LEMMA LocalSound ==
  ASSUME Known, Sound, ClientLocal \/ ClientCallFails
  PROVE  Sound'
<1>1. /\ cpc # "transfer" /\ Mirror' = Mirror
      /\ UNCHANGED <<executed, pend, log, acked, clobbered, svars, net>>
  BY LocalEffect, MirrorKept
<1>2. Base' = Base
  BY <1>1 DEF Base, Pending
<1>3. CASE sync' = sync /\ (cpc' \in Dropping => cpc \in Dropping)
  BY <1>1, <1>2, <1>3, Frame DEF SamePart, svars, net
<1>4. CASE sync' = Absent /\ cpc = "dropSync" /\ cpc' = "idle"
  <2>1. Arrived /\ queue = <<>>
    BY <1>4 DEF Sound, MirrorInv, Dropping
  <2>2. spc = "accept" /\ tpc = "connect" /\ conn = "none" /\ down = <<>>
    BY <1>1, <2>1 DEF Known, NetInv, Sound, SenderInv
  <2>3. UNCHANGED <<spc, tpc, conn, down, queue>> /\ Reached' = Reached
    BY <1>1 DEF svars, net, Reached
  <2>4. MirrorInv'
    BY <1>1, <1>2, <1>4, <2>1, <2>3
       DEF MirrorInv, Gapless, Arrived, Dropping, Sound
  <2>5. StreamInv' /\ SessionInv' /\ SenderInv'
    BY <2>1, <2>2, <2>3
       DEF StreamInv, SessionInv, SenderInv, Before, Receiving, After
  <2> QED BY <2>4, <2>5 DEF Sound
<1> QED BY <1>3, <1>4, LocalEffect

-----------------------------------------------------------------------------
(* The client's side of the connection.                                    *)

\* What is known of a client that transfers.
LEMMA TransferFacts ==
  ASSUME Known, Sound, ~clobbered, cpc = "transfer"
  PROVE  /\ sync # Absent /\ epoch = sync /\ sync \in Seq(Ops)
         /\ Len(sync) \in Nat /\ cpc \notin Dropping
  BY DEF Known, ClientFacts, Taken, LogInv, Epoch, Dropping

\* What a step of the connection leaves alone.
LEMMA MirrorFrame ==
  ASSUME Sound, Mirror' = Mirror,
         UNCHANGED <<executed, pend, log, sync, acked, clobbered>>,
         cpc' \in Dropping => Arrived /\ queue' = <<>>
  PROVE  MirrorInv' /\ (Arrived' <=> Arrived) /\ Reached' = Reached
<1>1. Base' = Base /\ Reached' = Reached
  BY DEF Base, Pending, Reached
<1> QED BY <1>1 DEF Sound, MirrorInv, Gapless, Arrived

\* A connection is opened.
LEMMA ConnectSound ==
  ASSUME Known, Sound, ~clobbered, Connect
  PROVE  Sound'
<1>1. /\ cpc = "transfer" /\ tpc = "connect" /\ conn' = "open" /\ tpc' = "init"
      /\ UNCHANGED <<cvars, svars, sent, down, faults>>
      /\ queue' = Append(queue, [up |-> <<>>, open |-> TRUE])
  BY DEF Connect
<1> DEFINE c == [up |-> <<>>, open |-> TRUE]
<1>2. sync # Absent /\ Len(sync) \in Nat /\ cpc \notin Dropping
  BY <1>1, TransferFacts
<1>3. c \in Conn /\ c.up = <<>>
  <2>1. <<>> \in Seq(Msg)
    OBVIOUS
  <2> QED BY <2>1, ConnFacts
<1>4. queue \in Seq(Conn) /\ (spc # "accept" => queue # <<>>)
  BY DEF Known, NetInv
<1> HIDE DEF c
<1>5. /\ queue' = Append(queue, c) /\ Len(queue') = Len(queue) + 1
      /\ queue'[Len(queue) + 1] = c /\ queue' # <<>>
      /\ \A k \in 1..Len(queue) : queue'[k] = queue[k]
      /\ Len(queue) \in Nat
  <2>1. queue' = Append(queue, c)
    BY <1>1 DEF c
  <2> QED BY <2>1, <1>3, <1>4, OpenFacts
<1>6. MirrorInv' /\ (Arrived' <=> Arrived)
  <2>1. cpc' \notin Dropping
    BY <1>1, <1>2 DEF cvars
  <2> QED BY <1>1, <2>1, MirrorKept, MirrorFrame DEF cvars
<1>7. UNCHANGED <<sync, spc, got, todo, left, islast, down>> /\ down = <<>>
  BY <1>1 DEF cvars, svars, Sound, SenderInv
<1>8. Fresh(c.up, sync') /\ Len(c.up) = 0
  BY <1>2, <1>3, <1>7 DEF Fresh
<1>9. StreamInv'
  <2>1. ASSUME NEW k \in 1..Len(queue'), k > 1 \/ ~Handling
        PROVE  Fresh(queue'[k].up, sync')
    <3>1. CASE k = Len(queue) + 1
      BY <1>5, <1>8, <3>1
    <3>2. CASE k \in 1..Len(queue)
      <4>1. Fresh(queue[k].up, sync)
        BY <2>1, <3>2 DEF Sound, StreamInv
      <4> QED BY <1>5, <1>7, <3>2, <4>1 DEF Fresh
    <3> QED BY <1>5, <3>1, <3>2
  <2> QED BY <1>2, <1>7, <2>1 DEF StreamInv, Handling
<1>10. SessionInv'
  <2>1. spc # "accept" => queue'[1] = queue[1]
    BY <1>4, <1>5
  <2> QED BY <1>6, <1>7, <2>1
        DEF Sound, SessionInv, Carries, Before, Receiving, After
<1>11. SenderInv'
  <2>1. ~(Len(queue') = 1 /\ Handling)
    <3>1. Handling => queue # <<>>
      BY <1>4 DEF Handling, Before, Receiving, After
    <3> QED BY <1>4, <1>5, <3>1
  <2> QED BY <1>1, <1>5, <1>7, <1>8, <2>1 DEF SenderInv, Handling
<1> QED BY <1>6, <1>9, <1>10, <1>11 DEF Sound

\* SyncInit is the first message of a connection of which nothing was read.
LEMMA InitSound ==
  ASSUME Known, Sound, ~clobbered, SendInit
  PROVE  Sound'
<1> DEFINE m == [type |-> "init", id |-> idfile, n |-> Len(epoch)]
<1>1. /\ cpc = "transfer" /\ tpc = "init" /\ conn = "open" /\ tpc' = "response"
      /\ UNCHANGED <<cvars, svars, sent, conn, down, faults>>
      /\ Push(m)
  BY DEF SendInit
<1>2. /\ sync # Absent /\ Len(sync) \in Nat /\ cpc \notin Dropping
      /\ epoch = sync
  BY <1>1, TransferFacts
<1>3. m \in InitMsg /\ m \in Msg /\ m.n = Len(sync)
  BY <1>1, <1>2, SessionAssumption
     DEF Known, ClientFacts, LogInv, Epoch, InitMsg, Msg
<1>4. queue \in Seq(Conn) /\ queue # <<>>
  BY <1>1 DEF Known, NetInv
<1> HIDE DEF m
<1> DEFINE n == Len(queue)
<1>5. /\ Len(queue') = n /\ queue' # <<>> /\ n \in Nat \ {0}
      /\ queue'[n].up = Append(queue[n].up, m)
      /\ \A k \in 1..n : k # n => queue'[k] = queue[k]
  BY <1>1, <1>3, <1>4, PushFacts
<1>6. /\ ~(n = 1 /\ Handling) /\ Len(queue[n].up) = 0 /\ down = <<>>
  BY <1>1 DEF Sound, SenderInv, Handling
<1>7. queue'[n].up = <<m>>
  <2>1. queue[n].up \in Seq(Msg)
    BY <1>4, <1>5, ConnFacts
  <2>2. queue[n].up = <<>>
    BY <1>6, <2>1
  <2> QED BY <1>5, <2>2
<1>8. MirrorInv' /\ (Arrived' <=> Arrived)
  <2>1. cpc' \notin Dropping
    BY <1>1, <1>2 DEF cvars
  <2> QED BY <1>1, <2>1, MirrorKept, MirrorFrame DEF cvars
<1>9. UNCHANGED <<sync, spc, got, todo, left, islast, down, conn, sent>>
  BY <1>1 DEF cvars, svars
<1>10. Fresh(<<m>>, sync')
  BY <1>2, <1>3, <1>9 DEF Fresh
<1>11. StreamInv'
  <2>1. ASSUME NEW k \in 1..Len(queue'), k > 1 \/ ~Handling
        PROVE  Fresh(queue'[k].up, sync')
    <3>1. CASE k = n
      BY <1>7, <1>10, <3>1
    <3>2. CASE k # n
      <4>1. Fresh(queue[k].up, sync)
        BY <1>5, <2>1 DEF Sound, StreamInv
      <4> QED BY <1>5, <1>9, <3>2, <4>1 DEF Fresh
    <3> QED BY <3>1, <3>2
  <2> QED BY <1>2, <1>9, <2>1 DEF StreamInv, Handling
<1>12. SessionInv'
  <2>1. Handling => queue'[1] = queue[1]
    BY <1>5, <1>6
  <2> QED BY <1>8, <1>9, <2>1 DEF Sound, SessionInv, Carries, Handling
<1>13. SenderInv'
  <2>1. Len(<<m>>) = 1
    OBVIOUS
  <2> QED BY <1>1, <1>5, <1>6, <1>7, <1>9, <2>1 DEF SenderInv, Handling
<1> QED BY <1>8, <1>11, <1>12, <1>13 DEF Sound

\* The answer to SyncInit belongs to the connection it arrives on.
LEMMA ResponseSound ==
  ASSUME Known, Sound, ~clobbered, RecvResponse
  PROVE  Sound'
<1>1. /\ cpc = "transfer" /\ tpc = "response" /\ down # <<>>
      /\ Head(down) = "continue" /\ down' = Tail(down) /\ tpc' = "files"
      /\ UNCHANGED <<cvars, svars, sent, conn, queue, faults>>
  BY DEF RecvResponse
<1>2. cpc' \notin Dropping
  BY <1>1, TransferFacts DEF cvars
<1>3. MirrorInv' /\ (Arrived' <=> Arrived)
  BY <1>1, <1>2, MirrorKept, MirrorFrame DEF cvars
<1>4. UNCHANGED <<sync, spc, got, todo, left, islast, queue, conn, sent>>
  BY <1>1 DEF cvars, svars
<1>5. StreamInv' /\ SessionInv'
  BY <1>3, <1>4
     DEF Sound, StreamInv, SessionInv, Handling, Fresh, Carries
<1>6. /\ Len(down) \in Nat /\ Len(down') = Len(down) - 1
      /\ \A i \in 1..Len(down') : down'[i] = down[i + 1]
  BY <1>1 DEF Known, NetInv
<1>7. down = <<"continue">> => down' = <<>>
  BY <1>1
<1>8. SenderInv'
  <2>1. conn = "open" => /\ Len(queue) = 1 /\ Handling /\ spc \notin Before
                         /\ down = <<"continue">>
    BY <1>1 DEF Sound, SenderInv
  <2>2. \A i \in 1..Len(down') : down'[i] = "finish"
    BY <1>6 DEF Sound, SenderInv
  <2>3. \A i \in 1..Len(down') :
          down'[i] = "finish" => Arrived /\ conn = "closed" /\ queue = <<>>
    BY <1>6 DEF Sound, SenderInv
  <2>4. conn = "open" => Len(got) + Len(todo) + Len(queue[1].up) = sent
    BY <2>1 DEF Sound, SenderInv
  <2> QED BY <1>1, <1>3, <1>4, <1>7, <2>1, <2>2, <2>3, <2>4
        DEF SenderInv, Handling
<1> QED BY <1>3, <1>5, <1>8 DEF Sound

\* A file is sent after the ones before it.
LEMMA FileSound ==
  ASSUME Known, Sound, ~clobbered, SendFile
  PROVE  Sound'
<1> DEFINE m == [type |-> "file", op |-> epoch[sent + 1]]
           n == Len(queue)
           u == queue[1].up
<1>1. /\ cpc = "transfer" /\ tpc = "files" /\ conn = "open"
      /\ sent < Len(epoch) /\ sent' = sent + 1
      /\ UNCHANGED <<cvars, svars, tpc, conn, down, faults>>
      /\ Push(m)
  BY DEF SendFile
<1>2. /\ sync # Absent /\ sync \in Seq(Ops) /\ Len(sync) \in Nat
      /\ cpc \notin Dropping /\ epoch = sync
  BY <1>1, TransferFacts
<1>3. m \in FileMsg /\ m \in Msg /\ m.op = sync[sent + 1] /\ sent \in Nat
  <2>1. sent \in Nat /\ sent + 1 \in 1..Len(sync)
    BY <1>1, <1>2, SessionAssumption DEF Known, NetInv
  <2>2. sync[sent + 1] \in Ops
    BY <1>2, <2>1
  <2> QED BY <1>2, <2>1, <2>2 DEF FileMsg, Msg
<1>4. queue \in Seq(Conn) /\ queue # <<>>
  BY <1>1 DEF Known, NetInv
<1>5. n = 1 /\ Handling /\ down = <<>> /\ Len(got) + Len(todo) + Len(u) = sent
      /\ spc \notin Before
  BY <1>1 DEF Sound, SenderInv
<1>6. spc \in Receiving
  <2>1. u = <<>> /\ Len(got) = Len(sync) /\ todo = <<>> => sent >= Len(sync)
    BY <1>2, <1>5
  <2>2. spc \in After => u = <<>> /\ Len(got) = Len(sync) /\ todo = <<>>
    BY DEF Sound, SessionInv
  <2>3. spc \notin After
    BY <1>1, <1>2, <1>3, <2>1, <2>2
  <2> QED BY <1>5, <2>3 DEF Handling
<1> HIDE DEF m
<1>7. queue' \in Seq(Conn) /\ Len(queue') = 1 /\ queue' # <<>>
      /\ queue'[1].up = Append(u, m)
  BY <1>1, <1>3, <1>4, <1>5, PushFacts
<1>8. /\ u \in Seq(Msg) /\ Len(queue'[1].up) = Len(u) + 1
      /\ queue'[1].up[Len(u) + 1] = m
      /\ \A j \in 1..Len(u) : queue'[1].up[j] = u[j]
  <2>1. u \in Seq(Msg)
    BY <1>4, <1>5, ConnFacts
  <2> HIDE DEF u
  <2> QED BY <1>3, <1>7, <2>1
<1>9. UNCHANGED <<sync, spc, got, todo, left, islast, down, conn, tpc>>
  BY <1>1 DEF cvars, svars
<1> DEFINE K == Len(got) + Len(todo)
<1>k. K \in Nat /\ Len(u) \in Nat /\ K + Len(u) = sent
  <2>1. Len(got) \in Nat /\ Len(todo) \in Nat
    BY DEF Known, ServerFacts, S!TypeOK
  <2>2. Len(u) \in Nat
    <3> HIDE DEF u
    <3> QED BY <1>8
  <2>3. K + Len(u) = sent
    BY <1>5
  <2>4. K \in Nat
    BY <2>1
  <2> QED BY <2>2, <2>3, <2>4
<1>10. MirrorInv' /\ (Arrived' <=> Arrived)
  <2>1. cpc' \notin Dropping
    BY <1>1, <1>2 DEF cvars
  <2> QED BY <1>1, <2>1, MirrorKept, MirrorFrame DEF cvars
<1>11. StreamInv'
  <2>1. \A k \in 1..Len(queue') : ~(k > 1 \/ ~Handling)
    BY <1>5, <1>7
  <2> QED BY <1>2, <1>9, <2>1 DEF StreamInv, Handling
<1>12. SessionInv'
  <2>1. Carries(u, K, sync)
    BY <1>6 DEF Sound, SessionInv
  <2> DEFINE v == queue'[1].up
  <2>2. /\ Len(v) = Len(u) + 1 /\ v[Len(u) + 1] = m
        /\ \A j \in 1..Len(u) : v[j] = u[j]
    BY <1>8
  <2>3. Carries(v, K, sync)
    <3> HIDE DEF u, v, K
    <3>1. ASSUME NEW j \in 1..Len(v)
          PROVE  v[j] \in FileMsg /\ v[j].op = sync[K + j]
      <4>1. CASE j = Len(u) + 1
        <5>1. K + j = sent + 1
          BY <1>k, <4>1
        <5> QED BY <1>3, <2>2, <4>1, <5>1
      <4>2. CASE j \in 1..Len(u)
        BY <2>1, <2>2, <4>2 DEF Carries
      <4> QED BY <1>k, <2>2, <4>1, <4>2
    <3>2. K + Len(v) <= Len(sync)
      BY <1>1, <1>2, <1>3, <1>k, <2>2
    <3> QED BY <3>1, <3>2 DEF Carries
  <2> QED BY <1>6, <1>9, <1>10, <2>3
        DEF Sound, SessionInv, Receiving, Before, After
<1>13. SenderInv'
  <2>1. K + Len(queue'[1].up) = sent'
    <3> HIDE DEF u, K
    <3> QED BY <1>1, <1>k, <1>8
  <2>2. Handling' /\ Len(queue') = 1 /\ spc' \notin Before
    BY <1>5, <1>7, <1>9 DEF Handling
  <2>3. 1..Len(down') = {}
    BY <1>5, <1>9
  <2> QED BY <1>1, <1>5, <1>9, <2>1, <2>2, <2>3 DEF SenderInv
<1> QED BY <1>10, <1>11, <1>12, <1>13 DEF Sound

\* SyncFinish arrives when the mirror has the epoch.
LEMMA DoneSound ==
  ASSUME Known, Sound, ~clobbered, TransferDone
  PROVE  Sound'
<1>1. /\ cpc = "transfer" /\ tpc = "files" /\ down # <<>>
      /\ C!Transfer(TRUE) /\ Hangup /\ UNCHANGED <<svars, faults>>
  BY DEF TransferDone
<1>2. sync # Absent /\ epoch = sync /\ Len(sync) \in Nat
  BY <1>1, TransferFacts
<1>3. Arrived /\ conn = "closed" /\ queue = <<>>
  <2>1. 1 \in 1..Len(down)
    BY <1>1 DEF Known, NetInv
  <2>2. down[1] = "finish"
    BY <1>1, <2>1 DEF Sound, SenderInv
  <2> QED BY <2>1, <2>2 DEF Sound, SenderInv
<1>4. /\ queue' = <<>> /\ tpc' = "connect" /\ conn' = "none" /\ down' = <<>>
  BY <1>1, <1>3 DEF Hangup, CutUp
<1>5. /\ acked' = acked \union ToSet(epoch)
      /\ UNCHANGED <<executed, pend, log, sync, clobbered, spc>>
      /\ Mirror' = Mirror
  BY <1>1, SameToSet, MirrorKept DEF C!Transfer, C!fs, svars
<1>6. Base' = Base /\ Reached' = Reached
  BY <1>5 DEF Base, Pending, Reached
<1>7. Arrived'
  BY <1>3, <1>5, <1>6 DEF Arrived
<1>8. MirrorInv'
  <2>1. ToSet(epoch) \subseteq ToSet(Mirror)
    BY <1>2, <1>3 DEF Arrived, ToSet
  <2> QED BY <1>4, <1>5, <1>6, <1>7, <2>1 DEF Sound, MirrorInv, Gapless
<1>9. spc' = "accept"
  BY <1>3, <1>5 DEF Known, NetInv
<1>10. StreamInv' /\ SessionInv' /\ SenderInv'
  BY <1>4, <1>9 DEF StreamInv, SessionInv, SenderInv, Before, Receiving, After
<1> QED BY <1>8, <1>10 DEF Sound

\* A connection that is cut carries a part of what it did.
LEMMA CutSound ==
  ASSUME Known, Sound, CutUp, UNCHANGED svars, conn' # "open",
         down' \in {down, <<>>},
         UNCHANGED <<executed, pend, log, sync, acked, clobbered>>,
         \/ tpc' = "connect" /\ down' = <<>>
         \/ tpc' = tpc /\ conn' = "closed" /\ conn = "open",
         cpc' \in Dropping => cpc \in Dropping
  PROVE  Sound'
<1>1. /\ queue' \in Seq(Conn) /\ Len(queue') = Len(queue)
      /\ queue' # <<>> <=> queue # <<>>
      /\ \A k \in 1..Len(queue) :
           /\ Len(queue'[k].up) <= Len(queue[k].up)
           /\ \A j \in 1..Len(queue'[k].up) :
                queue'[k].up[j] = queue[k].up[j]
      /\ queue \in Seq(Conn)
  BY CutFacts DEF Known, NetInv
<1>t. \A k \in 1..Len(queue) :
        queue'[k].up \in Seq(Msg) /\ queue[k].up \in Seq(Msg)
  BY <1>1, ConnFacts
<1>e. queue = <<>> => queue' = <<>>
  BY <1>1
<1>2. UNCHANGED <<sync, spc, got, todo, left, islast>>
  BY DEF svars
<1>3. MirrorInv' /\ (Arrived' <=> Arrived)
  BY <1>e, MirrorKept, MirrorFrame DEF Sound, MirrorInv
<1>4. StreamInv'
  <2>1. ASSUME NEW k \in 1..Len(queue'), k > 1 \/ ~Handling
        PROVE  Fresh(queue'[k].up, sync)
    <3> DEFINE u == queue[k].up
               v == queue'[k].up
    <3>1. Fresh(u, sync)
      BY <1>1, <2>1 DEF Sound, StreamInv
    <3>2. /\ u \in Seq(Msg) /\ v \in Seq(Msg) /\ Len(v) <= Len(u)
          /\ \A j \in 1..Len(v) : v[j] = u[j]
      BY <1>1, <1>t
    <3>3. Len(sync) \in Nat
      <4>1. queue # <<>>
        BY <1>1
      <4> QED BY <4>1 DEF Known, LogInv, Epoch, Sound, StreamInv
    <3> HIDE DEF u, v
    <3>4. v # <<>> => u # <<>> /\ v[1] = u[1]
      BY <3>2
    <3>5. Len(v) \in Nat /\ Len(u) \in Nat /\ Len(v) <= Len(sync) + 1
      BY <3>1, <3>2, <3>3 DEF Fresh
    <3>6. \A j \in 2..Len(v) : v[j] \in FileMsg /\ v[j].op = sync[j - 1]
      <4> TAKE j \in 2..Len(v)
      <4>1. j \in 1..Len(v) /\ j \in 2..Len(u)
        BY <3>2, <3>5
      <4>2. v[j] = u[j] /\ u[j] \in FileMsg /\ u[j].op = sync[j - 1]
        BY <3>1, <3>2, <4>1 DEF Fresh
      <4> QED BY <4>2
    <3>7. Fresh(v, sync)
      BY <3>1, <3>4, <3>5, <3>6 DEF Fresh
    <3> QED BY <3>7 DEF v
  <2> QED BY <1>1, <1>2, <2>1 DEF Sound, StreamInv, Handling
<1>5. SessionInv'
  <2>1. ASSUME NEW k \in Nat, Handling, Carries(queue[1].up, k, sync)
        PROVE  Carries(queue'[1].up, k, sync)
    <3>1. 1 \in 1..Len(queue) /\ queue # <<>>
      BY <1>1, <2>1 DEF Known, NetInv, Handling, Before, Receiving, After
    <3>2. Len(sync) \in Nat
      BY <3>1 DEF Known, LogInv, Epoch, Sound, StreamInv
    <3> DEFINE u == queue[1].up
               v == queue'[1].up
    <3>3. /\ Len(v) \in Nat /\ Len(u) \in Nat /\ Len(v) <= Len(u)
          /\ \A j \in 1..Len(v) : v[j] = u[j]
      BY <1>1, <1>t, <3>1
    <3>4. Carries(u, k, sync)
      BY <2>1
    <3> HIDE DEF u, v
    <3>5. Carries(v, k, sync)
      BY <3>2, <3>3, <3>4 DEF Carries
    <3> QED BY <3>5 DEF v
  <2>2. Handling /\ queue[1].up = <<>> => queue'[1].up = <<>>
    <3> SUFFICES ASSUME Handling, queue[1].up = <<>> PROVE queue'[1].up = <<>>
      OBVIOUS
    <3>1. 1 \in 1..Len(queue)
      BY <1>1 DEF Known, NetInv, Handling, Before, Receiving, After
    <3>2. Len(queue'[1].up) = 0 /\ queue'[1].up \in Seq(Msg)
      BY <1>1, <1>t, <3>1
    <3> QED BY <3>2
  <2>3. Len(got) + Len(todo) \in Nat /\ 0 \in Nat
    BY DEF Known, ServerFacts, S!TypeOK
  <2> QED BY <1>2, <1>3, <2>1, <2>2, <2>3 DEF Sound, SessionInv, Handling
<1>6. SenderInv'
  <2>1. CASE down' = <<>>
    <3>1. 1..Len(down') = {}
      BY <2>1
    <3> QED BY <2>1, <3>1 DEF SenderInv
  <2>2. CASE down' = down /\ tpc' = tpc /\ conn = "open" /\ conn' = "closed"
    <3>1. \A i \in 1..Len(down) : down[i] # "finish"
      BY <2>2 DEF Sound, SenderInv
    <3> QED BY <2>2, <3>1 DEF Sound, SenderInv
  <2> QED BY <2>1, <2>2
<1> QED BY <1>3, <1>4, <1>5, <1>6 DEF Sound

\* The client gives up, or dies, or the connection breaks.
LEMMA BrokenSound ==
  ASSUME Known, Sound, TransferFails \/ ClientDies \/ ConnectionBreaks
  PROVE  Sound'
<1>1. CASE TransferFails \/ ClientDies
  <2>1. Hangup /\ UNCHANGED svars
    BY <1>1 DEF TransferFails, ClientDies
  <2>2. /\ cpc' = "idle"
        /\ UNCHANGED <<executed, pend, log, sync, acked, clobbered>>
    BY <1>1 DEF TransferFails, ClientDies, C!Transfer, C!ClientCrash,
                C!Advance, C!Exit, C!fs, C!ghosts
  <2> QED BY <2>1, <2>2, CutSound DEF Hangup, Dropping
<1>2. CASE ConnectionBreaks
  BY <1>2, CutSound DEF ConnectionBreaks, cvars
<1> QED BY <1>1, <1>2

-----------------------------------------------------------------------------
(* The server's side of the connection.                                    *)

\* Nothing but the end of a session changes what the mirror has.
LEMMA MirrorStays ==
  ASSUME Known, Next, ~trouble', ~(spc = "files" /\ spc' = "rename")
  PROVE  Mirror' = Mirror
<1>1. ServerFacts /\ NetInv /\ [Next]_vars
  BY DEF Known
<1>2. [S!SNext]_svars
  BY <1>1, ServerSteps
<1> QED BY <1>1, <1>2, ServerCommits

\* While a connection is handled the source's log files stay as they are.
LEMMA Served ==
  ASSUME Known, Sound, ~clobbered, queue # <<>>, UNCHANGED cvars,
         Mirror' = Mirror
  PROVE  /\ MirrorInv' /\ (Arrived' <=> Arrived)
         /\ sync' = sync /\ sync # Absent /\ sync \in Seq(Ops)
         /\ Len(sync) \in Nat
<1>1. cpc' \notin Dropping
  BY DEF cvars, Sound, MirrorInv
<1>2. UNCHANGED <<executed, pend, log, sync, acked, clobbered>>
  BY DEF cvars
<1>3. sync # Absent
  BY DEF Sound, StreamInv
<1> QED BY <1>1, <1>2, <1>3, MirrorFrame DEF Known, LogInv, Epoch

\* SyncInit announces what follows on its connection.
LEMMA RecvInitSound ==
  ASSUME Known, Sound, ~clobbered, ServerRecv, spc = "init", Mirror' = Mirror
  PROVE  Sound'
<1> DEFINE m == Head(Incoming)
           u == queue[1].up
           v == queue'[1].up
<1>1. queue \in Seq(Conn) /\ queue # <<>>
  BY DEF Known, NetInv
<1>2. /\ Pop /\ Incoming # <<>>
      /\ UNCHANGED <<cvars, tpc, sent, conn, down, faults>>
  BY DEF ServerRecv
<1>3. /\ queue' \in Seq(Conn) /\ Len(queue') = Len(queue) /\ queue' # <<>>
      /\ v \in Seq(Msg) /\ Len(v) = Len(u) - 1
      /\ \A j \in 1..Len(v) : v[j] = u[j + 1]
      /\ \A k \in 2..Len(queue) : queue'[k] = queue[k]
      /\ m = u[1] /\ Len(u) \in Nat \ {0}
  BY <1>1, <1>2, PopFacts
<1>4. MirrorInv' /\ (Arrived' <=> Arrived) /\ sync' = sync /\ sync # Absent
      /\ Len(sync) \in Nat
  BY <1>1, <1>2, Served
<1>5. S!RecvInit(m.id, m.n)
  BY DEF ServerRecv, S!RecvChunk
<1>6. /\ left' = m.n /\ spc' \in Before /\ Handling' /\ ~Handling
      /\ UNCHANGED <<todo, got>> /\ spc' \notin Receiving \union After
  BY <1>5 DEF S!RecvInit, Handling, Before, Receiving, After
<1>7. todo = <<>> /\ got = <<>>
  BY DEF Known, IdleInv
<1>8. Fresh(u, sync) /\ u # <<>> /\ Len(queue) \in Nat \ {0}
  BY <1>1, <1>2, <1>6 DEF Sound, StreamInv, Incoming
<1>9. m.n = Len(sync)
  BY <1>3, <1>8 DEF Fresh
<1>10. Carries(v, 0, sync)
  <2> HIDE DEF u, v
  <2> QED BY <1>3, <1>4, <1>8 DEF Fresh, Carries
<1>11. StreamInv'
  <2>1. ASSUME NEW k \in 1..Len(queue'), k > 1
        PROVE  Fresh(queue'[k].up, sync)
    <3>1. k \in 2..Len(queue) /\ k \in 1..Len(queue)
      BY <1>3, <1>8, <2>1
    <3>2. queue'[k] = queue[k]
      BY <1>3, <3>1
    <3> QED BY <2>1, <3>1, <3>2 DEF Sound, StreamInv
  <2> QED BY <1>4, <1>6, <2>1 DEF StreamInv
<1>12. SessionInv'
  BY <1>4, <1>6, <1>7, <1>9, <1>10
     DEF SessionInv, Receiving, Before, After
<1>13. SenderInv'
  <2>0. \A i \in 1..Len(down) : down[i] # "finish"
    BY <1>1 DEF Sound, SenderInv
  <2>1. CASE conn # "open"
    BY <1>2, <1>4, <2>0, <2>1 DEF Sound, SenderInv
  <2>2. CASE conn = "open"
    <3> DEFINE n == Len(queue)
    <3>1. /\ down = <<>> /\ tpc \in {"init", "response"}
          /\ Len(queue[n].up) = IF tpc = "init" THEN 0 ELSE 1
      BY <1>6, <2>2 DEF Sound, SenderInv
    <3>2. 1..Len(down') = {} /\ down' = <<>>
      BY <1>2, <3>1
    <3>3. CASE n = 1
      <4>1. tpc = "response" /\ Len(v) = 0
        <5>1. Len(u) = IF tpc = "init" THEN 0 ELSE 1
          BY <3>1, <3>3
        <5> HIDE DEF u, v
        <5> QED BY <1>3, <3>1, <5>1
      <4>2. v = <<>>
        BY <1>3, <4>1
      <4> QED BY <1>2, <1>3, <1>6, <3>2, <3>3, <4>1, <4>2 DEF SenderInv
    <3>4. CASE n # 1
      <4>1. queue'[n] = queue[n]
        BY <1>3, <1>8, <3>4
      <4> QED BY <1>2, <1>3, <3>1, <3>2, <3>4, <4>1 DEF SenderInv
    <3> QED BY <3>3, <3>4
  <2> QED BY <2>1, <2>2
<1> QED BY <1>4, <1>11, <1>12, <1>13 DEF Sound

\* A file is received: the next one of the epoch.
LEMMA RecvFileSound ==
  ASSUME Known, Sound, ~clobbered, ServerRecv, spc # "init", Mirror' = Mirror
  PROVE  Sound'
<1> DEFINE m == Head(Incoming)
           u == queue[1].up
           v == queue'[1].up
           K == Len(got)
<1>2. /\ Pop /\ Incoming # <<>> /\ spc # "accept"
      /\ UNCHANGED <<cvars, tpc, sent, conn, down, faults>>
  BY DEF ServerRecv
<1>1. queue \in Seq(Conn) /\ queue # <<>>
  BY <1>2 DEF Known, NetInv
<1>3. /\ queue' \in Seq(Conn) /\ Len(queue') = Len(queue) /\ queue' # <<>>
      /\ v \in Seq(Msg) /\ Len(v) = Len(u) - 1
      /\ \A j \in 1..Len(v) : v[j] = u[j + 1]
      /\ \A k \in 2..Len(queue) : queue'[k] = queue[k]
      /\ m = u[1] /\ Len(u) \in Nat \ {0}
  BY <1>1, <1>2, PopFacts
<1>4. MirrorInv' /\ (Arrived' <=> Arrived) /\ sync' = sync /\ sync # Absent
      /\ Len(sync) \in Nat
  BY <1>1, <1>2, Served
<1>5. S!RecvChunk(<<m.op>>, TRUE)
  BY DEF ServerRecv, S!RecvInit
<1>6. /\ spc = "files" /\ spc' = "ops" /\ todo' = <<m.op>> /\ islast' = TRUE
      /\ UNCHANGED <<left, got>>
  BY <1>5 DEF S!RecvChunk
<1>7. /\ Carries(u, Len(got) + Len(todo), sync) /\ todo = <<>>
      /\ left = Len(sync) - K /\ \A j \in 1..K : got[j] = sync[j]
      /\ K <= Len(sync)
  BY <1>6 DEF Sound, SessionInv, Receiving
<1>8. K \in Nat /\ Len(todo) = 0 /\ Len(todo') = 1 /\ todo'[1] = m.op
  BY <1>6, <1>7 DEF Known, ServerFacts, S!TypeOK
<1>9. Carries(u, K, sync)
  BY <1>7, <1>8
<1>10. m.op = sync[K + 1] /\ K < Len(sync) /\ Carries(v, K + 1, sync)
  <2> HIDE DEF u, v, K
  <2>1. K + Len(u) <= Len(sync)
    BY <1>9 DEF Carries
  <2>2. m.op = sync[K + 1]
    BY <1>3, <1>9 DEF Carries
  <2>3. \A j \in 1..Len(v) : v[j] \in FileMsg /\ v[j].op = sync[(K + 1) + j]
    <3> TAKE j \in 1..Len(v)
    <3>1. j + 1 \in 1..Len(u) /\ K + (j + 1) = (K + 1) + j
      BY <1>3, <1>8
    <3> QED BY <1>3, <1>9, <3>1 DEF Carries
  <2> QED BY <1>3, <1>4, <1>8, <2>1, <2>2, <2>3 DEF Carries
<1>11. Handling /\ Handling' /\ spc \notin Before /\ spc' \notin Before
  BY <1>6 DEF Handling, Receiving, Before
<1>12. StreamInv'
  <2>1. ASSUME NEW k \in 1..Len(queue'), k > 1
        PROVE  Fresh(queue'[k].up, sync)
    <3>1. k \in 2..Len(queue) /\ k \in 1..Len(queue)
      BY <1>1, <1>3, <2>1
    <3>2. queue'[k] = queue[k]
      BY <1>3, <3>1
    <3> QED BY <2>1, <3>1, <3>2 DEF Sound, StreamInv
  <2> QED BY <1>4, <1>11, <2>1 DEF StreamInv
<1>13. SessionInv'
  <2>1. Carries(v, Len(got') + Len(todo'), sync')
    BY <1>4, <1>6, <1>8, <1>10
  <2>2. /\ islast' /\ Len(todo') = 1 /\ Len(got') < Len(sync')
        /\ todo'[1] = sync'[Len(got') + 1] /\ left' = Len(sync') - Len(got')
        /\ Len(got') <= Len(sync') /\ \A j \in 1..Len(got') : got'[j] = sync'[j]
    BY <1>4, <1>6, <1>7, <1>8, <1>10
  <2> QED BY <1>6, <2>1, <2>2 DEF SessionInv, Receiving, Before, After
<1>14. SenderInv'
  <2>0. \A i \in 1..Len(down) : down[i] # "finish"
    BY <1>1 DEF Sound, SenderInv
  <2>1. CASE conn # "open"
    BY <1>2, <1>4, <2>0, <2>1 DEF Sound, SenderInv
  <2>2. CASE conn = "open" /\ Len(queue) = 1
    <3>1. /\ \/ tpc = "response" /\ down = <<"continue">>
             \/ tpc = "files" /\ down = <<>>
          /\ K + Len(todo) + Len(u) = sent
      BY <1>11, <2>2 DEF Sound, SenderInv
    <3>2. Len(got') + Len(todo') + Len(v) = sent'
      <4>1. Len(got') = K /\ sent' = sent
        BY <1>2, <1>6
      <4> HIDE DEF K, u, v
      <4> QED BY <1>3, <1>8, <3>1, <4>1
    <3> QED BY <1>2, <1>3, <1>4, <1>11, <2>2, <3>1, <3>2 DEF Sound, SenderInv
  <2>3. CASE conn = "open" /\ Len(queue) # 1
    <3>1. queue'[Len(queue)] = queue[Len(queue)]
      BY <1>1, <1>3, <2>3
    <3> QED BY <1>2, <1>3, <1>4, <2>3, <3>1 DEF Sound, SenderInv
  <2> QED BY <2>1, <2>2, <2>3
<1> QED BY <1>4, <1>12, <1>13, <1>14 DEF Sound

\* A session that ends leaves the connections behind it as they are; what it
\* sends last is refused or, when the mirror has the epoch, confirmed.
LEMMA ReturnSound ==
  ASSUME Known, Sound, ~clobbered, Done, Mirror' = Mirror,
         UNCHANGED <<cvars, tpc, sent>>, spc # "accept", spc' = "accept",
         \/ down' = down
         \/ Current /\ spc = "respond" /\ down' = Append(down, "refused")
         \/ Current /\ spc = "finish" /\ down' = Append(down, "finish")
  PROVE  Sound'
<1> DEFINE n == Len(queue)
<1>1. queue \in Seq(Conn) /\ queue # <<>> /\ n \in Nat \ {0}
  BY DEF Known, NetInv
<1>2. /\ queue' \in Seq(Conn) /\ Len(queue') = n - 1
      /\ \A k \in 1..Len(queue') : queue'[k] = queue[k + 1]
      /\ queue' # <<>> <=> n # 1
      /\ conn' = IF Current THEN "closed" ELSE conn
  BY <1>1, TailFacts DEF Done
<1>3. /\ MirrorInv' /\ (Arrived' <=> Arrived) /\ sync' = sync /\ sync # Absent
      /\ Len(sync) \in Nat
  BY <1>1, Served
<1>4. ~Handling'
  BY DEF Handling, Before, Receiving, After
<1>5. StreamInv'
  <2>1. ASSUME NEW k \in 1..Len(queue')
        PROVE  Fresh(queue'[k].up, sync)
    <3>1. k + 1 \in 1..n /\ k + 1 > 1
      BY <1>1, <1>2
    <3>2. Fresh(queue[k + 1].up, sync)
      BY <3>1 DEF Sound, StreamInv
    <3> QED BY <1>2, <3>2
  <2> QED BY <1>3, <2>1 DEF StreamInv
<1>6. SessionInv'
  BY DEF SessionInv, Before, Receiving, After
<1>7. SenderInv'
  <2>0. \A i \in 1..Len(down) : down[i] # "finish"
    BY <1>1 DEF Sound, SenderInv
  <2>d. down \in Seq(S!Replies)
    BY DEF Known, NetInv
  <2>1. CASE ~Current
    <3>1. down' = down /\ conn' = conn
      BY <1>2, <2>1
    <3>2. CASE conn = "open"
      <4>1. n # 1
        BY <2>1, <3>2 DEF Current
      <4>2. Len(queue') \in 1..Len(queue') /\ queue'[Len(queue')] = queue[n]
        <5>1. n - 1 \in 1..(n - 1) /\ (n - 1) + 1 = n
          <6> HIDE DEF n
          <6> QED BY <1>1, <4>1
        <5> QED BY <1>2, <5>1
      <4>3. /\ down = <<>> /\ tpc \in {"init", "response"}
            /\ Len(queue[n].up) = IF tpc = "init" THEN 0 ELSE 1
        BY <3>2, <4>1 DEF Sound, SenderInv
      <4> QED BY <1>4, <2>0, <3>1, <4>2, <4>3 DEF Sound, SenderInv
    <3>3. CASE conn # "open"
      BY <1>4, <2>0, <3>1, <3>3 DEF Sound, SenderInv
    <3> QED BY <3>2, <3>3
  <2>2. CASE Current
    <3>1. conn = "open" /\ n = 1 /\ conn' = "closed" /\ queue' = <<>>
      BY <1>2, <2>2 DEF Current
    <3>2. CASE down' = down
      BY <2>0, <3>1, <3>2 DEF Sound, SenderInv
    <3>3. CASE spc = "respond" /\ down' = Append(down, "refused")
      <4>1. Handling /\ spc \in Before
        BY <3>3 DEF Handling, Before
      <4>2. tpc = "response" /\ down = <<>>
        BY <3>1, <4>1 DEF Sound, SenderInv
      <4>3. down' = <<"refused">>
        BY <3>3, <4>2
      <4>4. \A i \in 1..Len(down') : i = 1 /\ down'[i] # "finish"
        BY <4>3
      <4> QED BY <3>1, <4>2, <4>4 DEF SenderInv
    <3>4. CASE spc = "finish" /\ down' = Append(down, "finish")
      <4>1. Handling /\ spc \notin Before /\ spc \in After
        BY <3>4 DEF Handling, Before, After
      <4>2. Arrived
        BY <4>1 DEF Sound, SessionInv
      <4>3. \/ tpc = "response" /\ down = <<"continue">>
            \/ tpc = "files" /\ down = <<>>
        BY <3>1, <4>1 DEF Sound, SenderInv
      <4>4. \A i \in 1..Len(down') :
              i > 1 \/ tpc = "files" => down'[i] = "finish"
        <5>1. CASE tpc = "response" /\ down = <<"continue">>
          <6>1. Len(down') = 2 /\ down'[2] = "finish"
            BY <2>d, <3>4, <5>1
          <6>2. \A i \in 1..2 : i > 1 => i = 2
            OBVIOUS
          <6> QED BY <5>1, <6>1, <6>2
        <5>2. CASE tpc = "files" /\ down = <<>>
          <6>1. down' = <<"finish">>
            BY <3>4, <5>2
          <6> QED BY <6>1
        <5> QED BY <4>3, <5>1, <5>2
      <4> QED BY <1>3, <3>1, <4>2, <4>3, <4>4 DEF SenderInv
    <3> QED BY <2>2, <3>2, <3>3, <3>4
  <2> QED BY <2>1, <2>2
<1> QED BY <1>3, <1>5, <1>6, <1>7 DEF Sound

\* The client of this connection is told to go on.
LEMMA ContinueSound ==
  ASSUME Known, Sound, ~clobbered, spc = "respond", spc' = "files",
         Mirror' = Mirror,
         UNCHANGED <<cvars, tpc, sent, queue, conn, todo, got, left, islast>>,
         \/ down' = down /\ ~Current
         \/ down' = Append(down, "continue") /\ Current
  PROVE  Sound'
<1> DEFINE n == Len(queue)
           u == queue[1].up
<1>1. queue \in Seq(Conn) /\ queue # <<>> /\ n \in Nat \ {0}
  BY DEF Known, NetInv
<1>2. /\ MirrorInv' /\ (Arrived' <=> Arrived) /\ sync' = sync /\ sync # Absent
      /\ Len(sync) \in Nat
  BY <1>1, Served
<1>3. /\ Handling /\ spc \in Before /\ Handling' /\ spc' \in Receiving
      /\ spc' \notin Before /\ spc' \notin After
  BY DEF Handling, Before, Receiving, After
<1>4. got = <<>> /\ todo = <<>> /\ left = Len(sync) /\ Carries(u, 0, sync)
  BY <1>3 DEF Sound, SessionInv
<1>z. Len(got) = 0 /\ Len(todo) = 0
  BY <1>4
<1>5. StreamInv'
  BY <1>2, <1>3 DEF Sound, StreamInv
<1>6. SessionInv'
  <2>1. Carries(queue'[1].up, Len(got') + Len(todo'), sync')
    BY <1>2, <1>4, <1>z
  <2> QED BY <1>2, <1>3, <1>4, <1>z, <2>1 DEF SessionInv
<1>7. SenderInv'
  <2>0. \A i \in 1..Len(down) : down[i] # "finish"
    BY <1>1 DEF Sound, SenderInv
  <2>1. CASE ~Current
    BY <1>2, <1>3, <2>0, <2>1 DEF Sound, SenderInv, Current
  <2>2. CASE Current
    <3>1. conn = "open" /\ n = 1 /\ tpc = "response" /\ down = <<>> /\ u = <<>>
      BY <1>3, <2>2 DEF Current, Sound, SenderInv
    <3>2. down' = <<"continue">>
      BY <2>2, <3>1
    <3>3. sent = 0 /\ Len(u) = 0
      BY <3>1 DEF Known, NetInv
    <3>4. \A i \in 1..Len(down') : i = 1 /\ down'[i] # "finish"
      BY <3>2
    <3>5. Len(got') + Len(todo') + Len(queue'[1].up) = sent'
      BY <1>z, <3>3
    <3> QED BY <1>3, <3>1, <3>2, <3>4, <3>5 DEF SenderInv
  <2> QED BY <2>1, <2>2
<1> QED BY <1>2, <1>5, <1>6, <1>7 DEF Sound

\* The answers of the server.
LEMMA SendSound ==
  ASSUME Known, Sound, ~clobbered, ServerSend, Mirror' = Mirror
  PROVE  Sound'
<1>1. PICK ok \in BOOLEAN :
        /\ spc # "accept"
        /\ S!Respond(ok) \/ S!Finish(ok)
        /\ down' = IF Current /\ ok THEN Append(down, reply') ELSE down
        /\ IF spc' = "accept" THEN Done ELSE UNCHANGED <<queue, conn>>
        /\ UNCHANGED <<cvars, tpc, sent, faults>>
  BY DEF ServerSend
<1>2. UNCHANGED <<cvars, tpc, sent>>
  BY <1>1
<1>3. CASE S!Respond(ok) /\ ok /\ ~errflag
  <2>1. /\ spc = "respond" /\ spc' = "files" /\ reply' = "continue"
        /\ UNCHANGED <<todo, got, left, islast>>
    BY <1>3 DEF S!Respond, S!transfer
  <2>2. UNCHANGED <<queue, conn>>
    BY <1>1, <2>1
  <2>3. \/ down' = down /\ ~Current
        \/ down' = Append(down, "continue") /\ Current
    BY <1>1, <1>3, <2>1
  <2> QED BY <1>2, <2>1, <2>2, <2>3, ContinueSound
<1>4. CASE S!Respond(ok) /\ ~(ok /\ ~errflag)
  <2>1. spc = "respond" /\ spc' = "accept" /\ (ok => reply' = "refused")
    BY <1>4 DEF S!Respond, S!Return
  <2>2. Done
    BY <1>1, <2>1
  <2>3. \/ down' = down
        \/ Current /\ spc = "respond" /\ down' = Append(down, "refused")
    BY <1>1, <2>1
  <2> QED BY <1>1, <1>2, <2>1, <2>2, <2>3, ReturnSound
<1>5. CASE S!Finish(ok)
  <2>1. spc = "finish" /\ spc' = "accept" /\ (ok => reply' = "finish")
    BY <1>5 DEF S!Finish, S!Return
  <2>2. Done
    BY <1>1, <2>1
  <2>3. \/ down' = down
        \/ Current /\ spc = "finish" /\ down' = Append(down, "finish")
    BY <1>1, <2>1
  <2> QED BY <1>1, <1>2, <2>1, <2>2, <2>3, ReturnSound
<1> QED BY <1>1, <1>3, <1>4, <1>5

\* An operation is applied: it was the one under way.
LEMMA ApplySound ==
  ASSUME Known, Sound, ~clobbered, S!ApplyOp, UNCHANGED <<cvars, net>>,
         Mirror' = Mirror
  PROVE  Sound'
<1> DEFINE K == Len(got)
           u == queue[1].up
<1>1. /\ spc = "ops" /\ spc' = "ops" /\ todo # <<>>
      /\ got' = Append(got, Head(todo)) /\ todo' = Tail(todo)
      /\ UNCHANGED <<left, islast>>
  BY DEF S!ApplyOp
<1>2. queue # <<>>
  BY <1>1 DEF Known, NetInv
<1>3. /\ MirrorInv' /\ (Arrived' <=> Arrived) /\ sync' = sync /\ sync # Absent
      /\ sync \in Seq(Ops) /\ Len(sync) \in Nat
  BY <1>2, Served
<1>4. /\ Len(todo) = 1 /\ K < Len(sync) /\ todo[1] = sync[K + 1]
      /\ left = Len(sync) - K /\ islast
      /\ Carries(u, K + Len(todo), sync) /\ K <= Len(sync)
      /\ \A j \in 1..K : got[j] = sync[j]
  BY <1>1 DEF Sound, SessionInv, Receiving
<1>5. todo \in Seq(Ops) /\ got \in Seq(Ops) /\ K \in Nat
  BY DEF Known, ServerFacts, S!TypeOK, Ops
<1>6. todo' = <<>> /\ Len(todo') = 0 /\ Head(todo) = sync[K + 1]
      /\ Head(todo) \in Ops
  <2>1. Tail(todo) \in Seq(Ops) /\ Len(Tail(todo)) = 0 /\ Head(todo) = todo[1]
        /\ Head(todo) \in Ops
    BY <1>1, <1>4, <1>5
  <2> QED BY <1>1, <1>4, <2>1
<1>7. Len(got') = K + 1 /\ \A j \in 1..Len(got') : got'[j] = sync[j]
  <2>1. Len(got') = K + 1 /\ got'[K + 1] = sync[K + 1]
        /\ \A j \in 1..K : got'[j] = got[j]
    BY <1>1, <1>5, <1>6
  <2> QED BY <1>4, <1>5, <2>1
<1>8. UNCHANGED <<tpc, sent, conn, down, queue>>
  BY DEF net
<1>9. Handling /\ Handling' /\ spc \notin Before /\ spc' \notin Before
  BY <1>1 DEF Handling, Receiving, Before
<1>10. StreamInv'
  BY <1>3, <1>8, <1>9 DEF Sound, StreamInv
<1>s. Len(got') + Len(todo') = K + Len(todo)
  BY <1>4, <1>5, <1>6, <1>7
<1>11. SessionInv'
  <2>1. Carries(queue'[1].up, Len(got') + Len(todo'), sync')
    BY <1>3, <1>4, <1>8, <1>s
  <2>2. /\ islast' /\ todo' = <<>> /\ left' = Len(sync') - Len(got') + 1
        /\ Len(got') <= Len(sync') /\ \A j \in 1..Len(got') : got'[j] = sync'[j]
    BY <1>1, <1>3, <1>4, <1>5, <1>6, <1>7
  <2> QED BY <1>1, <2>1, <2>2 DEF SessionInv, Receiving, Before, After
<1>12. SenderInv'
  <2>1. Len(got') + Len(todo') + Len(queue'[1].up) = K + Len(todo) + Len(u)
    BY <1>s, <1>8
  <2> QED BY <1>3, <1>8, <1>9, <2>1 DEF Sound, SenderInv
<1> QED BY <1>3, <1>10, <1>11, <1>12 DEF Sound

\* A chunk, which is a file here, has been handled.
LEMMA EndChunkSound ==
  ASSUME Known, Sound, ~clobbered, S!EndChunk, UNCHANGED <<cvars, net>>,
         Mirror' = Mirror
  PROVE  Sound'
<1>1. /\ spc = "ops" /\ spc' = "files" /\ todo = <<>>
      /\ left' = (IF islast THEN left - 1 ELSE left)
      /\ UNCHANGED <<got, todo, islast>>
  BY DEF S!EndChunk
<1>2. queue # <<>>
  BY <1>1 DEF Known, NetInv
<1>3. /\ MirrorInv' /\ (Arrived' <=> Arrived) /\ sync' = sync /\ sync # Absent
      /\ Len(sync) \in Nat
  BY <1>2, Served
<1>4. /\ left = Len(sync) - Len(got) + 1 /\ islast /\ Len(got) \in Nat
      /\ Len(got) <= Len(sync) /\ \A j \in 1..Len(got) : got[j] = sync[j]
      /\ Carries(queue[1].up, Len(got) + Len(todo), sync)
  <2>1. Len(todo) # 1 /\ Len(got) \in Nat
    BY <1>1 DEF Known, ServerFacts, S!TypeOK
  <2> QED BY <1>1, <2>1 DEF Sound, SessionInv, Receiving
<1>5. left' = Len(sync) - Len(got)
  BY <1>1, <1>3, <1>4
<1>6. UNCHANGED <<tpc, sent, conn, down, queue>>
  BY DEF net
<1>7. Handling /\ Handling' /\ spc \notin Before /\ spc' \notin Before
  BY <1>1 DEF Handling, Receiving, Before
<1>8. StreamInv' /\ SenderInv'
  BY <1>1, <1>3, <1>6, <1>7 DEF Sound, StreamInv, SenderInv
<1>9. SessionInv'
  BY <1>1, <1>3, <1>4, <1>5, <1>6 DEF SessionInv, Receiving, Before, After
<1> QED BY <1>3, <1>8, <1>9 DEF Sound

\* What .sync adds to the mirror goes on where that ended.
LEMMA Joined ==
  ASSUME NEW s \in Seq(Nat), NEW t \in Seq(Nat), NEW b \in Nat,
         \A i \in 1..Len(s) : s[i] <= 1 + (IF i = 1 THEN 0 ELSE s[i - 1]),
         \A i \in 1..Len(t) : t[i] = b + i,
         (IF s = <<>> THEN 0 ELSE s[Len(s)]) \in {b, b + Len(t)}
  PROVE  LET r == s \o t
         IN  /\ \A i \in 1..Len(r) :
                  r[i] <= 1 + (IF i = 1 THEN 0 ELSE r[i - 1])
             /\ (IF r = <<>> THEN 0 ELSE r[Len(r)]) = b + Len(t)
             /\ ToSet(s) \subseteq ToSet(r)
             /\ \A i \in 1..Len(t) : t[i] \in ToSet(r)
<1> DEFINE r == s \o t
<1>1. /\ r \in Seq(Nat) /\ Len(r) = Len(s) + Len(t)
      /\ \A i \in 1..Len(s) : r[i] = s[i]
      /\ \A i \in 1..Len(t) : r[Len(s) + i] = t[i]
      /\ Len(s) \in Nat /\ Len(t) \in Nat
  OBVIOUS
<1>e. (s = <<>> <=> Len(s) = 0) /\ (r = <<>> <=> Len(r) = 0)
  <2>1. \A q \in Seq(Nat) : q = <<>> <=> Len(q) = 0
    OBVIOUS
  <2> QED BY <1>1, <2>1
<1>t. \A i \in 1..Len(s) : s[i] \in Nat
  OBVIOUS
<1> HIDE DEF r
<1>2. \A i \in 1..Len(r) : r[i] <= 1 + (IF i = 1 THEN 0 ELSE r[i - 1])
  <2> TAKE i \in 1..Len(r)
  <2>1. CASE i <= Len(s)
    <3>1. i \in 1..Len(s) /\ (i # 1 => i - 1 \in 1..Len(s))
      BY <1>1, <2>1
    <3> QED BY <1>1, <3>1
  <2>2. CASE i = Len(s) + 1
    <3>1. r[i] = b + 1
      <4>1. 1 \in 1..Len(t)
        BY <1>1, <2>2
      <4> QED BY <1>1, <2>2, <4>1
    <3>2. CASE i = 1
      <4>1. s = <<>> /\ b = 0
        <5>1. Len(s) = 0 /\ Len(t) >= 1
          BY <1>1, <2>2, <3>2
        <5> QED BY <1>1, <1>e, <5>1
      <4> QED BY <3>1, <3>2, <4>1
    <3>3. CASE i # 1
      <4>1. s # <<>> /\ r[i - 1] = s[Len(s)] /\ s[Len(s)] \in Nat
        <5>1. Len(s) \in 1..Len(s) /\ i - 1 = Len(s)
          BY <1>1, <2>2, <3>3
        <5> QED BY <1>1, <1>e, <1>t, <5>1
      <4>2. r[i - 1] >= b
        BY <1>1, <4>1
      <4> QED BY <1>1, <3>1, <3>3, <4>1, <4>2
    <3> QED BY <3>2, <3>3
  <2>3. CASE i > Len(s) + 1
    <3> DEFINE j == i - Len(s)
    <3>1. j \in 1..Len(t) /\ j - 1 \in 1..Len(t) /\ i = Len(s) + j
          /\ i - 1 = Len(s) + (j - 1) /\ i # 1
      <4>1. /\ i \in Nat /\ i <= Len(s) + Len(t)
            /\ Len(s) \in Nat /\ Len(t) \in Nat
        BY <1>1
      <4> QED BY ONLY <2>3, <4>1
    <3>2. r[i] = b + j /\ r[i - 1] = b + (j - 1)
      BY <1>1, <3>1
    <3> QED BY <3>1, <3>2
  <2> QED BY <1>1, <2>1, <2>2, <2>3
<1>3. (IF r = <<>> THEN 0 ELSE r[Len(r)]) = b + Len(t)
  <2>1. CASE Len(t) = 0
    <3>1. Len(r) = Len(s) /\ (IF s = <<>> THEN 0 ELSE s[Len(s)]) = b
      BY <1>1, <2>1
    <3>2. s # <<>> => Len(s) \in 1..Len(s)
      BY <1>1, <1>e
    <3> QED BY <1>1, <1>e, <2>1, <3>1, <3>2
  <2>2. CASE Len(t) # 0
    <3>1. Len(t) \in 1..Len(t) /\ Len(r) = Len(s) + Len(t) /\ Len(r) # 0
      BY <1>1, <2>2
    <3> QED BY <1>1, <1>e, <3>1
  <2> QED BY <2>1, <2>2
<1>4. ToSet(s) \subseteq ToSet(r) /\ \A i \in 1..Len(t) : t[i] \in ToSet(r)
  <2>1. \A i \in 1..Len(s) : i \in 1..Len(r) /\ r[i] = s[i]
    BY <1>1
  <2>2. \A i \in 1..Len(t) : Len(s) + i \in 1..Len(r) /\ r[Len(s) + i] = t[i]
    BY <1>1
  <2>3. DOMAIN s = 1..Len(s) /\ DOMAIN r = 1..Len(r)
    BY <1>1
  <2> QED BY <2>1, <2>2, <2>3 DEF ToSet
<1> QED BY <1>2, <1>3, <1>4 DEF r

\* The server deletes the snapshot: the mirror has the epoch.
LEMMA CommitSound ==
  ASSUME Known, Sound, ~clobbered, ~trouble, S!CommitEpoch,
         UNCHANGED <<cvars, net>>
  PROVE  Sound' /\ sync # Absent /\ Mirror' = Mirror \o sync
<1>1. /\ spc = "files" /\ spc' = "rename" /\ left = 0
      /\ UNCHANGED <<got, todo, left, islast>>
  BY DEF S!CommitEpoch, S!transfer
<1>2. queue # <<>> /\ UNCHANGED <<tpc, sent, conn, down, queue, sync, clobbered,
                                  executed, pend, log, acked, cpc>>
  BY <1>1 DEF Known, NetInv, net, cvars
<1>3. /\ sync # Absent /\ sync \in Seq(Ops) /\ Len(sync) \in Nat
      /\ cpc \notin Dropping
  BY <1>2 DEF Known, LogInv, Epoch, Sound, StreamInv, MirrorInv
<1>4. /\ todo = <<>> /\ Len(got) = Len(sync) /\ got \in Seq(Ops)
      /\ Len(got) \in Nat /\ \A j \in 1..Len(got) : got[j] = sync[j]
      /\ Carries(queue[1].up, Len(got) + Len(todo), sync)
  <2>1. /\ todo = <<>> /\ left = Len(sync) - Len(got)
        /\ \A j \in 1..Len(got) : got[j] = sync[j]
        /\ Carries(queue[1].up, Len(got) + Len(todo), sync)
    BY <1>1 DEF Sound, SessionInv, Receiving
  <2>2. got \in Seq(Ops) /\ Len(got) \in Nat
    BY DEF Known, ServerFacts, S!TypeOK, Ops
  <2> QED BY <1>1, <1>3, <2>1, <2>2
<1>5. got = sync
  BY <1>3, <1>4
<1>6. queue[1].up = <<>>
  <2>1. queue[1].up \in Seq(Msg)
    BY <1>2, ConnFacts DEF Known, NetInv
  <2>2. Len(queue[1].up) = 0
    <3> DEFINE u == queue[1].up
    <3>1. Carries(u, Len(got) + Len(todo), sync) /\ Len(todo) = 0
      BY <1>4
    <3> HIDE DEF u
    <3>2. Len(got) + Len(u) <= Len(sync) /\ Len(u) \in Nat
      BY <1>4, <2>1, <3>1 DEF Carries, u
    <3>3. Len(u) = 0
      BY <1>4, <3>2
    <3> QED BY <3>3 DEF u
  <2> QED BY <2>1, <2>2
<1>7. Mirror' = Mirror \o sync
  <2>1. S!HaveBase /\ snapshot \in Seq(Ops) /\ rootdir = snapshot \o got
        /\ snapshot' = Absent /\ rootdir' = rootdir
    BY <1>1, ServerConstants
       DEF Known, ServerFacts, S!Guarded, S!ReceivingIsGuarded, S!HaveBase,
           S!Readable, S!Id, S!CommitEpoch, Ops
  <2> QED BY <1>5, <2>1 DEF Mirror, S!Recovered, S!HaveBase
<1>8. Base' = Base /\ Base \in Nat
  <2>1. /\ executed \in Nat /\ pend \in {0, executed}
        /\ Len(log) \in Nat /\ Base >= 0
    BY SessionAssumption DEF Known, LogInv, ClientFacts, C!CTypeOK
  <2> QED BY <1>2, <2>1 DEF Base, Pending
<1>9. /\ Gapless' /\ Reached' = Base
      /\ ToSet(Mirror) \subseteq ToSet(Mirror')
      /\ \A i \in 1..Len(sync) : sync[i] \in ToSet(Mirror')
  <2> DEFINE b == Base - Len(sync)
  <2>1. Mirror \in Seq(Nat) /\ sync \in Seq(Nat)
    <3>1. Mirror \in Seq(Ops) /\ Ops \subseteq Nat
      BY MirrorType, SessionAssumption DEF Known, Ops
    <3> QED BY <1>3, <3>1, SeqOver
  <2>2. /\ b \in Nat /\ \A i \in 1..Len(sync) : sync[i] = b + i
        /\ Reached \in {b, b + Len(sync)}
        /\ \A i \in 1..Len(Mirror) :
             Mirror[i] <= 1 + (IF i = 1 THEN 0 ELSE Mirror[i - 1])
    BY <1>3, <1>8 DEF Sound, MirrorInv, Gapless
  <2> HIDE DEF b
  <2>3. LET r == Mirror \o sync
        IN  /\ \A i \in 1..Len(r) :
                 r[i] <= 1 + (IF i = 1 THEN 0 ELSE r[i - 1])
            /\ (IF r = <<>> THEN 0 ELSE r[Len(r)]) = b + Len(sync)
            /\ ToSet(Mirror) \subseteq ToSet(r)
            /\ \A i \in 1..Len(sync) : sync[i] \in ToSet(r)
    <3>1. (IF Mirror = <<>> THEN 0 ELSE Mirror[Len(Mirror)])
            \in {b, b + Len(sync)}
      BY <2>2 DEF Reached
    <3> QED BY <2>1, <2>2, <3>1, Joined
  <2>4. b + Len(sync) = Base
    BY <1>3, <1>8 DEF b
  <2> QED BY <1>7, <2>3, <2>4 DEF Gapless, Reached
<1>10. Arrived'
  BY <1>2, <1>8, <1>9 DEF Arrived
<1>11. MirrorInv'
  <2>1. acked' \subseteq ToSet(Mirror')
    BY <1>2, <1>9 DEF Sound, MirrorInv
  <2>2. /\ Base' - Len(sync') >= 0
        /\ \A i \in 1..Len(sync') : sync'[i] = Base' - Len(sync') + i
    BY <1>2, <1>3, <1>8 DEF Sound, MirrorInv
  <2> QED BY <1>2, <1>3, <1>8, <1>9, <2>1, <2>2 DEF MirrorInv
<1>12. /\ Handling /\ Handling' /\ spc \notin Before /\ spc' \notin Before
       /\ spc' \notin Receiving
  BY <1>1 DEF Handling, Receiving, Before, After
<1>13. StreamInv'
  BY <1>2, <1>12 DEF Sound, StreamInv
<1>14. SessionInv'
  BY <1>1, <1>2, <1>4, <1>6, <1>10, <1>12 DEF SessionInv
<1>15. SenderInv'
  <2>0. \A i \in 1..Len(down) : down[i] # "finish"
    BY <1>2 DEF Sound, SenderInv
  <2> QED BY <1>1, <1>2, <1>12, <2>0 DEF Sound, SenderInv
<1> QED BY <1>3, <1>7, <1>11, <1>13, <1>14, <1>15 DEF Sound

\* The steps of the mirror that need no message.
LEMMA ServerLocalSound ==
  ASSUME Known, Sound, ~clobbered, ~trouble, ~trouble', Next,
         ServerLocal \/ ServerCallFails
  PROVE  Sound'
<1>1. UNCHANGED <<cvars, net>>
  BY ServerLocalEffect
<1>2. CASE ServerLocal /\ S!CommitEpoch
  BY <1>1, <1>2, CommitSound
<1>3. CASE ~(ServerLocal /\ S!CommitEpoch)
  <2>1. ~(spc = "files" /\ spc' = "rename")
    BY <1>3 DEF ServerLocal, ServerCallFails, S!RevertDelete, S!RevertCreate,
       S!RevertDrop, S!DropStale, S!CreateBase, S!TruncateId, S!WriteId,
       S!RenameId, S!ApplyOp, S!EndChunk
  <2>2. Mirror' = Mirror
    BY <2>1, MirrorStays
  <2>3. CASE ServerLocal /\ (S!ApplyOp \/ S!EndChunk)
    BY <1>1, <2>2, <2>3, ApplySound, EndChunkSound
  <2>4. CASE ~(ServerLocal /\ (S!ApplyOp \/ S!EndChunk))
    <3>1. /\ SamePart /\ UNCHANGED <<got, todo, left, islast>>
      BY <1>3, <2>4
         DEF ServerLocal, ServerCallFails, S!RevertDelete, S!RevertCreate,
             S!RevertDrop, S!DropStale, S!CreateBase, S!TruncateId, S!WriteId,
             S!RenameId, S!transfer, SamePart, Before, After
    <3>2. UNCHANGED <<executed, pend, log, sync, acked, clobbered, cpc, tpc,
                      sent, conn, down, queue>>
      BY <1>1 DEF cvars, net
    <3> QED BY <2>2, <3>1, <3>2, Frame DEF Base, Pending
  <2> QED BY <2>3, <2>4
<1> QED BY <1>2, <1>3

\* The mirror's daemon dies.
LEMMA DeathSound ==
  ASSUME Known, Sound, ~clobbered, ServerDies, Mirror' = Mirror
  PROVE  Sound'
<1>1. /\ spc' = "accept" /\ queue' = <<>> /\ UNCHANGED <<cvars, tpc, sent>>
      /\ conn' = (IF conn = "open" THEN "closed" ELSE conn)
      /\ down' \in {down, <<>>}
  BY DEF ServerDies, S!Crash, S!Return
<1>2. UNCHANGED <<executed, pend, log, sync, acked, clobbered, cpc>>
  BY <1>1 DEF cvars
<1>3. MirrorInv' /\ (Arrived' <=> Arrived)
  BY <1>1, <1>2, MirrorFrame DEF Sound, MirrorInv
<1>4. StreamInv' /\ SessionInv'
  BY <1>1 DEF StreamInv, SessionInv, Before, Receiving, After
<1>5. SenderInv'
  <2>1. CASE down' = <<>>
    <3>1. 1..Len(down') = {}
      BY <2>1
    <3> QED BY <1>1, <2>1, <3>1 DEF SenderInv
  <2>2. CASE down' = down
    BY <1>1, <1>3, <2>2 DEF Sound, SenderInv
  <2> QED BY <1>1, <2>1, <2>2
<1> QED BY <1>3, <1>4, <1>5 DEF Sound

\* A tree that was lost is not found again.
LEMMA TroubleStays == [S!SNext]_svars /\ trouble => trouble'
  BY DEF S!SNext, S!Accept, S!Receive, S!RecvInit, S!RefuseResource,
     S!RecvChunk, S!RecvFails, S!Local, S!Step, S!RevertDelete,
     S!RevertCreate, S!RevertDrop, S!DropStale, S!CreateBase, S!TruncateId,
     S!WriteId, S!Respond, S!RenameId, S!Finish, S!ApplyOp, S!EndChunk,
     S!CommitEpoch, S!CommitFails, S!Crash, svars

\* Every step keeps the order, unless it replaces a .sync file or loses the
\* mirror's saved tree.
LEMMA OrderStep == Known /\ InOrder /\ [Next]_vars => InOrder'
<1> SUFFICES ASSUME Known, InOrder, [Next]_vars, ~clobbered', ~trouble'
             PROVE  Sound'
  BY DEF InOrder
<1>0. ~trouble
  BY ServerSteps, TroubleStays DEF Known
<1>1. ~clobbered
  <2>1. [SourceNext]_cvars
    BY ClientSteps
  <2> QED
    BY <2>1 DEF SourceNext, C!Execute, C!Record, C!RenameLog, C!Switch,
       C!SwitchFails, C!FsCrash, C!FsStart, C!ClientNext, C!ClientStep,
       C!Open, C!Signal, C!Answer, C!Timeout, C!KeepId, C!GenerateId,
       C!ClientTruncateId, C!ClientWriteId, C!KeepSnapshot, C!TakeSnapshot,
       C!Transfer, C!DropSnapshot, C!DropId, C!DropSync, C!ClientCrash,
       C!ghosts, cvars
<1>2. Sound
  BY <1>0, <1>1 DEF InOrder
<1>3. CASE Filesystem \/ SwitchFails \/ FilesystemDies
  BY <1>2, <1>3, FilesystemSound
<1>4. CASE ClientLocal \/ ClientCallFails
  BY <1>2, <1>4, LocalSound
<1>5. CASE Connect \/ SendInit \/ RecvResponse \/ SendFile \/ TransferDone
  BY <1>1, <1>2, <1>5, ConnectSound, InitSound, ResponseSound, FileSound,
     DoneSound
<1>6. CASE TransferFails \/ ClientDies \/ ConnectionBreaks
  BY <1>2, <1>6, BrokenSound
<1>7. CASE Server \/ ServerDies \/ ServerCallFails \/ ServerGivesUp
  <2>1. Next
    BY <1>7 DEF Next, Faults, CallFails
  <2>2. CASE ServerLocal \/ ServerCallFails
    BY <1>0, <1>1, <1>2, <2>1, <2>2, ServerLocalSound
  <2>3. CASE ~(ServerLocal \/ ServerCallFails)
    <3>1. ~(spc = "files" /\ spc' = "rename")
      BY <1>7, <2>3 DEF Server, ServerAccept, S!Accept, ServerRecv, S!RecvInit,
         S!RecvChunk, ServerRecvFails, S!RecvFails, ServerSend, S!Respond,
         S!Finish, ServerDies, S!Crash, ServerGivesUp, S!CommitFails,
         S!RenameId, S!Return
    <3>2. Mirror' = Mirror
      BY <2>1, <3>1, MirrorStays
    <3>3. CASE ServerAccept
      <4>1. UNCHANGED <<executed, pend, log, sync, acked, clobbered, cpc, tpc,
                        sent, conn, down, queue, got, todo, left, islast>>
            /\ SamePart
        BY <3>3 DEF ServerAccept, S!Accept, S!transfer, SamePart, cvars, net
      <4> QED BY <1>2, <3>2, <4>1, Frame DEF Base, Pending
    <3>4. CASE ServerRecv
      BY <1>1, <1>2, <3>2, <3>4, RecvInitSound, RecvFileSound
    <3>5. CASE ServerRecvFails \/ ServerGivesUp
      <4>1. /\ Done /\ UNCHANGED <<cvars, tpc, sent>> /\ down' = down
            /\ spc # "accept" /\ spc' = "accept"
        BY <3>5 DEF ServerRecvFails, ServerGivesUp, S!RecvFails,
           S!CommitFails, S!RenameId, S!Return
      <4> QED BY <1>1, <1>2, <3>2, <4>1, ReturnSound
    <3>6. CASE ServerSend
      BY <1>1, <1>2, <3>2, <3>6, SendSound
    <3>7. CASE ServerDies
      BY <1>1, <1>2, <3>2, <3>7, DeathSound
    <3> QED BY <1>7, <2>3, <3>3, <3>4, <3>5, <3>6, <3>7 DEF Server
  <2> QED BY <2>2, <2>3
<1>8. CASE UNCHANGED vars
  <2>1. UNCHANGED <<executed, pend, log, sync, acked, clobbered, cpc, tpc,
                    sent, conn, down, queue, got, todo, left, islast, spc>>
        /\ Mirror' = Mirror
    BY <1>8, MirrorKept DEF vars, cvars, svars, net
  <2> QED BY <1>2, <2>1, Frame DEF Base, Pending, SamePart
<1> QED BY <1>3, <1>4, <1>5, <1>6, <1>7, <1>8
        DEF Next, Client, ClientTransfer, Faults, CallFails

-----------------------------------------------------------------------------
(* The invariant, and what follows from it.                                *)

SessionIInv ==
  CP!CInv /\ ServerFacts /\ LogInv /\ NetInv /\ IdleInv /\ InOrder

\* It holds at the start.
LEMMA SessionIInvInit == Init => SessionIInv
<1> SUFFICES ASSUME Init PROVE SessionIInv
  OBVIOUS
<1>1. CP!CInv /\ ServerFacts
  BY ClientInit, ServerInit DEF Init
<1> USE SessionAssumption DEF Init, C!CInit, S!SInit
<1>2. LogInv
  <2>1. Len(log) = 0 /\ Epoch(epoch)
    BY DEF Epoch
  <2> QED BY <2>1 DEF LogInv, Base, Pending
<1>3. NetInv /\ IdleInv
  <2>1. <<>> \in Seq(S!Replies) /\ <<>> \in Seq(Conn)
    OBVIOUS
  <2> QED BY <2>1 DEF NetInv, IdleInv
<1>4. Mirror = <<>> /\ Len(Mirror) = 0
  BY DEF Mirror, S!Recovered, S!HaveBase
<1>5. MirrorInv
  <2>1. Len(log) = 0 /\ pend = 0 /\ executed = 0
    OBVIOUS
  <2>2. Reached = 0 /\ Base = 0
    <3>1. Reached = 0
      BY <1>4 DEF Reached
    <3>2. Pending = 0
      BY <2>1 DEF Pending
    <3>3. Base = 0
      BY ONLY <2>1, <3>2 DEF Base
    <3> QED BY <3>1, <3>3
  <2> QED BY <1>4, <2>2 DEF MirrorInv, Gapless, Dropping
<1>6. StreamInv /\ SessionInv /\ SenderInv
  BY DEF StreamInv, SessionInv, SenderInv, Before, Receiving, After
<1> QED BY <1>1, <1>2, <1>3, <1>5, <1>6 DEF SessionIInv, InOrder, Sound

\* Every step keeps it: source and mirror by their own theorems, what is between
\* them by the lemmas above.
LEMMA SessionIInvStep == SessionIInv /\ [Next]_vars => SessionIInv'
<1> SUFFICES ASSUME SessionIInv, [Next]_vars PROVE SessionIInv'
  OBVIOUS
<1>1. /\ CP!CInv /\ ClientFacts /\ ServerFacts /\ LogInv /\ NetInv /\ IdleInv
      /\ InOrder /\ Known
  BY ClientPromises DEF SessionIInv, Known
<1>2. [SourceNext]_cvars /\ [S!SNext]_svars
  BY <1>1, ClientSteps, ServerSteps
<1>3. [C!CNext]_cvars
  BY <1>2 DEF SourceNext, C!CNext, C!FsNext
<1>4. CP!CInv' /\ ServerFacts'
  BY <1>1, <1>2, <1>3, ClientStep, ServerStep
<1>5. LogInv' /\ NetInv' /\ IdleInv' /\ InOrder'
  BY <1>1, <1>2, LogStep, NetStep, IdleStep, OrderStep
<1> QED BY <1>4, <1>5 DEF SessionIInv

\* It holds in every state that is reached.
LEMMA SessionIInvAlways == Spec => []SessionIInv
  BY SessionIInvInit, SessionIInvStep, PTL DEF Spec

\* Source, mirror and connections keep their types: every message is one the
\* other side expects (protocol.c, server.c:229-247).
THEOREM SessionTypeCorrect == Spec => []TypeOK
<1>1. SessionIInv => TypeOK
  <2> SUFFICES ASSUME SessionIInv PROVE TypeOK
    OBVIOUS
  <2>1. C!CTypeOK /\ S!TypeOK /\ NetInv
    BY ClientPromises DEF SessionIInv, ClientFacts, ServerFacts
  <2>2. \A c \in Range(queue) : c.up \in Seq(Msg) /\ c.open \in BOOLEAN
    <3>1. \A k \in DOMAIN queue : queue[k] \in Conn
      BY <2>1 DEF NetInv
    <3> QED BY <3>1, ConnFacts DEF Range
  <2> QED BY <2>1, <2>2 DEF TypeOK, NetInv, Msg, InitMsg, FileMsg, Ops
<1> QED BY <1>1, SessionIInvAlways, PTL

\* What was recorded at the source is at the mirror or still in a log file at
\* the source, whatever dies in between.
THEOREM NothingLostEndToEnd == Spec => []EndToEnd
<1>1. SessionIInv => EndToEnd
  <2> SUFFICES ASSUME SessionIInv, ~clobbered, ~trouble
               PROVE  logged \subseteq ToSet(Mirror)
                        \union C!OpsOf(log) \union C!OpsOf(sync)
    BY DEF EndToEnd
  <2>1. acked \subseteq ToSet(Mirror)
    BY DEF SessionIInv, InOrder, Sound, MirrorInv
  <2>2. logged \subseteq acked \union C!OpsOf(log) \union C!OpsOf(sync)
    BY ClientPromises DEF SessionIInv, ClientFacts, C!NoLoss
  <2> QED BY <2>1, <2>2
<1> QED BY <1>1, SessionIInvAlways, PTL

\* The mirror never has an operation without all those before it.
THEOREM MirrorHasNoGaps == Spec => []NoGaps
<1>1. SessionIInv => NoGaps
  BY DEF SessionIInv, InOrder, Sound, MirrorInv, Gapless, NoGaps
<1> QED BY <1>1, SessionIInvAlways, PTL

\* The mirror changes by whole epochs, each time by the one the source holds.
THEOREM EpochsAreWhole == Spec => WholeEpochs
<1>1. SessionIInv /\ [Next]_vars =>
        [~clobbered' /\ ~trouble' /\ Mirror' # Mirror =>
           sync # Absent /\ Mirror' = Mirror \o sync]_vars
  <2> SUFFICES ASSUME SessionIInv, Next, ~clobbered', ~trouble',
                      Mirror' # Mirror
               PROVE  sync # Absent /\ Mirror' = Mirror \o sync
    OBVIOUS
  <2>1. Known
    BY ClientPromises DEF SessionIInv, Known
  <2>2. spc = "files" /\ spc' = "rename"
    BY <2>1, MirrorStays
  <2>3. ServerLocal /\ S!CommitEpoch
    <3>1. svars' # svars
      BY MirrorKept
    <3>2. ~SourceOnly
      BY <3>1, SourceOnlyEffect
    <3> QED
      BY <2>2, <3>2 DEF Next, SourceOnly, Faults, CallFails, Server,
         ServerAccept, S!Accept, ServerRecv, S!RecvInit, S!RecvChunk,
         ServerRecvFails, S!RecvFails, ServerSend, S!Respond, S!Finish,
         ServerDies, S!Crash, ServerGivesUp, S!CommitFails, S!Return,
         ServerLocal, ServerCallFails, S!RevertDelete, S!RevertCreate,
         S!RevertDrop, S!DropStale, S!CreateBase, S!TruncateId, S!WriteId,
         S!RenameId, S!ApplyOp, S!EndChunk
  <2>4. UNCHANGED <<cvars, net>> /\ ~clobbered
    BY <2>3, ServerLocalEffect DEF cvars
  <2>5. ~trouble
    BY <2>1, ServerSteps, TroubleStays DEF Known
  <2>6. Sound
    BY <2>4, <2>5 DEF SessionIInv, InOrder
  <2> QED BY <2>1, <2>3, <2>4, <2>5, <2>6, CommitSound
<1> QED BY <1>1, SessionIInvAlways, PTL DEF Spec, WholeEpochs

=============================================================================
