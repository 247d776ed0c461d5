--------------------------- MODULE SyncServer_proofs ---------------------------
(***************************************************************************)
(* What holds of the mirror's daemon for every set of operations and ids   *)
(* and every bound: its type invariant, the invariant that the snapshot    *)
(* stands behind every partial tree, that epochs are committed atomically  *)
(* and that the daemon implements AtomicReplica.                           *)
(***************************************************************************)
EXTENDS SyncServer, TLAPS

\* Appending to the right part of a concatenation.
LEMMA AppendConcat ==
  ASSUME NEW S, NEW s \in Seq(S), NEW t \in Seq(S), NEW e \in S
  PROVE  Append(s \o t, e) = s \o Append(t, e)
  OBVIOUS

\* The head of a sequence that is not empty, and what is left of it.
LEMMA HeadTail ==
  ASSUME NEW S, NEW s \in Seq(S), s # <<>>
  PROVE  Head(s) \in S /\ Tail(s) \in Seq(S)
  OBVIOUS

\* The empty sequence is a sequence.
LEMMA EmptySeq ==
  ASSUME NEW S
  PROVE  <<>> \in Seq(S)
  OBVIOUS

\* The operations of a chunk are a sequence.
LEMMA ChunkIsSeq == ChunkOps \subseteq Seq(Op)
  BY Bounds DEF ChunkOps

-----------------------------------------------------------------------------
\* The types hold at the start.
LEMMA TypeInit == SInit => TypeOK
<1> SUFFICES ASSUME SInit PROVE TypeOK
  OBVIOUS
<1> <<>> \in Seq(Op)
  BY EmptySeq
<1> USE DEF SInit
<1>1. rootdir \in Subvolume /\ snapshot \in Subvolume
  BY DEF Subvolume
<1>2. syncid \in IdFile /\ lastid \in IdFile
  BY DEF IdFile, Id
<1>3. spc \in Pcs /\ reply \in Replies
  BY DEF Pcs, Replies
<1> QED BY <1>1, <1>2, <1>3 DEF TypeOK

\* Every step keeps the types.
LEMMA TypeStep == TypeOK /\ [SNext]_svars => TypeOK'
<1> SUFFICES ASSUME TypeOK, [SNext]_svars PROVE TypeOK'
  OBVIOUS
<1> <<>> \in Seq(Op)
  BY EmptySeq
<1> USE DEF TypeOK, Subvolume, IdFile, Id, Pcs, Replies, disk, transfer
<1>1. CASE Accept
  BY <1>1 DEF Accept
<1>2. ASSUME NEW id \in SyncId, NEW n \in 0..MaxFiles, RecvInit(id, n)
      PROVE  TypeOK'
  <2>1. n \in Nat
    BY Bounds
  <2> QED BY <1>2, <2>1 DEF RecvInit
<1>3. CASE RefuseResource
  BY <1>3 DEF RefuseResource, Return
<1>4. ASSUME NEW ops \in ChunkOps, NEW last \in BOOLEAN, RecvChunk(ops, last)
      PROVE  TypeOK'
  BY <1>4, ChunkIsSeq DEF RecvChunk
<1>5. CASE RecvFails
  BY <1>5 DEF RecvFails, Return
<1>6. ASSUME NEW ok \in BOOLEAN, Step(ok)
      PROVE  TypeOK'
  <2>1. CASE RevertDelete(ok)
    BY <2>1 DEF RevertDelete
  <2>2. CASE RevertCreate(ok)
    BY <2>2 DEF RevertCreate
  <2>3. CASE RevertDrop(ok)
    BY <2>3 DEF RevertDrop
  <2>4. CASE DropStale(ok)
    BY <2>4 DEF DropStale
  <2>5. CASE CreateBase(ok)
    BY <2>5 DEF CreateBase
  <2>6. CASE TruncateId(ok)
    BY <2>6 DEF TruncateId
  <2>7. CASE WriteId(ok)
    BY <2>7 DEF WriteId
  <2>8. CASE Respond(ok)
    <3>1. CASE ok /\ ~errflag
      BY <2>8, <3>1 DEF Respond
    <3>2. CASE ~(ok /\ ~errflag)
      <4>1. Return /\ UNCHANGED <<disk, sessions, trouble>>
        BY <2>8, <3>2 DEF Respond
      <4>2. reply' \in Replies
        BY <2>8, <3>2 DEF Respond
      <4> QED BY <4>1, <4>2 DEF Return
    <3> QED BY <3>1, <3>2
  <2>9. CASE RenameId(ok)
    <3>1. CASE ok
      BY <2>9, <3>1 DEF RenameId
    <3>2. CASE ~ok
      <4>1. Return /\ UNCHANGED <<disk, reply, sessions, trouble>>
        BY <2>9, <3>2 DEF RenameId
      <4> QED BY <4>1 DEF Return
    <3> QED BY <3>1, <3>2
  <2>10. CASE Finish(ok)
    BY <2>10 DEF Finish, Return
  <2> QED
    BY <1>6, <2>1, <2>2, <2>3, <2>4, <2>5, <2>6, <2>7, <2>8, <2>9, <2>10
       DEF Step
<1>7. CASE ApplyOp
  <2>1. Head(todo) \in Op /\ Tail(todo) \in Seq(Op)
    <3>1. todo \in Seq(Op) /\ todo # <<>>
      BY <1>7 DEF ApplyOp
    <3> QED BY <3>1, HeadTail
  <2>2. rootdir \in Seq(Op)
    BY <1>7 DEF ApplyOp
  <2>3. rootdir' \in Seq(Op) /\ got' \in Seq(Op) /\ todo' \in Seq(Op)
    BY <1>7, <2>1, <2>2 DEF ApplyOp
  <2>4. rootdir' # Absent
    BY <2>3, Markers
  <2>5. UNCHANGED <<snapshot, syncid, lastid, spc, cur, errflag, left, islast,
                    reply, chunks, sessions, trouble>>
    BY <1>7 DEF ApplyOp
  <2> QED BY <2>3, <2>4, <2>5
<1>8. CASE EndChunk
  BY <1>8 DEF EndChunk
<1>9. CASE CommitEpoch
  BY <1>9 DEF CommitEpoch
<1>10. CASE CommitFails
  BY <1>10 DEF CommitFails, Return
<1>11. CASE Crash
  BY <1>11 DEF Crash, Return
<1>12. CASE UNCHANGED svars
  BY <1>12 DEF svars
<1> QED
  BY <1>1, <1>2, <1>3, <1>4, <1>5, <1>6, <1>7, <1>8, <1>9, <1>10, <1>11, <1>12
     DEF SNext, Receive, Local

\* The types hold in every behaviour of the daemon.
THEOREM TypeCorrect == SSpec => []TypeOK
  BY TypeInit, TypeStep, PTL DEF SSpec

-----------------------------------------------------------------------------
\* The snapshot is gone from the commit on, and while the last message of a
\* finished session is SyncFinish.
ConfInv == /\ reply = "finish" => spc = "accept" /\ snapshot = Absent
           /\ spc \in {"rename", "finish"} => snapshot = Absent

\* ConfInv needs nothing but the order of the steps.
LEMMA ConfStep == TypeOK /\ ConfInv /\ [SNext]_svars => ConfInv'
<1> SUFFICES ASSUME TypeOK, ConfInv, [SNext]_svars PROVE ConfInv'
  OBVIOUS
<1> USE DEF ConfInv, disk, transfer
<1>1. CASE Accept
  BY <1>1 DEF Accept
<1>2. CASE Receive
  BY <1>2 DEF Receive, RecvInit, RefuseResource, RecvChunk, RecvFails, Return
<1>3. ASSUME NEW ok \in BOOLEAN, Step(ok) PROVE ConfInv'
  <2>1. CASE RevertDelete(ok) \/ RevertCreate(ok) \/ RevertDrop(ok)
    BY <2>1 DEF RevertDelete, RevertCreate, RevertDrop
  <2>2. CASE DropStale(ok) \/ CreateBase(ok) \/ TruncateId(ok) \/ WriteId(ok)
    BY <2>2 DEF DropStale, CreateBase, TruncateId, WriteId
  <2>3. CASE Respond(ok)
    <3>1. reply' # "finish"
      BY <2>3 DEF Respond
    <3>2. spc' \in {"files", "accept"}
      BY <2>3 DEF Respond, Return
    <3> QED BY <3>1, <3>2
  <2>4. CASE RenameId(ok)
    <3>1. snapshot' = Absent /\ reply' = reply /\ reply # "finish"
      BY <2>4 DEF RenameId
    <3> QED BY <3>1
  <2>5. CASE Finish(ok)
    BY <2>5 DEF Finish, Return
  <2> QED BY <1>3, <2>1, <2>2, <2>3, <2>4, <2>5 DEF Step
<1>4. CASE ApplyOp \/ EndChunk
  BY <1>4 DEF ApplyOp, EndChunk
<1>5. CASE CommitEpoch \/ CommitFails
  BY <1>5 DEF CommitEpoch, CommitFails, Return
<1>6. CASE Crash
  BY <1>6 DEF Crash, Return
<1>7. CASE UNCHANGED svars
  BY <1>7 DEF svars
<1> QED BY <1>1, <1>2, <1>3, <1>4, <1>5, <1>6, <1>7 DEF SNext, Local

\* A confirmed epoch cannot be reverted any more.
THEOREM ConfirmedFinal == SSpec => []ConfirmedIsFinal
<1>1. SInit => ConfInv
  BY DEF SInit, ConfInv
<1>2. ConfInv => ConfirmedIsFinal
  BY DEF ConfInv, ConfirmedIsFinal
<1> QED BY <1>1, <1>2, ConfStep, TypeCorrect, PTL DEF SSpec

-----------------------------------------------------------------------------
\* The daemon starts with a clean tree.
LEMMA GuardedInit == SInit => Guarded
<1> SUFFICES ASSUME SInit PROVE Guarded
  OBVIOUS
<1> <<>> \in Seq(Op)
  BY EmptySeq
<1> QED
  BY DEF SInit, Guarded, ReceivingIsGuarded, UnguardedIsWhole, StepsInOrder,
         HaveBase

\* Every step of the session keeps the saved tree behind the partial one.
LEMMA GuardedStep == TypeOK /\ Guarded /\ [SNext]_svars => Guarded'
<1> SUFFICES ASSUME TypeOK, Guarded, [SNext]_svars, ~trouble' PROVE Guarded'
  BY DEF Guarded
<1> ~trouble
  BY DEF SNext, Accept, Receive, RecvInit, RefuseResource, RecvChunk,
         RecvFails, Local, Step, RevertDelete, RevertCreate, RevertDrop,
         DropStale, CreateBase, TruncateId, WriteId, Respond, RenameId,
         Finish, ApplyOp, EndChunk, CommitEpoch, CommitFails, Crash, svars
<1>0. ReceivingIsGuarded /\ UnguardedIsWhole /\ StepsInOrder
  BY DEF Guarded
<1> <<>> \in Seq(Op)
  BY EmptySeq
<1> SUFFICES ReceivingIsGuarded' /\ UnguardedIsWhole' /\ StepsInOrder'
  BY DEF Guarded
<1> USE <1>0, Markers
    DEF TypeOK, Subvolume, IdFile, ReceivingIsGuarded, UnguardedIsWhole,
        StepsInOrder, HaveBase, Readable, Id, disk, transfer
<1>1. CASE Accept
  BY <1>1 DEF Accept
<1>2. ASSUME NEW id \in SyncId, NEW n \in 0..MaxFiles, RecvInit(id, n)
      PROVE  ReceivingIsGuarded' /\ UnguardedIsWhole' /\ StepsInOrder'
  BY <1>2 DEF RecvInit
<1>3. CASE RefuseResource
  BY <1>3 DEF RefuseResource, Return
<1>4. ASSUME NEW ops \in ChunkOps, NEW last \in BOOLEAN, RecvChunk(ops, last)
      PROVE  ReceivingIsGuarded' /\ UnguardedIsWhole' /\ StepsInOrder'
  BY <1>4 DEF RecvChunk
<1>5. CASE RecvFails
  BY <1>5 DEF RecvFails, Return
<1>6. ASSUME NEW ok \in BOOLEAN, Step(ok)
      PROVE  ReceivingIsGuarded' /\ UnguardedIsWhole' /\ StepsInOrder'
  <2>1. CASE RevertDelete(ok)
    BY <2>1 DEF RevertDelete
  <2>2. CASE RevertCreate(ok)
    BY <2>2 DEF RevertCreate
  <2>3. CASE RevertDrop(ok)
    BY <2>3 DEF RevertDrop
  <2>4. CASE DropStale(ok)
    BY <2>4 DEF DropStale
  <2>5. CASE CreateBase(ok)
    BY <2>5 DEF CreateBase
  <2>6. CASE TruncateId(ok)
    BY <2>6 DEF TruncateId
  <2>7. CASE WriteId(ok)
    BY <2>7 DEF WriteId
  <2>8. CASE Respond(ok)
    BY <2>8 DEF Respond, Return
  <2>9. CASE RenameId(ok)
    BY <2>9 DEF RenameId, Return
  <2>10. CASE Finish(ok)
    BY <2>10 DEF Finish, Return
  <2> QED
    BY <1>6, <2>1, <2>2, <2>3, <2>4, <2>5, <2>6, <2>7, <2>8, <2>9, <2>10
       DEF Step
<1>7. CASE ApplyOp
  <2>1. todo \in Seq(Op) /\ todo # <<>> /\ snapshot \in Seq(Op)
    BY <1>7 DEF ApplyOp
  <2>2. Head(todo) \in Op
    BY <2>1, HeadTail
  <2>3. rootdir' = snapshot \o got'
    <3>1. rootdir = snapshot \o got /\ got \in Seq(Op)
      BY <1>7 DEF ApplyOp
    <3>2. Append(snapshot \o got, Head(todo))
            = snapshot \o Append(got, Head(todo))
      BY ONLY <2>1, <2>2, <3>1, AppendConcat
    <3>3. rootdir' = Append(rootdir, Head(todo))
            /\ got' = Append(got, Head(todo))
      BY <1>7 DEF ApplyOp
    <3> QED BY ONLY <3>1, <3>2, <3>3
  <2>4. spc' = "ops" /\ UNCHANGED <<snapshot, syncid, cur>>
    BY <1>7 DEF ApplyOp
  <2>5. syncid = cur /\ cur \in SyncId /\ snapshot # Absent
    BY <1>7, <2>1 DEF ApplyOp
  <2>6. ReceivingIsGuarded'
    BY <2>1, <2>3, <2>4, <2>5
  <2>7. HaveBase'
    BY <2>4, <2>5
  <2>8. StepsInOrder'
    BY <2>4, <2>5
  <2> QED BY <2>6, <2>7, <2>8
<1>8. CASE EndChunk
  BY <1>8 DEF EndChunk
<1>9. CASE CommitEpoch
  BY <1>9 DEF CommitEpoch
<1>10. CASE CommitFails
  BY <1>10 DEF CommitFails, Return
<1>11. CASE Crash
  BY <1>11 DEF Crash, Return
<1>12. CASE UNCHANGED svars
  BY <1>12 DEF svars
<1> QED
  BY <1>1, <1>2, <1>3, <1>4, <1>5, <1>6, <1>7, <1>8, <1>9, <1>10, <1>11, <1>12
     DEF SNext, Receive, Local

\* Unless a revert has lost it, the saved tree stands behind every partial
\* one.
THEOREM GuardedAlways == SSpec => []Guarded
  BY GuardedInit, GuardedStep, TypeCorrect, PTL DEF SSpec

-----------------------------------------------------------------------------
\* What a step of the session does to the tree the mirror comes back to.
LEMMA CommitStep ==
  ASSUME TypeOK, Guarded, [SNext]_svars, ~trouble'
  PROVE  \/ Recovered' = Recovered
         \/ /\ spc = "files" /\ left = 0 /\ spc' = "rename"
            /\ Recovered' = Recovered \o got
<1> DEFINE Goal == \/ Recovered' = Recovered
                   \/ /\ spc = "files" /\ left = 0 /\ spc' = "rename"
                      /\ Recovered' = Recovered \o got
<1>1. CASE UNCHANGED disk
  BY <1>1 DEF disk, Recovered, HaveBase, Readable, Id
<1> ~trouble
  BY DEF SNext, Accept, Receive, RecvInit, RefuseResource, RecvChunk,
         RecvFails, Local, Step, RevertDelete, RevertCreate, RevertDrop,
         DropStale, CreateBase, TruncateId, WriteId, Respond, RenameId,
         Finish, ApplyOp, EndChunk, CommitEpoch, CommitFails, Crash, svars
<1>0. ReceivingIsGuarded /\ UnguardedIsWhole /\ StepsInOrder
  BY DEF Guarded
<1>2. CASE Accept \/ Receive \/ EndChunk \/ CommitFails \/ Crash
           \/ UNCHANGED svars
  <2> UNCHANGED disk
    BY <1>2 DEF Accept, Receive, RecvInit, RefuseResource, RecvChunk,
                RecvFails, EndChunk, CommitFails, Crash, svars, disk
  <2> QED BY <1>1
<1> USE <1>0, Markers
    DEF TypeOK, Subvolume, IdFile, ReceivingIsGuarded, UnguardedIsWhole,
        StepsInOrder, HaveBase, Readable, Id, Recovered, transfer
<1>3. ASSUME NEW ok \in BOOLEAN, Step(ok) PROVE Goal
  <2>1. CASE RevertDelete(ok)
    BY <2>1 DEF RevertDelete
  <2>2. CASE RevertCreate(ok)
    BY <2>2 DEF RevertCreate
  <2>3. CASE RevertDrop(ok)
    BY <2>3 DEF RevertDrop
  <2>4. CASE DropStale(ok)
    BY <2>4 DEF DropStale
  <2>5. CASE CreateBase(ok)
    BY <2>5 DEF CreateBase
  <2>6. CASE TruncateId(ok)
    BY <2>6 DEF TruncateId
  <2>7. CASE WriteId(ok)
    BY <2>7 DEF WriteId
  <2>8. CASE Respond(ok) \/ Finish(ok)
    BY <2>8, <1>1 DEF Respond, Finish
  <2>9. CASE RenameId(ok)
    BY <2>9 DEF RenameId
  <2> QED
    BY <1>3, <2>1, <2>2, <2>3, <2>4, <2>5, <2>6, <2>7, <2>8, <2>9 DEF Step
<1>4. CASE ApplyOp
  BY <1>4 DEF ApplyOp
<1>5. CASE CommitEpoch
  BY <1>5 DEF CommitEpoch
<1> QED BY <1>2, <1>3, <1>4, <1>5 DEF SNext, Local

\* An epoch becomes part of the mirror whole or not at all.
THEOREM CommitIsAtomic == SSpec => AtomicCommit
<1>1. TypeOK /\ Guarded /\ [SNext]_svars =>
        [~trouble' =>
          \/ Recovered' = Recovered
          \/ /\ spc = "files" /\ left = 0 /\ spc' = "rename"
             /\ Recovered' = Recovered \o got]_svars
  BY CommitStep
<1> QED BY <1>1, TypeCorrect, GuardedAlways, PTL DEF SSpec, AtomicCommit

-----------------------------------------------------------------------------
\* As long as no call of the revert block has failed, the tree is gone after the
\* first of them and the saved one after the second.
RevertInv == /\ spc = "revertCreate" /\ ~errflag => rootdir = Absent
             /\ spc = "revertDrop" /\ ~errflag => rootdir = snapshot

\* Every step keeps what the calls before have achieved.
LEMMA RevertStep == TypeOK /\ RevertInv /\ [SNext]_svars => RevertInv'
<1> SUFFICES ASSUME TypeOK, RevertInv, [SNext]_svars PROVE RevertInv'
  OBVIOUS
<1> USE DEF RevertInv, TypeOK, disk, transfer
<1>1. CASE RevertDelete(TRUE) \/ RevertDelete(FALSE)
  BY <1>1 DEF RevertDelete
<1>2. CASE RevertCreate(TRUE) \/ RevertCreate(FALSE)
  BY <1>2 DEF RevertCreate
<1>3. CASE UNCHANGED svars
  BY <1>3 DEF svars
<1>4. CASE /\ SNext
           /\ ~(RevertDelete(TRUE) \/ RevertDelete(FALSE))
           /\ ~(RevertCreate(TRUE) \/ RevertCreate(FALSE))
  <2>1. spc' \notin {"revertCreate", "revertDrop"}
    BY <1>4 DEF SNext, Accept, Receive, RecvInit, RefuseResource, RecvChunk,
       RecvFails, Local, Step, RevertDrop, DropStale, CreateBase, TruncateId,
       WriteId, Respond, RenameId, Finish, ApplyOp, EndChunk, CommitEpoch,
       CommitFails, Crash, Return
  <2> QED BY <2>1
<1> QED BY <1>1, <1>2, <1>3, <1>4

\* The session that loses the saved tree receives nothing and is refused,
\* whichever calls of its revert block have failed.
THEOREM LossesAreReported == SSpec => LossIsReported
<1>1. SInit => RevertInv
  BY DEF SInit, RevertInv
<1>2. TypeOK /\ RevertInv /\ [SNext]_svars =>
        [~trouble /\ trouble' => errflag' /\ spc' = "respond"]_svars
  <2> SUFFICES ASSUME TypeOK, RevertInv, SNext, ~trouble, trouble'
               PROVE  errflag' /\ spc' = "respond"
    OBVIOUS
  <2>1. \E ok \in BOOLEAN : RevertDrop(ok)
    BY DEF SNext, Accept, Receive, RecvInit, RefuseResource, RecvChunk,
       RecvFails, Local, Step, RevertDelete, RevertCreate, DropStale,
       CreateBase, TruncateId, WriteId, Respond, RenameId, Finish, ApplyOp,
       EndChunk, CommitEpoch, CommitFails, Crash
  <2>2. RevertDrop(TRUE) \/ RevertDrop(FALSE)
    BY <2>1
  <2> QED BY <2>2 DEF RevertDrop, RevertInv, TypeOK
<1> QED BY <1>1, <1>2, RevertStep, TypeCorrect, PTL DEF SSpec, LossIsReported

-----------------------------------------------------------------------------
(* The refinement.  The four expressions substituted for the variables of  *)
(* AtomicReplica, so that the steps below can name them.                   *)

AbsContent == IF trouble THEN <<>> ELSE Recovered
AbsStaged == IF ~trouble /\ spc \in {"files", "ops"} THEN got ELSE <<>>
AbsMode == IF trouble THEN "idle"
           ELSE IF spc \in {"files", "ops"} THEN "receiving"
           ELSE IF spc = "rename" \/ spc = "finish" THEN "committed"
           ELSE "idle"
AbsVars == <<AbsContent, AbsStaged, AbsMode, trouble>>

\* Steps that leave the abstract replica as it is.
LEMMA Stutter == UNCHANGED AbsVars => [Replica!RNext]_(Replica!rvars)
  BY DEF AbsVars, AbsContent, AbsStaged, AbsMode, Replica!rvars

\* A lost replica stays lost, so every later step is a stuttering step.
LEMMA RefineLost == trouble /\ [SNext]_svars => UNCHANGED AbsVars
<1> SUFFICES ASSUME trouble, [SNext]_svars PROVE trouble' /\ trouble' = trouble
  BY DEF AbsVars, AbsContent, AbsStaged, AbsMode
<1> QED
  BY DEF SNext, Accept, Receive, RecvInit, RefuseResource, RecvChunk,
         RecvFails, Local, Step, RevertDelete, RevertCreate, RevertDrop,
         DropStale, CreateBase, TruncateId, WriteId, Respond, RenameId,
         Finish, ApplyOp, EndChunk, CommitEpoch, CommitFails, Crash, svars

\* The initial states are initial states of the abstract replica.
LEMMA RefineInit == SInit => Replica!RInit
  BY DEF SInit, Replica!RInit, Recovered, HaveBase

\* Every step of the daemon is a step of the abstract replica or a stuttering
\* one.
LEMMA RefineStep ==
  ASSUME TypeOK, Guarded, [SNext]_svars
  PROVE  [Replica!RNext]_(Replica!rvars)
<1>1. CASE trouble
  BY <1>1, RefineLost, Stutter
<1>2. CASE ~trouble /\ trouble'
  <2>1. PICK ok \in BOOLEAN : RevertDrop(ok)
    BY <1>2 DEF SNext, Accept, Receive, RecvInit, RefuseResource, RecvChunk,
         RecvFails, Local, Step, RevertDelete, RevertCreate, DropStale,
         CreateBase, TruncateId, WriteId, Respond, RenameId, Finish, ApplyOp,
         EndChunk, CommitEpoch, CommitFails, Crash, svars
  <2>2. spc = "revertDrop" /\ spc' \in {"respond", "create"}
    BY <2>1 DEF RevertDrop
  <2>3. Replica!Lose
    BY <1>2, <2>2 DEF Replica!Lose
  <2> QED BY <2>3 DEF Replica!RNext
<1>0. trouble \in BOOLEAN /\ trouble' \in BOOLEAN
  BY TypeStep DEF TypeOK
<1>3. CASE ~trouble /\ ~trouble'
  <2> trouble = FALSE /\ trouble' = FALSE
    BY <1>0, <1>3
  <2>0. ReceivingIsGuarded /\ StepsInOrder
    BY DEF Guarded
  <2>1. CASE CommitEpoch
    <3>1. spc = "files" /\ spc' = "rename" /\ got' = got
      BY <2>1 DEF CommitEpoch, transfer
    <3>2. Recovered = snapshot /\ Recovered' = snapshot \o got
      BY <2>0, <2>1, <3>1, Markers
         DEF ReceivingIsGuarded, Recovered, HaveBase, Readable, Id, CommitEpoch
    <3>3. Replica!Commit
      BY <3>1, <3>2 DEF Replica!Commit
    <3> QED BY <3>3 DEF Replica!RNext
  <2>2. CASE ~CommitEpoch
    <3>1. Recovered' = Recovered
      <4>1. ~(spc = "files" /\ left = 0 /\ spc' = "rename")
        BY <2>2 DEF SNext, Accept, Receive, RecvInit, RefuseResource,
           RecvChunk, RecvFails, Local, Step, RevertDelete, RevertCreate,
           RevertDrop, DropStale, CreateBase, TruncateId, WriteId, Respond,
           RenameId, Finish, ApplyOp, EndChunk, CommitFails, Crash, svars,
           Return
      <4> QED BY <4>1, CommitStep
    <3>2. CASE ApplyOp
      <4>1. todo \in Seq(Op) /\ todo # <<>>
        BY <3>2 DEF ApplyOp, TypeOK
      <4>2. Head(todo) \in Op
        BY <4>1, HeadTail
      <4>3. spc = "ops" /\ spc' = "ops" /\ got' = Append(got, Head(todo))
        BY <3>2 DEF ApplyOp
      <4>4. Replica!Stage(Head(todo))
        BY <3>1, <4>3 DEF Replica!Stage
      <4> QED BY <4>2, <4>4 DEF Replica!RNext
    <3>3. CASE spc = "respond" /\ spc' = "files"
      <4>1. got = <<>> /\ got' = got
        BY <2>0, <3>3 DEF StepsInOrder, SNext, Accept, Receive, RecvInit,
           RefuseResource, RecvChunk, RecvFails, Local, Step, RevertDelete,
           RevertCreate, RevertDrop, DropStale, CreateBase, TruncateId,
           WriteId, Respond, RenameId, Finish, ApplyOp, EndChunk, CommitEpoch,
           CommitFails, Crash, svars, Return, transfer
      <4>2. Replica!Begin
        BY <3>1, <3>3, <4>1 DEF Replica!Begin
      <4> QED BY <4>2 DEF Replica!RNext
    <3>4. CASE spc \in {"files", "ops"} /\ spc' = "accept"
      <4>1. Replica!Abort
        BY <3>1, <3>4 DEF Replica!Abort
      <4> QED BY <4>1 DEF Replica!RNext
    <3>5. CASE spc \in {"rename", "finish"} /\ spc' = "accept"
      <4>1. Replica!Conclude
        BY <3>1, <3>5 DEF Replica!Conclude
      <4> QED BY <4>1 DEF Replica!RNext
    <3>6. CASE /\ ~ApplyOp
               /\ ~(spc = "respond" /\ spc' = "files")
               /\ ~(spc \in {"files", "ops"} /\ spc' = "accept")
               /\ ~(spc \in {"rename", "finish"} /\ spc' = "accept")
      <4>1. AbsMode' = AbsMode /\ AbsStaged' = AbsStaged
        BY <2>2, <3>6 DEF AbsMode, AbsStaged, TypeOK, SNext, Accept, Receive,
           RecvInit, RefuseResource, RecvChunk, RecvFails, Local, Step,
           RevertDelete, RevertCreate, RevertDrop, DropStale, CreateBase,
           TruncateId, WriteId, Respond, RenameId, Finish, EndChunk,
           CommitFails, Crash, svars, Return, transfer
      <4> QED BY <3>1, <4>1, Stutter DEF AbsVars, AbsContent
    <3> QED BY <3>2, <3>3, <3>4, <3>5, <3>6
  <2> QED BY <2>1, <2>2
<1> QED BY <1>0, <1>1, <1>2, <1>3

\* The daemon implements the abstract replica: a partial epoch is never seen
\* by whoever starts from the tree the mirror comes back to.
THEOREM Refines == SSpec => ImplementsReplica
<1>1. TypeOK /\ Guarded /\ [SNext]_svars => [Replica!RNext]_(Replica!rvars)
  BY RefineStep
<1> QED
  BY <1>1, RefineInit, TypeCorrect, GuardedAlways, PTL
     DEF SSpec, ImplementsReplica, Replica!RSpec
=============================================================================
