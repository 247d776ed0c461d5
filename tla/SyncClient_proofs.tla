--------------------------- MODULE SyncClient_proofs ---------------------------
(***************************************************************************)
(* What holds of the source for any number of operations and every set of  *)
(* ids: recorded operations are not lost, an id names one epoch, and the   *)
(* snapshot an epoch is read from is as new as the epoch, whatever fails   *)
(* or dies and however often a run is started again.                       *)
(***************************************************************************)
EXTENDS SyncClient, TLAPS

\* The members of a sequence that was extended.
LEMMA ToSetAppend ==
  ASSUME NEW s \in Seq(Nat), NEW e \in Nat
  PROVE  ToSet(Append(s, e)) = ToSet(s) \union {e}
<1>1. /\ DOMAIN Append(s, e) = DOMAIN s \union {Len(s) + 1}
      /\ \A i \in DOMAIN s : Append(s, e)[i] = s[i]
      /\ Append(s, e)[Len(s) + 1] = e
  OBVIOUS
<1> QED BY <1>1 DEF ToSet

\* The members of a sequence of numbers are numbers.
LEMMA ToSetNat == ASSUME NEW s \in Seq(Nat) PROVE ToSet(s) \subseteq Nat
  BY DEF ToSet

\* The empty sequence has no members.
LEMMA EmptyToSet == <<>> \in Seq(Nat) /\ ToSet(<<>>) = {}
  BY DEF ToSet

-----------------------------------------------------------------------------
\* The types hold at the start.
LEMMA CTypeInit == CInit => CTypeOK
<1> SUFFICES ASSUME CInit PROVE CTypeOK
  OBVIOUS
<1> USE EmptyToSet DEF CInit
<1>1. log \in Seq(Nat) /\ epoch \in Seq(Nat) /\ idepoch \in Seq(Nat)
  OBVIOUS
<1>2. cpc \in CPcs
  BY DEF CPcs
<1> QED BY <1>1, <1>2 DEF CTypeOK

\* A request waits for, and an answer waits at, the client that waits for it.
ReqInv == /\ reqby = "me" => cpc = "wait"
          /\ answered => cpc = "wait" /\ reqby # "me" /\ sync # Absent

\* Every step keeps the types; .sync is there when its answer is.
LEMMA CTypeStep == CTypeOK /\ ReqInv /\ [CNext]_cvars => CTypeOK' /\ ReqInv'
<1> SUFFICES ASSUME CTypeOK, ReqInv, [CNext]_cvars PROVE CTypeOK' /\ ReqInv'
  OBVIOUS
<1> USE EmptyToSet, ClientMarkers
        DEF CTypeOK, ReqInv, CPcs, Id, fs, process, ghosts
<1>1. CASE FsNext
  <2>1. CASE Execute
    BY <2>1 DEF Execute
  <2>2. CASE Record
    BY <2>2 DEF Record
  <2>3. CASE Switch \/ SwitchFails
    <3>1. /\ UNCHANGED <<fsup, executed, pend, idfile, csnap, cpc, newsync, cid,
                         epoch, logged, acked, idepoch, stale>>
          /\ reqby' \in {"none", reqby} /\ answered' \in BOOLEAN
          /\ answered' /\ ~answered => reqby = "me" /\ reqby' = "none"
      <4>1. CASE Switch
        BY <4>1 DEF Switch
      <4>2. CASE SwitchFails
        BY <4>2 DEF SwitchFails, process
      <4> QED BY <2>3, <4>1, <4>2
    <3>2. /\ log' \in Seq(Nat) /\ sync' \in Seq(Nat) \union {Absent}
          /\ clobbered' \in BOOLEAN
          /\ sync' = Absent => sync = Absent /\ answered' = answered
      BY <2>3 DEF Switch, SwitchFails, RenameLog
    <3>3. CTypeOK'
      BY <3>1, <3>2
    <3>4. ReqInv'
      BY <3>1, <3>2
    <3> QED BY <3>3, <3>4
  <2>4. CASE FsCrash
    <3>1. fsup' = FALSE /\ pend' = 0 /\ reqby' = "none"
      BY <2>4 DEF FsCrash
    <3>2. UNCHANGED <<executed, log, sync, idfile, csnap, cpc, newsync, cid,
                      epoch, answered, logged, acked, idepoch, clobbered, stale>>
      BY <2>4 DEF FsCrash
    <3>3. CTypeOK'
      BY <3>1, <3>2
    <3>4. ReqInv'
      BY <3>1, <3>2
    <3> QED BY <3>3, <3>4
  <2>5. CASE FsStart
    BY <2>5 DEF FsStart
  <2> QED BY <1>1, <2>1, <2>2, <2>3, <2>4, <2>5 DEF FsNext
<1>2. CASE Open
  BY <1>2 DEF Open
<1>3. CASE Signal
  <2>1. CASE fsup
    BY <1>3, <2>1 DEF Signal
  <2>2. CASE ~fsup
    <3>1. Exit /\ UNCHANGED <<fs, sync, idfile, csnap, ghosts>>
      BY <1>3, <2>2 DEF Signal
    <3> QED BY <3>1 DEF Exit
  <2> QED BY <2>1, <2>2
<1>4. CASE Answer
  <2>1. epoch' = sync /\ newsync' = TRUE /\ answered' = FALSE
        /\ cpc' = "id" /\ cpc = "wait" /\ answered
    BY <1>4 DEF Answer
  <2>2. UNCHANGED <<fs, reqby, sync, idfile, csnap, cid, ghosts>>
    BY <1>4 DEF Answer
  <2> QED BY <2>1, <2>2
<1>5. CASE Timeout \/ ClientCrash
  <2>1. Exit /\ UNCHANGED <<fs, sync, idfile, csnap, ghosts>>
    BY <1>5 DEF Timeout, ClientCrash
  <2> QED BY <2>1 DEF Exit
<1>6. CASE KeepId \/ KeepSnapshot
  <2>1. cpc' \in CPcs /\ cpc # "wait"
    BY <1>6 DEF KeepId, KeepSnapshot
  <2>2. UNCHANGED <<fs, reqby, sync, idfile, csnap, process, ghosts>>
    BY <1>6 DEF KeepId, KeepSnapshot
  <2> QED BY <2>1, <2>2
<1>7. ASSUME NEW i \in SyncId, GenerateId(i) PROVE CTypeOK' /\ ReqInv'
  BY <1>7 DEF GenerateId
<1>8. ASSUME NEW ok \in BOOLEAN, ClientStep(ok) PROVE CTypeOK' /\ ReqInv'
  <2>1. CASE ClientTruncateId(ok)
    BY <2>1 DEF ClientTruncateId, Advance, Exit
  <2>2. CASE ClientWriteId(ok)
    BY <2>2 DEF ClientWriteId, Advance, Exit
  <2>3. CASE TakeSnapshot(ok)
    BY <2>3 DEF TakeSnapshot, Advance, Exit
  <2>4. CASE Transfer(ok)
    BY <2>4, ToSetNat DEF Transfer, Advance, Exit
  <2>5. CASE DropSnapshot(ok)
    BY <2>5 DEF DropSnapshot
  <2> QED BY <1>8, <2>1, <2>2, <2>3, <2>4, <2>5 DEF ClientStep
<1>9. CASE DropId
  BY <1>9 DEF DropId
<1>10. CASE DropSync
  BY <1>10 DEF DropSync, Exit
<1>11. CASE UNCHANGED cvars
  BY <1>11 DEF cvars
<1> QED
  BY <1>1, <1>2, <1>3, <1>4, <1>5, <1>6, <1>7, <1>8, <1>9, <1>10, <1>11
     DEF CNext, ClientNext

-----------------------------------------------------------------------------
\* Where an epoch is open, and where it is confirmed and being removed.
Holding == CPcs \ {"idle", "signal", "wait"}
Dropping == {"dropSnap", "dropId", "dropSync"}

\* The open epoch is the one on disk; what is removed was confirmed.
HeldInv == /\ cpc \in Holding => sync # Absent /\ (~clobbered => epoch = sync)
           /\ cpc \in Dropping => ToSet(epoch) \subseteq acked
           /\ NoLoss

\* The id on disk belongs to the epoch on disk.
IdInv == /\ ~clobbered /\ idfile \in Id => sync # Absent /\ idepoch = sync
         /\ cpc \in {"snap", "transfer"} => idfile \in Id
         /\ cpc \in {"truncateId", "writeId"} => cid \in SyncId
         /\ cpc = "dropSync" => idfile = Absent

\* The snapshot is as new as the epoch on disk.
SnapInv == /\ pend <= executed
           /\ \A op \in ToSet(log) \union OpsOf(sync) : op <= executed
           /\ ~clobbered /\ ~stale /\ csnap # Absent =>
                sync # Absent /\ \A op \in OpsOf(sync) : op <= csnap
           /\ cpc = "transfer" => csnap # Absent
           /\ cpc \in {"dropId", "dropSync"} /\ ~stale => csnap = Absent

CInv == CTypeOK /\ ReqInv /\ HeldInv /\ IdInv /\ SnapInv

\* The operations of .sync in the cases that occur.
LEMMA OpsFacts == /\ OpsOf(Absent) = {}
                  /\ \A s \in Seq(Nat) : OpsOf(s) = ToSet(s)
  BY ClientMarkers DEF OpsOf

\* No epoch is open at the start.
LEMMA HeldInit == CInit => HeldInv
  BY EmptyToSet DEF CInit, HeldInv, NoLoss, Holding, Dropping

\* Every step keeps the open epoch the one on disk, removes only what was
\* confirmed, and loses no recorded operation.
LEMMA HeldStep == CTypeOK /\ ReqInv /\ HeldInv /\ [CNext]_cvars => HeldInv'
<1> SUFFICES ASSUME CTypeOK, ReqInv, HeldInv, [CNext]_cvars PROVE HeldInv'
  OBVIOUS
<1> USE OpsFacts, ClientMarkers
        DEF HeldInv, NoLoss, Holding, Dropping, CPcs, fs, process, ghosts
<1>0. sync \in Seq(Nat) \union {Absent} /\ log \in Seq(Nat) /\ pend \in Nat
  BY DEF CTypeOK
<1>1. CASE Execute \/ FsCrash \/ FsStart
  <2>1. UNCHANGED <<log, sync, logged, cpc, epoch, acked, clobbered>>
    BY <1>1 DEF Execute, FsCrash, FsStart
  <2> QED BY <2>1
<1>2. CASE Record
  <2>1. /\ UNCHANGED <<sync, cpc, epoch, acked, clobbered>>
        /\ log' = Append(log, pend) /\ logged' = logged \union {pend}
    BY <1>2 DEF Record
  <2>2. ToSet(log') = ToSet(log) \union {pend}
    BY <2>1, <1>0, ToSetAppend
  <2>5. log' \in Seq(Nat)
    BY <2>1, <1>0
  <2>3. OpsOf(log) = ToSet(log) /\ OpsOf(log') = ToSet(log')
    BY <2>5, <1>0
  <2>4. NoLoss'
    BY <2>1, <2>2, <2>3
  <2> QED BY <2>1, <2>4
<1>3. ASSUME RenameLog, UNCHANGED <<cpc, epoch, acked, logged>> PROVE HeldInv'
  <2>1. /\ sync' = log /\ log' = <<>> /\ UNCHANGED <<cpc, epoch, acked, logged>>
        /\ clobbered' = (clobbered \/ sync # Absent)
    BY <1>3 DEF RenameLog
  <2>2. log # Absent
    BY <1>0
  <2>3. OpsOf(<<>>) = {}
    BY EmptyToSet
  <2>4. CASE clobbered'
    BY <2>1, <2>2, <2>4
  <2>5. CASE ~clobbered'
    <3>1. sync = Absent /\ ~clobbered
      BY <2>1, <2>5
    <3> QED BY <2>1, <2>2, <2>3, <3>1
  <2> QED BY <2>4, <2>5
<1>3a. CASE Switch \/ SwitchFails
  <2>1. /\ UNCHANGED <<cpc, epoch, acked, logged>>
        /\ RenameLog \/ UNCHANGED <<log, sync, clobbered>>
    BY <1>3a DEF Switch, SwitchFails
  <2> QED BY <1>3, <2>1
<1>4. ASSUME Exit, UNCHANGED <<log, sync, logged, acked, clobbered>>
      PROVE  HeldInv'
  BY <1>4 DEF Exit
<1>5. CASE Open
  BY <1>5 DEF Open
<1>6. CASE Signal \/ Timeout \/ ClientCrash
  <2>1. UNCHANGED <<log, sync, logged, acked, clobbered>>
    BY <1>6 DEF Signal, Timeout, ClientCrash
  <2>2. CASE Exit
    BY <1>4, <2>1, <2>2
  <2>3. CASE ~Exit
    BY <1>6, <2>1, <2>3 DEF Signal, Timeout, ClientCrash
  <2> QED BY <2>2, <2>3
<1>7. CASE Answer
  BY <1>7 DEF Answer, ReqInv
<1>8. CASE KeepId \/ (\E i \in SyncId : GenerateId(i)) \/ KeepSnapshot
  <2>1. /\ UNCHANGED <<log, sync, logged, acked, clobbered, epoch>>
        /\ cpc \in Holding /\ cpc' \in Holding \ Dropping
    BY <1>8 DEF KeepId, GenerateId, KeepSnapshot
  <2> QED BY <2>1
<1>9. ASSUME NEW ok \in BOOLEAN, ClientStep(ok) PROVE HeldInv'
  <2>1. CASE ClientTruncateId(ok) \/ ClientWriteId(ok) \/ TakeSnapshot(ok)
    <3>1. /\ UNCHANGED <<log, sync, logged, acked, clobbered>>
          /\ cpc \in Holding
          /\ Exit \/ (epoch' = epoch /\ cpc' \in Holding \ Dropping)
      BY <2>1 DEF ClientTruncateId, ClientWriteId, TakeSnapshot, Advance
    <3> QED BY <1>4, <3>1
  <2>2. CASE Transfer(ok)
    <3>1. /\ UNCHANGED <<log, sync, logged, clobbered>> /\ cpc \in Holding
          /\ acked \subseteq acked'
      BY <2>2 DEF Transfer
    <3>2. CASE ok
      BY <2>2, <3>1, <3>2 DEF Transfer, Advance
    <3>3. CASE ~ok
      <4>1. Exit /\ UNCHANGED acked
        BY <2>2, <3>3 DEF Transfer, Advance
      <4> QED BY <1>4, <3>1, <4>1
    <3> QED BY <3>2, <3>3
  <2>3. CASE DropSnapshot(ok)
    BY <2>3 DEF DropSnapshot
  <2> QED BY <1>9, <2>1, <2>2, <2>3 DEF ClientStep
<1>10. CASE DropId
  BY <1>10 DEF DropId
<1>11. CASE DropSync
  <2>1. /\ UNCHANGED <<log, logged, acked, clobbered>> /\ sync' = Absent
        /\ cpc = "dropSync" /\ cpc' = "idle"
    BY <1>11 DEF DropSync, Exit
  <2>2. ~clobbered => OpsOf(sync) \subseteq acked
    BY <2>1, <1>0
  <2> QED BY <2>1, <2>2
<1>12. CASE UNCHANGED cvars
  BY <1>12 DEF cvars
<1> QED
  BY <1>1, <1>2, <1>3a, <1>5, <1>6, <1>7, <1>8, <1>9, <1>10, <1>11, <1>12
     DEF CNext, FsNext, ClientNext

-----------------------------------------------------------------------------
\* There is no id at the start.
LEMMA IdInit == CInit => IdInv
  BY ClientMarkers DEF CInit, IdInv, Id

\* Every step keeps the id on disk that of the epoch on disk.
LEMMA IdStep == CTypeOK /\ ReqInv /\ HeldInv /\ IdInv /\ [CNext]_cvars => IdInv'
<1> SUFFICES ASSUME CTypeOK, ReqInv, HeldInv, IdInv, [CNext]_cvars PROVE IdInv'
  OBVIOUS
<1> USE ClientMarkers DEF IdInv, Id, fs, process, ghosts
<1>0. /\ cpc \in CPcs /\ clobbered \in BOOLEAN
      /\ cpc \in Holding => sync # Absent /\ (~clobbered => epoch = sync)
  BY DEF CTypeOK, HeldInv
<1>1. CASE Execute \/ Record \/ FsCrash \/ FsStart
  <2>1. UNCHANGED <<sync, idfile, cpc, cid, idepoch, clobbered>>
    BY <1>1 DEF Execute, Record, FsCrash, FsStart
  <2> QED BY <2>1
<1>2. CASE Switch \/ SwitchFails
  <2>1. /\ UNCHANGED <<idfile, cpc, cid, idepoch>>
        /\ \/ clobbered' = (clobbered \/ sync # Absent)
           \/ UNCHANGED <<sync, clobbered>>
    BY <1>2 DEF Switch, SwitchFails, RenameLog
  <2> QED BY <2>1
<1>3. ASSUME Exit, UNCHANGED <<sync, idfile, idepoch, clobbered>> PROVE IdInv'
  BY <1>3 DEF Exit
<1>4. CASE Open \/ Answer
  <2>1. /\ UNCHANGED <<sync, idfile, idepoch, clobbered>>
        /\ cpc' \in {"signal", "id"}
    BY <1>4 DEF Open, Answer
  <2> QED BY <2>1
<1>5. CASE Signal \/ Timeout \/ ClientCrash
  <2>1. /\ UNCHANGED <<sync, idfile, idepoch, clobbered>>
        /\ Exit \/ cpc' = "wait"
    BY <1>5 DEF Signal, Timeout, ClientCrash
  <2> QED BY <1>3, <2>1
<1>6. CASE KeepId \/ KeepSnapshot
  BY <1>6 DEF KeepId, KeepSnapshot
<1>7. ASSUME NEW i \in SyncId, GenerateId(i) PROVE IdInv'
  BY <1>7 DEF GenerateId
<1>8. ASSUME NEW ok \in BOOLEAN, ClientStep(ok) PROVE IdInv'
  <2>1. CASE ClientTruncateId(ok)
    BY <2>1 DEF ClientTruncateId, Advance, Exit
  <2>2. CASE ClientWriteId(ok)
    <3>1. ~clobbered => sync # Absent /\ epoch = sync
      BY <2>2, <1>0 DEF ClientWriteId, Holding, CPcs
    <3> QED BY <2>2, <3>1 DEF ClientWriteId, Advance, Exit
  <2>3. CASE TakeSnapshot(ok)
    BY <2>3 DEF TakeSnapshot, Advance, Exit
  <2>4. CASE Transfer(ok)
    BY <2>4 DEF Transfer, Advance, Exit
  <2>5. CASE DropSnapshot(ok)
    BY <2>5 DEF DropSnapshot
  <2> QED BY <1>8, <2>1, <2>2, <2>3, <2>4, <2>5 DEF ClientStep
<1>9. CASE DropId
  BY <1>9 DEF DropId
<1>10. CASE DropSync
  BY <1>10 DEF DropSync, Exit
<1>11. CASE UNCHANGED cvars
  BY <1>11 DEF cvars
<1> QED
  BY <1>1, <1>2, <1>4, <1>5, <1>6, <1>7, <1>8, <1>9, <1>10, <1>11
     DEF CNext, FsNext, ClientNext

-----------------------------------------------------------------------------
\* There is no snapshot at the start.
LEMMA SnapInit == CInit => SnapInv
  BY EmptyToSet, OpsFacts DEF CInit, SnapInv

\* Every step keeps the snapshot as new as the epoch on disk.
LEMMA SnapStep ==
  CTypeOK /\ ReqInv /\ HeldInv /\ SnapInv /\ [CNext]_cvars => SnapInv'
<1> SUFFICES ASSUME CTypeOK, ReqInv, HeldInv, SnapInv, [CNext]_cvars
             PROVE  SnapInv'
  OBVIOUS
<1> USE ClientMarkers DEF SnapInv, fs, process, ghosts
<1>0. /\ cpc \in CPcs /\ clobbered \in BOOLEAN /\ stale \in BOOLEAN
      /\ executed \in Nat /\ pend \in Nat /\ log \in Seq(Nat)
      /\ csnap \in Nat \union {Absent}
      /\ sync \in Seq(Nat) \union {Absent}
      /\ cpc \in Holding => sync # Absent
  BY DEF CTypeOK, HeldInv
<1>s. ToSet(log) \subseteq Nat /\ OpsOf(sync) \subseteq Nat
  BY <1>0, ToSetNat, OpsFacts
<1>1. CASE Execute
  <2>1. /\ UNCHANGED <<log, sync, csnap, cpc, clobbered, stale>>
        /\ executed' = executed + 1 /\ pend' = executed + 1
    BY <1>1 DEF Execute
  <2>2. \A op \in ToSet(log) \union OpsOf(sync) : op <= executed + 1
    BY <1>0, <1>s
  <2>3. pend' <= executed'
    BY <1>0, <2>1
  <2> QED BY <2>1, <2>2, <2>3
<1>2. CASE Record
  <2>1. /\ UNCHANGED <<executed, sync, csnap, cpc, clobbered, stale>>
        /\ log' = Append(log, pend) /\ pend' = 0
    BY <1>2 DEF Record
  <2>2. ToSet(log') = ToSet(log) \union {pend}
    BY <2>1, <1>0, ToSetAppend
  <2>3. pend' <= executed
    BY <2>1, <1>0
  <2> QED BY <2>1, <2>2, <2>3
<1>3. ASSUME RenameLog, UNCHANGED <<executed, pend, csnap, cpc, stale>>
      PROVE  SnapInv'
  <2>1. /\ UNCHANGED <<executed, pend, csnap, cpc, stale>>
        /\ sync' = log /\ log' = <<>>
        /\ clobbered' = (clobbered \/ sync # Absent)
    BY <1>3 DEF RenameLog
  <2>2. OpsOf(sync') = ToSet(log) /\ ToSet(log') = {}
    BY <2>1, <1>0, OpsFacts, EmptyToSet
  <2>3. ~clobbered' => ~clobbered /\ sync = Absent
    BY <2>1
  <2> QED BY <2>1, <2>2, <2>3
<1>3a. CASE Switch \/ SwitchFails
  <2>1. /\ UNCHANGED <<executed, pend, csnap, cpc, stale>>
        /\ RenameLog \/ UNCHANGED <<log, sync, clobbered>>
    BY <1>3a DEF Switch, SwitchFails
  <2> QED BY <1>3, <2>1
<1>4. CASE FsCrash \/ FsStart
  <2>1. /\ UNCHANGED <<executed, log, sync, csnap, cpc, clobbered, stale>>
        /\ pend' \in {pend, 0}
    BY <1>4 DEF FsCrash, FsStart
  <2>2. pend' <= executed
    BY <1>0, <2>1
  <2> QED BY <2>1, <2>2
<1>5. ASSUME UNCHANGED <<fs, sync, csnap, clobbered, stale>>,
             cpc' \in CPcs \ {"transfer", "dropId", "dropSync"}
      PROVE  SnapInv'
  BY <1>5
<1>6. CASE Open \/ Signal \/ Answer \/ Timeout \/ KeepId \/ ClientCrash
           \/ (\E i \in SyncId : GenerateId(i))
  <2>1. UNCHANGED <<fs, sync, csnap, clobbered, stale>>
    BY <1>6 DEF Open, Signal, Answer, Timeout, KeepId, ClientCrash, GenerateId
  <2>2. cpc' \in {"idle", "signal", "id", "wait", "snap", "truncateId"}
    BY <1>6 DEF Open, Signal, Answer, Timeout, KeepId, ClientCrash, GenerateId,
                Exit
  <2> QED BY <1>5, <2>1, <2>2 DEF CPcs
<1>7. CASE KeepSnapshot
  BY <1>7 DEF KeepSnapshot
<1>8. ASSUME NEW ok \in BOOLEAN, ClientStep(ok) PROVE SnapInv'
  <2>1. CASE ClientTruncateId(ok) \/ ClientWriteId(ok)
    <3>1. UNCHANGED <<fs, sync, csnap, clobbered, stale>>
      BY <2>1 DEF ClientTruncateId, ClientWriteId
    <3>2. cpc' \in {"idle", "writeId", "snap"}
      BY <2>1 DEF ClientTruncateId, ClientWriteId, Advance, Exit
    <3> QED BY <1>5, <3>1, <3>2 DEF CPcs
  <2>2. CASE TakeSnapshot(ok)
    <3>1. UNCHANGED <<fs, sync, clobbered, stale>> /\ cpc = "snap"
      BY <2>2 DEF TakeSnapshot
    <3>2. CASE ok
      <4>1. csnap' = executed /\ cpc' = "transfer"
        BY <2>2, <3>2 DEF TakeSnapshot, Advance
      <4>2. sync # Absent /\ csnap' # Absent
        BY <1>0, <3>1, <4>1 DEF Holding, CPcs
      <4> QED BY <3>1, <4>1, <4>2
    <3>3. CASE ~ok
      <4>1. csnap' = csnap /\ cpc' = "idle"
        BY <2>2, <3>3 DEF TakeSnapshot, Advance, Exit
      <4> QED BY <3>1, <4>1
    <3> QED BY <3>2, <3>3
  <2>3. CASE Transfer(ok)
    <3>1. UNCHANGED <<fs, sync, csnap, clobbered, stale>>
      BY <2>3 DEF Transfer
    <3>2. cpc' \in {"idle", "dropSnap"}
      BY <2>3 DEF Transfer, Advance, Exit
    <3> QED BY <1>5, <3>1, <3>2 DEF CPcs
  <2>4. CASE DropSnapshot(ok)
    BY <2>4, <1>0 DEF DropSnapshot
  <2> QED BY <1>8, <2>1, <2>2, <2>3, <2>4 DEF ClientStep
<1>9. CASE DropId
  BY <1>9 DEF DropId
<1>10. CASE DropSync
  <2>1. /\ UNCHANGED <<fs, csnap, clobbered, stale>> /\ sync' = Absent
        /\ cpc = "dropSync" /\ cpc' = "idle"
    BY <1>10 DEF DropSync, Exit
  <2>2. OpsOf(sync') = {}
    BY <2>1, OpsFacts
  <2> QED BY <2>1, <2>2
<1>11. CASE UNCHANGED cvars
  BY <1>11 DEF cvars
<1> QED
  BY <1>1, <1>2, <1>3a, <1>4, <1>6, <1>7, <1>8, <1>9, <1>10, <1>11
     DEF CNext, FsNext, ClientNext

-----------------------------------------------------------------------------
\* The inductive invariant holds always.
LEMMA CInvAlways == CSpec => []CInv
<1>1. CInit => CInv
  <2>1. CInit => ReqInv
    BY DEF CInit, ReqInv
  <2> QED BY <2>1, CTypeInit, HeldInit, IdInit, SnapInit DEF CInv
<1>2. CInv /\ [CNext]_cvars => CInv'
  BY CTypeStep, HeldStep, IdStep, SnapStep DEF CInv
<1> QED BY <1>1, <1>2, PTL DEF CSpec

\* The variables of the source keep their types.
THEOREM ClientTypeCorrect == CSpec => []CTypeOK
<1>1. CInv => CTypeOK
  BY DEF CInv
<1> QED BY <1>1, CInvAlways, PTL

\* No recorded operation is lost before an epoch that holds it was confirmed,
\* as long as no switch replaces a .sync file.
THEOREM NothingLost == CSpec => []NoLoss
<1>1. CInv => NoLoss
  BY DEF CInv, HeldInv
<1> QED BY <1>1, CInvAlways, PTL

\* The id a transfer sends was made for the epoch it sends.
THEOREM IdsNameEpochs == CSpec => []IdNamesEpoch
<1>1. CInv => IdNamesEpoch
  BY DEF CInv, HeldInv, IdInv, Holding, CPcs, IdNamesEpoch
<1> QED BY <1>1, CInvAlways, PTL

\* The snapshot a transfer reads from is as new as the epoch it sends.
THEOREM SnapshotsCover == CSpec => []SnapshotCovers
<1>1. CInv => SnapshotCovers
  <2>1. \A s \in Seq(Nat) : OpsOf(s) = ToSet(s)
    BY OpsFacts
  <2> QED BY <2>1 DEF CInv, CTypeOK, HeldInv, SnapInv, Holding, CPcs,
                      SnapshotCovers
<1> QED BY <1>1, CInvAlways, PTL
=============================================================================
