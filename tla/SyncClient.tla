------------------------------ MODULE SyncClient ------------------------------
(***************************************************************************)
(* The source side of a synchronisation: the FUSE file system (syncedfs/)  *)
(* that records what it did in <resource>.log, and the client process      *)
(* (synchronize() in syncedfs-daemon/client.c) that has it switch the log  *)
(* to <resource>.sync, names the epoch with an id, freezes the tree in a   *)
(* snapshot, sends the epoch and removes the three again.                  *)
(*                                                                         *)
(* Operations are numbered in the order in which they are executed on the  *)
(* tree; a log file is the sequence of the numbers recorded in it, and a   *)
(* snapshot is the number of operations executed when it was taken.  One   *)
(* client runs at a time; what happens within a log switch is the subject  *)
(* of LogSwitch.                                                           *)
(***************************************************************************)
EXTENDS Integers, SequencesExt

CONSTANTS
  SyncId,   \* ids generateSyncId() can come up with
  Absent,   \* the path does not exist
  Empty,    \* the sync-id file exists and holds nothing
  Partial,  \* it holds the beginning of an id
  MaxOps    \* bound: operations executed by the file system

ASSUME ClientMarkers == /\ Absent \notin SyncId /\ Empty \notin SyncId
                        /\ Absent # Empty
                        /\ Partial \notin {Absent, Empty}
                        /\ Absent \notin Seq(Nat) /\ Absent \notin Nat
ASSUME MaxOpsAssumption == MaxOps \in Nat

VARIABLES
  \* the file system
  fsup,       \* it is mounted and its pid file names it
  executed,   \* operations executed on the tree
  pend,       \* the operation executed but not recorded yet, or 0
  reqby,      \* whose SIGUSR1 is pending: "none", "me" (the client running)
              \* or "old" (a client that is gone)
  \* durable
  log,        \* <resource>.log
  sync,       \* <resource>.sync
  idfile,     \* <resource>.id
  csnap,      \* config.snapshot
  \* the client process
  cpc,        \* where synchronize() stands
  newsync,    \* newsync
  cid,        \* id
  epoch,      \* what logfd refers to
  answered,   \* the file system's SIGUSR1 is pending
  \* history
  logged,     \* operations that were recorded
  acked,      \* operations of epochs transfer() succeeded for
  idepoch,    \* the epoch the id on disk was written for
  clobbered,  \* a switch has replaced a .sync file
  stale       \* csnap belongs to an epoch that is done

cvars == <<fsup, executed, pend, reqby, log, sync, idfile, csnap, cpc, newsync,
           cid, epoch, answered, logged, acked, idepoch, clobbered, stale>>
fs == <<fsup, executed, pend, log, logged>>
process == <<newsync, cid, epoch, answered>>
ghosts == <<acked, idepoch, clobbered, stale>>

CPcs == {"idle", "signal", "wait", "id", "truncateId", "writeId", "snap",
         "transfer", "dropSnap", "dropId", "dropSync"}

CInit == /\ fsup = TRUE /\ executed = 0 /\ pend = 0 /\ reqby = "none"
         /\ log = <<>> /\ sync = Absent /\ idfile = Absent /\ csnap = Absent
         /\ cpc = "idle" /\ newsync = FALSE /\ cid = Absent
         /\ epoch = <<>> /\ answered = FALSE
         /\ logged = {} /\ acked = {} /\ idepoch = <<>>
         /\ clobbered = FALSE /\ stale = FALSE

-----------------------------------------------------------------------------
(* The file system.                                                        *)

\* An operation succeeds on the tree ...
Execute == /\ fsup /\ pend = 0 /\ executed < MaxOps
           /\ executed' = executed + 1
           /\ pend' = executed + 1
           /\ UNCHANGED <<fsup, reqby, log, sync, idfile, csnap, cpc, process,
                          logged, ghosts>>

\* ... and logGeneric() records it.
Record == /\ fsup /\ pend # 0
          /\ log' = Append(log, pend)
          /\ logged' = logged \union {pend}
          /\ pend' = 0
          /\ UNCHANGED <<fsup, executed, reqby, sync, idfile, csnap, cpc,
                         process, ghosts>>

\* .log becomes .sync, whether there was one or not.
RenameLog == /\ sync' = log
             /\ log' = <<>>
             /\ clobbered' = (clobbered \/ sync # Absent)

\* The pending request is served, and the process that sent it is signalled.
Switch == /\ fsup /\ reqby # "none"
          /\ RenameLog
          /\ answered' = (answered \/ reqby = "me")
          /\ reqby' = "none"
          /\ UNCHANGED <<fsup, executed, pend, idfile, csnap, cpc, newsync,
                         cid, epoch, logged, acked, idepoch, stale>>

\* close() or rename() fails: the log is renamed all the same or not, and
\* nobody is signalled.  A request that was put off stays (switchpending).
SwitchFails == /\ fsup /\ reqby # "none"
               /\ RenameLog \/ UNCHANGED <<log, sync, clobbered>>
               /\ reqby' \in {"none", reqby}
               /\ UNCHANGED <<fsup, executed, pend, idfile, csnap, cpc, process,
                              logged, acked, idepoch, stale>>

\* A signal and an operation that is not recorded yet die with the process.
FsCrash == /\ fsup
           /\ fsup' = FALSE /\ pend' = 0 /\ reqby' = "none"
           /\ UNCHANGED <<executed, log, sync, idfile, csnap, cpc, process,
                          logged, ghosts>>

\* Mounted again: openOpLog() appends to the log that is there.
FsStart == /\ ~fsup
           /\ fsup' = TRUE
           /\ UNCHANGED <<executed, pend, reqby, log, sync, idfile, csnap, cpc,
                          process, logged, ghosts>>

-----------------------------------------------------------------------------
(* synchronize().                                                          *)

\* The process is gone; the request it sent is not.
Exit == /\ cpc' = "idle" /\ newsync' = FALSE /\ cid' = Absent
        /\ epoch' = <<>> /\ answered' = FALSE
        /\ reqby' = IF reqby = "me" THEN "old" ELSE reqby

\* A step that can fail, after which synchronize() returns -1.
Advance(ok, next) == IF ok THEN cpc' = next /\ UNCHANGED <<process, reqby>>
                           ELSE Exit

Open == /\ cpc = "idle"
        /\ IF sync = Absent THEN cpc' = "signal" /\ UNCHANGED epoch
                            ELSE cpc' = "id" /\ epoch' = sync
        /\ UNCHANGED <<fs, reqby, sync, idfile, csnap, newsync, cid, answered,
                       ghosts>>

\* kill(): a second SIGUSR1 merges with the one that is pending and keeps
\* the sender of the first.
Signal == /\ cpc = "signal"
          /\ IF fsup
             THEN /\ cpc' = "wait"
                  /\ reqby' = IF reqby = "none" THEN "me" ELSE reqby
                  /\ UNCHANGED process
             ELSE Exit
          /\ UNCHANGED <<fs, sync, idfile, csnap, ghosts>>

\* sigtimedwait() returns the answer and .sync is opened.
Answer == /\ cpc = "wait" /\ answered
          /\ answered' = FALSE
          /\ newsync' = TRUE
          /\ epoch' = sync
          /\ cpc' = "id"
          /\ UNCHANGED <<fs, reqby, sync, idfile, csnap, cid, ghosts>>

\* Mutant: the result of sigtimedwait() is not looked at.
TimeoutUnchecked == /\ cpc = "wait" /\ ~answered
                    /\ newsync' = TRUE
                    /\ epoch' = sync
                    /\ cpc' = "id"
                    /\ UNCHANGED <<fs, reqby, sync, idfile, csnap, cid, answered,
                                   ghosts>>

\* Ten seconds have passed.
Timeout == /\ cpc = "wait" /\ ~answered
           /\ Exit
           /\ UNCHANGED <<fs, sync, idfile, csnap, ghosts>>

\* What readSyncId() accepts: anything there is in the file.
Id == SyncId \union {Partial}

\* An id is made up for a new epoch and whenever there is none to be read.
KeepId == /\ cpc = "id" /\ ~newsync /\ idfile \in Id
          /\ cpc' = "snap"
          /\ UNCHANGED <<fs, reqby, sync, idfile, csnap, process, ghosts>>

GenerateId(i) == /\ cpc = "id" /\ (newsync \/ idfile \notin Id)
                 /\ i # idfile
                 /\ cid' = i
                 /\ cpc' = "truncateId"
                 /\ UNCHANGED <<fs, reqby, sync, idfile, csnap, newsync, epoch,
                                answered, ghosts>>

(* writeSyncId(): truncated first, then written and closed; a call that    *)
(* fails leaves any part of the id in the file.                            *)

ClientTruncateId(ok) ==
  /\ cpc = "truncateId"
  /\ idfile' = IF ok THEN Empty ELSE idfile
  /\ Advance(ok, "writeId")
  /\ UNCHANGED <<fs, sync, csnap, ghosts>>

ClientWriteId(ok) ==
  /\ cpc = "writeId"
  /\ idfile' \in IF ok THEN {cid} ELSE {Empty, Partial, cid}
  /\ idepoch' = IF idfile' = Empty THEN idepoch ELSE epoch
  /\ Advance(ok, "snap")
  /\ UNCHANGED <<fs, sync, csnap, acked, clobbered, stale>>

KeepSnapshot == /\ cpc = "snap" /\ ~newsync /\ csnap # Absent
                /\ cpc' = "transfer"
                /\ UNCHANGED <<fs, reqby, sync, idfile, csnap, process, ghosts>>

\* Onto a snapshot that is still there the call fails: it would have to be
\* created inside it, and it is read-only.
TakeSnapshot(ok) ==
  /\ cpc = "snap" /\ (newsync \/ csnap = Absent)
  /\ ok => csnap = Absent
  /\ csnap' = IF ok THEN executed ELSE csnap
  /\ Advance(ok, "transfer")
  /\ UNCHANGED <<fs, sync, idfile, ghosts>>

\* Mutant: the result of transfer() is not looked at.
TransferUnchecked(ok) ==
  /\ cpc = "transfer"
  /\ acked' = IF ok THEN acked \union ToSet(epoch) ELSE acked
  /\ Advance(TRUE, "dropSnap")
  /\ UNCHANGED <<fs, sync, idfile, csnap, idepoch, clobbered, stale>>

\* Mutant: the snapshot of an epoch that is done is left behind.
TransferKeepsSnapshot(ok) ==
  /\ cpc = "transfer"
  /\ acked' = IF ok THEN acked \union ToSet(epoch) ELSE acked
  /\ Advance(ok, "dropId")
  /\ UNCHANGED <<fs, sync, idfile, csnap, idepoch, clobbered, stale>>

\* loadLog() and transfer(), which confirms the epoch or fails.
Transfer(ok) ==
  /\ cpc = "transfer"
  /\ acked' = IF ok THEN acked \union ToSet(epoch) ELSE acked
  /\ Advance(ok, "dropSnap")
  /\ UNCHANGED <<fs, sync, idfile, csnap, idepoch, clobbered, stale>>

\* A failure is only logged.
DropSnapshot(ok) ==
  /\ cpc = "dropSnap"
  /\ csnap' = IF ok THEN Absent ELSE csnap
  /\ stale' = ~ok
  /\ cpc' = "dropId"
  /\ UNCHANGED <<fs, reqby, sync, idfile, process, acked, idepoch, clobbered>>

\* Mutant: the id is left behind.
DropIdForgotten == /\ cpc = "dropId"
                   /\ cpc' = "dropSync"
                   /\ UNCHANGED <<fs, reqby, sync, idfile, csnap, process, ghosts>>

DropId == /\ cpc = "dropId"
          /\ idfile' = Absent
          /\ cpc' = "dropSync"
          /\ UNCHANGED <<fs, reqby, sync, csnap, process, ghosts>>

DropSync == /\ cpc = "dropSync"
            /\ sync' = Absent
            /\ Exit
            /\ UNCHANGED <<fs, idfile, csnap, ghosts>>

ClientCrash == /\ cpc # "idle"
               /\ Exit
               /\ UNCHANGED <<fs, sync, idfile, csnap, ghosts>>

-----------------------------------------------------------------------------
FsNext == Execute \/ Record \/ Switch \/ SwitchFails \/ FsCrash \/ FsStart

ClientStep(ok) == \/ ClientTruncateId(ok) \/ ClientWriteId(ok)
                  \/ TakeSnapshot(ok) \/ Transfer(ok) \/ DropSnapshot(ok)

ClientNext == \/ Open \/ Signal \/ Answer \/ Timeout
              \/ KeepId \/ (\E i \in SyncId : GenerateId(i))
              \/ (\E ok \in BOOLEAN : ClientStep(ok))
              \/ KeepSnapshot \/ DropId \/ DropSync
              \/ ClientCrash

CNext == FsNext \/ ClientNext
CSpec == CInit /\ [][CNext]_cvars

-----------------------------------------------------------------------------
(* Properties                                                              *)

\* The types of the variables of the source.
CTypeOK ==
  /\ fsup \in BOOLEAN /\ executed \in Nat /\ pend \in Nat
  /\ reqby \in {"none", "me", "old"}
  /\ log \in Seq(Nat) /\ sync \in Seq(Nat) \union {Absent}
  /\ idfile \in Id \union {Absent, Empty} /\ csnap \in Nat \union {Absent}
  /\ cpc \in CPcs /\ newsync \in BOOLEAN /\ cid \in SyncId \union {Absent}
  /\ epoch \in Seq(Nat) /\ answered \in BOOLEAN
  /\ logged \subseteq Nat /\ acked \subseteq Nat
  /\ idepoch \in Seq(Nat)
  /\ clobbered \in BOOLEAN /\ stale \in BOOLEAN

\* The operations of a log file.
OpsOf(file) == IF file = Absent THEN {} ELSE ToSet(file)

\* What was recorded is in one of the two log files until an epoch that holds
\* it was confirmed, through every crash and abandoned attempt, unless a
\* switch has replaced a .sync file (log.c:59).
NoLoss == ~clobbered => logged \subseteq acked \union OpsOf(log)
                                           \union OpsOf(sync)

\* The id sent with an epoch was written for that epoch and never for an
\* earlier one, although ids outlive the attempts that made them
\* (client.c:72-87): a server that remembers ids may rely on them, as far as no
\* two have the part in common that a failing write has left.
IdNamesEpoch == ~clobbered /\ cpc = "transfer" =>
                  idfile \in Id /\ idepoch = sync /\ epoch = sync

\* The data of an epoch is read from a snapshot taken after its last
\* operation was executed (client.c:89-96), unless the snapshot of an epoch
\* that is done could not be deleted (client.c:116).
SnapshotCovers == ~clobbered /\ ~stale /\ cpc = "transfer" =>
                    csnap # Absent /\ \A op \in ToSet(epoch) : op <= csnap

=============================================================================
