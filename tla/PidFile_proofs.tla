---------------------------- MODULE PidFile_proofs -----------------------------
(***************************************************************************)
(* For any number of processes: a second instance only runs after somebody *)
(* has unlinked a pid file that another process had open, and the pid file *)
(* names the process that runs behind it.                                  *)
(***************************************************************************)
EXTENDS PidFile, TLAPS

\* The part of createPidFile() and deletePidFile() under the lock.
Locked(p) == ppc[p] \in {"truncate", "write", "running", "close"}

\* A process past lockRegion() holds the lock of the inode it has open, and
\* has written its pid there by the time it runs.
LockInv == \A p \in Proc :
  /\ ppc[p] = "lock" \/ Locked(p) => fdof[p] # 0
  /\ Locked(p) => holder[fdof[p]] = p
  /\ Running(p) => text[fdof[p]] = p

\* Every open descriptor refers to the file at the path.
NameInv == ~orphaned => \A p \in Proc : fdof[p] # 0 => fdof[p] = path

\* A lock is held by a process that is in that part.
OwnerInv == \A i \in Inodes : holder[i] # Nobody => Locked(holder[i])

PidInv == PTypeOK /\ LockInv /\ NameInv /\ OwnerInv

\* A process that ends takes only its own lock with it.
LEMMA GoneKeepsLocks ==
  ASSUME PTypeOK, LockInv, NEW p \in Proc, Gone(p), text' = text
  PROVE  LockInv'
<1> USE NobodyAssumption, MaxInodesAssumption
        DEF PTypeOK, LockInv, Locked, Running, PPcs, Inodes
<1>1. ASSUME NEW q \in Proc, ppc'[q] = "lock" \/ Locked(q)' \/ Running(q)'
      PROVE  q # p /\ ppc'[q] = ppc[q] /\ fdof'[q] = fdof[q]
  BY <1>1 DEF Gone, Goto
<1>2. ASSUME NEW q \in Proc, Locked(q)' PROVE holder'[fdof[q]] = q
  <2>1. q # p /\ ppc'[q] = ppc[q] /\ fdof'[q] = fdof[q]
    BY <1>1, <1>2
  <2>2. fdof[q] \in Inodes /\ holder[fdof[q]] = q
    BY <1>2, <2>1
  <2> QED BY <2>1, <2>2 DEF Gone
<1> QED BY <1>1, <1>2

\* A process that ends leaves the locks of the others to them.
LEMMA GoneKeepsOwners ==
  ASSUME PTypeOK, OwnerInv, NEW p \in Proc, Gone(p)
  PROVE  OwnerInv'
<1> USE NobodyAssumption DEF PTypeOK, OwnerInv, Locked, PPcs, Inodes
<1>1. ASSUME NEW i \in Inodes, holder'[i] # Nobody
      PROVE  holder'[i] = holder[i] /\ holder[i] \in Proc \ {p}
  BY <1>1 DEF Gone
<1>2. ASSUME NEW q \in Proc \ {p} PROVE ppc'[q] = ppc[q]
  BY <1>2 DEF Gone, Goto
<1> QED BY <1>1, <1>2

\* Every step of one process keeps the invariant.
LEMMA PidStep == PidInv /\ [PNext]_pvars => PidInv'
<1> SUFFICES ASSUME PidInv, [PNext]_pvars PROVE PidInv'
  OBVIOUS
<1> USE NobodyAssumption, MaxInodesAssumption
        DEF PidInv, PTypeOK, LockInv, NameInv, OwnerInv, Locked, Running, PPcs,
            Inodes
<1>1. ASSUME NEW p \in Proc, OpenFile(p) PROVE PidInv'
  BY <1>1 DEF OpenFile, Goto
<1>2. ASSUME NEW p \in Proc, CreateFile(p) PROVE PidInv'
  BY <1>2 DEF CreateFile, Goto
<1>3. ASSUME NEW p \in Proc, LockFile(p) PROVE PidInv'
  BY <1>3 DEF LockFile, Goto
<1>4. ASSUME NEW p \in Proc, LockRefused(p) \/ Die(p) PROVE PidInv'
  <2>1. Gone(p) /\ UNCHANGED <<path, created, text, orphaned>>
    BY <1>4 DEF LockRefused, Die
  <2>2. PTypeOK' /\ NameInv'
    BY <2>1 DEF Gone, Goto
  <2>3. LockInv' /\ OwnerInv'
    BY <2>1, GoneKeepsLocks, GoneKeepsOwners
  <2> QED BY <2>2, <2>3
<1>5. ASSUME NEW p \in Proc, Truncate(p) PROVE PidInv'
  BY <1>5 DEF Truncate, Goto
<1>6. ASSUME NEW p \in Proc, WritePid(p) PROVE PidInv'
  BY <1>6 DEF WritePid, Goto
<1>7. ASSUME NEW p \in Proc, Stop(p) PROVE PidInv'
  BY <1>7 DEF Stop, Goto
<1>8. ASSUME NEW p \in Proc, Close(p) PROVE PidInv'
  BY <1>8 DEF Close, Goto
<1>9. ASSUME NEW p \in Proc, Unlink(p) PROVE PidInv'
  <2>1. Gone(p) /\ text' = text /\ created' = created /\ path' = 0
    BY <1>9 DEF Unlink
  <2>2. orphaned' \in BOOLEAN
    BY <1>9 DEF Unlink
  <2>3. PTypeOK'
    BY <2>1, <2>2 DEF Gone, Goto
  <2>4. LockInv' /\ OwnerInv'
    BY <2>1, GoneKeepsLocks, GoneKeepsOwners
  <2>5. NameInv'
    <3>1. ASSUME NEW q \in Proc, ~orphaned', fdof'[q] # 0
          PROVE  FALSE
      <4>1. fdof[q] # 0 /\ fdof[q] = fdof'[q]
        BY <2>1, <3>1 DEF Gone
      <4>2. ~orphaned /\ fdof[q] # path
        BY <1>9, <3>1, <4>1 DEF Unlink
      <4> QED BY <4>1, <4>2
    <3> QED BY <3>1
  <2> QED BY <2>3, <2>4, <2>5
<1>10. CASE UNCHANGED pvars
  BY <1>10 DEF pvars
<1> QED
  BY <1>1, <1>2, <1>3, <1>4, <1>5, <1>6, <1>7, <1>8, <1>9, <1>10 DEF PNext

\* No process has opened anything yet.
LEMMA PidInit == PInit => PidInv
<1> SUFFICES ASSUME PInit PROVE PidInv
  OBVIOUS
<1> USE MaxInodesAssumption DEF PInit
<1>1. PTypeOK
  <2>1. path \in 0..created /\ created \in 0..MaxInodes
    OBVIOUS
  <2>2. holder \in [Inodes -> Proc \union {Nobody}]
        /\ text \in [Inodes -> Proc \union {Nobody}]
    OBVIOUS
  <2>3. ppc \in [Proc -> PPcs] /\ fdof \in [Proc -> 0..created]
    BY DEF PPcs
  <2> QED BY <2>1, <2>2, <2>3 DEF PTypeOK
<1>2. LockInv /\ NameInv
  BY DEF LockInv, NameInv, Locked, Running
<1>3. OwnerInv
  BY DEF OwnerInv
<1> QED BY <1>1, <1>2, <1>3 DEF PidInv

\* Paths, descriptors and locks refer to what exists, and whoever holds a lock
\* still has the file open.
THEOREM PidTypeCorrect == PSpec => []PTypeOK
<1>1. PidInv => PTypeOK
  BY DEF PidInv
<1> QED BY <1>1, PidInit, PidStep, PTL DEF PSpec

\* The program runs once, as long as no pid file was unlinked under another
\* process.
THEOREM MutualExclusion == PSpec => []OneUnlessOrphaned
<1>1. PidInv => OneUnlessOrphaned
  BY DEF PidInv, LockInv, NameInv, Locked, Running, OneUnlessOrphaned,
         OnlyOneInstance
<1> QED BY <1>1, PidInit, PidStep, PTL DEF PSpec

\* The pid file names the process that runs behind it.
THEOREM FileNames == PSpec => []FileNamesRunner
<1>1. PidInv => FileNamesRunner
  BY DEF PidInv, LockInv, FileNamesRunner
<1> QED BY <1>1, PidInit, PidStep, PTL DEF PSpec
=============================================================================
