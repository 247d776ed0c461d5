-------------------------------- MODULE PidFile --------------------------------
(***************************************************************************)
(* createPidFile() and deletePidFile() (lib/create_pid_file.c), with which *)
(* the file system, the server and every client make sure that they run    *)
(* once per resource, and the reader in switchLog() of client.c.           *)
(*                                                                         *)
(* The path names an inode or nothing; a lock belongs to an inode and goes *)
(* away when the descriptor is closed or the process ends.                 *)
(***************************************************************************)
EXTENDS Integers, FiniteSets

CONSTANTS
  Proc,       \* processes, each one run of a program; also their pids
  Nobody,     \* no process
  MaxInodes   \* bound: pid files created

ASSUME NobodyAssumption == Nobody \notin Proc
ASSUME MaxInodesAssumption == MaxInodes \in Nat

VARIABLES
  path,      \* the inode the path names, 0 for none
  created,   \* inodes created so far
  holder,    \* who holds the lock on an inode
  text,      \* the pid in it, or Nobody
  ppc,       \* where each process stands
  fdof,      \* the inode its descriptor refers to, 0 for none
  orphaned   \* somebody has unlinked a file that another process had locked

pvars == <<path, created, holder, text, ppc, fdof, orphaned>>

Inodes == 1..MaxInodes
PPcs == {"start", "lock", "truncate", "write", "running", "close", "unlink",
         "gone"}

PInit == /\ path = 0 /\ created = 0
         /\ holder = [i \in Inodes |-> Nobody]
         /\ text = [i \in Inodes |-> Nobody]
         /\ ppc = [p \in Proc |-> "start"] /\ fdof = [p \in Proc |-> 0]
         /\ orphaned = FALSE

Goto(p, pc) == ppc' = [ppc EXCEPT ![p] = pc]

\* The end of a process closes its descriptor.
Gone(p) == /\ Goto(p, "gone")
           /\ fdof' = [fdof EXCEPT ![p] = 0]
           /\ holder' = [i \in Inodes |-> IF holder[i] = p THEN Nobody
                                          ELSE holder[i]]

-----------------------------------------------------------------------------
(* createPidFile(), step by step.                                          *)

\* Mutant: O_TRUNC as well.
OpenTruncates(p) == /\ ppc[p] = "start" /\ path # 0
                    /\ fdof' = [fdof EXCEPT ![p] = path]
                    /\ text' = [text EXCEPT ![path] = Nobody]
                    /\ Goto(p, "lock")
                    /\ UNCHANGED <<path, created, holder, orphaned>>

\* open() with O_CREAT.
OpenFile(p) == /\ ppc[p] = "start" /\ path # 0
               /\ fdof' = [fdof EXCEPT ![p] = path]
               /\ Goto(p, "lock")
               /\ UNCHANGED <<path, created, holder, text, orphaned>>

CreateFile(p) == /\ ppc[p] = "start" /\ path = 0 /\ created < MaxInodes
                 /\ created' = created + 1
                 /\ path' = created + 1
                 /\ fdof' = [fdof EXCEPT ![p] = created + 1]
                 /\ Goto(p, "lock")
                 /\ UNCHANGED <<holder, text, orphaned>>

\* Mutant: a read lock, which several processes can have.
LockShared(p) == /\ ppc[p] = "lock"
                 /\ holder' = [holder EXCEPT ![fdof[p]] = p]
                 /\ Goto(p, "truncate")
                 /\ UNCHANGED <<path, created, text, fdof, orphaned>>

LockFile(p) == /\ ppc[p] = "lock" /\ holder[fdof[p]] = Nobody
               /\ holder' = [holder EXCEPT ![fdof[p]] = p]
               /\ Goto(p, "truncate")
               /\ UNCHANGED <<path, created, text, fdof, orphaned>>

\* Somebody else has the lock: the caller gives up and ends.
LockRefused(p) == /\ ppc[p] = "lock" /\ holder[fdof[p]] # Nobody
                  /\ Gone(p)
                  /\ UNCHANGED <<path, created, text, orphaned>>

Truncate(p) == /\ ppc[p] = "truncate"
               /\ text' = [text EXCEPT ![fdof[p]] = Nobody]
               /\ Goto(p, "write")
               /\ UNCHANGED <<path, created, holder, fdof, orphaned>>

WritePid(p) == /\ ppc[p] = "write"
               /\ text' = [text EXCEPT ![fdof[p]] = p]
               /\ Goto(p, "running")
               /\ UNCHANGED <<path, created, holder, fdof, orphaned>>

\* The program has done its work.
Stop(p) == /\ ppc[p] = "running"
           /\ Goto(p, "close")
           /\ UNCHANGED <<path, created, holder, text, fdof, orphaned>>

\* Mutant: the descriptor is forgotten, not closed.
CloseLeaks(p) == /\ ppc[p] = "close"
                 /\ fdof' = [fdof EXCEPT ![p] = 0]
                 /\ Goto(p, "unlink")
                 /\ UNCHANGED <<path, created, holder, text, orphaned>>

(* deletePidFile(): the lock is gone before the file.                      *)

Close(p) == /\ ppc[p] = "close"
            /\ holder' = [holder EXCEPT ![fdof[p]] = Nobody]
            /\ fdof' = [fdof EXCEPT ![p] = 0]
            /\ Goto(p, "unlink")
            /\ UNCHANGED <<path, created, text, orphaned>>

\* The path is removed, whatever inode it names by now.
Unlink(p) == /\ ppc[p] = "unlink"
             /\ path' = 0
             /\ orphaned' = (orphaned \/
                              \E q \in Proc : fdof[q] # 0 /\ fdof[q] = path)
             /\ Gone(p)
             /\ UNCHANGED <<created, text>>

\* A process ends without deletePidFile(), as the early returns of
\* synchronize() do.
Die(p) == /\ ppc[p] # "gone"
          /\ Gone(p)
          /\ UNCHANGED <<path, created, text, orphaned>>

PNext == \E p \in Proc :
           \/ OpenFile(p) \/ CreateFile(p) \/ LockFile(p) \/ LockRefused(p)
           \/ Truncate(p) \/ WritePid(p) \/ Stop(p) \/ Close(p) \/ Unlink(p)
           \/ Die(p)

PSpec == PInit /\ [][PNext]_pvars

-----------------------------------------------------------------------------
(* Properties                                                              *)

\* Paths, descriptors and locks refer to files that were created, and whoever
\* holds a lock still has the file open (region_locking.c:33-37).
PTypeOK == /\ path \in 0..created /\ created \in 0..MaxInodes
           /\ holder \in [Inodes -> Proc \union {Nobody}]
           /\ text \in [Inodes -> Proc \union {Nobody}]
           /\ ppc \in [Proc -> PPcs] /\ fdof \in [Proc -> 0..created]
           /\ orphaned \in BOOLEAN
           /\ \A i \in Inodes : holder[i] # Nobody => fdof[holder[i]] = i

\* Between the return of createPidFile() and deletePidFile().
Running(p) == ppc[p] \in {"running", "close"}

\* "Ensure that only one instance of the program is running"
\* (create_pid_file.c:13-14).
OnlyOneInstance == \A p, q \in Proc : Running(p) /\ Running(q) => p = q

\* It does, unless a process that had given up its lock has unlinked the file
\* after another process opened it (create_pid_file.c:95-99).
OneUnlessOrphaned == ~orphaned => OnlyOneInstance

\* Whoever reads a pid while a process runs under the name of the file reads
\* that of this process (client.c:831-856): a client never signals a stranger
\* while the file system is mounted.
FileNamesRunner == \A p \in Proc :
  Running(p) /\ path # 0 /\ fdof[p] = path => text[path] = p
=============================================================================
