------------------------------- MODULE Mirroring -------------------------------
(***************************************************************************)
(* What becomes of a tree: programs change the source through the file     *)
(* system (syncedfs.c), which logs what succeeded (log.c), a client merges *)
(* the log of an epoch (client.c, optimization.c) and sends it file by     *)
(* file with data from a snapshot, and the server applies it (server.c).   *)
(* Nothing fails on the way here: SyncSession is about that.               *)
(*                                                                         *)
(* Programs run between sessions and between the switch of the log and the *)
(* snapshot.  What they do while a client loads and sends is the same as   *)
(* what they do after it: it touches neither the epoch nor the snapshot.   *)
(***************************************************************************)
EXTENDS Compaction, Replay, LogRecords

CONSTANTS
  InitTrees,  \* what source and mirror may look like in the beginning
  Bytes,      \* bound: the size of a file
  MaxOps      \* bound: operations executed

ASSUME MirroringAssumption == /\ Bytes \in Nat /\ MaxOps \in Nat
                              /\ InitTrees \subseteq Trees
                              /\ IsFiniteSet(Paths)
                              /\ Cardinality(Inodes) >= Cardinality(Paths)

VARIABLES
  src,      \* the source's tree
  log,      \* <resource>.log
  sync,     \* <resource>.sync
  snap,     \* the snapshot
  tables,   \* the hash tables of the client and its counters
  phase,    \* "idle", "switched", "loading", "sending" or "crashed"
  mirror,   \* the mirror's tree
  \* history
  done,     \* operations executed, which stamps the data they write
  refused,  \* the server could not do what it was told
  tangled   \* operations of one epoch have got in each other's way

mvars == <<src, log, sync, snap, tables, phase, mirror, done, refused, tangled>>
client == <<sync, snap, tables, phase, mirror, refused>>

MInit == /\ src \in InitTrees /\ mirror = src /\ snap = src
         /\ log = <<>> /\ sync = <<>>
         /\ tables = EmptyTables /\ phase = "idle"
         /\ done = 0 /\ refused = FALSE /\ tangled = FALSE

-----------------------------------------------------------------------------
(* The file system: a call on the tree, and if it succeeds a record.       *)

Running == phase \in {"idle", "switched"} /\ done < MaxOps

\* Names that a record is about, and with them the directories they are in.
Own(r) == {r.path} \union (IF r.op.type \in {"LINK", "RENAME"} THEN {r.op.newpath} ELSE {})
Names(r) == Own(r) \union ({Parent[p] : p \in Own(r)} \ {Nowhere})

\* What the order within an epoch depends on.
Tangles(l) ==
  \E j, k \in DOMAIN l :
    \/ /\ l[j].op.type = "RENAME" /\ j # k
       /\ Names(l[j]) \intersect Names(l[k]) # {}
    \/ /\ l[j].op.type = "CHOWN" /\ l[k].op.type = "CHMOD"
       /\ j < k /\ l[k].op.mode = "suid" /\ l[j].path = l[k].path
    \/ /\ l[j].op.type = "RMDIR" /\ l[k].op.type = "MKDIR" /\ j < k
       /\ l[j].path = l[k].path
    \/ /\ l[j].op.type = "LINK" /\ l[k].op.type = "UNLINK" /\ j < k
       /\ l[k].path \in Names(l[j])

\* Another name of the file was used since the last snapshot, or one of its names
\* went and what it was used for is set aside.  (Removing the last name settles
\* what the epoch did to the others, replacing it by a rename does not.)
OtherName(r) ==
  LET last == r.op.type = "UNLINK" /\ r.op.last_link
  IN  \E s \in Range(IF last THEN sync ELSE sync \o log) :
        \/ /\ Exists(src, r.path)
           /\ Own(s) \intersect (Links(src, src.names[r.path]) \ {r.path}) # {}
        \/ /\ s.op.type = "UNLINK" /\ ~s.op.last_link
           /\ \E p \in Own(r) : src.names[p] = s.op.inode

\* stat() before the removal of a symbolic link reports the file it leads to.
Mistaken(r) ==
  /\ Is(src, r.path, "symlink") /\ r.op.type = "UNLINK"
  /\ \/ ~r.op.last_link
     \/ \E s \in Range(log) : s.op.type = "UNLINK" /\ s.op.inode = r.op.inode

\* What happens between the switch and the snapshot to what the epoch is about.
Late(r) == /\ r.op.type \notin {"WRITE", "CHMOD", "CHOWN"}
           /\ \E k \in DOMAIN sync : Names(sync[k]) \intersect Names(r) # {}

\* logGeneric().
LogGeneric(r) ==
  /\ log' = Append(log, r)
  /\ tangled' = (tangled \/ Tangles(log') \/ OtherName(r) \/ Mistaken(r) \/ Late(r))

Execute(call, r) ==
  /\ call.ok
  /\ src' = call.tree
  /\ LogGeneric(r)
  /\ done' = done + 1
  /\ UNCHANGED client

\* The kernel only asks for a file that is not there.
Create(p) == \E i \in Free(src), m \in Modes :
  /\ ~Exists(src, p)
  /\ Execute(Creat(src, p, i, m), LogCreate(p, m))

Mknod(p) == \E i \in Free(src) :
  Execute(Make(src, p, i, NewNode("file", "plain", Nowhere)), LogMknod(p, "plain", 0))

Mkdir(p) == \E i \in Free(src) :
  Execute(Make(src, p, i, NewNode("dir", "plain", Nowhere)), LogMkdir(p, "plain"))

Symlink(p, target) == \E i \in Free(src) :
  Execute(Make(src, p, i, NewNode("symlink", "plain", target)), LogSymlink(p, target))

LinkTo(p, q) == Execute(Link(src, p, q), LogLink(p, q))

\* pwrite() to an open file.  The data is not logged.  (The kernel resolves
\* symbolic links before it asks; lchown() is left out.)
Write(p, off, n) ==
  /\ Is(src, p, "file")
  /\ off + n <= Bytes
  /\ Execute(Done(Pwrite(src, src.names[p], off, [k \in 1..n |-> done + 2])),
             LogWrite(p, n, off))

\* truncate() and ftruncate().
TruncateTo(p, n) ==
  /\ Is(src, p, "file")
  /\ Execute(Truncate(src, p, n), LogTruncate(p, n))

ChmodTo(p, m) ==
  /\ Exists(src, p) /\ ~Is(src, p, "symlink")
  /\ Execute(Chmod(src, p, m), LogChmod(p, m))

ChownTo(p, w) ==
  /\ Exists(src, p) /\ ~Is(src, p, "symlink")
  /\ Execute(Chown(src, p, w), LogChown(p, w))

\* What stat() says before a name goes: links and number of the file it leads to.
Before(p) == LET i == Stat(src, p)
             IN  IF i = Nowhere THEN [nlink |-> 0, ino |-> 0]
                 ELSE [nlink |-> Cardinality(Links(src, i)), ino |-> i]

\* Mutant: a name that leads nowhere is taken for one of several.
UnlinkMisjudges(p) ==
  LET st == Before(p)
  IN  Execute(Unlink(src, p), LogUnlink(p, IF st.nlink = 0 THEN 2 ELSE st.nlink, st.ino))

UnlinkFile(p) ==
  LET st == Before(p) IN Execute(Unlink(src, p), LogUnlink(p, st.nlink, st.ino))

RmdirAt(p) == Execute(Rmdir(src, p), LogRmdir(p))

\* Not logged when stat() still finds the old name.
RenameTo(p, q) ==
  LET call == Rename(src, p, q)
      st == Before(q)
  IN  /\ Stat(call.tree, p) = Nowhere
      /\ Execute(call, LogRename(p, q, st.nlink, st.ino))

Program == Running /\ \E p \in Paths :
  \/ Create(p) \/ Mknod(p) \/ Mkdir(p) \/ UnlinkFile(p) \/ RmdirAt(p)
  \/ \E q \in Paths : Symlink(p, q) \/ LinkTo(p, q) \/ RenameTo(p, q)
  \/ \E off \in 0..Bytes, n \in 1..Bytes : Write(p, off, n)
  \/ \E n \in 0..Bytes : TruncateTo(p, n)
  \/ \E m \in Modes : ChmodTo(p, m)
  \/ \E w \in Owners : ChownTo(p, w)

-----------------------------------------------------------------------------
(* The client and the server.                                              *)

\* An empty log makes an empty epoch, which is left out.
SwitchLog == /\ phase = "idle" /\ log # <<>>
             /\ sync' = log /\ log' = <<>>
             /\ phase' = "switched"
             /\ UNCHANGED <<src, snap, tables, mirror, done, refused, tangled>>

TakeSnapshot == /\ phase = "switched"
                /\ snap' = src
                /\ tables' = EmptyTables
                /\ phase' = "loading"
                /\ UNCHANGED <<src, log, sync, mirror, done, refused, tangled>>

\* loadLog(): one record.
Load == /\ phase = "loading" /\ sync # <<>>
        /\ tables' = AddOperation(tables, Head(sync).path, Head(sync).op)
        /\ phase' = IF tables'.crashed THEN "crashed" ELSE "loading"
        /\ sync' = Tail(sync)
        /\ UNCHANGED <<src, log, snap, mirror, done, refused, tangled>>

\* The end of loadLog(), whatever was in the uninitialized variable and in whatever
\* order the walk comes upon the names that matter to it.
Match == /\ phase = "loading" /\ sync = <<>>
         /\ LET aside == DOMAIN tables.inodes
            IN  \E memory \in aside \union {0},
                   walk \in SetToSeqs({p \in Paths : snap.names[p] \in aside}) :
                  /\ tables' = MatchInodefiles(tables, snap, memory, walk)
                  /\ tangled' = (tangled \/ memory \in aside)
         /\ phase' = "sending"
         /\ UNCHANGED <<src, log, sync, snap, mirror, done, refused>>

\* loadWriteData(): no data when the snapshot does not have all of it.
LoadWriteData(p, o) ==
  LET q == Resolve(snap, p)
      end == o.offset + o.size
  IN  IF o.type = "WRITE" /\ Is(snap, q, "file") /\ end <= Len(At(snap, q).data)
      THEN [o EXCEPT !.data = SubSeq(At(snap, q).data, o.offset + 1, end)]
      ELSE o

\* transferFile() and the server's work on that file.  When the last operation is
\* a write whose file could not be opened, closing it fails badly
\* (loadWriteData(NULL) compares NULL with the path).
TransferFile ==
  /\ phase = "sending" /\ tables.files # <<>>
  /\ LET f == First(tables.files)
     IN  \E ops \in OptimizeOperations(f.ops) :
           IF ops # <<>> /\ Last(ops).type = "WRITE" /\ Stat(snap, f.path) = Nowhere
           THEN phase' = "crashed" /\ UNCHANGED <<mirror, refused, tables>>
           ELSE LET sent == [k \in DOMAIN ops |-> LoadWriteData(f.path, ops[k])]
                    r == HandleFile(mirror, f.path, sent)
                IN  /\ mirror' = r.tree
                    /\ refused' = (refused \/ ~r.ok)
                    /\ tables' = Deleted(tables, f.path)
                    /\ UNCHANGED phase
  /\ UNCHANGED <<src, log, sync, snap, done, tangled>>

Finish == /\ phase = "sending" /\ tables.files = <<>>
          /\ phase' = "idle"
          /\ tables' = EmptyTables
          /\ UNCHANGED <<src, log, sync, snap, mirror, done, refused, tangled>>

MNext == \/ Program
         \/ SwitchLog \/ TakeSnapshot \/ Load \/ Match \/ TransferFile \/ Finish

MSpec == MInit /\ [][MNext]_mvars

-----------------------------------------------------------------------------
(* Properties.                                                             *)

\* Everything has its type, and the phases their variables: an i-node number that
\* is set aside is one, and nothing is left of an epoch when it is over.
MTypeOK ==
  /\ src \in Trees /\ snap \in Trees /\ mirror \in Trees
  /\ phase \in {"idle", "switched", "loading", "sending", "crashed"}
  /\ done \in 0..MaxOps /\ refused \in BOOLEAN /\ tangled \in BOOLEAN
  /\ \A r \in Range(log) \union Range(sync) : r.path \in Paths
  /\ DOMAIN tables.inodes \subseteq Inodes
  /\ phase = "idle" => sync = <<>> /\ tables = EmptyTables

\* When everything that was recorded has been sent, the mirror is what the
\* source is, unless the operations were of the kinds that tangled tells.
Faithful == ~tangled /\ phase = "idle" /\ log = <<>> => Same(mirror, src)

\* The server never fails to do what it is told (and does not look).
AllApplied == ~tangled => ~refused

\* The client gets through the epoch.
NeverCrashes == ~tangled => phase # "crashed"

\* Every operation that was set aside has found a name.
AllMatched == ~tangled /\ phase = "sending" => DOMAIN tables.inodes = {}

\* Files with a place in the order have one of their own, also those set aside; a
\* removal is the first operation of its path and none was created before it.
TablesConsistent ==
  LET es == tables.files
  IN  phase = "loading" =>
        /\ \A k \in DOMAIN es : es[k].order < tables.order /\ es[k].ops # <<>>
        /\ \A j, k \in DOMAIN es : j # k =>
              /\ es[j].path # es[k].path
              /\ es[j].order = es[k].order => es[j].order = -1
        /\ \A k \in DOMAIN es : \A n \in DOMAIN es[k].ops :
              es[k].ops[n].type \in Removals => n = 1 /\ ~es[k].created
        /\ \A i \in DOMAIN tables.inodes : tables.inodes[i].ops # <<>>

\* Every byte written that is still in the file is sent, once, and something is
\* sent of every file: the server waits for a chunk of each.
WrittenOnce ==
  phase = "sending" => \A f \in Range(tables.files) :
    LET cuts == {f.ops[k].newsize : k \in {j \in DOMAIN f.ops : f.ops[j].type = "TRUNCATE"}}
    IN  \A ops \in OptimizeOperations(f.ops) :
          /\ ops # <<>>
          /\ \A j, k \in WritesOf(ops) :
                j # k => Span(ops[j]) \intersect Span(ops[k]) = {}
          /\ Spans(ops) \subseteq Spans(f.ops)
          /\ cuts = {} => Spans(ops) = Spans(f.ops)
          /\ Cardinality(DOMAIN ops \ WritesOf(ops))
               = Cardinality(DOMAIN f.ops \ WritesOf(f.ops))

\* A name is not taken away before the link or rename that was recorded before
\* it and needs it.
OrderKept ==
  LET es == tables.files
  IN  phase = "sending" => \A j, k \in DOMAIN es :
        \A m \in DOMAIN es[j].ops : \A n \in DOMAIN es[k].ops :
          LET o == es[j].ops[m]
              r == es[k].ops[n]
          IN  /\ o.type \in {"LINK", "RENAME"} /\ r.type = "UNLINK"
              /\ es[k].path = o.oldpath /\ o.id < r.id
              => es[j].order < es[k].order
=============================================================================
