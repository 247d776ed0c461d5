------------------------------- MODULE Compaction -------------------------------
(***************************************************************************)
(* What the client makes of a log: the entries by path and by i-node that  *)
(* addOperation() and matchInodefiles() of client.c build, and the order   *)
(* and the writes that optimizeOperations() of optimization.c leaves.      *)
(*                                                                         *)
(* An operation is a record whose "type" is that of GenericOperation.  The *)
(* hash table of entries is a sequence: uthash keeps the order in which    *)
(* entries were added.                                                     *)
(***************************************************************************)
EXTENDS FileTree, SequencesExt

Removals == {"UNLINK", "RMDIR"}
Creations == {"CREATE", "MKNOD", "MKDIR", "SYMLINK", "LINK"}

\* The numbers of the types, by which operations are sorted.
Types == <<"UNLINK", "RMDIR", "CREATE", "MKNOD", "MKDIR", "SYMLINK", "LINK", "CHMOD",
           "CHOWN", "SETXATTR", "REMOVEXATTR", "TRUNCATE", "WRITE", "RENAME">>
Rank(o) == CHOOSE k \in DOMAIN Types : Types[k] = o.type

NewEntry(p) == [path |-> p, order |-> -1, ops |-> <<>>, created |-> FALSE]

EmptyTables == [files |-> <<>>, inodes |-> <<>>, order |-> 0, id |-> 0,
                crashed |-> FALSE]

Has(tb, p) == \E k \in DOMAIN tb.files : tb.files[k].path = p
Entry(tb, p) == tb.files[CHOOSE k \in DOMAIN tb.files : tb.files[k].path = p]
Added(tb, e) == [tb EXCEPT !.files = Append(@, e)]
Deleted(tb, p) ==
  IF Has(tb, p)
  THEN [tb EXCEPT !.files = RemoveAt(@, CHOOSE k \in DOMAIN @ : @[k].path = p)] ELSE tb
Changed(tb, e) ==
  [tb EXCEPT !.files = [k \in DOMAIN @ |-> IF @[k].path = e.path THEN e ELSE @[k]]]

WithInode(tb, i, e) ==
  [tb EXCEPT !.inodes = [j \in DOMAIN @ \union {i} |-> IF j = i THEN e ELSE @[j]]]
WithoutInode(tb, i) == [tb EXCEPT !.inodes = [j \in DOMAIN @ \ {i} |-> @[j]]]

-----------------------------------------------------------------------------
(* addOperation().                                                         *)

Merge(dest, src) == [dest EXCEPT !.ops = @ \o src.ops]

Lower(m, n) == IF m < n THEN m ELSE n

\* A name is gone but not the file: the operations of the name are put aside
\* under the i-node, for a name that will be found for them later.
SetAside(tb, p, i) ==
  CASE Has(tb, p) /\ i \in DOMAIN tb.inodes ->
         LET f == Entry(tb, p)
             e == tb.inodes[i]
         IN  WithInode(tb, i, [Merge(e, f) EXCEPT !.order = Lower(f.order, e.order)])
    [] Has(tb, p) /\ i \notin DOMAIN tb.inodes ->
         WithInode(tb, i, [Entry(tb, p) EXCEPT !.created = FALSE])
    [] ~Has(tb, p) /\ i \in DOMAIN tb.inodes -> [tb EXCEPT !.crashed = TRUE]  \* f is NULL
    [] OTHER -> tb

\* Mutants.  A removal that is always recorded, also of what the epoch created;
\* one that leaves the i-node entry of a file that is gone; one that is added to
\* the entry like any other operation.
RemovalAlways(tb, p, o) ==
  LET kept == IF o.type = "UNLINK" /\ ~o.last_link THEN SetAside(tb, p, o.inode) ELSE tb
  IN  Added(Deleted(kept, p), [NewEntry(p) EXCEPT !.ops = <<o>>])

RemovalKeepsInode(tb, p, o) ==
  LET kept == IF o.type = "UNLINK" /\ ~o.last_link THEN SetAside(tb, p, o.inode) ELSE tb
  IN  IF Has(tb, p) /\ Entry(tb, p).created THEN Deleted(kept, p)
      ELSE Added(Deleted(kept, p), [NewEntry(p) EXCEPT !.ops = <<o>>])

RemovalAppended(tb, p, o) ==
  LET e == IF Has(tb, p) THEN Entry(tb, p) ELSE NewEntry(p)
      kept == IF o.type = "UNLINK" /\ ~o.last_link THEN SetAside(tb, p, o.inode) ELSE tb
  IN  Added(Deleted(kept, p), [e EXCEPT !.ops = Append(@, o)])

\* An unlink or rmdir replaces the entry of the path.  One that came first in
\* the epoch is kept instead, and none is needed for what the epoch created.
\* (created is read from the entry after it was freed: nothing has been
\* allocated since.)
AddRemoval(tb, p, o) ==
  LET kept == CASE o.type = "RMDIR" -> tb
                [] o.type = "UNLINK" /\ o.last_link -> WithoutInode(tb, o.inode)
                [] OTHER -> SetAside(tb, p, o.inode)
      Only(op) == Added(Deleted(kept, p), [NewEntry(p) EXCEPT !.ops = <<op>>])
      first == Entry(tb, p).ops[1]
  IN  IF Has(tb, p) /\ first.type \in Removals THEN Only(first)
      ELSE IF Has(tb, p) /\ Entry(tb, p).created THEN Deleted(kept, p)
      ELSE Only(o)

\* Mutant: the counter only goes up for a new path, not for one that had a
\* removal.
AddOtherReuses(tb, p, o) ==
  LET f == IF Has(tb, p) THEN Entry(tb, p)
           ELSE [NewEntry(p) EXCEPT !.created = o.type \in Creations]
      e == [f EXCEPT !.ops = Append(@, o), !.order = IF @ = -1 THEN tb.order ELSE @]
  IN  IF Has(tb, p) THEN Changed(tb, e) ELSE [Added(tb, e) EXCEPT !.order = @ + 1]

AddOther(tb, p, o) ==
  LET f == IF Has(tb, p) THEN Entry(tb, p)
           ELSE [NewEntry(p) EXCEPT !.created = o.type \in Creations]
      e == [f EXCEPT !.ops = Append(@, o), !.order = IF @ = -1 THEN tb.order ELSE @]
  IN  [(IF Has(tb, p) THEN Changed(tb, e) ELSE Added(tb, e))
        EXCEPT !.order = IF f.order = -1 THEN @ + 1 ELSE @]

AddOperation(tb, p, genop) ==
  LET o == [genop EXCEPT !.id = tb.id]
      t == [tb EXCEPT !.id = @ + 1]
  IN  CASE o.type \in Removals -> AddRemoval(t, p, o)
        [] o.type = "LINK" -> AddOther(t, o.newpath, o)
        [] OTHER -> AddOther(t, p, o)

-----------------------------------------------------------------------------
(* matchInodefiles(): names for the operations that were set aside, from   *)
(* the tree as it is in the snapshot.                                      *)

\* First the paths that have entries.  When stat() fails the variable keeps
\* the i-node of the path before, at the beginning whatever was in memory.
MatchEntries(tb, snap, memory) ==
  LET Visit(st, e) ==
        LET i == IF Stat(snap, e.path) = Nowhere THEN st.inode ELSE Stat(snap, e.path)
        IN  IF i \in DOMAIN st.tb.inodes
            THEN [tb |-> WithoutInode(Changed(st.tb, Merge(e, st.tb.inodes[i])), i),
                  inode |-> i]
            ELSE [st EXCEPT !.inode = i]
  IN  FoldLeft(Visit, [tb |-> tb, inode |-> memory], tb.files).tb

\* Then all paths, as the tree walk comes upon them.  The new entry keeps order
\* -1: fileorder is given to the one that is thrown away.
MatchWalk(tb, snap, walk) ==
  LET Visit(t, p) ==
        LET i == snap.names[p]
        IN  IF i \in DOMAIN t.inodes
            THEN [WithoutInode(Added(t, Merge(NewEntry(p), t.inodes[i])), i)
                    EXCEPT !.order = @ + 1]
            ELSE t
  IN  FoldLeft(Visit, tb, walk)

MatchInodefiles(tb, snap, memory, walk) ==
  MatchWalk(MatchEntries(tb, snap, memory), snap, walk)

\* The entry that is sent first: the order is that of the entries' own, and of
\* adding where that is the same, as sorting is stable.
First(files) ==
  files[CHOOSE k \in DOMAIN files :
          \A j \in DOMAIN files :
            \/ files[k].order < files[j].order
            \/ files[k].order = files[j].order /\ k <= j]

-----------------------------------------------------------------------------
(* optimizeOperations().                                                   *)

\* What is written.
Span(o) == {o.offset + k : k \in 0..o.size - 1}
WritesOf(ops) == {k \in DOMAIN ops : ops[k].type = "WRITE"}
Spans(ops) == UNION {Span(ops[k]) : k \in WritesOf(ops)}

\* Writes before the last truncate lose what lies behind its size.
Clipped(ops) ==
  LET Cuts == {k \in DOMAIN ops : ops[k].type = "TRUNCATE"}
      last == CHOOSE k \in Cuts : \A j \in Cuts : j <= k
      size == ops[last].newsize
      Early(k) == Cuts # {} /\ k < last /\ ops[k].type = "WRITE"
      Short(k) == IF Early(k) /\ ops[k].offset + ops[k].size > size
                  THEN [ops[k] EXCEPT !.size = size - ops[k].offset] ELSE ops[k]
      Kept(l, k) == IF Early(k) /\ ops[k].offset + ops[k].size > size
                       /\ ops[k].offset >= size
                    THEN l ELSE Append(l, Short(k))
  IN  FoldLeft(Kept, <<>>, [k \in DOMAIN ops |-> k])

\* Mutant: writes in the order they were made in.
InOrderById(x, y) == IF x.type # y.type THEN Rank(x) < Rank(y) ELSE x.id < y.id

\* What qsort() may make of them with cmpOperationType(): writes at the same
\* offset in any order.
InOrder(x, y) == IF x.type # y.type THEN Rank(x) < Rank(y)
                 ELSE IF x.type = "WRITE" THEN x.offset <= y.offset ELSE x.id < y.id

Sorted(ops) ==
  LET Fits(s, n, o) == /\ \A k \in 1..n : InOrder(s[k], o)
                       /\ \A k \in n + 1..Len(s) : InOrder(o, s[k])
      Insert(S, o) == UNION {{InsertAt(s, n + 1, o) : n \in {m \in 0..Len(s) : Fits(s, m, o)}} : s \in S}
  IN  FoldLeft(Insert, {<<>>}, ops)

\* Mutant: a write that overlaps the one before it is sent as it is.
DisjointNot(ops) ==
  LET Visit(st, o) ==
        LET end == o.offset + o.size
        IN  IF o.type # "WRITE" THEN [st EXCEPT !.ops = Append(@, o)]
            ELSE IF end <= st.max THEN st
            ELSE [ops |-> Append(st.ops, o), max |-> end]
  IN  FoldLeft(Visit, [ops |-> <<>>, max |-> 0], ops).ops

\* Every byte is sent once: a write only keeps what lies behind the ones
\* before it.
Disjoint(ops) ==
  LET Visit(st, o) ==
        LET end == o.offset + o.size
            from == IF o.offset < st.max THEN st.max ELSE o.offset
        IN  IF o.type # "WRITE" THEN [st EXCEPT !.ops = Append(@, o)]
            ELSE IF end <= st.max THEN st
            ELSE [ops |-> Append(st.ops, [o EXCEPT !.offset = from, !.size = end - from]),
                  max |-> end]
  IN  FoldLeft(Visit, [ops |-> <<>>, max |-> 0], ops).ops

OptimizeOperations(ops) == {Disjoint(s) : s \in Sorted(Clipped(ops))}
=============================================================================
