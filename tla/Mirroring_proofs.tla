---------------------------- MODULE Mirroring_proofs ----------------------------
(***************************************************************************)
(* What holds of the client's tables, of what it sends and of the trees,   *)
(* for any number of names, operations and bytes.                          *)
(***************************************************************************)
EXTENDS Mirroring, Compaction_proofs

-----------------------------------------------------------------------------
(* Trees.                                                                  *)

LEMMA NodeFacts ==
  ASSUME NEW kind \in Kinds, NEW mode \in Modes, NEW target \in Paths \union {Nowhere}
  PROVE  NewNode(kind, mode, target) \in Nodes
<1>1. <<>> \in Seq(Nat) /\ "root" \in Owners
  BY DEF Owners
<1> QED BY <1>1 DEF NewNode, Nodes

LEMMA BlankFacts == Blank \in Nodes
  BY NodeFacts DEF Blank, Kinds, Modes

\* Changes of names and of an i-node.
LEMMA NamesChange ==
  ASSUME NEW t \in Trees, NEW q \in Paths, NEW i \in Inodes \union {Nowhere}
  PROVE  /\ [t.names EXCEPT ![q] = i] \in [Paths -> Inodes \union {Nowhere}]
         /\ [t EXCEPT !.names[q] = i] \in Trees
<1>1. t.names \in [Paths -> Inodes \union {Nowhere}]
  BY DEF Trees
<1>2. [t.names EXCEPT ![q] = i] \in [Paths -> Inodes \union {Nowhere}]
  BY <1>1
<1> QED BY <1>2 DEF Trees

LEMMA NodeChange ==
  ASSUME NEW t \in Trees, NEW i \in Inodes, NEW node \in Nodes
  PROVE  /\ [t.nodes EXCEPT ![i] = node] \in [Inodes -> Nodes]
         /\ [t EXCEPT !.nodes[i] = node] \in Trees
<1>1. t.nodes \in [Inodes -> Nodes]
  BY DEF Trees
<1>2. [t.nodes EXCEPT ![i] = node] \in [Inodes -> Nodes]
  BY <1>1
<1> QED BY <1>2 DEF Trees

LEMMA TreeOf ==
  ASSUME NEW names \in [Paths -> Inodes \union {Nowhere}], NEW nodes \in [Inodes -> Nodes]
  PROVE  [names |-> names, nodes |-> nodes] \in Trees
  BY DEF Trees

LEMMA MakeFacts ==
  ASSUME NEW t \in Trees, NEW p \in Paths, NEW i, Vacant(t, p) => i \in Inodes,
         NEW node \in Nodes
  PROVE  Make(t, p, i, node).tree \in Trees
<1>1. CASE Vacant(t, p)
  BY <1>1, NamesChange, NodeChange, TreeOf DEF Make, Done
<1>2. CASE ~Vacant(t, p)
  BY <1>2 DEF Make, Refused
<1> QED BY <1>1, <1>2

LEMMA DropFacts ==
  ASSUME NEW t \in Trees, NEW p \in Paths
  PROVE  Drop(t, p) \in Trees
<1> DEFINE i == t.names[p]
           nodes == IF Links(t, i) = {p} THEN [t.nodes EXCEPT ![i] = Blank] ELSE t.nodes
<1>1. i \in Inodes \union {Nowhere} /\ t.nodes \in [Inodes -> Nodes]
  BY DEF Trees
<1>2. nodes \in [Inodes -> Nodes]
  BY <1>1, BlankFacts
<1>3. [t.names EXCEPT ![p] = Nowhere] \in [Paths -> Inodes \union {Nowhere}]
  BY NamesChange
<1>4. Drop(t, p) = [names |-> [t.names EXCEPT ![p] = Nowhere], nodes |-> nodes]
  BY DEF Drop
<1> HIDE DEF nodes
<1> QED BY <1>2, <1>3, <1>4, TreeOf

\* The calls on names.
LEMMA NameCalls ==
  ASSUME NEW t \in Trees, NEW p \in Paths, NEW q \in Paths
  PROVE  /\ Unlink(t, p).tree \in Trees /\ Rmdir(t, p).tree \in Trees
         /\ Link(t, p, q).tree \in Trees /\ Rename(t, p, q).tree \in Trees
<1> USE DEF Done, Refused
<1>1. Unlink(t, p).tree \in Trees /\ Rmdir(t, p).tree \in Trees
  BY DropFacts DEF Unlink, Rmdir
<1>2. t.names[p] \in Inodes \union {Nowhere}
  BY DEF Trees
<1>3. Link(t, p, q).tree \in Trees
  <2>1. [t EXCEPT !.names[q] = t.names[p]] \in Trees
    BY <1>2, NamesChange
  <2> QED BY <2>1 DEF Link
<1>4. Rename(t, p, q).tree \in Trees
  <2> DEFINE u == IF Exists(t, q) THEN Drop(t, q) ELSE t
             names == [u.names EXCEPT ![q] = t.names[p], ![p] = Nowhere]
  <2>1. u \in Trees
    BY DropFacts
  <2> HIDE DEF u
  <2>2. names \in [Paths -> Inodes \union {Nowhere}]
    BY <1>2, <2>1 DEF Trees
  <2> HIDE DEF names
  <2>3. [u EXCEPT !.names = names] \in Trees
    BY <2>1, <2>2 DEF Trees
  <2>4. Rename(t, p, q).tree \in {t, [u EXCEPT !.names = names]}
    BY DEF Rename, u, names
  <2> QED BY <2>3, <2>4
<1> QED BY <1>1, <1>3, <1>4

\* Contents.
LEMMA ContentFacts ==
  ASSUME NEW data \in Seq(Nat), NEW bytes \in Seq(Nat), NEW n \in Nat
  PROVE  Resized(data, n) \in Seq(Nat) /\ Overwritten(data, n, bytes) \in Seq(Nat)
<1>1. Resized(data, n) \in Seq(Nat)
  BY DEF Resized
<1>2. Overwritten(data, n, bytes) \in Seq(Nat)
  <2> DEFINE m == IF n + Len(bytes) > Len(data) THEN n + Len(bytes) ELSE Len(data)
             f(k) == IF k > n /\ k <= n + Len(bytes) THEN bytes[k - n]
                     ELSE IF k <= Len(data) THEN data[k] ELSE 0
  <2>1. m \in Nat
    OBVIOUS
  <2>2. \A k \in 1..m : f(k) \in Nat
    <3> TAKE k \in 1..m
    <3>1. CASE k > n /\ k <= n + Len(bytes)
      <4>1. k - n \in 1..Len(bytes)
        BY <3>1, <2>1
      <4>2. bytes[k - n] \in Nat
        BY <4>1
      <4> QED BY <3>1, <4>2
    <3>2. CASE ~(k > n /\ k <= n + Len(bytes))
      BY <3>2, <2>1
    <3> QED BY <3>1, <3>2
  <2>3. Overwritten(data, n, bytes) = [k \in 1..m |-> f(k)]
    BY DEF Overwritten
  <2> HIDE DEF m, f
  <2>4. [k \in 1..m |-> f(k)] \in Seq(Nat)
    BY <2>1, <2>2
  <2> QED BY <2>3, <2>4
<1> QED BY <1>1, <1>2

LEMMA PwriteFacts ==
  ASSUME NEW t \in Trees, NEW i \in Inodes, NEW bytes \in Seq(Nat), NEW n \in Nat
  PROVE  Pwrite(t, i, n, bytes) \in Trees
<1>1. t.nodes[i] \in Nodes /\ t.nodes[i].data \in Seq(Nat)
  BY DEF Trees, Nodes
<1> DEFINE d == Overwritten(t.nodes[i].data, n, bytes)
<1>2. d \in Seq(Nat)
  BY <1>1, ContentFacts
<1> HIDE DEF d
<1>3. [t.nodes[i] EXCEPT !.data = d] \in Nodes
  BY <1>1, <1>2 DEF Nodes
<1>4. Pwrite(t, i, n, bytes) = [t EXCEPT !.nodes[i] = [t.nodes[i] EXCEPT !.data = d]]
  BY DEF Pwrite, d
<1> QED BY <1>3, <1>4, NodeChange

\* The calls on contents and attributes.
LEMMA AttributeCalls ==
  ASSUME NEW t \in Trees, NEW p \in Paths
  PROVE  /\ \A n \in Nat : Truncate(t, p, n).tree \in Trees
         /\ \A m \in Modes : Chmod(t, p, m).tree \in Trees
         /\ \A w \in Owners : Chown(t, p, w).tree \in Trees
         /\ \A i, m : (Vacant(t, p) => i \in Inodes) /\ m \in Modes
               => Creat(t, p, i, m).tree \in Trees
<1> DEFINE q == Resolve(t, p)
           i == t.names[q]
           node == t.nodes[i]
<1>1. Exists(t, q) => i \in Inodes /\ node \in Nodes
  <2>1. Exists(t, q) => i \in Inodes
    BY ResolveFacts
  <2> QED BY <2>1 DEF Trees
<1>2. Is(t, q, "file") => Exists(t, q)
  BY DEF Is
<1>3. ASSUME NEW x \in Nodes, Exists(t, q) PROVE [t EXCEPT !.nodes[i] = x] \in Trees
  BY <1>1, <1>3, NodeChange
<1>4. ASSUME NEW n \in Nat PROVE Truncate(t, p, n).tree \in Trees
  <2>1. CASE Is(t, q, "file")
    <3> DEFINE d == Resized(node.data, n)
    <3>1. d \in Seq(Nat)
      BY <1>1, <1>2, <2>1, ContentFacts DEF Nodes
    <3>2. Truncate(t, p, n) = Done([t EXCEPT !.nodes[i] = [node EXCEPT !.data = d]])
      BY <2>1 DEF Truncate
    <3> HIDE DEF d
    <3>3. [node EXCEPT !.data = d] \in Nodes
      BY <1>1, <1>2, <2>1, <3>1 DEF Nodes
    <3> QED BY <1>2, <1>3, <2>1, <3>2, <3>3 DEF Done
  <2>2. CASE ~Is(t, q, "file")
    BY <2>2 DEF Truncate, Refused
  <2> QED BY <2>1, <2>2
<1>5. ASSUME NEW m \in Modes PROVE Chmod(t, p, m).tree \in Trees
  <2>1. CASE Exists(t, q)
    <3>1. Chmod(t, p, m) = Done([t EXCEPT !.nodes[i] = [node EXCEPT !.mode = m]])
      BY <2>1 DEF Chmod
    <3>2. [node EXCEPT !.mode = m] \in Nodes
      BY <1>1, <2>1 DEF Nodes
    <3> QED BY <1>3, <2>1, <3>1, <3>2 DEF Done
  <2>2. CASE ~Exists(t, q)
    BY <2>2 DEF Chmod, Refused
  <2> QED BY <2>1, <2>2
<1>6. ASSUME NEW w \in Owners PROVE Chown(t, p, w).tree \in Trees
  <2>1. CASE Exists(t, q)
    <3> DEFINE m == IF node.mode = "suid" /\ node.kind = "file" THEN "plain" ELSE node.mode
               x == [node EXCEPT !.owner = w, !.mode = m]
    <3>1. Chown(t, p, w) = Done([t EXCEPT !.nodes[i] = x])
      BY <2>1 DEF Chown, At
    <3>2. m \in Modes
      BY <1>1, <2>1 DEF Nodes, Modes
    <3> HIDE DEF m
    <3>3. x \in Nodes
      BY <1>1, <2>1, <3>2 DEF Nodes
    <3> HIDE DEF x
    <3> QED BY <1>3, <2>1, <3>1, <3>3 DEF Done
  <2>2. CASE ~Exists(t, q)
    BY <2>2 DEF Chown, Refused
  <2> QED BY <2>1, <2>2
<1>7. ASSUME NEW j, NEW m \in Modes, Vacant(t, p) => j \in Inodes
      PROVE  Creat(t, p, j, m).tree \in Trees
  <2>1. CASE Is(t, q, "file")
    <3>1. <<>> \in Seq(Nat)
      OBVIOUS
    <3>2. [node EXCEPT !.data = <<>>] \in Nodes
      BY <1>1, <1>2, <2>1, <3>1 DEF Nodes
    <3>3. Creat(t, p, j, m) = Done([t EXCEPT !.nodes[i] = [node EXCEPT !.data = <<>>]])
      BY <2>1 DEF Creat
    <3> QED BY <1>2, <1>3, <2>1, <3>2, <3>3 DEF Done
  <2>2. CASE ~Is(t, q, "file")
    <3>1. Creat(t, p, j, m) = Make(t, p, j, NewNode("file", m, Nowhere))
      BY <2>2 DEF Creat
    <3> QED BY <1>7, <3>1, MakeFacts, NodeFacts DEF Kinds
  <2> QED BY <2>1, <2>2
<1> QED BY <1>4, <1>5, <1>6, <1>7

-----------------------------------------------------------------------------
(* The records of the log.                                                 *)

LEMMA RecordFacts ==
  ASSUME NEW p \in Paths
  PROVE  /\ \A m \in Modes : /\ LogCreate(p, m) \in Recs /\ LogMknod(p, m, 0) \in Recs
                             /\ LogMkdir(p, m) \in Recs /\ LogChmod(p, m) \in Recs
         /\ \A q \in Paths : LogSymlink(p, q) \in Recs /\ LogLink(p, q) \in Recs
         /\ \A n \in Nat, size \in Nat \ {0} : LogWrite(p, size, n) \in Recs
         /\ \A n \in Nat : LogTruncate(p, n) \in Recs
         /\ \A w \in Owners : LogChown(p, w) \in Recs
         /\ LogRmdir(p) \in Recs
         /\ \A links \in Nat, ino \in Inodes \union {0} : (links > 1 => ino \in Inodes) =>
              /\ LogUnlink(p, links, ino) \in Recs
              /\ \A q \in Paths : LogRename(p, q, links, ino) \in Recs
<1>1. ASSUME NEW o \in Ops PROVE Logged(p, o) \in Recs
  BY DEF Logged, Recs
<1>2. ASSUME NEW m \in Modes
      PROVE  LogCreate(p, m) \in Recs /\ LogMkdir(p, m) \in Recs /\ LogChmod(p, m) \in Recs
  BY <1>1 DEF LogCreate, LogMkdir, LogChmod, ModeOps, Ops
<1>3. ASSUME NEW m \in Modes PROVE LogMknod(p, m, 0) \in Recs
  BY <1>1 DEF LogMknod, MknodOps, Ops
<1>4. ASSUME NEW q \in Paths PROVE LogSymlink(p, q) \in Recs /\ LogLink(p, q) \in Recs
  BY <1>1 DEF LogSymlink, LogLink, SymlinkOps, LinkOps, Ops
<1>5. ASSUME NEW n \in Nat, NEW size \in Nat \ {0} PROVE LogWrite(p, size, n) \in Recs
  <2>1. <<>> \in Seq(Nat)
    OBVIOUS
  <2> QED BY <1>1, <2>1 DEF LogWrite, WriteOps, Ops
<1>6. ASSUME NEW links \in Nat, NEW ino \in Inodes \union {0}, links > 1 => ino \in Inodes
      PROVE  /\ LogUnlink(p, links, ino) \in Recs
             /\ \A q \in Paths : LogRename(p, q, links, ino) \in Recs
  <2>1. LogUnlink(p, links, ino) \in Recs
    BY <1>1, <1>6 DEF LogUnlink, UnlinkOps, Ops
  <2>2. ASSUME NEW q \in Paths PROVE LogRename(p, q, links, ino) \in Recs
    BY <1>1 DEF LogRename, RenameOps, Ops
  <2> QED BY <2>1, <2>2
<1>7. ASSUME NEW n \in Nat PROVE LogTruncate(p, n) \in Recs
  BY <1>1 DEF LogTruncate, TruncateOps, Ops
<1>8. ASSUME NEW w \in Owners PROVE LogChown(p, w) \in Recs
  BY <1>1 DEF LogChown, ChownOps, Ops
<1>9. LogRmdir(p) \in Recs
  BY <1>1 DEF LogRmdir, RmdirOps, Ops
<1> QED BY <1>2, <1>3, <1>4, <1>5, <1>6, <1>7, <1>8, <1>9

\* What stat() says before a name goes.
LEMMA BeforeFacts ==
  ASSUME src \in Trees, NEW p \in Paths
  PROVE  /\ Before(p).nlink \in Nat /\ Before(p).ino \in Inodes \union {0}
         /\ Before(p).nlink > 1 => Before(p).ino \in Inodes
<1>1. Stat(src, p) \in Inodes \union {Nowhere}
  BY ResolveFacts
<1>2. ASSUME NEW i PROVE Cardinality(Links(src, i)) \in Nat
  <2>1. Links(src, i) \subseteq Paths
    BY DEF Links
  <2> QED BY <2>1, MirroringAssumption, FS_Subset, FS_CardinalityType
<1> QED BY <1>1, <1>2, TreeAssumption DEF Before

-----------------------------------------------------------------------------
(* What the epoch's records say of the tree, for the matching of what is   *)
(* set aside.                                                              *)

\* A removal of one of several names, which sets aside, and of the last one of i.
OneOfSeveral(r) == r.op.type = "UNLINK" /\ ~r.op.last_link
LastOf(r, i) == r.op.type = "UNLINK" /\ r.op.last_link /\ r.op.inode = i

\* A file that has a name.
Named(t, i) == \E p \in Paths : t.names[p] = i /\ t.nodes[i].kind = "file"

\* What a call does to names and kinds when it takes none away.
Grows(t, u) ==
  \A p \in Paths : t.names[p] # Nowhere =>
    /\ u.names[p] = t.names[p]
    /\ u.nodes[t.names[p]].kind = t.nodes[t.names[p]].kind

\* What a record tells of the names and files that are gone after it.
Effect(t, u, r) ==
  /\ \A p \in Paths : Is(t, p, "file") /\ ~Is(u, p, "file") =>
       r.op.type \in {"UNLINK", "RENAME"} /\ p \in Own(r)
  /\ \A i \in Inodes : Named(t, i) /\ ~Named(u, i) =>
       /\ \E p \in Own(r) : t.names[p] = i
       /\ LastOf(r, i) \/ r.op.type = "RENAME"
  /\ OneOfSeveral(r) => t.names[r.path] = r.op.inode /\ Named(u, r.op.inode)
  /\ r.op.type = "WRITE" => Is(u, r.path, "file")

\* Nothing is gone then, and a record of any other type than UNLINK tells it right.
LEMMA GrowsFacts ==
  ASSUME NEW t \in Trees, NEW u, Grows(t, u)
  PROVE  /\ \A p \in Paths : Is(t, p, "file") => Is(u, p, "file")
         /\ \A i \in Inodes : Named(t, i) => Named(u, i)
<1>1. \A i \in Inodes : i # Nowhere
  BY TreeAssumption
<1> QED BY <1>1 DEF Grows, Is, Exists, At, Named

LEMMA GrowsEffect ==
  ASSUME NEW t \in Trees, NEW u, Grows(t, u), NEW r, r.op.type # "UNLINK",
         r.op.type = "WRITE" => r.path \in Paths /\ Is(t, r.path, "file")
  PROVE  Effect(t, u, r)
  BY GrowsFacts DEF Effect, OneOfSeveral

\* Calls that take no name away.
LEMMA MakeGrows ==
  ASSUME NEW t \in Trees, NEW p \in Paths, NEW i \in Free(t), NEW node
  PROVE  Grows(t, Make(t, p, i, node).tree)
<1>1. t.names \in [Paths -> Inodes \union {Nowhere}] /\ t.nodes \in [Inodes -> Nodes]
  BY DEF Trees
<1>2. \A q \in Paths : t.names[q] # i
  BY DEF Free, Links
<1>3. CASE Vacant(t, p)
  <2>1. t.names[p] = Nowhere
    BY <1>3, TreeAssumption DEF Vacant, Exists
  <2> QED BY <1>1, <1>2, <1>3, <2>1 DEF Make, Done, Grows
<1>4. CASE ~Vacant(t, p)
  BY <1>4 DEF Make, Refused, Grows
<1> QED BY <1>3, <1>4

\* Changes of an i-node that leave its kind.
LEMMA NodeGrows ==
  ASSUME NEW t \in Trees, NEW i, NEW node, i \in Inodes => node.kind = t.nodes[i].kind
  PROVE  Grows(t, [t EXCEPT !.nodes[i] = node])
<1> DEFINE u == [t EXCEPT !.nodes[i] = node]
<1>1. t.names \in [Paths -> Inodes \union {Nowhere}] /\ t.nodes \in [Inodes -> Nodes]
  BY DEF Trees
<1>2. u.names = t.names /\ u.nodes = [t.nodes EXCEPT ![i] = node]
  BY DEF Trees
<1> HIDE DEF u
<1>3. \A j \in Inodes : u.nodes[j].kind = t.nodes[j].kind
  BY <1>1, <1>2
<1>4. Grows(t, u)
  BY <1>1, <1>2, <1>3 DEF Grows
<1> QED BY <1>4 DEF u

LEMMA LinkGrows ==
  ASSUME NEW t \in Trees, NEW p \in Paths, NEW q \in Paths
  PROVE  Grows(t, Link(t, p, q).tree)
<1>1. t.names \in [Paths -> Inodes \union {Nowhere}]
  BY DEF Trees
<1>2. CASE Vacant(t, q)
  <2>1. t.names[q] = Nowhere
    BY <1>2, TreeAssumption DEF Vacant, Exists
  <2>2. [t EXCEPT !.names[q] = t.names[p]].names = [t.names EXCEPT ![q] = t.names[p]]
        /\ [t EXCEPT !.names[q] = t.names[p]].nodes = t.nodes
    BY DEF Trees
  <2>3. Grows(t, [t EXCEPT !.names[q] = t.names[p]])
    BY <1>1, <2>1, <2>2 DEF Grows
  <2>4. Grows(t, t)
    BY DEF Grows
  <2> QED BY <2>3, <2>4 DEF Link, Done, Refused
<1>3. CASE ~Vacant(t, q)
  BY <1>3 DEF Link, Refused, Grows
<1> QED BY <1>2, <1>3

LEMMA AttributesGrow ==
  ASSUME NEW t \in Trees, NEW p \in Paths
  PROVE  /\ \A n \in Nat : Grows(t, Truncate(t, p, n).tree)
         /\ \A m \in Modes : Grows(t, Chmod(t, p, m).tree)
         /\ \A w \in Owners : Grows(t, Chown(t, p, w).tree)
         /\ \A i \in Free(t), m \in Modes : Grows(t, Creat(t, p, i, m).tree)
         /\ \A i \in Inodes : \A n, bytes : Grows(t, Pwrite(t, i, n, bytes))
<1> DEFINE q == Resolve(t, p)
           i == t.names[q]
           node == t.nodes[i]
<1>1. \A j \in Inodes : t.nodes[j] \in Nodes
  BY DEF Trees
<1>2. Grows(t, t)
  BY DEF Grows
<1>3. ASSUME NEW x, i \in Inodes => x.kind = node.kind PROVE Grows(t, [t EXCEPT !.nodes[i] = x])
  <2> HIDE DEF i, node
  <2> QED BY <1>3, NodeGrows DEF node
<1>4. ASSUME NEW n \in Nat PROVE Grows(t, Truncate(t, p, n).tree)
  <2> DEFINE x == [node EXCEPT !.data = Resized(node.data, n)]
  <2>1. Truncate(t, p, n).tree \in {t, [t EXCEPT !.nodes[i] = x]}
    BY DEF Truncate, Done, Refused
  <2>2. i \in Inodes => x.kind = node.kind
    BY <1>1 DEF Nodes
  <2> HIDE DEF x, i, node
  <2> QED BY <1>2, <1>3, <2>1, <2>2
<1>5. ASSUME NEW m \in Modes PROVE Grows(t, Chmod(t, p, m).tree)
  <2> DEFINE x == [node EXCEPT !.mode = m]
  <2>1. Chmod(t, p, m).tree \in {t, [t EXCEPT !.nodes[i] = x]}
    BY DEF Chmod, Done, Refused
  <2>2. i \in Inodes => x.kind = node.kind
    BY <1>1 DEF Nodes
  <2> HIDE DEF x, i, node
  <2> QED BY <1>2, <1>3, <2>1, <2>2
<1>6. ASSUME NEW w \in Owners PROVE Grows(t, Chown(t, p, w).tree)
  <2> DEFINE m == IF node.mode = "suid" /\ node.kind = "file" THEN "plain" ELSE node.mode
             x == [node EXCEPT !.owner = w, !.mode = m]
  <2>1. Chown(t, p, w).tree \in {t, [t EXCEPT !.nodes[i] = x]}
    BY DEF Chown, Done, Refused, At
  <2> HIDE DEF m
  <2>2. i \in Inodes => x.kind = node.kind
    BY <1>1 DEF Nodes
  <2> HIDE DEF x, i, node
  <2> QED BY <1>2, <1>3, <2>1, <2>2
<1>7. ASSUME NEW j \in Free(t), NEW m \in Modes PROVE Grows(t, Creat(t, p, j, m).tree)
  <2> DEFINE x == [node EXCEPT !.data = <<>>]
             new == NewNode("file", m, Nowhere)
  <2>1. Creat(t, p, j, m).tree \in {Make(t, p, j, new).tree, [t EXCEPT !.nodes[i] = x]}
    BY DEF Creat, Done
  <2>2. i \in Inodes => x.kind = node.kind
    BY <1>1 DEF Nodes
  <2> HIDE DEF x, i, node, new
  <2>3. Grows(t, Make(t, p, j, new).tree)
    BY MakeGrows
  <2> QED BY <1>3, <2>1, <2>2, <2>3
<1>8. ASSUME NEW j \in Inodes, NEW n, NEW bytes PROVE Grows(t, Pwrite(t, j, n, bytes))
  <2> DEFINE d == Overwritten(t.nodes[j].data, n, bytes)
             x == [t.nodes[j] EXCEPT !.data = d]
  <2>1. Pwrite(t, j, n, bytes) = [t EXCEPT !.nodes[j] = x]
    BY DEF Pwrite
  <2> HIDE DEF d
  <2>2. x.kind = t.nodes[j].kind
    BY <1>1 DEF Nodes
  <2> HIDE DEF x
  <2> QED BY <2>1, <2>2, NodeGrows
<1> QED BY <1>4, <1>5, <1>6, <1>7, <1>8

\* What is left when a name goes.
LEMMA DropLeaves ==
  ASSUME NEW t \in Trees, NEW p \in Paths
  PROVE  LET u == Drop(t, p)
         IN  /\ u.names = [t.names EXCEPT ![p] = Nowhere]
             /\ \A q \in Paths : q # p => /\ u.names[q] = t.names[q]
                                          /\ u.nodes[t.names[q]] = t.nodes[t.names[q]]
<1> DEFINE i == t.names[p]
           u == Drop(t, p)
<1>1. t.names \in [Paths -> Inodes \union {Nowhere}] /\ t.nodes \in [Inodes -> Nodes]
  BY DEF Trees
<1>2. /\ u.names = [t.names EXCEPT ![p] = Nowhere]
      /\ u.nodes = IF Links(t, i) = {p} THEN [t.nodes EXCEPT ![i] = Blank] ELSE t.nodes
  BY DEF Drop
<1> HIDE DEF u
<1>3. ASSUME NEW q \in Paths, q # p
      PROVE  u.names[q] = t.names[q] /\ u.nodes[t.names[q]] = t.nodes[t.names[q]]
  <2>1. Links(t, i) = {p} => t.names[q] # i
    BY <1>3 DEF Links
  <2> HIDE DEF i
  <2> QED BY <1>1, <1>2, <1>3, <2>1
<1> QED BY <1>2, <1>3 DEF u

\* A file that has another name keeps it.
LEMMA DropNamed ==
  ASSUME NEW t \in Trees, NEW p \in Paths, NEW i, NEW q \in Paths, q # p, t.names[q] = i
  PROVE  /\ t.nodes[i].kind = "file" => Named(Drop(t, p), i)
         /\ Is(t, q, "file") => Is(Drop(t, p), q, "file")
<1> DEFINE u == Drop(t, p)
<1>1. u.names[q] = i /\ u.nodes[i] = t.nodes[i]
  BY DropLeaves
<1> HIDE DEF u
<1>2. t.nodes[i].kind = "file" => Named(u, i)
  BY <1>1 DEF Named
<1>3. Is(t, q, "file") => Is(u, q, "file")
  BY <1>1 DEF Is, At, Exists
<1> QED BY <1>2, <1>3 DEF u

\* What the calls that take a name away do is told by their records, unless unlink()
\* was mistaken about the file.
LEMMA RmdirEffect ==
  ASSUME NEW t \in Trees, NEW p \in Paths
  PROVE  Effect(t, Rmdir(t, p).tree, LogRmdir(p))
<1> DEFINE r == LogRmdir(p)
<1>1. r.op.type = "RMDIR"
  BY DEF LogRmdir, Logged
<1> HIDE DEF r
<1>2. CASE Is(t, p, "dir") /\ ~Populated(t, p)
  <2> DEFINE u == Drop(t, p)
  <2>1. Rmdir(t, p).tree = u
    BY <1>2 DEF Rmdir, Done
  <2>2. t.nodes[t.names[p]].kind # "file" /\ ~Is(t, p, "file")
    BY <1>2 DEF Is, At
  <2>3. \A q \in Paths : Is(t, q, "file") => Is(u, q, "file")
    <3> HIDE DEF u
    <3> QED BY <2>2, DropNamed DEF u
  <2>4. \A i \in Inodes : Named(t, i) => Named(u, i)
    <3> TAKE i \in Inodes
    <3> HAVE Named(t, i)
    <3>1. PICK q \in Paths : t.names[q] = i /\ t.nodes[i].kind = "file"
      BY DEF Named
    <3>2. q # p
      BY <2>2, <3>1
    <3> QED BY <3>1, <3>2, DropNamed
  <2> HIDE DEF u
  <2>5. Effect(t, u, r)
    BY <1>1, <2>3, <2>4 DEF Effect, OneOfSeveral
  <2> QED BY <2>1, <2>5 DEF r
<1>3. CASE ~(Is(t, p, "dir") /\ ~Populated(t, p))
  <2>1. Rmdir(t, p).tree = t
    BY <1>3 DEF Rmdir, Refused
  <2>2. Effect(t, t, r)
    BY <1>1 DEF Effect, OneOfSeveral
  <2> QED BY <2>1, <2>2 DEF r
<1> QED BY <1>2, <1>3

LEMMA RenameEffect ==
  ASSUME NEW t \in Trees, NEW p \in Paths, NEW q \in Paths, NEW nlink, NEW inode
  PROVE  Effect(t, Rename(t, p, q).tree, LogRename(p, q, nlink, inode))
<1> DEFINE r == LogRename(p, q, nlink, inode)
           u == Rename(t, p, q).tree
           v == IF Exists(t, q) THEN Drop(t, q) ELSE t
<1>1. r.op.type = "RENAME" /\ Own(r) = {p, q}
  BY DEF LogRename, Logged, Own
<1> HIDE DEF r
<1>2. \A x \in Paths \ {p, q} : /\ u.names[x] = t.names[x]
                                /\ u.nodes[t.names[x]] = t.nodes[t.names[x]]
  <2> TAKE x \in Paths \ {p, q}
  <2>1. v \in Trees /\ v.names[x] = t.names[x] /\ v.nodes[t.names[x]] = t.nodes[t.names[x]]
    <3>1. CASE v = t
      BY <3>1
    <3>2. CASE v = Drop(t, q)
      <4>1. x # q
        OBVIOUS
      <4> HIDE DEF v
      <4> QED BY <3>2, <4>1, DropLeaves, DropFacts
    <3> QED BY <3>1, <3>2
  <2> HIDE DEF v
  <2> DEFINE names == [v.names EXCEPT ![q] = t.names[p], ![p] = Nowhere]
             w == [v EXCEPT !.names = names]
  <2>2. names[x] = v.names[x]
    BY <2>1 DEF Trees
  <2> HIDE DEF names
  <2>3. w.names[x] = v.names[x] /\ w.nodes = v.nodes
    BY <2>1, <2>2 DEF Trees
  <2>4. u = t \/ u = w
    BY DEF Rename, Done, Refused, v, names
  <2> HIDE DEF w, u
  <2> QED BY <2>1, <2>3, <2>4
<1> HIDE DEF u, v
<1>3. \A x \in Paths : Is(t, x, "file") /\ ~Is(u, x, "file") => x \in Own(r)
  BY <1>1, <1>2 DEF Is, Exists, At
<1>4. \A i \in Inodes : Named(t, i) /\ ~Named(u, i) => \E x \in Own(r) : t.names[x] = i
  BY <1>1, <1>2 DEF Named
<1>5. Effect(t, u, r)
  BY <1>1, <1>3, <1>4 DEF Effect, OneOfSeveral
<1> QED BY <1>5 DEF u, r

\* What stat() said before the removal: of a name that is no symbolic link it is true.
LEMMA UnlinkEffect ==
  ASSUME src \in Trees, NEW p \in Paths, Unlink(src, p).ok,
         ~Mistaken(LogUnlink(p, Before(p).nlink, Before(p).ino))
  PROVE  Effect(src, Unlink(src, p).tree, LogUnlink(p, Before(p).nlink, Before(p).ino))
<1> DEFINE r == LogUnlink(p, Before(p).nlink, Before(p).ino)
           u == Unlink(src, p).tree
           i == src.names[p]
<1>1. Exists(src, p) /\ ~Is(src, p, "dir") /\ u = Drop(src, p)
  BY DEF Unlink, Done, Refused
<1>2. /\ r.op.type = "UNLINK" /\ r.path = p /\ Own(r) = {p}
      /\ r.op.inode = Before(p).ino /\ r.op.last_link = ~(Before(p).nlink > 1)
  BY DEF LogUnlink, Logged, Own
<1>3. i \in Inodes /\ src.nodes[i].kind \in Kinds
  BY <1>1, ResolveFacts DEF Trees, Nodes
<1>4. p \in Links(src, i) /\ Links(src, i) \subseteq Paths /\ IsFiniteSet(Links(src, i))
  <2>1. Links(src, i) \subseteq Paths
    BY DEF Links
  <2> QED BY <2>1, MirroringAssumption, FS_Subset DEF Links
<1>5. ~Is(src, p, "symlink") => /\ src.nodes[i].kind = "file"
                                /\ r.op.inode = i
                                /\ r.op.last_link = ~(Cardinality(Links(src, i)) > 1)
  <2> HAVE ~Is(src, p, "symlink")
  <2>1. Stat(src, p) = i
    BY <1>1 DEF Stat, Resolve
  <2>2. i # Nowhere
    BY <1>3, TreeAssumption
  <2>3. src.nodes[i].kind = "file"
    BY <1>1, <1>3 DEF Is, At, Kinds
  <2>4. Before(p).ino = i /\ Before(p).nlink = Cardinality(Links(src, i))
    BY <2>1, <2>2 DEF Before
  <2> QED BY <1>2, <2>3, <2>4
<1>6. OneOfSeveral(r) => ~Is(src, p, "symlink")
  BY <1>2 DEF OneOfSeveral, Mistaken, r
<1> HIDE DEF r, u
<1>7. \A x \in Paths : Is(src, x, "file") /\ ~Is(u, x, "file") => x \in Own(r)
  BY <1>1, <1>2, DropNamed
<1>8. ASSUME NEW j \in Inodes, Named(src, j), ~Named(u, j)
      PROVE  (\E x \in Own(r) : src.names[x] = j) /\ LastOf(r, j)
  <2>1. \A x \in Paths : src.names[x] = j => x = p
    BY <1>1, <1>8, DropNamed DEF Named
  <2>2. i = j /\ src.nodes[j].kind = "file"
    BY <1>8, <2>1 DEF Named
  <2>3. ~Is(src, p, "symlink")
    BY <2>2 DEF Is, At
  <2>4. Links(src, i) = {p}
    BY <1>4, <2>1, <2>2 DEF Links
  <2>5. Cardinality({p}) = 1
    BY FS_Singleton
  <2>6. ~(Cardinality(Links(src, i)) > 1)
    BY <2>4, <2>5
  <2> HIDE DEF i
  <2> QED BY <1>2, <1>5, <2>2, <2>3, <2>6 DEF LastOf, i
<1>9. ASSUME OneOfSeveral(r) PROVE src.names[r.path] = r.op.inode /\ Named(u, r.op.inode)
  <2>1. src.nodes[i].kind = "file" /\ r.op.inode = i /\ Cardinality(Links(src, i)) > 1
    BY <1>5, <1>6, <1>9 DEF OneOfSeveral
  <2>2. Links(src, i) # {p}
    <3>1. Cardinality({p}) = 1
      BY FS_Singleton
    <3> HIDE DEF i
    <3> QED BY <2>1, <3>1
  <2>3. PICK q \in Paths : q # p /\ src.names[q] = i
    BY <1>4, <2>2 DEF Links
  <2> QED BY <1>1, <1>2, <2>1, <2>3, DropNamed
<1>10. Effect(src, u, r)
  BY <1>2, <1>7, <1>8, <1>9 DEF Effect
<1> QED BY <1>10 DEF u, r

-----------------------------------------------------------------------------
(* The programs.                                                           *)

\* What a call that succeeds leaves.
LEMMA ExecuteKeeps ==
  ASSUME src \in Trees, log \in Seq(Recs), tangled \in BOOLEAN, done \in 0..MaxOps,
         done < MaxOps, NEW call, call.tree \in Trees, NEW r \in Recs, Execute(call, r)
  PROVE  /\ src' \in Trees /\ log' \in Seq(Recs) /\ tangled' \in BOOLEAN
         /\ done' \in 0..MaxOps
<1>1. tangled' \in BOOLEAN
  BY DEF Execute, LogGeneric, Tangles, OtherName, Mistaken, Late
<1> QED BY <1>1, MirroringAssumption DEF Execute, LogGeneric

\* The types of the records.
LEMMA RecordTypes ==
  ASSUME NEW p, NEW q, NEW m, NEW n, NEW k
  PROVE  /\ LogCreate(p, m).op.type = "CREATE" /\ LogMknod(p, m, n).op.type = "MKNOD"
         /\ LogMkdir(p, m).op.type = "MKDIR" /\ LogSymlink(p, q).op.type = "SYMLINK"
         /\ LogLink(p, q).op.type = "LINK" /\ LogTruncate(p, n).op.type = "TRUNCATE"
         /\ LogChmod(p, m).op.type = "CHMOD" /\ LogChown(p, m).op.type = "CHOWN"
         /\ LogWrite(p, n, k).op.type = "WRITE" /\ LogWrite(p, n, k).path = p
  BY DEF LogCreate, LogMknod, LogMkdir, LogSymlink, LogLink, LogTruncate, LogChmod,
         LogChown, LogWrite, Logged

\* What a call that succeeds leaves, and the record of it.
Recorded(call, r) ==
  /\ Execute(call, r) /\ call.tree \in Trees /\ r \in Recs
  /\ ~Mistaken(r) => Effect(src, call.tree, r)

\* Every operation of a program is a call with its record.
LEMMA ProgramExecutes ==
  ASSUME src \in Trees, done \in 0..MaxOps, Program
  PROVE  done < MaxOps /\ \E call, r : Recorded(call, r)
<1> DEFINE Goal == \E call, r : Recorded(call, r)
<1>0. done < MaxOps /\ Bytes \in Nat
  BY MirroringAssumption DEF Program, Running
<1> SUFFICES Goal
  BY <1>0
<1>1. ASSUME NEW call, call.tree \in Trees, NEW r \in Recs, Execute(call, r),
             ~Mistaken(r) => Effect(src, call.tree, r)
      PROVE  Goal
  BY <1>1 DEF Recorded
<1>2. PICK p \in Paths :
        \/ Create(p) \/ Mknod(p) \/ Mkdir(p) \/ UnlinkFile(p) \/ RmdirAt(p)
        \/ \E q \in Paths : Symlink(p, q) \/ LinkTo(p, q) \/ RenameTo(p, q)
        \/ \E off \in 0..Bytes, n \in 1..Bytes : Write(p, off, n)
        \/ \E n \in 0..Bytes : TruncateTo(p, n)
        \/ \E m \in Modes : ChmodTo(p, m)
        \/ \E w \in Owners : ChownTo(p, w)
  BY DEF Program
<1>a. "plain" \in Modes /\ \A kind \in Kinds, target \in Paths \union {Nowhere} :
        NewNode(kind, "plain", target) \in Nodes
  BY NodeFacts DEF Modes
<1>b. ASSUME NEW kind \in Kinds, NEW target \in Paths \union {Nowhere}, NEW i \in Free(src)
      PROVE  LET u == Make(src, p, i, NewNode(kind, "plain", target)).tree
             IN  u \in Trees /\ Grows(src, u)
  <2>1. Free(src) \subseteq Inodes
    BY DEF Free
  <2> QED BY <1>a, <2>1, MakeFacts, MakeGrows
<1> HIDE DEF Goal
<1>3. CASE Create(p)
  <2>1. PICK i \in Free(src), m \in Modes : Execute(Creat(src, p, i, m), LogCreate(p, m))
    BY <1>3 DEF Create
  <2>2. Creat(src, p, i, m).tree \in Trees
    BY AttributeCalls DEF Free
  <2>3. LogCreate(p, m) \in Recs
    BY <1>a, RecordFacts
  <2>4. Effect(src, Creat(src, p, i, m).tree, LogCreate(p, m))
    BY AttributesGrow, RecordTypes, GrowsEffect
  <2> QED BY <1>1, <2>1, <2>2, <2>3, <2>4
<1>4. CASE Mknod(p)
  <2> DEFINE call(i) == Make(src, p, i, NewNode("file", "plain", Nowhere))
             r == LogMknod(p, "plain", 0)
  <2>1. PICK i \in Free(src) : Execute(call(i), r)
    BY <1>4 DEF Mknod
  <2>2. r \in Recs /\ r.op.type = "MKNOD"
    <3>1. r \in Recs
      BY <1>a, RecordFacts
    <3> QED BY <3>1 DEF LogMknod, Logged
  <2>3. call(i).tree \in Trees /\ Grows(src, call(i).tree)
    BY <1>b DEF Kinds
  <2> HIDE DEF call, r
  <2>4. Effect(src, call(i).tree, r)
    BY <2>2, <2>3, GrowsEffect
  <2> QED BY <1>1, <2>1, <2>2, <2>3, <2>4
<1>5. CASE Mkdir(p)
  <2> DEFINE call(i) == Make(src, p, i, NewNode("dir", "plain", Nowhere))
             r == LogMkdir(p, "plain")
  <2>1. PICK i \in Free(src) : Execute(call(i), r)
    BY <1>5 DEF Mkdir
  <2>2. r \in Recs /\ r.op.type = "MKDIR"
    <3>1. r \in Recs
      BY <1>a, RecordFacts
    <3> QED BY <3>1 DEF LogMkdir, Logged
  <2>3. call(i).tree \in Trees /\ Grows(src, call(i).tree)
    BY <1>b DEF Kinds
  <2> HIDE DEF call, r
  <2>4. Effect(src, call(i).tree, r)
    BY <2>2, <2>3, GrowsEffect
  <2> QED BY <1>1, <2>1, <2>2, <2>3, <2>4
<1>6. CASE UnlinkFile(p)
  <2> DEFINE call == Unlink(src, p)
             r == LogUnlink(p, Before(p).nlink, Before(p).ino)
  <2>1. Execute(call, r) /\ call.ok
    BY <1>6 DEF UnlinkFile, Execute
  <2>2. r \in Recs
    BY BeforeFacts, RecordFacts
  <2>3. call.tree \in Trees
    BY NameCalls
  <2>4. ~Mistaken(r) => Effect(src, call.tree, r)
    BY <2>1, UnlinkEffect
  <2> QED BY <1>1, <2>1, <2>2, <2>3, <2>4
<1>7. CASE RmdirAt(p)
  <2>1. LogRmdir(p) \in Recs
    BY <1>a, RecordFacts
  <2> QED BY <1>1, <1>7, <2>1, NameCalls, RmdirEffect DEF RmdirAt
<1>8. ASSUME NEW q \in Paths, Symlink(p, q) PROVE Goal
  <2> DEFINE call(i) == Make(src, p, i, NewNode("symlink", "plain", q))
             r == LogSymlink(p, q)
  <2>1. PICK i \in Free(src) : Execute(call(i), r)
    BY <1>8 DEF Symlink
  <2>2. r \in Recs /\ r.op.type = "SYMLINK"
    <3>1. r \in Recs
      BY <1>a, RecordFacts
    <3> QED BY <3>1 DEF LogSymlink, Logged
  <2>3. call(i).tree \in Trees /\ Grows(src, call(i).tree)
    BY <1>b DEF Kinds
  <2> HIDE DEF call, r
  <2>4. Effect(src, call(i).tree, r)
    BY <2>2, <2>3, GrowsEffect
  <2> QED BY <1>1, <2>1, <2>2, <2>3, <2>4
<1>9. ASSUME NEW q \in Paths, LinkTo(p, q) PROVE Goal
  <2>1. LogLink(p, q) \in Recs
    BY <1>a, RecordFacts
  <2>2. Effect(src, Link(src, p, q).tree, LogLink(p, q))
    BY LinkGrows, RecordTypes, GrowsEffect
  <2> QED BY <1>1, <1>9, <2>1, <2>2, NameCalls DEF LinkTo
<1>10. ASSUME NEW q \in Paths, RenameTo(p, q) PROVE Goal
  <2> DEFINE r == LogRename(p, q, Before(q).nlink, Before(q).ino)
  <2>1. Execute(Rename(src, p, q), r)
    BY <1>10 DEF RenameTo
  <2>2. r \in Recs
    BY <1>a, BeforeFacts, RecordFacts
  <2>3. Effect(src, Rename(src, p, q).tree, r)
    BY RenameEffect
  <2> HIDE DEF r
  <2> QED BY <1>1, <2>1, <2>2, <2>3, NameCalls
<1>11. ASSUME NEW off \in 0..Bytes, NEW n \in 1..Bytes, Write(p, off, n) PROVE Goal
  <2> DEFINE bytes == [k \in 1..n |-> done + 2]
             call == Done(Pwrite(src, src.names[p], off, bytes))
             r == LogWrite(p, n, off)
  <2>1. Is(src, p, "file") /\ Execute(call, r)
    BY <1>11 DEF Write
  <2>2. bytes \in Seq(Nat) /\ off \in Nat /\ n \in Nat \ {0}
    BY <1>0
  <2>3. src.names[p] \in Inodes
    BY <2>1, ResolveFacts DEF Is
  <2> HIDE DEF bytes
  <2>4. call.tree \in Trees /\ Grows(src, call.tree)
    BY <2>2, <2>3, PwriteFacts, AttributesGrow DEF Done
  <2>5. r \in Recs /\ r.op.type = "WRITE" /\ r.path = p
    <3>1. r \in Recs
      BY <1>a, <2>2, RecordFacts
    <3> QED BY <3>1 DEF LogWrite, Logged
  <2> HIDE DEF call, r
  <2>6. Effect(src, call.tree, r)
    BY <2>1, <2>4, <2>5, GrowsEffect
  <2> QED BY <1>1, <2>1, <2>4, <2>5, <2>6
<1>12. ASSUME NEW n \in 0..Bytes, TruncateTo(p, n) PROVE Goal
  <2>1. n \in Nat
    BY <1>0
  <2>2. LogTruncate(p, n) \in Recs
    BY <1>a, <2>1, RecordFacts
  <2>3. Effect(src, Truncate(src, p, n).tree, LogTruncate(p, n))
    BY <2>1, AttributesGrow, RecordTypes, GrowsEffect
  <2> QED BY <1>1, <1>12, <2>1, <2>2, <2>3, AttributeCalls DEF TruncateTo
<1>13. ASSUME NEW m \in Modes, ChmodTo(p, m) PROVE Goal
  <2>1. LogChmod(p, m) \in Recs
    BY <1>a, RecordFacts
  <2>2. Effect(src, Chmod(src, p, m).tree, LogChmod(p, m))
    BY AttributesGrow, RecordTypes, GrowsEffect
  <2> QED BY <1>1, <1>13, <2>1, <2>2, AttributeCalls DEF ChmodTo
<1>14. ASSUME NEW w \in Owners, ChownTo(p, w) PROVE Goal
  <2>1. LogChown(p, w) \in Recs
    BY <1>a, RecordFacts
  <2>2. Effect(src, Chown(src, p, w).tree, LogChown(p, w))
    BY AttributesGrow, RecordTypes, GrowsEffect
  <2> QED BY <1>1, <1>14, <2>1, <2>2, AttributeCalls DEF ChownTo
<1> QED BY <1>2, <1>3, <1>4, <1>5, <1>6, <1>7, <1>8, <1>9, <1>10, <1>11, <1>12, <1>13, <1>14

LEMMA ProgramKeeps ==
  ASSUME src \in Trees, log \in Seq(Recs), tangled \in BOOLEAN, done \in 0..MaxOps, Program
  PROVE  /\ src' \in Trees /\ log' \in Seq(Recs) /\ tangled' \in BOOLEAN
         /\ done' \in 0..MaxOps
         /\ UNCHANGED client
<1>1. done < MaxOps /\ \E call, r : Recorded(call, r)
  BY ProgramExecutes
<1>2. PICK call, r : Recorded(call, r)
  BY <1>1
<1> QED BY <1>1, <1>2, ExecuteKeeps DEF Recorded, Execute

-----------------------------------------------------------------------------
(* The server.                                                             *)

\* There is an i-node for every name.
LEMMA FreshFacts ==
  ASSUME NEW t \in Trees, NEW p \in Paths, Vacant(t, p)
  PROVE  Fresh(t) \in Inodes
<1> DEFINE Others == Paths \ {p}
           Used == {t.names[q] : q \in Others}
<1>1. IsFiniteSet(Others) /\ Cardinality(Others) = Cardinality(Paths) - 1
  BY MirroringAssumption, FS_RemoveElement
<1>2. IsFiniteSet(Used) /\ Cardinality(Used) <= Cardinality(Others)
  <2> DEFINE f == [q \in Others |-> t.names[q]]
  <2>1. f \in Surjection(Others, Used)
    BY DEF Surjection
  <2> HIDE DEF f, Used, Others
  <2> QED BY <1>1, <2>1, FS_Surjection
<1>3. Cardinality(Paths) \in Nat
  BY MirroringAssumption, FS_CardinalityType
<1>4. ~(Inodes \subseteq Used)
  <2> SUFFICES ASSUME Inodes \subseteq Used PROVE FALSE
    OBVIOUS
  <2> HIDE DEF Used, Others
  <2>1. Cardinality(Inodes) <= Cardinality(Used) /\ Cardinality(Inodes) \in Nat
        /\ Cardinality(Used) \in Nat
    BY <1>2, FS_Subset, FS_CardinalityType
  <2> QED BY <1>1, <1>2, <1>3, <2>1, MirroringAssumption
<1>5. PICK i \in Inodes : i \notin Used
  BY <1>4
<1>6. t.names[p] # i
  BY <1>5, TreeAssumption DEF Vacant, Exists
<1>7. i \in Free(t)
  BY <1>5, <1>6 DEF Free, Links
<1> QED BY <1>7 DEF Fresh, Free

Served == [tree : Trees, fd : Inodes \union {Nowhere}, ok : BOOLEAN]

\* One operation.
LEMMA HandleKeeps ==
  ASSUME NEW t \in Trees, NEW p \in Paths, NEW fd \in Inodes \union {Nowhere}, NEW o \in Ops
  PROVE  HandleGenericOperation(t, p, fd, o) \in Served
<1> DEFINE r == HandleGenericOperation(t, p, fd, o)
<1>1. WellTyped(o)
  BY OpFacts
<1>2. ASSUME NEW call, call.tree \in Trees, call.ok \in BOOLEAN,
             NEW d \in Inodes \union {Nowhere}
      PROVE  Handled(call, d) \in Served
  BY <1>2 DEF Handled, Served
<1>3. Vacant(t, p) => Fresh(t) \in Inodes
  BY FreshFacts
<1>4. ASSUME NEW node \in Nodes
      PROVE  Handled(Make(t, p, Fresh(t), node), fd) \in Served
  <2>1. Make(t, p, Fresh(t), node).tree \in Trees
    BY <1>3, MakeFacts
  <2>2. Make(t, p, Fresh(t), node).ok \in BOOLEAN
    BY DEF Make, Done, Refused
  <2> QED BY <1>2, <2>1, <2>2
<1>5. ASSUME NEW q \in Paths, NEW s \in Paths
      PROVE  /\ Unlink(t, p).ok \in BOOLEAN /\ Rmdir(t, p).ok \in BOOLEAN
             /\ Link(t, q, s).ok \in BOOLEAN /\ Rename(t, q, s).ok \in BOOLEAN
  BY DEF Unlink, Rmdir, Link, Rename, Done, Refused
<1>6. ASSUME NEW m
      PROVE  /\ Truncate(t, p, m).ok \in BOOLEAN /\ Chmod(t, p, m).ok \in BOOLEAN
             /\ Chown(t, p, m).ok \in BOOLEAN
  BY DEF Truncate, Chmod, Chown, Done, Refused
<1>7. \A kind \in Kinds, mode \in Modes, target \in Paths \union {Nowhere} :
        NewNode(kind, mode, target) \in Nodes
  BY NodeFacts
<1>8. CASE o.type = "CREATE"
  <2> DEFINE call == Creat(t, p, Fresh(t), o.mode)
  <2>1. o.mode \in Modes
    BY <1>1, <1>8 DEF WellTyped
  <2>2. call.tree \in Trees
    BY <1>3, <2>1, AttributeCalls
  <2>3. call.ok \in BOOLEAN
    BY DEF Creat, Make, Done, Refused
  <2>4. Stat(call.tree, p) \in Inodes \union {Nowhere}
    BY <2>2, ResolveFacts
  <2>5. r = Handled(call, IF call.ok THEN Stat(call.tree, p) ELSE Nowhere)
    BY <1>8 DEF HandleGenericOperation, HandleCreate
  <2> HIDE DEF call, r
  <2> QED BY <1>2, <2>2, <2>3, <2>4, <2>5 DEF r
<1>9. CASE o.type = "MKNOD"
  <2>1. o.mode \in Modes /\ "file" \in Kinds
    BY <1>1, <1>9 DEF WellTyped, Kinds
  <2>2. r = Handled(Make(t, p, Fresh(t), NewNode("file", o.mode, Nowhere)), fd)
    BY <1>9 DEF HandleGenericOperation, HandleMknod
  <2> QED BY <1>4, <1>7, <2>1, <2>2
<1>10. CASE o.type = "MKDIR"
  <2>1. o.mode \in Modes /\ "dir" \in Kinds
    BY <1>1, <1>10 DEF WellTyped, Kinds
  <2>2. r = Handled(Make(t, p, Fresh(t), NewNode("dir", o.mode, Nowhere)), fd)
    BY <1>10 DEF HandleGenericOperation, HandleMkdir
  <2> QED BY <1>4, <1>7, <2>1, <2>2
<1>11. CASE o.type = "SYMLINK"
  <2>1. o.newpath \in Paths /\ "symlink" \in Kinds /\ "plain" \in Modes
    BY <1>1, <1>11 DEF WellTyped, Kinds, Modes
  <2>2. r = Handled(Make(t, p, Fresh(t), NewNode("symlink", "plain", o.newpath)), fd)
    BY <1>11 DEF HandleGenericOperation, HandleSymlink
  <2> QED BY <1>4, <1>7, <2>1, <2>2
<1>12. CASE o.type = "LINK"
  <2>1. o.oldpath \in Paths
    BY <1>1, <1>12 DEF WellTyped
  <2>2. r = Handled(Link(t, o.oldpath, p), fd)
    BY <1>12 DEF HandleGenericOperation, HandleLink
  <2> QED BY <1>2, <1>5, <2>1, <2>2, NameCalls
<1>13. CASE o.type = "WRITE"
  <2> DEFINE open == IF Is(t, Resolve(t, p), "file") THEN Stat(t, p) ELSE Nowhere
             to == IF fd = Nowhere THEN open ELSE fd
  <2>1. o.offset \in Nat /\ o.data \in Seq(Nat)
    BY <1>1, <1>13 DEF WellTyped
  <2>2. to \in Inodes \union {Nowhere}
    BY ResolveFacts
  <2>3. r = IF to = Nowhere \/ o.data = <<>> THEN Handled(Refused(t), to)
            ELSE Handled(Done(Pwrite(t, to, o.offset, o.data)), to)
    BY <1>13 DEF HandleGenericOperation, HandleWrite
  <2> HIDE DEF to, r
  <2>4. CASE to = Nowhere \/ o.data = <<>>
    <3>1. Refused(t).tree = t /\ Refused(t).ok = FALSE
      BY DEF Refused
    <3> QED BY <1>2, <2>2, <2>3, <2>4, <3>1 DEF r
  <2>5. CASE ~(to = Nowhere \/ o.data = <<>>)
    <3> DEFINE call == Done(Pwrite(t, to, o.offset, o.data))
    <3>1. call.tree \in Trees /\ call.ok = TRUE
      BY <2>1, <2>2, <2>5, PwriteFacts DEF Done
    <3> HIDE DEF call
    <3> QED BY <1>2, <2>2, <2>3, <2>5, <3>1 DEF r, call
  <2> QED BY <2>4, <2>5
<1>14. CASE o.type = "UNLINK"
  <2>1. r = Handled(Unlink(t, p), Nowhere)
    BY <1>14 DEF HandleGenericOperation, HandleUnlink
  <2> QED BY <1>2, <1>5, <2>1, NameCalls
<1>15. CASE o.type = "RMDIR"
  <2>1. r = Handled(Rmdir(t, p), fd)
    BY <1>15 DEF HandleGenericOperation, HandleRmdir
  <2> QED BY <1>2, <1>5, <2>1, NameCalls
<1>16. CASE o.type = "TRUNCATE"
  <2>1. o.newsize \in Nat
    BY <1>1, <1>16 DEF WellTyped
  <2>2. r = Handled(Truncate(t, p, o.newsize), fd)
    BY <1>16 DEF HandleGenericOperation, HandleTruncate
  <2> QED BY <1>2, <1>6, <2>1, <2>2, AttributeCalls
<1>17. CASE o.type = "CHMOD"
  <2>1. o.mode \in Modes
    BY <1>1, <1>17 DEF WellTyped
  <2>2. r = Handled(Chmod(t, p, o.mode), fd)
    BY <1>17 DEF HandleGenericOperation, HandleChmod
  <2> QED BY <1>2, <1>6, <2>1, <2>2, AttributeCalls
<1>18. CASE o.type = "CHOWN"
  <2>1. o.owner \in Owners
    BY <1>1, <1>18 DEF WellTyped
  <2>2. r = Handled(Chown(t, p, o.owner), fd)
    BY <1>18 DEF HandleGenericOperation, HandleChown
  <2> QED BY <1>2, <1>6, <2>1, <2>2, AttributeCalls
<1>19. CASE o.type = "RENAME"
  <2>1. o.oldpath \in Paths /\ o.newpath \in Paths
    BY <1>1, <1>19 DEF WellTyped
  <2>2. r = Handled(Rename(t, o.oldpath, o.newpath), fd)
    BY <1>19 DEF HandleGenericOperation, HandleRename
  <2> QED BY <1>2, <1>5, <2>1, <2>2, NameCalls
<1> QED BY <1>1, <1>8, <1>9, <1>10, <1>11, <1>12, <1>13, <1>14, <1>15, <1>16, <1>17,
           <1>18, <1>19 DEF WellTyped

\* All of a file.
LEMMA HandleFileKeeps ==
  ASSUME NEW t \in Trees, NEW p \in Paths, NEW ops \in Seq(Ops)
  PROVE  HandleFile(t, p, ops) \in Served
<1> DEFINE n == Len(ops)
           base == [tree |-> t, fd |-> Nowhere, ok |-> TRUE]
           Handle(st, o) == LET r == HandleGenericOperation(st.tree, p, st.fd, o)
                            IN  [r EXCEPT !.ok = @ /\ st.ok]
           F == [x \in Served \X Ops |-> Handle(x[1], x[2])]
           it == CHOOSE it : it = [s \in SUBSET (DOMAIN ops) |->
                   IF s = {} THEN base ELSE Handle(it[s \ {Max(s)}], ops[Max(s)])]
<1>1. HandleFile(t, p, ops) = it[DOMAIN ops]
  BY DEF HandleFile, FoldLeft, MapThenFoldSet
<1>2. n \in Nat /\ DOMAIN ops = 1..n /\ ops \in [1..n -> Ops] /\ base \in Served
  BY DEF Served
<1>3. F \in [Served \X Ops -> Served] /\ \A v \in Served, o \in Ops : F[<<v, o>>] = Handle(v, o)
  <2>1. ASSUME NEW v \in Served, NEW o \in Ops PROVE Handle(v, o) \in Served
    <3>1. HandleGenericOperation(v.tree, p, v.fd, o) \in Served /\ v.ok \in BOOLEAN
      BY HandleKeeps DEF Served
    <3> QED BY <3>1 DEF Served
  <2> HIDE DEF Handle
  <2> QED BY <2>1
<1> HIDE DEF Handle, F, base, n
<1>4. it = [s \in SUBSET (1..n) |->
              IF s = {} THEN base ELSE Handle(it[s \ {Max(s)}], ops[Max(s)])]
  <2>1. PICK g : IsFold(g, n, base, ops, F) /\ Within(g, n, Served, ops, Ops)
    BY <1>2, <1>3, FoldFixed
  <2>2. g = [s \in SUBSET (DOMAIN ops) |->
               IF s = {} THEN base ELSE Handle(g[s \ {Max(s)}], ops[Max(s)])]
    BY <1>2, <1>3, <2>1 DEF IsFold, Within
  <2> QED BY <1>2, <2>2
<1> HIDE DEF it
<1>5. Follows(it, n, Served, base, ops, F)
  BY ZenonT(40), <1>2, <1>3, <1>4, MaxIn DEF Follows
<1>6. Reaches(it, n, Served, base, ops, F)
  BY <1>2, <1>3, <1>5, FoldValues
<1> QED BY <1>1, <1>2, <1>6 DEF Reaches

LEMMA SentFacts ==
  ASSUME snap \in Trees, NEW p \in Paths, NEW ops \in Seq(Ops)
  PROVE  [k \in DOMAIN ops |-> LoadWriteData(p, ops[k])] \in Seq(Ops)
<1>1. ASSUME NEW o \in Ops PROVE LoadWriteData(p, o) \in Ops
  <2> DEFINE q == Resolve(snap, p)
             end == o.offset + o.size
  <2>1. CASE o.type = "WRITE" /\ Is(snap, q, "file") /\ end <= Len(At(snap, q).data)
    <3>1. At(snap, q).data \in Seq(Nat)
      <4>1. q \in Paths /\ snap.names[q] \in Inodes
        BY <2>1, ResolveFacts DEF Is
      <4> QED BY <4>1 DEF At, Trees, Nodes
    <3>2. o.offset \in Nat /\ o.size \in Nat \ {0}
      BY <2>1, SpanOf
    <3>3. SubSeq(At(snap, q).data, o.offset + 1, end) \in Seq(Nat)
      <4>1. o.offset \in Nat /\ end \in 0..Len(At(snap, q).data)
        BY <2>1, <3>1, <3>2
      <4> HIDE DEF q, end
      <4> QED BY <3>1, <4>1, PartFacts
    <3>4. LoadWriteData(p, o) = [o EXCEPT !.data = SubSeq(At(snap, q).data, o.offset + 1, end)]
      BY <2>1 DEF LoadWriteData
    <3>5. \A d \in Seq(Nat) : [o EXCEPT !.data = d] \in Ops
      BY <2>1, Cut
    <3> HIDE DEF q, end
    <3> QED BY <3>3, <3>4, <3>5
  <2>2. CASE ~(o.type = "WRITE" /\ Is(snap, q, "file") /\ end <= Len(At(snap, q).data))
    BY <2>2 DEF LoadWriteData
  <2> QED BY <2>1, <2>2
<1>2. \A k \in DOMAIN ops : ops[k] \in Ops
  OBVIOUS
<1>3. DOMAIN ops = 1..Len(ops) /\ Len(ops) \in Nat
  OBVIOUS
<1>4. \A k \in 1..Len(ops) : LoadWriteData(p, ops[k]) \in Ops
  BY <1>1, <1>2, <1>3
<1> QED BY <1>3, <1>4

-----------------------------------------------------------------------------
(* The invariant.                                                          *)

\* What each phase knows of the tables: while the log is loaded all that
\* TablesConsistent says, while files are sent that every one has operations.
MInv ==
  /\ src \in Trees /\ snap \in Trees /\ mirror \in Trees
  /\ phase \in {"idle", "switched", "loading", "sending", "crashed"}
  /\ done \in 0..MaxOps /\ refused \in BOOLEAN /\ tangled \in BOOLEAN
  /\ log \in Seq(Recs) /\ sync \in Seq(Recs)
  /\ tables \in ClientTables
  /\ phase = "loading" => Consistent(tables)
  /\ phase = "sending" => Full(tables) /\ sync = <<>>
  /\ phase = "idle" => sync = <<>> /\ tables = EmptyTables

LEMMA InitInv == MInit => MInv
<1> SUFFICES ASSUME MInit PROVE MInv
  OBVIOUS
<1>1. 0 \in 0..MaxOps
  BY MirroringAssumption
<1>2. EmptyTables \in ClientTables
  BY EmptyTablesFacts
<1>3. src \in Trees /\ <<>> \in Seq(Recs)
  BY MirroringAssumption DEF MInit
<1> QED BY <1>1, <1>2, <1>3 DEF MInit, MInv

LEMMA MatchKeeps ==
  ASSUME MInv, Match
  PROVE  tables' \in ClientTables /\ Full(tables') /\ tangled' \in BOOLEAN
<1> DEFINE aside == DOMAIN tables.inodes
           S == {p \in Paths : snap.names[p] \in aside}
<1>1. PICK memory \in aside \union {0}, walk \in SetToSeqs(S) :
        /\ tables' = MatchInodefiles(tables, snap, memory, walk)
        /\ tangled' = (tangled \/ memory \in aside)
  BY DEF Match
<1>2. tables \in FullTables
  BY DEF MInv, Match, Consistent, Full, Ranked, FullTables
<1>3. memory \in Inodes \union {0}
  <2>1. tables.inodes \in Aside
    BY DEF MInv, ClientTables
  <2>2. DOMAIN tables.inodes \subseteq Inodes
    BY <2>1 DEF Aside
  <2> QED BY <2>2
<1>4. Cardinality(S) \in Nat
  BY MirroringAssumption, FS_Subset, FS_CardinalityType
<1>5. walk \in [1..Cardinality(S) -> Paths]
  BY DEF SetToSeqs, IsInjective
<1>6. MatchEntries(tables, snap, memory) \in FullTables
  BY <1>2, <1>3, MatchEntriesKeeps DEF MInv
<1>7. tables' \in FullTables
  <2> HIDE DEF S
  <2> QED BY <1>1, <1>4, <1>5, <1>6, MatchWalkKeeps DEF MatchInodefiles
<1> QED BY <1>1, <1>7 DEF MInv, FullTables

LEMMA TransferKeeps ==
  ASSUME MInv, TransferFile
  PROVE  /\ mirror' \in Trees /\ refused' \in BOOLEAN /\ tables' \in ClientTables /\ Full(tables')
         /\ phase' \in {"sending", "crashed"}
<1> DEFINE f == First(tables.files)
<1>1. PICK ops \in OptimizeOperations(f.ops) :
        IF ops # <<>> /\ Last(ops).type = "WRITE" /\ Stat(snap, f.path) = Nowhere
        THEN phase' = "crashed" /\ UNCHANGED <<mirror, refused, tables>>
        ELSE LET sent == [k \in DOMAIN ops |-> LoadWriteData(f.path, ops[k])]
                 r == HandleFile(mirror, f.path, sent)
             IN  /\ mirror' = r.tree
                 /\ refused' = (refused \/ ~r.ok)
                 /\ tables' = Deleted(tables, f.path)
                 /\ UNCHANGED phase
  BY DEF TransferFile
<1>2. tables \in ClientTables /\ tables.files \in Seq(Entries) /\ tables.files # <<>> /\ Full(tables)
  BY DEF MInv, TransferFile, ClientTables
<1>3. f \in Entries /\ f.ops # <<>> /\ f.path \in Paths /\ f.ops \in Seq(Ops)
  <2>1. PICK k \in DOMAIN tables.files : f = tables.files[k]
    BY <1>2, FirstFacts
  <2>2. tables.files[k] \in Entries /\ tables.files[k].ops # <<>>
    BY <1>2 DEF Full
  <2> HIDE DEF f
  <2> QED BY <2>1, <2>2 DEF Entries
<1>4. ops \in Seq(Ops)
  BY <1>3, OptimizedFacts
<1> DEFINE sent == [k \in DOMAIN ops |-> LoadWriteData(f.path, ops[k])]
<1>5. HandleFile(mirror, f.path, sent) \in Served
  <2>1. sent \in Seq(Ops)
    BY <1>3, <1>4, SentFacts DEF MInv
  <2> HIDE DEF sent
  <2> QED BY <1>3, <2>1, HandleFileKeeps DEF MInv
<1>6. Deleted(tables, f.path) \in ClientTables /\ Full(Deleted(tables, f.path))
  <2> DEFINE d == Deleted(tables, f.path)
  <2>1. d \in ClientTables /\ d = [tables EXCEPT !.files = d.files]
    BY <1>2, DeletedFacts
  <2>2. PICK g \in [DOMAIN d.files -> DOMAIN tables.files] :
          \A k \in DOMAIN d.files : d.files[k] = tables.files[g[k]]
    BY <1>2, DeletedFacts
  <2>3. d.inodes = tables.inodes
    BY <1>2, <2>1 DEF ClientTables
  <2> HIDE DEF d
  <2> QED BY <1>2, <2>1, <2>2, <2>3 DEF Full, AsideFull, d
<1> HIDE DEF f, sent
<1>7. phase = "sending"
  BY DEF TransferFile
<1>8. CASE ops # <<>> /\ Last(ops).type = "WRITE" /\ Stat(snap, f.path) = Nowhere
  BY <1>1, <1>2, <1>8 DEF MInv
<1>9. CASE ~(ops # <<>> /\ Last(ops).type = "WRITE" /\ Stat(snap, f.path) = Nowhere)
  BY <1>1, <1>5, <1>6, <1>7, <1>9 DEF MInv, Served, sent
<1> QED BY <1>8, <1>9

LEMMA StepInv == MInv /\ [MNext]_mvars => MInv'
<1> SUFFICES ASSUME MInv, [MNext]_mvars PROVE MInv'
  OBVIOUS
<1>1. CASE Program
  <2>1. /\ src' \in Trees /\ log' \in Seq(Recs) /\ tangled' \in BOOLEAN
        /\ done' \in 0..MaxOps /\ UNCHANGED client
    BY <1>1, ProgramKeeps DEF MInv
  <2> QED BY <2>1 DEF MInv, client
<1>2. CASE SwitchLog
  <2>1. <<>> \in Seq(Recs)
    OBVIOUS
  <2> QED BY <1>2, <2>1 DEF MInv, SwitchLog
<1>3. CASE TakeSnapshot
  BY <1>3, EmptyTablesFacts DEF MInv, TakeSnapshot
<1>4. CASE Load
  <2>1. Head(sync).path \in Paths /\ Head(sync).op \in Ops /\ Tail(sync) \in Seq(Recs)
    <3>1. Head(sync) \in Recs /\ Tail(sync) \in Seq(Recs)
      BY <1>4 DEF MInv, Load
    <3> QED BY <3>1 DEF Recs
  <2>2. tables' \in ClientTables /\ Consistent(tables')
    BY <1>4, <2>1, AddOperationKeeps DEF MInv, Load
  <2>3. phase' \in {"loading", "crashed"}
    BY <1>4 DEF Load
  <2> QED BY <1>4, <2>1, <2>2, <2>3 DEF MInv, Load
<1>5. CASE Match
  <2>1. tables' \in ClientTables /\ Full(tables') /\ tangled' \in BOOLEAN
    BY <1>5, MatchKeeps
  <2> QED BY <1>5, <2>1 DEF MInv, Match
<1>6. CASE TransferFile
  <2>1. /\ mirror' \in Trees /\ refused' \in BOOLEAN /\ tables' \in ClientTables /\ Full(tables')
        /\ phase' \in {"sending", "crashed"}
    BY <1>6, TransferKeeps
  <2> QED BY <1>6, <2>1 DEF MInv, TransferFile
<1>7. CASE Finish
  BY <1>7, EmptyTablesFacts DEF MInv, Finish
<1>8. CASE UNCHANGED mvars
  BY <1>8 DEF MInv, mvars
<1> QED BY <1>1, <1>2, <1>3, <1>4, <1>5, <1>6, <1>7, <1>8 DEF MNext

\* The invariant holds of every state that is reached.
THEOREM MirroringInvariant == MSpec => []MInv
  BY InitInv, StepInv, PTL DEF MSpec

\* Whatever programs do, in every order: the trees of source, snapshot and mirror
\* are trees, what is logged is about names, what is set aside during loadLog()
\* (addOperation(), matchInodefiles() of client.c) is set aside under i-nodes, and
\* nothing is left of an epoch when it is over.
THEOREM MirroringTypes == MSpec => []MTypeOK
<1>1. MInv => MTypeOK
  <2> SUFFICES ASSUME MInv PROVE MTypeOK
    OBVIOUS
  <2>1. \A r \in Range(log) \union Range(sync) : r.path \in Paths
    <3>1. log \in Seq(Recs) /\ sync \in Seq(Recs)
      BY DEF MInv
    <3>2. Range(log) \subseteq Recs /\ Range(sync) \subseteq Recs
      BY <3>1 DEF Range
    <3> QED BY <3>2 DEF Recs
  <2>2. DOMAIN tables.inodes \subseteq Inodes
    <3>1. tables.inodes \in Aside
      BY DEF MInv, ClientTables
    <3> QED BY <3>1 DEF Aside
  <2> QED BY <2>1, <2>2 DEF MInv, MTypeOK
<1> QED BY <1>1, MirroringInvariant, PTL

\* addOperation() keeps the client's tables consistent, whatever the log holds: the
\* order in which files are sent is a linear one, every path has one entry, a
\* removal is the first operation of its path and never follows a creation, and
\* nothing empty is set aside.
THEOREM TablesStayConsistent == MSpec => []TablesConsistent
<1>1. MInv => TablesConsistent
  <2> SUFFICES ASSUME MInv, phase = "loading" PROVE TablesConsistent
    BY DEF TablesConsistent
  <2>1. Consistent(tables)
    BY DEF MInv
  <2> QED BY <2>1 DEF TablesConsistent, Consistent, Ranked, Distinct, AsideFull, RemovalsFirst
<1> QED BY <1>1, MirroringInvariant, PTL

\* optimizeOperations(): of the operations of a file, in whatever order qsort()
\* leaves writes at the same offset, each byte is sent once and none that was not
\* written; all are sent when nothing was truncated; everything else is sent, and
\* something always is.
THEOREM BytesWrittenOnce == MSpec => []WrittenOnce
<1>1. MInv => WrittenOnce
  <2> SUFFICES ASSUME MInv, phase = "sending", NEW f \in Range(tables.files),
                      NEW ops \in OptimizeOperations(f.ops)
               PROVE  LET cuts == {f.ops[k].newsize :
                                     k \in {j \in DOMAIN f.ops : f.ops[j].type = "TRUNCATE"}}
                      IN  /\ ops # <<>>
                          /\ \A j, k \in WritesOf(ops) :
                               j # k => Span(ops[j]) \intersect Span(ops[k]) = {}
                          /\ Spans(ops) \subseteq Spans(f.ops)
                          /\ cuts = {} => Spans(ops) = Spans(f.ops)
                          /\ Cardinality(DOMAIN ops \ WritesOf(ops))
                               = Cardinality(DOMAIN f.ops \ WritesOf(f.ops))
    BY DEF WrittenOnce
  <2>1. f.ops \in Seq(Ops) /\ f.ops # <<>>
    <3>1. PICK k \in DOMAIN tables.files : f = tables.files[k]
      BY DEF Range
    <3>2. tables \in ClientTables /\ Full(tables)
      BY DEF MInv
    <3>3. tables.files[k] \in Entries /\ tables.files[k].ops # <<>>
      BY <3>2 DEF ClientTables, Full
    <3> QED BY <3>1, <3>3 DEF Entries
  <2>2. ops \in Seq(Ops) /\ Left(ops, f.ops)
    BY <2>1, OptimizedFacts
  <2> QED BY <2>2 DEF Left, Apart, Count, Rest
<1> QED BY <1>1, MirroringInvariant, PTL

-----------------------------------------------------------------------------
(* What the records of an epoch leave to be found in the tree.             *)

\* What was set aside for a file has a name to find, or is settled by the removal
\* of the last one.
Homes(l, t) ==
  \A k \in DOMAIN l : OneOfSeveral(l[k]) =>
    \/ Named(t, l[k].op.inode)
    \/ \E j \in DOMAIN l : j > k /\ LastOf(l[j], l[k].op.inode)

\* Nothing is set aside for a file twice.
Once(l) ==
  \A j, k \in DOMAIN l :
    j < k /\ OneOfSeveral(l[j]) /\ OneOfSeveral(l[k]) => l[j].op.inode # l[k].op.inode

\* What was written to is there, or its removal is recorded.
Written(l, t) ==
  \A k \in DOMAIN l : l[k].op.type = "WRITE" =>
    \/ Is(t, l[k].path, "file")
    \/ \E j \in DOMAIN l : j > k /\ l[j].op.type = "UNLINK" /\ l[j].path = l[k].path

Accounted(l, t) == Homes(l, t) /\ Once(l) /\ Written(l, t)

\* The path of a record, and the i-node of what is set aside.
LEMMA SetAsideFacts ==
  ASSUME NEW r \in Recs
  PROVE  r.path \in Paths /\ (OneOfSeveral(r) => r.op.inode \in Inodes)
<1>1. r.path \in Paths /\ r.op \in Ops
  BY DEF Recs
<1> QED BY <1>1, OpFacts DEF OneOfSeveral, WellTyped

\* A record about a name of the file would have tangled the epoch.
LEMMA NotOther ==
  ASSUME log \in Seq(Recs), sync \in Seq(Recs), NEW r, ~OtherName(r), NEW s, OneOfSeveral(s),
         \/ s \in Range(sync)
         \/ s \in Range(log) /\ ~(r.op.type = "UNLINK" /\ r.op.last_link),
         NEW p \in Own(r)
  PROVE  src.names[p] # s.op.inode
<1>1. Range(sync \o log) = Range(sync) \union Range(log)
  <2> DEFINE both == sync \o log
  <2>1. DOMAIN both = 1..Len(sync) + Len(log) /\ DOMAIN sync = 1..Len(sync)
        /\ DOMAIN log = 1..Len(log) /\ Len(sync) \in Nat /\ Len(log) \in Nat
    OBVIOUS
  <2>2. /\ \A k \in 1..Len(sync) : k \in DOMAIN both /\ both[k] = sync[k]
        /\ \A k \in 1..Len(log) : k + Len(sync) \in DOMAIN both /\ both[k + Len(sync)] = log[k]
        /\ \A k \in DOMAIN both : \/ k \in 1..Len(sync) /\ both[k] = sync[k]
                                  \/ /\ k - Len(sync) \in 1..Len(log)
                                     /\ both[k] = log[k - Len(sync)]
    BY <2>1
  <2> HIDE DEF both
  <2>3. Range(both) = Range(sync) \union Range(log)
    <3>1. ASSUME NEW x \in Range(both) PROVE x \in Range(sync) \union Range(log)
      BY <2>1, <2>2, <3>1 DEF Range
    <3>2. ASSUME NEW x \in Range(sync) PROVE x \in Range(both)
      BY <2>1, <2>2, <3>2 DEF Range
    <3>3. ASSUME NEW x \in Range(log) PROVE x \in Range(both)
      BY <2>1, <2>2, <3>3 DEF Range
    <3> QED BY <3>1, <3>2, <3>3
  <2> QED BY <2>3 DEF both
<1>2. s \in Range(IF r.op.type = "UNLINK" /\ r.op.last_link THEN sync ELSE sync \o log)
  BY <1>1
<1> QED BY <1>2 DEF OtherName, OneOfSeveral

\* A call whose record does not tangle the epoch leaves both logs accounted for.
LEMMA EffectKeeps ==
  ASSUME src \in Trees, log \in Seq(Recs), sync \in Seq(Recs), NEW r \in Recs, NEW u,
         Effect(src, u, r), ~Tangles(Append(log, r)), ~OtherName(r), ~Late(r)
  PROVE  /\ Accounted(log, src) => Accounted(Append(log, r), u)
         /\ Accounted(sync, src) => Accounted(sync, u)
<1> DEFINE l == Append(log, r)
           m == Len(log) + 1
<1>1. /\ m \in Nat /\ DOMAIN l = 1..m /\ DOMAIN log = 1..m - 1 /\ l[m] = r
      /\ \A k \in 1..m - 1 : l[k] = log[k] /\ k \in 1..m /\ k < m /\ log[k] \in Recs
      /\ \A k \in 1..m : k = m \/ k \in 1..m - 1
      /\ m \in 1..m
  OBVIOUS
<1>2. \A k \in DOMAIN sync : sync[k] \in Recs /\ sync[k] \in Range(sync)
  BY DEF Range
<1>3. \A k \in 1..m - 1 : log[k] \in Range(log)
  BY <1>1 DEF Range
<1> HIDE DEF l, m
<1>4. \A s \in Recs : s.path \in Own(s) /\ Own(s) \subseteq Names(s)
  BY DEF Own, Names
<1>5. ASSUME NEW i \in Inodes, Named(src, i), ~Named(u, i)
      PROVE  (\E p \in Own(r) : src.names[p] = i) /\ (LastOf(r, i) \/ r.op.type = "RENAME")
  BY <1>5 DEF Effect
<1>6. ASSUME Accounted(log, src) PROVE Accounted(l, u)
  <2>1. Homes(l, u)
    <3> SUFFICES ASSUME NEW k \in 1..m, OneOfSeveral(l[k])
                 PROVE  \/ Named(u, l[k].op.inode)
                        \/ \E j \in 1..m : j > k /\ LastOf(l[j], l[k].op.inode)
      BY <1>1 DEF Homes
    <3>1. CASE k = m
      BY <1>1, <3>1 DEF Effect
    <3>2. CASE k \in 1..m - 1
      <4> DEFINE i == log[k].op.inode
      <4>1. l[k] = log[k] /\ i \in Inodes /\ OneOfSeveral(log[k])
        BY <1>1, <3>2, SetAsideFacts
      <4>2. CASE \E j \in 1..m - 1 : j > k /\ LastOf(log[j], i)
        BY <1>1, <4>1, <4>2
      <4>3. CASE Named(src, i)
        <5> SUFFICES ASSUME ~Named(u, i) PROVE LastOf(r, i)
          BY <1>1, <3>2, <4>1
        <5>1. (\E p \in Own(r) : src.names[p] = i) /\ (LastOf(r, i) \/ r.op.type = "RENAME")
          BY <1>5, <4>1, <4>3
        <5>2. r.op.type = "RENAME" => FALSE
          BY <1>3, <3>2, <4>1, <5>1, NotOther
        <5> QED BY <5>1, <5>2
      <4> QED BY <1>1, <1>6, <3>2, <4>1, <4>2, <4>3 DEF Accounted, Homes
    <3> QED BY <1>1, <3>1, <3>2
  <2>2. Once(l)
    <3> SUFFICES ASSUME NEW j \in 1..m, NEW k \in 1..m, j < k, OneOfSeveral(l[j]),
                        OneOfSeveral(l[k])
                 PROVE  l[j].op.inode # l[k].op.inode
      BY <1>1 DEF Once
    <3>1. j \in 1..m - 1
      BY <1>1
    <3>2. CASE k = m
      <4>1. src.names[r.path] = r.op.inode /\ ~(r.op.type = "UNLINK" /\ r.op.last_link)
        BY <1>1, <3>2 DEF Effect, OneOfSeveral
      <4>2. src.names[r.path] # log[j].op.inode
        BY <1>1, <1>3, <1>4, <3>1, <4>1, NotOther
      <4> QED BY <1>1, <3>1, <3>2, <4>1, <4>2
    <3>3. CASE k \in 1..m - 1
      BY <1>1, <1>6, <3>1, <3>3 DEF Accounted, Once
    <3> QED BY <1>1, <3>2, <3>3
  <2>3. Written(l, u)
    <3> SUFFICES ASSUME NEW k \in 1..m, l[k].op.type = "WRITE"
                 PROVE  \/ Is(u, l[k].path, "file")
                        \/ \E j \in 1..m : /\ j > k /\ l[j].op.type = "UNLINK"
                                           /\ l[j].path = l[k].path
      BY <1>1 DEF Written
    <3>1. CASE k = m
      BY <1>1, <3>1 DEF Effect
    <3>2. CASE k \in 1..m - 1
      <4> DEFINE p == log[k].path
      <4>1. l[k] = log[k] /\ p \in Paths /\ log[k] \in Recs
        BY <1>1, <3>2, SetAsideFacts
      <4>2. CASE \E j \in 1..m - 1 : j > k /\ log[j].op.type = "UNLINK" /\ log[j].path = p
        BY <1>1, <4>1, <4>2
      <4>3. CASE Is(src, p, "file")
        <5> SUFFICES ASSUME ~Is(u, p, "file") PROVE r.op.type = "UNLINK" /\ r.path = p
          BY <1>1, <3>2, <4>1
        <5>1. r.op.type \in {"UNLINK", "RENAME"} /\ p \in Own(r)
          BY <4>1, <4>3 DEF Effect
        <5>2. r.op.type = "RENAME" => FALSE
          <6> HAVE r.op.type = "RENAME"
          <6>1. p \in Names(l[m]) /\ p \in Names(l[k]) /\ m # k
            BY <1>1, <1>4, <3>2, <4>1, <5>1
          <6>2. Tangles(l)
            BY <1>1, <6>1 DEF Tangles
          <6> QED BY <6>2 DEF l
        <5>3. r.op.type = "UNLINK" => Own(r) = {r.path}
          BY DEF Own
        <5> QED BY <5>1, <5>2, <5>3
      <4> QED BY <1>1, <1>6, <3>2, <4>1, <4>2, <4>3 DEF Accounted, Written
    <3> QED BY <1>1, <3>1, <3>2
  <2> QED BY <2>1, <2>2, <2>3 DEF Accounted
<1>7. ASSUME Accounted(sync, src) PROVE Accounted(sync, u)
  <2>1. Homes(sync, u)
    <3> SUFFICES ASSUME NEW k \in DOMAIN sync, OneOfSeveral(sync[k]), Named(src, sync[k].op.inode)
                 PROVE  Named(u, sync[k].op.inode)
      BY <1>7 DEF Accounted, Homes
    <3>1. sync[k].op.inode \in Inodes
      BY <1>2, SetAsideFacts
    <3>2. \A p \in Own(r) : src.names[p] # sync[k].op.inode
      <4> DEFINE s == sync[k]
      <4>1. s \in Range(sync) /\ OneOfSeveral(s)
        BY <1>2
      <4> HIDE DEF s
      <4>2. \A p \in Own(r) : src.names[p] # s.op.inode
        BY <4>1, NotOther
      <4> QED BY <4>2 DEF s
    <3> QED BY <1>5, <3>1, <3>2
  <2>2. Written(sync, u)
    <3> SUFFICES ASSUME NEW k \in DOMAIN sync, sync[k].op.type = "WRITE",
                        Is(src, sync[k].path, "file")
                 PROVE  Is(u, sync[k].path, "file")
      BY <1>7 DEF Accounted, Written
    <3>1. sync[k].path \in Paths /\ sync[k].path \in Names(sync[k])
      BY <1>2, <1>4, SetAsideFacts
    <3>2. r.op.type \in {"UNLINK", "RENAME"} => sync[k].path \notin Own(r)
      BY <1>4, <3>1 DEF Late
    <3> QED BY <3>1, <3>2 DEF Effect
  <2> QED BY <1>7, <2>1, <2>2 DEF Accounted
<1> QED BY <1>6, <1>7 DEF l

\* Programs leave the epoch accounted for, unless they tangle it.
LEMMA ProgramAccounts ==
  ASSUME MInv, Program, ~tangled'
  PROVE  /\ ~tangled
         /\ Accounted(log, src) => Accounted(log', src')
         /\ Accounted(sync, src) => Accounted(sync', src')
<1>1. PICK call, r : Recorded(call, r)
  BY ProgramExecutes DEF MInv
<1>2. /\ src' = call.tree /\ log' = Append(log, r) /\ sync' = sync
      /\ tangled' = (tangled \/ Tangles(log') \/ OtherName(r) \/ Mistaken(r) \/ Late(r))
  BY <1>1 DEF Recorded, Execute, LogGeneric, client
<1>3. ~tangled /\ ~Tangles(log') /\ ~OtherName(r) /\ ~Mistaken(r) /\ ~Late(r)
  BY <1>2
<1>4. ~Tangles(Append(log, r))
  BY <1>2, <1>3
<1>5. r \in Recs /\ Effect(src, call.tree, r)
  BY <1>1, <1>3 DEF Recorded
<1>6. /\ Accounted(log, src) => Accounted(Append(log, r), call.tree)
      /\ Accounted(sync, src) => Accounted(sync, call.tree)
  BY <1>3, <1>4, <1>5, EffectKeeps DEF MInv
<1> QED BY <1>2, <1>3, <1>6

-----------------------------------------------------------------------------
(* Loading the log.                                                        *)

Writes(ops) == \E n \in DOMAIN ops : ops[n].type = "WRITE"

\* The rest of the log l accounts for what the tables hold.
Loaded(tb, l, t) ==
  /\ ~tb.crashed
  /\ \A i \in DOMAIN tb.inodes :
       /\ Named(t, i) \/ \E j \in DOMAIN l : LastOf(l[j], i)
       /\ \A j \in DOMAIN l : OneOfSeveral(l[j]) => l[j].op.inode # i
  /\ \A k \in DOMAIN tb.files : Writes(tb.files[k].ops) =>
       \/ Is(t, tb.files[k].path, "file")
       \/ \E j \in DOMAIN l : l[j].op.type = "UNLINK" /\ l[j].path = tb.files[k].path

\* A removal that is given its number.
LEMMA NumberedRemoval ==
  ASSUME NEW o \in Ops, NEW n \in Nat
  PROVE  LET u == [o EXCEPT !.id = n]
         IN  o.type = "UNLINK" => u.last_link = o.last_link /\ u.inode = o.inode
<1> SUFFICES ASSUME o.type = "UNLINK"
             PROVE  LET u == [o EXCEPT !.id = n] IN u.last_link = o.last_link /\ u.inode = o.inode
  OBVIOUS
<1>1. o \in UnlinkOps
  BY DEF Ops, WriteOps, LinkOps, SymlinkOps, RenameOps, MknodOps, ModeOps, ChownOps,
     TruncateOps, RmdirOps
<1> QED BY <1>1 DEF UnlinkOps

\* The operations of a file and one more.
LEMMA AppendWrites ==
  ASSUME NEW ops \in Seq(Ops), NEW o \in Ops, Writes(Append(ops, o))
  PROVE  Writes(ops) \/ o.type = "WRITE"
  BY DEF Writes

\* A write that an entry has was there already or is the record's, and none is left
\* where a name has gone.
WritesFrom(u, tb, r) ==
  \A k \in DOMAIN u.files : Writes(u.files[k].ops) =>
    \/ r.op.type = "WRITE" /\ u.files[k].path = r.path
    \/ /\ \E j \in DOMAIN tb.files : /\ tb.files[j].path = u.files[k].path
                                     /\ Writes(tb.files[j].ops)
       /\ ~(r.op.type = "UNLINK" /\ u.files[k].path = r.path)

\* What is set aside after it.
AsideFrom(u, tb, r) ==
  \A i \in DOMAIN u.inodes :
    /\ ~LastOf(r, i)
    /\ i \in DOMAIN tb.inodes \/ (OneOfSeveral(r) /\ i = r.op.inode)

\* Setting aside for an i-node that has nothing set aside yet.
LEMMA SetAsideEffect ==
  ASSUME NEW tb \in ClientTables, ~tb.crashed, NEW p, NEW i, i \notin DOMAIN tb.inodes
  PROVE  LET u == SetAside(tb, p, i)
         IN  ~u.crashed /\ DOMAIN u.inodes \subseteq DOMAIN tb.inodes \union {i}
<1>1. CASE Has(tb, p)
  <2> DEFINE e == [Entry(tb, p) EXCEPT !.created = FALSE]
             f == [j \in DOMAIN tb.inodes \union {i} |-> IF j = i THEN e ELSE tb.inodes[j]]
  <2>1. SetAside(tb, p, i) = [tb EXCEPT !.inodes = f]
    BY <1>1 DEF SetAside, WithInode, ClientTables
  <2>2. DOMAIN f = DOMAIN tb.inodes \union {i}
    OBVIOUS
  <2> HIDE DEF f
  <2> QED BY <2>1, <2>2 DEF ClientTables
<1>2. CASE ~Has(tb, p)
  BY <1>2 DEF SetAside
<1> QED BY <1>1, <1>2

\* What addOperation() does to the writes and to what is set aside.
LEMMA RemovalLoads ==
  ASSUME NEW tb \in ClientTables, Consistent(tb), ~tb.crashed, NEW r \in Recs,
         NEW o \in Ops, o.type = r.op.type, o.type \in Removals,
         o.type = "UNLINK" => o.last_link = r.op.last_link /\ o.inode = r.op.inode,
         OneOfSeveral(r) => r.op.inode \notin DOMAIN tb.inodes
  PROVE  LET u == AddRemoval(tb, r.path, o)
         IN  ~u.crashed /\ AsideFrom(u, tb, r) /\ WritesFrom(u, tb, r)
<1> DEFINE p == r.path
           kept == CASE o.type = "RMDIR" -> tb
                     [] o.type = "UNLINK" /\ o.last_link -> WithoutInode(tb, o.inode)
                     [] OTHER -> SetAside(tb, p, o.inode)
           d == Deleted(kept, p)
           Only(op) == Added(d, [NewEntry(p) EXCEPT !.ops = <<op>>])
           first == Entry(tb, p).ops[1]
           u == AddRemoval(tb, p, o)
<1>1. /\ kept \in ClientTables /\ Consistent(kept) /\ kept.files = tb.files
      /\ ~kept.crashed /\ AsideFrom(kept, tb, r)
  <2>1. CASE o.type = "RMDIR"
    BY <2>1 DEF AsideFrom, LastOf
  <2>2. CASE o.type = "UNLINK" /\ o.last_link
    <3> DEFINE w == WithoutInode(tb, o.inode)
    <3>1. NewEntry(p) \in Entries
      BY NewEntryFacts DEF Recs
    <3>2. /\ w \in ClientTables /\ w = [tb EXCEPT !.inodes = w.inodes] /\ AsideFull(w)
          /\ DOMAIN w.inodes = DOMAIN tb.inodes \ {o.inode}
      BY <3>1, AsideFacts DEF Consistent
    <3>3. kept = w
      BY <2>2
    <3> HIDE DEF w, kept
    <3>4. w.files = tb.files /\ w.order = tb.order /\ w.crashed = tb.crashed
      BY <3>2 DEF ClientTables
    <3>5. Consistent(w)
      BY <3>2, <3>4 DEF Consistent, Ranked, Distinct
    <3>6. AsideFrom(w, tb, r)
      BY <2>2, <3>2 DEF AsideFrom, LastOf
    <3> QED BY <3>2, <3>3, <3>4, <3>5, <3>6
  <2>3. CASE o.type = "UNLINK" /\ ~o.last_link
    <3>1. o.inode \in Inodes /\ OneOfSeveral(r)
      BY <2>3, OpFacts DEF WellTyped, Removals, OneOfSeveral
    <3>2. kept = SetAside(tb, p, o.inode)
      BY <2>3
    <3>3. o.inode \notin DOMAIN tb.inodes
      BY <2>3, <3>1
    <3> HIDE DEF kept
    <3>4. kept \in ClientTables /\ Consistent(kept) /\ kept.files = tb.files
      BY <3>1, <3>2, SetAsideKeeps
    <3>5. ~kept.crashed /\ DOMAIN kept.inodes \subseteq DOMAIN tb.inodes \union {o.inode}
      BY <3>2, <3>3, SetAsideEffect
    <3>6. AsideFrom(kept, tb, r)
      BY <2>3, <3>1, <3>5 DEF AsideFrom, LastOf, OneOfSeveral
    <3> QED BY <3>4, <3>5, <3>6
  <2> QED BY <2>1, <2>2, <2>3 DEF Removals
<1>2. u = IF Has(tb, p) /\ first.type \in Removals THEN Only(first)
          ELSE IF Has(tb, p) /\ Entry(tb, p).created THEN d ELSE Only(o)
  BY DEF AddRemoval
<1> HIDE DEF kept, u
<1>3. /\ d \in ClientTables /\ d = [kept EXCEPT !.files = d.files]
      /\ ~Has(d, p)
      /\ \E g \in [DOMAIN d.files -> DOMAIN kept.files] :
           \A k \in DOMAIN d.files : d.files[k] = kept.files[g[k]]
  BY <1>1, DeletedFacts DEF Consistent
<1> HIDE DEF d
<1>4. d.inodes = kept.inodes /\ d.crashed = kept.crashed
  BY <1>1, <1>3 DEF ClientTables
<1>5. \A k \in DOMAIN d.files : /\ d.files[k].path # p
                                /\ \E j \in DOMAIN tb.files : tb.files[j] = d.files[k]
  BY <1>1, <1>3 DEF Has
<1>6. ~d.crashed /\ AsideFrom(d, tb, r) /\ WritesFrom(d, tb, r)
  <2>1. WritesFrom(d, tb, r)
    BY <1>5 DEF WritesFrom
  <2> QED BY <1>1, <1>4, <2>1 DEF AsideFrom
<1>7. ASSUME NEW op \in Ops, op.type \in Removals
      PROVE  LET w == Only(op)
             IN  ~w.crashed /\ AsideFrom(w, tb, r) /\ WritesFrom(w, tb, r)
  <2> DEFINE e == [NewEntry(p) EXCEPT !.ops = <<op>>]
             w == Added(d, e)
  <2>1. ~Writes(e.ops)
    BY <1>7 DEF Writes, NewEntry, Removals
  <2> HIDE DEF e
  <2>2. /\ w.files = Append(d.files, e) /\ w.inodes = d.inodes /\ w.crashed = d.crashed
        /\ d.files \in Seq(Entries)
    BY <1>3 DEF Added, ClientTables
  <2>3. \A k \in DOMAIN w.files : w.files[k] = e \/ (k \in DOMAIN d.files /\ w.files[k] = d.files[k])
    BY <2>2
  <2> HIDE DEF w
  <2>4. WritesFrom(w, tb, r)
    BY <1>6, <2>1, <2>3 DEF WritesFrom
  <2>5. ~w.crashed /\ AsideFrom(w, tb, r)
    BY <1>6, <2>2 DEF AsideFrom
  <2> QED BY <2>4, <2>5 DEF w, e
<1>8. Has(tb, p) => first \in Ops
  <2> SUFFICES ASSUME Has(tb, p) PROVE first \in Ops
    OBVIOUS
  <2>1. Entry(tb, p) \in Entries /\ Entry(tb, p).ops # <<>>
    BY EntryFacts DEF Consistent, Ranked
  <2> QED BY <2>1 DEF Entries
<1> HIDE DEF Only, first, p
<1>9. ~u.crashed /\ AsideFrom(u, tb, r) /\ WritesFrom(u, tb, r)
  BY <1>2, <1>6, <1>7, <1>8
<1> QED BY <1>9 DEF u, p

LEMMA OtherLoads ==
  ASSUME NEW tb \in ClientTables, ~tb.crashed, NEW r \in Recs,
         NEW p \in Paths, NEW o \in Ops, o.type = r.op.type, o.type \notin Removals,
         o.type = "WRITE" => p = r.path
  PROVE  LET u == AddOther(tb, p, o)
         IN  ~u.crashed /\ AsideFrom(u, tb, r) /\ WritesFrom(u, tb, r)
<1> DEFINE f == IF Has(tb, p) THEN Entry(tb, p)
                ELSE [NewEntry(p) EXCEPT !.created = o.type \in Creations]
           e == [f EXCEPT !.ops = Append(@, o), !.order = IF @ = -1 THEN tb.order ELSE @]
           t == IF Has(tb, p) THEN Changed(tb, e) ELSE Added(tb, e)
           u == AddOther(tb, p, o)
<1>1. u = [t EXCEPT !.order = IF f.order = -1 THEN @ + 1 ELSE @]
  BY DEF AddOther
<1>2. /\ f \in Entries /\ f.path = p
      /\ \/ f.ops = <<>>
         \/ \E j \in DOMAIN tb.files : tb.files[j] = f
  <2>1. CASE Has(tb, p)
    <3>1. f = Entry(tb, p)
      BY <2>1
    <3> HIDE DEF f
    <3> QED BY <2>1, <3>1, EntryFacts
  <2>2. CASE ~Has(tb, p)
    <3> DEFINE c == o.type \in Creations
    <3>1. NewEntry(p) \in Entries /\ c \in BOOLEAN
      BY NewEntryFacts
    <3>2. f = [NewEntry(p) EXCEPT !.created = c]
      BY <2>2
    <3> HIDE DEF f, c
    <3>3. f \in Entries
      BY <3>1, <3>2 DEF Entries
    <3>4. f.path = p /\ f.ops = <<>>
      BY <3>2 DEF NewEntry
    <3> QED BY <3>3, <3>4
  <2> QED BY <2>1, <2>2
<1> HIDE DEF f
<1>3. f.ops \in Seq(Ops) /\ e.ops = Append(f.ops, o) /\ e.path = p
  BY <1>2 DEF Entries
<1>4. Writes(e.ops) => \/ r.op.type = "WRITE" /\ p = r.path
                       \/ \E j \in DOMAIN tb.files : /\ tb.files[j].path = p
                                                     /\ Writes(tb.files[j].ops)
  <2> SUFFICES ASSUME Writes(e.ops), o.type # "WRITE"
               PROVE  \E j \in DOMAIN tb.files : /\ tb.files[j].path = p
                                                 /\ Writes(tb.files[j].ops)
    OBVIOUS
  <2>1. Writes(f.ops)
    BY <1>3, AppendWrites
  <2>2. f.ops # <<>>
    BY <2>1 DEF Writes
  <2> QED BY <1>2, <2>1, <2>2
<1> HIDE DEF e
<1>5. /\ t.inodes = tb.inodes /\ t.crashed = tb.crashed
      /\ \A k \in DOMAIN t.files : t.files[k] = e \/ (k \in DOMAIN tb.files /\ t.files[k] = tb.files[k])
      /\ u.inodes = t.inodes /\ u.crashed = t.crashed /\ u.files = t.files
  <2>1. CASE Has(tb, p)
    <3> DEFINE g == [k \in DOMAIN tb.files |-> IF tb.files[k].path = e.path THEN e ELSE tb.files[k]]
    <3>1. t = [tb EXCEPT !.files = g]
      BY <2>1 DEF Changed, ClientTables
    <3>2. \A k \in DOMAIN g : g[k] = e \/ (k \in DOMAIN tb.files /\ g[k] = tb.files[k])
      OBVIOUS
    <3> HIDE DEF g, t, u
    <3> QED BY <1>1, <3>1, <3>2 DEF ClientTables
  <2>2. CASE ~Has(tb, p)
    <3> DEFINE g == Append(tb.files, e)
    <3>1. t = [tb EXCEPT !.files = g]
      BY <2>2 DEF Added, ClientTables
    <3>2. \A k \in DOMAIN g : g[k] = e \/ (k \in DOMAIN tb.files /\ g[k] = tb.files[k])
      BY DEF ClientTables
    <3> HIDE DEF g, t, u
    <3> QED BY <1>1, <3>1, <3>2 DEF ClientTables
  <2> QED BY <2>1, <2>2
<1> HIDE DEF t, u
<1>6. r.op.type # "UNLINK"
  BY DEF Removals
<1>7. WritesFrom(u, tb, r)
  <2> SUFFICES ASSUME NEW k \in DOMAIN u.files, Writes(u.files[k].ops)
               PROVE  \/ r.op.type = "WRITE" /\ u.files[k].path = r.path
                      \/ \E j \in DOMAIN tb.files : /\ tb.files[j].path = u.files[k].path
                                                    /\ Writes(tb.files[j].ops)
    BY <1>6 DEF WritesFrom
  <2>1. CASE u.files[k] = e
    BY <1>3, <1>4, <2>1 DEF e
  <2>2. CASE u.files[k] # e
    BY <1>5, <2>2
  <2> QED BY <2>1, <2>2
<1>8. AsideFrom(u, tb, r)
  BY <1>5, <1>6 DEF AsideFrom, LastOf
<1> QED BY <1>5, <1>7, <1>8 DEF u

LEMMA OperationLoads ==
  ASSUME NEW tb \in ClientTables, Consistent(tb), ~tb.crashed, NEW r \in Recs,
         OneOfSeveral(r) => r.op.inode \notin DOMAIN tb.inodes
  PROVE  LET u == AddOperation(tb, r.path, r.op)
         IN  ~u.crashed /\ AsideFrom(u, tb, r) /\ WritesFrom(u, tb, r)
<1> DEFINE o == [r.op EXCEPT !.id = tb.id]
           t == [tb EXCEPT !.id = @ + 1]
           u == AddOperation(tb, r.path, r.op)
<1>0. r.path \in Paths /\ r.op \in Ops
  BY DEF Recs
<1>1. /\ o \in Ops /\ o.type = r.op.type /\ (o.type = "LINK" => o.newpath \in Paths)
      /\ o.type = "UNLINK" => o.last_link = r.op.last_link /\ o.inode = r.op.inode
  <2>1. tb.id \in Nat
    BY DEF ClientTables
  <2>2. /\ o \in Ops /\ o.type = r.op.type
        /\ o.type = "UNLINK" => o.last_link = r.op.last_link /\ o.inode = r.op.inode
    BY <1>0, <2>1, Numbered, NumberedRemoval
  <2> HIDE DEF o
  <2> QED BY <2>2, OpFacts DEF WellTyped
<1>2. /\ t \in ClientTables /\ Consistent(t) /\ ~t.crashed
      /\ t.inodes = tb.inodes /\ t.files = tb.files
  BY DEF ClientTables, Consistent, Ranked, Distinct, AsideFull
<1>3. u = CASE o.type \in Removals -> AddRemoval(t, r.path, o)
            [] o.type = "LINK" -> AddOther(t, o.newpath, o)
            [] OTHER -> AddOther(t, r.path, o)
  BY DEF AddOperation
<1> HIDE DEF o, t, u
<1>4. ~u.crashed /\ AsideFrom(u, t, r) /\ WritesFrom(u, t, r)
  <2>1. CASE o.type \in Removals
    <3>1. u = AddRemoval(t, r.path, o)
      BY <1>3, <2>1 DEF Removals
    <3>2. OneOfSeveral(r) => r.op.inode \notin DOMAIN t.inodes
      BY <1>2
    <3> QED BY <1>1, <1>2, <2>1, <3>1, <3>2, RemovalLoads
  <2>2. CASE o.type = "LINK"
    <3>1. o.type \notin Removals /\ u = AddOther(t, o.newpath, o)
      BY <1>3, <2>2 DEF Removals
    <3> QED BY <1>0, <1>1, <1>2, <2>2, <3>1, OtherLoads
  <2>3. CASE o.type \notin Removals /\ o.type # "LINK"
    BY <1>0, <1>1, <1>2, <1>3, <2>3, OtherLoads
  <2> QED BY <2>1, <2>2, <2>3
<1>5. AsideFrom(u, tb, r) /\ WritesFrom(u, tb, r)
  BY <1>2, <1>4 DEF AsideFrom, WritesFrom
<1> QED BY <1>4, <1>5 DEF u

\* What is accounted for stays so as the log is read.
LEMMA LoadAccounts ==
  ASSUME NEW l \in Seq(Recs), l # <<>>, NEW tb \in ClientTables, Consistent(tb), NEW t,
         Accounted(l, t), Loaded(tb, l, t)
  PROVE  /\ Accounted(Tail(l), t)
         /\ Loaded(AddOperation(tb, Head(l).path, Head(l).op), Tail(l), t)
<1> DEFINE n == Len(l)
           m == Tail(l)
           r == Head(l)
           u == AddOperation(tb, r.path, r.op)
<1>1. /\ n \in Nat \ {0} /\ DOMAIN l = 1..n /\ r = l[1] /\ r \in Recs /\ 1 \in DOMAIN l
      /\ DOMAIN m = 1..n - 1
      /\ \A k \in 1..n - 1 : k + 1 \in DOMAIN l /\ m[k] = l[k + 1]
      /\ \A k \in DOMAIN l : k = 1 \/ (k - 1 \in 1..n - 1 /\ m[k - 1] = l[k])
      /\ \A k \in DOMAIN l : l[k] \in Recs
  OBVIOUS
<1> HIDE DEF n, m, r
<1>2. \A k \in DOMAIN l : \A j \in DOMAIN l : j > k =>
        j - 1 \in DOMAIN m /\ m[j - 1] = l[j] /\ j - 1 > k - 1
  BY <1>1
<1>3. Accounted(m, t)
  <2>1. Homes(m, t)
    <3> SUFFICES ASSUME NEW k \in 1..n - 1, OneOfSeveral(m[k])
                 PROVE  \/ Named(t, m[k].op.inode)
                        \/ \E j \in DOMAIN m : j > k /\ LastOf(m[j], m[k].op.inode)
      BY <1>1 DEF Homes
    <3>1. k + 1 \in DOMAIN l /\ m[k] = l[k + 1] /\ (k + 1) - 1 = k
      BY <1>1
    <3>2. \/ Named(t, m[k].op.inode)
          \/ \E j \in DOMAIN l : j > k + 1 /\ LastOf(l[j], m[k].op.inode)
      BY <3>1 DEF Accounted, Homes
    <3>3. ASSUME NEW j \in DOMAIN l, j > k + 1, LastOf(l[j], m[k].op.inode)
          PROVE  \E i \in DOMAIN m : i > k /\ LastOf(m[i], m[k].op.inode)
      BY <1>2, <3>1, <3>3
    <3> QED BY <3>2, <3>3
  <2>2. Once(m)
    <3> SUFFICES ASSUME NEW j \in 1..n - 1, NEW k \in 1..n - 1, j < k,
                        OneOfSeveral(m[j]), OneOfSeveral(m[k])
                 PROVE  m[j].op.inode # m[k].op.inode
      BY <1>1 DEF Once
    <3>1. /\ j + 1 \in DOMAIN l /\ k + 1 \in DOMAIN l /\ j + 1 < k + 1
          /\ m[j] = l[j + 1] /\ m[k] = l[k + 1]
      BY <1>1
    <3> QED BY <3>1 DEF Accounted, Once
  <2>3. Written(m, t)
    <3> SUFFICES ASSUME NEW k \in 1..n - 1, m[k].op.type = "WRITE"
                 PROVE  \/ Is(t, m[k].path, "file")
                        \/ \E j \in DOMAIN m : /\ j > k /\ m[j].op.type = "UNLINK"
                                               /\ m[j].path = m[k].path
      BY <1>1 DEF Written
    <3>1. k + 1 \in DOMAIN l /\ m[k] = l[k + 1] /\ (k + 1) - 1 = k
      BY <1>1
    <3>2. \/ Is(t, m[k].path, "file")
          \/ \E j \in DOMAIN l : /\ j > k + 1 /\ l[j].op.type = "UNLINK"
                                 /\ l[j].path = m[k].path
      BY <3>1 DEF Accounted, Written
    <3>3. ASSUME NEW j \in DOMAIN l, j > k + 1, l[j].op.type = "UNLINK", l[j].path = m[k].path
          PROVE  \E i \in DOMAIN m : /\ i > k /\ m[i].op.type = "UNLINK"
                                     /\ m[i].path = m[k].path
      BY <1>2, <3>1, <3>3
    <3> QED BY <3>2, <3>3
  <2> QED BY <2>1, <2>2, <2>3 DEF Accounted
<1>4. ~u.crashed /\ AsideFrom(u, tb, r) /\ WritesFrom(u, tb, r)
  <2>1. OneOfSeveral(r) => r.op.inode \notin DOMAIN tb.inodes
    BY <1>1 DEF Loaded
  <2> QED BY <1>1, <2>1, OperationLoads DEF Loaded
<1> HIDE DEF u
<1>5. ASSUME NEW i \in DOMAIN u.inodes
      PROVE  /\ Named(t, i) \/ \E j \in DOMAIN m : LastOf(m[j], i)
             /\ \A j \in DOMAIN m : OneOfSeveral(m[j]) => m[j].op.inode # i
  <2>1. ~LastOf(r, i) /\ (i \in DOMAIN tb.inodes \/ (OneOfSeveral(r) /\ i = r.op.inode))
    BY <1>4 DEF AsideFrom
  <2>2. Named(t, i) \/ \E j \in DOMAIN l : LastOf(l[j], i)
    BY <1>1, <2>1 DEF Accounted, Homes, Loaded
  <2>3. ASSUME NEW j \in DOMAIN l, LastOf(l[j], i) PROVE \E k \in DOMAIN m : LastOf(m[k], i)
    BY <1>1, <2>1, <2>3
  <2>4. ASSUME NEW j \in DOMAIN m, OneOfSeveral(m[j]) PROVE m[j].op.inode # i
    <3>1. j + 1 \in DOMAIN l /\ m[j] = l[j + 1] /\ 1 < j + 1
      BY <1>1
    <3> QED BY <1>1, <2>1, <2>4, <3>1 DEF Accounted, Once, Loaded
  <2> QED BY <2>2, <2>3, <2>4
<1>6. ASSUME NEW k \in DOMAIN u.files, Writes(u.files[k].ops)
      PROVE  \/ Is(t, u.files[k].path, "file")
             \/ \E j \in DOMAIN m : m[j].op.type = "UNLINK" /\ m[j].path = u.files[k].path
  <2> DEFINE p == u.files[k].path
  <2>1. CASE r.op.type = "WRITE" /\ p = r.path
    <3>1. \/ Is(t, p, "file")
          \/ \E j \in DOMAIN l : j > 1 /\ l[j].op.type = "UNLINK" /\ l[j].path = p
      BY <1>1, <2>1 DEF Accounted, Written
    <3> QED BY <1>1, <1>2, <3>1
  <2>2. CASE /\ \E j \in DOMAIN tb.files : tb.files[j].path = p /\ Writes(tb.files[j].ops)
             /\ ~(r.op.type = "UNLINK" /\ p = r.path)
    <3>1. \/ Is(t, p, "file")
          \/ \E j \in DOMAIN l : l[j].op.type = "UNLINK" /\ l[j].path = p
      BY <2>2 DEF Loaded
    <3>2. ASSUME NEW j \in DOMAIN l, l[j].op.type = "UNLINK", l[j].path = p
          PROVE  j - 1 \in DOMAIN m /\ m[j - 1] = l[j]
      BY <1>1, <2>2, <3>2
    <3> QED BY <3>1, <3>2
  <2> QED BY <1>4, <1>6, <2>1, <2>2 DEF WritesFrom
<1>7. Loaded(u, m, t)
  BY <1>4, <1>5, <1>6 DEF Loaded
<1> QED BY <1>3, <1>7 DEF m, u, r

-----------------------------------------------------------------------------
(* The matching of what was set aside.                                     *)

\* What was set aside is of files that have names.
AllNamed(tb, t) == \A i \in DOMAIN tb.inodes : Named(t, i)

\* What was written to can be opened.
Led(tb, t) == \A k \in DOMAIN tb.files :
                Writes(tb.files[k].ops) => Stat(t, tb.files[k].path) # Nowhere

Ready(tb, t) == DOMAIN tb.inodes = {} /\ Led(tb, t)

\* stat() finds a file where there is one.
LEMMA StatFile ==
  ASSUME NEW t, NEW p \in Paths, Is(t, p, "file")
  PROVE  Stat(t, p) # Nowhere
  BY DEF Stat, Resolve, Is, Exists

\* What was set aside for i has found a name.
LEMMA MatchedEffect ==
  ASSUME NEW tb \in FullTables, NEW i \in DOMAIN tb.inodes, NEW e \in FullEntries, NEW t,
         NEW u \in {WithoutInode(Changed(tb, e), i),
                    [WithoutInode(Added(tb, e), i) EXCEPT !.order = @ + 1]}
  PROVE  /\ DOMAIN u.inodes = DOMAIN tb.inodes \ {i}
         /\ AllNamed(tb, t) => AllNamed(u, t)
         /\ Led(tb, t) /\ Stat(t, e.path) # Nowhere => Led(u, t)
<1> DEFINE s == tb.files
           f == [k \in DOMAIN s |-> IF s[k].path = e.path THEN e ELSE s[k]]
           a == Append(s, e)
           g == [j \in DOMAIN tb.inodes \ {i} |-> tb.inodes[j]]
<1>1. s \in Seq(Entries) /\ tb \in ClientTables
  BY DEF FullTables, ClientTables
<1>2. /\ \A k \in DOMAIN f : f[k] = e \/ (k \in DOMAIN s /\ f[k] = s[k])
      /\ \A k \in DOMAIN a : a[k] = e \/ (k \in DOMAIN s /\ a[k] = s[k])
      /\ DOMAIN g = DOMAIN tb.inodes \ {i}
  BY <1>1
<1>3. Changed(tb, e) = [tb EXCEPT !.files = f] /\ Added(tb, e) = [tb EXCEPT !.files = a]
  BY <1>1 DEF Changed, Added, ClientTables
<1> HIDE DEF f, a
<1>4. ASSUME NEW w, NEW x, x = [tb EXCEPT !.files = w]
      PROVE  /\ WithoutInode(x, i).files = w /\ WithoutInode(x, i).inodes = g
             /\ [WithoutInode(x, i) EXCEPT !.order = @ + 1].files = w
             /\ [WithoutInode(x, i) EXCEPT !.order = @ + 1].inodes = g
  <2>1. /\ x.files = w /\ x.inodes = tb.inodes
        /\ x = [files |-> w, inodes |-> tb.inodes, order |-> tb.order, id |-> tb.id,
                crashed |-> tb.crashed]
    BY <1>1, <1>4 DEF ClientTables
  <2>2. WithoutInode(x, i) = [x EXCEPT !.inodes = g]
    BY <2>1 DEF WithoutInode
  <2> HIDE DEF g
  <2> QED BY <2>1, <2>2
<1>5. u.inodes = g /\ u.files \in {f, a}
  <2>1. CASE u = WithoutInode(Changed(tb, e), i)
    BY <1>3, <1>4, <2>1
  <2>2. CASE u = [WithoutInode(Added(tb, e), i) EXCEPT !.order = @ + 1]
    BY <1>3, <1>4, <2>2
  <2> QED BY <2>1, <2>2
<1> HIDE DEF g
<1>6. \A k \in DOMAIN u.files : \/ u.files[k] = e
                                \/ k \in DOMAIN s /\ u.files[k] = s[k]
  BY <1>2, <1>5
<1> QED BY <1>2, <1>5, <1>6 DEF AllNamed, Led

\* The first pass on its way: the variable never holds an i-node that still has
\* something set aside, so that nothing is matched by what was in it.
Leading(D, t) ==
  {st \in Matched : /\ DOMAIN st.tb.inodes \subseteq D /\ st.inode \notin DOMAIN st.tb.inodes
                    /\ AllNamed(st.tb, t) /\ Led(st.tb, t)}

\* The first pass only matches files by what stat() says of them.
LEMMA MatchEntriesLead ==
  ASSUME NEW tb \in FullTables, NEW t \in Trees, AllNamed(tb, t), Led(tb, t),
         NEW memory \in Inodes \union {0}, memory \notin DOMAIN tb.inodes
  PROVE  LET u == MatchEntries(tb, t, memory)
         IN  /\ u \in FullTables /\ AllNamed(u, t) /\ Led(u, t)
             /\ DOMAIN u.inodes \subseteq DOMAIN tb.inodes
<1> DEFINE n == Len(tb.files)
           V == Leading(DOMAIN tb.inodes, t)
           base == [tb |-> tb, inode |-> memory]
           Visit(st, e) ==
             LET i == IF Stat(t, e.path) = Nowhere THEN st.inode ELSE Stat(t, e.path)
             IN  IF i \in DOMAIN st.tb.inodes
                 THEN [tb |-> WithoutInode(Changed(st.tb, Merge(e, st.tb.inodes[i])), i),
                       inode |-> i]
                 ELSE [st EXCEPT !.inode = i]
           F == [x \in V \X FullEntries |-> Visit(x[1], x[2])]
           it == CHOOSE it : it = [s \in SUBSET (DOMAIN tb.files) |->
                   IF s = {} THEN base ELSE Visit(it[s \ {Max(s)}], tb.files[Max(s)])]
<1>1. MatchEntries(tb, t, memory) = it[DOMAIN tb.files].tb
  BY DEF MatchEntries, FoldLeft, MapThenFoldSet
<1>2. /\ n \in Nat /\ DOMAIN tb.files = 1..n /\ tb.files \in [1..n -> FullEntries]
      /\ base \in V
  BY DEF FullTables, Full, ClientTables, FullEntries, Matched, Leading
<1>3. /\ F \in [V \X FullEntries -> V]
      /\ \A v \in V, e \in FullEntries : F[<<v, e>>] = Visit(v, e)
  <2>1. ASSUME NEW v \in V, NEW e \in FullEntries PROVE Visit(v, e) \in V
    <3> DEFINE i == IF Stat(t, e.path) = Nowhere THEN v.inode ELSE Stat(t, e.path)
    <3>1. /\ e \in Entries /\ e.path \in Paths /\ v \in Matched /\ v.tb \in FullTables
          /\ DOMAIN v.tb.inodes \subseteq DOMAIN tb.inodes
          /\ v.inode \notin DOMAIN v.tb.inodes /\ AllNamed(v.tb, t) /\ Led(v.tb, t)
      BY DEF FullEntries, Entries, Matched, Leading
    <3>2. i \in Inodes \union {0}
      BY <3>1, ResolveFacts DEF Matched
    <3>3. i \in DOMAIN v.tb.inodes => Stat(t, e.path) # Nowhere
      BY <3>1
    <3> HIDE DEF i
    <3>4. CASE i \in DOMAIN v.tb.inodes
      <4> DEFINE m == Merge(e, v.tb.inodes[i])
                 u == WithoutInode(Changed(v.tb, m), i)
      <4>1. m \in FullEntries /\ m.path = e.path
        BY <3>1, <3>4, MergeFacts
      <4>2. Visit(v, e) = [tb |-> u, inode |-> i]
        BY <3>4 DEF i
      <4> HIDE DEF m, Visit
      <4>3. u \in FullTables
        BY <3>1, <3>4, <4>1, MatchedKeeps
      <4>4. /\ DOMAIN u.inodes = DOMAIN v.tb.inodes \ {i}
            /\ AllNamed(u, t) /\ Led(u, t)
        BY <3>1, <3>3, <3>4, <4>1, MatchedEffect
      <4> HIDE DEF u
      <4> QED BY <3>1, <3>2, <4>2, <4>3, <4>4 DEF Matched, Leading
    <3>5. CASE i \notin DOMAIN v.tb.inodes
      <4>1. Visit(v, e) = [v EXCEPT !.inode = i]
        BY <3>5 DEF i
      <4> HIDE DEF Visit
      <4>2. [v EXCEPT !.inode = i] \in Matched /\ [v EXCEPT !.inode = i].inode = i
            /\ [v EXCEPT !.inode = i].tb = v.tb
        BY <3>1, <3>2 DEF Matched
      <4> QED BY <3>1, <3>5, <4>1, <4>2 DEF Leading
    <3> QED BY <3>4, <3>5
  <2> HIDE DEF Visit, V
  <2> QED BY <2>1
<1> HIDE DEF Visit, F, base, n, V
<1>4. it = [s \in SUBSET (1..n) |->
              IF s = {} THEN base ELSE Visit(it[s \ {Max(s)}], tb.files[Max(s)])]
  <2>1. PICK g : IsFold(g, n, base, tb.files, F) /\ Within(g, n, V, tb.files, FullEntries)
    BY <1>2, <1>3, FoldFixed
  <2>2. \A s \in SUBSET (1..n) : s # {} =>
          F[<<g[s \ {Max(s)}], tb.files[Max(s)]>>] = Visit(g[s \ {Max(s)}], tb.files[Max(s)])
    BY <1>3, <2>1 DEF Within
  <2>3. g = [s \in SUBSET (1..n) |->
               IF s = {} THEN base ELSE F[<<g[s \ {Max(s)}], tb.files[Max(s)]>>]]
    BY <2>1 DEF IsFold
  <2>4. g = [s \in SUBSET (DOMAIN tb.files) |->
               IF s = {} THEN base ELSE Visit(g[s \ {Max(s)}], tb.files[Max(s)])]
    BY <1>2, <2>2, <2>3
  <2> QED BY <1>2, <2>4
<1> HIDE DEF it
<1>5. Follows(it, n, V, base, tb.files, F)
  BY ZenonT(40), <1>2, <1>3, <1>4, MaxIn DEF Follows
<1>6. Reaches(it, n, V, base, tb.files, F)
  BY <1>2, <1>3, <1>5, FoldValues
<1>7. it[1..n] \in V
  BY <1>2, <1>6 DEF Reaches
<1> QED BY <1>1, <1>2, <1>7 DEF Matched, Leading, V

\* The walk comes upon every name that matters and leaves nothing aside.
LEMMA MatchWalkLeads ==
  ASSUME NEW tb \in FullTables, NEW t \in Trees, AllNamed(tb, t), Led(tb, t),
         NEW n \in Nat, NEW walk \in [1..n -> Paths],
         \A p \in Paths : t.names[p] \in DOMAIN tb.inodes => \E k \in 1..n : walk[k] = p
  PROVE  Ready(MatchWalk(tb, t, walk), t)
<1> DEFINE V == {u \in FullTables : AllNamed(u, t) /\ Led(u, t)}
           Visit(u, p) ==
             LET i == t.names[p]
             IN  IF i \in DOMAIN u.inodes
                 THEN [WithoutInode(Added(u, Merge(NewEntry(p), u.inodes[i])), i)
                         EXCEPT !.order = @ + 1]
                 ELSE u
           F == [x \in V \X Paths |-> Visit(x[1], x[2])]
           it == CHOOSE it : it = [s \in SUBSET (DOMAIN walk) |->
                   IF s = {} THEN tb ELSE Visit(it[s \ {Max(s)}], walk[Max(s)])]
<1>1. MatchWalk(tb, t, walk) = it[DOMAIN walk]
  BY DEF MatchWalk, FoldLeft, MapThenFoldSet
<1>2. DOMAIN walk = 1..n /\ tb \in V
  OBVIOUS
<1>3. ASSUME NEW u \in V, NEW p \in Paths
      PROVE  Visit(u, p) \in V /\ DOMAIN Visit(u, p).inodes = DOMAIN u.inodes \ {t.names[p]}
  <2> DEFINE i == t.names[p]
  <2>1. CASE i \in DOMAIN u.inodes
    <3> DEFINE m == Merge(NewEntry(p), u.inodes[i])
               w == [WithoutInode(Added(u, m), i) EXCEPT !.order = @ + 1]
    <3>1. NewEntry(p) \in Entries /\ NewEntry(p).path = p
      BY NewEntryFacts DEF NewEntry
    <3>2. m \in FullEntries /\ m.path = p
      BY <2>1, <3>1, MergeFacts
    <3>3. Visit(u, p) = w
      BY <2>1
    <3>4. Stat(t, p) # Nowhere
      <4>1. Named(t, i) /\ i \in Inodes /\ i # Nowhere
        <5>1. i \in Inodes
          BY <2>1, <3>1, AsideFacts DEF FullTables
        <5> QED BY <2>1, <5>1, TreeAssumption DEF AllNamed
      <4>2. Is(t, p, "file")
        BY <4>1, TreeAssumption DEF Named, Is, Exists, At
      <4> QED BY <4>2, StatFile
    <3> HIDE DEF m, Visit
    <3>5. w \in FullTables
      BY <2>1, <3>2, MatchedKeeps
    <3>6. /\ DOMAIN w.inodes = DOMAIN u.inodes \ {i}
          /\ AllNamed(w, t) /\ Led(w, t)
      BY <2>1, <3>2, <3>4, MatchedEffect
    <3> HIDE DEF w
    <3> QED BY <3>3, <3>5, <3>6
  <2>2. CASE i \notin DOMAIN u.inodes
    BY <2>2
  <2> QED BY <2>1, <2>2
<1>4. /\ F \in [V \X Paths -> V]
      /\ \A u \in V, p \in Paths : F[<<u, p>>] = Visit(u, p)
  <2> HIDE DEF Visit, V
  <2> QED BY <1>3
<1> HIDE DEF Visit, F, V
<1>5. it = [s \in SUBSET (1..n) |->
              IF s = {} THEN tb ELSE Visit(it[s \ {Max(s)}], walk[Max(s)])]
  <2>1. PICK g : IsFold(g, n, tb, walk, F) /\ Within(g, n, V, walk, Paths)
    BY <1>2, <1>4, FoldFixed
  <2>2. \A s \in SUBSET (1..n) : s # {} =>
          F[<<g[s \ {Max(s)}], walk[Max(s)]>>] = Visit(g[s \ {Max(s)}], walk[Max(s)])
    BY <1>4, <2>1 DEF Within
  <2>3. g = [s \in SUBSET (1..n) |->
               IF s = {} THEN tb ELSE F[<<g[s \ {Max(s)}], walk[Max(s)]>>]]
    BY <2>1 DEF IsFold
  <2>4. g = [s \in SUBSET (DOMAIN walk) |->
               IF s = {} THEN tb ELSE Visit(g[s \ {Max(s)}], walk[Max(s)])]
    BY <1>2, <2>2, <2>3
  <2> QED BY <1>2, <2>4
<1> HIDE DEF it
<1>6. Follows(it, n, V, tb, walk, F)
  <2>1. it[{}] = tb
    BY <1>5
  <2>2. ASSUME NEW s \in SUBSET (1..n), s # {}, it[s \ {Max(s)}] \in V
        PROVE  it[s] = F[<<it[s \ {Max(s)}], walk[Max(s)]>>]
    <3>1. walk[Max(s)] \in Paths
      <4>1. Max(s) \in 1..n
        BY <2>2, MaxIn
      <4> QED BY <4>1
    <3>2. it[s] = Visit(it[s \ {Max(s)}], walk[Max(s)])
      BY <1>5, <2>2
    <3> QED BY <1>4, <2>2, <3>1, <3>2
  <2> QED BY <2>1, <2>2 DEF Follows
<1>7. PICK h \in [0..n -> V] : Values(h, n, tb, walk, F) /\ it[1..n] = h[n]
  <2>1. Reaches(it, n, V, tb, walk, F)
    BY <1>2, <1>4, <1>6, FoldValues
  <2> QED BY <2>1 DEF Reaches
<1> DEFINE S == {k \in 0..n : DOMAIN h[k].inodes
                                = DOMAIN tb.inodes \ {t.names[walk[j]] : j \in 1..k}}
<1>8. \A k \in 0..n : k \in S
  <2>1. 0 \in S
    BY <1>7 DEF Values
  <2>2. ASSUME NEW k \in 1..n, k - 1 \in S PROVE k \in S
    <3>1. k - 1 \in 0..n /\ k \in 0..n /\ 1..k = (1..k - 1) \union {k}
      OBVIOUS
    <3>2. h[k] = Visit(h[k - 1], walk[k]) /\ h[k - 1] \in V /\ walk[k] \in Paths
      BY <1>4, <1>7, <3>1 DEF Values
    <3>3. DOMAIN h[k].inodes = DOMAIN h[k - 1].inodes \ {t.names[walk[k]]}
      BY <1>3, <3>2
    <3>4. {t.names[walk[j]] : j \in 1..k}
            = {t.names[walk[j]] : j \in 1..k - 1} \union {t.names[walk[k]]}
      BY <3>1
    <3> QED BY <2>2, <3>1, <3>3, <3>4
  <2> HIDE DEF S
  <2> QED BY <2>1, <2>2, InductionUpTo DEF Inductive
<1>9. DOMAIN h[n].inodes = {} /\ h[n] \in V
  <2>1. n \in 0..n
    OBVIOUS
  <2>2. DOMAIN h[n].inodes = DOMAIN tb.inodes \ {t.names[walk[j]] : j \in 1..n}
    BY <1>8, <2>1
  <2>3. ASSUME NEW i \in DOMAIN tb.inodes PROVE \E j \in 1..n : t.names[walk[j]] = i
    BY DEF AllNamed, Named
  <2> QED BY <1>7, <2>1, <2>2, <2>3
<1> QED BY <1>1, <1>2, <1>7, <1>9 DEF Ready, V

\* A walk in any order comes upon everything.
LEMMA WalkFacts ==
  ASSUME NEW S, IsFiniteSet(S), NEW walk \in SetToSeqs(S)
  PROVE  /\ walk \in [1..Cardinality(S) -> S] /\ Cardinality(S) \in Nat
         /\ \A p \in S : \E k \in 1..Cardinality(S) : walk[k] = p
<1> DEFINE n == Cardinality(S)
<1>1. n \in Nat
  BY FS_CardinalityType
<1>2. /\ walk \in [1..n -> S]
      /\ \A i, j \in 1..n : i # j => walk[i] # walk[j]
  BY DEF SetToSeqs
<1>3. ASSUME NEW p \in S, \A k \in 1..n : walk[k] # p PROVE FALSE
  <2> DEFINE T == S \ {p}
  <2>1. IsFiniteSet(T) /\ Cardinality(T) = n - 1
    BY FS_RemoveElement
  <2>2. IsFiniteSet(1..n) /\ Cardinality(1..n) = n
    BY <1>1, FS_Interval
  <2>3. walk \in [1..n -> T]
    BY <1>2, <1>3
  <2> HIDE DEF T, n
  <2>4. Cardinality(T) < Cardinality(1..n)
    BY <1>1, <2>1, <2>2
  <2>5. \E i, j \in 1..n : i # j /\ walk[i] = walk[j]
    BY <2>1, <2>2, <2>3, <2>4, FS_PigeonHole
  <2> QED BY <1>2, <2>5
<1> QED BY <1>1, <1>2, <1>3

\* matchInodefiles() of what is accounted for leaves nothing aside, and only writes
\* to files that the snapshot has.
LEMMA MatchReadies ==
  ASSUME MInv, Match, ~tangled', Loaded(tables, sync, snap)
  PROVE  Ready(tables', snap)
<1> DEFINE aside == DOMAIN tables.inodes
           S == {p \in Paths : snap.names[p] \in aside}
<1>1. PICK memory \in aside \union {0}, walk \in SetToSeqs(S) :
        /\ tables' = MatchInodefiles(tables, snap, memory, walk)
        /\ tangled' = (tangled \/ memory \in aside)
  BY DEF Match
<1>2. tables \in FullTables /\ snap \in Trees
  BY DEF MInv, Match, Consistent, Full, Ranked, FullTables
<1>3. memory \notin aside /\ memory \in Inodes \union {0}
  BY <1>1
<1>4. AllNamed(tables, snap) /\ Led(tables, snap)
  <2>1. sync = <<>>
    BY DEF Match
  <2>2. AllNamed(tables, snap)
    BY <2>1 DEF AllNamed, Loaded
  <2>3. \A k \in DOMAIN tables.files : tables.files[k].path \in Paths
    <3>1. tables.files \in Seq(Entries)
      BY <1>2 DEF FullTables, ClientTables
    <3>2. \A k \in DOMAIN tables.files : tables.files[k] \in Entries
      BY <3>1
    <3> QED BY <3>2 DEF Entries
  <2>4. Led(tables, snap)
    BY <2>1, <2>3, StatFile DEF Led, Loaded
  <2> QED BY <2>2, <2>4
<1> DEFINE u == MatchEntries(tables, snap, memory)
<1>5. u \in FullTables /\ AllNamed(u, snap) /\ Led(u, snap) /\ DOMAIN u.inodes \subseteq aside
  BY <1>2, <1>3, <1>4, MatchEntriesLead
<1>6. IsFiniteSet(S)
  BY MirroringAssumption, FS_Subset
<1> DEFINE n == Cardinality(S)
<1>7. n \in Nat /\ walk \in [1..n -> S] /\ \A p \in S : \E k \in 1..n : walk[k] = p
  <2> HIDE DEF S
  <2> QED BY <1>6, WalkFacts
<1> HIDE DEF n, u
<1>8. walk \in [1..n -> Paths]
  BY <1>7
<1>9. \A p \in Paths : snap.names[p] \in DOMAIN u.inodes => \E k \in 1..n : walk[k] = p
  BY <1>5, <1>7
<1>10. Ready(MatchWalk(u, snap, walk), snap)
  BY <1>2, <1>5, <1>7, <1>8, <1>9, MatchWalkLeads
<1> QED BY <1>1, <1>10 DEF MatchInodefiles, u

-----------------------------------------------------------------------------
(* What becomes of what was set aside and of what was written.             *)

\* Programs leave nothing unaccounted for; from the snapshot on it is the snapshot
\* that accounts for what the log still has and for what the tables hold.
Matchable ==
  ~tangled =>
    /\ Accounted(log, src)
    /\ phase = "switched" => Accounted(sync, src)
    /\ phase = "loading" => Accounted(sync, snap) /\ Loaded(tables, sync, snap)
    /\ phase = "sending" => Ready(tables, snap)
    /\ phase # "crashed"

\* An empty log.
LEMMA NothingToAccount == ASSUME NEW t PROVE Accounted(<<>>, t)
  BY DEF Accounted, Homes, Once, Written

\* A write that is sent comes from a write of the file.
LEMMA WritesLeft ==
  ASSUME NEW f \in Entries, f.ops # <<>>, NEW ops \in OptimizeOperations(f.ops),
         ops # <<>>, Last(ops).type = "WRITE"
  PROVE  Writes(f.ops)
<1>1. f.ops \in Seq(Ops)
  BY DEF Entries
<1>2. ops \in Seq(Ops) /\ Spans(ops) \subseteq Spans(f.ops)
  BY <1>1, OptimizedFacts DEF Left
<1> DEFINE n == Len(ops)
<1>3. n \in DOMAIN ops /\ ops[n] \in Ops /\ ops[n].type = "WRITE"
  BY <1>2 DEF Last
<1>4. n \in WritesOf(ops) /\ ops[n].offset + 0 \in Span(ops[n])
  <2>1. ops[n].offset \in Nat /\ ops[n].size \in Nat \ {0}
    BY <1>3, SpanOf
  <2>2. 0 \in 0..ops[n].size - 1
    BY <2>1
  <2> QED BY <1>3, <2>2 DEF WritesOf, Span
<1>5. Spans(f.ops) # {}
  BY <1>2, <1>4 DEF Spans
<1> QED BY <1>5 DEF Spans, WritesOf, Writes

\* So the last file that is written to can be opened when it is closed.
LEMMA TransferReady ==
  ASSUME MInv, TransferFile, Ready(tables, snap)
  PROVE  Ready(tables', snap) /\ phase' = "sending"
<1> DEFINE f == First(tables.files)
<1>1. PICK ops \in OptimizeOperations(f.ops) :
        IF ops # <<>> /\ Last(ops).type = "WRITE" /\ Stat(snap, f.path) = Nowhere
        THEN phase' = "crashed" /\ UNCHANGED <<mirror, refused, tables>>
        ELSE tables' = Deleted(tables, f.path) /\ UNCHANGED phase
  BY DEF TransferFile
<1>2. tables \in ClientTables /\ tables.files \in Seq(Entries) /\ tables.files # <<>>
      /\ Full(tables)
  BY DEF MInv, TransferFile, ClientTables
<1>3. PICK k \in DOMAIN tables.files :
        f = tables.files[k] /\ f \in Entries /\ f.ops # <<>>
  <2>1. PICK k \in DOMAIN tables.files : f = tables.files[k]
    BY <1>2, FirstFacts
  <2>2. tables.files[k] \in Entries /\ tables.files[k].ops # <<>>
    BY <1>2 DEF Full
  <2> HIDE DEF f
  <2> QED BY <2>1, <2>2
<1> HIDE DEF f
<1>4. ~(ops # <<>> /\ Last(ops).type = "WRITE" /\ Stat(snap, f.path) = Nowhere)
  BY <1>3, WritesLeft DEF Ready, Led
<1>5. tables' = Deleted(tables, f.path) /\ phase' = "sending"
  BY <1>1, <1>4 DEF TransferFile
<1>6. Ready(Deleted(tables, f.path), snap)
  <2> DEFINE d == Deleted(tables, f.path)
  <2>1. d \in ClientTables /\ d = [tables EXCEPT !.files = d.files]
    BY <1>2, DeletedFacts
  <2>2. PICK g \in [DOMAIN d.files -> DOMAIN tables.files] :
          \A j \in DOMAIN d.files : d.files[j] = tables.files[g[j]]
    BY <1>2, DeletedFacts
  <2>3. d.inodes = tables.inodes
    BY <1>2, <2>1 DEF ClientTables
  <2> HIDE DEF d
  <2>4. Ready(d, snap)
    BY <2>2, <2>3 DEF Ready, Led
  <2> QED BY <2>4 DEF d
<1> QED BY <1>5, <1>6

\* It is inductive together with the invariant above.
LEMMA InitMatchable == MInit => Matchable
  BY NothingToAccount DEF MInit, Matchable

LEMMA StepMatchable == MInv /\ Matchable /\ [MNext]_mvars => Matchable'
<1> SUFFICES ASSUME MInv, Matchable, [MNext]_mvars, ~tangled'
             PROVE  /\ Accounted(log', src')
                    /\ phase' = "switched" => Accounted(sync', src')
                    /\ phase' = "loading" => Accounted(sync', snap') /\ Loaded(tables', sync', snap')
                    /\ phase' = "sending" => Ready(tables', snap')
                    /\ phase' # "crashed"
  BY DEF Matchable
<1>1. CASE Program
  <2>1. UNCHANGED client
    BY <1>1, ProgramKeeps DEF MInv
  <2>2. ~tangled /\ Accounted(log', src') /\ (Accounted(sync, src) => Accounted(sync', src'))
    BY <1>1, ProgramAccounts DEF Matchable
  <2>3. phase \in {"idle", "switched"}
    BY <1>1 DEF Program, Running
  <2> QED BY <2>1, <2>2, <2>3 DEF Matchable, client
<1>2. CASE SwitchLog
  BY <1>2, NothingToAccount DEF SwitchLog, Matchable
<1>3. CASE TakeSnapshot
  <2>1. Loaded(EmptyTables, sync, src)
    BY DEF Loaded, EmptyTables
  <2> QED BY <1>3, <2>1 DEF TakeSnapshot, Matchable
<1>4. CASE Load
  <2>1. /\ Accounted(log, src) /\ Accounted(sync, snap) /\ Loaded(tables, sync, snap)
        /\ sync # <<>> /\ sync' = Tail(sync)
        /\ tables' = AddOperation(tables, Head(sync).path, Head(sync).op)
        /\ phase' = IF tables'.crashed THEN "crashed" ELSE "loading"
        /\ UNCHANGED <<src, log, snap>>
    BY <1>4 DEF Load, Matchable
  <2>2. Accounted(sync', snap) /\ Loaded(tables', sync', snap)
    <3>1. sync \in Seq(Recs) /\ tables \in ClientTables /\ Consistent(tables)
      BY <1>4 DEF MInv, Load
    <3> QED BY <2>1, <3>1, LoadAccounts
  <2>3. phase' = "loading"
    BY <2>1, <2>2 DEF Loaded
  <2> QED BY <2>1, <2>2, <2>3
<1>5. CASE Match
  <2>1. ~tangled
    BY <1>5 DEF Match, MInv
  <2>2. Ready(tables', snap)
    BY <1>5, <2>1, MatchReadies DEF Match, Matchable
  <2> QED BY <1>5, <2>1, <2>2 DEF Match, Matchable
<1>6. CASE TransferFile
  <2>1. Ready(tables', snap) /\ phase' = "sending"
    BY <1>6, TransferReady DEF TransferFile, Matchable
  <2> QED BY <1>6, <2>1 DEF TransferFile, Matchable
<1>7. CASE Finish
  BY <1>7 DEF Finish, Matchable
<1>8. CASE UNCHANGED mvars
  BY <1>8 DEF Matchable, mvars
<1> QED BY <1>1, <1>2, <1>3, <1>4, <1>5, <1>6, <1>7, <1>8 DEF MNext

\* Every record of an epoch is accounted for from the operation on (log.c) until its
\* file is sent (client.c), unless operations of the epoch got in each other's way:
\* what was set aside has a name to find or a removal that settles it, nothing is
\* set aside for a file twice, and what was written to is there or its removal is
\* recorded.
THEOREM MatchableInvariant == MSpec => []Matchable
<1>1. MInv /\ Matchable /\ [MNext]_mvars => Matchable'
  BY StepMatchable
<1> QED BY <1>1, InitMatchable, MirroringInvariant, PTL DEF MSpec

\* Everything that addOperation() set aside when one of several names of a file was
\* removed finds a name in the snapshot (matchInodefiles() of client.c), in whatever
\* order the walk comes upon the names, unless operations of the epoch got in each
\* other's way.
THEOREM EverythingMatched == MSpec => []AllMatched
<1>1. Matchable => AllMatched
  BY DEF Matchable, AllMatched, Ready
<1> QED BY <1>1, MatchableInvariant, PTL

\* The client gets through every such epoch: loadLog() never sets the operations of
\* a path without an entry aside for an i-node that has one (addOperation()), and
\* transferFile() never ends with a write to a file that the snapshot does not have.
THEOREM ClientGetsThrough == MSpec => []NeverCrashes
<1>1. Matchable => NeverCrashes
  BY DEF Matchable, NeverCrashes
<1> QED BY <1>1, MatchableInvariant, PTL
=============================================================================
