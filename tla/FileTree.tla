-------------------------------- MODULE FileTree --------------------------------
(***************************************************************************)
(* The POSIX calls that the file system, the client and the server make,   *)
(* on an abstract tree: names of a fixed set that refer to i-nodes, and    *)
(* i-nodes with their attributes and contents.                             *)
(*                                                                         *)
(* A call returns a record: whether it succeeded and the tree afterwards.  *)
(* Directories are never renamed here; a byte is a number, 0 in a hole.    *)
(***************************************************************************)
EXTENDS Integers, Sequences, FiniteSets

CONSTANTS
  Paths,    \* the names a tree may have
  Inodes,   \* i-node numbers
  Nowhere,  \* no i-node, and the parent of the paths at the top
  Parent    \* the directory a path is in

ASSUME TreeAssumption == /\ Inodes \subseteq Nat \ {0}
                         /\ Nowhere \notin Paths /\ Nowhere \notin Inodes
                         /\ Parent \in [Paths -> Paths \union {Nowhere}]

Kinds == {"file", "dir", "symlink"}
Modes == {"plain", "suid"}
Owners == {"root", "user"}

Nodes == [kind: Kinds, mode: Modes, owner: Owners, data: Seq(Nat),
          target: Paths \union {Nowhere}]

Trees == [names: [Paths -> Inodes \union {Nowhere}], nodes: [Inodes -> Nodes]]

NewNode(kind, mode, target) == [kind |-> kind, mode |-> mode, owner |-> "root",
                                data |-> <<>>, target |-> target]
Blank == NewNode("file", "plain", Nowhere)

Done(t) == [ok |-> TRUE, tree |-> t]
Refused(t) == [ok |-> FALSE, tree |-> t]

-----------------------------------------------------------------------------
Exists(t, p) == p # Nowhere /\ t.names[p] # Nowhere
At(t, p) == t.nodes[t.names[p]]
Is(t, p, kind) == Exists(t, p) /\ At(t, p).kind = kind
Links(t, i) == {p \in Paths : t.names[p] = i}
Free(t) == {i \in Inodes : Links(t, i) = {}}

\* Where a call that follows symbolic links ends up.  (One leads to a file or a
\* directory, or nowhere: chains and loops are left out.)
Resolve(t, p) == IF Is(t, p, "symlink") THEN At(t, p).target ELSE p

\* The i-node that stat() reports.
Stat(t, p) == LET q == Resolve(t, p)
              IN  IF Exists(t, q) /\ ~Is(t, q, "symlink") THEN t.names[q] ELSE Nowhere

HasParent(t, p) == Parent[p] = Nowhere \/ Is(t, Parent[p], "dir")
Vacant(t, p) == ~Exists(t, p) /\ HasParent(t, p)
Populated(t, p) == \E q \in Paths : Parent[q] = p /\ Exists(t, q)

-----------------------------------------------------------------------------
(* Names.                                                                  *)

\* mkdir(), mknod(), symlink() and open() with O_EXCL: nothing may be there.
Make(t, p, i, node) ==
  IF Vacant(t, p)
  THEN Done([names |-> [t.names EXCEPT ![p] = i], nodes |-> [t.nodes EXCEPT ![i] = node]])
  ELSE Refused(t)

\* A name that is gone; the last one takes the i-node with it.
Drop(t, p) ==
  LET i == t.names[p]
  IN  [names |-> [t.names EXCEPT ![p] = Nowhere],
       nodes |-> IF Links(t, i) = {p} THEN [t.nodes EXCEPT ![i] = Blank]
                 ELSE t.nodes]

Unlink(t, p) ==
  IF Exists(t, p) /\ ~Is(t, p, "dir") THEN Done(Drop(t, p)) ELSE Refused(t)

Rmdir(t, p) ==
  IF Is(t, p, "dir") /\ ~Populated(t, p) THEN Done(Drop(t, p)) ELSE Refused(t)

Link(t, p, q) ==
  IF Exists(t, p) /\ ~Is(t, p, "dir") /\ Vacant(t, q)
  THEN Done([t EXCEPT !.names[q] = t.names[p]])
  ELSE Refused(t)

\* rename() replaces what is at q, and does nothing when both names refer to
\* one i-node.
Rename(t, p, q) ==
  IF ~Exists(t, p) \/ ~HasParent(t, q) \/ Is(t, p, "dir") \/ Is(t, q, "dir")
  THEN Refused(t)
  ELSE IF t.names[p] = t.names[q] THEN Done(t)
  ELSE LET u == IF Exists(t, q) THEN Drop(t, q) ELSE t
       IN  Done([u EXCEPT !.names = [@ EXCEPT ![q] = t.names[p], ![p] = Nowhere]])

-----------------------------------------------------------------------------
(* Contents and attributes.                                                *)

Resized(data, n) == [k \in 1..n |-> IF k <= Len(data) THEN data[k] ELSE 0]

Overwritten(data, off, bytes) ==
  [k \in 1..(IF off + Len(bytes) > Len(data) THEN off + Len(bytes) ELSE Len(data)) |->
     IF k > off /\ k <= off + Len(bytes) THEN bytes[k - off]
     ELSE IF k <= Len(data) THEN data[k] ELSE 0]

\* creat(): empties the file that is there or makes one.
Creat(t, p, i, mode) ==
  LET q == Resolve(t, p)
  IN  IF Is(t, q, "file") THEN Done([t EXCEPT !.nodes[t.names[q]].data = <<>>])
      ELSE Make(t, p, i, NewNode("file", mode, Nowhere))

\* pwrite() to an open i-node.
Pwrite(t, i, off, bytes) == [t EXCEPT !.nodes[i].data = Overwritten(@, off, bytes)]

Truncate(t, p, n) ==
  LET q == Resolve(t, p)
  IN  IF Is(t, q, "file")
      THEN Done([t EXCEPT !.nodes[t.names[q]].data = Resized(@, n)])
      ELSE Refused(t)

Chmod(t, p, mode) ==
  LET q == Resolve(t, p)
  IN  IF Exists(t, q) THEN Done([t EXCEPT !.nodes[t.names[q]].mode = mode])
      ELSE Refused(t)

\* chown() takes the set-user-id bit away, also from root.
Chown(t, p, owner) ==
  LET q == Resolve(t, p)
      node == At(t, q)
      mode == IF node.mode = "suid" /\ node.kind = "file" THEN "plain" ELSE node.mode
  IN  IF Exists(t, q)
      THEN Done([t EXCEPT !.nodes[t.names[q]] = [node EXCEPT !.owner = owner, !.mode = mode]])
      ELSE Refused(t)

-----------------------------------------------------------------------------
\* Two trees that only differ in i-node numbers.
Same(t, u) ==
  /\ \A p \in Paths : Exists(t, p) <=> Exists(u, p)
  /\ \A p \in Paths : Exists(t, p) => At(t, p) = At(u, p)
  /\ \A p, q \in Paths : Exists(t, p) /\ Exists(t, q) =>
        (t.names[p] = t.names[q] <=> u.names[p] = u.names[q])
=============================================================================
