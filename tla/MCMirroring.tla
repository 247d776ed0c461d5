------------------------------ MODULE MCMirroring ------------------------------
(* A small instance of Mirroring: three names at the top and one below the third.  *)
EXTENDS Mirroring

MCParent == [p \in Paths |-> IF p = "da" THEN "d" ELSE Nowhere]

Old(data) == [NewNode("file", "plain", Nowhere) EXCEPT !.data = data]
Tree(names, nodes) == [names |-> [p \in Paths |-> IF p \in DOMAIN names THEN names[p] ELSE Nowhere],
                       nodes |-> [i \in Inodes |-> IF i \in DOMAIN nodes THEN nodes[i] ELSE Blank]]

\* A file with two names and a directory with another file, which can take one of
\* them; a file and a symbolic link to it.
MCInitTrees == {Tree([a |-> 1, b |-> 1, d |-> 2, da |-> 3],
                     <<Old(<<1, 1>>), NewNode("dir", "plain", Nowhere), Old(<<1>>)>>),
                Tree([a |-> 1, b |-> 2], <<Old(<<1, 1>>), NewNode("symlink", "plain", "a")>>)}

\* I-nodes that are neither in the tree nor in a record.  Which of them a new file
\* gets makes no difference, so it is the lowest; any other free one may be used again.
Unused == {i \in Free(src) : \A r \in Range(log \o sync) :
                              r.op.type \in {"UNLINK", "RENAME"} => r.op.inode # i}
LowestUnused == \A p \in Paths : src'.names[p] \in Unused =>
                                  \A i \in Unused : src'.names[p] <= i
================================================================================
