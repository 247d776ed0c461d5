------------------------------- MODULE MCPipeline -------------------------------
(* A small instance of Pipeline: two files, writes that fit into the buffer    *)
(* in every way, exceed it or overlap, and a rename, which is sent after them. *)
EXTENDS Pipeline

MCParent == [p \in Paths |-> Nowhere]

MCRecords == {LogWrite("a", 1, 0), LogWrite("a", 2, 1), LogWrite("a", 3, 0),
              LogWrite("b", 1, 1), LogRename("b", "a", 0, 0)}
MCJunk == LogChmod("a", "suid")

\* A file is shorter than what was written to it; one is gone.  A renamed file is
\* there when another one has been given its name.
MCSnapshots == {[a |-> 2, b |-> 3], [a |-> 3, b |-> -1]}
=============================================================================
