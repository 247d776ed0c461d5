--------------------------------- MODULE Replay ---------------------------------
(***************************************************************************)
(* The operation handlers of server.c, on the mirror's tree.  The          *)
(* operations of one file share a descriptor, the i-node it refers to or   *)
(* Nowhere for -1.  A handler returns the tree, the descriptor and whether *)
(* it succeeded; handleClient() ignores the last.                          *)
(***************************************************************************)
EXTENDS FileTree, SequencesExt

\* The i-node a new file of the mirror gets; nothing is said to depend on it.
Fresh(t) == CHOOSE i \in Free(t) : TRUE

Handled(call, fd) == [tree |-> call.tree, fd |-> fd, ok |-> call.ok]

HandleCreate(t, p, fd, o) ==
  LET call == Creat(t, p, Fresh(t), o.mode)
  IN  Handled(call, IF call.ok THEN Stat(call.tree, p) ELSE Nowhere)

HandleMknod(t, p, fd, o) ==
  Handled(Make(t, p, Fresh(t), NewNode("file", o.mode, Nowhere)), fd)

HandleMkdir(t, p, fd, o) ==
  Handled(Make(t, p, Fresh(t), NewNode("dir", o.mode, Nowhere)), fd)

HandleSymlink(t, p, fd, o) ==
  Handled(Make(t, p, Fresh(t), NewNode("symlink", "plain", o.newpath)), fd)

HandleLink(t, p, fd, o) == Handled(Link(t, o.oldpath, p), fd)

\* The file is opened for the first write, also when that has no data.
HandleWrite(t, p, fd, o) ==
  LET open == IF Is(t, Resolve(t, p), "file") THEN Stat(t, p) ELSE Nowhere
      to == IF fd = Nowhere THEN open ELSE fd
  IN  IF to = Nowhere \/ o.data = <<>> THEN Handled(Refused(t), to)
      ELSE Handled(Done(Pwrite(t, to, o.offset, o.data)), to)

HandleUnlink(t, p, fd, o) == Handled(Unlink(t, p), Nowhere)
HandleRmdir(t, p, fd, o) == Handled(Rmdir(t, p), fd)
HandleTruncate(t, p, fd, o) == Handled(Truncate(t, p, o.newsize), fd)
HandleChmod(t, p, fd, o) == Handled(Chmod(t, p, o.mode), fd)
HandleChown(t, p, fd, o) == Handled(Chown(t, p, o.owner), fd)
HandleRename(t, p, fd, o) == Handled(Rename(t, o.oldpath, o.newpath), fd)

HandleGenericOperation(t, p, fd, o) ==
  CASE o.type = "CREATE" -> HandleCreate(t, p, fd, o)
    [] o.type = "MKNOD" -> HandleMknod(t, p, fd, o)
    [] o.type = "MKDIR" -> HandleMkdir(t, p, fd, o)
    [] o.type = "SYMLINK" -> HandleSymlink(t, p, fd, o)
    [] o.type = "LINK" -> HandleLink(t, p, fd, o)
    [] o.type = "WRITE" -> HandleWrite(t, p, fd, o)
    [] o.type = "UNLINK" -> HandleUnlink(t, p, fd, o)
    [] o.type = "RMDIR" -> HandleRmdir(t, p, fd, o)
    [] o.type = "TRUNCATE" -> HandleTruncate(t, p, fd, o)
    [] o.type = "CHMOD" -> HandleChmod(t, p, fd, o)
    [] o.type = "CHOWN" -> HandleChown(t, p, fd, o)
    [] o.type = "RENAME" -> HandleRename(t, p, fd, o)

\* The operations of one file, one after the other, whatever becomes of them.
HandleFile(t, p, ops) ==
  LET Handle(st, o) ==
        LET r == HandleGenericOperation(st.tree, p, st.fd, o)
        IN  [r EXCEPT !.ok = @ /\ st.ok]
  IN  FoldLeft(Handle, [tree |-> t, fd |-> Nowhere, ok |-> TRUE], ops)
=============================================================================
