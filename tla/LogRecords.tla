------------------------------- MODULE LogRecords -------------------------------
(***************************************************************************)
(* What log.c records of an operation: the path it was made on and a       *)
(* GenericOperation, here one record of the type and the fields of the     *)
(* message for that type.  The id is given by the client; data is loaded   *)
(* by it.  (One owner stands for uid and gid.)                             *)
(***************************************************************************)
EXTENDS FileTree

Logged(p, o) == [path |-> p, op |-> o]

LogCreate(p, mode) == Logged(p, [id |-> 0, type |-> "CREATE", mode |-> mode])

LogMknod(p, mode, dev) ==
  Logged(p, [id |-> 0, type |-> "MKNOD", mode |-> mode, dev |-> dev])

LogMkdir(p, mode) == Logged(p, [id |-> 0, type |-> "MKDIR", mode |-> mode])

LogSymlink(p, newpath) ==
  Logged(p, [id |-> 0, type |-> "SYMLINK", oldpath |-> p, newpath |-> newpath])

LogLink(p, newpath) ==
  Logged(p, [id |-> 0, type |-> "LINK", oldpath |-> p, newpath |-> newpath])

LogWrite(p, size, offset) ==
  Logged(p, [id |-> 0, type |-> "WRITE", offset |-> offset, size |-> size, data |-> <<>>])

\* The link count is the one before the removal, 0 when nothing could be found out.
LogUnlink(p, nlink, inode) ==
  Logged(p, [id |-> 0, type |-> "UNLINK", last_link |-> ~(nlink > 1), inode |-> inode])

LogRmdir(p) == Logged(p, [id |-> 0, type |-> "RMDIR"])

LogTruncate(p, newsize) == Logged(p, [id |-> 0, type |-> "TRUNCATE", newsize |-> newsize])

LogChmod(p, mode) == Logged(p, [id |-> 0, type |-> "CHMOD", mode |-> mode])

LogChown(p, owner) == Logged(p, [id |-> 0, type |-> "CHOWN", owner |-> owner])

\* Links and i-node are those of the file that was replaced.
LogRename(p, newpath, nlink, inode) ==
  Logged(p, [id |-> 0, type |-> "RENAME", oldpath |-> p, newpath |-> newpath,
             last_link |-> ~(nlink > 1), inode |-> inode])

-----------------------------------------------------------------------------
(* All there is to record, and what becomes of it: the client gives it its *)
(* number and data.                                                        *)

\* Removals of a name that is one of several carry the number of an i-node.
UnlinkOps == {o \in [id : Nat, type : {"UNLINK"}, last_link : BOOLEAN, inode : Inodes \union {0}] :
                o.last_link \/ o.inode \in Inodes}
WriteOps == [id : Nat, type : {"WRITE"}, offset : Nat, size : Nat \ {0}, data : Seq(Nat)]
LinkOps == [id : Nat, type : {"LINK"}, oldpath : Paths, newpath : Paths]
SymlinkOps == [id : Nat, type : {"SYMLINK"}, oldpath : Paths, newpath : Paths]
RenameOps == [id : Nat, type : {"RENAME"}, oldpath : Paths, newpath : Paths,
              last_link : BOOLEAN, inode : Inodes \union {0}]
MknodOps == [id : Nat, type : {"MKNOD"}, mode : Modes, dev : Nat]
ModeOps == [id : Nat, type : {"CREATE", "MKDIR", "CHMOD"}, mode : Modes]
ChownOps == [id : Nat, type : {"CHOWN"}, owner : Owners]
TruncateOps == [id : Nat, type : {"TRUNCATE"}, newsize : Nat]
RmdirOps == [id : Nat, type : {"RMDIR"}]

Ops == UnlinkOps \union WriteOps \union LinkOps \union SymlinkOps \union RenameOps
         \union MknodOps \union ModeOps \union ChownOps \union TruncateOps \union RmdirOps

Recs == [path : Paths, op : Ops]

\* As the file system records it.
JustLogged(o) == o.id = 0 /\ (o.type = "WRITE" => o.data = <<>>)
=============================================================================
