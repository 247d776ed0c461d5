-------------------------------- MODULE Messages --------------------------------
(***************************************************************************)
(* The messages of syncedfs.proto as the generated code packs and unpacks  *)
(* them: a sequence of cells, one per field that is there, each the name   *)
(* of the field and its value.  Unpacking fails when a required field is   *)
(* missing; an optional one that is not there takes its default.           *)
(*                                                                         *)
(* An operation is a GenericOperation and the message for its type in one  *)
(* record; the id is 0 and the data empty when they are not there.         *)
(***************************************************************************)
EXTENDS Integers, SequencesExt

CONSTANT Null  \* no message

\* The required fields of the messages for the types.
UnlinkFields == <<"last_link", "inode">>
RmdirFields == <<>>
CreateFields == <<"mode">>
MknodFields == <<"mode", "dev">>
MkdirFields == <<"mode">>
SymlinkFields == <<"oldpath", "newpath">>
LinkFields == <<"oldpath", "newpath">>
ChmodFields == <<"mode">>
ChownFields == <<"owner">>
TruncateFields == <<"newsize">>
WriteFields == <<"offset", "size">>
RenameFields == <<"oldpath", "newpath", "last_link", "inode">>

OperationFields ==
  [UNLINK |-> UnlinkFields, RMDIR |-> RmdirFields, CREATE |-> CreateFields,
   MKNOD |-> MknodFields, MKDIR |-> MkdirFields, SYMLINK |-> SymlinkFields,
   LINK |-> LinkFields, CHMOD |-> ChmodFields, CHOWN |-> ChownFields,
   TRUNCATE |-> TruncateFields, WRITE |-> WriteFields, RENAME |-> RenameFields]

\* The optional fields and what is read when they are not there.
Defaults(type) == IF type = "WRITE" THEN [id |-> 0, data |-> <<>>] ELSE [id |-> 0]

-----------------------------------------------------------------------------
Cells(m, fields) == [k \in DOMAIN fields |-> <<fields[k], m[fields[k]]>>]

Names(cells) == {c[1] : c \in ToSet(cells)}

\* Of a field that is there twice the last one counts.
Value(cells, f) == cells[CHOOSE k \in DOMAIN cells :
                           /\ cells[k][1] = f
                           /\ \A j \in k + 1..Len(cells) : cells[j][1] # f][2]

\* Mutant: the data is left out of what is packed, as when has_data is not set.
PackWithoutData(o) ==
  Cells(o, <<"id", "type">> \o OperationFields[o.type])

PackOperation(o) ==
  LET Given(f) == o[f] # Defaults(o.type)[f]
      optional == (IF Given("id") THEN <<"id">> ELSE <<>>)
                    \o (IF o.type = "WRITE" /\ Given("data") THEN <<"data">> ELSE <<>>)
  IN  Cells(o, <<"type">> \o OperationFields[o.type] \o optional)

UnpackOperation(cells) ==
  LET type == Value(cells, "type")
      required == ToSet(OperationFields[type])
      optional == Defaults(type)
  IN  IF "type" \notin Names(cells) \/ ~(required \subseteq Names(cells)) THEN Null
      ELSE [f \in {"type"} \union required \union DOMAIN optional |->
              IF f \in Names(cells) THEN Value(cells, f) ELSE optional[f]]

\* A record of the log.
PackFileOperation(r) == <<<<"relative_path", r.path>>>> \o PackOperation(r.op)

UnpackFileOperation(cells) ==
  IF "relative_path" \notin Names(cells) \/ UnpackOperation(cells) = Null THEN Null
  ELSE [path |-> Value(cells, "relative_path"), op |-> UnpackOperation(cells)]

\* A part of the operations of a file.  Each is a cell of its own, as a field
\* that is repeated.
PackFileChunk(c) ==
  <<<<"relative_path", c.path>>>>
    \o [k \in DOMAIN c.ops |-> <<"ops", PackOperation(c.ops[k])>>]
    \o <<<<"last_chunk", c.last>>>>

UnpackFileChunk(cells) ==
  LET Add(l, c) == IF c[1] = "ops" THEN Append(l, UnpackOperation(c[2])) ELSE l
      ops == FoldLeft(Add, <<>>, cells)
  IN  IF ~({"relative_path", "last_chunk"} \subseteq Names(cells)) \/ Null \in ToSet(ops)
      THEN Null
      ELSE [path |-> Value(cells, "relative_path"), ops |-> ops,
            last |-> Value(cells, "last_chunk")]

\* get_packed_size(): cells, those of the operations and their data counted too.
CellSize(c) == IF c[1] = "data" THEN Len(c[2]) ELSE 1
OperationSize(cells) == FoldLeft(LAMBDA n, c : n + CellSize(c), 0, cells)
FieldSize(c) == IF c[1] = "ops" THEN OperationSize(c[2]) ELSE 1
PackedSize(cells) == FoldLeft(LAMBDA n, c : n + FieldSize(c), 0, cells)
=============================================================================
