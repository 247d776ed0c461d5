----------------------------- MODULE Pipeline_proofs -----------------------------
(***************************************************************************)
(* What holds of an epoch on its way from the log to the server, for any   *)
(* records, files, snapshots and number of faults.  In this order: the log *)
(* file and loadLog(); the buffers that messages are packed in and the     *)
(* data that waits in them; chunks, packed and taken apart again; the      *)
(* stream of what the files have to be received, and where the client and  *)
(* the server stand in it; the transfer as a delivery of that stream; what *)
(* the tables have of the log, and with it that everything arrives.        *)
(***************************************************************************)
EXTENDS Pipeline, Compaction_proofs

-----------------------------------------------------------------------------
(* The fields of operations.                                               *)

Required == {"last_link", "inode", "mode", "dev", "oldpath", "newpath", "owner",
             "newsize", "offset", "size"}

\* The required fields are there once each, and with the optional ones they are all.
Listed(g, S) == /\ g \in Seq(S) /\ ToSet(g) = S
                /\ \A j, k \in DOMAIN g : g[j] = g[k] => j = k
Complete(o, S) == /\ S \subseteq Required
                  /\ o = [x \in {"type"} \union S \union DOMAIN Defaults(o.type) |-> o[x]]

LEMMA ListFacts ==
  /\ Listed(<<>>, {}) /\ \A a : Listed(<<a>>, {a})
  /\ \A a, b : a # b => Listed(<<a, b>>, {a, b})
  /\ \A a, b, c, d : a # b /\ a # c /\ a # d /\ b # c /\ b # d /\ c # d
       => Listed(<<a, b, c, d>>, {a, b, c, d})
<1>1. Listed(<<>>, {})
  BY DEF Listed, ToSet
<1>2. ASSUME NEW a PROVE Listed(<<a>>, {a})
  BY DEF Listed, ToSet
<1>3. ASSUME NEW a, NEW b, a # b PROVE Listed(<<a, b>>, {a, b})
  BY <1>3 DEF Listed, ToSet
<1>4. ASSUME NEW a, NEW b, NEW c, NEW d,
             a # b /\ a # c /\ a # d /\ b # c /\ b # d /\ c # d
      PROVE  Listed(<<a, b, c, d>>, {a, b, c, d})
  BY <1>4 DEF Listed, ToSet
<1> QED BY <1>1, <1>2, <1>3, <1>4

LEMMA FieldFacts ==
  ASSUME NEW o \in Ops
  PROVE  \E S : Listed(OperationFields[o.type], S) /\ Complete(o, S)
<1>1. CASE o \in UnlinkOps
  <2>1. o.type = "UNLINK" /\ OperationFields[o.type] = <<"last_link", "inode">>
    BY <1>1 DEF UnlinkOps, OperationFields, UnlinkFields
  <2>2. Listed(<<"last_link", "inode">>, {"last_link", "inode"})
    BY ListFacts
  <2>3. Complete(o, {"last_link", "inode"})
    BY <1>1, <2>1 DEF UnlinkOps, Complete, Required, Defaults
  <2> QED BY <2>1, <2>2, <2>3
<1>2. CASE o \in RmdirOps
  <2>1. o.type = "RMDIR" /\ OperationFields[o.type] = <<>>
    BY <1>2 DEF RmdirOps, OperationFields, RmdirFields
  <2>2. Listed(<<>>, {})
    BY ListFacts
  <2>3. Complete(o, {})
    BY <1>2, <2>1 DEF RmdirOps, Complete, Required, Defaults
  <2> QED BY <2>1, <2>2, <2>3
<1>3. CASE o \in ModeOps /\ o.type = "CREATE"
  <2>1. o.type = "CREATE" /\ OperationFields[o.type] = <<"mode">>
    BY <1>3 DEF ModeOps, OperationFields, CreateFields
  <2>2. Listed(<<"mode">>, {"mode"})
    BY ListFacts
  <2>3. Complete(o, {"mode"})
    BY <1>3, <2>1 DEF ModeOps, Complete, Required, Defaults
  <2> QED BY <2>1, <2>2, <2>3
<1>4. CASE o \in ModeOps /\ o.type = "MKDIR"
  <2>1. o.type = "MKDIR" /\ OperationFields[o.type] = <<"mode">>
    BY <1>4 DEF ModeOps, OperationFields, MkdirFields
  <2>2. Listed(<<"mode">>, {"mode"})
    BY ListFacts
  <2>3. Complete(o, {"mode"})
    BY <1>4, <2>1 DEF ModeOps, Complete, Required, Defaults
  <2> QED BY <2>1, <2>2, <2>3
<1>5. CASE o \in ModeOps /\ o.type = "CHMOD"
  <2>1. o.type = "CHMOD" /\ OperationFields[o.type] = <<"mode">>
    BY <1>5 DEF ModeOps, OperationFields, ChmodFields
  <2>2. Listed(<<"mode">>, {"mode"})
    BY ListFacts
  <2>3. Complete(o, {"mode"})
    BY <1>5, <2>1 DEF ModeOps, Complete, Required, Defaults
  <2> QED BY <2>1, <2>2, <2>3
<1>6. CASE o \in MknodOps
  <2>1. o.type = "MKNOD" /\ OperationFields[o.type] = <<"mode", "dev">>
    BY <1>6 DEF MknodOps, OperationFields, MknodFields
  <2>2. Listed(<<"mode", "dev">>, {"mode", "dev"})
    BY ListFacts
  <2>3. Complete(o, {"mode", "dev"})
    BY <1>6, <2>1 DEF MknodOps, Complete, Required, Defaults
  <2> QED BY <2>1, <2>2, <2>3
<1>7. CASE o \in SymlinkOps
  <2>1. o.type = "SYMLINK" /\ OperationFields[o.type] = <<"oldpath", "newpath">>
    BY <1>7 DEF SymlinkOps, OperationFields, SymlinkFields
  <2>2. Listed(<<"oldpath", "newpath">>, {"oldpath", "newpath"})
    BY ListFacts
  <2>3. Complete(o, {"oldpath", "newpath"})
    BY <1>7, <2>1 DEF SymlinkOps, Complete, Required, Defaults
  <2> QED BY <2>1, <2>2, <2>3
<1>8. CASE o \in LinkOps
  <2>1. o.type = "LINK" /\ OperationFields[o.type] = <<"oldpath", "newpath">>
    BY <1>8 DEF LinkOps, OperationFields, LinkFields
  <2>2. Listed(<<"oldpath", "newpath">>, {"oldpath", "newpath"})
    BY ListFacts
  <2>3. Complete(o, {"oldpath", "newpath"})
    BY <1>8, <2>1 DEF LinkOps, Complete, Required, Defaults
  <2> QED BY <2>1, <2>2, <2>3
<1>9. CASE o \in ChownOps
  <2>1. o.type = "CHOWN" /\ OperationFields[o.type] = <<"owner">>
    BY <1>9 DEF ChownOps, OperationFields, ChownFields
  <2>2. Listed(<<"owner">>, {"owner"})
    BY ListFacts
  <2>3. Complete(o, {"owner"})
    BY <1>9, <2>1 DEF ChownOps, Complete, Required, Defaults
  <2> QED BY <2>1, <2>2, <2>3
<1>10. CASE o \in TruncateOps
  <2>1. o.type = "TRUNCATE" /\ OperationFields[o.type] = <<"newsize">>
    BY <1>10 DEF TruncateOps, OperationFields, TruncateFields
  <2>2. Listed(<<"newsize">>, {"newsize"})
    BY ListFacts
  <2>3. Complete(o, {"newsize"})
    BY <1>10, <2>1 DEF TruncateOps, Complete, Required, Defaults
  <2> QED BY <2>1, <2>2, <2>3
<1>11. CASE o \in WriteOps
  <2>1. o.type = "WRITE" /\ OperationFields[o.type] = <<"offset", "size">>
    BY <1>11 DEF WriteOps, OperationFields, WriteFields
  <2>2. Listed(<<"offset", "size">>, {"offset", "size"})
    BY ListFacts
  <2>3. Complete(o, {"offset", "size"})
    BY <1>11, <2>1 DEF WriteOps, Complete, Required, Defaults
  <2> QED BY <2>1, <2>2, <2>3
<1>12. CASE o \in RenameOps
  <2>1. o.type = "RENAME" /\ OperationFields[o.type] = <<"oldpath", "newpath", "last_link", "inode">>
    BY <1>12 DEF RenameOps, OperationFields, RenameFields
  <2>2. Listed(<<"oldpath", "newpath", "last_link", "inode">>, {"oldpath", "newpath", "last_link", "inode"})
    BY ListFacts
  <2>3. Complete(o, {"oldpath", "newpath", "last_link", "inode"})
    BY <1>12, <2>1 DEF RenameOps, Complete, Required, Defaults
  <2> QED BY <2>1, <2>2, <2>3
<1> QED BY <1>1, <1>2, <1>3, <1>4, <1>5, <1>6, <1>7, <1>8, <1>9, <1>10, <1>11, <1>12 DEF Ops, ModeOps

-----------------------------------------------------------------------------
(* A record as it is packed.                                               *)

\* Where the fields of a record are: the path, the type, the required ones.
Packed(c, p, o, f, n) ==
  /\ c \in Seq(ToSet(c)) /\ Len(c) = n + 1 /\ DOMAIN c = 1..n + 1
  /\ c[1] = <<"relative_path", p>>
  /\ \A k \in 1..n : c[k + 1] = <<f[k], o[f[k]]>>
  /\ \A j, k \in 1..n : f[j] = f[k] => j = k
  /\ {f[k] : k \in 1..n} = {"type"} \union ToSet(OperationFields[o.type])

\* What is packed for a record that was just logged.
LEMMA PackFacts ==
  ASSUME NEW p, NEW o \in Ops, JustLogged(o)
  PROVE  LET c == PackFileOperation([path |-> p, op |-> o])
         IN  \E n \in Nat : \E f : Packed(c, p, o, f, n)
<1> DEFINE g == OperationFields[o.type]
           f == <<"type">> \o g
           n == Len(g) + 1
           cells == Cells(o, f)
           c == PackFileOperation([path |-> p, op |-> o])
<1>1. PICK S : Listed(g, S) /\ Complete(o, S)
  BY FieldFacts
<1>2. g \in Seq(S) /\ S \subseteq Required /\ "type" \notin S
  BY <1>1 DEF Listed, Complete, Required
<1> HIDE DEF g
<1>3. <<"type">> \in Seq(S \union {"type"}) /\ g \in Seq(S \union {"type"})
  BY <1>2
<1>4. f \in Seq(S \union {"type"}) /\ Joined(f, <<"type">>, g)
  BY <1>3, JoinFacts
<1>5. /\ n \in Nat /\ DOMAIN f = 1..n /\ f[1] = "type" /\ DOMAIN g = 1..n - 1
      /\ \A k \in 1..n - 1 : f[k + 1] = g[k]
  BY <1>2, <1>4 DEF Joined
<1>6. PackOperation(o) = cells
  <2>1. Defaults(o.type)["id"] = 0 /\ (o.type = "WRITE" => Defaults(o.type)["data"] = <<>>)
    BY DEF Defaults
  <2>2. o["id"] = 0 /\ (o.type = "WRITE" => o["data"] = <<>>)
    BY DEF JustLogged
  <2>3. <<"type">> \o OperationFields[o.type] \o (<<>> \o <<>>) = f
    BY <1>4 DEF g
  <2> HIDE DEF f
  <2> QED BY <2>1, <2>2, <2>3 DEF PackOperation
<1> HIDE DEF f, n
<1>7. DOMAIN cells = 1..n /\ \A k \in 1..n : cells[k] = <<f[k], o[f[k]]>>
  BY <1>5 DEF Cells
<1> HIDE DEF cells
<1>8. c = <<<<"relative_path", p>>>> \o cells
  BY <1>6 DEF PackFileOperation
<1>9. /\ c \in Seq(ToSet(c)) /\ Len(c) = n + 1 /\ DOMAIN c = 1..n + 1
      /\ c[1] = <<"relative_path", p>>
      /\ \A k \in 1..n : c[k + 1] = cells[k]
  <2> DEFINE T == {cells[k] : k \in 1..n} \union {<<"relative_path", p>>}
  <2>1. cells \in Seq(T) /\ Len(cells) = n /\ <<<<"relative_path", p>>>> \in Seq(T)
    <3>1. cells = [k \in 1..n |-> cells[k]]
      BY <1>5, <1>7 DEF cells, Cells
    <3> QED BY <1>5, <1>7, <3>1
  <2> HIDE DEF T
  <2>2. c \in Seq(T) /\ Joined(c, <<<<"relative_path", p>>>>, cells)
    BY <1>8, <2>1, JoinFacts
  <2> HIDE DEF c
  <2>3. c \in Seq(ToSet(c))
    BY <2>2 DEF ToSet
  <2> QED BY <1>5, <2>1, <2>2, <2>3 DEF Joined
<1> HIDE DEF c
<1>10. \A j, k \in 1..n : f[j] = f[k] => j = k
  <2> SUFFICES ASSUME NEW j \in 1..n, NEW k \in 1..n, f[j] = f[k] PROVE j = k
    OBVIOUS
  <2>0. \A i \in 1..n - 1 : g[i] \in S
    BY <1>2, <1>5
  <2>1. \A i \in 1..n - 1 : f[i + 1] \in S /\ f[i + 1] = g[i]
    BY <1>5, <2>0
  <2>2. CASE j = 1 \/ k = 1
    <3>1. \A i \in 1..n : i # 1 => i - 1 \in 1..n - 1 /\ (i - 1) + 1 = i
      BY <1>5
    <3>2. \A i \in 1..n : i # 1 => f[i] \in S
      BY <2>1, <3>1
    <3> QED BY <1>2, <1>5, <2>2, <3>2
  <2>3. CASE j # 1 /\ k # 1
    <3>1. j - 1 \in 1..n - 1 /\ k - 1 \in 1..n - 1 /\ (j - 1) + 1 = j /\ (k - 1) + 1 = k
      BY <1>5, <2>3
    <3>2. g[j - 1] = g[k - 1]
      BY <2>1, <3>1
    <3>3. j - 1 = k - 1
      BY <1>1, <1>5, <3>1, <3>2 DEF Listed
    <3> QED BY <1>5, <3>3
  <2> QED BY <2>2, <2>3
<1>11. {f[k] : k \in 1..n} = {"type"} \union ToSet(g)
  <2>1. ASSUME NEW k \in 1..n PROVE f[k] \in {"type"} \union ToSet(g)
    <3>1. CASE k = 1
      BY <1>5, <3>1
    <3>2. CASE k # 1
      <4>1. k - 1 \in DOMAIN g /\ f[k] = g[k - 1]
        <5>1. k - 1 \in 1..n - 1 /\ (k - 1) + 1 = k
          BY <1>5, <3>2
        <5> QED BY <1>5, <5>1
      <4> QED BY <4>1 DEF ToSet
    <3> QED BY <3>1, <3>2
  <2>2. ASSUME NEW x \in ToSet(g) PROVE \E k \in 1..n : x = f[k]
    <3>1. PICK i \in 1..n - 1 : x = g[i]
      BY <1>5, <2>2 DEF ToSet
    <3>2. i + 1 \in 1..n /\ f[i + 1] = x
      BY <1>5, <3>1
    <3> QED BY <3>2
  <2>3. 1 \in 1..n
    BY <1>2, <1>5 DEF n
  <2> QED BY <1>5, <2>1, <2>2, <2>3
<1>12. Packed(c, p, o, f, n)
  BY <1>7, <1>9, <1>10, <1>11 DEF Packed, g
<1> QED BY <1>5, <1>12 DEF c

\* Of what is packed of a record, no more comes out than the record.
LEMMA ValueFacts ==
  ASSUME NEW T, NEW cells \in Seq(T), NEW x \in Names(cells)
  PROVE  \E k \in DOMAIN cells : cells[k][1] = x /\ Value(cells, x) = cells[k][2]
<1> DEFINE n == Len(cells)
           K == {k \in 1..n : cells[k][1] = x}
           Counts(k) == cells[k][1] = x /\ \A j \in k + 1..n : cells[j][1] # x
<1>1. n \in Nat /\ DOMAIN cells = 1..n
  OBVIOUS
<1>2. K # {} /\ K \in SUBSET (1..n)
  BY <1>1 DEF Names, ToSet
<1>3. Max(K) \in K /\ \A y \in K : y <= Max(K)
  BY <1>1, <1>2, MaxIn
<1>4. \E k \in DOMAIN cells : Counts(k)
  <2>1. Max(K) \in 1..n /\ cells[Max(K)][1] = x
    BY <1>3
  <2>2. \A j \in Max(K) + 1..n : cells[j][1] # x
    <3> SUFFICES ASSUME NEW j \in Max(K) + 1..n, cells[j][1] = x PROVE FALSE
      OBVIOUS
    <3>1. j \in K /\ ~(j <= Max(K))
      BY <1>1, <2>1
    <3> QED BY <1>3, <3>1
  <2> QED BY <1>1, <2>1, <2>2
<1> DEFINE c == CHOOSE k \in DOMAIN cells : Counts(k)
<1>5. c \in DOMAIN cells /\ Counts(c)
  BY <1>4
<1>6. Value(cells, x) = cells[c][2]
  BY DEF Value
<1> QED BY <1>5, <1>6

LEMMA UnpackFacts ==
  ASSUME NEW r \in Recs, JustLogged(r.op), NEW T, NEW cells \in Seq(T),
         ToSet(cells) \subseteq ToSet(PackFileOperation(r))
  PROVE  /\ UnpackFileOperation(cells) \in {Null, r}
         /\ Null \notin Recs \union Ops /\ ToSet(cells) = ToSet(PackFileOperation(r))
              => UnpackFileOperation(cells) = r
<1> DEFINE p == r.path
           o == r.op
           c == PackFileOperation(r)
<1>1. r = [path |-> p, op |-> o] /\ o \in Ops
  BY DEF Recs
<1> HIDE DEF p, o
<1>0. PICK n \in Nat : \E f : Packed(c, p, o, f, n)
  BY <1>1, PackFacts DEF o
<1>2. PICK f : Packed(c, p, o, f, n)
  BY <1>0
<1>3. PICK S : Listed(OperationFields[o.type], S) /\ Complete(o, S)
  BY <1>1, FieldFacts
<1>4. /\ ToSet(OperationFields[o.type]) = S /\ S \subseteq Required
      /\ o = [x \in {"type"} \union S \union DOMAIN Defaults(o.type) |-> o[x]]
  BY <1>3 DEF Listed, Complete
<1>5. {f[k] : k \in 1..n} = {"type"} \union S
  BY <1>2, <1>4 DEF Packed
<1>6. ToSet(c) = {<<"relative_path", p>>} \union {<<x, o[x]>> : x \in {"type"} \union S}
  <2>1. ASSUME NEW k \in DOMAIN c
        PROVE  c[k] \in {<<"relative_path", p>>} \union {<<x, o[x]>> : x \in {"type"} \union S}
    <3>1. CASE k = 1
      BY <1>2, <3>1 DEF Packed
    <3>2. CASE k # 1
      <4>1. k - 1 \in 1..n /\ (k - 1) + 1 = k
        BY <1>2, <3>2 DEF Packed
      <4>2. c[k] = <<f[k - 1], o[f[k - 1]]>> /\ f[k - 1] \in {"type"} \union S
        BY <1>2, <1>5, <4>1 DEF Packed
      <4> QED BY <4>2
    <3> QED BY <3>1, <3>2
  <2>2. 1 \in DOMAIN c /\ c[1] = <<"relative_path", p>>
    BY <1>2 DEF Packed
  <2>3. ASSUME NEW x \in {"type"} \union S PROVE \E k \in DOMAIN c : c[k] = <<x, o[x]>>
    <3>1. PICK k \in 1..n : f[k] = x
      BY <1>5
    <3>2. DOMAIN c = 1..(n + 1) /\ c[k + 1] = <<f[k], o[f[k]]>>
      BY <1>2, ZenonT(40) DEF Packed
    <3>3. k + 1 \in 1..(n + 1)
      OBVIOUS
    <3>4. k + 1 \in DOMAIN c /\ c[k + 1] = <<x, o[x]>>
      BY <3>1, <3>2, <3>3
    <3> QED BY <3>4
  <2> HIDE DEF c
  <2> QED BY <2>1, <2>2, <2>3 DEF ToSet
<1> HIDE DEF c
<1> DEFINE N == Names(cells)
<1>7. N \subseteq {"relative_path", "type"} \union S
  BY <1>6 DEF Names, c
<1>8. \A x \in N : Value(cells, x) = IF x = "relative_path" THEN p ELSE o[x]
  <2> SUFFICES ASSUME NEW x \in N
               PROVE  Value(cells, x) = IF x = "relative_path" THEN p ELSE o[x]
    OBVIOUS
  <2>1. PICK k \in DOMAIN cells : cells[k][1] = x /\ Value(cells, x) = cells[k][2]
    BY ValueFacts
  <2>2. cells[k] \in ToSet(c)
    BY DEF ToSet, c
  <2>3. "relative_path" \notin {"type"} \union S
    BY <1>4 DEF Required
  <2> QED BY <1>6, <2>1, <2>2, <2>3
<1>9. ToSet(cells) = ToSet(c) => N = {"relative_path", "type"} \union S
  <2> SUFFICES ASSUME ToSet(cells) = ToSet(c), NEW x \in {"relative_path", "type"} \union S
               PROVE  x \in N
    BY <1>7
  <2>1. \E y : <<x, y>> \in ToSet(cells)
    BY <1>6
  <2> QED BY <2>1 DEF Names
<1> HIDE DEF N
<1> DEFINE d == Defaults(o.type)
<1>10. \A x \in DOMAIN d : x \notin N /\ d[x] = o[x]
  <2>1. DOMAIN d \subseteq {"id", "data"} /\ ("data" \in DOMAIN d => o.type = "WRITE")
        /\ d["id"] = 0 /\ (o.type = "WRITE" => d["data"] = <<>>)
    BY DEF Defaults
  <2>2. o["id"] = 0 /\ (o.type = "WRITE" => o["data"] = <<>>)
    BY DEF JustLogged, o
  <2> QED BY <1>4, <1>7, <2>1, <2>2 DEF Required
<1> HIDE DEF d
<1> DEFINE u == UnpackOperation(cells)
<1>11. CASE "type" \notin N \/ ~(S \subseteq N)
  <2>1. u = Null
    <3>1. CASE "type" \notin N
      BY <3>1 DEF UnpackOperation, N
    <3>2. CASE "type" \in N
      <4>1. Value(cells, "type") = o.type
        BY <1>8, <3>2
      <4> QED BY <1>4, <1>11, <3>2, <4>1 DEF UnpackOperation, N
    <3> QED BY <3>1, <3>2
  <2>2. UnpackFileOperation(cells) = Null
    BY <2>1 DEF UnpackFileOperation
  <2> QED BY <1>9, <1>11, <2>2 DEF c
<1>12. CASE "type" \in N /\ S \subseteq N
  <2>1. u = o
    <3>1. Value(cells, "type") = o.type
      BY <1>8, <1>12
    <3>2. u = [x \in {"type"} \union S \union DOMAIN d |->
                 IF x \in N THEN Value(cells, x) ELSE d[x]]
      BY <1>4, <1>12, <3>1 DEF UnpackOperation, N, d
    <3>3. \A x \in {"type"} \union S \union DOMAIN d :
            (IF x \in N THEN Value(cells, x) ELSE d[x]) = o[x]
      <4>1. \A x \in {"type"} \union S : x \in N /\ x # "relative_path"
        BY <1>4, <1>12 DEF Required
      <4> QED BY <1>8, <1>10, <4>1
    <3>4. o = [x \in {"type"} \union S \union DOMAIN d |-> o[x]]
      BY <1>4 DEF d
    <3> HIDE DEF u
    <3> QED BY <3>2, <3>3, <3>4
  <2>2. UnpackFileOperation(cells) \in {Null, r}
    BY <1>1, <1>8, <2>1 DEF UnpackFileOperation, N
  <2>3. ASSUME Null \notin Recs \union Ops, ToSet(cells) = ToSet(c)
        PROVE  UnpackFileOperation(cells) = r
    <3>1. "relative_path" \in N /\ u # Null
      BY <1>1, <1>9, <2>1, <2>3
    <3> QED BY <1>1, <1>8, <2>1, <3>1 DEF UnpackFileOperation, N
  <2> QED BY <2>2, <2>3 DEF c
<1> QED BY <1>11, <1>12
-----------------------------------------------------------------------------
(* The size of a message.                                                  *)

\* What is a sum of G at 1..n.
Adds(it, n, seq, G) ==
  it = [s \in SUBSET (1..n) |-> IF s = {} THEN 0 ELSE it[s \ {Max(s)}] + G[seq[Max(s)]]]

Ones(S, G) == \A x \in S : G[x] = 1

LEMMA SumFacts ==
  ASSUME NEW n \in Nat, NEW S, NEW seq \in [1..n -> S], NEW G \in [S -> Nat]
  PROVE  /\ \E it : Adds(it, n, seq, G)
         /\ \A it : Adds(it, n, seq, G) =>
              /\ it[1..n] \in Nat
              /\ Ones(S, G) => it[1..n] = n
<1> DEFINE F == [x \in Nat \X S |-> x[1] + G[x[2]]]
<1>1. /\ F \in [Nat \X S -> Nat]
      /\ \A a \in Nat, x \in S : F[<<a, x>>] = a + G[x]
  <2>1. \A a \in Nat, x \in S : a + G[x] \in Nat
    OBVIOUS
  <2> QED BY <2>1
<1> HIDE DEF F
<1>2. \E it : Adds(it, n, seq, G)
  <2>1. PICK g : IsFold(g, n, 0, seq, F) /\ Within(g, n, Nat, seq, S)
    BY <1>1, FoldFixed
  <2>2. Adds(g, n, seq, G)
    BY <1>1, <2>1 DEF IsFold, Within, Adds
  <2> QED BY <2>2
<1>3. ASSUME NEW it, Adds(it, n, seq, G)
      PROVE  it[1..n] \in Nat /\ (Ones(S, G) => it[1..n] = n)
  <2>1. Follows(it, n, Nat, 0, seq, F)
    <3>1. ASSUME NEW s \in SUBSET (1..n), s # {}, it[s \ {Max(s)}] \in Nat
          PROVE  it[s] = F[<<it[s \ {Max(s)}], seq[Max(s)]>>]
      <4>1. Max(s) \in 1..n
        BY <3>1, MaxIn
      <4>2. it[s] = it[s \ {Max(s)}] + G[seq[Max(s)]] /\ seq[Max(s)] \in S
        BY <1>3, <3>1, <4>1 DEF Adds
      <4> QED BY <1>1, <3>1, <4>2
    <3>2. it[{}] = 0
      BY <1>3 DEF Adds
    <3> QED BY <3>1, <3>2 DEF Follows
  <2>2. Reaches(it, n, Nat, 0, seq, F)
    BY <1>1, <2>1, FoldValues
  <2>3. PICK h \in [0..n -> Nat] : Values(h, n, 0, seq, F) /\ it[1..n] = h[n]
    BY <2>2 DEF Reaches
  <2>4. n \in 0..n
    OBVIOUS
  <2>5. ASSUME Ones(S, G) PROVE h[n] = n
    <3> DEFINE Good == {k \in 0..n : h[k] = k}
    <3>1. 0 \in Good
      BY <2>3 DEF Values
    <3>2. ASSUME NEW k \in 1..n, k - 1 \in Good PROVE k \in Good
      <4>1. h[k] = F[<<h[k - 1], seq[k]>>] /\ seq[k] \in S /\ h[k - 1] = k - 1
        BY <2>3, <3>2 DEF Values
      <4>2. h[k] = (k - 1) + 1
        BY <1>1, <2>5, <4>1 DEF Ones
      <4> QED BY <4>2
    <3> HIDE DEF Good
    <3>3. Inductive(Good, n)
      BY <3>1, <3>2 DEF Inductive
    <3>4. n \in Good
      BY <2>4, <3>3, InductionUpTo
    <3> QED BY <3>4 DEF Good
  <2> QED BY <2>3, <2>4, <2>5
<1> QED BY <1>2, <1>3

LEMMA OperationSizeFacts ==
  ASSUME NEW S, NEW cells \in Seq(S), \A c \in S : CellSize(c) \in Nat
  PROVE  OperationSize(cells) \in Nat
<1> DEFINE n == Len(cells)
           G == [c \in S |-> CellSize(c)]
           it == CHOOSE it : it = [s \in SUBSET (DOMAIN cells) |->
                   IF s = {} THEN 0 ELSE it[s \ {Max(s)}] + CellSize(cells[Max(s)])]
<1>1. OperationSize(cells) = it[DOMAIN cells]
  BY DEF OperationSize, FoldLeft, MapThenFoldSet
<1>2. n \in Nat /\ DOMAIN cells = 1..n /\ cells \in [1..n -> S]
  OBVIOUS
<1>3. G \in [S -> Nat] /\ \A c \in S : G[c] = CellSize(c)
  OBVIOUS
<1> HIDE DEF n, G
<1>4. \A g : Adds(g, n, cells, G) <=> g = [s \in SUBSET (DOMAIN cells) |->
               IF s = {} THEN 0 ELSE g[s \ {Max(s)}] + CellSize(cells[Max(s)])]
  <2>1. \A s \in SUBSET (1..n) : s # {} => G[cells[Max(s)]] = CellSize(cells[Max(s)])
    <3> SUFFICES ASSUME NEW s \in SUBSET (1..n), s # {}
                 PROVE  G[cells[Max(s)]] = CellSize(cells[Max(s)])
      OBVIOUS
    <3>1. Max(s) \in 1..n
      BY <1>2, MaxIn
    <3> QED BY <1>2, <1>3, <3>1
  <2> QED BY <1>2, <2>1 DEF Adds
<1>5. Adds(it, n, cells, G)
  <2>1. \E g : Adds(g, n, cells, G)
    BY <1>2, <1>3, SumFacts
  <2> QED BY <1>4, <2>1
<1> HIDE DEF it
<1>6. \A g : Adds(g, n, cells, G) => g[1..n] \in Nat
  BY <1>2, <1>3, SumFacts
<1> QED BY <1>1, <1>2, <1>5, <1>6

\* Every field has a size; without repeated fields it is their number.
LEMMA PackedSizeFacts ==
  ASSUME NEW S, NEW cells \in Seq(S), \A c \in S : FieldSize(c) \in Nat
  PROVE  /\ PackedSize(cells) \in Nat
         /\ (\A c \in S : FieldSize(c) = 1) => PackedSize(cells) = Len(cells)
<1> DEFINE n == Len(cells)
           G == [c \in S |-> FieldSize(c)]
           it == CHOOSE it : it = [s \in SUBSET (DOMAIN cells) |->
                   IF s = {} THEN 0 ELSE it[s \ {Max(s)}] + FieldSize(cells[Max(s)])]
<1>1. PackedSize(cells) = it[DOMAIN cells]
  BY DEF PackedSize, FoldLeft, MapThenFoldSet
<1>2. n \in Nat /\ DOMAIN cells = 1..n /\ cells \in [1..n -> S]
  OBVIOUS
<1>3. G \in [S -> Nat] /\ \A c \in S : G[c] = FieldSize(c)
  OBVIOUS
<1> HIDE DEF G
<1>4. \A g : Adds(g, n, cells, G) <=> g = [s \in SUBSET (DOMAIN cells) |->
               IF s = {} THEN 0 ELSE g[s \ {Max(s)}] + FieldSize(cells[Max(s)])]
  <2> HIDE DEF n
  <2>1. \A s \in SUBSET (1..n) : s # {} => G[cells[Max(s)]] = FieldSize(cells[Max(s)])
    <3> SUFFICES ASSUME NEW s \in SUBSET (1..n), s # {}
                 PROVE  G[cells[Max(s)]] = FieldSize(cells[Max(s)])
      OBVIOUS
    <3>1. Max(s) \in 1..n
      BY <1>2, MaxIn
    <3> QED BY <1>2, <1>3, <3>1
  <2> QED BY <1>2, <2>1 DEF Adds
<1> HIDE DEF n
<1>5. Adds(it, n, cells, G)
  <2>1. \E g : Adds(g, n, cells, G)
    BY <1>2, <1>3, SumFacts
  <2> QED BY <1>4, <2>1
<1> HIDE DEF it
<1>6. \A g : Adds(g, n, cells, G) =>
              g[1..n] \in Nat /\ (Ones(S, G) => g[1..n] = n)
  BY <1>2, <1>3, SumFacts
<1>7. it[1..n] \in Nat /\ ((\A c \in S : G[c] = 1) => it[1..n] = n)
  BY <1>5, <1>6 DEF Ones
<1> QED BY <1>1, <1>2, <1>3, <1>7 DEF n
-----------------------------------------------------------------------------
(* The contents of the file.                                               *)

Fields(r) == ToSet(PackFileOperation(r))
IsMark(c) == IsHeader(c) \/ c[1] = "memory"

\* What is written to it: lengths, what was in memory, the fields of records.
FileCells == ({"length_high", "length_low", "memory"} \X Nat)
               \union UNION {Fields(r) : r \in Records}

LEMMA CellFacts ==
  /\ \A x \in {"length_high", "length_low", "memory"}, n \in Nat : <<x, n>> \in FileCells
  /\ \A r \in Records : Fields(r) \subseteq FileCells
  /\ \A n \in Nat : /\ Header(n) \in Seq(FileCells) /\ Len(Header(n)) = 2
                    /\ Header(n)[1] = <<"length_high", n>>
                    /\ Header(n)[2] = <<"length_low", n>>
<1>1. \A x \in {"length_high", "length_low", "memory"}, n \in Nat : <<x, n>> \in FileCells
  BY DEF FileCells
<1>2. \A r \in Records : Fields(r) \subseteq FileCells
  BY DEF FileCells
<1>3. ASSUME NEW n \in Nat
      PROVE  /\ Header(n) \in Seq(FileCells) /\ Len(Header(n)) = 2
             /\ Header(n)[1] = <<"length_high", n>>
             /\ Header(n)[2] = <<"length_low", n>>
  <2>1. <<"length_high", n>> \in FileCells /\ <<"length_low", n>> \in FileCells
    BY <1>1
  <2>2. \A a, b \in FileCells : <<a, b>> \in Seq(FileCells)
    OBVIOUS
  <2>3. Header(n) \in Seq(FileCells)
    BY <2>1, <2>2 DEF Header
  <2> QED BY <2>3 DEF Header
<1> QED BY <1>1, <1>2, <1>3

\* The frame of a record that is logged.
Framed(fr, c) ==
  /\ Len(c) \in Nat /\ c \in Seq(FileCells)
  /\ fr \in Seq(FileCells) /\ Len(fr) = Len(c) + 2
  /\ fr[1] = <<"length_high", Len(c)>> /\ fr[2] = <<"length_low", Len(c)>>
  /\ \A k \in 1..Len(c) : fr[k + 2] = c[k]

LEMMA FramedFacts ==
  ASSUME NEW fr, NEW c, Framed(fr, c)
  PROVE  /\ fr \in Seq(FileCells) /\ c \in Seq(FileCells) /\ Len(c) \in Nat
         /\ Len(fr) = Len(c) + 2 /\ Len(fr) \in Nat
<1>1. /\ fr \in Seq(FileCells) /\ c \in Seq(FileCells) /\ Len(c) \in Nat
      /\ Len(fr) = Len(c) + 2
  BY DEF Framed
<1> QED BY <1>1

LEMMA FrameFacts ==
  ASSUME NEW r \in Records
  PROVE  LET c == PackFileOperation(r)
         IN  /\ PackedSize(c) = Len(c)
             /\ Framed(Frame(c), c)
             /\ \A x \in Fields(r) : ~IsMark(x)
<1> DEFINE c == PackFileOperation(r)
           n == Len(c)
           H == Header(n)
           N == {"relative_path", "type"} \union Required
<1>1. r \in Recs /\ JustLogged(r.op)
  BY LogFileAssumption
<1>2. r.op \in Ops /\ r = [path |-> r.path, op |-> r.op]
  BY <1>1 DEF Recs
<1>0. PICK m \in Nat : \E f : Packed(c, r.path, r.op, f, m)
  BY <1>1, <1>2, PackFacts
<1>3. PICK f : Packed(c, r.path, r.op, f, m)
  BY <1>0
<1>4. PICK S : Listed(OperationFields[r.op.type], S) /\ Complete(r.op, S)
  BY <1>2, FieldFacts
<1>5. \A k \in 1..m : f[k] \in N
  BY <1>3, <1>4 DEF Packed, Listed, Complete
<1> HIDE DEF c
<1>6. /\ n = m + 1 /\ DOMAIN c = 1..n /\ n \in Nat
      /\ \A k \in DOMAIN c : c[k][1] \in N
  <2>1. /\ n = m + 1 /\ DOMAIN c = 1..n /\ n \in Nat /\ c[1][1] = "relative_path"
        /\ \A k \in 1..m : c[k + 1][1] = f[k]
    BY <1>3 DEF Packed
  <2>2. ASSUME NEW k \in DOMAIN c, k # 1 PROVE c[k][1] \in N
    <3>1. k - 1 \in 1..m /\ (k - 1) + 1 = k
      BY <2>1, <2>2
    <3> QED BY <1>5, <2>1, <3>1
  <2> QED BY <2>1, <2>2
<1>7. c \in Seq(ToSet(c))
  BY <1>3 DEF Packed
<1>8. \A x \in ToSet(c) : FieldSize(x) = 1 /\ ~IsMark(x)
  <2>1. \A x \in ToSet(c) : x[1] \in N
    BY <1>6 DEF ToSet
  <2> QED BY <2>1 DEF FieldSize, IsMark, IsHeader, Required
<1>9. PackedSize(c) = n
  BY <1>7, <1>8, PackedSizeFacts
<1>10. Framed(Frame(c), c)
  <2>1. c \in Seq(FileCells)
    <3>1. ToSet(c) \subseteq FileCells
      BY CellFacts DEF Fields, c
    <3> QED BY <1>7, <3>1
  <2>2. H \in Seq(FileCells) /\ Len(H) = 2 /\ H[1] = <<"length_high", n>> /\ H[2] = <<"length_low", n>>
    BY <1>6, CellFacts
  <2>3. Frame(c) = H \o c
    BY <1>9 DEF Frame
  <2> HIDE DEF H, n
  <2>4. Frame(c) \in Seq(FileCells) /\ Joined(Frame(c), H, c)
    BY <2>1, <2>2, <2>3, JoinFacts
  <2>5. \A k \in 1..n : Frame(c)[k + 2] = c[k]
    <3>1. \A k \in 1..Len(c) : Frame(c)[Len(H) + k] = c[k]
      BY <2>4 DEF Joined
    <3>2. \A k \in 1..n : 2 + k = k + 2
      BY <1>6
    <3>3. \A k \in 1..n : Frame(c)[2 + k] = c[k]
      BY <2>2, <3>1 DEF n
    <3> QED BY <3>2, <3>3
  <2>6. Len(Frame(c)) = n + 2 /\ Frame(c)[1] = H[1] /\ Frame(c)[2] = H[2]
    <3>1. 1 \in 1..2 /\ 2 \in 1..2 /\ 2 + n = n + 2
      BY <1>6
    <3> QED BY <1>6, <2>2, <2>4, <3>1 DEF Joined, n
  <2>7. Len(c) = n
    BY DEF n
  <2> QED BY <1>6, <2>1, <2>2, <2>4, <2>5, <2>6, <2>7 DEF Framed
<1> QED BY <1>8, <1>9, <1>10 DEF c, Fields

\* Between two lengths, or what was in memory, there are fields of one record only.
Unmarked(f, a, b) == \A k \in a..b : ~IsMark(f[k])
Belongs(f, a, b, r) == \A k \in a..b : f[k] \in Fields(r)
OneRecord(f) ==
  \A a, b \in 1..Len(f) : a <= b /\ Unmarked(f, a, b) => \E r \in Records : Belongs(f, a, b, r)

\* Where the k-th of some records ends, and that it is there.
EndOf(w, k) == IF k = 0 THEN 0 ELSE w[k].end
FrameOf(w, k) == Frame(PackFileOperation(w[k].rec))
FrameAt(f, w, k) ==
  /\ w[k].end = EndOf(w, k - 1) + Len(FrameOf(w, k))
  /\ \A j \in 1..Len(FrameOf(w, k)) : f[EndOf(w, k - 1) + j] = FrameOf(w, k)[j]

\* The records w are how the file f begins.
Whole == [rec : Records, end : Nat]
Stands(f, w) ==
  /\ f \in Seq(FileCells) /\ OneRecord(f)
  /\ w \in Seq(Whole)
  /\ \A k \in 1..Len(w) : FrameAt(f, w, k)
  /\ \A j, k \in 1..Len(w) : j <= k => w[j].end <= w[k].end
  /\ EndOf(w, Len(w)) <= Len(f)

\* What one call writes.
Piece(c) == c \in Seq(FileCells) /\ OneRecord(c) /\ (Len(c) > 0 => IsMark(c[1]))

LEMMA MarkFacts ==
  \A x \in {"length_high", "length_low", "memory"} : \A n : IsMark(<<x, n>>)
  BY DEF IsMark, IsHeader

LEMMA PieceFacts ==
  /\ \A r \in Records : \A n \in 0..Len(Frame(PackFileOperation(r))) :
       Piece(SubSeq(Frame(PackFileOperation(r)), 1, n))
  /\ \A n \in Nat : Piece([k \in 1..n |-> <<"memory", k>>])
<1>1. ASSUME NEW r \in Records, NEW n \in 0..Len(Frame(PackFileOperation(r)))
      PROVE  Piece(SubSeq(Frame(PackFileOperation(r)), 1, n))
  <2> DEFINE c == PackFileOperation(r)
             fr == Frame(c)
             u == SubSeq(fr, 1, n)
  <2>1. Framed(fr, c) /\ \A x \in Fields(r) : ~IsMark(x)
    BY FrameFacts
  <2>0. n \in 0..Len(fr)
    OBVIOUS
  <2>3. ToSet(c) = Fields(r)
    BY DEF Fields
  <2> HIDE DEF c, fr
  <2>9. Framed(fr, c)
    BY <2>1
  <2>10. /\ fr \in Seq(FileCells) /\ c \in Seq(FileCells) /\ Len(c) \in Nat
         /\ Len(fr) = Len(c) + 2
    BY <2>9, FramedFacts
  <2>11. /\ fr[1] = <<"length_high", Len(c)>> /\ fr[2] = <<"length_low", Len(c)>>
    BY <2>9 DEF Framed
  <2>2. /\ fr \in Seq(FileCells) /\ Len(c) \in Nat /\ Len(fr) = Len(c) + 2
        /\ Len(fr) \in Nat /\ n \in Nat /\ n <= Len(fr)
    BY <2>0, <2>10
  <2>4. u \in Seq(FileCells) /\ Len(u) = n /\ \A k \in 1..n : u[k] = fr[k]
    <3>1. SubSeq(fr, 0 + 1, n) \in Seq(FileCells)
      BY <2>2, PartFacts DEF fr, c
    <3> QED BY <2>2, <3>1 DEF fr, c
  <2> HIDE DEF u
  <2>5. \A k \in 1..n : k = 1 \/ k = 2 \/ u[k] \in Fields(r)
    <3> SUFFICES ASSUME NEW k \in 1..n, k # 1, k # 2 PROVE u[k] \in Fields(r)
      OBVIOUS
    <3>1. k - 2 \in 1..Len(c) /\ (k - 2) + 2 = k
      BY <2>2
    <3>2. fr[k] = c[k - 2]
      BY <2>1, <3>1 DEF Framed
    <3>3. c[k - 2] \in ToSet(c)
      <4>1. DOMAIN c = 1..Len(c)
        BY <2>10
      <4> QED BY <3>1, <4>1 DEF ToSet
    <3> QED BY <2>3, <2>4, <3>2, <3>3
  <2>6. \A k \in 1..n : k = 1 \/ k = 2 => IsMark(u[k])
    <3>1. IsMark(fr[1]) /\ IsMark(fr[2])
      BY <2>11, MarkFacts
    <3> QED BY <2>4, <3>1
  <2>7. OneRecord(u)
    <3> SUFFICES ASSUME NEW a \in 1..n, NEW b \in 1..n, a <= b, Unmarked(u, a, b)
                 PROVE  Belongs(u, a, b, r)
      BY <2>4 DEF OneRecord
    <3>1. \A k \in a..b : k \in 1..n /\ ~IsMark(u[k])
      BY <2>2 DEF Unmarked
    <3> QED BY <2>5, <2>6, <3>1 DEF Belongs
  <2>8. Len(u) > 0 => IsMark(u[1])
    BY <2>2, <2>4, <2>6
  <2> QED BY <2>4, <2>7, <2>8 DEF Piece, u, fr, c
<1>2. ASSUME NEW n \in Nat PROVE Piece([k \in 1..n |-> <<"memory", k>>])
  <2> DEFINE u == [k \in 1..n |-> <<"memory", k>>]
  <2>1. \A k \in 1..n : <<"memory", k>> \in FileCells
    <3>1. 1..n \subseteq Nat
      OBVIOUS
    <3> QED BY <3>1, CellFacts
  <2>2. u \in Seq(FileCells) /\ Len(u) = n
    BY <2>1
  <2>3. \A k \in 1..n : IsMark(u[k])
    BY DEF IsMark
  <2> HIDE DEF u
  <2>4. OneRecord(u)
    BY <2>2, <2>3 DEF OneRecord, Unmarked
  <2> QED BY <2>2, <2>3, <2>4 DEF Piece, u
<1> QED BY <1>1, <1>2

\* Something is written to the end.
LEMMA OneRecordKept ==
  ASSUME NEW f \in Seq(FileCells), OneRecord(f), NEW c, Piece(c)
  PROVE  OneRecord(f \o c)
<1> DEFINE u == f \o c
           n == Len(f)
           m == Len(c)
<1>1. u \in Seq(FileCells) /\ Joined(u, f, c)
  BY JoinFacts DEF Piece
<1>2. n \in Nat /\ m \in Nat
  BY DEF Piece
<1> HIDE DEF u, n, m
<1>3. Len(u) = n + m /\ (\A k \in 1..n : u[k] = f[k]) /\ \A k \in 1..m : u[n + k] = c[k]
  BY <1>1 DEF Joined, n, m
<1> SUFFICES ASSUME NEW a \in 1..n + m, NEW b \in 1..n + m, a <= b, Unmarked(u, a, b)
             PROVE  \E r \in Records : Belongs(u, a, b, r)
  BY <1>3 DEF OneRecord, u
<1>4. CASE b <= n
  <2>1. a \in 1..n /\ b \in 1..n /\ \A k \in a..b : k \in 1..n
    BY <1>2, <1>4
  <2>2. Unmarked(f, a, b)
    BY <1>3, <2>1 DEF Unmarked
  <2>3. PICK r \in Records : Belongs(f, a, b, r)
    BY <2>1, <2>2 DEF OneRecord, n
  <2>4. Belongs(u, a, b, r)
    BY <1>3, <2>1, <2>3 DEF Belongs
  <2> QED BY <2>4
<1>5. CASE a > n
  <2>1. /\ a - n \in 1..m /\ b - n \in 1..m /\ a - n <= b - n
        /\ \A k \in a..b : k - n \in (a - n)..(b - n) /\ k - n \in 1..m /\ n + (k - n) = k
        /\ \A k \in (a - n)..(b - n) : n + k \in a..b /\ k \in 1..m
    BY <1>2, <1>5
  <2>2. Unmarked(c, a - n, b - n)
    BY <1>3, <2>1 DEF Unmarked
  <2>3. PICK r \in Records : Belongs(c, a - n, b - n, r)
    BY <2>1, <2>2 DEF Piece, OneRecord, m
  <2>4. Belongs(u, a, b, r)
    BY <1>3, <2>1, <2>3 DEF Belongs
  <2> QED BY <2>4
<1>6. CASE a <= n /\ n < b
  <2>1. n + 1 \in a..b /\ 1 \in 1..m /\ m > 0
    BY <1>2, <1>6
  <2>2. u[n + 1] = c[1] /\ IsMark(c[1])
    BY <1>3, <2>1 DEF Piece, m
  <2> QED BY <2>1, <2>2 DEF Unmarked
<1> QED BY <1>2, <1>4, <1>5, <1>6

\* What there is of the records that stand.
LEMMA StandsFacts ==
  ASSUME NEW f, NEW w, Stands(f, w)
  PROVE  /\ Len(f) \in Nat /\ Len(w) \in Nat /\ DOMAIN w = 1..Len(w)
         /\ \A k \in 1..Len(w) :
              /\ w[k].rec \in Records /\ w[k].end \in Nat /\ FrameAt(f, w, k)
              /\ w[k].end <= EndOf(w, Len(w)) /\ w[k].end <= Len(f)
         /\ \A k \in 0..Len(w) : EndOf(w, k) \in Nat /\ EndOf(w, k) <= Len(f)
<1>1. f \in Seq(FileCells) /\ w \in Seq(Whole) /\ EndOf(w, Len(w)) <= Len(f)
      /\ \A k \in 1..Len(w) : FrameAt(f, w, k)
  BY DEF Stands
<1>2. Len(f) \in Nat /\ Len(w) \in Nat /\ DOMAIN w = 1..Len(w)
  BY <1>1
<1>3. \A k \in 1..Len(w) : w[k].rec \in Records /\ w[k].end \in Nat
  <2>1. \A k \in 1..Len(w) : w[k] \in Whole
    BY <1>1
  <2> QED BY <2>1 DEF Whole
<1>4. \A k \in 1..Len(w) : w[k].end <= EndOf(w, Len(w))
  <2> SUFFICES ASSUME NEW k \in 1..Len(w) PROVE w[k].end <= EndOf(w, Len(w))
    OBVIOUS
  <2>1. Len(w) \in 1..Len(w) /\ k <= Len(w) /\ Len(w) # 0
    BY <1>2
  <2> QED BY <2>1 DEF Stands, EndOf
<1>5. \A k \in 0..Len(w) : EndOf(w, k) \in Nat
  BY <1>2, <1>3 DEF EndOf
<1>6. \A k \in 1..Len(w) : w[k].end <= Len(f)
  <2>1. Len(w) \in 0..Len(w)
    BY <1>2
  <2> QED BY <1>1, <1>2, <1>3, <1>4, <1>5, <2>1
<1>7. \A k \in 0..Len(w) : EndOf(w, k) <= Len(f)
  BY <1>2, <1>6 DEF EndOf
<1> QED BY <1>1, <1>2, <1>3, <1>4, <1>5, <1>6, <1>7

LEMMA GrowsFacts ==
  ASSUME NEW f, NEW w, Stands(f, w), NEW c, Piece(c)
  PROVE  Stands(f \o c, w)
<1> DEFINE u == f \o c
<1>1. f \in Seq(FileCells) /\ OneRecord(f) /\ c \in Seq(FileCells) /\ Len(c) \in Nat
  BY DEF Stands, Piece
<1>2. OneRecord(u)
  BY <1>1, OneRecordKept
<1>3. u \in Seq(FileCells) /\ Joined(u, f, c)
  BY <1>1, JoinFacts
<1> HIDE DEF u
<1>4. Len(f) \in Nat /\ Len(u) = Len(f) + Len(c) /\ \A k \in 1..Len(f) : u[k] = f[k]
  BY <1>1, <1>3 DEF Joined
<1>5. EndOf(w, Len(w)) \in Nat /\ EndOf(w, Len(w)) <= Len(u)
  <2>1. Len(w) \in 0..Len(w)
    BY StandsFacts
  <2>2. EndOf(w, Len(w)) \in Nat /\ EndOf(w, Len(w)) <= Len(f)
    BY <2>1, StandsFacts
  <2> QED BY <1>1, <1>4, <2>2
<1>6. ASSUME NEW k \in 1..Len(w) PROVE FrameAt(u, w, k)
  <2>1. FrameAt(f, w, k) /\ w[k].end \in Nat /\ w[k].end <= Len(f) /\ k - 1 \in 0..Len(w)
    BY StandsFacts
  <2>2. EndOf(w, k - 1) \in Nat
    BY <2>1, StandsFacts
  <2> DEFINE s == EndOf(w, k - 1)
             fr == FrameOf(w, k)
  <2>3. Len(fr) \in Nat
    <3>1. w[k].rec \in Records
      BY StandsFacts
    <3>2. Framed(FrameOf(w, k), PackFileOperation(w[k].rec))
      BY <3>1, FrameFacts DEF FrameOf
    <3> QED BY <3>2, FramedFacts
  <2> HIDE DEF s, fr
  <2>4. w[k].end = s + Len(fr) /\ \A j \in 1..Len(fr) : f[s + j] = fr[j]
    BY <2>1 DEF FrameAt, s, fr
  <2>5. \A j \in 1..Len(fr) : s + j \in 1..Len(f)
    BY <1>4, <2>1, <2>2, <2>3, <2>4 DEF s
  <2>6. \A j \in 1..Len(fr) : u[s + j] = fr[j]
    BY <1>4, <2>4, <2>5
  <2> QED BY <2>4, <2>6 DEF FrameAt, s, fr
<1> QED BY <1>2, <1>3, <1>5, <1>6 DEF Stands, u

\* It was a whole record, and nothing but whole records is in front of it.
LEMMA RecordFacts ==
  ASSUME NEW f, NEW w, Stands(f, w), EndOf(w, Len(w)) = Len(f), NEW r \in Records
  PROVE  LET u == f \o Frame(PackFileOperation(r))
         IN  Stands(u, Append(w, [rec |-> r, end |-> Len(u)]))
<1> DEFINE fr == Frame(PackFileOperation(r))
           u == f \o fr
           e == [rec |-> r, end |-> Len(u)]
           v == Append(w, e)
           n == Len(w)
<1>1. Piece(fr) /\ Len(fr) \in Nat /\ fr \in Seq(FileCells)
  <2>1. Framed(fr, PackFileOperation(r))
    BY FrameFacts
  <2>2. fr \in Seq(FileCells) /\ Len(fr) \in Nat
    BY <2>1, FramedFacts
  <2>3. Len(fr) \in 0..Len(fr) /\ SubSeq(fr, 1, Len(fr)) = fr
    <3> HIDE DEF fr
    <3> QED BY <2>2
  <2>4. Piece(SubSeq(fr, 1, Len(fr)))
    BY <2>3, PieceFacts
  <2> QED BY <2>2, <2>3, <2>4
<1>2. f \in Seq(FileCells) /\ w \in Seq(Whole) /\ n \in Nat /\ Len(f) \in Nat
  BY DEF Stands
<1>3. Stands(u, w)
  BY <1>1, GrowsFacts
<1> HIDE DEF fr
<1>4. Joined(u, f, fr) /\ u \in Seq(FileCells)
  BY <1>1, <1>2, JoinFacts
<1> HIDE DEF u
<1>5. Len(u) \in Nat /\ Len(u) = Len(f) + Len(fr)
  BY <1>1, <1>2, <1>4 DEF Joined
<1>6. e \in Whole /\ e.rec = r /\ e.end = Len(u)
  BY <1>5 DEF Whole
<1> HIDE DEF e
<1>7. /\ v \in Seq(Whole) /\ Len(v) = n + 1 /\ v[n + 1] = e
      /\ \A k \in 1..n : v[k] = w[k]
  BY <1>2, <1>6
<1> HIDE DEF v, n
<1>8. \A k \in 0..n : EndOf(v, k) = EndOf(w, k)
  BY <1>2, <1>7 DEF EndOf
<1>9. EndOf(v, n + 1) = Len(u) /\ EndOf(v, n) = Len(f)
  BY <1>2, <1>6, <1>7, <1>8 DEF EndOf, n
<1>10. ASSUME NEW k \in 1..n + 1 PROVE FrameAt(u, v, k)
  <2>1. CASE k \in 1..n
    <3>1. k - 1 \in 0..n /\ v[k] = w[k] /\ FrameAt(u, w, k)
      BY <1>2, <1>3, <1>7, <2>1, StandsFacts DEF n
    <3> QED BY <1>8, <3>1 DEF FrameAt, FrameOf
  <2>2. CASE k = n + 1
    <3>1. FrameOf(v, k) = fr /\ k - 1 = n /\ v[k].end = Len(u)
      BY <1>2, <1>6, <1>7, <2>2 DEF FrameOf, fr
    <3>2. \A j \in 1..Len(fr) : u[Len(f) + j] = fr[j]
      BY <1>4 DEF Joined
    <3> QED BY <1>5, <1>9, <3>1, <3>2 DEF FrameAt
  <2> QED BY <1>2, <2>1, <2>2
<1>11. ASSUME NEW j \in 1..n + 1, NEW k \in 1..n + 1, j <= k PROVE v[j].end <= v[k].end
  <2>1. \A i \in 1..n : w[i].end \in Nat /\ w[i].end <= Len(u)
    BY <1>3, StandsFacts DEF n
  <2>2. CASE k \in 1..n
    <3>1. j \in 1..n
      BY <1>2, <1>11, <2>2
    <3>2. w[j].end <= w[k].end
      BY <1>11, <2>2, <3>1 DEF Stands, n
    <3> QED BY <1>7, <2>2, <3>1, <3>2
  <2>3. CASE k = n + 1
    <3>1. v[k].end = Len(u)
      BY <1>6, <1>7, <2>3
    <3>2. CASE j \in 1..n
      BY <1>7, <2>1, <3>1, <3>2
    <3>3. CASE j = n + 1
      BY <1>5, <2>3, <3>1, <3>3
    <3> QED BY <1>2, <3>2, <3>3
  <2> QED BY <1>2, <2>2, <2>3
<1>12. OneRecord(u)
  BY <1>3 DEF Stands
<1> QED BY <1>4, <1>5, <1>7, <1>9, <1>10, <1>11, <1>12 DEF Stands, v, u, e, fr

\* The file is cut, and the records that end behind the cut are gone.
LEMMA CutFacts ==
  ASSUME NEW f, NEW w, Stands(f, w), NEW n \in 0..Len(f), NEW m \in 0..Len(w),
         \A k \in DOMAIN w : k <= m <=> w[k].end <= n
  PROVE  LET u == SubSeq(f, 1, n)
             v == SubSeq(w, 1, m)
         IN  /\ Stands(u, v) /\ Len(u) = n /\ Len(v) = m
             /\ EndOf(v, m) = EndOf(w, m) /\ EndOf(w, m) <= n
<1> DEFINE u == SubSeq(f, 1, n)
           v == SubSeq(w, 1, m)
<1>1. f \in Seq(FileCells) /\ w \in Seq(Whole) /\ Len(f) \in Nat /\ Len(w) \in Nat
  BY DEF Stands
<1>2. n \in Nat /\ m \in Nat /\ n <= Len(f) /\ m <= Len(w) /\ DOMAIN w = 1..Len(w)
  BY <1>1
<1>3. u \in Seq(FileCells) /\ Len(u) = n /\ \A k \in 1..n : u[k] = f[k]
  <2>1. SubSeq(f, 0 + 1, n) \in Seq(FileCells)
    BY <1>1, PartFacts
  <2> QED BY <1>1, <1>2, <2>1
<1>4. v \in Seq(Whole) /\ Len(v) = m /\ \A k \in 1..m : v[k] = w[k]
  <2>1. SubSeq(w, 0 + 1, m) \in Seq(Whole)
    BY <1>1, PartFacts
  <2> QED BY <1>1, <1>2, <2>1
<1> HIDE DEF u, v
<1>5. \A k \in 0..m : EndOf(v, k) = EndOf(w, k) /\ EndOf(v, k) \in Nat /\ k \in 0..Len(w)
  <2>1. \A k \in 0..m : k \in 0..Len(w) /\ (k # 0 => k \in 1..m)
    BY <1>1, <1>2
  <2>2. \A k \in 0..m : EndOf(w, k) \in Nat
    BY <2>1, StandsFacts
  <2> QED BY <1>4, <2>1, <2>2 DEF EndOf
<1>6. \A k \in 1..m : w[k].end \in Nat /\ w[k].end <= n /\ k \in 1..Len(w)
  <2>1. \A k \in 1..m : k \in 1..Len(w) /\ k <= m
    BY <1>1, <1>2
  <2> QED BY <1>2, <2>1, StandsFacts
<1>7. EndOf(w, m) <= n
  <2>1. m # 0 => m \in 1..m
    BY <1>2
  <2> QED BY <1>2, <1>6, <2>1 DEF EndOf
<1>8. OneRecord(u)
  <2> SUFFICES ASSUME NEW a \in 1..n, NEW b \in 1..n, a <= b, Unmarked(u, a, b)
               PROVE  \E r \in Records : Belongs(u, a, b, r)
    BY <1>3 DEF OneRecord
  <2>1. a \in 1..Len(f) /\ b \in 1..Len(f) /\ \A k \in a..b : k \in 1..n
    BY <1>1, <1>2
  <2>2. Unmarked(f, a, b)
    BY <1>3, <2>1 DEF Unmarked
  <2>3. PICK r \in Records : Belongs(f, a, b, r)
    BY <2>1, <2>2 DEF Stands, OneRecord
  <2>4. Belongs(u, a, b, r)
    BY <1>3, <2>1, <2>3 DEF Belongs
  <2> QED BY <2>4
<1>9. ASSUME NEW k \in 1..m PROVE FrameAt(u, v, k)
  <2>1. k \in 1..Len(w) /\ w[k].end <= n /\ w[k].end \in Nat
    BY <1>6
  <2>2. FrameAt(f, w, k) /\ w[k].rec \in Records
    BY <2>1, StandsFacts
  <2> DEFINE s == EndOf(w, k - 1)
             fr == FrameOf(w, k)
  <2>3. k - 1 \in 0..m /\ s \in Nat /\ EndOf(v, k - 1) = s
    <3>1. k - 1 \in 0..m
      BY <1>2
    <3>2. EndOf(v, k - 1) = s /\ EndOf(v, k - 1) \in Nat
      BY <1>5, <3>1
    <3> QED BY <3>1, <3>2
  <2>4. Len(fr) \in Nat
    <3>1. Framed(FrameOf(w, k), PackFileOperation(w[k].rec))
      BY <2>2, FrameFacts DEF FrameOf
    <3> QED BY <3>1, FramedFacts
  <2>5. FrameOf(v, k) = fr /\ v[k].end = w[k].end
    BY <1>4 DEF FrameOf
  <2> HIDE DEF s, fr
  <2>6. w[k].end = s + Len(fr) /\ \A j \in 1..Len(fr) : f[s + j] = fr[j]
    BY <2>2 DEF FrameAt, s, fr
  <2>7. \A j \in 1..Len(fr) : s + j \in 1..n
    BY <1>2, <2>1, <2>3, <2>4, <2>6
  <2>8. \A j \in 1..Len(fr) : u[s + j] = fr[j]
    BY <1>3, <2>6, <2>7
  <2> QED BY <2>3, <2>5, <2>6, <2>8 DEF FrameAt
<1>10. ASSUME NEW j \in 1..m, NEW k \in 1..m, j <= k PROVE v[j].end <= v[k].end
  <2>1. j \in 1..Len(w) /\ k \in 1..Len(w)
    BY <1>6
  <2> QED BY <1>4, <1>10, <2>1 DEF Stands
<1>11. EndOf(v, m) = EndOf(w, m)
  BY <1>2, <1>5
<1> QED BY <1>3, <1>4, <1>7, <1>8, <1>9, <1>10, <1>11 DEF Stands, u, v

-----------------------------------------------------------------------------
(* What is read.                                                           *)

LEMMA SameSequence ==
  ASSUME NEW S, NEW a \in Seq(S), NEW b \in Seq(S), NEW n, Len(a) = n, Len(b) = n,
         \A k \in 1..n : a[k] = b[k]
  PROVE  a = b
  OBVIOUS

\* Of a record that stands.
LEMMA ReadFacts ==
  ASSUME NEW f, NEW w, Stands(f, w), NEW k \in 1..Len(w)
  PROVE  LET c == PackFileOperation(w[k].rec)
             s == EndOf(w, k - 1)
         IN  /\ Len(c) \in Nat /\ s \in Nat /\ Len(f) \in Nat
             /\ w[k].end = s + 2 + Len(c) /\ w[k].end <= Len(f)
             /\ f[s + 1] = <<"length_high", Len(c)>>
             /\ SubSeq(f, s + 1, s + 2) = Header(Len(c))
             /\ SubSeq(f, s + 3, s + 2 + Len(c)) = c
<1> DEFINE c == PackFileOperation(w[k].rec)
           s == EndOf(w, k - 1)
           fr == FrameOf(w, k)
           n == Len(c)
<1>1. /\ w[k].rec \in Records /\ FrameAt(f, w, k) /\ k - 1 \in 0..Len(w)
      /\ w[k].end <= Len(f) /\ Len(f) \in Nat /\ s \in Nat
  <2>1. k - 1 \in 0..Len(w)
    BY StandsFacts
  <2> QED BY <2>1, StandsFacts
<1>2. Framed(fr, c)
  BY <1>1, FrameFacts DEF FrameOf
<1>3. w[k].end = s + Len(fr) /\ \A j \in 1..Len(fr) : f[s + j] = fr[j]
  BY <1>1 DEF FrameAt
<1>4. f \in Seq(FileCells)
  BY DEF Stands
<1> HIDE DEF c, s, fr
<1>5. c \in Seq(FileCells) /\ n \in Nat /\ Len(fr) = n + 2
  BY <1>2, FramedFacts
<1>6. fr[1] = <<"length_high", n>> /\ fr[2] = <<"length_low", n>>
      /\ \A j \in 1..n : fr[j + 2] = c[j]
  BY <1>2 DEF Framed
<1> HIDE DEF n
<1>7. w[k].end = s + 2 + n /\ s + 2 + n <= Len(f)
  BY <1>1, <1>3, <1>5
<1>8. f[s + 1] = <<"length_high", n>> /\ f[s + 2] = <<"length_low", n>>
  <2>1. 1 \in 1..Len(fr) /\ 2 \in 1..Len(fr)
    BY <1>5
  <2> QED BY <1>3, <1>6, <2>1
<1>9. SubSeq(f, s + 1, s + 2) = Header(n)
  <2> DEFINE h == SubSeq(f, s + 1, s + 2)
  <2>1. h \in Seq(FileCells) /\ Len(h) = 2 /\ h[1] = f[s + 1] /\ h[2] = f[s + 2]
    <3>1. s + 2 \in 0..Len(f)
      BY <1>1, <1>5, <1>7
    <3>2. h \in Seq(FileCells)
      BY <1>1, <1>4, <3>1, PartFacts
    <3>3. Len(h) = 2
      BY <1>1, <1>4, <3>1
    <3>4. h[1] = f[s + 1] /\ h[2] = f[s + 2]
      BY <1>1, <1>4, <3>1
    <3> QED BY <3>2, <3>3, <3>4
  <2>2. Header(n) \in Seq(FileCells) /\ Len(Header(n)) = 2
        /\ Header(n)[1] = f[s + 1] /\ Header(n)[2] = f[s + 2]
    BY <1>5, <1>8, CellFacts
  <2> HIDE DEF h
  <2>3. \A a, b \in Seq(FileCells) : Len(a) = 2 /\ Len(b) = 2 /\ a[1] = b[1] /\ a[2] = b[2]
          => a = b
    OBVIOUS
  <2> QED BY <2>1, <2>2, <2>3 DEF h
<1>10. SubSeq(f, s + 3, s + 2 + n) = c
  <2> DEFINE h == SubSeq(f, s + 3, s + 2 + n)
  <2>1. s + 2 + n \in 0..Len(f) /\ s + 2 \in Nat /\ (s + 2) + 1 = s + 3
    BY <1>1, <1>5, <1>7
  <2>2. h \in Seq(FileCells)
    BY <1>4, <2>1, PartFacts
  <2>3. Len(h) = n /\ \A j \in 1..n : h[j] = f[s + 2 + j]
    BY <1>1, <1>5, <2>2
  <2>4. \A j \in 1..n : f[s + 2 + j] = c[j]
    <3> SUFFICES ASSUME NEW j \in 1..n PROVE f[s + 2 + j] = c[j]
      OBVIOUS
    <3>1. j + 2 \in 1..Len(fr) /\ s + 2 + j = s + (j + 2)
      BY <1>1, <1>5
    <3> QED BY <1>3, <1>6, <3>1
  <2> HIDE DEF h
  <2>5. \A j \in 1..n : h[j] = c[j]
    BY <2>3, <2>4
  <2>6. Len(h) = Len(c)
    BY <2>3 DEF n
  <2>7. h = c
    BY <1>5, <2>2, <2>3, <2>5, <2>6, SameSequence
  <2> QED BY <2>7 DEF h
<1> QED BY <1>1, <1>5, <1>7, <1>8, <1>9, <1>10 DEF c, s, n

LEMMA ElementOf ==
  ASSUME NEW S, NEW s \in Seq(S), NEW k \in 1..Len(s)
  PROVE  s[k] \in S
  OBVIOUS

\* A length is a number, and what is read there is no record or one that was
\* logged, if it is not made of parts.
LEMMA LengthFacts ==
  ASSUME NEW f \in Seq(FileCells), NEW k \in 1..Len(f), f[k][1] = "length_high"
  PROVE  f[k][2] \in Nat
<1>1. f[k] \in FileCells
  BY ElementOf
<1>2. \A r \in Records : f[k] \notin Fields(r)
  <2>1. IsMark(f[k])
    BY DEF IsMark, IsHeader
  <2> QED BY <2>1, FrameFacts
<1> QED BY <1>1, <1>2 DEF FileCells

LEMMA UnpackedFacts ==
  ASSUME Stands(file, whole), NEW a \in Nat, NEW n \in Nat, a + n <= Len(file),
         NEW r \in Unpacked(SubSeq(file, a + 1, a + n))
  PROVE  r \in {Null, Junk} \union Records
<1> DEFINE c == SubSeq(file, a + 1, a + n)
<1>1. file \in Seq(FileCells) /\ Len(file) \in Nat /\ OneRecord(file)
  BY DEF Stands
<1>2. c \in Seq(FileCells)
  BY <1>1, PartFacts
<1>3. Len(c) = n /\ DOMAIN c = 1..n /\ \A k \in 1..n : c[k] = file[a + k]
  BY <1>1, <1>2
<1> HIDE DEF c
<1>4. CASE \E x \in ToSet(c) : IsMark(x)
  <2>1. Unpacked(c) = {Null, Junk}
    BY <1>4 DEF Unpacked, IsMark
  <2> QED BY <2>1 DEF c
<1>5. CASE ~\E x \in ToSet(c) : IsMark(x)
  <2>1. r = UnpackFileOperation(c)
    BY <1>5 DEF Unpacked, IsMark, c
  <2>2. CASE n = 0
    <3>1. Names(c) = {}
      BY <1>3, <2>2 DEF Names, ToSet
    <3> QED BY <2>1, <3>1 DEF UnpackFileOperation
  <2>3. CASE n # 0
    <3>1. a + 1 \in 1..Len(file) /\ a + n \in 1..Len(file) /\ a + 1 <= a + n
      BY <1>1, <2>3
    <3>2. Unmarked(file, a + 1, a + n)
      <4> SUFFICES ASSUME NEW k \in a + 1..a + n PROVE ~IsMark(file[k])
        BY DEF Unmarked
      <4>1. k - a \in 1..n /\ a + (k - a) = k
        OBVIOUS
      <4>2. c[k - a] \in ToSet(c) /\ c[k - a] = file[k]
        BY <1>3, <4>1 DEF ToSet
      <4> QED BY <1>5, <4>2
    <3>3. PICK x \in Records : Belongs(file, a + 1, a + n, x)
      BY <1>1, <3>1, <3>2 DEF OneRecord
    <3>4. ToSet(c) \subseteq ToSet(PackFileOperation(x))
      <4> SUFFICES ASSUME NEW k \in 1..n PROVE c[k] \in Fields(x)
        BY <1>3 DEF ToSet, Fields
      <4>1. a + k \in a + 1..a + n
        OBVIOUS
      <4> QED BY <1>3, <3>3, <4>1 DEF Belongs
    <3>5. x \in Recs /\ JustLogged(x.op)
      BY LogFileAssumption
    <3> QED BY <1>2, <2>1, <3>4, <3>5, UnpackFacts
  <2> QED BY <2>2, <2>3
<1> QED BY <1>4, <1>5

-----------------------------------------------------------------------------
(* The inductive invariant of the log: the file begins with the whole      *)
(* records, of which the client has read some.                             *)

Undamaged == EndOf(whole, Len(whole))

FileInv == /\ Stands(file, whole)
           /\ damage = IF Undamaged = Len(file) THEN -1 ELSE Undamaged

ReaderInv ==
  /\ loaded \in Seq(Records \union {Junk}) /\ pos \in 0..Len(file)
  /\ stage = "record" => loaded = <<>> /\ pos = 0
  /\ Len(loaded) <= Len(whole) /\ stage # "crashed" => pos = EndOf(whole, Len(loaded))
  /\ \A k \in 1..Len(whole) : k <= Len(loaded) => loaded[k] = whole[k].rec
  /\ damage = -1 => Len(loaded) <= Len(whole)
  /\ damage = -1 /\ ~unread => stage \notin {"failed", "crashed"}
  /\ stage = "loaded" /\ ~unread =>
       /\ Len(loaded) >= Len(whole)
       /\ Len(loaded) = Len(whole) => Len(file) - pos < HeaderSize

LogInv == FileInv /\ ReaderInv

LEMMA LogStarts == LInit => LogInv
<1> SUFFICES ASSUME LInit PROVE LogInv
  OBVIOUS
<1>1. file = <<>> /\ whole = <<>> /\ Len(file) = 0 /\ Len(whole) = 0
  BY DEF LInit
<1>2. Stands(file, whole)
  BY <1>1 DEF Stands, OneRecord, EndOf
<1>3. FileInv
  BY <1>1, <1>2 DEF FileInv, Undamaged, EndOf, LInit
<1>4. ReaderInv
  BY <1>1 DEF ReaderInv, EndOf, LInit
<1> QED BY <1>3, <1>4 DEF LogInv

LEMMA AppendedKeeps ==
  ASSUME FileInv, NEW r \in Records, NEW c, Piece(c), Appended(r, c)
  PROVE  FileInv'
<1>1. Stands(file, whole) /\ Len(file) \in Nat /\ file' = file \o c
      /\ Undamaged \in Nat /\ Undamaged <= Len(file)
  <2>1. Stands(file, whole) /\ file' = file \o c
    BY DEF FileInv, Appended
  <2>2. Len(whole) \in 0..Len(whole)
    BY <2>1, StandsFacts
  <2> QED BY <2>1, <2>2, StandsFacts DEF Undamaged
<1>2. /\ c \in Seq(FileCells) /\ Len(c) \in Nat /\ Len(file') = Len(file) + Len(c)
      /\ Len(c) = 0 <=> c = <<>>
  <2>1. c \in Seq(FileCells) /\ file \in Seq(FileCells)
    BY <1>1 DEF Stands, Piece
  <2> QED BY <1>1, <2>1
<1>3. CASE c = Frame(PackFileOperation(r)) /\ damage = -1
  <2>1. Undamaged = Len(file)
    <3>1. damage = IF Undamaged = Len(file) THEN -1 ELSE Undamaged
      BY DEF FileInv
    <3> QED BY <1>1, <1>3, <3>1
  <2>2. whole' = Append(whole, [rec |-> r, end |-> Len(file')]) /\ damage' = damage
    BY <1>3 DEF Appended
  <2>3. Stands(file', whole')
    BY <1>1, <1>3, <2>1, <2>2, RecordFacts DEF Undamaged
  <2>4. Undamaged' = Len(file')
    <3>1. whole \in Seq(Whole)
      BY <1>1 DEF Stands
    <3>2. Len(whole') = Len(whole) + 1 /\ Len(whole) \in Nat
          /\ whole'[Len(whole) + 1] = [rec |-> r, end |-> Len(file')]
      BY <2>2, <3>1
    <3> QED BY <3>2 DEF Undamaged, EndOf
  <2> QED BY <1>3, <2>2, <2>3, <2>4 DEF FileInv
<1>4. CASE ~(c = Frame(PackFileOperation(r)) /\ damage = -1)
  <2>1. /\ whole' = whole
        /\ damage' = IF damage = -1 /\ c # <<>> THEN Len(file) ELSE damage
    BY <1>4 DEF Appended
  <2>2. Stands(file', whole')
    BY <1>1, <2>1, GrowsFacts
  <2>3. Undamaged' = Undamaged
    BY <2>1 DEF Undamaged
  <2>4. damage = IF Undamaged = Len(file) THEN -1 ELSE Undamaged
    BY DEF FileInv
  <2>5. damage' = IF Undamaged = Len(file') THEN -1 ELSE Undamaged
    <3>1. CASE c = <<>>
      <4>1. Len(file') = Len(file)
        BY <1>1, <1>2, <3>1
      <4> QED BY <2>1, <2>4, <3>1, <4>1
    <3>2. CASE c # <<>>
      <4>1. Len(c) > 0 /\ Undamaged # Len(file')
        BY <1>1, <1>2, <3>2
      <4>2. CASE damage = -1
        <5>1. Undamaged = Len(file)
          BY <1>1, <2>4, <4>2
        <5> QED BY <2>1, <3>2, <4>1, <4>2, <5>1
      <4>3. CASE damage # -1
        BY <2>1, <2>4, <4>1, <4>3
      <4> QED BY <4>2, <4>3
    <3> QED BY <3>1, <3>2
  <2> QED BY <2>2, <2>3, <2>5 DEF FileInv
<1> QED BY <1>3, <1>4

\* A record is written, or a part of it, or what is in memory, or nothing.
LEMMA LogGenericKeeps ==
  ASSUME FileInv, NEW r \in Records, LogGeneric(r)
  PROVE  FileInv'
<1> DEFINE cells == Frame(PackFileOperation(r))
<1>1. PICK n \in 0..Len(cells) :
        \/ Appended(r, SubSeq(cells, 1, n))
        \/ n <= 1 /\ Appended(r, [k \in 1..n |-> <<"memory", k>>])
        \/ Appended(r, <<>>)
  <2> DEFINE size == PackedSize(PackFileOperation(r))
  <2>1. PICK ok \in BOOLEAN, n \in 0..Len(cells) :
          CASE PackResult(buffer, size, ok) = "packed" -> Appended(r, SubSeq(cells, 1, n))
            [] PackResult(buffer, size, ok) = "failed" ->
                 n <= 1 /\ Appended(r, [k \in 1..n |-> <<"memory", k>>])
            [] PackResult(buffer, size, ok) = "crashed" -> n = 0 /\ Appended(r, <<>>)
    BY DEF LogGeneric
  <2>2. PackResult(buffer, size, ok) \in {"packed", "failed", "crashed"}
    BY DEF PackResult
  <2> HIDE DEF cells, size
  <2> QED BY <2>1, <2>2
<1>2. Len(cells) \in Nat /\ n \in Nat
  <2>1. Framed(cells, PackFileOperation(r))
    BY FrameFacts
  <2> HIDE DEF cells
  <2>2. Len(cells) \in Nat
    BY <2>1, FramedFacts
  <2> QED BY <2>2
<1>3. Piece(SubSeq(cells, 1, n)) /\ Piece([k \in 1..n |-> <<"memory", k>>])
  BY <1>2, PieceFacts
<1>4. Piece(<<>>)
  BY DEF Piece, OneRecord
<1> QED BY <1>1, <1>3, <1>4, AppendedKeeps

LEMMA GoDownKeeps ==
  ASSUME FileInv, NEW n, GoDown(n)
  PROVE  FileInv'
<1>1. PICK m \in 0..Len(whole) :
        /\ \A k \in DOMAIN whole : k <= m <=> whole[k].end <= n
        /\ file' = SubSeq(file, 1, n) /\ whole' = SubSeq(whole, 1, m)
        /\ damage' = IF damage # -1 /\ damage < n THEN damage
                     ELSE IF EndOf(whole, m) = n THEN -1 ELSE EndOf(whole, m)
  BY DEF GoDown, EndOf
<1>2. n \in 0..Len(file) /\ Stands(file, whole)
      /\ damage = IF Undamaged = Len(file) THEN -1 ELSE Undamaged
  BY DEF GoDown, FileInv
<1>3. Len(file) \in Nat /\ Len(whole) \in Nat /\ DOMAIN whole = 1..Len(whole)
      /\ \A k \in 0..Len(whole) : EndOf(whole, k) \in Nat /\ EndOf(whole, k) <= Len(file)
  BY <1>2, StandsFacts
<1>4. /\ Stands(file', whole') /\ Len(file') = n /\ Len(whole') = m
      /\ EndOf(whole', m) = EndOf(whole, m) /\ EndOf(whole, m) <= n
  BY <1>1, <1>2, CutFacts
<1>5. Undamaged' = EndOf(whole, m) /\ EndOf(whole, m) \in Nat
  BY <1>3, <1>4 DEF Undamaged
<1>6. ASSUME damage # -1, damage < n PROVE EndOf(whole, m) = damage
  <2>1. damage = EndOf(whole, Len(whole))
    BY <1>2, <1>6 DEF Undamaged
  <2>2. CASE Len(whole) = 0
    BY <1>1, <2>1, <2>2
  <2>3. CASE Len(whole) # 0
    <3>1. Len(whole) \in DOMAIN whole /\ whole[Len(whole)].end = damage
      BY <1>3, <2>1, <2>3 DEF EndOf
    <3>2. Len(whole) <= m
      BY <1>1, <1>2, <1>3, <1>6, <2>1, <3>1
    <3>3. m = Len(whole)
      <4>1. m \in 0..Len(whole)
        BY <1>1
      <4>2. Len(whole) \in Nat
        BY <1>3
      <4> QED BY <3>2, <4>1, <4>2
    <3> QED BY <2>1, <3>3
  <2> QED BY <2>2, <2>3
<1>7. damage' = IF Undamaged' = Len(file') THEN -1 ELSE Undamaged'
  <2>1. CASE damage # -1 /\ damage < n
    <3>1. damage' = damage /\ EndOf(whole, m) = damage /\ EndOf(whole, m) # n
      BY <1>1, <1>2, <1>5, <1>6, <2>1
    <3> QED BY <1>4, <1>5, <3>1
  <2>2. CASE ~(damage # -1 /\ damage < n)
    BY <1>1, <1>4, <1>5, <2>2
  <2> QED BY <2>1, <2>2
<1> QED BY <1>4, <1>7 DEF FileInv

\* The client has read nothing while the file is written.
LEMMA UnreadKeeps ==
  ASSUME LogInv, FileInv', stage = "record", UNCHANGED reader
  PROVE  LogInv'
<1>1. loaded' = <<>> /\ pos' = 0 /\ stage' = "record"
  BY DEF LogInv, ReaderInv, reader
<1>2. Len(file') \in Nat /\ Len(whole') \in Nat
  BY DEF FileInv, Stands
<1>3. \A k \in 1..Len(whole') : ~(k <= Len(loaded'))
  BY <1>1, <1>2
<1>4. ReaderInv'
  BY <1>1, <1>2, <1>3 DEF ReaderInv, EndOf
<1> QED BY <1>4 DEF LogInv

\* The next record that stands is read as it was logged.
LEMMA NextFacts ==
  ASSUME FileInv, ReaderInv, stage = "load", LoadRecord, Len(loaded) < Len(whole)
  PROVE  LET k == Len(loaded) + 1
         IN  /\ pos' = EndOf(whole, k) /\ loaded' = Append(loaded, whole[k].rec)
             /\ stage' = stage
<1> DEFINE k == Len(loaded) + 1
           r == whole[k].rec
           c == PackFileOperation(r)
           s == EndOf(whole, k - 1)
<1>1. Stands(file, whole) /\ Len(whole) \in Nat /\ Len(loaded) \in Nat /\ pos = s
      /\ k \in 1..Len(whole)
  <2>1. loaded \in Seq(Records \union {Junk}) /\ Stands(file, whole)
    BY DEF FileInv, ReaderInv
  <2>2. Len(whole) \in Nat /\ Len(loaded) \in Nat
    BY <2>1, StandsFacts
  <2>3. pos = EndOf(whole, Len(loaded)) /\ k - 1 = Len(loaded) /\ k \in 1..Len(whole)
    BY <2>2 DEF ReaderInv
  <2> QED BY <2>1, <2>2, <2>3
<1> HIDE DEF k
<1>2. /\ Len(c) \in Nat /\ s \in Nat /\ Len(file) \in Nat
      /\ whole[k].end = s + 2 + Len(c) /\ whole[k].end <= Len(file)
      /\ file[s + 1] = <<"length_high", Len(c)>>
      /\ SubSeq(file, s + 1, s + 2) = Header(Len(c))
      /\ SubSeq(file, s + 3, s + 2 + Len(c)) = c
  BY <1>1, ReadFacts
<1>3. r \in Records /\ r # Null /\ r \in Recs /\ JustLogged(r.op)
  BY <1>1, StandsFacts, LogFileAssumption
<1>4. UnpackFileOperation(c) = r /\ \A x \in ToSet(c) : ~IsMark(x)
  <2>1. Framed(Frame(c), c) /\ \A x \in ToSet(c) : ~IsMark(x)
    BY <1>3, FrameFacts DEF Fields
  <2>2. c \in Seq(FileCells)
    BY <2>1, FramedFacts
  <2> QED BY <1>3, <2>1, <2>2, UnpackFacts, LogFileAssumption
<1> HIDE DEF c, s, r
<1>a. /\ Len(c) \in Nat /\ s \in Nat /\ Len(file) \in Nat /\ pos = s
      /\ whole[k].end = s + 2 + Len(c) /\ whole[k].end <= Len(file)
  BY <1>1, <1>2
<1>5. LengthAt(pos) = {Len(c)}
  <2>1. SubSeq(file, pos + 1, pos + HeaderSize) = Header(Len(c))
    BY <1>1, <1>2 DEF HeaderSize
  <2> DEFINE h == SubSeq(file, pos + 1, pos + HeaderSize)
  <2>2. Header(Len(c))[1] = <<"length_high", Len(c)>>
    BY <1>a, CellFacts
  <2>3. h[1][1] = "length_high" /\ h[1][2] = Len(c) /\ h = Header(h[1][2])
    <3>1. h = Header(Len(c)) /\ h[1] = <<"length_high", Len(c)>>
      BY <2>1, <2>2
    <3> HIDE DEF h
    <3>2. h[1][1] = "length_high" /\ h[1][2] = Len(c)
      <4>1. \A x, n : x = <<"length_high", n>> => x[1] = "length_high" /\ x[2] = n
        OBVIOUS
      <4> QED BY <3>1, <4>1
    <3> QED BY <3>1, <3>2
  <2> QED BY <2>3 DEF LengthAt
<1>6. Unpacked(SubSeq(file, pos + HeaderSize + 1, pos + HeaderSize + Len(c))) = {r}
  <2>1. pos + HeaderSize + 1 = s + 3 /\ pos + HeaderSize + Len(c) = s + 2 + Len(c)
    BY <1>a DEF HeaderSize
  <2> QED BY <1>2, <1>4, <2>1 DEF Unpacked, IsMark
<1>7. /\ ~(Len(file) - pos < HeaderSize)
      /\ ~(Len(c) > Len(file) - pos - HeaderSize)
      /\ pos + HeaderSize + Len(c) = whole[k].end
  BY <1>a DEF HeaderSize
<1>8. pos' = whole[k].end /\ loaded' = Append(loaded, r) /\ stage' = stage
  BY <1>3, <1>5, <1>6, <1>7 DEF LoadRecord
<1>9. whole[k].end = EndOf(whole, k)
  BY <1>1 DEF EndOf
<1> QED BY <1>8, <1>9 DEF r, k

LEMMA LoadRecordKeeps ==
  ASSUME LogInv, LoadRecord
  PROVE  LogInv'
<1> DEFINE S == Records \union {Junk}
           l == Len(loaded)
           w == Len(whole)
<1>1. /\ stage = "load" /\ FileInv /\ ReaderInv /\ Stands(file, whole)
      /\ UNCHANGED <<file, whole, damage, unread>>
      /\ loaded \in Seq(S) /\ pos \in 0..Len(file)
      /\ damage = IF Undamaged = Len(file) THEN -1 ELSE Undamaged
      /\ \A k \in 1..w : k <= l => loaded[k] = whole[k].rec
      /\ l <= w => pos = EndOf(whole, l)
      /\ damage = -1 => l <= w
  BY DEF LoadRecord, LogInv, FileInv, ReaderInv
<1>2. /\ l \in Nat /\ w \in Nat /\ Len(file) \in Nat
      /\ \A k \in 0..w : EndOf(whole, k) \in Nat /\ EndOf(whole, k) <= Len(file)
      /\ file \in Seq(FileCells)
  <2>1. l \in Nat
    BY <1>1
  <2> QED BY <1>1, <2>1, StandsFacts DEF Stands
<1>3. FileInv'
  BY <1>1 DEF FileInv, Undamaged
<1> SUFFICES ReaderInv'
  BY <1>3 DEF LogInv
\* One element more that is a record, or none.
<1>4. ASSUME NEW r \in S, loaded' = Append(loaded, r)
      PROVE  /\ loaded' \in Seq(S) /\ Len(loaded') = l + 1 /\ loaded'[l + 1] = r
             /\ \A k \in 1..l : loaded'[k] = loaded[k]
  BY <1>1, <1>4
<1>5. CASE l < w
  <2>1. /\ pos' = EndOf(whole, l + 1) /\ loaded' = Append(loaded, whole[l + 1].rec)
        /\ stage' = stage
    BY <1>1, <1>5, NextFacts
  <2>2. l + 1 \in 1..w /\ l + 1 \in 0..w /\ whole[l + 1].rec \in S
    <3>1. l + 1 \in 1..w /\ l + 1 \in 0..w
      BY <1>2, <1>5
    <3> QED BY <1>1, <3>1, StandsFacts
  <2>3. /\ loaded' \in Seq(S) /\ Len(loaded') = l + 1
        /\ loaded'[l + 1] = whole[l + 1].rec /\ \A k \in 1..l : loaded'[k] = loaded[k]
    BY <1>4, <2>1, <2>2
  <2>4. pos' \in 0..Len(file') /\ stage' = "load" /\ pos' = EndOf(whole', Len(loaded'))
    <3>1. EndOf(whole, l + 1) \in 0..Len(file)
      BY <1>2, <2>2
    <3> QED BY <1>1, <2>1, <2>3, <3>1
  <2>5. \A k \in 1..w : k <= l + 1 => loaded'[k] = whole[k].rec
    <3> SUFFICES ASSUME NEW k \in 1..w, k <= l + 1 PROVE loaded'[k] = whole[k].rec
      OBVIOUS
    <3>1. CASE k = l + 1
      BY <2>3, <3>1
    <3>2. CASE k # l + 1
      <4>1. k \in 1..l /\ k <= l
        BY <1>2, <3>2
      <4> QED BY <1>1, <2>3, <4>1
    <3> QED BY <3>1, <3>2
  <2>6. Len(loaded') <= w
    BY <1>2, <1>5, <2>3
  <2> QED BY <1>1, <2>3, <2>4, <2>5, <2>6 DEF ReaderInv
<1>6. CASE l >= w /\ Len(file) - pos < HeaderSize
  <2>1. stage' = "loaded" /\ UNCHANGED <<pos, loaded>>
    BY <1>6 DEF LoadRecord
  <2> QED BY <1>1, <1>6, <2>1 DEF ReaderInv
<1>7. CASE l >= w /\ ~(Len(file) - pos < HeaderSize)
  <2>1. damage # -1
    <3> SUFFICES ASSUME damage = -1 PROVE FALSE
      OBVIOUS
    <3>1. Undamaged \in Nat
      BY <1>2 DEF Undamaged
    <3>2. Undamaged = Len(file) /\ l <= w
      BY <1>1, <3>1
    <3>3. pos = Len(file)
      <4>1. l = w
        BY <1>2, <1>7, <3>2
      <4> QED BY <1>1, <3>2, <4>1 DEF Undamaged
    <3> QED BY <1>2, <1>7, <3>3 DEF HeaderSize
  <2>2. \A k \in 1..w : k <= l
    BY <1>2, <1>7
  <2>3. pos \in Nat /\ pos + 1 \in 1..Len(file) /\ pos + 2 <= Len(file)
    <3>1. pos \in Nat /\ Len(file) - pos >= 2
      BY <1>1, <1>2, <1>7 DEF HeaderSize
    <3> QED BY <1>2, <3>1
  <2>4. PICK n \in LengthAt(pos) :
          IF n > Len(file) - pos - HeaderSize
          THEN stage' = "failed" /\ UNCHANGED <<pos, loaded>>
          ELSE \E r \in Unpacked(SubSeq(file, pos + HeaderSize + 1, pos + HeaderSize + n)) :
                 /\ pos' = pos + HeaderSize + n
                 /\ IF r = Null THEN stage' = "crashed" /\ UNCHANGED loaded
                    ELSE loaded' = Append(loaded, r) /\ UNCHANGED stage
    BY <1>7 DEF LoadRecord
  <2>5. n \in Nat
    <3> DEFINE c == SubSeq(file, pos + 1, pos + HeaderSize)
    <3>1. c[1] = file[pos + 1]
      BY <1>2, <2>3 DEF HeaderSize
    <3> HIDE DEF c
    <3>2. n \in 0..Len(file) \/ (c[1][1] = "length_high" /\ n = c[1][2])
      BY <2>4 DEF LengthAt, c
    <3>3. c[1][1] = "length_high" => c[1][2] \in Nat
      BY <1>2, <2>3, <3>1, LengthFacts
    <3> QED BY <1>2, <3>2, <3>3
  <2>6. CASE n > Len(file) - pos - HeaderSize
    <3>1. stage' = "failed" /\ UNCHANGED <<pos, loaded>>
      BY <2>4, <2>6
    <3> QED BY <1>1, <2>1, <3>1 DEF ReaderInv
  <2>7. CASE ~(n > Len(file) - pos - HeaderSize)
    <3>1. pos + 2 + n <= Len(file) /\ pos + 2 \in Nat
      BY <1>2, <2>3, <2>5, <2>7 DEF HeaderSize
    <3>2. PICK r \in Unpacked(SubSeq(file, (pos + 2) + 1, (pos + 2) + n)) :
            /\ pos' = pos + 2 + n
            /\ IF r = Null THEN stage' = "crashed" /\ UNCHANGED loaded
               ELSE loaded' = Append(loaded, r) /\ UNCHANGED stage
      BY <2>4, <2>7 DEF HeaderSize
    <3>3. r \in {Null} \union S
      BY <1>1, <2>5, <3>1, <3>2, UnpackedFacts
    <3>4. pos' \in 0..Len(file')
      <4>1. pos + 2 + n \in 0..Len(file)
        BY <1>2, <2>5, <3>1
      <4> QED BY <1>1, <3>2, <4>1
    <3>5. CASE r = Null
      <4>1. stage' = "crashed" /\ loaded' = loaded
        BY <3>2, <3>5
      <4> QED BY <1>1, <2>1, <3>4, <4>1 DEF ReaderInv
    <3>6. CASE r # Null
      <4>1. stage' = "load" /\ loaded' = Append(loaded, r) /\ r \in S
        BY <1>1, <3>2, <3>3, <3>6
      <4>2. /\ loaded' \in Seq(S) /\ Len(loaded') = l + 1
            /\ \A k \in 1..l : loaded'[k] = loaded[k]
        BY <1>4, <4>1
      <4>3. ~(Len(loaded') <= w) /\ \A k \in 1..w : k \in 1..l
        BY <1>2, <1>7, <4>2
      <4>4. \A k \in 1..w : loaded'[k] = whole[k].rec
        BY <1>1, <2>2, <4>2, <4>3
      <4> QED BY <1>1, <2>1, <3>4, <4>1, <4>2, <4>3, <4>4 DEF ReaderInv
    <3> QED BY <3>5, <3>6
  <2> QED BY <2>6, <2>7
<1> QED BY <1>2, <1>5, <1>6, <1>7

LEMMA LogSteps ==
  ASSUME LogInv, LNext \/ UNCHANGED lvars
  PROVE  LogInv'
<1>1. FileInv /\ ReaderInv
  BY DEF LogInv
<1>2. ASSUME NEW r \in Records, LogGeneric(r) PROVE LogInv'
  BY <1>1, <1>2, LogGenericKeeps, UnreadKeeps DEF LogGeneric, Recording
<1>3. ASSUME NEW n, GoDown(n) PROVE LogInv'
  <2>1. stage = "record" /\ UNCHANGED reader
    BY <1>3 DEF GoDown, reader
  <2> QED BY <1>1, <1>3, <2>1, GoDownKeeps, UnreadKeeps
<1>4. CASE Mount \/ UNCHANGED lvars
  <2>1. UNCHANGED <<file, stage, pos, loaded, whole, damage, unread>>
    BY <1>4 DEF Mount, lvars, reader
  <2> QED BY <2>1 DEF LogInv, FileInv, ReaderInv, Undamaged
<1>5. CASE Switched
  <2>1. /\ UNCHANGED <<file, pos, loaded, whole, damage, unread>>
        /\ stage = "record" /\ stage' = "load"
    BY <1>5 DEF Switched
  <2>2. FileInv'
    BY <1>1, <2>1 DEF FileInv, Undamaged
  <2>3. ReaderInv'
    BY <1>1, <2>1 DEF ReaderInv
  <2> QED BY <2>2, <2>3 DEF LogInv
<1>6. CASE LoadFails
  <2>1. /\ UNCHANGED <<file, pos, loaded, whole, damage>>
        /\ stage = "load" /\ stage' \in {"loaded", "failed", "crashed"} /\ unread'
    BY <1>6 DEF LoadFails
  <2>2. FileInv'
    BY <1>1, <2>1 DEF FileInv, Undamaged
  <2>3. ReaderInv'
    BY <1>1, <2>1 DEF ReaderInv
  <2> QED BY <2>2, <2>3 DEF LogInv
<1> QED BY <1>2, <1>3, <1>4, <1>5, <1>6, LoadRecordKeeps DEF LNext

LEMMA LogInvariant == PSpec => []LogInv
<1>1. PInit => LogInv
  BY LogStarts DEF PInit
<1>2. LogInv /\ [PNext]_pvars => LogInv'
  <2> SUFFICES ASSUME LogInv, PNext \/ UNCHANGED pvars PROVE LogInv'
    OBVIOUS
  <2>1. LNext \/ UNCHANGED lvars
    BY DEF PNext, pvars, Record, Connect, ClientStep, ServerStep, Breaks
  <2> QED BY <2>1, LogSteps
<1> QED BY <1>1, <1>2, PTL DEF PSpec

\* Whatever is written, cut short or lost, with any records and any number of
\* faults: loadLog() reads the records in front of the first damage as they were
\* logged and in their order, and all of them when it succeeds and no call that it
\* makes has failed.  A read() that fails ends the epoch where it has come to.
THEOREM LogsLoad == PSpec => []LoadsWhatWasRecorded
<1>1. ASSUME LogInv PROVE LoadsWhatWasRecorded
  <2> DEFINE l == Len(loaded)
             w == Len(whole)
             n == IF l < w THEN l ELSE w
  <2>1. /\ Stands(file, whole) /\ loaded \in Seq(Records \union {Junk})
        /\ damage = IF Undamaged = Len(file) THEN -1 ELSE Undamaged
        /\ \A k \in 1..w : k <= l => loaded[k] = whole[k].rec
        /\ damage = -1 => l <= w
        /\ damage = -1 /\ ~unread => stage \notin {"failed", "crashed"}
        /\ stage = "loaded" /\ ~unread => /\ l >= w
                                          /\ l = w => Len(file) - pos < HeaderSize
        /\ l = w /\ stage = "loaded" => pos = Undamaged
    BY <1>1 DEF LogInv, FileInv, ReaderInv, Undamaged
  <2>2. /\ l \in Nat /\ w \in Nat /\ n \in 0..l /\ n \in 0..w
        /\ DOMAIN whole = 1..w /\ \A k \in 1..w : whole[k].rec \in Records
    BY <2>1, StandsFacts
  <2>3. SubSeq(loaded, 1, n) = SubSeq(Kept, 1, n)
    <3> DEFINE S == Records \union {Junk}
    <3>1. Kept \in Seq(S) /\ Len(Kept) = w /\ \A k \in 1..w : Kept[k] = whole[k].rec
      <4>1. Kept = [k \in 1..w |-> whole[k].rec]
        BY <2>2 DEF Kept
      <4> HIDE DEF w
      <4> QED BY <2>2, <4>1
    <3> HIDE DEF l, w, n, S
    <3>2. SubSeq(loaded, 0 + 1, n) \in Seq(S) /\ SubSeq(Kept, 0 + 1, n) \in Seq(S)
      BY <2>1, <2>2, <3>1, PartFacts DEF S, l
    <3>3. n \in Nat /\ \A k \in 1..n : k \in 1..w /\ k <= l
      BY <2>2
    <3>4. \A k \in 1..n : loaded[k] = Kept[k]
      BY <2>1, <3>1, <3>3
    <3> QED BY <2>1, <2>2, <3>1, <3>2, <3>3, <3>4 DEF l, S
  <2>4. l > w => damage # -1
    BY <2>1, <2>2
  <2>5. ~unread /\ stage = "loaded" /\ l = w /\ damage # -1 => Len(file) - damage < HeaderSize
    BY <2>1
  <2> QED BY <2>1, <2>3, <2>4, <2>5 DEF LoadsWhatWasRecorded
<1> QED BY <1>1, LogInvariant, PTL
-----------------------------------------------------------------------------
(* Buffers that messages are packed in.                                    *)

Buffers == [allocated : Nat, totallen : Nat]

\* Such a buffer, which is there unless memory has been refused.
Sound(b, refused) == /\ b \in Buffers /\ Holds(b)
                     /\ ~refused => b.totallen = 0 \/ b.allocated # 0

LEMMA ReservedKeeps ==
  ASSUME NEW b, NEW refused \in BOOLEAN, Sound(b, refused), NEW n \in Nat, NEW ok \in BOOLEAN
  PROVE  Sound(Reserved(b, n, ok), refused \/ ~ok)
<1> DEFINE u == Reserved(b, n, ok)
<1>1. b \in Buffers /\ b.allocated \in Nat /\ b.totallen \in Nat
  BY DEF Sound, Buffers
<1>2. CASE Grows(b, n) /\ ok
  <2>1. u = [allocated |-> n + HeaderSize, totallen |-> n + HeaderSize]
    BY <1>2 DEF Reserved
  <2> QED BY <2>1 DEF Sound, Buffers, Holds, HeaderSize
<1>3. CASE Grows(b, n) /\ ~ok
  <2>1. u = [b EXCEPT !.allocated = 0]
    BY <1>3 DEF Reserved
  <2>2. u \in Buffers /\ u.allocated = 0
    BY <1>1, <2>1 DEF Buffers
  <2> QED BY <1>3, <2>2 DEF Sound, Holds
<1>4. CASE ~Grows(b, n)
  <2>1. u = [b EXCEPT !.totallen = n + HeaderSize]
    BY <1>4 DEF Reserved
  <2>2. u \in Buffers /\ u.allocated = b.allocated /\ u.totallen = n + 2
    BY <1>1, <2>1 DEF Buffers, HeaderSize
  <2>3. n + 2 <= b.totallen
    BY <1>1, <1>4 DEF Grows, HeaderSize
  <2>4. b.totallen # 0
    BY <1>1, <2>3
  <2>5. Holds(u)
    BY <1>1, <2>2, <2>3 DEF Sound, Holds
  <2> QED BY <2>2, <2>4, <2>5 DEF Sound
<1> QED BY <1>2, <1>3, <1>4

\* Whatever an operation is, its size is a number if that of its data is one.
LEMMA PackOperationFacts ==
  ASSUME NEW o, NEW S \in SUBSET Required, Listed(OperationFields[o.type], S),
         o.type = "WRITE" => Len(o.data) \in Nat
  PROVE  OperationSize(PackOperation(o)) \in Nat
<1> DEFINE g == OperationFields[o.type]
           N == {"id", "type"} \union Required \union (IF o.type = "WRITE" THEN {"data"} ELSE {})
           T == {<<x, o[x]>> : x \in N}
           a == IF o["id"] # Defaults(o.type)["id"] THEN <<"id">> ELSE <<>>
           b == IF o.type = "WRITE" /\ o["data"] # Defaults(o.type)["data"] THEN <<"data">> ELSE <<>>
           f == <<"type">> \o g \o (a \o b)
<1>1. g \in Seq(N) /\ a \in Seq(N) /\ b \in Seq(N) /\ <<"type">> \in Seq(N)
  <2>1. g \in Seq(S) /\ S \subseteq N
    BY DEF Listed
  <2>2. "type" \in N /\ "id" \in N /\ (o.type = "WRITE" => "data" \in N)
    OBVIOUS
  <2> HIDE DEF N
  <2>3. g \in Seq(N)
    BY <2>1
  <2>4. a \in Seq(N) /\ b \in Seq(N) /\ <<"type">> \in Seq(N)
    BY <2>2
  <2> QED BY <2>3, <2>4
<1>2. f \in Seq(N)
  <2> HIDE DEF g, a, b, N
  <2> QED BY <1>1
<1>3. PackOperation(o) = Cells(o, f)
  BY DEF PackOperation
<1>4. \A c \in T : CellSize(c) \in Nat
  BY DEF CellSize, Required
<1> HIDE DEF f, N
<1>5. Cells(o, f) \in Seq(T)
  <2>1. DOMAIN f = 1..Len(f) /\ Len(f) \in Nat /\ \A k \in 1..Len(f) : f[k] \in N
    BY <1>2
  <2>2. \A k \in 1..Len(f) : <<f[k], o[f[k]]>> \in T
    BY <2>1
  <2> HIDE DEF T
  <2> QED BY <2>1, <2>2 DEF Cells
<1> QED BY <1>3, <1>4, <1>5, OperationSizeFacts

-----------------------------------------------------------------------------
(* loadWriteData().                                                        *)

Bytes == {Null} \union (Paths \X Int)
DynData == {d \in [bytes : Seq(Bytes), offset : Nat, generation : Nat] : d.offset <= Len(d.bytes)}

LEMMA PartIs ==
  ASSUME NEW S, NEW s \in Seq(S), NEW a \in Nat, NEW n \in Nat, NEW m, m = a + n, m <= Len(s)
  PROVE  SubSeq(s, a + 1, m) = [k \in 1..n |-> s[a + k]]
<1> DEFINE u == SubSeq(s, a + 1, m)
           v == [k \in 1..n |-> s[a + k]]
<1>1. m \in 0..Len(s) /\ \A k \in 1..n : s[a + k] \in S
  OBVIOUS
<1>2. u \in Seq(S)
  BY <1>1, PartFacts
<1>3. Len(u) = n /\ \A k \in 1..n : u[k] = s[a + k]
  BY <1>1
<1>4. v \in Seq(S) /\ Len(v) = n /\ \A k \in 1..n : v[k] = s[a + k]
  BY <1>1
<1> HIDE DEF u, v
<1>5. \A k \in 1..n : u[k] = v[k]
  BY <1>3, <1>4
<1>6. u = v
  BY <1>2, <1>3, <1>4, <1>5, SameSequence
<1> QED BY <1>6 DEF u, v

\* The data of an operation on p, if it has any, is where its pointer says.
Waits(d, p, o, at) ==
  at # Null =>
    /\ at.from \in Nat /\ at.length \in Nat /\ at.generation = d.generation
    /\ at.from + at.length <= d.offset
    /\ Content(d, at) = [n \in 1..o.size |-> Byte(p, o.offset + n - 1)]

\* A buffer with more in it, which has not moved.
Extends(e, d) == /\ e.generation = d.generation /\ d.offset <= e.offset
                 /\ \A k \in 1..d.offset : e.bytes[k] = d.bytes[k]

LEMMA WaitsOn ==
  ASSUME NEW d \in DynData, NEW e \in DynData, Extends(e, d), NEW p, NEW o, NEW at,
         Waits(d, p, o, at)
  PROVE  Waits(e, p, o, at)
<1> SUFFICES ASSUME at # Null PROVE Waits(e, p, o, at)
  BY DEF Waits
<1>1. /\ at.from \in Nat /\ at.length \in Nat /\ at.from + at.length <= d.offset
      /\ d.offset \in Nat /\ e.offset \in Nat
      /\ d.offset <= Len(d.bytes) /\ e.offset <= Len(e.bytes)
      /\ d.bytes \in Seq(Bytes) /\ e.bytes \in Seq(Bytes)
  BY DEF Waits, DynData
<1> DEFINE a == at.from
           n == at.length
           m == a + n
<1>2. SubSeq(d.bytes, a + 1, m) = [k \in 1..n |-> d.bytes[a + k]]
  <2>1. m <= Len(d.bytes)
    BY <1>1
  <2>2. a \in Nat /\ n \in Nat /\ m = a + n
    BY <1>1
  <2> HIDE DEF a, n, m
  <2> QED BY <1>1, <2>1, <2>2, PartIs
<1>3. SubSeq(e.bytes, a + 1, m) = [k \in 1..n |-> e.bytes[a + k]]
  <2>1. m <= Len(e.bytes)
    BY <1>1, Len(e.bytes) \in Nat DEF Extends
  <2>2. a \in Nat /\ n \in Nat /\ m = a + n
    BY <1>1
  <2> HIDE DEF a, n, m
  <2> QED BY <1>1, <2>1, <2>2, PartIs
<1>4. \A k \in 1..at.length : a + k \in 1..d.offset
  BY <1>1
<1>5. Content(e, at) = Content(d, at)
  BY <1>2, <1>3, <1>4 DEF Content, Extends
<1> QED BY <1>1, <1>5 DEF Waits, Extends

LEMMA GrownFacts ==
  ASSUME NEW d \in DynData, NEW size \in Nat
  PROVE  LET g == Grown(d, size)
         IN  /\ g \in DynData /\ g.offset = d.offset /\ size <= Len(g.bytes)
             /\ size <= Len(d.bytes) => g = d
<1> DEFINE g == Grown(d, size)
           more == [k \in 1..size |-> Null]
<1>1. /\ d.bytes \in Seq(Bytes) /\ d.offset \in Nat /\ d.generation \in Nat
      /\ d.offset <= Len(d.bytes) /\ Len(d.bytes) \in Nat
  BY DEF DynData
<1>2. CASE size <= Len(d.bytes)
  BY <1>2 DEF Grown
<1>3. CASE ~(size <= Len(d.bytes))
  <2>1. g = [d EXCEPT !.bytes = @ \o more, !.generation = @ + 1]
    BY <1>3 DEF Grown
  <2>2. more \in Seq(Bytes) /\ Len(more) = size
    BY DEF Bytes
  <2>3. d.bytes \o more \in Seq(Bytes) /\ Len(d.bytes \o more) = Len(d.bytes) + size
    BY <1>1, <2>2
  <2> HIDE DEF more, g
  <2>4. g.bytes = d.bytes \o more /\ g.offset = d.offset /\ g.generation = d.generation + 1
    BY <2>1 DEF DynData
  <2>5. g \in [bytes : Seq(Bytes), offset : Nat, generation : Nat]
    <3> DEFINE b == d.bytes \o more
    <3>1. g = [d EXCEPT !.bytes = b, !.generation = d.generation + 1]
      BY <2>1 DEF DynData
    <3>2. b \in Seq(Bytes) /\ d.generation + 1 \in Nat
      BY <1>1, <2>3
    <3> HIDE DEF b
    <3> QED BY <3>1, <3>2 DEF DynData
  <2>6. g.offset <= Len(g.bytes) /\ size <= Len(g.bytes)
    BY <1>1, <2>3, <2>4
  <2> QED BY <1>3, <2>4, <2>5, <2>6 DEF DynData, g
<1> QED BY <1>2, <1>3

LEMMA FilledFacts ==
  ASSUME NEW d \in DynData, NEW f \in Paths, NEW o \in Ops, o.type = "WRITE",
         d.offset + o.size <= Len(d.bytes),
         NEW at, at = [generation |-> d.generation, from |-> d.offset, length |-> o.size]
  PROVE  LET e == Filled(d, f, o)
         IN  e \in DynData /\ Extends(e, d) /\ Waits(e, f, o, at)
<1> DEFINE e == Filled(d, f, o)
           bytes == [k \in DOMAIN d.bytes |->
                       IF k > d.offset /\ k <= d.offset + o.size
                       THEN Byte(f, o.offset + k - d.offset - 1) ELSE d.bytes[k]]
           len == Len(d.bytes)
<1>1. /\ d.bytes \in Seq(Bytes) /\ d.offset \in Nat /\ d.generation \in Nat
      /\ d.offset <= len /\ len \in Nat /\ DOMAIN d.bytes = 1..len
  BY DEF DynData
<1>2. o.offset \in Nat /\ o.size \in Nat
  BY SpanOf
<1>3. bytes \in Seq(Bytes) /\ Len(bytes) = len /\ DOMAIN bytes = 1..len
  <2>1. ASSUME NEW k \in 1..len PROVE bytes[k] \in Bytes
    <3>1. d.bytes[k] \in Bytes /\ k \in DOMAIN d.bytes
      BY <1>1
    <3>2. \A n \in Int : Byte(f, n) \in Bytes
      BY DEF Bytes, Byte
    <3>3. o.offset + k - d.offset - 1 \in Int
      BY <1>1, <1>2
    <3> QED BY <3>1, <3>2, <3>3
  <2>2. bytes = [k \in 1..len |-> bytes[k]]
    BY <1>1
  <2> HIDE DEF bytes, len
  <2>3. bytes \in [1..len -> Bytes]
    BY <2>1, <2>2
  <2> QED BY <1>1, <2>3
<1>4. e = [d EXCEPT !.bytes = bytes, !.offset = d.offset + o.size]
  BY DEF Filled, DynData
<1>5. /\ \A k \in 1..d.offset : bytes[k] = d.bytes[k]
      /\ \A k \in 1..o.size : bytes[d.offset + k] = Byte(f, o.offset + k - 1)
  <2>1. ASSUME NEW k \in 1..d.offset PROVE bytes[k] = d.bytes[k]
    BY <1>1
  <2>2. ASSUME NEW k \in 1..o.size PROVE bytes[d.offset + k] = Byte(f, o.offset + k - 1)
    <3>1. d.offset + k \in DOMAIN d.bytes /\ d.offset + k > d.offset /\ d.offset + k <= d.offset + o.size
      BY <1>1, <1>2
    <3>2. o.offset + (d.offset + k) - d.offset - 1 = o.offset + k - 1
      BY <1>1, <1>2
    <3> QED BY <3>1, <3>2
  <2> QED BY <2>1, <2>2
<1> HIDE DEF e, bytes
<1>6. /\ e.bytes = bytes /\ e.offset = d.offset + o.size /\ e.generation = d.generation
      /\ e \in [bytes : Seq(Bytes), offset : Nat, generation : Nat]
  <2>1. bytes \in Seq(Bytes) /\ d.offset + o.size \in Nat
    BY <1>1, <1>2, <1>3
  <2> QED BY <1>4, <2>1 DEF DynData
<1>7. e \in DynData /\ Extends(e, d)
  BY <1>1, <1>2, <1>3, <1>5, <1>6 DEF DynData, Extends
<1>8. Content(e, at) = [n \in 1..o.size |-> Byte(f, o.offset + n - 1)] \/ at = Null
  <2>1. SubSeq(bytes, d.offset + 1, d.offset + o.size) = [k \in 1..o.size |-> bytes[d.offset + k]]
    <3> DEFINE a == d.offset
               n == o.size
               m == a + n
    <3>1. a \in Nat /\ n \in Nat /\ m = a + n /\ m <= Len(bytes)
      BY <1>1, <1>2, <1>3
    <3> HIDE DEF a, n, m
    <3>2. SubSeq(bytes, a + 1, m) = [k \in 1..n |-> bytes[a + k]]
      BY <1>3, <3>1, PartIs
    <3> QED BY <3>2 DEF a, n, m
  <2> QED BY <1>5, <1>6, <2>1 DEF Content
<1>9. at.from = d.offset /\ at.length = o.size /\ at.generation = d.generation
  OBVIOUS
<1> QED BY <1>1, <1>2, <1>6, <1>7, <1>8, <1>9 DEF Waits, e

\* The descriptor is that of the stored path, if it is one.
Cached == fd \in Paths => fd = stored

LEMMA LoadFacts ==
  ASSUME Cached, NEW p \in Paths, NEW d \in DynData, NEW o \in Ops, o.type = "WRITE", NEW opens,
         NEW ok, d.offset = 0 \/ o.size + d.offset <= Len(d.bytes)
  PROVE  LET l == LoadWriteData(d, p, o, opens, ok)
         IN  /\ l.data \in DynData /\ Waits(l.data, p, o, l.pointer)
             /\ o.size + d.offset <= Len(d.bytes) => Extends(l.data, d)
             /\ l.fd \in Paths => l.fd = p
             /\ l.fd \in Paths \union {Nowhere, fd}
<1> DEFINE f == Opened(p, opens)
           g == Grown(d, o.size)
           l == LoadWriteData(d, p, o, opens, ok)
           Fits == o.size + d.offset <= Len(d.bytes)
<1>1. o.offset \in Nat /\ o.size \in Nat
  BY SpanOf
<1>2. /\ g \in DynData /\ g.offset = d.offset /\ o.size <= Len(g.bytes)
      /\ o.size <= Len(d.bytes) => g = d
  BY <1>1, GrownFacts
<1>3. d.offset \in Nat /\ Len(d.bytes) \in Nat /\ Len(g.bytes) \in Nat
  BY <1>2 DEF DynData
<1>4. f \in Paths \union {Nowhere, fd} /\ (f \in Paths => f = p)
  BY TreeAssumption DEF Opened, Cached
<1>5. Extends(d, d)
  BY <1>3 DEF Extends
<1>6. Fits => g = d
  BY <1>1, <1>2, <1>3
<1> HIDE DEF f, g
<1>7. CASE f = Nowhere /\ stored # p
  <2>1. l = [ok |-> FALSE, data |-> d, fd |-> f, pointer |-> Null]
    BY <1>7 DEF LoadWriteData, f
  <2> QED BY <1>4, <1>5, <2>1 DEF Waits
<1>8. CASE ~(f = Nowhere /\ stored # p) /\ ~(ok /\ Reads(f, o))
  <2>1. l = [ok |-> FALSE, data |-> g, fd |-> f, pointer |-> Null]
    BY <1>8 DEF LoadWriteData, f, g
  <2> QED BY <1>2, <1>4, <1>5, <1>6, <2>1 DEF Waits
<1>9. CASE ~(f = Nowhere /\ stored # p) /\ ok /\ Reads(f, o)
  <2> DEFINE at == [generation |-> g.generation, from |-> d.offset, length |-> o.size]
             e == Filled(g, f, o)
  <2>1. l = [ok |-> TRUE, data |-> e, fd |-> f, pointer |-> at]
    BY <1>9 DEF LoadWriteData, f, g
  <2>2. f \in Paths /\ f = p
    BY <1>4, <1>9 DEF Reads
  <2>3. g.offset + o.size <= Len(g.bytes)
    BY <1>1, <1>2, <1>3, <1>6
  <2>4. e \in DynData /\ Extends(e, g) /\ Waits(e, p, o, at)
    BY <1>2, <2>2, <2>3, FilledFacts
  <2> HIDE DEF e, at
  <2> QED BY <1>6, <2>1, <2>2, <2>4
<1> QED BY <1>7, <1>8, <1>9

-----------------------------------------------------------------------------
(* The tables made of a log.                                               *)

Tidy == {tb \in ClientTables : Consistent(tb)}

LEMMA TablesValues ==
  ASSUME loaded \in Seq(Recs)
  PROVE  \E h \in [0..Len(loaded) -> Tidy] :
           /\ h[0] = EmptyTables /\ Tables = h[Len(loaded)]
           /\ \A k \in 1..Len(loaded) :
                h[k - 1] \in Tidy /\ h[k] = AddOperation(h[k - 1], loaded[k].path, loaded[k].op)
<1> DEFINE n == Len(loaded)
           base == EmptyTables
           Add(tb, r) == AddOperation(tb, r.path, r.op)
           F == [x \in Tidy \X Recs |-> Add(x[1], x[2])]
           it == CHOOSE it : it = [s \in SUBSET (DOMAIN loaded) |->
                   IF s = {} THEN base ELSE Add(it[s \ {Max(s)}], loaded[Max(s)])]
<1>1. Tables = it[DOMAIN loaded]
  BY DEF Tables, FoldLeft, MapThenFoldSet
<1>2. n \in Nat /\ DOMAIN loaded = 1..n /\ loaded \in [1..n -> Recs]
  OBVIOUS
<1>3. base \in Tidy
  BY EmptyTablesFacts DEF Tidy
<1>4. ASSUME NEW tb \in Tidy, NEW r \in Recs PROVE Add(tb, r) \in Tidy
  <2>1. tb \in ClientTables /\ Consistent(tb) /\ r.path \in Paths /\ r.op \in Ops
    BY DEF Tidy, Recs
  <2> QED BY <2>1, AddOperationKeeps DEF Tidy
<1> HIDE DEF n, base, Add
<1>5. F \in [Tidy \X Recs -> Tidy] /\ \A tb \in Tidy, r \in Recs : F[<<tb, r>>] = Add(tb, r)
  BY <1>4
<1> HIDE DEF F
<1>6. it = [s \in SUBSET (1..n) |->
              IF s = {} THEN base ELSE Add(it[s \ {Max(s)}], loaded[Max(s)])]
  <2>1. PICK g : IsFold(g, n, base, loaded, F) /\ Within(g, n, Tidy, loaded, Recs)
    BY <1>2, <1>3, <1>5, FoldFixed
  <2>2. g = [s \in SUBSET (DOMAIN loaded) |->
               IF s = {} THEN base ELSE Add(g[s \ {Max(s)}], loaded[Max(s)])]
    BY <1>2, <1>5, <2>1 DEF IsFold, Within
  <2> QED BY <1>2, <2>2
<1> HIDE DEF it
<1>7. Follows(it, n, Tidy, base, loaded, F)
  BY ZenonT(40), <1>2, <1>5, <1>6, MaxIn DEF Follows
<1>8. Reaches(it, n, Tidy, base, loaded, F)
  BY <1>2, <1>3, <1>5, <1>7, FoldValues
<1>9. PICK h \in [0..n -> Tidy] : Values(h, n, base, loaded, F) /\ it[1..n] = h[n]
  BY <1>8 DEF Reaches
<1>10. h[0] = base /\ \A k \in 1..n : h[k - 1] \in Tidy /\ h[k] = Add(h[k - 1], loaded[k])
  <2>1. \A k \in 1..n : h[k - 1] \in Tidy /\ loaded[k] \in Recs
    BY <1>2
  <2>2. h[0] = base /\ \A k \in 1..n : h[k] = F[<<h[k - 1], loaded[k]>>]
    BY <1>9 DEF Values
  <2> QED BY <1>5, <2>1, <2>2
<1>11. Tables = h[n]
  BY <1>1, <1>2, <1>9
<1> QED BY <1>9, <1>10, <1>11 DEF n, base, Add

LEMMA TablesFacts ==
  ASSUME loaded \in Seq(Recs)
  PROVE  Tables \in Tidy
<1>1. PICK h \in [0..Len(loaded) -> Tidy] : Tables = h[Len(loaded)]
  BY TablesValues
<1>2. Len(loaded) \in 0..Len(loaded)
  OBVIOUS
<1> QED BY <1>1, <1>2

\* What is sent of the first of them.
LEMMA FirstSent ==
  ASSUME NEW tb \in Tidy, tb.files # <<>>
  PROVE  LET f == First(tb.files)
         IN  /\ f \in Entries /\ f.path \in Paths /\ Deleted(tb, f.path) \in Tidy
             /\ \A os \in OptimizeOperations(f.ops) : os \in Seq(Ops)
<1> DEFINE f == First(tb.files)
<1>1. tb \in ClientTables /\ Consistent(tb) /\ tb.files \in Seq(Entries)
  BY DEF Tidy, ClientTables
<1>2. PICK k \in DOMAIN tb.files : f = tb.files[k]
  BY <1>1, FirstFacts
<1>3. f \in Entries /\ f.ops # <<>>
  BY <1>1, <1>2 DEF Consistent, Ranked
<1> HIDE DEF f
<1>4. f.path \in Paths /\ f.ops \in Seq(Ops)
  BY <1>3 DEF Entries
<1>5. Deleted(tb, f.path) \in Tidy
  BY <1>1, DeletedFacts, DeletedKeeps DEF Tidy
<1>6. \A os \in OptimizeOperations(f.ops) : os \in Seq(Ops)
  BY <1>3, <1>4, OptimizedFacts
<1> QED BY <1>3, <1>4, <1>5, <1>6 DEF f

-----------------------------------------------------------------------------
(* Chunks.                                                                 *)

Files == [path : Paths, ops : Seq(Ops)]

\* The operations from opstart on that are in the chunk, and their data.
InChunk == opstart..opstart + nops - 1
ChunkInv ==
  /\ operations \in Seq(Ops) /\ DOMAIN pointers = DOMAIN operations
  /\ cur \in Nat \ {0} /\ opstart \in Nat \ {0} /\ nops \in Nat
  /\ opstart + nops <= Len(operations) + 1
  /\ phase \in {"op", "load"} => cur = opstart + nops
  /\ phase = "load" => nops = 0 /\ dyndata.offset = 0
  /\ dyndata \in DynData
  /\ \A k \in InChunk : Waits(dyndata, Path, operations[k], pointers[k])

ClientInv ==
  /\ tables \in Tidy /\ offered \in Seq(Files)
  /\ phase \in {"op", "load", "full"} => offered # <<>>
  /\ Cached /\ ChunkInv

\* What is packed has a size.
LEMMA ChunkFacts ==
  ASSUME ChunkInv, NEW last
  PROVE  PackedSize(PackFileChunk(Chunk(last))) \in Nat
<1> DEFINE X(k) == LET o == operations[opstart + k - 1]
                   IN  IF o.type = "WRITE"
                       THEN [o EXCEPT !.data = Content(dyndata, pointers[opstart + k - 1])]
                       ELSE o
           ops == [k \in 1..nops |-> X(k)]
           mid == [k \in 1..nops |-> <<"ops", PackOperation(X(k))>>]
           T == {<<"relative_path", Path>>, <<"last_chunk", last>>}
                  \union {<<"ops", PackOperation(X(k))>> : k \in 1..nops}
           cells == PackFileChunk(Chunk(last))
<1>1. /\ opstart \in Nat \ {0} /\ nops \in Nat /\ operations \in Seq(Ops) /\ dyndata \in DynData
      /\ opstart + nops <= Len(operations) + 1 /\ Len(operations) \in Nat
  BY DEF ChunkInv
<1>2. ASSUME NEW k \in 1..nops PROVE OperationSize(PackOperation(X(k))) \in Nat
  <2> DEFINE j == opstart + k - 1
             o == operations[j]
             d == Content(dyndata, pointers[j])
  <2>1. j \in 1..Len(operations) /\ j \in InChunk
    BY <1>1 DEF InChunk
  <2>2. o \in Ops /\ Waits(dyndata, Path, o, pointers[j])
    BY <1>1, <2>1 DEF ChunkInv
  <2> HIDE DEF j, o
  <2>3. PICK S : Listed(OperationFields[o.type], S) /\ S \subseteq Required
    BY <2>2, FieldFacts DEF Complete
  <2>4. CASE o.type # "WRITE"
    <3>1. X(k) = o
      BY <2>4 DEF o, j
    <3> QED BY <2>3, <2>4, <3>1, PackOperationFacts
  <2>5. CASE o.type = "WRITE"
    <3> DEFINE u == [o EXCEPT !.data = d]
    <3>1. X(k) = u
      BY <2>5 DEF o, j
    <3>2. Len(d) \in Nat
      <4>1. CASE pointers[j] = Null
        BY <4>1 DEF Content
      <4>2. CASE pointers[j] # Null
        <5>1. d = [n \in 1..o.size |-> Byte(Path, o.offset + n - 1)] /\ o.size \in Nat
          BY <2>2, <2>5, <4>2, SpanOf DEF Waits
        <5> HIDE DEF d
        <5> QED BY <5>1
      <4> QED BY <4>1, <4>2
    <3> HIDE DEF d
    <3>3. u.type = o.type /\ u.data = d
      <4>1. o \in WriteOps
        BY <2>2, <2>5 DEF Ops, WriteOps, UnlinkOps, LinkOps, SymlinkOps, RenameOps, MknodOps,
                          ModeOps, ChownOps, TruncateOps, RmdirOps
      <4>2. DOMAIN o = {"id", "type", "offset", "size", "data"}
        BY <4>1 DEF WriteOps
      <4> QED BY <4>2
    <3> HIDE DEF u
    <3> QED BY <2>3, <3>1, <3>2, <3>3, PackOperationFacts
  <2> QED BY <2>4, <2>5
<1> HIDE DEF X
<1>3. Chunk(last) = [path |-> Path, last |-> last, ops |-> ops]
  BY DEF Chunk, X
<1>4. DOMAIN ops = 1..nops /\ \A k \in 1..nops : ops[k] = X(k)
  OBVIOUS
<1> HIDE DEF ops
<1>5. cells = <<<<"relative_path", Path>>>> \o mid \o <<<<"last_chunk", last>>>>
  <2> DEFINE c == Chunk(last)
  <2>1. c.path = Path /\ c.last = last /\ c.ops = ops
    BY <1>3
  <2> HIDE DEF c
  <2>2. mid = [k \in DOMAIN c.ops |-> <<"ops", PackOperation(c.ops[k])>>]
    BY <1>4, <2>1
  <2> HIDE DEF mid
  <2>3. PackFileChunk(c) = <<<<"relative_path", c.path>>>> \o mid \o <<<<"last_chunk", c.last>>>>
    BY <2>2 DEF PackFileChunk
  <2> QED BY <2>1, <2>3 DEF c
<1> HIDE DEF cells
<1>6. mid \in Seq(T) /\ <<<<"relative_path", Path>>>> \in Seq(T) /\ <<<<"last_chunk", last>>>> \in Seq(T)
  <2>1. mid \in Seq(T)
    <3>1. \A k \in 1..nops : <<"ops", PackOperation(X(k))>> \in T
      OBVIOUS
    <3> HIDE DEF T, X
    <3>2. mid \in [1..nops -> T]
      BY <3>1
    <3> QED BY <1>1, <3>2
  <2>2. <<"relative_path", Path>> \in T /\ <<"last_chunk", last>> \in T
    OBVIOUS
  <2> HIDE DEF T, mid
  <2>3. \A c \in T : <<c>> \in Seq(T)
    OBVIOUS
  <2> QED BY <2>1, <2>2, <2>3
<1>7. \A c \in T : FieldSize(c) \in Nat
  BY <1>2 DEF FieldSize
<1> HIDE DEF T, mid
<1>8. cells \in Seq(T)
  BY <1>5, <1>6
<1>9. PackedSize(cells) \in Nat
  BY <1>7, <1>8, PackedSizeFacts
<1> QED BY <1>9 DEF cells

\* A chunk leaves an empty buffer behind.
LEMMA TransferKeeps ==
  ASSUME ChunkInv, faults \in Nat, Sound(packing, faults > 0),
         NEW last, NEW n, NEW then, TransferChunk(last, n, then)
  PROVE  /\ faults' \in Nat /\ Sound(packing', faults' > 0) /\ (faults > 0 => faults' > 0)
         /\ phase' \in {then, "failed", "crashed"}
         /\ opstart' = n /\ nops' = 0
         /\ dyndata' = [dyndata EXCEPT !.offset = 0] /\ dyndata' \in DynData
<1> DEFINE size == PackedSize(PackFileChunk(Chunk(last)))
<1>1. size \in Nat
  BY ChunkFacts
<1>2. PICK ok \in BOOLEAN :
        LET result == PackResult(packing, size, ok)
        IN  /\ Outcome(ok)
            /\ packing' = Reserved(packing, size, ok)
            /\ \/ result = "packed" /\ phase' = then
               \/ result = "packed" /\ Leaves("failed")
               \/ result # "packed" /\ Leaves(result)
            /\ opstart' = n /\ nops' = 0
            /\ dyndata' = [dyndata EXCEPT !.offset = 0]
  BY DEF TransferChunk
<1> HIDE DEF size
<1>3. phase' \in {then, "failed", "crashed"}
  BY <1>2 DEF PackResult, Leaves
<1>4. dyndata' \in DynData
  <2>1. dyndata \in DynData
    BY DEF ChunkInv
  <2> QED BY <1>2, <2>1 DEF DynData
<1>5. faults' \in Nat /\ (faults' > 0 <=> faults > 0 \/ ~ok)
  BY <1>2 DEF Outcome
<1>6. Sound(packing', faults > 0 \/ ~ok)
  <2> DEFINE refused == faults > 0
  <2>1. packing' = Reserved(packing, size, ok)
    BY <1>2
  <2>2. refused \in BOOLEAN /\ Sound(packing, refused)
    OBVIOUS
  <2> HIDE DEF refused
  <2>3. Sound(Reserved(packing, size, ok), refused \/ ~ok)
    BY <1>1, <2>2, ReservedKeeps
  <2> QED BY <2>1, <2>3 DEF refused
<1> QED BY <1>2, <1>3, <1>4, <1>5, <1>6 DEF Sound

LEMMA EmptiedKeeps ==
  ASSUME ClientInv, UNCHANGED <<tables, offered, operations, pointers, stored, fd>>,
         phase' \in {"op", "load"} => offered # <<>> /\ cur' = opstart',
         phase' # "full",
         cur' \in Nat \ {0}, opstart' \in Nat \ {0}, opstart' <= Len(operations) + 1,
         nops' = 0, dyndata' \in DynData, phase' = "load" => dyndata'.offset = 0
  PROVE  ClientInv'
<1>1. InChunk' = {}
  <2>1. InChunk' = opstart'..(opstart' + nops' - 1)
    BY DEF InChunk
  <2>2. \A n \in Nat : n..(n + 0 - 1) = {}
    OBVIOUS
  <2>3. opstart' \in Nat /\ nops' = 0
    OBVIOUS
  <2> QED BY <2>1, <2>2, <2>3
<1>2. ChunkInv'
  <2>1. operations \in Seq(Ops) /\ DOMAIN pointers = DOMAIN operations /\ Len(operations) \in Nat
    BY DEF ClientInv, ChunkInv
  <2>2. opstart' + nops' <= Len(operations') + 1 /\ nops' \in Nat
    BY <2>1
  <2>3. phase' \in {"op", "load"} => cur' = opstart' + nops'
    <3>1. \A n \in Nat : n = n + 0
      OBVIOUS
    <3>2. opstart' \in Nat /\ nops' = 0
      OBVIOUS
    <3> QED BY <3>1, <3>2
  <2> QED BY <1>1, <2>1, <2>2, <2>3 DEF ChunkInv
<1>3. Cached'
  BY DEF ClientInv, Cached
<1> QED BY <1>2, <1>3 DEF ClientInv

LEMMA BeginFileKeeps ==
  ASSUME ClientInv, BeginFile
  PROVE  ClientInv'
<1>1. PICK os \in OptimizeOperations(First(tables.files).ops) :
        LET f == First(tables.files)
        IN  /\ tables' = Deleted(tables, f.path)
            /\ operations' = os
            /\ pointers' = [k \in DOMAIN os |-> Null]
            /\ offered' = Append(offered, [path |-> f.path, ops |-> os])
  BY DEF BeginFile
<1>2. /\ tables.files # <<>> /\ UNCHANGED cachevars /\ phase' \in {"op", "failed"}
      /\ dyndata' = [bytes |-> [k \in 1..MESSAGE_MAX |-> Null], offset |-> 0,
                     generation |-> dyndata.generation + 1]
      /\ cur' = 1 /\ opstart' = 1 /\ nops' = 0
  BY DEF BeginFile, Leaves
<1>3. /\ tables \in Tidy /\ offered \in Seq(Files) /\ Cached /\ dyndata \in DynData
      /\ dyndata.generation \in Nat
  BY DEF ClientInv, ChunkInv, DynData
<1> DEFINE f == First(tables.files)
           x == [path |-> f.path, ops |-> os]
<1>4. f.path \in Paths /\ Deleted(tables, f.path) \in Tidy /\ os \in Seq(Ops)
  BY <1>1, <1>2, <1>3, FirstSent
<1>5. tables' \in Tidy /\ x \in Files /\ offered' = Append(offered, x)
  BY <1>1, <1>4 DEF Files
<1> HIDE DEF x
<1>6. offered' \in Seq(Files) /\ offered' # <<>>
  BY <1>3, <1>5
<1>7. dyndata' \in DynData
  <2> DEFINE b == [k \in 1..MESSAGE_MAX |-> Null]
  <2>1. b \in Seq(Bytes) /\ Len(b) = MESSAGE_MAX /\ MESSAGE_MAX \in Nat
    BY TransferAssumption DEF Bytes
  <2> HIDE DEF b
  <2>2. dyndata' = [bytes |-> b, offset |-> 0, generation |-> dyndata.generation + 1]
    BY <1>2 DEF b
  <2> QED BY <1>3, <2>1, <2>2 DEF DynData
<1>8. InChunk' = {}
  BY <1>2 DEF InChunk
<1>9. ChunkInv'
  <2>1. operations' = os /\ DOMAIN pointers' = DOMAIN os /\ Len(os) \in Nat
    BY <1>1, <1>4
  <2> QED BY <1>2, <1>4, <1>7, <1>8, <2>1 DEF ChunkInv
<1>10. Cached'
  BY <1>2, <1>3 DEF Cached, cachevars
<1> QED BY <1>2, <1>5, <1>6, <1>9, <1>10 DEF ClientInv

\* The chunk grows by one operation, whose data is read behind that of the others.
LEMMA LoadOpKeeps ==
  ASSUME ClientInv, LoadOp
  PROVE  ClientInv'
<1> DEFINE Load(opens, ok) == IF Op.type = "WRITE" THEN LoadWriteData(dyndata, Path, Op, opens, ok)
                              ELSE [data |-> dyndata, fd |-> fd, pointer |-> Null]
<1>0. PICK opens, ok \in BOOLEAN : \E load \in {Load(opens, ok)} :
        LET closes == Op.type = "WRITE" /\ cur = Len(operations)
        IN  /\ dyndata' = load.data
            /\ pointers' = [pointers EXCEPT ![cur] = load.pointer]
            /\ stored' = IF Op.type = "WRITE" THEN Path ELSE stored
            /\ fd' = IF closes /\ load.fd # Nowhere THEN Gone ELSE load.fd
            /\ \/ phase' = "crashed" /\ UNCHANGED <<cur, nops>>
               \/ nops' = nops + 1 /\ cur' = cur /\ phase' = "full"
               \/ nops' = nops + 1 /\ cur' = cur + 1 /\ phase' = "op"
  BY DEF LoadOp, Leaves
<1>1. PICK load \in {Load(opens, ok)} :
        LET closes == Op.type = "WRITE" /\ cur = Len(operations)
        IN  /\ dyndata' = load.data
            /\ pointers' = [pointers EXCEPT ![cur] = load.pointer]
            /\ stored' = IF Op.type = "WRITE" THEN Path ELSE stored
            /\ fd' = IF closes /\ load.fd # Nowhere THEN Gone ELSE load.fd
            /\ \/ phase' = "crashed" /\ UNCHANGED <<cur, nops>>
               \/ nops' = nops + 1 /\ cur' = cur /\ phase' = "full"
               \/ nops' = nops + 1 /\ cur' = cur + 1 /\ phase' = "op"
  BY <1>0
<1>2. /\ cur <= Len(operations) /\ phase \in {"op", "load"}
      /\ phase = "op" => ~Overflows
      /\ UNCHANGED <<filevars, operations, opstart>>
  BY DEF LoadOp, AtOp
<1>3. /\ operations \in Seq(Ops) /\ DOMAIN pointers = DOMAIN operations
      /\ cur \in Nat \ {0} /\ opstart \in Nat \ {0} /\ nops \in Nat
      /\ cur = opstart + nops /\ dyndata \in DynData
      /\ phase = "load" => nops = 0 /\ dyndata.offset = 0
      /\ \A k \in InChunk : Waits(dyndata, Path, operations[k], pointers[k])
  BY <1>2 DEF ClientInv, ChunkInv
<1>4. offered # <<>> /\ offered \in Seq(Files) /\ Cached /\ tables \in Tidy
  BY <1>2 DEF ClientInv
<1>5. Path \in Paths
  <2>1. Last(offered) \in Files
    BY <1>4 DEF Last
  <2> QED BY <2>1 DEF Path, Files
<1>6. Op \in Ops /\ Op = operations[cur] /\ cur \in DOMAIN operations
      /\ DOMAIN operations = 1..Len(operations) /\ Len(operations) \in Nat
  BY <1>2, <1>3 DEF Op
<1>7. /\ dyndata.offset \in Nat /\ Len(dyndata.bytes) \in Nat
      /\ Op.type = "WRITE" => Op.size \in Nat
  BY <1>3, <1>6, SpanOf DEF DynData
<1>8. Op.type = "WRITE" /\ phase = "op" => Op.size + dyndata.offset <= Len(dyndata.bytes)
  BY <1>2, <1>7 DEF Overflows
<1>9. /\ load.data \in DynData /\ Waits(load.data, Path, Op, load.pointer)
      /\ phase = "op" => Extends(load.data, dyndata)
      /\ load.fd \in Paths => load.fd = IF Op.type = "WRITE" THEN Path ELSE stored
  <2>1. CASE Op.type = "WRITE"
    <3>1. load = LoadWriteData(dyndata, Path, Op, opens, ok)
      BY <1>1, <2>1
    <3>2. dyndata.offset = 0 \/ Op.size + dyndata.offset <= Len(dyndata.bytes)
      BY <1>2, <1>3, <1>8, <2>1
    <3> QED BY <1>3, <1>4, <1>5, <1>6, <1>8, <2>1, <3>1, <3>2, LoadFacts
  <2>2. CASE Op.type # "WRITE"
    <3>1. load = [data |-> dyndata, fd |-> fd, pointer |-> Null]
      BY <1>1, <2>2
    <3>2. Extends(dyndata, dyndata)
      BY <1>7 DEF Extends
    <3> QED BY <1>3, <1>4, <2>2, <3>1, <3>2 DEF Waits, Cached
  <2> QED BY <2>1, <2>2
<1>10. /\ dyndata' = load.data /\ pointers'[cur] = load.pointer
       /\ DOMAIN pointers' = DOMAIN operations
       /\ \A k \in DOMAIN operations : k # cur => pointers'[k] = pointers[k]
  BY <1>1, <1>3, <1>6
<1>11. Cached'
  <2>1. Gone \notin Paths
    BY TransferAssumption
  <2>2. fd' \in Paths => fd' = load.fd
    BY <1>1, <2>1
  <2>3. stored' = IF Op.type = "WRITE" THEN Path ELSE stored
    BY <1>1
  <2> QED BY <1>9, <2>2, <2>3 DEF Cached
<1>12. offered' = offered /\ tables' = tables /\ operations' = operations /\ opstart' = opstart
       /\ Path' = Path
  BY <1>2 DEF filevars, Path
<1>13. \A k \in InChunk : Waits(dyndata', Path, operations[k], pointers'[k])
  <2> SUFFICES ASSUME NEW k \in InChunk
               PROVE  Waits(dyndata', Path, operations[k], pointers'[k])
    OBVIOUS
  <2>1. k \in DOMAIN operations /\ k # cur /\ nops # 0
    BY <1>2, <1>3, <1>6 DEF InChunk
  <2>2. phase = "op"
    BY <1>2, <1>3, <2>1
  <2>3. dyndata' \in DynData /\ Extends(dyndata', dyndata)
    BY <1>9, <1>10, <2>2
  <2> QED BY <1>3, <1>10, <2>1, <2>3, WaitsOn
<1>14. Waits(dyndata', Path, operations[cur], pointers'[cur])
  BY <1>6, <1>9, <1>10
<1>15. CASE phase' = "crashed" /\ UNCHANGED <<cur, nops>>
  <2>1. InChunk' = InChunk
    BY <1>12, <1>15 DEF InChunk
  <2>2. ChunkInv'
    BY <1>2, <1>3, <1>6, <1>9, <1>10, <1>12, <1>13, <1>15, <2>1 DEF ChunkInv
  <2> QED BY <1>4, <1>11, <1>12, <1>15, <2>2 DEF ClientInv
<1>16. CASE nops' = nops + 1 /\ \/ cur' = cur /\ phase' = "full"
                                \/ cur' = cur + 1 /\ phase' = "op"
  <2>1. \A k \in InChunk' : k \in InChunk \/ k = cur
    BY <1>3, <1>12, <1>16 DEF InChunk
  <2>2. \A k \in InChunk' : Waits(dyndata', Path', operations'[k], pointers'[k])
    BY <1>12, <1>13, <1>14, <2>1
  <2>3. /\ cur' \in Nat \ {0} /\ nops' \in Nat /\ opstart' + nops' <= Len(operations') + 1
        /\ phase' \in {"op", "load"} => cur' = opstart' + nops'
        /\ phase' # "load"
    BY <1>2, <1>3, <1>6, <1>12, <1>16
  <2>4. ChunkInv'
    BY <1>3, <1>9, <1>10, <1>12, <2>2, <2>3 DEF ChunkInv
  <2> QED BY <1>4, <1>11, <1>12, <2>4 DEF ClientInv
<1> QED BY <1>1, <1>15, <1>16

LEMMA ClientKeeps ==
  ASSUME ClientInv, faults \in Nat, Sound(packing, faults > 0), Client
  PROVE  /\ ClientInv' /\ faults' \in Nat /\ Sound(packing', faults' > 0)
         /\ faults > 0 => faults' > 0
<1>1. /\ operations \in Seq(Ops) /\ Len(operations) \in Nat /\ ChunkInv
      /\ cur \in Nat \ {0} /\ opstart \in Nat \ {0} /\ nops \in Nat /\ dyndata \in DynData
      /\ opstart + nops <= Len(operations) + 1
      /\ phase \in {"op", "load"} => cur = opstart + nops
      /\ phase \in {"op", "load", "full"} => offered # <<>>
  BY DEF ClientInv, ChunkInv
<1>2. CASE BeginFile
  <2>1. faults' \in Nat /\ (faults > 0 => faults' > 0) /\ packing' = packing
    BY <1>2 DEF BeginFile, Outcome
  <2> QED BY <1>2, <2>1, BeginFileKeeps DEF Sound
<1>3. CASE Flush
  <2>1. /\ cur <= Len(operations) /\ phase = "op" /\ TransferChunk(FALSE, cur, "load")
        /\ UNCHANGED <<filevars, operations, cur, pointers, cachevars>>
    BY <1>3 DEF Flush, AtOp
  <2>2. /\ faults' \in Nat /\ Sound(packing', faults' > 0) /\ (faults > 0 => faults' > 0)
        /\ phase' \in {"load", "failed", "crashed"}
        /\ opstart' = cur /\ nops' = 0
        /\ dyndata' = [dyndata EXCEPT !.offset = 0] /\ dyndata' \in DynData
    BY <1>1, <2>1, TransferKeeps
  <2>3. dyndata'.offset = 0
    BY <1>1, <2>2 DEF DynData
  <2>4. ClientInv'
    BY <1>1, <2>1, <2>2, <2>3, EmptiedKeeps DEF filevars, cachevars
  <2> QED BY <2>2, <2>4
<1>4. CASE LoadOp
  <2>1. faults' \in Nat /\ (faults > 0 => faults' > 0) /\ packing' = packing
    BY <1>4 DEF LoadOp, Outcome
  <2> QED BY <1>4, <2>1, LoadOpKeeps DEF Sound
<1>5. CASE FlushFull
  <2> DEFINE last == cur = Len(operations)
  <2>1. /\ cur <= Len(operations) /\ phase = "full" /\ TransferChunk(last, cur + 1, "op")
        /\ cur' = cur + 1 /\ UNCHANGED <<filevars, operations, pointers, cachevars>>
    BY <1>5 DEF FlushFull, AtOp
  <2> HIDE DEF last
  <2>2. /\ faults' \in Nat /\ Sound(packing', faults' > 0) /\ (faults > 0 => faults' > 0)
        /\ phase' \in {"op", "failed", "crashed"}
        /\ opstart' = cur + 1 /\ nops' = 0 /\ dyndata' \in DynData
    BY <1>1, <2>1, TransferKeeps
  <2>3. cur + 1 \in Nat \ {0} /\ cur + 1 <= Len(operations) + 1
    BY <1>1, <2>1
  <2>4. ClientInv'
    BY <1>1, <2>1, <2>2, <2>3, EmptiedKeeps DEF filevars, cachevars
  <2> QED BY <2>2, <2>4
<1>6. CASE EndFile /\ nops > 0
  <2>1. /\ phase = "op" /\ TransferChunk(TRUE, opstart, "next")
        /\ UNCHANGED <<filevars, operations, cur, pointers, cachevars>>
    BY <1>6 DEF EndFile
  <2>2. /\ faults' \in Nat /\ Sound(packing', faults' > 0) /\ (faults > 0 => faults' > 0)
        /\ phase' \in {"next", "failed", "crashed"}
        /\ opstart' = opstart /\ nops' = 0 /\ dyndata' \in DynData
    BY <1>1, <2>1, TransferKeeps
  <2>3. opstart <= Len(operations) + 1
    BY <1>1
  <2>4. ClientInv'
    BY <1>1, <2>1, <2>2, <2>3, EmptiedKeeps DEF filevars, cachevars
  <2> QED BY <2>2, <2>4
<1>7. CASE (EndFile /\ ~(nops > 0)) \/ EndFiles \/ Confirmed
  <2>1. /\ phase' \in {"next", "wait", "done", "failed"}
        /\ UNCHANGED <<filevars, chunkvars, cachevars, packing, faults>>
    BY <1>7 DEF EndFile, EndFiles, Confirmed, chunkvars, Leaves
  <2>2. ClientInv'
    BY <2>1 DEF ClientInv, ChunkInv, Cached, InChunk, Path, filevars, chunkvars, cachevars
  <2> QED BY <2>1, <2>2
<1> QED BY <1>2, <1>3, <1>4, <1>5, <1>6, <1>7 DEF Client

\* Both processes' buffers, and the client on its way.
SendInv == /\ faults \in Nat
           /\ Sound(buffer, faults > 0) /\ Sound(packing, faults > 0)
           /\ ClientInv

\* The file system packs a record.
LEMMA RecordKeeps ==
  ASSUME faults \in Nat, Sound(buffer, faults > 0), LNext
  PROVE  /\ faults' \in Nat /\ (faults > 0 => faults' > 0)
         /\ Sound(buffer', faults' > 0)
<1>1. ASSUME NEW r \in Records, LogGeneric(r)
      PROVE  /\ faults' \in Nat /\ (faults > 0 => faults' > 0)
             /\ Sound(buffer', faults' > 0)
  <2> DEFINE size == PackedSize(PackFileOperation(r))
             refused == faults > 0
  <2>1. PICK ok \in BOOLEAN, n \in 0..Len(Frame(PackFileOperation(r))) :
          /\ \E good \in BOOLEAN : Outcome(good) /\ (good => ok)
          /\ buffer' = Reserved(buffer, size, ok)
    <3>1. PICK ok \in BOOLEAN, n \in 0..Len(Frame(PackFileOperation(r))) :
            /\ Outcome(ok /\ ~(PackResult(buffer, size, ok) = "packed"
                               /\ n < Len(Frame(PackFileOperation(r)))))
            /\ buffer' = Reserved(buffer, size, ok)
      BY <1>1 DEF LogGeneric
    <3> DEFINE good == ok /\ ~(PackResult(buffer, size, ok) = "packed"
                               /\ n < Len(Frame(PackFileOperation(r))))
    <3>2. good \in BOOLEAN /\ Outcome(good) /\ (good => ok)
      BY <3>1
    <3> QED BY <3>1, <3>2
  <2>2. size \in Nat
    BY FrameFacts DEF Framed
  <2>3. faults' \in Nat /\ (refused \/ ~ok => faults' > 0)
    BY <2>1 DEF Outcome
  <2>4. refused \in BOOLEAN /\ Sound(buffer, refused)
    OBVIOUS
  <2> HIDE DEF refused, size
  <2>5. Sound(Reserved(buffer, size, ok), refused \/ ~ok)
    BY <2>2, <2>4, ReservedKeeps
  <2> QED BY <2>1, <2>3, <2>5 DEF Sound, refused
<1>2. ASSUME NEW n, GoDown(n) PROVE buffer' = buffer /\ faults' = faults + 1
  BY <1>2 DEF GoDown, Outcome
<1>3. CASE Mount
  <2>1. buffer' = NoBuffer /\ faults' = faults
    BY <1>3 DEF Mount
  <2> QED BY <2>1 DEF Sound, NoBuffer, Buffers, Holds
<1>4. CASE Switched \/ LoadRecord
  BY <1>4 DEF Switched, LoadRecord
<1>5. ASSUME LoadFails PROVE buffer' = buffer /\ faults' = faults + 1
  BY <1>5 DEF LoadFails, Outcome
<1> QED BY <1>1, <1>2, <1>3, <1>4, <1>5 DEF LNext, Sound

LEMMA SendInvariant == PSpec => [](LogInv /\ SendInv)
<1>1. PInit => LogInv /\ SendInv
  <2> SUFFICES ASSUME PInit PROVE SendInv
    BY LogStarts DEF PInit
  <2>1. Sound(NoBuffer, FALSE)
    BY DEF Sound, NoBuffer, Buffers, Holds
  <2>2. NoData \in DynData
    BY DEF DynData, NoData
  <2>3. EmptyTables \in Tidy
    BY EmptyTablesFacts DEF Tidy
  <2>4. InChunk = {}
    BY DEF InChunk, PInit, TInit
  <2>5. ChunkInv
    BY <2>2, <2>4 DEF ChunkInv, PInit, TInit, NoData
  <2>6. Cached
    BY TreeAssumption DEF Cached, PInit, TInit
  <2>7. ClientInv
    BY <2>3, <2>5, <2>6 DEF ClientInv, PInit, TInit
  <2>8. faults = 0 /\ buffer = NoBuffer /\ packing = NoBuffer /\ (0 > 0) = FALSE
    BY DEF PInit, LInit, TInit
  <2> QED BY <2>1, <2>7, <2>8 DEF SendInv
<1>2. LogInv /\ SendInv /\ [PNext]_pvars => (LogInv /\ SendInv)'
  <2> SUFFICES ASSUME LogInv, SendInv, PNext \/ UNCHANGED pvars PROVE LogInv' /\ SendInv'
    OBVIOUS
  <2>1. LogInv'
    <3>1. LNext \/ UNCHANGED lvars
      BY DEF PNext, pvars, Record, Connect, ClientStep, ServerStep, Breaks
    <3> QED BY <3>1, LogSteps
  <2>2. /\ faults \in Nat /\ Sound(buffer, faults > 0) /\ Sound(packing, faults > 0)
        /\ ClientInv
    BY DEF SendInv
  <2>3. CASE Record
    <3>1. LNext /\ UNCHANGED tvars
      BY <2>3 DEF Record
    <3>2. /\ faults' \in Nat /\ (faults > 0 => faults' > 0) /\ Sound(buffer', faults' > 0)
      BY <2>2, <3>1, RecordKeeps
    <3>3. ClientInv' /\ packing' = packing
      BY <2>2, <3>1 DEF ClientInv, ChunkInv, Cached, InChunk, Path, tvars
    <3> QED BY <2>1, <2>2, <3>2, <3>3 DEF SendInv, Sound
  <2>4. CASE Connect
    <3>1. /\ tables' = Tables /\ phase' = "next"
          /\ UNCHANGED <<chunkvars, cachevars, packing, offered, faults>> /\ UNCHANGED lvars
      BY <2>4 DEF Connect, StartTransfer
    <3>2. loaded \in Seq(Recs)
      <4>1. loaded \in Seq(Records \union {Junk})
        BY DEF LogInv, ReaderInv
      <4>2. Records \union {Junk} \subseteq Recs
        BY LogFileAssumption, JunkAssumption
      <4> QED BY <4>1, <4>2
    <3>3. tables' \in Tidy
      BY <3>1, <3>2, TablesFacts
    <3>4. ClientInv'
      BY <2>2, <3>1, <3>3 DEF ClientInv, ChunkInv, Cached, InChunk, Path, chunkvars, cachevars
    <3> QED BY <2>1, <2>2, <3>1, <3>4 DEF SendInv, lvars
  <2>5. CASE ClientStep
    <3>1. Client /\ buffer' = buffer
      BY <2>5 DEF ClientStep, lvars
    <3>2. /\ ClientInv' /\ faults' \in Nat /\ Sound(packing', faults' > 0)
          /\ faults > 0 => faults' > 0
      BY <2>2, <3>1, ClientKeeps
    <3> QED BY <2>1, <2>2, <3>1, <3>2 DEF SendInv, Sound
  <2>6. CASE ServerStep \/ Breaks \/ UNCHANGED pvars
    <3>1. /\ UNCHANGED <<filevars, phase, chunkvars, cachevars, packing, buffer>>
          /\ faults' \in {faults, faults + 1}
      BY <2>6 DEF ServerStep, Server, ReceiveChunk, ReceiveNothing, Finish, Breaks, Break, Outcome,
                  pvars, lvars, tvars, filevars, chunkvars, cachevars
    <3>2. ClientInv'
      BY <2>2, <3>1 DEF ClientInv, ChunkInv, Cached, InChunk, Path, filevars, chunkvars, cachevars
    <3> QED BY <2>1, <2>2, <3>1, <3>2 DEF SendInv, Sound
  <2> QED BY <2>3, <2>4, <2>5, <2>6 DEF PNext
<1> QED BY <1>1, <1>2, PTL DEF PSpec

\* Neither process packs a message into less than it takes, whatever allocations fail
\* and however long messages are.
THEOREM PackingIsSafe == PSpec => []BuffersHold
<1>1. SendInv => BuffersHold
  BY DEF SendInv, BuffersHold, Sound
<1> QED BY <1>1, SendInvariant, PTL

\* The data of an operation stays where it was read until its chunk is packed, and it is
\* that of its own file, for any files, sizes and failing reads.
THEOREM DataStays == PSpec => []DataWaits
<1>1. ClientInv => DataWaits
  BY DEF ClientInv, ChunkInv, DataWaits, Waits, InChunk, DynData
<1> QED BY <1>1, SendInvariant, PTL DEF SendInv

-----------------------------------------------------------------------------
(* What has been offered, one after the other.                             *)

\* Two folds with the same function, of sequences that agree as far as the first goes.
Agree(h, g, n) == {k \in Nat : k <= n => h[k] = g[k]}
BothFold(h, n, s, g, m, t, base, F) ==
  /\ n \in Nat /\ m \in Nat /\ n <= m /\ \A k \in 1..n : s[k] = t[k]
  /\ Values(h, n, base, s, F) /\ Values(g, m, base, t, F)

LEMMA SameValues ==
  ASSUME NEW h, NEW n, NEW s, NEW g, NEW m, NEW t, NEW base, NEW F,
         BothFold(h, n, s, g, m, t, base, F)
  PROVE  h[n] = g[n]
<1> DEFINE S == Agree(h, g, n)
<1>0. /\ n \in Nat /\ m \in Nat /\ n <= m /\ \A k \in 1..n : s[k] = t[k]
      /\ Values(h, n, base, s, F) /\ Values(g, m, base, t, F)
  BY DEF BothFold
<1>1. 0 \in S
  BY <1>0 DEF Agree, Values
<1>2. ASSUME NEW k \in 1..n, k - 1 \in S PROVE k \in S
  <2>1. h[k - 1] = g[k - 1] /\ k \in 1..m
    BY <1>0, <1>2 DEF Agree
  <2>2. h[k] = F[<<h[k - 1], s[k]>>] /\ g[k] = F[<<g[k - 1], t[k]>>]
    BY <1>0, <2>1 DEF Values
  <2> QED BY <1>0, <2>1, <2>2 DEF Agree
<1> HIDE DEF S
<1>3. Inductive(S, n)
  BY <1>1, <1>2 DEF Inductive
<1>4. \A k \in 0..n : k \in S
  BY <1>0, <1>3, InductionUpTo
<1> QED BY <1>0, <1>4 DEF S, Agree

\* What is to be received of a file, and the end of it.
PlainFiles == [path : Paths, ops : Seq(Ops)]
Items == Paths \X (Ops \union {End})
StreamOf(fs) == FoldLeft(LAMBDA s, f : s \o D!Flat(f), <<>>, fs)

LEMMA FlatFacts ==
  ASSUME NEW f \in PlainFiles
  PROVE  /\ D!Flat(f) \in Seq(Items) /\ Len(D!Flat(f)) = Len(f.ops) + 1
         /\ \A k \in 1..Len(f.ops) : D!Flat(f)[k] = <<f.path, f.ops[k]>>
         /\ D!Flat(f)[Len(f.ops) + 1] = <<f.path, End>>
<1> DEFINE n == Len(f.ops)
           X(k) == <<f.path, IF k <= n THEN f.ops[k] ELSE End>>
<1>1. f.path \in Paths /\ f.ops \in Seq(Ops) /\ n \in Nat /\ \A k \in 1..n : f.ops[k] \in Ops
  BY DEF PlainFiles
<1>2. D!Flat(f) = [k \in 1..n + 1 |-> X(k)]
  BY DEF D!Flat
<1> HIDE DEF n
<1>3. \A k \in 1..n + 1 : X(k) \in Items
  BY <1>1 DEF Items
<1>4. (\A k \in 1..n : k \in 1..n + 1 /\ X(k) = <<f.path, f.ops[k]>>) /\ X(n + 1) = <<f.path, End>>
  BY <1>1
<1>5. n + 1 \in 1..n + 1
  BY <1>1
<1> HIDE DEF X
<1> QED BY <1>1, <1>2, <1>3, <1>4, <1>5 DEF n

LEMMA StreamValues ==
  ASSUME NEW fs \in Seq(PlainFiles), NEW F, F = [x \in Seq(Items) \X PlainFiles |-> x[1] \o D!Flat(x[2])]
  PROVE  \E h \in [0..Len(fs) -> Seq(Items)] :
           Values(h, Len(fs), <<>>, fs, F) /\ StreamOf(fs) = h[Len(fs)]
<1> DEFINE n == Len(fs)
           base == <<>>
           Add(s, f) == s \o D!Flat(f)
           V == Seq(Items)
           it == CHOOSE it : it = [s \in SUBSET (DOMAIN fs) |->
                   IF s = {} THEN base ELSE Add(it[s \ {Max(s)}], fs[Max(s)])]
<1>1. StreamOf(fs) = it[DOMAIN fs]
  BY DEF StreamOf, FoldLeft, MapThenFoldSet
<1>2. n \in Nat /\ DOMAIN fs = 1..n /\ fs \in [1..n -> PlainFiles]
  OBVIOUS
<1>3. base \in V
  OBVIOUS
<1>4. ASSUME NEW s \in V, NEW f \in PlainFiles PROVE Add(s, f) \in V
  BY FlatFacts
<1> HIDE DEF n, base, Add, V
<1>5. F \in [V \X PlainFiles -> V] /\ \A s \in V, f \in PlainFiles : F[<<s, f>>] = Add(s, f)
  BY <1>4 DEF Add, V
<1>6. it = [s \in SUBSET (1..n) |->
              IF s = {} THEN base ELSE Add(it[s \ {Max(s)}], fs[Max(s)])]
  <2>1. PICK g : IsFold(g, n, base, fs, F) /\ Within(g, n, V, fs, PlainFiles)
    BY <1>2, <1>3, <1>5, FoldFixed
  <2>2. g = [s \in SUBSET (DOMAIN fs) |->
               IF s = {} THEN base ELSE Add(g[s \ {Max(s)}], fs[Max(s)])]
    BY ZenonT(40), <1>2, <1>5, <2>1 DEF IsFold, Within
  <2> QED BY <1>2, <2>2
<1> HIDE DEF it
<1>7. Follows(it, n, V, base, fs, F)
  BY ZenonT(40), <1>2, <1>5, <1>6, MaxIn DEF Follows
<1>8. Reaches(it, n, V, base, fs, F)
  BY <1>2, <1>3, <1>5, <1>7, FoldValues
<1> QED BY <1>1, <1>2, <1>8 DEF Reaches, n, base, V

LEMMA StreamFacts ==
  /\ StreamOf(<<>>) = <<>>
  /\ \A fs \in Seq(PlainFiles) :
       /\ StreamOf(fs) \in Seq(Items)
       /\ \A f \in PlainFiles : StreamOf(Append(fs, f)) = StreamOf(fs) \o D!Flat(f)
<1> DEFINE F == [x \in Seq(Items) \X PlainFiles |-> x[1] \o D!Flat(x[2])]
<1>0. PICK G : G = F
  OBVIOUS
<1>1. <<>> \in Seq(PlainFiles) /\ Len(<<>>) = 0
  OBVIOUS
<1>2. StreamOf(<<>>) = <<>>
  <2>1. PICK h \in [0..Len(<<>>) -> Seq(Items)] :
          Values(h, Len(<<>>), <<>>, <<>>, G) /\ StreamOf(<<>>) = h[Len(<<>>)]
    BY <1>0, <1>1, StreamValues
  <2> QED BY <1>1, <2>1 DEF Values
<1>3. ASSUME NEW fs \in Seq(PlainFiles), NEW f \in PlainFiles
      PROVE  StreamOf(fs) \in Seq(Items) /\ StreamOf(Append(fs, f)) = StreamOf(fs) \o D!Flat(f)
  <2> DEFINE n == Len(fs)
             gs == Append(fs, f)
  <2>1. n \in Nat /\ gs \in Seq(PlainFiles) /\ Len(gs) = n + 1 /\ gs[n + 1] = f
        /\ \A k \in 1..n : fs[k] = gs[k]
    OBVIOUS
  <2>2. PICK h \in [0..n -> Seq(Items)] : Values(h, n, <<>>, fs, G) /\ StreamOf(fs) = h[n]
    BY <1>0, StreamValues
  <2>3. PICK g \in [0..Len(gs) -> Seq(Items)] :
          Values(g, Len(gs), <<>>, gs, G) /\ StreamOf(gs) = g[Len(gs)]
    BY <1>0, <2>1, StreamValues
  <2> HIDE DEF gs, n
  <2>4. h[n] = g[n]
    <3>1. n + 1 \in Nat /\ n <= n + 1 /\ Values(g, n + 1, <<>>, gs, G)
      BY <2>1, <2>3
    <3>2. BothFold(h, n, fs, g, n + 1, gs, <<>>, G)
      BY <2>1, <2>2, <3>1 DEF BothFold
    <3> QED BY <3>2, SameValues
  <2>5. g[n + 1] = G[<<g[n], f>>]
    <3>1. n + 1 \in 1..Len(gs) /\ (n + 1) - 1 = n
      BY <2>1
    <3>2. g[n + 1] = G[<<g[(n + 1) - 1], gs[n + 1]>>]
      BY <2>3, <3>1 DEF Values
    <3> QED BY <2>1, <3>1, <3>2
  <2>6. h[n] \in Seq(Items)
    BY <2>1, <2>2
  <2>7. G[<<h[n], f>>] = h[n] \o D!Flat(f)
    <3> HIDE DEF F
    <3>1. F[<<h[n], f>>] = h[n] \o D!Flat(f)
      BY <2>6 DEF F
    <3> QED BY <1>0, <3>1
  <2> QED BY <2>1, <2>2, <2>3, <2>4, <2>5, <2>6, <2>7 DEF gs
<1>4. \A fs \in Seq(PlainFiles) : StreamOf(fs) \in Seq(Items)
  <2> TAKE fs \in Seq(PlainFiles)
  <2>1. PICK h \in [0..Len(fs) -> Seq(Items)] :
          Values(h, Len(fs), <<>>, fs, G) /\ StreamOf(fs) = h[Len(fs)]
    BY <1>0, StreamValues
  <2> QED BY <2>1
<1> QED BY <1>2, <1>3, <1>4

-----------------------------------------------------------------------------
(* A chunk as it is packed and unpacked.                                   *)

LEMMA RangeFacts ==
  ASSUME NEW S, NEW u \in Seq(S), NEW v \in Seq(S)
  PROVE  u \o v \in Seq(S) /\ ToSet(u \o v) = ToSet(u) \union ToSet(v)
<1> DEFINE w == u \o v
           m == Len(u)
           n == Len(v)
<1>1. /\ m \in Nat /\ n \in Nat /\ DOMAIN u = 1..m /\ DOMAIN v = 1..n
      /\ w \in Seq(S) /\ DOMAIN w = 1..m + n
      /\ \A k \in 1..m : w[k] = u[k]
      /\ \A k \in 1..n : w[m + k] = v[k]
  OBVIOUS
<1> HIDE DEF w, m, n
<1>2. \A k \in 1..m + n : k \in 1..m \/ (k - m \in 1..n /\ k = m + (k - m))
  BY <1>1
<1>3. \A k \in 1..m : k \in 1..m + n
  BY <1>1
<1>4. \A k \in 1..n : m + k \in 1..m + n
  BY <1>1
<1>5. ASSUME NEW x \in ToSet(w) PROVE x \in ToSet(u) \union ToSet(v)
  <2>1. PICK k \in 1..m + n : x = w[k]
    BY <1>1, <1>5 DEF ToSet
  <2> QED BY ZenonT(40), <1>1, <1>2, <2>1 DEF ToSet
<1>6. ToSet(u) \subseteq ToSet(w)
  BY <1>1, <1>3 DEF ToSet
<1>7. ToSet(v) \subseteq ToSet(w)
  <2> SUFFICES ASSUME NEW x \in ToSet(v) PROVE x \in ToSet(w)
    OBVIOUS
  <2>1. PICK k \in 1..n : x = v[k]
    BY <1>1 DEF ToSet
  <2> QED BY <1>1, <1>4, <2>1 DEF ToSet
<1> QED BY <1>1, <1>5, <1>6, <1>7 DEF w

LEMMA RoundTrip ==
  ASSUME NEW o, NEW S \in SUBSET Required, Listed(OperationFields[o.type], S), Complete(o, S)
  PROVE  UnpackOperation(PackOperation(o)) = o
<1> DEFINE g == OperationFields[o.type]
           d == Defaults(o.type)
           D0 == DOMAIN d
           N == {"type"} \union S \union D0
           a == IF o["id"] # d["id"] THEN <<"id">> ELSE <<>>
           b == IF o.type = "WRITE" /\ o["data"] # d["data"] THEN <<"data">> ELSE <<>>
           f == <<"type">> \o g \o (a \o b)
           cells == Cells(o, f)
           C == Names(cells)
<1>1. D0 = {"id"} \union (IF o.type = "WRITE" THEN {"data"} ELSE {})
  BY DEF Defaults
<1>2. "type" \in N /\ "id" \in N /\ S \subseteq N /\ (o.type = "WRITE" => "data" \in N)
  BY <1>1
<1>3. g \in Seq(S) /\ ToSet(g) = S
  BY DEF Listed
<1> HIDE DEF g, d, D0, N
<1>4. g \in Seq(N) /\ a \in Seq(N) /\ b \in Seq(N) /\ <<"type">> \in Seq(N)
  BY <1>2, <1>3
<1>5. \A x \in D0 : x \in ToSet(a) \union ToSet(b) <=> o[x] # d[x]
  <2>1. ToSet(<<"id">>) = {"id"} /\ ToSet(<<"data">>) = {"data"} /\ ToSet(<<>>) = {}
    BY DEF ToSet
  <2> QED BY <1>1, <2>1
<1>6. ToSet(a) \union ToSet(b) \subseteq D0
  <2>1. ToSet(<<"id">>) = {"id"} /\ ToSet(<<"data">>) = {"data"} /\ ToSet(<<>>) = {}
    BY DEF ToSet
  <2> QED BY <1>1, <2>1
<1>7. f \in Seq(N) /\ ToSet(f) = {"type"} \union S \union ToSet(a) \union ToSet(b)
  <2> DEFINE u == <<"type">> \o g
             v == a \o b
  <2> HIDE DEF a, b
  <2>1. v \in Seq(N) /\ ToSet(v) = ToSet(a) \union ToSet(b)
    BY <1>4, RangeFacts
  <2>2. u \in Seq(N) /\ ToSet(u) = ToSet(<<"type">>) \union ToSet(g)
    BY ZenonT(40), <1>4, RangeFacts
  <2>3. f = u \o v
    BY <1>4
  <2>4. ToSet(<<"type">>) = {"type"}
    BY DEF ToSet
  <2> HIDE DEF u, v, f
  <2>5. u \o v \in Seq(N) /\ ToSet(u \o v) = ToSet(u) \union ToSet(v)
    BY <2>1, <2>2, RangeFacts
  <2> QED BY <1>3, <2>1, <2>2, <2>3, <2>4, <2>5
<1>8. PackOperation(o) = cells
  BY DEF PackOperation, g, d
<1> HIDE DEF f, a, b
<1>9. cells = [k \in DOMAIN f |-> <<f[k], o[f[k]]>>]
  BY DEF Cells
<1>10. DOMAIN f = 1..Len(f) /\ Len(f) \in Nat
  BY <1>7
<1> HIDE DEF cells
<1>11. C = ToSet(f)
  BY <1>9 DEF Names, ToSet
<1> DEFINE T == {<<f[k], o[f[k]]>> : k \in DOMAIN f}
<1>12. cells \in Seq(T)
  BY <1>9, <1>10
<1>13. \A x \in C : Value(cells, x) = o[x]
  <2> SUFFICES ASSUME NEW x \in C PROVE Value(cells, x) = o[x]
    OBVIOUS
  <2>1. PICK k \in DOMAIN cells : cells[k][1] = x /\ Value(cells, x) = cells[k][2]
    BY <1>12, ValueFacts
  <2> QED BY <1>9, <2>1
<1> HIDE DEF C, T
<1>14. "type" \in C /\ S \subseteq C /\ Value(cells, "type") = o.type
  BY <1>7, <1>11, <1>13
<1>15. UnpackOperation(cells) = [x \in N |-> IF x \in C THEN Value(cells, x) ELSE d[x]]
  BY <1>3, <1>14 DEF UnpackOperation, C, N, D0, d, g
<1>16. \A x \in N : (IF x \in C THEN Value(cells, x) ELSE d[x]) = o[x]
  <2> SUFFICES ASSUME NEW x \in N, x \notin C PROVE d[x] = o[x]
    BY <1>13
  <2>1. x \in D0
    BY <1>14 DEF N
  <2> QED BY <1>5, <1>7, <1>11, <2>1
<1>17. o = [x \in N |-> o[x]]
  BY DEF Complete, N, D0, d
<1> QED BY <1>8, <1>15, <1>16, <1>17

\* With whatever data an operation is what it was when it arrives.
LEMMA OperationArrives ==
  ASSUME NEW o \in SentOps
  PROVE  UnpackOperation(PackOperation(o)) = o
<1>1. \E S \in SUBSET Required : Listed(OperationFields[o.type], S) /\ Complete(o, S)
  <2>1. CASE o \in Ops
    <3>1. PICK S : Listed(OperationFields[o.type], S) /\ Complete(o, S)
      BY <2>1, FieldFacts
    <3> QED BY <3>1 DEF Complete
  <2>2. CASE o \notin Ops
    <3>1. o \in [id : Nat, type : {"WRITE"}, offset : Nat, size : Nat \ {0}, data : Seq(Paths \X Nat)]
      BY <2>2 DEF SentOps
    <3>2. o.type = "WRITE" /\ OperationFields[o.type] = <<"offset", "size">>
      BY <3>1 DEF OperationFields, WriteFields
    <3>3. Listed(<<"offset", "size">>, {"offset", "size"})
      BY ListFacts
    <3>4. Complete(o, {"offset", "size"})
      BY <3>1, <3>2 DEF Complete, Required, Defaults
    <3>5. {"offset", "size"} \in SUBSET Required
      BY DEF Required
    <3> QED BY <3>2, <3>3, <3>4, <3>5
  <2> QED BY <2>1, <2>2
<1> QED BY <1>1, RoundTrip

\* A chunk, and the operations that are taken out of one.
Chunks == [path : Paths, ops : Seq(SentOps), last : BOOLEAN]
OpsOf(cells) ==
  FoldLeft(LAMBDA l, c : IF c[1] = "ops" THEN Append(l, UnpackOperation(c[2])) ELSE l,
           <<>>, cells)

OpsCells == {<<"ops", PackOperation(o)>> : o \in SentOps}

OpsStep(T) == [x \in Seq(SentOps) \X T |->
                IF x[2][1] = "ops" THEN Append(x[1], UnpackOperation(x[2][2])) ELSE x[1]]

LEMMA OpsValues ==
  ASSUME NEW T, NEW cells \in Seq(T), \A c \in T : c[1] = "ops" => c \in OpsCells,
         NEW F, F = OpsStep(T)
  PROVE  \E h \in [0..Len(cells) -> Seq(SentOps)] :
           Values(h, Len(cells), <<>>, cells, F) /\ OpsOf(cells) = h[Len(cells)]
<1> DEFINE n == Len(cells)
           base == <<>>
           Add(l, c) == IF c[1] = "ops" THEN Append(l, UnpackOperation(c[2])) ELSE l
           V == Seq(SentOps)
           it == CHOOSE it : it = [s \in SUBSET (DOMAIN cells) |->
                   IF s = {} THEN base ELSE Add(it[s \ {Max(s)}], cells[Max(s)])]
<1>1. OpsOf(cells) = it[DOMAIN cells]
  BY DEF OpsOf, FoldLeft, MapThenFoldSet
<1>2. n \in Nat /\ DOMAIN cells = 1..n /\ cells \in [1..n -> T]
  OBVIOUS
<1>3. base \in V
  OBVIOUS
<1>4. ASSUME NEW l \in V, NEW c \in T PROVE Add(l, c) \in V
  <2>1. CASE c[1] # "ops"
    BY <2>1
  <2>2. CASE c[1] = "ops"
    <3>1. PICK o \in SentOps : c = <<"ops", PackOperation(o)>>
      BY <2>2 DEF OpsCells
    <3>2. UnpackOperation(c[2]) = o
      BY <3>1, OperationArrives
    <3>3. Append(l, o) \in V
      OBVIOUS
    <3> QED BY <2>2, <3>2, <3>3
  <2> QED BY <2>1, <2>2
<1> HIDE DEF n, base, Add, V
<1>5. F \in [V \X T -> V] /\ \A l \in V, c \in T : F[<<l, c>>] = Add(l, c)
  BY <1>4 DEF Add, V, OpsStep
<1>6. it = [s \in SUBSET (1..n) |->
              IF s = {} THEN base ELSE Add(it[s \ {Max(s)}], cells[Max(s)])]
  <2>1. PICK g : IsFold(g, n, base, cells, F) /\ Within(g, n, V, cells, T)
    BY <1>2, <1>3, <1>5, FoldFixed
  <2>2. g = [s \in SUBSET (DOMAIN cells) |->
               IF s = {} THEN base ELSE Add(g[s \ {Max(s)}], cells[Max(s)])]
    BY <1>2, <1>5, <2>1 DEF IsFold, Within
  <2> QED BY <1>2, <2>2
<1> HIDE DEF it
<1>7. Follows(it, n, V, base, cells, F)
  BY ZenonT(40), <1>2, <1>5, <1>6, MaxIn DEF Follows
<1>8. Reaches(it, n, V, base, cells, F)
  BY <1>2, <1>3, <1>5, <1>7, FoldValues
<1> QED BY <1>1, <1>2, <1>8 DEF Reaches, n, base, V

\* The cells of a chunk.
LEMMA ChunkCells ==
  ASSUME NEW c \in Chunks
  PROVE  LET cells == PackFileChunk(c)
             n == Len(c.ops)
             T == {<<"relative_path", c.path>>, <<"last_chunk", c.last>>} \union OpsCells
         IN  /\ cells \in Seq(T) /\ Len(cells) = n + 2
             /\ cells[1] = <<"relative_path", c.path>> /\ cells[n + 2] = <<"last_chunk", c.last>>
             /\ \A k \in 1..n : cells[k + 1] = <<"ops", PackOperation(c.ops[k])>>
<1> DEFINE n == Len(c.ops)
           T == {<<"relative_path", c.path>>, <<"last_chunk", c.last>>} \union OpsCells
           a == <<<<"relative_path", c.path>>>>
           mid == [k \in DOMAIN c.ops |-> <<"ops", PackOperation(c.ops[k])>>]
           z == <<<<"last_chunk", c.last>>>>
<1>1. c.ops \in Seq(SentOps)
  BY DEF Chunks
<1>2. n \in Nat /\ DOMAIN c.ops = 1..n /\ \A k \in 1..n : c.ops[k] \in SentOps
  BY <1>1
<1>3. mid \in [1..n -> T] /\ \A k \in 1..n : mid[k] = <<"ops", PackOperation(c.ops[k])>>
  BY <1>2 DEF OpsCells
<1>4. a \in Seq(T) /\ z \in Seq(T) /\ Len(a) = 1 /\ Len(z) = 1
      /\ a[1] = <<"relative_path", c.path>> /\ z[1] = <<"last_chunk", c.last>>
  <2>1. <<"relative_path", c.path>> \in T /\ <<"last_chunk", c.last>> \in T
    OBVIOUS
  <2> HIDE DEF T
  <2> QED BY <2>1
<1>5. PackFileChunk(c) = a \o mid \o z
  BY DEF PackFileChunk
<1> HIDE DEF a, mid, z, T, n
<1>6. mid \in Seq(T) /\ Len(mid) = n
  BY <1>2, <1>3
<1> DEFINE u == a \o mid
<1>8. u \in Seq(T) /\ Joined(u, a, mid)
  BY <1>4, <1>6, JoinFacts
<1> HIDE DEF u
<1>9. u \o z \in Seq(T) /\ Joined(u \o z, u, z)
  BY <1>4, <1>8, JoinFacts
<1> DEFINE w == u \o z
<1>10. PackFileChunk(c) = w
  BY <1>5 DEF u
<1> HIDE DEF w
<1>11. w \in Seq(T) /\ Joined(w, u, z)
  BY <1>9 DEF w
<1>12. Len(u) = n + 1 /\ Len(w) = n + 2
  BY <1>2, <1>4, <1>6, <1>8, <1>11 DEF Joined
<1>13. w[1] = a[1]
  <2>1. 1 \in 1..Len(u) /\ 1 \in 1..Len(a)
    BY <1>2, <1>4, <1>12
  <2> QED BY <1>8, <1>11, <2>1 DEF Joined
<1>14. w[n + 2] = z[1]
  <2>1. Len(u) + 1 = n + 2 /\ 1 \in 1..Len(z)
    BY <1>2, <1>4, <1>12
  <2>2. w[Len(u) + 1] = z[1]
    BY <1>11, <2>1 DEF Joined
  <2> QED BY <2>1, <2>2
<1>15. \A k \in 1..n : w[k + 1] = mid[k]
  <2> TAKE k \in 1..n
  <2>1. k + 1 \in 1..Len(u) /\ k \in 1..Len(mid) /\ Len(a) + k = k + 1
    BY <1>2, <1>4, <1>6, <1>12
  <2>2. u[Len(a) + k] = mid[k]
    BY <1>8, <2>1 DEF Joined
  <2>3. w[k + 1] = u[k + 1]
    BY <1>11, <2>1 DEF Joined
  <2> QED BY <2>1, <2>2, <2>3
<1> QED BY <1>3, <1>4, <1>10, <1>11, <1>12, <1>13, <1>14, <1>15 DEF n, T

\* A chunk that is taken apart is what was put together.
LEMMA ChunkArrives ==
  ASSUME NEW c \in Chunks
  PROVE  UnpackFileChunk(PackFileChunk(c)) = c
<1> DEFINE cells == PackFileChunk(c)
           n == Len(c.ops)
           T == {<<"relative_path", c.path>>, <<"last_chunk", c.last>>} \union OpsCells
<1>1. /\ cells \in Seq(T) /\ Len(cells) = n + 2
      /\ cells[1] = <<"relative_path", c.path>> /\ cells[n + 2] = <<"last_chunk", c.last>>
      /\ \A k \in 1..n : cells[k + 1] = <<"ops", PackOperation(c.ops[k])>>
  BY ChunkCells
<1>2. c.ops \in Seq(SentOps) /\ n \in Nat /\ \A k \in 1..n : c.ops[k] \in SentOps
  BY DEF Chunks
<1>3. \A x \in T : x[1] = "ops" => x \in OpsCells
  OBVIOUS
<1>4. UnpackFileChunk(cells) =
        IF ~({"relative_path", "last_chunk"} \subseteq Names(cells)) \/ Null \in ToSet(OpsOf(cells))
        THEN Null
        ELSE [path |-> Value(cells, "relative_path"), ops |-> OpsOf(cells),
              last |-> Value(cells, "last_chunk")]
  BY DEF UnpackFileChunk, OpsOf
<1>0. PICK G : G = OpsStep(T)
  OBVIOUS
<1> HIDE DEF cells
<1>5. PICK h \in [0..Len(cells) -> Seq(SentOps)] :
        Values(h, Len(cells), <<>>, cells, G) /\ OpsOf(cells) = h[Len(cells)]
  BY <1>0, <1>1, <1>3, OpsValues
<1>6. \A l \in Seq(SentOps), x \in T : G[<<l, x>>] =
        IF x[1] = "ops" THEN Append(l, UnpackOperation(x[2])) ELSE l
  BY <1>0 DEF OpsStep
<1> HIDE DEF n, T
<1>7. \A k \in 1..n + 2 : k - 1 \in 0..n + 2 /\ h[k - 1] \in Seq(SentOps) /\ cells[k] \in T
                          /\ h[k] = G[<<h[k - 1], cells[k]>>]
  <2> TAKE k \in 1..n + 2
  <2>1. k - 1 \in 0..n + 2
    BY <1>2
  <2>2. cells[k] \in T /\ h[k - 1] \in Seq(SentOps)
    BY <1>1, <1>5, <2>1
  <2>3. h[k] = G[<<h[k - 1], cells[k]>>]
    BY <1>1, <1>5 DEF Values
  <2> QED BY <2>1, <2>2, <2>3
<1> DEFINE Copied(k) == Len(h[k + 1]) = k /\ \A j \in 1..k : h[k + 1][j] = c.ops[j]
           Good == {k \in Nat : Copied(k)}
<1>8. h[1] = <<>>
  <2>1. 1 \in 1..n + 2 /\ 1 - 1 = 0 /\ h[0] = <<>> /\ <<>> \in Seq(SentOps)
    BY <1>2, <1>5 DEF Values
  <2>2. h[1] = G[<<<<>>, cells[1]>>] /\ cells[1] \in T
    BY <1>7, <2>1
  <2>3. cells[1][1] # "ops"
    BY <1>1
  <2> QED BY <1>6, <2>1, <2>2, <2>3
<1>9. 0 \in Good
  BY <1>8
<1>10. ASSUME NEW k \in 1..n, k - 1 \in Good PROVE k \in Good
  <2>1. k + 1 \in 1..n + 2 /\ (k + 1) - 1 = k /\ (k - 1) + 1 = k /\ k \in Nat
    BY <1>2
  <2>2. h[k + 1] = G[<<h[k], cells[k + 1]>>] /\ h[k] \in Seq(SentOps) /\ cells[k + 1] \in T
    BY <1>7, <2>1
  <2>3. cells[k + 1] = <<"ops", PackOperation(c.ops[k])>> /\ c.ops[k] \in SentOps
    BY <1>1, <1>2
  <2>4. UnpackOperation(cells[k + 1][2]) = c.ops[k] /\ cells[k + 1][1] = "ops"
    BY <2>3, OperationArrives
  <2>5. h[k + 1] = Append(h[k], c.ops[k])
    BY ZenonT(40), <1>6, <2>2, <2>4
  <2>6. Len(h[k]) = k - 1 /\ \A j \in 1..k - 1 : h[k][j] = c.ops[j]
    BY <1>10, <2>1
  <2> DEFINE l == h[k]
             o == c.ops[k]
  <2>7. l \in Seq(SentOps) /\ o \in SentOps /\ Len(l) = k - 1 /\ h[k + 1] = Append(l, o)
        /\ \A j \in 1..k - 1 : l[j] = c.ops[j]
    BY <2>2, <2>3, <2>5, <2>6
  <2> HIDE DEF l
  <2>8. Len(Append(l, o)) = k /\ \A j \in 1..k : Append(l, o)[j] = IF j = k THEN o ELSE l[j]
    <3> HIDE DEF o
    <3> QED BY <2>1, <2>7
  <2>9. \A j \in 1..k : j = k \/ j \in 1..k - 1
    OBVIOUS
  <2>10. Copied(k)
    BY <2>7, <2>8, <2>9
  <2> QED BY <2>1, <2>10
<1> HIDE DEF Good
<1>11. n \in Good
  <2>1. Inductive(Good, n)
    BY <1>9, <1>10 DEF Inductive
  <2>2. \A k \in 0..n : k \in Good
    BY <1>2, <2>1, InductionUpTo
  <2> QED BY <1>2, <2>2
<1>12. Len(h[n + 1]) = n /\ \A j \in 1..n : h[n + 1][j] = c.ops[j]
  BY <1>11 DEF Good
<1>13. h[n + 1] = c.ops
  <2>1. h[n + 1] \in Seq(SentOps)
    <3>1. n + 2 \in 1..n + 2 /\ (n + 2) - 1 = n + 1
      BY <1>2
    <3> QED BY <1>7, <3>1
  <2>2. Len(c.ops) = n
    BY DEF n
  <2> QED BY <1>2, <1>12, <2>1, <2>2, SameSequence
<1>14. OpsOf(cells) = c.ops
  <2>1. n + 2 \in 1..n + 2 /\ (n + 2) - 1 = n + 1
    BY <1>2
  <2>2. h[n + 2] = G[<<h[n + 1], cells[n + 2]>>] /\ cells[n + 2] \in T
    BY <1>7, <2>1
  <2>3. cells[n + 2][1] # "ops" /\ c.ops \in Seq(SentOps)
    BY <1>1, <1>2
  <2> QED BY <1>1, <1>5, <1>6, <1>13, <2>2, <2>3
<1>15. Null \notin ToSet(OpsOf(cells))
  <2>1. \A k \in 1..n : c.ops[k] # Null
    BY <1>2, PipelineAssumption
  <2>2. DOMAIN c.ops = 1..n
    BY <1>2 DEF n
  <2> QED BY <1>14, <2>1, <2>2 DEF ToSet
<1>16. DOMAIN cells = 1..n + 2 /\ 1 \in 1..n + 2 /\ n + 2 \in 1..n + 2
  BY <1>1, <1>2
<1>17. "relative_path" \in Names(cells) /\ "last_chunk" \in Names(cells)
  <2>1. cells[1] \in ToSet(cells) /\ cells[n + 2] \in ToSet(cells)
    BY <1>16 DEF ToSet
  <2> QED BY <1>1, <2>1 DEF Names
<1>18. \A k \in 1..n + 2 : /\ cells[k][1] = "relative_path" => k = 1
                           /\ cells[k][1] = "last_chunk" => k = n + 2
  <2> TAKE k \in 1..n + 2
  <2>1. CASE k = 1
    BY <1>1, <2>1
  <2>2. CASE k = n + 2
    BY <1>1, <2>2
  <2>3. CASE k # 1 /\ k # n + 2
    <3>1. k - 1 \in 1..n /\ (k - 1) + 1 = k
      BY <1>2, <2>3
    <3>2. cells[k] = <<"ops", PackOperation(c.ops[k - 1])>>
      BY <1>1, <3>1
    <3> QED BY <3>2
  <2> QED BY <2>1, <2>2, <2>3
<1>19. Value(cells, "relative_path") = c.path
  <2>1. PICK k \in DOMAIN cells : cells[k][1] = "relative_path" /\ Value(cells, "relative_path") = cells[k][2]
    BY <1>1, <1>17, ValueFacts
  <2> QED BY <1>1, <1>16, <1>18, <2>1
<1>20. Value(cells, "last_chunk") = c.last
  <2>1. PICK k \in DOMAIN cells : cells[k][1] = "last_chunk" /\ Value(cells, "last_chunk") = cells[k][2]
    BY <1>1, <1>17, ValueFacts
  <2> QED BY <1>1, <1>16, <1>18, <2>1
<1>21. c = [path |-> c.path, ops |-> c.ops, last |-> c.last]
  BY DEF Chunks
<1> QED BY <1>4, <1>14, <1>15, <1>17, <1>19, <1>20, <1>21 DEF cells

-----------------------------------------------------------------------------
(* Operations without their data.                                          *)

SentWrites == [id : Nat, type : {"WRITE"}, offset : Nat, size : Nat \ {0}, data : Seq(Paths \X Nat)]

LEMMA SentFacts ==
  ASSUME NEW o \in SentOps
  PROVE  /\ o # End /\ o # Null
         /\ o.type # "WRITE" => o \in Ops /\ Plain(o) = o
         /\ o.type = "WRITE" =>
              /\ o \in WriteOps \union SentWrites
              /\ o.offset \in Nat /\ o.size \in Nat \ {0}
              /\ Plain(o) = [o EXCEPT !.data = <<>>] /\ Plain(o) \in WriteOps
         /\ Plain(o) \in Ops /\ Plain(o).type = o.type /\ Plain(o).id = o.id
         /\ Plain(o) # End
<1>1. o # End /\ o # Null
  BY PipelineAssumption
<1>2. o \in Ops \union SentWrites
  BY DEF SentOps, SentWrites
<1>3. CASE o.type # "WRITE"
  <2>1. o \in Ops
    BY <1>2, <1>3 DEF SentWrites
  <2> QED BY <1>1, <1>3, <2>1 DEF Plain
<1>4. CASE o.type = "WRITE"
  <2>1. o \in WriteOps \union SentWrites
    BY <1>2, <1>4 DEF Ops, WriteOps, UnlinkOps, LinkOps, SymlinkOps, RenameOps, MknodOps,
                      ModeOps, ChownOps, TruncateOps, RmdirOps
  <2>2. Plain(o) = [o EXCEPT !.data = <<>>]
    BY <1>1, <1>4 DEF Plain
  <2> DEFINE u == [o EXCEPT !.data = <<>>]
  <2>3. u \in WriteOps /\ u.type = "WRITE" /\ u.id = o.id /\ o.offset \in Nat /\ o.size \in Nat \ {0}
    <3>1. <<>> \in Seq(Nat)
      OBVIOUS
    <3>2. CASE o \in WriteOps
      BY <3>1, <3>2 DEF WriteOps
    <3>3. CASE o \in SentWrites
      BY <3>1, <3>3 DEF WriteOps, SentWrites
    <3> QED BY <2>1, <3>2, <3>3
  <2>4. u \in SentOps
    BY <2>3 DEF SentOps, Ops
  <2>5. u # End /\ u \in Ops
    BY <2>3, <2>4, PipelineAssumption DEF Ops
  <2> QED BY <1>1, <1>4, <2>1, <2>2, <2>3, <2>5
<1> QED BY <1>3, <1>4

\* What an operation is given data for.
LEMMA GivenFacts ==
  ASSUME NEW o \in Ops, o.type = "WRITE", NEW d \in Seq(Paths \X Nat)
  PROVE  LET u == [o EXCEPT !.data = d]
         IN  /\ u \in SentOps /\ u.type = "WRITE" /\ u.data = d
             /\ u.offset = o.offset /\ u.size = o.size /\ u.id = o.id
             /\ Plain(u) = Plain(o)
<1> DEFINE u == [o EXCEPT !.data = d]
<1>1. o \in SentOps
  BY DEF SentOps
<1>2. o \in WriteOps
  BY DEF Ops, WriteOps, UnlinkOps, LinkOps, SymlinkOps, RenameOps, MknodOps,
         ModeOps, ChownOps, TruncateOps, RmdirOps
<1>3. u \in SentWrites /\ u.data = d /\ u.offset = o.offset /\ u.size = o.size /\ u.id = o.id
      /\ [u EXCEPT !.data = <<>>] = [o EXCEPT !.data = <<>>]
  BY <1>2 DEF WriteOps, SentWrites
<1>4. u \in SentOps /\ u.type = "WRITE"
  BY <1>3 DEF SentOps, SentWrites
<1> HIDE DEF u
<1>5. Plain(u) = Plain(o)
  BY ZenonT(40), <1>1, <1>3, <1>4, SentFacts
<1> QED BY <1>3, <1>4, <1>5 DEF u

Sent == [k \in DOMAIN offered |-> PlainFile(offered[k])]
Got == [k \in DOMAIN received |-> <<received[k].path, Plain(received[k].op)>>]

LEMMA PlainFileFacts ==
  ASSUME NEW f \in Files
  PROVE  /\ PlainFile(f) \in PlainFiles /\ PlainFile(f).path = f.path
         /\ Len(PlainFile(f).ops) = Len(f.ops)
         /\ \A k \in 1..Len(f.ops) : PlainFile(f).ops[k] = Plain(f.ops[k])
<1> DEFINE n == Len(f.ops)
           ops == [k \in 1..n |-> Plain(f.ops[k])]
<1>1. f.path \in Paths /\ f.ops \in Seq(Ops) /\ n \in Nat /\ DOMAIN f.ops = 1..n
      /\ \A k \in 1..n : f.ops[k] \in Ops
  BY DEF Files
<1>2. \A k \in 1..n : Plain(f.ops[k]) \in Ops
  BY <1>1, SentFacts DEF SentOps
<1>3. PlainFile(f) = [path |-> f.path, ops |-> ops]
  BY <1>1 DEF PlainFile
<1> HIDE DEF n
<1>4. ops \in Seq(Ops) /\ Len(ops) = n /\ \A k \in 1..n : ops[k] = Plain(f.ops[k])
  BY <1>1, <1>2
<1> HIDE DEF ops
<1> QED BY <1>1, <1>3, <1>4 DEF PlainFiles, n

LEMMA SentType ==
  ASSUME offered \in Seq(Files)
  PROVE  Sent \in Seq(PlainFiles) /\ Len(Sent) = Len(offered)
         /\ \A k \in 1..Len(offered) : Sent[k] = PlainFile(offered[k])
<1> DEFINE n == Len(offered)
<1>1. n \in Nat /\ DOMAIN offered = 1..n /\ \A k \in 1..n : offered[k] \in Files
  OBVIOUS
<1>2. \A k \in 1..n : PlainFile(offered[k]) \in PlainFiles
  BY <1>1, PlainFileFacts
<1>3. Sent = [k \in 1..n |-> PlainFile(offered[k])]
  BY <1>1 DEF Sent
<1> HIDE DEF n
<1> QED BY <1>1, <1>2, <1>3 DEF n

\* One file more.
LEMMA SentMore ==
  ASSUME offered \in Seq(Files), NEW f \in Files, offered' = Append(offered, f)
  PROVE  Sent' = Append(Sent, PlainFile(f)) /\ PlainFile(f) \in PlainFiles
<1> DEFINE n == Len(offered)
           s == Sent
           x == PlainFile(f)
           t == [k \in 1..n + 1 |-> PlainFile(offered'[k])]
<1>1. s \in Seq(PlainFiles) /\ Len(s) = n /\ \A k \in 1..n : s[k] = PlainFile(offered[k])
  BY SentType
<1>2. x \in PlainFiles
  BY PlainFileFacts
<1>3. n \in Nat /\ DOMAIN offered' = 1..n + 1 /\ offered'[n + 1] = f
      /\ \A k \in 1..n : offered'[k] = offered[k]
  OBVIOUS
<1>4. Sent' = t
  <2>1. Sent' = [k \in DOMAIN offered' |-> PlainFile(offered'[k])]
    BY DEF Sent, PlainFile, Plain
  <2> QED BY <1>3, <2>1
<1>5. \A k \in 1..n + 1 : PlainFile(offered'[k]) = IF k = n + 1 THEN x ELSE s[k]
  BY <1>1, <1>3
<1>6. t = [k \in 1..n + 1 |-> IF k = n + 1 THEN x ELSE s[k]]
  BY <1>5
<1> HIDE DEF n, s, x, t
<1>7. [k \in 1..n + 1 |-> IF k = n + 1 THEN x ELSE s[k]] = Append(s, x)
  <2> DEFINE a == [k \in 1..n + 1 |-> IF k = n + 1 THEN x ELSE s[k]]
             b == Append(s, x)
  <2>1. a \in Seq(PlainFiles) /\ Len(a) = n + 1
        /\ \A k \in 1..n + 1 : a[k] = IF k = n + 1 THEN x ELSE s[k]
    BY <1>1, <1>2, <1>3
  <2>2. b \in Seq(PlainFiles) /\ Len(b) = n + 1
        /\ \A k \in 1..n + 1 : b[k] = IF k = n + 1 THEN x ELSE s[k]
    BY <1>1, <1>2, <1>3
  <2> HIDE DEF a, b
  <2>3. \A k \in 1..n + 1 : a[k] = b[k]
    BY <2>1, <2>2
  <2>4. a = b
    BY <2>1, <2>2, <2>3, SameSequence
  <2> QED BY <2>4 DEF a, b
<1> QED BY <1>2, <1>4, <1>6, <1>7 DEF s, x

-----------------------------------------------------------------------------
(* Where the files end in the stream.                                      *)

Marks(fs, s, e) ==
  /\ e \in [0..Len(fs) -> Nat] /\ e[0] = 0 /\ e[Len(fs)] = Len(s)
  /\ \A k \in 1..Len(fs) :
       /\ e[k] = e[k - 1] + Len(fs[k].ops) + 1
       /\ \A j \in 1..Len(fs[k].ops) : s[e[k - 1] + j] = <<fs[k].path, fs[k].ops[j]>>
       /\ s[e[k]] = <<fs[k].path, End>>
       /\ e[k] <= Len(s)

\* One file more, whose mark is at the end.
More(fs, s, e, f) == [k \in 0..Len(fs) + 1 |-> IF k <= Len(fs) THEN e[k] ELSE Len(s) + Len(f.ops) + 1]

LEMMA MarksMore ==
  ASSUME NEW fs \in Seq(PlainFiles), NEW s \in Seq(Items), NEW e, Marks(fs, s, e),
         NEW f \in PlainFiles
  PROVE  Marks(Append(fs, f), s \o D!Flat(f), More(fs, s, e, f))
<1> DEFINE n == Len(fs)
           g == Append(fs, f)
           x == D!Flat(f)
           t == s \o x
           m == Len(f.ops)
           d == More(fs, s, e, f)
<1>1. /\ x \in Seq(Items) /\ Len(x) = m + 1
      /\ \A k \in 1..m : x[k] = <<f.path, f.ops[k]>>
      /\ x[m + 1] = <<f.path, End>>
  BY FlatFacts
<1>2. n \in Nat /\ m \in Nat /\ Len(s) \in Nat
  BY DEF PlainFiles
<1>3. Len(g) = n + 1 /\ g[n + 1] = f /\ \A k \in 1..n : g[k] = fs[k]
  OBVIOUS
<1> HIDE DEF x
<1>4. t \in Seq(Items) /\ Joined(t, s, x)
  BY <1>1, JoinFacts
<1>5. /\ e \in [0..n -> Nat] /\ e[0] = 0 /\ e[n] = Len(s)
      /\ \A k \in 1..n :
           /\ e[k] = e[k - 1] + Len(fs[k].ops) + 1
           /\ \A j \in 1..Len(fs[k].ops) : s[e[k - 1] + j] = <<fs[k].path, fs[k].ops[j]>>
           /\ s[e[k]] = <<fs[k].path, End>>
           /\ e[k] <= Len(s)
  BY DEF Marks
<1>6. d \in [0..n + 1 -> Nat] /\ d[n + 1] = Len(s) + m + 1 /\ \A k \in 0..n : d[k] = e[k]
  BY <1>2, <1>5 DEF More
<1> HIDE DEF t, d, g
<1>7. Len(t) = Len(s) + m + 1 /\ \A k \in 1..Len(s) : t[k] = s[k]
  BY <1>1, <1>2, <1>4 DEF Joined
<1>8. ASSUME NEW k \in 1..n
      PROVE  /\ d[k] = d[k - 1] + Len(g[k].ops) + 1
             /\ \A j \in 1..Len(g[k].ops) : t[d[k - 1] + j] = <<g[k].path, g[k].ops[j]>>
             /\ t[d[k]] = <<g[k].path, End>>
             /\ d[k] <= Len(t)
  <2>1. k - 1 \in 0..n /\ k \in 0..n
    BY <1>2
  <2>2. d[k] = e[k] /\ d[k - 1] = e[k - 1] /\ g[k] = fs[k] /\ e[k] \in Nat /\ e[k - 1] \in Nat
    BY <1>3, <1>5, <1>6, <2>1
  <2>3. Len(fs[k].ops) \in Nat
    <3>1. fs[k] \in PlainFiles
      BY <1>2
    <3> QED BY <3>1 DEF PlainFiles
  <2>4. e[k] = e[k - 1] + Len(fs[k].ops) + 1 /\ e[k] <= Len(s) /\ s[e[k]] = <<fs[k].path, End>>
        /\ \A j \in 1..Len(fs[k].ops) : s[e[k - 1] + j] = <<fs[k].path, fs[k].ops[j]>>
    BY <1>5
  <2>5. \A j \in 1..Len(fs[k].ops) : e[k - 1] + j \in 1..Len(s)
    BY SMTT(30), <1>2, <2>2, <2>3, <2>4
  <2>6. e[k] \in 1..Len(s)
    BY <1>2, <2>2, <2>3, <2>4
  <2>7. \A j \in 1..Len(g[k].ops) : t[d[k - 1] + j] = <<g[k].path, g[k].ops[j]>>
    BY <1>7, <2>2, <2>4, <2>5
  <2>8. t[d[k]] = <<g[k].path, End>>
    BY <1>7, <2>2, <2>4, <2>6
  <2>9. d[k] <= Len(t)
    BY <1>2, <1>7, <2>2, <2>4
  <2> QED BY <2>2, <2>4, <2>7, <2>8, <2>9
<1>9. /\ d[n + 1] = d[(n + 1) - 1] + Len(g[n + 1].ops) + 1
      /\ \A j \in 1..Len(g[n + 1].ops) : t[d[(n + 1) - 1] + j] = <<g[n + 1].path, g[n + 1].ops[j]>>
      /\ t[d[n + 1]] = <<g[n + 1].path, End>>
      /\ d[n + 1] <= Len(t)
  <2>1. (n + 1) - 1 = n /\ d[n] = Len(s)
    BY <1>2, <1>5, <1>6
  <2>2. \A j \in 1..m : t[Len(s) + j] = x[j] /\ x[j] = <<f.path, f.ops[j]>>
    <3> TAKE j \in 1..m
    <3>1. j \in 1..Len(x)
      BY <1>1, <1>2
    <3> QED BY <1>1, <1>4, <3>1 DEF Joined
  <2>3. t[Len(s) + (m + 1)] = x[m + 1]
    <3>1. m + 1 \in 1..Len(x)
      BY <1>1, <1>2
    <3> QED BY <1>1, <1>4, <3>1 DEF Joined
  <2>4. Len(s) + (m + 1) = Len(s) + m + 1
    BY <1>2
  <2>5. d[n + 1] = Len(s) + (m + 1) /\ d[(n + 1) - 1] = Len(s) /\ g[n + 1] = f
    BY <1>3, <1>6, <2>1, <2>4
  <2>6. \A j \in 1..Len(g[n + 1].ops) :
          t[d[(n + 1) - 1] + j] = <<g[n + 1].path, g[n + 1].ops[j]>>
    BY <2>2, <2>5
  <2>7. t[d[n + 1]] = <<g[n + 1].path, End>>
    BY <1>1, <2>3, <2>5
  <2>8. d[n + 1] <= Len(t) /\ d[n + 1] = d[(n + 1) - 1] + Len(g[n + 1].ops) + 1
    BY <1>2, <1>7, <2>4, <2>5
  <2> QED BY <2>6, <2>7, <2>8
<1>10. \A k \in 1..n + 1 : k \in 1..n \/ k = n + 1
  BY <1>2
<1>11. \A k \in 1..n + 1 :
         /\ d[k] = d[k - 1] + Len(g[k].ops) + 1
         /\ \A j \in 1..Len(g[k].ops) : t[d[k - 1] + j] = <<g[k].path, g[k].ops[j]>>
         /\ t[d[k]] = <<g[k].path, End>>
         /\ d[k] <= Len(t)
  <2> TAKE k \in 1..n + 1
  <2>1. CASE k \in 1..n
    BY <1>8, <2>1
  <2>2. CASE k = n + 1
    BY <1>9, <2>2
  <2> QED BY <1>10, <2>1, <2>2
<1>12. d[0] = 0
  BY <1>2, <1>5, <1>6
<1>13. Marks(g, t, d)
  BY <1>3, <1>6, <1>7, <1>11, <1>12 DEF Marks
<1> QED BY <1>13 DEF g, t, d, x

-----------------------------------------------------------------------------
(* The messages under way: what of the stream each of them stands for.     *)

\* Where a write may end whose data could not be had.
Excuses == {x \in Paths \X Nat : faults > 0 \/ x[2] > snapshot[x[1]]}

RightData(p, o, ex) ==
  o.type = "WRITE" => \/ o.data = [n \in 1..o.size |-> Byte(p, o.offset + n - 1)]
                      \/ o.data = <<>> /\ <<p, o.offset + o.size>> \in ex

Packets == {[cells |-> PackFileChunk(c), whole |-> b] : c \in Chunks, b \in BOOLEAN}

\* A chunk is what follows i in the stream, up to j.
Extent(c) == Len(c.ops) + (IF c.last THEN 1 ELSE 0)
PartOf(c, s, i, j, ex) ==
  /\ j = i + Extent(c) /\ j <= Len(s)
  /\ \A k \in 1..Len(c.ops) : s[i + k] = <<c.path, Plain(c.ops[k])>> /\ RightData(c.path, c.ops[k], ex)
  /\ c.last => s[j] = <<c.path, End>>
Carries(m, s, i, j, ex) ==
  \E c \in Chunks : m.cells = PackFileChunk(c) /\ PartOf(c, s, i, j, ex)

Under(w, s, at, ex) ==
  /\ at \in [0..Len(w) -> Nat]
  /\ \A k \in 1..Len(w) : Carries(w[k], s, at[k - 1], at[k], ex)

LEMMA CarriesOn ==
  ASSUME NEW s \in Seq(Items), NEW t \in Seq(Items), Len(s) <= Len(t),
         \A k \in 1..Len(s) : t[k] = s[k],
         NEW ex, NEW ey, ex \subseteq ey,
         NEW m, NEW i \in Nat, NEW j \in Nat, Carries(m, s, i, j, ex)
  PROVE  Carries(m, t, i, j, ey)
<1>1. PICK c \in Chunks : m.cells = PackFileChunk(c) /\ PartOf(c, s, i, j, ex)
  BY DEF Carries
<1>2. /\ j = i + Extent(c) /\ j <= Len(s)
      /\ \A k \in 1..Len(c.ops) : s[i + k] = <<c.path, Plain(c.ops[k])>> /\ RightData(c.path, c.ops[k], ex)
      /\ c.last => s[j] = <<c.path, End>>
  BY <1>1 DEF PartOf
<1>3. c.ops \in Seq(SentOps) /\ Len(c.ops) \in Nat /\ Len(s) \in Nat /\ Len(t) \in Nat
      /\ c.last \in BOOLEAN
  BY DEF Chunks
<1>4. Len(c.ops) <= Extent(c) /\ Extent(c) \in Nat /\ (c.last => Extent(c) = Len(c.ops) + 1)
  <2> DEFINE n == Len(c.ops)
  <2>1. Extent(c) = n + (IF c.last THEN 1 ELSE 0) /\ n \in Nat
    BY <1>3 DEF Extent
  <2> HIDE DEF n
  <2>2. Extent(c) \in Nat /\ n <= Extent(c) /\ (c.last => Extent(c) = n + 1)
    BY <2>1
  <2> QED BY <2>2 DEF n
<1>5. \A k \in 1..Len(c.ops) : t[i + k] = s[i + k]
  <2> TAKE k \in 1..Len(c.ops)
  <2>1. i + k \in 1..Len(s)
    BY <1>2, <1>3, <1>4
  <2> QED BY <2>1
<1>6. c.last => t[j] = s[j]
  <2>1. c.last => j \in 1..Len(s)
    BY <1>2, <1>3, <1>4
  <2> QED BY <2>1
<1>7. j <= Len(t)
  BY <1>2, <1>3
<1>8. \A k \in 1..Len(c.ops) : RightData(c.path, c.ops[k], ey)
  BY <1>2 DEF RightData
<1>9. PartOf(c, t, i, j, ey)
  BY <1>2, <1>5, <1>6, <1>7, <1>8 DEF PartOf
<1> QED BY <1>1, <1>9 DEF Carries

LEMMA UnderOn ==
  ASSUME NEW s \in Seq(Items), NEW t \in Seq(Items), Len(s) <= Len(t),
         \A k \in 1..Len(s) : t[k] = s[k],
         NEW ex, NEW ey, ex \subseteq ey, NEW w \in Seq(Packets), NEW at, Under(w, s, at, ex)
  PROVE  Under(w, t, at, ey)
<1>1. at \in [0..Len(w) -> Nat] /\ \A k \in 1..Len(w) : Carries(w[k], s, at[k - 1], at[k], ex)
  BY DEF Under
<1>2. ASSUME NEW k \in 1..Len(w) PROVE Carries(w[k], t, at[k - 1], at[k], ey)
  <2>1. Len(w) \in Nat /\ k - 1 \in 0..Len(w) /\ k \in 0..Len(w)
    OBVIOUS
  <2>2. at[k - 1] \in Nat /\ at[k] \in Nat /\ Carries(w[k], s, at[k - 1], at[k], ex)
    BY <1>1, <2>1
  <2> QED BY <2>2, CarriesOn
<1> QED BY <1>1, <1>2 DEF Under

LEMMA UnderAppend ==
  ASSUME NEW w \in Seq(Packets), NEW s, NEW at, NEW ex, Under(w, s, at, ex),
         NEW m \in Packets, NEW j \in Nat, Carries(m, s, at[Len(w)], j, ex)
  PROVE  LET b == [k \in 0..Len(w) + 1 |-> IF k <= Len(w) THEN at[k] ELSE j]
         IN  /\ Append(w, m) \in Seq(Packets) /\ Len(Append(w, m)) = Len(w) + 1
             /\ Under(Append(w, m), s, b, ex) /\ b[0] = at[0] /\ b[Len(w) + 1] = j
<1> DEFINE n == Len(w)
           u == Append(w, m)
           b == [k \in 0..n + 1 |-> IF k <= n THEN at[k] ELSE j]
<1>1. n \in Nat /\ u \in Seq(Packets) /\ Len(u) = n + 1 /\ u[n + 1] = m /\ \A k \in 1..n : u[k] = w[k]
  OBVIOUS
<1>2. at \in [0..n -> Nat] /\ \A k \in 1..n : Carries(w[k], s, at[k - 1], at[k], ex)
  BY DEF Under
<1>3. b \in [0..n + 1 -> Nat] /\ b[n + 1] = j /\ \A k \in 0..n : b[k] = at[k]
  BY <1>1, <1>2
<1> HIDE DEF b, u
<1>4. ASSUME NEW k \in 1..n PROVE Carries(u[k], s, b[k - 1], b[k], ex)
  <2>1. k - 1 \in 0..n /\ k \in 0..n
    BY <1>1
  <2> QED BY <1>1, <1>2, <1>3, <2>1
<1>5. Carries(u[n + 1], s, b[(n + 1) - 1], b[n + 1], ex)
  <2>1. (n + 1) - 1 = n /\ n \in 0..n
    BY <1>1
  <2>2. b[(n + 1) - 1] = at[n]
    BY <1>3, <2>1
  <2> QED BY <1>1, <1>3, <2>2
<1>6. ASSUME NEW k \in 1..n + 1 PROVE Carries(u[k], s, b[k - 1], b[k], ex)
  <2>1. k \in 1..n \/ k = n + 1
    BY <1>1
  <2> QED BY <1>4, <1>5, <2>1
<1>7. 0 \in 0..n
  BY <1>1
<1>8. Under(u, s, b, ex)
  BY <1>1, <1>3, <1>6 DEF Under
<1> QED BY <1>1, <1>3, <1>7, <1>8 DEF b, u

LEMMA UnderTail ==
  ASSUME NEW w \in Seq(Packets), w # <<>>, NEW s, NEW at, NEW ex, Under(w, s, at, ex)
  PROVE  LET b == [k \in 0..Len(w) - 1 |-> at[k + 1]]
         IN  /\ Tail(w) \in Seq(Packets) /\ Len(Tail(w)) = Len(w) - 1 /\ Len(w) \in Nat \ {0}
             /\ Under(Tail(w), s, b, ex) /\ b[0] = at[1] /\ b[Len(w) - 1] = at[Len(w)]
             /\ Head(w) \in Packets /\ Carries(Head(w), s, at[0], at[1], ex)
             /\ at[0] \in Nat /\ at[1] \in Nat
<1> DEFINE n == Len(w)
           u == Tail(w)
           b == [k \in 0..n - 1 |-> at[k + 1]]
<1>1. n \in Nat \ {0} /\ u \in Seq(Packets) /\ Len(u) = n - 1 /\ Head(w) = w[1]
      /\ w[1] \in Packets
      /\ \A k \in 1..n - 1 : u[k] = w[k + 1]
  OBVIOUS
<1>2. at \in [0..n -> Nat] /\ \A k \in 1..n : Carries(w[k], s, at[k - 1], at[k], ex)
  BY DEF Under
<1>3. b \in [0..n - 1 -> Nat] /\ \A k \in 0..n - 1 : b[k] = at[k + 1]
  BY <1>1, <1>2
<1> HIDE DEF b, u
<1>4. ASSUME NEW k \in 1..n - 1 PROVE Carries(u[k], s, b[k - 1], b[k], ex)
  <2>1. k - 1 \in 0..n - 1 /\ k \in 0..n - 1 /\ k + 1 \in 1..n /\ (k - 1) + 1 = k /\ (k + 1) - 1 = k
    BY <1>1
  <2>2. b[k - 1] = at[k] /\ b[k] = at[k + 1] /\ u[k] = w[k + 1]
    BY <1>1, <1>3, <2>1
  <2>3. Carries(w[k + 1], s, at[(k + 1) - 1], at[k + 1], ex)
    BY <1>2, <2>1
  <2> QED BY <2>1, <2>2, <2>3
<1>5. 0 \in 0..n - 1 /\ n - 1 \in 0..n - 1 /\ (n - 1) + 1 = n /\ 0 + 1 = 1 /\ 1 \in 1..n /\ 1 - 1 = 0
      /\ 0 \in 0..n /\ 1 \in 0..n
  BY <1>1
<1>6. b[0] = at[1] /\ b[n - 1] = at[n]
  BY <1>3, <1>5
<1>7. Carries(w[1], s, at[0], at[1], ex)
  BY <1>2, <1>5
<1>8. Under(u, s, b, ex)
  BY <1>1, <1>3, <1>4 DEF Under
<1> QED BY <1>1, <1>2, <1>5, <1>6, <1>7, <1>8 DEF b, u

\* What is left when the connection breaks.
LEMMA CutPackets ==
  ASSUME NEW w \in Seq(Packets), NEW n \in 0..Len(w), NEW part \in BOOLEAN, part => n < Len(w)
  PROVE  LET v == SubSeq(w, 1, n)
                    \o (IF part THEN <<[w[n + 1] EXCEPT !.whole = FALSE]>> ELSE <<>>)
         IN  /\ v \in Seq(Packets) /\ Len(v) = n + (IF part THEN 1 ELSE 0) /\ Len(v) <= Len(w)
             /\ \A k \in 1..n : v[k] = w[k]
             /\ part => v[n + 1].cells = w[n + 1].cells
<1> DEFINE u == SubSeq(w, 1, n)
           x == [w[n + 1] EXCEPT !.whole = FALSE]
           z == IF part THEN <<x>> ELSE <<>>
           v == u \o z
<1>1. n \in Nat /\ Len(w) \in Nat /\ u \in Seq(Packets) /\ Len(u) = n /\ \A k \in 1..n : u[k] = w[k]
  <2>1. SubSeq(w, 0 + 1, n) \in Seq(Packets)
    BY PartFacts
  <2>2. u \in Seq(Packets)
    BY <2>1
  <2> QED BY <2>2
<1>2. part => x \in Packets /\ x.cells = w[n + 1].cells /\ n + 1 \in 1..Len(w)
  <2> SUFFICES ASSUME part PROVE x \in Packets /\ x.cells = w[n + 1].cells /\ n + 1 \in 1..Len(w)
    OBVIOUS
  <2>1. n + 1 \in 1..Len(w)
    BY <1>1
  <2>2. w[n + 1] \in Packets
    BY <2>1
  <2>3. PICK c \in Chunks, b \in BOOLEAN : w[n + 1] = [cells |-> PackFileChunk(c), whole |-> b]
    BY <2>2 DEF Packets
  <2> DEFINE y == PackFileChunk(c)
             v0 == w[n + 1]
  <2>4. v0 = [cells |-> y, whole |-> b] /\ x = [v0 EXCEPT !.whole = FALSE]
    BY <2>3
  <2>5. [cells |-> y, whole |-> FALSE] \in Packets
    <3>1. \A d \in Chunks, f \in BOOLEAN : [cells |-> PackFileChunk(d), whole |-> f] \in Packets
      BY DEF Packets
    <3> QED BY <3>1
  <2> HIDE DEF y, v0, x
  <2>6. x = [cells |-> y, whole |-> FALSE] /\ v0.cells = y
    BY <2>4
  <2> QED BY <2>1, <2>5, <2>6 DEF v0
<1>3. z \in Seq(Packets) /\ Len(z) = (IF part THEN 1 ELSE 0) /\ (part => z[1] = x)
  <2> HIDE DEF x
  <2> QED BY <1>2
<1> HIDE DEF u, x, z
<1>4. v \in Seq(Packets) /\ Joined(v, u, z)
  BY <1>1, <1>3, JoinFacts
<1> HIDE DEF v
<1>5. Len(v) = n + (IF part THEN 1 ELSE 0) /\ Len(v) <= Len(w)
  BY <1>1, <1>3, <1>4 DEF Joined
<1>6. \A k \in 1..n : v[k] = w[k]
  BY <1>1, <1>4 DEF Joined
<1>7. part => v[n + 1].cells = w[n + 1].cells
  <2> SUFFICES ASSUME part PROVE v[n + 1].cells = w[n + 1].cells
    OBVIOUS
  <2>1. 1 \in 1..Len(z) /\ Len(u) + 1 = n + 1
    BY <1>1, <1>3
  <2>2. v[n + 1] = z[1]
    BY <1>4, <2>1 DEF Joined
  <2> QED BY <1>2, <1>3, <2>2
<1> QED BY <1>4, <1>5, <1>6, <1>7 DEF v, u, z, x

LEMMA UnderCut ==
  ASSUME NEW w \in Seq(Packets), NEW s, NEW at, NEW ex, Under(w, s, at, ex),
         NEW n \in 0..Len(w), NEW part \in BOOLEAN, part => n < Len(w)
  PROVE  LET v == SubSeq(w, 1, n)
                    \o (IF part THEN <<[w[n + 1] EXCEPT !.whole = FALSE]>> ELSE <<>>)
         IN  Under(v, s, [k \in 0..Len(v) |-> at[k]], ex)
<1> DEFINE v == SubSeq(w, 1, n)
                  \o (IF part THEN <<[w[n + 1] EXCEPT !.whole = FALSE]>> ELSE <<>>)
           b == [k \in 0..Len(v) |-> at[k]]
<1>1. /\ v \in Seq(Packets) /\ Len(v) = n + (IF part THEN 1 ELSE 0) /\ Len(v) <= Len(w)
      /\ \A k \in 1..n : v[k] = w[k]
      /\ part => v[n + 1].cells = w[n + 1].cells
  BY CutPackets
<1> HIDE DEF v
<1>2. at \in [0..Len(w) -> Nat] /\ \A k \in 1..Len(w) : Carries(w[k], s, at[k - 1], at[k], ex)
  BY DEF Under
<1>3. n \in Nat /\ Len(w) \in Nat /\ Len(v) \in Nat
  BY <1>1
<1>4. \A k \in 0..Len(v) : k \in 0..Len(w)
  BY <1>1, <1>3
<1>5. b \in [0..Len(v) -> Nat] /\ \A k \in 0..Len(v) : b[k] = at[k]
  BY <1>2, <1>4
<1> HIDE DEF b
<1>6. ASSUME NEW k \in 1..Len(v) PROVE Carries(v[k], s, b[k - 1], b[k], ex)
  <2>1. k - 1 \in 0..Len(v) /\ k \in 0..Len(v) /\ k \in 1..Len(w)
    BY <1>1, <1>3
  <2>2. Carries(w[k], s, b[k - 1], b[k], ex)
    BY <1>2, <1>5, <2>1
  <2>3. k \in 1..n \/ (part /\ k = n + 1)
    BY <1>1, <1>3
  <2>4. v[k].cells = w[k].cells
    BY <1>1, <2>3
  <2> QED BY <2>2, <2>4 DEF Carries
<1>7. Under(v, s, b, ex)
  BY <1>5, <1>6 DEF Under
<1> QED BY <1>7 DEF v, b

-----------------------------------------------------------------------------
(* The server's descriptor.                                                *)

DescriptorOf(p, f, l) == FoldLeft(LAMBDA g, o : Descriptor(p, g, o), f, l)
DescriptorStep(p, V) == [x \in V \X SentOps |-> Descriptor(p, x[1], x[2])]

LEMMA DescriptorFacts ==
  ASSUME NEW p, NEW V, p \in V, Nowhere \in V, NEW f \in V, NEW l \in Seq(SentOps)
  PROVE  /\ DescriptorOf(p, f, l) \in V
         /\ l = <<>> => DescriptorOf(p, f, l) = f
         /\ l # <<>> /\ l[Len(l)].type = "WRITE" /\ V = {p, Nowhere} => DescriptorOf(p, f, l) = p
<1> DEFINE n == Len(l)
           Step(g, o) == Descriptor(p, g, o)
           it == CHOOSE it : it = [s \in SUBSET (DOMAIN l) |->
                   IF s = {} THEN f ELSE Step(it[s \ {Max(s)}], l[Max(s)])]
<1>0. PICK F : F = DescriptorStep(p, V)
  OBVIOUS
<1>1. DescriptorOf(p, f, l) = it[DOMAIN l]
  BY DEF DescriptorOf, FoldLeft, MapThenFoldSet
<1>2. n \in Nat /\ DOMAIN l = 1..n /\ l \in [1..n -> SentOps]
  OBVIOUS
<1>3. ASSUME NEW g \in V, NEW o \in SentOps
      PROVE  Step(g, o) \in V /\ (o.type = "WRITE" /\ V = {p, Nowhere} => Step(g, o) = p)
  BY DEF Descriptor
<1> HIDE DEF n, Step
<1>4. F \in [V \X SentOps -> V] /\ \A g \in V, o \in SentOps : F[<<g, o>>] = Step(g, o)
  BY <1>0, <1>3 DEF Step, DescriptorStep
<1>5. it = [s \in SUBSET (1..n) |->
              IF s = {} THEN f ELSE Step(it[s \ {Max(s)}], l[Max(s)])]
  <2>1. PICK g : IsFold(g, n, f, l, F) /\ Within(g, n, V, l, SentOps)
    BY <1>2, <1>4, FoldFixed
  <2>2. g = [s \in SUBSET (DOMAIN l) |->
               IF s = {} THEN f ELSE Step(g[s \ {Max(s)}], l[Max(s)])]
    BY <1>2, <1>4, <2>1 DEF IsFold, Within
  <2> QED BY <1>2, <2>2
<1> HIDE DEF it
<1>6. Follows(it, n, V, f, l, F)
  BY ZenonT(40), <1>2, <1>4, <1>5, MaxIn DEF Follows
<1>7. Reaches(it, n, V, f, l, F)
  BY <1>2, <1>4, <1>6, FoldValues
<1>8. PICK h \in [0..n -> V] : Values(h, n, f, l, F) /\ it[1..n] = h[n]
  BY <1>7 DEF Reaches
<1>9. h[0] = f /\ \A k \in 1..n : h[k] = F[<<h[k - 1], l[k]>>]
  BY <1>8 DEF Values
<1>10. h[n] \in V
  BY <1>2, <1>8
<1>11. n # 0 => h[n] = Step(h[n - 1], l[n]) /\ h[n - 1] \in V /\ l[n] \in SentOps
  <2> SUFFICES ASSUME n # 0 PROVE h[n] = Step(h[n - 1], l[n]) /\ h[n - 1] \in V /\ l[n] \in SentOps
    OBVIOUS
  <2>1. n \in 1..n /\ n - 1 \in 0..n
    BY <1>2
  <2> QED BY <1>2, <1>4, <1>8, <1>9, <2>1
<1>12. l = <<>> <=> n = 0
  BY DEF n
<1>13. n # 0 /\ l[n].type = "WRITE" /\ V = {p, Nowhere} => h[n] = p
  BY <1>3, <1>11
<1>14. DescriptorOf(p, f, l) = h[n]
  BY <1>1, <1>2, <1>8
<1> QED BY <1>9, <1>10, <1>12, <1>13, <1>14 DEF n

LEMMA DescriptorsFacts ==
  ASSUME NEW c \in Chunks, sfd \in Paths \union {Nowhere}
  PROVE  LET fds == Descriptors(c)
         IN  /\ fds[0] = sfd
             /\ \A k \in 0..Len(c.ops) : fds[k] \in Paths \union {Nowhere}
             /\ sfd \in {c.path, Nowhere} =>
                  /\ \A k \in 0..Len(c.ops) : fds[k] \in {c.path, Nowhere}
                  /\ \A k \in 1..Len(c.ops) : c.ops[k].type = "WRITE" => fds[k] = c.path
<1> DEFINE fds == Descriptors(c)
           n == Len(c.ops)
           p == c.path
           P(k) == SubSeq(c.ops, 1, k)
<1>1. c.ops \in Seq(SentOps) /\ n \in Nat /\ p \in Paths
  BY DEF Chunks
<1>2. \A k \in 0..n : fds[k] = DescriptorOf(p, sfd, P(k))
  BY DEF Descriptors, DescriptorOf
<1>3. ASSUME NEW k \in 0..n
      PROVE  /\ P(k) \in Seq(SentOps) /\ Len(P(k)) = k
             /\ k # 0 => P(k)[k] = c.ops[k] /\ P(k) # <<>>
             /\ k = 0 => P(k) = <<>>
  <2>1. SubSeq(c.ops, 0 + 1, k) \in Seq(SentOps)
    BY <1>1, PartFacts
  <2>2. P(k) \in Seq(SentOps) /\ Len(P(k)) = k
    BY <1>1, <2>1
  <2>3. k # 0 => k \in 1..k
    OBVIOUS
  <2> QED BY <1>1, <2>2, <2>3
<1> HIDE DEF fds, P, n, p
<1>4. fds[0] = sfd
  <2>1. 0 \in 0..n /\ Paths \union {Nowhere} = Paths \union {Nowhere}
    BY <1>1
  <2>2. P(0) = <<>> /\ P(0) \in Seq(SentOps)
    BY <1>3, <2>1
  <2>3. DescriptorOf(p, sfd, P(0)) = sfd
    BY ZenonT(40), <1>1, <2>2, DescriptorFacts
  <2> QED BY <1>2, <2>1, <2>3
<1>5. ASSUME NEW k \in 0..n PROVE fds[k] \in Paths \union {Nowhere}
  <2>0. PICK l, W : l = P(k) /\ W = Paths \union {Nowhere}
    OBVIOUS
  <2>1. p \in W /\ Nowhere \in W /\ sfd \in W /\ l \in Seq(SentOps)
    BY <1>1, <1>3, <2>0
  <2>2. DescriptorOf(p, sfd, l) \in W
    BY <2>1, DescriptorFacts
  <2> QED BY <1>2, <2>0, <2>2
<1>6. ASSUME NEW k \in 0..n, sfd \in {p, Nowhere}
      PROVE  fds[k] \in {p, Nowhere} /\ (k # 0 /\ c.ops[k].type = "WRITE" => fds[k] = p)
  <2>0. PICK l, W : l = P(k) /\ W = {p, Nowhere}
    OBVIOUS
  <2>1. p \in W /\ Nowhere \in W /\ sfd \in W /\ W = {p, Nowhere} /\ l \in Seq(SentOps)
    BY <1>3, <1>6, <2>0
  <2>2. /\ DescriptorOf(p, sfd, l) \in W
        /\ l # <<>> /\ l[Len(l)].type = "WRITE" /\ W = {p, Nowhere} => DescriptorOf(p, sfd, l) = p
    BY <2>1, DescriptorFacts
  <2>3. k # 0 /\ c.ops[k].type = "WRITE" => l # <<>> /\ l[Len(l)].type = "WRITE"
    BY <1>3, <2>0
  <2> QED BY <1>2, <2>0, <2>1, <2>2, <2>3
<1>7. \A k \in 1..n : k \in 0..n /\ k # 0
  BY <1>1
<1> QED BY <1>4, <1>5, <1>6, <1>7 DEF fds, n, p

-----------------------------------------------------------------------------
(* What the server has received is the beginning of the stream.            *)

AllOf == StreamOf(Sent)
Item(r) == <<r.path, Plain(r.op)>>
GotItems == [path : Paths, op : SentOps, to : Paths \union {Nowhere}] \union [path : Paths, op : {End}]

RightWrite(r, ex) ==
  r.op # End /\ r.op.type = "WRITE" => r.to = r.path /\ RightData(r.path, r.op, ex)

Begins(l, s, ex) ==
  /\ l \in Seq(GotItems) /\ Len(l) <= Len(s)
  /\ \A k \in 1..Len(l) : Item(l[k]) = s[k] /\ RightWrite(l[k], ex)

\* The descriptor is open on the file of the last operation.
OpenOn(f, l) ==
  /\ f \in Paths \union {Nowhere}
  /\ f # Nowhere => l # <<>> /\ l[Len(l)].op # End /\ l[Len(l)].path = f

\* The first n files are at an end.
Ended(n, fs, e, l) ==
  /\ n \in 0..Len(fs) /\ e[n] <= Len(l)
  /\ n < Len(fs) => Len(l) < e[n + 1]

\* When an operation has been received the one that follows is on the same path.
LEMMA NextPath ==
  ASSUME NEW fs \in Seq(PlainFiles), NEW s \in Seq(Items), NEW e, Marks(fs, s, e),
         NEW l, NEW ex, Begins(l, s, ex), NEW n, Ended(n, fs, e, l),
         NEW f, OpenOn(f, l), f # Nowhere, Len(l) < Len(s)
  PROVE  s[Len(l) + 1][1] = f
<1> DEFINE i == Len(l)
           r == l[i]
           x == fs[n + 1]
           m == Len(x.ops)
<1>1. l \in Seq(GotItems) /\ i \in Nat /\ Len(s) \in Nat /\ Len(fs) \in Nat
      /\ Len(l) <= Len(s) /\ \A k \in 1..Len(l) : Item(l[k]) = s[k]
  BY DEF Begins
<1>2. l # <<>> /\ r.op # End /\ r.path = f
  BY DEF OpenOn
<1>3. i \in 1..Len(l) /\ i # 0
  BY <1>1, <1>2
<1>4. r \in GotItems /\ s[i] = Item(r) /\ Plain(r.op) # End
  <2>1. r \in GotItems /\ s[i] = Item(r)
    BY <1>1, <1>3
  <2>2. r.op \in SentOps
    BY <1>2, <2>1 DEF GotItems
  <2> QED BY <2>1, <2>2, SentFacts
<1>5. /\ e \in [0..Len(fs) -> Nat] /\ e[0] = 0 /\ e[Len(fs)] = Len(s)
      /\ \A k \in 1..Len(fs) :
           /\ e[k] = e[k - 1] + Len(fs[k].ops) + 1
           /\ \A j \in 1..Len(fs[k].ops) : s[e[k - 1] + j] = <<fs[k].path, fs[k].ops[j]>>
           /\ s[e[k]] = <<fs[k].path, End>>
  BY DEF Marks
<1>6. n \in 0..Len(fs) /\ e[n] <= i /\ (n < Len(fs) => i < e[n + 1]) /\ e[n] \in Nat
  BY <1>5 DEF Ended
<1>7. n < Len(fs)
  <2> SUFFICES ASSUME n = Len(fs) PROVE FALSE
    BY <1>1, <1>6
  <2> QED BY <1>1, <1>5, <1>6
<1>8. n + 1 \in 1..Len(fs) /\ (n + 1) - 1 = n /\ n + 1 \in 0..Len(fs)
  BY <1>1, <1>6, <1>7
<1>9. x \in PlainFiles
  BY <1>8
<1>10. m \in Nat
  BY <1>9 DEF PlainFiles
<1>11. /\ e[n + 1] = e[n] + m + 1 /\ e[n + 1] \in Nat
       /\ \A j \in 1..m : s[e[n] + j] = <<x.path, x.ops[j]>>
       /\ s[e[n + 1]] = <<x.path, End>>
  BY <1>5, <1>8
<1>12. e[n] # i
  <2> SUFFICES ASSUME e[n] = i PROVE FALSE
    OBVIOUS
  <2>1. n # 0
    BY <1>3, <1>5
  <2>2. n \in 1..Len(fs)
    BY <1>6, <2>1
  <2>3. s[i] = <<fs[n].path, End>>
    BY <1>5, <2>2
  <2> QED BY <1>4, <2>3 DEF Item
<1> DEFINE a == e[n]
           b == e[n + 1]
           j == i - a
<1>13. /\ j \in 1..m /\ a + j = i
       /\ j = m => i + 1 = b
       /\ j # m => j + 1 \in 1..m /\ a + (j + 1) = i + 1
  <2>1. a \in Nat /\ i \in Nat /\ m \in Nat /\ b = a + m + 1 /\ a <= i /\ a # i /\ i < b
    BY <1>1, <1>6, <1>7, <1>10, <1>11, <1>12
  <2> HIDE DEF a, b, i, m
  <2> QED BY <2>1
<1>14. x.path = f
  <2>1. s[i] = <<x.path, x.ops[j]>>
    BY <1>11, <1>13
  <2> QED BY <1>2, <1>4, <2>1 DEF Item
<1>15. CASE j = m
  BY <1>11, <1>13, <1>14, <1>15
<1>16. CASE j # m
  <2>1. s[i + 1] = <<x.path, x.ops[j + 1]>>
    BY <1>11, <1>13, <1>16
  <2> QED BY <1>14, <2>1
<1> QED BY <1>15, <1>16

\* What handleClient() makes of a chunk.
Handles(c, l, u) ==
  \E fds \in {Descriptors(c)} :
    u = l \o [k \in DOMAIN c.ops |-> [path |-> c.path, op |-> c.ops[k], to |-> fds[k]]]
          \o (IF c.last THEN <<[path |-> c.path, op |-> End]>> ELSE <<>>)

\* Its operations come behind what has been received, and the end of the file behind them.
LEMMA HandlesFacts ==
  ASSUME NEW c \in Chunks, NEW l \in Seq(GotItems), NEW u, Handles(c, l, u),
         sfd \in Paths \union {Nowhere}
  PROVE  LET n == Len(c.ops)
             i == Len(l)
         IN  /\ u \in Seq(GotItems) /\ Len(u) = i + Extent(c)
             /\ n \in Nat /\ i \in Nat /\ Extent(c) = n + (IF c.last THEN 1 ELSE 0)
             /\ \A k \in 1..i : u[k] = l[k]
             /\ \A k \in 1..n : /\ u[i + k] = [path |-> c.path, op |-> c.ops[k], to |-> Descriptors(c)[k]]
                                /\ c.ops[k] \in SentOps
             /\ c.last => u[i + n + 1] = [path |-> c.path, op |-> End]
<1> DEFINE n == Len(c.ops)
           i == Len(l)
           Got1(k) == [path |-> c.path, op |-> c.ops[k], to |-> Descriptors(c)[k]]
           d == [k \in DOMAIN c.ops |-> Got1(k)]
           y == [path |-> c.path, op |-> End]
           z == IF c.last THEN <<y>> ELSE <<>>
           v == l \o d
           w == v \o z
<1>1. c.path \in Paths /\ c.ops \in Seq(SentOps) /\ c.last \in BOOLEAN
  BY DEF Chunks
<1>2. n \in Nat /\ DOMAIN c.ops = 1..n /\ (\A k \in 1..n : c.ops[k] \in SentOps) /\ i \in Nat
  BY <1>1
<1>3. ASSUME NEW k \in 1..n PROVE Got1(k) \in GotItems
  <2>1. k \in 0..n
    BY <1>2
  <2>2. Descriptors(c)[k] \in Paths \union {Nowhere}
    BY <2>1, DescriptorsFacts
  <2> QED BY <1>1, <1>2, <2>2 DEF GotItems
<1>4. d = [k \in 1..n |-> Got1(k)]
  BY <1>2
<1>5. u = w
  BY DEF Handles
<1>6. y \in GotItems
  BY <1>1 DEF GotItems
<1>7. Extent(c) = n + (IF c.last THEN 1 ELSE 0)
  BY DEF Extent
<1> HIDE DEF n, Got1, d, y
<1>8. d \in Seq(GotItems) /\ Len(d) = n /\ \A k \in 1..n : d[k] = Got1(k)
  BY <1>2, <1>3, <1>4
<1>9. z \in Seq(GotItems) /\ Len(z) = (IF c.last THEN 1 ELSE 0) /\ (c.last => z[1] = y)
  BY <1>1, <1>6
<1> HIDE DEF z, v
<1>10. v \in Seq(GotItems) /\ Joined(v, l, d)
  BY <1>8, JoinFacts DEF v
<1>11. u \in Seq(GotItems) /\ Joined(u, v, z)
  BY <1>5, <1>9, <1>10, JoinFacts
<1> HIDE DEF i
<1>12. Len(v) = i + n /\ Len(u) = i + n + (IF c.last THEN 1 ELSE 0)
  BY <1>2, <1>8, <1>9, <1>10, <1>11 DEF Joined, i
<1>13. \A k \in 1..i : u[k] = l[k]
  <2> TAKE k \in 1..i
  <2>1. k \in 1..Len(v) /\ k \in 1..Len(l)
    BY <1>2, <1>12 DEF i
  <2> QED BY <1>10, <1>11, <2>1 DEF Joined
<1>14. \A k \in 1..n : u[i + k] = Got1(k)
  <2> TAKE k \in 1..n
  <2>1. i + k \in 1..Len(v) /\ k \in 1..Len(d)
    BY <1>2, <1>8, <1>12
  <2>2. v[i + k] = d[k]
    BY <1>10, <2>1 DEF Joined, i
  <2>3. u[i + k] = v[i + k]
    BY <1>11, <2>1 DEF Joined
  <2> QED BY <1>8, <2>2, <2>3
<1>15. c.last => u[i + n + 1] = y
  <2> SUFFICES ASSUME c.last PROVE u[i + n + 1] = y
    OBVIOUS
  <2>1. 1 \in 1..Len(z)
    BY <1>9
  <2>2. u[Len(v) + 1] = z[1]
    BY <1>11, <2>1 DEF Joined
  <2> QED BY <1>9, <1>12, <2>2
<1>16. Len(u) = i + Extent(c)
  <2> DEFINE x == IF c.last THEN 1 ELSE 0
  <2>1. x \in Nat /\ Len(u) = i + n + x /\ Extent(c) = n + x
    BY <1>7, <1>12
  <2> HIDE DEF x
  <2> QED BY <1>2, <2>1
<1> QED BY <1>2, <1>7, <1>11, <1>13, <1>14, <1>15, <1>16 DEF n, i, Got1, y

LEMMA ReceivedKeeps ==
  ASSUME NEW fs \in Seq(PlainFiles), NEW s \in Seq(Items), NEW e, Marks(fs, s, e),
         NEW l, NEW ex, Begins(l, s, ex), NEW h, Ended(h, fs, e, l), OpenOn(sfd, l),
         NEW c \in Chunks, NEW j, PartOf(c, s, Len(l), j, ex), NEW u, Handles(c, l, u)
  PROVE  /\ Begins(u, s, ex) /\ Len(u) = j /\ Len(l) <= j
         /\ Ended(IF c.last THEN h + 1 ELSE h, fs, e, u)
         /\ OpenOn(IF c.last THEN Nowhere ELSE Descriptors(c)[Len(c.ops)], u)
<1> DEFINE n == Len(c.ops)
           i == Len(l)
           p == c.path
           D0 == Descriptors(c)
<1>1. /\ l \in Seq(GotItems) /\ Len(l) <= Len(s)
      /\ \A k \in 1..i : Item(l[k]) = s[k] /\ RightWrite(l[k], ex)
  BY DEF Begins
<1>2. sfd \in Paths \union {Nowhere} /\ (sfd # Nowhere => l # <<>> /\ l[Len(l)].op # End /\ l[Len(l)].path = sfd)
  BY DEF OpenOn
<1>3. /\ u \in Seq(GotItems) /\ Len(u) = i + Extent(c)
      /\ n \in Nat /\ i \in Nat /\ Extent(c) = n + (IF c.last THEN 1 ELSE 0)
      /\ \A k \in 1..i : u[k] = l[k]
      /\ \A k \in 1..n : u[i + k] = [path |-> p, op |-> c.ops[k], to |-> D0[k]] /\ c.ops[k] \in SentOps
      /\ c.last => u[i + n + 1] = [path |-> p, op |-> End]
  BY ZenonT(40), <1>1, <1>2, HandlesFacts
<1>4. /\ j = i + Extent(c) /\ j <= Len(s)
      /\ \A k \in 1..n : s[i + k] = <<p, Plain(c.ops[k])>> /\ RightData(p, c.ops[k], ex)
      /\ c.last => s[j] = <<p, End>>
  BY DEF PartOf
<1>5. /\ \A k \in 0..n : D0[k] \in Paths \union {Nowhere}
      /\ D0[0] = sfd
      /\ sfd \in {p, Nowhere} =>
           /\ \A k \in 0..n : D0[k] \in {p, Nowhere}
           /\ \A k \in 1..n : c.ops[k].type = "WRITE" => D0[k] = p
  BY <1>2, DescriptorsFacts
<1>6. c.last \in BOOLEAN /\ p \in Paths /\ Len(s) \in Nat
  BY DEF Chunks
<1> HIDE DEF n, i, p, D0
<1>7. j \in Nat /\ (c.last => j = i + n + 1) /\ (~c.last => j = i + n)
  BY <1>3, <1>4, <1>6
<1>8. n # 0 => sfd \in {p, Nowhere}
  <2> SUFFICES ASSUME n # 0, sfd # Nowhere PROVE sfd = p
    OBVIOUS
  <2>1. 1 \in 1..n
    BY <1>3
  <2>2. s[i + 1] = <<p, Plain(c.ops[1])>>
    BY <1>4, <2>1
  <2>3. i < Len(s)
    BY <1>3, <1>4, <1>6, <1>7, <2>1
  <2>4. s[i + 1][1] = sfd
    BY <2>3, NextPath DEF i
  <2> QED BY <2>2, <2>4
<1>9. \A k \in 1..n : Item(u[i + k]) = s[i + k] /\ RightWrite(u[i + k], ex) /\ s[i + k][2] # End
  <2> TAKE k \in 1..n
  <2>1. u[i + k] = [path |-> p, op |-> c.ops[k], to |-> D0[k]] /\ c.ops[k] \in SentOps
    BY <1>3
  <2>2. s[i + k] = <<p, Plain(c.ops[k])>> /\ RightData(p, c.ops[k], ex)
    BY <1>4
  <2>3. n # 0
    BY <1>3
  <2>4. c.ops[k].type = "WRITE" => D0[k] = p
    BY <1>5, <1>8, <2>3
  <2>5. Plain(c.ops[k]) # End
    BY <2>1, SentFacts
  <2> QED BY <2>1, <2>2, <2>4, <2>5 DEF Item, RightWrite
<1>10. c.last => Item(u[j]) = s[j] /\ RightWrite(u[j], ex)
  <2> SUFFICES ASSUME c.last PROVE Item(u[j]) = s[j] /\ RightWrite(u[j], ex)
    OBVIOUS
  <2>1. u[j] = [path |-> p, op |-> End] /\ s[j] = <<p, End>>
    BY <1>3, <1>4, <1>7
  <2>2. Plain(End) = End
    BY DEF Plain
  <2> QED BY <2>1, <2>2 DEF Item, RightWrite
<1>11. \A k \in 1..j : k \in 1..i \/ (k - i \in 1..n /\ i + (k - i) = k) \/ (c.last /\ k = j)
  BY SMTT(30), <1>3, <1>6, <1>7
<1>12. \A k \in 1..j : Item(u[k]) = s[k] /\ RightWrite(u[k], ex)
  <2> TAKE k \in 1..j
  <2>1. CASE k \in 1..i
    BY <1>1, <1>3, <2>1 DEF i
  <2>2. CASE k - i \in 1..n /\ i + (k - i) = k
    BY <1>9, <2>2
  <2>3. CASE c.last /\ k = j
    BY <1>10, <2>3
  <2> QED BY <1>11, <2>1, <2>2, <2>3
<1>13. Len(u) = j /\ i <= j
  BY <1>3, <1>4, <1>6, <1>7
<1>14. Begins(u, s, ex)
  BY <1>3, <1>4, <1>12, <1>13 DEF Begins
<1>15. /\ e \in [0..Len(fs) -> Nat] /\ e[Len(fs)] = Len(s)
       /\ \A k \in 1..Len(fs) :
            /\ e[k] = e[k - 1] + Len(fs[k].ops) + 1
            /\ \A q \in 1..Len(fs[k].ops) : s[e[k - 1] + q] = <<fs[k].path, fs[k].ops[q]>>
            /\ s[e[k]] = <<fs[k].path, End>>
  BY DEF Marks
<1>16. h \in 0..Len(fs) /\ e[h] <= i /\ (h < Len(fs) => i < e[h + 1]) /\ Len(fs) \in Nat /\ e[h] \in Nat
  BY <1>15 DEF Ended, i
<1>17. CASE n = 0 /\ ~c.last
  <2>1. j = i
    BY <1>3, <1>7, <1>17
  <2>2. Ended(h, fs, e, u)
    BY <1>13, <1>16, <2>1 DEF Ended
  <2>3. D0[n] = sfd
    BY <1>5, <1>17
  <2>4. OpenOn(sfd, u)
    <3> SUFFICES ASSUME sfd # Nowhere PROVE u # <<>> /\ u[Len(u)].op # End /\ u[Len(u)].path = sfd
      BY <1>2 DEF OpenOn
    <3>1. l # <<>> /\ l[i].op # End /\ l[i].path = sfd
      BY <1>2 DEF i
    <3>2. i # 0 /\ i \in 1..i
      BY <1>1, <1>3, <3>1 DEF i
    <3>3. u[i] = l[i] /\ Len(u) = i
      BY <1>3, <1>13, <2>1, <3>2
    <3> QED BY <3>1, <3>2, <3>3
  <2> QED BY <1>13, <1>14, <1>17, <2>2, <2>3, <2>4 DEF D0, n, i
<1>18. CASE n # 0 \/ c.last
  <2> DEFINE a == e[h]
             b == e[h + 1]
             x == fs[h + 1]
             m == Len(x.ops)
  <2>1. i < j
    BY <1>3, <1>6, <1>7, <1>18
  <2>2. h < Len(fs)
    <3> SUFFICES ASSUME h = Len(fs) PROVE FALSE
      BY <1>16
    <3> QED BY <1>3, <1>4, <1>6, <1>7, <1>15, <1>16, <2>1
  <2>3. h + 1 \in 1..Len(fs) /\ (h + 1) - 1 = h /\ h \in Nat
    BY <1>16, <2>2
  <2>4. x \in PlainFiles
    BY <2>3
  <2>5. m \in Nat /\ \A q \in 1..m : x.ops[q] # End
    <3>1. x.ops \in Seq(Ops)
      BY <2>4 DEF PlainFiles
    <3>2. \A o \in Ops : o # End
      BY PipelineAssumption DEF SentOps
    <3>3. m \in Nat /\ \A q \in 1..m : x.ops[q] \in Ops
      BY <3>1
    <3> QED BY <3>2, <3>3
  <2>6. /\ b = a + m + 1 /\ s[b] = <<x.path, End>> /\ a \in Nat /\ b \in Nat /\ a <= i /\ i < b
        /\ \A q \in 1..m : s[a + q] = <<x.path, x.ops[q]>>
    <3>1. h + 1 \in 0..Len(fs)
      BY <1>16, <2>3
    <3>2. b \in Nat
      BY <1>15, <3>1
    <3>3. b = e[(h + 1) - 1] + m + 1 /\ s[b] = <<x.path, End>>
          /\ \A q \in 1..m : s[e[(h + 1) - 1] + q] = <<x.path, x.ops[q]>>
      BY <1>15, <2>3
    <3> QED BY <1>16, <2>2, <2>3, <3>2, <3>3
  <2> HIDE DEF a, b, m, x
  <2>7. i + n < b
    <3> SUFFICES ASSUME ~(i + n < b) PROVE FALSE
      OBVIOUS
    <3>1. b - i \in 1..n /\ i + (b - i) = b
      BY SMTT(30), <1>3, <2>6
    <3>2. s[b][2] # End
      BY <1>9, <3>1
    <3> QED BY <2>6, <3>2
  <2>8. c.last => j = b
    <3> SUFFICES ASSUME c.last, j # b PROVE FALSE
      OBVIOUS
    <3>0. j = i + n + 1 /\ i \in Nat /\ n \in Nat /\ b \in Nat
      BY <1>3, <1>7, <2>6
    <3>1. j < b
      BY <2>7, <3>0
    <3>2. j - a \in 1..m /\ a + (j - a) = j
      BY <1>3, <1>7, <2>1, <2>5, <2>6, <3>1
    <3>3. s[j][2] # End
      BY SMTT(30), <2>5, <2>6, <3>2
    <3> QED BY <1>4, <3>3
  <2>9. c.last => Ended(h + 1, fs, e, u)
    <3> SUFFICES ASSUME c.last PROVE Ended(h + 1, fs, e, u)
      OBVIOUS
    <3>1. e[h + 1] = j /\ Len(u) = j
      BY <1>13, <2>8 DEF b
    <3>2. h + 1 < Len(fs) => j < e[(h + 1) + 1]
      <4> SUFFICES ASSUME h + 1 < Len(fs) PROVE j < e[(h + 1) + 1]
        OBVIOUS
      <4>1. (h + 1) + 1 \in 1..Len(fs) /\ ((h + 1) + 1) - 1 = h + 1 /\ (h + 1) + 1 \in 0..Len(fs)
        BY <1>16, <2>3
      <4> DEFINE g == (h + 1) + 1
      <4> HIDE DEF g
      <4>2. g \in 1..Len(fs) /\ g - 1 = h + 1 /\ e[g] \in Nat
        BY <1>15, <4>1 DEF g
      <4>3. e[g] = e[g - 1] + Len(fs[g].ops) + 1 /\ Len(fs[g].ops) \in Nat
        <5>1. fs[g] \in PlainFiles
          BY <4>2
        <5>2. Len(fs[g].ops) \in Nat
          BY <5>1 DEF PlainFiles
        <5> QED BY <1>15, <4>2, <5>2
      <4>4. j < e[g]
        BY <1>7, <3>1, <4>2, <4>3
      <4> QED BY <4>4 DEF g
    <3>3. h + 1 \in 0..Len(fs) /\ e[h + 1] <= Len(u)
      BY <1>7, <2>3, <3>1
    <3> QED BY <3>1, <3>2, <3>3 DEF Ended
  <2>10. ~c.last => Ended(h, fs, e, u)
    <3> SUFFICES ASSUME ~c.last PROVE Ended(h, fs, e, u)
      OBVIOUS
    <3>0. j = i + n /\ e[h] = a /\ e[h + 1] = b
      BY <1>7 DEF a, b
    <3>1. Len(u) = j /\ j < e[h + 1] /\ e[h] <= j
      BY <1>3, <1>7, <1>13, <2>1, <2>6, <2>7, <3>0
    <3> QED BY <1>16, <3>1 DEF Ended
  <2>11. ~c.last => OpenOn(D0[n], u)
    <3> SUFFICES ASSUME ~c.last PROVE OpenOn(D0[n], u)
      OBVIOUS
    <3>1. n \in 1..n /\ n \in 0..n /\ Len(u) = i + n
      BY <1>3, <1>7, <1>13, <1>18
    <3>2. D0[n] \in {p, Nowhere}
      BY <1>5, <1>8, <3>1
    <3>3. u[i + n] = [path |-> p, op |-> c.ops[n], to |-> D0[n]] /\ c.ops[n] # End
      BY <1>3, <3>1, PipelineAssumption
    <3>4. u # <<>>
      BY <1>3, <3>1
    <3> QED BY <1>6, <3>1, <3>2, <3>3, <3>4 DEF OpenOn
  <2>12. OpenOn(Nowhere, u)
    BY DEF OpenOn
  <2> QED BY <1>6, <1>13, <1>14, <2>9, <2>10, <2>11, <2>12 DEF D0, n, i
<1> QED BY <1>6, <1>17, <1>18

-----------------------------------------------------------------------------
(* The chunk that is sent.                                                 *)

\* An operation without a pointer has an excuse.
Excused(ex) == \A k \in InChunk : operations[k].type = "WRITE" /\ pointers[k] = Null =>
                  <<Path, operations[k].offset + operations[k].size>> \in ex

LEMMA ContentFacts ==
  ASSUME NEW d \in DynData, NEW p \in Paths, NEW o \in Ops, o.type = "WRITE", NEW at, Waits(d, p, o, at)
  PROVE  /\ Content(d, at) \in Seq(Paths \X Nat)
         /\ at # Null => Content(d, at) = [n \in 1..o.size |-> Byte(p, o.offset + n - 1)]
         /\ at = Null => Content(d, at) = <<>>
<1>1. o.offset \in Nat /\ o.size \in Nat
  BY SpanOf
<1>2. CASE at = Null
  BY <1>2 DEF Content
<1>3. CASE at # Null
  <2> DEFINE c == [n \in 1..o.size |-> Byte(p, o.offset + n - 1)]
  <2>1. Content(d, at) = c
    BY <1>3 DEF Waits
  <2>2. \A n \in 1..o.size : Byte(p, o.offset + n - 1) \in Paths \X Nat
    BY <1>1 DEF Byte
  <2>3. c \in Seq(Paths \X Nat)
    <3> DEFINE m == o.size
    <3>1. c \in [1..m -> Paths \X Nat] /\ m \in Nat
      BY <1>1, <2>2
    <3> HIDE DEF c, m
    <3> QED BY <3>1
  <2> QED BY <1>3, <2>1, <2>3
<1> QED BY <1>2, <1>3

LEMMA ChunkSent ==
  ASSUME ChunkInv, Path \in Paths, NEW last \in BOOLEAN, NEW ex, Excused(ex)
  PROVE  LET c == Chunk(last)
         IN  /\ c \in Chunks /\ c.path = Path /\ c.last = last /\ Len(c.ops) = nops
             /\ \A k \in 1..nops : /\ Plain(c.ops[k]) = Plain(operations[opstart + k - 1])
                                   /\ RightData(Path, c.ops[k], ex)
<1> DEFINE X(k) == LET o == operations[opstart + k - 1]
                   IN  IF o.type = "WRITE"
                       THEN [o EXCEPT !.data = Content(dyndata, pointers[opstart + k - 1])]
                       ELSE o
           ops == [k \in 1..nops |-> X(k)]
<1>1. /\ opstart \in Nat \ {0} /\ nops \in Nat /\ operations \in Seq(Ops) /\ dyndata \in DynData
      /\ opstart + nops <= Len(operations) + 1 /\ Len(operations) \in Nat
  BY DEF ChunkInv
<1>2. ASSUME NEW k \in 1..nops
      PROVE  /\ X(k) \in SentOps /\ Plain(X(k)) = Plain(operations[opstart + k - 1])
             /\ RightData(Path, X(k), ex)
  <2> DEFINE j == opstart + k - 1
             o == operations[j]
             d == Content(dyndata, pointers[j])
  <2>1. j \in 1..Len(operations) /\ j \in InChunk
    BY <1>1 DEF InChunk
  <2>2. o \in Ops /\ Waits(dyndata, Path, o, pointers[j])
    BY <1>1, <2>1 DEF ChunkInv
  <2>3. o.type = "WRITE" /\ pointers[j] = Null => <<Path, o.offset + o.size>> \in ex
    BY <2>1 DEF Excused
  <2> HIDE DEF j, o, d
  <2>4. CASE o.type # "WRITE"
    <3>1. X(k) = o
      BY <2>4 DEF o, j
    <3> QED BY <2>2, <2>4, <3>1 DEF SentOps, RightData, o, j
  <2>5. CASE o.type = "WRITE"
    <3> DEFINE u == [o EXCEPT !.data = d]
    <3>1. X(k) = u
      BY <2>5 DEF o, j, d
    <3>2. /\ d \in Seq(Paths \X Nat)
          /\ pointers[j] # Null => d = [n \in 1..o.size |-> Byte(Path, o.offset + n - 1)]
          /\ pointers[j] = Null => d = <<>>
      BY <1>1, <2>2, <2>5, ContentFacts DEF d
    <3>3. /\ u \in SentOps /\ u.type = "WRITE" /\ u.data = d
          /\ u.offset = o.offset /\ u.size = o.size /\ Plain(u) = Plain(o)
      BY <2>2, <2>5, <3>2, GivenFacts
    <3> HIDE DEF u
    <3>4. RightData(Path, u, ex)
      BY <2>3, <2>5, <3>2, <3>3 DEF RightData
    <3> QED BY <3>1, <3>3, <3>4 DEF o, j
  <2> QED BY <2>4, <2>5
<1> HIDE DEF X
<1>3. Chunk(last) = [path |-> Path, last |-> last, ops |-> ops]
  BY DEF Chunk, X
<1>4. ops \in Seq(SentOps) /\ Len(ops) = nops /\ \A k \in 1..nops : ops[k] = X(k)
  BY <1>1, <1>2
<1> HIDE DEF ops
<1>5. Chunk(last) \in Chunks /\ Chunk(last).path = Path /\ Chunk(last).last = last /\ Chunk(last).ops = ops
  BY <1>3, <1>4 DEF Chunks
<1> QED BY <1>2, <1>4, <1>5

\* Where the client has come to in the stream.
Busy == phase \in {"op", "load", "full"}
Unsent == IF Busy /\ opstart <= Len(operations) THEN Len(operations) + 2 - opstart ELSE 0

\* It is the next part of the stream.
LEMMA ChunkStands ==
  ASSUME ChunkInv, offered \in Seq(Files), offered # <<>>, Busy, operations = Last(offered).ops,
         NEW s \in Seq(Items), NEW e, Marks(Sent, s, e),
         NEW last \in BOOLEAN, NEW ex, Excused(ex), opstart <= Len(operations),
         last => opstart + nops = Len(operations) + 1
  PROVE  LET i == Len(s) - Unsent
             j == Len(s) - Unsent + nops + (IF last THEN 1 ELSE 0)
         IN  /\ PartOf(Chunk(last), s, i, j, ex) /\ Chunk(last) \in Chunks
             /\ i \in Nat /\ j \in Nat /\ Len(s) \in Nat /\ i = Len(s) - (Len(operations) + 2 - opstart)
<1> DEFINE n == Len(offered)
           m == Len(operations)
           f == Sent[n]
           a == e[n - 1]
           i == Len(s) - Unsent
           x == IF last THEN 1 ELSE 0
           j == Len(s) - Unsent + nops + x
           c == Chunk(last)
<1>1. n \in Nat \ {0} /\ n \in 1..n /\ Last(offered) = offered[n] /\ offered[n] \in Files
  BY DEF Last
<1>2. /\ Sent \in Seq(PlainFiles) /\ Len(Sent) = n /\ f = PlainFile(offered[n])
  BY <1>1, SentType
<1>3. /\ f.path = Path /\ Len(f.ops) = m /\ \A k \in 1..m : f.ops[k] = Plain(operations[k])
      /\ Path \in Paths
  <2>1. /\ f.path = offered[n].path /\ Len(f.ops) = Len(offered[n].ops)
        /\ \A k \in 1..Len(offered[n].ops) : f.ops[k] = Plain(offered[n].ops[k])
    BY <1>1, <1>2, PlainFileFacts
  <2>2. Path = offered[n].path /\ operations = offered[n].ops /\ Path \in Paths
    BY <1>1 DEF Path, Files
  <2> QED BY <2>1, <2>2
<1> HIDE DEF n, m, f
<1>4. /\ e \in [0..n -> Nat] /\ e[n] = Len(s)
      /\ e[n] = e[n - 1] + m + 1
      /\ \A k \in 1..m : s[e[n - 1] + k] = <<Path, Plain(operations[k])>>
      /\ s[e[n]] = <<Path, End>>
  <2>1. /\ e \in [0..n -> Nat] /\ e[n] = Len(s)
        /\ e[n] = e[n - 1] + Len(Sent[n].ops) + 1
        /\ \A k \in 1..Len(Sent[n].ops) : s[e[n - 1] + k] = <<Sent[n].path, Sent[n].ops[k]>>
        /\ s[e[n]] = <<Sent[n].path, End>>
    BY <1>1, <1>2 DEF Marks
  <2> QED BY <1>3, <2>1 DEF f
<1>5. n - 1 \in 0..n /\ a \in Nat /\ Len(s) \in Nat
  <2>1. n - 1 \in 0..n
    BY <1>1
  <2>2. e[n - 1] \in Nat
    BY <1>4, <2>1
  <2>3. Len(s) \in Nat
    OBVIOUS
  <2> QED BY <2>1, <2>2, <2>3
<1>6. /\ opstart \in Nat \ {0} /\ nops \in Nat /\ m \in Nat
      /\ opstart + nops <= m + 1 /\ opstart <= m /\ (last => opstart + nops = m + 1)
  BY DEF ChunkInv, m
<1>7. Len(s) - Unsent = Len(s) - (m + 2 - opstart)
  BY DEF Unsent, m
<1>8. /\ c \in Chunks /\ c.path = Path /\ c.last = last /\ Len(c.ops) = nops
      /\ \A k \in 1..nops : /\ Plain(c.ops[k]) = Plain(operations[opstart + k - 1])
                            /\ RightData(Path, c.ops[k], ex)
  BY <1>3, ChunkSent
<1> HIDE DEF a, c
<1>9. x \in Nat /\ (last => x = 1) /\ (~last => x = 0)
  OBVIOUS
<1> HIDE DEF x
<1>10. Len(s) = a + m + 1
  BY <1>4 DEF a
<1>11. i \in Nat /\ i = a + opstart - 1 /\ j \in Nat /\ j = i + nops + x /\ j <= Len(s)
  <2> DEFINE l == Len(s)
             b == Unsent
  <2>1. l = a + m + 1 /\ l - b = l - (m + 2 - opstart) /\ l \in Nat /\ a \in Nat
    BY <1>5, <1>7, <1>10
  <2> HIDE DEF l, b
  <2>2. l - b = a + opstart - 1 /\ l - b \in Nat
    BY <1>6, <2>1
  <2>3. l - b + nops + x <= l
    BY <1>6, <1>9, <2>1, <2>2
  <2> QED BY <1>6, <1>9, <2>2, <2>3 DEF l, b
<1> HIDE DEF i, j
<1>12. \A k \in 1..nops : s[i + k] = <<Path, Plain(c.ops[k])>>
  <2> TAKE k \in 1..nops
  <2>1. opstart + k - 1 \in 1..m /\ i + k = a + (opstart + k - 1)
    BY <1>5, <1>6, <1>11
  <2> QED BY <1>4, <1>8, <2>1 DEF a
<1>13. last => s[j] = <<Path, End>>
  <2> SUFFICES ASSUME last PROVE s[j] = <<Path, End>>
    OBVIOUS
  <2>1. j = a + m + 1
    <3>1. j = a + opstart - 1 + nops + 1 /\ opstart + nops = m + 1
      BY <1>6, <1>9, <1>11
    <3> QED BY <1>5, <1>6, <3>1
  <2> QED BY <1>4, <1>10, <2>1
<1>14. Extent(c) = nops + x
  BY <1>8 DEF Extent, x
<1>15. j = i + Extent(c)
  BY <1>5, <1>6, <1>9, <1>11, <1>14
<1>16. PartOf(c, s, i, j, ex)
  BY <1>8, <1>11, <1>12, <1>13, <1>15 DEF PartOf
<1> QED BY <1>5, <1>7, <1>8, <1>11, <1>16 DEF i, j, c, m, x

-----------------------------------------------------------------------------
(* The two processes and what is between them.                             *)

\* Before the client connects nothing has happened; after that the files that are
\* offered and those in the table are those that were announced.
TypeInv ==
  /\ phase \in Phases /\ connected \in BOOLEAN
  /\ server \in {"off", "receive", "done", "failed"}
  /\ faults \in 0..MaxFaults /\ snapshot \in [Paths -> Nat \union {-1}]
  /\ stored \in Paths \union {Nowhere} /\ fd \in Paths \union {Nowhere, Gone}
OffInv ==
  /\ phase = "off" <=> server = "off"
  /\ phase = "off" => /\ offered = <<>> /\ received = <<>> /\ wire = <<>> /\ handled = 0
                      /\ stored = Nowhere /\ fd = Nowhere /\ sfd = Nowhere /\ nops = 0
                      /\ nfiles = 0 /\ tables.files = <<>>
  /\ phase # "off" => stage = "loaded"
  /\ nfiles = Len(tables.files) + Len(offered)
  /\ server = "done" => tables.files = <<>> /\ handled = nfiles

\* While a file is sent it is the last one offered, and no longer in the table.
BusyInv ==
  Busy => /\ operations = Last(offered).ops /\ operations # <<>> /\ ~Has(tables, Path)
          /\ phase = "full" => cur + 1 = opstart + nops /\ nops # 0 /\ cur <= Len(operations)

\* The descriptor: it is not open for a file that could not be opened, and once
\* it has been closed the file it was for does not come again.
CacheInv ==
  /\ stored = Nowhere => fd = Nowhere
  /\ offered = <<>> => stored = Nowhere
  /\ fd = Nowhere /\ stored \in Paths => faults > 0 \/ snapshot[stored] = -1
  /\ fd = Gone => ~Has(tables, stored)
  /\ fd = Gone /\ Busy /\ stored = Path => cur >= Len(operations)
                                           /\ (phase # "full" => cur > Len(operations))
  /\ Excused(Excuses)

\* The messages under way are what follows in the stream on what has been received.
Follow(at) ==
  /\ Under(wire, AllOf, at, Excuses) /\ at[0] = Len(received)
  /\ connected => at[Len(wire)] = Len(AllOf) - Unsent
StreamInv ==
  /\ wire \in Seq(Packets)
  /\ Begins(received, AllOf, Excuses) /\ OpenOn(sfd, received)
  /\ \E e : Marks(Sent, AllOf, e) /\ Ended(handled, Sent, e, received)
  /\ server \in {"off", "receive"} => \E at : Follow(at)
  /\ server = "done" => Len(received) = Len(AllOf)

Ours == TypeInv /\ OffInv /\ BusyInv /\ CacheInv /\ StreamInv

-----------------------------------------------------------------------------
(* Lemmas about steps.                                                     *)

\* Memory that is refused, or a connection that breaks, is a fault.
LEMMA OutcomeFacts ==
  ASSUME faults \in 0..MaxFaults, NEW ok \in BOOLEAN, Outcome(ok)
  PROVE  faults' \in 0..MaxFaults /\ (faults > 0 => faults' > 0) /\ (~ok => faults' > 0)
<1>1. PICK f, g : f = faults /\ g = faults'
  OBVIOUS
<1>2. f \in 0..MaxFaults /\ (~ok => f < MaxFaults) /\ g = IF ok THEN f ELSE f + 1
  BY <1>1 DEF Outcome
<1>3. g \in 0..MaxFaults /\ (f > 0 => g > 0) /\ (~ok => g > 0)
  BY <1>2, FaultsAssumption
<1> QED BY <1>1, <1>3

LEMMA ExcusesGrow ==
  ASSUME faults > 0 => faults' > 0, snapshot' = snapshot
  PROVE  Excuses \subseteq Excuses'
BY DEF Excuses

\* A message goes into the connection, or the client has none any more.
LEMMA SendFacts ==
  ASSUME connected \in BOOLEAN, faults \in 0..MaxFaults,
         NEW last, NEW n, NEW then, TransferChunk(last, n, then)
  PROVE  /\ faults' \in 0..MaxFaults /\ (faults > 0 => faults' > 0)
         /\ opstart' = n /\ nops' = 0 /\ phase' \in {then, "failed", "crashed"}
         /\ phase' # then => connected' = FALSE
         /\ \/ /\ connected' = TRUE /\ connected
               /\ wire' = Append(wire, [cells |-> PackFileChunk(Chunk(last)), whole |-> TRUE])
            \/ connected' = FALSE /\ wire' = wire
<1> DEFINE cells == PackFileChunk(Chunk(last))
           size == PackedSize(cells)
<1>1. PICK ok \in BOOLEAN :
        LET result == PackResult(packing, size, ok)
        IN  /\ Outcome(ok)
            /\ wire' = IF result = "packed" /\ connected
                       THEN Append(wire, [cells |-> cells, whole |-> TRUE]) ELSE wire
            /\ \/ result = "packed" /\ phase' = then /\ UNCHANGED connected
               \/ result = "packed" /\ ~connected /\ Leaves("failed")
               \/ result # "packed" /\ Leaves(result)
            /\ opstart' = n /\ nops' = 0
  BY DEF TransferChunk
<1>2. PackResult(packing, size, ok) \in {"packed", "failed", "crashed"}
  BY DEF PackResult
<1> DEFINE r == PackResult(packing, size, ok)
<1> HIDE DEF cells, size
<1>3. faults' \in 0..MaxFaults /\ (faults > 0 => faults' > 0)
  BY <1>1, OutcomeFacts
<1> HIDE DEF r
<1>4. CASE r = "packed" /\ phase' = then /\ UNCHANGED connected
  BY <1>1, <1>3, <1>4 DEF r, cells
<1>5. CASE r = "packed" /\ ~connected /\ Leaves("failed")
  BY <1>1, <1>3, <1>5 DEF r, Leaves
<1>6. CASE r # "packed" /\ Leaves(r)
  BY <1>1, <1>2, <1>3, <1>6 DEF r, Leaves
<1> QED BY <1>1, <1>4, <1>5, <1>6 DEF r

\* The stream of what has been offered.
LEMMA StreamType ==
  ASSUME offered \in Seq(Files)
  PROVE  /\ Sent \in Seq(PlainFiles) /\ Len(Sent) = Len(offered)
         /\ AllOf \in Seq(Items) /\ Len(AllOf) \in Nat
<1>1. Sent \in Seq(PlainFiles) /\ Len(Sent) = Len(offered)
  BY SentType
<1>2. AllOf \in Seq(Items)
  BY <1>1, StreamFacts DEF AllOf
<1> QED BY <1>1, <1>2

LEMMA OfferedSame ==
  ASSUME offered' = offered
  PROVE  Sent' = Sent /\ AllOf' = AllOf /\ Path' = Path
<1>1. Sent' = [k \in DOMAIN offered' |-> PlainFile(offered'[k])]
  BY DEF Sent, PlainFile, Plain
<1>2. Sent' = Sent
  BY <1>1 DEF Sent
<1>3. AllOf' = StreamOf(Sent')
  BY DEF AllOf
<1> QED BY <1>2, <1>3 DEF AllOf, Path

LEMMA BeginsOn ==
  ASSUME NEW s, NEW t, Len(s) \in Nat, Len(t) \in Nat, Len(s) <= Len(t),
         \A k \in 1..Len(s) : t[k] = s[k],
         NEW ex, NEW ey, ex \subseteq ey, NEW l, Begins(l, s, ex)
  PROVE  Begins(l, t, ey)
<1>1. l \in Seq(GotItems) /\ Len(l) <= Len(s) /\ Len(l) \in Nat
      /\ \A k \in 1..Len(l) : Item(l[k]) = s[k] /\ RightWrite(l[k], ex)
  BY DEF Begins
<1>2. \A k \in 1..Len(l) : k \in 1..Len(s)
  BY <1>1
<1>3. \A k \in 1..Len(l) : RightWrite(l[k], ey)
  BY <1>1 DEF RightWrite, RightData
<1> QED BY <1>1, <1>2, <1>3 DEF Begins

\* Nothing is sent and nothing received.
LEMMA StreamQuiet ==
  ASSUME StreamInv, offered \in Seq(Files),
         UNCHANGED <<offered, received, wire, sfd, handled, snapshot>>,
         server' \in {server, "failed"},
         faults > 0 => faults' > 0, connected' => connected /\ Unsent' = Unsent
  PROVE  StreamInv'
<1>1. /\ wire \in Seq(Packets) /\ Begins(received, AllOf, Excuses) /\ OpenOn(sfd, received)
      /\ server \in {"off", "receive"} => \E at : Follow(at)
      /\ server = "done" => Len(received) = Len(AllOf)
  BY DEF StreamInv
<1>2. PICK e : Marks(Sent, AllOf, e) /\ Ended(handled, Sent, e, received)
  BY DEF StreamInv
<1>3. Sent' = Sent /\ AllOf' = AllOf /\ AllOf \in Seq(Items) /\ Len(AllOf) \in Nat
  BY OfferedSame, StreamType
<1>4. Excuses \subseteq Excuses'
  BY ExcusesGrow
<1>5. PICK s, ex, ey : s = AllOf /\ ex = Excuses /\ ey = Excuses'
  OBVIOUS
<1>6. Len(s) <= Len(s) /\ s \in Seq(Items) /\ Len(s) \in Nat /\ ex \subseteq ey
  BY <1>3, <1>4, <1>5
<1>7. Begins(received, s, ey)
  BY <1>1, <1>5, <1>6, BeginsOn
<1>8. ASSUME NEW at, Follow(at) PROVE Follow(at)'
  <2>1. Under(wire, s, at, ey)
    BY <1>1, <1>5, <1>6, <1>8, UnderOn DEF Follow
  <2> QED BY <1>3, <1>5, <1>8, <2>1 DEF Follow
<1>9. server' \in {"off", "receive"} => \E at : Follow(at)'
  BY <1>1, <1>8
<1>10. Begins(received', AllOf', Excuses') /\ OpenOn(sfd', received')
  BY <1>1, <1>3, <1>5, <1>7
<1>11. Marks(Sent', AllOf', e) /\ Ended(handled', Sent', e, received')
  BY <1>2, <1>3
<1> QED BY <1>1, <1>3, <1>9, <1>10, <1>11 DEF StreamInv

\* A chunk is sent, or the connection is lost.
LEMMA StreamSent ==
  ASSUME StreamInv, TypeInv, CacheInv, ChunkInv, offered \in Seq(Files), offered # <<>>,
         Busy, operations = Last(offered).ops,
         UNCHANGED <<offered, received, sfd, handled, server, snapshot>>,
         NEW last \in BOOLEAN, NEW n, NEW then, TransferChunk(last, n, then),
         opstart <= Len(operations), last => opstart + nops = Len(operations) + 1,
         connected' => Unsent' = IF last THEN 0 ELSE Len(operations) + 2 - (opstart + nops)
  PROVE  StreamInv'
<1>1. /\ faults > 0 => faults' > 0
      /\ \/ /\ connected' = TRUE /\ connected
            /\ wire' = Append(wire, [cells |-> PackFileChunk(Chunk(last)), whole |-> TRUE])
         \/ connected' = FALSE /\ wire' = wire
  BY SendFacts DEF TypeInv
<1>2. CASE connected' = FALSE /\ wire' = wire
  BY <1>1, <1>2, StreamQuiet
<1>3. CASE /\ connected' = TRUE /\ connected
           /\ wire' = Append(wire, [cells |-> PackFileChunk(Chunk(last)), whole |-> TRUE])
  <2>1. /\ wire \in Seq(Packets) /\ Begins(received, AllOf, Excuses) /\ OpenOn(sfd, received)
        /\ server \in {"off", "receive"} => \E at : Follow(at)
        /\ server = "done" => Len(received) = Len(AllOf)
    BY DEF StreamInv
  <2>2. PICK e : Marks(Sent, AllOf, e) /\ Ended(handled, Sent, e, received)
    BY DEF StreamInv
  <2>3. Sent' = Sent /\ AllOf' = AllOf /\ AllOf \in Seq(Items)
    BY OfferedSame, StreamType
  <2>4. PICK s, ex, ey, c, m : /\ s = AllOf /\ ex = Excuses /\ ey = Excuses' /\ c = Chunk(last)
                               /\ m = [cells |-> PackFileChunk(c), whole |-> TRUE]
    OBVIOUS
  <2>5. Len(s) <= Len(s) /\ s \in Seq(Items) /\ Len(s) \in Nat /\ ex \subseteq ey
        /\ Marks(Sent, s, e) /\ Excused(ex)
    BY <1>1, <2>2, <2>3, <2>4, ExcusesGrow DEF CacheInv
  <2> DEFINE i == Len(s) - Unsent
             j == Len(s) - Unsent + nops + (IF last THEN 1 ELSE 0)
  <2>6. /\ PartOf(c, s, i, j, ex) /\ c \in Chunks
        /\ i \in Nat /\ j \in Nat /\ Len(s) \in Nat /\ i = Len(s) - (Len(operations) + 2 - opstart)
    BY <2>4, <2>5, ChunkStands
  <2>7. m \in Packets /\ m.cells = PackFileChunk(c)
    <3>1. \A d \in Chunks, f \in BOOLEAN : [cells |-> PackFileChunk(d), whole |-> f] \in Packets
      BY DEF Packets
    <3> QED BY <2>4, <2>6, <3>1
  <2>8. Carries(m, s, i, j, ex)
    BY <2>6, <2>7 DEF Carries
  <2>9. j = Len(s) - Unsent'
    <3>1. PICK a, b, u, v, w : /\ a = Len(s) /\ b = Len(operations) /\ u = opstart /\ v = nops
                               /\ w = Unsent'
      OBVIOUS
    <3>2. a \in Nat /\ b \in Nat /\ u \in Nat /\ v \in Nat
      BY <2>5, <3>1 DEF ChunkInv
    <3>3. w = IF last THEN 0 ELSE b + 2 - (u + v)
      BY <1>3, <3>1
    <3>4. last => u + v = b + 1
      BY <3>1
    <3>5. i = a - (b + 2 - u) /\ j = i + v + (IF last THEN 1 ELSE 0)
      BY <2>6, <3>1
    <3> HIDE DEF i, j
    <3>6. PICK z : z = j
      OBVIOUS
    <3>7. z = a - (b + 2 - u) + v + (IF last THEN 1 ELSE 0)
      BY <3>5, <3>6
    <3>8. ASSUME last PROVE z = a - w
      BY <3>2, <3>3, <3>4, <3>7, <3>8
    <3>9. ASSUME ~last PROVE z = a - w
      BY <3>2, <3>3, <3>7, <3>9
    <3>10. z = a - w
      BY <3>8, <3>9
    <3> QED BY <3>1, <3>6, <3>10
  <2> HIDE DEF i, j
  <2>10. Begins(received, s, ey)
    BY <2>1, <2>4, <2>5, BeginsOn
  <2>11. wire' = Append(wire, m) /\ wire' \in Seq(Packets)
    BY <1>3, <2>1, <2>4, <2>7
  <2>12. ASSUME NEW at, Follow(at) PROVE \E b : Follow(b)'
    <3>1. Under(wire, s, at, ex) /\ at[0] = Len(received) /\ at[Len(wire)] = Len(s) - Unsent
      BY <1>3, <2>4, <2>12 DEF Follow
    <3>2. PICK b : b = [k \in 0..Len(wire) + 1 |-> IF k <= Len(wire) THEN at[k] ELSE j]
      OBVIOUS
    <3>3. at[Len(wire)] = i
      BY <3>1 DEF i
    <3>4. /\ wire' \in Seq(Packets) /\ Len(wire') = Len(wire) + 1
          /\ Under(wire', s, b, ex) /\ b[0] = at[0] /\ b[Len(wire) + 1] = j
      BY <2>1, <2>6, <2>7, <2>8, <2>11, <3>1, <3>2, <3>3, UnderAppend
    <3>5. Under(wire', s, b, ey)
      BY <2>5, <3>4, UnderOn
    <3>6. Follow(b)'
      BY <2>3, <2>4, <2>9, <3>1, <3>4, <3>5 DEF Follow
    <3> QED BY <3>6
  <2>13. server' \in {"off", "receive"} => \E b : Follow(b)'
    BY <2>1, <2>12
  <2>14. Begins(received', AllOf', Excuses') /\ OpenOn(sfd', received')
    BY <2>1, <2>3, <2>4, <2>10
  <2>15. Marks(Sent', AllOf', e) /\ Ended(handled', Sent', e, received')
    BY <2>2, <2>3
  <2> QED BY <2>1, <2>3, <2>11, <2>13, <2>14, <2>15 DEF StreamInv
<1> QED BY <1>1, <1>2, <1>3

\* One file more to send.
LEMMA StreamMore ==
  ASSUME StreamInv, offered \in Seq(Files), NEW f \in Files, offered' = Append(offered, f),
         UNCHANGED <<received, wire, sfd, handled, server, snapshot>>,
         faults > 0 => faults' > 0, server # "done",
         connected' => connected /\ Unsent = 0 /\ Unsent' = Len(f.ops) + 1
  PROVE  StreamInv'
<1>1. /\ wire \in Seq(Packets) /\ Begins(received, AllOf, Excuses) /\ OpenOn(sfd, received)
      /\ server \in {"off", "receive"} => \E at : Follow(at)
  BY DEF StreamInv
<1>2. PICK e : Marks(Sent, AllOf, e) /\ Ended(handled, Sent, e, received)
  BY DEF StreamInv
<1>3. PICK s, ex, ey, fs, g, t : /\ s = AllOf /\ ex = Excuses /\ ey = Excuses' /\ fs = Sent
                                 /\ g = PlainFile(f) /\ t = s \o D!Flat(g)
  OBVIOUS
<1>4. /\ s \in Seq(Items) /\ Len(s) \in Nat /\ fs \in Seq(PlainFiles) /\ ex \subseteq ey
      /\ Marks(fs, s, e) /\ Ended(handled, fs, e, received) /\ Begins(received, s, ex)
  BY <1>1, <1>2, <1>3, StreamType, ExcusesGrow
<1>5. g \in PlainFiles /\ Sent' = Append(fs, g) /\ Len(g.ops) = Len(f.ops) /\ Len(g.ops) \in Nat
  <2>1. Sent' = Append(fs, g) /\ g \in PlainFiles
    BY <1>3, SentMore
  <2>2. Len(g.ops) = Len(f.ops)
    BY <1>3, PlainFileFacts
  <2> QED BY <2>1, <2>2 DEF PlainFiles
<1>6. AllOf' = t
  <2>1. AllOf' = StreamOf(Sent')
    BY DEF AllOf
  <2>2. StreamOf(Append(fs, g)) = StreamOf(fs) \o D!Flat(g)
    BY <1>4, <1>5, StreamFacts
  <2> QED BY <1>3, <1>5, <2>1, <2>2 DEF AllOf
<1>7. t \in Seq(Items) /\ Len(t) = Len(s) + Len(g.ops) + 1 /\ \A k \in 1..Len(s) : t[k] = s[k]
  <2> DEFINE x == D!Flat(g)
  <2>1. x \in Seq(Items) /\ Len(x) = Len(g.ops) + 1
    BY <1>5, FlatFacts
  <2> HIDE DEF x
  <2>2. t = s \o x
    BY <1>3 DEF x
  <2>3. t \in Seq(Items) /\ Joined(t, s, x)
    BY <1>4, <2>1, <2>2, JoinFacts
  <2>4. Len(s) + (Len(g.ops) + 1) = Len(s) + Len(g.ops) + 1
    BY <1>4, <1>5
  <2> QED BY <2>1, <2>3, <2>4 DEF Joined
<1>8. Len(t) \in Nat /\ Len(s) <= Len(t)
  BY <1>4, <1>5, <1>7
<1>9. PICK d : d = More(fs, s, e, g)
  OBVIOUS
<1>10. Marks(Append(fs, g), t, d)
  BY <1>3, <1>4, <1>5, <1>9, MarksMore
<1>11. Ended(handled, Append(fs, g), d, received)
  <2> DEFINE n == Len(fs)
             l == Len(received)
             h == handled
             z == Len(s)
             m == Len(g.ops)
  <2>1. n \in Nat /\ Len(Append(fs, g)) = n + 1
    BY <1>4
  <2>2. h \in 0..n /\ e[h] <= l /\ (h < n => l < e[h + 1])
    BY <1>4 DEF Ended
  <2>3. l <= z /\ z \in Nat /\ l \in Nat /\ m \in Nat
    BY <1>4, <1>5 DEF Begins
  <2>4. \A k \in 0..n : k \in 0..n + 1 /\ d[k] = e[k]
    BY <1>9, <2>1 DEF More
  <2>5. d[n + 1] = z + m + 1
    BY <1>9, <2>1 DEF More
  <2> HIDE DEF n, l, h, z, m
  <2>6. h \in 0..n + 1 /\ d[h] <= l
    BY <2>1, <2>2, <2>4
  <2>7. l < d[h + 1]
    <3>1. CASE h < n
      <4>1. h + 1 \in 0..n
        BY <2>1, <2>2, <3>1
      <4> QED BY <2>2, <2>4, <3>1, <4>1
    <3>2. CASE ~(h < n)
      <4>1. h = n
        BY <2>1, <2>2, <3>2
      <4>2. l < z + m + 1
        BY <2>3
      <4> QED BY <2>5, <4>1, <4>2
    <3> QED BY <3>1, <3>2
  <2> QED BY <2>1, <2>6, <2>7 DEF Ended, n, l, h
<1>12. Begins(received, t, ey)
  BY <1>4, <1>7, <1>8, BeginsOn
<1>13. ASSUME NEW at, Follow(at) PROVE Follow(at)'
  <2>1. Under(wire, s, at, ex) /\ at[0] = Len(received) /\ (connected => at[Len(wire)] = Len(s) - Unsent)
    BY <1>3, <1>13 DEF Follow
  <2>2. Under(wire, t, at, ey)
    BY <1>1, <1>4, <1>7, <1>8, <2>1, UnderOn
  <2>3. connected' => at[Len(wire)] = Len(t) - Unsent'
    <3> SUFFICES ASSUME connected' PROVE at[Len(wire)] = Len(t) - Unsent'
      OBVIOUS
    <3>1. PICK z, m, u, v : z = Len(s) /\ m = Len(g.ops) /\ u = Unsent /\ v = Unsent'
      OBVIOUS
    <3>2. z \in Nat /\ m \in Nat /\ u = 0 /\ v = m + 1
      BY <1>4, <1>5, <3>1
    <3>3. z - u = z + m + 1 - v
      BY <3>2
    <3> QED BY SMTT(30), <1>7, <2>1, <3>1, <3>3
  <2> QED BY <1>3, <1>6, <2>1, <2>2, <2>3 DEF Follow
<1>14. server' \in {"off", "receive"} => \E at : Follow(at)'
  BY <1>1, <1>13
<1>15. Begins(received', AllOf', Excuses') /\ OpenOn(sfd', received')
  BY <1>1, <1>3, <1>6, <1>12
<1>16. Marks(Sent', AllOf', d) /\ Ended(handled', Sent', d, received')
  BY <1>5, <1>6, <1>10, <1>11
<1>17. wire' \in Seq(Packets) /\ server' # "done"
  BY <1>1
<1> QED BY <1>14, <1>15, <1>16, <1>17 DEF StreamInv

\* A message is received, and what it carries is handled.
LEMMA StreamReceived ==
  ASSUME StreamInv, offered \in Seq(Files), faults \in 0..MaxFaults, ReceiveChunk
  PROVE  /\ StreamInv' /\ server' \in {"receive", "failed"}
         /\ faults' \in 0..MaxFaults /\ (faults > 0 => faults' > 0)
         /\ \/ UNCHANGED received
            \/ Len(received) <= Len(received') /\ server' = "receive"
<1>0. faults' \in 0..MaxFaults /\ (faults > 0 => faults' > 0)
  <2>1. \E ok \in BOOLEAN : Outcome(ok)
    BY DEF ReceiveChunk
  <2> QED BY <2>1, OutcomeFacts
<1>1. /\ server = "receive" /\ wire # <<>> /\ wire' = Tail(wire)
      /\ UNCHANGED <<snapshot, offered, connected, phase, opstart, operations>>
  BY DEF ReceiveChunk, filevars, chunkvars
<1>2. PICK c : /\ c = UnpackFileChunk(Head(wire).cells)
               /\ \/ HandleChunk(c) /\ server' = server /\ Head(wire).whole /\ faults' = faults
                  \/ server' = "failed" /\ UNCHANGED <<handled, sfd, received>>
  BY DEF ReceiveChunk, Outcome
<1>3. /\ wire \in Seq(Packets) /\ Begins(received, AllOf, Excuses) /\ OpenOn(sfd, received)
      /\ \E at : Follow(at)
  BY <1>1 DEF StreamInv
<1>4. PICK e : Marks(Sent, AllOf, e) /\ Ended(handled, Sent, e, received)
  BY DEF StreamInv
<1>5. PICK at : Follow(at)
  BY <1>3
<1>6. PICK s, ex, fs : s = AllOf /\ ex = Excuses /\ fs = Sent
  OBVIOUS
<1>7. /\ s \in Seq(Items) /\ Len(s) \in Nat /\ fs \in Seq(PlainFiles)
      /\ Marks(fs, s, e) /\ Ended(handled, fs, e, received) /\ Begins(received, s, ex)
      /\ Under(wire, s, at, ex) /\ at[0] = Len(received)
      /\ connected => at[Len(wire)] = Len(s) - Unsent
  BY <1>3, <1>4, <1>5, <1>6, StreamType DEF Follow
<1>8. AllOf' = s /\ Sent' = fs /\ Unsent' = Unsent /\ (faults' = faults => Excuses' = ex)
  BY <1>1, <1>6, OfferedSame DEF Excuses, Unsent, Busy
<1>9. PICK b : b = [k \in 0..Len(wire) - 1 |-> at[k + 1]]
  OBVIOUS
<1>10. /\ Tail(wire) \in Seq(Packets) /\ Len(Tail(wire)) = Len(wire) - 1 /\ Len(wire) \in Nat \ {0}
       /\ Under(Tail(wire), s, b, ex) /\ b[0] = at[1] /\ b[Len(wire) - 1] = at[Len(wire)]
       /\ Head(wire) \in Packets /\ Carries(Head(wire), s, at[0], at[1], ex)
       /\ at[0] \in Nat /\ at[1] \in Nat
  BY <1>1, <1>3, <1>7, <1>9, UnderTail
<1>11. CASE server' = "failed" /\ UNCHANGED <<handled, sfd, received>>
  <2>1. PICK ey : ey = Excuses'
    OBVIOUS
  <2>2. ex \subseteq ey /\ Len(s) <= Len(s)
    BY <1>0, <1>1, <1>6, <1>7, <2>1, ExcusesGrow
  <2>3. Begins(received, s, ey)
    BY <1>7, <2>2, BeginsOn
  <2>4. StreamInv'
    BY <1>1, <1>3, <1>6, <1>7, <1>8, <1>10, <1>11, <2>1, <2>3 DEF StreamInv
  <2> QED BY <1>0, <1>11, <2>4
<1>12. CASE HandleChunk(c) /\ server' = server /\ Head(wire).whole /\ faults' = faults
  <2>1. PICK x \in Chunks : Head(wire).cells = PackFileChunk(x) /\ PartOf(x, s, Len(received), at[1], ex)
    BY <1>7, <1>10 DEF Carries
  <2>2. c = x
    BY <1>2, <2>1, ChunkArrives
  <2>3. /\ \E fds \in {Descriptors(x)} :
             received' = received
               \o [k \in DOMAIN x.ops |-> [path |-> x.path, op |-> x.ops[k], to |-> fds[k]]]
               \o (IF x.last THEN <<[path |-> x.path, op |-> End]>> ELSE <<>>)
        /\ handled' = IF x.last THEN handled + 1 ELSE handled
        /\ sfd' = IF x.last THEN Nowhere ELSE Descriptors(x)[Len(x.ops)]
    BY <1>12, <2>2 DEF HandleChunk
  <2>4. Handles(x, received, received')
    BY <2>3 DEF Handles
  <2>5. PICK l, u, j, h : l = received /\ u = received' /\ j = at[1] /\ h = handled
    OBVIOUS
  <2>6. /\ Begins(l, s, ex) /\ Ended(h, fs, e, l) /\ OpenOn(sfd, l) /\ PartOf(x, s, Len(l), j, ex)
        /\ Handles(x, l, u)
    BY <1>3, <1>7, <2>1, <2>4, <2>5
  <2>7. /\ Begins(u, s, ex) /\ Len(u) = j /\ Len(l) <= j
        /\ Ended(IF x.last THEN h + 1 ELSE h, fs, e, u)
        /\ OpenOn(IF x.last THEN Nowhere ELSE Descriptors(x)[Len(x.ops)], u)
    BY <1>7, <2>6, ReceivedKeeps
  <2>8. Begins(received', AllOf', Excuses') /\ OpenOn(sfd', received')
        /\ Marks(Sent', AllOf', e) /\ Ended(handled', Sent', e, received')
    BY <1>7, <1>8, <1>12, <2>3, <2>5, <2>7
  <2>9. Follow(b)'
    BY <1>1, <1>7, <1>8, <1>10, <1>12, <2>5, <2>7 DEF Follow
  <2>10. StreamInv'
    BY <1>1, <1>10, <1>12, <2>8, <2>9 DEF StreamInv
  <2> QED BY <1>0, <1>1, <1>12, <2>5, <2>7, <2>10
<1> QED BY <1>2, <1>11, <1>12

\* A break leaves the first messages.
LEMMA StreamBroken ==
  ASSUME StreamInv, TypeInv, offered \in Seq(Files), Break
  PROVE  StreamInv'
<1>1. /\ connected' = FALSE /\ UNCHANGED <<snapshot, offered, received, sfd, handled, server>>
      /\ Outcome(FALSE)
  BY DEF Break, filevars, servervars
<1>2. PICK n \in 0..Len(wire), part \in BOOLEAN :
        /\ part => n < Len(wire)
        /\ wire' = SubSeq(wire, 1, n)
                     \o (IF part THEN <<[wire[n + 1] EXCEPT !.whole = FALSE]>> ELSE <<>>)
  BY DEF Break
<1>3. /\ wire \in Seq(Packets) /\ Begins(received, AllOf, Excuses) /\ OpenOn(sfd, received)
      /\ server \in {"off", "receive"} => \E at : Follow(at)
      /\ server = "done" => Len(received) = Len(AllOf)
  BY DEF StreamInv
<1>4. PICK e : Marks(Sent, AllOf, e) /\ Ended(handled, Sent, e, received)
  BY DEF StreamInv
<1>5. PICK s, ex, ey, v : s = AllOf /\ ex = Excuses /\ ey = Excuses' /\ v = wire'
  OBVIOUS
<1>6. AllOf' = AllOf /\ Sent' = Sent /\ s \in Seq(Items) /\ Len(s) \in Nat
  BY <1>1, <1>5, OfferedSame, StreamType
<1>7. ex \subseteq ey
  <2>1. faults > 0 => faults' > 0
    BY <1>1, OutcomeFacts DEF TypeInv
  <2> QED BY <1>1, <1>5, <2>1, ExcusesGrow
<1>8. ASSUME NEW w, w = wire, NEW at, Under(w, s, at, ex)
      PROVE  Under(v, s, [k \in 0..Len(v) |-> at[k]], ex)
  BY <1>2, <1>3, <1>5, <1>8, UnderCut
<1>9. v \in Seq(Packets)
  BY <1>2, <1>3, <1>5, CutPackets
<1>10. Begins(received, s, ey)
  BY <1>3, <1>5, <1>6, <1>7, BeginsOn
<1>11. ASSUME NEW at, Follow(at) PROVE \E b : Follow(b)'
  <2>1. Under(wire, s, at, ex) /\ at[0] = Len(received)
    BY <1>5, <1>11 DEF Follow
  <2>2. PICK b : b = [k \in 0..Len(v) |-> at[k]]
    OBVIOUS
  <2>3. Under(v, s, b, ex)
    BY <1>8, <2>1, <2>2
  <2>4. Under(v, s, b, ey) /\ b[0] = at[0]
    <3>1. Len(s) <= Len(s) /\ 0 \in 0..Len(v)
      BY <1>6, <1>9
    <3>2. Under(v, s, b, ey)
      BY <1>6, <1>7, <1>9, <2>3, <3>1, UnderOn
    <3> QED BY <2>2, <3>1, <3>2
  <2>5. Follow(b)'
    BY <1>1, <1>5, <1>6, <2>1, <2>4 DEF Follow
  <2> QED BY <2>5
<1>12. Begins(received', AllOf', Excuses') /\ OpenOn(sfd', received')
       /\ Marks(Sent', AllOf', e) /\ Ended(handled', Sent', e, received')
  BY <1>1, <1>3, <1>4, <1>5, <1>6, <1>10
<1>13. server' \in {"off", "receive"} => \E b : Follow(b)'
  BY <1>1, <1>3, <1>11
<1> QED BY <1>1, <1>3, <1>5, <1>6, <1>9, <1>12, <1>13 DEF StreamInv

\* The file that comes out of the table is no longer in it, and the others still are.
LEMMA TakenFacts ==
  ASSUME NEW tb \in Tidy, tb.files # <<>>
  PROVE  LET f == First(tb.files)
             d == Deleted(tb, f.path)
         IN  /\ f \in Entries /\ f.ops # <<>> /\ Has(tb, f.path) /\ ~Has(d, f.path)
             /\ Len(d.files) = Len(tb.files) - 1 /\ Len(tb.files) \in Nat \ {0}
             /\ \A q : Has(d, q) => Has(tb, q)
<1> DEFINE s == tb.files
           f == First(s)
           d == Deleted(tb, f.path)
<1>1. tb \in ClientTables /\ Consistent(tb) /\ s \in Seq(Entries) /\ s # <<>>
  BY DEF Tidy, ClientTables
<1>2. PICK k \in DOMAIN s : f = s[k]
  BY <1>1, FirstFacts
<1> HIDE DEF f
<1>3. f \in Entries /\ f.ops # <<>> /\ Has(tb, f.path)
  BY <1>1, <1>2 DEF Consistent, Ranked, Has
<1> DEFINE i == CHOOSE j \in DOMAIN s : s[j].path = f.path
<1>4. i \in DOMAIN s
  BY <1>3 DEF Has
<1>5. d = [tb EXCEPT !.files = RemoveAt(@, i)]
  BY <1>3 DEF Deleted
<1> HIDE DEF i, d
<1>6. d.files = RemoveAt(s, i)
  BY <1>1, <1>5 DEF ClientTables
<1>7. Len(d.files) = Len(s) - 1
  BY <1>1, <1>4, <1>6, RemoveAtFacts
<1>8. ~Has(d, f.path)
  BY <1>1, DeletedKeeps DEF d
<1>9. \A q : Has(d, q) => Has(tb, q)
  <2>1. PICK g \in [DOMAIN d.files -> DOMAIN tb.files] : \A j \in DOMAIN d.files : d.files[j] = tb.files[g[j]]
    BY <1>1, DeletedFacts DEF d
  <2> QED BY <2>1 DEF Has
<1>10. Len(s) \in Nat \ {0}
  BY <1>1
<1> QED BY <1>3, <1>7, <1>8, <1>9, <1>10 DEF d, f

\* The next file.
LEMMA BeginOurs ==
  ASSUME Ours, ClientInv, BeginFile, UNCHANGED stage
  PROVE  Ours'
<1>1. PICK ok \in BOOLEAN :
        /\ phase = "next" /\ tables.files # <<>> /\ Outcome(ok)
        /\ \E f \in {First(tables.files)} : \E os \in OptimizeOperations(f.ops) :
             /\ tables' = Deleted(tables, f.path)
             /\ operations' = os
             /\ offered' = Append(offered, [path |-> f.path, ops |-> os])
        /\ \/ phase' = "op" /\ UNCHANGED connected
           \/ phase' = "failed" /\ connected' = FALSE
        /\ cur' = 1 /\ opstart' = 1 /\ nops' = 0
        /\ UNCHANGED <<snapshot, cachevars, packing, wire, nfiles, servervars>>
  BY DEF BeginFile, Leaves
<1>2. PICK os \in OptimizeOperations(First(tables.files).ops) :
        /\ tables' = Deleted(tables, First(tables.files).path)
        /\ operations' = os
        /\ offered' = Append(offered, [path |-> First(tables.files).path, ops |-> os])
  BY <1>1
<1>3. tables \in Tidy /\ offered \in Seq(Files)
  BY DEF ClientInv
<1>4. PICK f : f = First(tables.files)
  OBVIOUS
<1>5. /\ f \in Entries /\ f.ops # <<>> /\ Has(tables, f.path) /\ ~Has(tables', f.path)
      /\ Len(tables'.files) = Len(tables.files) - 1 /\ Len(tables.files) \in Nat \ {0}
      /\ \A q : Has(tables', q) => Has(tables, q)
  BY <1>1, <1>2, <1>3, <1>4, TakenFacts
<1>6. f.path \in Paths /\ os \in Seq(Ops) /\ os # <<>> /\ Len(os) \in Nat \ {0}
  <2>1. f.path \in Paths /\ f.ops \in Seq(Ops)
    BY <1>5 DEF Entries
  <2>2. os \in Seq(Ops) /\ os # <<>>
    BY <1>2, <1>4, <1>5, <2>1, OptimizedFacts DEF Left
  <2> QED BY <2>1, <2>2
<1> DEFINE x == [path |-> f.path, ops |-> os]
<1>7. x \in Files /\ x.path = f.path /\ x.ops = os /\ offered' = Append(offered, x)
  BY <1>2, <1>4, <1>6 DEF Files
<1> HIDE DEF x
<1>8. Last(offered') = x /\ offered' # <<>> /\ Len(offered') = Len(offered) + 1 /\ Path' = f.path
  <2>1. Len(offered') = Len(offered) + 1 /\ offered'[Len(offered) + 1] = x /\ offered' # <<>>
    BY <1>3, <1>7
  <2>2. Last(offered') = x
    BY <2>1 DEF Last
  <2> QED BY <1>7, <2>1, <2>2 DEF Path
<1>9. /\ TypeInv /\ OffInv /\ CacheInv /\ StreamInv
  BY DEF Ours
<1>10. faults' \in 0..MaxFaults /\ (faults > 0 => faults' > 0)
  BY <1>1, <1>9, OutcomeFacts DEF TypeInv
<1>11. TypeInv'
  BY <1>1, <1>9, <1>10 DEF TypeInv, Phases, cachevars, servervars
<1>12. server # "done"
  BY <1>1, <1>9 DEF OffInv
<1>13. OffInv'
  <2>1. nfiles' = Len(tables'.files) + Len(offered')
    <3>1. PICK a, b, c, d : a = Len(tables.files) /\ b = Len(offered) /\ c = Len(tables'.files) /\ d = Len(offered')
      OBVIOUS
    <3>2. nfiles = a + b /\ c = a - 1 /\ d = b + 1 /\ a \in Nat /\ b \in Nat
      BY <1>3, <1>5, <1>8, <1>9, <3>1 DEF OffInv
    <3>3. a + b = c + d
      BY <3>2
    <3> QED BY <1>1, <3>1, <3>2, <3>3
  <2> QED BY <1>1, <1>9, <1>12, <2>1 DEF OffInv, servervars
<1>14. BusyInv'
  BY <1>1, <1>2, <1>4, <1>5, <1>6, <1>7, <1>8 DEF BusyInv
<1>15. CacheInv'
  <2>1. InChunk' = {}
    BY <1>1 DEF InChunk
  <2>2. Excused(Excuses)'
    BY <2>1 DEF Excused
  <2>3. fd = Gone => Has(tables', stored) = FALSE /\ stored # f.path
    BY <1>5, <1>9 DEF CacheInv
  <2>4. stored' = stored /\ fd' = fd /\ snapshot' = snapshot
    BY <1>1 DEF cachevars
  <2> QED BY <1>8, <1>9, <1>10, <2>2, <2>3, <2>4 DEF CacheInv
<1>16. StreamInv'
  <2>1. connected' => connected /\ Unsent = 0 /\ Unsent' = Len(x.ops) + 1
    <3>1. Unsent = 0
      BY <1>1 DEF Unsent, Busy
    <3>2. phase' = "op" => Unsent' = IF 1 <= Len(os) THEN Len(os) + 2 - 1 ELSE 0
      BY <1>1, <1>2 DEF Unsent, Busy
    <3>3. Len(os) + 2 - 1 = Len(os) + 1 /\ 1 <= Len(os)
      BY <1>6
    <3> QED BY <1>1, <1>7, <3>1, <3>2, <3>3
  <2> QED BY <1>1, <1>3, <1>7, <1>9, <1>10, <1>12, <2>1, StreamMore DEF servervars
<1> QED BY <1>11, <1>13, <1>14, <1>15, <1>16 DEF Ours

\* A chunk is sent.
LEMMA SentOurs ==
  ASSUME Ours, ClientInv, UNCHANGED <<filevars, operations, pointers, cachevars, servervars, stage>>,
         Busy, NEW last \in BOOLEAN, NEW n \in Nat, NEW then \in {"load", "op", "next"},
         TransferChunk(last, n, then),
         cur' = IF phase = "full" THEN cur + 1 ELSE cur,
         opstart <= Len(operations), last => opstart + nops = Len(operations) + 1,
         ~last => then # "next" /\ n = opstart + nops /\ n <= Len(operations),
         last => then = "next" \/ n > Len(operations)
  PROVE  Ours'
<1>1. TypeInv /\ OffInv /\ BusyInv /\ CacheInv /\ StreamInv
  BY DEF Ours
<1>2. /\ faults' \in 0..MaxFaults /\ (faults > 0 => faults' > 0)
      /\ opstart' = n /\ nops' = 0 /\ phase' \in {then, "failed", "crashed"}
      /\ phase' # then => connected' = FALSE
      /\ connected' \in BOOLEAN /\ (connected' => connected)
  BY <1>1, SendFacts DEF TypeInv
<1>3. /\ UNCHANGED <<snapshot, tables, nfiles, offered, operations, stored, fd, server, handled,
                     sfd, received, stage>>
      /\ Path' = Path
  BY DEF filevars, cachevars, servervars, Path
<1>4. /\ ChunkInv /\ offered \in Seq(Files) /\ offered # <<>>
      /\ operations = Last(offered).ops
  BY <1>1 DEF ClientInv, BusyInv, Busy
<1>5. TypeInv'
  BY <1>1, <1>2, <1>3 DEF TypeInv, Phases
<1>6. OffInv'
  BY <1>1, <1>2, <1>3 DEF OffInv, Busy
<1>7. BusyInv'
  BY <1>1, <1>2, <1>3 DEF BusyInv
<1>8. CacheInv'
  <2>1. Excused(Excuses)'
    <3>1. InChunk' = {}
      <4>1. InChunk' = opstart'..(opstart' + nops' - 1)
        BY DEF InChunk
      <4>2. n..(n + 0 - 1) = {}
        OBVIOUS
      <4> QED BY <1>2, <4>1, <4>2
    <3> QED BY <3>1 DEF Excused
  <2>2. fd = Gone /\ Busy' /\ stored = Path => cur' > Len(operations) /\ phase' # "full"
    <3> SUFFICES ASSUME fd = Gone, Busy', stored = Path
                 PROVE  cur' > Len(operations) /\ phase' # "full"
      OBVIOUS
    <3>1. cur >= Len(operations) /\ (phase # "full" => cur > Len(operations))
      BY <1>1 DEF CacheInv
    <3>2. PICK a, b, c : a = Len(operations) /\ b = cur /\ c = cur'
      OBVIOUS
    <3>3. a \in Nat /\ b \in Nat
      BY <1>4, <3>2 DEF ChunkInv
    <3>4. c > a
      BY <3>1, <3>2, <3>3
    <3> QED BY <1>2, <3>2, <3>4
  <2>3. fd = Gone /\ Busy' /\ stored = Path => cur' >= Len(operations)
    <3>1. PICK a, c : a = Len(operations) /\ c = cur'
      OBVIOUS
    <3>2. a \in Nat /\ c \in Nat
      BY <1>4, <3>1 DEF ChunkInv
    <3>3. c > a => c >= a
      BY <3>2
    <3> QED BY <2>2, <3>1, <3>3
  <2> QED BY <1>1, <1>2, <1>3, <2>1, <2>2, <2>3 DEF CacheInv
<1>9. StreamInv'
  <2>1. connected' => Unsent' = IF last THEN 0 ELSE Len(operations) + 2 - (opstart + nops)
    <3> SUFFICES ASSUME connected'
                 PROVE  Unsent' = IF last THEN 0 ELSE Len(operations) + 2 - (opstart + nops)
      OBVIOUS
    <3>1. phase' = then
      BY <1>2
    <3>2. Unsent' = IF Busy' /\ n <= Len(operations) THEN Len(operations) + 2 - n ELSE 0
      BY <1>2, <1>3 DEF Unsent
    <3>3. Busy' <=> then # "next"
      BY <3>1 DEF Busy
    <3>4. CASE ~last
      BY <3>2, <3>3, <3>4
    <3>5. CASE last /\ then = "next"
      BY <3>2, <3>3, <3>5
    <3>6. CASE last /\ then # "next"
      <4>1. n > Len(operations)
        BY <3>6
      <4>2. PICK a : a = Len(operations)
        OBVIOUS
      <4>3. a \in Nat
        BY <1>4, <4>2 DEF ChunkInv
      <4>4. ~(n <= a)
        BY <4>1, <4>2, <4>3
      <4> QED BY <3>2, <3>6, <4>2, <4>4
    <3> QED BY <3>4, <3>5, <3>6
  <2> QED BY <1>1, <1>3, <1>4, <2>1, StreamSent
<1> QED BY <1>5, <1>6, <1>7, <1>8, <1>9 DEF Ours

\* What the descriptor is after a call, and why there is no data.
LEMMA LoadExcused ==
  ASSUME Cached, fd \in Paths \union {Nowhere, Gone}, snapshot \in [Paths -> Nat \union {-1}],
         NEW p \in Paths, NEW o \in Ops, o.type = "WRITE", NEW d \in DynData,
         NEW opens \in BOOLEAN, NEW ok \in BOOLEAN,
         (opens /\ ok) \/ faults' > 0,
         stored = p => fd # Gone /\ (fd = Nowhere => faults' > 0 \/ snapshot[p] = -1)
  PROVE  LET l == LoadWriteData(d, p, o, opens, ok)
         IN  /\ l.fd \in {p, Nowhere} /\ (l.fd = Nowhere => faults' > 0 \/ snapshot[p] = -1)
             /\ l.pointer = Null => faults' > 0 \/ o.offset + o.size > snapshot[p]
<1> DEFINE f == Opened(p, opens)
           g == Grown(d, o.size)
           l == LoadWriteData(d, p, o, opens, ok)
           at == [generation |-> g.generation, from |-> d.offset, length |-> o.size]
<1>1. o.offset \in Nat /\ o.size \in Nat
  BY SpanOf
<1>2. snapshot[p] \in Int
  OBVIOUS
<1>3. f \in {p, Nowhere} /\ (f = Nowhere => faults' > 0 \/ snapshot[p] = -1)
  BY TreeAssumption DEF Opened, Cached
<1>4. at # Null
  <2>1. g.generation \in Nat /\ d.offset \in Nat
    BY <1>1, GrownFacts DEF DynData
  <2>2. at \in [generation : Nat, from : Nat, length : Nat]
    BY <1>1, <2>1
  <2> QED BY <2>2, TransferAssumption
<1>5. ~Reads(f, o) => faults' > 0 \/ o.offset + o.size > snapshot[p]
  <2>1. CASE f = Nowhere
    <3>1. faults' > 0 \/ snapshot[p] = -1
      BY <1>3, <2>1
    <3> QED BY <1>1, <3>1
  <2>2. CASE f # Nowhere
    <3>1. f = p
      BY <1>3, <2>2
    <3> QED BY <1>1, <1>2, <3>1 DEF Reads
  <2> QED BY <2>1, <2>2
<1> HIDE DEF f, g, at
<1>6. CASE f = Nowhere /\ stored # p
  <2>1. l = [ok |-> FALSE, data |-> d, fd |-> f, pointer |-> Null]
    BY <1>6 DEF LoadWriteData, f
  <2>2. faults' > 0 \/ snapshot[p] = -1
    BY <1>3, <1>6
  <2>3. faults' > 0 \/ o.offset + o.size > snapshot[p]
    BY <1>1, <2>2
  <2> QED BY <1>3, <2>1, <2>3
<1>7. CASE ~(f = Nowhere /\ stored # p) /\ ~(ok /\ Reads(f, o))
  <2>1. l = [ok |-> FALSE, data |-> g, fd |-> f, pointer |-> Null]
    BY <1>7 DEF LoadWriteData, f, g
  <2> QED BY <1>3, <1>5, <1>7, <2>1
<1>8. CASE ~(f = Nowhere /\ stored # p) /\ ok /\ Reads(f, o)
  <2>1. l = [ok |-> TRUE, data |-> Filled(g, f, o), fd |-> f, pointer |-> at]
    BY <1>8 DEF LoadWriteData, f, g, at
  <2> QED BY <1>3, <1>4, <2>1
<1> QED BY <1>6, <1>7, <1>8

\* An operation comes into the chunk.
LEMMA LoadOurs ==
  ASSUME Ours, ClientInv, LoadOp, UNCHANGED stage
  PROVE  Ours'
<1> DEFINE Load(opens, ok) == IF Op.type = "WRITE" THEN LoadWriteData(dyndata, Path, Op, opens, ok)
                              ELSE [data |-> dyndata, fd |-> fd, pointer |-> Null]
           closes == Op.type = "WRITE" /\ cur = Len(operations)
<1>1. PICK opens, ok \in BOOLEAN :
        /\ Outcome(opens /\ ok)
        /\ \E load \in {Load(opens, ok)} :
             /\ pointers' = [pointers EXCEPT ![cur] = load.pointer]
             /\ stored' = IF Op.type = "WRITE" THEN Path ELSE stored
             /\ fd' = IF closes /\ load.fd # Nowhere THEN Gone ELSE load.fd
             /\ \/ phase' = "crashed" /\ connected' = FALSE /\ nops' = nops
                \/ nops' = nops + 1 /\ cur' = cur /\ phase' = "full" /\ connected' = connected
                \/ nops' = nops + 1 /\ cur' = cur + 1 /\ phase' = "op" /\ connected' = connected
  BY DEF LoadOp, Leaves
<1>2. PICK load \in {Load(opens, ok)} :
        /\ pointers' = [pointers EXCEPT ![cur] = load.pointer]
        /\ stored' = IF Op.type = "WRITE" THEN Path ELSE stored
        /\ fd' = IF closes /\ load.fd # Nowhere THEN Gone ELSE load.fd
        /\ \/ phase' = "crashed" /\ connected' = FALSE /\ nops' = nops
           \/ nops' = nops + 1 /\ cur' = cur /\ phase' = "full" /\ connected' = connected
           \/ nops' = nops + 1 /\ cur' = cur + 1 /\ phase' = "op" /\ connected' = connected
  BY <1>1
<1>3. /\ cur <= Len(operations) /\ phase \in {"op", "load"}
      /\ UNCHANGED <<snapshot, tables, nfiles, offered, operations, opstart, wire, server,
                     handled, sfd, received, stage>>
      /\ Path' = Path
  BY DEF LoadOp, AtOp, filevars, servervars, Path
<1>4. TypeInv /\ OffInv /\ BusyInv /\ CacheInv /\ StreamInv
  BY DEF Ours
<1>5. /\ operations \in Seq(Ops) /\ DOMAIN pointers = DOMAIN operations
      /\ cur \in Nat \ {0} /\ opstart \in Nat \ {0} /\ nops \in Nat
      /\ cur = opstart + nops /\ dyndata \in DynData /\ offered \in Seq(Files)
      /\ Cached /\ Len(operations) \in Nat
  BY <1>3 DEF ClientInv, ChunkInv
<1>6. Busy /\ operations = Last(offered).ops /\ ~Has(tables, Path) /\ offered # <<>>
      /\ operations # <<>>
  BY <1>3, <1>4 DEF BusyInv, Busy, ClientInv
<1>7. Path \in Paths /\ Path # Nowhere
  <2>1. Last(offered) \in Files
    BY <1>5, <1>6 DEF Last
  <2> QED BY <2>1, TreeAssumption DEF Path, Files
<1>8. Op \in Ops /\ Op = operations[cur] /\ cur \in 1..Len(operations)
      /\ DOMAIN operations = 1..Len(operations)
  BY <1>3, <1>5 DEF Op
<1>9. fd = Gone => stored # Path
  <2> SUFFICES ASSUME fd = Gone, stored = Path PROVE FALSE
    OBVIOUS
  <2>1. cur > Len(operations)
    BY <1>3, <1>4, <1>6 DEF CacheInv
  <2> QED BY <1>3, <1>5, <2>1
<1>12. faults' \in 0..MaxFaults /\ (faults > 0 => faults' > 0) /\ ((opens /\ ok) \/ faults' > 0)
  <2>1. PICK good \in BOOLEAN : good = (opens /\ ok)
    OBVIOUS
  <2>2. Outcome(good)
    BY <1>1, <2>1
  <2> QED BY <1>4, <2>1, <2>2, OutcomeFacts DEF TypeInv
<1>10. Op.type = "WRITE" =>
         /\ load.fd \in {Path, Nowhere} /\ (load.fd = Nowhere => faults' > 0 \/ snapshot[Path] = -1)
         /\ load.pointer = Null => faults' > 0 \/ Op.offset + Op.size > snapshot[Path]
  <2> SUFFICES ASSUME Op.type = "WRITE"
               PROVE  /\ load.fd \in {Path, Nowhere}
                      /\ load.fd = Nowhere => faults' > 0 \/ snapshot[Path] = -1
                      /\ load.pointer = Null => faults' > 0 \/ Op.offset + Op.size > snapshot[Path]
    OBVIOUS
  <2>1. load = LoadWriteData(dyndata, Path, Op, opens, ok)
    BY <1>2
  <2>2. stored = Path => fd # Gone /\ (fd = Nowhere => faults' > 0 \/ snapshot[Path] = -1)
    BY <1>4, <1>7, <1>9, <1>12 DEF CacheInv
  <2>3. fd \in Paths \union {Nowhere, Gone} /\ snapshot \in [Paths -> Nat \union {-1}]
    BY <1>4 DEF TypeInv
  <2> QED BY <1>5, <1>7, <1>8, <1>12, <2>1, <2>2, <2>3, LoadExcused
<1>11. Op.type # "WRITE" => load.fd = fd /\ ~closes
  BY <1>2
<1>13. Gone \notin Paths \union {Nowhere}
  BY TransferAssumption
<1> HIDE DEF Load
<1>14. TypeInv'
  <2>1. phase' \in Phases /\ connected' \in BOOLEAN
    BY <1>2, <1>4 DEF TypeInv, Phases
  <2>2. stored' \in Paths \union {Nowhere} /\ fd' \in Paths \union {Nowhere, Gone}
    BY <1>2, <1>4, <1>7, <1>10, <1>11 DEF TypeInv
  <2> QED BY <1>3, <1>4, <1>12, <2>1, <2>2 DEF TypeInv
<1>15. OffInv'
  BY <1>2, <1>3, <1>4 DEF OffInv
<1>16. BusyInv'
  <2>1. phase' = "full" => cur' + 1 = opstart' + nops' /\ nops' # 0 /\ cur' <= Len(operations')
    <3> SUFFICES ASSUME phase' = "full"
                 PROVE  cur' + 1 = opstart' + nops' /\ nops' # 0 /\ cur' <= Len(operations')
      OBVIOUS
    <3>1. nops' = nops + 1 /\ cur' = cur
      BY <1>2
    <3>2. cur + 1 = opstart + (nops + 1) /\ nops + 1 # 0
      BY <1>5
    <3> QED BY <1>3, <3>1, <3>2
  <2> QED BY <1>3, <1>6, <2>1 DEF BusyInv
<1>17. Excused(Excuses)'
  <2> SUFFICES ASSUME NEW k \in InChunk', operations[k].type = "WRITE", pointers'[k] = Null
               PROVE  <<Path, operations[k].offset + operations[k].size>> \in Excuses'
    BY <1>3 DEF Excused
  <2>1. k \in InChunk \/ (k = cur /\ nops' = nops + 1)
    <3>1. k \in opstart..opstart + nops' - 1
      BY <1>3 DEF InChunk
    <3>2. CASE nops' = nops
      BY <3>1, <3>2 DEF InChunk
    <3>3. CASE nops' = nops + 1
      BY <1>5, <3>1, <3>3 DEF InChunk
    <3> QED BY <1>2, <3>2, <3>3
  <2>2. CASE k \in InChunk
    <3>1. k # cur /\ k \in DOMAIN pointers
      BY <1>3, <1>5, <1>8, <2>2 DEF InChunk
    <3>2. pointers[k] = Null
      BY <1>2, <3>1
    <3>3. <<Path, operations[k].offset + operations[k].size>> \in Excuses
      BY <1>4, <2>2, <3>2 DEF CacheInv, Excused
    <3> QED BY <1>3, <1>12, <3>3, ExcusesGrow
  <2>3. CASE k = cur
    <3>1. pointers'[cur] = load.pointer
      BY <1>2, <1>5, <1>8
    <3>2. faults' > 0 \/ Op.offset + Op.size > snapshot[Path]
      BY <1>8, <1>10, <2>3, <3>1
    <3>3. Op.offset + Op.size \in Nat
      <4>1. Op.offset \in Nat /\ Op.size \in Nat
        BY <1>8, <2>3, SpanOf
      <4> QED BY <4>1
    <3> QED BY <1>3, <1>7, <1>8, <2>3, <3>2, <3>3 DEF Excuses
  <2> QED BY <2>1, <2>2, <2>3
<1>18. CacheInv'
  <2>1. CASE Op.type # "WRITE"
    <3>1. stored' = stored /\ fd' = fd
      BY <1>2, <1>11, <2>1
    <3> QED BY <1>3, <1>4, <1>9, <1>12, <1>17, <3>1 DEF CacheInv
  <2>2. CASE Op.type = "WRITE"
    <3>1. stored' = Path
      BY <1>2, <2>2
    <3>2. fd' = Nowhere => faults' > 0 \/ snapshot[Path] = -1
      BY <1>2, <1>10, <1>13, <2>2
    <3>3. fd' = Gone /\ Busy' => cur' >= Len(operations) /\ (phase' # "full" => cur' > Len(operations))
      <4> SUFFICES ASSUME fd' = Gone, Busy'
                   PROVE  cur' >= Len(operations) /\ (phase' # "full" => cur' > Len(operations))
        OBVIOUS
      <4>1. cur = Len(operations)
        BY <1>2, <1>7, <1>10, <1>13, <2>2
      <4>2. (cur' = cur /\ phase' = "full") \/ cur' = cur + 1
        BY <1>2 DEF Busy
      <4>3. cur >= Len(operations) /\ cur + 1 > Len(operations) /\ cur + 1 >= Len(operations)
        BY <1>5, <4>1
      <4> QED BY <4>2, <4>3
    <3> QED BY <1>3, <1>6, <1>7, <1>17, <3>1, <3>2, <3>3 DEF CacheInv
  <2> QED BY <2>1, <2>2
<1>19. StreamInv'
  <2>1. connected' => connected /\ Unsent' = Unsent
    BY <1>2, <1>3, <1>6 DEF Unsent, Busy
  <2> QED BY <1>3, <1>4, <1>5, <1>12, <2>1, StreamQuiet
<1> QED BY <1>14, <1>15, <1>16, <1>18, <1>19 DEF Ours

\* Steps that leave the file that is sent, and the descriptor, as they are.
LEMMA QuietOurs ==
  ASSUME Ours, StreamInv',
         UNCHANGED <<snapshot, tables, nfiles, offered, operations, pointers, opstart, nops, cur,
                     stored, fd>>,
         faults' \in 0..MaxFaults, faults > 0 => faults' > 0,
         phase' = phase \/ (phase # "off" /\ phase' \in {"next", "wait", "done", "failed"}),
         connected' \in BOOLEAN, server' \in {"off", "receive", "done", "failed"},
         server = "off" <=> server' = "off",
         phase' # "off" => stage' = "loaded",
         phase' = "off" => UNCHANGED <<received, wire, handled, sfd>>,
         server' = "done" => tables.files = <<>> /\ handled' = nfiles
  PROVE  Ours'
<1>1. TypeInv /\ OffInv /\ BusyInv /\ CacheInv
  BY DEF Ours
<1>2. Path' = Path
  BY DEF Path
<1>3. TypeInv'
  BY <1>1 DEF TypeInv, Phases
<1>4. OffInv'
  BY <1>1 DEF OffInv
<1>5. Busy' => Busy /\ phase' = phase
  BY DEF Busy
<1>6. BusyInv'
  BY <1>1, <1>2, <1>5 DEF BusyInv
<1>7. Excused(Excuses)'
  <2>1. Excuses \subseteq Excuses'
    BY ExcusesGrow
  <2>2. InChunk' = InChunk
    BY DEF InChunk
  <2>3. Excused(Excuses)
    BY <1>1 DEF CacheInv
  <2> QED BY <1>2, <2>1, <2>2, <2>3 DEF Excused
<1>8. CacheInv'
  BY <1>1, <1>2, <1>5, <1>7 DEF CacheInv
<1> QED BY <1>3, <1>4, <1>6, <1>8 DEF Ours

\* What the file system and loadLog() do does not concern the two.
LEMMA RecordOurs ==
  ASSUME Ours, ClientInv, LNext, UNCHANGED tvars
  PROVE  Ours'
<1>1. faults' \in 0..MaxFaults /\ (faults > 0 => faults' > 0)
  <2>1. faults \in 0..MaxFaults
    BY DEF Ours, TypeInv
  <2>2. (\E good \in BOOLEAN : Outcome(good)) \/ faults' = faults
    <3>1. ASSUME NEW r \in Records, LogGeneric(r) PROVE \E good \in BOOLEAN : Outcome(good)
      <4>1. PICK ok \in BOOLEAN, n \in 0..Len(Frame(PackFileOperation(r))) :
              Outcome(ok /\ ~(PackResult(buffer, PackedSize(PackFileOperation(r)), ok) = "packed"
                               /\ n < Len(Frame(PackFileOperation(r)))))
        BY <3>1 DEF LogGeneric
      <4> QED BY <4>1
    <3>2. ASSUME NEW n, GoDown(n) PROVE Outcome(FALSE)
      BY <3>2 DEF GoDown
    <3> QED BY <3>1, <3>2 DEF LNext, Mount, Switched, LoadRecord, LoadFails
  <2> QED BY <2>1, <2>2, OutcomeFacts
<1>2. stage = "loaded" => stage' = "loaded"
  <2>1. ASSUME NEW r, LogGeneric(r) PROVE stage' = stage
    BY <2>1 DEF LogGeneric, reader
  <2>2. ASSUME NEW n, GoDown(n) PROVE stage' = stage
    BY <2>2 DEF GoDown, reader
  <2> QED BY <2>1, <2>2 DEF LNext, Mount, Switched, LoadRecord, LoadFails, reader
<1>3. TypeInv /\ OffInv /\ StreamInv /\ offered \in Seq(Files)
  BY DEF Ours, ClientInv
<1>4. Unsent' = Unsent
  BY DEF tvars, Unsent, Busy
<1>5. StreamInv'
  BY <1>1, <1>3, <1>4, StreamQuiet DEF tvars
<1>6. /\ UNCHANGED <<snapshot, tables, nfiles, offered, operations, pointers, opstart, nops, cur,
                     stored, fd, phase, connected, server, received, wire, handled, sfd>>
  BY DEF tvars
<1> QED BY <1>1, <1>2, <1>3, <1>5, <1>6, QuietOurs DEF TypeInv, OffInv

\* The client connects, and what it is to send is known.
LEMMA ConnectOurs ==
  ASSUME Ours, ClientInv, ClientInv', Connect
  PROVE  Ours'
<1>1. /\ stage = "loaded" /\ phase = "off" /\ snapshot' \in Snapshots
      /\ nfiles' = Len(tables'.files) /\ phase' = "next" /\ server' = "receive"
      /\ UNCHANGED <<chunkvars, cachevars, packing, wire, connected, handled, sfd,
                     offered, received, faults>> /\ UNCHANGED lvars
  BY DEF Connect, StartTransfer
<1>2. TypeInv /\ OffInv /\ CacheInv /\ StreamInv /\ offered \in Seq(Files)
  BY DEF Ours, ClientInv
<1>3. /\ offered = <<>> /\ received = <<>> /\ wire = <<>> /\ handled = 0
      /\ stored = Nowhere /\ fd = Nowhere /\ sfd = Nowhere /\ nops = 0 /\ server = "off"
  BY <1>1, <1>2 DEF OffInv
<1>4. UNCHANGED <<offered, received, wire, handled, sfd, nops, opstart, connected, faults,
                  stored, fd, operations, stage>>
  BY <1>1 DEF chunkvars, cachevars, lvars
<1>5. Sent' = Sent /\ AllOf' = AllOf /\ Unsent' = 0 /\ Unsent = 0
  BY <1>1, <1>4, OfferedSame DEF Unsent, Busy
<1>6. TypeInv'
  <2>1. snapshot' \in [Paths -> Nat \union {-1}]
    BY <1>1, TransferAssumption
  <2> QED BY <1>1, <1>2, <1>4, <2>1 DEF TypeInv, Phases
<1>7. OffInv'
  <2>1. Len(tables'.files) = Len(tables'.files) + 0
    <3>1. tables'.files \in Seq(Entries)
      BY DEF ClientInv, Tidy, ClientTables
    <3>2. Len(tables'.files) \in Nat
      BY <3>1
    <3> QED BY <3>2
  <2> QED BY <1>1, <1>3, <1>4, <2>1 DEF OffInv
<1>8. BusyInv'
  BY <1>1 DEF BusyInv, Busy
<1>9. CacheInv'
  <2>1. InChunk' = {}
    <3>1. InChunk' = opstart'..(opstart' + nops' - 1) /\ nops' = 0
      BY <1>3, <1>4 DEF InChunk
    <3>2. opstart \in Nat
      BY DEF ClientInv, ChunkInv
    <3>3. opstart..(opstart + 0 - 1) = {}
      BY <3>2
    <3> QED BY <1>4, <3>1, <3>3
  <2>2. Excused(Excuses)'
    BY <2>1 DEF Excused
  <2>3. Gone # Nowhere /\ Nowhere \notin Paths
    BY TransferAssumption, TreeAssumption
  <2> QED BY <1>3, <1>4, <2>2, <2>3 DEF CacheInv
<1>10. StreamInv'
  <2>1. /\ OpenOn(sfd, received) /\ wire \in Seq(Packets)
        /\ \E e : Marks(Sent, AllOf, e) /\ Ended(handled, Sent, e, received)
    BY <1>2 DEF StreamInv
  <2>2. PICK at : Follow(at)
    BY <1>2, <1>3 DEF StreamInv
  <2>3. Follow(at)'
    <3>1. Under(wire, AllOf, at, Excuses')
      <4>1. Len(wire) = 0 /\ 1..0 = {}
        BY <1>3
      <4>2. at \in [0..Len(wire) -> Nat]
        BY <2>2 DEF Follow, Under
      <4> QED BY <4>1, <4>2 DEF Under
    <3> QED BY <1>4, <1>5, <2>2, <3>1 DEF Follow
  <2>4. Begins(received, AllOf, Excuses')
    <3>1. Len(received) = 0 /\ 1..0 = {} /\ received \in Seq(GotItems) /\ Len(received) <= Len(AllOf)
      BY <1>2, <1>3 DEF StreamInv, Begins
    <3> QED BY <3>1 DEF Begins
  <2> QED BY <1>1, <1>4, <1>5, <2>1, <2>3, <2>4 DEF StreamInv
<1> QED BY <1>6, <1>7, <1>8, <1>9, <1>10 DEF Ours

\* All files are at an end: the server has all of the stream.
LEMMA FinishFacts ==
  ASSUME Ours, ClientInv, handled = nfiles
  PROVE  tables.files = <<>> /\ Len(received) = Len(AllOf)
<1>1. PICK e : Marks(Sent, AllOf, e) /\ Ended(handled, Sent, e, received)
  BY DEF Ours, StreamInv
<1>2. Len(Sent) = Len(offered) /\ Len(AllOf) \in Nat /\ offered \in Seq(Files)
  BY StreamType DEF ClientInv
<1>3. tables.files \in Seq(Entries) /\ Len(tables.files) \in Nat
  <2>1. tables.files \in Seq(Entries)
    BY DEF ClientInv, Tidy, ClientTables
  <2> QED BY <2>1
<1>4. PICK a, b, n : a = Len(tables.files) /\ b = Len(offered) /\ n = handled
  OBVIOUS
<1>5. a \in Nat /\ b \in Nat /\ n = a + b /\ n \in 0..b /\ e[n] <= Len(received) /\ e[b] = Len(AllOf)
  BY <1>1, <1>2, <1>3, <1>4 DEF Ours, OffInv, Ended, Marks
<1>6. a = 0 /\ n = b
  BY <1>5
<1>7. Len(received) <= Len(AllOf) /\ Len(received) \in Nat
  BY DEF Ours, StreamInv, Begins
<1>8. tables.files = <<>>
  <2>1. PICK l : l = tables.files
    OBVIOUS
  <2>2. l \in Seq(Entries) /\ Len(l) = 0
    BY <1>3, <1>4, <1>6, <2>1
  <2>3. l = <<>>
    BY <2>2
  <2> QED BY <2>1, <2>3
<1>9. Len(AllOf) <= Len(received)
  BY <1>4, <1>5, <1>6
<1> QED BY <1>2, <1>7, <1>8, <1>9

LEMMA ServerOurs ==
  ASSUME Ours, ClientInv, Server, UNCHANGED stage
  PROVE  Ours'
<1>1. TypeInv /\ OffInv /\ StreamInv /\ offered \in Seq(Files)
  BY DEF Ours, ClientInv
<1>2. /\ server = "receive"
      /\ UNCHANGED <<snapshot, tables, nfiles, offered, operations, pointers, opstart, nops, cur,
                     stored, fd, phase, connected>>
      /\ ~ReceiveChunk => faults' = faults
  BY DEF Server, ReceiveChunk, ReceiveNothing, Finish, filevars, chunkvars, cachevars
<1>3. phase # "off" /\ stage = "loaded" /\ connected \in BOOLEAN /\ faults \in 0..MaxFaults
      /\ Unsent' = Unsent
  BY <1>1, <1>2 DEF OffInv, TypeInv, Unsent, Busy
<1>4. CASE ReceiveChunk
  <2>1. StreamInv' /\ server' \in {"receive", "failed"}
          /\ faults' \in 0..MaxFaults /\ (faults > 0 => faults' > 0)
    BY <1>1, <1>3, <1>4, StreamReceived
  <2> QED BY <1>2, <1>3, <2>1, QuietOurs
<1>5. CASE ReceiveNothing
  <2>1. server' = "failed" /\ UNCHANGED <<wire, handled, sfd, received, faults>>
    BY <1>5 DEF ReceiveNothing
  <2>2. StreamInv'
    BY <1>1, <1>2, <1>3, <2>1, StreamQuiet
  <2> QED BY <1>2, <1>3, <2>1, <2>2, QuietOurs
<1>6. CASE Finish
  <2>1. server' = "done" /\ handled = nfiles
        /\ UNCHANGED <<wire, handled, sfd, received, faults>>
    BY <1>6 DEF Finish
  <2>2. tables.files = <<>> /\ Len(received) = Len(AllOf)
    BY <2>1, FinishFacts
  <2>3. StreamInv'
    <3>1. Sent' = Sent /\ AllOf' = AllOf /\ Excuses' = Excuses
      BY <1>2, <2>1, OfferedSame DEF Excuses
    <3> QED BY <1>1, <2>1, <2>2, <3>1 DEF StreamInv
  <2> QED BY <1>2, <1>3, <2>1, <2>2, <2>3, QuietOurs
<1> QED BY <1>4, <1>5, <1>6 DEF Server

LEMMA BreakOurs ==
  ASSUME Ours, ClientInv, Break, UNCHANGED stage
  PROVE  Ours'
<1>1. TypeInv /\ OffInv /\ StreamInv /\ offered \in Seq(Files)
  BY DEF Ours, ClientInv
<1>2. /\ phase # "off" /\ Outcome(FALSE) /\ connected' = FALSE
      /\ UNCHANGED <<snapshot, tables, nfiles, offered, operations, pointers, opstart, nops, cur,
                     stored, fd, phase, server, handled, sfd, received>>
  BY DEF Break, filevars, chunkvars, cachevars, servervars
<1>3. faults' \in 0..MaxFaults /\ (faults > 0 => faults' > 0)
  BY <1>1, <1>2, OutcomeFacts DEF TypeInv
<1>4. StreamInv'
  BY <1>1, StreamBroken
<1>5. server \in {"off", "receive", "done", "failed"} /\ stage = "loaded"
      /\ (server = "done" => tables.files = <<>> /\ handled = nfiles)
  BY <1>1, <1>2 DEF TypeInv, OffInv
<1> QED BY <1>2, <1>3, <1>4, <1>5, QuietOurs

LEMMA ClientOurs ==
  ASSUME Ours, ClientInv, Client, UNCHANGED stage
  PROVE  Ours'
<1>1. TypeInv /\ OffInv /\ BusyInv /\ StreamInv /\ offered \in Seq(Files)
  BY DEF Ours, ClientInv
<1>2. /\ operations \in Seq(Ops) /\ Len(operations) \in Nat /\ ChunkInv
      /\ cur \in Nat \ {0} /\ opstart \in Nat \ {0} /\ nops \in Nat
      /\ opstart + nops <= Len(operations) + 1
      /\ phase \in {"op", "load"} => cur = opstart + nops
      /\ phase = "full" => cur + 1 = opstart + nops /\ nops # 0 /\ cur <= Len(operations)
  BY <1>1 DEF ClientInv, ChunkInv, BusyInv, Busy
<1>3. CASE BeginFile
  BY <1>3, BeginOurs
<1>4. CASE Flush
  <2>1. /\ cur <= Len(operations) /\ phase = "op" /\ TransferChunk(FALSE, cur, "load")
        /\ UNCHANGED <<filevars, operations, cur, pointers, cachevars, servervars>>
    BY <1>4 DEF Flush, AtOp
  <2>2. Busy /\ opstart <= Len(operations) /\ cur = opstart + nops
    BY <1>2, <2>1 DEF Busy
  <2> QED BY <1>2, <2>1, <2>2, SentOurs
<1>5. CASE LoadOp
  BY <1>5, LoadOurs
<1>6. CASE FlushFull
  <2>1. /\ cur <= Len(operations) /\ phase = "full"
        /\ TransferChunk(cur = Len(operations), cur + 1, "op")
        /\ cur' = cur + 1 /\ UNCHANGED <<filevars, operations, pointers, cachevars, servervars>>
    BY <1>6 DEF FlushFull, AtOp
  <2>2. Busy /\ opstart <= Len(operations) /\ cur + 1 = opstart + nops /\ cur + 1 \in Nat
    BY <1>2, <2>1 DEF Busy
  <2>3. CASE cur = Len(operations)
    <3>1. TransferChunk(TRUE, cur + 1, "op")
      <4>1. (cur = Len(operations)) = TRUE
        BY <2>3
      <4> QED BY <2>1, <4>1
    <3>2. opstart + nops = Len(operations) + 1 /\ cur + 1 > Len(operations)
      BY <1>2, <2>2, <2>3
    <3> QED BY <2>1, <2>2, <3>1, <3>2, SentOurs
  <2>4. CASE cur # Len(operations)
    <3>1. TransferChunk(FALSE, cur + 1, "op")
      <4>1. (cur = Len(operations)) = FALSE
        BY <2>4
      <4> QED BY <2>1, <4>1
    <3>2. cur + 1 <= Len(operations)
      BY <1>2, <2>1, <2>4
    <3> QED BY <2>1, <2>2, <3>1, <3>2, SentOurs
  <2> QED BY <2>3, <2>4
<1>7. CASE EndFile /\ nops > 0
  <2>1. /\ phase = "op" /\ cur > Len(operations) /\ TransferChunk(TRUE, opstart, "next")
        /\ UNCHANGED <<filevars, operations, cur, pointers, cachevars, servervars>>
    BY <1>7 DEF EndFile
  <2>2. Busy /\ opstart <= Len(operations) /\ opstart + nops = Len(operations) + 1
    <3>1. cur = opstart + nops /\ nops > 0
      BY <1>2, <1>7, <2>1
    <3> QED BY <1>2, <2>1, <3>1 DEF Busy
  <2> QED BY <1>2, <2>1, <2>2, SentOurs
<1>8. CASE (EndFile /\ ~(nops > 0)) \/ EndFiles \/ Confirmed
  <2>1. /\ phase' \in {"next", "wait", "done", "failed"} /\ phase # "off"
        /\ connected' \in BOOLEAN /\ (connected' => connected)
        /\ UNCHANGED <<filevars, chunkvars, cachevars, servervars, wire, faults>>
    <3>1. connected \in BOOLEAN
      BY <1>1 DEF TypeInv
    <3>2. CASE EndFile /\ ~(nops > 0)
      BY <3>1, <3>2 DEF EndFile, chunkvars
    <3>3. CASE EndFiles
      BY <3>1, <3>3 DEF EndFiles
    <3>4. CASE Confirmed
      <4>1. \/ phase' = "done" /\ UNCHANGED connected
            \/ phase' = "failed" /\ connected' = FALSE
        BY <3>4 DEF Confirmed, Leaves
      <4>2. phase' \in {"next", "wait", "done", "failed"}
            /\ connected' \in BOOLEAN /\ (connected' => connected)
        <5>1. CASE phase' = "done" /\ UNCHANGED connected
          BY <3>1, <5>1
        <5>2. CASE phase' = "failed" /\ connected' = FALSE
          BY <5>2
        <5> QED BY <4>1, <5>1, <5>2
      <4>3. phase # "off" /\ UNCHANGED <<filevars, chunkvars, cachevars, servervars, wire, faults>>
        BY <3>4 DEF Confirmed
      <4> QED BY <4>2, <4>3
    <3> QED BY <1>8, <3>2, <3>3, <3>4
  <2>2. UNCHANGED <<snapshot, tables, nfiles, offered, operations, pointers, opstart, nops, cur,
                    stored, fd, server, handled, sfd, received, wire, faults>>
    BY <2>1 DEF filevars, chunkvars, cachevars, servervars
  <2>3. Unsent = 0 /\ Unsent' = 0
    <3>1. Unsent' = 0
      BY <2>1 DEF Unsent, Busy
    <3>2. CASE EndFile /\ ~(nops > 0)
      <4>1. phase = "op" /\ cur > Len(operations) /\ nops = 0
        BY <1>2, <3>2 DEF EndFile
      <4>2. ~(opstart <= Len(operations))
        BY <1>2, <4>1
      <4> QED BY <3>1, <4>2 DEF Unsent
    <3>3. CASE EndFiles \/ Confirmed
      BY <3>1, <3>3 DEF Unsent, Busy, EndFiles, Confirmed
    <3> QED BY <1>8, <3>2, <3>3
  <2>4. StreamInv'
    BY <1>1, <2>1, <2>2, <2>3, StreamQuiet
  <2>5. /\ faults \in 0..MaxFaults /\ server \in {"off", "receive", "done", "failed"}
        /\ stage = "loaded" /\ (server = "done" => tables.files = <<>> /\ handled = nfiles)
    BY <1>1, <2>1 DEF TypeInv, OffInv
  <2> QED BY <2>1, <2>2, <2>4, <2>5, QuietOurs
<1> QED BY <1>3, <1>4, <1>5, <1>6, <1>7, <1>8 DEF Client

LEMMA OursStarts ==
  ASSUME PInit
  PROVE  Ours
<1>1. /\ offered = <<>> /\ received = <<>> /\ wire = <<>> /\ handled = 0 /\ nops = 0 /\ opstart = 1
      /\ stored = Nowhere /\ fd = Nowhere /\ sfd = Nowhere /\ nfiles = 0 /\ tables = EmptyTables
      /\ phase = "off" /\ server = "off" /\ connected = TRUE /\ faults = 0
      /\ snapshot = [p \in Paths |-> -1]
  BY DEF PInit, TInit
<1>2. tables.files = <<>> /\ Len(tables.files) = 0 /\ Len(offered) = 0 /\ Len(received) = 0
      /\ Len(wire) = 0
  BY <1>1 DEF EmptyTables
<1>3. TypeInv
  <2>1. snapshot \in [Paths -> Nat \union {-1}]
    BY <1>1
  <2>2. faults \in 0..MaxFaults
    BY <1>1, FaultsAssumption
  <2> QED BY <1>1, <2>1, <2>2 DEF TypeInv, Phases
<1>4. OffInv
  BY <1>1, <1>2 DEF OffInv
<1>5. BusyInv
  BY <1>1 DEF BusyInv, Busy
<1>6. CacheInv
  <2>1. InChunk = {}
    BY <1>1 DEF InChunk
  <2>2. Excused(Excuses)
    BY <2>1 DEF Excused
  <2>3. Gone # Nowhere /\ Nowhere \notin Paths
    BY TransferAssumption, TreeAssumption
  <2> QED BY <1>1, <2>2, <2>3 DEF CacheInv
<1>7. StreamInv
  <2>1. Sent = <<>>
    BY <1>1 DEF Sent
  <2>2. AllOf = <<>> /\ Len(AllOf) = 0 /\ Len(Sent) = 0
    BY <2>1, StreamFacts DEF AllOf
  <2>3. PICK e : e = [k \in 0..0 |-> 0]
    OBVIOUS
  <2>4. e \in [0..0 -> Nat] /\ e[0] = 0 /\ 1..0 = {}
    BY <2>3
  <2>5. Marks(Sent, AllOf, e)
    BY <2>2, <2>4 DEF Marks
  <2>6. Ended(handled, Sent, e, received)
    <3>1. handled \in 0..0 /\ 0 <= 0 /\ ~(0 < 0)
      BY <1>1
    <3> QED BY <1>1, <1>2, <2>2, <2>4, <3>1 DEF Ended
  <2>7. wire \in Seq(Packets) /\ received \in Seq(GotItems)
    BY <1>1
  <2>8. Begins(received, AllOf, Excuses)
    <3>1. 0 <= 0
      OBVIOUS
    <3> QED BY <1>2, <2>2, <2>4, <2>7, <3>1 DEF Begins
  <2>9. OpenOn(sfd, received)
    BY <1>1 DEF OpenOn
  <2>10. Unsent = 0 /\ 0 - 0 = 0
    BY <1>1 DEF Unsent, Busy
  <2>11. Follow(e)
    BY <1>2, <2>2, <2>4, <2>10 DEF Follow, Under
  <2> QED BY <1>1, <2>5, <2>6, <2>7, <2>8, <2>9, <2>11 DEF StreamInv
<1> QED BY <1>3, <1>4, <1>5, <1>6, <1>7 DEF Ours

\* The invariant of the transfer.
Invariant == LogInv /\ SendInv /\ Ours

LEMMA OursKeeps ==
  ASSUME LogInv, SendInv, SendInv', Ours, PNext \/ UNCHANGED pvars
  PROVE  Ours'
<1>1. ClientInv /\ ClientInv'
  BY DEF SendInv
<1>2. CASE Record
  BY <1>1, <1>2, RecordOurs DEF Record
<1>3. CASE Connect
  BY <1>1, <1>3, ConnectOurs
<1>4. CASE ClientStep
  BY <1>1, <1>4, ClientOurs DEF ClientStep, lvars
<1>5. CASE ServerStep
  BY <1>1, <1>5, ServerOurs DEF ServerStep, lvars
<1>6. CASE Breaks
  BY <1>1, <1>6, BreakOurs DEF Breaks, lvars
<1>7. CASE UNCHANGED pvars
  <2>1. TypeInv /\ OffInv /\ StreamInv /\ offered \in Seq(Files)
    BY <1>1 DEF Ours, ClientInv
  <2>2. UNCHANGED <<snapshot, tables, nfiles, offered, operations, pointers, opstart, nops, cur,
                    stored, fd, phase, connected, server, received, wire, handled, sfd, faults, stage>>
        /\ Unsent' = Unsent
    BY <1>7 DEF pvars, lvars, tvars, Unsent, Busy
  <2>3. StreamInv'
    BY <2>1, <2>2, StreamQuiet
  <2> QED BY <2>1, <2>2, <2>3, QuietOurs DEF TypeInv, OffInv
<1> QED BY <1>2, <1>3, <1>4, <1>5, <1>6, <1>7 DEF PNext

LEMMA PipelineInvariant == PSpec => []Invariant
<1>1. PInit => Ours
  BY OursStarts
<1>2. LogInv /\ SendInv /\ SendInv' /\ Ours /\ [PNext]_pvars => Ours'
  BY OursKeeps
<1> QED BY <1>1, <1>2, SendInvariant, PTL DEF PSpec, Invariant

-----------------------------------------------------------------------------
(* The types.                                                              *)

LogType == /\ stage \in {"record", "load", "loaded", "failed", "crashed"}
           /\ fsup \in BOOLEAN /\ unread \in BOOLEAN

LEMMA LogTypeInvariant == PSpec => []LogType
<1>1. PInit => LogType
  BY DEF PInit, LInit, LogType
<1>2. LogType /\ [PNext]_pvars => LogType'
  <2> SUFFICES ASSUME LogType, PNext \/ UNCHANGED pvars PROVE LogType'
    OBVIOUS
  <2>1. ASSUME NEW r \in Records, LogGeneric(r) PROVE LogType'
    BY <2>1 DEF LogGeneric, LogType, reader
  <2>2. ASSUME NEW n, GoDown(n) PROVE LogType'
    BY <2>2 DEF GoDown, LogType, reader
  <2>3. CASE Mount \/ Switched
    BY <2>3 DEF Mount, Switched, LogType, reader
  <2>4. CASE LoadRecord
    <3>1. stage' \in {"loaded", "failed", "crashed", stage} /\ UNCHANGED <<fsup, unread>>
      BY <2>4 DEF LoadRecord
    <3> QED BY <3>1 DEF LogType
  <2>5. CASE LoadFails
    BY <2>5 DEF LoadFails, LogType
  <2>6. CASE LNext
    BY <2>1, <2>2, <2>3, <2>4, <2>5, <2>6 DEF LNext
  <2>7. CASE UNCHANGED lvars
    BY <2>7 DEF lvars, LogType
  <2>8. LNext \/ UNCHANGED lvars
    BY DEF PNext, pvars, Record, Connect, ClientStep, ServerStep, Breaks
  <2> QED BY <2>6, <2>7, <2>8
<1> QED BY <1>1, <1>2, PTL DEF PSpec

\* In particular the descriptor that loadWriteData() keeps is none before the first file,
\* and handleClient() has closed its own when a file has ended.
THEOREM PipelineTyped == PSpec => []PTypeOK
<1>1. ASSUME LogInv, SendInv, Ours, LogType PROVE PTypeOK
  <2>1. TypeInv /\ OffInv /\ CacheInv /\ StreamInv /\ offered \in Seq(Files)
    BY <1>1 DEF Ours, SendInv, ClientInv
  <2>2. pos \in 0..Len(file)
    BY <1>1 DEF LogInv, ReaderInv
  <2>3. damage \in -1..Len(file)
    <3>1. Stands(file, whole) /\ damage = IF Undamaged = Len(file) THEN -1 ELSE Undamaged
      BY <1>1 DEF LogInv, FileInv
    <3>2. Len(file) \in Nat /\ Len(whole) \in Nat
          /\ \A k \in 0..Len(whole) : EndOf(whole, k) \in Nat /\ EndOf(whole, k) <= Len(file)
      BY <3>1, StandsFacts
    <3>3. Len(whole) \in 0..Len(whole)
      BY <3>2
    <3>4. Undamaged \in Nat /\ Undamaged <= Len(file)
      BY <3>2, <3>3 DEF Undamaged
    <3> QED BY <3>1, <3>2, <3>4
  <2>4. handled \in 0..nfiles
    <3>1. PICK e : Ended(handled, Sent, e, received)
      BY <2>1 DEF StreamInv
    <3>2. Len(Sent) = Len(offered)
      BY <2>1, StreamType
    <3>3. tables.files \in Seq(Entries)
      BY <1>1 DEF SendInv, ClientInv, Tidy, ClientTables
    <3>4. PICK a, b : a = Len(tables.files) /\ b = Len(offered)
      OBVIOUS
    <3>5. a \in Nat /\ b \in Nat /\ nfiles = a + b /\ handled \in 0..b
      BY <2>1, <3>1, <3>2, <3>3, <3>4 DEF OffInv, Ended
    <3> QED BY <3>5
  <2>5. sfd \in Paths \union {Nowhere} /\ (received # <<>> /\ Last(received).op = End => sfd = Nowhere)
    BY <2>1 DEF StreamInv, OpenOn, Last
  <2>6. offered = <<>> => fd = Nowhere
    BY <2>1 DEF CacheInv
  <2> QED BY <1>1, <2>1, <2>2, <2>3, <2>4, <2>5, <2>6 DEF PTypeOK, LogType, TypeInv, OffInv
<1> QED BY <1>1, PipelineInvariant, LogTypeInvariant, PTL DEF Invariant

-----------------------------------------------------------------------------
(* The transfer is a delivery.                                             *)

\* What has been received is how the stream begins.
LEMMA GotIs ==
  ASSUME NEW s \in Seq(Items), NEW l, NEW ex, Begins(l, s, ex)
  PROVE  /\ [k \in DOMAIN l |-> Item(l[k])] = SubSeq(s, 1, Len(l))
         /\ Len(l) \in Nat /\ Len(l) <= Len(s)
<1>1. l \in Seq(GotItems) /\ Len(l) <= Len(s) /\ \A k \in 1..Len(l) : Item(l[k]) = s[k]
  BY DEF Begins
<1>2. PICK n : n = Len(l)
  OBVIOUS
<1>3. n \in Nat /\ DOMAIN l = 1..n /\ n <= Len(s) /\ Len(s) \in Nat
  BY <1>1, <1>2
<1>4. SubSeq(s, 1, n) = [k \in 1..n |-> s[1 + k - 1]]
  BY <1>3
<1>5. \A k \in 1..n : 1 + k - 1 = k
  BY <1>3
<1>6. SubSeq(s, 1, n) = [k \in 1..n |-> s[k]]
  BY <1>4, <1>5
<1>7. [k \in DOMAIN l |-> Item(l[k])] = [k \in 1..n |-> s[k]]
  BY <1>1, <1>2, <1>3
<1> QED BY <1>2, <1>3, <1>6, <1>7

LEMMA GotFacts ==
  ASSUME StreamInv, offered \in Seq(Files)
  PROVE  Got = SubSeq(AllOf, 1, Len(received)) /\ Len(received) \in Nat
         /\ Len(received) <= Len(AllOf) /\ Len(AllOf) \in Nat /\ AllOf \in Seq(Items)
<1>1. AllOf \in Seq(Items) /\ Len(AllOf) \in Nat
  BY StreamType
<1>2. Begins(received, AllOf, Excuses)
  BY DEF StreamInv
<1>3. Got = [k \in DOMAIN received |-> Item(received[k])]
  BY DEF Got, Item
<1> QED BY <1>1, <1>2, <1>3, GotIs

\* The variables of Delivery.
LEMMA DeliveryFacts ==
  /\ D!Stream = AllOf
  /\ D!Init <=> Sent = <<>> /\ Got = <<>> /\ (server = "done") = FALSE
  /\ D!Offer <=> /\ server # "done"
                 /\ IsPrefix(Sent, Sent') /\ Len(Sent') = Len(Sent) + 1
                 /\ Got' = Got /\ (server = "done")' = (server = "done")
  /\ \A n : D!Receive(n) <=> /\ n > Len(Got) /\ Got' = SubSeq(AllOf, 1, n)
                             /\ Sent' = Sent /\ (server = "done")' = (server = "done")
  /\ D!Finish <=> /\ server # "done" /\ Got = AllOf /\ (server' = "done")
                  /\ Sent' = Sent /\ Got' = Got
  /\ UNCHANGED D!dvars <=> Sent' = Sent /\ Got' = Got /\ (server = "done")' = (server = "done")
<1>1. D!Stream = AllOf
  BY DEF D!Stream, AllOf, StreamOf, Sent, FoldLeft, D!FoldLeft, MapThenFoldSet, D!MapThenFoldSet, Max, D!Max
<1>2. D!Init <=> Sent = <<>> /\ Got = <<>> /\ (server = "done") = FALSE
  BY DEF D!Init, Sent, Got
<1>3. D!Offer <=> /\ server # "done"
                  /\ IsPrefix(Sent, Sent') /\ Len(Sent') = Len(Sent) + 1
                  /\ Got' = Got /\ (server = "done")' = (server = "done")
  BY DEF D!Offer, Sent, Got, IsPrefix, D!IsPrefix
<1>4. \A n : D!Receive(n) <=> /\ n > Len(Got) /\ Got' = SubSeq(AllOf, 1, n)
                              /\ Sent' = Sent /\ (server = "done")' = (server = "done")
  BY <1>1 DEF D!Receive, Sent, Got
<1>5. D!Finish <=> /\ server # "done" /\ Got = AllOf /\ (server' = "done")
                   /\ Sent' = Sent /\ Got' = Got
  BY <1>1 DEF D!Finish, Sent, Got
<1>6. UNCHANGED D!dvars <=> Sent' = Sent /\ Got' = Got /\ (server = "done")' = (server = "done")
  BY DEF D!dvars, Sent, Got
<1> QED BY <1>1, <1>2, <1>3, <1>4, <1>5, <1>6

\* Nothing is offered, received or finished.
LEMMA DeliveryStutters ==
  ASSUME UNCHANGED <<offered, received>>, (server = "done") <=> (server' = "done")
  PROVE  UNCHANGED D!dvars
<1>1. Sent' = Sent
  BY OfferedSame
<1>2. Got' = [k \in DOMAIN received' |-> <<received'[k].path, Plain(received'[k].op)>>]
  BY DEF Got, Plain
<1>3. Got' = Got
  BY <1>2 DEF Got
<1>4. (server = "done")' = (server = "done")
  OBVIOUS
<1> QED BY <1>1, <1>3, <1>4, DeliveryFacts

LEMMA OfferDelivers ==
  ASSUME Ours, ClientInv, BeginFile
  PROVE  D!Offer
<1>1. /\ phase = "next" /\ tables.files # <<>> /\ UNCHANGED servervars
      /\ \E f \in {First(tables.files)} : \E os \in OptimizeOperations(f.ops) :
           offered' = Append(offered, [path |-> f.path, ops |-> os])
  BY DEF BeginFile
<1>2. PICK os \in OptimizeOperations(First(tables.files).ops) :
        offered' = Append(offered, [path |-> First(tables.files).path, ops |-> os])
  BY <1>1
<1>3. tables \in Tidy /\ offered \in Seq(Files)
  BY DEF ClientInv
<1>4. PICK f : f = First(tables.files)
  OBVIOUS
<1>5. f \in Entries /\ f.ops # <<>>
  BY <1>1, <1>3, <1>4, TakenFacts
<1>6. f.path \in Paths /\ os \in Seq(Ops)
  <2>1. f.path \in Paths /\ f.ops \in Seq(Ops)
    BY <1>5 DEF Entries
  <2>2. os \in Seq(Ops)
    BY <1>2, <1>4, <1>5, <2>1, OptimizedFacts DEF Left
  <2> QED BY <2>1, <2>2
<1> DEFINE x == [path |-> f.path, ops |-> os]
<1>7. x \in Files /\ offered' = Append(offered, x)
  BY <1>2, <1>4, <1>6 DEF Files
<1> HIDE DEF x
<1>8. Sent \in Seq(PlainFiles) /\ PlainFile(x) \in PlainFiles /\ Sent' = Append(Sent, PlainFile(x))
  BY <1>3, <1>7, SentMore, StreamType
<1>9. PICK s, y, t : s = Sent /\ y = PlainFile(x) /\ t = Sent'
  OBVIOUS
<1>10. s \in Seq(PlainFiles) /\ y \in PlainFiles /\ t = Append(s, y) /\ Len(s) \in Nat
  BY <1>8, <1>9
<1>11. Len(t) = Len(s) + 1 /\ SubSeq(s, 1, Len(s)) = s /\ SubSeq(t, 1, Len(s)) = s
  BY <1>10
<1>12. IsPrefix(s, t)
  BY <1>10, <1>11 DEF IsPrefix
<1>13. server # "done" /\ received' = received /\ server' = server
  BY <1>1 DEF Ours, OffInv, servervars
<1>14. Got' = Got
  <2>1. Got' = [k \in DOMAIN received' |-> <<received'[k].path, Plain(received'[k].op)>>]
    BY DEF Got, Plain
  <2> QED BY <1>13, <2>1 DEF Got
<1>15. (server = "done")' = (server = "done")
  BY <1>13
<1> QED BY <1>9, <1>11, <1>12, <1>13, <1>14, <1>15, DeliveryFacts

LEMMA ReceiveDelivers ==
  ASSUME Ours, Ours', ClientInv, ClientInv', ReceiveChunk
  PROVE  (\E n \in 1..Len(D!Stream) : D!Receive(n)) \/ UNCHANGED D!dvars
<1>1. /\ StreamInv /\ StreamInv' /\ offered \in Seq(Files) /\ offered' \in Seq(Files)
      /\ faults \in 0..MaxFaults
  BY DEF Ours, ClientInv, TypeInv
<1>2. server = "receive" /\ offered' = offered
  BY DEF ReceiveChunk, filevars
<1>3. server' \in {"receive", "failed"} /\ (received' = received \/ Len(received) <= Len(received'))
  BY <1>1, StreamReceived
<1>4. Sent' = Sent /\ AllOf' = AllOf
  BY <1>2, OfferedSame
<1>5. PICK s, i, j : s = AllOf /\ i = Len(received) /\ j = Len(received')
  OBVIOUS
<1>6. /\ s \in Seq(Items) /\ i \in Nat /\ i <= Len(s) /\ Len(s) \in Nat
      /\ Got = SubSeq(s, 1, i)
  BY <1>1, <1>5, GotFacts
<1>7. Got' = SubSeq(s, 1, j) /\ j \in Nat /\ j <= Len(s)
  <2>1. Begins(received, AllOf, Excuses)'
    BY <1>1 DEF StreamInv
  <2>2. Begins(received', s, Excuses')
    BY <1>4, <1>5, <2>1
  <2>3. [k \in DOMAIN received' |-> Item(received'[k])] = SubSeq(s, 1, j) /\ j \in Nat /\ j <= Len(s)
    BY <1>5, <1>6, <2>2, GotIs
  <2>4. Got' = [k \in DOMAIN received' |-> <<received'[k].path, Plain(received'[k].op)>>]
    BY DEF Got, Plain
  <2>5. Got' = [k \in DOMAIN received' |-> Item(received'[k])]
    BY <2>4 DEF Item
  <2> QED BY <2>3, <2>5
<1>8. (server = "done")' = (server = "done")
  BY <1>2, <1>3
<1>9. CASE received' = received \/ i = j
  <2>1. Got' = Got
    BY <1>5, <1>6, <1>7, <1>9
  <2> QED BY <1>4, <1>8, <2>1, DeliveryFacts
<1>10. CASE i < j
  <2>1. Len(Got) = i
    BY <1>6
  <2>2. D!Receive(j)
    BY <1>4, <1>5, <1>7, <1>8, <1>10, <2>1, DeliveryFacts
  <2>3. j \in 1..Len(s)
    BY <1>6, <1>7, <1>10
  <2> QED BY <1>5, <2>2, <2>3, DeliveryFacts
<1>11. received' = received \/ i = j \/ i < j
  BY <1>3, <1>5, <1>6, <1>7
<1> QED BY <1>9, <1>10, <1>11

LEMMA FinishDelivers ==
  ASSUME Ours, ClientInv, Finish
  PROVE  D!Finish
<1>1. StreamInv /\ offered \in Seq(Files)
  BY DEF Ours, ClientInv
<1>2. server = "receive" /\ server' = "done" /\ handled = nfiles /\ UNCHANGED <<offered, received>>
  BY DEF Finish, filevars
<1>3. Len(received) = Len(AllOf)
  BY <1>2, FinishFacts
<1>4. Got = AllOf
  <2>1. AllOf \in Seq(Items) /\ Got = SubSeq(AllOf, 1, Len(AllOf))
    BY <1>1, <1>3, GotFacts
  <2> QED BY <2>1
<1>5. Sent' = Sent
  BY <1>2, OfferedSame
<1>6. Got' = Got
  <2>1. Got' = [k \in DOMAIN received' |-> <<received'[k].path, Plain(received'[k].op)>>]
    BY DEF Got, Plain
  <2> QED BY <1>2, <2>1 DEF Got
<1> QED BY <1>2, <1>4, <1>5, <1>6, DeliveryFacts

LEMMA DeliveryStarts ==
  ASSUME PInit
  PROVE  D!Init
<1>1. offered = <<>> /\ received = <<>> /\ server = "off"
  BY DEF PInit, TInit
<1>2. Sent = <<>> /\ Got = <<>>
  BY <1>1 DEF Sent, Got
<1>3. (server = "done") = FALSE
  BY <1>1
<1> QED BY <1>2, <1>3, DeliveryFacts

LEMMA DeliverySteps ==
  ASSUME SendInv, SendInv', Ours, Ours', PNext \/ UNCHANGED pvars
  PROVE  D!Next \/ UNCHANGED D!dvars
<1>1. ClientInv /\ ClientInv' /\ StreamInv /\ OffInv
  BY DEF SendInv, Ours
<1>2. CASE Record \/ UNCHANGED pvars
  BY <1>2, DeliveryStutters DEF Record, pvars, tvars
<1>3. CASE Connect
  <2>1. phase = "off" /\ server' = "receive" /\ UNCHANGED <<offered, received>>
    BY <1>3 DEF Connect, StartTransfer
  <2>2. server = "off"
    BY <1>1, <2>1 DEF OffInv
  <2> QED BY <2>1, <2>2, DeliveryStutters
<1>4. CASE ClientStep
  <2>1. CASE BeginFile
    BY <1>1, <2>1, OfferDelivers DEF D!Next
  <2>2. CASE Flush \/ LoadOp \/ FlushFull \/ EndFile \/ EndFiles \/ Confirmed
    <3>1. UNCHANGED <<filevars, servervars>>
      BY <2>2 DEF Flush, LoadOp, FlushFull, EndFile, EndFiles, Confirmed
    <3> QED BY <3>1, DeliveryStutters DEF filevars, servervars
  <2> QED BY <1>4, <2>1, <2>2 DEF ClientStep, Client
<1>5. CASE ServerStep
  <2>1. CASE ReceiveChunk
    BY <1>1, <2>1, ReceiveDelivers DEF D!Next
  <2>2. CASE ReceiveNothing
    <3>1. server = "receive" /\ server' = "failed" /\ UNCHANGED <<offered, received>>
      BY <2>2 DEF ReceiveNothing, filevars
    <3> QED BY <3>1, DeliveryStutters
  <2>3. CASE Finish
    BY <1>1, <2>3, FinishDelivers DEF D!Next
  <2> QED BY <1>5, <2>1, <2>2, <2>3 DEF ServerStep, Server
<1>6. CASE Breaks
  <2>1. UNCHANGED <<offered, received, server>>
    BY <1>6 DEF Breaks, Break, filevars, servervars
  <2> QED BY <2>1, DeliveryStutters
<1> QED BY <1>2, <1>3, <1>4, <1>5, <1>6 DEF PNext

\* However transferFile() cuts the operations into chunks, and wherever the connection
\* breaks: what handleClient() has received is how the files that were sent begin, in
\* order and without a gap, and it answers SyncFinish after the last of them.
THEOREM TransferDelivers == PSpec => ImplementsDelivery
<1>1. PInit => D!Init
  BY DeliveryStarts
<1>2. Invariant /\ Invariant' /\ [PNext]_pvars => [D!Next]_(D!dvars)
  BY DeliverySteps DEF Invariant
<1> QED BY <1>1, <1>2, PipelineInvariant, PTL DEF PSpec, ImplementsDelivery, D!Spec

-----------------------------------------------------------------------------
(* What the tables have of what has been read.                             *)

\* Of the first n records those of a path, and the operation as it is numbered.
To(q, n) == {k \in 1..n : loaded[k].path = q}
OthersTo(q, n) == {k \in To(q, n) : loaded[k].op.type # "WRITE"}
WritesTo(q, n) == {k \in To(q, n) : loaded[k].op.type = "WRITE"}
Given(k) == [loaded[k].op EXCEPT !.id = k - 1]

\* All of them are in a list.
Sums(l, q, n) ==
  /\ l \in Seq(Ops)
  /\ Rests(l) = {Given(k) : k \in OthersTo(q, n)} /\ Count(l) = Cardinality(OthersTo(q, n))
  /\ Spans(l) = UNION {Span(loaded[k].op) : k \in WritesTo(q, n)}
  /\ \A j \in DOMAIN l : \E k \in To(q, n) : l[j].type = loaded[k].op.type

LEMMA NumberedWrite ==
  ASSUME NEW o \in Ops, o.type = "WRITE", NEW n \in Nat
  PROVE  Span([o EXCEPT !.id = n]) = Span(o)
<1>1. o \in WriteOps
  BY DEF Ops, UnlinkOps, LinkOps, SymlinkOps, RenameOps, MknodOps, ModeOps, ChownOps,
     TruncateOps, RmdirOps
<1>2. PICK u : u = [o EXCEPT !.id = n]
  OBVIOUS
<1>3. u.offset = o.offset /\ u.size = o.size
  BY <1>1, <1>2 DEF WriteOps
<1>4. Span(u) = Span(o)
  BY <1>3 DEF Span
<1> QED BY <1>2, <1>4

LEMMA GivenIs ==
  ASSUME loaded \in Seq(Recs), NEW k \in 1..Len(loaded)
  PROVE  /\ loaded[k].path \in Paths /\ loaded[k].op \in Ops
         /\ Given(k) \in Ops /\ Given(k).type = loaded[k].op.type
         /\ Part(Given(k)) = Part(loaded[k].op)
<1>1. PICK r : r = loaded[k]
  OBVIOUS
<1>2. r \in Recs
  BY <1>1
<1>3. r.path \in Paths /\ r.op \in Ops /\ k - 1 \in Nat
  BY <1>2 DEF Recs
<1>4. PICK u : u = [r.op EXCEPT !.id = k - 1]
  OBVIOUS
<1>5. u \in Ops /\ u.type = r.op.type
  BY <1>3, <1>4, Numbered
<1>6. r.op.type = "WRITE" => Span(u) = Span(r.op)
  BY <1>3, <1>4, NumberedWrite
<1>7. Part(u) = Part(r.op)
  BY <1>5, <1>6 DEF Part
<1> QED BY <1>1, <1>3, <1>4, <1>5, <1>7 DEF Given

LEMMA ToFacts ==
  ASSUME NEW q, NEW n \in Nat
  PROVE  /\ IsFiniteSet(OthersTo(q, n)) /\ Cardinality(OthersTo(q, n)) \in Nat
         /\ \A k : k \in To(q, n) <=> k \in 1..n /\ loaded[k].path = q
         /\ \A k : k \in OthersTo(q, n) <=> k \in To(q, n) /\ loaded[k].op.type # "WRITE"
         /\ \A k : k \in WritesTo(q, n) <=> k \in To(q, n) /\ loaded[k].op.type = "WRITE"
<1>1. IsFiniteSet(1..n)
  BY FS_Interval
<1>2. OthersTo(q, n) \subseteq 1..n
  BY DEF OthersTo, To
<1>3. IsFiniteSet(OthersTo(q, n)) /\ Cardinality(OthersTo(q, n)) \in Nat
  BY <1>1, <1>2, FS_Subset, FS_CardinalityType
<1> QED BY <1>3 DEF OthersTo, WritesTo, To

LEMMA ToOther ==
  ASSUME NEW q, NEW n \in Nat \ {0}, loaded[n].path # q
  PROVE  To(q, n) = To(q, n - 1) /\ OthersTo(q, n) = OthersTo(q, n - 1)
         /\ WritesTo(q, n) = WritesTo(q, n - 1)
<1>1. \A k : k \in 1..n <=> k \in 1..n - 1 \/ k = n
  OBVIOUS
<1>2. To(q, n) = To(q, n - 1)
  BY <1>1 DEF To
<1> QED BY <1>2 DEF OthersTo, WritesTo

LEMMA ToSame ==
  ASSUME NEW q, NEW n \in Nat \ {0}, loaded[n].path = q
  PROVE  /\ To(q, n) = To(q, n - 1) \union {n} /\ n \notin To(q, n - 1)
         /\ loaded[n].op.type = "WRITE" => /\ OthersTo(q, n) = OthersTo(q, n - 1)
                                           /\ WritesTo(q, n) = WritesTo(q, n - 1) \union {n}
         /\ loaded[n].op.type # "WRITE" => /\ OthersTo(q, n) = OthersTo(q, n - 1) \union {n}
                                           /\ WritesTo(q, n) = WritesTo(q, n - 1)
<1>1. (\A k : k \in 1..n <=> k \in 1..n - 1 \/ k = n) /\ n \notin 1..n - 1
  OBVIOUS
<1>2. To(q, n) = To(q, n - 1) \union {n} /\ n \notin To(q, n - 1)
  BY <1>1 DEF To
<1> QED BY <1>2 DEF OthersTo, WritesTo

LEMMA SumsOther ==
  ASSUME NEW q, NEW n \in Nat \ {0}, loaded[n].path # q, NEW l, Sums(l, q, n - 1)
  PROVE  Sums(l, q, n)
BY ToOther DEF Sums

LEMMA SumsNone ==
  ASSUME NEW q, NEW n \in Nat, To(q, n) = {}
  PROVE  Sums(<<>>, q, n)
<1>1. OthersTo(q, n) = {} /\ WritesTo(q, n) = {}
  BY DEF OthersTo, WritesTo
<1>2. Cardinality({}) = 0 /\ <<>> \in Seq(Ops) /\ DOMAIN <<>> = {}
  BY FS_EmptySet
<1>3. Spans(<<>>) = {} /\ Count(<<>>) = 0 /\ Rests(<<>>) = {}
  BY <1>2, PrefixFacts
<1> QED BY <1>1, <1>2, <1>3 DEF Sums

LEMMA SumsSame ==
  ASSUME loaded \in Seq(Recs), NEW n \in 1..Len(loaded), NEW l, NEW q,
         loaded[n].path = q, Sums(l, q, n - 1)
  PROVE  Sums(Append(l, Given(n)), q, n)
<1>1. PICK o : o = Given(n)
  OBVIOUS
<1>2. PICK w : w = loaded[n].op
  OBVIOUS
<1>3. w \in Ops /\ o \in Ops /\ o.type = w.type /\ Part(o) = Part(w) /\ n \in Nat \ {0} /\ n - 1 \in Nat
  BY <1>1, <1>2, GivenIs
<1>4. /\ To(q, n) = To(q, n - 1) \union {n} /\ n \notin To(q, n - 1)
      /\ w.type = "WRITE" => /\ OthersTo(q, n) = OthersTo(q, n - 1)
                             /\ WritesTo(q, n) = WritesTo(q, n - 1) \union {n}
      /\ w.type # "WRITE" => /\ OthersTo(q, n) = OthersTo(q, n - 1) \union {n}
                             /\ WritesTo(q, n) = WritesTo(q, n - 1)
  BY <1>2, <1>3, ToSame
<1>5. l \in Seq(Ops)
  BY DEF Sums
<1>6. PICK u : u = Append(l, o)
  OBVIOUS
<1>7. /\ u \in Seq(Ops) /\ Spans(u) = Spans(l) \union Part(o)
      /\ Count(u) = Count(l) + (IF o.type = "WRITE" THEN 0 ELSE 1)
      /\ Rests(u) = Rests(l) \union RestOf(o)
  BY <1>3, <1>5, <1>6, AppendFacts
<1>8. \A j \in DOMAIN u : \E k \in To(q, n) : u[j].type = loaded[k].op.type
  <2> TAKE j \in DOMAIN u
  <2>1. CASE j \in DOMAIN l
    <3>1. u[j] = l[j]
      BY <1>5, <1>6, <2>1
    <3>2. \E k \in To(q, n - 1) : l[j].type = loaded[k].op.type
      BY <2>1 DEF Sums
    <3> QED BY <1>4, <3>1, <3>2
  <2>2. CASE j \notin DOMAIN l
    <3>1. u[j] = o
      BY <1>5, <1>6, <2>2
    <3> QED BY <1>2, <1>3, <1>4, <3>1
  <2> QED BY <2>1, <2>2
<1>9. CASE w.type = "WRITE"
  <2>1. Part(o) = Span(w) /\ RestOf(o) = {} /\ Count(l) \in Nat
    BY <1>3, <1>5, <1>9, CountType DEF Part, RestOf
  <2>2. Count(u) = Count(l) /\ Rests(u) = Rests(l)
    BY <1>3, <1>7, <1>9, <2>1
  <2>3. Spans(u) = UNION {Span(loaded[k].op) : k \in WritesTo(q, n)}
    <3>1. Spans(l) = UNION {Span(loaded[k].op) : k \in WritesTo(q, n - 1)}
      BY DEF Sums
    <3> QED BY <1>2, <1>4, <1>7, <1>9, <2>1, <3>1
  <2> QED BY <1>1, <1>4, <1>6, <1>7, <1>8, <1>9, <2>2, <2>3 DEF Sums
<1>10. CASE w.type # "WRITE"
  <2>1. Part(o) = {} /\ RestOf(o) = {o}
    BY <1>3, <1>10 DEF Part, RestOf
  <2>2. Spans(u) = Spans(l) /\ Rests(u) = Rests(l) \union {o} /\ Count(u) = Count(l) + 1
    BY <1>3, <1>7, <1>10, <2>1
  <2>3. Rests(u) = {Given(k) : k \in OthersTo(q, n)}
    <3>1. Rests(l) = {Given(k) : k \in OthersTo(q, n - 1)}
      BY DEF Sums
    <3> QED BY <1>1, <1>4, <1>10, <2>2, <3>1
  <2>4. Count(u) = Cardinality(OthersTo(q, n))
    <3>1. Count(l) = Cardinality(OthersTo(q, n - 1)) /\ IsFiniteSet(OthersTo(q, n - 1))
      BY <1>3, ToFacts DEF Sums
    <3>2. n \notin OthersTo(q, n - 1)
      BY <1>4 DEF OthersTo
    <3>3. Cardinality(OthersTo(q, n - 1) \union {n}) = Cardinality(OthersTo(q, n - 1)) + 1
      BY <3>1, <3>2, FS_AddElement
    <3> QED BY <1>4, <1>10, <2>2, <3>1, <3>3
  <2> QED BY <1>1, <1>4, <1>6, <1>7, <1>8, <1>10, <2>2, <2>3, <2>4 DEF Sums
<1> QED BY <1>9, <1>10

\* What addOperation() does to the files.
LEMMA AddOtherIs ==
  ASSUME NEW tb \in ClientTables, Consistent(tb), NEW p \in Paths, NEW o \in Ops
  PROVE  LET u == AddOther(tb, p, o)
             s == tb.files
             e == u.files
         IN  /\ u.id = tb.id
             /\ Has(tb, p) => /\ DOMAIN e = DOMAIN s
                              /\ \A k \in DOMAIN s : e[k].path = s[k].path
                                   /\ e[k].ops = IF s[k].path = p THEN Append(s[k].ops, o) ELSE s[k].ops
             /\ ~Has(tb, p) => /\ DOMAIN e = 1..Len(s) + 1 /\ Len(s) \in Nat /\ DOMAIN s = 1..Len(s)
                               /\ \A k \in 1..Len(s) : e[k] = s[k]
                               /\ e[Len(s) + 1].path = p /\ e[Len(s) + 1].ops = <<o>>
<1> DEFINE f == IF Has(tb, p) THEN Entry(tb, p)
                ELSE [NewEntry(p) EXCEPT !.created = o.type \in Creations]
           e == [f EXCEPT !.ops = Append(@, o), !.order = IF @ = -1 THEN tb.order ELSE @]
           t == IF Has(tb, p) THEN Changed(tb, e) ELSE Added(tb, e)
           s == tb.files
           u == AddOther(tb, p, o)
<1>1. u = [t EXCEPT !.order = IF f.order = -1 THEN @ + 1 ELSE @]
  BY DEF AddOther
<1>2. tb.files \in Seq(Entries)
  BY DEF ClientTables
<1>3. t = [tb EXCEPT !.files = t.files]
  <2>1. CASE Has(tb, p)
    <3>1. t = Changed(tb, e)
      BY <2>1
    <3> HIDE DEF t, e
    <3> QED BY <3>1 DEF Changed, ClientTables
  <2>2. CASE ~Has(tb, p)
    <3>1. t = Added(tb, e)
      BY <2>2
    <3> HIDE DEF t, e
    <3> QED BY <3>1 DEF Added, ClientTables
  <2> QED BY <2>1, <2>2
<1>4. u.files = t.files /\ u.id = tb.id
  <2> HIDE DEF u, t, f
  <2>1. t.id = tb.id /\ \A x : [t EXCEPT !.order = x].files = t.files /\ [t EXCEPT !.order = x].id = t.id
    BY <1>3 DEF ClientTables
  <2> QED BY <1>1, <2>1
<1>5. CASE Has(tb, p)
  <2>1. PICK i \in DOMAIN s : s[i] = Entry(tb, p) /\ Entry(tb, p) \in Entries /\ s[i].path = p
    BY <1>5, EntryFacts
  <2>2. f = s[i]
    BY <1>5, <2>1
  <2> HIDE DEF f
  <2>3. e.path = p /\ e.ops = Append(s[i].ops, o)
    BY <2>1, <2>2 DEF Entries
  <2>4. t = Changed(tb, e)
    BY <1>5
  <2> HIDE DEF e, t
  <2>5. t.files = [k \in DOMAIN s |-> IF s[k].path = p THEN e ELSE s[k]]
    BY <2>3, <2>4 DEF Changed, ClientTables
  <2>6. \A k \in DOMAIN s : s[k].path = p => k = i
    BY <2>1 DEF Consistent, Distinct
  <2> HIDE DEF u, s
  <2>7. DOMAIN u.files = DOMAIN s
    BY <1>4, <2>5
  <2>8. \A k \in DOMAIN s : u.files[k].path = s[k].path
                            /\ u.files[k].ops = IF s[k].path = p THEN Append(s[k].ops, o) ELSE s[k].ops
    BY ZenonT(40), <1>4, <2>3, <2>5, <2>6
  <2> QED BY <1>4, <1>5, <2>7, <2>8 DEF u, s
<1>6. CASE ~Has(tb, p)
  <2>1. f = [NewEntry(p) EXCEPT !.created = o.type \in Creations]
    BY <1>6
  <2>2. f.path = p /\ f.ops = <<>>
    BY <2>1 DEF NewEntry
  <2>3. DOMAIN f = {"path", "order", "ops", "created"}
    BY <2>1 DEF NewEntry
  <2> HIDE DEF f
  <2>4. e.path = p /\ e.ops = Append(<<>>, o)
    BY <2>2, <2>3
  <2>5. t = Added(tb, e)
    BY <1>6
  <2> HIDE DEF e, t
  <2>6. t.files = Append(s, e)
    BY <2>5 DEF Added, ClientTables
  <2>7. Append(<<>>, o) = <<o>>
    OBVIOUS
  <2>8. /\ DOMAIN Append(s, e) = 1..Len(s) + 1 /\ Len(s) \in Nat /\ DOMAIN s = 1..Len(s)
        /\ \A k \in 1..Len(s) : Append(s, e)[k] = s[k]
        /\ Append(s, e)[Len(s) + 1] = e
    BY <1>2
  <2> HIDE DEF u, s
  <2> QED BY <1>4, <1>6, <2>4, <2>6, <2>7, <2>8 DEF u, s
<1> QED BY <1>5, <1>6

\* The tables after n records.
Fills(tb, n) ==
  /\ tb.id = n
  /\ \A k \in DOMAIN tb.files : Sums(tb.files[k].ops, tb.files[k].path, n)
  /\ \A k \in 1..n : Has(tb, loaded[k].path)

LEMMA FillsOn ==
  ASSUME loaded \in Seq(Recs), NEW n \in 1..Len(loaded), NEW tb \in Tidy, Fills(tb, n - 1),
         loaded[n].op.type \notin Removals \union {"LINK"}
  PROVE  Fills(AddOperation(tb, loaded[n].path, loaded[n].op), n)
<1>1. PICK p, w, o : p = loaded[n].path /\ w = loaded[n].op /\ o = Given(n)
  OBVIOUS
<1>2. p \in Paths /\ w \in Ops /\ o \in Ops /\ o.type = w.type /\ n \in Nat \ {0} /\ n - 1 \in Nat
  BY <1>1, GivenIs
<1>3. tb \in ClientTables /\ Consistent(tb) /\ tb.id = n - 1
  BY DEF Tidy, Fills
<1> DEFINE t == [tb EXCEPT !.id = @ + 1]
<1>4. t \in ClientTables /\ Consistent(t) /\ t.id = n /\ t.files = tb.files
  BY SMTT(30), <1>2, <1>3 DEF ClientTables, Consistent, Ranked, Distinct, AsideFull
<1>5. o = [w EXCEPT !.id = tb.id]
  BY <1>1, <1>3 DEF Given
<1>6. AddOperation(tb, p, w) = AddOther(t, p, o)
  BY <1>1, <1>2, <1>5 DEF AddOperation
<1> HIDE DEF t
<1>7. PICK u : u = AddOther(t, p, o)
  OBVIOUS
<1>8. PICK s : s = tb.files
  OBVIOUS
<1>9. Has(t, p) <=> \E k \in DOMAIN s : s[k].path = p
  BY <1>4, <1>8 DEF Has
<1>10. \A k \in DOMAIN s : Sums(s[k].ops, s[k].path, n - 1)
  BY <1>8 DEF Fills
<1>11. \A k \in 1..n - 1 : \E j \in DOMAIN s : s[j].path = loaded[k].path
  BY <1>8 DEF Fills, Has
<1>12. u.id = n
  BY <1>2, <1>4, <1>7, AddOtherIs
<1>13. \A l, q : Sums(l, q, n - 1) =>
         IF q = p THEN Sums(Append(l, o), q, n) ELSE Sums(l, q, n)
  BY <1>1, <1>2, SumsSame, SumsOther
<1>14. \A k \in 1..n : k \in 1..n - 1 \/ k = n
  BY <1>2
<1>15. CASE Has(t, p)
  <2>1. /\ DOMAIN u.files = DOMAIN s
        /\ \A k \in DOMAIN s : u.files[k].path = s[k].path
             /\ u.files[k].ops = IF s[k].path = p THEN Append(s[k].ops, o) ELSE s[k].ops
    BY <1>2, <1>4, <1>7, <1>8, <1>15, AddOtherIs
  <2>2. \A k \in DOMAIN u.files : Sums(u.files[k].ops, u.files[k].path, n)
    BY <1>10, <1>13, <2>1
  <2>3. \A k \in 1..n : Has(u, loaded[k].path)
    BY <1>1, <1>9, <1>11, <1>14, <1>15, <2>1 DEF Has
  <2> QED BY <1>1, <1>6, <1>7, <1>12, <2>2, <2>3 DEF Fills
<1>16. CASE ~Has(t, p)
  <2>1. PICK m : m = Len(s)
    OBVIOUS
  <2>2. /\ DOMAIN u.files = 1..m + 1 /\ m \in Nat /\ DOMAIN s = 1..m
        /\ \A k \in 1..m : u.files[k] = s[k]
        /\ u.files[m + 1].path = p /\ u.files[m + 1].ops = <<o>>
    BY SMTT(30), <1>2, <1>4, <1>7, <1>8, <1>16, <2>1, AddOtherIs
  <2>3. To(p, n - 1) = {}
    BY <1>9, <1>11, <1>16 DEF To
  <2>4. Sums(<<>>, p, n - 1)
    BY <1>2, <2>3, SumsNone
  <2>5. Sums(<<o>>, p, n)
    <3>1. Append(<<>>, o) = <<o>>
      OBVIOUS
    <3> QED BY <1>13, <2>4, <3>1
  <2>6. \A k \in 1..m : Sums(s[k].ops, s[k].path, n)
    <3> TAKE k \in 1..m
    <3>1. s[k].path # p
      BY <1>9, <1>16, <2>2
    <3> QED BY <1>10, <1>13, <2>2, <3>1
  <2>7. \A k \in 1..m + 1 : k \in 1..m \/ k = m + 1
    BY <2>2
  <2>8. \A k \in DOMAIN u.files : Sums(u.files[k].ops, u.files[k].path, n)
    BY <2>2, <2>5, <2>6, <2>7
  <2>9. m + 1 \in 1..m + 1 /\ \A k \in 1..m : k \in 1..m + 1
    BY <2>2
  <2>10. \A k \in 1..n : Has(u, loaded[k].path)
    <3> TAKE k \in 1..n
    <3>1. CASE k = n
      BY <1>1, <2>2, <2>9, <3>1 DEF Has
    <3>2. CASE k \in 1..n - 1
      <4>1. PICK j \in DOMAIN s : s[j].path = loaded[k].path
        BY <1>11, <3>2
      <4>2. j \in DOMAIN u.files /\ u.files[j].path = loaded[k].path
        BY <2>2, <2>9, <4>1
      <4> QED BY <4>2 DEF Has
    <3> QED BY <1>14, <3>1, <3>2
  <2> QED BY <1>1, <1>6, <1>7, <1>12, <2>8, <2>10 DEF Fills
<1> QED BY <1>15, <1>16

\* What has been read.
LEMMA LoadedFacts ==
  ASSUME LogInv
  PROVE  /\ loaded \in Seq(Recs) /\ Len(loaded) \in Nat /\ DOMAIN loaded = 1..Len(loaded)
         /\ \A k \in 1..Len(loaded) : /\ loaded[k].path \in Paths /\ loaded[k].op \in Ops
                                      /\ loaded[k].op # End
<1>1. loaded \in Seq(Records \union {Junk})
  BY DEF LogInv, ReaderInv
<1>2. Records \union {Junk} \subseteq Recs
  BY LogFileAssumption, JunkAssumption
<1>3. loaded \in Seq(Recs) /\ Len(loaded) \in Nat /\ DOMAIN loaded = 1..Len(loaded)
  BY <1>1, <1>2
<1>4. ASSUME NEW k \in 1..Len(loaded)
      PROVE  loaded[k] \in Records \union {Junk} /\ loaded[k] \in Recs
  BY <1>1, <1>3
<1>5. End \notin Ops
  BY PipelineAssumption DEF SentOps
<1>6. ASSUME NEW k \in 1..Len(loaded)
      PROVE  /\ loaded[k].path \in Paths /\ loaded[k].op \in Ops /\ loaded[k].op # End
  BY <1>4, <1>5 DEF Recs
<1> QED BY <1>3, <1>6

\* The tables have all of the records.
LEMMA TablesFill ==
  ASSUME LogInv, KeepsNames
  PROVE  Tables \in Tidy /\ Fills(Tables, Len(loaded))
<1>1. /\ loaded \in Seq(Recs) /\ Len(loaded) \in Nat
      /\ \A k \in 1..Len(loaded) : loaded[k].op.type \notin Removals \union {"LINK"}
  BY LoadedFacts DEF KeepsNames
<1>2. PICK h \in [0..Len(loaded) -> Tidy] :
        /\ h[0] = EmptyTables /\ Tables = h[Len(loaded)]
        /\ \A k \in 1..Len(loaded) :
             h[k - 1] \in Tidy /\ h[k] = AddOperation(h[k - 1], loaded[k].path, loaded[k].op)
  BY <1>1, TablesValues
<1> DEFINE Good == {k \in 0..Len(loaded) : Fills(h[k], k)}
<1>3. 0 \in Good
  <2>1. Fills(EmptyTables, 0)
    <3>1. EmptyTables.id = 0 /\ DOMAIN EmptyTables.files = {} /\ 1..0 = {}
      BY DEF EmptyTables
    <3> QED BY <3>1 DEF Fills
  <2>2. 0 \in 0..Len(loaded)
    BY <1>1
  <2> QED BY <1>2, <2>1, <2>2
<1>4. ASSUME NEW k \in 1..Len(loaded), k - 1 \in Good PROVE k \in Good
  <2>1. Fills(h[k - 1], k - 1) /\ k \in 0..Len(loaded)
    BY <1>4
  <2>2. Fills(h[k], k)
    BY <1>1, <1>2, <2>1, FillsOn
  <2> QED BY <2>1, <2>2
<1>5. Inductive(Good, Len(loaded))
  BY <1>3, <1>4 DEF Inductive
<1>6. Len(loaded) \in Good
  <2>1. \A k \in 0..Len(loaded) : k \in Good
    BY <1>1, <1>5, InductionUpTo
  <2> QED BY <1>1, <2>1
<1> QED BY <1>1, <1>2, <1>6, TablesFacts

-----------------------------------------------------------------------------
(* Every file is still in the table or has been offered, once.             *)

LEMMA DeletedLeaves ==
  ASSUME NEW tb \in ClientTables, NEW p, NEW q, Has(tb, q), q # p
  PROVE  Has(Deleted(tb, p), q)
<1> DEFINE s == tb.files
           i == CHOOSE k \in DOMAIN s : s[k].path = p
           d == Deleted(tb, p)
<1>1. s \in Seq(Entries)
  BY DEF ClientTables
<1>2. PICK j \in DOMAIN s : s[j].path = q
  BY DEF Has
<1>3. CASE ~Has(tb, p)
  BY <1>3 DEF Deleted
<1>4. CASE Has(tb, p)
  <2>1. i \in DOMAIN s /\ s[i].path = p
    BY <1>4 DEF Has
  <2>2. d = [tb EXCEPT !.files = RemoveAt(@, i)]
    BY <1>4 DEF Deleted
  <2> HIDE DEF i, d
  <2>3. d.files = RemoveAt(s, i)
    BY <2>2 DEF ClientTables
  <2> HIDE DEF s
  <2>4. PICK r, m : r = RemoveAt(s, i) /\ m = Len(s)
    OBVIOUS
  <2>5. /\ r \in Seq(Entries) /\ Len(r) = m - 1 /\ m \in Nat /\ DOMAIN s = 1..m
        /\ \A k \in 1..m - 1 : r[k] = IF k < i THEN s[k] ELSE s[k + 1]
    BY <1>1, <2>1, <2>4, RemoveAtFacts
  <2>6. i \in 1..m /\ j \in 1..m /\ j # i /\ DOMAIN r = 1..m - 1
    BY <1>2, <2>1, <2>5
  <2>7. PICK k : k = IF j < i THEN j ELSE j - 1
    OBVIOUS
  <2>8. k \in 1..m - 1 /\ (k < i => k = j) /\ (~(k < i) => k + 1 = j)
    BY <2>5, <2>6, <2>7
  <2>9. r[k] = s[j]
    BY <2>5, <2>8
  <2> QED BY <1>2, <2>3, <2>4, <2>6, <2>8, <2>9 DEF Has, d
<1> QED BY <1>3, <1>4

\* A file that has been offered is an entry, in order.
MadeOf(f, all) == \E j \in DOMAIN all.files : /\ f.path = all.files[j].path
                                              /\ f.ops \in OptimizeOperations(all.files[j].ops)
Accounts(all, tb, off) ==
  /\ \A k \in DOMAIN tb.files : \E j \in DOMAIN all.files : tb.files[k] = all.files[j]
  /\ \A i \in 1..Len(off) : MadeOf(off[i], all) /\ ~Has(tb, off[i].path)
  /\ \A i, j \in 1..Len(off) : off[i].path = off[j].path => i = j
  /\ \A j \in DOMAIN all.files : \/ Has(tb, all.files[j].path)
                                 \/ \E i \in 1..Len(off) : off[i].path = all.files[j].path

LEMMA AccountsOn ==
  ASSUME NEW all, NEW tb \in Tidy, tb.files # <<>>, NEW off \in Seq(Files), Accounts(all, tb, off),
         NEW os \in OptimizeOperations(First(tb.files).ops), NEW x, x.path = First(tb.files).path, x.ops = os
  PROVE  Accounts(all, Deleted(tb, First(tb.files).path), Append(off, x))
<1>1. PICK f, d, u, n : f = First(tb.files) /\ d = Deleted(tb, f.path) /\ u = Append(off, x) /\ n = Len(off)
  OBVIOUS
<1>2. Has(tb, f.path) /\ ~Has(d, f.path) /\ (\A q : Has(d, q) => Has(tb, q))
  BY <1>1, TakenFacts
<1>3. tb \in ClientTables
  BY DEF Tidy
<1>4. \A q : Has(tb, q) /\ q # f.path => Has(d, q)
  BY <1>1, <1>3, DeletedLeaves
<1>5. PICK k \in DOMAIN tb.files : f = tb.files[k]
  <2>1. tb.files \in Seq(Entries)
    BY <1>3 DEF ClientTables
  <2> QED BY <1>1, <2>1, FirstFacts
<1>6. \A j \in DOMAIN d.files : \E i \in DOMAIN tb.files : d.files[j] = tb.files[i]
  <2>1. PICK g \in [DOMAIN d.files -> DOMAIN tb.files] : \A j \in DOMAIN d.files : d.files[j] = tb.files[g[j]]
    BY <1>1, <1>3, DeletedFacts
  <2> QED BY <2>1
<1>7. /\ n \in Nat /\ Len(u) = n + 1 /\ u[n + 1] = x /\ \A i \in 1..n : u[i] = off[i]
      /\ \A i \in 1..n + 1 : i \in 1..n \/ i = n + 1
      /\ n + 1 \in 1..n + 1 /\ \A i \in 1..n : i \in 1..n + 1
  <2>1. n \in Nat /\ Len(u) = n + 1 /\ u[n + 1] = x /\ \A i \in 1..n : u[i] = off[i]
    BY <1>1
  <2> QED BY <2>1
<1>8. MadeOf(x, all)
  <2>1. PICK j \in DOMAIN all.files : f = all.files[j]
    BY <1>5 DEF Accounts
  <2> QED BY <1>1, <2>1 DEF MadeOf
<1>9. \A i \in 1..n : MadeOf(off[i], all) /\ off[i].path # f.path /\ ~Has(d, off[i].path)
  BY <1>1, <1>2 DEF Accounts
<1>10. \A i \in 1..n + 1 : MadeOf(u[i], all) /\ ~Has(d, u[i].path)
  BY <1>1, <1>2, <1>7, <1>8, <1>9
<1>11. \A i, j \in 1..n + 1 : u[i].path = u[j].path => i = j
  <2> SUFFICES ASSUME NEW i \in 1..n + 1, NEW j \in 1..n + 1, u[i].path = u[j].path PROVE i = j
    OBVIOUS
  <2>1. CASE i \in 1..n /\ j \in 1..n
    BY <1>1, <1>7, <2>1 DEF Accounts
  <2>2. CASE i = n + 1 /\ j \in 1..n
    BY <1>1, <1>7, <1>9, <2>2
  <2>3. CASE i \in 1..n /\ j = n + 1
    BY <1>1, <1>7, <1>9, <2>3
  <2> QED BY <1>7, <2>1, <2>2, <2>3
<1>12. \A j \in DOMAIN d.files : \E i \in DOMAIN all.files : d.files[j] = all.files[i]
  <2> TAKE j \in DOMAIN d.files
  <2>1. PICK i \in DOMAIN tb.files : d.files[j] = tb.files[i]
    BY <1>6
  <2> QED BY <2>1 DEF Accounts
<1>13. \A j \in DOMAIN all.files : \/ Has(d, all.files[j].path)
                                   \/ \E i \in 1..n + 1 : u[i].path = all.files[j].path
  <2> TAKE j \in DOMAIN all.files
  <2>1. CASE all.files[j].path = f.path
    BY <1>1, <1>7, <2>1
  <2>2. CASE all.files[j].path # f.path /\ Has(tb, all.files[j].path)
    BY <1>4, <2>2
  <2>3. ASSUME NEW i \in 1..n, off[i].path = all.files[j].path
        PROVE  \E m \in 1..n + 1 : u[m].path = all.files[j].path
    BY <1>7, <2>3
  <2> QED BY <1>1, <2>1, <2>2, <2>3 DEF Accounts
<1> QED BY <1>1, <1>7, <1>10, <1>11, <1>12, <1>13 DEF Accounts

\* What has been read is what it was.
LEMMA TablesStay ==
  ASSUME UNCHANGED loaded
  PROVE  Tables' = Tables
BY DEF Tables, FoldLeft, MapThenFoldSet

LEMMA LoadedStays ==
  ASSUME stage = "loaded", PNext \/ UNCHANGED pvars
  PROVE  UNCHANGED loaded
<1>1. ASSUME NEW r, LogGeneric(r) PROVE UNCHANGED loaded
  BY <1>1 DEF LogGeneric, reader
<1>2. ASSUME NEW n, GoDown(n) PROVE UNCHANGED loaded
  BY <1>2 DEF GoDown, reader
<1>3. CASE LNext
  BY <1>1, <1>2, <1>3 DEF LNext, Mount, Switched, LoadRecord, LoadFails, reader
<1>4. CASE UNCHANGED lvars
  BY <1>4 DEF lvars, reader
<1> QED BY <1>3, <1>4 DEF PNext, Record, Connect, ClientStep, ServerStep, Breaks, pvars

Account == phase # "off" => Accounts(Tables, tables, offered)

LEMMA AccountKeeps ==
  ASSUME Invariant, Account, PNext \/ UNCHANGED pvars
  PROVE  Account'
<1>1. TypeInv /\ OffInv /\ tables \in Tidy /\ offered \in Seq(Files)
  BY DEF Invariant, Ours, SendInv, ClientInv
<1> SUFFICES ASSUME phase' # "off" PROVE Accounts(Tables', tables', offered')
  BY DEF Account
<1>2. CASE phase = "off"
  <2>1. Connect
    <3>1. ASSUME Client PROVE phase # "off"
      BY <3>1 DEF Client, BeginFile, Flush, LoadOp, FlushFull, EndFile, EndFiles, Confirmed, AtOp
    <3>2. ASSUME Server PROVE phase' = phase
      BY <3>2 DEF Server, ReceiveChunk, ReceiveNothing, Finish
    <3>3. ASSUME Break PROVE phase' = phase
      BY <3>3 DEF Break
    <3> QED BY <1>2, <3>1, <3>2, <3>3 DEF PNext, Record, ClientStep, ServerStep, Breaks, pvars, tvars
  <2>2. tables' = Tables /\ offered' = <<>> /\ loaded' = loaded
    BY <1>1, <1>2, <2>1 DEF Connect, StartTransfer, OffInv, lvars, reader
  <2>3. PICK t : t = Tables
    OBVIOUS
  <2>4. Tables' = t /\ tables' = t
    BY <2>2, <2>3, TablesStay
  <2>5. Accounts(t, t, <<>>)
    <3>1. 1..Len(<<>>) = {}
      OBVIOUS
    <3>2. \A j \in DOMAIN t.files : Has(t, t.files[j].path)
      BY DEF Has
    <3> QED BY <3>1, <3>2 DEF Accounts
  <2> QED BY <2>2, <2>4, <2>5
<1>3. CASE phase # "off"
  <2>1. Accounts(Tables, tables, offered) /\ stage = "loaded"
    BY <1>1, <1>3 DEF Account, OffInv
  <2>2. PICK t : t = Tables
    OBVIOUS
  <2>3. Tables' = t
    BY <2>1, <2>2, LoadedStays, TablesStay
  <2>4. CASE BeginFile
    <3>1. /\ tables.files # <<>>
          /\ \E f \in {First(tables.files)} : \E os \in OptimizeOperations(f.ops) :
               /\ tables' = Deleted(tables, f.path)
               /\ offered' = Append(offered, [path |-> f.path, ops |-> os])
      BY <2>4 DEF BeginFile
    <3>2. PICK os \in OptimizeOperations(First(tables.files).ops) :
            /\ tables' = Deleted(tables, First(tables.files).path)
            /\ offered' = Append(offered, [path |-> First(tables.files).path, ops |-> os])
      BY <3>1
    <3>3. PICK x : x = [path |-> First(tables.files).path, ops |-> os]
      OBVIOUS
    <3>4. x.path = First(tables.files).path /\ x.ops = os
      BY <3>3
    <3>5. Accounts(t, Deleted(tables, First(tables.files).path), Append(offered, x))
      BY <1>1, <2>1, <2>2, <3>1, <3>4, AccountsOn
    <3> QED BY <2>3, <3>2, <3>3, <3>5
  <2>5. CASE ~BeginFile
    <3>1. UNCHANGED <<tables, offered>>
      <4>1. CASE ClientStep
        BY <2>5, <4>1 DEF ClientStep, Client, Flush, LoadOp, FlushFull, EndFile, EndFiles, Confirmed, filevars
      <4>2. CASE ServerStep
        BY <4>2 DEF ServerStep, Server, ReceiveChunk, ReceiveNothing, Finish, filevars
      <4>3. CASE Breaks
        BY <4>3 DEF Breaks, Break, filevars
      <4>4. CASE Record \/ UNCHANGED pvars
        BY <4>4 DEF Record, pvars, tvars
      <4>5. ~Connect
        BY <1>3 DEF Connect
      <4> QED BY <4>1, <4>2, <4>3, <4>4, <4>5 DEF PNext
    <3> QED BY <2>1, <2>2, <2>3, <3>1
  <2> QED BY <2>4, <2>5
<1> QED BY <1>2, <1>3

LEMMA AccountInvariant == PSpec => []Account
<1>1. PInit => Account
  BY DEF PInit, TInit, Account
<1>2. Invariant /\ Account /\ [PNext]_pvars => Account'
  BY AccountKeeps
<1> QED BY <1>1, <1>2, PipelineInvariant, PTL DEF PSpec

-----------------------------------------------------------------------------
(* What all of the stream has of a file.                                   *)

\* Each item is of a file, at a place in it.
LEMMA PlaceOf ==
  ASSUME NEW fs \in Seq(PlainFiles), NEW s \in Seq(Items), NEW e, Marks(fs, s, e),
         NEW i \in 1..Len(s)
  PROVE  \E k \in 1..Len(fs) : \E j \in 1..Len(fs[k].ops) + 1 : i = e[k - 1] + j
<1>1. PICK n, m : n = Len(fs) /\ m = Len(s)
  OBVIOUS
<1>2. /\ n \in Nat /\ m \in Nat /\ e \in [0..n -> Nat] /\ e[0] = 0 /\ e[n] = m
      /\ \A k \in 1..n : e[k] = e[k - 1] + Len(fs[k].ops) + 1
  BY <1>1 DEF Marks
<1> DEFINE P(a) == \E k \in 1..n : \E j \in 1..Len(fs[k].ops) + 1 : a = e[k - 1] + j
           Good == {a \in 0..n : \A x \in 1..e[a] : P(x)}
<1>3. 0 \in Good
  <2>1. 1..e[0] = {} /\ 0 \in 0..n
    BY <1>2
  <2> QED BY <2>1
<1>4. ASSUME NEW k \in 1..n, k - 1 \in Good PROVE k \in Good
  <2>1. \A x \in 1..e[k - 1] : P(x)
    BY <1>4
  <2> HIDE DEF Good
  <2>2. ASSUME NEW x \in 1..e[k], x \notin 1..e[k - 1] PROVE P(x)
    <3>1. PICK b, c, l : b = e[k - 1] /\ c = e[k] /\ l = Len(fs[k].ops)
      OBVIOUS
    <3>2. fs[k] \in PlainFiles
      BY <1>1
    <3>3. b \in Nat /\ l \in Nat /\ c = b + l + 1 /\ x \in 1..c /\ x \notin 1..b
      <4>1. l \in Nat
        BY <3>1, <3>2 DEF PlainFiles
      <4>2. k - 1 \in 0..n
        BY <1>2
      <4> QED BY <1>2, <2>2, <3>1, <4>1, <4>2
    <3>4. PICK j : j = x - b
      OBVIOUS
    <3>5. j \in 1..l + 1 /\ x = b + j
      BY <3>3, <3>4
    <3> QED BY <3>1, <3>5
  <2>3. k \in 0..n
    BY <1>2
  <2> HIDE DEF P
  <2>4. \A x \in 1..e[k] : P(x)
    BY <2>1, <2>2
  <2> QED BY <2>3, <2>4 DEF Good
<1>5. n \in Good
  <2> HIDE DEF Good
  <2>1. Inductive(Good, n)
    BY <1>3, <1>4 DEF Inductive
  <2>2. \A k \in 0..n : k \in Good
    BY <1>2, <2>1, InductionUpTo
  <2> QED BY <1>2, <2>2
<1>6. \A x \in 1..m : P(x)
  BY <1>2, <1>5
<1> QED BY <1>1, <1>6

\* What two operations have in common when they are the same without data.
Alike(a, b) == /\ a.type = b.type
               /\ a.type # "WRITE" => a = b
               /\ a.type = "WRITE" => Span(a) = Span(b)

LEMMA PlainAlike ==
  ASSUME NEW a \in SentOps, NEW b \in SentOps, Plain(a) = Plain(b)
  PROVE  Alike(a, b)
<1>1. /\ a.type = Plain(a).type /\ b.type = Plain(b).type
      /\ a.type # "WRITE" => Plain(a) = a
      /\ b.type # "WRITE" => Plain(b) = b
  BY SentFacts
<1>2. ASSUME NEW o \in SentOps, o.type = "WRITE" PROVE Span(o) = Span(Plain(o))
  <2>1. o \in WriteOps \union SentWrites /\ Plain(o) = [o EXCEPT !.data = <<>>]
    BY <1>2, SentFacts
  <2>2. PICK u : u = [o EXCEPT !.data = <<>>]
    OBVIOUS
  <2>3. u.offset = o.offset /\ u.size = o.size
    BY <2>1, <2>2 DEF WriteOps, SentWrites
  <2>4. Span(u) = Span(o)
    BY <2>3 DEF Span
  <2> QED BY <2>1, <2>2, <2>4
<1> QED BY <1>1, <1>2 DEF Alike

\* The operations at b + 1 to b + m.
Held(l, p, b, ops) ==
  /\ \A i : i \in Of(p, l) <=> \E j \in 1..Len(ops) : i = b + j
  /\ \A j \in 1..Len(ops) : l[b + j].op \in SentOps /\ Plain(l[b + j].op) = ops[j]

LEMMA AllReceived ==
  ASSUME NEW fs \in Seq(PlainFiles), NEW s \in Seq(Items), NEW e, Marks(fs, s, e),
         NEW l, NEW ex, Begins(l, s, ex), Len(l) = Len(s), NEW p,
         \A i, j \in 1..Len(fs) : fs[i].path = fs[j].path => i = j
  PROVE  /\ (\A k \in 1..Len(fs) : fs[k].path # p) => Of(p, l) = {}
         /\ \A k \in 1..Len(fs) : fs[k].path = p => Held(l, p, e[k - 1], fs[k].ops)
<1>0. \A i \in 1..Len(s) : \E k \in 1..Len(fs) : \E j \in 1..Len(fs[k].ops) + 1 : i = e[k - 1] + j
  BY SMTT(30), PlaceOf
<1>1. PICK n, m : n = Len(fs) /\ m = Len(s)
  OBVIOUS
<1>2. /\ n \in Nat /\ m \in Nat /\ e \in [0..n -> Nat]
      /\ \A k \in 1..n :
           /\ e[k] = e[k - 1] + Len(fs[k].ops) + 1 /\ e[k] <= m
           /\ \A j \in 1..Len(fs[k].ops) : s[e[k - 1] + j] = <<fs[k].path, fs[k].ops[j]>>
           /\ s[e[k]] = <<fs[k].path, End>>
  <2>1. n \in Nat /\ m \in Nat
    BY <1>1
  <2> QED BY <1>1, <2>1 DEF Marks
<1>3. /\ l \in Seq(GotItems) /\ DOMAIN l = 1..m
      /\ \A i \in 1..m : s[i] = <<l[i].path, Plain(l[i].op)>>
  BY <1>1, <1>2 DEF Begins, Item
<1>4. \A i \in 1..m : l[i].op = End \/ l[i].op \in SentOps
  <2> TAKE i \in 1..m
  <2>1. PICK r : r = l[i]
    OBVIOUS
  <2>2. r \in GotItems
    <3>1. l \in Seq(GotItems) /\ m = Len(l)
      BY <1>1, <1>3
    <3> QED BY <2>1, <3>1
  <2>3. r.op = End \/ r.op \in SentOps
    BY <2>2 DEF GotItems
  <2> QED BY <2>1, <2>3
<1>5. \A i \in 1..m : l[i].op = End <=> Plain(l[i].op) = End
  <2>1. Plain(End) = End
    BY DEF Plain
  <2> QED BY <1>4, <2>1, SentFacts
<1>6. ASSUME NEW k \in 1..n
      PROVE  /\ Len(fs[k].ops) \in Nat /\ e[k - 1] \in Nat
             /\ \A j \in 1..Len(fs[k].ops) : fs[k].ops[j] \in Ops /\ fs[k].ops[j] # End
                                             /\ e[k - 1] + j \in 1..m
  <2>1. fs[k] \in PlainFiles
    BY <1>1
  <2>2. PICK a, b, c, o : a = Len(fs[k].ops) /\ b = e[k - 1] /\ c = e[k] /\ o = fs[k].ops
    OBVIOUS
  <2>3. o \in Seq(Ops) /\ a = Len(o)
    BY <2>1, <2>2 DEF PlainFiles
  <2>4. a \in Nat /\ (\A j \in 1..a : o[j] \in Ops)
    BY <2>3
  <2>5. b \in Nat /\ c = b + a + 1 /\ c <= m
    <3>1. k - 1 \in 0..n
      BY <1>2
    <3> QED BY <1>2, <2>2, <3>1
  <2>6. \A j \in 1..a : b + j \in 1..m
    BY <1>2, <2>4, <2>5
  <2>7. End \notin Ops
    BY PipelineAssumption DEF SentOps
  <2> QED BY <2>2, <2>4, <2>5, <2>6, <2>7
<1>7. ASSUME NEW i \in Of(p, l)
      PROVE  \E k \in 1..n : fs[k].path = p /\ \E j \in 1..Len(fs[k].ops) : i = e[k - 1] + j
  <2>1. i \in 1..m /\ l[i].path = p /\ l[i].op # End
    BY <1>3, <1>7 DEF Of
  <2>2. PICK k \in 1..n : \E j \in 1..Len(fs[k].ops) + 1 : i = e[k - 1] + j
    BY <1>0, <1>1, <2>1
  <2>3. PICK j \in 1..Len(fs[k].ops) + 1 : i = e[k - 1] + j
    BY <2>2
  <2>4. CASE j \in 1..Len(fs[k].ops)
    <3>1. s[i] = <<fs[k].path, fs[k].ops[j]>>
      BY <1>2, <2>3, <2>4
    <3> QED BY <1>3, <2>1, <2>3, <2>4, <3>1
  <2>5. CASE j \notin 1..Len(fs[k].ops)
    <3>1. PICK a, b : a = Len(fs[k].ops) /\ b = e[k - 1]
      OBVIOUS
    <3>2. a \in Nat /\ b \in Nat /\ j \in 1..a + 1 /\ j \notin 1..a
      BY <1>6, <2>5, <3>1
    <3>3. j = a + 1
      BY <3>2
    <3>4. i = b + a + 1
      <4>1. i = b + j
        BY <2>3, <3>1
      <4> QED BY <3>2, <3>3, <4>1
    <3>5. i = e[k]
      BY <1>2, <3>1, <3>4
    <3>6. s[i] = <<fs[k].path, End>>
      BY <1>2, <3>5
    <3>7. Plain(l[i].op) = End
      BY <1>3, <2>1, <3>6
    <3> QED BY <1>5, <2>1, <3>7
  <2> QED BY <2>4, <2>5
<1>8. ASSUME NEW k \in 1..n, fs[k].path = p, NEW j \in 1..Len(fs[k].ops)
      PROVE  /\ e[k - 1] + j \in Of(p, l)
             /\ l[e[k - 1] + j].op \in SentOps /\ Plain(l[e[k - 1] + j].op) = fs[k].ops[j]
  <2>1. PICK i : i = e[k - 1] + j
    OBVIOUS
  <2>2. i \in 1..m /\ fs[k].ops[j] # End /\ s[i] = <<p, fs[k].ops[j]>>
    BY <1>2, <1>6, <1>8, <2>1
  <2>3. l[i].path = p /\ Plain(l[i].op) = fs[k].ops[j]
    BY <1>3, <2>2
  <2>4. l[i].op # End
    BY <1>5, <2>2, <2>3
  <2>5. i \in Of(p, l)
    BY <1>3, <2>2, <2>3, <2>4 DEF Of
  <2> QED BY <1>4, <2>1, <2>2, <2>3, <2>4, <2>5
<1>9. ASSUME NEW k \in 1..n, fs[k].path = p PROVE Held(l, p, e[k - 1], fs[k].ops)
  <2>1. ASSUME NEW i \in Of(p, l) PROVE \E j \in 1..Len(fs[k].ops) : i = e[k - 1] + j
    BY <1>1, <1>7, <1>9, <2>1
  <2>2. \A i : i \in Of(p, l) <=> \E j \in 1..Len(fs[k].ops) : i = e[k - 1] + j
    BY <1>8, <1>9, <2>1
  <2> QED BY <1>8, <1>9, <2>2 DEF Held
<1> QED BY <1>1, <1>7, <1>9

\* What has been received of a file is what was offered.
LEMMA HeldAre ==
  ASSUME NEW l, NEW p, NEW b \in Nat, NEW f \in Files, Held(l, p, b, PlainFile(f).ops)
  PROVE  /\ {l[k].op : k \in Others(p, l)} = Rests(f.ops)
         /\ Cardinality(Others(p, l)) = Count(f.ops)
         /\ UNION {Span(l[k].op) : k \in Writes(p, l)} = Spans(f.ops)
<1>1. PICK o, m, v : o = f.ops /\ m = Len(f.ops) /\ v = PlainFile(f).ops
  OBVIOUS
<1>2. /\ o \in Seq(Ops) /\ m \in Nat /\ DOMAIN o = 1..m /\ Len(v) = m
      /\ \A j \in 1..m : o[j] \in Ops /\ o[j] \in SentOps /\ v[j] = Plain(o[j])
  <2>1. o \in Seq(Ops)
    BY <1>1 DEF Files
  <2>2. m \in Nat /\ DOMAIN o = 1..m /\ \A j \in 1..m : o[j] \in Ops
    BY <1>1, <2>1
  <2>3. Len(v) = m /\ \A j \in 1..m : v[j] = Plain(o[j])
    BY <1>1, PlainFileFacts
  <2> QED BY <2>1, <2>2, <2>3 DEF SentOps
<1>3. /\ \A i : i \in Of(p, l) <=> \E j \in 1..m : i = b + j
      /\ \A j \in 1..m : l[b + j].op \in SentOps /\ Plain(l[b + j].op) = Plain(o[j])
  BY <1>1, <1>2 DEF Held
<1>4. \A j \in 1..m : Alike(l[b + j].op, o[j])
  BY <1>2, <1>3, PlainAlike
<1>5. \A i : i \in Others(p, l) <=> \E j \in 1..m : i = b + j /\ o[j].type # "WRITE"
  <2>1. \A i : i \in Others(p, l) <=> i \in Of(p, l) /\ l[i].op.type # "WRITE"
    BY DEF Others, Writes
  <2> QED BY <1>3, <1>4, <2>1 DEF Alike
<1>6. \A i : i \in Writes(p, l) <=> \E j \in 1..m : i = b + j /\ o[j].type = "WRITE"
  <2>1. \A i : i \in Writes(p, l) <=> i \in Of(p, l) /\ l[i].op.type = "WRITE"
    BY DEF Writes
  <2> QED BY <1>3, <1>4, <2>1 DEF Alike
<1>7. /\ \A j : j \in Rest(o) <=> j \in 1..m /\ o[j].type # "WRITE"
      /\ \A j : j \in WritesOf(o) <=> j \in 1..m /\ o[j].type = "WRITE"
  BY <1>2 DEF Rest, WritesOf
<1>8. {l[k].op : k \in Others(p, l)} = Rests(o)
  <2>1. \A j \in Rest(o) : l[b + j].op = o[j] /\ b + j \in Others(p, l)
    BY <1>4, <1>5, <1>7 DEF Alike
  <2>2. \A i \in Others(p, l) : \E j \in Rest(o) : i = b + j
    BY <1>5, <1>7
  <2> QED BY <2>1, <2>2 DEF Rests
<1>9. UNION {Span(l[k].op) : k \in Writes(p, l)} = Spans(o)
  <2>1. \A j \in WritesOf(o) : Span(l[b + j].op) = Span(o[j]) /\ b + j \in Writes(p, l)
    BY <1>4, <1>6, <1>7 DEF Alike
  <2>2. \A i \in Writes(p, l) : \E j \in WritesOf(o) : i = b + j
    BY <1>6, <1>7
  <2>3. {Span(l[k].op) : k \in Writes(p, l)} = {Span(o[j]) : j \in WritesOf(o)}
    BY <2>1, <2>2
  <2> QED BY <2>3 DEF Spans
<1>10. Cardinality(Others(p, l)) = Count(o)
  <2> DEFINE g == [j \in Rest(o) |-> b + j]
  <2>1. IsFiniteSet(Rest(o))
    BY <1>2, CountType
  <2>2. \A j \in Rest(o) : j \in Nat /\ g[j] = b + j
    BY <1>7
  <2>3. g \in [Rest(o) -> Others(p, l)] /\ \A i \in Others(p, l) : \E j \in Rest(o) : g[j] = i
    BY <1>5, <1>7
  <2> HIDE DEF g
  <2>4. \A j, k \in Rest(o) : g[j] = g[k] => j = k
    BY <2>2
  <2>5. g \in Bijection(Rest(o), Others(p, l))
    BY <2>3, <2>4 DEF Bijection, Injection, Surjection, IsInjective
  <2>6. Cardinality(Others(p, l)) = Cardinality(Rest(o))
    BY <2>1, <2>5, FS_Bijection DEF ExistsBijection
  <2> QED BY <2>6 DEF Count
<1> QED BY <1>1, <1>8, <1>9, <1>10

\* What is received and not recorded, or the other way round, there is none of.
LEMMA NoneAre ==
  ASSUME NEW l, NEW p, Of(p, l) = {}
  PROVE  /\ {l[k].op : k \in Others(p, l)} = {} /\ Cardinality(Others(p, l)) = 0
         /\ UNION {Span(l[k].op) : k \in Writes(p, l)} = {}
<1>1. Others(p, l) = {} /\ Writes(p, l) = {}
  BY DEF Others, Writes
<1> QED BY <1>1, FS_EmptySet

-----------------------------------------------------------------------------
(* Everything arrives.                                                     *)

\* What was recorded, in the terms of the tables.
LEMMA RecordedIs ==
  ASSUME LogInv, NEW p
  PROVE  LET n == Len(loaded)
         IN  Of(p, loaded) = To(p, n) /\ Others(p, loaded) = OthersTo(p, n)
             /\ Writes(p, loaded) = WritesTo(p, n)
<1>1. DOMAIN loaded = 1..Len(loaded) /\ \A k \in 1..Len(loaded) : loaded[k].op # End
  BY LoadedFacts
<1>2. Of(p, loaded) = To(p, Len(loaded))
  BY <1>1 DEF Of, To
<1>3. Writes(p, loaded) = WritesTo(p, Len(loaded))
  BY <1>2 DEF Writes, WritesTo
<1>4. Others(p, loaded) = OthersTo(p, Len(loaded))
  BY <1>2, <1>3 DEF Others, OthersTo, WritesTo
<1> QED BY <1>2, <1>3, <1>4

AllHasCome(p) ==
  /\ {received[k].op : k \in Others(p, received)}
        = {[loaded[k].op EXCEPT !.id = k - 1] : k \in Others(p, loaded)}
  /\ Cardinality(Others(p, received)) = Cardinality(Others(p, loaded))
  /\ (\A k \in Of(p, loaded) : loaded[k].op.type # "TRUNCATE") =>
       UNION {Span(received[k].op) : k \in Writes(p, received)}
         = UNION {Span(loaded[k].op) : k \in Writes(p, loaded)}

LEMMA CompleteWhenDone ==
  ASSUME Invariant, Account, server = "done", KeepsNames, NEW p \in Paths
  PROVE  AllHasCome(p)
<1>1. /\ LogInv /\ OffInv /\ StreamInv /\ offered \in Seq(Files)
  BY DEF Invariant, Ours, SendInv, ClientInv
<1>2. tables.files = <<>> /\ phase # "off" /\ Len(received) = Len(AllOf)
  BY <1>1 DEF OffInv, StreamInv
<1>3. PICK t, n : t = Tables /\ n = Len(loaded)
  OBVIOUS
<1>4. Accounts(t, tables, offered) /\ t \in Tidy /\ Fills(t, n) /\ n \in Nat
  BY <1>1, <1>2, <1>3, TablesFill, LoadedFacts DEF Account
<1>5. PICK l, s, fs, ex, e : /\ l = received /\ s = AllOf /\ fs = Sent /\ ex = Excuses
                             /\ Marks(fs, s, e)
  BY <1>1 DEF StreamInv
<1>6. /\ Begins(l, s, ex) /\ Len(l) = Len(s) /\ s \in Seq(Items)
      /\ fs \in Seq(PlainFiles) /\ Len(fs) = Len(offered)
      /\ \A k \in 1..Len(fs) : fs[k] = PlainFile(offered[k])
  BY <1>1, <1>2, <1>5, SentType, GotFacts DEF StreamInv
<1>7. \A k \in 1..Len(fs) : offered[k] \in Files /\ fs[k].path = offered[k].path
  <2>1. \A k \in 1..Len(offered) : offered[k] \in Files
    BY <1>1
  <2> QED BY <1>6, <2>1, PlainFileFacts
<1>8. \A i, j \in 1..Len(fs) : fs[i].path = fs[j].path => i = j
  BY <1>4, <1>6, <1>7 DEF Accounts
<1>9. /\ (\A k \in 1..Len(fs) : fs[k].path # p) => Of(p, l) = {}
      /\ \A k \in 1..Len(fs) : fs[k].path = p => Held(l, p, e[k - 1], fs[k].ops)
  BY <1>5, <1>6, <1>8, AllReceived
<1>10. /\ Of(p, loaded) = To(p, n) /\ Others(p, loaded) = OthersTo(p, n)
       /\ Writes(p, loaded) = WritesTo(p, n)
  BY <1>1, <1>3, RecordedIs
<1>11. CASE \A k \in 1..Len(fs) : fs[k].path # p
  <2>1. ASSUME NEW k \in To(p, n) PROVE FALSE
    <3>1. k \in 1..n /\ loaded[k].path = p
      BY <2>1 DEF To
    <3>2. PICK j \in DOMAIN t.files : t.files[j].path = p
      BY <1>4, <3>1 DEF Fills, Has
    <3>3. ~Has(tables, p)
      BY <1>2 DEF Has
    <3>4. \E i \in 1..Len(offered) : offered[i].path = p
      BY <1>4, <3>2, <3>3 DEF Accounts
    <3> QED BY <1>6, <1>7, <1>11, <3>4
  <2>2. Of(p, loaded) = {} /\ Of(p, l) = {}
    BY <1>9, <1>10, <1>11, <2>1
  <2>3. {[loaded[k].op EXCEPT !.id = k - 1] : k \in Others(p, loaded)} = {}
    BY <2>2 DEF Others
  <2> QED BY <1>5, <2>2, <2>3, NoneAre DEF AllHasCome
<1>12. ASSUME NEW k \in 1..Len(fs), fs[k].path = p PROVE AllHasCome(p)
  <2>1. PICK f : f = offered[k]
    OBVIOUS
  <2>2. f \in Files /\ f.path = p /\ Held(l, p, e[k - 1], PlainFile(f).ops) /\ MadeOf(f, t)
    BY <1>4, <1>6, <1>7, <1>9, <1>12, <2>1 DEF Accounts
  <2>3. e[k - 1] \in Nat
    <3>1. Len(fs) \in Nat /\ e \in [0..Len(fs) -> Nat]
      BY <1>5, <1>6 DEF Marks
    <3>2. k - 1 \in 0..Len(fs)
      BY <3>1
    <3> QED BY <3>1, <3>2
  <2>4. /\ {l[i].op : i \in Others(p, l)} = Rests(f.ops)
        /\ Cardinality(Others(p, l)) = Count(f.ops)
        /\ UNION {Span(l[i].op) : i \in Writes(p, l)} = Spans(f.ops)
    BY <2>2, <2>3, HeldAre
  <2>5. PICK j \in DOMAIN t.files : f.path = t.files[j].path /\ f.ops \in OptimizeOperations(t.files[j].ops)
    BY <2>2 DEF MadeOf
  <2>6. PICK a : a = t.files[j].ops
    OBVIOUS
  <2>7. Sums(a, p, n) /\ a # <<>>
    BY <1>4, <2>2, <2>5, <2>6 DEF Fills, Tidy, Consistent, Ranked
  <2>8. a \in Seq(Ops) /\ Left(f.ops, a)
    BY <2>5, <2>6, <2>7, OptimizedFacts DEF Sums
  <2>9. Rests(f.ops) = {Given(i) : i \in OthersTo(p, n)} /\ Count(f.ops) = Cardinality(OthersTo(p, n))
    BY <2>7, <2>8 DEF Sums, Left
  <2>10. ASSUME \A i \in To(p, n) : loaded[i].op.type # "TRUNCATE"
         PROVE  Spans(f.ops) = UNION {Span(loaded[i].op) : i \in WritesTo(p, n)}
    <3>1. \A i \in DOMAIN a : a[i].type # "TRUNCATE"
      BY <2>7, <2>10 DEF Sums
    <3> QED BY <2>7, <2>8, <3>1 DEF Sums, Left
  <2>11. {[loaded[i].op EXCEPT !.id = i - 1] : i \in Others(p, loaded)}
           = {Given(i) : i \in OthersTo(p, n)}
    BY <1>10 DEF Given
  <2>12. {received[i].op : i \in Others(p, received)}
           = {[loaded[i].op EXCEPT !.id = i - 1] : i \in Others(p, loaded)}
    BY <1>5, <2>4, <2>9, <2>11
  <2>13. Cardinality(Others(p, received)) = Cardinality(Others(p, loaded))
    BY <1>5, <1>10, <2>4, <2>9
  <2>14. (\A i \in Of(p, loaded) : loaded[i].op.type # "TRUNCATE") =>
           UNION {Span(received[i].op) : i \in Writes(p, received)}
             = UNION {Span(loaded[i].op) : i \in Writes(p, loaded)}
    BY <1>5, <1>10, <2>4, <2>10
  <2> QED BY <2>12, <2>13, <2>14 DEF AllHasCome
<1> QED BY <1>11, <1>12

\* The data of a write is that of its file.
LEMMA DataArrives ==
  ASSUME Invariant, NEW k \in DOMAIN received, received[k].op # End, received[k].op.type = "WRITE"
  PROVE  LET r == received[k]
         IN  /\ r.to = r.path
             /\ \/ r.op.data = [n \in 1..r.op.size |-> Byte(r.path, r.op.offset + n - 1)]
                \/ /\ r.op.data = <<>>
                   /\ faults > 0 \/ r.op.offset + r.op.size > snapshot[r.path]
<1>1. Begins(received, AllOf, Excuses)
  BY DEF Invariant, Ours, StreamInv
<1>2. PICK r : r = received[k]
  OBVIOUS
<1>3. received \in Seq(GotItems) /\ k \in 1..Len(received)
  BY <1>1 DEF Begins
<1>4. RightWrite(r, Excuses)
  BY <1>1, <1>2, <1>3 DEF Begins
<1>5. r.to = r.path /\ RightData(r.path, r.op, Excuses)
  BY <1>2, <1>4 DEF RightWrite
<1>6. <<r.path, r.op.offset + r.op.size>> \in Excuses =>
        faults > 0 \/ r.op.offset + r.op.size > snapshot[r.path]
  BY DEF Excuses
<1> QED BY <1>2, <1>5, <1>6 DEF RightData

\* Writes come with the data of their own file, and when handleClient() has finished
\* all that was in a log that keeps the names of files has come: through addOperation(),
\* optimizeOperations(), chunks and messages no operation is lost, doubled or given to
\* another file.
THEOREM EverythingArrives == PSpec => []Arrives
<1>1. ASSUME Invariant, Account PROVE Arrives
  <2>1. server = "done" /\ KeepsNames => \A p \in Paths : AllHasCome(p)
    BY <1>1, CompleteWhenDone
  <2> QED BY <1>1, <2>1, DataArrives DEF Arrives, AllHasCome
<1> QED BY <1>1, PipelineInvariant, AccountInvariant, PTL
===============================================================================
