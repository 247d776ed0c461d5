---------------------------- MODULE Compaction_proofs ----------------------------
(***************************************************************************)
(* What addOperation(), matchInodefiles() and optimizeOperations() make of *)
(* any log, for any number of names, operations and bytes, with the facts  *)
(* about folds that this rests on.                                         *)
(***************************************************************************)
EXTENDS Compaction, LogRecords, NaturalsInduction, WellFoundedInduction,
        FiniteSetTheorems, TLAPS

-----------------------------------------------------------------------------
(* Induction over the natural numbers and what it says of the folds of the *)
(* community modules, stated with sets and functions for parameters, as    *)
(* the provers do not instantiate operators.                               *)

\* A set of natural numbers has a least one.
LEMMA LeastNumber ==
  ASSUME NEW T, T \subseteq Nat, T # {}
  PROVE  \E x \in T : \A y \in T : x <= y
<1> DEFINE R == OpToRel(<, Nat)
<1>1. IsWellFoundedOn(R, Nat)
  BY NatLessThanWellFounded
<1> HIDE DEF R
<1>2. PICK x \in T : \A y \in T : <<y, x>> \notin R
  BY <1>1, WFMin
<1>3. \A y, z \in Nat : <<y, z>> \in R <=> y < z
  BY DEF R, OpToRel
<1>4. \A y \in T : ~(y < x)
  BY <1>2, <1>3
<1> QED BY ONLY <1>4, T \subseteq Nat, x \in T

\* A set with 0 that is closed under successors has all of them.
LEMMA Induction ==
  ASSUME NEW S, 0 \in S, \A n \in Nat : n \in S => n + 1 \in S
  PROVE  \A n \in Nat : n \in S
<1> SUFFICES ASSUME Nat \ S # {} PROVE FALSE
  OBVIOUS
<1>1. PICK x \in Nat \ S : \A y \in Nat \ S : x <= y
  BY LeastNumber
<1>2. x # 0 /\ x - 1 \in Nat /\ ~(x <= x - 1)
  BY <1>1
<1>3. x - 1 \in S
  BY <1>1, <1>2
<1>4. (x - 1) + 1 = x
  BY <1>1
<1> QED BY <1>1, <1>2, <1>3, <1>4

\* The same up to a bound.
Inductive(S, n) == 0 \in S /\ \A k \in 1..n : k - 1 \in S => k \in S

LEMMA InductionUpTo ==
  ASSUME NEW n \in Nat, NEW S, Inductive(S, n)
  PROVE  \A k \in 0..n : k \in S
<1> DEFINE T == {k \in Nat : k <= n => k \in S}
<1>1. 0 \in T
  BY DEF Inductive
<1>2. \A k \in Nat : k \in T => k + 1 \in T
  <2> SUFFICES ASSUME NEW k \in Nat, k \in T, k + 1 <= n PROVE k + 1 \in S
    OBVIOUS
  <2>1. k \in S /\ k + 1 \in 1..n /\ (k + 1) - 1 = k
    OBVIOUS
  <2> QED BY <2>1 DEF Inductive
<1> HIDE DEF T
<1>3. \A k \in Nat : k \in T
  BY <1>1, <1>2, Induction
<1> QED BY <1>3 DEF T

\* So has a finite set of them a greatest one.
LEMMA MaxIn ==
  ASSUME NEW n \in Nat, NEW s \in SUBSET (1..n), s # {}
  PROVE  /\ Max(s) \in s
         /\ \A y \in s : y <= Max(s)
         /\ s \ {Max(s)} \in SUBSET (1..n)
         /\ \A k \in Nat : s \subseteq 1..k + 1 => s \ {Max(s)} \subseteq 1..k
<1>1. \E x \in s : \A y \in s : x >= y
  <2> DEFINE T == {n - y : y \in s}
  <2>1. T \subseteq Nat /\ T # {}
    <3>1. \A y \in s : n - y \in Nat
      <4> TAKE y \in s
      <4>1. y \in 1..n
        OBVIOUS
      <4> QED BY <4>1
    <3> QED BY <3>1
  <2>2. PICK z \in T : \A y \in T : z <= y
    BY <2>1, LeastNumber
  <2>3. PICK x \in s : z = n - x
    BY <2>2
  <2>4. \A y \in s : n - x <= n - y
    BY <2>2, <2>3
  <2>5. \A y \in s : x >= y
    <3> TAKE y \in s
    <3>1. x \in 1..n /\ y \in 1..n /\ n - x <= n - y
      BY <2>4
    <3> QED BY <3>1
  <2> QED BY <2>5
<1>2. Max(s) \in s /\ \A y \in s : Max(s) >= y
  BY <1>1 DEF Max
<1> DEFINE x == Max(s)
<1> HIDE DEF x
<1>3. x \in 1..n /\ \A y \in s : y \in 1..n /\ y <= x
  BY <1>2 DEF x
<1>4. \A k \in Nat : s \subseteq 1..k + 1 => s \ {x} \subseteq 1..k
  <2> SUFFICES ASSUME NEW k \in Nat, s \subseteq 1..k + 1, NEW y \in s, y # x
               PROVE  y \in 1..k
    OBVIOUS
  <2>1. x \in 1..k + 1 /\ y \in 1..n /\ y <= x
    BY <1>2, <1>3 DEF x
  <2> QED BY <2>1, <1>3
<1> QED BY <1>2, <1>3, <1>4 DEF x

-----------------------------------------------------------------------------
(* FoldLeft over a sequence of length n is the function it at 1..n.        *)

\* The values of the fold of 1..n that F goes through from a base.
Goes(it, n, base, F) ==
  \A s \in SUBSET (1..n) :
    it[s] = IF s = {} THEN base ELSE F[<<Max(s), it[s \ {Max(s)}]>>]

\* The recursive function is there, if one step is a function from the place and
\* the value before to the value after.
LEMMA FoldExists ==
  ASSUME NEW n \in Nat, NEW V, NEW base \in V, NEW F \in [(1..n) \X V -> V]
  PROVE  \E it \in [SUBSET (1..n) -> V] : Goes(it, n, base, F)
<1> DEFINE Step(g, m) == [s \in SUBSET (1..m) |->
                            IF s = {} THEN base ELSE F[<<Max(s), g[s \ {Max(s)}]>>]]
           Good(m, g) == g \in [SUBSET (1..m) -> V] /\ g = Step(g, m)
           S == {m \in Nat : m <= n => \E g : Good(m, g)}
<1> HIDE DEF Good
<1>1. 0 \in S
  <2> DEFINE g == [s \in SUBSET (1..0) |-> base]
  <2>1. \A s \in SUBSET (1..0) : s = {}
    OBVIOUS
  <2>2. Good(0, g)
    BY <2>1 DEF Good
  <2> QED BY <2>2
<1>2. ASSUME NEW m \in Nat, m \in S PROVE m + 1 \in S
  <2> SUFFICES ASSUME m + 1 <= n PROVE \E g : Good(m + 1, g)
    OBVIOUS
  <2>0. m <= n
    OBVIOUS
  <2>1. PICK g : Good(m, g)
    BY <1>2, <2>0
  <2> DEFINE h == Step(g, m + 1)
  <2>2. \A s \in SUBSET (1..m + 1) : s # {} =>
          Max(s) \in 1..n /\ s \ {Max(s)} \in SUBSET (1..m)
    <3> SUFFICES ASSUME NEW s \in SUBSET (1..m + 1), s # {}
                 PROVE  Max(s) \in 1..n /\ s \ {Max(s)} \in SUBSET (1..m)
      OBVIOUS
    <3>1. s \in SUBSET (1..n)
      OBVIOUS
    <3>2. Max(s) \in s /\ s \ {Max(s)} \subseteq 1..m
      BY <3>1, MaxIn
    <3> QED BY <3>1, <3>2
  <2>3. h \in [SUBSET (1..m + 1) -> V]
    BY <2>1, <2>2 DEF Good
  <2>4. \A s \in SUBSET (1..m) : h[s] = g[s]
    <3>1. SUBSET (1..m) \subseteq SUBSET (1..m + 1)
      OBVIOUS
    <3>2. \A s \in SUBSET (1..m) : g[s] = Step(g, m)[s]
      BY <2>1 DEF Good
    <3> QED BY <3>1, <3>2
  <2>5. h = Step(h, m + 1)
    BY <2>2, <2>4
  <2>6. Good(m + 1, h)
    BY <2>3, <2>5 DEF Good
  <2> QED BY <2>6
<1> HIDE DEF S
<1>3. n \in S
  BY <1>1, <1>2, Induction
<1>4. PICK g : Good(n, g)
  <2>1. n <= n
    OBVIOUS
  <2> QED BY <1>3, <2>1 DEF S
<1> QED BY <1>4 DEF Good, Goes

\* What holds of the value at the beginning and is kept by every step holds of all.
LEMMA FoldKeeps ==
  ASSUME NEW n \in Nat, NEW V, NEW it, it[{}] \in V,
         \A s \in SUBSET (1..n) : s # {} /\ it[s \ {Max(s)}] \in V => it[s] \in V
  PROVE  \A s \in SUBSET (1..n) : it[s] \in V
<1> DEFINE S == {m \in Nat : \A s \in SUBSET (1..n) : s \subseteq 1..m => it[s] \in V}
<1>1. 0 \in S
  <2>1. \A s \in SUBSET (1..0) : s = {}
    OBVIOUS
  <2> QED BY <2>1
<1>2. ASSUME NEW m \in Nat, m \in S PROVE m + 1 \in S
  <2> SUFFICES ASSUME NEW s \in SUBSET (1..n), s \subseteq 1..m + 1, s # {}
               PROVE  it[s] \in V
    OBVIOUS
  <2>1. s \ {Max(s)} \subseteq 1..m /\ s \ {Max(s)} \in SUBSET (1..n)
    BY MaxIn
  <2> QED BY <1>2, <2>1
<1> HIDE DEF S
<1>3. n \in S
  BY <1>1, <1>2, Induction
<1> QED BY <1>3 DEF S

\* One element more.
LEMMA FoldPrefix ==
  ASSUME NEW k \in Nat
  PROVE  /\ 1..0 = {}
         /\ 1..k + 1 # {}
         /\ Max(1..k + 1) = k + 1
         /\ (1..k + 1) \ {Max(1..k + 1)} = 1..k
<1>1. Max(1..k + 1) \in 1..k + 1 /\ \A y \in 1..k + 1 : y <= Max(1..k + 1)
  <2>1. k + 1 \in Nat /\ 1..k + 1 \in SUBSET (1..k + 1) /\ 1..k + 1 # {}
    OBVIOUS
  <2> QED BY <2>1, MaxIn, ZenonT(40)
<1>2. Max(1..k + 1) = k + 1
  BY <1>1
<1>3. (1..k + 1) \ {k + 1} = 1..k
  OBVIOUS
<1> QED BY <1>2, <1>3

\* The fold of a sequence with F, a function from the value before and the
\* element to the value after, as FoldLeft chooses it.
IsFold(it, n, base, seq, F) ==
  it = [s \in SUBSET (1..n) |->
          IF s = {} THEN base ELSE F[<<it[s \ {Max(s)}], seq[Max(s)]>>]]

\* The arguments F is used on.
Within(it, n, V, seq, S) ==
  \A s \in SUBSET (1..n) : s # {} => it[s \ {Max(s)}] \in V /\ seq[Max(s)] \in S

\* What goes on as F does where it has gone on as F does so far.
Follows(it, n, V, base, seq, F) ==
  /\ it[{}] = base
  /\ \A s \in SUBSET (1..n) : s # {} /\ it[s \ {Max(s)}] \in V =>
       it[s] = F[<<it[s \ {Max(s)}], seq[Max(s)]>>]

\* The values after every prefix of the sequence.
Values(h, n, base, seq, F) ==
  h[0] = base /\ \A k \in 1..n : h[k] = F[<<h[k - 1], seq[k]>>]

Reaches(it, n, V, base, seq, F) ==
  \E h \in [0..n -> V] : Values(h, n, base, seq, F) /\ it[1..n] = h[n]

\* There is a fold to be chosen.
LEMMA FoldFixed ==
  ASSUME NEW n \in Nat, NEW V, NEW base \in V, NEW S, NEW seq \in [1..n -> S],
         NEW F \in [V \X S -> V]
  PROVE  \E it : IsFold(it, n, base, seq, F) /\ Within(it, n, V, seq, S)
<1> DEFINE G == [a \in (1..n) \X V |-> F[<<a[2], seq[a[1]]>>]]
<1>1. G \in [(1..n) \X V -> V]
  OBVIOUS
<1>2. \A s \in SUBSET (1..n) : s # {} =>
        Max(s) \in 1..n /\ s \ {Max(s)} \in SUBSET (1..n)
  <2> TAKE s \in SUBSET (1..n)
  <2> HAVE s # {}
  <2> QED BY MaxIn
<1>3. \A k \in 1..n, v \in V : G[<<k, v>>] = F[<<v, seq[k]>>]
  OBVIOUS
<1> HIDE DEF G
<1>4. PICK g \in [SUBSET (1..n) -> V] : Goes(g, n, base, G)
  BY <1>1, FoldExists
<1>5. \A s \in SUBSET (1..n) : s # {} =>
        /\ g[s \ {Max(s)}] \in V /\ seq[Max(s)] \in S
        /\ G[<<Max(s), g[s \ {Max(s)}]>>] = F[<<g[s \ {Max(s)}], seq[Max(s)]>>]
  BY <1>2, <1>3
<1>6. g = [s \in SUBSET (1..n) |->
             IF s = {} THEN base ELSE F[<<g[s \ {Max(s)}], seq[Max(s)]>>]]
  BY <1>4, <1>5 DEF Goes
<1> QED BY <1>5, <1>6 DEF IsFold, Within

\* What goes on as F does goes through the values of F.
LEMMA FoldValues ==
  ASSUME NEW n \in Nat, NEW V, NEW base \in V, NEW S, NEW seq \in [1..n -> S],
         NEW F \in [V \X S -> V], NEW it, Follows(it, n, V, base, seq, F)
  PROVE  Reaches(it, n, V, base, seq, F)
<1> DEFINE h == [k \in 0..n |-> it[1..k]]
<1>1. \A s \in SUBSET (1..n) : s # {} =>
        Max(s) \in 1..n /\ s \ {Max(s)} \in SUBSET (1..n)
  <2> TAKE s \in SUBSET (1..n)
  <2> HAVE s # {}
  <2> QED BY MaxIn
<1>2. \A s \in SUBSET (1..n) : it[s] \in V
  <2>1. \A s \in SUBSET (1..n) : s # {} /\ it[s \ {Max(s)}] \in V => it[s] \in V
    BY <1>1 DEF Follows
  <2> QED BY <2>1, FoldKeeps DEF Follows
<1>3. h \in [0..n -> V]
  <2>1. \A k \in 0..n : 1..k \in SUBSET (1..n)
    OBVIOUS
  <2> QED BY <1>2, <2>1
<1>4. h[0] = base
  BY FoldPrefix DEF Follows
<1>5. \A k \in 1..n : h[k] = F[<<h[k - 1], seq[k]>>]
  <2> TAKE k \in 1..n
  <2>1. k - 1 \in Nat /\ (k - 1) + 1 = k /\ k - 1 \in 0..n /\ k \in 0..n
    OBVIOUS
  <2>2. 1..k # {} /\ Max(1..k) = k /\ (1..k) \ {Max(1..k)} = 1..k - 1
    BY <2>1, FoldPrefix
  <2>3. 1..k \in SUBSET (1..n) /\ 1..k - 1 \in SUBSET (1..n)
    OBVIOUS
  <2>4. it[1..k] = F[<<it[1..k - 1], seq[k]>>]
    BY <1>2, <2>2, <2>3 DEF Follows
  <2> QED BY <2>1, <2>4
<1>6. it[1..n] = h[n]
  OBVIOUS
<1> HIDE DEF h
<1> QED BY <1>3, <1>4, <1>5, <1>6 DEF Values, Reaches

-----------------------------------------------------------------------------
(* Operations.                                                             *)

\* What is known of an operation by its type.
WellTyped(o) ==
  /\ o.id \in Nat
  /\ \/ o.type \in {"CREATE", "MKDIR", "CHMOD", "MKNOD"} /\ o.mode \in Modes
     \/ o.type = "CHOWN" /\ o.owner \in Owners
     \/ o.type = "TRUNCATE" /\ o.newsize \in Nat
     \/ o.type = "WRITE" /\ o.offset \in Nat /\ o.size \in Nat \ {0} /\ o.data \in Seq(Nat)
     \/ o.type \in {"LINK", "SYMLINK", "RENAME"} /\ o.oldpath \in Paths /\ o.newpath \in Paths
     \/ o.type = "UNLINK" /\ o.last_link \in BOOLEAN /\ (o.last_link \/ o.inode \in Inodes)
     \/ o.type = "RMDIR"

LEMMA OpFacts == ASSUME NEW o \in Ops PROVE WellTyped(o)
<1> USE DEF WellTyped
<1>1. CASE o \in UnlinkOps
  BY <1>1 DEF UnlinkOps
<1>2. CASE o \in WriteOps
  BY <1>2 DEF WriteOps
<1>3. CASE o \in LinkOps \union SymlinkOps \union RenameOps
  BY <1>3 DEF LinkOps, SymlinkOps, RenameOps
<1>4. CASE o \in MknodOps \union ModeOps \union ChownOps
  BY <1>4 DEF MknodOps, ModeOps, ChownOps
<1>5. CASE o \in TruncateOps \union RmdirOps
  BY <1>5 DEF TruncateOps, RmdirOps
<1> QED BY <1>1, <1>2, <1>3, <1>4, <1>5 DEF Ops

\* The client gives an operation its number.
LEMMA Numbered ==
  ASSUME NEW o \in Ops, NEW n \in Nat
  PROVE  LET u == [o EXCEPT !.id = n]
         IN  /\ u \in Ops /\ u.type = o.type
             /\ o.type = "LINK" => u.newpath = o.newpath
<1>1. CASE o \in UnlinkOps
  BY <1>1 DEF UnlinkOps, Ops
<1>2. CASE o \in WriteOps
  BY <1>2 DEF WriteOps, Ops
<1>3. CASE o \in LinkOps \union SymlinkOps
  BY <1>3 DEF LinkOps, SymlinkOps, Ops
<1>4. CASE o \in RenameOps
  BY <1>4 DEF RenameOps, Ops
<1>5. CASE o \in MknodOps \union ModeOps
  BY <1>5 DEF MknodOps, ModeOps, Ops
<1>6. CASE o \in ChownOps \union TruncateOps \union RmdirOps
  BY <1>6 DEF TruncateOps, RmdirOps, ChownOps, Ops
<1> QED BY <1>1, <1>2, <1>3, <1>4, <1>5, <1>6 DEF Ops

\* A write is cut, and given its data.
LEMMA Cut ==
  ASSUME NEW o \in Ops, o.type = "WRITE"
  PROVE  /\ \A n \in Nat \ {0} :
              LET u == [o EXCEPT !.size = n]
              IN  u \in Ops /\ u.type = "WRITE" /\ u.offset = o.offset /\ u.size = n
         /\ \A off \in Nat, n \in Nat \ {0} :
              LET u == [o EXCEPT !.offset = off, !.size = n]
              IN  u \in Ops /\ u.type = "WRITE" /\ u.offset = off /\ u.size = n
         /\ \A d \in Seq(Nat) :
              LET u == [o EXCEPT !.data = d] IN u \in Ops /\ u.type = "WRITE"
<1>1. o \in WriteOps
  BY DEF Ops, UnlinkOps, LinkOps, SymlinkOps, RenameOps, MknodOps, ModeOps, ChownOps,
     TruncateOps, RmdirOps
<1> QED BY <1>1 DEF WriteOps, Ops

-----------------------------------------------------------------------------
(* The client's tables while it loads the log.                             *)

Entries == [path : Paths, order : Nat \union {-1}, ops : Seq(Ops), created : BOOLEAN]
Aside == UNION {[I -> Entries] : I \in SUBSET Inodes}
ClientTables == [files : Seq(Entries), inodes : Aside, order : Nat, id : Nat, crashed : BOOLEAN]

\* TablesConsistent, of a value.
Ranked(tb) == \A k \in DOMAIN tb.files : /\ tb.files[k].order < tb.order
                                        /\ tb.files[k].ops # <<>>
Distinct(tb) == \A j, k \in DOMAIN tb.files : j # k =>
                  /\ tb.files[j].path # tb.files[k].path
                  /\ tb.files[j].order = tb.files[k].order => tb.files[j].order = -1
RemovalsFirst(e) == \A n \in DOMAIN e.ops : e.ops[n].type \in Removals => n = 1 /\ ~e.created
AsideFull(tb) == \A i \in DOMAIN tb.inodes : tb.inodes[i].ops # <<>>
Consistent(tb) == /\ Ranked(tb) /\ Distinct(tb) /\ AsideFull(tb)
                  /\ \A k \in DOMAIN tb.files : RemovalsFirst(tb.files[k])

LEMMA EmptyTablesFacts == EmptyTables \in ClientTables /\ Consistent(EmptyTables)
<1>1. <<>> \in Aside
  <2>1. <<>> \in [{} -> Entries]
    OBVIOUS
  <2> QED BY <2>1 DEF Aside
<1>2. <<>> \in Seq(Entries)
  OBVIOUS
<1>3. EmptyTables \in ClientTables
  BY <1>1, <1>2 DEF EmptyTables, ClientTables
<1> QED BY <1>3 DEF EmptyTables, Consistent, Ranked, Distinct, AsideFull

LEMMA NewEntryFacts ==
  ASSUME NEW p \in Paths
  PROVE  /\ NewEntry(p) \in Entries
         /\ \A ops \in Seq(Ops) : [NewEntry(p) EXCEPT !.ops = ops] \in Entries
<1>1. <<>> \in Seq(Ops) /\ -1 \in Nat \union {-1}
  OBVIOUS
<1>2. NewEntry(p) \in Entries
  BY <1>1 DEF NewEntry, Entries
<1>3. ASSUME NEW ops \in Seq(Ops) PROVE [NewEntry(p) EXCEPT !.ops = ops] \in Entries
  BY <1>2 DEF Entries
<1> QED BY <1>2, <1>3

\* What is put aside.
LEMMA AsideFacts ==
  ASSUME NEW tb \in ClientTables, NEW i, NEW e \in Entries
  PROVE  /\ tb.inodes \in Aside
         /\ \A j \in DOMAIN tb.inodes : tb.inodes[j] \in Entries
         /\ DOMAIN tb.inodes \subseteq Inodes
         /\ LET u == WithInode(tb, i, e)
            IN  i \in Inodes => /\ u \in ClientTables /\ u = [tb EXCEPT !.inodes = u.inodes]
                                /\ AsideFull(tb) /\ e.ops # <<>> => AsideFull(u)
         /\ LET u == WithoutInode(tb, i)
            IN  /\ u \in ClientTables /\ u = [tb EXCEPT !.inodes = u.inodes]
                /\ DOMAIN u.inodes = DOMAIN tb.inodes \ {i}
                /\ AsideFull(tb) => AsideFull(u)
<1>1. tb.inodes \in Aside
  BY DEF ClientTables
<1>2. PICK I \in SUBSET Inodes : tb.inodes \in [I -> Entries]
  BY <1>1 DEF Aside
<1> DEFINE f == [j \in DOMAIN tb.inodes \union {i} |-> IF j = i THEN e ELSE tb.inodes[j]]
           g == [j \in DOMAIN tb.inodes \ {i} |-> tb.inodes[j]]
<1>3. i \in Inodes => f \in Aside
  <2> SUFFICES ASSUME i \in Inodes PROVE f \in Aside
    OBVIOUS
  <2>1. f \in [I \union {i} -> Entries] /\ I \union {i} \in SUBSET Inodes
    BY <1>2
  <2> QED BY <2>1 DEF Aside
<1>4. g \in Aside
  <2>1. g \in [I \ {i} -> Entries] /\ I \ {i} \in SUBSET Inodes
    BY <1>2
  <2> QED BY <2>1 DEF Aside
<1>5. WithInode(tb, i, e) = [tb EXCEPT !.inodes = f]
  BY DEF WithInode, ClientTables
<1>6. WithoutInode(tb, i) = [tb EXCEPT !.inodes = g]
  BY DEF WithoutInode, ClientTables
<1>7. ASSUME NEW h \in Aside
      PROVE  LET u == [tb EXCEPT !.inodes = h]
             IN  u \in ClientTables /\ u.inodes = h /\ u = [tb EXCEPT !.inodes = u.inodes]
  BY DEF ClientTables
<1>8. AsideFull(tb) /\ e.ops # <<>> => \A j \in DOMAIN f : f[j].ops # <<>>
  BY DEF AsideFull
<1>9. AsideFull(tb) => \A j \in DOMAIN g : g[j].ops # <<>>
  BY DEF AsideFull
<1> HIDE DEF f, g
<1>10. i \in Inodes => /\ [tb EXCEPT !.inodes = f] \in ClientTables
                       /\ [tb EXCEPT !.inodes = f].inodes = f
  BY <1>3, <1>7
<1>11. [tb EXCEPT !.inodes = g] \in ClientTables /\ [tb EXCEPT !.inodes = g].inodes = g
  BY <1>4, <1>7
<1>12. DOMAIN g = DOMAIN tb.inodes \ {i}
  BY DEF g
<1> QED BY <1>1, <1>2, <1>5, <1>6, <1>8, <1>9, <1>10, <1>11, <1>12 DEF AsideFull

\* The entry of a path.
LEMMA EntryFacts ==
  ASSUME NEW tb \in ClientTables, NEW p, Has(tb, p)
  PROVE  /\ \E k \in DOMAIN tb.files : tb.files[k] = Entry(tb, p)
         /\ Entry(tb, p) \in Entries /\ Entry(tb, p).path = p
<1>1. tb.files \in Seq(Entries)
  BY DEF ClientTables
<1> DEFINE k == CHOOSE k \in DOMAIN tb.files : tb.files[k].path = p
<1>2. k \in DOMAIN tb.files /\ tb.files[k].path = p
  BY DEF Has
<1>3. tb.files[k] = Entry(tb, p)
  BY DEF Entry
<1> HIDE DEF k
<1>4. tb.files[k] \in Entries
  BY <1>1, <1>2
<1> QED BY <1>2, <1>3, <1>4

\* One sequence after another.
Joined(u, a, b) ==
  /\ Len(u) = Len(a) + Len(b)
  /\ \A k \in 1..Len(a) : u[k] = a[k]
  /\ \A k \in 1..Len(b) : u[Len(a) + k] = b[k]

LEMMA JoinFacts ==
  ASSUME NEW S, NEW a \in Seq(S), NEW b \in Seq(S)
  PROVE  a \o b \in Seq(S) /\ Joined(a \o b, a, b)
  BY DEF Joined

\* A part of a sequence.
LEMMA PartFacts ==
  ASSUME NEW S, NEW s \in Seq(S), NEW m \in Nat, NEW n \in 0..Len(s)
  PROVE  SubSeq(s, m + 1, n) \in Seq(S)
<1>1. ASSUME NEW k \in m + 1..n PROVE s[k] \in S
  OBVIOUS
<1> QED BY <1>1

\* An entry is taken out of a sequence.
LEMMA RemoveAtFacts ==
  ASSUME NEW S, NEW s \in Seq(S), NEW i \in DOMAIN s
  PROVE  /\ RemoveAt(s, i) \in Seq(S)
         /\ Len(RemoveAt(s, i)) = Len(s) - 1
         /\ \A k \in 1..Len(s) - 1 :
              RemoveAt(s, i)[k] = IF k < i THEN s[k] ELSE s[k + 1]
<1>1. i \in 1..Len(s) /\ Len(s) \in Nat
  OBVIOUS
<1> DEFINE a == SubSeq(s, 1, i - 1)
           b == SubSeq(s, i + 1, Len(s))
<1>2. a \in Seq(S) /\ Len(a) = i - 1 /\ \A k \in 1..i - 1 : a[k] = s[k]
  BY <1>1
<1>3. b \in Seq(S) /\ Len(b) = Len(s) - i /\ \A k \in 1..Len(s) - i : b[k] = s[i + k]
  BY <1>1
<1> HIDE DEF a, b
<1>4. RemoveAt(s, i) = a \o b
  BY DEF RemoveAt, a, b
<1>5. a \o b \in Seq(S) /\ Len(a \o b) = Len(s) - 1
  BY <1>1, <1>2, <1>3
<1>6. \A k \in 1..Len(s) - 1 : (a \o b)[k] = IF k < i THEN s[k] ELSE s[k + 1]
  <2> TAKE k \in 1..Len(s) - 1
  <2>1. CASE k < i
    BY <1>1, <1>2, <1>3, <2>1
  <2>2. CASE ~(k < i)
    <3>1. k - (i - 1) \in 1..Len(s) - i /\ i + (k - (i - 1)) = k + 1
      BY <1>1, <2>2
    <3>2. (a \o b)[k] = b[k - (i - 1)]
      <4>1. k - (i - 1) \in 1..Len(b) /\ Len(a) + (k - (i - 1)) = k
        BY <1>1, <1>2, <1>3, <3>1
      <4>2. Joined(a \o b, a, b)
        BY <1>2, <1>3, JoinFacts
      <4> QED BY ONLY <4>1, <4>2 DEF Joined
    <3>3. b[k - (i - 1)] = s[i + (k - (i - 1))]
      BY <1>3, <3>1
    <3> QED BY <2>2, <3>1, <3>2, <3>3
  <2> QED BY <2>1, <2>2
<1> QED BY <1>4, <1>5, <1>6

\* What is left has come from different places, none of them that of the path.
LEMMA DeletedFacts ==
  ASSUME NEW tb \in ClientTables, NEW p
  PROVE  LET d == Deleted(tb, p)
         IN  /\ d \in ClientTables /\ d = [tb EXCEPT !.files = d.files]
             /\ \E g \in [DOMAIN d.files -> DOMAIN tb.files] :
                  /\ \A k \in DOMAIN d.files : d.files[k] = tb.files[g[k]]
                  /\ \A j, k \in DOMAIN d.files : j # k => g[j] # g[k]
             /\ Distinct(tb) => ~Has(d, p)
<1> DEFINE d == Deleted(tb, p)
           s == tb.files
<1>1. s \in Seq(Entries)
  BY DEF ClientTables
<1>2. CASE ~Has(tb, p)
  <2>1. d = tb
    BY <1>2 DEF Deleted
  <2>2. tb = [tb EXCEPT !.files = tb.files]
    BY DEF ClientTables
  <2>3. [k \in DOMAIN s |-> k] \in [DOMAIN s -> DOMAIN s]
    OBVIOUS
  <2>4. \E g \in [DOMAIN s -> DOMAIN s] : /\ \A k \in DOMAIN s : s[k] = s[g[k]]
                                         /\ \A j, k \in DOMAIN s : j # k => g[j] # g[k]
    BY <2>3
  <2> HIDE DEF d
  <2> QED BY <1>2, <2>1, <2>2, <2>4 DEF d
<1>3. CASE Has(tb, p)
  <2> DEFINE i == CHOOSE k \in DOMAIN s : s[k].path = p
             r == RemoveAt(s, i)
             g == [k \in 1..Len(s) - 1 |-> IF k < i THEN k ELSE k + 1]
  <2>1. i \in DOMAIN s /\ s[i].path = p
    BY <1>3 DEF Has
  <2>2. d = [tb EXCEPT !.files = r]
    BY <1>3 DEF Deleted
  <2> HIDE DEF i
  <2>3. r \in Seq(Entries) /\ DOMAIN r = 1..Len(s) - 1
    BY <1>1, <2>1, RemoveAtFacts
  <2>4. \A k \in 1..Len(s) - 1 : r[k] = IF k < i THEN s[k] ELSE s[k + 1]
    BY <1>1, <2>1, RemoveAtFacts
  <2> HIDE DEF r, d
  <2>5. d \in ClientTables /\ d.files = r /\ d = [tb EXCEPT !.files = d.files]
    BY <2>2, <2>3 DEF ClientTables
  <2>6. i \in 1..Len(s) /\ DOMAIN s = 1..Len(s) /\ Len(s) \in Nat
    BY <1>1, <2>1
  <2>7. g \in [DOMAIN r -> DOMAIN s]
    BY <2>3, <2>6
  <2>8. \A k \in DOMAIN r : r[k] = s[g[k]] /\ g[k] # i
    BY <2>3, <2>4, <2>6
  <2>9. \A j, k \in DOMAIN r : j # k => g[j] # g[k]
    BY <2>3, <2>6
  <2>10. Distinct(tb) => \A k \in DOMAIN r : r[k].path # p
    <3> HIDE DEF g
    <3> QED BY <2>1, <2>7, <2>8 DEF Distinct
  <2> HIDE DEF g
  <2>11. \E f \in [DOMAIN r -> DOMAIN s] : /\ \A k \in DOMAIN r : r[k] = s[f[k]]
                                          /\ \A j, k \in DOMAIN r : j # k => f[j] # f[k]
    BY <2>7, <2>8, <2>9
  <2> QED BY <2>5, <2>10, <2>11 DEF Has, d
<1> QED BY <1>2, <1>3

\* Taking an entry out leaves the tables consistent.
LEMMA DeletedKeeps ==
  ASSUME NEW tb \in ClientTables, Consistent(tb), NEW p
  PROVE  Consistent(Deleted(tb, p)) /\ ~Has(Deleted(tb, p), p)
<1> DEFINE d == Deleted(tb, p)
<1>1. /\ d \in ClientTables /\ d = [tb EXCEPT !.files = d.files]
      /\ ~Has(d, p)
  BY DeletedFacts DEF Consistent
<1>2. PICK g \in [DOMAIN d.files -> DOMAIN tb.files] :
        /\ \A k \in DOMAIN d.files : d.files[k] = tb.files[g[k]]
        /\ \A j, k \in DOMAIN d.files : j # k => g[j] # g[k]
  BY DeletedFacts
<1> HIDE DEF d
<1>3. d.order = tb.order /\ d.inodes = tb.inodes
  BY <1>1 DEF ClientTables
<1>4. Ranked(d)
  BY <1>2, <1>3 DEF Consistent, Ranked
<1>5. Distinct(d)
  <2> SUFFICES ASSUME NEW j \in DOMAIN d.files, NEW k \in DOMAIN d.files, j # k
               PROVE  /\ d.files[j].path # d.files[k].path
                      /\ d.files[j].order = d.files[k].order => d.files[j].order = -1
    BY DEF Distinct
  <2>1. /\ g[j] \in DOMAIN tb.files /\ g[k] \in DOMAIN tb.files /\ g[j] # g[k]
        /\ d.files[j] = tb.files[g[j]] /\ d.files[k] = tb.files[g[k]]
    BY <1>2
  <2> QED BY <2>1 DEF Consistent, Distinct
<1>6. AsideFull(d)
  BY <1>3 DEF Consistent, AsideFull
<1>7. \A k \in DOMAIN d.files : RemovalsFirst(d.files[k])
  BY <1>2 DEF Consistent
<1> QED BY <1>1, <1>4, <1>5, <1>6, <1>7 DEF Consistent, d

\* An entry for a new path, with a place of its own or none, leaves them consistent.
LEMMA AddedKeeps ==
  ASSUME NEW tb \in ClientTables, Consistent(tb), NEW e \in Entries, ~Has(tb, e.path),
         e.ops # <<>>, RemovalsFirst(e), NEW n \in Nat,
         \/ e.order = -1 /\ n = tb.order
         \/ e.order = tb.order /\ n = tb.order + 1
  PROVE  LET u == [Added(tb, e) EXCEPT !.order = n]
         IN  u \in ClientTables /\ Consistent(u)
<1> DEFINE u == [Added(tb, e) EXCEPT !.order = n]
           s == tb.files
<1>1. s \in Seq(Entries) /\ tb.order \in Nat
  BY DEF ClientTables
<1>2. /\ Append(s, e) \in Seq(Entries) /\ DOMAIN s = 1..Len(s) /\ Len(s) \in Nat
      /\ DOMAIN Append(s, e) = 1..Len(s) + 1
      /\ \A k \in 1..Len(s) + 1 : Append(s, e)[k] = IF k = Len(s) + 1 THEN e ELSE s[k]
  BY <1>1
<1>3. /\ u \in ClientTables /\ u.files = Append(s, e) /\ u.order = n /\ u.inodes = tb.inodes
  BY <1>2 DEF Added, ClientTables
<1> HIDE DEF u
<1>4. \A k \in 1..Len(s) : /\ s[k] \in Entries /\ s[k].order < tb.order /\ s[k].ops # <<>>
                           /\ s[k].path # e.path /\ RemovalsFirst(s[k])
                           /\ s[k].order \in Int
  <2> TAKE k \in 1..Len(s)
  <2>1. s[k] \in Entries
    BY <1>1
  <2>2. k \in DOMAIN s
    BY <1>2
  <2>3. s[k].order < tb.order /\ s[k].ops # <<>> /\ RemovalsFirst(s[k])
    BY <2>2 DEF Consistent, Ranked
  <2>4. s[k].path # e.path
    BY <2>2 DEF Has
  <2>5. s[k].order \in Int
    BY <2>1 DEF Entries
  <2> QED BY <2>1, <2>3, <2>4, <2>5
<1>5. e.order \in Int
  BY DEF Entries
<1>6. Ranked(u)
  <2> SUFFICES ASSUME NEW k \in 1..Len(s) + 1
               PROVE  u.files[k].order < n /\ u.files[k].ops # <<>>
    BY <1>2, <1>3 DEF Ranked
  <2> QED BY <1>1, <1>2, <1>3, <1>4, <1>5
<1>7. Distinct(u)
  <2> SUFFICES ASSUME NEW j \in 1..Len(s) + 1, NEW k \in 1..Len(s) + 1, j # k
               PROVE  /\ u.files[j].path # u.files[k].path
                      /\ u.files[j].order = u.files[k].order => u.files[j].order = -1
    BY <1>2, <1>3 DEF Distinct
  <2>1. CASE j \in 1..Len(s) /\ k \in 1..Len(s)
    BY SMTT(30), <1>2, <1>3, <2>1 DEF Consistent, Distinct
  <2>2. CASE j = Len(s) + 1 /\ k \in 1..Len(s)
    BY <1>1, <1>2, <1>3, <1>4, <1>5, <2>2
  <2>3. CASE k = Len(s) + 1 /\ j \in 1..Len(s)
    BY <1>1, <1>2, <1>3, <1>4, <1>5, <2>3
  <2> QED BY <1>2, <2>1, <2>2, <2>3
<1>8. AsideFull(u)
  BY <1>3 DEF Consistent, AsideFull
<1>9. \A k \in DOMAIN u.files : RemovalsFirst(u.files[k])
  BY <1>2, <1>3, <1>4
<1> QED BY <1>3, <1>6, <1>7, <1>8, <1>9 DEF Consistent, u

\* So does changing the entry of a path, which gets a place if it has none.
LEMMA ChangedKeeps ==
  ASSUME NEW tb \in ClientTables, Consistent(tb), NEW e \in Entries, Has(tb, e.path),
         e.ops # <<>>, RemovalsFirst(e), NEW n \in Nat,
         \/ e.order = Entry(tb, e.path).order /\ e.order # -1 /\ n = tb.order
         \/ e.order = tb.order /\ n = tb.order + 1
  PROVE  LET u == [Changed(tb, e) EXCEPT !.order = n]
         IN  u \in ClientTables /\ Consistent(u)
<1> DEFINE u == [Changed(tb, e) EXCEPT !.order = n]
           s == tb.files
           f == [k \in DOMAIN s |-> IF s[k].path = e.path THEN e ELSE s[k]]
<1>1. s \in Seq(Entries) /\ tb.order \in Nat
  BY DEF ClientTables
<1>2. f \in Seq(Entries) /\ DOMAIN f = DOMAIN s
  BY <1>1
<1>3. /\ u \in ClientTables /\ u.files = f /\ u.order = n /\ u.inodes = tb.inodes
  BY <1>2 DEF Changed, ClientTables
<1>4. PICK i \in DOMAIN s : s[i] = Entry(tb, e.path) /\ s[i].path = e.path
  BY EntryFacts
<1>5. \A k \in DOMAIN s : f[k] = IF k = i THEN e ELSE s[k]
  BY <1>4 DEF Consistent, Distinct
<1> HIDE DEF u, f
<1>6. \A k \in DOMAIN s : /\ s[k].order < tb.order /\ s[k].ops # <<>>
                          /\ RemovalsFirst(s[k]) /\ s[k].order \in Int
  <2> TAKE k \in DOMAIN s
  <2>1. s[k].order < tb.order /\ s[k].ops # <<>> /\ RemovalsFirst(s[k])
    BY DEF Consistent, Ranked
  <2>2. s[k] \in Entries
    BY <1>1
  <2> QED BY <2>1, <2>2 DEF Entries
<1>7. e.order \in Int /\ e.order < n /\ tb.order <= n
  BY <1>1, <1>4, <1>6, SMTT(30) DEF Entries
<1>8. Ranked(u)
  <2> SUFFICES ASSUME NEW k \in DOMAIN s
               PROVE  u.files[k].order < n /\ u.files[k].ops # <<>>
    BY <1>2, <1>3 DEF Ranked
  <2> QED BY <1>1, <1>3, <1>5, <1>6, <1>7
<1>9. Distinct(u)
  <2> SUFFICES ASSUME NEW j \in DOMAIN s, NEW k \in DOMAIN s, j # k
               PROVE  /\ f[j].path # f[k].path
                      /\ f[j].order = f[k].order => f[j].order = -1
    BY <1>2, <1>3 DEF Distinct
  <2>1. /\ s[j].path # s[k].path
        /\ s[j].order = s[k].order => s[j].order = -1
    BY DEF Consistent, Distinct
  <2>2. \A l \in DOMAIN s : l # i =>
          s[l].path # e.path /\ (s[l].order = e.order => e.order = -1)
    BY <1>1, <1>4, <1>6 DEF Consistent, Distinct
  <2> QED BY <1>5, <2>1, <2>2
<1>10. AsideFull(u)
  BY <1>3 DEF Consistent, AsideFull
<1>11. \A k \in DOMAIN u.files : RemovalsFirst(u.files[k])
  BY <1>2, <1>3, <1>5, <1>6
<1> QED BY <1>3, <1>8, <1>9, <1>10, <1>11 DEF Consistent, u

\* Putting operations aside.
LEMMA SetAsideKeeps ==
  ASSUME NEW tb \in ClientTables, Consistent(tb), NEW p, NEW i \in Inodes
  PROVE  LET u == SetAside(tb, p, i)
         IN  u \in ClientTables /\ Consistent(u) /\ u.files = tb.files /\ u.order = tb.order
<1> DEFINE f == Entry(tb, p)
           e == tb.inodes[i]
           m == [Merge(e, f) EXCEPT !.order = Lower(f.order, e.order)]
<1>1. ASSUME NEW x \in Entries, x.ops # <<>>
      PROVE  LET u == WithInode(tb, i, x)
             IN  u \in ClientTables /\ Consistent(u) /\ u.files = tb.files /\ u.order = tb.order
  <2> DEFINE u == WithInode(tb, i, x)
  <2>1. u \in ClientTables /\ u = [tb EXCEPT !.inodes = u.inodes] /\ AsideFull(u)
    BY <1>1, AsideFacts DEF Consistent
  <2> HIDE DEF u
  <2>2. u.files = tb.files /\ u.order = tb.order
    BY <2>1 DEF ClientTables
  <2>3. Consistent(u)
    BY <2>1, <2>2 DEF Consistent, Ranked, Distinct
  <2> QED BY <2>1, <2>2, <2>3 DEF u
<1>2. CASE Has(tb, p) /\ i \in DOMAIN tb.inodes
  <2>1. f \in Entries /\ f.ops # <<>>
    BY <1>2, EntryFacts DEF Consistent, Ranked
  <2>2. e \in Entries /\ e.ops # <<>>
    BY <1>2, <2>1, AsideFacts DEF Consistent, AsideFull
  <2>3. SetAside(tb, p, i) = WithInode(tb, i, m)
    BY <1>2 DEF SetAside
  <2> HIDE DEF f, e
  <2>4. e.ops \o f.ops \in Seq(Ops) /\ e.ops \o f.ops # <<>>
    BY <2>1, <2>2 DEF Entries
  <2>5. Lower(f.order, e.order) \in Nat \union {-1}
    BY <2>1, <2>2 DEF Entries, Lower
  <2>6. m \in Entries /\ m.ops # <<>>
    BY <2>2, <2>4, <2>5 DEF Merge, Entries
  <2> HIDE DEF m
  <2> QED BY <1>1, <2>3, <2>6
<1>3. CASE Has(tb, p) /\ i \notin DOMAIN tb.inodes
  <2>1. f \in Entries /\ f.ops # <<>>
    BY <1>3, EntryFacts DEF Consistent, Ranked
  <2> HIDE DEF f
  <2>2. [f EXCEPT !.created = FALSE] \in Entries /\ [f EXCEPT !.created = FALSE].ops # <<>>
    BY <2>1 DEF Entries
  <2>3. SetAside(tb, p, i) = WithInode(tb, i, [f EXCEPT !.created = FALSE])
    BY <1>3 DEF SetAside, f
  <2> QED BY <1>1, <2>2, <2>3
<1>4. CASE ~Has(tb, p) /\ i \in DOMAIN tb.inodes
  <2>1. SetAside(tb, p, i) = [tb EXCEPT !.crashed = TRUE]
    BY <1>4 DEF SetAside
  <2> QED BY ZenonT(40), <2>1 DEF ClientTables, Consistent, Ranked, Distinct, AsideFull
<1>5. CASE ~Has(tb, p) /\ i \notin DOMAIN tb.inodes
  BY <1>5 DEF SetAside, ClientTables
<1> QED BY <1>2, <1>3, <1>4, <1>5

\* A removal.
LEMMA AddRemovalKeeps ==
  ASSUME NEW tb \in ClientTables, Consistent(tb), NEW p \in Paths, NEW o \in Ops,
         o.type \in Removals
  PROVE  LET u == AddRemoval(tb, p, o) IN u \in ClientTables /\ Consistent(u)
<1> DEFINE kept == CASE o.type = "RMDIR" -> tb
                     [] o.type = "UNLINK" /\ o.last_link -> WithoutInode(tb, o.inode)
                     [] OTHER -> SetAside(tb, p, o.inode)
           d == Deleted(kept, p)
           Only(op) == Added(d, [NewEntry(p) EXCEPT !.ops = <<op>>])
<1>1. kept \in ClientTables /\ Consistent(kept) /\ kept.files = tb.files
  <2>1. CASE o.type = "RMDIR"
    BY <2>1
  <2>2. CASE o.type = "UNLINK" /\ o.last_link
    <3> DEFINE u == WithoutInode(tb, o.inode)
    <3>1. NewEntry(p) \in Entries
      BY NewEntryFacts
    <3>2. u \in ClientTables /\ u = [tb EXCEPT !.inodes = u.inodes] /\ AsideFull(u)
      BY <3>1, AsideFacts DEF Consistent
    <3>3. kept = u
      BY <2>2
    <3> HIDE DEF u, kept
    <3>4. u.files = tb.files /\ u.order = tb.order
      BY <3>2 DEF ClientTables
    <3>5. Consistent(u)
      BY <3>2, <3>4 DEF Consistent, Ranked, Distinct
    <3> QED BY <3>2, <3>3, <3>4, <3>5
  <2>3. CASE o.type = "UNLINK" /\ ~o.last_link
    <3>1. o.inode \in Inodes
      BY <2>3, OpFacts DEF WellTyped, Removals
    <3>2. kept = SetAside(tb, p, o.inode)
      BY <2>3
    <3> QED BY <3>1, <3>2, SetAsideKeeps
  <2> QED BY <2>1, <2>2, <2>3 DEF Removals
<1> HIDE DEF kept
<1>2. d \in ClientTables /\ Consistent(d) /\ ~Has(d, p)
  BY <1>1, DeletedFacts, DeletedKeeps
<1> HIDE DEF d
<1>3. ASSUME NEW op \in Ops, op.type \in Removals
      PROVE  Only(op) \in ClientTables /\ Consistent(Only(op))
  <2> DEFINE e == [NewEntry(p) EXCEPT !.ops = <<op>>]
  <2>1. e \in Entries /\ e.path = p /\ e.order = -1 /\ e.ops = <<op>> /\ ~e.created
    <3>1. <<op>> \in Seq(Ops)
      OBVIOUS
    <3>2. e \in Entries
      BY <3>1, NewEntryFacts
    <3> QED BY <3>2 DEF NewEntry
  <2>2. RemovalsFirst(e) /\ e.ops # <<>>
    BY <2>1 DEF RemovalsFirst
  <2> HIDE DEF e
  <2>3. d.order \in Nat
    BY <1>2 DEF ClientTables
  <2>4. LET u == [Added(d, e) EXCEPT !.order = d.order]
        IN  u \in ClientTables /\ Consistent(u)
    BY <1>2, <2>1, <2>2, <2>3, AddedKeeps
  <2>5. [Added(d, e) EXCEPT !.order = d.order] = Added(d, e)
    BY <1>2 DEF Added, ClientTables
  <2> QED BY <2>4, <2>5 DEF e
<1> HIDE DEF Only
<1> DEFINE first == Entry(tb, p).ops[1]
<1>4. AddRemoval(tb, p, o) =
        IF Has(tb, p) /\ first.type \in Removals THEN Only(first)
        ELSE IF Has(tb, p) /\ Entry(tb, p).created THEN d ELSE Only(o)
  BY DEF AddRemoval, Only, d, kept
<1>5. Has(tb, p) => first \in Ops
  <2> SUFFICES ASSUME Has(tb, p) PROVE first \in Ops
    OBVIOUS
  <2>1. Entry(tb, p) \in Entries /\ Entry(tb, p).ops # <<>>
    BY EntryFacts DEF Consistent, Ranked
  <2> QED BY <2>1 DEF Entries
<1> HIDE DEF first
<1> QED BY <1>2, <1>3, <1>4, <1>5

\* Any other operation, added to the entry of its path.
LEMMA AddOtherKeeps ==
  ASSUME NEW tb \in ClientTables, Consistent(tb), NEW p \in Paths, NEW o \in Ops,
         o.type \notin Removals
  PROVE  LET u == AddOther(tb, p, o) IN u \in ClientTables /\ Consistent(u)
<1> DEFINE f == IF Has(tb, p) THEN Entry(tb, p)
                ELSE [NewEntry(p) EXCEPT !.created = o.type \in Creations]
           e == [f EXCEPT !.ops = Append(@, o), !.order = IF @ = -1 THEN tb.order ELSE @]
           n == IF f.order = -1 THEN tb.order + 1 ELSE tb.order
           t == IF Has(tb, p) THEN Changed(tb, e) ELSE Added(tb, e)
<1>1. /\ f \in Entries /\ f.path = p /\ RemovalsFirst(f)
      /\ ~Has(tb, p) => f.order = -1
  <2>1. CASE Has(tb, p)
    <3>1. f = Entry(tb, p)
      BY <2>1
    <3> HIDE DEF f
    <3> QED BY <2>1, <3>1, EntryFacts DEF Consistent
  <2>2. CASE ~Has(tb, p)
    <3> DEFINE c == o.type \in Creations
    <3>1. NewEntry(p) \in Entries /\ c \in BOOLEAN
      BY NewEntryFacts
    <3>2. f = [NewEntry(p) EXCEPT !.created = c]
      BY <2>2
    <3> HIDE DEF f, c
    <3>3. f \in Entries
      BY <3>1, <3>2 DEF Entries
    <3>4. f.path = p /\ f.order = -1 /\ f.ops = <<>>
      BY <3>2 DEF NewEntry
    <3> QED BY <3>3, <3>4 DEF RemovalsFirst
  <2> QED BY <2>1, <2>2
<1>2. AddOther(tb, p, o) = [t EXCEPT !.order = IF f.order = -1 THEN @ + 1 ELSE @]
  BY DEF AddOther
<1>3. tb.order \in Nat
  BY DEF ClientTables
<1>4. Has(tb, p) => f = Entry(tb, p)
  OBVIOUS
<1> HIDE DEF f
<1>5. f.ops \in Seq(Ops) /\ Append(f.ops, o) \in Seq(Ops) /\ Append(f.ops, o) # <<>>
  BY <1>1 DEF Entries
<1>6. /\ e \in Entries /\ e.path = p /\ e.ops = Append(f.ops, o) /\ e.created = f.created
      /\ e.order = IF f.order = -1 THEN tb.order ELSE f.order
  BY <1>1, <1>3, <1>5 DEF Entries
<1>7. RemovalsFirst(e) /\ e.ops # <<>>
  BY <1>1, <1>5, <1>6 DEF RemovalsFirst
<1> HIDE DEF e
<1>8. t.order = tb.order /\ n \in Nat
  BY <1>3 DEF Changed, Added, ClientTables
<1>9. AddOther(tb, p, o) = [t EXCEPT !.order = n]
  <2>1. \A m : [t EXCEPT !.order = m] = [t EXCEPT !.order = m]
    OBVIOUS
  <2> QED BY <1>2, <1>8
<1>10. CASE Has(tb, p)
  BY <1>1, <1>3, <1>4, <1>6, <1>7, <1>8, <1>9, <1>10, ChangedKeeps
<1>11. CASE ~Has(tb, p)
  BY <1>1, <1>3, <1>6, <1>7, <1>8, <1>9, <1>11, AddedKeeps
<1> QED BY <1>10, <1>11

\* addOperation() keeps the tables consistent.
LEMMA AddOperationKeeps ==
  ASSUME NEW tb \in ClientTables, Consistent(tb), NEW p \in Paths, NEW genop \in Ops
  PROVE  LET u == AddOperation(tb, p, genop) IN u \in ClientTables /\ Consistent(u)
<1> DEFINE o == [genop EXCEPT !.id = tb.id]
           t == [tb EXCEPT !.id = @ + 1]
<1>1. o \in Ops /\ o.type = genop.type /\ (o.type = "LINK" => o.newpath \in Paths)
  <2>1. tb.id \in Nat
    BY DEF ClientTables
  <2>2. o \in Ops /\ o.type = genop.type
    BY <2>1, Numbered
  <2> HIDE DEF o
  <2> QED BY <2>2, OpFacts DEF WellTyped
<1>2. t \in ClientTables /\ Consistent(t)
  BY DEF ClientTables, Consistent, Ranked, Distinct, AsideFull
<1>3. AddOperation(tb, p, genop) =
        CASE o.type \in Removals -> AddRemoval(t, p, o)
          [] o.type = "LINK" -> AddOther(t, o.newpath, o)
          [] OTHER -> AddOther(t, p, o)
  BY DEF AddOperation
<1> HIDE DEF o, t
<1>4. CASE o.type \in Removals
  BY <1>1, <1>2, <1>3, <1>4, AddRemovalKeeps DEF Removals
<1>5. CASE o.type = "LINK"
  BY <1>1, <1>2, <1>3, <1>5, AddOtherKeeps DEF Removals
<1>6. CASE o.type \notin Removals /\ o.type # "LINK"
  BY <1>1, <1>2, <1>3, <1>6, AddOtherKeeps
<1> QED BY <1>4, <1>5, <1>6

-----------------------------------------------------------------------------
(* Names for what was set aside.                                           *)

\* Every file has operations, also those that were set aside.
Full(tb) == AsideFull(tb) /\ \A k \in DOMAIN tb.files : tb.files[k].ops # <<>>
FullTables == {tb \in ClientTables : Full(tb)}
FullEntries == {e \in Entries : e.ops # <<>>}

\* What was set aside is appended to the entry of a path.
LEMMA MergeFacts ==
  ASSUME NEW tb \in FullTables, NEW i \in DOMAIN tb.inodes, NEW e \in Entries
  PROVE  LET u == Merge(e, tb.inodes[i])
         IN  u \in FullEntries /\ u.path = e.path
<1>1. tb.inodes[i] \in Entries /\ tb.inodes[i].ops # <<>>
  BY AsideFacts DEF FullTables, Full, AsideFull
<1> DEFINE ops == e.ops \o tb.inodes[i].ops
<1>2. e.ops \in Seq(Ops) /\ tb.inodes[i].ops \in Seq(Ops)
  BY <1>1 DEF Entries
<1>3. ops \in Seq(Ops) /\ ops # <<>>
  BY <1>1, <1>2
<1>4. Merge(e, tb.inodes[i]) = [e EXCEPT !.ops = ops]
  BY DEF Merge, Entries
<1> HIDE DEF ops
<1> QED BY <1>3, <1>4 DEF FullEntries, Entries

LEMMA MatchedKeeps ==
  ASSUME NEW tb \in FullTables, NEW i \in DOMAIN tb.inodes, NEW e \in FullEntries
  PROVE  /\ WithoutInode(Changed(tb, e), i) \in FullTables
         /\ [WithoutInode(Added(tb, e), i) EXCEPT !.order = @ + 1] \in FullTables
<1> DEFINE s == tb.files
           f == [k \in DOMAIN s |-> IF s[k].path = e.path THEN e ELSE s[k]]
           a == Append(s, e)
<1>1. s \in Seq(Entries) /\ e \in Entries /\ e.ops # <<>> /\ tb \in ClientTables /\ tb.order \in Nat
  BY DEF FullTables, ClientTables, FullEntries
<1>2. f \in Seq(Entries) /\ a \in Seq(Entries)
  BY <1>1
<1>3. \A k \in DOMAIN f : f[k].ops # <<>>
  BY DEF FullTables, Full, FullEntries
<1>4. \A k \in DOMAIN a : a[k].ops # <<>>
  <2>1. \A k \in DOMAIN s : s[k].ops # <<>>
    BY DEF FullTables, Full
  <2> QED BY <1>1, <2>1
<1> HIDE DEF f, a
<1>5. ASSUME NEW g \in Seq(Entries), \A k \in DOMAIN g : g[k].ops # <<>>
      PROVE  LET u == WithoutInode([tb EXCEPT !.files = g], i)
             IN  /\ u \in FullTables
                 /\ [u EXCEPT !.order = @ + 1] \in FullTables
  <2> DEFINE t == [tb EXCEPT !.files = g]
             u == WithoutInode(t, i)
             w == [u EXCEPT !.order = @ + 1]
  <2>1. t \in ClientTables /\ t.files = g /\ t.inodes = tb.inodes
    BY <1>1 DEF ClientTables
  <2>2. AsideFull(t)
    BY <2>1 DEF FullTables, Full, AsideFull
  <2> HIDE DEF t
  <2>3. u \in ClientTables /\ u = [t EXCEPT !.inodes = u.inodes] /\ AsideFull(u)
    BY <1>1, <2>1, <2>2, AsideFacts
  <2> HIDE DEF u
  <2>4. u.files = g
    BY <2>1, <2>3 DEF ClientTables
  <2>5. w \in ClientTables /\ w.files = u.files /\ w.inodes = u.inodes
    BY <2>3 DEF ClientTables
  <2> HIDE DEF w
  <2> QED BY <1>5, <2>3, <2>4, <2>5 DEF FullTables, Full, AsideFull, w, u, t
<1>6. Changed(tb, e) = [tb EXCEPT !.files = f] /\ Added(tb, e) = [tb EXCEPT !.files = a]
  BY <1>1 DEF Changed, Added, f, a, ClientTables
<1> QED BY <1>2, <1>3, <1>4, <1>5, <1>6

\* Where a path leads.
LEMMA ResolveFacts ==
  ASSUME NEW t \in Trees, NEW p \in Paths
  PROVE  /\ Resolve(t, p) \in Paths \union {Nowhere}
         /\ Exists(t, Resolve(t, p)) => /\ Resolve(t, p) \in Paths
                                        /\ t.names[Resolve(t, p)] \in Inodes
         /\ Exists(t, p) => t.names[p] \in Inodes
         /\ Stat(t, p) \in Inodes \union {Nowhere}
<1>1. \A q \in Paths : Exists(t, q) => t.names[q] \in Inodes /\ At(t, q) \in Nodes
  BY DEF Exists, Trees, At
<1>2. Resolve(t, p) \in Paths \union {Nowhere}
  BY <1>1 DEF Resolve, Is, Nodes
<1>3. Exists(t, Resolve(t, p)) => Resolve(t, p) \in Paths
  BY <1>2 DEF Exists
<1> QED BY <1>1, <1>2, <1>3 DEF Stat

Matched == [tb : FullTables, inode : Inodes \union {0}]

LEMMA MatchEntriesKeeps ==
  ASSUME NEW tb \in FullTables, NEW t \in Trees, NEW memory \in Inodes \union {0}
  PROVE  MatchEntries(tb, t, memory) \in FullTables
<1> DEFINE n == Len(tb.files)
           base == [tb |-> tb, inode |-> memory]
           Visit(st, e) ==
             LET i == IF Stat(t, e.path) = Nowhere THEN st.inode ELSE Stat(t, e.path)
             IN  IF i \in DOMAIN st.tb.inodes
                 THEN [tb |-> WithoutInode(Changed(st.tb, Merge(e, st.tb.inodes[i])), i),
                       inode |-> i]
                 ELSE [st EXCEPT !.inode = i]
           F == [x \in Matched \X FullEntries |-> Visit(x[1], x[2])]
           it == CHOOSE it : it = [s \in SUBSET (DOMAIN tb.files) |->
                   IF s = {} THEN base ELSE Visit(it[s \ {Max(s)}], tb.files[Max(s)])]
<1>1. MatchEntries(tb, t, memory) = it[DOMAIN tb.files].tb
  BY DEF MatchEntries, FoldLeft, MapThenFoldSet
<1>2. /\ n \in Nat /\ DOMAIN tb.files = 1..n /\ tb.files \in [1..n -> FullEntries]
      /\ base \in Matched
  BY DEF FullTables, Full, ClientTables, FullEntries, Matched
<1>3. /\ F \in [Matched \X FullEntries -> Matched]
      /\ \A v \in Matched, e \in FullEntries : F[<<v, e>>] = Visit(v, e)
  <2>1. ASSUME NEW v \in Matched, NEW e \in FullEntries PROVE Visit(v, e) \in Matched
    <3> DEFINE i == IF Stat(t, e.path) = Nowhere THEN v.inode ELSE Stat(t, e.path)
    <3>1. e \in Entries /\ e.path \in Paths /\ v.tb \in FullTables
      BY DEF FullEntries, Entries, Matched
    <3>2. i \in Inodes \union {0}
      BY <3>1, ResolveFacts DEF Matched
    <3> HIDE DEF i
    <3>3. CASE i \in DOMAIN v.tb.inodes
      <4> DEFINE u == WithoutInode(Changed(v.tb, Merge(e, v.tb.inodes[i])), i)
      <4>1. u \in FullTables
        BY <3>1, <3>3, MergeFacts, MatchedKeeps
      <4>2. Visit(v, e) = [tb |-> u, inode |-> i]
        BY <3>3 DEF i
      <4> HIDE DEF u, Visit
      <4> QED BY <3>2, <4>1, <4>2 DEF Matched
    <3>4. CASE i \notin DOMAIN v.tb.inodes
      <4>1. Visit(v, e) = [v EXCEPT !.inode = i]
        BY <3>4 DEF i
      <4> HIDE DEF Visit
      <4> QED BY <3>2, <4>1 DEF Matched
    <3> QED BY <3>3, <3>4
  <2> HIDE DEF Visit
  <2> QED BY <2>1
<1> HIDE DEF Visit, F, base, n
<1>4. it = [s \in SUBSET (1..n) |->
              IF s = {} THEN base ELSE Visit(it[s \ {Max(s)}], tb.files[Max(s)])]
  <2>1. PICK g : IsFold(g, n, base, tb.files, F) /\ Within(g, n, Matched, tb.files, FullEntries)
    BY <1>2, <1>3, FoldFixed
  <2>2. g = [s \in SUBSET (DOMAIN tb.files) |->
               IF s = {} THEN base ELSE Visit(g[s \ {Max(s)}], tb.files[Max(s)])]
    BY <1>2, <1>3, <2>1 DEF IsFold, Within
  <2> QED BY <1>2, <2>2
<1> HIDE DEF it
<1>5. Follows(it, n, Matched, base, tb.files, F)
  BY ZenonT(40), <1>2, <1>3, <1>4, MaxIn DEF Follows
<1>6. Reaches(it, n, Matched, base, tb.files, F)
  BY <1>2, <1>3, <1>5, FoldValues
<1>7. it[1..n] \in Matched
  BY <1>2, <1>6 DEF Reaches
<1> QED BY <1>1, <1>2, <1>7 DEF Matched

LEMMA MatchWalkKeeps ==
  ASSUME NEW tb \in FullTables, NEW t, NEW n \in Nat, NEW walk \in [1..n -> Paths]
  PROVE  MatchWalk(tb, t, walk) \in FullTables
<1> DEFINE Visit(u, p) ==
             LET i == t.names[p]
             IN  IF i \in DOMAIN u.inodes
                 THEN [WithoutInode(Added(u, Merge(NewEntry(p), u.inodes[i])), i)
                         EXCEPT !.order = @ + 1]
                 ELSE u
           F == [x \in FullTables \X Paths |-> Visit(x[1], x[2])]
           it == CHOOSE it : it = [s \in SUBSET (DOMAIN walk) |->
                   IF s = {} THEN tb ELSE Visit(it[s \ {Max(s)}], walk[Max(s)])]
<1>1. MatchWalk(tb, t, walk) = it[DOMAIN walk]
  BY DEF MatchWalk, FoldLeft, MapThenFoldSet
<1>2. DOMAIN walk = 1..n
  OBVIOUS
<1>3. /\ F \in [FullTables \X Paths -> FullTables]
      /\ \A u \in FullTables, p \in Paths : F[<<u, p>>] = Visit(u, p)
  <2>1. ASSUME NEW u \in FullTables, NEW p \in Paths PROVE Visit(u, p) \in FullTables
    <3>1. NewEntry(p) \in Entries
      BY NewEntryFacts
    <3>2. \A i \in DOMAIN u.inodes : Merge(NewEntry(p), u.inodes[i]) \in FullEntries
      BY <3>1, MergeFacts
    <3> QED BY <3>2, MatchedKeeps
  <2> HIDE DEF Visit
  <2> QED BY <2>1
<1> HIDE DEF Visit, F
<1>4. it = [s \in SUBSET (1..n) |->
              IF s = {} THEN tb ELSE Visit(it[s \ {Max(s)}], walk[Max(s)])]
  <2>1. PICK g : IsFold(g, n, tb, walk, F) /\ Within(g, n, FullTables, walk, Paths)
    BY <1>3, FoldFixed
  <2>2. g = [s \in SUBSET (DOMAIN walk) |->
               IF s = {} THEN tb ELSE Visit(g[s \ {Max(s)}], walk[Max(s)])]
    BY <1>2, <1>3, <2>1 DEF IsFold, Within
  <2> QED BY <1>2, <2>2
<1> HIDE DEF it
<1>5. Follows(it, n, FullTables, tb, walk, F)
  BY ZenonT(40), <1>2, <1>3, <1>4, MaxIn DEF Follows
<1>6. Reaches(it, n, FullTables, tb, walk, F)
  BY <1>3, <1>5, FoldValues
<1> QED BY <1>1, <1>2, <1>6 DEF Reaches

-----------------------------------------------------------------------------
\* The file that is sent first.
LEMMA FirstFacts ==
  ASSUME NEW files \in Seq(Entries), files # <<>>
  PROVE  \E k \in DOMAIN files : First(files) = files[k]
<1> DEFINE Orders == {files[k].order + 1 : k \in DOMAIN files}
<1>1. \A k \in DOMAIN files : k \in Nat /\ files[k].order \in Int /\ files[k].order + 1 \in Nat
  <2> TAKE k \in DOMAIN files
  <2>1. files[k] \in Entries /\ k \in Nat
    OBVIOUS
  <2> QED BY <2>1 DEF Entries
<1>2. Orders \subseteq Nat /\ Orders # {}
  BY <1>1
<1>3. PICK x \in Orders : \A y \in Orders : x <= y
  BY <1>2, LeastNumber
<1> DEFINE Least == {k \in DOMAIN files : files[k].order + 1 = x}
<1>4. Least \subseteq Nat /\ Least # {}
  BY <1>1, <1>3
<1>5. PICK k \in Least : \A j \in Least : k <= j
  BY <1>4, LeastNumber
<1>6. ASSUME NEW j \in DOMAIN files
      PROVE  \/ files[k].order < files[j].order
             \/ files[k].order = files[j].order /\ k <= j
  <2>1. x <= files[j].order + 1 /\ files[k].order + 1 = x /\ k \in DOMAIN files
    BY <1>3
  <2>2. CASE files[j].order + 1 = x
    BY <1>1, <1>5, <2>1, <2>2
  <2>3. CASE files[j].order + 1 # x
    BY SMTT(30), <1>1, <1>2, <2>1, <2>3
  <2> QED BY <2>2, <2>3
<1>7. k \in DOMAIN files
  OBVIOUS
<1> HIDE DEF Least, Orders
<1> QED BY <1>6, <1>7 DEF First

-----------------------------------------------------------------------------
(* What is written, and how many operations there are that write nothing.  *)

Rest(l) == DOMAIN l \ WritesOf(l)
Count(l) == Cardinality(Rest(l))
Part(o) == IF o.type = "WRITE" THEN Span(o) ELSE {}

\* The operations that write nothing.
Rests(l) == {l[k] : k \in Rest(l)}
RestOf(o) == IF o.type = "WRITE" THEN {} ELSE {o}

LEMMA CountType ==
  ASSUME NEW l \in Seq(Ops)
  PROVE  IsFiniteSet(Rest(l)) /\ Count(l) \in Nat
<1>1. IsFiniteSet(1..Len(l))
  BY FS_Interval
<1>2. Rest(l) \subseteq 1..Len(l)
  BY DEF Rest
<1> QED BY <1>1, <1>2, FS_Subset, FS_CardinalityType DEF Count

LEMMA SpansOf ==
  ASSUME NEW l \in Seq(Ops)
  PROVE  /\ \A x : x \in Spans(l) <=> \E k \in DOMAIN l : x \in Part(l[k])
         /\ \A k : k \in Rest(l) <=> k \in DOMAIN l /\ l[k].type # "WRITE"
  BY DEF Spans, Part, WritesOf, Rest

LEMMA ConcatFacts ==
  ASSUME NEW a \in Seq(Ops), NEW b \in Seq(Ops)
  PROVE  /\ a \o b \in Seq(Ops)
         /\ Spans(a \o b) = Spans(a) \union Spans(b)
         /\ Count(a \o b) = Count(a) + Count(b)
         /\ Rests(a \o b) = Rests(a) \union Rests(b)
<1> DEFINE c == a \o b
           m == Len(a)
           Moved == {m + k : k \in Rest(b)}
<1>1. /\ c \in Seq(Ops) /\ m \in Nat /\ DOMAIN a = 1..m /\ DOMAIN b = 1..Len(b)
      /\ Len(b) \in Nat /\ DOMAIN c = 1..m + Len(b)
      /\ \A k \in 1..m : k \in DOMAIN c /\ c[k] = a[k]
      /\ \A k \in 1..Len(b) : m + k \in DOMAIN c /\ c[m + k] = b[k]
  OBVIOUS
<1>2. \A k \in DOMAIN c : k \in 1..m \/ \E j \in 1..Len(b) : k = m + j
  <2> TAKE k \in DOMAIN c
  <2>1. CASE ~(k \in 1..m)
    <3>1. k - m \in 1..Len(b) /\ k = m + (k - m)
      BY <1>1, <2>1
    <3> QED BY <3>1
  <2> QED BY <2>1
<1> HIDE DEF c, m
<1>3. Spans(c) = Spans(a) \union Spans(b)
  <2>1. ASSUME NEW x \in Spans(c) PROVE x \in Spans(a) \union Spans(b)
    <3>1. PICK k \in DOMAIN c : x \in Part(c[k])
      BY <1>1, SpansOf
    <3>2. CASE k \in 1..m
      BY <1>1, <3>1, <3>2, SpansOf
    <3>3. ASSUME NEW j \in 1..Len(b), k = m + j PROVE x \in Spans(b)
      <4>1. c[k] = b[j]
        BY <1>1, <3>3
      <4> QED BY <1>1, <3>1, <4>1, SpansOf
    <3> QED BY <1>2, <3>2, <3>3
  <2>2. ASSUME NEW x \in Spans(a) PROVE x \in Spans(c)
    <3>1. PICK k \in DOMAIN a : x \in Part(a[k])
      BY SpansOf
    <3> QED BY <1>1, <3>1, SpansOf
  <2>3. ASSUME NEW x \in Spans(b) PROVE x \in Spans(c)
    <3>1. PICK k \in DOMAIN b : x \in Part(b[k])
      BY SpansOf
    <3>2. m + k \in DOMAIN c /\ c[m + k] = b[k]
      BY <1>1
    <3> QED BY <1>1, <3>1, <3>2, SpansOf
  <2> QED BY <2>1, <2>2, <2>3
<1>4. Rest(c) = Rest(a) \union Moved
  <2>1. ASSUME NEW k \in Rest(c) PROVE k \in Rest(a) \union Moved
    <3>1. k \in DOMAIN c /\ c[k].type # "WRITE"
      BY <1>1, SpansOf
    <3>2. CASE k \in 1..m
      BY <1>1, <3>1, <3>2, SpansOf
    <3>3. ASSUME NEW j \in 1..Len(b), k = m + j PROVE k \in Moved
      <4>1. c[k] = b[j]
        BY <1>1, <3>3
      <4>2. j \in Rest(b)
        BY <1>1, <3>1, <4>1, SpansOf
      <4> QED BY <3>3, <4>2
    <3> QED BY <1>2, <3>1, <3>2, <3>3
  <2>2. ASSUME NEW k \in Rest(a) PROVE k \in Rest(c)
    BY SMTT(30), <1>1, SpansOf
  <2>3. ASSUME NEW k \in Rest(b) PROVE m + k \in Rest(c)
    <3>1. k \in DOMAIN b /\ b[k].type # "WRITE"
      BY SpansOf
    <3>2. m + k \in DOMAIN c /\ c[m + k] = b[k]
      BY <1>1, <3>1
    <3> QED BY <1>1, <3>1, <3>2, SpansOf
  <2> QED BY <2>1, <2>2, <2>3
<1>5. Rest(a) \intersect Moved = {}
  BY <1>1 DEF Rest
<1>6. IsFiniteSet(Rest(a)) /\ IsFiniteSet(Rest(b)) /\ Count(a) \in Nat /\ Count(b) \in Nat
  BY CountType
<1>7. IsFiniteSet(Moved) /\ Cardinality(Moved) = Cardinality(Rest(b))
  <2> DEFINE f == [k \in Rest(b) |-> m + k]
  <2>1. \A k \in Rest(b) : k \in Nat /\ f[k] = m + k
    BY <1>1 DEF Rest
  <2>2. f \in [Rest(b) -> Moved] /\ \A x \in Moved : \E k \in Rest(b) : f[k] = x
    OBVIOUS
  <2> HIDE DEF f, Moved
  <2>3. \A j, k \in Rest(b) : f[j] = f[k] => j = k
    BY <1>1, <2>1
  <2>4. f \in Bijection(Rest(b), Moved)
    BY <2>2, <2>3 DEF Bijection, Injection, Surjection, IsInjective
  <2> QED BY <1>6, <2>4, FS_Bijection DEF ExistsBijection
<1> HIDE DEF Moved
<1>8. Cardinality(Rest(c)) = Cardinality(Rest(a)) + Cardinality(Moved)
  <2>1. Cardinality(Rest(a) \intersect Moved) = 0
    BY <1>5, FS_EmptySet
  <2>2. Cardinality(Rest(a) \union Moved) =
          Cardinality(Rest(a)) + Cardinality(Moved) - Cardinality(Rest(a) \intersect Moved)
    BY <1>6, <1>7, FS_Union
  <2> QED BY <1>4, <1>6, <1>7, <2>1, <2>2 DEF Count
<1>9. Rests(c) = Rests(a) \union Rests(b)
  <2>1. ASSUME NEW k \in Rest(a) PROVE c[k] = a[k]
    <3>1. k \in 1..m
      BY <1>1, <2>1 DEF Rest
    <3> QED BY <1>1, <3>1
  <2>2. ASSUME NEW k \in Rest(b) PROVE c[m + k] = b[k]
    <3>1. k \in 1..Len(b)
      BY <1>1, <2>2 DEF Rest
    <3> QED BY <1>1, <3>1
  <2>3. ASSUME NEW x \in Rests(c) PROVE x \in Rests(a) \union Rests(b)
    <3>1. PICK k \in Rest(c) : x = c[k]
      BY <2>3 DEF Rests
    <3>2. CASE k \in Rest(a)
      BY <2>1, <3>1, <3>2 DEF Rests
    <3>3. CASE k \in Moved
      <4>1. PICK j \in Rest(b) : k = m + j
        BY <3>3 DEF Moved
      <4>2. x = b[j]
        BY <2>2, <3>1, <4>1
      <4> QED BY <4>2 DEF Rests
    <3> QED BY <1>4, <3>1, <3>2, <3>3
  <2>4. ASSUME NEW x \in Rests(a) PROVE x \in Rests(c)
    <3>1. PICK k \in Rest(a) : x = a[k]
      BY <2>4 DEF Rests
    <3>2. k \in Rest(c) /\ x = c[k]
      BY <1>4, <2>1, <3>1
    <3> QED BY <3>2 DEF Rests
  <2>5. ASSUME NEW x \in Rests(b) PROVE x \in Rests(c)
    <3>1. PICK k \in Rest(b) : x = b[k]
      BY <2>5 DEF Rests
    <3>2. m + k \in Rest(c) /\ x = c[m + k]
      BY <1>4, <2>2, <3>1 DEF Moved
    <3> QED BY <3>2 DEF Rests
  <2> QED BY <2>3, <2>4, <2>5
<1> QED BY <1>1, <1>3, <1>7, <1>8, <1>9 DEF Count, c

LEMMA SingleFacts ==
  ASSUME NEW o \in Ops
  PROVE  /\ <<o>> \in Seq(Ops) /\ Spans(<<o>>) = Part(o)
         /\ Count(<<o>>) = (IF o.type = "WRITE" THEN 0 ELSE 1)
         /\ Rests(<<o>>) = RestOf(o)
<1>1. <<o>> \in Seq(Ops) /\ DOMAIN <<o>> = {1} /\ <<o>>[1] = o
  OBVIOUS
<1>2. Rest(<<o>>) = IF o.type = "WRITE" THEN {} ELSE {1}
  BY <1>1 DEF Rest, WritesOf
<1>3. Count(<<o>>) = IF o.type = "WRITE" THEN 0 ELSE 1
  BY <1>2, FS_EmptySet, FS_Singleton DEF Count
<1>4. Spans(<<o>>) = Part(o)
  <2> DEFINE l == <<o>>
  <2>1. l \in Seq(Ops) /\ DOMAIN l = {1} /\ l[1] = o
    OBVIOUS
  <2> HIDE DEF l
  <2>2. Spans(l) = Part(o)
    BY <2>1, SpansOf
  <2> QED BY <2>2 DEF l
<1>5. Rests(<<o>>) = RestOf(o)
  <2> DEFINE l == <<o>>
  <2>1. l[1] = o
    OBVIOUS
  <2> HIDE DEF l
  <2>2. Rests(l) = RestOf(o)
    <3>1. CASE o.type = "WRITE"
      <4>1. Rest(l) = {}
        BY <1>2, <3>1 DEF l
      <4> QED BY <3>1, <4>1 DEF Rests, RestOf
    <3>2. CASE o.type # "WRITE"
      <4>1. Rest(l) = {1}
        BY <1>2, <3>2 DEF l
      <4> QED BY <2>1, <3>2, <4>1 DEF Rests, RestOf
    <3> QED BY <3>1, <3>2
  <2> QED BY <2>2 DEF l
<1> QED BY <1>1, <1>3, <1>4, <1>5

LEMMA AppendFacts ==
  ASSUME NEW l \in Seq(Ops), NEW o \in Ops
  PROVE  /\ Append(l, o) \in Seq(Ops)
         /\ Spans(Append(l, o)) = Spans(l) \union Part(o)
         /\ Count(Append(l, o)) = Count(l) + (IF o.type = "WRITE" THEN 0 ELSE 1)
         /\ Rests(Append(l, o)) = Rests(l) \union RestOf(o)
<1>1. Append(l, o) = l \o <<o>>
  OBVIOUS
<1> QED BY <1>1, ConcatFacts, SingleFacts

\* The beginning of a sequence.
LEMMA PrefixFacts ==
  ASSUME NEW l \in Seq(Ops)
  PROVE  /\ SubSeq(l, 1, 0) = <<>> /\ SubSeq(l, 1, Len(l)) = l
         /\ Spans(<<>>) = {} /\ Count(<<>>) = 0 /\ Rests(<<>>) = {}
         /\ \A k \in 0..Len(l) : SubSeq(l, 1, k) \in Seq(Ops)
         /\ \A k \in 1..Len(l) : /\ l[k] \in Ops
                                 /\ SubSeq(l, 1, k) = Append(SubSeq(l, 1, k - 1), l[k])
         /\ \A k \in 0..Len(l) : /\ Spans(SubSeq(l, 1, k)) \subseteq Spans(l)
                                 /\ \A j \in 1..k : Part(l[j]) \subseteq Spans(SubSeq(l, 1, k))
<1>1. SubSeq(l, 1, 0) = <<>> /\ SubSeq(l, 1, Len(l)) = l
  OBVIOUS
<1>2. <<>> \in Seq(Ops) /\ DOMAIN <<>> = {}
  OBVIOUS
<1>3. Spans(<<>>) = {}
  BY <1>2, SpansOf
<1>4. Count(<<>>) = 0 /\ Rests(<<>>) = {}
  BY <1>2, FS_EmptySet DEF Count, Rest, Rests
<1>5. ASSUME NEW k \in 0..Len(l)
      PROVE  /\ SubSeq(l, 1, k) \in Seq(Ops)
             /\ DOMAIN SubSeq(l, 1, k) = 1..k
             /\ \A j \in 1..k : SubSeq(l, 1, k)[j] = l[j]
  OBVIOUS
<1>6. ASSUME NEW k \in 1..Len(l)
      PROVE  /\ l[k] \in Ops
             /\ SubSeq(l, 1, k) = Append(SubSeq(l, 1, k - 1), l[k])
  OBVIOUS
<1>7. ASSUME NEW k \in 0..Len(l)
      PROVE  /\ Spans(SubSeq(l, 1, k)) \subseteq Spans(l)
             /\ \A j \in 1..k : Part(l[j]) \subseteq Spans(SubSeq(l, 1, k))
  <2> DEFINE u == SubSeq(l, 1, k)
  <2>1. u \in Seq(Ops) /\ DOMAIN u = 1..k /\ \A j \in 1..k : u[j] = l[j] /\ j \in DOMAIN l
    BY <1>5
  <2> HIDE DEF u
  <2>2. Spans(u) \subseteq Spans(l) /\ \A j \in 1..k : Part(l[j]) \subseteq Spans(u)
    BY <2>1, SpansOf
  <2> QED BY <2>2 DEF u
<1> QED BY <1>1, <1>3, <1>4, <1>5, <1>6, <1>7

\* An operation is put in between.
Inserted(u, s, n, o) ==
  \A k \in 1..Len(s) + 1 :
    u[k] = IF k <= n THEN s[k] ELSE IF k = n + 1 THEN o ELSE s[k - 1]

LEMMA InsertFacts ==
  ASSUME NEW s \in Seq(Ops), NEW n \in 0..Len(s), NEW o \in Ops
  PROVE  LET u == InsertAt(s, n + 1, o)
         IN  /\ u \in Seq(Ops) /\ Len(u) = Len(s) + 1
             /\ Inserted(u, s, n, o)
             /\ Spans(u) = Spans(s) \union Part(o)
             /\ Count(u) = Count(s) + (IF o.type = "WRITE" THEN 0 ELSE 1)
             /\ Rests(u) = Rests(s) \union RestOf(o)
<1> DEFINE a == SubSeq(s, 1, n)
           b == SubSeq(s, n + 1, Len(s))
           u == InsertAt(s, n + 1, o)
<1>1. n \in Nat /\ n <= Len(s) /\ Len(s) \in Nat /\ (n + 1) - 1 = n
  OBVIOUS
<1>2. a \in Seq(Ops) /\ Len(a) = n /\ \A k \in 1..n : a[k] = s[k]
  OBVIOUS
<1>3. b \in Seq(Ops) /\ Len(b) = Len(s) - n /\ \A k \in 1..Len(s) - n : b[k] = s[n + k]
  OBVIOUS
<1>4. u = (a \o <<o>>) \o b
  BY <1>1 DEF InsertAt
<1> HIDE DEF a, b, u
<1>5. s = a \o b
  <2>1. Len(a \o b) = Len(s) /\ a \o b \in Seq(Ops)
    BY <1>1, <1>2, <1>3
  <2>2. \A k \in 1..Len(s) : (a \o b)[k] = s[k]
    <3> TAKE k \in 1..Len(s)
    <3>1. CASE k <= n
      BY <1>1, <1>2, <1>3, <3>1
    <3>2. CASE ~(k <= n)
      <4>1. k - n \in 1..Len(s) - n /\ n + (k - n) = k
        BY <1>1, <3>2
      <4>2. (a \o b)[k] = b[k - n]
        BY <1>1, <1>2, <1>3, <3>2
      <4> QED BY <1>3, <4>1, <4>2
    <3> QED BY <3>1, <3>2
  <2> DEFINE t == a \o b
  <2>3. t \in Seq(Ops) /\ Len(t) = Len(s) /\ \A k \in 1..Len(s) : t[k] = s[k]
    BY <2>1, <2>2
  <2> HIDE DEF t
  <2>4. t = s
    BY <2>3
  <2> QED BY <2>4 DEF t
<1> DEFINE c == a \o <<o>>
<1>a. /\ c \in Seq(Ops) /\ Len(c) = n + 1 /\ c[n + 1] = o /\ \A j \in 1..n : c[j] = a[j]
      /\ Spans(c) = Spans(a) \union Part(o) /\ Count(c) = Count(a) + Count(<<o>>)
      /\ Rests(c) = Rests(a) \union RestOf(o)
  <2>1. <<o>> \in Seq(Ops) /\ Spans(<<o>>) = Part(o) /\ Rests(<<o>>) = RestOf(o)
    BY SingleFacts
  <2>a. /\ Spans(c) = Spans(a) \union Spans(<<o>>) /\ Count(c) = Count(a) + Count(<<o>>)
        /\ Rests(c) = Rests(a) \union Rests(<<o>>)
    <3> DEFINE t == <<o>>
    <3>1. t \in Seq(Ops)
      BY <2>1
    <3> HIDE DEF t
    <3>2. /\ Spans(a \o t) = Spans(a) \union Spans(t) /\ Count(a \o t) = Count(a) + Count(t)
          /\ Rests(a \o t) = Rests(a) \union Rests(t)
      BY <1>2, <3>1, ConcatFacts
    <3> QED BY <3>2 DEF t
  <2> HIDE DEF c
  <2>2. Spans(c) = Spans(a) \union Part(o) /\ Count(c) = Count(a) + Count(<<o>>)
        /\ Rests(c) = Rests(a) \union RestOf(o)
    BY <2>1, <2>a
  <2> USE DEF c
  <2>3. c \in Seq(Ops) /\ Len(c) = n + 1 /\ c[n + 1] = o /\ \A j \in 1..n : c[j] = a[j]
    BY <1>1, <1>2
  <2> QED BY <2>2, <2>3
<1>b. u = c \o b
  BY <1>4
<1> HIDE DEF c
<1>6. u \in Seq(Ops) /\ Len(u) = Len(s) + 1
  BY <1>1, <1>3, <1>a, <1>b
<1>7. \A k \in 1..Len(s) + 1 :
        u[k] = IF k <= n THEN s[k] ELSE IF k = n + 1 THEN o ELSE s[k - 1]
  <2> TAKE k \in 1..Len(s) + 1
  <2>3. CASE k <= n + 1
    BY <1>1, <1>2, <1>3, <1>a, <1>b, <2>3
  <2>4. CASE ~(k <= n + 1)
    <3>1. k - (n + 1) \in 1..Len(s) - n /\ n + (k - (n + 1)) = k - 1
      BY <1>1, <2>4
    <3>2. u[k] = b[k - (n + 1)]
      BY SMTT(30), <1>1, <1>3, <1>a, <1>b, <2>4
    <3>3. b[k - (n + 1)] = s[n + (k - (n + 1))]
      BY <1>3, <3>1
    <3> QED BY <1>1, <2>4, <3>1, <3>2, <3>3
  <2> QED BY <2>3, <2>4
<1>8. Spans(u) = Spans(s) \union Part(o)
  <2>1. Spans(u) = Spans(c) \union Spans(b) /\ Spans(s) = Spans(a) \union Spans(b)
    BY <1>2, <1>3, <1>5, <1>a, <1>b, ConcatFacts
  <2> QED BY <1>a, <2>1
<1>9. Count(u) = Count(s) + (IF o.type = "WRITE" THEN 0 ELSE 1)
  <2>1. Count(a) \in Nat /\ Count(b) \in Nat
    BY <1>2, <1>3, CountType
  <2>2. Count(u) = Count(c) + Count(b)
    BY <1>3, <1>a, <1>b, ConcatFacts
  <2>3. Count(s) = Count(a) + Count(b)
    BY <1>2, <1>3, <1>5, ConcatFacts
  <2> QED BY <1>a, <2>1, <2>2, <2>3, SingleFacts
<1>10. Rests(u) = Rests(s) \union RestOf(o)
  <2>1. Rests(u) = Rests(c) \union Rests(b) /\ Rests(s) = Rests(a) \union Rests(b)
    BY <1>2, <1>3, <1>5, <1>a, <1>b, ConcatFacts
  <2> QED BY <1>a, <2>1
<1> QED BY <1>6, <1>7, <1>8, <1>9, <1>10 DEF u, Inserted

-----------------------------------------------------------------------------
(* What optimizeOperations() makes of them.                                *)

LEMMA SpanOf ==
  ASSUME NEW o \in Ops, o.type = "WRITE"
  PROVE  /\ o.offset \in Nat /\ o.size \in Nat \ {0}
         /\ \A x : x \in Span(o) <=> x \in Nat /\ o.offset <= x /\ x < o.offset + o.size
<1>1. o.offset \in Nat /\ o.size \in Nat \ {0}
  BY OpFacts DEF WellTyped
<1>2. ASSUME NEW x \in Span(o) PROVE x \in Nat /\ o.offset <= x /\ x < o.offset + o.size
  BY <1>1 DEF Span
<1>3. ASSUME NEW x \in Nat, o.offset <= x, x < o.offset + o.size PROVE x \in Span(o)
  <2>1. x - o.offset \in 0..o.size - 1 /\ x = o.offset + (x - o.offset)
    BY <1>1, <1>3
  <2> QED BY <2>1 DEF Span
<1> QED BY <1>1, <1>2, <1>3

\* A write may lose its end to a truncate that follows, or be left out.
LEMMA ClippedFacts ==
  ASSUME NEW ops \in Seq(Ops)
  PROVE  LET c == Clipped(ops)
         IN  /\ c \in Seq(Ops) /\ Spans(c) \subseteq Spans(ops) /\ Count(c) = Count(ops)
             /\ Rests(c) = Rests(ops)
             /\ (\A k \in DOMAIN ops : ops[k].type # "TRUNCATE") => c = ops
<1> DEFINE n == Len(ops)
           base == <<>>
           seq == [k \in DOMAIN ops |-> k]
           Cuts == {k \in DOMAIN ops : ops[k].type = "TRUNCATE"}
           last == CHOOSE k \in Cuts : \A j \in Cuts : j <= k
           size == ops[last].newsize
           Early(k) == Cuts # {} /\ k < last /\ ops[k].type = "WRITE"
           Short(k) == IF Early(k) /\ ops[k].offset + ops[k].size > size
                       THEN [ops[k] EXCEPT !.size = size - ops[k].offset] ELSE ops[k]
           Kept(l, k) == IF Early(k) /\ ops[k].offset + ops[k].size > size
                            /\ ops[k].offset >= size
                         THEN l ELSE Append(l, Short(k))
           F == [x \in Seq(Ops) \X (1..n) |-> Kept(x[1], x[2])]
           it == CHOOSE it : it = [s \in SUBSET (DOMAIN seq) |->
                   IF s = {} THEN base ELSE Kept(it[s \ {Max(s)}], seq[Max(s)])]
<1>1. Clipped(ops) = it[DOMAIN seq]
  BY DEF Clipped, FoldLeft, MapThenFoldSet
<1>2. n \in Nat /\ DOMAIN seq = 1..n /\ seq \in [1..n -> 1..n] /\ base \in Seq(Ops)
  OBVIOUS
<1>a. /\ DOMAIN ops = 1..n /\ base = <<>>
      /\ \A k \in 1..n : seq[k] = k /\ ops[k] \in Ops
  OBVIOUS
<1>3. Cuts # {} => size \in Nat
  <2>1. SUFFICES ASSUME Cuts # {} PROVE size \in Nat
    OBVIOUS
  <2>2. Cuts \in SUBSET (1..n)
    BY <1>a
  <2>3. \E k \in Cuts : \A j \in Cuts : j <= k
    BY <1>2, <2>1, <2>2, MaxIn
  <2>4. last \in Cuts
    BY <2>3
  <2> HIDE DEF last
  <2>5. ops[last] \in Ops /\ ops[last].type = "TRUNCATE"
    BY <1>a, <2>4
  <2> QED BY <2>5, OpFacts DEF WellTyped
<1>4. Cuts = {} <=> \A k \in DOMAIN ops : ops[k].type # "TRUNCATE"
  OBVIOUS
<1> HIDE DEF last, Cuts, n, seq, base
\* What becomes of one operation.
<1>5. ASSUME NEW l \in Seq(Ops), NEW k \in 1..n
      PROVE  /\ Kept(l, k) \in Seq(Ops)
             /\ Count(Kept(l, k)) = Count(l) + (IF ops[k].type = "WRITE" THEN 0 ELSE 1)
             /\ Rests(Kept(l, k)) = Rests(l) \union RestOf(ops[k])
             /\ Spans(Kept(l, k)) \subseteq Spans(l) \union Part(ops[k])
             /\ Cuts = {} => Kept(l, k) = Append(l, ops[k])
  <2>1. ops[k] \in Ops
    BY <1>a
  <2>2. Count(l) \in Nat
    BY CountType
  <2>3. CASE ~(Early(k) /\ ops[k].offset + ops[k].size > size)
    <3>1. Kept(l, k) = Append(l, ops[k])
      BY <2>3
    <3> HIDE DEF Kept
    <3> QED BY <2>1, <3>1, AppendFacts
  <2>4. CASE Early(k) /\ ops[k].offset + ops[k].size > size
    <3>1. /\ ops[k].type = "WRITE" /\ Cuts # {} /\ size \in Nat
          /\ ops[k].offset \in Nat /\ ops[k].size \in Nat \ {0}
      BY <1>3, <2>1, <2>4, SpanOf
    <3>2. CASE ops[k].offset >= size
      <4>1. Kept(l, k) = l
        BY <2>4, <3>2
      <4> QED BY <2>2, <3>1, <4>1 DEF RestOf
    <3>3. CASE ~(ops[k].offset >= size)
      <4> DEFINE u == [ops[k] EXCEPT !.size = size - ops[k].offset]
      <4>1. Kept(l, k) = Append(l, u)
        BY <2>4, <3>3
      <4>2. size - ops[k].offset \in Nat \ {0}
        BY <3>1, <3>3
      <4>3. /\ u \in Ops /\ u.type = "WRITE" /\ u.offset = ops[k].offset
            /\ u.size = size - ops[k].offset
        <5> HIDE DEF size
        <5> QED BY ZenonT(40), <2>1, <3>1, <4>2, Cut
      <4> HIDE DEF u, Kept, size
      <4>4. ASSUME NEW x \in Span(u) PROVE x \in Span(ops[k])
        <5>1. x \in Nat /\ u.offset <= x /\ x < u.offset + u.size
          BY <4>3, SpanOf
        <5>2. ops[k].offset <= x /\ x < ops[k].offset + ops[k].size
          BY <2>4, <3>1, <4>3, <5>1
        <5> QED BY <2>1, <3>1, <5>1, <5>2, SpanOf
      <4>5. Part(u) \subseteq Part(ops[k])
        BY <3>1, <4>3, <4>4 DEF Part
      <4> QED BY <3>1, <4>1, <4>3, <4>5, AppendFacts DEF RestOf
    <3> QED BY <3>2, <3>3
  <2> QED BY <2>3, <2>4
<1>6. /\ F \in [Seq(Ops) \X (1..n) -> Seq(Ops)]
      /\ \A l \in Seq(Ops), k \in 1..n : F[<<l, k>>] = Kept(l, k)
  <2>1. \A l \in Seq(Ops), k \in 1..n : Kept(l, k) \in Seq(Ops)
    BY <1>5
  <2> HIDE DEF Kept
  <2> QED BY <2>1
<1> HIDE DEF Kept, F
<1>7. it = [s \in SUBSET (1..n) |->
              IF s = {} THEN base ELSE Kept(it[s \ {Max(s)}], seq[Max(s)])]
  <2>1. PICK g : IsFold(g, n, base, seq, F) /\ Within(g, n, Seq(Ops), seq, 1..n)
    BY <1>2, <1>6, FoldFixed
  <2>2. g = [s \in SUBSET (DOMAIN seq) |->
               IF s = {} THEN base ELSE Kept(g[s \ {Max(s)}], seq[Max(s)])]
    BY <1>2, <1>6, <2>1 DEF IsFold, Within
  <2> QED BY <1>2, <2>2
<1> HIDE DEF it
<1>8. Follows(it, n, Seq(Ops), base, seq, F)
  BY ZenonT(40), <1>2, <1>6, <1>7, MaxIn DEF Follows
<1>9. Reaches(it, n, Seq(Ops), base, seq, F)
  BY <1>2, <1>6, <1>8, FoldValues
<1>10. PICK h \in [0..n -> Seq(Ops)] : Values(h, n, base, seq, F) /\ it[1..n] = h[n]
  BY <1>9 DEF Reaches
<1>11. h[0] = <<>> /\ \A k \in 1..n : h[k] = Kept(h[k - 1], k) /\ h[k - 1] \in Seq(Ops)
  <2>1. \A k \in 1..n : h[k - 1] \in Seq(Ops)
    BY <1>2
  <2>2. h[0] = base /\ \A k \in 1..n : h[k] = F[<<h[k - 1], seq[k]>>]
    BY <1>10 DEF Values
  <2> QED BY <1>6, <1>a, <2>1, <2>2
<1> DEFINE P(k) == SubSeq(ops, 1, k)
           Good == {k \in 0..n : /\ Count(h[k]) = Count(P(k)) /\ Spans(h[k]) \subseteq Spans(P(k))
                                 /\ Rests(h[k]) = Rests(P(k))
                                 /\ Cuts = {} => h[k] = P(k)}
<1>12. 0 \in Good
  <2>1. P(0) = <<>> /\ 0 \in 0..n
    BY <1>2, PrefixFacts
  <2> QED BY <1>11, <2>1
<1>13. ASSUME NEW k \in 1..n, k - 1 \in Good PROVE k \in Good
  <2>1. /\ P(k) = Append(P(k - 1), ops[k]) /\ P(k - 1) \in Seq(Ops) /\ ops[k] \in Ops
        /\ k \in 0..n
    BY <1>2, <1>a, PrefixFacts DEF n
  <2>2. /\ Count(P(k)) = Count(P(k - 1)) + (IF ops[k].type = "WRITE" THEN 0 ELSE 1)
        /\ Spans(P(k)) = Spans(P(k - 1)) \union Part(ops[k])
        /\ Rests(P(k)) = Rests(P(k - 1)) \union RestOf(ops[k])
    BY <2>1, AppendFacts
  <2> HIDE DEF P
  <2>3. /\ Count(h[k - 1]) = Count(P(k - 1)) /\ Spans(h[k - 1]) \subseteq Spans(P(k - 1))
        /\ Rests(h[k - 1]) = Rests(P(k - 1))
        /\ Cuts = {} => h[k - 1] = P(k - 1)
    BY <1>13
  <2>4. /\ Count(h[k]) = Count(h[k - 1]) + (IF ops[k].type = "WRITE" THEN 0 ELSE 1)
        /\ Spans(h[k]) \subseteq Spans(h[k - 1]) \union Part(ops[k])
        /\ Rests(h[k]) = Rests(h[k - 1]) \union RestOf(ops[k])
        /\ Cuts = {} => h[k] = Append(h[k - 1], ops[k])
    BY <1>5, <1>11
  <2> QED BY <2>1, <2>2, <2>3, <2>4
<1> HIDE DEF Good, P
<1>14. n \in Good
  <2>1. Inductive(Good, n)
    BY <1>12, <1>13 DEF Inductive
  <2>2. \A k \in 0..n : k \in Good
    BY <1>2, <2>1, InductionUpTo
  <2> QED BY <1>2, <2>2
<1>15. P(n) = ops
  BY PrefixFacts DEF P, n
<1> QED BY <1>1, <1>2, <1>4, <1>10, <1>14, <1>15 DEF Good

-----------------------------------------------------------------------------
\* Every operation is in order with those behind it.
Ordered(s) == \A j, k \in DOMAIN s : j < k => InOrder(s[j], s[k])

\* What qsort() may make of the operations is in order, and has what they have.
LEMMA SortedFacts ==
  ASSUME NEW ops \in Seq(Ops)
  PROVE  \A s \in Sorted(ops) : /\ s \in Seq(Ops) /\ Ordered(s)
                                /\ Spans(s) = Spans(ops) /\ Count(s) = Count(ops)
                                /\ Rests(s) = Rests(ops)
<1> DEFINE n == Len(ops)
           base == {<<>>}
           V == SUBSET Seq(Ops)
           Fits(s, m, o) == /\ \A k \in 1..m : InOrder(s[k], o)
                            /\ \A k \in m + 1..Len(s) : InOrder(o, s[k])
           Places(s, o) == {InsertAt(s, m + 1, o) : m \in {m \in 0..Len(s) : Fits(s, m, o)}}
           Insert(S, o) == UNION {Places(s, o) : s \in S}
           F == [x \in V \X Ops |-> Insert(x[1], x[2])]
           it == CHOOSE it : it = [s \in SUBSET (DOMAIN ops) |->
                   IF s = {} THEN base ELSE Insert(it[s \ {Max(s)}], ops[Max(s)])]
<1>1. Sorted(ops) = it[DOMAIN ops]
  BY DEF Sorted, FoldLeft, MapThenFoldSet
<1>2. n \in Nat /\ DOMAIN ops = 1..n /\ ops \in [1..n -> Ops] /\ base \in V
  <2>1. <<>> \in Seq(Ops)
    OBVIOUS
  <2> QED BY <2>1
<1>3. ASSUME NEW S \in V, NEW o \in Ops, NEW u \in Insert(S, o)
      PROVE  \E s \in S : \E m \in 0..Len(s) : Fits(s, m, o) /\ u = InsertAt(s, m + 1, o)
  OBVIOUS
<1> HIDE DEF Insert
\* Where there is a place for an operation it is in order.
<1>4. ASSUME NEW S \in V, NEW o \in Ops, NEW u \in Insert(S, o)
      PROVE  /\ u \in Seq(Ops)
             /\ \E s \in S : /\ Ordered(s) => Ordered(u)
                             /\ Spans(u) = Spans(s) \union Part(o)
                             /\ Count(u) = Count(s) + (IF o.type = "WRITE" THEN 0 ELSE 1)
                             /\ Rests(u) = Rests(s) \union RestOf(o)
  <2>0. PICK s \in S : \E m \in 0..Len(s) : Fits(s, m, o) /\ u = InsertAt(s, m + 1, o)
    BY <1>3
  <2>1. PICK m \in 0..Len(s) : Fits(s, m, o) /\ u = InsertAt(s, m + 1, o)
    BY <2>0
  <2>2. s \in Seq(Ops) /\ u = InsertAt(s, m + 1, o)
    BY <2>1
  <2>3. /\ u \in Seq(Ops) /\ Len(u) = Len(s) + 1
        /\ \A k \in 1..Len(s) + 1 :
             u[k] = IF k <= m THEN s[k] ELSE IF k = m + 1 THEN o ELSE s[k - 1]
    <3>1. u \in Seq(Ops) /\ Len(u) = Len(s) + 1 /\ Inserted(u, s, m, o)
      BY <2>2, InsertFacts
    <3> QED BY <3>1 DEF Inserted
  <2>4. /\ Spans(u) = Spans(s) \union Part(o)
        /\ Count(u) = Count(s) + (IF o.type = "WRITE" THEN 0 ELSE 1)
        /\ Rests(u) = Rests(s) \union RestOf(o)
    BY <2>2, InsertFacts
  <2>5. Ordered(s) => Ordered(u)
    <3> SUFFICES ASSUME Ordered(s), NEW j \in DOMAIN u, NEW k \in DOMAIN u, j < k
                 PROVE  InOrder(u[j], u[k])
      BY DEF Ordered
    <3>1. /\ j \in 1..Len(s) + 1 /\ k \in 1..Len(s) + 1 /\ m \in Nat /\ m <= Len(s)
          /\ Len(s) \in Nat
      BY <2>2, <2>3
    <3>2. \A x, y \in 1..Len(s) : x < y => InOrder(s[x], s[y])
      BY <2>2 DEF Ordered
    <3>3. CASE j <= m /\ k <= m
      <4>1. u[j] = s[j] /\ u[k] = s[k] /\ j \in 1..Len(s) /\ k \in 1..Len(s)
        BY <2>3, <3>1, <3>3
      <4> QED BY <3>2, <4>1
    <3>4. CASE j <= m /\ k = m + 1
      <4>1. u[j] = s[j] /\ u[k] = o /\ j \in 1..m
        BY <2>3, <3>1, <3>4
      <4> QED BY <2>1, <4>1
    <3>5. CASE j <= m /\ k > m + 1
      <4>1. u[j] = s[j] /\ u[k] = s[k - 1] /\ j \in 1..Len(s) /\ k - 1 \in 1..Len(s) /\ j < k - 1
        BY <2>3, <3>1, <3>5
      <4> QED BY <3>2, <4>1
    <3>6. CASE j = m + 1 /\ k > m + 1
      <4>1. u[j] = o /\ u[k] = s[k - 1] /\ k - 1 \in m + 1..Len(s)
        BY <2>3, <3>1, <3>6
      <4> QED BY <2>1, <4>1
    <3>7. CASE j > m + 1 /\ k > m + 1
      <4>1. /\ u[j] = s[j - 1] /\ u[k] = s[k - 1] /\ j - 1 \in 1..Len(s)
            /\ k - 1 \in 1..Len(s) /\ j - 1 < k - 1
        BY <2>3, <3>1, <3>7
      <4> QED BY <3>2, <4>1
    <3> QED BY <3>1, <3>3, <3>4, <3>5, <3>6, <3>7
  <2> QED BY <2>3, <2>4, <2>5
<1>5. /\ F \in [V \X Ops -> V]
      /\ \A S \in V, o \in Ops : F[<<S, o>>] = Insert(S, o)
  <2>1. \A S \in V, o \in Ops : Insert(S, o) \in V
    BY <1>4
  <2> HIDE DEF V
  <2> QED BY <2>1
<1> HIDE DEF F, n, base, V, Fits
<1>6. it = [s \in SUBSET (1..n) |->
              IF s = {} THEN base ELSE Insert(it[s \ {Max(s)}], ops[Max(s)])]
  <2>1. PICK g : IsFold(g, n, base, ops, F) /\ Within(g, n, V, ops, Ops)
    BY <1>2, <1>5, FoldFixed
  <2>2. g = [s \in SUBSET (DOMAIN ops) |->
               IF s = {} THEN base ELSE Insert(g[s \ {Max(s)}], ops[Max(s)])]
    BY <1>2, <1>5, <2>1 DEF IsFold, Within
  <2> QED BY <1>2, <2>2
<1> HIDE DEF it
<1>7. Follows(it, n, V, base, ops, F)
  BY ZenonT(40), <1>2, <1>5, <1>6, MaxIn DEF Follows
<1>8. Reaches(it, n, V, base, ops, F)
  BY <1>2, <1>5, <1>7, FoldValues
<1>9. PICK h \in [0..n -> V] : Values(h, n, base, ops, F) /\ it[1..n] = h[n]
  BY <1>8 DEF Reaches
<1>10. h[0] = {<<>>} /\ \A k \in 1..n : h[k] = Insert(h[k - 1], ops[k]) /\ h[k - 1] \in V
  <2>1. \A k \in 1..n : h[k - 1] \in V /\ ops[k] \in Ops
    BY <1>2
  <2>2. h[0] = base /\ \A k \in 1..n : h[k] = F[<<h[k - 1], ops[k]>>]
    BY <1>9 DEF Values
  <2> QED BY <1>5, <2>1, <2>2 DEF base
<1> DEFINE P(k) == SubSeq(ops, 1, k)
           Good == {k \in 0..n : \A s \in h[k] : /\ Ordered(s) /\ Spans(s) = Spans(P(k))
                                                 /\ Count(s) = Count(P(k))
                                                 /\ Rests(s) = Rests(P(k))}
<1>11. 0 \in Good
  <2>1. P(0) = <<>> /\ 0 \in 0..n
    BY <1>2, PrefixFacts
  <2>2. Ordered(<<>>)
    BY DEF Ordered
  <2> QED BY <1>10, <2>1, <2>2
<1>12. ASSUME NEW k \in 1..n, k - 1 \in Good PROVE k \in Good
  <2>1. /\ P(k) = Append(P(k - 1), ops[k]) /\ P(k - 1) \in Seq(Ops) /\ ops[k] \in Ops
        /\ k \in 0..n
    BY <1>2, PrefixFacts DEF n
  <2>2. /\ Count(P(k)) = Count(P(k - 1)) + (IF ops[k].type = "WRITE" THEN 0 ELSE 1)
        /\ Spans(P(k)) = Spans(P(k - 1)) \union Part(ops[k])
        /\ Rests(P(k)) = Rests(P(k - 1)) \union RestOf(ops[k])
    BY <2>1, AppendFacts
  <2> HIDE DEF P
  <2>3. ASSUME NEW u \in h[k]
        PROVE  Ordered(u) /\ Spans(u) = Spans(P(k)) /\ Count(u) = Count(P(k)) /\ Rests(u) = Rests(P(k))
    <3>1. u \in Insert(h[k - 1], ops[k]) /\ h[k - 1] \in V
      BY <1>10
    <3>a. PICK S, o : S = h[k - 1] /\ o = ops[k]
      OBVIOUS
    <3>b. S \in V /\ o \in Ops /\ u \in Insert(S, o)
      BY <2>1, <3>1, <3>a
    <3>2. PICK s \in S :
            /\ Ordered(s) => Ordered(u)
            /\ Spans(u) = Spans(s) \union Part(o)
            /\ Count(u) = Count(s) + (IF o.type = "WRITE" THEN 0 ELSE 1)
            /\ Rests(u) = Rests(s) \union RestOf(o)
      BY <1>4, <3>b
    <3>3. Ordered(s) /\ Spans(s) = Spans(P(k - 1)) /\ Count(s) = Count(P(k - 1))
          /\ Rests(s) = Rests(P(k - 1))
      BY <1>12, <3>a
    <3> QED BY <2>2, <3>2, <3>3, <3>a
  <2> QED BY <2>1, <2>3
<1> HIDE DEF Good, P
<1>13. n \in Good
  <2>1. Inductive(Good, n)
    BY <1>11, <1>12 DEF Inductive
  <2>2. \A k \in 0..n : k \in Good
    BY <1>2, <2>1, InductionUpTo
  <2> QED BY <1>2, <2>2
<1>14. P(n) = ops
  BY PrefixFacts DEF P, n
<1>15. h[n] \subseteq Seq(Ops)
  BY <1>2 DEF V
<1> QED BY <1>1, <1>2, <1>9, <1>13, <1>14, <1>15 DEF Good

-----------------------------------------------------------------------------
\* No byte is written twice.
Apart(l) == \A j, k \in WritesOf(l) : j # k => Span(l[j]) \intersect Span(l[k]) = {}

LEMMA ApartAppend ==
  ASSUME NEW l \in Seq(Ops), NEW o \in Ops, Apart(l), Part(o) \intersect Spans(l) = {}
  PROVE  Apart(Append(l, o))
<1> DEFINE u == Append(l, o)
           m == Len(l) + 1
<1>1. /\ DOMAIN u = 1..m /\ m \in Nat /\ u[m] = o /\ DOMAIN l = 1..m - 1
      /\ \A k \in 1..m - 1 : u[k] = l[k]
  OBVIOUS
<1> HIDE DEF u, m
<1>2. ASSUME NEW k \in WritesOf(u), k # m
      PROVE  k \in WritesOf(l) /\ u[k] = l[k] /\ Span(u[k]) \subseteq Spans(l)
  <2>1. k \in 1..m - 1 /\ u[k] = l[k] /\ l[k].type = "WRITE"
    BY <1>1, <1>2 DEF WritesOf
  <2> QED BY <1>1, <2>1 DEF WritesOf, Spans
<1>3. m \in WritesOf(u) => Span(u[m]) = Part(o)
  BY <1>1 DEF WritesOf, Part
<1> SUFFICES ASSUME NEW j \in WritesOf(u), NEW k \in WritesOf(u), j # k
             PROVE  Span(u[j]) \intersect Span(u[k]) = {}
  BY DEF Apart, u
<1>4. CASE j # m /\ k # m
  <2>1. j \in WritesOf(l) /\ k \in WritesOf(l) /\ u[j] = l[j] /\ u[k] = l[k]
    BY <1>2, <1>4
  <2> QED BY <2>1 DEF Apart
<1>5. CASE j = m /\ k # m
  <2>1. Span(u[k]) \subseteq Spans(l) /\ Span(u[j]) = Part(o)
    BY <1>2, <1>3, <1>5
  <2> QED BY <2>1
<1>6. CASE j # m /\ k = m
  <2>1. Span(u[j]) \subseteq Spans(l) /\ Span(u[k]) = Part(o)
    BY <1>2, <1>3, <1>6
  <2> QED BY <2>1
<1> QED BY <1>4, <1>5, <1>6

\* Of operations in order everything is written that they write, and once.
LEMMA DisjointFacts ==
  ASSUME NEW ops \in Seq(Ops), Ordered(ops)
  PROVE  LET d == Disjoint(ops)
         IN  /\ d \in Seq(Ops) /\ Apart(d) /\ Spans(d) = Spans(ops) /\ Count(d) = Count(ops)
             /\ Rests(d) = Rests(ops)
<1> DEFINE n == Len(ops)
           base == [ops |-> <<>>, max |-> 0]
           V == [ops : Seq(Ops), max : Nat]
           End(o) == o.offset + o.size
           From(st, o) == IF o.offset < st.max THEN st.max ELSE o.offset
           Cutoff(st, o) == [o EXCEPT !.offset = From(st, o), !.size = End(o) - From(st, o)]
           Visit(st, o) ==
             IF o.type # "WRITE" THEN [st EXCEPT !.ops = Append(@, o)]
             ELSE IF End(o) <= st.max THEN st
             ELSE [ops |-> Append(st.ops, Cutoff(st, o)), max |-> End(o)]
           F == [x \in V \X Ops |-> Visit(x[1], x[2])]
           it == CHOOSE it : it = [s \in SUBSET (DOMAIN ops) |->
                   IF s = {} THEN base ELSE Visit(it[s \ {Max(s)}], ops[Max(s)])]
<1>1. Disjoint(ops) = it[DOMAIN ops].ops
  BY DEF Disjoint, FoldLeft, MapThenFoldSet
<1>2. /\ n \in Nat /\ DOMAIN ops = 1..n /\ ops \in [1..n -> Ops] /\ base \in V
  <2>1. <<>> \in Seq(Ops)
    OBVIOUS
  <2> QED BY <2>1
<1>a. base.ops = <<>> /\ base.max = 0
  OBVIOUS
\* The three cases.
<1>3. ASSUME NEW st \in V, NEW o \in Ops, o.type # "WRITE"
      PROVE  LET w == Visit(st, o)
             IN  w \in V /\ w.ops = Append(st.ops, o) /\ w.max = st.max
  <2>1. st.ops \in Seq(Ops) /\ st.max \in Nat
    BY <1>3
  <2>2. Append(st.ops, o) \in Seq(Ops)
    BY <2>1
  <2>3. Visit(st, o) = [ops |-> Append(st.ops, o), max |-> st.max]
    BY <1>3
  <2> HIDE DEF Visit
  <2> QED BY <2>1, <2>2, <2>3
<1>4. ASSUME NEW st \in V, NEW o \in Ops, o.type = "WRITE", End(o) <= st.max
      PROVE  Visit(st, o) = st
  BY <1>4
<1>5. ASSUME NEW st \in V, NEW o \in Ops, o.type = "WRITE", ~(End(o) <= st.max)
      PROVE  LET w == Visit(st, o)
                 u == Cutoff(st, o)
             IN  /\ u \in Ops /\ u.type = "WRITE"
                 /\ \A x : x \in Span(u) <=> x \in Nat /\ From(st, o) <= x /\ x < End(o)
                 /\ w \in V /\ w.ops = Append(st.ops, u) /\ w.max = End(o)
  <2> DEFINE u == Cutoff(st, o)
             from == From(st, o)
             m == End(o) - from
  <2>1. o.offset \in Nat /\ o.size \in Nat \ {0} /\ st.max \in Nat /\ st.ops \in Seq(Ops)
    BY <1>5, SpanOf
  <2>2. from \in Nat /\ m \in Nat \ {0} /\ End(o) \in Nat /\ from + m = End(o)
    BY <1>5, <2>1
  <2>3. u = [o EXCEPT !.offset = from, !.size = m]
    OBVIOUS
  <2>4. Visit(st, o) = [ops |-> Append(st.ops, u), max |-> End(o)]
    BY <1>5
  <2> HIDE DEF from, m, u, End, Visit
  <2>5. u \in Ops /\ u.type = "WRITE" /\ u.offset = from /\ u.size = m
    <3>1. \A off \in Nat, k \in Nat \ {0} :
            LET v == [o EXCEPT !.offset = off, !.size = k]
            IN  v \in Ops /\ v.type = "WRITE" /\ v.offset = off /\ v.size = k
      BY <1>5, Cut
    <3>2. LET v == [o EXCEPT !.offset = from, !.size = m]
          IN  v \in Ops /\ v.type = "WRITE" /\ v.offset = from /\ v.size = m
      BY ONLY <2>2, <3>1
    <3> QED BY <2>3, <3>2
  <2>6. \A x : x \in Span(u) <=> x \in Nat /\ from <= x /\ x < End(o)
    BY <2>2, <2>5, SpanOf
  <2>7. Append(st.ops, u) \in Seq(Ops)
    BY <2>1, <2>5
  <2>8. /\ Visit(st, o) \in V /\ Visit(st, o).ops = Append(st.ops, u)
        /\ Visit(st, o).max = End(o)
    BY <2>2, <2>4, <2>7
  <2> QED BY <2>5, <2>6, <2>8 DEF from, u
<1>6. /\ F \in [V \X Ops -> V]
      /\ \A st \in V, o \in Ops : F[<<st, o>>] = Visit(st, o)
  <2> HIDE DEF V, Visit
  <2>1. \A st \in V, o \in Ops : Visit(st, o) \in V
    BY <1>3, <1>4, <1>5
  <2> QED BY <2>1
<1> HIDE DEF F, n, base, V, Visit
<1>7. it = [s \in SUBSET (1..n) |->
              IF s = {} THEN base ELSE Visit(it[s \ {Max(s)}], ops[Max(s)])]
  <2>1. PICK g : IsFold(g, n, base, ops, F) /\ Within(g, n, V, ops, Ops)
    BY <1>2, <1>6, FoldFixed
  <2>2. g = [s \in SUBSET (DOMAIN ops) |->
               IF s = {} THEN base ELSE Visit(g[s \ {Max(s)}], ops[Max(s)])]
    BY <1>2, <1>6, <2>1 DEF IsFold, Within
  <2> QED BY <1>2, <2>2
<1> HIDE DEF it
<1>8. Follows(it, n, V, base, ops, F)
  BY ZenonT(40), <1>2, <1>6, <1>7, MaxIn DEF Follows
<1>9. Reaches(it, n, V, base, ops, F)
  BY <1>2, <1>6, <1>8, FoldValues
<1>10. PICK h \in [0..n -> V] : Values(h, n, base, ops, F) /\ it[1..n] = h[n]
  BY <1>9 DEF Reaches
<1>11. h[0] = base /\ \A k \in 1..n : h[k] = Visit(h[k - 1], ops[k]) /\ h[k - 1] \in V
  <2>1. \A k \in 1..n : h[k - 1] \in V /\ ops[k] \in Ops
    BY <1>2
  <2>2. h[0] = base /\ \A k \in 1..n : h[k] = F[<<h[k - 1], ops[k]>>]
    BY <1>10 DEF Values
  <2> QED BY <1>6, <2>1, <2>2
\* What has been written reaches up to max, which is the end of a write.
<1> DEFINE P(k) == SubSeq(ops, 1, k)
           Reached(k) == \/ h[k].max = 0
                         \/ \E j \in 1..k : ops[j].type = "WRITE" /\ End(ops[j]) = h[k].max
           Good == {k \in 0..n : /\ Apart(h[k].ops) /\ Spans(h[k].ops) = Spans(P(k))
                                 /\ Count(h[k].ops) = Count(P(k)) /\ Reached(k)
                                 /\ Rests(h[k].ops) = Rests(P(k))
                                 /\ \A x \in Spans(P(k)) : x \in Nat /\ x < h[k].max}
<1>12. 0 \in Good
  <2>1. P(0) = <<>> /\ 0 \in 0..n /\ Spans(<<>>) = {}
    BY <1>2, PrefixFacts
  <2>2. Apart(<<>>)
    BY DEF Apart, WritesOf
  <2> QED BY <1>a, <1>11, <2>1, <2>2
<1>13. ASSUME NEW k \in 1..n, k - 1 \in Good PROVE k \in Good
  <2> DEFINE o == ops[k]
             st == h[k - 1]
             w == h[k]
             p == P(k - 1)
             q == P(k)
  <2>1. /\ q = Append(p, o) /\ p \in Seq(Ops) /\ o \in Ops /\ k \in 0..n
        /\ k - 1 \in 0..Len(ops)
    BY <1>2, PrefixFacts DEF n
  <2>2. /\ Count(q) = Count(p) + (IF o.type = "WRITE" THEN 0 ELSE 1)
        /\ Spans(q) = Spans(p) \union Part(o) /\ Rests(q) = Rests(p) \union RestOf(o)
    BY <2>1, AppendFacts
  <2>3. \A j \in 1..k - 1 : Part(ops[j]) \subseteq Spans(p)
    BY <2>1, PrefixFacts
  <2>4. /\ Apart(st.ops) /\ Spans(st.ops) = Spans(p) /\ Count(st.ops) = Count(p)
        /\ Rests(st.ops) = Rests(p)
        /\ Reached(k - 1) /\ \A x \in Spans(p) : x \in Nat /\ x < st.max
    BY <1>13
  <2>5. /\ st \in V /\ w = Visit(st, o) /\ st.ops \in Seq(Ops) /\ st.max \in Nat
        /\ Count(st.ops) \in Nat
    <3>1. st \in V /\ w = Visit(st, o)
      BY <1>11
    <3>2. st.ops \in Seq(Ops) /\ st.max \in Nat
      BY <3>1 DEF V
    <3> QED BY <3>1, <3>2, CountType
  <2> HIDE DEF P
  <2> SUFFICES /\ Apart(w.ops) /\ Spans(w.ops) = Spans(q)
               /\ Count(w.ops) = Count(q) /\ Reached(k) /\ Rests(w.ops) = Rests(q)
               /\ \A x \in Spans(q) : x \in Nat /\ x < w.max
    BY <2>1
  <2>6. CASE o.type # "WRITE"
    <3>1. w.ops = Append(st.ops, o) /\ w.max = st.max
      BY ZenonT(40), <1>3, <2>1, <2>5, <2>6
    <3>2. Part(o) = {}
      BY <2>6 DEF Part
    <3>3. Apart(w.ops)
      BY <2>1, <2>4, <2>5, <3>1, <3>2, ApartAppend
    <3>4. Spans(w.ops) = Spans(q) /\ Count(w.ops) = Count(q) /\ Rests(w.ops) = Rests(q)
      BY ZenonT(40), <2>1, <2>2, <2>4, <2>5, <3>1, AppendFacts
    <3>5. Reached(k)
      BY <2>4, <3>1
    <3> QED BY <2>2, <2>4, <3>1, <3>2, <3>3, <3>4, <3>5
  \* Writes come in the order of their offsets.
  <2>7. ASSUME o.type = "WRITE", NEW x \in Nat, o.offset <= x, x < st.max
        PROVE  x \in Spans(p)
    <3>1. o.offset \in Nat
      BY <2>1, <2>7, SpanOf
    <3>2. PICK j \in 1..k - 1 : ops[j].type = "WRITE" /\ End(ops[j]) = st.max
      BY <2>4, <2>5, <2>7
    <3>3. j \in DOMAIN ops /\ k \in DOMAIN ops /\ j < k /\ ops[j] \in Ops
      BY <1>2
    <3>4. ops[j].offset <= o.offset
      BY <2>7, <3>2, <3>3 DEF Ordered, InOrder
    <3>5. x \in Span(ops[j])
      <4>1. ops[j].offset \in Nat
        BY <3>2, <3>3, SpanOf
      <4>2. ops[j].offset <= x
        BY <2>7, <3>1, <3>4, <4>1
      <4> QED BY <2>7, <3>2, <3>3, <4>2, SpanOf
    <3> QED BY <2>3, <3>2, <3>5 DEF Part
  <2>8. CASE o.type = "WRITE" /\ End(o) <= st.max
    <3>1. w = st
      BY <1>4, <2>1, <2>5, <2>8
    <3>2. Part(o) \subseteq Spans(p)
      <4> SUFFICES ASSUME NEW x \in Span(o) PROVE x \in Spans(p)
        BY <2>8 DEF Part
      <4>1. x \in Nat /\ o.offset <= x /\ x < End(o) /\ End(o) \in Nat
        BY <2>1, <2>8, SpanOf
      <4>2. x < st.max
        BY <2>5, <2>8, <4>1
      <4> QED BY <2>7, <2>8, <4>1, <4>2
    <3>3. Reached(k)
      BY <2>4, <3>1
    <3>4. Rests(w.ops) = Rests(q)
      BY <2>2, <2>4, <2>8, <3>1 DEF RestOf
    <3> QED BY <2>2, <2>4, <2>5, <2>8, <3>1, <3>2, <3>3, <3>4
  <2>9. CASE o.type = "WRITE" /\ ~(End(o) <= st.max)
    <3> DEFINE u == Cutoff(st, o)
               from == From(st, o)
    <3>1. /\ u \in Ops /\ u.type = "WRITE"
          /\ \A x : x \in Span(u) <=> x \in Nat /\ from <= x /\ x < End(o)
          /\ w.ops = Append(st.ops, u) /\ w.max = End(o)
      <4> HIDE DEF Cutoff, From, End, w, st, o
      <4>1. st \in V /\ o \in Ops /\ o.type = "WRITE" /\ ~(End(o) <= st.max)
        BY <2>1, <2>5, <2>9
      <4>2. /\ Cutoff(st, o) \in Ops /\ Cutoff(st, o).type = "WRITE"
            /\ \A x : x \in Span(Cutoff(st, o)) <=> x \in Nat /\ From(st, o) <= x /\ x < End(o)
            /\ Visit(st, o).ops = Append(st.ops, Cutoff(st, o)) /\ Visit(st, o).max = End(o)
        BY ONLY <4>1, <1>5
      <4> QED BY <2>5, <4>2
    <3>2. /\ o.offset \in Nat /\ End(o) \in Nat
          /\ \A x : x \in Span(o) <=> x \in Nat /\ o.offset <= x /\ x < End(o)
      BY SMTT(30), <2>1, <2>9, SpanOf
    <3>3. Part(u) = Span(u) /\ Part(o) = Span(o)
      BY <2>9, <3>1 DEF Part
    <3>4. from \in Nat /\ st.max <= from /\ o.offset <= from /\ st.max < End(o)
          /\ \A x \in Nat : x < from => x < st.max \/ x < o.offset
      BY <2>5, <2>9, <3>2
    <3> HIDE DEF u, from, End, Reached
    <3>5. Spans(p) \union Span(u) = Spans(p) \union Span(o)
      <4>1. Span(u) \subseteq Span(o)
        BY <3>1, <3>2, <3>4
      <4>2. ASSUME NEW x \in Span(o), x \notin Span(u) PROVE x \in Spans(p)
        <5>1. x \in Nat /\ o.offset <= x /\ x < End(o) /\ ~(from <= x)
          BY <3>1, <3>2, <4>2
        <5>2. x < st.max
          BY <2>5, <3>2, <3>4, <5>1
        <5> QED BY <2>7, <2>9, <5>1, <5>2
      <4> QED BY <4>1, <4>2
    <3>6. Part(u) \intersect Spans(st.ops) = {}
      <4> SUFFICES ASSUME NEW x \in Span(u), x \in Spans(p) PROVE FALSE
        BY <2>4, <3>3
      <4> QED BY <2>4, <2>5, <3>1, <3>4
    <3>7. Apart(w.ops)
      BY <2>4, <2>5, <3>1, <3>6, ApartAppend
    <3>8. Spans(w.ops) = Spans(q)
      BY <2>2, <2>4, <2>5, <3>1, <3>3, <3>5, AppendFacts
    <3>9. Count(w.ops) = Count(q)
      BY <2>2, <2>4, <2>5, <2>9, <3>1, AppendFacts
    <3>10. Reached(k)
      BY <2>9, <3>1 DEF Reached
    <3>11. \A x \in Spans(q) : x \in Nat /\ x < w.max
      <4> TAKE x \in Spans(q)
      <4>1. CASE x \in Spans(p)
        <5>1. x \in Nat /\ x < st.max
          BY <2>4, <4>1
        <5> QED BY <2>5, <3>1, <3>2, <3>4, <5>1
      <4>2. CASE x \in Span(o)
        BY <3>1, <3>2, <4>2
      <4> QED BY <2>2, <3>3, <4>1, <4>2
    <3>12. Rests(w.ops) = Rests(q)
      BY <2>2, <2>4, <2>5, <2>9, <3>1, AppendFacts DEF RestOf
    <3> QED BY <3>7, <3>8, <3>9, <3>10, <3>11, <3>12
  <2> QED BY <2>6, <2>8, <2>9
<1> HIDE DEF Good, P
<1>14. n \in Good
  <2>1. Inductive(Good, n)
    BY <1>12, <1>13 DEF Inductive
  <2>2. \A k \in 0..n : k \in Good
    BY <1>2, <2>1, InductionUpTo
  <2> QED BY <1>2, <2>2
<1>15. P(n) = ops
  BY PrefixFacts DEF P, n
<1>16. h[n].ops \in Seq(Ops)
  BY <1>2 DEF V
<1> QED BY <1>1, <1>2, <1>10, <1>14, <1>15, <1>16 DEF Good

-----------------------------------------------------------------------------
\* What is left of the operations of a file: what WrittenOnce says of it.
Left(u, l) ==
  /\ u # <<>> /\ Apart(u) /\ Spans(u) \subseteq Spans(l)
  /\ Count(u) = Count(l) /\ Rests(u) = Rests(l)
  /\ (\A k \in DOMAIN l : l[k].type # "TRUNCATE") => Spans(u) = Spans(l)

LEMMA OptimizedFacts ==
  ASSUME NEW ops \in Seq(Ops), ops # <<>>, NEW u \in OptimizeOperations(ops)
  PROVE  u \in Seq(Ops) /\ Left(u, ops)
<1> DEFINE c == Clipped(ops)
           NoCut == \A k \in DOMAIN ops : ops[k].type # "TRUNCATE"
<1>1. PICK s \in Sorted(c) : u = Disjoint(s)
  BY DEF OptimizeOperations
<1>2. /\ c \in Seq(Ops) /\ Spans(c) \subseteq Spans(ops) /\ Count(c) = Count(ops)
      /\ Rests(c) = Rests(ops)
      /\ NoCut => c = ops
  BY ClippedFacts
<1>3. s \in Seq(Ops) /\ Ordered(s) /\ Spans(s) = Spans(c) /\ Count(s) = Count(c)
      /\ Rests(s) = Rests(c)
  BY <1>2, SortedFacts
<1>4. u \in Seq(Ops) /\ Apart(u) /\ Spans(u) = Spans(s) /\ Count(u) = Count(s)
      /\ Rests(u) = Rests(s)
  BY <1>1, <1>3, DisjointFacts
\* A truncate is kept, and without one every write is.
<1>5. u # <<>>
  <2> SUFFICES ASSUME u = <<>> PROVE FALSE
    OBVIOUS
  <2>1. Spans(u) = {} /\ Rest(u) = {}
    BY DEF Spans, Rest, WritesOf
  <2>2. Count(ops) = 0
    BY <1>2, <1>3, <1>4, <2>1, FS_EmptySet DEF Count
  <2>3. Rest(ops) = {}
    BY <2>2, CountType, FS_EmptySet DEF Count
  <2>4. \A k \in DOMAIN ops : ops[k].type = "WRITE"
    BY <2>3, SpansOf
  <2>5. Spans(ops) = {}
    BY <1>2, <1>3, <1>4, <2>1, <2>4
  <2>6. 1 \in DOMAIN ops /\ ops[1] \in Ops
    OBVIOUS
  <2>7. ops[1].offset \in Span(ops[1])
    <3>1. ops[1].type = "WRITE"
      BY <2>4, <2>6
    <3>2. ops[1].offset \in Nat /\ ops[1].size \in Nat \ {0}
      BY <2>6, <3>1, SpanOf
    <3>3. /\ ops[1].offset <= ops[1].offset
          /\ ops[1].offset < ops[1].offset + ops[1].size
      BY <3>2
    <3> QED BY <2>6, <3>1, <3>2, <3>3, SpanOf
  <2> QED BY <2>4, <2>5, <2>6, <2>7, SpansOf DEF Part
<1> QED BY <1>2, <1>3, <1>4, <1>5 DEF Left

=============================================================================
