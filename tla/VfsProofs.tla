----------------------------- MODULE VfsProofs -----------------------------
(***************************************************************************)
(* Proofs about module Vfs, for every size of its tables and buffers and   *)
(* every set of paths and texts that the assumptions of that module allow. *)
(***************************************************************************)
EXTENDS Vfs, SequenceTheorems, WellFoundedInduction, TLAPS

\* Why cp needs no larger buffer: no file outgrows that of append.
NodeFits(n) == Len(n.path) < VFS_PATH_LEN /\ Len(n.data) < BufSize

FsOK(fs) ==
    /\ fs \in Seq(NodeSet)
    /\ Len(fs) <= VFS_MAX_NODES
    /\ \A i \in DOMAIN fs : NodeFits(fs[i])

\* The inductive invariant.
VfsInv == FsOK(nodes)

-----------------------------------------------------------------------------
\* What Take keeps of a text.
LEMMA TakeType ==
    ASSUME NEW S, NEW t \in Seq(S), NEW n \in Nat
    PROVE  /\ Take(t, n) \in Seq(S)
           /\ Len(Take(t, n)) <= n
           /\ Len(t) <= n => Take(t, n) = t
<1>1. CASE Len(t) <= n
  BY <1>1 DEF Take
<1>2. CASE ~(Len(t) <= n)
  <2>1. SubSeq(t, 1, n) \in Seq(S) /\ Len(SubSeq(t, 1, n)) = IF 1 <= n THEN n - 1 + 1 ELSE 0
    BY <1>2, SubSeqProperties
  <2>. QED BY <1>2, <2>1 DEF Take
<1>. QED BY <1>1, <1>2

\* Every function of vfs.c that changes the array keeps it well formed.
LEMMA CreateOK ==
    ASSUME NEW fs, FsOK(fs), NEW n \in NodeSet, Len(n.data) < BufSize
    PROVE  FsOK(Create(fs, n).fs)
<1>. DEFINE m == [n EXCEPT !.path = Stored(n.path)]
<1>1. Stored(n.path) \in Seq(Names) /\ Len(Stored(n.path)) < VFS_PATH_LEN
  <2>1. n.path \in Seq(Names) /\ VFS_PATH_LEN - 1 \in Nat
    BY VfsAssumption DEF NodeSet
  <2>2. Len(Take(n.path, VFS_PATH_LEN - 1)) \in Nat
    BY <2>1, TakeType
  <2>. QED BY <2>1, <2>2, TakeType, VfsAssumption DEF Stored
<1>2. m \in NodeSet /\ NodeFits(m)
  BY <1>1 DEF NodeSet, NodeFits
<1>3. ASSUME Len(fs) < VFS_MAX_NODES PROVE FsOK(Append(fs, m))
  <2>1. Append(fs, m) \in Seq(NodeSet) /\ Len(Append(fs, m)) = Len(fs) + 1 /\ Len(fs) \in Nat
    BY <1>2 DEF FsOK
  <2>2. \A i \in DOMAIN Append(fs, m) : Append(fs, m)[i] = m \/ (i \in DOMAIN fs /\ Append(fs, m)[i] = fs[i])
    BY <1>2 DEF FsOK
  <2>. QED BY <1>2, <1>3, <2>1, <2>2, VfsAssumption DEF FsOK
<1>. QED BY <1>3 DEF Create, Done, Failed

LEMMA ChangeOK ==
    ASSUME NEW fs, FsOK(fs), NEW i \in DOMAIN fs, NEW n \in NodeSet, NodeFits(n)
    PROVE  FsOK([fs EXCEPT ![i] = n])
BY DEF FsOK

\* The first node of a path is one of its nodes, and no other comes earlier.
LEMMA LookupFirst ==
    ASSUME NEW fs, FsOK(fs), NEW p, Matches(fs, p) # {}
    PROVE  /\ vfs_lookup(fs, p) \in Matches(fs, p)
           /\ vfs_lookup(fs, p) \in DOMAIN fs
           /\ vfs_lookup(fs, p) \in Nat \ {0}
           /\ \A j \in Matches(fs, p) : vfs_lookup(fs, p) <= j
<1>. DEFINE T == Matches(fs, p)
            R == {ss \in Nat \X Nat : ss[1] < ss[2]}
<1>1. T \subseteq DOMAIN fs /\ DOMAIN fs \subseteq Nat \ {0} /\ T \subseteq Nat
  BY DEF Matches, FsOK
<1>2. \E x \in T : \A y \in T : ~(<<y, x>> \in R)
  <2>. HIDE DEF T, R
  <2>1. IsWellFoundedOn(R, Nat)
    BY NatLessThanWellFounded DEF R, OpToRel
  <2>. QED BY <1>1, <2>1, WFMin DEF T
<1>3. \A x, y \in Nat : ~(<<y, x>> \in R) => x <= y
  OBVIOUS
<1>4. \E x \in T : \A y \in T : x <= y
  <2>. HIDE DEF T, R
  <2>. QED BY <1>1, <1>2, <1>3
<1>. QED BY <1>1, <1>4 DEF vfs_lookup

LEMMA LookupNone ==
    ASSUME NEW fs, NEW p
    PROVE  Matches(fs, p) = {} => vfs_lookup(fs, p) = 0
BY DEF vfs_lookup

LEMMA LookupRange ==
    ASSUME NEW fs, FsOK(fs), NEW p
    PROVE  /\ vfs_lookup(fs, p) # 0 => Matches(fs, p) # {} /\ vfs_lookup(fs, p) \in DOMAIN fs
           /\ vfs_lookup(fs, p) = 0 => Matches(fs, p) = {}
BY LookupFirst, LookupNone

\* What is known of a node of a well-formed array.
LEMMA NodeOf ==
    ASSUME NEW fs, FsOK(fs), NEW i \in DOMAIN fs
    PROVE  fs[i] \in NodeSet /\ NodeFits(fs[i])
BY DEF FsOK

\* The changes that the functions make to a node.
LEMMA NodeChanges ==
    ASSUME NEW n \in NodeSet, NodeFits(n),
           NEW t \in Seq(Chars), Len(t) < BufSize,
           NEW p \in Seq(Names), Len(p) < VFS_PATH_LEN,
           NEW m \in SUBSET {"r", "w"}
    PROVE  /\ [n EXCEPT !.data = t] \in NodeSet /\ NodeFits([n EXCEPT !.data = t])
           /\ [n EXCEPT !.path = p] \in NodeSet /\ NodeFits([n EXCEPT !.path = p])
           /\ [n EXCEPT !.perm = m] \in NodeSet /\ NodeFits([n EXCEPT !.perm = m])
           /\ [n EXCEPT !.type = "UNUSED", !.path = p, !.data = t] \in NodeSet
           /\ NodeFits([n EXCEPT !.type = "UNUSED", !.path = p, !.data = t])
BY DEF NodeSet, NodeFits

\* Empty texts and paths fit everywhere.
LEMMA EmptyFits == <<>> \in Seq(Chars) /\ <<>> \in Seq(Names) /\ Len(<<>>) < BufSize /\ Len(<<>>) < VFS_PATH_LEN
BY VfsAssumption

-----------------------------------------------------------------------------
(***************************************************************************)
(* The functions and commands keep the array well formed.                  *)
(***************************************************************************)
\* The contents that the callers of vfs_mkfile pass are short enough.
LEMMA MkfileCreates ==
    ASSUME NEW fs, NEW p, NEW t \in {<<>>, <<"m">>}
    PROVE  vfs_mkfile(fs, p, t) = Create(fs, Node("FILE", p, t, {"r", "w"}, FALSE))
<1>1. Len(<<>>) = 0 /\ Len(<<"m">>) = 1
  OBVIOUS
<1>2. VFS_DATA_MAX \in Nat /\ VFS_DATA_MAX >= 2
  <2>1. BufSize \in Nat \ {0, 1} /\ VFS_DATA_MAX \in Nat /\ BufSize <= VFS_DATA_MAX
    BY VfsAssumption
  <2>. QED BY <2>1
<1>3. Len(t) < VFS_DATA_MAX
  <2>1. CASE t = <<>>
    BY <1>1, <1>2, <2>1
  <2>2. CASE t = <<"m">>
    BY <1>1, <1>2, <2>2
  <2>. QED BY <2>1, <2>2
<1>. QED BY <1>3 DEF vfs_mkfile

LEMMA MkfileOK ==
    ASSUME NEW fs, FsOK(fs), NEW p \in Seq(Names)
    PROVE  FsOK(vfs_mkfile(fs, p, <<>>).fs)
<1>1. Node("FILE", p, <<>>, {"r", "w"}, FALSE) \in NodeSet
  BY DEF Node, NodeSet
<1>2. Len(Node("FILE", p, <<>>, {"r", "w"}, FALSE).data) < BufSize
  BY VfsAssumption DEF Node
<1>. QED BY <1>1, <1>2, CreateOK, MkfileCreates

LEMMA MkdirOK ==
    ASSUME NEW fs, FsOK(fs), NEW p \in Seq(Names)
    PROVE  FsOK(vfs_mkdir(fs, p).fs)
<1>1. Node("DIR", p, <<>>, {}, FALSE) \in NodeSet
  BY DEF Node, NodeSet
<1>2. Len(Node("DIR", p, <<>>, {}, FALSE).data) < BufSize
  BY VfsAssumption DEF Node
<1>. QED BY <1>1, <1>2, CreateOK DEF vfs_mkdir

LEMMA WriteOK ==
    ASSUME NEW fs, FsOK(fs), NEW p, NEW t \in Seq(Chars), Len(t) < BufSize
    PROVE  FsOK(vfs_write(fs, p, t).fs)
<1>. DEFINE i == vfs_lookup(fs, p)
<1>1. Take(t, VFS_DATA_MAX - 1) = t
  <2>1. VFS_DATA_MAX - 1 \in Nat /\ Len(t) <= VFS_DATA_MAX - 1
    BY VfsAssumption
  <2>. QED BY <2>1, TakeType
<1>2. CASE Writable(fs, i)
  <2>1. i \in DOMAIN fs
    BY <1>2, LookupRange DEF Writable
  <2>2. [fs[i] EXCEPT !.data = t] \in NodeSet /\ NodeFits([fs[i] EXCEPT !.data = t])
    BY <2>1, NodeOf, NodeChanges, EmptyFits
  <2>3. vfs_write(fs, p, t).fs = [fs EXCEPT ![i] = [fs[i] EXCEPT !.data = t]]
    BY <1>1, <1>2, <2>1 DEF vfs_write, Done
  <2>. QED BY <2>1, <2>2, <2>3, ChangeOK
<1>3. CASE ~Writable(fs, i)
  BY <1>3 DEF vfs_write, Failed
<1>. QED BY <1>2, <1>3

LEMMA RemoveOK ==
    ASSUME NEW fs, FsOK(fs), NEW p
    PROVE  FsOK(vfs_remove(fs, p).fs)
<1>. DEFINE i == vfs_lookup(fs, p)
            n == [fs[i] EXCEPT !.type = "UNUSED", !.path = <<>>, !.data = <<>>]
<1>1. CASE i # 0 /\ "w" \in fs[i].perm
  <2>1. i \in DOMAIN fs
    BY <1>1, LookupRange
  <2>2. n \in NodeSet /\ NodeFits(n)
    BY <2>1, NodeOf, NodeChanges, EmptyFits, VfsAssumption
  <2>3. vfs_remove(fs, p).fs = [fs EXCEPT ![i] = n]
    BY <1>1, <2>1 DEF vfs_remove, Done
  <2>. QED BY <2>1, <2>2, <2>3, ChangeOK
<1>2. CASE ~(i # 0 /\ "w" \in fs[i].perm)
  BY <1>2 DEF vfs_remove, Failed
<1>. QED BY <1>1, <1>2

LEMMA RenameOK ==
    ASSUME NEW fs, FsOK(fs), NEW old, NEW new \in Paths
    PROVE  FsOK(vfs_rename(fs, old, new).fs)
<1>. DEFINE i == vfs_lookup(fs, old)
            n == [fs[i] EXCEPT !.path = Stored(new)]
<1>1. Stored(new) = new /\ new \in Seq(Names) /\ Len(new) < VFS_PATH_LEN
  <2>1. new \in Seq(Names) /\ VFS_PATH_LEN - 1 \in Nat /\ Len(new) <= VFS_PATH_LEN - 1
    BY VfsAssumption
  <2>. QED BY <2>1, TakeType, VfsAssumption DEF Stored
<1>2. CASE vfs_rename(fs, old, new).ok
  <2>1. i \in DOMAIN fs
    BY <1>2, LookupRange DEF vfs_rename, Renamable, Failed
  <2>2. n \in NodeSet /\ NodeFits(n)
    BY <1>1, <2>1, NodeOf, NodeChanges, EmptyFits
  <2>3. vfs_rename(fs, old, new).fs = [fs EXCEPT ![i] = n]
    BY <1>2, <2>1 DEF vfs_rename, Done, Failed
  <2>. QED BY <2>1, <2>2, <2>3, ChangeOK
<1>3. CASE ~vfs_rename(fs, old, new).ok
  BY <1>3 DEF vfs_rename, Done, Failed
<1>. QED BY <1>2, <1>3

LEMMA ChmodOK ==
    ASSUME NEW fs, FsOK(fs), NEW p, NEW m \in Modes
    PROVE  FsOK(vfs_chmod(fs, p, m).fs)
<1>. DEFINE i == vfs_lookup(fs, p)
            n == [fs[i] EXCEPT !.perm = m]
<1>1. CASE i # 0
  <2>1. i \in DOMAIN fs
    BY <1>1, LookupRange
  <2>2. n \in NodeSet /\ NodeFits(n)
    BY <2>1, NodeOf, NodeChanges, EmptyFits, VfsAssumption
  <2>3. vfs_chmod(fs, p, m).fs = [fs EXCEPT ![i] = n]
    BY <1>1, <2>1 DEF vfs_chmod, Done
  <2>. QED BY <2>1, <2>2, <2>3, ChangeOK
<1>2. CASE i = 0
  BY <1>2 DEF vfs_chmod, Failed
<1>. QED BY <1>1, <1>2

\* A text that was read fits a buffer, and is all of what the path holds.
LEMMA ReadWhole ==
    ASSUME NEW fs, FsOK(fs), NEW p, NEW gen \in Texts
    PROVE  LET r == vfs_read(fs, p, BufSize, gen) IN
           /\ r.text \in Seq(Chars) /\ Len(r.text) < BufSize
           /\ r.ok => r.text = IF Seen(fs, p).dynamic THEN gen ELSE Seen(fs, p).data
<1>. DEFINE i == vfs_lookup(fs, p)
            src == IF fs[i].dynamic THEN gen ELSE fs[i].data
<1>1. CASE vfs_read(fs, p, BufSize, gen).ok
  <2>1. i # 0 /\ vfs_read(fs, p, BufSize, gen).text = Take(src, BufSize - 1)
    BY <1>1 DEF vfs_read
  <2>2. fs[i] \in NodeSet /\ NodeFits(fs[i])
    BY <2>1, LookupRange, NodeOf
  <2>3. src \in Seq(Chars) /\ Len(src) \in Nat /\ Len(src) < BufSize
    BY <2>2, VfsAssumption DEF NodeSet, NodeFits
  <2>4. BufSize - 1 \in Nat /\ Len(src) <= BufSize - 1
    BY <2>3, VfsAssumption
  <2>5. Take(src, BufSize - 1) = src
    BY <2>3, <2>4, TakeType
  <2>. QED BY <2>1, <2>3, <2>5 DEF Seen
<1>2. CASE ~vfs_read(fs, p, BufSize, gen).ok
  <2>1. vfs_read(fs, p, BufSize, gen).text = <<>>
    BY <1>2 DEF vfs_read
  <2>. QED BY <1>2, <2>1, EmptyFits
<1>. QED BY <1>1, <1>2

LEMMA EnsureOK ==
    ASSUME NEW fs, FsOK(fs), NEW p \in Paths
    PROVE  FsOK(Ensure(fs, p).fs)
BY MkfileOK, VfsAssumption DEF Ensure, Done

LEMMA OneElement ==
    ASSUME NEW S, NEW x \in S
    PROVE  <<x>> \in Seq(S)
OBVIOUS

LEMMA JoinedFits ==
    ASSUME NEW cur \in Seq(Chars), NEW t \in Seq(Chars)
    PROVE  LET out == Take(Joined(cur, t), BufSize - 1) IN
           out \in Seq(Chars) /\ Len(out) < BufSize
<1>1. Joined(cur, t) \in Seq(Chars)
  <2>. DEFINE sep == IF cur = <<>> THEN <<>> ELSE <<"space">>
  <2>0. <<>> \in Seq(Chars) /\ <<"space">> \in Seq(Chars)
    <3>1. "space" \in Chars
      BY VfsAssumption
    <3>2. <<"space">> \in Seq(Chars)
      BY <3>1, OneElement, Zenon
    <3>. QED BY <3>2, EmptyFits
  <2>1. sep \in Seq(Chars)
    <3>1. CASE cur = <<>>
      BY <2>0, <3>1
    <3>2. CASE cur # <<>>
      BY <2>0, <3>2
    <3>. QED BY <3>1, <3>2
  <2>2. cur \o sep \in Seq(Chars)
    BY <2>1, ConcatProperties
  <2>. QED BY <2>2, ConcatProperties DEF Joined
<1>2. BufSize - 1 \in Nat
  BY VfsAssumption
<1>3. Len(Take(Joined(cur, t), BufSize - 1)) \in Nat
  BY <1>1, <1>2, TakeType
<1>. QED BY <1>1, <1>2, <1>3, TakeType, VfsAssumption


LEMMA PathTypes ==
    /\ \A p \in Paths : p \in Seq(Names) /\ Len(p) < VFS_PATH_LEN
    /\ \A p \in UserPaths : p \in Seq(Names)
    /\ \A t \in Texts : t \in Seq(Chars) /\ Len(t) < BufSize
BY VfsAssumption

LEMMA ProgWriteOK ==
    ASSUME NEW fs, FsOK(fs), NEW p \in Paths, NEW t \in Texts
    PROVE  FsOK(prog_write(fs, p, t).fs)
BY EnsureOK, WriteOK, PathTypes DEF prog_write

LEMMA ProgCpOK ==
    ASSUME NEW fs, FsOK(fs), NEW p \in Paths, NEW q \in Paths, NEW gen \in Texts
    PROVE  FsOK(prog_cp(fs, p, q, gen).fs)
<1>1. FsOK(Ensure(fs, q).fs)
  BY EnsureOK
<1>2. /\ vfs_read(fs, p, BufSize, gen).text \in Seq(Chars)
      /\ Len(vfs_read(fs, p, BufSize, gen).text) < BufSize
  BY ReadWhole
<1>3. FsOK(vfs_write(Ensure(fs, q).fs, q, vfs_read(fs, p, BufSize, gen).text).fs)
  BY <1>1, <1>2, WriteOK
<1>. QED BY <1>1, <1>3 DEF prog_cp, Failed

LEMMA ProgAppendOK ==
    ASSUME NEW fs, FsOK(fs), NEW p \in Paths, NEW t \in Texts, NEW gen \in Texts
    PROVE  FsOK(prog_append(fs, p, t, gen).fs)
<1>. DEFINE r == vfs_read(fs, p, BufSize, gen)
            made == IF r.ok THEN Done(fs) ELSE vfs_mkfile(fs, p, <<>>)
            out == Take(Joined(r.text, t), BufSize - 1)
<1>1. FsOK(made.fs)
  BY MkfileOK, PathTypes DEF Done
<1>2. out \in Seq(Chars) /\ Len(out) < BufSize
  BY ReadWhole, JoinedFits, PathTypes
<1>3. FsOK(vfs_write(made.fs, p, out).fs)
  <2>. HIDE DEF made, out
  <2>. QED BY <1>1, <1>2, WriteOK
<1>. QED BY <1>1, <1>3 DEF prog_append

-----------------------------------------------------------------------------
LEMMA VfsInitInv == Init => VfsInv
<1>. DEFINE root == vfs_mkdir(<<>>, <<>>).fs
            dirs == vfs_mkdir(root, <<"tmp">>).fs
            file == vfs_mkfile(dirs, <<"motd">>, <<"m">>).fs
            proc == vfs_mkproc(file, <<"proc">>).fs
            dev == vfs_mkdev(proc, <<"null">>).fs
<1>1. FsOK(<<>>)
  BY VfsAssumption DEF FsOK
<1>2. /\ <<>> \in Seq(Names) /\ <<"tmp">> \in Seq(Names) /\ <<"motd">> \in Seq(Names)
      /\ <<"proc">> \in Seq(Names) /\ <<"null">> \in Seq(Names) /\ <<"m">> \in Seq(Chars)
  BY VfsAssumption
<1>3. FsOK(dirs)
  BY <1>1, <1>2, MkdirOK
<1>4. FsOK(file)
  <2>. DEFINE n == Node("FILE", <<"motd">>, <<"m">>, {"r", "w"}, FALSE)
  <2>1. n \in NodeSet /\ Len(n.data) < BufSize
    BY <1>2, VfsAssumption DEF Node, NodeSet
  <2>. HIDE DEF n, dirs
  <2>2. FsOK(Create(dirs, n).fs)
    BY <1>3, <2>1, CreateOK
  <2>. QED BY <2>2, MkfileCreates DEF n
<1>5. FsOK(proc)
  <2>. DEFINE n == Node("FILE", <<"proc">>, <<>>, {}, TRUE)
  <2>1. n \in NodeSet /\ Len(n.data) < BufSize
    BY <1>2, VfsAssumption DEF Node, NodeSet
  <2>. HIDE DEF n, file
  <2>2. FsOK(Create(file, n).fs)
    BY <1>4, <2>1, CreateOK
  <2>. QED BY <2>2 DEF vfs_mkproc, n
<1>6. FsOK(dev)
  <2>. DEFINE n == Node("DEV", <<"null">>, <<>>, {}, FALSE)
  <2>1. n \in NodeSet /\ Len(n.data) < BufSize
    BY <1>2, VfsAssumption DEF Node, NodeSet
  <2>. HIDE DEF n, proc
  <2>2. FsOK(Create(proc, n).fs)
    BY <1>5, <2>1, CreateOK
  <2>. QED BY <2>2 DEF vfs_mkdev, n
<1>7. Init => nodes = dev
  BY DEF Init
<1>. QED BY <1>6, <1>7 DEF VfsInv

LEMMA VfsNextInv == VfsInv /\ [Next]_vars => VfsInv'
<1>. SUFFICES ASSUME VfsInv, [Next]_vars PROVE VfsInv'
  OBVIOUS
<1>0. FsOK(nodes)
  BY DEF VfsInv
<1>1. ASSUME NEW p \in Paths, Touch(p) PROVE VfsInv'
  BY <1>0, <1>1, EnsureOK DEF Touch, prog_touch, VfsInv
<1>2. ASSUME NEW p \in Paths, Rm(p) PROVE VfsInv'
  BY <1>0, <1>2, RemoveOK DEF Rm, VfsInv
<1>3. ASSUME NEW p \in Paths, Mkdir(p) PROVE VfsInv'
  BY <1>0, <1>3, MkdirOK, PathTypes DEF Mkdir, VfsInv
<1>4. ASSUME NEW p \in Paths, NEW m \in Modes, Chmod(m, p) PROVE VfsInv'
  BY <1>0, <1>4, ChmodOK DEF Chmod, VfsInv
<1>5. ASSUME NEW p \in Paths, NEW q \in Paths, Mv(p, q) PROVE VfsInv'
  BY <1>0, <1>5, RenameOK DEF Mv, VfsInv
<1>6. ASSUME NEW p \in Paths, NEW t \in Texts, Write(p, t) PROVE VfsInv'
  BY <1>0, <1>6, ProgWriteOK DEF Write, VfsInv
<1>7. ASSUME NEW p \in Paths, NEW t \in Texts, NEW gen \in Texts, AppendTo(p, t, gen) PROVE VfsInv'
  BY <1>0, <1>7, ProgAppendOK DEF AppendTo, VfsInv
<1>8. ASSUME NEW p \in Paths, NEW q \in Paths, NEW t \in Texts, Cp(p, q, t) PROVE VfsInv'
  BY <1>0, <1>8, ProgCpOK DEF Cp, VfsInv
<1>9. ASSUME NEW p \in UserPaths, SysMkdir(p) PROVE VfsInv'
  BY <1>0, <1>9, MkdirOK, PathTypes DEF SysMkdir, VfsInv
<1>10. CASE UNCHANGED vars
  BY <1>10 DEF vars, VfsInv
<1>. QED BY <1>1, <1>2, <1>3, <1>4, <1>5, <1>6, <1>7, <1>8, <1>9, <1>10 DEF Next

\* The array of nodes is well formed, and no file outgrows the buffers of cp
\* and append, in every reachable state.
THEOREM VfsInvariant == Spec => []VfsInv
<1>. QED BY VfsInitInv, VfsNextInv, PTL DEF Spec

\* The file system's array keeps its type, within its bounds.
THEOREM VfsTypeOK == Spec => []TypeOK
<1>1. VfsInv => TypeOK
  BY VfsAssumption, NodeOf DEF VfsInv, TypeOK, FsOK, NodeFits, NodeSet
<1>. QED BY <1>1, VfsInvariant, PTL


-----------------------------------------------------------------------------
(***************************************************************************)
(* What the commands do.                                                   *)
(***************************************************************************)
\* The nodes of a path stay its nodes when types and paths stay.
LEMMA SameMatches ==
    ASSUME NEW fs, NEW gs, NEW p, DOMAIN gs = DOMAIN fs,
           \A i \in DOMAIN fs : gs[i].type = fs[i].type /\ gs[i].path = fs[i].path
    PROVE  Matches(gs, p) = Matches(fs, p) /\ vfs_lookup(gs, p) = vfs_lookup(fs, p)
<1>1. Matches(gs, p) = Matches(fs, p)
  BY DEF Matches
<1>. QED BY <1>1 DEF vfs_lookup

\* What vfs_write wrote is what the path holds.
LEMMA WriteSeen ==
    ASSUME NEW fs, FsOK(fs), NEW p, NEW t \in Seq(Chars), Len(t) < BufSize,
           vfs_write(fs, p, t).ok
    PROVE  Seen(vfs_write(fs, p, t).fs, p).data = t
<1>. DEFINE i == vfs_lookup(fs, p)
            gs == [fs EXCEPT ![i].data = t]
<1>1. Take(t, VFS_DATA_MAX - 1) = t
  <2>1. VFS_DATA_MAX - 1 \in Nat /\ Len(t) <= VFS_DATA_MAX - 1
    BY VfsAssumption
  <2>. QED BY <2>1, TakeType
<1>2. Writable(fs, i) /\ vfs_write(fs, p, t).fs = gs
  BY <1>1 DEF vfs_write, Done, Failed
<1>3. i # 0 /\ i \in DOMAIN fs
  BY <1>2, LookupRange DEF Writable
<1>4. \A j \in DOMAIN fs : fs[j] \in NodeSet
  BY NodeOf
<1>5. /\ DOMAIN gs = DOMAIN fs
      /\ \A j \in DOMAIN fs : gs[j].type = fs[j].type /\ gs[j].path = fs[j].path
      /\ gs[i].data = t
  BY <1>3, <1>4 DEF NodeSet
<1>6. vfs_lookup(gs, p) = i
  <2>. HIDE DEF gs, i
  <2>. QED BY <1>5, SameMatches DEF i
<1>. QED BY <1>2, <1>3, <1>5, <1>6 DEF Seen

\* cp copies the whole file, for all sizes of buffers and all sequences of
\* commands: see CopyIsWhole.
THEOREM VfsCopyIsWhole == Spec => []CopyIsWhole
<1>1. VfsInv => CopyIsWhole
  <2>. SUFFICES ASSUME VfsInv, NEW p \in Paths, NEW q \in Paths, NEW gen \in Texts,
                       prog_cp(nodes, p, q, gen).ok
                PROVE  Seen(prog_cp(nodes, p, q, gen).fs, q).data
                         = IF Seen(nodes, p).dynamic THEN gen ELSE Seen(nodes, p).data
    BY DEF CopyIsWhole
  <2>. DEFINE r == vfs_read(nodes, p, BufSize, gen)
              made == Ensure(nodes, q)
  <2>1. r.ok /\ made.ok /\ prog_cp(nodes, p, q, gen) = vfs_write(made.fs, q, r.text)
    BY DEF prog_cp, Failed
  <2>2. FsOK(nodes) /\ FsOK(made.fs)
    BY EnsureOK DEF VfsInv
  <2>3. /\ r.text \in Seq(Chars) /\ Len(r.text) < BufSize
        /\ r.text = IF Seen(nodes, p).dynamic THEN gen ELSE Seen(nodes, p).data
    BY <2>1, <2>2, ReadWhole
  <2>4. Seen(vfs_write(made.fs, q, r.text).fs, q).data = r.text
    <3>. HIDE DEF made, r
    <3>. QED BY <2>1, <2>2, <2>3, WriteSeen
  <2>. QED BY <2>1, <2>3, <2>4
<1>. QED BY <1>1, VfsInvariant, PTL


\* A created node is behind all others, which stay as they are.
LEMMA CreateFrame ==
    ASSUME NEW fs, FsOK(fs), NEW n \in NodeSet, Create(fs, n).ok
    PROVE  LET gs == Create(fs, n).fs
               k == Len(fs) + 1
           IN  /\ k \in Nat \ {0} /\ k \notin DOMAIN fs
               /\ DOMAIN gs = DOMAIN fs \cup {k}
               /\ \A i \in DOMAIN fs : gs[i] = fs[i] /\ i < k
               /\ gs[k] = [n EXCEPT !.path = Stored(n.path)]
               /\ is_valid_path(n.path)
<1>1. /\ is_valid_path(n.path)
      /\ Create(fs, n).fs = Append(fs, [n EXCEPT !.path = Stored(n.path)])
  BY DEF Create, Done, Failed
<1>. QED BY <1>1 DEF FsOK

\* gs is fs with a new file behind all others.
FileAdded(fs, gs, k, p) ==
    /\ FsOK(gs)
    /\ k \in Nat \ {0} /\ k \notin DOMAIN fs
    /\ \A i \in DOMAIN fs : gs[i] = fs[i] /\ i < k
    /\ gs[k].type = "FILE" /\ gs[k].perm = {"r", "w"} /\ gs[k].dynamic = FALSE
    /\ Matches(gs, p) = Matches(fs, p) \cup {k}
    /\ \A q \in Paths \ {p} : Matches(gs, q) = Matches(fs, q)

\* vfs_mkfile adds a file, when its path fits a node.
LEMMA MkfileFrame ==
    ASSUME NEW fs, FsOK(fs), NEW p \in Paths, vfs_mkfile(fs, p, <<>>).ok
    PROVE  FileAdded(fs, vfs_mkfile(fs, p, <<>>).fs, Len(fs) + 1, p)
<1>. DEFINE n == Node("FILE", p, <<>>, {"r", "w"}, FALSE)
<1>1. n \in NodeSet /\ n.path = p /\ p \in Seq(Names)
  BY PathTypes DEF Node, NodeSet
<1>2. Stored(p) = p
  <2>1. VFS_PATH_LEN - 1 \in Nat /\ Len(p) <= VFS_PATH_LEN - 1
    BY <1>1, PathTypes, VfsAssumption
  <2>. QED BY <1>1, <2>1, TakeType DEF Stored
<1>3. LET m == [n EXCEPT !.path = p]
      IN  m.type = "FILE" /\ m.path = p /\ m.perm = {"r", "w"} /\ m.dynamic = FALSE
  BY <1>1 DEF Node
<1>4. FsOK(vfs_mkfile(fs, p, <<>>).fs)
  BY <1>1, MkfileOK
<1>5. vfs_mkfile(fs, p, <<>>) = Create(fs, n)
  BY MkfileCreates
<1>. HIDE DEF n
<1>. DEFINE gs == Create(fs, n).fs
            k == Len(fs) + 1
<1>6. /\ k \in Nat \ {0} /\ k \notin DOMAIN fs
      /\ DOMAIN gs = DOMAIN fs \cup {k}
      /\ \A i \in DOMAIN fs : gs[i] = fs[i] /\ i < k
      /\ gs[k] = [n EXCEPT !.path = p]
      /\ is_valid_path(p)
  BY <1>1, <1>2, <1>5, CreateFrame
<1>. HIDE DEF gs, k
<1>7. /\ Matches(gs, p) = Matches(fs, p) \cup {k}
      /\ \A q \in Paths \ {p} : Matches(gs, q) = Matches(fs, q)
  <2>1. gs[k].type = "FILE" /\ gs[k].path = p
    BY <1>3, <1>6
  <2>2. DOMAIN gs = DOMAIN fs \cup {k} /\ k \notin DOMAIN fs /\ is_valid_path(p)
    BY <1>6
  <2>3. \A i \in DOMAIN fs : gs[i] = fs[i]
    BY <1>6
  <2>. QED BY <2>1, <2>2, <2>3 DEF Matches
<1>8. FileAdded(fs, gs, k, p)
  BY <1>3, <1>4, <1>5, <1>6, <1>7 DEF FileAdded, gs
<1>. QED BY <1>5, <1>8 DEF gs, k

\* A file that was missing can be written once it is made.
LEMMA MadeIsWritable ==
    ASSUME NEW fs, FsOK(fs), NEW p \in Paths, vfs_mkfile(fs, p, <<>>).ok,
           vfs_lookup(fs, p) = 0, NEW t
    PROVE  vfs_write(vfs_mkfile(fs, p, <<>>).fs, p, t).ok
<1>. DEFINE gs == vfs_mkfile(fs, p, <<>>).fs
            k == Len(fs) + 1
<1>0. FileAdded(fs, gs, k, p)
  BY MkfileFrame
<1>. HIDE DEF gs, k
<1>1. /\ FsOK(gs) /\ k \in Nat \ {0} /\ gs[k].type = "FILE"
      /\ gs[k].perm = {"r", "w"} /\ gs[k].dynamic = FALSE
  BY <1>0 DEF FileAdded
<1>2. Matches(gs, p) = {k}
  <2>1. Matches(fs, p) = {}
    BY LookupRange
  <2>. QED BY <1>0, <2>1 DEF FileAdded
<1>3. vfs_lookup(gs, p) = k
  BY <1>1, <1>2, LookupFirst
<1>4. Writable(gs, k)
  BY <1>1 DEF Writable
<1>. QED BY <1>3, <1>4 DEF vfs_write, Done, gs

\* A file made for a path that exists is hidden.
LEMMA MadeIsHidden ==
    ASSUME NEW fs, FsOK(fs), NEW p \in Paths, vfs_mkfile(fs, p, <<>>).ok,
           vfs_lookup(fs, p) # 0, NEW q \in Paths
    PROVE  Seen(vfs_mkfile(fs, p, <<>>).fs, q) = Seen(fs, q)
<1>. DEFINE gs == vfs_mkfile(fs, p, <<>>).fs
            k == Len(fs) + 1
<1>0. FileAdded(fs, gs, k, p)
  BY MkfileFrame
<1>. HIDE DEF gs, k
<1>1. /\ FsOK(gs) /\ k \in Nat \ {0} /\ k \notin DOMAIN fs
      /\ \A i \in DOMAIN fs : gs[i] = fs[i] /\ i < k
  BY <1>0 DEF FileAdded
<1>2. Matches(gs, p) = Matches(fs, p) \cup {k}
  BY <1>0 DEF FileAdded
<1>3. Matches(fs, p) # {}
  BY LookupRange
<1>4. vfs_lookup(gs, q) = vfs_lookup(fs, q)
  <2>1. CASE q # p
    <3>1. Matches(gs, q) = Matches(fs, q)
      BY <1>0, <2>1 DEF FileAdded
    <3>. QED BY <3>1 DEF vfs_lookup
  <2>2. CASE q = p
    <3>. DEFINE i == vfs_lookup(fs, p)
                j == vfs_lookup(gs, p)
    <3>1. i \in Matches(fs, p) /\ i \in DOMAIN fs /\ i \in Nat /\ \A x \in Matches(fs, p) : i <= x
      BY <1>3, LookupFirst
    <3>2. j \in Matches(gs, p) /\ j \in Nat /\ \A x \in Matches(gs, p) : j <= x
      BY <1>1, <1>2, <1>3, <2>2, LookupFirst
    <3>3. j <= i /\ i < k
      BY <1>1, <1>2, <2>2, <3>1, <3>2
    <3>4. j \in Matches(fs, p)
      BY <1>1, <1>2, <2>2, <3>1, <3>2, <3>3
    <3>. QED BY <2>2, <3>1, <3>2, <3>3, <3>4
  <2>. QED BY <2>1, <2>2
<1>5. vfs_lookup(fs, q) # 0 => vfs_lookup(fs, q) \in DOMAIN fs
  BY LookupRange
<1>. QED BY <1>1, <1>4, <1>5 DEF Seen, gs


-----------------------------------------------------------------------------
(***************************************************************************)
(* A command that fails.                                                   *)
(***************************************************************************)
\* The functions of vfs.c leave the array alone when they fail.
LEMMA FunctionFails ==
    ASSUME NEW fs, NEW p, NEW q, NEW m, NEW t
    PROVE  /\ ~vfs_mkfile(fs, p, <<>>).ok => vfs_mkfile(fs, p, <<>>).fs = fs
           /\ ~vfs_mkdir(fs, p).ok => vfs_mkdir(fs, p).fs = fs
           /\ ~vfs_write(fs, p, t).ok => vfs_write(fs, p, t).fs = fs
           /\ ~vfs_remove(fs, p).ok => vfs_remove(fs, p).fs = fs
           /\ ~vfs_chmod(fs, p, m).ok => vfs_chmod(fs, p, m).fs = fs
           /\ ~vfs_rename(fs, p, q).ok => vfs_rename(fs, p, q).fs = fs
<1>0. ASSUME NEW n, ~Create(fs, n).ok PROVE Create(fs, n).fs = fs
  BY <1>0 DEF Create, Done, Failed
<1>1. /\ ~vfs_mkfile(fs, p, <<>>).ok => vfs_mkfile(fs, p, <<>>).fs = fs
      /\ ~vfs_mkdir(fs, p).ok => vfs_mkdir(fs, p).fs = fs
  <2>1. vfs_mkfile(fs, p, <<>>) = Create(fs, Node("FILE", p, <<>>, {"r", "w"}, FALSE))
    BY MkfileCreates
  <2>. QED BY <1>0, <2>1 DEF vfs_mkdir
<1>2. ~vfs_write(fs, p, t).ok => vfs_write(fs, p, t).fs = fs
  BY DEF vfs_write, Done, Failed
<1>3. ~vfs_remove(fs, p).ok => vfs_remove(fs, p).fs = fs
  BY DEF vfs_remove, Done, Failed
<1>4. ~vfs_chmod(fs, p, m).ok => vfs_chmod(fs, p, m).fs = fs
  BY DEF vfs_chmod, Done, Failed
<1>5. ~vfs_rename(fs, p, q).ok => vfs_rename(fs, p, q).fs = fs
  BY DEF vfs_rename, Done, Failed
<1>. QED BY <1>1, <1>2, <1>3, <1>4, <1>5

\* Creating a file for a path without one and failing to write it does not
\* happen, so the two together fail before they change anything.
LEMMA EnsuredWriteFails ==
    ASSUME NEW fs, FsOK(fs), NEW p \in Paths, NEW t,
           ~(Ensure(fs, p).ok /\ vfs_write(Ensure(fs, p).fs, p, t).ok)
    PROVE  /\ Ensure(fs, p).fs = fs
           /\ vfs_write(fs, p, t).ok => ~Ensure(fs, p).ok
<1>1. CASE vfs_lookup(fs, p) # 0
  BY <1>1 DEF Ensure, Done
<1>2. CASE vfs_lookup(fs, p) = 0
  <2>1. Ensure(fs, p) = vfs_mkfile(fs, p, <<>>)
    BY <1>2 DEF Ensure
  <2>2. ~vfs_mkfile(fs, p, <<>>).ok
    BY <1>2, <2>1, MadeIsWritable
  <2>. QED BY <2>1, <2>2, FunctionFails
<1>. QED BY <1>1, <1>2

\* A write that fails has changed nothing.
LEMMA ProgWriteFails ==
    ASSUME NEW fs, FsOK(fs), NEW p \in Paths, NEW t, ~prog_write(fs, p, t).ok
    PROVE  prog_write(fs, p, t).fs = fs
<1>1. Ensure(fs, p).fs = fs
  BY EnsuredWriteFails DEF prog_write
<1>. QED BY <1>1, FunctionFails DEF prog_write

\* So has a copy.
LEMMA ProgCpFails ==
    ASSUME NEW fs, FsOK(fs), NEW p \in Paths, NEW q \in Paths, NEW gen, ~prog_cp(fs, p, q, gen).ok
    PROVE  prog_cp(fs, p, q, gen).fs = fs
<1>. DEFINE r == vfs_read(fs, p, BufSize, gen)
<1>1. CASE ~r.ok
  BY <1>1 DEF prog_cp, Failed
<1>2. CASE r.ok
  <2>1. prog_cp(fs, p, q, gen)
          = IF Ensure(fs, q).ok THEN vfs_write(Ensure(fs, q).fs, q, r.text) ELSE Ensure(fs, q)
    BY <1>2 DEF prog_cp
  <2>. HIDE DEF r
  <2>2. Ensure(fs, q).fs = fs
    BY <2>1, EnsuredWriteFails
  <2>. QED BY <2>1, <2>2, FunctionFails
<1>. QED BY <1>1, <1>2

\* An append that fails may leave a file behind, which an older node hides.
LEMMA ProgAppendFails ==
    ASSUME NEW fs, FsOK(fs), NEW p \in Paths, NEW t, NEW gen, ~prog_append(fs, p, t, gen).ok,
           NEW q \in Paths
    PROVE  Seen(prog_append(fs, p, t, gen).fs, q) = Seen(fs, q)
<1>. DEFINE r == vfs_read(fs, p, BufSize, gen)
            mk == vfs_mkfile(fs, p, <<>>)
            out == Take(Joined(r.text, t), BufSize - 1)
<1>1. CASE r.ok
  <2>1. prog_append(fs, p, t, gen) = vfs_write(fs, p, out)
    BY <1>1 DEF prog_append, Done
  <2>. HIDE DEF out
  <2>. QED BY <2>1, FunctionFails
<1>2. CASE ~r.ok
  <2>1. prog_append(fs, p, t, gen) = IF mk.ok THEN vfs_write(mk.fs, p, out) ELSE mk
    BY <1>2 DEF prog_append
  <2>. HIDE DEF out, r
  <2>2. CASE ~mk.ok
    <3>1. mk.fs = fs
      BY <2>2, FunctionFails
    <3>. QED BY <2>1, <2>2, <3>1
  <2>3. CASE mk.ok
    <3>1. prog_append(fs, p, t, gen).fs = mk.fs
      <4>. HIDE DEF mk
      <4>. QED BY <2>1, <2>3, FunctionFails
    <3>2. vfs_lookup(fs, p) # 0
      BY <2>1, <2>3, MadeIsWritable
    <3>. QED BY <2>3, <3>1, <3>2, MadeIsHidden
  <2>. QED BY <2>2, <2>3
<1>. QED BY <1>1, <1>2

\* What a command that reports an error leaves behind is nothing a path
\* names, whatever the sizes of the tables.
THEOREM VfsFailureIsInvisible == Spec => []FailureIsInvisible
<1>1. VfsInv => FailureIsInvisible
  <2>. SUFFICES ASSUME VfsInv, NEW r \in Results(nodes), ~r.ok, NEW x \in Paths
                PROVE  Seen(r.fs, x) = Seen(nodes, x)
    BY DEF FailureIsInvisible
  <2>0. FsOK(nodes)
    BY DEF VfsInv
  <2>1. CASE \E p \in Paths : r = prog_touch(nodes, p)
    BY <2>1, FunctionFails DEF prog_touch, Ensure, Done
  <2>2. CASE \E p \in Paths : r = vfs_remove(nodes, p) \/ r = vfs_mkdir(nodes, p)
    BY <2>2, FunctionFails
  <2>3. CASE \E p \in Paths, m \in Modes : r = vfs_chmod(nodes, p, m)
    BY <2>3, FunctionFails
  <2>4. CASE \E p \in Paths, q \in Paths : r = vfs_rename(nodes, p, q)
    BY <2>4, FunctionFails
  <2>5. CASE \E p \in Paths, t \in Texts : r = prog_write(nodes, p, t)
    BY <2>0, <2>5, ProgWriteFails
  <2>6. CASE \E p \in Paths, t \in Texts, gen \in Texts : r = prog_append(nodes, p, t, gen)
    BY <2>0, <2>6, ProgAppendFails
  <2>7. CASE \E p \in Paths, q \in Paths, gen \in Texts : r = prog_cp(nodes, p, q, gen)
    BY <2>0, <2>7, ProgCpFails
  <2>. QED BY <2>1, <2>2, <2>3, <2>4, <2>5, <2>6, <2>7 DEF Results
<1>. QED BY <1>1, VfsInvariant, PTL


-----------------------------------------------------------------------------
(***************************************************************************)
(* A file without write permission.                                        *)
(***************************************************************************)
\* From fs to gs, protected files keep all but their permissions.
Protects(fs, gs) ==
    \A i \in DOMAIN fs :
        fs[i].type = "FILE" /\ "w" \notin fs[i].perm => gs[i] = [fs[i] EXCEPT !.perm = gs[i].perm]

\* gs holds the nodes of fs, and perhaps more behind them.
Extends(fs, gs) == \A i \in DOMAIN fs : i \in DOMAIN gs /\ gs[i] = fs[i]

\* An array that stays protects.
LEMMA SameProtects ==
    ASSUME NEW fs, FsOK(fs), NEW gs, Extends(fs, gs)
    PROVE  Protects(fs, gs)
<1>1. \A i \in DOMAIN fs : fs[i] \in NodeSet
  BY NodeOf
<1>2. \A n \in NodeSet : n = [n EXCEPT !.perm = n.perm]
  BY DEF NodeSet
<1>. QED BY <1>1, <1>2 DEF Extends, Protects

\* Creating a node leaves the others.
LEMMA CreateExtends ==
    ASSUME NEW fs, FsOK(fs), NEW n \in NodeSet
    PROVE  Extends(fs, Create(fs, n).fs)
<1>1. CASE Create(fs, n).ok
  <2>1. Create(fs, n).fs = Append(fs, [n EXCEPT !.path = Stored(n.path)])
    BY <1>1 DEF Create, Done, Failed
  <2>. QED BY <2>1 DEF Extends, FsOK
<1>2. CASE ~Create(fs, n).ok
  BY <1>2 DEF Create, Done, Failed, Extends
<1>. QED BY <1>1, <1>2

LEMMA MkfileExtends ==
    ASSUME NEW fs, FsOK(fs), NEW p \in Paths
    PROVE  Extends(fs, vfs_mkfile(fs, p, <<>>).fs) /\ Extends(fs, Ensure(fs, p).fs)
<1>1. Node("FILE", p, <<>>, {"r", "w"}, FALSE) \in NodeSet
  BY PathTypes DEF Node, NodeSet
<1>2. Extends(fs, vfs_mkfile(fs, p, <<>>).fs)
  BY <1>1, CreateExtends, MkfileCreates
<1>. QED BY <1>2 DEF Ensure, Done, Extends

LEMMA MkdirExtends ==
    ASSUME NEW fs, FsOK(fs), NEW p \in Seq(Names)
    PROVE  Extends(fs, vfs_mkdir(fs, p).fs)
<1>1. Node("DIR", p, <<>>, {}, FALSE) \in NodeSet
  BY DEF Node, NodeSet
<1>. QED BY <1>1, CreateExtends DEF vfs_mkdir

\* A change of one node protects when that node is not protected, or keeps
\* all but its permissions.
LEMMA ChangeProtects ==
    ASSUME NEW fs, FsOK(fs), NEW i \in DOMAIN fs, NEW n,
           (fs[i].type = "FILE" /\ "w" \notin fs[i].perm) => n = [fs[i] EXCEPT !.perm = n.perm]
    PROVE  Protects(fs, [fs EXCEPT ![i] = n])
<1>. DEFINE gs == [fs EXCEPT ![i] = n]
<1>1. \A j \in DOMAIN fs : fs[j] \in NodeSet
  BY NodeOf
<1>2. \A m \in NodeSet : m = [m EXCEPT !.perm = m.perm]
  BY DEF NodeSet
<1>3. gs[i] = n /\ \A j \in DOMAIN fs \ {i} : gs[j] = fs[j]
  OBVIOUS
<1>. HIDE DEF gs
<1>4. Protects(fs, gs)
  BY <1>1, <1>2, <1>3 DEF Protects
<1>. QED BY <1>4 DEF gs

\* vfs_write, behind what creates a file, protects.
LEMMA WriteProtects ==
    ASSUME NEW fs, FsOK(fs), NEW gs, FsOK(gs), Extends(fs, gs), NEW p, NEW t
    PROVE  Protects(fs, vfs_write(gs, p, t).fs)
<1>. DEFINE i == vfs_lookup(gs, p)
            n == [gs[i] EXCEPT !.data = Take(t, VFS_DATA_MAX - 1)]
<1>1. Protects(gs, vfs_write(gs, p, t).fs)
  <2>1. CASE Writable(gs, i)
    <3>1. i \in DOMAIN gs
      BY <2>1, LookupRange DEF Writable
    <3>2. vfs_write(gs, p, t).fs = [gs EXCEPT ![i] = n]
      BY <2>1, <3>1 DEF vfs_write, Done
    <3>3. "w" \in gs[i].perm
      BY <2>1 DEF Writable
    <3>. HIDE DEF n, i
    <3>. QED BY <3>1, <3>2, <3>3, ChangeProtects
  <2>2. CASE ~Writable(gs, i)
    BY <2>2, SameProtects DEF vfs_write, Failed, Extends
  <2>. QED BY <2>1, <2>2
<1>. QED BY <1>1 DEF Protects, Extends

LEMMA RemoveProtects ==
    ASSUME NEW fs, FsOK(fs), NEW p
    PROVE  Protects(fs, vfs_remove(fs, p).fs)
<1>. DEFINE i == vfs_lookup(fs, p)
            n == [fs[i] EXCEPT !.type = "UNUSED", !.path = <<>>, !.data = <<>>]
<1>1. CASE i # 0 /\ "w" \in fs[i].perm
  <2>1. i \in DOMAIN fs
    BY <1>1, LookupRange
  <2>2. vfs_remove(fs, p).fs = [fs EXCEPT ![i] = n]
    BY <1>1, <2>1 DEF vfs_remove, Done
  <2>. HIDE DEF n, i
  <2>. QED BY <1>1, <2>1, <2>2, ChangeProtects
<1>2. CASE ~(i # 0 /\ "w" \in fs[i].perm)
  BY <1>2, SameProtects DEF vfs_remove, Failed, Extends
<1>. QED BY <1>1, <1>2

LEMMA RenameProtects ==
    ASSUME NEW fs, FsOK(fs), NEW old, NEW new
    PROVE  Protects(fs, vfs_rename(fs, old, new).fs)
<1>. DEFINE i == vfs_lookup(fs, old)
            n == [fs[i] EXCEPT !.path = Stored(new)]
<1>1. CASE vfs_rename(fs, old, new).ok
  <2>1. Renamable(fs, i)
    BY <1>1 DEF vfs_rename, Failed
  <2>2. i \in DOMAIN fs /\ ("w" \in fs[i].perm \/ fs[i].type # "FILE")
    BY <2>1, LookupRange DEF Renamable
  <2>3. vfs_rename(fs, old, new).fs = [fs EXCEPT ![i] = n]
    BY <1>1, <2>2 DEF vfs_rename, Done, Failed
  <2>. HIDE DEF n, i
  <2>. QED BY <2>2, <2>3, ChangeProtects
<1>2. CASE ~vfs_rename(fs, old, new).ok
  <2>1. vfs_rename(fs, old, new).fs = fs
    BY <1>2, FunctionFails
  <2>. QED BY <2>1, SameProtects DEF Extends
<1>. QED BY <1>1, <1>2

LEMMA ChmodProtects ==
    ASSUME NEW fs, FsOK(fs), NEW p, NEW m
    PROVE  Protects(fs, vfs_chmod(fs, p, m).fs)
<1>. DEFINE i == vfs_lookup(fs, p)
            n == [fs[i] EXCEPT !.perm = m]
<1>1. CASE i # 0
  <2>1. i \in DOMAIN fs
    BY <1>1, LookupRange
  <2>2. fs[i] \in NodeSet
    BY <2>1, NodeOf
  <2>3. vfs_chmod(fs, p, m).fs = [fs EXCEPT ![i] = n]
    BY <1>1, <2>1 DEF vfs_chmod, Done
  <2>4. n = [fs[i] EXCEPT !.perm = n.perm]
    BY <2>2 DEF NodeSet
  <2>. HIDE DEF n, i
  <2>. QED BY <2>1, <2>3, <2>4, ChangeProtects
<1>2. CASE i = 0
  BY <1>2, SameProtects DEF vfs_chmod, Failed, Extends
<1>. QED BY <1>1, <1>2

\* No command changes a protected file but for its permissions.
THEOREM VfsProtectedStays == Spec => ProtectedStays
<1>1. VfsInv /\ [Next]_vars => Protects(nodes, nodes') \/ UNCHANGED vars
  <2>. SUFFICES ASSUME VfsInv, Next PROVE Protects(nodes, nodes')
    OBVIOUS
  <2>0. FsOK(nodes) /\ Extends(nodes, nodes)
    BY DEF VfsInv, Extends
  <2>1. ASSUME NEW p \in Paths, Touch(p) PROVE Protects(nodes, nodes')
    BY <2>0, <2>1, MkfileExtends, SameProtects DEF Touch, prog_touch
  <2>2. ASSUME NEW p \in Paths, Rm(p) PROVE Protects(nodes, nodes')
    BY <2>0, <2>2, RemoveProtects DEF Rm
  <2>3. ASSUME NEW p \in Paths, Mkdir(p) PROVE Protects(nodes, nodes')
    BY <2>0, <2>3, MkdirExtends, SameProtects, PathTypes DEF Mkdir
  <2>4. ASSUME NEW p \in Paths, NEW m \in Modes, Chmod(m, p) PROVE Protects(nodes, nodes')
    BY <2>0, <2>4, ChmodProtects DEF Chmod
  <2>5. ASSUME NEW p \in Paths, NEW q \in Paths, Mv(p, q) PROVE Protects(nodes, nodes')
    BY <2>0, <2>5, RenameProtects DEF Mv
  <2>6. ASSUME NEW p \in Paths, NEW t \in Texts, Write(p, t) PROVE Protects(nodes, nodes')
    BY <2>0, <2>6, EnsureOK, MkfileExtends, WriteProtects, SameProtects DEF Write, prog_write
  <2>7. ASSUME NEW p \in Paths, NEW t \in Texts, NEW gen \in Texts, AppendTo(p, t, gen)
        PROVE  Protects(nodes, nodes')
    <3>. DEFINE r == vfs_read(nodes, p, BufSize, gen)
                made == IF r.ok THEN Done(nodes) ELSE vfs_mkfile(nodes, p, <<>>)
    <3>1. FsOK(made.fs) /\ Extends(nodes, made.fs)
      BY <2>0, MkfileOK, MkfileExtends, PathTypes DEF Done
    <3>2. nodes' = vfs_write(made.fs, p, Take(Joined(r.text, t), BufSize - 1)).fs \/ nodes' = made.fs
      BY <2>7 DEF AppendTo, prog_append
    <3>. HIDE DEF made, r
    <3>. QED BY <2>0, <3>1, <3>2, WriteProtects, SameProtects
  <2>8. ASSUME NEW p \in Paths, NEW q \in Paths, NEW t \in Texts, Cp(p, q, t)
        PROVE  Protects(nodes, nodes')
    <3>1. \/ nodes' = nodes \/ nodes' = Ensure(nodes, q).fs
          \/ nodes' = vfs_write(Ensure(nodes, q).fs, q, vfs_read(nodes, p, BufSize, t).text).fs
      BY <2>8 DEF Cp, prog_cp, Failed
    <3>. QED BY <2>0, <3>1, EnsureOK, MkfileExtends, WriteProtects, SameProtects
  <2>9. ASSUME NEW p \in UserPaths, SysMkdir(p) PROVE Protects(nodes, nodes')
    BY <2>0, <2>9, MkdirExtends, SameProtects, PathTypes DEF SysMkdir
  <2>. QED BY <2>1, <2>2, <2>3, <2>4, <2>5, <2>6, <2>7, <2>8, <2>9 DEF Next
<1>2. VfsInv /\ [Next]_vars =>
        [\A i \in DOMAIN nodes :
            nodes[i].type = "FILE" /\ "w" \notin nodes[i].perm =>
                nodes'[i] = [nodes[i] EXCEPT !.perm = nodes'[i].perm]]_vars
  BY <1>1 DEF Protects
<1>. QED BY <1>2, VfsInvariant, PTL DEF Spec, ProtectedStays


-----------------------------------------------------------------------------
(***************************************************************************)
(* Renaming.                                                               *)
(***************************************************************************)
\* What each path names when the first node i of p has become a node of q,
\* which had none.
LEMMA MovedMatches ==
    ASSUME NEW fs, FsOK(fs), NEW i \in DOMAIN fs, NEW p \in Paths, NEW q \in Paths,
           i \in Matches(fs, p), Matches(fs, q) = {}, is_valid_path(q), NEW gs,
           DOMAIN gs = DOMAIN fs, gs[i] = [fs[i] EXCEPT !.path = q],
           \A j \in DOMAIN fs \ {i} : gs[j] = fs[j]
    PROVE  /\ Matches(gs, q) = {i}
           /\ \A x \in Paths \ {p, q} : Matches(gs, x) = Matches(fs, x) /\ i \notin Matches(fs, x)
<1>1. fs[i] \in NodeSet
  BY NodeOf
<1>2. gs[i].type = fs[i].type /\ gs[i].path = q
  BY <1>1 DEF NodeSet
<1>3. fs[i].type # "UNUSED" /\ fs[i].path = p
  BY DEF Matches
<1>4. \A j \in DOMAIN fs : ~(fs[j].type # "UNUSED" /\ fs[j].path = q)
  BY DEF Matches
<1>5. Matches(gs, q) = {i}
  <2>1. \A j \in DOMAIN fs : (gs[j].type # "UNUSED" /\ gs[j].path = q) <=> j = i
    BY <1>2, <1>3, <1>4
  <2>2. Matches(gs, q) = {j \in DOMAIN fs : gs[j].type # "UNUSED" /\ gs[j].path = q}
    BY DEF Matches
  <2>. QED BY <2>1, <2>2
<1>6. ASSUME NEW x \in Paths \ {p, q}
      PROVE  Matches(gs, x) = Matches(fs, x) /\ i \notin Matches(fs, x)
  <2>1. \A j \in DOMAIN fs : (gs[j].type # "UNUSED" /\ gs[j].path = x)
                                <=> (fs[j].type # "UNUSED" /\ fs[j].path = x)
    BY <1>2, <1>3, <1>6
  <2>2. Matches(gs, x) = Matches(fs, x)
    BY <2>1 DEF Matches
  <2>3. i \notin Matches(fs, x)
    BY <1>3, <1>6 DEF Matches
  <2>. QED BY <2>2, <2>3
<1>. QED BY <1>5, <1>6

\* mv does what its name says.
THEOREM VfsMoveMoves == Spec => []MoveMoves
<1>1. VfsInv => MoveMoves
  <2>. SUFFICES ASSUME VfsInv, NEW p \in Paths, NEW q \in Paths, vfs_rename(nodes, p, q).ok
                PROVE  LET fs == vfs_rename(nodes, p, q).fs
                       IN  /\ Seen(nodes, q) = Unused
                           /\ Seen(fs, q) = [Seen(nodes, p) EXCEPT !.path = q]
                           /\ \A x \in Paths \ {p, q} : Seen(fs, x) = Seen(nodes, x)
    BY DEF MoveMoves
  <2>. DEFINE i == vfs_lookup(nodes, p)
              gs == [nodes EXCEPT ![i].path = q]
  <2>0. FsOK(nodes)
    BY DEF VfsInv
  <2>1. Stored(q) = q
    <3>1. q \in Seq(Names) /\ VFS_PATH_LEN - 1 \in Nat /\ Len(q) <= VFS_PATH_LEN - 1
      BY VfsAssumption
    <3>. QED BY <3>1, TakeType DEF Stored
  <2>2. i # 0 /\ is_valid_path(q) /\ vfs_lookup(nodes, q) = 0 /\ vfs_rename(nodes, p, q).fs = gs
    BY <2>1 DEF vfs_rename, Renamable, Done, Failed
  <2>3. i \in DOMAIN nodes /\ i \in Matches(nodes, p) /\ Matches(nodes, q) = {}
    BY <2>0, <2>2, LookupRange, LookupFirst
  <2>4. /\ DOMAIN gs = DOMAIN nodes /\ gs[i] = [nodes[i] EXCEPT !.path = q]
        /\ \A j \in DOMAIN nodes \ {i} : gs[j] = nodes[j]
    BY <2>3
  <2>5. FsOK(gs)
    <3>. HIDE DEF gs
    <3>. QED BY <2>0, <2>2, RenameOK
  <2>6. i \in Nat \ {0}
    BY <2>0, <2>3 DEF FsOK
  <2>. HIDE DEF gs, i
  <2>7. /\ Matches(gs, q) = {i}
        /\ \A x \in Paths \ {p, q} : Matches(gs, x) = Matches(nodes, x) /\ i \notin Matches(nodes, x)
    BY <2>0, <2>2, <2>3, <2>4, MovedMatches
  <2>8. Seen(nodes, q) = Unused
    BY <2>2 DEF Seen
  <2>9. Seen(gs, q) = [Seen(nodes, p) EXCEPT !.path = q]
    <3>1. vfs_lookup(gs, q) = i
      BY <2>5, <2>7, LookupFirst
    <3>. QED BY <2>2, <2>4, <2>6, <3>1 DEF Seen, i
  <2>10. ASSUME NEW x \in Paths \ {p, q} PROVE Seen(gs, x) = Seen(nodes, x)
    <3>1. vfs_lookup(gs, x) = vfs_lookup(nodes, x)
      <4>1. Matches(gs, x) = Matches(nodes, x)
        BY <2>7, <2>10
      <4>. QED BY <4>1 DEF vfs_lookup
    <3>2. vfs_lookup(nodes, x) # 0 => vfs_lookup(nodes, x) \in DOMAIN nodes \ {i}
      BY <2>0, <2>7, LookupRange, LookupFirst
    <3>. QED BY <2>4, <3>1, <3>2 DEF Seen
  <2>. QED BY <2>2, <2>8, <2>9, <2>10
<1>. QED BY <1>1, VfsInvariant, PTL


=============================================================================
