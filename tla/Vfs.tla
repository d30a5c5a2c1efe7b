--------------------------------- MODULE Vfs ---------------------------------
(***************************************************************************)
(* The flat-array file system of vfs.c and the shell commands that change  *)
(* it.  A node is found by its whole path; directories own nothing.  Each  *)
(* function of the code is an operator on the array of nodes that returns  *)
(* the new array and whether the call succeeded, and each command is one   *)
(* step: commands run on the kernel thread, and the one system call that   *)
(* creates a node runs while the shell waits in exec.                      *)
(*                                                                         *)
(* A path is the sequence of its names, <<>> being "/"; its length in      *)
(* names stands for the length of the string.  A text is a sequence of     *)
(* characters.  A NULL data pointer reads like an empty text and is one.   *)
(***************************************************************************)
EXTENDS Naturals, Sequences

CONSTANTS
    VFS_MAX_NODES,
    VFS_PATH_LEN,       \* a node stores fewer names than that
    VFS_MAX_PATH_LEN,   \* a valid path has fewer names than that
    VFS_DATA_MAX,
    BufSize,            \* sizeof the buffers of cp and append
    Names, Chars,       \* what paths and texts consist of
    Paths,              \* what commands are given: short, as a command line is
    UserPaths,          \* what SYS_MKDIR is given
    Texts,              \* what is written, and what /proc readers produce
    Modes               \* the permissions chmod is asked for

ASSUME VfsAssumption ==
    /\ VFS_MAX_NODES \in Nat
    /\ VFS_PATH_LEN \in Nat \ {0}
    /\ VFS_MAX_PATH_LEN \in Nat
    /\ BufSize \in Nat \ {0, 1}
    /\ VFS_DATA_MAX \in Nat /\ BufSize <= VFS_DATA_MAX
    /\ {"tmp", "motd", "proc", "null"} \subseteq Names
    /\ {"m", "space"} \subseteq Chars
    /\ \A p \in Paths : p \in Seq(Names) /\ Len(p) < VFS_PATH_LEN
    /\ \A p \in UserPaths : p \in Seq(Names)
    /\ \A t \in Texts : t \in Seq(Chars) /\ t # <<>> /\ Len(t) < BufSize
    /\ \A m \in Modes : m \subseteq {"r", "w"}

VARIABLES
    nodes       \* nodes[1 .. node_count]

vars == <<nodes>>

-----------------------------------------------------------------------------
(***************************************************************************)
(* vfs.c                                                                   *)
(***************************************************************************)
Node(type, path, data, perm, dynamic) ==
    [type |-> type, path |-> path, data |-> data, perm |-> perm, dynamic |-> dynamic]

Unused == Node("UNUSED", <<>>, <<>>, {}, FALSE)

Done(fs) == [ok |-> TRUE, fs |-> fs]
Failed(fs) == [ok |-> FALSE, fs |-> fs]

\* At most n characters of a text.
Take(t, n) == IF Len(t) <= n THEN t ELSE SubSeq(t, 1, n)

is_valid_path(p) == \A k \in DOMAIN p : p[k] # ".."
is_valid_path_len(p) == Len(p) < VFS_MAX_PATH_LEN

\* Mutant: the copy is bounded by the longest valid path.
StoredWhole(p) == Take(p, VFS_MAX_PATH_LEN - 1)

\* What vfs_strcpy keeps of a path.
Stored(p) == Take(p, VFS_PATH_LEN - 1)

\* The nodes a path names: later ones are hidden by the first.
Matches(fs, p) ==
    IF is_valid_path(p)
    THEN {i \in DOMAIN fs : fs[i].type # "UNUSED" /\ fs[i].path = p}
    ELSE {}

\* The first node with that path, 0 for NULL.
vfs_lookup(fs, p) ==
    IF Matches(fs, p) = {} THEN 0
    ELSE CHOOSE i \in Matches(fs, p) : \A j \in Matches(fs, p) : i <= j

\* vfs_alloc and the initialisation of the node: slots are never reused.
Create(fs, n) ==
    IF is_valid_path(n.path) /\ is_valid_path_len(n.path) /\ Len(fs) < VFS_MAX_NODES
    THEN Done(Append(fs, [n EXCEPT !.path = Stored(n.path)]))
    ELSE Failed(fs)

vfs_mkdir(fs, p) == Create(fs, Node("DIR", p, <<>>, {}, FALSE))
vfs_mkdev(fs, p) == Create(fs, Node("DEV", p, <<>>, {}, FALSE))
vfs_mkproc(fs, p) == Create(fs, Node("FILE", p, <<>>, {}, TRUE))

\* Mutant: the permissions are not set.
vfs_mkfile_no_perm(fs, p, content) == Create(fs, Node("FILE", p, content, {}, FALSE))

\* The length is checked once the node is there: a content that is too long
\* leaves it without data and permissions.  No caller passes one.
vfs_mkfile(fs, p, content) ==
    IF Len(content) < VFS_DATA_MAX
    THEN Create(fs, Node("FILE", p, content, {"r", "w"}, FALSE))
    ELSE Failed(Create(fs, Node("FILE", p, <<>>, {}, FALSE)).fs)

\* vfs_read into a buffer of the given size; gen is what a /proc reader
\* would produce now.
vfs_read(fs, p, size, gen) ==
    LET i == vfs_lookup(fs, p) IN
    IF i = 0 \/ (i # 0 /\ (fs[i].type = "DIR" \/ ("r" \notin fs[i].perm /\ ~fs[i].dynamic)))
    THEN [ok |-> FALSE, text |-> <<>>]
    ELSE [ok |-> TRUE, text |-> Take(IF fs[i].dynamic THEN gen ELSE fs[i].data, size - 1)]

Writable(fs, i) ==
    /\ i # 0
    /\ fs[i].type = "FILE"
    /\ ~fs[i].dynamic
    /\ "w" \in fs[i].perm

vfs_write(fs, p, t) ==
    LET i == vfs_lookup(fs, p) IN
    IF Writable(fs, i)
    THEN Done([fs EXCEPT ![i].data = Take(t, VFS_DATA_MAX - 1)])
    ELSE Failed(fs)

\* Only the first match is considered; permissions and reader stay behind.
vfs_remove(fs, p) ==
    LET i == vfs_lookup(fs, p) IN
    IF i # 0 /\ "w" \in fs[i].perm
    THEN Done([fs EXCEPT ![i].type = "UNUSED", ![i].path = <<>>, ![i].data = <<>>])
    ELSE Failed(fs)

\* Mutant: the permission of the file is not asked.
RenamableAny(fs, i) == i # 0

Renamable(fs, i) == i # 0 /\ ("w" \in fs[i].perm \/ fs[i].type # "FILE")

\* Mutant: an existing destination is not refused.
vfs_rename_onto(fs, old, new) ==
    LET i == vfs_lookup(fs, old) IN
    IF Renamable(fs, i)
    THEN Done([fs EXCEPT ![i].path = Stored(new)])
    ELSE Failed(fs)

vfs_rename(fs, old, new) ==
    LET i == vfs_lookup(fs, old) IN
    IF /\ is_valid_path(new) /\ is_valid_path_len(new)
       /\ Renamable(fs, i)
       /\ vfs_lookup(fs, new) = 0
    THEN Done([fs EXCEPT ![i].path = Stored(new)])
    ELSE Failed(fs)

vfs_chmod(fs, p, perm) ==
    LET i == vfs_lookup(fs, p) IN
    IF i # 0 THEN Done([fs EXCEPT ![i].perm = perm]) ELSE Failed(fs)

-----------------------------------------------------------------------------
(***************************************************************************)
(* The shell's file commands.                                              *)
(***************************************************************************)
\* Create an empty file unless the path names something.
Ensure(fs, p) == IF vfs_lookup(fs, p) # 0 THEN Done(fs) ELSE vfs_mkfile(fs, p, <<>>)

prog_touch(fs, p) == Ensure(fs, p)

prog_write(fs, p, t) ==
    LET made == Ensure(fs, p) IN IF made.ok THEN vfs_write(made.fs, p, t) ELSE made

prog_cp(fs, src, dst, gen) ==
    LET r == vfs_read(fs, src, BufSize, gen)
        made == Ensure(fs, dst)
    IN  IF ~r.ok THEN Failed(fs)
        ELSE IF made.ok THEN vfs_write(made.fs, dst, r.text) ELSE made

\* What append writes behind cur.
Joined(cur, t) == cur \o (IF cur = <<>> THEN <<>> ELSE <<"space">>) \o t

\* Mutant: the output buffer is one byte larger.
prog_append_longer(fs, p, t, gen) ==
    LET r == vfs_read(fs, p, BufSize, gen)
        made == IF r.ok THEN Done(fs) ELSE vfs_mkfile(fs, p, <<>>)
    IN  IF made.ok THEN vfs_write(made.fs, p, Take(Joined(r.text, t), BufSize)) ELSE made

\* A file that cannot be read is taken for one that is not there.
prog_append(fs, p, t, gen) ==
    LET r == vfs_read(fs, p, BufSize, gen)
        made == IF r.ok THEN Done(fs) ELSE vfs_mkfile(fs, p, <<>>)
    IN  IF made.ok THEN vfs_write(made.fs, p, Take(Joined(r.text, t), BufSize - 1)) ELSE made

-----------------------------------------------------------------------------
(***************************************************************************)
(* The machine.  vfs_populate, with one node of each kind it makes.        *)
(***************************************************************************)
Init ==
    LET dirs == vfs_mkdir(vfs_mkdir(<<>>, <<>>).fs, <<"tmp">>)
        file == vfs_mkfile(dirs.fs, <<"motd">>, <<"m">>)
        proc == vfs_mkproc(file.fs, <<"proc">>)
    IN  nodes = vfs_mkdev(proc.fs, <<"null">>).fs

Touch(p) == nodes' = prog_touch(nodes, p).fs
Write(p, t) == nodes' = prog_write(nodes, p, t).fs
Rm(p) == nodes' = vfs_remove(nodes, p).fs
Mv(old, new) == nodes' = vfs_rename(nodes, old, new).fs
Mkdir(p) == nodes' = vfs_mkdir(nodes, p).fs
Chmod(m, p) == nodes' = vfs_chmod(nodes, p, m).fs
Cp(src, dst, gen) == nodes' = prog_cp(nodes, src, dst, gen).fs
AppendTo(p, t, gen) == nodes' = prog_append(nodes, p, t, gen).fs
SysMkdir(p) == nodes' = vfs_mkdir(nodes, p).fs

Next ==
    \/ \E p \in Paths :
        \/ Touch(p)
        \/ Rm(p)
        \/ Mkdir(p)
        \/ \E m \in Modes : Chmod(m, p)
        \/ \E q \in Paths : Mv(p, q)
        \/ \E t \in Texts :
            \/ Write(p, t)
            \/ \E gen \in Texts : AppendTo(p, t, gen)
            \/ \E q \in Paths : Cp(p, q, t)
    \/ \E p \in UserPaths : SysMkdir(p)

Spec == Init /\ [][Next]_vars

-----------------------------------------------------------------------------
NodeSet == [type : {"UNUSED", "FILE", "DIR", "DEV"}, path : Seq(Names), data : Seq(Chars),
            perm : SUBSET {"r", "w"}, dynamic : BOOLEAN]

TypeOK ==
    /\ nodes \in Seq(NodeSet)
    /\ Len(nodes) <= VFS_MAX_NODES
    /\ \A i \in DOMAIN nodes :
        Len(nodes[i].path) < VFS_PATH_LEN /\ Len(nodes[i].data) < VFS_DATA_MAX

-----------------------------------------------------------------------------
(***************************************************************************)
(* Correctness.  What a command does is stated of every state in which it  *)
(* can be given: the commands are operators of the state.                  *)
(***************************************************************************)
\* What a path names.
Seen(fs, p) == LET i == vfs_lookup(fs, p) IN IF i = 0 THEN Unused ELSE fs[i]

\* All that the next command can come to.
Results(fs) ==
    (UNION {{prog_touch(fs, p), vfs_remove(fs, p), vfs_mkdir(fs, p)} : p \in Paths})
    \cup {vfs_chmod(fs, p, m) : p \in Paths, m \in Modes}
    \cup {vfs_rename(fs, p, q) : p \in Paths, q \in Paths}
    \cup {prog_write(fs, p, t) : p \in Paths, t \in Texts}
    \cup {prog_append(fs, p, t, gen) : p \in Paths, t \in Texts, gen \in Texts}
    \cup {prog_cp(fs, p, q, gen) : p \in Paths, q \in Paths, gen \in Texts}

\* A command that reports an error has changed nothing that a path names,
\* although write, cp and append create the file first and may then fail to
\* write it: what they create can be written, or is hidden by an older node.
FailureIsInvisible ==
    \A r \in Results(nodes) : ~r.ok => \A p \in Paths : Seen(r.fs, p) = Seen(nodes, p)

\* cp copies the whole file: its buffer is no smaller than what any sequence
\* of write, append and cp can make of a file.
CopyIsWhole ==
    \A p, q \in Paths, gen \in Texts :
        LET r == prog_cp(nodes, p, q, gen)
            from == Seen(nodes, p)
        IN  r.ok => Seen(r.fs, q).data = IF from.dynamic THEN gen ELSE from.data

\* mv carries the node to the new path as it was, over nothing that was
\* there, and disturbs no third path, hidden nodes or not.
MoveMoves ==
    \A p, q \in Paths :
        LET r == vfs_rename(nodes, p, q) IN
        r.ok => /\ Seen(nodes, q) = Unused
                /\ Seen(r.fs, q) = [Seen(nodes, p) EXCEPT !.path = q]
                /\ \A x \in Paths \ {p, q} : Seen(r.fs, x) = Seen(nodes, x)

\* A file without write permission keeps its path and content until chmod
\* gives the permission: no command reaches it by another way.
ProtectedStays ==
    [][\A i \in DOMAIN nodes :
        nodes[i].type = "FILE" /\ "w" \notin nodes[i].perm =>
            nodes'[i] = [nodes[i] EXCEPT !.perm = nodes'[i].perm]]_vars

\* "remove file or node": what rm removed is gone.
RemoveRemoves ==
    \A p \in Paths : LET r == vfs_remove(nodes, p) IN r.ok => vfs_lookup(r.fs, p) = 0

\* "append text to file": what the file held stays in front.
AppendKeeps ==
    \A p \in Paths, t \in Texts, gen \in Texts :
        LET r == prog_append(nodes, p, t, gen)
            old == Seen(nodes, p).data
        IN  r.ok => Take(Seen(r.fs, p).data, Len(old)) = old

=============================================================================
