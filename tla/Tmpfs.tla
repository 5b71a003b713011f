-------------------------------- MODULE Tmpfs -------------------------------
(***************************************************************************)
(* The file system: the VFS layer (kernel/fs/vfs.c) over the in-memory     *)
(* file system that kmain mounts on "/" (fs/tmpfs/tmpfs.c), used by init   *)
(* and by the shell's ls (userspace/heroshell/heroshell.c).                *)
(*                                                                         *)
(* Nodes are named by their inode number; alive is the set of the nodes    *)
(* that are allocated.  tmpfs makes directories only, and every node can   *)
(* be written.  A path is its text cut at the slashes: abs says whether it *)
(* begins with one, and a component may be empty ("/a/" and "/a//b").      *)
(* Clients call the VFS one at a time, as init and the shell do.  Calls    *)
(* that return an error change nothing and are not steps.                  *)
(***************************************************************************)
EXTENDS Integers, Sequences, FiniteSets, SequencesExt

CONSTANTS Paths,        \* paths the clients use
          Mounts,       \* the paths among them that vfs_mount is called with
          MaxChildren,  \* TMPFS_MAX_CHILDREN
          MaxMounts,    \* length of mount_table: 32
          Chunk,        \* granule of a file's buffer: 512
          Offsets,      \* offsets of vfs_write
          Writes,       \* what vfs_write is given: sequences of bytes
          SizeMod,      \* offsets and capacities are 64 bits wide: 2^64
          IdxMod,       \* idx of ls is a uint32_t: 2^32
          MaxInodes,    \* bound: nodes ever made
          MaxOpen       \* bound: open nodes

None == 0               \* NULL
RootPath == [abs |-> TRUE, comps |-> <<>>]

ASSUME TmpfsAssumption ==
    /\ Paths \subseteq [abs : BOOLEAN, comps : Seq(STRING)]
    /\ RootPath \in Mounts /\ Mounts \subseteq Paths
    /\ {MaxChildren, MaxMounts, Chunk, SizeMod, IdxMod, MaxInodes} \subseteq Nat \ {0}
    /\ Offsets \subseteq Nat /\ MaxOpen \in Nat
    /\ \A w \in Writes : w \in Seq({w[i] : i \in DOMAIN w})

Names == (UNION {{p.comps[i] : i \in DOMAIN p.comps} : p \in Paths}) \cup {""}
Inodes == 1 .. MaxInodes

VARIABLES alive,       \* allocated nodes
          name,        \* vnode.name
          children,    \* children[0 .. child_count - 1]
          data,        \* the buffer, as long as capacity; "junk" if not written
          size,        \* vnode.size
          ref_count,   \* vnode.ref_count
          counter,     \* tmpfs_inode_counter
          vfs_root,
          mounts,      \* mount_table[0 .. mount_count - 1]
          handles,     \* how often each node is open (history)
          ls           \* the locals of builtin_ls: dir, idx, dirent.name

vars == <<alive, name, children, data, size, ref_count, counter, vfs_root,
          mounts, handles, ls>>
tree == <<alive, name, children, counter>>
content == <<data, size>>

NoLs == [dir |-> None, idx |-> 0, name |-> ""]

\* kmain: tmpfs_create_root, vfs_mount("/").
Init ==
    /\ alive = {1}
    /\ name = [n \in Inodes |-> IF n = 1 THEN "tmpfs" ELSE ""]
    /\ children = [n \in Inodes |-> <<>>]
    /\ data = [n \in Inodes |-> <<>>]
    /\ size = [n \in Inodes |-> 0]
    /\ ref_count = [n \in Inodes |-> 0]
    /\ counter = 2
    /\ vfs_root = 1
    /\ mounts = <<[path |-> RootPath, root |-> 1]>>
    /\ handles = [n \in Inodes |-> 0]
    /\ ls = NoLs

-----------------------------------------------------------------------------
(***************************************************************************)
(* Looking up names and paths.                                             *)
(***************************************************************************)

\* The positions of the children of n called s, and the first of them.
Called(n, s) == {i \in DOMAIN children[n] : name[children[n][i]] = s}
Position(n, s) == CHOOSE i \in Called(n, s) : \A j \in Called(n, s) : i <= j

\* Fault: the loop stops before the last child.
finddir_short(n, s) ==
    IF Called(n, s) \ {Len(children[n])} = {} THEN None
    ELSE children[n][Position(n, s)]

\* tmpfs_finddir: the first child of that name.
finddir(n, s) ==
    IF Called(n, s) = {} THEN None ELSE children[n][Position(n, s)]

\* vfs_resolve_path: the node after each turn of the loop, which ends at the
\* first empty component; whether the path is absolute makes no difference.
vfs_resolve_path(p) ==
    LET node[i \in 0 .. Len(p.comps)] ==
            IF i = 0 THEN vfs_root
            ELSE IF node[i - 1] = None \/ \E j \in 1 .. i : p.comps[j] = ""
                 THEN node[i - 1]
                 ELSE finddir(node[i - 1], p.comps[i])
    IN  node[Len(p.comps)]

\* vfs_path_dirname: "." for a path without a slash, "/" for one whose only
\* slash is the first character.
vfs_path_dirname(p) ==
    IF ~p.abs /\ Len(p.comps) <= 1 THEN [abs |-> FALSE, comps |-> <<".">>]
    ELSE [p EXCEPT !.comps = IF @ = <<>> THEN <<>> ELSE Front(@)]

\* vfs_path_basename: what follows the last slash.
vfs_path_basename(p) == IF p.comps = <<>> THEN "" ELSE Last(p.comps)

-----------------------------------------------------------------------------
(***************************************************************************)
(* Directories.                                                            *)
(***************************************************************************)

\* kcalloc of an inode, with the next inode number.
new_inode(s) ==
    /\ counter \in Inodes
    /\ counter' = counter + 1
    /\ alive' = alive \cup {counter}
    /\ name' = [name EXCEPT ![counter] = s]

\* vfs_mkdir, tmpfs_mkdir: a name that exists already is not noticed.
vfs_mkdir(p) ==
    LET parent == vfs_resolve_path(vfs_path_dirname(p))
    IN  /\ parent # None
        /\ Len(children[parent]) < MaxChildren
        /\ new_inode(vfs_path_basename(p))
        /\ children' = [children EXCEPT ![parent] = Append(@, counter)]
        /\ UNCHANGED <<content, ref_count, vfs_root, mounts, handles, ls>>

\* kfree of the buffer and of the inode: what was in them is gone.
free_inode(n) ==
    /\ alive' = alive \ {n}
    /\ name' = [name EXCEPT ![n] = ""]
    /\ data' = [data EXCEPT ![n] = <<>>]
    /\ size' = [size EXCEPT ![n] = 0]
    /\ ref_count' = [ref_count EXCEPT ![n] = 0]

\* Fault: the entries after the victim are not shifted down.
unlink_no_shift(p) ==
    LET parent == vfs_resolve_path(vfs_path_dirname(p))
        victim == finddir(parent, vfs_path_basename(p))
    IN  /\ parent # None
        /\ victim # None
        /\ free_inode(victim)
        /\ children' = [children EXCEPT ![parent] = Front(@), ![victim] = <<>>]
        /\ UNCHANGED <<counter, vfs_root, mounts, handles, ls>>

\* vfs_unlink, tmpfs_unlink: the first child of that name is freed, open or
\* not, with or without children of its own, and the rest are shifted down.
vfs_unlink(p) ==
    LET parent == vfs_resolve_path(vfs_path_dirname(p))
        victim == finddir(parent, vfs_path_basename(p))
        at     == Position(parent, vfs_path_basename(p))
    IN  /\ parent # None
        /\ victim # None
        /\ free_inode(victim)
        /\ children' = [children EXCEPT ![parent] = RemoveAt(@, at), ![victim] = <<>>]
        /\ UNCHANGED <<counter, vfs_root, mounts, handles, ls>>

-----------------------------------------------------------------------------
(***************************************************************************)
(* Open nodes.  A client that still has a node that was unlinked would use *)
(* freed memory: the model ends for that client.                           *)
(***************************************************************************)

Total(f) == FoldLeft(LAMBDA a, n : a + f[n], 0, [n \in Inodes |-> n])

open_node(n) ==
    /\ Total(handles) < MaxOpen
    /\ ref_count' = [ref_count EXCEPT ![n] = @ + 1]
    /\ handles' = [handles EXCEPT ![n] = @ + 1]

\* Fault: the count is not looked at and not changed.
close_node_uncounted(n) ==
    /\ handles' = [handles EXCEPT ![n] = @ - 1]
    /\ UNCHANGED ref_count

close_node(n) ==
    /\ handles' = [handles EXCEPT ![n] = @ - 1]
    /\ ref_count' = [ref_count EXCEPT ![n] = IF @ > 0 THEN @ - 1 ELSE @]

\* vfs_open: the flags, O_CREAT included, are ignored by tmpfs_open.
vfs_open(p) ==
    /\ vfs_resolve_path(p) # None
    /\ open_node(vfs_resolve_path(p))
    /\ UNCHANGED <<tree, content, vfs_root, mounts, ls>>

\* The shell's own handle is closed by ls.
Mine(n) == handles[n] - (IF ls.dir = n THEN 1 ELSE 0)

vfs_close(n) ==
    /\ n \in alive /\ Mine(n) > 0
    /\ close_node(n)
    /\ UNCHANGED <<tree, content, vfs_root, mounts, ls>>

AlignUp(n) == ((n + Chunk - 1) \div Chunk) * Chunk

\* Fault: the buffer grows only if the file is longer than before by a chunk.
Buffer_late(n, end) ==
    IF end <= Len(data[n]) + 1 THEN data[n]
    ELSE data[n] \o [i \in 1 .. AlignUp(end) - Len(data[n]) |-> "junk"]

\* The buffer once krealloc has made room for end bytes: what it adds is not
\* cleared.
Buffer(n, end) ==
    IF end <= Len(data[n]) THEN data[n]
    ELSE data[n] \o [i \in 1 .. AlignUp(end) - Len(data[n]) |-> "junk"]

\* vfs_write, tmpfs_write.  Nothing keeps offset + size, or its ALIGN_UP, from
\* wrapping: then memcpy leaves the buffer, or krealloc(data, 0) frees the buffer
\* that the inode goes on using, and the model ends.
vfs_write(n, offset, buf) ==
    LET end == offset + Len(buf)
    IN  /\ n \in alive /\ Mine(n) > 0
        /\ AlignUp(end) < SizeMod
        /\ data' = [data EXCEPT ![n] =
              [i \in 1 .. Len(Buffer(n, end)) |->
                  IF i \in offset + 1 .. end THEN buf[i - offset]
                  ELSE Buffer(n, end)[i]]]
        /\ size' = [size EXCEPT ![n] = IF end > @ THEN end ELSE @]
        /\ UNCHANGED <<tree, ref_count, vfs_root, mounts, handles, ls>>

-----------------------------------------------------------------------------
(***************************************************************************)
(* Mounts.                                                                 *)
(***************************************************************************)

\* tmpfs_create_root and vfs_mount: only "/" changes what paths mean.
vfs_mount(p) ==
    /\ Len(mounts) < MaxMounts
    /\ new_inode("tmpfs")
    /\ mounts' = Append(mounts, [path |-> p, root |-> counter])
    /\ vfs_root' = IF p = RootPath THEN counter ELSE vfs_root
    /\ UNCHANGED <<children, content, ref_count, handles, ls>>

\* vfs_unmount drops the first entry for the path; vfs_root stays.
vfs_unmount(p) ==
    /\ \E i \in DOMAIN mounts :
          /\ mounts[i].path = p
          /\ \A j \in 1 .. i - 1 : mounts[j].path # p
          /\ mounts' = RemoveAt(mounts, i)
    /\ UNCHANGED <<tree, content, ref_count, vfs_root, handles, ls>>

-----------------------------------------------------------------------------
(***************************************************************************)
(* builtin_ls.                                                             *)
(***************************************************************************)

\* vfs_open; dirent is not initialised, so its name may be anything.
ls_open(p) ==
    /\ ls = NoLs
    /\ vfs_resolve_path(p) # None
    /\ open_node(vfs_resolve_path(p))
    /\ \E garbage \in Names :
          ls' = [dir |-> vfs_resolve_path(p), idx |-> 0, name |-> garbage]
    /\ UNCHANGED <<tree, content, vfs_root, mounts>>

\* dirent.name after vfs_readdir has called tmpfs_readdir, which leaves it
\* alone when the index is past the end.
Listed == IF ls.idx < Len(children[ls.dir])
          THEN name[children[ls.dir][ls.idx + 1]] ELSE ls.name

\* One turn of the loop: vfs_readdir ignores the error of tmpfs_readdir and
\* looks the name up; the loop ends, with vfs_close, when that finds nothing.
ls_next ==
    /\ ls.dir \in alive
    /\ \/ /\ finddir(ls.dir, Listed) # None
          /\ ls' = [ls EXCEPT !.idx = (@ + 1) % IdxMod, !.name = Listed]
          /\ UNCHANGED <<ref_count, handles>>
       \/ /\ finddir(ls.dir, Listed) = None
          /\ ls' = NoLs
          /\ close_node(ls.dir)
    /\ UNCHANGED <<tree, content, vfs_root, mounts>>

Next ==
    \/ \E p \in Paths : vfs_mkdir(p) \/ vfs_unlink(p) \/ vfs_open(p) \/ ls_open(p)
    \/ \E p \in Mounts : vfs_mount(p) \/ vfs_unmount(p)
    \/ \E n \in Inodes : vfs_close(n)
    \/ \E n \in Inodes, o \in Offsets, w \in Writes : vfs_write(n, o, w)
    \/ ls_next

\* The shell thread goes on with its loop.
Spec == Init /\ [][Next]_vars /\ WF_vars(ls_next)

-----------------------------------------------------------------------------
(***************************************************************************)
(* Properties.                                                             *)
(***************************************************************************)

\* Every variable keeps its type.
TypeOK ==
    /\ alive \subseteq Inodes
    /\ name \in [Inodes -> Names \cup {"tmpfs"}]
    /\ \A n \in Inodes : children[n] \in Seq(Inodes)
    /\ ref_count \in [Inodes -> Nat]
    /\ counter \in 2 .. MaxInodes + 1
    /\ vfs_root \in Inodes
    /\ ls.dir \in Inodes \cup {None} /\ ls.idx \in 0 .. IdxMod - 1

\* What can be reached from the directories that are allocated is allocated,
\* and no node is entered twice, so a walk along any path never follows a
\* pointer to freed memory; neither children nor mount_table overflows.
TreeSound ==
    /\ \A n \in Inodes : Len(children[n]) <= MaxChildren
    /\ Len(mounts) <= MaxMounts
    /\ vfs_root \in alive
    /\ \A m, n \in alive : \A i \in DOMAIN children[m], j \in DOMAIN children[n] :
          children[m][i] = children[n][j] => m = n /\ i = j
    /\ \A n \in alive : \A i \in DOMAIN children[n] :
          children[n][i] \in alive \ {vfs_root}

\* ref_count is the number of times the node is open, over any order of opens,
\* closes and listings.
RefCountExact == \A n \in alive : ref_count[n] = handles[n]

\* tmpfs_read copies min(count, size - offset) bytes: it stays in the buffer
\* because no write leaves a size beyond the capacity.
DataCovered == \A n \in alive : size[n] <= Len(data[n])

\* The path under which vfs_open finds what vfs_mkdir(p) makes: vfs_path_dirname
\* takes "." for the directory of a name without a slash, which is an ordinary
\* component to vfs_resolve_path.  mkdir("x") makes x in "/.", if there is such a
\* directory, and open("x") looks in "/".
AsMade(p) ==
    IF ~p.abs /\ Len(p.comps) = 1
    THEN [abs |-> FALSE, comps |-> <<".">> \o p.comps]
    ELSE p

\* vfs_mkdir splits the path at its last slash and vfs_open walks it, and they
\* agree: what mkdir has made under a path without empty components is found by
\* open under AsMade of the path, or an older node of that name is, and "." in a
\* path changes nothing about it.
MadeIsFound ==
    [][\A p \in Paths :
          vfs_mkdir(p) /\ (\A i \in DOMAIN p.comps : p.comps[i] # "")
             => LET q == AsMade(p)
                    found == vfs_resolve_path(q)'
                IN  found # None /\ (found = counter \/ found = vfs_resolve_path(q))]_vars

\* "ls [dir]  List directory contents": the listing of a directory ends.
LsEnds == ls.dir \in alive ~> ls.dir \notin alive

=============================================================================
