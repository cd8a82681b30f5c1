------------------------------ MODULE FsrpcMount ------------------------------
(***************************************************************************)
(* fsrpcMount (daemon/fsrpc_server.go): the host side of one FS-RPC mount. *)
(* The guest names files by inode numbers and open files by handles; the   *)
(* mount keeps two tables between inode numbers and host paths, and a      *)
(* table of open handles.  Each call first lets maybeGC collect, then runs *)
(* one handler against the host's directory tree, which other programs on  *)
(* the host may change between calls.                                      *)
(*                                                                         *)
(* The serve goroutine runs the handlers one at a time, so a handler is    *)
(* one step here.                                                          *)
(***************************************************************************)
EXTENDS Integers, Sequences, FiniteSets

CONSTANTS
  Names,         \* file names; numbers, for their order
  MaxDepth,      \* bound: depth of the tree below the mount's root
  MaxIno,        \* bound: inode numbers are 1 .. MaxIno
  MaxObj,        \* bound: host files that ever exist
  LastFH,        \* handles are 1 .. LastFH; 2^64 - 1 in the code
  MaxHandles,    \* fsrpcMaxHandleEntries; 2048 in the code
  MaxInodes,     \* fsrpcMaxInodeEntries; 8192 in the code
  ChildNames,    \* the names the guest sends: of Names, Dot and DotDot
  FlagSets,      \* the sets of open flags the guest uses
  InitTree       \* the host's tree when the mount starts

(* A path is the sequence of names below the mount's root, <<>> the root.  *)
Paths == UNION {[1 .. k -> Names] : k \in 0 .. MaxDepth}
Root == <<>>
NoPath == <<0>>
Dot == -1
DotDot == -2
Inos == 1 .. MaxIno
FHs == 1 .. LastFH

Absent == [kind |-> "none", obj |-> 0]
Node == [kind : {"file", "dir", "symlink"}, obj : 1 .. MaxObj] \cup {Absent}
InitObjs == {InitTree[p].obj : p \in Paths} \ {0}

ASSUME MountAssumption ==
  /\ Names \subseteq Nat \ {0} /\ IsFiniteSet(Names)
  /\ MaxDepth \in Nat /\ MaxIno \in Nat \ {0} /\ MaxObj \in Nat
  /\ LastFH \in Nat \ {0} /\ MaxHandles \in Nat /\ MaxInodes \in Nat
  /\ InitTree \in [Paths -> Node] /\ InitTree[Root].kind = "dir"
  /\ ChildNames \subseteq Names \cup {Dot, DotDot}

VARIABLES
  orderly, \* the guest alone changes the tree, and renames what it has looked up
  mode,    \* "ro" or "rw"
  mount,   \* the tables of fsrpcMount
  tree,    \* the host's tree: path -> node
  nextObj, \* the next file identity
  changed, \* history: the guest has changed a host file or the tree
  objOf    \* history: the file each inode number was given to

vars == <<orderly, mode, mount, tree, nextObj, changed, objOf>>

(* pathToIno[p] = 0 and inoToPath[i] = NoPath stand for a missing entry.   *)
(* handles holds the entries of the map, least recently used first, so     *)
(* their order stands for lastUsed.                                        *)
Handle == [fh : FHs, ino : Inos, obj : 1 .. MaxObj, writable : BOOLEAN]
Mount == [pathToIno : [Paths -> 0 .. MaxIno],
          inoToPath : [Inos -> Paths \cup {NoPath}],
          nextIno   : 1 .. MaxIno + 1,
          handles   : Seq(Handle),
          nextFH    : FHs]

TypeOK ==
  /\ orderly \in BOOLEAN
  /\ mode \in {"ro", "rw"}
  /\ mount \in Mount
  /\ tree \in [Paths -> Node]
  /\ nextObj \in 1 .. MaxObj + 1
  /\ changed \in BOOLEAN
  /\ objOf \in [Inos -> 0 .. MaxObj]

\* newFSRPCMount: the root has inode 1.
NewMount ==
  [pathToIno |-> [p \in Paths |-> IF p = Root THEN 1 ELSE 0],
   inoToPath |-> [i \in Inos |-> IF i = 1 THEN Root ELSE NoPath],
   nextIno   |-> 2,
   handles   |-> <<>>,
   nextFH    |-> 1]

Init ==
  /\ orderly \in BOOLEAN
  /\ mode \in {"ro", "rw"}
  /\ mount = NewMount
  /\ tree = InitTree
  /\ nextObj \in {n \in 1 .. MaxObj + 1 : InitObjs = 1 .. n - 1}
  /\ changed = FALSE
  /\ objOf = [i \in Inos |-> IF i = 1 THEN InitTree[Root].obj ELSE 0]

-----------------------------------------------------------------------------
(* Paths.                                                                  *)
Dir(p) == SubSeq(p, 1, Len(p) - 1)
Under(p, q) == Len(p) <= Len(q) /\ SubSeq(q, 1, Len(p)) = p

\* resolveChildPath: a name below parent, which never leaves the root.
Resolve(parent, name) ==
  IF name = Dot THEN parent
  ELSE IF name = DotDot THEN (IF parent = Root THEN Root ELSE Dir(parent))
  ELSE Append(parent, name)

\* The new name of p, which is old or below it, once old is renamed to new.
Moved(old, new, p) == new \o SubSeq(p, Len(old) + 1, Len(p))

(* The host's tree is one: above what exists there are directories, and a  *)
(* file has one name (no hard links).                                      *)
ASSUME TreeAssumption ==
  \A p, q \in Paths : InitTree[q] # Absent =>
    /\ Under(p, q) /\ p # q => InitTree[p].kind = "dir"
    /\ InitTree[p].obj = InitTree[q].obj => p = q

-----------------------------------------------------------------------------
(* The inode tables.                                                       *)
Mapped(m, p) == m.pathToIno[p] # 0

\* pathForInode: the paths, none or one, of inode i.
PathsOf(m, i) == {m.inoToPath[i]} \ {NoPath}

\* removePathMappingLocked, for every path in D.
Unmap(m, D) ==
  [m EXCEPT
    !.pathToIno = [p \in Paths |-> IF p \in D THEN 0 ELSE m.pathToIno[p]],
    !.inoToPath = [i \in Inos |->
       IF m.inoToPath[i] \in D /\ m.pathToIno[m.inoToPath[i]] = i
       THEN NoPath ELSE m.inoToPath[i]]]

\* Both tables get the entries of u, a function from paths to inodes.
Install(m, u) ==
  [m EXCEPT
    !.pathToIno = [p \in Paths |-> IF p \in DOMAIN u THEN u[p] ELSE m.pathToIno[p]],
    !.inoToPath = [i \in Inos |->
       IF \E p \in DOMAIN u : u[p] = i THEN CHOOSE p \in DOMAIN u : u[p] = i
       ELSE m.inoToPath[i]]]

(* ensureInode, for the paths of S in the order of readdir: those without  *)
(* an inode get the next ones.  (At most MaxIno are ever given out.)       *)
ListedBefore(p, q) ==
  Len(p) < Len(q) \/ (Len(p) = Len(q) /\ p # Root /\ p[Len(p)] < q[Len(q)])

EnsureInodes(m, S) ==
  LET new == {p \in S : ~Mapped(m, p)}
  IN UNION {{[Install(m, u) EXCEPT !.nextIno = m.nextIno + n] :
               u \in {f \in [new -> m.nextIno .. m.nextIno + n - 1] :
                        /\ \A i \in m.nextIno .. m.nextIno + n - 1 :
                             \E p \in new : f[p] = i
                        /\ \A p, q \in new :
                             /\ f[p] = f[q] => p = q
                             /\ ListedBefore(p, q) => f[p] < f[q]}} :
            n \in {k \in 0 .. MaxIno : m.nextIno + k <= MaxIno + 1}}

\* Mutant: the entries that are replaced are not removed first.
RemapKeepsTarget(m, old, new) ==
  LET src == {p \in Paths : Under(old, p) /\ Mapped(m, p)}
      u == [q \in {Moved(old, new, p) : p \in src} |->
              m.pathToIno[CHOOSE p \in src : Moved(old, new, p) = q]]
  IN Install(Unmap(m, src), u)

\* Mutant: only the entry of old itself moves.
RemapOneEntry(m, old, new) ==
  IF Mapped(m, old)
  THEN Install(Unmap(m, {old, new}), [q \in {new} |-> m.pathToIno[old]]) ELSE m

(* remapPath: the entries at and below old move to new, replacing what was *)
(* there.                                                                  *)
RemapPath(m, old, new) ==
  LET src == {p \in Paths : Under(old, p) /\ Mapped(m, p)}
      u == [q \in {Moved(old, new, p) : p \in src} |->
              m.pathToIno[CHOOSE p \in src : Moved(old, new, p) = q]]
  IN Install(Unmap(m, DOMAIN u \cup src), u)

-----------------------------------------------------------------------------
(* The handle table.                                                       *)
Without(s, k) == [j \in 1 .. Len(s) - 1 |-> IF j < k THEN s[j] ELSE s[j + 1]]

HandlesAt(m, fh) == {k \in 1 .. Len(m.handles) : m.handles[k].fh = fh}

\* getHandle sets lastUsed: the handle at k becomes the most recent.
Touch(m, k) ==
  [m EXCEPT !.handles = Append(Without(m.handles, k), m.handles[k])]

\* closeHandle
CloseHandle(m, k) == [m EXCEPT !.handles = Without(m.handles, k)]

(* nextHandleIDLocked: counting from nextFH, past LastFH back to 1 ...     *)
After(fh, d) == ((fh - 1 + d) % LastFH) + 1

\* Mutant: the counter's value is used, taken or not.
FreshUnchecked(m) == {0}

(* ... to the first handle not in use.  Handles in use are fewer than      *)
(* LastFH.                                                                 *)
FreshFH(m) ==
  {d \in 0 .. LastFH - 1 :
     /\ HandlesAt(m, After(m.nextFH, d)) = {}
     /\ \A e \in 0 .. d - 1 : HandlesAt(m, After(m.nextFH, e)) # {}}

\* The critical section that ends handleOpen and handleCreate.
AddHandle(m, ino, obj, writable) ==
  {[m EXCEPT !.handles = Append(m.handles, [fh |-> After(m.nextFH, d), ino |-> ino,
                                            obj |-> obj, writable |-> writable]),
             !.nextFH = After(m.nextFH, d + 1)] : d \in FreshFH(m)}

-----------------------------------------------------------------------------
(* maybeGC.                                                                *)
Larger(a, b) == IF a > b THEN a ELSE b
Smaller(a, b) == IF a < b THEN a ELSE b

(* gcHandlesLocked, when the k least recently used handles have been idle  *)
(* for longer than the TTL: they go, and more of the oldest as long as     *)
(* there are more than MaxHandles.                                         *)
GCHandles(m, k) ==
  LET gone == Larger(k, Len(m.handles) - MaxHandles)
  IN [m EXCEPT !.handles = SubSeq(m.handles, gone + 1, Len(m.handles))]

\* Mutant: open handles do not keep their inodes.
PinnedRootOnly(m) == {1}

(* gcInodesLocked: in the order of the map, entries whose path is gone and *)
(* whose inode is neither the root's nor of an open handle are dropped,    *)
(* until MaxInodes are left.                                               *)
Pinned(m) == {1} \cup {m.handles[k].ino : k \in 1 .. Len(m.handles)}

\* Lstat says ENOENT; below what is now a file it says ENOTDIR instead.
Gone(p) ==
  tree[p] = Absent /\ \A q \in Paths : Under(q, p) => tree[q].kind # "file"

Collectable(m) ==
  {p \in Paths : Mapped(m, p) /\ m.pathToIno[p] \notin Pinned(m) /\ Gone(p)}

GCInodes(m) ==
  LET excess == Cardinality({p \in Paths : Mapped(m, p)}) - MaxInodes
      drop == Smaller(excess, Cardinality(Collectable(m)))
  IN IF excess <= 0 THEN {m}
     ELSE {Unmap(m, D) : D \in {C \in SUBSET Collectable(m) : Cardinality(C) = drop}}

\* Less than the interval since the last collection, or a collection.
MaybeGC(m) ==
  {m} \cup UNION {GCInodes(GCHandles(m, k)) : k \in 0 .. Len(m.handles)}

-----------------------------------------------------------------------------
(* The handlers, where they succeed.  handle lets maybeGC collect first: m *)
(* is the mount's tables after that.                                       *)
IsDir(p) == tree[p].kind = "dir"
IsFile(p) == tree[p].kind = "file"
Exists(p) == tree[p] # Absent

\* The path of a name in the directory with inode i, within the bound.
TargetsOf(m, i, name) ==
  {Resolve(p, name) : p \in PathsOf(m, i)} \cap Paths

(* Every call that fails, and ping and getattr: they leave all as maybeGC  *)
(* left it.                                                                *)
CollectOnly(m) ==
  /\ mount' = m
  /\ UNCHANGED <<mode, tree, nextObj, changed>>

\* handleLookup
Lookup(m, i, name) ==
  /\ \E target \in TargetsOf(m, i, name) :
       /\ IsDir(target) \/ IsFile(target)
       /\ mount' \in EnsureInodes(m, {target})
  /\ UNCHANGED <<mode, tree, nextObj, changed>>

(* handleReaddir gives an inode to the parent and to every entry, symbolic *)
(* links too, whatever part of the listing is asked for.                   *)
Readdir(m, i) ==
  /\ \E dir \in PathsOf(m, i) :
       /\ IsDir(dir)
       /\ mount' \in EnsureInodes(m,
            {p \in Paths : Exists(p) /\ p # Root /\ Dir(p) = dir}
              \cup (IF dir = Root THEN {} ELSE {Dir(dir)}))
  /\ UNCHANGED <<mode, tree, nextObj, changed>>

\* Mutant: only the access mode counts.
AccessModeOnly(flags) == flags \cap {"WRONLY", "RDWR"} # {}

\* hasWriteIntent: the access mode is not read-only, or a flag may write.
HasWriteIntent(flags) ==
  flags \cap {"WRONLY", "RDWR", "CREAT", "TRUNC", "APPEND"} # {}

\* osOpenFlagsFromLinux: access mode 3 is opened for reading.
OpensForWrite(flags) == ("WRONLY" \in flags) # ("RDWR" \in flags)

\* handleOpen
Open(m, i, flags) ==
  /\ ~(mode = "ro" /\ HasWriteIntent(flags))
  /\ \E path \in PathsOf(m, i) :
       /\ IsFile(path)
       /\ ~({"CREAT", "EXCL"} \subseteq flags)
       /\ mount' \in AddHandle(m, i, tree[path].obj, OpensForWrite(flags))
       /\ changed' = (changed \/ "TRUNC" \in flags)
  /\ UNCHANGED <<mode, tree, nextObj>>

\* handleRead: the handle is marked as used.
Read(m, fh) ==
  /\ \E k \in HandlesAt(m, fh) : mount' = Touch(m, k)
  /\ UNCHANGED <<mode, tree, nextObj, changed>>

\* handleRelease
Release(m, fh) ==
  /\ \E k \in HandlesAt(m, fh) : mount' = CloseHandle(m, k)
  /\ UNCHANGED <<mode, tree, nextObj, changed>>

\* handleWrite: the host refuses a write through a read-only handle.
Write(m, fh) ==
  /\ mode = "rw"
  /\ \E k \in HandlesAt(m, fh) :
       /\ mount' = Touch(m, k)
       /\ changed' = (changed \/ m.handles[k].writable)
  /\ UNCHANGED <<mode, tree, nextObj>>

\* handleCreate: the file is made if there is none, and opened.
Create(m, i, name, flags) ==
  /\ mode = "rw"
  /\ \E dir \in PathsOf(m, i), target \in TargetsOf(m, i, name) :
       /\ IsDir(dir)
       /\ \/ IsFile(target) /\ "EXCL" \notin flags
          \/ ~Exists(target) /\ nextObj <= MaxObj
       /\ LET obj == IF IsFile(target) THEN tree[target].obj ELSE nextObj
          IN /\ \E n \in EnsureInodes(m, {target}) :
                  mount' \in AddHandle(n, n.pathToIno[target], obj, OpensForWrite(flags))
             /\ tree' = [tree EXCEPT ![target] = [kind |-> "file", obj |-> obj]]
             /\ nextObj' = IF IsFile(target) THEN nextObj ELSE nextObj + 1
             /\ changed' = (changed \/ ~IsFile(target) \/ "TRUNC" \in flags)
  /\ UNCHANGED mode

\* handleMkdir
Mkdir(m, i, name) ==
  /\ mode = "rw"
  /\ nextObj <= MaxObj
  /\ \E dir \in PathsOf(m, i), target \in TargetsOf(m, i, name) :
       /\ IsDir(dir)
       /\ ~Exists(target)
       /\ mount' \in EnsureInodes(m, {target})
       /\ tree' = [tree EXCEPT ![target] = [kind |-> "dir", obj |-> nextObj]]
  /\ nextObj' = nextObj + 1
  /\ changed' = TRUE
  /\ UNCHANGED mode

(* handleCreate and handleMkdir when the Stat or Lstat that follows fails: *)
(* the file or directory stays, without an inode number.                   *)
MakeThenFail(m, i, name, kind) ==
  /\ mode = "rw"
  /\ nextObj <= MaxObj
  /\ \E dir \in PathsOf(m, i), target \in TargetsOf(m, i, name) :
       /\ IsDir(dir)
       /\ ~Exists(target)
       /\ tree' = [tree EXCEPT ![target] = [kind |-> kind, obj |-> nextObj]]
  /\ mount' = m
  /\ nextObj' = nextObj + 1
  /\ changed' = TRUE
  /\ UNCHANGED mode

\* handleUnlink
Unlink(m, i, name) ==
  /\ mode = "rw"
  /\ \E dir \in PathsOf(m, i), target \in TargetsOf(m, i, name) :
       /\ IsDir(dir)
       /\ IsFile(target)
       /\ mount' = Unmap(m, {target})
       /\ tree' = [tree EXCEPT ![target] = Absent]
       /\ changed' = TRUE
  /\ UNCHANGED <<mode, nextObj>>

(* os.Rename: Go refuses to rename onto a directory (EEXIST), the system a *)
(* directory onto a file (ENOTDIR) or into itself (EINVAL).                *)
CanRename(old, new) ==
  /\ ~IsDir(new)
  /\ IsDir(old) => ~Exists(new) /\ ~Under(old, new)

RenamedTree(old, new) ==
  [q \in Paths |->
     IF Under(new, q) /\ Moved(new, old, q) \in Paths THEN tree[Moved(new, old, q)]
     ELSE IF Under(new, q) \/ Under(old, q) THEN Absent ELSE tree[q]]

\* handleRename
Rename(m, i, oldName, j, newName) ==
  /\ mode = "rw"
  /\ \E oldDir \in PathsOf(m, i), newDir \in PathsOf(m, j),
        old \in TargetsOf(m, i, oldName), new \in TargetsOf(m, j, newName) :
       /\ IsDir(oldDir) /\ IsDir(newDir)
       /\ IsDir(old) \/ IsFile(old)
       /\ CanRename(old, new)
       /\ orderly => Mapped(m, old)
       /\ \A p \in Paths : Under(old, p) /\ (Exists(p) \/ Mapped(m, p))
            => Moved(old, new, p) \in Paths
       /\ mount' = RemapPath(m, old, new)
       /\ tree' = RenamedTree(old, new)
       /\ changed' = TRUE
  /\ UNCHANGED <<mode, nextObj>>

\* handleTruncate, by path.
Truncate(m, i) ==
  /\ mode = "rw"
  /\ \E path \in PathsOf(m, i) :
       /\ IsFile(path)
       /\ mount' = m
       /\ changed' = TRUE
  /\ UNCHANGED <<mode, tree, nextObj>>

\* close, from fsrpcServer.Close
CloseMount ==
  /\ mount' = [mount EXCEPT !.handles = <<>>]
  /\ UNCHANGED <<mode, tree, nextObj, changed>>

-----------------------------------------------------------------------------
(* Other programs on the host.                                             *)
HostMakes(p, kind) ==
  /\ ~Exists(p) /\ IsDir(Dir(p))
  /\ nextObj <= MaxObj
  /\ tree' = [tree EXCEPT ![p] = [kind |-> kind, obj |-> nextObj]]
  /\ nextObj' = nextObj + 1
  /\ UNCHANGED <<mode, mount, changed>>

HostRemoves(p) ==
  /\ Exists(p)
  /\ tree' = [q \in Paths |-> IF Under(p, q) THEN Absent ELSE tree[q]]
  /\ UNCHANGED <<mode, mount, nextObj, changed>>

\* handle, after maybeGC.
Handler(m) ==
  \/ CollectOnly(m)
  \/ \E i \in Inos :
       \/ Readdir(m, i) \/ Truncate(m, i)
       \/ \E flags \in FlagSets : Open(m, i, flags)
       \/ \E name \in ChildNames :
            \/ Lookup(m, i, name) \/ Mkdir(m, i, name) \/ Unlink(m, i, name)
            \/ \E flags \in FlagSets : Create(m, i, name, flags)
            \/ \E kind \in {"file", "dir"} : MakeThenFail(m, i, name, kind)
            \/ \E j \in Inos, newName \in ChildNames : Rename(m, i, name, j, newName)
  \/ \E fh \in FHs : Read(m, fh) \/ Write(m, fh) \/ Release(m, fh)

GuestCall == (\E m \in MaybeGC(mount) : Handler(m)) \/ CloseMount

HostStep ==
  /\ ~orderly
  /\ \E p \in Paths \ {Root} :
       \/ \E kind \in {"file", "dir", "symlink"} : HostMakes(p, kind)
       \/ HostRemoves(p)

\* An inode number is given to the file that then has the path.
RecordInodes ==
  objOf' = [i \in Inos |->
              IF mount.nextIno <= i /\ i < mount'.nextIno
              THEN tree'[mount'.inoToPath[i]].obj ELSE objOf[i]]

Next == (GuestCall \/ HostStep) /\ RecordInodes /\ UNCHANGED orderly

Spec == Init /\ [][Next]_vars

-----------------------------------------------------------------------------
(* The two inode tables are inverse to each other, over lookups, renames   *)
(* of whole directories, unlinks and collections: an inode number has one  *)
(* path and a path one inode number (ensureInode, removePathMappingLocked, *)
(* remapPath).  The root keeps inode 1, FUSE's root, whatever names are    *)
(* used.                                                                   *)
TablesInverse ==
  /\ mount.pathToIno[Root] = 1 /\ mount.inoToPath[1] = Root
  /\ \A p \in Paths : Mapped(mount, p) => mount.inoToPath[mount.pathToIno[p]] = p
  /\ \A i \in Inos : mount.inoToPath[i] # NoPath
                       => mount.pathToIno[mount.inoToPath[i]] = i

(* "RO mounts return EROFS for mutating ops": through a read-only mount    *)
(* the guest never changes a host file or the tree, and holds no handle    *)
(* that could, whatever flags it opens with (hasWriteIntent against        *)
(* osOpenFlagsFromLinux).                                                  *)
ReadOnlyMount ==
  mode = "ro" =>
    /\ ~changed
    /\ \A k \in 1 .. Len(mount.handles) : ~mount.handles[k].writable

(* Open handles have different numbers, also after nextFH has wrapped.     *)
HandlesDistinct ==
  \A k, l \in 1 .. Len(mount.handles) :
    mount.handles[k].fh = mount.handles[l].fh => k = l

(* While only the guest changes the tree, and renames what it has looked   *)
(* up, as the kernel does, an inode number names the same host file for as *)
(* long as it is mapped: renames carry the numbers of a whole directory    *)
(* along, and a number is never left behind for a file that replaces       *)
(* another.  A handle is on the file its inode was given to.               *)
InodeIdentity ==
  orderly =>
    /\ \A i \in Inos : mount.inoToPath[i] # NoPath
         => tree[mount.inoToPath[i]].obj = objOf[i]
    /\ \A k \in 1 .. Len(mount.handles) :
         mount.handles[k].obj = objOf[mount.handles[k].ino]

(* gcInodesLocked pins the inodes of open handles: while a handle is open, *)
(* the mapping of its inode goes only with a change of the file's path or  *)
(* of a directory above it.                                                *)
OpenInodesKept ==
  [][\A k \in 1 .. Len(mount'.handles) :
       LET p == mount.inoToPath[mount'.handles[k].ino]
       IN p # NoPath /\ mount'.inoToPath[mount'.handles[k].ino] = NoPath
            => \E q \in Paths : Under(q, p) /\ tree'[q] # tree[q]]_vars
=============================================================================
