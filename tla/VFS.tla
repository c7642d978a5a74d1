-------------------------------- MODULE VFS --------------------------------
(***************************************************************************)
(* The FUSE callbacks that name files (src/vfs.cpp), over the directories  *)
(* of NameSpace, the path cache (src/path_resolver.cpp) and the file       *)
(* handles (fd_manager.h).  A callback holds the one mutex from its first  *)
(* line to its last: it is one step.                                       *)
(*                                                                         *)
(* A path is the sequence of its names; the root is the empty sequence.    *)
(* The path cache holds what PathResolver leaves in it after evict(): at   *)
(* most the path resolved last.  File contents and attributes are left     *)
(* out, and with them the blocks files take: a call finds any number of    *)
(* free blocks in Room.                                                    *)
(*                                                                         *)
(* What the kernel and libfuse see to before they call is a guard marked   *)
(* external: the names a call needs are there or not, and libfuse renames  *)
(* a file that is open to a name in Hidden instead of removing it.         *)
(***************************************************************************)
EXTENDS NameSpace

CONSTANTS
    Name,       (* names of files and directories                          *)
    Hidden,     (* names libfuse gives to removed files that are open      *)
    Longer,     (* pairs <<x, y>> of names: y begins with x and goes on    *)
    Room,       (* bound: free blocks a call may find                      *)
    Depth,      (* bound: length of a path                                 *)
    MaxOpens    (* bound: handles given out between two mounts             *)

ASSUME VFSAssumption ==
    /\ Longer \subseteq (Name \cup Hidden) \X (Name \cup Hidden)
    /\ {Dot, DotDot} \cap (Name \cup Hidden) = {}
    /\ Room \subseteq Nat
    /\ Depth \in Nat /\ MaxOpens \in Nat

VARIABLES
    node,               (* see NameSpace                                   *)
    used,
    path_cache,         (* path -> inode                                   *)
    fd_manager,         (* file handle -> inode                            *)
    reference_count,    (* inode -> handles on it                          *)
    fd_counter,
    ret                 (* the last call and how it ended                  *)

vars == <<node, used, path_cache, fd_manager, reference_count, fd_counter, ret>>

Names  == Name \cup Hidden
Paths  == UNION {[1 .. k -> Names] : k \in 1 .. Depth}    (* below the root *)
Empty  == [x \in {} |-> None]
FirstFd == 10

Parent(p) == Front(p)
Prefix(p, k) == SubSeq(p, 1, k)

-----------------------------------------------------------------------------
(***************************************************************************)
(* Path resolution.                                                        *)
(***************************************************************************)
(* find() name by name, from inode i: the inodes on the way, and the last. *)
Step(nd, d, n) == IF d = None THEN None ELSE find(nd, d, n)
Trace(nd, i, names) ==
    LET at[k \in 0 .. Len(names)] == IF k = 0 THEN i ELSE Step(nd, at[k - 1], names[k])
    IN  at
Down(nd, i, names) == Trace(nd, i, names)[Len(names)]

(* resolveNoCache() *)
resolveNoCache(nd, p) == Down(nd, Root, p)

(* Mutant of resolve: the name the cached path ends with is looked up again. *)
resolveAgain(nd, c, p) ==
    LET hit   == Max({0} \cup {k \in 1 .. Len(p) : Prefix(p, k) \in DOMAIN c})
        from  == IF hit = 0 THEN Root ELSE c[Prefix(p, hit)]
        at(k) == Down(nd, from, SubSeq(p, Max({hit, 1}), k))
        last  == Max({k \in hit .. Len(p) : k = hit \/ at(k) # None})
    IN  [inode |-> IF last = Len(p) THEN at(last) ELSE None,
         cache |-> IF last > hit THEN [q \in {Prefix(p, last)} |-> at(last)] ELSE c]

(* resolve(): from the longest prefix in the cache, name by name; every    *)
(* prefix found on the way is put into the emptied cache.                  *)
resolve(nd, c, p) ==
    LET hit   == Max({0} \cup {k \in 1 .. Len(p) : Prefix(p, k) \in DOMAIN c})
        from  == IF hit = 0 THEN Root ELSE c[Prefix(p, hit)]
        at(k) == Down(nd, from, SubSeq(p, hit + 1, k))
        last  == Max({k \in hit .. Len(p) : at(k) # None})
    IN  [inode |-> IF last = Len(p) THEN at(last) ELSE None,
         cache |-> IF last > hit THEN [q \in {Prefix(p, last)} |-> at(last)] ELSE c]

(* Mutant of StartsWith: the path itself, and not what is below it. *)
IsPath(p, q) == p = q

(* q begins with the string p: with all of its names but the last, and a   *)
(* name that begins with the last one.                                     *)
StartsWith(p, q) ==
    LET k == Len(p)
    IN  /\ Len(q) >= k
        /\ Prefix(q, k - 1) = Prefix(p, k - 1)
        /\ q[k] = p[k] \/ <<p[k], q[k]>> \in Longer

removePrefix(c, p) == Restrict(c, {q \in DOMAIN c : ~StartsWith(p, q)})

-----------------------------------------------------------------------------
(***************************************************************************)
(* File handles.                                                           *)
(***************************************************************************)
Count(i) == IF i \in DOMAIN reference_count THEN reference_count[i] ELSE 0

Put(f, x, v) == [y \in DOMAIN f \cup {x} |-> IF y = x THEN v ELSE f[y]]

deltaRefCnt(i, delta) == Put(reference_count, i, Count(i) + delta)

(* FDManager::open() *)
OpenHandle(i) ==
    /\ fd_counter < FirstFd + MaxOpens
    /\ fd_manager' = Put(fd_manager, fd_counter, i)
    /\ reference_count' = deltaRefCnt(i, 1)
    /\ fd_counter' = fd_counter + 1

handles == <<fd_manager, reference_count, fd_counter>>

(* libfuse: the file is open. *)
IsOpen(i) == \E fd \in DOMAIN fd_manager : fd_manager[fd] = i

-----------------------------------------------------------------------------
(***************************************************************************)
(* Callbacks.                                                              *)
(***************************************************************************)
Walk(p)   == resolveNoCache(node, p)
There(p)  == Walk(p) # None
Dir(p)    == There(p) /\ node[Walk(p)].type = "dir"
Now(r)    == Disk(node, used, r, FALSE)

(* A call, its paths, the inode it answered for, and whether it lacked blocks. *)
Answer(op, p, to, short) ==
    [op |-> op, path |-> p, to |-> to, inode |-> None, short |-> short]
Found(op, p, i) == [op |-> op, path |-> p, to |-> p, inode |-> i, short |-> FALSE]

(* The disk after a call. *)
SetDisk(F) == node' = F.node /\ used' = F.used

(* The kernel creates a name that is not there in a directory that is. *)
MayCreate(p) == Dir(Parent(p)) /\ ~There(p)

(* The callbacks that read or set attributes resolve the path, unless they *)
(* have a handle; attributes are not kept here.                            *)
sb_rmw_diskinode(op, p) ==
    LET r == resolve(node, path_cache, p)
    IN  /\ path_cache' = r.cache
        /\ ret' = Found(op, p, r.inode)
        /\ UNCHANGED <<node, used, handles>>

sb_getattr(p) == sb_rmw_diskinode("getattr", p)

(* sb_readdir() of a directory: nothing is changed but the cache. *)
sb_readdir(p) ==
    LET r == resolve(node, path_cache, p)
    IN  /\ Dir(p)
        /\ path_cache' = r.cache
        /\ ret' = Found("readdir", p, r.inode)
        /\ UNCHANGED <<node, used, handles>>

(* sb_mkdir() returns 0 whatever create() did. *)
sb_mkdir(p) ==
    LET parent == resolve(node, path_cache, Parent(p))
    IN  /\ MayCreate(p) /\ Last(p) \notin Hidden
        /\ Len(p) < Depth
        /\ \E r \in Room :
             LET made == create(Now(r), parent.inode, Last(p), "dir")
             IN  SetDisk(made.disk) /\ ret' = Answer("mkdir", p, p, made.disk.short)
        /\ path_cache' = parent.cache
        /\ UNCHANGED handles

(* sb_create(): the handle is on the inode create() set, also when it failed. *)
sb_create(p) ==
    LET parent == resolve(node, path_cache, Parent(p))
    IN  /\ MayCreate(p) /\ Last(p) \notin Hidden
        /\ \E r \in Room :
             LET made == create(Now(r), parent.inode, Last(p), "file")
             IN  /\ SetDisk(made.disk)
                 /\ OpenHandle(made.inode)
                 /\ ret' = Answer("create", p, p, made.disk.short)
        /\ path_cache' = parent.cache

(* sb_rmdir() of a directory: nothing but the cache changes if it is not empty. *)
sb_rmdir(p) ==
    LET parent == resolve(node, path_cache, Parent(p))
        child  == find(node, parent.inode, Last(p))
    IN  /\ Dir(p)
        /\ IF IsEmptyDir(node, child)
             THEN /\ SetDisk(remove(Now(0), parent.inode, Last(p)))
                  /\ path_cache' = removePrefix(parent.cache, p)
             ELSE /\ path_cache' = parent.cache
                  /\ UNCHANGED <<node, used>>
        /\ ret' = Answer("rmdir", p, p, FALSE)
        /\ UNCHANGED handles

(* sb_unlink() of a file nobody has open. *)
sb_unlink(p) ==
    LET parent == resolve(node, path_cache, Parent(p))
    IN  /\ There(p) /\ ~Dir(p) /\ ~IsOpen(Walk(p))
        /\ SetDisk(remove(Now(0), parent.inode, Last(p)))
        /\ path_cache' = removePrefix(parent.cache, p)
        /\ ret' = Answer("unlink", p, p, FALSE)
        /\ UNCHANGED handles

(***************************************************************************)
(* sb_rename(): the old name is taken out first; with RENAME_EXCHANGE the  *)
(* new one too, and its inode is put under the old name; then the inode is *)
(* put under the new name.  What link() returns is not looked at.          *)
(***************************************************************************)
(* Mutant of Renamed: a name that is there is never replaced. *)
RenamedNoReplace(F, from, old, to, new, flags, stale) ==
    LET i == find(F.node, from, old)
        j == find(F.node, to, new)
        out == unlink(F, from, old)
        swapped == link(unlink(out, to, new), from, old, j, FALSE, stale)
    IN  link(IF flags = "exchange" THEN swapped ELSE out, to, new, i, FALSE, stale)

Renamed(F, from, old, to, new, flags, stale) ==
    LET i == find(F.node, from, old)
        j == find(F.node, to, new)
        out == unlink(F, from, old)
        swapped == link(unlink(out, to, new), from, old, j, FALSE, stale)
    IN  link(IF flags = "exchange" THEN swapped ELSE out, to, new, i,
             flags # "noreplace", stale)

(* Index entries left behind the end of a directory matter only to a search *)
(* that runs past the end.                                                 *)
MayBeStale ==
    IF \E i \in used : ~ScanEnds(node[i].ents, FALSE) THEN BOOLEAN ELSE {FALSE}

Rename(p, q, flags) ==
    LET from == resolve(node, path_cache, Parent(p))
        to   == resolve(node, from.cache, Parent(q))
    IN  /\ \E r \in Room, stale \in MayBeStale :
             LET F == Renamed(Now(r), from.inode, Last(p), to.inode, Last(q), flags, stale)
             IN  SetDisk(F) /\ ret' = Answer(flags, p, q, F.short)
        /\ path_cache' = removePrefix(removePrefix(to.cache, p), q)
        /\ UNCHANGED handles

Renames == {"replace", "noreplace", "exchange"}

(* The renames of p to q the kernel lets through.  libfuse hides an open   *)
(* target first.                                                           *)
Allowed(p, q) ==
    IF There(q)
      THEN {"exchange"} \cup {f \in {"replace"} : (Dir(p) <=> Dir(q)) /\ ~IsOpen(Walk(q))}
      ELSE {"replace", "noreplace"}

sb_rename(p, q) ==
    /\ Last(p) \notin Hidden /\ Last(q) \notin Hidden
    /\ ~IsPrefix(p, q) /\ ~IsPrefix(q, p)
    /\ \E flags \in Allowed(p, q) : Rename(p, q, flags)

(* unlink() or rename() over a file that is open: libfuse renames the file *)
(* to a hidden name of the same directory, and unlinks that once the last  *)
(* handle is released.                                                     *)
HideOpen(p, h) ==
    /\ There(p) /\ ~Dir(p) /\ IsOpen(Walk(p)) /\ Last(p) \notin Hidden
    /\ ~There(Append(Parent(p), h))
    /\ Rename(p, Append(Parent(p), h), "replace")

sb_open(p) ==
    LET r == resolve(node, path_cache, p)
    IN  /\ There(p) /\ ~Dir(p)
        /\ OpenHandle(r.inode)
        /\ path_cache' = r.cache
        /\ ret' = Found("open", p, r.inode)
        /\ UNCHANGED <<node, used>>

(* FDManager::close(): the count stays in the table when it reaches 0. *)
sb_release(fd) ==
    /\ reference_count' = deltaRefCnt(fd_manager[fd], -1)
    /\ fd_manager' = Restrict(fd_manager, DOMAIN fd_manager \ {fd})
    /\ ret' = Answer("release", <<>>, <<>>, FALSE)
    /\ UNCHANGED <<node, used, path_cache, fd_counter>>

(* sb_destroy(), with a sync_all() that succeeds, and init_vfs() on the    *)
(* same disk.                                                              *)
Remount ==
    /\ DOMAIN fd_manager = {}
    /\ path_cache' = Empty
    /\ fd_manager' = Empty
    /\ reference_count' = Empty
    /\ fd_counter' = FirstFd
    /\ ret' = Answer("remount", <<>>, <<>>, FALSE)
    /\ UNCHANGED <<node, used>>

-----------------------------------------------------------------------------
(* createRoot() and init_vfs() *)
Init ==
    /\ node = [i \in Inodes |-> IF i = Root THEN NewNode("dir", Root, Root) ELSE FreeNode]
    /\ used = {Root}
    /\ path_cache = Empty
    /\ fd_manager = Empty
    /\ reference_count = Empty
    /\ fd_counter = FirstFd
    /\ ret = Answer("remount", <<>>, <<>>, FALSE)

(* The paths that are there, and those the kernel may ask for: it looks a  *)
(* path up name by name.                                                   *)
Seen   == {p \in Paths : There(p)}
Spaces == {p \in Paths : Dir(Parent(p))}

Next ==
    \/ \E p \in Spaces :
         \/ sb_getattr(p)
         \/ sb_mkdir(p) \/ sb_create(p)
    \/ \E p \in Seen :
         \/ sb_readdir(p)
         \/ sb_rmdir(p) \/ sb_unlink(p)
         \/ sb_open(p)
         \/ \E q \in Spaces : sb_rename(p, q)
         \/ \E h \in Hidden : HideOpen(p, h)
    \/ \E fd \in DOMAIN fd_manager : sb_release(fd)
    \/ Remount

Spec == Init /\ [][Next]_vars

-----------------------------------------------------------------------------
(***************************************************************************)
(* Properties.                                                             *)
(***************************************************************************)
Targets == Inodes \cup {Bad}

EntryType == [name : Names \cup {Dot, DotDot}, inode : Inodes]
NodeType  == [type : {"file", "dir"}, link : Nat, ents : Seq(EntryType)]

(* The tables hold inodes, and a file has no entries.                      *)
TypeOK ==
    /\ node \in [Inodes -> NodeType]
    /\ \A i \in Inodes : node[i].type = "file" => node[i].ents = <<>>
    /\ used \subseteq Inodes
    /\ DOMAIN path_cache \subseteq Paths /\ path_cache \in [DOMAIN path_cache -> Inodes]
    /\ fd_counter \in FirstFd .. FirstFd + MaxOpens
    /\ DOMAIN fd_manager \subseteq FirstFd .. fd_counter - 1
    /\ fd_manager \in [DOMAIN fd_manager -> Targets]
    /\ DOMAIN reference_count \subseteq Targets
    /\ reference_count \in [DOMAIN reference_count -> Nat]

(* The entries that lead away from a directory. *)
Edges == {<<d, n>> : d \in {i \in used : node[i].type = "dir"}, n \in Names}
Leads(e) == find(node, e[1], e[2])
RealEdges == {e \in Edges : Leads(e) # None}

(* Whatever was created, removed and renamed, and also when calls ran out  *)
(* of inodes or blocks half way: an entry of a directory leads to an inode *)
(* that is marked, that is not the root, whose link_cnt is 1 and that has  *)
(* no other name, and a directory lists no name twice.                     *)
TreeSound ==
    /\ \A e \in RealEdges : Leads(e) \in used \ {Root} /\ node[Leads(e)].link = 1
    /\ \A e, f \in RealEdges : Leads(e) = Leads(f) => e = f
    /\ \A d \in used : \A k, l \in DOMAIN node[d].ents :
         node[d].ents[k].name = node[d].ents[l].name => k = l

(* A path in the cache leads where the directories lead, after every       *)
(* removal and rename of a directory above it.                             *)
CacheCoherent == \A p \in DOMAIN path_cache : path_cache[p] = Walk(p)

(* The inode of a handle is never given to another file while it is open,  *)
(* and its reference count is the number of handles on it.                 *)
HandlesLive ==
    /\ \A fd \in DOMAIN fd_manager : fd_manager[fd] \in used \cup {Bad}
    /\ \A i \in Targets :
         Count(i) = Cardinality({fd \in DOMAIN fd_manager : fd_manager[fd] = i})

Lookups == {"getattr", "readdir", "open"}

(* The paths a call is to change. *)
Touched(call) ==
    IF call.op \in Lookups \cup {"release", "remount"} THEN {} ELSE {call.path, call.to}

(* A call changes where its own paths lead, and those below them, and no   *)
(* other path: moving the last entry of a directory to a free place loses  *)
(* none.                                                                   *)
NamesKept ==
    [][node' # node =>
         \A p \in Paths : (\E q \in Touched(ret') : IsPrefix(q, p)) \/ Walk(p)' = Walk(p)]_vars

(* The inode a callback works on is the one the directories lead to, also  *)
(* when a part of the path was cached, and none when the path is not there. *)
ResolvesRight == [][ret'.op \in Lookups => ret'.inode = Walk(ret'.path)]_vars

(* inode.h: link() is "Used in rename, etc." to link the inode with the    *)
(* new name.  A rename that found all the blocks it asked for leaves the   *)
(* file under its new name, and the one exchanged for it under the old.    *)
RenameMoves ==
    [][ret'.op \in Renames /\ ~ret'.short =>
         LET p == ret'.path
             q == ret'.to
         IN  /\ resolveNoCache(node', q) = Walk(p)
             /\ resolveNoCache(node', p) = IF ret'.op = "exchange" THEN Walk(q) ELSE None]_vars

=============================================================================
