# SBFS: a TLA+ verification project

SBFS is a file system in user space: FUSE callbacks (`src/vfs.cpp`) over inodes
and directories (`src/inode.cpp`, `src/disk_inode.cpp`), two bitmaps
(`src/bitmap.cpp`, `src/sbfs.cpp`) and a block device with a write-back cache
(`src/blk_dev.cpp`, `src/lru_cache.cpp`) in front of one disk file. The models
follow the program as CMakeLists.txt builds it: `-DNDEBUG -DPATH_CACHE
-DBLOCK_CACHE`. With NDEBUG `rt_assert` is empty, so a failed assertion stops
nothing and is never a guard here.

Paths below are relative to the repository.

## 1. Inventory

| component | state | operations | used by |
|---|---|---|---|
| Block device (`blk_dev`) | disk file | read, write, sync, sync_all, (write_tx) | everything above |
| Block cache (`lru_cache`) | slots, hash table, free list, LRU list | upsert, get, sync, sync_all, (remove) | block device |
| Bitmaps, layout (`bitmap`, `sbfs`) | super block, two bitmaps on disk | create, open, alloc/free of inodes and data blocks, inode positions | inodes, directories |
| Block map (`disk_inode`) | size, 23 direct pointers, indirect1, indirect2 | block_id, increase, decrease, resize, read_data, write_data, sync_data | inodes |
| Inodes, directories (`inode`) | directory entries, link counts | create, find, resize, remove, link, unlink, read_data, write_data, sync | VFS |
| Path cache (`path_resolver`) | path -> inode map, clock hand | resolve, removePrefix, evict | VFS |
| File handles (`fd_manager`) | handle -> inode, reference counts | open, get, close | VFS |
| VFS (`vfs`) | one mutex, one of each of the above | the FUSE callbacks | FUSE |

**Concurrency.** Every callback holds the one mutex `mtx` from its first line to
its last, so callbacks do not interleave: an operation is one step. What makes
the system hard is elsewhere: the process can die between any two writes of the
disk file; pread and pwrite fail; blocks run out in the middle of a multi-step
operation whose result the caller ignores; and long sequences of legal calls
move through states (stale links, reused index blocks, clean slots left by
failed reads) that a unit test does not reach. `PROJECT.json` lists the hazards
with their lines.

**What makes each part correct.**

* Device and cache: the cache is invisible except for what a crash loses; sync
  and sync_all make durable what they report; the lists never corrupt each other.
* Bitmaps and layout: ids and bits correspond one to one; the segments of the
  disk do not overlap.
* Block map: no block belongs to two places; a resize keeps what is below the
  new size, frees exactly what is above, and one that fails changes no map.
* Bytes: a file is a sequence of bytes, whatever block borders a call crosses.
* Name space: a name leads to one live inode; rename never loses a file; a call
  changes where its own paths lead and no others; a handle stays on its file.
* Path cache: it answers as the directories do, its clock hand stays valid, and
  eviction ends.
* fsync: what it reported as saved is there after a crash.

## 2. Modules

| module | what it is |
|---|---|
| `BlockStore` | abstract: an array of blocks, what each contains and what would survive a crash |
| `LRUCache` | `BlockDevice` over `LRUCacheManager`; states that it implements `BlockStore` |
| `LRUCacheProofs` | inductive invariant of `LRUCache`, type correctness, list and slot safety |
| `LRUCacheRefinement` | proof that `LRUCache` implements `BlockStore` |
| `DiskInode` | the block map of several files over one data bitmap |
| `DiskInodeProofs` | inductive invariant of `DiskInode`; all the properties its passing run checks |
| `FSLayout` | segment offsets, both bitmaps bit by bit, inode positions |
| `FSLayoutProofs` | bits and ids, the data area and inode positions, for every layout |
| `ByteFile` | abstract: a file as a sequence of bytes |
| `NameSpace` | directories and inodes: create, find, link, unlink, remove |
| `VFS` | the callbacks that name files, over `NameSpace`, with the path cache and the file handles |
| `VFSProofs` | inductive invariant of `VFS`; all the properties its passing run checks |
| `PathResolver` | the path cache step by step: iterators, visited flags, size_t |
| `PathResolverProofs` | inductive invariant of `PathResolver` and its three safety properties |
| `FSync` | fsync over the block map of `DiskInode` and a cache that writes back when it likes |
| `FSyncProofs` | proof that what fsync saved stays saved while files have direct blocks only |
| `FileIO` | sb_read, sb_write, sb_truncate with the widths of their integers; states that it implements `ByteFile` |
| `FileIOProofs` | proof that `FileIO` implements `ByteFile` |
| `MC*` | the instances TLC checks |

A definition whose comment begins with "Mutant of" is a plausible mistake in
the definition that follows it. No specification uses it; put in that
definition's place it makes the property it belongs to fail.

### LRUCache

`lists` holds `FREE_first`, `LRU_first`, `LRU_last` and the `prev`/`next` fields
of all slots, which the free list and the LRU list share, as in `BlockStatus`.
`LRU_add`, `LRU_remove` and `AllocLists` are `LRU_add()`, `LRU_remove()` and the
list part of `alloc()`, with `init()` forgetting the links of a slot that is
still listed. `hashtable`, `id`, `dirty` and `data` are the hash table and the
fields of the slots; `disk` is the disk file. `ret` is the last call and its
answer.

| action | code |
|---|---|
| `ReadHit`, `ReadFails`, `ReadMiss` | `BlockDevice::read` with `get()`; a miss reads the disk file twice (once for the caller, once in `get_page()`) and ignores `upsert()`'s result |
| `WriteHit`, `WriteMiss` | `BlockDevice::write` with `upsert()`, `get_page()`, `alloc()` |
| `SyncHit`, `SyncMiss` | `sync()` |
| `SyncAllStart`, `SyncAllStep`, `SyncAllFails`, `SyncAllDone` | `sync_all()`, one step for each slot so that a crash can come between two writes |
| `Crash` | the process dies at any point, also inside sync_all, and the device is opened again |

Every pread and pwrite may fail, at most `MaxFaults` times in a behaviour;
`BadBlk` is an id past the end of the device (what a failed allocation leaves in
a pointer), where pread returns 0. A write inside the device either happens
as a whole or not at all. The data a failed pread leaves in the buffer is the
old one. `remove()` and `write_tx()` have no caller and are left out; the free
list is therefore always a suffix of the slots (`Free`).

### DiskInode

Sizes are in blocks (`FileIO` has the bytes). A *place* is where the id of a
block is kept: a direct pointer, `indirect1`, an entry of its block, `indirect2`,
an entry of its block (a leaf), an entry of a leaf. `PlacesOf(n)` are the places
a file of n blocks uses: those whose threshold `From` is below n. `Needed` is the
set of places for which `increase()` asks `Bitmap::alloc()` for a block, by the
code's loops and tests; `Order` says in which order it asks, `Turn` how many
come before a place, and `alloc(k)` is the block it gets then, the free one with k
free blocks below it. `Increase` goes as far as the free blocks reach
and saves the index blocks that the code has saved by then. `Released` is what
the loops of `decrease()` put on `bitmap_to_free`, level by level and, behind
`indirect2`, leaf by leaf (`LeafReleased` is one round of the loop); that this
is what the smaller file does not need is not assumed but checked (`NoLeak`) and
proved (`ReleasedExact`). `Decrease` is `decrease()`, with the write of a kept leaf
to the block whose number is the leaf's index (`stray`). `entry` holds the
contents of index blocks and is `Junk`, any id, where nothing meaningful was
written.

`Create`, `RemoveFile`, `Grow`, `Shrink`, `Keep`, `Write` are `Inode::create`,
the end of `Inode::remove`, `Inode::resize` in its three cases and
`Inode::write_data`. `WriteNoSpace` is `Inode::write_data` when the bitmap runs
out, whose resize result the code ignores: the data goes to whatever block the
old pointer names, and an inode with blocks it never got is saved (`torn`).

Both defects, the write of a leaf to the wrong block and the write without
space, overwrite blocks before the data area (`clobbered`). Block 0 is the super
block, which is read when the device is opened and not by any operation of the
module. The blocks after it are the inode bitmap and the inodes: with config.h's
layout leaf 1 goes to the inode bitmap and leaves from 2 on to the inode area. Such a write may
replace any inode (`InodesAfter`, `Lost`). From then on, or once an inode is torn,
the metadata is not `Intact`, the model stops (`Wrecked`), and `NoSharing`,
`NoLeak`, `MapsKept` and `PrefixKept` say nothing: they are properties of the file
system up to that point, and after it they are false of the code.

Device errors inside increase and decrease, times, modes and links are not
modelled. `clear()` is dead code (its call is commented out).

### FSLayout

The offsets of `create()` and `initBitmapAndBlock()`, `alloc()` and `free()` down
to block, word and bit, `getDiskInodePos()` and its inverse. Inode offsets in a
block are counted in inodes.

### FileIO

`bytes` holds the contents of the blocks of one file, also behind its end.
`off_t` is unbounded, `uint32_t` counts modulo `2 * Half`, and the code's copies
into `int` (`ToInt`) turn what is not below `Half` negative. `Copied` is the block loop as a set of positions, shared by
read and write. Blocks a file gains hold anything: `increase()` does not clear
them. A read at the very end of the file looks at a block that may not be there
and may fail; `ByteFile` allows that.

### NameSpace

An operation of `src/inode.cpp` takes the state of the disk (a record of inodes,
inode bitmap and free blocks) and returns the new one, so that a callback can
run several in a row, as sb_rename does. A directory is the sequence of its
entries, `.` and `..` among them; `SetEnts` and `AddLink` are its two ways to
change the inode table. What is followed closely:

* `create` marks the inode first and saves the parent last. A failure in between
  leaves the inode marked and the entry out of sight. When no inode is left, the
  id is kFail and the new inode lies past the device (`Bad`).
* `unlink` and `remove` move the last entry of the directory to the free place
  (`Without`). `remove` frees the inode. The code leaves its DiskInode on disk,
  and a handle that `sb_create` opens after a failed create may sit on it; the
  model empties it (`FreeNode`) and does not follow what such a handle reads. No
  property depends on that.
* `link` searches `total_blocks()` blocks of the directory. That function counts
  the index block when exactly `D` data blocks are in use, so from there on a
  search that finds nothing reads past the end and fails, unless the directory
  ends on a block border and a stale index entry leads to some block
  (`ScanEnds`). `find` has the same loop, but there a failed read and a name
  that is not found are the same answer.
* `link` raises the count of the inode before it grows the directory.

A move does not update `..`, and a rename over a name leaves the inode that had
it marked; both are as in the code.

### VFS

One action per callback; a callback holds the mutex throughout. A path is the
sequence of its names. `path_cache`, `fd_manager`, `reference_count` and
`fd_counter` are the code's; `ret` is the last call. Results that the code
ignores are ignored: `sb_mkdir` and `sb_create` whatever create() did,
`sb_rename` whatever link() did.

`resolve` starts from the longest cached prefix of the path and puts what it
finds into the cache. That an insertion leaves nothing else in the cache is
`OneEntry` of `PathResolver`, proved there as `HoldsOneEntry`. `Trace` holds the
inodes met on the way down a path, as a recursive function. `removePrefix`
compares strings, so that removing `/a` also drops `/ab`; `Longer` says which
names begin with which.

External, that is code of the kernel and of libfuse: the name a call creates is
not there and the directory it works in is (the kernel looks every path up
first); mkdir, unlink and rmdir get the kind of file they want; the target of a
rename is of the same kind, and there for an exchange and not there for
RENAME_NOREPLACE; a file that is open is not removed but renamed to a hidden
name of its directory (`HideOpen`) and unlinked after the last release. The
code itself does not check for open handles: `isOpen` has no caller. What
`HandlesLive` shows is that with this help from libfuse no handle loses its
inode.

File contents and attributes are left out. The blocks of files are too, so a
call finds any number of free blocks in `Room`.

`Depth` bounds the paths that callbacks are given, and `sb_mkdir` makes
directories one level above it. A rename may move a directory to any level, also
to where what is below it is out of the reach of such paths; `TreeSound` and
`NamesKept` still see it.

### PathResolver

Paths are numbers in the order of the std::map; removePrefix erases a range of
them. Every round of evict()'s two loops is a step. An iterator is the path it
points to, `End`, or `Dangling` once its entry was erased by removePrefix.
Sizes are taken modulo `W`. `size_to_evict` is a size_t: as long as the cache is
not full the difference wraps around to a huge number and evict() runs until
the map is empty. cur_cache_size_ is set to what was evicted and not to what is
left. The assumption is that any two paths fit into the cache
(32 MB; a path has at most 4096 bytes).

### FSync

Extends `DiskInode` with the contents of data blocks, with the disk file as a
program started after a crash would find it, and with what fsync promised. The
cache may write any block back at any time (`WriteBack`), and does not have to.
`Fsync` is sb_fsync with datasync 0 or not; `FsyncFails` is the call that meets
a block that is no longer in the cache, whose sync fails although the block is
on disk. A crash needs no action: `SyncedOnDisk` compares the disk file with
the promise in every state, so a crash may come at any point. The inodes of the
instance share one block. The bitmaps on disk are left out: nothing here reads
them, and what the reopened file system allocates is not followed.

## 3. Runs

Passing runs:

| run | instance | shows |
|---|---|---|
| `cache_store` | 3 blocks, 2 contents, 2 slots, no errors; 109 520 states | `IndexSound`, `CleanIsOnDisk`, `SyncAllProgress`; `LRUCache` implements `BlockStore` |
| `cache_lists` | 3 blocks, 3 slots, 1 error, symmetry; 736 590 states | `TypeOK`, `ListsApart`, `SlotsFilled` |
| `blockmap` | D=1, I=2, a file of up to 5 and one of up to 1 block, 8 data blocks; 14 070 states | `TypeOK`, and while the metadata is intact `NoSharing`, `NoLeak`, `PrefixKept`, `MapsKept`, also when resizes fail half way |
| `layout_bits` | 4 slots per bitmap block, 2-bit words, 14 blocks; 11 265 states | `BitsExact`, `DataInArea`, `InodesApart` |
| `bytes_refine` | 2-byte blocks, 4-bit integers, offsets to 2, lengths to 4; 448 states | `FileIO` implements `ByteFile` |
| `vfs_names` | 4 inodes, 2 names of which one begins with the other, 1 hidden name, paths of up to 2 names, 1 handle, no or 3 free blocks for a call; 23 946 states | `TypeOK`, `TreeSound`, `CacheCoherent`, `HandlesLive`, `NamesKept`, `RenameMoves`, `ResolvesRight` |
| `path_clock` | 4 paths of different sizes; 420 states | `TypeOK`, `HandValid`, `OneEntry`, `EvictEnds` |
| `fsync_crash` | D=2, I=2, a file of up to 2 and one of up to 1 block, 3 data blocks, 2 contents, symmetry; 91 336 states | `SyncedOnDisk` for files of direct blocks |

Runs in which the code contradicts its own comments (`findings` in
`PROJECT.json` quotes both):

| run | shows |
|---|---|
| `blockmap_shrink` | shrinking a large file overwrites the super block |
| `layout_inode_area` | the last inodes lie in the data bitmap |
| `vfs_rename` | in a directory of D blocks a rename takes the old name out, does not put the new one in, and returns 0 |
| `fsync_index` | fsync does not write index blocks: after a crash a file that has one does not read as it was saved |

Further deviations that the models follow and no run of their own shows:
sync() clears the dirty bit before a write that may fail, so a second sync
reports success without writing (`SyncHit`); get_page() goes on after a failed
write-back and the victim's data is lost (`UpsertMiss`); a write to a new file on
a full disk goes to block 0 (`WriteNoSpace`); sb_create opens a handle whatever
create() did, on an inode without a name or past the device; a write that ends at 2^31 reports
bytes it did not write (`Copied`); create() counts the super block among the
blocks that are left (`remaining_blocks`), so that on a device whose size divides
evenly the last data block would lie behind its end (`DataStaysInArea`).

**Bounds.** Two slots and three blocks make every miss beyond the second an
eviction and let a block be evicted and return; with three slots the LRU list
has a middle. One error is enough for each failure path, and it may strike in
any operation, before or after a crash. D=1, I=2 and five blocks put a file on
all three levels, with two leaf entries, and let every border be crossed in both
directions. With 8 data blocks the large file can have all its blocks only while
the small one is empty, so that resizes fail half way, and what they leak makes
later ones fail earlier; writes fail as well. There is one leaf, so the write of
a kept leaf reaches the super block only: what it does from the second leaf on
is in the proofs alone (with a file of six blocks, the least that has two
leaves, TLC does not finish in time). Two-byte blocks
and lengths up to four cover calls inside one block, over one border, and over
a whole block in the middle. In `vfs_names` a directory block holds two entries,
so the first name a directory gets needs a second block, and taking one out
moves an entry over a block border; three inodes besides the root run out; two levels put a file below a directory
that is renamed, exchanged or removed while its path is cached; free blocks are
none or as many as any call needs. D=9 keeps the directories of that run
away from the border of the direct blocks, and `vfs_rename` puts it (D=2)
where a directory of two names reaches it. One handle is what
the run affords; reference counts above 1 are in the proof. In `path_clock` up to four paths are
visited and removed in any order. The step from `fsync_crash` (D=2) to
`fsync_index` (D=1, 4 data blocks) is the one index block.

Views leave out `ret`, which no action reads; property runs over steps see its
new value in the step itself. `blockmap`'s also takes the states that are not
intact, and in which nothing happens any more, as one for each `live`, `torn` and
`clobbered`.

**Deadlock** is checked in every run.

**Fairness** is assumed in one place: weak fairness of `Continue` in
`PathResolver`, the steps of a resolve() that has begun. It holds the mutex, does
no I/O in evict() and waits for nothing. Under it `EvictEnds` says that evict()
ends. Whether clients call again is not assumed. Everywhere else a call is one
step, or a loop bounded by a constant.

## 4. Proofs

`LRUCacheProofs` and `LRUCacheRefinement` hold for every number of slots, blocks,
contents and errors. Their assumptions are those of `LRUCache`: at least one slot
(`SizeAssumption`), `MaxFaults` a natural number (`FaultsAssumption`), and
`BadBlk`, `NoBlk` and `NoData` are not blocks or contents (`BlkAssumption`).

* `LRUCacheProofs`: `TypeCorrect`, `ListsStayApart`, `SlotsStayFilled`. The
  inductive invariant is `IInv`, the conjunction of the three: type correctness
  alone is not inductive, because `alloc()` on a full cache takes `LRU_last`,
  which must be a slot (`ListsApart`), and because a write-back writes a slot's
  buffer, which must have been filled (`SlotsFilled`). The list facts are proved
  once for lists alone (`RemoveKeepsApart`, `AddKeepsApart`, `TouchKeepsApart`,
  `AllocKeepsApart`) and used in every action; `UpsertKeepsMgr` covers the four
  outcomes of a miss.
* `LRUCacheRefinement`: `IndexStaysSound`, `CleanStaysOnDisk` (until the first
  I/O error) and `ImplementsBlockStore` (for a disk file without errors). The
  invariant `FInv` adds `IndexSound`, `CleanIsOnDisk` and `SyncAllProgress` to
  `IInv`. `IndexSound` is what makes the victim's write-back go to its own block
  and makes a write change one block's contents; `CleanIsOnDisk` is what lets
  `alloc()` drop a clean slot; `SyncAllProgress` is what makes sync_all's success
  mean that all contents are durable. `StepSound` shows for each action that it
  keeps them and is a step of `BlockStore` or leaves it unchanged. The condition
  on errors is needed: after one failed write a sync may report what it did not
  do, and an eviction may lose a block.
* `PathResolverProofs`: `TypeCorrect`, `HandStaysValid`, `HoldsOneEntry`, for any
  set of paths and any sizes of which two fit into the cache
  (`SizeAssumption`). None of the three is inductive. `removePrefix` would break
  `HandValid` if the hand could be on an entry between two calls, so the
  invariant `IInv` adds `PlaceInv`, which says for each place of resolve() that
  there is at most one entry, that cur_cache_size_ is 0 or the size of one path,
  that a running evict() was asked for more than 0, and that the hand is at the
  end except inside the scan. The core is arithmetic (`AlwaysEvicts`): the size
  of one entry plus that of another stays below max_cache_size_, the difference
  is negative, and modulo `W` it is positive, so evict() always takes the one
  entry out and leaves the hand at the end (`OnlyOne`).

* `DiskInodeProofs`: `TypeInvariant`, `BlocksStayApart`, `SuccessLeaksNothing`,
  `OtherMapsStay`, `PrefixStays`, for any set of files, every D and I and every disk
  on which a leaf's index is the number of a block before the data area
  (`GeometryAssumption`: I <= Start). The last four hold, as the properties say,
  while the metadata is `Intact`: a lost or torn inode points to blocks that
  others have. With config.h's layout the code itself ends that when it shrinks
  a file and keeps more than one leaf. `OneLeafStaysIntact` says
  that it does not happen with files of at most D + 2 I blocks (2071 there),
  until a write runs out of space. The induction is over `Inv`, type correctness and, while
  intact, `IInv`. `NoSharing` is not
  inductive: that a block is given to one place only depends on where an index
  block that was freed and taken again still points to. The invariant `IInv` adds
  `Shape` (a pointer to an index block is 0 exactly when the file does not need
  it, which is what `increase()` tests), the bound on sizes, and `Apart`
  (what the places of all files hold are marked blocks, all different). The
  argument: `increase()` asks for exactly the places the larger file has and the
  smaller has not (`NeededExact`), and `decrease()` gives up exactly those, its loops
  over the leaves beginning and ending at the right entry (`ReleasedExact`, from
  the order of positions by leaf and entry, `Behind`); what it gets was free and differs from place to
  place (`NewBlksFacts`); it changes index entries only in its own file's blocks
  and in free ones, so that every other file keeps its map (`LocAgree`,
  `StepApart`); and each operation is one such move (`GrowMoves`, `ShrinkMoves`,
  `OverwriteMoves`), from which the theorems follow once (`MoveKeeps`). A shrink
  that overwrites an inode and a write without space keep the types
  (`ShrinkTyped`, `NoSpaceSteps`).
* `VFSProofs`: `TypeInvariant`, `TreeStaysSound`, `CacheStaysCoherent`,
  `HandlesStayLive`, `NamesStay`, `LookupsRight`, for any number of inodes, names
  and handles, paths of any length, any free blocks and any geometry of
  directories (`NameSpaceAssumption`, `VFSAssumption`: `.` and `..` are not names of
  files). None is inductive. The invariant `IInv` says of the table that
  directories list no name twice and files nothing (`Shaped`), that every entry
  leads to a marked inode of count 1 to which no other entry leads, and that what
  is not marked holds nothing (`Tree`), so that a new inode starts without names;
  that the cache agrees with the directories (`Coherent`); and that handles are on
  marked files (`OnFiles`), which is why sb_rmdir, which nobody stops while a file
  is open, frees no inode that has a handle. The argument runs bottom up. Taking
  out, adding and replacing an entry changes what a directory gives for one name
  (`WithoutEnts`, `AppendEnts`, `ReplaceEnts`). unlink(), link(), remove() and
  create() each change one entry of the table or none, and keep the tree; between
  the unlink and the link of a rename an inode is without a name (`Loose`), and
  link() may fail and leave it so (`Linked`, `RenamedFact`). In a tree no two
  paths lead to one inode (`UniquePath`), so changing the entries two paths name
  changes no path that begins with neither (`KeptPath`); that gives `NamesKept`,
  and with removePrefix(), which takes out at least those, the cache's part
  (`CacheStep`). resolve() from a cached prefix meets the inodes a walk from the
  root meets (`DownFrom`, `ResolveFact`).
* `RenameLands` and `RenamesMove`, also in `VFSProofs`: a rename that found the
  blocks it asked for moves the file, from every state in which no directory has
  D blocks (`Fits`); and so always, where all names together do not fill D blocks
  (`NamesFit`, as in `vfs_names`). Without the condition it is false: that is the
  finding of `vfs_rename`. A rename never searches a directory that is longer
  than it was when the call began (`Grows`), which is what carries `Fits` through
  the four steps of an exchange.
* `FSyncProofs`: `FsyncSaves`, `SyncedOnDisk` for files that have direct blocks
  only (`DirectOnly`). The condition is the finding of `fsync_index`: sync_data()
  writes no index block. The invariant `SInv` adds to `DiskInodeProofs`'s `IInv`
  that a saved file is in memory as it was saved too: otherwise a write-back,
  which may come at any time, could undo it. With direct blocks only, no leaf is
  written and the metadata stays intact (`ShrinkStays`).
* `FSLayoutProofs`: `BitsStayExact`, `DataStaysInArea`, `InodesStayApart`, for every
  layout with at least one block of data bitmap (`LayoutAssumption`,
  `DiskAssumption`). Block, word and bit of an id are its digits, so `BitOf` and
  `IdOf` undo each other; the rest is that alloc() and free() keep ids and bits
  together. `DataStaysInArea` assumes that the division of the remaining blocks
  into bitmap and data blocks leaves a remainder: without it the miscounted super
  block makes the last data block one too many.
* `FileIOProofs`: `ImplementsByteFile`, the refinement of `ByteFile` for every
  block size and all contents, as long as offset plus length stays below `Half`
  (2^31). The block loop copies each position once, to its own place
  (`WidthAssumption`: a block border at `Half`). Above that bound it is false.
* `SyncAllStaysSound` in `LRUCacheRefinement`: until the first I/O error what the
  slots that a running sync_all has passed hold is in the disk file.

Where an argument needs induction over numbers it takes a least counterexample
(`Least`, from the library's `WFMin`): the library's own induction rules have an
operator as parameter, which the provers at hand cannot instantiate.

Only model-checked: `EvictEnds`, since liveness under fairness is outside what the
prover can show, and the four runs that show a violation.

## 5. Not modelled

`remove`, `remove_page` and `write_tx` (no caller), `clear` (dead code),
`blk_cache` (compiled only without BLOCK_CACHE), attributes and `statfs`
(single assignments), `main`, the RocksDB test. What the cache should evict is
not stated as a property either: `init()` before `LRU_remove()` in `alloc()` makes
it the slot used last, from the first eviction on, and a read marks its block
dirty, both of which the model follows and neither of which changes what a
client reads.

Also left out, with the hazards that need them listed in `PROJECT.json`: the
bitmaps on disk after a crash (the program has no recovery, and nothing says
what a reopened file system owes to files that were not synced); device errors
above the cache; names longer than 251 bytes; directories of more than D + I
blocks; `sb_truncate` without a file handle.

## 6. Plan

Every property of the passing runs but `EvictEnds` is proved. What would add most
is the bitmaps in `FSync`'s disk file, and a restart that allocates from them.
