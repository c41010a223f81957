-------------------------------- MODULE ExFat --------------------------------
(***************************************************************************)
(* The exFAT volume (src/kernel/fs/exfat.cc): the cluster heap's           *)
(* allocation bitmap, kept in memory (cluster_bitmap_) and on disk, the    *)
(* FAT, the root directory's entry sets, and the          *)
(* FileHandles callers hold.  Every operation runs under lock_, so one     *)
(* runs at a time; the model takes lock_ to be re-entrant, since open,     *)
(* write and mkdir take it again through the helpers they call.            *)
(*                                                                         *)
(* File data is left out: a write is the clusters it reaches and the       *)
(* metadata it changes.  Sizes and offsets are counted in units of which   *)
(* ClusterSize fill a cluster; the root directory's cluster holds          *)
(* DirSlots entries of 32 bytes.  Cluster contents go through the cluster  *)
(* cache (cache_), which is modelled for the root directory's cluster: it  *)
(* is written back only by flush_cache, while FAT and bitmap sectors are   *)
(* written to disk at once.  A crash loses memory, and the volume is       *)
(* mounted again from what the disk holds.                                 *)
(***************************************************************************)
EXTENDS Integers, FiniteSetsExt

CONSTANTS
    Names,          \* file names, each at most 15 characters (one name entry)
    ShortNames,     \* the names of one character
    NumClusters,    \* total_clusters_
    ClusterSize,    \* bytes_per_cluster_, in size units
    DirSlots,       \* 32-byte entries in the root directory's cluster
    Prefix,         \* entries before the first file (bitmap, up-case table, label)
    Handles,        \* FileHandle objects
    Sizes,          \* byte counts passed to read and write
    TruncSizes,     \* sizes passed to truncate
    IoCanFail,      \* whether sector reads and writes of the bitmap, the FAT and flush_cache may fail
    Overreads,      \* what a read past the root cluster's buffer may see
    CacheCanFail,   \* whether put_cached_cluster's kmalloc may return null
    NoName, None

Clusters == 2 .. NumClusters + 1
\* init, allocate_cluster and free_cluster_chain address the bitmap at
\* cluster_heap_start_sector_ + allocation_bitmap_cluster (2) *
\* sectors_per_cluster_, which cluster_to_sector gives for cluster 4.  The
\* volume modelled keeps its allocation bitmap there: the up-case table in
\* cluster 2, the root directory in cluster 3 and the bitmap in cluster 4,
\* so the sector the code reads and writes is the bitmap.
UpcaseCluster == 2
RootCluster == 3              \* root_dir_cluster_
BitmapCluster == 4            \* the cluster of the sector read as the bitmap
Reserved == {UpcaseCluster, RootCluster, BitmapCluster}

\* FAT entry values: free, 0xFFFFFFF7 (bad cluster) and 0xFFFFFFFF (end of
\* chain).  TLC's integers stop at 2^31, so the two markers are negative
\* here; every entry the code writes is one of these or a cluster, and the
\* code's tests ">= 0xFFFFFFF8" hold of FatEnd alone.
FatFree == 0
FatBad == -9
FatEnd == -1

ASSUME NumClusters >= 4 /\ ClusterSize \in Nat \ {0}
ASSUME Prefix \in 0 .. DirSlots - 1 /\ IoCanFail \in BOOLEAN
ASSUME CacheCanFail \in BOOLEAN
ASSUME ShortNames \subseteq Names
ASSUME Overreads \subseteq [name : Names \cup {NoName}, first : {0} \cup Clusters,
                            clean : BOOLEAN]

\* The range check of read_cluster, write_cluster and the FAT accessors.
InHeap(c) == c \in Clusters

\* find_next_cluster: 0xFFFFFFF7 for a cluster outside the heap, else the
\* FAT entry as read (0xFFFFFFF7, 0xFFFFFFFF, a cluster, or 0).
FindNext(fat, c) == IF InHeap(c) THEN fat[c] ELSE FatBad

\* read_fat_entry returns 0xFFFFFFFF when its sector read fails, so with
\* failing I/O a walk may also see the end of the chain anywhere.
FatReads(fat, c) == {fat[c]} \cup (IF IoCanFail THEN {FatEnd} ELSE {})
NextClusters(fat, c) == IF InHeap(c) THEN FatReads(fat, c) ELSE {FatBad}

Lesser(a, b) == Min({a, b})
Greater(a, b) == Max({a, b})

-----------------------------------------------------------------------------
(* Cluster allocation.  A volume state is [bm, dbm, fat]: the in-memory    *)
(* bitmap, the on-disk bitmap and the FAT.  The operators give the set of  *)
(* outcomes the sector I/O allows.                                         *)

\* A variant that leaves the in-memory bit set when the bitmap sector
\* write fails.
AllocOutcomesNoRollback(s) ==
    LET free == Clusters \ s.bm
        c == Min(free)
    IN IF free = {} THEN {[s |-> s, c |-> 0]}
       ELSE {[s |-> [bm |-> s.bm \cup {c}, dbm |-> s.dbm \cup {c},
                     fat |-> [s.fat EXCEPT ![c] = FatBad]], c |-> c],
             [s |-> [s EXCEPT !.bm = @ \cup {c}], c |-> 0]}

\* allocate_cluster: the lowest cluster free in memory is marked in memory,
\* then in the on-disk bitmap sector (read, modify, write), then its FAT
\* entry is set to 0xFFFFFFF7 in every FAT copy; a failed step clears the
\* in-memory bit and returns 0.  With two FATs the first copy may already
\* hold 0xFFFFFFF7 when the second write fails.
AllocOutcomes(s) ==
    LET free == Clusters \ s.bm
        c == Min(free)
    IN IF free = {} THEN {[s |-> s, c |-> 0]}
       ELSE {[s |-> [bm |-> s.bm \cup {c}, dbm |-> s.dbm \cup {c},
                     fat |-> [s.fat EXCEPT ![c] = FatBad]], c |-> c]}
            \cup
            IF ~IoCanFail THEN {}
            ELSE {[s |-> s, c |-> 0],
                  [s |-> [s EXCEPT !.dbm = @ \cup {c}], c |-> 0],
                  [s |-> [s EXCEPT !.dbm = @ \cup {c}, !.fat[c] = FatBad], c |-> 0]}

\* free_cluster_chain: for each cluster of the chain, read its FAT entry,
\* clear the in-memory bit, clear the on-disk bit (failures ignored), write
\* 0 to the FAT entry (failure ignored), and go on to the entry read.
RECURSIVE FreeOutcomes(_, _)
FreeOutcomes(c, s) ==
    IF ~InHeap(c) THEN {s}
    ELSE LET dbms == {s.dbm \ {c}} \cup (IF IoCanFail THEN {s.dbm} ELSE {})
             fats == {[s.fat EXCEPT ![c] = FatFree]} \cup (IF IoCanFail THEN {s.fat} ELSE {})
         IN UNION {FreeOutcomes(next, [bm |-> s.bm \ {c}, dbm |-> d, fat |-> f]) :
                     next \in FatReads(s.fat, c), d \in dbms, f \in fats}

-----------------------------------------------------------------------------
(* write_cluster_chain(first, offset, size) over clusters of cs units.     *)
(* The first loop walks the chain while the cluster is below 0xFFFFFFF8,   *)
(* writing the part of each cluster the range covers; the second loop,     *)
(* for what is left once the walk meets 0xFFFFFFFF (or a failed FAT read   *)
(* makes it seem so), allocates a cluster per cs units.  It links the new  *)
(* cluster only with write_fat_entry on the cluster the walk stopped at    *)
(* (0xFFFFFFFF assigns the local first_cluster instead), and the next      *)
(* find_next_cluster of a new cluster reads 0xFFFFFFF7.  The first loop's  *)
(* allocation branch is dead: its guard excludes 0xFFFFFFF8 and above.     *)
(* Outcomes are [s, ok].                                                   *)

RECURSIVE ExtendChain(_, _, _, _)
ExtendChain(cur, size, cs, s) ==
    IF size = 0 THEN {[s |-> s, ok |-> TRUE]}
    ELSE UNION {IF a.c = 0 THEN {[s |-> a.s, ok |-> FALSE]}
                ELSE LET s2 == IF InHeap(cur) THEN [a.s EXCEPT !.fat[cur] = a.c] ELSE a.s
                     IN UNION {ExtendChain(n, size - Lesser(size, cs), cs, s2)
                               : n \in NextClusters(s2.fat, a.c)}
                : a \in AllocOutcomes(s)}

RECURSIVE WalkChain(_, _, _, _, _, _)
WalkChain(cur, co, off, size, cs, s) ==
    IF size = 0 \/ cur = FatEnd THEN ExtendChain(cur, size, cs, s)
    ELSE IF cur = FatBad THEN {[s |-> s, ok |-> FALSE]}
    ELSE LET covers == off < co + cs /\ off + size > co
             w == Lesser(size, co + cs - Greater(off, co))
         IN IF covers /\ ~InHeap(cur) THEN {[s |-> s, ok |-> FALSE]}
            ELSE UNION {IF covers THEN WalkChain(n, co + cs, off + w, size - w, cs, s)
                        ELSE WalkChain(n, co + cs, off, size, cs, s)
                        : n \in NextClusters(s.fat, cur)}

WriteChainOutcomes(first, off, size, cs, s) ==
    IF ~InHeap(first) THEN {[s |-> s, ok |-> FALSE]}
    ELSE WalkChain(first, 0, off, size, cs, s)

\* read_cluster_chain: whether the walk covers [off, off + size) when every
\* FAT read succeeds; a failed read ends it early and read returns 0.
RECURSIVE ReadWalk(_, _, _, _, _)
ReadWalk(cur, co, off, size, fat) ==
    IF size = 0 \/ cur = FatEnd THEN size = 0
    ELSE IF cur = FatBad THEN FALSE
    ELSE LET covers == off < co + ClusterSize /\ off + size > co
             w == Lesser(size, co + ClusterSize - Greater(off, co))
         IN IF covers /\ ~InHeap(cur) THEN FALSE
            ELSE IF covers THEN ReadWalk(FindNext(fat, cur), co + ClusterSize, off + w, size - w, fat)
            ELSE ReadWalk(FindNext(fat, cur), co + ClusterSize, off, size, fat)

ReadChainOk(first, off, size, fat) ==
    InHeap(first) /\ ReadWalk(first, 0, off, size, fat)

-----------------------------------------------------------------------------
(* The root directory: DirSlots entries of 32 bytes.  A file is an entry   *)
(* set of three: the 0x85 file entry (attributes; secondary_count 3), the  *)
(* 0xC0 stream extension (first_cluster, data_length) and one 0xC1 name    *)
(* entry.  0x00 ends the directory; the bitmap, up-case and label entries  *)
(* before the files are skipped one at a time.                             *)

EndSlot == [t |-> "end"]
OtherSlot == [t |-> "other"]
FileSlot(isDir) == [t |-> "file", dir |-> isDir]
StreamSlot(first, size) == [t |-> "stream", first |-> first, size |-> size]
NameSlot(nm) == [t |-> "name", name |-> nm]

Idx == 0 .. DirSlots - 1

VARIABLES
    bitmap,     \* cluster_bitmap_: clusters allocated, in memory
    diskBitmap, \* the allocation bitmap in cluster 4, on disk
    fat,        \* the FAT, on disk
    dir,        \* the root directory cluster's entries, as the volume reads them
    handle,     \* each FileHandle: the file it was opened on, or None
    diskDir,    \* the root directory cluster's entries on disk
    rootCache   \* the root cluster's cache entry: "none", "clean" or "dirty"

vars == <<bitmap, diskBitmap, fat, dir, handle, diskDir, rootCache>>
cacheVars == <<diskDir, rootCache>>

Vol == [bm |-> bitmap, dbm |-> diskBitmap, fat |-> fat]
SetVol(s) == bitmap' = s.bm /\ diskBitmap' = s.dbm /\ fat' = s.fat

\* The name read for the entry set at i.  Every scan reads name entries j
\* for j < name_length and j < secondary_count - 1, so for a name of two or
\* more characters it also reads the entry after the set (j = 1) as name
\* characters: they stop at once only if that entry is 0x00; a file
\* entry's set_checksum (taken to be non-zero) or any other entry adds
\* characters, and the name read is none of Names (NoName).  An entry past
\* the root cluster is read past the end of the directory buffer, and is
\* whatever that memory holds (g, one of Overreads: the name and first
\* cluster it gives, and whether its first character is 0).
NameAt(i, g) ==
    LET own == dir[i + 2].name
        clear == IF i + 3 < DirSlots THEN dir[i + 3].t = "end" ELSE g.clean
    IN CASE i + 2 >= DirSlots -> g.name
         [] own \in ShortNames \/ clear -> own
         [] OTHER -> NoName
FirstAt(i, g) == IF i + 1 < DirSlots THEN dir[i + 1].first ELSE g.first

\* parse_directory: the entry sets listed, up to the first 0x00 entry and
\* up to a file entry whose stream extension is past the buffer.
RECURSIVE VisibleFrom(_)
VisibleFrom(i) ==
    IF i >= DirSlots \/ dir[i].t = "end" THEN {}
    ELSE IF dir[i].t = "file"
         THEN IF i + 2 > DirSlots THEN {} ELSE {i} \cup VisibleFrom(i + 3)
         ELSE VisibleFrom(i + 1)

\* find_file_in_directory: the first listed entry set with that name.
FindFile(nm, g) ==
    LET m == {i \in VisibleFrom(0) : NameAt(i, g) = nm}
    IN IF m = {} THEN None ELSE Min(m)

\* The loop of truncate, delete_directory_entry and rename: the first
\* entry set with that name, stopping at 0x00 but not at the buffer's end.
RECURSIVE ScanFrom(_, _, _)
ScanFrom(i, nm, g) ==
    IF i >= DirSlots \/ dir[i].t = "end" THEN None
    ELSE IF dir[i].t = "file"
         THEN IF NameAt(i, g) = nm THEN i ELSE ScanFrom(i + 3, nm, g)
         ELSE ScanFrom(i + 1, nm, g)

\* create_directory_entry's search: the first 0x00 entry, else the end of
\* the buffer (where a cluster of zeroes is appended).
RECURSIVE FreeSlot(_)
FreeSlot(i) ==
    IF i >= DirSlots THEN DirSlots
    ELSE IF dir[i].t = "end" THEN i
    ELSE IF dir[i].t = "file" THEN FreeSlot(i + 3)
    ELSE FreeSlot(i + 1)

\* The root cluster after an entry set es is written at slot k; the part
\* past the cluster goes to the clusters write_cluster_chain allocates.
WriteSet(k, es) ==
    [j \in Idx |-> IF j >= k /\ j < k + 3 THEN es[j - k + 1] ELSE dir[j]]

SetOutcomes(k, s) == WriteChainOutcomes(RootCluster, k, 3, DirSlots, s)

\* The root cluster's cache entry after read_cluster: a miss reads the
\* sectors and put_cached_cluster adds a clean entry, unless its kmalloc
\* fails; a hit changes nothing the model tells apart.
AfterRead(c) ==
    IF c # "none" THEN {c}
    ELSE {"clean"} \cup (IF CacheCanFail THEN {"none"} ELSE {})

\* An operation that reads the directory and does not write it.
DirRead ==
    /\ rootCache' \in AfterRead(rootCache)
    /\ UNCHANGED diskDir

\* An operation that reads the directory and writes the root cluster back
\* (write_cluster_chain -> write_cluster): a hit copies into the cache
\* entry and sets dirty; a miss writes the sectors through and then puts a
\* clean entry.  dir' is the cluster written.
DirWritten ==
    \E c \in AfterRead(rootCache) :
        IF c = "none"
        THEN diskDir' = dir' /\ rootCache' \in AfterRead("none")
        ELSE rootCache' = "dirty" /\ UNCHANGED diskDir

\* The cache effect of an operation: no directory access, a read, or a
\* read and a write back.
DirAccess(io) ==
    CASE io = "none" -> UNCHANGED cacheVars
      [] io = "read" -> DirRead
      [] io = "write" -> DirWritten

-----------------------------------------------------------------------------
(* Operations.  Each is one step: it holds lock_ from start to end.        *)

Init ==
    /\ bitmap = Reserved
    /\ diskBitmap = Reserved
    /\ fat = [c \in Clusters |-> IF c \in Reserved THEN FatEnd ELSE FatFree]
    /\ dir = [j \in Idx |-> IF j < Prefix THEN OtherSlot ELSE EndSlot]
    /\ handle = [h \in Handles |-> None]
    /\ diskDir = dir
    /\ rootCache = "none"

\* A variant that does not test allocate_cluster's result for 0.
CreateFileNoZeroCheck(h, nm, isDir) ==
    \E a \in AllocOutcomes(Vol) :
        LET k == FreeSlot(0) IN
        /\ dir' = WriteSet(k, <<FileSlot(isDir), StreamSlot(a.c, 0), NameSlot(nm)>>)
        /\ DirWritten
        /\ \E w \in SetOutcomes(k, a.s) :
             /\ SetVol(w.s)
             /\ handle' = IF h = None THEN handle
                          ELSE [handle EXCEPT ![h] = [name |-> nm, first |-> a.c,
                                  size |-> 0, off |-> 0, isDir |-> isDir]]

\* open with Create on a name not found, and mkdir through it: allocate
\* the first cluster, write the entry set at the free slot, and free the
\* cluster again when the write fails.  The new handle goes to h, or
\* nowhere for mkdir (None), which closes it at once.
CreateFile(h, nm, isDir) ==
    \E a \in AllocOutcomes(Vol) :
        IF a.c = 0 THEN SetVol(a.s) /\ DirRead /\ UNCHANGED <<dir, handle>>
        ELSE LET k == FreeSlot(0) IN
             /\ dir' = WriteSet(k, <<FileSlot(isDir), StreamSlot(a.c, 0), NameSlot(nm)>>)
             /\ DirWritten
             /\ \E w \in SetOutcomes(k, a.s) :
                  IF w.ok
                  THEN /\ SetVol(w.s)
                       /\ handle' = IF h = None THEN handle
                                    ELSE [handle EXCEPT ![h] = [name |-> nm, first |-> a.c,
                                            size |-> 0, off |-> 0, isDir |-> isDir]]
                  ELSE /\ \E f \in FreeOutcomes(a.c, w.s) : SetVol(f)
                       /\ UNCHANGED handle

\* open(path, flags): the handle of the entry found (refused when Create
\* and Exclusive are both set, or Directory is set on a file), else a new
\* file when Create is set.  Refusals change nothing and are not steps.
Open(h, nm, create, excl, isDir) ==
    /\ handle[h] = None
    /\ \E g \in Overreads :
         LET i == FindFile(nm, g) IN
         IF i # None
         THEN /\ ~(create /\ excl)
              /\ ~(isDir /\ ~dir[i].dir)
              /\ handle' = [handle EXCEPT ![h] = [name |-> nm, first |-> FirstAt(i, g),
                               size |-> dir[i + 1].size, off |-> 0, isDir |-> dir[i].dir]]
              /\ DirRead
              /\ UNCHANGED <<bitmap, diskBitmap, fat, dir>>
         ELSE create /\ CreateFile(h, nm, isDir)

\* mkdir: open with Create and Directory, then close.
Mkdir(nm) ==
    /\ \E g \in Overreads : FindFile(nm, g) = None
    /\ CreateFile(None, nm, TRUE)

Close(h) ==
    /\ handle[h] # None
    /\ handle' = [handle EXCEPT ![h] = None]
    /\ UNCHANGED <<bitmap, diskBitmap, fat, dir, diskDir, rootCache>>

\* read: nothing for a directory or at end of file; else the bytes up to
\* the end of file, when read_cluster_chain reaches them.
Read(h, n) ==
    LET f == handle[h] IN
    /\ f # None /\ ~f.isDir /\ f.off < f.size
    /\ LET r == Lesser(n, f.size - f.off) IN
       /\ ReadChainOk(f.first, f.off, r, fat)
       /\ handle' = [handle EXCEPT ![h].off = f.off + r]
    /\ UNCHANGED <<bitmap, diskBitmap, fat, dir, diskDir, rootCache>>

Seek(h, p) ==
    /\ handle[h] # None
    /\ p \in 0 .. handle[h].size
    /\ handle' = [handle EXCEPT ![h].off = p]
    /\ UNCHANGED <<bitmap, diskBitmap, fat, dir, diskDir, rootCache>>

ClustersNeeded(sz) == (sz + ClusterSize - 1) \div ClusterSize

RECURSIVE ShrinkWalk(_, _, _)
ShrinkWalk(n, cur, prev) ==
    IF n = 0 \/ cur = FatEnd THEN {[cur |-> cur, prev |-> prev]}
    ELSE UNION {ShrinkWalk(n - 1, x, cur) : x \in NextClusters(fat, cur)}

ShrinkOutcomes(f, sz, s) ==
    UNION {LET ends == IF InHeap(w.prev)
                       THEN {[s EXCEPT !.fat[w.prev] = FatEnd]} \cup (IF IoCanFail THEN {s} ELSE {})
                       ELSE {s}
           IN UNION {IF InHeap(w.cur) THEN FreeOutcomes(w.cur, e) ELSE {e} : e \in ends}
           : w \in ShrinkWalk(ClustersNeeded(sz), f.first, 0)}

\* truncate, growing: write_cluster_chain of at most a cluster at a time
\* from the old end of file; the first failure returns false.
RECURSIVE GrowOutcomes(_, _, _, _)
GrowOutcomes(first, pos, add, s) ==
    IF add = 0 THEN {[s |-> s, ok |-> TRUE]}
    ELSE LET tw == Lesser(add, ClusterSize) IN
         UNION {IF w.ok THEN GrowOutcomes(first, pos + tw, add - tw, w.s) ELSE {w}
                : w \in WriteChainOutcomes(first, pos, tw, ClusterSize, s)}

\* truncate(f, sz): outcomes [s, d, f, ok] of the volume, the directory and
\* the handle.  After the chain is changed the handle takes the new size,
\* and the stream extension of the first entry set named f.name gets it
\* too; the set is written back with write_cluster_chain.  FileHandle has
\* no name member: f.name is the name the handle was opened by.
TruncOutcomes(f, sz, s) ==
    IF f.isDir THEN {[s |-> s, d |-> dir, f |-> f, ok |-> FALSE, io |-> "none"]}
    ELSE IF sz = f.size THEN {[s |-> s, d |-> dir, f |-> f, ok |-> TRUE, io |-> "none"]}
    ELSE LET cs == IF sz < f.size
                   THEN {[s |-> x, ok |-> TRUE] : x \in ShrinkOutcomes(f, sz, s)}
                   ELSE GrowOutcomes(f.first, f.size, sz - f.size, s)
             f2 == [f EXCEPT !.size = sz]
         IN UNION {IF ~c.ok THEN {[s |-> c.s, d |-> dir, f |-> f, ok |-> FALSE, io |-> "none"]}
                   ELSE UNION {LET i == ScanFrom(0, f.name, g) IN
                               IF i = None THEN {[s |-> c.s, d |-> dir, f |-> f2, ok |-> TRUE, io |-> "read"]}
                               ELSE LET d2 == IF i + 1 < DirSlots
                                              THEN [dir EXCEPT ![i + 1].size = sz] ELSE dir
                                    IN {[s |-> w.s, d |-> d2, f |-> f2, ok |-> w.ok, io |-> "write"]
                                        : w \in SetOutcomes(i, c.s)}
                               : g \in Overreads}
                   : c \in cs}

Truncate(h, sz) ==
    /\ handle[h] # None
    /\ \E r \in TruncOutcomes(handle[h], sz, Vol) :
         /\ SetVol(r.s) /\ dir' = r.d
         /\ handle' = [handle EXCEPT ![h] = r.f]
         /\ DirAccess(r.io)

\* write: nothing for a directory; past the end of file, truncate to the
\* new end first (returning 0 if it fails); then write_cluster_chain at
\* the offset, which advances only if the chain write succeeds.
Write(h, n) ==
    LET f == handle[h] IN
    /\ f # None /\ ~f.isDir
    /\ \E r \in IF f.off + n > f.size THEN TruncOutcomes(f, f.off + n, Vol)
                ELSE {[s |-> Vol, d |-> dir, f |-> f, ok |-> TRUE, io |-> "none"]} :
         /\ dir' = r.d
         /\ DirAccess(r.io)
         /\ IF ~r.ok
            THEN SetVol(r.s) /\ handle' = [handle EXCEPT ![h] = r.f]
            ELSE \E w \in WriteChainOutcomes(f.first, f.off, n, ClusterSize, r.s) :
                   /\ SetVol(w.s)
                   /\ handle' = [handle EXCEPT ![h] =
                                   IF w.ok THEN [r.f EXCEPT !.off = f.off + n] ELSE r.f]

\* delete_directory_entry: zero the first entry set named nm and write it
\* back.  The stream extension's first_cluster is read after the memset,
\* so it is 0 and nothing is freed.
DeleteDirectoryEntry(nm) ==
    \E g \in Overreads :
        LET i == ScanFrom(0, nm, g) IN
        /\ i # None
        /\ dir' = WriteSet(i, <<EndSlot, EndSlot, EndSlot>>)
        /\ DirWritten
        /\ \E w \in SetOutcomes(i, Vol) : SetVol(w.s)
        /\ UNCHANGED handle

\* rmdir deletes the root directory entry of that name, whatever it is;
\* unlink is rmdir.
Rmdir(nm) == DeleteDirectoryEntry(nm)
Unlink(nm) == Rmdir(nm)

\* rename: old must be found; then the first entry set named old (in a
\* fresh read of the directory) gets the new name in its name entry, and
\* the set is written back.  Nothing checks that new is already in use.
Rename(old, new) ==
    /\ \E g \in Overreads : FindFile(old, g) # None
    /\ \E g \in Overreads :
        LET i == ScanFrom(0, old, g) IN
        /\ i # None
        /\ dir' = IF i + 2 < DirSlots THEN [dir EXCEPT ![i + 2] = NameSlot(new)] ELSE dir
        /\ DirWritten
        /\ \E w \in SetOutcomes(i, Vol) : SetVol(w.s)
        /\ UNCHANGED handle

\* sync -> flush_cache: a dirty entry's sectors are written (each
\* write_sector's result ignored) and dirty is cleared.
Sync ==
    /\ rootCache = "dirty"
    /\ diskDir' \in {dir} \cup (IF IoCanFail THEN {diskDir} ELSE {})
    /\ rootCache' = "clean"
    /\ UNCHANGED <<bitmap, diskBitmap, fat, dir, handle>>

\* A crash: memory is lost (handles, cache_, cluster_bitmap_) without the
\* destructor's flush_cache, and init mounts the volume again, reading
\* the allocation bitmap from disk; the directory is read from disk.
Remount ==
    /\ bitmap' = diskBitmap
    /\ dir' = diskDir
    /\ handle' = [h \in Handles |-> None]
    /\ rootCache' = "none"
    /\ UNCHANGED <<diskBitmap, fat, diskDir>>

Next ==
    \/ Sync \/ Remount
    \/ \E h \in Handles, nm \in Names, c, e, d \in BOOLEAN : Open(h, nm, c, e, d)
    \/ \E nm \in Names : Mkdir(nm) \/ Unlink(nm)
    \/ \E old, new \in Names : Rename(old, new)
    \/ \E h \in Handles : Close(h)
    \/ \E h \in Handles, n \in Sizes : Read(h, n) \/ Write(h, n)
    \/ \E h \in Handles, sz \in TruncSizes : Truncate(h, sz)
    \/ \E h \in Handles, p \in 0 .. ClusterSize * NumClusters : Seek(h, p)

Spec == Init /\ [][Next]_vars

-----------------------------------------------------------------------------
IsSlot(e) ==
    \/ e \in {EndSlot, OtherSlot} \cup {FileSlot(b) : b \in BOOLEAN}
    \/ e \in {NameSlot(nm) : nm \in Names}
    \/ e.t = "stream" /\ e.first \in Clusters /\ e.size \in Nat

TypeOK ==
    /\ bitmap \subseteq Clusters /\ diskBitmap \subseteq Clusters
    /\ fat \in [Clusters -> {FatFree, FatBad, FatEnd} \cup Clusters]
    /\ \A j \in Idx : IsSlot(dir[j]) /\ IsSlot(diskDir[j])
    /\ rootCache \in {"none", "clean", "dirty"}
    /\ \A h \in Handles : handle[h] = None \/
         /\ handle[h].name \in Names /\ handle[h].isDir \in BOOLEAN
         /\ handle[h].first \in {0} \cup Clusters
         /\ handle[h].size \in Nat /\ handle[h].off \in Nat

\* Every cluster allocated in memory is allocated in the on-disk bitmap:
\* allocate_cluster marks memory before the disk sector and clears the
\* memory bit when the sector or FAT write fails, and free_cluster_chain
\* clears memory first, so a failed sector write leaves the disk bitmap
\* claiming more, never less.  The next mount reads the disk bitmap.
DiskBitmapCoversMemory == bitmap \subseteq diskBitmap

\* The stream extensions in the root directory name distinct clusters, each
\* allocated in memory: no cluster is shared by two files or handed out
\* again by allocate_cluster while an entry still names it.  Truncate's
\* shrink, open's rollback and delete decide which clusters are freed.
\* It must hold after a crash too: the bitmap and FAT reach the disk at
\* once while the directory waits in the cache for a flush whose writes
\* may fail, so a remount pairs the disk's metadata with an older
\* directory.
EntriesOwnDistinctClusters ==
    LET S == {j \in Idx : dir[j].t = "stream"} IN
    \A j \in S : /\ dir[j].first \in bitmap
                 /\ \A k \in S \ {j} : dir[k].first # dir[j].first

=============================================================================
