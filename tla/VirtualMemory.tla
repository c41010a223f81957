---------------------------- MODULE VirtualMemory ----------------------------
(***************************************************************************)
(* The virtual memory manager and kernel heap of nanokoton                 *)
(* (src/kernel/mm/vitural.cc lines 1-598, src/unnamed/part_008).           *)
(*                                                                         *)
(* Addresses are page numbers on a reduced scale: the PML4 has four        *)
(* entries (0..1 the lower, user half; 2..3 the upper, kernel half, the    *)
(* code's 0..255 and 256..511) and the PDPT, PD and PT two each, so a      *)
(* page number k has the indices Index(k, 3) .. Index(k, 0), as the code's *)
(* (virt >> 39) & 0x1FF .. (virt >> 12) & 0x1FF.  Page tables live in      *)
(* frames taken from the physical memory manager; pte[f] is the content of *)
(* frame f read as a table.  Every public VMM operation runs under a lock  *)
(* on one CPU and is one action.                                           *)
(***************************************************************************)
EXTENDS Integers, Sequences, FiniteSets, FiniteSetsExt, Functions, TLC

CONSTANTS
    Frames,            \* the frames the PMM hands out (integers)
    KernelImageFrame,  \* physical frame of the kernel image (not PMM-owned)
    VGAFrame,          \* physical frame 0xb8000
    MMIOFrames,        \* device frames drivers map
    KernelBase,        \* page number of KERNEL_BASE
    VGAPage,           \* page number of virtual 0xb8000
    UserVAs,           \* user-half pages callers map and unmap
    HeapPages,         \* the heap window's pages, from KERNEL_HEAP_BASE up
    BootHeapPages,     \* one-page kmalloc calls made before the first
                       \* address space is created
    Sizes,             \* kmalloc sizes, in pages
    Spaces,            \* AddressSpace objects
    KernelSpace,       \* kernel_space_
    MaxRefs,           \* bound on reference_count
    None               \* an absent entry / nullptr

Slots == 0 .. 3
KernelSlots == 2 .. 3
DevFrames == {KernelImageFrame, VGAFrame} \cup MMIOFrames
Entry == Frames \cup DevFrames \cup {None}
HeapVAs == {HeapPages[i] : i \in DOMAIN HeapPages}
VAs == UserVAs \cup HeapVAs \cup {KernelBase, VGAPage}

\* map_page_internal / unmap_page_internal / walk_page_table: indices[i].
Index(k, lvl) == IF lvl = 3 THEN (k \div 8) % 4 ELSE (k \div (2 ^ lvl)) % 2

KernelHalf(k) == Index(k, 3) \in KernelSlots

VARIABLES
    pte,             \* frame -> slot -> entry (address, or None if not present)
    pmmFree,         \* frames the PMM has clear in its bitmaps
    pml4,            \* AddressSpace::pml4
    refCount,        \* AddressSpace::reference_count
    allocatedPages,  \* AddressSpace::allocated_pages
    mappedPages,     \* AddressSpace::mapped_pages
    sstate,          \* "Unused", "Live" or "Deleted" (after delete space)
    current,         \* current_space_
    heapCur,         \* kernel_heap_current_, in pages past KERNEL_HEAP_BASE
    view,            \* ghost: <<owner, page, frame>> that callers were told are mapped
    blocks,          \* ghost: live kmalloc blocks [base, n]
    freed,           \* ghost: blocks passed to kfree
    holders          \* ghost: owners (a Process) holding the space

vars == <<pte, pmmFree, pml4, refCount, allocatedPages, mappedPages, sstate,
          current, heapCur, view, blocks, freed, holders>>

-----------------------------------------------------------------------------
(* The memory the VMM operates on, as a record, so that the helpers a      *)
(* public function calls compose inside its action.  Counters are updated  *)
(* on current_space_ (cur), as the code does.                              *)

Mem == [pte |-> pte, free |-> pmmFree, alloc |-> allocatedPages, mapped |-> mappedPages,
        cur |-> current, p4 |-> pml4]

EmptyTable == [i \in Slots |-> None]

\* The content of a free frame is not kept: no path reads a frame after
\* freeing it (FramesOwnedOnce), and allocation zeroes a table.
SetMem(m) ==
    /\ pte' = [f \in Frames |-> IF f \in m.free THEN EmptyTable ELSE m.pte[f]]
    /\ pmmFree' = m.free
    /\ allocatedPages' = m.alloc /\ mappedPages' = m.mapped

\* Faulty variant of FreePage: the frame is not checked against the regions.
FreePageAny(m, f) == [m EXCEPT !.free = @ \cup {f}]

\* PhysicalMemoryManager::free_page as the VMM sees it: a frame outside
\* every region, or already free, is ignored.
FreePage(m, f) == IF f \in Frames THEN [m EXCEPT !.free = @ \cup {f}] ELSE m

\* PhysicalMemoryManager::allocate_page: the lowest free frame.
AllocPage(m) == Min(m.free)

\* get_next_table(entry, level, allocate = true): follow a present entry,
\* or allocate, zero and install a new table, counting it.
GetNextTable(m, t, idx) ==
    IF m.pte[t][idx] # None THEN [m |-> m, next |-> m.pte[t][idx]]
    ELSE IF m.free = {} THEN [m |-> m, next |-> None]
    ELSE LET f == AllocPage(m)
         IN [m |-> [m EXCEPT !.pte = [@ EXCEPT ![f] = EmptyTable, ![t][idx] = f],
                             !.free = @ \ {f},
                             !.alloc[m.cur] = @ + 1],
             next |-> f]

\* The loop of map_page_internal from the PML4 down to the PT.
RECURSIVE Descend(_, _, _, _)
Descend(m, t, k, lvl) ==
    LET r == GetNextTable(m, t, Index(k, lvl))
    IN IF r.next = None THEN [m |-> r.m, table |-> None]
       ELSE IF lvl = 1 THEN [m |-> r.m, table |-> r.next]
       ELSE Descend(r.m, r.next, k, lvl - 1)

\* map_page_internal (callers pass page-aligned addresses): tables made on
\* the way stay when the leaf is already present.
MapInternal(m, k, p) ==
    LET d == Descend(m, m.p4[m.cur], k, 3)
    IN IF d.table = None \/ d.m.pte[d.table][Index(k, 0)] # None
       THEN [m |-> d.m, ok |-> FALSE]
       ELSE [m |-> [d.m EXCEPT !.pte[d.table][Index(k, 0)] = p,
                               !.mapped[m.cur] = @ + 1],
             ok |-> TRUE]

\* walk_page_table from table t at level lvl (no code sets the huge bit,
\* so that branch never returns).
RECURSIVE WalkFrom(_, _, _, _)
WalkFrom(m, t, k, lvl) ==
    LET e == m.pte[t][Index(k, lvl)]
    IN IF e = None \/ lvl = 0 THEN e ELSE WalkFrom(m, e, k, lvl - 1)

\* get_physical_address on the current space.
GetPhysical(m, k) == WalkFrom(m, m.p4[m.cur], k, 3)

\* The tables[] array of unmap_page_internal: level -> table, or None
\* when an intermediate entry is not present.
RECURSIVE PathFrom(_, _, _, _)
PathFrom(m, t, k, lvl) ==
    IF lvl = 0 THEN (0 :> t)
    ELSE LET e == m.pte[t][Index(k, lvl)]
             rest == IF e = None THEN None ELSE PathFrom(m, e, k, lvl - 1)
         IN IF rest = None THEN None ELSE rest @@ (lvl :> t)

IsEmpty(m, t) == \A j \in Slots : m.pte[t][j] = None

\* The pruning loop of unmap_page_internal, for i = 1 .. 3: tables[i] is
\* freed and its parent entry cleared when it has no present entry.  (For
\* i = 3 the parent would be tables[4], past the array; the PML4 can only
\* be empty there if the PD was freed, which never happens, see below.)
RECURSIVE Prune(_, _, _, _)
Prune(m, tb, k, i) ==
    IF i > 3 THEN m
    ELSE LET t  == tb[i]
             m1 == IF IsEmpty(m, t)
                   THEN [FreePage(m, t) EXCEPT
                           !.alloc[m.cur] = @ - 1,
                           !.pte = IF i < 3 THEN [@ EXCEPT ![tb[i + 1]][Index(k, i + 1)] = None]
                                   ELSE @]
                   ELSE m
         IN Prune(m1, tb, k, i + 1)

\* Faulty variant of UnmapInternal: the leaf entry is not cleared.
UnmapNoClear(m, k) ==
    LET tb == PathFrom(m, m.p4[m.cur], k, 3)
    IN IF tb = None THEN [m |-> m, ok |-> FALSE]
       ELSE IF m.pte[tb[0]][Index(k, 0)] = None THEN [m |-> m, ok |-> FALSE]
       ELSE LET m1 == [FreePage(m, m.pte[tb[0]][Index(k, 0)]) EXCEPT !.mapped[m.cur] = @ - 1]
            IN [m |-> Prune(m1, tb, k, 1), ok |-> TRUE]

\* unmap_page_internal: free the mapped frame, clear the leaf, prune.
UnmapInternal(m, k) ==
    LET tb == PathFrom(m, m.p4[m.cur], k, 3)
    IN IF tb = None THEN [m |-> m, ok |-> FALSE]
       ELSE IF m.pte[tb[0]][Index(k, 0)] = None THEN [m |-> m, ok |-> FALSE]
       ELSE LET leaf == m.pte[tb[0]][Index(k, 0)]
                m1   == [FreePage(m, leaf) EXCEPT !.pte[tb[0]][Index(k, 0)] = None,
                                                  !.mapped[m.cur] = @ - 1]
            IN [m |-> Prune(m1, tb, k, 1), ok |-> TRUE]

-----------------------------------------------------------------------------
(* Address spaces.                                                         *)

\* free_table(table, level): for each present entry, free the child table
\* first when level > 1, then free the entry's frame and count it down;
\* finally free the table itself and count it down again.  The child's
\* frame is thus freed twice, and every count lands on current_space_.
RECURSIVE FreeTable(_, _, _), FreeEntries(_, _, _, _)
FreeEntries(m, t, lvl, i) ==
    IF i > 3 THEN m
    ELSE LET e  == m.pte[t][i]
             m1 == IF e = None THEN m
                   ELSE [FreePage(IF lvl > 1 THEN FreeTable(m, e, lvl - 1) ELSE m, e)
                            EXCEPT !.alloc[m.cur] = @ - 1]
         IN FreeEntries(m1, t, lvl, i + 1)

FreeTable(m, t, lvl) ==
    IF lvl = 0 THEN m
    ELSE [FreePage(FreeEntries(m, t, lvl, 0), t) EXCEPT !.alloc[m.cur] = @ - 1]

\* The loop of destroy_address_space over the lower half of the PML4.
RECURSIVE FreeLowerHalf(_, _, _)
FreeLowerHalf(m, p, i) ==
    IF i \in KernelSlots THEN m
    ELSE FreeLowerHalf(IF m.pte[p][i] # None THEN FreeTable(m, m.pte[p][i], 3) ELSE m, p, i + 1)

\* Faulty variant of KernelHalfCopy: the copy loop starts one entry late.
KernelHalfCopyShort(top) == [i \in Slots |-> IF i \in KernelSlots \ {2} THEN top[i] ELSE None]

\* The new PML4 of create_address_space: zeroed, then entries 256..511
\* copied from the kernel space's PML4.
KernelHalfCopy(top) == [i \in Slots |-> IF i \in KernelSlots THEN top[i] ELSE None]

FreshSpace == CHOOSE s \in Spaces : sstate[s] = "Unused"
HasFreshSpace == \E s \in Spaces : sstate[s] = "Unused"

\* create_address_space, called by the Process constructor, which becomes
\* the space's one holder.  With no free frame it returns nullptr.
CreateAddressSpace ==
    IF pmmFree = {} THEN UNCHANGED vars
    ELSE LET f == AllocPage(Mem)
             s == FreshSpace
         IN /\ pte' = [pte EXCEPT ![f] = KernelHalfCopy(pte[pml4[KernelSpace]])]
            /\ pmmFree' = pmmFree \ {f}
            /\ pml4' = [pml4 EXCEPT ![s] = f]
            /\ refCount' = [refCount EXCEPT ![s] = 1]
            /\ allocatedPages' = [allocatedPages EXCEPT ![s] = 0]
            /\ mappedPages' = [mappedPages EXCEPT ![s] = 0]
            /\ sstate' = [sstate EXCEPT ![s] = "Live"]
            /\ holders' = [holders EXCEPT ![s] = 1]
            /\ UNCHANGED <<current, heapCur, view, blocks, freed>>

\* destroy_address_space(space), called by a holder (~Process): drop one
\* reference; at zero free the lower half's tables and the PML4 and
\* delete the object.  A pointer to the deleted object (current_space_)
\* still reads its old pml4 field: pml4[s] is left as it was.
DestroyAddressSpace(s) ==
    IF s = KernelSpace THEN UNCHANGED vars
    ELSE /\ holders' = [holders EXCEPT ![s] = @ - 1]
         /\ IF refCount[s] - 1 > 0
            THEN /\ refCount' = [refCount EXCEPT ![s] = @ - 1]
                 /\ UNCHANGED <<pte, pmmFree, pml4, allocatedPages, mappedPages, sstate>>
            ELSE /\ SetMem(FreePage(FreeLowerHalf(Mem, pml4[s], 0), pml4[s]))
                 /\ refCount' = [refCount EXCEPT ![s] = 0]
                 /\ sstate' = [sstate EXCEPT ![s] = "Deleted"]
                 /\ UNCHANGED pml4
         /\ UNCHANGED <<current, heapCur, view, blocks, freed>>

\* Faulty variant of SwitchAddressSpace: no reference is taken.
SwitchNoRef(s) ==
    /\ current' = s
    /\ UNCHANGED <<pte, pmmFree, pml4, refCount, allocatedPages, mappedPages, sstate,
                   heapCur, view, blocks, freed, holders>>

\* switch_address_space: load CR3, make the space current and take a
\* reference (which nothing gives back).
SwitchAddressSpace(s) ==
    /\ current' = s
    /\ refCount' = [refCount EXCEPT ![s] = @ + 1]
    /\ UNCHANGED <<pte, pmmFree, pml4, allocatedPages, mappedPages, sstate,
                   heapCur, view, blocks, freed, holders>>

-----------------------------------------------------------------------------
(* Public mapping operations, with the callers' view of what is mapped:    *)
(* a lower-half page belongs to the current space, an upper-half page to   *)
(* all of them.                                                            *)

Owner(k) == IF KernelHalf(k) THEN KernelSpace ELSE current

Forget(k) == {x \in view : ~(x[1] = Owner(k) /\ x[2] = k)}

\* map_page
MapPage(k, p) ==
    LET r == MapInternal(Mem, k, p)
    IN /\ SetMem(r.m)
       /\ view' = IF r.ok THEN view \cup {<<Owner(k), k, p>>} ELSE view
       /\ UNCHANGED <<pml4, refCount, sstate, current, heapCur, blocks, freed, holders>>

\* unmap_page
UnmapPage(k) ==
    LET r == UnmapInternal(Mem, k)
    IN /\ SetMem(r.m)
       /\ view' = IF r.ok THEN Forget(k) ELSE view
       /\ UNCHANGED <<pml4, refCount, sstate, current, heapCur, blocks, freed, holders>>

\* The loops of map_pages: map page i; on failure unmap pages 0 .. i-1.
RECURSIVE UnmapFirst(_, _, _, _)
UnmapFirst(m, k, j, i) == IF j >= i THEN m ELSE UnmapFirst(UnmapInternal(m, k + j).m, k, j + 1, i)

RECURSIVE MapPagesFrom(_, _, _, _, _)
MapPagesFrom(m, k, p, i, n) ==
    IF i = n THEN [m |-> m, ok |-> TRUE]
    ELSE LET r == MapInternal(m, k + i, p + i)
         IN IF r.ok THEN MapPagesFrom(r.m, k, p, i + 1, n)
            ELSE [m |-> UnmapFirst(r.m, k, 0, i), ok |-> FALSE]

\* map_pages(virt, phys, 2)
MapPages(k, p) ==
    LET r == MapPagesFrom(Mem, k, p, 0, 2)
    IN /\ SetMem(r.m)
       /\ view' = IF r.ok THEN view \cup {<<Owner(k), k, p>>, <<Owner(k + 1), k + 1, p + 1>>}
                  ELSE view
       /\ UNCHANGED <<pml4, refCount, sstate, current, heapCur, blocks, freed, holders>>

\* The loop of unmap_pages: every page is tried; returns the pages unmapped.
RECURSIVE UnmapPagesFrom(_, _, _, _)
UnmapPagesFrom(m, k, i, n) ==
    IF i = n THEN [m |-> m, gone |-> {}]
    ELSE LET r    == UnmapInternal(m, k + i)
             rest == UnmapPagesFrom(r.m, k, i + 1, n)
         IN [m |-> rest.m, gone |-> rest.gone \cup (IF r.ok THEN {k + i} ELSE {})]

\* unmap_pages(virt, 2)
UnmapPages(k) ==
    LET r == UnmapPagesFrom(Mem, k, 0, 2)
    IN /\ SetMem(r.m)
       /\ view' = {x \in view : ~(x[2] \in r.gone /\ x[1] = Owner(x[2]))}
       /\ UNCHANGED <<pml4, refCount, sstate, current, heapCur, blocks, freed, holders>>

-----------------------------------------------------------------------------
(* Kernel heap.                                                            *)

HeapVA(base, i) == HeapPages[base + i + 1]

\* The rollback loop of kmalloc: for each page j < i already mapped in this
\* call, free the frame get_physical_address finds, then unmap_page it
\* (which frees the same frame again).
RECURSIVE RollbackFrom(_, _, _, _)
RollbackFrom(m, base, j, i) ==
    IF j >= i THEN m
    ELSE LET k  == HeapVA(base, j)
             ph == GetPhysical(m, k)
             m1 == IF ph # None THEN FreePage(m, ph) ELSE m
         IN RollbackFrom(UnmapInternal(m1, k).m, base, j + 1, i)

\* Faulty variant of Rollback: the loop starts at page 1.
RollbackSkipFirst(m, base, i) == RollbackFrom(m, base, 1, i)

Rollback(m, base, i) == RollbackFrom(m, base, 0, i)

\* The page loop of kmalloc: allocate a frame and map page i; on either
\* failure roll back (after freeing the frame whose mapping failed).
RECURSIVE KmallocFrom(_, _, _, _)
KmallocFrom(m, base, i, n) ==
    IF i = n THEN [m |-> m, ok |-> TRUE]
    ELSE IF m.free = {} THEN [m |-> Rollback(m, base, i), ok |-> FALSE]
    ELSE LET f == AllocPage(m)
             r == MapInternal([m EXCEPT !.free = @ \ {f}], HeapVA(base, i), f)
         IN IF r.ok THEN KmallocFrom(r.m, base, i + 1, n)
            ELSE [m |-> Rollback(FreePage(r.m, f), base, i), ok |-> FALSE]

\* The view entries of the n pages a kmalloc mapped at base.
HeapView(m, base, n) ==
    {<<KernelSpace, HeapVA(base, j), GetPhysical(m, HeapVA(base, j))>> : j \in 0 .. n - 1}

\* kmalloc of n pages (the size rounded up to 16 bytes and then to pages):
\* fail when the heap window is exhausted, else map n fresh frames at the
\* bump pointer in the current space and advance it.
Kmalloc(n) ==
    IF heapCur + n > Len(HeapPages) THEN UNCHANGED vars
    ELSE LET r == KmallocFrom(Mem, heapCur, 0, n)
         IN /\ SetMem(r.m)
            /\ IF r.ok
               THEN /\ heapCur' = heapCur + n
                    /\ blocks' = blocks \cup {[base |-> heapCur, n |-> n]}
                    /\ view' = view \cup HeapView(r.m, heapCur, n)
               ELSE UNCHANGED <<heapCur, blocks, view>>
            /\ UNCHANGED <<pml4, refCount, sstate, current, freed, holders>>

\* kmalloc_aligned(size, A) for a size of n pages: a bad alignment falls
\* back to kmalloc(size); otherwise A is at least 16 and the call asks
\* kmalloc for size + A - 1 + 8 bytes, one page more for A below a page and
\* two for A = PAGE_SIZE (the stacks and TLS blocks of threads).
AlignPages == [bad |-> 0, small |-> 1, page |-> 2]

KmallocAligned(n, a) == Kmalloc(n + AlignPages[a])

\* The body of kfree(ptr) once its header check finds the word before ptr
\* equal to ptr (kmalloc never writes that word; the model takes this
\* outcome): free the frame behind ptr, then unmap_page(ptr).
KfreeMem(m, k) ==
    LET ph == GetPhysical(m, k)
    IN UnmapInternal(IF ph # None THEN FreePage(m, ph) ELSE m, k)

\* kfree of a kmalloc block.  For a kmalloc_aligned block the header holds
\* the raw pointer, which differs from ptr, so kfree calls kfree(raw),
\* taking heap_lock_ again (the lock is taken to be re-entrant, see the
\* README), and kfree(raw) does what kfree does for a kmalloc block.
Kfree(b) ==
    LET k == HeapVA(b.base, 0)
        r == KfreeMem(Mem, k)
    IN /\ SetMem(r.m)
       /\ blocks' = blocks \ {b}
       /\ freed' = freed \cup {b}
       /\ view' = IF r.ok THEN Forget(k) ELSE view
       /\ UNCHANGED <<pml4, refCount, sstate, current, heapCur, holders>>

\* krealloc(ptr, new_size) of a live block: kmalloc(new_size) first, and
\* null with the old block untouched if it fails; else copy (contents are
\* not modelled) and kfree(ptr).  Both header branches do the same.
Krealloc(b, n) ==
    IF heapCur + n > Len(HeapPages) THEN UNCHANGED vars
    ELSE LET r == KmallocFrom(Mem, heapCur, 0, n)
             f == KfreeMem(r.m, HeapVA(b.base, 0))
         IN IF ~r.ok
            THEN /\ SetMem(r.m)
                 /\ UNCHANGED <<pml4, refCount, sstate, current, heapCur, view, blocks, freed, holders>>
            ELSE /\ SetMem(f.m)
                 /\ heapCur' = heapCur + n
                 /\ blocks' = (blocks \ {b}) \cup {[base |-> heapCur, n |-> n]}
                 /\ freed' = freed \cup {b}
                 /\ view' = (IF f.ok THEN Forget(HeapVA(b.base, 0)) ELSE view) \cup HeapView(r.m, heapCur, n)
                 /\ UNCHANGED <<pml4, refCount, sstate, current, holders>>

-----------------------------------------------------------------------------
(* The state after VirtualMemoryManager::init (a PML4 for the kernel       *)
(* space, which is current, then map_kernel_regions: the kernel image and  *)
(* the VGA page) and BootHeapPages one-page kmalloc calls.                 *)

RECURSIVE BootHeap(_, _)
BootHeap(m, i) == IF i = BootHeapPages THEN m ELSE BootHeap(KmallocFrom(m, i, 0, 1).m, i + 1)

KernelPml4 == Min(Frames)

BootMem ==
    LET m0 == [pte |-> [f \in Frames |-> EmptyTable], free |-> Frames \ {KernelPml4},
               alloc |-> [s \in Spaces |-> 0], mapped |-> [s \in Spaces |-> 0],
               cur |-> KernelSpace,
               p4 |-> [s \in Spaces |-> IF s = KernelSpace THEN KernelPml4 ELSE None]]
        m1 == MapInternal(MapInternal(m0, KernelBase, KernelImageFrame).m, VGAPage, VGAFrame).m
    IN BootHeap(m1, 0)

Init ==
    /\ pte = BootMem.pte /\ pmmFree = BootMem.free
    /\ allocatedPages = BootMem.alloc /\ mappedPages = BootMem.mapped
    /\ pml4 = BootMem.p4
    /\ refCount = [s \in Spaces |-> IF s = KernelSpace THEN 1 ELSE 0]
    /\ sstate = [s \in Spaces |-> IF s = KernelSpace THEN "Live" ELSE "Unused"]
    /\ current = KernelSpace
    /\ heapCur = BootHeapPages
    /\ view = {<<KernelSpace, KernelBase, KernelImageFrame>>, <<KernelSpace, VGAPage, VGAFrame>>}
              \cup {<<KernelSpace, HeapPages[i], WalkFrom(BootMem, KernelPml4, HeapPages[i], 3)>>
                    : i \in 1 .. BootHeapPages}
    /\ blocks = {[base |-> i, n |-> 1] : i \in 0 .. BootHeapPages - 1}
    /\ freed = {}
    /\ holders = [s \in Spaces |-> 0]

Holder(s) == sstate[s] = "Live" /\ holders[s] > 0

Next ==
    \/ \E k \in UserVAs, p \in MMIOFrames : MapPage(k, p)
    \/ \E k \in UserVAs : k + 1 \in UserVAs /\ UnmapPages(k)
    \/ \E k \in UserVAs : UnmapPage(k)
    \/ \E k \in UserVAs, p \in MMIOFrames :
          k + 1 \in UserVAs /\ p + 1 \in MMIOFrames /\ MapPages(k, p)
    \/ HasFreshSpace /\ CreateAddressSpace
    \/ \E s \in Spaces : Holder(s) /\ DestroyAddressSpace(s)
    \/ \E s \in Spaces : (s = KernelSpace \/ Holder(s)) /\ refCount[s] < MaxRefs
                         /\ SwitchAddressSpace(s)
    \/ \E n \in Sizes : Kmalloc(n)
    \/ \E n \in Sizes, a \in DOMAIN AlignPages : KmallocAligned(n, a)
    \/ \E b \in blocks : Kfree(b)
    \/ \E b \in blocks, n \in Sizes : Krealloc(b, n)

Spec == Init /\ [][Next]_vars

-----------------------------------------------------------------------------
(* What the page tables hold.                                              *)

LiveSpaces == {s \in Spaces : sstate[s] = "Live"}

\* <<table, level>> for every table reachable from the PML4 t.
RECURSIVE TablesFrom(_, _)
TablesFrom(t, lvl) ==
    {<<t, lvl>>} \cup
      IF lvl = 0 THEN {}
      ELSE UNION {TablesFrom(pte[t][i], lvl - 1) : i \in {j \in Slots : pte[t][j] # None}}

LiveTables == UNION {TablesFrom(pml4[s], 3) : s \in LiveSpaces}
TableFrames == {x[1] : x \in LiveTables}
LeafSlots == {a \in {<<x[1], i>> : x \in {y \in LiveTables : y[2] = 0}, i \in Slots} :
                 pte[a[1]][a[2]] # None}
LeafFrames == {pte[a[1]][a[2]] : a \in LeafSlots}

Expected(s, k) ==
    LET o == IF KernelHalf(k) THEN KernelSpace ELSE s
        P == {x[3] : x \in {y \in view : y[1] = o /\ y[2] = k}}
    IN IF P = {} THEN None ELSE CHOOSE p \in P : TRUE

-----------------------------------------------------------------------------
(* Properties.                                                             *)

TypeOK ==
    /\ pte \in [Frames -> [Slots -> Entry]]
    /\ pmmFree \subseteq Frames
    /\ pml4 \in [Spaces -> Frames \cup {None}]
    /\ refCount \in [Spaces -> 0 .. MaxRefs]
    /\ allocatedPages \in [Spaces -> Int] /\ mappedPages \in [Spaces -> Int]
    /\ sstate \in [Spaces -> {"Unused", "Live", "Deleted"}]
    /\ current \in Spaces /\ heapCur \in 0 .. Len(HeapPages)
    /\ view \subseteq Spaces \X VAs \X (Frames \cup DevFrames)
    /\ holders \in [Spaces -> 0 .. 1]

\* Every PMM frame the live page tables use is allocated and has one use:
\* a table at one level, or the target of one leaf entry.  Broken if
\* unmap, free_table, kmalloc's rollback or destroy_address_space gives
\* back a frame a live table still holds.
FramesOwnedOnce ==
    /\ TableFrames \cap pmmFree = {}
    /\ \A x, y \in LiveTables : x[1] = y[1] => x[2] = y[2]
    /\ \A a \in LeafSlots : pte[a[1]][a[2]] \notin pmmFree \cup TableFrames
    /\ \A a, b \in LeafSlots : a # b /\ pte[a[1]][a[2]] \in Frames
                                => pte[a[1]][a[2]] # pte[b[1]][b[2]]

\* §8 and the Address Space invariant: in every live space, walking a page
\* gives the frame the last successful map of it gave (and nothing after
\* an unmap); an upper-half page resolves the same in every space, since
\* the kernel half is shared.
MappingsResolve ==
    \A s \in LiveSpaces, k \in VAs : WalkFrom(Mem, pml4[s], k, 3) = Expected(s, k)

\* current_space_ is never a deleted space: destroy_address_space only
\* frees a space when its reference count, which switch_address_space
\* raises, reaches zero.
CurrentSpaceLive == sstate[current] = "Live"

\* §4.B: a kmalloc that fails leaves no heap page mapped and no frame taken
\* but the page tables it created (its rollback frees every frame it mapped).
KmallocRollsBack ==
    [][\A n \in Sizes : (Kmalloc(n) /\ heapCur' = heapCur) =>
          /\ LeafFrames' = LeafFrames
          /\ pmmFree' = pmmFree \ (TableFrames' \ TableFrames)]_vars

\* §8: "emptied intermediate tables are freed within the same unmap call":
\* no live PDPT, PD or PT is without a present entry.
NoEmptyTable == \A x \in LiveTables : x[2] < 3 => ~IsEmpty(Mem, x[1])

\* §4.B: each table is counted once in allocated_pages and each mapping in
\* mapped_pages, so over the live spaces the counters equal the tables
\* (other than the PML4s) and the leaf entries.
CountersMatchTables ==
    /\ SumFunctionOnSet(allocatedPages, LiveSpaces)
         = Cardinality(TableFrames \ {pml4[s] : s \in LiveSpaces})
    /\ SumFunctionOnSet(mappedPages, LiveSpaces) = Cardinality(LeafSlots)

\* Address Space lifetime: a space whose holders have all destroyed it is
\* freed ("destroyed when the last reference drops").
NoLeakedSpace == \A s \in Spaces \ {KernelSpace} : sstate[s] = "Live" => holders[s] > 0

\* §4.B: kfree gives the allocation back: no page of a freed block stays
\* mapped.
FreedBlocksUnmapped ==
    \A b \in freed : \A j \in 0 .. b.n - 1 :
        WalkFrom(Mem, pml4[KernelSpace], HeapVA(b.base, j), 3) = None
=============================================================================
