--------------------------- MODULE PhysicalMemory ---------------------------
(***************************************************************************)
(* The physical memory manager (PMM) of nanokoton:                         *)
(*   src/unnamed/part_004  (PhysicalMemoryManager, physical.cc)            *)
(*   src/unnamed/part_007  (physical.hpp)                                  *)
(*                                                                         *)
(* Addresses are byte addresses scaled down: one page is PageSize units,   *)
(* so page alignment (align_up / align_down) keeps its meaning.  The       *)
(* boot memory map is a constant; init() is folded over it to give the     *)
(* initial bitmaps.  After boot the regions are immutable and only the     *)
(* per-region bitmaps and the counters change, each public operation       *)
(* being one atomic action (every one runs under the PMM spinlock).        *)
(*                                                                         *)
(* The callers of the PMM are abstracted into the ghost variable  held :   *)
(* the frames handed out by an allocation and not yet given back.          *)
(***************************************************************************)
EXTENDS Integers, Sequences, FiniteSets, SequencesExt

CONSTANTS
    PageSize,       \* PAGE_SIZE
    MaxRegions,     \* MAX_MEMORY_REGIONS
    MemoryMap,      \* boot memory map: a sequence of [base, length, type]
    PageCounts,     \* counts passed to allocate_pages / free_pages
    AlignedReqs,    \* <<count, alignment>> pairs passed to allocate_aligned
    StrayAddrs,     \* addresses outside every region that callers may free
    DoubleFreeOps   \* operations that callers apply to frames they no longer hold

ASSUME PageSize \in Nat \ {0} /\ MaxRegions \in Nat
ASSUME PageCounts \subseteq Nat \ {0} /\ AlignedReqs \subseteq (Nat \ {0}) \X Nat
ASSUME DoubleFreeOps \subseteq {"page", "pages"}

None == -1

AlignUp(x, a) == ((x + a - 1) \div a) * a
AlignDown(x, a) == (x \div a) * a

-----------------------------------------------------------------------------
(* Boot: PhysicalMemoryManager::init folded over the memory map.           *)

\* init_region: a Free entry becomes a region with a clear bitmap.
InitRegion(s, base, size) ==
    IF \/ Len(s.regs) >= MaxRegions
       \/ size < PageSize
       \/ AlignDown(size, PageSize) = 0
    THEN s
    ELSE LET sz == AlignDown(size, PageSize)
         IN [regs |-> Append(s.regs, [base |-> AlignUp(base, PageSize), size |-> sz]),
             bits |-> Append(s.bits, [p \in 0 .. sz \div PageSize - 1 |-> FALSE])]

\* The pages of region r that mark_region(base, size) sets: from the page
\* of base up to base + size, clipped to the region's total_pages.
MarkedPages(r, base, size) ==
    LET start == (base - r.base) \div PageSize
        end   == IF start + size \div PageSize > r.size \div PageSize
                 THEN r.size \div PageSize ELSE start + size \div PageSize
    IN start .. end - 1

\* mark_region(base, size, true): a non-Free entry marks the pages of the
\* regions created so far that it covers, starting at the region holding
\* its (rounded-up) base.
MarkRegion(s, base0, size0) ==
    LET base == AlignUp(base0, PageSize)
        size == AlignDown(size0, PageSize)
        Covered(r) == MarkedPages(r, base, size)
        Hit(r) == base >= r.base /\ base < r.base + r.size
    IN IF size = 0 THEN s
       ELSE [s EXCEPT !.bits = [i \in DOMAIN s.bits |->
                IF Hit(s.regs[i])
                THEN [p \in DOMAIN s.bits[i] |-> s.bits[i][p] \/ p \in Covered(s.regs[i])]
                ELSE s.bits[i]]]

BootEntry(s, e) ==
    IF e.type = "Free" THEN InitRegion(s, e.base, e.length)
    ELSE MarkRegion(s, e.base, e.length)

Boot == FoldLeft(BootEntry, [regs |-> <<>>, bits |-> <<>>], MemoryMap)

Regions == Boot.regs
R == DOMAIN Regions
TotalPages(i) == Regions[i].size \div PageSize
Pages(i) == 0 .. TotalPages(i) - 1
FrameAddr(i, p) == Regions[i].base + p * PageSize
AllFrames == UNION {{FrameAddr(i, p) : p \in Pages(i)} : i \in R}
InRegion(a, i) == a >= Regions[i].base /\ a < Regions[i].base + Regions[i].size

\* merge_free_regions is left out: the configured maps never yield two
\* adjacent regions (see README).
ASSUME \A i, j \in R : Regions[i].base + Regions[i].size # Regions[j].base

-----------------------------------------------------------------------------
VARIABLES
    bitmap,      \* regions_[i].bitmap, bit = TRUE means allocated
    regionFree,  \* regions_[i].free_pages
    freePages,   \* free_pages_
    usedPages,   \* used_pages_
    held,        \* ghost: frames handed out and not yet given back
    last         \* ghost: the last operation and its result

vars == <<bitmap, regionFree, freePages, usedPages, held, last>>

ClearPages(i) == {p \in Pages(i) : ~bitmap[i][p]}
ClearFrames == UNION {{FrameAddr(i, p) : p \in ClearPages(i)} : i \in R}
AllClear(i, s, n) == s + n <= TotalPages(i) /\ \A k \in 0 .. n - 1 : ~bitmap[i][s + k]
\* Faulty variant of RunFrames: one frame past the run.
RunFramesLong(i, s, n) == {FrameAddr(i, s + k) : k \in 0 .. n}
RunFrames(i, s, n) == {FrameAddr(i, s + k) : k \in 0 .. n - 1}

Init ==
    /\ bitmap = [i \in R |-> Boot.bits[i]]
    /\ regionFree = [i \in R |-> Cardinality(ClearPages(i))]
    /\ freePages = SumFunction(regionFree)
    /\ usedPages = SumFunction([i \in R |-> TotalPages(i)]) - freePages
    /\ held = {}
    /\ last = [op |-> "none"]

-----------------------------------------------------------------------------
(* The scans of allocate_pages and allocate_aligned, loop for loop.        *)

\* allocate_pages: the run counter restarts at every allocated page.
RECURSIVE ScanRun(_, _, _, _, _)
ScanRun(i, n, page, cc, start) ==
    IF page >= TotalPages(i) THEN None
    ELSE IF bitmap[i][page] THEN ScanRun(i, n, page + 1, 0, start)
    ELSE LET s == IF cc = 0 THEN page ELSE start
         IN IF cc + 1 = n THEN s ELSE ScanRun(i, n, page + 1, cc + 1, s)

\* allocate_aligned: only pages at an a-aligned address count; any other
\* page restarts the run, and a full run is re-checked before it is taken.
RECURSIVE ScanAligned(_, _, _, _, _, _)
ScanAligned(i, n, a, page, cc, start) ==
    IF page >= TotalPages(i) THEN None
    ELSE IF FrameAddr(i, page) % a # 0 \/ bitmap[i][page]
         THEN ScanAligned(i, n, a, page + 1, 0, start)
    ELSE LET s == IF cc = 0 THEN page ELSE start
         IN IF cc + 1 = n /\ AllClear(i, s, n) THEN s
            ELSE ScanAligned(i, n, a, page + 1, cc + 1, s)

\* alignment = max(alignment, PAGE_SIZE), rounded up to a page multiple.
NormalAlignment(a) ==
    LET m == IF a > PageSize THEN a ELSE PageSize
    IN IF m % PageSize # 0 THEN AlignUp(m, PageSize) ELSE m

-----------------------------------------------------------------------------
(* Operations.                                                             *)

\* Faulty variant of Take: the region's free_pages drops by one page only.
TakeOneCount(i, s, n, call) ==
    /\ bitmap' = [bitmap EXCEPT ![i] = [p \in Pages(i) |-> @[p] \/ p \in s .. s + n - 1]]
    /\ regionFree' = [regionFree EXCEPT ![i] = @ - 1]
    /\ freePages' = freePages - n
    /\ usedPages' = usedPages + n
    /\ held' = held \cup RunFrames(i, s, n)
    /\ last' = [call EXCEPT !.addr = FrameAddr(i, s)]

\* Mark pages s..s+n-1 of region i allocated and hand them out.
Take(i, s, n, call) ==
    /\ bitmap' = [bitmap EXCEPT ![i] = [p \in Pages(i) |-> @[p] \/ p \in s .. s + n - 1]]
    /\ regionFree' = [regionFree EXCEPT ![i] = @ - n]
    /\ freePages' = freePages - n
    /\ usedPages' = usedPages + n
    /\ held' = held \cup RunFrames(i, s, n)
    /\ last' = [call EXCEPT !.addr = FrameAddr(i, s)]

Fail(call) ==
    /\ last' = [call EXCEPT !.addr = None]
    /\ UNCHANGED <<bitmap, regionFree, freePages, usedPages, held>>

\* Faulty variant of FindFreePageInRegion: the scan starts at page 1.
FindFreePageFromOne(i) ==
    IF ClearPages(i) \ {0} = {} THEN None ELSE Min(ClearPages(i) \ {0})

\* find_free_page_in_region: the first clear bit of region i.
FindFreePageInRegion(i) ==
    IF ClearPages(i) = {} THEN None ELSE Min(ClearPages(i))

\* allocate_page: first clear bit of the first region that has one; the
\* region's free_pages counter is not consulted.
AllocatePage ==
    LET call == [op |-> "alloc", n |-> 1, a |-> PageSize, addr |-> None]
        cand == {i \in R : FindFreePageInRegion(i) # None}
    IN IF cand = {} THEN Fail(call)
       ELSE LET i == Min(cand) IN Take(i, FindFreePageInRegion(i), 1, call)

\* allocate_pages(count): first region whose free_pages counter admits the
\* request and whose scan finds a run.
AllocatePages(n) ==
    LET call == [op |-> "alloc", n |-> n, a |-> PageSize, addr |-> None]
        cand == {i \in R : regionFree[i] >= n /\ ScanRun(i, n, 0, 0, 0) # None}
    IN IF cand = {} THEN Fail(call)
       ELSE LET i == Min(cand) IN Take(i, ScanRun(i, n, 0, 0, 0), n, call)

AllocateAligned(n, a0) ==
    LET a == NormalAlignment(a0)
        call == [op |-> "alloc", n |-> n, a |-> a, addr |-> None]
        cand == {i \in R : regionFree[i] >= n /\ ScanAligned(i, n, a, 0, 0, 0) # None}
    IN IF cand = {} THEN Fail(call)
       ELSE LET i == Min(cand) IN Take(i, ScanAligned(i, n, a, 0, 0, 0), n, call)

\* Faulty variant of FreeablePage: the double-free test is missing.
FreeablePageNoBit(i, p) == p < TotalPages(i)

\* free_page frees page p of region i only if the index is in range and
\* the bit is set; otherwise it logs and returns.
FreeablePage(i, p) == p < TotalPages(i) /\ bitmap[i][p]

\* free_page(page): an unaligned or unknown address and a double free
\* (bit already clear) are logged and leave the state unchanged.
FreePage(addr) ==
    LET call == [op |-> "free", n |-> 1, a |-> PageSize, addr |-> addr]
        hit  == {i \in R : InRegion(addr, i)}
    IN IF addr % PageSize # 0 \/ hit = {} THEN Fail(call)
       ELSE LET i == Min(hit)
                p == (addr - Regions[i].base) \div PageSize
            IN IF ~FreeablePage(i, p) THEN Fail(call)
               ELSE /\ bitmap' = [bitmap EXCEPT ![i][p] = FALSE]
                    /\ regionFree' = [regionFree EXCEPT ![i] = @ + 1]
                    /\ freePages' = freePages + 1
                    /\ usedPages' = usedPages - 1
                    /\ held' = held \ {addr}
                    /\ last' = call

\* Faulty variant of FreedRange: the loop runs while p <= count.
FreedRangeLong(s, n) == s .. s + n

\* The pages free_pages' loop visits: start_page + p for p < count.
FreedRange(s, n) == s .. s + n - 1

\* free_pages(base, count): clears every allocated page of the range, logs
\* the ones already clear, then adds count to the counters.
FreePages(base, n) ==
    LET call == [op |-> "free", n |-> n, a |-> PageSize, addr |-> base]
        hit  == {i \in R : InRegion(base, i)}
    IN IF base % PageSize # 0 \/ hit = {} THEN Fail(call)
       ELSE LET i == Min(hit)
                s == (base - Regions[i].base) \div PageSize
            IN IF s + n > TotalPages(i) THEN Fail(call)
               ELSE /\ bitmap' = [bitmap EXCEPT ![i] = [p \in Pages(i) |->
                                     @[p] /\ p \notin FreedRange(s, n)]]
                    /\ regionFree' = [regionFree EXCEPT ![i] = @ + n]
                    /\ freePages' = freePages + n
                    /\ usedPages' = usedPages - n
                    /\ held' = held \ RunFrames(i, s, n)
                    /\ last' = call

-----------------------------------------------------------------------------
(* The callers.  A frame may be freed by its holder; with "page" (resp.    *)
(* "pages") in DoubleFreeOps, free_page (resp. free_pages) is also called  *)
(* on frames that are already free.                                        *)

FreePageArgs ==
    held \cup StrayAddrs \cup (IF "page" \in DoubleFreeOps THEN ClearFrames ELSE {})

FreePagesArgs ==
    {<<b, n>> \in (held \cup StrayAddrs) \X PageCounts :
        \/ "pages" \in DoubleFreeOps
        \/ \A k \in 0 .. n - 1 : LET f == b + k * PageSize
                                 IN f \in AllFrames => f \in held}

Next ==
    \/ AllocatePage
    \/ \E n \in PageCounts : AllocatePages(n)
    \/ \E r \in AlignedReqs : AllocateAligned(r[1], r[2])
    \/ \E a \in FreePageArgs : FreePage(a)
    \/ \E x \in FreePagesArgs : FreePages(x[1], x[2])

Spec == Init /\ [][Next]_vars

-----------------------------------------------------------------------------
(* Properties.                                                             *)

TypeOK ==
    /\ bitmap \in [R -> UNION {[Pages(i) -> BOOLEAN] : i \in R}]
    /\ regionFree \in [R -> Nat] /\ \A i \in R : regionFree[i] <= TotalPages(i)
    /\ freePages \in Nat /\ usedPages \in Nat
    /\ held \subseteq AllFrames
    /\ last.op \in {"none", "alloc", "free"}

\* The counters that allocate_pages trusts (regions_[i].free_pages) and the
\* global ones (free_pages_, used_pages_) agree with the bitmaps after any
\* sequence of allocations and frees: §8 "used + free = total", and no
\* usize counter ever wraps below zero.
CountersMatchBitmap ==
    /\ \A i \in R : regionFree[i] = Cardinality(ClearPages(i))
    /\ freePages = Cardinality(ClearFrames)
    /\ usedPages = Cardinality(AllFrames) - freePages
    /\ usedPages >= 0

\* A frame that a caller still holds is marked allocated, so no allocation
\* can hand it out a second time (is_allocated XOR is_free, §8).
HeldFramesAllocated ==
    \A i \in R : \A p \in Pages(i) : FrameAddr(i, p) \in held => bitmap[i][p]

\* Reference for an allocation of n pages at alignment a: the lowest
\* a-aligned start of n clear pages in the first region (in configuration
\* order) that has one (§4.A: first fit, aligned start).
FirstFitRef(n, a) ==
    LET fits == UNION {{<<i, s>> : s \in {t \in Pages(i) :
                          FrameAddr(i, t) % a = 0 /\ AllClear(i, t, n)}} : i \in R}
    IN IF fits = {} THEN None
       ELSE LET i == Min({f[1] : f \in fits})
            IN FrameAddr(i, Min({f[2] : f \in {g \in fits : g[1] = i}}))

\* Every allocation (allocate_page, allocate_pages, allocate_aligned) returns
\* exactly the first-fit run, and fails only when there is none.
AllocIsFirstFit ==
    [][last'.op = "alloc" => last'.addr = FirstFitRef(last'.n, last'.a)]_vars

\* The PMM implements FrameAllocator: with the clear bits of the bitmaps
\* as the free frames and the last call as the result, every step of
\* allocate_page, allocate_pages, allocate_aligned, free_page and
\* free_pages takes exactly the reported run of free frames, gives back
\* exactly the frames named, or changes no bit; so the bitmaps and what
\* the calls report never disagree.
Abstract == INSTANCE FrameAllocator
    WITH free <- ClearFrames, result <- last, Frames <- AllFrames, Step <- PageSize,
         Counts <- {1} \cup PageCounts \cup {r[1] : r \in AlignedReqs},
         Alignments <- {PageSize} \cup {NormalAlignment(r[2]) : r \in AlignedReqs}
ImplementsFrameAllocator == Abstract!Spec

=============================================================================
