-------------------------- MODULE MC_PhysicalMemory --------------------------
(***************************************************************************)
(* Instances of the PMM for TLC.  PAGE_SIZE is 2 address units, so that    *)
(* alignment of map entries and of allocate_aligned requests matters.      *)
(***************************************************************************)
EXTENDS PhysicalMemory

Entry(b, l, t) == [base |-> b, length |-> l, type |-> t]

\* Two usable regions of 4 and 3 pages; an aligned Reserved entry inside
\* the first Free one (listed after it, so mark_region sees the region);
\* a third Free entry beyond MAX_MEMORY_REGIONS and a BadMemory entry
\* outside every region.
MCMapAligned ==
    << Entry(0, 8, "Free"), Entry(2, 2, "Reserved"), Entry(12, 7, "Free"),
       Entry(24, 4, "Free"), Entry(30, 2, "BadMemory") >>

\* allocate_aligned requests: one page at twice the page size, runs at
\* page alignment, and an alignment below the page size.
MCAlignedReqs == {<<1, 4>>, <<2, 2>>, <<1, 1>>}

=============================================================================
