--------------------------- MODULE FrameAllocator ---------------------------
(***************************************************************************)
(* What the physical memory manager promises its callers                   *)
(* (PhysicalMemoryManager's public interface, src/unnamed/part_007), with  *)
(* the bitmaps, counters and scans left out.  There is a set of free       *)
(* frames.  An allocation of n frames at alignment al takes n consecutive  *)
(* free frames whose first address is al-aligned and reports that address, *)
(* or reports failure and takes nothing.  A free of n frames at an address *)
(* gives exactly those frames back, or is refused and gives nothing back.  *)
(* result is the last call: its operation, count, alignment and the        *)
(* address returned (None for a refused call).                             *)
(***************************************************************************)
EXTENDS Naturals

CONSTANTS
    Frames,     \* the addresses of every frame the allocator manages
    Step,       \* PAGE_SIZE: the distance between consecutive frames
    Counts,     \* the frame counts callers ask for
    Alignments, \* the alignments (in address units) callers ask for
    None        \* the address reported by a refused call

VARIABLES free, result

\* The n frames from address a on.
Run(a, n) == {a + k * Step : k \in 0 .. n - 1}

Init ==
    /\ free \subseteq Frames
    /\ result = [op |-> "none"]

\* allocate_page, allocate_pages(n), allocate_aligned(n, al).
Allocate(n, al) ==
    \E a \in free :
        /\ a % al = 0
        /\ Run(a, n) \subseteq free
        /\ free' = free \ Run(a, n)
        /\ result' = [op |-> "alloc", n |-> n, a |-> al, addr |-> a]

\* An allocation that fails (OutOfMemory) takes nothing.
Refuse(n, al) ==
    /\ result' = [op |-> "alloc", n |-> n, a |-> al, addr |-> None]
    /\ UNCHANGED free

\* free_page(a) (n = 1) and free_pages(a, n): the named frames are free
\* afterwards, and no other frame changes.
Release(a, n, al) ==
    /\ Run(a, n) \subseteq Frames
    /\ free' = free \cup Run(a, n)
    /\ result' = [op |-> "free", n |-> n, a |-> al, addr |-> a]

\* A free of an unaligned, unknown or already free address changes nothing.
Dismiss(n, al) ==
    /\ result' = [op |-> "free", n |-> n, a |-> al, addr |-> None]
    /\ UNCHANGED free

Next ==
    \E n \in Counts, al \in Alignments :
        \/ Allocate(n, al) \/ Refuse(n, al)
        \/ \E a \in Frames : Release(a, n, al)
        \/ Dismiss(n, al)

Spec == Init /\ [][Next]_<<free, result>>

=============================================================================
