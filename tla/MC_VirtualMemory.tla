-------------------------- MODULE MC_VirtualMemory --------------------------
(***************************************************************************)
(* Instances of the VMM for TLC.  Page numbers: the VGA page 0 and the     *)
(* user pages 2 and 3 lie in PML4 slot 0, the heap window 16, 17, 18 in    *)
(* slot 2 (KERNEL_HEAP_BASE, entry 256) and crosses a PT boundary, the     *)
(* kernel image 24 in slot 3 (KERNEL_BASE, entry 511).                     *)
(***************************************************************************)
EXTENDS VirtualMemory

CONSTANTS K, U1, U2

MCSpaces == {K, U1, U2}
MCHeap == <<16, 17, 18>>
\* Enough frames for the boot state (11) and a few more tables and pages.
MCFrames == 1 .. 14
MCSpacesSmall == {K, U1}
=============================================================================
