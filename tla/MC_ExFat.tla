------------------------------ MODULE MC_ExFat ------------------------------
(***************************************************************************)
(* Model values for ExFat.  Two names, one of a single character (never   *)
(* misread) and one longer (misread when an entry follows its set).  A    *)
(* read past the directory buffer finds an empty name and cluster 0, and   *)
(* a first name character that may or may not be 0.                       *)
(***************************************************************************)
EXTENDS ExFat

CONSTANTS nA, nB, h1, h2

MCNames == {nA, nB}
MCShort == {nA}
MCHandles == {h1, h2}
MCOneHandle == {h1}
MCOverreads == {[name |-> NoName, first |-> 0, clean |-> c] : c \in BOOLEAN}
=============================================================================
