--------------------------- MODULE MCSortMessages ---------------------------
(***************************************************************************)
(* Instance of SortMessages for TLC: rounds of no, one and two files, with *)
(* all the 8! orders in which the parts of two files can arrive.  Two PIDs *)
(* mix in every way within and across the two groups.                      *)
(***************************************************************************)
EXTENDS SortMessages
=============================================================================
