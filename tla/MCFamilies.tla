----------------------------- MODULE MCFamilies -----------------------------
(***************************************************************************)
(* An instance of Families for TLC.                                        *)
(***************************************************************************)
EXTENDS Families, TLC

CONSTANTS p1, p2, p3

\* Two files of two chunks, and one that does not open.
FileChunks == p1 :> 2 @@ p2 :> 2 @@ p3 :> 0
Rounds == {-1, 0, 1, 3}
=============================================================================
