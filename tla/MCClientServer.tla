--------------------------- MODULE MCClientServer ---------------------------
(***************************************************************************)
(* An instance of ClientServer for TLC.                                    *)
(***************************************************************************)
EXTENDS ClientServer, TLC

CONSTANTS c1, c2, c3

\* Contents of up to two chunks, and two of three, where a chunk comes again.
ShortFiles ==
  UNION {[1..n -> {"t1", "t2", "nul", "ff"}] : n \in 0..2}
    \cup {<<"t1", "t2", "t1">>, <<"t1", "t1", "t2">>}
=============================================================================
