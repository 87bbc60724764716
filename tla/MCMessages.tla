----------------------------- MODULE MCMessages -----------------------------
(***************************************************************************)
(* Instances of Messages for TLC.  The characters that matter are the      *)
(* delimiters and any other one; the part sizes that matter are those with *)
(* and without a remainder, and the size that fills payload[].             *)
(***************************************************************************)
EXTENDS Messages

CONSTANTS ShortLen, LongLen  \* bounds on the length of texts

Over(chars, lengths) == UNION {[1..l -> chars] : l \in lengths}

AllTexts == Over(Alphabet, 0..ShortLen)

\* All short texts, and long ones, whose parts fill payload[], of commas with
\* either spaces or brackets.
DelimiterTexts ==
  AllTexts \cup Over({",", " "}, (ShortLen + 1)..LongLen)
           \cup Over({",", "]"}, (ShortLen + 1)..LongLen)
=============================================================================
