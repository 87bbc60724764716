------------------------------ MODULE MCStore ------------------------------
(***************************************************************************)
(* Instances of Store for TLC.  The inputs are a file, one whose name is   *)
(* the output name of the first, one that has the output name of the first *)
(* without being it, and one without an extension.                         *)
(***************************************************************************)
EXTENDS Store

a == <<"sendme_a", ".txt">>
aOut == <<"sendme_a", "_out", ".txt">>
aBak == <<"sendme_a", ".txt", ".bak">>
noTxt == <<"sendme_b">>
b == <<"sendme_b", ".txt">>

Mixed == {a, aOut, aBak, noTxt}
OneFile == {a}
TwoFiles == {a, b}
NoExtension == {noTxt}

\* The outputs of a are found again twice, those of the others once or never.
MixedRoom == [g \in Mixed |-> IF g = a THEN 2 ELSE IF g = aOut THEN 1 ELSE 0]
NoRoom == [g \in OneFile |-> 0]
OneRoom == [g \in OneFile |-> 1]
TwoRoom == [g \in TwoFiles |-> 1]
NoExtensionRoom == [g \in NoExtension |-> 1]
=============================================================================
