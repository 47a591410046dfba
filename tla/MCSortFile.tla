---------------------------- MODULE MCSortFile ----------------------------
(* Instances of Lab6's model for TLC. *)
EXTENDS SortFileProperties

\* Records whose order in the file is none.
Long == <<13, 8, 21, 5, 2, 7, 24, 6, 9, 3, 16, 1, 15, 12, 4, 10>>
Longer == Long \o [i \in DOMAIN Long |-> 60 - Long[i]]

\* For parts of sixteen records: two whole ones, one and a quarter, a half.
ThreeFiles == {Longer, SubSeq(Longer, 1, 20), SubSeq(Long, 5, 12)}

\* Every order of four records.
AllOfFour == {s \in [1..4 -> 1..4] : Range(s) = 1..4}

\* One part of eight records, half a part of eight.
OneOfEight == {SubSeq(Long, 1, 8)}
HalfOfEight == {SubSeq(Long, 5, 8)}
=============================================================================
