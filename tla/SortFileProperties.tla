------------------------ MODULE SortFileProperties ------------------------
(***************************************************************************)
(* What the threads of sortIndex owe each other, and the two programs the  *)
(* user of lab6.                                                           *)
(***************************************************************************)
EXTENDS SortFile

TypeOK ==
  /\ input \in Seq(Nat) /\ mapped \in Seq(Nat) /\ copied \in 0..N
  /\ block_map \subseteq Blocks
  /\ data \in [Blocks -> Seq(Nat)] /\ size \in [Blocks -> 0..N]
  /\ pc \in [Threads -> PCs]
  /\ block_index \in [Threads -> Blocks \cup {NoBlock}]
  /\ num_blocks \in [Threads -> 1..B] /\ id \in [Threads -> 0..B + T]
  /\ merged \in [Threads -> Seq(Nat)]
  /\ waiting \subseteq Threads /\ overlap \subseteq Blocks
  /\ file \in Seq(Nat) /\ written \in Seq(Nat) /\ count \in Nat
  /\ lab6 \in {"generate", "sort", "wait", "done", "failed"}
  /\ spoilt \subseteq 0..Len(written)

Merging == {"pairs", "inner", "writeData", "writeSize", "outer", "final", "done", "exited"}

(* The barrier between the phases: nobody merges while a block is still    *)
(* being sorted or has not been sorted at all.                             *)
SortedBeforeMerged ==
  (\E t \in Threads : pc[t] \in Merging /\ t \notin waiting) =>
    /\ block_map = Blocks
    /\ \A t \in Threads : pc[t] # "sort"

\* The fields of block_info, with the records they point to, that a thread may be reading
\* or writing.  main's copy writes the records that still lie in the mapping.
Entry(b) == {<<"data", b>>, <<"size", b>>}

Reads(t) ==
  IF t \in waiting THEN {} ELSE
    CASE pc[t] = "pairs" /\ id[t] < num_blocks[t] \div 2 -> Entry(2 * id[t]) \cup Entry(2 * id[t] + 1)
      [] pc[t] = "outer" -> {<<"size", 0>>}
      [] pc[t] = "done" /\ t = 0 -> {<<"data", 0>>}
      [] OTHER -> {}

Writes(t) ==
  IF t \in waiting THEN {} ELSE
    CASE pc[t] = "writeData" -> {<<"data", id[t]>>}
      [] pc[t] = "writeSize" -> {<<"size", id[t]>>}
      [] pc[t] = "done" /\ t = 0 -> {<<"data", b>> : b \in InMapping \ {0}}
      [] OTHER -> {}

(* The barriers of merge_blocks: a thread writes a field of block_info     *)
(* only while nobody else merges from it, copies it or writes it.  The one *)
(* read that may happen at the same time is that of block_info[0].size at  *)
(* the end of a round (line 159).                                          *)
NoRaceOnBlockInfo ==
  \A t, u \in Threads : t # u =>
    Writes(t) \cap (Reads(u) \cup Writes(u))
      \subseteq IF pc[u] = "outer" THEN {<<"size", 0>>} ELSE {}

(* That read decides who arrives at the barrier.  Before the last round it *)
(* never finds the whole part, whoever is writing: everybody arrives.      *)
NobodyIsLetPast ==
  \A t \in Threads : pc[t] = "outer" /\ num_blocks[t] > 1 => size[0] # N

(***************************************************************************)
(* The threads keep out of each other's way, in every part of the file:    *)
(* the phases do not overlap although threads arrive at the barrier from   *)
(* different places of the program, no entry of block_info is written      *)
(* under somebody who merges from it or copies it, and the size that is    *)
(* read while it is written lets nobody past the barrier of a round.       *)
(***************************************************************************)
SortInvariant == SortedBeforeMerged /\ NoRaceOnBlockInfo /\ NobodyIsLetPast

-----------------------------------------------------------------------------
\* The parts that lie in the file as a whole, by their offsets.
WholeParts == {k \in 0..Len(file) : k % N = 0 /\ k + N <= Len(file)}
PartAt(f, k) == SubSeq(f, k + 1, k + N)
Keeps(k) == Range(PartAt(file, k)) = Range(PartAt(written, k))

\* A qsort or main's copy may be half way through the part.
HalfWritten(k) == k = count /\ (InSort # {} \/ InCopy)

(***************************************************************************)
(* "File %s sorted." (lab6.c): a part of the file holds the records that   *)
(* genFile wrote there unless it is just being written, also when a later  *)
(* part fails or sortIndex is killed between two writes; it holds them in  *)
(* order once the driver is past it, and nobody has touched it before.     *)
(* Left out are the parts that two threads sorted at once, whose fork      *)
(* failed or that a signal caught half written, and a last part that is    *)
(* not whole.                                                              *)
(***************************************************************************)
FileIsSortedByParts ==
  \A k \in WholeParts \ spoilt :
    /\ ~HalfWritten(k) => Keeps(k)
    /\ k < count => Sorted(PartAt(file, k))
    /\ k > count => PartAt(file, k) = PartAt(written, k)

(***************************************************************************)
(* The records and counters of lab6 and sortIndex keep their types, and    *)
(* the file is sorted by parts.                                            *)
(***************************************************************************)
SortedFileInvariant == TypeOK /\ FileIsSortedByParts

(***************************************************************************)
(* lab6 comes to its end, although the threads do not meet at the same     *)
(* places of the barrier and some of them may be left there.               *)
(***************************************************************************)
Terminates == <>(lab6 \in {"done", "failed"})

-----------------------------------------------------------------------------
(***************************************************************************)
(* "File %s sorted." for every part the driver is past.                    *)
(***************************************************************************)
EveryPartIsSorted == \A k \in WholeParts : k < count => Sorted(PartAt(file, k))

(***************************************************************************)
(* Sorting loses no record of the file.                                    *)
(***************************************************************************)
RecordsSurvive == spoilt = {} => Range(file) = Range(written)

=============================================================================
