----------------------------- MODULE SortIndex -----------------------------
(***************************************************************************)
(* Lab6/sortIndex.c: the threads sort the blocks of a part of the index    *)
(* file, each the block it claims in block_map, and then merge them in     *)
(* pairs.  One pthread barrier is used at five places of the program, and  *)
(* it counts arrivals, whatever place they come from.  The process is      *)
(* started by lab6.c (module SortFile), again for every part of the file.  *)
(***************************************************************************)
EXTENDS Integers, Sequences, FiniteSets, SequencesExt

CONSTANTS
  T,         \* threads + 1: thread 0 is main
  B,         \* blocks, a power of two (lab6.c): no odd divisor but 1; more than threads
  R          \* records of a block

ASSUME SortIndexAssumption ==
  /\ T \in Nat \ {0} /\ R \in Nat \ {0}
  /\ B \in Nat /\ B >= T /\ \A d \in 2..B : B % d = 0 => d % 2 = 0

N == B * R
Threads == 0..T - 1
Blocks == 0..B - 1
NoBlock == -1
Zero == 0                  \* what lies beyond the end of an array or of the file

VARIABLES
  input,                   \* the part of the file when the process was started
  block_map,               \* the blocks that are claimed
  data, size,              \* block_info: the records of a block, and their number
  pc, block_index,         \* per thread: where it is, the block it sorts
  num_blocks, id, merged,  \* per thread, in merge_blocks
  waiting,                 \* the threads that wait at the barrier
  overlap,                 \* history: blocks that two threads sorted at once
  mapped,                  \* the records of the part in the mapping, which is the file
  copied                   \* how many records main has written back

sortVars == <<block_map, block_index, overlap>>
mergeVars == <<num_blocks, id, merged>>
infoVars == <<data, size>>
mapVars == <<mapped, copied>>
sortIndexVars == <<input, infoVars, pc, sortVars, mergeVars, waiting, mapVars>>

\* "none": no process has been started; "killed": the process was ended by a signal.
PCs == {"none", "enter", "claim", "sort", "next", "sorted", "pairs", "inner", "writeData",
        "writeSize", "outer", "final", "done", "exited", "killed"}

\* Block b of the part as it lies in the mapped file.
BlockOf(part, b) == SubSeq(part, b * R + 1, (b + 1) * R)

NotStarted ==
  /\ input = [i \in 1..N |-> Zero] /\ mapped = input /\ copied = 0
  /\ data = [b \in Blocks |-> BlockOf(input, b)] /\ size = [b \in Blocks |-> R]
  /\ pc = [t \in Threads |-> "none"]
  /\ block_map = {} /\ overlap = {} /\ waiting = {}
  /\ block_index = [t \in Threads |-> NoBlock]
  /\ num_blocks = [t \in Threads |-> B] /\ id = [t \in Threads |-> t]
  /\ merged = [t \in Threads |-> <<>>]

\* main maps the part, fills block_info and block_map and creates the threads.
Start(part) ==
  /\ input' = part /\ mapped' = part /\ copied' = 0
  /\ data' = [b \in Blocks |-> BlockOf(part, b)] /\ size' = [b \in Blocks |-> R]
  /\ pc' = [t \in Threads |-> "enter"]
  /\ block_map' = {} /\ overlap' = {} /\ waiting' = {}
  /\ block_index' = [t \in Threads |-> NoBlock]
  /\ num_blocks' = [t \in Threads |-> B] /\ id' = [t \in Threads |-> t]
  /\ merged' = [t \in Threads |-> <<>>]

\* Once main has returned there is no other thread either.
At(t, label) == pc[t] = label /\ t \notin waiting /\ pc[0] # "exited"
Goto(t, label) == pc' = [pc EXCEPT ![t] = label]

\* pthread_barrier_wait: the last of T threads to arrive lets all of them go on.
Arrive(t) == waiting' = IF Cardinality(waiting) = T - 1 THEN {} ELSE waiting \cup {t}
Pass == UNCHANGED waiting

-----------------------------------------------------------------------------
(* sort_blocks_with_map. *)

Enter(t) ==
  /\ At(t, "enter")
  /\ Arrive(t) /\ Goto(t, "claim")
  /\ UNCHANGED <<input, infoVars, sortVars, mergeVars, mapVars>>

StartSort(t, b) ==
  /\ block_map' = block_map \cup {b}
  /\ block_index' = [block_index EXCEPT ![t] = b]
  /\ overlap' = IF \E u \in Threads \ {t} : pc[u] = "sort" /\ block_index[u] = b
                THEN overlap \cup {b} ELSE overlap
  /\ Goto(t, "sort")

\* Faulty variant: a thread whose block is taken waits for it to become free.
ClaimWhenFree(t) ==
  /\ At(t, "claim") /\ t \notin block_map
  /\ StartSort(t, t)
  /\ UNCHANGED <<input, infoVars, mergeVars, waiting, mapVars>>

\* The block of the thread's own number, claimed whether it is free or not.
Claim(t) ==
  /\ At(t, "claim")
  /\ StartSort(t, t)
  /\ UNCHANGED <<input, infoVars, mergeVars, waiting, mapVars>>

Sorted(s) == \A i \in 1..Len(s) - 1 : s[i] <= s[i + 1]
Orders(s) == {[i \in DOMAIN s |-> s[p[i]]] : p \in Bijection(DOMAIN s, DOMAIN s)}

\* The mapping with the records s in the place of block b.
Place(b, s) ==
  [i \in 1..N |-> IF i \in b * R + 1..(b + 1) * R THEN s[i - b * R] ELSE mapped[i]]

\* qsort, in the mapping.  Two of them at once on one block may leave any of its records
\* anywhere.
Sort(t) ==
  /\ At(t, "sort")
  /\ LET b == block_index[t]
     IN  \E s \in IF b \in overlap THEN [1..R -> Range(data[b])]
                ELSE {o \in Orders(data[b]) : Sorted(o)} :
           data' = [data EXCEPT ![b] = s] /\ mapped' = Place(b, s)
  /\ Goto(t, "next")
  /\ UNCHANGED <<input, size, sortVars, mergeVars, waiting, copied>>

NextBlock(t) ==
  /\ At(t, "next")
  /\ LET free == Blocks \ block_map
     IN  IF free = {} THEN Goto(t, "sorted") /\ UNCHANGED sortVars
         ELSE StartSort(t, CHOOSE b \in free : \A c \in free : b <= c)
  /\ UNCHANGED <<input, infoVars, mergeVars, waiting, mapVars>>

\* Faulty variant: a thread that finds no free block goes on without the barrier.
EndOfSortAlone(t) ==
  /\ At(t, "sorted")
  /\ Pass /\ Goto(t, "pairs")
  /\ UNCHANGED <<input, infoVars, sortVars, mergeVars, mapVars>>

EndOfSort(t) ==
  /\ At(t, "sorted")
  /\ Arrive(t) /\ Goto(t, "pairs")
  /\ UNCHANGED <<input, infoVars, sortVars, mergeVars, mapVars>>

-----------------------------------------------------------------------------
(* merge_blocks. *)

\* The two-finger merge of two arrays into a new one as long as both together; of two
\* equal records the second one's first.
Merge(r, s) ==
  LET m[q \in (0..Len(r)) \X (0..Len(s))] ==
        LET i == q[1]
            j == q[2]
        IN  IF i = Len(r) THEN SubSeq(s, j + 1, Len(s))
            ELSE IF j = Len(s) THEN SubSeq(r, i + 1, Len(r))
            ELSE IF r[i + 1] < s[j + 1] THEN <<r[i + 1]>> \o m[<<i + 1, j>>]
            ELSE <<s[j + 1]>> \o m[<<i, j + 1>>]
      whole == m[<<0, 0>>]
  IN  [k \in 1..Len(r) + Len(s) |-> whole[k]]

\* size elements from data on, also when the two do not belong together.
Records(b) == [i \in 1..size[b] |-> IF i \in DOMAIN data[b] THEN data[b][i] ELSE Zero]

\* The next pair of this thread in this round.
MergePair(t) ==
  /\ At(t, "pairs") /\ num_blocks[t] > 1 /\ id[t] < num_blocks[t] \div 2
  /\ merged' = [merged EXCEPT ![t] = Merge(Records(2 * id[t]), Records(2 * id[t] + 1))]
  /\ Goto(t, "inner")
  /\ UNCHANGED <<input, infoVars, sortVars, num_blocks, id, waiting, mapVars>>

NextRound(t) ==
  /\ At(t, "pairs") /\ num_blocks[t] > 1 /\ id[t] >= num_blocks[t] \div 2
  /\ num_blocks' = [num_blocks EXCEPT ![t] = num_blocks[t] \div 2]
  /\ id' = [id EXCEPT ![t] = t]
  /\ Goto(t, "outer")
  /\ UNCHANGED <<input, infoVars, sortVars, merged, waiting, mapVars>>

LastRound(t) ==
  /\ At(t, "pairs") /\ num_blocks[t] <= 1
  /\ Goto(t, "final")
  /\ UNCHANGED <<input, infoVars, sortVars, mergeVars, waiting, mapVars>>

\* Faulty variant: nobody waits between the merge and the write.
InnerAlone(t) ==
  /\ At(t, "inner")
  /\ Pass /\ Goto(t, "writeData")
  /\ UNCHANGED <<input, infoVars, sortVars, mergeVars, mapVars>>

\* Before block_info is written, unless the merged block is the whole part.
Inner(t) ==
  /\ At(t, "inner")
  /\ IF Len(merged[t]) # N THEN Arrive(t) ELSE Pass
  /\ Goto(t, "writeData")
  /\ UNCHANGED <<input, infoVars, sortVars, mergeVars, mapVars>>

WriteData(t) ==
  /\ At(t, "writeData")
  /\ data' = [data EXCEPT ![id[t]] = merged[t]]
  /\ Goto(t, "writeSize")
  /\ UNCHANGED <<input, size, sortVars, mergeVars, waiting, mapVars>>

WriteSize(t) ==
  /\ At(t, "writeSize")
  /\ size' = [size EXCEPT ![id[t]] = Len(merged[t])]
  /\ id' = [id EXCEPT ![t] = id[t] + T]
  /\ merged' = [merged EXCEPT ![t] = <<>>]
  /\ Goto(t, "pairs")
  /\ UNCHANGED <<input, data, sortVars, num_blocks, waiting, mapVars>>

\* At the end of a round, unless block 0 is the whole part by now.
Outer(t) ==
  /\ At(t, "outer")
  /\ IF size[0] # N THEN Arrive(t) ELSE Pass
  /\ Goto(t, "pairs")
  /\ UNCHANGED <<input, infoVars, sortVars, mergeVars, mapVars>>

Final(t) ==
  /\ At(t, "final")
  /\ Arrive(t) /\ Goto(t, "done")
  /\ UNCHANGED <<input, infoVars, sortVars, mergeVars, mapVars>>

\* The blocks whose records lie in the mapping; the merged ones are longer.
InMapping == {b \in Blocks : Len(data[b]) = R}

\* main copies block 0 over the part, record by record.
CopyRecord ==
  /\ At(0, "done") /\ copied < N
  /\ copied' = copied + 1
  /\ mapped' = [mapped EXCEPT ![copied'] =
                   IF copied' \in DOMAIN data[0] THEN data[0][copied'] ELSE Zero]
  /\ data' = [b \in Blocks |-> IF b \in InMapping THEN BlockOf(mapped', b) ELSE data[b]]
  /\ UNCHANGED <<input, size, pc, sortVars, mergeVars, waiting>>

\* main returns; it joins nobody.
Exit ==
  /\ At(0, "done") /\ copied = N
  /\ Goto(0, "exited")
  /\ UNCHANGED <<input, infoVars, sortVars, mergeVars, waiting, mapVars>>

-----------------------------------------------------------------------------
Step(t) ==
  \/ Enter(t) \/ Claim(t) \/ Sort(t) \/ NextBlock(t) \/ EndOfSort(t)
  \/ MergePair(t) \/ NextRound(t) \/ LastRound(t) \/ Inner(t) \/ WriteData(t)
  \/ WriteSize(t) \/ Outer(t) \/ Final(t)

\* The blocks somebody is sorting; main has written back some records, not all.
InSort == {block_index[t] : t \in {u \in Threads : pc[u] = "sort"}}
InCopy == copied \in 1..N - 1

\* The process is killed: every thread of it ends where it is.  A qsort that has not come
\* to its end may have left any of its block's records anywhere in the block.
Killed ==
  /\ \E from \in [InSort -> [1..R -> 1..R]] :
       mapped' = [i \in 1..N |-> LET b == (i - 1) \div R
                                 IN  IF b \in InSort THEN BlockOf(mapped, b)[from[b][i - b * R]]
                                     ELSE mapped[i]]
  /\ pc' = [t \in Threads |-> "killed"]
  /\ UNCHANGED <<input, infoVars, sortVars, mergeVars, waiting, copied>>

=============================================================================
