--------------------------- MODULE SortFileProofs ---------------------------
(***************************************************************************)
(* Proofs about the threads of sortIndex and about the file.  The barrier  *)
(* opens only when every thread has arrived, so between two openings all   *)
(* threads that still have pairs to merge are within one row of T pairs.   *)
(* What they merge are therefore whole blocks in order, and block 0 holds  *)
(* all records of the part, sorted, before main writes the first of them   *)
(* over the mapping, whose blocks have only been put in order until then.  *)
(***************************************************************************)
EXTENDS SortFileProperties, FiniteSetTheorems, WellFoundedInduction, TLAPS

Unmerged ==
  /\ \A t \in Threads : id[t] = t /\ num_blocks[t] = B
  /\ \A b \in Blocks : size[b] = R

\* In these stages W are the threads that wait at the barrier.
Beginning(W) ==
  /\ Unmerged
  /\ \A t \in Threads : IF t \in W THEN pc[t] = "claim" ELSE pc[t] = "enter"

Sorting(W) ==
  /\ Unmerged
  /\ \A t \in Threads : IF t \in W THEN pc[t] = "pairs"
                        ELSE pc[t] \in {"claim", "sort", "next", "sorted"}
  /\ (\E t \in Threads : pc[t] \in {"sorted", "pairs"}) => block_map = Blocks

\* A round merges p pairs of blocks of L records; from m on they are not merged yet.
Row(p, m, L) ==
  /\ p \in Nat /\ p >= 2 /\ L \in Nat /\ 2 * (p * L) = N
  /\ B % (2 * p) = 0 /\ (p % T = 0 \/ p < T)
  /\ m \in Nat /\ m % T = 0 /\ m < p + T

Writing(t, W) == t \notin W /\ pc[t] \in {"writeData", "writeSize"}

\* A thread with pairs to merge writes the last one, merges the next one and arrives
\* at the inner barrier, or arrives at the outer one if there is none.
HasPairs(t, W, p, m, L) ==
  \/ /\ Writing(t, W) /\ m > 0
     /\ id[t] = t + m - T /\ id[t] < p /\ num_blocks[t] = 2 * p /\ Len(merged[t]) = 2 * L
  \/ /\ t \notin W /\ pc[t] = "pairs"
     /\ id[t] = t + m /\ num_blocks[t] = 2 * p
  \/ /\ t \notin W /\ pc[t] = "inner" /\ m < p
     /\ id[t] = t + m /\ num_blocks[t] = 2 * p /\ Len(merged[t]) = 2 * L
  \/ /\ t \notin W /\ pc[t] = "outer" /\ m >= p
     /\ id[t] = t /\ num_blocks[t] = p
  \/ /\ t \in W /\ pc[t] = "writeData" /\ m < p
     /\ id[t] = t + m /\ num_blocks[t] = 2 * p /\ Len(merged[t]) = 2 * L
  \/ /\ t \in W /\ pc[t] = "pairs" /\ m >= p
     /\ id[t] = t /\ num_blocks[t] = p

\* A thread that has no pair in this round and will have none in the later ones.
Dropped(t) ==
  /\ pc[t] \in {"pairs", "outer", "final", "done"}
  /\ id[t] = t /\ num_blocks[t] \in 1..B /\ t >= num_blocks[t] \div 2

SizesFit(W, p, m, L) ==
  /\ \A i \in Blocks : i < 2 * p /\ i >= m => size[i] = L
  /\ \A i \in Blocks : i < p /\ i < m =>
       \/ size[i] = 2 * L
       \/ size[i] = L /\ \E t \in Threads : t < p /\ Writing(t, W) /\ id[t] = i

\* It is in the round of p pairs, or ahead of it.
Ahead(t, W, p) ==
  \/ pc[t] = "pairs" /\ num_blocks[t] <= (IF t \in W THEN p ELSE 2 * p)
  \/ pc[t] = "outer" /\ t \notin W /\ num_blocks[t] <= p
  \/ pc[t] \in {"final", "done"} /\ num_blocks[t] <= 1

InRow(W, p, m, L) ==
  /\ Row(p, m, L)
  /\ \A t \in Threads : IF t < p THEN HasPairs(t, W, p, m, L) ELSE Dropped(t)
  /\ \A t \in Threads : ~(t < p) => Ahead(t, W, p)
  /\ SizesFit(W, p, m, L)

InRounds(W) == block_map = Blocks /\ \E p, m, L \in Nat : InRow(W, p, m, L)

\* From the last round on only main has something to merge: blocks 0 and 1, and then
\* block 0 is the whole part.
LastPair ==
  /\ 1 \in Blocks /\ num_blocks[0] = 2
  /\ \/ pc[0] = "pairs" /\ id[0] = 0 /\ size[0] \in Nat /\ size[0] = size[1] /\ 2 * size[0] = N
     \/ pc[0] \in {"inner", "writeData", "writeSize"} /\ id[0] = 0 /\ Len(merged[0]) = N
     \/ pc[0] = "pairs" /\ id[0] = T /\ size[0] = N

Whole ==
  /\ num_blocks[0] = 1 /\ id[0] = 0 /\ size[0] = N
  /\ pc[0] \in {"outer", "pairs", "final", "done", "exited"}

OnlyMain ==
  /\ block_map = Blocks /\ (LastPair \/ Whole)
  /\ \A t \in Threads \ {0} : Dropped(t) /\ Ahead(t, {}, 1)

Stage(W) == Beginning(W) \/ Sorting(W) \/ InRounds(W) \/ OnlyMain

NotRunning == \A t \in Threads : pc[t] \in {"none", "killed"}

Shape ==
  /\ block_map \subseteq Blocks /\ waiting \subseteq Threads
  /\ pc \in [Threads -> PCs]
  /\ num_blocks \in [Threads -> Nat] /\ id \in [Threads -> Nat]
  /\ size = [b \in Blocks |-> size[b]] /\ merged = [t \in Threads |-> merged[t]]

SortStrengthened == Shape /\ (NotRunning \/ Stage(waiting))

-----------------------------------------------------------------------------
\* The l records of a part that belong to block b.
Seg(part, b, l) == {part[x] : x \in b * l + 1..(b + 1) * l}

MergeTypes ==
  /\ num_blocks \in [Threads -> 1..B] /\ id \in [Threads -> 0..B + T]
  /\ size \in [Blocks -> 0..N]

DataTypes ==
  /\ input \in [1..N -> Nat] /\ mapped \in [1..N -> Nat] /\ copied \in 0..N
  /\ data \in [Blocks -> Seq(Nat)] /\ merged \in [Threads -> Seq(Nat)]
  /\ block_index \in [Threads -> Blocks \cup {NoBlock}] /\ overlap \subseteq Blocks
  /\ \A t \in Threads : pc[t] = "sort" => block_index[t] \in Blocks

\* The size of a block is written after its records.
LengthsFit ==
  /\ \A b \in Blocks :
       Len(data[b]) = size[b] \/ \E t \in Threads : pc[t] = "writeSize" /\ id[t] = b
  /\ \A t \in Threads : pc[t] = "writeSize" => data[id[t]] = merged[t]

\* The records of a block are the ones that lay at its place in the part, and in order
\* when it has been sorted.
RecordsFit ==
  /\ \A b \in Blocks : Range(data[b]) = Seg(input, b, Len(data[b]))
  /\ \A b \in block_map :
       Sorted(data[b]) \/ \E t \in Threads : pc[t] = "sort" /\ block_index[t] = b
  /\ \A t \in Threads : pc[t] \in {"inner", "writeData", "writeSize"} =>
       Sorted(merged[t]) /\ Range(merged[t]) = Seg(input, id[t], Len(merged[t]))

DataGood == LengthsFit /\ (overlap = {} => RecordsFit)

\* Until main writes back, the mapping holds the records of every block at its place.
MapKeeps == overlap = {} => \A b \in Blocks : Range(BlockOf(mapped, b)) = Seg(input, b, R)

\* A single block is never merged: its records stay in the mapping.
OneBlock == B = 1 => mapped = data[0]

Before == copied = 0 /\ pc[0] # "exited" /\ DataGood /\ MapKeeps

\* Block 0 is the whole part, and main has written it back up to here.
BackUpTo(k) ==
  /\ pc[0] \in {"done", "exited"} /\ 0 \notin waiting /\ Len(data[0]) = N
  /\ overlap = {} => Sorted(data[0]) /\ Range(data[0]) = Range(input)
  /\ \A i \in 1..k : mapped[i] = data[0][i]

Copying == copied > 0 /\ BackUpTo(copied) /\ (pc[0] = "exited" => copied = N)

DataFits ==
  MergeTypes /\ DataTypes /\ (NotRunning \/ (OneBlock /\ (Before \/ Copying)))

FileFits ==
  /\ file \in Seq(Nat) /\ written \in Seq(Nat) /\ Len(file) = Len(written)
  /\ count \in Nat /\ count % N = 0
  /\ lab6 \in {"generate", "sort", "wait", "done", "failed"}
  /\ spoilt \subseteq 0..Len(written)
  /\ lab6 = "generate" => count = 0 /\ spoilt = {}
  /\ lab6 \in {"sort", "wait"} => count = 0 \/ count < Len(file)

\* The process has got what genFile wrote, and what it has mapped is the file.
PartFits ==
  /\ lab6 = "sort" /\ count \in WholeParts \ spoilt => PartAt(file, count) = PartAt(written, count)
  /\ lab6 = "wait" =>
       /\ overlap # {} => count \in spoilt
       /\ count \in WholeParts => PartAt(file, count) = mapped
       /\ count \in WholeParts \ spoilt => Range(input) = Range(PartAt(written, count))

FileInvariant == FileFits /\ PartFits /\ FileIsSortedByParts

-----------------------------------------------------------------------------
LEMMA Constants ==
  /\ T \in Nat /\ T >= 1 /\ B \in Nat /\ B >= T /\ R \in Nat /\ R >= 1
  /\ N \in Nat /\ N = B * R /\ N >= 1 /\ 0 \in Threads
  /\ Threads \subseteq Nat /\ Blocks \subseteq Nat /\ Threads \subseteq Blocks
<1>1. T \in Nat /\ T >= 1 /\ B \in Nat /\ B >= T /\ R \in Nat /\ R >= 1
  BY SortIndexAssumption
<1>2. N \in Nat /\ N >= 1
  <2>1. \A x, y \in Nat : x >= 1 /\ y >= 1 => x * y \in Nat /\ x * y >= 1
    BY SMT
  <2> QED BY <1>1, <2>1 DEF N
<1> QED BY <1>1, <1>2 DEF N, Threads, Blocks

\* A divisor of the number of blocks that is not 1 is even, and so is what it counts.
LEMMA Halves ==
  ASSUME NEW n \in Nat, n >= 2, B % n = 0, n % T = 0 \/ n < T
  PROVE  LET p == n \div 2 IN
         /\ p \in Nat /\ n = 2 * p /\ B % p = 0 /\ (p % T = 0 \/ p < T) /\ n <= B
<1> DEFINE p == n \div 2
<1>1. n \in 2..B
  <2>1. \A x, y \in Nat : y >= 1 /\ y % x = 0 /\ x >= 1 => x <= y
    BY SMT
  <2> QED BY <2>1, Constants
<1>2. n % 2 = 0
  BY <1>1, SortIndexAssumption
<1>3. p \in Nat /\ n = 2 * p /\ p >= 1
  BY <1>2
<1>4. PICK c \in Nat : B = n * c
  <2>1. B = n * (B \div n) /\ B \div n \in Nat
    BY Constants, SMT
  <2> QED BY <2>1
<1>5. B % p = 0
  <2>1. B = p * (2 * c)
    BY <1>3, <1>4
  <2>2. \A x, y, z \in Nat : x >= 1 /\ y = x * z => y % x = 0
    BY SMT
  <2> QED BY <2>1, <2>2, <1>3, Constants
<1>6. p % T = 0 \/ p < T
  <2>1. CASE n < T
    BY <2>1, <1>3, Constants
  <2>2. CASE n % T = 0
    <3>1. PICK q \in Nat : n = T * q
      <4>1. n = T * (n \div T) /\ n \div T \in Nat
        BY <2>2, Constants, SMT
      <4> QED BY <4>1
    <3>2. CASE q = 1
      BY <3>1, <3>2, <1>3, Constants
    <3>3. CASE q >= 2
      <4>1. B = q * (T * c)
        BY <1>4, <3>1, Constants
      <4>2. B % q = 0 /\ q \in 2..B
        <5>1. \A x, y, z \in Nat : x >= 1 /\ y >= 1 /\ y = x * z => y % x = 0 /\ x <= y
          BY SMT
        <5> QED BY <5>1, <4>1, <3>3, Constants
      <4>3. q % 2 = 0
        BY <4>2, SortIndexAssumption
      <4>4. PICK r \in Nat : q = 2 * r
        BY <4>3
      <4>5. p = T * r
        <5>1. 2 * p = 2 * (T * r)
          BY <1>3, <3>1, <4>4, Constants
        <5> QED BY <5>1, <1>3, Constants
      <4>6. \A x, y, z \in Nat : x >= 1 /\ y = x * z => y % x = 0
        BY SMT
      <4> QED BY <4>5, <4>6, <1>3, Constants
    <3>4. q # 0
      BY <3>1, Constants
    <3> QED BY <3>2, <3>3, <3>4
  <2> QED BY <2>1, <2>2
<1> QED BY <1>1, <1>3, <1>5, <1>6

LEMMA RowFacts ==
  ASSUME NEW p, NEW m, NEW L, Row(p, m, L)
  PROVE  /\ p \in Nat /\ p >= 2 /\ m \in Nat /\ L \in Nat /\ 2 * (p * L) = N
         /\ 2 * p <= B /\ L < N /\ 2 * L < N
         /\ m = 0 \/ m >= T
         /\ m + T \in Nat /\ (m + T) % T = 0
         /\ \A t \in Threads : t < p /\ m < p => t + m < p
<1>1. p \in Nat /\ p >= 2 /\ m \in Nat /\ L \in Nat /\ 2 * (p * L) = N
      /\ (p % T = 0 \/ p < T) /\ B % (2 * p) = 0 /\ m % T = 0
  BY DEF Row
<1>2. 2 * p <= B
  <2>1. \A x, y \in Nat : y >= 1 /\ y % x = 0 /\ x >= 1 => x <= y
    BY SMT
  <2> QED BY <2>1, <1>1, Constants
<1>3. L >= 1 /\ 2 * L < N /\ L < N
  <2>1. \A x, y \in Nat : x >= 2 /\ x * y >= 1 => y >= 1 /\ x * y >= 2 * y
    BY SMT
  <2>2. p * L \in Nat /\ p * L >= 1
    <3>1. p * L \in Nat
      BY <1>1
    <3> QED BY <3>1, <1>1, Constants
  <2>3. L >= 1 /\ p * L >= 2 * L
    BY <2>1, <2>2, <1>1
  <2> QED BY <2>2, <2>3, <1>1
<1>4. PICK k \in Nat : m = T * k
  <2>1. m = T * (m \div T) /\ m \div T \in Nat
    BY <1>1, Constants, SMT
  <2> QED BY <2>1
<1>5. m = 0 \/ m >= T
  <2>1. CASE k = 0
    BY <2>1, <1>4, Constants
  <2>2. CASE k >= 1
    <3>1. \A x, y \in Nat : y >= 1 => x * y >= x
      BY SMT
    <3> QED BY <3>1, <2>2, <1>4, Constants
  <2> QED BY <2>1, <2>2
<1>6. m + T \in Nat /\ (m + T) % T = 0
  <2>1. m + T = T * (k + 1)
    BY <1>4, Constants
  <2>2. \A x, y, z \in Nat : x >= 1 /\ y = x * z => y % x = 0
    BY SMT
  <2>3. m + T \in Nat /\ k + 1 \in Nat /\ T \in Nat /\ T >= 1
    BY <1>1, Constants
  <2> QED BY ONLY <2>1, <2>2, <2>3
<1>7. ASSUME NEW t \in Threads, t < p, m < p
      PROVE  t + m < p
  <2>0. t \in Nat /\ t < T
    BY Constants DEF Threads
  <2>1. CASE p < T
    BY <2>1, <1>5, <1>7, <1>1, Constants
  <2>2. CASE p % T = 0
    <3>1. PICK q \in Nat : p = T * q
      <4>1. p = T * (p \div T) /\ p \div T \in Nat
        BY <2>2, <1>1, Constants, SMT
      <4> QED BY <4>1
    <3>2. k < q
      <4>1. \A x, y, z \in Nat : y >= z => x * y >= x * z
        BY SMT
      <4>2. CASE k >= q
        BY <4>1, <4>2, <3>1, <1>4, <1>7, <1>1, Constants
      <4> QED BY <4>2
    <3>3. T * q >= T * k + T
      <4>1. \A x, y, z \in Nat : y >= z + 1 => x * y >= x * (z + 1)
        BY SMT
      <4>2. T * (k + 1) = T * k + T
        BY Constants
      <4>3. T * q >= T * (k + 1)
        BY <4>1, <3>2, Constants
      <4> QED BY <4>2, <4>3, Constants
    <3> QED BY ONLY <3>1, <3>3, <1>4, <1>1, <2>0, Constants
  <2> QED BY <2>1, <2>2, <1>1
<1> QED BY <1>1, <1>2, <1>3, <1>5, <1>6, <1>7

-----------------------------------------------------------------------------
\* The merge of two arrays, from the table its definition fills.

\* What is left to merge after i elements of r and j of s, with f for the rest of the rest.
Rest(r, s, f, i, j) ==
        IF i = Len(r) THEN SubSeq(s, j + 1, Len(s))
        ELSE IF j = Len(s) THEN SubSeq(r, i + 1, Len(r))
        ELSE IF r[i + 1] < s[j + 1] THEN <<r[i + 1]>> \o f[<<i + 1, j>>]
        ELSE <<s[j + 1]>> \o f[<<i, j + 1>>]

Cells(r, s) == (0..Len(r)) \X (0..Len(s))
IsTable(f, r, s) == f = [q \in Cells(r, s) |-> Rest(r, s, f, q[1], q[2])]
Table(r, s) == CHOOSE f : IsTable(f, r, s)

\* The cells from which at most d elements are left to merge.
CellsUpTo(r, s, d) == {q \in Cells(r, s) : Len(r) - q[1] + Len(s) - q[2] <= d}
Fills(f, r, s, d) == f = [q \in CellsUpTo(r, s, d) |-> Rest(r, s, f, q[1], q[2])]

LEMMA LeastNumber ==
  ASSUME NEW S \in SUBSET Nat, S # {}
  PROVE  \E d \in S : \A c \in S : d <= c
<1>1. PICK d \in S : \A c \in S : <<c, d>> \notin OpToRel(<, Nat)
  BY NatLessThanWellFounded, WFMin
<1>2. ASSUME NEW c \in S
      PROVE  d <= c
  <2>1. <<c, d>> \in Nat \X Nat /\ <<c, d>>[1] = c /\ <<c, d>>[2] = d
    BY <1>1, <1>2
  <2>2. <<c, d>> \notin {ss \in Nat \X Nat : ss[1] < ss[2]}
    BY <1>1 DEF OpToRel
  <2>3. ~(c < d) /\ d \in Nat /\ c \in Nat
    BY <1>1, <2>1, <2>2
  <2> QED BY <2>3
<1> QED BY <1>1, <1>2

LEMMA MergeByTable ==
  ASSUME NEW r, NEW s
  PROVE Merge(r, s) = [k \in 1..Len(r) + Len(s) |-> Table(r, s)[<<0, 0>>][k]]
BY DEF Merge, Table, IsTable, Rest, Cells

Agree(f, g, r, s, d) ==
  \A x \in 0..Len(r), y \in 0..Len(s) :
    Len(r) - x + Len(s) - y <= d => g[<<x, y>>] = f[<<x, y>>]

LEMMA SameRest ==
  ASSUME NEW r \in Seq(Nat), NEW s \in Seq(Nat), NEW d \in Nat, NEW f, NEW g,
         Agree(f, g, r, s, d),
         NEW i \in 0..Len(r), NEW j \in 0..Len(s), Len(r) - i + Len(s) - j <= d + 1
  PROVE  Rest(r, s, f, i, j) = Rest(r, s, g, i, j)
<1>0. Len(r) \in Nat /\ Len(s) \in Nat
  OBVIOUS
<1>1. CASE i = Len(r) \/ j = Len(s)
  BY <1>1 DEF Rest
<1>2. CASE i # Len(r) /\ j # Len(s)
  <2>1. i + 1 \in 0..Len(r) /\ j + 1 \in 0..Len(s)
    BY <1>0, <1>2
  <2>2. Len(r) - (i + 1) + Len(s) - j <= d /\ Len(r) - i + Len(s) - (j + 1) <= d
    BY <1>0
  <2>3. g[<<i + 1, j>>] = f[<<i + 1, j>>] /\ g[<<i, j + 1>>] = f[<<i, j + 1>>]
    BY <2>1, <2>2 DEF Agree
  <2> QED BY <2>3 DEF Rest
<1> QED BY <1>1, <1>2

LEMMA TableGrows ==
  ASSUME NEW r \in Seq(Nat), NEW s \in Seq(Nat), NEW d \in Nat, NEW f, Fills(f, r, s, d)
  PROVE  \E g : Fills(g, r, s, d + 1)
<1>1. PICK g : g = [q \in CellsUpTo(r, s, d + 1) |-> Rest(r, s, f, q[1], q[2])]
  OBVIOUS
<1>2. Len(r) \in Nat /\ Len(s) \in Nat
  OBVIOUS
<1>3. ASSUME NEW x \in 0..Len(r), NEW y \in 0..Len(s), Len(r) - x + Len(s) - y <= d
      PROVE  g[<<x, y>>] = f[<<x, y>>]
  <2>1. <<x, y>> \in CellsUpTo(r, s, d) /\ <<x, y>> \in CellsUpTo(r, s, d + 1)
    BY <1>2, <1>3 DEF CellsUpTo, Cells
  <2> QED BY <1>1, <2>1 DEF Fills
<1>4. ASSUME NEW q \in CellsUpTo(r, s, d + 1)
      PROVE  Rest(r, s, f, q[1], q[2]) = Rest(r, s, g, q[1], q[2])
  <2>1. q[1] \in 0..Len(r) /\ q[2] \in 0..Len(s) /\ Len(r) - q[1] + Len(s) - q[2] <= d + 1
    BY DEF CellsUpTo, Cells
  <2>2. Agree(f, g, r, s, d)
    BY <1>3 DEF Agree
  <2>3. ASSUME NEW i \in 0..Len(r), NEW j \in 0..Len(s), Len(r) - i + Len(s) - j <= d + 1
        PROVE  Rest(r, s, f, i, j) = Rest(r, s, g, i, j)
    BY <2>2, <2>3, SameRest
  <2> QED BY <2>1, <2>3
<1>5. g = [q \in CellsUpTo(r, s, d + 1) |-> Rest(r, s, g, q[1], q[2])]
  BY <1>1, <1>4
<1> QED BY <1>5 DEF Fills

LEMMA TableExists ==
  ASSUME NEW r \in Seq(Nat), NEW s \in Seq(Nat)
  PROVE  \E f : IsTable(f, r, s)
<1> DEFINE Bad == {d \in Nat : ~\E f : Fills(f, r, s, d)}
<1>0. Len(r) \in Nat /\ Len(s) \in Nat
  OBVIOUS
<1>1. 0 \notin Bad
  <2> DEFINE f == [q \in CellsUpTo(r, s, 0) |-> Rest(r, s, r, q[1], q[2])]
  <2>1. \A q \in CellsUpTo(r, s, 0) : q[1] = Len(r)
    BY <1>0 DEF CellsUpTo, Cells
  <2>2. \A q \in CellsUpTo(r, s, 0) : Rest(r, s, r, q[1], q[2]) = Rest(r, s, f, q[1], q[2])
    <3> HIDE DEF f
    <3> QED BY <2>1 DEF Rest
  <2>3. f = [q \in CellsUpTo(r, s, 0) |-> Rest(r, s, f, q[1], q[2])]
    <3>1. f = [q \in CellsUpTo(r, s, 0) |-> f[q]] /\ \A q \in CellsUpTo(r, s, 0) : f[q] = Rest(r, s, r, q[1], q[2])
      OBVIOUS
    <3> HIDE DEF f
    <3> QED BY <2>2, <3>1
  <2>4. \E g : Fills(g, r, s, 0)
    <3> HIDE DEF f
    <3> QED BY <2>3 DEF Fills
  <2> QED BY <2>4
<1>2. \A d \in Nat : d \notin Bad => d + 1 \notin Bad
  BY TableGrows
<1>3. Bad \in SUBSET Nat
  OBVIOUS
<1>4. \A d \in Nat : d \notin Bad => \E f : Fills(f, r, s, d)
  OBVIOUS
<1> HIDE DEF Bad
<1>5. Bad = {}
  <2> SUFFICES ASSUME Bad # {} PROVE FALSE
    OBVIOUS
  <2>1. PICK d \in Bad : \A c \in Bad : d <= c
    BY <1>3, LeastNumber
  <2>2. d \in Nat /\ d # 0 /\ d - 1 \in Nat /\ d - 1 + 1 = d
    BY <1>1, <1>3, <2>1
  <2>3. d - 1 \notin Bad
    BY <2>1, <2>2
  <2>4. d - 1 + 1 \notin Bad
    BY <1>2, <2>2, <2>3
  <2> QED BY <2>1, <2>2, <2>4
<1>6. PICK f : Fills(f, r, s, Len(r) + Len(s))
  <2>1. Len(r) + Len(s) \in Nat
    BY <1>0
  <2> QED BY <2>1, <1>4, <1>5
<1>7. CellsUpTo(r, s, Len(r) + Len(s)) = Cells(r, s)
  BY <1>0 DEF CellsUpTo, Cells
<1> QED BY <1>6, <1>7 DEF IsTable, Fills

\* The properties of what the table holds, cell by cell.
Left(f, i) == {f[x] : x \in i + 1..Len(f)}

Merges(w, r, s, i, j) ==
  /\ w \in Seq(Nat) /\ Len(w) = Len(r) - i + Len(s) - j
  /\ Range(w) = Left(r, i) \cup Left(s, j)
  /\ Sorted(r) /\ Sorted(s) => Sorted(w)

LEMMA SortedSeq ==
  ASSUME NEW r \in Seq(Nat), Sorted(r), NEW i \in 1..Len(r), NEW j \in i..Len(r)
  PROVE  r[i] <= r[j]
<1> DEFINE Bad == {k \in Nat : k >= i /\ k <= Len(r) /\ r[i] > r[k]}
<1>0. Len(r) \in Nat /\ i \in Nat /\ \A k \in 1..Len(r) : r[k] \in Nat
  OBVIOUS
<1>1. \A k \in Nat : k \in Bad => k > i /\ k - 1 \in Bad
  <2> SUFFICES ASSUME NEW k \in Nat, k \in Bad PROVE k > i /\ k - 1 \in Bad
    OBVIOUS
  <2>1. k > i /\ k - 1 \in 1..Len(r) - 1 /\ k - 1 \in Nat /\ k - 1 >= i
    BY <1>0
  <2>2. r[k - 1] <= r[k - 1 + 1]
    BY <2>1 DEF Sorted
  <2>3. r[k - 1] <= r[k] /\ r[k - 1] \in Nat /\ r[k] \in Nat /\ r[i] \in Nat /\ r[i] > r[k]
    BY <1>0, <2>1, <2>2
  <2>4. r[i] > r[k - 1]
    BY <2>3
  <2> QED BY <1>0, <2>1, <2>4
<1>2. Bad \in SUBSET Nat /\ (j \notin Bad => r[i] <= r[j])
  BY <1>0
<1>3. Bad = {}
  <2> HIDE DEF Bad
  <2> SUFFICES ASSUME Bad # {} PROVE FALSE
    OBVIOUS
  <2>1. PICK d \in Bad : \A c \in Bad : d <= c
    BY <1>2, LeastNumber
  <2>2. d \in Nat /\ d - 1 \in Bad
    BY <1>1, <1>2, <2>1
  <2>3. ~(d <= d - 1)
    BY <2>2
  <2> QED BY <2>1, <2>2, <2>3
<1> HIDE DEF Bad
<1> QED BY <1>2, <1>3

\* A record before a merge of what is left, none of which is smaller.
LEMMA Prefixed ==
  ASSUME NEW a \in Nat, NEW w \in Seq(Nat)
  PROVE  /\ <<a>> \o w \in Seq(Nat) /\ Len(<<a>> \o w) = Len(w) + 1
         /\ Range(<<a>> \o w) = {a} \cup Range(w)
         /\ Sorted(w) /\ (\A x \in Range(w) : a <= x) => Sorted(<<a>> \o w)
<1> DEFINE v == <<a>> \o w
<1>0. Len(w) \in Nat
  OBVIOUS
<1>1. v \in Seq(Nat) /\ Len(v) = Len(w) + 1
  OBVIOUS
<1>2. v[1] = a /\ \A k \in 1..Len(w) : v[k + 1] = w[k]
  BY <1>0
<1> HIDE DEF v
<1>3. Range(v) = {a} \cup Range(w)
  <2>1. \A k \in 1..Len(v) : k = 1 \/ (k - 1 \in 1..Len(w) /\ k - 1 + 1 = k)
    BY <1>0, <1>1
  <2>2. \A k \in 1..Len(w) : k + 1 \in 1..Len(v)
    BY <1>0, <1>1
  <2>3. DOMAIN v = 1..Len(v) /\ DOMAIN w = 1..Len(w) /\ 1 \in 1..Len(v)
    BY <1>0, <1>1
  <2>4. ASSUME NEW x \in Range(v)
        PROVE  x = a \/ x \in Range(w)
    <3>1. PICK k \in 1..Len(v) : x = v[k]
      BY <2>3 DEF Range
    <3>2. CASE k # 1
      <4>1. x = w[k - 1] /\ k - 1 \in DOMAIN w
        BY <1>2, <2>1, <2>3, <3>1, <3>2
      <4> QED BY <4>1 DEF Range
    <3> QED BY <1>2, <3>1, <3>2
  <2>5. a \in Range(v) /\ \A x \in Range(w) : x \in Range(v)
    BY <1>2, <2>2, <2>3 DEF Range
  <2> QED BY <2>4, <2>5
<1>4. ASSUME Sorted(w), \A x \in Range(w) : a <= x
      PROVE  Sorted(v)
  <2> SUFFICES ASSUME NEW k \in 1..Len(v) - 1
               PROVE  v[k] <= v[k + 1]
    BY DEF Sorted
  <2>1. CASE k = 1
    <3>1. 1 \in 1..Len(w) /\ 1 \in DOMAIN w
      BY <1>0, <1>1, <2>1
    <3>2. w[1] \in Range(w)
      BY <3>1 DEF Range
    <3> QED BY <1>2, <1>4, <2>1, <3>1, <3>2
  <2>2. CASE k # 1
    <3>1. k - 1 \in 1..Len(w) - 1 /\ k - 1 \in 1..Len(w) /\ k \in 1..Len(w) /\ k - 1 + 1 = k
      BY <1>0, <1>1, <2>2
    <3>2. w[k - 1] <= w[k - 1 + 1]
      BY <1>4, <3>1 DEF Sorted
    <3>3. v[k - 1 + 1] = w[k - 1] /\ v[k + 1] = w[k]
      BY <1>2, <3>1
    <3> QED BY <3>1, <3>2, <3>3
  <2> QED BY <2>1, <2>2
<1> QED BY <1>1, <1>3, <1>4 DEF v

LEMMA SuffixOf ==
  ASSUME NEW r \in Seq(Nat), NEW i \in 0..Len(r)
  PROVE  LET w == SubSeq(r, i + 1, Len(r)) IN
         /\ w \in Seq(Nat) /\ Len(w) = Len(r) - i /\ Range(w) = Left(r, i)
         /\ Sorted(r) => Sorted(w)
<1>1. PICK w : w = SubSeq(r, i + 1, Len(r))
  OBVIOUS
<1>0. PICK n \in Nat : n = Len(r) /\ i \in 0..n
  OBVIOUS
<1>2. w \in Seq(Nat) /\ Len(w) = n - i
  BY <1>0, <1>1
<1>3. \A k \in 1..n - i : w[k] = r[i + k]
  BY <1>0, <1>1
<1>4. Range(w) = Left(r, i)
  <2>1. \A k \in 1..n - i : i + k \in i + 1..n
    BY <1>0
  <2>2. \A k \in i + 1..n : k - i \in 1..n - i /\ i + (k - i) = k
    BY <1>0
  <2>3. DOMAIN w = 1..n - i
    BY <1>2
  <2>4. \A x \in Range(w) : x \in Left(r, i)
    BY <1>0, <1>3, <2>1, <2>3 DEF Range, Left
  <2>5. \A x \in Left(r, i) : x \in Range(w)
    <3>1. ASSUME NEW k \in i + 1..n
          PROVE  r[k] \in Range(w)
      <4>1. k - i \in DOMAIN w /\ w[k - i] = r[k]
        BY <1>3, <2>2, <2>3
      <4> QED BY <4>1 DEF Range
    <3> QED BY <1>0, <3>1 DEF Left
  <2> QED BY <2>4, <2>5
<1>5. ASSUME Sorted(r)
      PROVE  Sorted(w)
  <2> SUFFICES ASSUME NEW k \in 1..Len(w) - 1
               PROVE  w[k] <= w[k + 1]
    BY DEF Sorted
  <2>1. k \in 1..n - i /\ k + 1 \in 1..n - i /\ i + k \in 1..n - 1 /\ i + k + 1 = i + (k + 1)
    BY <1>0, <1>2
  <2>2. r[i + k] <= r[i + k + 1]
    BY <1>0, <1>5, <2>1 DEF Sorted
  <2>3. w[k] = r[i + k] /\ w[k + 1] = r[i + (k + 1)]
    BY <1>3, <2>1
  <2> QED BY <2>1, <2>2, <2>3
<1> QED BY <1>0, <1>1, <1>2, <1>4, <1>5

LEMMA FirstLeft ==
  ASSUME NEW r \in Seq(Nat), NEW i \in 0..Len(r), i # Len(r)
  PROVE  /\ i + 1 \in 0..Len(r) /\ r[i + 1] \in Nat
         /\ Left(r, i) = {r[i + 1]} \cup Left(r, i + 1)
         /\ Left(r, i) \subseteq Nat /\ Left(r, i + 1) \subseteq Nat
         /\ Sorted(r) => \A x \in Left(r, i) : r[i + 1] <= x
<1>0. PICK n \in Nat : n = Len(r) /\ i \in 0..n /\ i < n
  OBVIOUS
<1>1. i + 1 \in 1..n /\ i + 1 \in 0..n /\ \A k \in 1..n : r[k] \in Nat
  BY <1>0
<1>2. i + 1..n = {i + 1} \cup (i + 1 + 1..n) /\ i + 1..n \subseteq 1..n
  BY <1>0
<1>3. Left(r, i) = {r[i + 1]} \cup Left(r, i + 1)
  <2>1. \A x \in Left(r, i) : x = r[i + 1] \/ x \in Left(r, i + 1)
    BY <1>0, <1>2 DEF Left
  <2>2. r[i + 1] \in Left(r, i) /\ \A x \in Left(r, i + 1) : x \in Left(r, i)
    BY <1>0, <1>2 DEF Left
  <2> QED BY <2>1, <2>2
<1>4. Left(r, i) \subseteq Nat
  BY <1>0, <1>1, <1>2 DEF Left
<1>5. ASSUME Sorted(r), NEW x \in Left(r, i)
      PROVE  r[i + 1] <= x
  <2>1. PICK k \in i + 1..n : x = r[k]
    BY <1>0, <1>5 DEF Left
  <2>2. k \in i + 1..Len(r) /\ i + 1 \in 1..Len(r)
    BY <1>0, <1>1
  <2> QED BY <1>5, <2>1, <2>2, SortedSeq
<1> QED BY <1>0, <1>1, <1>3, <1>4, <1>5

LEMMA LastLeft ==
  ASSUME NEW r \in Seq(Nat)
  PROVE  Left(r, Len(r)) = {}
BY DEF Left

\* Merges, if the cells after it do.
LEMMA CellMerges ==
  ASSUME NEW r \in Seq(Nat), NEW s \in Seq(Nat), NEW f,
         NEW i \in 0..Len(r), NEW j \in 0..Len(s),
         i # Len(r) /\ j # Len(s) => /\ Merges(f[<<i + 1, j>>], r, s, i + 1, j)
                                     /\ Merges(f[<<i, j + 1>>], r, s, i, j + 1)
  PROVE  Merges(Rest(r, s, f, i, j), r, s, i, j)
<1>0. PICK n, o \in Nat : n = Len(r) /\ o = Len(s) /\ i \in 0..n /\ j \in 0..o
  OBVIOUS
<1>1. CASE i = Len(r)
  <2>1. Rest(r, s, f, i, j) = SubSeq(s, j + 1, Len(s))
    BY <1>1 DEF Rest
  <2> QED BY <1>0, <1>1, <2>1, SuffixOf, LastLeft DEF Merges
<1>2. CASE i # Len(r) /\ j = Len(s)
  <2>1. Rest(r, s, f, i, j) = SubSeq(r, i + 1, Len(r))
    BY <1>2 DEF Rest
  <2> QED BY <1>0, <1>2, <2>1, SuffixOf, LastLeft DEF Merges
<1>3. CASE i # Len(r) /\ j # Len(s)
  <2>0. /\ r[i + 1] \in Nat /\ s[j + 1] \in Nat
        /\ Left(r, i) = {r[i + 1]} \cup Left(r, i + 1) /\ Left(s, j) = {s[j + 1]} \cup Left(s, j + 1)
        /\ Left(r, i) \subseteq Nat /\ Left(s, j) \subseteq Nat
        /\ Sorted(r) => \A x \in Left(r, i) : r[i + 1] <= x
        /\ Sorted(s) => \A x \in Left(s, j) : s[j + 1] <= x
    BY <1>3, FirstLeft
  <2>1. CASE r[i + 1] < s[j + 1]
    <3>1. PICK w : w = f[<<i + 1, j>>]
      OBVIOUS
    <3>2. Rest(r, s, f, i, j) = <<r[i + 1]>> \o w
      BY <1>3, <2>1, <3>1 DEF Rest
    <3>3. /\ w \in Seq(Nat) /\ Len(w) = n - (i + 1) + o - j
          /\ Range(w) = Left(r, i + 1) \cup Left(s, j)
          /\ Sorted(r) /\ Sorted(s) => Sorted(w)
      BY <1>0, <1>3, <3>1 DEF Merges
    <3>4. Sorted(r) /\ Sorted(s) => \A x \in Range(w) : r[i + 1] <= x
      <4>1. \A a, b, x \in Nat : a < b /\ b <= x => a <= x
        OBVIOUS
      <4> QED BY <2>0, <2>1, <3>3, <4>1
    <3>5. Len(w) + 1 = n - i + o - j
      BY <1>0, <3>3
    <3>6. {r[i + 1]} \cup Range(w) = Left(r, i) \cup Left(s, j)
      BY <2>0, <3>3
    <3>7. PICK v : v = <<r[i + 1]>> \o w
      OBVIOUS
    <3>8. /\ v \in Seq(Nat) /\ Len(v) = Len(w) + 1 /\ Range(v) = {r[i + 1]} \cup Range(w)
          /\ Sorted(r) /\ Sorted(s) => Sorted(v)
      BY <2>0, <3>3, <3>4, <3>7, Prefixed
    <3> QED BY <1>0, <3>2, <3>5, <3>6, <3>7, <3>8 DEF Merges
  <2>2. CASE ~(r[i + 1] < s[j + 1])
    <3>1. PICK w : w = f[<<i, j + 1>>]
      OBVIOUS
    <3>2. Rest(r, s, f, i, j) = <<s[j + 1]>> \o w
      BY <1>3, <2>2, <3>1 DEF Rest
    <3>3. /\ w \in Seq(Nat) /\ Len(w) = n - i + o - (j + 1)
          /\ Range(w) = Left(r, i) \cup Left(s, j + 1)
          /\ Sorted(r) /\ Sorted(s) => Sorted(w)
      BY <1>0, <1>3, <3>1 DEF Merges
    <3>4. Sorted(r) /\ Sorted(s) => \A x \in Range(w) : s[j + 1] <= x
      <4>1. \A a, b, x \in Nat : ~(a < b) /\ a <= x => b <= x
        OBVIOUS
      <4> QED BY <2>0, <2>2, <3>3, <4>1
    <3>5. Len(w) + 1 = n - i + o - j
      BY <1>0, <3>3
    <3>6. {s[j + 1]} \cup Range(w) = Left(r, i) \cup Left(s, j)
      BY <2>0, <3>3
    <3>7. PICK v : v = <<s[j + 1]>> \o w
      OBVIOUS
    <3>8. /\ v \in Seq(Nat) /\ Len(v) = Len(w) + 1 /\ Range(v) = {s[j + 1]} \cup Range(w)
          /\ Sorted(r) /\ Sorted(s) => Sorted(v)
      BY <2>0, <3>3, <3>4, <3>7, Prefixed
    <3> QED BY <1>0, <3>2, <3>5, <3>6, <3>7, <3>8 DEF Merges
  <2> QED BY <2>1, <2>2
<1> QED BY <1>1, <1>2, <1>3

LEMMA TableMerges ==
  ASSUME NEW r \in Seq(Nat), NEW s \in Seq(Nat), NEW f, IsTable(f, r, s),
         NEW i \in 0..Len(r), NEW j \in 0..Len(s)
  PROVE  Merges(f[<<i, j>>], r, s, i, j)
<1> DEFINE Fails(d, x, y) == /\ x \in 0..Len(r) /\ y \in 0..Len(s) /\ d = Len(r) - x + Len(s) - y
                             /\ ~Merges(f[<<x, y>>], r, s, x, y)
           Bad == {d \in Nat : \E x, y \in Nat : Fails(d, x, y)}
<1>0. Len(r) \in Nat /\ Len(s) \in Nat
  OBVIOUS
<1>1. ASSUME NEW d \in Bad
      PROVE  \E c \in Bad : c < d
  <2>1. PICK x, y \in Nat : Fails(d, x, y)
    OBVIOUS
  <2>2. f[<<x, y>>] = Rest(r, s, f, x, y)
    <3>1. <<x, y>> \in Cells(r, s) /\ <<x, y>>[1] = x /\ <<x, y>>[2] = y
      BY <1>0, <2>1 DEF Cells
    <3> QED BY <3>1 DEF IsTable
  <2>3. x # Len(r) /\ y # Len(s)
        /\ (~Merges(f[<<x + 1, y>>], r, s, x + 1, y) \/ ~Merges(f[<<x, y + 1>>], r, s, x, y + 1))
    BY <2>1, <2>2, CellMerges
  <2>4. /\ x + 1 \in 0..Len(r) /\ x + 1 \in Nat /\ y + 1 \in 0..Len(s) /\ y + 1 \in Nat /\ d \in Nat
        /\ d - 1 = Len(r) - (x + 1) + Len(s) - y /\ d - 1 = Len(r) - x + Len(s) - (y + 1)
        /\ d - 1 \in Nat /\ d - 1 < d
    <3>1. PICK n, o \in Nat : n = Len(r) /\ o = Len(s)
      BY <1>0
    <3>2. d \in Nat /\ d = n - x + o - y /\ x \in 0..n /\ y \in 0..o /\ x # n /\ y # o
      BY <2>1, <2>3, <3>1
    <3>3. /\ x + 1 \in 0..n /\ y + 1 \in 0..o
          /\ d - 1 = n - (x + 1) + o - y /\ d - 1 = n - x + o - (y + 1)
          /\ d - 1 \in Nat /\ d - 1 < d
      BY ONLY <3>2, n \in Nat, o \in Nat, x \in Nat, y \in Nat
    <3> QED BY <3>1, <3>2, <3>3
  <2>5. Fails(d - 1, x + 1, y) \/ Fails(d - 1, x, y + 1)
    BY <2>1, <2>3, <2>4
  <2>6. d - 1 \in Bad
    <3> HIDE DEF Fails
    <3> QED BY <2>4, <2>5
  <2> QED BY <2>4, <2>6
<1>2. Bad \in SUBSET Nat
  OBVIOUS
<1>3. Bad = {}
  <2> HIDE DEF Bad
  <2> SUFFICES ASSUME Bad # {} PROVE FALSE
    OBVIOUS
  <2>1. PICK d \in Bad : \A c \in Bad : d <= c
    BY <1>2, LeastNumber
  <2>2. PICK c \in Bad : c < d
    BY <1>1, <2>1
  <2> QED BY <1>2, <2>1, <2>2
<1>4. Len(r) - i + Len(s) - j \in Nat /\ i \in Nat /\ j \in Nat
  BY <1>0
<1>5. ~Fails(Len(r) - i + Len(s) - j, i, j)
  <2> HIDE DEF Fails
  <2> QED BY <1>3, <1>4
<1> QED BY <1>5

\* What the merge of two arrays is: as long as both, with the records of both, in order
\* if they are.
(***************************************************************************)
(* The merge of merge_blocks, for any two arrays: it fills the new array   *)
(* with the records of both and no others, and if both are in order, so is *)
(* the new one.                                                            *)
(***************************************************************************)
THEOREM MergeIsRight ==
  ASSUME NEW r \in Seq(Nat), NEW s \in Seq(Nat)
  PROVE  /\ Merge(r, s) \in Seq(Nat) /\ Len(Merge(r, s)) = Len(r) + Len(s)
         /\ Range(Merge(r, s)) = Range(r) \cup Range(s)
         /\ Sorted(r) /\ Sorted(s) => Sorted(Merge(r, s))
<1>1. PICK f : f = Table(r, s) /\ IsTable(f, r, s)
  BY TableExists DEF Table
<1>2. PICK w : w = f[<<0, 0>>]
  OBVIOUS
<1>3. PICK n, o \in Nat : n = Len(r) /\ o = Len(s)
  OBVIOUS
<1>4. Merges(w, r, s, 0, 0)
  BY <1>1, <1>2, <1>3, TableMerges
<1>5. Left(r, 0) = Range(r) /\ Left(s, 0) = Range(s)
  <2>1. DOMAIN r = 0 + 1..Len(r) /\ DOMAIN s = 0 + 1..Len(s)
    OBVIOUS
  <2> QED BY <2>1 DEF Left, Range
<1>6. w \in Seq(Nat) /\ Len(w) = n + o /\ Range(w) = Range(r) \cup Range(s)
      /\ (Sorted(r) /\ Sorted(s) => Sorted(w))
  BY <1>3, <1>4, <1>5 DEF Merges
<1>7. Merge(r, s) = [k \in 1..n + o |-> w[k]]
  BY <1>1, <1>2, <1>3, MergeByTable
<1>8. Merge(r, s) = w
  BY <1>6, <1>7
<1> QED BY <1>3, <1>6, <1>8

-----------------------------------------------------------------------------
\* The barrier.

LEMMA Arrival ==
  ASSUME NEW t \in Threads, waiting \subseteq Threads, t \notin waiting, Arrive(t)
  PROVE  \/ waiting' = waiting \cup {t}
         \/ waiting' = {} /\ waiting \cup {t} = Threads
<1>1. IsFiniteSet(Threads) /\ Cardinality(Threads) = T
  BY FS_Interval, Constants DEF Threads
<1>2. CASE Cardinality(waiting) = T - 1
  <2>1. IsFiniteSet(waiting)
    BY <1>1, FS_Subset
  <2>2. Cardinality(waiting \cup {t}) = Cardinality(waiting) + 1
    BY <2>1, FS_AddElement
  <2>3. waiting \cup {t} \subseteq Threads /\ Cardinality(waiting \cup {t}) = Cardinality(Threads)
    BY <1>1, <1>2, <2>2, Constants
  <2>4. waiting \cup {t} = Threads
    BY <1>1, <2>3, FS_Subset
  <2> QED BY <1>2, <2>4 DEF Arrive
<1>3. CASE Cardinality(waiting) # T - 1
  BY <1>3 DEF Arrive
<1> QED BY <1>2, <1>3

\* When all have arrived the next stage begins, or the next row of pairs.
LEMMA SortingBegins == Beginning(Threads) => Sorting({})
  BY Constants DEF Beginning, Sorting

LEMMA MergingBegins ==
  ASSUME B % T = 0, Sorting(Threads)
  PROVE  InRounds({}) \/ OnlyMain
<1>1. /\ block_map = Blocks /\ \A b \in Blocks : size[b] = R
      /\ \A t \in Threads : pc[t] = "pairs" /\ id[t] = t /\ num_blocks[t] = B
  BY Constants DEF Sorting, Unmerged
<1>2. CASE B = 1
  <2>1. 0 \in Blocks /\ 0 \in Threads /\ R = N /\ \A t \in Threads \ {0} : FALSE
    BY <1>2, Constants DEF Threads
  <2>2. Whole
    BY <1>1, <1>2, <2>1 DEF Whole
  <2> QED BY <1>1, <2>1, <2>2 DEF OnlyMain
<1>3. CASE B >= 2
  <2> DEFINE p == B \div 2
  <2>1. p \in Nat /\ B = 2 * p /\ B % p = 0 /\ (p % T = 0 \/ p < T)
    <3>1. B % B = 0
      BY <1>3, Constants, SMT
    <3> QED BY <3>1, <1>3, Halves, Constants
  <2>2. CASE p = 1
    <3> HIDE DEF p
    <3>1. B = 2 /\ 0 \in Blocks /\ 1 \in Blocks /\ 0 \in Threads /\ 2 * R = N
          /\ \A t \in Threads \ {0} : t = 1
      BY <2>1, <2>2, Constants DEF Threads, Blocks
    <3>2. LastPair
      BY <1>1, <3>1, Constants DEF LastPair
    <3>3. \A t \in Threads \ {0} : Dropped(t) /\ Ahead(t, {}, 1)
      BY <1>1, <3>1 DEF Dropped, Ahead
    <3> QED BY <1>1, <3>2, <3>3 DEF OnlyMain
  <2>3. CASE p >= 2
    <3>1. Row(p, 0, R)
      <4>1. 2 * (p * R) = N
        BY <2>1, Constants
      <4>2. B % (2 * p) = 0
        <5>1. B % B = 0
          BY <1>3, Constants, SMT
        <5> QED BY <5>1, <2>1
      <4>3. 0 % T = 0
        BY Constants, SMT
      <4> QED BY <4>1, <4>2, <4>3, <2>1, <2>3, Constants DEF Row
    <3>2. ASSUME NEW t \in Threads
          PROVE  IF t < p THEN HasPairs(t, {}, p, 0, R) ELSE Dropped(t)
      <4>1. t \in Nat
        BY Constants
      <4>2. CASE t < p
        <5>1. t \notin {} /\ pc[t] = "pairs" /\ id[t] = t + 0 /\ num_blocks[t] = 2 * p
          BY <1>1, <2>1, <4>1
        <5> QED BY <5>1, <4>2 DEF HasPairs
      <4>3. CASE ~(t < p)
        <5>1. pc[t] = "pairs" /\ id[t] = t /\ t >= num_blocks[t] \div 2 /\ num_blocks[t] \in 1..B
          BY <1>1, <2>1, <4>1, <4>3, <1>3, Constants
        <5> QED BY <5>1, <4>3 DEF Dropped
      <4> QED BY <4>2, <4>3
    <3>3. SizesFit({}, p, 0, R)
      BY <1>1, Constants DEF SizesFit
    <3>4. \A t \in Threads : Ahead(t, {}, p)
      BY <1>1, <2>1 DEF Ahead
    <3>5. InRow({}, p, 0, R)
      BY <3>1, <3>2, <3>3, <3>4 DEF InRow
    <3> HIDE DEF p
    <3> QED BY <1>1, <2>1, <3>5, Constants DEF InRounds
  <2>4. p # 0
    BY <2>1, <1>3
  <2> QED BY <2>1, <2>2, <2>3, <2>4
<1> QED BY <1>2, <1>3, Constants

\* Every thread that has a pair in this row has merged it, and writes it next.
LEMMA NextRow ==
  ASSUME NEW p \in Nat, NEW m \in Nat, NEW L \in Nat, InRow(Threads, p, m, L), m < p
  PROVE  InRow({}, p, m + T, L)
<1>1. /\ p >= 2 /\ m + T \in Nat /\ (m + T) % T = 0 /\ 2 * p <= B
      /\ \A t \in Threads : t < p => t + m < p
  BY RowFacts DEF InRow
<1>2. Row(p, m + T, L)
  <2>1. m + T < p + T
    BY Constants
  <2> QED BY <1>1, <2>1 DEF InRow, Row
<1>3. ASSUME NEW t \in Threads, t < p
      PROVE  /\ HasPairs(t, {}, p, m + T, L)
             /\ Writing(t, {}) /\ id[t] = t + m
  <2>1. /\ pc[t] = "writeData" /\ id[t] = t + m /\ num_blocks[t] = 2 * p
        /\ Len(merged[t]) = 2 * L
    BY <1>3 DEF InRow, HasPairs, Writing
  <2>2. m + T > 0 /\ t + m = t + (m + T) - T
    BY Constants
  <2>3. t + m < p
    BY <1>1, <1>3
  <2> QED BY <2>1, <2>2, <2>3 DEF HasPairs, Writing
<1>4. \A t \in Threads : IF t < p THEN HasPairs(t, {}, p, m + T, L) ELSE Dropped(t)
  BY <1>3 DEF InRow
<1>5. ASSUME NEW i \in Blocks, i < p, i < m + T
      PROVE  \/ size[i] = 2 * L
             \/ size[i] = L /\ \E t \in Threads : t < p /\ Writing(t, {}) /\ id[t] = i
  <2>0. i \in Nat
    BY Constants
  <2>1. CASE i < m
    BY <2>1, <1>5 DEF InRow, SizesFit, Writing
  <2>2. CASE i >= m
    <3>1. i < 2 * p
      BY <2>0, <1>5
    <3>2. size[i] = L
      BY <2>2, <3>1 DEF InRow, SizesFit
    <3>3. i - m \in Threads /\ i - m < p /\ i - m + m = i
      BY <2>0, <2>2, <1>5, Constants DEF Threads
    <3>4. Writing(i - m, {}) /\ id[i - m] = i
      BY <1>3, <3>3
    <3> QED BY <3>2, <3>3, <3>4
  <2> QED BY <2>0, <2>1, <2>2
<1>6. ASSUME NEW i \in Blocks, i < 2 * p, i >= m + T
      PROVE  size[i] = L
  <2>1. i >= m
    BY <1>6, Constants
  <2> QED BY <2>1, <1>6 DEF InRow, SizesFit
<1>7. SizesFit({}, p, m + T, L)
  BY <1>5, <1>6 DEF SizesFit
<1>8. ASSUME NEW t \in Threads, ~(t < p)
      PROVE  Ahead(t, {}, p)
  <2>1. Ahead(t, Threads, p) /\ num_blocks[t] \in 1..B
    BY <1>8 DEF InRow, Dropped
  <2> QED BY <2>1, Constants DEF Ahead
<1> QED BY <1>2, <1>4, <1>7, <1>8 DEF InRow

\* All pairs are merged and written.
LEMMA RoundOver ==
  ASSUME NEW p \in Nat, NEW m \in Nat, NEW L \in Nat, InRow(Threads, p, m, L), m >= p
  PROVE  \/ p = 2
         \/ \E q \in Nat : InRow({}, q, 0, 2 * L)
<1> DEFINE q == p \div 2
<1>1. /\ p >= 2 /\ 2 * (p * L) = N /\ 2 * p <= B /\ B % (2 * p) = 0 /\ (p % T = 0 \/ p < T)
      /\ \A i \in Blocks : i < p => size[i] = 2 * L
  <2>1. Row(p, m, L)
    BY DEF InRow
  <2>2. ASSUME NEW i \in Blocks, i < p
        PROVE  size[i] = 2 * L
    <3>1. i < m
      BY <2>2, Constants
    <3> QED BY <3>1, <2>2 DEF InRow, SizesFit, Writing
  <2> QED BY <2>1, <2>2, RowFacts DEF Row
<1>2. q \in Nat /\ p = 2 * q /\ (q % T = 0 \/ q < T) /\ B % p = 0
  <2>1. PICK c \in Nat : B = 2 * p * c
    <3>1. 2 * p \in Nat /\ 2 * p >= 1
      BY <1>1
    <3>2. B = (2 * p) * (B \div (2 * p)) /\ B \div (2 * p) \in Nat
      BY <1>1, <3>1, Constants, SMT
    <3> QED BY <3>2
  <2>2. B = p * (2 * c)
    BY <2>1
  <2>3. \A x, y, z \in Nat : x >= 1 /\ y = x * z => y % x = 0
    BY SMT
  <2>4. B % p = 0
    BY <2>2, <2>3, <1>1, Constants
  <2> QED BY <2>4, <1>1, Halves
<1>3. ASSUME NEW t \in Threads
      PROVE  /\ t \in Nat /\ id[t] = t
             /\ t < p => pc[t] = "pairs" /\ num_blocks[t] = p
             /\ ~(t < p) => Dropped(t) /\ Ahead(t, {}, q)
  <2>1. t \in Nat
    BY Constants
  <2>2. IF t < p THEN HasPairs(t, Threads, p, m, L) ELSE Dropped(t)
    BY DEF InRow
  <2>3. CASE t < p
    BY <2>1, <2>2, <2>3 DEF HasPairs, Writing
  <2>4. CASE ~(t < p)
    <3>1. Ahead(t, Threads, p) /\ num_blocks[t] \in 1..B
      BY <2>2, <2>4 DEF InRow, Dropped
    <3>2. Ahead(t, {}, q)
      BY <1>2, <3>1 DEF Ahead
    <3> QED BY <2>1, <2>2, <2>4, <3>2 DEF Dropped
  <2> QED BY <2>3, <2>4
<1>4. CASE q >= 2
  <2>1. Row(q, 0, 2 * L)
    <3>1. 2 * (q * (2 * L)) = N
      BY <1>1, <1>2
    <3>2. 0 % T = 0
      BY Constants, SMT
    <3>3. B % (2 * q) = 0
      BY <1>2
    <3>4. 0 < q + T
      BY <1>2, Constants
    <3> HIDE DEF q
    <3> QED BY <3>1, <3>2, <3>3, <3>4, <1>2, <1>4 DEF Row
  <2>2. ASSUME NEW t \in Threads
        PROVE  IF t < q THEN HasPairs(t, {}, q, 0, 2 * L) ELSE Dropped(t)
    <3> HIDE DEF q
    <3>1. CASE t < q
      <4>1. t < p /\ t = t + 0
        BY <3>1, <1>2, <1>3
      <4>2. t \notin {} /\ pc[t] = "pairs" /\ id[t] = t + 0 /\ num_blocks[t] = 2 * q
        BY <4>1, <1>2, <1>3
      <4> QED BY <4>2, <3>1 DEF HasPairs
    <3>2. CASE ~(t < q) /\ t < p
      <4>1. pc[t] = "pairs" /\ num_blocks[t] = p /\ id[t] = t
        BY <3>2, <1>3
      <4>2. t >= num_blocks[t] \div 2 /\ num_blocks[t] \in 1..B
        BY <4>1, <1>1, <1>2, <1>3, <3>2, Constants
      <4> QED BY <4>1, <4>2, <3>2 DEF Dropped
    <3>3. CASE ~(t < p)
      <4>1. ~(t < q)
        BY <3>3, <1>2, <1>3
      <4> QED BY <3>3, <4>1, <1>3
    <3> QED BY <3>1, <3>2, <3>3
  <2>3. SizesFit({}, q, 0, 2 * L)
    <3> HIDE DEF q
    <3>1. \A i \in Blocks : i < 2 * q => size[i] = 2 * L
      BY <1>1, <1>2
    <3>2. \A i \in Blocks : ~(i < 0)
      BY Constants
    <3> QED BY <3>1, <3>2 DEF SizesFit
  <2>4. ASSUME NEW t \in Threads, ~(t < q)
        PROVE  Ahead(t, {}, q)
    <3> HIDE DEF q
    <3>1. CASE t < p
      BY <1>2, <1>3, <3>1 DEF Ahead
    <3> QED BY <1>3, <3>1
  <2>5. InRow({}, q, 0, 2 * L)
    BY ONLY <2>1, <2>2, <2>3, <2>4 DEF InRow
  <2> QED BY <2>5, <1>2
<1>5. CASE q < 2
  BY <1>1, <1>2, <1>5
<1> QED BY <1>2, <1>4, <1>5

LEMMA RowOver ==
  ASSUME InRounds(Threads)
  PROVE  InRounds({}) \/ OnlyMain
<1>1. PICK p \in Nat, m \in Nat, L \in Nat : InRow(Threads, p, m, L)
  BY DEF InRounds
<1>2. block_map = Blocks
  BY DEF InRounds
<1>3. CASE m < p
  BY <1>1, <1>2, <1>3, NextRow, Constants DEF InRounds
<1>4. CASE m >= p /\ p = 2
  <2>0. /\ 0 \in Blocks /\ 1 \in Blocks /\ B >= 2
        /\ size[0] \in Nat /\ size[0] = size[1] /\ 2 * size[0] = N
    <3>1. L \in Nat /\ 2 * p <= B /\ 2 * (p * L) = N
      BY <1>1, RowFacts DEF InRow
    <3>2. 0 \in Blocks /\ 1 \in Blocks /\ B >= 2
      BY <1>4, <3>1, Constants DEF Blocks
    <3>3. size[0] = 2 * L /\ size[1] = 2 * L
      BY <1>1, <1>4, <3>2 DEF InRow, SizesFit, Writing
    <3> QED BY <1>4, <3>1, <3>2, <3>3
  <2>1. ASSUME NEW t \in Threads
        PROVE  IF t < 2 THEN pc[t] = "pairs" /\ num_blocks[t] = 2 /\ id[t] = t ELSE Dropped(t)
    <3>1. IF t < p THEN HasPairs(t, Threads, p, m, L) ELSE Dropped(t)
      BY <1>1 DEF InRow
    <3> QED BY <3>1, <1>4 DEF HasPairs, Writing
  <2>2. ASSUME NEW t \in Threads \ {0}
        PROVE  Dropped(t) /\ Ahead(t, {}, 1)
    <3>1. t \in Nat /\ t # 0
      BY Constants
    <3>2. CASE t < 2
      <4>1. t = 1 /\ num_blocks[t] = 2 /\ B >= 2
        BY <2>1, <2>0, <3>1, <3>2
      <4> QED BY <2>1, <3>2, <4>1, Constants DEF Dropped, Ahead
    <3>3. CASE ~(t < 2)
      <4>1. Ahead(t, Threads, 2)
        BY <1>1, <1>4, <3>3 DEF InRow
      <4> QED BY <2>1, <3>3, <4>1 DEF Ahead
    <3> QED BY <3>2, <3>3
  <2>3. LastPair
    <3>1. pc[0] = "pairs" /\ num_blocks[0] = 2 /\ id[0] = 0
      BY <2>1, Constants
    <3> QED BY <2>0, <3>1 DEF LastPair
  <2> QED BY <1>2, <2>2, <2>3 DEF OnlyMain
<1>5. CASE m >= p /\ \E q \in Nat : InRow({}, q, 0, 2 * L)
  BY <1>2, <1>5 DEF InRounds
<1> QED BY <1>1, <1>3, <1>4, <1>5, RoundOver

LEMMA BarrierOpens == B % T = 0 /\ Stage(Threads) => Stage({})
  BY SortingBegins, MergingBegins, RowOver DEF Stage

AllWait == Stage(Threads)
NobodyWaits == Stage({})

LEMMA BarrierOpensNext == (B % T = 0 /\ AllWait => NobodyWaits)'
<1>1. B % T = 0 /\ AllWait => NobodyWaits
  BY BarrierOpens DEF AllWait, NobodyWaits
<1> QED BY <1>1, PTL

LEMMA StageOfWaiting ==
  ASSUME NEW W, waiting' = W, Stage(W)'
  PROVE  Stage(waiting)'
  BY DEF Stage, Beginning, Sorting, Unmerged, InRounds, InRow, Ahead, HasPairs, Writing, SizesFit, OnlyMain

\* Whoever arrives, the stage goes on with one more thread at the barrier or with none.
LEMMA Arrived ==
  ASSUME NEW t \in Threads, NEW W, waiting \subseteq Threads, t \notin waiting, Arrive(t),
         W = waiting \cup {t}, B % T = 0, Stage(W)'
  PROVE  Stage(waiting)'
<1>1. CASE waiting' = W
  BY <1>1, StageOfWaiting
<1>2. CASE waiting' = {} /\ W = Threads
  <2>1. Stage({})'
    BY <1>2, BarrierOpensNext DEF AllWait, NobodyWaits
  <2> QED BY <1>2, <2>1, StageOfWaiting
<1> QED BY <1>1, <1>2, Arrival

-----------------------------------------------------------------------------
LEMMA LeastBlock ==
  ASSUME NEW free \in SUBSET Blocks, free # {}
  PROVE  (CHOOSE b \in free : \A c \in free : b <= c) \in free
<1>1. \E b \in free : \A c \in free : b <= c
  BY LeastNumber, Constants
<1> QED BY <1>1

LEMMA ShapeStep ==
  ASSUME NEW t \in Threads, Shape, Step(t)
  PROVE  Shape'
<1> USE DEF Shape, At, Goto, Arrive, Pass, infoVars, sortVars, mergeVars, PCs
<1>0. /\ t \in Nat /\ t \in Blocks /\ T \in Nat
      /\ \A n \in Nat : n \div 2 \in Nat /\ n + T \in Nat
  BY Constants
<1>1. CASE Enter(t)
  BY <1>1 DEF Enter
<1>2. CASE Claim(t)
  BY <1>0, <1>2 DEF Claim, StartSort
<1>3. CASE Sort(t)
  BY <1>3 DEF Sort
<1>4. CASE NextBlock(t)
  <2>1. CASE Blocks \ block_map = {}
    BY <1>4, <2>1 DEF NextBlock
  <2>2. CASE Blocks \ block_map # {}
    <3> DEFINE b == CHOOSE x \in Blocks \ block_map : \A c \in Blocks \ block_map : x <= c
    <3>1. b \in Blocks
      BY <2>2, LeastBlock
    <3>2. StartSort(t, b) /\ UNCHANGED <<input, infoVars, mergeVars, waiting, mapVars>>
      BY <1>4, <2>2 DEF NextBlock
    <3> HIDE DEF b
    <3> QED BY <3>1, <3>2 DEF StartSort
  <2> QED BY <2>1, <2>2
<1>5. CASE EndOfSort(t)
  BY <1>5 DEF EndOfSort
<1>6. CASE MergePair(t)
  BY <1>6 DEF MergePair
<1>7. CASE NextRound(t)
  BY <1>0, <1>7 DEF NextRound
<1>8. CASE LastRound(t)
  BY <1>8 DEF LastRound
<1>9. CASE Inner(t)
  BY <1>9 DEF Inner
<1>10. CASE WriteData(t)
  BY <1>10 DEF WriteData
<1>11. CASE WriteSize(t)
  BY <1>0, <1>11 DEF WriteSize
<1>12. CASE Outer(t)
  BY <1>12 DEF Outer
<1>13. CASE Final(t)
  BY <1>13 DEF Final
<1> QED BY <1>1, <1>2, <1>3, <1>4, <1>5, <1>6, <1>7, <1>8, <1>9, <1>10, <1>11, <1>12, <1>13 DEF Step

-----------------------------------------------------------------------------
\* The stages, step by step.

LEMMA OnlyOne ==
  ASSUME NEW t \in Threads, NEW label, pc \in [Threads -> PCs], Goto(t, label)
  PROVE  pc'[t] = label /\ \A u \in Threads : u # t => pc'[u] = pc[u]
BY DEF Goto

LEMMA BeginningStep ==
  ASSUME NEW t \in Threads, Shape, Beginning(waiting), Step(t)
  PROVE  Beginning(waiting)' \/ Sorting(waiting)'
<1>1. Enter(t)
  BY DEF Beginning, Step, At, Enter, Claim, Sort, NextBlock, EndOfSort, MergePair, NextRound,
         LastRound, Inner, WriteData, WriteSize, Outer, Final
<1>2. PICK W : W = waiting \cup {t}
  OBVIOUS
<1>3. t \notin waiting /\ Arrive(t) /\ Goto(t, "claim") /\ UNCHANGED <<infoVars, mergeVars>>
  BY <1>1 DEF Enter, At
<1>4. Beginning(W)'
  <2>1. Unmerged'
    BY <1>3 DEF Beginning, Unmerged, infoVars, mergeVars
  <2>2. ASSUME NEW u \in Threads
        PROVE  IF u \in W THEN pc'[u] = "claim" ELSE pc'[u] = "enter"
    BY <1>2, <1>3, OnlyOne DEF Beginning, Shape
  <2> QED BY <2>1, <2>2 DEF Beginning
<1>5. CASE waiting' = W
  BY <1>4, <1>5 DEF Beginning, Unmerged
<1>6. CASE waiting' = {} /\ W = Threads
  BY <1>4, <1>6, Constants DEF Beginning, Sorting, Unmerged
<1> QED BY <1>2, <1>3, <1>5, <1>6, Arrival DEF Shape

LEMMA SortingStep ==
  ASSUME NEW t \in Threads, Shape, Sorting(waiting), Step(t)
  PROVE  Sorting(waiting)' \/ (waiting' = {} /\ Sorting(Threads)')
<1> USE DEF At
<1>1. /\ Claim(t) \/ Sort(t) \/ NextBlock(t) \/ EndOfSort(t)
      /\ t \notin waiting
  BY DEF Sorting, Step, At, Enter, Claim, Sort, NextBlock, EndOfSort, MergePair, NextRound,
         LastRound, Inner, WriteData, WriteSize, Outer, Final
<1>2. Unmerged'
  <2>1. UNCHANGED <<size, num_blocks, id>>
    BY <1>1 DEF Claim, Sort, NextBlock, EndOfSort, infoVars, mergeVars
  <2> QED BY <2>1 DEF Sorting, Unmerged
<1>3. CASE \/ Claim(t) \/ Sort(t)
           \/ NextBlock(t) /\ Blocks \ block_map # {}
  <2>1. \E label \in {"sort", "next"} : Goto(t, label)
    BY <1>3 DEF Claim, Sort, NextBlock, StartSort
  <2>2. pc'[t] \in {"sort", "next"} /\ (\A u \in Threads : u # t => pc'[u] = pc[u])
        /\ waiting' = waiting
    BY <1>3, <2>1, OnlyOne DEF Shape, Claim, Sort, NextBlock
  <2>3. block_map = Blocks => block_map' = Blocks
    <3>1. CASE Claim(t)
      BY <3>1, Constants DEF Claim, StartSort
    <3>2. CASE Sort(t)
      BY <3>2 DEF Sort, sortVars
    <3>3. CASE NextBlock(t) /\ Blocks \ block_map # {}
      BY <3>3
    <3> QED BY <1>3, <3>1, <3>2, <3>3
  <2>4. (\E u \in Threads : pc'[u] \in {"sorted", "pairs"}) => block_map' = Blocks
    BY <2>2, <2>3 DEF Sorting
  <2>5. \A u \in Threads : IF u \in waiting' THEN pc'[u] = "pairs"
                           ELSE pc'[u] \in {"claim", "sort", "next", "sorted"}
    BY <1>1, <2>2 DEF Sorting
  <2> QED BY <1>2, <2>4, <2>5 DEF Sorting
<1>4. CASE NextBlock(t) /\ Blocks \ block_map = {}
  <2>1. Goto(t, "sorted") /\ waiting' = waiting /\ block_map' = block_map /\ block_map = Blocks
    BY <1>4 DEF NextBlock, sortVars, Shape
  <2>2. \A u \in Threads : IF u \in waiting' THEN pc'[u] = "pairs"
                           ELSE pc'[u] \in {"claim", "sort", "next", "sorted"}
    BY <1>1, <2>1, OnlyOne DEF Sorting, Shape
  <2> QED BY <1>2, <2>1, <2>2 DEF Sorting
<1>5. CASE EndOfSort(t)
  <2>1. PICK W : W = waiting \cup {t}
    OBVIOUS
  <2>2. pc[t] = "sorted" /\ Arrive(t) /\ Goto(t, "pairs") /\ block_map' = block_map
    BY <1>5 DEF EndOfSort, sortVars
  <2>3. block_map' = Blocks
    BY <2>2 DEF Sorting
  <2>4. \A u \in Threads : IF u \in W THEN pc'[u] = "pairs"
                           ELSE pc'[u] \in {"claim", "sort", "next", "sorted"}
    BY <2>1, <2>2, OnlyOne DEF Sorting, Shape
  <2>5. Sorting(W)'
    BY <1>2, <2>3, <2>4 DEF Sorting
  <2>6. CASE waiting' = W
    BY <2>5, <2>6 DEF Sorting, Unmerged
  <2>7. CASE waiting' = {} /\ W = Threads
    BY <2>5, <2>7
  <2> QED BY <1>1, <2>1, <2>2, <2>6, <2>7, Arrival DEF Shape
<1> QED BY <1>1, <1>3, <1>4, <1>5

\* What is the same for all threads but one.
OthersStay(t) ==
  /\ block_map' = block_map
  /\ \A u \in Threads : u # t =>
       /\ pc'[u] = pc[u] /\ id'[u] = id[u] /\ num_blocks'[u] = num_blocks[u]
       /\ merged'[u] = merged[u]

\* A thread without pairs touches nothing but its own counters.
LEMMA DroppedStep ==
  ASSUME NEW t \in Threads, Shape, Dropped(t), Step(t)
  PROVE  Dropped(t)' /\ OthersStay(t) /\ size' = size /\ (Arrive(t) \/ Pass) /\ t \notin waiting
<1> USE DEF At
<1>0. t \in Nat /\ num_blocks[t] \in Nat
  BY Constants DEF Shape
<1>a. ~MergePair(t)
  <2>1. num_blocks[t] \div 2 \in Nat /\ id[t] = t /\ t >= num_blocks[t] \div 2
    BY <1>0 DEF Dropped
  <2>2. ~(id[t] < num_blocks[t] \div 2)
    BY ONLY <1>0, <2>1
  <2> QED BY <2>2 DEF MergePair
<1>1. /\ NextRound(t) \/ LastRound(t) \/ Outer(t) \/ Final(t)
      /\ t \notin waiting
  BY <1>a DEF Dropped, Step, At, Enter, Claim, Sort, NextBlock, EndOfSort, NextRound,
         LastRound, Inner, WriteData, WriteSize, Outer, Final
<1>2. OthersStay(t) /\ size' = size /\ (Arrive(t) \/ Pass)
  <2>1. \E label \in PCs : Goto(t, label)
    BY <1>1 DEF NextRound, LastRound, Outer, Final, PCs
  <2>2. \A u \in Threads : u # t => pc'[u] = pc[u]
    BY <2>1, OnlyOne DEF Shape
  <2>3. block_map' = block_map /\ size' = size /\ merged' = merged
    BY <1>1 DEF NextRound, LastRound, Outer, Final, infoVars, sortVars, mergeVars
  <2>4. \A u \in Threads : u # t => id'[u] = id[u] /\ num_blocks'[u] = num_blocks[u]
    BY <1>1 DEF NextRound, LastRound, Outer, Final, mergeVars, Shape
  <2>5. Arrive(t) \/ Pass
    BY <1>1 DEF NextRound, LastRound, Outer, Final, Pass
  <2> QED BY <2>2, <2>3, <2>4, <2>5 DEF OthersStay
<1>3. Dropped(t)'
  <2>1. CASE NextRound(t)
    <3>1. pc'[t] = "outer"
      BY <2>1 DEF NextRound, Goto, Shape
    <3>2. num_blocks'[t] = num_blocks[t] \div 2 /\ id'[t] = t
      BY <2>1 DEF NextRound, Shape
    <3>3. t >= num_blocks'[t] \div 2 /\ num_blocks'[t] \in 1..B
      BY <1>0, <2>1, <3>2, Constants DEF Dropped, NextRound
    <3> QED BY <3>1, <3>2, <3>3 DEF Dropped
  <2>2. CASE LastRound(t) \/ Outer(t) \/ Final(t)
    <3>1. \E label \in {"pairs", "final", "done"} : Goto(t, label)
      BY <2>2 DEF LastRound, Outer, Final
    <3>2. pc'[t] \in {"pairs", "final", "done"}
      BY <3>1, OnlyOne DEF Shape
    <3>3. num_blocks' = num_blocks /\ id' = id
      BY <2>2 DEF LastRound, Outer, Final, mergeVars
    <3> QED BY <3>2, <3>3 DEF Dropped
  <2> QED BY <1>1, <2>1, <2>2
<1> QED BY <1>1, <1>2, <1>3

LEMMA AheadStep ==
  ASSUME NEW t \in Threads, NEW W, NEW p \in Nat, p >= 1, Shape, Dropped(t), t \notin W,
         Ahead(t, W, p), Step(t)
  PROVE  (Pass /\ Ahead(t, W, p)') \/ (Arrive(t) /\ Ahead(t, W \cup {t}, p)')
<1> USE DEF At
<1>0. num_blocks[t] \in Nat
  BY DEF Shape
<1>1. CASE NextRound(t)
  <2>1. pc[t] = "pairs" /\ pc'[t] = "outer" /\ num_blocks'[t] = num_blocks[t] \div 2 /\ Pass
    BY <1>1 DEF NextRound, Goto, Shape, Pass
  <2>2. num_blocks'[t] <= p
    BY <1>0, <2>1 DEF Ahead
  <2> QED BY <2>1, <2>2 DEF Ahead
<1>2. CASE LastRound(t)
  <2>1. pc'[t] = "final" /\ num_blocks'[t] <= 1 /\ Pass
    BY <1>2 DEF LastRound, Goto, Shape, Pass, mergeVars
  <2> QED BY <2>1 DEF Ahead
<1>3. CASE Outer(t)
  <2>1. pc[t] = "outer" /\ pc'[t] = "pairs" /\ num_blocks'[t] = num_blocks[t] /\ (Arrive(t) \/ Pass)
    BY <1>3 DEF Outer, Goto, Shape, Pass, mergeVars
  <2>2. num_blocks'[t] <= p /\ num_blocks'[t] <= 2 * p
    BY <1>0, <2>1 DEF Ahead
  <2> QED BY <2>1, <2>2 DEF Ahead
<1>4. CASE Final(t)
  <2>1. pc[t] = "final" /\ pc'[t] = "done" /\ num_blocks'[t] = num_blocks[t] /\ Arrive(t)
    BY <1>4 DEF Final, Goto, Shape, mergeVars
  <2> QED BY <2>1 DEF Ahead
<1>5. ~MergePair(t)
  BY <1>0, Constants DEF Dropped, MergePair
<1> QED BY <1>1, <1>2, <1>3, <1>4, <1>5 DEF Dropped, Step, Enter, Claim, Sort, NextBlock,
         EndOfSort, Inner, WriteData, WriteSize

\* What a thread does that has pairs in this row: it goes on, it has written one, or
\* it arrives at the barrier.
GoesOn(t, W, p, m, L) ==
  /\ Pass /\ size' = size /\ HasPairs(t, W, p, m, L)'
  /\ Writing(t, W) => Writing(t, W)' /\ id'[t] = id[t]

HasWritten(t, W, p, m, L) ==
  /\ Pass /\ HasPairs(t, W, p, m, L)' /\ id[t] < m
  /\ size' = [size EXCEPT ![id[t]] = 2 * L]

Arrives(t, W, V, p, m, L) ==
  /\ Arrive(t) /\ size' = size /\ HasPairs(t, V, p, m, L)'
  /\ ~Writing(t, W)

\* As long as there is a second pair no thread leaves out a barrier.
LEMMA ActiveStep ==
  ASSUME NEW t \in Threads, NEW W, NEW V, NEW p \in Nat, NEW m \in Nat, NEW L \in Nat,
         Shape, W = waiting, V = W \cup {t}, InRow(W, p, m, L), t < p, Step(t)
  PROVE  /\ t \notin W /\ OthersStay(t)
         /\ GoesOn(t, W, p, m, L) \/ HasWritten(t, W, p, m, L) \/ Arrives(t, W, V, p, m, L)
<1> USE DEF At
<1>0. /\ t \in Nat /\ T \in Nat /\ T >= 1 /\ t < T
      /\ p >= 2 /\ 2 * p <= B /\ L < N /\ 2 * L < N
      /\ m = 0 \/ m >= T
      /\ m < p => t + m < p
  <2>1. t \in Nat /\ T \in Nat /\ T >= 1 /\ t < T
    BY Constants DEF Threads
  <2> QED BY <2>1, RowFacts DEF InRow
<1>1. HasPairs(t, W, p, m, L)
  BY DEF InRow
<1>2. /\ \/ MergePair(t) \/ NextRound(t) \/ LastRound(t) \/ Inner(t) \/ WriteData(t)
         \/ WriteSize(t) \/ Outer(t)
      /\ t \notin W
  BY <1>1 DEF HasPairs, Writing, Step, Enter, Claim, Sort, NextBlock, EndOfSort, MergePair,
         NextRound, LastRound, Inner, WriteData, WriteSize, Outer, Final
<1>3. OthersStay(t)
  <2>1. \E label \in PCs : Goto(t, label)
    BY <1>2 DEF MergePair, NextRound, LastRound, Inner, WriteData, WriteSize, Outer, PCs
  <2>2. \A u \in Threads : u # t => pc'[u] = pc[u]
    BY <2>1, OnlyOne DEF Shape
  <2>3. block_map' = block_map
    BY <1>2 DEF MergePair, NextRound, LastRound, Inner, WriteData, WriteSize, Outer, sortVars
  <2>4. \A u \in Threads : u # t =>
          /\ id'[u] = id[u] /\ num_blocks'[u] = num_blocks[u] /\ merged'[u] = merged[u]
    BY <1>2 DEF MergePair, NextRound, LastRound, Inner, WriteData, WriteSize, Outer, mergeVars, Shape
  <2> QED BY <2>2, <2>3, <2>4 DEF OthersStay
<1>4. CASE MergePair(t)
  <2>1. pc[t] = "pairs" /\ id[t] = t + m /\ num_blocks[t] = 2 * p
    BY <1>1, <1>2, <1>4 DEF MergePair, HasPairs, Writing
  <2>2. t + m < p
    BY <1>4, <2>1 DEF MergePair
  <2> DEFINE i == t + m
  <2>3. i \in Nat /\ 2 * i \in Blocks /\ 2 * i + 1 \in Blocks /\ 2 * i + 1 < 2 * p /\ 2 * i >= m
        /\ m < p /\ 2 * i < 2 * p /\ 2 * i + 1 >= m
    BY <1>0, <2>2, Constants DEF Blocks
  <2> HIDE DEF i
  <2>4. size[2 * i] = L /\ size[2 * i + 1] = L
    BY <2>3 DEF InRow, SizesFit
  <2>5. Len(merged'[t]) = 2 * L
    <3>1. merged'[t] = Merge(Records(2 * i), Records(2 * i + 1))
      BY <1>4, <2>1 DEF MergePair, Shape, i
    <3>2. Len(Records(2 * i)) = L /\ Len(Records(2 * i + 1)) = L
      BY <2>4 DEF Records
    <3>3. \A r, q : Len(r) + Len(q) \in Nat => Len(Merge(r, q)) = Len(r) + Len(q)
      BY MergeByTable, SMTT(20)
    <3> QED BY <3>1, <3>2, <3>3
  <2>6. pc'[t] = "inner" /\ id' = id /\ num_blocks' = num_blocks /\ size' = size /\ Pass
    BY <1>4 DEF MergePair, Goto, Shape, Pass, infoVars
  <2>7. HasPairs(t, W, p, m, L)'
    BY <1>2, <2>1, <2>3, <2>5, <2>6 DEF HasPairs
  <2> QED BY <1>2, <1>3, <2>1, <2>6, <2>7 DEF Writing, GoesOn
<1>5. CASE NextRound(t)
  <2>1. pc[t] = "pairs" /\ id[t] = t + m /\ num_blocks[t] = 2 * p
    BY <1>1, <1>2, <1>5 DEF NextRound, HasPairs, Writing
  <2>2. m >= p
    BY <1>0, <1>5, <2>1 DEF NextRound
  <2>3. pc'[t] = "outer" /\ id'[t] = t /\ num_blocks'[t] = p /\ size' = size /\ Pass
    BY <1>5, <2>1 DEF NextRound, Goto, Shape, Pass, infoVars
  <2>4. HasPairs(t, W, p, m, L)'
    BY <1>2, <2>2, <2>3 DEF HasPairs
  <2> QED BY <1>2, <1>3, <2>1, <2>3, <2>4 DEF Writing, GoesOn
<1>6. ~LastRound(t)
  <2>1. pc[t] = "pairs" /\ t \notin W => num_blocks[t] = 2 * p
    BY <1>1 DEF HasPairs, Writing
  <2> QED BY <1>0, <1>2, <2>1 DEF LastRound
<1>7. CASE Inner(t)
  <2>1. pc[t] = "inner" /\ m < p /\ id[t] = t + m /\ num_blocks[t] = 2 * p /\ Len(merged[t]) = 2 * L
    BY <1>1, <1>2, <1>7 DEF Inner, HasPairs, Writing
  <2>2. Arrive(t)
    BY <1>0, <1>7, <2>1 DEF Inner
  <2>3. pc'[t] = "writeData" /\ UNCHANGED <<id, num_blocks, merged, size>>
    BY <1>7 DEF Inner, Goto, Shape, mergeVars, infoVars
  <2>4. HasPairs(t, V, p, m, L)'
    BY <2>1, <2>3 DEF HasPairs
  <2> QED BY <1>2, <1>3, <2>1, <2>2, <2>3, <2>4 DEF Writing, Arrives
<1>8. CASE WriteData(t)
  <2>1. /\ pc[t] = "writeData" /\ m > 0 /\ id[t] = t + m - T /\ id[t] < p /\ num_blocks[t] = 2 * p
        /\ Len(merged[t]) = 2 * L
    BY <1>1, <1>2, <1>8 DEF WriteData, HasPairs, Writing
  <2>2. pc'[t] = "writeSize" /\ UNCHANGED <<id, num_blocks, merged, size>> /\ Pass
    BY <1>8 DEF WriteData, Goto, Shape, mergeVars, Pass
  <2>3. HasPairs(t, W, p, m, L)'
    BY <1>2, <2>1, <2>2 DEF HasPairs, Writing
  <2> QED BY <1>2, <1>3, <2>2, <2>3 DEF Writing, GoesOn
<1>9. CASE WriteSize(t)
  <2>1. /\ pc[t] = "writeSize" /\ m > 0 /\ id[t] = t + m - T /\ num_blocks[t] = 2 * p
        /\ Len(merged[t]) = 2 * L
    BY <1>1, <1>2, <1>9 DEF WriteSize, HasPairs, Writing
  <2>2. pc'[t] = "pairs" /\ id'[t] = id[t] + T /\ num_blocks' = num_blocks /\ Pass
    BY <1>9 DEF WriteSize, Goto, Shape, Pass
  <2>3. size' = [size EXCEPT ![id[t]] = 2 * L]
    BY <1>9, <2>1 DEF WriteSize
  <2>4. id[t] + T = t + m /\ id[t] < m
    BY <1>0, <2>1
  <2>5. HasPairs(t, W, p, m, L)'
    BY <1>2, <2>1, <2>2, <2>4 DEF HasPairs
  <2> QED BY <1>2, <1>3, <2>2, <2>3, <2>4, <2>5 DEF HasWritten
<1>10. CASE Outer(t)
  <2>1. pc[t] = "outer" /\ m >= p /\ id[t] = t /\ num_blocks[t] = p
    BY <1>1, <1>2, <1>10 DEF Outer, HasPairs, Writing
  <2>2. size[0] # N
    <3>1. 0 \in Blocks /\ 0 < p /\ 0 < m
      BY <1>0, <2>1, Constants
    <3>2. size[0] = L \/ size[0] = 2 * L
      BY <3>1 DEF InRow, SizesFit
    <3> QED BY <3>2, <1>0, Constants
  <2>3. Arrive(t)
    BY <1>10, <2>2 DEF Outer
  <2>4. pc'[t] = "pairs" /\ UNCHANGED <<id, num_blocks, merged, size>>
    BY <1>10 DEF Outer, Goto, Shape, mergeVars, infoVars
  <2>5. HasPairs(t, V, p, m, L)'
    BY <2>1, <2>4 DEF HasPairs
  <2> QED BY <1>2, <1>3, <2>1, <2>3, <2>4, <2>5 DEF Writing, Arrives
<1> QED BY <1>2, <1>4, <1>5, <1>6, <1>7, <1>8, <1>9, <1>10

\* The others are where they were, seen from this row.
LEMMA OthersFit ==
  ASSUME NEW t \in Threads, NEW u \in Threads, u # t, NEW W, NEW V, V = W \/ V = W \cup {t},
         NEW p, NEW m, NEW L, OthersStay(t)
  PROVE  /\ HasPairs(u, W, p, m, L) => HasPairs(u, V, p, m, L)'
         /\ Dropped(u) => Dropped(u)'
         /\ Ahead(u, W, p) => Ahead(u, V, p)'
         /\ Writing(u, W) => Writing(u, V)' /\ id'[u] = id[u]
<1>1. /\ pc'[u] = pc[u] /\ id'[u] = id[u] /\ num_blocks'[u] = num_blocks[u] /\ merged'[u] = merged[u]
      /\ u \in V <=> u \in W
  BY DEF OthersStay
<1>2. Writing(u, W) => Writing(u, V)' /\ id'[u] = id[u]
  BY <1>1 DEF Writing
<1>3. HasPairs(u, W, p, m, L) => HasPairs(u, V, p, m, L)'
  BY <1>1 DEF HasPairs, Writing
<1> QED BY <1>1, <1>2, <1>3 DEF Dropped, Ahead

LEMMA RowStep ==
  ASSUME NEW t \in Threads, Shape, InRounds(waiting), Step(t), B % T = 0
  PROVE  Stage(waiting)'
<1>0. PICK W : W = waiting
  OBVIOUS
<1>1. PICK p \in Nat, m \in Nat, L \in Nat : InRow(W, p, m, L)
  BY <1>0 DEF InRounds
<1>2. Row(p, m, L) /\ SizesFit(W, p, m, L) /\ size = [b \in Blocks |-> size[b]] /\ Blocks \subseteq Nat
  BY <1>1, Constants DEF InRow, Shape
<1>3. ASSUME NEW V, V = W \/ V = W \cup {t}, OthersStay(t), SizesFit(V, p, m, L)',
             IF t < p THEN HasPairs(t, V, p, m, L)' ELSE Dropped(t)' /\ Ahead(t, V, p)'
      PROVE  Stage(V)'
  <2>1. \A u \in Threads : IF u < p THEN HasPairs(u, V, p, m, L)' ELSE Dropped(u)'
    BY <1>1, <1>3, OthersFit DEF InRow
  <2>4. \A u \in Threads : ~(u < p) => Ahead(u, V, p)'
    BY <1>1, <1>3, OthersFit DEF InRow
  <2>2. InRow(V, p, m, L)'
    BY <1>2, <1>3, <2>1, <2>4 DEF InRow, Row
  <2>3. block_map' = Blocks
    BY <1>3 DEF InRounds, OthersStay
  <2> QED BY <2>2, <2>3 DEF Stage, InRounds
<1>4. ASSUME NEW V, V = W \/ V = W \cup {t}, OthersStay(t), size' = size,
             Writing(t, W) => Writing(t, V)' /\ id'[t] = id[t]
      PROVE  SizesFit(V, p, m, L)'
  <2>1. \A u \in Threads : Writing(u, W) => Writing(u, V)' /\ id'[u] = id[u]
    BY <1>4, OthersFit
  <2> QED BY <1>2, <1>4, <2>1 DEF SizesFit
<1>5. CASE t < p
  <2>0. PICK V : V = W \cup {t}
    OBVIOUS
  <2>1. /\ t \notin W /\ OthersStay(t)
        /\ GoesOn(t, W, p, m, L) \/ HasWritten(t, W, p, m, L) \/ Arrives(t, W, V, p, m, L)
    BY <1>0, <1>1, <1>5, <2>0, ActiveStep
  <2>2. CASE GoesOn(t, W, p, m, L)
    <3> USE <2>2 DEF GoesOn
    <3>1. Stage(W)'
      BY <1>3, <1>4, <1>5, <2>1, <2>2
    <3> QED BY <1>0, <2>2, <3>1, StageOfWaiting DEF Pass
  <2>3. CASE HasWritten(t, W, p, m, L)
    <3> USE <2>3 DEF HasWritten
    <3>1. \A i \in Blocks : size'[i] = IF i = id[t] THEN 2 * L ELSE size[i]
      BY <1>2, <2>3
    <3>2. \A u \in Threads : u # t /\ Writing(u, W) => Writing(u, W)' /\ id'[u] = id[u]
      BY <2>1, OthersFit
    <3>3. ASSUME NEW i \in Blocks, i < p, i < m
          PROVE  \/ size'[i] = 2 * L
                 \/ size'[i] = L /\ \E u \in Threads : u < p /\ Writing(u, W)' /\ id'[u] = i
      <4>1. CASE i = id[t]
        BY <3>1, <4>1
      <4>2. CASE i # id[t]
        BY <1>2, <3>1, <3>2, <3>3, <4>2 DEF SizesFit
      <4> QED BY <4>1, <4>2
    <3>4. ASSUME NEW i \in Blocks, i < 2 * p, i >= m
          PROVE  size'[i] = L
      <4>1. i # id[t]
        BY <1>2, <2>3, <3>4
      <4> QED BY <1>2, <3>1, <3>4, <4>1 DEF SizesFit
    <3>5. SizesFit(W, p, m, L)'
      BY <3>3, <3>4 DEF SizesFit
    <3>6. Stage(W)'
      BY <1>3, <1>5, <2>1, <2>3, <3>5
    <3> QED BY <1>0, <2>3, <3>6, StageOfWaiting DEF Pass
  <2>4. CASE Arrives(t, W, V, p, m, L)
    <3> USE <2>4 DEF Arrives
    <3>1. Stage(V)'
      BY <1>3, <1>4, <1>5, <2>0, <2>1, <2>4
    <3> QED BY <1>0, <2>0, <2>1, <2>4, <3>1, Arrived DEF Shape
  <2> QED BY <2>1, <2>2, <2>3, <2>4
<1>6. CASE ~(t < p)
  <2>1. Dropped(t) /\ Ahead(t, W, p) /\ p >= 1
    BY <1>1, <1>2, <1>6 DEF InRow, Row
  <2>2. Dropped(t)' /\ OthersStay(t) /\ size' = size /\ t \notin waiting
    BY <2>1, DroppedStep
  <2>3. ~Writing(t, W)
    BY <2>1 DEF Dropped, Writing
  <2>4. CASE Pass /\ Ahead(t, W, p)'
    <3>1. Stage(W)'
      BY <1>3, <1>4, <1>6, <2>2, <2>3, <2>4
    <3> QED BY <1>0, <2>4, <3>1, StageOfWaiting DEF Pass
  <2>5. CASE Arrive(t) /\ Ahead(t, W \cup {t}, p)'
    <3>1. PICK V : V = W \cup {t}
      OBVIOUS
    <3>2. Stage(V)'
      BY <1>3, <1>4, <1>6, <2>2, <2>3, <2>5, <3>1
    <3> QED BY <1>0, <2>2, <2>5, <3>1, <3>2, Arrived DEF Shape
  <2> QED BY <1>0, <2>1, <2>2, <2>4, <2>5, AheadStep
<1> QED BY <1>5, <1>6

LEMMA MainStep ==
  ASSUME Shape, LastPair \/ Whole, Step(0)
  PROVE  LastPair' \/ Whole'
<1>0. /\ 0 \in Threads /\ 0 \in Blocks /\ T >= 1 /\ T \in Nat /\ N \in Nat /\ 2 \div 2 = 1 /\ 1 \div 2 = 0
      /\ size = [b \in Blocks |-> size[b]] /\ merged = [t \in Threads |-> merged[t]]
      /\ id \in [Threads -> Nat] /\ num_blocks \in [Threads -> Nat] /\ pc \in [Threads -> PCs]
  BY Constants DEF Shape
<1>1. \/ MergePair(0) \/ NextRound(0) \/ LastRound(0) \/ Inner(0) \/ WriteData(0)
      \/ WriteSize(0) \/ Outer(0) \/ Final(0)
  BY DEF LastPair, Whole, At, Step, Enter, Claim, Sort, NextBlock, EndOfSort
<1>2. CASE MergePair(0)
  <2>1. pc[0] = "pairs" /\ id[0] < num_blocks[0] \div 2
    BY <1>2 DEF MergePair, At
  <2>2. LastPair /\ id[0] = 0 /\ size[0] \in Nat /\ size[0] = size[1] /\ 2 * size[0] = N
    BY <1>0, <2>1 DEF LastPair, Whole
  <2>3. pc'[0] = "inner" /\ id' = id /\ num_blocks' = num_blocks
        /\ merged'[0] = Merge(Records(0), Records(1))
    BY <1>0, <1>2, <2>2 DEF MergePair, Goto
  <2>4. Len(merged'[0]) = N
    <3>1. size[0] \in Nat
      BY <1>0, <2>2
    <3>2. Len(Records(0)) = size[0] /\ Len(Records(1)) = size[0]
      BY <2>2, <3>1 DEF Records
    <3>3. \A r, q : Len(r) + Len(q) \in Nat => Len(Merge(r, q)) = Len(r) + Len(q)
      BY MergeByTable, SMTT(20)
    <3> QED BY <2>2, <2>3, <3>1, <3>2, <3>3
  <2> QED BY <2>2, <2>3, <2>4 DEF LastPair
<1>3. CASE NextRound(0)
  <2>1. pc[0] = "pairs" /\ id[0] >= num_blocks[0] \div 2 /\ num_blocks[0] > 1
    BY <1>3 DEF NextRound, At
  <2>2. num_blocks[0] = 2 /\ size[0] = N
    BY <1>0, <2>1 DEF LastPair, Whole
  <2>3. pc'[0] = "outer" /\ id'[0] = 0 /\ num_blocks'[0] = 1 /\ size' = size
    BY <1>0, <1>3, <2>2 DEF NextRound, Goto, infoVars
  <2> QED BY <2>2, <2>3 DEF Whole
<1>4. CASE LastRound(0) \/ Outer(0) \/ Final(0)
  <2>1. Whole
    BY <1>0, <1>4 DEF LastRound, Outer, Final, At, LastPair, Whole
  <2>2. /\ pc'[0] \in {"final", "pairs", "done"} /\ UNCHANGED <<size, num_blocks, id>>
    BY <1>0, <1>4 DEF LastRound, Outer, Final, Goto, infoVars, mergeVars
  <2> QED BY <2>1, <2>2 DEF Whole
<1>5. CASE Inner(0) \/ WriteData(0)
  <2>1. pc[0] \in {"inner", "writeData"} /\ LastPair
    BY <1>5 DEF Inner, WriteData, At, LastPair, Whole
  <2>2. pc'[0] \in {"writeData", "writeSize"} /\ UNCHANGED <<merged, num_blocks, id>>
    BY <1>0, <1>5 DEF Inner, WriteData, Goto, mergeVars
  <2> QED BY <2>1, <2>2 DEF LastPair
<1>6. CASE WriteSize(0)
  <2>1. LastPair /\ id[0] = 0 /\ Len(merged[0]) = N
    BY <1>6 DEF WriteSize, At, LastPair, Whole
  <2>2. pc'[0] = "pairs" /\ id'[0] = T /\ num_blocks' = num_blocks /\ size'[0] = N
    BY <1>0, <1>6, <2>1 DEF WriteSize, Goto
  <2> QED BY <2>1, <2>2 DEF LastPair
<1> QED BY <1>1, <1>2, <1>3, <1>4, <1>5, <1>6

LEMMA OnlyMainStep ==
  ASSUME NEW t \in Threads, Shape, OnlyMain, Step(t)
  PROVE  Stage(waiting)'
<1>1. CASE t = 0
  <2>1. \/ MergePair(t) \/ NextRound(t) \/ LastRound(t) \/ Inner(t) \/ WriteData(t)
        \/ WriteSize(t) \/ Outer(t) \/ Final(t)
    BY <1>1 DEF OnlyMain, LastPair, Whole, At, Step, Enter, Claim, Sort, NextBlock, EndOfSort
  <2>2. \E label \in Merging : Goto(t, label)
    BY <2>1 DEF Merging, MergePair, NextRound, LastRound, Inner, WriteData, WriteSize, Outer, Final
  <2>3. \A u \in Threads \ {0} : pc'[u] = pc[u]
    BY <1>1, <2>2, OnlyOne DEF Shape
  <2>4. block_map' = block_map
    BY <2>1 DEF MergePair, NextRound, LastRound, Inner, WriteData, WriteSize, Outer, Final, sortVars
  <2>5. \A u \in Threads \ {0} : id'[u] = id[u] /\ num_blocks'[u] = num_blocks[u]
    BY <1>1, <2>1 DEF MergePair, NextRound, LastRound, Inner, WriteData, WriteSize, Outer, Final,
                      mergeVars, Shape
  <2>6. LastPair' \/ Whole'
    BY <1>1, MainStep DEF OnlyMain
  <2>7. OnlyMain'
    BY <2>3, <2>4, <2>5, <2>6 DEF OnlyMain, Dropped, Ahead
  <2> QED BY <2>7 DEF Stage
<1>2. CASE t # 0
  <2>1. Dropped(t)' /\ OthersStay(t) /\ size' = size
    BY <1>2, DroppedStep DEF OnlyMain
  <2>2. \A u \in Threads \ {0} : Dropped(u)' /\ Ahead(u, {}, 1)'
    <3>1. ASSUME NEW u \in Threads \ {0}, u # t
          PROVE  Dropped(u)' /\ Ahead(u, {}, 1)'
      BY <2>1, <3>1 DEF OnlyMain, OthersStay, Dropped, Ahead
    <3>2. Ahead(t, {}, 1)'
      <4>1. Ahead(t, {}, 1)' \/ Ahead(t, {} \cup {t}, 1)'
        BY <1>2, AheadStep DEF OnlyMain
      <4>2. Dropped(t)' => num_blocks'[t] \in 1..B
        BY DEF Dropped
      <4> QED BY <2>1, <4>1, <4>2, Constants DEF Ahead
    <3> QED BY <2>1, <3>1, <3>2
  <2>3. /\ pc'[0] = pc[0] /\ id'[0] = id[0] /\ num_blocks'[0] = num_blocks[0] /\ merged'[0] = merged[0]
        /\ block_map' = block_map
    BY <1>2, <2>1, Constants DEF OthersStay
  <2>4. OnlyMain'
    <3>1. (LastPair => LastPair') /\ (Whole => Whole')
      BY <2>1, <2>3 DEF LastPair, Whole
    <3> QED BY <2>2, <2>3, <3>1 DEF OnlyMain
  <2> QED BY <2>4 DEF Stage
<1> QED BY <1>1, <1>2

-----------------------------------------------------------------------------
\* The two phases of a part, whether T divides B or not.

AllMerge == block_map = Blocks /\ \A t \in Threads : pc[t] \in Merging

PhaseStrengthened ==
  Shape /\ (NotRunning \/ Beginning(waiting) \/ Sorting(waiting) \/ AllMerge)

LEMMA PhaseUnchanged ==
  ASSUME PhaseStrengthened, UNCHANGED <<block_map, size, pc, num_blocks, id, merged, waiting>>
  PROVE  PhaseStrengthened'
BY DEF PhaseStrengthened, Shape, NotRunning, Beginning, Sorting, Unmerged, AllMerge

LEMMA PhaseGoesOn ==
  ASSUME NEW t \in Threads, PhaseStrengthened, Step(t)
  PROVE  PhaseStrengthened'
<1>1. Shape /\ Shape'
  BY ShapeStep DEF PhaseStrengthened
<1>2. ~NotRunning
  BY DEF NotRunning, At, Step, Enter, Claim, Sort, NextBlock, EndOfSort, MergePair, NextRound,
         LastRound, Inner, WriteData, WriteSize, Outer, Final
<1>3. CASE Beginning(waiting)
  BY <1>1, <1>3, BeginningStep DEF PhaseStrengthened
<1>4. CASE Sorting(waiting)
  <2>1. Sorting(Threads)' => AllMerge'
    BY Constants DEF Sorting, AllMerge, Merging
  <2> QED BY <1>1, <1>4, <2>1, SortingStep DEF PhaseStrengthened
<1>5. CASE AllMerge
  <2>1. \/ MergePair(t) \/ NextRound(t) \/ LastRound(t) \/ Inner(t) \/ WriteData(t)
        \/ WriteSize(t) \/ Outer(t) \/ Final(t)
    BY <1>5 DEF AllMerge, Merging, At, Step, Enter, Claim, Sort, NextBlock, EndOfSort
  <2>2. \E label \in Merging : Goto(t, label)
    BY <2>1 DEF Merging, MergePair, NextRound, LastRound, Inner, WriteData, WriteSize, Outer, Final
  <2>3. \A u \in Threads : pc'[u] \in Merging
    BY <1>1, <1>5, <2>2, OnlyOne DEF AllMerge, Shape
  <2>4. block_map' = block_map
    BY <2>1 DEF MergePair, NextRound, LastRound, Inner, WriteData, WriteSize, Outer, Final, sortVars
  <2> QED BY <1>1, <1>5, <2>3, <2>4 DEF AllMerge, PhaseStrengthened
<1> QED BY <1>2, <1>3, <1>4, <1>5 DEF PhaseStrengthened

LEMMA PhaseExits ==
  ASSUME PhaseStrengthened, Exit
  PROVE  PhaseStrengthened'
<1>1. pc[0] = "done" /\ Goto(0, "exited") /\ 0 \in Threads
      /\ UNCHANGED <<block_map, size, num_blocks, id, merged, waiting>>
  BY Constants DEF Exit, At, infoVars, sortVars, mergeVars
<1>2. Shape'
  BY <1>1 DEF PhaseStrengthened, Shape, Goto, PCs
<1>3. AllMerge
  BY <1>1 DEF PhaseStrengthened, NotRunning, Beginning, Sorting
<1>4. AllMerge'
  BY <1>1, <1>3, OnlyOne DEF PhaseStrengthened, Shape, AllMerge, Merging
<1> QED BY <1>2, <1>4 DEF PhaseStrengthened

LEMMA PhaseStep == PhaseStrengthened /\ [Next]_vars => PhaseStrengthened'
<1> SUFFICES ASSUME PhaseStrengthened, [Next]_vars
             PROVE  PhaseStrengthened'
  OBVIOUS
<1>1. CASE UNCHANGED sortIndexVars
  BY <1>1, PhaseUnchanged DEF sortIndexVars, infoVars, sortVars, mergeVars
<1>2. CASE Launch
  <2>1. Start(Part)
    BY <1>2 DEF Launch
  <2>2. Shape'
    BY <2>1, Constants DEF Start, Shape, PCs
  <2>3. Beginning(waiting)'
    BY <2>1 DEF Start, Beginning, Unmerged
  <2> QED BY <2>2, <2>3 DEF PhaseStrengthened
<1>3. CASE WriteBack
  BY <1>3, PhaseExits, PhaseUnchanged DEF WriteBack, CopyRecord, sortVars, mergeVars
<1>4. ASSUME NEW t \in Threads, ThreadStep(t)
      PROVE  PhaseStrengthened'
  BY <1>4, PhaseGoesOn DEF ThreadStep
<1>5. CASE Ended
  <2>1. Killed
    BY <1>5 DEF Ended
  <2>2. Shape' /\ NotRunning'
    BY <2>1 DEF Killed, infoVars, sortVars, mergeVars, PhaseStrengthened, Shape, PCs, NotRunning
  <2> QED BY <2>2 DEF PhaseStrengthened
<1>6. CASE (\E f \in Files : Generate(f)) \/ Reap \/ GiveUp \/ ForkFails \/ UNCHANGED vars
  BY <1>1, <1>6 DEF Generate, Reap, GiveUp, ForkFails, vars
<1> QED BY <1>2, <1>3, <1>4, <1>5, <1>6 DEF Next, Driver, Thread, Sigbus, Kill

(***************************************************************************)
(* For any number of threads and blocks: nobody merges while a block is    *)
(* still being sorted or has not been claimed.                             *)
(***************************************************************************)
THEOREM SortingComesFirst == Spec => []SortedBeforeMerged
<1>1. Init => PhaseStrengthened
  BY Constants DEF Init, NotStarted, PhaseStrengthened, Shape, PCs, NotRunning
<1>2. PhaseStrengthened => SortedBeforeMerged
  BY DEF PhaseStrengthened, SortedBeforeMerged, NotRunning, Beginning, Sorting, AllMerge, Merging
<1> QED BY <1>1, <1>2, PhaseStep, PTL DEF Spec

-----------------------------------------------------------------------------
\* The process as a whole.

LEMMA StageUnchanged ==
  ASSUME SortStrengthened, UNCHANGED <<block_map, size, pc, num_blocks, id, merged, waiting>>
  PROVE  SortStrengthened'
<1>1. UNCHANGED <<block_map, size, pc, num_blocks, id, merged, waiting>>
  OBVIOUS
<1>2. Shape'
  BY <1>1 DEF SortStrengthened, Shape
<1>3. NotRunning => NotRunning'
  BY <1>1 DEF NotRunning
<1>4. Beginning(waiting) => Beginning(waiting)'
  BY <1>1 DEF Beginning, Unmerged
<1>5. Sorting(waiting) => Sorting(waiting)'
  BY <1>1 DEF Sorting, Unmerged
<1>6. InRounds(waiting) => InRounds(waiting)'
  <2>1. \A p, m, L : InRow(waiting, p, m, L) => InRow(waiting, p, m, L)'
    BY <1>1 DEF InRow, HasPairs, Writing, Dropped, Ahead, SizesFit
  <2> QED BY <1>1, <2>1 DEF InRounds
<1>7. OnlyMain => OnlyMain'
  BY <1>1 DEF OnlyMain, LastPair, Whole, Dropped, Ahead
<1> QED BY <1>2, <1>3, <1>4, <1>5, <1>6, <1>7 DEF SortStrengthened, Stage

LEMMA SortInit == Init => SortStrengthened
<1> SUFFICES ASSUME Init
             PROVE  SortStrengthened
  OBVIOUS
<1>1. \A t \in Threads : t \in Nat
  BY Constants
<1>2. Shape
  BY <1>1, Constants DEF Init, NotStarted, Shape, PCs
<1>3. NotRunning
  BY DEF Init, NotStarted, NotRunning
<1> QED BY <1>2, <1>3 DEF SortStrengthened

LEMMA SortLaunched ==
  ASSUME Launch
  PROVE  SortStrengthened'
<1>1. Start(Part)
  BY DEF Launch
<1>2. Shape'
  BY <1>1, Constants DEF Start, Shape, PCs
<1>3. Beginning(waiting)'
  BY <1>1 DEF Start, Beginning, Unmerged
<1> QED BY <1>2, <1>3 DEF SortStrengthened, Stage

LEMMA SortGoesOn ==
  ASSUME NEW t \in Threads, SortStrengthened, Step(t), B % T = 0
  PROVE  SortStrengthened'
<1>1. Shape /\ Shape'
  BY ShapeStep DEF SortStrengthened
<1>2. ~NotRunning
  BY DEF NotRunning, At, Step, Enter, Claim, Sort, NextBlock, EndOfSort, MergePair, NextRound,
         LastRound, Inner, WriteData, WriteSize, Outer, Final
<1>3. Beginning(waiting) \/ Sorting(waiting) \/ InRounds(waiting) \/ OnlyMain
  BY <1>2 DEF SortStrengthened, Stage
<1>4. CASE Beginning(waiting)
  BY <1>1, <1>4, BeginningStep DEF SortStrengthened, Stage
<1>5. CASE Sorting(waiting)
  <2>1. CASE Sorting(waiting)'
    BY <1>1, <2>1 DEF SortStrengthened, Stage
  <2>2. CASE waiting' = {} /\ Sorting(Threads)'
    <3>1. Stage({})'
      BY <2>2, BarrierOpensNext DEF AllWait, NobodyWaits, Stage
    <3>2. Stage(waiting)'
      BY <2>2, <3>1, StageOfWaiting
    <3> QED BY <1>1, <3>2 DEF SortStrengthened
  <2> QED BY <1>1, <1>5, <2>1, <2>2, SortingStep
<1>6. CASE InRounds(waiting) \/ OnlyMain
  <2>1. Stage(waiting)'
    BY <1>1, <1>6, RowStep, OnlyMainStep
  <2> QED BY <1>1, <2>1 DEF SortStrengthened
<1> QED BY <1>3, <1>4, <1>5, <1>6

LEMMA SortExits ==
  ASSUME SortStrengthened, Exit
  PROVE  SortStrengthened'
<1>1. pc[0] = "done" /\ 0 \notin waiting /\ Goto(0, "exited") /\ 0 \in Threads
      /\ UNCHANGED <<block_map, size, num_blocks, id, merged, waiting>>
  BY Constants DEF Exit, At, infoVars, sortVars, mergeVars
<1>2. Shape'
  BY <1>1 DEF SortStrengthened, Shape, Goto, PCs
<1>3. OnlyMain
  <2>1. ~NotRunning /\ ~Beginning(waiting) /\ ~Sorting(waiting)
    BY <1>1 DEF NotRunning, Beginning, Sorting
  <2>2. ~InRounds(waiting)
    <3>1. ASSUME NEW p \in Nat, NEW m \in Nat, NEW L \in Nat, InRow(waiting, p, m, L)
          PROVE  FALSE
      <4>1. 0 < p
        BY <3>1 DEF InRow, Row
      <4>2. HasPairs(0, waiting, p, m, L)
        BY <1>1, <3>1, <4>1 DEF InRow
      <4> QED BY <1>1, <4>2 DEF HasPairs, Writing
    <3> QED BY <3>1 DEF InRounds
  <2> QED BY <2>1, <2>2 DEF SortStrengthened, Stage
<1>4. OnlyMain'
  <2>1. pc'[0] = "exited" /\ \A u \in Threads \ {0} : pc'[u] = pc[u]
    BY <1>1, OnlyOne DEF SortStrengthened, Shape
  <2>2. \A u \in Threads \ {0} : Dropped(u)' /\ Ahead(u, {}, 1)'
    BY <1>1, <1>3, <2>1 DEF OnlyMain, Dropped, Ahead
  <2>3. Whole'
    BY <1>1, <1>3, <2>1 DEF OnlyMain, LastPair, Whole
  <2>4. block_map' = Blocks
    BY <1>1, <1>3 DEF OnlyMain
  <2> QED BY <2>2, <2>3, <2>4 DEF OnlyMain
<1> QED BY <1>2, <1>4 DEF SortStrengthened, Stage

LEMMA SortIsKilled ==
  ASSUME SortStrengthened, Killed
  PROVE  SortStrengthened'
<1>1. pc' = [t \in Threads |-> "killed"]
      /\ UNCHANGED <<block_map, size, num_blocks, id, merged, waiting>>
  BY DEF Killed, infoVars, sortVars, mergeVars
<1>2. Shape'
  BY <1>1 DEF SortStrengthened, Shape, PCs
<1>3. NotRunning'
  BY <1>1 DEF NotRunning
<1> QED BY <1>2, <1>3 DEF SortStrengthened

LEMMA SortStep ==
  ASSUME B % T = 0
  PROVE  SortStrengthened /\ [Next]_vars => SortStrengthened'
<1> SUFFICES ASSUME SortStrengthened, [Next]_vars
             PROVE  SortStrengthened'
  OBVIOUS
<1>1. CASE (\E f \in Files : Generate(f)) \/ Reap \/ GiveUp \/ ForkFails
  BY <1>1, StageUnchanged
     DEF Generate, Reap, GiveUp, ForkFails, sortIndexVars, infoVars, sortVars, mergeVars
<1>2. CASE Launch
  BY <1>2, SortLaunched
<1>3. CASE WriteBack
  BY <1>3, SortExits, StageUnchanged DEF WriteBack, CopyRecord, sortVars, mergeVars
<1>4. ASSUME NEW t \in Threads, ThreadStep(t)
      PROVE  SortStrengthened'
  BY <1>4, SortGoesOn DEF ThreadStep
<1>5. CASE Ended
  BY <1>5, SortIsKilled DEF Ended
<1>6. CASE UNCHANGED vars
  BY <1>6, StageUnchanged DEF vars, sortIndexVars, infoVars, sortVars, mergeVars
<1> QED BY <1>1, <1>2, <1>3, <1>4, <1>5, <1>6 DEF Next, Driver, Thread, Sigbus, Kill

LEMMA NoRaceFollows == SortStrengthened => NoRaceOnBlockInfo
<1> SUFFICES ASSUME SortStrengthened, NEW t \in Threads, NEW u \in Threads, t # u
             PROVE  Writes(t) \cap (Reads(u) \cup Writes(u))
                      \subseteq IF pc[u] = "outer" THEN {<<"size", 0>>} ELSE {}
  BY DEF NoRaceOnBlockInfo
<1>0. /\ t \in Nat /\ u \in Nat /\ t < T /\ u < T /\ T \in Nat
      /\ num_blocks[t] \in Nat /\ num_blocks[u] \in Nat
  BY Constants DEF SortStrengthened, Shape, Threads
<1>1. ASSUME NEW v \in Threads, Dropped(v), v # 0
      PROVE  /\ Reads(v) \subseteq IF pc[v] = "outer" THEN {<<"size", 0>>} ELSE {}
             /\ Writes(v) = {}
  <2>1. num_blocks[v] \div 2 \in Nat /\ v \in Nat
    BY Constants DEF SortStrengthened, Shape
  <2>2. ~(id[v] < num_blocks[v] \div 2)
    BY <1>1, <2>1 DEF Dropped
  <2> QED BY <1>1, <2>2 DEF Dropped, Reads, Writes
<1>2. CASE NotRunning \/ Beginning(waiting) \/ Sorting(waiting)
  BY <1>2 DEF NotRunning, Beginning, Sorting, Writes
<1>3. CASE InRounds(waiting)
  <2>1. PICK p \in Nat, m \in Nat, L \in Nat : InRow(waiting, p, m, L)
    BY <1>3 DEF InRounds
  <2>2. m = 0 \/ m >= T
    BY <2>1, RowFacts DEF InRow
  <2>5. 0 < p
    BY <2>1 DEF InRow, Row
  <2>3. CASE ~(t < p) \/ ~(u < p)
    <3>1. CASE ~(t < p)
      BY <1>1, <2>1, <2>5, <3>1 DEF InRow
    <3>2. CASE ~(u < p)
      BY <1>1, <2>1, <2>5, <3>2 DEF InRow
    <3> QED BY <2>3, <3>1, <3>2
  <2>4. CASE t < p /\ u < p
    <3>1. HasPairs(t, waiting, p, m, L) /\ HasPairs(u, waiting, p, m, L)
      BY <2>1, <2>4 DEF InRow
    <3>2. ASSUME NEW v \in Threads, HasPairs(v, waiting, p, m, L), Writes(v) # {}
          PROVE  m > 0 /\ Writes(v) \subseteq Entry(v + m - T)
      <4>1. pc[v] \in {"writeData", "writeSize"} /\ v \notin waiting
        BY <3>2 DEF Writes, HasPairs, Writing
      <4>2. m > 0 /\ id[v] = v + m - T
        BY <3>2, <4>1 DEF HasPairs
      <4>3. Writes(v) = {<<"data", id[v]>>} \/ Writes(v) = {<<"size", id[v]>>}
        BY <4>1 DEF Writes
      <4> QED BY <4>2, <4>3 DEF Entry
    <3>3. \/ Reads(u) \subseteq Entry(2 * (u + m)) \cup Entry(2 * (u + m) + 1)
          \/ pc[u] = "outer" /\ Reads(u) = {<<"size", 0>>} /\ Writes(u) = {}
      <4>1. CASE pc[u] = "pairs" /\ u \notin waiting
        <5>1. id[u] = u + m
          BY <3>1, <4>1 DEF HasPairs, Writing
        <5>2. PICK i : i = u + m
          OBVIOUS
        <5>3. Reads(u) = {} \/ Reads(u) = Entry(2 * i) \cup Entry(2 * i + 1)
          BY <4>1, <5>1, <5>2 DEF Reads
        <5> QED BY <5>2, <5>3
      <4>2. CASE pc[u] = "outer" /\ u \notin waiting
        BY <4>2 DEF Reads, Writes
      <4>3. CASE pc[u] \notin {"pairs", "outer"} \/ u \in waiting
        <5>1. Reads(u) = {}
          BY <3>1, <4>3 DEF Reads, HasPairs, Writing
        <5> QED BY <5>1
      <4> QED BY <4>1, <4>2, <4>3
    <3>4. CASE Writes(t) = {}
      BY <3>4
    <3>5. CASE Writes(t) # {}
      <4>1. m >= T /\ Writes(t) \subseteq Entry(t + m - T)
        BY <1>0, <2>2, <3>1, <3>2, <3>5
      <4>2. t + m - T # 2 * (u + m) /\ t + m - T # 2 * (u + m) + 1
        BY <1>0, <4>1
      <4>3. t + m - T # u + m - T
        BY <1>0
      <4>4. Writes(u) \subseteq Entry(u + m - T)
        BY <3>1, <3>2
      <4>5. \A x, y : x # y => Entry(x) \cap Entry(y) = {}
        BY DEF Entry
      <4>6. PICK i, j, k, l : i = t + m - T /\ j = u + m - T /\ k = 2 * (u + m) /\ l = 2 * (u + m) + 1
        OBVIOUS
      <4>7. /\ Writes(t) \subseteq Entry(i) /\ Writes(u) \subseteq Entry(j)
            /\ Entry(i) \cap Entry(j) = {} /\ Entry(i) \cap Entry(k) = {} /\ Entry(i) \cap Entry(l) = {}
        BY <4>1, <4>2, <4>3, <4>4, <4>5, <4>6
      <4>8. \/ Reads(u) \subseteq Entry(k) \cup Entry(l)
            \/ pc[u] = "outer" /\ Reads(u) = {<<"size", 0>>} /\ Writes(u) = {}
        BY <3>3, <4>6
      <4> QED BY ONLY <4>7, <4>8
    <3> QED BY <3>4, <3>5
  <2> QED BY <2>3, <2>4
<1>4. CASE OnlyMain
  <2>1. CASE t # 0
    BY <1>1, <1>4, <2>1 DEF OnlyMain
  <2>2. CASE u # 0
    BY <1>1, <1>4, <2>2 DEF OnlyMain
  <2> QED BY <2>1, <2>2
<1> QED BY <1>2, <1>3, <1>4 DEF SortStrengthened, Stage

LEMMA NobodyPasses == SortStrengthened => NobodyIsLetPast
<1> SUFFICES ASSUME SortStrengthened, NEW t \in Threads, pc[t] = "outer", num_blocks[t] > 1
             PROVE  size[0] # N
  BY DEF NobodyIsLetPast
<1>1. ~NotRunning /\ ~Beginning(waiting) /\ ~Sorting(waiting)
  BY DEF NotRunning, Beginning, Sorting
<1>2. ~OnlyMain
  <2>1. num_blocks[t] \in Nat
    BY DEF SortStrengthened, Shape
  <2> QED BY <2>1, Constants DEF OnlyMain, LastPair, Whole, Ahead
<1>3. PICK p \in Nat, m \in Nat, L \in Nat : InRow(waiting, p, m, L)
  BY <1>1, <1>2 DEF SortStrengthened, Stage, InRounds
<1>4. p >= 2 /\ L < N /\ 2 * L < N
  BY <1>3, RowFacts DEF InRow
<1>5. size[0] = L \/ size[0] = 2 * L
  <2>1. 0 \in Blocks /\ 0 < p /\ 0 < 2 * p /\ (0 < m \/ 0 >= m)
    BY <1>4, Constants
  <2> QED BY <1>3, <2>1 DEF InRow, SizesFit
<1> QED BY <1>4, <1>5, Constants

(***************************************************************************)
(* If the number of threads divides the number of blocks, nobody merges    *)
(* before all blocks are sorted, nobody writes a field of block_info that  *)
(* another thread merges from, copies or writes, and the read of its first *)
(* size at the end of a round, which a write may meet (line 159), lets     *)
(* nobody past the barrier; in every part of the file, for any number of   *)
(* blocks, records and files.                                              *)
(***************************************************************************)
THEOREM ThreadsKeepApart ==
  ASSUME B % T = 0
  PROVE  Spec => []SortInvariant
<1>1. Init => SortStrengthened
  BY SortInit
<1>2. SortStrengthened /\ [Next]_vars => SortStrengthened'
  BY SortStep
<1>3. SortedBeforeMerged /\ SortStrengthened => SortInvariant
  BY NoRaceFollows, NobodyPasses DEF SortInvariant
<1> QED BY <1>1, <1>2, <1>3, SortingComesFirst, PTL DEF Spec

-----------------------------------------------------------------------------
\* Blocks, parts and their records.

LEMMA SegJoin ==
  ASSUME NEW part, NEW b \in Nat, NEW l \in Nat
  PROVE  Seg(part, 2 * b, l) \cup Seg(part, 2 * b + 1, l) = Seg(part, b, 2 * l)
<1>1. PICK c \in Nat : c = b * l
  <2>1. b * l \in Nat
    OBVIOUS
  <2> QED BY <2>1
<1>2. /\ (2 * b) * l = 2 * c /\ (2 * b + 1) * l = 2 * c + l /\ (2 * b + 1 + 1) * l = 2 * c + 2 * l
      /\ b * (2 * l) = 2 * c /\ (b + 1) * (2 * l) = 2 * c + 2 * l
  BY <1>1
<1>3. (2 * c + 1..2 * c + l) \cup (2 * c + l + 1..2 * c + 2 * l) = 2 * c + 1..2 * c + 2 * l
  BY <1>1
<1>4. Seg(part, 2 * b, l) = {part[x] : x \in 2 * c + 1..2 * c + l}
      /\ Seg(part, 2 * b + 1, l) = {part[x] : x \in 2 * c + l + 1..2 * c + 2 * l}
      /\ Seg(part, b, 2 * l) = {part[x] : x \in 2 * c + 1..2 * c + 2 * l}
  BY <1>2 DEF Seg
<1> QED BY ONLY <1>3, <1>4

LEMMA WholeSeg ==
  ASSUME NEW part \in [1..N -> Nat]
  PROVE  Seg(part, 0, N) = Range(part)
<1>1. 0 * N + 1 = 1 /\ (0 + 1) * N = N
  BY Constants
<1> QED BY <1>1 DEF Seg, Range

LEMMA BlockFacts ==
  ASSUME NEW part \in [1..N -> Nat], NEW b \in Blocks
  PROVE  /\ BlockOf(part, b) \in Seq(Nat) /\ Len(BlockOf(part, b)) = R
         /\ Range(BlockOf(part, b)) = Seg(part, b, R)
<1>1. PICK c \in Nat : c = b * R
  <2>1. b * R \in Nat
    BY Constants
  <2> QED BY <2>1
<1>2. (b + 1) * R = c + R /\ c + R <= N /\ R \in Nat /\ N \in Nat
  <2>1. \A x, y, z \in Nat : x + 1 <= y => x * z + z <= y * z
    BY SMT
  <2>2. b \in Nat /\ b + 1 <= B /\ B \in Nat /\ R \in Nat /\ N = B * R /\ N \in Nat
    BY Constants DEF Blocks
  <2> QED BY <1>1, <2>1, <2>2
<1>3. PICK w : w = SubSeq(part, c + 1, c + R)
  OBVIOUS
<1>4. w = BlockOf(part, b)
  BY <1>1, <1>2, <1>3 DEF BlockOf
<1>5. \A x \in c + 1..c + R : part[x] \in Nat
  BY <1>1, <1>2
<1>6. w = [k \in 1..R |-> part[c + k]]
  <2>1. part \in Seq(Nat) /\ Len(part) = N
    BY <1>2
  <2>2. PICK d, e \in Nat : d = c + 1 /\ e = c + R
    BY <1>1, <1>2
  <2>3. w = SubSeq(part, d, e) /\ e <= Len(part) /\ d >= 1 /\ d + R = e + 1
    BY <1>2, <1>3, <2>1, <2>2
  <2>4. w \in Seq(Nat) /\ Len(w) = R
    BY <1>2, <2>1, <2>3
  <2>5. ASSUME NEW k \in 1..R
        PROVE  w[k] = part[c + k]
    <3>1. k \in 1..e - d + 1 /\ d + k - 1 = c + k /\ k + d - 1 = c + k
      <4>1. k \in Nat /\ k >= 1 /\ k <= R /\ R \in Nat
        BY <1>2
      <4> QED BY ONLY c \in Nat, d \in Nat, e \in Nat, <2>2, <4>1
    <3>2. w[k] = part[d + k - 1]
      BY <2>1, <2>3, <3>1, SMTT(20)
    <3> QED BY <3>1, <3>2
  <2> QED BY <2>4, <2>5
<1>7. \A k \in 1..R : c + k \in c + 1..c + R
  BY <1>1, <1>2
<1>8. w \in Seq(Nat) /\ Len(w) = R
  BY <1>2, <1>5, <1>6, <1>7
<1>9. Range(w) = {part[x] : x \in c + 1..c + R}
  <2>1. \A y \in Range(w) : \E x \in c + 1..c + R : y = part[x]
    BY <1>6, <1>7 DEF Range
  <2>2. ASSUME NEW x \in c + 1..c + R
        PROVE  part[x] \in Range(w)
    <3>1. x - c \in 1..R /\ c + (x - c) = x
      <4>1. R \in Nat
        BY <1>2
      <4> QED BY ONLY c \in Nat, x \in c + 1..c + R, <4>1
    <3>2. x - c \in DOMAIN w /\ w[x - c] = part[x]
      BY <1>6, <3>1
    <3> QED BY <3>2 DEF Range
  <2> QED BY <2>1, <2>2
<1> QED BY <1>1, <1>2, <1>4, <1>8, <1>9 DEF Seg

LEMMA BlockIs ==
  ASSUME NEW part \in [1..N -> Nat], NEW b \in Blocks, NEW k \in 1..R
  PROVE  b * R + k \in 1..N /\ BlockOf(part, b)[k] = part[b * R + k]
<1>1. PICK c \in Nat, n \in Nat, r \in Nat : c = b * R /\ n = N /\ r = R
  <2>1. b * R \in Nat
    BY Constants
  <2> QED BY <2>1, Constants
<1>2. (b + 1) * R = c + r /\ c + r <= n
  <2>1. \A x, y, z \in Nat : x + 1 <= y => x * z + z <= y * z
    BY SMT
  <2>2. b \in Nat /\ b + 1 <= B /\ B \in Nat /\ R \in Nat /\ N = B * R
    BY Constants DEF Blocks
  <2> QED BY <1>1, <2>1, <2>2
<1>3. PICK d, e \in Nat : d = c + 1 /\ e = c + r
  <2>1. c + 1 \in Nat /\ c + r \in Nat
    OBVIOUS
  <2> QED BY <2>1
<1>4. PICK f : f \in Seq(Nat) /\ f = part /\ Len(f) = n
  <2>1. part \in Seq(Nat) /\ Len(part) = N
    BY Constants
  <2> QED BY <1>1, <2>1
<1>5. BlockOf(part, b) = SubSeq(f, d, e)
  BY <1>1, <1>2, <1>3, <1>4 DEF BlockOf
<1>6. k \in 1..e - d + 1 /\ d + k - 1 = c + k /\ k + d - 1 = c + k /\ c + k \in 1..n
      /\ d >= 1 /\ e <= n
  <2>1. k \in Nat /\ k >= 1 /\ k <= r
    BY <1>1
  <2> QED BY ONLY c \in Nat, n \in Nat, r \in Nat, d \in Nat, e \in Nat, <1>2, <1>3, <2>1
<1>7. SubSeq(f, d, e)[k] = f[d + k - 1]
  <2>1. e <= Len(f) /\ d >= 1 /\ d + r = e + 1 /\ k \in 1..e - d + 1
    BY <1>3, <1>4, <1>6
  <2>2. PICK w : w = SubSeq(f, d, e)
    OBVIOUS
  <2>3. f \in Seq(Nat)
    BY <1>4
  <2>4. w \in Seq(Nat) /\ Len(w) = r
    BY ONLY r \in Nat, d \in Nat, e \in Nat, <2>1, <2>2, <2>3, SMTT(30)
  <2>5. w[k] = f[d + k - 1]
    BY ONLY r \in Nat, d \in Nat, e \in Nat, <2>1, <2>2, <2>3, <2>4, SMTT(30)
  <2> QED BY <2>2, <2>5
<1> QED BY <1>1, <1>4, <1>5, <1>6, <1>7

\* Every record of a part lies in a block.
LEMMA BlockOfRecord ==
  ASSUME NEW i \in 1..N
  PROVE  \E b \in Blocks : b = (i - 1) \div R /\ \E k \in 1..R : i = b * R + k /\ i - b * R = k
<1>1. PICK x \in Nat : x = i - 1 /\ x < B * R
  BY Constants
<1>2. PICK r \in Nat, n \in Nat : r = R /\ n = B /\ r >= 1 /\ x < n * r
  BY <1>1, Constants
<1>3. PICK b \in Nat : b = x \div r /\ b * r <= x /\ x < b * r + r
  <2>1. \A y, z \in Nat : z >= 1 => y \div z \in Nat /\ (y \div z) * z <= y /\ y < (y \div z) * z + z
    BY SMT
  <2> QED BY <1>2, <2>1
<1>4. b < n
  <2>1. \A y, z, w \in Nat : y >= z => y * w >= z * w
    BY SMT
  <2>2. b >= n => b * r >= n * r
    BY <2>1
  <2>3. b * r \in Nat /\ n * r \in Nat
    OBVIOUS
  <2> QED BY <1>2, <1>3, <2>2, <2>3
<1>5. PICK c \in Nat : c = b * r
  <2>1. b * r \in Nat
    OBVIOUS
  <2> QED BY <2>1
<1>6. x - c + 1 \in 1..r /\ i = c + (x - c + 1) /\ i - c = x - c + 1
  <2>1. i = x + 1 /\ c <= x /\ x < c + r
    BY <1>1, <1>3, <1>5, Constants
  <2> QED BY ONLY x \in Nat, c \in Nat, r \in Nat, <2>1
<1>7. b \in Blocks /\ b = (i - 1) \div R /\ b * R = c
  BY <1>1, <1>2, <1>3, <1>4, <1>5, Constants DEF Blocks
<1> QED BY <1>2, <1>6, <1>7

\* Two functions that agree in all blocks agree.
LEMMA SameBlocks ==
  ASSUME NEW f \in [1..N -> Nat], NEW g \in [1..N -> Nat],
         \A b \in Blocks : Range(BlockOf(f, b)) = Range(BlockOf(g, b))
  PROVE  Range(f) = Range(g)
<1>1. ASSUME NEW u \in [1..N -> Nat], NEW v \in [1..N -> Nat],
             \A b \in Blocks : Range(BlockOf(u, b)) = Range(BlockOf(v, b))
      PROVE  Range(u) \subseteq Range(v)
  <2>1. ASSUME NEW i \in 1..N
        PROVE  u[i] \in Range(v)
    <3>1. PICK b \in Blocks, k \in 1..R : i = b * R + k
      BY BlockOfRecord
    <3>2. u[i] \in Range(BlockOf(u, b))
      <4>1. BlockOf(u, b)[k] = u[i]
        BY <3>1, BlockIs
      <4>2. BlockOf(u, b) \in Seq(Nat) /\ Len(BlockOf(u, b)) = R
        BY BlockFacts
      <4>3. DOMAIN BlockOf(u, b) = 1..R
        BY <4>2
      <4> QED BY <4>1, <4>3 DEF Range
    <3>3. PICK j \in 1..R : BlockOf(v, b)[j] = u[i]
      <4>1. BlockOf(v, b) \in Seq(Nat) /\ Len(BlockOf(v, b)) = R
        BY BlockFacts
      <4>2. DOMAIN BlockOf(v, b) = 1..R
        BY <4>1
      <4>3. u[i] \in Range(BlockOf(v, b))
        BY <1>1, <3>2
      <4> QED BY <4>2, <4>3 DEF Range
    <3>4. b * R + j \in 1..N /\ v[b * R + j] = u[i]
      BY <3>3, BlockIs
    <3> QED BY <3>4 DEF Range
  <2> QED BY <2>1 DEF Range
<1>2. Range(f) \subseteq Range(g) /\ Range(g) \subseteq Range(f)
  BY <1>1
<1> QED BY <1>2

LEMMA PlaceFacts ==
  ASSUME mapped \in [1..N -> Nat], NEW b \in Blocks, NEW s \in Seq(Nat), Len(s) = R,
         NEW m, m = Place(b, s)
  PROVE  /\ m \in [1..N -> Nat] /\ BlockOf(m, b) = s
         /\ \A c \in Blocks : c # b => BlockOf(m, c) = BlockOf(mapped, c)
<1>1. PICK d \in Nat, r \in Nat : d = b * R /\ r = R /\ (b + 1) * R = d + r
  <2>1. b * R \in Nat /\ (b + 1) * R = b * R + R /\ R \in Nat
    BY Constants
  <2> QED BY <2>1
<1>2. m = [i \in 1..N |-> IF i \in d + 1..d + r THEN s[i - d] ELSE mapped[i]]
  BY <1>1 DEF Place
<1>3. m \in [1..N -> Nat]
  <2>1. \A i \in d + 1..d + r : i - d \in 1..r
    OBVIOUS
  <2>2. \A j \in 1..r : s[j] \in Nat
    BY <1>1
  <2> QED BY <1>2, <2>1, <2>2
<1>4. BlockOf(m, b) = s
  <2>1. BlockOf(m, b) \in Seq(Nat) /\ Len(BlockOf(m, b)) = R
    BY <1>3, BlockFacts
  <2>2. ASSUME NEW k \in 1..R
        PROVE  BlockOf(m, b)[k] = s[k]
    <3>1. b * R + k \in 1..N /\ BlockOf(m, b)[k] = m[b * R + k]
      BY <1>3, BlockIs
    <3>2. d + k \in d + 1..d + r /\ d + k - d = k /\ d + k \in 1..N
      <4>1. k \in Nat /\ k >= 1 /\ k <= r /\ d + k \in 1..N
        BY <1>1, <3>1
      <4> QED BY ONLY d \in Nat, r \in Nat, <4>1
    <3>3. m[d + k] = s[d + k - d]
      BY <1>2, <3>2
    <3> QED BY <1>1, <3>1, <3>2, <3>3
  <2>3. PICK w, n : w = BlockOf(m, b) /\ n = R /\ n \in Nat
    BY <1>1
  <2>4. w \in Seq(Nat) /\ Len(w) = n /\ Len(s) = n /\ \A k \in 1..n : w[k] = s[k]
    BY <2>1, <2>2, <2>3
  <2>5. w = s
    BY ONLY <2>3, <2>4, s \in Seq(Nat)
  <2> QED BY <2>3, <2>5
<1>5. ASSUME NEW c \in Blocks, c # b
      PROVE  BlockOf(m, c) = BlockOf(mapped, c)
  <2>1. /\ BlockOf(m, c) \in Seq(Nat) /\ Len(BlockOf(m, c)) = R
        /\ BlockOf(mapped, c) \in Seq(Nat) /\ Len(BlockOf(mapped, c)) = R
    BY <1>3, BlockFacts
  <2>2. ASSUME NEW k \in 1..R
        PROVE  BlockOf(m, c)[k] = BlockOf(mapped, c)[k]
    <3>1. PICK e \in Nat : e = c * R
      <4>1. c * R \in Nat
        BY Constants
      <4> QED BY <4>1
    <3>2. e + k \in 1..N /\ BlockOf(m, c)[k] = m[e + k] /\ BlockOf(mapped, c)[k] = mapped[e + k]
      BY <1>3, <3>1, BlockIs
    <3>3. e + r <= d \/ d + r <= e
      <4>1. \A x, y, z \in Nat : x + 1 <= y => x * z + z <= y * z
        BY SMT
      <4>2. b \in Nat /\ c \in Nat
        BY Constants
      <4>3. b + 1 <= c \/ c + 1 <= b
        BY <1>5, <4>2
      <4> QED BY <1>1, <3>1, <4>1, <4>2, <4>3
    <3>4. e + k \notin d + 1..d + r
      BY <1>1, <3>3
    <3> QED BY <1>2, <3>2, <3>4
  <2>3. PICK w, x, n : w = BlockOf(m, c) /\ x = BlockOf(mapped, c) /\ n = R /\ n \in Nat
    BY <1>1
  <2>4. /\ w \in Seq(Nat) /\ Len(w) = n /\ x \in Seq(Nat) /\ Len(x) = n
        /\ \A k \in 1..n : w[k] = x[k]
    BY <2>1, <2>2, <2>3
  <2>5. w = x
    BY ONLY <2>3, <2>4
  <2> QED BY <2>3, <2>5
<1> QED BY <1>3, <1>4, <1>5

\* If there is only one block it is the whole part.
LEMMA OnlyBlock ==
  ASSUME NEW part \in [1..N -> Nat], N = R
  PROVE  0 \in Blocks /\ BlockOf(part, 0) = part
<1>1. 0 \in Blocks /\ 0 * R = 0
  BY Constants DEF Blocks
<1>2. BlockOf(part, 0) \in Seq(Nat) /\ Len(BlockOf(part, 0)) = R
  BY <1>1, BlockFacts
<1>3. \A k \in 1..R : BlockOf(part, 0)[k] = part[k]
  <2>1. ASSUME NEW k \in 1..R
        PROVE  BlockOf(part, 0)[k] = part[k]
    <3>1. BlockOf(part, 0)[k] = part[0 * R + k]
      BY <1>1, BlockIs
    <3>2. 0 * R + k = k
      BY <1>1
    <3> QED BY <3>1, <3>2
  <2> QED BY <2>1
<1>4. PICK w, n : w = BlockOf(part, 0) /\ n = R /\ n \in Nat
  BY Constants
<1>5. w \in Seq(Nat) /\ Len(w) = n /\ part \in [1..n -> Nat] /\ \A k \in 1..n : w[k] = part[k]
  BY <1>2, <1>3, <1>4
<1>6. w = part
  <2>1. w = [k \in 1..n |-> w[k]]
    BY ONLY <1>4, <1>5
  <2>2. part = [k \in 1..n |-> part[k]]
    BY ONLY <1>5
  <2> QED BY ONLY <1>5, <2>1, <2>2
<1> QED BY <1>1, <1>4, <1>6

LEMMA OrdersFacts ==
  ASSUME NEW s \in Seq(Nat), NEW o \in Orders(s)
  PROVE  o \in Seq(Nat) /\ Len(o) = Len(s) /\ Range(o) = Range(s)
<1>1. PICK p \in Bijection(DOMAIN s, DOMAIN s) : o = [i \in DOMAIN s |-> s[p[i]]]
  BY DEF Orders
<1>2. p \in [DOMAIN s -> DOMAIN s] /\ \A w \in DOMAIN s : \E v \in DOMAIN s : p[v] = w
  BY <1>1 DEF Bijection, Surjection, Injection, IsInjective
<1>3. DOMAIN s = 1..Len(s) /\ Len(s) \in Nat
  OBVIOUS
<1>4. o \in Seq(Nat) /\ Len(o) = Len(s)
  <2>1. \A i \in DOMAIN s : s[i] \in Nat
    OBVIOUS
  <2>2. \A i \in DOMAIN s : p[i] \in DOMAIN s
    BY <1>2
  <2>3. \A i \in 1..Len(s) : s[p[i]] \in Nat
    BY <1>3, <2>1, <2>2
  <2> QED BY <1>1, <1>3, <2>3
<1>5. \A x \in Range(o) : x \in Range(s)
  BY <1>1, <1>2 DEF Range
<1>6. ASSUME NEW w \in DOMAIN s
      PROVE  s[w] \in Range(o)
  <2>1. PICK v \in DOMAIN s : p[v] = w
    BY <1>2
  <2>2. v \in DOMAIN o /\ o[v] = s[w]
    BY <1>1, <2>1
  <2> QED BY <2>2 DEF Range
<1>7. \A x \in Range(s) : x \in Range(o)
  BY <1>6 DEF Range
<1> QED BY <1>4, <1>5, <1>7

-----------------------------------------------------------------------------
\* What the stages say of the thread that makes the next step.

LEMMA DroppedIdle ==
  ASSUME NEW t \in Threads, Shape, Dropped(t)
  PROVE  ~(id[t] < num_blocks[t] \div 2) /\ pc[t] \notin {"inner", "writeData", "writeSize"}
<1>1. t \in Nat /\ num_blocks[t] \in Nat
  BY Constants DEF Shape
<1> QED BY <1>1 DEF Dropped

LEMMA OneWriter ==
  ASSUME NEW t \in Threads, NEW u \in Threads, t # u, SortStrengthened,
         t \notin waiting, pc[t] \in {"writeData", "writeSize"}, pc[u] = "writeSize"
  PROVE  id[t] # id[u]
<1>0. t \in Nat /\ u \in Nat /\ T \in Nat
  BY Constants
<1>1. ~NotRunning /\ ~Beginning(waiting) /\ ~Sorting(waiting)
  BY DEF NotRunning, Beginning, Sorting
<1>2. CASE InRounds(waiting)
  <2>1. PICK p \in Nat, m \in Nat, L \in Nat : InRow(waiting, p, m, L)
    BY <1>2 DEF InRounds
  <2>2. HasPairs(t, waiting, p, m, L) /\ HasPairs(u, waiting, p, m, L)
    BY <2>1, DroppedIdle DEF InRow, SortStrengthened
  <2>3. id[t] = t + m - T /\ id[u] = u + m - T
    BY <2>2 DEF HasPairs, Writing
  <2> QED BY <1>0, <2>3
<1>3. CASE OnlyMain
  BY <1>3, DroppedIdle DEF OnlyMain, SortStrengthened
<1> QED BY <1>1, <1>2, <1>3 DEF SortStrengthened, Stage

LEMMA WriterFits ==
  ASSUME NEW t \in Threads, SortStrengthened, t \notin waiting, pc[t] \in {"writeData", "writeSize"}
  PROVE  id[t] \in Blocks /\ Len(merged[t]) \in 0..N /\ B # 1
<1>1. ~NotRunning /\ ~Beginning(waiting) /\ ~Sorting(waiting)
  BY DEF NotRunning, Beginning, Sorting
<1>2. CASE InRounds(waiting)
  <2>1. PICK p \in Nat, m \in Nat, L \in Nat : InRow(waiting, p, m, L)
    BY <1>2 DEF InRounds
  <2>2. 2 * p <= B /\ 2 * L < N
    BY <2>1, RowFacts DEF InRow
  <2>3. HasPairs(t, waiting, p, m, L)
    BY <2>1, DroppedIdle DEF InRow, SortStrengthened
  <2>4. id[t] \in Nat /\ id[t] < p /\ Len(merged[t]) = 2 * L
    BY <2>3 DEF HasPairs, Writing, SortStrengthened, Shape
  <2>5. B # 1
    BY <2>1, <2>2 DEF InRow, Row
  <2> QED BY <2>2, <2>4, <2>5, Constants DEF Blocks
<1>3. CASE OnlyMain
  <2>1. t = 0
    BY <1>3, DroppedIdle DEF OnlyMain, SortStrengthened
  <2>2. id[0] = 0 /\ Len(merged[0]) = N /\ 1 \in Blocks
    BY <1>3, <2>1 DEF OnlyMain, LastPair, Whole
  <2> QED BY <2>1, <2>2, Constants DEF Blocks
<1> QED BY <1>1, <1>2, <1>3 DEF SortStrengthened, Stage

\* The two blocks that a thread merges next.
LEMMA PairFits ==
  ASSUME NEW t \in Threads, SortStrengthened, t \notin waiting,
         pc[t] = "pairs", id[t] < num_blocks[t] \div 2
  PROVE  /\ block_map = Blocks /\ \A u \in Threads : pc[u] # "sort"
         /\ id[t] \in Nat /\ 2 * id[t] \in Blocks /\ 2 * id[t] + 1 \in Blocks
         /\ size[2 * id[t]] = size[2 * id[t] + 1]
         /\ \A u \in Threads : pc[u] = "writeSize" => id[u] # 2 * id[t] /\ id[u] # 2 * id[t] + 1
<1>0. t \in Nat /\ T \in Nat /\ t < T /\ T >= 1
  BY Constants DEF Threads
<1>1. ~NotRunning /\ ~Beginning(waiting) /\ ~Sorting(waiting)
  BY DEF NotRunning, Beginning, Sorting
<1>2. CASE InRounds(waiting)
  <2>1. PICK p \in Nat, m \in Nat, L \in Nat : InRow(waiting, p, m, L)
    BY <1>2 DEF InRounds
  <2>2. 2 * p <= B /\ p >= 2 /\ (m = 0 \/ m >= T)
    BY <2>1, RowFacts DEF InRow
  <2>3. HasPairs(t, waiting, p, m, L) /\ t < p
    BY <2>1, DroppedIdle DEF InRow, SortStrengthened
  <2>4. id[t] = t + m /\ num_blocks[t] = 2 * p
    BY <2>3 DEF HasPairs, Writing
  <2>5. t + m < p
    BY <2>4
  <2>6. 2 * (t + m) \in Blocks /\ 2 * (t + m) + 1 \in Blocks /\ 2 * (t + m) + 1 < 2 * p
        /\ 2 * (t + m) < 2 * p /\ 2 * (t + m) >= m /\ 2 * (t + m) + 1 >= m
    BY <1>0, <2>2, <2>5, Constants DEF Blocks
  <2>7. size[2 * (t + m)] = L /\ size[2 * (t + m) + 1] = L
    BY <2>1, <2>6 DEF InRow, SizesFit
  <2>8. ASSUME NEW u \in Threads, pc[u] = "writeSize"
        PROVE  id[u] # 2 * id[t] /\ id[u] # 2 * id[t] + 1
    <3>1. u \in Nat /\ u < T
      BY Constants DEF Threads
    <3>2. HasPairs(u, waiting, p, m, L)
      BY <2>1, <2>8, DroppedIdle DEF InRow, SortStrengthened
    <3>3. id[u] = u + m - T /\ m > 0
      BY <2>8, <3>2 DEF HasPairs, Writing
    <3> QED BY <1>0, <2>2, <2>4, <3>1, <3>3
  <2>9. \A u \in Threads : pc[u] # "sort"
    BY <2>1 DEF InRow, HasPairs, Writing, Dropped
  <2> QED BY <1>0, <1>2, <2>4, <2>6, <2>7, <2>8, <2>9 DEF InRounds
<1>3. CASE OnlyMain
  <2>1. t = 0 /\ \A u \in Threads : pc[u] \notin {"writeSize", "sort"}
    BY <1>3, DroppedIdle DEF OnlyMain, SortStrengthened, Dropped
  <2>2. id[0] = 0 /\ size[0] = size[1] /\ 1 \in Blocks
    <3>1. 2 \div 2 = 1 /\ 1 \div 2 = 0
      OBVIOUS
    <3> QED BY <1>0, <1>3, <2>1, <3>1 DEF OnlyMain, LastPair, Whole
  <2> QED BY <1>3, <2>1, <2>2, Constants DEF OnlyMain
<1> QED BY <1>1, <1>2, <1>3 DEF SortStrengthened, Stage

\* A thread that sorts, or looks for a block: nothing has been merged.
LEMMA SorterFits ==
  ASSUME NEW t \in Threads, SortStrengthened, pc[t] \in {"enter", "claim", "sort", "next", "sorted"}
  PROVE  /\ \A u \in Threads : pc[u] \notin {"inner", "writeData", "writeSize"}
         /\ \A b \in Blocks : size[b] = R
<1>1. ~NotRunning /\ ~OnlyMain
  <2>1. ~Dropped(t) /\ pc[t] \notin {"none", "killed"} /\ (t = 0 => ~LastPair /\ ~Whole)
    BY DEF Dropped, LastPair, Whole
  <2> QED BY <2>1 DEF NotRunning, OnlyMain
<1>2. ~InRounds(waiting)
  <2>1. ASSUME NEW p \in Nat, NEW m \in Nat, NEW L \in Nat, InRow(waiting, p, m, L)
        PROVE  FALSE
    BY <2>1 DEF InRow, HasPairs, Writing, Dropped
  <2> QED BY <2>1 DEF InRounds
<1>3. Beginning(waiting) \/ Sorting(waiting)
  BY <1>1, <1>2 DEF SortStrengthened, Stage
<1> QED BY <1>3 DEF Beginning, Sorting, Unmerged

\* main is past the last barrier.
LEMMA EndFits ==
  ASSUME SortStrengthened, pc[0] \in {"done", "exited"}, 0 \notin waiting
  PROVE  /\ OnlyMain /\ size[0] = N
         /\ \A u \in Threads : pc[u] \notin {"sort", "writeSize"}
<1>1. ~NotRunning /\ ~Beginning(waiting) /\ ~Sorting(waiting)
  BY Constants DEF NotRunning, Beginning, Sorting
<1>2. ~InRounds(waiting)
  <2>1. ASSUME NEW p \in Nat, NEW m \in Nat, NEW L \in Nat, InRow(waiting, p, m, L)
        PROVE  FALSE
    <3>1. 0 < p
      BY <2>1 DEF InRow, Row
    <3>2. HasPairs(0, waiting, p, m, L)
      BY <2>1, <3>1, Constants DEF InRow
    <3> QED BY <3>2 DEF HasPairs, Writing
  <2> QED BY <2>1 DEF InRounds
<1>3. OnlyMain
  BY <1>1, <1>2 DEF SortStrengthened, Stage
<1> QED BY <1>3 DEF OnlyMain, LastPair, Whole, Dropped

LEMMA StageTypes ==
  SortStrengthened /\ ~NotRunning =>
    num_blocks \in [Threads -> 1..B] /\ id \in [Threads -> 0..B + T]
<1> SUFFICES ASSUME SortStrengthened, ~NotRunning, NEW t \in Threads
             PROVE  num_blocks[t] \in 1..B /\ id[t] \in 0..B + T
  BY DEF SortStrengthened, Shape
<1>0. t \in Nat /\ t < T /\ T \in Nat /\ B \in Nat /\ T >= 1 /\ B >= T
      /\ num_blocks[t] \in Nat /\ id[t] \in Nat
  BY Constants DEF Threads, SortStrengthened, Shape
<1>1. CASE Beginning(waiting) \/ Sorting(waiting)
  <2>1. id[t] = t /\ num_blocks[t] = B
    BY <1>1 DEF Beginning, Sorting, Unmerged
  <2> QED BY <1>0, <2>1
<1>2. CASE Dropped(t)
  BY <1>0, <1>2 DEF Dropped
<1>3. CASE InRounds(waiting) /\ ~Dropped(t)
  <2>1. PICK p \in Nat, m \in Nat, L \in Nat : InRow(waiting, p, m, L)
    BY <1>3 DEF InRounds
  <2>2. 2 * p <= B /\ p >= 2 /\ m < p + T
    BY <2>1, RowFacts DEF InRow, Row
  <2>3. HasPairs(t, waiting, p, m, L) /\ t < p
    BY <1>3, <2>1 DEF InRow
  <2>4. num_blocks[t] = 2 * p \/ num_blocks[t] = p
    BY <2>3 DEF HasPairs
  <2>5. id[t] = t + m \/ id[t] = t + m - T \/ id[t] = t
    BY <2>3 DEF HasPairs
  <2> QED BY <1>0, <2>2, <2>3, <2>4, <2>5
<1>4. CASE OnlyMain /\ ~Dropped(t)
  <2>1. t = 0
    BY <1>4 DEF OnlyMain
  <2>2. num_blocks[0] \in {1, 2} /\ id[0] \in {0, T} /\ (num_blocks[0] = 2 => 1 \in Blocks)
    BY <1>4 DEF OnlyMain, LastPair, Whole
  <2> QED BY <1>0, <2>1, <2>2 DEF Blocks
<1> QED BY <1>1, <1>2, <1>3, <1>4 DEF SortStrengthened, Stage

-----------------------------------------------------------------------------
\* The records, step by step.

\* What a step of thread t leaves alone.
OnlyMoves(t) ==
  /\ input' = input /\ overlap \subseteq overlap' /\ block_map \subseteq block_map'
  /\ \A u \in Threads : u # t =>
       /\ pc'[u] = pc[u] /\ id'[u] = id[u] /\ merged'[u] = merged[u]
       /\ block_index'[u] = block_index[u]

LEMMA OneMoves ==
  ASSUME NEW t \in Threads, Shape, DataTypes, Step(t)
  PROVE  OnlyMoves(t)
<1> USE DEF Shape, DataTypes, Goto, infoVars, sortVars, mergeVars, OnlyMoves
<1>1. CASE Enter(t) \/ EndOfSort(t) \/ LastRound(t) \/ Inner(t) \/ Outer(t) \/ Final(t)
  BY <1>1 DEF Enter, EndOfSort, LastRound, Inner, Outer, Final
<1>2. CASE Claim(t)
  BY <1>2 DEF Claim, StartSort
<1>3. CASE Sort(t)
  BY <1>3 DEF Sort
<1>4. CASE NextBlock(t)
  <2>1. CASE Blocks \ block_map = {}
    BY <1>4, <2>1 DEF NextBlock
  <2>2. CASE Blocks \ block_map # {}
    <3> DEFINE b == CHOOSE x \in Blocks \ block_map : \A c \in Blocks \ block_map : x <= c
    <3>1. StartSort(t, b) /\ UNCHANGED <<input, infoVars, mergeVars, waiting, mapVars>>
      BY <1>4, <2>2 DEF NextBlock
    <3> HIDE DEF b
    <3> QED BY <3>1 DEF StartSort
  <2> QED BY <2>1, <2>2
<1>5. CASE MergePair(t)
  BY <1>5 DEF MergePair
<1>6. CASE NextRound(t)
  BY <1>6 DEF NextRound
<1>7. CASE WriteData(t)
  BY <1>7 DEF WriteData
<1>8. CASE WriteSize(t)
  BY <1>8 DEF WriteSize
<1> QED BY <1>1, <1>2, <1>3, <1>4, <1>5, <1>6, <1>7, <1>8 DEF Step

DataStays(t) ==
  /\ UNCHANGED <<data, size, block_map, block_index, overlap>>
  /\ pc[t] \notin {"sort", "writeSize"} /\ pc'[t] \notin {"sort", "writeSize"}
  /\ pc'[t] \in {"inner", "writeData"} =>
       pc[t] \in {"inner", "writeData"} /\ id'[t] = id[t] /\ merged'[t] = merged[t]

LEMMA NoDataMoves ==
  ASSUME NEW t \in Threads, OnlyMoves(t), DataStays(t), DataGood
  PROVE  DataGood'
<1> USE DEF OnlyMoves, DataStays
<1>1. LengthsFit'
  <2>1. ASSUME NEW b \in Blocks
        PROVE  Len(data'[b]) = size'[b] \/ \E u \in Threads : pc'[u] = "writeSize" /\ id'[u] = b
    BY DEF DataGood, LengthsFit
  <2>2. ASSUME NEW u \in Threads, pc'[u] = "writeSize"
        PROVE  data'[id'[u]] = merged'[u]
    BY <2>2 DEF DataGood, LengthsFit
  <2> QED BY <2>1, <2>2 DEF LengthsFit
<1>2. ASSUME overlap' = {}
      PROVE  RecordsFit'
  <2>0. RecordsFit
    BY <1>2 DEF DataGood
  <2>1. ASSUME NEW b \in Blocks
        PROVE  Range(data'[b]) = Seg(input', b, Len(data'[b]))
    BY <2>0 DEF RecordsFit
  <2>2. ASSUME NEW b \in block_map'
        PROVE  Sorted(data'[b]) \/ \E u \in Threads : pc'[u] = "sort" /\ block_index'[u] = b
    BY <2>0, <2>2 DEF RecordsFit
  <2>3. ASSUME NEW u \in Threads, pc'[u] \in {"inner", "writeData", "writeSize"}
        PROVE  Sorted(merged'[u]) /\ Range(merged'[u]) = Seg(input', id'[u], Len(merged'[u]))
    <3>1. pc[u] \in {"inner", "writeData", "writeSize"} /\ id'[u] = id[u] /\ merged'[u] = merged[u]
      BY <2>3
    <3> QED BY <2>0, <3>1 DEF RecordsFit
  <2> QED BY <2>1, <2>2, <2>3 DEF RecordsFit
<1> QED BY <1>1, <1>2 DEF DataGood

-----------------------------------------------------------------------------
\* The actions that move records.

LEMMA RecordsWhole ==
  ASSUME NEW b, DataTypes, b \in Blocks, Len(data[b]) = size[b]
  PROVE  Records(b) = data[b]
<1>1. data[b] \in Seq(Nat) /\ DOMAIN data[b] = 1..size[b]
  BY DEF DataTypes
<1>2. data[b] = [i \in DOMAIN data[b] |-> data[b][i]]
  <2>1. PICK d : d = data[b] /\ d \in Seq(Nat)
    BY <1>1
  <2>2. d = [i \in DOMAIN d |-> d[i]]
    BY ONLY <2>1
  <2> QED BY <2>1, <2>2
<1> QED BY <1>1, <1>2 DEF Records

LEMMA StartsToSort ==
  ASSUME NEW t \in Threads, NEW b \in Blocks, Shape, DataTypes, DataGood, OnlyMoves(t),
         pc[t] # "sort", pc[t] # "writeSize",
         StartSort(t, b), UNCHANGED <<data, size, id, merged>>
  PROVE  DataGood'
<1> USE DEF OnlyMoves
<1>1. pc'[t] = "sort" /\ block_index'[t] = b /\ block_map' = block_map \cup {b}
  BY DEF StartSort, Goto, Shape, DataTypes
<1>2. LengthsFit'
  <2>1. ASSUME NEW c \in Blocks
        PROVE  Len(data'[c]) = size'[c] \/ \E u \in Threads : pc'[u] = "writeSize" /\ id'[u] = c
    BY DEF DataGood, LengthsFit
  <2>2. ASSUME NEW u \in Threads, pc'[u] = "writeSize"
        PROVE  data'[id'[u]] = merged'[u]
    BY <1>1, <2>2 DEF DataGood, LengthsFit
  <2> QED BY <2>1, <2>2 DEF LengthsFit
<1>3. ASSUME overlap' = {}
      PROVE  RecordsFit'
  <2>0. RecordsFit
    BY <1>3 DEF DataGood
  <2>1. \A c \in Blocks : Range(data'[c]) = Seg(input', c, Len(data'[c]))
    BY <2>0 DEF RecordsFit
  <2>2. ASSUME NEW c \in block_map'
        PROVE  Sorted(data'[c]) \/ \E u \in Threads : pc'[u] = "sort" /\ block_index'[u] = c
    <3>1. CASE c = b
      BY <1>1, <3>1
    <3>2. CASE c # b
      <4>1. c \in block_map
        BY <1>1, <2>2, <3>2
      <4>2. ASSUME NEW u \in Threads, pc[u] = "sort", block_index[u] = c
            PROVE  pc'[u] = "sort" /\ block_index'[u] = c
        BY <4>2
      <4> QED BY <2>0, <4>1, <4>2 DEF RecordsFit
    <3> QED BY <3>1, <3>2
  <2>3. ASSUME NEW u \in Threads, pc'[u] \in {"inner", "writeData", "writeSize"}
        PROVE  Sorted(merged'[u]) /\ Range(merged'[u]) = Seg(input', id'[u], Len(merged'[u]))
    <3>1. u # t
      BY <1>1, <2>3
    <3> QED BY <2>0, <2>3, <3>1 DEF RecordsFit
  <2> QED BY <2>1, <2>2, <2>3 DEF RecordsFit
<1> QED BY <1>2, <1>3 DEF DataGood

LEMMA SortKeeps ==
  ASSUME NEW t \in Threads, SortStrengthened, DataTypes, DataGood, OnlyMoves(t), Sort(t)
  PROVE  /\ DataGood' /\ data' \in [Blocks -> Seq(Nat)] /\ mapped' \in [1..N -> Nat]
         /\ MapKeeps => MapKeeps'
         /\ OneBlock => OneBlock'
<1> USE DEF OnlyMoves
<1>0. /\ pc[t] = "sort" /\ pc'[t] = "next"
      /\ UNCHANGED <<input, size, id, merged, block_map, block_index, overlap>>
  BY DEF Sort, At, Goto, sortVars, mergeVars, SortStrengthened, Shape
<1>1. PICK b \in Blocks : b = block_index[t]
  BY <1>0 DEF DataTypes
<1>2. PICK s : /\ s \in IF b \in overlap THEN [1..R -> Range(data[b])]
                        ELSE {o \in Orders(data[b]) : Sorted(o)}
               /\ data' = [data EXCEPT ![b] = s] /\ mapped' = Place(b, s)
  BY <1>1 DEF Sort
<1>3. /\ \A u \in Threads : pc[u] \notin {"inner", "writeData", "writeSize"}
      /\ \A c \in Blocks : size[c] = R
  BY <1>0, SorterFits
<1>4. data[b] \in Seq(Nat) /\ Len(data[b]) = R /\ R \in Nat
  BY <1>3, Constants DEF DataTypes, DataGood, LengthsFit
<1>5. s \in Seq(Nat) /\ Len(s) = R
  <2>1. CASE b \in overlap
    <3>1. \A x \in Range(data[b]) : x \in Nat
      BY <1>4 DEF Range
    <3>2. s \in [1..R -> Nat]
      BY <1>2, <2>1, <3>1
    <3> QED BY <1>4, <3>2
  <2>2. CASE b \notin overlap
    BY <1>2, <1>4, <2>2, OrdersFacts
  <2> QED BY <2>1, <2>2
<1>6. \A c \in Blocks : data'[c] = IF c = b THEN s ELSE data[c]
  BY <1>2 DEF DataTypes
<1>7. \A u \in Threads : pc'[u] \notin {"inner", "writeData", "writeSize"}
  BY <1>0, <1>3
<1>8. LengthsFit'
  <2>1. ASSUME NEW c \in Blocks
        PROVE  Len(data'[c]) = size'[c]
    BY <1>0, <1>3, <1>5, <1>6 DEF DataGood, LengthsFit
  <2> QED BY <2>1, <1>7 DEF LengthsFit
<1>9. ASSUME overlap' = {}
      PROVE  RecordsFit'
  <2>0. RecordsFit
    BY <1>0, <1>9 DEF DataGood
  <2>1. s \in Orders(data[b]) /\ Sorted(s)
    BY <1>0, <1>2, <1>9
  <2>2. Range(s) = Range(data[b])
    BY <1>4, <2>1, OrdersFacts
  <2>3. ASSUME NEW c \in Blocks
        PROVE  Range(data'[c]) = Seg(input', c, Len(data'[c]))
    <3>1. Range(data[c]) = Seg(input, c, Len(data[c]))
      BY <2>0 DEF RecordsFit
    <3> QED BY <1>0, <1>4, <1>5, <1>6, <2>2, <3>1
  <2>4. ASSUME NEW c \in block_map'
        PROVE  Sorted(data'[c]) \/ \E u \in Threads : pc'[u] = "sort" /\ block_index'[u] = c
    <3>0. c \in block_map /\ c \in Blocks
      BY <1>0, <2>4 DEF SortStrengthened, Shape
    <3>1. CASE c = b
      BY <1>6, <2>1, <3>1
    <3>2. CASE c # b
      <4>1. ASSUME NEW u \in Threads, pc[u] = "sort", block_index[u] = c
            PROVE  pc'[u] = "sort" /\ block_index'[u] = c
        BY <1>0, <1>1, <3>2, <4>1
      <4>2. data'[c] = data[c]
        BY <1>6, <3>0, <3>2
      <4> QED BY <2>0, <3>0, <4>1, <4>2 DEF RecordsFit
    <3> QED BY <3>1, <3>2
  <2> QED BY <1>7, <2>3, <2>4 DEF RecordsFit
<1>10. data' \in [Blocks -> Seq(Nat)]
  BY <1>2, <1>5 DEF DataTypes
<1>11. /\ mapped' \in [1..N -> Nat] /\ BlockOf(mapped', b) = s
       /\ \A c \in Blocks : c # b => BlockOf(mapped', c) = BlockOf(mapped, c)
  BY <1>2, <1>4, <1>5, PlaceFacts DEF DataTypes
<1>12. ASSUME MapKeeps
       PROVE  MapKeeps'
  <2>1. ASSUME overlap' = {}, NEW c \in Blocks
        PROVE  Range(BlockOf(mapped', c)) = Seg(input', c, R)
    <3>1. CASE c = b
      <4>1. s \in Orders(data[b]) /\ overlap = {}
        BY <1>0, <1>2, <2>1
      <4>2. Range(s) = Range(data[b])
        BY <1>4, <4>1, OrdersFacts
      <4>3. Range(data[b]) = Seg(input, b, R)
        BY <1>4, <4>1 DEF DataGood, RecordsFit
      <4> QED BY <1>0, <1>11, <3>1, <4>2, <4>3
    <3>2. CASE c # b
      BY <1>0, <1>11, <1>12, <2>1, <3>2 DEF MapKeeps
    <3> QED BY <3>1, <3>2
  <2> QED BY <2>1 DEF MapKeeps
<1>13. OneBlock'
  <2>1. ASSUME B = 1
        PROVE  mapped' = data'[0]
    <3>1. b = 0 /\ N = R
      BY <2>1, Constants DEF Blocks
    <3>2. BlockOf(mapped', 0) = mapped'
      BY <1>11, <3>1, OnlyBlock
    <3> QED BY <1>6, <1>11, <3>1, <3>2
  <2> QED BY <2>1 DEF OneBlock
<1> QED BY <1>8, <1>9, <1>10, <1>11, <1>12, <1>13 DEF DataGood

LEMMA MergeKeeps ==
  ASSUME NEW t \in Threads, SortStrengthened, DataTypes, DataGood, OnlyMoves(t), MergePair(t)
  PROVE  DataGood' /\ merged' \in [Threads -> Seq(Nat)]
<1> USE DEF OnlyMoves
<1>0. /\ pc[t] = "pairs" /\ t \notin waiting /\ id[t] < num_blocks[t] \div 2 /\ pc'[t] = "inner"
      /\ UNCHANGED <<input, data, size, id, block_map, block_index, overlap>>
  BY DEF MergePair, At, Goto, infoVars, sortVars, SortStrengthened, Shape
<1>1. /\ block_map = Blocks /\ \A u \in Threads : pc[u] # "sort"
      /\ id[t] \in Nat /\ 2 * id[t] \in Blocks /\ 2 * id[t] + 1 \in Blocks
      /\ size[2 * id[t]] = size[2 * id[t] + 1]
      /\ \A u \in Threads : pc[u] = "writeSize" => id[u] # 2 * id[t] /\ id[u] # 2 * id[t] + 1
  BY <1>0, PairFits
<1>2. PICK i \in Nat : i = id[t]
  BY <1>1
<1>3. PICK x \in Blocks, y \in Blocks : x = 2 * i /\ y = 2 * i + 1
  BY <1>1, <1>2
<1>4. Len(data[x]) = size[x] /\ Len(data[y]) = size[y] /\ size[x] = size[y]
  BY <1>1, <1>2, <1>3 DEF DataGood, LengthsFit
<1>5. Records(x) = data[x] /\ Records(y) = data[y]
  BY <1>4, RecordsWhole
<1>6. PICK r \in Seq(Nat), s \in Seq(Nat) : r = data[x] /\ s = data[y]
  BY DEF DataTypes
<1>7. PICK w : w = Merge(r, s)
  OBVIOUS
<1>8. merged' = [merged EXCEPT ![t] = w]
  BY <1>2, <1>3, <1>5, <1>6, <1>7 DEF MergePair
<1>9. merged' \in [Threads -> Seq(Nat)] /\ merged'[t] = w
  <2>1. w \in Seq(Nat)
    BY <1>7, MergeIsRight
  <2> QED BY <1>8, <2>1 DEF DataTypes
<1>10. LengthsFit'
  <2>1. ASSUME NEW c \in Blocks
        PROVE  Len(data'[c]) = size'[c] \/ \E u \in Threads : pc'[u] = "writeSize" /\ id'[u] = c
    BY <1>0, SMTT(20) DEF DataGood, LengthsFit
  <2>2. ASSUME NEW u \in Threads, pc'[u] = "writeSize"
        PROVE  data'[id'[u]] = merged'[u]
    BY <1>0, <2>2 DEF DataGood, LengthsFit
  <2> QED BY <2>1, <2>2 DEF LengthsFit
<1>11. ASSUME overlap' = {}
       PROVE  RecordsFit'
  <2>0. RecordsFit
    BY <1>0, <1>11 DEF DataGood
  <2>1. \A c \in Blocks : Range(data'[c]) = Seg(input', c, Len(data'[c]))
    BY <1>0, <2>0 DEF RecordsFit
  <2>2. \A c \in block_map' : Sorted(data'[c])
    BY <1>0, <1>1, <2>0 DEF RecordsFit
  <2>3. Sorted(r) /\ Sorted(s)
    BY <1>1, <1>6, <2>0 DEF RecordsFit
  <2>4. Sorted(w) /\ Range(w) = Seg(input, i, Len(w))
    <3>1. PICK l \in Nat : l = Len(r)
      BY <1>6
    <3>2. Len(s) = l
      BY <1>4, <1>6, <3>1
    <3>3. Sorted(w) /\ Len(w) = 2 * l /\ Range(w) = Range(r) \cup Range(s)
      <4>1. /\ Len(w) = Len(r) + Len(s) /\ Range(w) = Range(r) \cup Range(s)
            /\ Sorted(r) /\ Sorted(s) => Sorted(w)
        BY ONLY <1>7, MergeIsRight, r \in Seq(Nat), s \in Seq(Nat)
      <4>2. l + l = 2 * l
        OBVIOUS
      <4> QED BY ONLY <2>3, <3>1, <3>2, <4>1, <4>2
    <3>4. Range(r) = Seg(input, 2 * i, l) /\ Range(s) = Seg(input, 2 * i + 1, l)
      BY <1>3, <1>6, <2>0, <3>1, <3>2 DEF RecordsFit
    <3>5. Seg(input, 2 * i, l) \cup Seg(input, 2 * i + 1, l) = Seg(input, i, 2 * l)
      BY SegJoin
    <3> QED BY <3>3, <3>4, <3>5
  <2>5. ASSUME NEW u \in Threads, pc'[u] \in {"inner", "writeData", "writeSize"}
        PROVE  Sorted(merged'[u]) /\ Range(merged'[u]) = Seg(input', id'[u], Len(merged'[u]))
    <3>1. CASE u = t
      BY <1>0, <1>2, <1>9, <2>4, <3>1
    <3>2. CASE u # t
      BY <1>0, <2>0, <2>5, <3>2 DEF RecordsFit
    <3> QED BY <3>1, <3>2
  <2> QED BY <2>1, <2>2, <2>5 DEF RecordsFit
<1> QED BY <1>9, <1>10, <1>11 DEF DataGood

LEMMA WriteKeeps ==
  ASSUME NEW t \in Threads, SortStrengthened, DataTypes, DataGood, OnlyMoves(t), WriteData(t)
  PROVE  DataGood' /\ data' \in [Blocks -> Seq(Nat)]
<1> USE DEF OnlyMoves
<1>0. /\ pc[t] = "writeData" /\ t \notin waiting /\ pc'[t] = "writeSize"
      /\ UNCHANGED <<input, size, id, merged, block_map, block_index, overlap>>
  BY DEF WriteData, At, Goto, mergeVars, sortVars, SortStrengthened, Shape
<1>1. PICK b \in Blocks : b = id[t]
  BY <1>0, WriterFits
<1>2. PICK w \in Seq(Nat) : w = merged[t]
  BY DEF DataTypes
<1>3. data' = [data EXCEPT ![b] = w]
  BY <1>1, <1>2 DEF WriteData
<1>4. data' \in [Blocks -> Seq(Nat)] /\ \A c \in Blocks : data'[c] = IF c = b THEN w ELSE data[c]
  BY <1>3 DEF DataTypes
<1>5. \A u \in Threads : u # t /\ pc[u] = "writeSize" => id[u] # b
  BY <1>0, <1>1, OneWriter
<1>6. LengthsFit'
  <2>1. ASSUME NEW c \in Blocks
        PROVE  Len(data'[c]) = size'[c] \/ \E u \in Threads : pc'[u] = "writeSize" /\ id'[u] = c
    <3>1. CASE c = b
      BY <1>0, <1>1, <3>1
    <3>2. CASE c # b
      <4>1. data'[c] = data[c] /\ size'[c] = size[c]
        BY <1>0, <1>4, <3>2
      <4>2. ASSUME NEW u \in Threads, pc[u] = "writeSize", id[u] = c
            PROVE  pc'[u] = "writeSize" /\ id'[u] = c
        BY <1>0, <4>2
      <4> QED BY <4>1, <4>2 DEF DataGood, LengthsFit
    <3> QED BY <3>1, <3>2
  <2>2. ASSUME NEW u \in Threads, pc'[u] = "writeSize"
        PROVE  data'[id'[u]] = merged'[u]
    <3>1. CASE u = t
      BY <1>0, <1>1, <1>2, <1>4, <3>1
    <3>2. CASE u # t
      <4>1. pc[u] = "writeSize" /\ id'[u] = id[u] /\ merged'[u] = merged[u] /\ id[u] # b
        BY <1>5, <2>2, <3>2
      <4>2. data[id[u]] = merged[u]
        BY <4>1 DEF DataGood, LengthsFit
      <4>3. data'[id[u]] = data[id[u]]
        BY <1>3, <4>1 DEF DataTypes
      <4> QED BY <4>1, <4>2, <4>3
    <3> QED BY <3>1, <3>2
  <2> QED BY <2>1, <2>2 DEF LengthsFit
<1>7. ASSUME overlap' = {}
      PROVE  RecordsFit'
  <2>0. RecordsFit
    BY <1>0, <1>7 DEF DataGood
  <2>1. Sorted(w) /\ Range(w) = Seg(input, b, Len(w))
    BY <1>0, <1>1, <1>2, <2>0 DEF RecordsFit
  <2>2. \A c \in Blocks : Range(data'[c]) = Seg(input', c, Len(data'[c]))
    BY <1>0, <1>4, <2>0, <2>1 DEF RecordsFit
  <2>3. ASSUME NEW c \in block_map'
        PROVE  Sorted(data'[c]) \/ \E u \in Threads : pc'[u] = "sort" /\ block_index'[u] = c
    <3>0. c \in block_map /\ c \in Blocks
      BY <1>0, <2>3 DEF SortStrengthened, Shape
    <3>1. CASE c = b
      BY <1>4, <2>1, <3>1
    <3>2. CASE c # b
      <4>1. ASSUME NEW u \in Threads, pc[u] = "sort", block_index[u] = c
            PROVE  pc'[u] = "sort" /\ block_index'[u] = c
        BY <1>0, <4>1
      <4>2. data'[c] = data[c]
        BY <1>4, <3>0, <3>2
      <4> QED BY <2>0, <3>0, <4>1, <4>2 DEF RecordsFit
    <3> QED BY <3>1, <3>2
  <2>4. ASSUME NEW u \in Threads, pc'[u] \in {"inner", "writeData", "writeSize"}
        PROVE  Sorted(merged'[u]) /\ Range(merged'[u]) = Seg(input', id'[u], Len(merged'[u]))
    <3>1. pc[u] \in {"inner", "writeData", "writeSize"}
      BY <1>0, <2>4
    <3> QED BY <1>0, <2>0, <3>1 DEF RecordsFit
  <2> QED BY <2>2, <2>3, <2>4 DEF RecordsFit
<1> QED BY <1>4, <1>6, <1>7 DEF DataGood

LEMMA SizeKeeps ==
  ASSUME NEW t \in Threads, SortStrengthened, MergeTypes, DataTypes, DataGood, OnlyMoves(t),
         WriteSize(t)
  PROVE  DataGood' /\ size' \in [Blocks -> 0..N] /\ merged' \in [Threads -> Seq(Nat)]
<1> USE DEF OnlyMoves
<1>0. /\ pc[t] = "writeSize" /\ t \notin waiting /\ pc'[t] = "pairs"
      /\ UNCHANGED <<input, data, block_map, block_index, overlap>>
  BY DEF WriteSize, At, Goto, sortVars, SortStrengthened, Shape
<1>1. PICK b \in Blocks : b = id[t] /\ Len(merged[t]) \in 0..N
  BY <1>0, WriterFits
<1>2. size' = [size EXCEPT ![b] = Len(merged[t])]
  BY <1>1 DEF WriteSize
<1>3. size' \in [Blocks -> 0..N] /\ \A c \in Blocks : size'[c] = IF c = b THEN Len(merged[t]) ELSE size[c]
  BY <1>1, <1>2 DEF MergeTypes
<1>4. merged' \in [Threads -> Seq(Nat)]
  <2>1. <<>> \in Seq(Nat)
    OBVIOUS
  <2>2. merged' = [merged EXCEPT ![t] = <<>>]
    BY DEF WriteSize
  <2> QED BY <2>1, <2>2 DEF DataTypes
<1>5. LengthsFit'
  <2>1. ASSUME NEW c \in Blocks
        PROVE  Len(data'[c]) = size'[c] \/ \E u \in Threads : pc'[u] = "writeSize" /\ id'[u] = c
    <3>1. CASE c = b
      BY <1>0, <1>1, <1>3, <3>1 DEF DataGood, LengthsFit
    <3>2. CASE c # b
      <4>1. data'[c] = data[c] /\ size'[c] = size[c]
        BY <1>0, <1>3, <3>2
      <4>2. ASSUME NEW u \in Threads, pc[u] = "writeSize", id[u] = c
            PROVE  pc'[u] = "writeSize" /\ id'[u] = c
        BY <1>1, <3>2, <4>2
      <4> QED BY <4>1, <4>2 DEF DataGood, LengthsFit
    <3> QED BY <3>1, <3>2
  <2>2. ASSUME NEW u \in Threads, pc'[u] = "writeSize"
        PROVE  data'[id'[u]] = merged'[u]
    BY <1>0, <2>2 DEF DataGood, LengthsFit
  <2> QED BY <2>1, <2>2 DEF LengthsFit
<1>6. ASSUME overlap' = {}
      PROVE  RecordsFit'
  <2>0. RecordsFit
    BY <1>0, <1>6 DEF DataGood
  <2>1. \A c \in Blocks : Range(data'[c]) = Seg(input', c, Len(data'[c]))
    BY <1>0, <2>0 DEF RecordsFit
  <2>2. ASSUME NEW c \in block_map'
        PROVE  Sorted(data'[c]) \/ \E u \in Threads : pc'[u] = "sort" /\ block_index'[u] = c
    <3>1. ASSUME NEW u \in Threads, pc[u] = "sort", block_index[u] = c
          PROVE  pc'[u] = "sort" /\ block_index'[u] = c
      BY <1>0, <3>1
    <3> QED BY <1>0, <2>0, <2>2, <3>1 DEF RecordsFit
  <2>3. ASSUME NEW u \in Threads, pc'[u] \in {"inner", "writeData", "writeSize"}
        PROVE  Sorted(merged'[u]) /\ Range(merged'[u]) = Seg(input', id'[u], Len(merged'[u]))
    <3>1. u # t
      BY <1>0, <2>3
    <3> QED BY <1>0, <2>0, <2>3, <3>1 DEF RecordsFit
  <2> QED BY <2>1, <2>2, <2>3 DEF RecordsFit
<1> QED BY <1>3, <1>4, <1>5, <1>6 DEF DataGood

LEMMA StepKeeps ==
  ASSUME NEW t \in Threads, SortStrengthened, MergeTypes, DataTypes, Before, OneBlock, Step(t)
  PROVE  Before' /\ OneBlock' /\ DataTypes' /\ size' \in [Blocks -> 0..N]
<1>0. OnlyMoves(t) /\ Shape /\ DataGood
  BY OneMoves DEF SortStrengthened, Before
<1> USE DEF Goto, infoVars, sortVars, mergeVars, mapVars
<1>a. pc'[0] # "exited"
  <2>1. pc[t] # "exited" /\ pc'[t] # "exited"
    BY <1>0 DEF At, Step, Enter, Claim, Sort, NextBlock, StartSort, EndOfSort, MergePair,
                NextRound, LastRound, Inner, WriteData, WriteSize, Outer, Final, Shape
  <2> QED BY <1>0, <2>1, Constants DEF OnlyMoves, Before
\* A step that does not touch the mapping.
<1>b. ASSUME DataGood', UNCHANGED <<mapped, copied>>, data' = data \/ B # 1
      PROVE  Before' /\ OneBlock'
  <2>1. overlap' = {} => overlap = {}
    BY <1>0 DEF OnlyMoves
  <2>2. MapKeeps'
    BY <1>0, <1>b, <2>1 DEF Before, MapKeeps, OnlyMoves
  <2>3. OneBlock'
    BY <1>b DEF OneBlock
  <2> QED BY <1>a, <1>b, <2>2, <2>3 DEF Before
<1>1. CASE \/ Enter(t) \/ EndOfSort(t) \/ LastRound(t) \/ Inner(t) \/ Outer(t) \/ Final(t)
           \/ NextRound(t) \/ (NextBlock(t) /\ Blocks \ block_map = {})
  <2>1. UNCHANGED <<input, mapped, copied, data, size, block_map, block_index, overlap, merged>>
    BY <1>1 DEF Enter, EndOfSort, LastRound, Inner, Outer, Final, NextRound, NextBlock
  <2>2. DataStays(t)
    BY <1>0, <1>1 DEF Shape, At, DataStays, Enter, EndOfSort, LastRound, Inner, Outer, Final,
                      NextRound, NextBlock
  <2>3. \A u \in Threads : pc'[u] = "sort" => pc[u] = "sort"
    BY <1>0, <2>2 DEF DataStays, OnlyMoves
  <2>4. DataGood'
    BY <1>0, <2>2, NoDataMoves
  <2>5. DataTypes' /\ size' \in [Blocks -> 0..N]
    BY <1>0, <2>1, <2>3 DEF DataTypes, MergeTypes, OnlyMoves
  <2> QED BY <1>b, <2>1, <2>4, <2>5
<1>2. CASE Claim(t)
  <2>1. t \in Blocks
    BY Constants
  <2>2. StartSort(t, t) /\ pc[t] = "claim" /\ UNCHANGED <<input, mapped, copied, data, size, id, merged>>
    BY <1>2 DEF Claim, At
  <2>3. DataGood'
    BY <1>0, <2>1, <2>2, StartsToSort
  <2>4. DataTypes'
    BY <1>0, <2>1, <2>2 DEF StartSort, DataTypes, OnlyMoves, Shape
  <2> QED BY <1>b, <2>2, <2>3, <2>4 DEF MergeTypes
<1>3. CASE NextBlock(t) /\ Blocks \ block_map # {}
  <2> DEFINE b == CHOOSE x \in Blocks \ block_map : \A c \in Blocks \ block_map : x <= c
  <2>1. b \in Blocks
    BY <1>3, LeastBlock
  <2>2. StartSort(t, b) /\ pc[t] = "next" /\ UNCHANGED <<input, mapped, copied, data, size, id, merged>>
    BY <1>3 DEF NextBlock, At
  <2> HIDE DEF b
  <2>3. DataGood'
    BY <1>0, <2>1, <2>2, StartsToSort
  <2>4. DataTypes'
    BY <1>0, <2>1, <2>2 DEF StartSort, DataTypes, OnlyMoves, Shape
  <2> QED BY <1>b, <2>2, <2>3, <2>4 DEF MergeTypes
<1>4. CASE Sort(t)
  <2>1. /\ DataGood' /\ data' \in [Blocks -> Seq(Nat)] /\ mapped' \in [1..N -> Nat]
        /\ MapKeeps' /\ OneBlock'
    BY <1>0, <1>4, SortKeeps DEF Before
  <2>2. pc'[t] # "sort" /\ UNCHANGED <<input, copied, size, merged, block_index, overlap>>
    BY <1>0, <1>4 DEF Sort, Shape
  <2>3. \A u \in Threads : pc'[u] = "sort" => pc[u] = "sort"
    BY <1>0, <2>2 DEF OnlyMoves
  <2>4. DataTypes' /\ size' \in [Blocks -> 0..N]
    BY <2>1, <2>2, <2>3 DEF DataTypes, MergeTypes
  <2> QED BY <1>a, <2>1, <2>2, <2>4 DEF Before
<1>5. CASE MergePair(t)
  <2>1. DataGood' /\ merged' \in [Threads -> Seq(Nat)]
    BY <1>0, <1>5, MergeKeeps
  <2>2. pc'[t] # "sort" /\ UNCHANGED <<input, mapped, copied, data, size, block_index, overlap>>
    BY <1>0, <1>5 DEF MergePair, Shape
  <2>3. \A u \in Threads : pc'[u] = "sort" => pc[u] = "sort"
    BY <1>0, <2>2 DEF OnlyMoves
  <2>4. DataTypes' /\ size' \in [Blocks -> 0..N]
    BY <2>1, <2>2, <2>3 DEF DataTypes, MergeTypes
  <2> QED BY <1>b, <2>1, <2>2, <2>4
<1>6. CASE WriteData(t)
  <2>1. DataGood' /\ data' \in [Blocks -> Seq(Nat)]
    BY <1>0, <1>6, WriteKeeps
  <2>2. pc'[t] # "sort" /\ UNCHANGED <<input, mapped, copied, size, merged, block_index, overlap>>
    BY <1>0, <1>6 DEF WriteData, Shape
  <2>3. \A u \in Threads : pc'[u] = "sort" => pc[u] = "sort"
    BY <1>0, <2>2 DEF OnlyMoves
  <2>4. DataTypes' /\ size' \in [Blocks -> 0..N]
    BY <2>1, <2>2, <2>3 DEF DataTypes, MergeTypes
  <2>5. B # 1
    BY <1>6, WriterFits DEF WriteData, At
  <2> QED BY <1>b, <2>1, <2>2, <2>4, <2>5
<1>7. CASE WriteSize(t)
  <2>1. DataGood' /\ size' \in [Blocks -> 0..N] /\ merged' \in [Threads -> Seq(Nat)]
    BY <1>0, <1>7, SizeKeeps
  <2>2. pc'[t] # "sort" /\ UNCHANGED <<input, mapped, copied, data, block_index, overlap>>
    BY <1>0, <1>7 DEF WriteSize, Shape
  <2>3. \A u \in Threads : pc'[u] = "sort" => pc[u] = "sort"
    BY <1>0, <2>2 DEF OnlyMoves
  <2>4. DataTypes'
    BY <2>1, <2>2, <2>3 DEF DataTypes
  <2> QED BY <1>b, <2>1, <2>2, <2>4
<1> QED BY <1>1, <1>2, <1>3, <1>4, <1>5, <1>6, <1>7 DEF Step

-----------------------------------------------------------------------------
\* The records of the process, over all steps.
\* The counters of merge_blocks keep to the blocks in every stage.
TypedStage == ~NotRunning => num_blocks \in [Threads -> 1..B] /\ id \in [Threads -> 0..B + T]

LEMMA TypedNext == (SortStrengthened => TypedStage)'
<1>1. SortStrengthened => TypedStage
  BY StageTypes DEF TypedStage
<1> QED BY <1>1, PTL

\* main is past the last barrier and has written nothing back: block 0 is the whole part.
LEMMA CopyBegins ==
  ASSUME SortStrengthened, DataFits, At(0, "done")
  PROVE  BackUpTo(copied)
<1>0. /\ pc[0] = "done" /\ 0 \notin waiting /\ 0 \in Threads /\ ~NotRunning
      /\ DataTypes /\ (Before \/ Copying)
  BY Constants DEF At, NotRunning, DataFits
<1>1. OnlyMain /\ size[0] = N /\ \A u \in Threads : pc[u] \notin {"sort", "writeSize"}
  BY <1>0, EndFits
<1>2. CASE Before
  <2>1. 0 \in Blocks /\ data[0] \in Seq(Nat) /\ Len(data[0]) = N
    BY <1>0, <1>1, <1>2, Constants DEF Before, DataTypes, DataGood, LengthsFit
  <2>2. ASSUME overlap = {}
        PROVE  Sorted(data[0]) /\ Range(data[0]) = Range(input)
    <3>1. RecordsFit /\ block_map = Blocks
      BY <1>1, <1>2, <2>2 DEF Before, DataGood, OnlyMain
    <3>2. Sorted(data[0])
      BY <1>1, <2>1, <3>1 DEF RecordsFit
    <3>3. Range(data[0]) = Seg(input, 0, N)
      BY <2>1, <3>1 DEF RecordsFit
    <3>4. Seg(input, 0, N) = Range(input)
      BY <1>0, WholeSeg DEF DataTypes
    <3> QED BY <3>2, <3>3, <3>4
  <2> QED BY <1>0, <1>2, <2>1, <2>2 DEF Before, BackUpTo
<1>3. CASE Copying
  BY <1>3 DEF Copying
<1> QED BY <1>0, <1>2, <1>3

\* Writing back a record moves block 0 only if it lies in the mapping, and then nothing.
LEMMA CopyKeeps ==
  ASSUME SortStrengthened, DataFits, CopyRecord
  PROVE  DataTypes' /\ OneBlock' /\ Copying' /\ UNCHANGED <<input, overlap>>
<1>0. /\ At(0, "done") /\ copied \in 0..N /\ copied < N /\ copied' = copied + 1
      /\ 0 \in Threads /\ 0 \in Blocks /\ ~NotRunning
      /\ UNCHANGED <<input, size, pc, block_index, overlap, merged, waiting>>
  BY Constants DEF CopyRecord, sortVars, mergeVars, At, NotRunning, DataFits, DataTypes, Blocks
<1>1. DataTypes /\ OneBlock /\ BackUpTo(copied)
  BY <1>0, CopyBegins DEF DataFits
<1>2. PICK n \in Nat, c \in Nat : n = N /\ c = copied' /\ c \in 1..n /\ c = copied + 1
  BY <1>0, Constants
<1>3. PICK s \in Seq(Nat) : s = data[0] /\ Len(s) = n
  BY <1>0, <1>1, <1>2 DEF DataTypes, BackUpTo
<1>4. mapped' = [mapped EXCEPT ![c] = s[c]]
  <2>1. c \in DOMAIN s
    BY <1>2, <1>3
  <2>2. mapped' = [mapped EXCEPT ![copied'] =
                     IF copied' \in DOMAIN data[0] THEN data[0][copied'] ELSE Zero]
    BY DEF CopyRecord
  <2> QED BY <1>2, <1>3, <2>1, <2>2
<1>5. mapped' \in [1..N -> Nat] /\ \A i \in 1..N : mapped'[i] = IF i = c THEN s[c] ELSE mapped[i]
  <2>1. s[c] \in Nat
    BY <1>2, <1>3
  <2>2. mapped \in [1..N -> Nat]
    BY <1>1 DEF DataTypes
  <2> QED BY <1>4, <2>1, <2>2
<1>6. \A b \in Blocks : data'[b] = IF b \in InMapping THEN BlockOf(mapped', b) ELSE data[b]
  BY DEF CopyRecord
<1>7. data' \in [Blocks -> Seq(Nat)]
  <2>1. data' = [b \in Blocks |-> IF b \in InMapping THEN BlockOf(mapped', b) ELSE data[b]]
    BY DEF CopyRecord
  <2>2. \A b \in Blocks : BlockOf(mapped', b) \in Seq(Nat)
    BY <1>5, BlockFacts
  <2>3. \A b \in Blocks : data[b] \in Seq(Nat)
    BY <1>1 DEF DataTypes
  <2> QED BY <2>1, <2>2, <2>3
<1>8. DataTypes'
  <2>1. copied' \in 0..N
    BY <1>2
  <2> QED BY <1>0, <1>1, <1>5, <1>7, <2>1 DEF DataTypes
<1>9. data'[0] = data[0] /\ (B = 1 => mapped' = data'[0])
  <2>1. N = R <=> B = 1
    <3>1. \A x, y \in Nat : y >= 1 => (x * y = y <=> x = 1)
      BY SMT
    <3> QED BY <3>1, Constants
  <2>2. CASE N = R
    <3>1. mapped = s /\ mapped \in [1..N -> Nat]
      BY <1>1, <1>3, <2>1, <2>2 DEF OneBlock, DataTypes
    <3>2. mapped' = mapped
      BY <1>4, <3>1
    <3>3. 0 \in InMapping
      BY <1>0, <1>2, <1>3, <2>2 DEF InMapping
    <3>4. data'[0] = mapped'
      BY <1>0, <1>5, <1>6, <2>2, <3>3, OnlyBlock
    <3> QED BY <1>3, <3>1, <3>2, <3>4
  <2>3. CASE N # R
    <3>1. 0 \notin InMapping
      BY <1>2, <1>3, <2>3 DEF InMapping
    <3> QED BY <1>0, <1>6, <2>1, <2>3, <3>1
  <2> QED BY <2>2, <2>3
<1>10. \A i \in 1..copied' : mapped'[i] = data'[0][i]
  <2>1. ASSUME NEW i \in 1..copied'
        PROVE  mapped'[i] = data'[0][i]
    <3>1. i \in 1..N /\ (i = c \/ i \in 1..copied)
      BY <1>0, <1>2
    <3>2. i \in 1..copied => mapped[i] = s[i] 
      BY <1>1, <1>3 DEF BackUpTo
    <3> QED BY <1>3, <1>5, <1>9, <3>1, <3>2
  <2> QED BY <2>1
<1>11. Copying'
  <2>1. pc'[0] = "done" /\ 0 \notin waiting' /\ Len(data'[0]) = N
    BY <1>0, <1>1, <1>9 DEF At, BackUpTo
  <2>2. overlap' = {} => Sorted(data'[0]) /\ Range(data'[0]) = Range(input')
    BY <1>0, <1>1, <1>9 DEF BackUpTo
  <2>3. copied' > 0
    BY <1>2
  <2> QED BY <1>10, <2>1, <2>2, <2>3 DEF Copying, BackUpTo
<1> QED BY <1>0, <1>8, <1>9, <1>11 DEF OneBlock

LEMMA ExitKeeps ==
  ASSUME SortStrengthened, DataFits, Exit
  PROVE  DataTypes' /\ OneBlock' /\ Copying' /\ UNCHANGED <<input, overlap>>
<1>0. /\ At(0, "done") /\ copied = N /\ 0 \in Threads /\ ~NotRunning /\ N >= 1
      /\ UNCHANGED <<input, data, size, block_index, overlap, merged, waiting, mapped, copied>>
      /\ pc' = [pc EXCEPT ![0] = "exited"]
  BY Constants DEF Exit, Goto, infoVars, sortVars, mergeVars, mapVars, At, NotRunning
<1>1. DataTypes /\ OneBlock /\ BackUpTo(copied)
  BY <1>0, CopyBegins DEF DataFits
<1>2. pc'[0] = "exited" /\ \A u \in Threads : pc'[u] = "sort" => pc[u] = "sort"
  BY <1>0 DEF SortStrengthened, Shape
<1>3. DataTypes'
  BY <1>0, <1>1, <1>2 DEF DataTypes
<1>4. Copying'
  BY <1>0, <1>1, <1>2 DEF Copying, BackUpTo
<1> QED BY <1>0, <1>1, <1>3, <1>4 DEF OneBlock

\* While main writes back the others only come to the end of their rounds.
LEMMA CopyStays ==
  ASSUME NEW t \in Threads, SortStrengthened, DataTypes, OneBlock, Copying, Step(t)
  PROVE  Copying' /\ OneBlock' /\ DataTypes' /\ UNCHANGED size
<1>0. /\ pc[0] \in {"done", "exited"} /\ 0 \notin waiting /\ 0 \in Threads /\ Shape /\ OnlyMoves(t)
  BY OneMoves, Constants DEF Copying, BackUpTo, SortStrengthened
<1>1. t # 0 /\ pc[0] = "done"
  BY <1>0 DEF At, Step, Enter, Claim, Sort, NextBlock, EndOfSort, MergePair, NextRound,
              LastRound, Inner, WriteData, WriteSize, Outer, Final
<1>2. Dropped(t)
  BY <1>0, <1>1, EndFits DEF OnlyMain
<1>3. pc[t] \in {"pairs", "outer", "final", "done"} /\ ~(id[t] < num_blocks[t] \div 2)
  BY <1>0, <1>2, DroppedIdle DEF Dropped
<1>4. NextRound(t) \/ LastRound(t) \/ Outer(t) \/ Final(t)
  BY <1>3 DEF At, Step, Enter, Claim, Sort, NextBlock, EndOfSort, MergePair,
              Inner, WriteData, WriteSize
<1>5. UNCHANGED <<input, data, size, block_index, overlap, merged, mapped, copied>>
  BY <1>4 DEF NextRound, LastRound, Outer, Final, infoVars, sortVars, mergeVars, mapVars
<1>6. pc'[0] = pc[0] /\ \A u \in Threads : pc'[u] = "sort" => pc[u] = "sort"
  <2>1. pc'[t] # "sort"
    BY <1>0, <1>4 DEF NextRound, LastRound, Outer, Final, Goto, Shape
  <2> QED BY <1>0, <1>1, <2>1 DEF OnlyMoves
<1>7. 0 \notin waiting'
  BY <1>0, <1>1, <1>4 DEF NextRound, LastRound, Outer, Final, Arrive, Pass
<1>8. Copying'
  BY <1>5, <1>6, <1>7 DEF Copying, BackUpTo
<1>9. DataTypes'
  BY <1>5, <1>6 DEF DataTypes
<1> QED BY <1>5, <1>8, <1>9 DEF OneBlock

\* What a killed process leaves in the mapping.
LEMMA KilledTypes ==
  ASSUME DataTypes, Killed
  PROVE  /\ DataTypes' /\ NotRunning' /\ pc' = [t \in Threads |-> "killed"]
         /\ UNCHANGED <<input, size, num_blocks, id, overlap, copied, block_index>>
         /\ InSort = {} => mapped' = mapped
<1>0. /\ pc' = [t \in Threads |-> "killed"]
      /\ UNCHANGED <<input, data, size, num_blocks, id, merged, overlap, copied, block_index>>
  BY DEF Killed, infoVars, sortVars, mergeVars
<1>1. PICK from \in [InSort -> [1..R -> 1..R]] :
        mapped' = [i \in 1..N |-> LET b == (i - 1) \div R
                                  IN  IF b \in InSort THEN BlockOf(mapped, b)[from[b][i - b * R]]
                                      ELSE mapped[i]]
  BY DEF Killed
<1>2. ASSUME NEW i \in 1..N
      PROVE  mapped'[i] \in Nat
  <2>1. PICK b \in Blocks, k \in 1..R : b = (i - 1) \div R /\ i - b * R = k
    BY BlockOfRecord
  <2>2. mapped'[i] = IF b \in InSort THEN BlockOf(mapped, b)[from[b][k]] ELSE mapped[i]
    BY <1>1, <2>1
  <2>3. mapped[i] \in Nat /\ mapped \in [1..N -> Nat]
    BY DEF DataTypes
  <2>4. BlockOf(mapped, b) \in Seq(Nat) /\ DOMAIN BlockOf(mapped, b) = 1..R
    BY <2>3, BlockFacts
  <2>5. b \in InSort => from[b][k] \in 1..R
    BY <2>1
  <2>6. \A j \in 1..R : BlockOf(mapped, b)[j] \in Nat
    <3>1. PICK w \in Seq(Nat) : w = BlockOf(mapped, b) /\ DOMAIN w = 1..R
      BY <2>4
    <3>2. \A j \in DOMAIN w : w[j] \in Nat
      BY ONLY w \in Seq(Nat)
    <3> QED BY <3>1, <3>2
  <2> QED BY <2>2, <2>3, <2>5, <2>6
<1>3. mapped' \in [1..N -> Nat]
  BY <1>1, <1>2
<1>4. DataTypes'
  BY <1>0, <1>3 DEF DataTypes
<1>5. InSort = {} => mapped' = mapped
  BY <1>1 DEF DataTypes
<1> QED BY <1>0, <1>4, <1>5 DEF NotRunning

LEMMA LaunchKeeps ==
  ASSUME FileFits, Launch
  PROVE  DataFits' /\ input' = Part /\ mapped' = Part
<1>0. Start(Part)
  BY DEF Launch
<1>1. PICK part : part = Part
  OBVIOUS
<1>2. part \in [1..N -> Nat]
  <2>1. \A i \in 1..N : count + i <= Len(file) => file[count + i] \in Nat
    BY Constants DEF FileFits
  <2> QED BY <1>1, <2>1 DEF Part, Zero
<1>3. /\ input' = part /\ mapped' = part /\ copied' = 0
      /\ data' = [b \in Blocks |-> BlockOf(part, b)] /\ size' = [b \in Blocks |-> R]
      /\ pc' = [t \in Threads |-> "enter"]
      /\ block_map' = {} /\ overlap' = {}
      /\ block_index' = [t \in Threads |-> NoBlock]
      /\ num_blocks' = [t \in Threads |-> B] /\ id' = [t \in Threads |-> t]
      /\ merged' = [t \in Threads |-> <<>>]
  BY <1>0, <1>1 DEF Start
<1>4. \A b \in Blocks : /\ BlockOf(part, b) \in Seq(Nat) /\ Len(BlockOf(part, b)) = R
                        /\ Range(BlockOf(part, b)) = Seg(part, b, R)
  BY <1>2, BlockFacts
<1>5. R \in 0..N /\ B \in 1..B /\ \A t \in Threads : t \in 0..B + T
  <2>1. \A x, y \in Nat : x >= 1 => x * y >= y
    BY SMT
  <2>2. N >= R
    BY <2>1, Constants
  <2> QED BY <2>2, Constants DEF Threads
<1>6. MergeTypes'
  BY <1>3, <1>5 DEF MergeTypes
<1>7. DataTypes'
  <2>1. <<>> \in Seq(Nat) /\ 0 \in 0..N
    BY Constants
  <2> QED BY <1>2, <1>3, <1>4, <2>1 DEF DataTypes
<1>8. LengthsFit'
  BY <1>3, <1>4 DEF LengthsFit
<1>9. RecordsFit'
  BY <1>3, <1>4 DEF RecordsFit
<1>10. MapKeeps'
  BY <1>3, <1>4 DEF MapKeeps
<1>11. OneBlock'
  <2>1. ASSUME B = 1
        PROVE  mapped' = data'[0]
    <3>1. N = R
      BY <2>1, Constants
    <3> QED BY <1>2, <1>3, <3>1, OnlyBlock
  <2> QED BY <2>1 DEF OneBlock
<1>12. Before'
  BY <1>3, <1>8, <1>9, <1>10, Constants DEF Before, DataGood
<1> QED BY <1>1, <1>3, <1>6, <1>7, <1>11, <1>12 DEF DataFits

LEMMA DataUnchanged ==
  ASSUME DataFits, UNCHANGED sortIndexVars
  PROVE  DataFits'
<1>1. UNCHANGED <<input, mapped, copied, data, size, pc, block_map, block_index, overlap,
                  num_blocks, id, merged, waiting>>
  BY DEF sortIndexVars, infoVars, sortVars, mergeVars, mapVars
<1>2. MergeTypes' /\ DataTypes'
  BY <1>1 DEF DataFits, MergeTypes, DataTypes
<1>3. NotRunning => NotRunning'
  BY <1>1 DEF NotRunning
<1>4. DataGood => DataGood'
  BY <1>1 DEF DataGood, LengthsFit, RecordsFit
<1>5. (MapKeeps => MapKeeps') /\ (OneBlock => OneBlock')
  BY <1>1 DEF MapKeeps, OneBlock
<1>6. Copying => Copying'
  BY <1>1 DEF Copying, BackUpTo
<1>7. Before => Before'
  BY <1>1, <1>4, <1>5 DEF Before
<1> QED BY <1>2, <1>3, <1>5, <1>6, <1>7 DEF DataFits

\* Before and after a step of the process, unless it is killed, it runs.
LEMMA ItRuns ==
  ASSUME Shape, (\E t \in Threads : Step(t)) \/ CopyRecord \/ Exit
  PROVE  ~NotRunning /\ ~NotRunning'
<1>1. CASE \E t \in Threads : Step(t)
  <2>1. PICK t \in Threads : Step(t)
    BY <1>1
  <2>2. pc[t] \notin {"none", "killed"} /\ pc'[t] \notin {"none", "killed"}
    BY <2>1 DEF At, Goto, Step, Enter, Claim, Sort, NextBlock, StartSort, EndOfSort,
           MergePair, NextRound, LastRound, Inner, WriteData, WriteSize, Outer, Final, Shape
  <2> QED BY <2>2 DEF NotRunning
<1>2. CASE CopyRecord \/ Exit
  <2>1. 0 \in Threads /\ pc[0] = "done" /\ pc'[0] \in {"done", "exited"}
    BY <1>2, Constants DEF CopyRecord, Exit, At, Goto, Shape
  <2> QED BY <2>1 DEF NotRunning
<1> QED BY <1>1, <1>2

LEMMA DataStep ==
  ASSUME SortStrengthened, SortStrengthened', FileFits, DataFits, [Next]_vars
  PROVE  DataFits'
<1>1. CASE (\E f \in Files : Generate(f)) \/ Reap \/ GiveUp \/ ForkFails
  BY <1>1, DataUnchanged DEF Generate, Reap, GiveUp, ForkFails
<1>2. CASE Launch
  BY <1>2, LaunchKeeps
<1>3. ASSUME ~NotRunning', size' \in [Blocks -> 0..N]
      PROVE  MergeTypes'
  BY <1>3, TypedNext DEF TypedStage, MergeTypes
<1>4. CASE WriteBack
  <2>1. CopyRecord \/ Exit
    BY <1>4 DEF WriteBack
  <2>2. ~NotRunning /\ ~NotRunning'
    BY <2>1, ItRuns DEF SortStrengthened
  <2>3. UNCHANGED size
    BY <2>1 DEF CopyRecord, Exit, infoVars
  <2>4. MergeTypes'
    BY <1>3, <2>2, <2>3 DEF DataFits, MergeTypes
  <2> QED BY <2>1, <2>4, CopyKeeps, ExitKeeps DEF DataFits
<1>5. ASSUME NEW t \in Threads, ThreadStep(t)
      PROVE  DataFits'
  <2>1. Step(t)
    BY <1>5 DEF ThreadStep
  <2>2. ~NotRunning /\ ~NotRunning'
    BY <2>1, ItRuns DEF SortStrengthened
  <2>3. MergeTypes /\ DataTypes /\ OneBlock /\ (Before \/ Copying)
    BY <2>2 DEF DataFits
  <2>4. CASE Before
    <3>1. Before' /\ OneBlock' /\ DataTypes' /\ size' \in [Blocks -> 0..N]
      BY <2>1, <2>3, <2>4, StepKeeps
    <3> QED BY <1>3, <2>2, <3>1 DEF DataFits
  <2>5. CASE Copying
    <3>1. Copying' /\ OneBlock' /\ DataTypes' /\ UNCHANGED size
      BY <2>1, <2>3, <2>5, CopyStays
    <3> QED BY <1>3, <2>2, <2>3, <3>1 DEF DataFits, MergeTypes
  <2> QED BY <2>3, <2>4, <2>5
<1>6. CASE Ended
  <2>1. Killed /\ DataTypes /\ MergeTypes
    BY <1>6 DEF Ended, DataFits
  <2> QED BY <2>1, KilledTypes DEF DataFits, MergeTypes
<1>7. CASE UNCHANGED vars
  BY <1>7, DataUnchanged DEF vars
<1> QED BY <1>1, <1>2, <1>4, <1>5, <1>6, <1>7 DEF Next, Driver, Thread, Sigbus, Kill

LEMMA DataInit == Init => DataFits
<1> SUFFICES ASSUME Init
             PROVE  DataFits
  OBVIOUS
<1>1. input \in [1..N -> Nat] /\ mapped = input /\ copied = 0
  BY DEF Init, NotStarted, Zero
<1>2. \A b \in Blocks : BlockOf(input, b) \in Seq(Nat)
  BY <1>1, BlockFacts
<1>3. R \in 0..N /\ B \in 1..B /\ 0 \in 0..N /\ \A t \in Threads : t \in 0..B + T
  <2>1. \A x, y \in Nat : x >= 1 => x * y >= y
    BY SMT
  <2>2. N >= R
    BY <2>1, Constants
  <2> QED BY <2>2, Constants DEF Threads
<1>4. MergeTypes
  BY <1>3 DEF Init, NotStarted, MergeTypes
<1>5. DataTypes
  <2>1. <<>> \in Seq(Nat)
    OBVIOUS
  <2> QED BY <1>1, <1>2, <1>3, <2>1 DEF Init, NotStarted, DataTypes
<1>6. NotRunning
  BY DEF Init, NotStarted, NotRunning
<1> QED BY <1>4, <1>5, <1>6 DEF DataFits

\* Unless main is in the middle of it, the mapping holds the records of the part.
RunningKeeps ==
  SortStrengthened /\ DataFits /\ ~NotRunning /\ overlap = {} /\ ~InCopy => Range(mapped) = Range(input)

LEMMA MappedKeeps == RunningKeeps
<1> SUFFICES ASSUME DataFits, ~NotRunning, overlap = {}, ~InCopy
             PROVE  Range(mapped) = Range(input)
  BY DEF RunningKeeps
<1>0. /\ mapped \in [1..N -> Nat] /\ input \in [1..N -> Nat] /\ copied \in 0..N
      /\ data \in [Blocks -> Seq(Nat)]
  BY DEF DataFits, DataTypes
<1>1. CASE Before
  <2>1. \A b \in Blocks : Range(BlockOf(mapped, b)) = Range(BlockOf(input, b))
    BY <1>0, <1>1, BlockFacts DEF Before, MapKeeps
  <2> QED BY <1>0, <2>1, SameBlocks
<1>2. CASE Copying
  <2>1. copied = N
    BY <1>0, <1>2, Constants DEF Copying, InCopy
  <2>2. Range(data[0]) = Range(input) /\ Len(data[0]) = N /\ \A i \in 1..N : mapped[i] = data[0][i]
    BY <1>2, <2>1 DEF Copying, BackUpTo
  <2>3. PICK s \in Seq(Nat), n \in Nat : s = data[0] /\ n = N /\ Len(s) = n
    BY <1>0, <2>2, Constants DEF Blocks
  <2>4. DOMAIN s = 1..n /\ DOMAIN mapped = 1..n
    BY <1>0, <2>3
  <2>5. Range(mapped) = Range(s)
    BY <2>2, <2>3, <2>4 DEF Range
  <2> QED BY <2>2, <2>3, <2>5
<1> QED BY <1>1, <1>2 DEF DataFits

LEMMA MappedKeepsNext == RunningKeeps'
  BY MappedKeeps, PTL

\* Once main has returned it holds them in order.
LEMMA ExitLeaves ==
  ASSUME DataFits, pc[0] = "exited", overlap = {}
  PROVE  Sorted(mapped) /\ Range(mapped) = Range(input)
<1>0. Copying /\ copied = N /\ ~NotRunning
  BY Constants DEF DataFits, NotRunning, Before, Copying
<1>1. Sorted(data[0]) /\ Range(data[0]) = Range(input) /\ Len(data[0]) = N
      /\ \A i \in 1..N : mapped[i] = data[0][i]
  BY <1>0 DEF Copying, BackUpTo
<1>2. PICK s \in Seq(Nat), n \in Nat : s = data[0] /\ n = N /\ Len(s) = n
  BY <1>1, Constants DEF Blocks, DataFits, DataTypes
<1>3. mapped \in [1..n -> Nat] /\ s \in [1..n -> Nat] /\ \A i \in 1..n : mapped[i] = s[i]
  BY <1>1, <1>2 DEF DataFits, DataTypes
<1>4. mapped = s
  BY ONLY <1>3
<1> QED BY <1>1, <1>2, <1>4

-----------------------------------------------------------------------------
\* The parts of the file.
LEMMA PartIs ==
  ASSUME NEW f \in Seq(Nat), NEW k \in Nat, k + N <= Len(f)
  PROVE  /\ PartAt(f, k) = [i \in 1..N |-> f[k + i]]
         /\ PartAt(f, k) \in Seq(Nat) /\ Len(PartAt(f, k)) = N
<1>1. PICK n \in Nat : n = N
  BY Constants
<1>2. PICK w : w = SubSeq(f, k + 1, k + n)
  OBVIOUS
<1>3. PICK d, e \in Nat : d = k + 1 /\ e = k + n
  BY <1>1
<1>4. w = SubSeq(f, d, e) /\ e <= Len(f) /\ d >= 1 /\ d + n = e + 1
  BY <1>1, <1>2, <1>3
<1>5. w \in Seq(Nat) /\ Len(w) = n
  BY ONLY f \in Seq(Nat), n \in Nat, d \in Nat, e \in Nat, <1>4, SMTT(30)
<1>6. ASSUME NEW i \in 1..n
      PROVE  w[i] = f[k + i]
  <2>1. i \in 1..e - d + 1 /\ d + i - 1 = k + i /\ i + d - 1 = k + i
    BY <1>3
  <2>2. w[i] = f[d + i - 1]
    BY <1>4, <1>5, <2>1
  <2> QED BY <2>1, <2>2
<1>7. w = [i \in 1..n |-> f[k + i]]
  BY <1>5, <1>6
<1> QED BY <1>1, <1>2, <1>5, <1>7 DEF PartAt

\* Two parts are the same or do not meet.
LEMMA PartsApart ==
  ASSUME NEW k \in Nat, NEW c \in Nat, k % N = 0, c % N = 0, k # c
  PROVE  k + N <= c \/ c + N <= k
<1>1. PICK n \in Nat : n = N /\ n >= 1
  BY Constants
<1>2. PICK x, y \in Nat : k = n * x /\ c = n * y
  <2>1. ASSUME NEW z \in Nat, z % n = 0
        PROVE  \E w \in Nat : z = n * w
    <3>1. z = n * (z \div n) /\ z \div n \in Nat
      BY ONLY n \in Nat, <1>1, <2>1, SMTT(20)
    <3> QED BY <3>1
  <2>2. k % n = 0 /\ c % n = 0
    BY <1>1
  <2> QED BY <2>1, <2>2
<1>3. \A z, v, w \in Nat : v + 1 <= w => z * v + z <= z * w
  BY SMT
<1>4. x + 1 <= y \/ y + 1 <= x
  BY <1>2
<1> QED BY <1>1, <1>2, <1>3, <1>4

LEMMA PutBackFacts ==
  ASSUME FileFits, NEW s \in [1..N -> Nat], NEW f, f = PutBack(s)
  PROVE  /\ f \in Seq(Nat) /\ Len(f) = Len(file)
         /\ count \in WholeParts => PartAt(f, count) = s
         /\ \A k \in WholeParts : k # count => PartAt(f, k) = PartAt(file, k)
<1>0. file \in Seq(Nat) /\ count \in Nat /\ count % N = 0 /\ N \in Nat
  BY Constants DEF FileFits
<1>1. f = [i \in 1..Len(file) |-> IF i \in count + 1..count + N THEN s[i - count] ELSE file[i]]
  BY <1>0 DEF PutBack
<1>2. f \in Seq(Nat) /\ Len(f) = Len(file)
  <2>1. \A i \in count + 1..count + N : s[i - count] \in Nat
    BY <1>0
  <2>4. \A i \in 1..Len(file) : file[i] \in Nat
    BY <1>0
  <2>2. f \in [1..Len(file) -> Nat]
    BY ONLY <1>1, <2>1, <2>4
  <2>3. Len(file) \in Nat
    BY <1>0
  <2> QED BY <2>2, <2>3
<1>3. ASSUME count \in WholeParts
      PROVE  PartAt(f, count) = s
  <2>1. count + N <= Len(file)
    BY <1>3 DEF WholeParts
  <2>2. PartAt(f, count) = [i \in 1..N |-> f[count + i]]
    BY <1>0, <1>2, <2>1, PartIs
  <2>4. ASSUME NEW i \in 1..N
        PROVE  f[count + i] = s[i]
    <3>0. PICK j : j = count + i
      OBVIOUS
    <3>1. j \in 1..Len(file) /\ j \in count + 1..count + N /\ j - count = i
      <4>1. PICK c \in Nat, n \in Nat, l \in Nat : c = count /\ n = N /\ l = Len(file)
        <5>1. count \in Nat /\ N \in Nat /\ Len(file) \in Nat
          BY <1>0
        <5> QED BY ONLY <5>1
      <4>2. c + n <= l /\ i \in Nat /\ i >= 1 /\ i <= n
        BY <2>1, <4>1
      <4>3. j = c + i
        BY <3>0, <4>1
      <4>4. j \in 1..l /\ j \in c + 1..c + n /\ j - c = i
        BY ONLY c \in Nat, n \in Nat, l \in Nat, <4>2, <4>3
      <4> QED BY <4>1, <4>4
    <3>2. f[j] = s[j - count]
      BY ONLY <1>1, <3>1
    <3> QED BY <3>0, <3>1, <3>2
  <2> QED BY <2>2, <2>4
<1>4. ASSUME NEW k \in WholeParts, k # count
      PROVE  PartAt(f, k) = PartAt(file, k)
  <2>0. k \in Nat /\ k % N = 0 /\ k + N <= Len(file)
    BY <1>0, <1>4 DEF WholeParts
  <2>1. k + N <= count \/ count + N <= k
    BY <1>0, <1>4, <2>0, PartsApart
  <2>2. PartAt(f, k) = [i \in 1..N |-> f[k + i]] /\ PartAt(file, k) = [i \in 1..N |-> file[k + i]]
    BY <1>0, <1>2, <2>0, PartIs
  <2>3. \A i \in 1..N : k + i \in 1..Len(file) /\ k + i \notin count + 1..count + N
    BY <1>0, <2>0, <2>1
  <2>4. \A i \in 1..N : f[k + i] = file[k + i]
    BY <1>1, <2>3
  <2> QED BY <2>2, <2>4
<1> QED BY <1>2, <1>3, <1>4

\* Steps of the driver that leave the file alone: they keep what it holds.
LEMMA PartsStay ==
  ASSUME FileIsSortedByParts, UNCHANGED <<file, written>>, spoilt \subseteq spoilt', count \in Nat,
         count' \in Nat, count <= count',
         \A k \in WholeParts \ spoilt' :
           /\ k < count' => k < count \/ Sorted(PartAt(file, k))
           /\ ~HalfWritten(k)' => ~HalfWritten(k) \/ Keeps(k)
  PROVE  FileIsSortedByParts'
<1> SUFFICES ASSUME NEW k \in WholeParts \ spoilt'
             PROVE  /\ ~HalfWritten(k)' => Keeps(k)
                    /\ k < count' => Sorted(PartAt(file, k))
                    /\ k > count' => PartAt(file, k) = PartAt(written, k)
  BY DEF FileIsSortedByParts, WholeParts, Keeps
<1>1. k \in Int /\ k \in WholeParts \ spoilt
  BY DEF WholeParts
<1>2. /\ ~HalfWritten(k) => Keeps(k)
      /\ k < count => Sorted(PartAt(file, k))
      /\ k > count => PartAt(file, k) = PartAt(written, k)
  BY <1>1 DEF FileIsSortedByParts
<1>3. k > count' => k > count
  BY <1>1
<1> QED BY <1>2, <1>3

\* The part of a file that holds it as a whole.
LEMMA WholePart ==
  ASSUME FileFits, count \in WholeParts
  PROVE  Part = PartAt(file, count)
<1>1. file \in Seq(Nat) /\ count \in Nat /\ count + N <= Len(file)
  BY DEF FileFits, WholeParts
<1>2. PartAt(file, count) = [i \in 1..N |-> file[count + i]]
  BY <1>1, PartIs
<1>3. \A i \in 1..N : count + i <= Len(file)
  BY <1>1, Constants
<1>4. Part = [i \in 1..N |-> file[count + i]]
  BY <1>3 DEF Part
<1> QED BY <1>2, <1>4

\* A step of the process: it writes the part it has mapped, and no other.
LEMMA PartWritten ==
  ASSUME FileInvariant, lab6 = "wait", mapped' \in [1..N -> Nat], file' = PutBack(mapped'),
         UNCHANGED <<input, driverVars, written>>,
         spoilt' = spoilt \/ spoilt' = spoilt \cup {count},
         overlap' # {} => count \in spoilt',
         count \in WholeParts \ spoilt' /\ ~HalfWritten(count)' => Range(mapped') = Range(input)
  PROVE  FileInvariant'
<1>0. FileFits /\ PartFits /\ FileIsSortedByParts /\ UNCHANGED <<lab6, count>>
  BY DEF FileInvariant, driverVars
<1>1. /\ file' \in Seq(Nat) /\ Len(file') = Len(file)
      /\ count \in WholeParts => PartAt(file', count) = mapped'
      /\ \A k \in WholeParts : k # count => PartAt(file', k) = PartAt(file, k)
  BY <1>0, PutBackFacts
<1>2. WholeParts' = WholeParts /\ count \in Nat
  BY <1>0, <1>1 DEF WholeParts, FileFits
<1>3. FileFits'
  <2>1. count \in 0..Len(written)
    BY <1>0 DEF FileFits
  <2>2. spoilt' \subseteq 0..Len(written')
    BY <1>0, <2>1 DEF FileFits
  <2> QED BY <1>0, <1>1, <2>2 DEF FileFits
<1>4. count \in WholeParts \ spoilt' => Range(input') = Range(PartAt(written', count'))
  BY <1>0 DEF PartFits
<1>5. PartFits'
  BY <1>0, <1>1, <1>2, <1>4 DEF PartFits
<1>6. FileIsSortedByParts'
  <2> SUFFICES ASSUME NEW k \in WholeParts \ spoilt'
               PROVE  /\ ~HalfWritten(k)' => Keeps(k)'
                      /\ k < count => Sorted(PartAt(file', k))
                      /\ k > count => PartAt(file', k) = PartAt(written, k)
    BY <1>0, <1>2 DEF FileIsSortedByParts
  <2>1. CASE k = count
    <3>1. ~(k < count) /\ ~(k > count)
      BY <1>2, <2>1
    <3>2. ~HalfWritten(k)' => Keeps(k)'
      BY <1>0, <1>1, <1>4, <2>1 DEF Keeps
    <3> QED BY <3>1, <3>2
  <2>2. CASE k # count
    <3>1. ~HalfWritten(k) /\ k \in WholeParts \ spoilt
      BY <2>2 DEF HalfWritten
    <3>2. /\ Keeps(k)
          /\ k < count => Sorted(PartAt(file, k))
          /\ k > count => PartAt(file, k) = PartAt(written, k)
      BY <1>0, <3>1 DEF FileIsSortedByParts
    <3>3. PartAt(file', k) = PartAt(file, k)
      BY <1>1, <2>2
    <3> QED BY <3>2, <3>3 DEF Keeps
  <2> QED BY <2>1, <2>2
<1> QED BY <1>3, <1>5, <1>6 DEF FileInvariant

-----------------------------------------------------------------------------
\* The steps that leave the process alone.
LEMMA DriverKeeps ==
  ASSUME DataFits, FileInvariant,
         (\E f \in Files : Generate(f)) \/ GiveUp \/ ForkFails \/ Reap
  PROVE  FileInvariant'
<1>0. FileFits /\ PartFits /\ FileIsSortedByParts /\ count \in Nat /\ Len(file) \in Nat
      /\ N \in Nat /\ N >= 1 /\ UNCHANGED <<input, pc, mapped, copied, block_index, overlap>>
  BY Constants DEF FileInvariant, FileFits, Generate, GiveUp, ForkFails, Reap, sortIndexVars,
                   sortVars, mapVars
<1>1. ASSUME NEW f \in Files, Generate(f)
      PROVE  FileInvariant'
  <2>1. /\ lab6 = "generate" /\ file' = f /\ written' = f /\ lab6' = "sort"
        /\ UNCHANGED <<count, spoilt>>
    BY <1>1 DEF Generate
  <2>2. f \in Seq(Nat)
    <3>1. f \in Seq(Nat \ {Zero})
      BY SortFileAssumption
    <3> QED BY <3>1
  <2>3. count = 0 /\ spoilt = {}
    BY <1>0, <2>1 DEF FileFits
  <2>4. FileFits'
    BY <1>0, <2>1, <2>2, <2>3 DEF FileFits
  <2>5. PartFits'
    BY <2>1 DEF PartFits
  <2>6. FileIsSortedByParts'
    <3>1. ASSUME NEW k \in WholeParts'
          PROVE  Keeps(k)' /\ ~(k < count')
      <4>1. k \in Nat
        BY <3>1, <2>2 DEF WholeParts
      <4>2. Keeps(k)'
        BY <2>1 DEF Keeps
      <4> QED BY <2>1, <2>3, <4>1, <4>2
    <3> QED BY <2>1, <3>1 DEF FileIsSortedByParts
  <2> QED BY <2>4, <2>5, <2>6 DEF FileInvariant
<1>2. ASSUME lab6' = "failed", UNCHANGED <<file, count, written, spoilt>>
      PROVE  FileInvariant'
  <2>1. FileFits'
    BY <1>0, <1>2 DEF FileFits
  <2>2. PartFits'
    BY <1>2 DEF PartFits
  <2>3. \A k : HalfWritten(k)' <=> HalfWritten(k)
    BY <1>0, <1>2 DEF HalfWritten, InSort, InCopy
  <2>4. FileIsSortedByParts'
    BY <1>0, <1>2, <2>3, PartsStay
  <2> QED BY <2>1, <2>2, <2>4 DEF FileInvariant
<1>3. ASSUME NextPart, lab6 \in {"sort", "wait"}, UNCHANGED <<file, written>>,
             spoilt' = spoilt \/ spoilt' = spoilt \cup {count},
             count \in WholeParts \ spoilt' => Sorted(PartAt(file, count)) /\ Keeps(count)
      PROVE  FileInvariant'
  <2>1. count' = count + N /\ lab6' \in {"sort", "done"} /\ (lab6' = "sort" => count' < Len(file'))
    BY <1>3 DEF NextPart
  <2>2. count % N = 0 /\ (count = 0 \/ count < Len(file)) /\ Len(file) = Len(written)
    BY <1>0, <1>3 DEF FileFits
  <2>3. count' \in Nat /\ count' % N = 0
    <3>1. PICK n \in Nat, c \in Nat : n = N /\ c = count /\ n >= 1 /\ c % n = 0
      BY <1>0, <2>2
    <3>2. PICK q \in Nat : c = n * q
      <4>1. c = n * (c \div n) /\ c \div n \in Nat
        BY <3>1, SMT
      <4> QED BY <4>1
    <3>3. c + n = n * (q + 1)
      BY <3>2
    <3>4. \A x, y, z \in Nat : x >= 1 /\ y = x * z => y % x = 0
      BY SMT
    <3>5. (c + n) % n = 0
      <4>1. PICK d \in Nat, r \in Nat : d = c + n /\ r = q + 1
        BY <3>1
      <4>2. d = n * r
        BY <3>3, <4>1
      <4>3. d % n = 0
        BY ONLY n \in Nat, d \in Nat, r \in Nat, <3>1, <3>4, <4>2
      <4> QED BY <4>1, <4>3
    <3> QED BY <2>1, <3>1, <3>5
  <2>4. spoilt' \subseteq 0..Len(written')
    <3>1. count \in 0..Len(written)
      BY <1>0, <2>2
    <3> QED BY <1>0, <1>3, <3>1 DEF FileFits
  <2>5. FileFits'
    BY <1>0, <1>3, <2>1, <2>3, <2>4 DEF FileFits
  <2>6. PartFits'
    <3>1. ASSUME count' \in WholeParts' \ spoilt'
          PROVE  PartAt(file', count') = PartAt(written', count')
      <4>1. count' \in WholeParts \ spoilt /\ count' > count
        BY <1>0, <1>3, <2>1, <3>1 DEF WholeParts
      <4> QED BY <1>0, <1>3, <4>1 DEF FileIsSortedByParts
    <3> QED BY <2>1, <3>1 DEF PartFits
  <2>7. ASSUME NEW k \in WholeParts \ spoilt', k < count'
        PROVE  k < count \/ Sorted(PartAt(file, k))
    <3>1. k \in Nat /\ k % N = 0
      BY <1>0, <2>7 DEF WholeParts
    <3>2. k = count \/ k < count
      <4>1. CASE k # count
        BY <1>0, <2>1, <2>2, <2>7, <3>1, <4>1, PartsApart
      <4> QED BY <4>1
    <3> QED BY <1>3, <2>7, <3>2
  <2>8. ASSUME NEW k \in WholeParts \ spoilt'
        PROVE  ~HalfWritten(k) \/ Keeps(k)
    BY <1>3, <2>8 DEF HalfWritten
  <2>9. count <= count'
    BY <1>0, <2>1
  <2>10. FileIsSortedByParts'
    BY <1>0, <1>3, <2>3, <2>7, <2>8, <2>9, PartsStay
  <2> QED BY <2>5, <2>6, <2>10 DEF FileInvariant
<1>4. CASE GiveUp
  BY <1>2, <1>4 DEF GiveUp
<1>5. CASE ForkFails
  <2>1. NextPart /\ lab6 = "sort" /\ spoilt' = spoilt \cup {count} /\ UNCHANGED <<file, written>>
    BY <1>5 DEF ForkFails
  <2> QED BY <1>3, <2>1
<1>6. CASE Reap
  <2>1. lab6 = "wait" /\ UNCHANGED <<file, written, spoilt>>
    BY <1>6 DEF Reap
  <2>2. CASE pc[0] = "exited"
    <3>1. NextPart
      BY <1>6, <2>2 DEF Reap
    <3>2. ASSUME count \in WholeParts \ spoilt
          PROVE  Sorted(PartAt(file, count)) /\ Keeps(count)
      <4>1. /\ overlap = {} /\ PartAt(file, count) = mapped
            /\ Range(input) = Range(PartAt(written, count))
        BY <1>0, <2>1, <3>2 DEF PartFits
      <4>2. Sorted(mapped) /\ Range(mapped) = Range(input)
        BY <2>2, <4>1, ExitLeaves
      <4> QED BY <4>1, <4>2 DEF Keeps
    <3> QED BY <1>3, <2>1, <3>1, <3>2
  <2>3. CASE pc[0] # "exited"
    <3>1. lab6' = "failed" /\ UNCHANGED <<file, count, written, spoilt>>
      BY <1>6, <2>3 DEF Reap
    <3> QED BY <1>2, <3>1
  <2> QED BY <2>2, <2>3
<1> QED BY <1>1, <1>4, <1>5, <1>6

LEMMA StartKeeps ==
  ASSUME FileInvariant, Launch
  PROVE  FileInvariant'
<1>0. FileFits /\ PartFits /\ FileIsSortedByParts /\ lab6 = "sort" /\ lab6' = "wait"
      /\ UNCHANGED <<file, count, written, spoilt>> /\ count \in Nat
  BY DEF FileInvariant, FileFits, Launch
<1>1. /\ input' = Part /\ mapped' = Part /\ copied' = 0 /\ overlap' = {}
      /\ pc' = [t \in Threads |-> "enter"]
  BY DEF Launch, Start
<1>2. FileFits'
  BY <1>0 DEF FileFits
<1>3. PartFits'
  <2>1. count \in WholeParts => Part = PartAt(file, count)
    BY <1>0, WholePart
  <2>2. count \in WholeParts \ spoilt => PartAt(file, count) = PartAt(written, count)
    BY <1>0 DEF PartFits
  <2>3. WholeParts' = WholeParts
    BY <1>0 DEF WholeParts
  <2> QED BY <1>0, <1>1, <2>1, <2>2, <2>3 DEF PartFits
<1>4. \A k \in WholeParts \ spoilt : ~HalfWritten(k) \/ Keeps(k)
  BY <1>0 DEF PartFits, HalfWritten, Keeps
<1>5. FileIsSortedByParts'
  BY <1>0, <1>4, PartsStay
<1> QED BY <1>2, <1>3, <1>5 DEF FileInvariant

\* The steps of the process while it runs.
LEMMA ProcessKeeps ==
  ASSUME SortStrengthened, SortStrengthened', DataFits, DataFits', FileInvariant,
         (\E t \in Threads : ThreadStep(t)) \/ WriteBack
  PROVE  FileInvariant'
<1>0. /\ lab6 = "wait" /\ file' = PutBack(mapped') /\ UNCHANGED <<driverVars, written>>
      /\ (\E t \in Threads : Step(t)) \/ CopyRecord \/ Exit
      /\ DataTypes /\ PartFits
  BY DEF ThreadStep, WriteBack, DataFits, FileInvariant
<1>1. ~NotRunning' /\ mapped' \in [1..N -> Nat]
  BY <1>0, ItRuns DEF SortStrengthened, DataFits, DataTypes
<1>2. UNCHANGED input
  BY <1>0, OneMoves, CopyKeeps, ExitKeeps DEF SortStrengthened, OnlyMoves
<1>3. (spoilt' = spoilt \/ spoilt' = spoilt \cup {count}) /\ (overlap' # {} => count \in spoilt')
  <2>1. CASE \E t \in Threads : ThreadStep(t)
    BY <2>1 DEF ThreadStep
  <2>2. CASE WriteBack
    <3>1. spoilt' = spoilt /\ overlap' = overlap
      BY <2>2, CopyKeeps, ExitKeeps DEF WriteBack
    <3> QED BY <1>0, <3>1 DEF PartFits
  <2> QED BY <2>1, <2>2
<1>4. ASSUME count \in WholeParts \ spoilt', ~HalfWritten(count)'
      PROVE  Range(mapped') = Range(input)
  <2>1. overlap' = {}
    BY <1>3, <1>4
  <2>2. count' = count
    BY <1>0 DEF driverVars
  <2>3. ~InCopy'
    BY <1>4, <2>2 DEF HalfWritten
  <2>4. Range(mapped') = Range(input')
    BY <1>1, <2>1, <2>3, MappedKeepsNext DEF RunningKeeps
  <2> QED BY <1>2, <2>4
<1> QED BY <1>0, <1>1, <1>2, <1>3, <1>4, PartWritten

\* The process is killed.
LEMMA EndKeeps ==
  ASSUME DataFits, FileInvariant, lab6 = "wait", Ended
  PROVE  FileInvariant'
<1>0. /\ file' = PutBack(mapped') /\ UNCHANGED <<driverVars, written>>
      /\ DataTypes /\ Killed /\ FileIsSortedByParts /\ PartFits
  BY DEF Ended, DataFits, FileInvariant
<1>1. /\ mapped' \in [1..N -> Nat] /\ UNCHANGED <<input, overlap>>
      /\ InSort = {} => mapped' = mapped
  BY <1>0, KilledTypes DEF DataTypes
<1>2. spoilt' = IF InSort = {} /\ ~InCopy THEN spoilt ELSE spoilt \cup {count}
  BY DEF Ended
<1>3. overlap' # {} => count \in spoilt'
  BY <1>0, <1>1, <1>2 DEF PartFits
<1>4. ASSUME count \in WholeParts \ spoilt'
      PROVE  Range(mapped') = Range(input)
  <2>1. InSort = {} /\ ~InCopy /\ count \in WholeParts \ spoilt
    BY <1>2, <1>4
  <2>2. Keeps(count)
    BY <1>0, <2>1 DEF FileIsSortedByParts, HalfWritten
  <2>3. PartAt(file, count) = mapped /\ Range(input) = Range(PartAt(written, count))
    BY <1>0, <2>1 DEF PartFits
  <2> QED BY <1>1, <2>1, <2>2, <2>3 DEF Keeps
<1> QED BY <1>0, <1>1, <1>2, <1>3, <1>4, PartWritten

LEMMA FileStep ==
  ASSUME SortStrengthened, SortStrengthened', DataFits, DataFits', FileInvariant, [Next]_vars
  PROVE  FileInvariant'
<1>1. CASE (\E f \in Files : Generate(f)) \/ Reap \/ GiveUp \/ ForkFails
  BY <1>1, DriverKeeps
<1>2. CASE Launch
  BY <1>2, StartKeeps
<1>3. CASE (\E t \in Threads : ThreadStep(t)) \/ WriteBack
  BY <1>3, ProcessKeeps
<1>4. CASE (\E t \in Threads : Sigbus(t)) \/ Kill
  BY <1>4, EndKeeps DEF Sigbus, Kill, Running
<1>5. CASE UNCHANGED vars
  <2>1. UNCHANGED <<input, pc, mapped, copied, block_index, overlap, file, lab6, count, written, spoilt>>
    BY <1>5 DEF vars, sortIndexVars, driverVars, sortVars, mapVars
  <2>2. WholeParts' = WholeParts /\ count \in Nat /\ \A k : HalfWritten(k)' <=> HalfWritten(k)
    BY <2>1 DEF WholeParts, HalfWritten, InSort, InCopy, FileInvariant, FileFits
  <2>3. FileFits' /\ PartFits'
    BY <2>1, <2>2 DEF FileInvariant, FileFits, PartFits
  <2>4. FileIsSortedByParts'
    BY <2>1, <2>2, PartsStay DEF FileInvariant
  <2> QED BY <2>3, <2>4 DEF FileInvariant
<1> QED BY <1>1, <1>2, <1>3, <1>4, <1>5 DEF Next, Driver, Thread

LEMMA FileInit == Init => FileInvariant
<1> SUFFICES ASSUME Init
             PROVE  FileInvariant
  OBVIOUS
<1>1. file = <<>> /\ written = <<>> /\ spoilt = {} /\ lab6 = "generate" /\ count = 0
  BY DEF Init
<1>2. <<>> \in Seq(Nat) /\ Len(<<>>) = 0 /\ 0 % N = 0
  BY Constants
<1>3. FileFits /\ PartFits
  BY <1>1, <1>2 DEF FileFits, PartFits
<1>4. WholeParts = {}
  BY <1>1, <1>2, Constants DEF WholeParts
<1> QED BY <1>3, <1>4 DEF FileInvariant, FileIsSortedByParts

(***************************************************************************)
(* "File %s sorted." (lab6.c), for any number of blocks, records and pages *)
(* and any file, if the number of threads divides the number of blocks:    *)
(* every whole part that nobody spoilt keeps the records that genFile      *)
(* wrote there unless it is just being written, whatever else fails and    *)
(* whenever sortIndex is killed, holds them in order once the driver is    *)
(* past it, and is not touched before; and every record and counter keeps  *)
(* its type.                                                               *)
(***************************************************************************)
THEOREM PartsAreSorted ==
  ASSUME B % T = 0
  PROVE  Spec => []SortedFileInvariant
<1> DEFINE Inv == SortStrengthened /\ DataFits /\ FileInvariant
<1>1. Init => Inv
  BY SortInit, DataInit, FileInit
<1>2. Inv /\ [Next]_vars => Inv'
  <2> SUFFICES ASSUME Inv, [Next]_vars
               PROVE  Inv'
    OBVIOUS
  <2>1. SortStrengthened'
    BY SortStep
  <2>2. DataFits'
    BY <2>1, DataStep DEF FileInvariant
  <2>3. FileInvariant'
    BY <2>1, <2>2, FileStep
  <2> QED BY <2>1, <2>2, <2>3
<1>3. Inv => SortedFileInvariant
  <2> SUFFICES ASSUME Inv
               PROVE  SortedFileInvariant
    OBVIOUS
  <2>1. input \in Seq(Nat) /\ mapped \in Seq(Nat)
    <3>1. input \in [1..N -> Nat] /\ mapped \in [1..N -> Nat] /\ N \in Nat
      BY Constants DEF DataFits, DataTypes
    <3> QED BY <3>1
  <2>2. TypeOK
    BY <2>1 DEF SortStrengthened, Shape, DataFits, MergeTypes, DataTypes, FileInvariant, FileFits, TypeOK
  <2> QED BY <2>2 DEF FileInvariant, SortedFileInvariant
<1> QED BY <1>1, <1>2, <1>3, PTL DEF Spec

=============================================================================
