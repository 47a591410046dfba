------------------------------ MODULE SortFile ------------------------------
(***************************************************************************)
(* Lab6: lab6.c has genFile write the index file and then runs sortIndex   *)
(* on one part of memsize bytes after the other, waiting for each.  What   *)
(* sortIndex does inside a part is module SortIndex.                       *)
(***************************************************************************)
EXTENDS SortIndex

CONSTANTS
  Files,        \* what genFile may write: the records, without the header
  PageRecords   \* how many records fill a page of the mapped file

\* Record numbers make all records of a file different, none is the empty one.
ASSUME SortFileAssumption ==
  /\ PageRecords \in Nat \ {0}
  /\ \A f \in Files : f \in Seq(Nat \ {Zero}) /\ Cardinality(Range(f)) = Len(f)

VARIABLES
  file,         \* the records in the file
  lab6, count,  \* the driver: where it is, the offset of the part it is at
  written,      \* history: the file as genFile wrote it
  spoilt        \* history: offsets of parts that nobody sorted, in which two threads
                \* sorted one block, or that a signal has caught half written

driverVars == <<lab6, count>>
vars == <<sortIndexVars, file, driverVars, written, spoilt>>

Init ==
  /\ NotStarted
  /\ file = <<>> /\ written = <<>> /\ spoilt = {}
  /\ lab6 = "generate" /\ count = 0

\* Behind the end of the file a mapped page holds zeros.
Part == [i \in 1..N |-> IF count + i <= Len(file) THEN file[count + i] ELSE Zero]

\* The file with s in the place of the part; what lies behind its end is lost.
PutBack(s) ==
  [i \in DOMAIN file |-> IF i \in count + 1..count + N THEN s[i - count] ELSE file[i]]

-----------------------------------------------------------------------------
(* lab6.c. *)

Generate(f) ==
  /\ lab6 = "generate"
  /\ file' = f /\ written' = f
  /\ lab6' = "sort"
  /\ UNCHANGED <<sortIndexVars, count, spoilt>>

\* The first fork or genFile fails; the program of the child is missing or fails.
GiveUp ==
  /\ lab6 \in {"generate", "sort"}
  /\ lab6' = "failed"
  /\ UNCHANGED <<sortIndexVars, file, count, written, spoilt>>

Launch ==
  /\ lab6 = "sort"
  /\ Start(Part)
  /\ lab6' = "wait"
  /\ UNCHANGED <<file, count, written, spoilt>>

\* while (count < filesize), tested after a part.
NextPart ==
  /\ count' = count + N
  /\ lab6' = IF count + N < Len(file) THEN "sort" ELSE "done"

\* For the later parts pidSort, the child of the first part, is tested for a failed
\* fork: waitpid(-1) then returns at once and leaves the status of the part before.
ForkFails ==
  /\ lab6 = "sort" /\ count > 0
  /\ NextPart
  /\ spoilt' = spoilt \cup {count}
  /\ UNCHANGED <<sortIndexVars, file, written>>

\* waitpid: the part is done if the child has exited, not if a signal ended it.
Reap ==
  /\ lab6 = "wait" /\ pc[0] \in {"exited", "killed"}
  /\ IF pc[0] = "exited" THEN NextPart ELSE lab6' = "failed" /\ UNCHANGED count
  /\ UNCHANGED <<sortIndexVars, file, written, spoilt>>

-----------------------------------------------------------------------------
(* sortIndex on the file. *)

Running == lab6 = "wait" /\ pc[0] \notin {"exited", "killed"}

\* The records that lie in mapped pages from the part on; the header is as long as one.
Mapped == (Len(file) \div PageRecords + 1) * PageRecords - 1 - count

\* The block reaches beyond the last mapped page (a block of one record is first
\* touched when it is merged, with the same outcome).
Beyond(t) == At(t, "sort") /\ (block_index[t] + 1) * R > Mapped

ThreadStep(t) ==
  /\ lab6 = "wait" /\ ~Beyond(t) /\ Step(t)
  /\ file' = PutBack(mapped')
  /\ spoilt' = IF overlap' = {} THEN spoilt ELSE spoilt \cup {count}
  /\ UNCHANGED <<driverVars, written>>

\* A signal ends the process; the mapping is the file, as far as it has been written.
Ended ==
  /\ Killed
  /\ file' = PutBack(mapped')
  /\ spoilt' = IF InSort = {} /\ ~InCopy THEN spoilt ELSE spoilt \cup {count}
  /\ UNCHANGED <<driverVars, written>>

Sigbus(t) == lab6 = "wait" /\ Beyond(t) /\ Ended

\* Somebody kills sortIndex.
Kill == Running /\ Ended

WriteBack ==
  /\ lab6 = "wait" /\ (CopyRecord \/ Exit)
  /\ file' = PutBack(mapped')
  /\ UNCHANGED <<driverVars, written, spoilt>>

Thread(t) == ThreadStep(t) \/ Sigbus(t)

Driver == (\E f \in Files : Generate(f)) \/ Launch \/ Reap

Next ==
  \/ Driver \/ GiveUp \/ ForkFails \/ WriteBack \/ Kill
  \/ \E t \in Threads : Thread(t)

Spec == Init /\ [][Next]_vars

\* Every thread runs, and so does the driver.
FairSpec ==
  /\ Spec
  /\ WF_vars(Driver) /\ WF_vars(WriteBack) /\ \A t \in Threads : WF_vars(Thread(t))

=============================================================================
