------------------------------ MODULE DirWalk ------------------------------
(***************************************************************************)
(* Lab1/dirwalk.c: file_out lists a directory and everything below it,     *)
(* while other processes create and remove entries.  A recursive call      *)
(* keeps its directory open (opendir) and walks the list of names that     *)
(* scandir, which opens the directory once more, read at its beginning.    *)
(***************************************************************************)
EXTENDS Integers, Sequences, FiniteSets, SequencesExt

CONSTANTS
  Nodes,          \* the entries there may be below the directory of the walk
  Up,             \* the directory an entry is in: a node or Root
  Kind,           \* what lstat says of an entry
  Rank,           \* the order of names (strcoll)
  Private,        \* directories that may not be opened
  Unseen,         \* entries that lstat does not find although they are there
  Options,        \* the sets of options the program may be called with
  Descriptors,    \* how many files the process may have open at once
  MaxChanges      \* bound: changes other processes make during the walk

Root == "."

(***************************************************************************)
(* Unseen are the entries of a directory that may be read but not          *)
(* searched, and those whose path does not fit into PATH_MAX.  Assumed of  *)
(* the latter is that the path as snprintf cuts it names nothing.          *)
(***************************************************************************)
ASSUME DirWalkAssumption ==
  /\ Root \notin Nodes /\ IsFiniteSet(Nodes) /\ Private \subseteq Nodes /\ Unseen \subseteq Nodes
  /\ Up \in [Nodes -> Nodes \cup {Root}]
  /\ Kind \in [Nodes -> {"d", "l", "f", "other"}]
  /\ \A n \in Nodes : Up[n] \in Nodes => Kind[Up[n]] = "d" /\ Rank[Up[n]] < Rank[n]
  /\ Rank \in [Nodes -> Nat] /\ \A m, n \in Nodes : Rank[m] = Rank[n] => m = n
  /\ Options \subseteq SUBSET {"d", "l", "f", "s"}
  /\ Descriptors \in Nat \ {0, 1} /\ MaxChanges \in Nat

VARIABLES
  options,        \* the options of this call
  existing,       \* the entries there are at this moment
  stack,          \* the calls of file_out: directory, step, names and place in them
  printed,        \* the lines written so far, as entries
  ended,          \* "no", or how the program has ended
  changes,        \* bound: how many changes there were
  stable          \* history: the entries that were there from the beginning on

walkVars == <<stack, printed, ended>>
worldVars == <<existing, changes, stable>>
vars == <<options, walkVars, worldVars>>

\* All three kinds are listed when none is asked for.
Listed == LET kinds == options \ {"s"} IN IF kinds = {} THEN {"d", "l", "f"} ELSE kinds

\* A directory is there as long as its path is; the root stays.
Exists(d) == d = Root \/ d \in existing

Call(d) == [dir |-> d, at |-> "opendir", names |-> <<>>, i |-> 1]

Init ==
  /\ options \in Options
  /\ \E lacking \in SUBSET Nodes :
       /\ \A n \in Nodes : Up[n] \in lacking => n \in lacking
       /\ Cardinality(lacking) <= MaxChanges
       /\ existing = Nodes \ lacking
  /\ stack = <<Call(Root)>> /\ printed = <<>> /\ ended = "no"
  /\ changes = 0 /\ stable = existing

-----------------------------------------------------------------------------
(* file_out. *)

Running(at) == ended = "no" /\ stack # <<>> /\ Last(stack).at = at
Frame == Last(stack)
Replace(frame) == stack' = Append(Front(stack), frame)

\* Every call that has got past opendir holds a descriptor.
OpenCount == Cardinality({k \in DOMAIN stack : stack[k].at # "opendir"})
CanOpen(d, others) == Exists(d) /\ d \notin Private /\ others < Descriptors

\* Faulty variant: a directory that cannot be opened ends the program.
OpendirExits ==
  /\ Running("opendir")
  /\ IF CanOpen(Frame.dir, OpenCount)
     THEN Replace([Frame EXCEPT !.at = "scandir"]) /\ UNCHANGED ended
     ELSE ended' = "failure" /\ UNCHANGED stack
  /\ UNCHANGED <<options, printed, worldVars>>

\* A directory that cannot be opened is reported and left out.
Opendir ==
  /\ Running("opendir")
  /\ IF CanOpen(Frame.dir, OpenCount)
     THEN Replace([Frame EXCEPT !.at = "scandir"])
     ELSE stack' = Front(stack)
  /\ UNCHANGED <<options, printed, ended, worldVars>>

\* lstat on an entry's path.
Seen(n) == n \in existing \ Unseen

InOrder(s) == \A i, j \in DOMAIN s : i < j => Rank[s[i]] < Rank[s[j]]

\* The names of the moment, sorted with -s; a failure ends the program.
Scandir ==
  /\ Running("scandir")
  /\ IF CanOpen(Frame.dir, OpenCount)
     THEN /\ \E names \in SetToSeqs({n \in existing : Up[n] = Frame.dir}) :
               /\ "s" \in options => InOrder(names)
               /\ Replace([Frame EXCEPT !.at = "entry", !.names = names])
          /\ UNCHANGED ended
     ELSE ended' = "failure" /\ UNCHANGED stack
  /\ UNCHANGED <<options, printed, worldVars>>

\* Faulty variant: `break` where the code continues, so the rest is left out.
EntryBreaks ==
  /\ Running("entry") /\ Frame.i <= Len(Frame.names)
  /\ LET n == Frame.names[Frame.i]
         next == Append(Front(stack), [Frame EXCEPT !.i = @ + 1])
     IN  /\ printed' = IF Seen(n) /\ Kind[n] \in Listed
                       THEN Append(printed, n) ELSE printed
         /\ stack' = IF ~Seen(n) THEN Front(stack)
                     ELSE IF Kind[n] = "d" THEN Append(next, Call(n)) ELSE next
  /\ UNCHANGED <<options, ended, worldVars>>

\* Faulty variant: the case of a directory falls through to that of a link.
EntryFallsThrough ==
  /\ Running("entry") /\ Frame.i <= Len(Frame.names)
  /\ LET n == Frame.names[Frame.i]
         next == Append(Front(stack), [Frame EXCEPT !.i = @ + 1])
         lines == IF ~Seen(n) THEN <<>>
                  ELSE (IF Kind[n] \in Listed THEN <<n>> ELSE <<>>)
                         \o (IF Kind[n] = "d" /\ "l" \in Listed THEN <<n>> ELSE <<>>)
     IN  /\ printed' = printed \o lines
         /\ stack' = IF Seen(n) /\ Kind[n] = "d" THEN Append(next, Call(n)) ELSE next
  /\ UNCHANGED <<options, ended, worldVars>>

\* lstat, and an entry it fails for is passed over; then the line, and the recursion.
Entry ==
  /\ Running("entry") /\ Frame.i <= Len(Frame.names)
  /\ LET n == Frame.names[Frame.i]
         next == Append(Front(stack), [Frame EXCEPT !.i = @ + 1])
     IN  /\ printed' = IF Seen(n) /\ Kind[n] \in Listed
                       THEN Append(printed, n) ELSE printed
         /\ stack' = IF Seen(n) /\ Kind[n] = "d" THEN Append(next, Call(n)) ELSE next
  /\ UNCHANGED <<options, ended, worldVars>>

\* closedir and the return to the caller.
Closedir ==
  /\ Running("entry") /\ Frame.i > Len(Frame.names)
  /\ stack' = Front(stack)
  /\ UNCHANGED <<options, printed, ended, worldVars>>

Exit ==
  /\ ended = "no" /\ stack = <<>>
  /\ ended' = "success"
  /\ UNCHANGED <<options, stack, printed, worldVars>>

Walk == Opendir \/ Scandir \/ Entry \/ Closedir \/ Exit

-----------------------------------------------------------------------------
(* Other processes. *)

Change == ended = "no" /\ changes < MaxChanges /\ changes' = changes + 1

Unlink(n) ==
  /\ Change /\ n \in existing /\ \A m \in existing : Up[m] # n
  /\ existing' = existing \ {n} /\ stable' = stable \ {n}
  /\ UNCHANGED <<options, walkVars>>

Create(n) ==
  /\ Change /\ n \notin existing /\ Exists(Up[n])
  /\ existing' = existing \cup {n}
  /\ UNCHANGED <<options, walkVars, stable>>

Next == Walk \/ \E n \in Nodes : Unlink(n) \/ Create(n)

Spec == Init /\ [][Next]_vars

FairSpec == Spec /\ WF_vars(Walk)

-----------------------------------------------------------------------------
TypeOK ==
  /\ options \in Options
  /\ existing \subseteq Nodes /\ stable \subseteq existing
  /\ \A k \in DOMAIN stack :
       /\ stack[k].dir \in Nodes \cup {Root} /\ stack[k].at \in {"opendir", "scandir", "entry"}
       /\ stack[k].names \in Seq(Nodes) /\ stack[k].i \in 1..Len(stack[k].names) + 1
  /\ printed \in Seq(Nodes)
  /\ ended \in {"no", "success", "failure"} /\ changes \in 0..MaxChanges

\* A node with everything above it: what it shares with every set of nodes that
\* holds n and the directory of each of its members.
Above == [n \in Nodes |->
  {m \in Nodes : \A S \in SUBSET Nodes :
     n \in S /\ (\A k \in S : Up[k] \in Nodes => Up[k] \in S) => m \in S}]

(***************************************************************************)
(* While the tree changes under the walk, no entry is written twice,       *)
(* nothing is written that was not asked for, a directory comes before     *)
(* what is below it, and the program never has more files open than it may *)
(* have: one for each directory on the way down.                           *)
(***************************************************************************)
WalkInvariant ==
  /\ TypeOK
  /\ OpenCount <= Descriptors
  /\ \A k \in 2..Len(stack) : Up[stack[k].dir] = stack[k - 1].dir
  /\ \A i, j \in DOMAIN printed :
       /\ printed[i] = printed[j] => i = j
       /\ printed[j] \in Above[printed[i]] => j <= i
       /\ Kind[printed[i]] \in Listed

Public(n) == Above[n] \cap Private \subseteq {n} /\ Above[n] \cap Unseen = {}

(***************************************************************************)
(* A walk that ends with success has written every entry of the kinds      *)
(* asked for that was there the whole time with everything above it, if    *)
(* lstat finds these entries and the directories may be opened; siblings   *)
(* in the order of their names with -s.  Success says nothing of what is   *)
(* in a directory that may not be opened or not be searched, but a tree    *)
(* deeper than the descriptors allow, which the code does not look for,    *)
(* never passes for a complete listing.                                    *)
(***************************************************************************)
WalkIsComplete ==
  ended = "success" =>
    /\ \A n \in Nodes : Above[n] \subseteq stable /\ Public(n) /\ Kind[n] \in Listed =>
         \E i \in DOMAIN printed : printed[i] = n
    /\ "s" \in options =>
         \A i, j \in DOMAIN printed :
           Up[printed[i]] = Up[printed[j]] /\ i < j => Rank[printed[i]] < Rank[printed[j]]

(***************************************************************************)
(* The walk ends, and with a failure only if the tree changed or was       *)
(* deeper than the descriptors allow: nothing private, and no entry that   *)
(* lstat does not find, ends it.                                           *)
(***************************************************************************)
WalkEnds ==
  /\ <>(ended # "no")
  /\ [](ended = "failure" =>
          changes > 0 \/ \E n \in existing : Kind[n] = "d" /\ Cardinality(Above[n]) + 2 > Descriptors)

=============================================================================
