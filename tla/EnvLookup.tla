----------------------------- MODULE EnvLookup -----------------------------
(***************************************************************************)
(* Lab2: a parent that starts children which report the variables a file   *)
(* names.  With '+' a child gets the whole environment and uses getenv;    *)
(* with '*' and '&' it gets the listed variables only, which the parent    *)
(* and the child both look up with strstr, each in its own way.            *)
(*                                                                         *)
(* An entry is kept as what strstr can find in it: `name` stands before    *)
(* its first '=', `says` are the names that occur anywhere else, `eq`      *)
(* those that do so followed by '=', `line` those whose first such         *)
(* occurrence starts a line.  `value` tells what stands after "name=": its *)
(* own value, that value with parts cut out, or something else.            *)
(***************************************************************************)
EXTENDS Integers, Sequences, SequencesExt, FiniteSetsExt

CONSTANTS
  Names,          \* the names of variables
  Environments,   \* the environments the parent may have: sequences of entries
  Files,          \* the contents the file may have
  PathName,       \* the variable that says where the child's program is
  Absent,         \* stands for a file that cannot be opened
  ChildLimit,     \* 99 in the code: the numbers of children end here
  MaxEdits        \* bound: how often the file is changed

Entries == {e \in [name : Names, says : SUBSET Names, eq : SUBSET Names, line : SUBSET Names,
                   value : {"own", "mangled", "other"}] : e.line \subseteq e.eq /\ e.eq \subseteq e.says}

\* The arrays have 10 slots, one of them for the end of the list.
ASSUME EnvLookupAssumption ==
  /\ PathName \in Names
  /\ \A env \in Environments :
       env \in Seq(Entries) /\ \A i \in DOMAIN env : env[i].value = "own"
  /\ \A f \in Files : f \in Seq(Names) /\ Len(f) < 10
  /\ ChildLimit \in Nat /\ MaxEdits \in Nat

VARIABLES
  environment,    \* of the parent, in the order qsort gave it
  file,           \* the contents of the file, Absent if it cannot be opened
  pc,             \* the parent: "menu", "wait" or "exited"
  symbol,         \* the last command; before the first whatever the memory held
  eof,            \* the input has ended
  childNumber,    \* how many children there were, not told apart beyond ChildLimit
  child,          \* the child: step, number, the list it gets, its names and reports
  edits           \* bound: how often the file was changed

parentVars == <<pc, symbol, eof, childNumber>>
lookupVars == <<environment, file, parentVars, child, edits>>

Launches == {"+", "*", "&"}
Symbols == Launches \cup {"q", "?"}

NoChild == [at |-> "none", number |-> 0, taken |-> <<>>, env |-> <<>>, names |-> <<>>, reports |-> <<>>]

LookupInit ==
  /\ environment \in Environments /\ file \in Files \cup {Absent}
  /\ pc = "menu" /\ symbol \in Symbols /\ eof = FALSE
  /\ childNumber = 0 /\ child = NoChild /\ edits = 0

-----------------------------------------------------------------------------
(* The lookups.  0 stands for a null result and Len + 1 for a scan that has
   gone past the end of the list; strdup(NULL) and the scan both crash. *)

HoldsEq(e, n) == e.name = n \/ n \in e.eq
AtStart(e, n) == e.name = n \/ n \in e.line

\* Faulty variant: the first entry with "n=" in it is taken.
FindValueAnywhere(env, n) ==
  LET hits == {i \in DOMAIN env : HoldsEq(env[i], n)}
  IN  IF hits = {} THEN 0 ELSE Min(hits)

\* parent.c: entries with "n=" inside are passed over; only when the last one is
\* such does the loop keep its stale result and go on behind the end.
FindValue(env, n) ==
  LET hits == {i \in DOMAIN env : AtStart(env[i], n)}
  IN  IF hits # {} THEN Min(hits)
      ELSE IF env # <<>> /\ HoldsEq(env[Len(env)], n) THEN Len(env) + 1 ELSE 0

Found(env, n) == FindValue(env, n) \in DOMAIN env

\* "n=" and the entry found, with every "n=" cut out of it.
Abbreviated(env, n) ==
  LET e == env[FindValue(env, n)]
  IN  IF e.name = n
      THEN [e EXCEPT !.value = IF n \in e.eq THEN "mangled" ELSE @]
      ELSE [e EXCEPT !.name = n, !.says = @ \cup {e.name}, !.value = "other"]

\* child.c: the first entry that holds the name, anywhere, without the name.
ChildFindValue(env, n) ==
  LET hits == {i \in DOMAIN env : env[i].name = n \/ n \in env[i].says}
      e == env[Min(hits)]
  IN  IF hits = {} THEN "crash"
      ELSE IF e.name # n THEN "other" ELSE IF n \in e.says THEN "mangled" ELSE e.value

Getenv(env, n) ==
  LET own == {i \in DOMAIN env : env[i].name = n}
  IN  IF own = {} THEN "missing" ELSE env[Min(own)].value

-----------------------------------------------------------------------------
(* The parent. *)

\* scanf leaves the symbol as it was when the input has ended.
Scanf(s) ==
  \/ ~eof /\ symbol' = s /\ UNCHANGED eof
  \/ s = symbol /\ eof' = TRUE /\ UNCHANGED symbol

LaunchChild ==
  /\ pc = "menu"
  /\ \E s \in Launches : Scanf(s)
  /\ \/ pc' = "exited" /\ UNCHANGED <<childNumber, child>>           \* fork fails
     \/ /\ pc' = "wait"
        /\ child' = [NoChild EXCEPT !.at = "prepare", !.number = childNumber]
        /\ childNumber' = Min({childNumber + 1, ChildLimit})
  /\ UNCHANGED <<environment, file, edits>>

Quit ==
  /\ pc = "menu" /\ Scanf("q") /\ pc' = "exited"
  /\ UNCHANGED <<environment, file, childNumber, child, edits>>

Unknown ==
  /\ pc = "menu" /\ Scanf("?")
  /\ UNCHANGED <<environment, file, pc, childNumber, child, edits>>

Ended == {"success", "failure", "crash"}

\* Faulty variant: wait is repeated until the child has exited by itself.
WaitForExit ==
  /\ pc = "wait" /\ child.at \in Ended \ {"crash"}
  /\ pc' = "menu" /\ child' = NoChild
  /\ UNCHANGED <<environment, file, symbol, eof, childNumber, edits>>

Wait ==
  /\ pc = "wait" /\ child.at \in Ended
  /\ pc' = "menu" /\ child' = NoChild
  /\ UNCHANGED <<environment, file, symbol, eof, childNumber, edits>>

-----------------------------------------------------------------------------
(* The child: launch_child up to execve, then child.c. *)

ChildStep(at) == child.at = at /\ UNCHANGED <<environment, file, parentVars, edits>>
Become(at) == child' = [child EXCEPT !.at = at]

\* Faulty variant: names that are not found are left out of the list.
PrepareSkipping ==
  /\ ChildStep("prepare")
  /\ IF child.number >= ChildLimit \/ file = Absent THEN Become("failure")
     ELSE LET known == SelectSeq(file, LAMBDA n : Found(environment, n))
          IN  child' = [child EXCEPT !.at = "exec", !.taken = file,
                          !.env = [k \in DOMAIN known |-> Abbreviated(environment, known[k])]]

\* The list is made for every command, also for '+', which does not use it.
Prepare ==
  /\ ChildStep("prepare")
  /\ IF child.number >= ChildLimit \/ file = Absent THEN Become("failure")
     ELSE IF \E k \in DOMAIN file : ~Found(environment, file[k]) THEN Become("crash")
     ELSE child' = [child EXCEPT !.at = "exec", !.taken = file,
                      !.env = [k \in DOMAIN file |-> Abbreviated(environment, file[k])]]

\* execve needs the program's path; '+' takes it with getenv, which does not crash.
ProgramPath == IF symbol = "+" THEN Getenv(environment, PathName)
               ELSE IF Found(environment, PathName)
                    THEN Abbreviated(environment, PathName).value
               ELSE "crash"

Execve ==
  /\ ChildStep("exec")
  /\ \/ ProgramPath # "crash" /\ Become("failure")
     \/ ProgramPath = "crash" /\ Become("crash")
     \/ /\ ProgramPath = "own"
        /\ child' = [child EXCEPT !.at = "open", !.env = IF symbol = "+" THEN environment ELSE @]

Open ==
  /\ ChildStep("open")
  /\ IF file = Absent THEN Become("failure")
     ELSE child' = [child EXCEPT !.at = "report", !.names = file]

Report ==
  /\ ChildStep("report") /\ Len(child.reports) < Len(child.names)
  /\ LET n == child.names[Len(child.reports) + 1]
         answer == IF symbol = "+" THEN Getenv(child.env, n) ELSE ChildFindValue(child.env, n)
     IN  IF answer = "crash" THEN Become("crash")
         ELSE child' = [child EXCEPT !.reports = Append(@, answer)]

Return ==
  /\ ChildStep("report") /\ Len(child.reports) = Len(child.names)
  /\ Become("success")

Child == Prepare \/ Execve \/ Open \/ Report \/ Return

\* Somebody edits or removes the file, which the parent's child and the child's
\* program each read once.
Edit ==
  /\ edits < MaxEdits /\ edits' = edits + 1 /\ file' \in (Files \cup {Absent}) \ {file}
  /\ UNCHANGED <<environment, parentVars, child>>

Parent == LaunchChild \/ Quit \/ Unknown
LookupNext == Parent \/ Wait \/ Child \/ Edit

LookupSpec == LookupInit /\ [][LookupNext]_lookupVars

\* Nobody has to type, but after the end of the input scanf returns at once.
LookupFairSpec ==
  LookupSpec /\ WF_lookupVars(Child) /\ WF_lookupVars(Wait) /\ WF_lookupVars(eof /\ Parent)

-----------------------------------------------------------------------------
LookupTypeOK ==
  /\ environment \in Environments /\ file \in Files \cup {Absent}
  /\ pc \in {"menu", "wait", "exited"} /\ symbol \in Symbols /\ eof \in BOOLEAN
  /\ childNumber \in 0..ChildLimit /\ edits \in 0..MaxEdits
  /\ child.at \in {"none", "prepare", "exec", "open", "report"} \cup Ended
  /\ child.number \in 0..childNumber
  /\ Range(child.env) \subseteq Entries /\ Range(child.names) \subseteq Names
  /\ Range(child.reports) \subseteq {"own", "mangled", "other", "missing"}

(***************************************************************************)
(* The child's program never crashes and never says that a variable is     *)
(* missing, for all that its lookup crashes on a missing name: the parent  *)
(* has looked up the same names before execve.  What can make it do so is  *)
(* another file than the parent's child read.  With '+', a name that the   *)
(* parent found at the start of a line of another variable is missing too. *)
(***************************************************************************)
LookupInvariant ==
  /\ LookupTypeOK
  /\ (pc = "wait") = (child.at # "none")
  /\ child.at = "crash" /\ child.names # <<>> => symbol # "+" /\ child.names # child.taken
  /\ \A k \in DOMAIN child.reports : child.reports[k] = "missing" =>
       /\ symbol = "+"
       /\ \/ child.names # child.taken
          \/ \E e \in Range(environment) : child.names[k] \in e.line

\* The entry that the parent makes for m may come from one that mentions n.
Mentions(m, n) ==
  \E e \in Range(environment) :
    (e.name = m \/ m \in e.line) /\ n \in e.says \cup ({e.name} \ {m})

(***************************************************************************)
(* A report for a name is the variable's own value.  It can be something   *)
(* else only with '*' or '&', and only if the entry the parent made for    *)
(* this name, or for one that it met earlier in the file, mentions it.     *)
(***************************************************************************)
ReportIsRight ==
  \A k \in DOMAIN child.reports :
    LET n == child.names[k]
    IN  child.reports[k] \in {"mangled", "other"} =>
          /\ symbol # "+"
          /\ \E j \in DOMAIN child.taken :
               /\ Mentions(child.taken[j], n)
               /\ \A i \in 1..j - 1 : child.taken[i] # n

(***************************************************************************)
(* The parent always comes back to its menu or exits: whatever happens to  *)
(* a child, wait returns.  Once the input has ended after a launch it      *)
(* repeats that launch until the numbers of the children run out.          *)
(***************************************************************************)
CommandReturns ==
  /\ pc = "wait" ~> pc \in {"menu", "exited"}
  /\ eof /\ symbol \in Launches ~> childNumber = ChildLimit \/ pc = "exited"

=============================================================================
