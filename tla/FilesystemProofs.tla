-------------------------- MODULE FilesystemProofs --------------------------
(***************************************************************************)
(* Proofs about the two programs that meet a changing file system.  Lab2,  *)
(* for any names, environments and files and any edits of the file: where  *)
(* the child's program can crash or miss a variable, and why it reports a  *)
(* wrong value.  Lab1, for any tree, any options and any changes of the    *)
(* tree during the walk: nothing is written twice, and a walk that ends    *)
(* with success has written everything that it could.                      *)
(***************************************************************************)
EXTENDS EnvLookup, DirWalk, FiniteSetTheorems, SequenceTheorems, WellFoundedInduction, TLAPS

-----------------------------------------------------------------------------
(* Lab2. *)

Answers == {"own", "mangled", "other", "missing"}

Children ==
  [at : {"none", "prepare", "exec", "open", "report"} \cup Ended, number : 0..ChildLimit,
   taken : Seq(Names), env : Seq(Entries), names : Seq(Names), reports : Seq(Answers)]

TypeStrengthened == LookupTypeOK /\ child \in Children

\* What the child's program finds for a name.
Answer(n) == IF symbol = "+" THEN Getenv(child.env, n) ELSE ChildFindValue(child.env, n)

ProgramRuns == child.at \in {"open", "report", "success"} \/ child.names # <<>>

\* The parent waits exactly for a child that it has launched.
WaitsForChild ==
  /\ (pc = "wait") = (child.at # "none")
  /\ pc = "wait" => symbol \in Launches

\* The list for execve has an entry for every name of the file, in its order.
ListIsMade ==
  /\ \A k \in DOMAIN child.taken : Found(environment, child.taken[k])
  /\ IF symbol = "+" THEN ProgramRuns => child.env = environment
     ELSE /\ Len(child.env) = Len(child.taken)
          /\ \A k \in DOMAIN child.taken : child.env[k] = Abbreviated(environment, child.taken[k])

\* The names are answered one by one, with what stands in the child's list.
ReportsAreAnswers ==
  /\ Len(child.reports) <= Len(child.names)
  /\ \A k \in DOMAIN child.reports : child.reports[k] = Answer(child.names[k])
  /\ child.at = "crash" /\ child.names # <<>> =>
       \E k \in DOMAIN child.names : Answer(child.names[k]) = "crash"
  /\ child.at \in {"none", "prepare", "exec", "open"} => child.names = <<>> /\ child.reports = <<>>
  /\ child.at \in {"none", "prepare"} => child.taken = <<>> /\ child.env = <<>>

EnvStrengthened == TypeStrengthened /\ WaitsForChild /\ ListIsMade /\ ReportsAreAnswers

-----------------------------------------------------------------------------
(* The lookups. *)

LEMMA MinFacts ==
  ASSUME NEW S \in SUBSET Nat, S # {}
  PROVE  Min(S) \in S /\ \A y \in S : Min(S) <= y
<1>1. PICK x \in S : \A y \in S : <<y, x>> \notin OpToRel(<, Nat)
  BY NatLessThanWellFounded, WFMin
<1>2. ASSUME NEW y \in S PROVE x <= y
  <2>1. <<y, x>> \in Nat \X Nat /\ <<y, x>>[1] = y /\ <<y, x>>[2] = x
    BY <1>1
  <2>2. <<y, x>> \notin {ss \in Nat \X Nat : ss[1] < ss[2]}
    BY <1>1 DEF OpToRel
  <2>3. ~(y < x) /\ x \in Nat /\ y \in Nat
    BY <1>1, <2>1, <2>2
  <2> QED
    BY <2>3
<1> QED
  BY <1>2 DEF Min

LEMMA LookupFacts ==
  ASSUME NEW env \in Seq(Entries), NEW n \in Names, Found(env, n)
  PROVE  /\ FindValue(env, n) \in DOMAIN env /\ AtStart(env[FindValue(env, n)], n)
         /\ env[FindValue(env, n)] \in Entries
<1> DEFINE hits == {i \in DOMAIN env : AtStart(env[i], n)}
<1>1. DOMAIN env = 1..Len(env) /\ Len(env) \in Nat /\ hits \in SUBSET Nat
  OBVIOUS
<1>2. hits # {}
  BY <1>1 DEF Found, FindValue
<1>3. FindValue(env, n) = Min(hits)
  BY <1>2 DEF FindValue
<1>4. Min(hits) \in hits
  BY <1>1, <1>2, MinFacts
<1> QED
  BY <1>1, <1>3, <1>4

LEMMA EnvironmentFacts ==
  ASSUME environment \in Environments
  PROVE  environment \in Seq(Entries) /\ \A i \in DOMAIN environment : environment[i].value = "own"
  BY EnvLookupAssumption DEF EnvLookupAssumption

\* The entry made for n has that name, and what else it holds it has from an
\* entry that mentions it.
LEMMA EntryMade ==
  ASSUME environment \in Environments, NEW n \in Names, Found(environment, n)
  PROVE  /\ Abbreviated(environment, n) \in Entries /\ Abbreviated(environment, n).name = n
         /\ \E e \in Range(environment) :
              /\ e.name = n \/ n \in e.line
              /\ Abbreviated(environment, n).says \subseteq e.says \cup ({e.name} \ {n})
              /\ Abbreviated(environment, n).value # "own" => n \in e.says
<1>1. PICK e \in Entries :
        /\ e = environment[FindValue(environment, n)] /\ e \in Range(environment)
        /\ AtStart(e, n) /\ e.value = "own"
  BY EnvironmentFacts, LookupFacts DEF Range
<1>2. CASE e.name = n
  BY <1>1, <1>2 DEF Abbreviated, Entries, AtStart
<1>3. CASE e.name # n
  BY <1>1, <1>3 DEF Abbreviated, Entries, AtStart
<1> QED
  BY <1>2, <1>3

LEMMA GetenvFacts ==
  ASSUME NEW env \in Seq(Entries), \A i \in DOMAIN env : env[i].value = "own", NEW n
  PROVE  /\ Getenv(env, n) \in {"own", "missing"}
         /\ Getenv(env, n) = "missing" => \A e \in Range(env) : e.name # n
<1> DEFINE own == {i \in DOMAIN env : env[i].name = n}
<1>1. own \in SUBSET Nat
  OBVIOUS
<1>2. CASE own = {}
  BY <1>2 DEF Getenv, Range
<1>3. CASE own # {}
  <2>1. Min(own) \in DOMAIN env
    BY <1>1, <1>3, MinFacts
  <2> QED
    BY <1>3, <2>1 DEF Getenv
<1> QED
  BY <1>2, <1>3

\* The child's own lookup takes the first entry that holds the name.
LEMMA ChildLookupFacts ==
  ASSUME NEW env \in Seq(Entries), NEW n \in Names
  PROVE  /\ ChildFindValue(env, n) \in {"own", "mangled", "other", "crash"}
         /\ ChildFindValue(env, n) = "crash" => \A i \in DOMAIN env : env[i].name # n
         /\ ChildFindValue(env, n) \in {"mangled", "other"} =>
              \E i \in DOMAIN env :
                /\ n \in env[i].says \/ (env[i].name = n /\ env[i].value # "own")
                /\ \A j \in 1..i - 1 : env[j].name # n
<1> DEFINE hits == {i \in DOMAIN env : env[i].name = n \/ n \in env[i].says}
<1>1. hits \in SUBSET Nat /\ DOMAIN env = 1..Len(env) /\ Len(env) \in Nat
  OBVIOUS
<1>2. CASE hits = {}
  BY <1>2 DEF ChildFindValue
<1>3. CASE hits # {}
  <2>1. PICK i \in hits : i = Min(hits) /\ \A j \in hits : i <= j
    BY <1>1, <1>3, MinFacts
  <2>2. i \in DOMAIN env /\ i \in Nat
    BY <1>1, <2>1
  <2>3. ASSUME NEW j \in 1..i - 1 PROVE env[j].name # n
    <3>1. j \in DOMAIN env /\ ~(i <= j)
      BY <1>1, <2>2
    <3> QED
      BY <2>1, <3>1
  <2>4. env[i] \in Entries
    BY <2>2
  <2>5. env[i].value \in {"own", "mangled", "other"}
    BY <2>4 DEF Entries
  <2>6. ChildFindValue(env, n) = IF env[i].name # n THEN "other"
                                 ELSE IF n \in env[i].says THEN "mangled" ELSE env[i].value
    BY <1>3, <2>1 DEF ChildFindValue
  <2> QED
    BY <2>1, <2>2, <2>3, <2>5, <2>6
<1> QED
  BY <1>2, <1>3

LEMMA FileFacts ==
  ASSUME file \in Files \cup {Absent}, file # Absent
  PROVE  file \in Seq(Names)
  BY EnvLookupAssumption DEF EnvLookupAssumption

LEMMA AnswerType ==
  ASSUME child.env \in Seq(Entries), NEW n \in Names,
         environment \in Environments, symbol = "+" => child.env = environment
  PROVE  Answer(n) \in Answers \cup {"crash"} /\ (Answer(n) = "crash" => symbol # "+")
<1>1. CASE symbol = "+"
  BY <1>1, EnvironmentFacts, GetenvFacts DEF Answer, Answers
<1>2. CASE symbol # "+"
  BY <1>2, ChildLookupFacts DEF Answer, Answers
<1> QED
  BY <1>1, <1>2

-----------------------------------------------------------------------------
(* The steps. *)

LEMMA Nobody ==
  /\ \A S : <<>> \in Seq(S)
  /\ Len(<<>>) = 0 /\ DOMAIN <<>> = {} /\ Range(<<>>) = {}
  BY DEF Range

\* A child that does not exist or has not begun.
Idle == /\ child.at \in {"none", "prepare"} /\ child.number \in 0..ChildLimit
        /\ child.taken = <<>> /\ child.env = <<>> /\ child.names = <<>> /\ child.reports = <<>>

LEMMA IdleChild ==
  /\ Idle => ListIsMade /\ ReportsAreAnswers
  /\ Idle' => ListIsMade' /\ ReportsAreAnswers'
<1>1. ASSUME Idle PROVE ListIsMade /\ ReportsAreAnswers
  BY <1>1, Nobody DEF Idle, ListIsMade, ProgramRuns, ReportsAreAnswers
<1>2. ASSUME Idle' PROVE ListIsMade' /\ ReportsAreAnswers'
  BY <1>2, Nobody DEF Idle, ListIsMade, ProgramRuns, ReportsAreAnswers
<1> QED
  BY <1>1, <1>2

Fresh(at, nr) ==
  [at |-> at, number |-> nr, taken |-> <<>>, env |-> <<>>, names |-> <<>>, reports |-> <<>>]

LEMMA FreshChild ==
  ASSUME NEW at \in {"none", "prepare"}, NEW nr \in 0..ChildLimit, NEW c, c = Fresh(at, nr)
  PROVE  /\ c \in Children /\ c.at = at /\ c.number = nr
         /\ c.taken = <<>> /\ c.env = <<>> /\ c.names = <<>> /\ c.reports = <<>>
  BY Nobody DEF Children, Fresh, Ended

LEMMA ChildTypes ==
  ASSUME NEW c \in Children, NEW n \in Nat, c.number \in 0..n
  PROVE  /\ c.at \in {"none", "prepare", "exec", "open", "report"} \cup Ended
         /\ Range(c.env) \subseteq Entries /\ Range(c.names) \subseteq Names
         /\ Range(c.reports) \subseteq Answers
  BY DEF Children, Range

LEMMA EnvInit == LookupInit => EnvStrengthened
<1> SUFFICES ASSUME LookupInit PROVE EnvStrengthened
  OBVIOUS
<1>1. child = Fresh("none", 0) /\ 0 \in 0..ChildLimit
  BY EnvLookupAssumption DEF EnvLookupAssumption, LookupInit, NoChild, Fresh
<1>2. child \in Children /\ Idle /\ child.at = "none" /\ child.number = 0
  BY <1>1, FreshChild DEF Idle
<1>3. ListIsMade /\ ReportsAreAnswers
  BY <1>2, IdleChild
<1>4. WaitsForChild
  BY <1>2 DEF LookupInit, WaitsForChild
<1>5. childNumber = 0 /\ childNumber \in Nat /\ child.number \in 0..childNumber
  BY <1>2 DEF LookupInit
<1>6. LookupTypeOK
  <2>1. /\ child.at \in {"none", "prepare", "exec", "open", "report"} \cup Ended
        /\ Range(child.env) \subseteq Entries /\ Range(child.names) \subseteq Names
        /\ Range(child.reports) \subseteq Answers
    BY <1>2, <1>5, ChildTypes
  <2>2. childNumber \in 0..ChildLimit /\ edits \in 0..MaxEdits
    BY EnvLookupAssumption DEF EnvLookupAssumption, LookupInit
  <2> QED
    BY <1>5, <2>1, <2>2 DEF LookupInit, LookupTypeOK, Answers
<1> QED
  BY <1>2, <1>3, <1>4, <1>6 DEF EnvStrengthened, TypeStrengthened

\* The child has not changed, nor what its lookups go by.
LEMMA SameChild ==
  ASSUME EnvStrengthened, UNCHANGED <<child, environment, symbol>>
  PROVE  child' \in Children /\ ListIsMade' /\ ReportsAreAnswers'
<1>1. child' \in Children
  BY DEF EnvStrengthened, TypeStrengthened
<1>2. ListIsMade'
  BY DEF EnvStrengthened, ListIsMade, ProgramRuns
<1>3. ReportsAreAnswers'
  BY DEF EnvStrengthened, ReportsAreAnswers, Answer
<1> QED
  BY <1>1, <1>2, <1>3

LEMMA NextNumber ==
  ASSUME NEW n \in 0..ChildLimit
  PROVE  Min({n + 1, ChildLimit}) \in 0..ChildLimit /\ n <= Min({n + 1, ChildLimit})
<1>1. ChildLimit \in Nat /\ {n + 1, ChildLimit} \in SUBSET Nat
  BY EnvLookupAssumption DEF EnvLookupAssumption
<1>2. Min({n + 1, ChildLimit}) \in {n + 1, ChildLimit}
      /\ Min({n + 1, ChildLimit}) <= ChildLimit
  BY <1>1, MinFacts
<1> QED
  BY <1>1, <1>2

LEMMA ParentPreserves ==
  ASSUME EnvStrengthened, Parent \/ Wait \/ Edit
  PROVE  EnvStrengthened'
<1>0. /\ LookupTypeOK /\ child \in Children /\ WaitsForChild /\ ReportsAreAnswers
      /\ ChildLimit \in Nat /\ MaxEdits \in Nat
      /\ childNumber \in 0..ChildLimit /\ child.number \in 0..childNumber
  BY EnvLookupAssumption DEF EnvLookupAssumption, EnvStrengthened, TypeStrengthened, LookupTypeOK
<1>1. pc = "menu" => Idle /\ child.at = "none"
  BY <1>0 DEF WaitsForChild, ReportsAreAnswers, Idle
<1>2. CASE LaunchChild
  <2>1. PICK s \in Launches : Scanf(s)
    BY <1>2 DEF LaunchChild
  <2>2. symbol' = s /\ eof' \in BOOLEAN /\ s \in Symbols
    BY <1>0, <2>1 DEF Scanf, Symbols, LookupTypeOK
  <2>3. pc = "menu" /\ UNCHANGED <<environment, file, edits>>
    BY <1>2 DEF LaunchChild
  <2>4. CASE pc' = "exited" /\ UNCHANGED <<childNumber, child>>
    <3>1. child' \in Children /\ Idle' /\ child'.at = "none"
      BY <1>0, <1>1, <2>3, <2>4 DEF Idle
    <3>2. WaitsForChild' /\ ListIsMade' /\ ReportsAreAnswers'
      BY <2>4, <3>1, IdleChild DEF WaitsForChild
    <3>3. LookupTypeOK'
      BY <1>0, <2>2, <2>3, <2>4 DEF LookupTypeOK
    <3> QED
      BY <3>1, <3>2, <3>3 DEF EnvStrengthened, TypeStrengthened
  <2>5. CASE /\ pc' = "wait" /\ child' = [NoChild EXCEPT !.at = "prepare", !.number = childNumber]
             /\ childNumber' = Min({childNumber + 1, ChildLimit})
    <3>0. child' = Fresh("prepare", childNumber)
      BY <2>5 DEF NoChild, Fresh
    <3>1. child' \in Children /\ Idle' /\ child'.at = "prepare" /\ child'.number = childNumber
      BY <1>0, <3>0, FreshChild DEF Idle
    <3>2. childNumber' \in 0..ChildLimit /\ childNumber <= childNumber'
      BY <1>0, <2>5, NextNumber
    <3>3. WaitsForChild' /\ ListIsMade' /\ ReportsAreAnswers'
      BY <2>2, <2>5, <3>1, IdleChild DEF WaitsForChild
    <3>4. childNumber' \in Nat /\ child'.number \in 0..childNumber'
      BY <1>0, <3>1, <3>2
    <3>5. LookupTypeOK'
      BY <1>0, <2>2, <2>3, <2>5, <3>1, <3>2, <3>4, ChildTypes DEF LookupTypeOK, Answers
    <3> QED
      BY <3>1, <3>3, <3>5 DEF EnvStrengthened, TypeStrengthened
  <2> QED
    BY <1>2, <2>4, <2>5 DEF LaunchChild
<1>3. CASE Quit \/ Unknown
  <2>1. PICK s \in {"q", "?"} : Scanf(s)
    BY <1>3 DEF Quit, Unknown
  <2>2. /\ symbol' \in Symbols /\ eof' \in BOOLEAN /\ pc' \in {"menu", "exited"} /\ pc = "menu"
        /\ UNCHANGED <<environment, file, edits, childNumber, child>>
    BY <1>0, <1>3, <2>1 DEF Quit, Unknown, Scanf, Symbols, LookupTypeOK
  <2>3. child' \in Children /\ Idle' /\ child'.at = "none"
    BY <1>0, <1>1, <2>2 DEF Idle
  <2>4. WaitsForChild' /\ ListIsMade' /\ ReportsAreAnswers'
    BY <2>2, <2>3, IdleChild DEF WaitsForChild
  <2>5. LookupTypeOK'
    BY <1>0, <2>2 DEF LookupTypeOK
  <2> QED
    BY <2>3, <2>4, <2>5 DEF EnvStrengthened, TypeStrengthened
<1>4. CASE Wait
  <2>1. child' = Fresh("none", 0) /\ pc' = "menu"
        /\ UNCHANGED <<environment, file, symbol, eof, childNumber, edits>>
    BY <1>4 DEF Wait, NoChild, Fresh
  <2>2. child' \in Children /\ Idle' /\ child'.at = "none" /\ child'.number = 0
    BY <1>0, <2>1, FreshChild DEF Idle
  <2>3. WaitsForChild' /\ ListIsMade' /\ ReportsAreAnswers'
    BY <2>1, <2>2, IdleChild DEF WaitsForChild
  <2>4. childNumber' \in Nat /\ child'.number \in 0..childNumber'
    BY <1>0, <2>1, <2>2
  <2>5. LookupTypeOK'
    BY <1>0, <2>1, <2>2, <2>4, ChildTypes DEF LookupTypeOK, Answers
  <2> QED
    BY <2>2, <2>3, <2>5 DEF EnvStrengthened, TypeStrengthened
<1>5. CASE Edit
  <2>1. /\ file' \in Files \cup {Absent} /\ edits' \in 0..MaxEdits
        /\ UNCHANGED <<environment, pc, symbol, eof, childNumber, child>>
    BY <1>0, <1>5 DEF Edit, parentVars, LookupTypeOK
  <2>2. child' \in Children /\ ListIsMade' /\ ReportsAreAnswers'
    BY <2>1, SameChild
  <2>3. LookupTypeOK' /\ WaitsForChild'
    BY <1>0, <2>1 DEF LookupTypeOK, WaitsForChild
  <2> QED
    BY <2>2, <2>3 DEF EnvStrengthened, TypeStrengthened
<1> QED
  BY <1>2, <1>3, <1>4, <1>5 DEF Parent

\* What a step of the child leaves as it is.
LEMMA ChildGoesOn ==
  ASSUME EnvStrengthened, UNCHANGED <<environment, file, parentVars, edits>>,
         child' \in Children, child'.number = child.number, child.at # "none", child'.at # "none"
  PROVE  /\ TypeStrengthened' /\ WaitsForChild' /\ pc = "wait" /\ symbol \in Launches
         /\ symbol' = symbol /\ environment' = environment
<1>1. LookupTypeOK /\ WaitsForChild
  BY DEF EnvStrengthened, TypeStrengthened
<1>2. childNumber' \in Nat /\ child'.number \in 0..childNumber'
  BY <1>1, EnvLookupAssumption DEF EnvLookupAssumption, LookupTypeOK, parentVars
<1>3. LookupTypeOK'
  BY <1>1, <1>2, ChildTypes DEF LookupTypeOK, Answers, parentVars
<1> QED
  BY <1>1, <1>3 DEF TypeStrengthened, WaitsForChild, parentVars

\* A child that only comes to its next step or to its end.
LEMMA BecomeFacts ==
  ASSUME child \in Children, NEW at \in {"exec", "open", "report"} \cup Ended, Become(at)
  PROVE  /\ child' \in Children /\ child'.at = at /\ child'.number = child.number
         /\ child'.taken = child.taken /\ child'.env = child.env
         /\ child'.names = child.names /\ child'.reports = child.reports
  BY DEF Become, Children

LEMMA BecomePreserves ==
  ASSUME EnvStrengthened, NEW from \in {"prepare", "exec", "open", "report"}, ChildStep(from),
         NEW at \in Ended, Become(at), at = "success" => from = "report",
         at = "crash" /\ child.names # <<>> =>
           \E k \in DOMAIN child.names : Answer(child.names[k]) = "crash"
  PROVE  EnvStrengthened'
<1>1. child \in Children /\ ListIsMade /\ ReportsAreAnswers /\ child.at = from
  BY DEF EnvStrengthened, TypeStrengthened, ChildStep
<1>2. /\ child' \in Children /\ child'.at = at /\ child'.number = child.number
      /\ child'.taken = child.taken /\ child'.env = child.env
      /\ child'.names = child.names /\ child'.reports = child.reports
  BY <1>1, BecomeFacts
<1>3. at \notin {"none", "prepare", "exec", "open", "report"}
  BY DEF Ended
<1>4. TypeStrengthened' /\ WaitsForChild' /\ symbol' = symbol /\ environment' = environment
  BY <1>1, <1>2, <1>3, ChildGoesOn DEF ChildStep
<1>5. \A n : Answer(n)' = Answer(n)
  BY <1>2, <1>4 DEF Answer
<1>6. ProgramRuns' => ProgramRuns
  BY <1>1, <1>2, <1>3 DEF ProgramRuns
<1>7. ListIsMade'
  BY <1>1, <1>2, <1>4, <1>6 DEF ListIsMade
<1>8. ReportsAreAnswers'
  BY <1>1, <1>2, <1>3, <1>5 DEF ReportsAreAnswers
<1> QED
  BY <1>4, <1>7, <1>8 DEF EnvStrengthened

LEMMA PreparePreserves == EnvStrengthened /\ Prepare => EnvStrengthened'
<1> SUFFICES ASSUME EnvStrengthened, Prepare PROVE EnvStrengthened'
  OBVIOUS
<1>1. /\ child \in Children /\ child.at = "prepare" /\ child.names = <<>> /\ child.reports = <<>>
      /\ environment \in Environments /\ file \in Files \cup {Absent} /\ ChildStep("prepare")
  BY DEF EnvStrengthened, TypeStrengthened, LookupTypeOK, ReportsAreAnswers, Prepare, ChildStep
<1>2. CASE Become("failure")
  BY <1>1, <1>2, BecomePreserves DEF Ended
<1>3. CASE Become("crash")
  BY <1>1, <1>3, BecomePreserves DEF Ended
<1>4. ASSUME file # Absent, \A k \in DOMAIN file : Found(environment, file[k]),
             child' = [child EXCEPT !.at = "exec", !.taken = file,
                        !.env = [k \in DOMAIN file |-> Abbreviated(environment, file[k])]]
      PROVE  EnvStrengthened'
  <2>1. file \in Seq(Names) /\ environment \in Seq(Entries)
        /\ \A i \in DOMAIN environment : environment[i].value = "own"
    BY <1>1, <1>4, FileFacts, EnvironmentFacts
  <2>2. \A k \in DOMAIN file : Abbreviated(environment, file[k]) \in Entries
    BY <1>1, <1>4, <2>1, EntryMade
  <2>3. PICK list \in Seq(Entries) :
          list = [k \in DOMAIN file |-> Abbreviated(environment, file[k])] /\ Len(list) = Len(file)
    <3>1. DOMAIN file = 1..Len(file) /\ Len(file) \in Nat
      BY <2>1
    <3>2. [k \in 1..Len(file) |-> Abbreviated(environment, file[k])] \in [1..Len(file) -> Entries]
      BY <2>2, <3>1
    <3>3. [k \in 1..Len(file) |-> Abbreviated(environment, file[k])] \in Seq(Entries)
      BY <3>1, <3>2, SeqDef
    <3>4. Len([k \in 1..Len(file) |-> Abbreviated(environment, file[k])]) = Len(file)
      BY <3>1, <3>3
    <3> QED
      BY <3>1, <3>3, <3>4
  <2>4. child' = [child EXCEPT !.at = "exec", !.taken = file, !.env = list]
    BY <1>4, <2>3
  <2>5. /\ child' \in Children /\ child'.at = "exec" /\ child'.number = child.number
        /\ child'.taken = file /\ child'.env = list
        /\ child'.names = <<>> /\ child'.reports = <<>>
    BY <1>1, <2>1, <2>4 DEF Children
  <2>6. TypeStrengthened' /\ WaitsForChild' /\ symbol' = symbol /\ environment' = environment
    BY <1>1, <2>5, ChildGoesOn DEF ChildStep
  <2>7. ListIsMade'
    BY <1>4, <2>3, <2>5, <2>6 DEF ListIsMade, ProgramRuns
  <2>8. ReportsAreAnswers'
    BY <2>5, Nobody DEF ReportsAreAnswers
  <2> QED
    BY <2>6, <2>7, <2>8 DEF EnvStrengthened
<1> QED
  BY <1>2, <1>3, <1>4 DEF Prepare

LEMMA ExecvePreserves == EnvStrengthened /\ Execve => EnvStrengthened'
<1> SUFFICES ASSUME EnvStrengthened, Execve PROVE EnvStrengthened'
  OBVIOUS
<1>1. /\ child \in Children /\ child.at = "exec" /\ child.names = <<>> /\ child.reports = <<>>
      /\ environment \in Environments /\ ChildStep("exec") /\ ListIsMade
  BY DEF EnvStrengthened, TypeStrengthened, LookupTypeOK, ReportsAreAnswers, Execve, ChildStep
<1>2. CASE Become("failure")
  BY <1>1, <1>2, BecomePreserves DEF Ended
<1>3. CASE Become("crash")
  BY <1>1, <1>3, BecomePreserves DEF Ended
<1>4. ASSUME child' = [child EXCEPT !.at = "open", !.env = IF symbol = "+" THEN environment ELSE @]
      PROVE  EnvStrengthened'
  <2>1. environment \in Seq(Entries)
    BY <1>1, EnvironmentFacts
  <2>2. /\ child' \in Children /\ child'.at = "open" /\ child'.number = child.number
        /\ child'.taken = child.taken
        /\ child'.env = IF symbol = "+" THEN environment ELSE child.env
        /\ child'.names = <<>> /\ child'.reports = <<>>
    BY <1>1, <1>4, <2>1 DEF Children
  <2>3. TypeStrengthened' /\ WaitsForChild' /\ symbol' = symbol /\ environment' = environment
    BY <1>1, <2>2, ChildGoesOn DEF ChildStep
  <2>4. ListIsMade'
    BY <1>1, <2>2, <2>3 DEF ListIsMade
  <2>5. ReportsAreAnswers'
    BY <2>2, Nobody DEF ReportsAreAnswers
  <2> QED
    BY <2>3, <2>4, <2>5 DEF EnvStrengthened
<1> QED
  BY <1>2, <1>3, <1>4 DEF Execve

LEMMA OpenPreserves == EnvStrengthened /\ Open => EnvStrengthened'
<1> SUFFICES ASSUME EnvStrengthened, Open PROVE EnvStrengthened'
  OBVIOUS
<1>1. /\ child \in Children /\ child.at = "open" /\ ChildStep("open") /\ ListIsMade
      /\ file \in Files \cup {Absent}
  BY DEF EnvStrengthened, TypeStrengthened, LookupTypeOK, Open, ChildStep
<1>2. CASE Become("failure")
  BY <1>1, <1>2, BecomePreserves DEF Ended
<1>3. ASSUME file # Absent, child' = [child EXCEPT !.at = "report", !.names = file]
      PROVE  EnvStrengthened'
  <2>1. file \in Seq(Names)
    BY <1>1, <1>3, FileFacts
  <2>2. /\ child' \in Children /\ child'.at = "report" /\ child'.number = child.number
        /\ child'.taken = child.taken /\ child'.env = child.env
        /\ child'.names = file /\ child'.reports = child.reports
    BY <1>1, <1>3, <2>1 DEF Children
  <2>3. TypeStrengthened' /\ WaitsForChild' /\ symbol' = symbol /\ environment' = environment
    BY <1>1, <2>2, ChildGoesOn DEF ChildStep
  <2>4. ListIsMade'
    BY <1>1, <2>2, <2>3 DEF ListIsMade, ProgramRuns
  <2>5. ReportsAreAnswers'
    <3>1. child.reports = <<>>
      BY <1>1 DEF EnvStrengthened, ReportsAreAnswers
    <3>2. Len(file) \in Nat
      BY <2>1
    <3> QED
      BY <2>2, <3>1, <3>2, Nobody DEF ReportsAreAnswers
  <2> QED
    BY <2>3, <2>4, <2>5 DEF EnvStrengthened
<1> QED
  BY <1>2, <1>3 DEF Open

LEMMA ReportPreserves == EnvStrengthened /\ (Report \/ Return) => EnvStrengthened'
<1> SUFFICES ASSUME EnvStrengthened, Report \/ Return PROVE EnvStrengthened'
  OBVIOUS
<1>1. /\ child \in Children /\ child.at = "report" /\ ChildStep("report")
      /\ ListIsMade /\ ReportsAreAnswers
  BY DEF EnvStrengthened, TypeStrengthened, Report, Return, ChildStep
<1>2. CASE Return
  BY <1>1, <1>2, BecomePreserves DEF Ended, Return
<1>3. CASE Report
  <2> DEFINE k == Len(child.reports) + 1
             n == child.names[k]
  <2>1. /\ child.names \in Seq(Names) /\ child.reports \in Seq(Answers)
        /\ k \in DOMAIN child.names /\ n \in Names /\ Len(child.reports) \in Nat
    BY <1>1, <1>3 DEF Report, Children
  <2>2. IF Answer(n) = "crash" THEN Become("crash")
        ELSE child' = [child EXCEPT !.reports = Append(@, Answer(n))]
    BY <1>3 DEF Report, Answer
  <2>3. CASE Answer(n) = "crash"
    <3>1. Become("crash") /\ \E j \in DOMAIN child.names : Answer(child.names[j]) = "crash"
      BY <2>1, <2>2, <2>3
    <3> QED
      BY <1>1, <3>1, BecomePreserves DEF Ended
  <2>4. CASE Answer(n) # "crash"
    <3>1. Answer(n) \in Answers
      <4>1. child.env \in Seq(Entries) /\ environment \in Environments
        BY <1>1 DEF Children, EnvStrengthened, TypeStrengthened, LookupTypeOK
      <4>2. symbol = "+" => child.env = environment
        BY <1>1 DEF ListIsMade, ProgramRuns
      <4> QED
        BY <2>1, <2>4, <4>1, <4>2, AnswerType
    <3>2. PICK reports \in Seq(Answers) :
            /\ reports = Append(child.reports, Answer(n)) /\ Len(reports) = k
            /\ \A j \in 1..k : reports[j] = IF j = k THEN Answer(n) ELSE child.reports[j]
      <4>1. PICK old \in Seq(Answers), a \in Answers : old = child.reports /\ a = Answer(n)
        BY <2>1, <3>1
      <4>2. PICK new \in Seq(Answers) :
              /\ new = Append(old, a) /\ Len(new) = Len(old) + 1
              /\ \A j \in 1..Len(old) : new[j] = old[j]
              /\ new[Len(old) + 1] = a
        BY ONLY old \in Seq(Answers), a \in Answers, AppendProperties
      <4>3. k = Len(old) + 1 /\ Len(old) \in Nat
        BY <2>1, <4>1
      <4>4. \A j \in 1..k : new[j] = IF j = k THEN a ELSE old[j]
        BY ONLY <4>2, <4>3
      <4> QED
        BY ONLY <4>1, <4>2, <4>3, <4>4
    <3>3. /\ child' \in Children /\ child'.at = "report" /\ child'.number = child.number
          /\ child'.taken = child.taken /\ child'.env = child.env
          /\ child'.names = child.names /\ child'.reports = reports
      BY <1>1, <2>2, <2>4, <3>2 DEF Children
    <3>4. TypeStrengthened' /\ WaitsForChild' /\ symbol' = symbol /\ environment' = environment
      BY <1>1, <3>3, ChildGoesOn DEF ChildStep
    <3>5. ListIsMade'
      BY <1>1, <3>3, <3>4 DEF ListIsMade, ProgramRuns
    <3>6. \A m : Answer(m)' = Answer(m)
      BY <3>3, <3>4 DEF Answer
    <3>7. \A j \in DOMAIN reports : reports[j] = Answer(child.names[j])
      <4>1. DOMAIN reports = 1..k /\ DOMAIN child.reports = 1..k - 1 /\ k \in Nat
        BY <2>1, <3>2
      <4> QED
        BY <1>1, <3>2, <4>1 DEF ReportsAreAnswers
    <3>8. Len(reports) <= Len(child.names)
      BY <2>1, <3>2
    <3>9. ReportsAreAnswers'
      BY <3>3, <3>6, <3>7, <3>8 DEF ReportsAreAnswers
    <3> QED
      BY <3>4, <3>5, <3>9 DEF EnvStrengthened
  <2> QED
    BY <2>3, <2>4
<1> QED
  BY <1>2, <1>3

LEMMA EnvStep == EnvStrengthened /\ [LookupNext]_lookupVars => EnvStrengthened'
<1> SUFFICES ASSUME EnvStrengthened, [LookupNext]_lookupVars PROVE EnvStrengthened'
  OBVIOUS
<1>1. CASE UNCHANGED lookupVars
  <2>1. child' \in Children /\ ListIsMade' /\ ReportsAreAnswers'
    BY <1>1, SameChild DEF lookupVars, parentVars
  <2>2. LookupTypeOK' /\ WaitsForChild'
    BY <1>1 DEF EnvStrengthened, TypeStrengthened, LookupTypeOK, WaitsForChild, lookupVars, parentVars
  <2> QED
    BY <2>1, <2>2 DEF EnvStrengthened, TypeStrengthened
<1> QED
  BY <1>1, ParentPreserves, PreparePreserves, ExecvePreserves, OpenPreserves, ReportPreserves
     DEF LookupNext, Child

-----------------------------------------------------------------------------
(* What follows for the reports. *)

LEMMA LookupsAreRight == EnvStrengthened => LookupInvariant
<1> SUFFICES ASSUME EnvStrengthened PROVE LookupInvariant
  OBVIOUS
<1>1. /\ LookupTypeOK /\ child \in Children /\ ListIsMade /\ ReportsAreAnswers
      /\ environment \in Environments /\ (pc = "wait") = (child.at # "none")
  BY DEF EnvStrengthened, TypeStrengthened, LookupTypeOK, WaitsForChild
<1>2. /\ child.names \in Seq(Names) /\ child.env \in Seq(Entries) /\ child.taken \in Seq(Names)
      /\ child.reports \in Seq(Answers) /\ Len(child.reports) <= Len(child.names)
      /\ environment \in Seq(Entries)
      /\ \A i \in DOMAIN environment : environment[i].value = "own"
  BY <1>1, EnvironmentFacts DEF Children, ReportsAreAnswers
<1>3. child.names # <<>> /\ symbol = "+" => child.env = environment
  BY <1>1 DEF ListIsMade, ProgramRuns
<1>4. ASSUME child.at = "crash", child.names # <<>>
      PROVE  symbol # "+" /\ child.names # child.taken
  <2>1. PICK k \in DOMAIN child.names : Answer(child.names[k]) = "crash"
    BY <1>1, <1>4 DEF ReportsAreAnswers
  <2>2. child.names[k] \in Names
    BY <1>2
  <2>3. symbol # "+"
    BY <1>1, <1>2, <1>3, <1>4, <2>1, <2>2, AnswerType
  <2>4. ASSUME child.names = child.taken PROVE FALSE
    <3>1. k \in DOMAIN child.env /\ child.env[k] = Abbreviated(environment, child.names[k])
          /\ Found(environment, child.names[k])
      BY <1>1, <1>2, <2>3, <2>4 DEF ListIsMade
    <3>2. child.env[k].name = child.names[k]
      BY <1>1, <2>2, <3>1, EntryMade
    <3> QED
      BY <1>2, <2>1, <2>2, <2>3, <3>1, <3>2, ChildLookupFacts DEF Answer
  <2> QED
    BY <2>3, <2>4
<1>5. ASSUME NEW k \in DOMAIN child.reports, child.reports[k] = "missing"
      PROVE  /\ symbol = "+"
             /\ \/ child.names # child.taken
                \/ \E e \in Range(environment) : child.names[k] \in e.line
  <2>1. k \in DOMAIN child.names /\ child.names # <<>> /\ child.names[k] \in Names
    BY <1>2
  <2>2. Answer(child.names[k]) = "missing"
    BY <1>1, <1>5 DEF ReportsAreAnswers
  <2>3. symbol = "+"
    BY <1>2, <2>1, <2>2, ChildLookupFacts DEF Answer
  <2>4. \A e \in Range(environment) : e.name # child.names[k]
    BY <1>2, <1>3, <2>1, <2>2, <2>3, GetenvFacts DEF Answer
  <2>5. ASSUME child.names = child.taken
        PROVE  \E e \in Range(environment) : child.names[k] \in e.line
    <3>1. Found(environment, child.names[k])
      BY <1>1, <2>1, <2>5 DEF ListIsMade
    <3> QED
      BY <1>1, <2>1, <2>4, <3>1, EntryMade
  <2> QED
    BY <2>3, <2>5
<1> QED
  BY <1>1, <1>4, <1>5 DEF LookupInvariant

LEMMA ReportsAreRight == EnvStrengthened => ReportIsRight
<1> SUFFICES ASSUME EnvStrengthened PROVE ReportIsRight
  OBVIOUS
<1>1. /\ child \in Children /\ ListIsMade /\ ReportsAreAnswers /\ environment \in Environments
  BY DEF EnvStrengthened, TypeStrengthened, LookupTypeOK
<1>2. /\ child.names \in Seq(Names) /\ child.env \in Seq(Entries) /\ child.taken \in Seq(Names)
      /\ child.reports \in Seq(Answers) /\ Len(child.reports) <= Len(child.names)
      /\ environment \in Seq(Entries)
      /\ \A i \in DOMAIN environment : environment[i].value = "own"
  BY <1>1, EnvironmentFacts DEF Children, ReportsAreAnswers
<1>3. SUFFICES ASSUME NEW k \in DOMAIN child.reports, child.reports[k] \in {"mangled", "other"}
               PROVE  /\ symbol # "+"
                      /\ \E j \in DOMAIN child.taken :
                           /\ Mentions(child.taken[j], child.names[k])
                           /\ \A i \in 1..j - 1 : child.taken[i] # child.names[k]
  BY DEF ReportIsRight
<1> DEFINE n == child.names[k]
<1>4. n \in Names /\ child.names # <<>> /\ Answer(n) \in {"mangled", "other"}
  BY <1>1, <1>2, <1>3 DEF ReportsAreAnswers
<1> HIDE DEF n
<1>5. symbol # "+"
  <2>1. symbol = "+" => child.env = environment
    BY <1>1, <1>4 DEF ListIsMade, ProgramRuns
  <2> QED
    BY <1>2, <1>4, <2>1, GetenvFacts DEF Answer
<1>6. PICK i \in DOMAIN child.env :
        /\ n \in child.env[i].says \/ (child.env[i].name = n /\ child.env[i].value # "own")
        /\ \A j \in 1..i - 1 : child.env[j].name # n
  BY <1>2, <1>4, <1>5, ChildLookupFacts DEF Answer
<1>7. /\ DOMAIN child.taken = DOMAIN child.env /\ i \in DOMAIN child.taken
      /\ \A j \in DOMAIN child.taken :
           /\ child.taken[j] \in Names /\ Found(environment, child.taken[j])
           /\ child.env[j] = Abbreviated(environment, child.taken[j])
  BY <1>1, <1>2, <1>5, <1>6 DEF ListIsMade
<1>8. \A j \in DOMAIN child.taken : child.env[j].name = child.taken[j]
  BY <1>1, <1>7, EntryMade
<1>9. \A j \in 1..i - 1 : child.taken[j] # n
  <2>1. \A j \in 1..i - 1 : j \in DOMAIN child.taken
    BY <1>2, <1>7
  <2> QED
    BY <1>6, <1>8, <2>1
<1>10. Mentions(child.taken[i], n)
  <2>1. PICK e \in Range(environment) :
          /\ e.name = child.taken[i] \/ child.taken[i] \in e.line
          /\ child.env[i].says \subseteq e.says \cup ({e.name} \ {child.taken[i]})
          /\ child.env[i].value # "own" => child.taken[i] \in e.says
    <3>1. child.taken[i] \in Names /\ Found(environment, child.taken[i])
      BY <1>7
    <3> QED
      BY <1>1, <1>7, <3>1, EntryMade
  <2>2. n \in e.says \cup ({e.name} \ {child.taken[i]})
    BY <1>6, <1>7, <1>8, <2>1
  <2> QED
    BY <2>1, <2>2 DEF Mentions
<1> QED
  BY <1>5, <1>7, <1>9, <1>10 DEF n

LEMMA EnvInvariant == LookupSpec => []EnvStrengthened
  BY EnvInit, EnvStep, PTL DEF LookupSpec

(***************************************************************************)
(* The child's program crashes over a name, or misses one, only if the     *)
(* file was changed between the two times it is read, or, with '+', if the *)
(* parent took a line inside another variable's value for the variable.    *)
(***************************************************************************)
THEOREM LookupsSucceed == LookupSpec => []LookupInvariant
  BY EnvInvariant, LookupsAreRight, PTL

(***************************************************************************)
(* A wrong value is never reported with '+', and otherwise it comes from   *)
(* an entry that mentions the name and was found for this name or for one  *)
(* further up in the file.                                                 *)
(***************************************************************************)
THEOREM WrongValuesAreMentioned == LookupSpec => []ReportIsRight
  BY EnvInvariant, ReportsAreRight, PTL

-----------------------------------------------------------------------------
(* Lab1. *)

Steps == {"opendir", "scandir", "entry"}
Frames == [dir : Nodes \cup {Root}, at : Steps, names : Seq(Nodes), i : Nat \ {0}]

\* n is below the directory d, at any depth.
Below(d, n) == d = Root \/ (d \in Above[n] /\ d # n)

\* A name that the call has not come to.
InFuture(f, m) == \E j \in DOMAIN f.names : f.i <= j /\ f.names[j] = m

\* A call will come to n, or to a directory above it.
WillReach(f, n) ==
  \/ f.at = "entry" /\ \E m \in Above[n] : InFuture(f, m)
  \/ f.at # "entry" /\ Below(f.dir, n)

Pending(st, n) == \E k \in DOMAIN st : WillReach(st[k], n)

\* The names are those of different entries of the directory.
NamesFit(f) ==
  /\ f.at # "entry" => f.names = <<>> /\ f.i = 1
  /\ f.i <= Len(f.names) + 1
  /\ \A j \in DOMAIN f.names : Up[f.names[j]] = f.dir
  /\ \A j, l \in DOMAIN f.names : f.names[j] = f.names[l] => j = l

\* Each call is for the name before the place of its caller, so the open calls are
\* the way down from the root, each directory once.
Path(st) ==
  /\ st # <<>> => st[1].dir = Root
  /\ \A k \in DOMAIN st : NamesFit(st[k])
  /\ \A k \in 1..Len(st) - 1 :
       st[k].at = "entry" /\ st[k].i > 1 /\ st[k].names[st[k].i - 1] = st[k + 1].dir
  /\ \A k \in 2..Len(st) : \A m \in Nodes :
       m \in Above[st[k].dir] <=> \E j \in 2..k : st[j].dir = m
  /\ \A j, k \in DOMAIN st : st[j].dir = st[k].dir => j = k

\* scandir needs a descriptor beside those of the calls so far.
DepthFits(st) ==
  \A k \in DOMAIN st :
    (st[k].at = "scandir" => k <= Descriptors) /\ (st[k].at = "entry" => k < Descriptors)

\* What is written is not pending; a directory came before what is below it.
LinesFit(st, lines) ==
  /\ \A i \in DOMAIN lines : ~Pending(st, lines[i]) /\ Kind[lines[i]] \in Listed
  /\ \A i, j \in DOMAIN lines :
       /\ lines[i] = lines[j] => i = j
       /\ lines[j] \in Above[lines[i]] => j <= i

\* With -s the siblings of what is written come in order, now and later.
FrameInOrder(f, lines) ==
  /\ InOrder(f.names)
  /\ \A i \in DOMAIN lines : \A m \in Nodes :
       InFuture(f, m) /\ Up[lines[i]] = Up[m] => Rank[lines[i]] < Rank[m]

OrderFits(st, lines) ==
  "s" \in options =>
    /\ \A k \in DOMAIN st : FrameInOrder(st[k], lines)
    /\ \A i, j \in DOMAIN lines :
         Up[lines[i]] = Up[lines[j]] /\ i < j => Rank[lines[i]] < Rank[lines[j]]

\* Whatever has been there all the time is written or pending.
Reachable(n) == Above[n] \subseteq stable /\ Public(n) /\ Kind[n] \in Listed
NothingForgotten(st, lines) ==
  ended # "failure" =>
    \A n \in Nodes : Reachable(n) => Pending(st, n) \/ \E i \in DOMAIN lines : lines[i] = n

WalkStrengthened ==
  /\ TypeOK /\ stack \in Seq(Frames) /\ (ended = "success" => stack = <<>>)
  /\ Path(stack) /\ DepthFits(stack)
  /\ LinesFit(stack, printed) /\ OrderFits(stack, printed) /\ NothingForgotten(stack, printed)

-----------------------------------------------------------------------------
(* The tree. *)

LEMMA AboveFacts ==
  ASSUME NEW n \in Nodes
  PROVE  /\ Above[n] \subseteq Nodes /\ n \in Above[n]
         /\ \A m \in Above[n] : Up[m] \in Nodes => Up[m] \in Above[n]
  BY DEF Above

LEMMA AboveLeast ==
  ASSUME NEW n \in Nodes, NEW S \in SUBSET Nodes, n \in S,
         \A k \in S : Up[k] \in Nodes => Up[k] \in S
  PROVE  Above[n] \subseteq S
  BY DEF Above

LEMMA AboveTransitive ==
  ASSUME NEW n \in Nodes, NEW m \in Above[n]
  PROVE  Above[m] \subseteq Above[n]
<1>1. m \in Nodes /\ Above[n] \in SUBSET Nodes
  BY AboveFacts
<1> QED
  BY <1>1, AboveFacts, AboveLeast

LEMMA AboveUp ==
  ASSUME NEW n \in Nodes, NEW m \in Nodes
  PROVE  m \in Above[n] <=> m = n \/ (Up[n] \in Nodes /\ m \in Above[Up[n]])
<1>1. CASE Up[n] \in Nodes
  <2> DEFINE S == {n} \cup Above[Up[n]]
  <2>1. S \in SUBSET Nodes /\ n \in S /\ \A k \in S : Up[k] \in Nodes => Up[k] \in S
    BY <1>1, AboveFacts
  <2>2. Above[n] \subseteq S
    BY <2>1, AboveLeast
  <2>3. n \in Above[n] /\ Above[Up[n]] \subseteq Above[n]
    BY <1>1, AboveFacts, AboveTransitive
  <2> QED
    BY <1>1, <2>2, <2>3
<1>2. CASE Up[n] \notin Nodes
  <2>1. {n} \in SUBSET Nodes /\ n \in {n} /\ \A k \in {n} : Up[k] \in Nodes => Up[k] \in {n}
    BY <1>2
  <2>2. Above[n] \subseteq {n}
    BY <2>1, AboveLeast
  <2> QED
    BY <1>2, <2>2, AboveFacts
<1> QED
  BY <1>1, <1>2

\* What is above a node, other than itself, is a directory of smaller rank.
LEMMA AboveIsSmaller ==
  ASSUME NEW n \in Nodes, NEW m \in Above[n], m # n
  PROVE  Rank[m] < Rank[n] /\ Kind[m] = "d"
<1> DEFINE S == {k \in Nodes : k = n \/ (Rank[k] < Rank[n] /\ Kind[k] = "d")}
<1>1. ASSUME NEW k \in S, Up[k] \in Nodes PROVE Up[k] \in S
  <2>1. Rank[Up[k]] < Rank[k] /\ Kind[Up[k]] = "d"
    BY <1>1, DirWalkAssumption DEF DirWalkAssumption
  <2>2. Rank[k] \in Nat /\ Rank[n] \in Nat /\ Rank[Up[k]] \in Nat
    BY <1>1, DirWalkAssumption DEF DirWalkAssumption
  <2> QED
    BY <1>1, <2>1, <2>2
<1>2. Above[n] \subseteq S
  BY <1>1, AboveLeast
<1> QED
  BY <1>2

LEMMA BelowChild ==
  ASSUME NEW n \in Nodes, NEW m \in Above[n]
  PROVE  Below(Up[m], n)
<1>1. m \in Nodes /\ Above[m] \subseteq Above[n]
  BY AboveFacts, AboveTransitive
<1>2. CASE Up[m] = Root
  BY <1>2 DEF Below
<1>3. CASE Up[m] # Root
  <2>1. Up[m] \in Nodes /\ Rank[Up[m]] < Rank[m]
    BY <1>1, <1>3, DirWalkAssumption DEF DirWalkAssumption
  <2>2. Up[m] \in Above[n]
    BY <1>1, <2>1, AboveFacts
  <2>3. Rank[m] <= Rank[n]
    <3>1. CASE m = n
      BY <3>1, DirWalkAssumption DEF DirWalkAssumption
    <3>2. CASE m # n
      BY <1>1, <3>2, AboveIsSmaller, DirWalkAssumption DEF DirWalkAssumption
    <3> QED
      BY <3>1, <3>2
  <2>4. Rank[m] \in Nat /\ Rank[n] \in Nat /\ Rank[Up[m]] \in Nat
    BY <1>1, <2>1, DirWalkAssumption DEF DirWalkAssumption
  <2>5. Up[m] # n
    BY <2>1, <2>3, <2>4
  <2> QED
    BY <2>2, <2>5 DEF Below
<1> QED
  BY <1>2, <1>3

\* The way from a directory down to a node below it begins with one of its entries.
LEMMA ChildAbove ==
  ASSUME NEW n \in Nodes, NEW d \in Nodes \cup {Root}, Below(d, n)
  PROVE  \E m \in Above[n] : Up[m] = d
<1> SUFFICES ASSUME \A m \in Above[n] : Up[m] # d PROVE FALSE
  OBVIOUS
<1>1. CASE d \in Nodes
  <2>1. d \in Above[n] /\ d # n
    BY <1>1, DirWalkAssumption DEF Below, DirWalkAssumption
  <2> DEFINE S == Above[n] \ {d}
  <2>2. S \in SUBSET Nodes /\ n \in S /\ \A k \in S : Up[k] \in Nodes => Up[k] \in S
    BY <2>1, AboveFacts
  <2>3. Above[n] \subseteq S
    BY <2>2, AboveLeast
  <2> QED
    BY <2>1, <2>3
<1>2. CASE d = Root
  <2> DEFINE ranks == {Rank[m] : m \in Above[n]}
  <2>1. ranks \subseteq Nat /\ ranks # {}
    BY AboveFacts, DirWalkAssumption DEF DirWalkAssumption
  <2>2. PICK r \in ranks : \A y \in ranks : <<y, r>> \notin OpToRel(<, Nat)
    BY <2>1, NatLessThanWellFounded, WFMin
  <2>3. PICK m \in Above[n] : r = Rank[m]
    BY <2>2
  <2>4. m \in Nodes /\ Up[m] \in Nodes
    BY <1>2, <2>3, AboveFacts, DirWalkAssumption DEF DirWalkAssumption
  <2>5. Up[m] \in Above[n] /\ Rank[Up[m]] < r /\ Rank[Up[m]] \in Nat /\ r \in Nat
    BY <2>3, <2>4, AboveFacts, DirWalkAssumption DEF DirWalkAssumption
  <2>6. <<Rank[Up[m]], r>> \notin OpToRel(<, Nat)
    BY <2>2, <2>5
  <2>7. PICK x \in Nat, y \in Nat : x = Rank[Up[m]] /\ y = r /\ x < y
    BY <2>5
  <2>8. <<x, y>> \in OpToRel(<, Nat)
    BY <2>7 DEF OpToRel
  <2> QED
    BY <2>6, <2>7, <2>8
<1> QED
  BY <1>1, <1>2

LEMMA FrontLast ==
  ASSUME NEW S, NEW s \in Seq(S), s # <<>>
  PROVE  /\ Len(s) \in Nat \ {0} /\ Last(s) \in S /\ Last(s) = s[Len(s)]
         /\ Front(s) \in Seq(S)
         /\ Len(Front(s)) = Len(s) - 1
         /\ \A i \in 1..Len(s) - 1 : Front(s)[i] = s[i]
<1>1. PICK n \in Nat : Len(s) = n + 1
  <2>1. Len(s) \in Nat /\ Len(s) # 0
    OBVIOUS
  <2>2. Len(s) - 1 \in Nat /\ Len(s) = (Len(s) - 1) + 1
    BY <2>1
  <2> QED
    BY <2>2
<1>2. /\ n + 1 \in 1..Len(s) /\ Len(s) - 1 = n /\ \A i \in 1..n : s[i] \in S
      /\ s[Len(s)] \in S
  BY <1>1
<1>3. /\ SubSeq(s, 1, n) \in Seq(S)
      /\ Len(SubSeq(s, 1, n)) = n
      /\ \A i \in 1..n : SubSeq(s, 1, n)[i] = s[i]
  BY <1>2, SubSeqProperties
<1> QED
  BY <1>1, <1>2, <1>3 DEF Last, Front

-----------------------------------------------------------------------------
(* The open calls, and how a step changes them. *)

Shortened(st, new) == Len(new) = Len(st) - 1 /\ \A k \in 1..Len(st) - 1 : new[k] = st[k]

Replaced(st, new, f) ==
  Len(new) = Len(st) /\ \A k \in 1..Len(st) : new[k] = IF k = Len(st) THEN f ELSE st[k]

Lengthened(st, new, f) ==
  Len(new) = Len(st) + 1 /\ \A k \in 1..Len(st) + 1 : new[k] = IF k = Len(st) + 1 THEN f ELSE st[k]

LEMMA StackFacts ==
  ASSUME NEW st \in Seq(Frames), st # <<>>
  PROVE  /\ Len(st) \in Nat \ {0} /\ DOMAIN st = 1..Len(st)
         /\ \A k \in 1..Len(st) : st[k] \in Frames
         /\ Last(st) = st[Len(st)] /\ Last(st) \in Frames
         /\ Front(st) \in Seq(Frames) /\ Shortened(st, Front(st))
         /\ \A f \in Frames : /\ Append(Front(st), f) \in Seq(Frames)
                              /\ Replaced(st, Append(Front(st), f), f)
         /\ \A f \in Frames : /\ Append(st, f) \in Seq(Frames)
                              /\ Lengthened(st, Append(st, f), f)
<1>1. PICK n \in Nat : Len(st) = n + 1
  <2>1. Len(st) \in Nat \ {0}
    BY FrontLast
  <2>2. Len(st) - 1 \in Nat /\ Len(st) = (Len(st) - 1) + 1
    BY <2>1
  <2> QED
    BY <2>2
<1>2. PICK front \in Seq(Frames) :
        front = Front(st) /\ Len(front) = n /\ \A k \in 1..n : front[k] = st[k]
  <2>1. Len(st) - 1 = n
    BY <1>1
  <2> QED
    BY <2>1, FrontLast
<1>3. ASSUME NEW f \in Frames
      PROVE  /\ Append(front, f) \in Seq(Frames) /\ Replaced(st, Append(front, f), f)
             /\ Append(st, f) \in Seq(Frames) /\ Lengthened(st, Append(st, f), f)
  <2>1. PICK new \in Seq(Frames) :
          /\ new = Append(front, f) /\ Len(new) = n + 1 /\ new[n + 1] = f
          /\ \A k \in 1..n : new[k] = front[k]
    <3>1. /\ Append(front, f) \in Seq(Frames) /\ Len(Append(front, f)) = Len(front) + 1
          /\ \A k \in 1..Len(front) : Append(front, f)[k] = front[k]
          /\ Append(front, f)[Len(front) + 1] = f
      BY AppendProperties
    <3> QED
      BY <1>2, <3>1
  <2>2. PICK longer \in Seq(Frames) :
          /\ longer = Append(st, f) /\ Len(longer) = n + 2 /\ longer[n + 2] = f
          /\ \A k \in 1..n + 1 : longer[k] = st[k]
    <3>1. /\ Append(st, f) \in Seq(Frames) /\ Len(Append(st, f)) = Len(st) + 1
          /\ \A k \in 1..Len(st) : Append(st, f)[k] = st[k]
          /\ Append(st, f)[Len(st) + 1] = f
      BY AppendProperties
    <3>2. Len(st) + 1 = n + 2
      BY <1>1
    <3> QED
      BY <1>1, <3>1, <3>2
  <2>3. Replaced(st, new, f)
    BY <1>1, <1>2, <2>1 DEF Replaced
  <2>4. Lengthened(st, longer, f)
    BY <1>1, <2>2 DEF Lengthened
  <2> QED
    BY <2>1, <2>2, <2>3, <2>4
<1>4. Shortened(st, front)
  BY <1>1, <1>2 DEF Shortened
<1>5. Len(st) \in Nat \ {0} /\ DOMAIN st = 1..Len(st) /\ \A k \in 1..Len(st) : st[k] \in Frames
  BY <1>1
<1>6. Last(st) = st[Len(st)] /\ Last(st) \in Frames
  BY FrontLast
<1> QED
  BY <1>2, <1>3, <1>4, <1>5, <1>6

LEMMA FrameFacts ==
  ASSUME NEW f \in Frames
  PROVE  /\ f.dir \in Nodes \cup {Root} /\ f.at \in Steps /\ f.names \in Seq(Nodes)
         /\ f.i \in Nat \ {0} /\ Len(f.names) \in Nat /\ DOMAIN f.names = 1..Len(f.names)
         /\ \A j \in DOMAIN f.names : f.names[j] \in Nodes
  BY DEF Frames

LEMMA PathDown ==
  ASSUME NEW st \in Seq(Frames), Path(st), NEW k \in 1..Len(st) - 1
  PROVE  /\ st[k + 1].dir \in Nodes /\ Up[st[k + 1].dir] = st[k].dir
         /\ st[k].at = "entry" /\ st[k].i - 1 \in DOMAIN st[k].names
         /\ st[k].names[st[k].i - 1] = st[k + 1].dir
<1>1. Len(st) \in Nat /\ k \in DOMAIN st
  OBVIOUS
<1>2. st[k] \in Frames
  BY <1>1
<1>3. NamesFit(st[k]) /\ st[k].at = "entry" /\ st[k].i > 1 /\ st[k].names[st[k].i - 1] = st[k + 1].dir
  BY <1>1 DEF Path
<1>4. st[k].i - 1 \in DOMAIN st[k].names
  BY <1>2, <1>3, FrameFacts DEF NamesFit
<1> QED
  BY <1>2, <1>3, <1>4, FrameFacts DEF NamesFit

\* A name that a call has not come to is none of the directories on the way.
LEMMA FutureIsApart ==
  ASSUME NEW st \in Seq(Frames), Path(st), NEW k \in DOMAIN st, NEW m \in Nodes,
         InFuture(st[k], m), NEW j \in DOMAIN st, st[j].dir = m
  PROVE  FALSE
<1>1. Len(st) \in Nat /\ DOMAIN st = 1..Len(st) /\ st[k] \in Frames
  OBVIOUS
<1>2. j # 1
  <2>1. st # <<>>
    BY <1>1
  <2> QED
    BY <2>1, DirWalkAssumption DEF Path, DirWalkAssumption
<1>3. PICK l \in 1..Len(st) - 1 : j = l + 1
  <2>1. j - 1 \in 1..Len(st) - 1 /\ j = (j - 1) + 1
    BY <1>1, <1>2
  <2> QED
    BY <2>1
<1>4. /\ Up[m] = st[l].dir /\ st[l].i - 1 \in DOMAIN st[l].names
      /\ st[l].names[st[l].i - 1] = m
  BY <1>3, PathDown
<1>5. PICK x \in DOMAIN st[k].names : st[k].i <= x /\ st[k].names[x] = m
  BY DEF InFuture
<1>6. NamesFit(st[k])
  BY DEF Path
<1>7. Up[m] = st[k].dir
  BY <1>5, <1>6 DEF NamesFit
<1>8. l = k
  <2>1. l \in DOMAIN st
    BY <1>1, <1>3
  <2> QED
    BY <1>4, <1>7, <2>1 DEF Path
<1>9. x = st[k].i - 1
  BY <1>4, <1>5, <1>6, <1>8 DEF NamesFit
<1>10. x \in Nat /\ st[k].i \in Nat
  BY <1>1, <1>5, FrameFacts
<1> QED
  BY <1>5, <1>9, <1>10

LEMMA PathShortened ==
  ASSUME NEW st \in Seq(Frames), NEW new \in Seq(Frames), st # <<>>, Path(st),
         Shortened(st, new)
  PROVE  Path(new)
<1>1. PICK n \in Nat : Len(new) = n /\ Len(st) = n + 1 /\ \A k \in 1..n : new[k] = st[k]
  BY StackFacts DEF Shortened
<1>2. DOMAIN new = 1..n /\ DOMAIN st = 1..n + 1
  BY <1>1
<1>3. new # <<>> => new[1].dir = Root
  <2>1. new # <<>> => n # 0
    BY <1>1
  <2> QED
    BY <1>1, <2>1 DEF Path
<1>4. \A k \in DOMAIN new : NamesFit(new[k])
  BY <1>1, <1>2 DEF Path
<1>5. ASSUME NEW k \in 1..Len(new) - 1
      PROVE  new[k].at = "entry" /\ new[k].i > 1 /\ new[k].names[new[k].i - 1] = new[k + 1].dir
  <2>1. k \in 1..Len(st) - 1 /\ k \in 1..n /\ k + 1 \in 1..n
    BY <1>1
  <2> QED
    BY <1>1, <2>1 DEF Path
<1>6. ASSUME NEW k \in 2..Len(new), NEW m \in Nodes
      PROVE  m \in Above[new[k].dir] <=> \E j \in 2..k : new[j].dir = m
  <2>1. k \in 2..Len(st) /\ k \in 1..n /\ \A j \in 2..k : j \in 1..n
    BY <1>1
  <2>2. m \in Above[st[k].dir] <=> \E j \in 2..k : st[j].dir = m
    BY <2>1 DEF Path
  <2>3. \A j \in 2..k : new[j].dir = st[j].dir
    BY <1>1, <2>1
  <2> QED
    BY ONLY <1>1, <2>1, <2>2, <2>3
<1>7. \A j, k \in DOMAIN new : new[j].dir = new[k].dir => j = k
  <2>1. \A j, k \in DOMAIN st : st[j].dir = st[k].dir => j = k
    BY DEF Path
  <2>2. \A k \in 1..n : k \in 1..n + 1
    BY <1>1
  <2> QED
    BY ONLY <1>1, <1>2, <2>1, <2>2
<1> QED
  BY <1>3, <1>4, <1>5, <1>6, <1>7 DEF Path

LEMMA PathReplaced ==
  ASSUME NEW st \in Seq(Frames), NEW new \in Seq(Frames), st # <<>>, Path(st),
         NEW f \in Frames, Replaced(st, new, f), f.dir = Last(st).dir, NamesFit(f)
  PROVE  Path(new)
<1>1. PICK n \in Nat \ {0} :
        /\ Len(new) = n /\ Len(st) = n
        /\ \A k \in 1..n : new[k] = IF k = n THEN f ELSE st[k]
  BY StackFacts DEF Replaced
<1>2. DOMAIN new = 1..n /\ DOMAIN st = 1..n
  BY <1>1
<1>3. \A k \in 1..n : new[k].dir = st[k].dir
  BY <1>1 DEF Last
<1>4. new # <<>> => new[1].dir = Root
  BY <1>1, <1>3 DEF Path
<1>5. \A k \in DOMAIN new : NamesFit(new[k])
  BY <1>1, <1>2 DEF Path
<1>6. ASSUME NEW k \in 1..Len(new) - 1
      PROVE  new[k].at = "entry" /\ new[k].i > 1 /\ new[k].names[new[k].i - 1] = new[k + 1].dir
  <2>1. k \in 1..Len(st) - 1 /\ k \in 1..n /\ k # n /\ k + 1 \in 1..n
    BY <1>1
  <2> QED
    BY <1>1, <1>3, <2>1 DEF Path
<1>7. ASSUME NEW k \in 2..Len(new), NEW m \in Nodes
      PROVE  m \in Above[new[k].dir] <=> \E j \in 2..k : new[j].dir = m
  <2>1. k \in 2..Len(st) /\ k \in 1..n /\ \A j \in 2..k : j \in 1..n
    BY <1>1
  <2>2. m \in Above[st[k].dir] <=> \E j \in 2..k : st[j].dir = m
    BY <2>1 DEF Path
  <2> QED
    BY ONLY <1>3, <2>1, <2>2
<1>8. \A j, k \in DOMAIN new : new[j].dir = new[k].dir => j = k
  BY <1>2, <1>3 DEF Path
<1> QED
  BY <1>4, <1>5, <1>6, <1>7, <1>8 DEF Path

LEMMA PathLengthened ==
  ASSUME NEW st \in Seq(Frames), NEW new \in Seq(Frames), st # <<>>, Path(st),
         NEW f \in Frames, Lengthened(st, new, f), NamesFit(f),
         Last(st).at = "entry", Last(st).i > 1, Last(st).names[Last(st).i - 1] = f.dir
  PROVE  Path(new)
<1>1. PICK n \in Nat \ {0} :
        /\ Len(new) = n + 1 /\ Len(st) = n /\ Last(st) = st[n] /\ st[n] \in Frames
        /\ new[n + 1] = f /\ \A k \in 1..n : new[k] = st[k]
  BY StackFacts DEF Lengthened
<1>2. DOMAIN new = 1..n + 1 /\ DOMAIN st = 1..n
  BY <1>1
<1>3. f.dir \in Nodes /\ Up[f.dir] = st[n].dir
  <2>1. NamesFit(st[n]) /\ st[n].i > 1
    BY <1>1, <1>2 DEF Path
  <2>2. st[n].i - 1 \in DOMAIN st[n].names
    BY <1>1, <2>1, FrameFacts DEF NamesFit
  <2> QED
    BY <1>1, <2>1, <2>2, FrameFacts DEF NamesFit
<1>4. st[1].dir = Root
  BY DEF Path
<1>5. \A k \in DOMAIN new : NamesFit(new[k])
  BY <1>1, <1>2 DEF Path
<1>6. ASSUME NEW k \in 1..Len(new) - 1
      PROVE  new[k].at = "entry" /\ new[k].i > 1 /\ new[k].names[new[k].i - 1] = new[k + 1].dir
  <2>1. CASE k = n
    BY <1>1, <2>1
  <2>2. CASE k # n
    <3>1. k \in 1..Len(st) - 1 /\ k \in 1..n /\ k + 1 \in 1..n
      BY <1>1, <2>2
    <3> QED
      BY <1>1, <3>1 DEF Path
  <2> QED
    BY <2>1, <2>2
<1>7. \A m \in Nodes : m \in Above[f.dir] <=> m = f.dir \/ \E j \in 2..n : st[j].dir = m
  <2>1. CASE n = 1
    <3>1. Up[f.dir] \notin Nodes
      BY <1>3, <1>4, <2>1, DirWalkAssumption DEF DirWalkAssumption
    <3> QED
      BY <1>3, <2>1, <3>1, AboveUp
  <2>2. CASE n # 1
    <3>1. n \in 2..Len(st) /\ n - 1 \in 1..Len(st) - 1 /\ (n - 1) + 1 = n
      BY <1>1, <2>2
    <3>2. st[n].dir \in Nodes
      BY <3>1, PathDown
    <3>3. \A m \in Nodes : m \in Above[st[n].dir] <=> \E j \in 2..n : st[j].dir = m
      BY <3>1 DEF Path
    <3> QED
      BY <1>3, <3>2, <3>3, AboveUp
  <2> QED
    BY <2>1, <2>2
<1>8. ASSUME NEW k \in 2..Len(new), NEW m \in Nodes
      PROVE  m \in Above[new[k].dir] <=> \E j \in 2..k : new[j].dir = m
  <2>1. CASE k = n + 1
    <3>1. (\E j \in 2..k : new[j].dir = m) <=> m = f.dir \/ \E j \in 2..n : st[j].dir = m
      <4>1. \A j : j \in 2..k <=> j = n + 1 \/ j \in 2..n
        BY <1>1, <2>1
      <4>2. \A j \in 2..n : j \in 1..n
        BY <1>1
      <4> QED
        BY <1>1, <4>1, <4>2
    <3> QED
      BY <1>1, <1>7, <2>1, <3>1
  <2>2. CASE k # n + 1
    <3>1. k \in 2..Len(st) /\ k \in 1..n /\ \A j \in 2..k : j \in 1..n
      BY <1>1, <2>2
    <3>2. m \in Above[st[k].dir] <=> \E j \in 2..k : st[j].dir = m
      BY <3>1 DEF Path
    <3> QED
      BY ONLY <1>1, <3>1, <3>2
  <2> QED
    BY <2>1, <2>2
<1>9. ASSUME NEW j \in 1..n, st[j].dir = f.dir PROVE FALSE
  <2>1. j # 1
    BY <1>3, <1>4, <1>9, DirWalkAssumption DEF DirWalkAssumption
  <2>2. n \in 2..Len(st) /\ j \in 2..n /\ n - 1 \in 1..Len(st) - 1 /\ (n - 1) + 1 = n
    BY <1>1, <2>1
  <2>3. st[n].dir \in Nodes
    BY <2>2, PathDown
  <2>4. f.dir \in Above[st[n].dir]
    BY <1>3, <1>9, <2>2 DEF Path
  <2>5. Rank[st[n].dir] < Rank[f.dir] /\ Rank[st[n].dir] \in Nat /\ Rank[f.dir] \in Nat
    BY <1>3, <2>3, DirWalkAssumption DEF DirWalkAssumption
  <2>6. f.dir # st[n].dir
    BY <2>5
  <2>7. Rank[f.dir] < Rank[st[n].dir]
    BY <2>3, <2>4, <2>6, AboveIsSmaller
  <2> QED
    BY <2>5, <2>7
<1>10. \A j, k \in DOMAIN new : new[j].dir = new[k].dir => j = k
  <2>1. \A k \in DOMAIN new : k = n + 1 \/ k \in 1..n
    BY <1>2
  <2> QED
    BY <1>1, <1>2, <1>9, <2>1 DEF Path
<1> QED
  BY <1>1, <1>4, <1>5, <1>6, <1>8, <1>10 DEF Path

-----------------------------------------------------------------------------
(* What the open calls will come to. *)

LEMMA PendingFront ==
  ASSUME NEW st \in Seq(Frames), NEW new \in Seq(Frames), st # <<>>, Shortened(st, new), NEW n
  PROVE  Pending(st, n) <=> Pending(new, n) \/ WillReach(Last(st), n)
<1>1. PICK l \in Nat \ {0} :
        /\ Len(new) = l - 1 /\ Len(st) = l /\ Last(st) = st[l]
        /\ \A k \in 1..l - 1 : new[k] = st[k]
  BY StackFacts DEF Shortened
<1>2. DOMAIN new = 1..l - 1 /\ DOMAIN st = 1..l /\ \A k \in 1..l : k = l \/ k \in 1..l - 1
  BY <1>1
<1> QED
  BY <1>1, <1>2 DEF Pending

LEMMA PendingReplaced ==
  ASSUME NEW st \in Seq(Frames), NEW new \in Seq(Frames), st # <<>>, NEW f \in Frames,
         Replaced(st, new, f), NEW n
  PROVE  Pending(new, n) <=> Pending(Front(st), n) \/ WillReach(f, n)
<1>1. PICK l \in Nat \ {0} :
        /\ Len(new) = l /\ Len(st) = l /\ new[l] = f
        /\ \A k \in 1..l - 1 : new[k] = st[k]
  BY StackFacts DEF Replaced
<1>2. PICK front \in Seq(Frames) :
        front = Front(st) /\ Len(front) = l - 1 /\ \A k \in 1..l - 1 : front[k] = st[k]
  <2>1. Front(st) \in Seq(Frames) /\ Shortened(st, Front(st))
    BY StackFacts
  <2> QED
    BY <1>1, <2>1 DEF Shortened
<1>3. DOMAIN new = 1..l /\ DOMAIN front = 1..l - 1 /\ \A k \in 1..l : k = l \/ k \in 1..l - 1
  BY <1>1, <1>2
<1> QED
  BY <1>1, <1>2, <1>3 DEF Pending

LEMMA PendingLengthened ==
  ASSUME NEW st \in Seq(Frames), NEW new \in Seq(Frames), NEW f \in Frames,
         Lengthened(st, new, f), NEW n
  PROVE  Pending(new, n) <=> Pending(st, n) \/ WillReach(f, n)
<1>1. PICK l \in Nat :
        /\ Len(new) = l + 1 /\ Len(st) = l /\ new[l + 1] = f
        /\ \A k \in 1..l : new[k] = st[k]
  BY DEF Lengthened
<1>2. DOMAIN new = 1..l + 1 /\ DOMAIN st = 1..l /\ \A k \in 1..l + 1 : k = l + 1 \/ k \in 1..l
  BY <1>1
<1> QED
  BY <1>1, <1>2 DEF Pending

Onward(f) == [f EXCEPT !.i = @ + 1]

\* The step from a name to the next.
LEMMA OnwardFacts ==
  ASSUME NEW f \in Frames, NamesFit(f), f.at = "entry", f.i <= Len(f.names), NEW n,
         n = f.names[f.i]
  PROVE  /\ Onward(f) \in Frames /\ NamesFit(Onward(f))
         /\ n \in Nodes /\ Up[n] = f.dir /\ f.i \in DOMAIN f.names
         /\ \A m : InFuture(f, m) <=> InFuture(Onward(f), m) \/ m = n
         /\ ~InFuture(Onward(f), n)
<1>1. /\ f.dir \in Nodes \cup {Root} /\ f.names \in Seq(Nodes) /\ f.i \in Nat \ {0}
      /\ Len(f.names) \in Nat /\ DOMAIN f.names = 1..Len(f.names)
  BY FrameFacts
<1>2. /\ Onward(f).dir = f.dir /\ Onward(f).at = "entry" /\ Onward(f).names = f.names
      /\ Onward(f).i = f.i + 1 /\ Onward(f) \in Frames
  BY <1>1 DEF Onward, Frames
<1>3. f.i \in DOMAIN f.names /\ n \in Nodes
  BY <1>1
<1>4. NamesFit(Onward(f)) /\ Up[n] = f.dir
  <2>1. /\ \A j \in DOMAIN f.names : Up[f.names[j]] = f.dir
        /\ \A j, l \in DOMAIN f.names : f.names[j] = f.names[l] => j = l
    BY DEF NamesFit
  <2>2. Up[n] = f.dir /\ f.i + 1 <= Len(f.names) + 1
    BY <1>1, <1>3, <2>1
  <2> QED
    BY ONLY <1>2, <2>1, <2>2 DEF NamesFit
<1>5. \A j \in DOMAIN f.names : f.i <= j <=> j = f.i \/ f.i + 1 <= j
  BY <1>1
<1>6. \A m : InFuture(f, m) <=> InFuture(Onward(f), m) \/ m = n
  BY <1>2, <1>3, <1>5 DEF InFuture
<1>7. ~InFuture(Onward(f), n)
  <2>1. \A j \in DOMAIN f.names : f.i + 1 <= j => j # f.i
    BY <1>1
  <2> QED
    BY <1>2, <1>3, <2>1 DEF InFuture, NamesFit
<1> QED
  BY <1>2, <1>3, <1>4, <1>6, <1>7

\* The call comes to n: what was pending through it is n and what is below it.
LEMMA ComeTo ==
  ASSUME NEW st \in Seq(Frames), st # <<>>, Path(st), Last(st).at = "entry",
         Last(st).i <= Len(Last(st).names), NEW n, n = Last(st).names[Last(st).i],
         NEW mid \in Seq(Frames), Replaced(st, mid, Onward(Last(st)))
  PROVE  /\ Path(mid) /\ n \in Nodes /\ ~Pending(mid, n)
         /\ \A q \in Nodes : Pending(st, q) <=> Pending(mid, q) \/ n \in Above[q]
<1> DEFINE fr == Last(st)
           f == Onward(fr)
<1>1. PICK l \in Nat \ {0} :
        /\ Len(mid) = l /\ Len(st) = l /\ mid[l] = f /\ st[l] = fr /\ fr \in Frames
        /\ \A k \in 1..l - 1 : mid[k] = st[k]
  <2>1. PICK l \in Nat \ {0} : l = Len(st) /\ st[l] = fr /\ fr \in Frames
    BY StackFacts
  <2> QED
    BY <2>1, SMTT(40) DEF Replaced
<1>2. DOMAIN mid = 1..l /\ DOMAIN st = 1..l /\ \A k \in 1..l : k = l \/ k \in 1..l - 1
  BY <1>1
<1>3. NamesFit(fr)
  BY <1>1, <1>2 DEF Path
<1>4. /\ f \in Frames /\ NamesFit(f) /\ f.dir = fr.dir /\ f.at = "entry" /\ fr.at = "entry"
      /\ n \in Nodes /\ Up[n] = fr.dir
      /\ \A m : InFuture(fr, m) <=> InFuture(f, m) \/ m = n
      /\ ~InFuture(f, n)
  <2>1. f.dir = fr.dir /\ f.at = fr.at
    BY <1>1 DEF Onward, Frames
  <2> QED
    BY <1>1, <1>3, <2>1, OnwardFacts
<1> HIDE DEF f
<1>5. Path(mid)
  BY <1>1, <1>4, PathReplaced DEF f
<1>6. ASSUME NEW q \in Nodes
      PROVE  Pending(st, q) <=> Pending(mid, q) \/ n \in Above[q]
  <2>1. Pending(st, q) <=> Pending(Front(st), q) \/ WillReach(fr, q)
    BY StackFacts, PendingFront
  <2>2. Pending(mid, q) <=> Pending(Front(st), q) \/ WillReach(f, q)
    BY <1>4, PendingReplaced DEF f
  <2>3. WillReach(fr, q) <=> WillReach(f, q) \/ n \in Above[q]
    BY <1>4 DEF WillReach
  <2> QED
    BY <2>1, <2>2, <2>3
<1>7. ASSUME NEW k \in 1..l, WillReach(mid[k], n) PROVE FALSE
  <2>1. mid[k].at = "entry"
    <3>1. CASE k = l
      BY <1>1, <1>4, <3>1
    <3>2. CASE k # l
      <4>1. k \in 1..Len(mid) - 1
        BY <1>1, <3>2
      <4> QED
        BY <1>5, <4>1 DEF Path
    <3> QED
      BY <3>1, <3>2
  <2>2. PICK m \in Above[n] : InFuture(mid[k], m)
    BY <1>7, <2>1 DEF WillReach
  <2>3. m \in Nodes /\ NamesFit(mid[k])
    BY <1>2, <1>4, <1>5, <2>2, AboveFacts DEF Path
  <2>4. CASE m = n
    <3>1. mid[k].dir = mid[l].dir
      BY <1>1, <1>4, <2>2, <2>3, <2>4 DEF InFuture, NamesFit
    <3>2. \A i, j \in 1..l : mid[i].dir = mid[j].dir => i = j
      BY <1>2, <1>5 DEF Path
    <3>3. k = l
      BY ONLY <3>1, <3>2, k \in 1..l, l \in Nat \ {0}
    <3> QED
      BY <1>1, <1>4, <2>2, <2>4, <3>3
  <2>5. CASE m # n
    <3>1. fr.dir \in Nodes /\ m \in Above[fr.dir]
      BY <1>4, <2>2, <2>3, <2>5, AboveUp
    <3>2. l \in 2..Len(mid)
      <4>1. l # 1
        BY <1>1, <1>4, <1>5, <3>1, DirWalkAssumption DEF Path, DirWalkAssumption
      <4> QED
        BY <1>1, <4>1
    <3>3. PICK j \in 2..l : mid[j].dir = m
      BY <1>1, <1>4, <1>5, <2>3, <3>1, <3>2 DEF Path
    <3>4. j \in DOMAIN mid
      BY <1>2, <3>3
    <3> QED
      BY <1>2, <1>5, <2>2, <2>3, <3>3, <3>4, FutureIsApart
  <2> QED
    BY <2>4, <2>5
<1> QED
  BY <1>2, <1>4, <1>5, <1>6, <1>7 DEF Pending

\* What scandir may give: every entry of the directory, once.
LEMMA Listing ==
  ASSUME NEW S, IsFiniteSet(S), NEW names \in SetToSeqs(S)
  PROVE  /\ names \in Seq(S)
         /\ \A j, l \in DOMAIN names : names[j] = names[l] => j = l
         /\ \A m \in S : \E j \in DOMAIN names : names[j] = m
<1>1. PICK n \in Nat : n = Cardinality(S)
  BY FS_CardinalityType
<1>2. names \in [1..n -> S] /\ \A j, l \in 1..n : j # l => names[j] # names[l]
  BY <1>1 DEF SetToSeqs
<1>3. IsFiniteSet(1..n) /\ Cardinality(1..n) = n
  BY FS_Interval
<1>4. names \in Injection(1..n, S)
  BY <1>2 DEF Injection, IsInjective
<1>5. names \in Surjection(1..n, S)
  BY <1>1, <1>3, <1>4, FS_Injection
<1> QED
  BY <1>2, <1>5 DEF Surjection

-----------------------------------------------------------------------------
(* The lines and their order. *)

LEMMA LinesKept ==
  ASSUME NEW st, NEW new, NEW lines \in Seq(Nodes), LinesFit(st, lines),
         \A q \in Nodes : Pending(new, q) => Pending(st, q)
  PROVE  LinesFit(new, lines)
<1>1. \A i \in DOMAIN lines : lines[i] \in Nodes
  OBVIOUS
<1> QED
  BY <1>1 DEF LinesFit

\* A line is added for a node that was pending, and is not any more.
LEMMA LineAdded ==
  ASSUME NEW st, NEW new, NEW lines \in Seq(Nodes), LinesFit(st, lines),
         \A q \in Nodes : Pending(new, q) => Pending(st, q),
         NEW n \in Nodes, ~Pending(new, n), Kind[n] \in Listed,
         \A q \in Nodes : n \in Above[q] => Pending(st, q)
  PROVE  LinesFit(new, Append(lines, n))
<1>1. PICK l \in Nat : l = Len(lines) /\ DOMAIN lines = 1..l
  OBVIOUS
<1>2. /\ DOMAIN Append(lines, n) = 1..l + 1 /\ Append(lines, n)[l + 1] = n
      /\ \A i \in 1..l : Append(lines, n)[i] = lines[i]
      /\ \A i \in 1..l + 1 : i = l + 1 \/ i \in 1..l
  BY <1>1
<1>3. \A i \in 1..l : lines[i] \in Nodes /\ ~Pending(st, lines[i])
  BY <1>1 DEF LinesFit
<1>4. \A i \in 1..l : lines[i] # n /\ n \notin Above[lines[i]]
  BY <1>3, AboveFacts
<1>5. \A i \in DOMAIN Append(lines, n) :
        ~Pending(new, Append(lines, n)[i]) /\ Kind[Append(lines, n)[i]] \in Listed
  BY <1>1, <1>2, <1>3 DEF LinesFit
<1>6. ASSUME NEW i \in 1..l + 1, NEW j \in 1..l + 1
      PROVE  /\ Append(lines, n)[i] = Append(lines, n)[j] => i = j
             /\ Append(lines, n)[j] \in Above[Append(lines, n)[i]] => j <= i
  <2>1. CASE i \in 1..l /\ j \in 1..l
    BY <1>1, <1>2, <2>1 DEF LinesFit
  <2>2. CASE i = l + 1
    BY <1>2, <1>4, <2>2
  <2>3. CASE i \in 1..l /\ j = l + 1
    BY <1>2, <1>4, <2>3
  <2> QED
    BY <1>2, <2>1, <2>2, <2>3
<1> QED
  BY <1>2, <1>5, <1>6 DEF LinesFit

LEMMA OrderShortened ==
  ASSUME NEW st \in Seq(Frames), NEW new \in Seq(Frames), st # <<>>, Shortened(st, new),
         NEW lines, OrderFits(st, lines)
  PROVE  OrderFits(new, lines)
<1>1. \A k \in DOMAIN new : k \in DOMAIN st /\ new[k] = st[k]
  <2>1. Len(st) \in Nat /\ DOMAIN st = 1..Len(st) /\ DOMAIN new = 1..Len(new)
    BY StackFacts
  <2>2. Len(new) = Len(st) - 1 /\ \A k \in 1..Len(st) - 1 : new[k] = st[k]
    BY DEF Shortened
  <2> QED
    BY <2>1, <2>2
<1> QED
  BY <1>1 DEF OrderFits

LEMMA OrderReplaced ==
  ASSUME NEW st \in Seq(Frames), NEW new \in Seq(Frames), st # <<>>, NEW f \in Frames,
         Replaced(st, new, f), NEW lines, OrderFits(st, lines),
         "s" \in options => FrameInOrder(f, lines)
  PROVE  OrderFits(new, lines)
<1>1. \A k \in DOMAIN new : k \in DOMAIN st /\ (new[k] = f \/ new[k] = st[k])
  BY StackFacts DEF Replaced
<1> QED
  BY <1>1 DEF OrderFits

LEMMA DepthShortened ==
  ASSUME NEW st \in Seq(Frames), NEW new \in Seq(Frames), st # <<>>, Shortened(st, new),
         DepthFits(st)
  PROVE  DepthFits(new)
<1>1. \A k \in DOMAIN new : k \in DOMAIN st /\ new[k] = st[k]
  <2>1. Len(st) \in Nat /\ DOMAIN st = 1..Len(st) /\ DOMAIN new = 1..Len(new)
    BY StackFacts
  <2>2. Len(new) = Len(st) - 1 /\ \A k \in 1..Len(st) - 1 : new[k] = st[k]
    BY DEF Shortened
  <2> QED
    BY <2>1, <2>2
<1> QED
  BY <1>1 DEF DepthFits

LEMMA DepthReplaced ==
  ASSUME NEW st \in Seq(Frames), NEW new \in Seq(Frames), st # <<>>, NEW f \in Frames,
         Replaced(st, new, f), DepthFits(st),
         f.at = "scandir" => Len(st) <= Descriptors, f.at = "entry" => Len(st) < Descriptors
  PROVE  DepthFits(new)
<1>1. \A k \in DOMAIN new : (k = Len(st) /\ new[k] = f) \/ (k \in DOMAIN st /\ new[k] = st[k])
  <2>1. Len(st) \in Nat \ {0} /\ DOMAIN st = 1..Len(st) /\ DOMAIN new = 1..Len(new)
    BY StackFacts
  <2>2. Len(new) = Len(st) /\ \A k \in 1..Len(st) : new[k] = IF k = Len(st) THEN f ELSE st[k]
    BY DEF Replaced
  <2> QED
    BY ONLY <2>1, <2>2
<1> QED
  BY <1>1 DEF DepthFits

\* The calls that hold a descriptor are all, except one that has just begun.
LEMMA OpenCountFacts ==
  ASSUME stack \in Seq(Frames), stack # <<>>, Path(stack), DepthFits(stack)
  PROVE  /\ OpenCount = IF Last(stack).at = "opendir" THEN Len(stack) - 1 ELSE Len(stack)
         /\ OpenCount <= Descriptors
         /\ Last(stack).at = "opendir" => OpenCount < Descriptors
<1>1. PICK l \in Nat \ {0} : Len(stack) = l /\ DOMAIN stack = 1..l /\ Last(stack) = stack[l]
  BY StackFacts
<1>2. \A k \in 1..l : k = l \/ k \in 1..l - 1
  BY <1>1
<1>3. \A k \in 1..l - 1 : stack[k].at = "entry"
  BY <1>1 DEF Path
<1>4. l \in Int /\ l - 1 \in Int /\ Descriptors \in Nat \ {0, 1}
  BY <1>1, DirWalkAssumption DEF DirWalkAssumption
<1>5. CASE stack[l].at = "opendir"
  <2>1. {k \in DOMAIN stack : stack[k].at # "opendir"} = 1..l - 1
    BY <1>1, <1>2, <1>3, <1>5
  <2>2. Cardinality(1..l - 1) = l - 1
    BY <1>4, FS_Interval
  <2>3. l - 1 < Descriptors
    <3>1. CASE l = 1
      BY <1>4, <3>1
    <3>2. CASE l # 1
      <4>1. l - 1 \in 1..l - 1 /\ l - 1 \in DOMAIN stack
        BY <1>1, <3>2
      <4> QED
        BY <1>3, <4>1 DEF DepthFits
    <3> QED
      BY <3>1, <3>2
  <2>4. OpenCount = l - 1 /\ Last(stack).at = "opendir" /\ Len(stack) - 1 = l - 1
    BY <1>1, <1>5, <2>1, <2>2 DEF OpenCount
  <2> QED
    BY <1>4, <2>3, <2>4
<1>6. CASE stack[l].at # "opendir"
  <2>1. {k \in DOMAIN stack : stack[k].at # "opendir"} = 1..l
    BY <1>1, <1>2, <1>3, <1>6
  <2>2. Cardinality(1..l) = l
    BY <1>4, FS_Interval
  <2>3. l <= Descriptors
    <3>1. stack[l].at \in Steps /\ l \in DOMAIN stack
      BY <1>1, FrameFacts
    <3> QED
      BY <1>4, <1>6, <3>1 DEF DepthFits, Steps
  <2> QED
    BY <1>1, <1>6, <2>1, <2>2, <2>3 DEF OpenCount
<1> QED
  BY <1>5, <1>6

-----------------------------------------------------------------------------
(* The steps. *)

NothingForgottenAt(st, lines, end) ==
  end # "failure" =>
    \A n \in Nodes : Reachable(n) => Pending(st, n) \/ \E i \in DOMAIN lines : lines[i] = n

LEMMA WalkGoesOn ==
  ASSUME TypeOK, NEW new \in Seq(Frames), stack' = new, NEW lines \in Seq(Nodes), printed' = lines,
         UNCHANGED <<options, worldVars>>, Path(new), DepthFits(new), LinesFit(new, lines),
         OrderFits(new, lines), ended' \in {"no", "success", "failure"},
         ended' = "success" => new = <<>>, NothingForgottenAt(new, lines, ended')
  PROVE  WalkStrengthened'
<1>1. \A k \in DOMAIN new :
        /\ new[k].dir \in Nodes \cup {Root} /\ new[k].at \in {"opendir", "scandir", "entry"}
        /\ new[k].names \in Seq(Nodes) /\ new[k].i \in 1..Len(new[k].names) + 1
  <2> SUFFICES ASSUME NEW k \in DOMAIN new
               PROVE  /\ new[k].dir \in Nodes \cup {Root}
                      /\ new[k].at \in {"opendir", "scandir", "entry"}
                      /\ new[k].names \in Seq(Nodes) /\ new[k].i \in 1..Len(new[k].names) + 1
    OBVIOUS
  <2>1. new[k] \in Frames
    OBVIOUS
  <2>2. new[k].i <= Len(new[k].names) + 1
    BY DEF Path, NamesFit
  <2> QED
    BY <2>1, <2>2, FrameFacts DEF Steps
<1>2. TypeOK'
  BY <1>1 DEF TypeOK, worldVars
<1>3. \A k \in Nodes : Reachable(k)' = Reachable(k)
  BY DEF Reachable, worldVars, Listed, Public
<1>4. NothingForgotten(stack, printed)'
  BY <1>3 DEF NothingForgotten, NothingForgottenAt, Pending
<1>5. LinesFit(stack, printed)' /\ OrderFits(stack, printed)'
  BY DEF LinesFit, OrderFits, Listed, Pending
<1>6. Path(stack)' /\ DepthFits(stack)'
  BY DEF Path, DepthFits
<1> QED
  BY <1>2, <1>4, <1>5, <1>6 DEF WalkStrengthened

LEMMA WalkInit == Init => WalkStrengthened
<1> SUFFICES ASSUME Init PROVE WalkStrengthened
  OBVIOUS
<1>1. /\ Call(Root) \in Frames /\ Call(Root).dir = Root /\ Call(Root).at = "opendir"
      /\ Call(Root).names = <<>> /\ Call(Root).i = 1
  BY DEF Call, Frames, Steps
<1>2. /\ stack \in Seq(Frames) /\ Len(stack) = 1 /\ DOMAIN stack = {1} /\ stack[1] = Call(Root)
      /\ printed = <<>> /\ DOMAIN printed = {} /\ ended = "no"
  BY <1>1 DEF Init
<1>3. TypeOK
  <2>1. Call(Root).i \in 1..Len(Call(Root).names) + 1 /\ Call(Root).names \in Seq(Nodes)
    BY <1>1
  <2>2. printed \in Seq(Nodes) /\ changes \in 0..MaxChanges
    BY DirWalkAssumption DEF Init, DirWalkAssumption
  <2> QED
    BY <1>1, <1>2, <2>1, <2>2 DEF Init, TypeOK
<1>4. NamesFit(Call(Root))
  BY <1>1 DEF NamesFit
<1>5. Path(stack)
  BY <1>1, <1>2, <1>4 DEF Path
<1>6. DepthFits(stack)
  BY <1>1, <1>2 DEF DepthFits
<1>7. LinesFit(stack, printed)
  BY <1>2 DEF LinesFit
<1>8. FrameInOrder(Call(Root), printed)
  BY <1>1, <1>2 DEF FrameInOrder, InOrder, InFuture
<1>9. OrderFits(stack, printed)
  BY <1>2, <1>8 DEF OrderFits
<1>10. ASSUME NEW n \in Nodes PROVE Pending(stack, n)
  <2>1. WillReach(Call(Root), n)
    BY <1>1 DEF WillReach, Below
  <2> QED
    BY <1>2, <2>1 DEF Pending
<1> QED
  BY <1>2, <1>3, <1>5, <1>6, <1>7, <1>9, <1>10 DEF WalkStrengthened, NothingForgotten

LEMMA RunningFacts ==
  ASSUME WalkStrengthened, NEW step, Running(step)
  PROVE  /\ stack \in Seq(Frames) /\ stack # <<>> /\ ended = "no" /\ TypeOK
         /\ Frame = Last(stack) /\ Frame \in Frames /\ Frame.at = step /\ NamesFit(Frame)
         /\ Path(stack) /\ DepthFits(stack) /\ printed \in Seq(Nodes)
         /\ LinesFit(stack, printed) /\ OrderFits(stack, printed)
         /\ NothingForgotten(stack, printed)
         /\ Len(stack) \in Nat \ {0} /\ Len(stack) \in DOMAIN stack /\ stack[Len(stack)] = Frame
<1>1. stack \in Seq(Frames) /\ stack # <<>> /\ Path(stack)
  BY DEF WalkStrengthened, Running
<1>2. /\ Len(stack) \in Nat \ {0} /\ Len(stack) \in DOMAIN stack
      /\ Last(stack) = stack[Len(stack)] /\ Last(stack) \in Frames
  BY <1>1, StackFacts
<1>3. NamesFit(Last(stack))
  BY <1>1, <1>2 DEF Path
<1> QED
  BY <1>1, <1>2, <1>3 DEF WalkStrengthened, Running, Frame, TypeOK

LEMMA OpendirPreserves == WalkStrengthened /\ Opendir => WalkStrengthened'
<1> SUFFICES ASSUME WalkStrengthened, Opendir PROVE WalkStrengthened'
  OBVIOUS
<1>1. Running("opendir") /\ UNCHANGED <<options, printed, ended, worldVars>>
  BY DEF Opendir
<1> USE <1>1, RunningFacts
<1>2. OpenCount = Len(stack) - 1 /\ OpenCount < Descriptors
  BY OpenCountFacts
<1>3. Frame.names = <<>> /\ Frame.i = 1
  BY DEF NamesFit
<1>4. CASE CanOpen(Frame.dir, OpenCount)
  <2>1. PICK f \in Frames : /\ f = [Frame EXCEPT !.at = "scandir"] /\ f.at = "scandir"
                            /\ f.dir = Frame.dir /\ f.names = <<>> /\ f.i = 1
    <3>1. PICK fr \in Frames : fr = Frame
      OBVIOUS
    <3>2. [fr EXCEPT !.at = "scandir"] \in Frames
      BY DEF Frames, Steps
    <3>3. /\ [fr EXCEPT !.at = "scandir"].at = "scandir" /\ [fr EXCEPT !.at = "scandir"].dir = fr.dir
          /\ [fr EXCEPT !.at = "scandir"].names = fr.names /\ [fr EXCEPT !.at = "scandir"].i = fr.i
      BY ONLY fr \in Frames DEF Frames
    <3> QED
      BY <1>3, <3>1, <3>2, <3>3
  <2>2. PICK new \in Seq(Frames) : new = Append(Front(stack), f) /\ Replaced(stack, new, f)
    BY StackFacts
  <2>3. stack' = new
    BY <1>4, <2>1, <2>2 DEF Opendir, Replace
  <2>4. NamesFit(f)
    BY <2>1 DEF NamesFit
  <2>5. Path(new)
    BY <2>1, <2>2, <2>4, PathReplaced
  <2>6. DepthFits(new)
    <3>1. Len(stack) <= Descriptors
      BY <1>2, DirWalkAssumption DEF DirWalkAssumption
    <3> QED
      BY <2>1, <2>2, <3>1, DepthReplaced
  <2>7. ASSUME NEW q \in Nodes PROVE Pending(new, q) <=> Pending(stack, q)
    <3>1. WillReach(f, q) <=> WillReach(Frame, q)
      BY <2>1 DEF WillReach
    <3>2. Pending(stack, q) <=> Pending(Front(stack), q) \/ WillReach(Frame, q)
      BY StackFacts, PendingFront
    <3> QED
      BY <2>2, <3>1, <3>2, PendingReplaced
  <2>8. LinesFit(new, printed)
    BY <2>7, LinesKept
  <2>9. OrderFits(new, printed)
    <3>1. FrameInOrder(f, printed)
      BY <2>1 DEF FrameInOrder, InOrder, InFuture
    <3> QED
      BY <2>2, <3>1, OrderReplaced
  <2>10. NothingForgottenAt(new, printed, ended')
    BY <2>7 DEF NothingForgotten, NothingForgottenAt
  <2> QED
    BY <2>3, <2>5, <2>6, <2>8, <2>9, <2>10, WalkGoesOn
<1>5. CASE ~CanOpen(Frame.dir, OpenCount)
  <2>1. PICK new \in Seq(Frames) : new = Front(stack) /\ Shortened(stack, new)
    BY StackFacts
  <2>2. stack' = new
    BY <1>5, <2>1 DEF Opendir
  <2>3. Path(new) /\ DepthFits(new) /\ OrderFits(new, printed)
    BY <2>1, PathShortened, DepthShortened, OrderShortened
  <2>4. \A q \in Nodes : Pending(stack, q) <=> Pending(new, q) \/ WillReach(Frame, q)
    BY <2>1, PendingFront
  <2>5. LinesFit(new, printed)
    BY <2>4, LinesKept
  <2>6. ASSUME NEW q \in Nodes, Reachable(q), WillReach(Frame, q) PROVE FALSE
    <3>1. Below(Frame.dir, q)
      BY <2>6 DEF WillReach
    <3>2. Above[q] \subseteq existing /\ Above[q] \cap Private \subseteq {q}
      BY <2>6 DEF Reachable, Public, TypeOK
    <3>3. Exists(Frame.dir) /\ Frame.dir \notin Private
      BY <3>1, <3>2, DirWalkAssumption DEF Below, Exists, DirWalkAssumption
    <3> QED
      BY <1>2, <1>5, <3>3 DEF CanOpen
  <2>7. NothingForgottenAt(new, printed, ended')
    BY <2>4, <2>6 DEF NothingForgotten, NothingForgottenAt
  <2> QED
    BY <2>2, <2>3, <2>5, <2>7, WalkGoesOn
<1> QED
  BY <1>4, <1>5

LEMMA ClosedirPreserves == WalkStrengthened /\ Closedir => WalkStrengthened'
<1> SUFFICES ASSUME WalkStrengthened, Closedir PROVE WalkStrengthened'
  OBVIOUS
<1>1. Running("entry") /\ UNCHANGED <<options, printed, ended, worldVars>>
      /\ Frame.i > Len(Frame.names)
  BY DEF Closedir
<1> USE <1>1, RunningFacts
<1>2. PICK new \in Seq(Frames) : new = Front(stack) /\ Shortened(stack, new)
  BY StackFacts
<1>3. stack' = new
  BY <1>2 DEF Closedir
<1>4. Path(new) /\ DepthFits(new) /\ OrderFits(new, printed)
  BY <1>2, PathShortened, DepthShortened, OrderShortened
<1>5. ASSUME NEW q \in Nodes PROVE Pending(new, q) <=> Pending(stack, q)
  <2>1. \A m : ~InFuture(Frame, m)
    <3>1. \A j \in DOMAIN Frame.names : ~(Frame.i <= j)
      BY FrameFacts
    <3> QED
      BY <3>1 DEF InFuture
  <2>2. ~WillReach(Frame, q)
    BY <2>1 DEF WillReach
  <2> QED
    BY <1>2, <2>2, PendingFront
<1>6. LinesFit(new, printed)
  BY <1>5, LinesKept
<1>7. NothingForgottenAt(new, printed, ended')
  BY <1>5 DEF NothingForgotten, NothingForgottenAt
<1> QED
  BY <1>3, <1>4, <1>6, <1>7, WalkGoesOn

LEMMA ExitPreserves == WalkStrengthened /\ Exit => WalkStrengthened'
<1> SUFFICES ASSUME WalkStrengthened, Exit PROVE WalkStrengthened'
  OBVIOUS
<1>1. /\ ended = "no" /\ stack = <<>> /\ ended' = "success"
      /\ UNCHANGED <<options, stack, printed, worldVars>>
  BY DEF Exit
<1>2. /\ stack \in Seq(Frames) /\ TypeOK /\ printed \in Seq(Nodes) /\ Path(stack)
      /\ DepthFits(stack) /\ LinesFit(stack, printed) /\ OrderFits(stack, printed)
      /\ NothingForgotten(stack, printed)
  BY DEF WalkStrengthened, TypeOK
<1>3. NothingForgottenAt(stack, printed, ended')
  BY <1>1, <1>2 DEF NothingForgotten, NothingForgottenAt
<1> QED
  BY <1>1, <1>2, <1>3, WalkGoesOn

LEMMA ScandirPreserves == WalkStrengthened /\ Scandir => WalkStrengthened'
<1> SUFFICES ASSUME WalkStrengthened, Scandir PROVE WalkStrengthened'
  OBVIOUS
<1>1. Running("scandir") /\ UNCHANGED <<options, printed, worldVars>>
  BY DEF Scandir
<1> USE <1>1, RunningFacts
<1>2. CASE ~CanOpen(Frame.dir, OpenCount)
  <2>1. stack' = stack /\ ended' = "failure"
    BY <1>2 DEF Scandir
  <2> QED
    BY <2>1, WalkGoesOn DEF NothingForgottenAt
<1>3. CASE CanOpen(Frame.dir, OpenCount)
  <2> DEFINE entries == {n \in existing : Up[n] = Frame.dir}
  <2>1. PICK names \in SetToSeqs(entries) :
          /\ "s" \in options => InOrder(names)
          /\ stack' = Append(Front(stack), [Frame EXCEPT !.at = "entry", !.names = names])
          /\ ended' = ended
    BY <1>3 DEF Scandir, Replace
  <2>2. entries \subseteq Nodes /\ IsFiniteSet(entries)
    <3>1. entries \in SUBSET Nodes
      BY DEF TypeOK
    <3> QED
      BY <3>1, FS_Subset, DirWalkAssumption DEF DirWalkAssumption
  <2>3. /\ names \in Seq(entries)
        /\ \A j, l \in DOMAIN names : names[j] = names[l] => j = l
        /\ \A m \in entries : \E j \in DOMAIN names : names[j] = m
    <3> HIDE DEF entries
    <3> QED
      BY ONLY <2>2, Listing, names \in SetToSeqs(entries)
  <2>4. names \in Seq(Nodes) /\ \A j \in DOMAIN names : names[j] \in entries
    BY <2>2, <2>3
  <2>5. PICK f \in Frames : /\ f = [Frame EXCEPT !.at = "entry", !.names = names]
                            /\ f.at = "entry" /\ f.dir = Frame.dir /\ f.names = names /\ f.i = 1
    <3>1. PICK fr \in Frames : fr = Frame
      OBVIOUS
    <3>2. [fr EXCEPT !.at = "entry", !.names = names] \in Frames
      BY <2>4 DEF Frames, Steps
    <3>3. /\ [fr EXCEPT !.at = "entry", !.names = names].at = "entry"
          /\ [fr EXCEPT !.at = "entry", !.names = names].dir = fr.dir
          /\ [fr EXCEPT !.at = "entry", !.names = names].names = names
          /\ [fr EXCEPT !.at = "entry", !.names = names].i = fr.i
      BY ONLY fr \in Frames DEF Frames
    <3>4. Frame.i = 1
      BY DEF NamesFit
    <3> QED
      BY <3>1, <3>2, <3>3, <3>4
  <2>6. PICK new \in Seq(Frames) : new = Append(Front(stack), f) /\ Replaced(stack, new, f)
    BY StackFacts
  <2>7. stack' = new
    BY <2>1, <2>5, <2>6
  <2>8. NamesFit(f)
    <3>1. Len(names) \in Nat
      BY <2>4
    <3> QED
      BY <2>3, <2>4, <2>5, <3>1 DEF NamesFit
  <2>9. Path(new)
    BY <2>5, <2>6, <2>8, PathReplaced
  <2>10. DepthFits(new)
    <3>1. Len(stack) < Descriptors
      BY <1>3, OpenCountFacts DEF CanOpen
    <3> QED
      BY <2>5, <2>6, <3>1, DepthReplaced
  <2>11. \A m : InFuture(f, m) <=> m \in entries
    <3>1. \A j \in DOMAIN names : 1 <= j
      BY <2>4
    <3> QED
      BY <2>3, <2>4, <2>5, <3>1 DEF InFuture
  <2>12. ASSUME NEW q \in Nodes
         PROVE  /\ Pending(stack, q) <=> Pending(Front(stack), q) \/ Below(Frame.dir, q)
                /\ Pending(new, q) <=>
                     Pending(Front(stack), q) \/ \E m \in Above[q] : m \in entries
    <3>1. WillReach(Frame, q) <=> Below(Frame.dir, q)
      BY DEF WillReach
    <3>2. WillReach(f, q) <=> \E m \in Above[q] : m \in entries
      BY <2>5, <2>11 DEF WillReach
    <3>3. Pending(stack, q) <=> Pending(Front(stack), q) \/ WillReach(Frame, q)
      BY StackFacts, PendingFront
    <3> QED
      BY <2>6, <3>1, <3>2, <3>3, PendingReplaced
  <2>13. ASSUME NEW q \in Nodes PROVE Pending(new, q) => Pending(stack, q)
    <3>1. ASSUME NEW m \in Above[q], m \in entries PROVE Below(Frame.dir, q)
      BY <3>1, BelowChild
    <3> QED
      BY <2>12, <3>1
  <2>14. LinesFit(new, printed)
    BY <2>13, LinesKept
  <2>15. OrderFits(new, printed)
    <3>1. ASSUME "s" \in options PROVE FrameInOrder(f, printed)
      <4>1. ASSUME NEW i \in DOMAIN printed, NEW m \in Nodes, InFuture(f, m),
                   Up[printed[i]] = Up[m]
            PROVE  FALSE
        <5>1. printed[i] \in Nodes /\ ~Pending(stack, printed[i])
          BY DEF LinesFit
        <5>2. Up[printed[i]] = Frame.dir
          BY <2>11, <4>1
        <5>3. Below(Frame.dir, printed[i])
          BY <5>1, <5>2, AboveFacts, BelowChild
        <5> QED
          BY <2>12, <5>1, <5>3
      <4> QED
        BY <2>1, <2>5, <3>1, <4>1 DEF FrameInOrder
    <3> QED
      BY <2>6, <3>1, OrderReplaced
  <2>16. ASSUME NEW q \in Nodes, Reachable(q), Pending(stack, q) PROVE Pending(new, q)
    <3>1. CASE Below(Frame.dir, q)
      <4>1. PICK m \in Above[q] : Up[m] = Frame.dir
        BY <3>1, FrameFacts, ChildAbove
      <4>2. m \in existing
        BY <2>16 DEF Reachable, TypeOK
      <4> QED
        BY <2>12, <4>1, <4>2
    <3> QED
      BY <2>12, <2>16, <3>1
  <2>17. NothingForgottenAt(new, printed, ended')
    BY <2>16 DEF NothingForgotten, NothingForgottenAt
  <2>18. ended' = "no"
    BY <2>1
  <2> QED
    BY <2>7, <2>9, <2>10, <2>14, <2>15, <2>17, <2>18, WalkGoesOn
<1> QED
  BY <1>2, <1>3

\* The line of n: it is a later one than those of its siblings.
LEMMA OrderOfLine ==
  ASSUME WalkStrengthened, NEW st \in Seq(Frames), NEW new \in Seq(Frames), Path(st), Path(new),
         OrderFits(st, printed), NEW l \in DOMAIN st, st[l].at = "entry",
         st[l].i \in DOMAIN st[l].names,
         NEW n \in Nodes, n = st[l].names[st[l].i],
         OrderFits(new, printed), l \in DOMAIN new, new[l] = Onward(st[l])
  PROVE  OrderFits(new, Append(printed, n))
<1> SUFFICES ASSUME "s" \in options
             PROVE  /\ \A k \in DOMAIN new : FrameInOrder(new[k], Append(printed, n))
                    /\ \A i, j \in DOMAIN Append(printed, n) :
                         Up[Append(printed, n)[i]] = Up[Append(printed, n)[j]] /\ i < j =>
                           Rank[Append(printed, n)[i]] < Rank[Append(printed, n)[j]]
  BY DEF OrderFits
<1>1. printed \in Seq(Nodes)
  BY DEF WalkStrengthened, TypeOK
<1>2. PICK x \in Nat : x = Len(printed) /\ DOMAIN printed = 1..x
  BY <1>1
<1>3. /\ DOMAIN Append(printed, n) = 1..x + 1 /\ Append(printed, n)[x + 1] = n
      /\ \A i \in 1..x : Append(printed, n)[i] = printed[i]
      /\ \A i \in 1..x + 1 : i = x + 1 \/ i \in 1..x
  <2>1. /\ Append(printed, n) \in Seq(Nodes) /\ Len(Append(printed, n)) = x + 1
        /\ Append(printed, n)[x + 1] = n
        /\ \A i \in 1..x : Append(printed, n)[i] = printed[i]
    BY ONLY <1>1, <1>2, n \in Nodes, AppendProperties
  <2> QED
    BY ONLY <1>2, <2>1
<1>4. st[l] \in Frames /\ NamesFit(st[l]) /\ FrameInOrder(st[l], printed)
  BY DEF Path, OrderFits
<1>5. InFuture(st[l], n) /\ Up[n] = st[l].dir
  <2>1. st[l].i <= st[l].i
    BY <1>4, FrameFacts
  <2> QED
    BY <1>4, <2>1 DEF InFuture, NamesFit
<1>6. \A i \in 1..x : Up[printed[i]] = Up[n] => Rank[printed[i]] < Rank[n]
  BY <1>2, <1>4, <1>5 DEF FrameInOrder
<1>7. ASSUME NEW k \in DOMAIN new, NEW m \in Nodes, InFuture(new[k], m), Up[m] = Up[n]
      PROVE  Rank[n] < Rank[m]
  <2>1. NamesFit(new[k]) /\ Up[m] = new[k].dir
    BY <1>7 DEF Path, InFuture, NamesFit
  <2>2. /\ new[l].dir = st[l].dir /\ new[l].names = st[l].names /\ new[l].i = st[l].i + 1
    BY <1>4 DEF Onward, Frames
  <2>3. k = l
    <3>1. \A i, j \in DOMAIN new : new[i].dir = new[j].dir => i = j
      BY DEF Path
    <3> QED
      BY <1>5, <1>7, <2>1, <2>2, <3>1
  <2>4. PICK j \in DOMAIN st[l].names : st[l].i + 1 <= j /\ st[l].names[j] = m
    BY <1>7, <2>2, <2>3 DEF InFuture
  <2>5. st[l].i < j
    BY <1>4, <2>4, FrameFacts
  <2> QED
    BY <1>4, <2>4, <2>5 DEF FrameInOrder, InOrder
<1>8. ASSUME NEW k \in DOMAIN new PROVE FrameInOrder(new[k], Append(printed, n))
  <2>1. FrameInOrder(new[k], printed)
    BY DEF OrderFits
  <2> QED
    BY <1>2, <1>3, <1>7, <2>1 DEF FrameInOrder
<1>9. ASSUME NEW i \in 1..x + 1, NEW j \in 1..x + 1, i < j,
             Up[Append(printed, n)[i]] = Up[Append(printed, n)[j]]
      PROVE  Rank[Append(printed, n)[i]] < Rank[Append(printed, n)[j]]
  <2>1. i \in 1..x
    BY <1>9
  <2>2. CASE j = x + 1
    BY <1>3, <1>6, <1>9, <2>1, <2>2
  <2>3. CASE j \in 1..x
    BY <1>2, <1>3, <1>9, <2>1, <2>3 DEF OrderFits
  <2> QED
    BY <1>3, <2>2, <2>3
<1> QED
  BY <1>3, <1>8, <1>9

\* The call for n, when n is a directory, and what is pending through it.
LEMMA CallFacts ==
  ASSUME NEW n \in Nodes
  PROVE  /\ Call(n) \in Frames /\ NamesFit(Call(n)) /\ Call(n).dir = n /\ Call(n).at = "opendir"
         /\ \A lines : FrameInOrder(Call(n), lines)
         /\ \A q \in Nodes : WillReach(Call(n), q) <=> n \in Above[q] /\ n # q
<1>1. /\ Call(n) \in Frames /\ Call(n).dir = n /\ Call(n).at = "opendir"
      /\ Call(n).names = <<>> /\ Call(n).i = 1
  BY DEF Call, Frames, Steps
<1>2. NamesFit(Call(n))
  BY <1>1 DEF NamesFit
<1>3. \A lines : FrameInOrder(Call(n), lines)
  BY <1>1 DEF FrameInOrder, InOrder, InFuture
<1>4. n # Root
  BY DirWalkAssumption DEF DirWalkAssumption
<1>5. \A q \in Nodes : WillReach(Call(n), q) <=> n \in Above[q] /\ n # q
  BY <1>1, <1>4 DEF WillReach, Below
<1> QED
  BY <1>1, <1>2, <1>3, <1>5

LEMMA OrderLengthened ==
  ASSUME NEW st \in Seq(Frames), NEW new \in Seq(Frames), NEW f \in Frames,
         Lengthened(st, new, f), NEW lines, OrderFits(st, lines), FrameInOrder(f, lines)
  PROVE  OrderFits(new, lines)
<1>1. \A k \in DOMAIN new : new[k] = f \/ (k \in DOMAIN st /\ new[k] = st[k])
  BY DEF Lengthened
<1> QED
  BY <1>1 DEF OrderFits

LEMMA DepthLengthened ==
  ASSUME NEW st \in Seq(Frames), NEW new \in Seq(Frames), NEW f \in Frames,
         Lengthened(st, new, f), DepthFits(st), f.at = "opendir"
  PROVE  DepthFits(new)
<1>1. \A k \in DOMAIN new : new[k] = f \/ (k \in DOMAIN st /\ new[k] = st[k])
  BY DEF Lengthened
<1> QED
  BY <1>1 DEF DepthFits

\* The stack after the step: the place is one further, and a directory has its call.
LEMMA EntryStack ==
  ASSUME WalkStrengthened, Entry
  PROVE  \E n \in Nodes, mid \in Seq(Frames), new \in Seq(Frames) :
           /\ n = Frame.names[Frame.i] /\ Frame.i \in DOMAIN Frame.names
           /\ ~Pending(mid, n)
           /\ \A q \in Nodes : Pending(stack, q) <=> Pending(mid, q) \/ n \in Above[q]
           /\ stack' = new /\ Path(new) /\ DepthFits(new) /\ OrderFits(new, printed)
           /\ Len(stack) \in DOMAIN new /\ new[Len(stack)] = Onward(Frame)
           /\ \A q \in Nodes :
                Pending(new, q) <=>
                  \/ Pending(mid, q)
                  \/ Seen(n) /\ Kind[n] = "d" /\ n \in Above[q] /\ n # q
<1>1. Running("entry") /\ Frame.i <= Len(Frame.names)
  BY DEF Entry
<1> USE <1>1, RunningFacts
<1>2. PICK l \in Nat \ {0} : l = Len(stack) /\ stack[l] = Frame
  OBVIOUS
<1>3. PICK n \in Nodes : n = Frame.names[Frame.i] /\ Frame.i \in DOMAIN Frame.names
  BY OnwardFacts
<1>4. /\ Onward(Frame) \in Frames /\ Onward(Frame).at = "entry" /\ Onward(Frame).i = Frame.i + 1
      /\ Onward(Frame).names = Frame.names /\ Onward(Frame).dir = Frame.dir
      /\ \A m : InFuture(Onward(Frame), m) => InFuture(Frame, m)
  <2>1. PICK fr \in Frames : fr = Frame
    OBVIOUS
  <2>2. /\ Onward(fr).at = fr.at /\ Onward(fr).i = fr.i + 1 /\ Onward(fr).names = fr.names
        /\ Onward(fr).dir = fr.dir
    BY ONLY fr \in Frames DEF Onward, Frames
  <2>3. Onward(fr) \in Frames /\ \A m : InFuture(Onward(fr), m) => InFuture(fr, m)
    BY <1>3, <2>1, OnwardFacts
  <2> QED
    BY <2>1, <2>2, <2>3
<1>5. PICK mid \in Seq(Frames) :
        mid = Append(Front(stack), Onward(Frame)) /\ Replaced(stack, mid, Onward(Frame))
  BY <1>4, StackFacts
<1>6. /\ Path(mid) /\ ~Pending(mid, n)
      /\ \A q \in Nodes : Pending(stack, q) <=> Pending(mid, q) \/ n \in Above[q]
  <2>1. /\ stack \in Seq(Frames) /\ stack # <<>> /\ Path(stack) /\ Last(stack).at = "entry"
        /\ Last(stack).i <= Len(Last(stack).names) /\ n = Last(stack).names[Last(stack).i]
        /\ Replaced(stack, mid, Onward(Last(stack)))
    BY <1>3, <1>5
  <2> QED
    BY ONLY <2>1, ComeTo, mid \in Seq(Frames)
<1>7. DepthFits(mid)
  <2>1. Len(stack) < Descriptors
    BY DEF DepthFits
  <2> QED
    BY <1>4, <1>5, <2>1, DepthReplaced
<1>8. OrderFits(mid, printed)
  <2>1. "s" \in options => FrameInOrder(Onward(Frame), printed)
    <3>1. "s" \in options => FrameInOrder(Frame, printed)
      BY <1>2 DEF OrderFits
    <3> QED
      BY <1>4, <3>1 DEF FrameInOrder
  <2> QED
    BY <1>4, <1>5, <2>1, OrderReplaced
<1>9. /\ mid # <<>> /\ Len(mid) = l /\ DOMAIN mid = 1..l /\ mid[l] = Onward(Frame)
      /\ Last(mid) = Onward(Frame)
  BY <1>2, <1>5 DEF Replaced, Last
<1>10. stack' = IF Seen(n) /\ Kind[n] = "d" THEN Append(mid, Call(n)) ELSE mid
  <2>1. [Frame EXCEPT !.i = @ + 1] = Onward(Frame)
    BY DEF Onward
  <2> QED
    BY <1>3, <1>5, <2>1 DEF Entry
<1>11. CASE ~(Seen(n) /\ Kind[n] = "d")
  <2>1. stack' = mid
    BY <1>10, <1>11
  <2>2. l \in DOMAIN mid
    BY <1>9
  <2> QED
    BY <1>2, <1>3, <1>6, <1>7, <1>8, <1>9, <1>11, <2>1, <2>2
<1>12. CASE Seen(n) /\ Kind[n] = "d"
  <2>1. PICK new \in Seq(Frames) : new = Append(mid, Call(n)) /\ Lengthened(mid, new, Call(n))
    BY <1>9, CallFacts, StackFacts
  <2>2. stack' = new
    BY <1>10, <1>12, <2>1
  <2>3. Path(new)
    <3>1. Onward(Frame).i > 1 /\ Onward(Frame).names[Onward(Frame).i - 1] = n
      BY <1>3, <1>4, FrameFacts
    <3> QED
      <4>1. /\ Call(n) \in Frames /\ NamesFit(Call(n)) /\ Last(mid).at = "entry" /\ Last(mid).i > 1
            /\ Last(mid).names[Last(mid).i - 1] = Call(n).dir
        BY <1>4, <1>9, <3>1, CallFacts
      <4> QED
        BY ONLY <1>6, <1>9, <2>1, <4>1, PathLengthened, mid \in Seq(Frames)
  <2>4. DepthFits(new) /\ OrderFits(new, printed)
    BY <1>7, <1>8, <2>1, CallFacts, DepthLengthened, OrderLengthened
  <2>5. \A q \in Nodes : Pending(new, q) <=> Pending(mid, q) \/ (n \in Above[q] /\ n # q)
    <3>1. PICK f \in Frames : f = Call(n) /\ Lengthened(mid, new, f)
      BY <2>1, CallFacts
    <3>2. \A q \in Nodes : WillReach(f, q) <=> n \in Above[q] /\ n # q
      BY ONLY <3>1, n \in Nodes, CallFacts
    <3>3. \A q : Pending(new, q) <=> Pending(mid, q) \/ WillReach(f, q)
      BY ONLY <3>1, PendingLengthened, mid \in Seq(Frames), new \in Seq(Frames)
    <3> QED
      BY ONLY <3>2, <3>3
  <2>6. l \in DOMAIN new /\ new[l] = Onward(Frame)
    BY <1>9, <2>1 DEF Lengthened
  <2> QED
    BY <1>2, <1>3, <1>6, <1>12, <2>2, <2>3, <2>4, <2>5, <2>6
<1> QED
  BY <1>11, <1>12

LEMMA EntryPreserves == WalkStrengthened /\ Entry => WalkStrengthened'
<1> SUFFICES ASSUME WalkStrengthened, Entry PROVE WalkStrengthened'
  OBVIOUS
<1>1. Running("entry") /\ UNCHANGED <<options, ended, worldVars>>
  BY DEF Entry
<1> USE <1>1, RunningFacts
<1>2. PICK n \in Nodes, mid \in Seq(Frames), new \in Seq(Frames) :
        /\ n = Frame.names[Frame.i] /\ Frame.i \in DOMAIN Frame.names
        /\ ~Pending(mid, n)
        /\ \A q \in Nodes : Pending(stack, q) <=> Pending(mid, q) \/ n \in Above[q]
        /\ stack' = new /\ Path(new) /\ DepthFits(new) /\ OrderFits(new, printed)
        /\ Len(stack) \in DOMAIN new /\ new[Len(stack)] = Onward(Frame)
        /\ \A q \in Nodes :
             Pending(new, q) <=>
               \/ Pending(mid, q)
               \/ Seen(n) /\ Kind[n] = "d" /\ n \in Above[q] /\ n # q
  BY EntryStack
<1>3. ~Pending(new, n) /\ \A q \in Nodes : Pending(new, q) => Pending(stack, q)
  BY <1>2
<1>4. printed' = IF Seen(n) /\ Kind[n] \in Listed THEN Append(printed, n) ELSE printed
  BY <1>2 DEF Entry
\* What is lost from the pending is n itself, or has above it an entry that lstat does not find.
<1>5. ASSUME NEW q \in Nodes, Reachable(q), Pending(stack, q)
      PROVE  Pending(new, q) \/ (q = n /\ Seen(n) /\ Kind[n] \in Listed)
  <2>1. CASE Pending(mid, q)
    BY <1>2, <2>1
  <2>2. CASE n \in Above[q]
    <3>1. Seen(n)
      BY <1>5, <2>2 DEF Reachable, Public, Seen, TypeOK
    <3>2. CASE q = n
      BY <1>5, <3>1, <3>2 DEF Reachable
    <3>3. CASE q # n
      BY <1>2, <2>2, <3>1, <3>3, AboveIsSmaller
    <3> QED
      BY <3>2, <3>3
  <2> QED
    BY <1>2, <1>5, <2>1, <2>2
<1>6. CASE Seen(n) /\ Kind[n] \in Listed
  <2>1. PICK lines \in Seq(Nodes) :
          /\ lines = Append(printed, n) /\ DOMAIN lines = 1..Len(printed) + 1
          /\ lines[Len(printed) + 1] = n
          /\ \A i \in 1..Len(printed) : lines[i] = printed[i]
    <3>1. /\ Append(printed, n) \in Seq(Nodes) /\ Append(printed, n)[Len(printed) + 1] = n
          /\ Len(Append(printed, n)) = Len(printed) + 1
          /\ \A i \in 1..Len(printed) : Append(printed, n)[i] = printed[i]
      BY ONLY printed \in Seq(Nodes), n \in Nodes, AppendProperties
    <3>2. DOMAIN Append(printed, n) = 1..Len(printed) + 1
      BY <3>1
    <3> QED
      BY <3>1, <3>2
  <2>2. printed' = lines
    BY <1>4, <1>6, <2>1
  <2>3. LinesFit(new, lines)
    BY <1>2, <1>3, <1>6, <2>1, LineAdded
  <2>4. OrderFits(new, lines)
    <3>1. PICK l \in DOMAIN stack : /\ l = Len(stack) /\ stack[l] = Frame /\ l \in DOMAIN new
                                    /\ new[l] = Onward(stack[l])
      BY <1>2
    <3>2. /\ stack[l].at = "entry" /\ stack[l].i \in DOMAIN stack[l].names
          /\ n = stack[l].names[stack[l].i] /\ Path(stack) /\ OrderFits(stack, printed)
          /\ stack \in Seq(Frames) /\ Path(new) /\ OrderFits(new, printed)
      BY <1>2, <3>1
    <3>3. OrderFits(new, Append(printed, n))
      BY ONLY <3>1, <3>2, OrderOfLine, WalkStrengthened, new \in Seq(Frames), n \in Nodes
    <3> QED
      BY <2>1, <3>3
  <2>5. \A q \in Nodes : (\E i \in DOMAIN printed : printed[i] = q) \/ q = n =>
                           \E i \in DOMAIN lines : lines[i] = q
    <3>1. /\ DOMAIN printed = 1..Len(printed) /\ Len(printed) + 1 \in 1..Len(printed) + 1
          /\ 1..Len(printed) \subseteq 1..Len(printed) + 1
      OBVIOUS
    <3> QED
      BY <2>1, <3>1
  <2>6. NothingForgottenAt(new, lines, ended')
    BY <1>5, <2>5 DEF NothingForgotten, NothingForgottenAt
  <2> QED
    BY <1>2, <2>2, <2>3, <2>4, <2>6, WalkGoesOn
<1>7. CASE ~(Seen(n) /\ Kind[n] \in Listed)
  <2>1. printed' = printed
    BY <1>4, <1>7
  <2>2. LinesFit(new, printed)
    BY <1>3, LinesKept
  <2>3. NothingForgottenAt(new, printed, ended')
    BY <1>5, <1>7 DEF NothingForgotten, NothingForgottenAt
  <2> QED
    BY <1>2, <2>1, <2>2, <2>3, WalkGoesOn
<1> QED
  BY <1>6, <1>7

\* The other processes: what is stable gets less, and less is owed.
LEMMA WorldPreserves ==
  ASSUME WalkStrengthened, NEW n \in Nodes, Unlink(n) \/ Create(n)
  PROVE  WalkStrengthened'
<1>1. /\ UNCHANGED <<options, walkVars>> /\ stable' \subseteq stable
      /\ stable' \subseteq existing' /\ existing' \subseteq Nodes
      /\ changes < MaxChanges /\ changes' = changes + 1
  BY DEF Unlink, Create, Change, WalkStrengthened, TypeOK
<1>2. TypeOK
  BY DEF WalkStrengthened
<1>3. TypeOK'
  <2>1. changes' \in 0..MaxChanges
    BY <1>1, <1>2, DirWalkAssumption DEF TypeOK, DirWalkAssumption
  <2> QED
    BY <1>1, <1>2, <2>1 DEF TypeOK, walkVars
<1>4. \A q \in Nodes : Reachable(q)' => Reachable(q)
  BY <1>1 DEF Reachable, Listed, Public, walkVars
<1>5. NothingForgotten(stack, printed)'
  BY <1>1, <1>4 DEF WalkStrengthened, NothingForgotten, Pending, walkVars
<1>6. /\ Path(stack)' /\ DepthFits(stack)' /\ LinesFit(stack, printed)'
      /\ OrderFits(stack, printed)'
  <2>1. stack' = stack /\ printed' = printed /\ options' = options /\ Listed' = Listed
    BY <1>1 DEF walkVars, Listed
  <2>2. Path(stack)'
    BY <2>1 DEF WalkStrengthened, Path
  <2>3. DepthFits(stack)'
    BY <2>1 DEF WalkStrengthened, DepthFits
  <2>4. LinesFit(stack, printed)'
    BY <2>1 DEF WalkStrengthened, LinesFit, Pending
  <2>5. OrderFits(stack, printed)'
    BY <2>1 DEF WalkStrengthened, OrderFits
  <2> QED
    BY <2>2, <2>3, <2>4, <2>5
<1> QED
  BY <1>1, <1>3, <1>5, <1>6 DEF WalkStrengthened, walkVars

LEMMA WalkStep == WalkStrengthened /\ [Next]_vars => WalkStrengthened'
<1> SUFFICES ASSUME WalkStrengthened, [Next]_vars PROVE WalkStrengthened'
  OBVIOUS
<1>1. CASE Walk
  BY <1>1, OpendirPreserves, ScandirPreserves, EntryPreserves, ClosedirPreserves, ExitPreserves
     DEF Walk
<1>2. CASE \E n \in Nodes : Unlink(n) \/ Create(n)
  BY <1>2, WorldPreserves
<1>3. CASE UNCHANGED vars
  <2>1. UNCHANGED <<options, stack, printed, ended, existing, changes, stable>>
    BY <1>3 DEF vars, walkVars, worldVars
  <2> QED
    BY <2>1 DEF WalkStrengthened, TypeOK, Path, DepthFits, LinesFit, OrderFits, NothingForgotten,
                Pending, Reachable, Public, Listed
<1> QED
  BY <1>1, <1>2, <1>3 DEF Next

LEMMA WalkInvariantFollows == WalkStrengthened => WalkInvariant
<1> SUFFICES ASSUME WalkStrengthened PROVE WalkInvariant
  OBVIOUS
<1>1. /\ TypeOK /\ stack \in Seq(Frames) /\ Path(stack) /\ DepthFits(stack)
      /\ LinesFit(stack, printed)
  BY DEF WalkStrengthened
<1>2. OpenCount <= Descriptors
  <2>1. CASE stack = <<>>
    <3>1. {k \in DOMAIN stack : stack[k].at # "opendir"} = {}
      BY <2>1
    <3>2. OpenCount = 0
      BY <3>1, FS_EmptySet DEF OpenCount
    <3> QED
      BY <3>2, DirWalkAssumption DEF DirWalkAssumption
  <2> QED
    BY <1>1, <2>1, OpenCountFacts
<1>3. ASSUME NEW k \in 2..Len(stack) PROVE Up[stack[k].dir] = stack[k - 1].dir
  <2>1. k - 1 \in 1..Len(stack) - 1 /\ (k - 1) + 1 = k
    BY <1>1
  <2> QED
    BY <1>1, <2>1, PathDown
<1> QED
  BY <1>1, <1>2, <1>3 DEF WalkInvariant, LinesFit

LEMMA WalkIsCompleteFollows == WalkStrengthened => WalkIsComplete
<1> SUFFICES ASSUME WalkStrengthened, ended = "success" PROVE WalkIsComplete
  BY DEF WalkIsComplete
<1>1. \A n : ~Pending(stack, n)
  BY DEF WalkStrengthened, Pending
<1>2. \A n \in Nodes : Reachable(n) => \E i \in DOMAIN printed : printed[i] = n
  BY <1>1 DEF WalkStrengthened, NothingForgotten
<1> QED
  BY <1>2 DEF WalkStrengthened, OrderFits, Reachable, WalkIsComplete

LEMMA WalkAlways == Spec => []WalkStrengthened
<1>1. Init => WalkStrengthened
  BY WalkInit
<1>2. WalkStrengthened /\ [Next]_vars => WalkStrengthened'
  BY WalkStep
<1> QED
  BY <1>1, <1>2, PTL DEF Spec

(***************************************************************************)
(* Whatever the tree is and whatever other processes change in it, no      *)
(* entry is written twice, a directory comes before what is below it, the  *)
(* open calls are a way down from the root, and as many files are open as  *)
(* may be.                                                                 *)
(***************************************************************************)
THEOREM NothingTwice == Spec => []WalkInvariant
<1>1. WalkStrengthened => WalkInvariant
  BY WalkInvariantFollows
<1> QED
  BY <1>1, WalkAlways, PTL

(***************************************************************************)
(* A walk that ends with success has written all that was there the whole  *)
(* time, as far as lstat finds it and its directories may be opened: for   *)
(* any tree, any number of descriptors and any changes, an entry that goes *)
(* while it is reached, one that lstat does not find and a directory that  *)
(* may not be opened cost nothing but themselves and what is below them.   *)
(***************************************************************************)
THEOREM ListsAreComplete == Spec => []WalkIsComplete
<1>1. WalkStrengthened => WalkIsComplete
  BY WalkIsCompleteFollows
<1> QED
  BY <1>1, WalkAlways, PTL

=============================================================================
