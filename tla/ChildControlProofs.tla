------------------------ MODULE ChildControlProofs -------------------------
(***************************************************************************)
(* Proofs about Lab3.  For parent.c, for any number of children and        *)
(* commands: the parent always has somebody to wait for, 'q' leaves nobody *)
(* behind, and the children do as they were told last.  For child.c, for   *)
(* every MAX_ITERATIONS: the counters and the reports are right wherever a *)
(* tick or an order falls.                                                 *)
(***************************************************************************)
EXTENDS ChildControlProperties, ChildStat, FiniteSetTheorems, SequenceTheorems, TLAPS

\* Where the parent is within a command fits the command.
PlaceFits ==
  /\ pc \in {"setTimer", "prompt", "grant", "ignore"} => input.key = "p"
  /\ pc = "kill" => input.key \in {"k", "q"}
  /\ pc = "wait" => input.key \in {"-", "k", "q"}
  /\ pc = "kill" \/ (pc = "wait" /\ input.key # "-") => left = Len(childPidMas)
  /\ pc = "exited" /\ input.key = "q" => childPidMas = <<>>

\* Children are numbered in the order of their launches.
LaunchedInOrder == \E n \in 0..MaxLaunches : Launched = 1..n

\* A child that is no longer in the list, or on his way out of it, owes the parent
\* an end to wait for.
Doomed(c) == state[c] = "dead" \/ "TERM" \in pending[c]
RemovedAreDoomed == \A c \in Unreaped \ Listed : Doomed(c)

\* While remove_child waits there is one child more than the list has.
EnoughChildren ==
  Cardinality(Unreaped) >= Len(childPidMas) + (IF pc = "wait" THEN 1 ELSE 0)

ControlStrengthened ==
  TypeOK /\ PlaceFits /\ LaunchedInOrder /\ RemovedAreDoomed /\ EnoughChildren

-----------------------------------------------------------------------------
(* What the children will do once they have heard everything. *)

\* What c's permission will be when its pending signals are delivered.
Heading(c) == "USR1" \in pending[c] \/ ("USR2" \notin pending[c] /\ permission[c])

\* The children a command under way has still to send a signal.
Awaiting ==
  {c \in Pids : \/ pc = "send" /\ c \in Range(todo)
                \/ pc = "grant" /\ c = childPidMas[input.num + 1]}

OneOrderPending == \A c \in Pids \ mixed : ~({"USR1", "USR2"} \subseteq pending[c])

\* Nobody has told a child anything before its launch.
Unlaunched ==
  \A c \in Pids : state[c] = "none" => told[c] /\ permission[c] /\ pending[c] = {}

\* A timer that will allow everybody belongs to a 'p' whose prompt is not over, or a
\* later order has overtaken it.
TimerFits ==
  /\ timer /\ alarm = "allow" =>
       due \in {"open", "overtaken"} \/ (due = "granted" /\ pc \in {"grant", "ignore"})
  /\ pc = "send" /\ todo # <<>> => due \in {"none", "overtaken"}

OrdersFit ==
  ~stale =>
    /\ pc = "send" => \A c \in Range(todo) : told[c] <=> order = "USR1"
    /\ pc = "grant" => told[childPidMas[input.num + 1]]
    /\ \A c \in Listed \ (mixed \cup Awaiting) : Alive(c) => (Heading(c) <=> told[c])

ObeyStrengthened ==
  /\ ControlStrengthened /\ Listed \subseteq Launched
  /\ OneOrderPending /\ Unlaunched /\ TimerFits /\ OrdersFit

-----------------------------------------------------------------------------
(* Lists. *)

LEMMA RangeFacts ==
  ASSUME NEW S, NEW s \in Seq(S)
  PROVE  Range(s) = {s[i] : i \in 1..Len(s)} /\ Range(s) \subseteq S
<1>1. DOMAIN s = 1..Len(s) /\ \A i \in 1..Len(s) : s[i] \in S
  BY ElementOfSeq
<1> QED
  BY <1>1 DEF Range

LEMMA AppendRange ==
  ASSUME NEW S, NEW s \in Seq(S), NEW e \in S
  PROVE  Range(Append(s, e)) = Range(s) \cup {e}
<1>1. /\ Append(s, e) \in Seq(S) /\ Len(Append(s, e)) = Len(s) + 1 /\ Len(s) \in Nat
      /\ Append(s, e)[Len(s) + 1] = e /\ \A i \in 1..Len(s) : Append(s, e)[i] = s[i]
  BY AppendProperties
<1>2. Range(Append(s, e)) = {Append(s, e)[i] : i \in 1..Len(s) + 1}
  BY <1>1, RangeFacts
<1>3. \A i \in 1..Len(s) + 1 : i \in 1..Len(s) \/ i = Len(s) + 1
  BY <1>1
<1>4. Len(s) + 1 \in 1..Len(s) + 1 /\ \A i \in 1..Len(s) : i \in 1..Len(s) + 1
  BY <1>1
<1> QED
  BY <1>1, <1>2, <1>3, <1>4, RangeFacts

LEMMA FrontRange ==
  ASSUME NEW S, NEW s \in Seq(S), s # <<>>
  PROVE  /\ Front(s) \in Seq(S) /\ Len(Front(s)) = Len(s) - 1 /\ Last(s) \in Range(s)
         /\ Range(s) = Range(Front(s)) \cup {Last(s)}
<1>1. Len(s) \in Nat \ {0} /\ Last(s) = s[Len(s)] /\ Front(s) = SubSeq(s, 1, Len(s) - 1)
  BY EmptySeq DEF Last, Front
<1>2. /\ Front(s) \in Seq(S) /\ Len(Front(s)) = Len(s) - 1
      /\ \A i \in 1..Len(s) - 1 : Front(s)[i] = s[i]
  <2>1. PICK n \in Nat : Len(s) = n + 1
    <3>1. Len(s) - 1 \in Nat /\ Len(s) = (Len(s) - 1) + 1
      BY <1>1
    <3> QED
      BY <3>1
  <2>2. Len(s) - 1 = n /\ \A i \in 1..n : s[i] \in S
    BY <2>1, ElementOfSeq
  <2>3. /\ SubSeq(s, 1, n) \in Seq(S) /\ Len(SubSeq(s, 1, n)) = n
        /\ \A i \in 1..n : SubSeq(s, 1, n)[i] = s[i]
    BY <2>2, SubSeqProperties
  <2> QED
    BY <1>1, <2>2, <2>3
<1>3. /\ \A i \in 1..Len(s) : i \in 1..Len(s) - 1 \/ i = Len(s)
      /\ Len(s) \in 1..Len(s) /\ \A i \in 1..Len(s) - 1 : i \in 1..Len(s)
  BY <1>1
<1>4. Range(s) = {s[i] : i \in 1..Len(s)} /\ Range(Front(s)) = {Front(s)[i] : i \in 1..Len(s) - 1}
  BY <1>2, RangeFacts
<1> QED
  BY <1>1, <1>2, <1>3, <1>4

LEMMA TailRange ==
  ASSUME NEW S, NEW s \in Seq(S), s # <<>>
  PROVE  /\ Head(s) \in Range(s) /\ Tail(s) \in Seq(S)
         /\ Range(s) = Range(Tail(s)) \cup {Head(s)}
<1>1. /\ Len(s) \in Nat \ {0} /\ Head(s) = s[1] /\ Tail(s) \in Seq(S)
      /\ Len(Tail(s)) = Len(s) - 1 /\ \A i \in 1..Len(s) - 1 : Tail(s)[i] = s[i + 1]
  BY EmptySeq, HeadTailProperties
<1>2. /\ \A i \in 1..Len(s) : i = 1 \/ i - 1 \in 1..Len(s) - 1
      /\ 1 \in 1..Len(s) /\ \A i \in 1..Len(s) - 1 : i + 1 \in 1..Len(s)
  BY <1>1
<1>3. Range(s) = {s[i] : i \in 1..Len(s)} /\ Range(Tail(s)) = {Tail(s)[i] : i \in 1..Len(s) - 1}
  BY <1>1, RangeFacts
<1>4. Head(s) \in Range(s)
  BY <1>1, <1>2, <1>3
<1>5. ASSUME NEW x \in Range(Tail(s)) PROVE x \in Range(s)
  <2>1. PICK i \in 1..Len(s) - 1 : x = Tail(s)[i]
    BY <1>3
  <2>2. x = s[i + 1] /\ i + 1 \in 1..Len(s)
    BY <1>1, <1>2, <2>1
  <2> QED
    BY <1>3, <2>2
<1>6. ASSUME NEW x \in Range(s) PROVE x \in Range(Tail(s)) \cup {Head(s)}
  <2>1. PICK i \in 1..Len(s) : x = s[i]
    BY <1>3
  <2>2. CASE i = 1
    BY <1>1, <2>1, <2>2
  <2>3. CASE i # 1
    <3>1. i - 1 \in 1..Len(s) - 1 /\ (i - 1) + 1 = i
      BY <1>2, <2>3
    <3>2. x = Tail(s)[i - 1]
      BY <1>1, <2>1, <3>1
    <3> QED
      BY <1>3, <3>1, <3>2
  <2> QED
    BY <2>2, <2>3
<1> QED
  BY ONLY <1>1, <1>4, <1>5, <1>6

\* A list has no more children than places.
LEMMA RangeBound ==
  ASSUME NEW S, NEW s \in Seq(S)
  PROVE  IsFiniteSet(Range(s)) /\ Cardinality(Range(s)) <= Len(s)
<1>1. Len(s) \in Nat /\ IsFiniteSet(1..Len(s)) /\ Cardinality(1..Len(s)) = Len(s)
  <2>1. Len(s) \in Nat /\ Len(s) \in Int /\ 1 \in Int
    OBVIOUS
  <2>2. /\ IsFiniteSet(1..Len(s))
        /\ Cardinality(1..Len(s)) = IF 1 > Len(s) THEN 0 ELSE Len(s) - 1 + 1
    BY ONLY <2>1, FS_Interval
  <2> QED
    BY <2>1, <2>2
<1>2. s \in [1..Len(s) -> Range(s)] /\ \A x \in Range(s) : \E i \in 1..Len(s) : s[i] = x
  BY RangeFacts
<1>3. s \in Surjection(1..Len(s), Range(s))
  BY <1>2 DEF Surjection
<1> QED
  BY <1>1, <1>3, FS_Surjection

-----------------------------------------------------------------------------
(* Types. *)

LEMMA NextCases ==
  ASSUME [Next]_vars
  PROVE  \/ \E cmd \in Commands : Do(cmd)
         \/ Send \/ Sent \/ KillLast \/ AllRemoved \/ Wait \/ SetTimer
         \/ (\E g \in BOOLEAN : Answer(g)) \/ Grant \/ IgnoreAlarm \/ Alarm
         \/ \E c \in Pids : Child(c)
         \/ UNCHANGED vars
  BY DEF Next, Parent, Command, CommandAgain

LEMMA CommandFacts ==
  ASSUME NEW cmd \in Commands
  PROVE  /\ cmd.key \in {"+", "-", "k", "q", "s", "g", "p"}
         /\ cmd.key = "p" => cmd.num \in 0..Limit
         /\ cmd.num \in {AllChildren} \cup 0..Limit
  BY ChildControlAssumption DEF ChildControlAssumption, Commands, AllKeys

\* What kill leaves alone, and whom it reaches.
LEMMA KillFacts ==
  ASSUME TypeOK, NEW cs \in SUBSET Pids, NEW s \in Signals, KillAll(cs, s)
  PROVE  /\ state' = state /\ permission' = permission
         /\ pending' \in [Pids -> SUBSET Signals] /\ mixed' \subseteq Pids
         /\ \A c \in Pids :
              pending'[c] = IF c \in cs /\ Alive(c) THEN pending[c] \cup {s} ELSE pending[c]
  BY DEF TypeOK, KillAll

\* The children of a list, of its first places and of its end.
LEMMA ListFacts ==
  ASSUME TypeOK
  PROVE  /\ Len(childPidMas) \in Nat /\ Listed \subseteq Pids /\ Range(todo) \subseteq Pids
         /\ \A i \in 1..Len(childPidMas) : childPidMas[i] \in Listed
         /\ childPidMas = <<>> <=> Len(childPidMas) = 0
  BY RangeFacts, EmptySeq DEF TypeOK, Listed

LEMMA TypeInit == Init => TypeOK
<1> SUFFICES ASSUME Init PROVE TypeOK
  OBVIOUS
<1>1. childPidMas \in Seq(Pids) /\ todo \in Seq(Pids) /\ Len(childPidMas) = 0
  BY DEF Init
<1>2. left \in 0..Limit + 1 /\ done \in 0..MaxCommands /\ Len(childPidMas) <= Limit + 1
  BY <1>1, ChildControlAssumption DEF ChildControlAssumption, Init
<1>3. /\ state \in [Pids -> States] /\ pending \in [Pids -> SUBSET Signals]
      /\ permission \in [Pids -> BOOLEAN] /\ told \in [Pids -> BOOLEAN]
  BY DEF Init, States
<1> QED
  BY <1>1, <1>2, <1>3 DEF Init, TypeOK, PCs

\* The number of the next child is in bounds.
LEMMA NextIsFree ==
  ASSUME Launched # Pids
  PROVE  Cardinality(Launched) + 1 \in Pids
<1>1. IsFiniteSet(Pids) /\ Cardinality(Pids) = MaxLaunches
  <2>1. 1 \in Int /\ MaxLaunches \in Int /\ MaxLaunches \in Nat
    BY ChildControlAssumption DEF ChildControlAssumption
  <2>2. /\ IsFiniteSet(1..MaxLaunches)
        /\ Cardinality(1..MaxLaunches) = IF 1 > MaxLaunches THEN 0 ELSE MaxLaunches - 1 + 1
    BY ONLY <2>1, FS_Interval
  <2> QED
    BY <2>1, <2>2 DEF Pids
<1>2. Launched \in SUBSET Pids
  BY DEF Launched
<1> DEFINE n == Cardinality(Launched)
<1>3. n \in Nat /\ n <= MaxLaunches /\ n # MaxLaunches
  BY <1>1, <1>2, FS_Subset, FS_CardinalityType
<1> HIDE DEF n
<1> QED
  BY <1>3, ChildControlAssumption DEF ChildControlAssumption, Pids, n

\* RemoveLast, the common part of '-', 'k' and 'q'.
LEMMA RemoveLastFacts ==
  ASSUME TypeOK, RemoveLast, childPidMas # <<>>
  PROVE  /\ childPidMas' \in Seq(Pids) /\ Len(childPidMas') = Len(childPidMas) - 1
         /\ Last(childPidMas) \in Listed /\ Listed = Listed' \cup {Last(childPidMas)}
         /\ KillAll({Last(childPidMas)}, "TERM") /\ pc' = "wait"
  BY FrontRange DEF TypeOK, RemoveLast, Listed

LEMMA TypeDo ==
  ASSUME TypeOK, NEW cmd \in Commands, Do(cmd)
  PROVE  TypeOK'
<1> USE DEF killVars, childVars, timerVars, userVars
<1>1. done' \in 0..MaxCommands /\ input' \in Commands /\ pc = "menu"
  BY ChildControlAssumption DEF ChildControlAssumption, Do, TypeOK
<1>2. CASE Launch
  <2> DEFINE c == Cardinality(Launched) + 1
  <2>1. c \in Pids
    BY <1>2, NextIsFree DEF Launch
  <2>2. state' \in [Pids -> States] /\ childPidMas' = Append(childPidMas, c)
    BY <1>2 DEF Launch, TypeOK, States
  <2> HIDE DEF c
  <2>3. childPidMas' \in Seq(Pids) /\ Len(childPidMas') = Len(childPidMas) + 1
    BY <2>1, <2>2, AppendProperties DEF TypeOK
  <2> QED
    BY <1>1, <1>2, <2>2, <2>3, ListFacts, ChildControlAssumption
       DEF ChildControlAssumption, Launch, TypeOK
<1>3. CASE LaunchFails
  BY <1>1, <1>3 DEF LaunchFails, TypeOK, PCs
<1>4. CASE RemoveChild
  <2>1. left' = 0 /\ UNCHANGED <<order, todo, timer, alarm, told, due, stale>>
    BY <1>4 DEF RemoveChild
  <2>2. CASE childPidMas = <<>>
    BY <1>1, <1>4, <2>1, <2>2, ChildControlAssumption
       DEF ChildControlAssumption, RemoveChild, TypeOK
  <2>3. CASE childPidMas # <<>>
    <3>1. RemoveLast
      BY <1>4, <2>3 DEF RemoveChild
    <3>2. /\ childPidMas' \in Seq(Pids) /\ Len(childPidMas') = Len(childPidMas) - 1
          /\ KillAll({Last(childPidMas)}, "TERM") /\ pc' = "wait"
          /\ {Last(childPidMas)} \in SUBSET Pids
      BY <2>3, <3>1, RemoveLastFacts, ListFacts
    <3>3. UNCHANGED <<state, permission>> /\ pending' \in [Pids -> SUBSET Signals] /\ mixed' \subseteq Pids
      BY <3>2, KillFacts DEF Signals
    <3> QED
      BY <1>1, <2>1, <3>2, <3>3, ChildControlAssumption
         DEF ChildControlAssumption, TypeOK, PCs
  <2> QED
    BY <2>2, <2>3
<1>5. CASE RemoveAll
  BY <1>1, <1>5, ListFacts DEF RemoveAll, TypeOK, PCs
<1>6. ASSUME NEW s \in {"USR1", "USR2"}, Output(s, cmd.num) PROVE TypeOK'
  <2>1. todo' \in Seq(Pids)
    <3>1. CASE cmd.num # AllChildren /\ cmd.num < Len(childPidMas)
      <4>1. cmd.num + 1 \in 1..Len(childPidMas)
        BY <3>1, CommandFacts, ListFacts, ChildControlAssumption DEF ChildControlAssumption
      <4>2. childPidMas[cmd.num + 1] \in Pids
        BY <4>1, ElementOfSeq DEF TypeOK
      <4> QED
        BY <1>6, <3>1, <4>2 DEF Output
    <3> QED
      BY <1>6, <3>1 DEF Output, TypeOK
  <2> QED
    BY <1>1, <1>6, <2>1 DEF Output, Overtaken, TypeOK, PCs
<1>7. CASE HandlingPressingP
  BY <1>1, <1>7 DEF HandlingPressingP, Overtaken, TypeOK, PCs
<1> QED
  BY <1>2, <1>3, <1>4, <1>5, <1>6, <1>7 DEF Do

\* A command carries out a number only for a child of the list.
LEMMA ChosenChild ==
  ASSUME TypeOK, PlaceFits, pc \in {"setTimer", "prompt", "grant"}
  PROVE  input.num + 1 \in 1..Len(childPidMas) /\ childPidMas[input.num + 1] \in Listed
<1>1. input \in Commands /\ input.key = "p" /\ input.num < Len(childPidMas)
  BY DEF TypeOK, PlaceFits, NoCommand
<1>2. input.num \in Nat
  BY <1>1, CommandFacts, ChildControlAssumption DEF ChildControlAssumption
<1> QED
  BY <1>1, <1>2, ListFacts

LEMMA TypeStep == TypeOK /\ PlaceFits /\ [Next]_vars => TypeOK'
<1> SUFFICES ASSUME TypeOK, PlaceFits, [Next]_vars PROVE TypeOK'
  OBVIOUS
<1> USE DEF killVars, childVars, timerVars, userVars
<1>1. CASE \E cmd \in Commands : Do(cmd)
  BY <1>1, TypeDo
<1>2. CASE Send
  <2>1. Head(todo) \in Pids /\ Tail(todo) \in Seq(Pids)
    BY <1>2, TailRange, ListFacts DEF Send, TypeOK
  <2>2. KillAll({Head(todo)}, order) /\ {Head(todo)} \in SUBSET Pids /\ order \in Signals
    BY <1>2, <2>1 DEF Send, TypeOK, Signals
  <2>3. /\ UNCHANGED <<state, permission>>
        /\ pending' \in [Pids -> SUBSET Signals] /\ mixed' \subseteq Pids
    BY <2>2, KillFacts
  <2> QED
    BY <1>2, <2>1, <2>3 DEF Send, TypeOK
<1>3. CASE Sent
  BY <1>3 DEF Sent, TypeOK, PCs
<1>4. CASE KillLast
  <2>1. RemoveLast /\ childPidMas # <<>>
    BY <1>4, ListFacts DEF KillLast, PlaceFits
  <2>2. /\ childPidMas' \in Seq(Pids) /\ Len(childPidMas') = Len(childPidMas) - 1
        /\ KillAll({Last(childPidMas)}, "TERM") /\ pc' = "wait"
        /\ {Last(childPidMas)} \in SUBSET Pids
    BY <2>1, RemoveLastFacts, ListFacts
  <2>3. /\ UNCHANGED <<state, permission>>
        /\ pending' \in [Pids -> SUBSET Signals] /\ mixed' \subseteq Pids
    BY <2>2, KillFacts DEF Signals
  <2>4. left' \in 0..Limit + 1 /\ Len(childPidMas') <= Limit + 1
    BY <1>4, <2>2, ListFacts, ChildControlAssumption
       DEF ChildControlAssumption, KillLast, TypeOK
  <2> QED
    BY <1>4, <2>2, <2>3, <2>4 DEF KillLast, TypeOK, PCs
<1>5. CASE AllRemoved
  BY <1>5 DEF AllRemoved, TypeOK, PCs
<1>6. CASE Wait
  <2>1. state' \in [Pids -> States]
    BY <1>6 DEF Wait, TypeOK, States
  <2> QED
    BY <1>6, <2>1 DEF Wait, AfterWait, TypeOK, PCs
<1>7. CASE SetTimer
  BY <1>7 DEF SetTimer, TypeOK, PCs
<1>8. ASSUME NEW g \in BOOLEAN, Answer(g) PROVE TypeOK'
  <2>1. told' \in [Pids -> BOOLEAN]
    BY <1>8 DEF Answer, TypeOK
  <2> QED
    BY <1>8, <2>1 DEF Answer, TypeOK, PCs
<1>9. CASE Grant
  <2>1. /\ KillAll({childPidMas[input.num + 1]}, "USR1")
        /\ {childPidMas[input.num + 1]} \in SUBSET Pids
    BY <1>9, ChosenChild, ListFacts DEF Grant
  <2>2. /\ UNCHANGED <<state, permission>>
        /\ pending' \in [Pids -> SUBSET Signals] /\ mixed' \subseteq Pids
    BY <2>1, KillFacts DEF Signals
  <2> QED
    BY <1>9, <2>2 DEF Grant, TypeOK, PCs
<1>10. CASE IgnoreAlarm
  BY <1>10 DEF IgnoreAlarm, TypeOK, PCs
<1>11. CASE Alarm /\ alarm # "allow"
  BY <1>11 DEF Alarm, TypeOK
<1>12. CASE Alarm /\ alarm = "allow"
  <2>1. KillAll(Listed, "USR1") /\ Listed \in SUBSET Pids /\ AllowAllForSignal
    BY <1>12, ListFacts DEF Alarm, AllowAllForSignal
  <2>2. /\ UNCHANGED <<state, permission>>
        /\ pending' \in [Pids -> SUBSET Signals] /\ mixed' \subseteq Pids
    BY <2>1, KillFacts DEF Signals
  <2>3. told' \in [Pids -> BOOLEAN] /\ stale' \in BOOLEAN
    BY <2>1 DEF AllowAllForSignal, TypeOK
  <2>4. /\ pc' \in PCs
        /\ pc' \in {"setTimer", "prompt", "grant"} => pc \in {"setTimer", "prompt", "grant"}
    BY <2>1 DEF AllowAllForSignal, Interrupted, AfterWait, TypeOK, PCs
  <2>5. due' \in {"none", "open", "granted", "overtaken"}
    BY <2>1 DEF AllowAllForSignal, TypeOK
  <2> QED
    BY <1>12, <2>2, <2>3, <2>4, <2>5 DEF Alarm, TypeOK
<1>13. ASSUME NEW c \in Pids, Child(c) PROVE TypeOK'
  <2>1. CASE Starts(c)
    BY <2>1, ZenonT(40) DEF Starts, ChildStep, TypeOK, States
  <2>2. CASE \E s \in Signals : Deliver(c, s)
    BY <2>2, ZenonT(40) DEF Deliver, TypeOK, States
  <2> QED
    BY <1>13, <2>1, <2>2 DEF Child
<1>14. CASE UNCHANGED vars
  BY <1>14 DEF vars, TypeOK
<1> QED
  BY <1>1, <1>2, <1>3, <1>4, <1>5, <1>6, <1>7, <1>8, <1>9, <1>10, <1>11, <1>12, <1>13,
     <1>14, NextCases

LEMMA PlaceInit == Init => PlaceFits
  BY DEF Init, PlaceFits

LEMMA PlaceStep == TypeOK /\ PlaceFits /\ [Next]_vars => PlaceFits'
<1> SUFFICES ASSUME TypeOK, PlaceFits, [Next]_vars PROVE PlaceFits'
  OBVIOUS
<1> USE DEF PlaceFits
<1>1. ASSUME NEW cmd \in Commands, Do(cmd) PROVE PlaceFits'
  <2>1. pc = "menu" /\ input' = cmd
    BY <1>1 DEF Do
  <2>2. CASE cmd.key = "+"
    BY <1>1, <2>1, <2>2 DEF Do, Launch, LaunchFails
  <2>3. CASE cmd.key = "-"
    BY <1>1, <2>1, <2>3 DEF Do, RemoveChild, RemoveLast
  <2>4. CASE cmd.key \in {"k", "q"}
    BY <1>1, <2>1, <2>4 DEF Do, RemoveAll
  <2>5. CASE cmd.key \in {"s", "g", "p"}
    BY <1>1, <2>1, <2>5 DEF Do, Output, HandlingPressingP
  <2> QED
    BY <2>2, <2>3, <2>4, <2>5, CommandFacts
<1>2. CASE KillLast
  <2>1. RemoveLast /\ childPidMas # <<>> /\ left' = left - 1 /\ input' = input
    BY <1>2, ListFacts DEF KillLast
  <2>2. Len(childPidMas') = Len(childPidMas) - 1 /\ pc' = "wait"
    BY <2>1, RemoveLastFacts
  <2> QED
    BY <1>2, <2>1, <2>2 DEF KillLast
<1>3. CASE AllRemoved
  BY <1>3, ListFacts DEF AllRemoved
<1>4. CASE Send \/ Sent \/ Wait \/ SetTimer \/ Grant \/ IgnoreAlarm \/ \E g \in BOOLEAN : Answer(g)
  BY <1>4 DEF Send, Sent, Wait, AfterWait, SetTimer, Grant, IgnoreAlarm, Answer
<1>5. CASE Alarm
  <2>1. UNCHANGED <<childPidMas, input, left>> /\ pc # "exited"
    BY <1>5 DEF Alarm
  <2>2. pc' \in Interrupted
    BY <1>5 DEF Alarm, AllowAllForSignal, Interrupted, userVars
  <2> QED
    BY <2>1, <2>2 DEF Interrupted, AfterWait
<1>6. ASSUME NEW c \in Pids, Child(c) PROVE PlaceFits'
  BY <1>6 DEF Child, Starts, ChildStep, Deliver
<1>7. CASE UNCHANGED vars
  BY <1>7 DEF vars
<1> QED
  BY <1>1, <1>2, <1>3, <1>4, <1>5, <1>6, <1>7, NextCases

-----------------------------------------------------------------------------
(* The list, the signals under way and the children keep in step. *)

\* A step that neither launches nor removes nor reaps a child.
Keeps ==
  /\ childPidMas' = childPidMas
  /\ Launched' = Launched /\ Unreaped' = Unreaped
  /\ \A c \in Unreaped : Doomed(c) => Doomed(c)'
  /\ pc' = "wait" => pc = "wait"

\* kill neither starts nor ends a child, and takes no signal back.
LEMMA KillKeeps ==
  ASSUME TypeOK, NEW cs \in SUBSET Pids, NEW s \in Signals, KillAll(cs, s)
  PROVE  /\ Launched' = Launched /\ Unreaped' = Unreaped
         /\ \A c \in Unreaped : Doomed(c) => Doomed(c)'
<1>1. state' = state /\ \A c \in Pids : pending[c] \subseteq pending'[c]
  BY KillFacts
<1> QED
  BY <1>1 DEF Launched, Unreaped, Doomed

LEMMA ListCases ==
  ASSUME TypeOK, PlaceFits, [Next]_vars
  PROVE  \/ Launch /\ pc' = pc /\ pc = "menu"
         \/ RemoveLast /\ childPidMas # <<>> /\ pc # "wait"
         \/ Wait
         \/ Keeps
<1> USE DEF killVars, childVars, timerVars, userVars
<1>1. ASSUME NEW cmd \in Commands, Do(cmd), ~Launch, ~(RemoveLast /\ childPidMas # <<>>)
      PROVE  Keeps
  <2>1. UNCHANGED <<childPidMas, state, pending>> /\ pc' # "wait"
    BY <1>1 DEF Do, LaunchFails, RemoveChild, RemoveAll, Output, HandlingPressingP
  <2> QED
    BY <2>1 DEF Keeps, Launched, Unreaped, Doomed
<1>2. CASE Send
  <2>1. KillAll({Head(todo)}, order) /\ {Head(todo)} \in SUBSET Pids /\ order \in Signals
    BY <1>2, TailRange, ListFacts DEF Send, TypeOK, Signals
  <2> QED
    BY <1>2, <2>1, KillKeeps DEF Send, Keeps
<1>3. CASE KillLast
  BY <1>3, ListFacts DEF KillLast, PlaceFits
<1>4. CASE \/ Sent \/ AllRemoved \/ SetTimer \/ IgnoreAlarm
           \/ (\E g \in BOOLEAN : Answer(g)) \/ UNCHANGED vars
  <2>1. UNCHANGED <<childPidMas, state, pending>> /\ (pc' = "wait" => pc = "wait")
    BY <1>4 DEF Sent, AllRemoved, SetTimer, IgnoreAlarm, Answer, vars
  <2> QED
    BY <2>1 DEF Keeps, Launched, Unreaped, Doomed
<1>5. CASE Grant
  <2>1. /\ KillAll({childPidMas[input.num + 1]}, "USR1")
        /\ {childPidMas[input.num + 1]} \in SUBSET Pids
    BY <1>5, ChosenChild, ListFacts DEF Grant
  <2> QED
    BY <1>5, <2>1, KillKeeps DEF Grant, Keeps, Signals
<1>6. CASE Alarm
  <2>1. CASE alarm # "allow"
    BY <1>6, <2>1 DEF Alarm, Keeps, Launched, Unreaped, Doomed
  <2>2. CASE alarm = "allow"
    <3>1. KillAll(Listed, "USR1") /\ Listed \in SUBSET Pids /\ pc' \in Interrupted
      BY <1>6, <2>2, ListFacts DEF Alarm, AllowAllForSignal
    <3>2. pc' = "wait" => pc = "wait"
      BY <3>1 DEF Interrupted
    <3>3. childPidMas' = childPidMas
      BY <1>6 DEF Alarm
    <3> QED
      BY <3>1, <3>2, <3>3, KillKeeps DEF Keeps, Signals
  <2> QED
    BY <2>1, <2>2
<1>7. ASSUME NEW c \in Pids, Child(c) PROVE Keeps
  <2>1. UNCHANGED <<childPidMas, pc>>
    BY <1>7 DEF Child, Starts, ChildStep, Deliver
  <2>2. /\ state[c] \in {"forked", "usr1", "up", "clone"}
        /\ state' \in [Pids -> States] /\ state'[c] \notin {"none", "reaped"}
        /\ \A d \in Pids \ {c} : state'[d] = state[d]
    BY <1>7 DEF Child, Starts, ChildStep, Deliver, Alive, TypeOK, States
  <2>3. \A d \in Unreaped : Doomed(d) => Doomed(d)'
    <3>1. CASE Starts(c)
      BY <2>2, <3>1 DEF Starts, ChildStep, Doomed, Unreaped, Launched
    <3>2. ASSUME NEW s \in Signals, Deliver(c, s)
          PROVE  \A d \in Unreaped : Doomed(d) => Doomed(d)'
      <4>1. /\ \A d \in Pids \ {c} : pending'[d] = pending[d]
            /\ pending'[c] = pending[c] \ {s} /\ (s = "TERM" => state'[c] = "dead")
        BY <3>2 DEF Deliver, TypeOK
      <4> QED
        BY <2>2, <4>1 DEF Doomed, Unreaped, Launched
    <3> QED
      BY <1>7, <3>1, <3>2 DEF Child
  <2>4. Launched' = Launched /\ Unreaped' = Unreaped
    BY <2>2 DEF Launched, Unreaped
  <2> QED
    BY <2>1, <2>3, <2>4 DEF Keeps
<1>8. ASSUME NEW cmd \in Commands, Do(cmd), Launch PROVE pc' = pc /\ pc = "menu"
  BY <1>8 DEF Do, Launch
<1>9. ASSUME NEW cmd \in Commands, Do(cmd) PROVE pc # "wait"
  BY <1>9 DEF Do
<1> QED
  BY <1>1, <1>2, <1>3, <1>4, <1>5, <1>6, <1>7, <1>8, <1>9, NextCases

\* What launch_child does when fork succeeds: c is the next number.
Launches(c) ==
  /\ state[c] = "none" /\ state'[c] \in {"forked", "dead"}
  /\ \A d \in Pids \ {c} : state'[d] = state[d]
  /\ Listed' = Listed \cup {c} /\ Len(childPidMas') = Len(childPidMas) + 1
  /\ pending' = pending /\ permission' = permission /\ mixed' = mixed
  /\ LaunchedInOrder'

LEMMA LaunchFacts ==
  ASSUME TypeOK, LaunchedInOrder, Launch
  PROVE  \E c \in Pids : Launches(c)
<1>1. PICK n \in 0..MaxLaunches : Launched = 1..n
  BY DEF LaunchedInOrder
<1>2. Cardinality(Launched) = n
  <2>1. n \in Nat /\ n \in Int /\ 1 \in Int
    BY <1>1
  <2>2. Cardinality(1..n) = IF 1 > n THEN 0 ELSE n - 1 + 1
    BY ONLY <2>1, FS_Interval
  <2> QED
    BY <1>1, <2>1, <2>2
<1>3. PICK c \in Pids : c = Cardinality(Launched) + 1
  BY NextIsFree DEF Launch
<1>4. c = n + 1 /\ c \notin Launched
  BY <1>1, <1>2, <1>3
<1>5. /\ childPidMas' = Append(childPidMas, c) /\ UNCHANGED <<pending, permission, mixed>>
      /\ state'[c] \in {"forked", "dead"} /\ \A d \in Pids \ {c} : state'[d] = state[d]
  BY <1>3 DEF Launch, TypeOK
<1>6. Launched' = Launched \cup {c}
  BY <1>4, <1>5 DEF Launched
<1>7. LaunchedInOrder'
  <2>1. 1..n + 1 = 1..n \cup {n + 1} /\ n + 1 \in 0..MaxLaunches
    BY <1>1, <1>4, ChildControlAssumption DEF ChildControlAssumption, Pids
  <2> QED
    BY <1>1, <1>4, <1>6, <2>1 DEF LaunchedInOrder
<1>8. Listed' = Listed \cup {c} /\ Len(childPidMas') = Len(childPidMas) + 1
  BY <1>5, AppendRange, AppendProperties DEF Listed, TypeOK
<1> QED
  BY <1>4, <1>5, <1>7, <1>8 DEF Launches, Launched

LEMMA UnreapedFinite == IsFiniteSet(Unreaped) /\ Cardinality(Unreaped) \in Nat
<1>1. IsFiniteSet(Pids)
  BY ChildControlAssumption, FS_Interval DEF ChildControlAssumption, Pids
<1>2. Unreaped \in SUBSET Pids
  BY DEF Unreaped, Launched
<1> QED
  BY <1>1, <1>2, FS_Subset, FS_CardinalityType

LEMMA ControlInit == Init => ControlStrengthened
<1> SUFFICES ASSUME Init PROVE ControlStrengthened
  OBVIOUS
<1>1. Launched = {} /\ Unreaped = {} /\ 1..0 = {}
  BY DEF Init, Launched, Unreaped
<1>2. LaunchedInOrder
  BY <1>1, ChildControlAssumption DEF ChildControlAssumption, LaunchedInOrder
<1>3. EnoughChildren
  <2>1. Cardinality(Unreaped) = 0 /\ Len(childPidMas) = 0 /\ pc = "menu"
    BY <1>1, FS_EmptySet DEF Init
  <2> QED
    BY <2>1 DEF EnoughChildren
<1> QED
  BY <1>1, <1>2, <1>3, TypeInit, PlaceInit DEF ControlStrengthened, RemovedAreDoomed

LEMMA ControlStep == ControlStrengthened /\ [Next]_vars => ControlStrengthened'
<1> SUFFICES ASSUME ControlStrengthened, [Next]_vars PROVE ControlStrengthened'
  OBVIOUS
<1>0. TypeOK /\ PlaceFits /\ TypeOK' /\ PlaceFits'
  BY TypeStep, PlaceStep DEF ControlStrengthened
<1> SUFFICES LaunchedInOrder' /\ RemovedAreDoomed' /\ EnoughChildren'
  BY <1>0 DEF ControlStrengthened
<1>1. CASE Launch /\ pc' = pc /\ pc = "menu"
  <2>1. PICK c \in Pids : Launches(c)
    BY <1>0, <1>1, LaunchFacts DEF ControlStrengthened
  <2>2. Unreaped' = Unreaped \cup {c} /\ c \notin Unreaped
    BY <2>1 DEF Launches, Launched, Unreaped
  <2>3. RemovedAreDoomed'
    <3>1. \A d \in Unreaped \ Listed : d # c /\ Doomed(d)
      BY <2>2 DEF ControlStrengthened, RemovedAreDoomed
    <3>2. \A d \in Unreaped : d # c => state'[d] = state[d] /\ pending'[d] = pending[d]
      BY <2>1 DEF Launches, Unreaped, Launched
    <3> QED
      BY <2>1, <2>2, <3>1, <3>2 DEF Launches, RemovedAreDoomed, Doomed
  <2>4. Cardinality(Unreaped') = Cardinality(Unreaped) + 1
    BY <2>2, UnreapedFinite, FS_AddElement
  <2>5. EnoughChildren'
    BY <1>0, <1>1, <2>1, <2>4, UnreapedFinite, ListFacts
       DEF Launches, ControlStrengthened, EnoughChildren
  <2> QED
    BY <2>1, <2>3, <2>5 DEF Launches
<1>2. CASE RemoveLast /\ childPidMas # <<>> /\ pc # "wait"
  <2>0. PICK c \in Pids : c = Last(childPidMas)
    BY <1>0, <1>2, RemoveLastFacts, ListFacts
  <2>1. /\ Len(childPidMas') = Len(childPidMas) - 1 /\ Listed = Listed' \cup {c}
        /\ KillAll({c}, "TERM") /\ pc' = "wait"
    BY <1>0, <1>2, <2>0, RemoveLastFacts
  <2>2. {c} \in SUBSET Pids /\ "TERM" \in Signals
    BY <2>1 DEF Signals
  <2>3. /\ Launched' = Launched /\ Unreaped' = Unreaped
        /\ \A d \in Unreaped : Doomed(d) => Doomed(d)'
    BY <1>0, <2>1, <2>2, KillKeeps
  <2>4. c \in Unreaped => Doomed(c)'
    <3>0. /\ state' = state
          /\ \A d \in Pids : pending'[d] = IF d \in {c} /\ Alive(d) THEN pending[d] \cup {"TERM"}
                                           ELSE pending[d]
      BY <1>0, <2>1, <2>2, KillFacts
    <3>1. state' = state /\ (Alive(c) => "TERM" \in pending'[c])
      BY <3>0
    <3>2. c \in Unreaped => Alive(c) \/ state[c] = "dead"
      BY <1>0 DEF Unreaped, Launched, Alive, TypeOK, States
    <3> QED
      BY <3>1, <3>2 DEF Doomed
  <2>5. RemovedAreDoomed'
    BY <2>1, <2>3, <2>4 DEF ControlStrengthened, RemovedAreDoomed
  <2>6. EnoughChildren'
    BY <1>0, <1>2, <2>1, <2>3, UnreapedFinite, ListFacts DEF ControlStrengthened, EnoughChildren
  <2> QED
    BY <2>3, <2>5, <2>6 DEF ControlStrengthened, LaunchedInOrder
<1>3. CASE Wait
  <2>1. PICK c \in Pids : state[c] = "dead" /\ state' = [state EXCEPT ![c] = "reaped"]
    BY <1>3 DEF Wait
  <2>2. /\ pc = "wait" /\ pc' # "wait" /\ childPidMas' = childPidMas /\ pending' = pending
    BY <1>3 DEF Wait, AfterWait
  <2>3. Launched' = Launched /\ Unreaped' = Unreaped \ {c} /\ c \in Unreaped
    BY <1>0, <2>1 DEF Launched, Unreaped, TypeOK
  <2>4. RemovedAreDoomed'
    <3>1. \A d \in Unreaped : d # c => state'[d] = state[d] /\ pending'[d] = pending[d]
      BY <1>0, <2>1, <2>2 DEF TypeOK, Unreaped, Launched
    <3> QED
      BY <2>2, <2>3, <3>1 DEF ControlStrengthened, RemovedAreDoomed, Doomed, Listed
  <2>5. Cardinality(Unreaped') = Cardinality(Unreaped) - 1
    BY <2>3, UnreapedFinite, FS_RemoveElement
  <2>6. EnoughChildren'
    BY <1>0, <2>2, <2>5, UnreapedFinite, ListFacts DEF ControlStrengthened, EnoughChildren
  <2> QED
    BY <2>3, <2>4, <2>6 DEF ControlStrengthened, LaunchedInOrder
<1>4. CASE Keeps
  <2>1. LaunchedInOrder' /\ RemovedAreDoomed'
    BY <1>4 DEF Keeps, ControlStrengthened, LaunchedInOrder, RemovedAreDoomed, Listed
  <2>2. EnoughChildren'
    BY <1>0, <1>4, UnreapedFinite, ListFacts DEF Keeps, ControlStrengthened, EnoughChildren
  <2> QED
    BY <2>1, <2>2
<1> QED
  BY <1>0, <1>1, <1>2, <1>3, <1>4, ListCases

\* The list is too short for all who are left: one of those it lacks is doomed.
LEMMA ControlFollows == ControlStrengthened => ControlInvariant
<1> SUFFICES ASSUME ControlStrengthened PROVE ControlInvariant
  OBVIOUS
<1>0. TypeOK /\ PlaceFits /\ RemovedAreDoomed /\ EnoughChildren /\ Len(childPidMas) \in Nat
  BY ListFacts DEF ControlStrengthened
<1>1. ASSUME pc = "wait" PROVE \E c \in Unreaped : Doomed(c)
  <2>1. Cardinality(Unreaped) > Len(childPidMas)
    BY <1>0, <1>1, UnreapedFinite DEF EnoughChildren
  <2>2. IsFiniteSet(Listed) /\ Cardinality(Listed) <= Len(childPidMas) /\ Cardinality(Listed) \in Nat
    BY <1>0, RangeBound, FS_CardinalityType DEF TypeOK, Listed
  <2>3. ~(Unreaped \subseteq Listed)
    <3>1. SUFFICES ASSUME Unreaped \in SUBSET Listed PROVE FALSE
      OBVIOUS
    <3>2. Cardinality(Unreaped) <= Cardinality(Listed)
      BY <2>2, <3>1, FS_Subset
    <3> QED
      BY <1>0, <2>1, <2>2, <3>2, UnreapedFinite
  <2> QED
    BY <1>0, <2>3 DEF RemovedAreDoomed
<1>2. RemovalsHaveChildren
  BY <1>0, <1>1, UnreapedFinite DEF RemovalsHaveChildren, Doomed, EnoughChildren
<1>3. NobodyOutlivesQuit
  <2>1. SUFFICES ASSUME pc = "exited", input.key = "q", NEW c \in Launched, Alive(c)
                 PROVE  "TERM" \in pending[c]
    BY DEF NobodyOutlivesQuit
  <2>2. Listed = {}
    BY <1>0, <2>1 DEF PlaceFits, Listed, Range
  <2>3. c \in Unreaped \ Listed /\ state[c] # "dead"
    BY <2>1, <2>2 DEF Unreaped, Alive
  <2> QED
    BY <1>0, <2>3 DEF RemovedAreDoomed, Doomed
<1> QED
  BY <1>0, <1>2, <1>3 DEF ControlInvariant

(***************************************************************************)
(* remove_child never waits without somebody to wait for, however many     *)
(* children died before, whatever wait took in their place and whatever    *)
(* SIGALRM broke off; and after 'q' every child has been told to go.       *)
(***************************************************************************)
THEOREM RemovalsAreAnswered == Spec => []ControlInvariant
<1>1. Spec => []ControlStrengthened
  BY ControlInit, ControlStep, PTL DEF Spec
<1> QED
  BY <1>1, ControlFollows, PTL

-----------------------------------------------------------------------------
(* The children do as they were told last. *)

Orders == {"USR1", "USR2"}

\* An order decides where those it reaches are heading, and nobody else.
LEMMA OrderReaches ==
  ASSUME TypeOK, OneOrderPending, NEW cs \in SUBSET Pids, NEW s \in Orders, KillAll(cs, s)
  PROVE  /\ OneOrderPending'
         /\ \A c \in Pids \ mixed' : Alive(c) =>
              /\ c \in cs => (Heading(c)' <=> s = "USR1")
              /\ c \notin cs => c \notin mixed /\ (Heading(c)' <=> Heading(c))
<1>1. /\ permission' = permission
      /\ \A c \in Pids :
           pending'[c] = IF c \in cs /\ Alive(c) THEN pending[c] \cup {s} ELSE pending[c]
  BY KillFacts DEF Orders, Signals
<1>2. /\ mixed' = {c \in {d \in cs : Alive(d)} : Opposite(s) \in pending[c]}
                  \cup (mixed \ {d \in cs : Alive(d)})
  BY DEF KillAll, Orders
<1>3. ASSUME NEW c \in Pids \ mixed', c \in cs, Alive(c)
      PROVE  /\ ~({"USR1", "USR2"} \subseteq pending'[c])
             /\ Heading(c)' <=> s = "USR1"
  <2>1. Opposite(s) \notin pending[c]
    BY <1>2, <1>3
  <2>2. pending'[c] = pending[c] \cup {s}
    BY <1>1, <1>3
  <2>3. CASE s = "USR1"
    <3>1. "USR2" \notin pending'[c] /\ "USR1" \in pending'[c]
      BY <2>1, <2>2, <2>3 DEF Opposite
    <3> QED
      BY <2>3, <3>1 DEF Heading
  <2>4. CASE s = "USR2"
    <3>1. "USR1" \notin pending'[c] /\ "USR2" \in pending'[c] /\ s # "USR1"
      BY <2>1, <2>2, <2>4 DEF Opposite
    <3> QED
      BY <3>1 DEF Heading
  <2> QED
    BY <2>3, <2>4 DEF Orders
<1>4. ASSUME NEW c \in Pids \ mixed', ~(c \in cs /\ Alive(c))
      PROVE  c \notin mixed /\ pending'[c] = pending[c] /\ (Heading(c)' <=> Heading(c))
  BY <1>1, <1>2, <1>4 DEF Heading
<1>5. OneOrderPending'
  BY <1>3, <1>4 DEF OneOrderPending
<1> QED
  BY <1>3, <1>4, <1>5

\* Neither does the request to end.
LEMMA TermKeeps ==
  ASSUME TypeOK, OneOrderPending, NEW cs \in SUBSET Pids, KillAll(cs, "TERM")
  PROVE  /\ OneOrderPending' /\ mixed' = mixed
         /\ \A c \in Pids : Heading(c)' <=> Heading(c)
<1>1. /\ permission' = permission /\ mixed' = mixed
      /\ \A c \in Pids :
           pending'[c] = IF c \in cs /\ Alive(c) THEN pending[c] \cup {"TERM"} ELSE pending[c]
  BY KillFacts DEF Signals, KillAll
<1>2. \A c \in Pids : /\ "USR1" \in pending'[c] <=> "USR1" \in pending[c]
                      /\ "USR2" \in pending'[c] <=> "USR2" \in pending[c]
  <2>1. \A c \in Pids : pending'[c] \in {pending[c], pending[c] \cup {"TERM"}}
    BY ONLY <1>1
  <2> QED
    BY ONLY <2>1
<1>3. OneOrderPending'
  BY <1>1, <1>2 DEF OneOrderPending
<1>4. ASSUME NEW c \in Pids PROVE Heading(c)' <=> Heading(c)
  BY <1>1, <1>2 DEF Heading
<1> QED
  BY <1>1, <1>3, <1>4

\* A child that acts on what it has heard, and lives, goes where it was heading.
LEMMA ChildKeeps ==
  ASSUME TypeOK, OneOrderPending, NEW c \in Pids, Child(c)
  PROVE  /\ OneOrderPending' /\ mixed' = mixed
         /\ \A d \in Pids \ mixed : Alive(d)' => Alive(d) /\ (Heading(d)' <=> Heading(d))
<1>1. CASE Starts(c)
  BY <1>1 DEF Starts, ChildStep, TypeOK, Alive, Heading, OneOrderPending
<1>2. ASSUME NEW s \in Signals, Deliver(c, s)
      PROVE  /\ OneOrderPending' /\ mixed' = mixed
             /\ \A d \in Pids \ mixed : Alive(d)' => Alive(d) /\ (Heading(d)' <=> Heading(d))
  <2>1. /\ mixed' = mixed /\ s \in pending[c] /\ Alive(c)
        /\ pending'[c] = pending[c] \ {s}
        /\ \A d \in Pids \ {c} : /\ pending'[d] = pending[d] /\ state'[d] = state[d]
                                 /\ permission'[d] = permission[d]
    BY <1>2 DEF Deliver, TypeOK
  <2>2. /\ Alive(c)' /\ s \in Orders => (permission'[c] <=> s = "USR1")
        /\ Alive(c)' => s \in Orders
    BY <1>2 DEF Deliver, TypeOK, Alive, Orders, Signals
  <2>3. c \notin mixed => ~({"USR1", "USR2"} \subseteq pending[c])
    BY DEF OneOrderPending
  <2>4. Alive(c)' /\ c \notin mixed => (Heading(c)' <=> Heading(c))
    BY <2>1, <2>2, <2>3 DEF Heading, Orders
  <2>5. \A d \in Pids \ {c} : (Alive(d)' => Alive(d)) /\ (Heading(d)' <=> Heading(d))
    BY <2>1 DEF Alive, Heading
  <2>6. OneOrderPending'
    BY <2>1 DEF OneOrderPending
  <2> QED
    BY <2>1, <2>4, <2>5, <2>6
<1> QED
  BY <1>1, <1>2 DEF Child

\* Who sends what in a step.
LEMMA OrderCases ==
  ASSUME TypeOK, PlaceFits, [Next]_vars
  PROVE  \/ \E cs \in SUBSET Pids, s \in Signals : KillAll(cs, s)
         \/ \E c \in Pids : Child(c)
         \/ UNCHANGED <<pending, permission, mixed>>
<1> USE DEF killVars, childVars, timerVars, userVars
<1>1. ASSUME NEW cmd \in Commands, Do(cmd)
      PROVE  \/ \E cs \in SUBSET Pids, s \in Signals : KillAll(cs, s)
             \/ UNCHANGED <<pending, permission, mixed>>
  <2>1. CASE childPidMas # <<>> /\ RemoveLast
    BY <2>1, RemoveLastFacts, ListFacts DEF Signals
  <2> QED
    BY <1>1, <2>1 DEF Do, Launch, LaunchFails, RemoveChild, RemoveAll, Output, HandlingPressingP
<1>2. CASE Send
  <2>1. KillAll({Head(todo)}, order) /\ {Head(todo)} \in SUBSET Pids /\ order \in Signals
    BY <1>2, TailRange, ListFacts DEF Send, TypeOK, Signals
  <2> QED
    BY <2>1
<1>3. CASE KillLast
  <2>1. RemoveLast /\ childPidMas # <<>>
    BY <1>3, ListFacts DEF KillLast, PlaceFits
  <2> QED
    BY <2>1, RemoveLastFacts, ListFacts DEF Signals
<1>4. CASE Grant
  <2>1. /\ KillAll({childPidMas[input.num + 1]}, "USR1")
        /\ {childPidMas[input.num + 1]} \in SUBSET Pids
    BY <1>4, ChosenChild, ListFacts DEF Grant
  <2> QED
    BY <2>1 DEF Signals
<1>5. CASE Alarm
  BY <1>5, ListFacts DEF Alarm, AllowAllForSignal, Signals
<1>6. CASE \/ Sent \/ AllRemoved \/ Wait \/ SetTimer \/ IgnoreAlarm
           \/ (\E g \in BOOLEAN : Answer(g)) \/ UNCHANGED vars
  BY <1>6 DEF Sent, AllRemoved, Wait, SetTimer, IgnoreAlarm, Answer, vars
<1> QED
  BY <1>1, <1>2, <1>3, <1>4, <1>5, <1>6, NextCases

LEMMA OneOrderStep ==
  ASSUME TypeOK, PlaceFits, OneOrderPending, [Next]_vars
  PROVE  OneOrderPending'
<1>1. ASSUME NEW cs \in SUBSET Pids, NEW s \in Signals, KillAll(cs, s) PROVE OneOrderPending'
  BY <1>1, OrderReaches, TermKeeps DEF Signals, Orders
<1>2. CASE UNCHANGED <<pending, permission, mixed>>
  BY <1>2 DEF OneOrderPending
<1> QED
  BY <1>1, <1>2, ChildKeeps, OrderCases

LEMMA ListedStep ==
  ASSUME ControlStrengthened, Listed \subseteq Launched, [Next]_vars
  PROVE  Listed' \subseteq Launched' /\ Launched \subseteq Launched'
<1>0. TypeOK /\ PlaceFits /\ LaunchedInOrder
  BY DEF ControlStrengthened
<1>1. CASE Launch
  <2>1. PICK c \in Pids : Launches(c)
    BY <1>0, <1>1, LaunchFacts
  <2>2. Launched' = Launched \cup {c}
    BY <2>1 DEF Launches, Launched
  <2> QED
    BY <2>1, <2>2 DEF Launches
<1>2. CASE RemoveLast /\ childPidMas # <<>>
  <2>1. Listed' \subseteq Listed /\ KillAll({Last(childPidMas)}, "TERM") /\ Last(childPidMas) \in Pids
    BY <1>0, <1>2, RemoveLastFacts, ListFacts
  <2>2. state' = state
    BY <2>1 DEF KillAll
  <2> QED
    BY <2>1, <2>2 DEF Launched
<1>3. CASE Wait
  <2>1. UNCHANGED childPidMas /\ \E c \in Pids : state' = [state EXCEPT ![c] = "reaped"]
    BY <1>3 DEF Wait
  <2> QED
    BY <1>0, <2>1 DEF Launched, Listed, TypeOK
<1>4. CASE Keeps
  BY <1>4 DEF Keeps, Listed
<1> QED
  BY <1>0, <1>1, <1>2, <1>3, <1>4, ListCases

\* The children an order of the user names.
LEMMA OutputFacts ==
  ASSUME TypeOK, NEW cmd \in Commands, NEW s \in Orders, Output(s, cmd.num)
  PROVE  /\ Range(todo') \subseteq Listed
         /\ cmd.num = AllChildren => todo' = childPidMas
         /\ told' = [c \in Pids |-> IF c \in Range(todo') THEN s = "USR1" ELSE told[c]]
         /\ order' = s /\ pc' = "send" /\ stale' = (stale /\ cmd.num # AllChildren)
         /\ due' = IF todo' = <<>> THEN due ELSE Overtaken
         /\ UNCHANGED <<childPidMas, timer, alarm, state, pending, permission, mixed>>
<1>1. Range(todo') \subseteq Listed
  <2>1. CASE cmd.num # AllChildren /\ cmd.num < Len(childPidMas)
    <3>1. cmd.num + 1 \in 1..Len(childPidMas)
      BY <2>1, CommandFacts, ListFacts, ChildControlAssumption DEF ChildControlAssumption
    <3>2. todo' = <<childPidMas[cmd.num + 1]>> /\ childPidMas[cmd.num + 1] \in Listed
      BY <2>1, <3>1, ListFacts DEF Output
    <3> QED
      BY <3>2 DEF Range
  <2>2. CASE cmd.num # AllChildren /\ ~(cmd.num < Len(childPidMas))
    <3>1. todo' = <<>>
      BY <2>2 DEF Output
    <3> QED
      BY <3>1 DEF Range
  <2>3. CASE cmd.num = AllChildren
    BY <2>3 DEF Output, Listed
  <2> QED
    BY <2>1, <2>2, <2>3
<1> QED
  BY <1>1 DEF Output, childVars, timerVars

\* Nobody but a child of the list is told anything it did not hear before.
LEMMA ToldCases ==
  ASSUME TypeOK, PlaceFits, [Next]_vars
  PROVE  \A c \in Pids \ Listed : told[c] => told'[c]
<1> USE DEF killVars, childVars, timerVars, userVars
<1>0. told \in [Pids -> BOOLEAN]
  BY DEF TypeOK
<1>1. ASSUME NEW cmd \in Commands, NEW s \in Orders, Output(s, cmd.num)
      PROVE  \A c \in Pids \ Listed : told[c] => told'[c]
  BY <1>1, OutputFacts
<1>2. CASE HandlingPressingP
  BY <1>2 DEF HandlingPressingP
<1>3. ASSUME NEW g \in BOOLEAN, Answer(g) PROVE \A c \in Pids \ Listed : told[c] => told'[c]
  BY <1>0, <1>3, ChosenChild DEF Answer
<1>4. CASE Alarm
  BY <1>4 DEF Alarm, AllowAllForSignal
<1>5. ASSUME NEW cmd \in Commands, Do(cmd) PROVE \A c \in Pids \ Listed : told[c] => told'[c]
  BY <1>1, <1>2, <1>5 DEF Do, Launch, LaunchFails, RemoveChild, RemoveAll, Orders
<1>6. CASE \/ Send \/ Sent \/ KillLast \/ AllRemoved \/ Wait \/ SetTimer \/ Grant \/ IgnoreAlarm
           \/ (\E c \in Pids : Child(c)) \/ UNCHANGED vars
  BY <1>6 DEF Send, Sent, KillLast, AllRemoved, Wait, SetTimer, Grant, IgnoreAlarm, Child,
     Starts, ChildStep, Deliver, vars
<1> QED
  BY <1>3, <1>4, <1>5, <1>6, NextCases

LEMMA UnlaunchedStep ==
  ASSUME ControlStrengthened, Listed \subseteq Launched, Unlaunched, [Next]_vars
  PROVE  Unlaunched'
<1>0. TypeOK /\ PlaceFits
  BY DEF ControlStrengthened
<1>1. \A c \in Pids : state'[c] = "none" => state[c] = "none" /\ c \notin Listed
  BY ListedStep DEF Launched
<1>2. \A c \in Pids : state[c] = "none" => ~Alive(c)
  BY DEF Alive
<1>3. ASSUME NEW c \in Pids, state'[c] = "none"
      PROVE  pending'[c] = pending[c] /\ permission'[c] = permission[c]
  <2>1. state[c] = "none" /\ ~Alive(c)
    BY <1>1, <1>2, <1>3
  <2>2. ASSUME NEW cs \in SUBSET Pids, NEW s \in Signals, KillAll(cs, s)
        PROVE  pending'[c] = pending[c] /\ permission'[c] = permission[c]
    BY <1>0, <2>1, <2>2, KillFacts
  <2>3. ASSUME NEW d \in Pids, Child(d)
        PROVE  pending'[c] = pending[c] /\ permission'[c] = permission[c]
    BY <1>0, <2>1, <2>3 DEF Child, Starts, ChildStep, Deliver, Alive, TypeOK
  <2> QED
    BY <1>0, <2>2, <2>3, OrderCases
<1> QED
  BY <1>0, <1>1, <1>3, ToldCases DEF Unlaunched

LEMMA TimerStep ==
  ASSUME TypeOK, PlaceFits, TimerFits, [Next]_vars
  PROVE  TimerFits'
<1> USE DEF killVars, childVars, timerVars, userVars, TimerFits
<1>1. ASSUME NEW cmd \in Commands, Do(cmd) PROVE TimerFits'
  <2>0. pc = "menu"
    BY <1>1 DEF Do
  <2>1. ASSUME NEW s \in Orders, Output(s, cmd.num) PROVE TimerFits'
    BY <2>0, <2>1, OutputFacts DEF Overtaken, TypeOK
  <2>2. CASE HandlingPressingP
    BY <2>0, <2>2 DEF HandlingPressingP, Overtaken, TypeOK
  <2>3. CASE Launch \/ LaunchFails \/ RemoveChild \/ RemoveAll
    BY <2>0, <2>3 DEF Launch, LaunchFails, RemoveChild, RemoveLast, RemoveAll
  <2> QED
    BY <1>1, <2>1, <2>2, <2>3 DEF Do, Orders
<1>2. CASE Send
  BY <1>2 DEF Send
<1>3. CASE \/ Sent \/ KillLast \/ AllRemoved \/ Wait \/ SetTimer \/ Grant \/ IgnoreAlarm
           \/ \E g \in BOOLEAN : Answer(g)
  BY <1>3 DEF Sent, KillLast, RemoveLast, AllRemoved, Wait, AfterWait, SetTimer, Grant,
     IgnoreAlarm, Answer
<1>4. CASE Alarm
  <2>1. timer' = FALSE /\ todo' = todo /\ (pc' = "send" => pc = "send")
        /\ (alarm # "allow" => due' = due)
        /\ (alarm = "allow" => due' = IF due = "granted" THEN due ELSE "none")
    BY <1>4 DEF Alarm, AllowAllForSignal, Interrupted, AfterWait
  <2> QED
    BY <2>1
<1>5. CASE (\E c \in Pids : Child(c)) \/ UNCHANGED vars
  BY <1>5 DEF Child, Starts, ChildStep, Deliver, vars
<1> QED
  BY <1>1, <1>2, <1>3, <1>4, <1>5, NextCases

\* Outside the steps that send an order: who is listed, alive, mixed up and heading
\* where, and what was told, stays, or there are fewer to speak of.
LEMMA OrdersStay ==
  ASSUME OrdersFit, stale' = stale, Awaiting = {}, pc' \notin {"send", "grant"},
         \A c \in Pids : told'[c] <=> told[c], Listed \subseteq Pids, mixed' = mixed,
         Listed' \subseteq Listed,
         \A c \in Listed' \ mixed : Alive(c)' => Alive(c) /\ (Heading(c)' <=> Heading(c))
  PROVE  OrdersFit'
<1> SUFFICES ASSUME ~stale' PROVE \A c \in Listed' \ mixed' : Alive(c)' => (Heading(c)' <=> told'[c])
  BY DEF OrdersFit
<1>1. \A c \in Listed \ mixed : Alive(c) => (Heading(c) <=> told[c])
  BY DEF OrdersFit
<1> QED
  BY <1>1

LEMMA OrdersUnchanged ==
  ASSUME OrdersFit, UNCHANGED <<childPidMas, pc, input, order, todo, told, stale>>,
         UNCHANGED <<state, pending, permission, mixed>>
  PROVE  OrdersFit'
<1>1. Listed' = Listed /\ Awaiting' = Awaiting
  BY DEF Listed, Awaiting
<1>2. ASSUME NEW c PROVE (Alive(c)' <=> Alive(c)) /\ (Heading(c)' <=> Heading(c))
  BY DEF Alive, Heading
<1> QED
  BY <1>1, <1>2 DEF OrdersFit

LEMMA OrdersDo ==
  ASSUME ObeyStrengthened, NEW cmd \in Commands, Do(cmd)
  PROVE  OrdersFit'
<1> USE DEF killVars, childVars, timerVars, userVars
<1>0. /\ TypeOK /\ pc = "menu" /\ Awaiting = {} /\ OrdersFit /\ Listed \subseteq Pids
      /\ OneOrderPending
  BY ListFacts DEF ObeyStrengthened, ControlStrengthened, Do, Awaiting
<1>1. ASSUME NEW s \in Orders, Output(s, cmd.num) PROVE OrdersFit'
  <2>1. /\ pc' = "send" /\ order' = s /\ stale' = (stale /\ cmd.num # AllChildren)
        /\ Range(todo') \subseteq Listed /\ (cmd.num = AllChildren => todo' = childPidMas)
        /\ UNCHANGED <<childPidMas, state, pending, permission, mixed>>
    BY <1>0, <1>1, OutputFacts
  <2>2. \A c \in Pids : /\ c \in Range(todo') => (told'[c] <=> s = "USR1")
                        /\ c \notin Range(todo') => (told'[c] <=> told[c])
    BY <1>0, <1>1, OutputFacts
  <2>3. Awaiting' = Range(todo')
    BY <1>0, <2>1 DEF Awaiting
  <2>4. ASSUME ~stale', NEW c \in Listed \ (mixed \cup Range(todo')), Alive(c)
        PROVE  Heading(c) <=> told[c]
    <3>1. cmd.num # AllChildren /\ ~stale
      BY <2>1, <2>4, <1>0 DEF Listed, TypeOK
    <3> QED
      BY <1>0, <2>4, <3>1 DEF OrdersFit
  <2>5. \A c \in Pids : (Alive(c)' <=> Alive(c)) /\ (Heading(c)' <=> Heading(c))
    BY <2>1 DEF Alive, Heading
  <2> QED
    BY <1>0, <2>1, <2>2, <2>3, <2>4, <2>5 DEF OrdersFit, Listed
<1>2. CASE HandlingPressingP
  <2>1. /\ pc' = "send" /\ order' = "USR2" /\ todo' = childPidMas
        /\ Awaiting' = Listed' /\ Listed' = Range(todo')
    BY <1>0, <1>2 DEF HandlingPressingP, Awaiting, Listed
  <2>2. \A c \in Listed' : ~told'[c]
    BY <1>0, <1>2 DEF HandlingPressingP, Listed
  <2> QED
    BY <2>1, <2>2 DEF OrdersFit
<1>3. CASE Launch
  <2>1. PICK c \in Pids : Launches(c)
    BY <1>0, <1>3, LaunchFacts DEF ObeyStrengthened, ControlStrengthened
  <2>2. UNCHANGED <<pc, told, stale, todo>> /\ Awaiting' = {}
    BY <1>0, <1>3 DEF Launch, Awaiting
  <2>3. \A d \in Pids : Heading(d)' <=> Heading(d)
    BY <2>1 DEF Launches, Heading
  <2>4. Heading(c) /\ told[c]
    BY <2>1 DEF ObeyStrengthened, Unlaunched, Launches, Heading
  <2>5. \A d \in Listed : d # c => (Alive(d)' => Alive(d))
    BY <1>0, <2>1 DEF Launches, Alive
  <2> QED
    BY <1>0, <2>1, <2>2, <2>3, <2>4, <2>5 DEF OrdersFit, Launches
<1>4. CASE RemoveLast /\ childPidMas # <<>> /\ RemoveChild
  <2>1. /\ KillAll({Last(childPidMas)}, "TERM") /\ {Last(childPidMas)} \in SUBSET Pids
        /\ Listed' \subseteq Listed /\ pc' = "wait"
    BY <1>0, <1>4, RemoveLastFacts, ListFacts
  <2>2. mixed' = mixed /\ (\A c \in Pids : Heading(c)' <=> Heading(c)) /\ state' = state
    BY <1>0, <2>1, TermKeeps DEF KillAll
  <2>3. told' = told /\ stale' = stale
    BY <1>4 DEF RemoveChild
  <2> QED
    BY <1>0, <2>1, <2>2, <2>3, OrdersStay DEF Alive
<1>5. CASE LaunchFails \/ RemoveAll \/ (childPidMas = <<>> /\ RemoveChild)
  <2>1. UNCHANGED <<childPidMas, told, stale, state, pending, permission, mixed>>
        /\ pc' \in {"exited", "kill", "menu"}
    BY <1>0, <1>5 DEF LaunchFails, RemoveAll, RemoveChild
  <2>2. \A c \in Pids : (Alive(c)' <=> Alive(c)) /\ (Heading(c)' <=> Heading(c))
    BY <2>1 DEF Alive, Heading
  <2> QED
    BY <1>0, <2>1, <2>2, OrdersStay DEF Listed
<1> QED
  BY <1>1, <1>2, <1>3, <1>4, <1>5 DEF Do, Orders, RemoveChild

LEMMA OrdersStep ==
  ASSUME ObeyStrengthened, [Next]_vars
  PROVE  OrdersFit'
<1> USE DEF killVars, childVars, timerVars, userVars
<1>0. /\ TypeOK /\ PlaceFits /\ OrdersFit /\ Listed \subseteq Pids /\ OneOrderPending
      /\ TimerFits /\ TypeOK'
  BY ListFacts, TypeStep DEF ObeyStrengthened, ControlStrengthened
<1>1. CASE Send
  <2> DEFINE h == Head(todo)
  <2>1. /\ Range(todo) = Range(todo') \cup {h} /\ h \in Pids /\ order \in Orders
        /\ pc = "send" /\ KillAll({h}, order)
        /\ UNCHANGED <<childPidMas, pc, order, told, stale>>
    BY <1>0, <1>1, TailRange, ListFacts DEF Send, TypeOK, Orders
  <2>2. PICK g \in Pids : g = h
    BY <2>1
  <2>3. /\ state' = state
        /\ \A c \in Pids \ mixed' : Alive(c) =>
              /\ c \in {g} => (Heading(c)' <=> order = "USR1")
              /\ c \notin {g} => c \notin mixed /\ (Heading(c)' <=> Heading(c))
    BY <1>0, <2>1, <2>2, OrderReaches DEF KillAll
  <2>4. Awaiting' = Awaiting \ ({g} \ Range(todo')) /\ g \in Range(todo)
    BY <1>0, <2>1, <2>2, ListFacts DEF Awaiting
  <2> HIDE DEF h
  <2>5. ASSUME ~stale PROVE /\ \A c \in Range(todo) : told[c] <=> order = "USR1"
                            /\ \A c \in Listed \ (mixed \cup Awaiting) : Alive(c) => (Heading(c) <=> told[c])
    BY <1>0, <2>1, <2>5 DEF OrdersFit
  <2>6. ASSUME ~stale, NEW c \in Listed \ (mixed' \cup Awaiting'), Alive(c)
        PROVE  Heading(c)' <=> told[c]
    BY <1>0, <2>3, <2>4, <2>5, <2>6
  <2> QED
    BY <2>1, <2>3, <2>5, <2>6 DEF OrdersFit, Alive, Listed
<1>2. CASE Grant
  <2>1. PICK g \in Listed : g = childPidMas[input.num + 1]
    BY <1>0, <1>2, ChosenChild DEF Grant
  <2>2. /\ KillAll({g}, "USR1") /\ pc = "grant" /\ pc' = "ignore"
        /\ UNCHANGED <<childPidMas, told, stale>> /\ {g} \in SUBSET Pids
    BY <1>0, <1>2, <2>1 DEF Grant
  <2>3. /\ state' = state
        /\ \A c \in Pids \ mixed' : Alive(c) =>
              /\ c \in {g} => (Heading(c)' <=> "USR1" = "USR1")
              /\ c \notin {g} => c \notin mixed /\ (Heading(c)' <=> Heading(c))
    BY <1>0, <2>2, OrderReaches DEF KillAll, Orders
  <2>4. Awaiting = {g} /\ Awaiting' = {}
    BY <1>0, <2>1, <2>2 DEF Awaiting
  <2>5. ASSUME ~stale PROVE /\ told[g]
                            /\ \A c \in Listed \ (mixed \cup {g}) : Alive(c) => (Heading(c) <=> told[c])
    BY <1>0, <2>1, <2>2, <2>4, <2>5 DEF OrdersFit
  <2>6. ASSUME ~stale, NEW c \in Listed \ mixed', Alive(c)
        PROVE  Heading(c)' <=> told[c]
    BY <1>0, <2>3, <2>5, <2>6
  <2> QED
    BY <2>2, <2>3, <2>4, <2>6 DEF OrdersFit, Alive, Listed
<1>3. CASE KillLast
  <2>1. RemoveLast /\ childPidMas # <<>> /\ pc = "kill" /\ told' = told /\ stale' = stale
    BY <1>0, <1>3, ListFacts DEF KillLast, PlaceFits
  <2>2. /\ KillAll({Last(childPidMas)}, "TERM") /\ {Last(childPidMas)} \in SUBSET Pids
        /\ Listed' \subseteq Listed /\ pc' = "wait" /\ Awaiting = {}
    BY <1>0, <2>1, RemoveLastFacts, ListFacts DEF Awaiting
  <2>3. mixed' = mixed /\ (\A c \in Pids : Heading(c)' <=> Heading(c)) /\ state' = state
    BY <1>0, <2>2, TermKeeps DEF KillAll
  <2> QED
    BY <1>0, <2>1, <2>2, <2>3, OrdersStay DEF Alive
<1>4. CASE Sent \/ AllRemoved \/ Wait \/ SetTimer \/ IgnoreAlarm
  <2>1. /\ UNCHANGED <<childPidMas, told, stale, pending, permission, mixed>>
        /\ pc' \notin {"send", "grant"} /\ Awaiting = {}
    BY <1>0, <1>4 DEF Sent, AllRemoved, Wait, AfterWait, SetTimer, IgnoreAlarm, Awaiting, Range
  <2>2. \A c \in Pids : Alive(c)' => Alive(c)
    BY <1>0, <1>4 DEF Sent, AllRemoved, Wait, SetTimer, IgnoreAlarm, Alive, TypeOK
  <2>3. \A c \in Pids : Heading(c)' <=> Heading(c)
    BY <2>1 DEF Heading
  <2> QED
    BY <1>0, <2>1, <2>2, <2>3, OrdersStay DEF Listed
<1>5. ASSUME NEW g \in BOOLEAN, Answer(g) PROVE OrdersFit'
  <2>1. PICK x \in Listed : x = childPidMas[input.num + 1]
    BY <1>0, <1>5, ChosenChild DEF Answer
  <2>2. /\ UNCHANGED <<childPidMas, input, todo, stale, state, pending, permission, mixed>>
        /\ pc = "prompt" /\ Awaiting = {}
    BY <1>5 DEF Answer, Awaiting
  <2>3. \A c \in Pids : (Alive(c)' <=> Alive(c)) /\ (Heading(c)' <=> Heading(c))
    BY <2>2 DEF Alive, Heading
  <2>4. CASE ~g
    <3>1. pc' = "menu" /\ told' = told
      BY <1>5, <2>4 DEF Answer
    <3> QED
      BY <1>0, <2>2, <2>3, <3>1, OrdersStay DEF Listed
  <2>5. CASE g
    <3>1. pc' = "grant" /\ told' = [told EXCEPT ![x] = TRUE]
      BY <1>5, <2>1, <2>5 DEF Answer
    <3>2. Awaiting' = {x} /\ told'[x] /\ \A c \in Pids \ {x} : told'[c] <=> told[c]
      BY <1>0, <2>1, <2>2, <3>1 DEF Awaiting, TypeOK
    <3> QED
      BY <1>0, <2>1, <2>2, <2>3, <3>1, <3>2 DEF OrdersFit, Listed
  <2> QED
    BY <2>4, <2>5
<1>6. CASE Alarm /\ alarm # "allow"
  BY <1>0, <1>6, OrdersUnchanged DEF Alarm
<1>7. CASE Alarm /\ alarm = "allow"
  <2>1. SUFFICES ASSUME ~stale' PROVE OrdersFit'
    BY DEF OrdersFit
  <2>2. due = "open" /\ (pc = "send" => todo = <<>>)
    BY <1>0, <1>7, <2>1 DEF Alarm, AllowAllForSignal, TimerFits
  <2>3. /\ KillAll(Listed, "USR1") /\ UNCHANGED <<childPidMas, input, order, todo>>
        /\ pc' \in Interrupted /\ Listed \in SUBSET Pids
        /\ \A c \in Listed : told'[c]
    BY <1>0, <1>7, <2>2 DEF Alarm, AllowAllForSignal
  <2>4. /\ pc' = "send" => pc = "send"
        /\ pc' = "grant" => pc \in {"prompt", "grant"}
    BY <2>3 DEF Interrupted, AfterWait
  <2>5. state' = state /\ \A c \in Pids \ mixed' : Alive(c) => (c \in Listed => Heading(c)')
    BY <1>0, <2>3, OrderReaches DEF KillAll, Orders
  <2>6. pc' = "send" => Range(todo') = {}
    BY <2>2, <2>3, <2>4 DEF Range
  <2>7. pc' = "grant" => told'[childPidMas'[input'.num + 1]]
    BY <1>0, <2>3, <2>4, ChosenChild
  <2>8. \A c \in Listed' \ mixed' : Alive(c)' => (Heading(c)' <=> told'[c])
    BY <1>0, <2>3, <2>5 DEF Listed, Alive
  <2> QED
    BY <2>6, <2>7, <2>8 DEF OrdersFit
<1>8. ASSUME NEW d \in Pids, Child(d) PROVE OrdersFit'
  <2>1. /\ UNCHANGED <<childPidMas, input, order, todo, pc, told, stale>>
    BY <1>8 DEF Child, Starts, ChildStep, Deliver
  <2>2. /\ mixed' = mixed
        /\ \A c \in Pids \ mixed : Alive(c)' => Alive(c) /\ (Heading(c)' <=> Heading(c))
    BY <1>0, <1>8, ChildKeeps
  <2>3. Awaiting' = Awaiting
    BY <2>1 DEF Awaiting
  <2> QED
    BY <1>0, <2>1, <2>2, <2>3 DEF OrdersFit, Listed
<1>9. CASE UNCHANGED vars
  BY <1>0, <1>9, OrdersUnchanged DEF vars
<1> QED
  BY <1>1, <1>2, <1>3, <1>4, <1>5, <1>6, <1>7, <1>8, <1>9, OrdersDo, NextCases

LEMMA ObeyInit == Init => ObeyStrengthened
<1> SUFFICES ASSUME Init PROVE ObeyStrengthened
  OBVIOUS
<1>1. Listed = {}
  BY DEF Init, Listed, Range
<1>2. OneOrderPending /\ Unlaunched /\ TimerFits /\ OrdersFit
  BY <1>1 DEF Init, OneOrderPending, Unlaunched, TimerFits, OrdersFit
<1> QED
  BY <1>1, <1>2, ControlInit DEF ObeyStrengthened

LEMMA ObeyStep == ObeyStrengthened /\ [Next]_vars => ObeyStrengthened'
<1> SUFFICES ASSUME ObeyStrengthened, [Next]_vars PROVE ObeyStrengthened'
  OBVIOUS
<1>1. ControlStrengthened /\ TypeOK /\ PlaceFits /\ ControlStrengthened'
  BY ControlStep DEF ObeyStrengthened, ControlStrengthened
<1>2. Listed' \subseteq Launched' /\ OneOrderPending' /\ Unlaunched' /\ TimerFits' /\ OrdersFit'
  BY <1>1, ListedStep, OneOrderStep, UnlaunchedStep, TimerStep, OrdersStep DEF ObeyStrengthened
<1> QED
  BY <1>1, <1>2 DEF ObeyStrengthened

LEMMA ObeyFollows == ObeyStrengthened => ObeysTheUser
<1> SUFFICES ASSUME ObeyStrengthened, pc = "menu", ~stale,
                    NEW c \in Listed \ mixed, Settled(c)
             PROVE  Obeys(c)
  BY DEF ObeysTheUser
<1>1. Awaiting = {} /\ Alive(c) /\ (Heading(c) <=> permission[c])
  BY DEF Awaiting, Settled, Alive, Heading
<1>2. permission[c] <=> told[c]
  BY <1>1 DEF ObeyStrengthened, OrdersFit
<1>3. permission[c] \in BOOLEAN /\ told[c] \in BOOLEAN
  BY ListFacts DEF ObeyStrengthened, ControlStrengthened, TypeOK
<1>4. permission[c] = told[c]
  BY ONLY <1>2, <1>3
<1> QED
  BY <1>4 DEF Obeys

(***************************************************************************)
(* Wherever signals wait, are lost on a child that is not ready or meet    *)
(* the timer, a child that has heard everything does as the user, or the   *)
(* timer he started, said last.                                            *)
(***************************************************************************)
THEOREM ChildrenObey == Spec => []ObeysTheUser
<1>1. Spec => []ObeyStrengthened
  BY ObeyInit, ObeyStep, PTL DEF Spec
<1> QED
  BY <1>1, ObeyFollows, PTL

-----------------------------------------------------------------------------
(* child.c: the counters and the reports, whatever falls between two stores. *)

LEMMA StatInitHolds == StatInit => StatInvariant
  BY ChildStatAssumption DEF ChildStatAssumption, StatInit, StatInvariant, StatTypeOK, Values,
     Counters, All, CountsCoverAll, SumOfCounts, ResetInvariant, ReportInvariant, BanInvariant, Resetting

LEMMA CounterOfPair == \A p \in Values : CounterOf(p) \in 1..4
  BY DEF Values, CounterOf

LEMMA StatStep == StatInvariant /\ [StatNext]_statVars => StatInvariant'
<1> SUFFICES ASSUME StatInvariant, [StatNext]_statVars PROVE StatInvariant'
  OBVIOUS
<1> USE ChildStatAssumption DEF ChildStatAssumption, StatInvariant
<1>1. CASE Assign
  <2>1. PICK field \in {1, 2}, value \in {0, 1}, from \in {"zero1", "zero2", "one1", "one2"},
             to \in {"zero2", "one1", "one2", "check"} : Store(from, field, value, to)
    BY <1>1 DEF Assign
  <2>2. pair' \in Values
    BY <2>1 DEF Store, StatTypeOK, Values
  <2>3. /\ loopPc' \in {"zero2", "one1", "one2", "check"}
        /\ loopPc \in {"zero1", "zero2", "one1", "one2"}
        /\ UNCHANGED <<count, permissionOutput, cleared, reg, late, shown, disobeyed>>
    BY <2>1 DEF Store, loopVars
  <2>4. StatTypeOK'
    BY <2>2, <2>3 DEF StatTypeOK
  <2>5. CountsCoverAll'
    BY <2>3 DEF CountsCoverAll, SumOfCounts
  <2>6. ResetInvariant' /\ ReportInvariant' /\ BanInvariant'
    BY <2>3 DEF ResetInvariant, ReportInvariant, BanInvariant, Resetting
  <2> QED BY <2>4, <2>5, <2>6
<1>2. CASE CheckCount
  BY <1>2 DEF CheckCount, loopVars, StatTypeOK, Counters, All, CountsCoverAll, SumOfCounts,
     ResetInvariant, ReportInvariant, BanInvariant, Resetting
<1>3. CASE CheckPermission
  BY <1>3 DEF CheckPermission, loopVars, StatTypeOK, Counters, All, CountsCoverAll, SumOfCounts,
     ResetInvariant, ReportInvariant, BanInvariant, Resetting
<1>4. CASE Report
  BY <1>4 DEF Report, loopVars, StatTypeOK, Counters, All, CountsCoverAll, SumOfCounts,
     ResetInvariant, ReportInvariant, BanInvariant, Resetting
<1>5. CASE ResetFirst
  <2>1. /\ loopPc = "reset" /\ loopPc' = "load" /\ cleared' = 1 /\ reg' = 0
        /\ count' \in [Counters -> Nat] /\ count'[1] = 0
        /\ UNCHANGED <<pair, permissionOutput, late, shown, disobeyed>>
    BY <1>5 DEF ResetFirst, StatTypeOK, Counters
  <2>2. StatTypeOK'
    BY <2>1 DEF StatTypeOK, All
  <2>3. CountsCoverAll' /\ ResetInvariant'
    BY <2>1 DEF CountsCoverAll, ResetInvariant
  <2>4. ReportInvariant' /\ BanInvariant'
    BY <2>1 DEF ReportInvariant, BanInvariant, Resetting
  <2> QED BY <2>2, <2>3, <2>4
<1>6. CASE Load
  BY <1>6 DEF Load, loopVars, StatTypeOK, Counters, All, CountsCoverAll, SumOfCounts,
     ResetInvariant, ReportInvariant, BanInvariant, Resetting
<1>7. CASE StoreNext
  <2>1. CASE cleared + 1 = All
    BY <1>7, <2>1 DEF StoreNext, loopVars, StatTypeOK, Counters, All, CountsCoverAll, SumOfCounts,
       ResetInvariant, ReportInvariant, BanInvariant, Resetting
  <2>2. CASE cleared + 1 # All
    BY <1>7, <2>2 DEF StoreNext, loopVars, StatTypeOK, Counters, All, CountsCoverAll, SumOfCounts,
       ResetInvariant, ReportInvariant, BanInvariant, Resetting
  <2> QED BY <2>1, <2>2
<1>8. CASE PairHandling
  <2> DEFINE c == CounterOf(pair)
  <2>1. c \in 1..4
    BY CounterOfPair DEF StatTypeOK
  <2>2. count' = [count EXCEPT ![c] = @ + 1, ![All] = @ + 1]
    BY <1>8 DEF PairHandling
  <2> HIDE DEF c
  <2>3. /\ count' \in [Counters -> Nat]
        /\ count'[All] = count[All] + 1 /\ count'[c] = count[c] + 1
        /\ \A d \in 1..4 : count'[d] >= count[d]
    BY <2>1, <2>2 DEF StatTypeOK, Counters, All
  <2>4. SumOfCounts' = SumOfCounts + 1
    BY <2>1, <2>2 DEF StatTypeOK, Counters, All, SumOfCounts
  <2>5. SumOfCounts \in Nat
    BY DEF StatTypeOK, Counters, SumOfCounts
  <2>6. StatTypeOK'
    BY <1>8, <2>3 DEF PairHandling, loopVars, StatTypeOK
  <2>7. CountsCoverAll'
    BY <1>8, <2>3, <2>4, <2>5 DEF PairHandling, CountsCoverAll, StatTypeOK, Counters, All
  <2>8. ResetInvariant'
    BY <1>8, <2>3 DEF PairHandling, loopVars, ResetInvariant, StatTypeOK, Counters
  <2>9. ReportInvariant' /\ BanInvariant'
    BY <1>8, <2>3 DEF PairHandling, ReportInvariant, BanInvariant, Resetting, StatTypeOK,
       Counters, All
  <2> QED BY <2>6, <2>7, <2>8, <2>9
<1>9. CASE AllowOutput
  BY <1>9 DEF AllowOutput, loopVars, StatTypeOK, Counters, All, CountsCoverAll, SumOfCounts,
     ResetInvariant, ReportInvariant, BanInvariant, Resetting
<1>10. CASE BanOutput
  BY <1>10 DEF BanOutput, loopVars, StatTypeOK, Counters, All, CountsCoverAll, SumOfCounts,
     ResetInvariant, ReportInvariant, BanInvariant, Resetting
<1>11. CASE UNCHANGED statVars
  BY <1>11 DEF statVars, loopVars, StatTypeOK, CountsCoverAll, SumOfCounts,
     ResetInvariant, ReportInvariant, BanInvariant, Resetting
<1> QED
  BY <1>1, <1>2, <1>3, <1>4, <1>5, <1>6, <1>7, <1>8, <1>9, <1>10, <1>11 DEF StatNext, Loop

(* In every reachable state the counters are as StatInvariant describes them. *)
THEOREM StatInvariantHolds == StatSpec => []StatInvariant
  BY StatInitHolds, StatStep, PTL DEF StatSpec

(* Every variable keeps its type. *)
THEOREM StatTypeCorrect == StatSpec => []StatTypeOK
<1>1. StatInvariant => StatTypeOK
  BY DEF StatInvariant
<1> QED BY <1>1, StatInvariantHolds, PTL

(* Outside the reset count_all never stands for more ticks than are shown. *)
THEOREM CountsCoverAllHolds == StatSpec => []CountsCoverAll
<1>1. StatInvariant => CountsCoverAll
  BY DEF StatInvariant
<1> QED BY <1>1, StatInvariantHolds, PTL

(* No report shows MAX_ITERATIONS ticks or fewer. *)
THEOREM ReportIsFullHolds == StatSpec => []ReportIsFull
<1>1. StatInvariant => ReportIsFull
  BY DEF StatInvariant, ReportInvariant, ReportIsFull, Resetting
<1> QED BY <1>1, StatInvariantHolds, PTL

(* After a ban at most one report is made until output is allowed again. *)
THEOREM BanIsObeyedHolds == StatSpec => []BanIsObeyed
<1>1. StatInvariant => BanIsObeyed
  BY DEF StatInvariant, BanInvariant, BanIsObeyed
<1> QED BY <1>1, StatInvariantHolds, PTL

=============================================================================
