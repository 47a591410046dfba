-------------------------- MODULE CondQueueProofs --------------------------
(***************************************************************************)
(* Proofs about lab5-2.c's queue, for any number of threads, any sizes of  *)
(* the ring, any number of spurious wake-ups and any commands of the user. *)
(***************************************************************************)
EXTENDS CondQueueProperties, SequenceTheorems, FiniteSetTheorems, TLAPS

-----------------------------------------------------------------------------
(* Arrays of threads: main appends at the end and removes at the end, and    *)
(* the handler goes through them backwards.                                  *)

LEMMA FrontLast ==
  ASSUME NEW S, NEW s \in Seq(S), s # <<>>
  PROVE  /\ Len(s) \in Nat \ {0} /\ Last(s) \in S /\ Last(s) = s[Len(s)]
         /\ Front(s) \in Seq(S)
         /\ Len(Front(s)) = Len(s) - 1
         /\ \A i \in 1..Len(s) - 1 : Front(s)[i] = s[i]
<1>1. PICK n \in Nat : Len(s) = n + 1
  <2>1. Len(s) \in Nat /\ Len(s) # 0
    OBVIOUS
  <2>2. Len(s) - 1 \in Nat /\ Len(s) = (Len(s) - 1) + 1
    BY <2>1
  <2> QED
    BY <2>2
<1>2. /\ n + 1 \in 1..Len(s) /\ Len(s) - 1 = n /\ \A i \in 1..n : s[i] \in S
      /\ s[Len(s)] \in S
  BY <1>1
<1>3. /\ SubSeq(s, 1, n) \in Seq(S)
      /\ Len(SubSeq(s, 1, n)) = n
      /\ \A i \in 1..n : SubSeq(s, 1, n)[i] = s[i]
  BY <1>2, SubSeqProperties
<1> QED
  BY <1>1, <1>2, <1>3 DEF Last, Front

LEMMA ReverseFacts ==
  ASSUME NEW S, NEW s \in Seq(S)
  PROVE  /\ Reverse(s) \in Seq(S) /\ Len(Reverse(s)) = Len(s)
         /\ \A i \in 1..Len(s) : Reverse(s)[i] = s[Len(s) - i + 1]
<1>1. Len(s) \in Nat /\ \A i \in 1..Len(s) : (Len(s) - i) + 1 \in 1..Len(s)
  OBVIOUS
<1>2. \A i \in 1..Len(s) : s[(Len(s) - i) + 1] \in S
  BY <1>1, ElementOfSeq
<1> QED
  BY <1>1, <1>2 DEF Reverse

-----------------------------------------------------------------------------
(* Type correctness.                                                         *)

\* Where a thread owns the mutex.
Inside == {"test", "sleep", "decide", "copy", "advance", "signal", "unlock"}

\* A consumer that is about to copy has a message to copy, and the handler
\* works for a thread when it wakes and joins one.
WorkInHand ==
  /\ \A c \in Consumers : pc[c] = "copy" => fillCount > 0
  /\ handler \in {"wake", "join"} => todo # <<>>

OwnersAreInside ==
  /\ \A t \in Threads : pc[t] \in Inside => mutex = t
  /\ mutex # Free /\ mainPc # "exited" => pc[mutex] \in Inside

LEMMA SizesPositive == Sizes \subseteq Nat \ {0}
  BY CondQueueAssumption DEF CondQueueAssumption, Sizes

LEMMA TypeInit == Init => TypeOK
<1> SUFFICES ASSUME Init PROVE TypeOK
  OBVIOUS
<1> USE CondQueueAssumption DEF CondQueueAssumption, Init
<1>1. buffer \in [0..InitialSize - 1 -> 0..MaxMessages]
  BY DEF Garbage
<1>2. InitialSize \in Sizes
  BY DEF Sizes
<1>4. buffer \in UNION {[0..n - 1 -> 0..MaxMessages] : n \in Sizes}
  BY <1>1, <1>2
<1>3. pc \in [Threads -> PCs] /\ message \in [Threads -> 0..MaxMessages]
  BY DEF PCs, Garbage
<1>5. /\ head \in Nat /\ tail \in Nat /\ fillCount \in Nat /\ emptyCount \in Int
      /\ bufferSize \in Sizes /\ temp \in Sizes
      /\ pressed \in 0..MaxCtrlC /\ spurious \in 0..MaxSpurious /\ made \in 0..MaxMessages
  BY <1>2
<1>6. /\ mutex \in Threads \cup {Free} /\ target \in Threads \cup {None}
      /\ flag \in [Threads -> BOOLEAN] /\ running \in [Threads -> BOOLEAN]
      /\ mainPc \in {"menu", "wake", "join", "resize", "fixHead", "exited"}
      /\ handler \in {"off", "stop", "wake", "join"} /\ flagForExit \in BOOLEAN
  OBVIOUS
<1>7. /\ producerMas \in Seq(Producers) /\ consumerMas \in Seq(Consumers)
      /\ todo \in Seq(Threads)
      /\ sent \in Seq(0..MaxMessages) /\ received \in Seq(0..MaxMessages)
  OBVIOUS
<1> QED
  BY ONLY <1>3, <1>4, <1>5, <1>6, <1>7 DEF TypeOK

\* Every step that moves a thread's label keeps the labels' type.
LEMMA BroadcastType ==
  ASSUME pc \in [Threads -> PCs], NEW role, Broadcast(role)
  PROVE  /\ pc' \in [Threads -> PCs]
         /\ \A t \in Threads : pc'[t] = pc[t] \/ (pc[t] = "asleep" /\ pc'[t] = "relock")
  BY DEF Broadcast, PCs

LEMMA SignalType ==
  ASSUME pc \in [Threads -> PCs], NEW role \in SUBSET Threads, NEW t \in Threads,
         NEW label \in PCs, SignalOne(role, t, label), pc[t] # "asleep"
  PROVE  /\ pc' \in [Threads -> PCs] /\ pc'[t] = label
         /\ \A q \in Threads :
              q # t => pc'[q] = pc[q] \/ (pc[q] = "asleep" /\ pc'[q] = "relock")
<1> DEFINE sleepers == {s \in role : pc[s] = "asleep"}
<1>1. CASE sleepers = {}
  BY <1>1 DEF SignalOne, Goto
<1>2. CASE sleepers # {}
  <2>1. PICK s \in sleepers : pc' = [pc EXCEPT ![s] = "relock", ![t] = label]
    BY <1>2 DEF SignalOne
  <2> QED
    BY <2>1 DEF PCs
<1> QED
  BY <1>1, <1>2
LEMMA TypeStep == TypeOK /\ WorkInHand /\ [Next]_vars => TypeOK'
<1> SUFFICES ASSUME TypeOK, WorkInHand, [Next]_vars PROVE TypeOK'
  OBVIOUS
<1> USE CondQueueAssumption
    DEF CondQueueAssumption, TypeOK, Goto, ringVars, localVars, mainVars, handlerVars,
        historyVars
<1>1. CASE UNCHANGED vars
  BY <1>1 DEF vars
<1>2. ASSUME NEW t \in Threads, Loop(t) PROVE TypeOK'
  <2>1. made' \in 0..MaxMessages /\ message' \in [Threads -> 0..MaxMessages]
    <3>1. CASE ~running[t]
      BY <1>2, <3>1 DEF Loop
    <3>2. CASE running[t]
      <4>1. /\ made' = IF t \in Producers THEN made + 1 ELSE made
            /\ message' = [message EXCEPT ![t] = IF t \in Producers THEN made + 1 ELSE Garbage]
            /\ t \in Producers => made < MaxMessages
        BY <1>2, <3>2 DEF Loop
      <4> QED
        BY <4>1 DEF Garbage
    <3> QED
      BY <3>1, <3>2
  <2>2. pc' \in [Threads -> PCs] /\ flag' \in [Threads -> BOOLEAN]
    BY <1>2 DEF Loop, PCs
  <2> QED
    BY <1>2, <2>1, <2>2 DEF Loop
<1>3. ASSUME NEW t \in Threads, Lock(t) \/ Test(t) \/ CondWait(t) \/ SpuriousWakeup(t)
      PROVE  TypeOK'
  <2>1. pc' \in [Threads -> PCs]
    BY <1>3 DEF Lock, Test, CondWait, SpuriousWakeup, PCs
  <2>2. mutex' \in Threads \cup {Free}
    BY <1>3 DEF Lock, Test, CondWait, SpuriousWakeup
  <2>4. spurious' \in 0..MaxSpurious
    <3>1. spurious' = spurious \/ (spurious < MaxSpurious /\ spurious' = spurious + 1)
      BY <1>3 DEF Lock, Test, CondWait, SpuriousWakeup
    <3>2. spurious \in 0..MaxSpurious /\ MaxSpurious \in Nat
      OBVIOUS
    <3> QED
      BY ONLY <3>1, <3>2
  <2>3. UNCHANGED <<ringVars, localVars, mainVars, handlerVars, made, sent, received>>
    BY <1>3 DEF Lock, Test, CondWait, SpuriousWakeup
  <2> QED
    BY ONLY TypeOK, <2>1, <2>2, <2>3, <2>4
       DEF TypeOK, ringVars, localVars, mainVars, handlerVars
<1>4. ASSUME NEW t \in Threads, Decide(t) PROVE TypeOK'
  <2>1. flag' \in [Threads -> BOOLEAN]
    <3>1. flag' = [flag EXCEPT ![t] = ~MustWait(t)] /\ flag \in [Threads -> BOOLEAN]
      BY <1>4 DEF Decide
    <3> QED
      BY ONLY <3>1, ZenonT(30)
  <2> QED
    BY <1>4, <2>1 DEF Decide, PCs
<1>5. ASSUME NEW p \in Producers, CopyIn(p) PROVE TypeOK'
  <2>1. pc' \in [Threads -> PCs] /\ message[p] \in 0..MaxMessages
    BY <1>5 DEF CopyIn, PCs, Threads
  <2>2. PICK n \in Sizes : buffer \in [0..n - 1 -> 0..MaxMessages]
    OBVIOUS
  <2>3. buffer' \in [0..n - 1 -> 0..MaxMessages]
    BY <1>5, <2>1, <2>2 DEF CopyIn
  <2>4. buffer' \in UNION {[0..m - 1 -> 0..MaxMessages] : m \in Sizes}
    BY <2>3
  <2> QED
    BY <1>5, <2>1, <2>4 DEF CopyIn
<1>6. ASSUME NEW c \in Consumers, CopyOut(c) PROVE TypeOK'
  <2>1. fillCount' \in Nat /\ emptyCount' \in Int /\ pc' \in [Threads -> PCs]
    BY <1>6 DEF CopyOut, WorkInHand, PCs, Threads
  <2>2. buffer[tail] \in 0..MaxMessages
    <3>1. PICK n \in Sizes : buffer \in [0..n - 1 -> 0..MaxMessages]
      BY DEF TypeOK
    <3>2. tail \in DOMAIN buffer
      BY <1>6 DEF CopyOut
    <3> QED
      BY ONLY <3>1, <3>2
  <2> QED
    BY <1>6, <2>1, <2>2 DEF CopyOut
<1>7. ASSUME NEW p \in Producers, AdvanceHead(p) PROVE TypeOK'
  <2>1. head' \in Nat
    BY <1>7, SizesPositive DEF AdvanceHead
  <2>2. sent' \in Seq(0..MaxMessages) /\ pc' \in [Threads -> PCs]
    BY <1>7 DEF AdvanceHead, PCs, Threads
  <2> QED
    BY <1>7, <2>1, <2>2 DEF AdvanceHead
<1>8. ASSUME NEW c \in Consumers, AdvanceTail(c) PROVE TypeOK'
  <2>1. tail' \in Nat
    BY <1>8, SizesPositive DEF AdvanceTail
  <2>2. received' \in Seq(0..MaxMessages) /\ pc' \in [Threads -> PCs]
    BY <1>8 DEF AdvanceTail, PCs, Threads
  <2> QED
    BY <1>8, <2>1, <2>2 DEF AdvanceTail
<1>9. ASSUME NEW t \in Threads, Signal(t) PROVE TypeOK'
  <2>1. pc' \in [Threads -> PCs]
    BY <1>9, SignalType DEF Signal, PCs, Threads
  <2> QED
    BY <1>9, <2>1 DEF Signal
<1>10. ASSUME NEW t \in Threads, Unlock(t) PROVE TypeOK'
  BY <1>10 DEF Unlock, PCs
<1>11. ASSUME NEW p \in Producers, LaunchProducer(p) PROVE TypeOK'
  BY <1>11 DEF LaunchProducer, Launch, PCs, Threads
<1>12. ASSUME NEW c \in Consumers, LaunchConsumer(c) PROVE TypeOK'
  BY <1>12 DEF LaunchConsumer, Launch, PCs, Threads
<1>13. CASE CreateFails \/ Leave
  BY <1>13 DEF CreateFails, Leave, PCs
<1>14. CASE RemoveProducer
  <2>1. Last(producerMas) \in Producers /\ producerMas' \in Seq(Producers)
    BY <1>14, FrontLast DEF RemoveProducer
  <2> QED
    BY <1>14, <2>1 DEF RemoveProducer, Stop, Threads
<1>15. CASE RemoveConsumer
  <2>1. Last(consumerMas) \in Consumers /\ consumerMas' \in Seq(Consumers)
    BY <1>15, FrontLast DEF RemoveConsumer
  <2> QED
    BY <1>15, <2>1 DEF RemoveConsumer, Stop, Threads
<1>16. CASE WakeTarget \/ HandlerWake
  <2>1. pc' \in [Threads -> PCs]
    BY <1>16, BroadcastType DEF WakeTarget, HandlerWake
  <2> QED
    BY <1>16, <2>1 DEF WakeTarget, HandlerWake
<1>17. CASE JoinTarget
  BY <1>17 DEF JoinTarget, PCs
<1>18. CASE \E n \in NewSizes : EnterSize(n)
  BY <1>18 DEF EnterSize, Sizes
<1>19. CASE RefuseSize
  BY <1>19 DEF RefuseSize
<1>20. CASE Realloc
  <2>1. buffer' \in [0..bufferSize - 1 -> 0..MaxMessages]
    <3>1. PICK n \in Sizes : buffer \in [0..n - 1 -> 0..MaxMessages]
      BY DEF TypeOK
    <3>2. buffer' = [s \in 0..bufferSize - 1 |-> IF s \in DOMAIN buffer THEN buffer[s] ELSE Garbage]
      BY <1>20 DEF Realloc
    <3>3. Garbage \in 0..MaxMessages
      BY DEF Garbage
    <3> QED
      BY ONLY <3>1, <3>2, <3>3
  <2>2. buffer' \in UNION {[0..n - 1 -> 0..MaxMessages] : n \in Sizes}
    BY <2>1
  <2> QED
    BY <1>20, <2>2 DEF Realloc
<1>21. CASE FixHead
  <2>1. pc' \in [Threads -> PCs]
    BY <1>21, BroadcastType DEF FixHead
  <2>2. head' \in Nat
    BY <1>21, SizesPositive DEF FixHead
  <2> QED
    BY <1>21, <2>1, <2>2 DEF FixHead
<1>22. CASE CtrlC
  <2>1. Reverse(producerMas) \in Seq(Producers) /\ Reverse(consumerMas) \in Seq(Consumers)
    BY ReverseFacts
  <2>2. todo' \in Seq(Threads)
    BY <1>22, <2>1, ConcatProperties, SMTT(20) DEF CtrlC, Threads
  <2>3. pressed' \in 0..MaxCtrlC
    BY <1>22 DEF CtrlC
  <2> QED
    BY <1>22, <2>2, <2>3 DEF CtrlC
<1>23. CASE HandlerStop \/ HandlerReturn
  BY <1>23 DEF HandlerStop, HandlerReturn
<1>24. CASE HandlerJoin
  <2>1. todo' \in Seq(Threads) /\ pc' \in [Threads -> PCs]
    BY <1>24 DEF HandlerJoin, WorkInHand, PCs
  <2> QED
    BY <1>24, <2>1 DEF HandlerJoin
<1> QED
  BY ONLY <1>1, <1>2, <1>3, <1>4, <1>5, <1>6, <1>7, <1>8, <1>9, <1>10, <1>11, <1>12,
     <1>13, <1>14, <1>15, <1>16, <1>17, <1>18, <1>19, <1>20, <1>21, <1>22, <1>23,
     <1>24, [Next]_vars
     DEF Next, User, MainStep, HandlerStep, ThreadStep

-----------------------------------------------------------------------------
(* The mutex.                                                                *)

InnerStep(t) ==
  \/ Test(t) \/ Decide(t) \/ Signal(t)
  \/ t \in Producers /\ (CopyIn(t) \/ AdvanceHead(t))
  \/ t \in Consumers /\ (CopyOut(t) \/ AdvanceTail(t))

\* What a step does that no thread with the mutex takes: nobody comes in or goes
\* out, unless the process ends.  The ring moves only for a resize.
Elsewhere ==
  /\ UNCHANGED <<mutex, tail, fillCount, sent, received>>
  /\ mainPc = "exited" => mainPc' = "exited"
  /\ \A q \in Threads :
       \/ pc'[q] = pc[q] /\ message'[q] = message[q]
       \/ pc[q] \notin Inside /\ pc'[q] \notin Inside
       \/ pc'[q] = "none" /\ mainPc' = "exited"
  /\ \/ UNCHANGED <<head, buffer, bufferSize>>
     \/ NewSizes # {} \/ mainPc \in {"resize", "fixHead"}

LEMMA StepCases ==
  TypeOK /\ [Next]_vars =>
    \/ Elsewhere
    \/ /\ mainPc # "exited"
       /\ \E t \in Threads : Lock(t) \/ CondWait(t) \/ Unlock(t) \/ InnerStep(t)
<1> SUFFICES ASSUME TypeOK, [Next]_vars,
                    ~ (/\ mainPc # "exited"
                       /\ \E t \in Threads :
                            Lock(t) \/ CondWait(t) \/ Unlock(t) \/ InnerStep(t))
             PROVE  Elsewhere
  OBVIOUS
<1> USE DEF Elsewhere, Goto, ringVars, localVars, mainVars, handlerVars, historyVars
<1>1. pc \in [Threads -> PCs] /\ message \in [Threads -> 0..MaxMessages]
  BY DEF TypeOK
<1>2. CASE UNCHANGED vars
  BY <1>2 DEF vars
<1>3. ASSUME NEW t \in Threads, Loop(t) PROVE Elsewhere
  BY <1>1, <1>3 DEF Loop, Inside
<1>4. ASSUME NEW t \in Threads, SpuriousWakeup(t) PROVE Elsewhere
  BY <1>1, <1>4 DEF SpuriousWakeup, Inside
<1>5. ASSUME NEW t \in Threads, LaunchProducer(t) \/ LaunchConsumer(t) PROVE Elsewhere
  BY <1>1, <1>5 DEF LaunchProducer, LaunchConsumer, AtMenu, Launch, Inside
<1>6. CASE CreateFails
  BY <1>1, <1>6 DEF CreateFails
<1>7. CASE RemoveProducer \/ RemoveConsumer
  BY <1>7 DEF RemoveProducer, RemoveConsumer, AtMenu, Stop
<1>8. CASE WakeTarget \/ HandlerWake \/ FixHead
  <2>1. \E role \in {RoleOf(target), RoleOf(Head(todo)), Producers} : Broadcast(role)
    BY <1>8 DEF WakeTarget, HandlerWake, FixHead
  <2>2. \A q \in Threads : pc'[q] = pc[q] \/ (pc[q] = "asleep" /\ pc'[q] = "relock")
    BY <1>1, <2>1, BroadcastType
  <2> QED
    BY <1>8, <2>2 DEF WakeTarget, HandlerWake, FixHead, Inside
<1>9. CASE JoinTarget
  BY <1>1, <1>9 DEF JoinTarget, Inside
<1>10. CASE HandlerJoin
  BY <1>1, <1>10 DEF HandlerJoin, Inside
<1>11. CASE (\E n \in NewSizes : EnterSize(n)) \/ RefuseSize \/ Realloc
  BY <1>11 DEF EnterSize, RefuseSize, Realloc, AtMenu
<1>12. CASE CtrlC \/ HandlerStop \/ HandlerReturn \/ Leave
  BY <1>12 DEF CtrlC, HandlerStop, HandlerReturn, Leave
<1> QED
  BY <1>2, <1>3, <1>4, <1>5, <1>6, <1>7, <1>8, <1>9, <1>10, <1>11, <1>12
     DEF Next, User, MainStep, HandlerStep, ThreadStep, InnerStep, Threads

\* A thread that works with the mutex stays inside, and wakes up others at most.
LEMMA InnerFacts ==
  ASSUME TypeOK, NEW t \in Threads, InnerStep(t)
  PROVE  /\ pc[t] \in Inside /\ pc'[t] \in Inside /\ mutex' = mutex /\ mainPc' = mainPc
         /\ UNCHANGED <<bufferSize, handler, todo>>
         /\ \A q \in Threads :
              q # t => pc'[q] = pc[q] \/ (pc[q] = "asleep" /\ pc'[q] = "relock")
<1> USE DEF Goto, ringVars, localVars, mainVars, handlerVars, historyVars, Inside
<1>1. pc \in [Threads -> PCs]
  BY DEF TypeOK
<1>2. CASE Test(t) \/ Decide(t)
  BY <1>1, <1>2 DEF Test, Decide
<1>3. CASE Signal(t)
  BY <1>1, <1>3, SignalType DEF Signal, Threads, PCs
<1>4. CASE t \in Producers /\ (CopyIn(t) \/ AdvanceHead(t))
  BY <1>1, <1>4 DEF CopyIn, AdvanceHead
<1>5. CASE t \in Consumers /\ (CopyOut(t) \/ AdvanceTail(t))
  BY <1>1, <1>5 DEF CopyOut, AdvanceTail
<1> QED
  BY <1>2, <1>3, <1>4, <1>5 DEF InnerStep

LEMMA OwnersStep ==
  TypeOK /\ OwnersAreInside /\ [Next]_vars => OwnersAreInside'
<1> SUFFICES ASSUME TypeOK, OwnersAreInside, [Next]_vars PROVE OwnersAreInside'
  OBVIOUS
<1>1. /\ pc \in [Threads -> PCs] /\ mutex \in Threads \cup {Free}
      /\ Free \notin Threads
  BY CondQueueAssumption DEF CondQueueAssumption, TypeOK, Threads
<1>2. CASE Elsewhere
  BY <1>1, <1>2 DEF Elsewhere, OwnersAreInside, Inside
<1>3. ASSUME NEW t \in Threads, Lock(t) PROVE OwnersAreInside'
  BY <1>1, <1>3 DEF Lock, Goto, OwnersAreInside, Inside
<1>4. ASSUME NEW t \in Threads, CondWait(t) \/ Unlock(t) PROVE OwnersAreInside'
  BY <1>1, <1>4 DEF CondWait, Unlock, Goto, OwnersAreInside, Inside
<1>5. ASSUME NEW t \in Threads, InnerStep(t) PROVE OwnersAreInside'
  BY <1>1, <1>5, InnerFacts DEF OwnersAreInside, Inside
<1> QED
  BY <1>2, <1>3, <1>4, <1>5, StepCases

LEMMA WorkStep ==
  TypeOK /\ WorkInHand /\ OwnersAreInside /\ [Next]_vars => WorkInHand'
<1> SUFFICES ASSUME TypeOK, WorkInHand, OwnersAreInside, [Next]_vars PROVE WorkInHand'
  OBVIOUS
<1>1. pc \in [Threads -> PCs] /\ fillCount \in Nat /\ todo \in Seq(Threads)
  BY DEF TypeOK
<1>2. (handler \in {"wake", "join"} => todo # <<>>)'
  BY DEF WorkInHand, Next, User, MainStep, HandlerStep, ThreadStep, vars, handlerVars,
         Loop, Lock, Test, CondWait, SpuriousWakeup, Decide, CopyIn, CopyOut, AdvanceHead,
         AdvanceTail, Signal, Unlock, LaunchProducer, LaunchConsumer, Launch, CreateFails,
         RemoveProducer, RemoveConsumer, Stop, WakeTarget, JoinTarget, EnterSize, RefuseSize,
         Realloc, FixHead, Leave, CtrlC, HandlerStop, HandlerWake, HandlerJoin, HandlerReturn
<1>3. ASSUME NEW c \in Consumers, pc'[c] = "copy" PROVE fillCount' > 0
  <2>1. c \in Threads /\ c \notin Producers
    BY CondQueueAssumption DEF CondQueueAssumption, Threads
  <2>2. CASE Elsewhere
    BY <1>3, <2>1, <2>2 DEF Elsewhere, Inside, WorkInHand
  <2>3. ASSUME NEW t \in Threads, Lock(t) \/ CondWait(t) \/ Unlock(t) PROVE fillCount' > 0
    BY <1>1, <1>3, <2>1, <2>3 DEF Lock, CondWait, Unlock, Goto, ringVars, WorkInHand
  <2>4. ASSUME NEW t \in Threads, InnerStep(t), t # c PROVE fillCount' > 0
    <3>1. pc[c] = "copy" /\ pc[t] \in Inside
      BY <1>3, <2>1, <2>4, InnerFacts
    <3> QED
      BY <2>1, <2>4, <3>1 DEF OwnersAreInside, Inside
  <2>5. CASE InnerStep(c)
    <3>1. Decide(c) /\ ~MustWait(c)
      BY <1>1, <1>3, <2>1, <2>5, SignalType
         DEF InnerStep, Test, Decide, Signal, CopyOut, AdvanceTail, Goto, PCs, Threads
    <3> QED
      BY <1>1, <2>1, <3>1 DEF Decide, MustWait, ringVars
  <2> QED
    BY <2>2, <2>3, <2>4, <2>5, StepCases
<1> QED
  BY <1>2, <1>3 DEF WorkInHand

MutexStrengthened == TypeOK /\ OwnersAreInside /\ WorkInHand

LEMMA MutexIsInductive ==
  /\ Init => MutexStrengthened
  /\ MutexStrengthened /\ [Next]_vars => MutexStrengthened'
<1>1. Init => OwnersAreInside /\ WorkInHand
  BY DEF Init, OwnersAreInside, WorkInHand, Inside, Threads
<1> QED
  BY <1>1, TypeInit, TypeStep, OwnersStep, WorkStep DEF MutexStrengthened

\* No thread ends with the mutex, and every variable keeps its type: however
\* many threads are launched, removed and interrupted, and also while main
\* changes the size of the ring without the mutex.
THEOREM MutexIsGivenBack == Spec => []MutexInvariant
<1>1. MutexStrengthened => MutexInvariant
  BY DEF MutexStrengthened, MutexInvariant, OwnerIsAlive, OwnersAreInside, Alive, Inside, TypeOK
<1> QED
  BY <1>1, MutexIsInductive, PTL DEF Spec

-----------------------------------------------------------------------------
(* What a sequence without repetitions holds when one is added or removed.   *)

LEMMA RangeFacts ==
  ASSUME NEW S, NEW s \in Seq(S)
  PROVE  /\ Range(s) = {s[i] : i \in 1..Len(s)} /\ Range(s) \subseteq S
         /\ IsInjective(s) <=> \A i, j \in 1..Len(s) : s[i] = s[j] => i = j
<1>1. DOMAIN s = 1..Len(s)
  OBVIOUS
<1>2. \A i \in 1..Len(s) : s[i] \in S
  BY ElementOfSeq
<1> QED
  BY <1>1, <1>2 DEF Range, IsInjective

LEMMA AppendRange ==
  ASSUME NEW S, NEW s \in Seq(S), NEW e \in S
  PROVE  /\ Range(Append(s, e)) = Range(s) \cup {e}
         /\ IsInjective(s) /\ e \notin Range(s) => IsInjective(Append(s, e))
<1>1. /\ Append(s, e) \in Seq(S) /\ Len(Append(s, e)) = Len(s) + 1 /\ Len(s) \in Nat
      /\ Append(s, e)[Len(s) + 1] = e /\ \A i \in 1..Len(s) : Append(s, e)[i] = s[i]
  BY AppendProperties
<1>2. \A i \in 1..Len(s) + 1 : i \in 1..Len(s) \/ i = Len(s) + 1
  BY <1>1
<1>3. Range(Append(s, e)) = {Append(s, e)[i] : i \in 1..Len(s) + 1}
  BY <1>1, RangeFacts
<1>4. Range(s) = {s[i] : i \in 1..Len(s)}
  BY RangeFacts
<1>5. Range(Append(s, e)) = Range(s) \cup {e}
  <2>1. \A x : x \in Range(Append(s, e)) => x \in Range(s) \cup {e}
    BY <1>1, <1>2, <1>3, <1>4
  <2>2. \A i \in 1..Len(s) : i \in 1..Len(s) + 1 /\ Append(s, e)[i] = s[i]
    BY <1>1
  <2>3. Len(s) + 1 \in 1..Len(s) + 1
    BY <1>1
  <2> QED
    BY <1>1, <1>3, <1>4, <2>1, <2>2, <2>3
<1>6. ASSUME IsInjective(s), e \notin Range(s) PROVE IsInjective(Append(s, e))
  <2>1. \A i, j \in 1..Len(s) : s[i] = s[j] => i = j
    BY <1>6, RangeFacts
  <2>2. \A i \in 1..Len(s) : s[i] # e
    BY <1>4, <1>6
  <2>3. \A i, j \in 1..Len(s) + 1 : Append(s, e)[i] = Append(s, e)[j] => i = j
    BY <1>1, <1>2, <2>1, <2>2
  <2> QED
    BY <1>1, <2>3, RangeFacts
<1> QED
  BY <1>5, <1>6

LEMMA FrontRange ==
  ASSUME NEW S, NEW s \in Seq(S), s # <<>>, IsInjective(s)
  PROVE  /\ Range(s) = Range(Front(s)) \cup {Last(s)}
         /\ Last(s) \notin Range(Front(s)) /\ IsInjective(Front(s))
<1>1. /\ Len(s) \in Nat \ {0} /\ Last(s) = s[Len(s)]
      /\ Front(s) \in Seq(S) /\ Len(Front(s)) = Len(s) - 1
      /\ \A i \in 1..Len(s) - 1 : Front(s)[i] = s[i]
  BY FrontLast
<1>2. \A i \in 1..Len(s) : i \in 1..Len(s) - 1 \/ i = Len(s)
  BY <1>1
<1>3. /\ \A i \in 1..Len(s) - 1 : i \in 1..Len(s) /\ i # Len(s)
      /\ Len(s) \in 1..Len(s)
  BY <1>1
<1>4. \A i, j \in 1..Len(s) : s[i] = s[j] => i = j
  BY RangeFacts
<1>5. Range(s) = {s[i] : i \in 1..Len(s)}
  BY RangeFacts
<1>6. Range(Front(s)) = {Front(s)[i] : i \in 1..Len(s) - 1}
  BY <1>1, RangeFacts
<1>7. Range(s) = Range(Front(s)) \cup {Last(s)}
  BY <1>1, <1>2, <1>3, <1>5, <1>6
<1>8. Last(s) \notin Range(Front(s))
  BY <1>1, <1>3, <1>4, <1>6
<1>9. \A i, j \in 1..Len(Front(s)) : Front(s)[i] = Front(s)[j] => i = j
  BY <1>1, <1>3, <1>4
<1> QED
  BY <1>1, <1>7, <1>8, <1>9, RangeFacts

LEMMA TailRange ==
  ASSUME NEW S, NEW s \in Seq(S), s # <<>>, IsInjective(s)
  PROVE  /\ Range(s) = Range(Tail(s)) \cup {Head(s)}
         /\ Head(s) \notin Range(Tail(s)) /\ IsInjective(Tail(s))
<1>1. /\ Len(s) \in Nat \ {0} /\ Head(s) = s[1]
      /\ Tail(s) \in Seq(S) /\ Len(Tail(s)) = Len(s) - 1
      /\ \A i \in 1..Len(s) - 1 : Tail(s)[i] = s[i + 1]
  BY HeadTailProperties, EmptySeq
<1>2. \A i \in 1..Len(s) : i = 1 \/ (i - 1 \in 1..Len(s) - 1 /\ i = (i - 1) + 1)
  BY <1>1
<1>3. /\ \A i \in 1..Len(s) - 1 : i + 1 \in 1..Len(s) /\ i + 1 # 1
      /\ 1 \in 1..Len(s)
  BY <1>1
<1>4. \A i, j \in 1..Len(s) : s[i] = s[j] => i = j
  BY RangeFacts
<1>5. Range(s) = {s[i] : i \in 1..Len(s)}
  BY RangeFacts
<1>6. Range(Tail(s)) = {Tail(s)[i] : i \in 1..Len(s) - 1}
  <2> DEFINE u == Tail(s)
  <2>1. u \in Seq(S) /\ Len(u) = Len(s) - 1
    BY <1>1
  <2> HIDE DEF u
  <2>2. Range(u) = {u[i] : i \in 1..Len(s) - 1}
    BY <2>1, RangeFacts
  <2> QED
    BY <2>2 DEF u
<1>7. Range(s) = Range(Tail(s)) \cup {Head(s)}
  <2>1. ASSUME NEW i \in 1..Len(s) PROVE s[i] \in Range(Tail(s)) \cup {Head(s)}
    <3>1. CASE i = 1
      BY <1>1, <3>1
    <3>2. CASE i # 1
      <4>1. i - 1 \in 1..Len(s) - 1 /\ Tail(s)[i - 1] = s[i]
        BY <1>1, <1>2, <3>2
      <4> QED
        BY <1>6, <4>1
    <3> QED
      BY <3>1, <3>2
  <2> QED
    BY <1>1, <1>3, <1>5, <1>6, <2>1
<1>8. Head(s) \notin Range(Tail(s))
  BY <1>1, <1>3, <1>4, <1>6
<1>9. \A i, j \in 1..Len(Tail(s)) : Tail(s)[i] = Tail(s)[j] => i = j
  <2>1. ASSUME NEW i \in 1..Len(s) - 1, NEW j \in 1..Len(s) - 1, Tail(s)[i] = Tail(s)[j]
        PROVE  i = j
    <3>1. i + 1 = j + 1
      BY <1>1, <1>3, <1>4, <2>1
    <3> QED
      BY <3>1
  <2> QED
    BY <1>1, <2>1
<1> QED
  BY <1>1, <1>7, <1>8, <1>9, RangeFacts

LEMMA ReverseRange ==
  ASSUME NEW S, NEW s \in Seq(S)
  PROVE  /\ Range(Reverse(s)) = Range(s)
         /\ IsInjective(s) => IsInjective(Reverse(s))
<1>1. /\ Reverse(s) \in Seq(S) /\ Len(Reverse(s)) = Len(s) /\ Len(s) \in Nat
      /\ \A i \in 1..Len(s) : Reverse(s)[i] = s[Len(s) - i + 1]
  BY ReverseFacts
<1>2. \A i \in 1..Len(s) : /\ Len(s) - i + 1 \in 1..Len(s)
                            /\ Len(s) - (Len(s) - i + 1) + 1 = i
  BY <1>1
<1>3. Range(s) = {s[i] : i \in 1..Len(s)}
  BY RangeFacts
<1>4. Range(Reverse(s)) = {Reverse(s)[i] : i \in 1..Len(s)}
  BY <1>1, RangeFacts
<1>5. ASSUME NEW i \in 1..Len(s)
      PROVE  s[i] = Reverse(s)[Len(s) - i + 1]
  <2>1. Reverse(s)[Len(s) - i + 1] = s[Len(s) - (Len(s) - i + 1) + 1]
    BY <1>1, <1>2
  <2> QED
    BY <1>2, <2>1
<1>6. Range(Reverse(s)) = Range(s)
  <2>1. \A x \in Range(s) : x \in Range(Reverse(s))
    BY <1>2, <1>3, <1>4, <1>5
  <2>2. \A x \in Range(Reverse(s)) : x \in Range(s)
    BY <1>1, <1>2, <1>3, <1>4
  <2> QED
    BY <2>1, <2>2
<1>7. ASSUME IsInjective(s) PROVE IsInjective(Reverse(s))
  <2>1. \A i, j \in 1..Len(s) : s[i] = s[j] => i = j
    BY <1>7, RangeFacts
  <2>2. ASSUME NEW i \in 1..Len(s), NEW j \in 1..Len(s), Reverse(s)[i] = Reverse(s)[j]
        PROVE  i = j
    <3>1. Len(s) - i + 1 = Len(s) - j + 1
      BY <1>1, <1>2, <2>1, <2>2
    <3> QED
      BY <1>1, <3>1
  <2> QED
    BY <1>1, <2>2, RangeFacts
<1> QED
  BY <1>6, <1>7

LEMMA ConcatRange ==
  ASSUME NEW S, NEW s \in Seq(S), NEW u \in Seq(S)
  PROVE  /\ Range(s \o u) = Range(s) \cup Range(u)
         /\ IsInjective(s) /\ IsInjective(u) /\ Range(s) \cap Range(u) = {}
              => IsInjective(s \o u)
<1>1. /\ s \o u \in Seq(S) /\ Len(s \o u) = Len(s) + Len(u)
      /\ Len(s) \in Nat /\ Len(u) \in Nat
      /\ \A i \in 1..Len(s) : i \in 1..Len(s) + Len(u) /\ (s \o u)[i] = s[i]
      /\ \A i \in 1..Len(u) : Len(s) + i \in 1..Len(s) + Len(u)
                              /\ (s \o u)[Len(s) + i] = u[i]
  BY ConcatProperties
<1>2. \A k \in 1..Len(s) + Len(u) :
        k \in 1..Len(s) \/ (k - Len(s) \in 1..Len(u) /\ k = Len(s) + (k - Len(s)))
  BY <1>1
<1>3. Range(s) = {s[i] : i \in 1..Len(s)} /\ Range(u) = {u[i] : i \in 1..Len(u)}
  BY RangeFacts
<1>4. Range(s \o u) = {(s \o u)[k] : k \in 1..Len(s) + Len(u)}
  BY <1>1, RangeFacts
<1>5. \A k \in 1..Len(s) + Len(u) : \/ k \in 1..Len(s) /\ (s \o u)[k] = s[k]
                                    \/ \E i \in 1..Len(u) : /\ k = Len(s) + i
                                                            /\ (s \o u)[k] = u[i]
  BY <1>1, <1>2
<1>6. Range(s \o u) = Range(s) \cup Range(u)
  <2>1. \A x \in Range(s \o u) : x \in Range(s) \cup Range(u)
    BY <1>3, <1>4, <1>5
  <2>2. \A x \in Range(s) \cup Range(u) : x \in Range(s \o u)
    BY <1>1, <1>3, <1>4
  <2> QED
    BY <2>1, <2>2
<1>7. ASSUME IsInjective(s), IsInjective(u), Range(s) \cap Range(u) = {}
      PROVE  IsInjective(s \o u)
  <2>1. /\ \A i, j \in 1..Len(s) : s[i] = s[j] => i = j
        /\ \A i, j \in 1..Len(u) : u[i] = u[j] => i = j
    BY <1>7, RangeFacts
  <2>2. \A i \in 1..Len(s), j \in 1..Len(u) : s[i] # u[j]
    BY <1>3, <1>7
  <2>3. \A k, l \in 1..Len(s) + Len(u) : (s \o u)[k] = (s \o u)[l] => k = l
    BY <1>5, <2>1, <2>2
  <2> QED
    BY <1>1, <2>3, RangeFacts
<1> QED
  BY <1>6, <1>7

-----------------------------------------------------------------------------
(* Every thread that was launched is joined once: it is in an array, in what *)
(* the handler still has to join, or it is the one a removal joins, and in   *)
(* no two of them.  The handler runs once: a second Ctrl+C would join the    *)
(* threads of the arrays again.                                              *)

Held(t) == pc[t] \notin {"none", "joined"}
HeldThreads == {t \in Threads : Held(t)}

Listed == Range(producerMas) \cup Range(consumerMas)

Joining == IF mainPc \in {"wake", "join"} THEN {target} ELSE {}

Pending == IF handler # "off" THEN Range(todo)
           ELSE IF flagForExit \/ mainPc = "exited" THEN {} ELSE Listed

JoinStrengthened ==
  /\ HeldThreads = Pending \cup Joining
  /\ Pending \cap Joining = {}
  /\ IsInjective(producerMas) /\ IsInjective(consumerMas) /\ IsInjective(todo)
  /\ handler # "off" \/ flagForExit => pressed = 1
  /\ handler # "off" => ~flagForExit /\ mainPc # "exited"

\* The steps that neither launch nor join a thread, nor change who is to join it.
Quiet ==
  /\ UNCHANGED <<producerMas, consumerMas, todo, flagForExit, pressed, target>>
  /\ handler' = "off" <=> handler = "off"
  /\ mainPc' \in {"wake", "join"} <=> mainPc \in {"wake", "join"}
  /\ mainPc' = "exited" <=> mainPc = "exited"
  /\ \A t \in Threads : Held(t)' <=> Held(t)

JoinStep ==
  \/ \E p \in Producers : LaunchProducer(p)
  \/ \E c \in Consumers : LaunchConsumer(c)
  \/ CreateFails \/ RemoveProducer \/ RemoveConsumer \/ JoinTarget \/ Leave
  \/ CtrlC \/ HandlerJoin \/ HandlerReturn

LEMMA QuietOrJoin == TypeOK /\ [Next]_vars => Quiet \/ JoinStep
<1> SUFFICES ASSUME TypeOK, [Next]_vars, ~JoinStep PROVE Quiet
  OBVIOUS
<1> USE DEF Quiet, Held, Goto, ringVars, localVars, mainVars, handlerVars, historyVars
<1>1. pc \in [Threads -> PCs]
  BY DEF TypeOK
<1>2. CASE UNCHANGED vars
  BY <1>2 DEF vars
<1>3. ASSUME NEW t \in Threads, Loop(t) PROVE Quiet
  <2>1. pc[t] = "loop" /\ (Goto(t, "done") \/ Goto(t, "lock"))
    BY <1>3 DEF Loop
  <2> QED
    BY <1>1, <1>3, <2>1 DEF Loop
<1>4. ASSUME NEW t \in Threads,
             Lock(t) \/ Test(t) \/ CondWait(t) \/ Decide(t) \/ Unlock(t) \/ SpuriousWakeup(t)
      PROVE  Quiet
  <2>1. Held(t) /\ \E l \in PCs \ {"none", "joined"} : pc' = [pc EXCEPT ![t] = l]
    BY <1>1, <1>4 DEF Lock, Test, CondWait, Decide, Unlock, SpuriousWakeup, PCs
  <2>2. UNCHANGED <<mainVars, handlerVars>>
    BY <1>4 DEF Lock, Test, CondWait, Decide, Unlock, SpuriousWakeup
  <2> QED
    BY <1>1, <2>1, <2>2
<1>5. ASSUME NEW t \in Threads, InnerStep(t) PROVE Quiet
  <2>1. \A q \in Threads : Held(q)' <=> Held(q)
    BY <1>1, <1>5, InnerFacts DEF Inside
  <2>2. UNCHANGED <<mainVars, handlerVars>>
    BY <1>5 DEF InnerStep, Test, Decide, Signal, CopyIn, AdvanceHead, CopyOut, AdvanceTail
  <2> QED
    BY <2>1, <2>2
<1>6. CASE WakeTarget \/ HandlerWake \/ FixHead
  <2>1. \E role \in {RoleOf(target), RoleOf(Head(todo)), Producers} : Broadcast(role)
    BY <1>6 DEF WakeTarget, HandlerWake, FixHead
  <2>2. \A q \in Threads : pc'[q] = pc[q] \/ (pc[q] = "asleep" /\ pc'[q] = "relock")
    BY <1>1, <2>1, BroadcastType
  <2> QED
    BY <1>6, <2>2 DEF WakeTarget, HandlerWake, FixHead
<1>7. CASE (\E n \in NewSizes : EnterSize(n)) \/ RefuseSize \/ Realloc
  BY <1>7 DEF EnterSize, RefuseSize, Realloc, AtMenu
<1>8. CASE HandlerStop
  BY <1>8 DEF HandlerStop
<1> QED
  BY <1>2, <1>3, <1>4, <1>5, <1>6, <1>7, <1>8
     DEF Next, User, MainStep, HandlerStep, ThreadStep, InnerStep, JoinStep, Threads

LEMMA JoinStepIsRight ==
  ASSUME MaxCtrlC <= 1, TypeOK, WorkInHand, JoinStrengthened, [Next]_vars
  PROVE  JoinStrengthened'
<1> USE DEF Goto, mainVars, handlerVars
<1>1. /\ pc \in [Threads -> PCs] /\ Threads = Producers \cup Consumers
      /\ Producers \cap Consumers = {} /\ None \notin Threads
      /\ producerMas \in Seq(Producers) /\ consumerMas \in Seq(Consumers)
      /\ todo \in Seq(Threads)
  BY CondQueueAssumption DEF CondQueueAssumption, TypeOK, Threads
<1>2. /\ HeldThreads = Pending \cup Joining /\ Pending \cap Joining = {}
      /\ IsInjective(producerMas) /\ IsInjective(consumerMas) /\ IsInjective(todo)
      /\ handler # "off" \/ flagForExit => pressed = 1
      /\ handler # "off" => ~flagForExit /\ mainPc # "exited"
  BY DEF JoinStrengthened
<1>3. Range(producerMas) \subseteq Producers /\ Range(consumerMas) \subseteq Consumers
  BY <1>1, RangeFacts
<1>4. CASE Quiet
  <2>1. HeldThreads' = HeldThreads
    BY <1>4 DEF Quiet, HeldThreads
  <2>2. Pending' = Pending /\ Joining' = Joining
    BY <1>4 DEF Quiet, Pending, Joining, Listed
  <2> QED
    BY <1>2, <1>4, <2>1, <2>2 DEF Quiet, JoinStrengthened
<1>5. ASSUME NEW p \in Producers, LaunchProducer(p) PROVE JoinStrengthened'
  <2>1. /\ HeldThreads = Listed /\ Joining = {} /\ p \notin HeldThreads
        /\ mainPc = "menu" /\ handler = "off" /\ ~flagForExit
    BY <1>2, <1>5
       DEF LaunchProducer, AtMenu, Launch, Pending, Joining, HeldThreads, Held
  <2>2. Range(producerMas') = Range(producerMas) \cup {p} /\ IsInjective(producerMas')
    BY <1>1, <1>2, <1>5, <2>1, AppendRange DEF LaunchProducer, Listed
  <2>3. HeldThreads' = HeldThreads \cup {p}
    BY <1>1, <1>5 DEF LaunchProducer, Launch, HeldThreads, Held
  <2>4. Pending' = Listed \cup {p} /\ Joining' = {}
    BY <1>5, <2>1, <2>2 DEF LaunchProducer, Launch, Pending, Joining, Listed
  <2> QED
    BY <1>2, <1>5, <2>1, <2>2, <2>3, <2>4 DEF LaunchProducer, Launch, JoinStrengthened
<1>6. ASSUME NEW c \in Consumers, LaunchConsumer(c) PROVE JoinStrengthened'
  <2>1. /\ HeldThreads = Listed /\ Joining = {} /\ c \notin HeldThreads
        /\ mainPc = "menu" /\ handler = "off" /\ ~flagForExit
    BY <1>2, <1>6
       DEF LaunchConsumer, AtMenu, Launch, Pending, Joining, HeldThreads, Held
  <2>2. Range(consumerMas') = Range(consumerMas) \cup {c} /\ IsInjective(consumerMas')
    BY <1>1, <1>2, <1>6, <2>1, AppendRange DEF LaunchConsumer, Listed
  <2>3. HeldThreads' = HeldThreads \cup {c}
    BY <1>1, <1>6 DEF LaunchConsumer, Launch, HeldThreads, Held
  <2>4. Pending' = Listed \cup {c} /\ Joining' = {}
    BY <1>6, <2>1, <2>2 DEF LaunchConsumer, Launch, Pending, Joining, Listed
  <2> QED
    BY <1>2, <1>6, <2>1, <2>2, <2>3, <2>4 DEF LaunchConsumer, Launch, JoinStrengthened
<1>7. CASE CreateFails
  <2>1. /\ handler' = "off" /\ mainPc' = "exited" /\ ~flagForExit /\ handler = "off"
        /\ UNCHANGED <<producerMas, consumerMas, todo, flagForExit, pressed>>
    BY <1>7 DEF CreateFails, AtMenu
  <2>2. HeldThreads' = {} /\ Pending' = {} /\ Joining' = {}
    BY <1>7, <2>1 DEF CreateFails, HeldThreads, Held, Pending, Joining
  <2> QED
    BY <1>2, <2>1, <2>2 DEF JoinStrengthened
<1>8. CASE RemoveProducer
  <2> DEFINE last == Last(producerMas)
  <2>1. /\ HeldThreads = Listed /\ mainPc = "menu" /\ handler = "off" /\ ~flagForExit
        /\ producerMas # <<>> /\ producerMas' = Front(producerMas) /\ mainPc' = "wake"
        /\ target' = last
        /\ UNCHANGED <<pc, consumerMas, handler, todo, flagForExit, pressed>>
    BY <1>2, <1>8 DEF RemoveProducer, AtMenu, Stop, Pending, Joining
  <2>2. /\ Range(producerMas) = Range(producerMas') \cup {last}
        /\ last \notin Range(producerMas') /\ IsInjective(producerMas')
    BY <1>1, <1>2, <2>1, FrontRange
  <2>3. Joining' = {last} /\ Pending' = Range(producerMas') \cup Range(consumerMas)
    BY <2>1 DEF Joining, Pending, Listed
  <2>4. last \notin Range(consumerMas)
    BY <1>1, <1>3, <2>2
  <2>5. HeldThreads' = HeldThreads
    BY <2>1 DEF HeldThreads, Held
  <2>6. HeldThreads' = Pending' \cup Joining' /\ Pending' \cap Joining' = {}
    BY <2>1, <2>2, <2>3, <2>4, <2>5 DEF Listed
  <2> QED
    BY <1>2, <2>1, <2>2, <2>6 DEF JoinStrengthened
<1>9. CASE RemoveConsumer
  <2> DEFINE last == Last(consumerMas)
  <2>1. /\ HeldThreads = Listed /\ mainPc = "menu" /\ handler = "off" /\ ~flagForExit
        /\ consumerMas # <<>> /\ consumerMas' = Front(consumerMas) /\ mainPc' = "wake"
        /\ target' = last
        /\ UNCHANGED <<pc, producerMas, handler, todo, flagForExit, pressed>>
    BY <1>2, <1>9 DEF RemoveConsumer, AtMenu, Stop, Pending, Joining
  <2>2. /\ Range(consumerMas) = Range(consumerMas') \cup {last}
        /\ last \notin Range(consumerMas') /\ IsInjective(consumerMas')
    BY <1>1, <1>2, <2>1, FrontRange
  <2>3. Joining' = {last} /\ Pending' = Range(producerMas) \cup Range(consumerMas')
    BY <2>1 DEF Joining, Pending, Listed
  <2>4. last \notin Range(producerMas)
    BY <1>1, <1>3, <2>2
  <2>5. HeldThreads' = HeldThreads
    BY <2>1 DEF HeldThreads, Held
  <2>6. HeldThreads' = Pending' \cup Joining' /\ Pending' \cap Joining' = {}
    BY <2>1, <2>2, <2>3, <2>4, <2>5 DEF Listed
  <2> QED
    BY <1>2, <2>1, <2>2, <2>6 DEF JoinStrengthened
<1>10. CASE JoinTarget
  <2>1. /\ Joining = {target} /\ Joining' = {} /\ pc' = [pc EXCEPT ![target] = "none"]
        /\ UNCHANGED <<producerMas, consumerMas, handler, todo, flagForExit, pressed>>
        /\ handler = "off" /\ mainPc' = "menu" /\ mainPc = "join"
    BY <1>10 DEF JoinTarget, Joining
  <2>2. Pending' = Pending
    BY <2>1 DEF Pending, Listed
  <2>3. HeldThreads' = HeldThreads \ {target}
    BY <1>1, <2>1 DEF HeldThreads, Held
  <2> QED
    BY <1>2, <2>1, <2>2, <2>3 DEF JoinStrengthened
<1>11. CASE Leave
  <2>1. /\ mainPc = "menu" /\ handler = "off" /\ flagForExit /\ mainPc' = "exited"
        /\ UNCHANGED <<pc, producerMas, consumerMas, handler, todo, flagForExit, pressed>>
    BY <1>11 DEF Leave
  <2>2. Joining = {} /\ Joining' = {} /\ Pending = {} /\ Pending' = {}
    BY <2>1 DEF Joining, Pending
  <2>3. HeldThreads' = HeldThreads
    BY <2>1 DEF HeldThreads, Held
  <2> QED
    BY <1>2, <2>1, <2>2, <2>3 DEF JoinStrengthened
<1>12. CASE CtrlC
  <2>1. /\ handler = "off" /\ mainPc # "exited" /\ pressed < MaxCtrlC /\ handler' = "stop"
        /\ pressed' = pressed + 1 /\ todo' = Reverse(producerMas) \o Reverse(consumerMas)
        /\ UNCHANGED <<pc, producerMas, consumerMas, mainPc, target, flagForExit>>
    BY <1>12 DEF CtrlC
  <2>2. pressed' = 1 /\ ~flagForExit
    BY <1>2, <2>1, CondQueueAssumption DEF CondQueueAssumption, TypeOK
  <2> DEFINE backP == Reverse(producerMas)
             backC == Reverse(consumerMas)
  <2>3. /\ backP \in Seq(Threads) /\ Range(backP) = Range(producerMas) /\ IsInjective(backP)
        /\ backC \in Seq(Threads) /\ Range(backC) = Range(consumerMas) /\ IsInjective(backC)
    <3>1. producerMas \in Seq(Threads) /\ consumerMas \in Seq(Threads)
      BY <1>1
    <3> QED
      BY <1>2, <3>1, ReverseFacts, ReverseRange
  <2>4. Range(backP) \cap Range(backC) = {}
    BY <1>1, <1>3, <2>3
  <2> HIDE DEF backP, backC
  <2>5. Range(backP \o backC) = Range(backP) \cup Range(backC) /\ IsInjective(backP \o backC)
    BY <2>3, <2>4, ConcatRange
  <2>6. Range(todo') = Listed /\ IsInjective(todo')
    BY <2>1, <2>3, <2>5 DEF Listed, backP, backC
  <2>7. Pending = Listed /\ Pending' = Listed /\ Joining' = Joining
    BY <2>1, <2>2, <2>6 DEF Pending, Joining
  <2>8. HeldThreads' = HeldThreads
    BY <2>1 DEF HeldThreads, Held
  <2> QED
    BY <1>2, <2>1, <2>2, <2>6, <2>7, <2>8 DEF JoinStrengthened
<1>13. CASE HandlerJoin
  <2>1. /\ handler = "join" /\ handler' = "stop" /\ todo # <<>> /\ todo' = Tail(todo)
        /\ pc' = [pc EXCEPT ![Head(todo)] = "joined"]
        /\ UNCHANGED <<producerMas, consumerMas, mainPc, target, flagForExit, pressed>>
    BY <1>13 DEF HandlerJoin, WorkInHand
  <2>2. /\ Range(todo) = Range(todo') \cup {Head(todo)} /\ Head(todo) \notin Range(todo')
        /\ IsInjective(todo')
    BY <1>1, <1>2, <2>1, TailRange
  <2>3. Pending = Range(todo) /\ Pending' = Range(todo') /\ Joining' = Joining
    BY <2>1 DEF Pending, Joining
  <2>4. HeldThreads' = HeldThreads \ {Head(todo)}
    BY <1>1, <2>1 DEF HeldThreads, Held
  <2>5. HeldThreads' = Pending' \cup Joining' /\ Pending' \cap Joining' = {}
    BY <1>2, <2>2, <2>3, <2>4
  <2> QED
    BY <1>2, <2>1, <2>2, <2>5 DEF JoinStrengthened
<1>14. CASE HandlerReturn
  <2>1. /\ handler = "stop" /\ handler' = "off" /\ todo = <<>> /\ flagForExit'
        /\ UNCHANGED <<pc, producerMas, consumerMas, mainPc, target, todo, pressed>>
    BY <1>14 DEF HandlerReturn
  <2>2. Pending = {} /\ Pending' = {} /\ Joining' = Joining
    <3>1. Range(todo) = {}
      BY <2>1 DEF Range
    <3> QED
      BY <2>1, <3>1 DEF Pending, Joining
  <2>3. HeldThreads' = HeldThreads
    BY <2>1 DEF HeldThreads, Held
  <2> QED
    BY <1>2, <2>1, <2>2, <2>3 DEF JoinStrengthened
<1> QED
  BY <1>4, <1>5, <1>6, <1>7, <1>8, <1>9, <1>10, <1>11, <1>12, <1>13, <1>14,
     QuietOrJoin DEF JoinStep

LEMMA JoinInit == Init => JoinStrengthened
<1> SUFFICES ASSUME Init PROVE JoinStrengthened
  OBVIOUS
<1>1. HeldThreads = {} /\ Joining = {}
  BY DEF Init, HeldThreads, Held, Joining
<1>2. Range(<<>>) = {} /\ IsInjective(<<>>)
  BY DEF Range, IsInjective
<1>3. Pending = {}
  BY <1>2 DEF Init, Pending, Listed
<1> QED
  BY <1>1, <1>2, <1>3 DEF Init, JoinStrengthened

\* With one Ctrl+C at most, at any moment: no thread is joined twice, and main
\* frees the buffer when every thread has been joined.
THEOREM ThreadsAreJoinedOnce == MaxCtrlC <= 1 /\ Spec => []JoinInvariant
<1> DEFINE Strong == MutexStrengthened /\ JoinStrengthened
<1>1. Init => Strong
  BY MutexIsInductive, JoinInit
<1>2. MaxCtrlC <= 1 /\ Strong /\ [Next]_vars => Strong'
  BY MutexIsInductive, JoinStepIsRight DEF MutexStrengthened
<1>3. Strong => JoinInvariant
  <2> SUFFICES ASSUME Strong PROVE JoinInvariant
    OBVIOUS
  <2>1. Range(todo) = {todo[i] : i \in DOMAIN todo}
    BY DEF Range
  <2>2. /\ HeldThreads = Pending \cup Joining /\ Pending \cap Joining = {}
        /\ handler # "off" => mainPc # "exited"
    BY DEF JoinStrengthened
  <2>3. JoinsOnce
    <3> DEFINE pending == IF handler = "off" THEN {} ELSE {todo[i] : i \in DOMAIN todo}
    <3>1. pending \subseteq Pending
      BY <2>1 DEF Pending
    <3>2. \A t \in pending \cup Joining : pc[t] \notin {"none", "joined"}
      BY <2>2, <3>1 DEF HeldThreads, Held
    <3> QED
      BY <2>2, <3>1, <3>2 DEF JoinsOnce, Joining
  <2>4. ExitIsClean
    <3> SUFFICES ASSUME mainPc = "exited" PROVE \A t \in Threads : ~Alive(t)
      BY DEF ExitIsClean
    <3>1. Pending = {} /\ Joining = {}
      BY <2>2 DEF Pending, Joining
    <3> QED
      BY <2>2, <3>1 DEF HeldThreads, Held, Alive
  <2> QED
    BY <2>3, <2>4 DEF JoinInvariant
<1>4. CASE MaxCtrlC <= 1
  BY <1>1, <1>2, <1>3, <1>4, PTL DEF Spec
<1> QED
  BY <1>4

-----------------------------------------------------------------------------
(* The ring, as long as it keeps its size.                                   *)

\* The slot of the i-th message from the slot t on, without the remainder.
SlotFrom(t, i) == IF t + i - 1 < InitialSize THEN t + i - 1 ELSE t + i - 1 - InitialSize

Slots == 0..InitialSize - 1

NotResized ==
  /\ bufferSize = InitialSize /\ mainPc \notin {"resize", "fixHead"}
  /\ buffer \in [Slots -> 0..MaxMessages] /\ head \in Slots /\ tail \in Slots

\* fillCount runs ahead of head and of tail by the one step of the thread that
\* owns the mutex.
Counted ==
  /\ Unread \in 0..InitialSize
  /\ mainPc # "exited" =>
       /\ \A p \in Producers : pc[p] = "copy" => Unread < InitialSize
       /\ \A p \in Producers :
            pc[p] = "advance" => Unread < InitialSize /\ fillCount = Unread + 1
       /\ \A c \in Consumers : pc[c] = "copy" => Unread > 0
       /\ \A c \in Consumers : pc[c] = "advance" => Unread > 0 /\ fillCount = Unread - 1
       /\ (\A t \in Threads : pc[t] # "advance") => fillCount = Unread

\* The unread messages lie in order between tail and head, and what was got is
\* what was put.
Ring ==
  /\ head = SlotFrom(tail, Unread + 1)
  /\ \A i \in 1..Unread : buffer[SlotFrom(tail, i)] = sent[Len(received) + i]
  /\ \A i \in 1..Len(sent) : sent[i] \in Messages
  /\ \A i \in 1..Len(received) : received[i] = sent[i]

HoldsMessage == {"lock", "test", "sleep", "asleep", "relock", "decide", "copy", "advance"}

\* A producer has built its message until the head has moved past it; between the
\* copy and the move of an index the slot and the thread's copy are the same.
Built == \A p \in Producers : pc[p] \in HoldsMessage => message[p] \in Messages

InHand ==
  /\ \A p \in Producers : pc[p] = "advance" => buffer[head] = message[p]
  /\ \A c \in Consumers : pc[c] = "advance" => message[c] = buffer[tail]

RingInvariant == MutexStrengthened /\ NotResized /\ Counted /\ Ring /\ Built /\ InHand

LEMMA Wrap ==
  ASSUME NEW x \in 0..2 * InitialSize - 1
  PROVE  x % InitialSize = IF x < InitialSize THEN x ELSE x - InitialSize
  BY CondQueueAssumption DEF CondQueueAssumption

LEMMA SlotFacts ==
  ASSUME NEW t \in Slots
  PROVE  /\ SlotFrom(t, 1) = t /\ (t + 1) % InitialSize \in Slots
         /\ \A i \in 1..InitialSize :
              /\ SlotFrom(t, i) \in Slots
              /\ (t + i - 1) % InitialSize = SlotFrom(t, i)
              /\ (SlotFrom(t, i) + 1) % InitialSize = SlotFrom(t, i + 1)
              /\ SlotFrom((t + 1) % InitialSize, i) = SlotFrom(t, i + 1)
         /\ \A i, j \in 1..InitialSize : SlotFrom(t, i) = SlotFrom(t, j) => i = j
<1>1. InitialSize \in Nat \ {0} /\ t \in 0..InitialSize - 1
  BY CondQueueAssumption DEF CondQueueAssumption, Slots
<1>2. \A i \in 1..InitialSize : SlotFrom(t, i) \in 0..InitialSize - 1
  BY <1>1 DEF SlotFrom
<1>3. \A s \in Slots : /\ (s + 1) % InitialSize = IF s + 1 = InitialSize THEN 0 ELSE s + 1
                       /\ (s + 1) % InitialSize \in Slots
  BY <1>1 DEF Slots
<1>4. ASSUME NEW i \in 1..InitialSize
      PROVE  (t + i - 1) % InitialSize = SlotFrom(t, i)
  <2> DEFINE x == t + i - 1
  <2>1. x \in 0..2 * InitialSize - 1
    BY <1>1
  <2> HIDE DEF x
  <2>2. x % InitialSize = IF x < InitialSize THEN x ELSE x - InitialSize
    BY <2>1, Wrap
  <2> QED
    BY <1>1, <2>1, <2>2 DEF SlotFrom, x
<1>5. ASSUME NEW i \in 1..InitialSize
      PROVE  (SlotFrom(t, i) + 1) % InitialSize = SlotFrom(t, i + 1)
  <2>1. (SlotFrom(t, i) + 1) % InitialSize
           = IF SlotFrom(t, i) + 1 = InitialSize THEN 0 ELSE SlotFrom(t, i) + 1
    BY <1>2, <1>3 DEF Slots
  <2>2. (IF SlotFrom(t, i) + 1 = InitialSize THEN 0 ELSE SlotFrom(t, i) + 1)
           = SlotFrom(t, i + 1)
    BY <1>1 DEF SlotFrom
  <2> QED
    BY <2>1, <2>2
<1>6. ASSUME NEW i \in 1..InitialSize
      PROVE  SlotFrom((t + 1) % InitialSize, i) = SlotFrom(t, i + 1)
  <2>1. (t + 1) % InitialSize = IF t + 1 = InitialSize THEN 0 ELSE t + 1
    BY <1>3
  <2>2. SlotFrom(IF t + 1 = InitialSize THEN 0 ELSE t + 1, i) = SlotFrom(t, i + 1)
    BY <1>1 DEF SlotFrom
  <2> QED
    BY <2>1, <2>2
<1>7. \A i, j \in 1..InitialSize : SlotFrom(t, i) = SlotFrom(t, j) => i = j
  BY <1>1 DEF SlotFrom
<1>8. SlotFrom(t, 1) = t
  BY <1>1 DEF SlotFrom
<1> QED
  BY <1>2, <1>3, <1>4, <1>5, <1>6, <1>7, <1>8 DEF Slots

LEMMA NotResizedStep ==
  ASSUME NewSizes = {}, TypeOK, NotResized, [Next]_vars
  PROVE  NotResized'
<1> USE DEF NotResized, Goto, ringVars, mainVars, handlerVars
<1>1. /\ buffer \in [Slots -> 0..MaxMessages] /\ message \in [Threads -> 0..MaxMessages]
      /\ \A t \in Threads : message[t] \in 0..MaxMessages
  BY DEF TypeOK
<1>2. \A s \in Slots : (s + 1) % InitialSize \in Slots
  BY SlotFacts
<1>3. ASSUME NEW p \in Producers, CopyIn(p) PROVE NotResized'
  BY <1>1, <1>3 DEF CopyIn, Threads
<1>4. ASSUME NEW p \in Producers, AdvanceHead(p) PROVE NotResized'
  BY <1>2, <1>4 DEF AdvanceHead
<1>5. ASSUME NEW c \in Consumers, AdvanceTail(c) PROVE NotResized'
  BY <1>2, <1>5 DEF AdvanceTail
<1>6. ASSUME NEW t \in Threads, ThreadStep(t) \/ SpuriousWakeup(t) PROVE NotResized'
  BY <1>3, <1>4, <1>5, <1>6
     DEF ThreadStep, SpuriousWakeup, Loop, Lock, Test, CondWait, Decide, Signal, Unlock, CopyOut
<1>7. CASE User
  BY <1>7 DEF User, LaunchProducer, LaunchConsumer, Launch, CreateFails, RemoveProducer,
              RemoveConsumer, Stop, CtrlC, EnterSize, AtMenu
<1>8. CASE MainStep \/ HandlerStep
  BY <1>8 DEF MainStep, HandlerStep, WakeTarget, JoinTarget, RefuseSize, Realloc, FixHead, Leave,
              HandlerStop, HandlerWake, HandlerJoin, HandlerReturn
<1>9. CASE UNCHANGED vars
  BY <1>9 DEF vars
<1> QED
  BY <1>6, <1>7, <1>8, <1>9 DEF Next

LEMMA BuiltStep == TypeOK /\ Built /\ [Next]_vars => Built'
<1> SUFFICES ASSUME TypeOK, Built, [Next]_vars, NEW p \in Producers, pc'[p] \in HoldsMessage
             PROVE  message'[p] \in Messages
  BY DEF Built
<1> USE DEF Goto, HoldsMessage, localVars
<1>1. /\ pc \in [Threads -> PCs] /\ message \in [Threads -> 0..MaxMessages]
      /\ p \in Threads /\ p \notin Consumers
      /\ pc[p] \in HoldsMessage => message[p] \in Messages
  BY CondQueueAssumption DEF CondQueueAssumption, TypeOK, Built, Threads
<1>2. ASSUME message' = message, pc'[p] \in HoldsMessage => pc[p] \in HoldsMessage
      PROVE  message'[p] \in Messages
  BY <1>1, <1>2
<1>3. ASSUME NEW t \in Threads, Loop(t) PROVE message'[p] \in Messages
  <2>1. CASE t # p
    BY <1>1, <1>3, <2>1 DEF Loop
  <2>2. CASE t = p
    <3>1. CASE ~running[p]
      BY <1>1, <1>3, <2>2, <3>1 DEF Loop
    <3>2. CASE running[p]
      <4>1. made < MaxMessages /\ message' = [message EXCEPT ![p] = made + 1]
        BY <1>3, <2>2, <3>2 DEF Loop
      <4>2. made + 1 \in Messages
        BY <4>1, CondQueueAssumption DEF CondQueueAssumption, TypeOK, Messages
      <4> QED
        BY <1>1, <4>1, <4>2
    <3> QED
      BY <3>1, <3>2
  <2> QED
    BY <2>1, <2>2
<1>4. ASSUME NEW t \in Threads, Lock(t) \/ Test(t) \/ CondWait(t) \/ Decide(t) \/ Unlock(t)
      PROVE  message'[p] \in Messages
  BY <1>1, <1>2, <1>4 DEF Lock, Test, CondWait, Decide, Unlock
<1>5. ASSUME NEW t \in Threads, Signal(t) \/ SpuriousWakeup(t) PROVE message'[p] \in Messages
  <2>1. message' = message
    BY <1>5 DEF Signal, SpuriousWakeup
  <2>2. CASE Signal(t)
    <3>1. pc'[t] = "unlock" /\ \A q \in Threads : q # t =>
            pc'[q] = pc[q] \/ (pc[q] = "asleep" /\ pc'[q] = "relock")
      BY <1>1, <2>2, SignalType DEF Signal, PCs, Threads
    <3> QED
      BY <1>1, <1>2, <2>1, <3>1
  <2>3. CASE SpuriousWakeup(t)
    BY <1>1, <1>2, <2>1, <2>3 DEF SpuriousWakeup
  <2> QED
    BY <1>5, <2>2, <2>3
<1>6. ASSUME NEW t \in Producers, CopyIn(t) \/ AdvanceHead(t) PROVE message'[p] \in Messages
  BY <1>1, <1>2, <1>6 DEF CopyIn, AdvanceHead, Threads
<1>7. ASSUME NEW t \in Consumers, CopyOut(t) \/ AdvanceTail(t) PROVE message'[p] \in Messages
  BY <1>1, <1>7 DEF CopyOut, AdvanceTail, Threads
<1>8. CASE User
  <2>1. message' = message
    BY <1>8 DEF User, LaunchProducer, LaunchConsumer, Launch, CreateFails, RemoveProducer,
                RemoveConsumer, Stop, CtrlC, EnterSize
  <2>2. pc'[p] \in HoldsMessage => pc[p] \in HoldsMessage
    BY <1>1, <1>8 DEF User, LaunchProducer, LaunchConsumer, Launch, CreateFails, RemoveProducer,
                RemoveConsumer, Stop, CtrlC, EnterSize, Threads
  <2> QED
    BY <1>2, <2>1, <2>2
<1>9. CASE MainStep \/ HandlerStep
  <2>1. message' = message
    BY <1>9 DEF MainStep, HandlerStep, WakeTarget, JoinTarget, RefuseSize, Realloc, FixHead,
                Leave, HandlerStop, HandlerWake, HandlerJoin, HandlerReturn
  <2>2. CASE \E role \in {RoleOf(target), RoleOf(Head(todo)), Producers} : Broadcast(role)
    BY <1>1, <1>2, <2>1, <2>2, BroadcastType
  <2>3. CASE ~ \E role \in {RoleOf(target), RoleOf(Head(todo)), Producers} : Broadcast(role)
    <3>1. pc'[p] \in HoldsMessage => pc[p] \in HoldsMessage
      BY <1>1, <1>9, <2>3
         DEF MainStep, HandlerStep, WakeTarget, JoinTarget, RefuseSize, Realloc, FixHead, Leave,
             HandlerStop, HandlerWake, HandlerJoin, HandlerReturn
    <3> QED
      BY <1>2, <2>1, <3>1
  <2> QED
    BY <2>2, <2>3
<1>10. CASE UNCHANGED vars
  BY <1>2, <1>10 DEF vars
<1> QED
  BY <1>3, <1>4, <1>5, <1>6, <1>7, <1>8, <1>9, <1>10 DEF Next, ThreadStep

\* While a thread works with the mutex everybody else is outside, before and after.
LEMMA Alone ==
  ASSUME TypeOK, OwnersAreInside, NEW t \in Threads, InnerStep(t)
  PROVE  \A q \in Threads : q # t => pc[q] \notin Inside /\ pc'[q] \notin Inside
<1>1. pc[t] \in Inside /\ \A q \in Threads :
        q # t => pc'[q] = pc[q] \/ (pc[q] = "asleep" /\ pc'[q] = "relock")
  BY InnerFacts
<1> QED
  BY <1>1 DEF OwnersAreInside, Inside

LEMMA RingStep ==
  ASSUME NewSizes = {}, RingInvariant, [Next]_vars
  PROVE  Counted' /\ Ring' /\ InHand'
<1> USE DEF Goto, ringVars, historyVars, localVars, mainVars
<1>1. /\ TypeOK /\ OwnersAreInside /\ NotResized /\ Counted /\ Ring /\ Built /\ InHand
      /\ pc \in [Threads -> PCs] /\ message \in [Threads -> 0..MaxMessages]
      /\ buffer \in [Slots -> 0..MaxMessages] /\ head \in Slots /\ tail \in Slots
      /\ bufferSize = InitialSize /\ InitialSize \in Nat \ {0} /\ fillCount \in Nat
      /\ sent \in Seq(0..MaxMessages) /\ received \in Seq(0..MaxMessages)
      /\ Len(sent) \in Nat /\ Len(received) \in Nat /\ Unread \in 0..InitialSize
      /\ Unread = Len(sent) - Len(received)
  <2>1. TypeOK /\ OwnersAreInside /\ NotResized /\ Counted /\ Ring /\ Built /\ InHand
    BY DEF RingInvariant, MutexStrengthened
  <2>2. /\ pc \in [Threads -> PCs] /\ message \in [Threads -> 0..MaxMessages]
        /\ sent \in Seq(0..MaxMessages) /\ received \in Seq(0..MaxMessages) /\ fillCount \in Nat
    BY <2>1 DEF TypeOK
  <2>3. buffer \in [Slots -> 0..MaxMessages] /\ head \in Slots /\ tail \in Slots /\ bufferSize = InitialSize
    BY <2>1 DEF NotResized
  <2>4. InitialSize \in Nat \ {0} /\ Len(sent) \in Nat /\ Len(received) \in Nat
    BY <2>2, CondQueueAssumption DEF CondQueueAssumption
  <2>5. Unread \in 0..InitialSize /\ Unread = Len(sent) - Len(received)
    BY <2>1, <2>3, <2>4 DEF Counted, Unread
  <2> QED
    BY <2>1, <2>2, <2>3, <2>4, <2>5
<1>2. Producers \cap Consumers = {} /\ Threads = Producers \cup Consumers
  BY CondQueueAssumption DEF CondQueueAssumption, Threads
<1>3. ASSUME UNCHANGED <<head, tail, buffer, sent, received>> PROVE Ring' /\ Unread' = Unread
  BY <1>1, <1>3 DEF Ring, Unread
<1>4. CASE Elsewhere
  <2>1. UNCHANGED <<head, tail, buffer, sent, received, fillCount>>
    BY <1>1, <1>4 DEF Elsewhere, NotResized
  <2>2. ASSUME mainPc' # "exited"
        PROVE  /\ mainPc # "exited"
               /\ \A q \in Threads : \/ pc'[q] = pc[q] /\ message'[q] = message[q]
                                     \/ pc[q] \notin Inside /\ pc'[q] \notin Inside
    BY <1>4, <2>2 DEF Elsewhere
  <2>3. Counted'
    BY <1>1, <1>2, <1>3, <2>1, <2>2 DEF Counted, Inside
  <2>4. InHand'
    BY <1>1, <1>2, <1>4, <2>1 DEF Elsewhere, InHand, Inside
  <2> QED
    BY <1>3, <2>1, <2>3, <2>4
<1>5. ASSUME NEW t \in Threads, mainPc # "exited",
             Lock(t) \/ CondWait(t) \/ Unlock(t) \/ Test(t) \/ Signal(t)
      PROVE  Counted' /\ Ring' /\ InHand'
  <2>1. /\ UNCHANGED <<head, tail, buffer, sent, received, fillCount, message>>
        /\ UNCHANGED mainPc
    BY <1>5 DEF Lock, CondWait, Unlock, Test, Signal
  <2>2. \A q \in Threads : \/ pc'[q] = pc[q]
                           \/ pc[q] \notin {"copy", "advance"} /\ pc'[q] \notin {"copy", "advance"}
    <3>1. CASE Signal(t)
      <4>1. InnerStep(t) /\ pc[t] = "signal"
        BY <3>1 DEF InnerStep, Signal
      <4>2. pc'[t] = "unlock"
        BY <1>1, <3>1, SignalType DEF Signal, PCs, Threads
      <4>3. \A q \in Threads : q # t => pc[q] \notin Inside /\ pc'[q] \notin Inside
        BY <1>1, <4>1, Alone
      <4> QED
        BY ONLY <4>1, <4>2, <4>3 DEF Inside
    <3>2. CASE ~Signal(t)
      BY <1>1, <1>5, <3>2 DEF Lock, CondWait, Unlock, Test
    <3> QED
      BY <3>1, <3>2
  <2>3. Counted'
    BY <1>1, <1>2, <1>3, <1>5, <2>1, <2>2 DEF Counted
  <2>4. InHand'
    BY <1>1, <1>2, <2>1, <2>2 DEF InHand
  <2> QED
    BY <1>3, <2>1, <2>3, <2>4
<1>6. ASSUME NEW t \in Threads, mainPc # "exited", Decide(t)
      PROVE  Counted' /\ Ring' /\ InHand'
  <2>1. /\ UNCHANGED <<head, tail, buffer, sent, received, fillCount, message>>
        /\ UNCHANGED mainPc /\ pc[t] = "decide"
    BY <1>6 DEF Decide
  <2>2. \A q \in Threads : q # t => pc[q] \notin Inside /\ pc'[q] \notin Inside
    BY <1>1, <1>6, Alone DEF InnerStep
  <2>3. fillCount = Unread
    BY <1>1, <1>2, <1>6, <2>1, <2>2 DEF Counted, Inside
  <2>4. pc'[t] # "advance" /\ (pc'[t] = "copy" => ~MustWait(t))
    BY <1>1, <1>6 DEF Decide
  <2>5. Counted'
    BY <1>1, <1>2, <1>3, <2>1, <2>2, <2>3, <2>4 DEF Counted, MustWait, Inside
  <2>6. InHand'
    BY <1>2, <2>2, <2>4 DEF InHand, Inside
  <2> QED
    BY <1>3, <2>1, <2>5, <2>6
<1>7. ASSUME NEW p \in Producers, mainPc # "exited", CopyIn(p)
      PROVE  Counted' /\ Ring' /\ InHand'
  <2>1. /\ UNCHANGED <<head, tail, sent, received, message, mainPc>>
        /\ pc[p] = "copy" /\ pc'[p] = "advance" /\ p \in Threads /\ p \notin Consumers
        /\ fillCount' = fillCount + 1 /\ buffer' = [buffer EXCEPT ![head] = message[p]]
    BY <1>1, <1>2, <1>7 DEF CopyIn
  <2>2. \A q \in Threads : q # p => pc[q] \notin Inside /\ pc'[q] \notin Inside
    BY <1>1, <1>7, <2>1, Alone DEF InnerStep
  <2>3. fillCount = Unread /\ Unread < InitialSize /\ Unread' = Unread
    BY <1>1, <1>2, <1>7, <2>1, <2>2 DEF Counted, Inside, Unread
  <2>4. Counted'
    BY <1>1, <1>2, <2>1, <2>2, <2>3 DEF Counted, Inside
  <2>5. InHand'
    BY <1>1, <1>2, <2>1, <2>2 DEF InHand, Inside
  <2>6. ASSUME NEW i \in 1..Unread
        PROVE  buffer'[SlotFrom(tail, i)] = buffer[SlotFrom(tail, i)]
    <3>1. i \in 1..InitialSize /\ Unread + 1 \in 1..InitialSize /\ i # Unread + 1
      BY <1>1, <2>3
    <3>2. SlotFrom(tail, i) \in Slots /\ SlotFrom(tail, i) # SlotFrom(tail, Unread + 1)
      BY <1>1, <3>1, SlotFacts
    <3>3. head = SlotFrom(tail, Unread + 1)
      BY <1>1 DEF Ring
    <3> QED
      BY <1>1, <2>1, <3>2, <3>3
  <2>7. Ring'
    BY <1>1, <2>1, <2>3, <2>6 DEF Ring
  <2> QED
    BY <2>4, <2>5, <2>7
<1>8. ASSUME NEW c \in Consumers, mainPc # "exited", CopyOut(c)
      PROVE  Counted' /\ Ring' /\ InHand'
  <2>1. /\ UNCHANGED <<head, tail, buffer, sent, received, mainPc>>
        /\ pc[c] = "copy" /\ pc'[c] = "advance" /\ c \in Threads /\ c \notin Producers
        /\ fillCount' = fillCount - 1 /\ message'[c] = buffer[tail]
    BY <1>1, <1>2, <1>8 DEF CopyOut
  <2>2. \A q \in Threads : q # c => pc[q] \notin Inside /\ pc'[q] \notin Inside
    BY <1>1, <1>8, <2>1, Alone DEF InnerStep
  <2>3. fillCount = Unread /\ Unread > 0 /\ Unread' = Unread
    BY <1>1, <1>2, <1>8, <2>1, <2>2 DEF Counted, Inside, Unread
  <2>4. Counted'
    BY <1>1, <1>2, <2>1, <2>2, <2>3 DEF Counted, Inside
  <2>5. InHand'
    BY <1>1, <1>2, <2>1, <2>2 DEF InHand, Inside
  <2> QED
    BY <1>3, <2>1, <2>4, <2>5
<1>9. ASSUME NEW p \in Producers, mainPc # "exited", AdvanceHead(p)
      PROVE  Counted' /\ Ring' /\ InHand'
  <2> DEFINE m == message[p]
  <2>1. /\ UNCHANGED <<tail, buffer, received, message, mainPc, fillCount>>
        /\ pc[p] = "advance" /\ pc'[p] = "signal" /\ p \in Threads /\ p \notin Consumers
        /\ head' = (head + 1) % InitialSize /\ sent' = Append(sent, m)
    BY <1>1, <1>2, <1>9 DEF AdvanceHead
  <2>2. \A q \in Threads : q # p => pc[q] \notin Inside /\ pc'[q] \notin Inside
    BY <1>1, <1>9, <2>1, Alone DEF InnerStep
  <2>3. fillCount = Unread + 1 /\ Unread + 1 \in 1..InitialSize
    BY <1>1, <1>9, <2>1 DEF Counted
  <2>4. m \in Messages /\ buffer[head] = m
    BY <1>1, <2>1 DEF Built, HoldsMessage, InHand
  <2>5. /\ Len(sent') = Len(sent) + 1 /\ sent'[Len(sent) + 1] = m /\ Unread' = Unread + 1
        /\ \A i \in 1..Len(sent) : sent'[i] = sent[i]
    <3>1. m \in 0..MaxMessages
      BY <1>1, <2>1
    <3> QED
      BY <1>1, <2>1, <3>1, AppendProperties DEF Unread
  <2>6. Counted'
    BY <1>1, <1>2, <2>1, <2>2, <2>3, <2>5 DEF Counted, Inside
  <2>7. InHand'
    BY <1>1, <1>2, <2>1, <2>2 DEF InHand, Inside
  <2>8. head' = SlotFrom(tail, Unread + 2)
    <3>1. head' = SlotFrom(tail, Unread + 1 + 1)
      BY <1>1, <2>1, <2>3, SlotFacts, ZenonT(40) DEF Ring
    <3> QED
      BY <1>1, <3>1 DEF SlotFrom
  <2>9. ASSUME NEW i \in 1..Unread + 1
        PROVE  buffer[SlotFrom(tail, i)] = sent'[Len(received) + i]
    <3>1. CASE i = Unread + 1
      BY <1>1, <2>4, <2>5, <3>1 DEF Ring
    <3>2. CASE i # Unread + 1
      <4>1. i \in 1..Unread /\ Len(received) + i \in 1..Len(sent)
        BY <1>1, <3>2
      <4> QED
        BY <1>1, <2>5, <4>1 DEF Ring
    <3> QED
      BY <3>1, <3>2
  <2>10. /\ \A i \in 1..Len(sent') : sent'[i] \in Messages
         /\ \A i \in 1..Len(received) : received[i] = sent'[i]
    <3>1. \A i \in 1..Len(received) : i \in 1..Len(sent)
      BY <1>1
    <3>2. \A i \in 1..Len(sent) + 1 : i \in 1..Len(sent) \/ i = Len(sent) + 1
      BY <1>1
    <3> QED
      BY <1>1, <2>4, <2>5, <3>1, <3>2 DEF Ring
  <2>11. Ring'
    <3>1. SlotFrom(tail', Unread' + 1) = SlotFrom(tail, Unread + 2)
      BY <1>1, <2>1, <2>5 DEF SlotFrom
    <3>2. \A i \in 1..Unread' : buffer'[SlotFrom(tail', i)] = sent'[Len(received') + i]
      BY <2>1, <2>5, <2>9
    <3> QED
      BY <2>1, <2>8, <2>10, <3>1, <3>2 DEF Ring
  <2> QED
    BY <2>6, <2>7, <2>11
<1>10. ASSUME NEW c \in Consumers, mainPc # "exited", AdvanceTail(c)
       PROVE  Counted' /\ Ring' /\ InHand'
  <2> DEFINE m == message[c]
  <2>1. /\ UNCHANGED <<head, buffer, sent, message, mainPc, fillCount>>
        /\ pc[c] = "advance" /\ pc'[c] = "signal" /\ c \in Threads /\ c \notin Producers
        /\ tail' = (tail + 1) % InitialSize /\ received' = Append(received, m)
    BY <1>1, <1>2, <1>10 DEF AdvanceTail
  <2>2. \A q \in Threads : q # c => pc[q] \notin Inside /\ pc'[q] \notin Inside
    BY <1>1, <1>10, <2>1, Alone DEF InnerStep
  <2>3. fillCount = Unread - 1 /\ Unread \in 1..InitialSize
    BY <1>1, <1>10, <2>1 DEF Counted
  <2>4. m = sent[Len(received) + 1] /\ m = buffer[tail]
    <3>1. 1 \in 1..Unread /\ SlotFrom(tail, 1) = tail
      BY <1>1, <2>3, SlotFacts
    <3> QED
      BY <1>1, <2>1, <3>1 DEF Ring, InHand
  <2>5. /\ Len(received') = Len(received) + 1 /\ received'[Len(received) + 1] = m
        /\ Unread' = Unread - 1
        /\ \A i \in 1..Len(received) : received'[i] = received[i]
    <3>1. m \in 0..MaxMessages
      BY <1>1, <2>1
    <3> QED
      BY <1>1, <2>1, <3>1, AppendProperties DEF Unread
  <2>6. Counted'
    BY <1>1, <1>2, <2>1, <2>2, <2>3, <2>5 DEF Counted, Inside
  <2>7. InHand'
    BY <1>1, <1>2, <2>1, <2>2 DEF InHand, Inside
  <2>8. \A i \in 1..InitialSize : SlotFrom(tail', i) = SlotFrom(tail, i + 1)
    BY <1>1, <2>1, SlotFacts
  <2>9. head' = SlotFrom(tail', Unread' + 1)
    <3>1. Unread' + 1 = Unread
      BY <1>1, <2>5
    <3>2. SlotFrom(tail', Unread) = SlotFrom(tail, Unread + 1)
      BY <2>3, <2>8
    <3>3. head' = SlotFrom(tail, Unread + 1)
      BY <1>1, <2>1 DEF Ring
    <3> QED
      BY ONLY <3>1, <3>2, <3>3, Zenon
  <2>10. ASSUME NEW i \in 1..Unread'
         PROVE  buffer'[SlotFrom(tail', i)] = sent'[Len(received') + i]
    <3>1. i \in 1..InitialSize /\ i + 1 \in 1..Unread
      BY <1>1, <2>3, <2>5
    <3>2. Len(received') + i = Len(received) + (i + 1)
      BY <1>1, <2>5
    <3>3. SlotFrom(tail', i) = SlotFrom(tail, i + 1)
      BY <2>8, <3>1
    <3> QED
      BY <1>1, <2>1, <3>1, <3>2, <3>3 DEF Ring
  <2>11. \A i \in 1..Len(received') : received'[i] = sent[i]
    <3>1. \A i \in 1..Len(received) + 1 : i \in 1..Len(received) \/ i = Len(received) + 1
      BY <1>1
    <3> QED
      BY <1>1, <2>4, <2>5, <3>1 DEF Ring
  <2>12. Ring'
    BY <1>1, <2>1, <2>9, <2>10, <2>11 DEF Ring
  <2> QED
    BY <2>6, <2>7, <2>12
<1> QED
  BY <1>1, <1>4, <1>5, <1>6, <1>7, <1>8, <1>9, <1>10, StepCases DEF InnerStep

LEMMA RingInit == Init => RingInvariant
<1> SUFFICES ASSUME Init PROVE RingInvariant
  OBVIOUS
<1>1. MutexStrengthened
  BY MutexIsInductive
<1>2. /\ sent = <<>> /\ received = <<>> /\ Len(<<>>) = 0 /\ Unread = 0
      /\ InitialSize \in Nat \ {0}
  BY CondQueueAssumption DEF CondQueueAssumption, Init, Unread
<1>3. NotResized
  BY <1>2, CondQueueAssumption DEF CondQueueAssumption, Init, NotResized, Slots, Garbage
<1>4. Counted
  BY <1>2 DEF Init, Counted, Threads
<1>5. Ring
  BY <1>2 DEF Init, Ring, SlotFrom
<1>6. Built /\ InHand
  BY DEF Init, Built, InHand, HoldsMessage, Threads
<1> QED
  BY <1>1, <1>3, <1>4, <1>5, <1>6 DEF RingInvariant

LEMMA RingInvariantStep ==
  NewSizes = {} /\ RingInvariant /\ [Next]_vars => RingInvariant'
<1> SUFFICES ASSUME NewSizes = {}, RingInvariant, [Next]_vars PROVE RingInvariant'
  OBVIOUS
<1>1. MutexStrengthened'
  BY MutexIsInductive DEF RingInvariant
<1>2. NotResized' /\ Built'
  BY NotResizedStep, BuiltStep DEF RingInvariant, MutexStrengthened
<1>3. Counted' /\ Ring' /\ InHand'
  BY RingStep
<1> QED
  BY <1>1, <1>2, <1>3 DEF RingInvariant

\* As long as nobody changes the size, what is received is what was sent, in its
\* order, and the unread messages lie in order between tail and head.
THEOREM RingIsRight == NewSizes = {} /\ Spec => [](Ring /\ ReceivedInOrder)
<1> SUFFICES ASSUME NewSizes = {} PROVE Spec => [](Ring /\ ReceivedInOrder)
  OBVIOUS
<1>1. RingInvariant => Ring /\ ReceivedInOrder
  <2> SUFFICES ASSUME RingInvariant PROVE Len(received) <= Len(sent)
    BY DEF RingInvariant, Ring, ReceivedInOrder
  <2>1. Len(sent) \in Nat /\ Len(received) \in Nat /\ Unread \in 0..InitialSize
    BY DEF RingInvariant, MutexStrengthened, TypeOK, Counted
  <2> QED
    BY <2>1, CondQueueAssumption DEF CondQueueAssumption, Unread
<1>2. RingInvariant /\ [Next]_vars => RingInvariant'
  BY RingInvariantStep
<1> QED
  BY <1>1, <1>2, RingInit, PTL DEF Spec

-----------------------------------------------------------------------------
(* The ring implements the bounded FIFO.                                     *)

LEMMA ContentsFacts ==
  RingInvariant =>
    /\ Unread \in 0..InitialSize /\ Unread \in Nat
    /\ Contents \in Seq(Messages) /\ Len(Contents) = Unread
    /\ \A i \in 1..Unread : Contents[i] = sent[Len(received) + i]
<1> SUFFICES ASSUME RingInvariant
             PROVE  /\ Unread \in 0..InitialSize /\ Unread \in Nat
                    /\ Contents \in Seq(Messages) /\ Len(Contents) = Unread
                    /\ \A i \in 1..Unread : Contents[i] = sent[Len(received) + i]
  OBVIOUS
<1>1. /\ Unread \in 0..InitialSize /\ Unread \in Nat /\ InitialSize \in Nat \ {0}
      /\ Len(sent) \in Nat /\ Len(received) \in Nat /\ Unread = Len(sent) - Len(received)
      /\ tail \in Slots /\ bufferSize = InitialSize
  BY CondQueueAssumption, SMTT(20)
     DEF CondQueueAssumption, RingInvariant, MutexStrengthened, TypeOK, Counted, NotResized, Unread
<1>2. ASSUME NEW i \in 1..Unread
      PROVE  /\ buffer[SlotOf(i)] = sent[Len(received) + i]
             /\ sent[Len(received) + i] \in Messages
  <2>1. Len(received) + i \in 1..Len(sent) /\ i \in 1..InitialSize
    BY <1>1
  <2>2. SlotOf(i) = SlotFrom(tail, i)
    BY <1>1, <2>1, SlotFacts DEF SlotOf
  <2> QED
    BY <2>1, <2>2 DEF RingInvariant, Ring
<1>3. Contents \in Seq(Messages) /\ Len(Contents) = Unread
  BY <1>1, <1>2 DEF Contents
<1> QED
  BY <1>1, <1>2, <1>3 DEF Contents

LEMMA FifoInit == Init => Fifo!Init
<1> SUFFICES ASSUME Init PROVE Fifo!Init
  OBVIOUS
<1>1. Unread = 0 /\ sent = <<>> /\ received = <<>>
  BY DEF Init, Unread
<1>2. Contents = <<>>
  BY <1>1 DEF Contents
<1> QED
  BY <1>1, <1>2 DEF Fifo!Init

LEMMA FifoStep ==
  ASSUME RingInvariant, RingInvariant', NewSizes = {}, [Next]_vars
  PROVE  [Fifo!Next]_(Fifo!vars)
<1>1. /\ Unread \in 0..InitialSize /\ InitialSize \in Nat
      /\ Contents \in Seq(Messages) /\ Len(Contents) = Unread
      /\ \A i \in 1..Unread : Contents[i] = sent[Len(received) + i]
  BY ContentsFacts, CondQueueAssumption DEF CondQueueAssumption
<1>2. /\ Contents' \in Seq(Messages) /\ Len(Contents') = Unread'
      /\ \A i \in 1..Unread' : Contents'[i] = sent'[Len(received') + i]
  <2>1. (RingInvariant =>
           /\ Contents \in Seq(Messages)
           /\ Len(Contents) = Unread
           /\ \A i \in 1..Unread : Contents[i] = sent[Len(received) + i])'
    BY ContentsFacts, PTL
  <2> QED
    BY <2>1
<1>3. /\ sent \in Seq(0..MaxMessages) /\ received \in Seq(0..MaxMessages)
      /\ message \in [Threads -> 0..MaxMessages] /\ Threads = Producers \cup Consumers
      /\ TypeOK /\ NotResized /\ Counted /\ Built /\ InHand /\ Ring
      /\ Len(sent) \in Nat /\ Len(received) \in Nat /\ Unread = Len(sent) - Len(received)
      /\ tail \in Slots
  <2>1. TypeOK /\ NotResized /\ Counted /\ Built /\ InHand /\ Ring
    BY DEF RingInvariant, MutexStrengthened
  <2>2. /\ sent \in Seq(0..MaxMessages) /\ received \in Seq(0..MaxMessages)
        /\ message \in [Threads -> 0..MaxMessages] /\ tail \in Slots
    BY ONLY <2>1 DEF TypeOK, NotResized
  <2> QED
    BY <2>1, <2>2 DEF Threads, Unread
<1>4. ASSUME UNCHANGED <<sent, received>>
      PROVE  UNCHANGED Fifo!vars
  <2>1. Unread' = Unread
    BY <1>4 DEF Unread
  <2>2. Contents' = Contents
    BY <1>1, <1>2, <1>4, <2>1, SeqEqual
  <2> QED
    BY <1>4, <2>2 DEF Fifo!vars
<1>5. ASSUME NEW p \in Producers, AdvanceHead(p), mainPc # "exited"
      PROVE  Fifo!Next
  <2> DEFINE m == message[p]
  <2>1. pc[p] = "advance" /\ p \in Threads
    BY <1>5 DEF AdvanceHead, Threads
  <2>2. m \in Messages /\ Unread < InitialSize
    BY <1>3, <1>5, <2>1 DEF Built, HoldsMessage, Counted
  <2>3. /\ sent' = Append(sent, m) /\ Len(sent') = Len(sent) + 1 /\ received' = received
        /\ Unread' = Unread + 1 /\ sent'[Len(sent) + 1] = m
        /\ \A i \in 1..Len(sent) : sent'[i] = sent[i]
    <3>1. m \in 0..MaxMessages
      BY <1>3, <2>1
    <3>2. sent' = Append(sent, m) /\ received' = received
      BY <1>5 DEF AdvanceHead
    <3> QED
      BY <1>3, <3>1, <3>2, AppendProperties DEF Unread
  <2>4. /\ Append(Contents, m) \in Seq(Messages)
        /\ Len(Append(Contents, m)) = Unread + 1
        /\ Append(Contents, m)[Unread + 1] = m
        /\ \A i \in 1..Unread : Append(Contents, m)[i] = Contents[i]
    BY <1>1, <2>2, AppendProperties
  <2>5. ASSUME NEW i \in 1..Unread + 1
        PROVE  Contents'[i] = Append(Contents, m)[i]
    <3>1. Contents'[i] = sent'[Len(received) + i]
      BY <1>2, <2>3
    <3>2. CASE i = Unread + 1
      BY <1>1, <1>3, <2>3, <2>4, <3>1, <3>2
    <3>3. CASE i # Unread + 1
      <4>1. i \in 1..Unread /\ Len(received) + i \in 1..Len(sent)
        <5>1. Unread \in Int /\ Len(sent) \in Nat /\ Len(received) \in Nat
          BY <1>1, <1>3
        <5>2. Unread = Len(sent) - Len(received)
          BY <1>3
        <5> QED
          BY ONLY <3>3, <5>1, <5>2, i \in 1..Unread + 1
      <4>2. sent'[Len(received) + i] = sent[Len(received) + i]
        BY <2>3, <4>1
      <4> QED
        BY <1>1, <2>4, <3>1, <4>1, <4>2
    <3> QED
      BY <3>2, <3>3
  <2>6. Contents' = Append(Contents, m)
    BY <1>2, <2>3, <2>4, <2>5, SeqEqual
  <2>7. Fifo!Put(m)
    BY <1>1, <2>2, <2>3, <2>6 DEF Fifo!Put
  <2> QED
    BY <2>2, <2>7 DEF Fifo!Next
<1>6. ASSUME NEW c \in Consumers, AdvanceTail(c), mainPc # "exited"
      PROVE  Fifo!Next
  <2> DEFINE m == message[c]
  <2>1. pc[c] = "advance" /\ c \in Threads
    BY <1>3, <1>6 DEF AdvanceTail
  <2>2. Unread \in 1..InitialSize /\ m = sent[Len(received) + 1]
    <3>1. Unread \in 1..InitialSize /\ 1 \in 1..Unread /\ m = buffer[tail]
      BY <1>1, <1>3, <1>6, <2>1 DEF Counted, InHand
    <3>2. SlotFrom(tail, 1) = tail
      BY <1>3, SlotFacts
    <3> QED
      BY <1>3, <3>1, <3>2 DEF Ring
  <2>3. /\ received' = Append(received, m) /\ sent' = sent
        /\ Len(received') = Len(received) + 1 /\ Unread' = Unread - 1
    <3>1. m \in 0..MaxMessages
      BY <1>3, <2>1
    <3>2. received' = Append(received, m) /\ sent' = sent
      BY <1>6 DEF AdvanceTail
    <3> QED
      BY <1>3, <3>1, <3>2, AppendProperties DEF Unread
  <2>4. Contents # <<>> /\ Head(Contents) = m
    BY <1>1, <2>2
  <2>5. /\ Tail(Contents) \in Seq(Messages)
        /\ Len(Tail(Contents)) = Unread - 1
        /\ \A i \in 1..Unread - 1 : Tail(Contents)[i] = Contents[i + 1]
    BY <1>1, <2>2, <2>4, HeadTailProperties
  <2>6. ASSUME NEW i \in 1..Unread - 1
        PROVE  Contents'[i] = Tail(Contents)[i]
    <3>1. Contents'[i] = sent[Len(received) + 1 + i]
      BY <1>2, <2>3
    <3>2. Contents[i + 1] = sent[Len(received) + (i + 1)]
      BY <1>1, <2>2
    <3> QED
      BY <1>3, <2>5, <3>1, <3>2
  <2>7. Contents' = Tail(Contents)
    BY <1>2, <2>3, <2>5, <2>6, SeqEqual
  <2>8. Fifo!Get
    BY <2>3, <2>4, <2>7 DEF Fifo!Get
  <2> QED
    BY <2>8 DEF Fifo!Next
<1>7. \/ mainPc # "exited" /\ \E p \in Producers : AdvanceHead(p)
      \/ mainPc # "exited" /\ \E c \in Consumers : AdvanceTail(c)
      \/ UNCHANGED <<sent, received>>
  BY <1>3, StepCases
     DEF Elsewhere, InnerStep, Lock, CondWait, Unlock, Test, Decide, Signal, CopyIn, CopyOut,
         historyVars
<1> QED
  BY <1>4, <1>5, <1>6, <1>7

\* putMessage and getMessage under the mutex are a bounded FIFO, whoever is
\* woken, removed or interrupted, as long as nobody changes the size.
THEOREM RingImplementsFifo == NewSizes = {} /\ Spec => ImplementsFifo
<1> SUFFICES ASSUME NewSizes = {} PROVE Spec => ImplementsFifo
  OBVIOUS
<1>1. RingInvariant /\ [Next]_vars => RingInvariant'
  BY RingInvariantStep
<1>2. RingInvariant /\ RingInvariant' /\ [Next]_vars => [Fifo!Next]_(Fifo!vars)
  BY FifoStep
<1> QED
  BY <1>1, <1>2, RingInit, FifoInit, PTL DEF Spec, ImplementsFifo, Fifo!Spec
=============================================================================
