--------------------------- MODULE SemQueueProofs ---------------------------
(***************************************************************************)
(* Proofs about lab5-1.c's queue, for any number of threads, any sizes of  *)
(* the ring and any commands of the user, cancellations and Ctrl+C at any  *)
(* moment among them.                                                      *)
(***************************************************************************)
EXTENDS SemQueueProperties, SequenceTheorems, FiniteSetTheorems, TLAPS

-----------------------------------------------------------------------------
(* The inductive invariant, part by part. *)

\* Where a thread owns the mutex, and where it has taken a token and not used it.
Inside == {"copy", "advance", "post", "print", "unlock"}
Holding == {"check", "lock", "copy", "advance"}
Gone == {"none", "done", "joined"}

\* The handler cancels and joins somebody; the ring has a slot at least.
InOrder ==
  /\ handler \in {"cancel", "join"} => todo # <<>>
  /\ bufferSize > 0

\* The mutex is with the thread inside, with a consumer that was cancelled
\* there, or with main, which has tokens to adjust only after a new size.
Owners ==
  /\ \A t \in Threads : pc[t] \in Inside => mutex = t
  /\ mutex \in Threads =>
       \/ pc[mutex] \in Inside
       \/ pc[mutex] \in {"done", "joined"} /\ mutex \in Consumers /\ cancelled[mutex]
  /\ mainPc \in {"sizeInput", "adjust"} => mutex = Main
  /\ mainPc # "adjust" => left = 0

\* A token that was carried off is counted once: its thread never runs again.
LostAreGone == \A t \in lost : pc[t] \in Gone

TokenStrengthened ==
  TypeOK /\ InOrder /\ Owners /\ LostAreGone /\ FillTokens /\ EmptyTokens

\* The ring before any resize: its slots, the i-th one from slot t on, the unread
\* messages in them, and the copies in the threads' hands.
Slots == 0..InitialSize - 1
SlotFrom(t, i) == (t + i - 1) % InitialSize

Ring ==
  /\ head = SlotFrom(tail, Unread + 1)
  /\ \A i \in 1..Unread : buffer[SlotFrom(tail, i)] = sent[Len(received) + i]
  /\ \A i \in 1..Len(sent) : sent[i] \in Messages
  /\ \A i \in 1..Len(received) : received[i] = sent[i]

ProducerHand(p) ==
  /\ pc[p] \in {"wait"} \cup Holding => message[p] \in Messages
  /\ pc[p] = "advance" => buffer[head] = message[p]

ConsumerHand(c) == pc[c] = "advance" => message[c] = buffer[tail]

InHand == (\A p \in Producers : ProducerHand(p)) /\ (\A c \in Consumers : ConsumerHand(c))

RingUntilResize ==
  ~resized =>
    /\ bufferSize = InitialSize /\ mainPc # "adjust"
    /\ buffer \in [Slots -> 0..MaxMessages] /\ head \in Slots /\ tail \in Slots
    /\ Ring /\ InHand

QueueInvariant == TokenStrengthened /\ RingUntilResize

-----------------------------------------------------------------------------
(* Type correctness. *)

LEMMA FrontLast ==
  ASSUME NEW S, NEW s \in Seq(S), s # <<>>
  PROVE  /\ Len(s) \in Nat \ {0} /\ Last(s) \in S /\ Last(s) = s[Len(s)]
         /\ Front(s) \in Seq(S)
         /\ Len(Front(s)) = Len(s) - 1
         /\ \A i \in 1..Len(s) - 1 : Front(s)[i] = s[i]
<1>1. PICK n \in Nat : Len(s) = n + 1
  <2>1. Len(s) \in Nat /\ Len(s) # 0
    OBVIOUS
  <2>2. Len(s) - 1 \in Nat /\ Len(s) = (Len(s) - 1) + 1
    BY <2>1
  <2> QED
    BY <2>2
<1>2. /\ n + 1 \in 1..Len(s) /\ Len(s) - 1 = n /\ \A i \in 1..n : s[i] \in S
      /\ s[Len(s)] \in S
  BY <1>1
<1>3. /\ SubSeq(s, 1, n) \in Seq(S)
      /\ Len(SubSeq(s, 1, n)) = n
      /\ \A i \in 1..n : SubSeq(s, 1, n)[i] = s[i]
  BY <1>2, SubSeqProperties
<1> QED
  BY <1>1, <1>2, <1>3 DEF Last, Front

LEMMA TypeInit == Init => TypeOK /\ InOrder
<1> SUFFICES ASSUME Init PROVE TypeOK /\ InOrder
  OBVIOUS
<1> USE SemQueueAssumption DEF SemQueueAssumption, Init
<1>1. buffer \in [0..InitialSize - 1 -> 0..MaxMessages] /\ InitialSize \in Sizes
  BY DEF Garbage, Sizes
<1>2. buffer \in UNION {[0..n - 1 -> 0..MaxMessages] : n \in Sizes}
  BY <1>1
<1>3. /\ pc \in [Threads -> PCs] /\ message \in [Threads -> 0..MaxMessages]
      /\ running \in [Threads -> BOOLEAN] /\ cancelled \in [Threads -> BOOLEAN]
  BY DEF PCs, Garbage
<1>4. /\ head \in Nat /\ tail \in Nat /\ bufferSize \in Sizes
      /\ fillCount \in Nat /\ emptyCount \in Nat /\ mutex \in Threads \cup {Main, Free}
      /\ valueOfFill \in Nat /\ left \in Int /\ made \in 0..MaxMessages
  BY <1>1
<1>5. /\ producerMas \in Seq(Producers) /\ consumerMas \in Seq(Consumers) /\ todo \in Seq(Threads)
      /\ sent \in Seq(0..MaxMessages) /\ received \in Seq(0..MaxMessages)
  OBVIOUS
<1>6. /\ lost \subseteq Threads /\ resized \in BOOLEAN /\ flagForExit \in BOOLEAN
      /\ stdoutHeld \in BOOLEAN
      /\ mainPc \in {"menu", "cancel", "join", "sizeLock", "sizeInput", "adjust", "exited"}
      /\ target \in Threads \cup {None} /\ handler \in {"off", "stop", "cancel", "join"}
  OBVIOUS
<1>7. InOrder
  BY DEF InOrder
<1> QED
  BY ONLY <1>2, <1>3, <1>4, <1>5, <1>6, <1>7 DEF TypeOK

LEMMA TypeStep == TypeOK /\ InOrder /\ [Next]_vars => TypeOK' /\ InOrder'
<1> SUFFICES ASSUME TypeOK, InOrder, [Next]_vars PROVE TypeOK' /\ InOrder'
  OBVIOUS
<1> USE SemQueueAssumption
    DEF SemQueueAssumption, TypeOK, InOrder, Goto, ringVars, semVars, threadVars, listVars,
        mainVars, handlerVars, historyVars, queueVars, sizeVars, ctlVars, rest, outerVars
<1>1. CASE UNCHANGED vars
  BY <1>1, ZenonT(120) DEF vars
<1>2. ASSUME NEW t \in Threads, Loop(t) PROVE TypeOK' /\ InOrder'
  <2>1. made' \in 0..MaxMessages /\ message' \in [Threads -> 0..MaxMessages]
    <3>1. CASE ~running[t]
      BY <1>2, <3>1 DEF Loop
    <3>2. CASE running[t]
      <4>1. /\ made' = IF t \in Producers THEN made + 1 ELSE made
            /\ message' = [message EXCEPT ![t] = IF t \in Producers THEN made + 1 ELSE Garbage]
            /\ t \in Producers => made < MaxMessages
        BY <1>2, <3>2 DEF Loop
      <4> QED
        BY <4>1 DEF Garbage
    <3> QED
      BY <3>1, <3>2
  <2>2. pc' \in [Threads -> PCs]
    <3>1. PICK at \in PCs : pc' = [pc EXCEPT ![t] = at]
      BY ONLY <1>2 DEF Loop, Goto, PCs
    <3>2. pc \in [Threads -> PCs]
      OBVIOUS
    <3> QED
      BY ONLY <3>1, <3>2
  <2> QED
    BY <1>2, <2>1, <2>2, ZenonT(40) DEF Loop
<1>3. ASSUME NEW t \in Threads, WaitEmpty(t) \/ WaitFill(t) \/ PostFill(t) \/ PostEmpty(t)
      PROVE  TypeOK' /\ InOrder'
  <2>1. pc' \in [Threads -> PCs]
    <3>1. PICK at \in PCs : pc' = [pc EXCEPT ![t] = at]
      BY ONLY <1>3 DEF WaitEmpty, WaitFill, PostFill, PostEmpty, Goto, PCs
    <3>2. pc \in [Threads -> PCs]
      OBVIOUS
    <3> QED
      BY ONLY <3>1, <3>2
  <2>2. fillCount' \in Nat /\ emptyCount' \in Nat
    <3>1. \/ emptyCount > 0 /\ emptyCount' = emptyCount - 1 /\ fillCount' = fillCount
          \/ fillCount > 0 /\ fillCount' = fillCount - 1 /\ emptyCount' = emptyCount
          \/ fillCount' = fillCount + 1 /\ emptyCount' = emptyCount
          \/ emptyCount' = emptyCount + 1 /\ fillCount' = fillCount
      BY <1>3 DEF WaitEmpty, WaitFill, PostFill, PostEmpty
    <3>2. fillCount \in Nat /\ emptyCount \in Nat
      OBVIOUS
    <3> QED
      BY ONLY <3>1, <3>2
  <2>3. UNCHANGED <<ringVars, mutex, rest>>
    BY <1>3 DEF WaitEmpty, WaitFill, PostFill, PostEmpty
  <2> QED
    BY <2>1, <2>2, <2>3, ZenonT(40)
<1>4. ASSUME NEW t \in Threads, CancelledInWait(t) \/ Check(t) \/ Report(t) \/ Say(t)
      PROVE  TypeOK' /\ InOrder'
  <2>1. pc' \in [Threads -> PCs]
    <3>1. PICK at \in PCs : pc' = [pc EXCEPT ![t] = at]
      BY ONLY <1>4 DEF CancelledInWait, Check, Report, Say, Goto, PCs
    <3>2. pc \in [Threads -> PCs]
      OBVIOUS
    <3> QED
      BY ONLY <3>1, <3>2
  <2>2. lost' \subseteq Threads
    <3>1. lost' = lost \/ lost' = lost \cup {t}
      BY <1>4 DEF CancelledInWait, Check, Report, Say
    <3>2. lost \subseteq Threads
      OBVIOUS
    <3> QED
      BY ONLY <3>1, <3>2, t \in Threads
  <2>3. UNCHANGED <<queueVars, message, ctlVars, made, sent, received, resized>>
    BY <1>4 DEF CancelledInWait, Check, Report, Say
  <2> QED
    BY <2>1, <2>2, <2>3, ZenonT(40)
<1>5. ASSUME NEW t \in Threads, Lock(t) \/ Unlock(t) PROVE TypeOK' /\ InOrder'
  BY <1>5, ZenonT(120) DEF Lock, Unlock, PCs
<1>6. ASSUME NEW p \in Producers, CopyIn(p) PROVE TypeOK' /\ InOrder'
  <2>1. pc' \in [Threads -> PCs] /\ message[p] \in 0..MaxMessages
    BY <1>6 DEF CopyIn, PCs, Threads
  <2>2. PICK n \in Sizes : buffer \in [0..n - 1 -> 0..MaxMessages]
    OBVIOUS
  <2>3. buffer' \in [0..n - 1 -> 0..MaxMessages]
    BY <1>6, <2>1, <2>2 DEF CopyIn
  <2>4. buffer' \in UNION {[0..m - 1 -> 0..MaxMessages] : m \in Sizes}
    BY <2>3
  <2> QED
    BY <1>6, <2>1, <2>4, SMTT(30) DEF CopyIn
<1>7. ASSUME NEW c \in Consumers, CopyOut(c) PROVE TypeOK' /\ InOrder'
  <2>1. pc' \in [Threads -> PCs]
    BY <1>7 DEF CopyOut, PCs, Threads
  <2>2. buffer[tail] \in 0..MaxMessages
    <3>1. PICK n \in Sizes : buffer \in [0..n - 1 -> 0..MaxMessages]
      BY DEF TypeOK
    <3>2. tail \in DOMAIN buffer
      BY <1>7 DEF CopyOut
    <3> QED
      BY ONLY <3>1, <3>2
  <2> QED
    BY <1>7, <2>1, <2>2, ZenonT(120) DEF CopyOut
<1>8. bufferSize \in Nat \ {0}
  BY DEF Sizes
<1>9. ASSUME NEW p \in Producers, AdvanceHead(p) PROVE TypeOK' /\ InOrder'
  <2>1. head' \in Nat
    BY <1>8, <1>9 DEF AdvanceHead
  <2>2. sent' \in Seq(0..MaxMessages) /\ pc' \in [Threads -> PCs]
    BY <1>9 DEF AdvanceHead, PCs, Threads
  <2> QED
    BY <1>9, <2>1, <2>2, ZenonT(40) DEF AdvanceHead
<1>10. ASSUME NEW c \in Consumers, AdvanceTail(c) PROVE TypeOK' /\ InOrder'
  <2>1. tail' \in Nat
    BY <1>8, <1>10 DEF AdvanceTail
  <2>2. received' \in Seq(0..MaxMessages) /\ pc' \in [Threads -> PCs]
    BY <1>10 DEF AdvanceTail, PCs, Threads
  <2> QED
    BY <1>10, <2>1, <2>2, ZenonT(40) DEF AdvanceTail
<1>11. ASSUME NEW t \in Threads, Launch(t),
              \/ t \in Producers /\ producerMas' = Append(producerMas, t) /\ UNCHANGED consumerMas
              \/ t \in Consumers /\ consumerMas' = Append(consumerMas, t) /\ UNCHANGED producerMas
       PROVE  TypeOK' /\ InOrder'
  <2>1. producerMas' \in Seq(Producers) /\ consumerMas' \in Seq(Consumers)
    <3>1. producerMas \in Seq(Producers) /\ consumerMas \in Seq(Consumers)
      OBVIOUS
    <3>2. CASE t \in Producers /\ producerMas' = Append(producerMas, t) /\ consumerMas' = consumerMas
      BY ONLY <3>1, <3>2
    <3>3. CASE t \in Consumers /\ consumerMas' = Append(consumerMas, t) /\ producerMas' = producerMas
      BY ONLY <3>1, <3>3
    <3> QED
      BY ONLY <1>11, <3>2, <3>3
  <2>2. /\ pc' \in [Threads -> PCs]
        /\ running' \in [Threads -> BOOLEAN] /\ cancelled' \in [Threads -> BOOLEAN]
    BY <1>11 DEF Launch, PCs
  <2> QED
    BY <1>11, <2>1, <2>2, ZenonT(40) DEF Launch
<1>12. CASE CreateFails \/ BeginResize \/ Leave
  BY <1>12 DEF CreateFails, BeginResize, Leave
<1>13. CASE RemoveProducer
  <2>1. Last(producerMas) \in Producers /\ producerMas' \in Seq(Producers)
    BY <1>13, FrontLast DEF RemoveProducer
  <2> QED
    BY <1>13, <2>1 DEF RemoveProducer, Stop, Threads
<1>14. CASE RemoveConsumer
  <2>1. Last(consumerMas) \in Consumers /\ consumerMas' \in Seq(Consumers)
    BY <1>14, FrontLast DEF RemoveConsumer
  <2> QED
    BY <1>14, <2>1 DEF RemoveConsumer, Stop, Threads
<1>15. CASE CancelTarget \/ JoinTarget
  <2>1. CASE CancelTarget
    BY <2>1 DEF CancelTarget
  <2>2. CASE JoinTarget
    BY <2>2 DEF JoinTarget, PCs
  <2> QED
    BY ONLY <1>15, <2>1, <2>2
<1>16. CASE LockForSize \/ EndResize \/ \E n \in NewSizes : RefuseSize(n)
  <2>1. CASE LockForSize
    BY <2>1 DEF LockForSize
  <2>2. CASE EndResize
    BY <2>2 DEF EndResize
  <2>3. CASE \E n \in NewSizes : RefuseSize(n)
    BY <2>3 DEF RefuseSize
  <2> QED
    BY ONLY <1>16, <2>1, <2>2, <2>3
<1>17. ASSUME NEW n \in NewSizes, AcceptSize(n) PROVE TypeOK' /\ InOrder'
  <2>1. n \in Sizes /\ n \in Nat /\ n > 0 /\ bufferSize' = n
    <3>1. bufferSize' = n /\ n > valueOfFill
      BY ONLY <1>17 DEF AcceptSize
    <3>2. n \in Sizes
      BY ONLY <1>17 DEF Sizes
    <3>3. n \in Nat
      BY ONLY <1>17, SemQueueAssumption DEF SemQueueAssumption
    <3>4. valueOfFill \in Nat
      BY DEF TypeOK
    <3>5. n > 0
      BY ONLY <3>1, <3>3, <3>4
    <3> QED BY ONLY <3>1, <3>2, <3>3, <3>5
  <2>2. buffer' \in [0..n - 1 -> 0..MaxMessages]
    <3>1. PICK m \in Sizes : buffer \in [0..m - 1 -> 0..MaxMessages]
      BY DEF TypeOK
    <3>2. buffer' = [s \in 0..n - 1 |-> IF s \in DOMAIN buffer THEN buffer[s] ELSE Garbage]
      BY <1>17 DEF AcceptSize
    <3>3. Garbage \in 0..MaxMessages
      BY DEF Garbage
    <3> QED
      BY ONLY <3>1, <3>2, <3>3
  <2>3. buffer' \in UNION {[0..m - 1 -> 0..MaxMessages] : m \in Sizes}
    BY <2>1, <2>2
  <2>4. head' \in Nat /\ left' \in Int
    BY <1>8, <1>17, <2>1 DEF AcceptSize
  <2> QED
    BY <1>17, <2>1, <2>3, <2>4 DEF AcceptSize
<1>18. CASE AddToken \/ TakeToken
  <2>1. emptyCount' \in Nat /\ left' \in Int
    <3>1. \/ emptyCount' = emptyCount + 1 /\ left' = left - 1
          \/ emptyCount > 0 /\ emptyCount' = emptyCount - 1 /\ left' = left + 1
      BY <1>18 DEF AddToken, TakeToken
    <3>2. emptyCount \in Nat /\ left \in Int
      OBVIOUS
    <3> QED
      BY ONLY <3>1, <3>2
  <2> QED
    BY <1>18, <2>1, ZenonT(40) DEF AddToken, TakeToken
<1>19. CASE CtrlC
  <2>1. todo' \in Seq(Threads)
    BY <1>19, ConcatProperties DEF CtrlC, Threads
  <2> QED
    BY <1>19, <2>1 DEF CtrlC
<1>20. CASE HandlerStop \/ HandlerCancel \/ HandlerReturn
  <2>1. CASE HandlerStop
    BY <2>1 DEF HandlerStop
  <2>2. CASE HandlerCancel
    BY <2>2 DEF HandlerCancel
  <2>3. CASE HandlerReturn
    BY <2>3 DEF HandlerReturn
  <2> QED
    BY ONLY <1>20, <2>1, <2>2, <2>3
<1>21. CASE HandlerJoin
  <2>1. todo' \in Seq(Threads) /\ pc' \in [Threads -> PCs]
    BY <1>21 DEF HandlerJoin, PCs
  <2> QED
    BY <1>21, <2>1 DEF HandlerJoin
<1>22. ASSUME NEW p \in Producers, LaunchProducer(p) PROVE TypeOK' /\ InOrder'
  BY <1>11, <1>22 DEF LaunchProducer, Threads
<1>23. ASSUME NEW c \in Consumers, LaunchConsumer(c) PROVE TypeOK' /\ InOrder'
  BY <1>11, <1>23 DEF LaunchConsumer, Threads
<1> QED
  BY ONLY <1>1, <1>2, <1>3, <1>4, <1>5, <1>6, <1>7, <1>9, <1>10, <1>12, <1>13, <1>14, <1>15,
     <1>16, <1>17, <1>18, <1>19, <1>20, <1>21, <1>22, <1>23, [Next]_vars
     DEF Next, User, MainStep, HandlerStep, ThreadStep, Threads

-----------------------------------------------------------------------------
(* The steps that concern neither the queue nor the mutex nor a token: main,   *)
(* the handler, and a thread at the head of its loop.                          *)

Outside == {"none", "say", "loop", "wait", "done", "joined"}

Elsewhere ==
  /\ UNCHANGED <<queueVars, sent, received, left, lost, resized>>
  /\ mainPc' \in {"sizeInput", "adjust"} => mainPc' = mainPc
  /\ mainPc = "adjust" => mainPc' = "adjust"
  /\ \A q \in Threads :
       \/ pc'[q] = pc[q] /\ message'[q] = message[q] /\ (cancelled[q] => cancelled'[q])
       \/ /\ pc[q] \in Outside /\ pc'[q] \in Outside
          /\ q \in lost /\ pc[q] \in Gone => pc'[q] \in Gone
          /\ mutex = q /\ pc[q] \in {"done", "joined"} =>
               pc'[q] = "joined" /\ (cancelled[q] => cancelled'[q])
          /\ pc'[q] = "wait" /\ q \in Producers => message'[q] \in Messages

QueueStep ==
  \/ \E p \in Producers : WaitEmpty(p) \/ CopyIn(p) \/ AdvanceHead(p) \/ PostFill(p)
  \/ \E c \in Consumers : WaitFill(c) \/ CopyOut(c) \/ AdvanceTail(c) \/ PostEmpty(c) \/ Report(c)
  \/ \E t \in Threads : Check(t) \/ Lock(t) \/ Unlock(t)
  \/ \E n \in NewSizes : AcceptSize(n)
  \/ LockForSize \/ AddToken \/ TakeToken \/ EndResize

LEMMA StepCases == TypeOK /\ InOrder /\ [Next]_vars => QueueStep \/ Elsewhere
<1> SUFFICES ASSUME TypeOK, InOrder, [Next]_vars PROVE QueueStep \/ Elsewhere
  OBVIOUS
<1> USE DEF Elsewhere, Goto, Outside, Gone, ringVars, semVars, threadVars, listVars, mainVars,
            handlerVars, historyVars, queueVars, sizeVars, ctlVars, rest, outerVars
<1>1. /\ pc \in [Threads -> PCs] /\ message \in [Threads -> 0..MaxMessages]
      /\ cancelled \in [Threads -> BOOLEAN] /\ todo \in Seq(Threads) /\ made \in 0..MaxMessages
  BY DEF TypeOK
<1>2. CASE UNCHANGED vars
  BY <1>2 DEF vars
<1>3. ASSUME NEW t \in Threads, Loop(t) PROVE Elsewhere
  <2>1. t \in Producers /\ pc'[t] = "wait" => message'[t] \in Messages
    <3>1. t \in Producers /\ pc'[t] = "wait"
            => made < MaxMessages /\ message' = [message EXCEPT ![t] = made + 1]
      BY <1>1, <1>3 DEF Loop
    <3>2. made < MaxMessages => made + 1 \in Messages
      BY <1>1, SemQueueAssumption DEF SemQueueAssumption, Messages
    <3> QED
      BY <1>1, <3>1, <3>2
  <2>2. \A q \in Threads : q # t => pc'[q] = pc[q] /\ message'[q] = message[q]
    BY <1>1, <1>3 DEF Loop
  <2>3. pc[t] = "loop" /\ pc'[t] \in {"done", "wait"}
    BY <1>1, <1>3 DEF Loop
  <2>4. UNCHANGED <<queueVars, sent, received, left, lost, resized, mainPc, cancelled>>
    BY <1>3 DEF Loop
  <2> QED
    BY <2>1, <2>2, <2>3, <2>4
<1>4. ASSUME NEW t \in Threads, CancelledInWait(t) \/ Say(t) PROVE Elsewhere
  BY <1>1, <1>4 DEF CancelledInWait, Say
<1>5. ASSUME NEW t \in Threads, LaunchProducer(t) \/ LaunchConsumer(t) PROVE Elsewhere
  BY <1>1, <1>5 DEF LaunchProducer, LaunchConsumer, AtMenu, MainAt, Launch
<1>6. CASE RemoveProducer \/ RemoveConsumer
  BY <1>6 DEF RemoveProducer, RemoveConsumer, AtMenu, MainAt, Stop
<1>7. CASE CreateFails \/ BeginResize \/ Leave \/ \E n \in NewSizes : RefuseSize(n)
  BY <1>7 DEF CreateFails, BeginResize, Leave, RefuseSize, AtMenu, MainAt
<1>8. CASE CancelTarget \/ HandlerCancel
  <2>1. \A q \in Threads : cancelled[q] => cancelled'[q]
    BY <1>1, <1>8 DEF CancelTarget, HandlerCancel
  <2> QED
    BY <1>8, <2>1 DEF CancelTarget, HandlerCancel, MainAt
<1>9. CASE JoinTarget
  BY <1>1, <1>9 DEF JoinTarget, MainAt
<1>10. CASE CtrlC \/ HandlerStop \/ HandlerReturn
  BY <1>10 DEF CtrlC, HandlerStop, HandlerReturn
<1>11. CASE HandlerJoin
  BY <1>1, <1>11 DEF HandlerJoin
<1> QED
  BY <1>2, <1>3, <1>4, <1>5, <1>6, <1>7, <1>8, <1>9, <1>10, <1>11
     DEF Next, User, MainStep, HandlerStep, ThreadStep, QueueStep, Threads

-----------------------------------------------------------------------------
(* The mutex. *)

LEMMA OwnersStep == TypeOK /\ InOrder /\ Owners /\ [Next]_vars => Owners'
<1> SUFFICES ASSUME TypeOK, InOrder, Owners, [Next]_vars PROVE Owners'
  OBVIOUS
<1> USE DEF Goto, Owners, Inside, ringVars, semVars, listVars, mainVars, handlerVars,
            historyVars, queueVars, sizeVars, ctlVars, rest, outerVars
<1>1. /\ pc \in [Threads -> PCs] /\ mutex \in Threads \cup {Main, Free}
      /\ {Free, Main} \cap Threads = {} /\ Main # Free
      /\ cancelled \in [Threads -> BOOLEAN]
  BY SemQueueAssumption DEF SemQueueAssumption, TypeOK, Threads, Main, Free
<1>2. CASE Elsewhere
  <2>1. mutex' = mutex /\ left' = left
    BY <1>2 DEF Elsewhere
  <2>2. \A t \in Threads : pc'[t] \in Inside => mutex' = t
    BY <1>2, <2>1 DEF Elsewhere, Outside
  <2>3. mutex \in Threads =>
          \/ pc'[mutex] \in Inside
          \/ pc'[mutex] \in {"done", "joined"} /\ mutex \in Consumers /\ cancelled'[mutex]
    BY <1>2 DEF Elsewhere, Outside
  <2>4. /\ mainPc' \in {"sizeInput", "adjust"} => mutex' = Main
        /\ mainPc' # "adjust" => left' = 0
    BY <1>2, <2>1 DEF Elsewhere
  <2> QED
    BY <2>1, <2>2, <2>3, <2>4
<1>3. ASSUME NEW t \in Threads, \/ WaitEmpty(t) \/ WaitFill(t) \/ Check(t)
                                \/ CopyIn(t) \/ AdvanceHead(t) \/ PostFill(t)
                                \/ CopyOut(t) \/ AdvanceTail(t) \/ PostEmpty(t)
      PROVE  Owners'
  <2>1. UNCHANGED <<mutex, mainPc, left, cancelled>>
    BY <1>3 DEF WaitEmpty, WaitFill, Check, CopyIn, AdvanceHead, PostFill, CopyOut, AdvanceTail,
       PostEmpty
  <2>2. /\ \A q \in Threads \ {t} : pc'[q] = pc[q]
        /\ pc'[t] \in Inside <=> pc[t] \in Inside
        /\ pc[t] \notin {"done", "joined"}
    BY <1>1, <1>3 DEF WaitEmpty, WaitFill, Check, CopyIn, AdvanceHead, PostFill, CopyOut,
       AdvanceTail, PostEmpty
  <2> QED
    BY <1>1, <2>1, <2>2
<1>4. ASSUME NEW c \in Consumers, Report(c) PROVE Owners'
  BY <1>1, <1>4 DEF Report, Threads
<1>5. ASSUME NEW t \in Threads, Lock(t) \/ Unlock(t) PROVE Owners'
  BY <1>1, <1>5 DEF Lock, Unlock
<1>6. CASE LockForSize
  BY <1>1, <1>6 DEF LockForSize, MainAt, threadVars
<1>7. CASE AddToken \/ TakeToken \/ \E n \in NewSizes : AcceptSize(n)
  BY <1>7 DEF AddToken, TakeToken, AcceptSize, MainAt, threadVars
<1>8. CASE EndResize
  BY <1>1, <1>8 DEF EndResize, MainAt, threadVars
<1> QED
  BY <1>2, <1>3, <1>4, <1>5, <1>6, <1>7, <1>8, StepCases DEF QueueStep, Threads

LEMMA LostStep == TypeOK /\ InOrder /\ LostAreGone /\ [Next]_vars => LostAreGone'
<1> SUFFICES ASSUME TypeOK, InOrder, LostAreGone, [Next]_vars PROVE LostAreGone'
  OBVIOUS
<1> USE DEF Goto, LostAreGone, Gone, historyVars, rest, outerVars, threadVars
<1>1. pc \in [Threads -> PCs] /\ lost \subseteq Threads
  BY DEF TypeOK
<1>2. CASE Elsewhere
  BY <1>1, <1>2 DEF Elsewhere
<1>3. ASSUME NEW t \in Threads, \/ WaitEmpty(t) \/ WaitFill(t) \/ Lock(t) \/ Unlock(t)
                                \/ CopyIn(t) \/ AdvanceHead(t) \/ PostFill(t)
                                \/ CopyOut(t) \/ AdvanceTail(t) \/ PostEmpty(t) \/ Report(t)
      PROVE  LostAreGone'
  <2>1. lost' = lost /\ pc[t] \notin Gone
    BY <1>3 DEF WaitEmpty, WaitFill, Lock, Unlock, CopyIn, AdvanceHead, PostFill, CopyOut,
       AdvanceTail, PostEmpty, Report
  <2>2. \A q \in Threads \ {t} : pc'[q] = pc[q]
    BY <1>1, <1>3 DEF WaitEmpty, WaitFill, Lock, Unlock, CopyIn, AdvanceHead, PostFill, CopyOut,
       AdvanceTail, PostEmpty, Report
  <2> QED
    BY <1>1, <2>1, <2>2
<1>4. ASSUME NEW t \in Threads, Check(t) PROVE LostAreGone'
  BY <1>1, <1>4 DEF Check
<1>5. CASE LockForSize \/ AddToken \/ TakeToken \/ EndResize \/ \E n \in NewSizes : AcceptSize(n)
  BY <1>5 DEF LockForSize, AddToken, TakeToken, EndResize, AcceptSize
<1> QED
  BY <1>2, <1>3, <1>4, <1>5, StepCases DEF QueueStep, Threads

-----------------------------------------------------------------------------
(* The tokens. *)

HoldingFill == At(Consumers, Holding)
HoldingEmpty == At(Producers, Holding)
PostingFill == At(Producers, {"post"})
PostingEmpty == At(Consumers, {"post"})
LostFill == lost \cap Consumers
LostEmpty == lost \cap Producers

Holders == <<HoldingFill, HoldingEmpty, PostingFill, PostingEmpty, LostFill, LostEmpty>>

FillLedger ==
  fillCount + Cardinality(HoldingFill) + Cardinality(LostFill)
    = Unread - Cardinality(PostingFill)

EmptyLedger ==
  emptyCount + Cardinality(HoldingEmpty) + Cardinality(LostEmpty) + Cardinality(PostingEmpty)
             + left
    = bufferSize - Unread

LEMMA Ledgers == (FillTokens <=> FillLedger) /\ (EmptyTokens <=> EmptyLedger)
  BY DEF FillTokens, EmptyTokens, FillLedger, EmptyLedger, HoldingFill, HoldingEmpty,
         PostingFill, PostingEmpty, LostFill, LostEmpty, Holding

LEMMA HoldersFinite ==
  /\ IsFiniteSet(HoldingFill) /\ Cardinality(HoldingFill) \in Nat
  /\ IsFiniteSet(HoldingEmpty) /\ Cardinality(HoldingEmpty) \in Nat
  /\ IsFiniteSet(PostingFill) /\ Cardinality(PostingFill) \in Nat
  /\ IsFiniteSet(PostingEmpty) /\ Cardinality(PostingEmpty) \in Nat
  /\ IsFiniteSet(LostFill) /\ Cardinality(LostFill) \in Nat
  /\ IsFiniteSet(LostEmpty) /\ Cardinality(LostEmpty) \in Nat
<1>1. IsFiniteSet(Producers) /\ IsFiniteSet(Consumers)
  BY SemQueueAssumption DEF SemQueueAssumption
<1>2. /\ HoldingEmpty \in SUBSET Producers /\ PostingFill \in SUBSET Producers
      /\ HoldingFill \in SUBSET Consumers /\ PostingEmpty \in SUBSET Consumers
      /\ LostFill \in SUBSET Consumers /\ LostEmpty \in SUBSET Producers
  BY DEF HoldingEmpty, PostingFill, HoldingFill, PostingEmpty, LostFill, LostEmpty, At
<1>3. /\ IsFiniteSet(HoldingEmpty) /\ IsFiniteSet(PostingFill) /\ IsFiniteSet(LostEmpty)
      /\ IsFiniteSet(HoldingFill) /\ IsFiniteSet(PostingEmpty) /\ IsFiniteSet(LostFill)
  BY <1>1, <1>2, FS_Subset
<1> QED
  BY <1>3, FS_CardinalityType

\* The ring is never read when empty nor, while no resize is under way, written when full.
LEMMA Room ==
  ASSUME TypeOK, FillTokens, EmptyTokens
  PROVE  /\ Unread \in Nat
         /\ HoldingFill # {} => Unread > 0
         /\ left = 0 => Unread <= bufferSize
         /\ left = 0 /\ HoldingEmpty # {} => Unread < bufferSize
<1>1. /\ bufferSize \in Nat /\ Unread \in Int /\ fillCount \in Nat /\ emptyCount \in Nat
      /\ left \in Int
  BY SemQueueAssumption DEF SemQueueAssumption, TypeOK, Unread, Sizes
<1>2. /\ HoldingEmpty # {} => Cardinality(HoldingEmpty) # 0
      /\ HoldingFill # {} => Cardinality(HoldingFill) # 0
  BY HoldersFinite, FS_EmptySet
<1>3. FillLedger /\ EmptyLedger
  BY Ledgers
<1>4. /\ Unread = fillCount + Cardinality(HoldingFill) + Cardinality(LostFill) + Cardinality(PostingFill)
      /\ bufferSize - Unread = emptyCount + Cardinality(HoldingEmpty) + Cardinality(LostEmpty)
                                + Cardinality(PostingEmpty) + left
  BY ONLY <1>1, <1>3, HoldersFinite DEF FillLedger, EmptyLedger
<1>5. Unread \in Nat /\ Unread >= Cardinality(HoldingFill)
  BY ONLY <1>1, <1>4, HoldersFinite
<1>6. left = 0 => Unread + Cardinality(HoldingEmpty) <= bufferSize
  BY ONLY <1>1, <1>4, HoldersFinite
<1> QED
  BY ONLY <1>1, <1>2, <1>5, <1>6, HoldersFinite

LEMMA LedgerStep ==
  TypeOK /\ InOrder /\ Owners /\ LostAreGone /\ FillTokens /\ EmptyTokens /\ [Next]_vars
    => FillTokens' /\ EmptyTokens'
<1> SUFFICES ASSUME TypeOK, InOrder, Owners, LostAreGone, FillTokens, EmptyTokens, [Next]_vars
             PROVE  FillLedger' /\ EmptyLedger'
  <2>1. ((FillTokens <=> FillLedger) /\ (EmptyTokens <=> EmptyLedger))'
    BY Ledgers, PTL
  <2> QED
    BY <2>1
<1>1. /\ pc \in [Threads -> PCs] /\ bufferSize \in Nat /\ lost \subseteq Threads
      /\ fillCount \in Nat /\ emptyCount \in Nat /\ Unread \in Int /\ left \in Int
  <2>1. pc \in [Threads -> PCs] /\ lost \subseteq Threads
    BY DEF TypeOK
  <2> QED
    <3>1. /\ bufferSize \in Nat /\ fillCount \in Nat /\ emptyCount \in Nat /\ left \in Int
      BY SemQueueAssumption DEF SemQueueAssumption, TypeOK, Sizes
    <3>2. sent \in Seq(0..MaxMessages) /\ received \in Seq(0..MaxMessages)
      BY DEF TypeOK
    <3>3. Unread \in Int
      BY ONLY <3>2 DEF Unread
    <3> QED
      BY ONLY <2>1, <3>1, <3>3
<1>2. /\ fillCount + Cardinality(HoldingFill) + Cardinality(LostFill)
           = Unread - Cardinality(PostingFill)
      /\ emptyCount + Cardinality(HoldingEmpty) + Cardinality(LostEmpty)
           + Cardinality(PostingEmpty) + left
           = bufferSize - Unread
  BY Ledgers DEF FillLedger, EmptyLedger
<1>3. Producers \cap Consumers = {}
  BY SemQueueAssumption DEF SemQueueAssumption
<1> USE DEF HoldingEmpty, HoldingFill, PostingFill, PostingEmpty, LostFill, LostEmpty, At,
            Holding, Goto
<1>4. ASSUME UNCHANGED <<fillCount, emptyCount, sent, received, left, bufferSize>>,
             UNCHANGED Holders
      PROVE  FillLedger' /\ EmptyLedger'
  <2>1. Unread' = Unread
    BY <1>4 DEF Unread
  <2> HIDE DEF HoldingEmpty, HoldingFill, PostingFill, PostingEmpty, LostFill, LostEmpty
  <2> QED
    BY <1>2, <1>4, <2>1 DEF Holders, FillLedger, EmptyLedger
<1>5. CASE Elsewhere
  <2>1. UNCHANGED <<fillCount, emptyCount, sent, received, left, bufferSize, lost>>
    BY <1>5 DEF Elsewhere, queueVars, semVars, ringVars
  <2>2. UNCHANGED Holders
    BY <1>1, <1>5, <2>1 DEF Elsewhere, Outside, Holders, Threads
  <2> QED
    BY <2>1, <2>2, <1>4
<1>6. ASSUME NEW t \in Threads, Lock(t) \/ Unlock(t) \/ CopyIn(t) \/ CopyOut(t) \/ Report(t)
      PROVE  FillLedger' /\ EmptyLedger'
  <2>1. UNCHANGED <<fillCount, emptyCount, sent, received, left, bufferSize, lost>>
    BY <1>6 DEF Lock, Unlock, CopyIn, CopyOut, Report, queueVars, ringVars, semVars, rest,
       historyVars, ctlVars, mainVars
  <2>2. /\ \A q \in Threads : q # t => pc'[q] = pc[q]
        /\ (pc'[t] \in Holding <=> pc[t] \in Holding) /\ pc[t] # "post" /\ pc'[t] # "post"
    BY <1>1, <1>6 DEF Lock, Unlock, CopyIn, CopyOut, Report
  <2>3. UNCHANGED Holders
    BY <1>1, <2>1, <2>2 DEF Holders, Threads
  <2> QED
    BY <2>1, <2>3, <1>4
<1>7. ASSUME NEW t \in Threads, Check(t) PROVE FillLedger' /\ EmptyLedger'
  <2>1. /\ UNCHANGED <<fillCount, emptyCount, sent, received, left, bufferSize>>
        /\ pc[t] = "check" /\ t \notin lost
    BY <1>7 DEF Check, queueVars, ringVars, semVars, ctlVars, mainVars, LostAreGone, Gone
  <2>2. CASE running[t]
    <3>1. UNCHANGED Holders
      BY <1>1, <1>7, <2>2 DEF Check, Holders, Threads
    <3> QED
      BY <2>1, <3>1, <1>4
  <2>3. CASE ~running[t]
    <3>1. pc' = [pc EXCEPT ![t] = "done"] /\ lost' = lost \cup {t}
      BY <1>7, <2>3 DEF Check
    <3>2. Unread' = Unread
      BY <2>1 DEF Unread
    <3>3. CASE t \in Producers
      <4>1. /\ HoldingEmpty' = HoldingEmpty \ {t} /\ t \in HoldingEmpty
            /\ LostEmpty' = LostEmpty \cup {t} /\ t \notin LostEmpty
            /\ UNCHANGED <<HoldingFill, PostingFill, PostingEmpty, LostFill>>
        BY <1>1, <1>3, <2>1, <3>1, <3>3 DEF Threads
      <4> HIDE DEF HoldingEmpty, HoldingFill, PostingFill, PostingEmpty, LostFill, LostEmpty
      <4>2. /\ Cardinality(HoldingEmpty') = Cardinality(HoldingEmpty) - 1
            /\ Cardinality(LostEmpty') = Cardinality(LostEmpty) + 1
        BY ONLY <4>1, HoldersFinite, FS_AddElement, FS_RemoveElement
      <4> QED
        BY <1>1, <1>2, <2>1, <3>2, <4>1, <4>2, HoldersFinite DEF FillLedger, EmptyLedger
    <3>4. CASE t \in Consumers
      <4>1. /\ HoldingFill' = HoldingFill \ {t} /\ t \in HoldingFill
            /\ LostFill' = LostFill \cup {t} /\ t \notin LostFill
            /\ UNCHANGED <<HoldingEmpty, PostingFill, PostingEmpty, LostEmpty>>
        BY <1>1, <1>3, <2>1, <3>1, <3>4 DEF Threads
      <4> HIDE DEF HoldingEmpty, HoldingFill, PostingFill, PostingEmpty, LostFill, LostEmpty
      <4>2. /\ Cardinality(HoldingFill') = Cardinality(HoldingFill) - 1
            /\ Cardinality(LostFill') = Cardinality(LostFill) + 1
        BY ONLY <4>1, HoldersFinite, FS_AddElement, FS_RemoveElement
      <4> QED
        BY <1>1, <1>2, <2>1, <3>2, <4>1, <4>2, HoldersFinite DEF FillLedger, EmptyLedger
    <3> QED
      BY <3>3, <3>4 DEF Threads
  <2> QED
    BY <2>2, <2>3
<1>8. ASSUME NEW t \in Producers, WaitEmpty(t) PROVE FillLedger' /\ EmptyLedger'
  <2>1. /\ HoldingEmpty' = HoldingEmpty \cup {t} /\ t \notin HoldingEmpty
        /\ UNCHANGED <<HoldingFill, PostingFill, PostingEmpty, LostFill, LostEmpty>>
    BY <1>1, <1>3, <1>8 DEF WaitEmpty, Threads, rest, historyVars
  <2> HIDE DEF HoldingEmpty, HoldingFill, PostingFill, PostingEmpty, LostFill, LostEmpty
  <2>2. /\ Cardinality(HoldingEmpty') = Cardinality(HoldingEmpty) + 1
    BY ONLY <2>1, HoldersFinite, FS_AddElement, FS_RemoveElement
  <2>3. emptyCount' = emptyCount - 1 /\ Unread' = Unread /\ UNCHANGED <<fillCount, left, bufferSize>>
    BY <1>8 DEF WaitEmpty, ringVars, semVars, rest, historyVars, ctlVars, mainVars, TypeOK, Unread,
       Threads
  <2> QED
    BY <1>1, <1>2, <2>1, <2>2, <2>3, HoldersFinite DEF FillLedger, EmptyLedger
<1>9. ASSUME NEW t \in Producers, AdvanceHead(t) PROVE FillLedger' /\ EmptyLedger'
  <2>1. /\ HoldingEmpty' = HoldingEmpty \ {t} /\ t \in HoldingEmpty
        /\ PostingFill' = PostingFill \cup {t} /\ t \notin PostingFill
        /\ UNCHANGED <<HoldingFill, PostingEmpty, LostFill, LostEmpty>>
    BY <1>1, <1>3, <1>9 DEF AdvanceHead, Threads, rest, historyVars
  <2> HIDE DEF HoldingEmpty, HoldingFill, PostingFill, PostingEmpty, LostFill, LostEmpty
  <2>2. /\ Cardinality(HoldingEmpty') = Cardinality(HoldingEmpty) - 1
        /\ Cardinality(PostingFill') = Cardinality(PostingFill) + 1
    BY ONLY <2>1, HoldersFinite, FS_AddElement, FS_RemoveElement
  <2>3. Unread' = Unread + 1 /\ UNCHANGED <<fillCount, emptyCount, left, bufferSize>>
    BY <1>9 DEF AdvanceHead, ringVars, semVars, rest, historyVars, ctlVars, mainVars, TypeOK, Unread,
       Threads
  <2> QED
    BY <1>1, <1>2, <2>1, <2>2, <2>3, HoldersFinite DEF FillLedger, EmptyLedger
<1>10. ASSUME NEW t \in Producers, PostFill(t) PROVE FillLedger' /\ EmptyLedger'
  <2>1. /\ PostingFill' = PostingFill \ {t} /\ t \in PostingFill
        /\ UNCHANGED <<HoldingFill, HoldingEmpty, PostingEmpty, LostFill, LostEmpty>>
    BY <1>1, <1>3, <1>10 DEF PostFill, Threads, rest, historyVars
  <2> HIDE DEF HoldingEmpty, HoldingFill, PostingFill, PostingEmpty, LostFill, LostEmpty
  <2>2. /\ Cardinality(PostingFill') = Cardinality(PostingFill) - 1
    BY ONLY <2>1, HoldersFinite, FS_AddElement, FS_RemoveElement
  <2>3. fillCount' = fillCount + 1 /\ Unread' = Unread /\ UNCHANGED <<emptyCount, left, bufferSize>>
    BY <1>10 DEF PostFill, ringVars, semVars, rest, historyVars, ctlVars, mainVars, TypeOK, Unread,
       Threads
  <2> QED
    BY <1>1, <1>2, <2>1, <2>2, <2>3, HoldersFinite DEF FillLedger, EmptyLedger
<1>11. ASSUME NEW t \in Consumers, WaitFill(t) PROVE FillLedger' /\ EmptyLedger'
  <2>1. /\ HoldingFill' = HoldingFill \cup {t} /\ t \notin HoldingFill
        /\ UNCHANGED <<HoldingEmpty, PostingFill, PostingEmpty, LostFill, LostEmpty>>
    BY <1>1, <1>3, <1>11 DEF WaitFill, Threads, rest, historyVars
  <2> HIDE DEF HoldingEmpty, HoldingFill, PostingFill, PostingEmpty, LostFill, LostEmpty
  <2>2. /\ Cardinality(HoldingFill') = Cardinality(HoldingFill) + 1
    BY ONLY <2>1, HoldersFinite, FS_AddElement, FS_RemoveElement
  <2>3. fillCount' = fillCount - 1 /\ Unread' = Unread /\ UNCHANGED <<emptyCount, left, bufferSize>>
    BY <1>11 DEF WaitFill, ringVars, semVars, rest, historyVars, ctlVars, mainVars, TypeOK, Unread,
       Threads
  <2> QED
    BY <1>1, <1>2, <2>1, <2>2, <2>3, HoldersFinite DEF FillLedger, EmptyLedger
<1>12. ASSUME NEW t \in Consumers, AdvanceTail(t) PROVE FillLedger' /\ EmptyLedger'
  <2>1. /\ HoldingFill' = HoldingFill \ {t} /\ t \in HoldingFill
        /\ PostingEmpty' = PostingEmpty \cup {t} /\ t \notin PostingEmpty
        /\ UNCHANGED <<HoldingEmpty, PostingFill, LostFill, LostEmpty>>
    BY <1>1, <1>3, <1>12 DEF AdvanceTail, Threads, rest, historyVars
  <2> HIDE DEF HoldingEmpty, HoldingFill, PostingFill, PostingEmpty, LostFill, LostEmpty
  <2>2. /\ Cardinality(HoldingFill') = Cardinality(HoldingFill) - 1
        /\ Cardinality(PostingEmpty') = Cardinality(PostingEmpty) + 1
    BY ONLY <2>1, HoldersFinite, FS_AddElement, FS_RemoveElement
  <2>3. Unread' = Unread - 1 /\ UNCHANGED <<fillCount, emptyCount, left, bufferSize>>
    BY <1>12 DEF AdvanceTail, ringVars, semVars, rest, historyVars, ctlVars, mainVars, TypeOK, Unread,
       Threads
  <2> QED
    BY <1>1, <1>2, <2>1, <2>2, <2>3, HoldersFinite DEF FillLedger, EmptyLedger
<1>13. ASSUME NEW t \in Consumers, PostEmpty(t) PROVE FillLedger' /\ EmptyLedger'
  <2>1. /\ PostingEmpty' = PostingEmpty \ {t} /\ t \in PostingEmpty
        /\ UNCHANGED <<HoldingFill, HoldingEmpty, PostingFill, LostFill, LostEmpty>>
    BY <1>1, <1>3, <1>13 DEF PostEmpty, Threads, rest, historyVars
  <2> HIDE DEF HoldingEmpty, HoldingFill, PostingFill, PostingEmpty, LostFill, LostEmpty
  <2>2. /\ Cardinality(PostingEmpty') = Cardinality(PostingEmpty) - 1
    BY ONLY <2>1, HoldersFinite, FS_AddElement, FS_RemoveElement
  <2>3. emptyCount' = emptyCount + 1 /\ Unread' = Unread /\ UNCHANGED <<fillCount, left, bufferSize>>
    BY <1>13 DEF PostEmpty, ringVars, semVars, rest, historyVars, ctlVars, mainVars, TypeOK, Unread,
       Threads
  <2> QED
    BY <1>1, <1>2, <2>1, <2>2, <2>3, HoldersFinite DEF FillLedger, EmptyLedger
<1>14. CASE LockForSize \/ EndResize
  <2>1. UNCHANGED <<fillCount, emptyCount, sent, received, left, bufferSize, lost, pc>>
    BY <1>14 DEF LockForSize, EndResize, ringVars, semVars, threadVars, outerVars, historyVars,
       sizeVars
  <2> QED
    BY <2>1, <1>4 DEF Holders
<1>15. CASE AddToken \/ TakeToken \/ \E n \in NewSizes : AcceptSize(n)
  <2>1. UNCHANGED <<fillCount, sent, received, lost, pc>>
    BY <1>15 DEF AddToken, TakeToken, AcceptSize, semVars, threadVars, outerVars, historyVars
  <2>2. \/ emptyCount' = emptyCount + 1 /\ left' = left - 1 /\ bufferSize' = bufferSize
        \/ emptyCount' = emptyCount - 1 /\ left' = left + 1 /\ bufferSize' = bufferSize
        \/ /\ emptyCount' = emptyCount /\ left = 0 /\ left' = bufferSize' - bufferSize
           /\ bufferSize' \in Nat
    BY <1>15, SemQueueAssumption
       DEF SemQueueAssumption, AddToken, TakeToken, AcceptSize, MainAt, Owners, ringVars, semVars
  <2>3. Unread' = Unread /\ UNCHANGED Holders
    BY <2>1 DEF Unread, Holders
  <2> HIDE DEF HoldingEmpty, HoldingFill, PostingFill, PostingEmpty, LostFill, LostEmpty
  <2> QED
    BY <1>1, <1>2, <2>1, <2>2, <2>3, HoldersFinite DEF Holders, FillLedger, EmptyLedger
<1> QED
  BY <1>5, <1>6, <1>7, <1>8, <1>9, <1>10, <1>11, <1>12, <1>13, <1>14, <1>15, StepCases
     DEF QueueStep, Threads

LEMMA TokenInit == Init => TokenStrengthened
<1> SUFFICES ASSUME Init PROVE TokenStrengthened
  OBVIOUS
<1>1. Owners /\ LostAreGone
  BY SemQueueAssumption
     DEF SemQueueAssumption, Init, Owners, Inside, LostAreGone, Threads
<1>2. HoldingFill = {} /\ HoldingEmpty = {} /\ PostingFill = {} /\ PostingEmpty = {}
      /\ LostFill = {} /\ LostEmpty = {}
  BY DEF Init, HoldingFill, HoldingEmpty, PostingFill, PostingEmpty, LostFill, LostEmpty, At,
         Holding, Threads
<1>3. FillLedger /\ EmptyLedger
  BY <1>2, FS_EmptySet, SemQueueAssumption
     DEF SemQueueAssumption, Init, FillLedger, EmptyLedger, Unread
<1> QED
  BY <1>1, <1>3, TypeInit, Ledgers DEF TokenStrengthened

LEMMA TokenStep == TokenStrengthened /\ [Next]_vars => TokenStrengthened'
  BY TypeStep, OwnersStep, LostStep, LedgerStep DEF TokenStrengthened

\* Wherever threads are cancelled and the buffer is resized, the tokens account for
\* every message and every slot, and the mutex dies with a cancelled consumer only.
THEOREM TokensAccount == Spec => []TokenInvariant
<1>1. TokenStrengthened => TokenInvariant
  BY DEF TokenStrengthened, TokenInvariant, Owners, DeadOwnerIsConsumer, Alive, Inside
<1> QED
  BY <1>1, TokenInit, TokenStep, PTL DEF Spec

-----------------------------------------------------------------------------
(* The arithmetic of the ring. *)

\* The code's wrap-around, (x + 1) % bufferSize, without the remainder.
LEMMA Wrap ==
  ASSUME NEW x \in Slots
  PROVE  /\ (x + 1) % InitialSize \in Slots
         /\ (x + 1) % InitialSize = IF x + 1 = InitialSize THEN 0 ELSE x + 1
  BY SemQueueAssumption DEF SemQueueAssumption, Slots

LEMMA SlotFacts ==
  ASSUME NEW x \in Slots
  PROVE  /\ SlotFrom(x, 1) = x
         /\ \A i \in 1..InitialSize : SlotFrom(x, i) \in Slots
         /\ \A i, j \in 1..InitialSize : SlotFrom(x, i) = SlotFrom(x, j) => i = j
         /\ \A i \in 1..InitialSize : (SlotFrom(x, i) + 1) % InitialSize = SlotFrom(x, i + 1)
         /\ \A i \in 1..InitialSize : SlotFrom((x + 1) % InitialSize, i) = SlotFrom(x, i + 1)
<1>1. InitialSize \in Nat \ {0} /\ x \in 0..InitialSize - 1
  BY SemQueueAssumption DEF SemQueueAssumption, Slots
<1>2. \A i \in 1..InitialSize : SlotFrom(x, i) \in Slots
  BY <1>1 DEF SlotFrom, Slots
<1>3. ASSUME NEW i \in 1..InitialSize
      PROVE  (SlotFrom(x, i) + 1) % InitialSize = SlotFrom(x, i + 1)
  <2>1. (SlotFrom(x, i) + 1) % InitialSize
           = IF SlotFrom(x, i) + 1 = InitialSize THEN 0 ELSE SlotFrom(x, i) + 1
    BY <1>2, Wrap
  <2>2. (IF SlotFrom(x, i) + 1 = InitialSize THEN 0 ELSE SlotFrom(x, i) + 1)
           = SlotFrom(x, i + 1)
    BY <1>1 DEF SlotFrom
  <2> QED
    BY <2>1, <2>2
<1>4. ASSUME NEW i \in 1..InitialSize
      PROVE  SlotFrom((x + 1) % InitialSize, i) = SlotFrom(x, i + 1)
  <2>1. (x + 1) % InitialSize = IF x + 1 = InitialSize THEN 0 ELSE x + 1
    BY Wrap
  <2>2. SlotFrom(IF x + 1 = InitialSize THEN 0 ELSE x + 1, i) = SlotFrom(x, i + 1)
    BY <1>1 DEF SlotFrom
  <2> QED
    BY <2>1, <2>2
<1> QED
  BY <1>1, <1>2, <1>3, <1>4 DEF SlotFrom

-----------------------------------------------------------------------------
(* The ring and the copies in the threads' hands, before any resize. *)

\* What a thread that is about to copy or to advance knows.
LEMMA BeforeResize ==
  ASSUME QueueInvariant, ~resized
  PROVE  /\ TypeOK /\ Owners /\ Ring /\ InHand /\ left = 0 /\ bufferSize = InitialSize
         /\ buffer \in [Slots -> 0..MaxMessages] /\ head \in Slots /\ tail \in Slots
         /\ Len(sent) \in Nat /\ Len(received) \in Nat /\ InitialSize \in Nat \ {0}
         /\ Unread \in 0..InitialSize
<1>1. /\ TypeOK /\ Owners /\ Ring /\ InHand /\ left = 0 /\ bufferSize = InitialSize
      /\ buffer \in [Slots -> 0..MaxMessages] /\ head \in Slots /\ tail \in Slots
      /\ FillTokens /\ EmptyTokens
  BY DEF QueueInvariant, TokenStrengthened, RingUntilResize, Owners
<1>2. Len(sent) \in Nat /\ Len(received) \in Nat
  <2>1. sent \in Seq(0..MaxMessages) /\ received \in Seq(0..MaxMessages)
    BY <1>1 DEF TypeOK
  <2> QED
    BY ONLY <2>1
<1>3. InitialSize \in Nat \ {0}
  BY SemQueueAssumption DEF SemQueueAssumption
<1>4. Unread \in Nat /\ Unread <= bufferSize
  BY <1>1, Room
<1> QED
  BY ONLY <1>1, <1>2, <1>3, <1>4

\* The slot a producer fills is not one of the unread messages'.
LEMMA HeadIsFree ==
  ASSUME QueueInvariant, ~resized, NEW p \in Producers, pc[p] \in {"copy", "advance"}
  PROVE  /\ Unread + 1 \in 1..InitialSize
         /\ head = SlotFrom(tail, Unread + 1)
         /\ \A i \in 1..Unread : SlotFrom(tail, i) \in Slots /\ SlotFrom(tail, i) # head
<1>1. p \in HoldingEmpty
  BY DEF HoldingEmpty, At, Holding
<1>2. Unread \in 0..InitialSize /\ Unread < InitialSize
  BY <1>1, BeforeResize, Room DEF QueueInvariant, TokenStrengthened
<1>3. InitialSize \in Nat /\ Unread + 1 \in 1..InitialSize /\ head = SlotFrom(tail, Unread + 1)
  BY <1>2, BeforeResize DEF Ring
<1>4. ASSUME NEW i \in 1..Unread
      PROVE  SlotFrom(tail, i) \in Slots /\ SlotFrom(tail, i) # head
  <2>1. i \in 1..InitialSize /\ i # Unread + 1
    BY <1>2, <1>3
  <2> QED
    BY <2>1, <1>3, SlotFacts, BeforeResize
<1> QED
  BY <1>3, <1>4

\* The slot a consumer empties holds the oldest unread message.
LEMMA TailIsOldest ==
  ASSUME QueueInvariant, ~resized, NEW c \in Consumers, pc[c] \in {"copy", "advance"}
  PROVE  /\ Unread \in 1..InitialSize
         /\ buffer[tail] = sent[Len(received) + 1]
         /\ sent[Len(received) + 1] \in Messages
<1>1. c \in HoldingFill
  BY DEF HoldingFill, At, Holding
<1>2. Unread \in 0..InitialSize /\ Unread > 0 /\ InitialSize \in Nat
  BY <1>1, BeforeResize, Room DEF QueueInvariant, TokenStrengthened
<1>3. SlotFrom(tail, 1) = tail
  BY SlotFacts, BeforeResize
<1>4. Len(received) + 1 \in 1..Len(sent) /\ 1 \in 1..Unread /\ Unread \in 1..InitialSize
  BY <1>2, BeforeResize DEF Unread
<1> QED
  BY <1>3, <1>4, BeforeResize DEF Ring

\* Whoever is inside is alone there.
LEMMA Alone ==
  ASSUME Owners, NEW t \in Threads, pc[t] \in Inside
  PROVE  \A q \in Threads : q # t => pc[q] \notin Inside
  BY DEF Owners

\* A step that leaves resized unset is no new size.
LEMMA StillAsIs ==
  ASSUME QueueInvariant, [Next]_vars, ~resized'
  PROVE  ~resized /\ ~(\E n \in NewSizes : AcceptSize(n))
<1>1. ASSUME NEW t \in Threads,
             \/ WaitEmpty(t) \/ CopyIn(t) \/ AdvanceHead(t) \/ PostFill(t) \/ WaitFill(t)
             \/ CopyOut(t) \/ AdvanceTail(t) \/ PostEmpty(t) \/ Report(t)
             \/ Check(t) \/ Lock(t) \/ Unlock(t)
      PROVE  resized' = resized
  BY <1>1 DEF WaitEmpty, CopyIn, AdvanceHead, PostFill, WaitFill, CopyOut, AdvanceTail, PostEmpty,
     Report, Check, Lock, Unlock, rest, historyVars
<1>2. ASSUME LockForSize \/ AddToken \/ TakeToken \/ EndResize
      PROVE  resized' = resized
  BY <1>2 DEF LockForSize, AddToken, TakeToken, EndResize, outerVars, historyVars
<1>3. ~(\E n \in NewSizes : AcceptSize(n))
  BY DEF AcceptSize
<1>4. QueueStep \/ Elsewhere
  BY StepCases DEF QueueInvariant, TokenStrengthened
<1> QED
  BY <1>1, <1>2, <1>3, <1>4 DEF QueueStep, Elsewhere, Threads

LEMMA RingStep == QueueInvariant /\ [Next]_vars => RingUntilResize'
<1> SUFFICES ASSUME QueueInvariant, [Next]_vars, ~resized'
             PROVE  /\ bufferSize' = InitialSize /\ mainPc' # "adjust"
                    /\ buffer' \in [Slots -> 0..MaxMessages] /\ head' \in Slots /\ tail' \in Slots
                    /\ Ring' /\ InHand'
  BY DEF RingUntilResize
<1> USE DEF Goto
<1>1. QueueStep \/ Elsewhere
  BY StepCases DEF QueueInvariant, TokenStrengthened
<1>2. ~resized /\ ~(\E n \in NewSizes : AcceptSize(n))
  BY StillAsIs
<1>3. /\ TypeOK /\ Owners /\ Ring /\ InHand /\ left = 0 /\ bufferSize = InitialSize
      /\ buffer \in [Slots -> 0..MaxMessages] /\ head \in Slots /\ tail \in Slots
      /\ Len(sent) \in Nat /\ Len(received) \in Nat /\ InitialSize \in Nat \ {0}
      /\ Unread \in 0..InitialSize /\ mainPc # "adjust"
  BY <1>2, BeforeResize DEF QueueInvariant, RingUntilResize
<1>4. /\ pc \in [Threads -> PCs] /\ message \in [Threads -> 0..MaxMessages]
      /\ Producers \cap Consumers = {} /\ Threads = Producers \cup Consumers
  BY <1>3, SemQueueAssumption DEF SemQueueAssumption, TypeOK, Threads
<1>5. ASSUME UNCHANGED ringVars, UNCHANGED <<sent, received>>, mainPc' # "adjust", InHand'
      PROVE  /\ bufferSize' = InitialSize /\ mainPc' # "adjust"
             /\ buffer' \in [Slots -> 0..MaxMessages] /\ head' \in Slots /\ tail' \in Slots
             /\ Ring' /\ InHand'
  <2>1. Unread' = Unread
    BY <1>5 DEF Unread
  <2>2. Ring'
    BY <1>3, <1>5, <2>1 DEF ringVars, Ring, SlotFrom
  <2> QED
    BY <1>3, <1>5, <2>2 DEF ringVars
<1>6. CASE Elsewhere
  <2>1. InHand'
    BY <1>3, <1>4, <1>6
       DEF Elsewhere, queueVars, ringVars, Outside, InHand, ProducerHand, ConsumerHand, Holding
  <2> QED
    BY <1>3, <1>5, <1>6, <2>1 DEF Elsewhere, queueVars
<1>7. ASSUME NEW t \in Threads,
             \/ t \in Producers /\ (WaitEmpty(t) \/ PostFill(t))
             \/ t \in Consumers /\ (WaitFill(t) \/ PostEmpty(t) \/ Report(t))
             \/ Check(t) \/ Lock(t) \/ Unlock(t)
      PROVE  /\ bufferSize' = InitialSize /\ mainPc' # "adjust"
             /\ buffer' \in [Slots -> 0..MaxMessages] /\ head' \in Slots /\ tail' \in Slots
             /\ Ring' /\ InHand'
  <2>1. UNCHANGED ringVars /\ UNCHANGED <<sent, received, message, mainPc>>
    BY <1>7 DEF WaitEmpty, PostFill, WaitFill, PostEmpty, Report, Check, Lock, Unlock, rest, ctlVars,
       mainVars, historyVars, queueVars
  <2>2. /\ \A q \in Threads : q # t => pc'[q] = pc[q]
        /\ pc'[t] # "advance"
        /\ pc'[t] \in Holding => pc[t] \in {"wait"} \cup Holding
        /\ pc'[t] # "wait"
    BY <1>4, <1>7 DEF WaitEmpty, PostFill, WaitFill, PostEmpty, Report, Check, Lock, Unlock, Holding
  <2>3. InHand'
    BY <1>3, <1>4, <2>1, <2>2 DEF ringVars, InHand, ProducerHand, ConsumerHand, Holding
  <2> QED
    BY <1>3, <1>5, <2>1, <2>3
<1>8. CASE LockForSize
  <2>1. InHand'
    BY <1>3, <1>8 DEF LockForSize, ringVars, threadVars, InHand, ProducerHand, ConsumerHand
  <2> QED
    BY <1>5, <1>8, <2>1 DEF LockForSize, outerVars, historyVars
<1>9. ~(AddToken \/ TakeToken \/ EndResize)
  BY <1>3 DEF AddToken, TakeToken, EndResize, MainAt
<1>10. ASSUME NEW p \in Producers, CopyIn(p)
       PROVE  /\ bufferSize' = InitialSize /\ mainPc' # "adjust"
              /\ buffer' \in [Slots -> 0..MaxMessages] /\ head' \in Slots /\ tail' \in Slots
              /\ Ring' /\ InHand'
  <2>1. /\ pc[p] = "copy" /\ p \in Threads /\ pc' = [pc EXCEPT ![p] = "advance"]
        /\ UNCHANGED <<head, tail, bufferSize, sent, received, message, mainPc>>
        /\ buffer' = [buffer EXCEPT ![head] = message[p]]
    BY <1>4, <1>10 DEF CopyIn, rest, ctlVars, mainVars, historyVars
  <2>2. /\ buffer' \in [Slots -> 0..MaxMessages] /\ buffer'[head] = message[p]
        /\ \A s \in Slots : s # head => buffer'[s] = buffer[s]
    BY <1>3, <1>4, <2>1
  <2>3. Ring'
    <3>1. \A i \in 1..Unread : buffer'[SlotFrom(tail, i)] = buffer[SlotFrom(tail, i)]
      BY <1>2, <2>1, <2>2, HeadIsFree
    <3> QED
      BY <1>3, <2>1, <3>1 DEF Ring, Unread, SlotFrom
  <2>4. \A q \in Threads : q # p => pc'[q] = pc[q] /\ pc[q] \notin Inside
    BY <1>3, <1>4, <2>1, Alone DEF Inside
  <2>5. InHand'
    BY <1>3, <1>4, <2>1, <2>2, <2>4 DEF InHand, ProducerHand, ConsumerHand, Holding, Inside
  <2> QED
    BY <1>3, <2>1, <2>2, <2>3, <2>5
<1>11. ASSUME NEW c \in Consumers, CopyOut(c)
       PROVE  /\ bufferSize' = InitialSize /\ mainPc' # "adjust"
              /\ buffer' \in [Slots -> 0..MaxMessages] /\ head' \in Slots /\ tail' \in Slots
              /\ Ring' /\ InHand'
  <2>1. /\ c \in Threads /\ pc' = [pc EXCEPT ![c] = "advance"]
        /\ message' = [message EXCEPT ![c] = buffer[tail]]
        /\ UNCHANGED ringVars /\ UNCHANGED <<sent, received, mainPc>>
    BY <1>4, <1>11 DEF CopyOut, queueVars, ctlVars, mainVars, historyVars
  <2>2. InHand'
    BY <1>3, <1>4, <2>1 DEF ringVars, InHand, ProducerHand, ConsumerHand, Holding
  <2> QED
    BY <1>3, <1>5, <2>1, <2>2
<1>12. ASSUME NEW p \in Producers, AdvanceHead(p)
       PROVE  /\ bufferSize' = InitialSize /\ mainPc' # "adjust"
              /\ buffer' \in [Slots -> 0..MaxMessages] /\ head' \in Slots /\ tail' \in Slots
              /\ Ring' /\ InHand'
  <2>1. /\ pc[p] = "advance" /\ p \in Threads /\ pc' = [pc EXCEPT ![p] = "post"]
        /\ UNCHANGED <<tail, buffer, bufferSize, received, message, mainPc>>
        /\ head' = (head + 1) % InitialSize /\ sent' = Append(sent, message[p])
    BY <1>3, <1>4, <1>12 DEF AdvanceHead, ctlVars, mainVars
  <2> DEFINE m == message[p]
  <2>2. m \in Messages /\ buffer[head] = m
    BY <1>3, <2>1 DEF InHand, ProducerHand, Holding
  <2>3. /\ Len(sent') = Len(sent) + 1 /\ sent'[Len(sent) + 1] = m
        /\ \A i \in 1..Len(sent) : sent'[i] = sent[i]
    <3>1. sent \in Seq(0..MaxMessages) /\ m \in 0..MaxMessages
      BY <1>3, <1>4, <2>1 DEF TypeOK
    <3>2. sent' = Append(sent, m)
      BY <2>1
    <3> QED
      BY ONLY <3>1, <3>2, AppendProperties
  <2>4. /\ Unread' = Unread + 1 /\ Unread + 1 \in 1..InitialSize /\ Unread \in Nat
        /\ head = SlotFrom(tail, Unread + 1)
    BY <1>2, <1>3, <2>1, <2>3, HeadIsFree DEF Unread
  <2>5. head' \in Slots /\ head' = SlotFrom(tail', Unread' + 1)
    <3>1. head' = SlotFrom(tail, Unread + 1 + 1)
      BY <1>3, <2>1, <2>4, SlotFacts
    <3> QED
      BY <1>3, <2>1, <2>4, <3>1, Wrap
  <2>6. ASSUME NEW i \in 1..Unread'
        PROVE  buffer'[SlotFrom(tail', i)] = sent'[Len(received') + i]
    <3>1. SlotFrom(tail', i) = SlotFrom(tail, i) /\ buffer' = buffer /\ received' = received
      BY <2>1
    <3>2. CASE i = Unread + 1
      <4>1. Len(received) + i = Len(sent) + 1
        BY <1>3, <3>2 DEF Unread
      <4> QED
        BY <2>2, <2>3, <2>4, <3>1, <3>2, <4>1
    <3>3. CASE i # Unread + 1
      <4>1. i \in 1..Unread /\ Len(received) + i \in 1..Len(sent)
        BY <1>3, <2>4, <3>3 DEF Unread
      <4> QED
        BY <1>3, <2>3, <3>1, <4>1 DEF Ring
    <3> QED
      BY <3>2, <3>3
  <2>7. /\ \A i \in 1..Len(sent') : sent'[i] \in Messages
        /\ \A i \in 1..Len(received') : received'[i] = sent'[i]
    <3>1. \A i \in 1..Len(received) : i \in 1..Len(sent)
      BY <1>3, <2>4 DEF Unread
    <3> QED
      BY <1>3, <2>1, <2>2, <2>3, <3>1 DEF Ring
  <2>8. Ring'
    BY <2>5, <2>6, <2>7 DEF Ring
  <2>9. \A q \in Threads : q # p => pc'[q] = pc[q] /\ pc[q] \notin Inside
    BY <1>3, <1>4, <2>1, Alone DEF Inside
  <2>10. InHand'
    BY <1>3, <1>4, <2>1, <2>9 DEF InHand, ProducerHand, ConsumerHand, Holding, Inside
  <2> QED
    BY <1>3, <2>1, <2>5, <2>8, <2>10
<1>13. ASSUME NEW c \in Consumers, AdvanceTail(c)
       PROVE  /\ bufferSize' = InitialSize /\ mainPc' # "adjust"
              /\ buffer' \in [Slots -> 0..MaxMessages] /\ head' \in Slots /\ tail' \in Slots
              /\ Ring' /\ InHand'
  <2>1. /\ pc[c] = "advance" /\ c \in Threads /\ pc' = [pc EXCEPT ![c] = "post"]
        /\ UNCHANGED <<head, buffer, bufferSize, sent, message, mainPc>>
        /\ tail' = (tail + 1) % InitialSize /\ received' = Append(received, message[c])
    BY <1>3, <1>4, <1>13 DEF AdvanceTail, ctlVars, mainVars
  <2> DEFINE m == message[c]
  <2>2. Unread \in 1..InitialSize /\ m = sent[Len(received) + 1]
    BY <1>2, <1>3, <2>1, TailIsOldest DEF InHand, ConsumerHand
  <2>3. /\ Len(received') = Len(received) + 1 /\ received'[Len(received) + 1] = m
        /\ \A i \in 1..Len(received) : received'[i] = received[i]
    <3>1. received \in Seq(0..MaxMessages) /\ m \in 0..MaxMessages
      BY <1>3, <1>4, <2>1 DEF TypeOK
    <3>2. received' = Append(received, m)
      BY <2>1
    <3> QED
      BY ONLY <3>1, <3>2, AppendProperties
  <2>4. Unread' = Unread - 1
    BY <1>3, <2>1, <2>3 DEF Unread
  <2>5. \A i \in 1..InitialSize : SlotFrom(tail', i) = SlotFrom(tail, i + 1)
    BY <1>3, <2>1, SlotFacts
  <2>6. tail' \in Slots /\ head' = SlotFrom(tail', Unread' + 1)
    <3>1. head' = SlotFrom(tail, Unread + 1)
      BY <1>3, <2>1 DEF Ring
    <3>2. SlotFrom(tail', Unread) = SlotFrom(tail, Unread + 1) /\ Unread' + 1 = Unread
      BY <1>3, <2>2, <2>4, <2>5
    <3>3. SlotFrom(tail', Unread' + 1) = SlotFrom(tail', Unread)
      BY <3>2
    <3> QED
      BY <1>3, <2>1, <3>1, <3>2, <3>3, Wrap
  <2>7. ASSUME NEW i \in 1..Unread'
        PROVE  buffer'[SlotFrom(tail', i)] = sent'[Len(received') + i]
    <3>1. i \in 1..InitialSize /\ i + 1 \in 1..Unread
      BY <1>3, <2>2, <2>4
    <3>2. /\ SlotFrom(tail', i) = SlotFrom(tail, i + 1) /\ buffer' = buffer /\ sent' = sent
          /\ Len(received') + i = Len(received) + (i + 1)
      <4>1. SlotFrom(tail', i) = SlotFrom(tail, i + 1)
        BY <2>5, <3>1
      <4> QED
        BY <1>3, <2>1, <2>3, <4>1
    <3> QED
      BY <1>3, <3>1, <3>2 DEF Ring
  <2>8. /\ \A i \in 1..Len(sent') : sent'[i] \in Messages
        /\ \A i \in 1..Len(received') : received'[i] = sent'[i]
    BY <1>3, <2>1, <2>2, <2>3 DEF Ring
  <2>9. Ring'
    BY <2>6, <2>7, <2>8 DEF Ring
  <2>10. \A q \in Threads : q # c => pc'[q] = pc[q] /\ pc[q] \notin Inside
    BY <1>3, <1>4, <2>1, Alone DEF Inside
  <2>11. InHand'
    BY <1>3, <1>4, <2>1, <2>10 DEF InHand, ProducerHand, ConsumerHand, Holding, Inside
  <2> QED
    BY <1>3, <2>1, <2>6, <2>9, <2>11
<1> QED
  BY <1>1, <1>2, <1>6, <1>7, <1>8, <1>9, <1>10, <1>11, <1>12, <1>13 DEF QueueStep, Threads

LEMMA QueueInit == Init => QueueInvariant
<1> SUFFICES ASSUME Init PROVE RingUntilResize
  BY TokenInit DEF QueueInvariant
<1> USE SemQueueAssumption DEF SemQueueAssumption
<1>1. Ring /\ head \in Slots /\ tail \in Slots
  BY DEF Init, Ring, SlotFrom, Unread, Slots
<1>2. buffer \in [Slots -> 0..MaxMessages]
  BY DEF Init, Slots, Garbage
<1>3. InHand
  BY DEF Init, InHand, ProducerHand, ConsumerHand, Threads, Holding
<1> QED
  BY <1>1, <1>2, <1>3 DEF Init, RingUntilResize

\* The inductive invariant of the queue.
THEOREM QueueIsInvariant == Spec => []QueueInvariant
<1>1. QueueInvariant /\ [Next]_vars => QueueInvariant'
  BY TokenStep, RingStep DEF QueueInvariant
<1> QED
  BY <1>1, QueueInit, PTL DEF Spec

\* Before a new size is accepted the unread messages lie whole and in order between
\* tail and head, and what was got is what was put, wherever threads are cancelled.
THEOREM RingIsRight == Spec => [](~resized => Ring)
<1>1. QueueInvariant => (~resized => Ring)
  BY DEF QueueInvariant, RingUntilResize
<1> QED
  BY <1>1, QueueIsInvariant, PTL

-----------------------------------------------------------------------------
(* The ring implements the bounded FIFO. *)

LEMMA ContentsFacts ==
  QueueInvariant =>
    (~resized => /\ Unread \in 0..InitialSize
                 /\ Contents \in Seq(Messages)
                 /\ Len(Contents) = Unread
                 /\ \A i \in 1..Unread : Contents[i] = sent[Len(received) + i])
<1> SUFFICES ASSUME QueueInvariant, ~resized
             PROVE  /\ Unread \in 0..InitialSize
                    /\ Contents \in Seq(Messages)
                    /\ Len(Contents) = Unread
                    /\ \A i \in 1..Unread : Contents[i] = sent[Len(received) + i]
  OBVIOUS
<1>1. Unread \in 0..InitialSize /\ Unread \in Nat
  BY BeforeResize
<1>2. ASSUME NEW i \in 1..Unread
      PROVE  /\ buffer[SlotOf(i)] = sent[Len(received) + i]
             /\ sent[Len(received) + i] \in Messages
  <2>1. Len(received) + i \in 1..Len(sent)
    BY <1>1, BeforeResize DEF Unread
  <2>2. SlotOf(i) = SlotFrom(tail, i)
    BY BeforeResize DEF SlotOf, SlotFrom
  <2> QED
    BY <2>1, <2>2, BeforeResize DEF Ring
<1>3. Contents \in Seq(Messages) /\ Len(Contents) = Unread
  BY <1>1, <1>2 DEF Contents
<1> QED
  BY <1>1, <1>2, <1>3 DEF Contents

LEMMA FifoInit == Init => Fifo!Init
<1> SUFFICES ASSUME Init PROVE Fifo!Init
  OBVIOUS
<1>1. Unread = 0 /\ sent = <<>> /\ received = <<>>
  BY DEF Init, Unread
<1>2. Contents = <<>>
  BY <1>1 DEF Contents
<1> QED
  BY <1>1, <1>2 DEF Fifo!Init

LEMMA FifoStep ==
  QueueInvariant /\ QueueInvariant' /\ [Next]_vars
    => [Fifo!Next \/ resized']_<<Contents, sent, received>>
<1> SUFFICES ASSUME QueueInvariant, QueueInvariant', [Next]_vars, ~resized'
             PROVE  [Fifo!Next]_<<Contents, sent, received>>
  OBVIOUS
<1>1. QueueStep \/ Elsewhere
  BY StepCases DEF QueueInvariant, TokenStrengthened
<1>2. ~resized
  BY StillAsIs
<1>3. /\ Unread \in 0..InitialSize /\ InitialSize \in Nat
      /\ Contents \in Seq(Messages) /\ Len(Contents) = Unread
      /\ \A i \in 1..Unread : Contents[i] = sent[Len(received) + i]
  BY <1>2, ContentsFacts, SemQueueAssumption DEF SemQueueAssumption
<1>4. /\ Contents' \in Seq(Messages) /\ Len(Contents') = Unread'
      /\ \A i \in 1..Unread' : Contents'[i] = sent'[Len(received') + i]
  <2>1. (QueueInvariant =>
           (~resized => /\ Unread \in 0..InitialSize
                        /\ Contents \in Seq(Messages)
                        /\ Len(Contents) = Unread
                        /\ \A i \in 1..Unread : Contents[i] = sent[Len(received) + i]))'
    BY ContentsFacts, PTL
  <2> QED
    BY <2>1
<1>5. ASSUME UNCHANGED <<sent, received>>
      PROVE  UNCHANGED <<Contents, sent, received>>
  <2>1. Unread' = Unread
    BY <1>5 DEF Unread
  <2>2. Contents' = Contents
    BY <1>3, <1>4, <1>5, <2>1, SeqEqual
  <2> QED
    BY <1>5, <2>2
<1>6. ASSUME NEW p \in Producers, AdvanceHead(p)
      PROVE  Fifo!Next
  <2> DEFINE m == message[p]
  <2>1. pc[p] = "advance"
    BY <1>6 DEF AdvanceHead
  <2>2. m \in Messages /\ Unread < InitialSize
    BY <1>2, <1>3, <2>1, HeadIsFree, BeforeResize DEF InHand, ProducerHand, Holding
  <2>3. /\ sent' = Append(sent, m) /\ Len(sent') = Len(sent) + 1 /\ received' = received
        /\ Unread' = Unread + 1 /\ sent'[Len(sent) + 1] = m
        /\ \A i \in 1..Len(sent) : sent'[i] = sent[i]
        /\ Len(sent) = Len(received) + Unread /\ Len(received) \in Nat
    <3>1. m \in 0..MaxMessages /\ sent \in Seq(0..MaxMessages) /\ received \in Seq(0..MaxMessages)
      <4>1. m \in 0..MaxMessages
        BY <2>2, SemQueueAssumption DEF SemQueueAssumption, Messages
      <4> QED
        BY <4>1 DEF QueueInvariant, TokenStrengthened, TypeOK
    <3>2. sent' = Append(sent, m) /\ received' = received
      BY <1>6 DEF AdvanceHead
    <3> QED
      BY <3>1, <3>2, AppendProperties DEF Unread
  <2>4. /\ Append(Contents, m) \in Seq(Messages)
        /\ Len(Append(Contents, m)) = Unread + 1
        /\ Append(Contents, m)[Unread + 1] = m
        /\ \A i \in 1..Unread : Append(Contents, m)[i] = Contents[i]
    BY <1>3, <2>2, AppendProperties
  <2>5. ASSUME NEW i \in 1..Unread + 1
        PROVE  Contents'[i] = Append(Contents, m)[i]
    <3>1. Contents'[i] = sent'[Len(received) + i]
      BY <1>4, <2>3
    <3>2. CASE i = Unread + 1
      BY <1>3, <2>3, <2>4, <3>1, <3>2
    <3>3. CASE i # Unread + 1
      <4>1. i \in 1..Unread /\ Len(received) + i \in 1..Len(sent)
        BY <1>3, <2>3, <3>3
      <4> QED
        BY <1>3, <2>3, <2>4, <3>1, <4>1
    <3> QED
      BY <3>2, <3>3
  <2>6. Contents' = Append(Contents, m)
    BY <1>4, <2>3, <2>4, <2>5, SeqEqual
  <2>7. Fifo!Put(m)
    BY <1>3, <2>2, <2>3, <2>6 DEF Fifo!Put
  <2> QED
    BY <2>2, <2>7 DEF Fifo!Next
<1>7. ASSUME NEW c \in Consumers, AdvanceTail(c)
      PROVE  Fifo!Next
  <2> DEFINE m == message[c]
  <2>1. pc[c] = "advance"
    BY <1>7 DEF AdvanceTail
  <2>2. Unread \in 1..InitialSize /\ m = sent[Len(received) + 1] /\ m \in Messages
    BY <1>2, <2>1, TailIsOldest, BeforeResize DEF InHand, ConsumerHand
  <2>3. /\ received' = Append(received, m) /\ sent' = sent
        /\ Len(received') = Len(received) + 1 /\ Unread' = Unread - 1
        /\ Len(received) \in Nat
    <3>1. received \in Seq(0..MaxMessages) /\ sent \in Seq(0..MaxMessages) /\ m \in 0..MaxMessages
      <4>1. m \in 0..MaxMessages
        BY <2>2, SemQueueAssumption DEF SemQueueAssumption, Messages
      <4> QED
        BY <4>1 DEF QueueInvariant, TokenStrengthened, TypeOK
    <3>2. received' = Append(received, m) /\ sent' = sent
      BY <1>7 DEF AdvanceTail
    <3> QED
      BY <3>1, <3>2, AppendProperties DEF Unread
  <2>4. Contents # <<>> /\ Head(Contents) = m
    BY <1>3, <2>2
  <2>5. /\ Tail(Contents) \in Seq(Messages)
        /\ Len(Tail(Contents)) = Unread - 1
        /\ \A i \in 1..Unread - 1 : Tail(Contents)[i] = Contents[i + 1]
    BY <1>3, <2>2, <2>4, HeadTailProperties
  <2>6. ASSUME NEW i \in 1..Unread - 1
        PROVE  Contents'[i] = Tail(Contents)[i]
    <3>1. Contents'[i] = sent[Len(received) + 1 + i]
      BY <1>4, <2>3
    <3>2. Contents[i + 1] = sent[Len(received) + (i + 1)]
      BY <1>3, <2>2
    <3> QED
      BY <2>3, <2>5, <3>1, <3>2
  <2>7. Contents' = Tail(Contents)
    BY <1>4, <2>3, <2>5, <2>6, SeqEqual
  <2>8. Fifo!Get
    BY <2>3, <2>4, <2>7 DEF Fifo!Get
  <2> QED
    BY <2>8 DEF Fifo!Next
<1>8. \/ \E p \in Producers : AdvanceHead(p)
      \/ \E c \in Consumers : AdvanceTail(c)
      \/ UNCHANGED <<sent, received>>
  <2>1. ASSUME NEW t \in Threads,
               \/ WaitEmpty(t) \/ CopyIn(t) \/ PostFill(t) \/ WaitFill(t) \/ CopyOut(t)
               \/ PostEmpty(t) \/ Report(t) \/ Check(t) \/ Lock(t) \/ Unlock(t)
        PROVE  UNCHANGED <<sent, received>>
    BY <2>1 DEF WaitEmpty, CopyIn, PostFill, WaitFill, CopyOut, PostEmpty, Report, Check, Lock,
       Unlock, rest, historyVars
  <2>2. CASE \/ LockForSize \/ AddToken \/ TakeToken \/ EndResize
             \/ \E n \in NewSizes : AcceptSize(n)
    BY <2>2 DEF LockForSize, AddToken, TakeToken, EndResize, AcceptSize, outerVars, historyVars
  <2>3. CASE Elsewhere
    BY <2>3 DEF Elsewhere
  <2> QED
    BY <1>1, <2>1, <2>2, <2>3 DEF QueueStep, Threads
<1> QED
  BY <1>5, <1>6, <1>7, <1>8

\* putMessage and getMessage, interleaved by any number of threads and cancelled
\* anywhere, are a bounded FIFO up to the first new size.
THEOREM RingImplementsFifo == Spec => FifoUntilResize
  BY FifoInit, FifoStep, QueueIsInvariant, PTL DEF Spec, FifoUntilResize

=============================================================================
