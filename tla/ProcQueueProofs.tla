-------------------------- MODULE ProcQueueProofs --------------------------
(***************************************************************************)
(* Proofs about Lab4's queue, for any number of processes, any size of the *)
(* ring and any commands of the user.                                      *)
(***************************************************************************)
EXTENDS ProcQueueProperties, SequenceTheorems,
        FiniteSetTheorems, TLAPS

-----------------------------------------------------------------------------
(* The arithmetic of the ring. *)

\* The code's wrap-around, (x + 1) % BUFFER_SIZE, without the remainder.
LEMMA Wrap ==
  ASSUME NEW x \in Slots
  PROVE  /\ (x + 1) % BUFFER_SIZE \in Slots
         /\ (x + 1) % BUFFER_SIZE = IF x + 1 = BUFFER_SIZE THEN 0 ELSE x + 1
  BY ProcQueueAssumption DEF ProcQueueAssumption, Slots

\* The parent's arrays are used as stacks.
LEMMA FrontLast ==
  ASSUME NEW S, NEW s \in Seq(S), s # <<>>
  PROVE  /\ Len(s) \in Nat \ {0} /\ Last(s) \in S /\ Last(s) = s[Len(s)]
         /\ Front(s) \in Seq(S)
         /\ Len(Front(s)) = Len(s) - 1
         /\ \A i \in 1..Len(s) - 1 : Front(s)[i] = s[i]
<1>1. PICK n \in Nat : Len(s) = n + 1
  <2>1. Len(s) \in Nat /\ Len(s) # 0
    OBVIOUS
  <2>2. Len(s) - 1 \in Nat /\ Len(s) = (Len(s) - 1) + 1
    BY <2>1
  <2> QED
    BY <2>2
<1>2. /\ n + 1 \in 1..Len(s) /\ Len(s) - 1 = n /\ \A i \in 1..n : s[i] \in S
      /\ s[Len(s)] \in S
  BY <1>1
<1>3. /\ SubSeq(s, 1, n) \in Seq(S)
      /\ Len(SubSeq(s, 1, n)) = n
      /\ \A i \in 1..n : SubSeq(s, 1, n)[i] = s[i]
  BY <1>2, SubSeqProperties
<1> QED
  BY <1>1, <1>2, <1>3 DEF Last, Front

\* What an array without repetitions lists when a child is added or removed.
LEMMA RangeFacts ==
  ASSUME NEW S, NEW s \in Seq(S)
  PROVE  /\ Range(s) = {s[i] : i \in 1..Len(s)} /\ Range(s) \subseteq S
         /\ IsInjective(s) <=> \A i, j \in 1..Len(s) : s[i] = s[j] => i = j
<1>1. DOMAIN s = 1..Len(s)
  OBVIOUS
<1>2. \A i \in 1..Len(s) : s[i] \in S
  BY ElementOfSeq
<1> QED
  BY <1>1, <1>2 DEF Range, IsInjective

LEMMA AppendRange ==
  ASSUME NEW S, NEW s \in Seq(S), NEW e \in S
  PROVE  /\ Range(Append(s, e)) = Range(s) \cup {e}
         /\ IsInjective(s) /\ e \notin Range(s) => IsInjective(Append(s, e))
<1>1. /\ Append(s, e) \in Seq(S) /\ Len(Append(s, e)) = Len(s) + 1 /\ Len(s) \in Nat
      /\ Append(s, e)[Len(s) + 1] = e /\ \A i \in 1..Len(s) : Append(s, e)[i] = s[i]
  BY AppendProperties
<1>2. \A i \in 1..Len(s) + 1 : i \in 1..Len(s) \/ i = Len(s) + 1
  BY <1>1
<1>3. Range(Append(s, e)) = {Append(s, e)[i] : i \in 1..Len(s) + 1}
  BY <1>1, RangeFacts
<1>4. Range(s) = {s[i] : i \in 1..Len(s)}
  BY RangeFacts
<1>5. Range(Append(s, e)) = Range(s) \cup {e}
  <2>1. \A x : x \in Range(Append(s, e)) => x \in Range(s) \cup {e}
    BY <1>1, <1>2, <1>3, <1>4
  <2>2. \A i \in 1..Len(s) : i \in 1..Len(s) + 1 /\ Append(s, e)[i] = s[i]
    BY <1>1
  <2>3. Len(s) + 1 \in 1..Len(s) + 1
    BY <1>1
  <2> QED
    BY <1>1, <1>3, <1>4, <2>1, <2>2, <2>3
<1>6. ASSUME IsInjective(s), e \notin Range(s) PROVE IsInjective(Append(s, e))
  <2>1. \A i, j \in 1..Len(s) : s[i] = s[j] => i = j
    BY <1>6, RangeFacts
  <2>2. \A i \in 1..Len(s) : s[i] # e
    BY <1>4, <1>6
  <2>3. \A i, j \in 1..Len(s) + 1 : Append(s, e)[i] = Append(s, e)[j] => i = j
    BY <1>1, <1>2, <2>1, <2>2
  <2> QED
    BY <1>1, <2>3, RangeFacts
<1> QED
  BY <1>5, <1>6

LEMMA FrontRange ==
  ASSUME NEW S, NEW s \in Seq(S), s # <<>>, IsInjective(s)
  PROVE  /\ Range(s) = Range(Front(s)) \cup {Last(s)}
         /\ Last(s) \notin Range(Front(s)) /\ IsInjective(Front(s))
<1>1. /\ Len(s) \in Nat \ {0} /\ Last(s) = s[Len(s)]
      /\ Front(s) \in Seq(S) /\ Len(Front(s)) = Len(s) - 1
      /\ \A i \in 1..Len(s) - 1 : Front(s)[i] = s[i]
  BY FrontLast
<1>2. \A i \in 1..Len(s) : i \in 1..Len(s) - 1 \/ i = Len(s)
  BY <1>1
<1>3. /\ \A i \in 1..Len(s) - 1 : i \in 1..Len(s) /\ i # Len(s)
      /\ Len(s) \in 1..Len(s)
  BY <1>1
<1>4. \A i, j \in 1..Len(s) : s[i] = s[j] => i = j
  BY RangeFacts
<1>5. Range(s) = {s[i] : i \in 1..Len(s)}
  BY RangeFacts
<1>6. Range(Front(s)) = {Front(s)[i] : i \in 1..Len(s) - 1}
  BY <1>1, RangeFacts
<1>7. Range(s) = Range(Front(s)) \cup {Last(s)}
  BY <1>1, <1>2, <1>3, <1>5, <1>6
<1>8. Last(s) \notin Range(Front(s))
  BY <1>1, <1>3, <1>4, <1>6
<1>9. \A i, j \in 1..Len(Front(s)) : Front(s)[i] = Front(s)[j] => i = j
  BY <1>1, <1>3, <1>4
<1> QED
  BY <1>1, <1>7, <1>8, <1>9, RangeFacts

-----------------------------------------------------------------------------
(* Type correctness. *)

LEMMA NoMessageType == NoMessage \in Copies
  BY ProcQueueAssumption DEF ProcQueueAssumption, NoMessage, Copies

LEMMA TypeInit == Init => TypeOK
<1> SUFFICES ASSUME Init PROVE TypeOK
  OBVIOUS
<1> USE ProcQueueAssumption DEF ProcQueueAssumption, Init
<1>1. head \in Slots /\ tail \in Slots
  BY DEF Slots
<1>2. buffer \in [Slots -> Copies] /\ message \in [Procs -> Copies]
  BY DEF Copies, NoMessage
<1>3. pc \in [Procs -> PCs]
  BY DEF PCs
<1> QED
  BY <1>1, <1>2, <1>3 DEF TypeOK

LEMMA TypeStep == TypeOK /\ [Next]_vars => TypeOK'
<1> SUFFICES ASSUME TypeOK, [Next]_vars PROVE TypeOK'
  OBVIOUS
<1> USE ProcQueueAssumption
    DEF ProcQueueAssumption, TypeOK, Goto, Forget, queueVars, semVars, parentVars, childVars
<1>1. CASE UNCHANGED vars
  BY <1>1 DEF vars
<1>2. ASSUME NEW p \in Producers, BuildMessage(p) PROVE TypeOK'
  BY <1>2 DEF BuildMessage, Copies, PCs, Before, Procs
<1>3. ASSUME NEW p \in Producers, WaitEmpty(p) PROVE TypeOK'
  BY <1>3 DEF WaitEmpty, PCs, Procs
<1>4. ASSUME NEW p \in Procs, WaitMutex(p) PROVE TypeOK'
  BY <1>4 DEF WaitMutex, PCs, Critical
<1>5. ASSUME NEW p \in Producers, WriteHeader(p) PROVE TypeOK'
  BY <1>5 DEF WriteHeader, Copies, PCs, Critical, Procs
<1>6. ASSUME NEW p \in Producers, CopyIn(p) PROVE TypeOK'
  BY <1>6, ZenonT(40) DEF CopyIn, Copies, PCs, Critical, Procs
<1>7. ASSUME NEW p \in Producers, AdvanceHead(p) PROVE TypeOK'
  <2>1. head' \in Slots
    <3>1. head \in Slots /\ head' = (head + 1) % BUFFER_SIZE
      BY <1>7 DEF AdvanceHead
    <3> QED
      BY ONLY <3>1, Wrap
  <2>2. sent' \in Seq(0..MaxMessages)
    BY <1>7 DEF AdvanceHead, Copies, Procs
  <2>3. pc' \in [Procs -> PCs]
    BY <1>7 DEF AdvanceHead, PCs, Critical, Procs
  <2>4. UNCHANGED <<tail, buffer, received, semVars, parentVars, childVars, message, made>>
    BY <1>7 DEF AdvanceHead
  <2> QED
    BY <2>1, <2>2, <2>3, <2>4
<1>8. ASSUME NEW p \in Producers, PostFill(p) PROVE TypeOK'
  BY <1>8 DEF PostFill, PCs, Critical, Procs
<1>9. ASSUME NEW p \in Procs, PostMutex(p) PROVE TypeOK'
  <2>1. mutex' \in Nat /\ pc' \in [Procs -> PCs]
    BY <1>9 DEF PostMutex, PCs, Before
  <2>2. message' \in [Procs -> Copies]
    <3>1. message' = [message EXCEPT ![p] = NoMessage] \/ message' = message
      BY <1>9 DEF PostMutex
    <3> QED
      BY <3>1, NoMessageType
  <2> QED
    BY <1>9, <2>1, <2>2 DEF PostMutex
<1>10. ASSUME NEW p \in Consumers, EnterGet(p) PROVE TypeOK'
  BY <1>10 DEF EnterGet, PCs, Before, Procs
<1>11. ASSUME NEW p \in Consumers, WaitFill(p) PROVE TypeOK'
  BY <1>11 DEF WaitFill, PCs, Procs
<1>12. ASSUME NEW p \in Consumers, ReadHeader(p) PROVE TypeOK'
  BY <1>12 DEF ReadHeader, Copies, PCs, Critical, Procs
<1>13. ASSUME NEW p \in Consumers, CopyOut(p) PROVE TypeOK'
  BY <1>13 DEF CopyOut, Copies, PCs, Critical, Procs
<1>14. ASSUME NEW p \in Consumers, AdvanceTail(p) PROVE TypeOK'
  <2>1. tail' \in Slots
    <3>1. tail \in Slots /\ tail' = (tail + 1) % BUFFER_SIZE
      BY <1>14 DEF AdvanceTail
    <3> QED
      BY ONLY <3>1, Wrap
  <2>2. received' \in Seq(0..MaxMessages)
    BY <1>14 DEF AdvanceTail, Copies, Procs
  <2>3. pc' \in [Procs -> PCs]
    BY <1>14 DEF AdvanceTail, PCs, Critical, Procs
  <2>4. UNCHANGED <<head, buffer, sent, semVars, parentVars, childVars, message, made>>
    BY <1>14 DEF AdvanceTail
  <2> QED
    BY <2>1, <2>2, <2>3, <2>4
<1>15. ASSUME NEW p \in Consumers, PostEmpty(p) PROVE TypeOK'
  BY <1>15 DEF PostEmpty, PCs, Critical, Procs
<1>16. ASSUME NEW p \in Consumers, CheckHash(p) PROVE TypeOK'
  BY <1>16 DEF CheckHash, Copies, NoMessage, PCs, Before, Procs
<1>17. ASSUME NEW p \in Procs, LeaveMain(p) PROVE TypeOK'
  <2>1. linked' \in BOOLEAN
    BY <1>17, Zenon DEF LeaveMain
  <2>2. EndOfChild(p)
    BY <1>17 DEF LeaveMain
  <2> QED
    BY <2>1, <2>2 DEF EndOfChild, Copies, NoMessage, PCs
<1>18. ASSUME NEW p \in Procs, Die(p) PROVE TypeOK'
  BY <1>18 DEF Die, EndOfChild, Copies, NoMessage, PCs
<1>19. ASSUME NEW p \in Procs, SignalHandler(p) PROVE TypeOK'
  BY <1>19 DEF SignalHandler
<1>20. ASSUME NEW p \in Producers, LaunchProducer(p) PROVE TypeOK'
  BY <1>20 DEF LaunchProducer, Fork, PCs, Before, Procs
<1>21. ASSUME NEW p \in Consumers, LaunchConsumer(p) PROVE TypeOK'
  BY <1>21 DEF LaunchConsumer, Fork, PCs, Before, Procs
<1>22. CASE ForkFails
  BY <1>22 DEF ForkFails
<1>23. CASE RemoveProducer
  <2>1. Last(producerMas) \in Producers /\ producerMas' \in Seq(Producers)
    BY <1>23, FrontLast DEF RemoveProducer
  <2> QED
    BY <1>23, <2>1 DEF RemoveProducer, Kill, Procs
<1>24. CASE RemoveConsumer
  <2>1. Last(consumerMas) \in Consumers /\ consumerMas' \in Seq(Consumers)
    BY <1>24, FrontLast DEF RemoveConsumer
  <2> QED
    BY <1>24, <2>1 DEF RemoveConsumer, Kill, Procs
<1>25. ASSUME NEW p \in Procs, Reap(p) PROVE TypeOK'
  BY <1>25 DEF Reap, PCs
<1>26. CASE CtrlC
  BY <1>26 DEF CtrlC
<1>27. CASE ParentSignalHandler
  BY <1>27 DEF ParentSignalHandler
<1>28. CASE ParentExit
  BY <1>28 DEF ParentExit
<1> QED
  BY <1>1, <1>2, <1>3, <1>4, <1>5, <1>6, <1>7, <1>8, <1>9, <1>10, <1>11, <1>12,
     <1>13, <1>14, <1>15, <1>16, <1>17, <1>18, <1>19, <1>20, <1>21, <1>22, <1>23,
     <1>24, <1>25, <1>26, <1>27, <1>28
     DEF Next, User, System, MainStep, Delivered, Step, ProducerStep, ConsumerStep, Procs

\* The variables keep their types; head and tail never leave the buffer.
THEOREM TypeCorrect == Spec => []TypeOK
  BY TypeInit, TypeStep, PTL DEF Spec

-----------------------------------------------------------------------------
(* The steps that touch neither the queue nor the semaphores: a child at     *)
(* most leaves what it was doing.                                            *)

Elsewhere ==
  /\ UNCHANGED <<queueVars, semVars>>
  /\ \A q \in Procs :
       \/ pc'[q] = pc[q] /\ message'[q] = message[q]
       \/ pc'[q] \in {"none", "exited", "idle", "waitFill"}

QueueStep ==
  \/ \E p \in Producers : \/ BuildMessage(p) \/ WaitEmpty(p) \/ WriteHeader(p)
                          \/ CopyIn(p) \/ AdvanceHead(p) \/ PostFill(p)
  \/ \E p \in Consumers : \/ WaitFill(p) \/ ReadHeader(p) \/ CopyOut(p)
                          \/ AdvanceTail(p) \/ PostEmpty(p)
  \/ \E p \in Procs : WaitMutex(p) \/ PostMutex(p)

LEMMA StepCases == TypeOK /\ [Next]_vars => QueueStep \/ Elsewhere
<1> SUFFICES ASSUME TypeOK, [Next]_vars PROVE QueueStep \/ Elsewhere
  OBVIOUS
<1> USE DEF Elsewhere, Goto, Forget, queueVars, semVars
<1>1. pc \in [Procs -> PCs] /\ message \in [Procs -> Copies]
  BY DEF TypeOK
<1>2. CASE UNCHANGED vars
  BY <1>2 DEF vars
<1>3. ASSUME NEW p \in Consumers, EnterGet(p) \/ CheckHash(p) PROVE Elsewhere
  BY <1>1, <1>3 DEF EnterGet, CheckHash, Procs
<1>4. ASSUME NEW p \in Procs, LeaveMain(p) \/ Die(p) PROVE Elsewhere
  <2>1. EndOfChild(p)
    BY <1>4 DEF LeaveMain, Die
  <2> QED
    BY <1>1, <2>1 DEF EndOfChild
<1>5. ASSUME NEW p \in Procs, SignalHandler(p) \/ Reap(p) PROVE Elsewhere
  BY <1>1, <1>5 DEF SignalHandler, Reap
<1>6. ASSUME NEW p \in Procs, LaunchProducer(p) \/ LaunchConsumer(p) PROVE Elsewhere
  BY <1>1, <1>6 DEF LaunchProducer, LaunchConsumer, Fork
<1>7. CASE ForkFails \/ RemoveProducer \/ RemoveConsumer \/ CtrlC \/ ParentSignalHandler
           \/ ParentExit
  BY <1>7 DEF ForkFails, RemoveProducer, RemoveConsumer, Kill, CtrlC,
              ParentSignalHandler, ParentExit
<1>8. CASE \E p \in Procs : Step(p)
  BY <1>3, <1>4, <1>8 DEF QueueStep, Step, ProducerStep, ConsumerStep, Procs
<1> QED
  BY <1>2, <1>4, <1>5, <1>6, <1>7, <1>8 DEF Next, User, System, MainStep, Delivered, Procs

-----------------------------------------------------------------------------
(* The mutex semaphore is binary, and whoever is inside has taken it; a kill *)
(* inside leaves it at zero for good.                                        *)

MutexInvariant == mutex <= 1 /\ MutualExclusion

LEMMA MutexStep == TypeOK /\ MutexInvariant /\ [Next]_vars => MutexInvariant'
<1> SUFFICES ASSUME TypeOK, MutexInvariant, [Next]_vars PROVE MutexInvariant'
  OBVIOUS
<1> USE DEF MutexInvariant, MutualExclusion, InCritical, Critical, Goto
<1>1. pc \in [Procs -> PCs] /\ mutex \in Nat
  BY DEF TypeOK
<1>2. ASSUME NEW p \in Producers,
             \/ BuildMessage(p) \/ WaitEmpty(p) \/ WriteHeader(p)
             \/ CopyIn(p) \/ AdvanceHead(p) \/ PostFill(p)
      PROVE  MutexInvariant'
  <2>1. UNCHANGED mutex
    BY <1>2 DEF BuildMessage, WaitEmpty, WriteHeader, CopyIn, AdvanceHead, PostFill, semVars
  <2>2. \E l \in PCs : /\ pc' = [pc EXCEPT ![p] = l]
                       /\ l \in Critical => pc[p] \in Critical
    BY <1>2 DEF BuildMessage, WaitEmpty, WriteHeader, CopyIn, AdvanceHead, PostFill, PCs, Before
  <2> QED
    BY <1>1, <2>1, <2>2 DEF Procs
<1>3. ASSUME NEW p \in Consumers,
             \/ WaitFill(p) \/ ReadHeader(p) \/ CopyOut(p) \/ AdvanceTail(p) \/ PostEmpty(p)
      PROVE  MutexInvariant'
  <2>1. UNCHANGED mutex
    BY <1>3 DEF WaitFill, ReadHeader, CopyOut, AdvanceTail, PostEmpty, semVars
  <2>2. \E l \in PCs : /\ pc' = [pc EXCEPT ![p] = l]
                       /\ l \in Critical => pc[p] \in Critical
    BY <1>3 DEF WaitFill, ReadHeader, CopyOut, AdvanceTail, PostEmpty, PCs
  <2> QED
    BY <1>1, <2>1, <2>2 DEF Procs
<1>4. ASSUME NEW p \in Procs, WaitMutex(p) PROVE MutexInvariant'
  BY <1>1, <1>4 DEF WaitMutex
<1>5. ASSUME NEW p \in Procs, PostMutex(p) PROVE MutexInvariant'
  BY <1>1, <1>5 DEF PostMutex
<1>6. CASE Elsewhere
  BY <1>1, <1>6 DEF Elsewhere, semVars
<1> QED
  BY <1>2, <1>3, <1>4, <1>5, <1>6, StepCases DEF QueueStep

\* At most one process is between its sem_wait(mutex) and its sem_post(mutex),
\* whichever children are killed, and wherever.
THEOREM MutexIsExclusive == Spec => []MutualExclusion
<1>1. Init => MutexInvariant
  BY DEF Init, MutexInvariant, MutualExclusion, InCritical, Critical
<1>2. MutexInvariant => MutualExclusion
  BY DEF MutexInvariant
<1> QED
  BY <1>1, <1>2, TypeInit, TypeStep, MutexStep, PTL DEF Spec

-----------------------------------------------------------------------------
(* The tokens of the counting semaphores. *)

Holders == <<HoldingEmpty, HoldingFill, PostingFill, PostingEmpty>>

LEMMA HoldersFinite ==
  /\ IsFiniteSet(HoldingEmpty) /\ Cardinality(HoldingEmpty) \in Nat
  /\ IsFiniteSet(HoldingFill) /\ Cardinality(HoldingFill) \in Nat
  /\ IsFiniteSet(PostingFill) /\ Cardinality(PostingFill) \in Nat
  /\ IsFiniteSet(PostingEmpty) /\ Cardinality(PostingEmpty) \in Nat
<1>1. IsFiniteSet(Producers) /\ IsFiniteSet(Consumers)
  BY ProcQueueAssumption DEF ProcQueueAssumption
<1>2. /\ HoldingEmpty \in SUBSET Producers /\ PostingFill \in SUBSET Producers
      /\ HoldingFill \in SUBSET Consumers /\ PostingEmpty \in SUBSET Consumers
  BY DEF HoldingEmpty, PostingFill, HoldingFill, PostingEmpty
<1>3. /\ IsFiniteSet(HoldingEmpty) /\ IsFiniteSet(PostingFill)
      /\ IsFiniteSet(HoldingFill) /\ IsFiniteSet(PostingEmpty)
  BY <1>1, <1>2, FS_Subset
<1> QED
  BY <1>3, FS_CardinalityType

\* The ring is never read when empty nor written when full.
LEMMA Room ==
  ASSUME TypeOK, TokenLedger
  PROVE  /\ Unread \in 0..BUFFER_SIZE
         /\ HoldingEmpty # {} => Unread < BUFFER_SIZE
         /\ HoldingFill # {} => Unread > 0
<1>1. BUFFER_SIZE \in Nat /\ Unread \in Int /\ fillCount \in Nat /\ emptyCount \in Nat
  BY ProcQueueAssumption DEF ProcQueueAssumption, TypeOK, Unread
<1>2. /\ HoldingEmpty # {} => Cardinality(HoldingEmpty) # 0
      /\ HoldingFill # {} => Cardinality(HoldingFill) # 0
  BY HoldersFinite, FS_EmptySet
<1> QED
  BY <1>1, <1>2, HoldersFinite DEF TokenLedger

LEMMA LedgerStep == TypeOK /\ TokenLedger /\ [Next]_vars => TokenLedger'
<1> SUFFICES ASSUME TypeOK, TokenLedger, [Next]_vars PROVE TokenLedger'
  OBVIOUS
<1>1. /\ pc \in [Procs -> PCs] /\ BUFFER_SIZE \in Nat
      /\ fillCount \in Nat /\ emptyCount \in Nat /\ Unread \in Int
  BY ProcQueueAssumption DEF ProcQueueAssumption, TypeOK, Unread
<1>2. /\ fillCount + Cardinality(HoldingFill) + Cardinality(PostingFill) <= Unread
      /\ emptyCount + Cardinality(HoldingEmpty) + Cardinality(PostingEmpty)
           <= BUFFER_SIZE - Unread
  BY DEF TokenLedger
<1>3. Producers \cap Consumers = {}
  BY ProcQueueAssumption DEF ProcQueueAssumption
<1> USE DEF HoldingEmpty, HoldingFill, PostingFill, PostingEmpty, Goto
<1>4. ASSUME UNCHANGED <<fillCount, emptyCount, sent, received>>, UNCHANGED Holders
      PROVE  TokenLedger'
  BY <1>2, <1>4 DEF Holders, TokenLedger, Unread
<1>5. ASSUME NEW p \in Producers, BuildMessage(p) \/ WriteHeader(p) \/ CopyIn(p)
      PROVE  TokenLedger'
  <2>1. UNCHANGED <<fillCount, emptyCount, sent, received>>
    BY <1>5 DEF BuildMessage, WriteHeader, CopyIn, queueVars, semVars
  <2>2. UNCHANGED Holders
    BY <1>1, <1>3, <1>5 DEF BuildMessage, WriteHeader, CopyIn, Holders, Procs
  <2> QED
    BY <2>1, <2>2, <1>4
<1>6. ASSUME NEW p \in Consumers, ReadHeader(p) \/ CopyOut(p)
      PROVE  TokenLedger'
  <2>1. UNCHANGED <<fillCount, emptyCount, sent, received>>
    BY <1>6 DEF ReadHeader, CopyOut, queueVars, semVars
  <2>2. UNCHANGED Holders
    BY <1>1, <1>3, <1>6 DEF ReadHeader, CopyOut, Holders, Procs
  <2> QED
    BY <2>1, <2>2, <1>4
<1>7. ASSUME NEW p \in Procs, WaitMutex(p) \/ PostMutex(p)
      PROVE  TokenLedger'
  <2>1. UNCHANGED <<fillCount, emptyCount, sent, received>>
    BY <1>7 DEF WaitMutex, PostMutex, queueVars
  <2>2. UNCHANGED Holders
    BY <1>1, <1>3, <1>7 DEF WaitMutex, PostMutex, Holders, Procs
  <2> QED
    BY <2>1, <2>2, <1>4
<1>8. ASSUME NEW p \in Producers, WaitEmpty(p)
      PROVE  TokenLedger'
  <2>1. /\ HoldingEmpty' = HoldingEmpty \cup {p} /\ p \notin HoldingEmpty
        /\ UNCHANGED <<HoldingFill, PostingFill, PostingEmpty>>
    BY <1>1, <1>3, <1>8 DEF WaitEmpty, Procs
  <2> HIDE DEF HoldingEmpty, HoldingFill, PostingFill, PostingEmpty
  <2>2. Cardinality(HoldingEmpty') = Cardinality(HoldingEmpty) + 1
    BY ONLY <2>1, HoldersFinite, FS_AddElement
  <2>3. /\ emptyCount' = emptyCount - 1
        /\ UNCHANGED <<fillCount, sent, received>>
    BY <1>8 DEF WaitEmpty, queueVars
  <2> QED
    BY <1>1, <1>2, <2>1, <2>2, <2>3, HoldersFinite DEF TokenLedger, Unread
<1>9. ASSUME NEW p \in Producers, AdvanceHead(p)
      PROVE  TokenLedger'
  <2>1. /\ HoldingEmpty' = HoldingEmpty \ {p} /\ p \in HoldingEmpty
        /\ PostingFill' = PostingFill \cup {p} /\ p \notin PostingFill
        /\ UNCHANGED <<HoldingFill, PostingEmpty>>
    BY <1>1, <1>3, <1>9 DEF AdvanceHead, Procs
  <2> HIDE DEF HoldingEmpty, HoldingFill, PostingFill, PostingEmpty
  <2>2. /\ Cardinality(HoldingEmpty') = Cardinality(HoldingEmpty) - 1
        /\ Cardinality(PostingFill') = Cardinality(PostingFill) + 1
    BY ONLY <2>1, HoldersFinite, FS_AddElement, FS_RemoveElement
  <2>3. UNCHANGED <<fillCount, emptyCount>> /\ Unread' = Unread + 1
    BY <1>9 DEF AdvanceHead, semVars, TypeOK, Unread, Copies, Procs
  <2> QED
    BY <1>1, <1>2, <2>1, <2>2, <2>3, HoldersFinite DEF TokenLedger
<1>10. ASSUME NEW p \in Producers, PostFill(p)
       PROVE  TokenLedger'
  <2>1. /\ PostingFill' = PostingFill \ {p} /\ p \in PostingFill
        /\ UNCHANGED <<HoldingEmpty, HoldingFill, PostingEmpty>>
    BY <1>1, <1>3, <1>10 DEF PostFill, Procs
  <2> HIDE DEF HoldingEmpty, HoldingFill, PostingFill, PostingEmpty
  <2>2. Cardinality(PostingFill') = Cardinality(PostingFill) - 1
    BY ONLY <2>1, HoldersFinite, FS_RemoveElement
  <2>3. /\ fillCount' = fillCount + 1
        /\ UNCHANGED <<emptyCount, sent, received>>
    BY <1>10 DEF PostFill, queueVars
  <2> QED
    BY <1>1, <1>2, <2>1, <2>2, <2>3, HoldersFinite DEF TokenLedger, Unread
<1>11. ASSUME NEW p \in Consumers, WaitFill(p)
       PROVE  TokenLedger'
  <2>1. /\ HoldingFill' = HoldingFill \cup {p} /\ p \notin HoldingFill
        /\ UNCHANGED <<HoldingEmpty, PostingFill, PostingEmpty>>
    BY <1>1, <1>3, <1>11 DEF WaitFill, Procs
  <2> HIDE DEF HoldingEmpty, HoldingFill, PostingFill, PostingEmpty
  <2>2. Cardinality(HoldingFill') = Cardinality(HoldingFill) + 1
    BY ONLY <2>1, HoldersFinite, FS_AddElement
  <2>3. /\ fillCount' = fillCount - 1
        /\ UNCHANGED <<emptyCount, sent, received>>
    BY <1>11 DEF WaitFill, queueVars
  <2> QED
    BY <1>1, <1>2, <2>1, <2>2, <2>3, HoldersFinite DEF TokenLedger, Unread
<1>12. ASSUME NEW p \in Consumers, AdvanceTail(p)
       PROVE  TokenLedger'
  <2>1. /\ HoldingFill' = HoldingFill \ {p} /\ p \in HoldingFill
        /\ PostingEmpty' = PostingEmpty \cup {p} /\ p \notin PostingEmpty
        /\ UNCHANGED <<HoldingEmpty, PostingFill>>
    BY <1>1, <1>3, <1>12 DEF AdvanceTail, Procs
  <2> HIDE DEF HoldingEmpty, HoldingFill, PostingFill, PostingEmpty
  <2>2. /\ Cardinality(HoldingFill') = Cardinality(HoldingFill) - 1
        /\ Cardinality(PostingEmpty') = Cardinality(PostingEmpty) + 1
    BY ONLY <2>1, HoldersFinite, FS_AddElement, FS_RemoveElement
  <2>3. UNCHANGED <<fillCount, emptyCount>> /\ Unread' = Unread - 1
    BY <1>12 DEF AdvanceTail, semVars, TypeOK, Unread, Copies, Procs
  <2> QED
    BY <1>1, <1>2, <2>1, <2>2, <2>3, HoldersFinite DEF TokenLedger
<1>13. ASSUME NEW p \in Consumers, PostEmpty(p)
       PROVE  TokenLedger'
  <2>1. /\ PostingEmpty' = PostingEmpty \ {p} /\ p \in PostingEmpty
        /\ UNCHANGED <<HoldingEmpty, HoldingFill, PostingFill>>
    BY <1>1, <1>3, <1>13 DEF PostEmpty, Procs
  <2> HIDE DEF HoldingEmpty, HoldingFill, PostingFill, PostingEmpty
  <2>2. Cardinality(PostingEmpty') = Cardinality(PostingEmpty) - 1
    BY ONLY <2>1, HoldersFinite, FS_RemoveElement
  <2>3. /\ emptyCount' = emptyCount + 1
        /\ UNCHANGED <<fillCount, sent, received>>
    BY <1>13 DEF PostEmpty, queueVars
  <2> QED
    BY <1>1, <1>2, <2>1, <2>2, <2>3, HoldersFinite DEF TokenLedger, Unread
<1>14. CASE Elsewhere
  <2>1. /\ HoldingEmpty' \in SUBSET HoldingEmpty /\ HoldingFill' \in SUBSET HoldingFill
        /\ PostingFill' \in SUBSET PostingFill /\ PostingEmpty' \in SUBSET PostingEmpty
    BY <1>14 DEF Elsewhere, Procs
  <2> HIDE DEF HoldingEmpty, HoldingFill, PostingFill, PostingEmpty
  <2>2. /\ Cardinality(HoldingEmpty') <= Cardinality(HoldingEmpty)
        /\ Cardinality(HoldingFill') <= Cardinality(HoldingFill)
        /\ Cardinality(PostingFill') <= Cardinality(PostingFill)
        /\ Cardinality(PostingEmpty') <= Cardinality(PostingEmpty)
    BY ONLY <2>1, HoldersFinite, FS_Subset
  <2>3. UNCHANGED <<fillCount, emptyCount, sent, received>>
    BY <1>14 DEF Elsewhere, queueVars, semVars
  <2>4. /\ Cardinality(HoldingEmpty') \in Nat /\ Cardinality(HoldingFill') \in Nat
        /\ Cardinality(PostingFill') \in Nat /\ Cardinality(PostingEmpty') \in Nat
    BY ONLY HoldersFinite, <2>1, FS_Subset, FS_CardinalityType
  <2> QED
    <3>1. fillCount' = fillCount /\ emptyCount' = emptyCount /\ Unread' = Unread
      BY <2>3 DEF Unread
    <3> QED
      BY <1>1, <1>2, <2>2, <2>4, <3>1, HoldersFinite DEF TokenLedger
<1> QED
  BY <1>5, <1>6, <1>7, <1>8, <1>9, <1>10, <1>11, <1>12, <1>13, <1>14, StepCases
     DEF QueueStep

\* The semaphores' tokens, free or held, never exceed the unread messages and
\* the free slots they stand for.
THEOREM TokensAreBacked == Spec => []TokenLedger
<1>1. Init => TokenLedger
  <2> SUFFICES ASSUME Init PROVE TokenLedger
    OBVIOUS
  <2>1. HoldingEmpty = {} /\ HoldingFill = {} /\ PostingFill = {} /\ PostingEmpty = {}
    BY DEF Init, Procs, HoldingEmpty, HoldingFill, PostingFill, PostingEmpty
  <2> QED
    BY <2>1, FS_EmptySet, ProcQueueAssumption
       DEF ProcQueueAssumption, Init, TokenLedger, Unread
<1> QED
  BY <1>1, TypeInit, TypeStep, LedgerStep, PTL DEF Spec

-----------------------------------------------------------------------------
(* The ring and the copies in the processes' hands. *)

LEMMA SlotFacts ==
  ASSUME NEW t \in Slots
  PROVE  /\ SlotFrom(t, 1) = t
         /\ \A i \in 1..BUFFER_SIZE : SlotFrom(t, i) \in Slots
         /\ \A i, j \in 1..BUFFER_SIZE : SlotFrom(t, i) = SlotFrom(t, j) => i = j
         /\ \A i \in 1..BUFFER_SIZE : (SlotFrom(t, i) + 1) % BUFFER_SIZE = SlotFrom(t, i + 1)
         /\ \A i \in 1..BUFFER_SIZE :
              SlotFrom((t + 1) % BUFFER_SIZE, i) = SlotFrom(t, i + 1)
<1>1. BUFFER_SIZE \in Nat \ {0} /\ t \in 0..BUFFER_SIZE - 1
  BY ProcQueueAssumption DEF ProcQueueAssumption, Slots
<1>2. \A i \in 1..BUFFER_SIZE : SlotFrom(t, i) \in Slots
  BY <1>1 DEF SlotFrom, Slots
<1>3. ASSUME NEW i \in 1..BUFFER_SIZE
      PROVE  (SlotFrom(t, i) + 1) % BUFFER_SIZE = SlotFrom(t, i + 1)
  <2>1. (SlotFrom(t, i) + 1) % BUFFER_SIZE
           = IF SlotFrom(t, i) + 1 = BUFFER_SIZE THEN 0 ELSE SlotFrom(t, i) + 1
    BY <1>2, Wrap
  <2>2. (IF SlotFrom(t, i) + 1 = BUFFER_SIZE THEN 0 ELSE SlotFrom(t, i) + 1)
           = SlotFrom(t, i + 1)
    BY <1>1 DEF SlotFrom
  <2> QED
    BY <2>1, <2>2
<1>4. ASSUME NEW i \in 1..BUFFER_SIZE
      PROVE  SlotFrom((t + 1) % BUFFER_SIZE, i) = SlotFrom(t, i + 1)
  <2>1. (t + 1) % BUFFER_SIZE = IF t + 1 = BUFFER_SIZE THEN 0 ELSE t + 1
    BY Wrap
  <2>2. SlotFrom(IF t + 1 = BUFFER_SIZE THEN 0 ELSE t + 1, i) = SlotFrom(t, i + 1)
    BY <1>1 DEF SlotFrom
  <2> QED
    BY <2>1, <2>2
<1> QED
  BY <1>1, <1>2, <1>3, <1>4 DEF SlotFrom

\* The slot a producer fills is not one of the unread messages'.
LEMMA HeadIsFree ==
  ASSUME QueueInvariant, NEW p \in Producers,
         pc[p] \in {"write", "copyIn", "advanceHead"}
  PROVE  /\ Unread + 1 \in 1..BUFFER_SIZE
         /\ head = SlotFrom(tail, Unread + 1)
         /\ \A i \in 1..Unread : SlotFrom(tail, i) \in Slots /\ SlotFrom(tail, i) # head
<1>1. p \in HoldingEmpty
  BY DEF HoldingEmpty
<1>2. Unread \in 0..BUFFER_SIZE /\ Unread < BUFFER_SIZE
  BY <1>1, Room DEF QueueInvariant
<1>3. BUFFER_SIZE \in Nat /\ Unread + 1 \in 1..BUFFER_SIZE /\ head = SlotFrom(tail, Unread + 1)
  BY <1>2, ProcQueueAssumption DEF ProcQueueAssumption, QueueInvariant, Ring, SlotOf
<1>4. ASSUME NEW i \in 1..Unread
      PROVE  SlotFrom(tail, i) \in Slots /\ SlotFrom(tail, i) # head
  <2>1. i \in 1..BUFFER_SIZE /\ i # Unread + 1
    BY <1>2, <1>3
  <2> QED
    BY <2>1, <1>3, SlotFacts DEF QueueInvariant, TypeOK
<1> QED
  BY <1>3, <1>4

\* The slot a consumer empties holds the oldest unread message.
LEMMA TailIsOldest ==
  ASSUME QueueInvariant, NEW c \in Consumers,
         pc[c] \in {"read", "copyOut", "advanceTail"}
  PROVE  /\ Unread \in 1..BUFFER_SIZE
         /\ buffer[tail].hdr = sent[Len(received) + 1]
         /\ buffer[tail].data = sent[Len(received) + 1]
         /\ sent[Len(received) + 1] \in Messages
<1>1. c \in HoldingFill
  BY DEF HoldingFill
<1>2. Unread \in 1..BUFFER_SIZE /\ 1 \in 1..Unread
  BY <1>1, Room DEF QueueInvariant
<1>3. SlotFrom(tail, 1) = tail
  BY SlotFacts DEF QueueInvariant, TypeOK
<1>4. Len(received) + 1 \in 1..Len(sent)
  BY <1>2 DEF Unread, QueueInvariant, TypeOK
<1>5. buffer[SlotFrom(tail, 1)] = [hdr |-> sent[Len(received) + 1], data |-> sent[Len(received) + 1]]
  BY <1>2 DEF QueueInvariant, Ring, SlotOf
<1>6. sent[Len(received) + 1] \in Messages
  BY <1>4 DEF QueueInvariant, Ring, SlotOf
<1> QED
  BY <1>2, <1>3, <1>5, <1>6

\* Whoever is inside is alone there.
LEMMA Alone ==
  ASSUME MutualExclusion, NEW p \in Procs, pc[p] \in Critical
  PROVE  \A q \in Procs : q # p => pc[q] \notin Critical
  BY DEF MutualExclusion, InCritical

LEMMA RingStep == QueueInvariant /\ [Next]_vars => Ring' /\ InHand'
<1> SUFFICES ASSUME QueueInvariant, [Next]_vars PROVE Ring' /\ InHand'
  OBVIOUS
<1> USE DEF Goto
<1>1. /\ TypeOK /\ MutualExclusion /\ TokenLedger /\ Ring /\ InHand
      /\ pc \in [Procs -> PCs] /\ message \in [Procs -> Copies]
      /\ buffer \in [Slots -> Copies] /\ head \in Slots /\ tail \in Slots
      /\ Len(sent) \in Nat /\ Len(received) \in Nat /\ Unread \in Int
  BY DEF QueueInvariant, TypeOK, Unread
<1>2. ASSUME UNCHANGED queueVars PROVE Ring'
  BY <1>1, <1>2 DEF queueVars, Ring, SlotOf, Unread
<1>3. ASSUME UNCHANGED queueVars,
             \A q \in Procs : \/ pc'[q] = pc[q] /\ message'[q] = message[q]
                              \/ pc'[q] \in {"none", "exited", "idle", "waitFill"}
      PROVE  InHand'
  BY <1>1, <1>3 DEF queueVars, InHand, ProducerHand, ConsumerHand, Procs
<1>4. CASE Elsewhere
  BY <1>2, <1>3, <1>4 DEF Elsewhere
<1>5. ASSUME NEW p \in Producers, BuildMessage(p) PROVE Ring' /\ InHand'
  <2>1. UNCHANGED queueVars
    BY <1>5 DEF BuildMessage
  <2>2. made + 1 \in Messages
    BY <1>1, <1>5, ProcQueueAssumption
       DEF ProcQueueAssumption, BuildMessage, Messages, TypeOK
  <2>3. InHand'
    BY <1>1, <1>5, <2>1, <2>2
       DEF BuildMessage, queueVars, InHand, ProducerHand, ConsumerHand, Procs
  <2> QED
    BY <2>1, <2>3, <1>2
<1>6. ASSUME NEW p \in Producers, WaitEmpty(p) \/ PostFill(p) PROVE Ring' /\ InHand'
  <2>1. UNCHANGED queueVars /\ UNCHANGED message
    BY <1>6 DEF WaitEmpty, PostFill
  <2>2. InHand'
    BY <1>1, <1>6, <2>1, ProcQueueAssumption
       DEF ProcQueueAssumption, WaitEmpty, PostFill, queueVars, InHand, ProducerHand,
           ConsumerHand, Procs
  <2> QED
    BY <2>1, <2>2, <1>2
<1>7. ASSUME NEW p \in Consumers, WaitFill(p) \/ PostEmpty(p) PROVE Ring' /\ InHand'
  <2>1. UNCHANGED queueVars /\ UNCHANGED message
    BY <1>7 DEF WaitFill, PostEmpty
  <2>2. InHand'
    BY <1>1, <1>7, <2>1, ProcQueueAssumption
       DEF ProcQueueAssumption, WaitFill, PostEmpty, queueVars, InHand, ProducerHand,
           ConsumerHand, Procs
  <2> QED
    BY <2>1, <2>2, <1>2
<1>8. ASSUME NEW p \in Procs, WaitMutex(p) PROVE Ring' /\ InHand'
  <2>1. UNCHANGED queueVars /\ UNCHANGED message
    BY <1>8 DEF WaitMutex
  <2>2. InHand'
    BY <1>1, <1>8, <2>1, ProcQueueAssumption
       DEF ProcQueueAssumption, WaitMutex, queueVars, InHand, ProducerHand, ConsumerHand, Procs
  <2> QED
    BY <2>1, <2>2, <1>2
<1>9. ASSUME NEW p \in Procs, PostMutex(p) PROVE Ring' /\ InHand'
  <2>1. UNCHANGED queueVars
    BY <1>9 DEF PostMutex
  <2>2. \A q \in Procs : q # p => pc'[q] = pc[q] /\ message'[q] = message[q]
    BY <1>1, <1>9 DEF PostMutex, Forget
  <2>3. CASE p \in Producers
    <3>1. pc'[p] = "idle"
      BY <1>1, <1>9, <2>3 DEF PostMutex
    <3> QED
      BY <2>1, <2>2, <3>1, <1>2, <1>3
  <2>4. CASE p \notin Producers
    <3>1. pc[p] = "postMutex" /\ pc'[p] = "check" /\ message' = message
      BY <1>1, <1>9, <2>4 DEF PostMutex
    <3>2. InHand'
      BY <1>1, <2>1, <2>2, <2>4, <3>1 DEF queueVars, InHand, ProducerHand, ConsumerHand, Procs
    <3> QED
      BY <2>1, <3>2, <1>2
  <2> QED
    BY <2>3, <2>4
<1>10. ASSUME NEW p \in Producers, WriteHeader(p) \/ CopyIn(p) PROVE Ring' /\ InHand'
  <2>1. /\ pc[p] \in {"write", "copyIn"} /\ p \in Procs /\ pc[p] \in Critical
        /\ UNCHANGED <<head, tail, sent, received, message>>
    BY <1>10 DEF WriteHeader, CopyIn, Procs, Critical
  <2>2. /\ \A s \in Slots : s # head => buffer'[s] = buffer[s]
        /\ buffer' \in [Slots -> Copies]
    BY <1>1, <1>10, ZenonT(40) DEF WriteHeader, CopyIn, Copies, Procs
  <2>3. Ring'
    <3>1. \A i \in 1..Unread : buffer'[SlotFrom(tail, i)] = buffer[SlotFrom(tail, i)]
      BY <2>1, <2>2, HeadIsFree
    <3> QED
      BY <1>1, <2>1, <3>1 DEF Ring, Unread, SlotOf
  <2>4. \A q \in Procs : q # p => pc'[q] = pc[q] /\ pc[q] \notin Critical
    BY <1>1, <1>10, <2>1, Alone DEF WriteHeader, CopyIn
  <2>5. \A q \in Producers : q # p => ProducerHand(q)'
    BY <1>1, <2>1, <2>4 DEF InHand, ProducerHand, Procs, Critical
  <2>6. \A c \in Consumers : ConsumerHand(c)'
    BY <1>1, <2>1, <2>4, ProcQueueAssumption
       DEF ProcQueueAssumption, InHand, ConsumerHand, Procs, Critical
  <2>7. ProducerHand(p)'
    BY <1>1, <1>10, <2>1
       DEF WriteHeader, CopyIn, InHand, ProducerHand, Copies, Procs
  <2> QED
    BY <2>3, <2>5, <2>6, <2>7 DEF InHand
<1>11. ASSUME NEW p \in Producers, AdvanceHead(p) PROVE Ring' /\ InHand'
  <2>1. /\ pc[p] = "advanceHead" /\ p \in Procs /\ pc[p] \in Critical
        /\ UNCHANGED <<tail, buffer, received, message>>
        /\ head' = (head + 1) % BUFFER_SIZE /\ pc'[p] = "postFill"
    BY <1>1, <1>11 DEF AdvanceHead, Procs, Critical
  <2> DEFINE m == message[p].data
  <2>2. /\ m \in Messages /\ buffer[head] = [hdr |-> m, data |-> m]
    BY <1>1, <2>1 DEF InHand, ProducerHand, Copies
  <2>3. /\ sent' = Append(sent, m) /\ Len(sent') = Len(sent) + 1
        /\ Unread' = Unread + 1 /\ sent'[Len(sent) + 1] = m
        /\ \A i \in 1..Len(sent) : sent'[i] = sent[i]
    BY <1>1, <1>11, <2>1 DEF AdvanceHead, Unread, TypeOK, Copies
  <2>4. Unread + 1 \in 1..BUFFER_SIZE /\ head = SlotFrom(tail, Unread + 1) /\ Unread \in Nat
    BY <1>1, <2>1, HeadIsFree, Room
  <2>5. \A i \in Int : SlotFrom(tail', i) = SlotFrom(tail, i)
    BY <2>1
  <2>6. head' = SlotFrom(tail', Unread' + 1)
    <3>1. head' = SlotFrom(tail, Unread + 1 + 1)
      BY <1>1, <2>1, <2>4, SlotFacts
    <3> QED
      BY <2>3, <2>4, <2>5, <3>1
  <2>7. ASSUME NEW i \in 1..Unread'
        PROVE  /\ buffer'[SlotFrom(tail', i)] = [hdr |-> sent'[Len(received') + i],
                                         data |-> sent'[Len(received') + i]]
    <3>1. SlotFrom(tail', i) = SlotFrom(tail, i) /\ buffer' = buffer /\ received' = received
      BY <2>1, <2>5
    <3>2. CASE i = Unread + 1
      <4>1. Len(received) + i = Len(sent) + 1
        BY <1>1, <3>2 DEF Unread
      <4> QED
        BY <2>2, <2>3, <2>4, <3>1, <3>2, <4>1
    <3>3. CASE i # Unread + 1
      <4>1. i \in 1..Unread /\ Len(received) + i \in 1..Len(sent)
        BY <1>1, <2>3, <2>4, <3>3 DEF Unread
      <4> QED
        BY <1>1, <2>3, <3>1, <4>1 DEF Ring, SlotOf
    <3> QED
      BY <3>2, <3>3
  <2>8. /\ \A i \in 1..Len(sent') : sent'[i] \in Messages
        /\ \A i \in 1..Len(received') : received'[i] = sent'[i]
    <3>1. \A i \in 1..Len(received) : i \in 1..Len(sent)
      BY <1>1, <2>4 DEF Unread
    <3> QED
      BY <1>1, <2>1, <2>2, <2>3, <3>1 DEF Ring, SlotOf
  <2>9. Ring'
    BY <2>6, <2>7, <2>8 DEF Ring, SlotOf
  <2>10. \A q \in Procs : q # p => pc'[q] = pc[q] /\ pc[q] \notin Critical
    BY <1>1, <1>11, <2>1, Alone DEF AdvanceHead
  <2>11. InHand'
    BY <1>1, <2>1, <2>10, ProcQueueAssumption
       DEF ProcQueueAssumption, InHand, ProducerHand, ConsumerHand, Procs, Critical
  <2> QED
    BY <2>9, <2>11
<1>12. ASSUME NEW p \in Consumers, ReadHeader(p) \/ CopyOut(p) PROVE Ring' /\ InHand'
  <2>1. /\ UNCHANGED queueVars /\ p \in Procs
        /\ \A q \in Procs : q # p => pc'[q] = pc[q] /\ message'[q] = message[q]
    BY <1>1, <1>12 DEF ReadHeader, CopyOut, Procs
  <2>2. ConsumerHand(p)'
    BY <1>1, <1>12, <2>1
       DEF ReadHeader, CopyOut, InHand, ConsumerHand, queueVars, Copies, Procs
  <2>3. InHand'
    BY <1>1, <2>1, <2>2, ProcQueueAssumption
       DEF ProcQueueAssumption, queueVars, InHand, ProducerHand, ConsumerHand, Procs
  <2> QED
    BY <2>1, <2>3, <1>2
<1>13. ASSUME NEW p \in Consumers, AdvanceTail(p) PROVE Ring' /\ InHand'
  <2>1. /\ pc[p] = "advanceTail" /\ p \in Procs /\ pc[p] \in Critical
        /\ UNCHANGED <<head, buffer, sent, message>>
        /\ tail' = (tail + 1) % BUFFER_SIZE /\ pc'[p] = "postEmpty"
    BY <1>1, <1>13 DEF AdvanceTail, Procs, Critical
  <2> DEFINE m == message[p].data
  <2>2. /\ Unread \in 1..BUFFER_SIZE /\ m = sent[Len(received) + 1]
        /\ message[p].hdr = m /\ m \in Messages
    BY <1>1, <2>1, TailIsOldest DEF InHand, ConsumerHand
  <2>3. /\ received' = Append(received, m) /\ Len(received') = Len(received) + 1
        /\ Unread' = Unread - 1 /\ received'[Len(received) + 1] = m
        /\ \A i \in 1..Len(received) : received'[i] = received[i]
    BY <1>1, <1>13, <2>1 DEF AdvanceTail, Unread, TypeOK, Copies
  <2>4. BUFFER_SIZE \in Nat \ {0}
    BY ProcQueueAssumption DEF ProcQueueAssumption
  <2>5. \A i \in 1..BUFFER_SIZE : SlotFrom(tail', i) = SlotFrom(tail, i + 1)
    BY <1>1, <2>1, SlotFacts
  <2>6. head' = SlotFrom(tail', Unread' + 1)
    <3>1. head' = SlotFrom(tail, Unread + 1)
      BY <1>1, <2>1 DEF Ring, SlotOf
    <3>2. SlotFrom(tail', Unread) = SlotFrom(tail, Unread + 1) /\ Unread' + 1 = Unread
      BY <1>1, <2>2, <2>3, <2>5
    <3>3. SlotFrom(tail', Unread' + 1) = SlotFrom(tail', Unread)
      BY <1>1, <2>3, <3>2 DEF SlotOf
    <3> QED
      BY <3>1, <3>2, <3>3
  <2>7. ASSUME NEW i \in 1..Unread'
        PROVE  /\ buffer'[SlotFrom(tail', i)] = [hdr |-> sent'[Len(received') + i],
                                         data |-> sent'[Len(received') + i]]
    <3>1. i \in 1..BUFFER_SIZE /\ i + 1 \in 1..Unread
      BY <2>2, <2>3, <2>4
    <3>2. /\ SlotFrom(tail', i) = SlotFrom(tail, i + 1) /\ buffer' = buffer /\ sent' = sent
          /\ Len(received') + i = Len(received) + (i + 1)
      <4>1. SlotFrom(tail', i) = SlotFrom(tail, i + 1)
        BY <2>5, <3>1
      <4> QED
        BY <1>1, <2>1, <2>3, <4>1
    <3> QED
      BY <1>1, <3>1, <3>2 DEF Ring, SlotOf
  <2>8. /\ \A i \in 1..Len(sent') : sent'[i] \in Messages
        /\ \A i \in 1..Len(received') : received'[i] = sent'[i]
    BY <1>1, <2>1, <2>2, <2>3 DEF Ring, SlotOf
  <2>9. Ring'
    BY <2>6, <2>7, <2>8 DEF Ring, SlotOf
  <2>10. \A q \in Procs : q # p => pc'[q] = pc[q] /\ pc[q] \notin Critical
    BY <1>1, <1>13, <2>1, Alone DEF AdvanceTail
  <2>11. InHand'
    BY <1>1, <2>1, <2>2, <2>10, ProcQueueAssumption
       DEF ProcQueueAssumption, InHand, ProducerHand, ConsumerHand, Procs, Critical
  <2> QED
    BY <2>9, <2>11
<1> QED
  BY <1>4, <1>5, <1>6, <1>7, <1>8, <1>9, <1>10, <1>11, <1>12, <1>13, StepCases, <1>1
     DEF QueueStep

LEMMA QueueInit == Init => QueueInvariant
<1> SUFFICES ASSUME Init PROVE QueueInvariant
  OBVIOUS
<1> USE ProcQueueAssumption DEF ProcQueueAssumption
<1>1. mutex <= 1 /\ MutualExclusion
  BY DEF Init, MutualExclusion, InCritical, Critical
<1>2. TokenLedger
  <2>1. HoldingEmpty = {} /\ HoldingFill = {} /\ PostingFill = {} /\ PostingEmpty = {}
    BY DEF Init, Procs, HoldingEmpty, HoldingFill, PostingFill, PostingEmpty
  <2> QED
    BY <2>1, FS_EmptySet DEF Init, TokenLedger, Unread
<1>3. Ring
  BY DEF Init, Ring, SlotOf, SlotFrom, Unread
<1>4. InHand
  BY DEF Init, InHand, ProducerHand, ConsumerHand, Procs
<1> QED
  BY <1>1, <1>2, <1>3, <1>4, TypeInit DEF QueueInvariant

LEMMA QueueInvariantStep == QueueInvariant /\ [Next]_vars => QueueInvariant'
<1> SUFFICES ASSUME QueueInvariant, [Next]_vars PROVE QueueInvariant'
  OBVIOUS
<1>1. TypeOK' /\ TokenLedger'
  BY TypeStep, LedgerStep DEF QueueInvariant
<1>2. (mutex <= 1 /\ MutualExclusion)'
  BY MutexStep DEF QueueInvariant, MutexInvariant
<1>3. Ring' /\ InHand'
  BY RingStep
<1> QED
  BY <1>1, <1>2, <1>3 DEF QueueInvariant

\* The inductive invariant of the queue.
THEOREM QueueIsInvariant == Spec => []QueueInvariant
  BY QueueInit, QueueInvariantStep, PTL DEF Spec

\* The unread messages lie whole and in order between tail and head, and what
\* was got is what was put: AdvanceHead and AdvanceTail are right for any
\* number of wrap-arounds and any half-written slot a killed producer leaves.
THEOREM RingIsRight == Spec => []Ring
<1>1. QueueInvariant => Ring
  BY DEF QueueInvariant
<1> QED
  BY <1>1, QueueIsInvariant, PTL

\* No consumer ever reports a hash mismatch.
THEOREM HashesMatch == Spec => []NoHashMismatch
<1>1. QueueInvariant => NoHashMismatch
  BY DEF QueueInvariant, InHand, ConsumerHand, NoHashMismatch
<1> QED
  BY <1>1, QueueIsInvariant, PTL

-----------------------------------------------------------------------------
(* What the parent knows of its children.  Until a Ctrl+C nobody but the one *)
(* the parent has just killed can come to an end, so the child that wait     *)
(* finds is that one.                                                        *)

Listed == Range(producerMas) \cup Range(consumerMas)

InUse == {p \in Procs : pc[p] # "none"}

Leaving == {p \in Procs : pc[p] = "exited"} \cup sigterm

ParentStrengthened ==
  parentRunning /\ ~parentSigint /\ parentPc # "exited" =>
    /\ sigint = {} /\ \A p \in InUse : running[p]
    /\ IsInjective(producerMas) /\ IsInjective(consumerMas)
    /\ Listed \subseteq InUse /\ Leaving \subseteq InUse \ Listed
    /\ parentPc = "menu" => InUse \subseteq Listed
    /\ parentPc = "wait" =>
         \E k \in Procs : InUse \ Listed = {k} /\ (k \in sigterm => pc[k] # "exited")

\* The steps of a child that keep it at work leave all of this alone.
AtWork ==
  /\ UNCHANGED <<parentVars, running, sigterm, sigint, linked>>
  /\ \A q \in Procs : \/ pc'[q] = pc[q]
                      \/ {pc[q], pc'[q]} \cap {"none", "exited"} = {}

ParentStep ==
  \/ \E p \in Procs : LeaveMain(p) \/ Die(p) \/ SignalHandler(p) \/ Reap(p)
  \/ \E p \in Producers : LaunchProducer(p)
  \/ \E p \in Consumers : LaunchConsumer(p)
  \/ ForkFails \/ RemoveProducer \/ RemoveConsumer \/ CtrlC
  \/ ParentSignalHandler \/ ParentExit

LEMMA WorkOrParent == TypeOK /\ [Next]_vars => AtWork \/ ParentStep
<1> SUFFICES ASSUME TypeOK, [Next]_vars PROVE AtWork \/ ParentStep
  OBVIOUS
<1> USE DEF AtWork, Goto, parentVars, childVars
<1>1. pc \in [Procs -> PCs] /\ Procs = Producers \cup Consumers
  BY DEF TypeOK, Procs
<1>2. CASE UNCHANGED vars
  BY <1>2 DEF vars
<1>3. ASSUME NEW p \in Producers, \/ BuildMessage(p) \/ WaitEmpty(p) \/ WriteHeader(p)
                                \/ CopyIn(p) \/ AdvanceHead(p) \/ PostFill(p)
      PROVE  AtWork
  BY <1>1, <1>3 DEF BuildMessage, WaitEmpty, WriteHeader, CopyIn, AdvanceHead, PostFill
<1>4. ASSUME NEW p \in Consumers,
             \/ EnterGet(p) \/ WaitFill(p) \/ ReadHeader(p) \/ CopyOut(p)
             \/ AdvanceTail(p) \/ PostEmpty(p) \/ CheckHash(p)
      PROVE  AtWork
  BY <1>1, <1>4 DEF EnterGet, WaitFill, ReadHeader, CopyOut, AdvanceTail, PostEmpty, CheckHash
<1>5. ASSUME NEW p \in Procs, WaitMutex(p) \/ PostMutex(p) PROVE AtWork
  BY <1>1, <1>5 DEF WaitMutex, PostMutex
<1> QED
  BY <1>1, <1>2, <1>3, <1>4, <1>5
     DEF Next, User, System, MainStep, Delivered, Step, ProducerStep, ConsumerStep, ParentStep

LEMMA ParentInvariantStep ==
  TypeOK /\ ParentStrengthened /\ [Next]_vars => ParentStrengthened'
<1> SUFFICES ASSUME TypeOK, ParentStrengthened, [Next]_vars,
                    parentRunning', ~parentSigint', parentPc' # "exited"
             PROVE  ParentStrengthened'
  BY DEF ParentStrengthened
<1> USE DEF Goto
<1>1. /\ pc \in [Procs -> PCs] /\ running \in [Procs -> BOOLEAN] /\ sigterm \subseteq Procs
      /\ Procs = Producers \cup Consumers /\ Producers \cap Consumers = {}
      /\ producerMas \in Seq(Producers) /\ consumerMas \in Seq(Consumers)
      /\ parentPc \in {"menu", "wait", "exited"}
  BY ProcQueueAssumption DEF ProcQueueAssumption, TypeOK, Procs
<1>2. parentRunning /\ ~parentSigint /\ parentPc # "exited"
  <2>1. CASE AtWork
    BY <2>1 DEF AtWork, parentVars
  <2>2. ASSUME NEW p \in Procs, LeaveMain(p) \/ Die(p) \/ SignalHandler(p)
        PROVE  UNCHANGED parentVars
    BY <2>2 DEF LeaveMain, Die, EndOfChild, SignalHandler
  <2>3. ASSUME NEW p \in Procs, Reap(p) PROVE parentPc # "exited" /\ UNCHANGED <<parentRunning, parentSigint>>
    BY <2>3 DEF Reap
  <2>4. CASE \/ \E p \in Producers : LaunchProducer(p)
             \/ \E p \in Consumers : LaunchConsumer(p)
             \/ ForkFails \/ RemoveProducer \/ RemoveConsumer
    BY <2>4 DEF LaunchProducer, LaunchConsumer, Fork, AtMenu, ForkFails, RemoveProducer,
         RemoveConsumer, Kill
  <2>5. ~CtrlC /\ ~ParentSignalHandler /\ ~ParentExit
    BY DEF CtrlC, ParentSignalHandler, ParentExit
  <2> QED
    BY <2>1, <2>2, <2>3, <2>4, <2>5, WorkOrParent DEF ParentStep, parentVars
<1>3. /\ sigint = {} /\ \A p \in InUse : running[p]
      /\ IsInjective(producerMas) /\ IsInjective(consumerMas)
      /\ Listed \subseteq InUse /\ Leaving \subseteq InUse \ Listed
      /\ parentPc = "menu" => InUse \subseteq Listed
      /\ parentPc = "wait" =>
           \E k \in Procs : InUse \ Listed = {k} /\ (k \in sigterm => pc[k] # "exited")
  BY <1>2 DEF ParentStrengthened
<1>4. Range(producerMas) \subseteq Producers /\ Range(consumerMas) \subseteq Consumers
  BY <1>1, RangeFacts
<1>5. CASE AtWork
  <2>1. InUse' = InUse /\ Leaving' = Leaving /\ Listed' = Listed
    BY <1>5 DEF AtWork, InUse, Leaving, Listed, parentVars
  <2>2. UNCHANGED <<sigint, sigterm, running, producerMas, consumerMas, parentPc>>
    BY <1>5 DEF AtWork, parentVars
  <2>3. \A k \in Procs : pc'[k] = "exited" <=> pc[k] = "exited"
    BY <1>5 DEF AtWork
  <2> QED
    BY <1>3, <2>1, <2>2, <2>3 DEF ParentStrengthened
<1>6. ASSUME NEW p \in Procs, LeaveMain(p) \/ SignalHandler(p) PROVE FALSE
  <2>1. CASE SignalHandler(p)
    BY <1>3, <2>1 DEF SignalHandler
  <2>2. CASE LeaveMain(p)
    BY <1>3, <2>2 DEF LeaveMain, InUse
  <2> QED
    BY <1>6, <2>1, <2>2
<1>7. ASSUME NEW p \in Procs, Die(p) PROVE ParentStrengthened'
  <2>1. /\ p \in sigterm /\ pc' = [pc EXCEPT ![p] = "exited"] /\ sigterm' = sigterm \ {p}
        /\ sigint' = sigint \ {p}
        /\ UNCHANGED <<running, producerMas, consumerMas, parentPc>>
    BY <1>7 DEF Die, EndOfChild, parentVars
  <2>2. p \in InUse \ Listed /\ parentPc = "wait"
    BY <1>1, <1>2, <1>3, <2>1 DEF Leaving
  <2>3. InUse' = InUse /\ Listed' = Listed /\ Leaving' \subseteq Leaving \cup {p}
    BY <1>1, <2>1, <2>2 DEF InUse, Listed, Leaving
  <2>4. \E k \in Procs : InUse' \ Listed' = {k} /\ (k \in sigterm' => pc'[k] # "exited")
    BY <1>3, <2>1, <2>2, <2>3
  <2> QED
    BY <1>3, <2>1, <2>2, <2>3, <2>4 DEF ParentStrengthened
<1>8. ASSUME NEW p \in Procs, Reap(p) PROVE ParentStrengthened'
  <2>1. /\ parentPc = "wait" /\ pc[p] = "exited" /\ pc' = [pc EXCEPT ![p] = "none"]
        /\ parentPc' = "menu"
        /\ UNCHANGED <<running, sigterm, sigint, producerMas, consumerMas>>
    BY <1>8 DEF Reap, childVars
  <2>2. PICK k \in Procs : InUse \ Listed = {k} /\ (k \in sigterm => pc[k] # "exited")
    BY <1>3, <2>1
  <2>3. k = p
    BY <1>3, <2>1, <2>2 DEF Leaving
  <2>4. InUse' = InUse \ {p} /\ Listed' = Listed
    BY <1>1, <2>1 DEF InUse, Listed
  <2>5. Leaving' = {}
    <3>1. sigterm = {}
      BY <1>3, <2>1, <2>2, <2>3 DEF Leaving
    <3>2. \A q \in Procs : pc'[q] # "exited"
      BY <1>1, <1>3, <2>1, <2>2, <2>3 DEF Leaving
    <3> QED
      BY <2>1, <3>1, <3>2 DEF Leaving
  <2>6. Listed' \subseteq InUse' /\ InUse' \subseteq Listed'
    BY <1>3, <2>2, <2>3, <2>4
  <2> QED
    BY <1>3, <2>1, <2>4, <2>5, <2>6 DEF ParentStrengthened
<1>9. ASSUME NEW p \in Producers, LaunchProducer(p) PROVE ParentStrengthened'
  <2>1. /\ parentPc = "menu" /\ parentPc' = parentPc /\ pc[p] = "none" /\ parentRunning
        /\ pc' = [pc EXCEPT ![p] = "idle"] /\ running' = [running EXCEPT ![p] = parentRunning]
        /\ producerMas' = Append(producerMas, p)
        /\ UNCHANGED <<consumerMas, sigterm, sigint>>
    BY <1>9 DEF LaunchProducer, Fork, AtMenu
  <2>2. p \notin InUse /\ p \notin Listed /\ p \in Procs
    BY <1>1, <1>3, <2>1 DEF InUse
  <2>3. Range(producerMas') = Range(producerMas) \cup {p} /\ IsInjective(producerMas')
    BY <1>1, <1>3, <2>1, <2>2, AppendRange DEF Listed
  <2>4. InUse' = InUse \cup {p} /\ Listed' = Listed \cup {p} /\ Leaving' = Leaving
    BY <1>1, <2>1, <2>2, <2>3 DEF InUse, Listed, Leaving
  <2>5. \A q \in InUse' : running'[q]
    BY <1>1, <1>3, <2>1, <2>4 DEF InUse
  <2> QED
    BY <1>3, <2>1, <2>2, <2>3, <2>4, <2>5 DEF ParentStrengthened
<1>10. ASSUME NEW p \in Consumers, LaunchConsumer(p) PROVE ParentStrengthened'
  <2>1. /\ parentPc = "menu" /\ parentPc' = parentPc /\ pc[p] = "none" /\ parentRunning
        /\ pc' = [pc EXCEPT ![p] = "idle"] /\ running' = [running EXCEPT ![p] = parentRunning]
        /\ consumerMas' = Append(consumerMas, p)
        /\ UNCHANGED <<producerMas, sigterm, sigint>>
    BY <1>10 DEF LaunchConsumer, Fork, AtMenu
  <2>2. p \notin InUse /\ p \notin Listed /\ p \in Procs
    BY <1>1, <1>3, <2>1 DEF InUse
  <2>3. Range(consumerMas') = Range(consumerMas) \cup {p} /\ IsInjective(consumerMas')
    BY <1>1, <1>3, <2>1, <2>2, AppendRange DEF Listed
  <2>4. InUse' = InUse \cup {p} /\ Listed' = Listed \cup {p} /\ Leaving' = Leaving
    BY <1>1, <2>1, <2>2, <2>3 DEF InUse, Listed, Leaving
  <2>5. \A q \in InUse' : running'[q]
    BY <1>1, <1>3, <2>1, <2>4 DEF InUse
  <2> QED
    BY <1>3, <2>1, <2>2, <2>3, <2>4, <2>5 DEF ParentStrengthened
<1>11. CASE RemoveProducer \/ RemoveConsumer
  <2> DEFINE last == IF RemoveProducer THEN Last(producerMas) ELSE Last(consumerMas)
  <2>1. /\ parentPc = "menu" /\ parentPc' = "wait"
        /\ sigterm' = IF Alive(last) THEN sigterm \cup {last} ELSE sigterm
        /\ UNCHANGED <<pc, running, sigint>>
    BY <1>11 DEF RemoveProducer, RemoveConsumer, Kill, AtMenu
  <2>2. /\ Listed = Listed' \cup {last} /\ last \notin Listed'
        /\ IsInjective(producerMas') /\ IsInjective(consumerMas')
    <3>1. CASE RemoveProducer
      <4>1. /\ producerMas # <<>> /\ producerMas' = Front(producerMas)
            /\ consumerMas' = consumerMas /\ last = Last(producerMas)
        BY <3>1 DEF RemoveProducer
      <4>2. /\ Range(producerMas) = Range(producerMas') \cup {last}
            /\ last \notin Range(producerMas') /\ IsInjective(producerMas')
        BY <1>1, <1>3, <4>1, FrontRange
      <4>3. last \notin Range(consumerMas)
        BY <1>1, <1>4, <4>2
      <4> QED
        BY <1>3, <4>1, <4>2, <4>3 DEF Listed
    <3>2. CASE ~RemoveProducer
      <4>1. /\ consumerMas # <<>> /\ consumerMas' = Front(consumerMas)
            /\ producerMas' = producerMas /\ last = Last(consumerMas)
        BY <1>11, <3>2 DEF RemoveConsumer
      <4>2. /\ Range(consumerMas) = Range(consumerMas') \cup {last}
            /\ last \notin Range(consumerMas') /\ IsInjective(consumerMas')
        BY <1>1, <1>3, <4>1, FrontRange
      <4>3. last \notin Range(producerMas)
        BY <1>1, <1>4, <4>2
      <4> QED
        BY <1>3, <4>1, <4>2, <4>3 DEF Listed
    <3> QED
      BY <3>1, <3>2
  <2> HIDE DEF last
  <2>3. /\ last \in InUse /\ InUse' = InUse /\ Leaving' \subseteq {last} /\ pc[last] # "exited"
        /\ last \in Procs
    BY <1>3, <2>1, <2>2 DEF InUse, Leaving
  <2>4. InUse' \ Listed' = {last} /\ Listed' \subseteq InUse'
    BY <1>3, <2>1, <2>2, <2>3
  <2>5. Leaving' \subseteq InUse' \ Listed' /\ pc'[last] # "exited"
    BY <2>1, <2>3, <2>4
  <2> QED
    BY <1>3, <2>1, <2>2, <2>3, <2>4, <2>5 DEF ParentStrengthened
<1>12. CASE ForkFails \/ CtrlC \/ ParentSignalHandler \/ ParentExit
  BY <1>12 DEF ForkFails, CtrlC, ParentSignalHandler, ParentExit
<1> QED
  BY <1>5, <1>6, <1>7, <1>8, <1>9, <1>10, <1>11, <1>12, WorkOrParent DEF ParentStep

\* The parent's arrays name exactly the children it has not reaped until a Ctrl+C,
\* and the semaphores' names exist as long as the parent does.
THEOREM ParentIsRight == Spec => []ParentInvariant
<1> DEFINE Strong == TypeOK /\ ParentStrengthened /\ NamesOutliveParent
<1>1. Init => Strong
  <2> SUFFICES ASSUME Init PROVE ParentStrengthened /\ NamesOutliveParent
    BY TypeInit
  <2>1. InUse = {} /\ Leaving = {}
    BY DEF Init, InUse, Leaving
  <2>2. Listed = {} /\ IsInjective(producerMas) /\ IsInjective(consumerMas)
    BY DEF Init, Listed, Range, IsInjective
  <2> QED
    BY <2>1, <2>2 DEF Init, ParentStrengthened, NamesOutliveParent
<1>2. Strong /\ [Next]_vars => Strong'
  <2> SUFFICES ASSUME Strong, [Next]_vars PROVE NamesOutliveParent'
    BY TypeStep, ParentInvariantStep
  <2>1. CASE AtWork
    BY <2>1 DEF AtWork, NamesOutliveParent, parentVars
  <2>2. ASSUME NEW p \in Procs, LeaveMain(p) PROVE NamesOutliveParent'
    BY <2>2 DEF LeaveMain, EndOfChild, parentVars, NamesOutliveParent
  <2>3. ASSUME NEW p \in Procs, Die(p) \/ SignalHandler(p) \/ Reap(p) PROVE NamesOutliveParent'
    BY <2>3 DEF Die, EndOfChild, SignalHandler, Reap, parentVars, childVars, NamesOutliveParent
  <2>4. CASE \/ \E p \in Producers : LaunchProducer(p)
             \/ \E p \in Consumers : LaunchConsumer(p)
    BY <2>4 DEF LaunchProducer, LaunchConsumer, Fork, NamesOutliveParent
  <2>5. CASE ForkFails \/ ParentExit
    BY <2>5 DEF ForkFails, ParentExit, NamesOutliveParent
  <2>6. CASE RemoveProducer \/ RemoveConsumer
    BY <2>6 DEF RemoveProducer, RemoveConsumer, Kill, AtMenu, NamesOutliveParent
  <2>7. CASE CtrlC \/ ParentSignalHandler
    BY <2>7 DEF CtrlC, ParentSignalHandler, childVars, NamesOutliveParent
  <2> QED
    BY <2>1, <2>2, <2>3, <2>4, <2>5, <2>6, <2>7, WorkOrParent DEF ParentStep
<1>3. Strong => ParentInvariant
  BY DEF ParentStrengthened, ParentInvariant, ChildrenAreTracked, Listed, InUse, Range
<1> QED
  BY <1>1, <1>2, <1>3, PTL DEF Spec

-----------------------------------------------------------------------------
(* The ring implements the bounded FIFO. *)

LEMMA ContentsFacts ==
  QueueInvariant =>
    /\ Unread \in 0..BUFFER_SIZE
    /\ Contents \in Seq(Messages)
    /\ Len(Contents) = Unread
    /\ \A i \in 1..Unread : Contents[i] = sent[Len(received) + i]
<1> SUFFICES ASSUME QueueInvariant
             PROVE  /\ Unread \in 0..BUFFER_SIZE
                    /\ Contents \in Seq(Messages)
                    /\ Len(Contents) = Unread
                    /\ \A i \in 1..Unread : Contents[i] = sent[Len(received) + i]
  OBVIOUS
<1>1. Unread \in 0..BUFFER_SIZE /\ Unread \in Nat
  BY Room, ProcQueueAssumption DEF ProcQueueAssumption, QueueInvariant
<1>2. ASSUME NEW i \in 1..Unread
      PROVE  /\ buffer[SlotOf(i)].data = sent[Len(received) + i]
             /\ sent[Len(received) + i] \in Messages
  <2>1. Len(received) + i \in 1..Len(sent)
    BY <1>1 DEF QueueInvariant, TypeOK, Unread
  <2>2. buffer[SlotOf(i)] = [hdr |-> sent[Len(received) + i], data |-> sent[Len(received) + i]]
    BY DEF QueueInvariant, Ring
  <2> QED
    BY <2>1, <2>2 DEF QueueInvariant, Ring
<1>3. Contents \in Seq(Messages) /\ Len(Contents) = Unread
  BY <1>1, <1>2 DEF Contents
<1> QED
  BY <1>1, <1>2, <1>3 DEF Contents

LEMMA FifoInit == Init => Fifo!Init
<1> SUFFICES ASSUME Init PROVE Fifo!Init
  OBVIOUS
<1>1. Unread = 0 /\ sent = <<>> /\ received = <<>>
  BY DEF Init, Unread
<1>2. Contents = <<>>
  BY <1>1 DEF Contents
<1> QED
  BY <1>1, <1>2 DEF Fifo!Init

LEMMA FifoStep == QueueInvariant /\ QueueInvariant' /\ [Next]_vars => [Fifo!Next]_(Fifo!vars)
<1> SUFFICES ASSUME QueueInvariant, QueueInvariant', [Next]_vars
             PROVE  [Fifo!Next]_(Fifo!vars)
  OBVIOUS
<1>1. /\ Unread \in 0..BUFFER_SIZE /\ BUFFER_SIZE \in Nat
      /\ Contents \in Seq(Messages) /\ Len(Contents) = Unread
      /\ \A i \in 1..Unread : Contents[i] = sent[Len(received) + i]
  BY ContentsFacts, ProcQueueAssumption DEF ProcQueueAssumption
<1>2. /\ Contents' \in Seq(Messages) /\ Len(Contents') = Unread'
      /\ \A i \in 1..Unread' : Contents'[i] = sent'[Len(received') + i]
  <2>1. (QueueInvariant =>
           /\ Contents \in Seq(Messages)
           /\ Len(Contents) = Unread
           /\ \A i \in 1..Unread : Contents[i] = sent[Len(received) + i])'
    BY ContentsFacts, PTL
  <2> QED
    BY <2>1
<1>3. ASSUME UNCHANGED <<sent, received>>
      PROVE  UNCHANGED Fifo!vars
  <2>1. Unread' = Unread
    BY <1>3 DEF Unread
  <2>2. Contents' = Contents
    BY <1>1, <1>2, <1>3, <2>1, SeqEqual
  <2> QED
    BY <1>3, <2>2 DEF Fifo!vars
<1>4. ASSUME NEW p \in Producers, AdvanceHead(p)
      PROVE  Fifo!Next
  <2> DEFINE m == message[p].data
  <2>1. pc[p] = "advanceHead" /\ p \in Procs
    BY <1>4 DEF AdvanceHead, Procs
  <2>2. m \in Messages /\ Unread < BUFFER_SIZE
    BY <1>1, <2>1, HeadIsFree DEF QueueInvariant, InHand, ProducerHand
  <2>3. /\ sent' = Append(sent, m) /\ Len(sent') = Len(sent) + 1 /\ received' = received
        /\ Unread' = Unread + 1 /\ sent'[Len(sent) + 1] = m
        /\ \A i \in 1..Len(sent) : sent'[i] = sent[i]
        /\ Len(sent) = Len(received) + Unread /\ Len(received) \in Nat
    <3>1. m \in 0..MaxMessages /\ sent \in Seq(0..MaxMessages) /\ received \in Seq(0..MaxMessages)
      BY <2>1 DEF QueueInvariant, TypeOK, Copies
    <3>2. sent' = Append(sent, m) /\ received' = received
      BY <1>4 DEF AdvanceHead
    <3> QED
      BY <3>1, <3>2, AppendProperties DEF Unread
  <2>4. /\ Append(Contents, m) \in Seq(Messages)
        /\ Len(Append(Contents, m)) = Unread + 1
        /\ Append(Contents, m)[Unread + 1] = m
        /\ \A i \in 1..Unread : Append(Contents, m)[i] = Contents[i]
    BY <1>1, <2>2, AppendProperties
  <2>5. ASSUME NEW i \in 1..Unread + 1
        PROVE  Contents'[i] = Append(Contents, m)[i]
    <3>1. Contents'[i] = sent'[Len(received) + i]
      BY <1>2, <2>3
    <3>2. CASE i = Unread + 1
      BY <1>1, <2>3, <2>4, <3>1, <3>2
    <3>3. CASE i # Unread + 1
      <4>1. i \in 1..Unread /\ Len(received) + i \in 1..Len(sent)
        BY <1>1, <2>3, <3>3
      <4> QED
        BY <1>1, <2>3, <2>4, <3>1, <4>1
    <3> QED
      BY <3>2, <3>3
  <2>6. Contents' = Append(Contents, m)
    BY <1>2, <2>3, <2>4, <2>5, SeqEqual
  <2>7. Fifo!Put(m)
    BY <1>1, <2>2, <2>3, <2>6 DEF Fifo!Put
  <2> QED
    BY <2>2, <2>7 DEF Fifo!Next
<1>5. ASSUME NEW p \in Consumers, AdvanceTail(p)
      PROVE  Fifo!Next
  <2> DEFINE m == message[p].data
  <2>1. pc[p] = "advanceTail" /\ p \in Procs
    BY <1>5 DEF AdvanceTail, Procs
  <2>2. Unread \in 1..BUFFER_SIZE /\ m = sent[Len(received) + 1]
    BY <2>1, TailIsOldest DEF QueueInvariant, InHand, ConsumerHand
  <2>3. /\ received' = Append(received, m) /\ sent' = sent
        /\ Len(received') = Len(received) + 1 /\ Unread' = Unread - 1
        /\ Len(received) \in Nat
    BY <1>5, <2>1 DEF AdvanceTail, Unread, QueueInvariant, TypeOK, Copies
  <2>4. Contents # <<>> /\ Head(Contents) = m
    BY <1>1, <2>2
  <2>5. /\ Tail(Contents) \in Seq(Messages)
        /\ Len(Tail(Contents)) = Unread - 1
        /\ \A i \in 1..Unread - 1 : Tail(Contents)[i] = Contents[i + 1]
    BY <1>1, <2>2, <2>4, HeadTailProperties
  <2>6. ASSUME NEW i \in 1..Unread - 1
        PROVE  Contents'[i] = Tail(Contents)[i]
    <3>1. Contents'[i] = sent[Len(received) + 1 + i]
      BY <1>2, <2>3
    <3>2. Contents[i + 1] = sent[Len(received) + (i + 1)]
      BY <1>1, <2>2
    <3> QED
      BY <2>3, <2>5, <3>1, <3>2
  <2>7. Contents' = Tail(Contents)
    BY <1>2, <2>3, <2>5, <2>6, SeqEqual
  <2>8. Fifo!Get
    BY <2>3, <2>4, <2>7 DEF Fifo!Get
  <2> QED
    BY <2>8 DEF Fifo!Next
<1>6. \/ \E p \in Producers : AdvanceHead(p)
      \/ \E p \in Consumers : AdvanceTail(p)
      \/ UNCHANGED <<sent, received>>
  <2>1. QueueStep \/ Elsewhere
    BY StepCases DEF QueueInvariant
  <2> QED
    BY <2>1 DEF QueueStep, Elsewhere, BuildMessage, WaitEmpty, WriteHeader, CopyIn, PostFill,
                WaitFill, ReadHeader, CopyOut, PostEmpty, WaitMutex, PostMutex, queueVars
<1> QED
  BY <1>3, <1>4, <1>5, <1>6

\* putMessage and getMessage, interleaved by any number of processes and killed
\* anywhere, are a bounded FIFO.
THEOREM RingImplementsFifo == Spec => ImplementsFifo
  BY FifoInit, FifoStep, QueueIsInvariant, PTL DEF Spec, ImplementsFifo, Fifo!Spec
=============================================================================
