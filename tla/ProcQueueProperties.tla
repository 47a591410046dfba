------------------------ MODULE ProcQueueProperties ------------------------
(***************************************************************************)
(* What Lab4 must guarantee, whichever process is killed and whenever.     *)
(***************************************************************************)
EXTENDS ProcQueue

TypeOK ==
  /\ head \in Slots /\ tail \in Slots
  /\ buffer \in [Slots -> Copies]
  /\ fillCount \in Nat /\ emptyCount \in Nat /\ mutex \in Nat
  /\ linked \in BOOLEAN
  /\ pc \in [Procs -> PCs]
  /\ message \in [Procs -> Copies]
  /\ running \in [Procs -> BOOLEAN]
  /\ sigterm \in SUBSET Procs /\ sigint \in SUBSET Procs
  /\ producerMas \in Seq(Producers) /\ consumerMas \in Seq(Consumers)
  /\ parentPc \in {"menu", "wait", "exited"}
  /\ parentRunning \in BOOLEAN /\ parentSigint \in BOOLEAN
  /\ made \in 0..MaxMessages
  /\ sent \in Seq(0..MaxMessages) /\ received \in Seq(0..MaxMessages)

InCritical(p) == pc[p] \in Critical

(***************************************************************************)
(* The mutex semaphore keeps the queue to one process at a time, even      *)
(* after a process was killed inside (then nobody enters any more).        *)
(***************************************************************************)
MutualExclusion ==
  \A p \in Procs : InCritical(p) =>
    mutex = 0 /\ \A q \in Procs : InCritical(q) => q = p

\* Messages put and not yet got: addedCount - extractedCount.
Unread == Len(sent) - Len(received)

\* The i-th slot from slot t on, and the one that holds the i-th unread message.
SlotFrom(t, i) == IF t + i - 1 < BUFFER_SIZE THEN t + i - 1 ELSE t + i - 1 - BUFFER_SIZE
SlotOf(i) == SlotFrom(tail, i)

HoldingEmpty == {p \in Producers : pc[p] \in {"waitMutex", "write", "copyIn", "advanceHead"}}
HoldingFill == {p \in Consumers : pc[p] \in {"waitMutex", "read", "copyOut", "advanceTail"}}
PostingFill == {p \in Producers : pc[p] = "postFill"}
PostingEmpty == {p \in Consumers : pc[p] = "postEmpty"}

(***************************************************************************)
(* The two counting semaphores never promise more than the ring has: every *)
(* fill token, free or held, stands for an unread message of its own and   *)
(* every empty token for a free slot.  A kill may lose tokens, never make  *)
(* them, so nobody overwrites an unread message or reads a slot twice.     *)
(***************************************************************************)
TokenLedger ==
  /\ fillCount + Cardinality(HoldingFill) + Cardinality(PostingFill) <= Unread
  /\ emptyCount + Cardinality(HoldingEmpty) + Cardinality(PostingEmpty)
       <= BUFFER_SIZE - Unread

(***************************************************************************)
(* The unread messages lie whole and in order in the slots from tail up to *)
(* head, header and data of one message in one slot, and what was received *)
(* is what was sent, in the same order.  putMessage and getMessage advance *)
(* head and tail independently, and a producer may die half way through a  *)
(* slot: such a slot is at head and never among the unread ones.           *)
(***************************************************************************)
Ring ==
  /\ head = SlotOf(Unread + 1)
  /\ \A i \in 1..Unread :
       LET m == sent[Len(received) + i]
       IN  buffer[SlotOf(i)] = [hdr |-> m, data |-> m]
  /\ \A i \in 1..Len(sent) : sent[i] \in Messages
  /\ \A i \in 1..Len(received) : received[i] = sent[i]

\* What a producer has still to put, or has put into the slot at head so far.
ProducerHand(p) ==
  /\ pc[p] \in {"waitEmpty", "waitMutex", "write", "copyIn", "advanceHead"} =>
       message[p].hdr = message[p].data /\ message[p].data \in Messages
  /\ pc[p] \in {"copyIn", "advanceHead"} => buffer[head].hdr = message[p].hdr
  /\ pc[p] = "advanceHead" => buffer[head].data = message[p].data

\* What a consumer has taken out of the slot at tail so far, or has got.
ConsumerHand(c) ==
  /\ pc[c] \in {"copyOut", "advanceTail"} => message[c].hdr = buffer[tail].hdr
  /\ pc[c] = "advanceTail" => message[c].data = buffer[tail].data
  /\ pc[c] \in {"postEmpty", "postMutex", "check"} =>
       message[c].hdr = message[c].data /\ message[c].data \in Messages

InHand == (\A p \in Producers : ProducerHand(p)) /\ (\A c \in Consumers : ConsumerHand(c))

\* The inductive invariant of the queue.
QueueInvariant ==
  TypeOK /\ mutex <= 1 /\ MutualExclusion /\ TokenLedger /\ Ring /\ InHand

(***************************************************************************)
(* consumerFunc never prints "Error: Hash mismatch!": the header and the   *)
(* data a consumer took belong together, and to the message whose turn it  *)
(* was, although both are copied in steps and a producer may die between.  *)
(***************************************************************************)
NoHashMismatch ==
  \A c \in Consumers : pc[c] = "check" =>
    message[c].hdr = message[c].data /\ message[c].data \in Messages

\* The parent's arrays list exactly the children it has not reaped.
ChildrenAreTracked ==
  parentPc = "menu" /\ parentRunning /\ ~parentSigint =>
    {p \in Procs : pc[p] # "none"} =
      {producerMas[i] : i \in DOMAIN producerMas} \cup {consumerMas[i] : i \in DOMAIN consumerMas}

\* A child that leaves main after a Ctrl+C does not unlink the names under the parent.
NamesOutliveParent == ~linked => parentPc = "exited"

(***************************************************************************)
(* What the parent keeps for its children is true as long as it needs it:  *)
(* wait takes any child, yet until a Ctrl+C no array entry names a process *)
(* id that is free (and could be killed as somebody else's); and the names *)
(* of the semaphores exist as long as the parent does.                     *)
(***************************************************************************)
ParentInvariant == ChildrenAreTracked /\ NamesOutliveParent

\* The unread messages, oldest first, as they lie in the ring.
Contents == [i \in 1..Unread |-> buffer[SlotOf(i)].data]

Fifo == INSTANCE BoundedFifo WITH
          Capacity <- BUFFER_SIZE, Message <- Messages, queue <- Contents

(***************************************************************************)
(* The ring buffer under its semaphores is a bounded FIFO: messages come   *)
(* out once each, in the order they went in, never more than BUFFER_SIZE   *)
(* at a time.                                                              *)
(***************************************************************************)
ImplementsFifo == Fifo!Spec

-----------------------------------------------------------------------------
(***************************************************************************)
(* 'd' and 'r' come back to the menu: the wait of removeProducer and       *)
(* removeConsumer ends, wherever the killed child was.                     *)
(***************************************************************************)
RemoveReturns == parentPc = "wait" ~> parentPc # "wait"

NobodyIsRemoved == [](parentPc # "wait" /\ ~parentSigint)

(***************************************************************************)
(* While nobody is removed, every message put into the queue is got by     *)
(* some consumer, once there is one.                                       *)
(***************************************************************************)
SentIsReceived ==
  NobodyIsRemoved =>
    \A n \in 1..MaxMessages :
      (Len(sent) >= n /\ \E c \in Consumers : Alive(c)) ~> Len(received) >= n

(***************************************************************************)
(* LAUNCH.md says that the program goes on working until Ctrl+C: whoever   *)
(* waits for the mutex gets it, or is removed.  This needs every owner of  *)
(* the mutex to live until it has posted it.                               *)
(***************************************************************************)
MutexWaitEnds == \A p \in Procs : pc[p] = "waitMutex" ~> pc[p] # "waitMutex"

(***************************************************************************)
(* The menu and LAUNCH.md say that Ctrl+C is the way out of the program:   *)
(* after it every child must come to its end.                              *)
(***************************************************************************)
CtrlCEndsChildren == parentSigint ~> \A p \in Procs : ~Alive(p)

(***************************************************************************)
(* What Ctrl+C does achieve, also on top of a removal: main comes to its   *)
(* end, and a child that stays behind stands before a semaphore that       *)
(* nobody posts any more, never half way through the ring.                 *)
(***************************************************************************)
CtrlCLeavesOnlyWaiters ==
  parentSigint ~>
    [](/\ parentPc = "exited"
       /\ \A p \in Procs : Alive(p) =>
            \/ pc[p] = "waitEmpty" /\ emptyCount = 0
            \/ pc[p] = "waitFill" /\ fillCount = 0
            \/ pc[p] = "waitMutex" /\ mutex = 0)

=============================================================================
