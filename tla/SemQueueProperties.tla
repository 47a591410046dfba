------------------------- MODULE SemQueueProperties -------------------------
(***************************************************************************)
(* What lab5-1.c must guarantee, and what its cancellations, its early     *)
(* return and its resize under the mutex take away.                        *)
(***************************************************************************)
EXTENDS SemQueue

TypeOK ==
  /\ head \in Nat /\ tail \in Nat /\ bufferSize \in Sizes
  /\ buffer \in UNION {[0..n - 1 -> 0..MaxMessages] : n \in Sizes}
  /\ fillCount \in Nat /\ emptyCount \in Nat
  /\ mutex \in Threads \cup {Main, Free}
  /\ pc \in [Threads -> PCs]
  /\ message \in [Threads -> 0..MaxMessages]
  /\ running \in [Threads -> BOOLEAN] /\ cancelled \in [Threads -> BOOLEAN]
  /\ producerMas \in Seq(Producers) /\ consumerMas \in Seq(Consumers)
  /\ mainPc \in {"menu", "cancel", "join", "sizeLock", "sizeInput", "adjust", "exited"}
  /\ target \in Threads \cup {None}
  /\ valueOfFill \in Nat /\ left \in Int
  /\ handler \in {"off", "stop", "cancel", "join"} /\ todo \in Seq(Threads)
  /\ flagForExit \in BOOLEAN /\ stdoutHeld \in BOOLEAN
  /\ made \in 0..MaxMessages
  /\ sent \in Seq(0..MaxMessages) /\ received \in Seq(0..MaxMessages)
  /\ lost \subseteq Threads /\ resized \in BOOLEAN

Unread == Len(sent) - Len(received)

At(role, labels) == {t \in role : pc[t] \in labels}

(***************************************************************************)
(* The tokens account for every message: what fillCount lacks is in the    *)
(* hands of a consumer, was carried off by one that was told to stop, or   *)
(* is still to be posted by a producer.                                    *)
(***************************************************************************)
FillTokens ==
  fillCount + Cardinality(At(Consumers, {"check", "lock", "copy", "advance"}))
            + Cardinality(lost \cap Consumers)
    = Unread - Cardinality(At(Producers, {"post"}))

(***************************************************************************)
(* The same for the free slots, while main adds or takes tokens one at a   *)
(* time after the buffer has got its new size.                             *)
(***************************************************************************)
EmptyTokens ==
  emptyCount + Cardinality(At(Producers, {"check", "lock", "copy", "advance"}))
             + Cardinality(lost \cap Producers)
             + Cardinality(At(Consumers, {"post"}))
             + left
    = bufferSize - Unread

\* A thread that has ended owns the mutex only if it is a cancelled consumer.
DeadOwnerIsConsumer ==
  mutex \in Threads /\ ~Alive(mutex) => mutex \in Consumers /\ cancelled[mutex]

(***************************************************************************)
(* Threads that are cancelled and a buffer that is resized never make or   *)
(* lose a token, except the ones a stopped thread carries off; and the     *)
(* mutex dies with nobody but a consumer that is cancelled in the printf   *)
(* of getMessage.                                                          *)
(***************************************************************************)
TokenInvariant == TypeOK /\ FillTokens /\ EmptyTokens /\ DeadOwnerIsConsumer

-----------------------------------------------------------------------------
SlotOf(i) == (tail + i - 1) % bufferSize

\* The unread messages, oldest first, as they lie in the ring.
Contents == [i \in 1..Unread |-> buffer[SlotOf(i)]]

Fifo == INSTANCE BoundedFifo WITH
          Capacity <- InitialSize, Message <- Messages, queue <- Contents

(***************************************************************************)
(* As long as no new size is accepted, put and get are a bounded FIFO,     *)
(* wherever threads are cancelled.                                         *)
(***************************************************************************)
FifoUntilResize == Fifo!Init /\ [][Fifo!Next \/ resized']_<<Contents, sent, received>>

-----------------------------------------------------------------------------
\* No Ctrl+C, no consumer removed and no new size asked for, for these leave the
\* mutex locked.
Uninterrupted == [](handler = "off" /\ target \notin Consumers /\ mutex # Main)

(***************************************************************************)
(* With a consumer at work every message put is got in the end, whichever  *)
(* producers are cancelled.                                                *)
(***************************************************************************)
SentIsReceived ==
  Uninterrupted =>
    \A n \in 1..MaxMessages :
      (Len(sent) >= n /\ \E c \in Consumers : Alive(c)) ~>
        (Len(received) >= n \/ mainPc = "exited")

(***************************************************************************)
(* A removal comes back to the menu: a cancelled thread reaches a          *)
(* cancellation point or sees running cleared, wherever it was.            *)
(***************************************************************************)
RemoveReturns == Uninterrupted => (mainPc = "join" ~> mainPc # "join")

(***************************************************************************)
(* The menu and LAUNCH.md: 'Ctrl+C' - exit program.  The handler comes to  *)
(* its end and main leaves.                                                *)
(***************************************************************************)
CtrlCExits == handler # "off" ~> mainPc = "exited"

\* Where Ctrl+C finds main waiting for a command, in scanf, with no output under way.
OnlyAtScanf == mainPc \in {"menu", "exited"} /\ ~stdoutHeld

(***************************************************************************)
(* It does, wherever the threads are, if Ctrl+C finds main in the menu's   *)
(* scanf and no two consumers have been launched: the handler joins the    *)
(* consumers last, and nobody is left to wait for the mutex one of them    *)
(* may die with.  With a second consumer, within a printf of main's or     *)
(* with another command under way it may wait for ever.                    *)
(***************************************************************************)
CtrlCAtScanfExits ==
  [](OnlyAtScanf /\ Cardinality({c \in Consumers : pc[c] # "none"}) <= 1) => CtrlCExits

(***************************************************************************)
(* A new size that was accepted is installed and the mutex given back.     *)
(***************************************************************************)
ResizeEnds == mainPc = "adjust" ~> mainPc # "adjust"

=============================================================================
