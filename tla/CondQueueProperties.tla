------------------------ MODULE CondQueueProperties ------------------------
(***************************************************************************)
(* What lab5-2.c must guarantee while threads are launched, removed and    *)
(* interrupted, and what becomes of it when the buffer is resized.         *)
(***************************************************************************)
EXTENDS CondQueue

TypeOK ==
  /\ head \in Nat /\ tail \in Nat
  /\ buffer \in UNION {[0..n - 1 -> 0..MaxMessages] : n \in Sizes}
  /\ bufferSize \in Sizes /\ fillCount \in Nat /\ emptyCount \in Int
  /\ mutex \in Threads \cup {Free}
  /\ pc \in [Threads -> PCs]
  /\ message \in [Threads -> 0..MaxMessages]
  /\ flag \in [Threads -> BOOLEAN] /\ running \in [Threads -> BOOLEAN]
  /\ producerMas \in Seq(Producers) /\ consumerMas \in Seq(Consumers)
  /\ mainPc \in {"menu", "wake", "join", "resize", "fixHead", "exited"}
  /\ target \in Threads \cup {None} /\ temp \in Sizes
  /\ handler \in {"off", "stop", "wake", "join"} /\ todo \in Seq(Threads)
  /\ flagForExit \in BOOLEAN /\ pressed \in 0..MaxCtrlC
  /\ spurious \in 0..MaxSpurious /\ made \in 0..MaxMessages
  /\ sent \in Seq(0..MaxMessages) /\ received \in Seq(0..MaxMessages)

(***************************************************************************)
(* No thread ends with the mutex: told to stop while it sleeps or while it *)
(* works, with a message or without, it gives the mutex back first.        *)
(***************************************************************************)
OwnerIsAlive == mutex # Free /\ mainPc # "exited" => Alive(mutex)

(***************************************************************************)
(* The mutex is free or its owner comes back to give it back, and every    *)
(* variable is in its range, also with a refused size in bufferSize.       *)
(***************************************************************************)
MutexInvariant == TypeOK /\ OwnerIsAlive

\* No thread is joined twice, by the handler or by a removal it interrupts.
JoinsOnce ==
  LET pending == IF handler = "off" THEN {} ELSE {todo[i] : i \in DOMAIN todo}
      joining == IF mainPc \in {"wake", "join"} THEN {target} ELSE {}
  IN  /\ pending \cap joining = {}
      /\ \A t \in pending \cup joining : pc[t] \notin {"none", "joined"}

\* The buffer is freed and the mutex destroyed when no thread is left.
ExitIsClean == mainPc = "exited" => \A t \in Threads : ~Alive(t)

(***************************************************************************)
(* Every thread is joined exactly once before main frees the buffer and    *)
(* destroys the mutex, although the handler joins everything in the arrays *)
(* and may interrupt a removal that is joining the last thread of one.     *)
(***************************************************************************)
JoinInvariant == JoinsOnce /\ ExitIsClean

-----------------------------------------------------------------------------
Unread == Len(sent) - Len(received)

SlotOf(i) == (tail + i - 1) % bufferSize

\* The unread messages, oldest first, as they lie in the ring.
Contents == [i \in 1..Unread |-> buffer[SlotOf(i)]]

Fifo == INSTANCE BoundedFifo WITH
          Capacity <- InitialSize, Message <- Messages, queue <- Contents

(***************************************************************************)
(* As long as the buffer is not resized, put and get are a bounded FIFO,   *)
(* whoever is removed or interrupted in between.                           *)
(***************************************************************************)
ImplementsFifo == Fifo!Spec

(***************************************************************************)
(* What is received is what was sent, in the order it was sent: the menu   *)
(* and LAUNCH.md offer 'u' as a way to change the size of the buffer, and  *)
(* updateSizeOfBuffer moves head so that the messages survive it.          *)
(***************************************************************************)
ReceivedInOrder ==
  /\ Len(received) <= Len(sent)
  /\ \A i \in 1..Len(received) : received[i] = sent[i]

-----------------------------------------------------------------------------
\* The user stops giving commands at some time.
UserRests == <>[][~User]_vars

(***************************************************************************)
(* No wake-up is lost: once the user has stopped launching and removing,   *)
(* a producer does not sleep on while there is room, nor a consumer while  *)
(* there is a message, although a put signals one sleeper only, and that   *)
(* one may be on its way out.                                              *)
(***************************************************************************)
NoLostWakeup ==
  UserRests =>
    \A t \in Threads :
      (pc[t] = "asleep" /\ ~MustWait(t)) ~> ~(pc[t] = "asleep" /\ ~MustWait(t))

(***************************************************************************)
(* With a consumer at work that nobody removes every message put is got in *)
(* the end, whichever producers are removed, unless the process ends       *)
(* because a thread could not be created.                                  *)
(***************************************************************************)
SentIsReceived ==
  UserRests /\ [](target \notin Consumers) =>
    \A n \in 1..MaxMessages :
      (Len(sent) >= n /\ \E c \in Consumers : Alive(c)) ~>
        (Len(received) >= n \/ mainPc = "exited")

(***************************************************************************)
(* LAUNCH.md: the program goes on working until Ctrl+C, so 'd' and 'r'     *)
(* come back to the menu.                                                  *)
(***************************************************************************)
RemoveReturns == mainPc = "join" ~> mainPc # "join"

(***************************************************************************)
(* The one thing that can keep a removal from coming back is the gap in    *)
(* which the flag is cleared without the mutex: the thread has found it    *)
(* set, has not begun to wait, and misses the broadcast.  In every other   *)
(* state, with or without the mutex, awake or asleep, it comes to its end. *)
(***************************************************************************)
RemoveReturnsOutsideGap ==
  [](mainPc = "join" => pc[target] # "sleep") => (mainPc = "join" ~> mainPc # "join")

=============================================================================
