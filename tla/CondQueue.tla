----------------------------- MODULE CondQueue -----------------------------
(***************************************************************************)
(* Lab5/lab5-2.c: producer and consumer threads that exchange messages     *)
(* through a ring buffer guarded by one mutex and two condition variables. *)
(* The main thread launches and joins them, resizes the buffer without     *)
(* taking the mutex, and runs the SIGINT handler.                          *)
(***************************************************************************)
EXTENDS Integers, Sequences, FiniteSets, SequencesExt

CONSTANTS
  Producers, Consumers,   \* the threads of each role that may be created
  InitialSize,            \* bufferSize at the start
  NewSizes,               \* the sizes the user may enter after 'u'
  MaxMessages,            \* bound: how many messages the producers build
  MaxCtrlC,               \* bound: how often Ctrl+C is pressed
  MaxSpurious,            \* bound: how often pthread_cond_wait returns for no reason
  Commands                \* what the user does at the menu

Free == "free"            \* what stands for no thread, at the mutex and at a join
None == "none"

ASSUME CondQueueAssumption ==
  /\ IsFiniteSet(Producers) /\ IsFiniteSet(Consumers)
  /\ Producers \cap Consumers = {}
  /\ {Free, None} \cap (Producers \cup Consumers) = {}
  /\ InitialSize \in Nat \ {0}
  /\ NewSizes \subseteq Nat \ {0}
  /\ MaxMessages \in Nat /\ MaxCtrlC \in Nat /\ MaxSpurious \in Nat
  /\ Commands \subseteq {"p", "d", "c", "r", "u", "^C"}

VARIABLES
  head, tail, buffer, bufferSize, fillCount, emptyCount,
  mutex,                  \* the thread that owns the mutex, or Free
  pc, message, flag,      \* per thread: where it is, its message, its flag
  running,                \* per thread: the cell its argument points to
  producerMas, consumerMas,
  mainPc, target, temp,   \* main: where it is, whom it joins, the old size
  handler, todo,          \* the SIGINT handler: where it is, whom it still joins
  flagForExit, pressed,
  spurious,               \* how often a wait has returned for no reason
  made, sent, received    \* history: messages built, put and got

ringVars == <<head, tail, buffer, bufferSize, fillCount, emptyCount>>
historyVars == <<spurious, made, sent, received>>
localVars == <<message, flag, running>>
mainVars == <<producerMas, consumerMas, mainPc, target, temp>>
handlerVars == <<handler, todo, flagForExit, pressed>>
vars == <<ringVars, mutex, pc, localVars, mainVars, handlerVars, historyVars>>

Threads == Producers \cup Consumers
Messages == 1..MaxMessages
Sizes == {InitialSize} \cup NewSizes
Garbage == 0              \* what a slot holds that was never written

\* "asleep": in the wait set of the role's condition variable.
PCs == {"none", "loop", "lock", "test", "sleep", "asleep", "relock", "decide",
        "copy", "advance", "signal", "unlock", "done", "joined"}
Alive(t) == pc[t] \notin {"none", "done", "joined"}

Init ==
  /\ head = 0 /\ tail = 0
  /\ buffer = [s \in 0..InitialSize - 1 |-> Garbage]
  /\ bufferSize = InitialSize /\ fillCount = 0 /\ emptyCount = InitialSize
  /\ mutex = Free
  /\ pc = [t \in Threads |-> "none"]
  /\ message = [t \in Threads |-> Garbage]
  /\ flag = [t \in Threads |-> FALSE]
  /\ running = [t \in Threads |-> FALSE]
  /\ producerMas = <<>> /\ consumerMas = <<>>
  /\ mainPc = "menu" /\ target = None /\ temp = InitialSize
  /\ handler = "off" /\ todo = <<>> /\ flagForExit = FALSE /\ pressed = 0
  /\ spurious = 0 /\ made = 0 /\ sent = <<>> /\ received = <<>>

Goto(t, label) == pc' = [pc EXCEPT ![t] = label]

\* pthread_cond_signal wakes one sleeper of the role, if there is one, and
\* pthread_cond_broadcast all of them; the caller t goes on at label.
SignalOne(role, t, label) ==
  LET sleepers == {s \in role : pc[s] = "asleep"}
  IN  IF sleepers = {} THEN Goto(t, label)
      ELSE \E s \in sleepers : pc' = [pc EXCEPT ![s] = "relock", ![t] = label]

Broadcast(role) ==
  pc' = [t \in Threads |-> IF t \in role /\ pc[t] = "asleep" THEN "relock" ELSE pc[t]]

RoleOf(t) == IF t \in Producers THEN Producers ELSE Consumers

-----------------------------------------------------------------------------
(* The threads. *)

\* while (*running): the thread leaves, or builds a message, or goes to get one.
Loop(t) ==
  /\ pc[t] = "loop"
  /\ IF ~running[t]
     THEN Goto(t, "done") /\ UNCHANGED <<made, message, flag>>
     ELSE /\ t \in Producers => made < MaxMessages
          /\ made' = IF t \in Producers THEN made + 1 ELSE made
          /\ message' = [message EXCEPT ![t] = IF t \in Producers THEN made + 1 ELSE Garbage]
          /\ flag' = [flag EXCEPT ![t] = FALSE]
          /\ Goto(t, "lock")
  /\ UNCHANGED <<ringVars, mutex, running, mainVars, handlerVars, spurious, sent, received>>

MustWait(t) == IF t \in Producers THEN fillCount >= bufferSize ELSE fillCount <= 0

\* Faulty variant: a thread that was woken up does not test the condition again.
LockWithoutRetest(t) ==
  /\ pc[t] \in {"lock", "relock"} /\ mutex = Free
  /\ mutex' = t
  /\ Goto(t, IF pc[t] = "relock" THEN "copy" ELSE "test")
  /\ flag' = [flag EXCEPT ![t] = (pc[t] = "relock")]
  /\ UNCHANGED <<ringVars, message, running, mainVars, handlerVars, historyVars>>

\* pthread_mutex_lock, and its counterpart inside pthread_cond_wait.
Lock(t) ==
  /\ pc[t] \in {"lock", "relock"} /\ mutex = Free
  /\ mutex' = t
  /\ Goto(t, "test")
  /\ UNCHANGED <<ringVars, localVars, mainVars, handlerVars, historyVars>>

\* The condition of the while around pthread_cond_wait.
Test(t) ==
  /\ pc[t] = "test"
  /\ Goto(t, IF running[t] /\ MustWait(t) THEN "sleep" ELSE "decide")
  /\ UNCHANGED <<ringVars, mutex, localVars, mainVars, handlerVars, historyVars>>

\* pthread_cond_wait gives the mutex back and joins the wait set in one step.
CondWait(t) ==
  /\ pc[t] = "sleep"
  /\ mutex' = Free
  /\ Goto(t, "asleep")
  /\ UNCHANGED <<ringVars, localVars, mainVars, handlerVars, historyVars>>

\* POSIX lets pthread_cond_wait return for no reason.
SpuriousWakeup(t) ==
  /\ pc[t] = "asleep" /\ spurious < MaxSpurious
  /\ spurious' = spurious + 1
  /\ Goto(t, "relock")
  /\ UNCHANGED <<ringVars, mutex, localVars, mainVars, handlerVars, made, sent, received>>

\* The if after the loop: a thread told to stop still uses the room there is.
Decide(t) ==
  /\ pc[t] = "decide"
  /\ flag' = [flag EXCEPT ![t] = ~MustWait(t)]
  /\ Goto(t, IF MustWait(t) THEN "unlock" ELSE "copy")
  /\ UNCHANGED <<ringVars, mutex, message, running, mainVars, handlerVars, historyVars>>

\* The counters and the slot.  A slot outside the buffer is undefined behaviour:
\* the model goes no further.
CopyIn(p) ==
  /\ pc[p] = "copy" /\ head \in DOMAIN buffer
  /\ fillCount' = fillCount + 1 /\ emptyCount' = emptyCount - 1
  /\ buffer' = [buffer EXCEPT ![head] = message[p]]
  /\ Goto(p, "advance")
  /\ UNCHANGED <<head, tail, bufferSize, mutex, localVars, mainVars, handlerVars, historyVars>>

CopyOut(c) ==
  /\ pc[c] = "copy" /\ tail \in DOMAIN buffer
  /\ fillCount' = fillCount - 1 /\ emptyCount' = emptyCount + 1
  /\ message' = [message EXCEPT ![c] = buffer[tail]]
  /\ Goto(c, "advance")
  /\ UNCHANGED <<head, tail, buffer, bufferSize, mutex, flag, running, mainVars, handlerVars,
                 historyVars>>

AdvanceHead(p) ==
  /\ pc[p] = "advance"
  /\ head' = (head + 1) % bufferSize
  /\ sent' = Append(sent, message[p])
  /\ Goto(p, "signal")
  /\ UNCHANGED <<tail, buffer, bufferSize, fillCount, emptyCount, mutex, localVars, mainVars,
                 handlerVars, spurious, made, received>>

AdvanceTail(c) ==
  /\ pc[c] = "advance"
  /\ tail' = (tail + 1) % bufferSize
  /\ received' = Append(received, message[c])
  /\ Goto(c, "signal")
  /\ UNCHANGED <<head, buffer, bufferSize, fillCount, emptyCount, mutex, localVars, mainVars,
                 handlerVars, spurious, made, sent>>

\* Faulty variant: a signal only when the buffer was empty, or full, before.
SignalAtEdge(t) ==
  /\ pc[t] = "signal"
  /\ IF fillCount = IF t \in Producers THEN 1 ELSE bufferSize - 1
     THEN SignalOne(IF t \in Producers THEN Consumers ELSE Producers, t, "unlock")
     ELSE Goto(t, "unlock")
  /\ UNCHANGED <<ringVars, mutex, localVars, mainVars, handlerVars, historyVars>>

\* Faulty variant: every thread signals the condition it waits for itself.
SignalOwnRole(t) ==
  /\ pc[t] = "signal"
  /\ SignalOne(RoleOf(t), t, "unlock")
  /\ UNCHANGED <<ringVars, mutex, localVars, mainVars, handlerVars, historyVars>>

\* A put signals condForFill, a get condForEmpty.
Signal(t) ==
  /\ pc[t] = "signal"
  /\ SignalOne(IF t \in Producers THEN Consumers ELSE Producers, t, "unlock")
  /\ UNCHANGED <<ringVars, mutex, localVars, mainVars, handlerVars, historyVars>>

\* Faulty variant: the way out without a message forgets the mutex.
UnlockOnlyWithMessage(t) ==
  /\ pc[t] = "unlock"
  /\ mutex' = IF flag[t] THEN Free ELSE mutex
  /\ Goto(t, IF flag[t] THEN "loop" ELSE "done")
  /\ UNCHANGED <<ringVars, localVars, mainVars, handlerVars, historyVars>>

\* pthread_mutex_unlock; a thread that did nothing (flag is 0) ends.
Unlock(t) ==
  /\ pc[t] = "unlock"
  /\ mutex' = Free
  /\ Goto(t, IF flag[t] THEN "loop" ELSE "done")
  /\ UNCHANGED <<ringVars, localVars, mainVars, handlerVars, historyVars>>

ThreadStep(t) ==
  \/ Loop(t) \/ Lock(t) \/ Test(t) \/ CondWait(t) \/ Decide(t) \/ Signal(t) \/ Unlock(t)
  \/ t \in Producers /\ (CopyIn(t) \/ AdvanceHead(t))
  \/ t \in Consumers /\ (CopyOut(t) \/ AdvanceTail(t))

-----------------------------------------------------------------------------
(* The main thread: the menu.  It stands still while the handler runs. *)

AtMenu(c) == mainPc = "menu" /\ handler = "off" /\ ~flagForExit /\ c \in Commands

Launch(t) ==
  /\ pc[t] = "none"
  /\ Goto(t, "loop")
  /\ running' = [running EXCEPT ![t] = TRUE]
  /\ UNCHANGED <<ringVars, mutex, message, flag, mainPc, target, temp, handlerVars, historyVars>>

LaunchProducer(p) ==
  /\ AtMenu("p") /\ Launch(p)
  /\ producerMas' = Append(producerMas, p)
  /\ UNCHANGED consumerMas

LaunchConsumer(c) ==
  /\ AtMenu("c") /\ Launch(c)
  /\ consumerMas' = Append(consumerMas, c)
  /\ UNCHANGED producerMas

\* pthread_create fails: exit ends the process and every thread of it.
CreateFails ==
  /\ AtMenu("p") \/ AtMenu("c")
  /\ mainPc' = "exited"
  /\ pc' = [t \in Threads |-> "none"]
  /\ UNCHANGED <<ringVars, mutex, localVars, producerMas, consumerMas, target, temp,
                 handlerVars, historyVars>>

\* running is cleared without the mutex; then come the broadcast and the join.
Stop(t) ==
  /\ running' = [running EXCEPT ![t] = FALSE]
  /\ mainPc' = "wake" /\ target' = t
  /\ UNCHANGED <<ringVars, mutex, pc, message, flag, temp, handlerVars, historyVars>>

\* Faulty variant: the thread is taken off the array only after the join, which
\* this variant leaves to the next launch.
RemoveProducerLate ==
  /\ AtMenu("d") /\ producerMas # <<>>
  /\ Stop(Last(producerMas))
  /\ UNCHANGED <<producerMas, consumerMas>>

RemoveProducer ==
  /\ AtMenu("d") /\ producerMas # <<>>
  /\ Stop(Last(producerMas))
  /\ producerMas' = Front(producerMas)
  /\ UNCHANGED consumerMas

RemoveConsumer ==
  /\ AtMenu("r") /\ consumerMas # <<>>
  /\ Stop(Last(consumerMas))
  /\ consumerMas' = Front(consumerMas)
  /\ UNCHANGED producerMas

\* Faulty variant: removeConsumer broadcasts to the producers.
WakeProducers ==
  /\ mainPc = "wake" /\ handler = "off"
  /\ Broadcast(Producers)
  /\ mainPc' = "join"
  /\ UNCHANGED <<ringVars, mutex, localVars, producerMas, consumerMas, target, temp,
                 handlerVars, historyVars>>

WakeTarget ==
  /\ mainPc = "wake" /\ handler = "off"
  /\ Broadcast(RoleOf(target))
  /\ mainPc' = "join"
  /\ UNCHANGED <<ringVars, mutex, localVars, producerMas, consumerMas, target, temp,
                 handlerVars, historyVars>>

JoinTarget ==
  /\ mainPc = "join" /\ handler = "off" /\ pc[target] = "done"
  /\ Goto(target, "none")
  /\ mainPc' = "menu" /\ target' = None
  /\ UNCHANGED <<ringVars, mutex, localVars, producerMas, consumerMas, temp, handlerVars,
                 historyVars>>

(* updateSizeOfBuffer, in the steps other threads can see; none takes the mutex. *)

EnterSize(n) ==
  /\ AtMenu("u") /\ n \in NewSizes
  /\ temp' = bufferSize
  /\ bufferSize' = n
  /\ mainPc' = "resize"
  /\ UNCHANGED <<head, tail, buffer, fillCount, emptyCount, mutex, pc, localVars, producerMas,
                 consumerMas, target, handlerVars, historyVars>>

RefuseSize ==
  /\ mainPc = "resize" /\ handler = "off" /\ bufferSize < fillCount
  /\ bufferSize' = temp
  /\ mainPc' = "menu"
  /\ UNCHANGED <<head, tail, buffer, fillCount, emptyCount, mutex, pc, localVars, producerMas,
                 consumerMas, target, temp, handlerVars, historyVars>>

Realloc ==
  /\ mainPc = "resize" /\ handler = "off" /\ bufferSize >= fillCount
  /\ buffer' = [s \in 0..bufferSize - 1 |-> IF s \in DOMAIN buffer THEN buffer[s] ELSE Garbage]
  /\ mainPc' = "fixHead"
  /\ UNCHANGED <<head, tail, bufferSize, fillCount, emptyCount, mutex, pc, localVars,
                 producerMas, consumerMas, target, temp, handlerVars, historyVars>>

\* Slot 0 has size zero when it was never written (it lies in the first block
\* the process allocates) or when its message's size wrapped around to zero.
FixHead ==
  /\ mainPc = "fixHead" /\ handler = "off"
  /\ \E sized \in IF buffer[0] = Garbage THEN {FALSE} ELSE BOOLEAN :
       head' = IF head = 0 /\ sized THEN temp ELSE head
  /\ Broadcast(Producers)
  /\ mainPc' = "menu"
  /\ UNCHANGED <<tail, buffer, bufferSize, fillCount, emptyCount, mutex, localVars,
                 producerMas, consumerMas, target, temp, handlerVars, historyVars>>

\* Out of the loop: the arrays and the buffer are freed, the mutex destroyed.
Leave ==
  /\ mainPc = "menu" /\ handler = "off" /\ flagForExit
  /\ mainPc' = "exited"
  /\ UNCHANGED <<ringVars, mutex, pc, localVars, producerMas, consumerMas, target, temp,
                 handlerVars, historyVars>>

-----------------------------------------------------------------------------
(* The SIGINT handler, run by the main thread wherever it is. *)

CtrlC ==
  /\ "^C" \in Commands /\ pressed < MaxCtrlC /\ handler = "off" /\ mainPc # "exited"
  /\ pressed' = pressed + 1
  /\ handler' = "stop"
  /\ todo' = Reverse(producerMas) \o Reverse(consumerMas)
  /\ UNCHANGED <<ringVars, mutex, pc, localVars, mainVars, flagForExit, historyVars>>

HandlerStop ==
  /\ handler = "stop" /\ todo # <<>>
  /\ running' = [running EXCEPT ![Head(todo)] = FALSE]
  /\ handler' = "wake"
  /\ UNCHANGED <<ringVars, mutex, pc, message, flag, mainVars, todo, flagForExit, pressed,
                 historyVars>>

HandlerWake ==
  /\ handler = "wake"
  /\ Broadcast(RoleOf(Head(todo)))
  /\ handler' = "join"
  /\ UNCHANGED <<ringVars, mutex, localVars, mainVars, todo, flagForExit, pressed, historyVars>>

HandlerJoin ==
  /\ handler = "join" /\ pc[Head(todo)] = "done"
  /\ Goto(Head(todo), "joined")
  /\ todo' = Tail(todo)
  /\ handler' = "stop"
  /\ UNCHANGED <<ringVars, mutex, localVars, mainVars, flagForExit, pressed, historyVars>>

HandlerReturn ==
  /\ handler = "stop" /\ todo = <<>>
  /\ flagForExit' = TRUE
  /\ handler' = "off"
  /\ UNCHANGED <<ringVars, mutex, pc, localVars, mainVars, todo, pressed, historyVars>>

-----------------------------------------------------------------------------
User ==
  \/ \E p \in Producers : LaunchProducer(p)
  \/ \E c \in Consumers : LaunchConsumer(c)
  \/ CreateFails \/ RemoveProducer \/ RemoveConsumer \/ CtrlC
  \/ \E n \in NewSizes : EnterSize(n)

MainStep == WakeTarget \/ JoinTarget \/ RefuseSize \/ Realloc \/ FixHead \/ Leave

HandlerStep == HandlerStop \/ HandlerWake \/ HandlerJoin \/ HandlerReturn

Next ==
  \/ User \/ MainStep \/ HandlerStep
  \/ \E t \in Threads : mainPc # "exited" /\ (ThreadStep(t) \/ SpuriousWakeup(t))

Spec == Init /\ [][Next]_vars

\* Every thread runs, and so does main outside of the menu; the user does nothing
\* by himself, except to press the key that lets main notice a Ctrl+C.
Fairness ==
  /\ \A t \in Threads : WF_vars(mainPc # "exited" /\ ThreadStep(t))
  /\ WF_vars(MainStep) /\ WF_vars(HandlerStep)

FairSpec == Spec /\ Fairness

=============================================================================
