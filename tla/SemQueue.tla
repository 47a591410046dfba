------------------------------ MODULE SemQueue ------------------------------
(***************************************************************************)
(* Lab5/lab5-1.c: producer and consumer threads that exchange messages     *)
(* through a ring guarded by two semaphores and a mutex.  Threads are      *)
(* ended with pthread_cancel, which takes effect only where the thread     *)
(* calls a cancellation point; the buffer is resized under the mutex.      *)
(***************************************************************************)
EXTENDS Integers, Sequences, FiniteSets, SequencesExt

CONSTANTS
  Producers, Consumers,   \* the threads of each role that may be created
  InitialSize,            \* bufferSize at the start
  NewSizes,               \* the sizes the user may enter after 'u'
  MaxMessages,            \* bound: how many messages the producers build
  Commands                \* what the user does at the menu

\* The mutex's owner when it is no thread.
Free == "free"
Main == "main"

ASSUME SemQueueAssumption ==
  /\ IsFiniteSet(Producers) /\ IsFiniteSet(Consumers)
  /\ Producers \cap Consumers = {}
  /\ {Free, Main} \cap (Producers \cup Consumers) = {}
  /\ InitialSize \in Nat \ {0}
  /\ NewSizes \subseteq Nat
  /\ MaxMessages \in Nat
  /\ Commands \subseteq {"p", "d", "c", "r", "u", "^C"}

VARIABLES
  head, tail, buffer, bufferSize,
  fillCount, emptyCount,  \* the values of the semaphores
  mutex,                  \* its owner: a thread, Main or Free
  pc, message,            \* per thread: where it is, the message it works on
  running, cancelled,     \* per thread: its running cell, pthread_cancel called
  producerMas, consumerMas,
  mainPc, target,         \* main: where it is, whom it cancels and joins
  valueOfFill, left,      \* updateSizeOfBuffer: what it read, what it still
                          \* has to post (positive) or to wait for (negative)
  handler, todo,          \* the SIGINT handler: where it is, whom it still joins
  flagForExit,
  stdoutHeld,             \* main was interrupted in a printf of its own
  made, sent, received,   \* history: messages built, put and got
  lost,                   \* history: threads that returned with a token
  resized                 \* history: has a new size ever been accepted?

ringVars == <<head, tail, buffer, bufferSize>>
semVars == <<fillCount, emptyCount>>
threadVars == <<pc, message, running, cancelled>>
listVars == <<producerMas, consumerMas>>
mainVars == <<listVars, mainPc, target, valueOfFill, left>>
handlerVars == <<handler, todo, flagForExit, stdoutHeld>>
historyVars == <<made, sent, received, lost, resized>>
queueVars == <<ringVars, semVars, mutex>>
sizeVars == <<valueOfFill, left>>
ctlVars == <<running, cancelled, mainVars, handlerVars>>
rest == <<message, ctlVars, historyVars>>
outerVars == <<handlerVars, historyVars>>
vars == <<ringVars, semVars, mutex, threadVars, mainVars, handlerVars, historyVars>>

Threads == Producers \cup Consumers
Messages == 1..MaxMessages
Sizes == {InitialSize} \cup NewSizes
None == "none"
Garbage == 0              \* what a slot holds that was never written

PCs == {"none", "loop", "wait", "check", "lock", "copy", "advance", "post",
        "print", "unlock", "say", "done", "joined"}
Alive(t) == pc[t] \notin {"none", "done", "joined"}

Init ==
  /\ head = 0 /\ tail = 0 /\ bufferSize = InitialSize
  /\ buffer = [s \in 0..InitialSize - 1 |-> Garbage]
  /\ fillCount = 0 /\ emptyCount = InitialSize
  /\ mutex = Free
  /\ pc = [t \in Threads |-> "none"]
  /\ message = [t \in Threads |-> Garbage]
  /\ running = [t \in Threads |-> FALSE] /\ cancelled = [t \in Threads |-> FALSE]
  /\ producerMas = <<>> /\ consumerMas = <<>>
  /\ mainPc = "menu" /\ target = None /\ valueOfFill = 0 /\ left = 0
  /\ handler = "off" /\ todo = <<>> /\ flagForExit = FALSE /\ stdoutHeld = FALSE
  /\ made = 0 /\ sent = <<>> /\ received = <<>> /\ lost = {} /\ resized = FALSE

Goto(t, label) == pc' = [pc EXCEPT ![t] = label]

-----------------------------------------------------------------------------
(* The threads: producerFunc with putMessage, consumerFunc with getMessage. *)

\* while (*running): the thread leaves, or builds a message, or goes to get one.
Loop(t) ==
  /\ pc[t] = "loop"
  /\ IF ~running[t]
     THEN Goto(t, "done") /\ UNCHANGED <<made, message>>
     ELSE /\ t \in Producers => made < MaxMessages
          /\ made' = IF t \in Producers THEN made + 1 ELSE made
          /\ message' = [message EXCEPT ![t] = IF t \in Producers THEN made + 1 ELSE Garbage]
          /\ Goto(t, "wait")
  /\ UNCHANGED <<queueVars, ctlVars, sent, received, lost, resized>>

\* Faulty variant: the producer does not wait for an empty slot.
WaitEmptySkipped(p) ==
  /\ pc[p] = "wait" /\ ~cancelled[p]
  /\ emptyCount' = IF emptyCount = 0 THEN 0 ELSE emptyCount - 1
  /\ Goto(p, "check")
  /\ UNCHANGED <<ringVars, fillCount, mutex, rest>>

WaitEmpty(p) ==
  /\ pc[p] = "wait" /\ ~cancelled[p] /\ emptyCount > 0
  /\ emptyCount' = emptyCount - 1
  /\ Goto(p, "check")
  /\ UNCHANGED <<ringVars, fillCount, mutex, rest>>

WaitFill(c) ==
  /\ pc[c] = "wait" /\ ~cancelled[c] /\ fillCount > 0
  /\ fillCount' = fillCount - 1
  /\ Goto(c, "check")
  /\ UNCHANGED <<ringVars, emptyCount, mutex, rest>>

\* sem_wait is a cancellation point, whether it blocks or not.
CancelledInWait(t) ==
  /\ pc[t] = "wait" /\ cancelled[t]
  /\ Goto(t, "done")
  /\ UNCHANGED <<queueVars, rest>>

\* A thread told to stop returns, and the token it took is gone.
Check(t) ==
  /\ pc[t] = "check"
  /\ Goto(t, IF running[t] THEN "lock" ELSE "done")
  /\ lost' = IF running[t] THEN lost ELSE lost \cup {t}
  /\ UNCHANGED <<queueVars, message, ctlVars, made, sent, received, resized>>

\* pthread_mutex_lock is no cancellation point.
Lock(t) ==
  /\ pc[t] = "lock" /\ mutex = Free
  /\ mutex' = t
  /\ Goto(t, "copy")
  /\ UNCHANGED <<ringVars, semVars, rest>>

\* A slot outside the buffer is undefined behaviour: the model goes no further.
CopyIn(p) ==
  /\ pc[p] = "copy" /\ head \in DOMAIN buffer
  /\ buffer' = [buffer EXCEPT ![head] = message[p]]
  /\ Goto(p, "advance")
  /\ UNCHANGED <<head, tail, bufferSize, semVars, mutex, rest>>

CopyOut(c) ==
  /\ pc[c] = "copy" /\ tail \in DOMAIN buffer
  /\ message' = [message EXCEPT ![c] = buffer[tail]]
  /\ Goto(c, "advance")
  /\ UNCHANGED <<queueVars, ctlVars, historyVars>>

AdvanceHead(p) ==
  /\ pc[p] = "advance"
  /\ head' = (head + 1) % bufferSize
  /\ sent' = Append(sent, message[p])
  /\ Goto(p, "post")
  /\ UNCHANGED <<tail, buffer, bufferSize, semVars, mutex, message, ctlVars, made, received,
                 lost, resized>>

AdvanceTail(c) ==
  /\ pc[c] = "advance"
  /\ tail' = (tail + 1) % bufferSize
  /\ received' = Append(received, message[c])
  /\ Goto(c, "post")
  /\ UNCHANGED <<head, buffer, bufferSize, semVars, mutex, message, ctlVars, made, sent,
                 lost, resized>>

\* Faulty variant: a producer told to stop does not announce its message.
PostFillWhileRunning(p) ==
  /\ pc[p] = "post"
  /\ fillCount' = IF running[p] THEN fillCount + 1 ELSE fillCount
  /\ Goto(p, "unlock")
  /\ UNCHANGED <<ringVars, emptyCount, mutex, rest>>

PostFill(p) ==
  /\ pc[p] = "post"
  /\ fillCount' = fillCount + 1
  /\ Goto(p, "unlock")
  /\ UNCHANGED <<ringVars, emptyCount, mutex, rest>>

\* Faulty variant: the consumer gives back the token it took.
PostEmptySwapped(c) ==
  /\ pc[c] = "post"
  /\ fillCount' = fillCount + 1
  /\ Goto(c, "print")
  /\ UNCHANGED <<ringVars, emptyCount, mutex, rest>>

PostEmpty(c) ==
  /\ pc[c] = "post"
  /\ emptyCount' = emptyCount + 1
  /\ Goto(c, "print")
  /\ UNCHANGED <<ringVars, fillCount, mutex, rest>>

\* getMessage prints with the mutex locked.  printf waits for stdout's lock, which
\* is no cancellation point; it is one when it writes its buffer out, and no cleanup
\* handler unlocks the mutex.
Report(c) ==
  /\ pc[c] = "print" /\ ~stdoutHeld
  /\ \E ends \in IF cancelled[c] THEN BOOLEAN ELSE {FALSE} :
       Goto(c, IF ends THEN "done" ELSE "unlock")
  /\ UNCHANGED <<queueVars, rest>>

Unlock(t) ==
  /\ pc[t] = "unlock"
  /\ mutex' = Free
  /\ Goto(t, "say")
  /\ UNCHANGED <<ringVars, semVars, rest>>

\* What the thread prints without the mutex, and back to the while; a consumer told
\* to stop prints nothing.  A thread that was told to stop finds running cleared at
\* the while, whether or not a printf, or sleep, acts on its cancellation first.
Say(t) ==
  /\ pc[t] = "say"
  /\ stdoutHeld => t \in Consumers /\ ~running[t]
  /\ Goto(t, "loop")
  /\ UNCHANGED <<queueVars, rest>>

ThreadStep(t) ==
  \/ Loop(t) \/ CancelledInWait(t) \/ Check(t) \/ Lock(t) \/ Unlock(t) \/ Say(t)
  \/ t \in Producers /\ (WaitEmpty(t) \/ CopyIn(t) \/ AdvanceHead(t) \/ PostFill(t))
  \/ t \in Consumers /\ (WaitFill(t) \/ CopyOut(t) \/ AdvanceTail(t) \/ PostEmpty(t) \/ Report(t))

-----------------------------------------------------------------------------
(* The main thread: the menu.  It stands still while the handler runs. *)

MainAt(label) == mainPc = label /\ handler = "off"
AtMenu(c) == MainAt("menu") /\ ~flagForExit /\ c \in Commands

Launch(t) ==
  /\ pc[t] = "none"
  /\ Goto(t, "loop")
  /\ running' = [running EXCEPT ![t] = TRUE]
  /\ cancelled' = [cancelled EXCEPT ![t] = FALSE]
  /\ UNCHANGED <<queueVars, message, mainPc, target, sizeVars, outerVars>>

\* A thread that returned with a token stays counted in lost: its name is not
\* given to another one.
LaunchProducer(p) ==
  /\ AtMenu("p") /\ p \notin lost /\ Launch(p)
  /\ producerMas' = Append(producerMas, p)
  /\ UNCHANGED consumerMas

LaunchConsumer(c) ==
  /\ AtMenu("c") /\ c \notin lost /\ Launch(c)
  /\ consumerMas' = Append(consumerMas, c)
  /\ UNCHANGED producerMas

\* pthread_create fails: exit ends the process and every thread of it.
CreateFails ==
  /\ AtMenu("p") \/ AtMenu("c")
  /\ mainPc' = "exited"
  /\ UNCHANGED <<queueVars, threadVars, listVars, target, sizeVars, outerVars>>

\* The last thread of an array: running is cleared, then come the cancellation
\* and the join.
Stop(t) ==
  /\ running' = [running EXCEPT ![t] = FALSE]
  /\ mainPc' = "cancel" /\ target' = t
  /\ UNCHANGED <<queueVars, pc, message, cancelled, sizeVars, outerVars>>

RemoveProducer ==
  /\ AtMenu("d") /\ producerMas # <<>>
  /\ Stop(Last(producerMas))
  /\ producerMas' = Front(producerMas)
  /\ UNCHANGED consumerMas

RemoveConsumer ==
  /\ AtMenu("r") /\ consumerMas # <<>>
  /\ Stop(Last(consumerMas))
  /\ consumerMas' = Front(consumerMas)
  /\ UNCHANGED producerMas

\* Faulty variant: running alone is trusted to end the thread.
NoCancel ==
  /\ MainAt("cancel")
  /\ mainPc' = "join"
  /\ UNCHANGED <<queueVars, threadVars, listVars, target, sizeVars, outerVars>>

CancelTarget ==
  /\ MainAt("cancel")
  /\ cancelled' = [cancelled EXCEPT ![target] = TRUE]
  /\ mainPc' = "join"
  /\ UNCHANGED <<queueVars, pc, message, running, listVars, target, sizeVars, outerVars>>

\* A thread that still owns the mutex keeps its identity: the id is not reused
\* by a later launch.
JoinTarget ==
  /\ MainAt("join") /\ pc[target] = "done"
  /\ Goto(target, IF mutex = target THEN "joined" ELSE "none")
  /\ mainPc' = "menu" /\ target' = None
  /\ UNCHANGED <<queueVars, message, running, cancelled, listVars, sizeVars, outerVars>>

(* updateSizeOfBuffer. *)

BeginResize ==
  /\ AtMenu("u")
  /\ mainPc' = "sizeLock"
  /\ UNCHANGED <<queueVars, threadVars, listVars, target, sizeVars, outerVars>>

\* main waits for ever if it owns the mutex already.
LockForSize ==
  /\ MainAt("sizeLock") /\ mutex = Free
  /\ mutex' = Main
  /\ valueOfFill' = fillCount
  /\ mainPc' = "sizeInput"
  /\ UNCHANGED <<ringVars, semVars, threadVars, listVars, target, left, outerVars>>

\* The early return: bufferSize is put back, and the mutex stays locked.
RefuseSize(n) ==
  /\ MainAt("sizeInput") /\ n <= valueOfFill
  /\ mainPc' = "menu"
  /\ UNCHANGED <<queueVars, threadVars, listVars, target, sizeVars, outerVars>>

\* Slot 0 has size zero when it was never written (it lies in the first block
\* the process allocates) or when its message's size wrapped around to zero.
AcceptSize(n) ==
  /\ MainAt("sizeInput") /\ n > valueOfFill
  /\ bufferSize' = n
  /\ buffer' = [s \in 0..n - 1 |-> IF s \in DOMAIN buffer THEN buffer[s] ELSE Garbage]
  /\ \E sized \in IF buffer[0] = Garbage THEN {FALSE} ELSE BOOLEAN :
       head' = IF head = 0 /\ sized THEN bufferSize ELSE head
  /\ left' = n - bufferSize
  /\ mainPc' = "adjust" /\ resized' = TRUE
  /\ UNCHANGED <<tail, semVars, mutex, threadVars, listVars, target, valueOfFill,
                 handlerVars, made, sent, received, lost>>

AddToken ==
  /\ MainAt("adjust") /\ left > 0
  /\ emptyCount' = emptyCount + 1
  /\ left' = left - 1
  /\ UNCHANGED <<ringVars, fillCount, mutex, threadVars, listVars, mainPc, target,
                 valueOfFill, outerVars>>

\* sem_wait with the mutex locked.
TakeToken ==
  /\ MainAt("adjust") /\ left < 0 /\ emptyCount > 0
  /\ emptyCount' = emptyCount - 1
  /\ left' = left + 1
  /\ UNCHANGED <<ringVars, fillCount, mutex, threadVars, listVars, mainPc, target,
                 valueOfFill, outerVars>>

EndResize ==
  /\ MainAt("adjust") /\ left = 0
  /\ mutex' = Free
  /\ mainPc' = "menu"
  /\ UNCHANGED <<ringVars, semVars, threadVars, listVars, target, sizeVars, outerVars>>

\* Out of the loop: everything is freed, the semaphores' names are unlinked.
Leave ==
  /\ MainAt("menu") /\ flagForExit
  /\ mainPc' = "exited"
  /\ UNCHANGED <<queueVars, threadVars, listVars, target, sizeVars, outerVars>>

-----------------------------------------------------------------------------
(* The SIGINT handler, run once by the main thread wherever it is: also within a *)
(* printf, and stdout stays locked for the threads until the handler returns.    *)

CtrlC ==
  /\ "^C" \in Commands /\ handler = "off" /\ ~flagForExit /\ mainPc # "exited"
  /\ handler' = "stop"
  /\ todo' = producerMas \o consumerMas
  /\ stdoutHeld' \in IF mainPc \in {"menu", "sizeInput"} THEN BOOLEAN ELSE {FALSE}
  /\ UNCHANGED <<queueVars, threadVars, mainVars, flagForExit, historyVars>>

HandlerStop ==
  /\ handler = "stop" /\ todo # <<>>
  /\ running' = [running EXCEPT ![Head(todo)] = FALSE]
  /\ handler' = "cancel"
  /\ UNCHANGED <<queueVars, pc, message, cancelled, mainVars, todo, flagForExit, stdoutHeld, historyVars>>

\* Faulty variant: the handler does not cancel either.
HandlerNoCancel ==
  /\ handler = "cancel"
  /\ handler' = "join"
  /\ UNCHANGED <<queueVars, threadVars, mainVars, todo, flagForExit, stdoutHeld, historyVars>>

HandlerCancel ==
  /\ handler = "cancel"
  /\ cancelled' = [cancelled EXCEPT ![Head(todo)] = TRUE]
  /\ handler' = "join"
  /\ UNCHANGED <<queueVars, pc, message, running, mainVars, todo, flagForExit, stdoutHeld, historyVars>>

HandlerJoin ==
  /\ handler = "join" /\ pc[Head(todo)] = "done"
  /\ Goto(Head(todo), "joined")
  /\ todo' = Tail(todo)
  /\ handler' = "stop"
  /\ UNCHANGED <<queueVars, message, running, cancelled, mainVars, flagForExit, stdoutHeld,
                 historyVars>>

HandlerReturn ==
  /\ handler = "stop" /\ todo = <<>>
  /\ flagForExit' = TRUE /\ stdoutHeld' = FALSE
  /\ handler' = "off"
  /\ UNCHANGED <<queueVars, threadVars, mainVars, todo, historyVars>>

-----------------------------------------------------------------------------
User ==
  \/ \E p \in Producers : LaunchProducer(p)
  \/ \E c \in Consumers : LaunchConsumer(c)
  \/ CreateFails \/ RemoveProducer \/ RemoveConsumer \/ BeginResize \/ CtrlC
  \/ \E n \in NewSizes : RefuseSize(n) \/ AcceptSize(n)

MainStep ==
  \/ CancelTarget \/ JoinTarget \/ LockForSize \/ AddToken \/ TakeToken \/ EndResize \/ Leave

HandlerStep == HandlerStop \/ HandlerCancel \/ HandlerJoin \/ HandlerReturn

Next ==
  \/ User \/ MainStep \/ HandlerStep
  \/ \E t \in Threads : mainPc # "exited" /\ ThreadStep(t)

Spec == Init /\ [][Next]_vars

\* Every thread runs, and so does main outside of the menu and of its prompt.
Fairness ==
  /\ \A t \in Threads : WF_vars(mainPc # "exited" /\ ThreadStep(t))
  /\ WF_vars(MainStep) /\ WF_vars(HandlerStep)

FairSpec == Spec /\ Fairness

=============================================================================
