----------------------------- MODULE ProcQueue -----------------------------
(***************************************************************************)
(* Lab4/lab4.c: producer and consumer processes that exchange messages     *)
(* through a ring buffer in shared memory, guarded by three named          *)
(* semaphores, under a parent that forks and kills them on the user's      *)
(* command.  A process advances one semaphore operation or one group of    *)
(* memory accesses at a time; SIGTERM may end it between any two of them.  *)
(***************************************************************************)
EXTENDS Integers, Sequences, FiniteSets, SequencesExt

CONSTANTS
  Producers, Consumers,   \* the process ids fork may return for each role
  BUFFER_SIZE,            \* slots of the ring buffer
  MaxMessages,            \* bound: how many messages the producers build
  Commands                \* what the user does at the menu

ASSUME ProcQueueAssumption ==
  /\ IsFiniteSet(Producers)
  /\ IsFiniteSet(Consumers)
  /\ Producers \cap Consumers = {}
  /\ BUFFER_SIZE \in Nat \ {0}
  /\ MaxMessages \in Nat
  /\ Commands \subseteq {"p", "d", "c", "r", "^C"}

VARIABLES
  head, tail, buffer,            \* struct MessageQueue; addedCount is Len(sent)
  fillCount, emptyCount, mutex,  \* the semaphores' values
  linked,                        \* do the semaphores' names exist?
  pc, message,                   \* where each child is, and its local message
  running,                       \* each child's own copy of the global running
  sigterm, sigint,               \* children with the signal pending
  producerMas, consumerMas,      \* the parent's arrays of children
  parentPc, parentRunning, parentSigint,
  made, sent, received           \* history: messages built, put and got

queueVars == <<head, tail, buffer, sent, received>>
semVars == <<fillCount, emptyCount, mutex>>
parentVars == <<producerMas, consumerMas, parentPc, parentRunning, parentSigint>>
childVars == <<running, sigterm, sigint, linked>>
vars == <<queueVars, semVars, parentVars, childVars, pc, message, made>>

Procs == Producers \cup Consumers
Slots == 0..BUFFER_SIZE - 1
\* Payloads are random; message n stands for the n-th one built, 0 for none.
Messages == 1..MaxMessages
\* A message is its header (type, hash, size) and its data, copied separately.
\* The header's hash belongs to the data exactly when the two are equal.
Copies == [hdr : 0..MaxMessages, data : 0..MaxMessages]
NoMessage == [hdr |-> 0, data |-> 0]

\* What a child does next; "none" is a process id that is not in use.
Before == {"idle", "waitEmpty", "waitFill"}
Critical == {"write", "copyIn", "advanceHead", "postFill",
             "read", "copyOut", "advanceTail", "postEmpty", "postMutex"}
PCs == {"none", "exited", "waitMutex", "check"} \cup Before \cup Critical

Alive(p) == pc[p] \notin {"none", "exited"}

Init ==
  /\ head = 0 /\ tail = 0
  /\ buffer = [s \in Slots |-> NoMessage]
  /\ fillCount = 0 /\ emptyCount = BUFFER_SIZE /\ mutex = 1
  /\ linked = TRUE
  /\ pc = [p \in Procs |-> "none"]
  /\ message = [p \in Procs |-> NoMessage]
  /\ running = [p \in Procs |-> TRUE]
  /\ sigterm = {} /\ sigint = {}
  /\ producerMas = <<>> /\ consumerMas = <<>>
  /\ parentPc = "menu" /\ parentRunning = TRUE /\ parentSigint = FALSE
  /\ made = 0 /\ sent = <<>> /\ received = <<>>

Goto(p, label) == pc' = [pc EXCEPT ![p] = label]
Forget(p) == message' = [message EXCEPT ![p] = NoMessage]

-----------------------------------------------------------------------------
(* The producer: producerFunc and putMessage. *)

\* producerFunc: one turn of the loop builds a fresh message.
BuildMessage(p) ==
  /\ pc[p] = "idle" /\ running[p] /\ made < MaxMessages
  /\ made' = made + 1
  /\ message' = [message EXCEPT ![p] = [hdr |-> made + 1, data |-> made + 1]]
  /\ Goto(p, "waitEmpty")
  /\ UNCHANGED <<queueVars, semVars, parentVars, childVars>>

\* Faulty variant: sem_wait(emptyCount) forgotten.
WaitEmptySkipped(p) ==
  /\ pc[p] = "waitEmpty"
  /\ Goto(p, "waitMutex")
  /\ UNCHANGED <<queueVars, semVars, parentVars, childVars, message, made>>

WaitEmpty(p) ==
  /\ pc[p] = "waitEmpty" /\ emptyCount > 0
  /\ emptyCount' = emptyCount - 1
  /\ Goto(p, "waitMutex")
  /\ UNCHANGED <<queueVars, fillCount, mutex, parentVars, childVars, message, made>>

\* Faulty variant: sem_wait(mutex) forgotten.
WaitMutexSkipped(p) ==
  /\ pc[p] = "waitMutex"
  /\ Goto(p, IF p \in Producers THEN "write" ELSE "read")
  /\ UNCHANGED <<queueVars, semVars, parentVars, childVars, message, made>>

\* sem_wait(mutex), in putMessage and in getMessage.
WaitMutex(p) ==
  /\ pc[p] = "waitMutex" /\ mutex > 0
  /\ mutex' = mutex - 1
  /\ Goto(p, IF p \in Producers THEN "write" ELSE "read")
  /\ UNCHANGED <<queueVars, fillCount, emptyCount, parentVars, childVars, message, made>>

WriteHeader(p) ==
  /\ pc[p] = "write"
  /\ buffer' = [buffer EXCEPT ![head].hdr = message[p].hdr]
  /\ Goto(p, "copyIn")
  /\ UNCHANGED <<head, tail, sent, received, semVars, parentVars, childVars, message, made>>

CopyIn(p) ==
  /\ pc[p] = "copyIn"
  /\ buffer' = [buffer EXCEPT ![head].data = message[p].data]
  /\ Goto(p, "advanceHead")
  /\ UNCHANGED <<head, tail, sent, received, semVars, parentVars, childVars, message, made>>

AdvanceHead(p) ==
  /\ pc[p] = "advanceHead"
  /\ head' = (head + 1) % BUFFER_SIZE
  /\ sent' = Append(sent, message[p].data)
  /\ Goto(p, "postFill")
  /\ UNCHANGED <<tail, buffer, received, semVars, parentVars, childVars, message, made>>

\* Faulty variant: sem_post(fillCount) forgotten.
PostFillSkipped(p) ==
  /\ pc[p] = "postFill"
  /\ Goto(p, "postMutex")
  /\ UNCHANGED <<queueVars, semVars, parentVars, childVars, message, made>>

PostFill(p) ==
  /\ pc[p] = "postFill"
  /\ fillCount' = fillCount + 1
  /\ Goto(p, "postMutex")
  /\ UNCHANGED <<queueVars, emptyCount, mutex, parentVars, childVars, message, made>>

\* sem_post(mutex), in putMessage and in getMessage.  The producer's message is
\* a local of the turn of the loop that ends here.
PostMutex(p) ==
  /\ pc[p] = "postMutex"
  /\ mutex' = mutex + 1
  /\ Goto(p, IF p \in Producers THEN "idle" ELSE "check")
  /\ IF p \in Producers THEN Forget(p) ELSE UNCHANGED message
  /\ UNCHANGED <<queueVars, fillCount, emptyCount, parentVars, childVars, made>>

-----------------------------------------------------------------------------
(* The consumer: consumerFunc and getMessage. *)

EnterGet(p) ==
  /\ pc[p] = "idle" /\ running[p]
  /\ Goto(p, "waitFill")
  /\ UNCHANGED <<queueVars, semVars, parentVars, childVars, message, made>>

WaitFill(p) ==
  /\ pc[p] = "waitFill" /\ fillCount > 0
  /\ fillCount' = fillCount - 1
  /\ Goto(p, "waitMutex")
  /\ UNCHANGED <<queueVars, emptyCount, mutex, parentVars, childVars, message, made>>

ReadHeader(p) ==
  /\ pc[p] = "read"
  /\ message' = [message EXCEPT ![p].hdr = buffer[tail].hdr]
  /\ Goto(p, "copyOut")
  /\ UNCHANGED <<queueVars, semVars, parentVars, childVars, made>>

CopyOut(p) ==
  /\ pc[p] = "copyOut"
  /\ message' = [message EXCEPT ![p].data = buffer[tail].data]
  /\ Goto(p, "advanceTail")
  /\ UNCHANGED <<queueVars, semVars, parentVars, childVars, made>>

AdvanceTail(p) ==
  /\ pc[p] = "advanceTail"
  /\ tail' = (tail + 1) % BUFFER_SIZE
  /\ received' = Append(received, message[p].data)
  /\ Goto(p, "postEmpty")
  /\ UNCHANGED <<head, buffer, sent, semVars, parentVars, childVars, message, made>>

PostEmpty(p) ==
  /\ pc[p] = "postEmpty"
  /\ emptyCount' = emptyCount + 1
  /\ Goto(p, "postMutex")
  /\ UNCHANGED <<queueVars, fillCount, mutex, parentVars, childVars, message, made>>

\* consumerFunc compares the hashes: a mismatch is reported, otherwise the
\* message is printed, and both ways the loop starts over.
CheckHash(p) ==
  /\ pc[p] = "check"
  /\ Goto(p, "idle")
  /\ Forget(p)
  /\ UNCHANGED <<queueVars, semVars, parentVars, childVars, made>>

-----------------------------------------------------------------------------
(* Signals and the end of a child. *)

EndOfChild(p) ==
  /\ Goto(p, "exited")
  /\ Forget(p)
  /\ sigterm' = sigterm \ {p}
  /\ sigint' = sigint \ {p}
  /\ UNCHANGED <<queueVars, semVars, parentVars, running, made>>

\* Faulty variant: SIGTERM is caught by signalHandler, which only clears running.
DieGracefully(p) ==
  /\ p \in sigterm
  /\ running' = [running EXCEPT ![p] = FALSE]
  /\ sigterm' = sigterm \ {p}
  /\ UNCHANGED <<queueVars, semVars, parentVars, sigint, linked, pc, message, made>>

\* SIGTERM is not caught: the child ends wherever it is.
Die(p) ==
  /\ p \in sigterm
  /\ EndOfChild(p)
  /\ UNCHANGED linked

\* Faulty variant: the handler clears running in the parent only.
SignalHandlerOfParent(p) ==
  /\ p \in sigint
  /\ sigint' = sigint \ {p}
  /\ UNCHANGED <<queueVars, semVars, parentVars, running, sigterm, linked, pc, message, made>>

\* SIGINT; every interrupted semaphore wait is restarted (signal(2) semantics).
SignalHandler(p) ==
  /\ p \in sigint
  /\ running' = [running EXCEPT ![p] = FALSE]
  /\ sigint' = sigint \ {p}
  /\ UNCHANGED <<queueVars, semVars, parentVars, sigterm, linked, pc, message, made>>

\* The child falls out of producerFunc or consumerFunc into the end of main;
\* getppid() differs from the inherited currentPID once the parent is gone.
LeaveMain(p) ==
  /\ pc[p] = "idle" /\ ~running[p]
  /\ linked' = (linked /\ parentPc # "exited")
  /\ EndOfChild(p)

-----------------------------------------------------------------------------
(* The parent: the menu of main. *)

AtMenu == parentPc = "menu" /\ parentRunning /\ ~parentSigint

Fork(p) ==
  /\ AtMenu /\ pc[p] = "none"
  /\ Goto(p, "idle")
  /\ running' = [running EXCEPT ![p] = parentRunning]
  /\ UNCHANGED <<queueVars, semVars, sigterm, sigint, linked, message, made,
                 parentPc, parentRunning, parentSigint>>

LaunchProducer(p) ==
  /\ "p" \in Commands /\ Fork(p)
  /\ producerMas' = Append(producerMas, p)
  /\ UNCHANGED consumerMas

LaunchConsumer(p) ==
  /\ "c" \in Commands /\ Fork(p)
  /\ consumerMas' = Append(consumerMas, p)
  /\ UNCHANGED producerMas

\* fork returns -1 and the parent calls exit without any clean-up.
ForkFails ==
  /\ AtMenu /\ Commands \cap {"p", "c"} # {}
  /\ parentPc' = "exited"
  /\ UNCHANGED <<queueVars, semVars, childVars, pc, message, made, producerMas,
                 consumerMas, parentRunning, parentSigint>>

\* Faulty variant: the parent does not wait for the child it killed.
KillWithoutWait(p) ==
  /\ AtMenu
  /\ sigterm' = IF Alive(p) THEN sigterm \cup {p} ELSE sigterm
  /\ UNCHANGED <<queueVars, semVars, running, sigint, linked, pc, message, made,
                 parentPc, parentRunning, parentSigint>>

\* kill(pid, SIGTERM), then the parent blocks in wait.
Kill(p) ==
  /\ AtMenu
  /\ sigterm' = IF Alive(p) THEN sigterm \cup {p} ELSE sigterm
  /\ parentPc' = "wait"
  /\ UNCHANGED <<queueVars, semVars, running, sigint, linked, pc, message, made,
                 parentRunning, parentSigint>>

RemoveProducer ==
  /\ "d" \in Commands /\ producerMas # <<>>
  /\ Kill(Last(producerMas))
  /\ producerMas' = Front(producerMas)
  /\ UNCHANGED consumerMas

RemoveConsumer ==
  /\ "r" \in Commands /\ consumerMas # <<>>
  /\ Kill(Last(consumerMas))
  /\ consumerMas' = Front(consumerMas)
  /\ UNCHANGED producerMas

\* wait reaps any child that has exited, not the one that was just killed.
Reap(p) ==
  /\ parentPc = "wait" /\ pc[p] = "exited"
  /\ Goto(p, "none")
  /\ parentPc' = "menu"
  /\ UNCHANGED <<queueVars, semVars, childVars, message, made, producerMas,
                 consumerMas, parentRunning, parentSigint>>

\* Ctrl+C reaches every process of the foreground group.
CtrlC ==
  /\ "^C" \in Commands /\ parentPc # "exited" /\ parentRunning /\ ~parentSigint
  /\ sigint' = {p \in Procs : Alive(p)}
  /\ parentSigint' = TRUE
  /\ UNCHANGED <<queueVars, semVars, running, sigterm, linked, pc, message, made,
                 producerMas, consumerMas, parentPc, parentRunning>>

ParentSignalHandler ==
  /\ parentSigint /\ parentPc # "exited"
  /\ parentRunning' = FALSE
  /\ parentSigint' = FALSE
  /\ UNCHANGED <<queueVars, semVars, childVars, pc, message, made, producerMas,
                 consumerMas, parentPc>>

\* The loop is over (after one more character): the end of main unlinks the names.
ParentExit ==
  /\ parentPc = "menu" /\ ~parentRunning
  /\ parentPc' = "exited"
  /\ linked' = FALSE
  /\ UNCHANGED <<queueVars, semVars, running, sigterm, sigint, pc, message, made,
                 producerMas, consumerMas, parentRunning, parentSigint>>

-----------------------------------------------------------------------------
ProducerStep(p) ==
  \/ BuildMessage(p) \/ WaitEmpty(p) \/ WaitMutex(p) \/ WriteHeader(p)
  \/ CopyIn(p) \/ AdvanceHead(p) \/ PostFill(p) \/ PostMutex(p) \/ LeaveMain(p)

ConsumerStep(p) ==
  \/ EnterGet(p) \/ WaitFill(p) \/ WaitMutex(p) \/ ReadHeader(p) \/ CopyOut(p)
  \/ AdvanceTail(p) \/ PostEmpty(p) \/ PostMutex(p) \/ CheckHash(p) \/ LeaveMain(p)

Step(p) == (p \in Producers /\ ProducerStep(p)) \/ (p \in Consumers /\ ConsumerStep(p))

User ==
  \/ \E p \in Producers : LaunchProducer(p)
  \/ \E p \in Consumers : LaunchConsumer(p)
  \/ ForkFails \/ RemoveProducer \/ RemoveConsumer \/ CtrlC

\* A pending signal takes effect.
Delivered(p) == Die(p) \/ SignalHandler(p)

\* main outside of its menu, or with a key that lets it notice a Ctrl+C.
MainStep == (\E p \in Procs : Reap(p)) \/ ParentSignalHandler \/ ParentExit

System == MainStep \/ \E p \in Procs : Step(p) \/ Delivered(p)

Next == User \/ System

Spec == Init /\ [][Next]_vars

\* Every process runs and every signal is delivered.  Of the user only the key is
\* expected that lets main notice a Ctrl+C.
Fairness ==
  /\ \A p \in Procs : WF_vars(Step(p)) /\ WF_vars(Delivered(p))
  /\ WF_vars(MainStep)

FairSpec == Spec /\ Fairness

=============================================================================
