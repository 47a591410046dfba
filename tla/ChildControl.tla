---------------------------- MODULE ChildControl ----------------------------
(***************************************************************************)
(* Lab3/parent.c: the parent launches and removes children and tells them  *)
(* with SIGUSR1 and SIGUSR2 whether to print; a five-second timer takes    *)
(* back what the command 'p' forbade.  A child is seen as far as signals   *)
(* reach it: what it prints is in ChildStat.                               *)
(***************************************************************************)
EXTENDS Integers, Sequences, FiniteSets, SequencesExt

CONSTANTS
  MaxLaunches,   \* bound: children launched in all
  MaxCommands,   \* bound: commands carried out
  Limit,         \* 99 in launch_child: a child of a higher number gives up
  Keys           \* the commands in use, a subset of AllKeys

AllKeys == {"+", "-", "k", "s", "g", "p", "q"}

ASSUME ChildControlAssumption ==
  /\ MaxLaunches \in Nat /\ MaxCommands \in Nat
  /\ Limit \in Nat \ {0} /\ Keys \subseteq AllKeys

Pids == 1..MaxLaunches
AllChildren == -1                   \* a command without a number
NoCommand == [key |-> "none", num |-> AllChildren]
Commands == [key : Keys \ {"s", "g", "p"}, num : {AllChildren}]
            \cup [key : Keys \cap {"s", "g"}, num : {AllChildren} \cup 0..Limit]
            \cup [key : Keys \cap {"p"}, num : 0..Limit]

VARIABLES
  childPidMas,   \* the pids in use, childPidMas[0..child_count - 1]
  pc,            \* what the parent is doing
  input,         \* the command last read: fgets leaves it there when it fails
  order, todo,   \* a loop of kills: the signal, the children still to be sent it
  left,          \* remove_all_children: rounds still to come
  timer, alarm,  \* the interval timer is running; what SIGALRM does
  state, pending, permission,   \* per child: its life, its signals, permissionOutput
  done,          \* bound: commands carried out
  told,          \* history: what the user said last of each child's output
  mixed,         \* history: children sent a signal while the opposite one was pending
  due,           \* history: how the last 'p' stands to its timer
  stale          \* history: the timer overruled a later order

killVars == <<order, todo>>
childVars == <<state, pending, permission, mixed>>
timerVars == <<timer, alarm>>
userVars == <<told, due, stale>>
vars == <<childPidMas, pc, input, killVars, left, timerVars, childVars, done, userVars>>

PCs == {"menu", "send", "kill", "wait", "setTimer", "prompt", "grant", "ignore", "exited"}
States == {"none", "forked", "usr1", "up", "clone", "dead", "reaped"}
Signals == {"USR1", "USR2", "TERM"}
Opposite(s) == IF s = "USR1" THEN "USR2" ELSE "USR1"

Init ==
  /\ childPidMas = <<>>
  /\ pc = "menu" /\ input = NoCommand
  /\ order = "USR1" /\ todo = <<>> /\ left = 0
  /\ timer = FALSE /\ alarm = "default"
  /\ state = [c \in Pids |-> "none"]
  /\ pending = [c \in Pids |-> {}]
  /\ permission = [c \in Pids |-> TRUE]
  /\ done = 0
  /\ told = [c \in Pids |-> TRUE]
  /\ mixed = {} /\ due = "none" /\ stale = FALSE

Listed == Range(childPidMas)
Alive(c) == state[c] \in {"forked", "usr1", "up", "clone"}
Launched == {c \in Pids : state[c] # "none"}

\* kill: a pending signal more, unless the process has come to its end.
KillAll(cs, s) ==
  LET hit == {c \in cs : Alive(c)}
  IN  /\ pending' = [c \in Pids |-> IF c \in hit THEN pending[c] \cup {s} ELSE pending[c]]
      /\ mixed' = IF s = "TERM" THEN mixed
                  ELSE {c \in hit : Opposite(s) \in pending[c]} \cup (mixed \ hit)
      /\ UNCHANGED <<state, permission>>

-----------------------------------------------------------------------------
(* A child, as far as signals reach it. *)

ChildStep(c, from, to) ==
  /\ state[c] = from
  /\ state' = [state EXCEPT ![c] = to]
  /\ UNCHANGED <<childPidMas, pc, input, killVars, left, timerVars, pending, permission,
                 mixed, done, userVars>>

\* execl and the two sigactions of child.c; a failed execl returns into main, where
\* pid = 0 makes the loop idle for ever.
Starts(c) ==
  \/ ChildStep(c, "forked", "usr1") \/ ChildStep(c, "usr1", "up")
  \/ ChildStep(c, "forked", "clone")

\* A signal is acted on; the system may choose among the pending ones.
Deliver(c, s) ==
  /\ Alive(c) /\ s \in pending[c]
  /\ pending' = [pending EXCEPT ![c] = @ \ {s}]
  /\ IF (s = "USR1" /\ state[c] \in {"usr1", "up"}) \/ (s = "USR2" /\ state[c] = "up")
     THEN permission' = [permission EXCEPT ![c] = s = "USR1"] /\ UNCHANGED state
     ELSE state' = [state EXCEPT ![c] = "dead"] /\ UNCHANGED permission
  /\ UNCHANGED <<childPidMas, pc, input, killVars, left, timerVars, mixed, done, userVars>>

-----------------------------------------------------------------------------
(* The parent's commands. *)

Overtaken == IF due = "none" THEN "none" ELSE "overtaken"

\* fork fails: the parent exits and leaves its children.
LaunchFails ==
  /\ pc' = "exited"
  /\ UNCHANGED <<childPidMas, killVars, left, timerVars, childVars, userVars>>

\* The child looks at its number before execl and gives up beyond Limit.  The array
\* has one place more; with more children than that it overflows, which the model
\* does not follow.
Launch ==
  /\ Launched # Pids /\ Len(childPidMas) <= Limit
  /\ LET c == Cardinality(Launched) + 1
     IN  /\ state' = [state EXCEPT
                        ![c] = IF Len(childPidMas) < Limit THEN "forked" ELSE "dead"]
         /\ childPidMas' = Append(childPidMas, c)
  /\ UNCHANGED <<pc, killVars, left, timerVars, pending, permission, mixed, userVars>>

\* Faulty variant: the first child is told to go, the last one taken out of the list.
RemoveLastKillFirst ==
  /\ childPidMas' = Front(childPidMas)
  /\ KillAll({Head(childPidMas)}, "TERM")
  /\ pc' = "wait"

\* child_count is lowered first: the handler of SIGALRM leaves the last child alone.
RemoveLast ==
  /\ childPidMas' = Front(childPidMas)
  /\ KillAll({Last(childPidMas)}, "TERM")
  /\ pc' = "wait"

RemoveChild ==
  /\ IF childPidMas = <<>> THEN UNCHANGED <<childPidMas, childVars, pc>> ELSE RemoveLast
  /\ left' = 0
  /\ UNCHANGED <<killVars, timerVars, userVars>>

RemoveAll ==
  /\ left' = Len(childPidMas)
  /\ pc' = "kill"
  /\ UNCHANGED <<childPidMas, killVars, timerVars, childVars, userVars>>

\* 's' and 'g', to one child or to all of them.
Output(s, num) ==
  LET cs == IF num = AllChildren THEN childPidMas
            ELSE IF num < Len(childPidMas) THEN <<childPidMas[num + 1]>> ELSE <<>>
  IN  /\ order' = s /\ todo' = cs
      /\ told' = [c \in Pids |-> IF c \in Range(cs) THEN s = "USR1" ELSE told[c]]
      /\ due' = IF cs = <<>> THEN due ELSE Overtaken
      /\ stale' = (stale /\ num # AllChildren)
      /\ pc' = "send"
      /\ UNCHANGED <<childPidMas, left, timerVars, childVars>>

\* 'p': first everybody is forbidden.
HandlingPressingP ==
  /\ order' = "USR2" /\ todo' = childPidMas
  /\ told' = [c \in Pids |-> IF c \in Listed THEN FALSE ELSE told[c]]
  /\ due' = Overtaken /\ stale' = FALSE
  /\ pc' = "send"
  /\ UNCHANGED <<childPidMas, left, timerVars, childVars>>

Do(cmd) ==
  /\ pc = "menu" /\ done < MaxCommands
  /\ done' = done + 1 /\ input' = cmd
  /\ \/ cmd.key = "+" /\ (Launch \/ LaunchFails)
     \/ cmd.key = "-" /\ RemoveChild
     \/ cmd.key \in {"k", "q"} /\ RemoveAll
     \/ cmd.key = "s" /\ Output("USR2", cmd.num)
     \/ cmd.key = "g" /\ Output("USR1", cmd.num)
     \/ cmd.key = "p" /\ HandlingPressingP

Command == \E cmd \in Commands : Do(cmd)

\* At the end of the input fgets fails and the buffer keeps the command before.
CommandAgain == input \in Commands /\ Do(input)

-----------------------------------------------------------------------------
(* The rest of a command, step by step: the handler may run in between. *)

Send ==
  /\ pc = "send" /\ todo # <<>>
  /\ KillAll({Head(todo)}, order)
  /\ todo' = Tail(todo)
  /\ UNCHANGED <<childPidMas, pc, input, order, left, timerVars, done, userVars>>

Sent ==
  /\ pc = "send" /\ todo = <<>>
  /\ pc' = IF input.key = "p" /\ input.num < Len(childPidMas) THEN "setTimer" ELSE "menu"
  /\ UNCHANGED <<childPidMas, input, killVars, left, timerVars, childVars, done, userVars>>

KillLast ==
  /\ pc = "kill" /\ left > 0
  /\ RemoveLast
  /\ left' = left - 1
  /\ UNCHANGED <<input, killVars, timerVars, done, userVars>>

AllRemoved ==
  /\ pc = "kill" /\ left = 0
  /\ pc' = IF input.key = "q" THEN "exited" ELSE "menu"
  /\ UNCHANGED <<childPidMas, input, killVars, left, timerVars, childVars, done, userVars>>

AfterWait == IF input.key = "-" THEN "menu" ELSE "kill"

\* wait takes any child that has come to its end.
Wait ==
  /\ pc = "wait"
  /\ \E c \in Pids :
       /\ state[c] = "dead"
       /\ state' = [state EXCEPT ![c] = "reaped"]
  /\ pc' = AfterWait
  /\ UNCHANGED <<childPidMas, input, killVars, left, timerVars, pending, permission, mixed,
                 done, userVars>>

\* setitimer and sigaction: the five seconds do not pass between the two.
SetTimer ==
  /\ pc = "setTimer"
  /\ timer' = TRUE /\ alarm' = "allow"
  /\ due' = "open"
  /\ pc' = "prompt"
  /\ UNCHANGED <<childPidMas, input, killVars, left, childVars, done, told, stale>>

\* The user's answer.
Answer(g) ==
  /\ pc = "prompt"
  /\ pc' = IF g THEN "grant" ELSE "menu"
  /\ due' = IF g THEN "granted" ELSE due
  /\ told' = IF g THEN [told EXCEPT ![childPidMas[input.num + 1]] = TRUE] ELSE told
  /\ UNCHANGED <<childPidMas, input, killVars, left, timerVars, childVars, done, stale>>

Grant ==
  /\ pc = "grant"
  /\ KillAll({childPidMas[input.num + 1]}, "USR1")
  /\ pc' = "ignore"
  /\ UNCHANGED <<childPidMas, input, killVars, left, timerVars, done, userVars>>

\* Faulty variant: the handler stays in place.
IgnoreNothing ==
  /\ pc = "ignore"
  /\ pc' = "menu"
  /\ UNCHANGED <<childPidMas, input, killVars, left, timerVars, childVars, done, userVars>>

IgnoreAlarm ==
  /\ pc = "ignore"
  /\ alarm' = "ignore"
  /\ pc' = "menu"
  /\ UNCHANGED <<childPidMas, input, killVars, left, timer, childVars, done, userVars>>

\* A call that SIGALRM interrupts is restarted or fails, as the flags the handler's
\* structure happens to hold will have it: wait is over, the answer is any answer.
Interrupted ==
  CASE pc = "wait" -> {"wait", AfterWait}
    [] pc = "prompt" -> {"prompt", "menu", "grant"}
    [] OTHER -> {pc}

\* The handler: everybody in the list may print again.
AllowAllForSignal ==
  /\ KillAll(Listed, "USR1")
  /\ told' = IF due = "open" THEN [c \in Pids |-> c \in Listed \/ told[c]] ELSE told
  /\ stale' = (stale \/ due = "overtaken" \/ pc \in {"grant", "ignore"})
  /\ due' = IF due = "granted" THEN due ELSE "none"
  /\ pc' \in Interrupted

Alarm ==
  /\ timer /\ pc # "exited"
  /\ timer' = FALSE
  /\ IF alarm = "allow" THEN AllowAllForSignal
     ELSE UNCHANGED <<pc, childVars, userVars>>
  /\ UNCHANGED <<childPidMas, input, killVars, left, alarm, done>>

-----------------------------------------------------------------------------
Parent ==
  \/ Command \/ CommandAgain \/ Send \/ Sent \/ KillLast \/ AllRemoved \/ Wait
  \/ SetTimer \/ (\E g \in BOOLEAN : Answer(g)) \/ Grant \/ IgnoreAlarm

Child(c) == Starts(c) \/ \E s \in Signals : Deliver(c, s)

Next == Parent \/ Alarm \/ \E c \in Pids : Child(c)

Spec == Init /\ [][Next]_vars

\* SIGTERM reaches its process in the end, and a wait with something to take returns.
FairSpec ==
  Spec /\ WF_vars(Wait) /\ \A c \in Pids : WF_vars(Deliver(c, "TERM"))

=============================================================================
