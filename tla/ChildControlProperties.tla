----------------------- MODULE ChildControlProperties -----------------------
(***************************************************************************)
(* What the user may expect of parent.c: that children do as he said last, *)
(* that removing them ends, and that none is left behind.                  *)
(***************************************************************************)
EXTENDS ChildControl

TypeOK ==
  /\ childPidMas \in Seq(Pids) /\ Len(childPidMas) <= Limit + 1
  /\ pc \in PCs /\ input \in Commands \cup {NoCommand}
  /\ order \in {"USR1", "USR2"} /\ todo \in Seq(Pids) /\ left \in 0..Limit + 1
  /\ timer \in BOOLEAN /\ alarm \in {"default", "allow", "ignore"}
  /\ state \in [Pids -> States] /\ pending \in [Pids -> SUBSET Signals]
  /\ permission \in [Pids -> BOOLEAN] /\ told \in [Pids -> BOOLEAN]
  /\ mixed \subseteq Pids /\ stale \in BOOLEAN /\ done \in 0..MaxCommands
  /\ due \in {"none", "open", "granted", "overtaken"}
  /\ pc \in {"setTimer", "prompt", "grant"} => input.num < Len(childPidMas)

\* A child that listens and has heard everything there is to hear.
Settled(c) == state[c] = "up" /\ pending[c] = {}
Obeys(c) == permission[c] = told[c]

(***************************************************************************)
(* Once the signals are delivered each child prints or does not, as the    *)
(* user or the timer he started said last, and not as an earlier signal of *)
(* the same round said: unless two opposite signals reached it together or *)
(* the timer came too late.                                                *)
(***************************************************************************)
ObeysTheUser ==
  pc = "menu" /\ ~stale => \A c \in Listed \ mixed : Settled(c) => Obeys(c)

Unreaped == {c \in Launched : state[c] # "reaped"}

\* There is a child for every removal that is still to come, and one on its way
\* out for the removal that waits, for wait takes any child.
RemovalsHaveChildren ==
  /\ pc # "wait" => Cardinality(Unreaped) >= Len(childPidMas)
  /\ pc = "wait" => \E c \in Unreaped : state[c] = "dead" \/ "TERM" \in pending[c]

\* 'q' leaves nobody behind: every child has been told to go.
NobodyOutlivesQuit ==
  pc = "exited" /\ input.key = "q" =>
    \A c \in Launched : Alive(c) => "TERM" \in pending[c]

(***************************************************************************)
(* The parent's list, the signals under way and the children that are left *)
(* keep in step, whoever dies early and whatever SIGALRM breaks off, up to *)
(* the 'q' that ends them all.                                             *)
(***************************************************************************)
ControlInvariant == TypeOK /\ RemovalsHaveChildren /\ NobodyOutlivesQuit

(***************************************************************************)
(* remove_child and remove_all_children return from wait.                  *)
(***************************************************************************)
WaitReturns == (pc = "wait") ~> (pc # "wait")

-----------------------------------------------------------------------------
(***************************************************************************)
(* "'s' - ban statistic for all child processes": a ban does not end a     *)
(* child, and neither does a permission.                                   *)
(***************************************************************************)
OrdersDoNotKill == \A c \in Listed : Alive(c)

(***************************************************************************)
(* The same line: when it was the last command, nobody prints.             *)
(***************************************************************************)
BanHolds ==
  pc = "menu" /\ input = [key |-> "s", num |-> AllChildren] =>
    \A c \in Listed \ mixed : Settled(c) => ~permission[c]

(***************************************************************************)
(* "'p + num' - allow statistic for only child process with num": after    *)
(* the answer 'g' only that child prints.                                  *)
(***************************************************************************)
OnlyChosenPrints ==
  pc = "menu" /\ due = "granted" =>
    \A c \in Listed \ mixed : Settled(c) => Obeys(c)

=============================================================================
