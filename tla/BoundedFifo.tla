---------------------------- MODULE BoundedFifo ----------------------------
(***************************************************************************)
(* What the message queues of Lab4 and Lab5 promise: a first-in first-out  *)
(* buffer of at most Capacity messages.  putMessage appends one message    *)
(* when there is room, getMessage removes the oldest one.  sent and        *)
(* received record the history of both.                                    *)
(***************************************************************************)
EXTENDS Naturals, Sequences

CONSTANTS Capacity,   \* the number of slots
          Message     \* the messages that can be put

VARIABLES queue,      \* the messages put and not yet got, oldest first
          sent,       \* every message put, in the order of the puts
          received    \* every message got, in the order of the gets

vars == <<queue, sent, received>>

Init ==
  /\ queue = <<>>
  /\ sent = <<>>
  /\ received = <<>>

Put(m) ==
  /\ Len(queue) < Capacity
  /\ queue' = Append(queue, m)
  /\ sent' = Append(sent, m)
  /\ UNCHANGED received

Get ==
  /\ queue # <<>>
  /\ queue' = Tail(queue)
  /\ received' = Append(received, Head(queue))
  /\ UNCHANGED sent

Next == Get \/ \E m \in Message : Put(m)

Spec == Init /\ [][Next]_vars

=============================================================================
