----------------------------- MODULE ChildStat -----------------------------
(***************************************************************************)
(* Lab3/child.c: a loop that assigns a pair of ints again and again, while *)
(* SIGALRM counts the values it finds in the pair.  After enough ticks the *)
(* loop prints the counters and clears them, if SIGUSR2 has not forbidden  *)
(* it.  A handler runs between any two stores of the loop.                 *)
(***************************************************************************)
EXTENDS Integers

CONSTANTS
  MaxIterations,   \* MAX_ITERATIONS
  MaxTicks         \* bound: no SIGALRM while count_all has this value

ASSUME ChildStatAssumption ==
  /\ MaxIterations \in Nat
  /\ MaxTicks \in Nat /\ MaxTicks > MaxIterations

Values == {<<0, 0>>, <<0, 1>>, <<1, 0>>, <<1, 1>>}

\* The counters, numbered from right to left in
\* count_all = count00 = count01 = count10 = count11 = 0.
Counters == 1..5
CounterOf(p) == 4 - 2 * p[1] - p[2]
All == 5

VARIABLES
  pair, count, permissionOutput,
  loopPc,              \* the next step of the loop
  cleared, reg,    \* in the reset: how many are stored, the value to be stored
  late,            \* history: ticks since the counters were last printed
  shown,           \* history: the sum of the counters last printed, or 0
  disobeyed        \* history: reports begun since SIGUSR2 came last

loopVars == <<cleared, reg>>
statVars == <<pair, count, permissionOutput, loopPc, loopVars, late, shown, disobeyed>>

StatInit ==
  /\ pair = <<0, 0>>
  /\ count = [c \in Counters |-> 0]
  /\ permissionOutput = TRUE
  /\ loopPc = "zero1" /\ cleared = 0 /\ reg = 0
  /\ late = 0 /\ shown = 0 /\ disobeyed = 0

SumOfCounts == count[1] + count[2] + count[3] + count[4]

-----------------------------------------------------------------------------
(* The loop.  The compiler stores a pair int by int. *)

Store(from, field, value, to) ==
  /\ loopPc = from
  /\ pair' = [pair EXCEPT ![field] = value]
  /\ loopPc' = to
  /\ UNCHANGED <<count, permissionOutput, loopVars, late, shown, disobeyed>>

Assign ==
  \/ Store("zero1", 1, 0, "zero2") \/ Store("zero2", 2, 0, "one1")
  \/ Store("one1", 1, 1, "one2") \/ Store("one2", 2, 1, "check")

\* Faulty variant: the report is due at one value of the counter only.
CheckExactly ==
  /\ loopPc = "check"
  /\ loopPc' = IF count[All] = MaxIterations + 1 THEN "allowed" ELSE "zero1"
  /\ UNCHANGED <<pair, count, permissionOutput, loopVars, late, shown, disobeyed>>

CheckCount ==
  /\ loopPc = "check"
  /\ loopPc' = IF count[All] > MaxIterations THEN "allowed" ELSE "zero1"
  /\ UNCHANGED <<pair, count, permissionOutput, loopVars, late, shown, disobeyed>>

CheckPermission ==
  /\ loopPc = "allowed"
  /\ loopPc' = IF permissionOutput THEN "print" ELSE "zero1"
  /\ UNCHANGED <<pair, count, permissionOutput, loopVars, late, shown, disobeyed>>

\* The arguments are read; what printf does with them changes no state.
Report ==
  /\ loopPc = "print"
  /\ shown' = SumOfCounts /\ late' = 0
  /\ disobeyed' = IF permissionOutput THEN disobeyed ELSE disobeyed + 1
  /\ loopPc' = "reset"
  /\ UNCHANGED <<pair, count, permissionOutput, loopVars>>

\* Faulty variant: count_all is cleared first, the counters after it.
ResetFirstBackward ==
  /\ loopPc = "reset"
  /\ IF cleared = 0
     THEN /\ count' = [count EXCEPT ![All] = 0]
          /\ cleared' = 1 /\ UNCHANGED loopPc
     ELSE /\ count' = [c \in Counters |-> IF c = All THEN count[c] ELSE 0]
          /\ cleared' = 0 /\ loopPc' = "zero1"
  /\ UNCHANGED <<pair, permissionOutput, reg, late, shown, disobeyed>>

ResetFirst ==
  /\ loopPc = "reset"
  /\ count' = [count EXCEPT ![1] = 0]
  /\ cleared' = 1 /\ reg' = 0
  /\ loopPc' = "load"
  /\ UNCHANGED <<pair, permissionOutput, late, shown, disobeyed>>

\* The value of an assignment is that of its left side: the compiler may read it
\* again (gcc without -O does) or take the value it stored.
Load ==
  /\ loopPc = "load"
  /\ reg' \in {reg, count[cleared]}
  /\ loopPc' = "store"
  /\ UNCHANGED <<pair, count, permissionOutput, cleared, late, shown, disobeyed>>

StoreNext ==
  /\ loopPc = "store"
  /\ count' = [count EXCEPT ![cleared + 1] = reg]
  /\ IF cleared + 1 = All
     THEN cleared' = 0 /\ reg' = 0 /\ loopPc' = "zero1"
     ELSE cleared' = cleared + 1 /\ UNCHANGED reg /\ loopPc' = "load"
  /\ UNCHANGED <<pair, permissionOutput, late, shown, disobeyed>>

-----------------------------------------------------------------------------
(* The handlers: they do not interrupt each other where it would matter. *)

PairHandling ==
  /\ count[All] < MaxTicks
  /\ count' = [count EXCEPT ![CounterOf(pair)] = @ + 1, ![All] = @ + 1]
  /\ late' = late + 1
  /\ UNCHANGED <<pair, permissionOutput, loopPc, loopVars, shown, disobeyed>>

AllowOutput ==
  /\ permissionOutput' = TRUE /\ disobeyed' = 0
  /\ UNCHANGED <<pair, count, loopPc, loopVars, late, shown>>

BanOutput ==
  /\ permissionOutput' = FALSE
  /\ disobeyed' = IF permissionOutput THEN 0 ELSE disobeyed
  /\ UNCHANGED <<pair, count, loopPc, loopVars, late, shown>>

-----------------------------------------------------------------------------
Loop ==
  Assign \/ CheckCount \/ CheckPermission \/ Report \/ ResetFirst \/ Load \/ StoreNext

StatNext == Loop \/ PairHandling \/ AllowOutput \/ BanOutput

StatSpec == StatInit /\ [][StatNext]_statVars

\* The process gets its turns, and the interval timer goes on.
StatFairSpec == StatSpec /\ WF_statVars(Loop) /\ WF_statVars(PairHandling)

-----------------------------------------------------------------------------
StatTypeOK ==
  /\ pair \in Values
  /\ count \in [Counters -> Nat]
  /\ permissionOutput \in BOOLEAN
  /\ loopPc \in {"zero1", "zero2", "one1", "one2", "check", "allowed", "print", "reset",
             "load", "store"}
  /\ cleared \in 0..All - 1 /\ reg \in Nat
  /\ late \in Nat /\ shown \in Nat /\ disobeyed \in Nat

(***************************************************************************)
(* Ticks that fall between the stores of the reset do not leave count_all  *)
(* above the counters it stands for: the next report is not made early.    *)
(***************************************************************************)
CountsCoverAll ==
  loopPc \notin {"reset", "load", "store"} => SumOfCounts >= count[All]

(***************************************************************************)
(* Every report shows more ticks than MAX_ITERATIONS, wherever the ticks   *)
(* fell that came during the reset before it.                              *)
(***************************************************************************)
ReportIsFull == loopPc \in {"reset", "load", "store"} => shown > MaxIterations

(***************************************************************************)
(* A ban that finds the loop between its test and printf comes too late    *)
(* for one report, never for two.                                          *)
(***************************************************************************)
BanIsObeyed == disobeyed <= 1

(***************************************************************************)
(* The statistic "{0,0}:%d, {0,1}:%d, ..." counts a tick once: what has    *)
(* gathered since the last report is not more than the ticks since.        *)
(***************************************************************************)
NoTickTwice ==
  loopPc \in {"zero1", "zero2", "one1", "one2"} /\ shown > 0 => SumOfCounts <= late

(***************************************************************************)
(* A child that is allowed for good reports again and again.               *)
(***************************************************************************)
AllowedReports == <>[]permissionOutput => []<>(loopPc = "print")

-----------------------------------------------------------------------------
Resetting == loopPc \in {"reset", "load", "store"}

(* In the reset the value on its way is at most the counter it came from,  *)
(* so that count_all gets no more than count00 has by then.                *)
ResetInvariant ==
  /\ loopPc \notin {"load", "store"} => cleared = 0
  /\ loopPc \in {"load", "store"} => cleared \in 1..4 /\ reg <= count[cleared]

(* A report is being prepared only when it is due, and shows enough. *)
ReportInvariant ==
  /\ loopPc \in {"allowed", "print"} => count[All] > MaxIterations
  /\ Resetting => shown > MaxIterations

(* A ban makes itself felt at the latest before the next report. *)
BanInvariant ==
  /\ disobeyed <= 1
  /\ permissionOutput => disobeyed = 0
  /\ loopPc = "print" => disobeyed = 0

(***************************************************************************)
(* Together they are inductive: whatever ticks and orders fall between two *)
(* stores of the loop, count_all is not above the counters, a report that  *)
(* is made was due, and at most one report comes after a ban.              *)
(***************************************************************************)
StatInvariant == StatTypeOK /\ CountsCoverAll /\ ResetInvariant /\ ReportInvariant /\ BanInvariant

=============================================================================
