----------------------------- MODULE RecordLock -----------------------------
(***************************************************************************)
(* Lab7: several processes change records of one file.  A record is read   *)
(* without a lock, edited by the user, locked with fcntl, read again,      *)
(* compared with the first copy and written.  fcntl's locks belong to the  *)
(* process: closing any descriptor of the file gives all of them back.     *)
(***************************************************************************)
EXTENDS Naturals, FiniteSets

CONSTANTS
  Procs,        \* the processes
  NumRecords,   \* records of the file (ten in createRecords)
  Values,       \* contents of a record
  Initial,      \* the content createRecords writes
  MaxKills,     \* bound: how many processes are killed
  Options       \* the menu's options the users choose: "create", "change", "exit"

Missing == "missing"     \* beyond the end of the file

ASSUME RecordLockAssumption ==
  /\ IsFiniteSet(Procs) /\ NumRecords \in Nat \ {0}
  /\ Initial \in Values /\ Missing \notin Values /\ MaxKills \in Nat
  /\ Options \subseteq {"create", "change", "exit"}

VARIABLES
  exists, file,    \* students.bin: is it there, and its records
  lock,            \* per record: the process that holds the lock, or Nobody
  pc, my,          \* per process: where it is, and its variables in main
  torn,            \* history: a process was killed between truncation and flush
  late,            \* history: whose record others wrote after the second read
  kills

fileVars == <<exists, file>>
vars == <<fileVars, lock, pc, my, torn, late, kills>>

Records == 1..NumRecords
Nobody == "nobody"
Hole == "hole"           \* zeros, below a record written to a truncated file
Garbage == "garbage"     \* what getRecord returns when read gives nothing
Stored == Values \cup {Hole, Missing}
Copies == Values \cup {Hole, Garbage}

PCs == {"start", "menu", "create", "flush", "read", "edit", "lock", "reread", "close",
        "compare", "put", "exited", "dead"}

\* main's variables between two changes: nothing reads them before they are set.
Idle == [recordNum |-> 1, studentCop |-> Garbage, student |-> Garbage, studentNew |-> Garbage]

Init ==
  /\ exists = FALSE /\ file = [r \in Records |-> Missing]
  /\ lock = [r \in Records |-> Nobody]
  /\ pc = [p \in Procs |-> "start"] /\ my = [p \in Procs |-> Idle]
  /\ torn = FALSE /\ late = {} /\ kills = 0

Goto(p, label) == pc' = [pc EXCEPT ![p] = label]

\* The lock table after p has called close() on a descriptor of the file.
Released(p) == [r \in Records |-> IF lock[r] = p THEN Nobody ELSE lock[r]]

\* getRecord: a read beyond the end leaves the structure as it was.
GetRecord(r) == IF file[r] = Missing THEN Garbage ELSE file[r]

\* p writes the records rs: too late for the others that have read theirs again.
TooLateFor(p, rs) ==
  late' = late \cup {q \in Procs \ {p} : /\ my[q].recordNum \in rs
                                         /\ pc[q] \in {"close", "compare", "put"}}

-----------------------------------------------------------------------------
CheckExistingFile(p) ==
  /\ pc[p] = "start"
  /\ Goto(p, IF exists THEN "menu" ELSE "create")
  /\ UNCHANGED <<fileVars, lock, my, torn, late, kills>>

ChooseCreate(p) ==
  /\ pc[p] = "menu" /\ "create" \in Options
  /\ Goto(p, "create")
  /\ UNCHANGED <<fileVars, lock, my, torn, late, kills>>

\* fopen with "wb" truncates; the records stay in stdio's buffer until fclose.
Truncate(p) ==
  /\ pc[p] = "create"
  /\ exists' = TRUE /\ file' = [r \in Records |-> Missing]
  /\ TooLateFor(p, Records)
  /\ Goto(p, "flush")
  /\ UNCHANGED <<lock, my, torn, kills>>

Flush(p) ==
  /\ pc[p] = "flush"
  /\ file' = [r \in Records |-> Initial]
  /\ TooLateFor(p, Records)
  /\ Goto(p, "menu")
  /\ UNCHANGED <<exists, lock, my, torn, kills>>

\* Option 4; option 3 ends after the first read.
ChooseChange(p, r) ==
  /\ pc[p] = "menu" /\ "change" \in Options
  /\ my' = [my EXCEPT ![p].recordNum = r]
  /\ Goto(p, "read")
  /\ UNCHANGED <<fileVars, lock, torn, late, kills>>

Exit(p) ==
  /\ pc[p] = "menu" /\ "exit" \in Options
  /\ Goto(p, "exited")
  /\ UNCHANGED <<fileVars, lock, my, torn, late, kills>>

\* The first getRecord, without a lock.
Read(p) ==
  /\ pc[p] = "read"
  /\ my' = [my EXCEPT ![p].studentCop = GetRecord(my[p].recordNum)]
  /\ lock' = Released(p)
  /\ Goto(p, "edit")
  /\ UNCHANGED <<fileVars, torn, late, kills>>

\* changeStudent: the user skips every field, or enters something; the fields
\* that are skipped keep whatever the first copy holds.
Edit(p) ==
  /\ pc[p] = "edit"
  /\ \/ /\ my' = [my EXCEPT ![p] = Idle]
        /\ Goto(p, "menu")
     \/ /\ \E v \in Values \cup ({my[p].studentCop} \cap {Garbage, Hole}) :
             my' = [my EXCEPT ![p].student = v]
        /\ Goto(p, "lock")
  /\ UNCHANGED <<fileVars, lock, torn, late, kills>>

\* open and fcntl(F_SETLKW).
LockRecord(p) ==
  /\ pc[p] = "lock" /\ lock[my[p].recordNum] = Nobody
  /\ lock' = [lock EXCEPT ![my[p].recordNum] = p]
  /\ Goto(p, "reread")
  /\ UNCHANGED <<fileVars, my, torn, late, kills>>

Reread(p) ==
  /\ pc[p] = "reread"
  /\ my' = [my EXCEPT ![p].studentNew = GetRecord(my[p].recordNum)]
  /\ late' = late \ {p}
  /\ Goto(p, "close")
  /\ UNCHANGED <<fileVars, lock, torn, kills>>

\* getRecord closes its own descriptor: the lock is gone.
CloseAfterRead(p) ==
  /\ pc[p] = "close"
  /\ lock' = Released(p)
  /\ Goto(p, "compare")
  /\ UNCHANGED <<fileVars, my, torn, late, kills>>

\* What an uninitialized structure compares equal to is anybody's guess.
Equal(p) ==
  IF Garbage \in {my[p].studentCop, my[p].studentNew} THEN BOOLEAN
  ELSE {my[p].studentCop = my[p].studentNew}

\* Faulty variant: a record that has changed is reported but written anyway.
CompareAndIgnore(p) ==
  /\ pc[p] = "compare"
  /\ Goto(p, "put")
  /\ UNCHANGED <<fileVars, lock, my, torn, late, kills>>

\* "Record was unlocked, but changed by another user": unlock and close.
Compare(p) ==
  /\ pc[p] = "compare"
  /\ \/ /\ TRUE \in Equal(p)
        /\ Goto(p, "put")
        /\ UNCHANGED <<lock, my>>
     \/ /\ FALSE \in Equal(p)
        /\ lock' = Released(p)
        /\ my' = [my EXCEPT ![p] = Idle]
        /\ Goto(p, "menu")
  /\ UNCHANGED <<fileVars, torn, late, kills>>

\* Faulty variant: putRecord opens the file the way createRecords does.
PutTruncating(p) ==
  /\ pc[p] = "put"
  /\ file' = [r \in Records |-> IF r = my[p].recordNum THEN my[p].student
                              ELSE IF r < my[p].recordNum THEN Hole ELSE Missing]
  /\ lock' = Released(p)
  /\ TooLateFor(p, Records)
  /\ my' = [my EXCEPT ![p] = Idle]
  /\ Goto(p, "menu")
  /\ UNCHANGED <<exists, torn, kills>>

\* putRecord, and then unlockRecord and close.
Put(p) ==
  /\ pc[p] = "put"
  /\ file' = [r \in Records |->
                CASE r = my[p].recordNum -> my[p].student
                  [] r < my[p].recordNum /\ file[r] = Missing -> Hole
                  [] OTHER -> file[r]]
  /\ lock' = Released(p)
  /\ TooLateFor(p, {my[p].recordNum})
  /\ my' = [my EXCEPT ![p] = Idle]
  /\ Goto(p, "menu")
  /\ UNCHANGED <<exists, torn, kills>>

\* SIGINT or SIGKILL at any moment; stdio's buffer is lost, the kernel unlocks.
Kill(p) ==
  /\ kills < MaxKills /\ pc[p] \notin {"exited", "dead"}
  /\ kills' = kills + 1
  /\ lock' = Released(p)
  /\ torn' = (torn \/ pc[p] = "flush")
  /\ my' = [my EXCEPT ![p] = Idle]
  /\ Goto(p, "dead")
  /\ UNCHANGED <<fileVars, late>>

Restart(p) ==
  /\ pc[p] \in {"exited", "dead"}
  /\ Goto(p, "start")
  /\ UNCHANGED <<fileVars, lock, my, torn, late, kills>>

-----------------------------------------------------------------------------
Next ==
  \E p \in Procs :
    \/ CheckExistingFile(p) \/ Truncate(p) \/ Flush(p) \/ Read(p) \/ LockRecord(p)
    \/ Reread(p) \/ CloseAfterRead(p) \/ Compare(p) \/ Put(p)
    \/ ChooseCreate(p) \/ Exit(p) \/ Edit(p) \/ Kill(p) \/ Restart(p)
    \/ \E r \in Records : ChooseChange(p, r)

Spec == Init /\ [][Next]_vars

=============================================================================
