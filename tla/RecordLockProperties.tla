------------------------ MODULE RecordLockProperties ------------------------
(***************************************************************************)
(* What the records of students.bin go through when several users change   *)
(* and create them at once.                                                *)
(***************************************************************************)
EXTENDS RecordLock

TypeOK ==
  /\ exists \in BOOLEAN /\ file \in [Records -> Stored \cup {Garbage}]
  /\ lock \in [Records -> Procs \cup {Nobody}]
  /\ pc \in [Procs -> PCs]
  /\ my \in [Procs -> [recordNum : Records, studentCop : Copies, student : Copies,
                       studentNew : Copies]]
  /\ torn \in BOOLEAN /\ late \subseteq Procs /\ kills \in 0..MaxKills

\* When nobody is creating the file it has all its records, although createRecords
\* takes no lock; only a process killed in the middle of it leaves the file short.
WholeAtRest ==
  exists /\ ~torn /\ (\A p \in Procs : pc[p] # "flush") =>
    \A r \in Records : file[r] # Missing

\* A process that holds a lock waits neither for its user nor for another lock.
LockIsShort ==
  \A r \in Records : lock[r] # Nobody =>
    /\ my[lock[r]].recordNum = r
    /\ pc[lock[r]] \in {"reread", "close", "compare", "put"}

(***************************************************************************)
(* The file, its locks and the processes on it: no creation but one cut    *)
(* short leaves less than all records, and nobody is kept waiting for      *)
(* longer than the other needs to compare and to write one record.         *)
(***************************************************************************)
FileInvariant == TypeOK /\ WholeAtRest /\ LockIsShort

(***************************************************************************)
(* The comparison under the lock: a process that is about to write a       *)
(* record it read as it stands in the file overwrites nobody's change,     *)
(* unless that change was written, or the file created anew, after its     *)
(* own second read.                                                        *)
(***************************************************************************)
OnlyLateChangesAreLost ==
  \A p \in Procs :
    pc[p] = "put" /\ Garbage \notin {my[p].studentNew, my[p].studentCop}
      => file[my[p].recordNum] = my[p].studentCop \/ p \in late

(***************************************************************************)
(* "Record locked." ... "changed by another user. Try again.": a change is *)
(* written only over the record it was made from.                          *)
(***************************************************************************)
NoLostUpdate ==
  [][\A p \in Procs :
       Put(p) /\ my[p].studentCop \in Values /\ file[my[p].recordNum] \in Values
         => file[my[p].recordNum] = my[p].studentCop]_vars

=============================================================================
