-------------------------- MODULE RecordLockProofs --------------------------
(***************************************************************************)
(* Proofs about Lab7's records, for any number of processes, of records    *)
(* and of kills: what holds of the file, of its locks and of the changes   *)
(* that are written over each other.                                       *)
(***************************************************************************)
EXTENDS RecordLockProperties, TLAPS

\* A process between its second read and its write, which has not been overtaken.
HasReadAgain(p) == pc[p] \in {"close", "compare", "put"} /\ p \notin late

\* What the second read found is what the file still holds; only a hole that
\* another process's write leaves takes the place of nothing unnoticed.
SecondReadHolds ==
  \A p \in Procs : HasReadAgain(p) /\ my[p].studentNew # Garbage
                     => file[my[p].recordNum] = my[p].studentNew

\* A process that is about to write has found both of its copies equal.
Compared ==
  \A p \in Procs : pc[p] = "put" /\ Garbage \notin {my[p].studentNew, my[p].studentCop}
                     => my[p].studentNew = my[p].studentCop

ChangeInvariant == TypeOK /\ SecondReadHolds /\ Compared

-----------------------------------------------------------------------------
(* What the steps leave alone. *)

\* The steps of p that do not write to the file.
Quiet(p) ==
  \/ CheckExistingFile(p) \/ ChooseCreate(p) \/ Exit(p) \/ Read(p) \/ Edit(p)
  \/ LockRecord(p) \/ Reread(p) \/ CloseAfterRead(p) \/ Compare(p) \/ Kill(p)
  \/ Restart(p) \/ \E r \in Records : ChooseChange(p, r)

Writes(p) == Truncate(p) \/ Flush(p) \/ Put(p)

LEMMA QuietOrWrites ==
  [Next]_vars => (\E p \in Procs : Quiet(p) \/ Writes(p)) \/ UNCHANGED vars
  BY DEF Next, Quiet, Writes

\* A step is a step of one process: the others' places and variables stay.
LEMMA OneAtATime ==
  ASSUME TypeOK, NEW p \in Procs, Quiet(p) \/ Writes(p)
  PROVE  \A q \in Procs \ {p} : pc'[q] = pc[q] /\ my'[q] = my[q]
<1> USE DEF Goto
<1>1. pc \in [Procs -> PCs] /\ DOMAIN my = Procs
  BY DEF TypeOK
<1>2. CASE Writes(p)
  BY <1>1, <1>2 DEF Writes, Truncate, Flush, Put
<1>3. CASE Quiet(p)
  BY <1>1, <1>3 DEF Quiet, CheckExistingFile, ChooseCreate, ChooseChange, Exit, Read, Edit,
     LockRecord, Reread, CloseAfterRead, Compare, Kill, Restart
<1> QED
  BY <1>2, <1>3

\* A write names as late whoever has read the record for the second time.
LEMMA WritesAreNoticed ==
  ASSUME TypeOK, NEW p \in Procs, Writes(p), NEW q \in Procs \ {p},
         HasReadAgain(q)', my[q].studentNew # Garbage,
         file[my[q].recordNum] = my[q].studentNew
  PROVE  HasReadAgain(q) /\ file'[my[q].recordNum] = file[my[q].recordNum]
<1>1. pc'[q] = pc[q] /\ my'[q] = my[q] /\ my[q].recordNum \in Records
  BY OneAtATime DEF TypeOK
<1>2. late \subseteq late'
  BY DEF Writes, Truncate, Flush, Put, TooLateFor
<1>3. HasReadAgain(q)
  BY <1>1, <1>2 DEF HasReadAgain
<1>4. CASE Truncate(p) \/ Flush(p)
  BY <1>1, <1>3, <1>4 DEF Truncate, Flush, TooLateFor, HasReadAgain
<1>5. CASE Put(p)
  <2>1. my[q].recordNum # my[p].recordNum
    BY <1>1, <1>3, <1>5 DEF Put, TooLateFor, HasReadAgain
  <2>2. file[my[q].recordNum] # Missing
    BY RecordLockAssumption
       DEF RecordLockAssumption, TypeOK, Copies, Missing, Hole, Garbage
  <2> QED
    BY <1>1, <1>3, <1>5, <2>1, <2>2 DEF Put
<1> QED
  BY <1>4, <1>5 DEF Writes

-----------------------------------------------------------------------------
(* Types. *)

\* The values of main's variables.
Mains ==
  [recordNum : Records, studentCop : Copies, student : Copies, studentNew : Copies]

LEMMA IdleType == Idle \in Mains
  BY RecordLockAssumption DEF RecordLockAssumption, Idle, Mains, Records, Copies

LEMMA TypeInit == Init => TypeOK
<1> SUFFICES ASSUME Init PROVE TypeOK
  OBVIOUS
<1>1. my \in [Procs -> Mains]
  BY IdleType DEF Init
<1>2. kills \in 0..MaxKills
  BY RecordLockAssumption DEF RecordLockAssumption, Init
<1> QED
  BY <1>1, <1>2 DEF Init, TypeOK, PCs, Stored, Mains

LEMMA TypeStep == TypeOK /\ [Next]_vars => TypeOK'
<1> SUFFICES ASSUME TypeOK, [Next]_vars PROVE TypeOK'
  OBVIOUS
<1> USE DEF Goto, fileVars
<1>0. my \in [Procs -> Mains]
  BY DEF TypeOK, Mains
<1>1. CASE UNCHANGED vars
  BY <1>1 DEF vars, TypeOK
<1>2. /\ \A p \in Procs : my[p] \in Mains
      /\ \A r \in Records : GetRecord(r) \in Copies
      /\ \A p \in Procs : Released(p) \in [Records -> Procs \cup {Nobody}]
  BY DEF TypeOK, Mains, GetRecord, Released, Stored, Copies
<1>3. ASSUME NEW p \in Procs,
             CheckExistingFile(p) \/ ChooseCreate(p) \/ Exit(p) \/ Restart(p)
      PROVE  TypeOK'
  BY <1>3 DEF TypeOK, Mains, PCs, CheckExistingFile, ChooseCreate, Exit, Restart
<1>4. ASSUME NEW p \in Procs, NEW r \in Records, ChooseChange(p, r) PROVE TypeOK'
  <2>1. my' \in [Procs -> Mains]
    BY <1>4, <1>0 DEF ChooseChange, Mains
  <2> QED
    BY <1>4, <2>1 DEF TypeOK, Mains, PCs, ChooseChange
<1>5. ASSUME NEW p \in Procs, Read(p) \/ Reread(p) PROVE TypeOK'
  <2> DEFINE c == GetRecord(my[p].recordNum)
  <2>1. c \in Copies
    BY <1>2 DEF Mains
  <2>2. my' = [my EXCEPT ![p].studentCop = c] \/ my' = [my EXCEPT ![p].studentNew = c]
    BY <1>5 DEF Read, Reread
  <2> HIDE DEF c
  <2>3. my' \in [Procs -> Mains]
    BY <1>0, <2>1, <2>2 DEF Mains
  <2> QED
    BY <1>2, <1>5, <2>3, ZenonT(40) DEF TypeOK, Mains, PCs, Read, Reread
<1>6. ASSUME NEW p \in Procs, Edit(p) PROVE TypeOK'
  <2>1. \A v \in Values \cup ({my[p].studentCop} \cap {Garbage, Hole}) : v \in Copies
    BY DEF Copies
  <2>2. \/ my' = [my EXCEPT ![p] = Idle]
        \/ \E v \in Copies : my' = [my EXCEPT ![p].student = v]
    BY <1>6, <2>1 DEF Edit
  <2>3. my' \in [Procs -> Mains]
    BY <1>0, <2>2, IdleType DEF Mains
  <2> QED
    BY <1>6, <2>3 DEF TypeOK, Mains, PCs, Edit
<1>7. ASSUME NEW p \in Procs, LockRecord(p) \/ CloseAfterRead(p) PROVE TypeOK'
  BY <1>2, <1>7, ZenonT(40) DEF TypeOK, Mains, PCs, LockRecord, CloseAfterRead
<1>8. ASSUME NEW p \in Procs, Compare(p) PROVE TypeOK'
  <2>1. my' = my \/ my' = [my EXCEPT ![p] = Idle]
    BY <1>8 DEF Compare
  <2>2. my' \in [Procs -> Mains]
    BY <1>0, <2>1, IdleType
  <2> QED
    BY <1>2, <1>8, <2>2, ZenonT(40) DEF TypeOK, Mains, PCs, Compare
<1>9. ASSUME NEW p \in Procs, Truncate(p) \/ Flush(p) PROVE TypeOK'
  <2>1. file' \in [Records -> Stored \cup {Garbage}]
    BY <1>9, RecordLockAssumption DEF RecordLockAssumption, Truncate, Flush, Stored
  <2>2. exists' \in BOOLEAN /\ late' \subseteq Procs
    BY <1>9 DEF Truncate, Flush, TypeOK, TooLateFor
  <2> QED
    BY <1>9, <2>1, <2>2 DEF TypeOK, PCs, Truncate, Flush
<1>10. ASSUME NEW p \in Procs, Put(p) PROVE TypeOK'
  <2>1. my' \in [Procs -> Mains]
    BY <1>0, <1>10, IdleType DEF Put
  <2>2. file' \in [Records -> Stored \cup {Garbage}]
    BY <1>2, <1>10 DEF Put, TypeOK, Stored, Copies
  <2> QED
    BY <1>2, <1>10, <2>1, <2>2 DEF TypeOK, Mains, PCs, Put, TooLateFor
<1>11. ASSUME NEW p \in Procs, Kill(p) PROVE TypeOK'
  <2>1. my' \in [Procs -> Mains]
    BY <1>0, <1>11, IdleType DEF Kill
  <2>2. kills' \in 0..MaxKills /\ torn' \in BOOLEAN
    BY <1>11, RecordLockAssumption DEF RecordLockAssumption, Kill, TypeOK
  <2> QED
    BY <1>2, <1>11, <2>1, <2>2 DEF TypeOK, Mains, PCs, Kill
<1> QED
  BY <1>1, <1>3, <1>4, <1>5, <1>6, <1>7, <1>8, <1>9, <1>10, <1>11 DEF Next

-----------------------------------------------------------------------------
(* The file at rest and the locks. *)

\* Init and every step keep the file whole at rest: createRecords' first half is
\* the only one that shortens it, and its second half or torn follows.
LEMMA WholeStep == TypeOK /\ WholeAtRest /\ [Next]_vars => WholeAtRest'
<1> SUFFICES ASSUME TypeOK, WholeAtRest, [Next]_vars PROVE WholeAtRest'
  OBVIOUS
<1>1. CASE UNCHANGED vars
  BY <1>1 DEF vars, fileVars, WholeAtRest
<1>2. ASSUME NEW p \in Procs, Truncate(p) PROVE WholeAtRest'
  BY <1>2 DEF Truncate, Goto, WholeAtRest, TypeOK
<1>3. ASSUME NEW p \in Procs, Flush(p) PROVE WholeAtRest'
  BY <1>3, RecordLockAssumption DEF RecordLockAssumption, Flush, WholeAtRest
<1>4. ASSUME NEW p \in Procs, Put(p) PROVE WholeAtRest'
  <2>1. \A q \in Procs : pc[q] = "flush" => pc'[q] = "flush"
    BY <1>4 DEF Put, Goto, TypeOK
  <2>2. my[p].student # Missing
    BY RecordLockAssumption DEF RecordLockAssumption, TypeOK, Copies, Missing, Hole, Garbage
  <2>3. \A r \in Records : file[r] # Missing => file'[r] # Missing
    BY <1>4, <2>2 DEF Put
  <2>4. exists' = exists /\ torn' = torn
    BY <1>4 DEF Put
  <2> QED
    BY <2>1, <2>3, <2>4 DEF WholeAtRest
<1>5. ASSUME NEW p \in Procs, Quiet(p) PROVE WholeAtRest'
  <2>1. exists' = exists /\ file' = file
    BY <1>5 DEF Quiet, CheckExistingFile, ChooseCreate, ChooseChange, Exit, Read, Edit,
       LockRecord, Reread, CloseAfterRead, Compare, Kill, Restart, fileVars
  <2>2. ~torn' => ~torn
    BY <1>5 DEF Quiet, CheckExistingFile, ChooseCreate, ChooseChange, Exit, Read, Edit,
       LockRecord, Reread, CloseAfterRead, Compare, Kill, Restart
  <2>3. \A q \in Procs : pc[q] = "flush" => pc'[q] = "flush" \/ torn'
    BY <1>5 DEF Quiet, CheckExistingFile, ChooseCreate, ChooseChange, Exit, Read, Edit,
       LockRecord, Reread, CloseAfterRead, Compare, Kill, Restart, Goto, TypeOK
  <2> QED
    BY <2>1, <2>2, <2>3 DEF WholeAtRest
<1> QED
  BY <1>1, <1>2, <1>3, <1>4, <1>5, QuietOrWrites DEF Writes

LEMMA LockStep == TypeOK /\ LockIsShort /\ [Next]_vars => LockIsShort'
<1> SUFFICES ASSUME TypeOK, LockIsShort, [Next]_vars PROVE LockIsShort'
  OBVIOUS
<1> USE DEF Goto, fileVars
<1>1. CASE UNCHANGED vars
  BY <1>1 DEF vars, LockIsShort
<1>2. ASSUME NEW p \in Procs, Quiet(p) \/ Writes(p) PROVE LockIsShort'
  <2>1. \A q \in Procs \ {p} : pc'[q] = pc[q] /\ my'[q] = my[q]
    BY <1>2, OneAtATime
  <2>2. CASE lock' = Released(p)
    BY <2>1, <2>2 DEF Released, LockIsShort, TypeOK
  <2>3. CASE lock' = lock /\ (\A r \in Records : lock[r] # p)
    BY <2>1, <2>3 DEF LockIsShort, TypeOK
  <2>4. CASE LockRecord(p)
    BY <2>1, <2>4 DEF LockRecord, LockIsShort, TypeOK
  <2>5. CASE Reread(p)
    BY <2>1, <2>5 DEF Reread, LockIsShort, TypeOK
  <2>6. CASE Read(p) \/ CloseAfterRead(p) \/ Put(p) \/ Kill(p)
    BY <2>2, <2>6 DEF Read, CloseAfterRead, Put, Kill
  <2>7. CASE Compare(p)
    <3>1. CASE lock' = lock /\ my' = my /\ pc' = [pc EXCEPT ![p] = "put"]
      BY <2>1, <3>1 DEF LockIsShort, TypeOK
    <3> QED
      BY <2>2, <2>7, <3>1 DEF Compare
  <2>8. CASE \/ CheckExistingFile(p) \/ ChooseCreate(p) \/ Exit(p) \/ Restart(p) \/ Edit(p)
             \/ Truncate(p) \/ Flush(p) \/ \E r \in Records : ChooseChange(p, r)
    <3>1. pc[p] \notin {"reread", "close", "compare", "put"} /\ lock' = lock
      BY <2>8 DEF CheckExistingFile, ChooseCreate, Exit, Restart, Edit, Truncate, Flush,
         ChooseChange
    <3>2. \A r \in Records : lock[r] = p => p = Nobody
      BY <3>1 DEF LockIsShort
    <3>3. CASE p = Nobody
      BY <2>1, <3>1, <3>3 DEF LockIsShort, TypeOK
    <3> QED
      BY <2>3, <3>1, <3>2, <3>3
  <2> QED
    BY <1>2, <2>4, <2>5, <2>6, <2>7, <2>8 DEF Quiet, Writes
<1> QED
  BY <1>1, <1>2, QuietOrWrites

\* At rest the file has all its records, whatever interleaving of creations and
\* changes came before, and a lock is held only by a process that needs neither
\* its user nor another lock to give it back.
THEOREM FileIsRight == Spec => []FileInvariant
<1>1. Init => FileInvariant
  BY TypeInit DEF Init, FileInvariant, WholeAtRest, LockIsShort
<1>2. FileInvariant /\ [Next]_vars => FileInvariant'
  BY TypeStep, WholeStep, LockStep DEF FileInvariant
<1> QED
  BY <1>1, <1>2, PTL DEF Spec

-----------------------------------------------------------------------------
(* The change that is written. *)

LEMMA ChangeStep == ChangeInvariant /\ [Next]_vars => ChangeInvariant'
<1> SUFFICES ASSUME ChangeInvariant, [Next]_vars PROVE SecondReadHolds' /\ Compared'
  BY TypeStep DEF ChangeInvariant
<1> USE DEF Goto, fileVars
<1>1. TypeOK /\ SecondReadHolds /\ Compared
  BY DEF ChangeInvariant
<1>2. CASE UNCHANGED vars
  BY <1>1, <1>2 DEF vars, SecondReadHolds, Compared, HasReadAgain
<1>3. ASSUME NEW p \in Procs, Quiet(p) \/ Writes(p) PROVE SecondReadHolds' /\ Compared'
  <2>1. \A q \in Procs \ {p} : pc'[q] = pc[q] /\ my'[q] = my[q]
    BY <1>1, <1>3, OneAtATime
  <2>2. ASSUME NEW q \in Procs \ {p}, HasReadAgain(q)', my[q].studentNew # Garbage
        PROVE  HasReadAgain(q) /\ file'[my[q].recordNum] = file[my[q].recordNum]
    <3>1. CASE Writes(p)
      <4>1. late \subseteq late'
        BY <3>1 DEF Writes, Truncate, Flush, Put, TooLateFor
      <4>2. file[my[q].recordNum] = my[q].studentNew
        BY <1>1, <2>1, <2>2, <4>1 DEF HasReadAgain, SecondReadHolds
      <4> QED
        BY <1>1, <2>2, <3>1, <4>2, WritesAreNoticed
    <3>2. CASE Quiet(p)
      <4>1. file' = file /\ late \ {p} \subseteq late'
        BY <3>2 DEF Quiet, CheckExistingFile, ChooseCreate, ChooseChange, Exit, Read, Edit,
           LockRecord, Reread, CloseAfterRead, Compare, Kill, Restart
      <4> QED
        BY <2>1, <2>2, <4>1 DEF HasReadAgain
    <3> QED
      BY <1>3, <3>1, <3>2
  <2>3. /\ HasReadAgain(p)' /\ my'[p].studentNew # Garbage
           => file'[my'[p].recordNum] = my'[p].studentNew
        /\ pc'[p] = "put" /\ Garbage \notin {my'[p].studentNew, my'[p].studentCop}
           => my'[p].studentNew = my'[p].studentCop
    <3>1. CASE Reread(p)
      BY <1>1, <3>1 DEF Reread, GetRecord, TypeOK
    <3>2. CASE CloseAfterRead(p)
      BY <1>1, <3>2 DEF CloseAfterRead, TypeOK, SecondReadHolds, HasReadAgain
    <3>3. CASE Compare(p)
      <4>1. late' = late /\ file' = file /\ pc[p] = "compare"
        BY <3>3 DEF Compare
      <4>2. CASE TRUE \in Equal(p) /\ my' = my
        BY <1>1, <4>1, <4>2 DEF Equal, SecondReadHolds, HasReadAgain
      <4>3. CASE pc' = [pc EXCEPT ![p] = "menu"]
        BY <1>1, <4>3 DEF TypeOK, HasReadAgain
      <4> QED
        BY <3>3, <4>2, <4>3 DEF Compare
    <3>4. CASE Writes(p)
      BY <1>1, <3>4 DEF Writes, Truncate, Flush, Put, TypeOK, HasReadAgain
    <3>5. CASE \/ CheckExistingFile(p) \/ ChooseCreate(p) \/ Exit(p) \/ Read(p) \/ Edit(p)
               \/ LockRecord(p) \/ Kill(p) \/ Restart(p) \/ \E r \in Records : ChooseChange(p, r)
      BY <1>1, <3>5 DEF CheckExistingFile, ChooseCreate, ChooseChange, Exit, Read, Edit,
         LockRecord, Kill, Restart, TypeOK, HasReadAgain
    <3> QED
      BY <1>3, <3>1, <3>2, <3>3, <3>4, <3>5 DEF Quiet
  <2>4. SecondReadHolds'
    BY <1>1, <2>1, <2>2, <2>3 DEF SecondReadHolds
  <2>5. Compared'
    BY <1>1, <2>1, <2>3 DEF Compared
  <2> QED
    BY <2>4, <2>5
<1> QED
  BY <1>2, <1>3, QuietOrWrites

\* The comparison under the lock lets only those changes be lost that were written
\* after the loser's second read, although that read gave its lock away.
THEOREM OthersChangesSurvive == Spec => []OnlyLateChangesAreLost
<1>1. Init => ChangeInvariant
  BY TypeInit DEF Init, ChangeInvariant, SecondReadHolds, Compared, HasReadAgain
<1>2. ChangeInvariant => OnlyLateChangesAreLost
  BY DEF ChangeInvariant, SecondReadHolds, Compared, HasReadAgain, OnlyLateChangesAreLost
<1> QED
  BY <1>1, <1>2, ChangeStep, PTL DEF Spec

=============================================================================
