------------------------------ MODULE JobProofs ------------------------------
(***************************************************************************)
(* What holds of the programs that run beside the server on its database:  *)
(* the migration runner (Migrate) and the retention job (Retention).       *)
(***************************************************************************)
EXTENDS Migrate, Retention, FiniteSetTheorems, TLAPS

-----------------------------------------------------------------------------
(***************************************************************************)
(* Migrate, for every number of pods, every image they carry and every     *)
(* file that raises.                                                       *)
(*                                                                         *)
(* The argument: whoever is past the lock holds it, so the ledger a plan   *)
(* was read from is still the ledger when its files are applied, but for   *)
(* the rows the plan's own files have added.                               *)
(***************************************************************************)

\* The lock is held by whoever is past asking for it.
OnlyTheHolder == \A r \in Runners : pc[r] \in Locked => holder = r

\* A plan stays the plan the ledger would give now.
PlanIsCurrent ==
    \A r \in Runners :
       pc[r] \in Planned => Agrees(disk[r]) /\ left[r] = Pending(disk[r])

\* The file in a transaction is the plan's next.
FileIsNext ==
    \A r \in Runners :
       /\ pc[r] \in InTransaction =>
             tx[r] \in Rows(disk[r]) /\ IsNext(r, tx[r].name)
       /\ pc[r] \notin InTransaction => tx[r] = NoFile

MigrateInv ==
    /\ TypeOK
    /\ OnlyTheHolder
    /\ PlanIsCurrent
    /\ FileIsNext
    /\ RecordedIsBuilt
    /\ NoClash
    /\ DoneIsWhole

USE DEF Locked, Planned, InTransaction

\* The files of a directory are rows of the ledger's type.
LEMMA RowsAreRows ==
    ASSUME NEW d \in Directories
    PROVE  Rows(d) \subseteq Row
BY DirectoriesAssumption DEF Rows, Row

\* What a schema holds once a file has been appended to it.
LEMMA RangeOfAppend ==
    ASSUME NEW s \in Seq(Row), NEW x \in Row
    PROVE  /\ Append(s, x) \in Seq(Row)
           /\ Range(Append(s, x)) = Range(s) \cup {x}
           /\ \A i \in DOMAIN Append(s, x) :
                 \/ i \in DOMAIN s /\ Append(s, x)[i] = s[i]
                 \/ i = Len(s) + 1 /\ Append(s, x)[i] = x
<1>1. Append(s, x) \in Seq(Row) /\ Len(Append(s, x)) = Len(s) + 1
  OBVIOUS
<1>2. \A i \in DOMAIN Append(s, x) :
         \/ i \in DOMAIN s /\ Append(s, x)[i] = s[i]
         \/ i = Len(s) + 1 /\ Append(s, x)[i] = x
  OBVIOUS
<1>3. \A i \in DOMAIN s : i \in DOMAIN Append(s, x) /\ Append(s, x)[i] = s[i]
  OBVIOUS
<1>4. Len(s) + 1 \in DOMAIN Append(s, x) /\ Append(s, x)[Len(s) + 1] = x
  OBVIOUS
<1>5. Range(Append(s, x)) = Range(s) \cup {x}
  BY <1>2, <1>3, <1>4, Zenon DEF Range
<1> QED BY <1>1, <1>2, <1>5

\* An empty database and nobody under the lock.
LEMMA InvInit == Init => MigrateInv
<1> SUFFICES ASSUME Init PROVE MigrateInv
  OBVIOUS
<1>1. TypeOK
  BY StartsAssumption DEF Init, TypeOK, Outcomes
<1>2. OnlyTheHolder /\ PlanIsCurrent /\ FileIsNext
  BY DEF Init, OnlyTheHolder, PlanIsCurrent, FileIsNext
<1>3. RecordedIsBuilt
  BY DEF Init, RecordedIsBuilt, Range
<1>4. NoClash /\ DoneIsWhole
  BY DEF Init, NoClash, DoneIsWhole
<1> QED BY <1>1, <1>2, <1>3, <1>4 DEF MigrateInv

\* A step that neither commits nor touches another run's record keeps what
\* the ledger's invariants say of it.
LEMMA DatabaseKept ==
    ASSUME RecordedIsBuilt, UNCHANGED <<schema, ledger>>
    PROVE  RecordedIsBuilt'
BY DEF RecordedIsBuilt

\* Committing the file a plan comes to next.
LEMMA InvCommit ==
    ASSUME MigrateInv, NEW r \in Runners, Commit(r)
    PROVE  MigrateInv'
<1> USE DEF MigrateInv
<1>1. /\ pc[r] = "recorded" /\ disk[r] \in Directories
      /\ tx[r] \in Rows(disk[r]) /\ tx[r] \in Row
      /\ IsNext(r, tx[r].name)
      /\ Agrees(disk[r]) /\ left[r] = Pending(disk[r])
  <2>1. pc[r] = "recorded"
    BY DEF Commit
  <2>2. disk[r] \in Directories
    BY <2>1 DEF TypeOK
  <2> QED BY <2>1, <2>2, RowsAreRows DEF FileIsNext, PlanIsCurrent
<1>2. tx[r].name \notin NamesOf(ledger)
  BY <1>1 DEF IsNext, Pending
<1>3. \A o \in Runners \ {r} : pc[o] \notin Locked
  BY <1>1 DEF OnlyTheHolder
<1>4. TypeOK'
  <2>1. schema' \in Seq(Row) /\ ledger' \in SUBSET Row
    BY <1>1, RangeOfAppend DEF TypeOK, Commit
  <2> QED BY <2>1 DEF TypeOK, Commit
<1>5. OnlyTheHolder'
  BY <1>1 DEF OnlyTheHolder, Commit, TypeOK
<1>6. NamesOf(ledger') = NamesOf(ledger) \cup {tx[r].name}
  BY DEF Commit, NamesOf
<1>7. PlanIsCurrent'
  <2>1. Agrees(disk[r])'
    BY <1>1 DEF Agrees, Commit
  <2>2. left'[r] = Pending(disk[r])'
    BY <1>1, <1>6 DEF Pending, Commit, TypeOK
  <2> QED BY <2>1, <2>2, <1>3 DEF PlanIsCurrent, Commit, TypeOK
<1>8. FileIsNext'
  BY <1>3 DEF FileIsNext, Commit, TypeOK
<1>9. RecordedIsBuilt'
  <2>1. ledger' = Range(schema')
    BY <1>1, RangeOfAppend DEF RecordedIsBuilt, Commit, TypeOK
  <2>2. \A i \in DOMAIN schema : schema[i].name # tx[r].name
    BY <1>2, Zenon DEF RecordedIsBuilt, NamesOf, Range
  <2>3. \A i, j \in DOMAIN schema' :
           schema'[i].name = schema'[j].name => i = j
    BY <1>1, <2>2, RangeOfAppend DEF RecordedIsBuilt, Commit, TypeOK
  <2> QED BY <2>1, <2>3 DEF RecordedIsBuilt
<1>10. NoClash'
  BY DEF NoClash, Commit
<1>11. DoneIsWhole'
  BY DEF DoneIsWhole, Commit
<1> QED BY <1>4, <1>5, <1>7, <1>8, <1>9, <1>10, <1>11

\* A file that comes next is not there yet.
LEMMA NextIsNew ==
    ASSUME MigrateInv, NEW r \in Runners, pc[r] \in Planned,
           NEW n, IsNext(r, n)
    PROVE  n \notin NamesOf(ledger) /\ n \notin NamesOf(Range(schema))
BY DEF MigrateInv, PlanIsCurrent, IsNext, Pending, RecordedIsBuilt

\* Every step keeps the invariant.
LEMMA InvNext == MigrateInv /\ [Next]_vars => MigrateInv'
<1> SUFFICES ASSUME MigrateInv, [Next]_vars PROVE MigrateInv'
  OBVIOUS
<1> USE DEF MigrateInv
<1>1. ASSUME NEW r \in Runners, NEW d \in Directories, Start(r, d)
      PROVE  MigrateInv'
  <2>1. TypeOK'
    BY <1>1, StartsAssumption DEF Start, TypeOK, database, Outcomes
  <2>2. OnlyTheHolder' /\ FileIsNext' /\ NoClash' /\ DoneIsWhole'
    BY <1>1 DEF Start, TypeOK, OnlyTheHolder, FileIsNext, NoClash,
                DoneIsWhole, database, IsNext
  <2>3. PlanIsCurrent'
    BY <1>1 DEF Start, TypeOK, PlanIsCurrent, database, Agrees, Pending
  <2> QED BY <1>1, <2>1, <2>2, <2>3, DatabaseKept DEF Start, database
<1>2. ASSUME NEW r \in Runners, Lock(r)
      PROVE  MigrateInv'
  <2>1. TypeOK'
    BY <1>2 DEF Lock, TypeOK, database
  <2>2. OnlyTheHolder'
    BY <1>2, DirectoriesAssumption DEF Lock, TypeOK, OnlyTheHolder
  <2>3. FileIsNext' /\ NoClash' /\ DoneIsWhole'
    BY <1>2 DEF Lock, TypeOK, FileIsNext, NoClash, DoneIsWhole, database,
                IsNext
  <2>4. PlanIsCurrent'
    BY <1>2 DEF Lock, TypeOK, PlanIsCurrent, database, Agrees, Pending
  <2> QED BY <1>2, <2>1, <2>2, <2>3, <2>4, DatabaseKept DEF Lock, database
<1>3. ASSUME NEW r \in Runners, Plan(r)
      PROVE  MigrateInv'
  <2>0. disk[r] \in Directories /\ Pending(disk[r]) \subseteq Names
    BY <1>3, DirectoriesAssumption DEF Plan, TypeOK, Pending
  <2>1. TypeOK'
    BY <1>3, <2>0 DEF Plan, Ending, TypeOK, database, Outcomes
  <2>2. OnlyTheHolder' /\ NoClash' /\ DoneIsWhole'
    BY <1>3 DEF Plan, Ending, TypeOK, OnlyTheHolder, NoClash, DoneIsWhole,
                database
  <2>3. FileIsNext'
    BY <1>3 DEF Plan, Ending, TypeOK, FileIsNext, database, IsNext
  <2>4. PlanIsCurrent'
    BY <1>3 DEF Plan, Ending, TypeOK, PlanIsCurrent, database, Agrees, Pending
  <2> QED BY <1>3, <2>1, <2>2, <2>3, <2>4, DatabaseKept DEF Plan, database
<1>4. ASSUME NEW r \in Runners, Execute(r)
      PROVE  MigrateInv'
  <2>0. PICK n \in DOMAIN disk[r] :
           /\ IsNext(r, n)
           /\ IF n \in NamesOf(Range(schema))
                THEN Ending(r, "clashed")
                ELSE IF File(r, n) \in Raising
                THEN Ending(r, "raised")
                ELSE /\ pc' = [pc EXCEPT ![r] = "executed"]
                     /\ tx' = [tx EXCEPT ![r] = File(r, n)]
                     /\ UNCHANGED outcome
    BY <1>4 DEF Execute
  <2>1. n \notin NamesOf(Range(schema))
    BY <1>4, <2>0, NextIsNew DEF Execute
  <2>2. /\ disk[r] \in Directories
        /\ File(r, n) \in Rows(disk[r]) /\ File(r, n) \in Row
        /\ File(r, n).name = n
    BY <1>4, <2>0, DirectoriesAssumption DEF Execute, TypeOK, File, Rows, Row
  <2>3. \/ Ending(r, "raised")
        \/ /\ pc' = [pc EXCEPT ![r] = "executed"]
           /\ tx' = [tx EXCEPT ![r] = File(r, n)]
           /\ UNCHANGED outcome
    BY <2>0, <2>1
  <2>4. TypeOK'
    BY <1>4, <2>2, <2>3 DEF Execute, Ending, TypeOK, database, Outcomes
  <2>5. OnlyTheHolder' /\ NoClash' /\ DoneIsWhole'
    BY <1>4, <2>3 DEF Execute, Ending, TypeOK, OnlyTheHolder, NoClash,
                      DoneIsWhole, database
  <2>6. FileIsNext'
    BY <1>4, <2>0, <2>2, <2>3 DEF Execute, Ending, TypeOK, FileIsNext,
                                  database, IsNext
  <2>7. PlanIsCurrent'
    BY <1>4, <2>3 DEF Execute, Ending, TypeOK, PlanIsCurrent, database,
                      Agrees, Pending
  <2> QED BY <1>4, <2>4, <2>5, <2>6, <2>7, DatabaseKept DEF Execute, database
<1>5. ASSUME NEW r \in Runners, Record(r)
      PROVE  MigrateInv'
  <2>0. tx[r].name \notin NamesOf(ledger)
    BY <1>5, NextIsNew DEF Record, FileIsNext
  <2>1. TypeOK'
    BY <1>5, <2>0 DEF Record, TypeOK, database
  <2>2. OnlyTheHolder' /\ NoClash' /\ DoneIsWhole'
    BY <1>5, <2>0 DEF Record, TypeOK, OnlyTheHolder, NoClash, DoneIsWhole,
                      database
  <2>3. FileIsNext'
    BY <1>5, <2>0 DEF Record, TypeOK, FileIsNext, database, IsNext
  <2>4. PlanIsCurrent'
    BY <1>5, <2>0 DEF Record, TypeOK, PlanIsCurrent, database, Agrees, Pending
  <2> QED BY <1>5, <2>1, <2>2, <2>3, <2>4, DatabaseKept DEF Record, database
<1>6. ASSUME NEW r \in Runners, Finish(r)
      PROVE  MigrateInv'
  <2>1. Rows(disk[r]) \subseteq ledger
    <3>1. Agrees(disk[r]) /\ DOMAIN disk[r] \subseteq NamesOf(ledger)
      BY <1>6 DEF Finish, PlanIsCurrent, Pending
    <3>2. ASSUME NEW n \in DOMAIN disk[r]
          PROVE  [name |-> n, checksum |-> disk[r][n]] \in ledger
      <4>1. PICK row \in ledger : row.name = n
        BY <3>1 DEF NamesOf
      <4>2. PICK m \in DOMAIN disk[r] :
               row = [name |-> m, checksum |-> disk[r][m]]
        BY <3>1 DEF Agrees, Rows
      <4> QED BY <4>1, <4>2
    <3> QED BY <3>2 DEF Rows
  <2>2. TypeOK'
    BY <1>6 DEF Finish, Ending, TypeOK, database, Outcomes
  <2>3. OnlyTheHolder' /\ NoClash'
    BY <1>6 DEF Finish, Ending, TypeOK, OnlyTheHolder, NoClash, database
  <2>4. DoneIsWhole'
    BY <1>6, <2>1 DEF Finish, Ending, TypeOK, DoneIsWhole, database
  <2>5. FileIsNext'
    BY <1>6 DEF Finish, Ending, TypeOK, FileIsNext, database, IsNext
  <2>6. PlanIsCurrent'
    BY <1>6 DEF Finish, Ending, TypeOK, PlanIsCurrent, database, Agrees,
                Pending
  <2> QED BY <1>6, <2>2, <2>3, <2>4, <2>5, <2>6, DatabaseKept
          DEF Finish, database
<1>7. ASSUME NEW r \in Runners, Unlock(r)
      PROVE  MigrateInv'
  <2>1. TypeOK'
    BY <1>7 DEF Unlock, TypeOK, database
  <2>2. OnlyTheHolder'
    BY <1>7 DEF Unlock, TypeOK, OnlyTheHolder
  <2>3. FileIsNext' /\ NoClash' /\ DoneIsWhole'
    BY <1>7 DEF Unlock, TypeOK, FileIsNext, NoClash, DoneIsWhole, database,
                IsNext
  <2>4. PlanIsCurrent'
    BY <1>7 DEF Unlock, TypeOK, PlanIsCurrent, database, Agrees, Pending
  <2> QED BY <1>7, <2>1, <2>2, <2>3, <2>4, DatabaseKept DEF Unlock, database
<1>8. ASSUME NEW r \in Runners, Die(r)
      PROVE  MigrateInv'
  <2>1. TypeOK'
    BY <1>8 DEF Die, TypeOK, database, Outcomes
  <2>2. OnlyTheHolder'
    BY <1>8 DEF Die, TypeOK, OnlyTheHolder
  <2>3. FileIsNext' /\ NoClash' /\ DoneIsWhole'
    BY <1>8 DEF Die, TypeOK, FileIsNext, NoClash, DoneIsWhole, database,
                IsNext
  <2>4. PlanIsCurrent'
    BY <1>8 DEF Die, TypeOK, PlanIsCurrent, database, Agrees, Pending
  <2> QED BY <1>8, <2>1, <2>2, <2>3, <2>4, DatabaseKept DEF Die, database
<1>9. CASE UNCHANGED vars
  BY <1>9 DEF vars, TypeOK, OnlyTheHolder, PlanIsCurrent, FileIsNext,
              RecordedIsBuilt, NoClash, DoneIsWhole, IsNext, Agrees, Pending
<1> QED
  BY <1>1, <1>2, <1>3, <1>4, <1>5, <1>6, <1>7, <1>8, <1>9, InvCommit
  DEF Next, Step

\* The inductive invariant: the holder's plan is current, so its next file is
\* new and the ledger it reads is the history its directory tells.
THEOREM MigrateInvariant == Spec => []MigrateInv
BY InvInit, InvNext, PTL DEF Spec

\* What the ledger says is what the database holds, each file once, whatever
\* dies and whenever.
THEOREM LedgerIsTheSchema == Spec => []RecordedIsBuilt
BY MigrateInvariant, PTL DEF MigrateInv

\* No pod ever fails on what another pod created.
THEOREM PodsNeverClash == Spec => []NoClash
BY MigrateInvariant, PTL DEF MigrateInv

\* A run that ends well has left its whole image applied, as the image has it.
THEOREM DoneMeansWhole == Spec => []DoneIsWhole
BY MigrateInvariant, PTL DEF MigrateInv

\* Types.
THEOREM TypesHold == Spec => []TypeOK
BY MigrateInvariant, PTL DEF MigrateInv

\* A file is applied onto the history its own directory tells, after every
\* earlier file of it.
THEOREM ForwardOnly == Spec => OnlyOntoItsOwnPast
<1>1. ASSUME MigrateInv, [Next]_vars, NEW r \in Runners,
             pc[r] = "recorded", schema' # schema, tx'[r] # tx[r]
      PROVE  /\ ledger \subseteq Rows(disk[r])
             /\ \A n \in DOMAIN disk[r] : n < tx[r].name => File(r, n) \in ledger
  <2>1. /\ Agrees(disk[r]) /\ left[r] = Pending(disk[r])
        /\ IsNext(r, tx[r].name) /\ disk[r] \in Directories
    BY <1>1 DEF MigrateInv, PlanIsCurrent, FileIsNext, TypeOK
  <2>2. ASSUME NEW n \in DOMAIN disk[r], n < tx[r].name
        PROVE  File(r, n) \in ledger
    <3>1. n \in Nat /\ tx[r].name \in Nat
      BY <2>1, DirectoriesAssumption DEF IsNext, Pending
    <3>2. n \in NamesOf(ledger)
      BY <2>1, <2>2, <3>1 DEF IsNext, Pending
    <3>3. PICK row \in ledger : row.name = n
      BY <3>2 DEF NamesOf
    <3>4. PICK m \in DOMAIN disk[r] :
             row = [name |-> m, checksum |-> disk[r][m]]
      BY <2>1, <3>3 DEF Agrees, Rows
    <3> QED BY <3>3, <3>4 DEF File
  <2> QED BY <2>1, <2>2 DEF Agrees
<1>2. MigrateInv /\ [Next]_vars
         => [\A r \in Runners :
                pc[r] = "recorded" /\ schema' # schema /\ tx'[r] # tx[r] =>
                   /\ ledger \subseteq Rows(disk[r])
                   /\ \A n \in DOMAIN disk[r] :
                         n < tx[r].name => File(r, n) \in ledger]_vars
  BY <1>1
<1> QED BY <1>2, MigrateInvariant, PTL DEF Spec, OnlyOntoItsOwnPast

-----------------------------------------------------------------------------
(***************************************************************************)
(* Retention, for every number of packs and answers and every choice of    *)
(* the figures: when the two guards of the job are enough, which is when a *)
(* device keeps an answer for less time after its pack's end than the      *)
(* server keeps the pack.                                                  *)
(***************************************************************************)

\* What the argument needs of the types.
Types ==
    /\ day \in Nat
    /\ packs \in [Packs -> Nat \cup {None, Gone}]
    /\ attempts \in [Items -> Nat \cup {None}]
    /\ batch \in [phase : {"idle", "resolved", "inserted"},
                  items : SUBSET Items, began : Nat]
    /\ sweep.now \in Nat
    /\ sweep = [pc |-> sweep.pc, now |-> sweep.now, picked |-> sweep.picked]

\* An open batch began today or yesterday, on packs that were not past the
\* last day a device sends for them.
BatchInTime ==
    batch.phase # "idle" =>
        /\ batch.began <= day /\ day <= batch.began + 1
        /\ \A i \in batch.items :
              \/ packs[PackOf[i]] = Gone
              \/ /\ packs[PackOf[i]] \in Nat
                 /\ batch.began <= packs[PackOf[i]] + MaxLate

\* The packs the sweep has picked are long past it, and nobody answers them.
PickedAreSpent ==
    /\ sweep.now <= day
    /\ sweep.pc = "packsPicked" =>
          \A k \in sweep.picked :
             /\ k \in Packs /\ packs[k] \in Nat
             /\ packs[k] < sweep.now - KeepSources
             /\ \A i \in Items : PackOf[i] = k => attempts[i] = None

RetentionInv == Types /\ BatchInTime /\ PickedAreSpent

USE NumbersAssumption, ItemsAssumption

\* Nothing is open or picked at the start.
LEMMA RetentionInvInit == RetentionInit => RetentionInv
BY DEF RetentionInit, RetentionInv, Types, BatchInTime, PickedAreSpent, Idle, Resting

\* A batch in time is never about a pack the sweep has picked.
LEMMA NeverPicked ==
    ASSUME MaxLate < KeepSources, RetentionInv, batch.phase # "idle",
           sweep.pc = "packsPicked", NEW i \in batch.items
    PROVE  PackOf[i] \notin sweep.picked
<1> SUFFICES ASSUME PackOf[i] \in sweep.picked PROVE FALSE
  OBVIOUS
<1> USE DEF RetentionInv
<1>1. /\ packs[PackOf[i]] \in Nat
      /\ packs[PackOf[i]] < sweep.now - KeepSources
      /\ sweep.now <= day
  BY DEF PickedAreSpent
<1>2. packs[PackOf[i]] # Gone
  BY <1>1
<1>3. day <= batch.began + 1 /\ batch.began <= packs[PackOf[i]] + MaxLate
  BY <1>2 DEF BatchInTime
<1>4. day \in Nat /\ batch.began \in Nat /\ sweep.now \in Nat
  BY DEF Types
<1> QED BY <1>1, <1>3, <1>4

\* A step of the job changes neither what day it is nor what a batch holds; a
\* batch is in time however late devices are.
LEMMA TimelyNext ==
    ASSUME Types, BatchInTime, sweep.now <= day, [RetentionNext]_retentionVars
    PROVE  Types' /\ BatchInTime' /\ (sweep.now <= day)'
<1> DEFINE Kept == Types' /\ BatchInTime' /\ (sweep.now <= day)'
<1>1. CASE Tick
  BY <1>1 DEF Tick, rows, Types, BatchInTime
<1>2. ASSUME NEW k \in Packs, IssuePack(k) PROVE Kept
  <2>1. packs[k] = None /\ packs' = [packs EXCEPT ![k] = day + PackLife]
    BY <1>2 DEF IssuePack
  <2>2. Types'
    BY <1>2, <2>1 DEF IssuePack, Types
  <2>3. BatchInTime'
    BY <1>2, <2>1 DEF IssuePack, Types, BatchInTime
  <2> QED BY <1>2, <2>2, <2>3 DEF IssuePack
<1>3. ASSUME NEW items \in SUBSET Items, Resolve(items) PROVE Kept
  <2>1. \A i \in items : packs[PackOf[i]] \in Nat
    BY <1>3 DEF Resolve, Held, Types
  <2>2. Types'
    BY <1>3 DEF Resolve, rows, Types
  <2>3. BatchInTime'
    BY <1>3, <2>1 DEF Resolve, rows, Types, BatchInTime
  <2> QED BY <1>3, <2>2, <2>3 DEF Resolve
<1>4. CASE Insert
  BY <1>4 DEF Insert, rows, Types, BatchInTime, Idle
<1>5. CASE CommitBatch
  BY <1>5 DEF CommitBatch, Created, Types, BatchInTime, Idle
<1>6. CASE Abort
  BY <1>6 DEF Abort, rows, Types, BatchInTime, Idle
<1>7. CASE StartSweep
  BY <1>7 DEF StartSweep, rows, Types, BatchInTime
<1>8. CASE DeleteAttempts
  BY <1>8 DEF DeleteAttempts, GoTo, Cascade, Types, BatchInTime
<1>9. CASE PickDeltas \/ PickPacks
  BY <1>9 DEF PickDeltas, PickPacks, rows, Types, BatchInTime
<1>10. CASE DeleteDeltas
  BY <1>10 DEF DeleteDeltas, GoTo, Types, BatchInTime
<1>11. CASE DeletePacks
  <2>1. Types'
    BY <1>11 DEF DeletePacks, At, GoTo, Cascade, Types
  <2>2. BatchInTime'
    BY <1>11 DEF DeletePacks, BatchInTime, Types
  <2> QED BY <1>11, <2>1, <2>2 DEF DeletePacks, GoTo, Types
<1>12. CASE SweepDies
  BY <1>12 DEF SweepDies, rows, Types, BatchInTime, Resting
<1>13. CASE UNCHANGED retentionVars
  BY <1>13 DEF retentionVars, Types, BatchInTime
<1> QED
  BY <1>1, <1>2, <1>3, <1>4, <1>5, <1>6, <1>7, <1>8, <1>9, <1>10, <1>11, <1>12, <1>13
  DEF RetentionNext, Batch, Sweep

\* Every step keeps the invariant, where devices are not later than the server
\* keeps a pack.
LEMMA RetentionInvNext ==
    ASSUME MaxLate < KeepSources, RetentionInv, [RetentionNext]_retentionVars
    PROVE  RetentionInv'
<1> USE DEF RetentionInv
<1>0. Types' /\ BatchInTime' /\ (sweep.now <= day)'
  BY TimelyNext DEF PickedAreSpent
<1>1. ASSUME NEW k \in Packs, IssuePack(k) PROVE PickedAreSpent'
  BY <1>1 DEF IssuePack, Types, PickedAreSpent
<1>2. CASE CommitBatch
  <2>1. /\ sweep' = sweep /\ packs' = packs /\ day' = day
        /\ \A i \in Items \ batch.items : attempts'[i] = attempts[i]
    BY <1>2 DEF CommitBatch
  <2>2. sweep.pc = "packsPicked" =>
           \A i \in batch.items : PackOf[i] \notin sweep.picked
    BY <1>2, NeverPicked DEF CommitBatch
  <2> QED BY <1>0, <2>1, <2>2 DEF PickedAreSpent
<1>3. CASE PickPacks
  <2>1. \A k \in Packs : PackExpired(k) =>
           /\ packs[k] \in Nat
           /\ packs[k] < sweep.now - KeepSources
           /\ \A i \in Items : PackOf[i] = k => attempts[i] = None
    BY DEF PackExpired, Before, Answered, Types
  <2>2. /\ UNCHANGED <<day, packs, attempts>> /\ sweep'.now = sweep.now
        /\ sweep'.picked = {k \in Packs : PackExpired(k)}
    BY <1>3 DEF PickPacks, rows, Types
  <2> QED BY <1>0, <2>1, <2>2 DEF PickedAreSpent
<1>4. CASE DeleteAttempts \/ PickDeltas \/ DeleteDeltas \/ DeletePacks \/ StartSweep \/ SweepDies
  <2>1. sweep'.pc # "packsPicked"
    <3>1. CASE DeleteAttempts \/ DeleteDeltas \/ DeletePacks
      BY <3>1 DEF DeleteAttempts, DeleteDeltas, DeletePacks, GoTo, Types
    <3>2. CASE PickDeltas
      BY <3>2 DEF PickDeltas, Types
    <3>3. CASE StartSweep \/ SweepDies
      BY <3>3 DEF StartSweep, SweepDies, Resting
    <3> QED BY <1>4, <3>1, <3>2, <3>3
  <2> QED BY <1>0, <2>1 DEF PickedAreSpent
<1>5. CASE UNCHANGED <<rows, sweep>>
  BY <1>0, <1>5 DEF rows, PickedAreSpent
<1> QED
  BY <1>0, <1>1, <1>2, <1>3, <1>4, <1>5
  DEF RetentionNext, Tick, Resolve, Batch, Insert, Abort, Sweep, retentionVars, rows

\* Where devices are not that late, a sweep takes no answer before its time,
\* not even the one a batch commits between the sweep's guard and its delete.
THEOREM SweepsTakeOnlyTheExpired ==
    ASSUME MaxLate < KeepSources
    PROVE  RetentionSpec => OnlyExpiredAnswersGo
<1>1. RetentionInit => RetentionInv
  BY RetentionInvInit
<1>2. RetentionInv /\ [RetentionNext]_retentionVars => RetentionInv'
  BY RetentionInvNext
<1>3. ASSUME RetentionInv, [RetentionNext]_retentionVars, NEW i \in Items,
             attempts[i] # None, attempts'[i] = None
      PROVE  Before(attempts[i], KeepAttempts)
  <2>1. CASE CommitBatch
    <3>1. attempts'[i] = IF i \in batch.items THEN batch.began ELSE attempts[i]
      BY <2>1 DEF CommitBatch, Created
    <3>2. batch.began \in Nat
      BY <1>3 DEF RetentionInv, Types
    <3> QED BY <3>1, <3>2, <1>3
  <2>2. CASE DeleteAttempts
    BY <1>3, <2>2 DEF DeleteAttempts, Cascade
  <2>3. CASE DeletePacks
    BY <1>3, <2>3 DEF DeletePacks, At, Cascade, RetentionInv, PickedAreSpent
  <2>4. CASE UNCHANGED attempts
    BY <1>3, <2>4
  <2> QED
    BY <1>3, <2>1, <2>2, <2>3, <2>4
    DEF RetentionNext, Tick, IssuePack, Resolve, Batch, Insert, Abort, StartSweep, Sweep,
        PickDeltas, DeleteDeltas, PickPacks, SweepDies, rows, retentionVars
<1>4. RetentionInv /\ [RetentionNext]_retentionVars =>
        [\A i \in Items :
            attempts[i] # None /\ attempts'[i] = None
               => Before(attempts[i], KeepAttempts)]_retentionVars
  BY <1>3
<1> QED BY <1>1, <1>2, <1>4, PTL DEF RetentionSpec, OnlyExpiredAnswersGo

\* Nor does it take a pack a device may still send an answer for.
THEOREM SweepsStrandNoAnswer ==
    ASSUME MaxLate < KeepSources
    PROVE  RetentionSpec => NoAnswerStranded
<1>1. RetentionInit => RetentionInv
  BY RetentionInvInit
<1>2. RetentionInv /\ [RetentionNext]_retentionVars => RetentionInv'
  BY RetentionInvNext
<1>3. ASSUME RetentionInv, [RetentionNext]_retentionVars, NEW k \in Packs,
             Held(k), packs'[k] = Gone
      PROVE  day > packs[k] + MaxLate
  <2>1. CASE DeletePacks
    <3>1. k \in sweep.picked /\ sweep.pc = "packsPicked"
      BY <1>3, <2>1 DEF DeletePacks, At, Held, RetentionInv, Types
    <3> QED BY <1>3, <3>1 DEF RetentionInv, PickedAreSpent, Types
  <2>2. ASSUME NEW j \in Packs, IssuePack(j) PROVE FALSE
    BY <1>3, <2>2 DEF IssuePack, Held, RetentionInv, Types
  <2>3. CASE UNCHANGED packs
    BY <1>3, <2>3 DEF Held
  <2> QED
    BY <1>3, <2>1, <2>2, <2>3
    DEF RetentionNext, Tick, Resolve, Batch, Insert, CommitBatch, Abort, StartSweep, Sweep,
        DeleteAttempts, PickDeltas, DeleteDeltas, PickPacks, SweepDies, rows, retentionVars
<1>4. RetentionInv /\ [RetentionNext]_retentionVars =>
        [\A k \in Packs :
            Held(k) /\ packs'[k] = Gone => day > packs[k] + MaxLate]_retentionVars
  BY <1>3
<1> QED BY <1>1, <1>2, <1>4, PTL DEF RetentionSpec, NoAnswerStranded

\* The rows hold what their columns can, and nothing is dated in the future,
\* whatever the figures are.
THEOREM RetentionTypeCorrect == RetentionSpec => []RetentionTypeOK
<1>1. RetentionInit => RetentionTypeOK
  BY DEF RetentionInit, RetentionTypeOK, Idle, Resting, NoDelta
<1>2. RetentionTypeOK /\ [RetentionNext]_retentionVars => RetentionTypeOK'
  <2> SUFFICES ASSUME RetentionTypeOK, [RetentionNext]_retentionVars PROVE RetentionTypeOK'
    OBVIOUS
  <2> USE DEF RetentionTypeOK
  <2>1. CASE Tick
    BY <2>1 DEF Tick, rows
  <2>2. ASSUME NEW k \in Packs, IssuePack(k) PROVE RetentionTypeOK'
    BY <2>2 DEF IssuePack
  <2>3. ASSUME NEW items \in SUBSET Items, Resolve(items) PROVE RetentionTypeOK'
    BY <2>3 DEF Resolve, rows
  <2>4. CASE Insert
    <3>1. batch' = Idle \/ \E landing \in SUBSET Items :
                             batch' = [batch EXCEPT !.phase = "inserted",
                                                    !.items = landing]
      <4> DEFINE landing == {i \in batch.items : attempts[i] = None}
      <4>1. landing \in SUBSET Items
        OBVIOUS
      <4>2. \/ batch' = Idle
            \/ batch' = [batch EXCEPT !.phase = "inserted", !.items = landing]
        BY <2>4 DEF Insert
      <4> HIDE DEF landing
      <4> QED BY <4>1, <4>2
    <3>2. UNCHANGED <<day, rows, sweep, deaths>>
      BY <2>4 DEF Insert
    <3>3. batch' \in [phase : {"idle", "resolved", "inserted"},
                      items : SUBSET Items, began : 0..day]
      <4>1. CASE batch' = Idle
        BY <4>1 DEF Idle
      <4>2. ASSUME NEW landing \in SUBSET Items,
                   batch' = [batch EXCEPT !.phase = "inserted", !.items = landing]
            PROVE  batch' \in [phase : {"idle", "resolved", "inserted"},
                               items : SUBSET Items, began : 0..day]
        BY <4>2
      <4> QED BY <3>1, <4>1, <4>2
    <3> QED BY <3>2, <3>3 DEF rows
  <2>5. CASE CommitBatch
    <3>1. attempts' \in [Items -> (0..day) \cup {None}]
      BY <2>5 DEF CommitBatch, Created
    <3>2. deltas' \in [Keys -> [created : (0..day) \cup {None},
                                moved : SUBSET Moving]]
      <4> DEFINE moved(k) == {i \in batch.items \cap Moving : Key(i) = k}
      <4>1. \A k \in Keys :
               /\ deltas[k].created \in (0..day) \cup {None}
               /\ deltas[k].moved \cup moved(k) \in SUBSET Moving
        OBVIOUS
      <4> QED BY <2>5, <4>1 DEF CommitBatch
    <3>3. batch' = Idle /\ UNCHANGED <<day, packs, sweep, deaths>>
      BY <2>5 DEF CommitBatch
    <3> QED BY <3>1, <3>2, <3>3 DEF Idle
  <2>6. CASE Abort
    BY <2>6 DEF Abort, rows, Idle
  <2>7. CASE StartSweep
    BY <2>7 DEF StartSweep, rows
  <2>8. CASE DeleteAttempts
    BY <2>8 DEF DeleteAttempts, At, GoTo, Cascade
  <2>9. CASE PickDeltas
    <3>1. /\ sweep' = [sweep EXCEPT !.pc = "deltasPicked",
                                    !.picked = {k \in Keys : DeltaExpired(k)}]
          /\ {k \in Keys : DeltaExpired(k)} \in SUBSET Keys
          /\ UNCHANGED <<day, rows, batch, deaths>>
      BY <2>9 DEF PickDeltas
    <3>2. sweep'.pc = "deltasPicked" /\ sweep'.picked \in SUBSET Keys
          /\ sweep'.now = sweep.now
      BY <3>1
    <3> QED BY <3>1, <3>2 DEF rows
  <2>10. CASE DeleteDeltas
    BY <2>10 DEF DeleteDeltas, At, GoTo, NoDelta
  <2>11. CASE PickPacks
    BY <2>11 DEF PickPacks, At, rows
  <2>12. CASE DeletePacks
    BY <2>12 DEF DeletePacks, At, GoTo, Cascade
  <2>13. CASE SweepDies
    BY <2>13 DEF SweepDies, rows, Resting
  <2>14. CASE UNCHANGED retentionVars
    BY <2>14 DEF retentionVars
  <2> QED
    BY <2>1, <2>2, <2>3, <2>4, <2>5, <2>6, <2>7, <2>8, <2>9, <2>10, <2>11,
       <2>12, <2>13, <2>14
    DEF RetentionNext, Batch, Sweep
<1> QED BY <1>1, <1>2, PTL DEF RetentionSpec

-----------------------------------------------------------------------------
(***************************************************************************)
(* Why an entry keeps its number.  The delta of a session is as old as its *)
(* first answer, and the last answer a device sends of the session's pack  *)
(* is at most the pack's life and the lateness younger: so a delta that is *)
(* picked gets no answer any more.                                         *)
(***************************************************************************)

\* A session is a sitting over the items of one pack (home_route.dart:867-878).
OnePackASession ==
    \A i, j \in Items : SessionOf[i] = SessionOf[j] => PackOf[i] = PackOf[j]

IssuedBy(i, when) ==
    /\ packs[PackOf[i]] # None
    /\ Held(PackOf[i]) => packs[PackOf[i]] <= when + PackLife

SessionInv ==
    /\ \A k \in Packs : Held(k) => packs[k] <= day + PackLife
    /\ batch.phase # "idle" => \A i \in batch.items : IssuedBy(i, batch.began)
    /\ batch.phase = "inserted" => \A i \in batch.items : Held(PackOf[i])
    /\ \A k \in Keys, i \in Items :
            deltas[k].created # None /\ SessionOf[i] = k[1]
                => IssuedBy(i, deltas[k].created)
    /\ \A i \in Moving : attempts[i] # None =>
            i \in deltas[Key(i)].moved /\ deltas[Key(i)].created # None
    /\ sweep.pc = "deltasPicked" => \A k \in sweep.picked :
            /\ k \in Keys /\ deltas[k].created # None
            /\ deltas[k].created < sweep.now - KeepAttempts
            /\ \A i \in Moving : Key(i) = k => attempts[i] = None

Timely == RetentionTypeOK /\ Types /\ BatchInTime /\ sweep.now <= day

\* A batch that is about to commit is about no session whose delta is picked.
LEMMA NeverSilenced ==
    ASSUME PackLife + MaxLate < KeepAttempts, Timely, SessionInv,
           batch.phase = "inserted", sweep.pc = "deltasPicked",
           NEW i \in batch.items
    PROVE  Key(i) \notin sweep.picked
<1> SUFFICES ASSUME Key(i) \in sweep.picked PROVE FALSE
  OBVIOUS
<1> DEFINE k == Key(i)
           p == PackOf[i]
<1>1. i \in Items /\ k[1] = SessionOf[i] /\ k \in Keys
  BY DEF Timely, Types, Key, Keys, Sessions, Skills
<1>2. /\ deltas[k].created \in Nat /\ deltas[k].created < sweep.now - KeepAttempts
  BY <1>1 DEF SessionInv, Timely, RetentionTypeOK
<1>3. Held(p) /\ packs[p] \in Nat
  BY <1>1 DEF SessionInv, Held, Timely, Types
<1>4. packs[p] <= deltas[k].created + PackLife
  BY <1>1, <1>2, <1>3 DEF SessionInv, IssuedBy
<1>5. day <= batch.began + 1 /\ batch.began <= packs[p] + MaxLate
  BY <1>3 DEF Timely, BatchInTime, Held
<1>6. /\ day \in Nat /\ batch.began \in Nat /\ sweep.now \in Nat
      /\ sweep.now <= day
  BY DEF Timely, Types
<1> HIDE DEF k, p
<1> QED BY <1>2, <1>3, <1>4, <1>5, <1>6

\* Nothing has been answered at the start.
LEMMA SessionsAtFirst == RetentionInit => SessionInv
BY DEF RetentionInit, SessionInv, Idle, Resting, NoDelta, Held, Keys, Key, Sessions, Skills

\* An answer and its delta are written in one transaction, and the delta goes
\* only when no answer is left or can come.
LEMMA SessionNext ==
    ASSUME OnePackASession, PackLife + MaxLate < KeepAttempts,
           Timely, SessionInv, [RetentionNext]_retentionVars
    PROVE  SessionInv'
<1>0. /\ day \in Nat /\ batch.began \in Nat
      /\ packs \in [Packs -> Nat \cup {None, Gone}]
      /\ attempts \in [Items -> Nat \cup {None}]
      /\ batch.items \subseteq Items
      /\ sweep.now \in Nat
      /\ sweep = [pc |-> sweep.pc, now |-> sweep.now, picked |-> sweep.picked]
  BY DEF Timely, Types
<1>1. /\ deltas \in [Keys -> [created : Nat \cup {None}, moved : SUBSET Moving]]
      /\ \A k \in Keys : deltas[k].created # None => deltas[k].created <= day
  BY DEF Timely, RetentionTypeOK
<1>2. \A i \in Items : Key(i) \in Keys /\ Key(i)[1] = SessionOf[i]
  BY DEF Keys, Key, Sessions, Skills
<1> USE DEF SessionInv
<1>3. CASE Tick
  BY <1>0, <1>3 DEF Tick, rows, IssuedBy, Held
<1>4. ASSUME NEW k \in Packs, IssuePack(k) PROVE SessionInv'
  <2>1. packs[k] = None /\ packs' = [packs EXCEPT ![k] = day + PackLife]
    BY <1>4 DEF IssuePack
  <2>2. ASSUME NEW i \in Items, NEW t, IssuedBy(i, t) PROVE IssuedBy(i, t)'
    BY <1>0, <2>1, <2>2 DEF IssuedBy, Held
  <2>3. \A j \in Packs : Held(j)' => packs'[j] <= day + PackLife
    BY <1>0, <2>1 DEF Held
  <2>4. UNCHANGED <<day, attempts, deltas, batch, sweep>>
    BY <1>4 DEF IssuePack
  <2>5. batch.phase = "inserted" => \A i \in batch.items : Held(PackOf[i])'
    BY <1>0, <2>1 DEF Held
  <2> QED BY <1>0, <2>2, <2>3, <2>4, <2>5
<1>5. ASSUME NEW items \in SUBSET Items, Resolve(items) PROVE SessionInv'
  <2>1. /\ UNCHANGED <<day, packs, attempts, deltas, sweep>>
        /\ batch' = [phase |-> "resolved", items |-> items, began |-> day]
        /\ \A i \in items : Held(PackOf[i])
    BY <1>5 DEF Resolve, rows
  <2>2. \A i \in items : IssuedBy(i, day)
    BY <2>1 DEF IssuedBy, Held
  <2> QED BY <2>1, <2>2 DEF IssuedBy, Held
<1>6. CASE Insert
  <2>1. UNCHANGED <<day, packs, attempts, deltas, sweep>>
    BY <1>6 DEF Insert, rows
  <2>2. \/ batch'.phase = "idle"
        \/ /\ batch.phase = "resolved" /\ batch'.phase = "inserted"
           /\ batch'.began = batch.began /\ batch'.items \subseteq batch.items
           /\ \A i \in batch'.items : Held(PackOf[i])
    BY <1>0, <1>6 DEF Insert, Idle, Timely, Types
  <2> QED BY <2>1, <2>2 DEF IssuedBy, Held
<1>7. CASE CommitBatch
  <2>1. /\ UNCHANGED <<day, packs, sweep>> /\ batch'.phase = "idle"
        /\ batch.phase = "inserted"
        /\ \A i \in Items : attempts'[i] = IF i \in batch.items THEN batch.began
                                                         ELSE attempts[i]
    BY <1>7 DEF CommitBatch, Created, Idle
  <2> DEFINE moved(k) == {i \in batch.items \cap Moving : Key(i) = k}
  <2>2. ASSUME NEW k \in Keys
        PROVE  \/ moved(k) = {} /\ deltas'[k] = deltas[k]
               \/ /\ moved(k) # {}
                  /\ deltas'[k].moved = deltas[k].moved \cup moved(k)
                  /\ deltas'[k].created = IF deltas[k].created = None THEN batch.began
                                         ELSE deltas[k].created
    BY <1>7 DEF CommitBatch
  <2> HIDE DEF moved
  <2>4. ASSUME NEW k \in Keys, NEW i \in Items, deltas'[k].created # None,
               SessionOf[i] = k[1]
        PROVE  IssuedBy(i, deltas'[k].created)
    <3>1. CASE deltas'[k].created = deltas[k].created
      BY <2>4, <3>1
    <3>2. CASE deltas'[k].created = batch.began /\ moved(k) # {}
      <4>1. PICK j \in batch.items : Key(j) = k
        BY <3>2 DEF moved
      <4>2. PackOf[j] = PackOf[i]
        BY <1>0, <1>2, <2>4, <4>1 DEF OnePackASession
      <4> QED BY <2>1, <3>2, <4>1, <4>2 DEF IssuedBy
    <3> QED BY <2>2, <2>4, <3>1, <3>2
  <2>5. ASSUME NEW i \in Moving, attempts'[i] # None
        PROVE  i \in deltas'[Key(i)].moved /\ deltas'[Key(i)].created # None
    <3>1. CASE i \in batch.items
      <4>1. i \in moved(Key(i))
        BY <3>1 DEF moved
      <4> QED BY <1>0, <1>2, <2>2, <4>1
    <3>2. CASE i \notin batch.items
      BY <1>2, <2>1, <2>2, <2>5, <3>2
    <3> QED BY <3>1, <3>2
  <2>6. ASSUME sweep.pc = "deltasPicked", NEW k \in sweep.picked
        PROVE  /\ deltas'[k] = deltas[k]
               /\ \A i \in Moving : Key(i) = k => attempts'[i] = None
    <3>1. \A i \in batch.items : Key(i) # k
      BY <2>1, <2>6, NeverSilenced
    <3>2. moved(k) = {}
      BY <3>1 DEF moved
    <3> QED BY <2>1, <2>2, <2>6, <3>1, <3>2
  <2> QED BY <2>1, <2>4, <2>5, <2>6 DEF IssuedBy, Held
<1>8. CASE Abort
  BY <1>8 DEF Abort, rows, Idle, IssuedBy, Held
<1>9. CASE StartSweep
  BY <1>9 DEF StartSweep, rows, IssuedBy, Held
<1>10. CASE DeleteAttempts
  <2>1. /\ UNCHANGED <<day, packs, deltas, batch>> /\ sweep'.pc = "deltas"
        /\ \A i \in Items : attempts'[i] = attempts[i] \/ attempts'[i] = None
    BY <1>0, <1>10 DEF DeleteAttempts, Cascade, GoTo
  <2> QED BY <2>1 DEF IssuedBy, Held
<1>11. CASE PickDeltas
  <2>1. /\ UNCHANGED <<day, rows, batch>> /\ sweep'.now = sweep.now
        /\ sweep'.picked = {k \in Keys : DeltaExpired(k)}
    BY <1>0, <1>11 DEF PickDeltas
  <2>2. ASSUME NEW k \in Keys, DeltaExpired(k)
        PROVE  /\ deltas[k].created # None
               /\ deltas[k].created < sweep.now - KeepAttempts
               /\ \A i \in Moving : Key(i) = k => attempts[i] = None
    BY <1>2, <2>2 DEF DeltaExpired, Before, Attempted, Answered
  <2> QED BY <2>1, <2>2 DEF rows, IssuedBy, Held
<1>12. CASE DeleteDeltas
  <2>1. /\ UNCHANGED <<day, packs, attempts, batch>> /\ sweep'.pc = "packs"
        /\ sweep.pc = "deltasPicked"
        /\ \A k \in Keys : deltas'[k] = IF k \in sweep.picked THEN NoDelta ELSE deltas[k]
    BY <1>0, <1>12 DEF DeleteDeltas, GoTo, At
  <2>2. \A i \in Moving : attempts[i] # None => Key(i) \notin sweep.picked
    BY <2>1
  <2>3. \A k \in Keys : deltas'[k].created # None => deltas'[k] = deltas[k]
    BY <2>1 DEF NoDelta
  <2> QED BY <1>2, <2>1, <2>2, <2>3 DEF IssuedBy, Held
<1>13. CASE PickPacks
  <2>1. UNCHANGED <<day, rows, batch>> /\ sweep'.pc = "packsPicked"
    BY <1>0, <1>13 DEF PickPacks
  <2> QED BY <2>1 DEF rows, IssuedBy, Held
<1>14. CASE DeletePacks
  <2>1. /\ UNCHANGED <<day, deltas, batch>> /\ sweep'.pc = "done"
        /\ \A i \in Items : attempts'[i] = attempts[i] \/ attempts'[i] = None
        /\ \A k \in Packs : packs'[k] = IF k \in sweep.picked THEN Gone ELSE packs[k]
        /\ batch.phase = "inserted" =>
              \A i \in batch.items : PackOf[i] \notin sweep.picked
    BY <1>0, <1>14 DEF DeletePacks, Cascade, GoTo
  <2>2. ASSUME NEW i \in Items, NEW t, IssuedBy(i, t) PROVE IssuedBy(i, t)'
    BY <2>1, <2>2 DEF IssuedBy, Held
  <2>3. batch.phase = "inserted" => \A i \in batch.items : Held(PackOf[i])'
    BY <1>0, <2>1 DEF Held
  <2>4. \A k \in Packs : Held(k)' => Held(k) /\ packs'[k] = packs[k]
    BY <2>1 DEF Held
  <2> QED BY <1>0, <2>1, <2>2, <2>3, <2>4
<1>15. CASE SweepDies
  BY <1>15 DEF SweepDies, rows, Resting, IssuedBy, Held
<1>16. CASE UNCHANGED retentionVars
  BY <1>16 DEF retentionVars, IssuedBy, Held
<1> QED
  BY <1>3, <1>4, <1>5, <1>6, <1>7, <1>8, <1>9, <1>10, <1>11, <1>12, <1>13, <1>14,
     <1>15, <1>16
  DEF RetentionNext, Batch, Sweep

\* Where a pack's answers stop before a delta of them is due, a session that is
\* still reported keeps its number, whatever a sweep meets half way: for any
\* number of packs, sessions, skills and answers, however many movements.
THEOREM EntriesKeepTheirNumbers ==
    ASSUME IsFiniteSet(Items), OnePackASession, PackLife + MaxLate < KeepAttempts
    PROVE  RetentionSpec => []EntriesKeepTheirNumber
<1>1. RetentionInit => Types /\ BatchInTime /\ sweep.now <= day
  BY DEF RetentionInit, Types, BatchInTime, Idle, Resting
<1>2. (Types /\ BatchInTime /\ sweep.now <= day) /\ [RetentionNext]_retentionVars
        => (Types /\ BatchInTime /\ sweep.now <= day)'
  BY TimelyNext
<1>3. Timely /\ SessionInv /\ [RetentionNext]_retentionVars => SessionInv'
  BY SessionNext
<1>4. SessionInv => EntriesKeepTheirNumber
  <2> SUFFICES ASSUME SessionInv, NEW s \in Sessions,
                      Cardinality({SkillOf[i] : i \in Listed(s)}) = 1,
                      NEW i \in Listed(s) \cap Moving
               PROVE  i \in Entry(s).moved
    BY DEF EntriesKeepTheirNumber
  <2> DEFINE skills == {SkillOf[j] : j \in Listed(s)}
  <2>1. IsFiniteSet(Listed(s))
    BY FS_Subset DEF Listed
  <2>2. IsFiniteSet(skills)
    <3> DEFINE f == [j \in Listed(s) |-> SkillOf[j]]
    <3>1. f \in Surjection(Listed(s), skills)
      BY DEF Surjection
    <3> QED BY <2>1, <3>1, FS_Surjection
  <2>3. PICK x : skills = {x}
    BY <2>2, FS_Singleton
  <2>4. x = SkillOf[i] /\ SessionOf[i] = s /\ attempts[i] # None
    BY <2>3 DEF Listed, Answered
  <2>5. i \in deltas[<<s, x>>].moved
    BY <2>4 DEF SessionInv, Key
  <2>6. x \in {y \in skills : skills = {y}}
    BY <2>3
  <2> QED BY <2>5, <2>6 DEF Entry
<1> QED BY <1>1, <1>2, <1>3, <1>4, SessionsAtFirst, RetentionTypeCorrect, PTL DEF RetentionSpec, Timely

=============================================================================
