----------------------------- MODULE IngestProofs -----------------------------
(***************************************************************************)
(* Ingest, for any number of players, items and concurrent requests:       *)
(* types, one answer per item, one movement of a rating per answer, and    *)
(* that the transaction implements AttemptLog.                             *)
(***************************************************************************)
EXTENDS Ingest, FiniteSetTheorems, SequenceTheorems, TLAPS

(* The invariant.  A request's transaction may rely on what it has read for *)
(* as long as it holds its player's lock and the rows it has inserted: that *)
(* is what Settled says, and why RatedOnce alone is not inductive.          *)

Own(q, i) == owner[PackOf[i]] = q.player
Touched(q) == {SkillOf[i] : i \in ItemsOf(q.landed)}

Settled(q) ==
    /\ q.phase \notin {"idle", "done"} =>
          \A a, b \in q.batch : a.item = b.item => a = b
    /\ q.landed \subseteq q.batch
    /\ q.landed # {} => q.phase \in Inserting
    /\ \A a \in q.landed : Own(q, a.item) /\ ~Recorded(a.item)
    /\ q.phase \in Rating =>
          /\ q.landed # {}
          /\ \A i \in Items :
                q.skillRead[i] =
                   IF Own(q, i) /\ SkillOf[i] \in Touched(q)
                     THEN rated[i] ELSE 0

LockInv ==
    \A r, o \in Requests :
        /\ req[r].phase \in Serialised
        /\ req[o].phase \in Serialised
        /\ req[r].player = req[o].player
        => r = o

OwnersLinked == \A k \in Packs : owner[k] \in Players => owner[k] \in linked

IInv ==
    /\ TypeOK
    /\ LockInv
    /\ \A r \in Requests : Settled(req[r])
    /\ OwnersLinked
    /\ NothingOfTheErased
    /\ AnsweredOnce
    /\ RatedOnce
    /\ DeltasExplainRatings

-----------------------------------------------------------------------------
(* Types                                                                   *)

\* An order of the classes met is a sequence of classes.
LEMMA MetOrdersType ==
    ASSUME NEW landed \in SUBSET Answers, NEW order \in MetOrders(landed)
    PROVE  order \in Seq(Classes)
<1> DEFINE placed == {j \in ItemsOf(landed) : Placed(j)}
           met == {ClassOf(i) : i \in placed}
<1>1. placed \subseteq Items
  BY AnswersAssumption DEF ItemsOf
<1>2. IsFiniteSet(placed)
  BY <1>1, FS_Subset, ItemsAssumption
<1>3. IsFiniteSet(met)
  <2> DEFINE f == [i \in placed |-> ClassOf(i)]
  <2>1. f \in Surjection(placed, met)
    BY DEF Surjection
  <2> HIDE DEF placed, met, f
  <2> QED BY <1>2, <2>1, FS_Surjection
<1>4. Cardinality(met) \in Nat
  BY <1>3, FS_CardinalityType
<1>5. met \subseteq Classes
  BY <1>1 DEF Classes
<1>6. order \in [1..Cardinality(met) -> met]
  BY DEF MetOrders
<1>7. order \in [1..Cardinality(met) -> Classes]
  <2> HIDE DEF met
  <2> QED BY <1>5, <1>6
<1> HIDE DEF met
<1> QED BY <1>4, <1>7, SeqDef

\* A request that has been answered is a request.
LEMMA AnsweredType ==
    ASSUME NEW status \in Statuses
    PROVE  [Fresh EXCEPT !.phase = "done", !.status = status] \in RequestType
BY EmptySeq DEF Fresh, RequestType, Phases, Nothing

\* A step that changes one request's record keeps the types.
LEMMA BecomesType ==
    ASSUME TypeOK, NEW r \in Requests, NEW record \in RequestType,
           Becomes(r, record), UNCHANGED <<tables, faults>>,
           record.phase \in {"idle", "done"} \/ record.player \in Players
    PROVE  TypeOK'
BY DEF TypeOK, Becomes, tables

\* Ending the transaction with nothing written keeps the types.
LEMMA AnswerKeepsTypes ==
    ASSUME TypeOK, NEW r \in Requests, NEW status \in Statuses,
           Answer(r, status), UNCHANGED <<tables, faults>>
    PROVE  TypeOK'
<1>1. [Fresh EXCEPT !.phase = "done", !.status = status].phase = "done"
  BY DEF Fresh
<1> QED BY <1>1, AnsweredType, BecomesType DEF Answer

\* So does moving on to the next phase.
LEMMA AdvanceKeepsTypes ==
    ASSUME TypeOK, NEW r \in Requests, NEW phase \in Phases,
           Advance(r, phase), UNCHANGED <<tables, faults>>,
           req[r].phase \notin {"idle", "done"}
    PROVE  TypeOK'
<1> DEFINE record == [req[r] EXCEPT !.phase = phase]
<1>1. record \in RequestType /\ record.player = req[r].player
  BY DEF TypeOK, RequestType
<1> QED BY <1>1, BecomesType DEF Advance, TypeOK

\* Every step keeps the types.
LEMMA TypeStep == TypeOK /\ [Next]_vars => TypeOK'
<1> SUFFICES ASSUME TypeOK, [Next]_vars PROVE TypeOK'
  OBVIOUS
<1>0. \A r \in Requests :
         /\ req[r] \in RequestType
         /\ req[r].phase \notin {"idle", "done"} => req[r].player \in Players
  BY DEF TypeOK
<1>1. ASSUME NEW p \in Players, Link(p) PROVE TypeOK'
  BY <1>1 DEF Link, TypeOK
<1>2. ASSUME NEW p \in Players, NEW k \in Packs, IssuePack(p, k) PROVE TypeOK'
  BY <1>2 DEF IssuePack, TypeOK
<1>3. ASSUME NEW p \in Players, Erase(p) PROVE TypeOK'
  BY <1>3 DEF Erase, TypeOK
<1>4. ASSUME NEW r \in Requests, NEW p \in Players, NEW batch \in Batches,
             Receive(r, p, batch)
      PROVE  TypeOK'
  <2>1. CASE Refused(batch)
    BY <1>4, <2>1, AnswerKeepsTypes DEF Receive, Statuses
  <2>2. CASE ~Refused(batch)
    <3> DEFINE record == [req[r] EXCEPT !.phase = "received", !.player = p,
                                        !.batch = batch]
    <3>1. batch \in SUBSET Answers
      BY AnswersAssumption
    <3>2. record \in RequestType /\ record.player = p
      BY <1>0, <3>1 DEF RequestType, Phases
    <3> QED BY <1>4, <2>2, <3>2, BecomesType DEF Receive
  <2> QED BY <2>1, <2>2
<1>5. ASSUME NEW r \in Requests, Handler(r) \/ Fail(r) PROVE TypeOK'
  <2>1. CASE FindPlayer(r)
    BY <2>1, AnswerKeepsTypes, AdvanceKeepsTypes
       DEF FindPlayer, Statuses, Phases
  <2>2. CASE Lock(r)
    BY <2>2, AdvanceKeepsTypes DEF Lock, Phases
  <2>3. CASE Resolve(r)
    BY <2>3, AnswerKeepsTypes, AdvanceKeepsTypes DEF Resolve, Statuses, Phases
  <2>4. CASE Insert(r)
    <3> DEFINE record == [req[r] EXCEPT !.phase = "inserted",
                                        !.landed = New(req[r].batch)]
    <3>1. New(req[r].batch) \in SUBSET Answers
      BY <1>0 DEF New, RequestType
    <3>2. record \in RequestType /\ record.player = req[r].player
      BY <1>0, <3>1 DEF RequestType, Phases
    <3>3. req[r].player \in Players
      BY <1>0, <2>4 DEF Insert
    <3>4. CASE ForeignKeysHold(r, New(req[r].batch))
      BY <2>4, <3>2, <3>3, <3>4, BecomesType DEF Insert
    <3>5. CASE ~ForeignKeysHold(r, New(req[r].batch))
      BY <2>4, <3>5, AnswerKeepsTypes DEF Insert, Statuses
    <3> QED BY <3>4, <3>5
  <2>5. CASE ReadSkills(r)
    <3> DEFINE read == [i \in Items |->
                           IF /\ owner[PackOf[i]] = req[r].player
                              /\ SkillOf[i] \in
                                    {SkillOf[j] : j \in ItemsOf(LandedRows(r))}
                             THEN rated[i] ELSE 0]
               record == [req[r] EXCEPT !.phase = "readSkills",
                                        !.skillRead = read]
    <3>1. read \in [Items -> Nat]
      BY DEF TypeOK
    <3>2. record \in RequestType /\ record.player = req[r].player
      <4> HIDE DEF read
      <4> QED BY <1>0, <3>1 DEF RequestType, Phases
    <3>3. req[r].player \in Players
      BY <1>0, <2>5 DEF ReadSkills
    <3>4. Becomes(r, record) /\ UNCHANGED <<tables, faults>>
      BY <2>5 DEF ReadSkills
    <3> HIDE DEF record
    <3> QED BY <3>2, <3>3, <3>4, BecomesType
  <2>6. CASE ReadClasses(r)
    <3> DEFINE met == {ClassOf(i) :
                         i \in {j \in ItemsOf(LandedRows(r)) : Placed(j)}}
               read == [i \in Items |->
                           IF Placed(i) /\ ClassOf(i) \in met
                             THEN taught[i] ELSE 0]
               record(order) == [req[r] EXCEPT !.phase = "readClasses",
                                               !.classRead = read,
                                               !.todo = order]
    <3>1. PICK order \in MetOrders(LandedRows(r)) : Becomes(r, record(order))
      BY <2>6 DEF ReadClasses
    <3>2. order \in Seq(Classes)
      BY <1>0, MetOrdersType DEF LandedRows, RequestType
    <3>3. read \in [Items -> Nat]
      BY DEF TypeOK
    <3>4. /\ record(order) \in RequestType
          /\ record(order).player = req[r].player
      <4> HIDE DEF read
      <4> QED BY <1>0, <3>2, <3>3 DEF RequestType, Phases
    <3>5. req[r].player \in Players /\ UNCHANGED <<tables, faults>>
      BY <1>0, <2>6 DEF ReadClasses
    <3> HIDE DEF record
    <3> QED BY <3>1, <3>4, <3>5, BecomesType
  <2>7. CASE WriteSkills(r)
    BY <2>7, AdvanceKeepsTypes DEF WriteSkills, Phases
  <2>8. CASE WriteClass(r)
    <3> DEFINE record == [req[r] EXCEPT !.written = @ \cup {Head(req[r].todo)},
                                        !.todo = Tail(@)]
    <3>1. Head(req[r].todo) \in Classes /\ Tail(req[r].todo) \in Seq(Classes)
      BY <1>0, <2>8, HeadTailProperties DEF WriteClass, RequestType
    <3>2. record \in RequestType /\ record.player = req[r].player
      BY <1>0, <3>1 DEF RequestType
    <3>3. /\ req[r].player \in Players
          /\ Becomes(r, record) /\ UNCHANGED <<tables, faults>>
      BY <1>0, <2>8 DEF WriteClass
    <3> HIDE DEF record
    <3> QED BY <3>2, <3>3, BecomesType
  <2>9. CASE WriteDeltas(r)
    BY <2>9, AdvanceKeepsTypes DEF WriteDeltas, Phases
  <2>10. CASE Commit(r)
    <3>1. req[r].player \in Players /\ req[r].landed \subseteq Answers
      BY <1>0, <2>10 DEF Commit, RequestType
    <3>2. attempts' \in SUBSET [player : Players, answer : Answers]
      BY <2>10, <3>1 DEF Commit, TypeOK
    <3>3. \A answers, i : One(answers, i) \in Nat
      BY DEF One
    <3>4. /\ req[r].skillRead \in [Items -> Nat]
          /\ req[r].classRead \in [Items -> Nat]
      BY <1>0 DEF RequestType
    <3>5. RatedAfter(r) \in [Items -> Nat]
      BY <3>3, <3>4 DEF RatedAfter, TypeOK
    <3>6. TaughtAfter(r) \in [Items -> Nat]
      BY <3>3, <3>4 DEF TaughtAfter, TypeOK
    <3>7. DeltasAfter(r) \in [Sessions -> [Items -> Nat]]
      BY <3>3 DEF DeltasAfter, TypeOK
    <3>8. /\ req' \in [Requests -> RequestType]
          /\ \A o \in Requests :
                req'[o].phase \notin {"idle", "done"}
                   => req'[o].player \in Players
      <4>1. [Fresh EXCEPT !.phase = "done", !.status = "verdicts"]
               \in RequestType
        BY AnsweredType DEF Statuses
      <4>2. [Fresh EXCEPT !.phase = "done", !.status = "verdicts"].phase = "done"
        BY DEF Fresh
      <4> QED BY <1>0, <2>10, <4>1, <4>2 DEF Commit, Answer, Becomes, TypeOK
    <3> QED
      BY <2>10, <3>2, <3>5, <3>6, <3>7, <3>8 DEF Commit, TypeOK
  <2>11. CASE DeadlockVictim(r)
    BY <2>11, AnswerKeepsTypes DEF DeadlockVictim, Statuses
  <2>12. CASE Fail(r)
    <3>1. Becomes(r, [Fresh EXCEPT !.phase = "done", !.status = "failed"])
      BY <2>12 DEF Fail, Answer
    <3>2. [Fresh EXCEPT !.phase = "done", !.status = "failed"] \in RequestType
      BY AnsweredType DEF Statuses
    <3>3. [Fresh EXCEPT !.phase = "done", !.status = "failed"].phase = "done"
      BY DEF Fresh
    <3> QED
      BY <1>0, <2>12, <3>1, <3>2, <3>3, NumbersAssumption
         DEF Fail, Becomes, tables, TypeOK
  <2> QED
    BY <1>5, <2>1, <2>2, <2>3, <2>4, <2>5, <2>6, <2>7, <2>8, <2>9, <2>10,
       <2>11, <2>12 DEF Handler
<1>6. CASE UNCHANGED vars
  BY <1>6 DEF vars, TypeOK
<1> QED BY <1>1, <1>2, <1>3, <1>4, <1>5, <1>6 DEF Next

-----------------------------------------------------------------------------
(* The invariant                                                           *)

\* Nothing is on record and no batch is open at the start.
LEMMA InitInv == Init => IInv
<1> SUFFICES ASSUME Init PROVE IInv
  OBVIOUS
<1>1. Fresh \in RequestType
  BY EmptySeq DEF Fresh, RequestType, Phases, Statuses, Nothing
<1>2. TypeOK
  <2>1. Fresh.phase = "idle"
    BY DEF Fresh
  <2> QED BY <1>1, <2>1 DEF Init, TypeOK, Nothing
<1>3. Settled(Fresh)
  BY DEF Settled, Fresh, Rating
<1>4. LockInv
  BY DEF Init, LockInv, Fresh, Serialised
<1>5. OwnersLinked
  BY ItemsAssumption DEF Init, OwnersLinked
<1>6. NothingOfTheErased /\ AnsweredOnce /\ RatedOnce
  BY DEF Init, NothingOfTheErased, AnsweredOnce, RatedOnce, Nothing
<1>7. DeltasExplainRatings
  BY DEF Init, DeltasExplainRatings, Nothing
<1> QED
  BY <1>2, <1>3, <1>4, <1>5, <1>6, <1>7 DEF IInv, Init

\* A step that moves one request on and leaves the tables alone.
LEMMA QuietStep ==
    ASSUME IInv, TypeOK', NEW r \in Requests, NEW q \in RequestType,
           Becomes(r, q), UNCHANGED tables,
           Settled(q),
           q.phase \in Serialised =>
              \/ req[r].phase \in Serialised /\ q.player = req[r].player
              \/ \A o \in Requests :
                    req[o].player = q.player => req[o].phase \notin Serialised
    PROVE  IInv'
<1>1. /\ req'[r] = q
      /\ \A o \in Requests \ {r} : req'[o] = req[o]
  BY DEF Becomes, IInv, TypeOK
<1>2. \A o \in Requests : Settled(req[o])'
  <2> SUFFICES ASSUME NEW o \in Requests PROVE Settled(req[o])'
    OBVIOUS
  <2>1. Settled(req'[o])
    BY <1>1 DEF IInv
  <2> QED
    BY <2>1 DEF Settled, Own, Recorded, Touched, tables
<1>3. LockInv'
  BY <1>1 DEF LockInv, IInv
<1>4. /\ OwnersLinked' /\ NothingOfTheErased' /\ AnsweredOnce'
      /\ RatedOnce' /\ DeltasExplainRatings'
  BY DEF tables, IInv, OwnersLinked, NothingOfTheErased, AnsweredOnce, RatedOnce,
         DeltasExplainRatings, Recorded
<1> QED BY <1>2, <1>3, <1>4 DEF IInv

\* A transaction that ends with nothing written keeps the invariant.
LEMMA AnswerStep ==
    ASSUME IInv, TypeOK', NEW r \in Requests, NEW status \in Statuses,
           Answer(r, status), UNCHANGED tables
    PROVE  IInv'
<1> DEFINE q == [Fresh EXCEPT !.phase = "done", !.status = status]
<1>1. q \in RequestType
  BY AnsweredType
<1>2. Settled(q) /\ q.phase \notin Serialised
  BY DEF Settled, Fresh, Rating, Serialised
<1>3. Becomes(r, q)
  BY DEF Answer
<1> HIDE DEF q
<1> QED BY <1>1, <1>2, <1>3, QuietStep

\* The next phase, when it relies on no more than the last one did.
LEMMA AdvanceStep ==
    ASSUME IInv, TypeOK', NEW r \in Requests, NEW phase \in Phases,
           Advance(r, phase), UNCHANGED tables,
           req[r].phase \notin {"idle", "done"},
           req[r].phase \in Inserting => phase \in Inserting,
           phase \in Rating => req[r].phase \in Rating,
           phase \in Serialised =>
              \/ req[r].phase \in Serialised
              \/ \A o \in Requests :
                    req[o].player = req[r].player
                       => req[o].phase \notin Serialised
    PROVE  IInv'
<1> DEFINE q == [req[r] EXCEPT !.phase = phase]
<1>1. req[r] \in RequestType /\ Settled(req[r])
  BY DEF IInv, TypeOK
<1>2. /\ q \in RequestType
      /\ q.phase = phase /\ q.player = req[r].player
      /\ q.batch = req[r].batch /\ q.landed = req[r].landed
      /\ q.skillRead = req[r].skillRead
  BY <1>1 DEF RequestType
<1>3. Becomes(r, q)
  BY DEF Advance
<1> HIDE DEF q
<1>4. Settled(q)
  BY <1>1, <1>2 DEF Settled, Own, Touched
<1> QED BY <1>2, <1>3, <1>4, QuietStep

\* What an insert lands is news to the table.
LEMMA InsertStep ==
    ASSUME IInv, TypeOK', NEW r \in Requests, Insert(r)
    PROVE  IInv'
<1> DEFINE landing == New(req[r].batch)
           q == [req[r] EXCEPT !.phase = "inserted", !.landed = landing]
<1>1. req[r] \in RequestType /\ Settled(req[r])
  BY DEF IInv, TypeOK
<1>2. CASE ~ForeignKeysHold(r, landing)
  BY <1>2, AnswerStep DEF Insert, Statuses
<1>3. CASE ForeignKeysHold(r, landing)
  <2>1. landing \subseteq req[r].batch /\ \A a \in landing : ~Recorded(a.item)
    BY DEF New
  <2>2. landing \in SUBSET Answers
    BY <1>1, <2>1 DEF RequestType
  <2>3. /\ q \in RequestType
        /\ q.phase = "inserted" /\ q.player = req[r].player
        /\ q.batch = req[r].batch /\ q.landed = landing
    BY <1>1, <2>2 DEF RequestType, Phases
  <2>4. \A a \in landing : owner[PackOf[a.item]] = q.player
    BY <1>3, <2>3 DEF ForeignKeysHold
  <2>5. Becomes(r, q) /\ req[r].phase = "resolved" /\ UNCHANGED tables
    BY <1>3 DEF Insert
  <2> HIDE DEF q, landing
  <2>6. Settled(q)
    BY <1>1, <2>1, <2>3, <2>4, <2>5
       DEF Settled, Own, Inserting, Serialised, Rating
  <2>7. req[r].phase \in Serialised
    BY <2>5 DEF Serialised
  <2> QED BY <2>3, <2>5, <2>6, <2>7, QuietStep
<1> QED BY <1>2, <1>3

\* The skills a batch reads under its player's lock are the table's.
LEMMA ReadSkillsStep ==
    ASSUME IInv, TypeOK', NEW r \in Requests, ReadSkills(r)
    PROVE  IInv'
<1> DEFINE read == [i \in Items |->
                       IF /\ owner[PackOf[i]] = req[r].player
                          /\ SkillOf[i] \in
                                {SkillOf[j] : j \in ItemsOf(LandedRows(r))}
                         THEN rated[i] ELSE 0]
           q == [req[r] EXCEPT !.phase = "readSkills", !.skillRead = read]
<1>1. req[r] \in RequestType /\ Settled(req[r])
  BY DEF IInv, TypeOK
<1>2. /\ req[r].phase = "inserted" /\ req[r].landed # {}
      /\ Becomes(r, q) /\ UNCHANGED tables
  BY DEF ReadSkills, LandedRows
<1>3. read \in [Items -> Nat]
  BY DEF IInv, TypeOK
<1>4. \A i \in Items : read[i] = IF Own(req[r], i) /\ SkillOf[i] \in Touched(req[r])
                                   THEN rated[i] ELSE 0
  BY DEF Own, Touched, LandedRows
<1> HIDE DEF read
<1>5. /\ q \in RequestType
      /\ q.phase = "readSkills" /\ q.player = req[r].player
      /\ q.batch = req[r].batch /\ q.landed = req[r].landed
      /\ q.skillRead = read
  BY <1>1, <1>3 DEF RequestType, Phases
<1> HIDE DEF q
<1>6. Settled(q)
  BY <1>1, <1>2, <1>4, <1>5
     DEF Settled, Own, Touched, Inserting, Serialised, Rating
<1>7. req[r].phase \in Serialised
  BY <1>2 DEF Serialised
<1> QED BY <1>2, <1>5, <1>6, <1>7, QuietStep

\* Reading the classes fixes which answers move the player.
LEMMA ReadClassesStep ==
    ASSUME IInv, TypeOK', NEW r \in Requests, ReadClasses(r)
    PROVE  IInv'
<1> DEFINE met == {ClassOf(i) :
                     i \in {j \in ItemsOf(LandedRows(r)) : Placed(j)}}
           read == [i \in Items |-> IF Placed(i) /\ ClassOf(i) \in met
                                      THEN taught[i] ELSE 0]
           q(order) == [req[r] EXCEPT !.phase = "readClasses",
                                      !.classRead = read, !.todo = order]
<1>1. req[r] \in RequestType /\ Settled(req[r])
  BY DEF IInv, TypeOK
<1>2. req[r].phase = "readSkills" /\ UNCHANGED tables
  BY DEF ReadClasses
<1>3. PICK order \in MetOrders(LandedRows(r)) : Becomes(r, q(order))
  BY DEF ReadClasses
<1>4. order \in Seq(Classes)
  BY <1>1, MetOrdersType DEF LandedRows, RequestType
<1>5. read \in [Items -> Nat]
  BY DEF IInv, TypeOK
<1> HIDE DEF read
<1>6. /\ q(order) \in RequestType
      /\ q(order).phase = "readClasses" /\ q(order).player = req[r].player
      /\ q(order).batch = req[r].batch /\ q(order).landed = req[r].landed
      /\ q(order).skillRead = req[r].skillRead
  BY <1>1, <1>4, <1>5 DEF RequestType, Phases
<1> HIDE DEF q
<1>7. Settled(q(order))
  BY <1>1, <1>2, <1>6
     DEF Settled, Own, Touched, Inserting, Serialised, Rating
<1>8. req[r].phase \in Serialised
  BY <1>2 DEF Serialised
<1> QED BY <1>2, <1>3, <1>6, <1>7, <1>8, QuietStep

\* A class row written stays in the transaction.
LEMMA WriteClassStep ==
    ASSUME IInv, TypeOK', NEW r \in Requests, WriteClass(r)
    PROVE  IInv'
<1> DEFINE q == [req[r] EXCEPT !.written = @ \cup {Head(req[r].todo)},
                               !.todo = Tail(@)]
<1>1. req[r] \in RequestType /\ Settled(req[r])
  BY DEF IInv, TypeOK
<1>2. /\ req[r].phase = "wroteSkills"
      /\ Becomes(r, q) /\ UNCHANGED tables
  BY DEF WriteClass
<1>3. Head(req[r].todo) \in Classes /\ Tail(req[r].todo) \in Seq(Classes)
  BY <1>1, HeadTailProperties DEF WriteClass, RequestType
<1>4. /\ q \in RequestType
      /\ q.phase = "wroteSkills" /\ q.player = req[r].player
      /\ q.batch = req[r].batch /\ q.landed = req[r].landed
      /\ q.skillRead = req[r].skillRead
  BY <1>1, <1>2, <1>3 DEF RequestType
<1> HIDE DEF q
<1>5. Settled(q)
  BY <1>1, <1>2, <1>4
     DEF Settled, Own, Touched, Inserting, Serialised, Rating
<1>6. req[r].phase \in Serialised
  BY <1>2 DEF Serialised
<1> QED BY <1>2, <1>4, <1>5, <1>6, QuietStep

\* A request that arrives has read nothing.
LEMMA ReceiveStep ==
    ASSUME IInv, TypeOK', NEW r \in Requests, NEW p \in Players,
           NEW batch \in Batches, Receive(r, p, batch)
    PROVE  IInv'
<1> DEFINE q == [req[r] EXCEPT !.phase = "received", !.player = p,
                               !.batch = batch]
<1>1. req[r] \in RequestType /\ Settled(req[r])
  BY DEF IInv, TypeOK
<1>2. CASE Refused(batch)
  BY <1>2, AnswerStep DEF Receive, Statuses
<1>3. CASE ~Refused(batch)
  <2>1. req[r].phase = "idle" /\ Becomes(r, q) /\ UNCHANGED tables
    BY <1>3 DEF Receive
  <2>2. /\ q \in RequestType
        /\ q.phase = "received" /\ q.batch = batch /\ q.landed = req[r].landed
    BY <1>1, AnswersAssumption DEF RequestType, Phases
  <2> HIDE DEF q
  <2>3. req[r].landed = {}
    BY <1>1, <2>1 DEF Settled, Inserting, Serialised
  <2>4. \A a, b \in batch : a.item = b.item => a = b
    BY <1>3 DEF Refused
  <2>5. Settled(q) /\ q.phase \notin Serialised
    BY <2>2, <2>3, <2>4 DEF Settled, Rating, Serialised
  <2> QED BY <2>1, <2>2, <2>5, QuietStep
<1> QED BY <1>2, <1>3

\* A player who is linked has no pack yet.
LEMMA LinkStep ==
    ASSUME IInv, TypeOK', NEW p \in Players, Link(p)
    PROVE  IInv'
<1>1. \A r \in Requests : Settled(req[r])'
  BY DEF IInv, Link, Settled, Own, Touched, Recorded
<1>2. OwnersLinked' /\ NothingOfTheErased'
  BY DEF IInv, Link, OwnersLinked, NothingOfTheErased
<1>3. LockInv' /\ AnsweredOnce' /\ RatedOnce' /\ DeltasExplainRatings'
  BY DEF IInv, Link, LockInv, AnsweredOnce, RatedOnce, DeltasExplainRatings,
         Recorded
<1> QED BY <1>1, <1>2, <1>3 DEF IInv

\* A pack is issued to a linked player, and no row refers to it yet.
LEMMA IssuePackStep ==
    ASSUME IInv, TypeOK', NEW p \in Players, NEW k \in Packs, IssuePack(p, k)
    PROVE  IInv'
<1>1. /\ owner' = [owner EXCEPT ![k] = p] /\ owner[k] = NoPlayer
      /\ UNCHANGED <<linked, attempts, rated, deltas, req>> /\ p \in linked
  BY DEF IssuePack
<1>2. owner \in [Packs -> Players \cup {NoPlayer, Gone}] /\ linked \subseteq Players
  BY DEF IInv, TypeOK
<1>3. \A i \in Items : PackOf[i] \in Packs
  BY ItemsAssumption
<1>4. \A i \in Items : PackOf[i] = k => rated[i] = 0
  BY <1>1, <1>2, ItemsAssumption DEF IInv, NothingOfTheErased
<1>5. \A r \in Requests : Settled(req[r])'
  <2> SUFFICES ASSUME NEW r \in Requests PROVE Settled(req[r])'
    OBVIOUS
  <2>1. /\ Settled(req[r]) /\ req[r] \in RequestType
        /\ req[r].phase \notin {"idle", "done"} => req[r].player \in Players
    BY DEF IInv, TypeOK
  <2>2. \A a \in req[r].landed : Own(req[r], a.item)' /\ ~Recorded(a.item)'
    <3> SUFFICES ASSUME NEW a \in req[r].landed
                 PROVE  Own(req[r], a.item)' /\ ~Recorded(a.item)'
      OBVIOUS
    <3>1. Own(req[r], a.item) /\ ~Recorded(a.item) /\ a.item \in Items
      BY <2>1, AnswersAssumption DEF Settled, RequestType
    <3>2. req[r].player \in Players
      BY <2>1 DEF Settled, Inserting, Serialised
    <3>3. PackOf[a.item] # k
      BY <1>1, <3>1, <3>2, ItemsAssumption DEF Own
    <3> QED BY <1>1, <1>2, <1>3, <3>1, <3>3 DEF Own, Recorded
  <2>3. ASSUME NEW i \in Items, req[r].phase \in Rating
        PROVE  req[r].skillRead[i] =
                  IF Own(req[r], i)' /\ SkillOf[i] \in Touched(req[r])
                    THEN rated[i] ELSE 0
    <3>1. req[r].skillRead[i] = IF Own(req[r], i) /\ SkillOf[i] \in Touched(req[r])
                                  THEN rated[i] ELSE 0
      BY <2>1, <2>3 DEF Settled
    <3>2. CASE PackOf[i] = k
      BY <1>4, <3>1, <3>2
    <3>3. CASE PackOf[i] # k
      BY <1>1, <1>2, <1>3, <3>1, <3>3 DEF Own
    <3> QED BY <3>2, <3>3
  <2> QED BY <1>1, <2>1, <2>2, <2>3 DEF Settled, Touched
<1>6. OwnersLinked'
  BY <1>1, <1>2 DEF IInv, OwnersLinked
<1>7. NothingOfTheErased'
  <2>1. ASSUME NEW row \in attempts
        PROVE  row.player \in linked /\ owner'[PackOf[row.answer.item]] = row.player
    <3>1. /\ row.player \in linked /\ owner[PackOf[row.answer.item]] = row.player
          /\ row.answer.item \in Items
      BY AnswersAssumption DEF IInv, NothingOfTheErased, TypeOK
    <3> QED BY <1>1, <1>2, <1>3, <3>1, ItemsAssumption
  <2>2. ASSUME NEW i \in Items, owner'[PackOf[i]] \notin linked
        PROVE  rated[i] = 0
    <3>1. PackOf[i] # k
      BY <1>1, <1>2, <2>2
    <3> QED BY <1>1, <1>2, <1>3, <2>2, <3>1 DEF IInv, NothingOfTheErased
  <2> QED BY <1>1, <2>1, <2>2 DEF NothingOfTheErased
<1>8. LockInv' /\ AnsweredOnce' /\ RatedOnce' /\ DeltasExplainRatings'
  BY <1>1 DEF IInv, LockInv, AnsweredOnce, RatedOnce, DeltasExplainRatings,
              Recorded
<1> QED BY <1>5, <1>6, <1>7, <1>8 DEF IInv

\* An erasure takes the player's packs, rows and ratings together, and leaves an
\* open batch nothing to commit.
LEMMA EraseStep ==
    ASSUME IInv, TypeOK', NEW p \in Players, Erase(p)
    PROVE  IInv'
<1> DEFINE Lost(i) == owner[PackOf[i]] = p
<1>1. /\ linked' = linked \ {p}
      /\ owner' = [k \in Packs |-> IF owner[k] = p THEN Gone ELSE owner[k]]
      /\ attempts' = {row \in attempts : row.player # p}
      /\ \A i \in Items : rated'[i] = IF Lost(i) THEN 0 ELSE rated[i]
      /\ \A i \in Items, s \in Sessions :
            deltas'[s][i] = IF Lost(i) THEN 0 ELSE deltas[s][i]
      /\ req' = req
      /\ \A r \in Requests : (req[r].player = p /\ req[r].phase \in Inserting)
                                => req[r].landed = {}
  BY DEF Erase
<1>2. /\ owner \in [Packs -> Players \cup {NoPlayer, Gone}]
      /\ \A i \in Items : PackOf[i] \in Packs
      /\ Gone \notin Players /\ NoPlayer \notin Players
  BY ItemsAssumption DEF IInv, TypeOK
<1>3. \A row \in attempts : /\ row.answer.item \in Items
                            /\ row.player \in linked
                            /\ owner[PackOf[row.answer.item]] = row.player
  BY AnswersAssumption DEF IInv, TypeOK, NothingOfTheErased
<1>4. \A i \in Items : /\ Lost(i) => ~Recorded(i)'
                       /\ ~Lost(i) => (Recorded(i)' <=> Recorded(i))
  BY <1>1, <1>3 DEF Recorded
<1>5. \A r \in Requests : Settled(req[r])'
  <2> SUFFICES ASSUME NEW r \in Requests PROVE Settled(req[r])'
    OBVIOUS
  <2>1. /\ Settled(req[r]) /\ req[r] \in RequestType
        /\ req[r].phase \notin {"idle", "done"} => req[r].player \in Players
    BY DEF IInv, TypeOK
  <2>2. CASE req[r].landed = {}
    BY <1>1, <2>1, <2>2 DEF Settled, Touched
  <2>3. CASE req[r].landed # {}
    <3>1. req[r].player \in Players \ {p}
      BY <1>1, <2>1, <2>3 DEF Settled, Inserting, Serialised
    <3>2. \A i \in Items : Own(req[r], i)' <=> Own(req[r], i)
      BY <1>1, <1>2, <3>1 DEF Own
    <3>3. \A i \in Items : Own(req[r], i) => rated'[i] = rated[i]
      BY <1>1, <3>1 DEF Own
    <3>4. \A a \in req[r].landed : a.item \in Items
      BY <2>1, AnswersAssumption DEF RequestType
    <3>5. \A a \in req[r].landed : Own(req[r], a.item)' /\ ~Recorded(a.item)'
      BY <1>1, <2>1, <3>2, <3>4 DEF Settled, Recorded
    <3>6. req[r].phase \in Rating =>
             \A i \in Items : req[r].skillRead[i] =
                IF Own(req[r], i)' /\ SkillOf[i] \in Touched(req[r])
                  THEN rated'[i] ELSE 0
      BY <2>1, <3>2, <3>3 DEF Settled
    <3> QED BY <1>1, <2>1, <3>5, <3>6 DEF Settled, Touched
  <2> QED BY <2>2, <2>3
<1>6. OwnersLinked'
  BY <1>1, <1>2 DEF IInv, OwnersLinked
<1>7. NothingOfTheErased'
  <2>1. \A row \in attempts' : row.player \in linked'
                               /\ owner'[PackOf[row.answer.item]] = row.player
    BY <1>1, <1>2, <1>3
  <2>2. ASSUME NEW i \in Items, owner'[PackOf[i]] \notin linked'
        PROVE  rated'[i] = 0
    <3>1. CASE Lost(i)
      BY <1>1, <3>1
    <3>2. CASE ~Lost(i)
      <4>1. owner[PackOf[i]] \notin linked
        BY <1>1, <1>2, <2>2, <3>2
      <4> QED BY <1>1, <3>2, <4>1 DEF IInv, NothingOfTheErased
    <3> QED BY <3>1, <3>2
  <2> QED BY <2>1, <2>2 DEF NothingOfTheErased
<1>8. AnsweredOnce'
  BY <1>1 DEF IInv, AnsweredOnce
<1>9. RatedOnce'
  BY <1>1, <1>4 DEF IInv, RatedOnce
<1>10. DeltasExplainRatings'
  <2> SUFFICES ASSUME NEW i \in Items, NEW s \in Sessions
               PROVE  deltas'[s][i] =
                         IF \E row \in attempts' : row.answer.item = i
                                                   /\ row.answer.session = s
                           THEN rated'[i] ELSE 0
    BY DEF DeltasExplainRatings
  <2>1. CASE Lost(i)
    BY <1>1, <2>1
  <2>2. CASE ~Lost(i)
    <3>1. \A row \in attempts : row.answer.item = i => row \in attempts'
      BY <1>1, <1>3, <2>2
    <3>2. attempts' \subseteq attempts
      BY <1>1
    <3> QED BY <1>1, <2>2, <3>1, <3>2 DEF IInv, DeltasExplainRatings
  <2> QED BY <2>1, <2>2
<1>11. LockInv'
  BY <1>1 DEF IInv, LockInv
<1> QED BY <1>5, <1>6, <1>7, <1>8, <1>9, <1>10, <1>11 DEF IInv

-----------------------------------------------------------------------------
(* COMMIT                                                                  *)

\* The rating as COMMIT leaves it is the rating as it was before COMMIT, and
\* not as the request read it, with the batch's moving answers added: no update
\* of the player's is lost.
LEMMA CommitAdds ==
    ASSUME IInv, NEW r \in Requests, Commit(r)
    PROVE  /\ Moving(req[r].landed, req[r].classRead) \subseteq req[r].landed
           /\ \A i \in Items :
                 rated'[i] = rated[i]
                    + One(Moving(req[r].landed, req[r].classRead), i)
<1> DEFINE moving == Moving(req[r].landed, req[r].classRead)
           moved == {SkillOf[a.item] : a \in moving}
<1>1. moving \subseteq req[r].landed
  BY DEF Moving
<1>2. /\ Settled(req[r]) /\ rated \in [Items -> Nat]
      /\ \A a \in req[r].landed : a.item \in Items
  BY AnswersAssumption DEF IInv, TypeOK, RequestType
<1>3. \A i \in Items :
         rated'[i] = IF Own(req[r], i) /\ SkillOf[i] \in moved
                       THEN req[r].skillRead[i] + One(moving, i)
                       ELSE rated[i]
  BY DEF Commit, RatedAfter, LandedRows, Own
<1>4. moving # {} => req[r].phase \in Rating
  BY <1>1 DEF Commit, LandedRows, Rating
<1> HIDE DEF moving
<1>5. ASSUME NEW i \in Items PROVE rated'[i] = rated[i] + One(moving, i)
  <2>1. CASE Own(req[r], i) /\ SkillOf[i] \in moved
    <3>1. SkillOf[i] \in Touched(req[r]) /\ moving # {}
      BY <1>1, <2>1 DEF Touched, ItemsOf
    <3>2. req[r].skillRead[i] = rated[i]
      BY <1>2, <1>4, <2>1, <3>1 DEF Settled
    <3> QED BY <1>3, <2>1, <3>2
  <2>2. CASE ~(Own(req[r], i) /\ SkillOf[i] \in moved)
    <3>1. i \notin ItemsOf(moving)
      BY <1>1, <1>2, <2>2 DEF Settled, ItemsOf
    <3> QED BY <1>2, <1>3, <2>2, <3>1 DEF One
  <2> QED BY <2>1, <2>2
<1> QED BY <1>1, <1>5 DEF moving

\* A commit moves into the tables what the batch holds, and that was current.
LEMMA CommitStep ==
    ASSUME IInv, TypeOK', NEW r \in Requests, Commit(r)
    PROVE  IInv'
<1> DEFINE landed == req[r].landed
           moving == Moving(landed, req[r].classRead)
           player == req[r].player
<1>1. /\ attempts' = attempts \cup {[player |-> player, answer |-> a] : a \in landed}
      /\ \A i \in Items, s \in Sessions :
            deltas'[s][i] = deltas[s][i] + One({a \in moving : a.session = s}, i)
      /\ linked' = linked /\ owner' = owner
      /\ Answer(r, "verdicts")
      /\ req[r].phase \in Inserting
  BY DEF Commit, DeltasAfter, LandedRows, Inserting, Serialised
<1>2. /\ moving \subseteq landed
      /\ \A i \in Items : rated'[i] = rated[i] + One(moving, i)
  BY CommitAdds
<1> HIDE DEF moving
<1>3. /\ Settled(req[r]) /\ landed \subseteq Answers /\ player \in Players
      /\ \A a \in landed : a.item \in Items /\ a.session \in Sessions
  BY <1>1, AnswersAssumption DEF IInv, TypeOK, RequestType, Inserting, Serialised
<1>4. /\ rated \in [Items -> Nat] /\ deltas \in [Sessions -> [Items -> Nat]]
      /\ attempts \subseteq [player : Players, answer : Answers]
  BY DEF IInv, TypeOK
<1>5. /\ \A a \in landed : owner[PackOf[a.item]] = player /\ ~Recorded(a.item)
      /\ \A a, b \in landed : a.item = b.item => a = b
  BY <1>1, <1>3 DEF Settled, Own, Inserting, Serialised
<1>6. \A i \in Items : ~Recorded(i) =>
         rated[i] = 0 /\ \A s \in Sessions : deltas[s][i] = 0
  <2> SUFFICES ASSUME NEW i \in Items, ~Recorded(i)
               PROVE  rated[i] = 0 /\ \A s \in Sessions : deltas[s][i] = 0
    OBVIOUS
  <2>1. rated[i] \in Nat /\ rated[i] <= 1 /\ rated[i] # 1
    BY <1>4 DEF IInv, RatedOnce
  <2>2. \A s \in Sessions : deltas[s][i] = 0
    BY DEF IInv, DeltasExplainRatings, Recorded
  <2> QED BY <2>1, <2>2
<1>7. landed # {} => player \in linked
  BY <1>3, <1>5, ItemsAssumption DEF IInv, OwnersLinked
<1>8. \A i \in Items : One(moving, i) = 0 \/ (One(moving, i) = 1 /\ i \in ItemsOf(landed))
  BY <1>2 DEF One, ItemsOf
<1>9. \A i \in Items : Recorded(i)' <=> (Recorded(i) \/ i \in ItemsOf(landed))
  <2> SUFFICES ASSUME NEW i \in Items
               PROVE  Recorded(i)' <=> (Recorded(i) \/ i \in ItemsOf(landed))
    OBVIOUS
  <2>1. ASSUME Recorded(i)' PROVE Recorded(i) \/ i \in ItemsOf(landed)
    <3>1. PICK row \in attempts' : row.answer.item = i
      BY <2>1 DEF Recorded
    <3>2. row \in attempts \/ \E a \in landed : row.answer = a
      BY <1>1
    <3> QED BY <3>1, <3>2 DEF Recorded, ItemsOf
  <2>2. ASSUME i \in ItemsOf(landed) PROVE Recorded(i)'
    <3>1. PICK a \in landed : a.item = i
      BY <2>2 DEF ItemsOf
    <3>2. [player |-> player, answer |-> a] \in attempts'
      BY <1>1
    <3>3. [player |-> player, answer |-> a].answer.item = i
      BY <3>1
    <3> QED BY <3>2, <3>3 DEF Recorded
  <2>3. Recorded(i) => Recorded(i)'
    BY <1>1 DEF Recorded
  <2> QED BY <2>1, <2>2, <2>3
<1>10. AnsweredOnce'
  <2> SUFFICES ASSUME NEW x \in attempts', NEW y \in attempts',
                      x.answer.item = y.answer.item
               PROVE  x = y
    BY DEF AnsweredOnce
  <2>1. x \in attempts \/ \E a \in landed : x = [player |-> player, answer |-> a]
    BY <1>1
  <2>2. y \in attempts \/ \E a \in landed : y = [player |-> player, answer |-> a]
    BY <1>1
  <2> QED BY <1>5, <2>1, <2>2 DEF IInv, AnsweredOnce, Recorded
<1>11. RatedOnce'
  <2> SUFFICES ASSUME NEW i \in Items
               PROVE  rated'[i] <= 1 /\ (rated'[i] = 1 => Recorded(i)')
    BY DEF RatedOnce
  <2>1. CASE i \in ItemsOf(landed)
    <3>1. rated[i] = 0
      BY <1>5, <1>6, <2>1 DEF ItemsOf
    <3> QED BY <1>2, <1>8, <1>9, <2>1, <3>1
  <2>2. CASE i \notin ItemsOf(landed)
    <3>1. rated'[i] = rated[i]
      BY <1>2, <1>4, <1>8, <2>2
    <3> QED BY <1>9, <3>1 DEF IInv, RatedOnce
  <2> QED BY <2>1, <2>2
<1>12. DeltasExplainRatings'
  <2> SUFFICES ASSUME NEW i \in Items, NEW s \in Sessions
               PROVE  deltas'[s][i] =
                         IF \E row \in attempts' : row.answer.item = i
                                                   /\ row.answer.session = s
                           THEN rated'[i] ELSE 0
    BY DEF DeltasExplainRatings
  <2> DEFINE inSession == {a \in moving : a.session = s}
  <2>1. CASE i \in ItemsOf(landed)
    <3>1. PICK a \in landed : a.item = i
      BY <2>1 DEF ItemsOf
    <3>2. rated[i] = 0 /\ deltas[s][i] = 0
      BY <1>5, <1>6, <3>1
    <3>3. i \in ItemsOf(moving) <=> a \in moving
      BY <1>2, <1>5, <3>1 DEF ItemsOf
    <3>4. i \in ItemsOf(inSession) <=> (a \in moving /\ a.session = s)
      BY <1>2, <1>5, <3>1 DEF ItemsOf
    <3>5. (\E row \in attempts' : row.answer.item = i /\ row.answer.session = s)
             <=> a.session = s
      <4>1. ~Recorded(i)
        BY <1>5, <3>1
      <4>2. \A row \in attempts' : row.answer.item = i => row.answer = a
        BY <1>1, <1>5, <3>1, <4>1 DEF Recorded
      <4>3. [player |-> player, answer |-> a] \in attempts'
        BY <1>1
      <4> QED BY <3>1, <4>2, <4>3
    <3>6. One(moving, i) = IF a \in moving THEN 1 ELSE 0
      BY <3>3 DEF One
    <3>7. One(inSession, i) = IF a \in moving /\ a.session = s THEN 1 ELSE 0
      BY <3>4 DEF One
    <3> QED BY <1>1, <1>2, <3>2, <3>5, <3>6, <3>7
  <2>2. CASE i \notin ItemsOf(landed)
    <3>1. One(moving, i) = 0 /\ One(inSession, i) = 0
      BY <1>2, <2>2 DEF One, ItemsOf
    <3>2. rated'[i] = rated[i] /\ deltas'[s][i] = deltas[s][i]
      BY <1>1, <1>2, <1>4, <3>1
    <3>3. \A row \in attempts' : row.answer.item = i => row \in attempts
      BY <1>1, <2>2 DEF ItemsOf
    <3>4. attempts \subseteq attempts'
      BY <1>1
    <3> QED BY <3>2, <3>3, <3>4 DEF IInv, DeltasExplainRatings
  <2> QED BY <2>1, <2>2
<1>13. NothingOfTheErased'
  <2>1. \A row \in attempts' : row.player \in linked'
                               /\ owner'[PackOf[row.answer.item]] = row.player
    BY <1>1, <1>5, <1>7 DEF IInv, NothingOfTheErased
  <2>2. ASSUME NEW i \in Items, owner'[PackOf[i]] \notin linked'
        PROVE  rated'[i] = 0
    <3>1. i \notin ItemsOf(landed)
      BY <1>1, <1>5, <1>7, <2>2 DEF ItemsOf
    <3>2. rated'[i] = rated[i]
      BY <1>2, <1>4, <1>8, <3>1
    <3> QED BY <1>1, <2>2, <3>2 DEF IInv, NothingOfTheErased
  <2> QED BY <2>1, <2>2 DEF NothingOfTheErased
<1>14. OwnersLinked'
  BY <1>1 DEF IInv, OwnersLinked
<1>15. /\ \A o \in Requests \ {r} : req'[o] = req[o]
       /\ req'[r] = [Fresh EXCEPT !.phase = "done", !.status = "verdicts"]
  BY <1>1 DEF Answer, Becomes, IInv, TypeOK
<1>16. Settled(req[r])'
  BY <1>15 DEF Settled, Fresh, Rating
<1>17. ASSUME NEW o \in Requests \ {r} PROVE Settled(req[o])'
  <2>1. Settled(req[o]) /\ req'[o] = req[o] /\ req[o] \in RequestType
    BY <1>15 DEF IInv, TypeOK
  <2>2. CASE req[o].landed = {}
    BY <2>1, <2>2 DEF Settled, Touched
  <2>3. CASE req[o].landed # {}
    <3>1. req[o].player # player
      BY <1>1, <2>1, <2>3 DEF IInv, LockInv, Settled, Inserting
    <3>2. \A i \in Items : Own(req[o], i) => i \notin ItemsOf(landed)
      BY <1>5, <3>1 DEF Own, ItemsOf
    <3>3. \A i \in Items : Own(req[o], i) => rated'[i] = rated[i]
      BY <1>2, <1>4, <1>8, <3>2
    <3>4. \A a \in req[o].landed : Own(req[o], a.item)' /\ ~Recorded(a.item)'
      <4>1. \A a \in req[o].landed : a.item \in Items
        BY <2>1, AnswersAssumption DEF RequestType
      <4> QED BY <1>1, <1>9, <2>1, <3>2, <4>1 DEF Settled, Own
    <3>5. \A i \in Items : Own(req[o], i)' <=> Own(req[o], i)
      BY <1>1, <2>1 DEF Own
    <3>6. req[o].phase \in Rating =>
             \A i \in Items : req[o].skillRead[i] =
                IF Own(req[o], i)' /\ SkillOf[i] \in Touched(req[o])
                  THEN rated'[i] ELSE 0
      BY <2>1, <3>3, <3>5 DEF Settled
    <3> QED BY <2>1, <3>4, <3>6 DEF Settled, Touched
  <2> QED BY <2>2, <2>3
<1>18. LockInv'
  <2>1. req'[r].phase \notin Serialised
    BY <1>15 DEF Fresh, Serialised
  <2> QED BY <1>15, <2>1 DEF IInv, LockInv
<1> QED
  BY <1>10, <1>11, <1>12, <1>13, <1>14, <1>16, <1>17, <1>18 DEF IInv

\* Each step of the handler keeps the invariant.
LEMMA HandlerStep ==
    ASSUME IInv, TypeOK', NEW r \in Requests, Handler(r) \/ Fail(r)
    PROVE  IInv'
<1>1. CASE FindPlayer(r)
  BY <1>1, AnswerStep, AdvanceStep
     DEF FindPlayer, Statuses, Phases, Inserting, Serialised, Rating
<1>2. CASE Lock(r)
  BY <1>2, AdvanceStep DEF Lock, Phases, Inserting, Serialised, Rating
<1>3. CASE Resolve(r)
  BY <1>3, AnswerStep, AdvanceStep
     DEF Resolve, Statuses, Phases, Inserting, Serialised, Rating
<1>4. CASE Insert(r)
  BY <1>4, InsertStep
<1>5. CASE ReadSkills(r)
  BY <1>5, ReadSkillsStep
<1>6. CASE ReadClasses(r)
  BY <1>6, ReadClassesStep
<1>7. CASE WriteSkills(r)
  BY <1>7, AdvanceStep DEF WriteSkills, Phases, Inserting, Serialised, Rating
<1>8. CASE WriteClass(r)
  BY <1>8, WriteClassStep
<1>9. CASE WriteDeltas(r)
  BY <1>9, AdvanceStep DEF WriteDeltas, Phases, Inserting, Serialised, Rating
<1>10. CASE Commit(r)
  BY <1>10, CommitStep
<1>11. CASE DeadlockVictim(r)
  BY <1>11, AnswerStep DEF DeadlockVictim, Statuses
<1>12. CASE Fail(r)
  BY <1>12, AnswerStep DEF Fail, Statuses
<1> QED
  BY <1>1, <1>2, <1>3, <1>4, <1>5, <1>6, <1>7, <1>8, <1>9, <1>10, <1>11,
     <1>12 DEF Handler

\* Every step keeps the invariant.
LEMMA InvStep == IInv /\ [Next]_vars => IInv'
<1> SUFFICES ASSUME IInv, [Next]_vars PROVE IInv'
  OBVIOUS
<1>1. TypeOK'
  BY TypeStep DEF IInv
<1>2. ASSUME NEW p \in Players,
             Link(p) \/ Erase(p) \/ \E k \in Packs : IssuePack(p, k)
      PROVE  IInv'
  BY <1>1, <1>2, LinkStep, EraseStep, IssuePackStep
<1>3. ASSUME NEW r \in Requests,
             \/ \E p \in Players, batch \in Batches : Receive(r, p, batch)
             \/ Handler(r)
             \/ Fail(r)
      PROVE  IInv'
  BY <1>1, <1>3, ReceiveStep, HandlerStep
<1>4. CASE UNCHANGED vars
  <2>1. \A r \in Requests : Settled(req[r])'
    BY <1>4 DEF IInv, vars, Settled, Own, Touched, Recorded
  <2>2. LockInv' /\ OwnersLinked' /\ NothingOfTheErased' /\ AnsweredOnce'
    BY <1>4 DEF IInv, vars, LockInv, OwnersLinked, NothingOfTheErased,
                AnsweredOnce
  <2>3. RatedOnce' /\ DeltasExplainRatings'
    BY <1>4 DEF IInv, vars, RatedOnce, DeltasExplainRatings, Recorded
  <2> QED BY <1>1, <2>1, <2>2, <2>3 DEF IInv
<1> QED BY <1>2, <1>3, <1>4 DEF Next

\* The inductive invariant of the interleaved transactions.
LEMMA Invariance == Spec => []IInv
BY InitInv, InvStep, PTL DEF Spec

-----------------------------------------------------------------------------
(* What the invariant gives                                                *)

\* The tables and the requests keep their types, whatever the interleaving.
THEOREM TypeCorrect == Spec => []TypeOK
<1>1. IInv => TypeOK
  BY DEF IInv
<1> QED BY <1>1, Invariance, PTL

\* Two requests of one player are never inside the transaction's serialised
\* part together: pg_advisory_xact_lock is held from before the first read of
\* the rating to COMMIT or ROLLBACK.
THEOREM OneBatchAtATime == Spec => []LockInv
<1>1. IInv => LockInv
  BY DEF IInv
<1> QED BY <1>1, Invariance, PTL

\* However many requests carry an item, at most one row of attempts answers it.
THEOREM AnsweredOnceAlways == Spec => []AnsweredOnce
<1>1. IInv => AnsweredOnce
  BY DEF IInv
<1> QED BY <1>1, Invariance, PTL

\* However many requests carry an item, it moves the player's rating at most
\* once, and only when its row is on record.
THEOREM RatedOnceAlways == Spec => []RatedOnce
<1>1. IInv => RatedOnce
  BY DEF IInv
<1> QED BY <1>1, Invariance, PTL

\* session_deltas accounts for user_skills: every movement is in the row of the
\* session its answer was given in, and in no other.
THEOREM DeltasExplain == Spec => []DeltasExplainRatings
<1>1. IInv => DeltasExplainRatings
  BY DEF IInv
<1> QED BY <1>1, Invariance, PTL

\* DELETE /me leaves nothing behind, whatever batch of the player's was open.
THEOREM ErasedLeaveNothing == Spec => []NothingOfTheErased
<1>1. IInv => NothingOfTheErased
  BY DEF IInv
<1> QED BY <1>1, Invariance, PTL

\* Every step but COMMIT and DELETE /me leaves the rows and the ratings alone.
LEMMA WhoWrites ==
    ASSUME [Next]_vars
    PROVE  \/ \E r \in Requests : Commit(r)
           \/ \E p \in Players : Erase(p)
           \/ UNCHANGED <<attempts, rated>>
<1>1. ASSUME NEW r \in Requests, Handler(r) \/ Fail(r)
      PROVE  Commit(r) \/ UNCHANGED <<attempts, rated>>
  BY <1>1 DEF Handler, tables, Fail, FindPlayer, Lock, Resolve, Insert,
     ReadSkills, ReadClasses, WriteSkills, WriteClass, WriteDeltas,
     DeadlockVictim
<1>2. ASSUME NEW r \in Requests, NEW p \in Players, NEW batch \in Batches,
             Receive(r, p, batch)
      PROVE  UNCHANGED <<attempts, rated>>
  BY <1>2 DEF Receive, tables
<1>3. ASSUME NEW p \in Players, Link(p) \/ \E k \in Packs : IssuePack(p, k)
      PROVE  UNCHANGED <<attempts, rated>>
  BY <1>3 DEF Link, IssuePack
<1>4. CASE UNCHANGED vars
  BY <1>4 DEF vars
<1> QED BY <1>1, <1>2, <1>3, <1>4 DEF Next

\* The rows a COMMIT adds are news to the table, and no rating on record moves.
LEMMA CommitIsNews ==
    ASSUME IInv, NEW r \in Requests, Commit(r)
    PROVE  /\ req[r].player \in Players
           /\ req[r].landed \in SUBSET Answers
           /\ \A a, b \in req[r].landed : a.item = b.item => a = b
           /\ \A a \in req[r].landed : ~Recorded(a.item)
           /\ attempts' = attempts \cup
                 {[player |-> req[r].player, answer |-> a] : a \in req[r].landed}
           /\ \A i \in Items : rated'[i] >= rated[i]
           /\ \A i \in Items : Recorded(i) => rated'[i] = rated[i]
<1> DEFINE landed == req[r].landed
           moving == Moving(landed, req[r].classRead)
<1>1. /\ req[r].phase \in Inserting
      /\ attempts' = attempts \cup
            {[player |-> req[r].player, answer |-> a] : a \in landed}
  BY DEF Commit, LandedRows, Inserting, Serialised
<1>2. /\ req[r].player \in Players /\ landed \in SUBSET Answers
      /\ Settled(req[r]) /\ rated \in [Items -> Nat]
  BY <1>1 DEF IInv, TypeOK, RequestType, Inserting, Serialised
<1>3. /\ \A a, b \in landed : a.item = b.item => a = b
      /\ \A a \in landed : ~Recorded(a.item)
  BY <1>1, <1>2 DEF Settled, Inserting, Serialised
<1>4. moving \subseteq landed /\ \A i \in Items : rated'[i] = rated[i] + One(moving, i)
  BY CommitAdds
<1> HIDE DEF moving
<1>5. \A i \in Items : /\ One(moving, i) \in Nat
                       /\ Recorded(i) => One(moving, i) = 0
  BY <1>3, <1>4 DEF One, ItemsOf
<1>6. \A i \in Items : rated[i] \in Nat
  BY <1>2
<1>7. \A i \in Items : rated'[i] >= rated[i]
  BY <1>4, <1>5, <1>6
<1>8. \A i \in Items : Recorded(i) => rated'[i] = rated[i]
  BY <1>4, <1>5, <1>6
<1> QED BY <1>1, <1>2, <1>3, <1>7, <1>8

\* An answer on record stays, and a rating never loses an observation to a
\* concurrent batch of the same player, for as long as the player is there.
THEOREM NothingIsLost == Spec => NothingLost
<1> DEFINE Kept(p) ==
             p \in linked' =>
                /\ {row \in attempts : row.player = p} \subseteq attempts'
                /\ \A i \in Items : owner[PackOf[i]] = p => rated'[i] >= rated[i]
<1>1. ASSUME IInv, [Next]_vars, NEW p \in Players PROVE Kept(p)
  <2>1. \A i \in Items : rated[i] \in Nat
    BY <1>1 DEF IInv, TypeOK
  <2>2. ASSUME NEW r \in Requests, Commit(r) PROVE Kept(p)
    BY <1>1, <2>2, CommitIsNews
  <2>3. ASSUME NEW q \in Players, Erase(q) PROVE Kept(p)
    <3>1. /\ linked' = linked \ {q}
          /\ attempts' = {row \in attempts : row.player # q}
          /\ \A i \in Items :
                rated'[i] = IF owner[PackOf[i]] = q THEN 0 ELSE rated[i]
      BY <2>3 DEF Erase
    <3> QED BY <2>1, <3>1
  <2>4. CASE UNCHANGED <<attempts, rated>>
    BY <2>1, <2>4
  <2> QED BY <1>1, <2>2, <2>3, <2>4, WhoWrites
<1>2. IInv /\ [Next]_vars => [\A p \in Players : Kept(p)]_vars
  BY <1>1
<1> QED BY <1>2, Invariance, PTL DEF Spec, NothingLost

-----------------------------------------------------------------------------
(* Whole batches                                                           *)

\* What a request that has inserted relies on for the rest of its batch: the
\* answers that did not land are on record already, and only DELETE /me takes
\* them away.
Accounted ==
    \A r \in Requests :
        req[r].phase \in Inserting =>
            \A a \in req[r].batch \ req[r].landed :
               Recorded(a.item) \/ owner[PackOf[a.item]] = Gone

\* A step that neither writes nor lands anything leaves the account of a batch.
LEMMA AccountedQuietly ==
    ASSUME TypeOK, Accounted, NEW r \in Requests, NEW q,
           Becomes(r, q), UNCHANGED tables,
           q.phase \in Inserting =>
              /\ req[r].phase \in Inserting
              /\ q.batch = req[r].batch /\ q.landed = req[r].landed
    PROVE  Accounted'
<1>1. /\ req'[r] = q
      /\ \A o \in Requests \ {r} : req'[o] = req[o]
  BY DEF Becomes, TypeOK
<1> QED BY <1>1 DEF Accounted, Recorded, tables

\* The handler keeps it: what did not land was on record.
LEMMA AccountedHandler ==
    ASSUME IInv, Accounted, NEW r \in Requests, Handler(r) \/ Fail(r)
    PROVE  Accounted'
<1>1. TypeOK /\ req[r] \in RequestType
  BY DEF IInv, TypeOK
<1>2. ASSUME NEW status, Answer(r, status), UNCHANGED tables PROVE Accounted'
  <2> DEFINE q == [Fresh EXCEPT !.phase = "done", !.status = status]
  <2>1. q.phase \notin Inserting
    BY DEF Fresh, Inserting, Serialised
  <2>2. Becomes(r, q)
    BY <1>2 DEF Answer
  <2> HIDE DEF q
  <2> QED BY <1>1, <1>2, <2>1, <2>2, AccountedQuietly
<1>3. ASSUME NEW phase, Advance(r, phase), UNCHANGED tables,
             phase \in Inserting => req[r].phase \in Inserting
      PROVE  Accounted'
  <2> DEFINE q == [req[r] EXCEPT !.phase = phase]
  <2>1. q.phase = phase /\ q.batch = req[r].batch /\ q.landed = req[r].landed
    BY <1>1 DEF RequestType
  <2>2. Becomes(r, q)
    BY <1>3 DEF Advance
  <2> HIDE DEF q
  <2> QED BY <1>1, <1>3, <2>1, <2>2, AccountedQuietly
<1>4. CASE FindPlayer(r) \/ Resolve(r) \/ Lock(r)
  BY <1>2, <1>3, <1>4 DEF FindPlayer, Resolve, Lock, Inserting, Serialised
<1>5. CASE Insert(r)
  <2> DEFINE landing == New(req[r].batch)
             q == [req[r] EXCEPT !.phase = "inserted", !.landed = landing]
  <2>1. CASE ~ForeignKeysHold(r, landing)
    BY <1>2, <1>5, <2>1 DEF Insert
  <2>2. CASE ForeignKeysHold(r, landing)
    <3>1. \A a \in req[r].batch \ landing : Recorded(a.item)
      BY DEF New
    <3>2. Becomes(r, q) /\ UNCHANGED tables
      BY <1>5, <2>2 DEF Insert
    <3>3. q.batch = req[r].batch /\ q.landed = landing
      BY <1>1 DEF RequestType
    <3> HIDE DEF q, landing
    <3>4. /\ req'[r] = q
          /\ \A o \in Requests \ {r} : req'[o] = req[o]
      BY <1>1, <3>2 DEF Becomes, TypeOK
    <3> QED BY <3>1, <3>2, <3>3, <3>4 DEF Accounted, Recorded, tables
  <2> QED BY <2>1, <2>2
<1>6. CASE ReadSkills(r) \/ ReadClasses(r) \/ WriteClass(r)
  <2>1. \E q : /\ Becomes(r, q) /\ UNCHANGED tables
               /\ q.batch = req[r].batch /\ q.landed = req[r].landed
               /\ req[r].phase \in Inserting
    BY <1>1, <1>6 DEF ReadSkills, ReadClasses, WriteClass, RequestType,
                      Inserting, Serialised
  <2> QED BY <1>1, <2>1, AccountedQuietly
<1>7. CASE WriteSkills(r) \/ WriteDeltas(r)
  BY <1>3, <1>7 DEF WriteSkills, WriteDeltas, Inserting, Serialised
<1>8. CASE Commit(r)
  <2>1. attempts \subseteq attempts' /\ owner' = owner /\ Answer(r, "verdicts")
    BY <1>8 DEF Commit
  <2>2. /\ \A o \in Requests \ {r} : req'[o] = req[o]
        /\ req'[r] = [Fresh EXCEPT !.phase = "done", !.status = "verdicts"]
    BY <1>1, <2>1 DEF Answer, Becomes, TypeOK
  <2>3. req'[r].phase \notin Inserting
    BY <2>2 DEF Fresh, Inserting, Serialised
  <2>4. \A i : Recorded(i) => Recorded(i)'
    BY <2>1 DEF Recorded
  <2> QED BY <2>1, <2>2, <2>3, <2>4 DEF Accounted
<1>9. CASE DeadlockVictim(r) \/ Fail(r)
  BY <1>2, <1>9 DEF DeadlockVictim, Fail
<1> QED BY <1>4, <1>5, <1>6, <1>7, <1>8, <1>9 DEF Handler

\* So does every step: a recorded answer only goes with its pack.
LEMMA AccountedStep == IInv /\ Accounted /\ [Next]_vars => Accounted'
<1> SUFFICES ASSUME IInv, Accounted, [Next]_vars PROVE Accounted'
  OBVIOUS
<1>1. ASSUME NEW p \in Players, Link(p) PROVE Accounted'
  BY <1>1 DEF Link, Accounted, Recorded
<1>2. ASSUME NEW p \in Players, NEW k \in Packs, IssuePack(p, k) PROVE Accounted'
  <2>1. \A i \in Items : owner[PackOf[i]] = Gone => owner'[PackOf[i]] = Gone
    BY <1>2, ItemsAssumption DEF IssuePack, IInv, TypeOK
  <2>2. \A r \in Requests : \A a \in req[r].batch : a.item \in Items
    BY AnswersAssumption DEF IInv, TypeOK, RequestType
  <2> QED BY <1>2, <2>1, <2>2 DEF IssuePack, Accounted, Recorded
<1>3. ASSUME NEW p \in Players, Erase(p) PROVE Accounted'
  <2>1. /\ attempts' = {row \in attempts : row.player # p}
        /\ owner' = [k \in Packs |-> IF owner[k] = p THEN Gone ELSE owner[k]]
        /\ req' = req
    BY <1>3 DEF Erase
  <2>2. \A row \in attempts : owner[PackOf[row.answer.item]] = row.player
    BY DEF IInv, NothingOfTheErased
  <2>3. \A i \in Items : Recorded(i) => Recorded(i)' \/ owner'[PackOf[i]] = Gone
    BY <2>1, <2>2, ItemsAssumption DEF Recorded
  <2>4. \A i \in Items : owner[PackOf[i]] = Gone => owner'[PackOf[i]] = Gone
    BY <2>1, ItemsAssumption
  <2>5. \A r \in Requests : \A a \in req[r].batch : a.item \in Items
    BY AnswersAssumption DEF IInv, TypeOK, RequestType
  <2> QED BY <2>1, <2>3, <2>4, <2>5 DEF Accounted
<1>4. ASSUME NEW r \in Requests, NEW p \in Players, NEW batch \in Batches,
             Receive(r, p, batch)
      PROVE  Accounted'
  <2>1. \E q : Becomes(r, q) /\ q.phase \notin Inserting /\ UNCHANGED tables
    <3>1. [Fresh EXCEPT !.phase = "done", !.status = "malformed"].phase
             \notin Inserting
      BY DEF Fresh, Inserting, Serialised
    <3>2. [req[r] EXCEPT !.phase = "received", !.player = p,
                         !.batch = batch].phase \notin Inserting
      BY DEF IInv, TypeOK, RequestType, Inserting, Serialised
    <3> QED BY <1>4, <3>1, <3>2 DEF Receive, Answer
  <2> QED BY <2>1, AccountedQuietly DEF IInv
<1>5. CASE UNCHANGED vars
  BY <1>5 DEF vars, Accounted, Recorded
<1> QED BY <1>1, <1>2, <1>3, <1>4, <1>5, AccountedHandler DEF Next

\* Only COMMIT answers with verdicts.
LEMMA OthersAnswerNothing ==
    ASSUME IInv, NEW r \in Requests, Handler(r) \/ Fail(r), ~Commit(r),
           req'[r].phase = "done"
    PROVE  req'[r].status # "verdicts" /\ UNCHANGED <<attempts, rated>>
<1> DEFINE Quiet(q) == Becomes(r, q) /\ (q.phase = "done" => q.status # "verdicts")
<1>1. ASSUME NEW status, status # "verdicts", Answer(r, status)
      PROVE  \E q : Quiet(q)
  <2>1. [Fresh EXCEPT !.phase = "done", !.status = status].status = status
    BY DEF Fresh
  <2> QED BY <1>1, <2>1 DEF Answer
<1>2. req[r] \in RequestType
  BY DEF IInv, TypeOK
<1>3. ASSUME NEW phase, phase # "done", Advance(r, phase)
      PROVE  \E q : Quiet(q)
  <2>1. [req[r] EXCEPT !.phase = phase].phase = phase
    BY <1>2 DEF RequestType
  <2> QED BY <1>3, <2>1 DEF Advance
<1>4. CASE FindPlayer(r) \/ Lock(r) \/ Resolve(r) \/ WriteSkills(r)
           \/ WriteDeltas(r) \/ DeadlockVictim(r) \/ Fail(r)
  <2>1. \E q : Quiet(q)
    <3> HIDE DEF Quiet
    <3> QED BY <1>1, <1>3, <1>4 DEF FindPlayer, Lock, Resolve, WriteSkills,
           WriteDeltas, DeadlockVictim, Fail
  <2> QED
    BY <1>4, <2>1 DEF FindPlayer, Lock, Resolve, WriteSkills, WriteDeltas,
       DeadlockVictim, Fail, tables, Becomes, IInv, TypeOK
<1>5. CASE Insert(r)
  <2>1. [req[r] EXCEPT !.phase = "inserted",
                       !.landed = New(req[r].batch)].phase = "inserted"
    BY <1>2 DEF RequestType
  <2>2. \E q : Quiet(q)
    BY <1>1, <1>5, <2>1 DEF Insert
  <2> QED BY <1>5, <2>2 DEF Insert, tables, Becomes, IInv, TypeOK
<1>6. CASE ReadSkills(r) \/ ReadClasses(r) \/ WriteClass(r)
  <2>1. \E q : Becomes(r, q) /\ q.phase # "done"
    <3>1. CASE ReadSkills(r)
      <4>1. \A f : [req[r] EXCEPT !.phase = "readSkills",
                                  !.skillRead = f].phase # "done"
        BY <1>2 DEF RequestType
      <4> QED BY <3>1, <4>1 DEF ReadSkills
    <3>2. CASE ReadClasses(r)
      <4>1. \A f, order : [req[r] EXCEPT !.phase = "readClasses",
                             !.classRead = f, !.todo = order].phase # "done"
        BY <1>2 DEF RequestType
      <4> QED BY <3>2, <4>1 DEF ReadClasses
    <3>3. CASE WriteClass(r)
      <4>1. [req[r] EXCEPT !.written = @ \cup {Head(req[r].todo)},
                           !.todo = Tail(@)].phase # "done"
        BY <1>2, <3>3 DEF WriteClass, RequestType
      <4> QED BY <3>3, <4>1 DEF WriteClass
    <3> QED BY <1>6, <3>1, <3>2, <3>3
  <2> QED
    BY <1>6, <2>1 DEF ReadSkills, ReadClasses, WriteClass, tables, Becomes,
       IInv, TypeOK
<1> QED BY <1>4, <1>5, <1>6 DEF Handler

\* A request answered with verdicts has its whole batch on record when it is
\* answered, save what DELETE /me has taken meanwhile; answered with anything
\* else, it has added nothing and moved nothing.
THEOREM BatchesAreWhole == Spec => WholeBatchOrNone
<1> DEFINE Whole(r) ==
             req'[r].phase = "done" /\ req[r].phase # "done" =>
                IF req'[r].status = "verdicts"
                  THEN \A i \in ItemsOf(req[r].batch) :
                          \/ owner[PackOf[i]] = Gone
                          \/ \E row \in attempts' : row.answer.item = i
                  ELSE attempts' = attempts /\ rated' = rated
<1>1. ASSUME IInv, Accounted, NEW r \in Requests, Commit(r) PROVE Whole(r)
  <2>1. /\ req[r].phase \in Inserting
        /\ attempts' = attempts \cup
              {[player |-> req[r].player, answer |-> a] : a \in req[r].landed}
        /\ Answer(r, "verdicts")
    BY <1>1 DEF Commit, LandedRows, Inserting, Serialised
  <2>2. req'[r].status = "verdicts"
    BY <1>1, <2>1 DEF Answer, Becomes, Fresh, IInv, TypeOK
  <2>3. ASSUME NEW a \in req[r].batch
        PROVE  \/ owner[PackOf[a.item]] = Gone
               \/ \E row \in attempts' : row.answer.item = a.item
    <3>1. CASE a \in req[r].landed
      <4>1. [player |-> req[r].player, answer |-> a] \in attempts'
        BY <2>1, <3>1
      <4>2. [player |-> req[r].player, answer |-> a].answer.item = a.item
        OBVIOUS
      <4> QED BY <4>1, <4>2
    <3>2. CASE a \notin req[r].landed
      <4>1. Recorded(a.item) \/ owner[PackOf[a.item]] = Gone
        BY <1>1, <2>1, <3>2 DEF Accounted
      <4> QED BY <2>1, <4>1 DEF Recorded
    <3> QED BY <3>1, <3>2
  <2> QED BY <2>2, <2>3 DEF ItemsOf
<1>2. ASSUME IInv, Accounted, [Next]_vars, NEW r \in Requests PROVE Whole(r)
  <2>1. CASE Commit(r)
    BY <1>1, <1>2, <2>1
  <2>2. CASE (Handler(r) \/ Fail(r)) /\ ~Commit(r)
    BY <1>2, <2>2, OthersAnswerNothing
  <2>3. ASSUME NEW o \in Requests \ {r}, \E q : Becomes(o, q) PROVE Whole(r)
    BY <1>2, <2>3 DEF Becomes, IInv, TypeOK
  <2>4. ASSUME NEW o \in Requests, Handler(o) \/ Fail(o)
        PROVE  \E q : Becomes(o, q)
    BY <2>4 DEF Handler, Fail, FindPlayer, Lock, Resolve, Insert, ReadSkills,
       ReadClasses, WriteSkills, WriteClass, WriteDeltas, Commit,
       DeadlockVictim, Answer, Advance
  <2>5. ASSUME NEW o \in Requests, NEW p \in Players, NEW batch \in Batches,
               Receive(o, p, batch)
        PROVE  Whole(r)
    <3>1. attempts' = attempts /\ rated' = rated
      BY <2>5 DEF Receive, tables
    <3>2. req'[r].status = "verdicts" => req'[r] = req[r] \/ req'[r].phase # "done"
      BY <1>2, <2>5 DEF Receive, Answer, Becomes, Fresh, IInv, TypeOK, RequestType
    <3> QED BY <3>1, <3>2
  <2>6. ASSUME NEW p \in Players,
               Link(p) \/ Erase(p) \/ \E k \in Packs : IssuePack(p, k)
        PROVE  Whole(r)
    BY <2>6 DEF Link, Erase, IssuePack
  <2>7. CASE UNCHANGED vars
    BY <2>7 DEF vars
  <2> QED BY <1>2, <2>1, <2>2, <2>3, <2>4, <2>5, <2>6, <2>7 DEF Next
<1>3. IInv /\ Accounted /\ [Next]_vars => [\A r \in Requests : Whole(r)]_vars
  BY <1>2
<1>4. Init => Accounted
  BY DEF Init, Accounted, Fresh, Inserting, Serialised
<1> QED BY <1>3, <1>4, AccountedStep, Invariance, PTL DEF Spec, WholeBatchOrNone

-----------------------------------------------------------------------------
(* The transaction implements the log                                      *)

\* The answers of AttemptLog's rows that moved a rating, as LogSpec maps them.
Counted == {row \in attempts : rated[row.answer.item] > 0}

\* A COMMIT is one Record of the rows that landed.
LEMMA CommitRecords ==
    ASSUME IInv, NEW r \in Requests, Commit(r)
    PROVE  Log!Record(req[r].player, req[r].landed)
<1> DEFINE landed == req[r].landed
           player == req[r].player
           added == {[player |-> player, answer |-> a] : a \in landed}
           moved == {row \in added : rated'[row.answer.item] > 0}
<1>1. /\ \A a, b \in landed : a.item = b.item => a = b
      /\ \A a \in landed : ~Recorded(a.item)
      /\ attempts' = attempts \cup added
      /\ \A i \in Items : Recorded(i) => rated'[i] = rated[i]
  BY CommitIsNews
<1>2. Log!Fresh(attempts, player, landed) = added
  BY <1>1 DEF Log!Fresh, Recorded
<1>3. \A row \in attempts : rated'[row.answer.item] = rated[row.answer.item]
  <2>1. \A row \in attempts : row.answer.item \in Items /\ Recorded(row.answer.item)
    BY AnswersAssumption DEF IInv, TypeOK, Recorded
  <2> QED BY <1>1, <2>1
<1>4. Counted' = Counted \cup moved
  BY <1>1, <1>3 DEF Counted
<1>5. moved \in SUBSET Log!Fresh(attempts, player, landed)
  BY <1>2
<1> HIDE DEF moved, added
<1>6. \E rows \in SUBSET Log!Fresh(attempts, player, landed) :
         Counted' = Counted \cup rows
  BY <1>4, <1>5
<1> QED BY <1>1, <1>2, <1>6 DEF Log!Record, Counted

\* DELETE /me is Forget.
LEMMA EraseForgets ==
    ASSUME IInv, NEW p \in Players, Erase(p)
    PROVE  Log!Forget(p)
<1>1. /\ attempts' = {row \in attempts : row.player # p}
      /\ \A i \in Items :
            rated'[i] = IF owner[PackOf[i]] = p THEN 0 ELSE rated[i]
  BY DEF Erase
<1>2. \A row \in attempts : /\ row.answer.item \in Items
                            /\ owner[PackOf[row.answer.item]] = row.player
  BY AnswersAssumption DEF IInv, TypeOK, NothingOfTheErased
<1>3. \A row \in attempts' : rated'[row.answer.item] = rated[row.answer.item]
  BY <1>1, <1>2
<1>4. Counted' = {row \in Counted : row.player # p}
  BY <1>1, <1>3 DEF Counted
<1> QED BY <1>1, <1>4 DEF Log!Forget, Counted

\* The transaction, whatever it interleaves with, does to attempts and to the
\* ratings what AttemptLog allows: it records an accepted batch in one step,
\* erases in one step, and everything else it does is invisible there.
THEOREM IngestImplementsLog == Spec => LogSpec
<1>1. Init => Log!LogInit
  BY DEF Init, Log!LogInit
<1>2. IInv /\ [Next]_vars => [Log!LogNext]_(Log!absVars)
  <2> SUFFICES ASSUME IInv, [Next]_vars
               PROVE  Log!LogNext \/ UNCHANGED Log!absVars
    OBVIOUS
  <2>1. ASSUME NEW r \in Requests, Commit(r) PROVE Log!LogNext
    <3> DEFINE player == req[r].player
               landed == req[r].landed
    <3>1. player \in Players /\ landed \in SUBSET Answers
      BY <2>1, CommitIsNews
    <3>2. Log!Record(player, landed)
      BY <2>1, CommitRecords
    <3> HIDE DEF player, landed
    <3> QED BY <3>1, <3>2, Zenon DEF Log!LogNext, Log!Record
  <2>2. ASSUME NEW p \in Players, Erase(p) PROVE Log!LogNext
    <3>1. Log!Forget(p)
      BY <2>2, EraseForgets
    <3> QED BY <3>1 DEF Log!LogNext
  <2>3. CASE UNCHANGED <<attempts, rated>>
    BY <2>3 DEF Log!absVars
  <2> QED BY <2>1, <2>2, <2>3, WhoWrites
<1> QED BY <1>1, <1>2, Invariance, PTL DEF Spec, LogSpec, Log!LogSpec
=============================================================================
