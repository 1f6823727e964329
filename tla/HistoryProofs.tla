---------------------------- MODULE HistoryProofs ----------------------------
(***************************************************************************)
(* What Perfil shows, for any number of accounts, roots that flush, counts *)
(* and questions open at once.                                             *)
(*                                                                         *)
(* The argument has two halves.  BInv is of the batches and their count:   *)
(* two roots that count at once read and write in the same order, so what  *)
(* a count has read is at most one behind.  OInv is of the questions: one  *)
(* served after its count was read has in it every batch counted by then,  *)
(* and where answers come in order the last one drawn is of the question   *)
(* asked last.                                                             *)
(***************************************************************************)
EXTENDS History, FiniteSetTheorems, SequenceTheorems, TLAPS

\* A count under way.
Counts == [root : Flushers, seen : Nat]

\* Requests on their way, and what each root's flush brought is on record.
Sending == {f \in Flushers : flusher[f].phase = "sending"}

FlushersAre ==
    /\ \A f \in Flushers : flusher[f].phase # "idle" =>
          /\ flusher[f].account \in Accounts
          /\ flusher[f].phase # "sending" =>
                flusher[f].upto <= recorded[flusher[f].account]
    /\ \A a \in Accounts :
          /\ known[a] <= recorded[a]
          /\ recorded[a] + Cardinality(Sending) <= flushes

\* The counts under way: each root's once, in the order of what they read, and
\* what they read is the count or one less.
CountsAre ==
    /\ \A i \in DOMAIN counting :
          /\ flusher[counting[i].root].phase = "counting"
          /\ counting[i].seen <= tally /\ tally <= counting[i].seen + 1
    /\ \A i, j \in DOMAIN counting : i < j =>
          counting[i].root # counting[j].root /\ counting[i].seen <= counting[j].seen

\* The invariant of the batches.
BInv == TypeOK /\ FlushersAre /\ CountsAre

\* What the types say of the two sequences.
LEMMA SequencesAre ==
    ASSUME TypeOK
    PROVE  /\ counting \in Seq(Counts) /\ Len(counting) \in Nat
           /\ DOMAIN counting = 1..Len(counting)
           /\ \A i \in DOMAIN counting :
                 /\ counting[i] \in Counts /\ counting[i].root \in Flushers
                 /\ counting[i].seen \in Nat
           /\ asks \in Seq(AskStates) /\ Len(asks) \in Nat
           /\ DOMAIN asks = 1..Len(asks)
           /\ \A i \in DOMAIN asks : asks[i] \in AskStates
<1>1. counting \in Seq(Counts) /\ asks \in Seq(AskStates)
  BY DEF TypeOK, Counts
<1>2. /\ DOMAIN counting = 1..Len(counting) /\ Len(counting) \in Nat
      /\ \A i \in DOMAIN counting : counting[i] \in Counts
  BY <1>1
<1>3. /\ DOMAIN asks = 1..Len(asks) /\ Len(asks) \in Nat
      /\ \A i \in DOMAIN asks : asks[i] \in AskStates
  BY <1>1
<1> QED
  BY <1>1, <1>2, <1>3 DEF Counts

\* What the steps of a flush do to the flushers.
FlusherIs(f, phase, a, upto) ==
    /\ flusher' \in [Flushers -> FlusherStates]
    /\ flusher'[f].phase = phase /\ flusher'[f].account = a /\ flusher'[f].upto = upto
    /\ \A g \in Flushers \ {f} : flusher'[g] = flusher[g]

\* A flush goes out.
LEMMA FlushMoves ==
    ASSUME TypeOK, NEW f \in Flushers, Flush(f)
    PROVE  FlusherIs(f, "sending", account, 0) /\ flusher[f].phase = "idle"
           /\ account \in Accounts
  BY ConstantsAssumption DEF TypeOK, FlusherStates, Flush, FlusherIs, Idle

\* A batch is recorded.
LEMMA RecordMoves ==
    ASSUME BInv, NEW f \in Flushers, Record(f)
    PROVE  \E new \in {0, 1} :
              /\ flusher[f].phase = "sending" /\ flusher[f].account \in Accounts
              /\ recorded' = [recorded EXCEPT ![flusher[f].account] = @ + new]
              /\ recorded[flusher[f].account] + new \in 0..MaxFlushes
              /\ FlusherIs(f, "recorded", flusher[f].account,
                           recorded[flusher[f].account] + new)
<1> DEFINE a == flusher[f].account
<1>1. /\ flusher[f].phase = "sending" /\ a \in Accounts
  BY DEF Record, BInv, FlushersAre
<1>2. PICK new \in {0, 1} :
         /\ recorded' = [recorded EXCEPT ![a] = @ + new]
         /\ flusher' = [flusher EXCEPT ![f].phase = "recorded",
                                       ![f].upto = recorded[a] + new]
  BY DEF Record
<1>3. Cardinality(Sending) \in Nat /\ Cardinality(Sending) >= 1
  <2>1. IsFiniteSet(Sending)
    BY ConstantsAssumption, FS_Subset DEF Sending
  <2>2. Sending # {}
    BY <1>1 DEF Sending
  <2> QED BY <2>1, <2>2, FS_EmptySet, FS_CardinalityType
<1>4. recorded[a] + new \in 0..MaxFlushes
  <2>1. recorded[a] + Cardinality(Sending) <= flushes /\ recorded[a] \in Nat
        /\ flushes <= MaxFlushes /\ flushes \in Nat
    BY <1>1, ConstantsAssumption DEF BInv, FlushersAre, TypeOK
  <2> QED BY <1>3, <2>1, ConstantsAssumption
<1>5. FlusherIs(f, "recorded", a, recorded[a] + new)
  <2> DEFINE u == recorded[a] + new
  <2>1. flusher' = [flusher EXCEPT ![f].phase = "recorded", ![f].upto = u]
        /\ u \in 0..MaxFlushes
    BY <1>2, <1>4
  <2> HIDE DEF u
  <2>2. FlusherIs(f, "recorded", a, u)
    BY <2>1 DEF BInv, TypeOK, FlusherStates, FlusherIs
  <2> QED BY <2>2 DEF u
<1> QED
  BY <1>1, <1>2, <1>4, <1>5

\* A request or its answer is lost.
LEMMA LostMoves ==
    ASSUME TypeOK, NEW f \in Flushers, FlushLost(f)
    PROVE  FlusherIs(f, "idle", None, 0) /\ flusher[f].phase \in {"sending", "recorded"}
  BY ConstantsAssumption DEF TypeOK, FlusherStates, FlushLost, FlusherIs, Idle

\* A count has read.
LEMMA ReadMoves ==
    ASSUME TypeOK, NEW f \in Flushers, CountRead(f)
    PROVE  FlusherIs(f, "counting", flusher[f].account, flusher[f].upto)
           /\ flusher[f].phase = "recorded"
  BY DEF TypeOK, FlusherStates, CountRead, FlusherIs

\* A count has written.
LEMMA WriteMoves ==
    ASSUME TypeOK, CountWrite
    PROVE  Head(counting).root \in Flushers
           /\ FlusherIs(Head(counting).root, "idle", None, 0)
<1>1. Head(counting) \in Counts
  BY HeadTailProperties DEF TypeOK, CountWrite, Counts
<1>2. Head(counting).root \in Flushers
  BY <1>1 DEF Counts
<1> QED
  BY <1>2, ConstantsAssumption DEF TypeOK, FlusherStates, CountWrite, FlusherIs, Idle

\* There are finitely many requests on their way.
LEMMA SendingAre ==
    IsFiniteSet(Sending) /\ Cardinality(Sending) \in Nat
<1>1. Sending \in SUBSET Flushers
  BY DEF Sending
<1> QED
  BY <1>1, ConstantsAssumption, FS_Subset, FS_CardinalityType

\* One that is answered is one fewer.
LEMMA FewerSending ==
    ASSUME Sending' \subseteq Sending
    PROVE  Cardinality(Sending') \in Nat /\ Cardinality(Sending') <= Cardinality(Sending)
  BY SendingAre, FS_Subset, FS_CardinalityType

\* A flusher that moves on without a new row.
LEMMA FlushersStay ==
    ASSUME BInv, NEW f \in Flushers, NEW phase \in {"idle", "recorded", "counting"},
           NEW a, NEW u, FlusherIs(f, phase, a, u),
           phase # "idle" => flusher[f].phase \in {"recorded", "counting"}
                             /\ a = flusher[f].account /\ u = flusher[f].upto,
           UNCHANGED <<recorded, flushes>>,
           known' \in [Accounts -> 0..MaxFlushes],
           \A b \in Accounts : known'[b] <= recorded[b]
    PROVE  FlushersAre'
<1>1. Sending' \subseteq Sending
  BY DEF Sending, FlusherIs
<1>2. Cardinality(Sending') \in Nat /\ Cardinality(Sending') <= Cardinality(Sending)
  BY <1>1, FewerSending
<1>3. \A b \in Accounts : recorded'[b] + Cardinality(Sending') <= flushes'
  <2> TAKE b \in Accounts
  <2>1. recorded[b] \in Nat /\ flushes \in Nat /\ Cardinality(Sending) \in Nat
        /\ recorded[b] + Cardinality(Sending) <= flushes
    BY SendingAre DEF BInv, TypeOK, FlushersAre
  <2> QED BY <1>2, <2>1
<1>4. \A g \in Flushers : flusher'[g].phase # "idle" =>
          /\ flusher'[g].account \in Accounts
          /\ flusher'[g].phase # "sending" =>
                flusher'[g].upto <= recorded'[flusher'[g].account]
  <2> TAKE g \in Flushers
  <2>1. CASE g = f
    BY <2>1 DEF FlusherIs, BInv, FlushersAre
  <2>2. CASE g # f
    BY <2>2 DEF FlusherIs, BInv, FlushersAre
  <2> QED BY <2>1, <2>2
<1> QED
  BY <1>3, <1>4 DEF FlushersAre, Sending

\* The counts under way are of other roots.
LEMMA CountsStay ==
    ASSUME BInv, NEW f \in Flushers, flusher[f].phase # "counting",
           \A g \in Flushers \ {f} : flusher'[g] = flusher[g],
           UNCHANGED <<counting, tally>>
    PROVE  CountsAre'
<1>1. \A i \in DOMAIN counting : counting[i].root \in Flushers \ {f}
  BY SequencesAre DEF BInv, CountsAre
<1> QED
  BY <1>1 DEF BInv, CountsAre

\* The types of the batches.
BatchTypes ==
    /\ recorded \in [Accounts -> 0..MaxFlushes] /\ flushes \in 0..MaxFlushes
    /\ tally \in Nat /\ counting \in Seq(Counts)
    /\ flusher \in [Flushers -> FlusherStates]
    /\ known \in [Accounts -> 0..MaxFlushes]

\* The types of Perfil and the session.
PerfilTypes ==
    /\ account \in Accounts \cup {None} /\ tokens \in 0..MaxTokens
    /\ showing \in BOOLEAN /\ visit \in Nat \cup {None}
    /\ asks \in Seq(AskStates) /\ asked \in Nat \cup {None}
    /\ shown \in [kind : {"none", "found", "failed"},
                  account : Accounts \cup {None}, upto : 0..MaxFlushes]

\* The types are these and the count of what went wrong.
LEMMA TypesOfParts == TypeOK <=> BatchTypes /\ PerfilTypes /\ faults \in 0..MaxFaults
  BY DEF TypeOK, BatchTypes, PerfilTypes, Counts

\* A flush keeps them.
LEMMA FlushStep ==
    ASSUME BInv, NEW f \in Flushers, Flush(f)
    PROVE  BatchTypes' /\ FlushersAre' /\ CountsAre'
<1> USE DEF BInv
<1>1. FlusherIs(f, "sending", account, 0) /\ flusher[f].phase = "idle"
      /\ account \in Accounts
  BY FlushMoves
<1>2. /\ flushes < MaxFlushes /\ flushes' = flushes + 1
      /\ UNCHANGED <<recorded, tally, counting, known>>
  BY DEF Flush
<1>3. BatchTypes'
  BY <1>1, <1>2, ConstantsAssumption DEF BatchTypes, TypeOK, FlusherIs, Counts
<1>4. CountsAre'
  BY <1>1, <1>2, CountsStay DEF FlusherIs
<1>5. Sending' = Sending \cup {f} /\ f \notin Sending
  BY <1>1 DEF Sending, FlusherIs
<1>6. Cardinality(Sending') = Cardinality(Sending) + 1
  BY <1>5, SendingAre, FS_AddElement
<1>7. \A b \in Accounts : recorded'[b] + Cardinality(Sending') <= flushes'
  <2> TAKE b \in Accounts
  <2>1. recorded[b] \in Nat /\ flushes \in Nat /\ Cardinality(Sending) \in Nat
        /\ recorded[b] + Cardinality(Sending) <= flushes
    BY SendingAre DEF TypeOK, FlushersAre
  <2> QED BY <1>2, <1>6, <2>1
<1>8. \A g \in Flushers : flusher'[g].phase # "idle" =>
          /\ flusher'[g].account \in Accounts
          /\ flusher'[g].phase # "sending" =>
                flusher'[g].upto <= recorded'[flusher'[g].account]
  BY <1>1, <1>2 DEF FlusherIs, FlushersAre
<1> QED
  BY <1>2, <1>3, <1>4, <1>7, <1>8 DEF FlushersAre, Sending

\* A row more is a request fewer.
LEMMA RecordStep ==
    ASSUME BInv, NEW f \in Flushers, Record(f)
    PROVE  BatchTypes' /\ FlushersAre' /\ CountsAre'
<1> USE DEF BInv
<1> DEFINE a == flusher[f].account
<1>1. PICK new \in {0, 1} :
         /\ flusher[f].phase = "sending" /\ a \in Accounts
         /\ recorded' = [recorded EXCEPT ![a] = @ + new]
         /\ recorded[a] + new \in 0..MaxFlushes
         /\ FlusherIs(f, "recorded", a, recorded[a] + new)
  BY RecordMoves
<1>2. UNCHANGED <<flushes, tally, counting, known>>
  BY DEF Record
<1>3. /\ recorded' \in [Accounts -> 0..MaxFlushes] /\ recorded'[a] = recorded[a] + new
      /\ \A b \in Accounts \ {a} : recorded'[b] = recorded[b]
      /\ \A b \in Accounts : recorded[b] <= recorded'[b]
  BY <1>1 DEF TypeOK
<1>4. BatchTypes'
  BY <1>1, <1>2, <1>3 DEF BatchTypes, TypeOK, FlusherIs, Counts
<1>5. CountsAre'
  BY <1>1, <1>2, CountsStay DEF FlusherIs
<1>6. Sending' = Sending \ {f} /\ f \in Sending
  BY <1>1 DEF Sending, FlusherIs
<1>7. Cardinality(Sending') = Cardinality(Sending) - 1
  BY <1>6, SendingAre, FS_RemoveElement
<1>8. \A b \in Accounts : recorded'[b] + Cardinality(Sending') <= flushes'
                          /\ known'[b] <= recorded'[b]
  <2> TAKE b \in Accounts
  <2>1. /\ recorded[b] \in Nat /\ flushes \in Nat /\ Cardinality(Sending) \in Nat
        /\ recorded[b] + Cardinality(Sending) <= flushes
        /\ known[b] \in Nat /\ known[b] <= recorded[b]
    BY SendingAre DEF TypeOK, FlushersAre
  <2>2. recorded'[b] \in Nat /\ recorded'[b] <= recorded[b] + 1
        /\ recorded[b] <= recorded'[b]
    BY <1>1, <1>3, <2>1
  <2> QED BY <1>2, <1>7, <2>1, <2>2
<1>9. \A g \in Flushers : flusher'[g].phase # "idle" =>
          /\ flusher'[g].account \in Accounts
          /\ flusher'[g].phase # "sending" =>
                flusher'[g].upto <= recorded'[flusher'[g].account]
  <2> TAKE g \in Flushers
  <2>1. CASE g = f
    BY <1>1, <1>3, <2>1, ConstantsAssumption DEF FlusherIs, TypeOK
  <2>2. CASE g # f
    <3>1. flusher'[g] = flusher[g] /\ flusher[g].upto \in Nat
      BY <1>1, <2>2 DEF FlusherIs, TypeOK, FlusherStates
    <3>2. SUFFICES ASSUME flusher[g].phase # "idle"
                   PROVE  /\ flusher[g].account \in Accounts
                          /\ flusher[g].phase # "sending" =>
                                flusher[g].upto <= recorded'[flusher[g].account]
      BY <3>1
    <3>3. PICK b \in Accounts : b = flusher[g].account
      BY <3>2 DEF FlushersAre
    <3>4. flusher[g].phase # "sending" => flusher[g].upto <= recorded[b]
      BY <3>2, <3>3 DEF FlushersAre
    <3>5. recorded[b] \in Nat /\ recorded'[b] \in Nat /\ recorded[b] <= recorded'[b]
      BY <1>3 DEF TypeOK
    <3> QED BY <3>1, <3>3, <3>4, <3>5
  <2> QED BY <2>1, <2>2
<1> QED
  BY <1>4, <1>5, <1>8, <1>9 DEF FlushersAre, Sending

\* A lost request writes nothing.
LEMMA LostStep ==
    ASSUME BInv, NEW f \in Flushers, FlushLost(f)
    PROVE  BatchTypes' /\ FlushersAre' /\ CountsAre'
<1>1. FlusherIs(f, "idle", None, 0) /\ flusher[f].phase \in {"sending", "recorded"}
  BY LostMoves DEF BInv
<1>2. UNCHANGED <<recorded, flushes, tally, counting, known>>
  BY DEF FlushLost
<1>3. BatchTypes'
  BY <1>1, <1>2 DEF BInv, BatchTypes, TypeOK, FlusherIs, Counts
<1>4. CountsAre'
  BY <1>1, <1>2, CountsStay DEF FlusherIs
<1>5. FlushersAre'
  BY <1>1, <1>2, FlushersStay DEF BInv, TypeOK, FlushersAre
<1> QED
  BY <1>3, <1>4, <1>5

\* A count that begins reads the latest of all.
LEMMA CountReadStep ==
    ASSUME BInv, NEW f \in Flushers, CountRead(f)
    PROVE  BatchTypes' /\ FlushersAre' /\ CountsAre'
<1> USE DEF BInv
<1> DEFINE e == [root |-> f, seen |-> tally]
<1>1. FlusherIs(f, "counting", flusher[f].account, flusher[f].upto)
      /\ flusher[f].phase = "recorded"
  BY ReadMoves
<1>2. counting' = Append(counting, e) /\ UNCHANGED <<recorded, flushes, tally, known>>
  BY DEF CountRead
<1>3. e \in Counts /\ tally \in Nat
  BY DEF TypeOK, Counts
<1>4. /\ counting' \in Seq(Counts) /\ Len(counting') = Len(counting) + 1
      /\ \A i \in 1..Len(counting) : counting'[i] = counting[i]
      /\ counting'[Len(counting) + 1] = e
  <2> HIDE DEF e
  <2> QED BY <1>2, <1>3, SequencesAre, AppendProperties
<1>5. BatchTypes'
  BY <1>1, <1>2, <1>4 DEF BatchTypes, TypeOK, FlusherIs
<1>6. FlushersAre'
  BY <1>1, <1>2, FlushersStay DEF TypeOK, FlushersAre
<1>7. DOMAIN counting' = 1..Len(counting) + 1
  BY <1>4
<1>8. \A i \in DOMAIN counting :
         /\ counting[i].root \in Flushers \ {f}
         /\ flusher'[counting[i].root] = flusher[counting[i].root]
  <2>1. \A i \in DOMAIN counting : counting[i].root \in Flushers \ {f}
    BY <1>1, SequencesAre DEF CountsAre
  <2> QED BY <1>1, <2>1 DEF FlusherIs
<1>9. \A i \in DOMAIN counting' :
          /\ flusher'[counting'[i].root].phase = "counting"
          /\ counting'[i].seen <= tally' /\ tally' <= counting'[i].seen + 1
  <2> TAKE i \in DOMAIN counting'
  <2>1. CASE i \in DOMAIN counting
    BY <1>2, <1>4, <1>8, <2>1, SequencesAre DEF CountsAre
  <2>2. CASE i = Len(counting) + 1
    BY <1>1, <1>2, <1>3, <1>4, <2>2 DEF FlusherIs
  <2> QED BY <1>7, <2>1, <2>2, SequencesAre
<1>10. \A i, j \in DOMAIN counting' : i < j =>
          /\ counting'[i].root # counting'[j].root
          /\ counting'[i].seen <= counting'[j].seen
  <2> TAKE i, j \in DOMAIN counting'
  <2> HAVE i < j
  <2>1. i \in DOMAIN counting
    BY <1>7, SequencesAre
  <2>2. CASE j \in DOMAIN counting
    BY <1>4, <2>1, <2>2, SequencesAre DEF CountsAre
  <2>3. CASE j = Len(counting) + 1
    BY <1>4, <1>8, <2>1, <2>3, SequencesAre DEF CountsAre
  <2> QED BY <1>7, <2>2, <2>3, SequencesAre
<1> QED
  BY <1>5, <1>6, <1>9, <1>10 DEF CountsAre

\* The write at the head of the line.
LEMMA WriteIs ==
    ASSUME BInv, CountWrite
    PROVE  LET f == counting[1].root
               a == flusher[f].account
           IN  /\ 1 \in DOMAIN counting /\ f \in Flushers
               /\ flusher[f].phase = "counting" /\ a \in Accounts
               /\ FlusherIs(f, "idle", None, 0)
               /\ tally' = counting[1].seen + 1 /\ tally' \in Nat /\ tally <= tally'
               /\ known' \in [Accounts -> 0..MaxFlushes]
               /\ known'[a] = IF known[a] < flusher[f].upto THEN flusher[f].upto
                                                            ELSE known[a]
               /\ \A b \in Accounts \ {a} : known'[b] = known[b]
               /\ counting' \in Seq(Counts) /\ Len(counting') = Len(counting) - 1
               /\ \A i \in DOMAIN counting' :
                     /\ i + 1 \in DOMAIN counting /\ counting'[i] = counting[i + 1]
                     /\ counting[i + 1].root \in Flushers \ {f}
                     /\ flusher'[counting[i + 1].root] = flusher[counting[i + 1].root]
               /\ UNCHANGED <<recorded, flushes>>
<1> USE DEF BInv
<1> DEFINE f == counting[1].root
           a == flusher[f].account
<1>1. counting # <<>> /\ counting \in Seq(Counts)
  BY SequencesAre DEF CountWrite
<1>2. 1 \in DOMAIN counting /\ Head(counting) = counting[1]
  BY <1>1
<1>3. f \in Flushers /\ flusher[f].phase = "counting" /\ counting[1].seen \in Nat
      /\ tally \in Nat /\ tally <= counting[1].seen + 1
  BY <1>2, SequencesAre DEF CountsAre, TypeOK
<1>4. a \in Accounts /\ flusher[f].upto \in 0..MaxFlushes
  BY <1>3 DEF FlushersAre, TypeOK, FlusherStates
<1>5. FlusherIs(f, "idle", None, 0)
  BY <1>2, WriteMoves
<1>6. /\ tally' = counting[1].seen + 1
      /\ known' = [known EXCEPT ![a] = IF known[a] < flusher[f].upto
                                         THEN flusher[f].upto ELSE known[a]]
      /\ counting' = Tail(counting) /\ UNCHANGED <<recorded, flushes>>
  BY <1>2 DEF CountWrite
<1>7. /\ known' \in [Accounts -> 0..MaxFlushes]
      /\ known'[a] = IF known[a] < flusher[f].upto THEN flusher[f].upto ELSE known[a]
      /\ \A b \in Accounts \ {a} : known'[b] = known[b]
  BY <1>4, <1>6 DEF TypeOK
<1>8. /\ counting' \in Seq(Counts) /\ Len(counting') = Len(counting) - 1
      /\ \A i \in 1..Len(counting') : counting'[i] = counting[i + 1]
  BY <1>1, <1>6, HeadTailProperties
<1>9. \A i \in DOMAIN counting' : i + 1 \in DOMAIN counting /\ 1 < i + 1
                                  /\ counting'[i] = counting[i + 1]
  BY <1>1, <1>8
<1>10. \A i \in DOMAIN counting' : counting[i + 1].root \in Flushers \ {f}
  BY <1>2, <1>9, SequencesAre DEF CountsAre
<1>11. \A i \in DOMAIN counting' :
          flusher'[counting[i + 1].root] = flusher[counting[i + 1].root]
  BY <1>5, <1>10 DEF FlusherIs
<1> QED
  BY <1>2, <1>3, <1>4, <1>5, <1>6, <1>7, <1>8, <1>9, <1>10, <1>11

\* A count that ends leaves the others at most one behind.
LEMMA CountWriteStep ==
    ASSUME BInv, CountWrite
    PROVE  BatchTypes' /\ FlushersAre' /\ CountsAre'
<1> USE DEF BInv
<1> DEFINE f == counting[1].root
           a == flusher[f].account
<1>1. /\ 1 \in DOMAIN counting /\ f \in Flushers
      /\ flusher[f].phase = "counting" /\ a \in Accounts
      /\ FlusherIs(f, "idle", None, 0)
      /\ tally' = counting[1].seen + 1 /\ tally' \in Nat /\ tally <= tally'
      /\ known' \in [Accounts -> 0..MaxFlushes]
      /\ known'[a] = IF known[a] < flusher[f].upto THEN flusher[f].upto ELSE known[a]
      /\ \A b \in Accounts \ {a} : known'[b] = known[b]
      /\ counting' \in Seq(Counts) /\ Len(counting') = Len(counting) - 1
      /\ UNCHANGED <<recorded, flushes>>
  BY WriteIs
<1>2. \A i \in DOMAIN counting' :
         /\ i + 1 \in DOMAIN counting /\ counting'[i] = counting[i + 1]
         /\ counting[i + 1].root \in Flushers \ {f}
         /\ flusher'[counting[i + 1].root] = flusher[counting[i + 1].root]
  BY WriteIs
<1>3. BatchTypes'
  BY <1>1 DEF BatchTypes, TypeOK, FlusherIs
<1>4. FlushersAre'
  <2>1. \A b \in Accounts : known'[b] <= recorded[b]
    BY <1>1 DEF FlushersAre
  <2> HIDE DEF f
  <2> QED BY <1>1, <2>1, FlushersStay
<1>5. \A i \in DOMAIN counting' :
          /\ flusher'[counting'[i].root].phase = "counting"
          /\ counting'[i].seen <= tally' /\ tally' <= counting'[i].seen + 1
  <2> TAKE i \in DOMAIN counting'
  <2>1. i + 1 \in DOMAIN counting /\ 1 < i + 1 /\ counting'[i] = counting[i + 1]
    BY <1>1, <1>2
  <2>2. /\ counting[i + 1].seen \in Nat /\ counting[i + 1].seen <= tally
        /\ counting[1].seen <= counting[i + 1].seen
        /\ counting[1].seen \in Nat /\ tally \in Nat
    BY <1>1, <2>1, SequencesAre DEF CountsAre, TypeOK
  <2>3. flusher'[counting'[i].root].phase = "counting"
    BY <1>2, <2>1 DEF CountsAre
  <2> QED BY <1>1, <2>1, <2>2, <2>3
<1>6. \A i, j \in DOMAIN counting' : i < j =>
          /\ counting'[i].root # counting'[j].root
          /\ counting'[i].seen <= counting'[j].seen
  <2> TAKE i, j \in DOMAIN counting'
  <2> HAVE i < j
  <2>1. i + 1 \in DOMAIN counting /\ j + 1 \in DOMAIN counting /\ i + 1 < j + 1
    BY <1>1, <1>2
  <2> QED BY <1>2, <2>1 DEF CountsAre
<1> QED
  BY <1>3, <1>4, <1>5, <1>6 DEF CountsAre

\* A restart drops what was under way.
LEMMA RestartBatches ==
    ASSUME BInv, Restart
    PROVE  BatchTypes' /\ FlushersAre' /\ CountsAre'
<1> USE DEF BInv
<1>1. /\ flusher' = [f \in Flushers |-> Idle] /\ counting' = <<>>
      /\ UNCHANGED <<recorded, flushes, tally, known>>
  BY DEF Restart
<1>2. \A f \in Flushers : flusher'[f].phase = "idle"
  BY <1>1 DEF Idle
<1>3. Idle \in FlusherStates
  BY ConstantsAssumption DEF Idle, FlusherStates
<1>4. BatchTypes'
  BY <1>1, <1>3 DEF BatchTypes, TypeOK
<1>5. CountsAre'
  BY <1>1 DEF CountsAre
<1>6. Sending' \subseteq Sending
  BY <1>2 DEF Sending
<1>7. Cardinality(Sending') \in Nat /\ Cardinality(Sending') <= Cardinality(Sending)
  BY <1>6, FewerSending
<1>8. \A b \in Accounts : recorded'[b] + Cardinality(Sending') <= flushes'
                          /\ known'[b] <= recorded'[b]
  <2> TAKE b \in Accounts
  <2>1. recorded[b] \in Nat /\ flushes \in Nat /\ Cardinality(Sending) \in Nat
        /\ recorded[b] + Cardinality(Sending) <= flushes /\ known[b] <= recorded[b]
    BY SendingAre DEF TypeOK, FlushersAre
  <2> QED BY <1>1, <1>7, <2>1
<1> QED
  BY <1>2, <1>4, <1>5, <1>8 DEF FlushersAre, Sending

-----------------------------------------------------------------------------
(* What Perfil knows.                                                      *)

\* A history of a with u batches, asked for when the count was v: while the
\* count is still v, it has what was counted, and what is yet to be counted by
\* a write that leaves the count at v.
UpToDate(a, v, u) ==
    v = tally =>
        /\ known[a] <= u
        /\ \A i \in DOMAIN counting :
              /\ flusher[counting[i].root].account = a
              /\ counting[i].seen < tally
              => flusher[counting[i].root].upto <= u

\* The steps of the batches.
BatchStep ==
    \/ \E f \in Flushers : Flush(f) \/ Record(f) \/ FlushLost(f) \/ CountRead(f)
    \/ CountWrite

\* A history that was up to date stays so when a count is written.
LEMMA WriteKeeps ==
    ASSUME BInv, CountWrite, NEW a \in Accounts, NEW v \in Nat, v <= tally,
           NEW u \in Nat, UpToDate(a, v, u)
    PROVE  UpToDate(a, v, u)'
<1> DEFINE f == counting[1].root
           b == flusher[f].account
<1>1. /\ 1 \in DOMAIN counting /\ f \in Flushers /\ b \in Accounts
      /\ tally' = counting[1].seen + 1 /\ tally <= tally'
      /\ known'[b] = IF known[b] < flusher[f].upto THEN flusher[f].upto ELSE known[b]
      /\ \A d \in Accounts \ {b} : known'[d] = known[d]
  BY WriteIs
<1>2. \A i \in DOMAIN counting' :
         /\ i + 1 \in DOMAIN counting /\ counting'[i] = counting[i + 1]
         /\ flusher'[counting[i + 1].root] = flusher[counting[i + 1].root]
  BY WriteIs
<1>3. tally \in Nat /\ counting[1].seen \in Nat
  BY <1>1, SequencesAre DEF BInv, TypeOK
<1> SUFFICES ASSUME v = tally'
             PROVE  /\ known'[a] <= u
                    /\ \A i \in DOMAIN counting' :
                          /\ flusher'[counting'[i].root].account = a
                          /\ counting'[i].seen < tally'
                          => flusher'[counting'[i].root].upto <= u
  BY DEF UpToDate
<1>4. tally' = tally /\ v = tally /\ counting[1].seen < tally
  BY <1>1, <1>3
<1>5. known[a] <= u /\ (b = a => flusher[f].upto <= u)
  BY <1>1, <1>4 DEF UpToDate
<1>6. known'[a] <= u
  BY <1>1, <1>5
<1>7. ASSUME NEW i \in DOMAIN counting',
             flusher'[counting'[i].root].account = a, counting'[i].seen < tally'
      PROVE  flusher'[counting'[i].root].upto <= u
  BY <1>2, <1>4, <1>7 DEF UpToDate
<1> QED
  BY <1>6, <1>7

\* So it does at every step of the batches.
LEMMA BatchKeeps ==
    ASSUME BInv, BatchStep, NEW a \in Accounts, NEW v \in Nat, v <= tally,
           NEW u \in Nat, UpToDate(a, v, u)
    PROVE  UpToDate(a, v, u)'
<1>1. CASE \E f \in Flushers : Flush(f) \/ Record(f) \/ FlushLost(f)
  <2>1. PICK f \in Flushers : Flush(f) \/ Record(f) \/ FlushLost(f)
    BY <1>1
  <2>2. /\ flusher[f].phase # "counting" /\ UNCHANGED <<tally, counting, known>>
        /\ \A g \in Flushers \ {f} : flusher'[g] = flusher[g]
    BY <2>1, FlushMoves, RecordMoves, LostMoves
       DEF BInv, FlusherIs, Flush, Record, FlushLost
  <2>3. \A i \in DOMAIN counting : flusher'[counting[i].root] = flusher[counting[i].root]
    BY <2>2, SequencesAre DEF BInv, CountsAre
  <2> QED BY <2>2, <2>3 DEF UpToDate
<1>2. CASE \E f \in Flushers : CountRead(f)
  <2>1. PICK f \in Flushers : CountRead(f)
    BY <1>2
  <2> DEFINE e == [root |-> f, seen |-> tally]
  <2>2. /\ flusher[f].phase # "counting" /\ UNCHANGED <<tally, known>>
        /\ \A g \in Flushers \ {f} : flusher'[g] = flusher[g]
        /\ counting' = Append(counting, e)
    BY <2>1, ReadMoves DEF BInv, FlusherIs, CountRead
  <2>3. \A i \in DOMAIN counting : flusher'[counting[i].root] = flusher[counting[i].root]
    BY <2>2, SequencesAre DEF BInv, CountsAre
  <2>4. e \in Counts /\ tally \in Nat
    BY DEF BInv, TypeOK, Counts
  <2>5. /\ DOMAIN counting' = 1..Len(counting) + 1
        /\ \A i \in 1..Len(counting) : counting'[i] = counting[i]
        /\ counting'[Len(counting) + 1] = e
    <3> HIDE DEF e
    <3> QED BY <2>2, <2>4, SequencesAre, AppendProperties DEF BInv
  <2> SUFFICES ASSUME v = tally
               PROVE  /\ known[a] <= u
                      /\ \A i \in DOMAIN counting' :
                            /\ flusher'[counting'[i].root].account = a
                            /\ counting'[i].seen < tally
                            => flusher'[counting'[i].root].upto <= u
    BY <2>2 DEF UpToDate
  <2>6. ASSUME NEW i \in DOMAIN counting',
               flusher'[counting'[i].root].account = a, counting'[i].seen < tally
        PROVE  flusher'[counting'[i].root].upto <= u
    <3>1. i # Len(counting) + 1
      BY <2>4, <2>5, <2>6
    <3>2. i \in DOMAIN counting /\ counting'[i] = counting[i]
      BY <2>5, <3>1, SequencesAre DEF BInv
    <3> QED BY <2>3, <2>6, <3>2 DEF UpToDate
  <2> QED BY <2>6 DEF UpToDate
<1> QED
  BY <1>1, <1>2, WriteKeeps DEF BatchStep

\* The count is never taken back.
LEMMA CountGrows ==
    ASSUME BInv, BatchStep
    PROVE  tally \in Nat /\ tally' \in Nat /\ tally <= tally'
<1>1. tally \in Nat
  BY DEF BInv, TypeOK
<1>2. CASE CountWrite
  BY <1>1, <1>2, WriteIs
<1>3. CASE ~CountWrite
  <2>1. tally' = tally
    BY <1>3 DEF BatchStep, Flush, Record, FlushLost, CountRead
  <2> QED BY <1>1, <2>1
<1> QED
  BY <1>2, <1>3

\* An answer served now is up to date.
LEMMA ServedIsUpToDate ==
    ASSUME BInv, NEW a \in Accounts, NEW v
    PROVE  UpToDate(a, v, recorded[a])
<1>1. known[a] <= recorded[a]
  BY DEF BInv, FlushersAre
<1>2. \A i \in DOMAIN counting : flusher[counting[i].root].account = a =>
          flusher[counting[i].root].upto <= recorded[a]
  BY SequencesAre DEF BInv, FlushersAre, CountsAre
<1> QED
  BY <1>1, <1>2 DEF UpToDate

\* The questions are noted in their order.
ReadLast ==
    \A i, j \in DOMAIN asks :
        i < j /\ asks[i].phase = "reading" => asks[j].phase = "reading"

\* The last question sent is the one whose count is noted.
Noted ==
    \A i \in DOMAIN asks :
        /\ asks[i].phase # "reading"
        /\ \A j \in DOMAIN asks : i < j => asks[j].phase = "reading"
        => asked = asks[i].seen

\* What they noted was the count then, and what they found is up to it.
SeenBefore ==
    /\ \A i \in DOMAIN asks : asks[i].seen <= tally
    /\ asked # None => asked <= tally

\* What was found is up to date with what was noted.
FoundUpToDate ==
    \A i \in DOMAIN asks : asks[i].phase = "found" =>
        UpToDate(asks[i].account, asks[i].seen, asks[i].upto)

\* The last one, or what is drawn once none is open, is of this account.
LastIsThisAccounts ==
    account # None /\ asks # <<>> => asks[Len(asks)].account = account

\* So is what is drawn, once no question is open.
DrawnIsRight ==
    asks = <<>> /\ shown.kind = "found" =>
        /\ shown.account \in Accounts
        /\ account # None => shown.account = account
        /\ asked # None => UpToDate(shown.account, asked, shown.upto)

\* The invariant of the questions.
OInv == /\ ReadLast /\ Noted /\ SeenBefore /\ FoundUpToDate
        /\ LastIsThisAccounts /\ DrawnIsRight

\* The batches leave the questions as they are.
LEMMA BatchKeepsOrder ==
    ASSUME BInv, OInv, BatchStep
    PROVE  OInv'
<1>1. UNCHANGED <<session, perfil>>
  BY DEF BatchStep, Flush, Record, FlushLost, CountRead, CountWrite
<1>2. UNCHANGED <<account, asks, asked, shown>>
  BY <1>1 DEF session, perfil
<1>3. tally \in Nat /\ tally' \in Nat /\ tally <= tally'
  BY CountGrows
<1>4. ReadLast' /\ Noted' /\ LastIsThisAccounts'
  BY <1>2 DEF OInv, ReadLast, Noted, LastIsThisAccounts
<1>5. \A i \in DOMAIN asks : asks[i].account \in Accounts /\ asks[i].seen \in Nat
                             /\ asks[i].upto \in Nat
  BY SequencesAre DEF BInv, AskStates
<1>6. asked # None => asked \in Nat
  BY DEF BInv, TypeOK
<1>7. SeenBefore'
  BY <1>2, <1>3, <1>5, <1>6 DEF OInv, SeenBefore
<1>8. FoundUpToDate'
  <2> SUFFICES ASSUME NEW i \in DOMAIN asks, asks[i].phase = "found"
               PROVE  UpToDate(asks[i].account, asks[i].seen, asks[i].upto)'
    BY <1>2 DEF FoundUpToDate
  <2>1. PICK a \in Accounts, v \in Nat, u \in Nat :
           a = asks[i].account /\ v = asks[i].seen /\ u = asks[i].upto
    BY <1>5
  <2>2. UpToDate(a, v, u) /\ v <= tally
    BY <2>1 DEF OInv, FoundUpToDate, SeenBefore
  <2>3. UpToDate(a, v, u)'
    BY <2>2, BatchKeeps
  <2> QED BY <1>2, <2>1, <2>3 DEF UpToDate
<1>9. DrawnIsRight'
  <2> SUFFICES ASSUME asks = <<>>, shown.kind = "found"
               PROVE  /\ shown.account \in Accounts
                      /\ account # None => shown.account = account
                      /\ (asked # None => UpToDate(shown.account, asked, shown.upto))'
    BY <1>2 DEF DrawnIsRight
  <2>1. shown.account \in Accounts /\ (account # None => shown.account = account)
    BY DEF OInv, DrawnIsRight
  <2>2. CASE asked # None
    <3>1. shown.upto \in Nat
      BY DEF BInv, TypeOK
    <3>2. PICK a \in Accounts, v \in Nat, u \in Nat :
             a = shown.account /\ v = asked /\ u = shown.upto
      BY <1>6, <2>1, <2>2, <3>1
    <3>3. UpToDate(a, v, u) /\ v <= tally
      BY <2>2, <3>2 DEF OInv, DrawnIsRight, SeenBefore
    <3>4. UpToDate(a, v, u)'
      BY <3>3, BatchKeeps
    <3> QED BY <1>2, <2>1, <3>2, <3>4 DEF UpToDate
  <2> QED BY <1>2, <2>1, <2>2
<1> QED
  BY <1>4, <1>7, <1>8, <1>9 DEF OInv

-----------------------------------------------------------------------------
(* Perfil's own steps.                                                     *)

\* What is up to date depends on the batches alone.
LEMMA SameBatches ==
    ASSUME UNCHANGED batches, NEW a, NEW v, NEW u, UpToDate(a, v, u)
    PROVE  UpToDate(a, v, u)'
  BY DEF UpToDate, batches

\* Nothing is asked; who is signed in may leave, and what is drawn go.
LEMMA NothingAsked ==
    ASSUME BInv, OInv, UNCHANGED <<batches, asks, asked>>,
           account' \in {account, None}, shown' \in {shown, Blank}
    PROVE  OInv'
<1>1. tally' = tally /\ (shown'.kind = "found" => shown' = shown)
  BY DEF batches, Blank
<1>2. ReadLast' /\ Noted' /\ SeenBefore'
  BY <1>1 DEF OInv, ReadLast, Noted, SeenBefore
<1>3. LastIsThisAccounts'
  BY DEF OInv, LastIsThisAccounts
<1>4. FoundUpToDate' /\ DrawnIsRight'
  BY <1>1 DEF OInv, FoundUpToDate, DrawnIsRight, UpToDate, batches
<1> QED
  BY <1>2, <1>3, <1>4 DEF OInv

\* A question is added, for the account that is signed in then.
LEMMA AskedNext ==
    ASSUME BInv, NEW a \in Accounts, AskForHistory(a)
    PROVE  \E e \in AskStates :
              /\ e.phase = "reading" /\ e.account = a /\ e.seen = tally
              /\ asks' = Append(asks, e) /\ asks' \in Seq(AskStates)
              /\ Len(asks') = Len(asks) + 1 /\ DOMAIN asks' = 1..Len(asks) + 1
              /\ \A i \in DOMAIN asks : asks'[i] = asks[i]
              /\ asks'[Len(asks) + 1] = e /\ asks' # <<>>
<1> DEFINE r == [phase |-> "reading", account |-> a, seen |-> tally, upto |-> 0]
<1>1. asks' = Append(asks, r)
  BY ConstantsAssumption DEF AskForHistory
<1>2. r \in AskStates /\ r.phase = "reading" /\ r.account = a /\ r.seen = tally
  BY ConstantsAssumption DEF BInv, TypeOK, AskStates
<1> HIDE DEF r
<1>3. /\ asks' \in Seq(AskStates) /\ Len(asks') = Len(asks) + 1 /\ asks' # <<>>
      /\ \A i \in 1..Len(asks) : asks'[i] = asks[i]
      /\ asks'[Len(asks) + 1] = r
  BY <1>1, <1>2, SequencesAre, AppendProperties DEF BInv
<1>4. DOMAIN asks' = 1..Len(asks) + 1 /\ DOMAIN asks = 1..Len(asks)
  BY <1>3, SequencesAre DEF BInv
<1> QED
  BY <1>1, <1>2, <1>3, <1>4

\* A new question is the last one, and is not noted yet.
LEMMA AskedKeeps ==
    ASSUME BInv, OInv, NEW a \in Accounts, AskForHistory(a), account' = a,
           UNCHANGED <<batches, asked>>
    PROVE  OInv'
<1>1. PICK e \in AskStates :
         /\ e.phase = "reading" /\ e.account = a /\ e.seen = tally
         /\ Len(asks') = Len(asks) + 1 /\ DOMAIN asks' = 1..Len(asks) + 1
         /\ \A i \in DOMAIN asks : asks'[i] = asks[i]
         /\ asks'[Len(asks) + 1] = e /\ asks' # <<>>
  BY AskedNext
<1>2. DOMAIN asks = 1..Len(asks) /\ Len(asks) \in Nat
      /\ tally' = tally /\ tally \in Nat
  BY SequencesAre DEF BInv, TypeOK, batches
<1>3. \A i \in DOMAIN asks' : i \in DOMAIN asks \/ i = Len(asks) + 1
  BY <1>1, <1>2
<1>4. ReadLast'
  BY <1>1, <1>2, <1>3 DEF OInv, ReadLast
<1>5. Noted'
  <2> SUFFICES ASSUME NEW i \in DOMAIN asks', asks'[i].phase # "reading",
                      \A j \in DOMAIN asks' : i < j => asks'[j].phase = "reading"
               PROVE  asked = asks'[i].seen
    BY DEF Noted
  <2>1. i \in DOMAIN asks /\ asks'[i] = asks[i]
    BY <1>1, <1>3
  <2>2. \A j \in DOMAIN asks : j \in DOMAIN asks' /\ asks'[j] = asks[j]
    BY <1>1, <1>2
  <2> QED BY <2>1, <2>2 DEF OInv, Noted
<1>6. SeenBefore'
  BY <1>1, <1>2, <1>3 DEF OInv, SeenBefore
<1>7. FoundUpToDate'
  <2> SUFFICES ASSUME NEW i \in DOMAIN asks', asks'[i].phase = "found"
               PROVE  UpToDate(asks[i].account, asks[i].seen, asks[i].upto)'
    BY DEF FoundUpToDate
  <2>1. i \in DOMAIN asks /\ asks'[i] = asks[i]
    BY <1>1, <1>3
  <2> QED BY <2>1 DEF OInv, FoundUpToDate, UpToDate, batches
<1>8. LastIsThisAccounts' /\ DrawnIsRight'
  BY <1>1 DEF LastIsThisAccounts, DrawnIsRight
<1> QED
  BY <1>4, <1>5, <1>6, <1>7, <1>8 DEF OInv

\* One question moves on.
LEMMA OneMoves ==
    ASSUME BInv, NEW i \in DOMAIN asks, NEW e \in AskStates,
           asks' = [asks EXCEPT ![i] = e]
    PROVE  /\ asks' \in Seq(AskStates) /\ Len(asks') = Len(asks)
           /\ DOMAIN asks' = DOMAIN asks /\ asks' # <<>> /\ asks # <<>>
           /\ asks'[i] = e /\ \A j \in DOMAIN asks \ {i} : asks'[j] = asks[j]
<1>1. asks \in Seq(AskStates) /\ DOMAIN asks = 1..Len(asks) /\ Len(asks) \in Nat
  BY SequencesAre DEF BInv
<1>2. /\ asks' \in Seq(AskStates) /\ Len(asks') = Len(asks)
      /\ \A j \in 1..Len(asks) : asks'[j] = IF j = i THEN e ELSE asks[j]
  BY <1>1, ExceptSeq
<1>3. DOMAIN asks' = 1..Len(asks') /\ asks' # <<>> /\ asks # <<>>
  BY <1>1, <1>2
<1> QED
  BY <1>1, <1>2, <1>3

\* What Ask, Serve and GoWrong do to a question.
LEMMA MovesAre ==
    ASSUME BInv, NEW i \in DOMAIN asks, NEW phase,
           \/ phase = "sent" /\ Ask(i)
           \/ phase = "found" /\ Serve(i)
           \/ phase = "failed" /\ GoWrong(i)
    PROVE  \E e \in AskStates :
              /\ e.phase = phase /\ e.account = asks[i].account
              /\ e.seen = asks[i].seen
              /\ phase = "found" => e.upto = recorded[asks[i].account]
              /\ asks' = [asks EXCEPT ![i] = e]
<1>1. PICK q \in AskStates : q = asks[i]
  BY SequencesAre DEF BInv
<1>2. recorded[q.account] \in 0..MaxFlushes /\ q.account \in Accounts
  BY DEF BInv, TypeOK, AskStates
<1>3. CASE phase = "sent" /\ Ask(i)
  <2> DEFINE e == [q EXCEPT !.phase = "sent"]
  <2>1. asks' = [asks EXCEPT ![i] = e]
    BY <1>1, <1>3 DEF Ask
  <2>2. e \in AskStates /\ e.phase = "sent" /\ e.account = q.account /\ e.seen = q.seen
    BY DEF AskStates
  <2> HIDE DEF e
  <2> QED BY <1>1, <1>3, <2>1, <2>2
<1>4. CASE phase = "found" /\ Serve(i)
  <2> DEFINE u == recorded[q.account]
  <2>1. asks' = [asks EXCEPT ![i].phase = "found", ![i].upto = u]
    BY <1>1, <1>4 DEF Serve
  <2>2. u \in 0..MaxFlushes
    BY <1>2
  <2> HIDE DEF u
  <2> DEFINE e == [[q EXCEPT !.phase = "found"] EXCEPT !.upto = u]
  <2>3. asks' = [asks EXCEPT ![i] = e]
    BY <1>1, <2>1
  <2>4. e \in AskStates /\ e.phase = "found" /\ e.account = q.account
        /\ e.seen = q.seen /\ e.upto = u
    BY <2>2 DEF AskStates
  <2> HIDE DEF e
  <2> QED BY <1>1, <1>4, <2>3, <2>4 DEF u
<1>5. CASE phase = "failed" /\ GoWrong(i)
  <2> DEFINE e == [q EXCEPT !.phase = "failed"]
  <2>1. asks' = [asks EXCEPT ![i] = e]
    BY <1>1, <1>5 DEF GoWrong
  <2>2. e \in AskStates /\ e.phase = "failed" /\ e.account = q.account /\ e.seen = q.seen
    BY DEF AskStates
  <2> HIDE DEF e
  <2> QED BY <1>1, <1>5, <2>1, <2>2
<1> QED
  BY <1>3, <1>4, <1>5

\* A question that moves on keeps the line in order.
LEMMA MovesKeep ==
    ASSUME BInv, OInv, NEW i \in DOMAIN asks, Ask(i) \/ Serve(i) \/ GoWrong(i)
    PROVE  /\ OInv'
           /\ asks' \in Seq(AskStates) /\ asked' \in Nat \cup {None}
           /\ UNCHANGED <<batches, session, showing, visit, shown>>
<1>1. PICK phase : \/ phase = "sent" /\ Ask(i)
                   \/ phase = "found" /\ Serve(i)
                   \/ phase = "failed" /\ GoWrong(i)
  OBVIOUS
<1>2. PICK e \in AskStates :
         /\ e.phase = phase /\ e.account = asks[i].account /\ e.seen = asks[i].seen
         /\ phase = "found" => e.upto = recorded[asks[i].account]
         /\ asks' = [asks EXCEPT ![i] = e]
  BY <1>1, MovesAre
<1>3. /\ asks' \in Seq(AskStates) /\ Len(asks') = Len(asks)
      /\ DOMAIN asks' = DOMAIN asks /\ asks' # <<>> /\ asks # <<>>
      /\ asks'[i] = e /\ \A j \in DOMAIN asks \ {i} : asks'[j] = asks[j]
  BY <1>2, OneMoves
<1>4. UNCHANGED <<batches, session, showing, visit, shown>>
  BY <1>1 DEF Ask, Serve, GoWrong
<1>5. UNCHANGED <<tally, account>>
  BY <1>4 DEF batches, session
<1>6. /\ DOMAIN asks = 1..Len(asks) /\ Len(asks) \in Nat /\ tally \in Nat
      /\ \A j \in DOMAIN asks : asks[j].seen \in Nat /\ asks[j].account \in Accounts
  BY SequencesAre DEF BInv, TypeOK, AskStates
<1>7. \A j \in DOMAIN asks : asks'[j].seen = asks[j].seen
                             /\ asks'[j].account = asks[j].account
  BY <1>2, <1>3
<1>8. phase # "reading" /\ \A j \in DOMAIN asks : j < i => asks[j].phase # "reading"
  <2>1. CASE phase = "sent" /\ Ask(i)
    BY <1>6, <2>1 DEF Ask
  <2>2. CASE asks[i].phase = "sent" /\ phase # "reading"
    BY <2>2 DEF OInv, ReadLast
  <2> QED BY <1>1, <2>1, <2>2 DEF Serve, GoWrong
<1>9. ReadLast'
  <2> SUFFICES ASSUME NEW j \in DOMAIN asks, NEW k \in DOMAIN asks, j < k,
                      asks'[j].phase = "reading"
               PROVE  asks'[k].phase = "reading"
    BY <1>3 DEF ReadLast
  <2>1. j # i /\ asks[j].phase = "reading"
    BY <1>2, <1>3, <1>8
  <2>2. asks[k].phase = "reading"
    BY <2>1 DEF OInv, ReadLast
  <2>3. k # i
    BY <1>8, <2>1
  <2> QED BY <1>3, <2>2, <2>3
<1>10. Noted'
  <2> SUFFICES ASSUME NEW j \in DOMAIN asks, asks'[j].phase # "reading",
                      \A k \in DOMAIN asks : j < k => asks'[k].phase = "reading"
               PROVE  asked' = asks[j].seen
    BY <1>3, <1>7 DEF Noted
  <2>1. CASE phase = "sent" /\ Ask(i)
    <3>1. asked' = asks[i].seen /\ asks[i].phase = "reading"
      BY <2>1 DEF Ask
    <3>2. ~(j < i)
      BY <1>2, <1>3, <1>8
    <3>3. ~(i < j)
      <4>1. ASSUME i < j PROVE FALSE
        <5>1. asks[j].phase = "reading"
          BY <3>1, <4>1 DEF OInv, ReadLast
        <5> QED BY <1>3, <1>6, <4>1, <5>1
      <4> QED BY <4>1
    <3> QED BY <1>6, <3>1, <3>2, <3>3
  <2>2. CASE asked' = asked /\ asks[i].phase # "reading"
    <3>1. asks[j].phase # "reading"
      BY <1>3, <2>2
    <3>2. \A k \in DOMAIN asks : j < k => asks[k].phase = "reading"
      BY <1>2, <1>3, <1>8
    <3> QED BY <2>2, <3>1, <3>2 DEF OInv, Noted
  <2> QED BY <1>1, <2>1, <2>2 DEF Serve, GoWrong
<1>11. asked' \in Nat \cup {None} /\ (asked' # None => asked' <= tally)
  <2>1. asked' \in {asked, asks[i].seen}
    BY <1>1 DEF Ask, Serve, GoWrong
  <2> QED BY <1>6, <2>1 DEF BInv, TypeOK, OInv, SeenBefore
<1>12. SeenBefore'
  BY <1>3, <1>5, <1>7, <1>11 DEF OInv, SeenBefore
<1>13. FoundUpToDate'
  <2> SUFFICES ASSUME NEW j \in DOMAIN asks, asks'[j].phase = "found"
               PROVE  UpToDate(asks[j].account, asks[j].seen, asks[j].upto)'
    BY <1>3 DEF FoundUpToDate
  <2>1. CASE j = i
    <3>1. phase = "found"
      BY <1>2, <1>3, <2>1
    <3>2. PICK a, v, u : /\ a \in Accounts /\ v \in Nat
                         /\ a = asks[i].account /\ v = asks[i].seen
                         /\ u = recorded[asks[i].account]
      BY <1>6
    <3>3. UpToDate(a, v, u)
      BY <3>2, ServedIsUpToDate
    <3>4. UpToDate(a, v, u)'
      BY <1>4, <3>3, SameBatches
    <3> QED BY <1>2, <1>3, <2>1, <3>1, <3>2, <3>4 DEF UpToDate
  <2>2. CASE j # i
    <3>1. asks'[j] = asks[j]
      BY <1>3, <2>2
    <3> QED BY <1>4, <3>1 DEF OInv, FoundUpToDate, UpToDate, batches
  <2> QED BY <2>1, <2>2
<1>14. LastIsThisAccounts' /\ DrawnIsRight'
  <2>1. Len(asks) \in DOMAIN asks
    BY <1>6
  <2> QED BY <1>3, <1>5, <1>7, <2>1 DEF OInv, LastIsThisAccounts, DrawnIsRight
<1> QED
  BY <1>3, <1>4, <1>9, <1>10, <1>11, <1>12, <1>13, <1>14 DEF OInv

\* The answer that is drawn is taken out of the line.
LEMMA ReceivedNext ==
    ASSUME BInv, NEW i \in DOMAIN asks, Receive(i)
    PROVE  /\ asks' \in Seq(AskStates) /\ Len(asks') = Len(asks) - 1
           /\ \A j \in 1..Len(asks') :
                 asks'[j] = IF j < i THEN asks[j] ELSE asks[j + 1]
<1> DEFINE front == SubSeq(asks, 1, i - 1)
           back == SubSeq(asks, i + 1, Len(asks))
<1>1. /\ DOMAIN asks = 1..Len(asks) /\ Len(asks) \in Nat /\ i \in 1..Len(asks)
      /\ \A j \in 1..Len(asks) : asks[j] \in AskStates
  BY SequencesAre DEF BInv
<1>2. asks' = front \o back
  BY DEF Receive, RemoveAt
<1>3. /\ front \in Seq(AskStates) /\ Len(front) = i - 1
      /\ \A j \in 1..i - 1 : front[j] = asks[j]
  <2>1. \A j \in 1..i - 1 : asks[j] \in AskStates
    BY <1>1
  <2>2. /\ front \in Seq(AskStates)
        /\ Len(front) = IF 1 <= i - 1 THEN i - 1 - 1 + 1 ELSE 0
        /\ \A j \in 1..i - 1 - 1 + 1 : front[j] = asks[1 + j - 1]
    <3> HIDE DEF front
    <3>1. i - 1 \in Int /\ 1 \in Int
      BY <1>1
    <3> QED BY <2>1, <3>1, SubSeqProperties DEF front
  <2> HIDE DEF front
  <2> QED BY <1>1, <2>2
<1>4. /\ back \in Seq(AskStates) /\ Len(back) = Len(asks) - i
      /\ \A j \in 1..Len(asks) - i : back[j] = asks[i + j]
  <2>1. \A j \in i + 1..Len(asks) : asks[j] \in AskStates
    BY <1>1
  <2>2. /\ back \in Seq(AskStates)
        /\ Len(back) = IF i + 1 <= Len(asks) THEN Len(asks) - (i + 1) + 1 ELSE 0
        /\ \A j \in 1..Len(asks) - (i + 1) + 1 : back[j] = asks[i + 1 + j - 1]
    <3> HIDE DEF back
    <3>1. i + 1 \in Int /\ Len(asks) \in Int
      BY <1>1
    <3> QED BY <2>1, <3>1, SubSeqProperties DEF back
  <2> HIDE DEF back
  <2>3. Len(back) = Len(asks) - i
    BY <1>1, <2>2
  <2>4. ASSUME NEW j \in 1..Len(asks) - i
        PROVE  back[j] = asks[i + j]
    <3>1. j \in 1..Len(asks) - (i + 1) + 1 /\ i + 1 + j - 1 = i + j
      BY <1>1
    <3>2. back[j] = asks[i + 1 + j - 1]
      BY <2>2, <3>1
    <3> QED BY <3>1, <3>2
  <2> QED BY <2>2, <2>3, <2>4
<1> HIDE DEF front, back
<1>5. /\ asks' \in Seq(AskStates) /\ Len(asks') = Len(front) + Len(back)
      /\ \A j \in 1..Len(front) + Len(back) :
            asks'[j] = IF j <= Len(front) THEN front[j] ELSE back[j - Len(front)]
  BY <1>2, <1>3, <1>4, ConcatProperties
<1>6. Len(asks') = Len(asks) - 1
  BY <1>1, <1>3, <1>4, <1>5
<1>7. ASSUME NEW j \in 1..Len(asks')
      PROVE  asks'[j] = IF j < i THEN asks[j] ELSE asks[j + 1]
  <2>1. CASE j < i
    BY <1>1, <1>3, <1>4, <1>5, <1>6, <2>1
  <2>2. CASE ~(j < i)
    <3>1. j - Len(front) \in 1..Len(asks) - i /\ i + (j - Len(front)) = j + 1
      BY <1>1, <1>3, <1>6, <2>2
    <3>2. asks'[j] = back[j - Len(front)]
      BY <1>1, <1>3, <1>4, <1>5, <1>6, <2>2
    <3> QED BY <1>4, <2>2, <3>1, <3>2
  <2> QED BY <2>1, <2>2
<1> QED
  BY <1>5, <1>6, <1>7

\* The answer drawn is the oldest; if none is left, it is the last.
LEMMA ReceiveKeeps ==
    ASSUME BInv, Orderly, OInv, NEW i \in DOMAIN asks, Receive(i)
    PROVE  OInv'
<1>1. /\ i = 1 /\ asks[1].phase \in {"found", "failed"} /\ 1 \in DOMAIN asks
      /\ shown' = [kind |-> asks[1].phase, account |-> asks[1].account,
                   upto |-> asks[1].upto]
      /\ UNCHANGED <<batches, session, asked>>
  BY DEF Receive
<1>2. UNCHANGED <<tally, account, asked>>
  BY <1>1 DEF batches, session
<1>3. /\ DOMAIN asks = 1..Len(asks) /\ Len(asks) \in Nat
      /\ \A j \in DOMAIN asks : asks[j].account \in Accounts
  BY SequencesAre DEF BInv, AskStates
<1>4. /\ asks' \in Seq(AskStates) /\ Len(asks') = Len(asks) - 1
      /\ \A j \in 1..Len(asks') : asks'[j] = asks[j + 1]
  <2>1. asks' \in Seq(AskStates) /\ Len(asks') = Len(asks) - 1
    BY ReceivedNext
  <2>2. \A j \in 1..Len(asks') : asks'[j] = IF j < i THEN asks[j] ELSE asks[j + 1]
    BY ReceivedNext
  <2>3. \A j \in 1..Len(asks') : ~(j < 1)
    BY <1>3, <2>1
  <2> QED BY <1>1, <2>1, <2>2, <2>3
<1>5. /\ DOMAIN asks' = 1..Len(asks')
      /\ \A j \in DOMAIN asks' : j + 1 \in DOMAIN asks /\ asks'[j] = asks[j + 1]
      /\ \A j \in DOMAIN asks : j = 1 \/ (j - 1 \in DOMAIN asks' /\ asks[j] = asks'[j - 1])
  BY <1>3, <1>4
<1>6. ReadLast'
  <2> SUFFICES ASSUME NEW j \in DOMAIN asks', NEW k \in DOMAIN asks', j < k,
                      asks'[j].phase = "reading"
               PROVE  asks'[k].phase = "reading"
    BY DEF ReadLast
  <2>1. j + 1 \in DOMAIN asks /\ k + 1 \in DOMAIN asks /\ j + 1 < k + 1
    BY <1>4, <1>5
  <2> QED BY <1>5, <2>1 DEF OInv, ReadLast
<1>7. Noted'
  <2> SUFFICES ASSUME NEW j \in DOMAIN asks', asks'[j].phase # "reading",
                      \A k \in DOMAIN asks' : j < k => asks'[k].phase = "reading"
               PROVE  asked = asks[j + 1].seen
    BY <1>2, <1>5 DEF Noted
  <2>1. j + 1 \in DOMAIN asks /\ asks[j + 1].phase # "reading" /\ j \in Nat /\ 1 <= j
    BY <1>3, <1>4, <1>5
  <2>2. ASSUME NEW k \in DOMAIN asks, j + 1 < k
        PROVE  asks[k].phase = "reading"
    <3>1. k \in Nat /\ k # 1 /\ j < k - 1
      BY <1>3, <2>1, <2>2
    <3> QED BY <1>5, <3>1
  <2> QED BY <2>1, <2>2 DEF OInv, Noted
<1>8. SeenBefore'
  BY <1>2, <1>5 DEF OInv, SeenBefore
<1>9. FoundUpToDate'
  BY <1>1, <1>5 DEF OInv, FoundUpToDate, UpToDate, batches
<1>10. LastIsThisAccounts'
  <2> SUFFICES ASSUME account # None, asks' # <<>>
               PROVE  asks'[Len(asks')].account = account
    BY <1>2 DEF LastIsThisAccounts
  <2>1. Len(asks') \in DOMAIN asks' /\ Len(asks') + 1 = Len(asks)
    BY <1>3, <1>4, <1>5
  <2>2. asks # <<>>
    BY <1>1
  <2> QED BY <1>5, <2>1, <2>2 DEF OInv, LastIsThisAccounts
<1>11. DrawnIsRight'
  <2> SUFFICES ASSUME asks' = <<>>, shown'.kind = "found"
               PROVE  /\ shown'.account \in Accounts
                      /\ account' # None => shown'.account = account'
                      /\ (asked # None => UpToDate(shown.account, asked, shown.upto))'
    BY DEF DrawnIsRight
  <2>1. Len(asks) = 1 /\ asks # <<>>
    <3>1. Len(asks') = 0
      BY EmptySeq
    <3>2. Len(asks) = 1
      <4>1. Len(asks) - 1 = 0
        BY <1>4, <3>1
      <4>2. Len(asks) \in Nat
        BY <1>3
      <4>3. \A n \in Nat : n - 1 = 0 => n = 1
        OBVIOUS
      <4> QED BY <4>1, <4>2, <4>3
    <3>3. asks # <<>>
      BY <3>2, EmptySeq
    <3> QED BY <3>2, <3>3
  <2>2. /\ asks[1].phase = "found" /\ shown'.account = asks[1].account
        /\ shown'.upto = asks[1].upto
    BY <1>1
  <2>3. account # None => asks[1].account = account
    BY <2>1 DEF OInv, LastIsThisAccounts
  <2>4. asked = asks[1].seen
    BY <1>1, <1>3, <2>1 DEF OInv, Noted
  <2>5. PICK a, v, u : a = asks[1].account /\ v = asked /\ u = asks[1].upto
    OBVIOUS
  <2>6. UpToDate(a, v, u)
    BY <1>1, <2>2, <2>4, <2>5 DEF OInv, FoundUpToDate
  <2>7. UpToDate(a, v, u)'
    BY <1>1, <2>6, SameBatches
  <2>8. shown'.account = a /\ asked' = v /\ shown'.upto = u
    BY <1>2, <2>2, <2>5
  <2>9. UpToDate(shown.account, asked, shown.upto)'
    BY <2>7, <2>8 DEF UpToDate
  <2> QED BY <1>1, <1>2, <1>3, <2>2, <2>3, <2>9
<1> QED
  BY <1>6, <1>7, <1>8, <1>9, <1>10, <1>11 DEF OInv

\* What is asked leaves the batches as they are.
LEMMA SameBatchInv ==
    ASSUME BInv, UNCHANGED batches, PerfilTypes', faults' \in 0..MaxFaults
    PROVE  BInv'
<1>1. UNCHANGED <<recorded, flushes, tally, counting, flusher, known>>
  BY DEF batches
<1>2. BatchTypes'
  BY <1>1 DEF BInv, TypeOK, BatchTypes, Counts
<1>3. TypeOK'
  BY <1>2 DEF TypeOK, BatchTypes, PerfilTypes, Counts
<1>4. FlushersAre' /\ CountsAre'
  BY <1>1 DEF BInv, FlushersAre, CountsAre, Sending
<1> QED
  BY <1>3, <1>4 DEF BInv

\* What goes wrong is bounded.
LEMMA FaultsAre ==
    ASSUME TypeOK, Trouble \/ UNCHANGED faults
    PROVE  faults' \in 0..MaxFaults
  BY ConstantsAssumption DEF TypeOK, Trouble

\* The steps of the batches keep the types.
LEMMA BatchTyping ==
    ASSUME BInv, BatchStep
    PROVE  BInv'
<1>1. BatchTypes' /\ FlushersAre' /\ CountsAre'
  BY FlushStep, RecordStep, LostStep, CountReadStep, CountWriteStep DEF BatchStep
<1>2. UNCHANGED <<session, perfil>> /\ faults' \in 0..MaxFaults
  BY FaultsAre DEF BInv, BatchStep, Flush, Record, FlushLost, CountRead, CountWrite
<1>3. PerfilTypes'
  BY <1>2 DEF BInv, TypeOK, PerfilTypes, session, perfil
<1>4. TypeOK'
  BY <1>1, <1>2, <1>3 DEF TypeOK, BatchTypes, PerfilTypes, Counts
<1> QED
  BY <1>1, <1>4 DEF BInv

\* A question asked, or none for want of a session.
LEMMA AskTyping ==
    ASSUME BInv, NEW a \in Accounts \cup {None}, AskForHistory(a)
    PROVE  asks' \in Seq(AskStates)
<1>1. CASE a = None
  BY <1>1, SequencesAre DEF AskForHistory, BInv
<1>2. CASE a \in Accounts
  BY <1>2, AskedNext
<1> QED
  BY <1>1, <1>2

\* Nothing drawn is a thing that can be drawn.
LEMMA BlankIs ==
    Blank \in [kind : {"none", "found", "failed"},
               account : Accounts \cup {None}, upto : 0..MaxFlushes]
  BY ConstantsAssumption DEF Blank

\* The steps of Perfil and of the session.
PerfilStep ==
    \/ \E i \in DOMAIN asks : Ask(i) \/ Serve(i) \/ GoWrong(i) \/ Receive(i)
    \/ Retry \/ Visit \/ VisitDecide \/ Leave
    \/ (\E a \in Accounts : NewToken(a)) \/ SignOut

\* These keep the types too.
LEMMA PerfilTyping ==
    ASSUME BInv, PerfilStep
    PROVE  BInv'
<1>0. UNCHANGED batches /\ (Trouble \/ UNCHANGED faults)
  BY DEF PerfilStep, Ask, Serve, GoWrong, Receive, Retry, Visit, VisitDecide,
         Leave, NewToken, SignOut, TokenChanges
<1>1. faults' \in 0..MaxFaults
  BY <1>0, FaultsAre DEF BInv
<1>2. CASE \E i \in DOMAIN asks : Ask(i) \/ Serve(i) \/ GoWrong(i)
  <2>1. PICK i \in DOMAIN asks : Ask(i) \/ Serve(i) \/ GoWrong(i)
    BY <1>2
  <2>2. PICK e \in AskStates : asks' = [asks EXCEPT ![i] = e]
    BY <2>1, MovesAre
  <2>3. asks' \in Seq(AskStates)
    BY <2>2, OneMoves
  <2>4. asked' \in Nat \cup {None}
    <3>1. asks[i].seen \in Nat
      BY SequencesAre DEF BInv, AskStates
    <3> QED BY <2>1, <3>1 DEF Ask, Serve, GoWrong, BInv, TypeOK
  <2>5. UNCHANGED <<session, showing, visit, shown>>
    BY <2>1 DEF Ask, Serve, GoWrong
  <2>6. PerfilTypes'
    BY <2>3, <2>4, <2>5 DEF PerfilTypes, BInv, TypeOK, session
  <2> QED BY <1>0, <1>1, <2>6, SameBatchInv
<1>3. CASE \E i \in DOMAIN asks : Receive(i)
  <2>1. PICK i \in DOMAIN asks : Receive(i)
    BY <1>3
  <2>2. asks' \in Seq(AskStates)
    BY <2>1, ReceivedNext
  <2>3. UNCHANGED <<session, showing, visit, asked>>
    BY <2>1 DEF Receive
  <2>4. shown' \in [kind : {"none", "found", "failed"},
                    account : Accounts \cup {None}, upto : 0..MaxFlushes]
    <3>1. asks[i] \in AskStates
      BY SequencesAre DEF BInv
    <3> QED BY <2>1, <3>1 DEF Receive, AskStates
  <2>5. PerfilTypes'
    BY <2>2, <2>3, <2>4 DEF PerfilTypes, BInv, TypeOK, session
  <2> QED BY <1>0, <1>1, <2>5, SameBatchInv
<1>4. CASE Retry \/ Visit \/ VisitDecide \/ Leave
  <2>1. asks' \in Seq(AskStates)
    <3>1. (Visit \/ Leave) => asks' = asks
      BY DEF Visit, Leave
    <3>2. (Retry \/ VisitDecide) => AskForHistory(account) \/ asks' = asks
      BY DEF Retry, VisitDecide
    <3>3. asks \in Seq(AskStates) /\ account \in Accounts \cup {None}
      BY DEF BInv, TypeOK
    <3> QED BY <1>4, <3>1, <3>2, <3>3, AskTyping
  <2>2. /\ UNCHANGED <<session, asked>> /\ shown' \in {shown, Blank}
        /\ showing' \in BOOLEAN /\ visit' \in {visit, tally, None}
    BY <1>4 DEF Retry, Visit, VisitDecide, Leave, BInv, TypeOK
  <2>3. PerfilTypes'
    BY <2>1, <2>2, BlankIs DEF PerfilTypes, BInv, TypeOK, session
  <2> QED BY <1>0, <1>1, <2>3, SameBatchInv
<1>5. CASE (\E a \in Accounts : NewToken(a)) \/ SignOut
  <2>1. PICK a \in Accounts \cup {None} :
           TokenChanges(a) /\ tokens' \in 0..MaxTokens
    <3>1. tokens \in 0..MaxTokens /\ MaxTokens \in Nat
      BY ConstantsAssumption DEF BInv, TypeOK
    <3>2. ASSUME NEW b \in Accounts, NewToken(b)
          PROVE  TokenChanges(b) /\ tokens' \in 0..MaxTokens
      <4>1. TokenChanges(b) /\ tokens < MaxTokens /\ tokens' = tokens + 1
        BY <3>2 DEF NewToken
      <4>2. tokens' \in 0..MaxTokens
        BY <3>1, <4>1
      <4> QED BY <4>1, <4>2
    <3>3. SignOut => TokenChanges(None) /\ tokens' \in 0..MaxTokens
      BY <3>1 DEF SignOut
    <3> QED BY <1>5, <3>2, <3>3
  <2>2. asks' \in Seq(AskStates)
    BY <2>1, AskTyping DEF TokenChanges
  <2>3. PerfilTypes'
    BY <2>1, <2>2, BlankIs DEF TokenChanges, PerfilTypes, BInv, TypeOK
  <2> QED BY <1>0, <1>1, <2>3, SameBatchInv
<1> QED
  BY <1>2, <1>3, <1>4, <1>5 DEF PerfilStep

\* So does a restart.
LEMMA RestartTyping ==
    ASSUME BInv, Restart
    PROVE  BInv'
<1>1. BatchTypes' /\ FlushersAre' /\ CountsAre'
  BY RestartBatches
<1>2. faults' \in 0..MaxFaults
  BY FaultsAre DEF BInv, Restart
<1>3. PerfilTypes'
  BY BlankIs, EmptySeq DEF Restart, PerfilTypes, BInv, TypeOK
<1> QED
  BY <1>1, <1>2, <1>3 DEF BInv, TypeOK, BatchTypes, PerfilTypes, Counts

\* There are no other steps.
LEMMA StepsAre ==
    Next <=> BatchStep \/ PerfilStep \/ Restart
  BY DEF Next, BatchStep, PerfilStep

\* At first nothing is recorded or asked.
LEMMA BInvInit == Init => BInv
<1> SUFFICES ASSUME Init
             PROVE  BInv
  OBVIOUS
<1>1. Sending = {}
  BY DEF Init, Sending, Idle
<1>2. Cardinality(Sending) = 0
  BY <1>1, FS_EmptySet
<1>3. Idle \in FlusherStates
  BY ConstantsAssumption DEF Idle, FlusherStates
<1>4. BatchTypes
  BY <1>3, EmptySeq, ConstantsAssumption DEF Init, BatchTypes
<1>5. PerfilTypes
  <2>1. asks \in Seq(AskStates)
    BY EmptySeq DEF Init
  <2>2. /\ shown \in [kind : {"none", "found", "failed"},
                      account : Accounts \cup {None}, upto : 0..MaxFlushes]
        /\ account = None /\ showing = FALSE /\ visit = None /\ asked = None
    BY BlankIs DEF Init
  <2>3. tokens \in 0..MaxTokens
    BY ConstantsAssumption DEF Init
  <2> QED BY <2>1, <2>2, <2>3 DEF PerfilTypes
<1>6. TypeOK
  BY <1>4, <1>5, TypesOfParts, ConstantsAssumption DEF Init
<1>7. FlushersAre /\ CountsAre
  BY <1>2, ConstantsAssumption DEF Init, FlushersAre, CountsAre, Idle
<1> QED
  BY <1>6, <1>7 DEF BInv

\* Every step keeps the invariant of the batches.
LEMMA BInvStep == BInv /\ [Next]_vars => BInv'
<1> SUFFICES ASSUME BInv, [Next]_vars
             PROVE  BInv'
  OBVIOUS
<1>1. CASE UNCHANGED vars
  <2>1. UNCHANGED <<batches, session, perfil, faults>>
    BY <1>1 DEF vars
  <2>2. PerfilTypes' /\ faults' \in 0..MaxFaults
    BY <2>1 DEF PerfilTypes, BInv, TypeOK, session, perfil
  <2> QED BY <2>1, <2>2, SameBatchInv
<1> QED
  BY <1>1, BatchTyping, PerfilTyping, RestartTyping, StepsAre

\* The types, with the bound on the rows that a batch can add: no account has
\* more than there were requests.
THEOREM HistoryTyping == Spec => []TypeOK
<1>1. BInv => TypeOK
  BY DEF BInv
<1> QED
  BY <1>1, BInvInit, BInvStep, PTL DEF Spec

\* Every step keeps the invariant of the questions.
LEMMA OInvStep == BInv /\ Orderly /\ OInv /\ [Next]_vars => OInv'
<1> SUFFICES ASSUME BInv, Orderly, OInv, [Next]_vars
             PROVE  OInv'
  OBVIOUS
<1>1. CASE BatchStep
  BY <1>1, BatchKeepsOrder
<1>2. CASE \E i \in DOMAIN asks : Ask(i) \/ Serve(i) \/ GoWrong(i) \/ Receive(i)
  BY <1>2, MovesKeep, ReceiveKeeps
<1>3. CASE Retry \/ VisitDecide
  <2>1. /\ UNCHANGED <<batches, account, asked>> /\ shown' \in {shown, Blank}
        /\ AskForHistory(account) \/ UNCHANGED asks
    BY <1>3 DEF Retry, VisitDecide, session
  <2>2. CASE UNCHANGED asks
    BY <2>1, <2>2, NothingAsked
  <2>3. CASE AskForHistory(account) /\ account # None
    <3>1. PICK a \in Accounts : a = account
      BY <2>3 DEF BInv, TypeOK
    <3> QED BY <2>1, <2>3, <3>1, AskedKeeps
  <2>4. CASE AskForHistory(account) /\ account = None
    <3>1. UNCHANGED asks
      BY <2>4 DEF AskForHistory
    <3> QED BY <2>1, <3>1, NothingAsked
  <2> QED BY <2>1, <2>2, <2>3, <2>4
<1>4. CASE Visit \/ Leave \/ UNCHANGED vars
  <2>1. UNCHANGED <<batches, account, asks, asked, shown>>
    BY <1>4 DEF Visit, Leave, vars, session, perfil
  <2> QED BY <2>1, NothingAsked
<1>5. CASE \E a \in Accounts : NewToken(a)
  BY <1>5, AskedKeeps DEF NewToken, TokenChanges
<1>6. CASE SignOut
  <2>1. UNCHANGED <<batches, asks, asked>> /\ account' = None /\ shown' = Blank
    BY <1>6 DEF SignOut, TokenChanges, AskForHistory
  <2> QED BY <2>1, NothingAsked
<1>7. CASE Restart
  BY <1>7 DEF Restart, OInv, ReadLast, Noted, SeenBefore, FoundUpToDate,
              LastIsThisAccounts, DrawnIsRight, Blank
<1> QED
  BY <1>1, <1>2, <1>3, <1>4, <1>5, <1>6, <1>7, StepsAre DEF PerfilStep

\* At first nothing is asked.
LEMMA OInvInit == Init => OInv
  BY DEF Init, OInv, ReadLast, Noted, SeenBefore, FoundUpToDate,
         LastIsThisAccounts, DrawnIsRight, Blank

\* When the count gives a visit no reason to ask, nothing that was counted is
\* missing from what is drawn, and it is the history of the account signed in
\* (historyOutdated, countOne), as long as two answers come in their order.
THEOREM SilenceIsAlwaysRight == ASSUME Orderly PROVE Spec => []SilenceIsRight
<1>1. BInv /\ OInv => SilenceIsRight
  <2> SUFFICES ASSUME BInv, OInv, AtRest
               PROVE  /\ shown.account = account
                      /\ asked = tally => shown.upto >= known[account]
    BY DEF SilenceIsRight
  <2>1. /\ shown.account = account /\ account \in Accounts
        /\ asked # None => UpToDate(account, asked, shown.upto)
    BY DEF AtRest, OInv, DrawnIsRight
  <2>2. asked = tally => asked # None
    BY ConstantsAssumption DEF BInv, TypeOK
  <2>3. shown.upto \in Nat /\ known[account] \in Nat
    BY <2>1 DEF BInv, TypeOK
  <2> QED BY <2>1, <2>2, <2>3 DEF UpToDate
<1> QED
  BY <1>1, BInvInit, BInvStep, OInvInit, OInvStep, PTL DEF Spec
=============================================================================
