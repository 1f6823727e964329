---------------------------- MODULE DeviceProofs ----------------------------
(***************************************************************************)
(* What holds of the device: its journal and what sends it (Sync), and its *)
(* session (Session).                                                      *)
(***************************************************************************)
EXTENDS Sync, Session, FiniteSetTheorems, SequenceTheorems,
        WellFoundedInduction, TLAPS

-----------------------------------------------------------------------------
(***************************************************************************)
(* Sync, for any journal limit, any number of answers and of calls open at *)
(* once: types, that the journal can always be sent, and that over a store *)
(* that loses nothing no answer is lost.                                   *)
(***************************************************************************)

-----------------------------------------------------------------------------
(* The journal's two operators.                                            *)

\* A nonempty set of entries has an oldest one.
LEMMA OldestEntry ==
    ASSUME NEW S \in SUBSET Entry, S # {}
    PROVE  \E m \in S : \A h \in S : h.n >= m.n
<1> DEFINE Below(h) == 0..h.n
           T == {Below(h) : h \in S}
           less == StrictSubsetOrdering(Nat)
<1>0. ASSUME NEW h \in S PROVE Below(h) \in FiniteSubsetsOf(Nat)
    <2>1. 0 \in Int /\ h.n \in Int
        BY DEF Entry
    <2>2. IsFiniteSet(0..h.n)
        BY <2>1, FS_Interval
    <2>3. QED
        BY <2>2 DEF FiniteSubsetsOf
<1>1. T \subseteq FiniteSubsetsOf(Nat) /\ T # {}
    BY <1>0
<1>2. IsWellFoundedOn(less, FiniteSubsetsOf(Nat))
    BY FS_StrictSubsetOrderingWellFounded
<1> HIDE DEF T, less
<1>3. PICK least \in T : \A t \in T : ~(<<t, least>> \in less)
    BY <1>1, <1>2, WFMin
<1>4. PICK m \in S : least = Below(m)
    BY <1>3 DEF T
<1>5. ASSUME NEW h \in S, h.n < m.n PROVE FALSE
    <2>1. h.n \in Nat /\ m.n \in Nat
        BY DEF Entry
    <2>2. /\ Below(h) \subseteq Below(m) /\ m.n \in Below(m)
          /\ m.n \notin Below(h)
          /\ Below(h) \in SUBSET Nat /\ Below(m) \in SUBSET Nat
        BY <1>5, <2>1
    <2>3. <<Below(h), Below(m)>> \in less
        BY <2>2 DEF less, StrictSubsetOrdering
    <2>4. QED
        BY <1>3, <1>4, <2>3 DEF T
<1>6. QED
    BY <1>5 DEF Entry

\* At most journalLimit entries are among the journalLimit newest, ties
\* included.
LEMMA NewestIsBounded ==
    ASSUME NEW S \in SUBSET Entry, IsFiniteSet(S)
    PROVE  /\ Newest(S) \in SUBSET S
           /\ IsFiniteSet(Newest(S))
           /\ Cardinality(Newest(S)) <= JournalLimit
<1>1. Newest(S) \in SUBSET S
    BY DEF Newest
<1>2. IsFiniteSet(Newest(S))
    BY <1>1, FS_Subset
<1>3. CASE Newest(S) = {}
    BY <1>2, <1>3, FS_EmptySet, NumbersAssumption
<1>4. CASE Newest(S) # {}
    <2>1. Newest(S) \in SUBSET Entry
        BY <1>1
    <2>2. PICK m \in Newest(S) : \A h \in Newest(S) : h.n >= m.n
        BY <1>4, <2>1, OldestEntry
    <2> DEFINE Above == {g \in S : g.n >= m.n}
    <2>3. Cardinality(Above) <= JournalLimit
        BY <2>2 DEF Newest
    <2>4. IsFiniteSet(Above)
        BY FS_Subset
    <2>5. Newest(S) \in SUBSET Above
        BY <1>1, <2>2
    <2> HIDE DEF Above
    <2>6. Cardinality(Newest(S)) <= Cardinality(Above)
        BY <2>4, <2>5, FS_Subset
    <2>7. Cardinality(Newest(S)) \in Nat /\ Cardinality(Above) \in Nat
        BY <1>2, <2>4, FS_CardinalityType
    <2>8. Cardinality(Newest(S)) <= JournalLimit
        BY <2>3, <2>6, <2>7, NumbersAssumption
    <2>9. QED
        BY <1>1, <1>2, <2>8
<1>5. QED
    BY <1>1, <1>2, <1>3, <1>4

\* What the journal and every snapshot of it are.
Good(S) ==
    /\ S \in SUBSET Entry
    /\ IsFiniteSet(S)
    /\ \A g, h \in S : g.item = h.item => g = h
    /\ Cardinality(S) <= JournalLimit

\* A good list fits a batch.
LEMMA GoodIsSendable ==
    ASSUME NEW S, Good(S)
    PROVE  Sendable(S)
BY FS_CardinalityType, NumbersAssumption DEF Good, Sendable

\* An empty list is good.
LEMMA EmptyIsGood == Good({})
BY FS_EmptySet, NumbersAssumption DEF Good

\* So is a part of a good one.
LEMMA SmallerIsGood ==
    ASSUME NEW S, Good(S), NEW T \in SUBSET S
    PROVE  Good(T)
<1>1. IsFiniteSet(T) /\ Cardinality(T) <= Cardinality(S)
    BY FS_Subset DEF Good
<1>2. Cardinality(T) \in Nat /\ Cardinality(S) \in Nat
    BY <1>1, FS_CardinalityType DEF Good
<1>3. QED
    BY <1>1, <1>2, NumbersAssumption DEF Good

\* journalWith keeps a good journal good.
LEMMA WithIsGood ==
    ASSUME NEW S, Good(S), NEW new \in Entry
    PROVE  Good(JournalWith(S, new))
<1> DEFINE others == {h \in S : h.item # new.item}
           all == others \cup {new}
<1>1. IsFiniteSet(all) /\ all \in SUBSET Entry
    BY FS_Subset, FS_AddElement DEF Good
<1>2. /\ Newest(all) \in SUBSET all
      /\ IsFiniteSet(Newest(all))
      /\ Cardinality(Newest(all)) <= JournalLimit
    BY <1>1, NewestIsBounded
<1>3. \A g, h \in all : g.item = h.item => g = h
    BY DEF Good
<1>4. QED
    BY <1>1, <1>2, <1>3 DEF Good, JournalWith

\* journalAfter only ever removes.
LEMMA AfterIsSmaller ==
    ASSUME NEW sent, NEW S, NEW reply
    PROVE  JournalAfter(sent, S, reply) \in SUBSET S
BY DEF JournalAfter

-----------------------------------------------------------------------------
(* Types, and the journal that can be sent.                                *)

\* The lists a pair will write from are the journal's own former selves, so
\* they are as good as it: that is what makes JournalSendable inductive.
GoodInv ==
    /\ Good(journal)
    /\ \A k \in 1..Len(pending) : Good(pending[k].seen)

\* The oldest pair, and the ones behind it.
LEMMA HeadOfPairs ==
    ASSUME pending \in Seq(Pair), pending # <<>>
    PROVE  /\ Head(pending) = pending[1] /\ 1 \in 1..Len(pending)
           /\ Head(pending) \in Pair
           /\ Tail(pending) \in Seq(Pair)
           /\ Len(Tail(pending)) = Len(pending) - 1
           /\ \A k \in 1..Len(Tail(pending)) :
                 k + 1 \in 1..Len(pending) /\ Tail(pending)[k] = pending[k + 1]
<1>1. Len(pending) \in Nat /\ Len(pending) # 0
    BY EmptySeq, LenProperties
<1>2. QED
    BY <1>1, HeadTailProperties, ElementOfSeq

\* Where one pair is open, none is behind it.
LEMMA OnlyOnePair ==
    ASSUME pending \in Seq(Pair), pending # <<>>, Len(pending) <= 1
    PROVE  \A k \in 1..Len(Tail(pending)) : FALSE
<1>1. Len(pending) \in Nat /\ Len(pending) # 0
    BY EmptySeq, LenProperties
<1>2. Len(Tail(pending)) = Len(pending) - 1
    BY HeadTailProperties
<1>3. Len(Tail(pending)) = 0
    BY <1>1, <1>2
<1>4. QED
    BY <1>3

\* A pair that opens goes behind the others.
LEMMA OpenKeepsPairs ==
    ASSUME pending \in Seq(Pair), NEW p \in Pair, Open(p)
    PROVE  /\ pending' \in Seq(Pair)
           /\ Len(pending') = Len(pending) + 1
           /\ Len(pending') <= PairsOpen
           /\ pending'[Len(pending')] = p
           /\ \A k \in 1..Len(pending') :
                 \/ pending'[k] = p
                 \/ k \in 1..Len(pending) /\ pending'[k] = pending[k]
<1>1. Len(pending) \in Nat
    BY LenProperties
<1>2. QED
    BY <1>1, AppendProperties, NumbersAssumption DEF Open

\* A read gives a good list, a read that throws an empty one.
LEMMA ReadIsGood ==
    ASSUME GoodInv, NEW seen, Read(seen)
    PROVE  Good(seen)
BY EmptyIsGood DEF Read, GoodInv

\* The server's rows stay answers to items, whatever it is sent.
LEMMA LogType ==
    ASSUME TypeOK, NEW batch \in SUBSET Entry
    PROVE  LogAfter(batch) \in [Items -> Nat]
<1>1. ASSUME NEW i \in Items, i \in ItemsOf(batch)
      PROVE  (CHOOSE h \in batch : h.item = i).n \in Nat
    <2>1. \E h \in batch : h.item = i
        BY <1>1 DEF ItemsOf
    <2>2. (CHOOSE h \in batch : h.item = i) \in batch
        BY <2>1
    <2>3. QED
        BY <2>2 DEF Entry
<1>2. QED
    BY <1>1 DEF LogAfter, TypeOK

\* An empty journal and no call at the start.
LEMMA TypeInit == Init => TypeOK /\ GoodInv
<1> SUFFICES ASSUME Init PROVE TypeOK /\ GoodInv
    OBVIOUS
<1>1. Len(pending) = 0 /\ pending \in Seq(Pair)
    BY EmptySeq DEF Init
<1>2. TypeOK
    BY <1>1, NumbersAssumption DEF Init, TypeOK, Quiet
<1>3. QED
    BY <1>1, <1>2, EmptyIsGood DEF Init, GoodInv

Calls == [phase : {"idle", "sending", "answered"}, sent : SUBSET Entry,
          reply : Replies \cup {"none"}]

\* Every step keeps the types and leaves each list good.
LEMMA TypeStep == TypeOK /\ GoodInv /\ [Next]_vars => (TypeOK /\ GoodInv)'
<1> SUFFICES ASSUME TypeOK, GoodInv, [Next]_vars
             PROVE  TypeOK' /\ GoodInv'
    OBVIOUS
<1> USE DEF server
<1>0. /\ pending \in Seq(Pair) /\ Len(pending) \in Nat
      /\ journal \in SUBSET Entry /\ storeFaults \in Nat /\ faults \in Nat
      /\ \A f \in Flushers : flusher[f] \in Calls
    BY LenProperties DEF TypeOK, Calls
<1>1. ASSUME NEW i \in Items, Record(i) PROVE TypeOK' /\ GoodInv'
    <2>1. PICK seen \in {journal, {}} :
             /\ Read(seen)
             /\ Open([call |-> "record", seen |-> seen,
                      new |-> [item |-> i, n |-> said + 1]])
        BY <1>1 DEF Record
    <2> DEFINE p == [call |-> "record", seen |-> seen,
                     new |-> [item |-> i, n |-> said + 1]]
    <2>2. Good(seen)
        BY <2>1, ReadIsGood
    <2>3. p \in Pair /\ p.seen = seen
        BY <2>2 DEF Pair, Entry, Good, TypeOK
    <2> HIDE DEF p
    <2>4. /\ pending' \in Seq(Pair) /\ Len(pending') <= PairsOpen
          /\ \A k \in 1..Len(pending') :
                \/ pending'[k] = p
                \/ k \in 1..Len(pending) /\ pending'[k] = pending[k]
        BY <1>0, <2>1, <2>3, OpenKeepsPairs DEF p
    <2>5. storeFaults' \in Nat
        BY <1>0, <2>1 DEF Read
    <2>6. TypeOK'
        BY <1>1, <2>4, <2>5 DEF Record, TypeOK
    <2>7. GoodInv'
        BY <1>1, <2>2, <2>3, <2>4 DEF Record, GoodInv
    <2>8. QED
        BY <2>6, <2>7
<1>2. ASSUME RecordWrite PROVE TypeOK' /\ GoodInv'
    <2> DEFINE pair == Head(pending)
               after == JournalWith(pair.seen, pair.new)
    <2>1. /\ pair = pending[1] /\ 1 \in 1..Len(pending) /\ pair \in Pair
          /\ Tail(pending) \in Seq(Pair)
          /\ Len(Tail(pending)) = Len(pending) - 1
          /\ \A k \in 1..Len(Tail(pending)) :
                k + 1 \in 1..Len(pending) /\ Tail(pending)[k] = pending[k + 1]
        BY <1>0, <1>2, HeadOfPairs DEF RecordWrite
    <2>2. /\ pair.call = "record" /\ pair.new \in Entry
          /\ Write(after)
          /\ kept' = [kept EXCEPT ![pair.new.item] = pair.new.n]
          /\ dropped' = dropped \cup
                {h \in pair.seen \ after : h.item # pair.new.item}
          /\ pending' = Tail(pending)
        BY <1>2, <2>1 DEF RecordWrite, Pair
    <2>3. Good(pair.seen)
        BY <2>1 DEF GoodInv
    <2>4. Good(after)
        BY <2>2, <2>3, WithIsGood
    <2> HIDE DEF pair, after
    <2>5. Good(journal') /\ storeFaults' \in Nat
        BY <1>0, <2>2, <2>4 DEF Write, GoodInv
    <2>6. dropped' \in SUBSET Entry /\ kept' \in [Items -> Nat]
        BY <2>2, <2>3 DEF TypeOK, Good, Entry
    <2>7. pending' \in Seq(Pair) /\ Len(pending') <= PairsOpen
        BY <1>0, <2>1, <2>2, NumbersAssumption DEF TypeOK
    <2>8. TypeOK'
        BY <1>2, <2>5, <2>6, <2>7 DEF RecordWrite, TypeOK, Good
    <2>9. GoodInv'
        BY <2>1, <2>2, <2>5 DEF GoodInv
    <2>10. QED
        BY <2>8, <2>9
<1>3. ASSUME FlushWrite PROVE TypeOK' /\ GoodInv'
    <2> DEFINE pair == Head(pending)
               after == JournalAfter(pair.sent, pair.seen, pair.reply)
    <2>1. /\ pair = pending[1] /\ 1 \in 1..Len(pending) /\ pair \in Pair
          /\ Tail(pending) \in Seq(Pair)
          /\ Len(Tail(pending)) = Len(pending) - 1
          /\ \A k \in 1..Len(Tail(pending)) :
                k + 1 \in 1..Len(pending) /\ Tail(pending)[k] = pending[k + 1]
        BY <1>0, <1>3, HeadOfPairs DEF FlushWrite
    <2>2. /\ Write(after)
          /\ dropped' \in {dropped, dropped \cup (pair.seen \ after)}
          /\ pending' = Tail(pending)
        BY <1>3 DEF FlushWrite
    <2>3. Good(pair.seen)
        BY <2>1 DEF GoodInv
    <2>4. Good(after)
        BY <2>3, AfterIsSmaller, SmallerIsGood
    <2> HIDE DEF pair, after
    <2>5. Good(journal') /\ storeFaults' \in Nat
        BY <1>0, <2>2, <2>4 DEF Write, GoodInv
    <2>6. dropped' \in SUBSET Entry
        BY <2>2, <2>3 DEF TypeOK, Good
    <2>7. pending' \in Seq(Pair) /\ Len(pending') <= PairsOpen
        BY <1>0, <2>1, <2>2, NumbersAssumption DEF TypeOK
    <2>8. TypeOK'
        BY <1>3, <2>5, <2>6, <2>7 DEF FlushWrite, TypeOK, Good
    <2>9. GoodInv'
        BY <2>1, <2>2, <2>5 DEF GoodInv
    <2>10. QED
        BY <2>8, <2>9
<1>4. ASSUME NEW f \in Flushers, Flush(f) PROVE TypeOK' /\ GoodInv'
    BY <1>4 DEF Flush, TypeOK, GoodInv, Quiet
<1>5. ASSUME NEW f \in Flushers, Return(f) PROVE TypeOK' /\ GoodInv'
    <2>1. PICK seen \in {journal, {}} :
             /\ Read(seen)
             /\ Open([call |-> "flush", seen |-> seen,
                      sent |-> flusher[f].sent, reply |-> flusher[f].reply])
        BY <1>5 DEF Return
    <2> DEFINE p == [call |-> "flush", seen |-> seen,
                     sent |-> flusher[f].sent, reply |-> flusher[f].reply]
    <2>2. Good(seen)
        BY <2>1, ReadIsGood
    <2>3. p \in Pair /\ p.seen = seen
        BY <1>5, <2>2 DEF Pair, Good, TypeOK, Return
    <2> HIDE DEF p
    <2>4. /\ pending' \in Seq(Pair) /\ Len(pending') <= PairsOpen
          /\ \A k \in 1..Len(pending') :
                \/ pending'[k] = p
                \/ k \in 1..Len(pending) /\ pending'[k] = pending[k]
        BY <1>0, <2>1, <2>3, OpenKeepsPairs DEF p
    <2>5. storeFaults' \in Nat
        BY <1>0, <2>1 DEF Read
    <2>6. TypeOK'
        BY <1>5, <2>4, <2>5 DEF Return, TypeOK, Quiet
    <2>7. GoodInv'
        BY <1>5, <2>2, <2>3, <2>4 DEF Return, GoodInv
    <2>8. QED
        BY <2>6, <2>7
<1>6. ASSUME NEW f \in Flushers, Serve(f) PROVE TypeOK' /\ GoodInv'
    <2>1. log' \in [Items -> Nat]
        BY <1>6, LogType DEF Serve, TypeOK
    <2> DEFINE q == [flusher[f] EXCEPT !.phase = "answered",
                                       !.reply = Answered(flusher[f].sent)]
    <2>2. Answered(flusher[f].sent) \in Replies
        BY DEF Answered, Replies
    <2>3. q \in Calls /\ q.reply \in Replies
        BY <1>0, <2>2 DEF Calls
    <2>4. flusher' = [flusher EXCEPT ![f] = q]
        BY <1>6 DEF Serve, TypeOK
    <2> HIDE DEF q
    <2>5. TypeOK'
        BY <1>6, <2>1, <2>3, <2>4 DEF Serve, TypeOK, Calls
    <2>6. GoodInv'
        BY <1>6 DEF Serve, GoodInv
    <2>7. QED
        BY <2>5, <2>6
<1>7. ASSUME NEW f \in Flushers,
             NEW reply \in {"rejected", "failed", "unreachable"},
             GoWrong(f, reply)
      PROVE  TypeOK' /\ GoodInv'
    <2> DEFINE q == [flusher[f] EXCEPT !.phase = "answered", !.reply = reply]
    <2>1. q \in Calls /\ q.reply \in Replies
        BY <1>0 DEF Calls, Replies
    <2>2. flusher' = [flusher EXCEPT ![f] = q]
        BY <1>7 DEF GoWrong, TypeOK
    <2>3. late' \in SUBSET SUBSET Entry
        BY <1>7 DEF GoWrong, TypeOK
    <2> HIDE DEF q
    <2>4. faults' \in Nat
        BY <1>0, <1>7 DEF GoWrong
    <2>5. TypeOK'
        BY <1>7, <2>1, <2>2, <2>3, <2>4 DEF GoWrong, TypeOK, Calls
    <2>6. GoodInv'
        BY <1>7 DEF GoWrong, GoodInv
    <2>7. QED
        BY <2>5, <2>6
<1>8. ASSUME NEW batch \in late, ServeLate(batch) PROVE TypeOK' /\ GoodInv'
    <2>1. log' \in [Items -> Nat]
        BY <1>8, LogType DEF ServeLate, TypeOK
    <2>2. QED
        BY <1>8, <2>1 DEF ServeLate, TypeOK, GoodInv
<1>9. ASSUME NEW k \in Packs, LosePack(k) PROVE TypeOK' /\ GoodInv'
    BY <1>9 DEF LosePack, TypeOK, GoodInv
<1>10. ASSUME Restart PROVE TypeOK' /\ GoodInv'
    <2>1. Len(pending') = 0 /\ pending' \in Seq(Pair)
        BY <1>10, EmptySeq DEF Restart
    <2>2. TypeOK'
        BY <1>10, <2>1, NumbersAssumption DEF Restart, TypeOK, Quiet
    <2>3. QED
        BY <1>10, <2>1, <2>2 DEF Restart, GoodInv
<1>11. ASSUME UNCHANGED vars PROVE TypeOK' /\ GoodInv'
    BY <1>11 DEF vars, TypeOK, GoodInv
<1>12. QED
    BY <1>1, <1>2, <1>3, <1>4, <1>5, <1>6, <1>7, <1>8, <1>9, <1>10, <1>11
       DEF Next

\* Every reachable state has the types of TypeOK, for any constants.
THEOREM SyncTypeCorrect == Spec => []TypeOK
<1>1. Spec => [](TypeOK /\ GoodInv)
    BY TypeInit, TypeStep, PTL DEF Spec
<1>2. QED
    BY <1>1, PTL

\* The journal can be sent in every reachable state: one answer per item and
\* no more than a batch holds, for any limit that is at most the server's, any
\* number of overlapping calls, and a store and a network that fail anyhow.
THEOREM JournalAlwaysSendable == Spec => []JournalSendable
<1>1. Spec => [](TypeOK /\ GoodInv)
    BY TypeInit, TypeStep, PTL DEF Spec
<1>2. GoodInv => JournalSendable
    BY GoodIsSendable DEF GoodInv, JournalSendable
<1>3. QED
    BY <1>1, <1>2, PTL

-----------------------------------------------------------------------------
(* No answer is lost over a store whose calls neither throw nor overtake   *)
(* one another.                                                            *)

LogHas(entries) == \A h \in entries : log[h.item] # 0

\* A pair's snapshot is the journal it will replace, what it will write on the
\* strength of a "done" is on record, and a new answer is newer than all.
KeptInv ==
    /\ \A h \in journal : h.n \in 1..said
    /\ \A k \in 1..Len(pending) :
          /\ pending[k].seen = journal
          /\ pending[k].call = "record" =>
                \A h \in journal : h.n < pending[k].new.n
          /\ pending[k].call = "record" => pending[k].new.n \in 1..said
          /\ (pending[k].call = "flush" /\ pending[k].reply = "done") =>
                LogHas(pending[k].sent)
    /\ \A f \in Flushers :
          /\ \A h \in flusher[f].sent : h.n # 0
          /\ (flusher[f].phase = "answered" /\ flusher[f].reply = "done") =>
                LogHas(flusher[f].sent)
    /\ AnswersSurvive

\* An answer newer than every other is among the newest.
LEMMA NewAnswerStays ==
    ASSUME NEW S \in SUBSET Entry, NEW new \in Entry,
           \A h \in S : h.n < new.n
    PROVE  /\ new \in JournalWith(S, new)
           /\ JournalWith(S, new) \in SUBSET (S \cup {new})
<1> DEFINE all == {h \in S : h.item # new.item} \cup {new}
<1>1. {g \in all : g.n >= new.n} = {new}
    BY DEF Entry
<1>2. Cardinality({new}) = 1
    BY FS_Singleton
<1>3. new \in Newest(all)
    BY <1>1, <1>2, NumbersAssumption DEF Newest
<1>4. QED
    BY <1>3 DEF JournalWith, Newest

\* The log forgets nothing, and has every item of a batch it took.
LEMMA LogGrows ==
    ASSUME TypeOK, NEW batch \in SUBSET Entry, log' = LogAfter(batch)
    PROVE  /\ \A i \in Items : log[i] # 0 => log'[i] # 0
           /\ (Answered(batch) = "done" /\ \A h \in batch : h.n # 0) =>
                 \A h \in batch : log'[h.item] # 0
<1>1. \A i \in Items : log[i] # 0 => log'[i] # 0
    BY DEF LogAfter, TypeOK
<1>2. ASSUME Answered(batch) = "done", \A h \in batch : h.n # 0,
             NEW g \in batch
      PROVE  log'[g.item] # 0
    <2>1. g.item \in Items /\ g.item \in ItemsOf(batch)
        BY DEF Entry, ItemsOf
    <2>2. (CHOOSE h \in batch : h.item = g.item) \in batch
        OBVIOUS
    <2>3. QED
        BY <1>2, <2>1, <2>2 DEF LogAfter
<1>3. QED
    BY <1>1, <1>2

\* What a flush about to write has on record stays there.
LEMMA SentGrows ==
    ASSUME TypeOK, KeptInv, \A i \in Items : log[i] # 0 => log'[i] # 0,
           NEW k \in 1..Len(pending), pending[k].call = "flush",
           pending[k].reply = "done"
    PROVE  \A h \in pending[k].sent : log'[h.item] # 0
<1>1. pending[k] \in Pair
    BY ElementOfSeq DEF TypeOK
<1>2. pending[k].sent \in SUBSET Entry
    BY <1>1 DEF Pair
<1>3. QED
    BY <1>2 DEF KeptInv, LogHas, Entry

\* While one pair is open at a time, every step keeps kept answers.
LEMMA KeptStep ==
    ASSUME PairsOpen = 1, storeFaults' = 0,
           TypeOK, GoodInv, KeptInv, [Next]_vars
    PROVE  KeptInv'
<1> USE DEF server
<1>0. /\ pending \in Seq(Pair) /\ Len(pending) \in Nat /\ Len(pending) <= 1
      /\ journal \in SUBSET Entry /\ said \in Nat
      /\ storeFaults \in Nat /\ storeFaults' # storeFaults + 1
    BY LenProperties DEF TypeOK
<1>1. ASSUME NEW i \in Items, Record(i) PROVE KeptInv'
    <2> DEFINE p == [call |-> "record", seen |-> journal,
                     new |-> [item |-> i, n |-> said + 1]]
    <2>1. Open(p)
        BY <1>0, <1>1 DEF Record, Read
    <2>2. p \in Pair
        BY <1>0 DEF Pair, Entry
    <2>3. Len(pending) = 0
        BY <1>0, <2>1 DEF Open
    <2>4. \A k \in 1..Len(pending') : pending'[k] = p
        BY <1>0, <2>1, <2>2, <2>3, OpenKeepsPairs
    <2>5. \A h \in journal : h.n \in 1..said' /\ h.n < said + 1
        BY <1>0, <1>1 DEF KeptInv, Record
    <2>6. said + 1 \in 1..said'
        BY <1>0, <1>1 DEF Record
    <2>7. AnswersSurvive'
        BY <1>1 DEF Record, KeptInv, AnswersSurvive
    <2>8. QED
        BY <1>1, <2>4, <2>5, <2>6, <2>7 DEF Record, KeptInv, LogHas
<1>2. ASSUME RecordWrite PROVE KeptInv'
    <2> DEFINE pair == Head(pending)
               after == JournalWith(pair.seen, pair.new)
    <2>1. /\ pair = pending[1] /\ 1 \in 1..Len(pending) /\ pair \in Pair
          /\ Len(Tail(pending)) = Len(pending) - 1
        BY <1>0, <1>2, HeadOfPairs DEF RecordWrite
    <2>2. /\ pair.call = "record" /\ pair.new \in Entry
          /\ journal' = after
          /\ kept' = [kept EXCEPT ![pair.new.item] = pair.new.n]
          /\ dropped' = dropped \cup
                {h \in pair.seen \ after : h.item # pair.new.item}
          /\ pending' = Tail(pending)
        BY <1>0, <1>2, <2>1 DEF RecordWrite, Pair, Write
    <2>3. /\ pair.seen = journal /\ pair.new.n \in 1..said
          /\ \A h \in journal : h.n < pair.new.n
        BY <2>1, <2>2 DEF KeptInv
    <2>4. \A k \in 1..Len(pending') : FALSE
        BY <1>0, <1>2, OnlyOnePair DEF RecordWrite
    <2>5. /\ pair.new \in after
          /\ after \in SUBSET (journal \cup {pair.new})
        BY <1>0, <2>2, <2>3, NewAnswerStays
    <2> HIDE DEF pair, after
    <2>6. \A h \in journal' : h.n \in 1..said'
        BY <1>2, <2>2, <2>3, <2>5 DEF KeptInv, RecordWrite
    <2>7. ASSUME NEW j \in Items, kept'[j] # 0
          PROVE  \/ [item |-> j, n |-> kept'[j]] \in journal' \cup dropped'
                 \/ log'[j] # 0
        <3>1. CASE j = pair.new.item
            <4>1. kept'[j] = pair.new.n
                BY <2>2, <3>1 DEF TypeOK
            <4>2. [item |-> j, n |-> kept'[j]] = pair.new
                BY <2>2, <3>1, <4>1 DEF Entry
            <4>3. QED
                BY <2>2, <2>5, <4>2
        <3>2. CASE j # pair.new.item
            <4>1. kept'[j] = kept[j]
                BY <2>2, <3>2 DEF TypeOK
            <4>2. \/ [item |-> j, n |-> kept[j]] \in journal \cup dropped
                  \/ log[j] # 0
                BY <2>7, <4>1 DEF KeptInv, AnswersSurvive
            <4>3. log' = log
                BY <1>2 DEF RecordWrite
            <4> DEFINE e == [item |-> j, n |-> kept[j]]
            <4>4. e.item = j
                OBVIOUS
            <4> HIDE DEF e
            <4>5. (e \in journal \cup dropped) => e \in journal' \cup dropped'
                BY <2>2, <2>3, <3>2, <4>4
            <4>6. QED
                BY <4>1, <4>2, <4>3, <4>5 DEF e
        <3>3. QED
            BY <3>1, <3>2
    <2>8. AnswersSurvive'
        BY <2>7 DEF AnswersSurvive
    <2>9. flusher' = flusher /\ log' = log
        BY <1>2 DEF RecordWrite
    <2>10. QED
        BY <2>4, <2>6, <2>8, <2>9 DEF KeptInv, LogHas
<1>3. ASSUME FlushWrite PROVE KeptInv'
    <2> DEFINE pair == Head(pending)
               after == JournalAfter(pair.sent, pair.seen, pair.reply)
    <2>1. /\ pair = pending[1] /\ 1 \in 1..Len(pending) /\ pair \in Pair
          /\ Len(Tail(pending)) = Len(pending) - 1
        BY <1>0, <1>3, HeadOfPairs DEF FlushWrite
    <2>2. /\ pair.call = "flush"
          /\ journal' = after
          /\ dropped' = IF pair.reply = "done" THEN dropped
                           ELSE dropped \cup (pair.seen \ after)
          /\ pending' = Tail(pending)
        BY <1>0, <1>3 DEF FlushWrite, Write
    <2>3. /\ pair.seen = journal
          /\ pair.reply = "done" => LogHas(pair.sent)
        BY <2>1, <2>2 DEF KeptInv
    <2>4. \A k \in 1..Len(pending') : FALSE
        BY <1>0, <1>3, OnlyOnePair DEF FlushWrite
    <2>5. after \in SUBSET journal
        BY <2>3, AfterIsSmaller
    <2>6. \A h \in journal \ after : \E g \in pair.sent : g.item = h.item
        BY <2>3 DEF JournalAfter, ItemsOf
    <2> HIDE DEF pair, after
    <2>7. ASSUME NEW j \in Items, kept'[j] # 0
          PROVE  \/ [item |-> j, n |-> kept'[j]] \in journal' \cup dropped'
                 \/ log'[j] # 0
        <3>1. kept' = kept /\ log' = log
            BY <1>3 DEF FlushWrite
        <3> DEFINE e == [item |-> j, n |-> kept[j]]
        <3>2. e.item = j
            OBVIOUS
        <3>3. e \in journal \cup dropped \/ log[j] # 0
            BY <2>7, <3>1 DEF KeptInv, AnswersSurvive
        <3> HIDE DEF e
        <3>4. CASE e \in journal \ after /\ pair.reply = "done"
            BY <2>3, <2>6, <3>1, <3>2, <3>4 DEF LogHas
        <3>5. CASE ~(e \in journal \ after /\ pair.reply = "done")
            BY <2>2, <2>3, <3>1, <3>3, <3>5 DEF e
        <3>6. QED
            BY <3>4, <3>5
    <2>8. AnswersSurvive'
        BY <2>7 DEF AnswersSurvive
    <2>9. \A h \in journal' : h.n \in 1..said'
        BY <1>3, <2>2, <2>5 DEF FlushWrite, KeptInv
    <2>10. flusher' = flusher /\ log' = log
        BY <1>3 DEF FlushWrite
    <2>11. QED
        BY <2>4, <2>8, <2>9, <2>10 DEF KeptInv, LogHas
<1>4. ASSUME NEW f \in Flushers, Flush(f) PROVE KeptInv'
    <2>1. \A h \in journal : h.n # 0
        BY <1>0 DEF KeptInv
    <2>2. AnswersSurvive'
        BY <1>4 DEF Flush, KeptInv, AnswersSurvive
    <2>3. QED
        BY <1>4, <2>1, <2>2 DEF Flush, KeptInv, LogHas, TypeOK, Quiet
<1>5. ASSUME NEW f \in Flushers, Return(f) PROVE KeptInv'
    <2> DEFINE p == [call |-> "flush", seen |-> journal,
                     sent |-> flusher[f].sent, reply |-> flusher[f].reply]
    <2>1. Open(p)
        BY <1>0, <1>5 DEF Return, Read
    <2>2. p \in Pair
        BY <1>0, <1>5 DEF Pair, TypeOK, Return
    <2>3. Len(pending) = 0
        BY <1>0, <2>1 DEF Open
    <2>4. \A k \in 1..Len(pending') : pending'[k] = p
        BY <1>0, <2>1, <2>2, <2>3, OpenKeepsPairs
    <2>5. p.reply = "done" => LogHas(p.sent)
        BY <1>5 DEF Return, KeptInv
    <2>6. AnswersSurvive'
        BY <1>5 DEF Return, KeptInv, AnswersSurvive
    <2>7. QED
        BY <1>5, <2>4, <2>5, <2>6 DEF Return, KeptInv, LogHas, TypeOK, Quiet
<1>6. ASSUME NEW f \in Flushers, Serve(f) PROVE KeptInv'
    <2> DEFINE sent == flusher[f].sent
    <2>1. sent \in SUBSET Entry /\ log' = LogAfter(sent)
        BY <1>6 DEF Serve, TypeOK
    <2>2. \A h \in sent : h.n # 0
        BY DEF KeptInv
    <2>3. \A i \in Items : log[i] # 0 => log'[i] # 0
        BY <2>1, LogGrows
    <2>4. Answered(sent) = "done" => \A h \in sent : log'[h.item] # 0
        BY <2>1, <2>2, LogGrows
    <2>5. AnswersSurvive'
        BY <1>6, <2>3 DEF Serve, KeptInv, AnswersSurvive
    <2>6. ASSUME NEW g \in Flushers
          PROVE  /\ \A h \in flusher'[g].sent : h.n # 0
                 /\ (flusher'[g].phase = "answered"
                       /\ flusher'[g].reply = "done") =>
                       \A h \in flusher'[g].sent : log'[h.item] # 0
        <3>1. CASE g = f
            BY <1>6, <2>2, <2>4, <3>1 DEF Serve, TypeOK
        <3>2. CASE g # f
            <4>1. flusher'[g] = flusher[g] /\ flusher[g].sent \in SUBSET Entry
                BY <1>6, <3>2 DEF Serve, TypeOK
            <4>2. QED
                BY <2>3, <4>1 DEF KeptInv, LogHas, Entry
        <3>3. QED
            BY <3>1, <3>2
    <2>7. QED
        BY <1>6, <2>3, <2>5, <2>6, SentGrows DEF Serve, KeptInv, LogHas
<1>7. ASSUME NEW f \in Flushers,
             NEW reply \in {"rejected", "failed", "unreachable"},
             GoWrong(f, reply)
      PROVE  KeptInv'
    <2>1. AnswersSurvive'
        BY <1>7 DEF GoWrong, KeptInv, AnswersSurvive
    <2>2. QED
        BY <1>7, <2>1 DEF GoWrong, KeptInv, LogHas, TypeOK
<1>8. ASSUME NEW batch \in late, ServeLate(batch) PROVE KeptInv'
    <2>1. batch \in SUBSET Entry /\ log' = LogAfter(batch)
        BY <1>8 DEF ServeLate, TypeOK
    <2>2. \A i \in Items : log[i] # 0 => log'[i] # 0
        BY <2>1, LogGrows
    <2>3. AnswersSurvive'
        BY <1>8, <2>2 DEF ServeLate, KeptInv, AnswersSurvive
    <2>4. \A g \in Flushers : flusher[g].sent \in SUBSET Entry
        BY DEF TypeOK
    <2>5. QED
        BY <1>8, <2>2, <2>3, <2>4, SentGrows
           DEF ServeLate, KeptInv, LogHas, Entry
<1>9. ASSUME NEW k \in Packs, LosePack(k) PROVE KeptInv'
    BY <1>9 DEF LosePack, KeptInv, AnswersSurvive, LogHas
<1>10. ASSUME Restart PROVE KeptInv'
    <2>1. Len(pending') = 0
        BY <1>10, EmptySeq DEF Restart
    <2>2. AnswersSurvive'
        BY <1>10 DEF Restart, KeptInv, AnswersSurvive
    <2>3. QED
        BY <1>10, <2>1, <2>2 DEF Restart, KeptInv, LogHas, Quiet
<1>11. ASSUME UNCHANGED vars PROVE KeptInv'
    BY <1>11 DEF vars, KeptInv, AnswersSurvive, LogHas
<1>12. QED
    BY <1>1, <1>2, <1>3, <1>4, <1>5, <1>6, <1>7, <1>8, <1>9, <1>10, <1>11
       DEF Next

\* The number of throws never shrinks.
LEMMA FaultsGrow ==
    ASSUME TypeOK, [Next]_vars, storeFaults' = 0
    PROVE  storeFaults = 0
<1> USE DEF server
<1>1. storeFaults \in Nat
    BY DEF TypeOK
<1>2. storeFaults' = storeFaults \/ storeFaults' = storeFaults + 1
    BY DEF Next, vars, Record, RecordWrite, FlushWrite, Flush, Serve, Return,
           GoWrong, ServeLate, LosePack, Restart, Read, Write
<1>3. QED
    BY <1>1, <1>2

\* While no call of the store has thrown, an answer whose record has returned
\* is in the journal until the server has an answer to its item or it is let
\* go of on purpose, however requests fail, arrive late or are cut off by a
\* restart, for any number of flushes in flight over a store whose calls do
\* not overtake one another.
THEOREM AnswersAreKept ==
    ASSUME PairsOpen = 1
    PROVE  Spec => []KeptAnswersSurvive
<1> DEFINE Inv == storeFaults = 0 => KeptInv
<1>1. Init => Inv
    BY EmptySeq DEF Init, KeptInv, AnswersSurvive, LogHas, Quiet
<1>2. TypeOK /\ GoodInv /\ Inv /\ [Next]_vars => Inv'
    BY KeptStep, FaultsGrow
<1>3. Inv => KeptAnswersSurvive
    BY DEF KeptInv, KeptAnswersSurvive
<1> HIDE DEF Inv
<1>4. Spec => [](TypeOK /\ GoodInv /\ Inv)
    BY <1>1, <1>2, TypeInit, TypeStep, PTL DEF Spec
<1>5. QED
    BY <1>3, <1>4, PTL

-----------------------------------------------------------------------------
(***************************************************************************)
(* Session, for any credentials and any number of failed trades.  Types    *)
(* hold whatever people do.  That the store and memory agree, and that a   *)
(* credential is only given up where it is dead, are proved of people who  *)
(* wait for a trade before they sign in or out: of others they are false.  *)
(***************************************************************************)

\* What the assumption on the constants says, for the provers.
LEMMA Assumed ==
  /\ None \notin Creds
  /\ None \notin {"fresh", "spent", "ok", "refused", "failed"}
  /\ MaxTrouble \in Nat
  BY ConstantsAssumption

\* The initial state has the types.
LEMMA InitTypes == SessionInit => SessionTypeOK
<1> SUFFICES ASSUME SessionInit PROVE SessionTypeOK
  OBVIOUS
<1>1. held = Nobody /\ trouble = 0 /\ disk \in {None} \cup Creds
  BY DEF SessionInit
<1>2. trades \in [Kinds -> [cred : Creds \cup {None},
                            reply : {None, "ok", "refused", "failed"}]]
  BY DEF SessionInit, NoTrade
<1>3. \A k \in Kinds : trades[k].cred = None => trades[k].reply = None
  BY DEF SessionInit, NoTrade
<1>4. alive \in SUBSET Creds /\ issued \in SUBSET Creds
  BY DEF SessionInit
<1> QED BY <1>1, <1>2, <1>3, <1>4 DEF SessionTypeOK

\* Every step keeps the types.
LEMMA StepTypes == SessionTypeOK /\ [SessionNext]_sessionVars => SessionTypeOK'
<1> SUFFICES ASSUME SessionTypeOK, [SessionNext]_sessionVars PROVE SessionTypeOK'
  OBVIOUS
<1> USE Assumed
<1>1. CASE UNCHANGED sessionVars
  BY <1>1 DEF SessionTypeOK, sessionVars
<1>2. CASE \E c \in Creds : SignIn(c)
  BY <1>2 DEF SessionTypeOK, SignIn, HoldAndRemember, Fresh, Nobody
<1>3. CASE \E c \in Creds : Revoke(c)
  BY <1>3 DEF SessionTypeOK, Revoke
<1>4. CASE SignOut
  BY <1>4 DEF SessionTypeOK, SignOut, HoldAndRemember, provider
<1>5. CASE Spend
  <2>1. held \in [cred : Creds, token : {"fresh", "spent"}]
    BY <1>5 DEF SessionTypeOK, Spend, Nobody
  <2> QED BY <1>5, <2>1 DEF SessionTypeOK, Spend, provider
<1>6. CASE RenewIfSpent
  <2>1. held.cred \in Creds
    BY <1>6 DEF SessionTypeOK, RenewIfSpent, Nobody
  <2>2. trades' = [trades EXCEPT !["renewal"] =
                      [cred |-> held.cred, reply |-> None]]
    BY <1>6 DEF RenewIfSpent
  <2>3. UNCHANGED <<held, disk, alive, issued, trouble>>
    BY <1>6 DEF RenewIfSpent, provider
  <2> QED BY <2>1, <2>2, <2>3 DEF SessionTypeOK, Kinds
<1>7. CASE \E k \in Kinds : ServeTrade(k)
  <2> PICK k \in Kinds : ServeTrade(k)
    BY <1>7
  <2>1. trades[k].cred # None
    BY DEF ServeTrade, SessionTypeOK, NoTrade
  <2> QED BY <2>1 DEF SessionTypeOK, ServeTrade, provider
<1>8. CASE \E k \in Kinds : TradeGoesWrong(k)
  <2> PICK k \in Kinds : TradeGoesWrong(k)
    BY <1>8
  <2>1. trades[k].cred # None
    BY DEF TradeGoesWrong, SessionTypeOK, NoTrade
  <2>2. PICK reply \in {"failed", "refused"} :
           trades' = [trades EXCEPT ![k].reply = reply]
    BY DEF TradeGoesWrong
  <2>3. UNCHANGED <<held, disk, alive, issued>> /\ trouble' \in Nat
    BY DEF TradeGoesWrong, SessionTypeOK, provider
  <2> QED BY <2>1, <2>2, <2>3 DEF SessionTypeOK
<1>9. CASE \E k \in Kinds : Receive(k)
  <2> PICK k \in Kinds : Receive(k)
    BY <1>9
  <2>1. trades' = [trades EXCEPT ![k] = NoTrade]
        /\ UNCHANGED <<alive, issued, trouble>>
    BY DEF Receive, End, provider
  <2>2. trades[k].cred \in Creds
    <3>1. trades[k].cred # None
      BY DEF Receive, SessionTypeOK
    <3> QED BY <3>1 DEF SessionTypeOK
  <2>3. /\ held' \in {held, Fresh(trades[k].cred), Nobody}
        /\ disk' \in {disk, None}
    BY DEF Receive, HoldAndRemember
  <2> QED BY <2>1, <2>2, <2>3 DEF SessionTypeOK, Fresh, Nobody, NoTrade
<1>10. CASE Relaunch
  <2>1. trades' \in [Kinds -> [cred : Creds \cup {None},
                               reply : {None, "ok", "refused", "failed"}]]
    BY <1>10 DEF Relaunch, SessionTypeOK, NoTrade
  <2>2. \A k \in Kinds : trades'[k].cred = None => trades'[k].reply = None
    BY <1>10 DEF Relaunch, NoTrade
  <2> QED BY <1>10, <2>1, <2>2 DEF SessionTypeOK, Relaunch, provider
<1> QED
  BY <1>1, <1>2, <1>3, <1>4, <1>5, <1>6, <1>7, <1>8, <1>9, <1>10 DEF SessionNext

\* The session, the store, the trades and the provider have their types,
\* whoever interrupts whom (RootScaffold's fields).
THEOREM SessionTypeCorrect == SessionSpec => []SessionTypeOK
  BY InitTypes, StepTypes, PTL DEF SessionSpec

-----------------------------------------------------------------------------
(* People who wait.                                                        *)

\* A trade that is out is about the credential on disk.
TradesAreOfTheStored ==
    \A k \in Kinds : trades[k].cred # None => trades[k].cred = disk

\* What has been refused is dead, and stays so: a credential is handed out
\* once.
RefusedIsDead ==
    /\ alive \subseteq issued
    /\ \A k \in Kinds :
          /\ trades[k].cred # None => trades[k].cred \in issued
          /\ trades[k].reply = "refused" => trades[k].cred \notin alive
    /\ held # Nobody => held.cred \in issued
    /\ disk # None => disk \in issued

\* The launch's trade is over before there is a session to renew.
LaunchComesFirst ==
    trades["launch"] # NoTrade =>
        held = Nobody /\ trades["renewal"] = NoTrade

Inv ==
    /\ SessionTypeOK
    /\ StoreAndMemoryAgree
    /\ TradesAreOfTheStored
    /\ RefusedIsDead
    /\ LaunchComesFirst

\* The app starts without a session, whatever is on disk.
LEMMA InitInv == SessionInit => Inv
<1> SUFFICES ASSUME SessionInit PROVE Inv
  OBVIOUS
<1>1. SessionTypeOK
  BY InitTypes
<1>2. StoreAndMemoryAgree
  BY DEF SessionInit, StoreAndMemoryAgree
<1>3. TradesAreOfTheStored
  BY DEF SessionInit, TradesAreOfTheStored, NoTrade
<1>4. RefusedIsDead
  BY Assumed DEF SessionInit, RefusedIsDead, NoTrade
<1>5. LaunchComesFirst
  BY DEF SessionInit, LaunchComesFirst, Kinds
<1> QED BY <1>1, <1>2, <1>3, <1>4, <1>5 DEF Inv

\* Nobody acts while a trade is out.
LEMMA NoTradeIsOut ==
  ASSUME Patient = TRUE, SessionTypeOK, MayAct
  PROVE  \A k \in Kinds : trades[k] = NoTrade
  BY DEF MayAct, Waiting

\* Every step of patient people keeps the invariant.
LEMMA StepInv ==
  ASSUME Patient = TRUE, Throttles = FALSE
  PROVE  Inv /\ [SessionNext]_sessionVars => Inv'
<1> SUFFICES ASSUME Inv, [SessionNext]_sessionVars PROVE Inv'
  OBVIOUS
<1> USE Assumed
<1>0. SessionTypeOK /\ SessionTypeOK'
  BY StepTypes DEF Inv
<1>1. CASE UNCHANGED sessionVars
  BY <1>0, <1>1 DEF Inv, sessionVars, StoreAndMemoryAgree, TradesAreOfTheStored,
                    RefusedIsDead, LaunchComesFirst, Kinds
<1>2. CASE \E c \in Creds : SignIn(c)
  <2> PICK c \in Creds : SignIn(c)
    BY <1>2
  <2>1. \A k \in Kinds : trades[k] = NoTrade
    BY <1>0, NoTradeIsOut DEF SignIn
  <2>2. held' = Fresh(c) /\ disk' = c /\ trades' = trades
        /\ issued' = issued \cup {c} /\ alive' = alive \cup {c}
    BY DEF SignIn, HoldAndRemember
  <2> QED BY <1>0, <2>1, <2>2 DEF Inv, StoreAndMemoryAgree, Fresh, NoTrade,
                                  TradesAreOfTheStored, RefusedIsDead, LaunchComesFirst, Kinds
<1>3. CASE \E c \in Creds : Revoke(c)
  BY <1>0, <1>3 DEF Revoke, Inv, StoreAndMemoryAgree, TradesAreOfTheStored,
                    RefusedIsDead, LaunchComesFirst, Kinds
<1>4. CASE SignOut
  <2>1. \A k \in Kinds : trades[k] = NoTrade
    BY <1>0, <1>4, NoTradeIsOut DEF SignOut
  <2>2. held' = Nobody /\ disk' = None /\ trades' = trades
        /\ UNCHANGED <<alive, issued>>
    BY <1>4 DEF SignOut, HoldAndRemember, provider
  <2> QED BY <1>0, <2>1, <2>2 DEF Inv, StoreAndMemoryAgree, NoTrade,
                                  TradesAreOfTheStored, RefusedIsDead, LaunchComesFirst, Kinds
<1>5. CASE Spend
  <2>1. held # Nobody /\ held' # Nobody /\ held'.cred = held.cred
    BY <1>0, <1>5 DEF Spend, SessionTypeOK, Nobody
  <2>2. UNCHANGED <<disk, trades, alive, issued>>
    BY <1>5 DEF Spend, provider
  <2> QED BY <1>0, <2>1, <2>2 DEF Inv, StoreAndMemoryAgree,
                                  TradesAreOfTheStored, RefusedIsDead, LaunchComesFirst, Kinds
<1>6. CASE RenewIfSpent
  <2>1. held # Nobody /\ held.cred \in Creds
    BY <1>0, <1>6 DEF RenewIfSpent, SessionTypeOK, Nobody
  <2>2. trades' = [trades EXCEPT !["renewal"] =
                      [cred |-> held.cred, reply |-> None]]
    BY <1>6 DEF RenewIfSpent
  <2>3. UNCHANGED <<held, disk, alive, issued>>
    BY <1>6 DEF RenewIfSpent, provider
  <2> QED BY <1>0, <2>1, <2>2, <2>3 DEF Inv, StoreAndMemoryAgree, SessionTypeOK,
                                        TradesAreOfTheStored, RefusedIsDead, LaunchComesFirst, Kinds
<1>7. CASE \E k \in Kinds : ServeTrade(k)
  <2> PICK k \in Kinds : ServeTrade(k)
    BY <1>7
  <2>1. PICK reply \in {"ok", "refused"} :
           /\ trades' = [trades EXCEPT ![k].reply = reply]
           /\ reply = "refused" => trades[k].cred \notin alive
    BY DEF ServeTrade
  <2>2. UNCHANGED <<held, disk, alive, issued>>
    BY DEF ServeTrade, provider
  <2>3. trades[k] # NoTrade
    BY DEF ServeTrade
  <2>4. StoreAndMemoryAgree' /\ TradesAreOfTheStored' /\ RefusedIsDead'
    BY <1>0, <2>1, <2>2 DEF Inv, StoreAndMemoryAgree, SessionTypeOK,
                            TradesAreOfTheStored, RefusedIsDead
  <2>5. LaunchComesFirst'
    <3>1. CASE k = "launch"
      BY <1>0, <2>1, <2>2, <2>3, <3>1
         DEF Inv, LaunchComesFirst, SessionTypeOK, Kinds
    <3>2. CASE k = "renewal"
      BY <1>0, <2>1, <2>2, <2>3, <3>2
         DEF Inv, LaunchComesFirst, SessionTypeOK, Kinds
    <3> QED BY <3>1, <3>2 DEF Kinds
  <2> QED BY <1>0, <2>4, <2>5 DEF Inv
<1>8. CASE \E k \in Kinds : TradeGoesWrong(k)
  <2> PICK k \in Kinds : TradeGoesWrong(k)
    BY <1>8
  <2>1. trades' = [trades EXCEPT ![k].reply = "failed"]
    BY DEF TradeGoesWrong
  <2>2. UNCHANGED <<held, disk, alive, issued>>
    BY DEF TradeGoesWrong, provider
  <2>3. trades[k] # NoTrade
    BY DEF TradeGoesWrong
  <2>4. StoreAndMemoryAgree' /\ TradesAreOfTheStored' /\ RefusedIsDead'
    BY <1>0, <2>1, <2>2 DEF Inv, StoreAndMemoryAgree, SessionTypeOK,
                            TradesAreOfTheStored, RefusedIsDead
  <2>5. LaunchComesFirst'
    <3>1. CASE k = "launch"
      BY <1>0, <2>1, <2>2, <2>3, <3>1
         DEF Inv, LaunchComesFirst, SessionTypeOK, Kinds
    <3>2. CASE k = "renewal"
      BY <1>0, <2>1, <2>2, <2>3, <3>2
         DEF Inv, LaunchComesFirst, SessionTypeOK, Kinds
    <3> QED BY <3>1, <3>2 DEF Kinds
  <2> QED BY <1>0, <2>4, <2>5 DEF Inv
<1>9. CASE \E k \in Kinds : Receive(k)
  <2> PICK k \in Kinds : Receive(k)
    BY <1>9
  <2>1. trades' = [trades EXCEPT ![k] = NoTrade]
        /\ UNCHANGED <<alive, issued>>
    BY DEF Receive, End, provider
  <2>2. trades[k].cred # None /\ trades[k].cred = disk
    BY <1>0 DEF Receive, SessionTypeOK, Inv, TradesAreOfTheStored
  <2>3. \A j \in Kinds : trades'[j].cred # None => trades'[j].cred = disk
    BY <1>0, <2>1 DEF SessionTypeOK, Inv, TradesAreOfTheStored, NoTrade
  <2>4. \/ held' = Fresh(disk) /\ disk' = disk
        \/ held' = Nobody /\ disk' = None
        \/ UNCHANGED <<held, disk>>
    BY <2>2 DEF Receive, HoldAndRemember
  <2>5. StoreAndMemoryAgree' /\ RefusedIsDead'
    BY <1>0, <2>1, <2>2, <2>4 DEF Inv, StoreAndMemoryAgree, RefusedIsDead,
                                  Fresh, Nobody, NoTrade, SessionTypeOK
  <2>6. TradesAreOfTheStored'
    <3>1. CASE disk' = disk
      BY <2>3, <3>1 DEF TradesAreOfTheStored
    <3>2. CASE disk' = None
      <4>1. \A j \in Kinds \ {k} : trades[j] = NoTrade
        BY <1>0, <2>2 DEF Inv, LaunchComesFirst, Kinds, NoTrade
      <4> QED BY <1>0, <2>1, <4>1 DEF TradesAreOfTheStored, SessionTypeOK, NoTrade
    <3> QED BY <2>4, <3>1, <3>2
  <2>7. LaunchComesFirst'
    <3>1. CASE k = "launch"
      BY <1>0, <2>1, <3>1 DEF LaunchComesFirst, SessionTypeOK, Kinds
    <3>2. CASE k = "renewal"
      <4>1. trades["launch"] = NoTrade
        BY <2>2, <3>2 DEF Inv, LaunchComesFirst, NoTrade
      <4> QED BY <1>0, <2>1, <3>2, <4>1 DEF LaunchComesFirst, SessionTypeOK, Kinds
    <3> QED BY <3>1, <3>2 DEF Kinds
  <2> QED BY <1>0, <2>5, <2>6, <2>7 DEF Inv
<1>10. CASE Relaunch
  <2>1. held' = Nobody /\ UNCHANGED <<disk, alive, issued>>
    BY <1>10 DEF Relaunch, provider
  <2>2. \A k \in Kinds : trades'[k] = NoTrade
                         \/ trades'[k] = [cred |-> disk, reply |-> None]
    BY <1>10 DEF Relaunch
  <2>3. trades'["renewal"] = NoTrade
    BY <1>10 DEF Relaunch, Kinds
  <2>4. StoreAndMemoryAgree' /\ TradesAreOfTheStored' /\ LaunchComesFirst'
    BY <2>1, <2>2, <2>3 DEF StoreAndMemoryAgree, NoTrade, LaunchComesFirst,
                            TradesAreOfTheStored
  <2>5. RefusedIsDead'
    BY <2>1, <2>2 DEF Inv, RefusedIsDead, NoTrade
  <2> QED BY <1>0, <2>4, <2>5 DEF Inv
<1> QED
  BY <1>1, <1>2, <1>3, <1>4, <1>5, <1>6, <1>7, <1>8, <1>9, <1>10 DEF SessionNext

\* Over people who wait, what is held is what the next launch would restore
\* (RootScaffold: the store and memory "cannot drift apart").
THEOREM TheStoreAndMemoryAgree ==
  ASSUME Patient = TRUE, Throttles = FALSE
  PROVE  SessionSpec => []StoreAndMemoryAgree
<1>1. Inv => StoreAndMemoryAgree
  BY DEF Inv
<1> QED BY InitInv, StepInv, <1>1, PTL DEF SessionSpec

\* The step that takes a credential off the disk.
LEMMA StepKeeps ==
  ASSUME Inv, [SessionNext]_sessionVars
  PROVE  [disk # None /\ disk' = None => SignOut \/ disk \notin alive]_sessionVars
<1> SUFFICES ASSUME SessionNext, disk # None, disk' = None, ~SignOut
             PROVE  disk \notin alive
  OBVIOUS
<1>1. PICK k \in Kinds : Receive(k)
  BY Assumed DEF SessionNext, SignIn, Revoke, Spend, RenewIfSpent, ServeTrade, TradeGoesWrong,
                 Relaunch, HoldAndRemember, provider
<1>2. trades[k].reply = "refused"
  BY <1>1, Assumed DEF Receive, SessionRestore, Inv, SessionTypeOK
<1>3. trades[k].cred = disk
  BY <1>2, Assumed DEF Inv, SessionTypeOK, TradesAreOfTheStored
<1> QED BY <1>2, <1>3 DEF Inv, RefusedIsDead

\* Over people who wait and a provider that refuses only what it no longer
\* honours, no credential is given up that would still have signed its owner
\* in (SessionKept).
THEOREM CredentialsAreKept ==
  ASSUME Patient = TRUE, Throttles = FALSE
  PROVE  SessionSpec => KeptUnlessDisowned
  BY InitInv, StepInv, StepKeeps, PTL DEF SessionSpec, KeptUnlessDisowned

=============================================================================
