--------------------------------- MODULE Sync ---------------------------------
(***************************************************************************)
(* The device half of the offline loop (features/sync).  Answers go into a *)
(* journal on disk, AttemptSync.flush sends the whole of it, and what the  *)
(* server answers decides what stays.                                      *)
(*                                                                         *)
(* Inicio and Mapa build an AttemptSync each and call it without waiting,  *)
(* so any number of calls are suspended at an await at once, over one      *)
(* stored list that each reads whole and writes whole.  A read takes       *)
(* effect when it is called and its answer resumes the caller, in the      *)
(* order of the calls: the platform channel is first in, first out.  So    *)
(* the read-write pairs that are open form a queue, and write in the order *)
(* in which they read.                                                     *)
(*                                                                         *)
(* An answer is the number it has among the answers the player gave.  A    *)
(* pair's write is always later than its read, so a list's order is the    *)
(* order of these numbers and a set of them is a journal.  The server is   *)
(* reduced to AttemptLog: first answer to an item wins, whole batch or     *)
(* nothing.                                                                *)
(***************************************************************************)
EXTENDS Naturals, FiniteSets, Sequences

CONSTANTS
    Items,          \* the addresses readIssuedItemId recognises
    Packs,
    PackOf,
    Flushers,       \* calls of AttemptSync.flush that may be open at once
    JournalLimit,   \* journalLimit, 200 in the code
    BatchMax,       \* the server's ATTEMPTS_PER_BATCH_MAX, 200 in the code
    PairsOpen,      \* bound: read-write pairs open at once; 1 is a store whose
                    \* writes no other call's read comes before
    MaxAnswers,     \* bound: answers given
    MaxFaults,      \* bound: requests that go wrong, and restarts
    StoreFaults,    \* the calls shared_preferences may throw from
    MaxStoreFaults  \* bound: how often it does

VARIABLES
    journal,        \* the stored list: entries [item, n]
    said,           \* how many answers the player has given
    kept,           \* by item, the last answer whose record has returned
    dropped,        \* entries let go of on purpose: refused, or too old
    pending,        \* the open read-write pairs, the oldest first
    flusher,        \* the open flush calls, up to their second read
    log,            \* the server's rows: by item, the answer recorded, or 0
    gone,           \* packs the server does not hold for this player
    late,           \* batches on their way whose sender stopped listening
    faults,
    storeFaults

vars == <<journal, said, kept, dropped, pending, flusher, log, gone, late,
          faults, storeFaults>>
server == <<log, gone, late>>

ASSUME ItemsAssumption == IsFiniteSet(Items) /\ PackOf \in [Items -> Packs]
ASSUME NumbersAssumption ==
    /\ JournalLimit \in Nat \ {0} /\ BatchMax \in Nat
    /\ JournalLimit <= BatchMax
    /\ PairsOpen \in Nat \ {0}
    /\ MaxAnswers \in Nat /\ MaxFaults \in Nat /\ MaxStoreFaults \in Nat
    /\ StoreFaults \subseteq {"read", "write"}

Entry == [item : Items, n : Nat]
ItemsOf(entries) == {h.item : h \in entries}

Quiet == [phase |-> "idle", sent |-> {}, reply |-> "none"]
\* The six SyncResults, by name.
Replies == {"done", "malformed", "noSuchItem", "rejected", "failed",
            "unreachable"}

Init ==
    /\ journal = {}
    /\ said = 0
    /\ kept = [i \in Items |-> 0]
    /\ dropped = {}
    /\ pending = <<>>
    /\ flusher = [f \in Flushers |-> Quiet]
    /\ log = [i \in Items |-> 0]
    /\ gone = {}
    /\ late = {}
    /\ faults = 0
    /\ storeFaults = 0

-----------------------------------------------------------------------------
(* policy/attempt_journal.dart                                             *)

\* Mutant: no ceiling.
JournalUnbounded(entries, new) ==
    {h \in entries : h.item # new.item} \cup {new}

Newest(entries) ==
    {h \in entries : Cardinality({g \in entries : g.n >= h.n}) <= JournalLimit}

\* Same item, latest answer wins; at the ceiling the oldest go.
JournalWith(entries, new) ==
    Newest({h \in entries : h.item # new.item} \cup {new})

\* Mutants: the first snapshot reused instead of the re-read; a batch the
\* server does not know kept for another try.
JournalAfterReusing(sent, entries, reply) ==
    IF reply \in {"done", "malformed", "noSuchItem"}
      THEN {} ELSE sent
JournalAfterHoping(sent, entries, reply) ==
    IF reply = "done"
      THEN {h \in entries : h.item \notin ItemsOf(sent)} ELSE entries

\* What was sent goes, by its key, once the answer leaves no point in
\* resending it.
JournalAfter(sent, entries, reply) ==
    IF reply \in {"done", "malformed", "noSuchItem"}
      THEN {h \in entries : h.item \notin ItemsOf(sent)} ELSE entries

-----------------------------------------------------------------------------
(* The store.                                                              *)

\* PrefsAttemptJournalStore.read: an empty journal when the platform throws.
Read(seen) ==
    \/ seen = journal /\ UNCHANGED storeFaults
    \/ /\ "read" \in StoreFaults /\ storeFaults < MaxStoreFaults
       /\ seen = {} /\ storeFaults' = storeFaults + 1

\* PrefsAttemptJournalStore.write: nothing stored when the platform throws.
Write(entries) ==
    \/ journal' = entries /\ UNCHANGED storeFaults
    \/ /\ "write" \in StoreFaults /\ storeFaults < MaxStoreFaults
       /\ UNCHANGED journal /\ storeFaults' = storeFaults + 1

Open(pair) ==
    /\ Len(pending) < PairsOpen
    /\ pending' = Append(pending, pair)

-----------------------------------------------------------------------------
(* AttemptSync                                                             *)

\* record, up to its first await: the player has answered item i.
Record(i) ==
    /\ said < MaxAnswers
    /\ said' = said + 1
    /\ \E seen \in {journal, {}} :
          /\ Read(seen)
          /\ Open([call |-> "record", seen |-> seen,
                   new |-> [item |-> i, n |-> said + 1]])
    /\ UNCHANGED <<journal, kept, dropped, flusher, server, faults>>

\* record, from there to its end.
RecordWrite ==
    /\ pending # <<>>
    /\ Head(pending).call = "record"
    /\ LET pair == Head(pending)
           after == JournalWith(pair.seen, pair.new)
       IN  /\ Write(after)
           /\ kept' = [kept EXCEPT ![pair.new.item] = pair.new.n]
           /\ dropped' = dropped \cup
                 {h \in pair.seen \ after : h.item # pair.new.item}
    /\ pending' = Tail(pending)
    /\ UNCHANGED <<said, flusher, server, faults>>

\* flush, up to the request.
Flush(f) ==
    /\ flusher[f].phase = "idle"
    /\ journal # {}
    /\ flusher' = [flusher EXCEPT ![f] = [Quiet EXCEPT !.phase = "sending",
                                                       !.sent = journal]]
    /\ UNCHANGED <<journal, said, kept, dropped, pending, server, faults,
                   storeFaults>>

\* flush: the request has been answered, and the journal is read again.
Return(f) ==
    /\ flusher[f].phase = "answered"
    /\ flusher' = [flusher EXCEPT ![f] = Quiet]
    /\ \E seen \in {journal, {}} :
          /\ Read(seen)
          /\ Open([call |-> "flush", seen |-> seen,
                   sent |-> flusher[f].sent, reply |-> flusher[f].reply])
    /\ UNCHANGED <<journal, said, kept, dropped, server, faults>>

\* flush, from there to its end.
FlushWrite ==
    /\ pending # <<>>
    /\ Head(pending).call = "flush"
    /\ LET pair == Head(pending)
           after == JournalAfter(pair.sent, pair.seen, pair.reply)
       IN  /\ Write(after)
           /\ dropped' = IF pair.reply = "done" THEN dropped
                           ELSE dropped \cup (pair.seen \ after)
    /\ pending' = Tail(pending)
    /\ UNCHANGED <<said, kept, flusher, server, faults>>

-----------------------------------------------------------------------------
(* The other side of the socket.                                           *)

\* What POST /attempts answers, and the rows it leaves.
Answered(batch) ==
    IF \/ Cardinality(batch) > BatchMax
       \/ \E a, b \in batch : a # b /\ a.item = b.item
      THEN "malformed"
      ELSE IF \E h \in batch : PackOf[h.item] \in gone THEN "noSuchItem"
                                                       ELSE "done"

LogAfter(batch) ==
    [i \in Items |->
        IF log[i] = 0 /\ Answered(batch) = "done" /\ i \in ItemsOf(batch)
          THEN (CHOOSE h \in batch : h.item = i).n ELSE log[i]]

Serve(f) ==
    /\ flusher[f].phase = "sending"
    /\ log' = LogAfter(flusher[f].sent)
    /\ flusher' = [flusher EXCEPT ![f].phase = "answered",
                                  ![f].reply = Answered(flusher[f].sent)]
    /\ UNCHANGED <<journal, said, kept, dropped, pending, gone, late, faults,
                   storeFaults>>

\* The request goes wrong: a session refused, a server that failed, an answer
\* that never came or came unreadable.  It may have been served all the same,
\* before or after the device stopped listening.
GoWrong(f, reply) ==
    /\ faults < MaxFaults
    /\ faults' = faults + 1
    /\ \/ flusher[f].phase = "sending"
       \/ flusher[f].phase = "answered" /\ reply \in {"failed", "unreachable"}
    /\ flusher' = [flusher EXCEPT ![f].phase = "answered", ![f].reply = reply]
    /\ late' = IF flusher[f].phase = "sending" /\ reply = "unreachable"
                 THEN late \cup {flusher[f].sent} ELSE late
    /\ UNCHANGED <<journal, said, kept, dropped, pending, log, gone,
                   storeFaults>>

ServeLate(batch) ==
    /\ log' = LogAfter(batch)
    /\ late' = late \ {batch}
    /\ UNCHANGED <<journal, said, kept, dropped, pending, flusher, gone,
                   faults, storeFaults>>

\* The pack leaves the server, or the account whose pack it was has changed.
LosePack(k) ==
    /\ k \notin gone
    /\ gone' = gone \cup {k}
    /\ UNCHANGED <<journal, said, kept, dropped, pending, flusher, log, late,
                   faults, storeFaults>>

\* The app is killed: every open call with it, and not what is on the wire.
Restart ==
    /\ faults < MaxFaults
    /\ faults' = faults + 1
    /\ pending # <<>> \/ \E f \in Flushers : flusher[f] # Quiet
    /\ pending' = <<>>
    /\ flusher' = [f \in Flushers |-> Quiet]
    /\ late' = late \cup {flusher[f].sent :
                  f \in {g \in Flushers : flusher[g].phase = "sending"}}
    /\ UNCHANGED <<journal, said, kept, dropped, log, gone, storeFaults>>

Next ==
    \/ \E i \in Items : Record(i)
    \/ RecordWrite
    \/ FlushWrite
    \/ \E f \in Flushers :
          \/ Flush(f) \/ Serve(f) \/ Return(f)
          \/ \E reply \in {"rejected", "failed", "unreachable"} :
                GoWrong(f, reply)
    \/ \E batch \in late : ServeLate(batch)
    \/ \E k \in Packs : LosePack(k)
    \/ Restart

Spec == Init /\ [][Next]_vars

\* An await that can resume does; a request is answered or times out; and the
\* player comes back to the app with a session, which is what calls flush.
FairSpec ==
    /\ Spec
    /\ WF_vars(RecordWrite) /\ WF_vars(FlushWrite)
    /\ \A f \in Flushers :
          WF_vars(Flush(f)) /\ WF_vars(Serve(f)) /\ WF_vars(Return(f))

-----------------------------------------------------------------------------
(* Properties                                                              *)

Pair ==
    [call : {"record"}, seen : SUBSET Entry, new : Entry]
    \cup [call : {"flush"}, seen : SUBSET Entry, sent : SUBSET Entry,
          reply : Replies]

\* Every list holds answers to items of packs, and no flush goes on without an
\* answer it knows.
TypeOK ==
    /\ journal \in SUBSET Entry
    /\ said \in Nat
    /\ kept \in [Items -> Nat]
    /\ dropped \in SUBSET Entry
    /\ pending \in Seq(Pair)
    /\ Len(pending) <= PairsOpen
    /\ flusher \in [Flushers -> [phase : {"idle", "sending", "answered"},
                                 sent : SUBSET Entry,
                                 reply : Replies \cup {"none"}]]
    /\ \A f \in Flushers :
          flusher[f].phase = "answered" => flusher[f].reply \in Replies
    /\ log \in [Items -> Nat]
    /\ gone \in SUBSET Packs
    /\ late \in SUBSET SUBSET Entry
    /\ faults \in Nat
    /\ storeFaults \in Nat

Sendable(entries) ==
    /\ \A g, h \in entries : g.item = h.item => g = h
    /\ Cardinality(entries) <= BatchMax

\* Whatever is stored can be sent: one answer per item and no more of them than
\* a batch may have, however the calls overlapped, whichever store call threw
\* and whenever the app was killed.  A journal that broke this would be
\* answered 400, and dropped whole (journalLimit).
JournalSendable == Sendable(journal)

AnswersSurvive ==
    \A i \in Items :
        kept[i] # 0 =>
            \/ [item |-> i, n |-> kept[i]] \in journal \cup dropped
            \/ log[i] # 0

\* An answer whose record has returned is in the journal until the server has
\* an answer to that item, or it was let go of on purpose (flush's re-read:
\* "an answer given while the send was in flight survives it"); as long as no
\* call of the store has thrown.
KeptAnswersSurvive == storeFaults = 0 => AnswersSurvive

\* What flush writes back lets go of nothing but what it sent: "a player may
\* have answered another item while the request was in flight, and that entry
\* the server has never seen".
FlushLetsGoOfTheSent ==
    [][pending # <<>> /\ Head(pending).call = "flush" /\ pending' = Tail(pending)
          => \A h \in journal \ journal' :
                h.item \in ItemsOf(Head(pending).sent)]_vars

\* Nothing is resent for ever: once the player stops answering and requests
\* stop failing, the journal empties and stays empty, the entries an
\* overtaken write brought back included (journalAfter).
JournalDrains == <>[](journal = {})

\* What journalAfter says of a batch it drops: "the pack is gone or was never
\* theirs, and nothing will make it land".
OnlyTheHopelessAreDropped ==
    \A h \in dropped : PackOf[h.item] \in gone

=============================================================================
