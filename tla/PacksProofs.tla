------------------------------ MODULE PacksProofs ------------------------------
(***************************************************************************)
(* What holds of a pack from its build to its play.  First the issued pack *)
(* (Packs), for any number of accounts, packs, asks and shipments, when    *)
(* people start the app anew before they change the session (Settled);     *)
(* then every build of the content (Content).                              *)
(*                                                                         *)
(* The argument for Packs: what the home is busy with and what is recorded *)
(* move together, one ask at a time (InOrder, Latched), so whatever is     *)
(* recorded or in play was served to the account of the session, and stays *)
(* its own until it lapses or the account is erased (Mine).                *)
(***************************************************************************)
EXTENDS Packs, Content, SequenceTheorems, TLAPS

\* A request past its read of what is recorded.
Busy(c) == calls[c].what \in {"fetch", "issue"}

\* How far a request of either root may be: what the home reads or fetches is
\* what is recorded, and while it issues, nothing is until it has written.
Fine(c, r, recorded) ==
    /\ r.what = None => r = Quiet
    /\ r.what # None => r.account # None
    /\ r.what = "reading" => c \in Asks /\ r.pack = recorded /\ r.reply = None
    /\ r.what = "fetch" => r.pack # None /\ (c \in Asks => r.pack = recorded)
    /\ r.what = "issue" =>
          c \in Asks /\ r.reply # "gone" /\ (~r.written => recorded = None)
    /\ r.reply \in {"done", "gone"} => r.pack # None
    /\ r.written => r.what = "issue" /\ r.pack = recorded /\ r.reply = "done"

\* Every request is as far as what is recorded lets it be.
InOrder == \A c \in Calls : Fine(c, calls[c], disk)

\* The latch: of the home's requests one at a time is past its read.
Latched == \A c, d \in Asks : Busy(c) /\ Busy(d) => c = d

\* A row is some player's, of content shipped by now.
RowsOwned ==
    \A k \in PackIds : rows[k] # None =>
        rows[k].owner \in players /\ rows[k].content <= shipped

\* A pack the server serves a today.
Fetchable(k, a) ==
    rows[k] # None /\ rows[k].owner = a /\ rows[k].content = shipped

\* A pack that was a's: the row is, unless it lapsed or a was erased.
Held(k, a) ==
    IF rows[k] = None THEN k \in lapsed \/ a \notin players
    ELSE rows[k].owner = a

\* All that is in play or on its way is of one account.
Mine(a) ==
    /\ session \in {None, a}
    /\ \A c \in Calls :
          /\ calls[c].what # None => calls[c].account = a
          /\ calls[c].reply = "done" => Held(calls[c].pack, a)
          /\ calls[c].reply = "gone" => ~Fetchable(calls[c].pack, a)
    /\ \A k \in {home, map} \ {None} : Held(k, a)

\* The invariant.
PInv == /\ TypeOK /\ InOrder /\ Latched /\ RowsOwned /\ HomeIsRecorded
        /\ \E a \in Accounts \cup {None} : Mine(a)


-----------------------------------------------------------------------------
(* What an action makes of the calls: one of them moves on, the others stay *)
(* or, where the home writes, are dropped.                                  *)

\* A call, by its fields.
CallOf(what, account, pack, reply, written) ==
    [what |-> what, account |-> account, pack |-> pack, reply |-> reply,
     written |-> written]

\* One call moves on and the others stay.
Moved(c, what, account, pack, reply, written) ==
    /\ calls' \in [Calls -> CallStates]
    /\ calls'[c] = CallOf(what, account, pack, reply, written)
    /\ \A d \in Calls \ {c} :
          /\ calls'[d] \in {calls[d], Quiet}
          /\ disk' # disk /\ calls[d].what = "reading" => calls'[d] = Quiet

\* A call that is not under way.
LEMMA QuietIs == Quiet = CallOf(None, None, None, None, FALSE) /\ Quiet \in CallStates
  BY ConstantsAssumption DEF Quiet, CallOf, CallStates

\* The fields of a call; changing one leaves the others.
LEMMA CallFields ==
    \A w, a, k, y, z :
        /\ CallOf(w, a, k, y, z).what = w
        /\ CallOf(w, a, k, y, z).account = a
        /\ CallOf(w, a, k, y, z).pack = k
        /\ CallOf(w, a, k, y, z).reply = y
        /\ CallOf(w, a, k, y, z).written = z
  BY DEF CallOf

\* What the types say of the fields.
LEMMA CallStatesAre ==
    \A w, a, k, y, z :
        CallOf(w, a, k, y, z) \in CallStates <=>
            /\ w \in {None, "reading", "fetch", "issue"}
            /\ a \in Accounts \cup {None} /\ k \in PackIds \cup {None}
            /\ y \in {None, "done", "gone", "failed"} /\ z \in BOOLEAN
  BY DEF CallOf, CallStates

\* A call is no more than its fields.
LEMMA CallIsItsFields ==
    ASSUME NEW r \in CallStates
    PROVE  r = CallOf(r.what, r.account, r.pack, r.reply, r.written)
  BY DEF CallOf, CallStates

\* One field changes.
LEMMA CallExcept ==
    ASSUME NEW q \in CallStates, NEW x
    PROVE  /\ [q EXCEPT !.what = x] = CallOf(x, q.account, q.pack, q.reply, q.written)
           /\ [q EXCEPT !.account = x] = CallOf(q.what, x, q.pack, q.reply, q.written)
           /\ [q EXCEPT !.pack = x] = CallOf(q.what, q.account, x, q.reply, q.written)
           /\ [q EXCEPT !.reply = x] = CallOf(q.what, q.account, q.pack, x, q.written)
           /\ [q EXCEPT !.written = x] = CallOf(q.what, q.account, q.pack, q.reply, x)
  BY DEF CallOf, CallStates

\* One call moves on, and nothing is written.
LEMMA OneMoves ==
    ASSUME TypeOK, NEW c \in Calls, disk' = disk,
           NEW w, NEW a, NEW k, NEW y, NEW z, CallOf(w, a, k, y, z) \in CallStates,
           calls' = [calls EXCEPT ![c] = CallOf(w, a, k, y, z)]
    PROVE  Moved(c, w, a, k, y, z)
<1> DEFINE r == CallOf(w, a, k, y, z)
<1>1. calls \in [Calls -> CallStates]
  BY DEF TypeOK
<1> HIDE DEF r
<1>2. calls' = [calls EXCEPT ![c] = r] /\ r \in CallStates
  BY DEF r
<1>3. calls' \in [Calls -> CallStates] /\ calls'[c] = r
      /\ \A d \in Calls \ {c} : calls'[d] = calls[d]
  BY <1>1, <1>2
<1> QED
  BY <1>3 DEF Moved, r

\* An answer moves one call, its reply and its pack.
LEMMA AnswerMoves ==
    ASSUME TypeOK, NEW c \in Calls, disk' = disk,
           NEW reply \in {"done", "gone", "failed"}, NEW k \in PackIds \cup {None},
           Answer(c, reply, k)
    PROVE  Moved(c, calls[c].what, calls[c].account, k, reply, calls[c].written)
<1> DEFINE q == calls[c]
           r == CallOf(q.what, q.account, k, reply, q.written)
<1>1. q \in CallStates
  BY DEF TypeOK
<1>2. q = CallOf(q.what, q.account, q.pack, q.reply, q.written)
  BY <1>1, CallIsItsFields
<1>3. r \in CallStates
  BY <1>1, CallStatesAre DEF CallStates
<1>4. calls' = [calls EXCEPT ![c] = [[q EXCEPT !.reply = reply] EXCEPT !.pack = k]]
  BY DEF Answer
<1>5. [[q EXCEPT !.reply = reply] EXCEPT !.pack = k] = r
  <2> DEFINE s == [q EXCEPT !.reply = reply]
  <2>1. s = CallOf(q.what, q.account, q.pack, reply, q.written)
    BY <1>1, CallExcept
  <2>2. s \in CallStates
    BY <1>1, <2>1, CallStatesAre DEF CallStates
  <2>3. s.what = q.what /\ s.account = q.account /\ s.reply = reply
        /\ s.written = q.written
    BY <2>1, CallFields
  <2> HIDE DEF s
  <2>4. [s EXCEPT !.pack = k] = r
    BY <2>2, <2>3 DEF CallOf, CallStates
  <2> QED BY <2>4 DEF s
<1>6. calls' = [calls EXCEPT ![c] = r]
  BY <1>4, <1>5, Zenon
<1> QED
  BY <1>3, <1>6, OneMoves

\* A call ends.
LEMMA EndsMoves ==
    ASSUME TypeOK, NEW c \in Calls, calls' = [calls EXCEPT ![c] = Quiet], disk' = disk
    PROVE  Moved(c, None, None, None, None, FALSE)
  BY QuietIs, OneMoves

\* What each step of a request does to the calls.
LEMMA ServeFetchMoves ==
    ASSUME TypeOK, NEW c \in Calls, ServeFetch(c)
    PROVE  Moved(c, "fetch", calls[c].account, calls[c].pack,
                 IF Holds(calls[c].account, calls[c].pack) THEN "done" ELSE "gone",
                 calls[c].written)
  BY AnswerMoves DEF ServeFetch, TypeOK, CallStates

\* A request for a pack is served: refused, or issued a new id.
LEMMA ServeIssueMoves ==
    ASSUME TypeOK, NEW c \in Calls, ServeIssue(c)
    PROVE  \/ /\ calls[c].account \notin players /\ UNCHANGED <<rows, lapsed>>
              /\ Moved(c, "issue", calls[c].account, None, "failed", calls[c].written)
           \/ \E k \in PackIds \ Named :
                 /\ calls[c].account \in players
                 /\ rows' = [rows EXCEPT ![k] =
                              [owner |-> calls[c].account, content |-> shipped]]
                 /\ lapsed' = lapsed \ {k}
                 /\ Moved(c, "issue", calls[c].account, k, "done", calls[c].written)
<1>1. disk' = disk /\ calls[c].what = "issue"
  BY DEF ServeIssue
<1>2. CASE calls[c].account \notin players
  <2>1. Answer(c, "failed", None) /\ UNCHANGED <<rows, lapsed>>
    BY <1>2 DEF ServeIssue
  <2> QED BY <1>1, <1>2, <2>1, AnswerMoves
<1>3. CASE calls[c].account \in players
  <2>1. PICK k \in PackIds \ Named :
           /\ rows' = [rows EXCEPT ![k] =
                              [owner |-> calls[c].account, content |-> shipped]]
           /\ lapsed' = lapsed \ {k}
           /\ Answer(c, "done", k)
    BY <1>3 DEF ServeIssue
  <2>2. Moved(c, "issue", calls[c].account, k, "done", calls[c].written)
    BY <1>1, <2>1, AnswerMoves
  <2> QED BY <1>3, <2>1, <2>2
<1> QED
  BY <1>2, <1>3

\* An answer is lost.
LEMMA GoWrongMoves ==
    ASSUME TypeOK, NEW c \in Asks, GoWrong(c)
    PROVE  Moved(c, calls[c].what, calls[c].account, calls[c].pack, "failed", calls[c].written)
  BY AnswerMoves DEF GoWrong, TypeOK, CallStates, Calls

\* A request goes out.
LEMMA SendMoves ==
    ASSUME TypeOK, NEW c \in Calls, NEW what \in {"reading", "fetch"},
           NEW k \in PackIds \cup {None}, Send(c, what, k), disk' = disk
    PROVE  Moved(c, what, session, k, None, FALSE)
<1>1. calls' = [calls EXCEPT ![c] = CallOf(what, session, k, None, FALSE)]
  BY DEF Send, CallOf
<1>2. CallOf(what, session, k, None, FALSE) \in CallStates
  <2>1. session \in Accounts \cup {None}
    BY DEF TypeOK
  <2> QED BY <2>1, CallStatesAre
<1> QED
  BY <1>1, <1>2, OneMoves

\* The read is back, and decides what to ask the server.
LEMMA DecideMoves ==
    ASSUME TypeOK, NEW c \in Asks, Decide(c)
    PROVE  \/ Moved(c, None, None, None, None, FALSE)
           \/ /\ ~Requesting
              /\ Moved(c, IF calls[c].pack = None THEN "issue" ELSE "fetch",
                       calls[c].account, calls[c].pack, calls[c].reply, calls[c].written)
<1> DEFINE q == calls[c]
           w == IF q.pack = None THEN "issue" ELSE "fetch"
           r == CallOf(w, q.account, q.pack, q.reply, q.written)
<1>1. disk' = disk /\ c \in Calls
  BY DEF Decide, Calls
<1>2. CASE ~linked \/ Requesting
  <2>1. calls' = [calls EXCEPT ![c] = Quiet]
    BY <1>2 DEF Decide
  <2> QED BY <1>1, <2>1, EndsMoves
<1>3. CASE linked /\ ~Requesting
  <2>1. q \in CallStates
    BY <1>1 DEF TypeOK
  <2>2. q = CallOf(q.what, q.account, q.pack, q.reply, q.written)
    BY <2>1, CallIsItsFields
  <2>3. r \in CallStates
    BY <2>1, CallStatesAre DEF CallStates
  <2>4. [q EXCEPT !.what = w] = r
    BY <2>1, CallExcept
  <2>5. calls' = [calls EXCEPT ![c] = [q EXCEPT !.what = w]]
    BY <1>3 DEF Decide
  <2> QED BY <1>1, <1>3, <2>3, <2>4, <2>5, OneMoves
<1> QED
  BY <1>2, <1>3 DEF TypeOK

\* What was recorded is gone: it is dropped, and another is issued.
LEMMA GoneMoves ==
    ASSUME TypeOK, NEW c \in Calls,
           calls' = [ReadsAnswered EXCEPT ![c] =
                       [@ EXCEPT !.what = "issue", !.pack = None, !.reply = None]],
           calls[c].what = "fetch"
    PROVE  Moved(c, "issue", calls[c].account, None, None, calls[c].written)
<1> DEFINE q == calls[c]
           r == CallOf("issue", q.account, None, None, q.written)
<1>1. ReadsAnswered \in [Calls -> CallStates] /\ ReadsAnswered[c] = q
  BY QuietIs, ConstantsAssumption DEF ReadsAnswered, TypeOK
<1>2. \A d \in Calls : ReadsAnswered[d] = IF calls[d].what = "reading" THEN Quiet ELSE calls[d]
  BY DEF ReadsAnswered
<1>3. q \in CallStates
  BY DEF TypeOK
<1>4. q = CallOf(q.what, q.account, q.pack, q.reply, q.written)
  BY <1>3, CallIsItsFields
<1>5. [[[q EXCEPT !.what = "issue"] EXCEPT !.pack = None] EXCEPT !.reply = None] = r
  <2> DEFINE s == [q EXCEPT !.what = "issue"]
             t == [s EXCEPT !.pack = None]
  <2>1. s = CallOf("issue", q.account, q.pack, q.reply, q.written) /\ s \in CallStates
    BY <1>3, CallExcept, CallStatesAre DEF CallStates
  <2>2. t = CallOf("issue", q.account, None, q.reply, q.written) /\ t \in CallStates
    <3> HIDE DEF s
    <3>1. s.what = "issue" /\ s.account = q.account /\ s.reply = q.reply
          /\ s.written = q.written
      BY <2>1, CallFields
    <3>2. t = CallOf("issue", q.account, None, q.reply, q.written)
      BY <2>1, <3>1 DEF CallOf, CallStates
    <3> QED BY <1>3, <3>2, CallStatesAre DEF CallStates
  <2> HIDE DEF t
  <2>3. t.what = "issue" /\ t.account = q.account /\ t.pack = None
        /\ t.written = q.written
    BY <2>2, CallFields
  <2>4. [t EXCEPT !.reply = None] = r
    BY <2>2, <2>3 DEF CallOf, CallStates
  <2> QED BY <2>4 DEF t
<1>6. r \in CallStates
  BY <1>3, CallStatesAre, ConstantsAssumption DEF CallStates
<1>7. calls' = [ReadsAnswered EXCEPT ![c] = r]
  BY <1>1, <1>5, Zenon
<1> HIDE DEF r
<1> QED
  BY <1>1, <1>2, <1>6, <1>7 DEF Moved, r

\* An issued id is written down before it is played.
LEMMA WrittenMoves ==
    ASSUME TypeOK, NEW c \in Calls,
           calls' = [ReadsAnswered EXCEPT ![c].written = TRUE],
           calls[c].what = "issue"
    PROVE  Moved(c, "issue", calls[c].account, calls[c].pack, calls[c].reply, TRUE)
<1> DEFINE q == calls[c]
           r == CallOf("issue", q.account, q.pack, q.reply, TRUE)
<1>1. ReadsAnswered \in [Calls -> CallStates] /\ ReadsAnswered[c] = q
  BY QuietIs, ConstantsAssumption DEF ReadsAnswered, TypeOK
<1>2. \A d \in Calls : ReadsAnswered[d] = IF calls[d].what = "reading" THEN Quiet ELSE calls[d]
  BY DEF ReadsAnswered
<1>3. q \in CallStates
  BY DEF TypeOK
<1>4. q = CallOf("issue", q.account, q.pack, q.reply, q.written)
  BY <1>3, CallIsItsFields
<1>5. [q EXCEPT !.written = TRUE] = r
  <2>1. q.what = "issue"
    OBVIOUS
  <2> HIDE DEF q
  <2>2. [q EXCEPT !.written = TRUE] = CallOf(q.what, q.account, q.pack, q.reply, TRUE)
    BY ONLY <1>3, CallExcept, Zenon
  <2> QED BY <2>1, <2>2
<1>6. r \in CallStates
  BY <1>3, CallStatesAre, ConstantsAssumption DEF CallStates
<1>7. calls' = [ReadsAnswered EXCEPT ![c] = r]
  BY <1>1, <1>5, Zenon
<1> HIDE DEF r
<1> QED
  BY <1>1, <1>2, <1>6, <1>7 DEF Moved, r

-----------------------------------------------------------------------------
(* What is kept. *)

\* One call moving on keeps the order of the others: only the call at work
\* writes, and a read is answered first.
LEMMA MovedKeepsOrder ==
    ASSUME TypeOK, InOrder, Latched, NEW c \in Calls,
           NEW w, NEW a, NEW k, NEW y, NEW z, Moved(c, w, a, k, y, z),
           Fine(c, CallOf(w, a, k, y, z), disk'),
           disk' # disk => c \in Asks /\ Busy(c),
           c \in Asks /\ w \in {"fetch", "issue"} => Busy(c) \/ ~Requesting
    PROVE  InOrder' /\ Latched'
<1>1. Quiet.what = None /\ Quiet.account = None /\ Quiet.reply = None /\ ~Quiet.written
  BY DEF Quiet
<1>2. \A d \in Calls \ {c} : Fine(d, calls'[d], disk')
  <2> SUFFICES ASSUME NEW d \in Calls \ {c} PROVE Fine(d, calls'[d], disk')
    OBVIOUS
  <2>1. CASE calls'[d] = Quiet
    BY <1>1, <2>1, ConstantsAssumption DEF Fine
  <2>2. CASE calls'[d] = calls[d] /\ calls'[d] # Quiet
    <3>1. Fine(d, calls[d], disk) /\ calls[d].what # None
      BY <2>2 DEF InOrder, Fine
    <3>2. CASE disk' = disk
      BY <2>2, <3>1, <3>2
    <3>3. CASE disk' # disk
      <4>1. calls[d].what # "reading"
        BY <2>2, <3>3 DEF Moved
      <4>2. ~(d \in Asks /\ Busy(d))
        BY <3>3 DEF Latched
      <4>3. calls[d].what \in {"fetch", "issue"}
        BY <3>1, <4>1 DEF TypeOK, CallStates
      <4>4. calls[d].what = "fetch" /\ d \notin Asks
        BY <3>1, <4>2, <4>3 DEF Busy, Fine
      <4>5. ~calls[d].written
        BY <3>1, <4>4 DEF Fine
      <4> QED BY <2>2, <3>1, <4>4, <4>5 DEF Fine
    <3> QED BY <3>2, <3>3
  <2> QED BY <2>1, <2>2 DEF Moved
<1>3. Fine(c, calls'[c], disk')
  BY DEF Moved
<1>4. InOrder'
  BY <1>2, <1>3 DEF InOrder, Fine
<1>5. Latched'
  <2>1. \A d \in Asks \ {c} : calls'[d].what \in {"fetch", "issue"} => Busy(d)
    BY <1>1, ConstantsAssumption DEF Moved, Busy, Calls
  <2>2. c \in Asks /\ calls'[c].what \in {"fetch", "issue"} =>
           Busy(c) \/ \A d \in Asks : ~Busy(d)
    BY CallFields DEF Moved, Busy, Requesting
  <2> QED BY <2>1, <2>2 DEF Latched, Busy
<1> QED
  BY <1>4, <1>5

\* The packs in play, and those the server has answered for.
InUse == {home, map} \cup
         {calls[c].pack : c \in {d \in Calls : calls[d].reply \in {"done", "gone"}}}

\* A pack in use stays whose it was, and one that cannot be fetched never can
\* again.
Stays(a) ==
    \A k \in InUse \ {None} :
        /\ Held(k, a) => Held(k, a)'
        /\ ~Fetchable(k, a) => ~Fetchable(k, a)'

\* What is in use has a name.
LEMMA InUseAreNamed ==
    ASSUME TypeOK
    PROVE  InUse \subseteq Named /\ Named \subseteq PackIds \cup {None}
<1>1. \A c \in Calls : calls[c].pack \in PackIds \cup {None}
  BY DEF TypeOK, CallStates
<1> QED
  BY <1>1 DEF InUse, Named, TypeOK

\* One call moving on keeps all to one account, when what it brings is.
LEMMA MovedKeepsMine ==
    ASSUME TypeOK, InOrder, NEW acc, Mine(acc), Stays(acc), NEW c \in Calls,
           NEW w, NEW a, NEW k, NEW y, NEW z, Moved(c, w, a, k, y, z),
           w # None => a = acc,
           y = "done" => Held(k, acc)',
           y = "gone" => ~Fetchable(k, acc)',
           session' \in {None, acc},
           {home', map'} \subseteq {home, map, calls[c].pack},
           {home', map'} \subseteq {home, map} \/ calls[c].reply = "done"
    PROVE  Mine(acc)'
<1>1. Quiet.what = None /\ Quiet.reply = None
  BY DEF Quiet
<1>2. \A d \in Calls :
         /\ calls'[d].what # None => calls'[d].account = acc
         /\ calls'[d].reply = "done" => Held(calls[d].pack, acc)'
         /\ calls'[d].reply = "gone" => ~Fetchable(calls[d].pack, acc)'
  <2> TAKE d \in Calls
  <2>1. CASE d = c
    <3>1. /\ calls'[c].what = w /\ calls'[c].account = a /\ calls'[c].pack = k
          /\ calls'[c].reply = y
      BY CallFields DEF Moved
    <3> QED BY <2>1, <3>1 DEF Held, Fetchable
  <2>2. CASE d # c /\ calls'[d] = Quiet
    BY <1>1, <2>2, ConstantsAssumption
  <2>3. CASE d # c /\ calls'[d] = calls[d]
    <3>1. calls[d].reply \in {"done", "gone"} => calls[d].pack \in InUse
      BY DEF InUse
    <3>2. calls[d].reply \in {"done", "gone"} => calls[d].pack # None
      BY DEF InOrder, Fine
    <3>3. calls[d].reply \in {"done", "gone"} => calls[d].pack \in InUse \ {None}
      BY <3>1, <3>2
    <3> QED BY <2>3, <3>3 DEF Mine, Stays, Held, Fetchable
  <2> QED BY <2>1, <2>2, <2>3 DEF Moved
<1>3. \A q \in {home', map'} \ {None} : Held(q, acc)'
  <2> TAKE q \in {home', map'} \ {None}
  <2>1. CASE q \in {home, map}
    BY <2>1 DEF Mine, Stays, InUse
  <2>2. CASE q = calls[c].pack /\ calls[c].reply = "done"
    <3>1. q \in InUse /\ Held(q, acc)
      BY <2>2 DEF Mine, InUse
    <3> QED BY <3>1 DEF Stays
  <2> QED BY <2>1, <2>2
<1> QED
  BY <1>2, <1>3 DEF Mine

\* Steps of the server that no call takes part in.
LEMMA StillKeepsMine ==
    ASSUME TypeOK, InOrder, NEW acc, Mine(acc), Stays(acc),
           calls' = calls, session' \in {None, acc}, UNCHANGED <<home, map>>
    PROVE  Mine(acc)'
<1>1. \A d \in Calls : calls[d].reply \in {"done", "gone"} =>
                          calls[d].pack \in InUse \ {None}
  BY DEF InOrder, Fine, InUse
<1>2. {home, map} \subseteq InUse
  BY DEF InUse
<1> QED
  BY <1>1, <1>2 DEF Mine, Stays

\* Rows that stay as they are, among the same players and at the same content.
LEMMA RowsStay ==
    ASSUME NEW acc, UNCHANGED <<rows, shipped>>, lapsed \subseteq lapsed',
           acc \notin players => acc \notin players'
    PROVE  Stays(acc)
  BY DEF Stays, Held, Fetchable

\* A new id is no id in use.
LEMMA IssuedStays ==
    ASSUME TypeOK, NEW acc, NEW k \in PackIds \ Named, NEW r,
           rows' = [rows EXCEPT ![k] = r], lapsed' = lapsed \ {k},
           UNCHANGED <<players, shipped>>
    PROVE  Stays(acc)
<1>1. \A q \in InUse \ {None} : q \in PackIds /\ q # k
  BY InUseAreNamed
<1> QED
  BY <1>1 DEF Stays, Held, Fetchable, TypeOK

\* The sweep takes what lapsed.
LEMMA SweepStays ==
    ASSUME TypeOK, NEW acc, NEW k \in PackIds, Sweep(k)
    PROVE  Stays(acc)
<1>1. \A q \in InUse \ {None} : q \in PackIds
  BY InUseAreNamed
<1> QED
  BY <1>1 DEF Stays, Held, Fetchable, TypeOK, Sweep

\* An erased account has no more claims.
LEMMA EraseStays ==
    ASSUME TypeOK, NEW acc, NEW b \in Accounts, Erase(b)
    PROVE  Stays(acc)
<1>1. \A q \in InUse \ {None} : q \in PackIds
  BY InUseAreNamed
<1> QED
  BY <1>1 DEF Stays, Held, Fetchable, TypeOK, Erase, server

\* New content makes no pack of an old one.
LEMMA ShipStays ==
    ASSUME TypeOK, RowsOwned, NEW acc, Ship
    PROVE  Stays(acc)
<1>1. \A q \in InUse \ {None} : q \in PackIds
  BY InUseAreNamed
<1>2. \A q \in PackIds : rows[q] # None => rows[q].content \in Nat /\ rows[q].content <= shipped
  BY DEF TypeOK, RowsOwned
<1>3. shipped \in Nat /\ shipped' = shipped + 1 /\ UNCHANGED <<rows, players, lapsed>>
  BY DEF Ship, TypeOK
<1> QED
  BY <1>1, <1>2, <1>3 DEF Stays, Held, Fetchable

\* The types that no call is about.
OtherTypes ==
    /\ session \in Accounts \cup {None}
    /\ linked \in BOOLEAN
    /\ players \in SUBSET Accounts
    /\ rows \in [PackIds -> {None} \cup [owner : Accounts, content : Nat]]
    /\ lapsed \in SUBSET PackIds
    /\ shipped \in Nat
    /\ {disk, home, map} \subseteq PackIds \cup {None}
    /\ trouble \in Nat

\* The types are those of the calls and of the rest.
LEMMA TypesOfParts ==
    ASSUME OtherTypes, InOrder, calls \in [Calls -> CallStates]
    PROVE  TypeOK
  BY DEF OtherTypes, InOrder, Fine, TypeOK

\* Nothing of a call or of what is recorded has changed.
LEMMA StillInOrder ==
    ASSUME InOrder, Latched, UNCHANGED <<calls, disk>>
    PROVE  InOrder' /\ Latched'
  BY DEF InOrder, Latched, Busy, Fine

\* What has to be shown of a step.
LEMMA FromParts ==
    ASSUME OtherTypes', calls' \in [Calls -> CallStates], InOrder', Latched',
           RowsOwned', HomeIsRecorded', \E a \in Accounts \cup {None} : Mine(a)'
    PROVE  PInv'
<1>1. TypeOK'
  BY DEF OtherTypes, InOrder, Fine, TypeOK
<1>2. (\E a \in Accounts \cup {None} : Mine(a))'
  BY DEF Mine, Held, Fetchable
<1> QED
  BY <1>1, <1>2 DEF PInv

\* Each step of the server.
LEMMA ServerStep ==
    ASSUME PInv, NEW c \in Calls, ServeFetch(c) \/ ServeIssue(c)
    PROVE  PInv'
<1> PICK a \in Accounts \cup {None} : Mine(a)
  BY DEF PInv
<1> USE DEF PInv
<1> DEFINE q == calls[c]
<1>1. Fine(c, q, disk) /\ q \in CallStates
  BY DEF InOrder, TypeOK
<1>2. CASE ServeFetch(c)
  <2> DEFINE y == IF Holds(q.account, q.pack) THEN "done" ELSE "gone"
  <2>1. Moved(c, "fetch", q.account, q.pack, y, q.written)
    BY <1>2, ServeFetchMoves
  <2>2. q.what = "fetch" /\ UNCHANGED <<session, linked, server, disk, roots, trouble>>
    BY <1>2 DEF ServeFetch
  <2>3. Fine(c, CallOf("fetch", q.account, q.pack, y, q.written), disk')
    BY <1>1, <2>2, CallFields, ConstantsAssumption DEF Fine
  <2>4. InOrder' /\ Latched'
    BY <2>1, <2>2, <2>3, MovedKeepsOrder DEF Busy
  <2>5. Stays(a)
    BY <2>2, RowsStay DEF server
  <2>6. q.account = a /\ q.pack \in PackIds
    BY <1>1, <2>2, ConstantsAssumption DEF Mine, Fine, CallStates
  <2>7. PICK k : k = q.pack
    OBVIOUS
  <2>8. Mine(a)'
    <3>1. /\ y = "done" => Held(k, a)'
          /\ y = "gone" => ~Fetchable(k, a)'
      BY <2>2, <2>6, <2>7 DEF Holds, Held, Fetchable, RowsOwned, server
    <3>2. Moved(c, "fetch", q.account, k, y, q.written)
      BY <2>1, <2>7
    <3> HIDE DEF y
    <3> QED BY <2>2, <2>5, <2>6, <3>1, <3>2, MovedKeepsMine DEF roots, Mine
  <2>9. OtherTypes' /\ RowsOwned' /\ HomeIsRecorded'
    BY <2>2 DEF OtherTypes, TypeOK, RowsOwned, HomeIsRecorded, server, roots
  <2>10. calls' \in [Calls -> CallStates]
    BY <2>1 DEF Moved
  <2> QED BY <2>4, <2>8, <2>9, <2>10, FromParts
<1>3. CASE ServeIssue(c)
  <2>1. /\ q.what = "issue" /\ q.reply = None
        /\ UNCHANGED <<session, linked, players, shipped, disk, home, map, trouble>>
    BY <1>3 DEF ServeIssue, roots
  <2>2. ~q.written
    BY <1>1, <2>1, ConstantsAssumption DEF Fine
  <2>3. q.account = a
    BY <2>1, ConstantsAssumption DEF Mine
  <2>4. CASE /\ q.account \notin players /\ UNCHANGED <<rows, lapsed>>
             /\ Moved(c, "issue", q.account, None, "failed", q.written)
    <3>1. Fine(c, CallOf("issue", q.account, None, "failed", q.written), disk')
      BY <1>1, <2>1, <2>2, CallFields, ConstantsAssumption DEF Fine
    <3>2. InOrder' /\ Latched'
      BY <2>1, <2>4, <3>1, MovedKeepsOrder DEF Busy
    <3>3. Stays(a)
      BY <2>1, <2>4, RowsStay
    <3>4. Mine(a)'
      BY <2>1, <2>3, <2>4, <3>3, MovedKeepsMine DEF Mine
    <3>5. OtherTypes' /\ RowsOwned' /\ HomeIsRecorded'
      BY <2>1, <2>4 DEF OtherTypes, TypeOK, RowsOwned, HomeIsRecorded
    <3>6. calls' \in [Calls -> CallStates]
      BY <2>4 DEF Moved
    <3> QED BY <3>2, <3>4, <3>5, <3>6, FromParts
  <2>5. ASSUME NEW k \in PackIds \ Named, q.account \in players,
               rows' = [rows EXCEPT ![k] = [owner |-> q.account, content |-> shipped]],
               lapsed' = lapsed \ {k},
               Moved(c, "issue", q.account, k, "done", q.written)
        PROVE  PInv'
    <3> DEFINE row == [owner |-> q.account, content |-> shipped]
    <3>1. Fine(c, CallOf("issue", q.account, k, "done", q.written), disk')
      BY <1>1, <2>1, <2>2, CallFields, ConstantsAssumption DEF Fine
    <3>2. InOrder' /\ Latched'
      BY <2>1, <2>5, <3>1, MovedKeepsOrder DEF Busy
    <3>3. Stays(a)
      BY <2>1, <2>5, IssuedStays
    <3>4. /\ row \in [owner : Accounts, content : Nat] /\ row # None
          /\ row.owner = q.account /\ row.content = shipped
      BY <2>5, ConstantsAssumption DEF TypeOK
    <3> HIDE DEF row
    <3>5. /\ rows' \in [PackIds -> {None} \cup [owner : Accounts, content : Nat]]
          /\ rows'[k] = row /\ \A j \in PackIds \ {k} : rows'[j] = rows[j]
      BY <2>5, <3>4 DEF TypeOK, row
    <3>6. Held(k, a)'
      BY <2>3, <3>4, <3>5 DEF Held
    <3>7. Mine(a)'
      BY <2>1, <2>3, <2>5, <3>3, <3>6, MovedKeepsMine DEF Mine
    <3>8. OtherTypes'
      BY <2>1, <2>5, <3>5 DEF OtherTypes, TypeOK
    <3>9. RowsOwned'
      BY <2>1, <2>5, <3>4, <3>5 DEF RowsOwned, TypeOK
    <3>10. HomeIsRecorded'
      BY <2>1, <3>5 DEF HomeIsRecorded, Named, TypeOK
    <3>11. calls' \in [Calls -> CallStates]
      BY <2>5 DEF Moved
    <3> QED BY <3>2, <3>7, <3>8, <3>9, <3>10, <3>11, FromParts
  <2> QED BY <1>3, <2>4, <2>5, ServeIssueMoves
<1> QED
  BY <1>2, <1>3

\* Each step of the home's own requests, the first excepted.
LEMMA HomeStep ==
    ASSUME PInv, NEW c \in Asks,
           \/ Decide(c) \/ GoWrong(c) \/ FetchAnswered(c) \/ IssueAnswered(c) \/ Adopt(c)
    PROVE  PInv'
<1> PICK a \in Accounts \cup {None} : Mine(a)
  BY DEF PInv
<1> USE DEF PInv
<1> DEFINE q == calls[c]
<1>0. UNCHANGED <<session, linked, server>> /\ c \in Calls
  BY DEF Decide, GoWrong, FetchAnswered, IssueAnswered, Adopt, Calls
<1>1. Fine(c, q, disk) /\ q \in CallStates
  BY <1>0 DEF InOrder, TypeOK
<1>2. Stays(a)
  BY <1>0, RowsStay DEF server
<1>3. q.what # None => q.account = a
  BY <1>0 DEF Mine
<1>4. ASSUME disk' \in PackIds \cup {None}, home' \in PackIds \cup {None}, map' = map,
             trouble' \in Nat
      PROVE  OtherTypes' /\ RowsOwned'
  BY <1>0, <1>4 DEF OtherTypes, TypeOK, RowsOwned, server
<1>5. ASSUME NEW w, NEW x, NEW k, NEW y, NEW z, Moved(c, w, x, k, y, z),
             Fine(c, CallOf(w, x, k, y, z), disk'),
             disk' # disk => Busy(c),
             w \in {"fetch", "issue"} => Busy(c) \/ ~Requesting,
             w # None => x = a,
             y = "done" => Held(k, a), y = "gone" => ~Fetchable(k, a),
             home' = home \/ (home' = q.pack /\ q.reply = "done"),
             disk' \in PackIds \cup {None}, map' = map, trouble' \in Nat,
             HomeIsRecorded'
      PROVE  PInv'
  <2>1. InOrder' /\ Latched'
    BY <1>0, <1>5, MovedKeepsOrder
  <2>2. /\ y = "done" => Held(k, a)'
        /\ y = "gone" => ~Fetchable(k, a)'
    BY <1>0, <1>5 DEF Held, Fetchable, server
  <2>3. Mine(a)'
    BY <1>0, <1>2, <1>5, <2>2, MovedKeepsMine DEF Mine
  <2>4. calls' \in [Calls -> CallStates]
    BY <1>5 DEF Moved
  <2>5. home' \in PackIds \cup {None}
    BY <1>1, <1>5 DEF TypeOK, CallStates
  <2> QED BY <1>4, <1>5, <2>1, <2>3, <2>4, <2>5, FromParts
<1>6. /\ q.reply = "done" => Held(q.pack, a)
      /\ q.reply = "gone" => ~Fetchable(q.pack, a)
  BY <1>0 DEF Mine
<1>7. Fine(c, CallOf(None, None, None, None, FALSE), disk')
  <2>1. Fine(c, Quiet, disk')
    BY ConstantsAssumption DEF Fine, Quiet
  <2> QED BY <2>1, QuietIs
<1>8. UNCHANGED <<disk, home>> => HomeIsRecorded'
  BY <1>0 DEF HomeIsRecorded, server
<1>9. disk \in PackIds \cup {None} /\ trouble \in Nat
  BY DEF TypeOK
<1>10. CASE Decide(c)
  <2>1. /\ q.what = "reading" /\ UNCHANGED <<disk, home, map, trouble>>
    BY <1>10 DEF Decide, roots
  <2>2. CASE Moved(c, None, None, None, None, FALSE)
    BY <1>5, <1>7, <1>8, <1>9, <2>1, <2>2, ConstantsAssumption
  <2>3. CASE ~Requesting /\ Moved(c, IF q.pack = None THEN "issue" ELSE "fetch",
                                 q.account, q.pack, q.reply, q.written)
    <3> DEFINE w == IF q.pack = None THEN "issue" ELSE "fetch"
    <3>1. Fine(c, CallOf(w, q.account, q.pack, q.reply, q.written), disk')
      BY <1>1, <2>1, CallFields, ConstantsAssumption DEF Fine
    <3>2. q.reply = None /\ q.account = a
      BY <1>1, <1>3, <2>1, ConstantsAssumption DEF Fine
    <3> QED BY <1>5, <1>8, <1>9, <2>1, <2>3, <3>1, <3>2, ConstantsAssumption
  <2> QED BY <1>10, <2>2, <2>3, DecideMoves
<1>11. CASE GoWrong(c)
  <2>1. /\ q.what \in {"fetch", "issue"} /\ ~q.written /\ UNCHANGED <<disk, home, map>>
        /\ trouble' \in Nat
    BY <1>9, <1>11 DEF GoWrong, roots
  <2>2. Moved(c, q.what, q.account, q.pack, "failed", q.written)
    BY <1>11, GoWrongMoves
  <2>3. Fine(c, CallOf(q.what, q.account, q.pack, "failed", q.written), disk')
    BY <1>1, <2>1, CallFields, ConstantsAssumption DEF Fine
  <2>4. q.account = a /\ Busy(c)
    BY <1>3, <2>1, ConstantsAssumption DEF Busy
  <2> QED BY <1>5, <1>8, <1>9, <2>1, <2>2, <2>3, <2>4
<1>12. CASE FetchAnswered(c)
  <2>1. /\ q.what = "fetch" /\ UNCHANGED <<map, trouble>> /\ Busy(c)
        /\ q.account = a /\ q.pack = disk /\ disk # None
    BY <1>1, <1>3, <1>12, ConstantsAssumption DEF FetchAnswered, Busy, Fine
  <2>2. CASE /\ q.reply = "done" /\ home' = q.pack /\ UNCHANGED disk
             /\ calls' = [calls EXCEPT ![c] = Quiet]
    <3>1. Moved(c, None, None, None, None, FALSE)
      BY <1>0, <2>2, EndsMoves
    <3>2. HomeIsRecorded'
      BY <2>1, <2>2 DEF HomeIsRecorded
    <3> QED BY <1>5, <1>7, <1>9, <2>1, <2>2, <3>1, <3>2, ConstantsAssumption
  <2>3. CASE /\ IsGone(q.reply) /\ disk' = None /\ UNCHANGED home
             /\ calls' = [ReadsAnswered EXCEPT ![c] =
                    [@ EXCEPT !.what = "issue", !.pack = None, !.reply = None]]
    <3>1. Moved(c, "issue", q.account, None, None, q.written)
      BY <1>0, <2>1, <2>3, GoneMoves
    <3>2. q.reply = "gone" /\ ~q.written /\ q.account # None
      BY <1>1, <2>1, <2>3, ConstantsAssumption DEF IsGone, Fine
    <3>3. Fine(c, CallOf("issue", q.account, None, None, q.written), disk')
      BY <2>3, <3>2, CallFields, ConstantsAssumption DEF Fine
    <3>4. HomeIsRecorded'
      <4>1. ~Fetchable(disk, a)
        BY <1>6, <2>1, <3>2
      <4>2. home # None /\ rows[home] # None => rows[home].owner = a
        BY DEF Mine, Held
      <4>3. ~(home # None /\ rows[home] # None /\ rows[home].content = shipped)
        BY <4>1, <4>2 DEF HomeIsRecorded, Fetchable
      <4> QED BY <1>0, <2>3, <4>3 DEF HomeIsRecorded, server
    <3> QED BY <1>5, <1>9, <2>1, <2>3, <3>1, <3>3, <3>4, ConstantsAssumption
  <2>4. CASE UNCHANGED <<disk, home>> /\ calls' = [calls EXCEPT ![c] = Quiet]
    <3>1. Moved(c, None, None, None, None, FALSE)
      BY <1>0, <2>4, EndsMoves
    <3> QED BY <1>5, <1>7, <1>8, <1>9, <2>1, <2>4, <3>1, ConstantsAssumption
  <2> QED BY <1>12, <2>2, <2>3, <2>4 DEF FetchAnswered
<1>13. CASE IssueAnswered(c)
  <2>1. /\ q.what = "issue" /\ ~q.written /\ UNCHANGED <<home, map, trouble>> /\ Busy(c)
        /\ q.account = a /\ disk = None
    BY <1>1, <1>3, <1>13, ConstantsAssumption DEF IssueAnswered, Busy, Fine, roots
  <2>2. CASE q.reply = "done" /\ disk' = q.pack
             /\ calls' = [ReadsAnswered EXCEPT ![c].written = TRUE]
    <3>1. Moved(c, "issue", q.account, q.pack, q.reply, TRUE)
      BY <1>0, <2>1, <2>2, WrittenMoves
    <3>2. q.pack # None /\ q.account # None
      BY <1>1, <2>1, <2>2, ConstantsAssumption DEF Fine
    <3>3. Fine(c, CallOf("issue", q.account, q.pack, q.reply, TRUE), disk')
      BY <2>2, <3>2, ConstantsAssumption DEF Fine, CallOf
    <3>4. HomeIsRecorded'
      BY <1>0, <2>1 DEF HomeIsRecorded, server
    <3>5. disk' \in PackIds \cup {None}
      BY <1>1, <2>2 DEF CallStates
    <3> QED BY <1>5, <1>6, <1>9, <2>1, <2>2, <3>1, <3>3, <3>4, <3>5, ConstantsAssumption
  <2>3. CASE UNCHANGED <<disk>> /\ calls' = [calls EXCEPT ![c] = Quiet]
    <3>1. Moved(c, None, None, None, None, FALSE)
      BY <1>0, <2>3, EndsMoves
    <3> QED BY <1>5, <1>7, <1>8, <1>9, <2>1, <2>3, <3>1, ConstantsAssumption
  <2> QED BY <1>13, <2>2, <2>3 DEF IssueAnswered
<1>14. CASE Adopt(c)
  <2>1. /\ q.written /\ home' = q.pack /\ UNCHANGED <<disk, map, trouble>>
        /\ calls' = [calls EXCEPT ![c] = Quiet]
    BY <1>14 DEF Adopt
  <2>2. q.pack = disk /\ q.reply = "done"
    BY <1>1, <2>1 DEF Fine
  <2>3. Moved(c, None, None, None, None, FALSE)
    BY <1>0, <2>1, EndsMoves
  <2>4. HomeIsRecorded'
    BY <2>1, <2>2 DEF HomeIsRecorded
  <2> QED BY <1>5, <1>7, <1>9, <2>1, <2>2, <2>3, <2>4, ConstantsAssumption
<1> QED
  BY <1>10, <1>11, <1>12, <1>13, <1>14

\* A request goes out: what is recorded is read, or fetched by the map.
LEMMA SendStep ==
    ASSUME PInv, NEW c \in Calls, NEW what \in {"reading", "fetch"},
           Send(c, what, disk), session # None,
           what = "reading" => c \in Asks,
           what = "fetch" => c \in Fetches /\ disk # None,
           NEW a \in Accounts \cup {None}, Mine(a), Stays(a), a = session,
           players' \in SUBSET Accounts, players \subseteq players',
           linked' \in BOOLEAN,
           UNCHANGED <<session, rows, lapsed, shipped, disk, home, map, trouble>>
    PROVE  PInv'
<1> USE DEF PInv
<1>1. Moved(c, what, session, disk, None, FALSE)
  BY SendMoves DEF TypeOK
<1>2. Fine(c, CallOf(what, session, disk, None, FALSE), disk')
  <2>1. c \in Fetches => c \notin Asks
    BY ConstantsAssumption
  <2> QED BY <2>1, ConstantsAssumption DEF Fine, CallOf
<1>3. InOrder' /\ Latched'
  <2>1. c \in Asks /\ what \in {"fetch", "issue"} => Busy(c) \/ ~Requesting
    BY ConstantsAssumption
  <2> QED BY <1>1, <1>2, <2>1, MovedKeepsOrder
<1>4. Mine(a)'
  BY <1>1, MovedKeepsMine, ConstantsAssumption
<1>5. OtherTypes' /\ RowsOwned' /\ HomeIsRecorded'
  BY DEF OtherTypes, TypeOK, RowsOwned, HomeIsRecorded
<1>6. calls' \in [Calls -> CallStates]
  BY <1>1 DEF Moved
<1> QED
  BY <1>3, <1>4, <1>5, <1>6, FromParts

\* Where nothing is in play or on its way, all is of whoever comes.
LEMMA AnewIsAnyones ==
    ASSUME Anew, NEW a, session \in {None, a}
    PROVE  Mine(a) /\ Stays(a)
<1>1. /\ home = None /\ map = None
      /\ \A c \in Calls : calls[c].what = None /\ calls[c].reply = None
  BY DEF Anew, roots, Quiet
<1> QED
  BY <1>1, ConstantsAssumption DEF Mine, Stays, InUse

\* The home asks under the account signed in.
LEMMA AskStep ==
    ASSUME PInv, Settled, NEW c \in Asks, Link(c) \/ Renew(c)
    PROVE  PInv'
<1> USE DEF PInv
<1>1. PICK b \in Accounts \cup {None} : Mine(b)
  OBVIOUS
<1>2. /\ session # None /\ session \in Accounts /\ AskForPack(c) /\ c \in Calls
      /\ linked' \in BOOLEAN
      /\ players' \in {players, players \cup {session}}
      /\ UNCHANGED <<session, rows, lapsed, shipped, disk, home, map, trouble>>
  BY DEF Link, Renew, roots, server, TypeOK, Calls
<1>3. players' = players \/ session \in players \/ Anew
  BY DEF Link, Renew, server
<1>s. PICK s \in Accounts \cup {None} : s = session
  BY <1>2
<1>4. Mine(s) /\ Stays(s)
  <2>1. CASE Anew
    BY <1>s, <2>1, AnewIsAnyones
  <2>2. CASE ~Anew
    <3>1. players' = players
      BY <1>2, <1>3, <2>2
    <3>2. b = s
      BY <1>1, <1>2, <1>s DEF Mine
    <3>3. Stays(b)
      BY <1>2, <3>1, RowsStay
    <3> QED BY <1>1, <3>2, <3>3
  <2> QED BY <2>1, <2>2
<1>5. players' \in SUBSET Accounts /\ players \subseteq players'
  BY <1>2 DEF TypeOK
<1>6. CASE home # None
  <2>1. UNCHANGED calls
    BY <1>2, <1>6 DEF AskForPack
  <2>2. InOrder' /\ Latched'
    BY <1>2, <2>1, StillInOrder
  <2>3. OtherTypes' /\ RowsOwned' /\ HomeIsRecorded'
    BY <1>2, <1>5 DEF OtherTypes, TypeOK, RowsOwned, HomeIsRecorded
  <2>4. calls' \in [Calls -> CallStates]
    BY <2>1 DEF TypeOK
  <2>5. Mine(s)'
    BY <1>s, <1>2, <1>4, <2>1, StillKeepsMine
  <2> QED BY <2>2, <2>3, <2>4, <2>5, FromParts
<1>7. CASE home = None
  <2>1. Send(c, "reading", disk)
    BY <1>2, <1>7 DEF AskForPack
  <2> QED BY <1>2, <1>s, <1>4, <1>5, <2>1, SendStep, ConstantsAssumption
<1> QED
  BY <1>6, <1>7

\* The map's two steps.
LEMMA MapStep ==
    ASSUME PInv, NEW c \in Fetches, MapAsks(c) \/ MapAnswered(c)
    PROVE  PInv'
<1> USE DEF PInv
<1>1. PICK a \in Accounts \cup {None} : Mine(a)
  OBVIOUS
<1>2. UNCHANGED <<session, linked, players, rows, lapsed, shipped, disk, home, trouble>>
      /\ c \in Calls /\ c \notin Asks
  BY ConstantsAssumption DEF MapAsks, MapAnswered, MapKeeps, roots, server, Calls
<1>3. Stays(a)
  BY <1>2, RowsStay
<1>4. CASE MapAsks(c)
  <2>1. session # None /\ disk # None /\ Send(c, "fetch", disk) /\ UNCHANGED map
    BY <1>4 DEF MapAsks, roots
  <2>2. a = session
    BY <1>1, <2>1 DEF Mine
  <2>3. players' \in SUBSET Accounts /\ linked' \in BOOLEAN
    BY <1>2 DEF TypeOK
  <2> QED BY <1>1, <1>2, <1>3, <2>1, <2>2, <2>3, SendStep
<1>5. CASE MapAnswered(c)
  <2>1. /\ calls' = [calls EXCEPT ![c] = Quiet]
        /\ map' \in {map, calls[c].pack} /\ (map' = map \/ calls[c].reply = "done")
    BY <1>5 DEF MapAnswered
  <2>2. Moved(c, None, None, None, None, FALSE)
    BY <1>2, <2>1, EndsMoves
  <2>3. Fine(c, CallOf(None, None, None, None, FALSE), disk')
    <3>1. Fine(c, Quiet, disk')
      BY ConstantsAssumption DEF Fine, Quiet
    <3> QED BY <3>1, QuietIs
  <2>4. InOrder' /\ Latched'
    BY <1>2, <2>2, <2>3, MovedKeepsOrder
  <2>5. Mine(a)'
    BY <1>1, <1>2, <1>3, <2>1, <2>2, MovedKeepsMine, ConstantsAssumption DEF Mine
  <2>6. map' \in PackIds \cup {None}
    BY <1>2, <2>1 DEF TypeOK, CallStates
  <2>7. OtherTypes' /\ RowsOwned' /\ HomeIsRecorded'
    BY <1>2, <2>6 DEF OtherTypes, TypeOK, RowsOwned, HomeIsRecorded
  <2>8. calls' \in [Calls -> CallStates]
    BY <2>2 DEF Moved
  <2> QED BY <2>4, <2>5, <2>7, <2>8, FromParts
<1> QED
  BY <1>4, <1>5

\* What goes on around them: the server's rows, who signs in, a restart.
LEMMA AroundStep ==
    ASSUME PInv, Settled,
           \/ \E k \in PackIds : Lapse(k) \/ Sweep(k)
           \/ \E b \in Accounts : Erase(b) \/ SignIn(b)
           \/ Ship \/ Loading \/ SignOut \/ Restart \/ UNCHANGED vars
    PROVE  PInv'
<1> USE DEF PInv
<1>1. PICK a \in Accounts \cup {None} : Mine(a)
  OBVIOUS
<1>2. ASSUME UNCHANGED <<calls, disk, home, map>>, session' \in {None, a},
             Stays(a), OtherTypes', RowsOwned', HomeIsRecorded'
      PROVE  PInv'
  <2>1. InOrder' /\ Latched'
    BY <1>2, StillInOrder
  <2>2. Mine(a)'
    BY <1>1, <1>2, StillKeepsMine
  <2>3. calls' \in [Calls -> CallStates]
    BY <1>2 DEF TypeOK
  <2> QED BY <1>2, <2>1, <2>2, <2>3, FromParts
<1>3. session \in {None, a}
  BY <1>1 DEF Mine
<1>4. ASSUME NEW k \in PackIds, Lapse(k) PROVE PInv'
  <2>1. /\ UNCHANGED <<session, linked, players, rows, shipped, disk, home, map,
                       calls, trouble>>
        /\ lapsed' = lapsed \cup {k}
    BY <1>4 DEF Lapse, roots
  <2>2. OtherTypes' /\ RowsOwned' /\ HomeIsRecorded'
    BY <2>1 DEF OtherTypes, TypeOK, RowsOwned, HomeIsRecorded
  <2> QED BY <1>2, <1>3, <2>1, <2>2, RowsStay
<1>5. ASSUME NEW k \in PackIds, Sweep(k) PROVE PInv'
  <2>1. /\ UNCHANGED <<session, linked, players, lapsed, shipped, disk, home, map,
                       calls, trouble>>
        /\ rows' = [rows EXCEPT ![k] = None]
    BY <1>5 DEF Sweep, roots
  <2>2. /\ rows' \in [PackIds -> {None} \cup [owner : Accounts, content : Nat]]
        /\ \A j \in PackIds : rows'[j] = None \/ rows'[j] = rows[j]
    BY <2>1 DEF TypeOK
  <2>3. OtherTypes' /\ RowsOwned' /\ HomeIsRecorded'
    BY <2>1, <2>2 DEF OtherTypes, TypeOK, RowsOwned, HomeIsRecorded
  <2> QED BY <1>2, <1>3, <1>5, <2>1, <2>3, SweepStays
<1>6. ASSUME NEW b \in Accounts, Erase(b) PROVE PInv'
  <2>1. /\ UNCHANGED <<session, linked, lapsed, shipped, disk, home, map, calls, trouble>>
        /\ players' = players \ {b}
        /\ rows' = [k \in PackIds |->
              IF rows[k] # None /\ rows[k].owner = b THEN None ELSE rows[k]]
    BY <1>6 DEF Erase, roots
  <2>2. /\ rows' \in [PackIds -> {None} \cup [owner : Accounts, content : Nat]]
        /\ \A j \in PackIds : \/ rows'[j] = None
                              \/ rows'[j] = rows[j] /\ rows[j].owner # b
    BY <2>1 DEF TypeOK
  <2>3. OtherTypes' /\ RowsOwned' /\ HomeIsRecorded'
    BY <2>1, <2>2 DEF OtherTypes, TypeOK, RowsOwned, HomeIsRecorded
  <2> QED BY <1>2, <1>3, <1>6, <2>1, <2>3, EraseStays
<1>7. ASSUME NEW b \in Accounts, SignIn(b) PROVE PInv'
  <2>1. /\ Anew /\ session' = b
        /\ UNCHANGED <<linked, players, rows, lapsed, shipped, disk, home, map, calls, trouble>>
    BY <1>7 DEF SignIn, roots, server
  <2>2. InOrder' /\ Latched'
    BY <2>1, StillInOrder
  <2>3. Mine(b)'
    <3>1. /\ home = None /\ map = None
          /\ \A c \in Calls : calls[c].what = None /\ calls[c].reply = None
      BY <2>1 DEF Anew, roots, Quiet
    <3> QED BY <2>1, <3>1, ConstantsAssumption DEF Mine
  <2>4. OtherTypes' /\ RowsOwned' /\ HomeIsRecorded'
    BY <2>1 DEF OtherTypes, TypeOK, RowsOwned, HomeIsRecorded
  <2>5. calls' \in [Calls -> CallStates]
    BY <2>1 DEF TypeOK
  <2> QED BY <2>2, <2>3, <2>4, <2>5, FromParts
<1>8. CASE Ship
  <2>1. /\ UNCHANGED <<session, linked, players, rows, lapsed, disk, home, map, calls, trouble>>
        /\ shipped' = shipped + 1 /\ shipped \in Nat
    BY <1>8 DEF Ship, roots, TypeOK
  <2>2. RowsOwned'
    <3>1. \A k \in PackIds : rows[k] # None => rows[k].content \in Nat
      BY DEF TypeOK
    <3> QED BY <2>1, <3>1 DEF RowsOwned
  <2>3. HomeIsRecorded'
    <3>1. home # None /\ rows[home] # None =>
             rows[home].content \in Nat /\ rows[home].content <= shipped
      BY DEF TypeOK, RowsOwned
    <3> QED BY <2>1, <3>1 DEF HomeIsRecorded
  <2>4. OtherTypes'
    BY <2>1 DEF OtherTypes, TypeOK
  <2> QED BY <1>2, <1>3, <1>8, <2>1, <2>2, <2>3, <2>4, ShipStays
<1>9. CASE Loading \/ SignOut \/ UNCHANGED vars
  <2>1. /\ UNCHANGED <<players, rows, lapsed, shipped, disk, home, map, calls, trouble>>
        /\ session' \in {None, session} /\ linked' \in BOOLEAN
    BY <1>9 DEF Loading, SignOut, vars, roots, server, TypeOK
  <2>2. OtherTypes' /\ RowsOwned' /\ HomeIsRecorded'
    BY <2>1 DEF OtherTypes, TypeOK, RowsOwned, HomeIsRecorded
  <2> QED BY <1>2, <1>3, <2>1, <2>2, RowsStay
<1>10. CASE Restart
  <2>1. /\ UNCHANGED <<players, rows, lapsed, shipped, disk, trouble>>
        /\ session' = None /\ linked' = FALSE /\ home' = None /\ map' = None
        /\ calls' = [c \in Calls |-> Quiet]
    BY <1>10 DEF Restart, server
  <2>2. InOrder' /\ Latched'
    <3>1. \A c \in Calls : Fine(c, Quiet, disk')
      BY ConstantsAssumption DEF Fine, Quiet
    <3>2. \A c \in Calls : calls'[c].what = None
      BY <2>1 DEF Quiet
    <3> QED BY <2>1, <3>1, <3>2, ConstantsAssumption DEF InOrder, Latched, Busy, Calls
  <2>3. Mine(a)'
    <3>1. \A c \in Calls : calls'[c].what = None /\ calls'[c].reply = None
      BY <2>1 DEF Quiet
    <3> QED BY <2>1, <3>1, ConstantsAssumption DEF Mine
  <2>4. OtherTypes' /\ RowsOwned' /\ HomeIsRecorded'
    BY <2>1 DEF OtherTypes, TypeOK, RowsOwned, HomeIsRecorded
  <2>5. calls' \in [Calls -> CallStates]
    BY <2>1, QuietIs
  <2> QED BY <2>2, <2>3, <2>4, <2>5, FromParts
<1> QED
  BY <1>4, <1>5, <1>6, <1>7, <1>8, <1>9, <1>10

\* Every step keeps the invariant.
LEMMA PInvStep == ASSUME Settled, PInv, [Next]_vars PROVE PInv'
<1>1. CASE \E c \in Calls : ServeFetch(c) \/ ServeIssue(c)
  BY <1>1, ServerStep
<1>2. CASE \E c \in Asks : Link(c) \/ Renew(c)
  BY <1>2, AskStep
<1>3. CASE \E c \in Asks : \/ Decide(c) \/ GoWrong(c) \/ FetchAnswered(c)
                           \/ IssueAnswered(c) \/ Adopt(c)
  BY <1>3, HomeStep
<1>4. CASE \E c \in Fetches : MapAsks(c) \/ MapAnswered(c)
  BY <1>4, MapStep
<1>5. CASE \/ \E k \in PackIds : Lapse(k) \/ Sweep(k)
           \/ \E b \in Accounts : Erase(b) \/ SignIn(b)
           \/ Ship \/ Loading \/ SignOut \/ Restart \/ UNCHANGED vars
  BY <1>5, AroundStep
<1> QED
  BY <1>1, <1>2, <1>3, <1>4, <1>5 DEF Next

\* The app starts with nothing in play or on its way.
LEMMA PInvInit == Init => PInv
<1> SUFFICES ASSUME Init PROVE PInv
  OBVIOUS
<1>1. \A c \in Calls : calls[c] = Quiet /\ calls[c].what = None /\ calls[c].reply = None
  BY DEF Init, Quiet
<1>2. InOrder
  <2>1. \A c \in Calls : Fine(c, Quiet, disk)
    BY ConstantsAssumption DEF Fine, Quiet
  <2> QED BY <1>1, <2>1 DEF InOrder
<1>3. Latched
  BY <1>1, ConstantsAssumption DEF Latched, Busy, Calls
<1>4. \A k \in PackIds : rows[k] # None =>
         rows[k].owner \in players /\ rows[k].content = 1
  BY DEF Init
<1>5. RowsOwned /\ HomeIsRecorded
  BY <1>4 DEF Init, RowsOwned, HomeIsRecorded
<1>6. Mine(None)
  BY <1>1, ConstantsAssumption DEF Init, Mine
<1>7. OtherTypes
  <2>1. rows \in [PackIds -> {None} \cup [owner : Accounts, content : Nat]]
    BY DEF Init
  <2> QED BY <2>1, ConstantsAssumption DEF Init, OtherTypes
<1>8. calls \in [Calls -> CallStates]
  BY QuietIs DEF Init
<1> QED
  BY <1>2, <1>3, <1>5, <1>6, <1>7, <1>8, TypesOfParts DEF PInv

\* The invariant always holds.
LEMMA PInvAlways == ASSUME Settled PROVE Spec => []PInv
<1>1. PInv /\ [Next]_vars => PInv'
  BY PInvStep
<1> QED
  BY <1>1, PInvInit, PTL DEF Spec

\* Types, whatever becomes of requests, rows and accounts.
THEOREM PacksTyping == ASSUME Settled PROVE Spec => []TypeOK
<1>1. PInv => TypeOK
  BY DEF PInv
<1> QED
  BY <1>1, PInvAlways, PTL

\* Whatever is in play can be graded, and what the home plays is what the next
\* launch would fetch.
THEOREM PlayIsAlwaysSound == ASSUME Settled PROVE Spec => []PlayIsSound
<1>1. PInv => PlayIsSound
  <2> SUFFICES ASSUME PInv PROVE PlayedIsGradeable
    BY DEF PlayIsSound, PInv
  <2> SUFFICES ASSUME NEW k \in {home, map} \ {None}, session \in players, k \notin lapsed
               PROVE  rows[k] # None /\ rows[k].owner = session
    BY DEF PlayedIsGradeable
  <2>1. PICK a \in Accounts \cup {None} : Mine(a)
    BY DEF PInv
  <2>2. session # None /\ session = a
    BY <2>1, ConstantsAssumption DEF PInv, TypeOK, Mine
  <2>3. Held(k, a)
    BY <2>1 DEF Mine
  <2> QED BY <2>2, <2>3 DEF Held
<1> QED
  BY <1>1, PInvAlways, PTL

\* An id that would still fetch a pack is not dropped or replaced.
THEOREM GoodIdsAreKept == ASSUME Settled PROVE Spec => ReplacedOnlyWhenGone
<1>1. PInv /\ [Next]_vars => [disk # None /\ Holds(session, disk) => disk' = disk]_vars
  <2> SUFFICES ASSUME PInv, Next, disk # None, Holds(session, disk), disk' # disk
               PROVE  FALSE
    OBVIOUS
  <2>1. PICK a \in Accounts \cup {None} : Mine(a)
    BY DEF PInv
  <2>2. session = a /\ Fetchable(disk, a)
    BY <2>1, ConstantsAssumption DEF PInv, TypeOK, Mine, Holds, Fetchable
  <2>3. PICK c \in Asks : FetchAnswered(c) \/ IssueAnswered(c)
    BY DEF Next, ServeFetch, ServeIssue, Link, Renew, Decide, GoWrong, Adopt, MapAsks,
           MapAnswered, MapKeeps, Lapse, Sweep, Erase, SignIn, Ship, Loading, SignOut,
           Restart
  <2>4. Fine(c, calls[c], disk) /\ c \in Calls
    BY DEF PInv, InOrder, Calls
  <2>5. CASE FetchAnswered(c)
    <3>1. calls[c].reply = "gone" /\ calls[c].pack = disk
      BY <2>4, <2>5 DEF FetchAnswered, IsGone, Fine
    <3> QED BY <2>1, <2>2, <2>4, <3>1 DEF Mine
  <2>6. CASE IssueAnswered(c)
    BY <2>4, <2>6 DEF IssueAnswered, Fine
  <2> QED BY <2>3, <2>5, <2>6
<1> QED
  BY <1>1, PInvAlways, PTL DEF Spec, ReplacedOnlyWhenGone

-----------------------------------------------------------------------------
(***************************************************************************)
(* Content, for every declaration, tree and drawing.  The invariant has    *)
(* two parts that do not meet: what is on disk, which only the verdict and *)
(* the order of the writes decide, and where each item came from, which    *)
(* grading rests on.                                                       *)
(***************************************************************************)

-----------------------------------------------------------------------------
(* Sequences of anything. *)

\* A sequence over any set is a sequence of its own members.
LEMMA OfItsOwn ==
    ASSUME NEW R, NEW t, t \in Seq(R)
    PROVE  IsSequence(t)
<1> DEFINE T == {t[i] : i \in DOMAIN t}
<1>1. t \in [1..Len(t) -> R] /\ Len(t) \in Nat /\ DOMAIN t = 1..Len(t)
  BY LenProperties
<1>2. \A i \in 1..Len(t) : t[i] \in T
  BY <1>1
<1>3. IsSequence(t) <=> t \in Seq(T)
  BY DEF IsSequence
<1> HIDE DEF T
<1>4. t \in [1..Len(t) -> T]
  BY <1>1, <1>2
<1> QED
  BY <1>1, <1>3, <1>4

\* The places of a sequence.
LEMMA DomainOf ==
    ASSUME NEW s, IsSequence(s)
    PROVE  DOMAIN s = 1..Len(s) /\ Len(s) \in Nat
  BY LenProperties DEF IsSequence

\* Appending keeps what was there and adds one place.
LEMMA AppendFacts ==
    ASSUME NEW s, NEW e, IsSequence(s)
    PROVE  /\ IsSequence(Append(s, e))
           /\ Len(Append(s, e)) = Len(s) + 1
           /\ DOMAIN Append(s, e) = 1..(Len(s) + 1)
           /\ \A i \in DOMAIN s : Append(s, e)[i] = s[i]
           /\ Append(s, e)[Len(s) + 1] = e
           /\ DOMAIN s = 1..Len(s) /\ Len(s) \in Nat
<1> DEFINE R == {s[i] : i \in DOMAIN s} \cup {e}
           t == Append(s, e)
<1>1. s \in Seq(R) /\ e \in R
  <2>1. s \in Seq({s[i] : i \in DOMAIN s})
    BY DEF IsSequence
  <2> QED BY <2>1
<1>2. t \in Seq(R)
  BY <1>1
<1>3. Len(t) = Len(s) + 1 /\ DOMAIN t = 1..(Len(s) + 1)
  BY <1>1
<1>4. \A i \in DOMAIN s : t[i] = s[i]
  BY <1>1
<1>5. t[Len(s) + 1] = e
  BY <1>1
<1>6. IsSequence(t)
  BY <1>2, OfItsOwn
<1> QED
  BY <1>1, <1>3, <1>4, <1>5, <1>6

\* So does concatenating.
LEMMA ConcatFacts ==
    ASSUME NEW s, NEW u, IsSequence(s), IsSequence(u)
    PROVE  /\ IsSequence(s \o u)
           /\ Len(s \o u) = Len(s) + Len(u)
           /\ DOMAIN (s \o u) = 1..(Len(s) + Len(u))
           /\ \A i \in DOMAIN s : (s \o u)[i] = s[i]
           /\ \A i \in (Len(s) + 1)..(Len(s) + Len(u)) :
                 (s \o u)[i] = u[i - Len(s)] /\ i - Len(s) \in DOMAIN u
           /\ DOMAIN s = 1..Len(s) /\ Len(s) \in Nat
           /\ DOMAIN u = 1..Len(u) /\ Len(u) \in Nat
<1> DEFINE R == {s[i] : i \in DOMAIN s} \cup {u[i] : i \in DOMAIN u}
           t == s \o u
<1>1. s \in Seq(R) /\ u \in Seq(R)
  <2>1. s \in Seq({s[i] : i \in DOMAIN s}) /\ u \in Seq({u[i] : i \in DOMAIN u})
    BY DEF IsSequence
  <2> QED BY <2>1
<1>2. t \in Seq(R) /\ Len(t) = Len(s) + Len(u)
  BY <1>1
<1>3. DOMAIN s = 1..Len(s) /\ DOMAIN u = 1..Len(u) /\ DOMAIN t = 1..Len(t)
      /\ Len(s) \in Nat /\ Len(u) \in Nat
  BY <1>1, <1>2
<1>4. \A i \in DOMAIN s : t[i] = s[i]
  BY <1>1, <1>3
<1>5. \A i \in (Len(s) + 1)..(Len(s) + Len(u)) :
         t[i] = u[i - Len(s)] /\ i - Len(s) \in DOMAIN u
  BY <1>1, <1>3
<1>6. IsSequence(t)
  BY <1>2, OfItsOwn
<1> QED
  BY <1>2, <1>3, <1>4, <1>5, <1>6

-----------------------------------------------------------------------------
(* Spelling. *)

\* What the builder stores for a whole answer is what canonicalize returns for
\* it, so the right answer can always be typed.
THEOREM WholeAnswerIsCanonical ==
    \A n \in Int : StoredCanonical(WholeAnswer(n))
<1> SUFFICES ASSUME NEW n \in Int PROVE StoredCanonical(WholeAnswer(n))
  OBVIOUS
<1>1. Magnitude(n) \in Nat /\ Magnitude(n) # NoDigits
  BY DEF Magnitude, NoDigits
<1>2. SignOf(n) \in {"none", "hyphen"}
  BY DEF SignOf
<1> QED
  BY <1>1, <1>2 DEF StoredCanonical, Accepted, Canonical, WholeAnswer, Joined

\* Two whole answers spelled alike are one.
THEOREM SpelledAlike ==
    \A m, n \in Int : WholeAnswer(m) = WholeAnswer(n) => m = n
<1> SUFFICES ASSUME NEW m \in Int, NEW n \in Int,
                    WholeAnswer(m) = WholeAnswer(n)
             PROVE  m = n
  OBVIOUS
<1>1. WholeAnswer(m).num = Magnitude(m) /\ WholeAnswer(n).num = Magnitude(n)
  BY DEF WholeAnswer, Joined
<1>2. /\ WholeAnswer(m).minus = IF Magnitude(m) = 0 THEN "none" ELSE SignOf(m)
      /\ WholeAnswer(n).minus = IF Magnitude(n) = 0 THEN "none" ELSE SignOf(n)
  BY DEF WholeAnswer, Joined
<1> QED
  BY <1>1, <1>2 DEF Magnitude, SignOf

\* The distractors of a generated item never meet its answer or each other.
LEMMA DistractorsKeepApart ==
    ASSUME NEW ref, NEW salt
    PROVE  DistractorFault(FromTemplate(ref, salt)) = "none"
<1> DEFINE correct == StoredAnswer(Difference(ref), 1)
           p == PredictDistractors(Asked(ref), correct)
           item == FromTemplate(ref, salt)
           c == Candidates(Asked(ref))
<1>1. /\ item.diagnosis = [i \in DOMAIN p |->
                             [digest |-> Digest(salt, p[i].answer),
                              misconception |-> p[i].misconception]]
      /\ item.answer.digest = Digest(salt, correct)
  BY DEF FromTemplate
<1>2. c = <<c[1], c[2]>>
  BY DEF Candidates
<1>3. /\ \A i \in DOMAIN p : p[i].answer # correct
      /\ \A i, j \in DOMAIN p : i < j => p[i].answer # p[j].answer
  <2> HIDE DEF correct
  <2> DEFINE a == c[1]
             b == c[2]
  <2>1. p = LET first == IF a.answer # correct THEN <<a>> ELSE <<>>
            IN  IF b.answer \in {correct, a.answer} THEN first ELSE Append(first, b)
    BY DEF PredictDistractors
  <2> HIDE DEF a, b, p
  <2>2. CASE a.answer # correct /\ b.answer \in {correct, a.answer}
    <3>1. p = <<a>>
      BY <2>1, <2>2
    <3> QED BY <3>1, <2>2
  <2>3. CASE a.answer # correct /\ b.answer \notin {correct, a.answer}
    <3>1. p = Append(<<a>>, b)
      BY <2>1, <2>3
    <3>2. <<a>> \in Seq({a, b}) /\ b \in {a, b} /\ Len(<<a>>) = 1 /\ <<a>>[1] = a
      OBVIOUS
    <3>3. p \in Seq({a, b}) /\ Len(p) = 2 /\ p[1] = a /\ p[2] = b
      BY <3>1, <3>2, AppendProperties
    <3>4. DOMAIN p = {1, 2}
      BY <3>3, LenProperties
    <3> QED BY <3>3, <3>4, <2>3
  <2>4. CASE a.answer = correct /\ b.answer \in {correct, a.answer}
    <3>1. p = <<>>
      BY <2>1, <2>4
    <3> QED BY <3>1
  <2>5. CASE a.answer = correct /\ b.answer \notin {correct, a.answer}
    <3>1. p = Append(<<>>, b)
      BY <2>1, <2>5
    <3>2. p = <<b>>
      BY <3>1
    <3> QED BY <3>2, <2>5
  <2> QED BY <2>2, <2>3, <2>4, <2>5
<1> HIDE DEF p, item, correct, c
<1>4. \A i \in DOMAIN p : item.diagnosis[i].digest = <<salt, p[i].answer>>
  BY <1>1 DEF Digest
<1>5. DOMAIN item.diagnosis = DOMAIN p /\ item.answer.digest = <<salt, correct>>
  BY <1>1 DEF Digest
<1> QED
  BY <1>3, <1>4, <1>5 DEF DistractorFault, item

-----------------------------------------------------------------------------
(* What is on disk. *)

Ready == phase \in {"built", "writing", "written"}

DiskInv ==
    /\ ArtifactIsWhole
    /\ Ready => Faults(PackOf) = {}
    /\ phase = "written" => temp = Whole(PackOf)

\* Nothing is on disk at the start.
LEMMA DiskInvInit == ContentInit => DiskInv
  BY DEF ContentInit, DiskInv, ArtifactIsWhole, Ready, Absent, Torn

\* A refusal leaves the disk alone.
LEMMA RefuseKeepsDisk ==
    ASSUME DiskInv, NEW why, Refuse(why)
    PROVE  DiskInv'
  BY DEF Refuse, Cleared, DiskInv, ArtifactIsWhole, Ready, onDisk, Torn

\* So does a step of the walk over the sources.
LEMMA WalkKeepsDisk ==
    ASSUME DiskInv, UNCHANGED onDisk, phase' \in {"idle", "sources"}
    PROVE  DiskInv'
  BY DEF DiskInv, ArtifactIsWhole, Ready, onDisk, Torn

\* Only Rename changes the artifact, and what it moves there was written whole.
LEMMA DiskInvStep == DiskInv /\ [ContentNext]_contentVars => DiskInv'
<1> SUFFICES ASSUME DiskInv, [ContentNext]_contentVars PROVE DiskInv'
  OBVIOUS
<1>1. CASE UNCHANGED contentVars
  BY <1>1 DEF contentVars, onDisk, built, DiskInv, ArtifactIsWhole, Ready, PackOf, Torn
<1>2. CASE Edit
  BY <1>2 DEF Edit, onDisk, built, DiskInv, ArtifactIsWhole, Ready, PackOf, Torn
<1>3. CASE Start
  <2>1. (\E why \in {"declaration", "template"} : Refuse(why))
        \/ (UNCHANGED onDisk /\ phase' = "sources")
    BY <1>3 DEF Start, onDisk
  <2> QED BY <2>1, RefuseKeepsDisk, WalkKeepsDisk
<1>4. CASE Generate
  <2>1. (\E why \in {"seed", "misconception"} : Refuse(why))
        \/ (UNCHANGED onDisk /\ phase' = phase /\ phase = "sources")
    BY <1>4 DEF Generate, At, onDisk
  <2> QED BY <2>1, RefuseKeepsDisk, WalkKeepsDisk
<1>5. CASE Lift
  <2>1. Refuse("authored")
        \/ (UNCHANGED onDisk /\ phase' = phase /\ phase = "sources")
    BY <1>5 DEF Lift, At, onDisk
  <2> QED BY <2>1, RefuseKeepsDisk, WalkKeepsDisk
<1>6. CASE Carry
  <2>1. Refuse("puzzles")
        \/ (UNCHANGED onDisk /\ phase' = phase /\ phase = "sources")
    BY <1>6 DEF Carry, At, onDisk
  <2> QED BY <2>1, RefuseKeepsDisk, WalkKeepsDisk
<1>7. CASE Assemble
  <2>1. CASE \E why \in {"fallback"} \cup Faults(PackOf) : Refuse(why)
    BY <2>1, RefuseKeepsDisk
  <2>2. CASE Faults(PackOf) = {} /\ phase' = "built" /\ UNCHANGED <<onDisk, built>>
    BY <2>2 DEF onDisk, built, DiskInv, ArtifactIsWhole, Ready, PackOf, Torn
  <2> QED BY <1>7, <2>1, <2>2 DEF Assemble, onDisk, built
<1>8. CASE Open
  BY <1>8 DEF Open, built, DiskInv, ArtifactIsWhole, Ready, PackOf, Torn
<1>9. CASE Write
  <2>1. PackOf' = PackOf
    BY <1>9 DEF Write, built, PackOf
  <2> QED BY <1>9, <2>1 DEF Write, DiskInv, ArtifactIsWhole, Ready, Whole, Torn
<1>10. CASE Rename
  <2>1. out' = Whole(PackOf) /\ Faults(PackOf) = {} /\ phase' = "idle"
    BY <1>10 DEF Rename, Cleared, DiskInv, Ready
  <2>2. Whole(PackOf).state = "whole" /\ Whole(PackOf).pack = PackOf
    BY DEF Whole
  <2>3. out' # Torn
    BY <2>1, <2>2 DEF Torn
  <2>4. out'.state = "whole" => Faults(out'.pack) = {}
    BY <2>1, <2>2
  <2>5. ArtifactIsWhole'
    BY <2>3, <2>4 DEF ArtifactIsWhole, Torn, Faults, DistractorFault, Steps
  <2> QED BY <2>1, <2>5 DEF DiskInv, Ready
<1>11. CASE WriteFails
  BY <1>11 DEF WriteFails, Cleared, DiskInv, ArtifactIsWhole, Ready, Torn
<1>12. CASE Die
  BY <1>12 DEF Die, Cleared, onDisk, DiskInv, ArtifactIsWhole, Ready, Torn
<1> QED
  BY <1>1, <1>2, <1>3, <1>4, <1>5, <1>6, <1>7, <1>8, <1>9, <1>10, <1>11, <1>12
     DEF ContentNext

\* The committed artifact is never part of a pack, nor one a reader refuses.
THEOREM ArtifactAlwaysWhole == ContentSpec => []ArtifactIsWhole
<1>1. DiskInv => ArtifactIsWhole
  BY DEF DiskInv
<1> QED
  BY <1>1, DiskInvInit, DiskInvStep, PTL DEF ContentSpec

-----------------------------------------------------------------------------
(* Where each item came from. *)

ComesFrom(i) ==
    /\ made[i].by \in {"template", "author"}
    /\ DistractorFault(items[i]) = "none"
    /\ items[i].answer.digest = Digest(plan.salt, Expected(made[i]))
    /\ made[i].by = "template" =>
          /\ InColumn(made[i].ref.seed)
          /\ made[i].ref.seed < plan.seedBase + generated

SeedsRise ==
    \A i, j \in DOMAIN made :
        (i < j /\ made[i].by = "template" /\ made[j].by = "template")
            => made[i].ref.seed < made[j].ref.seed

OriginInv ==
    /\ phase # "idle" => plan \in Declarations
    /\ files \in Trees /\ declaration \in Declarations
    /\ generated \in Nat /\ source \in Nat \ {0}
    /\ IsSequence(items) /\ IsSequence(made) /\ Len(made) = Len(items)
    /\ phase = "idle" => items = <<>> /\ made = <<>> /\ generated = 0
    /\ \A i \in DOMAIN made : ComesFrom(i)
    /\ SeedsRise
    /\ CoincidenceNeverRefuses

\* The empty sequence, which a build starts from.
LEMMA NothingYet ==
    IsSequence(<<>>) /\ Len(<<>>) = 0 /\ DOMAIN <<>> = {}
<1>1. Len(<<>>) = 0 /\ <<>> \in Seq({})
  OBVIOUS
<1>2. DOMAIN <<>> = {}
  BY <1>1, LenProperties
<1>3. IsSequence(<<>>)
  BY <1>1, OfItsOwn
<1> QED
  BY <1>1, <1>2, <1>3

\* A build starts from no item.
LEMMA OriginInvInit == ContentInit => OriginInv
  BY NothingYet DEF ContentInit, OriginInv, ComesFrom, SeedsRise, CoincidenceNeverRefuses

\* A step that ends the build, for a reason that is not a coincidence.
LEMMA ClearedKeepsOrigin ==
    ASSUME OriginInv, Cleared, UNCHANGED workingTree, CoincidenceNeverRefuses'
    PROVE  OriginInv'
  BY NothingYet DEF Cleared, OriginInv, ComesFrom, InColumn, SeedsRise, workingTree

\* A step that neither draws an item nor starts or ends the build.
LEMMA StillKeepsOrigin ==
    ASSUME OriginInv, UNCHANGED <<items, made, generated, plan, refusal>>, source' \in Nat \ {0},
           files' \in Trees, declaration' \in Declarations,
           phase' = "idle" <=> phase = "idle"
    PROVE  OriginInv'
  BY DEF OriginInv, ComesFrom, InColumn, SeedsRise, CoincidenceNeverRefuses, Expected

\* Lift adds to the items, at their end, what an author wrote: an item with the
\* digest of the answer given and no distractor.
LEMMA LiftExtends ==
    ASSUME OriginInv, Lift, ~Refuse("authored")
    PROVE  LET n == Len(made)
           IN  /\ UNCHANGED <<workingTree, phase, refusal, plan, generated>>
               /\ phase = "sources" /\ source' = source + 1
               /\ IsSequence(items') /\ IsSequence(made') /\ Len(made') = Len(items')
               /\ n \in Nat /\ Len(made') \in Nat /\ n <= Len(made')
               /\ DOMAIN made = 1..n /\ DOMAIN made' = 1..Len(made')
               /\ \A i \in 1..n : made'[i] = made[i] /\ items'[i] = items[i]
               /\ \A i \in (n + 1)..Len(made') :
                     /\ made'[i].by = "author"
                     /\ DistractorFault(items'[i]) = "none"
                     /\ items'[i].answer.digest = Digest(plan.salt, made'[i].answer)
<1> DEFINE s == plan.sources[source]
           list == files[s.path].items
           more == [i \in DOMAIN list |-> LiftAuthored(list[i], s.skill, plan.salt)]
           from == [i \in DOMAIN list |->
                      [by |-> "author", answer |-> list[i].answer]]
           n == Len(made)
<1>1. /\ items' = items \o more /\ made' = made \o from
      /\ UNCHANGED <<workingTree, phase, refusal, plan, generated>>
      /\ phase = "sources" /\ source <= Len(plan.sources)
      /\ s.kind = "authored" /\ source' = source + 1
  BY DEF Lift, At, NextSource
<1>2. IsSequence(list)
  <2>1. plan \in Declarations /\ source \in Nat \ {0} /\ files \in Trees
    BY <1>1 DEF OriginInv
  <2>2. IsSequence(plan.sources)
    BY <2>1, ContentAssumption
  <2>3. source \in DOMAIN plan.sources
    <3>1. /\ DOMAIN plan.sources = 1..Len(plan.sources)
          /\ Len(plan.sources) \in Nat
      BY <2>2, DomainOf, Zenon
    <3>2. source <= Len(plan.sources)
      BY <1>1
    <3> QED BY <2>1, <3>1, <3>2
  <2>4. s.path \in Paths
    BY <1>1, <2>1, <2>3, ContentAssumption DEF IsSource
  <2> QED BY <2>1, <2>4, ContentAssumption
<1>3. IsSequence(more) /\ IsSequence(from) /\ Len(more) = Len(from)
      /\ DOMAIN more = DOMAIN list /\ DOMAIN from = DOMAIN list
  <2>1. DOMAIN list = 1..Len(list) /\ Len(list) \in Nat
    BY <1>2, DomainOf
  <2>2. DOMAIN more = 1..Len(list) /\ DOMAIN from = 1..Len(list)
    BY <2>1
  <2>3. \A f : f \in [1..Len(list) -> {f[i] : i \in 1..Len(list)}] =>
                 f \in Seq({f[i] : i \in 1..Len(list)}) /\ Len(f) = Len(list)
    BY <2>1
  <2>4. /\ more \in [1..Len(list) -> {more[i] : i \in 1..Len(list)}]
        /\ from \in [1..Len(list) -> {from[i] : i \in 1..Len(list)}]
    BY <2>2
  <2> QED BY <2>2, <2>3, <2>4, OfItsOwn
<1>4. \A i \in DOMAIN list :
         /\ from[i].by = "author"
         /\ DistractorFault(more[i]) = "none"
         /\ more[i].answer.digest = Digest(plan.salt, from[i].answer)
  BY NothingYet DEF LiftAuthored, DistractorFault
<1> HIDE DEF more, from
<1>5. /\ IsSequence(items) /\ IsSequence(made) /\ Len(items) = n
  BY DEF OriginInv
<1>6. /\ IsSequence(items') /\ IsSequence(made')
      /\ Len(made') = Len(items') /\ n \in Nat /\ Len(from) \in Nat
      /\ DOMAIN made' = 1..(n + Len(from)) /\ DOMAIN made = 1..n
      /\ \A i \in 1..n : made'[i] = made[i] /\ items'[i] = items[i]
      /\ \A i \in (n + 1)..(n + Len(from)) :
            /\ made'[i] = from[i - n] /\ items'[i] = more[i - n]
            /\ i - n \in DOMAIN list
  <2> HIDE DEF list
  <2>1. /\ IsSequence(items \o more) /\ Len(items \o more) = Len(items) + Len(more)
        /\ \A i \in DOMAIN items : (items \o more)[i] = items[i]
        /\ \A i \in (Len(items) + 1)..(Len(items) + Len(more)) :
              (items \o more)[i] = more[i - Len(items)]
        /\ DOMAIN items = 1..Len(items)
    BY <1>3, <1>5, ConcatFacts, Zenon
  <2>2. /\ IsSequence(made \o from) /\ Len(made \o from) = n + Len(from)
        /\ DOMAIN (made \o from) = 1..(n + Len(from)) /\ DOMAIN made = 1..n
        /\ n \in Nat /\ Len(from) \in Nat
        /\ \A i \in DOMAIN made : (made \o from)[i] = made[i]
        /\ \A i \in (n + 1)..(n + Len(from)) :
              (made \o from)[i] = from[i - n] /\ i - n \in DOMAIN from
    BY <1>3, <1>5, ConcatFacts, Zenon
  <2>3. items' = items \o more /\ made' = made \o from
    BY <1>1
  <2> HIDE DEF n
  <2>4. /\ IsSequence(items') /\ Len(items') = n + Len(from)
        /\ \A i \in 1..n : items'[i] = items[i]
        /\ \A i \in (n + 1)..(n + Len(from)) : items'[i] = more[i - n]
    BY <1>3, <1>5, <2>1, <2>3
  <2> QED BY <1>3, <2>2, <2>3, <2>4
<1>7. Len(made') = n + Len(from)
  BY <1>6, DomainOf
<1>8. \A i \in (n + 1)..Len(made') :
         /\ made'[i].by = "author"
         /\ DistractorFault(items'[i]) = "none"
         /\ items'[i].answer.digest = Digest(plan.salt, made'[i].answer)
  <2> HIDE DEF list, s, n
  <2> QED BY <1>4, <1>6, <1>7
<1>9. n \in Nat /\ Len(made') \in Nat /\ n <= Len(made')
  <2> HIDE DEF list, s, n
  <2> QED BY <1>6, <1>7
<1> QED
  BY <1>1, <1>6, <1>7, <1>8, <1>9, Zenon

\* Generate and Lift keep the origin of each item; no other step draws one.
LEMMA OriginInvStep == OriginInv /\ [ContentNext]_contentVars => OriginInv'
<1> SUFFICES ASSUME OriginInv, [ContentNext]_contentVars PROVE OriginInv'
  OBVIOUS
<1> USE DEF workingTree
<1>1. CASE UNCHANGED contentVars
  BY <1>1, StillKeepsOrigin DEF contentVars, built, OriginInv
<1>2. CASE Edit
  BY <1>2, StillKeepsOrigin DEF Edit, built, OriginInv
<1>3. CASE Start
  <2>1. CASE \E why \in {"declaration", "template"} : Refuse(why)
    BY <1>3, <2>1, ClearedKeepsOrigin DEF Start, Refuse, CoincidenceNeverRefuses
  <2>2. CASE /\ phase = "idle" /\ phase' = "sources"
             /\ plan' = declaration /\ refusal' = "none"
             /\ UNCHANGED <<workingTree, source, items, made, generated>>
    BY <2>2, NothingYet
       DEF OriginInv, ComesFrom, InColumn, SeedsRise, CoincidenceNeverRefuses
  <2> QED BY <1>3, <2>1, <2>2 DEF Start
<1>4. CASE Generate
  <2>1. CASE \E why \in {"seed", "misconception"} : Refuse(why)
    BY <1>4, <2>1, ClearedKeepsOrigin DEF Generate, At, Refuse, CoincidenceNeverRefuses
  <2>2. CASE ~\E why \in {"seed", "misconception"} : Refuse(why)
    <3>1. PICK ref :
            /\ ref.seed = plan.seedBase + generated /\ InColumn(ref.seed)
            /\ items' = Append(items, FromTemplate(ref, plan.salt))
            /\ made' = Append(made, [by |-> "template", ref |-> ref])
            /\ generated' = generated + 1 /\ source' \in {source, source + 1}
            /\ UNCHANGED <<workingTree, phase, refusal, plan>>
      BY <1>4, <2>2 DEF Generate, At, SeedOfNext, SeedAt, NextSource
    <3>2. phase = "sources" /\ phase' = "sources" /\ plan \in Declarations
      BY <1>4, <3>1 DEF Generate, At, OriginInv
    <3>3. plan.seedBase \in Int /\ generated \in Nat
      BY <3>2, ContentAssumption DEF OriginInv
    <3> DEFINE item == FromTemplate(ref, plan.salt)
               m == [by |-> "template", ref |-> ref]
               n == Len(made)
    <3>4. /\ DistractorFault(item) = "none"
          /\ item.answer.digest = Digest(plan.salt, Expected(m))
      <4>1. StoredAnswer(Difference(ref), 1) = WholeAnswer(Difference(ref))
        BY DEF StoredAnswer
      <4> QED BY <4>1, DistractorsKeepApart DEF FromTemplate, Expected
    <3>5. m.by = "template" /\ m.ref = ref
      OBVIOUS
    <3> HIDE DEF item, m
    <3>6. /\ items' = Append(items, item) /\ made' = Append(made, m)
          /\ IsSequence(items) /\ IsSequence(made) /\ Len(items) = n
      BY <3>1 DEF item, m, OriginInv
    <3>7. /\ IsSequence(items') /\ IsSequence(made')
          /\ Len(made') = Len(items') /\ n \in Nat
          /\ DOMAIN made' = 1..(n + 1) /\ DOMAIN made = 1..n
          /\ \A i \in 1..n : made'[i] = made[i] /\ items'[i] = items[i]
          /\ made'[n + 1] = m /\ items'[n + 1] = item
      BY <3>6, AppendFacts
    <3>8. \A i \in DOMAIN made' : ComesFrom(i)'
      <4> SUFFICES ASSUME NEW i \in 1..(n + 1) PROVE ComesFrom(i)'
        BY <3>7
      <4>1. CASE i \in 1..n
        <5>1. ComesFrom(i)
          BY <3>7, <4>1 DEF OriginInv
        <5>2. made'[i] = made[i] /\ items'[i] = items[i]
          BY <3>7, <4>1
        <5> QED BY <5>1, <5>2, <3>1, <3>3 DEF ComesFrom, InColumn, Expected
      <4>2. CASE i = n + 1
        <5>1. made'[i] = m /\ items'[i] = item
          BY <3>7, <4>2
        <5>2. Expected(made[i])' = Expected(m)
          BY <5>1 DEF Expected
        <5> QED BY <5>1, <5>2, <3>1, <3>3, <3>4, <3>5 DEF ComesFrom, InColumn
      <4> QED BY <3>7, <4>1, <4>2
    <3>9. SeedsRise'
      <4> SUFFICES ASSUME NEW i \in 1..(n + 1), NEW j \in 1..(n + 1), i < j,
                          made'[i].by = "template", made'[j].by = "template"
                   PROVE  made'[i].ref.seed < made'[j].ref.seed
        BY <3>7 DEF SeedsRise
      <4>1. i \in 1..n /\ made'[i] = made[i]
        BY <3>7
      <4>2. CASE j \in 1..n
        BY <3>7, <4>1, <4>2 DEF SeedsRise, OriginInv
      <4>3. CASE j = n + 1
        BY <3>1, <3>5, <3>7, <4>1, <4>3 DEF ComesFrom, InColumn, OriginInv
      <4> QED BY <3>7, <4>2, <4>3
    <3> QED
      BY <3>1, <3>2, <3>3, <3>7, <3>8, <3>9 DEF OriginInv, CoincidenceNeverRefuses
  <2> QED BY <2>1, <2>2
<1>5. CASE Lift
  <2>1. CASE Refuse("authored")
    BY <1>5, <2>1, ClearedKeepsOrigin DEF Lift, At, Refuse, CoincidenceNeverRefuses
  <2>2. CASE ~Refuse("authored")
    <3> DEFINE n == Len(made)
               k == Len(made')
    <3>1. /\ UNCHANGED <<workingTree, phase, refusal, plan, generated>>
          /\ phase = "sources" /\ source' = source + 1
          /\ IsSequence(items') /\ IsSequence(made') /\ k = Len(items')
          /\ n \in Nat /\ k \in Nat /\ n <= k
          /\ DOMAIN made = 1..n /\ DOMAIN made' = 1..k
          /\ \A i \in 1..n : made'[i] = made[i] /\ items'[i] = items[i]
          /\ \A i \in (n + 1)..k :
                /\ made'[i].by = "author"
                /\ DistractorFault(items'[i]) = "none"
                /\ items'[i].answer.digest = Digest(plan.salt, made'[i].answer)
      BY <1>5, <2>2, LiftExtends
    <3> HIDE DEF n, k
    <3>2. \A i \in DOMAIN made' : ComesFrom(i)'
      <4> SUFFICES ASSUME NEW i \in 1..k PROVE ComesFrom(i)'
        BY <3>1
      <4>1. CASE i \in 1..n
        <5>1. ComesFrom(i) /\ made'[i] = made[i] /\ items'[i] = items[i]
          BY <3>1, <4>1 DEF OriginInv
        <5> QED BY <5>1, <3>1 DEF ComesFrom, InColumn, Expected
      <4>2. CASE i \in (n + 1)..k
        <5>1. Expected(made[i])' = made'[i].answer
          BY <3>1, <4>2 DEF Expected
        <5> QED BY <5>1, <3>1, <4>2 DEF ComesFrom, InColumn
      <4> QED BY <3>1, <4>1, <4>2
    <3>3. SeedsRise'
      <4> SUFFICES ASSUME NEW i \in 1..k, NEW j \in 1..k, i < j,
                          made'[i].by = "template", made'[j].by = "template"
                   PROVE  made'[i].ref.seed < made'[j].ref.seed
        BY <3>1 DEF SeedsRise
      <4>1. i \in 1..n /\ j \in 1..n
        BY <3>1
      <4> QED BY <3>1, <4>1 DEF SeedsRise, OriginInv
    <3> QED
      BY <3>1, <3>2, <3>3 DEF OriginInv, CoincidenceNeverRefuses, workingTree, n, k
  <2> QED BY <2>1, <2>2
<1>6. CASE Carry
  <2>1. CASE Refuse("puzzles")
    BY <1>6, <2>1, ClearedKeepsOrigin DEF Carry, At, Refuse, CoincidenceNeverRefuses
  <2>2. CASE ~Refuse("puzzles")
    <3>1. /\ UNCHANGED <<items, made, generated, plan, refusal, phase>>
          /\ UNCHANGED workingTree /\ source' = source + 1
      BY <1>6, <2>2 DEF Carry, At, NextSource
    <3> QED BY <3>1, StillKeepsOrigin DEF OriginInv
  <2> QED BY <2>1, <2>2
<1>7. CASE Assemble
  <2>1. CASE Refuse("fallback")
    BY <1>7, <2>1, ClearedKeepsOrigin DEF Assemble, Refuse, CoincidenceNeverRefuses
  <2>2. CASE \E fault \in Faults(PackOf) : Refuse(fault)
    <3>1. PICK fault \in Faults(PackOf) : Refuse(fault)
      BY <2>2
    <3>2. fault \in {"schema_violation", "stimulus", "board"}
      <4>1. \A i \in DOMAIN items : DistractorFault(items[i]) = "none"
        BY NothingYet DEF OriginInv, ComesFrom, InColumn, IsSequence
      <4> QED BY <4>1 DEF Faults, PackOf
    <3> QED BY <1>7, <3>1, <3>2, ClearedKeepsOrigin
            DEF Assemble, Refuse, CoincidenceNeverRefuses
  <2>3. CASE phase' = "built" /\ UNCHANGED <<onDisk, refusal, built>>
    BY <1>7, <2>3, StillKeepsOrigin DEF Assemble, built, OriginInv
  <2> QED BY <1>7, <2>1, <2>2, <2>3 DEF Assemble
<1>8. CASE Open \/ Write
  BY <1>8, StillKeepsOrigin DEF Open, Write, built, OriginInv
<1>9. CASE Rename
  BY <1>9, ClearedKeepsOrigin DEF Rename, OriginInv, CoincidenceNeverRefuses
<1>10. CASE WriteFails \/ Die
  BY <1>10, ClearedKeepsOrigin DEF WriteFails, Die, CoincidenceNeverRefuses
<1> QED
  BY <1>1, <1>2, <1>3, <1>4, <1>5, <1>6, <1>7, <1>8, <1>9, <1>10 DEF ContentNext

\* Both hold of every behaviour.
LEMMA OriginInvAlways == ContentSpec => []OriginInv
  BY OriginInvInit, OriginInvStep, PTL DEF ContentSpec

\* What is typed matches an item's digest exactly when it says what was asked,
\* and rederiving the item gives the same verdict as its digest.
THEOREM EveryItemGradesWhatWasAsked == ContentSpec => []GradesWhatWasAsked
<1>1. OriginInv => DigestsGrade
  <2> SUFFICES ASSUME OriginInv, NEW i \in DOMAIN items, NEW raw \in Answers
               PROVE  MatchesDigest(items[i].answer.digest, plan.salt, raw)
                        <=> Accepted(raw) /\ Canonical(raw) = Expected(made[i])
    BY DEF DigestsGrade
  <2>1. i \in DOMAIN made
    BY DEF OriginInv, IsSequence
  <2>2. items[i].answer.digest = Digest(plan.salt, Expected(made[i]))
    BY <2>1 DEF OriginInv, ComesFrom
  <2> QED BY <2>2 DEF MatchesDigest, Digest
<1>2. OriginInv => GradersAgree
  <2> SUFFICES ASSUME OriginInv, NEW i \in DOMAIN items, NEW raw \in Answers,
                      made[i].by = "template"
               PROVE  GradeAnswer(made[i].ref, raw)
                        <=> MatchesDigest(items[i].answer.digest, plan.salt, raw)
    BY DEF GradersAgree
  <2>1. i \in DOMAIN made
    BY DEF OriginInv, IsSequence
  <2>2. items[i].answer.digest = Digest(plan.salt, WholeAnswer(Difference(made[i].ref)))
    BY <2>1 DEF OriginInv, ComesFrom, Expected
  <2> QED BY <2>2 DEF MatchesDigest, Digest, GradeAnswer, StoredAnswer
<1>3. OriginInv => GradesWhatWasAsked
  BY <1>1, <1>2 DEF GradesWhatWasAsked
<1> QED
  BY <1>3, OriginInvAlways, PTL

\* One seed, one item, over the whole of a pack.
THEOREM OneSeedOneItem == ContentSpec => []SeedsNeverRepeat
<1>1. OriginInv => SeedsNeverRepeat
  <2> SUFFICES ASSUME OriginInv, NEW i \in DOMAIN made, NEW j \in DOMAIN made,
                      made[i].by = "template", made[j].by = "template",
                      made[i].ref.seed = made[j].ref.seed
               PROVE  i = j
    BY DEF SeedsNeverRepeat
  <2>1. i \in Int /\ j \in Int /\ made[i].ref.seed \in Int
    BY DEF OriginInv, IsSequence, ComesFrom, InColumn
  <2> QED BY <2>1 DEF OriginInv, SeedsRise
<1> QED
  BY <1>1, OriginInvAlways, PTL

\* No declaration can make a build fail over terms that coincide.
THEOREM NoBuildFailsOverCoincidence == ContentSpec => []CoincidenceNeverRefuses
<1>1. OriginInv => CoincidenceNeverRefuses
  BY DEF OriginInv
<1> QED
  BY <1>1, OriginInvAlways, PTL

-----------------------------------------------------------------------------
(* What a wrong answer is met with. *)

\* A template draws its terms from 1 up (rangeFor in v1.ts), in the
\* column of seeds and on the ladder of steps.
LEMMA TermsArePositive ==
    ASSUME NEW ref, InColumn(ref.seed), ref.step \in Steps
    PROVE  Asked(ref).left \in Nat \ {0} /\ Asked(ref).right \in Nat \ {0}
<1> DEFINE at == <<ref.seed, ref.step>>
<1>1. at \in (SeedMin..SeedMax) \X Steps
  BY DEF InColumn
<1>2. at \in DOMAIN Drawn /\ at[2] \in 1..20
  BY <1>1, ContentAssumption DEF Steps
<1>3. Drawn[at][1] \in 1..(10 * at[2]) /\ Drawn[at][2] \in 1..(10 * at[2])
  BY <1>2, ContentAssumption
<1>4. Drawn[at][1] \in Nat \ {0} /\ Drawn[at][2] \in Nat \ {0}
  BY <1>2, <1>3
<1> HIDE DEF at
<1>5. Asked(ref) \in {[left |-> Drawn[at][1], right |-> Drawn[at][2]],
                      [left |-> Drawn[at][2], right |-> Drawn[at][1]]}
  BY DEF Asked, at
<1> QED
  BY <1>4, <1>5

\* Adding positive terms gives neither their difference nor its reverse, so
\* that distractor is always there; the reversed one is, unless the terms are
\* equal.
LEMMA WhatIsPredicted ==
    ASSUME NEW asked, asked.left \in Nat \ {0}, asked.right \in Nat \ {0}
    PROVE  LET right == asked.left - asked.right
               c == Candidates(asked)
           IN  PredictDistractors(asked, WholeAnswer(right)) =
                   IF right = 0 THEN <<c[2]>> ELSE <<c[1], c[2]>>
<1> DEFINE right == asked.left - asked.right
           c == Candidates(asked)
           p == PredictDistractors(asked, WholeAnswer(right))
<1>1. c[1].answer = WholeAnswer(-right) /\ c[2].answer = WholeAnswer(asked.left + asked.right)
  <2>1. asked.right - asked.left = -right
    OBVIOUS
  <2> QED BY <2>1 DEF Candidates
<1>2. c[2].answer \notin {WholeAnswer(right), c[1].answer}
  <2>1. asked.left + asked.right # right /\ asked.left + asked.right # -right
    OBVIOUS
  <2>2. right \in Int /\ -right \in Int /\ asked.left + asked.right \in Int
    OBVIOUS
  <2> QED BY <1>1, <2>1, <2>2, SpelledAlike
<1>3. c[1].answer = WholeAnswer(right) <=> right = 0
  <2>1. right \in Int /\ -right \in Int /\ (right = -right <=> right = 0)
    OBVIOUS
  <2> QED BY <1>1, <2>1, SpelledAlike
<1>4. p = Append(IF c[1].answer # WholeAnswer(right) THEN <<c[1]>> ELSE <<>>, c[2])
  BY <1>2 DEF PredictDistractors
<1> HIDE DEF c, p, right
<1>5. p = IF right = 0 THEN <<c[2]>> ELSE <<c[1], c[2]>>
  BY <1>3, <1>4
<1> QED
  BY <1>5 DEF c, p, right

\* An item drawn from a template names the slip that gives what was typed.
LEMMA SlipIsNamed ==
    ASSUME NEW ref, NEW salt, NEW typed,
           Asked(ref).left \in Nat \ {0}, Asked(ref).right \in Nat \ {0}
    PROVE  LET asked == Asked(ref)
               right == asked.left - asked.right
               said  == LookupDiagnosis(FromTemplate(ref, salt), Digest(salt, typed))
           IN  /\ said = "subtracted_in_reverse" <=>
                      typed = WholeAnswer(-right) /\ right # 0
               /\ said = "added_instead_of_subtracting" <=>
                      typed = WholeAnswer(asked.left + asked.right)
<1> DEFINE asked == Asked(ref)
           right == asked.left - asked.right
           sum   == asked.left + asked.right
           p     == PredictDistractors(asked, WholeAnswer(right))
           c     == Candidates(asked)
           item  == FromTemplate(ref, salt)
           d     == item.diagnosis
           said  == LookupDiagnosis(item, Digest(salt, typed))
<1>1. d = [i \in DOMAIN p |-> [digest |-> Digest(salt, p[i].answer),
                               misconception |-> p[i].misconception]]
  BY DEF FromTemplate, StoredAnswer, Difference
<1>2. p = IF right = 0 THEN <<c[2]>> ELSE <<c[1], c[2]>>
  BY WhatIsPredicted
<1>3. /\ c[1].answer = WholeAnswer(-right)
      /\ c[2].answer = WholeAnswer(sum)
      /\ c[1].misconception = "subtracted_in_reverse"
      /\ c[2].misconception = "added_instead_of_subtracting"
  <2>1. asked.right - asked.left = -right
    OBVIOUS
  <2> QED BY <2>1 DEF Candidates
<1>4. WholeAnswer(-right) # WholeAnswer(sum)
  <2>1. -right \in Int /\ sum \in Int /\ -right # sum
    OBVIOUS
  <2> QED BY <2>1, SpelledAlike
<1> HIDE DEF p, c, d, right, sum, asked
<1>5. said = IF Labels(item, Digest(salt, typed)) = {} THEN "no_specific_diagnosis"
             ELSE d[CHOOSE i \in Labels(item, Digest(salt, typed)) :
                       \A j \in Labels(item, Digest(salt, typed)) : i <= j].misconception
  BY DEF LookupDiagnosis, d
<1>6. Labels(item, Digest(salt, typed)) = {i \in DOMAIN p : p[i].answer = typed}
  BY <1>1 DEF Labels, Digest, d
<1> HIDE DEF item, said
<1>7. CASE right = 0
  <2>1. p = <<c[2]>> /\ DOMAIN p = {1} /\ p[1] = c[2]
    BY <1>2, <1>7
  <2>2. CASE typed = WholeAnswer(sum)
    <3>1. Labels(item, Digest(salt, typed)) = {1}
      BY <1>3, <1>6, <2>1, <2>2
    <3>2. said = d[1].misconception
      BY <1>5, <3>1
    <3> QED BY <1>1, <1>3, <1>7, <2>1, <2>2, <3>2 DEF asked, right, sum, said, item
  <2>3. CASE typed # WholeAnswer(sum)
    <3>1. Labels(item, Digest(salt, typed)) = {}
      BY <1>3, <1>6, <2>1, <2>3
    <3> QED BY <1>5, <1>7, <2>3, <3>1 DEF asked, right, sum, said, item
  <2> QED BY <2>2, <2>3
<1>8. CASE right # 0
  <2>1. p = <<c[1], c[2]>> /\ DOMAIN p = {1, 2} /\ p[1] = c[1] /\ p[2] = c[2]
    BY <1>2, <1>8
  <2>2. CASE typed = WholeAnswer(-right)
    <3>1. Labels(item, Digest(salt, typed)) = {1}
      BY <1>3, <1>4, <1>6, <2>1, <2>2
    <3>2. said = d[1].misconception
      BY <1>5, <3>1
    <3>3. said = "subtracted_in_reverse" /\ typed # WholeAnswer(sum)
      BY <1>1, <1>3, <1>4, <2>1, <2>2, <3>2
    <3> QED BY <1>8, <2>2, <3>3 DEF asked, right, sum, said, item
  <2>3. CASE typed = WholeAnswer(sum)
    <3>1. Labels(item, Digest(salt, typed)) = {2}
      BY <1>3, <1>4, <1>6, <2>1, <2>3
    <3>2. said = d[2].misconception
      BY <1>5, <3>1
    <3>3. said = "added_instead_of_subtracting" /\ typed # WholeAnswer(-right)
      BY <1>1, <1>3, <1>4, <2>1, <2>3, <3>2
    <3> QED BY <1>8, <2>3, <3>3 DEF asked, right, sum, said, item
  <2>4. CASE typed \notin {WholeAnswer(-right), WholeAnswer(sum)}
    <3>1. Labels(item, Digest(salt, typed)) = {}
      BY <1>3, <1>6, <2>1, <2>4
    <3> QED BY <1>5, <1>8, <2>4, <3>1 DEF asked, right, sum, said, item
  <2> QED BY <2>2, <2>3, <2>4
<1> QED
  BY <1>7, <1>8

\* A build walks a declaration that was parsed, and what it drew from a template
\* is the item as the template answers for it, at a step of the ladder.
DrawnInv ==
    /\ phase # "idle" => Parsed(plan)
    /\ \A i \in DOMAIN made : made[i].by = "template" =>
          /\ items[i] = FromTemplate(made[i].ref, plan.salt)
          /\ made[i].ref.step \in Steps

\* Every step keeps it: Generate draws, Lift adds what has no reference.
LEMMA DrawnInvStep == OriginInv /\ DrawnInv /\ [ContentNext]_contentVars => DrawnInv'
<1> SUFFICES ASSUME OriginInv, DrawnInv, [ContentNext]_contentVars PROVE DrawnInv'
  OBVIOUS
<1> DEFINE DrawnAt(i) == made[i].by = "template" =>
                            /\ items[i] = FromTemplate(made[i].ref, plan.salt)
                            /\ made[i].ref.step \in Steps
<1>1. ASSUME Cleared PROVE DrawnInv'
  BY <1>1, NothingYet DEF Cleared, DrawnInv
<1>2. ASSUME UNCHANGED <<items, made, plan>>, phase' = "idle" <=> phase = "idle"
      PROVE  DrawnInv'
  BY <1>2 DEF DrawnInv
<1>3. CASE Edit \/ Open \/ Write \/ UNCHANGED contentVars
  BY <1>2, <1>3 DEF Edit, Open, Write, contentVars, built
<1>4. CASE Rename \/ WriteFails \/ Die
  BY <1>1, <1>4 DEF Rename, WriteFails, Die
<1>5. CASE Start
  <2>1. CASE \E why \in {"declaration", "template"} : Refuse(why)
    BY <1>1, <2>1 DEF Refuse
  <2>2. CASE /\ phase = "idle" /\ plan' = declaration /\ Parsed(declaration)
             /\ UNCHANGED <<items, made>>
    <3>1. made' = <<>> /\ DOMAIN made' = {}
      BY <2>2, NothingYet DEF OriginInv
    <3>2. Parsed(plan')
      BY <2>2
    <3> QED BY <3>1, <3>2 DEF DrawnInv
  <2> QED BY <1>5, <2>1, <2>2 DEF Start
<1>6. CASE Carry \/ Assemble
  <2>1. CASE Cleared
    BY <1>1, <2>1
  <2>2. CASE ~Cleared
    <3>1. UNCHANGED <<items, made, plan>> /\ (phase' = "idle" <=> phase = "idle")
      BY <1>6, <2>2 DEF Carry, Assemble, At, Refuse, built
    <3> QED BY <1>2, <3>1
  <2> QED BY <2>1, <2>2
<1>7. CASE Generate
  <2>1. CASE Cleared
    BY <1>1, <2>1
  <2>2. CASE ~Cleared
    <3>1. PICK ref :
            /\ ref.step = plan.sources[source].step
            /\ items' = Append(items, FromTemplate(ref, plan.salt))
            /\ made' = Append(made, [by |-> "template", ref |-> ref])
            /\ UNCHANGED <<phase, plan>>
      BY <1>7, <2>2 DEF Generate, At, Refuse
    <3>2. /\ phase = "sources" /\ source <= Len(plan.sources)
          /\ plan.sources[source].kind = "template"
          /\ plan \in Declarations /\ source \in Nat \ {0} /\ Parsed(plan)
      BY <1>7 DEF Generate, At, OriginInv, DrawnInv
    <3>3. ref.step \in Steps
      <4>1. DOMAIN plan.sources = 1..Len(plan.sources) /\ Len(plan.sources) \in Nat
        BY <3>2, ContentAssumption, DomainOf, Zenon
      <4>2. source \in DOMAIN plan.sources
        BY <3>2, <4>1
      <4> QED BY <3>1, <3>2, <4>2 DEF Parsed, Sound
    <3> DEFINE item == FromTemplate(ref, plan.salt)
               m == [by |-> "template", ref |-> ref]
               n == Len(made)
    <3>4. m.ref = ref
      OBVIOUS
    <3>5. /\ IsSequence(items) /\ IsSequence(made) /\ Len(items) = n
      BY DEF OriginInv
    <3> HIDE DEF item, m
    <3>6. /\ DOMAIN made' = 1..(n + 1) /\ n \in Nat /\ DOMAIN made = 1..n
          /\ \A i \in 1..n : made'[i] = made[i] /\ items'[i] = items[i]
          /\ made'[n + 1] = m /\ items'[n + 1] = item
      <4>1. items' = Append(items, item) /\ made' = Append(made, m)
        BY <3>1 DEF item, m
      <4>2. /\ DOMAIN Append(made, m) = 1..(n + 1) /\ n \in Nat /\ DOMAIN made = 1..n
            /\ \A i \in DOMAIN made : Append(made, m)[i] = made[i]
            /\ Append(made, m)[n + 1] = m
        BY <3>5, AppendFacts
      <4>3. /\ \A i \in DOMAIN items : Append(items, item)[i] = items[i]
            /\ Append(items, item)[Len(items) + 1] = item
            /\ DOMAIN items = 1..Len(items)
        BY <3>5, AppendFacts
      <4> HIDE DEF n
      <4> QED BY <3>5, <4>1, <4>2, <4>3
    <3>7. \A i \in DOMAIN made' :
             made'[i].by = "template" =>
                /\ items'[i] = FromTemplate(made'[i].ref, plan.salt)
                /\ made'[i].ref.step \in Steps
      <4> SUFFICES ASSUME NEW i \in 1..(n + 1), made'[i].by = "template"
                   PROVE  /\ items'[i] = FromTemplate(made'[i].ref, plan.salt)
                          /\ made'[i].ref.step \in Steps
        BY <3>6
      <4>1. CASE i \in 1..n
        <5>1. i \in DOMAIN made /\ made'[i] = made[i] /\ items'[i] = items[i]
          BY <3>6, <4>1
        <5> QED BY <5>1 DEF DrawnInv
      <4>2. CASE i = n + 1
        BY <3>3, <3>4, <3>6, <4>2 DEF item
      <4> QED BY <3>6, <4>1, <4>2
    <3>8. Parsed(plan') /\ plan' = plan
      BY <3>1, <3>2
    <3> QED BY <3>7, <3>8 DEF DrawnInv
  <2> QED BY <2>1, <2>2
<1>8. CASE Lift
  <2>1. CASE Cleared
    BY <1>1, <2>1
  <2>2. CASE ~Cleared
    <3>1. ~Refuse("authored")
      BY <2>2 DEF Refuse
    <3> DEFINE n == Len(made)
               k == Len(made')
    <3>2. /\ UNCHANGED <<phase, plan>> /\ phase = "sources"
          /\ n \in Nat /\ k \in Nat /\ n <= k
          /\ DOMAIN made = 1..n /\ DOMAIN made' = 1..k
          /\ \A i \in 1..n : made'[i] = made[i] /\ items'[i] = items[i]
          /\ \A i \in (n + 1)..k : made'[i].by = "author"
      BY <1>8, <3>1, LiftExtends
    <3>3. \A i \in DOMAIN made' :
             made'[i].by = "template" =>
                /\ items'[i] = FromTemplate(made'[i].ref, plan.salt)
                /\ made'[i].ref.step \in Steps
      <4> HIDE DEF n, k
      <4> SUFFICES ASSUME NEW i \in 1..k, made'[i].by = "template"
                   PROVE  /\ items'[i] = FromTemplate(made'[i].ref, plan.salt)
                          /\ made'[i].ref.step \in Steps
        BY <3>2
      <4>1. i \in 1..n
        BY <3>2
      <4>2. i \in DOMAIN made /\ made'[i] = made[i] /\ items'[i] = items[i]
        BY <3>2, <4>1
      <4> QED BY <4>2 DEF DrawnInv
    <3>4. Parsed(plan)
      BY <3>2 DEF DrawnInv
    <3> QED BY <3>2, <3>3, <3>4 DEF DrawnInv
  <2> QED BY <2>1, <2>2
<1> QED
  BY <1>3, <1>4, <1>5, <1>6, <1>7, <1>8 DEF ContentNext

\* A diagnosis names the slip that gives what was typed, and no other, for every
\* pair of terms a template may draw; when reversing them gives the right answer
\* nothing is said of it.
THEOREM DiagnosisIsOfTheSlip == ContentSpec => []DiagnosisNamesTheSlip
<1>1. ContentInit => DrawnInv
  BY NothingYet DEF ContentInit, DrawnInv
<1>2. OriginInv /\ DrawnInv => DiagnosisNamesTheSlip
  <2> SUFFICES ASSUME OriginInv, DrawnInv,
                      NEW i \in DOMAIN items, NEW raw \in Answers,
                      made[i].by = "template"
               PROVE  LET said  == LookupDiagnosis(items[i], Digest(plan.salt, Canonical(raw)))
                          asked == Asked(made[i].ref)
                          right == asked.left - asked.right
                          typed == Canonical(raw)
                      IN  /\ said = "subtracted_in_reverse" <=>
                                 typed = WholeAnswer(-right) /\ right # 0
                          /\ said = "added_instead_of_subtracting" <=>
                                 typed = WholeAnswer(asked.left + asked.right)
    BY DEF DiagnosisNamesTheSlip
  <2>1. i \in DOMAIN made
    BY DEF OriginInv, IsSequence
  <2>2. InColumn(made[i].ref.seed) /\ made[i].ref.step \in Steps
        /\ items[i] = FromTemplate(made[i].ref, plan.salt)
    BY <2>1 DEF OriginInv, ComesFrom, DrawnInv
  <2>3. Asked(made[i].ref).left \in Nat \ {0} /\ Asked(made[i].ref).right \in Nat \ {0}
    BY <2>2, TermsArePositive
  <2> QED BY <2>2, <2>3, SlipIsNamed
<1> QED
  BY <1>1, <1>2, DrawnInvStep, OriginInvAlways, PTL DEF ContentSpec

-----------------------------------------------------------------------------
(* Types. *)

\* What OriginInv leaves of ContentTypeOK: where the build is.
PlaceInv ==
    /\ phase \in Phases /\ drawn \in Nat
    /\ plan = NoPlan <=> phase = "idle"

\* No step leaves a place without a plan, nor a plan without a place.
LEMMA PlaceInvStep == OriginInv /\ PlaceInv /\ [ContentNext]_contentVars => PlaceInv'
<1> SUFFICES ASSUME OriginInv, PlaceInv, [ContentNext]_contentVars PROVE PlaceInv'
  OBVIOUS
<1> USE DEF PlaceInv, Phases
<1>1. declaration # NoPlan
  BY ContentAssumption DEF OriginInv
<1>2. CASE Start
  BY <1>1, <1>2 DEF Start, Refuse, Cleared
<1>3. CASE Generate
  <2>1. CASE \E why \in {"seed", "misconception"} : Refuse(why)
    BY <2>1 DEF Refuse, Cleared
  <2>2. CASE ~\E why \in {"seed", "misconception"} : Refuse(why)
    <3>1. UNCHANGED <<phase, plan>> /\ drawn' \in {drawn + 1, 0}
      BY <1>3, <2>2 DEF Generate, At, NextSource
    <3> QED BY <3>1
  <2> QED BY <2>1, <2>2
<1>4. CASE Lift
  <2>1. CASE Refuse("authored")
    BY <2>1 DEF Refuse, Cleared
  <2>2. CASE ~Refuse("authored")
    <3>1. UNCHANGED <<phase, plan>> /\ drawn' = 0
      BY <1>4, <2>2 DEF Lift, At, NextSource
    <3> QED BY <3>1
  <2> QED BY <2>1, <2>2
<1>5. CASE Carry
  <2>1. CASE Refuse("puzzles")
    BY <2>1 DEF Refuse, Cleared
  <2>2. CASE ~Refuse("puzzles")
    <3>1. UNCHANGED <<phase, plan>> /\ drawn' = 0
      BY <1>5, <2>2 DEF Carry, At, NextSource
    <3> QED BY <3>1
  <2> QED BY <2>1, <2>2
<1>6. CASE Assemble
  <2>1. CASE \E why \in {"fallback"} \cup Faults(PackOf) : Refuse(why)
    BY <2>1 DEF Refuse, Cleared
  <2>2. CASE /\ phase = "sources" /\ phase' = "built"
             /\ UNCHANGED <<plan, drawn>>
    BY <2>2
  <2> QED BY <1>6, <2>1, <2>2 DEF Assemble, built
<1>7. CASE Edit \/ Open \/ Write \/ UNCHANGED contentVars
  BY <1>7 DEF Edit, Open, Write, contentVars, built
<1>8. CASE Rename \/ WriteFails \/ Die
  BY <1>8 DEF Rename, WriteFails, Die, Cleared
<1> QED
  BY <1>2, <1>3, <1>4, <1>5, <1>6, <1>7, <1>8 DEF ContentNext

\* The variables hold what the code declares, for all declarations and trees.
THEOREM ContentTypeCorrect == ContentSpec => []ContentTypeOK
<1>1. ContentInit => PlaceInv
  BY DEF ContentInit, PlaceInv, Phases
<1>2. OriginInv /\ PlaceInv => ContentTypeOK
  <2> SUFFICES ASSUME OriginInv, PlaceInv PROVE ContentTypeOK
    OBVIOUS
  <2>1. plan \in Declarations \cup {NoPlan}
    BY DEF OriginInv, PlaceInv
  <2>2. \A i \in DOMAIN made :
           made[i].by = "template" => made[i].ref.seed \in SeedMin..SeedMax
    BY DEF OriginInv, ComesFrom, InColumn
  <2> QED BY <2>1, <2>2 DEF ContentTypeOK, OriginInv, PlaceInv
<1> QED
  BY <1>1, <1>2, PlaceInvStep, OriginInvAlways, PTL DEF ContentSpec

=============================================================================
