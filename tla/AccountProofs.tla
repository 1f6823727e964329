---------------------------- MODULE AccountProofs ----------------------------
(***************************************************************************)
(* What a device is told of its account's link, for any number of accounts,*)
(* tokens, devices' players and requests in flight.                        *)
(*                                                                         *)
(* The argument: only this device's requests write while it is alone, and  *)
(* they only ever link an account that has no player yet; so what a        *)
(* request has found stays true until its answer is heard (Concluded), and *)
(* what was heard stays true after it (Recorded).                          *)
(***************************************************************************)
EXTENDS Account, TLAPS

\* A request in flight is some account's; GET /me is asked for a tap alone.
Sent(k) ==
    /\ k.step # "idle" => k.session.account \in Accounts
    /\ k.step = "answered" => k.reply \in Failures \cup {"done", "conflict"}
    /\ k.step \in {"looking", "looked"} => "retry" \in happens

\* So is every call, and an erasure only happens in a world that has one.
AllSent ==
    /\ \A c \in Calls : Sent(calls[c])
    /\ erasure # NoErasure => "erase" \in happens

\* A call, by its fields.
CallOf(step, s, id, found, reply, heard) ==
    [step |-> step, session |-> s, id |-> id, found |-> found, reply |-> reply,
     heard |-> heard]

\* One call moves on and the others stay.
Moved(c, step, s, id, found, reply, heard) ==
    /\ calls' \in [Calls -> CallStates]
    /\ calls'[c] = CallOf(step, s, id, found, reply, heard)
    /\ \A d \in Calls \ {c} : calls'[d] = calls[d]

\* The fields of a call.
LEMMA CallFields ==
    \A w, s, i, f, y, h :
        /\ CallOf(w, s, i, f, y, h).step = w
        /\ CallOf(w, s, i, f, y, h).session = s
        /\ CallOf(w, s, i, f, y, h).id = i
        /\ CallOf(w, s, i, f, y, h).found = f
        /\ CallOf(w, s, i, f, y, h).reply = y
        /\ CallOf(w, s, i, f, y, h).heard = h
  BY DEF CallOf

\* A call is no more than its fields.
LEMMA CallIsItsFields ==
    ASSUME NEW k \in CallStates
    PROVE  k = CallOf(k.step, k.session, k.id, k.found, k.reply, k.heard)
  BY DEF CallStates, CallOf

\* A call that is not under way.
LEMMA QuietIs ==
    /\ Quiet = CallOf("idle", SignedOut, None, None, None, TRUE)
    /\ Quiet \in CallStates
  BY DEF Quiet, Call, CallOf, CallStates, Sessions

\* What the types say of the fields.
LEMMA CallStatesAre ==
    \A w, s, i, f, y, h :
        CallOf(w, s, i, f, y, h) \in CallStates <=>
            /\ w \in {"idle", "asked", "half", "creating", "answered", "probing",
                      "probed", "looking", "looked"}
            /\ s \in Sessions /\ i \in Ids \cup {None}
            /\ f \in AllIds \cup {None}
            /\ y \in AllIds \cup Failures \cup {None, "done", "conflict"}
            /\ h \in BOOLEAN
  BY DEF CallOf, CallStates

\* Two fields of a call change together.
LEMMA CallExceptTwo ==
    ASSUME NEW q \in CallStates, NEW w, NEW x
    PROVE  /\ [[q EXCEPT !.step = w] EXCEPT !.found = x]
              = CallOf(w, q.session, q.id, x, q.reply, q.heard)
           /\ [[q EXCEPT !.step = w] EXCEPT !.reply = x]
              = CallOf(w, q.session, q.id, q.found, x, q.heard)
           /\ [q EXCEPT !.step = w]
              = CallOf(w, q.session, q.id, q.found, q.reply, q.heard)
           /\ [q EXCEPT !.heard = w]
              = CallOf(q.step, q.session, q.id, q.found, q.reply, w)
<1>1. q = CallOf(q.step, q.session, q.id, q.found, q.reply, q.heard)
  BY CallIsItsFields
<1>2. PICK s, i, f, y, h, z : /\ q = CallOf(z, s, i, f, y, h)
                              /\ s = q.session /\ i = q.id /\ f = q.found
                              /\ y = q.reply /\ h = q.heard /\ z = q.step
  BY <1>1
<1>3. /\ [CallOf(z, s, i, f, y, h) EXCEPT !.step = w] = CallOf(w, s, i, f, y, h)
      /\ [CallOf(w, s, i, f, y, h) EXCEPT !.found = x] = CallOf(w, s, i, x, y, h)
      /\ [CallOf(w, s, i, f, y, h) EXCEPT !.reply = x] = CallOf(w, s, i, f, x, h)
      /\ [CallOf(z, s, i, f, y, h) EXCEPT !.heard = w] = CallOf(z, s, i, f, y, w)
  BY DEF CallOf
<1> HIDE DEF CallOf
<1> QED
  BY <1>2, <1>3, Zenon

\* One call is replaced, and the others stay.
LEMMA OneMoves ==
    ASSUME TypeOK, NEW c \in Calls, NEW w, NEW s, NEW i, NEW f, NEW y, NEW h,
           CallOf(w, s, i, f, y, h) \in CallStates,
           calls' = [calls EXCEPT ![c] = CallOf(w, s, i, f, y, h)]
    PROVE  Moved(c, w, s, i, f, y, h)
<1>1. calls \in [Calls -> CallStates]
  BY DEF TypeOK
<1> HIDE DEF CallOf
<1> QED
  BY <1>1 DEF Moved


\* A step takes a call on, with what it found or what it is answered.
LEMMA FindsMoves ==
    ASSUME TypeOK, NEW c \in Calls, NEW w, NEW x,
           calls' = [calls EXCEPT ![c].step = w, ![c].found = x],
           CallOf(w, calls[c].session, calls[c].id, x, calls[c].reply,
                  calls[c].heard) \in CallStates
    PROVE  Moved(c, w, calls[c].session, calls[c].id, x, calls[c].reply,
                 calls[c].heard)
<1>1. PICK q \in CallStates : q = calls[c]
  BY DEF TypeOK
<1>2. [[q EXCEPT !.step = w] EXCEPT !.found = x]
        = CallOf(w, q.session, q.id, x, q.reply, q.heard)
  BY CallExceptTwo
<1>3. calls' = [calls EXCEPT ![c] = [[q EXCEPT !.step = w] EXCEPT !.found = x]]
  BY <1>1
<1>4. calls' = [calls EXCEPT ![c] = CallOf(w, q.session, q.id, x, q.reply, q.heard)]
  BY <1>2, <1>3, Zenon
<1> QED
  BY <1>1, <1>4, OneMoves

\* A step answers a call.
LEMMA AnswerMoves ==
    ASSUME TypeOK, NEW c \in Calls, NEW w, NEW x,
           calls' = [calls EXCEPT ![c].step = w, ![c].reply = x],
           CallOf(w, calls[c].session, calls[c].id, calls[c].found, x,
                  calls[c].heard) \in CallStates
    PROVE  Moved(c, w, calls[c].session, calls[c].id, calls[c].found, x,
                 calls[c].heard)
<1>1. PICK q \in CallStates : q = calls[c]
  BY DEF TypeOK
<1>2. [[q EXCEPT !.step = w] EXCEPT !.reply = x]
        = CallOf(w, q.session, q.id, q.found, x, q.heard)
  BY CallExceptTwo
<1>3. calls' = [calls EXCEPT ![c] = [[q EXCEPT !.step = w] EXCEPT !.reply = x]]
  BY <1>1
<1>4. calls' = [calls EXCEPT ![c] = CallOf(w, q.session, q.id, q.found, x, q.heard)]
  BY <1>2, <1>3, Zenon
<1> QED
  BY <1>1, <1>4, OneMoves

\* The account has a player: this one, another, or none yet.
LEMMA SelectPlayerMoves ==
    ASSUME TypeOK, AllSent, NEW c \in Calls, SelectPlayer(c)
    PROVE  Moved(c, "half", calls[c].session, calls[c].id,
                 players[calls[c].session.account], calls[c].reply, calls[c].heard)
<1> DEFINE k == calls[c]
           x == players[k.session.account]
<1>1. k \in CallStates /\ k.session.account \in Accounts
  BY DEF SelectPlayer, TypeOK, AllSent, Sent
<1>2. x \in AllIds \cup {None}
  BY <1>1 DEF TypeOK
<1>3. CallOf("half", k.session, k.id, x, k.reply, k.heard) \in CallStates
  BY <1>1, <1>2, CallStatesAre DEF CallStates
<1> QED
  BY <1>3, FindsMoves DEF SelectPlayer

\* One field of a call changes.
LEMMA StepMoves ==
    ASSUME TypeOK, NEW c \in Calls, NEW w,
           calls' = [calls EXCEPT ![c].step = w],
           CallOf(w, calls[c].session, calls[c].id, calls[c].found,
                  calls[c].reply, calls[c].heard) \in CallStates
    PROVE  Moved(c, w, calls[c].session, calls[c].id, calls[c].found,
                 calls[c].reply, calls[c].heard)
<1>1. PICK q \in CallStates : q = calls[c]
  BY DEF TypeOK
<1>2. [q EXCEPT !.step = w]
        = CallOf(w, q.session, q.id, q.found, q.reply, q.heard)
  BY CallExceptTwo
<1>3. calls' = [calls EXCEPT ![c] = [q EXCEPT !.step = w]]
  BY <1>1
<1>4. calls' = [calls EXCEPT ![c] = CallOf(w, q.session, q.id, q.found, q.reply, q.heard)]
  BY <1>2, <1>3, Zenon
<1> QED
  BY <1>1, <1>4, OneMoves

\* The player has an account: none yet, this one, or another.
LEMMA SelectAccountMoves ==
    ASSUME TypeOK, AllSent, NEW c \in Calls, SelectAccount(c)
    PROVE  LET k == calls[c]
           IN  \/ Moved(c, "creating", k.session, k.id, k.found, k.reply, k.heard)
               \/ /\ players[k.session.account] = k.id
                  /\ Moved(c, "answered", k.session, k.id, k.found, "done", k.heard)
               \/ /\ k.found # None \/ \E a \in Accounts : players[a] = k.id
                  /\ Moved(c, "answered", k.session, k.id, k.found, "conflict",
                           k.heard)
<1> DEFINE k == calls[c]
           outcome == LinkOutcome(k.found, Owner(k.id), k.id, k.session.account)
<1>1. k \in CallStates /\ k.step = "half" /\ k.session.account \in Accounts
  BY DEF SelectAccount, TypeOK, AllSent, Sent
<1>2. CASE outcome = "create"
  <2>1. calls' = [calls EXCEPT ![c].step = "creating"]
    BY <1>2 DEF SelectAccount
  <2>2. CallOf("creating", k.session, k.id, k.found, k.reply, k.heard) \in CallStates
    BY <1>1, CallStatesAre DEF CallStates
  <2> QED BY <2>1, <2>2, StepMoves
<1>3. CASE outcome # "create"
  <2> DEFINE y == IF outcome = "existing" THEN "done" ELSE "conflict"
  <2>1. calls' = [calls EXCEPT ![c].step = "answered", ![c].reply = y]
    BY <1>3 DEF SelectAccount
  <2>2. CallOf("answered", k.session, k.id, k.found, y, k.heard) \in CallStates
    BY <1>1, CallStatesAre DEF CallStates
  <2>3. Moved(c, "answered", k.session, k.id, k.found, y, k.heard)
    BY <2>1, <2>2, AnswerMoves
  <2>4. CASE outcome = "existing"
    <3>1. Owner(k.id) = {k.session.account}
      BY <2>4 DEF LinkOutcome
    <3>2. players[k.session.account] = k.id
      BY <3>1 DEF Owner
    <3> QED BY <2>3, <2>4, <3>2
  <2>5. CASE outcome # "existing"
    <3>1. k.found # None \/ Owner(k.id) # {}
      BY <1>3, <2>5 DEF LinkOutcome
    <3>2. k.found # None \/ \E a \in Accounts : players[a] = k.id
      BY <3>1 DEF Owner
    <3>3. y = "conflict"
      BY <2>5
    <3> HIDE DEF y
    <3> QED BY <2>3, <3>2, <3>3
  <2> QED BY <2>4, <2>5
<1> QED
  BY <1>2, <1>3

\* The row is written, unless somebody was faster.
LEMMA InsertMoves ==
    ASSUME TypeOK, AllSent, NEW c \in Calls, Insert(c)
    PROVE  LET k == calls[c]
               a == k.session.account
           IN  \/ /\ players' = players
                  /\ Moved(c, "answered", k.session, k.id, k.found, "failed", k.heard)
               \/ /\ a \in Accounts /\ players[a] = None
                  /\ \A b \in Accounts : players[b] # k.id
                  /\ players' = [players EXCEPT ![a] = k.id]
                  /\ Moved(c, "answered", k.session, k.id, k.found, "done", k.heard)
<1> DEFINE k == calls[c]
           a == k.session.account
           taken == Taken(k.id, a)
           y == IF taken THEN "failed" ELSE "done"
<1>1. k \in CallStates /\ k.step = "creating" /\ a \in Accounts
  BY DEF Insert, TypeOK, AllSent, Sent
<1>2. CallOf("answered", k.session, k.id, k.found, y, k.heard) \in CallStates
  BY <1>1, CallStatesAre DEF CallStates, Failures
<1>3. calls' = [calls EXCEPT ![c].step = "answered", ![c].reply = y]
  BY DEF Insert
<1>4. Moved(c, "answered", k.session, k.id, k.found, y, k.heard)
  BY <1>2, <1>3, AnswerMoves
<1>5. players' = IF taken THEN players ELSE [players EXCEPT ![a] = k.id]
  BY DEF Insert
<1>6. CASE taken
  <2>1. y = "failed"
    BY <1>6
  <2> HIDE DEF y
  <2> QED BY <1>4, <1>5, <1>6, <2>1
<1>7. CASE ~taken
  <2>1. y = "done"
    BY <1>7
  <2>2. players[a] = None /\ Owner(k.id) = {}
    BY <1>7 DEF Taken
  <2>3. \A b \in Accounts : players[b] # k.id
    BY <2>2 DEF Owner
  <2> HIDE DEF y, a
  <2> QED BY <1>1, <1>4, <1>5, <1>7, <2>1, <2>2, <2>3 DEF a
<1> QED
  BY <1>6, <1>7

\* GET /me, for a conflict or for a tap.
LEMMA LookMoves ==
    ASSUME TypeOK, AllSent, NEW c \in Calls, Look(c)
    PROVE  LET k == calls[c]
           IN  \/ /\ k.step = "probing"
                  /\ Moved(c, "probed", k.session, k.id, k.found,
                           players[k.session.account], k.heard)
               \/ /\ k.step = "looking"
                  /\ Moved(c, "looked", k.session, k.id, k.found,
                           players[k.session.account], k.heard)
<1> DEFINE k == calls[c]
           x == players[k.session.account]
           w == IF k.step = "probing" THEN "probed" ELSE "looked"
<1>1. k \in CallStates /\ k.step \in {"probing", "looking"}
      /\ k.session.account \in Accounts
  BY DEF Look, TypeOK, AllSent, Sent
<1>2. x \in AllIds \cup {None}
  BY <1>1 DEF TypeOK
<1>3. CallOf(w, k.session, k.id, k.found, x, k.heard) \in CallStates
  BY <1>1, <1>2, CallStatesAre DEF CallStates
<1>4. calls' = [calls EXCEPT ![c].step = w, ![c].reply = x]
  BY DEF Look
<1>5. Moved(c, w, k.session, k.id, k.found, x, k.heard)
  BY <1>3, <1>4, AnswerMoves
<1>6. w = IF k.step = "probing" THEN "probed" ELSE "looked"
  OBVIOUS
<1> HIDE DEF w
<1> QED
  BY <1>1, <1>5, <1>6

\* Where a request that goes wrong ends.
StepOver(step) ==
    CASE step \in {"asked", "half", "creating"} -> "answered"
      [] step = "probing" -> "probed"
      [] step = "looking" -> "looked"
      [] OTHER -> step

\* A request goes wrong where it is.
LEMMA GoWrongMoves ==
    ASSUME TypeOK, NEW c \in Calls, NEW reply \in Failures, GoWrong(c, reply)
    PROVE  LET k == calls[c]
           IN  \/ /\ k.step \in {"asked", "half", "creating", "answered"}
                  /\ Moved(c, "answered", k.session, k.id, k.found, reply, k.heard)
               \/ /\ k.step \in {"probing", "probed"}
                  /\ Moved(c, "probed", k.session, k.id, k.found, reply, k.heard)
               \/ /\ k.step \in {"looking", "looked"}
                  /\ Moved(c, "looked", k.session, k.id, k.found, reply, k.heard)
<1> DEFINE k == calls[c]
           w == StepOver(k.step)
<1>1. k \in CallStates /\ k.step # "idle"
  BY DEF GoWrong, TypeOK
<1>2. \/ k.step \in {"asked", "half", "creating", "answered"} /\ w = "answered"
      \/ k.step \in {"probing", "probed"} /\ w = "probed"
      \/ k.step \in {"looking", "looked"} /\ w = "looked"
  BY <1>1 DEF CallStates, StepOver
<1>3. calls' = [calls EXCEPT ![c].step = w, ![c].reply = reply]
  BY DEF GoWrong, StepOver
<1> HIDE DEF w
<1>4. CallOf(w, k.session, k.id, k.found, reply, k.heard) \in CallStates
  BY <1>1, <1>2, CallStatesAre DEF CallStates
<1>5. Moved(c, w, k.session, k.id, k.found, reply, k.heard)
  BY <1>3, <1>4, AnswerMoves
<1> QED
  BY <1>2, <1>5

\* A link is asked for: the id is read, or minted and written down.
LEMMA LinkMoves ==
    ASSUME TypeOK, NEW c \in Calls, NEW s \in Sessions, Link(c, s)
    PROVE  \E id \in Ids : /\ ReadOrMint(id)
                           /\ Moved(c, "asked", s, id, None, None, TRUE)
<1>1. PICK id \in Ids :
         /\ ReadOrMint(id)
         /\ calls' = [calls EXCEPT ![c] = Call("asked", s, id)]
  BY DEF Link
<1>2. Call("asked", s, id) = CallOf("asked", s, id, None, None, TRUE)
  BY DEF Call, CallOf
<1>3. CallOf("asked", s, id, None, None, TRUE) \in CallStates
  BY CallStatesAre
<1>4. calls' = [calls EXCEPT ![c] = CallOf("asked", s, id, None, None, TRUE)]
  BY <1>1, <1>2, Zenon
<1> QED
  BY <1>1, <1>3, <1>4, OneMoves

\* A tap asks whether the account is linked.
LEMMA RetryMoves ==
    ASSUME TypeOK, NEW c \in Calls, Retry(c)
    PROVE  \/ state = "mismatch" /\ Link(c, session)
           \/ /\ UNCHANGED <<playerId, trouble>> /\ state' = "loading"
              /\ Moved(c, "looking", session, None, None, None, TRUE)
<1>1. CASE state = "mismatch" /\ Link(c, session)
  BY <1>1
<1>2. CASE /\ state' = "loading" /\ UNCHANGED <<playerId, trouble>>
           /\ calls' = [calls EXCEPT ![c] = Call("looking", session, None)]
  <2>1. Call("looking", session, None)
          = CallOf("looking", session, None, None, None, TRUE)
    BY DEF Call, CallOf
  <2>2. CallOf("looking", session, None, None, None, TRUE) \in CallStates
    <3>1. session \in Sessions
      BY DEF TypeOK
    <3> QED BY ONLY <3>1, CallStatesAre
  <2>3. calls' = [calls EXCEPT ![c] = CallOf("looking", session, None, None, None, TRUE)]
    BY <1>2, <2>1, Zenon
  <2> QED BY <1>2, <2>2, <2>3, OneMoves
<1> QED
  BY <1>1, <1>2 DEF Retry

\* A call ends.
LEMMA QuietMoves ==
    ASSUME TypeOK, NEW c \in Calls, calls' = [calls EXCEPT ![c] = Quiet]
    PROVE  Moved(c, "idle", SignedOut, None, None, None, TRUE)
  BY QuietIs, OneMoves

\* A call that nobody waits for any longer goes on unheard.
LEMMA TimeOutMoves ==
    ASSUME TypeOK, NEW c \in Calls, TimeOut(c)
    PROVE  LET k == calls[c]
           IN  Moved(c, k.step, k.session, k.id, k.found, k.reply, FALSE)
<1>1. PICK q \in CallStates : q = calls[c]
  BY DEF TypeOK
<1>2. [q EXCEPT !.heard = FALSE]
        = CallOf(q.step, q.session, q.id, q.found, q.reply, FALSE)
  BY CallExceptTwo
<1>3. calls' = [calls EXCEPT ![c] = [q EXCEPT !.heard = FALSE]]
  BY <1>1 DEF TimeOut
<1>4. calls' = [calls EXCEPT ![c] = CallOf(q.step, q.session, q.id, q.found, q.reply, FALSE)]
  BY <1>2, <1>3, Zenon
<1>5. CallOf(q.step, q.session, q.id, q.found, q.reply, FALSE) \in CallStates
  BY CallStatesAre DEF CallStates
<1> QED
  BY <1>1, <1>4, <1>5, OneMoves

-----------------------------------------------------------------------------
(* The invariant.                                                          *)

\* Somebody else holds one side of the link.
Apart(a) ==
    players[a] # None \/ \E b \in Accounts \ {a} : players[b] = playerId

\* What a request has found out stays so while nobody but this device's links
\* moves the rows.
Concluded(k) ==
    k.step # "idle" =>
        /\ k.id = playerId /\ playerId # None
        /\ k.step = "half" => k.found \in {None, players[k.session.account]}
        /\ k.step = "answered" =>
              /\ k.reply = "done" => players[k.session.account] = playerId
              /\ k.reply = "conflict" => Apart(k.session.account)
        /\ k.step = "probing" => Apart(k.session.account)
        /\ k.step = "probed" /\ k.reply \notin Failures =>
              IF k.reply = None
                THEN \E b \in Accounts \ {k.session.account} : players[b] = playerId
                ELSE players[k.session.account] = k.reply

\* Nobody but this device moves the rows.
Alone == happens = {}

\* What every request under way has found is so.
AllConcluded == Alone => \A c \in Calls : Concluded(calls[c])

\* A link's verdict is drawn once the id it is about is on disk.
Recorded ==
    Alone /\ state \in {"linked", "otherDevice", "otherAccount"} => playerId # None

\* The invariant.
AInv == /\ TypeOK /\ AllSent /\ StateIsOfThisSession
        /\ AllConcluded /\ Recorded /\ LinkVerdictsAreTrue

\* The types that no call is about.
OtherTypes ==
    /\ session \in Sessions /\ state \in States /\ about \in Accounts \cup {None}
    /\ playerId \in Ids \cup {None}
    /\ players \in [Accounts -> AllIds \cup {None}] /\ OneToOne
    /\ erasure \in [account : Accounts, step : {"erasing", "gone"}]
                   \cup {NoErasure}
    /\ happens \in Worlds /\ trouble \in Nat

\* The types are those of the calls and of the rest.
LEMMA TypesOfParts == TypeOK <=> OtherTypes /\ calls \in [Calls -> CallStates]
  BY DEF TypeOK, OtherTypes

\* The account of a session.
LEMMA SessionsAre ==
    \A s \in Sessions :
        /\ s.account \in Accounts \cup {None}
        /\ s # SignedOut <=> s.account \in Accounts
        /\ s = SignedOut <=> s.account = None
  BY ConstantsAssumption DEF Sessions, SignedOut

\* A call that moved has the fields it moved to.
LEMMA MovedFields ==
    ASSUME NEW c \in Calls, NEW w, NEW s, NEW i, NEW f, NEW y, NEW h,
           Moved(c, w, s, i, f, y, h)
    PROVE  /\ calls'[c].step = w /\ calls'[c].session = s /\ calls'[c].id = i
           /\ calls'[c].found = f /\ calls'[c].reply = y
           /\ \A d \in Calls \ {c} : calls'[d] = calls[d]
  BY CallFields DEF Moved

\* A call that is sent on stays some account's.
LEMMA MovedSent ==
    ASSUME AllSent, NEW c \in Calls, NEW w, NEW s, NEW i, NEW f, NEW y, NEW h,
           Moved(c, w, s, i, f, y, h), UNCHANGED <<erasure, happens>>,
           w # "idle" => s.account \in Accounts,
           w = "answered" => y \in Failures \cup {"done", "conflict"},
           w \in {"looking", "looked"} => "retry" \in happens
    PROVE  AllSent'
  BY MovedFields DEF AllSent, Sent

\* No account loses a player, and the id on disk is written once.
Grows ==
    /\ playerId' = playerId \/ playerId = None
    /\ \A a \in Accounts : players[a] # None => players'[a] = players[a]

\* What a request has found stays so while rows only grow.
LEMMA ConcludedStays ==
    ASSUME TypeOK, Grows, NEW k \in CallStates, Sent(k), Concluded(k)
    PROVE  Concluded(k)'
<1>1. CASE k.step = "idle"
  BY <1>1 DEF Concluded
<1>2. CASE k.step # "idle"
  <2> DEFINE a == k.session.account
  <2>1. a \in Accounts /\ playerId' = playerId /\ k.id = playerId /\ playerId # None
    BY <1>2 DEF Sent, Concluded, Grows
  <2>2. Apart(a) => Apart(a)'
    BY <2>1 DEF Apart, Grows
  <2>3. (\E b \in Accounts \ {a} : players[b] = playerId)
           => \E b \in Accounts \ {a} : players'[b] = playerId'
    BY <2>1 DEF Grows
  <2>4. players[a] # None => players'[a] = players[a]
    BY <2>1 DEF Grows
  <2> QED BY <1>2, <2>1, <2>2, <2>3, <2>4 DEF Concluded, Apart
<1> QED
  BY <1>1, <1>2

\* It is enough to look at the call that moved.
LEMMA MovedConcluded ==
    ASSUME TypeOK, AllSent, AllConcluded, NEW c \in Calls, NEW w, NEW s, NEW i,
           NEW f, NEW y, NEW h, Moved(c, w, s, i, f, y, h), happens' = happens,
           Alone => Grows /\ Concluded(calls[c])'
    PROVE  AllConcluded'
<1> SUFFICES ASSUME Alone, NEW d \in Calls
             PROVE  Concluded(calls[d])'
  BY DEF AllConcluded, Alone
<1>1. CASE d = c
  BY <1>1 DEF Concluded
<1>2. CASE d # c
  <2>1. PICK k \in CallStates : k = calls[d]
    BY DEF TypeOK
  <2>2. Concluded(k)'
    BY <2>1, ConcludedStays DEF AllConcluded, AllSent
  <2>3. calls'[d] = k
    BY <1>2, <2>1 DEF Moved
  <2> QED BY <2>2, <2>3 DEF Concluded
<1> QED
  BY <1>1, <1>2

\* A verdict on screen stays so too.
LEMMA VerdictsStay ==
    ASSUME TypeOK, LinkVerdictsAreTrue, Recorded, Alone => Grows,
           UNCHANGED <<session, state, playerId, happens>>
    PROVE  LinkVerdictsAreTrue' /\ Recorded'
<1>r. Recorded'
  BY DEF Recorded, Alone
<1> SUFFICES ASSUME Alone, session # SignedOut
             PROVE  /\ LinkedIsThisPlayer'
                    /\ (state = "otherDevice" =>
                           players[session.account] \notin {None, playerId})'
                    /\ (state = "otherAccount" =>
                           \E a \in Accounts \ {session.account} :
                               players[a] = playerId)'
  BY <1>r DEF LinkVerdictsAreTrue, Alone
<1>1. session.account \in Accounts
  BY SessionsAre DEF TypeOK
<1>2. Grows
  OBVIOUS
<1>3. state = "linked" => players[session.account] = playerId
  BY DEF LinkVerdictsAreTrue, LinkedIsThisPlayer, Alone
<1>4. state = "otherDevice" => players[session.account] \notin {None, playerId}
  BY DEF LinkVerdictsAreTrue, Alone
<1>5. state = "otherAccount" =>
         \E a \in Accounts \ {session.account} : players[a] = playerId
  BY DEF LinkVerdictsAreTrue, Alone
<1> QED
  BY <1>1, <1>2, <1>3, <1>4, <1>5 DEF LinkedIsThisPlayer, Grows, Recorded

\* While a verdict is waited for, there is none to be wrong about.
LEMMA WaitingIsNoVerdict ==
    ASSUME state' \in {"none", "loading"}
    PROVE  StateIsOfThisSession' /\ LinkVerdictsAreTrue' /\ Recorded'
  BY DEF StateIsOfThisSession, LinkVerdictsAreTrue, LinkedIsThisPlayer, Recorded

\* The screen does not change, and neither does the session.
LEMMA StillOfThisSession ==
    ASSUME StateIsOfThisSession, UNCHANGED <<session, state, about, happens>>
    PROVE  StateIsOfThisSession'
  BY DEF StateIsOfThisSession

-----------------------------------------------------------------------------
(* The requests that go out.                                               *)

\* A link goes out.
LEMMA LinkStep ==
    ASSUME AInv, NEW c \in Calls, NEW s \in Sessions, s # SignedOut, Link(c, s),
           session' \in Sessions, UNCHANGED <<about, players, erasure, happens>>
    PROVE  AInv'
<1> USE DEF AInv
<1>1. PICK id \in Ids : ReadOrMint(id) /\ Moved(c, "asked", s, id, None, None, TRUE)
  BY LinkMoves
<1>2. state' = "loading" /\ s.account \in Accounts
  BY SessionsAre DEF Link
<1>3. playerId' \in Ids \cup {None} /\ trouble' \in Nat
  BY <1>1, ConstantsAssumption DEF ReadOrMint, TypeOK
<1>4. TypeOK'
  <2>1. OtherTypes'
    BY <1>2, <1>3 DEF OtherTypes, TypeOK, States, OneToOne
  <2>2. calls' \in [Calls -> CallStates]
    BY <1>1 DEF Moved
  <2> QED BY <2>1, <2>2 DEF TypeOK, OtherTypes
<1>5. AllSent'
  BY <1>1, <1>2, MovedSent
<1>6. StateIsOfThisSession' /\ LinkVerdictsAreTrue' /\ Recorded'
  BY <1>2, WaitingIsNoVerdict
<1>7. AllConcluded'
  <2>1. Alone => playerId' = id /\ playerId' # None /\ (playerId' = playerId \/ playerId = None)
    BY <1>1, ConstantsAssumption DEF ReadOrMint, Alone
  <2>2. Alone => Grows
    BY <2>1 DEF Grows
  <2>3. Alone => Concluded(calls[c])'
    <3>1. calls'[c].step = "asked" /\ calls'[c].id = id
      BY <1>1, MovedFields
    <3> QED BY <2>1, <3>1 DEF Concluded
  <2> QED BY <1>1, <2>2, <2>3, MovedConcluded
<1> QED
  BY <1>4, <1>5, <1>6, <1>7

\* A session begins, is renewed, or a tap asks again.
LEMMA AskStep ==
    ASSUME AInv, NEW c \in Calls,
           \/ \E t \in Tokens : Renew(c, t) \/ \E a \in Accounts : SignIn(c, a, t)
           \/ Retry(c)
    PROVE  AInv'
<1> USE DEF AInv
<1>1. CASE \E t \in Tokens : Renew(c, t)
  <2>1. PICK t \in Tokens : Renew(c, t)
    BY <1>1
  <2>2. PICK s : s = session'
    OBVIOUS
  <2>3. s \in Sessions /\ s # SignedOut
    BY <2>1, <2>2, ConstantsAssumption DEF Renew, TypeOK, Sessions, SignedOut
  <2>4. Link(c, s)
    BY <2>1, <2>2 DEF Renew, LinkIfNeeded, Link
  <2> QED BY <2>1, <2>2, <2>3, <2>4, LinkStep DEF Renew
<1>2. CASE \E t \in Tokens, a \in Accounts : SignIn(c, a, t)
  <2>1. PICK t \in Tokens, a \in Accounts : SignIn(c, a, t)
    BY <1>2
  <2>2. PICK s : s = session'
    OBVIOUS
  <2>3. s \in Sessions /\ s # SignedOut
    BY <2>1, <2>2, ConstantsAssumption DEF SignIn, TypeOK, Sessions, SignedOut
  <2>4. Link(c, s)
    BY <2>1, <2>2 DEF SignIn, LinkIfNeeded, Link
  <2> QED BY <2>1, <2>2, <2>3, <2>4, LinkStep DEF SignIn
<1>3. CASE Retry(c)
  <2>1. session # SignedOut /\ session \in Sessions /\ "retry" \in happens
        /\ UNCHANGED <<session, about, players, erasure, happens>>
    BY <1>3 DEF Retry, TypeOK
  <2>2. CASE Link(c, session)
    <3>1. PICK s \in Sessions : s = session
      BY <2>1
    <3>2. Link(c, s)
      BY <2>2, <3>1 DEF Link
    <3> QED BY <2>1, <3>1, <3>2, LinkStep
  <2>3. CASE /\ UNCHANGED <<playerId, trouble>> /\ state' = "loading"
             /\ Moved(c, "looking", session, None, None, None, TRUE)
    <3>1. StateIsOfThisSession' /\ LinkVerdictsAreTrue' /\ Recorded'
      BY <2>3, WaitingIsNoVerdict
    <3>2. session.account \in Accounts
      BY <2>1, SessionsAre
    <3>3. AllSent'
      BY <2>1, <2>3, <3>2, MovedSent
    <3>4. AllConcluded'
      BY <2>1 DEF AllConcluded, Alone
    <3>5. OtherTypes' /\ calls' \in [Calls -> CallStates]
      BY <2>1, <2>3 DEF OtherTypes, TypeOK, States, OneToOne, Moved
    <3>6. TypeOK'
      BY <3>5 DEF TypeOK, OtherTypes
    <3> QED BY <3>1, <3>3, <3>4, <3>6
  <2> QED BY <1>3, <2>2, <2>3, RetryMoves
<1> QED
  BY <1>1, <1>2, <1>3

-----------------------------------------------------------------------------
(* The server.                                                             *)

\* The device does not hear of it: what a step of the server leaves to show.
LEMMA ServedStep ==
    ASSUME AInv, UNCHANGED device, NEW c \in Calls, NEW w, NEW s, NEW i, NEW f,
           NEW y, NEW h, Moved(c, w, s, i, f, y, h),
           w # "idle" => s.account \in Accounts,
           w = "answered" => y \in Failures \cup {"done", "conflict"},
           w \in {"looking", "looked"} => "retry" \in happens,
           players' \in [Accounts -> AllIds \cup {None}], OneToOne',
           trouble' \in Nat,
           Alone => /\ \A a \in Accounts : players[a] # None => players'[a] = players[a]
                    /\ Concluded(calls[c])'
    PROVE  AInv'
<1> USE DEF AInv
<1>1. UNCHANGED <<session, state, about, playerId, erasure, happens>>
  BY DEF device
<1>2. OtherTypes' /\ calls' \in [Calls -> CallStates]
  BY <1>1 DEF OtherTypes, TypeOK, Moved, OneToOne
<1>3. TypeOK'
  BY <1>2 DEF OtherTypes, TypeOK
<1>4. AllSent'
  BY <1>1, MovedSent
<1>5. StateIsOfThisSession'
  BY <1>1, StillOfThisSession
<1>6. Alone => Grows
  BY <1>1 DEF Grows
<1>7. AllConcluded'
  BY <1>1, <1>6, MovedConcluded
<1>8. LinkVerdictsAreTrue' /\ Recorded'
  BY <1>1, <1>6, VerdictsStay
<1> QED
  BY <1>3, <1>4, <1>5, <1>7, <1>8

\* Rows that stay have grown.
LEMMA PlayersStay ==
    ASSUME TypeOK, UNCHANGED players
    PROVE  /\ players' \in [Accounts -> AllIds \cup {None}] /\ OneToOne'
           /\ \A a \in Accounts : players[a] # None => players'[a] = players[a]
  BY DEF TypeOK, OneToOne

\* What is known of a request in flight.
LEMMA InFlight ==
    ASSUME AInv, NEW c \in Calls
    PROVE  /\ calls[c] \in CallStates /\ Sent(calls[c])
           /\ Alone => Concluded(calls[c])
  BY DEF AInv, TypeOK, AllSent, AllConcluded

\* The server reads the player of the account.
LEMMA SelectPlayerStep ==
    ASSUME AInv, NEW c \in Calls, SelectPlayer(c)
    PROVE  AInv'
<1> DEFINE k == calls[c]
           f == players[k.session.account]
<1>1. /\ k.step = "asked" /\ UNCHANGED <<device, players, trouble>>
      /\ k.session.account \in Accounts
  BY InFlight DEF SelectPlayer, Sent
<1>2. Moved(c, "half", k.session, k.id, f, k.reply, k.heard)
  BY SelectPlayerMoves DEF AInv
<1>3. Alone => Concluded(calls[c])'
  <2>1. Alone => k.id = playerId /\ playerId # None
    BY <1>1, InFlight DEF Concluded
  <2>2. playerId' = playerId /\ players' = players
    BY <1>1 DEF device
  <2> QED BY <1>2, <2>1, <2>2, MovedFields DEF Concluded
<1>4. trouble' \in Nat
  BY <1>1 DEF AInv, TypeOK
<1> HIDE DEF f
<1> QED
  BY <1>1, <1>2, <1>3, <1>4, PlayersStay, ServedStep DEF AInv

\* The server reads the account of the player.
LEMMA SelectAccountStep ==
    ASSUME AInv, NEW c \in Calls, SelectAccount(c)
    PROVE  AInv'
<1> DEFINE k == calls[c]
<1>1. /\ k.step = "half" /\ UNCHANGED <<device, players, trouble>>
      /\ k.session.account \in Accounts
  BY InFlight DEF SelectAccount, Sent
<1>2. Alone => /\ k.id = playerId /\ playerId # None
               /\ k.found \in {None, players[k.session.account]}
  BY <1>1, InFlight DEF Concluded
<1>3. playerId' = playerId /\ players' = players /\ trouble' \in Nat
  BY <1>1 DEF device, AInv, TypeOK
<1>4. CASE Moved(c, "creating", k.session, k.id, k.found, k.reply, k.heard)
  <2>1. Alone => Concluded(calls[c])'
    BY <1>2, <1>3, <1>4, MovedFields DEF Concluded
  <2> QED BY <1>1, <1>3, <1>4, <2>1, PlayersStay, ServedStep DEF AInv
<1>5. CASE /\ players[k.session.account] = k.id
           /\ Moved(c, "answered", k.session, k.id, k.found, "done", k.heard)
  <2>1. Alone => Concluded(calls[c])'
    BY <1>2, <1>3, <1>5, MovedFields DEF Concluded
  <2> QED BY <1>1, <1>3, <1>5, <2>1, PlayersStay, ServedStep DEF AInv
<1>6. CASE /\ k.found # None \/ \E a \in Accounts : players[a] = k.id
           /\ Moved(c, "answered", k.session, k.id, k.found, "conflict", k.heard)
  <2>1. Alone => Apart(k.session.account)
    BY <1>1, <1>2, <1>6 DEF Apart
  <2>2. Alone => Concluded(calls[c])'
    BY <1>2, <1>3, <2>1, <1>6, MovedFields DEF Concluded, Apart
  <2> QED BY <1>1, <1>3, <1>6, <2>2, PlayersStay, ServedStep DEF AInv
<1> QED
  BY <1>4, <1>5, <1>6, SelectAccountMoves DEF AInv

\* The server writes the link.
LEMMA InsertStep ==
    ASSUME AInv, NEW c \in Calls, Insert(c)
    PROVE  AInv'
<1> DEFINE k == calls[c]
           a == k.session.account
<1>1. /\ k.step = "creating" /\ UNCHANGED <<device, trouble>>
      /\ a \in Accounts /\ k.id \in AllIds \cup {None}
  BY InFlight DEF Insert, Sent, CallStates, AllIds
<1>2. Alone => k.id = playerId /\ playerId # None
  BY <1>1, InFlight DEF Concluded
<1>3. playerId' = playerId /\ trouble' \in Nat
  BY <1>1 DEF device, AInv, TypeOK
<1>4. CASE /\ players' = players
           /\ Moved(c, "answered", k.session, k.id, k.found, "failed", k.heard)
  <2>1. Alone => Concluded(calls[c])'
    BY <1>2, <1>3, <1>4, MovedFields DEF Concluded
  <2>2. "failed" \in Failures
    BY DEF Failures
  <2> QED BY <1>1, <1>3, <1>4, <2>1, <2>2, PlayersStay, ServedStep DEF AInv
<1>5. CASE /\ players[a] = None /\ \A b \in Accounts : players[b] # k.id
           /\ players' = [players EXCEPT ![a] = k.id]
           /\ Moved(c, "answered", k.session, k.id, k.found, "done", k.heard)
  <2>1. players' \in [Accounts -> AllIds \cup {None}] /\ OneToOne'
    BY <1>1, <1>5 DEF AInv, TypeOK, OneToOne
  <2>2. \A b \in Accounts : players[b] # None => players'[b] = players[b]
    BY <1>1, <1>5 DEF AInv, TypeOK
  <2>3. players'[a] = k.id
    BY <1>1, <1>5 DEF AInv, TypeOK
  <2>4. Alone => Concluded(calls[c])'
    BY <1>2, <1>3, <2>3, <1>5, MovedFields DEF Concluded
  <2> QED BY <1>1, <1>3, <1>5, <2>1, <2>2, <2>4, ServedStep
<1> QED
  BY <1>4, <1>5, InsertMoves DEF AInv

\* The server answers GET /me.
LEMMA LookStep ==
    ASSUME AInv, NEW c \in Calls, Look(c)
    PROVE  AInv'
<1> DEFINE k == calls[c]
           y == players[k.session.account]
<1>1. UNCHANGED <<device, players, trouble>> /\ k.step \in {"probing", "looking"}
      /\ k.session.account \in Accounts
  BY InFlight DEF Look, Sent
<1>2. Alone => k.id = playerId /\ playerId # None
               /\ (k.step = "probing" => Apart(k.session.account))
  BY <1>1, InFlight DEF Concluded
<1>3. playerId' = playerId /\ players' = players /\ trouble' \in Nat
      /\ happens' = happens
  BY <1>1 DEF device, AInv, TypeOK
<1>4. CASE k.step = "probing" /\ Moved(c, "probed", k.session, k.id, k.found, y, k.heard)
  <2>1. Alone => Concluded(calls[c])'
    BY <1>2, <1>3, <1>4, MovedFields DEF Concluded, Apart
  <2> HIDE DEF y
  <2> QED BY <1>1, <1>3, <1>4, <2>1, PlayersStay, ServedStep DEF AInv
<1>5. CASE k.step = "looking" /\ Moved(c, "looked", k.session, k.id, k.found, y, k.heard)
  <2>1. "retry" \in happens /\ ~Alone
    BY <1>5, InFlight DEF Sent, Alone
  <2> HIDE DEF y
  <2> QED BY <1>1, <1>3, <1>5, <2>1, PlayersStay, ServedStep DEF AInv
<1> QED
  BY <1>4, <1>5, LookMoves DEF AInv

\* A request goes wrong.
LEMMA GoWrongStep ==
    ASSUME AInv, NEW c \in Calls, NEW reply \in Failures, GoWrong(c, reply)
    PROVE  AInv'
<1> DEFINE k == calls[c]
<1>1. UNCHANGED <<device, players>> /\ k.step # "idle"
      /\ k.session.account \in Accounts
  BY InFlight DEF GoWrong, Sent
<1>2. Alone => k.id = playerId /\ playerId # None
  BY <1>1, InFlight DEF Concluded
<1>3. playerId' = playerId /\ players' = players /\ trouble' \in Nat
      /\ happens' = happens
  BY <1>1 DEF device, AInv, TypeOK, GoWrong
<1>4. CASE Moved(c, "answered", k.session, k.id, k.found, reply, k.heard)
  <2>1. reply \notin {"done", "conflict"}
    BY DEF Failures
  <2>2. Alone => Concluded(calls[c])'
    BY <1>2, <1>3, <2>1, <1>4, MovedFields DEF Concluded
  <2> QED BY <1>1, <1>3, <1>4, <2>2, PlayersStay, ServedStep DEF AInv
<1>5. CASE Moved(c, "probed", k.session, k.id, k.found, reply, k.heard)
  <2>1. Alone => Concluded(calls[c])'
    BY <1>2, <1>3, <1>5, MovedFields DEF Concluded
  <2> QED BY <1>1, <1>3, <1>5, <2>1, PlayersStay, ServedStep DEF AInv
<1>6. CASE k.step \in {"looking", "looked"}
           /\ Moved(c, "looked", k.session, k.id, k.found, reply, k.heard)
  <2>1. "retry" \in happens /\ ~Alone
    BY <1>6, InFlight DEF Sent, Alone
  <2> QED BY <1>1, <1>3, <1>6, <2>1, PlayersStay, ServedStep DEF AInv
<1> QED
  BY <1>4, <1>5, <1>6, GoWrongMoves DEF AInv

\* Another device's rows come and go, in a world that has one.
LEMMA OtherDeviceStep ==
    ASSUME AInv, NEW a \in Accounts, OtherDevice(a)
    PROVE  AInv'
<1> USE DEF AInv
<1>1. UNCHANGED <<session, state, about, playerId, erasure, happens, calls>>
      /\ "others" \in happens /\ trouble' \in Nat
  BY DEF OtherDevice, device, TypeOK
<1>2. ~Alone /\ ~Alone'
  BY <1>1 DEF Alone
<1>3. players' \in [Accounts -> AllIds \cup {None}] /\ OneToOne'
  <2>1. CASE ~Taken(OtherId, a) /\ players' = [players EXCEPT ![a] = OtherId]
    <3>1. \A b \in Accounts : players[b] # OtherId
      BY <2>1 DEF Taken, Owner
    <3> QED BY <2>1, <3>1 DEF TypeOK, OneToOne, AllIds
  <2>2. CASE players' = [players EXCEPT ![a] = None]
    BY <2>2 DEF TypeOK, OneToOne
  <2> QED BY <2>1, <2>2 DEF OtherDevice
<1>4. TypeOK'
  BY <1>1, <1>3 DEF TypeOK, OneToOne
<1>5. AllSent'
  BY <1>1 DEF AllSent, Sent
<1>6. StateIsOfThisSession'
  BY <1>1, StillOfThisSession
<1>7. AllConcluded' /\ LinkVerdictsAreTrue' /\ Recorded'
  BY <1>2 DEF AllConcluded, LinkVerdictsAreTrue, Recorded, Alone
<1> QED
  BY <1>4, <1>5, <1>6, <1>7

-----------------------------------------------------------------------------
(* The answers.                                                            *)

\* What handling an answer leaves to show: the verdict it draws, if it does.
LEMMA HandledStep ==
    ASSUME AInv, UNCHANGED <<session, playerId, players, erasure, happens>>,
           trouble' \in Nat, state' \in States, about' \in Accounts \cup {None},
           NEW c \in Calls, NEW w, NEW s, NEW i, NEW f,
           NEW y, NEW h, Moved(c, w, s, i, f, y, h),
           w # "idle" => s.account \in Accounts,
           w = "answered" => y \in Failures \cup {"done", "conflict"},
           w \in {"looking", "looked"} => "retry" \in happens,
           Alone => Concluded(calls[c])',
           StateIsOfThisSession', LinkVerdictsAreTrue' /\ Recorded'
    PROVE  AInv'
<1> USE DEF AInv
<1>1. OtherTypes' /\ calls' \in [Calls -> CallStates]
  BY DEF OtherTypes, TypeOK, Moved, OneToOne
<1>2. TypeOK'
  BY <1>1 DEF OtherTypes, TypeOK
<1>3. AllSent'
  BY MovedSent
<1>4. Grows
  BY DEF Grows
<1>5. AllConcluded'
  BY <1>4, MovedConcluded
<1> QED
  BY <1>2, <1>3, <1>5

\* An answer that nobody waits for is let go.
LEMMA DropStep ==
    ASSUME AInv, NEW c \in Calls, Drop(c),
           UNCHANGED <<session, playerId, players, erasure, happens, trouble>>
    PROVE  AInv'
<1>1. Moved(c, "idle", SignedOut, None, None, None, TRUE)
  BY QuietMoves DEF Drop, AInv
<1>2. Concluded(calls[c])'
  BY <1>1, MovedFields DEF Concluded
<1>3. UNCHANGED <<state, about>>
  BY DEF Drop
<1>4. StateIsOfThisSession'
  BY <1>3, StillOfThisSession DEF AInv
<1>5. LinkVerdictsAreTrue' /\ Recorded'
  BY <1>3, VerdictsStay DEF AInv, Grows
<1>6. state' \in States /\ about' \in Accounts \cup {None} /\ trouble' \in Nat
  BY <1>3 DEF AInv, TypeOK
<1> QED
  BY <1>1, <1>2, <1>4, <1>5, <1>6, HandledStep

\* One that is heard is about the session on screen, unless it was tapped for.
LEMMA HearStep ==
    ASSUME AInv, NEW c \in Calls, NEW new \in States, Hear(c, new),
           UNCHANGED <<session, playerId, players, erasure, happens, trouble>>,
           calls[c].step # "idle",
           StillOn(calls[c].session) \/ "retry" \in happens,
           Alone =>
              /\ new = "linked" => players[calls[c].session.account] = playerId
              /\ new = "otherDevice" =>
                    players[calls[c].session.account] \notin {None, playerId}
              /\ new = "otherAccount" =>
                    \E a \in Accounts \ {calls[c].session.account} :
                        players[a] = playerId
    PROVE  AInv'
<1>1. Moved(c, "idle", SignedOut, None, None, None, TRUE)
  BY QuietMoves DEF Hear, AInv
<1>2. Concluded(calls[c])'
  BY <1>1, MovedFields DEF Concluded
<1>3. state' = new /\ about' = calls[c].session.account
      /\ calls[c].session.account \in Accounts
  BY InFlight DEF Hear, Sent
<1>4. StateIsOfThisSession'
  <2>1. StillOn(calls[c].session) =>
           session # SignedOut /\ about' = session.account
    BY <1>3, ConstantsAssumption DEF StillOn, SignedOut
  <2> QED BY <1>3, <2>1 DEF StateIsOfThisSession
<1>5. Alone => StillOn(calls[c].session) /\ playerId # None
  BY InFlight DEF Alone, Concluded
<1>6. LinkVerdictsAreTrue' /\ Recorded'
  <2>1. Alone => session = calls[c].session
    BY <1>5 DEF StillOn
  <2>2. Alone' => Alone
    BY DEF Alone
  <2> QED BY <1>3, <1>5, <2>1, <2>2
          DEF LinkVerdictsAreTrue, LinkedIsThisPlayer, Recorded, Alone
<1>7. trouble' \in Nat
  BY DEF AInv, TypeOK
<1> QED
  BY <1>1, <1>2, <1>3, <1>4, <1>6, <1>7, HandledStep

\* The answer to a link is heard.
LEMMA ReceiveStep ==
    ASSUME AInv, NEW c \in Calls, Receive(c)
    PROVE  AInv'
<1> DEFINE k == calls[c]
<1>1. /\ k.step = "answered" /\ k \in CallStates
      /\ UNCHANGED <<session, playerId, players, erasure, happens, trouble>>
      /\ k.reply \in Failures \cup {"done", "conflict"}
      /\ k.session.account \in Accounts
  BY InFlight DEF Receive, Sent
<1>2. Alone => /\ k.id = playerId /\ playerId # None
               /\ k.reply = "done" => players[k.session.account] = playerId
               /\ k.reply = "conflict" => Apart(k.session.account)
  BY <1>1, InFlight DEF Concluded
<1>3. CASE Drop(c)
  BY <1>1, <1>3, DropStep
<1>4. CASE k.reply = "conflict" /\ calls' = [calls EXCEPT ![c].step = "probing"]
           /\ UNCHANGED <<state, about>>
  <2>1. CallOf("probing", k.session, k.id, k.found, k.reply, k.heard) \in CallStates
    BY <1>1, CallStatesAre DEF CallStates
  <2>2. Moved(c, "probing", k.session, k.id, k.found, k.reply, k.heard)
    BY <1>4, <2>1, StepMoves DEF AInv
  <2>3. Alone => Concluded(calls[c])'
    <3>1. calls'[c].step = "probing" /\ calls'[c].id = k.id
          /\ calls'[c].session = k.session
      BY <2>2, MovedFields
    <3> QED BY <1>1, <1>2, <1>4, <3>1 DEF Concluded, Apart
  <2>4. StateIsOfThisSession'
    BY <1>1, <1>4, StillOfThisSession DEF AInv
  <2>5. LinkVerdictsAreTrue' /\ Recorded'
    BY <1>1, <1>4, VerdictsStay DEF AInv, Grows
  <2>6. state' \in States /\ about' \in Accounts \cup {None} /\ trouble' \in Nat
    BY <1>1, <1>4 DEF AInv, TypeOK
  <2> QED BY <1>1, <2>2, <2>3, <2>4, <2>5, <2>6, HandledStep
<1>5. CASE StillOn(k.session) /\ k.reply # "conflict" /\ Hear(c, LinkStateFor(k.reply))
  <2> DEFINE new == LinkStateFor(k.reply)
  <2>1. new \in States /\ (new = "linked" => k.reply = "done")
        /\ new \notin {"otherDevice", "otherAccount"}
    BY <1>1, <1>5 DEF LinkStateFor, Failures, States
  <2> HIDE DEF new
  <2>2. Hear(c, new)
    BY <1>5 DEF new
  <2> QED BY <1>1, <1>2, <1>5, <2>1, <2>2, HearStep
<1> QED
  BY <1>3, <1>4, <1>5 DEF Receive

\* A conflict is told apart by whom the account has.
LEMMA ReceiveProbeStep ==
    ASSUME AInv, NEW c \in Calls, ReceiveProbe(c)
    PROVE  AInv'
<1> DEFINE k == calls[c]
<1>1. /\ k.step = "probed" /\ k \in CallStates
      /\ UNCHANGED <<session, playerId, players, erasure, happens, trouble>>
      /\ k.session.account \in Accounts
  BY InFlight DEF ReceiveProbe, Sent
<1>2. CASE Drop(c)
  BY <1>1, <1>2, DropStep
<1>3. CASE StillOn(k.session) /\ Hear(c, ConflictStateFor(k.reply, k.id))
  <2> DEFINE new == ConflictStateFor(k.reply, k.id)
  <2>1. new \in States
    BY DEF ConflictStateFor, States
  <2>2. Alone =>
           /\ new = "linked" => players[k.session.account] = playerId
           /\ new = "otherDevice" => players[k.session.account] \notin {None, playerId}
           /\ new = "otherAccount" =>
                 \E a \in Accounts \ {k.session.account} : players[a] = playerId
    <3> SUFFICES ASSUME Alone
                 PROVE  /\ new = "linked" => players[k.session.account] = playerId
                        /\ new = "otherDevice" =>
                              players[k.session.account] \notin {None, playerId}
                        /\ new = "otherAccount" =>
                              \E a \in Accounts \ {k.session.account} :
                                  players[a] = playerId
      OBVIOUS
    <3>1. /\ k.id = playerId
          /\ k.reply \notin Failures =>
                IF k.reply = None
                  THEN \E b \in Accounts \ {k.session.account} : players[b] = playerId
                  ELSE players[k.session.account] = k.reply
      BY <1>1, InFlight DEF Concluded
    <3> QED BY <3>1 DEF ConflictStateFor, Failures
  <2>3. Hear(c, new)
    BY <1>3
  <2> HIDE DEF new
  <2> QED BY <1>1, <1>3, <2>1, <2>2, <2>3, HearStep
<1> QED
  BY <1>2, <1>3 DEF ReceiveProbe

\* The answer to a tap is heard.
LEMMA ReceiveLookStep ==
    ASSUME AInv, NEW c \in Calls, ReceiveLook(c)
    PROVE  AInv'
<1> DEFINE new == AccountStateFor(calls[c].reply)
<1>1. /\ calls[c].step = "looked" /\ "retry" \in happens /\ Hear(c, new)
      /\ UNCHANGED <<session, playerId, players, erasure, happens, trouble>>
  BY InFlight DEF ReceiveLook, Sent
<1>2. new \in States
  BY DEF AccountStateFor, FailureState, Failures, States
<1>3. ~Alone
  BY <1>1 DEF Alone
<1> HIDE DEF new
<1> QED
  BY <1>1, <1>2, <1>3, HearStep

\* A link is given up on: the screen says offline.
LEMMA TimeOutStep ==
    ASSUME AInv, NEW c \in Calls, TimeOut(c)
    PROVE  AInv'
<1> DEFINE k == calls[c]
<1>1. /\ k.step \in {"asked", "half", "creating"} /\ k \in CallStates
      /\ UNCHANGED <<session, playerId, players, erasure, happens>>
      /\ k.session.account \in Accounts /\ trouble' \in Nat
  BY InFlight DEF TimeOut, Sent, AInv, TypeOK
<1>2. Moved(c, k.step, k.session, k.id, k.found, k.reply, FALSE)
  BY TimeOutMoves DEF AInv
<1>3. Alone => Concluded(calls[c])'
  <2>1. /\ calls'[c].step = k.step /\ calls'[c].id = k.id
        /\ calls'[c].session = k.session /\ calls'[c].found = k.found
    BY <1>2, MovedFields
  <2>2. Alone => Concluded(k)
    BY InFlight
  <2> QED BY <1>1, <2>1, <2>2 DEF Concluded
<1>4. CASE StillOn(k.session) /\ state' = "offline" /\ about' = k.session.account
  <2>1. StateIsOfThisSession'
    BY <1>1, <1>4, ConstantsAssumption DEF StateIsOfThisSession, StillOn, SignedOut
  <2>2. LinkVerdictsAreTrue' /\ Recorded'
    BY <1>4 DEF LinkVerdictsAreTrue, LinkedIsThisPlayer, Recorded
  <2>3. state' \in States /\ about' \in Accounts \cup {None}
    BY <1>1, <1>4 DEF States
  <2> QED BY <1>1, <1>2, <1>3, <2>1, <2>2, <2>3, HandledStep
<1>5. CASE UNCHANGED <<state, about>>
  <2>1. StateIsOfThisSession'
    BY <1>1, <1>5, StillOfThisSession DEF AInv
  <2>2. LinkVerdictsAreTrue' /\ Recorded'
    BY <1>1, <1>5, VerdictsStay DEF AInv, Grows
  <2>3. state' \in States /\ about' \in Accounts \cup {None}
    BY <1>5 DEF AInv, TypeOK
  <2> QED BY <1>1, <1>2, <1>3, <2>1, <2>2, <2>3, HandledStep
<1> QED
  BY <1>4, <1>5 DEF TimeOut

-----------------------------------------------------------------------------
(* Who is signed in, the erasure, and the theorems.                        *)

\* The session ends, the account is erased, or a call is over.
LEMMA AroundStep ==
    ASSUME AInv, SignOut \/ Forget \/ Erase \/ EraseServed \/ Done \/ UNCHANGED vars
    PROVE  AInv'
<1> USE DEF AInv
<1>1. CASE SignOut \/ Done
  <2>1. /\ session' = SignedOut /\ state' = "none" /\ erasure' = NoErasure
        /\ UNCHANGED <<about, playerId, calls, players, happens, trouble>>
    BY <1>1 DEF SignOut, Done, Leave
  <2>2. StateIsOfThisSession' /\ LinkVerdictsAreTrue' /\ Recorded'
    BY <2>1, WaitingIsNoVerdict
  <2>3. TypeOK'
    BY <2>1 DEF TypeOK, OneToOne, Sessions, States
  <2>4. AllSent' /\ AllConcluded'
    BY <2>1 DEF AllSent, Sent, AllConcluded, Concluded, Alone, Apart
  <2> QED BY <2>2, <2>3, <2>4
<1>2. CASE Forget
  <2>1. /\ session' = SignedOut /\ "refusal" \in happens
        /\ UNCHANGED <<state, about, playerId, calls, players, erasure,
                       happens, trouble>>
    BY <1>2 DEF Forget
  <2>2. StateIsOfThisSession' /\ LinkVerdictsAreTrue' /\ Recorded'
    BY <2>1 DEF StateIsOfThisSession, LinkVerdictsAreTrue, Recorded, Alone
  <2>3. TypeOK'
    BY <2>1 DEF TypeOK, OneToOne, Sessions
  <2>4. AllSent' /\ AllConcluded'
    BY <2>1 DEF AllSent, Sent, AllConcluded, Concluded, Alone, Apart
  <2> QED BY <2>2, <2>3, <2>4
<1>3. CASE Erase
  <2>1. /\ session # SignedOut
        /\ erasure' = [account |-> session.account, step |-> "erasing"]
        /\ UNCHANGED <<session, state, about, playerId, calls, players, happens,
                       trouble>>
    BY <1>3 DEF Erase, ErasureOffered
  <2>2. session.account \in Accounts
    BY <2>1, SessionsAre DEF TypeOK
  <2>3. TypeOK'
    BY <2>1, <2>2 DEF TypeOK, OneToOne
  <2>4. AllSent' /\ AllConcluded'
    BY <1>3, <2>1 DEF Erase, AllSent, Sent, AllConcluded, Concluded, Alone, Apart
  <2>5. StateIsOfThisSession'
    BY <2>1, StillOfThisSession
  <2>6. LinkVerdictsAreTrue' /\ Recorded'
    BY <2>1, VerdictsStay DEF Grows
  <2> QED BY <2>3, <2>4, <2>5, <2>6
<1>4. CASE EraseServed
  <2>1. /\ erasure.step = "erasing" /\ erasure \in [account : Accounts, step : {"erasing", "gone"}]
        /\ players' = [players EXCEPT ![erasure.account] = None]
        /\ erasure' = [erasure EXCEPT !.step = "gone"]
        /\ UNCHANGED <<session, state, about, playerId, calls, happens, trouble>>
    BY <1>4 DEF EraseServed, TypeOK, NoErasure
  <2>2. TypeOK'
    BY <2>1 DEF TypeOK, OneToOne
  <2>3. AllSent'
    BY <2>1 DEF AllSent, Sent, NoErasure
  <2>4. StateIsOfThisSession'
    BY <2>1, StillOfThisSession
  <2>5. ~Alone'
    BY <2>1 DEF AllSent, Alone, NoErasure
  <2>6. AllConcluded' /\ LinkVerdictsAreTrue' /\ Recorded'
    BY <2>5 DEF AllConcluded, LinkVerdictsAreTrue, Recorded, Alone
  <2> QED BY <2>2, <2>3, <2>4, <2>6
<1>5. CASE UNCHANGED vars
  BY <1>5 DEF vars, TypeOK, OneToOne, AllSent, Sent, StateIsOfThisSession,
              AllConcluded, Concluded, Alone, Apart, LinkVerdictsAreTrue,
              LinkedIsThisPlayer, Recorded
<1> QED
  BY <1>1, <1>2, <1>3, <1>4, <1>5

\* Every step keeps the invariant.
LEMMA AInvStep == AInv /\ [Next]_vars => AInv'
<1> SUFFICES ASSUME AInv, [Next]_vars
             PROVE  AInv'
  OBVIOUS
<1>1. CASE \E c \in Calls : \/ \E t \in Tokens : \/ Renew(c, t)
                                                 \/ \E a \in Accounts : SignIn(c, a, t)
                            \/ Retry(c)
  BY <1>1, AskStep
<1>2. CASE \E c \in Calls : SelectPlayer(c) \/ SelectAccount(c) \/ Insert(c) \/ Look(c)
  BY <1>2, SelectPlayerStep, SelectAccountStep, InsertStep, LookStep
<1>3. CASE \E c \in Calls :
              Receive(c) \/ ReceiveProbe(c) \/ ReceiveLook(c) \/ TimeOut(c)
  BY <1>3, ReceiveStep, ReceiveProbeStep, ReceiveLookStep, TimeOutStep
<1>4. CASE \E c \in Calls, reply \in Failures : GoWrong(c, reply)
  BY <1>4, GoWrongStep
<1>5. CASE \E a \in Accounts : OtherDevice(a)
  BY <1>5, OtherDeviceStep
<1>6. CASE SignOut \/ Forget \/ Erase \/ EraseServed \/ Done \/ UNCHANGED vars
  BY <1>6, AroundStep
<1> QED
  BY <1>1, <1>2, <1>3, <1>4, <1>5, <1>6 DEF Next

\* The app starts signed out, with nothing asked.
LEMMA AInvInit == Init => AInv
<1> SUFFICES ASSUME Init
             PROVE  AInv
  OBVIOUS
<1>1. calls \in [Calls -> CallStates] /\ \A c \in Calls : calls[c] = Quiet
  BY QuietIs DEF Init
<1>2. Quiet.step = "idle"
  BY DEF Quiet, Call
<1>3. OtherTypes
  BY DEF Init, OtherTypes, Sessions, States, AllIds
<1>4. AllSent /\ AllConcluded
  BY <1>1, <1>2 DEF Init, AllSent, Sent, AllConcluded, Concluded, NoErasure
<1>5. StateIsOfThisSession /\ LinkVerdictsAreTrue /\ Recorded
  BY DEF Init, StateIsOfThisSession, LinkVerdictsAreTrue, Recorded
<1> QED
  BY <1>1, <1>3, <1>4, <1>5, TypesOfParts DEF AInv

\* The invariant always holds.
LEMMA AInvAlways == Spec => []AInv
  BY AInvInit, AInvStep, PTL DEF Spec

\* Types; and players stay one to one with accounts, whoever inserts between
\* another's reads.
THEOREM AccountTyping == Spec => []TypeOK
<1>1. AInv => TypeOK
  BY DEF AInv
<1> QED
  BY <1>1, AInvAlways, PTL

\* A verdict on screen is about the account signed in, however sign-ins,
\* renewals, timeouts and answers cross (_stillOn).
THEOREM VerdictsAreOfThisSession == Spec => []StateIsOfThisSession
<1>1. AInv => StateIsOfThisSession
  BY DEF AInv
<1> QED
  BY <1>1, AInvAlways, PTL

\* What linking alone concludes is so: linked is linked to this device's player,
\* and a conflict names the side it is on (conflictStateFor).
THEOREM VerdictsAreTrue == Spec => []LinkVerdictsAreTrue
<1>1. AInv => LinkVerdictsAreTrue
  BY DEF AInv
<1> QED
  BY <1>1, AInvAlways, PTL
=============================================================================
