----------------------------- MODULE GatewayProofs -----------------------------
(***************************************************************************)
(* What holds of the request path for any number of requests, connections, *)
(* accounts and failures.                                                  *)
(*                                                                         *)
(* The argument: a step concerns one request and the one connection it     *)
(* holds, so the invariant is a fact about each such pair, and it is kept  *)
(* if the pair a step leaves behind has it again.                          *)
(***************************************************************************)
EXTENDS Gateway, FiniteSetTheorems, TLAPS

Holding == {"begin", "switch", "work", "commit", "rollback", "release"}
InHand == Holding \cup {"borrow"}

ReqFields == {"pc", "caller", "op", "at", "player", "status", "kept"}
ConnFields == {"by", "open", "tx", "role", "wrote", "linked", "erased"}

\* The header h earns what the caller is said to be.
Earned(h, who) ==
    \E t \in Tokens : /\ Len(h) = 2 /\ h[1] = "bearer" /\ h[2] = t
                      /\ t \in InForce /\ SignedWith[t] = "EdDSA"
                      /\ Subject[t] = who /\ who \in Accounts

\* A request x with the header h.
ReqOK(h, x) ==
    /\ DOMAIN x = ReqFields
    /\ x.caller.kind = "session" => Earned(h, x.caller.account)
    /\ x.pc \in InHand => x.caller.kind = "session"

Empty(y) == y.role = "owner" /\ y.wrote = {} /\ y.linked = {} /\ y.erased = {}
Clean(y) == Empty(y) /\ y.tx # "open"

ConnOK(y) ==
    /\ DOMAIN y = ConnFields
    /\ y.by \in Requests \cup {NoOne}
    /\ y.by = NoOne \/ ~y.open => Clean(y)

\* A request x and the connection y it holds.
PairOK(x, y) ==
    /\ x.pc \in Holding
    /\ x.pc \in {"begin", "release"} => Clean(y)
    /\ x.pc = "switch" => Empty(y)
    /\ y.role \in {"owner", RoleOf(x.op)}
    /\ x.pc = "work" /\ y.open => y.role # "owner"

IInv ==
    /\ DOMAIN req = Requests /\ DOMAIN conns = Conns
    /\ \A r \in Requests : ReqOK(sent[r].header, req[r])
    /\ \A c \in Conns : ConnOK(conns[c])
    /\ \A r \in Requests, c \in Conns : conns[c].by = r => PairOK(req[r], conns[c])
    /\ \A c, d \in Conns : conns[c].by = conns[d].by /\ conns[c].by # NoOne => c = d

\* A step of the request r on the connection c, which it holds, or which
\* nobody holds while r holds none.
Touches(r, c) ==
    /\ sent' = sent
    /\ DOMAIN req' = Requests /\ DOMAIN conns' = Conns
    /\ \A q \in Requests : q # r => req'[q] = req[q]
    /\ \A d \in Conns : d # c => conns'[d] = conns[d]
    /\ conns[c].by = r \/ (conns[c].by = NoOne /\ req[r].pc \notin Holding)

\* A step of one pair that leaves it well leaves every other pair as it was.
LEMMA LocalStep ==
    ASSUME IInv, NEW r \in Requests, NEW c \in Conns, Touches(r, c),
           ReqOK(sent[r].header, req'[r]), ConnOK(conns'[c]),
           conns'[c].by \in {r, NoOne},
           conns'[c].by = r => PairOK(req'[r], conns'[c])
    PROVE  IInv'
<1> USE NoOneAssumption
<1>1. \A d \in Conns : d # c => conns[d].by # r
  BY DEF IInv, Touches, PairOK
<1>2. \A q \in Requests : ReqOK(sent'[q].header, req'[q])
  BY DEF IInv, Touches
<1>3. \A d \in Conns : ConnOK(conns'[d])
  BY DEF IInv, Touches
<1>4. \A q \in Requests, d \in Conns : conns'[d].by = q => PairOK(req'[q], conns'[d])
  <2> SUFFICES ASSUME NEW q \in Requests, NEW d \in Conns, conns'[d].by = q
               PROVE  PairOK(req'[q], conns'[d])
    OBVIOUS
  <2>1. CASE d = c
    BY <2>1
  <2>2. CASE d # c
    BY <1>1, <2>2 DEF IInv, Touches
  <2> QED BY <2>1, <2>2
<1>5. \A d, e \in Conns : conns'[d].by = conns'[e].by /\ conns'[d].by # NoOne => d = e
  BY <1>1 DEF IInv, Touches
<1> QED BY <1>2, <1>3, <1>4, <1>5 DEF IInv, Touches

\* A step of a request that holds no connection, before and after.
LEMMA AloneStep ==
    ASSUME IInv, NEW r \in Requests, sent' = sent, conns' = conns,
           DOMAIN req' = Requests, \A q \in Requests : q # r => req'[q] = req[q],
           ReqOK(sent[r].header, req'[r]), req[r].pc \notin Holding
    PROVE  IInv'
<1>1. \A d \in Conns : conns[d].by # r
  BY DEF IInv, PairOK
<1>2. \A q \in Requests, d \in Conns : conns'[d].by = q => PairOK(req'[q], conns'[d])
  BY <1>1 DEF IInv
<1> QED BY <1>2 DEF IInv

\* Who verification says is a session has earned it.
LEMMA SessionsAreEarned ==
    ASSUME NEW h, Verified(h).kind = "session"
    PROVE  Earned(h, Verified(h).account)
BY DEF Verified, Absent, Refused, Bearers, AlgorithmIsPinned, NamesAnAccount, Earned

\* The router sends nobody but a session to a handler.
LEMMA OnlySessionsAreDispatched ==
    ASSUME NEW m, NEW p, NEW who, Route(m, p, who).kind # "answer"
    PROVE  who.kind = "session"
BY DEF Route, Answer, Dispatch

\* Nobody holds a connection at the start.
LEMMA InvInit == Init => IInv
BY NoOneAssumption DEF Init, IInv, Arrived, Absent, Closed, ReqOK, ReqFields, ConnOK,
   ConnFields, Clean, Empty, PairOK, InHand, Holding

USE DEF ReqOK, ReqFields, ConnOK, ConnFields, InHand, Holding

\* Up to the pool a request holds nothing.
LEMMA Prologue ==
    ASSUME IInv, NEW r \in Requests,
           Verify(r) \/ Decide(r) \/ KeysUnreachable(r) \/ CannotConnect(r)
    PROVE  IInv'
<1>0. ReqOK(sent[r].header, req[r]) /\ DOMAIN req = Requests
  BY DEF IInv
<1>1. CASE Verify(r)
  <2>1. ReqOK(sent[r].header, req'[r]) /\ req[r].pc \notin Holding
    BY <1>0, <1>1, SessionsAreEarned DEF Verify
  <2> QED BY <1>0, <1>1, <2>1, AloneStep DEF Verify
<1>2. CASE Decide(r)
  <2>1. ReqOK(sent[r].header, req'[r]) /\ req[r].pc \notin Holding
    BY <1>0, <1>2, OnlySessionsAreDispatched DEF Decide
  <2> QED BY <1>0, <1>2, <2>1, AloneStep DEF Decide
<1>3. CASE KeysUnreachable(r)
  <2>1. ReqOK(sent[r].header, req'[r]) /\ req[r].pc \notin Holding
    BY <1>0, <1>3 DEF KeysUnreachable, Refused
  <2> QED BY <1>0, <1>3, <2>1, AloneStep DEF KeysUnreachable
<1>4. CASE CannotConnect(r)
  <2>1. ReqOK(sent[r].header, req'[r]) /\ req[r].pc \notin Holding
    BY <1>0, <1>4 DEF CannotConnect
  <2> QED BY <1>0, <1>4, <2>1, AloneStep DEF CannotConnect
<1> QED BY <1>1, <1>2, <1>3, <1>4

USE DEF Clean, Empty, PairOK

\* The roles of the operations are not the login's.
LEMMA RolesAreNotTheOwners == \A op : RoleOf(op) # "owner"
BY DEF RoleOf

\* The steps around a handler: borrow, begin, switch, end, give back, and a
\* connection that is cut under any of them.
LEMMA Bracket ==
    ASSUME IInv, NEW r \in Requests, NEW c \in Conns,
           \/ Borrow(r, c) \/ Begin(r, c) \/ Switch(r, c) \/ SwitchRefused(r, c)
           \/ Commit(r, c) \/ CommitUnheard(r, c) \/ Rollback(r, c)
           \/ Release(r, c) \/ Cut(r, c)
    PROVE  IInv'
<1>0. /\ ReqOK(sent[r].header, req[r]) /\ ConnOK(conns[c])
      /\ conns[c].by = r => PairOK(req[r], conns[c])
      /\ DOMAIN req = Requests /\ DOMAIN conns = Conns
      /\ r # NoOne
  BY NoOneAssumption DEF IInv
<1> DEFINE Left == /\ ReqOK(sent[r].header, req'[r]) /\ ConnOK(conns'[c])
                   /\ conns'[c].by \in {r, NoOne}
                   /\ conns'[c].by = r => PairOK(req'[r], conns'[c])
                   /\ Touches(r, c)
<1>1. CASE Borrow(r, c)
  <2> Left BY <1>0, <1>1 DEF Borrow, Touches
  <2> QED BY LocalStep
<1>2. CASE Begin(r, c)
  <2> Left BY <1>0, <1>2 DEF Begin, Touches
  <2> QED BY LocalStep
<1>3. CASE Switch(r, c)
  <2>1. CASE conns[c].open
    <3>1. req'[r].op = req[r].op /\ conns'[c].role = RoleOf(req[r].op)
      BY <1>0, <1>3, <2>1 DEF Switch
    <3>2. ReqOK(sent[r].header, req'[r]) /\ Touches(r, c)
      BY <1>0, <1>3, <2>1 DEF Switch, Touches
    <3>3. ConnOK(conns'[c]) /\ conns'[c].by = r
      BY <1>0, <1>3, <2>1 DEF Switch
    <3>4. req'[r].pc = "work"
      BY <1>0, <1>3, <2>1 DEF Switch
    <3>5. PairOK(req'[r], conns'[c])
      BY <3>1, <3>4, RolesAreNotTheOwners
    <3> QED BY <3>2, <3>3, <3>5, LocalStep
  <2>2. CASE ~conns[c].open
    <3> Left BY <1>0, <1>3, <2>2 DEF Switch, Touches
    <3> QED BY LocalStep
  <2> QED BY <2>1, <2>2
<1>4. CASE SwitchRefused(r, c)
  <2> Left BY <1>0, <1>4 DEF SwitchRefused, Touches
  <2> QED BY LocalStep
<1>5. CASE Commit(r, c)
  <2> Left BY <1>0, <1>5 DEF Commit, Leaving, Closed, Touches
  <2> QED BY LocalStep
<1>6. CASE CommitUnheard(r, c)
  <2> Left BY <1>0, <1>6 DEF CommitUnheard, Throw, Leaving, Closed, Touches
  <2> QED BY LocalStep
<1>7. CASE Rollback(r, c)
  <2> Left BY <1>0, <1>7 DEF Rollback, Leaving, Closed, Touches
  <2> QED BY LocalStep
<1>8. CASE Release(r, c)
  <2> Left BY <1>0, <1>8 DEF Release, GivenBack, Closed, Touches
  <2> QED BY LocalStep
<1>9. CASE Cut(r, c)
  <2> Left BY <1>0, <1>9 DEF Cut, Throw, Touches
  <2> QED BY LocalStep
<1> QED BY <1>1, <1>2, <1>3, <1>4, <1>5, <1>6, <1>7, <1>8, <1>9

\* What a statement leaves of its request.
LEMMA AfterAStatement ==
    ASSUME NEW r \in Requests, DOMAIN req[r] = ReqFields, req[r].pc = "work", NEW s
    PROVE  /\ DOMAIN Proceed(r, s) = ReqFields
           /\ Proceed(r, s).pc \in {"work", "commit"}
           /\ Proceed(r, s).caller = req[r].caller /\ Proceed(r, s).op = req[r].op
           /\ DOMAIN AnswerWith(r, s) = ReqFields /\ AnswerWith(r, s).pc = "commit"
           /\ AnswerWith(r, s).caller = req[r].caller
           /\ AnswerWith(r, s).op = req[r].op
           /\ DOMAIN Caught(r) = ReqFields /\ Caught(r).pc = "rollback"
           /\ Caught(r).caller = req[r].caller /\ Caught(r).op = req[r].op
BY DEF Proceed, AnswerWith, Caught, Throw

\* A statement, whether it succeeds or raises, stays in the transaction.
LEMMA Work ==
    ASSUME IInv, NEW r \in Requests, NEW c \in Conns,
           \/ Find(r, c) \/ Read(r, c) \/ Write(r, c) \/ Whose(r, c)
           \/ Insert(r, c) \/ EraseRow(r, c) \/ Fail(r, c)
    PROVE  IInv'
<1>0. /\ ReqOK(sent[r].header, req[r]) /\ ConnOK(conns[c])
      /\ conns[c].by = r => PairOK(req[r], conns[c])
      /\ DOMAIN req = Requests /\ DOMAIN conns = Conns
      /\ r # NoOne
  BY NoOneAssumption DEF IInv
<1>1. Usable(r, c)
  BY DEF Find, Read, Write, Whose, Insert, EraseRow, Fail
<1>2. req[r].pc = "work" /\ conns[c].by = r /\ conns[c].open
  BY <1>1 DEF Usable
<1>3. /\ DOMAIN req'[r] = ReqFields /\ req'[r].pc \in {"work", "commit", "rollback"}
      /\ req'[r].caller = req[r].caller /\ req'[r].op = req[r].op
      /\ DOMAIN req' = Requests /\ \A q \in Requests : q # r => req'[q] = req[q]
  <2>1. CASE Find(r, c)
    BY <1>0, <1>2, <2>1, AfterAStatement DEF Find
  <2>2. CASE Read(r, c)
    BY <1>0, <1>2, <2>2, AfterAStatement DEF Read
  <2>3. CASE Write(r, c)
    BY <1>0, <1>2, <2>3, AfterAStatement DEF Write
  <2>4. CASE Whose(r, c)
    BY <1>0, <1>2, <2>4, AfterAStatement DEF Whose
  <2>5. CASE Insert(r, c)
    BY <1>0, <1>2, <2>5, AfterAStatement DEF Insert
  <2>6. CASE EraseRow(r, c)
    BY <1>0, <1>2, <2>6, AfterAStatement DEF EraseRow
  <2>7. CASE Fail(r, c)
    BY <1>0, <1>2, <2>7, AfterAStatement DEF Fail
  <2> QED BY <2>1, <2>2, <2>3, <2>4, <2>5, <2>6, <2>7
<1>4. /\ DOMAIN conns'[c] = ConnFields /\ conns'[c].by = r
      /\ conns'[c].role = conns[c].role /\ conns'[c].open
      /\ DOMAIN conns' = Conns /\ \A d \in Conns : d # c => conns'[d] = conns[d]
  <2>1. CASE conns' = conns
    BY <1>0, <1>2, <2>1
  <2>2. CASE conns' = [conns EXCEPT ![c] = Aborted(c)]
    BY <1>0, <1>2, <2>2 DEF Aborted
  <2>3. ASSUME NEW w, \/ conns' = [conns EXCEPT ![c].wrote = w]
                      \/ conns' = [conns EXCEPT ![c].linked = w]
                      \/ conns' = [conns EXCEPT ![c].erased = w]
        PROVE  <1>4!:
    BY <1>0, <1>2, <2>3
  <2>4. CASE Write(r, c)
    BY <2>2, <2>3, <2>4 DEF Write
  <2>5. CASE Insert(r, c)
    BY <2>2, <2>3, <2>5 DEF Insert
  <2>6. CASE EraseRow(r, c)
    BY <2>3, <2>6 DEF EraseRow
  <2>7. CASE Find(r, c) \/ Read(r, c) \/ Whose(r, c) \/ Fail(r, c)
    BY <2>1, <2>2, <2>7 DEF Find, Read, Whose, Fail
  <2> QED BY <2>4, <2>5, <2>6, <2>7
<1>5. sent' = sent
  BY DEF Find, Read, Write, Whose, Insert, EraseRow, Fail
<1>6. /\ ReqOK(sent[r].header, req'[r]) /\ ConnOK(conns'[c])
      /\ PairOK(req'[r], conns'[c]) /\ Touches(r, c)
  BY <1>0, <1>2, <1>3, <1>4, <1>5 DEF Touches
<1> QED BY <1>4, <1>6, LocalStep

\* A connection or the process ends.
LEMMA Ends ==
    ASSUME IInv, (\E c \in Conns : Lose(c)) \/ Die
    PROVE  IInv'
<1> USE NoOneAssumption
<1>1. ASSUME NEW c \in Conns, Lose(c) PROVE IInv'
  BY <1>1 DEF Lose, IInv, Closed
<1>2. CASE Die
  BY <1>2 DEF Die, IInv, Closed
<1> QED BY <1>1, <1>2

\* Every step keeps the invariant.
LEMMA InvStep == IInv /\ [Next]_vars => IInv'
<1> SUFFICES ASSUME IInv, [Next]_vars PROVE IInv'
  OBVIOUS
<1>1. ASSUME NEW r \in Requests, Serve(r) \/ Faulty(r) PROVE IInv'
  <2>1. CASE Verify(r) \/ Decide(r) \/ KeysUnreachable(r) \/ CannotConnect(r)
    BY <2>1, Prologue
  <2>2. ASSUME NEW c \in Conns,
               OnConn(r, c) \/ SwitchRefused(r, c) \/ Fail(r, c) \/ CommitUnheard(r, c)
        PROVE  IInv'
    BY <2>2, Bracket, Work DEF OnConn
  <2> QED BY <1>1, <2>1, <2>2 DEF Serve, Faulty
<1>2. CASE UNCHANGED vars
  BY <1>2 DEF vars, tables, IInv
<1> QED BY <1>1, <1>2, Ends DEF Next

\* The inductive invariant: a connection is as its holder's place says, and clean
\* when nobody holds it.
THEOREM GatewayInvariant == Spec => []IInv
BY InvInit, InvStep, PTL DEF Spec

\* Nothing of a request is left on a connection for the next one: neither its
\* role nor anything that could still be committed (request-database.ts).
THEOREM NothingIsLeftBehind == Spec => []ConnectionsRestClean
<1>1. IInv => ConnectionsRestClean
  BY DEF IInv, ConnectionsRestClean, Kept
<1> QED BY <1>1, GatewayInvariant, PTL

\* Nobody but a verified session's request reaches the database, under the
\* role of its operation (session-verifier.ts, routing.ts).
THEOREM VerifiedOnly == Spec => []OnlyTheVerified
<1>1. IInv => OnlyTheVerified
  <2> SUFFICES ASSUME IInv, NEW c \in Conns, NEW r \in Requests, conns[c].by = r
               PROVE  /\ Earned(sent[r].header, Account(r))
                      /\ PairOK(req[r], conns[c])
    BY DEF OnlyTheVerified, Earned
  <2> QED BY DEF IInv, Account
<1> QED BY <1>1, GatewayInvariant, PTL

-----------------------------------------------------------------------------
(***************************************************************************)
(* The effects.  What a transaction will keep is fixed by how far its      *)
(* request has come, so a COMMIT keeps all of a unit of work, and what is  *)
(* answered says whether it did.                                           *)
(***************************************************************************)

\* The request has not been through a COMMIT.
Early == {"arrived", "known", "borrow", "begin", "switch", "work", "commit"}
Statuses == {0, 200, 204, 400, 401, 404, 405, 409, 500, 501}

\* The status says what was kept.
Told(x) ==
    /\ x.status \in {400, 401, 404, 405, 409, 501} => x.kept = {}
    /\ x.status \in {200, 204} /\ x.op \in Writers => x.kept # {}

RowWriters == {"issuePack", "submitAttempts"}

\* The rows that r, as it stands at x, has written by its nth statement.
Lines(r, x, n) ==
    IF x.op \in RowWriters THEN {<<x.player, <<r, k>>>> : k \in 2..n} ELSE {}

RequestOK(x) ==
    /\ x.pc \in Early \cup {"rollback", "release", "answered", "dropped"}
    /\ x.status \in Statuses
    /\ x.pc \in Early => x.kept = {}
    /\ x.pc = "rollback" => x.status = 500
    /\ x.pc \in {"release", "answered"} => Told(x)
    /\ x.pc \in {"arrived", "known"} => x.op = "none"
    /\ x.pc \in InHand => x.op \in IMPLEMENTED_OPERATIONS
    /\ x.pc \in {"borrow", "begin", "switch"} => x.at = 1
    /\ x.pc = "work" => x.at \in 1..Len(Statements(x.op))

Bare(y) == y.wrote = {} /\ y.linked = {} /\ y.erased = {}

\* What stands on the connection y that r holds.
PendingOK(r, x, y) ==
    /\ y.open /\ x.pc = "work" =>
        y.wrote = Lines(r, x, x.at - 1) /\ y.linked = {} /\ y.erased = {}
    /\ y.open /\ x.pc = "commit" =>
        \/ x.status \in {404, 409} /\ Bare(y)
        \/ /\ x.status \in {200, 204}
           /\ y.wrote = Lines(r, x, Len(Statements(x.op)))
           /\ x.op = "deleteMe" => y.erased # {}

RowsOf(r, p) == {w \in rows[p] : w[1] = r}

\* The rows of r under p are all there or none is, r standing at x.
Whole(r, x, p) ==
    \/ RowsOf(r, p) = {}
    \/ /\ x.pc \notin Early
       /\ Cardinality(RowsOf(r, p)) = IF x.op = "submitAttempts" THEN 2 ELSE 1

EInv ==
    /\ \A r \in Requests : RequestOK(req[r])
    /\ \A r \in Requests : req[r].pc \in Holding => \E c \in Conns : conns[c].by = r
    /\ \A c \in Conns : conns[c].tx \in {"none", "open", "aborted"}
    /\ \A r \in Requests, c \in Conns :
            conns[c].by = r => PendingOK(r, req[r], conns[c])
    /\ \A r \in Requests, p \in Players : Whole(r, req[r], p)

\* A step that keeps the tables, of r alone or on the connection c.
LEMMA LocalEffect ==
    ASSUME IInv, EInv, NEW r \in Requests, NEW c \in Conns, Touches(r, c),
           UNCHANGED tables, RequestOK(req'[r]),
           conns'[c].tx \in {"none", "open", "aborted"},
           req'[r].pc \in Holding => conns'[c].by = r,
           conns'[c].by \in {r, NoOne},
           conns'[c].by = r => PendingOK(r, req'[r], conns'[c]),
           req'[r].pc \in Early => req[r].pc \in Early,
           req'[r].op = req[r].op
    PROVE  EInv'
<1> USE NoOneAssumption
<1>1. \A q \in Requests : RequestOK(req'[q])
  BY DEF EInv, Touches
<1>2. \A q \in Requests : q # r => conns[c].by # q
  <2> SUFFICES ASSUME NEW q \in Requests, q # r, conns[c].by = q PROVE FALSE
    OBVIOUS
  <2> QED BY DEF IInv, Touches
<1>3. \A q \in Requests : req'[q].pc \in Holding => \E d \in Conns : conns'[d].by = q
  <2> SUFFICES ASSUME NEW q \in Requests, req'[q].pc \in Holding, q # r
               PROVE  \E d \in Conns : conns'[d].by = q
    OBVIOUS
  <2>1. PICK d \in Conns : conns[d].by = q
    BY DEF EInv, Touches
  <2> QED BY <1>2, <2>1 DEF Touches
<1>4. \A d \in Conns : conns'[d].tx \in {"none", "open", "aborted"}
  BY DEF EInv, Touches
<1>5. \A q \in Requests, d \in Conns :
        conns'[d].by = q => PendingOK(q, req'[q], conns'[d])
  <2> SUFFICES ASSUME NEW q \in Requests, NEW d \in Conns, conns'[d].by = q
               PROVE  PendingOK(q, req'[q], conns'[d])
    OBVIOUS
  <2>1. CASE d = c
    BY <2>1
  <2>2. CASE d # c
    <3>1. conns[d].by = q /\ conns'[d] = conns[d]
      BY <2>2 DEF Touches
    <3>2. q # r
      BY <2>2, <3>1 DEF Touches, IInv, PairOK
    <3> QED BY <3>1, <3>2 DEF EInv, Touches
  <2> QED BY <2>1, <2>2
<1>6. \A q \in Requests, p \in Players : Whole(q, req'[q], p)
  BY DEF EInv, Whole, Touches
<1>7. \A q \in Requests, p \in Players : RowsOf(q, p)' = RowsOf(q, p)
  BY DEF RowsOf, tables
<1>8. \A q \in Requests, p \in Players : Whole(q, req[q], p)'
  BY <1>6, <1>7 DEF Whole
<1> QED BY <1>1, <1>3, <1>4, <1>5, <1>8 DEF EInv

\* A step that keeps the tables, of a request that holds no connection.
LEMMA AloneEffect ==
    ASSUME IInv, EInv, NEW r \in Requests, UNCHANGED <<sent, conns, tables>>,
           DOMAIN req' = Requests, \A q \in Requests : q # r => req'[q] = req[q],
           RequestOK(req'[r]), req[r].pc \notin Holding, req'[r].pc \notin Holding,
           req[r].pc \in Early
    PROVE  EInv'
<1>1. \A d \in Conns : conns[d].by # r
  BY DEF IInv, PairOK
<1>2. \A q \in Requests : RequestOK(req'[q])
  BY DEF EInv
<1>3. \A q \in Requests : req'[q].pc \in Holding => \E d \in Conns : conns'[d].by = q
  BY DEF EInv
<1>4. \A q \in Requests, d \in Conns :
        conns'[d].by = q => PendingOK(q, req'[q], conns'[d])
  BY <1>1 DEF EInv
<1>5. \A p \in Players : RowsOf(r, p) = {}
  BY DEF EInv, Whole
<1>6. \A q \in Requests, p \in Players : Whole(q, req'[q], p)
  BY <1>5 DEF EInv, Whole
<1>7. \A q \in Requests, p \in Players : RowsOf(q, p)' = RowsOf(q, p)
  BY DEF RowsOf, tables
<1>8. \A q \in Requests, p \in Players : Whole(q, req[q], p)'
  BY <1>6, <1>7 DEF Whole
<1> QED BY <1>2, <1>3, <1>4, <1>8 DEF EInv

\* The statements of an operation: how many, and which of them write.
LEMMA StatementTable ==
    ASSUME NEW op \in IMPLEMENTED_OPERATIONS
    PROVE  /\ Len(Statements(op)) \in 1..3
           /\ \A k \in 1..Len(Statements(op)) :
                /\ Statements(op)[k] = "write" <=> op \in RowWriters /\ k >= 2
                /\ Statements(op)[k] = "find" => k = 1 /\ op # "deleteMe"
                /\ Statements(op)[k] \in {"find", "whose"} /\ k = Len(Statements(op))
                    => op = "getMe"
                /\ Statements(op)[k] = "read" => op \notin Writers
                /\ Statements(op)[k] = "whose" => op = "linkPlayer"
                /\ Statements(op)[k] = "link" => op = "linkPlayer" /\ k = 3
                /\ Statements(op)[k] = "erase" => op = "deleteMe" /\ k = 1
           /\ op = "issuePack" => Len(Statements(op)) = 2
           /\ op = "submitAttempts" => Len(Statements(op)) = 3
<1>1. op \in {"getMe", "getHistory", "getStanding", "getOfflinePack", "issuePack",
              "submitAttempts", "linkPlayer", "deleteMe"}
  BY DEF IMPLEMENTED_OPERATIONS, CONTRACTED_OPERATIONS, At
<1>2. CASE op = "getMe"
  <2>1. Statements(op) = <<"find">> BY <1>2 DEF Statements
  <2> QED BY <1>2, <2>1 DEF RowWriters, Writers
<1>3. CASE op \in {"getHistory", "getStanding", "getOfflinePack"}
  <2>1. Statements(op) = <<"find", "read">> BY <1>3 DEF Statements
  <2> QED BY <1>3, <2>1 DEF RowWriters, Writers
<1>4. CASE op = "issuePack"
  <2>1. Statements(op) = <<"find", "write">> BY <1>4 DEF Statements
  <2> QED BY <1>4, <2>1 DEF RowWriters, Writers
<1>5. CASE op = "submitAttempts"
  <2>1. Statements(op) = <<"find", "write", "write">> BY <1>5 DEF Statements
  <2> QED BY <1>5, <2>1 DEF RowWriters, Writers
<1>6. CASE op = "linkPlayer"
  <2>1. Statements(op) = <<"find", "whose", "link">> BY <1>6 DEF Statements
  <2> QED BY <1>6, <2>1 DEF RowWriters, Writers
<1>7. CASE op = "deleteMe"
  <2>1. Statements(op) = <<"erase">> BY <1>7 DEF Statements
  <2> QED BY <1>7, <2>1 DEF RowWriters, Writers
<1> QED BY <1>1, <1>2, <1>3, <1>4, <1>5, <1>6, <1>7

\* Nothing has been written at the start.
LEMMA EffectsInit == Init => EInv
BY NoOneAssumption DEF Init, EInv, Arrived, Absent, Closed, RequestOK, Early, Statuses,
   PendingOK, Whole, RowsOf, Told

\* The router answers with one of its statuses, or names an operation it serves.
LEMMA RouteAnswers ==
    ASSUME NEW m, NEW p, NEW who
    PROVE  /\ Route(m, p, who).kind = "answer"
                => Route(m, p, who).status \in {200, 401, 404, 405, 501}
           /\ Route(m, p, who).kind # "answer"
                => Route(m, p, who).op \in IMPLEMENTED_OPERATIONS
BY DEF Route, Answer, Dispatch

USE DEF RequestOK, Told, Early, Statuses

\* Up to the pool nothing is written, and what is answered says so.
LEMMA PrologueEffects ==
    ASSUME IInv, EInv, NEW r \in Requests,
           Verify(r) \/ Decide(r) \/ KeysUnreachable(r) \/ CannotConnect(r)
    PROVE  EInv'
<1>0. RequestOK(req[r]) /\ ReqOK(sent[r].header, req[r]) /\ DOMAIN req = Requests
  BY DEF IInv, EInv
<1>1. CASE Verify(r)
  BY <1>0, <1>1, AloneEffect DEF Verify
<1>2. CASE Decide(r)
  <2> DEFINE to == Route(sent[r].method, sent[r].path, req[r].caller)
  <2>1. req[r].pc = "known" /\ UNCHANGED <<sent, conns, tables>>
    BY <1>2 DEF Decide
  <2>2. req' = [req EXCEPT ![r] = req'[r]]
    BY <1>0, <1>2 DEF Decide
  <2>3. CASE to.kind = "answer"
    <3>1. req'[r] = [req[r] EXCEPT !.pc = "answered", !.status = to.status]
      BY <1>0, <1>2, <2>3 DEF Decide
    <3>2. RequestOK(req'[r]) /\ req'[r].pc = "answered"
      BY <1>0, <2>1, <2>3, <3>1, RouteAnswers DEF Writers
    <3> QED BY <1>0, <2>1, <2>2, <3>2, AloneEffect
  <2>4. CASE to.kind # "answer" /\ req'[r].pc = "answered"
    <3>1. req'[r] = [req[r] EXCEPT !.pc = "answered", !.status = 400]
      BY <1>0, <1>2, <2>1, <2>4 DEF Decide
    <3>2. RequestOK(req'[r])
      BY <1>0, <2>1, <3>1 DEF Writers
    <3> QED BY <1>0, <2>1, <2>2, <2>4, <3>2, AloneEffect
  <2>5. CASE to.kind # "answer" /\ req'[r].pc # "answered"
    <3>1. req'[r] = [req[r] EXCEPT !.pc = "borrow", !.op = to.op, !.at = 1]
      BY <1>0, <1>2, <2>1, <2>5 DEF Decide
    <3>2. RequestOK(req'[r]) /\ req'[r].pc = "borrow"
      BY <1>0, <2>1, <2>5, <3>1, RouteAnswers
    <3> QED BY <1>0, <2>1, <2>2, <3>2, AloneEffect
  <2> QED BY <2>3, <2>4, <2>5
<1>3. CASE KeysUnreachable(r)
  BY <1>0, <1>3, AloneEffect DEF KeysUnreachable
<1>4. CASE CannotConnect(r)
  BY <1>0, <1>4, AloneEffect DEF CannotConnect
<1> QED BY <1>1, <1>2, <1>3, <1>4

\* What a request knows of itself and of its connection.
LEMMA InHandFacts ==
    ASSUME IInv, EInv, NEW r \in Requests, NEW c \in Conns
    PROVE  /\ RequestOK(req[r]) /\ ReqOK(sent[r].header, req[r]) /\ ConnOK(conns[c])
           /\ conns[c].by = r => PairOK(req[r], conns[c])
           /\ conns[c].by = r => PendingOK(r, req[r], conns[c])
           /\ conns[c].tx \in {"none", "open", "aborted"}
           /\ DOMAIN req = Requests /\ DOMAIN conns = Conns
           /\ r # NoOne
BY NoOneAssumption DEF IInv, EInv

\* The steps around a handler write nothing; a transaction begins with nothing
\* pending, and what ends without a COMMIT is answered with a 500 or a refusal.
LEMMA BracketEffects ==
    ASSUME IInv, EInv, NEW r \in Requests, NEW c \in Conns,
           \/ Borrow(r, c) \/ Begin(r, c) \/ Switch(r, c) \/ SwitchRefused(r, c)
           \/ Rollback(r, c) \/ Release(r, c) \/ Cut(r, c)
    PROVE  EInv'
<1>0. /\ RequestOK(req[r]) /\ ReqOK(sent[r].header, req[r]) /\ ConnOK(conns[c])
      /\ conns[c].by = r => PairOK(req[r], conns[c])
      /\ conns[c].by = r => PendingOK(r, req[r], conns[c])
      /\ conns[c].tx \in {"none", "open", "aborted"}
      /\ DOMAIN req = Requests /\ DOMAIN conns = Conns
      /\ r # NoOne
  BY InHandFacts
<1>1. CASE Borrow(r, c)
  BY <1>0, <1>1, LocalEffect DEF Borrow, Touches, PendingOK
<1>2. CASE Begin(r, c)
  BY <1>0, <1>2, LocalEffect DEF Begin, Touches, PendingOK
<1>3. CASE Switch(r, c)
  <2>a. req[r].pc = "switch"
    BY <1>3 DEF Switch
  <2>b. req[r].at = 1 /\ req[r].op \in IMPLEMENTED_OPERATIONS
    BY <1>0, <2>a
  <2>c. Len(Statements(req[r].op)) \in 1..3
    BY <2>b, StatementTable
  <2>d. \A m \in 1..3 : 1 \in 1..m
    OBVIOUS
  <2>0. 1 \in 1..Len(Statements(req[r].op))
    BY <2>c, <2>d
  <2>1. RequestOK(req'[r])
    BY <1>0, <1>3, <2>b, <2>0 DEF Switch
  <2>2. Touches(r, c) /\ conns'[c].by = r /\ conns'[c].tx = conns[c].tx
        /\ UNCHANGED tables /\ req'[r].op = req[r].op /\ req[r].pc \in Early
    BY <1>0, <1>3 DEF Switch, Touches
  <2>3. conns[c].open => req'[r].at - 1 = 0 /\ req'[r].pc = "work" /\ Bare(conns'[c])
    BY <1>0, <1>3 DEF Switch, Bare
  <2>4. ~conns[c].open => req'[r].pc = "release"
    BY <1>0, <1>3 DEF Switch
  <2>5. Lines(r, req'[r], 0) = {}
    BY SMT DEF Lines
  <2>6. PendingOK(r, req'[r], conns'[c])
    BY <2>3, <2>4, <2>5 DEF PendingOK, Bare
  <2> QED BY <1>0, <2>1, <2>2, <2>6, LocalEffect
<1>4. CASE SwitchRefused(r, c)
  BY <1>0, <1>4, LocalEffect DEF SwitchRefused, Touches, PendingOK
<1>5. CASE Rollback(r, c)
  BY <1>0, <1>5, LocalEffect DEF Rollback, Leaving, Closed, Touches, PendingOK
<1>6. CASE Release(r, c)
  BY <1>0, <1>6, LocalEffect DEF Release, GivenBack, Closed, Touches, PendingOK
<1>7. CASE Cut(r, c)
  BY <1>0, <1>7, LocalEffect DEF Cut, Throw, Touches, PendingOK
<1> QED BY <1>1, <1>2, <1>3, <1>4, <1>5, <1>6, <1>7

\* A statement moves its request on by one, answers at the last, or raises.
LEMMA AfterAStatementEffects ==
    ASSUME IInv, EInv, NEW r \in Requests, req[r].pc = "work", NEW s \in Statuses
    PROVE  /\ req[r].at \in 1..Len(Statements(req[r].op))
           /\ req[r].op \in IMPLEMENTED_OPERATIONS
           /\ RequestOK(Proceed(r, s)) /\ RequestOK(AnswerWith(r, s))
           /\ RequestOK(Caught(r)) /\ Caught(r).pc = "rollback"
           /\ Proceed(r, s).player = req[r].player
           /\ \/ /\ req[r].at < Len(Statements(req[r].op))
                 /\ Proceed(r, s).pc = "work" /\ Proceed(r, s).at = req[r].at + 1
              \/ /\ req[r].at = Len(Statements(req[r].op))
                 /\ Proceed(r, s).pc = "commit" /\ Proceed(r, s).status = s
           /\ AnswerWith(r, s).pc = "commit" /\ AnswerWith(r, s).status = s
           /\ Proceed(r, s).op = req[r].op /\ AnswerWith(r, s).op = req[r].op
           /\ Caught(r).op = req[r].op
           /\ DOMAIN Proceed(r, s) = ReqFields
<1>1. RequestOK(req[r]) /\ ReqOK(sent[r].header, req[r])
  BY DEF EInv, IInv
<1>2. Len(Statements(req[r].op)) \in 1..3 /\ req[r].op \in IMPLEMENTED_OPERATIONS
  BY <1>1, StatementTable
<1>3. CASE req[r].at < Len(Statements(req[r].op))
  <2>1. Proceed(r, s) = [req[r] EXCEPT !.at = @ + 1]
    BY <1>3 DEF Proceed
  <2> QED BY <1>1, <1>2, <1>3, <2>1 DEF AnswerWith, Caught, Throw
<1>4. CASE req[r].at = Len(Statements(req[r].op))
  <2>1. Proceed(r, s) = [req[r] EXCEPT !.pc = "commit", !.status = s]
    BY <1>2, <1>4 DEF Proceed
  <2> QED BY <1>1, <1>2, <1>4, <2>1 DEF AnswerWith, Caught, Throw
<1> QED BY <1>1, <1>2, <1>3, <1>4

\* A unit of work grows by the row of the statement.
LEMMA LinesGrow ==
    ASSUME NEW r, NEW x, NEW y, NEW n \in Nat, y.op = x.op, y.player = x.player
    PROVE  /\ x.op \notin RowWriters \/ n < 1 => Lines(r, y, n) = Lines(r, x, n - 1)
           /\ n = 1 => Lines(r, y, n) = {}
           /\ x.op \in RowWriters /\ n >= 2
                => Lines(r, y, n) = Lines(r, x, n - 1) \cup {<<x.player, <<r, n>>>>}
<1>1. n >= 2 => 2..n = (2..(n - 1)) \cup {n}
  OBVIOUS
<1>2. n <= 1 => 2..n = {} /\ 2..(n - 1) = {}
  OBVIOUS
<1>3. CASE x.op \in RowWriters /\ n >= 2
  <2>1. Lines(r, y, n) = {<<x.player, <<r, k>>>> : k \in (2..(n - 1)) \cup {n}}
    BY <1>1, <1>3 DEF Lines
  <2>2. Lines(r, x, n - 1) = {<<x.player, <<r, k>>>> : k \in 2..(n - 1)}
    BY <1>3 DEF Lines
  <2>3. Lines(r, y, n) = Lines(r, x, n - 1) \cup {<<x.player, <<r, n>>>>}
    BY <2>1, <2>2
  <2> QED BY <1>3, <2>3
<1>4. CASE x.op \notin RowWriters
  <2>1. Lines(r, y, n) = {} /\ Lines(r, x, n - 1) = {}
    BY <1>4 DEF Lines
  <2> QED BY <1>4, <2>1
<1>5. CASE x.op \in RowWriters /\ n <= 1
  <2>1. Lines(r, y, n) = {<<y.player, <<r, k>>>> : k \in {}}
    BY <1>2, <1>5 DEF Lines
  <2>2. Lines(r, x, n - 1) = {<<x.player, <<r, k>>>> : k \in {}}
    BY <1>2, <1>5 DEF Lines
  <2>3. Lines(r, y, n) = {} /\ Lines(r, x, n - 1) = {}
    BY <2>1, <2>2
  <2> QED BY <1>5, <2>3
<1>6. n >= 2 \/ n <= 1
  OBVIOUS
<1> QED BY <1>3, <1>4, <1>5, <1>6

\* A statement that keeps the tables: what is pending is what the request has
\* come to.
LEMMA WorkEffects ==
    ASSUME IInv, EInv, NEW r \in Requests, NEW c \in Conns,
           \/ Find(r, c) \/ Read(r, c) \/ Write(r, c) \/ Whose(r, c)
           \/ Insert(r, c) \/ EraseRow(r, c) \/ Fail(r, c)
    PROVE  EInv'
<1>0. /\ RequestOK(req[r]) /\ ReqOK(sent[r].header, req[r]) /\ ConnOK(conns[c])
      /\ conns[c].by = r => PairOK(req[r], conns[c])
      /\ conns[c].by = r => PendingOK(r, req[r], conns[c])
      /\ conns[c].tx \in {"none", "open", "aborted"}
      /\ DOMAIN req = Requests /\ DOMAIN conns = Conns
      /\ r # NoOne
  BY InHandFacts
<1>1. Usable(r, c) /\ UNCHANGED <<sent, tables>>
  BY DEF Find, Read, Write, Whose, Insert, EraseRow, Fail
<1>2. req[r].pc = "work" /\ conns[c].by = r /\ conns[c].open
  BY <1>1 DEF Usable
<1> DEFINE op == req[r].op
           at == req[r].at
           n == Len(Statements(op))
           word == Statements(op)[at]
<1>3. /\ conns[c].wrote = Lines(r, req[r], at - 1)
      /\ conns[c].linked = {} /\ conns[c].erased = {}
  BY <1>0, <1>2 DEF PendingOK
<1>4. op \in IMPLEMENTED_OPERATIONS /\ at \in 1..n /\ n \in 1..3
  BY <1>0, <1>2, StatementTable
<1>5. Statement(r) = word
  BY DEF Statement
\* the two ends of a statement, with its connection as y
<1>6. ASSUME req' = [req EXCEPT ![r] = Caught(r)],
             \/ conns' = conns \/ conns' = [conns EXCEPT ![c] = Aborted(c)]
      PROVE  EInv'
  <2>0. 0 \in Statuses
    OBVIOUS
  <2>1. RequestOK(Caught(r)) /\ Caught(r).pc = "rollback" /\ Caught(r).op = op
    BY <1>0, <1>2, <2>0, AfterAStatementEffects, AfterAStatement
  <2>2. req'[r] = Caught(r) /\ DOMAIN req' = Requests
        /\ \A q \in Requests : q # r => req'[q] = req[q]
    BY <1>0, <1>6
  <2>3. /\ conns'[c].by = r /\ conns'[c].tx \in {"none", "open", "aborted"}
        /\ DOMAIN conns' = Conns /\ \A d \in Conns : d # c => conns'[d] = conns[d]
    <3>1. CASE conns' = conns
      BY <1>0, <1>2, <3>1
    <3>2. CASE conns' = [conns EXCEPT ![c] = Aborted(c)]
      BY <1>0, <1>2, <3>2 DEF Aborted
    <3> QED BY <1>6, <3>1, <3>2
  <2>4. Touches(r, c)
    BY <1>1, <1>2, <2>2, <2>3 DEF Touches
  <2>5. PendingOK(r, req'[r], conns'[c])
    BY <2>1, <2>2 DEF PendingOK
  <2> QED BY <1>1, <1>2, <2>1, <2>2, <2>3, <2>4, <2>5, LocalEffect
<1>7. ASSUME NEW x, req' = [req EXCEPT ![r] = x], RequestOK(x),
             x.pc \in {"work", "commit"}, x.op = op,
             DOMAIN conns' = Conns, \A d \in Conns : d # c => conns'[d] = conns[d],
             conns'[c].by = r, conns'[c].tx = conns[c].tx,
             PendingOK(r, x, conns'[c])
      PROVE  EInv'
  <2>1. req'[r] = x /\ Touches(r, c)
    BY <1>0, <1>1, <1>2, <1>7 DEF Touches
  <2> QED BY <1>0, <1>1, <1>2, <1>7, <2>1, LocalEffect
<1>8. CASE Fail(r, c)
  <2>1. req' = [req EXCEPT ![r] = Caught(r)]
    BY <1>8 DEF Fail
  <2>2. conns' = conns \/ conns' = [conns EXCEPT ![c] = Aborted(c)]
    BY <1>8 DEF Fail
  <2> QED BY <1>6, <2>1, <2>2
\* a statement that leaves a bare connection as it is
<1>9. ASSUME NEW x, req' = [req EXCEPT ![r] = x], conns' = conns, RequestOK(x),
             x.pc \in {"work", "commit"}, x.op = op, Bare(conns[c]),
             x.pc = "work" => Lines(r, x, x.at - 1) = {},
             x.pc = "commit" =>
                \/ x.status \in {404, 409}
                \/ x.status \in {200, 204} /\ Lines(r, x, n) = {} /\ op # "deleteMe"
      PROVE  EInv'
  <2>1. PendingOK(r, x, conns[c])
    BY <1>9 DEF PendingOK, Bare
  <2> QED BY <1>0, <1>2, <1>7, <1>9, <2>1
<1>10. op \notin RowWriters => Bare(conns[c]) /\ \A x, k : x.op = op => Lines(r, x, k) = {}
  BY <1>3 DEF Bare, Lines
<1>11. at = 1 => Bare(conns[c]) /\ \A x : Lines(r, x, 0) = {} /\ Lines(r, x, 1) = {}
  <2>1. 2..0 = {} /\ 2..1 = {}
    OBVIOUS
  <2>2. \A x : Lines(r, x, 0) = {} /\ Lines(r, x, 1) = {}
    BY <2>1 DEF Lines
  <2>3. at = 1 => at - 1 = 0
    OBVIOUS
  <2> QED BY <1>3, <2>2, <2>3 DEF Bare
<1>12. \A s \in Statuses :
        /\ RequestOK(AnswerWith(r, s)) /\ AnswerWith(r, s).op = op
        /\ AnswerWith(r, s).pc = "commit" /\ AnswerWith(r, s).status = s
        /\ RequestOK(Proceed(r, s)) /\ Proceed(r, s).op = op
        /\ DOMAIN Proceed(r, s) = ReqFields
        /\ Proceed(r, s).player = req[r].player
        /\ \/ at < n /\ Proceed(r, s).pc = "work" /\ Proceed(r, s).at = at + 1
           \/ at = n /\ Proceed(r, s).pc = "commit" /\ Proceed(r, s).status = s
  <2> TAKE s \in Statuses
  <2>1. /\ RequestOK(AnswerWith(r, s)) /\ AnswerWith(r, s).op = req[r].op
        /\ AnswerWith(r, s).pc = "commit" /\ AnswerWith(r, s).status = s
    BY <1>2, AfterAStatementEffects
  <2>2. /\ RequestOK(Proceed(r, s)) /\ Proceed(r, s).op = req[r].op
        /\ DOMAIN Proceed(r, s) = ReqFields
        /\ Proceed(r, s).player = req[r].player
    BY <1>2, AfterAStatementEffects
  <2>3. \/ /\ req[r].at < Len(Statements(req[r].op))
           /\ Proceed(r, s).pc = "work" /\ Proceed(r, s).at = req[r].at + 1
        \/ /\ req[r].at = Len(Statements(req[r].op))
           /\ Proceed(r, s).pc = "commit" /\ Proceed(r, s).status = s
    BY <1>2, AfterAStatementEffects
  <2> QED BY <2>1, <2>2, <2>3
<1>13. CASE Find(r, c)
  <2>1. word = "find" /\ conns' = conns
    BY <1>5, <1>13 DEF Find
  <2>2. at = 1 /\ op # "deleteMe" /\ (n = 1 => op = "getMe")
    BY <1>4, <2>1, StatementTable
  <2>3. PICK p : req' = [req EXCEPT ![r] =
                    IF p = NoOne /\ op # "linkPlayer" THEN AnswerWith(r, 404)
                    ELSE [Proceed(r, 200) EXCEPT !.player = p]]
    BY <1>13 DEF Find
  <2>4. CASE p = NoOne /\ op # "linkPlayer"
    <3> DEFINE x == AnswerWith(r, 404)
    <3>1. 404 \in Statuses
      OBVIOUS
    <3>2. RequestOK(x) /\ x.pc = "commit" /\ x.status = 404 /\ x.op = op
      BY <1>12, <3>1
    <3>3. req' = [req EXCEPT ![r] = x]
      BY <2>3, <2>4
    <3> HIDE DEF x
    <3> QED BY <1>9, <1>11, <2>1, <2>2, <3>2, <3>3
  <2>5. CASE ~(p = NoOne /\ op # "linkPlayer")
    <3> DEFINE x == [Proceed(r, 200) EXCEPT !.player = p]
    <3>1. 200 \in Statuses
      OBVIOUS
    <3>2. /\ RequestOK(Proceed(r, 200)) /\ Proceed(r, 200).op = op
          /\ DOMAIN Proceed(r, 200) = ReqFields
          /\ \/ at < n /\ Proceed(r, 200).pc = "work" /\ Proceed(r, 200).at = at + 1
             \/ at = n /\ Proceed(r, 200).pc = "commit" /\ Proceed(r, 200).status = 200
      BY <1>12, <3>1
    <3>3. RequestOK(x) /\ x.op = op
          /\ \/ x.pc = "work" /\ x.at = 2
             \/ n = 1 /\ x.pc = "commit" /\ x.status = 200
      BY <2>2, <3>2
    <3>4. req' = [req EXCEPT ![r] = x]
      BY <2>3, <2>5
    <3>5. x.pc = "work" => Lines(r, x, x.at - 1) = {}
      <4>1. 2 - 1 = 1
        OBVIOUS
      <4> QED BY <1>11, <2>2, <3>3, <4>1
    <3> HIDE DEF x
    <3>6. Bare(conns[c]) /\ Lines(r, x, 1) = {}
      BY <1>11, <2>2
    <3>7. x.pc = "commit" => Lines(r, x, n) = {}
      BY <3>3, <3>6
    <3>8. x.pc = "commit" => x.status \in {200, 204}
      BY <3>3
    <3>9. x.pc \in {"work", "commit"} /\ x.op = op /\ RequestOK(x)
      BY <3>3
    <3> QED BY <1>9, <2>1, <2>2, <3>4, <3>5, <3>6, <3>7, <3>8, <3>9
  <2> QED BY <2>3, <2>4, <2>5
<1>14. CASE Read(r, c)
  <2>1. word = "read" /\ conns' = conns
    BY <1>5, <1>14 DEF Read
  <2>2. op \notin Writers
    BY <1>4, <2>1, StatementTable
  <2>3. PICK s \in {404, 200} : req' = [req EXCEPT ![r] = Proceed(r, s)]
    BY <1>14 DEF Read
  <2> DEFINE x == Proceed(r, s)
  <2>4. RequestOK(x) /\ x.op = op /\ x.pc \in {"work", "commit"}
        /\ (x.pc = "commit" => x.status \in {200, 404})
    BY <1>12
  <2>5. req' = [req EXCEPT ![r] = x]
    BY <2>3
  <2> HIDE DEF x
  <2>6. op \notin RowWriters /\ op # "deleteMe"
    BY <2>2 DEF RowWriters, Writers
  <2>7. Bare(conns[c]) /\ Lines(r, x, n) = {} /\ Lines(r, x, x.at - 1) = {}
    BY <1>10, <2>4, <2>6
  <2> QED BY <1>9, <2>1, <2>4, <2>5, <2>6, <2>7
<1>15. CASE Whose(r, c)
  <2>1. word = "whose" /\ conns' = conns
    BY <1>5, <1>15 DEF Whose
  <2>2. op = "linkPlayer"
    BY <1>4, <2>1, StatementTable
  <2>3. PICK x \in {AnswerWith(r, 200), AnswerWith(r, 409), Proceed(r, 200)} :
            req' = [req EXCEPT ![r] = x]
    BY <1>15 DEF Whose
  <2>4. RequestOK(x) /\ x.op = op /\ x.pc \in {"work", "commit"}
        /\ (x.pc = "commit" => x.status \in {200, 409})
    BY <1>12, <2>3
  <2>5. op \notin RowWriters
    BY <2>2 DEF RowWriters
  <2>6. Bare(conns[c]) /\ Lines(r, x, n) = {} /\ Lines(r, x, x.at - 1) = {}
    BY <1>10, <2>4, <2>5
  <2>7. op # "deleteMe"
    BY <2>2
  <2>8. x.pc = "commit" => x.status \in {404, 409} \/ x.status \in {200, 204}
    BY <2>4
  <2>9. req' = [req EXCEPT ![r] = x]
    BY <2>3
  <2>10. /\ x.pc = "work" => Lines(r, x, x.at - 1) = {}
         /\ x.pc = "commit" =>
                \/ x.status \in {404, 409}
                \/ x.status \in {200, 204} /\ Lines(r, x, n) = {} /\ op # "deleteMe"
    BY <2>6, <2>7, <2>8
  <2>11. conns' = conns /\ Bare(conns[c])
    BY <2>1, <2>6
  <2>12. RequestOK(x) /\ x.pc \in {"work", "commit"} /\ x.op = op
    BY <2>4
  <2> QED BY <1>9, <2>9, <2>10, <2>11, <2>12, Zenon
<1>16. CASE Write(r, c)
  <2>1. word = "write"
    BY <1>5, <1>16 DEF Write
  <2>2. op \in RowWriters /\ at >= 2
    BY <1>4, <2>1, StatementTable
  <2>3. CASE owner[req[r].player] # NoOne
    <3> DEFINE x == Proceed(r, 200)
               new == conns[c].wrote \cup {<<req[r].player, <<r, at>>>>}
    <3>1. 200 \in Statuses
      OBVIOUS
    <3>2. /\ RequestOK(x) /\ x.op = op /\ x.player = req[r].player
          /\ x.pc \in {"work", "commit"}
          /\ x.pc = "work" => x.at = at + 1
          /\ x.pc = "commit" => at = n /\ x.status = 200
      BY <1>12, <3>1
    <3>3. req' = [req EXCEPT ![r] = x] /\ conns' = [conns EXCEPT ![c].wrote = new]
      BY <1>16, <2>3 DEF Write
    <3> HIDE DEF x, new
    <3>4. new = Lines(r, x, at)
      BY <1>3, <1>4, <2>2, <3>2, LinesGrow DEF new
    <3>5. /\ DOMAIN conns' = Conns /\ \A d \in Conns : d # c => conns'[d] = conns[d]
          /\ conns'[c].by = r /\ conns'[c].tx = conns[c].tx
          /\ conns'[c].wrote = new
          /\ conns'[c].linked = {} /\ conns'[c].erased = {}
      BY <1>0, <1>2, <1>3, <3>3
    <3>6. op # "deleteMe"
      BY <2>2 DEF RowWriters
    <3>7. x.pc = "work" => x.at - 1 = at
      BY <1>4, <3>2
    <3>8. x.pc = "commit" => x.status \in {200, 204} /\ new = Lines(r, x, n)
      BY <3>2, <3>4
    <3>9. PendingOK(r, x, conns'[c])
      BY <3>2, <3>4, <3>5, <3>6, <3>7, <3>8 DEF PendingOK
    <3> QED BY <1>7, <3>2, <3>3, <3>5, <3>9
  <2>4. CASE owner[req[r].player] = NoOne
    <3>1. req' = [req EXCEPT ![r] = Caught(r)]
          /\ conns' = [conns EXCEPT ![c] = Aborted(c)]
      BY <1>16, <2>4 DEF Write
    <3> QED BY <1>6, <3>1
  <2> QED BY <2>3, <2>4
<1>17. CASE Insert(r, c)
  <2>1. word = "link"
    BY <1>5, <1>17 DEF Insert
  <2>2. op = "linkPlayer" /\ at = 3 /\ n = 3
    BY <1>4, <2>1, StatementTable
  <2>3. CASE owner[sent[r].body] = NoOne /\ PlayerOf(Account(r)) = {}
    <3> DEFINE x == Proceed(r, 200)
               new == {<<sent[r].body, Account(r)>>}
    <3>1. 200 \in Statuses
      OBVIOUS
    <3>2. RequestOK(x) /\ x.op = op /\ x.pc = "commit" /\ x.status = 200
      <4>0. \A a, b \in Int : a = b => ~(a < b)
        OBVIOUS
      <4>1. ~(at < n)
        BY <2>2, <4>0, 3 \in Int
      <4> QED BY <1>12, <3>1, <4>1
    <3>3. req' = [req EXCEPT ![r] = x] /\ conns' = [conns EXCEPT ![c].linked = new]
      BY <1>17, <2>3 DEF Insert
    <3> HIDE DEF x, new
    <3>4. /\ DOMAIN conns' = Conns /\ \A d \in Conns : d # c => conns'[d] = conns[d]
          /\ conns'[c].by = r /\ conns'[c].tx = conns[c].tx
          /\ conns'[c].wrote = conns[c].wrote
      BY <1>0, <1>2, <3>3
    <3>5. op \notin RowWriters /\ op # "deleteMe"
      BY <2>2 DEF RowWriters
    <3>6. conns[c].wrote = {} /\ Lines(r, x, n) = {}
      BY <1>10, <3>2, <3>5 DEF Bare
    <3>7. PendingOK(r, x, conns'[c])
      BY <3>2, <3>4, <3>5, <3>6 DEF PendingOK
    <3> QED BY <1>7, <3>2, <3>3, <3>4, <3>7
  <2>4. CASE ~(owner[sent[r].body] = NoOne /\ PlayerOf(Account(r)) = {})
    <3>1. req' = [req EXCEPT ![r] = Caught(r)]
          /\ conns' = [conns EXCEPT ![c] = Aborted(c)]
      BY <1>17, <2>4 DEF Insert
    <3> QED BY <1>6, <3>1
  <2> QED BY <2>3, <2>4
<1>18. CASE EraseRow(r, c)
  <2>1. word = "erase"
    BY <1>5, <1>18 DEF EraseRow
  <2>2. op = "deleteMe" /\ at = 1
    BY <1>4, <2>1, StatementTable
  <2>3. n = 1
    BY <2>2 DEF Statements
  <2>4. PICK gone : /\ req' = [req EXCEPT ![r] =
                                    Proceed(r, IF gone = {} THEN 404 ELSE 204)]
                    /\ conns' = [conns EXCEPT ![c].erased = gone]
    BY <1>18 DEF EraseRow
  <2> DEFINE s == IF gone = {} THEN 404 ELSE 204
             x == Proceed(r, s)
  <2>5. s \in Statuses
    OBVIOUS
  <2> HIDE DEF s
  <2>6. RequestOK(x) /\ x.op = op /\ x.pc = "commit" /\ x.status = s
    <3>0. \A a, b \in Int : a = b => ~(a < b)
      OBVIOUS
    <3>1. ~(at < n)
      BY <2>2, <2>3, <3>0, 1 \in Int
    <3> QED BY <1>12, <2>5, <3>1
  <2>7. req' = [req EXCEPT ![r] = x]
    BY <2>4 DEF s
  <2> HIDE DEF x
  <2>8. /\ DOMAIN conns' = Conns /\ \A d \in Conns : d # c => conns'[d] = conns[d]
        /\ conns'[c].by = r /\ conns'[c].tx = conns[c].tx
        /\ conns'[c].wrote = conns[c].wrote /\ conns'[c].linked = conns[c].linked
        /\ conns'[c].erased = gone
    BY <1>0, <1>2, <2>4
  <2>9. op \notin RowWriters
    BY <2>2 DEF RowWriters
  <2>10. Bare(conns[c]) /\ Lines(r, x, n) = {}
    BY <1>10, <2>6, <2>9
  <2>11. PendingOK(r, x, conns'[c])
    BY <2>6, <2>8, <2>10 DEF PendingOK, Bare, s
  <2> QED BY <1>7, <2>6, <2>7, <2>8, <2>11
<1> QED BY <1>8, <1>13, <1>14, <1>15, <1>16, <1>17, <1>18

\* The rows of a whole unit of work of r.
Unit(r, op) == {<<r, k>> : k \in 2..Len(Statements(op))}

\* How many rows each writer writes.
LEMMA RowsOfAUnit ==
    ASSUME NEW r, NEW op \in RowWriters
    PROVE  Cardinality(Unit(r, op)) = IF op = "submitAttempts" THEN 2 ELSE 1
<1>1. CASE op = "issuePack"
  <2>1. Len(Statements(op)) = 2
    BY <1>1 DEF Statements
  <2>2. 2..2 = {2}
    OBVIOUS
  <2>3. Unit(r, op) = {<<r, 2>>}
    BY <2>1, <2>2 DEF Unit
  <2> QED BY <1>1, <2>3, FS_Singleton
<1>2. CASE op = "submitAttempts"
  <2> DEFINE S == {<<r, 2>>}
             x == <<r, 3>>
  <2>1. Len(Statements(op)) = 3
    BY <1>2 DEF Statements
  <2>2. 2..3 = {2, 3}
    OBVIOUS
  <2>3. Unit(r, op) = S \cup {x}
    BY <2>1, <2>2 DEF Unit
  <2>4. x \notin S
    OBVIOUS
  <2>5. IsFiniteSet(S) /\ Cardinality(S) = 1
    BY FS_Singleton
  <2> HIDE DEF S, x
  <2>6. Cardinality(S \cup {x}) = Cardinality(S) + 1
    BY <2>4, <2>5, FS_AddElement
  <2> QED BY <1>2, <2>3, <2>5, <2>6
<1> QED BY <1>1, <1>2 DEF RowWriters

\* A COMMIT leaves what it applies whole: to its own rows it adds all of them,
\* and to nobody else's.
LEMMA CommittedWhole ==
    ASSUME IInv, EInv, NEW r \in Requests, NEW c \in Conns, Apply(c),
           req[r].pc = "commit", conns[c].by = r, conns[c].open,
           req'[r].op = req[r].op, req'[r].pc \notin Early,
           \A q \in Requests : q # r => req'[q] = req[q]
    PROVE  \A q \in Requests, p \in Players : Whole(q, req[q], p)'
<1> SUFFICES ASSUME NEW q \in Requests, NEW p \in Players
             PROVE  Whole(q, req[q], p)'
  OBVIOUS
<1> DEFINE n == Len(Statements(req[r].op))
<1>1. PendingOK(r, req[r], conns[c]) /\ Whole(q, req[q], p) /\ Whole(r, req[r], p)
  BY DEF EInv
<1>2. conns[c].wrote = Lines(r, req[r], n) \/ conns[c].wrote = {}
  BY <1>1 DEF PendingOK, Bare
<1>3. \A w \in conns[c].wrote :
        \E k \in 2..n : w = <<req[r].player, <<r, k>>>> /\ req[r].op \in RowWriters
  BY <1>2 DEF Lines
<1>4. CASE p \in conns[c].erased
  <2>1. rows'[p] = {}
    BY <1>4 DEF Apply
  <2> QED BY <2>1 DEF Whole, RowsOf
<1>5. CASE p \notin conns[c].erased
  <2> DEFINE added == {w[2] : w \in {v \in conns[c].wrote : v[1] = p}}
  <2>1. rows'[p] = rows[p] \cup added
    BY <1>5 DEF Apply
  <2>2. \A a \in added : \E k \in 2..n : a = <<r, k>>
    BY <1>3
  <2>3. CASE q # r
    <3>1. RowsOf(q, p)' = RowsOf(q, p)
      BY <2>1, <2>2, <2>3 DEF RowsOf
    <3> QED BY <1>1, <2>3, <3>1 DEF Whole
  <2>4. CASE q = r
    <3>1. RowsOf(r, p) = {}
      BY <1>1 DEF Whole
    <3>2. RowsOf(r, p)' = added
      BY <2>1, <2>2, <3>1 DEF RowsOf
    <3>3. CASE conns[c].wrote = {} \/ p # req[r].player \/ req[r].op \notin RowWriters
      <4>1. added = {}
        BY <1>3, <3>3
      <4> QED BY <2>4, <3>2, <4>1 DEF Whole
    <3>4. CASE conns[c].wrote # {} /\ p = req[r].player /\ req[r].op \in RowWriters
      <4>1. conns[c].wrote = {<<p, <<r, k>>>> : k \in 2..n}
        BY <1>2, <3>4 DEF Lines
      <4>2. added \subseteq {<<r, k>> : k \in 2..n}
        BY <2>2
      <4>3. ASSUME NEW k \in 2..n PROVE <<r, k>> \in added
        <5>1. <<p, <<r, k>>>> \in {v \in conns[c].wrote : v[1] = p}
          BY <4>1
        <5> QED BY <5>1
      <4>4. added = Unit(r, req[r].op)
        BY <4>2, <4>3 DEF Unit
      <4>5. Cardinality(Unit(r, req[r].op))
                = IF req[r].op = "submitAttempts" THEN 2 ELSE 1
        BY <3>4, RowsOfAUnit
      <4> QED BY <2>4, <3>2, <4>4, <4>5 DEF Whole
    <3> QED BY <3>3, <3>4
  <2> QED BY <2>3, <2>4
<1> QED BY <1>4, <1>5

\* A COMMIT keeps what is pending, and what its request is then told says so.
LEMMA CommitEffects ==
    ASSUME IInv, EInv, NEW r \in Requests, NEW c \in Conns,
           Commit(r, c) \/ CommitUnheard(r, c)
    PROVE  EInv'
<1>0. /\ RequestOK(req[r]) /\ ReqOK(sent[r].header, req[r]) /\ ConnOK(conns[c])
      /\ conns[c].by = r => PairOK(req[r], conns[c])
      /\ conns[c].by = r => PendingOK(r, req[r], conns[c])
      /\ conns[c].tx \in {"none", "open", "aborted"}
      /\ DOMAIN req = Requests /\ DOMAIN conns = Conns
      /\ r # NoOne
  BY InHandFacts
<1>1. /\ req[r].pc = "commit" /\ conns[c].by = r /\ conns[c].open
      /\ Apply(c) /\ sent' = sent
  BY DEF Commit, CommitUnheard
<1>2. /\ DOMAIN req' = Requests /\ \A q \in Requests : q # r => req'[q] = req[q]
      /\ req'[r].op = req[r].op /\ req'[r].pc \in {"release", "rollback"}
      /\ req'[r].pc = "rollback" => req'[r].status = 500
      /\ req'[r].pc = "release" => req'[r].status = req[r].status
      /\ req'[r].kept = Kept(c)
      /\ DOMAIN conns' = Conns /\ \A d \in Conns : d # c => conns'[d] = conns[d]
      /\ conns'[c].by = r /\ conns'[c].tx = "none"
  <2>1. CASE Commit(r, c)
    BY <1>0, <1>1, <2>1 DEF Commit, Leaving, Closed
  <2>2. CASE CommitUnheard(r, c)
    BY <1>0, <1>1, <2>2 DEF CommitUnheard, Throw, Leaving, Closed
  <2> QED BY <2>1, <2>2
<1>4. Touches(r, c)
  BY <1>1, <1>2 DEF Touches
<1>5. \A q \in Requests, p \in Players : Whole(q, req[q], p)'
  BY <1>1, <1>2, CommittedWhole
<1>6. Told([req[r] EXCEPT !.kept = Kept(c)])
  <2> DEFINE x == req[r]
             n == Len(Statements(x.op))
  <2>1. CASE x.status \in {404, 409} /\ Bare(conns[c])
    BY <1>0, <2>1 DEF Bare, Kept
  <2>2. CASE /\ x.status \in {200, 204}
             /\ conns[c].wrote = Lines(r, x, n)
             /\ x.op = "deleteMe" => conns[c].erased # {}
    <3>1. x.op \in RowWriters => conns[c].wrote # {}
      <4> SUFFICES ASSUME x.op \in RowWriters PROVE conns[c].wrote # {}
        OBVIOUS
      <4>0. 2 \in 2..2 /\ 2 \in 2..3
        OBVIOUS
      <4>1. n = 2 \/ n = 3
        BY DEF RowWriters, Statements
      <4>2. 2 \in 2..n
        BY <4>0, <4>1
      <4>3. <<x.player, <<r, 2>>>> \in Lines(r, x, n)
        BY <4>2 DEF Lines
      <4> QED BY <2>2, <4>3
    <3>2. x.op \in Writers => Kept(c) # {}
      BY <2>2, <3>1 DEF Writers, RowWriters, Kept
    <3> QED BY <1>0, <2>2, <3>2
  <2> QED BY <1>0, <1>1, <2>1, <2>2 DEF PendingOK
<1>7. RequestOK(req'[r])
  BY <1>0, <1>1, <1>2, <1>6
<1>8. PendingOK(r, req'[r], conns'[c])
  BY <1>2 DEF PendingOK
<1>9. \A q \in Requests : q # r => conns[c].by # q
  BY <1>0, <1>1
<1>10. \A q \in Requests : RequestOK(req'[q])
  BY <1>2, <1>7 DEF EInv
<1>11. \A q \in Requests : req'[q].pc \in Holding => \E d \in Conns : conns'[d].by = q
  <2> SUFFICES ASSUME NEW q \in Requests, req'[q].pc \in Holding, q # r
               PROVE  \E d \in Conns : conns'[d].by = q
    BY <1>2
  <2>1. PICK d \in Conns : conns[d].by = q
    BY <1>2 DEF EInv
  <2> QED BY <1>2, <1>9, <2>1
<1>12. \A d \in Conns : conns'[d].tx \in {"none", "open", "aborted"}
  BY <1>2 DEF EInv
<1>13. \A q \in Requests, d \in Conns :
        conns'[d].by = q => PendingOK(q, req'[q], conns'[d])
  <2> SUFFICES ASSUME NEW q \in Requests, NEW d \in Conns, conns'[d].by = q
               PROVE  PendingOK(q, req'[q], conns'[d])
    OBVIOUS
  <2>1. CASE d = c
    BY <1>2, <1>8, <2>1
  <2>2. CASE d # c
    <3>1. conns[d].by = q /\ conns'[d] = conns[d]
      BY <1>2, <2>2
    <3>2. q # r
      BY <1>0, <1>1, <2>2, <3>1 DEF IInv
    <3> QED BY <1>2, <3>1, <3>2 DEF EInv
  <2> QED BY <2>1, <2>2
<1> QED BY <1>5, <1>10, <1>11, <1>12, <1>13 DEF EInv

\* What a connection or the process takes with it was not yet committed.
LEMMA EndsEffects ==
    ASSUME IInv, EInv, (\E c \in Conns : Lose(c)) \/ Die
    PROVE  EInv'
<1>1. ASSUME NEW c \in Conns, Lose(c) PROVE EInv'
  <2>0. /\ UNCHANGED <<sent, req, tables>>
        /\ conns' = [conns EXCEPT ![c] = [Closed EXCEPT !.by = conns[c].by]]
    BY <1>1 DEF Lose
  <2>1. /\ UNCHANGED <<sent, req, tables>>
        /\ \A d \in Conns : /\ conns'[d].by = conns[d].by
                            /\ \/ conns'[d] = conns[d]
                               \/ ~conns'[d].open /\ conns'[d].tx = "none"
    BY <2>0 DEF IInv, Closed
  <2>2. \A q \in Requests, p \in Players : Whole(q, req[q], p)'
    BY <2>1 DEF EInv, Whole, RowsOf, tables
  <2>3. \A q \in Requests, d \in Conns :
            conns'[d].by = q => PendingOK(q, req'[q], conns'[d])
    BY <2>1 DEF EInv, PendingOK
  <2> QED BY <2>1, <2>2, <2>3 DEF EInv
<1>2. CASE Die
  <2>1. /\ UNCHANGED <<sent, tables>>
        /\ \A d \in Conns : conns'[d] = Closed
        /\ \A q \in Requests : \/ req'[q] = req[q] /\ req[q].pc \in {"arrived", "answered"}
                               \/ req'[q] = [req[q] EXCEPT !.pc = "dropped"]
    BY <1>2 DEF Die
  <2>2. \A q \in Requests : RequestOK(req'[q]) /\ req'[q].pc \notin Holding
                            /\ req'[q].op = req[q].op
                            /\ (req'[q].pc \in Early => req[q].pc \in Early)
    <3> TAKE q \in Requests
    <3>1. RequestOK(req[q]) /\ DOMAIN req[q] = ReqFields
      BY DEF EInv, IInv
    <3>2. CASE req'[q] = req[q] /\ req[q].pc \in {"arrived", "answered"}
      BY <3>1, <3>2
    <3>3. CASE req'[q] = [req[q] EXCEPT !.pc = "dropped"]
      BY <3>1, <3>3
    <3> QED BY <2>1, <3>2, <3>3
  <2>3. \A q \in Requests, p \in Players : RowsOf(q, p)' = RowsOf(q, p)
    BY <2>1 DEF RowsOf, tables
  <2>4. \A q \in Requests, p \in Players : Whole(q, req[q], p)'
    BY <2>2, <2>3 DEF EInv, Whole
  <2>5. \A d \in Conns : conns'[d].by = NoOne /\ conns'[d].tx = "none"
    BY <2>1 DEF Closed
  <2> QED BY <2>2, <2>4, <2>5, NoOneAssumption DEF EInv
<1> QED BY <1>1, <1>2

\* Every step keeps what is pending in step with its request.
LEMMA EffectsStep == IInv /\ EInv /\ [Next]_vars => EInv'
<1> SUFFICES ASSUME IInv, EInv, [Next]_vars PROVE EInv'
  OBVIOUS
<1>1. ASSUME NEW r \in Requests, Serve(r) \/ Faulty(r) PROVE EInv'
  <2>1. CASE Verify(r) \/ Decide(r) \/ KeysUnreachable(r) \/ CannotConnect(r)
    BY <2>1, PrologueEffects
  <2>2. ASSUME NEW c \in Conns,
               OnConn(r, c) \/ SwitchRefused(r, c) \/ Fail(r, c) \/ CommitUnheard(r, c)
        PROVE  EInv'
    BY <2>2, BracketEffects, WorkEffects, CommitEffects DEF OnConn
  <2> QED BY <1>1, <2>1, <2>2 DEF Serve, Faulty
<1>2. CASE UNCHANGED vars
  BY <1>2 DEF vars, tables, EInv, Whole, RowsOf, PendingOK, RequestOK
<1> QED BY <1>1, <1>2, EndsEffects DEF Next

\* The inductive invariant of the effects.
THEOREM EffectsInvariant == Spec => []EInv
BY EffectsInit, EffectsStep, GatewayInvariant, PTL DEF Spec

\* Whatever failed between two statements, whoever shared the pool: a unit of
\* work is there whole or not at all, and what the caller is told of it is so
\* (one transaction per request: request-database.ts, http-server.ts).
THEOREM WhatIsToldIsSo == Spec => []WritesAreKnown
<1>1. EInv => AllOrNothing
  BY DEF EInv, Whole, RowsOf, AllOrNothing
<1>2. EInv => AnswersMatchEffects
  BY DEF EInv, AnswersMatchEffects
<1> QED BY <1>1, <1>2, EffectsInvariant, PTL DEF WritesAreKnown

-----------------------------------------------------------------------------
(***************************************************************************)
(* Who a player is: an account has one player and a player one account,    *)
(* because a row that is about to be inserted keeps every other insert of  *)
(* its player or its account waiting.                                      *)
(***************************************************************************)

\* What is pending on c stands for a new row: nobody has its player or its
\* account, and nobody else is about to.
LinkOK(c) ==
    \A l \in conns[c].linked :
        /\ l[2] # NoOne
        /\ l[1] \in Players => owner[l[1]] = NoOne
        /\ PlayerOf(l[2]) = {}
        /\ \A d \in Conns : \A m \in conns[d].linked :
              (d # c \/ m # l) => m[1] # l[1] /\ m[2] # l[2]

OneEach == \A p, q \in Players : owner[p] = owner[q] /\ owner[p] # NoOne => p = q

OInv == (\A c \in Conns : LinkOK(c)) /\ OneEach

\* A step that links nobody.
LEMMA NobodyLinked ==
    ASSUME OInv, UNCHANGED owner,
           \A d \in Conns : conns'[d].linked = {} \/ conns'[d].linked = conns[d].linked
    PROVE  OInv'
<1>1. \A a : PlayerOf(a)' = PlayerOf(a)
  BY DEF PlayerOf
<1> QED BY <1>1 DEF OInv, OneEach, LinkOK

\* An insert waits for whoever else is about to take its player or its account.
LEMMA LinkIsNew ==
    ASSUME IInv, EInv, OInv, NEW r \in Requests, NEW c \in Conns, Insert(r, c)
    PROVE  OInv'
<1> DEFINE l == <<sent[r].body, Account(r)>>
<1>0. DOMAIN conns = Conns /\ ReqOK(sent[r].header, req[r]) /\ DOMAIN conns[c] = ConnFields
  BY DEF IInv
<1>1. UNCHANGED owner /\ Usable(r, c)
  BY DEF Insert, tables
<1>2. CASE owner[sent[r].body] = NoOne /\ PlayerOf(Account(r)) = {}
  <2>1. conns' = [conns EXCEPT ![c].linked = {l}]
    BY <1>2 DEF Insert
  <2>2. conns'[c].linked = {l} /\ \A d \in Conns : d # c => conns'[d] = conns[d]
    BY <1>0, <2>1
  <2>3. \A d \in Conns : \A m \in conns[d].linked : m[1] # l[1] /\ m[2] # l[2]
    BY DEF Insert
  <2>4. Account(r) # NoOne
    BY <1>0, <1>1, NoOneAssumption DEF Usable, Account, Earned
  <2>5. \A a : PlayerOf(a)' = PlayerOf(a)
    BY <1>1 DEF PlayerOf
  <2>6. l[1] = sent[r].body /\ l[2] = Account(r)
    OBVIOUS
  <2> HIDE DEF l
  <2>7. LinkOK(c)'
    BY <1>1, <1>2, <2>2, <2>3, <2>4, <2>5, <2>6 DEF LinkOK
  <2>8. ASSUME NEW d \in Conns, d # c PROVE LinkOK(d)'
    <3> SUFFICES ASSUME NEW k \in conns[d].linked, NEW e \in Conns,
                        NEW m \in conns'[e].linked, e # d \/ m # k
                 PROVE  m[1] # k[1] /\ m[2] # k[2]
      BY <1>1, <2>2, <2>5, <2>8 DEF OInv, LinkOK
    <3>1. CASE e = c
      BY <2>2, <2>3, <3>1
    <3>2. CASE e # c
      BY <2>2, <2>8, <3>2 DEF OInv, LinkOK
    <3> QED BY <3>1, <3>2
  <2> QED BY <1>1, <2>7, <2>8 DEF OInv, OneEach
<1>3. CASE ~(owner[sent[r].body] = NoOne /\ PlayerOf(Account(r)) = {})
  <2>1. conns' = [conns EXCEPT ![c] = Aborted(c)]
    BY <1>3 DEF Insert
  <2>2. \A d \in Conns : conns'[d].linked = {} \/ conns'[d].linked = conns[d].linked
    BY <1>0, <2>1 DEF Aborted
  <2> QED BY <1>1, <2>2, NobodyLinked
<1> QED BY <1>2, <1>3

\* A COMMIT gives a new player to an account that has none.
LEMMA LinkCommitted ==
    ASSUME IInv, OInv, NEW c \in Conns, Apply(c),
           conns'[c].linked = {}, \A d \in Conns : d # c => conns'[d] = conns[d]
    PROVE  OInv'
<1>1. ASSUME NEW p \in Players
      PROVE  \/ owner'[p] = NoOne \/ owner'[p] = owner[p]
             \/ \E l \in conns[c].linked : l[1] = p /\ owner'[p] = l[2]
  BY DEF Apply
<1>2. OneEach'
  <2> SUFFICES ASSUME NEW p \in Players, NEW q \in Players,
                      owner'[p] = owner'[q], owner'[p] # NoOne
               PROVE  p = q
    BY DEF OneEach
  <2>1. CASE owner'[p] = owner[p] /\ owner'[q] = owner[q]
    BY <2>1 DEF OInv, OneEach
  <2>2. ASSUME NEW a \in Players, NEW b \in Players, owner'[a] = owner'[b],
               owner'[a] # NoOne,
               NEW l \in conns[c].linked, l[1] = a, owner'[a] = l[2]
        PROVE  a = b
    <3>1. \A m \in conns[c].linked : m # l => m[2] # l[2]
      BY DEF OInv, LinkOK
    <3>2. owner[b] # l[2]
      BY DEF OInv, LinkOK, PlayerOf
    <3>3. PICK m \in conns[c].linked : m[1] = b /\ owner'[b] = m[2]
      BY <1>1, <2>2, <3>2
    <3> QED BY <2>2, <3>1, <3>3
  <2> QED BY <1>1, <2>1, <2>2
<1>3. ASSUME NEW d \in Conns, d # c PROVE LinkOK(d)'
  <2> SUFFICES ASSUME NEW k \in conns[d].linked
               PROVE  /\ k[1] \in Players => owner'[k[1]] = NoOne
                      /\ PlayerOf(k[2])' = {}
    BY <1>3 DEF OInv, LinkOK
  <2>1. \A l \in conns[c].linked : l[1] # k[1] /\ l[2] # k[2]
    BY <1>3 DEF OInv, LinkOK
  <2>2. k[1] \in Players => owner[k[1]] = NoOne
    BY <1>3 DEF OInv, LinkOK
  <2>3. \A p \in Players : owner[p] # k[2]
    BY <1>3 DEF OInv, LinkOK, PlayerOf
  <2>4. k[2] # NoOne
    BY <1>3 DEF OInv, LinkOK
  <2>5. \A p \in Players : owner'[p] # k[2]
    BY <1>1, <2>1, <2>3, <2>4
  <2> QED BY <1>1, <2>1, <2>2, <2>5 DEF PlayerOf
<1>4. LinkOK(c)'
  BY DEF LinkOK
<1> QED BY <1>2, <1>3, <1>4 DEF OInv

\* Nobody is linked at the start, and every step keeps it so.
LEMMA OwnersInit == Init => OInv
BY DEF Init, OInv, OneEach, LinkOK, Closed

\* A step other than an insert and a COMMIT links nobody.
LEMMA OwnersStep == IInv /\ EInv /\ OInv /\ [Next]_vars => OInv'
<1> SUFFICES ASSUME IInv, EInv, OInv, [Next]_vars PROVE OInv'
  OBVIOUS
<1>0. DOMAIN conns = Conns /\ \A d \in Conns : DOMAIN conns[d] = ConnFields
  BY DEF IInv
<1> DEFINE Unlinking ==
        \A d \in Conns : conns'[d].linked = {} \/ conns'[d].linked = conns[d].linked
<1>1. ASSUME NEW r \in Requests, NEW c \in Conns, OnConn(r, c)
      PROVE  OInv'
  <2>1. CASE Borrow(r, c) \/ Begin(r, c) \/ Switch(r, c)
    <3>1. UNCHANGED owner /\ Unlinking
      BY <1>0, <2>1 DEF Borrow, Begin, Switch, tables
    <3> QED BY <3>1, NobodyLinked
  <2>2. CASE Find(r, c) \/ Read(r, c) \/ Whose(r, c) \/ Cut(r, c)
    <3>1. UNCHANGED owner /\ Unlinking
      BY <2>2 DEF Find, Read, Whose, Cut, tables
    <3> QED BY <3>1, NobodyLinked
  <2>3. CASE Write(r, c)
    <3>1. UNCHANGED owner
      BY <2>3 DEF Write, tables
    <3>2. CASE owner[req[r].player] # NoOne
      <4>1. PICK w : conns' = [conns EXCEPT ![c].wrote = w]
        BY <2>3, <3>2 DEF Write
      <4>2. Unlinking
        BY <1>0, <4>1
      <4> QED BY <3>1, <4>2, NobodyLinked
    <3>3. CASE owner[req[r].player] = NoOne
      <4>1. conns' = [conns EXCEPT ![c] = Aborted(c)]
        BY <2>3, <3>3 DEF Write
      <4>2. Unlinking
        BY <1>0, <4>1 DEF Aborted
      <4> QED BY <3>1, <4>2, NobodyLinked
    <3> QED BY <3>2, <3>3
  <2>4. CASE Insert(r, c)
    BY <2>4, LinkIsNew
  <2>5. CASE EraseRow(r, c)
    <3>1. UNCHANGED owner /\ Unlinking
      BY <1>0, <2>5 DEF EraseRow, tables
    <3> QED BY <3>1, NobodyLinked
  <2>6. CASE Commit(r, c)
    <3>1. /\ Apply(c) /\ conns'[c].linked = {}
          /\ \A d \in Conns : d # c => conns'[d] = conns[d]
      BY <1>0, <2>6 DEF Commit, Leaving, Closed
    <3> QED BY <3>1, LinkCommitted
  <2>7. CASE Rollback(r, c)
    <3>1. UNCHANGED owner /\ Unlinking
      BY <1>0, <2>7 DEF Rollback, Leaving, Closed, tables
    <3> QED BY <3>1, NobodyLinked
  <2>8. CASE Release(r, c)
    <3>1. conns' = [conns EXCEPT ![c] = GivenBack(c)] => Unlinking
      BY <1>0 DEF GivenBack
    <3>2. conns' = [conns EXCEPT ![c] = Closed] => Unlinking
      BY <1>0 DEF Closed
    <3>3. UNCHANGED owner /\ Unlinking
      BY <2>8, <3>1, <3>2 DEF Release, tables
    <3> QED BY <3>3, NobodyLinked
  <2> QED BY <1>1, <2>1, <2>2, <2>3, <2>4, <2>5, <2>6, <2>7, <2>8 DEF OnConn
<1>2. ASSUME NEW r \in Requests, NEW c \in Conns,
             SwitchRefused(r, c) \/ Fail(r, c)
      PROVE  OInv'
  <2>1. SwitchRefused(r, c) => Unlinking
    BY <1>0 DEF SwitchRefused
  <2>2. conns' = [conns EXCEPT ![c] = Aborted(c)] => Unlinking
    BY <1>0 DEF Aborted
  <2>3. Fail(r, c) => Unlinking
    BY <2>2 DEF Fail
  <2>4. UNCHANGED owner
    BY <1>2 DEF SwitchRefused, Fail, tables
  <2> QED BY <1>2, <2>1, <2>3, <2>4, NobodyLinked
<1>3. ASSUME NEW r \in Requests, NEW c \in Conns, CommitUnheard(r, c)
      PROVE  OInv'
  <2>1. /\ Apply(c) /\ conns'[c].linked = {}
        /\ \A d \in Conns : d # c => conns'[d] = conns[d]
    BY <1>0, <1>3 DEF CommitUnheard, Leaving, Closed
  <2> QED BY <2>1, LinkCommitted
<1>4. ASSUME NEW r \in Requests,
             Verify(r) \/ Decide(r) \/ KeysUnreachable(r) \/ CannotConnect(r)
      PROVE  OInv'
  <2>1. UNCHANGED owner /\ Unlinking
    BY <1>4 DEF Verify, Decide, KeysUnreachable, CannotConnect, tables
  <2> QED BY <2>1, NobodyLinked
<1>5. CASE (\E c \in Conns : Lose(c)) \/ Die
  <2>1. UNCHANGED owner /\ Unlinking
    BY <1>0, <1>5 DEF Lose, Die, Closed, tables
  <2> QED BY <2>1, NobodyLinked
<1>6. CASE UNCHANGED vars
  BY <1>6, NobodyLinked DEF vars, tables
<1> QED BY <1>1, <1>2, <1>3, <1>4, <1>5, <1>6 DEF Next, Serve, Faulty

\* What the requests ask is chosen once.
LEMMA SentIsOffered == Spec => [](sent \in Offered)
<1>1. Init => sent \in Offered
  BY DEF Init
<1>2. [Next]_vars => sent' = sent
  <2>1. ASSUME NEW r \in Requests, NEW c \in Conns, OnConn(r, c) PROVE sent' = sent
    BY <2>1 DEF OnConn, Borrow, Begin, Switch, Find, Read, Write, Whose, Insert, EraseRow,
       Cut, Commit, Rollback, Release
  <2>2. ASSUME NEW r \in Requests, NEW c \in Conns,
               SwitchRefused(r, c) \/ Fail(r, c) \/ CommitUnheard(r, c)
        PROVE  sent' = sent
    BY <2>2 DEF SwitchRefused, Fail, CommitUnheard
  <2>3. ASSUME NEW r \in Requests,
               Verify(r) \/ Decide(r) \/ KeysUnreachable(r) \/ CannotConnect(r)
        PROVE  sent' = sent
    BY <2>3 DEF Verify, Decide, KeysUnreachable, CannotConnect
  <2> QED BY <2>1, <2>2, <2>3 DEF Next, Serve, Faulty, Lose, Die, vars
<1>3. sent \in Offered /\ [Next]_vars => (sent \in Offered)'
  BY <1>2
<1> QED BY <1>1, <1>3, PTL DEF Spec

\* Statuses and places are of their sets; a request with work has one connection
\* and any other has none; an account has one player (schema.ts, PlayersTable).
THEOREM GatewayTyping == Spec => []TypeOK
<1>1. IInv /\ EInv /\ OInv /\ sent \in Offered => TypeOK
  <2> SUFFICES ASSUME IInv, EInv, NEW r \in Requests
               PROVE  Cardinality(Held(r)) = IF req[r].pc \in Holding THEN 1 ELSE 0
    BY DEF TypeOK, EInv, OInv, OneEach
  <2>1. CASE req[r].pc \in Holding
    <3>1. PICK c \in Conns : conns[c].by = r
      BY <2>1 DEF EInv
    <3>2. r # NoOne
      BY NoOneAssumption
    <3>3. Held(r) = {c}
      BY <3>1, <3>2 DEF Held, IInv
    <3> QED BY <2>1, <3>3, FS_Singleton
  <2>2. CASE req[r].pc \notin Holding
    <3>1. Held(r) = {}
      BY <2>2 DEF Held, IInv
    <3> QED BY <2>2, <3>1, FS_EmptySet
  <2> QED BY <2>1, <2>2
<1>2. Spec => []OInv
  BY OwnersInit, OwnersStep, GatewayInvariant, EffectsInvariant, PTL DEF Spec
<1> QED BY <1>1, <1>2, GatewayInvariant, EffectsInvariant, SentIsOffered, PTL
=============================================================================
