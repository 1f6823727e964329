-------------------------------- MODULE Gateway --------------------------------
(***************************************************************************)
(* The way of a request through the server: the credential is read and     *)
(* verified (session.ts, adapters/session-verifier.ts), the route decided  *)
(* (routing.ts), the body judged, a connection borrowed and a role taken   *)
(* on it (adapters/request-database.ts), the handler's statements run, the *)
(* transaction ended, the connection given back and the answer sent        *)
(* (adapters/http-server.ts).  Requests share the pool and the database.   *)
(*                                                                         *)
(* What a handler's rows are is left to Ingest, Account and Packs: here a  *)
(* statement finds the caller's player, reads its rows, adds one, links a  *)
(* player or erases one.                                                   *)
(***************************************************************************)
EXTENDS Naturals, Sequences, FiniteSets

CONSTANTS
    Requests, Accounts, Players, Conns,
    Offered,        \* what the requests may ask: [method, path, header, body] of each
    Tokens,
    SignedWith,     \* the algorithm of a token
    InForce,        \* tokens of the issuer, signed with its key, within their time
    Subject,        \* the sub of a token
    Malformed,      \* a body the handler refuses; the others name a player
    MaxFaults,      \* bound: failures of statements, connections and processes
    NoOne

VARIABLES
    sent,       \* what each request asks, and with which header
    req,        \* how far it has come
    conns,      \* the pool
    owner,      \* players: the account of each, or NoOne
    rows,       \* the rows kept for each player, <<request, statement>>
    faults

vars == <<sent, req, conns, owner, rows, faults>>
tables == <<owner, rows>>

ASSUME FaultsAssumption == MaxFaults \in Nat
ASSUME NoOneAssumption == NoOne \notin Requests \cup Accounts \cup Players

-----------------------------------------------------------------------------
(* session.ts: a header is the words it is made of. *)

Absent == [kind |-> "absent", account |-> NoOne]
Refused == [kind |-> "refused", account |-> NoOne]

\* The token of a header that offers one.
Bearers(header) ==
    {t \in Tokens : Len(header) = 2 /\ header[1] = "bearer" /\ header[2] = t}

AlgorithmIsPinned(t) == SignedWith[t] = "EdDSA"

\* createSessionVerifier: what verifying the header makes of the caller.
NamesAnAccount(t) == Subject[t] \in Accounts
Verified(header) ==
    IF Len(header) = 0 THEN Absent
    ELSE IF \E t \in Bearers(header) :
                t \in InForce /\ AlgorithmIsPinned(t) /\ NamesAnAccount(t)
         THEN [kind |-> "session", account |-> Subject[header[2]]]
         ELSE Refused

-----------------------------------------------------------------------------
(* routing.ts *)

At(method, path, op) == [method |-> method, path |-> path, op |-> op]
PackId == "{packId}"
CONTRACTED_OPERATIONS ==
    { At("POST", <<"attempts">>, "submitAttempts"),
      At("GET", <<"items", "next">>, "getNextItem"),
      At("DELETE", <<"me">>, "deleteMe"),
      At("GET", <<"me">>, "getMe"),
      At("GET", <<"me", "history">>, "getHistory"),
      At("GET", <<"me", "standing">>, "getStanding"),
      At("POST", <<"packs">>, "issuePack"),
      At("GET", <<"packs", PackId>>, "getOfflinePack"),
      At("POST", <<"players", "link">>, "linkPlayer") }
IMPLEMENTED_OPERATIONS == {r.op : r \in CONTRACTED_OPERATIONS} \ {"getNextItem"}
OPS_ROUTES == {At("GET", <<"health">>, "health")}
ALL_ROUTES == OPS_ROUTES \cup CONTRACTED_OPERATIONS

\* A parameter is one segment, and not an empty one.
MatchesTemplate(template, path) ==
    /\ Len(template) = Len(path)
    /\ \A i \in DOMAIN template :
        IF template[i] = PackId THEN path[i] # "" ELSE template[i] = path[i]

Answer(status) == [kind |-> "answer", status |-> status, op |-> "none"]
Dispatch(op) == [kind |-> "dispatch", status |-> 0, op |-> op]

\* route(): a probe needs no session; everything else on the surface does,
\* built or not.
Route(method, path, caller) ==
    LET routed == {r \in ALL_ROUTES : r.method = method
                                        /\ MatchesTemplate(r.path, path)}
        known == \E r \in ALL_ROUTES : MatchesTemplate(r.path, path)
        op == (CHOOSE r \in routed : TRUE).op
    IN  IF method = "GET" /\ path = <<"health">> THEN Answer(200)
        ELSE IF routed # {} THEN
            IF caller.kind # "session" THEN Answer(401)
            ELSE IF op \in IMPLEMENTED_OPERATIONS THEN Dispatch(op)
            ELSE Answer(501)
        ELSE IF known THEN Answer(405) ELSE Answer(404)

-----------------------------------------------------------------------------
(* The handlers: the statements of each, in order. *)

Statements(op) ==
    CASE op = "getMe" -> <<"find">>
      [] op \in {"getHistory", "getStanding", "getOfflinePack"} -> <<"find", "read">>
      [] op = "issuePack" -> <<"find", "write">>
      [] op = "submitAttempts" -> <<"find", "write", "write">>
      [] op = "linkPlayer" -> <<"find", "whose", "link">>
      [] op = "deleteMe" -> <<"erase">>

RoleOf(op) == IF op = "deleteMe" THEN "retention_job" ELSE "app_request"

\* readAttemptBatch, readLinkRequest: before a connection is asked for.
JudgesItsBody(op) == op \in {"submitAttempts", "linkPlayer"}

Arrived == [pc |-> "arrived", caller |-> Absent, op |-> "none", at |-> 0,
            player |-> NoOne, status |-> 0, kept |-> {}]
Closed == [by |-> NoOne, open |-> FALSE, tx |-> "none", role |-> "owner",
           wrote |-> {}, linked |-> {}, erased |-> {}]

Init ==
    /\ sent \in Offered
    /\ req = [r \in Requests |-> Arrived]
    /\ conns = [c \in Conns |-> Closed]
    /\ owner \in [Players -> Accounts \cup {NoOne}]
    /\ \A p, q \in Players : owner[p] = owner[q] /\ owner[p] # NoOne => p = q
    /\ rows = [p \in Players |-> {}]
    /\ faults = 0

Held(r) == {c \in Conns : conns[c].by = r}

\* The caller is resolved for every request, before anything is routed.
Verify(r) ==
    /\ req[r].pc = "arrived"
    /\ req' = [req EXCEPT ![r].pc = "known", ![r].caller = Verified(sent[r].header)]
    /\ UNCHANGED <<sent, conns, tables, faults>>

\* The provider's keys cannot be fetched: refused, as any other failure is.
KeysUnreachable(r) ==
    /\ req[r].pc = "arrived" /\ Len(sent[r].header) > 0
    /\ faults < MaxFaults
    /\ req' = [req EXCEPT ![r].pc = "known", ![r].caller = Refused]
    /\ faults' = faults + 1
    /\ UNCHANGED <<sent, conns, tables>>

Decide(r) ==
    /\ req[r].pc = "known"
    /\ LET to == Route(sent[r].method, sent[r].path, req[r].caller)
       IN  req' = [req EXCEPT ![r] =
            IF to.kind = "answer"
            THEN [@ EXCEPT !.pc = "answered", !.status = to.status]
            ELSE IF JudgesItsBody(to.op) /\ sent[r].body = Malformed
            THEN [@ EXCEPT !.pc = "answered", !.status = 400]
            ELSE [@ EXCEPT !.pc = "borrow", !.op = to.op, !.at = 1]]
    /\ UNCHANGED <<sent, conns, tables, faults>>

BorrowAny(r, c) ==                                                  \* mutant
    /\ req[r].pc = "borrow"
    /\ conns' = [conns EXCEPT ![c].by = r, ![c].open = TRUE]
    /\ req' = [req EXCEPT ![r].pc = "begin"]
    /\ UNCHANGED <<sent, tables, faults>>

\* pool.connect(): a connection at rest, or a new one while there are fewer
\* than the pool may hold.
Borrow(r, c) ==
    /\ req[r].pc = "borrow" /\ conns[c].by = NoOne
    /\ conns' = [conns EXCEPT ![c].by = r, ![c].open = TRUE]
    /\ req' = [req EXCEPT ![r].pc = "begin"]
    /\ UNCHANGED <<sent, tables, faults>>

CannotConnect(r) ==
    /\ req[r].pc = "borrow" /\ faults < MaxFaults
    /\ req' = [req EXCEPT ![r].pc = "answered", ![r].status = 500]
    /\ faults' = faults + 1
    /\ UNCHANGED <<sent, conns, tables>>

-----------------------------------------------------------------------------
(* inRole *)

\* On a transaction that failed and was not ended, BEGIN is refused as any
\* other statement is.
Begin(r, c) ==
    /\ req[r].pc = "begin" /\ conns[c].by = r
    /\ IF conns[c].open /\ conns[c].tx = "none"
       THEN /\ conns' = [conns EXCEPT ![c].tx = "open"]
            /\ req' = [req EXCEPT ![r].pc = "switch"]
       ELSE /\ conns' = conns
            /\ req' = [req EXCEPT ![r].pc = "release", ![r].status = 500]
    /\ UNCHANGED <<sent, tables, faults>>

\* SET LOCAL: the role is the transaction's.
LeavingItsRole(c) == [Closed EXCEPT !.by = conns[c].by,             \* mutant
    !.open = conns[c].open, !.role = conns[c].role]
Leaving(c) == [Closed EXCEPT !.by = conns[c].by, !.open = conns[c].open]

Switch(r, c) ==
    /\ req[r].pc = "switch" /\ conns[c].by = r
    /\ IF conns[c].open
       THEN /\ conns' = [conns EXCEPT ![c].role = RoleOf(req[r].op)]
            /\ req' = [req EXCEPT ![r].pc = "work"]
       ELSE /\ conns' = conns
            /\ req' = [req EXCEPT ![r].pc = "release", ![r].status = 500]
    /\ UNCHANGED <<sent, tables, faults>>

\* BEGIN and SET LOCAL ROLE stand outside the try: no ROLLBACK follows.
SwitchRefused(r, c) ==
    /\ faults < MaxFaults
    /\ req[r].pc = "switch" /\ conns[c].by = r /\ conns[c].open
    /\ conns' = [conns EXCEPT ![c].tx = "aborted"]
    /\ req' = [req EXCEPT ![r].pc = "release", ![r].status = 500]
    /\ faults' = faults + 1
    /\ UNCHANGED <<sent, tables>>

Statement(r) == Statements(req[r].op)[req[r].at]
Account(r) == req[r].caller.account
Usable(r, c) == req[r].pc = "work" /\ conns[c].by = r /\ conns[c].open

\* What the handler does after a statement: the next one, or its answer.
Proceed(r, status) ==
    IF req[r].at < Len(Statements(req[r].op))
    THEN [req[r] EXCEPT !.at = @ + 1]
    ELSE [req[r] EXCEPT !.pc = "commit", !.status = status]
AnswerWith(r, status) == [req[r] EXCEPT !.pc = "commit", !.status = status]

\* The catch of inRole: what a handler throws ends in a ROLLBACK and a 500.
Throw(r) == [req[r] EXCEPT !.pc = "rollback", !.status = 500]
Caught(r) == Throw(r)

Aborted(c) == [conns[c] EXCEPT !.tx = "aborted", !.wrote = {}, !.linked = {},
                               !.erased = {}]

PlayerOf(a) == {p \in Players : owner[p] = a}

\* playerIdForAccount, findPlayerForAccount
Find(r, c) ==
    /\ Usable(r, c) /\ Statement(r) = "find"
    /\ LET found == PlayerOf(Account(r))
           p == IF found = {} THEN NoOne ELSE CHOOSE q \in found : TRUE
       IN  req' = [req EXCEPT ![r] =
                IF p = NoOne /\ req[r].op # "linkPlayer" THEN AnswerWith(r, 404)
                ELSE [Proceed(r, 200) EXCEPT !.player = p]]
    /\ UNCHANGED <<sent, conns, tables, faults>>

\* recentSessions, skillRatings, packFor: the rows of the player found, which
\* may have gone since.
Read(r, c) ==
    /\ Usable(r, c) /\ Statement(r) = "read"
    /\ LET pack == \E w \in rows[req[r].player] : req[w[1]].op = "issuePack"
       IN  req' = [req EXCEPT ![r] = Proceed(r,
                IF req[r].op = "getOfflinePack" /\ ~pack THEN 404 ELSE 200)]
    /\ UNCHANGED <<sent, conns, tables, faults>>

\* insertPack, insertAttempts, applyRating: a row under the player, whose own
\* row the foreign key holds, or waits for.
Write(r, c) ==
    /\ Usable(r, c) /\ Statement(r) = "write"
    /\ \A d \in Conns : req[r].player \notin conns[d].erased
    /\ IF owner[req[r].player] # NoOne
       THEN /\ conns' = [conns EXCEPT ![c].wrote =
                            @ \cup {<<req[r].player, <<r, req[r].at>>>>}]
            /\ req' = [req EXCEPT ![r] = Proceed(r, 200)]
       ELSE /\ conns' = [conns EXCEPT ![c] = Aborted(c)]
            /\ req' = [req EXCEPT ![r] = Caught(r)]
    /\ UNCHANGED <<sent, tables, faults>>

\* accountForPlayer, and linkOutcome on both reads.
Whose(r, c) ==
    /\ Usable(r, c) /\ Statement(r) = "whose"
    /\ LET whose == owner[sent[r].body]
       IN  req' = [req EXCEPT ![r] =
                IF req[r].player = sent[r].body /\ whose = Account(r)
                THEN AnswerWith(r, 200)
                ELSE IF req[r].player # NoOne \/ whose # NoOne
                THEN AnswerWith(r, 409)
                ELSE Proceed(r, 200)]
    /\ UNCHANGED <<sent, conns, tables, faults>>

\* insertPlayer: waits for another insert of the player or the account, or
\* for their erasure, and is refused once either is there.
Insert(r, c) ==
    /\ Usable(r, c) /\ Statement(r) = "link"
    /\ \A d \in Conns :
        /\ \A l \in conns[d].linked : l[1] # sent[r].body /\ l[2] # Account(r)
        /\ sent[r].body \notin conns[d].erased
        /\ PlayerOf(Account(r)) \cap conns[d].erased = {}
    /\ IF owner[sent[r].body] = NoOne /\ PlayerOf(Account(r)) = {}
       THEN /\ conns' = [conns EXCEPT ![c].linked = {<<sent[r].body, Account(r)>>}]
            /\ req' = [req EXCEPT ![r] = Proceed(r, 200)]
       ELSE /\ conns' = [conns EXCEPT ![c] = Aborted(c)]
            /\ req' = [req EXCEPT ![r] = Caught(r)]
    /\ UNCHANGED <<sent, tables, faults>>

\* deletePlayerForAccount: waits for whoever holds the player's row.
EraseRow(r, c) ==
    /\ Usable(r, c) /\ Statement(r) = "erase"
    /\ LET gone == PlayerOf(Account(r))
       IN  /\ \A d \in Conns :
                /\ gone \cap conns[d].erased = {}
                /\ \A w \in conns[d].wrote : w[1] \notin gone
           /\ conns' = [conns EXCEPT ![c].erased = gone]
           /\ req' = [req EXCEPT ![r] = Proceed(r, IF gone = {} THEN 404 ELSE 204)]
    /\ UNCHANGED <<sent, tables, faults>>

\* A statement fails, or the handler throws between two.
Fail(r, c) ==
    /\ Usable(r, c) /\ faults < MaxFaults
    /\ \/ conns' = [conns EXCEPT ![c] = Aborted(c)]
       \/ conns' = conns
    /\ req' = [req EXCEPT ![r] = Caught(r)]
    /\ faults' = faults + 1
    /\ UNCHANGED <<sent, tables>>

CutUnheeded(r, c) ==                                                \* mutant
    /\ req[r].pc \in {"work", "commit"} /\ conns[c].by = r /\ ~conns[c].open
    /\ req' = [req EXCEPT ![r].pc = "release"]
    /\ UNCHANGED <<sent, conns, tables, faults>>

\* The connection was lost under the handler: its statement rejects.
Cut(r, c) ==
    /\ req[r].pc \in {"work", "commit"} /\ conns[c].by = r /\ ~conns[c].open
    /\ req' = [req EXCEPT ![r] = Throw(r)]
    /\ UNCHANGED <<sent, conns, tables, faults>>

\* What a COMMIT makes of the transaction's writes.
Apply(c) ==
    /\ owner' = [p \in Players |->
            IF p \in conns[c].erased THEN NoOne
            ELSE IF \E l \in conns[c].linked : l[1] = p
            THEN (CHOOSE l \in conns[c].linked : l[1] = p)[2] ELSE owner[p]]
    /\ rows' = [p \in Players |->
            IF p \in conns[c].erased THEN {}
            ELSE rows[p] \cup {w[2] : w \in {v \in conns[c].wrote : v[1] = p}}]

Kept(c) == conns[c].wrote \cup conns[c].linked \cup conns[c].erased

Commit(r, c) ==
    /\ req[r].pc = "commit" /\ conns[c].by = r /\ conns[c].open
    /\ Apply(c)
    /\ conns' = [conns EXCEPT ![c] = Leaving(c)]
    /\ req' = [req EXCEPT ![r].pc = "release", ![r].kept = Kept(c)]
    /\ UNCHANGED <<sent, faults>>

\* The COMMIT reaches the database and the connection is lost before it says so.
CommitUnheard(r, c) ==
    /\ req[r].pc = "commit" /\ conns[c].by = r /\ conns[c].open
    /\ faults < MaxFaults
    /\ Apply(c)
    /\ conns' = [conns EXCEPT ![c] = [Leaving(c) EXCEPT !.open = FALSE]]
    /\ req' = [req EXCEPT ![r] = [Throw(r) EXCEPT !.kept = Kept(c)]]
    /\ faults' = faults + 1
    /\ UNCHANGED sent

\* ROLLBACK; on a lost connection it rejects too, and the answer is the same.
Rollback(r, c) ==
    /\ req[r].pc = "rollback" /\ conns[c].by = r
    /\ conns' = [conns EXCEPT ![c] = Leaving(c)]
    /\ req' = [req EXCEPT ![r].pc = "release"]
    /\ UNCHANGED <<sent, tables, faults>>

\* borrow's finally, and run's answer.
KeptAfterFailure(c) ==                                              \* mutant
    IF req[conns[c].by].status = 500 THEN conns[c] ELSE [conns[c] EXCEPT !.by = NoOne]
GivenBack(c) == [conns[c] EXCEPT !.by = NoOne]

\* The library may close a connection that comes back in a transaction.
Release(r, c) ==
    /\ req[r].pc = "release" /\ conns[c].by = r
    /\ \/ conns' = [conns EXCEPT ![c] = GivenBack(c)]
       \/ conns[c].tx # "none" /\ conns' = [conns EXCEPT ![c] = Closed]
    /\ req' = [req EXCEPT ![r].pc = "answered"]
    /\ UNCHANGED <<sent, tables, faults>>

-----------------------------------------------------------------------------
(* What befalls the process and its connections. *)

\* The database ends a connection: what it had not committed is rolled back.
Lose(c) ==
    /\ conns[c].open /\ faults < MaxFaults
    /\ conns' = [conns EXCEPT ![c] = [Closed EXCEPT !.by = conns[c].by]]
    /\ faults' = faults + 1
    /\ UNCHANGED <<sent, req, tables>>

\* The process ends, be it of a connection's error that nobody listens for;
\* the platform starts another, which knows nothing of the requests in hand.
Die ==
    /\ faults < MaxFaults
    /\ conns' = [c \in Conns |-> Closed]
    /\ req' = [r \in Requests |->
            IF req[r].pc \in {"arrived", "answered"} THEN req[r]
            ELSE [req[r] EXCEPT !.pc = "dropped"]]
    /\ faults' = faults + 1
    /\ UNCHANGED <<sent, tables>>

OnConn(r, c) ==
    \/ Borrow(r, c) \/ Begin(r, c) \/ Switch(r, c) \/ Find(r, c) \/ Read(r, c)
    \/ Write(r, c) \/ Whose(r, c) \/ Insert(r, c) \/ EraseRow(r, c) \/ Cut(r, c)
    \/ Commit(r, c) \/ Rollback(r, c) \/ Release(r, c)
Serve(r) == Verify(r) \/ Decide(r) \/ \E c \in Conns : OnConn(r, c)

Faulty(r) ==
    \/ KeysUnreachable(r) \/ CannotConnect(r)
    \/ \E c \in Conns : SwitchRefused(r, c) \/ Fail(r, c) \/ CommitUnheard(r, c)

Next ==
    \/ \E r \in Requests : Serve(r) \/ Faulty(r)
    \/ \E c \in Conns : Lose(c)
    \/ Die

Fairness == \A r \in Requests : WF_vars(Serve(r))
Spec == Init /\ [][Next]_vars
FairSpec == Spec /\ Fairness

-----------------------------------------------------------------------------
TypeOK ==
    /\ sent \in Offered
    /\ \A r \in Requests :
        /\ req[r].pc \in {"arrived", "known", "borrow", "begin", "switch", "work",
                          "commit", "rollback", "release", "answered", "dropped"}
        /\ req[r].status \in {0, 200, 204, 400, 401, 404, 405, 409, 500, 501}
        \* one connection to a request, and none to a request without work
        /\ Cardinality(Held(r)) = IF req[r].pc \in {"begin", "switch", "work",
                          "commit", "rollback", "release"} THEN 1 ELSE 0
    /\ \A c \in Conns : conns[c].tx \in {"none", "open", "aborted"}
    \* one account, one player
    /\ \A p, q \in Players : owner[p] = owner[q] /\ owner[p] # NoOne => p = q

\* The next request finds neither the role of an earlier one nor work of its
\* that could still be committed.
ConnectionsRestClean ==
    \A c \in Conns : conns[c].by = NoOne =>
        /\ conns[c].role = "owner" /\ conns[c].tx # "open"
        /\ Kept(c) = {}

\* request-database.ts:14-15 "the switch is scoped to a transaction that always
\* ends": no connection rests in one.
TransactionsEnd == \A c \in Conns : conns[c].by = NoOne => conns[c].tx = "none"

\* Only a bearer token of the issuer's key, its algorithm and an account's
\* subject brings a request as far as a connection, and the role it works
\* under is the operation's: retention_job's for an erasure and nothing else.
OnlyTheVerified ==
    \A c \in Conns, r \in Requests : conns[c].by = r =>
        /\ \E t \in Tokens : /\ Len(sent[r].header) = 2
                             /\ sent[r].header[1] = "bearer" /\ sent[r].header[2] = t
                             /\ t \in InForce /\ SignedWith[t] = "EdDSA"
                             /\ Subject[t] = Account(r) /\ Account(r) \in Accounts
        /\ conns[c].role \in {"owner", RoleOf(req[r].op)}
        /\ req[r].pc = "work" /\ conns[c].open => conns[c].role # "owner"

\* A request's rows are all there or none is, whatever failed between two of
\* its statements (one transaction per unit of work).
AllOrNothing ==
    \A r \in Requests, p \in Players :
        LET mine == {w \in rows[p] : w[1] = r}
        IN  mine = {} \/ Cardinality(mine) = IF req[r].op = "submitAttempts" THEN 2
                                             ELSE 1

\* A 2xx of a writer was written; a refusal wrote nothing.  Only a 500 and no
\* answer at all leave it open.
Writers == {"issuePack", "submitAttempts", "deleteMe"}
AnswersMatchEffects ==
    \A r \in Requests : req[r].pc = "answered" =>
        /\ req[r].status \in {400, 401, 404, 405, 409, 501} => req[r].kept = {}
        /\ req[r].status \in {200, 204} /\ req[r].op \in Writers
            => req[r].kept # {}

\* A caller who is told can trust it, and one who is not finds all or nothing.
WritesAreKnown == AllOrNothing /\ AnswersMatchEffects

\* Every request is answered, unless its process ended, whatever became of
\* others that shared the pool.
EveryRequestAnswered ==
    \A r \in Requests : <>(req[r].pc \in {"answered", "dropped"})
=============================================================================
