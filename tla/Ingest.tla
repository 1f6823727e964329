-------------------------------- MODULE Ingest --------------------------------
(***************************************************************************)
(* POST /attempts against Postgres: the transaction submitAttempts runs    *)
(* (adapters/http-server.ts), statement by statement, for several requests *)
(* at once.                                                                *)
(*                                                                         *)
(* The transactions are READ COMMITTED, so each statement sees what had    *)
(* committed when it began; a request's own writes are kept in its record  *)
(* and become the tables' at COMMIT.  A row another open transaction has   *)
(* inserted or upserted blocks whoever inserts or upserts the same row.    *)
(*                                                                         *)
(* A rating is kept as the answers that made it: rated[i] counts how often *)
(* the answer to item i has moved its player's user_skills row, taught[i]  *)
(* how often it has been played into its class's difficulty_ratings row.   *)
(* A row of either table is the part of the function that belongs to it,   *)
(* and a row with no answer in it is a row that is not there.  Glicko's    *)
(* arithmetic is a function of exactly that.                               *)
(***************************************************************************)
EXTENDS Integers, FiniteSets, Sequences

CONSTANTS
    Players,        \* players(id), each with its own account
    Packs,          \* the uuids offline_packs may ever mint
    Former,         \* those of players who had gone before
    Items,          \* (pack, index) addresses
    Sessions,       \* session ids; naturals, for the period key's order
    Requests,       \* every POST /attempts this behaviour holds
    Answers,        \* what a client may submit: [item, session, at, ok]
    Batches,        \* bound: the request bodies that arrive, sets of answers
    PackOf,         \* the pack an item is in
    SkillOf,        \* the skill the item practises
    StepOf,         \* the ladder step it sits at, or NoStep
    NoStep,         \* the item's difficulty is not on record
    BatchMax,       \* ATTEMPTS_PER_BATCH_MAX, 200 in the code
    NoPlayer, Gone, \* owners of a pack not minted yet, and of one erased
    MaxFaults       \* bound: transactions that die for no reason of their own

VARIABLES
    linked,     \* the players that have a row
    owner,      \* offline_packs.player_id, by pack
    attempts,   \* committed rows: [player, answer]
    rated,      \* user_skills, by item (see above)
    taught,     \* difficulty_ratings, by item
    deltas,     \* session_deltas, by session and item
    req,        \* the requests, each with its open transaction
    faults

vars == <<linked, owner, attempts, rated, taught, deltas, req, faults>>
tables == <<linked, owner, attempts, rated, taught, deltas>>

Skills == {SkillOf[i] : i \in Items}
Placed(i) == StepOf[i] # NoStep
ClassOf(i) == <<SkillOf[i], StepOf[i]>>
Classes == {ClassOf(i) : i \in {j \in Items : Placed(j)}}
InClass(c) == {i \in Items : Placed(i) /\ ClassOf(i) = c}
ItemsOf(answers) == {a.item : a \in answers}
Recorded(i) == \E row \in attempts : row.answer.item = i

ASSUME ItemsAssumption ==
    /\ IsFiniteSet(Items)
    /\ PackOf \in [Items -> Packs]
    /\ Former \subseteq Packs
    /\ DOMAIN SkillOf = Items
    /\ DOMAIN StepOf = Items
    /\ NoPlayer \notin Players /\ Gone \notin Players /\ NoPlayer # Gone
ASSUME AnswersAssumption ==
    /\ \A a \in Answers : a.item \in Items /\ a.session \in Sessions
    /\ Batches \in SUBSET SUBSET Answers
ASSUME NumbersAssumption == BatchMax \in Nat /\ MaxFaults \in Nat

Nothing == [i \in Items |-> 0]

\* Where a request is: what it has done, not what it will do.
Phases == {"idle", "received", "queued", "locked", "resolved", "inserted",
           "readSkills", "readClasses", "wroteSkills", "wroteClasses", "done"}
\* The phases that hold the player's advisory lock.
Serialised == {"locked", "resolved", "inserted", "readSkills", "readClasses",
               "wroteSkills", "wroteClasses"}
\* The phases that have read what the batch will be rated against.
Rating == {"readSkills", "readClasses", "wroteSkills", "wroteClasses"}
\* The phases whose transaction holds rows it has inserted into attempts.
Inserting == Serialised \ {"locked", "resolved"}
Statuses == {"none", "verdicts", "malformed", "no_player", "no_such_item",
             "failed"}

Fresh == [phase |-> "idle", player |-> NoPlayer, batch |-> {}, landed |-> {},
          skillRead |-> Nothing, classRead |-> Nothing, todo |-> <<>>,
          written |-> {}, status |-> "none"]

\* Nobody yet, but for what players who have gone leave: the ratings of the
\* classes they answered in.
Init ==
    /\ linked = {}
    /\ owner = [k \in Packs |-> IF k \in Former THEN Gone ELSE NoPlayer]
    /\ attempts = {}
    /\ rated = Nothing
    /\ taught \in [Items -> {0, 1}]
    /\ \A i \in Items : taught[i] = 1 => PackOf[i] \in Former /\ Placed(i)
    /\ deltas = [s \in Sessions |-> Nothing]
    /\ req = [r \in Requests |-> Fresh]
    /\ faults = 0

-----------------------------------------------------------------------------
(* The rest of the API, as far as it changes what this handler reads.      *)

Link(p) ==
    /\ p \notin linked
    /\ linked' = linked \cup {p}
    /\ UNCHANGED <<owner, attempts, rated, taught, deltas, req, faults>>

IssuePack(p, k) ==
    /\ p \in linked
    /\ owner[k] = NoPlayer
    /\ owner' = [owner EXCEPT ![k] = p]
    /\ UNCHANGED <<linked, attempts, rated, taught, deltas, req, faults>>

\* DELETE /me.  The statement waits for whoever holds the player's row: an
\* open transaction that has inserted an attempt holds it for its foreign key.
Erase(p) ==
    LET lost == {i \in Items : owner[PackOf[i]] = p}
        Without(f) == [i \in Items |-> IF i \in lost THEN 0 ELSE f[i]]
    IN  /\ p \in linked
        /\ \A r \in Requests :
              (req[r].player = p /\ req[r].phase \in Inserting)
                 => req[r].landed = {}
        /\ linked' = linked \ {p}
        /\ owner' = [k \in Packs |-> IF owner[k] = p THEN Gone ELSE owner[k]]
        /\ attempts' = {row \in attempts : row.player # p}
        /\ rated' = Without(rated)
        /\ deltas' = [s \in Sessions |-> Without(deltas[s])]
        /\ UNCHANGED <<taught, req, faults>>

-----------------------------------------------------------------------------
(* submitAttempts                                                          *)

Becomes(r, record) == req' = [req EXCEPT ![r] = record]
Advance(r, phase) == Becomes(r, [req[r] EXCEPT !.phase = phase])

\* Answered with nothing written: an early return, or run() catching a throw.
\* Rolling back releases the lock and every row with it.
Answer(r, status) ==
    Becomes(r, [Fresh EXCEPT !.phase = "done", !.status = status])

Refused(batch) ==
    \/ Cardinality(batch) > BatchMax
    \/ \E a, b \in batch : a # b /\ a.item = b.item

\* readAttemptBatch, before any connection is borrowed.
Receive(r, p, batch) ==
    /\ req[r].phase = "idle"
    /\ IF Refused(batch)
         THEN Answer(r, "malformed")
         ELSE Becomes(r, [req[r] EXCEPT !.phase = "received",
                                        !.player = p,
                                        !.batch = batch])
    /\ UNCHANGED <<tables, faults>>

\* playerIdForAccount.
FindPlayer(r) ==
    /\ req[r].phase = "received"
    /\ IF req[r].player \in linked
         THEN Advance(r, "queued")
         ELSE Answer(r, "no_player")
    /\ UNCHANGED <<tables, faults>>

\* Mutant: the lock left out, or taken once the rating has been read.
LockNobody(r) ==
    /\ req[r].phase = "queued"
    /\ Advance(r, "locked")
    /\ UNCHANGED <<tables, faults>>

\* pg_advisory_xact_lock: granted when no open transaction has it.
Lock(r) ==
    /\ req[r].phase = "queued"
    /\ \A o \in Requests :
          req[o].player = req[r].player => req[o].phase \notin Serialised
    /\ Advance(r, "locked")
    /\ UNCHANGED <<tables, faults>>

\* Mutant: an early return that leaves the transaction, and its lock, open.
ResolveLeavingItOpen(r) ==
    /\ req[r].phase = "locked"
    /\ \A a \in req[r].batch : owner[PackOf[a.item]] = req[r].player
    /\ Advance(r, "resolved")
    /\ UNCHANGED <<tables, faults>>

\* gradingSourceFor for every attempt, before anything is written.  The
\* verdict is in the answer: grading is a function of the item and the text.
Resolve(r) ==
    /\ req[r].phase = "locked"
    /\ IF \A a \in req[r].batch : owner[PackOf[a.item]] = req[r].player
         THEN Advance(r, "resolved")
         ELSE Answer(r, "no_such_item")
    /\ UNCHANGED <<tables, faults>>

\* What ON CONFLICT DO NOTHING lets through.
New(batch) == {a \in batch : ~Recorded(a.item)}

\* Mutant: attempts declared without its foreign keys.
NoForeignKeys(r, landing) == landing = landing

\* attempts' references to players and offline_packs, for the rows that land.
ForeignKeysHold(r, landing) ==
    \A a \in landing : owner[PackOf[a.item]] = req[r].player

\* INSERT ... ON CONFLICT DO NOTHING RETURNING.  A row that lands must find
\* its player and its pack (the foreign keys); a row another open transaction
\* is inserting for the same item is waited for.
Insert(r) ==
    LET landing == New(req[r].batch)
    IN  /\ req[r].phase = "resolved"
        /\ \A o \in Requests \ {r} :
              req[o].phase \in Inserting
                 => ItemsOf(req[o].landed) \cap ItemsOf(req[r].batch) = {}
        /\ IF ForeignKeysHold(r, landing)
             THEN Becomes(r, [req[r] EXCEPT !.phase = "inserted",
                                            !.landed = landing])
             ELSE Answer(r, "failed")
        /\ UNCHANGED <<tables, faults>>

\* Mutant: rating what was submitted.
SubmittedRows(r) == req[r].batch

\* landedRows: what the rating is given.
LandedRows(r) == req[r].landed

\* storedSkills: the rows of the skills that landed.
ReadSkills(r) ==
    LET touched == {SkillOf[i] : i \in ItemsOf(LandedRows(r))}
    IN  /\ req[r].phase = "inserted"
        /\ LandedRows(r) # {}
        /\ Becomes(r, [req[r] EXCEPT
               !.phase = "readSkills",
               !.skillRead = [i \in Items |->
                                 IF /\ owner[PackOf[i]] = req[r].player
                                    /\ SkillOf[i] \in touched
                                   THEN rated[i] ELSE 0]])
        /\ UNCHANGED <<tables, faults>>

\* --- rateAttempts ---------------------------------------------------------

SamePeriod(a, b) ==
    a.session = b.session /\ SkillOf[a.item] = SkillOf[b.item]

\* The last answer of the period ends it.
EndedBy(landed, a, t) ==
    /\ \E b \in landed : SamePeriod(a, b) /\ b.at = t
    /\ \A b \in landed : SamePeriod(a, b) => b.at <= t

\* ratingPeriods' order: by the instant the period ended, then by its key.
Earlier(landed, a, b) ==
    \E s, t \in {x.at : x \in landed} :
        /\ EndedBy(landed, a, s)
        /\ EndedBy(landed, b, t)
        /\ \/ s < t
           \/ s = t /\ a.session < b.session
           \/ /\ s = t /\ a.session = b.session
              /\ SkillOf[a.item] < SkillOf[b.item]

\* The answers that move the player: those whose class had a rating when their
\* period was rated, from the table or from an earlier period of the batch.
\* The rest calibrate their class, or are at no step at all.
Moving(landed, classRead) ==
    {a \in landed :
        /\ Placed(a.item)
        /\ \/ \E i \in InClass(ClassOf(a.item)) : classRead[i] > 0
           \/ \E b \in landed : /\ Placed(b.item)
                                /\ ClassOf(b.item) = ClassOf(a.item)
                                /\ Earlier(landed, b, a)}

\* The classes the batch measured, in an order rateAttempts may meet them:
\* period by period, and within a period in the batch's own order.
MetOrders(landed) ==
    LET met == {ClassOf(i) : i \in {j \in ItemsOf(landed) : Placed(j)}}
        FirstMet(c, d) ==
            \E a \in landed :
               /\ Placed(a.item) /\ ClassOf(a.item) = c
               /\ \A b \in landed :
                     (Placed(b.item) /\ ClassOf(b.item) = d)
                        => Earlier(landed, a, b)
    IN  {order \in [1..Cardinality(met) -> met] :
            \A m, n \in 1..Cardinality(met) :
               m < n => /\ order[m] # order[n]
                        /\ ~FirstMet(order[n], order[m])}

\* measuredDifficulties, and the computation that follows it.
ReadClasses(r) ==
    LET met == {ClassOf(i) : i \in {j \in ItemsOf(LandedRows(r)) : Placed(j)}}
    IN  /\ req[r].phase = "readSkills"
        /\ \E order \in MetOrders(LandedRows(r)) :
              Becomes(r, [req[r] EXCEPT
                  !.phase = "readClasses",
                  !.classRead = [i \in Items |->
                                    IF Placed(i) /\ ClassOf(i) \in met
                                      THEN taught[i] ELSE 0],
                  !.todo = order])
        /\ UNCHANGED <<tables, faults>>

\* writeSkills: the upsert's values are fixed here; it waits for nobody, the
\* advisory lock having kept every other writer of these rows away.
WriteSkills(r) ==
    /\ req[r].phase = "readClasses"
    /\ Advance(r, "wroteSkills")
    /\ UNCHANGED <<tables, faults>>

HeldBy(o, c) == c \in req[o].written

\* writeDifficulties, one row of the statement at a time: the row is locked
\* until the transaction ends.
WriteClass(r) ==
    /\ req[r].phase = "wroteSkills"
    /\ req[r].todo # <<>>
    /\ \A o \in Requests \ {r} : ~HeldBy(o, Head(req[r].todo))
    /\ Becomes(r, [req[r] EXCEPT !.written = @ \cup {Head(req[r].todo)},
                                 !.todo = Tail(@)])
    /\ UNCHANGED <<tables, faults>>

\* writeSessionDeltas: added to whatever the row holds by then.
WriteDeltas(r) ==
    /\ req[r].phase = "wroteSkills"
    /\ req[r].todo = <<>>
    /\ Advance(r, "wroteClasses")
    /\ UNCHANGED <<tables, faults>>

One(answers, i) == IF i \in ItemsOf(answers) THEN 1 ELSE 0

\* The three tables as the transaction's writes leave them.
RatedAfter(r) ==
    LET moving == Moving(LandedRows(r), req[r].classRead)
        moved == {SkillOf[a.item] : a \in moving}
    IN  [i \in Items |->
            IF owner[PackOf[i]] = req[r].player /\ SkillOf[i] \in moved
              THEN req[r].skillRead[i] + One(moving, i)
              ELSE rated[i]]

TaughtAfter(r) ==
    [i \in Items |->
        IF Placed(i) /\ ClassOf(i) \in req[r].written
          THEN req[r].classRead[i] + One(LandedRows(r), i)
          ELSE taught[i]]

\* Mutant: a conflict clause that replaces where it should add.
DeltasReplaced(r) ==
    LET moving == Moving(LandedRows(r), req[r].classRead)
    IN  [s \in Sessions |->
            IF \E a \in moving : a.session = s
              THEN [i \in Items |-> One({a \in moving : a.session = s}, i)]
              ELSE deltas[s]]

DeltasAfter(r) ==
    LET moving == Moving(LandedRows(r), req[r].classRead)
    IN  [s \in Sessions |->
            [i \in Items |->
                deltas[s][i] + One({a \in moving : a.session = s}, i)]]

\* COMMIT, and the verdicts of the whole batch as the answer.  A batch that
\* landed nothing is not rated at all and comes here straight from Insert.
Commit(r) ==
    /\ \/ req[r].phase = "wroteClasses"
       \/ req[r].phase = "inserted" /\ LandedRows(r) = {}
    /\ attempts' = attempts \cup
          {[player |-> req[r].player, answer |-> a] : a \in req[r].landed}
    /\ rated' = RatedAfter(r)
    /\ taught' = TaughtAfter(r)
    /\ deltas' = DeltasAfter(r)
    /\ Answer(r, "verdicts")
    /\ UNCHANGED <<linked, owner, faults>>

\* Postgres kills one of the transactions that wait for each other in a ring.
WaitsFor(r, o) ==
    /\ req[r].phase = "wroteSkills"
    /\ req[r].todo # <<>>
    /\ HeldBy(o, Head(req[r].todo))
DeadlockVictim(r) ==
    /\ \E ring \in SUBSET Requests :
          /\ r \in ring
          /\ \A x \in ring : \E y \in ring \ {x} : WaitsFor(x, y)
          /\ \A x \in ring : \E y \in ring \ {x} : WaitsFor(y, x)
    /\ Answer(r, "failed")
    /\ UNCHANGED <<tables, faults>>

\* A connection lost, a process killed, a statement that threw.
Fail(r) ==
    /\ req[r].phase \notin {"idle", "done"}
    /\ faults < MaxFaults
    /\ faults' = faults + 1
    /\ Answer(r, "failed")
    /\ UNCHANGED tables

Handler(r) ==
    \/ FindPlayer(r) \/ Lock(r) \/ Resolve(r) \/ Insert(r)
    \/ ReadSkills(r) \/ ReadClasses(r) \/ WriteSkills(r) \/ WriteClass(r)
    \/ WriteDeltas(r) \/ Commit(r) \/ DeadlockVictim(r)

Next ==
    \/ \E p \in Players : \/ Link(p) \/ Erase(p)
                          \/ \E k \in Packs : IssuePack(p, k)
    \/ \E r \in Requests :
          \/ \E p \in Players, batch \in Batches : Receive(r, p, batch)
          \/ Handler(r)
          \/ Fail(r)

Spec == Init /\ [][Next]_vars

\* The event loop runs a handler that can run, and Postgres grants a lock its
\* holder has released; nobody has to send a request.
FairSpec == Spec /\ \A r \in Requests : WF_vars(Handler(r))

-----------------------------------------------------------------------------
(* Properties                                                              *)

RequestType ==
    [phase : Phases, player : Players \cup {NoPlayer}, batch : SUBSET Answers,
     landed : SUBSET Answers, skillRead : [Items -> Nat],
     classRead : [Items -> Nat], todo : Seq(Classes), written : SUBSET Classes,
     status : Statuses]

\* Every table and every request holds what its columns can hold.
TypeOK ==
    /\ linked \in SUBSET Players
    /\ owner \in [Packs -> Players \cup {NoPlayer, Gone}]
    /\ attempts \in SUBSET [player : Players, answer : Answers]
    /\ rated \in [Items -> Nat]
    /\ taught \in [Items -> Nat]
    /\ deltas \in [Sessions -> [Items -> Nat]]
    /\ req \in [Requests -> RequestType]
    /\ \A r \in Requests :
          req[r].phase \notin {"idle", "done"} => req[r].player \in Players
    /\ faults \in Nat

\* An item is answered once: two devices that flush the same item at the same
\* time, or one that resends a batch whose answer was lost, leave one row
\* (insertAttempts' ON CONFLICT over migration 0004's unique indexes).
AnsweredOnce ==
    \A a, b \in attempts : a.answer.item = b.answer.item => a = b

\* No answer moves a rating twice, and none moves it without being on record
\* (landedRows: only what landed is rated).
RatedOnce ==
    \A i \in Items : rated[i] <= 1 /\ (rated[i] = 1 => Recorded(i))

\* Every movement of a rating is reported by exactly one session of history:
\* the one its recorded answer belongs to (writeSessionDeltas adds, and is in
\* the transaction of the rating it describes).
DeltasExplainRatings ==
    \A i \in Items, s \in Sessions :
        deltas[s][i] =
            IF \E row \in attempts :
                  row.answer.item = i /\ row.answer.session = s
              THEN rated[i] ELSE 0

\* Nothing is kept of a player who is gone, although a batch of theirs may
\* have been half way through when DELETE /me arrived.
NothingOfTheErased ==
    /\ \A row \in attempts : row.player \in linked
                             /\ owner[PackOf[row.answer.item]] = row.player
    /\ \A i \in Items : owner[PackOf[i]] \notin linked => rated[i] = 0

\* A batch is one answer: a request answered with verdicts has, at that
\* moment, every item of the batch on record, except what DELETE /me has taken
\* since; one answered with anything else has added nothing.
WholeBatchOrNone ==
    [][\A r \in Requests :
          req'[r].phase = "done" /\ req[r].phase # "done" =>
             IF req'[r].status = "verdicts"
               THEN \A i \in ItemsOf(req[r].batch) :
                       \/ owner[PackOf[i]] = Gone
                       \/ \E row \in attempts' : row.answer.item = i
               ELSE attempts' = attempts /\ rated' = rated]_vars

\* A row of attempts is never rewritten, and a player's rating never loses an
\* observation to a concurrent batch, unless the player is erased (the
\* advisory lock is taken before the first read).
NothingLost ==
    [][\A p \in Players :
          (p \in linked' =>
             /\ {row \in attempts : row.player = p} \subseteq attempts'
             /\ \A i \in Items :
                   owner[PackOf[i]] = p => rated'[i] >= rated[i])]_vars

\* Every request is answered: waiting for the advisory lock or for a class's
\* row is never for ever, not even when two batches meet two classes in
\* opposite orders.
EveryRequestAnswered ==
    \A r \in Requests : req[r].phase = "received" ~> req[r].phase = "done"

\* The abstract log: its rows are the table's and a row has counted when its
\* item has moved the rating.
Log == INSTANCE AttemptLog WITH
          log <- attempts,
          counted <- {row \in attempts : rated[row.answer.item] > 0}
LogSpec == Log!LogSpec

\* What applyRating says of itself, "the player and the difficulty classes are
\* measured against each other, so they are read and written together": every
\* recorded answer that is at a step is in its class's rating.
ClassesKeepEveryGame ==
    \A row \in attempts :
        Placed(row.answer.item) => taught[row.answer.item] = 1

=============================================================================
