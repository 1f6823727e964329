------------------------------ MODULE Retention ------------------------------
(***************************************************************************)
(* The retention job (retention.ts, adapters/retention-job.ts) beside the  *)
(* request path: five deletes, each a statement of its own, while a batch  *)
(* of late answers is being recorded, and what GET /me/history reads of    *)
(* what is left (adapters/history-repository.ts).                          *)
(*                                                                         *)
(* One player; days instead of milliseconds.  READ COMMITTED: a statement  *)
(* decides on the rows that had committed when it began, waits for the     *)
(* rows another transaction holds, and a row that was only locked, or      *)
(* updated without ceasing to qualify, is then deleted: the NOT EXISTS is  *)
(* not asked again of the attempts that committed meanwhile.               *)
(***************************************************************************)
EXTENDS Integers, FiniteSets

CONSTANTS
    Packs,          \* offline_packs
    Items,          \* (pack, index) addresses
    PackOf, SessionOf, SkillOf,     \* of an item's answer
    Moving,         \* the items whose answers move a rating
    PackLife,       \* PACK_LIFETIME_MS
    KeepAttempts,   \* RETENTION_DAYS.attempts
    KeepSources,    \* RETENTION_DAYS.sources
    MaxLate,        \* bound: how long after a pack's end a device still syncs
    LastDay,        \* bound
    MaxDeaths,      \* bound: nights the job dies in
    None, Gone      \* not there yet, swept

VARIABLES
    day,
    packs,      \* expires_at, by pack, or None, or Gone
    attempts,   \* created_at, by item, or None
    deltas,     \* session_deltas: [created, moved], by session and skill
    batch,      \* the open POST /attempts: one at a time, by the player's lock
    sweep,      \* the job: its statement, its clock, the rows it has picked
    deaths

retentionVars == <<day, packs, attempts, deltas, batch, sweep, deaths>>

Sessions == {SessionOf[i] : i \in Items}
Skills == {SkillOf[i] : i \in Items}
Keys == Sessions \X Skills
Key(i) == <<SessionOf[i], SkillOf[i]>>
NoDelta == [created |-> None, moved |-> {}]

ASSUME NumbersAssumption ==
    /\ {PackLife, KeepAttempts, KeepSources, MaxLate, LastDay,
        MaxDeaths} \subseteq Nat
    /\ None \notin Int /\ Gone \notin Int /\ None # Gone
ASSUME ItemsAssumption ==
    /\ PackOf \in [Items -> Packs]
    /\ DOMAIN SessionOf = Items /\ DOMAIN SkillOf = Items
    /\ Moving \subseteq Items

Idle == [phase |-> "idle", items |-> {}, began |-> 0]
Resting == [pc |-> "off", now |-> 0, picked |-> {}]

RetentionInit ==
    /\ day = 0
    /\ packs = [k \in Packs |-> None]
    /\ attempts = [i \in Items |-> None]
    /\ deltas = [k \in Keys |-> NoDelta]
    /\ batch = Idle
    /\ sweep = Resting
    /\ deaths = 0

Held(k) == packs[k] \notin {None, Gone}

rows == <<packs, attempts, deltas>>

\* A day passes.  No transaction is open for more than one midnight.
Tick ==
    /\ day < LastDay
    /\ batch.phase # "idle" => batch.began = day
    /\ day' = day + 1
    /\ UNCHANGED <<rows, batch, sweep, deaths>>

IssuePack(k) ==
    /\ packs[k] = None
    /\ day + PackLife + MaxLate < LastDay
    /\ packs' = [packs EXCEPT ![k] = day + PackLife]
    /\ UNCHANGED <<day, attempts, deltas, batch, sweep, deaths>>

-----------------------------------------------------------------------------
(* POST /attempts, as far as these tables go.                              *)

\* BEGIN and the sources: "an expired pack still grades".
Resolve(items) ==
    /\ batch.phase = "idle"
    /\ items # {}
    /\ \A i \in items :
          Held(PackOf[i]) /\ day <= packs[PackOf[i]] + MaxLate
    /\ batch' = [phase |-> "resolved", items |-> items, began |-> day]
    /\ UNCHANGED <<day, rows, sweep, deaths>>

\* INSERT ... ON CONFLICT DO NOTHING: the rows lock their packs until the end,
\* and one whose pack has gone fails its foreign key.
Insert ==
    LET landing == {i \in batch.items : attempts[i] = None}
    IN  /\ batch.phase = "resolved"
        /\ batch' = IF \A i \in landing : Held(PackOf[i])
                      THEN [batch EXCEPT !.phase = "inserted",
                                         !.items = landing]
                      ELSE Idle
        /\ UNCHANGED <<day, rows, sweep, deaths>>

\* now() is the instant the transaction began.
Created(i) == batch.began

\* writeSessionDeltas and COMMIT.  The upsert adds to a row that is there and
\* leaves its created_at alone.
CommitBatch ==
    /\ batch.phase = "inserted"
    /\ attempts' = [i \in Items |-> IF i \in batch.items THEN Created(i)
                                                         ELSE attempts[i]]
    /\ deltas' = [k \in Keys |->
          LET moved == {i \in batch.items \cap Moving : Key(i) = k}
          IN  IF moved = {} THEN deltas[k]
              ELSE [created |-> IF deltas[k].created = None
                                  THEN batch.began ELSE deltas[k].created,
                    moved |-> deltas[k].moved \cup moved]]
    /\ batch' = Idle
    /\ UNCHANGED <<day, packs, sweep, deaths>>

Abort == batch' = Idle /\ UNCHANGED <<day, rows, sweep, deaths>>

-----------------------------------------------------------------------------
(* runRetention                                                            *)

Before(t, kept) == t \notin {None, Gone} /\ t < sweep.now - kept
Answered(i) == attempts[i] # None
Attempted(s) == \E i \in Items : Answered(i) /\ SessionOf[i] = s

\* Mutant: a job that is run once.
StartOnce ==
    /\ sweep.pc = "off"
    /\ sweep' = [pc |-> "attempts", now |-> day, picked |-> {}]
    /\ UNCHANGED <<day, rows, batch, deaths>>

StartSweep ==
    /\ sweep.pc \in {"off", "done"}
    /\ sweep' = [pc |-> "attempts", now |-> day, picked |-> {}]
    /\ UNCHANGED <<day, rows, batch, deaths>>

At(pc) == sweep.pc = pc
GoTo(pc) == sweep' = [sweep EXCEPT !.pc = pc, !.picked = {}]

\* Taking attempts away, by their own statement or with their pack.
Cascade(gone) ==
    attempts' = [i \in Items |-> IF i \in gone THEN None ELSE attempts[i]]

\* The first statement, on diag_events, finds a table nothing writes yet.
DeleteAttempts ==
    /\ At("attempts")
    /\ Cascade({i \in Items : Before(attempts[i], KeepAttempts)})
    /\ GoTo("deltas")
    /\ UNCHANGED <<day, packs, deltas, batch, deaths>>

\* Mutant: a delta swept by its age alone.
DeltaAlone(k) == Before(deltas[k].created, KeepAttempts)

DeltaExpired(k) ==
    Before(deltas[k].created, KeepAttempts) /\ ~Attempted(k[1])

\* The statement picks its rows ...
PickDeltas ==
    /\ At("deltas")
    /\ sweep' = [sweep EXCEPT !.pc = "deltasPicked",
                              !.picked = {k \in Keys : DeltaExpired(k)}]
    /\ UNCHANGED <<day, rows, batch, deaths>>

\* ... and deletes them, once nobody holds one.
DeleteDeltas ==
    /\ At("deltasPicked")
    /\ batch.phase = "inserted" =>
          \A i \in batch.items \cap Moving : Key(i) \notin sweep.picked
    /\ deltas' = [k \in Keys |-> IF k \in sweep.picked THEN NoDelta
                                                       ELSE deltas[k]]
    /\ GoTo("packs")
    /\ UNCHANGED <<day, packs, attempts, batch, deaths>>

\* Mutant: a pack swept by its date alone.
PackAlone(k) == Before(packs[k], KeepSources)
PackExpired(k) ==
    /\ Before(packs[k], KeepSources)
    /\ \A i \in Items : PackOf[i] = k => ~Answered(i)

PickPacks ==
    /\ At("packs")
    /\ sweep' = [sweep EXCEPT !.pc = "packsPicked",
                              !.picked = {k \in Packs : PackExpired(k)}]
    /\ UNCHANGED <<day, rows, batch, deaths>>

\* The last statement, DELETE FROM issued_items, finds an empty table.
DeletePacks ==
    /\ At("packsPicked")
    /\ batch.phase = "inserted" =>
          \A i \in batch.items : PackOf[i] \notin sweep.picked
    /\ packs' = [k \in Packs |-> IF k \in sweep.picked THEN Gone ELSE packs[k]]
    /\ Cascade({i \in Items : PackOf[i] \in sweep.picked})
    /\ GoTo("done")
    /\ UNCHANGED <<day, deltas, batch, deaths>>

Sweep ==
    \/ DeleteAttempts \/ PickDeltas \/ DeleteDeltas \/ PickPacks
    \/ DeletePacks

\* The job's process dies: each statement was its own transaction.
SweepDies ==
    /\ sweep.pc \notin {"off", "done"}
    /\ deaths < MaxDeaths
    /\ deaths' = deaths + 1
    /\ sweep' = Resting
    /\ UNCHANGED <<day, rows, batch>>

Batch == Insert \/ CommitBatch

RetentionNext ==
    \/ Tick
    \/ \E k \in Packs : IssuePack(k)
    \/ \E items \in SUBSET Items : Resolve(items)
    \/ Batch
    \/ batch.phase # "idle" /\ Abort
    \/ StartSweep \/ Sweep \/ SweepDies

RetentionSpec == RetentionInit /\ [][RetentionNext]_retentionVars

\* The job is started every night (.github/workflows/retention.yml), and
\* Postgres runs what it is asked.
FairRetention ==
    /\ RetentionSpec
    /\ WF_retentionVars(Batch)
    /\ WF_retentionVars(StartSweep) /\ WF_retentionVars(Sweep)

-----------------------------------------------------------------------------
(* GET /me/history                                                         *)

\* recentSessions: a session is an entry while an answer of it is on record;
\* its number is its one skill's delta, and a mixed session has none.
Listed(s) == {i \in Items : Answered(i) /\ SessionOf[i] = s}
Entry(s) ==
    LET skills == {SkillOf[i] : i \in Listed(s)}
    IN  [total |-> Cardinality(Listed(s)),
         moved |-> UNION {deltas[<<s, k>>].moved :
                             k \in {x \in skills : skills = {x}}}]

-----------------------------------------------------------------------------
(* Properties                                                              *)

\* Rows hold what their columns can, and nothing is dated in the future.
RetentionTypeOK ==
    /\ day \in 0..LastDay
    /\ packs \in [Packs -> Nat \cup {None, Gone}]
    /\ attempts \in [Items -> (0..day) \cup {None}]
    /\ deltas \in [Keys -> [created : (0..day) \cup {None},
                            moved : SUBSET Moving]]
    /\ batch \in [phase : {"idle", "resolved", "inserted"},
                  items : SUBSET Items, began : 0..day]
    /\ sweep \in [pc : {"off", "attempts", "deltas", "deltasPicked",
                        "packs", "packsPicked", "done"},
                  now : 0..day,
                  picked : (SUBSET Packs) \cup (SUBSET Keys)]
    /\ deaths \in 0..MaxDeaths

\* No answer goes before its time, neither by its own statement nor with its
\* pack ("the exact opposite of what a retention job is for").
OnlyExpiredAnswersGo ==
    [][\A i \in Items :
          attempts[i] # None /\ attempts'[i] = None
             => Before(attempts[i], KeepAttempts)]_retentionVars

\* A session that is still reported keeps its number: the answers an entry
\* lists are all in it ("while any attempt of the session survives, the entry
\* still appears and it keeps its number").
EntriesKeepTheirNumber ==
    \A s \in Sessions :
        LET skills == {SkillOf[i] : i \in Listed(s)}
        IN  Cardinality(skills) = 1 => Listed(s) \cap Moving \subseteq Entry(s).moved

\* An answer a device may still send finds its pack: none is stranded by a
\* sweep ("a pack outlives every attempt that could reference it").
NoAnswerStranded ==
    [][\A k \in Packs :
          Held(k) /\ packs'[k] = Gone => day > packs[k] + MaxLate]_retentionVars

\* What has expired goes, although a night's job may die half way.
ExpiredGoes ==
    \A i \in Items :
        (attempts[i] # None /\ attempts[i] < day - KeepAttempts)
           ~> attempts[i] = None

=============================================================================
