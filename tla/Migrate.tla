------------------------------- MODULE Migrate -------------------------------
(***************************************************************************)
(* The migration runner (migrate.ts, adapters/migrate-runner.ts,           *)
(* cli/migrate.ts): deploy pods that start together, each with the         *)
(* directory its image carries, against one database.                      *)
(*                                                                         *)
(* A file is its name and its bytes, and SHA-256 is taken as injective, so *)
(* a ledger row and a file are the same record.  Names are numbers: they   *)
(* are zero-padded so that lexicographic order is numeric order.  What a   *)
(* file does to the database is that it has been done: schema is the       *)
(* committed files in the order they were committed.                       *)
(***************************************************************************)
EXTENDS Integers, FiniteSets, Sequences, Functions

CONSTANTS
    Runners,        \* processes of cli/migrate.ts
    Names,          \* file names, as numbers
    Contents,       \* the bytes a file may hold
    Directories,    \* the directories images carry: name -> bytes
    Raising,        \* files the database raises on, whoever runs them
    NoRunner, NoFile, NoDirectory,
    MaxStarts       \* bound: processes started, restarts included

VARIABLES
    schema,     \* the files whose effects have committed, in order
    ledger,     \* schema_migrations
    holder,     \* who holds the session's advisory lock
    pc,
    disk,       \* the directory of a runner's image
    left,       \* the plan: the names it has still to apply
    tx,         \* the file in its open transaction
    outcome,    \* how its last run ended
    starts

vars == <<schema, ledger, holder, pc, disk, left, tx, outcome, starts>>

Row == [name : Names, checksum : Contents]
Rows(d) == {[name |-> n, checksum |-> d[n]] : n \in DOMAIN d}
NamesOf(rows) == {row.name : row \in rows}

ASSUME DirectoriesAssumption ==
    /\ Names \subseteq Nat
    /\ NoRunner \notin Runners
    /\ NoFile \notin Row
    /\ \A d \in Directories :
          DOMAIN d \subseteq Names /\ \A n \in DOMAIN d : d[n] \in Contents
ASSUME StartsAssumption == MaxStarts \in Nat

Locked == {"reading", "between", "executed", "recorded", "unlocking"}
Planned == {"between", "executed", "recorded"}
InTransaction == {"executed", "recorded"}
Outcomes == {"none", "applied", "refused", "raised", "clashed", "lost"}

Init ==
    /\ schema = <<>>
    /\ ledger = {}
    /\ holder = NoRunner
    /\ pc = [r \in Runners |-> "off"]
    /\ disk = [r \in Runners |-> NoDirectory]
    /\ left = [r \in Runners |-> {}]
    /\ tx = [r \in Runners |-> NoFile]
    /\ outcome = [r \in Runners |-> "none"]
    /\ starts = 0

database == <<schema, ledger>>

\* A pod starts, or is started again, and asks for the lock.
Start(r, d) ==
    /\ pc[r] = "off"
    /\ starts < MaxStarts
    /\ starts' = starts + 1
    /\ pc' = [pc EXCEPT ![r] = "queued"]
    /\ disk' = [disk EXCEPT ![r] = d]
    /\ outcome' = [outcome EXCEPT ![r] = "none"]
    /\ UNCHANGED <<database, holder, left, tx>>

\* pg_advisory_lock(MIGRATION_LOCK), the session's and not a transaction's.
Lock(r) ==
    /\ pc[r] = "queued"
    /\ holder = NoRunner
    /\ holder' = r
    /\ pc' = [pc EXCEPT ![r] = "reading"]
    /\ UNCHANGED <<database, disk, left, tx, outcome, starts>>

Ending(r, how) ==
    /\ pc' = [pc EXCEPT ![r] = "unlocking"]
    /\ outcome' = [outcome EXCEPT ![r] = how]
    /\ tx' = [tx EXCEPT ![r] = NoFile]

\* planMigrations: every file on record is on disk as it was, or it refuses;
\* what is left is what is not on record.
Agrees(d) == ledger \subseteq Rows(d)
Pending(d) == DOMAIN d \ NamesOf(ledger)

\* filesIn, appliedIn, planMigrations.
Plan(r) ==
    /\ pc[r] = "reading"
    /\ IF Agrees(disk[r])
         THEN /\ pc' = [pc EXCEPT ![r] = "between"]
              /\ left' = [left EXCEPT ![r] = Pending(disk[r])]
              /\ UNCHANGED <<tx, outcome>>
         ELSE Ending(r, "refused") /\ UNCHANGED left
    /\ UNCHANGED <<database, holder, disk, starts>>

\* Mutant: the files in the order the directory gave them.
ComesNext(r, n) == n \in left[r]

\* The plan is sorted by name.
IsNext(r, n) == n \in left[r] /\ \A m \in left[r] : n <= m

File(r, n) == [name |-> n, checksum |-> disk[r][n]]

\* BEGIN and the file's own statements.  They wait for another transaction
\* that is creating the same objects, raise when the objects are there, and
\* when the file itself is wrong; a raise is rolled back whole.
Execute(r) ==
    /\ pc[r] = "between"
    /\ \E n \in DOMAIN disk[r] :
          /\ IsNext(r, n)
          /\ \A o \in Runners \ {r} : tx[o] # NoFile => tx[o].name # n
          /\ IF n \in NamesOf(Range(schema))
               THEN Ending(r, "clashed")
               ELSE IF File(r, n) \in Raising
               THEN Ending(r, "raised")
               ELSE /\ pc' = [pc EXCEPT ![r] = "executed"]
                    /\ tx' = [tx EXCEPT ![r] = File(r, n)]
                    /\ UNCHANGED outcome
    /\ UNCHANGED <<database, holder, disk, left, starts>>

\* Mutant: the ledger written outside the file's transaction.
RecordAtOnce(r) ==
    /\ pc[r] = "executed"
    /\ ledger' = ledger \cup {tx[r]}
    /\ pc' = [pc EXCEPT ![r] = "recorded"]
    /\ UNCHANGED <<schema, holder, disk, left, tx, outcome, starts>>

\* INSERT INTO schema_migrations, in the same transaction: the name is its
\* primary key.
Record(r) ==
    /\ pc[r] = "executed"
    /\ IF tx[r].name \in NamesOf(ledger)
         THEN Ending(r, "clashed")
         ELSE pc' = [pc EXCEPT ![r] = "recorded"] /\ UNCHANGED <<tx, outcome>>
    /\ UNCHANGED <<database, holder, disk, left, starts>>

\* COMMIT: what the file did and the row that says so.
Commit(r) ==
    /\ pc[r] = "recorded"
    /\ schema' = Append(schema, tx[r])
    /\ ledger' = ledger \cup {tx[r]}
    /\ left' = [left EXCEPT ![r] = @ \ {tx[r].name}]
    /\ tx' = [tx EXCEPT ![r] = NoFile]
    /\ pc' = [pc EXCEPT ![r] = "between"]
    /\ UNCHANGED <<holder, disk, outcome, starts>>

Finish(r) ==
    /\ pc[r] = "between"
    /\ left[r] = {}
    /\ Ending(r, "applied")
    /\ UNCHANGED <<database, holder, disk, left, starts>>

\* Mutant: neither the finally nor the end of the session lets go.
KeepLocked(r) ==
    /\ pc[r] = "unlocking"
    /\ pc' = [pc EXCEPT ![r] = "off"]
    /\ UNCHANGED <<database, holder, disk, left, tx, outcome, starts>>

\* The finally, and cli/migrate.ts closing its connection.
Unlock(r) ==
    /\ pc[r] = "unlocking"
    /\ holder' = NoRunner
    /\ pc' = [pc EXCEPT ![r] = "off"]
    /\ UNCHANGED <<database, disk, left, tx, outcome, starts>>

\* The process or its connection dies.  Postgres rolls its transaction back
\* and lets its session's locks go.
Die(r) ==
    /\ pc[r] # "off"
    /\ pc' = [pc EXCEPT ![r] = "off"]
    /\ outcome' = [outcome EXCEPT ![r] = "lost"]
    /\ tx' = [tx EXCEPT ![r] = NoFile]
    /\ holder' = IF holder = r THEN NoRunner ELSE holder
    /\ UNCHANGED <<database, disk, left, starts>>

Step(r) ==
    \/ Lock(r) \/ Plan(r) \/ Execute(r) \/ Record(r) \/ Commit(r)
    \/ Finish(r) \/ Unlock(r)

Next ==
    \E r \in Runners :
       \/ \E d \in Directories : Start(r, d)
       \/ Step(r)
       \/ Die(r)

Spec == Init /\ [][Next]_vars

\* A process that can go on goes on, and Postgres grants a lock that is free.
FairSpec == Spec /\ \A r \in Runners : WF_vars(Step(r))

-----------------------------------------------------------------------------
(* Properties                                                              *)

TypeOK ==
    /\ schema \in Seq(Row)
    /\ ledger \in SUBSET Row
    /\ holder \in Runners \cup {NoRunner}
    /\ pc \in [Runners -> Locked \cup {"off", "queued"}]
    /\ disk \in [Runners -> Directories \cup {NoDirectory}]
    /\ \A r \in Runners : pc[r] # "off" => disk[r] \in Directories
    /\ left \in [Runners -> SUBSET Names]
    /\ tx \in [Runners -> Row \cup {NoFile}]
    /\ outcome \in [Runners -> Outcomes]
    /\ starts \in 0..MaxStarts

\* What schema_migrations says is what the database holds, each file once,
\* wherever a run or its connection died ("nothing of itself applied and is
\* not recorded, so re-running retries it whole").
RecordedIsBuilt ==
    /\ ledger = Range(schema)
    /\ \A i, j \in DOMAIN schema : schema[i].name = schema[j].name => i = j

\* No run fails on what another run created: "the loser fails on whatever it
\* tries to create second" is what the lock is there to rule out.
NoClash == \A r \in Runners : outcome[r] # "clashed"

\* A run that says it is done leaves everything its image carries applied as
\* the image has it, whichever runs died before it and whatever they left.
DoneIsWhole ==
    \A r \in Runners : outcome[r] = "applied" => Rows(disk[r]) \subseteq ledger

\* A file never runs before an earlier file of its own directory, nor on top
\* of a history its directory does not tell as it was (edited, or deleted).
OnlyOntoItsOwnPast ==
    [][\A r \in Runners :
          pc[r] = "recorded" /\ schema' # schema /\ tx'[r] # tx[r] =>
             /\ ledger \subseteq Rows(disk[r])
             /\ \A n \in DOMAIN disk[r] :
                   n < tx[r].name => File(r, n) \in ledger]_vars

\* Every run ends: a queue of pods drains, whichever of them die or raise.
EveryRunEnds == \A r \in Runners : pc[r] = "queued" ~> pc[r] = "off"

=============================================================================
