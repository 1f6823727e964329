------------------------------ MODULE AttemptLog ------------------------------
(***************************************************************************)
(* What POST /attempts promises, with no transaction, lock or statement in *)
(* sight: a log that keeps the first answer to each item, takes a batch    *)
(* whole or not at all, and moves a rating only for an answer it has just  *)
(* taken.  Ingest implements it; Sync's server is this log with one        *)
(* player, and an item's key for an answer.                                *)
(***************************************************************************)
EXTENDS Naturals, FiniteSets

CONSTANTS
    Players,    \* players(id)
    Answers     \* what a client may submit: [item, session, at, ok]

VARIABLES
    log,        \* the rows of attempts: [player, answer]
    counted     \* the rows that moved their player's rating

absVars == <<log, counted>>

Row == [player : Players, answer : Answers]

\* The part of a batch that is news to a log: first answer wins, per item.
Fresh(rows, p, batch) ==
    {[player |-> p, answer |-> a] :
        a \in {b \in batch : \A row \in rows : row.answer.item # b.item}}

LogInit ==
    /\ log = {}
    /\ counted = {}

\* One accepted batch.  Which of the new rows move the rating is the rating's
\* business (an item of an unmeasured class moves nobody); that no old row does
\* is the promise.
Record(p, batch) ==
    /\ \A a, b \in batch : a.item = b.item => a = b
    /\ log' = log \cup Fresh(log, p, batch)
    /\ \E moved \in SUBSET Fresh(log, p, batch) : counted' = counted \cup moved

\* Erasure: DELETE /me takes every row of the player and nobody else's.
Forget(p) ==
    /\ log' = {row \in log : row.player # p}
    /\ counted' = {row \in counted : row.player # p}

LogNext ==
    \E p \in Players :
        \/ \E batch \in SUBSET Answers : Record(p, batch)
        \/ Forget(p)

LogSpec == LogInit /\ [][LogNext]_absVars

=============================================================================
