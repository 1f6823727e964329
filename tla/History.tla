-------------------------------- MODULE History --------------------------------
(***************************************************************************)
(* What Perfil shows of GET /me/history, and when it asks again.           *)
(*                                                                         *)
(* The roots that flush count, in the preferences, the batches the server  *)
(* said it recorded.  Perfil notes the count before it asks, and on a      *)
(* later visit asks again only if the count has moved: no clock, no        *)
(* message between the roots.  The count is read and written in two calls  *)
(* by two roots, and the answers come when they come.                      *)
(*                                                                         *)
(* A history is the number of batches of its account on record.  One that  *)
(* is empty and a player that does not exist yet (404) read alike.         *)
(***************************************************************************)
EXTENDS Naturals, Sequences, FiniteSets, SequencesExt

CONSTANTS
    Accounts,
    Flushers,    \* the roots that flush: Inicio and Mapa
    None,
    Orderly,     \* do the answers to two questions come in their order?
    PairsOpen,   \* bound: overlapping reads and writes of the count
    MaxFlushes,  \* bound: requests that carry a batch
    MaxAsks,     \* bound: questions open at a time
    MaxTokens,   \* bound: sign-ins and renewals
    MaxFaults    \* bound: requests that go wrong, and restarts

ASSUME ConstantsAssumption ==
    /\ None \notin Accounts /\ None \notin Nat
    /\ IsFiniteSet(Flushers)
    /\ Orderly \in BOOLEAN
    /\ PairsOpen \in Nat \ {0} /\ MaxAsks \in Nat \ {0}
    /\ MaxFlushes \in Nat /\ MaxTokens \in Nat /\ MaxFaults \in Nat

VARIABLES
    recorded,  \* server: batches on record, per account
    flushes,   \* how many there have been
    tally,     \* PrefsRecordedBatchStore
    counting,  \* countOne calls that have read and not written, in their order
    flusher,   \* one flush per root
    known,     \* history: what was on record for the batches counted so far
    account,   \* of widget.session
    tokens,    \* how many there have been
    showing,   \* is Perfil the root on screen?
    visit,     \* the count _askAgainIfABatchLanded has read
    asks,      \* _askForHistory calls, oldest first
    asked,     \* _recordedWhenAsked
    shown,     \* _history
    faults

batches == <<recorded, flushes, tally, counting, flusher, known>>
session == <<account, tokens>>
perfil == <<showing, visit, asks, asked, shown>>
vars == <<batches, session, perfil, faults>>

Idle == [phase |-> "idle", account |-> None, upto |-> 0]
Blank == [kind |-> "none", account |-> None, upto |-> 0]

Init ==
    /\ recorded = [a \in Accounts |-> 0]
    /\ flushes = 0
    /\ tally = 0
    /\ counting = <<>>
    /\ flusher = [f \in Flushers |-> Idle]
    /\ known = [a \in Accounts |-> 0]
    /\ account = None
    /\ tokens = 0
    /\ showing = FALSE
    /\ visit = None
    /\ asks = <<>>
    /\ asked = None
    /\ shown = Blank
    /\ faults = 0

Trouble == faults < MaxFaults /\ faults' = faults + 1

-----------------------------------------------------------------------------
(* AttemptSync.flush, as far as the count goes.                            *)

Flush(f) ==
    /\ flusher[f] = Idle
    /\ account # None
    /\ flushes < MaxFlushes
    /\ flushes' = flushes + 1
    /\ flusher' = [flusher EXCEPT ![f].phase = "sending",
                                  ![f].account = account]
    /\ UNCHANGED <<recorded, tally, counting, known, session, perfil, faults>>

\* POST /attempts: new rows, or none when another root sent the same journal
\* or the answer to an earlier request was lost.
Record(f) ==
    LET a == flusher[f].account
    IN  /\ flusher[f].phase = "sending"
        /\ \E new \in IF recorded[a] = 0 THEN {1} ELSE {0, 1} :
              /\ recorded' = [recorded EXCEPT ![a] = @ + new]
              /\ flusher' = [flusher EXCEPT ![f].phase = "recorded",
                                            ![f].upto = recorded[a] + new]
        /\ UNCHANGED <<flushes, tally, counting, known, session, perfil,
                       faults>>

\* The request, or its answer, is lost: the journal keeps the batch.
FlushLost(f) ==
    /\ flusher[f].phase \in {"sending", "recorded"}
    /\ Trouble
    /\ flusher' = [flusher EXCEPT ![f] = Idle]
    /\ UNCHANGED <<recorded, flushes, tally, counting, known, session, perfil>>

\* attemptsWereRecorded, and countOne up to its read.
CountRead(f) ==
    /\ flusher[f].phase = "recorded"
    /\ Len(counting) < PairsOpen
    /\ counting' = Append(counting, [root |-> f, seen |-> tally])
    /\ flusher' = [flusher EXCEPT ![f].phase = "counting"]
    /\ UNCHANGED <<recorded, flushes, tally, known, session, perfil, faults>>

\* countOne's write.
CountWrite ==
    /\ counting # <<>>
    /\ LET f == Head(counting).root
           a == flusher[f].account
       IN  /\ tally' = Head(counting).seen + 1
           /\ known' = [known EXCEPT ![a] = IF @ < flusher[f].upto
                                              THEN flusher[f].upto ELSE @]
           /\ flusher' = [flusher EXCEPT ![f] = Idle]
    /\ counting' = Tail(counting)
    /\ UNCHANGED <<recorded, flushes, session, perfil, faults>>

-----------------------------------------------------------------------------
(* ProfileRoute                                                            *)

\* Mutant: asks with no session to ask under.
AskAnyhow(a) ==
    /\ Len(asks) < MaxAsks
    /\ asks' = Append(asks, [phase |-> "reading", account |-> a,
                             seen |-> tally, upto |-> 0])

\* _askForHistory, up to its read of the count.
AskForHistory(a) ==
    IF a = None THEN UNCHANGED asks
    ELSE /\ Len(asks) < MaxAsks
         /\ asks' = Append(asks, [phase |-> "reading", account |-> a,
                                  seen |-> tally, upto |-> 0])

\* The count has come: it is noted, and the request goes out.  The
\* preferences answer in order.
Ask(i) ==
    /\ asks[i].phase = "reading"
    /\ \A j \in 1..i - 1 : asks[j].phase # "reading"
    /\ asked' = asks[i].seen
    /\ asks' = [asks EXCEPT ![i].phase = "sent"]
    /\ UNCHANGED <<batches, session, showing, visit, shown, faults>>

Serve(i) ==
    /\ asks[i].phase = "sent"
    /\ asks' = [asks EXCEPT ![i].phase = "found",
                            ![i].upto = recorded[asks[i].account]]
    /\ UNCHANGED <<batches, session, showing, visit, asked, shown, faults>>

GoWrong(i) ==
    /\ asks[i].phase = "sent"
    /\ Trouble
    /\ asks' = [asks EXCEPT ![i].phase = "failed"]
    /\ UNCHANGED <<batches, session, showing, visit, asked, shown>>

\* Mutant: the count noted when the answer comes.
ReceiveCounting(i) ==
    /\ asks[i].phase \in {"found", "failed"}
    /\ Orderly => i = 1
    /\ shown' = [kind |-> asks[i].phase, account |-> asks[i].account,
                 upto |-> asks[i].upto]
    /\ asks' = RemoveAt(asks, i)
    /\ asked' = tally
    /\ UNCHANGED <<batches, session, showing, visit, faults>>

\* The answer is drawn, whatever was asked or signed in since.
Receive(i) ==
    /\ asks[i].phase \in {"found", "failed"}
    /\ Orderly => i = 1
    /\ shown' = [kind |-> asks[i].phase, account |-> asks[i].account,
                 upto |-> asks[i].upto]
    /\ asks' = RemoveAt(asks, i)
    /\ UNCHANGED <<batches, session, showing, visit, asked, faults>>

Retry ==
    /\ account # None
    /\ shown.kind = "failed"
    /\ shown' = Blank
    /\ AskForHistory(account)
    /\ UNCHANGED <<batches, session, showing, visit, asked, faults>>

\* Mutants: asked once, when built; asked on every visit.
OutdatedOnce(seen) == asked = None
OutdatedAlways(seen) == TRUE

\* historyOutdated
Outdated(seen) == asked = None \/ seen # asked

\* The root comes to the front and reads the count.
Visit ==
    /\ ~showing
    /\ visit = None
    /\ showing' = TRUE
    /\ visit' = tally
    /\ UNCHANGED <<batches, session, asks, asked, shown, faults>>

VisitDecide ==
    /\ visit # None
    /\ visit' = None
    /\ IF Outdated(visit) THEN AskForHistory(account) ELSE UNCHANGED asks
    /\ UNCHANGED <<batches, session, showing, asked, shown, faults>>

Leave ==
    /\ showing
    /\ showing' = FALSE
    /\ UNCHANGED <<batches, session, visit, asks, asked, shown, faults>>

\* didUpdateWidget, under a session with another token or under none.
TokenChanges(a) ==
    /\ account' = a
    /\ shown' = Blank
    /\ AskForHistory(a)
    /\ UNCHANGED <<batches, showing, visit, asked, faults>>

\* The restored session, a renewal, or a sign-in: also over a session the
\* server refused.
NewToken(a) ==
    /\ tokens < MaxTokens
    /\ tokens' = tokens + 1
    /\ TokenChanges(a)

SignOut ==
    /\ account # None
    /\ TokenChanges(None)
    /\ UNCHANGED tokens

\* The app is killed: the count and the server are what is left.
Restart ==
    /\ account # None
    /\ Trouble
    /\ flusher' = [f \in Flushers |-> Idle]
    /\ counting' = <<>>
    /\ account' = None
    /\ showing' = FALSE
    /\ visit' = None
    /\ asks' = <<>>
    /\ asked' = None
    /\ shown' = Blank
    /\ UNCHANGED <<recorded, flushes, tally, known, tokens>>

Next ==
    \/ \E f \in Flushers :
          Flush(f) \/ Record(f) \/ FlushLost(f) \/ CountRead(f)
    \/ CountWrite
    \/ \E i \in DOMAIN asks : Ask(i) \/ Serve(i) \/ GoWrong(i) \/ Receive(i)
    \/ Retry
    \/ Visit \/ VisitDecide \/ Leave
    \/ \E a \in Accounts : NewToken(a)
    \/ SignOut
    \/ Restart

Spec == Init /\ [][Next]_vars

\* An await that can resume does, a question is answered or times out, and the
\* player goes on opening Perfil and leaving it.
FairSpec ==
    /\ Spec
    /\ WF_vars(\E i \in DOMAIN asks : Ask(i))
    /\ WF_vars(\E i \in DOMAIN asks : Serve(i))
    /\ WF_vars(\E i \in DOMAIN asks : Receive(i))
    /\ WF_vars(VisitDecide)
    /\ WF_vars(Visit) /\ WF_vars(Leave)

-----------------------------------------------------------------------------
(* Properties                                                              *)

FlusherStates ==
    [phase : {"idle", "sending", "recorded", "counting"},
     account : Accounts \cup {None}, upto : 0..MaxFlushes]
AskStates ==
    [phase : {"reading", "sent", "found", "failed"},
     account : Accounts, seen : Nat, upto : 0..MaxFlushes]

\* The types, and every question is asked under some account.
TypeOK ==
    /\ recorded \in [Accounts -> 0..MaxFlushes]
    /\ flushes \in 0..MaxFlushes
    /\ tally \in Nat
    /\ counting \in Seq([root : Flushers, seen : Nat])
    /\ flusher \in [Flushers -> FlusherStates]
    /\ known \in [Accounts -> 0..MaxFlushes]
    /\ account \in Accounts \cup {None}
    /\ tokens \in 0..MaxTokens
    /\ showing \in BOOLEAN
    /\ visit \in Nat \cup {None}
    /\ asks \in Seq(AskStates)
    /\ asked \in Nat \cup {None}
    /\ shown \in [kind : {"none", "found", "failed"},
                  account : Accounts \cup {None}, upto : 0..MaxFlushes]
    /\ faults \in 0..MaxFaults

AtRest == account # None /\ asks = <<>> /\ shown.kind = "found"

\* Silence is right: once no question is open, the history drawn is of the
\* account signed in, whichever was when it was asked for; and when the count
\* gives a visit no reason to ask, it has every batch of that account that was
\* counted ("a batch recorded while this request is in flight ... shows up as a
\* difference on the next visit"), although two roots' counts may overwrite each
\* other.
SilenceIsRight ==
    AtRest =>
        /\ shown.account = account
        /\ asked = tally => shown.upto >= known[account]

\* Perfil catches up, whenever batches were counted: while a player stays signed
\* in, the history drawn comes to have all that were by then, or the screen says
\* that it could not be read.
HistoryCatchesUp ==
    account # None
       ~> \/ account = None
          \/ shown.kind = "failed"
          \/ /\ shown.kind = "found"
             /\ shown.account = account
             /\ shown.upto >= known[account]

\* Opening Perfil does not ask for ever: when batches and tokens are over, the
\* requests are too ("a root that asked on every visit would send a request per
\* tab switch for ever").
AsksDieDown == <>[](asks = <<>>)

=============================================================================
