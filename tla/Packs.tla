--------------------------------- MODULE Packs ---------------------------------
(***************************************************************************)
(* The pack a linked device plays.  Inicio asks the server for one when a  *)
(* token or the account moves, and keeps its id; Mapa fetches what Inicio  *)
(* recorded.  The server keeps a row per pack it issued and rebuilds the   *)
(* pack from the content it ships.                                         *)
(*                                                                         *)
(* The preferences are read and written over a channel that is first in,   *)
(* first out: a read has its effect when it is called, and is answered     *)
(* before a write called later is.                                         *)
(*                                                                         *)
(* A pack nobody on the device names any more cannot be asked for again,   *)
(* so its id stands for a new one, and an issue served after its answer    *)
(* was lost is no step here.                                               *)
(***************************************************************************)
EXTENDS Naturals

CONSTANTS
    None,
    Accounts,
    PackIds,
    Asks,         \* the home's requests that may be open at once
    Fetches,      \* the map's
    Settled,      \* whether people start the app anew before they change
                  \* accounts or come back to one they erased
    MaxShips,     \* bound: versions of the content the server ships
    MaxTrouble    \* bound: requests that go wrong

VARIABLES
    session,      \* the account signed in
    linked,       \* whether the device's AccountState is linked
    players,      \* accounts that have a player
    rows,         \* offline_packs: [owner, content]
    lapsed,       \* packs past their expires_at
    shipped,      \* the version of the content the build ships
    disk,         \* akimath.issued_pack.v1
    home,         \* HomeRoute._issued
    map,          \* MapRoute._issued
    calls,
    trouble

vars == <<session, linked, players, rows, lapsed, shipped, disk, home, map,
          calls, trouble>>
server == <<players, rows, lapsed, shipped>>
roots == <<home, map>>

ASSUME ConstantsAssumption ==
    /\ None \notin Accounts \cup PackIds /\ Asks \cap Fetches = {}
    /\ None \notin {"reading", "fetch", "issue", "done", "gone", "failed"}
    /\ None \notin [owner : Accounts, content : Nat]
    /\ Settled \in BOOLEAN
    /\ MaxShips \in Nat /\ MaxTrouble \in Nat

Calls == Asks \cup Fetches
Quiet == [what |-> None, account |-> None, pack |-> None,
          reply |-> None, written |-> FALSE]

\* A new device, or one that was issued a pack before.
Init ==
    /\ session = None
    /\ linked = FALSE
    /\ players \in SUBSET Accounts
    /\ shipped = 1
    /\ disk \in PackIds \cup {None}
    /\ rows \in [PackIds -> {None} \cup [owner : players, content : {1}]]
    /\ \A k \in PackIds \ {disk} : rows[k] = None
    /\ lapsed \in SUBSET ({disk} \ {None})
    /\ home = None /\ map = None
    /\ calls = [c \in Calls |-> Quiet]
    /\ trouble = 0

-----------------------------------------------------------------------------
(* The server.                                                             *)

\* getOfflinePack: packFor is scoped to the player, and the content the row
\* names must be the content this build ships.  expires_at is not read.
Holds(a, k) ==
    /\ a \in players
    /\ rows[k] # None /\ rows[k].owner = a /\ rows[k].content = shipped

\* Ids the device names; any other is as good as new.
Named == {disk, home, map} \cup {calls[c].pack : c \in Calls}

Answer(c, reply, k) ==
    calls' = [calls EXCEPT ![c].reply = reply, ![c].pack = k]

ServeFetch(c) ==
    /\ calls[c].what = "fetch" /\ calls[c].reply = None
    /\ LET k == calls[c].pack
       IN  Answer(c, IF Holds(calls[c].account, k) THEN "done" ELSE "gone", k)
    /\ UNCHANGED <<session, linked, server, disk, roots, trouble>>

\* issuePack
ServeIssue(c) ==
    /\ calls[c].what = "issue" /\ calls[c].reply = None
    /\ LET a == calls[c].account
       IN  \/ /\ a \notin players
              /\ Answer(c, "failed", None)
              /\ UNCHANGED <<rows, lapsed>>
           \/ /\ a \in players
              /\ PackIds \ Named # {}
              /\ LET k == CHOOSE new \in PackIds \ Named : TRUE IN
                    /\ rows' = [rows EXCEPT ![k] =
                                   [owner |-> a, content |-> shipped]]
                    /\ lapsed' = lapsed \ {k}
                    /\ Answer(c, "done", k)
    /\ UNCHANGED <<session, linked, players, shipped, disk, roots, trouble>>

\* No answer, a 401 or a 500; the map takes any answer but a pack for silence.
GoWrong(c) ==
    /\ trouble < MaxTrouble
    /\ trouble' = trouble + 1
    /\ calls[c].what \in {"fetch", "issue"} /\ ~calls[c].written
    /\ Answer(c, "failed", calls[c].pack)
    /\ UNCHANGED <<session, linked, server, disk, roots>>

\* Thirty days have gone by.
Lapse(k) ==
    /\ k \in Named /\ rows[k] # None
    /\ lapsed' = lapsed \cup {k}
    /\ UNCHANGED <<session, linked, players, rows, shipped, disk, roots, calls,
                   trouble>>

\* The retention job.
Sweep(k) ==
    /\ k \in lapsed \cap Named /\ rows[k] # None
    /\ rows' = [rows EXCEPT ![k] = None]
    /\ UNCHANGED <<session, linked, players, lapsed, shipped, disk, roots,
                   calls, trouble>>

\* A build whose content is not the last one's, byte for byte.
Ship ==
    /\ shipped < MaxShips
    /\ shipped' = shipped + 1
    /\ UNCHANGED <<session, linked, players, rows, lapsed, disk, roots, calls,
                   trouble>>

\* DELETE /me, from this device or another: the rows cascade.
Erase(a) ==
    /\ a \in players
    /\ players' = players \ {a}
    /\ rows' = [k \in PackIds |->
          IF rows[k] # None /\ rows[k].owner = a THEN None ELSE rows[k]]
    /\ UNCHANGED <<session, linked, lapsed, shipped, disk, roots, calls,
                   trouble>>

-----------------------------------------------------------------------------
(* The home's requests.                                                    *)

\* Mutant: no latch.
RequestingNever == FALSE

\* _requesting
Requesting == \E c \in Asks : calls[c].what \in {"fetch", "issue"}

Send(c, what, k) ==
    /\ calls[c] = Quiet
    /\ calls' = [calls EXCEPT ![c] =
          [what |-> what, account |-> session, pack |-> k, reply |-> None,
           written |-> FALSE]]

\* _askForPack, up to the read.
AskForPack(c) ==
    IF home # None THEN UNCHANGED calls ELSE Send(c, "reading", disk)

\* _askForPack, the read answered: packRefresh's decision for a device that
\* does not know when the stored pack lapses, and then the latch.
Decide(c) ==
    /\ calls[c].what = "reading"
    /\ calls' = [calls EXCEPT ![c] =
          IF ~linked \/ Requesting THEN Quiet
          ELSE [@ EXCEPT !.what = IF calls[c].pack = None THEN "issue"
                                  ELSE "fetch"]]
    /\ UNCHANGED <<session, linked, server, disk, roots, trouble>>

\* Mutant: whatever was not a pack is a pack to replace.
IsGoneHopeless(reply) == reply # "done"

\* Mutant: a pack that is gone is asked for again next time.
IsGoneNever(reply) == FALSE

\* FetchPackGone, "the one answer meaning there is no such pack for you".
IsGone(reply) == reply = "gone"

\* The reads on their way, answered before a write that is called now: the
\* latch is taken, so nothing comes of them.
ReadsAnswered ==
    [d \in Calls |-> IF calls[d].what = "reading" THEN Quiet ELSE calls[d]]

\* _carryOut, a fetch answered.
FetchAnswered(c) ==
    /\ calls[c].what = "fetch" /\ calls[c].reply # None
    /\ LET reply == calls[c].reply
       IN  \/ /\ reply = "done"
              /\ home' = calls[c].pack
              /\ calls' = [calls EXCEPT ![c] = Quiet]
              /\ UNCHANGED disk
           \/ /\ IsGone(reply)
              /\ disk' = None
              /\ calls' = [ReadsAnswered EXCEPT ![c] =
                    [@ EXCEPT !.what = "issue", !.pack = None, !.reply = None]]
              /\ UNCHANGED home
           \/ /\ reply # "done" /\ ~IsGone(reply)
              /\ calls' = [calls EXCEPT ![c] = Quiet]
              /\ UNCHANGED <<disk, home>>
    /\ UNCHANGED <<session, linked, server, map, trouble>>

\* _issueAndKeep, up to the write.
IssueAnswered(c) ==
    /\ calls[c].what = "issue" /\ calls[c].reply # None /\ ~calls[c].written
    /\ \/ /\ calls[c].reply = "done"
          /\ disk' = calls[c].pack
          /\ calls' = [ReadsAnswered EXCEPT ![c].written = TRUE]
       \/ /\ calls[c].reply = "failed"
          /\ calls' = [calls EXCEPT ![c] = Quiet]
          /\ UNCHANGED disk
    /\ UNCHANGED <<session, linked, server, roots, trouble>>

\* _issueAndKeep, once it is written.
Adopt(c) ==
    /\ calls[c].written
    /\ home' = calls[c].pack
    /\ calls' = [calls EXCEPT ![c] = Quiet]
    /\ UNCHANGED <<session, linked, server, disk, map, trouble>>

-----------------------------------------------------------------------------
(* The map's.                                                              *)

\* _fetchIssuedPack: for any session, and without a latch.
MapAsks(c) ==
    /\ session # None /\ map = None /\ disk # None
    /\ Send(c, "fetch", disk)
    /\ UNCHANGED <<session, linked, server, disk, roots, trouble>>

\* Mutant: the map drops an id it was not given a pack for.
MapKeepsOrClears(c) ==
    disk' = IF calls[c].reply = "gone" THEN None ELSE disk

\* "It never issues, and never clears the id."
MapKeeps(c) == UNCHANGED disk

MapAnswered(c) ==
    /\ calls[c].reply # None
    /\ map' = IF calls[c].reply = "done" THEN calls[c].pack ELSE map
    /\ calls' = [calls EXCEPT ![c] = Quiet]
    /\ MapKeeps(c)
    /\ UNCHANGED <<session, linked, server, home, trouble>>

-----------------------------------------------------------------------------
(* Who is asking.                                                          *)

\* Nothing of an earlier account is in play or on its way.
Anew == roots = <<None, None>> /\ \A c \in Calls : calls[c] = Quiet

\* The door is drawn while there is no session, and where one was refused.
SignIn(a) ==
    /\ session = None \/ (~linked /\ session # a)
    /\ Settled => Anew
    /\ session' = a
    /\ UNCHANGED <<linked, server, disk, roots, calls, trouble>>

\* The link is answered: the account moves, and the home asks.
Link(c) ==
    /\ session # None /\ ~linked
    /\ Settled => session \in players \/ Anew
    /\ linked' = TRUE
    /\ players' = players \cup {session}
    /\ AskForPack(c)
    /\ UNCHANGED <<session, rows, lapsed, shipped, disk, roots, trouble>>

\* A new token: the home asks.
Renew(c) ==
    /\ session # None /\ linked
    /\ AskForPack(c)
    /\ UNCHANGED <<session, linked, server, disk, roots, trouble>>

\* And the profile links again: loading, which the home hears of a frame later.
Loading ==
    /\ session # None /\ linked
    /\ linked' = FALSE
    /\ UNCHANGED <<session, server, disk, roots, calls, trouble>>

\* Nothing of the pack is let go.
SignOut ==
    /\ session # None
    /\ session' = None
    /\ linked' = FALSE
    /\ UNCHANGED <<server, disk, roots, calls, trouble>>

Restart ==
    /\ session' = None
    /\ linked' = FALSE
    /\ home' = None /\ map' = None
    /\ calls' = [c \in Calls |-> Quiet]
    /\ UNCHANGED <<server, disk, trouble>>

Next ==
    \/ \E c \in Calls : ServeFetch(c) \/ ServeIssue(c)
    \/ \E c \in Asks :
          \/ Link(c) \/ Renew(c) \/ Decide(c) \/ GoWrong(c)
          \/ FetchAnswered(c) \/ IssueAnswered(c) \/ Adopt(c)
    \/ \E c \in Fetches : MapAsks(c) \/ MapAnswered(c)
    \/ \E k \in PackIds : Lapse(k) \/ Sweep(k)
    \/ \E a \in Accounts : Erase(a) \/ SignIn(a)
    \/ Ship \/ Loading \/ SignOut \/ Restart

Spec == Init /\ [][Next]_vars

\* A request ends and its answer is handled; while somebody is signed in, the
\* token is renewed and each renewal links (Account's LinksInTheEnd).  A read of
\* the preferences takes less than a token's life, so not every one that a link
\* started is answered under the next token (strong fairness).
FairSpec ==
    /\ Spec
    /\ \A c \in Calls : WF_vars(ServeFetch(c)) /\ WF_vars(ServeIssue(c))
    /\ \A c \in Asks :
          /\ WF_vars(Decide(c)) /\ SF_vars(linked /\ Decide(c))
          /\ WF_vars(FetchAnswered(c))
          /\ WF_vars(IssueAnswered(c)) /\ WF_vars(Adopt(c))
    /\ \A c \in Fetches : WF_vars(MapAnswered(c))
    /\ WF_vars(\E c \in Asks : Link(c))
    /\ WF_vars(Loading)

-----------------------------------------------------------------------------
(* Properties                                                              *)

CallStates ==
    [what : {None, "reading", "fetch", "issue"}, account : Accounts \cup {None},
     pack : PackIds \cup {None},
     reply : {None, "done", "gone", "failed"}, written : BOOLEAN]

\* Types; a fetch names a pack, and what an issue brought is on disk until it is
\* adopted.
TypeOK ==
    /\ session \in Accounts \cup {None}
    /\ linked \in BOOLEAN
    /\ players \in SUBSET Accounts
    /\ rows \in [PackIds -> {None} \cup [owner : Accounts, content : Nat]]
    /\ lapsed \in SUBSET PackIds
    /\ shipped \in Nat
    /\ {disk, home, map} \subseteq PackIds \cup {None}
    /\ calls \in [Calls -> CallStates]
    /\ \A c \in Calls :
          /\ calls[c].what = "fetch" => calls[c].pack # None
          /\ calls[c].written => calls[c].what = "issue" /\ calls[c].pack = disk
    /\ trouble \in Nat

\* Every item of the pack in play carries "a (packId, index) the server can
\* grade" (packInPlay): the row is there, and is the player's.
PlayedIsGradeable ==
    \A k \in {home, map} \ {None} :
        session \in players /\ k \notin lapsed =>
            rows[k] # None /\ rows[k].owner = session

\* "Written before it is adopted": what the home plays is what the next launch
\* would fetch, whatever other asks, answers and roots did meanwhile; unless
\* the server has let go of it.
HomeIsRecorded ==
    home # None /\ rows[home] # None /\ rows[home].content = shipped =>
        disk = home

\* Whatever is in play can be graded, now and after a restart: the two above.
PlayIsSound == PlayedIsGradeable /\ HomeIsRecorded

\* An id that would still fetch a pack for this player is not dropped or
\* replaced: "the id is still good ... Issuing here would mint a row for a
\* network blip" (_carryOut).
ReplacedOnlyWhenGone ==
    [][disk # None /\ Holds(session, disk) => disk' = disk]_vars

\* A device that stays signed in to an account that keeps its player comes to
\* play an issued pack: neither a gone pack, a failure, a lost trigger nor a
\* new build stops it for good.
HomePlaysIssued ==
    \A a \in Accounts :
        <>[](session = a /\ a \in players) => []<>(home # None)

\* "A lapsed pack is issued rather than fetched, because the server would
\* refuse it anyway" (packRefresh).
LapsedIsRefused ==
    [][\A c \in Calls :
          calls[c].what = "fetch" /\ calls'[c].reply = "done" =>
              calls[c].pack \notin lapsed]_vars

=============================================================================
