-------------------------------- MODULE Account -------------------------------
(***************************************************************************)
(* How a device comes to be linked.  The shell holds a session; every new  *)
(* access token makes ProfileRoute ask POST /players/link to attach this   *)
(* device's player to the account, and what the server answers is the      *)
(* state the app acts on: the home asks for a pack, and Ajustes offers the *)
(* erasure, only where it is "linked".                                     *)
(*                                                                         *)
(* A request is a record of calls, client and server side together: heard  *)
(* says whether the device still listens, step how far it has come.        *)
(* linkPlayer reads the account's player, reads the player's account and   *)
(* inserts: three statements of one READ COMMITTED transaction, and other  *)
(* requests come between them.                                             *)
(*                                                                         *)
(* An access token is told apart from the tokens still in use by a request *)
(* and from the one it replaces, which is all that comparing it can do.    *)
(* PlayerIdStore.readOrMint is one step with the request that follows it.  *)
(***************************************************************************)
EXTENDS Naturals

CONSTANTS
    None,
    Accounts,
    Tokens,
    Ids,          \* player ids a device may hold or mint
    OtherId,      \* the id of another device
    Calls,        \* requests that may be open at once
    Worlds,       \* which of Occasions there may be in one behaviour
    MaxTrouble    \* bound: requests that go wrong, writes the store refuses,
                  \* and acts of the other device

VARIABLES
    session,      \* [account, token]; account is None when signed out
    state,        \* AccountState
    about,        \* the account the answer behind state was about
    playerId,     \* akimath.player_id.v1
    calls,
    players,      \* the players table: by account, its player
    erasure,      \* the erase screen: [account, step]
    happens,      \* the Occasions of this behaviour
    trouble

vars == <<session, state, about, playerId, calls, players, erasure,
          happens, trouble>>

\* A retry tapped on the banner, a session the provider has disowned, an
\* erasure, a store that cannot keep the id, and another device.
Occasions == {"retry", "refusal", "erase", "unkept", "others"}

ASSUME ConstantsAssumption ==
    /\ OtherId \notin Ids
    /\ None \notin Accounts \cup Ids \cup {OtherId}
    /\ \A w \in Worlds : w \subseteq Occasions
    /\ MaxTrouble \in Nat

AllIds == Ids \cup {OtherId}
SignedOut == [account |-> None, token |-> None]
NoErasure == [account |-> None, step |-> "closed"]
Call(step, s, id) ==
    [step |-> step, session |-> s, id |-> id, found |-> None, reply |-> None,
     heard |-> TRUE]
Quiet == Call("idle", SignedOut, None)
Failures == {"unreachable", "failed", "rejected"}

Owner(id) == {a \in Accounts : players[a] = id}

\* One account has one player and one player one account.
OneToOne ==
    \A a, b \in Accounts : players[a] = players[b] /\ players[a] # None => a = b

\* Nobody signed in; the ids of this device and of another may be anyone's.
Init ==
    /\ session = SignedOut
    /\ state = "none"
    /\ about = None
    /\ playerId \in {None} \cup Ids
    /\ calls = [c \in Calls |-> Quiet]
    /\ players \in [Accounts -> {None, playerId, OtherId}]
    /\ OneToOne
    /\ erasure = NoErasure
    /\ happens \in Worlds
    /\ trouble = 0

-----------------------------------------------------------------------------
(* The policies.                                                           *)

LinkStateFor(reply) ==
    [done |-> "linked", conflict |-> "mismatch", rejected |-> "rejected",
     failed |-> "serverError", unreachable |-> "offline"][reply]

FailureState(reply) ==
    [rejected |-> "rejected", failed |-> "serverError",
     unreachable |-> "offline"][reply]

\* accountStateFor: what GET /me says, whoever's player it names.
AccountStateFor(reply) ==
    IF reply \in Failures THEN FailureState(reply)
    ELSE IF reply = None THEN "noPlayer" ELSE "linked"

\* Mutant: the two conflicts taken for one another.
ConflictSwapped(reply, id) ==
    IF reply = "rejected" THEN "rejected"
    ELSE IF reply \in Failures THEN "mismatch"
    ELSE IF reply = None THEN "otherDevice"
    ELSE IF reply = id THEN "linked" ELSE "otherAccount"

\* conflictStateFor: which of the two 409s it was, by what GET /me says.
ConflictStateFor(reply, id) ==
    IF reply = "rejected" THEN "rejected"
    ELSE IF reply \in Failures THEN "mismatch"
    ELSE IF reply = None THEN "otherAccount"
    ELSE IF reply = id THEN "linked" ELSE "otherDevice"

\* erasureOffered
ErasureOffered == session # SignedOut /\ state \in {"linked", "noPlayer"}

\* Mutant: any answer is good while the screen is there.
StillMounted(s) == TRUE

\* _stillOn: the answer is about the session on screen.
StillOn(s) == session = s

-----------------------------------------------------------------------------
(* The session, as this route hears of it.                                 *)

TokensNamed ==
    {calls[c].session.token : c \in Calls} \cup {session.token}
IdsNamed ==
    {playerId} \cup {players[a] : a \in Accounts} \cup {calls[c].id : c \in Calls}

\* A token or an id that nothing names any more stands for a new one, and
\* which of them it is makes no difference.
New(x, all, named) == all \ named # {} /\ x = CHOOSE y \in all \ named : TRUE

\* PlayerIdStore.readOrMint, and what it leaves on disk.
ReadOrMint(id) ==
    \/ /\ playerId # None /\ id = playerId
       /\ UNCHANGED <<playerId, trouble>>
    \/ /\ New(id, Ids, IdsNamed)
       /\ \/ playerId = None /\ playerId' = id /\ UNCHANGED trouble
          \/ /\ "unkept" \in happens
             /\ trouble < MaxTrouble /\ trouble' = trouble + 1
             /\ UNCHANGED playerId

\* _link: the state is a wait, and the request goes out.
Link(c, s) ==
    /\ calls[c] = Quiet
    /\ state' = "loading"
    /\ \E id \in Ids :
          /\ ReadOrMint(id)
          /\ calls' = [calls EXCEPT ![c] = Call("asked", s, id)]

\* Mutant: linked once per sign-in, whatever became of it.
LinkIfNew(c, before, s) ==
    IF before = SignedOut THEN Link(c, s)
    ELSE UNCHANGED <<state, playerId, calls, trouble>>

\* _linkIfNeeded: on every access token it has not seen.
LinkIfNeeded(c, before, s) == Link(c, s)

\* onSessionChanged with what the auth flow brought: the way in is drawn while
\* there is no session, and where one was refused.
SignIn(c, a, t) ==
    /\ session = SignedOut \/ state = "rejected"
    /\ erasure = NoErasure
    /\ New(t, Tokens, TokensNamed)
    /\ session' = [account |-> a, token |-> t]
    /\ LinkIfNeeded(c, SignedOut, session')
    /\ UNCHANGED <<about, players, erasure, happens>>

\* The shell renews a token after ten minutes, which outlasts a request the
\* device still listens to.
Renew(c, t) ==
    /\ session # SignedOut
    /\ \A d \in Calls : calls[d].heard => calls[d].session # session
    /\ New(t, Tokens, TokensNamed)
    /\ session' = [session EXCEPT !.token = t]
    /\ LinkIfNeeded(c, session, session')
    /\ UNCHANGED <<about, players, erasure, happens>>

\* _signOut, or the last step of an erasure.
Leave ==
    /\ session' = SignedOut
    /\ state' = "none"
    /\ erasure' = NoErasure
    /\ UNCHANGED <<about, playerId, calls, players, happens, trouble>>

SignOut == session # SignedOut /\ erasure = NoErasure /\ Leave

\* The provider has disowned the credential: the shell drops the session, and
\* nothing tells this route's state.
Forget ==
    /\ "refusal" \in happens
    /\ session # SignedOut
    /\ session' = SignedOut
    /\ UNCHANGED <<state, about, playerId, calls, players, erasure,
                   happens, trouble>>

\* _accountRetry: an unrefined conflict is linked again, the other failures
\* ask GET /me.
Retry(c) ==
    /\ "retry" \in happens
    /\ session # SignedOut
    /\ \/ state = "mismatch" /\ Link(c, session)
       \/ /\ state \in {"offline", "serverError"}
          /\ calls[c] = Quiet
          /\ state' = "loading"
          /\ calls' = [calls EXCEPT ![c] = Call("looking", session, None)]
          /\ UNCHANGED <<playerId, trouble>>
    /\ UNCHANGED <<session, about, players, erasure, happens>>

-----------------------------------------------------------------------------
(* The server.                                                             *)

device == <<session, state, about, playerId, erasure, happens>>

\* linkPlayer, playerIdForAccount.
SelectPlayer(c) ==
    /\ calls[c].step = "asked"
    /\ calls' = [calls EXCEPT ![c].step = "half",
                              ![c].found = players[calls[c].session.account]]
    /\ UNCHANGED <<device, players, trouble>>

LinkOutcome(playerForAccount, accountForPlayer, id, a) ==
    IF playerForAccount = id /\ accountForPlayer = {a} THEN "existing"
    ELSE IF playerForAccount # None \/ accountForPlayer # {} THEN "conflict"
    ELSE "create"

\* linkPlayer, accountForPlayer and what linkOutcome makes of the two.
SelectAccount(c) ==
    /\ calls[c].step = "half"
    /\ LET call == calls[c]
           outcome == LinkOutcome(call.found, Owner(call.id), call.id,
                                  call.session.account)
       IN  calls' = [calls EXCEPT ![c] =
              IF outcome = "create" THEN [call EXCEPT !.step = "creating"]
              ELSE [call EXCEPT !.step = "answered",
                                !.reply = IF outcome = "existing"
                                            THEN "done" ELSE "conflict"]]
    /\ UNCHANGED <<device, players, trouble>>

\* Mutant: only the account's key is looked at.
TakenByAccount(id, a) == players[a] # None

\* players_pkey, players_one_per_account
Taken(id, a) == players[a] # None \/ Owner(id) # {}

\* linkPlayer, insertPlayer: a key that is taken is a 500.
Insert(c) ==
    /\ calls[c].step = "creating"
    /\ LET call == calls[c]
           taken == Taken(call.id, call.session.account)
       IN  /\ players' = IF taken THEN players
                         ELSE [players EXCEPT ![call.session.account] = call.id]
           /\ calls' = [calls EXCEPT ![c].step = "answered",
                           ![c].reply = IF taken THEN "failed" ELSE "done"]
    /\ UNCHANGED <<device, trouble>>

\* GET /me, for the probe of a conflict or for a retry.
Look(c) ==
    /\ calls[c].step \in {"probing", "looking"}
    /\ calls' = [calls EXCEPT
          ![c].step = IF calls[c].step = "probing" THEN "probed" ELSE "looked",
          ![c].reply = players[calls[c].session.account]]
    /\ UNCHANGED <<device, players, trouble>>

\* A request that does not succeed, or whose answer does not arrive.
GoWrong(c, reply) ==
    /\ trouble < MaxTrouble
    /\ trouble' = trouble + 1
    /\ calls[c].heard
    /\ calls[c].step # "idle"
    /\ reply # "unreachable" =>
          calls[c].step \in {"asked", "probing", "looking"}
    /\ calls' = [calls EXCEPT
          ![c].step = CASE @ \in {"asked", "half", "creating"} -> "answered"
                        [] @ = "probing" -> "probed"
                        [] @ = "looking" -> "looked"
                        [] OTHER -> @,
          ![c].reply = reply]
    /\ UNCHANGED <<device, players>>

\* The other device of an account links and erases its own player.
OtherDevice(a) ==
    /\ "others" \in happens
    /\ trouble < MaxTrouble
    /\ trouble' = trouble + 1
    /\ \/ ~Taken(OtherId, a) /\ players' = [players EXCEPT ![a] = OtherId]
       \/ players[a] = OtherId /\ players' = [players EXCEPT ![a] = None]
    /\ UNCHANGED <<device, calls>>

-----------------------------------------------------------------------------
(* The answers.                                                            *)

Hear(c, new) ==
    /\ state' = new
    /\ about' = calls[c].session.account
    /\ calls' = [calls EXCEPT ![c] = Quiet]

Drop(c) ==
    /\ calls' = [calls EXCEPT ![c] = Quiet]
    /\ UNCHANGED <<state, about>>

\* _link, from the answer on; a conflict is looked into with GET /me.
Receive(c) ==
    /\ calls[c].step = "answered"
    /\ IF ~calls[c].heard \/ ~StillOn(calls[c].session) THEN Drop(c)
       ELSE IF calls[c].reply = "conflict"
         THEN /\ calls' = [calls EXCEPT ![c].step = "probing"]
              /\ UNCHANGED <<state, about>>
       ELSE Hear(c, LinkStateFor(calls[c].reply))
    /\ UNCHANGED <<session, playerId, players, erasure, happens,
                   trouble>>

\* _refineConflict, from the answer on.
ReceiveProbe(c) ==
    /\ calls[c].step = "probed"
    /\ IF ~StillOn(calls[c].session) THEN Drop(c)
       ELSE Hear(c, ConflictStateFor(calls[c].reply, calls[c].id))
    /\ UNCHANGED <<session, playerId, players, erasure, happens,
                   trouble>>

\* _askWhoIAm, from the answer on: the screen is still there, and that is all
\* it asks.
ReceiveLook(c) ==
    /\ calls[c].step = "looked"
    /\ Hear(c, AccountStateFor(calls[c].reply))
    /\ UNCHANGED <<session, playerId, players, erasure, happens,
                   trouble>>

\* _link when its ten seconds are over and the server has not answered yet: a
\* LinkUnreachable here, and a request that is served all the same.
TimeOut(c) ==
    /\ trouble < MaxTrouble
    /\ trouble' = trouble + 1
    /\ calls[c].step \in {"asked", "half", "creating"} /\ calls[c].heard
    /\ calls' = [calls EXCEPT ![c].heard = FALSE]
    /\ IF StillOn(calls[c].session)
         THEN state' = "offline" /\ about' = calls[c].session.account
         ELSE UNCHANGED <<state, about>>
    /\ UNCHANGED <<session, playerId, players, erasure, happens>>

-----------------------------------------------------------------------------
(* The erasure.                                                            *)

\* _openEraseFlow and _send, with the session of that moment.
Erase ==
    /\ "erase" \in happens
    /\ ErasureOffered
    /\ erasure = NoErasure
    /\ erasure' = [account |-> session.account, step |-> "erasing"]
    /\ UNCHANGED <<session, state, about, playerId, calls, players,
                   happens, trouble>>

\* DELETE /me, answered 204 or 404: both are "gone".
EraseServed ==
    /\ erasure.step = "erasing"
    /\ players' = [players EXCEPT ![erasure.account] = None]
    /\ erasure' = [erasure EXCEPT !.step = "gone"]
    /\ UNCHANGED <<session, state, about, playerId, calls, happens,
                   trouble>>

\* onClose(true), from the screen that says it is gone.
Done == erasure.step = "gone" /\ Leave

Next ==
    \/ \E c \in Calls :
          \/ \E t \in Tokens : Renew(c, t) \/ \E a \in Accounts : SignIn(c, a, t)
          \/ Retry(c)
          \/ SelectPlayer(c) \/ SelectAccount(c) \/ Insert(c) \/ Look(c)
          \/ Receive(c) \/ ReceiveProbe(c) \/ ReceiveLook(c) \/ TimeOut(c)
          \/ \E reply \in Failures : GoWrong(c, reply)
    \/ SignOut \/ Forget
    \/ \E a \in Accounts : OtherDevice(a)
    \/ Erase \/ EraseServed \/ Done

Spec == Init /\ [][Next]_vars

\* A request that is sent is answered or times out, an answer is handled, and
\* the shell's timer finds the spent token.  What people do is not fair.
FairSpec ==
    /\ Spec
    /\ \A c \in Calls :
          /\ WF_vars(SelectPlayer(c)) /\ WF_vars(SelectAccount(c))
          /\ WF_vars(Insert(c)) /\ WF_vars(Look(c)) /\ WF_vars(Receive(c))
          /\ WF_vars(ReceiveProbe(c)) /\ WF_vars(ReceiveLook(c))
    /\ WF_vars(\E c \in Calls, t \in Tokens : Renew(c, t))

-----------------------------------------------------------------------------
(* Properties                                                              *)

States == {"none", "loading", "linked", "noPlayer", "rejected", "serverError",
           "offline", "otherDevice", "otherAccount", "mismatch"}
Sessions == [account : Accounts, token : Tokens] \cup {SignedOut}
CallStates ==
    [step : {"idle", "asked", "half", "creating", "answered", "probing",
             "probed", "looking", "looked"},
     session : Sessions, id : Ids \cup {None}, found : AllIds \cup {None},
     reply : AllIds \cup Failures \cup {None, "done", "conflict"},
     heard : BOOLEAN]

\* Types; and one account has one player and one player one account, whoever
\* inserts between another's reads (migration 0003).
TypeOK ==
    /\ session \in Sessions
    /\ state \in States
    /\ about \in Accounts \cup {None}
    /\ playerId \in Ids \cup {None}
    /\ calls \in [Calls -> CallStates]
    /\ players \in [Accounts -> AllIds \cup {None}]
    /\ OneToOne
    /\ erasure \in [account : Accounts, step : {"erasing", "gone"}]
                   \cup {NoErasure}
    /\ happens \in Worlds
    /\ trouble \in Nat

\* A verdict on screen is about the account signed in, however sign-ins and
\* answers cross (_stillOn: "writing the old session's verdict over the new
\* one's would put a conflict banner on an account that never had a conflict").
\* A retry's answer and a refused session are not held to it by the code.
StateIsOfThisSession ==
    happens \cap {"retry", "refusal"} = {} =>
        (state \notin {"none", "loading"} =>
            session # SignedOut /\ about = session.account)

\* Linked is linked to this device's player (PackAccount.linked: "The server
\* holds this device's player, so a pack can be addressed to it").
LinkedIsThisPlayer ==
    state = "linked" /\ session # SignedOut =>
        players[session.account] = playerId

\* What linking alone concludes is so, timeouts, half-done transactions and
\* renewals included, as long as nobody else moves the rows: linked is linked to
\* this device's player, and a conflict names the side it is on, another device's
\* player that holds the account or another account that holds this device's
\* player (conflictStateFor: "The inference is exact rather than a heuristic").
LinkVerdictsAreTrue ==
    happens = {} /\ session # SignedOut =>
        /\ LinkedIsThisPlayer
        /\ state = "otherDevice" =>
              players[session.account] \notin {None, playerId}
        /\ state = "otherAccount" =>
              \E a \in Accounts \ {session.account} : players[a] = playerId

Linkable(a) ==
    IF players[a] = None THEN playerId = None \/ Owner(playerId) = {}
    ELSE players[a] = playerId

\* A device that stays signed in to an account that can be linked is linked
\* again and again, whatever became of earlier attempts: a failed link has no
\* retry of its own, and the next token's link is what makes up for it.
LinksInTheEnd ==
    \A a \in Accounts :
        <>[](session.account = a /\ Linkable(a)) => []<>(state = "linked")

=============================================================================
