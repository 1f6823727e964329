-------------------------------- MODULE Session -------------------------------
(***************************************************************************)
(* Being signed in, as RootScaffold keeps it: a session in memory, the     *)
(* credential it came from on disk, and two trades of a credential for an  *)
(* access token, at launch and when the token in hand is spent.            *)
(*                                                                         *)
(* A trade is read when it comes back and not when it was asked for, and   *)
(* nothing looks at whether the session is still the one it was asked for. *)
(* The store's writes reach the disk in the order of the calls and before  *)
(* any later read, so a write is one step with what caused it.             *)
(***************************************************************************)
EXTENDS Naturals

CONSTANTS
    None,
    Creds,        \* credentials (session cookies) the provider hands out
    Patient,      \* whether people wait for a trade before they sign in or out
    Throttles,    \* whether the provider may refuse a credential it honours
    MaxTrouble    \* bound: trades that go wrong

VARIABLES
    held,         \* [cred, token]: the session in memory
    disk,         \* akimath.session.v1
    trades,       \* by Kinds: [cred, reply]
    alive,        \* credentials the provider honours
    issued,       \* credentials handed out so far
    trouble

sessionVars == <<held, disk, trades, alive, issued, trouble>>
provider == <<alive, issued>>

ASSUME ConstantsAssumption ==
    /\ None \notin Creds
    /\ None \notin {"fresh", "spent", "ok", "refused", "failed"}
    /\ Patient \in BOOLEAN /\ Throttles \in BOOLEAN
    /\ MaxTrouble \in Nat

Kinds == {"launch", "renewal"}
Nobody == [cred |-> None, token |-> None]
NoTrade == [cred |-> None, reply |-> None]

\* A device that has just been started, signed in last time or not.
SessionInit ==
    /\ held = Nobody
    /\ disk \in {None} \cup Creds
    /\ trades = [k \in Kinds |->
          IF k = "launch" /\ disk # None
            THEN [cred |-> disk, reply |-> None] ELSE NoTrade]
    /\ issued = {disk} \ {None}
    /\ alive \in SUBSET issued
    /\ trouble = 0

-----------------------------------------------------------------------------
(* What is held, and what is remembered.                                   *)

Waiting == \E k \in Kinds : trades[k] # NoTrade
MayAct == Patient => ~Waiting

Fresh(c) == [cred |-> c, token |-> "fresh"]

\* Mutant: signed out on disk only.
ForgetOnDisk(h, d) ==
    IF h = Nobody THEN UNCHANGED held /\ disk' = d ELSE held' = h /\ disk' = d

\* _holdAndRemember: the store is made to agree with the session.
HoldAndRemember(h, d) == held' = h /\ disk' = d

\* The auth flow's onLinked.  The door is drawn while there is no session and
\* where the server refused the token in hand.
SignIn(c) ==
    /\ MayAct
    /\ held.token \in {None, "spent"}
    /\ c \notin issued
    /\ issued' = issued \cup {c}
    /\ alive' = alive \cup {c}
    /\ HoldAndRemember(Fresh(c), c)
    /\ UNCHANGED <<trades, trouble>>

\* Cerrar sesion, and an erasure that is done.
SignOut ==
    /\ MayAct
    /\ held # Nobody
    /\ HoldAndRemember(Nobody, None)
    /\ UNCHANGED <<trades, provider, trouble>>

-----------------------------------------------------------------------------
(* The trades.                                                             *)

\* tokenRenewal: ten minutes have passed since the token was minted.
Spend ==
    /\ held.token = "fresh"
    /\ held' = [held EXCEPT !.token = "spent"]
    /\ UNCHANGED <<disk, trades, provider, trouble>>

\* _renewIfSpent, on a tick of the watch: one mint at a time.
RenewIfSpent ==
    /\ held.token = "spent"
    /\ trades["renewal"] = NoTrade
    /\ trades' = [trades EXCEPT !["renewal"] =
                     [cred |-> held.cred, reply |-> None]]
    /\ UNCHANGED <<held, disk, provider, trouble>>

\* GET /token, answered.
ServeTrade(k) ==
    /\ trades[k] # NoTrade /\ trades[k].reply = None
    /\ trades' = [trades EXCEPT ![k].reply =
                     IF trades[k].cred \in alive THEN "ok" ELSE "refused"]
    /\ UNCHANGED <<held, disk, provider, trouble>>

\* No answer, or one that cannot be read: AuthUnreachable, AuthFailed.  Any
\* answer between 400 and 499 is AuthRefused, whatever it is about.
TradeGoesWrong(k) ==
    /\ trouble < MaxTrouble
    /\ trouble' = trouble + 1
    /\ trades[k] # NoTrade
    /\ \E reply \in {"failed"} \cup (IF Throttles THEN {"refused"} ELSE {}) :
          /\ reply = "refused" => trades[k].reply = None
          /\ trades' = [trades EXCEPT ![k].reply = reply]
    /\ UNCHANGED <<held, disk, provider>>

\* Mutant: no answer taken for a refusal.
RestoreStrictly(reply) == IF reply = "ok" THEN "restored" ELSE "forgotten"

\* Mutant: a refusal taken for a bad minute.
RestoreHoping(reply) == IF reply = "ok" THEN "restored" ELSE "kept"

\* sessionRestore
SessionRestore(reply) ==
    [ok |-> "restored", refused |-> "forgotten", failed |-> "kept"][reply]

\* Mutant: a renewal that came to nothing leaves the latch set.
EndLatched(k) ==
    IF trades[k].reply = "failed" THEN UNCHANGED trades
    ELSE trades' = [trades EXCEPT ![k] = NoTrade]

\* whenComplete: the latch goes whatever the answer was.
End(k) == trades' = [trades EXCEPT ![k] = NoTrade]

\* _tradeTheCredentialForAToken, from the answer on.
Receive(k) ==
    /\ trades[k].reply # None
    /\ LET outcome == SessionRestore(trades[k].reply)
       IN  \/ /\ outcome = "restored"
              /\ held' = Fresh(trades[k].cred)
              /\ UNCHANGED disk
           \/ /\ outcome = "forgotten"
              /\ HoldAndRemember(Nobody, None)
           \/ /\ outcome = "kept"
              /\ UNCHANGED <<held, disk>>
    /\ End(k)
    /\ UNCHANGED <<provider, trouble>>

\* A password changed, a session ended elsewhere.
Revoke(c) ==
    /\ c \in alive
    /\ alive' = alive \ {c}
    /\ UNCHANGED <<held, disk, trades, issued, trouble>>

\* The app is killed and started: initState reads the store and trades what it
\* finds (_restoreTheStoredSession).
Relaunch ==
    /\ held' = Nobody
    /\ trades' = [k \in Kinds |->
          IF k = "launch" /\ disk # None
            THEN [cred |-> disk, reply |-> None] ELSE NoTrade]
    /\ UNCHANGED <<disk, provider, trouble>>

SessionNext ==
    \/ \E c \in Creds : SignIn(c) \/ Revoke(c)
    \/ SignOut \/ Spend \/ RenewIfSpent \/ Relaunch
    \/ \E k \in Kinds : ServeTrade(k) \/ TradeGoesWrong(k) \/ Receive(k)

SessionSpec == SessionInit /\ [][SessionNext]_sessionVars

\* Ten minutes pass, the watch ticks every minute for as long as the shell
\* lives, and a trade is answered or times out.
FairSession ==
    /\ SessionSpec
    /\ WF_sessionVars(Spend)
    /\ WF_sessionVars(RenewIfSpent)
    /\ \A k \in Kinds : WF_sessionVars(ServeTrade(k)) /\ WF_sessionVars(Receive(k))

-----------------------------------------------------------------------------
(* Properties                                                              *)

\* Types; and a trade that has not been sent has no answer.
SessionTypeOK ==
    /\ held \in [cred : Creds, token : {"fresh", "spent"}] \cup {Nobody}
    /\ disk \in Creds \cup {None}
    /\ trades \in [Kinds -> [cred : Creds \cup {None},
                             reply : {None, "ok", "refused", "failed"}]]
    /\ \A k \in Kinds : trades[k].cred = None => trades[k].reply = None
    /\ alive \in SUBSET Creds
    /\ issued \in SUBSET Creds
    /\ trouble \in Nat

\* Whatever is held is what the next launch would restore: "the credential on
\* disk and the session in memory cannot drift apart" (RootScaffold).
StoreAndMemoryAgree == held # Nobody => disk = held.cred

\* A credential leaves the disk because somebody signed out, because another
\* took its place, or because the provider no longer honours that credential:
\* "Neither is evidence about the credential" (SessionKept).
KeptUnlessDisowned ==
    [][disk # None /\ disk' = None => SignOut \/ disk \notin alive]_sessionVars

\* A spent token does not stay: it is replaced, or the session ends, however
\* often the provider fails first ("a provider that keeps failing is asked
\* again, not once").
SpentIsReplaced == held.token = "spent" ~> held.token # "spent"

\* A session whose credential the provider has disowned ends
\* (SessionForgotten: "a device that keeps rubbish tries for ever").
DisownedIsLetGo ==
    \A c \in Creds : held.cred = c /\ c \notin alive ~> held.cred # c

=============================================================================
