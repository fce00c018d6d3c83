------------------------------- MODULE UserPat -------------------------------
(***************************************************************************)
(* The token the gateway keeps for one person on one app (_USER_PATS): who *)
(* mints it, who may drop it, and what happens to the calls that carry it  *)
(* when the app no longer takes it.                                        *)
(*                                                                         *)
(* Four kinds of call carry the token: the tools of a per-user backend and *)
(* rest_call come again once after a 401, the REST bridge and the reading  *)
(* of a panel do not.  A step is the code between two awaits.  Tokens are  *)
(* numbered as the app mints them; an app may revoke the previous one with *)
(* every mint.  What is handed to the app under the same lock              *)
(* (_portal_pat_serve) is only a delay here.                               *)
(*                                                                         *)
(* MaxEvents bounds what happens to a token from outside: it is revoked,   *)
(* its time in the cache is over, /conn-invalidate drops it, or the        *)
(* response that carried it is lost.                                       *)
(***************************************************************************)
EXTENDS Naturals, FiniteSets

CONSTANTS
    Tool,       \* calls of a per-user backend's tool (_call_tool_body)
    RestCall,   \* calls of the tool rest_call
    Bridge,     \* requests through the REST bridge (RestProxy.handle)
    Panel,      \* readings of a panel (_read_ui_resource)
    Parts,      \* authenticated requests an app makes of one call
    MaxEvents,  \* bound
    NONE

Calls == Tool \cup RestCall \cup Bridge \cup Panel

ASSUME PatAssumption ==
    /\ Tool \cap RestCall = {} /\ Tool \cap Bridge = {} /\ RestCall \cap Bridge = {}
    /\ Panel \cap (Tool \cup RestCall \cup Bridge) = {}
    /\ Parts \in Nat \ {0} /\ MaxEvents \in Nat
    /\ NONE \notin Calls \cup Nat

VARIABLES
    cached,     \* _USER_PATS: the token, or NONE; one whose time is over counts as NONE
    lock,       \* _USER_PAT_LOCKS: who holds it
    issued,     \* tokens the app has minted
    live,       \* tokens the app still takes
    pc,         \* where each call stands
    tok,        \* the token it carries
    stale,      \* the token it was refused with
    work,       \* requests of the app carried out in its present attempt
    again,      \* it is on its second attempt
    told,       \* history: tokens minted when the portal last announced a change
    since,      \* history: the events there had been when the call got its token
    events      \* events so far

appVars  == <<issued, live>>
callVars == <<pc, tok, stale, work, again, since>>
vars == <<cached, lock, appVars, callVars, told, events>>

Init ==
    /\ cached = NONE /\ lock = NONE /\ issued = 0 /\ live = {}
    /\ pc = [c \in Calls |-> "new"] /\ tok = [c \in Calls |-> NONE]
    /\ stale = [c \in Calls |-> NONE] /\ work = [c \in Calls |-> 0]
    /\ again = [c \in Calls |-> FALSE]
    /\ told = 0 /\ since = [c \in Calls |-> 0] /\ events = 0

Finished == {"ok", "failed", "rejected"}
Event == events < MaxEvents /\ events' = events + 1

Goto(c, l) == pc' = [pc EXCEPT ![c] = l]
Return(c, l) ==
    /\ Goto(c, l)
    /\ tok' = [tok EXCEPT ![c] = NONE] /\ stale' = [stale EXCEPT ![c] = NONE]
    /\ work' = [work EXCEPT ![c] = 0] /\ again' = [again EXCEPT ![c] = FALSE]
    /\ since' = [since EXCEPT ![c] = 0]

-----------------------------------------------------------------------------
(* _user_pat                                                               *)

(* Mutant: a call that was refused takes no token from the cache, so each  *)
(* of several refused together has one minted.                             *)
Mut_Hit(c) == cached # NONE /\ stale[c] = NONE

(* The cache holds a token, and not the one c was refused with.            *)
Hit(c) == cached # NONE /\ cached # stale[c]

CallStarts(c) ==
    /\ pc[c] = "new"
    /\ Goto(c, "lock")
    /\ UNCHANGED <<cached, lock, appVars, tok, stale, work, again, since, told, events>>

(* Under the lock: the token of the cache, at once or - when the app still *)
(* wants a portal PAT - after handing that over.                           *)
TakesCached(c) ==
    /\ pc[c] = "lock" /\ lock = NONE /\ Hit(c)
    /\ \/ Goto(c, "sent") /\ UNCHANGED lock
       \/ Goto(c, "handing") /\ lock' = c
    /\ tok' = [tok EXCEPT ![c] = cached] /\ since' = [since EXCEPT ![c] = events]
    /\ UNCHANGED <<cached, appVars, stale, work, again, told, events>>

(* Mutant: two mints at a time.                                            *)
Mut_BeginsMint(c) ==
    /\ pc[c] = "lock" /\ ~Hit(c)
    /\ Goto(c, "minting")
    /\ UNCHANGED <<cached, lock, appVars, tok, stale, work, again, since, told, events>>

BeginsMint(c) ==
    /\ pc[c] = "lock" /\ lock = NONE /\ ~Hit(c)
    /\ Goto(c, "minting")
    /\ lock' = c
    /\ UNCHANGED <<cached, appVars, tok, stale, work, again, since, told, events>>

(* The app mints a token; the previous ones may go.                        *)
AppMints(c) ==
    /\ pc[c] = "minting"
    /\ issued' = issued + 1
    /\ live' \in {{issued + 1}, live \cup {issued + 1}}
    /\ tok' = [tok EXCEPT ![c] = issued + 1]
    /\ Goto(c, "minted")
    /\ UNCHANGED <<cached, lock, stale, work, again, since, told, events>>

(* Its response arrives: the token goes into the cache, and a portal PAT   *)
(* is handed over first if the app wants one.                              *)
MintReturns(c) ==
    /\ pc[c] = "minted"
    /\ cached' = tok[c] /\ since' = [since EXCEPT ![c] = events]
    /\ \/ Goto(c, "sent") /\ lock' = NONE
       \/ Goto(c, "handing") /\ UNCHANGED lock
    /\ UNCHANGED <<appVars, tok, stale, work, again, told, events>>

(* Mutant: a failed mint keeps the lock.                                   *)
Mut_MintFails(c) ==
    /\ \/ pc[c] = "minting" /\ UNCHANGED events
       \/ pc[c] = "minted" /\ Event
    /\ Return(c, "failed")
    /\ UNCHANGED <<cached, lock, appVars, told>>

(* The app does not mint, its response is lost or is not for this person:  *)
(* the call fails and no other token is asked for.                         *)
MintFails(c) ==
    /\ \/ pc[c] = "minting" /\ UNCHANGED events
       \/ pc[c] = "minted" /\ Event
    /\ lock' = NONE
    /\ Return(c, "failed")
    /\ UNCHANGED <<cached, appVars, told>>

HandingEnds(c) ==
    /\ pc[c] = "handing"
    /\ Goto(c, "sent")
    /\ lock' = NONE
    /\ UNCHANGED <<cached, appVars, tok, stale, work, again, since, told, events>>

-----------------------------------------------------------------------------
(* The call                                                                *)

(* The app takes the token and does the next part of the call.             *)
AppWorks(c) ==
    /\ pc[c] = "sent" /\ tok[c] \in live /\ work[c] < Parts
    /\ work' = [work EXCEPT ![c] = @ + 1]
    /\ UNCHANGED <<cached, lock, appVars, pc, tok, stale, again, since, told, events>>

AppAnswers(c) ==
    /\ pc[c] = "sent" /\ work[c] = Parts
    /\ Return(c, "ok")
    /\ UNCHANGED <<cached, lock, appVars, told, events>>

(* Mutant: whatever is in the cache goes.                                  *)
Mut_Forget(c) == cached' = NONE

(* _forget_user_pat.                                                       *)
Forget(c) == cached' = IF cached = tok[c] THEN NONE ELSE cached

(* Back for a token that is not this one.                                  *)
ComesAgain(c) ==
    /\ Goto(c, "lock")
    /\ stale' = [stale EXCEPT ![c] = tok[c]]
    /\ tok' = [tok EXCEPT ![c] = NONE]
    /\ again' = [again EXCEPT ![c] = TRUE]
    /\ work' = [work EXCEPT ![c] = 0]
    /\ since' = [since EXCEPT ![c] = 0]

(* The app answers 401.                                                    *)
AppRejects(c) ==
    /\ pc[c] = "sent" /\ tok[c] \notin live /\ work[c] < Parts
    /\ \/ /\ c \in Tool \cup RestCall /\ ~again[c]
          /\ ComesAgain(c)
       \/ /\ again[c] \/ c \notin Tool \cup RestCall
          /\ Return(c, "rejected")
    /\ IF c \in Bridge \/ (c \in RestCall /\ ~again[c]) THEN Forget(c) ELSE UNCHANGED cached
    /\ UNCHANGED <<lock, appVars, told, events>>

(* Anything else that goes wrong, running out of time included.            *)
CallFails(c) ==
    /\ pc[c] = "sent"
    /\ Return(c, "failed")
    /\ UNCHANGED <<cached, lock, appVars, told, events>>

-----------------------------------------------------------------------------
(* From outside                                                            *)

(* The app no longer takes a token.                                        *)
Revoked(t) ==
    /\ t \in live
    /\ Event
    /\ live' = live \ {t}
    /\ UNCHANGED <<cached, lock, issued, callVars, told>>

(* USER_PAT_TTL_S, or two minutes before the token ends.                   *)
Expires ==
    /\ cached # NONE
    /\ Event
    /\ cached' = NONE
    /\ UNCHANGED <<lock, appVars, callVars, told>>

(* /conn-invalidate.                                                       *)
Invalidate ==
    /\ Event
    /\ cached' = NONE
    /\ told' = issued
    /\ UNCHANGED <<lock, appVars, callVars>>

-----------------------------------------------------------------------------
Minting(c) == BeginsMint(c) \/ AppMints(c) \/ MintReturns(c) \/ MintFails(c) \/ HandingEnds(c)
Sending(c) == AppWorks(c) \/ AppAnswers(c) \/ AppRejects(c) \/ CallFails(c)
CallStep(c) == CallStarts(c) \/ TakesCached(c) \/ Minting(c) \/ Sending(c)
Outside == (\E t \in 1 .. issued : Revoked(t)) \/ Expires \/ Invalidate

Next == (\E c \in Calls : CallStep(c)) \/ Outside

Spec == Init /\ [][Next]_vars

(* Every request has a deadline, every handing over a budget, and the lock *)
(* goes to the first in line: who waits for it gets it if it comes free    *)
(* again and again.  No app need ever answer.                              *)
Gets(c) == TakesCached(c) \/ BeginsMint(c)
Ends(c) == MintReturns(c) \/ MintFails(c) \/ HandingEnds(c) \/ AppRejects(c) \/ CallFails(c)
Fairness == \A c \in Calls : SF_vars(Gets(c)) /\ WF_vars(Ends(c))
FairSpec == Spec /\ Fairness

-----------------------------------------------------------------------------
(* Properties                                                              *)

(* Every variable has its type; a call has a token in hand exactly from    *)
(* the time it gets one until it is refused or returns.                    *)
TypeOK ==
    /\ cached \in Nat \cup {NONE} /\ lock \in Calls \cup {NONE}
    /\ issued \in Nat /\ live \subseteq 1 .. issued
    /\ pc \in [Calls -> {"new", "lock", "minting", "minted", "handing", "sent"} \cup Finished]
    /\ tok \in [Calls -> Nat \cup {NONE}] /\ stale \in [Calls -> Nat \cup {NONE}]
    /\ work \in [Calls -> 0 .. Parts] /\ again \in [Calls -> BOOLEAN]
    /\ \A c \in Calls : tok[c] = NONE <=> pc[c] \notin {"minted", "handing", "sent"}
    /\ told \in Nat /\ since \in [Calls -> 0 .. MaxEvents] /\ events \in 0 .. MaxEvents

(* However many calls are refused at once, each event costs one mint: a    *)
(* mint revokes what others carry, so a mint too many refuses them in turn.*)
OneMintPerEvent == issued <= 1 + events

(* A call that comes again is refused a second time only if two things     *)
(* happened to the person's tokens: the mint of another call is never      *)
(* enough.                                                                 *)
RefusedTwiceNeedsTwo ==
    \A c \in Tool \cup RestCall : pc[c] = "rejected" => events >= 2

(* A token that works leaves the cache only because something happened to  *)
(* it: never because an older one was refused.                             *)
WorkingTokenStays == [][(cached \in live /\ cached' # cached) => events' # events]_vars

(* A call is sent again after part of it was carried out only if something *)
(* happened to the person's tokens after it had got its own: no call makes *)
(* the app end a token that another is at work with, however the first     *)
(* calls, the refused ones and the mints overlap.  The comment at          *)
(* _TOKEN_REJECTED goes further - a 401 is cut off at authentication, so   *)
(* nothing is ever done twice - and that is not so of an app that makes    *)
(* several requests of one call (Parts > 1): the token may end, or be      *)
(* renewed because its time in the cache is over, between two of them.     *)
RepeatNeedsEvent ==
    [][\A c \in Calls : pc[c] = "sent" /\ work[c] > 0 /\ pc'[c] = "lock"
            => events > since[c]]_vars

(* Every call returns: a mint that fails gives the lock back.              *)
EveryCallReturns == \A c \in Calls : pc[c] = "lock" ~> pc[c] \in Finished

-----------------------------------------------------------------------------
(* The inductive invariant behind the safety properties                    *)

(* Only who holds the lock mints or hands over.                            *)
LockInv == \A c \in Calls : pc[c] \in {"minting", "minted", "handing"} => lock = c

(* Tokens under way are tokens the app has minted, the newest while its    *)
(* response is on the way; a refused one is dead for good, and a call that *)
(* comes again carries another.                                            *)
TokenInv ==
    /\ cached # NONE => cached \in 1 .. issued
    /\ \A c \in Calls :
          /\ pc[c] = "minted" => tok[c] = issued
          /\ pc[c] \in {"minted", "handing", "sent"} => tok[c] \in 1 .. issued
          /\ stale[c] # NONE => stale[c] \in (1 .. issued) \ live
          /\ again[c] => stale[c] # NONE
          /\ pc[c] \in {"minted", "handing", "sent"} => tok[c] # stale[c]

(* A mint begins only when the cache has nothing that works.               *)
MintInv ==
    \A c \in Calls : pc[c] \in {"minting", "minted"} => cached \notin live

(* The account: a mint is owed an event as soon as the newest token or the *)
(* cached one is dead or gone.                                             *)
EventInv ==
    /\ issued <= 1 + events
    /\ issued \notin live => issued <= events
    /\ cached \notin live => issued <= events \/ \E c \in Calls : pc[c] = "minted"

(* Until something happens, the token of a call at work is the cached one  *)
(* and works; one that is not cached any more was dead when it was handed  *)
(* out or has ended.                                                       *)
WorkInv ==
    \A c \in Calls :
        /\ since[c] <= events
        /\ pc[c] \in {"handing", "sent"} /\ since[c] = events =>
              /\ tok[c] \in live => cached = tok[c]
              /\ work[c] > 0 => tok[c] \in live
        /\ pc[c] # "sent" => work[c] = 0

IInv ==
    /\ TypeOK /\ LockInv /\ TokenInv /\ MintInv /\ EventInv /\ RefusedTwiceNeedsTwo
    /\ WorkInv

-----------------------------------------------------------------------------
(* What the comments say of the code, and the code does not do             *)

(* /conn-invalidate: the connection has changed, so the delegated token is *)
(* obtained anew.  A mint under way at that time puts the token of before  *)
(* the change into the cache afterwards.                                   *)
AnnouncedChangeRemints == cached # NONE => cached > told

=============================================================================
