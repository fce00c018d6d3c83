--------------------------- MODULE BackendSession ---------------------------
(***************************************************************************)
(* One backend of the gateway: the resident MCP session that every caller  *)
(* shares (class _Backend), the revive pass that probes and rebuilds it    *)
(* (_revive_once_locked, _aggregate, _probe_missed), and the tool calls    *)
(* that run over it and rebuild it themselves when it breaks               *)
(* (_call_shared and the tail of _call_tool_body).                         *)
(*                                                                         *)
(* Everything runs on one asyncio loop: a step here is the code between    *)
(* two awaits.  A session is named by the generation whose run() opened    *)
(* it, and so are the events _ready and _stop that reconnect replaces.     *)
(*                                                                         *)
(* MaxFaults bounds what the environment may do wrong in one behaviour:    *)
(* broken connections, failed or overdue handshakes, late answers to a     *)
(* probe.  Timeouts of calls are not counted.  MaxClosing bounds how many  *)
(* replaced sessions may still be closing when another is replaced.        *)
(***************************************************************************)
EXTENDS Naturals, FiniteSets

CONSTANTS
    Calls,      \* tool calls; each is made once, with at most one retry
    Fwd,        \* the calls that carry an identity (IDENTITY_FWD): they open a session of their own
    Reviver,    \* the task that runs the revive pass
    Strikes,    \* LIVENESS_STRIKES: probes missed in a row before the session is given up
    MaxFaults,  \* bound: faults of the environment in one behaviour
    MaxClosing, \* bound: sessions told to stop and still closing
    NONE        \* no session, no run, nobody

ASSUME SessionAssumption ==
    /\ Fwd \subseteq Calls
    /\ Reviver \notin Calls
    /\ NONE \notin Calls \cup {Reviver} \cup Nat
    /\ Strikes \in Nat \ {0}
    /\ MaxFaults \in Nat
    /\ MaxClosing \in Nat \ {0}

VARIABLES
    session,   \* b.session: the generation of the session calls use, or NONE
    gen,       \* b._gen
    lock,      \* who holds b._recon_lock
    starting,  \* generations whose run() is in its handshake
    parked,    \* generations whose run() waits for the stop event of the moment, b._stop
    closing,   \* generations whose run() has been told to stop and has not ended
    ready,     \* generations whose ready event is set
    broken,    \* sessions whose connection is gone at the other end
    miss,      \* _LIVENESS_MISS: probes missed in a row
    reagg,     \* _REAGG["pending"]
    routed,    \* the catalog has this backend's tools: calls can reach it
    faults,    \* faults so far
    pc,        \* where each call stands
    seen,      \* _gen as the call captured it
    used,      \* the session the call was last sent on
    sends,     \* times the call was sent to the backend
    retried,   \* the call is on its second attempt
    cause,     \* e: why the first attempt failed
    awaits,    \* the generation whose ready event a call or the pass waits for
    rpc,       \* where the revive pass stands
    probed,    \* the session the last list_tools went to
    revived    \* the local of _revive_once_locked

runVars  == <<session, gen, lock, starting, parked, closing, ready>>
callVars == <<pc, seen, used, sends, retried, cause>>
revVars  == <<rpc, probed, revived>>
vars == <<runVars, broken, miss, reagg, routed, faults, callVars, awaits, revVars>>

InFlight  == {"flight", "released"}
Finished  == {"ok", "late", "error"}
CallState == {"new", "oneshot", "lock", "held", "starting", "ready"} \cup InFlight \cup Finished
PassState == {"join", "joined", "sleep", "probing", "recon", "lock", "held", "starting",
              "ready", "end", "agg", "listing"}
Cause     == {"none", "down", "closed", "raised"}

(* A backend that joins: the pass has just started its first run().        *)
Init ==
    /\ session = NONE /\ gen = 0 /\ lock = NONE /\ starting = {0}
    /\ parked = {} /\ closing = {} /\ ready = {} /\ broken = {}
    /\ miss = 0 /\ reagg = FALSE /\ routed = FALSE /\ faults = 0
    /\ pc = [c \in Calls |-> "new"]
    /\ seen = [c \in Calls |-> 0]
    /\ used = [c \in Calls |-> NONE]
    /\ sends = [c \in Calls |-> 0]
    /\ retried = [c \in Calls |-> FALSE]
    /\ cause = [c \in Calls |-> "none"]
    /\ awaits = [p \in Calls \cup {Reviver} |-> 0]
    /\ rpc = "join" /\ probed = NONE /\ revived = FALSE

Fault == faults < MaxFaults /\ faults' = faults + 1

(* The other end of session s is gone, or run() has closed it.             *)
Dead(s) == s \in broken \/ s \notin parked \cup closing

-----------------------------------------------------------------------------
(* _Backend.run                                                            *)

(* The run parks on the stop event it finds when the handshake is over.    *)
HandshakeDone(g) ==
    /\ g \in starting
    /\ session' = g
    /\ parked' = parked \cup {g}
    /\ ready' = ready \cup {g}
    /\ starting' = starting \ {g}
    /\ UNCHANGED <<gen, lock, closing, broken, miss, reagg, routed, faults, callVars, awaits, revVars>>

HandshakeFails(g) ==
    /\ g \in starting
    /\ Fault
    /\ session' = NONE
    /\ ready' = ready \cup {g}
    /\ starting' = starting \ {g}
    /\ UNCHANGED <<gen, lock, parked, closing, broken, miss, reagg, routed, callVars, awaits, revVars>>

(* A run leaves: told to stop, or because its connection raised - broken,  *)
(* or while it was being closed.  The except branch then clears            *)
(* self.session, whoever's it is.                                          *)
RunEnds(g) ==
    /\ g \in parked \cup closing
    /\ parked' = parked \ {g}
    /\ closing' = closing \ {g}
    /\ broken' = broken \ {g}
    /\ \/ g \in closing /\ UNCHANGED <<session, faults>>
       \/ g \in broken /\ session' = NONE /\ UNCHANGED faults
       \/ g \in closing \ broken /\ session' = NONE /\ Fault
    /\ UNCHANGED <<gen, lock, starting, ready, miss, reagg, routed, callVars, awaits, revVars>>

(* The backend restarts: the sessions it served are gone at its end.       *)
BackendRestarts ==
    /\ (parked \cup closing) \ broken # {}
    /\ Fault
    /\ broken' = parked \cup closing
    /\ UNCHANGED <<runVars, miss, reagg, routed, callVars, awaits, revVars>>

(* Mutant: the finally clause forgets the ready event.                     *)
Mut_CancelStart(p) ==
    /\ awaits[p] \in starting
    /\ Fault
    /\ starting' = starting \ {awaits[p]}
    /\ UNCHANGED ready

(* p waits in tg.start(run) and its deadline fires: the child is cancelled *)
(* with it, and its finally clause still sets the ready event.             *)
CancelStart(p) ==
    /\ awaits[p] \in starting
    /\ Fault
    /\ ready' = ready \cup {awaits[p]}
    /\ starting' = starting \ {awaits[p]}

-----------------------------------------------------------------------------
(* _Backend.reconnect, in the steps its awaits allow: lock, replace, start *)

(* Mutant: no lock.                                                        *)
Mut_Acquire(p) ==
    /\ lock' = p
    /\ UNCHANGED <<session, gen, starting, parked, closing, ready>>

Acquire(p) ==
    /\ lock = NONE
    /\ lock' = p
    /\ UNCHANGED <<session, gen, starting, parked, closing, ready>>

(* Mutant: the old run is not told to stop.                                *)
Mut_ReplaceNoStop(p) ==
    /\ session' = NONE
    /\ gen' = gen + 1
    /\ starting' = starting \cup {gen + 1}
    /\ awaits' = [awaits EXCEPT ![p] = gen + 1]
    /\ UNCHANGED <<lock, parked, closing, ready>>

(* Mutant: the old session stays installed during the handshake.           *)
Mut_ReplaceKeepsSession(p) ==
    /\ Cardinality(closing) < MaxClosing
    /\ closing' = closing \cup parked
    /\ parked' = {}
    /\ gen' = gen + 1
    /\ starting' = starting \cup {gen + 1}
    /\ awaits' = [awaits EXCEPT ![p] = gen + 1]
    /\ UNCHANGED <<session, lock, ready>>

(* p, holding the lock, sets the stop event and starts a new generation.   *)
Replace(p) ==
    /\ Cardinality(closing) < MaxClosing
    /\ closing' = closing \cup parked
    /\ parked' = {}
    /\ session' = NONE
    /\ gen' = gen + 1
    /\ starting' = starting \cup {gen + 1}
    /\ awaits' = [awaits EXCEPT ![p] = gen + 1]
    /\ UNCHANGED <<lock, ready>>

(* Leaving the lock, p goes on to wait for the ready event of the moment.  *)
LeaveLock(p) ==
    /\ lock' = NONE
    /\ awaits' = [awaits EXCEPT ![p] = gen]
    /\ UNCHANGED <<session, gen, starting, parked, closing, ready>>

Release(p) == lock' = IF lock = p THEN NONE ELSE lock

(* The deadline around reconnect and the ready wait fires on p: queued     *)
(* behind the holder of the lock, during the handshake, on an event nobody *)
(* has set, or in the instant before it would have got through.            *)
DeadlineFires(p, at) ==
    \/ at = "lock" /\ lock # NONE /\ UNCHANGED <<starting, ready, faults>>
    \/ at = "starting" /\ CancelStart(p)
    \/ at = "ready" /\ awaits[p] \notin ready /\ UNCHANGED <<starting, ready, faults>>
    \/ /\ at \in {"starting", "ready"} /\ awaits[p] \notin starting
       /\ Fault
       /\ UNCHANGED <<starting, ready>>

-----------------------------------------------------------------------------
(* Tool calls: _call_shared, _oneshot, and the retry of _call_tool_body    *)

Goto(c, l) == pc' = [pc EXCEPT ![c] = l]

(* The call returns to its caller; its locals go.                          *)
Return(c, l) ==
    /\ Goto(c, l)
    /\ seen' = [seen EXCEPT ![c] = 0]
    /\ used' = [used EXCEPT ![c] = NONE]
    /\ sends' = [sends EXCEPT ![c] = 0]
    /\ retried' = [retried EXCEPT ![c] = FALSE]
    /\ cause' = [cause EXCEPT ![c] = "none"]
    /\ awaits' = [awaits EXCEPT ![c] = 0]

(* One attempt.  The session is read and the request sent without an await *)
(* in between.                                                             *)
Send(c) ==
    \/ /\ c \in Fwd
       /\ Goto(c, "oneshot")
       /\ sends' = [sends EXCEPT ![c] = @ + 1]
       /\ UNCHANGED <<used, cause>>
    \/ /\ c \notin Fwd /\ session # NONE
       /\ Goto(c, "flight")
       /\ used' = [used EXCEPT ![c] = session]
       /\ sends' = [sends EXCEPT ![c] = @ + 1]
       /\ UNCHANGED cause
    \/ /\ c \notin Fwd /\ session = NONE
       /\ Goto(c, "lock")
       /\ cause' = [cause EXCEPT ![c] = "down"]
       /\ UNCHANGED <<used, sends>>

CallStarts(c) ==
    /\ pc[c] = "new" /\ routed
    /\ seen' = [seen EXCEPT ![c] = gen]
    /\ Send(c)
    /\ UNCHANGED <<runVars, broken, miss, reagg, routed, faults, retried, awaits, revVars>>

(* An answer needs a session that is open at both ends.  One that arrived  *)
(* before the cancellation of a released call is still returned.           *)
CallAnswered(c) ==
    /\ \/ pc[c] \in InFlight /\ ~Dead(used[c])
       \/ pc[c] = "oneshot"
    /\ Return(c, "ok")
    /\ UNCHANGED <<runVars, broken, miss, reagg, routed, faults, revVars>>

(* An exception other than _Late: the first sends the call to reconnect,   *)
(* the second is returned as an error result.                              *)
CallRaises(c, why) ==
    /\ \/ /\ ~retried[c]
          /\ Goto(c, "lock")
          /\ cause' = [cause EXCEPT ![c] = why]
          /\ UNCHANGED <<seen, used, sends, retried, awaits>>
       \/ /\ retried[c]
          /\ Return(c, "error")
    /\ UNCHANGED <<runVars, broken, miss, reagg, routed, faults, revVars>>

(* The connection failed under the call.                                   *)
CallLosesSession(c) ==
    /\ \/ pc[c] \in InFlight /\ Dead(used[c])
       \/ pc[c] = "oneshot"
    /\ CallRaises(c, "closed")

(* The backend answered with a JSON-RPC error: the client raises McpError  *)
(* although the session is fine.                                           *)
CallRefused(c) ==
    /\ \/ pc[c] \in InFlight /\ ~Dead(used[c])
       \/ pc[c] = "oneshot"
    /\ CallRaises(c, "raised")

(* Mutant: a call that runs out of time is retried like a broken one.      *)
Mut_CallTimesOutRetries(c) ==
    /\ pc[c] \in InFlight \cup {"oneshot"}
    /\ IF retried[c]
       THEN Return(c, "late")
       ELSE Goto(c, "lock") /\ UNCHANGED <<seen, used, sends, retried, cause, awaits>>
    /\ UNCHANGED <<runVars, broken, miss, reagg, routed, faults, revVars>>

(* Mutant: no CALL_TIMEOUT, only released calls return.                    *)
Mut_CallTimesOutNever(c) ==
    /\ pc[c] = "released"
    /\ Return(c, "late")
    /\ UNCHANGED <<runVars, broken, miss, reagg, routed, faults, revVars>>

(* CALL_TIMEOUT (or the handshake limit of a one-shot session), or the     *)
(* scope was cancelled by _release_inflight.                               *)
CallTimesOut(c) ==
    /\ pc[c] \in InFlight \cup {"oneshot"}
    /\ Return(c, "late")
    /\ UNCHANGED <<runVars, broken, miss, reagg, routed, faults, revVars>>

CallAcquires(c) ==
    /\ pc[c] = "lock"
    /\ Acquire(c)
    /\ Goto(c, "held")
    /\ UNCHANGED <<broken, miss, reagg, routed, faults, seen, used, sends, retried, cause, awaits, revVars>>

(* Mutant: the generation the call saw is not compared.                    *)
Mut_CallReconnects(c) ==
    /\ pc[c] = "held"
    /\ Replace(c)
    /\ Goto(c, "starting")
    /\ UNCHANGED <<broken, miss, reagg, routed, faults, seen, used, sends, retried, cause, revVars>>

(* Under the lock: replace the session only if it is still the generation  *)
(* this call saw.                                                          *)
CallReconnects(c) ==
    /\ pc[c] = "held"
    /\ \/ /\ seen[c] = gen
          /\ Replace(c)
          /\ Goto(c, "starting")
       \/ /\ seen[c] # gen
          /\ LeaveLock(c)
          /\ Goto(c, "ready")
    /\ UNCHANGED <<broken, miss, reagg, routed, faults, seen, used, sends, retried, cause, revVars>>

CallStartReturns(c) ==
    /\ pc[c] = "starting" /\ awaits[c] \notin starting
    /\ LeaveLock(c)
    /\ Goto(c, "ready")
    /\ UNCHANGED <<broken, miss, reagg, routed, faults, seen, used, sends, retried, cause, revVars>>

(* RECONNECT_TIMEOUT covers the whole of reconnect and the ready wait.     *)
CallReconnectTimesOut(c) ==
    /\ DeadlineFires(c, pc[c])
    /\ Release(c)
    /\ Return(c, "late")
    /\ UNCHANGED <<session, gen, parked, closing, broken, miss, reagg, routed, revVars>>

CallRetries(c) ==
    /\ pc[c] = "ready" /\ awaits[c] \in ready
    /\ \/ /\ session # NONE
          /\ reagg' = TRUE
          /\ retried' = [retried EXCEPT ![c] = TRUE]
          /\ Send(c)
          /\ UNCHANGED <<seen, awaits>>
       \/ /\ session = NONE
          /\ Return(c, "error")
          /\ UNCHANGED reagg
    /\ UNCHANGED <<runVars, broken, miss, routed, faults, revVars>>

-----------------------------------------------------------------------------
(* The revive pass, for this backend                                       *)

(* Mutant: the session is given up, its calls are not let go.              *)
Mut_GiveUp ==
    /\ miss' = 0
    /\ session' = NONE
    /\ UNCHANGED <<gen, lock, starting, parked, closing, ready, callVars>>

(* _probe_missed once it gives the session up, with _release_inflight:     *)
(* every call in flight under the backend's key is let go.                 *)
GiveUp ==
    /\ miss' = 0
    /\ session' = NONE
    /\ pc' = [c \in Calls |-> IF pc[c] = "flight" THEN "released" ELSE pc[c]]
    /\ UNCHANGED <<gen, lock, starting, parked, closing, ready, seen, used, sends, retried, cause>>

(* _first_connect, under its deadline, then the wait for the ready event,  *)
(* which has none.                                                         *)
PassJoins ==
    /\ rpc = "join"
    /\ \/ awaits[Reviver] \notin starting /\ UNCHANGED <<starting, ready, faults>>
       \/ CancelStart(Reviver)
    /\ rpc' = "joined"
    /\ UNCHANGED <<session, gen, lock, parked, closing, broken, miss, reagg, routed, callVars, awaits, probed, revived>>

Probe ==
    /\ IF session # NONE
       THEN rpc' = "probing" /\ probed' = session
       ELSE rpc' = "recon" /\ UNCHANGED probed
    /\ UNCHANGED <<runVars, broken, miss, reagg, routed, faults, callVars, awaits>>

PassJoined ==
    /\ rpc = "joined" /\ awaits[Reviver] \in ready
    /\ revived' = (session # NONE)
    /\ Probe

PassBegins ==
    /\ rpc = "sleep"
    /\ UNCHANGED revived
    /\ Probe

(* The tool fingerprint may have changed: the pass then re-aggregates.     *)
ProbeAnswered ==
    /\ rpc = "probing" /\ ~Dead(probed)
    /\ miss' = 0
    /\ revived' \in {revived, TRUE}
    /\ rpc' = "recon"
    /\ probed' = NONE
    /\ UNCHANGED <<runVars, broken, reagg, routed, faults, callVars, awaits>>

(* Mutant: a probe that is not answered counts for nothing.                *)
Mut_ProbeTimesOut ==
    /\ rpc = "probing"
    /\ IF Dead(probed) THEN UNCHANGED faults ELSE Fault
    /\ UNCHANGED <<miss, runVars, callVars>>
    /\ rpc' = "recon"
    /\ probed' = NONE
    /\ UNCHANGED <<broken, reagg, routed, awaits, revived>>

ProbeTimesOut ==
    /\ rpc = "probing"
    /\ IF Dead(probed) THEN UNCHANGED faults ELSE Fault
    /\ IF miss + 1 < Strikes
       THEN miss' = miss + 1 /\ UNCHANGED <<runVars, callVars>>
       ELSE GiveUp
    /\ rpc' = "recon"
    /\ probed' = NONE
    /\ UNCHANGED <<broken, reagg, routed, awaits, revived>>

ProbeRaises ==
    /\ rpc = "probing"
    /\ IF Dead(probed) THEN UNCHANGED faults ELSE Fault
    /\ GiveUp
    /\ rpc' = "recon"
    /\ probed' = NONE
    /\ UNCHANGED <<broken, reagg, routed, awaits, revived>>

PassChecksSession ==
    /\ rpc = "recon"
    /\ rpc' = IF session = NONE THEN "lock" ELSE "end"
    /\ UNCHANGED <<runVars, broken, miss, reagg, routed, faults, callVars, awaits, probed, revived>>

PassAcquires ==
    /\ rpc = "lock"
    /\ Acquire(Reviver)
    /\ rpc' = "held"
    /\ UNCHANGED <<broken, miss, reagg, routed, faults, callVars, awaits, probed, revived>>

(* The pass names no generation: it replaces whatever session it finds.    *)
PassReconnects ==
    /\ rpc = "held"
    /\ Replace(Reviver)
    /\ rpc' = "starting"
    /\ UNCHANGED <<broken, miss, reagg, routed, faults, callVars, probed, revived>>

PassStartReturns ==
    /\ rpc = "starting" /\ awaits[Reviver] \notin starting
    /\ LeaveLock(Reviver)
    /\ rpc' = "ready"
    /\ UNCHANGED <<broken, miss, reagg, routed, faults, callVars, probed, revived>>

(* LIVENESS_TIMEOUT covers reconnect and the ready wait of the pass.       *)
PassReconnectTimesOut ==
    /\ DeadlineFires(Reviver, rpc)
    /\ Release(Reviver)
    /\ rpc' = "end"
    /\ UNCHANGED <<session, gen, parked, closing, broken, miss, reagg, routed, callVars, awaits, probed, revived>>

PassReady ==
    /\ rpc = "ready" /\ awaits[Reviver] \in ready
    /\ revived' = (revived \/ session # NONE)
    /\ rpc' = "end"
    /\ UNCHANGED <<runVars, broken, miss, reagg, routed, faults, callVars, awaits, probed>>

PassEnds ==
    /\ rpc = "end"
    /\ rpc' = IF revived \/ reagg THEN "agg" ELSE "sleep"
    /\ reagg' = FALSE
    /\ revived' = FALSE
    /\ UNCHANGED <<runVars, broken, miss, routed, faults, callVars, awaits, probed>>

(* _aggregate: without a session, or with a start still under way, the     *)
(* last list is kept; otherwise list_tools decides.                        *)
AggregateAsks ==
    /\ rpc = "agg"
    /\ IF session # NONE /\ gen \in ready
       THEN rpc' = "listing" /\ probed' = session
       ELSE rpc' = "sleep" /\ UNCHANGED probed
    /\ UNCHANGED <<runVars, broken, miss, reagg, routed, faults, callVars, awaits, revived>>

AggregateListed ==
    /\ rpc = "listing" /\ ~Dead(probed)
    /\ miss' = 0
    /\ routed' = TRUE
    /\ rpc' = "sleep"
    /\ probed' = NONE
    /\ UNCHANGED <<runVars, broken, reagg, faults, callVars, awaits, revived>>

(* Mutant: list_tools has no deadline in _aggregate.                       *)
Mut_AggregateTimesOut ==
    /\ rpc = "listing" /\ ~Dead(probed)
    /\ Fault
    /\ reagg' = TRUE
    /\ rpc' = "sleep"
    /\ probed' = NONE
    /\ UNCHANGED <<runVars, broken, miss, routed, callVars, awaits, revived>>

AggregateTimesOut ==
    /\ rpc = "listing"
    /\ IF Dead(probed) THEN UNCHANGED faults ELSE Fault
    /\ reagg' = TRUE
    /\ rpc' = "sleep"
    /\ probed' = NONE
    /\ UNCHANGED <<runVars, broken, miss, routed, callVars, awaits, revived>>

AggregateRaises ==
    /\ rpc = "listing"
    /\ IF Dead(probed) THEN UNCHANGED faults ELSE Fault
    /\ GiveUp
    /\ rpc' = "sleep"
    /\ probed' = NONE
    /\ UNCHANGED <<broken, reagg, routed, awaits, revived>>

-----------------------------------------------------------------------------
HandshakeEnds == \E g \in starting : HandshakeDone(g) \/ HandshakeFails(g)
StoppedRunEnds == \E g \in closing : RunEnds(g)
RunStep == HandshakeEnds \/ \E g \in parked \cup closing : RunEnds(g)

CallAnswers(c) == CallAnswered(c) \/ CallLosesSession(c) \/ CallRefused(c)

CallProceeds(c) ==
    \/ CallTimesOut(c)
    \/ CallAcquires(c) \/ CallReconnects(c) \/ CallStartReturns(c)
    \/ CallReconnectTimesOut(c) \/ CallRetries(c)

PassStep ==
    \/ PassJoins \/ PassJoined \/ PassBegins
    \/ ProbeAnswered \/ ProbeTimesOut
    \/ PassChecksSession \/ PassAcquires \/ PassReconnects \/ PassStartReturns
    \/ PassReconnectTimesOut \/ PassReady \/ PassEnds
    \/ AggregateAsks \/ AggregateListed \/ AggregateTimesOut

Next ==
    \/ RunStep
    \/ BackendRestarts
    \/ \E c \in Calls : CallStarts(c) \/ CallAnswers(c) \/ CallProceeds(c)
    \/ PassStep
    \/ ProbeRaises
    \/ AggregateRaises

Spec == Init /\ [][Next]_vars

(* The loop runs every task that can run and the deadlines fire.  A live   *)
(* backend answers handshakes and probes (MaxFaults times it may not), and *)
(* a run that was told to stop leaves.  A run parked on a session that is  *)
(* gone at the other end need not notice, and no call need be answered.    *)
Fairness ==
    /\ WF_vars(HandshakeEnds)
    /\ WF_vars(StoppedRunEnds)
    /\ WF_vars(PassStep)
    /\ \A c \in Calls : WF_vars(CallProceeds(c))

FairSpec == Spec /\ Fairness

-----------------------------------------------------------------------------
(* Properties                                                              *)

(* Every variable has its type.                                            *)
TypeOK ==
    /\ session \in Nat \cup {NONE}
    /\ gen \in Nat
    /\ lock \in Calls \cup {Reviver, NONE}
    /\ starting \subseteq Nat /\ parked \subseteq Nat /\ closing \subseteq Nat
    /\ ready \subseteq Nat /\ broken \subseteq Nat
    /\ miss \in 0 .. Strikes - 1
    /\ reagg \in BOOLEAN /\ routed \in BOOLEAN
    /\ faults \in 0 .. MaxFaults
    /\ pc \in [Calls -> CallState]
    /\ seen \in [Calls -> Nat]
    /\ used \in [Calls -> Nat \cup {NONE}]
    /\ sends \in [Calls -> 0 .. 2]
    /\ retried \in [Calls -> BOOLEAN]
    /\ cause \in [Calls -> Cause]
    /\ awaits \in [Calls \cup {Reviver} -> Nat]
    /\ rpc \in PassState
    /\ probed \in Nat \cup {NONE}
    /\ revived \in BOOLEAN

(* However calls and the revive pass overlap in reconnect, the backend     *)
(* never has two sessions that nobody has told to stop: "sessions survive  *)
(* in numbers" is what _recon_lock is for.                                 *)
OneUnstoppedRun == \A g, h \in parked \cup starting : g = h

(* The session calls are sent on is always the newest generation's, and    *)
(* its run() is parked on the stop event the next reconnect will set: no   *)
(* overtaken handshake is ever installed.                                  *)
SessionIsCurrent == session # NONE => session = gen /\ session \in parked

(* Whoever waits for a ready event waits for one that is set or that a     *)
(* handshake under way will set: a start cancelled by a deadline must not  *)
(* leave a waiter behind for ever.                                         *)
NoLostWaiter ==
    /\ \A c \in Calls : pc[c] = "ready" => awaits[c] \in ready \cup starting
    /\ rpc \in {"joined", "ready"} => awaits[Reviver] \in ready \cup starting

(* A call is sent to the backend twice only if its first attempt ended in  *)
(* an exception, and never a third time: a call that ran out of time, or   *)
(* was let go, may still be at work there and is not sent again.           *)
AtMostOneRetry ==
    \A c \in Calls : sends[c] = 2 => retried[c] /\ cause[c] \in {"closed", "raised"}

(* A call that carries an identity never travels on the resident session,  *)
(* which speaks for the service account - on its retry either.             *)
IdentityNeverUsesResident == \A c \in Fwd : pc[c] \notin InFlight /\ used[c] = NONE

(* When the session is given up while every run() stays as it was - so     *)
(* that no closing connection will ever tell its calls - no call is left   *)
(* waiting for an answer: it would sit out CALL_TIMEOUT.                   *)
GivenUpCallsAreReleased ==
    [][session # NONE /\ session' = NONE /\ <<gen, parked, closing>>' = <<gen, parked, closing>>
         => \A c \in Calls : pc'[c] # "flight"]_vars

(* A call that was using session s and failed tears down s or nothing: if  *)
(* another call has already rebuilt the session, the new one is left alone.*)
UserSparesNewerSession ==
    [][\A c \in Calls :
          lock = c /\ gen' # gen /\ used[c] # NONE => used[c] = gen]_vars

(* Every call returns, whatever the backend and the other calls do: each   *)
(* wait of the call path has a deadline or an event that is always set.    *)
EveryCallReturns == \A c \in Calls : pc[c] # "new" ~> pc[c] \in Finished

(* The revive pass always comes back to sleep: one backend that hangs must *)
(* not freeze the probes and the reconnection of the others.               *)
PassReturns == rpc # "sleep" ~> rpc = "sleep"

(* Once the environment stops failing, calls find a session that is open   *)
(* at both ends again and again: no failure is final, and a session whose  *)
(* backend went away under a parked run - which raises nothing, the        *)
(* comment at _revive_once_locked - is found out and replaced.             *)
Recovers == []<>(session # NONE /\ ~Dead(session))

(* A session left parked when it was given up or overtaken is closed in    *)
(* the end: none leaks.                                                    *)
GivenUpSessionCloses ==
    \A g \in 0 .. MaxFaults + 2 :
        g \in parked \cup closing /\ session # g ~> g \notin parked \cup closing

-----------------------------------------------------------------------------
(* The inductive invariant behind the safety properties                    *)

Reconnecting == {"lock", "held", "starting", "ready"}

(* The lock has one holder, and only the holder has a start under way -    *)
(* except while the backend joins, when nobody else can reach it.          *)
LockInv ==
    /\ \A c \in Calls : pc[c] \in {"held", "starting"} => lock = c
    /\ rpc \in {"held", "starting"} => lock = Reviver
    /\ starting # {} => \/ rpc \in {"join", "starting"}
                       \/ \E c \in Calls : pc[c] = "starting"
    /\ rpc = "join" => /\ gen = 0 /\ lock = NONE /\ ~routed
                       /\ \A c \in Calls : pc[c] = "new"

(* Only the newest generation is starting, parked or installed; those told *)
(* to stop are older.                                                      *)
RunInv ==
    /\ starting \subseteq {gen} /\ parked \subseteq {gen}
    /\ \A g \in closing : g < gen
    /\ starting # {} => session = NONE /\ parked = {}
    /\ session # NONE => session = gen /\ gen \in parked
    /\ \A g \in 0 .. gen : g \in ready \cup starting

(* What a starting or waiting task waits for is a generation that exists;  *)
(* a starting one waits for the newest.                                    *)
WaitInv ==
    /\ \A p \in Calls \cup {Reviver} : awaits[p] \in 0 .. gen
    /\ \A c \in Calls : pc[c] = "starting" => awaits[c] = gen
    /\ rpc = "starting" => awaits[Reviver] = gen

(* How often a call has been sent, by where it stands.                     *)
CallInv ==
    \A c \in Calls :
        /\ pc[c] \in {"new"} \cup Finished => sends[c] = 0 /\ ~retried[c] /\ used[c] = NONE
        /\ pc[c] \in Reconnecting => ~retried[c] /\ sends[c] \in {0, 1}
        /\ pc[c] \in Reconnecting /\ sends[c] = 1 => cause[c] \in {"closed", "raised"}
        /\ ~retried[c] => sends[c] \in {0, 1}
        /\ sends[c] = 2 => cause[c] \in {"closed", "raised"}
        /\ used[c] # NONE /\ ~retried[c] => used[c] = seen[c]
        /\ c \in Fwd => pc[c] \notin InFlight /\ used[c] = NONE

IInv == TypeOK /\ LockInv /\ RunInv /\ WaitInv /\ CallInv

-----------------------------------------------------------------------------
(* What the comments say of the code, and the code does not do             *)

(* reconnect's docstring and the comment at the capture of _gen: a failed  *)
(* call names the session it saw dead, so a session somebody else has just *)
(* rebuilt is not torn down.  A call that arrives during the handshake     *)
(* captures the generation already raised, finds no session, waits for the *)
(* lock and tears the new session down.                                    *)
CallReplacesOnlyDeadSession ==
    [][\A c \in Calls \ Fwd :
          lock = c /\ gen' # gen => session \in {NONE, used[c]}]_vars

=============================================================================
