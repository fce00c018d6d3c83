------------------------ MODULE BackendSessionProofs ------------------------
(***************************************************************************)
(* Proofs about BackendSession, for every set of calls and every bound:    *)
(* IInv is inductive, so every behaviour of Spec satisfies it, and the     *)
(* safety properties follow from it.                                       *)
(***************************************************************************)
EXTENDS BackendSession, TLAPS


(* A call that returns leaves its locals in their types.                   *)
LEMMA ReturnKeepsTypes ==
    ASSUME TypeOK, NEW c \in Calls, NEW l \in Finished, Return(c, l)
    PROVE  /\ pc' \in [Calls -> CallState]
           /\ seen' \in [Calls -> Nat]
           /\ used' \in [Calls -> Nat \cup {NONE}]
           /\ sends' \in [Calls -> 0 .. 2]
           /\ retried' \in [Calls -> BOOLEAN]
           /\ cause' \in [Calls -> Cause]
           /\ awaits' \in [Calls \cup {Reviver} -> Nat]
  BY DEF TypeOK, Return, Goto, CallState, Finished, Cause

(* A cancelled start leaves its variables in their types.                  *)
LEMMA CancelKeepsTypes ==
    ASSUME TypeOK, NEW p \in Calls \cup {Reviver}, CancelStart(p)
    PROVE  starting' \subseteq Nat /\ ready' \subseteq Nat /\ faults' \in 0 .. MaxFaults
<1>1. awaits[p] \in Nat
  BY DEF TypeOK
<1>2. starting' = starting \ {awaits[p]} /\ ready' = ready \cup {awaits[p]}
  BY DEF CancelStart
<1>3. starting' \subseteq Nat /\ ready' \subseteq Nat
  BY <1>1, <1>2 DEF TypeOK
<1>4. faults' \in 0 .. MaxFaults
  BY SessionAssumption DEF TypeOK, CancelStart, Fault
<1>5. QED  BY <1>3, <1>4

(* So does a deadline that fires around reconnect.                         *)
LEMMA DeadlineKeepsTypes ==
    ASSUME TypeOK, NEW p \in Calls \cup {Reviver}, NEW at, DeadlineFires(p, at)
    PROVE  starting' \subseteq Nat /\ ready' \subseteq Nat /\ faults' \in 0 .. MaxFaults
<1>1. CASE UNCHANGED <<starting, ready, faults>>
  BY <1>1 DEF TypeOK
<1>2. CASE CancelStart(p)
  BY <1>2, CancelKeepsTypes
<1>3. CASE Fault /\ UNCHANGED <<starting, ready>>
  BY <1>3, SessionAssumption DEF TypeOK, Fault
<1>4. QED  BY <1>1, <1>2, <1>3 DEF DeadlineFires

(* Each step keeps every variable in its type.                             *)
LEMMA TypePreserved == ASSUME IInv, [Next]_vars PROVE TypeOK'
<1> USE SessionAssumption
<1>0. TypeOK /\ LockInv /\ RunInv /\ WaitInv /\ CallInv
  BY DEF IInv
<1>1. ASSUME NEW g \in starting, HandshakeDone(g) PROVE TypeOK'
  BY <1>0, <1>1 DEF TypeOK, CallState, PassState, InFlight, Finished, Cause, HandshakeDone,
     runVars, callVars, revVars
<1>2. ASSUME NEW g \in starting, HandshakeFails(g) PROVE TypeOK'
  BY <1>0, <1>2 DEF TypeOK, CallState, PassState, InFlight, Finished, Cause, HandshakeFails,
     Fault, runVars, callVars, revVars
<1>3. ASSUME NEW g \in parked \cup closing, RunEnds(g) PROVE TypeOK'
  BY <1>0, <1>3 DEF TypeOK, CallState, PassState, InFlight, Finished, Cause, RunEnds, Fault,
     runVars, callVars, revVars
<1>4. ASSUME BackendRestarts PROVE TypeOK'
  BY <1>0, <1>4 DEF TypeOK, CallState, PassState, InFlight, Finished, Cause, BackendRestarts,
     Fault, runVars, callVars, revVars
<1>5. ASSUME NEW c \in Calls, CallStarts(c) PROVE TypeOK'
  BY <1>0, <1>5 DEF TypeOK, CallInv, CallState, PassState, InFlight, Finished, Cause, CallStarts,
     Send, Goto, runVars, revVars
<1>6. ASSUME NEW c \in Calls, CallAnswered(c) PROVE TypeOK'
  BY <1>0, <1>6 DEF TypeOK, CallState, PassState, InFlight, Finished, Cause, CallAnswered, Return,
     Goto, runVars, callVars, revVars
<1>7. ASSUME NEW c \in Calls, CallLosesSession(c) PROVE TypeOK'
  <2>1. CASE ~retried[c] /\ Goto(c, "lock")
    BY <1>0, <1>7, <2>1 DEF TypeOK, CallState, Cause, CallLosesSession, CallRaises, Return,
       Goto, runVars, revVars
  <2>2. CASE Return(c, "error")
    BY <1>0, <1>7, <2>2, ReturnKeepsTypes DEF TypeOK, Finished, CallLosesSession, CallRaises,
       runVars, revVars
  <2>3. QED  BY <1>7, <2>1, <2>2 DEF CallLosesSession, CallRaises
<1>8. ASSUME NEW c \in Calls, CallRefused(c) PROVE TypeOK'
  <2>1. CASE ~retried[c] /\ Goto(c, "lock")
    BY <1>0, <1>8, <2>1 DEF TypeOK, CallState, Cause, CallRefused, CallRaises, Return, Goto,
       runVars, revVars
  <2>2. CASE Return(c, "error")
    BY <1>0, <1>8, <2>2, ReturnKeepsTypes DEF TypeOK, Finished, CallRefused, CallRaises,
       runVars, revVars
  <2>3. QED  BY <1>8, <2>1, <2>2 DEF CallRefused, CallRaises
<1>9. ASSUME NEW c \in Calls, CallTimesOut(c) PROVE TypeOK'
  BY <1>0, <1>9 DEF TypeOK, CallState, PassState, InFlight, Finished, Cause, CallTimesOut, Return,
     Goto, runVars, callVars, revVars
<1>10. ASSUME NEW c \in Calls, CallAcquires(c) PROVE TypeOK'
  BY <1>0, <1>10 DEF TypeOK, CallState, PassState, InFlight, Finished, Cause, CallAcquires,
     Acquire, Goto, runVars, callVars, revVars
<1>11. ASSUME NEW c \in Calls, CallReconnects(c) PROVE TypeOK'
  <2>1. CASE Replace(c) /\ Goto(c, "starting")
    <3>1. gen' \in Nat /\ awaits' \in [Calls \cup {Reviver} -> Nat]
      BY <1>0, <2>1 DEF TypeOK, Replace
    <3>2. starting' \subseteq Nat /\ parked' \subseteq Nat /\ closing' \subseteq Nat
      <4>1. gen + 1 \in Nat
        BY <1>0 DEF TypeOK
      <4>2. QED  BY <1>0, <2>1, <4>1 DEF TypeOK, Replace
    <3>3. pc' \in [Calls -> CallState]
      BY <1>0, <2>1 DEF TypeOK, Goto, CallState
    <3>4. QED  BY <1>0, <1>11, <2>1, <3>1, <3>2, <3>3 DEF TypeOK, CallReconnects, Replace,
       callVars, revVars
  <2>2. CASE LeaveLock(c) /\ Goto(c, "ready")
    BY <1>0, <1>11, <2>2 DEF TypeOK, CallState, CallReconnects, LeaveLock, Goto, callVars, revVars
  <2>3. QED  BY <1>11, <2>1, <2>2 DEF CallReconnects
<1>12. ASSUME NEW c \in Calls, CallStartReturns(c) PROVE TypeOK'
  BY <1>0, <1>12 DEF TypeOK, CallState, PassState, InFlight, Finished, Cause, CallStartReturns,
     LeaveLock, Goto, runVars, callVars, revVars
<1>13. ASSUME NEW c \in Calls, CallReconnectTimesOut(c) PROVE TypeOK'
  <2>1. starting' \subseteq Nat /\ ready' \subseteq Nat /\ faults' \in 0 .. MaxFaults
    BY <1>0, <1>13, DeadlineKeepsTypes DEF CallReconnectTimesOut
  <2>2. lock' \in Calls \cup {Reviver, NONE}
    BY <1>0, <1>13 DEF TypeOK, CallReconnectTimesOut, Release
  <2>3. QED  BY <1>0, <1>13, <2>1, <2>2, ReturnKeepsTypes DEF TypeOK, Finished,
     CallReconnectTimesOut, revVars
<1>14. ASSUME NEW c \in Calls, CallRetries(c) PROVE TypeOK'
  <2>1. CASE Return(c, "error") /\ UNCHANGED reagg
    BY <1>0, <1>14, <2>1, ReturnKeepsTypes DEF TypeOK, Finished, CallRetries, runVars, revVars
  <2>2. CASE /\ reagg' = TRUE /\ retried' = [retried EXCEPT ![c] = TRUE]
             /\ Send(c) /\ UNCHANGED <<seen, awaits>>
    <3>1. sends[c] \in {0, 1}
      BY <1>0, <1>14 DEF CallInv, CallRetries, Reconnecting
    <3>2. retried' \in [Calls -> BOOLEAN]
      BY <1>0, <2>2 DEF TypeOK
    <3>3. /\ pc' \in [Calls -> CallState] /\ used' \in [Calls -> Nat \cup {NONE}]
          /\ sends' \in [Calls -> 0 .. 2] /\ cause' \in [Calls -> Cause]
      BY <1>0, <2>2, <3>1 DEF TypeOK, Send, Goto, CallState, InFlight, Cause
    <3>4. QED  BY <1>0, <1>14, <2>2, <3>2, <3>3 DEF TypeOK, CallRetries, runVars, revVars
  <2>3. QED  BY <1>14, <2>1, <2>2 DEF CallRetries
<1>15. ASSUME PassJoins PROVE TypeOK'
  <2>1. starting' \subseteq Nat /\ ready' \subseteq Nat /\ faults' \in 0 .. MaxFaults
    BY <1>0, <1>15, CancelKeepsTypes DEF PassJoins, TypeOK
  <2>2. QED  BY <1>0, <1>15, <2>1 DEF TypeOK, PassState, PassJoins, callVars
<1>16. ASSUME PassJoined PROVE TypeOK'
  BY <1>0, <1>16 DEF TypeOK, CallState, PassState, InFlight, Finished, Cause, PassJoined, Probe,
     runVars, callVars, revVars
<1>17. ASSUME PassBegins PROVE TypeOK'
  BY <1>0, <1>17 DEF TypeOK, CallState, PassState, InFlight, Finished, Cause, PassBegins, Probe,
     runVars, callVars, revVars
<1>18. ASSUME ProbeAnswered PROVE TypeOK'
  <2>1. revived' \in BOOLEAN
    <3>1. revived \in BOOLEAN /\ revived' \in {revived, TRUE}
      BY <1>0, <1>18 DEF TypeOK, ProbeAnswered
    <3>2. QED  BY <3>1
  <2>2. miss' \in 0 .. Strikes - 1
    BY <1>18 DEF ProbeAnswered
  <2>3. QED  BY <1>0, <1>18, <2>1, <2>2 DEF TypeOK, PassState, ProbeAnswered, runVars, callVars
<1>19. ASSUME ProbeTimesOut PROVE TypeOK'
  <2>1. /\ miss' \in 0 .. Strikes - 1 /\ session' \in Nat \cup {NONE}
        /\ pc' \in [Calls -> CallState]
        /\ UNCHANGED <<gen, lock, starting, parked, closing, ready>>
        /\ UNCHANGED <<seen, used, sends, retried, cause>>
    <3>1. CASE miss + 1 < Strikes
      BY <1>0, <1>19, <3>1 DEF TypeOK, ProbeTimesOut, runVars, callVars
    <3>2. CASE ~(miss + 1 < Strikes)
      BY <1>0, <1>19, <3>2 DEF TypeOK, ProbeTimesOut, GiveUp, CallState, InFlight
    <3>3. QED  BY <3>1, <3>2
  <2>2. faults' \in 0 .. MaxFaults
    BY <1>0, <1>19 DEF TypeOK, ProbeTimesOut, Fault
  <2>3. QED  BY <1>0, <1>19, <2>1, <2>2 DEF TypeOK, PassState, ProbeTimesOut
<1>20. ASSUME ProbeRaises PROVE TypeOK'
  BY <1>0, <1>20 DEF TypeOK, CallState, PassState, InFlight, Finished, Cause, ProbeRaises, GiveUp,
     Fault, runVars, callVars, revVars
<1>21. ASSUME PassChecksSession PROVE TypeOK'
  BY <1>0, <1>21 DEF TypeOK, CallState, PassState, InFlight, Finished, Cause, PassChecksSession,
     runVars, callVars, revVars
<1>22. ASSUME PassAcquires PROVE TypeOK'
  BY <1>0, <1>22 DEF TypeOK, CallState, PassState, InFlight, Finished, Cause, PassAcquires,
     Acquire, runVars, callVars, revVars
<1>23. ASSUME PassReconnects PROVE TypeOK'
  BY <1>0, <1>23 DEF TypeOK, CallState, PassState, InFlight, Finished, Cause, PassReconnects,
     Replace, runVars, callVars, revVars
<1>24. ASSUME PassStartReturns PROVE TypeOK'
  BY <1>0, <1>24 DEF TypeOK, CallState, PassState, InFlight, Finished, Cause, PassStartReturns,
     LeaveLock, runVars, callVars, revVars
<1>25. ASSUME PassReconnectTimesOut PROVE TypeOK'
  <2>1. starting' \subseteq Nat /\ ready' \subseteq Nat /\ faults' \in 0 .. MaxFaults
    BY <1>0, <1>25, DeadlineKeepsTypes DEF PassReconnectTimesOut
  <2>2. lock' \in Calls \cup {Reviver, NONE}
    BY <1>0, <1>25 DEF TypeOK, PassReconnectTimesOut, Release
  <2>3. QED  BY <1>0, <1>25, <2>1, <2>2 DEF TypeOK, PassState, PassReconnectTimesOut, callVars
<1>26. ASSUME PassReady PROVE TypeOK'
  BY <1>0, <1>26 DEF TypeOK, CallState, PassState, InFlight, Finished, Cause, PassReady, runVars,
     callVars, revVars
<1>27. ASSUME PassEnds PROVE TypeOK'
  BY <1>0, <1>27 DEF TypeOK, CallState, PassState, InFlight, Finished, Cause, PassEnds, runVars,
     callVars, revVars
<1>28. ASSUME AggregateAsks PROVE TypeOK'
  BY <1>0, <1>28 DEF TypeOK, CallState, PassState, InFlight, Finished, Cause, AggregateAsks,
     runVars, callVars, revVars
<1>29. ASSUME AggregateListed PROVE TypeOK'
  BY <1>0, <1>29 DEF TypeOK, CallState, PassState, InFlight, Finished, Cause, AggregateListed,
     runVars, callVars, revVars
<1>30. ASSUME AggregateTimesOut PROVE TypeOK'
  BY <1>0, <1>30 DEF TypeOK, CallState, PassState, InFlight, Finished, Cause, AggregateTimesOut,
     Fault, runVars, callVars, revVars
<1>31. ASSUME AggregateRaises PROVE TypeOK'
  BY <1>0, <1>31 DEF TypeOK, CallState, PassState, InFlight, Finished, Cause, AggregateRaises,
     GiveUp, Fault, runVars, callVars, revVars
<1>32. CASE UNCHANGED vars
  BY <1>0, <1>32 DEF TypeOK, CallState, PassState, InFlight, Finished, Cause, vars, runVars,
     callVars, revVars
<1>33. QED
  BY <1>1, <1>2, <1>3, <1>4, <1>5, <1>6, <1>7, <1>8, <1>9, <1>10, <1>11, <1>12, <1>13, <1>14,
     <1>15, <1>16, <1>17, <1>18, <1>19, <1>20, <1>21, <1>22, <1>23, <1>24, <1>25, <1>26, <1>27,
     <1>28, <1>29, <1>30, <1>31, <1>32
  DEF Next, RunStep, HandshakeEnds, CallAnswers, CallProceeds, PassStep

(* Each step keeps the lock with one holder, and starts with the holder.   *)
LEMMA LockPreserved == ASSUME IInv, [Next]_vars PROVE LockInv'
<1> USE SessionAssumption
<1>0. TypeOK /\ LockInv /\ RunInv /\ WaitInv /\ CallInv
  BY DEF IInv
<1>1. ASSUME NEW g \in starting, HandshakeDone(g) PROVE LockInv'
  BY <1>0, <1>1 DEF TypeOK, LockInv, InFlight, Finished, HandshakeDone, runVars, callVars, revVars
<1>2. ASSUME NEW g \in starting, HandshakeFails(g) PROVE LockInv'
  BY <1>0, <1>2 DEF TypeOK, LockInv, InFlight, Finished, HandshakeFails, Fault, runVars, callVars,
     revVars
<1>3. ASSUME NEW c \in Calls, CallStarts(c) PROVE LockInv'
  BY <1>0, <1>3 DEF TypeOK, LockInv, InFlight, Finished, CallStarts, Send, Goto, runVars,
     callVars, revVars
<1>4. ASSUME NEW c \in Calls, CallAnswered(c) PROVE LockInv'
  BY <1>0, <1>4 DEF TypeOK, LockInv, InFlight, Finished, CallAnswered, Return, Goto, runVars,
     callVars, revVars
<1>5. ASSUME NEW c \in Calls, CallLosesSession(c) PROVE LockInv'
  BY <1>0, <1>5 DEF TypeOK, LockInv, InFlight, Finished, CallLosesSession, CallRaises, Return,
     Goto, runVars, callVars, revVars
<1>6. ASSUME NEW c \in Calls, CallRefused(c) PROVE LockInv'
  BY <1>0, <1>6 DEF TypeOK, LockInv, InFlight, Finished, CallRefused, CallRaises, Return, Goto,
     runVars, callVars, revVars
<1>7. ASSUME NEW c \in Calls, CallTimesOut(c) PROVE LockInv'
  BY <1>0, <1>7 DEF TypeOK, LockInv, InFlight, Finished, CallTimesOut, Return, Goto, runVars,
     callVars, revVars
<1>8. ASSUME NEW c \in Calls, CallAcquires(c) PROVE LockInv'
  BY <1>0, <1>8 DEF TypeOK, LockInv, InFlight, Finished, CallAcquires, Acquire, Goto, runVars,
     callVars, revVars
<1>9. ASSUME NEW c \in Calls, CallReconnects(c) PROVE LockInv'
  BY <1>0, <1>9 DEF TypeOK, LockInv, InFlight, Finished, CallReconnects, Replace, LeaveLock, Goto,
     runVars, callVars, revVars
<1>10. ASSUME NEW c \in Calls, CallStartReturns(c) PROVE LockInv'
  <2>1. lock = c /\ starting = {}
    BY <1>0, <1>10 DEF LockInv, WaitInv, RunInv, CallStartReturns
  <2>2. QED  BY <1>0, <1>10, <2>1 DEF TypeOK, LockInv, CallStartReturns, LeaveLock, Goto, revVars
<1>11. ASSUME NEW c \in Calls, CallReconnectTimesOut(c) PROVE LockInv'
  <2>1. pc[c] \in {"lock", "starting", "ready"}
    BY <1>11 DEF CallReconnectTimesOut, DeadlineFires
  <2>2. pc[c] = "starting" => lock = c /\ starting' = {}
    BY <1>0, <1>11 DEF LockInv, WaitInv, RunInv, CallReconnectTimesOut, DeadlineFires, CancelStart
  <2>3. pc[c] # "starting" => UNCHANGED starting
    BY <1>11 DEF CallReconnectTimesOut, DeadlineFires
  <2>4. /\ pc' = [pc EXCEPT ![c] = "late"] /\ lock' = (IF lock = c THEN NONE ELSE lock)
        /\ UNCHANGED <<gen, routed, rpc>>
    BY <1>11 DEF CallReconnectTimesOut, Return, Goto, Release, revVars
  <2>5. QED  BY <1>0, <2>1, <2>2, <2>3, <2>4 DEF TypeOK, LockInv
<1>12. ASSUME NEW c \in Calls, CallRetries(c) PROVE LockInv'
  BY <1>0, <1>12 DEF TypeOK, LockInv, InFlight, Finished, CallRetries, Send, Return, Goto,
     runVars, callVars, revVars
<1>13. ASSUME PassJoins PROVE LockInv'
  <2>1. starting' = {}
    BY <1>0, <1>13 DEF LockInv, WaitInv, RunInv, PassJoins, CancelStart
  <2>2. QED  BY <1>0, <1>13, <2>1 DEF LockInv, PassJoins, callVars
<1>14. ASSUME PassJoined PROVE LockInv'
  BY <1>0, <1>14 DEF TypeOK, LockInv, InFlight, Finished, PassJoined, Probe, runVars, callVars,
     revVars
<1>15. ASSUME PassBegins PROVE LockInv'
  BY <1>0, <1>15 DEF TypeOK, LockInv, InFlight, Finished, PassBegins, Probe, runVars, callVars,
     revVars
<1>16. ASSUME ProbeAnswered PROVE LockInv'
  BY <1>0, <1>16 DEF TypeOK, LockInv, InFlight, Finished, ProbeAnswered, runVars, callVars, revVars
<1>17. ASSUME ProbeTimesOut PROVE LockInv'
  BY <1>0, <1>17 DEF TypeOK, LockInv, InFlight, Finished, ProbeTimesOut, GiveUp, Fault, runVars,
     callVars, revVars
<1>18. ASSUME ProbeRaises PROVE LockInv'
  BY <1>0, <1>18 DEF TypeOK, LockInv, InFlight, Finished, ProbeRaises, GiveUp, Fault, runVars,
     callVars, revVars
<1>19. ASSUME PassChecksSession PROVE LockInv'
  BY <1>0, <1>19 DEF TypeOK, LockInv, InFlight, Finished, PassChecksSession, runVars, callVars,
     revVars
<1>20. ASSUME PassAcquires PROVE LockInv'
  BY <1>0, <1>20 DEF TypeOK, LockInv, InFlight, Finished, PassAcquires, Acquire, runVars,
     callVars, revVars
<1>21. ASSUME PassReconnects PROVE LockInv'
  BY <1>0, <1>21 DEF TypeOK, LockInv, InFlight, Finished, PassReconnects, Replace, runVars,
     callVars, revVars
<1>22. ASSUME PassStartReturns PROVE LockInv'
  <2>1. lock = Reviver /\ starting = {}
    BY <1>0, <1>22 DEF LockInv, WaitInv, RunInv, PassStartReturns
  <2>2. QED  BY <1>0, <1>22, <2>1 DEF TypeOK, LockInv, PassStartReturns, LeaveLock, callVars
<1>23. ASSUME PassReconnectTimesOut PROVE LockInv'
  <2>1. rpc \in {"lock", "starting", "ready"}
    BY <1>23 DEF PassReconnectTimesOut, DeadlineFires
  <2>2. rpc = "starting" => lock = Reviver /\ starting' = {}
    BY <1>0, <1>23 DEF LockInv, WaitInv, RunInv, PassReconnectTimesOut, DeadlineFires, CancelStart
  <2>3. rpc # "starting" => UNCHANGED starting
    BY <1>23 DEF PassReconnectTimesOut, DeadlineFires
  <2>4. /\ rpc' = "end" /\ lock' = (IF lock = Reviver THEN NONE ELSE lock)
        /\ UNCHANGED <<gen, routed, pc>>
    BY <1>23 DEF PassReconnectTimesOut, Release, callVars
  <2>5. QED  BY <1>0, <2>1, <2>2, <2>3, <2>4 DEF TypeOK, LockInv
<1>24. ASSUME PassReady PROVE LockInv'
  BY <1>0, <1>24 DEF TypeOK, LockInv, InFlight, Finished, PassReady, runVars, callVars, revVars
<1>25. ASSUME PassEnds PROVE LockInv'
  BY <1>0, <1>25 DEF TypeOK, LockInv, InFlight, Finished, PassEnds, runVars, callVars, revVars
<1>26. ASSUME AggregateAsks PROVE LockInv'
  BY <1>0, <1>26 DEF TypeOK, LockInv, InFlight, Finished, AggregateAsks, runVars, callVars, revVars
<1>27. ASSUME AggregateListed PROVE LockInv'
  BY <1>0, <1>27 DEF TypeOK, LockInv, InFlight, Finished, AggregateListed, runVars, callVars,
     revVars
<1>28. ASSUME AggregateTimesOut PROVE LockInv'
  BY <1>0, <1>28 DEF TypeOK, LockInv, InFlight, Finished, AggregateTimesOut, Fault, runVars,
     callVars, revVars
<1>29. ASSUME AggregateRaises PROVE LockInv'
  BY <1>0, <1>29 DEF TypeOK, LockInv, InFlight, Finished, AggregateRaises, GiveUp, Fault, runVars,
     callVars, revVars
<1>30. ASSUME UNCHANGED <<gen, lock, starting, routed, pc, rpc>> PROVE LockInv'
  BY <1>0, <1>30 DEF TypeOK, LockInv, InFlight, Finished
<1>31. QED
  BY <1>1, <1>2, <1>3, <1>4, <1>5, <1>6, <1>7, <1>8, <1>9, <1>10, <1>11, <1>12, <1>13, <1>14,
     <1>15, <1>16, <1>17, <1>18, <1>19, <1>20, <1>21, <1>22, <1>23, <1>24, <1>25, <1>26, <1>27,
     <1>28, <1>29, <1>30
  DEF Next, RunStep, HandshakeEnds, CallAnswers, CallProceeds, PassStep, vars, runVars, callVars, revVars,
     RunEnds, BackendRestarts, Fault

(* Each step leaves only the newest generation starting, parked, installed.*)
LEMMA RunPreserved == ASSUME IInv, [Next]_vars PROVE RunInv'
<1> USE SessionAssumption
<1>0. TypeOK /\ LockInv /\ RunInv /\ WaitInv /\ CallInv
  BY DEF IInv
<1>1. ASSUME NEW g \in starting, HandshakeDone(g) PROVE RunInv'
  BY <1>0, <1>1 DEF TypeOK, RunInv, HandshakeDone, runVars, callVars, revVars
<1>2. ASSUME NEW g \in starting, HandshakeFails(g) PROVE RunInv'
  BY <1>0, <1>2 DEF TypeOK, RunInv, HandshakeFails, Fault, runVars, callVars, revVars
<1>3. ASSUME NEW g \in parked \cup closing, RunEnds(g) PROVE RunInv'
  <2>1. CASE g \in closing /\ UNCHANGED session
    BY <1>0, <1>3, <2>1 DEF TypeOK, RunInv, RunEnds
  <2>2. CASE session' = NONE
    BY <1>0, <1>3, <2>2 DEF TypeOK, RunInv, RunEnds
  <2>3. QED  BY <1>3, <2>1, <2>2 DEF RunEnds
<1>4. ASSUME NEW c \in Calls, CallReconnects(c) PROVE RunInv'
  <2>1. starting = {}
    BY <1>0, <1>4 DEF LockInv, CallReconnects
  <2>2. CASE Replace(c)
    BY <1>0, <2>1, <2>2 DEF TypeOK, RunInv, Replace
  <2>3. CASE LeaveLock(c)
    BY <1>0, <2>3 DEF RunInv, LeaveLock
  <2>4. QED  BY <1>4, <2>2, <2>3 DEF CallReconnects
<1>5. ASSUME NEW c \in Calls, CallReconnectTimesOut(c) PROVE RunInv'
  BY <1>0, <1>5 DEF TypeOK, RunInv, CallReconnectTimesOut, DeadlineFires, CancelStart, Release,
     Return, Goto, Fault, runVars, callVars, revVars
<1>6. ASSUME PassJoins PROVE RunInv'
  BY <1>0, <1>6 DEF TypeOK, RunInv, PassJoins, CancelStart, Fault, runVars, callVars, revVars
<1>7. ASSUME ProbeTimesOut PROVE RunInv'
  <2>1. session' \in {session, NONE} /\ UNCHANGED <<gen, starting, parked, closing, ready>>
    BY <1>7 DEF ProbeTimesOut, GiveUp, runVars
  <2>2. QED  BY <1>0, <2>1 DEF RunInv
<1>8. ASSUME ProbeRaises PROVE RunInv'
  BY <1>0, <1>8 DEF TypeOK, RunInv, ProbeRaises, GiveUp, Fault, runVars, callVars, revVars
<1>9. ASSUME PassReconnects PROVE RunInv'
  <2>1. starting = {}
    BY <1>0, <1>9 DEF LockInv, PassReconnects
  <2>2. QED  BY <1>0, <1>9, <2>1 DEF TypeOK, RunInv, PassReconnects, Replace
<1>10. ASSUME PassReconnectTimesOut PROVE RunInv'
  BY <1>0, <1>10 DEF TypeOK, RunInv, PassReconnectTimesOut, DeadlineFires, CancelStart, Release,
     Fault, runVars, callVars, revVars
<1>11. ASSUME AggregateRaises PROVE RunInv'
  BY <1>0, <1>11 DEF TypeOK, RunInv, AggregateRaises, GiveUp, Fault, runVars, callVars, revVars
<1>12. ASSUME UNCHANGED <<session, gen, starting, parked, closing, ready>> PROVE RunInv'
  BY <1>0, <1>12 DEF TypeOK, RunInv
<1>13. QED
  BY <1>1, <1>2, <1>3, <1>4, <1>5, <1>6, <1>7, <1>8, <1>9, <1>10, <1>11, <1>12
  DEF Next, RunStep, HandshakeEnds, CallAnswers, CallProceeds, PassStep, vars, runVars, callVars, revVars,
     BackendRestarts, CallStarts, CallAnswered, CallLosesSession, CallRefused, CallTimesOut,
     CallAcquires, CallStartReturns, CallRetries, PassJoined, PassBegins, ProbeAnswered,
     PassChecksSession, PassAcquires, PassStartReturns, PassReady, PassEnds, AggregateAsks,
     AggregateListed, AggregateTimesOut, Fault, Send, Goto, Return, CallRaises, Acquire,
     LeaveLock, Probe

(* Each step leaves the waiting tasks at generations that exist.           *)
LEMMA WaitPreserved == ASSUME IInv, [Next]_vars PROVE WaitInv'
<1> USE SessionAssumption
<1>0. TypeOK /\ LockInv /\ RunInv /\ WaitInv /\ CallInv
  BY DEF IInv
<1>1. ASSUME NEW c \in Calls, CallStarts(c) PROVE WaitInv'
  BY <1>0, <1>1 DEF TypeOK, WaitInv, InFlight, Finished, CallStarts, Send, Goto, runVars,
     callVars, revVars
<1>2. ASSUME NEW c \in Calls, CallAnswered(c) PROVE WaitInv'
  BY <1>0, <1>2 DEF TypeOK, WaitInv, InFlight, Finished, CallAnswered, Return, Goto, runVars,
     callVars, revVars
<1>3. ASSUME NEW c \in Calls, CallLosesSession(c) PROVE WaitInv'
  BY <1>0, <1>3 DEF TypeOK, WaitInv, InFlight, Finished, CallLosesSession, CallRaises, Return,
     Goto, runVars, callVars, revVars
<1>4. ASSUME NEW c \in Calls, CallRefused(c) PROVE WaitInv'
  BY <1>0, <1>4 DEF TypeOK, WaitInv, InFlight, Finished, CallRefused, CallRaises, Return, Goto,
     runVars, callVars, revVars
<1>5. ASSUME NEW c \in Calls, CallTimesOut(c) PROVE WaitInv'
  BY <1>0, <1>5 DEF TypeOK, WaitInv, InFlight, Finished, CallTimesOut, Return, Goto, runVars,
     callVars, revVars
<1>6. ASSUME NEW c \in Calls, CallAcquires(c) PROVE WaitInv'
  BY <1>0, <1>6 DEF TypeOK, WaitInv, InFlight, Finished, CallAcquires, Acquire, Goto, runVars,
     callVars, revVars
<1>7. ASSUME NEW c \in Calls, CallReconnects(c) PROVE WaitInv'
  <2>1. /\ \A d \in Calls \ {c} : pc[d] # "starting"
        /\ rpc # "starting"
    BY <1>0, <1>7 DEF LockInv, CallReconnects
  <2>2. CASE Replace(c) /\ Goto(c, "starting")
    BY <1>0, <1>7, <2>1, <2>2 DEF TypeOK, WaitInv, CallReconnects, Replace, Goto, revVars
  <2>3. CASE LeaveLock(c) /\ Goto(c, "ready")
    BY <1>0, <1>7, <2>1, <2>3 DEF TypeOK, WaitInv, CallReconnects, LeaveLock, Goto, revVars
  <2>4. QED  BY <1>7, <2>2, <2>3 DEF CallReconnects
<1>8. ASSUME NEW c \in Calls, CallStartReturns(c) PROVE WaitInv'
  BY <1>0, <1>8 DEF TypeOK, WaitInv, InFlight, Finished, CallStartReturns, LeaveLock, Goto,
     runVars, callVars, revVars
<1>9. ASSUME NEW c \in Calls, CallReconnectTimesOut(c) PROVE WaitInv'
  BY <1>0, <1>9 DEF TypeOK, WaitInv, InFlight, Finished, CallReconnectTimesOut, DeadlineFires,
     CancelStart, Release, Return, Goto, Fault, runVars, callVars, revVars
<1>10. ASSUME NEW c \in Calls, CallRetries(c) PROVE WaitInv'
  BY <1>0, <1>10 DEF TypeOK, WaitInv, InFlight, Finished, CallRetries, Send, Return, Goto,
     runVars, callVars, revVars
<1>11. ASSUME PassJoins PROVE WaitInv'
  BY <1>0, <1>11 DEF TypeOK, WaitInv, InFlight, Finished, PassJoins, CancelStart, Fault, runVars,
     callVars, revVars
<1>12. ASSUME PassJoined PROVE WaitInv'
  BY <1>0, <1>12 DEF TypeOK, WaitInv, InFlight, Finished, PassJoined, Probe, runVars, callVars,
     revVars
<1>13. ASSUME PassBegins PROVE WaitInv'
  BY <1>0, <1>13 DEF TypeOK, WaitInv, InFlight, Finished, PassBegins, Probe, runVars, callVars,
     revVars
<1>14. ASSUME ProbeAnswered PROVE WaitInv'
  BY <1>0, <1>14 DEF TypeOK, WaitInv, InFlight, Finished, ProbeAnswered, runVars, callVars, revVars
<1>15. ASSUME ProbeTimesOut PROVE WaitInv'
  BY <1>0, <1>15 DEF TypeOK, WaitInv, InFlight, Finished, ProbeTimesOut, GiveUp, Fault, runVars,
     callVars, revVars
<1>16. ASSUME ProbeRaises PROVE WaitInv'
  BY <1>0, <1>16 DEF TypeOK, WaitInv, InFlight, Finished, ProbeRaises, GiveUp, Fault, runVars,
     callVars, revVars
<1>17. ASSUME PassChecksSession PROVE WaitInv'
  BY <1>0, <1>17 DEF TypeOK, WaitInv, InFlight, Finished, PassChecksSession, runVars, callVars,
     revVars
<1>18. ASSUME PassAcquires PROVE WaitInv'
  BY <1>0, <1>18 DEF TypeOK, WaitInv, InFlight, Finished, PassAcquires, Acquire, runVars,
     callVars, revVars
<1>19. ASSUME PassReconnects PROVE WaitInv'
  <2>1. \A d \in Calls : pc[d] # "starting"
    BY <1>0, <1>19 DEF LockInv, PassReconnects
  <2>2. QED  BY <1>0, <1>19, <2>1 DEF TypeOK, WaitInv, PassReconnects, Replace, callVars
<1>20. ASSUME PassStartReturns PROVE WaitInv'
  BY <1>0, <1>20 DEF TypeOK, WaitInv, InFlight, Finished, PassStartReturns, LeaveLock, runVars,
     callVars, revVars
<1>21. ASSUME PassReconnectTimesOut PROVE WaitInv'
  BY <1>0, <1>21 DEF TypeOK, WaitInv, InFlight, Finished, PassReconnectTimesOut, DeadlineFires,
     CancelStart, Release, Fault, runVars, callVars, revVars
<1>22. ASSUME PassReady PROVE WaitInv'
  BY <1>0, <1>22 DEF TypeOK, WaitInv, InFlight, Finished, PassReady, runVars, callVars, revVars
<1>23. ASSUME PassEnds PROVE WaitInv'
  BY <1>0, <1>23 DEF TypeOK, WaitInv, InFlight, Finished, PassEnds, runVars, callVars, revVars
<1>24. ASSUME AggregateAsks PROVE WaitInv'
  BY <1>0, <1>24 DEF TypeOK, WaitInv, InFlight, Finished, AggregateAsks, runVars, callVars, revVars
<1>25. ASSUME AggregateListed PROVE WaitInv'
  BY <1>0, <1>25 DEF TypeOK, WaitInv, InFlight, Finished, AggregateListed, runVars, callVars,
     revVars
<1>26. ASSUME AggregateTimesOut PROVE WaitInv'
  BY <1>0, <1>26 DEF TypeOK, WaitInv, InFlight, Finished, AggregateTimesOut, Fault, runVars,
     callVars, revVars
<1>27. ASSUME AggregateRaises PROVE WaitInv'
  BY <1>0, <1>27 DEF TypeOK, WaitInv, InFlight, Finished, AggregateRaises, GiveUp, Fault, runVars,
     callVars, revVars
<1>28. ASSUME UNCHANGED <<gen, pc, awaits, rpc>> PROVE WaitInv'
  BY <1>0, <1>28 DEF TypeOK, WaitInv, InFlight, Finished
<1>29. QED
  BY <1>1, <1>2, <1>3, <1>4, <1>5, <1>6, <1>7, <1>8, <1>9, <1>10, <1>11, <1>12, <1>13, <1>14,
     <1>15, <1>16, <1>17, <1>18, <1>19, <1>20, <1>21, <1>22, <1>23, <1>24, <1>25, <1>26, <1>27,
     <1>28
  DEF Next, RunStep, HandshakeEnds, CallAnswers, CallProceeds, PassStep, vars, runVars, callVars, revVars,
     HandshakeDone, HandshakeFails, RunEnds, BackendRestarts, Fault

(* Each step keeps the count of a call's sends with the place it stands at. *)
LEMMA CallPreserved == ASSUME IInv, [Next]_vars PROVE CallInv'
<1> USE SessionAssumption
<1>0. TypeOK /\ LockInv /\ RunInv /\ WaitInv /\ CallInv
  BY DEF IInv
<1>1. ASSUME NEW c \in Calls, CallStarts(c) PROVE CallInv'
  <2>1. sends[c] = 0 /\ ~retried[c] /\ used[c] = NONE
    BY <1>0, <1>1 DEF CallInv, CallStarts
  <2>2. session # NONE => session = gen
    BY <1>0 DEF RunInv
  <2>3. CASE c \in Fwd
    BY <1>0, <1>1, <2>1, <2>3 DEF TypeOK, CallInv, Reconnecting, InFlight, Finished, CallStarts,
       Send, Goto
  <2>4. CASE c \notin Fwd /\ session # NONE
    BY <1>0, <1>1, <2>1, <2>2, <2>4 DEF TypeOK, CallInv, Reconnecting, InFlight, Finished,
       CallStarts, Send, Goto
  <2>5. CASE c \notin Fwd /\ session = NONE
    BY <1>0, <1>1, <2>1, <2>5 DEF TypeOK, CallInv, Reconnecting, InFlight, Finished, CallStarts,
       Send, Goto
  <2>6. QED  BY <2>3, <2>4, <2>5
<1>2. ASSUME NEW c \in Calls, CallAnswered(c) PROVE CallInv'
  BY <1>0, <1>2 DEF TypeOK, CallInv, Reconnecting, InFlight, Finished, CallAnswered, Return, Goto,
     runVars, callVars, revVars
<1>3. ASSUME NEW c \in Calls, CallLosesSession(c) PROVE CallInv'
  BY <1>0, <1>3 DEF TypeOK, CallInv, Reconnecting, InFlight, Finished, CallLosesSession,
     CallRaises, Return, Goto, runVars, callVars, revVars
<1>4. ASSUME NEW c \in Calls, CallRefused(c) PROVE CallInv'
  BY <1>0, <1>4 DEF TypeOK, CallInv, Reconnecting, InFlight, Finished, CallRefused, CallRaises,
     Return, Goto, runVars, callVars, revVars
<1>5. ASSUME NEW c \in Calls, CallTimesOut(c) PROVE CallInv'
  BY <1>0, <1>5 DEF TypeOK, CallInv, Reconnecting, InFlight, Finished, CallTimesOut, Return, Goto,
     runVars, callVars, revVars
<1>6. ASSUME NEW c \in Calls, CallAcquires(c) PROVE CallInv'
  BY <1>0, <1>6 DEF TypeOK, CallInv, Reconnecting, InFlight, Finished, CallAcquires, Acquire,
     Goto, runVars, callVars, revVars
<1>7. ASSUME NEW c \in Calls, CallReconnects(c) PROVE CallInv'
  BY <1>0, <1>7 DEF TypeOK, CallInv, Reconnecting, InFlight, Finished, CallReconnects, Replace,
     LeaveLock, Goto, runVars, callVars, revVars
<1>8. ASSUME NEW c \in Calls, CallStartReturns(c) PROVE CallInv'
  BY <1>0, <1>8 DEF TypeOK, CallInv, Reconnecting, InFlight, Finished, CallStartReturns,
     LeaveLock, Goto, runVars, callVars, revVars
<1>9. ASSUME NEW c \in Calls, CallReconnectTimesOut(c) PROVE CallInv'
  BY <1>0, <1>9 DEF TypeOK, CallInv, Reconnecting, InFlight, Finished, CallReconnectTimesOut,
     DeadlineFires, CancelStart, Release, Return, Goto, Fault, runVars, callVars, revVars
<1>10. ASSUME NEW c \in Calls, CallRetries(c) PROVE CallInv'
  BY <1>0, <1>10 DEF TypeOK, CallInv, Reconnecting, InFlight, Finished, CallRetries, Send, Return,
     Goto, runVars, callVars, revVars
<1>11. ASSUME ProbeTimesOut PROVE CallInv'
  BY <1>0, <1>11 DEF TypeOK, CallInv, Reconnecting, InFlight, Finished, ProbeTimesOut, GiveUp,
     Fault, runVars, callVars, revVars
<1>12. ASSUME ProbeRaises PROVE CallInv'
  BY <1>0, <1>12 DEF TypeOK, CallInv, Reconnecting, InFlight, Finished, ProbeRaises, GiveUp,
     Fault, runVars, callVars, revVars
<1>13. ASSUME AggregateRaises PROVE CallInv'
  BY <1>0, <1>13 DEF TypeOK, CallInv, Reconnecting, InFlight, Finished, AggregateRaises, GiveUp,
     Fault, runVars, callVars, revVars
<1>14. ASSUME UNCHANGED <<pc, seen, used, sends, retried, cause>> PROVE CallInv'
  BY <1>0, <1>14 DEF TypeOK, CallInv, Reconnecting, InFlight, Finished
<1>15. QED
  BY <1>1, <1>2, <1>3, <1>4, <1>5, <1>6, <1>7, <1>8, <1>9, <1>10, <1>11, <1>12, <1>13, <1>14
  DEF Next, RunStep, HandshakeEnds, CallAnswers, CallProceeds, PassStep, vars, runVars, callVars, revVars,
     HandshakeDone, HandshakeFails, RunEnds, BackendRestarts, PassJoins, PassJoined, PassBegins,
     ProbeAnswered, PassChecksSession, PassAcquires, PassReconnects, PassStartReturns,
     PassReconnectTimesOut, PassReady, PassEnds, AggregateAsks, AggregateListed,
     AggregateTimesOut, Fault, CancelStart, Probe, Acquire, Replace, LeaveLock, DeadlineFires,
     Release

-----------------------------------------------------------------------------
(* A backend that joins satisfies the invariant.                           *)
LEMMA InitInv == ASSUME Init PROVE IInv
<1> USE SessionAssumption
<1>1. TypeOK
  <2>1. miss \in 0 .. Strikes - 1 /\ faults \in 0 .. MaxFaults
    BY DEF Init
  <2>2. /\ pc \in [Calls -> CallState] /\ seen \in [Calls -> Nat]
        /\ used \in [Calls -> Nat \cup {NONE}] /\ sends \in [Calls -> 0 .. 2]
        /\ retried \in [Calls -> BOOLEAN] /\ cause \in [Calls -> Cause]
        /\ awaits \in [Calls \cup {Reviver} -> Nat]
    BY DEF Init, CallState, Cause
  <2>3. /\ starting \subseteq Nat /\ parked \subseteq Nat /\ closing \subseteq Nat
        /\ ready \subseteq Nat /\ broken \subseteq Nat
    BY DEF Init
  <2>4. QED  BY <2>1, <2>2, <2>3 DEF Init, TypeOK, PassState
<1>2. LockInv /\ RunInv
  BY DEF Init, LockInv, RunInv
<1>3. WaitInv
  BY DEF Init, WaitInv
<1>4. CallInv
  BY DEF Init, CallInv, Reconnecting, InFlight, Finished
<1>5. QED  BY <1>1, <1>2, <1>3, <1>4 DEF IInv

(* IInv is inductive: no interleaving of reconnects, calls, probes, faults *)
(* and deadlines leaves it.                                                *)
THEOREM Invariant == Spec => []IInv
<1>1. Init => IInv
  BY InitInv
<1>2. IInv /\ [Next]_vars => IInv'
  BY TypePreserved, LockPreserved, RunPreserved, WaitPreserved, CallPreserved DEF IInv
<1>3. QED  BY <1>1, <1>2, PTL DEF Spec

(* Every variable keeps its type, for any number of calls, strikes, faults *)
(* and closing sessions.                                                   *)
THEOREM TypeCorrect == Spec => []TypeOK
<1>1. IInv => TypeOK
  BY DEF IInv
<1>2. QED  BY <1>1, Invariant, PTL

(* However many calls and passes reconnect at once, there is at most one   *)
(* session that nobody has told to stop.                                   *)
THEOREM OneRun == Spec => []OneUnstoppedRun
<1>1. IInv => OneUnstoppedRun
  BY DEF IInv, RunInv, OneUnstoppedRun
<1>2. QED  BY <1>1, Invariant, PTL

(* The session calls are sent on is the newest generation's and will hear  *)
(* the next stop event.                                                    *)
THEOREM CurrentSession == Spec => []SessionIsCurrent
<1>1. IInv => SessionIsCurrent
  BY DEF IInv, RunInv, SessionIsCurrent
<1>2. QED  BY <1>1, Invariant, PTL

(* Nobody waits for a ready event that nobody will set: every generation   *)
(* that exists is ready or still starting.                                 *)
THEOREM NoWaiterLost == Spec => []NoLostWaiter
<1>1. IInv => NoLostWaiter
  BY DEF IInv, RunInv, WaitInv, NoLostWaiter
<1>2. QED  BY <1>1, Invariant, PTL

(* A call is sent twice at most, and the second time only after its first  *)
(* attempt ended in an exception.                                          *)
THEOREM RetryOnce == Spec => []AtMostOneRetry
<1>1. ASSUME IInv PROVE AtMostOneRetry
  <2> SUFFICES ASSUME NEW c \in Calls, sends[c] = 2
               PROVE  retried[c] /\ cause[c] \in {"closed", "raised"}
    BY DEF AtMostOneRetry
  <2>1. ~retried[c] => sends[c] \in {0, 1}
    BY <1>1 DEF IInv, CallInv
  <2>2. cause[c] \in {"closed", "raised"}
    BY <1>1 DEF IInv, CallInv
  <2>3. QED  BY <2>1, <2>2
<1>2. QED  BY <1>1, Invariant, PTL

(* No call that carries an identity is ever on the resident session.       *)
THEOREM IdentityKept == Spec => []IdentityNeverUsesResident
<1>1. IInv => IdentityNeverUsesResident
  BY SessionAssumption DEF IInv, CallInv, IdentityNeverUsesResident
<1>2. QED  BY <1>1, Invariant, PTL

(* Only a caller that has the lock and still stands at the generation it   *)
(* saw, or the pass, replaces the session.                                 *)
LEMMA WhoReplaces ==
    ASSUME IInv, [Next]_vars, gen' # gen
    PROVE  \/ \E c \in Calls : pc[c] = "held" /\ seen[c] = gen
           \/ rpc = "held"
<1>1. CASE \E c \in Calls : CallReconnects(c)
  BY <1>1 DEF CallReconnects, LeaveLock
<1>2. CASE PassReconnects
  BY <1>2 DEF PassReconnects
<1>3. CASE \E c \in Calls : CallStarts(c) \/ CallAnswers(c)
  BY <1>3 DEF CallStarts, CallAnswers, CallAnswered, CallLosesSession, CallRefused, CallRaises,
     runVars
<1>4. CASE \E c \in Calls : \/ CallTimesOut(c) \/ CallAcquires(c) \/ CallStartReturns(c)
                             \/ CallReconnectTimesOut(c) \/ CallRetries(c)
  BY <1>4 DEF CallTimesOut, CallAcquires, Acquire, CallStartReturns, LeaveLock,
     CallReconnectTimesOut, CallRetries, runVars
<1>5. CASE PassStep /\ ~PassReconnects
  BY <1>5 DEF PassStep, PassJoins, PassJoined, PassBegins, Probe, ProbeAnswered, ProbeTimesOut,
     GiveUp,
     PassChecksSession, PassAcquires, Acquire, PassStartReturns, LeaveLock, PassReconnectTimesOut, PassReady,
     PassEnds, AggregateAsks, AggregateListed, AggregateTimesOut, runVars
<1>6. CASE RunStep \/ BackendRestarts \/ ProbeRaises \/ AggregateRaises \/ UNCHANGED vars
  BY <1>6 DEF RunStep, HandshakeEnds, HandshakeDone, HandshakeFails, RunEnds, BackendRestarts, ProbeRaises,
     AggregateRaises,
     GiveUp, runVars, vars
<1>7. QED  BY <1>1, <1>2, <1>3, <1>4, <1>5, <1>6 DEF Next, CallProceeds

(* A call that fails on a session which others have already replaced never *)
(* tears the new one down.                                                 *)
THEOREM NewerSessionSpared == Spec => UserSparesNewerSession
<1>1. ASSUME IInv, [Next]_vars
      PROVE  \A c \in Calls : lock = c /\ gen' # gen /\ used[c] # NONE => used[c] = gen
  <2> SUFFICES ASSUME NEW c \in Calls, lock = c, gen' # gen, used[c] # NONE
               PROVE  used[c] = gen
    OBVIOUS
  <2>1. rpc # "held"
    BY <1>1, SessionAssumption DEF IInv, LockInv
  <2>2. PICK d \in Calls : pc[d] = "held" /\ seen[d] = gen
    BY <1>1, <2>1, WhoReplaces
  <2>3. d = c
    BY <1>1, <2>2 DEF IInv, LockInv
  <2>4. QED  BY <1>1, <2>2, <2>3 DEF IInv, CallInv, Reconnecting
<1>2. QED  BY <1>1, Invariant, PTL DEF Spec, UserSparesNewerSession

(* Whenever the session is dropped without any run() being told, every     *)
(* call that was waiting for an answer is let go in the same step.         *)
THEOREM CallsReleased == Spec => GivenUpCallsAreReleased
<1>1. ASSUME IInv, [Next]_vars, session # NONE, session' = NONE,
             <<gen, parked, closing>>' = <<gen, parked, closing>>
      PROVE  \A c \in Calls : pc'[c] # "flight"
  <2>1. starting = {}
    BY <1>1 DEF IInv, RunInv
  <2>2. CASE GiveUp
    BY <2>2, <1>1 DEF GiveUp, IInv, TypeOK
  <2>3. CASE RunStep \/ BackendRestarts
    BY <1>1, <2>1, <2>3 DEF RunStep, HandshakeEnds, RunEnds, BackendRestarts, runVars, IInv, TypeOK
  <2>4. CASE \E c \in Calls : CallReconnects(c)
    <3>1. gen \in Nat
      BY <1>1 DEF IInv, TypeOK
    <3>2. QED  BY <1>1, <2>4, <3>1 DEF CallReconnects, Replace, LeaveLock
  <2>5. CASE PassReconnects
    <3>1. gen \in Nat
      BY <1>1 DEF IInv, TypeOK
    <3>2. QED  BY <1>1, <2>5, <3>1 DEF PassReconnects, Replace
  <2>6. CASE \E c \in Calls : CallStarts(c) \/ CallAnswers(c)
    BY <1>1, <2>6 DEF CallStarts, CallAnswers, CallAnswered, CallLosesSession, CallRefused,
       CallRaises, runVars
  <2>7. CASE \E c \in Calls : \/ CallTimesOut(c) \/ CallAcquires(c) \/ CallStartReturns(c)
                             \/ CallReconnectTimesOut(c) \/ CallRetries(c)
    BY <1>1, <2>7 DEF CallTimesOut, CallAcquires, Acquire, CallStartReturns, LeaveLock,
       CallReconnectTimesOut, CallRetries, runVars
  <2>8. CASE PassStep /\ ~PassReconnects /\ ~GiveUp
    BY <1>1, <2>8 DEF PassStep, PassJoins, PassJoined, PassBegins, Probe, ProbeAnswered,
       ProbeTimesOut,
       PassChecksSession, PassAcquires, Acquire, PassStartReturns, LeaveLock, PassReconnectTimesOut, PassReady,
       PassEnds, AggregateAsks, AggregateListed, AggregateTimesOut, runVars
  <2>9. CASE ProbeRaises \/ AggregateRaises
    BY <2>2, <2>9 DEF ProbeRaises, AggregateRaises
  <2>10. CASE UNCHANGED vars
    BY <1>1, <2>10 DEF vars, runVars
  <2>11. QED  BY <1>1, <2>2, <2>3, <2>4, <2>5, <2>6, <2>7, <2>8, <2>9, <2>10 DEF Next, CallProceeds
<1>2. QED  BY <1>1, Invariant, PTL DEF Spec, GivenUpCallsAreReleased

=============================================================================
