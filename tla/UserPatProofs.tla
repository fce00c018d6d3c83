---------------------------- MODULE UserPatProofs ----------------------------
(***************************************************************************)
(* Proofs about UserPat, for every set of calls and every bound: IInv is   *)
(* inductive, and what a refused token may cost follows from it.           *)
(***************************************************************************)
EXTENDS UserPat, TLAPS

(* NONE is no token.                                                       *)
LEMMA NoneNotLive == ASSUME TypeOK PROVE NONE \notin live
<1>1. \A t \in live : t \in Nat
  BY DEF TypeOK
<1>2. QED  BY <1>1, PatAssumption


(* Each step keeps every variable in its type.                             *)
LEMMA TypePreserved == ASSUME IInv, [Next]_vars PROVE TypeOK'
<1> USE PatAssumption
<1>0. TypeOK /\ LockInv /\ TokenInv /\ MintInv /\ EventInv /\ RefusedTwiceNeedsTwo
   /\ WorkInv
  BY DEF IInv
<1>1. ASSUME NEW c \in Calls, CallStarts(c) PROVE TypeOK'
  BY <1>0, <1>1 DEF TypeOK, Finished, Calls, CallStarts, Goto, appVars
<1>2. ASSUME NEW c \in Calls, TakesCached(c) PROVE TypeOK'
  BY <1>0, <1>2 DEF TypeOK, Finished, Calls, TakesCached, Hit, Goto, appVars
<1>3. ASSUME NEW c \in Calls, BeginsMint(c) PROVE TypeOK'
  BY <1>0, <1>3 DEF TypeOK, Finished, Calls, BeginsMint, Hit, Goto, appVars
<1>4. ASSUME NEW c \in Calls, AppMints(c) PROVE TypeOK'
  BY <1>0, <1>4 DEF TypeOK, Finished, Calls, AppMints, Goto
<1>5. ASSUME NEW c \in Calls, MintReturns(c) PROVE TypeOK'
  BY <1>0, <1>5 DEF TypeOK, Finished, Calls, MintReturns, Goto, appVars
<1>6. ASSUME NEW c \in Calls, MintFails(c) PROVE TypeOK'
  BY <1>0, <1>6 DEF TypeOK, Finished, Calls, MintFails, Return, Goto, Event, appVars
<1>7. ASSUME NEW c \in Calls, HandingEnds(c) PROVE TypeOK'
  BY <1>0, <1>7 DEF TypeOK, Finished, Calls, HandingEnds, Goto, appVars
<1>8. ASSUME NEW c \in Calls, AppWorks(c) PROVE TypeOK'
  BY <1>0, <1>8 DEF TypeOK, Finished, Calls, AppWorks, appVars
<1>9. ASSUME NEW c \in Calls, AppAnswers(c) PROVE TypeOK'
  BY <1>0, <1>9 DEF TypeOK, Finished, Calls, AppAnswers, Return, Goto, appVars
<1>10. ASSUME NEW c \in Calls, AppRejects(c) PROVE TypeOK'
  <2>1. CASE ComesAgain(c) /\ (cached' = cached \/ cached' = NONE)
    BY <1>0, <1>10, <2>1 DEF TypeOK, Finished, AppRejects, ComesAgain, Goto, appVars
  <2>2. CASE Return(c, "rejected") /\ (cached' = cached \/ cached' = NONE)
    BY <1>0, <1>10, <2>2 DEF TypeOK, Finished, AppRejects, Return, Goto, appVars
  <2>3. QED  BY <1>10, <2>1, <2>2 DEF AppRejects, Forget
<1>11. ASSUME NEW c \in Calls, CallFails(c) PROVE TypeOK'
  BY <1>0, <1>11 DEF TypeOK, Finished, Calls, CallFails, Return, Goto, appVars
<1>12. ASSUME NEW t \in 1 .. issued, Revoked(t) PROVE TypeOK'
  BY <1>0, <1>12 DEF TypeOK, Finished, Calls, Revoked, Event, callVars
<1>13. ASSUME Expires PROVE TypeOK'
  BY <1>0, <1>13 DEF TypeOK, Finished, Calls, Expires, Event, appVars, callVars
<1>14. ASSUME Invalidate PROVE TypeOK'
  BY <1>0, <1>14 DEF TypeOK, Finished, Calls, Invalidate, Event, appVars, callVars
<1>15. ASSUME UNCHANGED vars PROVE TypeOK'
  BY <1>0, <1>15 DEF TypeOK, Finished, Calls, vars, appVars, callVars
<1>16. QED  BY <1>1, <1>2, <1>3, <1>4, <1>5, <1>6, <1>7, <1>8, <1>9, <1>10, <1>11, <1>12, <1>13,
   <1>14, <1>15 DEF Next, CallStep, Minting, Sending, Outside

(* Only who holds the lock mints or hands over.                            *)
LEMMA LockPreserved == ASSUME IInv, [Next]_vars PROVE LockInv'
<1> USE PatAssumption
<1>0. TypeOK /\ LockInv /\ TokenInv /\ MintInv /\ EventInv /\ RefusedTwiceNeedsTwo
   /\ WorkInv
  BY DEF IInv
<1>1. ASSUME NEW c \in Calls, CallStarts(c) PROVE LockInv'
  BY <1>0, <1>1 DEF TypeOK, LockInv, CallStarts, Goto, appVars
<1>2. ASSUME NEW c \in Calls, TakesCached(c) PROVE LockInv'
  BY <1>0, <1>2 DEF TypeOK, LockInv, TakesCached, Hit, Goto, appVars
<1>3. ASSUME NEW c \in Calls, BeginsMint(c) PROVE LockInv'
  BY <1>0, <1>3 DEF TypeOK, LockInv, BeginsMint, Hit, Goto, appVars
<1>4. ASSUME NEW c \in Calls, AppMints(c) PROVE LockInv'
  BY <1>0, <1>4 DEF TypeOK, LockInv, AppMints, Goto
<1>5. ASSUME NEW c \in Calls, MintReturns(c) PROVE LockInv'
  BY <1>0, <1>5 DEF TypeOK, LockInv, MintReturns, Goto, appVars
<1>6. ASSUME NEW c \in Calls, MintFails(c) PROVE LockInv'
  BY <1>0, <1>6 DEF TypeOK, LockInv, MintFails, Return, Goto, Event, appVars
<1>7. ASSUME NEW c \in Calls, HandingEnds(c) PROVE LockInv'
  BY <1>0, <1>7 DEF TypeOK, LockInv, HandingEnds, Goto, appVars
<1>8. ASSUME NEW c \in Calls, AppWorks(c) PROVE LockInv'
  BY <1>0, <1>8 DEF TypeOK, LockInv, AppWorks, appVars
<1>9. ASSUME NEW c \in Calls, AppAnswers(c) PROVE LockInv'
  BY <1>0, <1>9 DEF TypeOK, LockInv, AppAnswers, Return, Goto, appVars
<1>10. ASSUME NEW c \in Calls, AppRejects(c) PROVE LockInv'
  BY <1>0, <1>10 DEF TypeOK, LockInv, AppRejects, ComesAgain, Forget, Return, Goto, appVars
<1>11. ASSUME NEW c \in Calls, CallFails(c) PROVE LockInv'
  BY <1>0, <1>11 DEF TypeOK, LockInv, CallFails, Return, Goto, appVars
<1>12. ASSUME NEW t \in 1 .. issued, Revoked(t) PROVE LockInv'
  BY <1>0, <1>12 DEF TypeOK, LockInv, Revoked, Event, callVars
<1>13. ASSUME Expires PROVE LockInv'
  BY <1>0, <1>13 DEF TypeOK, LockInv, Expires, Event, appVars, callVars
<1>14. ASSUME Invalidate PROVE LockInv'
  BY <1>0, <1>14 DEF TypeOK, LockInv, Invalidate, Event, appVars, callVars
<1>15. ASSUME UNCHANGED vars PROVE LockInv'
  BY <1>0, <1>15 DEF TypeOK, LockInv, vars, appVars, callVars
<1>16. QED  BY <1>1, <1>2, <1>3, <1>4, <1>5, <1>6, <1>7, <1>8, <1>9, <1>10, <1>11, <1>12, <1>13,
   <1>14, <1>15 DEF Next, CallStep, Minting, Sending, Outside

(* Tokens under way stay tokens that were minted, refused ones stay dead.  *)
LEMMA TokenPreserved == ASSUME IInv, [Next]_vars PROVE TokenInv'
<1> USE PatAssumption
<1>0. TypeOK /\ LockInv /\ TokenInv /\ MintInv /\ EventInv /\ RefusedTwiceNeedsTwo
   /\ WorkInv
  BY DEF IInv
<1>1. ASSUME NEW c \in Calls, CallStarts(c) PROVE TokenInv'
  BY <1>0, <1>1 DEF TypeOK, LockInv, TokenInv, CallStarts, Goto, appVars
<1>2. ASSUME NEW c \in Calls, TakesCached(c) PROVE TokenInv'
  BY <1>0, <1>2 DEF TypeOK, LockInv, TokenInv, TakesCached, Hit, Goto, appVars
<1>3. ASSUME NEW c \in Calls, BeginsMint(c) PROVE TokenInv'
  BY <1>0, <1>3 DEF TypeOK, LockInv, TokenInv, BeginsMint, Hit, Goto, appVars
<1>4. ASSUME NEW c \in Calls, AppMints(c) PROVE TokenInv'
  BY <1>0, <1>4 DEF TypeOK, LockInv, TokenInv, AppMints, Goto
<1>5. ASSUME NEW c \in Calls, MintReturns(c) PROVE TokenInv'
  BY <1>0, <1>5 DEF TypeOK, LockInv, TokenInv, MintReturns, Goto, appVars
<1>6. ASSUME NEW c \in Calls, MintFails(c) PROVE TokenInv'
  BY <1>0, <1>6 DEF TypeOK, LockInv, TokenInv, MintFails, Return, Goto, Event, appVars
<1>7. ASSUME NEW c \in Calls, HandingEnds(c) PROVE TokenInv'
  BY <1>0, <1>7 DEF TypeOK, LockInv, TokenInv, HandingEnds, Goto, appVars
<1>8. ASSUME NEW c \in Calls, AppWorks(c) PROVE TokenInv'
  BY <1>0, <1>8 DEF TypeOK, LockInv, TokenInv, AppWorks, appVars
<1>9. ASSUME NEW c \in Calls, AppAnswers(c) PROVE TokenInv'
  BY <1>0, <1>9 DEF TypeOK, LockInv, TokenInv, AppAnswers, Return, Goto, appVars
<1>10. ASSUME NEW c \in Calls, AppRejects(c) PROVE TokenInv'
  BY <1>0, <1>10 DEF TypeOK, LockInv, TokenInv, AppRejects, ComesAgain, Forget, Return, Goto,
     appVars
<1>11. ASSUME NEW c \in Calls, CallFails(c) PROVE TokenInv'
  BY <1>0, <1>11 DEF TypeOK, LockInv, TokenInv, CallFails, Return, Goto, appVars
<1>12. ASSUME NEW t \in 1 .. issued, Revoked(t) PROVE TokenInv'
  BY <1>0, <1>12 DEF TypeOK, LockInv, TokenInv, Revoked, Event, callVars
<1>13. ASSUME Expires PROVE TokenInv'
  BY <1>0, <1>13 DEF TypeOK, LockInv, TokenInv, Expires, Event, appVars, callVars
<1>14. ASSUME Invalidate PROVE TokenInv'
  BY <1>0, <1>14 DEF TypeOK, LockInv, TokenInv, Invalidate, Event, appVars, callVars
<1>15. ASSUME UNCHANGED vars PROVE TokenInv'
  BY <1>0, <1>15 DEF TypeOK, LockInv, TokenInv, vars, appVars, callVars
<1>16. QED  BY <1>1, <1>2, <1>3, <1>4, <1>5, <1>6, <1>7, <1>8, <1>9, <1>10, <1>11, <1>12, <1>13,
   <1>14, <1>15 DEF Next, CallStep, Minting, Sending, Outside

(* A mint under way has nothing that works in the cache.                   *)
LEMMA MintPreserved == ASSUME IInv, [Next]_vars PROVE MintInv'
<1> USE PatAssumption
<1>0. TypeOK /\ LockInv /\ TokenInv /\ MintInv /\ EventInv /\ RefusedTwiceNeedsTwo
   /\ WorkInv
  BY DEF IInv
<1>1. ASSUME NEW c \in Calls, CallStarts(c) PROVE MintInv'
  BY <1>0, <1>1 DEF TypeOK, LockInv, TokenInv, MintInv, CallStarts, Goto, appVars
<1>2. ASSUME NEW c \in Calls, TakesCached(c) PROVE MintInv'
  BY <1>0, <1>2 DEF TypeOK, LockInv, TokenInv, MintInv, TakesCached, Hit, Goto, appVars
<1>3. ASSUME NEW c \in Calls, BeginsMint(c) PROVE MintInv'
  BY <1>0, <1>3 DEF TypeOK, LockInv, TokenInv, MintInv, BeginsMint, Hit, Goto, appVars
<1>4. ASSUME NEW c \in Calls, AppMints(c) PROVE MintInv'
  BY <1>0, <1>4 DEF TypeOK, LockInv, TokenInv, MintInv, AppMints, Goto
<1>5. ASSUME NEW c \in Calls, MintReturns(c) PROVE MintInv'
  BY <1>0, <1>5 DEF TypeOK, LockInv, TokenInv, MintInv, MintReturns, Goto, appVars
<1>6. ASSUME NEW c \in Calls, MintFails(c) PROVE MintInv'
  BY <1>0, <1>6 DEF TypeOK, LockInv, TokenInv, MintInv, MintFails, Return, Goto, Event, appVars
<1>7. ASSUME NEW c \in Calls, HandingEnds(c) PROVE MintInv'
  BY <1>0, <1>7 DEF TypeOK, LockInv, TokenInv, MintInv, HandingEnds, Goto, appVars
<1>8. ASSUME NEW c \in Calls, AppWorks(c) PROVE MintInv'
  BY <1>0, <1>8 DEF TypeOK, LockInv, TokenInv, MintInv, AppWorks, appVars
<1>9. ASSUME NEW c \in Calls, AppAnswers(c) PROVE MintInv'
  BY <1>0, <1>9 DEF TypeOK, LockInv, TokenInv, MintInv, AppAnswers, Return, Goto, appVars
<1>10. ASSUME NEW c \in Calls, AppRejects(c) PROVE MintInv'
  <2>1. NONE \notin live
    BY <1>0, NoneNotLive
  <2>2. live' = live /\ (cached' = cached \/ cached' = NONE)
    BY <1>10 DEF AppRejects, Forget, appVars
  <2>3. \A d \in Calls : pc'[d] \in {"minting", "minted"} => pc[d] \in {"minting", "minted"}
    BY <1>0, <1>10 DEF AppRejects, ComesAgain, Return, Goto, TypeOK
  <2>4. QED  BY <1>0, <2>1, <2>2, <2>3 DEF MintInv
<1>11. ASSUME NEW c \in Calls, CallFails(c) PROVE MintInv'
  BY <1>0, <1>11 DEF TypeOK, LockInv, TokenInv, MintInv, CallFails, Return, Goto, appVars
<1>12. ASSUME NEW t \in 1 .. issued, Revoked(t) PROVE MintInv'
  BY <1>0, <1>12 DEF TypeOK, LockInv, TokenInv, MintInv, Revoked, Event, callVars
<1>13. ASSUME Expires PROVE MintInv'
  <2>1. NONE \notin live
    BY <1>0, NoneNotLive
  <2>2. QED  BY <1>13, <2>1 DEF MintInv, Expires, appVars
<1>14. ASSUME Invalidate PROVE MintInv'
  <2>1. NONE \notin live
    BY <1>0, NoneNotLive
  <2>2. QED  BY <1>14, <2>1 DEF MintInv, Invalidate, appVars
<1>15. ASSUME UNCHANGED vars PROVE MintInv'
  BY <1>0, <1>15 DEF TypeOK, LockInv, TokenInv, MintInv, vars, appVars, callVars
<1>16. QED  BY <1>1, <1>2, <1>3, <1>4, <1>5, <1>6, <1>7, <1>8, <1>9, <1>10, <1>11, <1>12, <1>13,
   <1>14, <1>15 DEF Next, CallStep, Minting, Sending, Outside

(* Every mint is paid for by an event.                                     *)
LEMMA EventPreserved == ASSUME IInv, [Next]_vars PROVE EventInv'
<1> USE PatAssumption
<1>0. TypeOK /\ LockInv /\ TokenInv /\ MintInv /\ EventInv /\ RefusedTwiceNeedsTwo
   /\ WorkInv
  BY DEF IInv
<1>1. ASSUME NEW c \in Calls, CallStarts(c) PROVE EventInv'
  BY <1>0, <1>1 DEF TypeOK, LockInv, TokenInv, MintInv, EventInv, CallStarts, Goto, appVars
<1>2. ASSUME NEW c \in Calls, TakesCached(c) PROVE EventInv'
  BY <1>0, <1>2 DEF TypeOK, LockInv, TokenInv, MintInv, EventInv, TakesCached, Hit, Goto, appVars
<1>3. ASSUME NEW c \in Calls, BeginsMint(c) PROVE EventInv'
  BY <1>0, <1>3 DEF TypeOK, LockInv, TokenInv, MintInv, EventInv, BeginsMint, Hit, Goto, appVars
<1>4. ASSUME NEW c \in Calls, AppMints(c) PROVE EventInv'
  BY <1>0, <1>4 DEF TypeOK, LockInv, TokenInv, MintInv, EventInv, AppMints, Goto
<1>5. ASSUME NEW c \in Calls, MintReturns(c) PROVE EventInv'
  BY <1>0, <1>5 DEF TypeOK, LockInv, TokenInv, MintInv, EventInv, MintReturns, Goto, appVars
<1>6. ASSUME NEW c \in Calls, MintFails(c) PROVE EventInv'
  BY <1>0, <1>6 DEF TypeOK, LockInv, TokenInv, MintInv, EventInv, MintFails, Return, Goto, Event,
     appVars
<1>7. ASSUME NEW c \in Calls, HandingEnds(c) PROVE EventInv'
  BY <1>0, <1>7 DEF TypeOK, LockInv, TokenInv, MintInv, EventInv, HandingEnds, Goto, appVars
<1>8. ASSUME NEW c \in Calls, AppWorks(c) PROVE EventInv'
  BY <1>0, <1>8 DEF TypeOK, LockInv, TokenInv, MintInv, EventInv, AppWorks, appVars
<1>9. ASSUME NEW c \in Calls, AppAnswers(c) PROVE EventInv'
  BY <1>0, <1>9 DEF TypeOK, LockInv, TokenInv, MintInv, EventInv, AppAnswers, Return, Goto,
     appVars
<1>10. ASSUME NEW c \in Calls, AppRejects(c) PROVE EventInv'
  BY <1>0, <1>10 DEF TypeOK, LockInv, TokenInv, MintInv, EventInv, AppRejects, ComesAgain, Forget,
     Return, Goto, appVars
<1>11. ASSUME NEW c \in Calls, CallFails(c) PROVE EventInv'
  BY <1>0, <1>11 DEF TypeOK, LockInv, TokenInv, MintInv, EventInv, CallFails, Return, Goto,
     appVars
<1>12. ASSUME NEW t \in 1 .. issued, Revoked(t) PROVE EventInv'
  BY <1>0, <1>12 DEF TypeOK, LockInv, TokenInv, MintInv, EventInv, Revoked, Event, callVars
<1>13. ASSUME Expires PROVE EventInv'
  BY <1>0, <1>13 DEF TypeOK, LockInv, TokenInv, MintInv, EventInv, Expires, Event, appVars,
     callVars
<1>14. ASSUME Invalidate PROVE EventInv'
  BY <1>0, <1>14 DEF TypeOK, LockInv, TokenInv, MintInv, EventInv, Invalidate, Event, appVars,
     callVars
<1>15. ASSUME UNCHANGED vars PROVE EventInv'
  BY <1>0, <1>15 DEF TypeOK, LockInv, TokenInv, MintInv, EventInv, vars, appVars, callVars
<1>16. QED  BY <1>1, <1>2, <1>3, <1>4, <1>5, <1>6, <1>7, <1>8, <1>9, <1>10, <1>11, <1>12, <1>13,
   <1>14, <1>15 DEF Next, CallStep, Minting, Sending, Outside

(* A second refusal takes two dead tokens, and so two events.              *)
LEMMA RefusedPreserved == ASSUME IInv, [Next]_vars PROVE RefusedTwiceNeedsTwo'
<1> USE PatAssumption
<1>0. TypeOK /\ LockInv /\ TokenInv /\ MintInv /\ EventInv /\ RefusedTwiceNeedsTwo
   /\ WorkInv
  BY DEF IInv
<1>1. ASSUME NEW c \in Calls, CallStarts(c) PROVE RefusedTwiceNeedsTwo'
  BY <1>0, <1>1 DEF TypeOK, TokenInv, EventInv, RefusedTwiceNeedsTwo, CallStarts, Goto, appVars
<1>2. ASSUME NEW c \in Calls, TakesCached(c) PROVE RefusedTwiceNeedsTwo'
  <2>1. events' = events
    BY <1>2 DEF TakesCached
  <2>2. \A d \in Calls : pc'[d] = "rejected" => pc[d] = "rejected"
    BY <1>0, <1>2 DEF TakesCached, Goto, TypeOK
  <2>3. QED  BY <1>0, <2>1, <2>2 DEF RefusedTwiceNeedsTwo, Calls
<1>3. ASSUME NEW c \in Calls, BeginsMint(c) PROVE RefusedTwiceNeedsTwo'
  BY <1>0, <1>3 DEF TypeOK, TokenInv, EventInv, RefusedTwiceNeedsTwo, BeginsMint, Hit, Goto,
     appVars
<1>4. ASSUME NEW c \in Calls, AppMints(c) PROVE RefusedTwiceNeedsTwo'
  BY <1>0, <1>4 DEF TypeOK, TokenInv, EventInv, RefusedTwiceNeedsTwo, AppMints, Goto
<1>5. ASSUME NEW c \in Calls, MintReturns(c) PROVE RefusedTwiceNeedsTwo'
  <2>1. events' = events
    BY <1>5 DEF MintReturns
  <2>2. \A d \in Calls : pc'[d] = "rejected" => pc[d] = "rejected"
    BY <1>0, <1>5 DEF MintReturns, Goto, TypeOK
  <2>3. QED  BY <1>0, <2>1, <2>2 DEF RefusedTwiceNeedsTwo, Calls
<1>6. ASSUME NEW c \in Calls, MintFails(c) PROVE RefusedTwiceNeedsTwo'
  BY <1>0, <1>6 DEF TypeOK, TokenInv, EventInv, RefusedTwiceNeedsTwo, MintFails, Return, Goto,
     Event, appVars
<1>7. ASSUME NEW c \in Calls, HandingEnds(c) PROVE RefusedTwiceNeedsTwo'
  BY <1>0, <1>7 DEF TypeOK, TokenInv, EventInv, RefusedTwiceNeedsTwo, HandingEnds, Goto, appVars
<1>8. ASSUME NEW c \in Calls, AppWorks(c) PROVE RefusedTwiceNeedsTwo'
  BY <1>0, <1>8 DEF TypeOK, TokenInv, EventInv, RefusedTwiceNeedsTwo, AppWorks, appVars
<1>9. ASSUME NEW c \in Calls, AppAnswers(c) PROVE RefusedTwiceNeedsTwo'
  BY <1>0, <1>9 DEF TypeOK, TokenInv, EventInv, RefusedTwiceNeedsTwo, AppAnswers, Return, Goto,
     appVars
<1>10. ASSUME NEW c \in Calls, AppRejects(c) PROVE RefusedTwiceNeedsTwo'
  <2>1. events' = events /\ events \in Nat /\ issued \in Nat
    BY <1>0, <1>10 DEF AppRejects, TypeOK
  <2>2. \A d \in Calls \ {c} : pc'[d] = pc[d]
    BY <1>0, <1>10 DEF AppRejects, ComesAgain, Return, Goto, TypeOK
  <2>3. ASSUME c \in Tool \cup RestCall, pc'[c] = "rejected" PROVE events >= 2
    <3>1. again[c]
      BY <1>0, <1>10, <2>3 DEF AppRejects, ComesAgain, Goto, TypeOK
    <3>2. tok[c] \in (1 .. issued) \ live /\ stale[c] \in (1 .. issued) \ live /\ tok[c] # stale[c]
      BY <1>0, <1>10, <3>1 DEF AppRejects, TokenInv
    <3>3. CASE issued \in live
      BY <1>0, <2>1, <3>2, <3>3 DEF EventInv
    <3>4. CASE issued \notin live
      BY <1>0, <2>1, <3>2, <3>4 DEF EventInv
    <3>5. QED  BY <3>3, <3>4
  <2>4. QED  BY <1>0, <2>1, <2>2, <2>3 DEF RefusedTwiceNeedsTwo, Calls
<1>11. ASSUME NEW c \in Calls, CallFails(c) PROVE RefusedTwiceNeedsTwo'
  BY <1>0, <1>11 DEF TypeOK, TokenInv, EventInv, RefusedTwiceNeedsTwo, CallFails, Return, Goto,
     appVars
<1>12. ASSUME NEW t \in 1 .. issued, Revoked(t) PROVE RefusedTwiceNeedsTwo'
  BY <1>0, <1>12 DEF TypeOK, TokenInv, EventInv, RefusedTwiceNeedsTwo, Revoked, Event, callVars
<1>13. ASSUME Expires PROVE RefusedTwiceNeedsTwo'
  BY <1>0, <1>13 DEF TypeOK, TokenInv, EventInv, RefusedTwiceNeedsTwo, Expires, Event, appVars,
     callVars
<1>14. ASSUME Invalidate PROVE RefusedTwiceNeedsTwo'
  BY <1>0, <1>14 DEF TypeOK, TokenInv, EventInv, RefusedTwiceNeedsTwo, Invalidate, Event, appVars,
     callVars
<1>15. ASSUME UNCHANGED vars PROVE RefusedTwiceNeedsTwo'
  BY <1>0, <1>15 DEF TypeOK, TokenInv, EventInv, RefusedTwiceNeedsTwo, vars, appVars, callVars
<1>16. QED  BY <1>1, <1>2, <1>3, <1>4, <1>5, <1>6, <1>7, <1>8, <1>9, <1>10, <1>11, <1>12, <1>13,
   <1>14, <1>15 DEF Next, CallStep, Minting, Sending, Outside

(* What is carried out under a token was carried out while it was the      *)
(* cached one, as long as nothing has happened since.                      *)
LEMMA WorkPreserved == ASSUME IInv, [Next]_vars PROVE WorkInv'
<1> USE PatAssumption
<1>0. TypeOK /\ LockInv /\ TokenInv /\ MintInv /\ WorkInv
  BY DEF IInv
<1>1. ASSUME NEW c \in Calls, CallStarts(c) PROVE WorkInv'
  BY <1>0, <1>1 DEF TypeOK, WorkInv, CallStarts, Goto, appVars
<1>2. ASSUME NEW c \in Calls, TakesCached(c) PROVE WorkInv'
  BY <1>0, <1>2 DEF TypeOK, WorkInv, TakesCached, Hit, Goto, appVars
<1>3. ASSUME NEW c \in Calls, BeginsMint(c) PROVE WorkInv'
  BY <1>0, <1>3 DEF TypeOK, WorkInv, BeginsMint, Goto, appVars
<1>4. ASSUME NEW c \in Calls, AppMints(c) PROVE WorkInv'
  <2>1. cached \notin live
    BY <1>0, <1>4 DEF AppMints, MintInv
  <2>2. \A d \in Calls : tok[d] # issued + 1 /\ (pc[d] \in {"handing", "sent"} => tok[d] \in 1 .. issued)
    BY <1>0 DEF TypeOK, TokenInv
  <2>3. QED  BY <1>0, <1>4, <2>1, <2>2 DEF TypeOK, WorkInv, AppMints, Goto
<1>5. ASSUME NEW c \in Calls, MintReturns(c) PROVE WorkInv'
  <2>1. cached \notin live
    BY <1>0, <1>5 DEF MintReturns, MintInv
  <2>2. QED  BY <1>0, <1>5, <2>1 DEF TypeOK, WorkInv, MintReturns, Goto, appVars
<1>6. ASSUME NEW c \in Calls, MintFails(c) PROVE WorkInv'
  BY <1>0, <1>6 DEF TypeOK, WorkInv, MintFails, Return, Goto, Event, Finished, appVars
<1>7. ASSUME NEW c \in Calls, HandingEnds(c) PROVE WorkInv'
  BY <1>0, <1>7 DEF TypeOK, WorkInv, HandingEnds, Goto, appVars
<1>8. ASSUME NEW c \in Calls, AppWorks(c) PROVE WorkInv'
  BY <1>0, <1>8 DEF TypeOK, WorkInv, AppWorks, appVars
<1>9. ASSUME NEW c \in Calls, AppAnswers(c) PROVE WorkInv'
  BY <1>0, <1>9 DEF TypeOK, WorkInv, AppAnswers, Return, Goto, appVars
<1>10. ASSUME NEW c \in Calls, AppRejects(c) PROVE WorkInv'
  <2>1. cached' = cached \/ (cached = tok[c] /\ tok[c] \notin live)
    BY <1>10 DEF AppRejects, Forget
  <2>2. live' = live /\ events' = events
    BY <1>10 DEF AppRejects, appVars
  <2>3. ASSUME NEW d \in Calls, d # c
        PROVE  pc'[d] = pc[d] /\ tok'[d] = tok[d] /\ since'[d] = since[d] /\ work'[d] = work[d]
    BY <1>0, <1>10, <2>3 DEF AppRejects, ComesAgain, Return, Goto, TypeOK
  <2>4. pc'[c] \in {"lock", "rejected"} /\ work'[c] = 0 /\ since'[c] = 0 /\ events \in Nat
    BY <1>0, <1>10 DEF AppRejects, ComesAgain, Return, Goto, TypeOK
  <2>5. QED  BY <1>0, <2>1, <2>2, <2>3, <2>4 DEF WorkInv
<1>11. ASSUME NEW c \in Calls, CallFails(c) PROVE WorkInv'
  BY <1>0, <1>11 DEF TypeOK, WorkInv, CallFails, Return, Goto, appVars
<1>12. ASSUME Outside PROVE WorkInv'
  BY <1>0, <1>12 DEF TypeOK, WorkInv, Outside, Revoked, Expires, Invalidate, Event, callVars,
     appVars
<1>13. ASSUME UNCHANGED vars PROVE WorkInv'
  BY <1>0, <1>13 DEF WorkInv, vars, appVars, callVars
<1>14. QED  BY <1>1, <1>2, <1>3, <1>4, <1>5, <1>6, <1>7, <1>8, <1>9, <1>10, <1>11, <1>12, <1>13
   DEF Next, CallStep, Minting, Sending

(* Nothing is under way at the start.                                      *)
LEMMA InitInv == ASSUME Init PROVE IInv
<1>1. TypeOK
  BY PatAssumption DEF Init, TypeOK, Finished
<1>2. LockInv /\ MintInv /\ RefusedTwiceNeedsTwo
  BY DEF Init, LockInv, MintInv, RefusedTwiceNeedsTwo, Calls
<1>3. TokenInv
  BY DEF Init, TokenInv
<1>4. EventInv
  BY DEF Init, EventInv
<1>5. WorkInv
  BY DEF Init, WorkInv
<1>6. QED  BY <1>1, <1>2, <1>3, <1>4, <1>5 DEF IInv

(* IInv holds in every state of every behaviour.                           *)
THEOREM Invariant == Spec => []IInv
<1>1. IInv /\ [Next]_vars => IInv'
  BY TypePreserved, LockPreserved, TokenPreserved, MintPreserved, EventPreserved, RefusedPreserved,
     WorkPreserved DEF IInv
<1>2. QED  BY InitInv, <1>1, PTL DEF Spec

(* The types of the tokens, the lock and the calls hold throughout.        *)
THEOREM TypeCorrect == Spec => []TypeOK
<1>1. IInv => TypeOK
  BY DEF IInv
<1>2. QED  BY Invariant, <1>1, PTL

(* Any number of calls refused at once costs one mint per event.           *)
THEOREM OneMint == Spec => []OneMintPerEvent
<1>1. IInv => OneMintPerEvent
  BY DEF IInv, EventInv, OneMintPerEvent
<1>2. QED  BY Invariant, <1>1, PTL

(* Calls never refuse one another: a second refusal takes two events.      *)
THEOREM NoMutualRefusal == Spec => []RefusedTwiceNeedsTwo
<1>1. IInv => RefusedTwiceNeedsTwo
  BY DEF IInv
<1>2. QED  BY Invariant, <1>1, PTL

(* No call drops a cached token that works.                                *)
THEOREM WorkingTokenKept == Spec => WorkingTokenStays
<1>1. ASSUME IInv, [Next]_vars, cached \in live, cached' # cached
      PROVE  events' # events
  <2>1. events \in Nat
    BY <1>1, PatAssumption DEF IInv, TypeOK
  <2>2. CASE Outside
    BY <1>1, <2>1, <2>2 DEF Outside, Revoked, Expires, Invalidate, Event
  <2>3. CASE \E c \in Calls : MintReturns(c)
    BY <1>1, <2>3 DEF MintReturns, IInv, MintInv
  <2>4. CASE \E c \in Calls : AppRejects(c)
    BY <1>1, <2>4 DEF AppRejects, Forget
  <2>5. CASE \E c \in Calls : CallStarts(c) \/ TakesCached(c) \/ BeginsMint(c) \/ AppMints(c) \/ MintFails(c)
    BY <1>1, <2>5 DEF CallStarts, TakesCached, BeginsMint, AppMints, MintFails
  <2>6. CASE \E c \in Calls : HandingEnds(c) \/ AppWorks(c) \/ AppAnswers(c) \/ CallFails(c)
    BY <1>1, <2>6 DEF HandingEnds, AppWorks, AppAnswers, CallFails
  <2>7. CASE UNCHANGED vars
    BY <1>1, <2>7 DEF vars
  <2>8. QED  BY <1>1, <2>2, <2>3, <2>4, <2>5, <2>6, <2>7 DEF Next, CallStep, Minting, Sending
<1>2. QED  BY <1>1, Invariant, PTL DEF Spec, WorkingTokenStays

(* A step after which a call waits for the lock again is one in which the  *)
(* app refused its token.                                                  *)
LEMMA OnlyRefusedComeAgain ==
    ASSUME TypeOK, [Next]_vars, NEW c \in Calls, pc[c] = "sent", pc'[c] = "lock"
    PROVE  AppRejects(c)
<1>1. CASE \E d \in Calls : CallStarts(d) \/ TakesCached(d)
  BY <1>1 DEF CallStarts, TakesCached, Goto, TypeOK
<1>2. CASE \E d \in Calls : Minting(d)
  BY <1>2 DEF Minting, BeginsMint, AppMints, MintReturns, MintFails, HandingEnds, Return, Goto,
     TypeOK
<1>3. CASE \E d \in Calls : AppWorks(d) \/ AppAnswers(d) \/ CallFails(d)
  BY <1>3 DEF AppWorks, AppAnswers, CallFails, Return, Goto, TypeOK
<1>4. CASE \E d \in Calls : AppRejects(d)
  BY <1>4 DEF AppRejects, ComesAgain, Return, Goto, TypeOK
<1>5. CASE Outside \/ UNCHANGED vars
  BY <1>5 DEF Outside, Revoked, Expires, Invalidate, callVars, vars
<1>6. QED  BY <1>1, <1>2, <1>3, <1>4, <1>5 DEF Next, CallStep, Sending

(* Part of a call is repeated only after an event since it got its token:  *)
(* for any number of calls and of requests in a call, no other call's      *)
(* refusal or mint is enough.                                              *)
THEOREM RepeatHasCause == Spec => RepeatNeedsEvent
<1>1. ASSUME IInv, [Next]_vars
      PROVE  \A c \in Calls : pc[c] = "sent" /\ work[c] > 0 /\ pc'[c] = "lock"
                 => events > since[c]
  <2>1. SUFFICES ASSUME NEW c \in Calls, pc[c] = "sent", work[c] > 0, pc'[c] = "lock"
                 PROVE  events > since[c]
    OBVIOUS
  <2>2. AppRejects(c)
    BY <1>1, <2>1, OnlyRefusedComeAgain DEF IInv
  <2>3. tok[c] \notin live
    BY <2>2 DEF AppRejects
  <2>4. since[c] <= events /\ since[c] # events
    BY <1>1, <2>1, <2>3 DEF IInv, WorkInv
  <2>5. since[c] \in Nat /\ events \in Nat
    BY <1>1, PatAssumption DEF IInv, TypeOK
  <2>6. QED  BY <2>4, <2>5
<1>2. QED  BY <1>1, Invariant, PTL DEF Spec, RepeatNeedsEvent
=============================================================================
