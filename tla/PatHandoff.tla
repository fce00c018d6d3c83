----------------------------- MODULE PatHandoff -----------------------------
(***************************************************************************)
(* Handing a portal PAT to an app for one person (_portal_pat_handoff,     *)
(* _portal_pat_serve, and _user_pat around them).  The app says with the   *)
(* token it mints that it wants one; a call by the person's own PAT then   *)
(* has the portal exchange that for a narrower one and gives it to the     *)
(* app; what could not be done is kept for a later call                    *)
(* (_PORTAL_PAT_PENDING).                                                  *)
(*                                                                         *)
(* All of this happens under the lock of the app and the person, so cur is *)
(* the one call that has the lock.  A step is the code between two awaits. *)
(* A request may be carried out after the gateway has given it up.  Time   *)
(* is counted in ticks.                                                    *)
(*                                                                         *)
(* MaxTime, MaxPats and MaxEvents are bounds; an event is a change of what *)
(* the app needs.                                                          *)
(***************************************************************************)
EXTENDS Naturals

CONSTANTS Cooldown, MaxTime, MaxPats, MaxEvents, NONE

Pats == 1..MaxPats

ASSUME HandoffAssumption ==
    /\ Cooldown \in Nat \ {0} /\ MaxTime \in Nat /\ MaxPats \in Nat /\ MaxEvents \in Nat
    /\ NONE \notin Nat /\ NONE \notin {"mcp", "bridge", "200", "3xx", "4xx", "5xx"}

VARIABLES
    spec,       \* portal_pat_spec is there
    now,
    tried,      \* _PORTAL_PAT_TRIED, or NONE
    hit,        \* _USER_PATS has a token that is good
    wish,       \* _PORTAL_PAT_PENDING: the audience wanted, or NONE
    cur,        \* the call that has the lock
    app,        \* what the app needs, the PAT it has, and whether it rests after a failure
    pats,       \* of each PAT: whether it has the audience of the bridge, by whom it was revoked
    made,       \* PATs exchanged
    late,       \* PATs on their way to the app in requests given up
    last,       \* history: when an exchange last began
    said,       \* history: what the app wanted when it last minted a token
    closed,     \* history: why that need not be done any more
    events

gate == <<tried, hit, wish>>
outside == <<app, pats, made, late>>
history == <<last, said, closed>>
vars == <<spec, now, gate, cur, outside, history, events>>

(* Who calls: root has a PAT with all audiences, short one without the     *)
(* bridge's, other has none that could be exchanged (GW_TOKEN, a chat, a   *)
(* procedure, a child, another person, no request).                        *)
Kinds == {"root", "short", "other"}

Nobody == [pc |-> "idle", kind |-> "other", want |-> NONE, cached |-> FALSE,
           pat |-> NONE, transient |-> FALSE, told |-> NONE]

Adequate(a) ==
    a.has # NONE /\ pats[a.has].end = "no" /\ (a.needs = "bridge" => pats[a.has].bridge)

(* portal_pat_wanted.                                                      *)
Wanted == IF app.needs = NONE \/ app.rests \/ Adequate(app) THEN NONE ELSE app.needs

Init ==
    /\ spec \in BOOLEAN /\ now = 0 /\ tried = NONE /\ hit = FALSE /\ wish = NONE
    /\ cur = Nobody
    /\ app \in [needs : {NONE, "mcp", "bridge"}, has : {NONE}, rests : {FALSE}]
    /\ pats = [p \in Pats |-> [bridge |-> FALSE, end |-> "no"]]
    /\ made = 0 /\ late = {}
    /\ last = NONE /\ said = NONE /\ closed = {} /\ events = 0

Cooled == tried # NONE => now - tried >= Cooldown

-----------------------------------------------------------------------------
(* _portal_pat_serve: w stays wanted, or is forgotten.                     *)
Serve(w, keep) ==
    /\ wish' = IF keep THEN w ELSE NONE
    /\ cur' = Nobody

(* Mutant: what comes within the rest is not kept.                         *)
Mut_Skips(w, kind) ==
    IF ~spec THEN <<"config", FALSE>>
    ELSE IF kind = "other" THEN <<"other", TRUE>>
    ELSE IF w = "bridge" /\ kind = "short" THEN <<"short", FALSE>>
    ELSE <<IF Cooled THEN "no" ELSE "rests", FALSE>>

(* Why nothing is exchanged, and whether the wish is kept.                 *)
Skips(w, kind) ==
    IF ~spec THEN <<"config", FALSE>>
    ELSE IF kind = "other" THEN <<"other", TRUE>>
    ELSE IF w = "bridge" /\ kind = "short" THEN <<"short", FALSE>>
    ELSE <<IF Cooled THEN "no" ELSE "rests", ~Cooled>>

(* Mutant: the attempt is not noted.                                       *)
Mut_Tries == UNCHANGED tried

(* _PORTAL_PAT_TRIED is set before anything is sent.                       *)
Tries == tried' = now

(* _portal_pat_handoff to its first await, for call c and wish w; cl are   *)
(* the reasons to forget it so far.                                        *)
HandsOver(c, w, cl) ==
    LET s == Skips(w, c.kind)
    IN  \/ /\ s[1] = "no"
           /\ Tries /\ last' = now /\ closed' = cl
           /\ cur' = [c EXCEPT !.pc = "exchange", !.want = w]
           /\ UNCHANGED wish
        \/ /\ s[1] = "config" /\ Cooled
           /\ Tries /\ closed' = cl \cup {"config"}
           /\ cur' = [c EXCEPT !.pc = "notice", !.want = w]
           /\ UNCHANGED <<wish, last>>
        \/ /\ s[1] # "no" /\ (s[1] = "config" => ~Cooled)
           /\ Serve(w, s[2]) /\ closed' = cl \cup ({s[1]} \cap {"short", "config"})
           /\ UNCHANGED <<tried, last>>

(* _user_pat: a token of the cache, with what is still wanted, or a new    *)
(* one.                                                                    *)
CallBegins(kind) ==
    /\ cur.pc = "idle"
    /\ \/ /\ hit /\ wish # NONE
          /\ HandsOver([Nobody EXCEPT !.kind = kind, !.cached = TRUE], wish, closed)
       \/ /\ ~hit /\ cur' = [Nobody EXCEPT !.kind = kind, !.pc = "mint"]
          /\ UNCHANGED <<tried, wish, last, closed>>
    /\ UNCHANGED <<spec, now, hit, outside, said, events>>

AppMints ==
    /\ cur.pc = "mint"
    /\ cur' = [cur EXCEPT !.pc = "minted", !.want = Wanted]
    /\ UNCHANGED <<spec, now, gate, outside, history, events>>

MintArrives ==
    /\ cur.pc = "minted"
    /\ hit' = TRUE /\ said' = cur.want
    /\ IF cur.want = NONE
       THEN /\ wish' = NONE /\ cur' = Nobody /\ closed' = {}
            /\ UNCHANGED <<tried, last>>
       ELSE HandsOver(cur, cur.want, {})
    /\ UNCHANGED <<spec, now, outside, events>>

MintFails ==
    /\ cur.pc \in {"mint", "minted"}
    /\ cur' = Nobody
    /\ UNCHANGED <<spec, now, gate, outside, history, events>>

-----------------------------------------------------------------------------
(* The portal exchanges the PAT                                            *)

PortalExchanges ==
    /\ cur.pc = "exchange" /\ made < MaxPats
    /\ made' = made + 1
    /\ pats' = [pats EXCEPT ![made'].bridge = (cur.kind = "root" /\ cur.want = "bridge")]
    /\ cur' = [cur EXCEPT !.pc = "exchanged", !.pat = made']
    /\ UNCHANGED <<spec, now, gate, app, late, history, events>>

ExchangeArrives ==
    /\ cur.pc = "exchanged"
    /\ cur' = [cur EXCEPT !.pc = "register"]
    /\ UNCHANGED <<spec, now, gate, outside, history, events>>

(* A refusal (4xx), or an answer that cannot be read: the app is told.     *)
ExchangeRefused ==
    /\ cur.pc \in {"exchange", "exchanged"}
    /\ cur' = [cur EXCEPT !.pc = "register", !.pat = NONE]
    /\ closed' = closed \cup {"portal"}
    /\ UNCHANGED <<spec, now, gate, outside, last, said, events>>

(* No answer, or 5xx: the app is told, and it is tried again later.        *)
ExchangeFails ==
    /\ cur.pc \in {"exchange", "exchanged"}
    /\ cur' = [cur EXCEPT !.pc = "register", !.pat = NONE, !.transient = TRUE]
    /\ UNCHANGED <<spec, now, gate, outside, history, events>>

(* The time for both is over.                                              *)
ExchangeCut ==
    /\ cur.pc \in {"exchange", "exchanged"}
    /\ Serve(cur.want, TRUE)
    /\ UNCHANGED <<spec, now, tried, hit, outside, history, events>>

-----------------------------------------------------------------------------
(* The app gets the PAT, or the error                                      *)

(* The app puts p in the place of the one it has, which it has revoked.    *)
Keeps(p) ==
    /\ app' = [app EXCEPT !.has = p, !.rests = FALSE]
    /\ pats' = [q \in Pats |-> IF q = app.has THEN [pats[q] EXCEPT !.end = "app"] ELSE pats[q]]

(* The app does with the request what it does; cur.told is its answer.     *)
AppAnswers ==
    /\ cur.pc = "register" /\ cur.told = NONE
    /\ \/ /\ cur.pat # NONE /\ Keeps(cur.pat)
          /\ \E a \in {"200", "5xx"} : cur' = [cur EXCEPT !.told = a]
          /\ closed' = closed \cup {"app"}
       \/ /\ cur.pat = NONE /\ app' = [app EXCEPT !.rests = TRUE] /\ UNCHANGED pats
          /\ \E a \in {"200", "5xx"} : cur' = [cur EXCEPT !.told = a]
          /\ UNCHANGED closed
       \/ /\ \E a \in {"4xx", "3xx"} : cur' = [cur EXCEPT !.told = a]
          /\ UNCHANGED <<app, pats>>
          /\ closed' = IF cur.pat = NONE THEN closed ELSE closed \cup {"app"}
       \/ /\ cur' = [cur EXCEPT !.told = "5xx"] /\ UNCHANGED <<app, pats, closed>>
    /\ UNCHANGED <<spec, now, gate, made, late, last, said, events>>

(* Mutant: a PAT is revoked as well when nothing is known of the app.      *)
Mut_Ends(outcome) ==
    LET t == cur.transient \/ (cur.pat # NONE /\ outcome \notin {"4xx", "3xx"})
    IN  IF cur.pat # NONE /\ outcome # "200"
        THEN cur' = [cur EXCEPT !.pc = "revoke", !.transient = t] /\ UNCHANGED wish
        ELSE Serve(cur.want, t /\ ~(cur.pat # NONE /\ outcome = "200"))

(* The end of the request to the app: its answer, or "unreached" if the    *)
(* app has surely not seen it, or "unknown".  Only a PAT that the app has  *)
(* surely not taken is revoked.                                            *)
Ends(outcome) ==
    LET t == cur.transient \/ (cur.pat # NONE /\ outcome \notin {"4xx", "3xx"})
    IN  IF cur.pat # NONE /\ outcome \in {"4xx", "unreached"}
        THEN cur' = [cur EXCEPT !.pc = "revoke", !.transient = t] /\ UNCHANGED wish
        ELSE Serve(cur.want, t /\ ~(cur.pat # NONE /\ outcome = "200"))

RegisterArrives ==
    /\ cur.pc = "register" /\ cur.told # NONE
    /\ Ends(cur.told)
    /\ UNCHANGED <<spec, now, tried, hit, outside, history, events>>

RegisterUnreached ==
    /\ cur.pc = "register" /\ cur.told = NONE
    /\ Ends("unreached")
    /\ UNCHANGED <<spec, now, tried, hit, outside, history, events>>

(* A timeout, a broken connection or the end of the time for both; the     *)
(* request may still be on its way.                                        *)
RegisterUnknown ==
    /\ cur.pc = "register"
    /\ Ends("unknown")
    /\ late' \in {late, late \cup (IF cur.told = NONE /\ cur.pat # NONE THEN {cur.pat} ELSE {})}
    /\ UNCHANGED <<spec, now, tried, hit, app, pats, made, history, events>>

LateArrives(p) ==
    /\ p \in late /\ late' = late \ {p}
    /\ Keeps(p)
    /\ UNCHANGED <<spec, now, gate, cur, made, history, events>>

(* Revoked or not, the end is the same.                                    *)
Revokes ==
    /\ cur.pc = "revoke"
    /\ \/ pats' = [pats EXCEPT ![cur.pat].end = "gateway"]
       \/ UNCHANGED pats
    /\ Serve(cur.want, cur.transient)
    /\ UNCHANGED <<spec, now, tried, hit, app, made, late, history, events>>

(* The app is told that the gateway has no spec.                           *)
Notice ==
    /\ cur.pc = "notice"
    /\ app' \in {app, [app EXCEPT !.rests = TRUE]}
    /\ Serve(cur.want, FALSE)
    /\ UNCHANGED <<spec, now, tried, hit, pats, made, late, history, events>>

(* The caller is gone: its task is cancelled at an await.                  *)
Cancelled ==
    /\ cur.pc # "idle"
    /\ cur' = Nobody
    /\ late' \in {late, late \cup (IF cur.pc = "register" /\ cur.told = NONE /\ cur.pat # NONE
                                   THEN {cur.pat} ELSE {})}
    /\ closed' = IF cur.cached \/ cur.pc \in {"mint", "minted"} THEN closed ELSE closed \cup {"gone"}
    /\ UNCHANGED <<spec, now, gate, app, pats, made, last, said, events>>

-----------------------------------------------------------------------------
(* What happens meanwhile                                                  *)

TokenOver ==
    /\ hit /\ cur.pc = "idle" /\ hit' = FALSE
    /\ UNCHANGED <<spec, now, tried, wish, cur, outside, history, events>>

AppChanges ==
    /\ events < MaxEvents /\ events' = events + 1
    /\ \E n \in {NONE, "mcp", "bridge"}, r \in BOOLEAN : app' = [app EXCEPT !.needs = n, !.rests = r]
    /\ app' # app
    /\ UNCHANGED <<spec, now, gate, cur, pats, made, late, history>>

Tick ==
    /\ now < MaxTime /\ now' = now + 1
    /\ UNCHANGED <<spec, gate, cur, outside, history, events>>

Outside == (\E p \in Pats : LateArrives(p)) \/ TokenOver \/ AppChanges \/ Tick

Next ==
    \/ \E k \in Kinds : CallBegins(k)
    \/ AppMints \/ MintArrives \/ MintFails
    \/ PortalExchanges \/ ExchangeArrives \/ ExchangeRefused \/ ExchangeFails \/ ExchangeCut
    \/ AppAnswers \/ RegisterArrives \/ RegisterUnreached \/ RegisterUnknown \/ Revokes
    \/ Notice \/ Cancelled
    \/ Outside

Spec == Init /\ [][Next]_vars

-----------------------------------------------------------------------------
(* Properties                                                              *)

(* Types.                                                                  *)
TypeOK ==
    /\ spec \in BOOLEAN /\ now \in Nat /\ tried \in Nat \cup {NONE} /\ hit \in BOOLEAN
    /\ wish \in {NONE, "mcp", "bridge"} /\ said \in {NONE, "mcp", "bridge"}
    /\ cur \in [pc : {"idle", "mint", "minted", "notice", "exchange", "exchanged", "register", "revoke"},
                kind : Kinds, want : {NONE, "mcp", "bridge"}, cached : BOOLEAN,
                pat : Pats \cup {NONE}, transient : BOOLEAN, told : {NONE, "200", "3xx", "4xx", "5xx"}]
    /\ app \in [needs : {NONE, "mcp", "bridge"}, has : Pats \cup {NONE}, rests : BOOLEAN]
    /\ pats \in [Pats -> [bridge : BOOLEAN, end : {"no", "app", "gateway"}]]
    /\ made \in 0..MaxPats /\ late \subseteq Pats
    /\ last \in Nat \cup {NONE} /\ closed \subseteq {"short", "config", "portal", "app", "gone"}
    /\ events \in Nat

(* What has become of PAT p, in the words of Custody.                      *)
Fate(p) ==
    IF p > made THEN "unborn"
    ELSE IF p = app.has THEN IF pats[p].end = "no" THEN "held" ELSE "broken"
    ELSE CASE pats[p].end = "no" -> "loose"
           [] pats[p].end = "app" -> "over"
           [] OTHER -> "dropped"

C == INSTANCE Custody WITH state <- [p \in Pats |-> Fate(p)]

(* A PAT in the hands of the app is over only when the app takes another:  *)
(* the gateway never has one revoked that the app has, or still gets - not *)
(* after a timeout, a 5xx or a broken connection.                          *)
KeepsCustody == C!Spec

(* The portal is asked for an exchange once in the time of rest, also when *)
(* a call is cancelled in the middle and when the app mints again          *)
(* (_PORTAL_PAT_TRIED).                                                    *)
OneExchangePerRest ==
    [][(cur.pc # "exchange" /\ cur'.pc = "exchange" /\ last # NONE) => now - last >= Cooldown]_vars

(* What the app wanted with its last token stays wanted until the app has  *)
(* got a PAT or has refused one, the portal has refused, the caller's PAT  *)
(* cannot give it, the gateway is not set up for it, or the call that      *)
(* brought the token was cancelled (_portal_pat_serve).                    *)
WishStays ==
    cur.pc = "idle" /\ hit /\ said # NONE /\ closed = {} => wish = said
=============================================================================
