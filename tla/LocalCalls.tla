----------------------------- MODULE LocalCalls -----------------------------
(***************************************************************************)
(* The calls the gateway answers itself in several requests - saving a     *)
(* conversation (_save_conversation), a step of a routine (_routine_call   *)
(* and _rt_fold_orphan), its report (_routine_report) and the other        *)
(* requests about a run (_routine_simple) - and the shutdown that waits    *)
(* for them (_GracefulServer, _DRAIN, _INFLIGHT_CALLS).                    *)
(*                                                                         *)
(* A step is the code between two awaits.  A request whose answer is not   *)
(* heard may have been carried out; one that is carried out after the      *)
(* gateway has given it up is taken to be carried out when it is given     *)
(* up.  All routine calls are about one step of one run.                   *)
(*                                                                         *)
(* Messages is the length of each conversation, Budget the calls the step  *)
(* may make.  Time is counted in ticks from the signal on.                 *)
(***************************************************************************)
EXTENDS Integers, FiniteSets, Sequences

CONSTANTS Calls, Messages, Batch, Budget, DrainTicks, TailTicks

ASSUME LocalAssumption ==
    /\ Messages \in Nat /\ Batch \in Nat \ {0} /\ Budget \in Nat
    /\ DrainTicks \in Nat /\ TailTicks \in Nat /\ IsFiniteSet(Calls)

VARIABLES
    drain,      \* "no"; "wait" for calls; "tail" of uvicorn's shutdown; "down"
    clock,      \* ticks in the present stage of the shutdown
    waited,     \* ticks the drain waited
    force,      \* force_exit: a second signal
    call,       \* what each call is doing, and what it told its caller
    talk,       \* portal: the messages stored of the conversation of each call
    run,        \* portal: the run, its step, the jobs in its ledger, and those
                \* of them a stop could not fold
    job,        \* engine: the deliberation each call started
    report      \* the drafts in the archive, and whether the portal has one's id

shutdown == <<drain, clock, waited, force>>
vars == <<shutdown, call, talk, run, job, report>>

StepTools == {"read", "write", "start", "result"}
Requests == {"save", "report", "stop", "resume", "close"} \cup StepTools

(* n: messages known to be saved; ok: the tool of the step succeeded;      *)
(* early: it was counted before the wait was over; after: the portal had   *)
(* the id of a draft when the call began.                                  *)
Idle == [pc |-> "new", does |-> "save", n |-> 0, ok |-> FALSE, told |-> "",
         early |-> FALSE, after |-> FALSE]

Init ==
    /\ drain = "no" /\ clock = 0 /\ waited = 0 /\ force = FALSE
    /\ call = [c \in Calls |-> Idle]
    /\ talk = [c \in Calls |-> <<>>]
    /\ run \in [state : {"running"}, limit : {"no"}, step : {"open"}, delib : BOOLEAN,
                calls : {0}, ledger : {{}}, left : {{}}]
    /\ job = [c \in Calls |-> "none"]
    /\ report = [drafts |-> {}, id |-> FALSE]

At(c, p) == call[c].pc = p
Goes(c, p) == call' = [call EXCEPT ![c].pc = p]
Tells(c, t) == call' = [call EXCEPT ![c] = [Idle EXCEPT !.pc = "done", !.told = t,
                                                       !.n = call[c].n, !.after = call[c].after]]

Counted(c) == call[c].pc \notin {"new", "door", "done", "cut"}

(* Mutant: the steps of routines are not counted.                          *)
Mut_Inflight == {c \in Calls : Counted(c) /\ call[c].does \notin StepTools}

(* _INFLIGHT_CALLS.                                                        *)
Inflight == {c \in Calls : Counted(c)}

portal == <<talk, run, job, report>>

-----------------------------------------------------------------------------
(* A request comes in.  While the gateway drains only connections that     *)
(* are open bring any, and what would open a session is turned away.       *)
Arrives(c) ==
    /\ At(c, "new") /\ drain \in {"no", "wait"}
    /\ \/ \E d \in Requests : call' = [call EXCEPT ![c].pc = "door", ![c].does = d]
       \/ drain = "wait" /\ Tells(c, "draining")
    /\ UNCHANGED <<shutdown, portal>>

First(d) ==
    CASE d = "save" -> "create"
      [] d \in StepTools -> "plan"
      [] d = "report" -> "report"
      [] OTHER -> "run"

(* The token has been verified: _call_tool counts the call.  Without the   *)
(* address of the portal or somebody's token, or with arguments that are   *)
(* not valid, nothing is sent.                                             *)
Enters(c) ==
    /\ At(c, "door") /\ drain # "down"
    /\ \/ call' = [call EXCEPT ![c].pc = First(call[c].does),
                               ![c].early = drain \in {"no", "wait"},
                               ![c].after = call[c].does = "report" /\ report.id]
       \/ Tells(c, "refused")
    /\ UNCHANGED <<shutdown, portal>>

-----------------------------------------------------------------------------
(* _save_conversation.                                                     *)
Head1 == IF Messages < Batch THEN Messages ELSE Batch
Upto(k) == [i \in 1..k |-> i]

CreateArrives(c) ==
    /\ At(c, "create")
    /\ talk' = [talk EXCEPT ![c] = Upto(Head1)]
    /\ IF Head1 = Messages THEN Tells(c, "saved")
       ELSE call' = [call EXCEPT ![c].pc = "append", ![c].n = Head1]
    /\ UNCHANGED <<shutdown, run, job, report>>

(* Mutant: whatever happens, the portal is said to have refused.           *)
Mut_CreateFails(c) ==
    /\ At(c, "create")
    /\ Tells(c, "refused") /\ talk' \in {talk, [talk EXCEPT ![c] = Upto(Head1)]}
    /\ UNCHANGED <<shutdown, run, job, report>>

(* The portal answers that it did not save ("portal <status>").  Out of    *)
(* time, the caller is told that it may have saved.  Of any other          *)
(* exception - no connection, one that breaks while the answer is waited   *)
(* for, an answer that cannot be read - only the exception is told,        *)
(* whatever the portal did.                                                *)
CreateFails(c) ==
    /\ At(c, "create")
    /\ \/ Tells(c, "refused") /\ UNCHANGED talk
       \/ /\ Tells(c, "maybe") \/ Tells(c, "unavailable")
          /\ talk' \in {talk, [talk EXCEPT ![c] = Upto(Head1)]}
    /\ UNCHANGED <<shutdown, run, job, report>>

AppendArrives(c) ==
    /\ At(c, "append")
    /\ talk' = [talk EXCEPT ![c] = Append(@, call[c].n + 1)]
    /\ IF call[c].n + 1 = Messages THEN Tells(c, "saved")
       ELSE call' = [call EXCEPT ![c].n = @ + 1]
    /\ UNCHANGED <<shutdown, run, job, report>>

(* Mutant: a message that fails is left out.                               *)
Mut_AppendFails(c) ==
    /\ At(c, "append")
    /\ UNCHANGED talk
    /\ IF call[c].n + 1 = Messages THEN Tells(c, "saved")
       ELSE call' = [call EXCEPT ![c].n = @ + 1]
    /\ UNCHANGED <<shutdown, run, job, report>>

(* CONV_PARTIAL; of the message under way, no answer leaves it open.       *)
AppendFails(c) ==
    /\ At(c, "append")
    /\ \/ Tells(c, "partial") /\ UNCHANGED talk
       \/ Tells(c, "partly maybe") /\ talk' \in {talk, [talk EXCEPT ![c] = Append(@, call[c].n + 1)]}
    /\ UNCHANGED <<shutdown, run, job, report>>

-----------------------------------------------------------------------------
(* The checks of _routine_call on the plan.  "read" stands for the tools   *)
(* of the step that _routine_read confirms, "write" for the others.        *)
Deliberates(d) == run.delib /\ d \in {"start", "result"}

Fence(d) ==
    /\ run.state = "running" /\ run.step = "open"
    /\ Deliberates(d) \/ d = "read"
    /\ run.calls >= Budget => Deliberates(d) /\ d = "result"
    /\ run.limit = "no" \/ (run.limit = "time" /\ d = "result")

PlanArrives(c) ==
    /\ At(c, "plan")
    /\ \/ Fence(call[c].does) /\ Goes(c, IF call[c].does = "start" THEN "evidence" ELSE "tool")
       \/ ~Fence(call[c].does) /\ Tells(c, "refused")
    /\ UNCHANGED <<shutdown, portal>>

(* The plan or the evidence cannot be had (_portal_api).                   *)
PortalFails(c) ==
    /\ call[c].pc \in {"plan", "evidence", "report"}
    /\ Tells(c, "refused")
    /\ UNCHANGED <<shutdown, portal>>

EvidenceArrives(c) ==
    /\ At(c, "evidence") /\ Goes(c, "tool")
    /\ UNCHANGED <<shutdown, portal>>

(* _call_tool_body answers.  A start whose answer was lost, or is no       *)
(* success, counts as failed; its job may run, and nobody has its id.      *)
ToolAnswers(c) ==
    /\ At(c, "tool")
    /\ \E ok \in BOOLEAN :
          /\ call' = [call EXCEPT ![c].pc = "ledger", ![c].ok = ok]
          /\ IF call[c].does = "start"
             THEN job' \in IF ok THEN {[job EXCEPT ![c] = "runs"]}
                             ELSE {job, [job EXCEPT ![c] = "unheard"]}
             ELSE UNCHANGED job
    /\ UNCHANGED <<shutdown, talk, run, report>>

(* The portal looks at the run again before it records a call.             *)
Records(c) ==
    /\ run.state = "running" /\ run.step = "open"
    /\ run.limit = "no" \/ (run.limit = "time" /\ call[c].does = "result")
    /\ run' = [run EXCEPT !.calls = IF @ < Budget THEN @ + 1 ELSE @,
                          !.ledger = IF job[c] = "runs" THEN @ \cup {c} ELSE @]

LedgerArrives(c) ==
    /\ At(c, "ledger") /\ Records(c)
    /\ Tells(c, IF call[c].ok THEN "ok" ELSE "tool failed")
    /\ UNCHANGED <<shutdown, talk, job, report>>

(* Mutant: the job is left to itself.                                      *)
Mut_LedgerFails(c) ==
    /\ At(c, "ledger")
    /\ UNCHANGED run \/ Records(c)
    /\ Tells(c, "refused")
    /\ UNCHANGED <<shutdown, talk, job, report>>

(* Refused, or not heard of.  A job that was started is folded.            *)
LedgerFails(c) ==
    /\ At(c, "ledger")
    /\ UNCHANGED run \/ Records(c)
    /\ IF call[c].ok /\ call[c].does = "start" THEN Goes(c, "fold")
       ELSE Tells(c, "refused")
    /\ UNCHANGED <<shutdown, talk, job, report>>

(* _rt_fold_orphan: deliberate_cancel; without an answer, an id or the     *)
(* tool, the caller is told that the job may run.                          *)
Folds(c) ==
    /\ At(c, "fold")
    /\ \/ Tells(c, "folded") /\ job' = [job EXCEPT ![c] = "folded"]
       \/ Tells(c, "not folded") /\ job' \in {job, [job EXCEPT ![c] = "folded"]}
    /\ UNCHANGED <<shutdown, talk, run, report>>

-----------------------------------------------------------------------------
(* _routine_report.  Mutant: the id the portal has is not looked at.       *)
Mut_ReportArrives(c) ==
    /\ At(c, "report")
    /\ Goes(c, "draft") \/ Tells(c, "report")
    /\ UNCHANGED <<shutdown, portal>>

(* There is a draft, or none is wanted, or one is made now.                *)
ReportArrives(c) ==
    /\ At(c, "report")
    /\ \/ report.id /\ Tells(c, "draft")
       \/ ~report.id /\ (Goes(c, "draft") \/ Tells(c, "report"))
    /\ UNCHANGED <<shutdown, portal>>

Drafts(c) ==
    /\ At(c, "draft")
    /\ \E ok \in BOOLEAN :
          /\ call' = [call EXCEPT ![c].pc = "note", ![c].ok = ok]
          /\ report' \in {[report EXCEPT !.drafts = @ \cup {c}]} \cup (IF ok THEN {} ELSE {report})
    /\ UNCHANGED <<shutdown, talk, run, job>>

(* POST /ra: the portal keeps an id it has when the news is a failure.     *)
Notes(c) == report' = [report EXCEPT !.id = @ \/ call[c].ok]

NoteEnds(c) ==
    /\ At(c, "note")
    /\ \/ Notes(c) /\ Tells(c, IF call[c].ok THEN "draft" ELSE "report")
       \/ (Notes(c) \/ UNCHANGED report) /\ Tells(c, "refused")
    /\ UNCHANGED <<shutdown, talk, run, job>>

-----------------------------------------------------------------------------
(* The portal stops, resumes or closes.  A stop folds the jobs it knows,   *)
(* those that can be folded (delib_cancelled, delib_cancel_errors).        *)
Stops ==
    \E errors \in SUBSET {c \in run.ledger : job[c] = "runs"} :
        /\ run' = [run EXCEPT !.state = "cancelled", !.left = @ \cup errors]
        /\ job' = [c \in Calls |-> IF c \in run.ledger \ errors THEN "folded" ELSE job[c]]

PortalDoes(d) ==
    \/ d = "stop" /\ Stops
    \/ /\ d = "resume" /\ run.state \in {"running", "interrupted"}
       /\ run' = [run EXCEPT !.state = "running"] /\ UNCHANGED job
    \/ d = "close" /\ run' = [run EXCEPT !.step = "closed"] /\ UNCHANGED job

(* _routine_simple: one request, whose answer is passed on.                *)
RunAnswers(c) ==
    /\ At(c, "run")
    /\ \/ PortalDoes(call[c].does) /\ (Tells(c, "ok") \/ Tells(c, "refused"))
       \/ UNCHANGED <<run, job>> /\ Tells(c, "refused")
    /\ UNCHANGED <<shutdown, talk, report>>

(* Somebody stops the run in the portal, it is interrupted, or it reaches  *)
(* a limit, of its time or of its calls.                                   *)
PortalChanges ==
    /\ \/ Stops /\ run.state # "cancelled"
       \/ /\ run.state = "running" /\ run' = [run EXCEPT !.state = "interrupted"]
          /\ UNCHANGED job
       \/ /\ run.limit = "no" /\ run' \in {[run EXCEPT !.limit = l] : l \in {"time", "calls"}}
          /\ UNCHANGED job
    /\ UNCHANGED <<shutdown, call, talk, report>>

-----------------------------------------------------------------------------
(* _GracefulServer.shutdown.                                               *)
Signal ==
    /\ IF drain = "no" THEN drain' = "wait" /\ UNCHANGED force
       ELSE drain # "down" /\ ~force /\ force' = TRUE /\ UNCHANGED drain
    /\ UNCHANGED <<clock, waited, call, portal>>

Limit == IF drain = "wait" THEN DrainTicks ELSE TailTicks

Tick ==
    /\ drain \in {"wait", "tail"} /\ clock < Limit
    /\ clock' = clock + 1
    /\ UNCHANGED <<drain, waited, force, call, portal>>

(* Mutant: no deadline.                                                    *)
Mut_WaitOver == Inflight = {} \/ force

WaitOver == Inflight = {} \/ clock >= DrainTicks \/ force

DrainEnds ==
    /\ drain = "wait" /\ WaitOver
    /\ drain' = "tail" /\ clock' = 0 /\ waited' = clock
    /\ UNCHANGED <<force, call, portal>>

(* uvicorn closes what is idle, waits for the rest and cuts it.            *)
GoesDown ==
    /\ drain = "tail"
    /\ clock >= TailTicks \/ force \/ \A c \in Calls : call[c].pc \in {"new", "done"}
    /\ drain' = "down"
    /\ call' = [c \in Calls |-> IF call[c].pc = "door" \/ Counted(c) THEN [call[c] EXCEPT !.pc = "cut"]
                                ELSE call[c]]
    /\ UNCHANGED <<clock, waited, force, portal>>

Done ==
    /\ drain = "down"
    /\ UNCHANGED vars

CallStep(c) ==
    \/ Arrives(c) \/ Enters(c)
    \/ CreateArrives(c) \/ CreateFails(c) \/ AppendArrives(c) \/ AppendFails(c)
    \/ PlanArrives(c) \/ PortalFails(c) \/ EvidenceArrives(c) \/ ToolAnswers(c)
    \/ LedgerArrives(c) \/ LedgerFails(c) \/ Folds(c)
    \/ ReportArrives(c) \/ Drafts(c) \/ NoteEnds(c) \/ RunAnswers(c)

Shuts == Tick \/ DrainEnds \/ GoesDown

Next == (\E c \in Calls : CallStep(c)) \/ PortalChanges \/ Signal \/ Shuts \/ Done

(* The shutdown runs on timers; nothing is assumed of the calls.           *)
Spec == Init /\ [][Next]_vars /\ WF_vars(Shuts)

-----------------------------------------------------------------------------
(* Types.                                                                  *)
CallRec ==
    [pc : {"new", "door", "create", "append", "plan", "evidence", "tool", "ledger", "fold",
           "report", "draft", "note", "run", "done", "cut"},
     does : Requests, n : Nat, ok : BOOLEAN,
     told : {"", "draining", "refused", "saved", "maybe", "unavailable", "partial",
             "partly maybe", "ok", "tool failed", "folded", "not folded", "draft", "report"},
     early : BOOLEAN, after : BOOLEAN]

RunRec ==
    [state : {"running", "cancelled", "interrupted"}, limit : {"no", "time", "calls"},
     step : {"open", "closed"}, delib : BOOLEAN, calls : Nat,
     ledger : SUBSET Calls, left : SUBSET Calls]

TypeOK ==
    /\ drain \in {"no", "wait", "tail", "down"} /\ clock \in Nat /\ waited \in Nat
    /\ force \in BOOLEAN
    /\ call \in [Calls -> CallRec]
    /\ talk \in [Calls -> Seq(Nat)]
    /\ job \in [Calls -> {"none", "runs", "unheard", "folded"}]
    /\ run \in RunRec
    /\ report \in [drafts : SUBSET Calls, id : BOOLEAN]

(* What a save tells agrees with what the portal stores, in the order of   *)
(* the conversation: all of it, as many as told, none, or one request more *)
(* where that is left open (_partial, except httpx.ReadTimeout).  The      *)
(* other except clause tells nothing of what is stored: after it the first *)
(* request may be, though CONV_UNAVAILABLE reads as if nothing were.       *)
SaveTellsTruth ==
    \A c \in Calls : At(c, "done") =>
        LET stored == talk[c]
            n == call[c].n
        IN  CASE call[c].told = "saved" -> stored = Upto(Messages)
              [] call[c].told = "partial" -> stored = Upto(n) /\ n < Messages
              [] call[c].told = "partly maybe" -> stored \in {Upto(n), Upto(n + 1)} /\ n < Messages
              [] call[c].told \in {"maybe", "unavailable"} -> stored \in {<<>>, Upto(Head1)}
              [] OTHER -> stored = <<>>

(* A deliberation that runs when the call that started it has been         *)
(* answered is in the ledger of a run nobody stopped; or a stop named it   *)
(* among those it could not fold; or the caller was told that it could not *)
(* be folded; or, when its start was not heard of, that the start failed   *)
(* (_routine_call, _rt_fold_orphan).  In the last case nobody knows of it  *)
(* and nothing folds it.                                                   *)
JobIsAccounted ==
    \A c \in Calls : At(c, "done") =>
        /\ job[c] = "runs" =>
              \/ c \in run.ledger /\ run.state # "cancelled"
              \/ c \in run.left
              \/ call[c].told = "not folded"
        /\ job[c] = "unheard" => call[c].told \in {"tool failed", "refused"}

(* A report asked for once the portal has the id of a draft makes no other *)
(* (_routine_report).                                                      *)
NoSecondDraft == \A c \in report.drafts : ~call[c].after

(* Without a second signal a call is cut only after the tail, and one that *)
(* was counted while the gateway waited only after the whole wait as well  *)
(* (DRAIN_TIMEOUT_S, SHUTDOWN_TAIL_S).                                     *)
CutHadItsTime ==
    \A c \in Calls : At(c, "cut") /\ ~force =>
        clock >= TailTicks /\ (call[c].early => waited >= DrainTicks)

(* A shutdown that has begun ends, whatever the calls do.                  *)
ShutdownEnds == drain = "wait" ~> drain = "down"
=============================================================================
