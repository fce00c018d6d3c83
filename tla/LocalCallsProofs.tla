-------------------------- MODULE LocalCallsProofs --------------------------
(***************************************************************************)
(* Proofs about LocalCalls, for any calls, lengths, budgets and deadlines: *)
(* what a save says of the portal is so, where a job can be that runs on,  *)
(* no report is drafted twice, and a call that is cut had its time.        *)
(***************************************************************************)
EXTENDS LocalCalls, TLAPS

(* A conversation is stored message by message, and by its save alone.     *)
TalkInv ==
    \A c \in Calls :
        /\ call[c].pc \notin {"append", "done", "cut"} => talk[c] = <<>> /\ call[c].n = 0
        /\ call[c].pc = "append" => talk[c] = Upto(call[c].n) /\ call[c].n < Messages

(* A job is started by a step of its own, once the tool is called; the     *)
(* call folds only one that was heard of.                                  *)
JobInv ==
    \A c \in Calls :
        /\ job[c] \in {"runs", "unheard"} => call[c].pc \in {"ledger", "fold", "done", "cut"}
        /\ job[c] = "runs" /\ call[c].pc = "ledger" => call[c].ok /\ call[c].does = "start"
        /\ job[c] = "unheard" => call[c].pc # "fold" /\ (call[c].pc = "ledger" => ~call[c].ok)

(* A draft is of a call that began before the portal had an id, and the id *)
(* stays.                                                                  *)
DraftInv ==
    \A c \in Calls :
        /\ call[c].after => report.id
        /\ c \in report.drafts => call[c].pc \in {"note", "done", "cut"}
        /\ call[c].pc \in {"new", "door", "draft"} => ~call[c].after

(* A call is cut when the gateway is down, where none is under way; after  *)
(* the wait an early one is under way only if the whole wait was over.     *)
CutInv ==
    \A c \in Calls :
        /\ call[c].pc = "cut" => drain = "down"
        /\ drain = "down" => call[c].pc \in {"new", "done", "cut"}
        /\ drain = "tail" /\ ~force /\ Counted(c) /\ call[c].early => waited >= DrainTicks
        /\ call[c].pc \in {"new", "door", "done"} => ~call[c].early

IInv ==
    /\ TypeOK /\ TalkInv /\ JobInv /\ DraftInv /\ CutInv
    /\ SaveTellsTruth /\ JobIsAccounted /\ NoSecondDraft /\ CutHadItsTime

(* Of the calls, only c has moved.                                         *)
Moved(c) == call' \in [Calls -> CallRec] /\ \A d \in Calls : d # c => call'[d] = call[d]

(* Call c goes on to p, of the same kind and counted as before.            *)
On(c, p) ==
    /\ Moved(c) /\ call'[c].pc = p /\ call'[c].does = call[c].does
    /\ call'[c].early = call[c].early /\ call'[c].after = call[c].after

(* Call c is answered with t.                                              *)
Ans(c, t) ==
    /\ Moved(c) /\ call'[c].pc = "done" /\ call'[c].told = t /\ call'[c].early = FALSE
    /\ call'[c].n = call[c].n /\ call'[c].after = call[c].after

(* The fields of a call.                                                   *)
LEMMA Fields ==
    ASSUME TypeOK, NEW c \in Calls
    PROVE  /\ call[c].n \in Nat /\ call[c].ok \in BOOLEAN
           /\ call[c].early \in BOOLEAN /\ call[c].after \in BOOLEAN
           /\ report.id \in BOOLEAN /\ report.drafts \subseteq Calls
<1>1. call[c] \in CallRec
  BY DEF TypeOK
<1>2. QED  BY <1>1 DEF CallRec, TypeOK

(* A call that is put in the place of another.                             *)
LEMMA Putting ==
    ASSUME call \in [Calls -> CallRec], NEW c \in Calls, NEW r \in CallRec,
           call' = [call EXCEPT ![c] = r]
    PROVE  Moved(c) /\ call'[c] = r
  BY DEF Moved

(* A call that goes on.                                                    *)
LEMMA GoesOn ==
    ASSUME call \in [Calls -> CallRec], NEW c \in Calls, NEW p,
           p \in {"append", "plan", "evidence", "tool", "ledger", "fold", "draft", "note"},
           Goes(c, p)
    PROVE  On(c, p) /\ call'[c].n = call[c].n /\ call'[c].ok = call[c].ok
<1> DEFINE r == [call[c] EXCEPT !.pc = p]
<1>1. call[c] \in CallRec
  OBVIOUS
<1>2. r \in CallRec /\ r.pc = p /\ r.does = call[c].does /\ r.early = call[c].early
      /\ r.after = call[c].after /\ r.n = call[c].n /\ r.ok = call[c].ok
  BY <1>1 DEF CallRec
<1>3. call' = [call EXCEPT ![c] = r]
  BY DEF Goes
<1>4. QED  BY <1>2, <1>3, Putting DEF On

(* A call that is answered.                                                *)
LEMMA Answered ==
    ASSUME call \in [Calls -> CallRec], NEW c \in Calls, NEW t,
           t \in {"draining", "refused", "saved", "maybe", "unavailable", "partial",
                  "partly maybe", "ok", "tool failed", "folded", "not folded", "draft", "report"},
           Tells(c, t)
    PROVE  Ans(c, t)
<1> DEFINE r == [Idle EXCEPT !.pc = "done", !.told = t, !.n = call[c].n, !.after = call[c].after]
<1>1. call[c].n \in Nat /\ call[c].after \in BOOLEAN
  BY DEF CallRec
<1>2. r \in CallRec /\ r.pc = "done" /\ r.told = t /\ r.early = FALSE /\ r.n = call[c].n
      /\ r.after = call[c].after
  BY <1>1 DEF Idle, CallRec, Requests
<1>3. call' = [call EXCEPT ![c] = r]
  BY DEF Tells
<1>4. QED  BY <1>2, <1>3, Putting DEF Ans

(* The first k messages and one more.                                      *)
LEMMA OneMore == ASSUME NEW k \in Nat PROVE Append(Upto(k), k + 1) = Upto(k + 1)
  BY DEF Upto

(* What is stored is a sequence.                                           *)
LEMMA UptoIsSeq == ASSUME NEW k \in Nat PROVE Upto(k) \in Seq(Nat)
  BY DEF Upto

(* The first request holds some of the messages.                           *)
LEMMA FirstBatch == Head1 \in Nat /\ Head1 <= Messages
  BY LocalAssumption DEF Head1

(* What the portal does with a call it records.                            *)
LEMMA RecordsDoes ==
    ASSUME TypeOK, NEW c \in Calls, Records(c)
    PROVE  /\ run' \in RunRec /\ run'.state = run.state /\ run.state = "running"
           /\ run.ledger \subseteq run'.ledger /\ (job[c] = "runs" => c \in run'.ledger)
           /\ run'.left = run.left
<1> DEFINE k == IF run.calls < Budget THEN run.calls + 1 ELSE run.calls
           l == IF job[c] = "runs" THEN run.ledger \cup {c} ELSE run.ledger
<1>1. run \in RunRec
  BY DEF TypeOK
<1>2. k \in Nat /\ l \in SUBSET Calls
  BY <1>1 DEF RunRec
<1>3. run' = [run EXCEPT !.calls = k, !.ledger = l]
  BY DEF Records
<1>4. run' \in RunRec /\ run'.state = run.state /\ run'.ledger = l /\ run'.left = run.left
  <2> HIDE DEF k, l
  <2>1. QED  BY <1>1, <1>2, <1>3 DEF RunRec
<1>5. QED  BY <1>4 DEF Records

(* A run that is not one any more, or whose step is closed, or that goes   *)
(* on: a job that runs on and is in its ledger is in that of a run that    *)
(* was not stopped, or the stop could not fold it.                         *)
Carries ==
    /\ run' \in RunRec /\ job' \in [Calls -> {"none", "runs", "unheard", "folded"}]
    /\ run.left \subseteq run'.left
    /\ \A d \in Calls :
          /\ job'[d] \in {"runs", "unheard"} => job'[d] = job[d]
          /\ job'[d] = "runs" /\ d \in run.ledger /\ run.state # "cancelled" =>
                \/ d \in run'.ledger /\ run'.state # "cancelled"
                \/ d \in run'.left

(* A run that changes in one field but not to stopped.                     *)
LEMMA Changing ==
    ASSUME TypeOK, job' = job, NEW s \in {"running", "interrupted"},
           NEW l \in {"no", "time", "calls"}, NEW t \in {"open", "closed"},
           \/ run' = run
           \/ run' = [run EXCEPT !.state = s]
           \/ run' = [run EXCEPT !.limit = l]
           \/ run' = [run EXCEPT !.step = t]
    PROVE  Carries
<1>1. run \in RunRec
  BY DEF TypeOK
<1>2. run' \in RunRec /\ run'.ledger = run.ledger /\ run'.left = run.left /\ run'.state \in {run.state, s}
  BY <1>1 DEF RunRec
<1>3. QED  BY <1>2 DEF Carries, TypeOK

(* A run that is stopped.                                                  *)
LEMMA Stopping == ASSUME TypeOK, Stops PROVE Carries
<1>1. run \in RunRec
  BY DEF TypeOK
<1>2. PICK errors \in SUBSET {d \in run.ledger : job[d] = "runs"} :
         /\ run' = [run EXCEPT !.state = "cancelled", !.left = run.left \cup errors]
         /\ job' = [d \in Calls |-> IF d \in run.ledger \ errors THEN "folded" ELSE job[d]]
  BY DEF Stops
<1>3. errors \subseteq Calls /\ run.left \subseteq Calls
  BY <1>1 DEF RunRec
<1>4. run' \in RunRec /\ run'.left = run.left \cup errors
  BY <1>1, <1>2, <1>3 DEF RunRec
<1>5. QED  BY <1>2, <1>4 DEF Carries, TypeOK

(* A request comes in, or is turned away.                                  *)
LEMMA ArrivesDoes ==
    ASSUME TypeOK, NEW c \in Calls, Arrives(c)
    PROVE  \/ /\ Moved(c) /\ call'[c].pc = "door" /\ call'[c].n = call[c].n
              /\ call'[c].early = call[c].early /\ call'[c].after = call[c].after
           \/ Ans(c, "draining")
<1>1. ASSUME NEW d \in Requests, call' = [call EXCEPT ![c].pc = "door", ![c].does = d]
      PROVE  /\ Moved(c) /\ call'[c].pc = "door" /\ call'[c].n = call[c].n
             /\ call'[c].early = call[c].early /\ call'[c].after = call[c].after
  <2> DEFINE r == [call[c] EXCEPT !.pc = "door", !.does = d]
  <2>1. call' = [call EXCEPT ![c] = r]
    BY <1>1
  <2>2. r \in CallRec /\ r.pc = "door" /\ r.n = call[c].n /\ r.early = call[c].early
        /\ r.after = call[c].after
    <3>1. call[c] \in CallRec
      BY DEF TypeOK
    <3>2. QED  BY <3>1 DEF CallRec
  <2>3. QED  BY <2>1, <2>2, Putting DEF TypeOK
<1>2. CASE Tells(c, "draining")
  BY <1>2, Answered DEF TypeOK
<1>3. QED  BY <1>1, <1>2 DEF Arrives

(* A call is counted, or answered at once.                                 *)
LEMMA EntersDoes ==
    ASSUME TypeOK, NEW c \in Calls, Enters(c)
    PROVE  \/ /\ Moved(c) /\ call'[c].pc \in {"create", "plan", "report", "run"} /\ call'[c].n = call[c].n
              /\ call'[c].early = (drain \in {"no", "wait"})
              /\ call'[c].after = (call[c].does = "report" /\ report.id)
           \/ Ans(c, "refused")
<1>1. CASE call' = [call EXCEPT ![c].pc = First(call[c].does), ![c].early = drain \in {"no", "wait"},
                                ![c].after = call[c].does = "report" /\ report.id]
  <2> DEFINE r == [call[c] EXCEPT !.pc = First(call[c].does), !.early = drain \in {"no", "wait"},
                                  !.after = call[c].does = "report" /\ report.id]
  <2>1. call' = [call EXCEPT ![c] = r]
    BY <1>1
  <2>2. First(call[c].does) \in {"create", "plan", "report", "run"}
    BY DEF First
  <2>3. (drain \in {"no", "wait"}) \in BOOLEAN /\ (call[c].does = "report" /\ report.id) \in BOOLEAN
    OBVIOUS
  <2>4. call[c] \in CallRec
    BY DEF TypeOK
  <2>5. r \in CallRec /\ r.pc = First(call[c].does) /\ r.n = call[c].n
        /\ r.early = (drain \in {"no", "wait"})
        /\ r.after = (call[c].does = "report" /\ report.id)
    BY <2>2, <2>3, <2>4 DEF CallRec
  <2>6. QED  BY <2>1, <2>2, <2>5, Putting DEF TypeOK
<1>2. CASE Tells(c, "refused")
  BY <1>2, Answered DEF TypeOK
<1>3. QED  BY <1>1, <1>2 DEF Enters

(* The first request of a save.                                            *)
LEMMA CreateArrivesDoes ==
    ASSUME TypeOK, NEW c \in Calls, CreateArrives(c)
    PROVE  \/ Ans(c, "saved") /\ Head1 = Messages
           \/ On(c, "append") /\ call'[c].n = Head1 /\ Head1 < Messages
<1>1. CASE Head1 # Messages /\ call' = [call EXCEPT ![c].pc = "append", ![c].n = Head1]
  <2> DEFINE r == [call[c] EXCEPT !.pc = "append", !.n = Head1]
  <2>1. call' = [call EXCEPT ![c] = r]
    BY <1>1
  <2>2. call[c] \in CallRec
    BY DEF TypeOK
  <2>3. r \in CallRec /\ r.pc = "append" /\ r.n = Head1 /\ r.does = call[c].does
        /\ r.early = call[c].early /\ r.after = call[c].after
    BY <2>2, FirstBatch DEF CallRec
  <2>4. Head1 < Messages
    BY <1>1, FirstBatch, LocalAssumption
  <2>5. QED  BY <2>1, <2>3, <2>4, Putting DEF TypeOK, On
<1>2. CASE Head1 = Messages /\ Tells(c, "saved")
  BY <1>2, Answered DEF TypeOK
<1>3. QED  BY <1>1, <1>2 DEF CreateArrives

(* The first request of a save fails.                                      *)
LEMMA CreateFailsDoes ==
    ASSUME TypeOK, NEW c \in Calls, CreateFails(c)
    PROVE  \/ Ans(c, "refused")
           \/ Ans(c, "maybe")
           \/ Ans(c, "unavailable")
<1>1. Tells(c, "refused") => Ans(c, "refused")
  BY Answered DEF TypeOK
<1>2. Tells(c, "maybe") => Ans(c, "maybe")
  BY Answered DEF TypeOK
<1>3. Tells(c, "unavailable") => Ans(c, "unavailable")
  BY Answered DEF TypeOK
<1>4. QED  BY <1>1, <1>2, <1>3 DEF CreateFails

(* One more message.                                                       *)
LEMMA AppendArrivesDoes ==
    ASSUME TypeOK, NEW c \in Calls, AppendArrives(c)
    PROVE  \/ Ans(c, "saved") /\ call[c].n + 1 = Messages
           \/ On(c, "append") /\ call'[c].n = call[c].n + 1 /\ call[c].n + 1 # Messages
<1>1. CASE call[c].n + 1 # Messages /\ call' = [call EXCEPT ![c].n = @ + 1]
  <2> DEFINE r == [call[c] EXCEPT !.n = call[c].n + 1]
  <2>1. call' = [call EXCEPT ![c] = r]
    BY <1>1
  <2>2. call[c] \in CallRec /\ call[c].n + 1 \in Nat
    BY Fields DEF TypeOK
  <2>3. r \in CallRec /\ r.pc = call[c].pc /\ r.n = call[c].n + 1 /\ r.does = call[c].does
        /\ r.early = call[c].early /\ r.after = call[c].after
    BY <2>2 DEF CallRec
  <2>4. QED  BY <1>1, <2>1, <2>3, Putting DEF TypeOK, On, AppendArrives, At
<1>2. CASE call[c].n + 1 = Messages /\ Tells(c, "saved")
  BY <1>2, Answered DEF TypeOK
<1>3. QED  BY <1>1, <1>2 DEF AppendArrives

(* A later request of a save fails.                                        *)
LEMMA AppendFailsDoes ==
    ASSUME TypeOK, NEW c \in Calls, AppendFails(c)
    PROVE  \/ Ans(c, "partial")
           \/ Ans(c, "partly maybe")
<1>1. Tells(c, "partial") => Ans(c, "partial")
  BY Answered DEF TypeOK
<1>2. Tells(c, "partly maybe") => Ans(c, "partly maybe")
  BY Answered DEF TypeOK
<1>3. QED  BY <1>1, <1>2 DEF AppendFails

(* The plan lets a step go on, or not.                                     *)
LEMMA PlanArrivesDoes ==
    ASSUME TypeOK, NEW c \in Calls, PlanArrives(c)
    PROVE  \/ On(c, "evidence") /\ call'[c].n = call[c].n
           \/ On(c, "tool") /\ call'[c].n = call[c].n
           \/ Ans(c, "refused")
<1>1. Goes(c, "evidence") => On(c, "evidence") /\ call'[c].n = call[c].n
  BY GoesOn DEF TypeOK
<1>2. Goes(c, "tool") => On(c, "tool") /\ call'[c].n = call[c].n
  BY GoesOn DEF TypeOK
<1>3. Tells(c, "refused") => Ans(c, "refused")
  BY Answered DEF TypeOK
<1>4. QED  BY <1>1, <1>2, <1>3 DEF PlanArrives

(* The portal does not answer.                                             *)
LEMMA PortalFailsDoes ==
    ASSUME TypeOK, NEW c \in Calls, PortalFails(c)
    PROVE  Ans(c, "refused")
<1>1. Tells(c, "refused") => Ans(c, "refused")
  BY Answered DEF TypeOK
<1>2. QED  BY <1>1 DEF PortalFails

(* The evidence is there.                                                  *)
LEMMA EvidenceArrivesDoes ==
    ASSUME TypeOK, NEW c \in Calls, EvidenceArrives(c)
    PROVE  On(c, "tool") /\ call'[c].n = call[c].n
<1>1. Goes(c, "tool") => On(c, "tool") /\ call'[c].n = call[c].n
  BY GoesOn DEF TypeOK
<1>2. QED  BY <1>1 DEF EvidenceArrives

(* The tool of a step answers.                                             *)
LEMMA ToolAnswersDoes ==
    ASSUME TypeOK, NEW c \in Calls, ToolAnswers(c)
    PROVE  On(c, "ledger") /\ call'[c].n = call[c].n
<1>1. PICK ok \in BOOLEAN : call' = [call EXCEPT ![c].pc = "ledger", ![c].ok = ok]
  BY DEF ToolAnswers
<1> DEFINE r == [call[c] EXCEPT !.pc = "ledger", !.ok = ok]
<1>2. call' = [call EXCEPT ![c] = r]
  BY <1>1
<1>3. call[c] \in CallRec
  BY DEF TypeOK
<1>4. r \in CallRec /\ r.pc = "ledger" /\ r.does = call[c].does /\ r.early = call[c].early
      /\ r.after = call[c].after /\ r.n = call[c].n /\ r.ok = ok
  BY <1>3 DEF CallRec
<1>5. QED  BY <1>2, <1>4, Putting DEF TypeOK, On

(* The call is in the ledger.                                              *)
LEMMA LedgerArrivesDoes ==
    ASSUME TypeOK, NEW c \in Calls, LedgerArrives(c)
    PROVE  \/ Ans(c, "ok")
           \/ Ans(c, "tool failed")
<1>1. Tells(c, "ok") => Ans(c, "ok")
  BY Answered DEF TypeOK
<1>2. Tells(c, "tool failed") => Ans(c, "tool failed")
  BY Answered DEF TypeOK
<1>3. QED  BY <1>1, <1>2 DEF LedgerArrives

(* The call is not in the ledger, or nobody knows.                         *)
LEMMA LedgerFailsDoes ==
    ASSUME TypeOK, NEW c \in Calls, LedgerFails(c)
    PROVE  \/ On(c, "fold") /\ call'[c].n = call[c].n
           \/ Ans(c, "refused")
<1>1. Goes(c, "fold") => On(c, "fold") /\ call'[c].n = call[c].n
  BY GoesOn DEF TypeOK
<1>2. Tells(c, "refused") => Ans(c, "refused")
  BY Answered DEF TypeOK
<1>3. QED  BY <1>1, <1>2 DEF LedgerFails

(* The job is folded, or not.                                              *)
LEMMA FoldsDoes ==
    ASSUME TypeOK, NEW c \in Calls, Folds(c)
    PROVE  \/ Ans(c, "folded")
           \/ Ans(c, "not folded")
<1>1. Tells(c, "folded") => Ans(c, "folded")
  BY Answered DEF TypeOK
<1>2. Tells(c, "not folded") => Ans(c, "not folded")
  BY Answered DEF TypeOK
<1>3. QED  BY <1>1, <1>2 DEF Folds

(* A report with a draft, without one, or one to be made.                  *)
LEMMA ReportArrivesDoes ==
    ASSUME TypeOK, NEW c \in Calls, ReportArrives(c)
    PROVE  \/ On(c, "draft") /\ call'[c].n = call[c].n
           \/ Ans(c, "draft")
           \/ Ans(c, "report")
<1>1. Goes(c, "draft") => On(c, "draft") /\ call'[c].n = call[c].n
  BY GoesOn DEF TypeOK
<1>2. Tells(c, "draft") => Ans(c, "draft")
  BY Answered DEF TypeOK
<1>3. Tells(c, "report") => Ans(c, "report")
  BY Answered DEF TypeOK
<1>4. QED  BY <1>1, <1>2, <1>3 DEF ReportArrives

(* A draft is made, or not.                                                *)
LEMMA DraftsDoes ==
    ASSUME TypeOK, NEW c \in Calls, Drafts(c)
    PROVE  On(c, "note") /\ call'[c].n = call[c].n
<1>1. PICK ok \in BOOLEAN : call' = [call EXCEPT ![c].pc = "note", ![c].ok = ok]
  BY DEF Drafts
<1> DEFINE r == [call[c] EXCEPT !.pc = "note", !.ok = ok]
<1>2. call' = [call EXCEPT ![c] = r]
  BY <1>1
<1>3. call[c] \in CallRec
  BY DEF TypeOK
<1>4. r \in CallRec /\ r.pc = "note" /\ r.does = call[c].does /\ r.early = call[c].early
      /\ r.after = call[c].after /\ r.n = call[c].n /\ r.ok = ok
  BY <1>3 DEF CallRec
<1>5. QED  BY <1>2, <1>4, Putting DEF TypeOK, On

(* The news of the draft.                                                  *)
LEMMA NoteEndsDoes ==
    ASSUME TypeOK, NEW c \in Calls, NoteEnds(c)
    PROVE  \/ Ans(c, "draft")
           \/ Ans(c, "report")
           \/ Ans(c, "refused")
<1>1. Tells(c, "draft") => Ans(c, "draft")
  BY Answered DEF TypeOK
<1>2. Tells(c, "report") => Ans(c, "report")
  BY Answered DEF TypeOK
<1>3. Tells(c, "refused") => Ans(c, "refused")
  BY Answered DEF TypeOK
<1>4. QED  BY <1>1, <1>2, <1>3 DEF NoteEnds

(* The portal answers about a run.                                         *)
LEMMA RunAnswersDoes ==
    ASSUME TypeOK, NEW c \in Calls, RunAnswers(c)
    PROVE  \/ Ans(c, "ok")
           \/ Ans(c, "refused")
<1>1. Tells(c, "ok") => Ans(c, "ok")
  BY Answered DEF TypeOK
<1>2. Tells(c, "refused") => Ans(c, "refused")
  BY Answered DEF TypeOK
<1>3. QED  BY <1>1, <1>2 DEF RunAnswers

(* The steps of a call that is counted.                                    *)
Under(c) ==
    \/ CreateArrives(c) \/ CreateFails(c) \/ AppendArrives(c) \/ AppendFails(c)
    \/ PlanArrives(c) \/ PortalFails(c) \/ EvidenceArrives(c) \/ ToolAnswers(c)
    \/ LedgerArrives(c) \/ LedgerFails(c) \/ Folds(c) \/ ReportArrives(c)
    \/ Drafts(c) \/ NoteEnds(c) \/ RunAnswers(c)

(* What they have in common: the call goes on as it is, or is answered.    *)
LEMMA UnderDoes ==
    ASSUME TypeOK, NEW c \in Calls, Under(c)
    PROVE  /\ Counted(c) /\ Moved(c) /\ call'[c].after = call[c].after
           /\ \/ call'[c].pc = "done" /\ call'[c].early = FALSE
              \/ /\ call'[c].pc \in {"append", "evidence", "tool", "ledger", "fold", "draft", "note"}
                 /\ call'[c].early = call[c].early
<1>1. CASE CreateArrives(c)
  BY <1>1, CreateArrivesDoes DEF CreateArrives, At, Counted, On, Ans
<1>2. CASE CreateFails(c)
  BY <1>2, CreateFailsDoes DEF CreateFails, At, Counted, On, Ans
<1>3. CASE AppendArrives(c)
  BY <1>3, AppendArrivesDoes DEF AppendArrives, At, Counted, On, Ans
<1>4. CASE AppendFails(c)
  BY <1>4, AppendFailsDoes DEF AppendFails, At, Counted, On, Ans
<1>5. CASE PlanArrives(c)
  BY <1>5, PlanArrivesDoes DEF PlanArrives, At, Counted, On, Ans
<1>6. CASE PortalFails(c)
  BY <1>6, PortalFailsDoes DEF PortalFails, At, Counted, On, Ans
<1>7. CASE EvidenceArrives(c)
  BY <1>7, EvidenceArrivesDoes DEF EvidenceArrives, At, Counted, On, Ans
<1>8. CASE ToolAnswers(c)
  BY <1>8, ToolAnswersDoes DEF ToolAnswers, At, Counted, On, Ans
<1>9. CASE LedgerArrives(c)
  BY <1>9, LedgerArrivesDoes DEF LedgerArrives, At, Counted, On, Ans
<1>10. CASE LedgerFails(c)
  BY <1>10, LedgerFailsDoes DEF LedgerFails, At, Counted, On, Ans
<1>11. CASE Folds(c)
  BY <1>11, FoldsDoes DEF Folds, At, Counted, On, Ans
<1>12. CASE ReportArrives(c)
  BY <1>12, ReportArrivesDoes DEF ReportArrives, At, Counted, On, Ans
<1>13. CASE Drafts(c)
  BY <1>13, DraftsDoes DEF Drafts, At, Counted, On, Ans
<1>14. CASE NoteEnds(c)
  BY <1>14, NoteEndsDoes DEF NoteEnds, At, Counted, On, Ans
<1>15. CASE RunAnswers(c)
  BY <1>15, RunAnswersDoes DEF RunAnswers, At, Counted, On, Ans
<1>16. QED  BY <1>1, <1>2, <1>3, <1>4, <1>5, <1>6, <1>7, <1>8, <1>9, <1>10, <1>11, <1>12,
   <1>13, <1>14, <1>15 DEF Under

(* Each step keeps every variable in its type.                             *)
LEMMA TypesPreserved == ASSUME IInv, [Next]_vars PROVE TypeOK'
<1> USE LocalAssumption
<1>0. /\ TypeOK /\ TalkInv /\ JobInv /\ DraftInv /\ CutInv
      /\ SaveTellsTruth /\ JobIsAccounted /\ NoSecondDraft /\ CutHadItsTime
  BY DEF IInv
<1>1. ASSUME NEW c \in Calls, Arrives(c) PROVE TypeOK'
  <2>0. Moved(c)
    BY <1>0, <1>1, ArrivesDoes DEF Ans
  <2>1. call' \in [Calls -> CallRec]
    BY <2>0 DEF Moved
  <2>2. QED  BY <1>0, <1>1, <2>1 DEF TypeOK, Arrives, shutdown, portal
<1>2. ASSUME NEW c \in Calls, Enters(c) PROVE TypeOK'
  <2>0. Moved(c)
    BY <1>0, <1>2, EntersDoes DEF Ans
  <2>1. call' \in [Calls -> CallRec]
    BY <2>0 DEF Moved
  <2>2. QED  BY <1>0, <1>2, <2>1 DEF TypeOK, Enters, shutdown, portal
<1>3. ASSUME NEW c \in Calls, CreateArrives(c) PROVE TypeOK'
  <2>0. Moved(c)
    BY <1>0, <1>3, UnderDoes DEF Under
  <2>1. call' \in [Calls -> CallRec]
    BY <2>0 DEF Moved
  <2>2. [talk EXCEPT ![c] = Upto(Head1)] \in [Calls -> Seq(Nat)]
    BY <1>0, UptoIsSeq, FirstBatch DEF TypeOK
  <2>3. talk' \in [Calls -> Seq(Nat)]
    BY <1>0, <1>3, <2>2 DEF TypeOK, CreateArrives
  <2>4. QED  BY <1>0, <1>3, <2>1, <2>2, <2>3 DEF TypeOK, CreateArrives, shutdown, portal
<1>4. ASSUME NEW c \in Calls, CreateFails(c) PROVE TypeOK'
  <2>0. Moved(c)
    BY <1>0, <1>4, UnderDoes DEF Under
  <2>1. call' \in [Calls -> CallRec]
    BY <2>0 DEF Moved
  <2>2. [talk EXCEPT ![c] = Upto(Head1)] \in [Calls -> Seq(Nat)]
    BY <1>0, UptoIsSeq, FirstBatch DEF TypeOK
  <2>3. talk' \in [Calls -> Seq(Nat)]
    BY <1>0, <1>4, <2>2 DEF TypeOK, CreateFails
  <2>4. QED  BY <1>0, <1>4, <2>1, <2>2, <2>3 DEF TypeOK, CreateFails, shutdown, portal
<1>5. ASSUME NEW c \in Calls, AppendArrives(c) PROVE TypeOK'
  <2>0. Moved(c)
    BY <1>0, <1>5, UnderDoes DEF Under
  <2>1. call' \in [Calls -> CallRec]
    BY <2>0 DEF Moved
  <2>2. call[c].n + 1 \in Nat
    BY <1>0, Fields
  <2>3. Append(talk[c], call[c].n + 1) \in Seq(Nat)
    BY <1>0, <2>2 DEF TypeOK
  <2>4. talk' \in [Calls -> Seq(Nat)]
    BY <1>0, <1>5, <2>3 DEF TypeOK, AppendArrives
  <2>5. QED  BY <1>0, <1>5, <2>1, <2>2, <2>3, <2>4 DEF TypeOK, AppendArrives, shutdown,
     portal
<1>6. ASSUME NEW c \in Calls, AppendFails(c) PROVE TypeOK'
  <2>0. Moved(c)
    BY <1>0, <1>6, UnderDoes DEF Under
  <2>1. call' \in [Calls -> CallRec]
    BY <2>0 DEF Moved
  <2>2. call[c].n + 1 \in Nat
    BY <1>0, Fields
  <2>3. Append(talk[c], call[c].n + 1) \in Seq(Nat)
    BY <1>0, <2>2 DEF TypeOK
  <2>4. talk' \in [Calls -> Seq(Nat)]
    BY <1>0, <1>6, <2>3 DEF TypeOK, AppendFails
  <2>5. QED  BY <1>0, <1>6, <2>1, <2>2, <2>3, <2>4 DEF TypeOK, AppendFails, shutdown, portal
<1>7. ASSUME NEW c \in Calls, PlanArrives(c) PROVE TypeOK'
  <2>0. Moved(c)
    BY <1>0, <1>7, UnderDoes DEF Under
  <2>1. call' \in [Calls -> CallRec]
    BY <2>0 DEF Moved
  <2>2. QED  BY <1>0, <1>7, <2>1 DEF TypeOK, PlanArrives, shutdown, portal
<1>8. ASSUME NEW c \in Calls, PortalFails(c) PROVE TypeOK'
  <2>0. Moved(c)
    BY <1>0, <1>8, UnderDoes DEF Under
  <2>1. call' \in [Calls -> CallRec]
    BY <2>0 DEF Moved
  <2>2. QED  BY <1>0, <1>8, <2>1 DEF TypeOK, PortalFails, shutdown, portal
<1>9. ASSUME NEW c \in Calls, EvidenceArrives(c) PROVE TypeOK'
  <2>0. Moved(c)
    BY <1>0, <1>9, UnderDoes DEF Under
  <2>1. call' \in [Calls -> CallRec]
    BY <2>0 DEF Moved
  <2>2. QED  BY <1>0, <1>9, <2>1 DEF TypeOK, EvidenceArrives, shutdown, portal
<1>10. ASSUME NEW c \in Calls, ToolAnswers(c) PROVE TypeOK'
  <2>0. Moved(c)
    BY <1>0, <1>10, UnderDoes DEF Under
  <2>1. call' \in [Calls -> CallRec]
    BY <2>0 DEF Moved
  <2>2. job' \in [Calls -> {"none", "runs", "unheard", "folded"}]
    BY <1>0, <1>10 DEF TypeOK, ToolAnswers
  <2>3. QED  BY <1>0, <1>10, <2>1, <2>2 DEF TypeOK, ToolAnswers, shutdown, portal
<1>11. ASSUME NEW c \in Calls, LedgerArrives(c) PROVE TypeOK'
  <2>0. Moved(c)
    BY <1>0, <1>11, UnderDoes DEF Under
  <2>1. call' \in [Calls -> CallRec]
    BY <2>0 DEF Moved
  <2>2. run' \in RunRec
    BY <1>0, <1>11, RecordsDoes DEF TypeOK, LedgerArrives
  <2>3. QED  BY <1>0, <1>11, <2>1, <2>2 DEF TypeOK, LedgerArrives, shutdown, portal
<1>12. ASSUME NEW c \in Calls, LedgerFails(c) PROVE TypeOK'
  <2>0. Moved(c)
    BY <1>0, <1>12, UnderDoes DEF Under
  <2>1. call' \in [Calls -> CallRec]
    BY <2>0 DEF Moved
  <2>2. run' \in RunRec
    BY <1>0, <1>12, RecordsDoes DEF TypeOK, LedgerFails
  <2>3. QED  BY <1>0, <1>12, <2>1, <2>2 DEF TypeOK, LedgerFails, shutdown, portal
<1>13. ASSUME NEW c \in Calls, Folds(c) PROVE TypeOK'
  <2>0. Moved(c)
    BY <1>0, <1>13, UnderDoes DEF Under
  <2>1. call' \in [Calls -> CallRec]
    BY <2>0 DEF Moved
  <2>2. job' \in [Calls -> {"none", "runs", "unheard", "folded"}]
    BY <1>0, <1>13 DEF TypeOK, Folds
  <2>3. QED  BY <1>0, <1>13, <2>1, <2>2 DEF TypeOK, Folds, shutdown, portal
<1>14. ASSUME NEW c \in Calls, ReportArrives(c) PROVE TypeOK'
  <2>0. Moved(c)
    BY <1>0, <1>14, UnderDoes DEF Under
  <2>1. call' \in [Calls -> CallRec]
    BY <2>0 DEF Moved
  <2>2. QED  BY <1>0, <1>14, <2>1 DEF TypeOK, ReportArrives, shutdown, portal
<1>15. ASSUME NEW c \in Calls, Drafts(c) PROVE TypeOK'
  <2>0. Moved(c)
    BY <1>0, <1>15, UnderDoes DEF Under
  <2>1. call' \in [Calls -> CallRec]
    BY <2>0 DEF Moved
  <2>2. [report EXCEPT !.drafts = @ \cup {c}] \in [drafts : SUBSET Calls, id : BOOLEAN]
    BY <1>0 DEF TypeOK
  <2>3. report' \in [drafts : SUBSET Calls, id : BOOLEAN]
    BY <1>0, <1>15, <2>2 DEF TypeOK, Drafts
  <2>4. QED  BY <1>0, <1>15, <2>1, <2>2, <2>3 DEF TypeOK, Drafts, shutdown, portal
<1>16. ASSUME NEW c \in Calls, NoteEnds(c) PROVE TypeOK'
  <2>0. Moved(c)
    BY <1>0, <1>16, UnderDoes DEF Under
  <2>1. call' \in [Calls -> CallRec]
    BY <2>0 DEF Moved
  <2>2. call[c].ok \in BOOLEAN
    BY <1>0, Fields
  <2>3. report' \in [drafts : SUBSET Calls, id : BOOLEAN]
    BY <1>0, <1>16, <2>2 DEF TypeOK, NoteEnds, Notes
  <2>4. QED  BY <1>0, <1>16, <2>1, <2>2, <2>3 DEF TypeOK, NoteEnds, shutdown, portal
<1>17. ASSUME NEW c \in Calls, RunAnswers(c) PROVE TypeOK'
  <2>0. Moved(c)
    BY <1>0, <1>17, UnderDoes DEF Under
  <2>1. call' \in [Calls -> CallRec]
    BY <2>0 DEF Moved
  <2>2. Carries
    BY <1>0, <1>17, Changing, Stopping DEF RunAnswers, PortalDoes
  <2>3. QED  BY <1>0, <1>17, <2>1, <2>2 DEF TypeOK, RunAnswers, Carries, shutdown
<1>18. ASSUME PortalChanges PROVE TypeOK'
  <2>1. Carries
    BY <1>0, <1>18, Changing, Stopping DEF PortalChanges
  <2>2. QED  BY <1>0, <1>18, <2>1 DEF TypeOK, PortalChanges, shutdown, Carries
<1>19. ASSUME Signal PROVE TypeOK'
  BY <1>0, <1>19 DEF TypeOK, Signal, portal
<1>20. ASSUME Tick PROVE TypeOK'
  BY <1>0, <1>20 DEF TypeOK, Tick, portal
<1>21. ASSUME DrainEnds PROVE TypeOK'
  BY <1>0, <1>21 DEF TypeOK, DrainEnds, portal
<1>22. ASSUME GoesDown PROVE TypeOK'
  <2>1. call' \in [Calls -> CallRec]
    <3>1. ASSUME NEW c \in Calls PROVE call'[c] \in CallRec
      <4>1. call[c] \in CallRec
        BY <1>0 DEF TypeOK
      <4>2. [call[c] EXCEPT !.pc = "cut"] \in CallRec
        BY <4>1 DEF CallRec
      <4>3. QED  BY <1>22, <4>1, <4>2 DEF GoesDown
    <3>2. QED  BY <1>22, <3>1 DEF GoesDown
  <2>2. QED  BY <1>0, <1>22, <2>1 DEF TypeOK, GoesDown, portal
<1>23. ASSUME Done PROVE TypeOK'
  BY <1>0, <1>23 DEF TypeOK, Done, vars, shutdown, portal
<1>24. ASSUME UNCHANGED vars PROVE TypeOK'
  BY <1>0, <1>24 DEF TypeOK, vars, shutdown
<1>25. QED  BY <1>1, <1>2, <1>3, <1>4, <1>5, <1>6, <1>7, <1>8, <1>9, <1>10, <1>11, <1>12,
   <1>13, <1>14, <1>15, <1>16, <1>17, <1>18, <1>19, <1>20, <1>21, <1>22, <1>23, <1>24 DEF
   Next, CallStep, Shuts

(* Each step keeps what is stored and what is told of it together.         *)
LEMMA TalkPreserved == ASSUME IInv, [Next]_vars PROVE TalkInv' /\ SaveTellsTruth'
<1> USE LocalAssumption
<1>0. /\ TypeOK /\ TalkInv /\ JobInv /\ DraftInv /\ CutInv
      /\ SaveTellsTruth /\ JobIsAccounted /\ NoSecondDraft /\ CutHadItsTime
  BY DEF IInv
<1>1. ASSUME NEW c \in Calls, Arrives(c) PROVE TalkInv' /\ SaveTellsTruth'
  <2>0. Moved(c)
    BY <1>0, <1>1, ArrivesDoes DEF Ans
  <2>1. talk' = talk /\ \A d \in Calls : d # c => call'[d] = call[d]
    BY <1>1, <2>0 DEF Moved, Arrives, portal
  <2>2. talk'[c] = <<>> /\ call'[c].n = 0 /\ call'[c].pc # "append" /\ (call'[c].pc = "done" => call'[c].told \in {"draining", "refused"})
    BY <1>0, <1>1, ArrivesDoes DEF TalkInv, Arrives, At, portal, Ans
  <2>3. QED  BY <2>1, <2>2, <1>0 DEF TalkInv, SaveTellsTruth, At
<1>2. ASSUME NEW c \in Calls, Enters(c) PROVE TalkInv' /\ SaveTellsTruth'
  <2>0. Moved(c)
    BY <1>0, <1>2, EntersDoes DEF Ans
  <2>1. talk' = talk /\ \A d \in Calls : d # c => call'[d] = call[d]
    BY <1>2, <2>0 DEF Moved, Enters, portal
  <2>2. talk'[c] = <<>> /\ call'[c].n = 0 /\ call'[c].pc # "append" /\ (call'[c].pc = "done" => call'[c].told \in {"draining", "refused"})
    BY <1>0, <1>2, EntersDoes DEF TalkInv, Enters, At, portal, Ans
  <2>3. QED  BY <2>1, <2>2, <1>0 DEF TalkInv, SaveTellsTruth, At
<1>3. ASSUME NEW c \in Calls, CreateArrives(c) PROVE TalkInv' /\ SaveTellsTruth'
  <2>0. Moved(c)
    BY <1>0, <1>3, UnderDoes DEF Under
  <2>1. \A d \in Calls : d # c => call'[d] = call[d] /\ talk'[d] = talk[d]
    BY <1>0, <1>3, <2>0 DEF Moved, CreateArrives, TypeOK
  <2>2. talk'[c] = Upto(Head1) /\ call[c].n = 0
    BY <1>0, <1>3 DEF CreateArrives, At, TypeOK, TalkInv
  <2>3. CASE Ans(c, "saved") /\ Head1 = Messages
    BY <1>0, <2>1, <2>2, <2>3 DEF TalkInv, SaveTellsTruth, At, Ans
  <2>4. CASE On(c, "append") /\ call'[c].n = Head1 /\ Head1 < Messages
    BY <1>0, <2>1, <2>2, <2>4 DEF TalkInv, SaveTellsTruth, At, On
  <2>5. QED  BY <1>0, <1>3, <2>3, <2>4, CreateArrivesDoes
<1>4. ASSUME NEW c \in Calls, CreateFails(c) PROVE TalkInv' /\ SaveTellsTruth'
  <2>0. Moved(c)
    BY <1>0, <1>4, UnderDoes DEF Under
  <2>1. \A d \in Calls : d # c => call'[d] = call[d] /\ talk'[d] = talk[d]
    BY <1>0, <1>4, <2>0 DEF Moved, CreateFails, TypeOK
  <2>2. talk[c] = <<>>
    BY <1>0, <1>4 DEF CreateFails, At, TalkInv
  <2>3. CASE Tells(c, "refused") /\ talk' = talk
    <3>1. Ans(c, "refused")
      BY <1>0, <2>3, Answered DEF TypeOK
    <3>2. QED  BY <1>0, <2>1, <2>2, <2>3, <3>1 DEF TalkInv, SaveTellsTruth, At, Ans
  <2>4. CASE (Tells(c, "maybe") \/ Tells(c, "unavailable")) /\ talk'[c] \in {<<>>, Upto(Head1)}
    <3>1. Ans(c, "maybe") \/ Ans(c, "unavailable")
      BY <1>0, <2>4, Answered DEF TypeOK
    <3>2. QED  BY <1>0, <2>1, <2>2, <2>4, <3>1 DEF TalkInv, SaveTellsTruth, At, Ans
  <2>5. QED  BY <1>0, <1>4, <2>2, <2>3, <2>4 DEF CreateFails, TypeOK
<1>5. ASSUME NEW c \in Calls, AppendArrives(c) PROVE TalkInv' /\ SaveTellsTruth'
  <2>0. Moved(c)
    BY <1>0, <1>5, UnderDoes DEF Under
  <2>1. \A d \in Calls : d # c => call'[d] = call[d] /\ talk'[d] = talk[d]
    BY <1>0, <1>5, <2>0 DEF Moved, AppendArrives, TypeOK
  <2>2. talk'[c] = Upto(call[c].n + 1)
    <3>1. call[c] \in CallRec
      BY <1>0 DEF TypeOK
    <3>2. call[c].n \in Nat
      BY <3>1 DEF CallRec
    <3>3. QED  BY <1>0, <1>5, <3>2, OneMore DEF AppendArrives, At, TypeOK, TalkInv
  <2>3. CASE Ans(c, "saved") /\ call[c].n + 1 = Messages
    <3>1. call'[c].pc = "done" /\ call'[c].told = "saved" /\ talk'[c] = Upto(Messages)
      BY <2>2, <2>3 DEF Ans
    <3>2. TalkInv'
      BY <1>0, <2>1, <3>1 DEF TalkInv
    <3>3. SaveTellsTruth'
      BY <1>0, <2>1, <3>1 DEF SaveTellsTruth, At
    <3>4. QED  BY <3>2, <3>3
  <2>4. CASE On(c, "append") /\ call'[c].n = call[c].n + 1 /\ call[c].n + 1 # Messages
    <3>1. call'[c].n < Messages
      <4>1. call[c] \in CallRec
        BY <1>0 DEF TypeOK
      <4>2. call[c].n \in Nat /\ call[c].n < Messages
        BY <1>0, <1>5, <4>1 DEF CallRec, AppendArrives, At, TalkInv
      <4>3. QED  BY <2>4, <4>2
    <3>2. QED  BY <1>0, <2>1, <2>2, <2>4, <3>1 DEF TalkInv, SaveTellsTruth, At, On
  <2>5. QED  BY <1>0, <1>5, <2>3, <2>4, AppendArrivesDoes
<1>6. ASSUME NEW c \in Calls, AppendFails(c) PROVE TalkInv' /\ SaveTellsTruth'
  <2>0. Moved(c)
    BY <1>0, <1>6, UnderDoes DEF Under
  <2>1. \A d \in Calls : d # c => call'[d] = call[d] /\ talk'[d] = talk[d]
    BY <1>0, <1>6, <2>0 DEF Moved, AppendFails, TypeOK
  <2>2. talk[c] = Upto(call[c].n) /\ call[c].n < Messages /\ Append(talk[c], call[c].n + 1) = Upto(call[c].n + 1)
    <3>1. call[c] \in CallRec
      BY <1>0 DEF TypeOK
    <3>2. call[c].n \in Nat
      BY <3>1 DEF CallRec
    <3>3. QED  BY <1>0, <1>6, <3>2, OneMore DEF AppendFails, At, TalkInv
  <2>3. CASE Tells(c, "partial") /\ talk' = talk
    <3>1. Ans(c, "partial")
      BY <1>0, <2>3, Answered DEF TypeOK
    <3>2. call'[c].pc = "done" /\ call'[c].told = "partial" /\ talk'[c] = Upto(call'[c].n) /\ call'[c].n < Messages
      BY <2>2, <2>3, <3>1 DEF Ans
    <3>3. TalkInv'
      BY <1>0, <2>1, <3>2 DEF TalkInv
    <3>4. SaveTellsTruth'
      BY <1>0, <2>1, <3>2 DEF SaveTellsTruth, At
    <3>5. QED  BY <3>3, <3>4
  <2>4. CASE Tells(c, "partly maybe") /\ talk'[c] \in {talk[c], Append(talk[c], call[c].n + 1)}
    <3>1. Ans(c, "partly maybe")
      BY <1>0, <2>4, Answered DEF TypeOK
    <3>2. QED  BY <1>0, <2>1, <2>2, <2>4, <3>1 DEF TalkInv, SaveTellsTruth, At, Ans
  <2>5. QED  BY <1>0, <1>6, <2>3, <2>4 DEF AppendFails, TypeOK
<1>7. ASSUME NEW c \in Calls, PlanArrives(c) PROVE TalkInv' /\ SaveTellsTruth'
  <2>0. Moved(c)
    BY <1>0, <1>7, UnderDoes DEF Under
  <2>1. talk' = talk /\ \A d \in Calls : d # c => call'[d] = call[d]
    BY <1>7, <2>0 DEF Moved, PlanArrives, portal
  <2>2. talk'[c] = <<>> /\ call'[c].n = 0 /\ call'[c].pc # "append" /\ (call'[c].pc = "done" => call'[c].told \notin {"saved", "partial", "partly maybe", "maybe", "unavailable"})
    BY <1>0, <1>7, PlanArrivesDoes DEF TalkInv, PlanArrives, At, portal, Ans, On
  <2>3. QED  BY <2>1, <2>2, <1>0 DEF TalkInv, SaveTellsTruth, At
<1>8. ASSUME NEW c \in Calls, PortalFails(c) PROVE TalkInv' /\ SaveTellsTruth'
  <2>0. Moved(c)
    BY <1>0, <1>8, UnderDoes DEF Under
  <2>1. talk' = talk /\ \A d \in Calls : d # c => call'[d] = call[d]
    BY <1>8, <2>0 DEF Moved, PortalFails, portal
  <2>2. talk'[c] = <<>> /\ call'[c].n = 0 /\ call'[c].pc # "append" /\ (call'[c].pc = "done" => call'[c].told \notin {"saved", "partial", "partly maybe", "maybe", "unavailable"})
    BY <1>0, <1>8, PortalFailsDoes DEF TalkInv, PortalFails, At, portal, Ans, On
  <2>3. QED  BY <2>1, <2>2, <1>0 DEF TalkInv, SaveTellsTruth, At
<1>9. ASSUME NEW c \in Calls, EvidenceArrives(c) PROVE TalkInv' /\ SaveTellsTruth'
  <2>0. Moved(c)
    BY <1>0, <1>9, UnderDoes DEF Under
  <2>1. talk' = talk /\ \A d \in Calls : d # c => call'[d] = call[d]
    BY <1>9, <2>0 DEF Moved, EvidenceArrives, portal
  <2>2. talk'[c] = <<>> /\ call'[c].n = 0 /\ call'[c].pc # "append" /\ (call'[c].pc = "done" => call'[c].told \notin {"saved", "partial", "partly maybe", "maybe", "unavailable"})
    BY <1>0, <1>9, EvidenceArrivesDoes DEF TalkInv, EvidenceArrives, At, portal, Ans, On
  <2>3. QED  BY <2>1, <2>2, <1>0 DEF TalkInv, SaveTellsTruth, At
<1>10. ASSUME NEW c \in Calls, ToolAnswers(c) PROVE TalkInv' /\ SaveTellsTruth'
  <2>0. Moved(c)
    BY <1>0, <1>10, UnderDoes DEF Under
  <2>1. talk' = talk /\ \A d \in Calls : d # c => call'[d] = call[d]
    BY <1>10, <2>0 DEF Moved, ToolAnswers, portal
  <2>2. talk'[c] = <<>> /\ call'[c].n = 0 /\ call'[c].pc # "append" /\ (call'[c].pc = "done" => call'[c].told \notin {"saved", "partial", "partly maybe", "maybe", "unavailable"})
    BY <1>0, <1>10, ToolAnswersDoes DEF TalkInv, ToolAnswers, At, portal, Ans, On
  <2>3. QED  BY <2>1, <2>2, <1>0 DEF TalkInv, SaveTellsTruth, At
<1>11. ASSUME NEW c \in Calls, LedgerArrives(c) PROVE TalkInv' /\ SaveTellsTruth'
  <2>0. Moved(c)
    BY <1>0, <1>11, UnderDoes DEF Under
  <2>1. talk' = talk /\ \A d \in Calls : d # c => call'[d] = call[d]
    BY <1>11, <2>0 DEF Moved, LedgerArrives, portal
  <2>2. talk'[c] = <<>> /\ call'[c].n = 0 /\ call'[c].pc # "append" /\ (call'[c].pc = "done" => call'[c].told \notin {"saved", "partial", "partly maybe", "maybe", "unavailable"})
    BY <1>0, <1>11, LedgerArrivesDoes DEF TalkInv, LedgerArrives, At, portal, Ans, On
  <2>3. QED  BY <2>1, <2>2, <1>0 DEF TalkInv, SaveTellsTruth, At
<1>12. ASSUME NEW c \in Calls, LedgerFails(c) PROVE TalkInv' /\ SaveTellsTruth'
  <2>0. Moved(c)
    BY <1>0, <1>12, UnderDoes DEF Under
  <2>1. talk' = talk /\ \A d \in Calls : d # c => call'[d] = call[d]
    BY <1>12, <2>0 DEF Moved, LedgerFails, portal
  <2>2. talk'[c] = <<>> /\ call'[c].n = 0 /\ call'[c].pc # "append" /\ (call'[c].pc = "done" => call'[c].told \notin {"saved", "partial", "partly maybe", "maybe", "unavailable"})
    BY <1>0, <1>12, LedgerFailsDoes DEF TalkInv, LedgerFails, At, portal, Ans, On
  <2>3. QED  BY <2>1, <2>2, <1>0 DEF TalkInv, SaveTellsTruth, At
<1>13. ASSUME NEW c \in Calls, Folds(c) PROVE TalkInv' /\ SaveTellsTruth'
  <2>0. Moved(c)
    BY <1>0, <1>13, UnderDoes DEF Under
  <2>1. talk' = talk /\ \A d \in Calls : d # c => call'[d] = call[d]
    BY <1>13, <2>0 DEF Moved, Folds, portal
  <2>2. talk'[c] = <<>> /\ call'[c].n = 0 /\ call'[c].pc # "append" /\ (call'[c].pc = "done" => call'[c].told \notin {"saved", "partial", "partly maybe", "maybe", "unavailable"})
    BY <1>0, <1>13, FoldsDoes DEF TalkInv, Folds, At, portal, Ans, On
  <2>3. QED  BY <2>1, <2>2, <1>0 DEF TalkInv, SaveTellsTruth, At
<1>14. ASSUME NEW c \in Calls, ReportArrives(c) PROVE TalkInv' /\ SaveTellsTruth'
  <2>0. Moved(c)
    BY <1>0, <1>14, UnderDoes DEF Under
  <2>1. talk' = talk /\ \A d \in Calls : d # c => call'[d] = call[d]
    BY <1>14, <2>0 DEF Moved, ReportArrives, portal
  <2>2. talk'[c] = <<>> /\ call'[c].n = 0 /\ call'[c].pc # "append" /\ (call'[c].pc = "done" => call'[c].told \notin {"saved", "partial", "partly maybe", "maybe", "unavailable"})
    BY <1>0, <1>14, ReportArrivesDoes DEF TalkInv, ReportArrives, At, portal, Ans, On
  <2>3. QED  BY <2>1, <2>2, <1>0 DEF TalkInv, SaveTellsTruth, At
<1>15. ASSUME NEW c \in Calls, Drafts(c) PROVE TalkInv' /\ SaveTellsTruth'
  <2>0. Moved(c)
    BY <1>0, <1>15, UnderDoes DEF Under
  <2>1. talk' = talk /\ \A d \in Calls : d # c => call'[d] = call[d]
    BY <1>15, <2>0 DEF Moved, Drafts, portal
  <2>2. talk'[c] = <<>> /\ call'[c].n = 0 /\ call'[c].pc # "append" /\ (call'[c].pc = "done" => call'[c].told \notin {"saved", "partial", "partly maybe", "maybe", "unavailable"})
    BY <1>0, <1>15, DraftsDoes DEF TalkInv, Drafts, At, portal, Ans, On
  <2>3. QED  BY <2>1, <2>2, <1>0 DEF TalkInv, SaveTellsTruth, At
<1>16. ASSUME NEW c \in Calls, NoteEnds(c) PROVE TalkInv' /\ SaveTellsTruth'
  <2>0. Moved(c)
    BY <1>0, <1>16, UnderDoes DEF Under
  <2>1. talk' = talk /\ \A d \in Calls : d # c => call'[d] = call[d]
    BY <1>16, <2>0 DEF Moved, NoteEnds, portal
  <2>2. talk'[c] = <<>> /\ call'[c].n = 0 /\ call'[c].pc # "append" /\ (call'[c].pc = "done" => call'[c].told \notin {"saved", "partial", "partly maybe", "maybe", "unavailable"})
    BY <1>0, <1>16, NoteEndsDoes DEF TalkInv, NoteEnds, At, portal, Ans, On
  <2>3. QED  BY <2>1, <2>2, <1>0 DEF TalkInv, SaveTellsTruth, At
<1>17. ASSUME NEW c \in Calls, RunAnswers(c) PROVE TalkInv' /\ SaveTellsTruth'
  <2>0. Moved(c)
    BY <1>0, <1>17, UnderDoes DEF Under
  <2>1. talk' = talk /\ \A d \in Calls : d # c => call'[d] = call[d]
    BY <1>17, <2>0 DEF Moved, RunAnswers, portal
  <2>2. talk'[c] = <<>> /\ call'[c].n = 0 /\ call'[c].pc # "append" /\ (call'[c].pc = "done" => call'[c].told \notin {"saved", "partial", "partly maybe", "maybe", "unavailable"})
    BY <1>0, <1>17, RunAnswersDoes DEF TalkInv, RunAnswers, At, portal, Ans, On
  <2>3. QED  BY <2>1, <2>2, <1>0 DEF TalkInv, SaveTellsTruth, At
<1>18. ASSUME PortalChanges PROVE TalkInv' /\ SaveTellsTruth'
  BY <1>0, <1>18 DEF TalkInv, SaveTellsTruth, At, PortalChanges, shutdown
<1>19. ASSUME Signal PROVE TalkInv' /\ SaveTellsTruth'
  BY <1>0, <1>19 DEF TalkInv, SaveTellsTruth, At, Signal, portal
<1>20. ASSUME Tick PROVE TalkInv' /\ SaveTellsTruth'
  BY <1>0, <1>20 DEF TalkInv, SaveTellsTruth, At, Tick, portal
<1>21. ASSUME DrainEnds PROVE TalkInv' /\ SaveTellsTruth'
  BY <1>0, <1>21 DEF TalkInv, SaveTellsTruth, At, DrainEnds, portal
<1>22. ASSUME GoesDown PROVE TalkInv' /\ SaveTellsTruth'
  <2>1. talk' = talk /\ \A d \in Calls : call'[d] = call[d] \/ call'[d].pc = "cut"
    <3>1. \A d \in Calls : call[d] \in CallRec
      BY <1>0 DEF TypeOK
    <3>2. QED  BY <1>22, <3>1 DEF GoesDown, portal, CallRec
  <2>2. QED  BY <1>0, <2>1 DEF TalkInv, SaveTellsTruth, At
<1>23. ASSUME Done PROVE TalkInv' /\ SaveTellsTruth'
  BY <1>0, <1>23 DEF TalkInv, SaveTellsTruth, At, Done, vars, shutdown, portal
<1>24. ASSUME UNCHANGED vars PROVE TalkInv' /\ SaveTellsTruth'
  BY <1>0, <1>24 DEF TalkInv, SaveTellsTruth, At, vars
<1>25. QED  BY <1>1, <1>2, <1>3, <1>4, <1>5, <1>6, <1>7, <1>8, <1>9, <1>10, <1>11, <1>12,
   <1>13, <1>14, <1>15, <1>16, <1>17, <1>18, <1>19, <1>20, <1>21, <1>22, <1>23, <1>24 DEF
   Next, CallStep, Shuts

(* Each step keeps account of the jobs.                                    *)
LEMMA JobPreserved == ASSUME IInv, [Next]_vars PROVE JobInv' /\ JobIsAccounted'
<1> USE LocalAssumption
<1>0. /\ TypeOK /\ TalkInv /\ JobInv /\ DraftInv /\ CutInv
      /\ SaveTellsTruth /\ JobIsAccounted /\ NoSecondDraft /\ CutHadItsTime
  BY DEF IInv
<1>1. ASSUME NEW c \in Calls, Arrives(c) PROVE JobInv' /\ JobIsAccounted'
  <2>0. Moved(c)
    BY <1>0, <1>1, ArrivesDoes DEF Ans
  <2>1. \A d \in Calls : d # c => call'[d] = call[d]
    BY <2>0 DEF Moved
  <2>2. run' = run /\ job' = job /\ job[c] \notin {"runs", "unheard"}
    BY <1>0, <1>1 DEF Arrives, At, JobInv, portal
  <2>3. QED  BY <1>0, <2>1, <2>2 DEF JobInv, JobIsAccounted, At
<1>2. ASSUME NEW c \in Calls, Enters(c) PROVE JobInv' /\ JobIsAccounted'
  <2>0. Moved(c)
    BY <1>0, <1>2, EntersDoes DEF Ans
  <2>1. \A d \in Calls : d # c => call'[d] = call[d]
    BY <2>0 DEF Moved
  <2>2. run' = run /\ job' = job /\ job[c] \notin {"runs", "unheard"}
    BY <1>0, <1>2 DEF Enters, At, JobInv, portal
  <2>3. QED  BY <1>0, <2>1, <2>2 DEF JobInv, JobIsAccounted, At
<1>3. ASSUME NEW c \in Calls, CreateArrives(c) PROVE JobInv' /\ JobIsAccounted'
  <2>0. Moved(c)
    BY <1>0, <1>3, UnderDoes DEF Under
  <2>1. \A d \in Calls : d # c => call'[d] = call[d]
    BY <2>0 DEF Moved
  <2>2. run' = run /\ job' = job /\ job[c] \notin {"runs", "unheard"}
    BY <1>0, <1>3 DEF CreateArrives, At, JobInv, portal
  <2>3. QED  BY <1>0, <2>1, <2>2 DEF JobInv, JobIsAccounted, At
<1>4. ASSUME NEW c \in Calls, CreateFails(c) PROVE JobInv' /\ JobIsAccounted'
  <2>0. Moved(c)
    BY <1>0, <1>4, UnderDoes DEF Under
  <2>1. \A d \in Calls : d # c => call'[d] = call[d]
    BY <2>0 DEF Moved
  <2>2. run' = run /\ job' = job /\ job[c] \notin {"runs", "unheard"}
    BY <1>0, <1>4 DEF CreateFails, At, JobInv, portal
  <2>3. QED  BY <1>0, <2>1, <2>2 DEF JobInv, JobIsAccounted, At
<1>5. ASSUME NEW c \in Calls, AppendArrives(c) PROVE JobInv' /\ JobIsAccounted'
  <2>0. Moved(c)
    BY <1>0, <1>5, UnderDoes DEF Under
  <2>1. \A d \in Calls : d # c => call'[d] = call[d]
    BY <2>0 DEF Moved
  <2>2. run' = run /\ job' = job /\ job[c] \notin {"runs", "unheard"}
    BY <1>0, <1>5 DEF AppendArrives, At, JobInv, portal
  <2>3. QED  BY <1>0, <2>1, <2>2 DEF JobInv, JobIsAccounted, At
<1>6. ASSUME NEW c \in Calls, AppendFails(c) PROVE JobInv' /\ JobIsAccounted'
  <2>0. Moved(c)
    BY <1>0, <1>6, UnderDoes DEF Under
  <2>1. \A d \in Calls : d # c => call'[d] = call[d]
    BY <2>0 DEF Moved
  <2>2. run' = run /\ job' = job /\ job[c] \notin {"runs", "unheard"}
    BY <1>0, <1>6 DEF AppendFails, At, JobInv, portal
  <2>3. QED  BY <1>0, <2>1, <2>2 DEF JobInv, JobIsAccounted, At
<1>7. ASSUME NEW c \in Calls, PlanArrives(c) PROVE JobInv' /\ JobIsAccounted'
  <2>0. Moved(c)
    BY <1>0, <1>7, UnderDoes DEF Under
  <2>1. \A d \in Calls : d # c => call'[d] = call[d]
    BY <2>0 DEF Moved
  <2>2. run' = run /\ job' = job /\ job[c] \notin {"runs", "unheard"}
    BY <1>0, <1>7 DEF PlanArrives, At, JobInv, portal
  <2>3. QED  BY <1>0, <2>1, <2>2 DEF JobInv, JobIsAccounted, At
<1>8. ASSUME NEW c \in Calls, PortalFails(c) PROVE JobInv' /\ JobIsAccounted'
  <2>0. Moved(c)
    BY <1>0, <1>8, UnderDoes DEF Under
  <2>1. \A d \in Calls : d # c => call'[d] = call[d]
    BY <2>0 DEF Moved
  <2>2. run' = run /\ job' = job /\ job[c] \notin {"runs", "unheard"}
    BY <1>0, <1>8 DEF PortalFails, At, JobInv, portal
  <2>3. QED  BY <1>0, <2>1, <2>2 DEF JobInv, JobIsAccounted, At
<1>9. ASSUME NEW c \in Calls, EvidenceArrives(c) PROVE JobInv' /\ JobIsAccounted'
  <2>0. Moved(c)
    BY <1>0, <1>9, UnderDoes DEF Under
  <2>1. \A d \in Calls : d # c => call'[d] = call[d]
    BY <2>0 DEF Moved
  <2>2. run' = run /\ job' = job /\ job[c] \notin {"runs", "unheard"}
    BY <1>0, <1>9 DEF EvidenceArrives, At, JobInv, portal
  <2>3. QED  BY <1>0, <2>1, <2>2 DEF JobInv, JobIsAccounted, At
<1>10. ASSUME NEW c \in Calls, ToolAnswers(c) PROVE JobInv' /\ JobIsAccounted'
  <2>0. Moved(c)
    BY <1>0, <1>10, UnderDoes DEF Under
  <2>1. \A d \in Calls : d # c => call'[d] = call[d]
    BY <2>0 DEF Moved
  <2>2. run' = run /\ job[c] \notin {"runs", "unheard"} /\ call'[c].pc = "ledger" /\ call'[c].does = call[c].does
    BY <1>0, <1>10, ToolAnswersDoes DEF ToolAnswers, On, JobInv, At
  <2>3. /\ job'[c] = "runs" => call'[c].ok /\ call[c].does = "start"
        /\ job'[c] = "unheard" => ~call'[c].ok
    <3>1. PICK ok \in BOOLEAN :
             /\ call' = [call EXCEPT ![c].pc = "ledger", ![c].ok = ok]
             /\ IF call[c].does = "start"
                THEN job' \in IF ok THEN {[job EXCEPT ![c] = "runs"]} ELSE {job, [job EXCEPT ![c] = "unheard"]}
                ELSE UNCHANGED job
      BY <1>10 DEF ToolAnswers
    <3>2. call'[c].ok = ok
      <4>1. call[c] \in CallRec
        BY <1>0 DEF TypeOK
      <4>2. QED  BY <1>0, <3>1, <4>1 DEF TypeOK, CallRec
    <3>3. QED  BY <1>0, <2>2, <3>1, <3>2 DEF TypeOK
  <2>4. \A d \in Calls : d # c => job'[d] = job[d]
    BY <1>0, <1>10 DEF ToolAnswers, TypeOK
  <2>5. QED  BY <1>0, <2>1, <2>2, <2>3, <2>4 DEF JobInv, JobIsAccounted, At
<1>11. ASSUME NEW c \in Calls, LedgerArrives(c) PROVE JobInv' /\ JobIsAccounted'
  <2>0. Moved(c)
    BY <1>0, <1>11, UnderDoes DEF Under
  <2>1. \A d \in Calls : d # c => call'[d] = call[d]
    BY <2>0 DEF Moved
  <2>2. /\ job' = job /\ run'.state # "cancelled" /\ run'.left = run.left
        /\ run.ledger \subseteq run'.ledger /\ (job[c] = "runs" => c \in run'.ledger)
    BY <1>0, <1>11, RecordsDoes DEF LedgerArrives
  <2>3. call'[c].pc = "done" /\ (job[c] = "unheard" => call'[c].told = "tool failed")
    BY <1>0, <1>11, Answered DEF LedgerArrives, JobInv, At, Ans, TypeOK
  <2>4. QED  BY <1>0, <2>1, <2>2, <2>3 DEF JobInv, JobIsAccounted, At
<1>12. ASSUME NEW c \in Calls, LedgerFails(c) PROVE JobInv' /\ JobIsAccounted'
  <2>0. Moved(c)
    BY <1>0, <1>12, UnderDoes DEF Under
  <2>1. \A d \in Calls : d # c => call'[d] = call[d]
    BY <2>0 DEF Moved
  <2>2. job' = job /\ run'.state = run.state /\ run.ledger \subseteq run'.ledger /\ run'.left = run.left
    BY <1>0, <1>12, RecordsDoes DEF LedgerFails
  <2>3. job[c] = "runs" => call'[c].pc = "fold"
    <3>1. job[c] = "runs" => Goes(c, "fold")
      BY <1>0, <1>12 DEF LedgerFails, JobInv, At
    <3>2. QED  BY <1>0, <3>1, GoesOn DEF TypeOK, On
  <2>4. job[c] = "unheard" => call'[c].pc = "done" /\ call'[c].told = "refused"
    <3>1. job[c] = "unheard" => Tells(c, "refused")
      BY <1>0, <1>12 DEF LedgerFails, JobInv, At
    <3>2. QED  BY <1>0, <3>1, Answered DEF TypeOK, Ans
  <2>5. call'[c].pc \in {"fold", "done"}
    BY <1>0, <1>12, LedgerFailsDoes DEF Ans, On
  <2>6. QED  BY <1>0, <2>1, <2>2, <2>3, <2>4, <2>5 DEF JobInv, JobIsAccounted, At
<1>13. ASSUME NEW c \in Calls, Folds(c) PROVE JobInv' /\ JobIsAccounted'
  <2>0. Moved(c)
    BY <1>0, <1>13, UnderDoes DEF Under
  <2>1. \A d \in Calls : d # c => call'[d] = call[d]
    BY <2>0 DEF Moved
  <2>2. run' = run /\ call'[c].pc = "done" /\ \A d \in Calls : d # c => job'[d] = job[d]
    BY <1>0, <1>13, FoldsDoes DEF Folds, Ans, TypeOK
  <2>3. job'[c] # "unheard" /\ (job'[c] = "runs" => call'[c].told = "not folded")
    BY <1>0, <1>13, Answered DEF Folds, At, JobInv, Ans, TypeOK
  <2>4. QED  BY <1>0, <2>1, <2>2, <2>3 DEF JobInv, JobIsAccounted, At
<1>14. ASSUME NEW c \in Calls, ReportArrives(c) PROVE JobInv' /\ JobIsAccounted'
  <2>0. Moved(c)
    BY <1>0, <1>14, UnderDoes DEF Under
  <2>1. \A d \in Calls : d # c => call'[d] = call[d]
    BY <2>0 DEF Moved
  <2>2. run' = run /\ job' = job /\ job[c] \notin {"runs", "unheard"}
    BY <1>0, <1>14 DEF ReportArrives, At, JobInv, portal
  <2>3. QED  BY <1>0, <2>1, <2>2 DEF JobInv, JobIsAccounted, At
<1>15. ASSUME NEW c \in Calls, Drafts(c) PROVE JobInv' /\ JobIsAccounted'
  <2>0. Moved(c)
    BY <1>0, <1>15, UnderDoes DEF Under
  <2>1. \A d \in Calls : d # c => call'[d] = call[d]
    BY <2>0 DEF Moved
  <2>2. run' = run /\ job' = job /\ job[c] \notin {"runs", "unheard"}
    BY <1>0, <1>15 DEF Drafts, At, JobInv, portal
  <2>3. QED  BY <1>0, <2>1, <2>2 DEF JobInv, JobIsAccounted, At
<1>16. ASSUME NEW c \in Calls, NoteEnds(c) PROVE JobInv' /\ JobIsAccounted'
  <2>0. Moved(c)
    BY <1>0, <1>16, UnderDoes DEF Under
  <2>1. \A d \in Calls : d # c => call'[d] = call[d]
    BY <2>0 DEF Moved
  <2>2. run' = run /\ job' = job /\ job[c] \notin {"runs", "unheard"}
    BY <1>0, <1>16 DEF NoteEnds, At, JobInv, portal
  <2>3. QED  BY <1>0, <2>1, <2>2 DEF JobInv, JobIsAccounted, At
<1>17. ASSUME NEW c \in Calls, RunAnswers(c) PROVE JobInv' /\ JobIsAccounted'
  <2>0. Moved(c)
    BY <1>0, <1>17, UnderDoes DEF Under
  <2>1. \A d \in Calls : d # c => call'[d] = call[d]
    BY <2>0 DEF Moved
  <2>2. Carries
    BY <1>0, <1>17, Changing, Stopping DEF RunAnswers, PortalDoes
  <2>3. job[c] \notin {"runs", "unheard"}
    BY <1>0, <1>17 DEF RunAnswers, At, JobInv
  <2>4. job'[c] \notin {"runs", "unheard"}
    BY <2>2, <2>3 DEF Carries
  <2>5. JobInv'
    BY <1>0, <2>1, <2>2, <2>4 DEF JobInv, Carries
  <2>6. JobIsAccounted'
    BY <1>0, <2>1, <2>2, <2>4 DEF JobIsAccounted, At, Carries
  <2>7. QED  BY <2>5, <2>6
<1>18. ASSUME PortalChanges PROVE JobInv' /\ JobIsAccounted'
  <2>1. Carries /\ call' = call
    BY <1>0, <1>18, Changing, Stopping DEF PortalChanges
  <2>2. QED  BY <1>0, <2>1 DEF JobInv, JobIsAccounted, At, Carries
<1>19. ASSUME Signal PROVE JobInv' /\ JobIsAccounted'
  BY <1>0, <1>19 DEF JobInv, JobIsAccounted, At, Signal, portal
<1>20. ASSUME Tick PROVE JobInv' /\ JobIsAccounted'
  BY <1>0, <1>20 DEF JobInv, JobIsAccounted, At, Tick, portal
<1>21. ASSUME DrainEnds PROVE JobInv' /\ JobIsAccounted'
  BY <1>0, <1>21 DEF JobInv, JobIsAccounted, At, DrainEnds, portal
<1>22. ASSUME GoesDown PROVE JobInv' /\ JobIsAccounted'
  <2>1. job' = job /\ run' = run /\ \A d \in Calls : call'[d] = call[d] \/ call'[d].pc = "cut"
    <3>1. \A d \in Calls : call[d] \in CallRec
      BY <1>0 DEF TypeOK
    <3>2. QED  BY <1>22, <3>1 DEF GoesDown, portal, CallRec
  <2>2. QED  BY <1>0, <2>1 DEF JobInv, JobIsAccounted, At
<1>23. ASSUME Done PROVE JobInv' /\ JobIsAccounted'
  BY <1>0, <1>23 DEF JobInv, JobIsAccounted, At, Done, vars, shutdown, portal
<1>24. ASSUME UNCHANGED vars PROVE JobInv' /\ JobIsAccounted'
  BY <1>0, <1>24 DEF JobInv, JobIsAccounted, At, vars
<1>25. QED  BY <1>1, <1>2, <1>3, <1>4, <1>5, <1>6, <1>7, <1>8, <1>9, <1>10, <1>11, <1>12,
   <1>13, <1>14, <1>15, <1>16, <1>17, <1>18, <1>19, <1>20, <1>21, <1>22, <1>23, <1>24 DEF
   Next, CallStep, Shuts

(* Each step keeps to one draft.                                           *)
LEMMA DraftPreserved == ASSUME IInv, [Next]_vars PROVE DraftInv' /\ NoSecondDraft'
<1> USE LocalAssumption
<1>0. /\ TypeOK /\ TalkInv /\ JobInv /\ DraftInv /\ CutInv
      /\ SaveTellsTruth /\ JobIsAccounted /\ NoSecondDraft /\ CutHadItsTime
  BY DEF IInv
<1>1. ASSUME NEW c \in Calls, Arrives(c) PROVE DraftInv' /\ NoSecondDraft'
  <2>0. Moved(c)
    BY <1>0, <1>1, ArrivesDoes DEF Ans
  <2>1. \A d \in Calls : d # c => call'[d] = call[d]
    BY <2>0 DEF Moved
  <2>2. report' = report /\ call'[c].after = call[c].after /\ c \notin report.drafts /\ call'[c].pc # "draft"
        /\ (call'[c].pc \in {"new", "door"} => ~call[c].after)
    BY <1>0, <1>1, ArrivesDoes DEF Arrives, At, portal, On, Ans, DraftInv
  <2>3. QED  BY <1>0, <2>1, <2>2, Fields DEF DraftInv, NoSecondDraft
<1>2. ASSUME NEW c \in Calls, Enters(c) PROVE DraftInv' /\ NoSecondDraft'
  <2>0. Moved(c)
    BY <1>0, <1>2, EntersDoes DEF Ans
  <2>1. \A d \in Calls : d # c => call'[d] = call[d]
    BY <2>0 DEF Moved
  <2>2. report' = report /\ c \notin report.drafts /\ call'[c].pc \notin {"new", "door", "draft"} /\ (call'[c].after => report.id)
    BY <1>0, <1>2, EntersDoes DEF Enters, At, portal, Ans, DraftInv
  <2>3. QED  BY <1>0, <2>1, <2>2, <1>2, Fields DEF DraftInv, NoSecondDraft, Enters, At
<1>3. ASSUME NEW c \in Calls, CreateArrives(c) PROVE DraftInv' /\ NoSecondDraft'
  <2>0. Moved(c)
    BY <1>0, <1>3, UnderDoes DEF Under
  <2>1. \A d \in Calls : d # c => call'[d] = call[d]
    BY <2>0 DEF Moved
  <2>2. report' = report /\ call'[c].after = call[c].after /\ c \notin report.drafts /\ call'[c].pc # "draft"
        /\ (call'[c].pc \in {"new", "door"} => ~call[c].after)
    BY <1>0, <1>3, CreateArrivesDoes DEF CreateArrives, At, portal, On, Ans, DraftInv
  <2>3. QED  BY <1>0, <2>1, <2>2, Fields DEF DraftInv, NoSecondDraft
<1>4. ASSUME NEW c \in Calls, CreateFails(c) PROVE DraftInv' /\ NoSecondDraft'
  <2>0. Moved(c)
    BY <1>0, <1>4, UnderDoes DEF Under
  <2>1. \A d \in Calls : d # c => call'[d] = call[d]
    BY <2>0 DEF Moved
  <2>2. report' = report /\ call'[c].after = call[c].after /\ c \notin report.drafts /\ call'[c].pc # "draft"
        /\ (call'[c].pc \in {"new", "door"} => ~call[c].after)
    BY <1>0, <1>4, CreateFailsDoes DEF CreateFails, At, portal, On, Ans, DraftInv
  <2>3. QED  BY <1>0, <2>1, <2>2, Fields DEF DraftInv, NoSecondDraft
<1>5. ASSUME NEW c \in Calls, AppendArrives(c) PROVE DraftInv' /\ NoSecondDraft'
  <2>0. Moved(c)
    BY <1>0, <1>5, UnderDoes DEF Under
  <2>1. \A d \in Calls : d # c => call'[d] = call[d]
    BY <2>0 DEF Moved
  <2>2. report' = report /\ call'[c].after = call[c].after /\ c \notin report.drafts /\ call'[c].pc # "draft"
        /\ (call'[c].pc \in {"new", "door"} => ~call[c].after)
    BY <1>0, <1>5, AppendArrivesDoes DEF AppendArrives, At, portal, On, Ans, DraftInv
  <2>3. QED  BY <1>0, <2>1, <2>2, Fields DEF DraftInv, NoSecondDraft
<1>6. ASSUME NEW c \in Calls, AppendFails(c) PROVE DraftInv' /\ NoSecondDraft'
  <2>0. Moved(c)
    BY <1>0, <1>6, UnderDoes DEF Under
  <2>1. \A d \in Calls : d # c => call'[d] = call[d]
    BY <2>0 DEF Moved
  <2>2. report' = report /\ call'[c].after = call[c].after /\ c \notin report.drafts /\ call'[c].pc # "draft"
        /\ (call'[c].pc \in {"new", "door"} => ~call[c].after)
    BY <1>0, <1>6, AppendFailsDoes DEF AppendFails, At, portal, On, Ans, DraftInv
  <2>3. QED  BY <1>0, <2>1, <2>2, Fields DEF DraftInv, NoSecondDraft
<1>7. ASSUME NEW c \in Calls, PlanArrives(c) PROVE DraftInv' /\ NoSecondDraft'
  <2>0. Moved(c)
    BY <1>0, <1>7, UnderDoes DEF Under
  <2>1. \A d \in Calls : d # c => call'[d] = call[d]
    BY <2>0 DEF Moved
  <2>2. report' = report /\ call'[c].after = call[c].after /\ c \notin report.drafts /\ call'[c].pc # "draft"
        /\ (call'[c].pc \in {"new", "door"} => ~call[c].after)
    BY <1>0, <1>7, PlanArrivesDoes DEF PlanArrives, At, portal, On, Ans, DraftInv
  <2>3. QED  BY <1>0, <2>1, <2>2, Fields DEF DraftInv, NoSecondDraft
<1>8. ASSUME NEW c \in Calls, PortalFails(c) PROVE DraftInv' /\ NoSecondDraft'
  <2>0. Moved(c)
    BY <1>0, <1>8, UnderDoes DEF Under
  <2>1. \A d \in Calls : d # c => call'[d] = call[d]
    BY <2>0 DEF Moved
  <2>2. report' = report /\ call'[c].after = call[c].after /\ c \notin report.drafts /\ call'[c].pc # "draft"
        /\ (call'[c].pc \in {"new", "door"} => ~call[c].after)
    BY <1>0, <1>8, PortalFailsDoes DEF PortalFails, At, portal, On, Ans, DraftInv
  <2>3. QED  BY <1>0, <2>1, <2>2, Fields DEF DraftInv, NoSecondDraft
<1>9. ASSUME NEW c \in Calls, EvidenceArrives(c) PROVE DraftInv' /\ NoSecondDraft'
  <2>0. Moved(c)
    BY <1>0, <1>9, UnderDoes DEF Under
  <2>1. \A d \in Calls : d # c => call'[d] = call[d]
    BY <2>0 DEF Moved
  <2>2. report' = report /\ call'[c].after = call[c].after /\ c \notin report.drafts /\ call'[c].pc # "draft"
        /\ (call'[c].pc \in {"new", "door"} => ~call[c].after)
    BY <1>0, <1>9, EvidenceArrivesDoes DEF EvidenceArrives, At, portal, On, Ans, DraftInv
  <2>3. QED  BY <1>0, <2>1, <2>2, Fields DEF DraftInv, NoSecondDraft
<1>10. ASSUME NEW c \in Calls, ToolAnswers(c) PROVE DraftInv' /\ NoSecondDraft'
  <2>0. Moved(c)
    BY <1>0, <1>10, UnderDoes DEF Under
  <2>1. \A d \in Calls : d # c => call'[d] = call[d]
    BY <2>0 DEF Moved
  <2>2. report' = report /\ call'[c].after = call[c].after /\ c \notin report.drafts /\ call'[c].pc # "draft"
        /\ (call'[c].pc \in {"new", "door"} => ~call[c].after)
    BY <1>0, <1>10, ToolAnswersDoes DEF ToolAnswers, At, portal, On, Ans, DraftInv
  <2>3. QED  BY <1>0, <2>1, <2>2, Fields DEF DraftInv, NoSecondDraft
<1>11. ASSUME NEW c \in Calls, LedgerArrives(c) PROVE DraftInv' /\ NoSecondDraft'
  <2>0. Moved(c)
    BY <1>0, <1>11, UnderDoes DEF Under
  <2>1. \A d \in Calls : d # c => call'[d] = call[d]
    BY <2>0 DEF Moved
  <2>2. report' = report /\ call'[c].after = call[c].after /\ c \notin report.drafts /\ call'[c].pc # "draft"
        /\ (call'[c].pc \in {"new", "door"} => ~call[c].after)
    BY <1>0, <1>11, LedgerArrivesDoes DEF LedgerArrives, At, portal, On, Ans, DraftInv
  <2>3. QED  BY <1>0, <2>1, <2>2, Fields DEF DraftInv, NoSecondDraft
<1>12. ASSUME NEW c \in Calls, LedgerFails(c) PROVE DraftInv' /\ NoSecondDraft'
  <2>0. Moved(c)
    BY <1>0, <1>12, UnderDoes DEF Under
  <2>1. \A d \in Calls : d # c => call'[d] = call[d]
    BY <2>0 DEF Moved
  <2>2. report' = report /\ call'[c].after = call[c].after /\ c \notin report.drafts /\ call'[c].pc # "draft"
        /\ (call'[c].pc \in {"new", "door"} => ~call[c].after)
    BY <1>0, <1>12, LedgerFailsDoes DEF LedgerFails, At, portal, On, Ans, DraftInv
  <2>3. QED  BY <1>0, <2>1, <2>2, Fields DEF DraftInv, NoSecondDraft
<1>13. ASSUME NEW c \in Calls, Folds(c) PROVE DraftInv' /\ NoSecondDraft'
  <2>0. Moved(c)
    BY <1>0, <1>13, UnderDoes DEF Under
  <2>1. \A d \in Calls : d # c => call'[d] = call[d]
    BY <2>0 DEF Moved
  <2>2. report' = report /\ call'[c].after = call[c].after /\ c \notin report.drafts /\ call'[c].pc # "draft"
        /\ (call'[c].pc \in {"new", "door"} => ~call[c].after)
    BY <1>0, <1>13, FoldsDoes DEF Folds, At, portal, On, Ans, DraftInv
  <2>3. QED  BY <1>0, <2>1, <2>2, Fields DEF DraftInv, NoSecondDraft
<1>14. ASSUME NEW c \in Calls, ReportArrives(c) PROVE DraftInv' /\ NoSecondDraft'
  <2>0. Moved(c)
    BY <1>0, <1>14, UnderDoes DEF Under
  <2>1. \A d \in Calls : d # c => call'[d] = call[d]
    BY <2>0 DEF Moved
  <2>2. report' = report /\ c \notin report.drafts /\ call'[c].after = call[c].after
    BY <1>0, <1>14, ReportArrivesDoes DEF ReportArrives, At, portal, On, Ans, DraftInv
  <2>3. call'[c].pc = "done" \/ (call'[c].pc = "draft" /\ ~report.id)
    BY <1>0, <1>14, GoesOn, Answered DEF ReportArrives, On, Ans, TypeOK
  <2>4. QED  BY <1>0, <2>1, <2>2, <2>3, Fields DEF DraftInv, NoSecondDraft
<1>15. ASSUME NEW c \in Calls, Drafts(c) PROVE DraftInv' /\ NoSecondDraft'
  <2>0. Moved(c)
    BY <1>0, <1>15, UnderDoes DEF Under
  <2>1. \A d \in Calls : d # c => call'[d] = call[d]
    BY <2>0 DEF Moved
  <2>2. report'.id = report.id /\ report'.drafts \subseteq report.drafts \cup {c}
    BY <1>0, <1>15 DEF Drafts, TypeOK
  <2>3. call'[c].pc = "note" /\ call'[c].after = call[c].after /\ ~call[c].after
    BY <1>0, <1>15, DraftsDoes DEF Drafts, At, On, DraftInv
  <2>4. QED  BY <1>0, <2>1, <2>2, <2>3, Fields DEF DraftInv, NoSecondDraft
<1>16. ASSUME NEW c \in Calls, NoteEnds(c) PROVE DraftInv' /\ NoSecondDraft'
  <2>0. Moved(c)
    BY <1>0, <1>16, UnderDoes DEF Under
  <2>1. \A d \in Calls : d # c => call'[d] = call[d]
    BY <2>0 DEF Moved
  <2>2. (report.id => report'.id) /\ report'.drafts = report.drafts
    BY <1>0, <1>16 DEF NoteEnds, Notes, TypeOK
  <2>3. call'[c].pc = "done" /\ call'[c].after = call[c].after
    BY <1>0, <1>16, NoteEndsDoes DEF Ans
  <2>4. QED  BY <1>0, <2>1, <2>2, <2>3, Fields DEF DraftInv, NoSecondDraft
<1>17. ASSUME NEW c \in Calls, RunAnswers(c) PROVE DraftInv' /\ NoSecondDraft'
  <2>0. Moved(c)
    BY <1>0, <1>17, UnderDoes DEF Under
  <2>1. \A d \in Calls : d # c => call'[d] = call[d]
    BY <2>0 DEF Moved
  <2>2. report' = report /\ call'[c].after = call[c].after /\ c \notin report.drafts /\ call'[c].pc # "draft"
        /\ (call'[c].pc \in {"new", "door"} => ~call[c].after)
    BY <1>0, <1>17, RunAnswersDoes DEF RunAnswers, At, portal, On, Ans, DraftInv
  <2>3. QED  BY <1>0, <2>1, <2>2, Fields DEF DraftInv, NoSecondDraft
<1>18. ASSUME PortalChanges PROVE DraftInv' /\ NoSecondDraft'
  BY <1>0, <1>18 DEF DraftInv, NoSecondDraft, PortalChanges, shutdown
<1>19. ASSUME Signal PROVE DraftInv' /\ NoSecondDraft'
  BY <1>0, <1>19 DEF DraftInv, NoSecondDraft, Signal, portal
<1>20. ASSUME Tick PROVE DraftInv' /\ NoSecondDraft'
  BY <1>0, <1>20 DEF DraftInv, NoSecondDraft, Tick, portal
<1>21. ASSUME DrainEnds PROVE DraftInv' /\ NoSecondDraft'
  BY <1>0, <1>21 DEF DraftInv, NoSecondDraft, DrainEnds, portal
<1>22. ASSUME GoesDown PROVE DraftInv' /\ NoSecondDraft'
  <2>1. report' = report /\ \A d \in Calls : call'[d].after = call[d].after /\ (call'[d] = call[d] \/ call'[d].pc = "cut")
    <3>1. \A d \in Calls : call[d] \in CallRec
      BY <1>0 DEF TypeOK
    <3>2. QED  BY <1>22, <3>1 DEF GoesDown, portal, CallRec
  <2>2. DraftInv'
    BY <1>0, <2>1, Fields DEF DraftInv
  <2>3. ASSUME NEW d \in report'.drafts PROVE ~call'[d].after
    <3>1. d \in report.drafts /\ d \in Calls
      BY <1>0, <2>1 DEF TypeOK
    <3>2. ~call[d].after /\ call'[d].after = call[d].after
      BY <1>0, <2>1, <3>1 DEF NoSecondDraft
    <3>3. QED  BY <3>2
  <2>4. QED  BY <2>2, <2>3 DEF NoSecondDraft
<1>23. ASSUME Done PROVE DraftInv' /\ NoSecondDraft'
  BY <1>0, <1>23 DEF DraftInv, NoSecondDraft, Done, vars, shutdown, portal
<1>24. ASSUME UNCHANGED vars PROVE DraftInv' /\ NoSecondDraft'
  BY <1>0, <1>24 DEF DraftInv, NoSecondDraft, vars
<1>25. QED  BY <1>1, <1>2, <1>3, <1>4, <1>5, <1>6, <1>7, <1>8, <1>9, <1>10, <1>11, <1>12,
   <1>13, <1>14, <1>15, <1>16, <1>17, <1>18, <1>19, <1>20, <1>21, <1>22, <1>23, <1>24 DEF
   Next, CallStep, Shuts

(* Each step gives a call its time.                                        *)
LEMMA CutPreserved == ASSUME IInv, [Next]_vars PROVE CutInv' /\ CutHadItsTime'
<1> USE LocalAssumption
<1>0. /\ TypeOK /\ TalkInv /\ JobInv /\ DraftInv /\ CutInv
      /\ SaveTellsTruth /\ JobIsAccounted /\ NoSecondDraft /\ CutHadItsTime
  BY DEF IInv
<1>1. ASSUME NEW c \in Calls, Arrives(c) PROVE CutInv' /\ CutHadItsTime'
  <2>0. Moved(c)
    BY <1>0, <1>1, ArrivesDoes DEF Ans
  <2>1. \A d \in Calls : d # c => call'[d] = call[d]
    BY <2>0 DEF Moved
  <2>2. drain' = drain /\ clock' = clock /\ waited' = waited /\ force' = force
    BY <1>1 DEF Arrives, shutdown
  <2>3. drain \in {"no", "wait"} /\ call'[c].pc \in {"door", "done"} /\ ~call'[c].early
    BY <1>0, <1>1, ArrivesDoes DEF Arrives, At, Ans, CutInv
  <2>4. QED  BY <1>0, <2>1, <2>2, <2>3, Fields DEF CutInv, CutHadItsTime, At, Counted
<1>2. ASSUME NEW c \in Calls, Enters(c) PROVE CutInv' /\ CutHadItsTime'
  <2>0. Moved(c)
    BY <1>0, <1>2, EntersDoes DEF Ans
  <2>1. \A d \in Calls : d # c => call'[d] = call[d]
    BY <2>0 DEF Moved
  <2>2. drain' = drain /\ clock' = clock /\ waited' = waited /\ force' = force
    BY <1>2 DEF Enters, shutdown
  <2>3. drain # "down" /\ \/ call'[c].pc = "done" /\ ~call'[c].early
                          \/ call'[c].pc \in {"create", "plan", "report", "run"} /\ call'[c].early = (drain \in {"no", "wait"})
    BY <1>0, <1>2, EntersDoes DEF Enters, Ans
  <2>4. QED  BY <1>0, <2>1, <2>2, <2>3, Fields DEF CutInv, CutHadItsTime, At, Counted
<1>3. ASSUME NEW c \in Calls, Under(c) PROVE CutInv' /\ CutHadItsTime'
  <2>1. Moved(c) /\ Counted(c)
    BY <1>0, <1>3, UnderDoes
  <2>2. shutdown' = shutdown
    BY <1>3 DEF Under, CreateArrives, CreateFails, AppendArrives, AppendFails, PlanArrives,
       PortalFails, EvidenceArrives, ToolAnswers, LedgerArrives, LedgerFails, Folds,
       ReportArrives, Drafts, NoteEnds, RunAnswers
  <2>3. drain' = drain /\ clock' = clock /\ waited' = waited /\ force' = force
    BY <2>2 DEF shutdown
  <2>4. \A d \in Calls : d # c => call'[d] = call[d]
    BY <2>1 DEF Moved
  <2>5. drain # "down" /\ call[c].pc \notin {"new", "door", "done", "cut"}
    BY <1>0, <2>1 DEF CutInv, Counted
  <2>6. CASE call'[c].pc = "done" /\ call'[c].early = FALSE
    BY <1>0, <2>3, <2>4, <2>5, <2>6, Fields DEF CutInv, CutHadItsTime, At, Counted
  <2>7. CASE call'[c].pc \in {"append", "evidence", "tool", "ledger", "fold", "draft", "note"} /\ call'[c].early = call[c].early
    BY <1>0, <2>1, <2>3, <2>4, <2>5, <2>7, Fields DEF CutInv, CutHadItsTime, At, Counted
  <2>8. QED  BY <1>0, <1>3, <2>6, <2>7, UnderDoes
<1>4. ASSUME PortalChanges PROVE CutInv' /\ CutHadItsTime'
  BY <1>0, <1>4 DEF CutInv, CutHadItsTime, At, Counted, PortalChanges, shutdown
<1>5. ASSUME Signal PROVE CutInv' /\ CutHadItsTime'
  BY <1>0, <1>5 DEF CutInv, CutHadItsTime, At, Counted, Signal, shutdown
<1>6. ASSUME Tick PROVE CutInv' /\ CutHadItsTime'
  BY <1>0, <1>6 DEF CutInv, CutHadItsTime, At, Counted, Tick, shutdown
<1>7. ASSUME DrainEnds PROVE CutInv' /\ CutHadItsTime'
  <2>1. drain = "wait" /\ drain' = "tail" /\ waited' = clock /\ force' = force /\ call' = call
    BY <1>7 DEF DrainEnds
  <2>2. \A d \in Calls : Counted(d) => clock >= DrainTicks \/ force
    BY <1>7 DEF DrainEnds, WaitOver, Inflight
  <2>3. QED  BY <1>0, <2>1, <2>2, Fields DEF CutInv, CutHadItsTime, At, Counted
<1>8. ASSUME GoesDown PROVE CutInv' /\ CutHadItsTime'
  <2>1. drain = "tail" /\ drain' = "down" /\ clock' = clock /\ waited' = waited /\ force' = force
    BY <1>8 DEF GoesDown
  <2>2. \A d \in Calls : IF call[d].pc = "door" \/ Counted(d) THEN call'[d].pc = "cut" /\ call'[d].early = call[d].early ELSE call'[d] = call[d]
    <3>1. \A d \in Calls : call[d] \in CallRec
      BY <1>0 DEF TypeOK
    <3>2. QED  BY <1>8, <3>1 DEF GoesDown, CallRec
  <2>3. \A d \in Calls : call'[d].pc = "cut" => (~force => clock >= TailTicks) /\ (call[d].pc = "door" \/ Counted(d))
    BY <1>0, <1>8, <2>1, <2>2 DEF GoesDown, Counted, CutInv
  <2>4. QED  BY <1>0, <2>1, <2>2, <2>3, Fields DEF CutInv, CutHadItsTime, At, Counted
<1>9. ASSUME Done PROVE CutInv' /\ CutHadItsTime'
  BY <1>0, <1>9 DEF CutInv, CutHadItsTime, At, Counted, Done, vars, shutdown
<1>10. ASSUME UNCHANGED vars PROVE CutInv' /\ CutHadItsTime'
  BY <1>0, <1>10 DEF CutInv, CutHadItsTime, At, Counted, vars, shutdown
<1>11. QED  BY <1>1, <1>2, <1>3, <1>4, <1>5, <1>6, <1>7, <1>8, <1>9, <1>10 DEF Next,
   CallStep, Shuts, Under

(* IInv holds to begin with.                                               *)
LEMMA InitInv == Init => IInv
<1> SUFFICES ASSUME Init PROVE IInv
  OBVIOUS
<1> USE LocalAssumption
<1>1. Idle \in CallRec
  BY DEF Idle, CallRec, Requests
<1>2. call \in [Calls -> CallRec] /\ \A c \in Calls : call[c] = Idle
  BY <1>1 DEF Init
<1>3. run \in RunRec /\ talk \in [Calls -> Seq(Nat)] /\ report \in [drafts : SUBSET Calls, id : BOOLEAN]
  BY DEF Init, RunRec
<1>4. TypeOK
  BY <1>2, <1>3 DEF Init, TypeOK
<1>5. TalkInv /\ JobInv /\ DraftInv
  BY <1>2 DEF Init, Idle, TalkInv, JobInv, DraftInv
<1>6. CutInv /\ SaveTellsTruth /\ JobIsAccounted /\ NoSecondDraft /\ CutHadItsTime
  BY <1>2 DEF Init, Idle, CutInv, SaveTellsTruth, JobIsAccounted, NoSecondDraft, CutHadItsTime, At
<1>7. QED  BY <1>4, <1>5, <1>6 DEF IInv

(* IInv always holds.                                                      *)
LEMMA Invariance == Spec => []IInv
<1>1. IInv /\ [Next]_vars => IInv'
  BY TypesPreserved, TalkPreserved, JobPreserved, DraftPreserved, CutPreserved DEF IInv
<1>2. QED  BY InitInv, <1>1, PTL DEF Spec

(* The types of the calls, of the portal's stores and of the shutdown      *)
(* (TypeOK) hold always.                                                   *)
THEOREM TypeCorrect == Spec => []TypeOK
<1>1. IInv => TypeOK
  BY DEF IInv
<1>2. QED  BY Invariance, <1>1, PTL

(* What a save tells agrees with what the portal stores; the bare          *)
(* CONV_UNAVAILABLE of an exception leaves it open.                        *)
THEOREM SaveIsTrue == Spec => []SaveTellsTruth
<1>1. IInv => SaveTellsTruth
  BY DEF IInv
<1>2. QED  BY Invariance, <1>1, PTL

(* A deliberation that was heard of and runs on is in a ledger, was named  *)
(* by a stop, or the caller knows; one that was not heard of runs under a  *)
(* call that said its start failed.                                        *)
THEOREM JobAccounted == Spec => []JobIsAccounted
<1>1. IInv => JobIsAccounted
  BY DEF IInv
<1>2. QED  BY Invariance, <1>1, PTL

(* A report with a draft gets no other.                                    *)
THEOREM OneDraft == Spec => []NoSecondDraft
<1>1. IInv => NoSecondDraft
  BY DEF IInv
<1>2. QED  BY Invariance, <1>1, PTL

(* A call is cut only after the time that was promised to it.              *)
THEOREM CutInTime == Spec => []CutHadItsTime
<1>1. IInv => CutHadItsTime
  BY DEF IInv
<1>2. QED  BY Invariance, <1>1, PTL
=============================================================================
