---------------------------- MODULE SessionAgent ----------------------------
(***************************************************************************)
(* The sessionAgent of internal/agent/agent.go, for one session: how a      *)
(* submitted prompt becomes the active run, is queued behind it, is folded  *)
(* into one of its steps, is handed the session when the run ends, or is    *)
(* cancelled; and what Cancel, ClearQueue and Summarize do meanwhile.       *)
(*                                                                         *)
(* Every goroutine has a program counter.  The per-session dispatchMu is    *)
(* the variable mu; code that does not take it (the in-process path,        *)
(* ClearQueue, Summarize, the deferred activeRequests.Del, endAccepted)     *)
(* interleaves with the sections that do.  A csync.Map Get followed by a    *)
(* Set is two steps, with the value read kept in seen.                      *)
(***************************************************************************)
EXTENDS Queues

CONSTANTS
    Prompts,         \* submitted prompts, one goroutine each
    Local,           \* those submitted in-process, with no accept handle
    WithRunID,       \* those that carry a RunID, so that someone waits on it
    Summaries,       \* user-requested Summarize calls
    Cancels,         \* Cancel calls
    Clears,          \* ClearQueue calls
    MaxAttempts,     \* calls of Run or Summarize per request (a 401 retries once)
    MaxErrors,       \* failures the provider or the store may produce
    MaxCompactions,  \* turns that may stop to summarize a full context
    None

Runners == Prompts \cup Summaries
Actors  == Runners \cup Cancels \cup Clears

ASSUME ConstantsAssumption ==
    /\ Prompts # {}
    /\ Local \subseteq Prompts
    /\ WithRunID \subseteq Prompts
    /\ None \notin Actors
    /\ Prompts \cap Summaries = {}
    /\ Runners \cap (Cancels \cup Clears) = {}
    /\ Cancels \cap Clears = {}
    /\ {MaxAttempts, MaxErrors, MaxCompactions} \subseteq Nat

VARIABLES
    messageQueue,   \* queued calls
    activeRequests, \* the runner whose cancel func is registered, or None
    acceptedRuns,   \* number of accepted, not yet dispatched prompts
    acceptSeqGen,   \* last accept sequence number handed out
    cancelMark,     \* high-water accept sequence covered by a cancel, 0 if absent
    open,           \* sequence numbers of the AcceptedRun handles not closed
    mu,             \* holder of the session's dispatchMu, or None
    pc,             \* program counter of every goroutine
    cur,            \* the call a runner is executing
    stack,          \* callers of the function a runner is executing
    seen,           \* the queue a goroutine read before it writes it
    ctxDone,        \* the cancel func a runner registered last was called
    marking,        \* accept sequence a Cancel read, 0 to leave the mark alone
    ret,            \* error returned by the function that returned last
    latest,         \* RunComplete a prompt's OnComplete hook buffered
    published,      \* RunCompletes published for each prompt
    attempts,       \* calls of Run or Summarize made by each runner
    errors,         \* failures injected so far
    compactions,    \* turns that stopped to summarize so far
    covered,        \* history: prompts in flight when some Cancel ran
    struck,         \* history: prompts ended by the cancel mark
    orphaned        \* history: a registration was removed or replaced by another runner

acceptVars == <<acceptedRuns, acceptSeqGen, cancelMark, open>>
agentVars == <<messageQueue, activeRequests, acceptVars, mu>>
localVars == <<pc, cur, stack, seen, ctxDone, ret>>
eventVars == <<latest, published>>
boundVars == <<attempts, errors, compactions>>
ghostVars == <<covered, struck, orphaned>>
otherVars == <<eventVars, boundVars, ghostVars>>
vars == <<agentVars, localVars, marking, otherVars>>

(* "provider" is an error of the provider, which may be a 401. *)
Results  == {"nil", "canceled", "error", "provider"}
IsError(r) == r \in {"error", "provider"}
Outcomes == {"none", "ok", "canceled", "error"}

(* A SessionAgentCall: which prompt it is for, the accept sequence kept     *)
(* when it was queued, whether it still has its OnComplete hook, and the    *)
(* accept handle attached to it (0 for nil).                                *)
Call  == [id : Prompts, acceptSeq : Nat, hook : BOOLEAN, accepted : Nat]

(* A suspended caller: a run that handed off to a queued prompt, a          *)
(* Summarize that runs one, or a run that waits for its Summarize.          *)
Frame == [kind : {"handoff", "summarize", "compact"}, call : Call, tools : BOOLEAN]

Labels == {"idle", "accepted", "entry", "register", "enqueue", "enqueueSet",
           "canceledEntry", "prepare", "prepareStep", "drainSet", "fold",
           "step", "compact", "sumCheck", "sumPrepare", "sumStream", "sumPop",
           "sumPopSet", "sumDefer", "requeue", "requeueSet", "finish",
           "handoff", "handoffSet", "handoffPublish", "handoffRun", "settle", "unwind",
           "returned", "done", "mark", "clear", "clearSet"}

TypeOK ==
    /\ messageQueue \in Seq(Call)
    /\ activeRequests \in Runners \cup {None}
    /\ acceptedRuns \in Nat /\ acceptSeqGen \in Nat /\ cancelMark \in Nat
    /\ open \in SUBSET Nat
    /\ mu \in Actors \cup {None}
    /\ pc \in [Actors -> Labels]
    /\ cur \in [Runners -> Call]
    /\ stack \in [Runners -> Seq(Frame)]
    /\ seen \in [Actors -> Seq(Call)]
    /\ ctxDone \in [Runners -> BOOLEAN]
    /\ marking \in [Cancels -> Nat]
    /\ ret \in [Runners -> Results]
    /\ latest \in [Prompts -> Outcomes]
    /\ published \in [Prompts -> Nat]
    /\ attempts \in [Runners -> Nat]
    /\ errors \in Nat /\ compactions \in Nat
    /\ covered \in SUBSET Prompts
    /\ struck \in SUBSET Prompts
    /\ orphaned \in BOOLEAN

-----------------------------------------------------------------------------
(* State helpers. *)

Goto(g, label) == pc' = [pc EXCEPT ![g] = label]

(* An in-process call, or the call of a prompt with accept sequence n. *)
NewCall(p, n) == [id |-> p, acceptSeq |-> 0, hook |-> TRUE, accepted |-> n]
NoCall == NewCall(CHOOSE p \in Prompts : TRUE, 0)

IsSessionBusy == activeRequests # None

(* Mistake: the mark covers every prompt while it is set.                   *)
CanceledAlways(n) == cancelMark > 0

(* Is a call with accept sequence n covered by a pending cancel? *)
CanceledBySeq(n) == cancelMark > 0 /\ (n = 0 \/ n <= cancelMark)

HasRunID(c) == c.id \in WithRunID

(* Mistake: Close is not idempotent.                                        *)
CloseTwice(h) ==
    /\ open' = open \ {h}
    /\ acceptedRuns' = IF acceptedRuns <= 1 THEN 0 ELSE acceptedRuns - 1
    /\ cancelMark' = IF acceptedRuns <= 1 THEN 0 ELSE cancelMark

(* AcceptedRun.Close: the first call for a handle decrements the counter,   *)
(* and the last open handle of the session drops the cancel mark.           *)
Close(h) ==
    IF h \in open
    THEN /\ open' = open \ {h}
         /\ acceptedRuns' = IF acceptedRuns <= 1 THEN 0 ELSE acceptedRuns - 1
         /\ cancelMark' = IF acceptedRuns <= 1 THEN 0 ELSE cancelMark
    ELSE UNCHANGED <<open, acceptedRuns, cancelMark>>

(* A reservation with the next accept sequence. *)
Reserve ==
    /\ acceptedRuns' = acceptedRuns + 1
    /\ acceptSeqGen' = acceptSeqGen + 1
    /\ open' = open \cup {acceptSeqGen + 1}

(* publishRunComplete for the calls in C: to the hook of a call that has    *)
(* one, else to the broker.                                                 *)
PublishRunComplete(C, outcome) ==
    /\ latest' = [p \in Prompts |->
                    IF \E c \in C : c.id = p /\ c.hook THEN outcome ELSE latest[p]]
    /\ published' = [p \in Prompts |->
                    published[p] + IF \E c \in C : c.id = p /\ ~c.hook THEN 1 ELSE 0]

(* Queued calls that leave the queue without running: the ones someone      *)
(* waits for get a cancelled RunComplete.                                   *)
PublishCanceledQueueDrops(C) == PublishRunComplete({c \in C : HasRunID(c)}, "canceled")

(* activeRequests.Set and Del act on the entry whoever registered it. *)
Reregister(g, entry) ==
    /\ activeRequests' = entry
    /\ orphaned' = (orphaned \/ activeRequests \notin {g, None})

DelActive(g) == Reregister(g, None)
SetActive(g) == Reregister(g, g) /\ ctxDone' = [ctxDone EXCEPT ![g] = FALSE]

(* The function runner g executes returns r to its caller. *)
Return(g, r) ==
    /\ ret' = [ret EXCEPT ![g] = r]
    /\ IF stack[g] = <<>>
       THEN Goto(g, "returned") /\ UNCHANGED <<stack, cur>>
       ELSE LET f == Head(stack[g])
            IN  /\ stack' = [stack EXCEPT ![g] = Tail(@)]
                /\ cur' = [cur EXCEPT ![g] = f.call]
                /\ Goto(g, CASE f.kind = "handoff" -> "unwind"
                             [] f.kind = "summarize" -> "sumDefer"
                             [] f.kind = "compact" /\ r = "nil" ->
                                    IF f.tools THEN "requeue" ELSE "finish"
                             [] OTHER -> "settle")

(* Runner g suspends its call and goes to label in a function it calls. *)
Push(g, kind, tools, label) ==
    /\ stack' = [stack EXCEPT ![g] =
                    <<[kind |-> kind, call |-> cur[g], tools |-> tools]>> \o @]
    /\ Goto(g, label)

MayFail == errors < MaxErrors /\ errors' = errors + 1

Init ==
    /\ messageQueue = <<>>
    /\ activeRequests = None
    /\ acceptedRuns = 0 /\ acceptSeqGen = 0 /\ cancelMark = 0 /\ open = {}
    /\ mu = None
    /\ pc = [a \in Actors |-> "idle"]
    /\ cur = [g \in Runners |-> NoCall]
    /\ stack = [g \in Runners |-> <<>>]
    /\ seen = [a \in Actors |-> <<>>]
    /\ ctxDone = [g \in Runners |-> FALSE]
    /\ marking = [c \in Cancels |-> 0]
    /\ ret = [g \in Runners |-> "nil"]
    /\ latest = [p \in Prompts |-> "none"]
    /\ published = [p \in Prompts |-> 0]
    /\ attempts = [g \in Runners |-> 0]
    /\ errors = 0 /\ compactions = 0
    /\ covered = {} /\ struck = {} /\ orphaned = FALSE

-----------------------------------------------------------------------------
(* The caller of Run: backend.SendMessage, runAgent and coordinator.run.    *)

(* A prompt is submitted, with an accept reservation unless in-process. *)
BeginAccepted(p) ==
    /\ pc[p] = "idle"
    /\ Goto(p, "accepted")
    /\ IF p \in Local
       THEN /\ cur' = [cur EXCEPT ![p] = NewCall(p, 0)]
            /\ UNCHANGED <<acceptedRuns, acceptSeqGen, open>>
       ELSE /\ cur' = [cur EXCEPT ![p] = NewCall(p, acceptSeqGen + 1)]
            /\ Reserve
    /\ UNCHANGED <<messageQueue, activeRequests, cancelMark, mu, stack, seen,
                   ctxDone, ret, otherVars>>

(* coordinator.run calls Run, a second time when the first was unauthorized. *)
CallRun(p) ==
    /\ \/ pc[p] = "accepted"
       \/ pc[p] = "returned" /\ ret[p] = "provider"
    /\ attempts[p] < MaxAttempts
    /\ attempts' = [attempts EXCEPT ![p] = @ + 1]
    /\ Goto(p, "entry")
    /\ UNCHANGED <<agentVars, cur, stack, seen, ctxDone, ret, eventVars,
                   errors, compactions, ghostVars>>

(* Mistake: runAgent leaves the release to Run. *)
RunAgentKeepsHandle(p) ==
    /\ \/ pc[p] = "accepted" /\ MayFail /\ ret' = [ret EXCEPT ![p] = "error"]
       \/ pc[p] = "returned" /\ UNCHANGED <<errors, ret>>
    /\ Goto(p, "done")
    /\ UNCHANGED <<agentVars, cur, stack, seen, ctxDone, eventVars, attempts,
                   compactions, ghostVars>>

(* runAgent returns, after Run or after a failure that came before it; its  *)
(* deferred accept.Close releases what Run has not released.                *)
RunAgentReturns(p) ==
    /\ \/ pc[p] = "accepted" /\ MayFail /\ ret' = [ret EXCEPT ![p] = "error"]
       \/ pc[p] = "returned" /\ UNCHANGED <<errors, ret>>
    /\ Goto(p, "done")
    /\ Close(cur[p].accepted)
    /\ UNCHANGED <<messageQueue, activeRequests, acceptSeqGen, mu, cur, stack,
                   seen, ctxDone, eventVars, attempts, compactions, ghostVars>>

-----------------------------------------------------------------------------
(* Run, from its entry to the active registration. *)

(* The three outcomes of the accepted dispatch, under dispatchMu. *)
AtDispatch(g) == pc[g] = "entry" /\ cur[g].accepted # 0 /\ mu = None

EnterCanceled(g) ==
    /\ AtDispatch(g)
    /\ CanceledBySeq(cur[g].accepted)
    /\ Close(cur[g].accepted)
    /\ Goto(g, "canceledEntry")
    /\ struck' = struck \cup {cur[g].id}
    /\ UNCHANGED <<messageQueue, activeRequests, acceptSeqGen, mu, cur, stack,
                   seen, ctxDone, ret, eventVars, boundVars, covered,
                   orphaned>>

EnterBusy(g) ==
    /\ AtDispatch(g)
    /\ ~CanceledBySeq(cur[g].accepted)
    /\ IsSessionBusy
    /\ mu' = g
    /\ Goto(g, "enqueue")
    /\ UNCHANGED <<messageQueue, activeRequests, acceptVars, cur, stack, seen,
                   ctxDone, ret, otherVars>>

(* Mistake: the lock is released between the test and the registration. *)
EnterIdleUnlocks(g) ==
    /\ AtDispatch(g)
    /\ ~CanceledBySeq(cur[g].accepted)
    /\ ~IsSessionBusy
    /\ Goto(g, "register")
    /\ UNCHANGED <<messageQueue, activeRequests, acceptVars, mu, cur, stack, seen,
                   ctxDone, ret, otherVars>>

EnterIdle(g) ==
    /\ AtDispatch(g)
    /\ ~CanceledBySeq(cur[g].accepted)
    /\ ~IsSessionBusy
    /\ mu' = g
    /\ Goto(g, "register")
    /\ UNCHANGED <<messageQueue, activeRequests, acceptVars, cur, stack, seen,
                   ctxDone, ret, otherVars>>

Register(g) ==
    /\ pc[g] = "register"
    /\ SetActive(g)
    /\ Close(cur[g].accepted)
    /\ mu' = None
    /\ Goto(g, "prepare")
    /\ UNCHANGED <<messageQueue, acceptSeqGen, cur, stack, seen, ret,
                   eventVars, boundVars, covered, struck>>

(* The in-process path tests the session without the lock. *)
EnterLocal(g) ==
    /\ pc[g] = "entry" /\ cur[g].accepted = 0
    /\ Goto(g, IF IsSessionBusy THEN "enqueue" ELSE "prepare")
    /\ UNCHANGED <<agentVars, cur, stack, seen, ctxDone, ret, otherVars>>

(* enqueueCall reads the queue, then writes it with the call appended. *)
Enqueue(g) ==
    /\ pc[g] = "enqueue"
    /\ seen' = [seen EXCEPT ![g] = messageQueue]
    /\ Goto(g, "enqueueSet")
    /\ UNCHANGED <<agentVars, cur, stack, ctxDone, ret, otherVars>>

EnqueueCall(c) == [c EXCEPT !.acceptSeq = IF c.accepted # 0 THEN c.accepted ELSE @,
                            !.hook = FALSE, !.accepted = 0]

EnqueueSet(g) ==
    /\ pc[g] = "enqueueSet"
    /\ messageQueue' = Append(seen[g], EnqueueCall(cur[g]))
    /\ Close(cur[g].accepted)
    /\ mu' = IF mu = g THEN None ELSE mu
    /\ Return(g, "nil")
    /\ UNCHANGED <<activeRequests, acceptSeqGen, seen, ctxDone, otherVars>>

(* Cancel-on-entry persists the cancelled turn, which may fail, and         *)
(* publishes its RunComplete.                                               *)
CanceledEntry(g) ==
    /\ pc[g] = "canceledEntry"
    /\ PublishRunComplete({cur[g]}, "canceled")
    /\ \/ Return(g, "nil") /\ UNCHANGED errors
       \/ MayFail /\ Return(g, "error")
    /\ UNCHANGED <<agentVars, seen, ctxDone, attempts, compactions, ghostVars>>

(* Run reads the session and creates the user message; a failure returns    *)
(* before the deferred RunComplete is installed.  The in-process path       *)
(* registers the run only now.                                              *)
Prepare(g) ==
    /\ pc[g] = "prepare"
    /\ IF cur[g].accepted = 0 THEN SetActive(g)
                              ELSE UNCHANGED <<activeRequests, ctxDone, orphaned>>
    /\ Goto(g, "prepareStep")
    /\ UNCHANGED <<messageQueue, acceptVars, mu, cur, stack, seen, ret,
                   eventVars, boundVars, covered, struck>>

PrepareFails(g) ==
    /\ pc[g] = "prepare"
    /\ MayFail
    /\ IF cur[g].accepted = 0
       THEN Return(g, "error")
       ELSE /\ Goto(g, "unwind")
            /\ ret' = [ret EXCEPT ![g] = "error"]
            /\ UNCHANGED <<cur, stack>>
    /\ UNCHANGED <<agentVars, seen, ctxDone, eventVars, attempts, compactions,
                   ghostVars>>

-----------------------------------------------------------------------------
(* The stream: PrepareStep drains the queue, then the model is called. *)

DrainQueue(g) ==
    /\ pc[g] = "prepareStep" /\ mu = None
    /\ mu' = g
    /\ seen' = [seen EXCEPT ![g] = messageQueue]
    /\ Goto(g, "drainSet")
    /\ UNCHANGED <<messageQueue, activeRequests, acceptVars, cur, stack,
                   ctxDone, ret, otherVars>>

(* Mistake: calls with a RunID are folded like the others. *)
DrainAll(g) ==
    /\ pc[g] = "drainSet"
    /\ messageQueue' = <<>>
    /\ mu' = None
    /\ Goto(g, "fold")
    /\ UNCHANGED <<activeRequests, acceptVars, cur, stack, seen, ctxDone, ret,
                   otherVars>>

(* Covered calls are dropped, calls with a RunID stay, the others are       *)
(* folded into this step.                                                   *)
DrainSet(g) ==
    LET Dropped(c) == CanceledBySeq(c.acceptSeq)
        Kept(c)    == ~Dropped(c) /\ HasRunID(c)
        Folded(c)  == ~Dropped(c) /\ ~HasRunID(c)
        drops      == Elems(seen[g], Dropped)
    IN  /\ pc[g] = "drainSet"
        /\ messageQueue' = Keep(seen[g], Kept)
        /\ seen' = [seen EXCEPT ![g] = Keep(seen[g], Folded)]
        /\ mu' = None
        /\ PublishCanceledQueueDrops(drops)
        /\ struck' = struck \cup {c.id : c \in drops}
        /\ Goto(g, "fold")
        /\ UNCHANGED <<activeRequests, acceptVars, cur, stack, ctxDone, ret,
                       boundVars, covered, orphaned>>

(* User messages of the folded calls and the assistant message are created  *)
(* under the run context, so a cancelled run fails here.                    *)
Fold(g) ==
    /\ pc[g] = "fold"
    /\ ~ctxDone[g]
    /\ seen' = [seen EXCEPT ![g] = <<>>]
    /\ Goto(g, "step")
    /\ UNCHANGED <<agentVars, cur, stack, ctxDone, ret, otherVars>>

(* The stream ends with an error: Run finishes the assistant message and    *)
(* the tool calls it left open, which may fail too, and returns the error.  *)
StreamFails(g) ==
    /\ pc[g] \in {"prepareStep", "fold", "step"}
    /\ \/ /\ ctxDone[g]
          /\ ret' = [ret EXCEPT ![g] = "canceled"]
          /\ UNCHANGED errors
       \/ /\ MayFail
          /\ ret' = [ret EXCEPT ![g] = IF pc[g] = "step" /\ ~ctxDone[g]
                                      THEN "provider" ELSE "error"]
    /\ seen' = [seen EXCEPT ![g] = <<>>]
    /\ Goto(g, "settle")
    /\ UNCHANGED <<agentVars, cur, stack, ctxDone, eventVars, attempts,
                   compactions, ghostVars>>

(* OnStepFinish.  What the stream's callbacks write on the way is content  *)
(* of messages, and the row this saves is the session's: MessageService    *)
(* and Sessions follow them.                                               *)
NextStep(g) ==
    /\ pc[g] = "step"
    /\ Goto(g, "prepareStep")
    /\ UNCHANGED <<agentVars, cur, stack, seen, ctxDone, ret, otherVars>>

StreamEnds(g) ==
    /\ pc[g] = "step"
    /\ ret' = [ret EXCEPT ![g] = "nil"]
    /\ Goto(g, "finish")
    /\ UNCHANGED <<agentVars, cur, stack, seen, ctxDone, otherVars>>

(* StopWhen: the context window is nearly full.  Run deregisters itself and *)
(* calls Summarize; tools records whether the turn had tool calls left.     *)
Compact(g) ==
    /\ pc[g] = "step"
    /\ compactions < MaxCompactions
    /\ compactions' = compactions + 1
    /\ DelActive(g)
    /\ \E tools \in BOOLEAN : Push(g, "compact", tools, "sumCheck")
    /\ UNCHANGED <<messageQueue, acceptVars, mu, cur, seen, ctxDone, ret,
                   eventVars, attempts, errors, covered, struck>>

-----------------------------------------------------------------------------
(* Summarize, called by a run whose context is full or by a user.           *)

UserSummarize(s) ==
    /\ pc[s] = "idle" \/ (pc[s] = "returned" /\ ret[s] = "provider")
    /\ attempts[s] < MaxAttempts
    /\ attempts' = [attempts EXCEPT ![s] = @ + 1]
    /\ Goto(s, "sumCheck")
    /\ UNCHANGED <<agentVars, cur, stack, seen, ctxDone, ret, eventVars,
                   errors, compactions, ghostVars>>

SummarizeCheck(g) ==
    /\ pc[g] = "sumCheck"
    /\ IF IsSessionBusy
       THEN Return(g, "error")
       ELSE Goto(g, "sumPrepare") /\ UNCHANGED <<cur, stack, ret>>
    /\ UNCHANGED <<agentVars, seen, ctxDone, otherVars>>

(* The session and its messages are read, which fails in a run that was     *)
(* cancelled before; without messages there is nothing to summarize.  Then  *)
(* the summary registers itself.                                            *)
SummarizeRegister(g) ==
    /\ pc[g] = "sumPrepare"
    /\ stack[g] = <<>> \/ ~ctxDone[g]
    /\ SetActive(g)
    /\ Goto(g, "sumStream")
    /\ UNCHANGED <<messageQueue, acceptVars, mu, cur, stack, seen, ret,
                   eventVars, boundVars, covered, struck>>

SummarizeSkips(g) ==
    /\ pc[g] = "sumPrepare"
    /\ \/ MayFail /\ Return(g, "error")
       \/ stack[g] = <<>> /\ Return(g, "nil") /\ UNCHANGED errors
       \/ stack[g] # <<>> /\ ctxDone[g] /\ Return(g, "canceled") /\ UNCHANGED errors
    /\ UNCHANGED <<agentVars, seen, ctxDone, eventVars, attempts, compactions,
                   ghostVars>>

(* The summary is written and the session deregistered. *)
SummaryEnds(g) ==
    /\ pc[g] = "sumStream"
    /\ ~ctxDone[g]
    /\ DelActive(g)
    /\ Goto(g, "sumPop")
    /\ UNCHANGED <<messageQueue, acceptVars, mu, cur, stack, seen, ctxDone,
                   ret, eventVars, boundVars, covered, struck>>

(* A cancelled summary is deleted and is no error to the caller. *)
SummaryFails(g) ==
    /\ pc[g] = "sumStream"
    /\ \/ /\ ctxDone[g]
          /\ ret' = [ret EXCEPT ![g] = "nil"]
          /\ UNCHANGED errors
       \/ /\ MayFail
          /\ ret' = [ret EXCEPT ![g] = IF ctxDone[g] THEN "error" ELSE "provider"]
    /\ Goto(g, "sumDefer")
    /\ UNCHANGED <<agentVars, cur, stack, seen, ctxDone, eventVars, attempts,
                   compactions, ghostVars>>

(* The queue is popped without the lock and the popped call is run. *)
SummaryPop(g) ==
    /\ pc[g] = "sumPop"
    /\ seen' = [seen EXCEPT ![g] = messageQueue]
    /\ ret' = [ret EXCEPT ![g] = "nil"]
    /\ Goto(g, IF messageQueue = <<>> THEN "sumDefer" ELSE "sumPopSet")
    /\ UNCHANGED <<agentVars, cur, stack, ctxDone, otherVars>>

SummaryPopSet(g) ==
    /\ pc[g] = "sumPopSet"
    /\ messageQueue' = Tail(seen[g])
    /\ Push(g, "summarize", FALSE, "entry")
    /\ cur' = [cur EXCEPT ![g] = Head(seen[g])]
    /\ seen' = [seen EXCEPT ![g] = <<>>]
    /\ UNCHANGED <<activeRequests, acceptVars, mu, ctxDone, ret, otherVars>>

(* The deferred activeRequests.Del of Summarize. *)
SummarizeReturns(g) ==
    /\ pc[g] = "sumDefer"
    /\ DelActive(g)
    /\ Return(g, ret[g])
    /\ UNCHANGED <<messageQueue, acceptVars, mu, seen, ctxDone, eventVars,
                   boundVars, covered, struck>>

(* A run that was not done queues itself behind its own summary. *)
Requeue(g) ==
    /\ pc[g] = "requeue"
    /\ seen' = [seen EXCEPT ![g] = messageQueue]
    /\ Goto(g, "requeueSet")
    /\ UNCHANGED <<agentVars, cur, stack, ctxDone, ret, otherVars>>

RequeueSet(g) ==
    /\ pc[g] = "requeueSet"
    /\ messageQueue' = Append(seen[g], cur[g])
    /\ Goto(g, "finish")
    /\ UNCHANGED <<activeRequests, acceptVars, mu, cur, stack, seen, ctxDone,
                   ret, otherVars>>

-----------------------------------------------------------------------------
(* The end of Run: deregistration and the handoff to the next queued call.  *)

(* Mistake: Run returns without the handoff. *)
FinishOnly(g) ==
    /\ pc[g] = "finish"
    /\ DelActive(g)
    /\ ret' = [ret EXCEPT ![g] = "nil"]
    /\ Goto(g, "settle")
    /\ UNCHANGED <<messageQueue, acceptVars, mu, cur, stack, seen, ctxDone,
                   eventVars, boundVars, covered, struck>>

FinishRun(g) ==
    /\ pc[g] = "finish"
    /\ DelActive(g)
    /\ ret' = [ret EXCEPT ![g] = "nil"]
    /\ Goto(g, "handoff")
    /\ UNCHANGED <<messageQueue, acceptVars, mu, cur, stack, seen, ctxDone,
                   eventVars, boundVars, covered, struck>>

Handoff(g) ==
    /\ pc[g] = "handoff" /\ mu = None
    /\ mu' = g
    /\ seen' = [seen EXCEPT ![g] = messageQueue]
    /\ Goto(g, "handoffSet")
    /\ UNCHANGED <<messageQueue, activeRequests, acceptVars, cur, stack,
                   ctxDone, ret, otherVars>>

(* The queued calls g read that no pending cancel covers. *)
Uncanceled(g) ==
    LET Test(c) == ~CanceledBySeq(c.acceptSeq) IN Keep(seen[g], Test)

HandoffDrops(g) ==
    LET Test(c) == CanceledBySeq(c.acceptSeq) IN Elems(seen[g], Test)

HandoffEmpty(g) ==
    /\ pc[g] = "handoffSet"
    /\ Uncanceled(g) = <<>>
    /\ messageQueue' = <<>>
    /\ cancelMark' = IF acceptedRuns = 0 THEN 0 ELSE cancelMark
    /\ mu' = None
    /\ PublishCanceledQueueDrops(HandoffDrops(g))
    /\ struck' = struck \cup {c.id : c \in HandoffDrops(g)}
    /\ seen' = [seen EXCEPT ![g] = <<>>]
    /\ Goto(g, "settle")
    /\ UNCHANGED <<activeRequests, acceptedRuns, acceptSeqGen, open, cur,
                   stack, ctxDone, ret, boundVars, covered, orphaned>>

(* Mistake: the call handed the session stays queued. *)
HandoffPeek(g) ==
    /\ pc[g] = "handoffSet"
    /\ Uncanceled(g) # <<>>
    /\ seen' = [seen EXCEPT ![g] = <<[Head(Uncanceled(g)) EXCEPT !.accepted = acceptSeqGen + 1]>>]
    /\ Goto(g, "handoffPublish")
    /\ Reserve
    /\ mu' = None
    /\ UNCHANGED <<messageQueue, activeRequests, cancelMark, cur, stack,
                   ctxDone, ret, otherVars>>

(* The first queued call gets a fresh reservation before the lock is        *)
(* dropped, and the run publishes its own RunComplete unless its own        *)
(* continuation is among the queued calls.                                  *)
HandoffNext(g) ==
    /\ pc[g] = "handoffSet"
    /\ Uncanceled(g) # <<>>
    /\ LET kept == Uncanceled(g)
           owes == HasRunID(cur[g]) /\ \A i \in 1..Len(kept) : kept[i].id # cur[g].id
       IN  /\ messageQueue' = Tail(kept)
           /\ seen' = [seen EXCEPT ![g] = <<[Head(kept) EXCEPT !.accepted = acceptSeqGen + 1]>>]
           /\ Goto(g, IF owes THEN "handoffPublish" ELSE "handoffRun")
    /\ Reserve
    /\ mu' = None
    /\ PublishCanceledQueueDrops(HandoffDrops(g))
    /\ struck' = struck \cup {c.id : c \in HandoffDrops(g)}
    /\ UNCHANGED <<activeRequests, cancelMark, cur, stack, ctxDone, ret,
                   boundVars, covered, orphaned>>

HandoffPublish(g) ==
    /\ pc[g] = "handoffPublish"
    /\ PublishRunComplete({cur[g]}, "ok")
    /\ Goto(g, "handoffRun")
    /\ UNCHANGED <<agentVars, cur, stack, seen, ctxDone, ret, boundVars,
                   ghostVars>>

HandoffRun(g) ==
    /\ pc[g] = "handoffRun"
    /\ Push(g, "handoff", FALSE, "entry")
    /\ cur' = [cur EXCEPT ![g] = Head(seen[g])]
    /\ seen' = [seen EXCEPT ![g] = <<>>]
    /\ UNCHANGED <<agentVars, ctxDone, ret, otherVars>>

(* Run's deferred functions: flush and publish, then activeRequests.Del,    *)
(* which also runs for every run that handed off, when its callee returns.  *)
Settle(g) ==
    /\ pc[g] = "settle"
    /\ PublishRunComplete({cur[g]}, CASE ret[g] = "nil" -> "ok"
                                      [] ret[g] = "canceled" -> "canceled"
                                      [] OTHER -> "error")
    /\ Goto(g, "unwind")
    /\ UNCHANGED <<agentVars, cur, stack, seen, ctxDone, ret, boundVars,
                   ghostVars>>

Unwind(g) ==
    /\ pc[g] = "unwind"
    /\ DelActive(g)
    /\ Return(g, ret[g])
    /\ UNCHANGED <<messageQueue, acceptVars, mu, seen, ctxDone, eventVars,
                   boundVars, covered, struck>>

-----------------------------------------------------------------------------
(* Cancel and ClearQueue. *)

(* Prompts submitted and not settled: held by a runner, taken from the      *)
(* queue by a handoff, queued, waiting for the summary of their run, or     *)
(* still to be retried.                                                     *)
Holding(g) == pc[g] \in
    {"accepted", "entry", "register", "enqueue", "enqueueSet", "canceledEntry",
     "prepare", "prepareStep", "drainSet", "fold", "step", "requeue",
     "requeueSet", "finish", "handoff", "handoffSet"}
HandedOff(g) == pc[g] \in {"handoffPublish", "handoffRun"}
MayRetry(p) == /\ pc[p] \notin {"idle", "done"}
               /\ attempts[p] < MaxAttempts
               /\ pc[p] = "returned" => ret[p] = "provider"

AwaitsSummary(g) ==
    {stack[g][i].call.id : i \in {k \in 1..Len(stack[g]) : stack[g][k].kind = "compact"}}

InFlight ==
    {cur[g].id : g \in {h \in Runners : Holding(h)}}
    \cup {Head(seen[g]).id : g \in {h \in Runners : HandedOff(h)}}
    \cup {messageQueue[i].id : i \in 1..Len(messageQueue)}
    \cup (UNION {AwaitsSummary(g) : g \in Runners})
    \cup {p \in Prompts : MayRetry(p)}

(* Cancel takes the lock, calls the registered cancel func, and reads the   *)
(* accept counter and the last accept sequence ...                          *)
Cancel(c) ==
    /\ pc[c] = "idle" /\ mu = None
    /\ mu' = c
    /\ ctxDone' = [g \in Runners |-> ctxDone[g] \/ activeRequests = g]
    /\ marking' = [marking EXCEPT ![c] = IF acceptedRuns > 0 THEN acceptSeqGen ELSE 0]
    /\ covered' = covered \cup InFlight
    /\ Goto(c, "mark")
    /\ UNCHANGED <<messageQueue, activeRequests, acceptedRuns, acceptSeqGen,
                   cancelMark, open, cur, stack, seen, ret, eventVars,
                   boundVars, struck, orphaned>>

(* QueuedPrompts(sessionID) > 0 decides whether there is a queue to clear. *)
IfQueued(c) == Goto(c, IF messageQueue # <<>> THEN "clear" ELSE "done")

(* ... then raises the mark to that sequence when a prompt was accepted.    *)
CancelRaises(c) ==
    /\ pc[c] = "mark"
    /\ cancelMark' = IF marking[c] > cancelMark THEN marking[c] ELSE cancelMark
    /\ IfQueued(c)
    /\ mu' = IF messageQueue # <<>> THEN mu ELSE None
    /\ UNCHANGED <<messageQueue, activeRequests, acceptedRuns, acceptSeqGen,
                   open, cur, stack, seen, ctxDone, ret, marking, otherVars>>

ClearQueue(c) ==
    /\ pc[c] = "idle"
    /\ IfQueued(c)
    /\ UNCHANGED <<agentVars, cur, stack, seen, ctxDone, ret, otherVars>>

(* clearQueueAndNotify: read the queue, then delete it.  Cancel holds the   *)
(* lock meanwhile, ClearQueue does not.                                     *)
ClearGet(c) ==
    /\ pc[c] = "clear"
    /\ seen' = [seen EXCEPT ![c] = messageQueue]
    /\ Goto(c, "clearSet")
    /\ UNCHANGED <<agentVars, cur, stack, ctxDone, ret, otherVars>>

ClearSet(c) ==
    /\ pc[c] = "clearSet"
    /\ messageQueue' = <<>>
    /\ mu' = IF mu = c THEN None ELSE mu
    /\ PublishCanceledQueueDrops({seen[c][i] : i \in 1..Len(seen[c])})
    /\ Goto(c, "done")
    /\ UNCHANGED <<activeRequests, acceptVars, cur, stack, seen, ctxDone, ret,
                   boundVars, ghostVars>>

-----------------------------------------------------------------------------
Prompting(p) == BeginAccepted(p) \/ CallRun(p) \/ RunAgentReturns(p)

Dispatching(g) ==
    \/ EnterCanceled(g) \/ EnterBusy(g) \/ EnterIdle(g) \/ Register(g)
    \/ EnterLocal(g) \/ Enqueue(g) \/ EnqueueSet(g) \/ CanceledEntry(g)
    \/ Prepare(g) \/ PrepareFails(g)

Streaming(g) ==
    \/ DrainQueue(g) \/ DrainSet(g) \/ Fold(g) \/ StreamFails(g) \/ NextStep(g)
    \/ StreamEnds(g) \/ Compact(g)

Summarizing(g) ==
    \/ SummarizeCheck(g) \/ SummarizeRegister(g) \/ SummarizeSkips(g)
    \/ SummaryEnds(g) \/ SummaryFails(g) \/ SummaryPop(g) \/ SummaryPopSet(g)
    \/ SummarizeReturns(g) \/ Requeue(g) \/ RequeueSet(g)

Finishing(g) ==
    \/ FinishRun(g) \/ Handoff(g) \/ HandoffEmpty(g) \/ HandoffNext(g)
    \/ HandoffPublish(g) \/ HandoffRun(g) \/ Settle(g) \/ Unwind(g)

Run(g) == Dispatching(g) \/ Streaming(g) \/ Summarizing(g) \/ Finishing(g)

(* Everything submitted has come to an end. *)
Terminated == (\A a \in Actors : pc[a] \in {"returned", "done"}) /\ UNCHANGED vars

Next ==
    \/ \E p \in Prompts : Prompting(p) /\ UNCHANGED marking
    \/ \E s \in Summaries : UserSummarize(s) /\ UNCHANGED marking
    \/ \E g \in Runners : Run(g) /\ UNCHANGED marking
    \/ \E c \in Cancels : Cancel(c) \/ CancelRaises(c)
    \/ \E c \in Clears : ClearQueue(c) /\ UNCHANGED marking
    \/ \E c \in Cancels \cup Clears : (ClearGet(c) \/ ClearSet(c)) /\ UNCHANGED marking
    \/ Terminated

Spec == Init /\ [][Next]_vars

(* Goroutines are scheduled, so a runner's next step is taken once it can   *)
(* be; a stream does not go through steps forever; coordinator.run and      *)
(* runAgent go on once they have been started.  Users need not do anything. *)
Advance(g) == Dispatching(g) \/ DrainQueue(g) \/ DrainSet(g) \/ Fold(g)
              \/ Summarizing(g) \/ Finishing(g)
Fairness ==
    /\ \A g \in Runners : /\ WF_vars(Advance(g) /\ UNCHANGED marking)
                          /\ SF_vars((StreamEnds(g) \/ StreamFails(g)) /\ UNCHANGED marking)
    /\ \A p \in Prompts : /\ WF_vars(CallRun(p) /\ UNCHANGED marking)
                          /\ WF_vars(pc[p] = "returned" /\ RunAgentReturns(p)
                                       /\ UNCHANGED marking)
    /\ \A c \in Cancels : WF_vars(CancelRaises(c))
    /\ \A c \in Cancels \cup Clears : WF_vars((ClearGet(c) \/ ClearSet(c)) /\ UNCHANGED marking)
FairSpec == Spec /\ Fairness

-----------------------------------------------------------------------------
(* Properties. *)

(* The accept counter is the number of reservations not closed, whatever    *)
(* the interleaving of Run's Close with runAgent's deferred one.            *)
HandleAccounting ==
    /\ acceptedRuns = Cardinality(open)
    /\ open \subseteq 1..acceptSeqGen

Streams(g) == pc[g] \in {"prepareStep", "drainSet", "fold", "step"}

(* A session has one active run: no two runners stream at the same time.    *)
SingleActive == \A g, h \in Runners : Streams(g) /\ Streams(h) => g = h

(* Prompts dispatched with an accept handle test the session and register   *)
(* under one lock: none of them replaces the cancel func of another run.    *)
NeverReplaces ==
    [][\A g \in Runners : activeRequests' = g => activeRequests \in {g, None}]_vars

(* A Cancel reaches every prompt in flight: afterwards none of them is      *)
(* streamed under a context that was not cancelled.                         *)
CancelReaches ==
    \A g \in Runners : pc[g] = "step" /\ cur[g].id \in covered => ctxDone[g]

(* The two hold as long as no runner removes or replaces the activeRequests *)
(* entry of another, which the deferred Del of a finished run can do.       *)
SingleActiveUnlessOrphaned == orphaned \/ SingleActive
CancelReachesUnlessOrphaned == orphaned \/ CancelReaches

(* What every interleaving keeps: the state is well typed (nobody pops an   *)
(* empty queue), reservations are counted and one run is active.            *)
DispatchSound == TypeOK /\ HandleAccounting /\ SingleActiveUnlessOrphaned

(* The mark left by a Cancel never ends a prompt that was submitted later.  *)
NoPoison == struck \subseteq covered

(* A Cancel stops all that was submitted before it and nothing that comes   *)
(* after (the cancel mark of agent.go:464-480, 1823-1876).                  *)
CancelIsExact == CancelReachesUnlessOrphaned /\ NoPoison

(* The agent publishes at most one RunComplete for a submitted prompt.      *)
OneRunComplete == \A p \in Prompts : published[p] <= 1

(* A prompt someone waits for is answered: with a RunComplete, or with an   *)
(* error returned to the caller that submitted it.                          *)
Answered(p) ==
    published[p] > 0 \/ latest[p] # "none" \/ (pc[p] = "done" /\ IsError(ret[p]))
EveryPromptAnswered == \A p \in WithRunID : pc[p] = "accepted" ~> Answered(p)

(* Every accept reservation is released, on every path out of Run.          *)
ReservationsReleased == []<>(open = {})

(* A run that handed the session off or ended leaves no call behind that    *)
(* nobody will look at: some runner is active or about to look.             *)
NothingStranded ==
    messageQueue # <<>> =>
        \E g \in Runners : pc[g] \notin {"idle", "accepted", "settle", "unwind",
                                         "returned", "done"}
=============================================================================
