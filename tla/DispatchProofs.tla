--------------------------- MODULE DispatchProofs ---------------------------
(***************************************************************************)
(* What the dispatch of sessionAgent promises whoever submits, cancels or   *)
(* waits for a prompt, for any number of prompts and Cancels: no queued     *)
(* prompt is forgotten, a Cancel stops what came before it and nothing      *)
(* else, and a waiter is told once, by the agent or by the coordinator.     *)
(*                                                                         *)
(* Every theorem is about prompts submitted over HTTP (Remote) and adds to  *)
(* AInv and RemoteInv the invariant it needs: TendInv, who looks at the     *)
(* queue; PoisonInv, which accept sequence each prompt is known by; OnceInv,*)
(* what a cancelled prompt can still do; TokenInv, where the one            *)
(* RunComplete of a prompt can come from; AnswerInv and DeliverInv, what    *)
(* its caller was told.  For each, the actions of a runner have one effect  *)
(* on the invariant (TendEffect, PoisonEffect, ...), which a lemma derives   *)
(* from the action and another uses.                                       *)
(***************************************************************************)
EXTENDS SessionAgentProofs, Coordinator

-----------------------------------------------------------------------------
(* Nothing is stranded: without cancels and failures every run ends in its  *)
(* handoff, and whoever queues a prompt does it under the lock while        *)
(* another run has its handoff before it.                                   *)
Undisturbed == Remote /\ Cancels = {} /\ MaxErrors = 0

Tending == {"prepare", "prepareStep", "drainSet", "fold", "step", "finish"}
Looking == Tending \cup {"entry", "register", "enqueue", "enqueueSet", "handoff",
                         "handoffSet", "handoffPublish", "handoffRun"}
Queueing(g) == pc[g] \in {"enqueue", "enqueueSet"}

TendInv ==
    /\ cancelMark = 0
    /\ \A g \in Runners : ~ctxDone[g] /\ pc[g] # "canceledEntry"
    /\ \A g \in Runners : Queueing(g) =>
          mu = g /\ \E h \in Runners : pc[h] \in Tending \cup {"handoff"}
    /\ \A g \in Runners : activeRequests = g => pc[g] \in Tending
    /\ messageQueue # <<>> => \E g \in Runners : pc[g] \in Looking

(* What a step of runner g does to what TendInv is about. *)
TendEffect(g) ==
    /\ cancelMark' = 0
    /\ \A h \in Runners : ~ctxDone'[h]
    /\ pc'[g] # "canceledEntry"
    /\ Queueing(g)' => \/ Queueing(g) /\ mu' = mu
                       \/ pc[g] = "entry" /\ mu' = g /\ IsSessionBusy
    /\ activeRequests' \in {g, activeRequests, None}
    /\ activeRequests' = g => pc'[g] \in Tending
    /\ pc[g] \in Tending \cup {"handoff"} =>
          pc'[g] \in Tending \cup {"handoff"} \/ mu = None
    /\ messageQueue' # <<>> => \/ pc'[g] \in Looking
                               \/ pc[g] = "enqueueSet"
                               \/ messageQueue # <<>> /\ pc[g] \notin Looking

LEMMA CloseMark ==
    ASSUME TypeOK, NEW h, Close(h)
    PROVE  cancelMark' \in {cancelMark, 0}
BY DEF Close

LEMMA NoFailures == Undisturbed /\ TypeOK => ~MayFail
BY DEF Undisturbed, TypeOK, MayFail

(* Under Remote a run returns to the caller of Run or to a run that handed  *)
(* the session off, which goes on to unwind.                                *)
LEMMA ReturnsTo ==
    ASSUME TypeOK, NEW g \in Runners, Accepted(g), NEW r \in Results, Return(g, r)
    PROVE  pc'[g] \in {"returned", "unwind"}
<1> USE ActorTypes, Functional
<1>1. CASE stack[g] = <<>>
  BY <1>1 DEF Return, Goto
<1>2. CASE stack[g] # <<>>
  <2>1. stack[g] \in Seq(Frame)
    BY DEF TypeOK
  <2>2. 1 \in 1..Len(stack[g]) /\ Head(stack[g]) = stack[g][1]
    BY <1>2, <2>1
  <2>3. Head(stack[g]).kind = "handoff"
    BY <2>2 DEF Accepted
  <2> QED
    BY <1>2, <2>3 DEF Return, Goto
<1> QED
  BY <1>1, <1>2

LEMMA PromptingTends ==
    ASSUME TypeOK, Undisturbed, TendInv, NEW p \in Prompts, Accepted(p), Prompting(p)
    PROVE  TendEffect(p)
<1> USE ActorTypes, Functional DEF agentVars, acceptVars, localVars, otherVars, eventVars,
        boundVars, ghostVars, Goto, TendEffect, Queueing, Tending, Looking, TendInv
<1>1. CASE BeginAccepted(p)
  BY <1>1 DEF BeginAccepted
<1>2. CASE CallRun(p)
  BY <1>2 DEF CallRun
<1>3. CASE RunAgentReturns(p)
  <2>1. cancelMark' = 0
    BY <1>3, CloseMark DEF RunAgentReturns
  <2> QED
    BY <1>3, <2>1 DEF RunAgentReturns
<1> QED
  BY <1>1, <1>2, <1>3 DEF Prompting

LEMMA DispatchingTends ==
    ASSUME TypeOK, Undisturbed, TendInv, NEW g \in Runners, Accepted(g), Dispatching(g)
    PROVE  TendEffect(g)
<1> USE ActorTypes, Functional DEF agentVars, acceptVars, localVars, otherVars, eventVars,
        boundVars, ghostVars, Goto, TendEffect, Queueing, Tending, Looking, TendInv
<1>0. ~MayFail
  BY NoFailures
<1>1. CASE EnterCanceled(g)
  BY <1>1 DEF EnterCanceled, CanceledBySeq
<1>2. CASE EnterBusy(g)
  BY <1>2 DEF EnterBusy, AtDispatch
<1>3. CASE EnterIdle(g)
  BY <1>3 DEF EnterIdle, AtDispatch, IsSessionBusy
<1>4. CASE Register(g)
  <2>1. cancelMark' = 0
    BY <1>4, CloseMark DEF Register
  <2>2. ctxDone' = [ctxDone EXCEPT ![g] = FALSE] /\ ctxDone \in [Runners -> BOOLEAN]
    BY <1>4 DEF Register, SetActive, TypeOK
  <2>3. \A h \in Runners : ~ctxDone'[h]
    BY <2>2
  <2> QED
    BY <1>4, <2>1, <2>3 DEF Register, SetActive, Reregister
<1>5. CASE EnterLocal(g)
  BY <1>5 DEF EnterLocal, Accepted
<1>6. CASE Enqueue(g)
  BY <1>6 DEF Enqueue
<1>7. CASE EnqueueSet(g)
  <2>1. cancelMark' = 0
    BY <1>7, CloseMark DEF EnqueueSet
  <2>2. pc'[g] \in {"returned", "unwind"}
    BY <1>7, ReturnsTo DEF EnqueueSet, Results
  <2> QED
    BY <1>7, <2>1, <2>2 DEF EnqueueSet
<1>8. ~CanceledEntry(g)
  BY DEF CanceledEntry
<1>9. CASE Prepare(g)
  BY <1>9 DEF Prepare, Accepted
<1>10. ~PrepareFails(g)
  BY <1>0 DEF PrepareFails
<1> QED
  BY <1>1, <1>2, <1>3, <1>4, <1>5, <1>6, <1>7, <1>8, <1>9, <1>10 DEF Dispatching

LEMMA StreamingTends ==
    ASSUME TypeOK, Undisturbed, TendInv, NEW g \in Runners, Accepted(g), Streaming(g)
    PROVE  TendEffect(g)
<1> USE ActorTypes, Functional DEF agentVars, acceptVars, localVars, otherVars, eventVars,
        boundVars, ghostVars, Goto, TendEffect, Queueing, Tending, Looking, TendInv
<1>0. ~MayFail
  BY NoFailures
<1>1. CASE DrainQueue(g)
  BY <1>1 DEF DrainQueue
<1>2. CASE DrainSet(g)
  <2>1. /\ pc[g] = "drainSet" /\ pc' = [pc EXCEPT ![g] = "fold"]
        /\ UNCHANGED <<activeRequests, cancelMark, ctxDone>>
    BY <1>2 DEF DrainSet
  <2> QED
    BY <2>1
<1>3. CASE Fold(g)
  BY <1>3 DEF Fold
<1>4. ~StreamFails(g)
  BY <1>0 DEF StreamFails
<1>5. CASE NextStep(g)
  BY <1>5 DEF NextStep
<1>6. CASE StreamEnds(g)
  BY <1>6 DEF StreamEnds
<1>7. ~Compact(g)
  BY DEF Compact, Remote, Undisturbed, TypeOK
<1> QED
  BY <1>1, <1>2, <1>3, <1>4, <1>5, <1>6, <1>7 DEF Streaming

LEMMA FinishingTends ==
    ASSUME TypeOK, Undisturbed, TendInv, NEW g \in Runners, Accepted(g), Finishing(g)
    PROVE  TendEffect(g)
<1> USE ActorTypes, Functional DEF agentVars, acceptVars, localVars, otherVars, eventVars,
        boundVars, ghostVars, Goto, TendEffect, Queueing, Tending, Looking, TendInv
<1>1. CASE FinishRun(g)
  BY <1>1 DEF FinishRun, DelActive, Reregister
<1>2. CASE Handoff(g)
  BY <1>2 DEF Handoff
<1>3. CASE HandoffEmpty(g)
  <2>1. /\ pc[g] = "handoffSet" /\ pc' = [pc EXCEPT ![g] = "settle"]
        /\ messageQueue' = <<>> /\ cancelMark' = 0
        /\ UNCHANGED <<activeRequests, ctxDone>>
    BY <1>3 DEF HandoffEmpty
  <2> QED
    BY <2>1
<1>4. CASE HandoffNext(g)
  <2>1. PICK l \in {"handoffPublish", "handoffRun"} : pc' = [pc EXCEPT ![g] = l]
    BY <1>4 DEF HandoffNext
  <2>2. pc[g] = "handoffSet" /\ UNCHANGED <<activeRequests, cancelMark, ctxDone>>
    BY <1>4 DEF HandoffNext
  <2> QED
    BY <2>1, <2>2
<1>5. CASE HandoffPublish(g)
  BY <1>5 DEF HandoffPublish
<1>6. CASE HandoffRun(g)
  BY <1>6 DEF HandoffRun, Push
<1>7. CASE Settle(g)
  BY <1>7 DEF Settle
<1>8. CASE Unwind(g)
  <2>1. ret[g] \in Results
    BY DEF TypeOK
  <2>2. pc'[g] \in {"returned", "unwind"}
    BY <1>8, <2>1, ReturnsTo DEF Unwind
  <2> QED
    BY <1>8, <2>2 DEF Unwind, DelActive, Reregister
<1> QED
  BY <1>1, <1>2, <1>3, <1>4, <1>5, <1>6, <1>7, <1>8 DEF Finishing

(* The others see to the queue, or g does. *)
LEMMA TendStep ==
    ASSUME TypeOK, MuInv, TendInv, NEW g \in Runners, Effect(g), TendEffect(g)
    PROVE  TendInv'
<1> USE ActorTypes, Functional
<1>1. \A h \in Runners \ {g} : pc'[h] = pc[h]
  BY DEF Effect
<1>2. (\A h \in Runners : ~ctxDone[h] /\ pc[h] # "canceledEntry")' /\ cancelMark' = 0
  BY <1>1 DEF TendInv, TendEffect
<1>3. ASSUME NEW h \in Runners, Queueing(h)'
      PROVE  mu' = h /\ \E i \in Runners : pc'[i] \in Tending \cup {"handoff"}
  <2>1. CASE h # g
    <3>1. mu = h /\ mu' = h
      BY <1>1, <1>3, <2>1 DEF Queueing, TendInv, Effect
    <3>2. PICK i \in Runners : pc[i] \in Tending \cup {"handoff"}
      BY <1>1, <1>3, <2>1 DEF Queueing, TendInv
    <3>3. mu # None
      BY <3>1
    <3> QED
      BY <1>1, <3>1, <3>2, <3>3 DEF TendEffect
  <2>2. CASE h = g /\ Queueing(g) /\ mu' = mu
    <3>1. PICK i \in Runners : pc[i] \in Tending \cup {"handoff"}
      BY <2>2 DEF TendInv
    <3>2. i # g
      BY <2>2, <3>1 DEF Queueing, Tending
    <3> QED
      BY <1>1, <2>2, <3>1, <3>2 DEF TendInv
  <2>3. CASE h = g /\ pc[g] = "entry" /\ mu' = g /\ IsSessionBusy
    <3>1. PICK i \in Runners : pc[i] \in Tending
      BY <2>3 DEF TendInv, IsSessionBusy, TypeOK
    <3>2. i # g
      BY <2>3, <3>1 DEF Tending
    <3> QED
      BY <1>1, <2>3, <3>1, <3>2
  <2> QED
    BY <1>3, <2>1, <2>2, <2>3 DEF TendEffect
<1>4. ASSUME NEW h \in Runners, activeRequests' = h PROVE pc'[h] \in Tending
  BY <1>1, <1>4 DEF TendInv, TendEffect
<1>5. ASSUME messageQueue' # <<>> PROVE \E h \in Runners : pc'[h] \in Looking
  <2>1. CASE pc[g] = "enqueueSet"
    <3>1. PICK i \in Runners : pc[i] \in Tending \cup {"handoff"}
      BY <2>1 DEF TendInv, Queueing
    <3>2. i # g
      BY <2>1, <3>1 DEF Tending
    <3> QED
      BY <1>1, <3>1, <3>2 DEF Looking
  <2>2. CASE messageQueue # <<>> /\ pc[g] \notin Looking
    BY <1>1, <2>2 DEF TendInv
  <2> QED
    BY <1>5, <2>1, <2>2 DEF TendEffect
<1> QED
  BY <1>2, <1>3, <1>4, <1>5 DEF TendInv

LEMMA TendInductive ==
    ASSUME Undisturbed, AInv, RemoteInv, TendInv, [Next]_vars
    PROVE  TendInv'
<1> USE ActorTypes DEF AInv
<1>1. ASSUME NEW p \in Prompts, Prompting(p) PROVE TendInv'
  BY <1>1, PromptingEffect, PromptingTends, TendStep DEF RemoteInv
<1>2. ASSUME NEW g \in Runners, Run(g) PROVE TendInv'
  <2>1. Accepted(g)
    BY DEF RemoteInv
  <2>2. Effect(g)
    BY <1>2, DispatchingEffect, StreamingEffect, SummarizingEffect, FinishingEffect DEF Run
  <2>3. TendEffect(g)
    BY <1>2, <2>1, DispatchingTends, StreamingTends, SummarizingRemote, FinishingTends DEF Run
  <2> QED
    BY <2>2, <2>3, TendStep
<1>3. ASSUME NEW c \in Clears, ClearQueue(c) \/ ClearGet(c) \/ ClearSet(c)
      PROVE  TendInv'
  <2>1. /\ UNCHANGED <<activeRequests, cancelMark, ctxDone>>
        /\ messageQueue' \in {messageQueue, <<>>}
    BY <1>3 DEF ClearQueue, ClearGet, ClearSet, agentVars, acceptVars
  <2>2. Effect(c) /\ c \notin Runners
    BY <1>3, CancellingEffect
  <2>3. \A g \in Runners : pc'[g] = pc[g] /\ (mu = g => mu' = g)
    BY <2>2 DEF Effect
  <2> QED
    BY <2>1, <2>3 DEF TendInv, Queueing
<1>4. CASE UNCHANGED vars
  BY <1>4 DEF vars, agentVars, acceptVars, localVars, TendInv, Queueing
<1> QED
  BY <1>1, <1>2, <1>3, <1>4 DEF Next, Terminated, Undisturbed, Remote

(* Without cancels and failures no prompt is left in the queue with nobody  *)
(* to look at it: the dispatch of a prompt that finds the session busy and   *)
(* the last look of the run that made it busy are ordered by dispatchMu      *)
(* (agent.go:565-626, 1163-1204), whatever ClearQueue does meanwhile.         *)
THEOREM QueueIsTended == Undisturbed /\ Spec => []NothingStranded
<1>1. Undisturbed /\ Init => TendInv
  BY ActorTypes DEF Init, TendInv, Queueing
<1>2. Undisturbed /\ AInv /\ RemoteInv /\ TendInv /\ [Next]_vars => TendInv'
  BY TendInductive
<1>3. TendInv => NothingStranded
  BY DEF TendInv, NothingStranded, Looking, Tending
<1>4. Undisturbed => Remote
  BY DEF Undisturbed
<1>5. Remote /\ Init => RemoteInv
  BY ActorTypes DEF Init, RemoteInv, Accepted, SummaryLabels
<1>6. Remote /\ AInv /\ RemoteInv /\ [Next]_vars => RemoteInv'
  BY RemoteInductive
<1>7. CASE Undisturbed
  BY <1>1, <1>2, <1>3, <1>4, <1>5, <1>6, <1>7, Invariance, PTL DEF Spec
<1> QED
  BY <1>7

-----------------------------------------------------------------------------
(* The cancel mark ends no prompt that was submitted after the Cancel.      *)

(* Where a prompt is known by its accept sequence: on its way to the        *)
(* dispatch, taken from the queue by a handoff, in a queue that a runner    *)
(* has read under the lock, or to be run again by its caller.               *)
Entering(g) == pc[g] \in {"accepted", "entry", "register", "enqueue", "enqueueSet"}
Reading(g) == pc[g] \in {"drainSet", "handoffSet", "enqueueSet"}
Base(p) == IF stack[p] = <<>> THEN cur[p] ELSE stack[p][Len(stack[p])].call

Coming(g, p, n) == Entering(g) /\ cur[g].id = p /\ cur[g].accepted = n
HandedTo(g, p, n) == HandedOff(g) /\ Head(seen[g]).id = p /\ Head(seen[g]).accepted = n
ReadBy(g, p, n) ==
    /\ Reading(g)
    /\ \E i \in 1..Len(seen[g]) : seen[g][i].id = p /\ seen[g][i].acceptSeq = n
Repeated(g, p, n) == g = p /\ MayRetry(g) /\ Base(g).accepted = n

Tracked(g, p, n) ==
    Coming(g, p, n) \/ HandedTo(g, p, n) \/ ReadBy(g, p, n) \/ Repeated(g, p, n)
Waiting(p, n) ==
    \E i \in 1..Len(messageQueue) : messageQueue[i].id = p /\ messageQueue[i].acceptSeq = n

(* A sequence number that a Cancel has reached, or is about to. *)
Marked(n) == n <= cancelMark \/ \E c \in Cancels : pc[c] = "mark" /\ n <= marking[c]
Exact(p, n) == n \in 1..acceptSeqGen /\ (Marked(n) => p \in covered)

LockInv ==
    /\ \A g \in Runners : Queueing(g) => mu = g
    /\ \A c \in Cancels : pc[c] \in {"clear", "clearSet"} => mu = c
MarkInv ==
    /\ cancelMark <= acceptSeqGen
    /\ \A c \in Cancels : marking[c] <= acceptSeqGen
BaseInv == \A p \in Prompts :
    /\ pc[p] \in {"idle", "accepted", "returned"} => stack[p] = <<>>
    /\ pc[p] # "idle" => Base(p).id = p
ExactInv ==
    /\ \A g \in Runners, p \in Prompts, n \in Nat : Tracked(g, p, n) => Exact(p, n)
    /\ \A p \in Prompts, n \in Nat : Waiting(p, n) => Exact(p, n)
PoisonInv == LockInv /\ MarkInv /\ BaseInv /\ ExactInv /\ NoPoison

(* What a step of runner g does to what PoisonInv is about: every prompt     *)
(* comes from where one was, or has a new sequence number.                  *)
New(n) == n = acceptSeqGen + 1 /\ acceptSeqGen' = acceptSeqGen + 1
Traces(g) ==
    /\ \A p \in Prompts, n \in Nat :
          Tracked(g, p, n)' => Tracked(g, p, n) \/ Waiting(p, n) \/ New(n)
    /\ \A p \in Prompts, n \in Nat :
          Waiting(p, n)' => Waiting(p, n) \/ Tracked(g, p, n)
Keeps(g) ==
    /\ cancelMark' \in {cancelMark, 0} /\ covered' = covered
    /\ acceptSeqGen' \in {acceptSeqGen, acceptSeqGen + 1}
    /\ \A h \in Runners \ {g} : /\ stack'[h] = stack[h]
                                /\ attempts'[h] = attempts[h] /\ ret'[h] = ret[h]
    /\ Queueing(g)' => mu' = g
    /\ g \in Prompts => /\ pc'[g] \in {"idle", "accepted", "returned"} => stack'[g] = <<>>
                        /\ pc'[g] # "idle" => Base(g)'.id = g
Strikes(g) ==
    \A p \in struck' \ struck : \E n \in Nat : CanceledBySeq(n) /\ Tracked(g, p, n)
PoisonEffect(g) == Traces(g) /\ Keeps(g) /\ Strikes(g)

-----------------------------------------------------------------------------
LEMMA TailFacts ==
    ASSUME NEW S, NEW q \in Seq(S), q # <<>>
    PROVE  /\ Len(q) \in Nat /\ Len(q) >= 1 /\ Head(q) = q[1] /\ Tail(q) \in Seq(S)
           /\ Len(Tail(q)) = Len(q) - 1
           /\ \A i \in 1..Len(Tail(q)) : i + 1 \in 1..Len(q) /\ Tail(q)[i] = q[i + 1]
           /\ Len(q) = 1 => Tail(q) = <<>>
           /\ Len(q) # 1 => Tail(q) # <<>>
<1>1. /\ Len(q) \in Nat /\ Len(q) >= 1 /\ Head(q) = q[1] /\ Tail(q) \in Seq(S)
      /\ Len(Tail(q)) = Len(q) - 1
      /\ \A i \in 1..Len(Tail(q)) : i + 1 \in 1..Len(q) /\ Tail(q)[i] = q[i + 1]
  OBVIOUS
<1>2. Len(q) = 1 => Tail(q) = <<>>
  BY <1>1
<1>3. ASSUME Len(q) # 1 PROVE Tail(q) # <<>>
  <2>1. \A s \in Seq(S) : s = <<>> => Len(s) = 0
    OBVIOUS
  <2>2. Tail(q) = <<>> => Len(Tail(q)) = 0
    BY <1>1, <2>1, Zenon
  <2>3. Len(Tail(q)) # 0
    BY <1>1, <1>3
  <2> QED
    BY <2>2, <2>3, Zenon
<1> QED
  BY <1>1, <1>2, <1>3

(* The call at the bottom of a runner's stack stays there. *)
LEMMA ReturnBase ==
    ASSUME TypeOK, NEW g \in Runners, Accepted(g), NEW r \in Results, Return(g, r)
    PROVE  /\ Base(g)' = Base(g)
           /\ pc'[g] = "unwind" \/ (pc'[g] = "returned" /\ ret'[g] = r /\ stack'[g] = <<>>)
<1> USE ActorTypes, Functional
<1>0. stack \in [Runners -> Seq(Frame)] /\ stack[g] \in Seq(Frame) /\ ret' = [ret EXCEPT ![g] = r]
      /\ ret \in [Runners -> Results]
  BY DEF TypeOK, Return
<1>1. CASE stack[g] = <<>>
  BY <1>0, <1>1 DEF Return, Goto, Base
<1>2. CASE stack[g] # <<>>
  <2>0. /\ Len(stack[g]) \in Nat /\ Len(stack[g]) >= 1
        /\ Len(Tail(stack[g])) = Len(stack[g]) - 1
        /\ \A i \in 1..Len(Tail(stack[g])) : Tail(stack[g])[i] = stack[g][i + 1]
        /\ Len(stack[g]) = 1 => Tail(stack[g]) = <<>>
        /\ Len(stack[g]) # 1 => Tail(stack[g]) # <<>>
    BY <1>0, <1>2, TailFacts
  <2>1. 1 \in 1..Len(stack[g]) /\ Head(stack[g]) = stack[g][1] /\ Len(stack[g]) \in Nat
    BY <1>0, <1>2, <2>0
  <2>2. Head(stack[g]).kind = "handoff"
    BY <2>1 DEF Accepted
  <2>3. /\ stack' = [stack EXCEPT ![g] = Tail(stack[g])]
        /\ cur' = [cur EXCEPT ![g] = Head(stack[g]).call]
        /\ pc' = [pc EXCEPT ![g] = "unwind"]
    BY <1>2, <2>2 DEF Return, Goto
  <2>4. pc'[g] = "unwind" /\ cur'[g] = stack[g][1].call /\ stack'[g] = Tail(stack[g])
    BY <1>0, <2>1, <2>3
  <2>5. CASE Len(stack[g]) = 1
    <3>1. stack'[g] = <<>>
      BY <2>0, <2>4, <2>5
    <3> QED
      BY <1>2, <2>4, <2>5, <3>1 DEF Base
  <2>6. CASE Len(stack[g]) # 1
    <3>1. /\ stack'[g] # <<>> /\ Len(stack'[g]) = Len(stack[g]) - 1
          /\ stack'[g][Len(stack[g]) - 1] = stack[g][Len(stack[g])]
      BY <2>0, <2>4, <2>6
    <3> QED
      BY <1>2, <2>4, <3>1 DEF Base
  <2> QED
    BY <2>5, <2>6
<1> QED
  BY <1>1, <1>2

LEMMA PushBase ==
    ASSUME TypeOK, NEW g \in Runners, NEW f \in Frame, f.call = cur[g],
           stack'[g] = <<f>> \o stack[g]
    PROVE  Base(g)' = Base(g)
<1>1. stack[g] \in Seq(Frame) /\ Len(stack[g]) \in Nat
  BY DEF TypeOK
<1>2. /\ stack'[g] # <<>> /\ Len(stack'[g]) = Len(stack[g]) + 1
      /\ stack[g] = <<>> => stack'[g][1] = f
      /\ stack[g] # <<>> => stack'[g][Len(stack[g]) + 1] = stack[g][Len(stack[g])]
  BY <1>1
<1>3. CASE stack[g] = <<>>
  BY <1>2, <1>3 DEF Base
<1>4. CASE stack[g] # <<>>
  BY <1>2, <1>4 DEF Base
<1> QED
  BY <1>3, <1>4

(* A step that moves a runner on and leaves alone what prompts are known by. *)
Still(g) ==
    /\ UNCHANGED <<messageQueue, acceptSeqGen, covered, struck, cur, stack, attempts>>
    /\ cancelMark' \in {cancelMark, 0}
    /\ \A h \in Runners \ {g} : ret'[h] = ret[h]
    /\ Entering(g)' => Entering(g)
    /\ HandedOff(g)' => HandedOff(g) /\ seen'[g] = seen[g]
    /\ Reading(g)' => (Reading(g) /\ seen'[g] = seen[g]) \/ seen'[g] = messageQueue
    /\ g \in Prompts /\ MayRetry(g)' => MayRetry(g)
    /\ Queueing(g)' => mu' = g
    /\ pc'[g] \in {"idle", "accepted", "returned"} => pc'[g] = pc[g]
    /\ pc[g] # "idle"

LEMMA StillPoison ==
    ASSUME TypeOK, BaseInv, NEW g \in Runners, Still(g)
    PROVE  PoisonEffect(g)
<1>1. ASSUME NEW p \in Prompts, NEW n \in Nat, Tracked(g, p, n)'
      PROVE  Tracked(g, p, n) \/ Waiting(p, n)
  <2>1. CASE Coming(g, p, n)'
    BY <2>1 DEF Coming, Still, Tracked
  <2>2. CASE HandedTo(g, p, n)'
    BY <2>2 DEF HandedTo, Still, Tracked
  <2>3. CASE ReadBy(g, p, n)'
    BY <2>3 DEF ReadBy, Still, Tracked, Waiting
  <2>4. CASE Repeated(g, p, n)'
    BY <2>4 DEF Repeated, Base, Still, Tracked
  <2> QED
    BY <1>1, <2>1, <2>2, <2>3, <2>4 DEF Tracked
<1>2. ASSUME NEW p \in Prompts, NEW n \in Nat, Waiting(p, n)' PROVE Waiting(p, n)
  BY <1>2 DEF Waiting, Still
<1>3. Keeps(g)
  BY DEF Keeps, Still, BaseInv, Base
<1> QED
  BY <1>1, <1>2, <1>3 DEF PoisonEffect, Traces, Strikes, Still

LEMMA DispatchingStill ==
    ASSUME TypeOK, LockInv, NEW g \in Runners, Accepted(g),
           \/ EnterBusy(g) \/ EnterIdle(g) \/ Register(g) \/ Enqueue(g)
           \/ Prepare(g) \/ PrepareFails(g)
    PROVE  Still(g)
<1> USE ActorTypes, Functional DEF agentVars, acceptVars, localVars, otherVars, eventVars,
        boundVars, ghostVars, Goto, Still, Queueing, Entering, HandedOff, Reading, MayRetry
<1>0. ret \in [Runners -> Results]
  BY DEF TypeOK
<1>2. CASE EnterBusy(g)
  BY <1>2 DEF EnterBusy, AtDispatch
<1>3. CASE EnterIdle(g)
  BY <1>3 DEF EnterIdle, AtDispatch, IsSessionBusy
<1>4. CASE Register(g)
  <2>1. cancelMark' \in {cancelMark, 0}
    BY <1>4 DEF Register, Close
  <2> QED
    BY <1>4, <2>1 DEF Register, SetActive, Reregister
<1>6. CASE Enqueue(g)
  BY <1>6 DEF Enqueue, LockInv
<1>9. CASE Prepare(g)
  BY <1>9 DEF Prepare, Accepted
<1>10. CASE PrepareFails(g)
  BY <1>0, <1>10 DEF PrepareFails, Accepted, MayFail
<1> QED
  BY <1>2, <1>3, <1>4, <1>6, <1>9, <1>10

LEMMA StreamingStill ==
    ASSUME TypeOK, NEW g \in Runners,
           \/ DrainQueue(g) \/ Fold(g) \/ StreamFails(g) \/ NextStep(g) \/ StreamEnds(g)
    PROVE  Still(g)
<1> USE ActorTypes, Functional DEF agentVars, acceptVars, localVars, otherVars, eventVars,
        boundVars, ghostVars, Goto, Still, Queueing, Entering, HandedOff, Reading, MayRetry
<1>0. ret \in [Runners -> Results]
  BY DEF TypeOK
<1>1. CASE DrainQueue(g)
  BY <1>1 DEF DrainQueue
<1>3. CASE Fold(g)
  BY <1>3 DEF Fold
<1>4. CASE StreamFails(g)
  BY <1>0, <1>4 DEF StreamFails, MayFail
<1>5. CASE NextStep(g)
  BY <1>5 DEF NextStep
<1>6. CASE StreamEnds(g)
  BY <1>0, <1>6 DEF StreamEnds
<1> QED
  BY <1>1, <1>3, <1>4, <1>5, <1>6

LEMMA FinishingStill ==
    ASSUME TypeOK, NEW g \in Runners,
           FinishRun(g) \/ Handoff(g) \/ HandoffPublish(g) \/ Settle(g)
    PROVE  Still(g)
<1> USE ActorTypes, Functional DEF agentVars, acceptVars, localVars, otherVars, eventVars,
        boundVars, ghostVars, Goto, Still, Queueing, Entering, HandedOff, Reading, MayRetry
<1>0. ret \in [Runners -> Results]
  BY DEF TypeOK
<1>1. CASE FinishRun(g)
  BY <1>0, <1>1 DEF FinishRun, DelActive, Reregister
<1>2. CASE Handoff(g)
  BY <1>2 DEF Handoff
<1>5. CASE HandoffPublish(g)
  BY <1>5 DEF HandoffPublish
<1>7. CASE Settle(g)
  BY <1>7 DEF Settle
<1> QED
  BY <1>1, <1>2, <1>5, <1>7

(* A return to a caller of Run, or to a run that handed the session off,    *)
(* leaves nothing tracked that was not: only an error is tried again.       *)
LEMMA ReturnPoison ==
    ASSUME TypeOK, BaseInv, NEW g \in Runners, Accepted(g), NEW r \in Results, Return(g, r),
           pc[g] \notin {"idle", "done", "returned"}, UNCHANGED <<attempts, acceptSeqGen, covered>>,
           cancelMark' \in {cancelMark, 0}
    PROVE  /\ \A p \in Prompts, n \in Nat : Tracked(g, p, n)' => Tracked(g, p, n)
           /\ Keeps(g)
<1> USE ActorTypes, Functional
<1>1. /\ Base(g)' = Base(g)
      /\ pc'[g] = "unwind" \/ (pc'[g] = "returned" /\ ret'[g] = r /\ stack'[g] = <<>>)
  BY ReturnBase
<1>2. \A h \in Runners \ {g} : stack'[h] = stack[h] /\ ret'[h] = ret[h]
  BY ReturnType DEF Return, TypeOK
<1>3. ASSUME NEW p \in Prompts, NEW n \in Nat, Tracked(g, p, n)' PROVE Tracked(g, p, n)
  <2>1. Repeated(g, p, n)'
    BY <1>1, <1>3 DEF Tracked, Coming, HandedTo, ReadBy, Entering, HandedOff, Reading
  <2>2. Repeated(g, p, n)
    BY <1>1, <2>1 DEF Repeated, MayRetry
  <2> QED
    BY <2>2 DEF Tracked
<1>4. Keeps(g)
  BY <1>1, <1>2 DEF Keeps, BaseInv, Queueing
<1> QED
  BY <1>3, <1>4

LEMMA BeginAcceptedPoison ==
    ASSUME TypeOK, Remote, BaseInv, NEW p \in Prompts, BeginAccepted(p)
    PROVE  PoisonEffect(p)
<1> USE ActorTypes, Functional
<1>0. acceptSeqGen \in Nat
  BY DEF TypeOK
<1>1. /\ pc[p] = "idle" /\ pc' = [pc EXCEPT ![p] = "accepted"]
      /\ cur' = [cur EXCEPT ![p] = NewCall(p, acceptSeqGen + 1)]
      /\ acceptSeqGen' = acceptSeqGen + 1
      /\ UNCHANGED <<messageQueue, cancelMark, mu, stack, seen, ret, attempts, covered, struck>>
  BY DEF BeginAccepted, Remote, Reserve, Goto, otherVars, boundVars, ghostVars
<1>2. /\ pc'[p] = "accepted" /\ cur'[p].id = p /\ cur'[p].accepted = acceptSeqGen + 1
  BY <1>1 DEF NewCall
<1>3. stack[p] = <<>> /\ stack'[p] = <<>>
  BY <1>1 DEF BaseInv
<1>4. ASSUME NEW q \in Prompts, NEW n \in Nat, Tracked(p, q, n)' PROVE New(n)
  BY <1>1, <1>2, <1>3, <1>4 DEF Tracked, Coming, HandedTo, ReadBy, Repeated, HandedOff,
     Reading, Base, New
<1>5. \A q \in Prompts, n \in Nat : Waiting(q, n)' => Waiting(q, n)
  BY <1>1 DEF Waiting
<1>6. Keeps(p)
  BY <1>0, <1>1, <1>2, <1>3 DEF Keeps, Base, Queueing
<1> QED
  BY <1>1, <1>4, <1>5, <1>6 DEF PoisonEffect, Traces, Strikes

LEMMA CallRunPoison ==
    ASSUME TypeOK, BaseInv, NEW p \in Prompts, CallRun(p)
    PROVE  PoisonEffect(p)
<1> USE ActorTypes, Functional
<1>0. attempts \in [Runners -> Nat] /\ MaxAttempts \in Nat
  BY ConstantsAssumption DEF TypeOK
<1>1. /\ pc[p] = "accepted" \/ (pc[p] = "returned" /\ ret[p] = "provider")
      /\ attempts[p] < MaxAttempts /\ attempts' = [attempts EXCEPT ![p] = attempts[p] + 1]
      /\ pc' = [pc EXCEPT ![p] = "entry"]
      /\ UNCHANGED <<messageQueue, acceptSeqGen, cancelMark, mu, cur, stack, seen, ret, covered, struck>>
  BY DEF CallRun, Goto, agentVars, acceptVars, ghostVars
<1>2. stack[p] = <<>> /\ cur[p].id = p
  BY <1>1 DEF BaseInv, Base
<1>3. /\ pc'[p] = "entry" /\ attempts'[p] = attempts[p] + 1
      /\ \A h \in Runners \ {p} : attempts'[h] = attempts[h]
  BY <1>0, <1>1
<1>4. MayRetry(p)
  BY <1>1 DEF MayRetry
<1>5. ASSUME NEW q \in Prompts, NEW n \in Nat, Tracked(p, q, n)' PROVE Tracked(p, q, n)
  <2>1. CASE Coming(p, q, n)'
    BY <1>1, <1>2, <1>4, <2>1 DEF Coming, Repeated, Base, Tracked
  <2>2. CASE Repeated(p, q, n)'
    BY <1>1, <1>2, <1>4, <2>2 DEF Repeated, Base, Tracked
  <2> QED
    BY <1>3, <1>5, <2>1, <2>2 DEF Tracked, HandedTo, ReadBy, HandedOff, Reading
<1>6. \A q \in Prompts, n \in Nat : Waiting(q, n)' => Waiting(q, n)
  BY <1>1 DEF Waiting
<1>7. Keeps(p)
  BY <1>1, <1>2, <1>3 DEF Keeps, Base, Queueing
<1> QED
  BY <1>1, <1>5, <1>6, <1>7 DEF PoisonEffect, Traces, Strikes

LEMMA RunAgentReturnsPoison ==
    ASSUME TypeOK, BaseInv, NEW p \in Prompts, RunAgentReturns(p)
    PROVE  PoisonEffect(p)
<1> USE ActorTypes, Functional
<1>0. ret \in [Runners -> Results] /\ cancelMark' \in {cancelMark, 0}
  BY CloseMark DEF TypeOK, RunAgentReturns
<1>1. /\ pc[p] \in {"accepted", "returned"} /\ pc' = [pc EXCEPT ![p] = "done"]
      /\ UNCHANGED <<messageQueue, acceptSeqGen, mu, cur, stack, seen, attempts, covered, struck>>
  BY DEF RunAgentReturns, Goto, ghostVars
<1>2. \A h \in Runners \ {p} : ret'[h] = ret[h]
  BY <1>0 DEF RunAgentReturns
<1>3. pc'[p] = "done"
  BY <1>1
<1>5. \A q \in Prompts, n \in Nat : ~Tracked(p, q, n)'
  BY <1>3 DEF Tracked, Coming, HandedTo, ReadBy, Repeated, Entering, HandedOff, Reading, MayRetry
<1>6. \A q \in Prompts, n \in Nat : Waiting(q, n)' => Waiting(q, n)
  BY <1>1 DEF Waiting
<1>7. Keeps(p)
  BY <1>0, <1>1, <1>2, <1>3 DEF Keeps, Base, BaseInv, Queueing
<1> QED
  BY <1>1, <1>5, <1>6, <1>7 DEF PoisonEffect, Traces, Strikes

LEMMA EnterCanceledPoison ==
    ASSUME TypeOK, BaseInv, NEW g \in Runners, EnterCanceled(g)
    PROVE  PoisonEffect(g)
<1> USE ActorTypes, Functional
<1>0. cancelMark' \in {cancelMark, 0}
  BY CloseMark DEF EnterCanceled
<1>1. /\ pc[g] = "entry" /\ CanceledBySeq(cur[g].accepted)
      /\ pc' = [pc EXCEPT ![g] = "canceledEntry"] /\ struck' = struck \cup {cur[g].id}
      /\ UNCHANGED <<messageQueue, acceptSeqGen, mu, cur, stack, seen, ret, attempts, covered>>
  BY DEF EnterCanceled, AtDispatch, Goto, boundVars
<1>2. pc'[g] = "canceledEntry" /\ cur[g].id \in Prompts /\ cur[g].accepted \in Nat
  BY <1>1, CallTypes
<1>3. ASSUME NEW p \in Prompts, NEW n \in Nat, Tracked(g, p, n)' PROVE Tracked(g, p, n)
  BY <1>1, <1>2, <1>3 DEF Tracked, Coming, HandedTo, ReadBy, Repeated, Entering, HandedOff,
     Reading, MayRetry, Base
<1>4. Coming(g, cur[g].id, cur[g].accepted)
  BY <1>1 DEF Coming, Entering
<1>5. Strikes(g)
  BY <1>1, <1>2, <1>4 DEF Strikes, Tracked
<1>6. \A q \in Prompts, n \in Nat : Waiting(q, n)' => Waiting(q, n)
  BY <1>1 DEF Waiting
<1>7. Keeps(g)
  BY <1>0, <1>1, <1>2 DEF Keeps, Base, BaseInv, Queueing
<1> QED
  BY <1>3, <1>5, <1>6, <1>7 DEF PoisonEffect, Traces

LEMMA EnqueueSetPoison ==
    ASSUME TypeOK, BaseInv, NEW g \in Runners, Accepted(g), EnqueueSet(g)
    PROVE  PoisonEffect(g)
<1> USE ActorTypes, Functional
<1>0. cancelMark' \in {cancelMark, 0}
  BY CloseMark DEF EnqueueSet
<1>1. /\ pc[g] = "enqueueSet" /\ messageQueue' = Append(seen[g], EnqueueCall(cur[g]))
      /\ Return(g, "nil") /\ "nil" \in Results
      /\ UNCHANGED <<acceptSeqGen, attempts, covered, struck>>
  BY DEF EnqueueSet, otherVars, boundVars, ghostVars, Results
<1>2. /\ \A p \in Prompts, n \in Nat : Tracked(g, p, n)' => Tracked(g, p, n)
      /\ Keeps(g)
  BY <1>0, <1>1, ReturnPoison
<1>3. /\ EnqueueCall(cur[g]) \in Call /\ EnqueueCall(cur[g]).id = cur[g].id
      /\ EnqueueCall(cur[g]).acceptSeq = cur[g].accepted
  <2>1. cur[g] \in Call /\ cur[g].accepted # 0
    BY <1>1 DEF Accepted
  <2>2. EnqueueCall(cur[g]) \in Call
    BY <2>1, CallTypes
  <2> QED
    BY <2>1, <2>2 DEF EnqueueCall, Call
<1>4. ASSUME NEW i \in 1..Len(messageQueue')
      PROVE  \/ messageQueue'[i] = EnqueueCall(cur[g])
             \/ i \in 1..Len(seen[g]) /\ messageQueue'[i] = seen[g][i]
  <2>1. seen[g] \in Seq(Call)
    OBVIOUS
  <2> QED
    BY <1>1, <1>3, <2>1
<1>5. ASSUME NEW p \in Prompts, NEW n \in Nat, Waiting(p, n)' PROVE Tracked(g, p, n)
  <2>1. PICK i \in 1..Len(messageQueue') :
          messageQueue'[i].id = p /\ messageQueue'[i].acceptSeq = n
    BY <1>5 DEF Waiting
  <2>2. CASE messageQueue'[i] = EnqueueCall(cur[g])
    BY <1>1, <1>3, <2>1, <2>2 DEF Tracked, Coming, Entering
  <2>3. CASE i \in 1..Len(seen[g]) /\ messageQueue'[i] = seen[g][i]
    BY <1>1, <2>1, <2>3 DEF Tracked, ReadBy, Reading
  <2> QED
    BY <1>4, <2>2, <2>3
<1> QED
  BY <1>1, <1>2, <1>5 DEF PoisonEffect, Traces, Strikes

LEMMA CanceledEntryPoison ==
    ASSUME TypeOK, BaseInv, NEW g \in Runners, Accepted(g), CanceledEntry(g)
    PROVE  PoisonEffect(g)
<1> USE ActorTypes, Functional
<1>1. PICK r \in Results : Return(g, r)
  BY DEF CanceledEntry, Results
<1>2. /\ pc[g] = "canceledEntry"
      /\ UNCHANGED <<messageQueue, acceptSeqGen, cancelMark, attempts, covered, struck>>
  BY DEF CanceledEntry, agentVars, acceptVars, ghostVars
<1>3. /\ \A p \in Prompts, n \in Nat : Tracked(g, p, n)' => Tracked(g, p, n)
      /\ Keeps(g)
  BY <1>1, <1>2, ReturnPoison
<1>4. \A q \in Prompts, n \in Nat : Waiting(q, n)' => Waiting(q, n)
  BY <1>2 DEF Waiting
<1> QED
  BY <1>2, <1>3, <1>4 DEF PoisonEffect, Traces, Strikes

LEMMA UnwindPoison ==
    ASSUME TypeOK, BaseInv, NEW g \in Runners, Accepted(g), Unwind(g)
    PROVE  PoisonEffect(g)
<1> USE ActorTypes, Functional
<1>1. Return(g, ret[g]) /\ ret[g] \in Results
  BY DEF Unwind, TypeOK
<1>2. /\ pc[g] = "unwind"
      /\ UNCHANGED <<messageQueue, acceptSeqGen, cancelMark, attempts, covered, struck>>
  BY DEF Unwind, acceptVars, boundVars
<1>3. /\ \A p \in Prompts, n \in Nat : Tracked(g, p, n)' => Tracked(g, p, n)
      /\ Keeps(g)
  BY <1>1, <1>2, ReturnPoison
<1>4. \A q \in Prompts, n \in Nat : Waiting(q, n)' => Waiting(q, n)
  BY <1>2 DEF Waiting
<1> QED
  BY <1>2, <1>3, <1>4 DEF PoisonEffect, Traces, Strikes

(* What a filter of the queue that g has read leaves was read by g. *)
LEMMA FilterReads ==
    ASSUME TypeOK, NEW g \in Runners, NEW I \in SUBSET (1..Len(seen[g])),
           NEW n \in 1..Len(At(seen[g], I))
    PROVE  \E i \in I : i \in 1..Len(seen[g]) /\ At(seen[g], I)[n] = seen[g][i]
<1>1. seen[g] \in Seq(Call)
  BY ActorTypes DEF TypeOK
<1>2. Nth(I, n) \in I /\ At(seen[g], I)[n] = seen[g][Nth(I, n)]
  BY <1>1, AtElements
<1> QED
  BY <1>2

LEMMA UncanceledReads ==
    ASSUME TypeOK, NEW g \in Runners, NEW n \in 1..Len(Uncanceled(g))
    PROVE  \E i \in 1..Len(seen[g]) : Uncanceled(g)[n] = seen[g][i]
                                      /\ ~CanceledBySeq(seen[g][i].acceptSeq)
<1> DEFINE I == {i \in 1..Len(seen[g]) : ~CanceledBySeq(seen[g][i].acceptSeq)}
<1>1. Uncanceled(g) = At(seen[g], I)
  BY DEF Uncanceled, Keep
<1>2. I \in SUBSET (1..Len(seen[g]))
  OBVIOUS
<1> HIDE DEF I
<1>3. PICK i \in I : i \in 1..Len(seen[g]) /\ At(seen[g], I)[n] = seen[g][i]
  <2>1. n \in 1..Len(At(seen[g], I))
    BY <1>1
  <2> QED
    BY <1>2, <2>1, FilterReads
<1> USE DEF I
<1> QED
  BY <1>1, <1>3

LEMMA DrainedReads ==
    ASSUME TypeOK, NEW g \in Runners, DrainSet(g), NEW n \in 1..Len(messageQueue')
    PROVE  \E i \in 1..Len(seen[g]) :
              /\ messageQueue'[n] = seen[g][i]
              /\ ~CanceledBySeq(seen[g][i].acceptSeq) /\ HasRunID(seen[g][i])
<1> DEFINE I == {i \in 1..Len(seen[g]) :
                   ~CanceledBySeq(seen[g][i].acceptSeq) /\ HasRunID(seen[g][i])}
<1>1. messageQueue' = At(seen[g], I)
  BY DEF DrainSet, Keep
<1>2. I \in SUBSET (1..Len(seen[g]))
  OBVIOUS
<1> HIDE DEF I
<1>3. PICK i \in I : i \in 1..Len(seen[g]) /\ At(seen[g], I)[n] = seen[g][i]
  <2>1. n \in 1..Len(At(seen[g], I))
    BY <1>1
  <2> QED
    BY <1>2, <2>1, FilterReads
<1> USE DEF I
<1> QED
  BY <1>1, <1>3

LEMMA DropsRead ==
    ASSUME NEW g \in Runners, NEW c \in HandoffDrops(g)
    PROVE  \E i \in 1..Len(seen[g]) : c = seen[g][i] /\ CanceledBySeq(seen[g][i].acceptSeq)
BY DEF HandoffDrops, Elems

LEMMA StruckReads ==
    ASSUME TypeOK, NEW g \in Runners, Reading(g), NEW p \in Prompts,
           NEW i \in 1..Len(seen[g]), seen[g][i].id = p, CanceledBySeq(seen[g][i].acceptSeq)
    PROVE  \E n \in Nat : CanceledBySeq(n) /\ Tracked(g, p, n)
<1>1. seen[g][i] \in Call
  BY ActorTypes DEF TypeOK
<1>2. seen[g][i].acceptSeq \in Nat
  BY <1>1, CallTypes
<1> QED
  BY <1>2 DEF Tracked, ReadBy

LEMMA DrainSetPoison ==
    ASSUME TypeOK, BaseInv, NEW g \in Runners, DrainSet(g)
    PROVE  PoisonEffect(g)
<1> USE ActorTypes, Functional
<1> DEFINE drops == {seen[g][i] : i \in {k \in 1..Len(seen[g]) :
                                           CanceledBySeq(seen[g][k].acceptSeq)}}
<1>1. /\ pc[g] = "drainSet" /\ pc' = [pc EXCEPT ![g] = "fold"]
      /\ UNCHANGED <<acceptSeqGen, cancelMark, cur, stack, ret, attempts, covered>>
  BY DEF DrainSet, Goto, acceptVars, boundVars
<1>2. struck' = struck \cup {c.id : c \in drops}
  BY DEF DrainSet, Elems
<1>4. pc'[g] = "fold" /\ Reading(g)
  BY <1>1 DEF Reading
<1>5. ASSUME NEW p \in Prompts, NEW n \in Nat, Tracked(g, p, n)' PROVE Tracked(g, p, n)
  BY <1>1, <1>4, <1>5 DEF Tracked, Coming, HandedTo, ReadBy, Repeated, Entering, HandedOff,
     Reading, MayRetry, Base
<1>6. Strikes(g)
  <2> SUFFICES ASSUME NEW p \in struck' \ struck
               PROVE  \E n \in Nat : CanceledBySeq(n) /\ Tracked(g, p, n)
    BY DEF Strikes
  <2>1. PICK i \in 1..Len(seen[g]) : seen[g][i].id = p /\ CanceledBySeq(seen[g][i].acceptSeq)
    BY <1>2
  <2>2. p \in Prompts
    <3>1. seen[g][i] \in Call
      BY DEF TypeOK
    <3> QED
      BY <2>1, <3>1, CallTypes
  <2> QED
    BY <1>4, <2>1, <2>2, StruckReads
<1> HIDE DEF drops
<1>7. ASSUME NEW p \in Prompts, NEW n \in Nat, Waiting(p, n)' PROVE Tracked(g, p, n)
  <2>1. PICK i \in 1..Len(messageQueue') :
          messageQueue'[i].id = p /\ messageQueue'[i].acceptSeq = n
    BY <1>7 DEF Waiting
  <2>2. PICK j \in 1..Len(seen[g]) : messageQueue'[i] = seen[g][j]
    BY DrainedReads
  <2> QED
    BY <1>4, <2>1, <2>2 DEF Tracked, ReadBy
<1>8. Keeps(g)
  BY <1>1, <1>4 DEF Keeps, Base, BaseInv, Queueing
<1> QED
  BY <1>5, <1>6, <1>7, <1>8 DEF PoisonEffect, Traces

LEMMA HandoffStrikes ==
    ASSUME TypeOK, NEW g \in Runners, Reading(g),
           struck' = struck \cup {c.id : c \in HandoffDrops(g)}
    PROVE  Strikes(g)
<1> SUFFICES ASSUME NEW p \in struck' \ struck
             PROVE  \E n \in Nat : CanceledBySeq(n) /\ Tracked(g, p, n)
  BY DEF Strikes
<1>1. PICK c \in HandoffDrops(g) : c.id = p
  OBVIOUS
<1>2. PICK i \in 1..Len(seen[g]) : c = seen[g][i] /\ CanceledBySeq(seen[g][i].acceptSeq)
  BY DropsRead
<1>3. c \in Call /\ p \in Prompts
  BY <1>1, UncanceledType, CallTypes
<1> QED
  BY <1>1, <1>2, <1>3, StruckReads

LEMMA HandoffEmptyPoison ==
    ASSUME TypeOK, BaseInv, NEW g \in Runners, HandoffEmpty(g)
    PROVE  PoisonEffect(g)
<1> USE ActorTypes, Functional
<1>1. /\ pc[g] = "handoffSet" /\ pc' = [pc EXCEPT ![g] = "settle"]
      /\ messageQueue' = <<>> /\ cancelMark' \in {cancelMark, 0}
      /\ UNCHANGED <<acceptSeqGen, cur, stack, ret, attempts, covered>>
  BY DEF HandoffEmpty, Goto, boundVars
<1>2. struck' = struck \cup {c.id : c \in HandoffDrops(g)}
  BY DEF HandoffEmpty
<1>3. pc'[g] = "settle" /\ Reading(g)
  BY <1>1 DEF Reading
<1>4. ASSUME NEW p \in Prompts, NEW n \in Nat, Tracked(g, p, n)' PROVE Tracked(g, p, n)
  BY <1>1, <1>3, <1>4 DEF Tracked, Coming, HandedTo, ReadBy, Repeated, Entering, HandedOff,
     Reading, MayRetry, Base
<1>5. \A p \in Prompts, n \in Nat : ~Waiting(p, n)'
  BY <1>1 DEF Waiting
<1>6. Keeps(g)
  BY <1>1, <1>3 DEF Keeps, Base, BaseInv, Queueing
<1> QED
  BY <1>2, <1>3, <1>4, <1>5, <1>6, HandoffStrikes DEF PoisonEffect, Traces

LEMMA HandoffNextPoison ==
    ASSUME TypeOK, BaseInv, NEW g \in Runners, HandoffNext(g)
    PROVE  PoisonEffect(g)
<1> USE ActorTypes, Functional
<1> DEFINE kept == Uncanceled(g)
           next == [Head(kept) EXCEPT !.accepted = acceptSeqGen + 1]
<1>1. /\ pc[g] = "handoffSet" /\ kept # <<>>
      /\ messageQueue' = Tail(kept) /\ seen' = [seen EXCEPT ![g] = <<next>>]
      /\ acceptSeqGen' = acceptSeqGen + 1
      /\ UNCHANGED <<cancelMark, cur, stack, ret, attempts, covered>>
      /\ struck' = struck \cup {c.id : c \in HandoffDrops(g)}
  BY DEF HandoffNext, Reserve, boundVars
<1>2. PICK l \in {"handoffPublish", "handoffRun"} : pc' = [pc EXCEPT ![g] = l]
  BY DEF HandoffNext, Goto
<1>3. pc'[g] \in {"handoffPublish", "handoffRun"} /\ Reading(g)
  BY <1>1, <1>2 DEF Reading
<1>4. kept \in Seq(Call) /\ acceptSeqGen \in Nat
  BY UncanceledType DEF TypeOK
<1>5. next.accepted = acceptSeqGen + 1
  <2>1. Head(kept) \in Call
    BY <1>1, <1>4, SeqFacts
  <2> QED
    BY <2>1 DEF Call
<1>6. Head(seen'[g]).accepted = acceptSeqGen + 1
  <2> HIDE DEF next, kept
  <2>1. seen'[g] = <<next>> /\ Head(<<next>>) = next
    BY <1>1, FirstOf
  <2> QED
    BY <1>5, <2>1
<1>7. ASSUME NEW p \in Prompts, NEW n \in Nat, Tracked(g, p, n)'
      PROVE  Tracked(g, p, n) \/ New(n)
  <2>1. CASE HandedTo(g, p, n)'
    BY <1>1, <1>6, <2>1 DEF HandedTo, New
  <2>2. CASE Repeated(g, p, n)'
    BY <1>1, <1>3, <2>2 DEF Repeated, Base, MayRetry, Tracked
  <2> QED
    BY <1>3, <1>7, <2>1, <2>2 DEF Tracked, Coming, ReadBy, Entering, Reading
<1>8. ASSUME NEW p \in Prompts, NEW n \in Nat, Waiting(p, n)' PROVE Tracked(g, p, n)
  <2>1. PICK i \in 1..Len(messageQueue') :
          messageQueue'[i].id = p /\ messageQueue'[i].acceptSeq = n
    BY <1>8 DEF Waiting
  <2>2. i + 1 \in 1..Len(kept) /\ messageQueue'[i] = kept[i + 1]
    BY <1>1, <1>4, TailFacts
  <2>3. PICK j \in 1..Len(seen[g]) : kept[i + 1] = seen[g][j]
    BY <2>2, UncanceledReads
  <2> QED
    BY <1>3, <2>1, <2>2, <2>3 DEF Tracked, ReadBy
<1>9. Keeps(g)
  BY <1>1, <1>2, <1>3, <1>4 DEF Keeps, Base, BaseInv, Queueing
<1> QED
  BY <1>1, <1>3, <1>7, <1>8, <1>9, HandoffStrikes DEF PoisonEffect, Traces

LEMMA HandoffRunPoison ==
    ASSUME TypeOK, BaseInv, NEW g \in Runners, HandoffRun(g)
    PROVE  PoisonEffect(g)
<1> USE ActorTypes, Functional
<1> DEFINE f == [kind |-> "handoff", call |-> cur[g], tools |-> FALSE]
<1>1. /\ pc[g] = "handoffRun" /\ pc' = [pc EXCEPT ![g] = "entry"]
      /\ stack' = [stack EXCEPT ![g] = <<f>> \o stack[g]]
      /\ cur' = [cur EXCEPT ![g] = Head(seen[g])]
      /\ UNCHANGED <<messageQueue, acceptSeqGen, cancelMark, ret, attempts, covered, struck>>
  BY DEF HandoffRun, Push, Goto, agentVars, acceptVars, otherVars, boundVars, ghostVars
<1>2. f \in Frame /\ f.call = cur[g] /\ stack \in [Runners -> Seq(Frame)]
  BY FrameTypes DEF TypeOK
<1>3. stack'[g] = <<f>> \o stack[g] /\ \A h \in Runners \ {g} : stack'[h] = stack[h]
  BY <1>1, <1>2
<1> HIDE DEF f
<1>4. Base(g)' = Base(g)
  BY <1>2, <1>3, PushBase
<1>5. pc'[g] = "entry" /\ cur'[g] = Head(seen[g])
  BY <1>1
<1>6. ASSUME NEW p \in Prompts, NEW n \in Nat, Tracked(g, p, n)' PROVE Tracked(g, p, n)
  <2>1. CASE Coming(g, p, n)'
    BY <1>1, <1>5, <2>1 DEF Coming, HandedTo, HandedOff, Tracked
  <2>2. CASE Repeated(g, p, n)'
    BY <1>1, <1>4, <1>5, <2>2 DEF Repeated, MayRetry, Tracked
  <2> QED
    BY <1>5, <1>6, <2>1, <2>2 DEF Tracked, HandedTo, ReadBy, HandedOff, Reading
<1>7. \A q \in Prompts, n \in Nat : Waiting(q, n)' => Waiting(q, n)
  BY <1>1 DEF Waiting
<1>8. Keeps(g)
  BY <1>1, <1>3, <1>4, <1>5 DEF Keeps, BaseInv, Queueing
<1> QED
  BY <1>1, <1>6, <1>7, <1>8 DEF PoisonEffect, Traces, Strikes

(* The others' prompts keep their place, and a step of g adds no mark.      *)
LEMMA PoisonStep ==
    ASSUME TypeOK, TypeOK', PoisonInv, NEW g \in Runners, Effect(g), PoisonEffect(g),
           UNCHANGED marking
    PROVE  PoisonInv'
<1> USE ActorTypes DEF PoisonInv
<1>0. /\ acceptSeqGen \in Nat /\ acceptSeqGen' \in Nat /\ cancelMark \in Nat
      /\ marking \in [Cancels -> Nat]
  BY DEF TypeOK
<1>1. /\ \A a \in Actors \ {g} : pc'[a] = pc[a] /\ seen'[a] = seen[a] /\ (mu = a => mu' = a)
      /\ \A h \in Runners \ {g} : cur'[h] = cur[h]
  BY DEF Effect
<1>2. Keeps(g)
  BY DEF PoisonEffect
<1>3. LockInv'
  <2>1. ASSUME NEW h \in Runners, Queueing(h)' PROVE mu' = h
    BY <1>1, <1>2, <2>1 DEF Keeps, LockInv, Queueing
  <2>2. ASSUME NEW c \in Cancels, pc'[c] \in {"clear", "clearSet"} PROVE mu' = c
    BY <1>1, <2>2 DEF LockInv
  <2> QED
    BY <2>1, <2>2 DEF LockInv
<1>4. MarkInv'
  BY <1>0, <1>2 DEF Keeps, MarkInv
<1>5. BaseInv'
  <2>1. ASSUME NEW p \in Prompts, p # g
        PROVE  /\ pc'[p] \in {"idle", "accepted", "returned"} => stack'[p] = <<>>
               /\ pc'[p] # "idle" => Base(p)'.id = p
    BY <1>1, <1>2, <2>1 DEF Keeps, BaseInv, Base
  <2> QED
    BY <1>2, <2>1 DEF Keeps, BaseInv
<1>6. ASSUME NEW p \in Prompts, NEW n \in Nat, Exact(p, n) PROVE Exact(p, n)'
  BY <1>0, <1>1, <1>2, <1>6 DEF Exact, Marked, Keeps
<1>7. ASSUME NEW p \in Prompts, NEW n \in Nat, New(n) PROVE Exact(p, n)'
  <2>1. n \in 1..acceptSeqGen' /\ n > acceptSeqGen
    BY <1>0, <1>7 DEF New
  <2>2. ~(n <= cancelMark')
    BY <1>0, <1>2, <2>1 DEF Keeps, MarkInv
  <2>3. \A c \in Cancels : marking'[c] = marking[c] /\ marking[c] \in Nat /\ marking[c] <= acceptSeqGen
    BY <1>0 DEF MarkInv
  <2> QED
    BY <1>0, <2>1, <2>2, <2>3 DEF Exact, Marked
<1>8. ExactInv'
  <2>1. ASSUME NEW h \in Runners, NEW p \in Prompts, NEW n \in Nat, Tracked(h, p, n)', h # g
        PROVE  Tracked(h, p, n)
    BY <1>1, <1>2, <2>1 DEF Tracked, Coming, HandedTo, ReadBy, Repeated, Entering, HandedOff,
       Reading, MayRetry, Base, Keeps
  <2>2. ASSUME NEW h \in Runners, NEW p \in Prompts, NEW n \in Nat, Tracked(h, p, n)'
        PROVE  Exact(p, n)'
    BY <1>6, <1>7, <2>1, <2>2 DEF ExactInv, PoisonEffect, Traces
  <2>3. ASSUME NEW p \in Prompts, NEW n \in Nat, Waiting(p, n)' PROVE Exact(p, n)'
    BY <1>6, <2>3 DEF ExactInv, PoisonEffect, Traces
  <2> QED
    BY <2>2, <2>3 DEF ExactInv
<1>9. NoPoison'
  <2> SUFFICES ASSUME NEW p \in struck' \ struck PROVE p \in covered
    BY <1>2 DEF NoPoison, Keeps
  <2>1. p \in Prompts
    BY DEF TypeOK
  <2>2. PICK n \in Nat : CanceledBySeq(n) /\ Tracked(g, p, n)
    BY DEF PoisonEffect, Strikes
  <2>3. Exact(p, n)
    BY <2>1, <2>2 DEF ExactInv
  <2> QED
    BY <1>0, <2>2, <2>3 DEF Exact, Marked, CanceledBySeq
<1> QED
  BY <1>3, <1>4, <1>5, <1>8, <1>9

(* Cancel records every prompt the agent knows of: none is in a queue that   *)
(* somebody read, for it holds the lock.                                    *)
LEMMA CancelCovers ==
    ASSUME TypeOK, MuInv, LockInv, NEW c \in Cancels, Cancel(c), NEW p \in Prompts, NEW n \in Nat
    PROVE  /\ \A g \in Runners : Tracked(g, p, n) => p \in covered'
           /\ Waiting(p, n) => p \in covered'
<1> USE ActorTypes
<1>0. mu = None /\ covered' = covered \cup InFlight
  BY DEF Cancel
<1>1. ASSUME NEW g \in Runners, Tracked(g, p, n) PROVE p \in InFlight
  <2>1. CASE Coming(g, p, n)
    BY <2>1 DEF Coming, Entering, Holding, InFlight
  <2>2. CASE HandedTo(g, p, n)
    BY <2>2 DEF HandedTo, InFlight
  <2>3. ~ReadBy(g, p, n)
    BY <1>0 DEF ReadBy, Reading, MuInv, Locking, LockInv, Queueing
  <2>4. CASE Repeated(g, p, n)
    BY <2>4 DEF Repeated, InFlight
  <2> QED
    BY <1>1, <2>1, <2>2, <2>3, <2>4 DEF Tracked
<1>2. Waiting(p, n) => p \in InFlight
  BY DEF Waiting, InFlight
<1> QED
  BY <1>0, <1>1, <1>2

LEMMA CancelPoison ==
    ASSUME AInv, PoisonInv, NEW c \in Cancels, Cancel(c)
    PROVE  PoisonInv'
<1> USE ActorTypes DEF PoisonInv, AInv
<1>0. /\ acceptSeqGen \in Nat /\ cancelMark \in Nat /\ marking \in [Cancels -> Nat]
  BY DEF TypeOK
<1>1. /\ mu = None /\ pc' = [pc EXCEPT ![c] = "mark"]
      /\ marking' = [marking EXCEPT ![c] = IF acceptedRuns > 0 THEN acceptSeqGen ELSE 0]
      /\ covered \subseteq covered'
      /\ UNCHANGED <<messageQueue, acceptSeqGen, cancelMark, cur, stack, seen, ret, attempts, struck>>
  BY DEF Cancel, Goto, boundVars
<1>2. pc'[c] = "mark" /\ \A a \in Actors \ {c} : pc'[a] = pc[a]
  BY <1>1, Functional
<1>3. LockInv'
  BY <1>1, <1>2 DEF LockInv, Queueing
<1>4. MarkInv'
  BY <1>0, <1>1 DEF MarkInv
<1>5. BaseInv'
  BY <1>1, <1>2 DEF BaseInv, Base
<1>6. \A p \in Prompts, n \in Nat : Waiting(p, n)' = Waiting(p, n)
  BY <1>1 DEF Waiting
<1>7. ASSUME NEW g \in Runners, NEW p \in Prompts, NEW n \in Nat, Tracked(g, p, n)'
      PROVE  Tracked(g, p, n)
  BY <1>1, <1>2, <1>7 DEF Tracked, Coming, HandedTo, ReadBy, Repeated, Entering, HandedOff,
     Reading, MayRetry, Base
<1>8. ExactInv'
  <2>1. ASSUME NEW p \in Prompts, NEW n \in Nat, Exact(p, n), p \in covered'
        PROVE  Exact(p, n)'
    BY <1>1, <2>1 DEF Exact
  <2>2. ASSUME NEW g \in Runners, NEW p \in Prompts, NEW n \in Nat, Tracked(g, p, n)'
        PROVE  Exact(p, n)'
    BY <1>7, <2>1, <2>2, CancelCovers DEF ExactInv
  <2>3. ASSUME NEW p \in Prompts, NEW n \in Nat, Waiting(p, n)'
        PROVE  Exact(p, n)'
    BY <1>6, <2>1, <2>3, CancelCovers DEF ExactInv
  <2> QED
    BY <2>2, <2>3 DEF ExactInv
<1>9. NoPoison'
  BY <1>1 DEF NoPoison
<1> QED
  BY <1>3, <1>4, <1>5, <1>8, <1>9

(* The other steps of Cancel and those of ClearQueue track nothing new and  *)
(* mark nothing that was not about to be marked.                            *)
LEMMA ClearingPoison ==
    ASSUME AInv, PoisonInv, NEW c \in Cancels \cup Clears,
           \/ c \in Cancels /\ CancelRaises(c)
           \/ c \in Clears /\ ClearQueue(c) /\ UNCHANGED marking
           \/ (ClearGet(c) \/ ClearSet(c)) /\ UNCHANGED marking
    PROVE  PoisonInv'
<1> USE ActorTypes DEF PoisonInv, AInv
<1>0. /\ acceptSeqGen \in Nat /\ cancelMark \in Nat /\ marking \in [Cancels -> Nat]
  BY DEF TypeOK
<1>1. /\ UNCHANGED <<marking, acceptSeqGen, cur, stack, ret, attempts, covered, struck>>
      /\ messageQueue' \in {messageQueue, <<>>}
  BY DEF CancelRaises, ClearQueue, ClearGet, ClearSet, agentVars, acceptVars, otherVars,
     boundVars, ghostVars
<1>2. Effect(c) /\ c \notin Runners
  BY CancellingEffect
<1>3. \A g \in Runners : pc'[g] = pc[g] /\ seen'[g] = seen[g] /\ (mu = g => mu' = g)
  BY <1>2 DEF Effect
<1>4. \A d \in Cancels : d # c => pc'[d] = pc[d] /\ (mu = d => mu' = d)
  BY <1>2 DEF Effect
<1>5. /\ c \in Cancels /\ pc'[c] \in {"clear", "clearSet"} => mu' = c
      /\ pc'[c] # "mark"
  <2>1. CASE c \in Cancels /\ CancelRaises(c)
    <3>1. mu = c
      BY <2>1 DEF CancelRaises, MuInv, Locking
    <3> QED
      BY <2>1, <3>1, Functional DEF CancelRaises, IfQueued, Goto
  <2>2. CASE c \in Clears /\ ClearQueue(c)
    BY <2>2, Functional DEF ClearQueue, IfQueued, Goto
  <2>3. CASE ClearGet(c)
    BY <2>3, Functional DEF ClearGet, Goto, LockInv, agentVars
  <2>4. CASE ClearSet(c)
    BY <2>4, Functional DEF ClearSet, Goto
  <2> QED
    BY <2>1, <2>2, <2>3, <2>4
<1>6. /\ cancelMark' <= acceptSeqGen /\ cancelMark' \in Nat
      /\ \A n \in Nat : n <= cancelMark' => Marked(n)
  <2>1. CASE c \in Cancels /\ CancelRaises(c)
    BY <1>0, <2>1 DEF CancelRaises, MarkInv, Marked
  <2>2. CASE UNCHANGED cancelMark
    BY <1>0, <2>2 DEF MarkInv, Marked
  <2> QED
    BY <2>1, <2>2 DEF ClearQueue, ClearGet, ClearSet, agentVars, acceptVars
<1>7. \A n \in Nat : Marked(n)' => Marked(n)
  BY <1>1, <1>4, <1>5, <1>6 DEF Marked
<1>8. LockInv'
  BY <1>3, <1>4, <1>5 DEF LockInv, Queueing
<1>9. MarkInv'
  BY <1>1, <1>6 DEF MarkInv
<1>10. BaseInv'
  BY <1>1, <1>3 DEF BaseInv, Base
<1>11. ASSUME NEW g \in Runners, NEW p \in Prompts, NEW n \in Nat, Tracked(g, p, n)'
       PROVE  Tracked(g, p, n)
  BY <1>1, <1>3, <1>11 DEF Tracked, Coming, HandedTo, ReadBy, Repeated, Entering, HandedOff,
     Reading, MayRetry, Base
<1>12. \A p \in Prompts, n \in Nat : Waiting(p, n)' => Waiting(p, n)
  BY <1>1 DEF Waiting
<1>13. ExactInv'
  BY <1>1, <1>7, <1>11, <1>12 DEF ExactInv, Exact
<1>14. NoPoison'
  BY <1>1 DEF NoPoison
<1> QED
  BY <1>8, <1>9, <1>10, <1>13, <1>14

LEMMA PoisonInductive ==
    ASSUME Remote, AInv, RemoteInv, PoisonInv, [Next]_vars
    PROVE  PoisonInv'
<1> USE ActorTypes DEF AInv
<1>0. TypeOK'
  BY Inductive
<1>1. ASSUME NEW p \in Prompts, Prompting(p), UNCHANGED marking PROVE PoisonInv'
  <2>1. PoisonEffect(p)
    BY <1>1, BeginAcceptedPoison, CallRunPoison, RunAgentReturnsPoison DEF Prompting, PoisonInv
  <2> QED
    BY <1>0, <1>1, <2>1, PromptingEffect, PoisonStep
<1>2. ASSUME NEW g \in Runners, Run(g), UNCHANGED marking PROVE PoisonInv'
  <2>0. Accepted(g)
    BY DEF RemoteInv
  <2>1. CASE Dispatching(g)
    <3>1. ~EnterLocal(g)
      BY <2>0 DEF EnterLocal, Accepted
    <3> QED
      BY <1>0, <1>2, <2>0, <2>1, <3>1, DispatchingEffect, PoisonStep, DispatchingStill, StillPoison,
         EnterCanceledPoison, EnqueueSetPoison, CanceledEntryPoison DEF Dispatching, PoisonInv
  <2>2. CASE Streaming(g)
    <3>1. ~Compact(g)
      BY DEF Compact, Remote, TypeOK
    <3> QED
      BY <1>0, <1>2, <2>2, <3>1, StreamingEffect, PoisonStep, StreamingStill, StillPoison,
         DrainSetPoison DEF Streaming, PoisonInv
  <2>3. ~Summarizing(g)
    BY <2>0, SummarizingRemote
  <2>4. CASE Finishing(g)
    BY <1>0, <1>2, <2>0, <2>4, FinishingEffect, PoisonStep, FinishingStill, StillPoison,
       HandoffEmptyPoison, HandoffNextPoison, HandoffRunPoison, UnwindPoison
    DEF Finishing, PoisonInv
  <2> QED
    BY <1>2, <2>1, <2>2, <2>3, <2>4 DEF Run
<1>3. ASSUME NEW c \in Cancels, Cancel(c) \/ CancelRaises(c) PROVE PoisonInv'
  BY <1>3, CancelPoison, ClearingPoison
<1>4. ASSUME NEW c \in Clears, ClearQueue(c), UNCHANGED marking PROVE PoisonInv'
  BY <1>4, ClearingPoison
<1>5. ASSUME NEW c \in Cancels \cup Clears, ClearGet(c) \/ ClearSet(c), UNCHANGED marking
      PROVE PoisonInv'
  BY <1>5, ClearingPoison
<1>6. CASE UNCHANGED vars
  BY <1>6 DEF vars, agentVars, acceptVars, localVars, otherVars, boundVars, ghostVars, PoisonInv,
     LockInv, MarkInv, BaseInv, ExactInv, NoPoison, Exact, Marked, Queueing, Tracked, Coming,
     HandedTo, ReadBy, Repeated, Entering, HandedOff, Reading, MayRetry, Base, Waiting
<1> QED
  BY <1>1, <1>2, <1>3, <1>4, <1>5, <1>6 DEF Next, Terminated, Remote

LEMMA InitPoison == Init => PoisonInv
BY ActorTypes DEF Init, PoisonInv, LockInv, MarkInv, BaseInv, ExactInv, NoPoison, Exact, Marked,
   Queueing, Tracked, Coming, HandedTo, ReadBy, Repeated, Entering, HandedOff, Reading, MayRetry,
   Base, Waiting

(* A Cancel's mark ends no prompt that was submitted after that Cancel,      *)
(* with failures and retries: the mark is the last accept sequence handed   *)
(* out when Cancel held the lock, every prompt carries its own sequence     *)
(* through the queue and the handoffs, and a handoff reserves a new one     *)
(* above the mark (agent.go:464-480, 1163-1204, 1823-1876).                  *)
THEOREM CancelSparesLater == Remote /\ Spec => []NoPoison
<1>1. Init => PoisonInv
  BY InitPoison
<1>2. Remote /\ AInv /\ RemoteInv /\ PoisonInv /\ [Next]_vars => PoisonInv'
  BY PoisonInductive
<1>3. PoisonInv => NoPoison
  BY DEF PoisonInv
<1>5. Remote /\ Init => RemoteInv
  BY ActorTypes DEF Init, RemoteInv, Accepted, SummaryLabels
<1>6. Remote /\ AInv /\ RemoteInv /\ [Next]_vars => RemoteInv'
  BY RemoteInductive
<1>7. CASE Remote
  BY <1>1, <1>2, <1>3, <1>5, <1>6, <1>7, Invariance, PTL DEF Spec
<1> QED
  BY <1>7

-----------------------------------------------------------------------------
(* A Cancel reaches all that was submitted before it.                       *)
Once == Remote /\ MaxAttempts = 1

(* The call a runner will dispatch, and the handle reserved for it.         *)
Due(g) == Entering(g) \/ HandedOff(g)
NextCall(g) == IF HandedOff(g) THEN Head(seen[g]) ELSE cur[g]
Begun == {p \in Prompts : pc[p] # "idle"}
Cancelling == \E c \in Cancels : pc[c] \in {"mark", "clear", "clearSet"}
Alive(g) == pc[g] \in {"prepare", "prepareStep", "drainSet", "fold", "step"}

HandleOf(g) ==
    /\ Due(g) => NextCall(g).accepted \in open
    /\ ~Entering(g) => cur[g].accepted \notin open
    /\ cur[g].accepted <= acceptSeqGen
    /\ \A i \in 1..Len(stack[g]) : stack[g][i].call.accepted \notin open
                                  /\ stack[g][i].call.accepted <= acceptSeqGen
BegunOf(g) ==
    /\ pc[g] # "idle" => cur[g].id \in Begun
    /\ \A i \in 1..Len(stack[g]) : stack[g][i].call.id \in Begun
    /\ \A i \in 1..Len(seen[g]) : seen[g][i].id \in Begun
AttemptOf(g) == pc[g] \notin {"idle", "accepted", "done"} => attempts[g] >= 1
ReachOf(g) ==
    /\ Due(g) /\ NextCall(g).id \in covered => Marked(NextCall(g).accepted)
    /\ pc[g] = "register" \/ Queueing(g) => cur[g].id \notin covered
    /\ Reading(g) => \A i \in 1..Len(seen[g]) : seen[g][i].id \notin covered
    /\ Alive(g) /\ cur[g].id \in covered => orphaned \/ ctxDone[g]
OnceOf(g) == HandleOf(g) /\ BegunOf(g) /\ AttemptOf(g) /\ ReachOf(g)

Apart == \A g, h \in Runners :
    Due(g) /\ Due(h) /\ NextCall(g).accepted = NextCall(h).accepted => g = h
QueueOf ==
    /\ \A i \in 1..Len(messageQueue) : messageQueue[i].id \in Begun
    /\ \A i \in 1..Len(messageQueue) : messageQueue[i].id \in covered => Cancelling
    /\ covered \subseteq Begun
OnceInv == (\A g \in Runners : OnceOf(g)) /\ Apart /\ QueueOf

(* What a step of runner g does to what OnceInv says of the others.         *)
HandleMove(g) ==
    \/ /\ UNCHANGED <<open, acceptSeqGen>>
       /\ Due(g)' => Due(g) /\ NextCall(g)'.accepted = NextCall(g).accepted
    \/ /\ Due(g) /\ ~Due(g)' /\ UNCHANGED acceptSeqGen
       /\ open' = open \ {NextCall(g).accepted}
    \/ /\ Reserve /\ Due(g)' /\ NextCall(g)'.accepted = acceptSeqGen + 1
OnceEffect(g) ==
    /\ OnceOf(g)'
    /\ HandleMove(g)
    /\ cancelMark' = cancelMark \/ \A h \in Runners \ {g} : ~Due(h)
    /\ covered' = covered
    /\ \A h \in Runners \ {g} : /\ stack'[h] = stack[h] /\ attempts'[h] = attempts[h]
                                /\ ctxDone'[h] = ctxDone[h]
    /\ pc'[g] # "idle"
    /\ \A i \in 1..Len(messageQueue') :
          /\ messageQueue'[i].id \in Begun'
          /\ messageQueue'[i].id \in covered => Cancelling

LEMMA BegunGrows ==
    ASSUME NEW g \in Actors, Effect(g), pc'[g] # "idle"
    PROVE  Begun \subseteq Begun'
BY ActorTypes DEF Begun, Effect

LEMMA OnceStep ==
    ASSUME TypeOK, TypeOK', AccountInv, OnceInv, NEW g \in Runners, Effect(g), OnceEffect(g),
           UNCHANGED marking
    PROVE  OnceInv'
<1> USE ActorTypes
<1>0. /\ acceptSeqGen \in Nat /\ acceptSeqGen' \in Nat /\ open \subseteq 1..acceptSeqGen
  BY DEF TypeOK, AccountInv, HandleAccounting
<1>1. /\ \A a \in Actors \ {g} : pc'[a] = pc[a] /\ seen'[a] = seen[a]
      /\ \A h \in Runners \ {g} : cur'[h] = cur[h]
      /\ orphaned => orphaned'
  BY DEF Effect
<1>2. /\ \A h \in Runners \ {g} : /\ stack'[h] = stack[h] /\ attempts'[h] = attempts[h]
                                  /\ ctxDone'[h] = ctxDone[h]
      /\ covered' = covered /\ HandleMove(g) /\ Begun \subseteq Begun'
      /\ cancelMark' = cancelMark \/ \A h \in Runners \ {g} : ~Due(h)
  BY BegunGrows DEF OnceEffect
<1>3. \A h \in Runners \ {g} : /\ Due(h)' = Due(h) /\ Entering(h)' = Entering(h)
                               /\ NextCall(h)' = NextCall(h)
                               /\ Reading(h)' = Reading(h) /\ Alive(h)' = Alive(h)
                               /\ Queueing(h)' = Queueing(h)
  BY <1>1 DEF Due, Entering, HandedOff, NextCall, Reading, Alive, Queueing
<1>4. Cancelling' = Cancelling
  BY <1>1 DEF Cancelling
<1>5. ASSUME NEW h \in Runners, h # g PROVE OnceOf(h)'
  <2>0. OnceOf(h)
    BY DEF OnceInv
  <2>1. /\ Due(h) => NextCall(h).accepted \in open
        /\ ~Entering(h) => cur[h].accepted \notin open
        /\ cur[h].accepted <= acceptSeqGen /\ cur[h].accepted \in Nat
    BY <2>0, CallTypes, Functional DEF OnceOf, HandleOf
  <2>2. Due(h) /\ Due(g) => NextCall(h).accepted # NextCall(g).accepted
    BY <1>5 DEF OnceInv, Apart
  <2>3. /\ Due(h) => NextCall(h).accepted \in open'
        /\ ~Entering(h) => cur[h].accepted \notin open'
        /\ cur[h].accepted <= acceptSeqGen'
    BY <1>0, <1>2, <2>1, <2>2 DEF HandleMove, Reserve
  <2>4. ASSUME NEW i \in 1..Len(stack[h])
        PROVE  stack[h][i].call.accepted \notin open' /\ stack[h][i].call.accepted <= acceptSeqGen'
    <3>1. stack[h][i].call.accepted \notin open /\ stack[h][i].call.accepted <= acceptSeqGen
      BY <2>0 DEF OnceOf, HandleOf
    <3>2. stack[h] \in Seq(Frame)
      BY DEF TypeOK
    <3>3. stack[h][i] \in Frame
      BY <3>2
    <3>4. stack[h][i].call.accepted \in Nat
      BY <3>3 DEF Frame, Call
    <3> QED
      BY <1>0, <1>2, <3>1, <3>4 DEF HandleMove, Reserve
  <2>5. HandleOf(h)'
    BY <1>1, <1>2, <1>3, <1>5, <2>3, <2>4 DEF HandleOf
  <2>6. BegunOf(h)'
    BY <1>1, <1>2, <1>5, <2>0 DEF OnceOf, BegunOf
  <2>7. AttemptOf(h)'
    BY <1>1, <1>2, <1>5, <2>0 DEF OnceOf, AttemptOf
  <2>8. (Due(h) /\ NextCall(h).id \in covered => Marked(NextCall(h).accepted))'
    <3>1. \A c \in Cancels : pc'[c] = pc[c] /\ marking'[c] = marking[c]
      BY <1>1
    <3>2. ASSUME NEW n, Due(h) PROVE Marked(n)' = Marked(n)
      BY <1>2, <1>5, <3>1, <3>2 DEF Marked
    <3> QED
      BY <1>2, <1>3, <1>5, <2>0, <3>2 DEF OnceOf, ReachOf
  <2>9. ReachOf(h)'
    BY <1>1, <1>2, <1>3, <1>5, <2>0, <2>8 DEF OnceOf, ReachOf
  <2> QED
    BY <2>5, <2>6, <2>7, <2>9 DEF OnceOf
<1>6. Apart'
  <2>1. ASSUME NEW h \in Runners, h # g, Due(h)', Due(g)'
        PROVE  NextCall(h)'.accepted # NextCall(g)'.accepted
    <3>1. NextCall(h).accepted \in open /\ NextCall(h)' = NextCall(h) /\ Due(h)
      BY <1>3, <2>1 DEF OnceInv, OnceOf, HandleOf
    <3>2. Due(g) => NextCall(h).accepted # NextCall(g).accepted
      BY <2>1, <3>1 DEF OnceInv, Apart
    <3> QED
      BY <1>0, <1>2, <2>1, <3>1, <3>2 DEF HandleMove
  <2>2. ASSUME NEW h \in Runners, h # g, NEW k \in Runners, k # g, Due(h)', Due(k)',
               NextCall(h)'.accepted = NextCall(k)'.accepted
        PROVE  h = k
    BY <1>3, <2>2 DEF OnceInv, Apart
  <2> QED
    BY <2>1, <2>2 DEF Apart
<1>7. QueueOf'
  BY <1>2, <1>4 DEF OnceEffect, QueueOf, OnceInv
<1> QED
  BY <1>5, <1>6, <1>7 DEF OnceInv, OnceEffect

(* A step that moves a runner on and leaves its calls and handles alone.    *)
Quiet(g) ==
    /\ UNCHANGED <<messageQueue, acceptSeqGen, open, cancelMark, covered, cur, stack, attempts>>
    /\ ctxDone' = ctxDone
    /\ Entering(g)' = Entering(g)
    /\ HandedOff(g)' => HandedOff(g) /\ seen'[g] = seen[g]
    /\ seen'[g] \in {seen[g], messageQueue, <<>>}
    /\ pc[g] \notin {"idle", "accepted", "done"} /\ pc'[g] # "idle"
    /\ Reading(g)' => (Reading(g) /\ seen'[g] = seen[g]) \/ (seen'[g] = messageQueue /\ ~Cancelling)
    /\ pc'[g] = "register" \/ Queueing(g)' =>
          pc[g] = "register" \/ Queueing(g) \/ cur[g].id \notin covered
    /\ Alive(g)' => Alive(g)

LEMMA QuietOnce ==
    ASSUME TypeOK, OnceInv, NEW g \in Runners, Effect(g), Quiet(g), UNCHANGED marking
    PROVE  OnceEffect(g)
<1> USE ActorTypes
<1>0. OnceOf(g) /\ QueueOf /\ Begun \subseteq Begun'
  BY BegunGrows DEF OnceInv, Quiet
<1>1. Due(g)' => Due(g) /\ NextCall(g)' = NextCall(g)
  <2>1. CASE HandedOff(g)'
    BY <2>1 DEF Quiet, Due, NextCall
  <2>2. CASE ~HandedOff(g)'
    <3>1. Due(g)' => Entering(g)
      BY <2>2 DEF Quiet, Due
    <3>2. Entering(g) => ~HandedOff(g)
      BY DEF Entering, HandedOff
    <3> QED
      BY <2>2, <3>1, <3>2 DEF Quiet, Due, NextCall
  <2> QED
    BY <2>1, <2>2
<1>2. HandleOf(g)'
  BY <1>0, <1>1 DEF Quiet, OnceOf, HandleOf
<1>3. ASSUME NEW i \in 1..Len(seen'[g]) PROVE seen'[g][i].id \in Begun'
  <2>1. CASE seen'[g] = <<>>
    BY <2>1
  <2> QED
    BY <1>0, <2>1 DEF Quiet, OnceOf, BegunOf, QueueOf
<1>4. BegunOf(g)'
  BY <1>0, <1>3 DEF Quiet, OnceOf, BegunOf
<1>5. AttemptOf(g)'
  BY <1>0 DEF Quiet, OnceOf, AttemptOf
<1>6. \A n : Marked(n)' = Marked(n)
  <2>1. cancelMark' = cancelMark /\ \A c \in Cancels : pc'[c] = pc[c] /\ marking'[c] = marking[c]
    BY DEF Quiet, Effect
  <2> QED
    BY <2>1 DEF Marked
<1>7. ReachOf(g)'
  <2>1. (Due(g) /\ NextCall(g).id \in covered => Marked(NextCall(g).accepted))'
    BY <1>0, <1>1, <1>6 DEF OnceOf, ReachOf, Quiet
  <2>2. pc'[g] = "register" \/ Queueing(g)' => cur[g].id \notin covered
    BY <1>0 DEF OnceOf, ReachOf, Quiet
  <2>3. Reading(g)' => \A i \in 1..Len(seen'[g]) : seen'[g][i].id \notin covered
    BY <1>0 DEF OnceOf, ReachOf, Quiet, QueueOf
  <2>4. Alive(g)' /\ cur[g].id \in covered => orphaned' \/ ctxDone'[g]
    BY <1>0 DEF OnceOf, ReachOf, Quiet, Effect
  <2> QED
    BY <2>1, <2>2, <2>3, <2>4 DEF ReachOf, Quiet
<1> QED
  BY <1>0, <1>1, <1>2, <1>4, <1>5, <1>7 DEF OnceEffect, OnceOf, HandleMove, Quiet, QueueOf

(* The last handle drops the mark, so no other runner is due then.          *)
LEMMA CloseHandle ==
    ASSUME TypeOK, AccountInv, NEW h, Close(h)
    PROVE  /\ h \notin open => UNCHANGED <<open, cancelMark>>
           /\ h \in open => open' = open \ {h}
           /\ \A n \in open : n # h => cancelMark' = cancelMark
<1>1. ASSUME h \in open, NEW n \in open, n # h PROVE cancelMark' = cancelMark
  <2>1. IsFiniteSet(open) /\ acceptedRuns = Cardinality(open) /\ acceptedRuns \in Nat
    BY DEF AccountInv, HandleAccounting, TypeOK
  <2>2. /\ IsFiniteSet(open \ {h}) /\ Cardinality(open \ {h}) = Cardinality(open) - 1
    BY <1>1, <2>1, FS_RemoveElement
  <2>3. Cardinality(open \ {h}) # 0 /\ Cardinality(open \ {h}) \in Nat
    BY <1>1, <2>2, FS_EmptySet, FS_CardinalityType
  <2>4. ~(acceptedRuns <= 1)
    BY <2>1, <2>2, <2>3
  <2> QED
    BY <1>1, <2>4 DEF Close
<1> QED
  BY <1>1 DEF Close

LEMMA CloseOwn ==
    ASSUME TypeOK, AccountInv, OnceInv, NEW g \in Runners, ~HandedOff(g), ~Due(g)',
           Close(cur[g].accepted), UNCHANGED acceptSeqGen
    PROVE  /\ HandleMove(g)
           /\ cancelMark' = cancelMark \/ \A h \in Runners \ {g} : ~Due(h)
           /\ cur[g].accepted \notin open' /\ open' \subseteq open
<1>0. OnceOf(g)
  BY DEF OnceInv
<1>1. CASE Entering(g)
  <2>1. NextCall(g) = cur[g] /\ Due(g) /\ cur[g].accepted \in open
    BY <1>0, <1>1 DEF OnceOf, HandleOf, NextCall, Due
  <2>2. \A h \in Runners \ {g} : Due(h) => /\ NextCall(h).accepted \in open
                                           /\ NextCall(h).accepted # cur[g].accepted
    BY <2>1 DEF OnceInv, Apart, OnceOf, HandleOf
  <2> QED
    BY <2>1, <2>2, CloseHandle DEF HandleMove
<1>2. CASE ~Entering(g)
  <2>1. cur[g].accepted \notin open
    BY <1>0, <1>2 DEF OnceOf, HandleOf
  <2> QED
    BY <2>1, CloseHandle DEF HandleMove
<1> QED
  BY <1>1, <1>2

(* Whoever tests the mark under the lock sees what every Cancel raised.     *)
LEMMA Uncovered ==
    ASSUME TypeOK, AccountInv, MuInv, OnceInv, NEW g \in Runners, AtDispatch(g),
           ~CanceledBySeq(cur[g].accepted)
    PROVE  cur[g].id \notin covered
<1> SUFFICES ASSUME cur[g].id \in covered PROVE FALSE
  OBVIOUS
<1>1. Due(g) /\ NextCall(g) = cur[g] /\ mu = None
  BY DEF AtDispatch, Due, NextCall, Entering, HandedOff
<1>2. Marked(cur[g].accepted) /\ cur[g].accepted \in open
  BY <1>1 DEF OnceInv, OnceOf, ReachOf, HandleOf
<1>3. cur[g].accepted \in Nat /\ cur[g].accepted >= 1 /\ cancelMark \in Nat
  <2>1. cancelMark \in Nat /\ acceptSeqGen \in Nat /\ open \subseteq 1..acceptSeqGen
    BY DEF AccountInv, HandleAccounting, TypeOK
  <2>2. \A n \in open : n \in Nat /\ n >= 1
    BY <2>1
  <2> QED
    BY <1>2, <2>1, <2>2
<1>4. \A c \in Cancels : pc[c] # "mark"
  BY <1>1, ActorTypes DEF MuInv, Locking
<1> QED
  BY <1>2, <1>3, <1>4 DEF Marked, CanceledBySeq

LEMMA NobodyCancels ==
    ASSUME MuInv, LockInv, mu \in Runners \cup {None}
    PROVE  ~Cancelling
BY ActorTypes DEF Cancelling, MuInv, Locking, LockInv

LEMMA DispatchingQuiet ==
    ASSUME TypeOK, AccountInv, MuInv, LockInv, OnceInv, NEW g \in Runners, Accepted(g),
           \/ EnterBusy(g) \/ EnterIdle(g) \/ Enqueue(g) \/ Prepare(g)
           \/ PrepareFails(g)
    PROVE  Quiet(g)
<1> USE ActorTypes, Functional DEF agentVars, acceptVars, localVars, otherVars, eventVars,
        boundVars, ghostVars, Goto, Quiet, Queueing, Entering, HandedOff, Reading, Alive
<1>1. CASE EnterBusy(g)
  BY <1>1, Uncovered DEF EnterBusy, AtDispatch
<1>2. CASE EnterIdle(g)
  BY <1>2, Uncovered DEF EnterIdle, AtDispatch
<1>3. CASE Enqueue(g)
  <2>1. ~Cancelling
    BY <1>3, NobodyCancels DEF Enqueue, LockInv
  <2> QED
    BY <1>3, <2>1 DEF Enqueue
<1>4. CASE Prepare(g)
  BY <1>4 DEF Prepare, Accepted
<1>5. CASE PrepareFails(g)
  BY <1>5 DEF PrepareFails, Accepted, MayFail
<1> QED
  BY <1>1, <1>2, <1>3, <1>4, <1>5

LEMMA StreamingQuiet ==
    ASSUME TypeOK, MuInv, LockInv, NEW g \in Runners,
           \/ DrainQueue(g) \/ Fold(g) \/ StreamFails(g) \/ NextStep(g) \/ StreamEnds(g)
    PROVE  Quiet(g)
<1> USE ActorTypes, Functional DEF agentVars, acceptVars, localVars, otherVars, eventVars,
        boundVars, ghostVars, Goto, Quiet, Queueing, Entering, HandedOff, Reading, Alive
<1>1. CASE DrainQueue(g)
  BY <1>1, NobodyCancels DEF DrainQueue
<1>3. CASE Fold(g)
  BY <1>3 DEF Fold
<1>4. CASE StreamFails(g)
  BY <1>4 DEF StreamFails, MayFail
<1>5. CASE NextStep(g)
  BY <1>5 DEF NextStep
<1>6. CASE StreamEnds(g)
  BY <1>6 DEF StreamEnds
<1> QED
  BY <1>1, <1>3, <1>4, <1>5, <1>6

LEMMA FinishingQuiet ==
    ASSUME TypeOK, MuInv, LockInv, NEW g \in Runners,
           FinishRun(g) \/ Handoff(g) \/ HandoffPublish(g) \/ Settle(g)
    PROVE  Quiet(g)
<1> USE ActorTypes, Functional DEF agentVars, acceptVars, localVars, otherVars, eventVars,
        boundVars, ghostVars, Goto, Quiet, Queueing, Entering, HandedOff, Reading, Alive
<1>1. CASE FinishRun(g)
  BY <1>1 DEF FinishRun, DelActive, Reregister
<1>2. CASE Handoff(g)
  BY <1>2, NobodyCancels DEF Handoff
<1>5. CASE HandoffPublish(g)
  BY <1>5 DEF HandoffPublish
<1>7. CASE Settle(g)
  BY <1>7 DEF Settle
<1> QED
  BY <1>1, <1>2, <1>5, <1>7

LEMMA BeginAcceptedOnce ==
    ASSUME TypeOK, AccountInv, Remote, BaseInv, OnceInv, NEW p \in Prompts, Effect(p),
           BeginAccepted(p)
    PROVE  OnceEffect(p)
<1> USE ActorTypes, Functional
<1>0. acceptSeqGen \in Nat /\ open \subseteq 1..acceptSeqGen /\ OnceOf(p) /\ QueueOf
  BY DEF TypeOK, AccountInv, HandleAccounting, OnceInv
<1>1. /\ pc[p] = "idle" /\ pc' = [pc EXCEPT ![p] = "accepted"]
      /\ cur' = [cur EXCEPT ![p] = NewCall(p, acceptSeqGen + 1)] /\ Reserve
      /\ UNCHANGED <<messageQueue, cancelMark, stack, seen, ctxDone, attempts, covered>>
  BY DEF BeginAccepted, Remote, Goto, otherVars, boundVars, ghostVars
<1>2. /\ pc'[p] = "accepted" /\ cur'[p].id = p /\ cur'[p].accepted = acceptSeqGen + 1
      /\ stack[p] = <<>> /\ acceptSeqGen' = acceptSeqGen + 1 /\ acceptSeqGen + 1 \in open'
  BY <1>1 DEF NewCall, BaseInv, Reserve
<1>3. /\ Due(p)' /\ Entering(p)' /\ NextCall(p)' = cur'[p]
      /\ ~Reading(p)' /\ ~Alive(p)' /\ ~Queueing(p)'
  BY <1>2 DEF Due, Entering, NextCall, HandedOff, Reading, Alive, Queueing
<1>4. p \notin covered /\ Begun \subseteq Begun' /\ p \in Begun'
  BY <1>0, <1>1, <1>2, BegunGrows DEF QueueOf, Begun
<1>5. HandleOf(p)'
  BY <1>0, <1>1, <1>2, <1>3 DEF HandleOf
<1>6. BegunOf(p)'
  BY <1>0, <1>1, <1>2, <1>4 DEF BegunOf, OnceOf
<1>7. AttemptOf(p)' /\ ReachOf(p)'
  BY <1>1, <1>2, <1>3, <1>4 DEF AttemptOf, ReachOf
<1> QED
  BY <1>0, <1>1, <1>2, <1>3, <1>4, <1>5, <1>6, <1>7 DEF OnceEffect, OnceOf, HandleMove, QueueOf

LEMMA CallRunOnce ==
    ASSUME TypeOK, Once, OnceInv, NEW p \in Prompts, Effect(p), CallRun(p), UNCHANGED marking
    PROVE  OnceEffect(p)
<1> USE ActorTypes, Functional
<1>0. OnceOf(p) /\ QueueOf /\ attempts \in [Runners -> Nat] /\ MaxAttempts = 1
  BY DEF TypeOK, Once, OnceInv
<1>1. /\ pc[p] \in {"accepted", "returned"} /\ attempts[p] < 1
      /\ attempts' = [attempts EXCEPT ![p] = attempts[p] + 1]
      /\ pc' = [pc EXCEPT ![p] = "entry"]
      /\ UNCHANGED <<messageQueue, acceptSeqGen, open, cancelMark, cur, stack, seen, ctxDone, covered>>
  BY <1>0 DEF CallRun, Goto, agentVars, acceptVars, ghostVars
<1>2. pc[p] = "accepted" /\ pc'[p] = "entry" /\ attempts'[p] >= 1
  BY <1>0, <1>1 DEF OnceOf, AttemptOf
<1>3. /\ Due(p) /\ Due(p)' /\ Entering(p) /\ Entering(p)'
      /\ NextCall(p) = cur[p] /\ NextCall(p)' = cur'[p]
      /\ ~Reading(p)' /\ ~Alive(p)' /\ ~Queueing(p)'
  BY <1>2 DEF Due, Entering, NextCall, HandedOff, Reading, Alive, Queueing
<1>4. Begun \subseteq Begun'
  BY <1>2, BegunGrows
<1>5. HandleOf(p)'
  BY <1>0, <1>1, <1>3 DEF HandleOf, OnceOf
<1>6. BegunOf(p)'
  BY <1>0, <1>1, <1>2, <1>4 DEF BegunOf, OnceOf
<1>7. AttemptOf(p)'
  BY <1>2 DEF AttemptOf
<1>8. ReachOf(p)'
  <2>1. \A n : Marked(n)' = Marked(n)
    <3>1. \A c \in Cancels : pc'[c] = pc[c] /\ marking'[c] = marking[c]
      BY DEF Effect
    <3> QED
      BY <1>1, <3>1 DEF Marked
  <2> QED
    BY <1>0, <1>1, <1>2, <1>3, <2>1 DEF ReachOf, OnceOf
<1>9. \A h \in Runners \ {p} : attempts'[h] = attempts[h]
  BY <1>0, <1>1
<1> QED
  BY <1>0, <1>1, <1>2, <1>3, <1>4, <1>5, <1>6, <1>7, <1>8, <1>9
  DEF OnceEffect, OnceOf, HandleMove, QueueOf

LEMMA RunAgentReturnsOnce ==
    ASSUME TypeOK, AccountInv, OnceInv, NEW p \in Prompts, Effect(p), RunAgentReturns(p)
    PROVE  OnceEffect(p)
<1> USE ActorTypes, Functional
<1>0. OnceOf(p) /\ QueueOf
  BY DEF OnceInv
<1>1. /\ pc[p] \in {"accepted", "returned"} /\ pc' = [pc EXCEPT ![p] = "done"]
      /\ Close(cur[p].accepted)
      /\ UNCHANGED <<messageQueue, acceptSeqGen, cur, stack, seen, ctxDone, attempts, covered>>
  BY DEF RunAgentReturns, Goto, ghostVars
<1>2. pc'[p] = "done" /\ ~HandedOff(p)
  BY <1>1 DEF HandedOff
<1>3. ~Due(p)' /\ ~Entering(p)' /\ ~Reading(p)' /\ ~Alive(p)' /\ ~Queueing(p)'
  BY <1>2 DEF Due, Entering, HandedOff, Reading, Alive, Queueing
<1>4. /\ HandleMove(p)
      /\ cancelMark' = cancelMark \/ \A h \in Runners \ {p} : ~Due(h)
      /\ cur[p].accepted \notin open' /\ open' \subseteq open
  BY <1>1, <1>2, <1>3, CloseOwn
<1>5. Begun \subseteq Begun'
  BY <1>2, BegunGrows
<1>6. HandleOf(p)'
  BY <1>0, <1>1, <1>3, <1>4 DEF HandleOf, OnceOf
<1>7. BegunOf(p)'
  BY <1>0, <1>1, <1>5 DEF BegunOf, OnceOf
<1>8. AttemptOf(p)' /\ ReachOf(p)'
  BY <1>2, <1>3 DEF AttemptOf, ReachOf
<1> QED
  BY <1>0, <1>1, <1>2, <1>4, <1>5, <1>6, <1>7, <1>8 DEF OnceEffect, OnceOf, QueueOf

LEMMA EnterCanceledOnce ==
    ASSUME TypeOK, AccountInv, OnceInv, NEW g \in Runners, Effect(g), EnterCanceled(g)
    PROVE  OnceEffect(g)
<1> USE ActorTypes, Functional
<1>0. OnceOf(g) /\ QueueOf
  BY DEF OnceInv
<1>1. /\ pc[g] = "entry" /\ pc' = [pc EXCEPT ![g] = "canceledEntry"]
      /\ Close(cur[g].accepted)
      /\ UNCHANGED <<messageQueue, acceptSeqGen, cur, stack, seen, ctxDone, attempts, covered>>
  BY DEF EnterCanceled, AtDispatch, Goto, boundVars
<1>2. pc'[g] = "canceledEntry" /\ ~HandedOff(g)
  BY <1>1 DEF HandedOff
<1>3. ~Due(g)' /\ ~Entering(g)' /\ ~Reading(g)' /\ ~Alive(g)' /\ ~Queueing(g)'
  BY <1>2 DEF Due, Entering, HandedOff, Reading, Alive, Queueing
<1>4. /\ HandleMove(g)
      /\ cancelMark' = cancelMark \/ \A h \in Runners \ {g} : ~Due(h)
      /\ cur[g].accepted \notin open' /\ open' \subseteq open
  BY <1>1, <1>2, <1>3, CloseOwn
<1>5. Begun \subseteq Begun'
  BY <1>2, BegunGrows
<1>6. HandleOf(g)'
  BY <1>0, <1>1, <1>3, <1>4 DEF HandleOf, OnceOf
<1>7. BegunOf(g)'
  BY <1>0, <1>1, <1>5 DEF BegunOf, OnceOf
<1>8. AttemptOf(g)' /\ ReachOf(g)'
  BY <1>0, <1>1, <1>2, <1>3 DEF AttemptOf, ReachOf, OnceOf
<1> QED
  BY <1>0, <1>1, <1>2, <1>4, <1>5, <1>6, <1>7, <1>8 DEF OnceEffect, OnceOf, QueueOf

LEMMA RegisterOnce ==
    ASSUME TypeOK, AccountInv, OnceInv, NEW g \in Runners, Effect(g), Register(g)
    PROVE  OnceEffect(g)
<1> USE ActorTypes, Functional
<1>0. OnceOf(g) /\ QueueOf /\ ctxDone \in [Runners -> BOOLEAN]
  BY DEF OnceInv, TypeOK
<1>1. /\ pc[g] = "register" /\ pc' = [pc EXCEPT ![g] = "prepare"]
      /\ Close(cur[g].accepted) /\ ctxDone' = [ctxDone EXCEPT ![g] = FALSE]
      /\ UNCHANGED <<messageQueue, acceptSeqGen, cur, stack, seen, attempts, covered>>
  BY DEF Register, SetActive, Goto, boundVars
<1>2. pc'[g] = "prepare" /\ ~HandedOff(g)
  BY <1>1 DEF HandedOff
<1>3. ~Due(g)' /\ ~Entering(g)' /\ ~Reading(g)' /\ ~Queueing(g)'
  BY <1>2 DEF Due, Entering, HandedOff, Reading, Queueing
<1>4. /\ HandleMove(g)
      /\ cancelMark' = cancelMark \/ \A h \in Runners \ {g} : ~Due(h)
      /\ cur[g].accepted \notin open' /\ open' \subseteq open
  BY <1>1, <1>2, <1>3, CloseOwn
<1>5. Begun \subseteq Begun'
  BY <1>2, BegunGrows
<1>6. HandleOf(g)'
  BY <1>0, <1>1, <1>3, <1>4 DEF HandleOf, OnceOf
<1>7. BegunOf(g)'
  BY <1>0, <1>1, <1>5 DEF BegunOf, OnceOf
<1>8. AttemptOf(g)' /\ ReachOf(g)'
  BY <1>0, <1>1, <1>2, <1>3 DEF AttemptOf, ReachOf, OnceOf
<1>9. \A h \in Runners \ {g} : ctxDone'[h] = ctxDone[h]
  BY <1>0, <1>1
<1> QED
  BY <1>0, <1>1, <1>2, <1>4, <1>5, <1>6, <1>7, <1>8, <1>9 DEF OnceEffect, OnceOf, QueueOf

(* Where a return takes the call and the stack from. *)
LEMMA ReturnFrames ==
    ASSUME TypeOK, NEW g \in Runners, Accepted(g), NEW r \in Results, Return(g, r)
    PROVE  /\ \A h \in Runners \ {g} : stack'[h] = stack[h]
           /\ pc'[g] \in {"returned", "unwind"}
           /\ \A i \in 1..Len(stack'[g]) :
                 \E j \in 1..Len(stack[g]) : stack'[g][i] = stack[g][j]
           /\ cur'[g] = cur[g] \/ \E j \in 1..Len(stack[g]) : cur'[g] = stack[g][j].call
<1> USE ActorTypes, Functional
<1>0. pc'[g] \in {"returned", "unwind"}
  BY ReturnsTo
<1>1. CASE stack[g] = <<>>
  BY <1>0, <1>1 DEF Return
<1>2. CASE stack[g] # <<>>
  <2>1. stack \in [Runners -> Seq(Frame)] /\ stack[g] \in Seq(Frame)
    BY DEF TypeOK
  <2>2. /\ Len(stack[g]) \in Nat /\ Len(stack[g]) >= 1 /\ Head(stack[g]) = stack[g][1]
        /\ \A i \in 1..Len(Tail(stack[g])) :
              i + 1 \in 1..Len(stack[g]) /\ Tail(stack[g])[i] = stack[g][i + 1]
    BY <1>2, <2>1, TailFacts
  <2>3. /\ stack' = [stack EXCEPT ![g] = Tail(stack[g])]
        /\ cur' = [cur EXCEPT ![g] = Head(stack[g]).call]
    BY <1>2 DEF Return
  <2>4. /\ stack'[g] = Tail(stack[g]) /\ cur'[g] = stack[g][1].call
        /\ 1 \in 1..Len(stack[g]) /\ \A h \in Runners \ {g} : stack'[h] = stack[h]
    BY <2>1, <2>2, <2>3
  <2> QED
    BY <1>0, <2>2, <2>4
<1> QED
  BY <1>1, <1>2

LEMMA ReturnOnce ==
    ASSUME TypeOK, OnceInv, NEW g \in Runners, Effect(g), Accepted(g), NEW r \in Results,
           Return(g, r), pc[g] \notin {"idle", "accepted", "done"},
           UNCHANGED <<acceptSeqGen, seen, attempts, covered>>,
           cur[g].accepted \notin open', open' \subseteq open
    PROVE  /\ OnceOf(g)' /\ ~Due(g)' /\ pc'[g] # "idle" /\ Begun \subseteq Begun'
           /\ \A h \in Runners \ {g} : stack'[h] = stack[h]
<1> USE ActorTypes
<1>0. OnceOf(g)
  BY DEF OnceInv
<1>1. /\ \A h \in Runners \ {g} : stack'[h] = stack[h]
      /\ pc'[g] \in {"returned", "unwind"}
      /\ \A i \in 1..Len(stack'[g]) :
            \E j \in 1..Len(stack[g]) : stack'[g][i] = stack[g][j]
      /\ cur'[g] = cur[g] \/ \E j \in 1..Len(stack[g]) : cur'[g] = stack[g][j].call
  BY ReturnFrames
<1>2. ~Due(g)' /\ ~Entering(g)' /\ ~Reading(g)' /\ ~Alive(g)' /\ ~Queueing(g)'
  BY <1>1 DEF Due, Entering, HandedOff, Reading, Alive, Queueing
<1>3. pc'[g] # "idle" /\ Begun \subseteq Begun'
  BY <1>1, BegunGrows
<1>4. \A j \in 1..Len(stack[g]) : /\ stack[g][j].call.accepted \notin open'
                                  /\ stack[g][j].call.accepted <= acceptSeqGen'
                                  /\ stack[g][j].call.id \in Begun'
  BY <1>0, <1>3 DEF OnceOf, HandleOf, BegunOf
<1>5. HandleOf(g)'
  BY <1>0, <1>1, <1>2, <1>4 DEF OnceOf, HandleOf
<1>6. BegunOf(g)'
  BY <1>0, <1>1, <1>3, <1>4 DEF OnceOf, BegunOf
<1>7. AttemptOf(g)'
  BY <1>0 DEF OnceOf, AttemptOf
<1>8. ReachOf(g)'
  BY <1>1, <1>2 DEF ReachOf
<1> QED
  BY <1>1, <1>2, <1>3, <1>5, <1>6, <1>7, <1>8 DEF OnceOf

LEMMA EnqueueSetOnce ==
    ASSUME TypeOK, AccountInv, OnceInv, NEW g \in Runners, Effect(g), Accepted(g), EnqueueSet(g)
    PROVE  OnceEffect(g)
<1> USE ActorTypes, Functional
<1>0. OnceOf(g)
  BY DEF OnceInv
<1>1. /\ pc[g] = "enqueueSet" /\ messageQueue' = Append(seen[g], EnqueueCall(cur[g]))
      /\ Return(g, "nil") /\ "nil" \in Results /\ Close(cur[g].accepted)
      /\ UNCHANGED <<acceptSeqGen, seen, ctxDone, attempts, covered>>
  BY DEF EnqueueSet, otherVars, boundVars, ghostVars, Results
<1>2. pc'[g] \in {"returned", "unwind"} /\ ~HandedOff(g) /\ Reading(g) /\ Queueing(g)
  BY <1>1, ReturnsTo DEF HandedOff, Reading, Queueing
<1>3. ~Due(g)'
  BY <1>2 DEF Due, Entering, HandedOff
<1>4. /\ HandleMove(g)
      /\ cancelMark' = cancelMark \/ \A h \in Runners \ {g} : ~Due(h)
      /\ cur[g].accepted \notin open' /\ open' \subseteq open
  BY <1>1, <1>2, <1>3, CloseOwn
<1>5. /\ OnceOf(g)' /\ pc'[g] # "idle" /\ Begun \subseteq Begun'
      /\ \A h \in Runners \ {g} : stack'[h] = stack[h]
  BY <1>1, <1>4, ReturnOnce
<1>6. EnqueueCall(cur[g]) \in Call /\ EnqueueCall(cur[g]).id = cur[g].id
  <2>1. cur[g] \in Call
    OBVIOUS
  <2>2. EnqueueCall(cur[g]) \in Call
    BY <2>1, CallTypes
  <2> QED
    BY <2>1, <2>2 DEF EnqueueCall, Call
<1>7. ASSUME NEW i \in 1..Len(messageQueue')
      PROVE  \/ messageQueue'[i] = EnqueueCall(cur[g])
             \/ i \in 1..Len(seen[g]) /\ messageQueue'[i] = seen[g][i]
  <2>1. seen[g] \in Seq(Call)
    OBVIOUS
  <2> QED
    BY <1>1, <1>6, <2>1
<1>8. ASSUME NEW i \in 1..Len(messageQueue')
      PROVE  messageQueue'[i].id \in Begun' /\ messageQueue'[i].id \notin covered
  BY <1>0, <1>1, <1>2, <1>5, <1>6, <1>7 DEF OnceOf, BegunOf, ReachOf
<1> QED
  BY <1>1, <1>4, <1>5, <1>8 DEF OnceEffect

LEMMA ReturningOnce ==
    ASSUME TypeOK, OnceInv, NEW g \in Runners, Effect(g), Accepted(g), CanceledEntry(g) \/ Unwind(g)
    PROVE  OnceEffect(g)
<1> USE ActorTypes, Functional
<1>0. OnceOf(g) /\ QueueOf
  BY DEF OnceInv
<1>1. PICK r \in Results : Return(g, r)
  <2>1. ret[g] \in Results
    BY DEF TypeOK
  <2> QED
    BY <2>1 DEF CanceledEntry, Unwind, Results
<1>2. /\ pc[g] \in {"canceledEntry", "unwind"}
      /\ UNCHANGED <<messageQueue, acceptSeqGen, open, cancelMark, seen, ctxDone, attempts, covered>>
  BY DEF CanceledEntry, Unwind, agentVars, acceptVars, boundVars, ghostVars
<1>3. cur[g].accepted \notin open
  BY <1>0, <1>2 DEF OnceOf, HandleOf, Entering
<1>4. /\ OnceOf(g)' /\ ~Due(g)' /\ pc'[g] # "idle" /\ Begun \subseteq Begun'
      /\ \A h \in Runners \ {g} : stack'[h] = stack[h]
  BY <1>1, <1>2, <1>3, ReturnOnce
<1> QED
  BY <1>0, <1>2, <1>4 DEF OnceEffect, HandleMove, QueueOf

LEMMA FoldedReads ==
    ASSUME TypeOK, NEW g \in Runners, DrainSet(g), NEW n \in 1..Len(seen'[g])
    PROVE  \E i \in 1..Len(seen[g]) : seen'[g][n] = seen[g][i]
<1> DEFINE I == {i \in 1..Len(seen[g]) :
                   ~CanceledBySeq(seen[g][i].acceptSeq) /\ ~HasRunID(seen[g][i])}
<1>0. seen' = [seen EXCEPT ![g] = At(seen[g], I)]
  BY DEF DrainSet, Keep
<1>1. seen'[g] = At(seen[g], I)
  BY <1>0, Functional, ActorTypes
<1>2. I \in SUBSET (1..Len(seen[g]))
  OBVIOUS
<1> HIDE DEF I
<1>3. n \in 1..Len(At(seen[g], I))
  BY <1>1
<1>4. PICK i \in I : i \in 1..Len(seen[g]) /\ At(seen[g], I)[n] = seen[g][i]
  BY <1>2, <1>3, FilterReads
<1> QED
  BY <1>1, <1>4

LEMMA DrainSetOnce ==
    ASSUME TypeOK, OnceInv, NEW g \in Runners, Effect(g), DrainSet(g)
    PROVE  OnceEffect(g)
<1> USE ActorTypes, Functional
<1>0. OnceOf(g)
  BY DEF OnceInv
<1>1. /\ pc[g] = "drainSet" /\ pc' = [pc EXCEPT ![g] = "fold"]
      /\ UNCHANGED <<acceptSeqGen, open, cancelMark, cur, stack, ctxDone, attempts, covered, orphaned>>
  BY DEF DrainSet, Goto, acceptVars, boundVars
<1>2. pc'[g] = "fold"
  BY <1>1
<1>3. /\ ~Due(g)' /\ ~Entering(g) /\ ~Entering(g)' /\ ~Reading(g)' /\ ~Queueing(g)'
      /\ Reading(g) /\ Alive(g)
  BY <1>1, <1>2 DEF Due, Entering, HandedOff, Reading, Queueing, Alive
<1>4. Begun \subseteq Begun'
  BY <1>2, BegunGrows
<1>5. ASSUME NEW i \in 1..Len(seen'[g]) PROVE seen'[g][i].id \in Begun'
  <2>1. PICK j \in 1..Len(seen[g]) : seen'[g][i] = seen[g][j]
    BY FoldedReads
  <2> QED
    BY <1>0, <1>4, <2>1 DEF OnceOf, BegunOf
<1>6. ASSUME NEW i \in 1..Len(messageQueue')
      PROVE  messageQueue'[i].id \in Begun' /\ messageQueue'[i].id \notin covered
  <2>1. PICK j \in 1..Len(seen[g]) : messageQueue'[i] = seen[g][j]
    BY DrainedReads
  <2> QED
    BY <1>0, <1>3, <1>4, <2>1 DEF OnceOf, BegunOf, ReachOf
<1>7. HandleOf(g)'
  BY <1>0, <1>1, <1>3 DEF OnceOf, HandleOf
<1>8. BegunOf(g)'
  BY <1>0, <1>1, <1>4, <1>5 DEF OnceOf, BegunOf
<1>9. AttemptOf(g)' /\ ReachOf(g)'
  BY <1>0, <1>1, <1>2, <1>3 DEF OnceOf, AttemptOf, ReachOf
<1> QED
  BY <1>1, <1>2, <1>3, <1>6, <1>7, <1>8, <1>9 DEF OnceEffect, OnceOf, HandleMove

LEMMA HandoffEmptyOnce ==
    ASSUME TypeOK, AccountInv, OnceInv, NEW g \in Runners, Effect(g), HandoffEmpty(g)
    PROVE  OnceEffect(g)
<1> USE ActorTypes, Functional
<1>0. OnceOf(g)
  BY DEF OnceInv
<1>1. /\ pc[g] = "handoffSet" /\ pc' = [pc EXCEPT ![g] = "settle"] /\ messageQueue' = <<>>
      /\ cancelMark' = IF acceptedRuns = 0 THEN 0 ELSE cancelMark
      /\ seen' = [seen EXCEPT ![g] = <<>>]
      /\ UNCHANGED <<acceptSeqGen, open, cur, stack, ctxDone, attempts, covered>>
  BY DEF HandoffEmpty, Goto, boundVars
<1>2. pc'[g] = "settle" /\ seen'[g] = <<>>
  BY <1>1
<1>3. /\ ~Due(g)' /\ ~Entering(g) /\ ~Entering(g)' /\ ~Reading(g)' /\ ~Queueing(g)' /\ ~Alive(g)'
  BY <1>1, <1>2 DEF Due, Entering, HandedOff, Reading, Queueing, Alive
<1>4. Begun \subseteq Begun'
  BY <1>2, BegunGrows
<1>5. acceptedRuns = 0 => open = {}
  BY FS_EmptySet DEF AccountInv, HandleAccounting
<1>6. cancelMark' = cancelMark \/ \A h \in Runners \ {g} : ~Due(h)
  BY <1>1, <1>5 DEF OnceInv, OnceOf, HandleOf
<1>7. HandleOf(g)'
  BY <1>0, <1>1, <1>3 DEF OnceOf, HandleOf
<1>8. BegunOf(g)'
  BY <1>0, <1>1, <1>2, <1>4 DEF OnceOf, BegunOf
<1>9. AttemptOf(g)' /\ ReachOf(g)'
  BY <1>0, <1>1, <1>2, <1>3 DEF OnceOf, AttemptOf, ReachOf
<1> QED
  BY <1>1, <1>2, <1>3, <1>6, <1>7, <1>8, <1>9 DEF OnceEffect, OnceOf, HandleMove

(* The call handed the session comes from the queue that was read.          *)
LEMMA HandoffFirst ==
    ASSUME TypeOK, NEW g \in Runners, Uncanceled(g) # <<>>
    PROVE  /\ Head(Uncanceled(g)) \in Call
           /\ \E i \in 1..Len(seen[g]) : Head(Uncanceled(g)) = seen[g][i]
<1>1. Uncanceled(g) \in Seq(Call)
  BY UncanceledType
<1>2. 1 \in 1..Len(Uncanceled(g)) /\ Head(Uncanceled(g)) = Uncanceled(g)[1]
  BY <1>1, TailFacts
<1>3. Head(Uncanceled(g)) \in Call
  BY <1>1, SeqFacts
<1> QED
  BY <1>2, <1>3, UncanceledReads

LEMMA HandoffNextOnce ==
    ASSUME TypeOK, AccountInv, OnceInv, NEW g \in Runners, Effect(g), HandoffNext(g)
    PROVE  OnceEffect(g)
<1> USE ActorTypes, Functional
<1> DEFINE kept == Uncanceled(g)
           next == [Head(kept) EXCEPT !.accepted = acceptSeqGen + 1]
<1>0. OnceOf(g) /\ acceptSeqGen \in Nat /\ cur[g].accepted \in Nat
  <2>1. cur[g] \in Call
    OBVIOUS
  <2> QED
    BY <2>1 DEF OnceInv, TypeOK, Call
<1>1. /\ pc[g] = "handoffSet" /\ kept # <<>> /\ Reserve
      /\ messageQueue' = Tail(kept) /\ seen' = [seen EXCEPT ![g] = <<next>>]
      /\ UNCHANGED <<cancelMark, cur, stack, ctxDone, attempts, covered>>
  BY DEF HandoffNext, boundVars
<1>2. PICK l \in {"handoffPublish", "handoffRun"} : pc' = [pc EXCEPT ![g] = l]
  BY DEF HandoffNext, Goto
<1>3. pc'[g] \in {"handoffPublish", "handoffRun"} /\ seen'[g] = <<next>>
  BY <1>1, <1>2
<1>4. kept \in Seq(Call) /\ Head(kept) \in Call
  BY <1>1, UncanceledType, HandoffFirst
<1>5. next.accepted = acceptSeqGen + 1 /\ next.id = Head(kept).id
  BY <1>4 DEF Call
<1>6. PICK j \in 1..Len(seen[g]) : Head(kept) = seen[g][j]
  BY <1>1, HandoffFirst
<1>7. /\ Due(g)' /\ HandedOff(g)' /\ ~Entering(g) /\ ~Entering(g)' /\ ~Reading(g)'
      /\ ~Queueing(g)' /\ ~Alive(g)' /\ Reading(g)
  BY <1>1, <1>3 DEF Due, Entering, HandedOff, Reading, Queueing, Alive
<1>8. Begun \subseteq Begun'
  BY <1>3, BegunGrows
<1>9. next.id \in Begun' /\ next.id \notin covered
  BY <1>0, <1>5, <1>6, <1>7, <1>8 DEF OnceOf, BegunOf, ReachOf
<1>10. NextCall(g)' = next
  <2> HIDE DEF next, kept
  <2>1. Head(<<next>>) = next
    BY FirstOf
  <2> QED
    BY <1>3, <1>7, <2>1 DEF NextCall
<1>11. ASSUME NEW i \in 1..Len(messageQueue')
       PROVE  messageQueue'[i].id \in Begun' /\ messageQueue'[i].id \notin covered
  <2>1. i + 1 \in 1..Len(kept) /\ messageQueue'[i] = kept[i + 1]
    BY <1>1, <1>4, TailFacts
  <2>2. PICK k \in 1..Len(seen[g]) : kept[i + 1] = seen[g][k]
    BY <2>1, UncanceledReads
  <2> QED
    BY <1>0, <1>7, <1>8, <2>1, <2>2 DEF OnceOf, BegunOf, ReachOf
<1>12. \A i \in 1..Len(seen'[g]) : seen'[g][i].id \in Begun'
  <2> HIDE DEF next, kept
  <2>1. \A i \in 1..Len(<<next>>) : <<next>>[i] = next
    OBVIOUS
  <2> QED
    BY <1>3, <1>9, <2>1
<1> HIDE DEF next, kept
<1>13. HandleOf(g)'
  <2>1. open' = open \cup {acceptSeqGen + 1} /\ acceptSeqGen' = acceptSeqGen + 1
    BY <1>1 DEF Reserve
  <2>2. ASSUME NEW i \in 1..Len(stack[g])
        PROVE  stack[g][i].call.accepted \notin open' /\ stack[g][i].call.accepted <= acceptSeqGen'
    <3>1. stack[g][i].call.accepted \notin open /\ stack[g][i].call.accepted <= acceptSeqGen
      BY <1>0 DEF OnceOf, HandleOf
    <3>2. stack[g] \in Seq(Frame)
      BY DEF TypeOK
    <3>3. stack[g][i] \in Frame
      BY <3>2
    <3>4. stack[g][i].call.accepted \in Nat
      BY <3>3 DEF Frame, Call
    <3> QED
      BY <1>0, <2>1, <3>1, <3>4
  <2> QED
    BY <1>0, <1>1, <1>5, <1>7, <1>10, <2>1, <2>2 DEF OnceOf, HandleOf
<1>14. BegunOf(g)'
  BY <1>0, <1>1, <1>8, <1>12 DEF OnceOf, BegunOf
<1>15. AttemptOf(g)' /\ ReachOf(g)'
  BY <1>0, <1>1, <1>3, <1>7, <1>9, <1>10 DEF OnceOf, AttemptOf, ReachOf
<1>16. HandleMove(g)
  BY <1>1, <1>5, <1>7, <1>10 DEF HandleMove
<1> QED
  BY <1>1, <1>3, <1>11, <1>13, <1>14, <1>15, <1>16 DEF OnceEffect, OnceOf

LEMMA HandoffRunOnce ==
    ASSUME TypeOK, SeenInv, AccountInv, OnceInv, NEW g \in Runners, Effect(g), HandoffRun(g), UNCHANGED marking
    PROVE  OnceEffect(g)
<1> USE ActorTypes, Functional
<1> DEFINE f == [kind |-> "handoff", call |-> cur[g], tools |-> FALSE]
<1>0. OnceOf(g) /\ QueueOf
  BY DEF OnceInv
<1>1. /\ pc[g] = "handoffRun" /\ pc' = [pc EXCEPT ![g] = "entry"]
      /\ stack' = [stack EXCEPT ![g] = <<f>> \o stack[g]]
      /\ cur' = [cur EXCEPT ![g] = Head(seen[g])] /\ seen' = [seen EXCEPT ![g] = <<>>]
      /\ UNCHANGED <<messageQueue, acceptSeqGen, open, cancelMark, ctxDone, attempts, covered>>
  BY DEF HandoffRun, Push, Goto, agentVars, acceptVars, otherVars, boundVars, ghostVars
<1>2. f \in Frame /\ f.call = cur[g] /\ stack \in [Runners -> Seq(Frame)]
  BY FrameTypes DEF TypeOK
<1>3. stack'[g] = <<f>> \o stack[g] /\ \A h \in Runners \ {g} : stack'[h] = stack[h]
  BY <1>1, <1>2
<1> HIDE DEF f
<1>4. pc'[g] = "entry" /\ cur'[g] = Head(seen[g]) /\ seen'[g] = <<>>
  BY <1>1
<1>5. /\ Due(g) /\ NextCall(g) = Head(seen[g]) /\ Due(g)' /\ NextCall(g)' = Head(seen[g])
      /\ ~Entering(g) /\ Entering(g)' /\ ~Reading(g)' /\ ~Queueing(g)' /\ ~Alive(g)'
  BY <1>1, <1>4 DEF Due, NextCall, Entering, HandedOff, Reading, Queueing, Alive
<1>6. Begun \subseteq Begun'
  BY <1>4, BegunGrows
<1>7. ASSUME NEW i \in 1..Len(stack'[g])
      PROVE  stack'[g][i].call = cur[g] \/ \E j \in 1..Len(stack[g]) : stack'[g][i] = stack[g][j]
  BY <1>2, <1>3, Prefixed
<1>8. Head(seen[g]).id \in Begun' /\ Head(seen[g]).accepted \in open
  <2>1. seen[g] # <<>> /\ seen[g] \in Seq(Call)
    BY <1>1 DEF SeenInv, Popping
  <2>2. 1 \in 1..Len(seen[g]) /\ Head(seen[g]) = seen[g][1]
    BY <2>1, TailFacts
  <2> QED
    BY <1>0, <1>5, <1>6, <2>2 DEF OnceOf, BegunOf, HandleOf
<1>9. HandleOf(g)'
  <2>1. Head(seen[g]).accepted <= acceptSeqGen
    <3>1. open \subseteq 1..acceptSeqGen /\ acceptSeqGen \in Nat
      BY DEF AccountInv, HandleAccounting, TypeOK
    <3>2. \A n \in open : n <= acceptSeqGen
      BY <3>1
    <3> QED
      BY <1>8, <3>2
  <2>2. cur[g].accepted \notin open /\ cur[g].accepted <= acceptSeqGen
    BY <1>0, <1>5 DEF OnceOf, HandleOf
  <2>3. \A j \in 1..Len(stack[g]) : stack[g][j].call.accepted \notin open
                                    /\ stack[g][j].call.accepted <= acceptSeqGen
    BY <1>0 DEF OnceOf, HandleOf
  <2>4. ASSUME NEW i \in 1..Len(stack'[g])
        PROVE  stack'[g][i].call.accepted \notin open /\ stack'[g][i].call.accepted <= acceptSeqGen
    BY <1>7, <2>2, <2>3, <2>4
  <2> QED
    <3>1. NextCall(g)'.accepted \in open' /\ cur'[g].accepted <= acceptSeqGen'
      BY <1>1, <1>4, <1>5, <1>8, <2>1
    <3>2. \A i \in 1..Len(stack'[g]) : /\ stack'[g][i].call.accepted \notin open'
                                       /\ stack'[g][i].call.accepted <= acceptSeqGen'
      BY <1>1, <2>4
    <3> QED
      BY <1>5, <3>1, <3>2 DEF HandleOf
<1>10. BegunOf(g)'
  <2>1. cur[g].id \in Begun /\ \A j \in 1..Len(stack[g]) : stack[g][j].call.id \in Begun
    BY <1>0, <1>1 DEF OnceOf, BegunOf
  <2>2. \A i \in 1..Len(stack'[g]) : stack'[g][i].call.id \in Begun'
    BY <1>6, <1>7, <2>1
  <2>3. cur'[g].id \in Begun' /\ \A i \in 1..Len(seen'[g]) : seen'[g][i].id \in Begun'
    BY <1>4, <1>8
  <2> QED
    BY <2>2, <2>3 DEF BegunOf
<1>11. AttemptOf(g)'
  BY <1>0, <1>1 DEF OnceOf, AttemptOf
<1>12. ReachOf(g)'
  <2>1. \A n : Marked(n)' = Marked(n)
    <3>1. \A c \in Cancels : pc'[c] = pc[c] /\ marking'[c] = marking[c]
      BY DEF Effect
    <3> QED
      BY <1>1, <3>1 DEF Marked
  <2> QED
    BY <1>0, <1>1, <1>4, <1>5, <2>1 DEF OnceOf, ReachOf
<1> QED
  BY <1>0, <1>1, <1>3, <1>4, <1>5, <1>6, <1>9, <1>10, <1>11, <1>12
  DEF OnceEffect, OnceOf, HandleMove, QueueOf

LEMMA InFlightBegun ==
    ASSUME TypeOK, SeenInv, OnceInv
    PROVE  InFlight \subseteq Begun
<1> USE ActorTypes, Functional
<1>1. ASSUME NEW g \in Runners, Holding(g) PROVE cur[g].id \in Begun
  BY <1>1 DEF Holding, OnceInv, OnceOf, BegunOf
<1>2. ASSUME NEW g \in Runners, HandedOff(g) PROVE Head(seen[g]).id \in Begun
  <2>1. seen[g] # <<>> /\ seen[g] \in Seq(Call)
    BY <1>2 DEF SeenInv, Popping, HandedOff
  <2>2. 1 \in 1..Len(seen[g]) /\ Head(seen[g]) = seen[g][1]
    BY <2>1, TailFacts
  <2> QED
    BY <2>2 DEF OnceInv, OnceOf, BegunOf
<1>3. \A i \in 1..Len(messageQueue) : messageQueue[i].id \in Begun
  BY DEF OnceInv, QueueOf
<1>4. \A g \in Runners : AwaitsSummary(g) \subseteq Begun
  BY DEF AwaitsSummary, OnceInv, OnceOf, BegunOf
<1>5. \A p \in Prompts : MayRetry(p) => p \in Begun
  BY DEF MayRetry, Begun
<1> QED
  BY <1>1, <1>2, <1>3, <1>4, <1>5 DEF InFlight

LEMMA CancelOnce ==
    ASSUME AInv, RemoteInv, LockInv, OnceInv, NEW c \in Cancels, Cancel(c)
    PROVE  OnceInv'
<1> USE ActorTypes, Functional DEF AInv
<1>0. /\ acceptSeqGen \in Nat /\ open \subseteq 1..acceptSeqGen
      /\ acceptedRuns = Cardinality(open) /\ acceptedRuns \in Nat
      /\ marking \in [Cancels -> Nat] /\ ctxDone \in [Runners -> BOOLEAN]
  BY DEF TypeOK, AccountInv, HandleAccounting
<1>1. /\ mu = None /\ pc' = [pc EXCEPT ![c] = "mark"]
      /\ marking' = [marking EXCEPT ![c] = IF acceptedRuns > 0 THEN acceptSeqGen ELSE 0]
      /\ ctxDone' = [g \in Runners |-> ctxDone[g] \/ activeRequests = g]
      /\ covered' = covered \cup InFlight
      /\ UNCHANGED <<messageQueue, acceptSeqGen, cancelMark, open, cur, stack, seen, attempts, orphaned>>
  BY DEF Cancel, Goto, boundVars
<1>2. pc'[c] = "mark" /\ \A g \in Runners : pc'[g] = pc[g]
  BY <1>1
<1>3. /\ \A g \in Runners : /\ Due(g)' = Due(g) /\ Entering(g)' = Entering(g)
                            /\ NextCall(g)' = NextCall(g)
                            /\ Reading(g)' = Reading(g) /\ Alive(g)' = Alive(g)
                            /\ Queueing(g)' = Queueing(g)
      /\ Begun' = Begun
  BY <1>1, <1>2 DEF Due, Entering, HandedOff, NextCall, Reading, Alive, Queueing, Begun
<1>4. ASSUME NEW g \in Runners PROVE OnceOf(g)'
  <2>0. OnceOf(g) /\ Accepted(g)
    BY DEF OnceInv, RemoteInv
  <2>1. HandleOf(g)' /\ BegunOf(g)' /\ AttemptOf(g)'
    BY <1>1, <1>2, <1>3, <2>0 DEF OnceOf, HandleOf, BegunOf, AttemptOf
  <2>2. (Due(g) => Marked(NextCall(g).accepted))'
    <3> SUFFICES ASSUME Due(g) PROVE Marked(NextCall(g).accepted)'
      BY <1>3
    <3>1. NextCall(g).accepted \in open
      BY <2>0 DEF OnceOf, HandleOf
    <3>2. acceptedRuns # 0
      BY <1>0, <3>1, FS_EmptySet DEF AccountInv
    <3>3. marking'[c] = acceptSeqGen /\ \A n \in open : n <= acceptSeqGen
      BY <1>0, <1>1, <3>2
    <3> QED
      BY <1>2, <1>3, <3>1, <3>3 DEF Marked
  <2>3. ~(pc[g] = "register" \/ Queueing(g)) /\ ~Reading(g)
    BY <1>1 DEF MuInv, Locking, LockInv, Queueing, Reading
  <2>4. Alive(g) => orphaned \/ ctxDone'[g]
    BY <1>1, <2>0 DEF Alive, Accepted, RegInv, Registered, Streams
  <2>5. ReachOf(g)'
    BY <1>1, <1>2, <1>3, <2>2, <2>3, <2>4 DEF ReachOf
  <2> QED
    BY <2>1, <2>5 DEF OnceOf
<1>5. Apart'
  BY <1>3 DEF Apart, OnceInv
<1>6. QueueOf'
  BY <1>1, <1>2, <1>3, InFlightBegun DEF QueueOf, OnceInv, Cancelling
<1> QED
  BY <1>4, <1>5, <1>6 DEF OnceInv

LEMMA ClearingOnce ==
    ASSUME AInv, OnceInv, NEW c \in Cancels \cup Clears,
           \/ c \in Cancels /\ CancelRaises(c)
           \/ c \in Clears /\ ClearQueue(c) /\ UNCHANGED marking
           \/ (ClearGet(c) \/ ClearSet(c)) /\ UNCHANGED marking
    PROVE  OnceInv'
<1> USE ActorTypes, Functional DEF AInv
<1>0. /\ acceptSeqGen \in Nat /\ open \subseteq 1..acceptSeqGen
      /\ cancelMark \in Nat /\ marking \in [Cancels -> Nat]
  BY DEF TypeOK, AccountInv, HandleAccounting
<1>1. /\ UNCHANGED <<marking, acceptSeqGen, open, cur, stack, attempts, ctxDone, covered, orphaned>>
      /\ messageQueue' \in {messageQueue, <<>>}
  BY DEF CancelRaises, ClearQueue, ClearGet, ClearSet, agentVars, acceptVars, otherVars,
     boundVars, ghostVars
<1>2. Effect(c) /\ c \notin Runners
  BY CancellingEffect
<1>3. /\ \A g \in Runners : pc'[g] = pc[g] /\ seen'[g] = seen[g]
      /\ \A d \in Cancels : d # c => pc'[d] = pc[d]
  BY <1>2 DEF Effect
<1>4. /\ \A g \in Runners : /\ Due(g)' = Due(g) /\ Entering(g)' = Entering(g)
                            /\ NextCall(g)' = NextCall(g)
                            /\ Reading(g)' = Reading(g) /\ Alive(g)' = Alive(g)
                            /\ Queueing(g)' = Queueing(g)
      /\ Begun' = Begun
  BY <1>1, <1>3 DEF Due, Entering, HandedOff, NextCall, Reading, Alive, Queueing, Begun
<1>5. ASSUME NEW n \in Nat, Marked(n) PROVE Marked(n)'
  <2>1. CASE c \in Cancels /\ CancelRaises(c)
    <3>1. cancelMark' = IF marking[c] > cancelMark THEN marking[c] ELSE cancelMark
      BY <2>1 DEF CancelRaises
    <3>2. marking[c] \in Nat
      BY <1>0, <2>1
    <3>3. cancelMark' \in Nat /\ cancelMark <= cancelMark' /\ marking[c] <= cancelMark'
      BY <1>0, <3>1, <3>2
    <3>4. CASE n <= cancelMark
      BY <1>0, <3>3, <3>4 DEF Marked
    <3>5. ASSUME NEW d \in Cancels, pc[d] = "mark", n <= marking[d] PROVE Marked(n)'
      <4>1. CASE d = c
        BY <3>2, <3>3, <3>5, <4>1 DEF Marked
      <4>2. CASE d # c
        BY <1>1, <1>3, <3>5, <4>2 DEF Marked
      <4> QED
        BY <4>1, <4>2
    <3> QED
      BY <1>5, <3>4, <3>5 DEF Marked
  <2>2. CASE ~(c \in Cancels /\ CancelRaises(c))
    <3>1. cancelMark' = cancelMark /\ (c \in Cancels => pc[c] # "mark")
      BY <2>2 DEF ClearQueue, ClearGet, ClearSet, agentVars, acceptVars
    <3> QED
      BY <1>1, <1>3, <1>5, <3>1 DEF Marked
  <2> QED
    BY <2>1, <2>2
<1>6. ASSUME NEW g \in Runners PROVE OnceOf(g)'
  <2>0. OnceOf(g)
    BY DEF OnceInv
  <2>1. HandleOf(g)' /\ BegunOf(g)' /\ AttemptOf(g)'
    BY <1>1, <1>3, <1>4, <2>0 DEF OnceOf, HandleOf, BegunOf, AttemptOf
  <2>2. Due(g) => NextCall(g).accepted \in Nat
    <3>1. \A n \in open : n \in Nat
      BY <1>0
    <3> QED
      BY <2>0, <3>1 DEF OnceOf, HandleOf
  <2>3. ReachOf(g)'
    BY <1>1, <1>3, <1>4, <1>5, <2>0, <2>2 DEF OnceOf, ReachOf
  <2> QED
    BY <2>1, <2>3 DEF OnceOf
<1>7. Apart'
  BY <1>4 DEF Apart, OnceInv
<1>8. messageQueue' # <<>> /\ Cancelling => Cancelling'
  <2> SUFFICES ASSUME messageQueue' # <<>>, NEW d \in Cancels, pc[d] \in {"mark", "clear", "clearSet"}
               PROVE  pc'[d] \in {"mark", "clear", "clearSet"}
    BY DEF Cancelling
  <2>1. CASE d # c
    BY <1>3, <2>1
  <2>2. CASE d = c
    BY <1>1, <2>2 DEF CancelRaises, ClearGet, ClearSet, IfQueued, Goto
  <2> QED
    BY <2>1, <2>2
<1>9. QueueOf'
  BY <1>1, <1>4, <1>8 DEF QueueOf, OnceInv
<1> QED
  BY <1>6, <1>7, <1>9 DEF OnceInv

LEMMA OnceInductive ==
    ASSUME Once, AInv, RemoteInv, PoisonInv, OnceInv, [Next]_vars
    PROVE  OnceInv'
<1> USE ActorTypes DEF AInv
<1>0. TypeOK' /\ Remote /\ LockInv /\ BaseInv
  BY Inductive DEF Once, PoisonInv
<1>1. ASSUME NEW p \in Prompts, Prompting(p), UNCHANGED marking PROVE OnceInv'
  <2>1. Effect(p)
    BY <1>1, PromptingEffect
  <2>2. OnceEffect(p)
    BY <1>0, <1>1, <2>1, BeginAcceptedOnce, CallRunOnce, RunAgentReturnsOnce DEF Prompting
  <2> QED
    BY <1>0, <1>1, <2>1, <2>2, OnceStep
<1>2. ASSUME NEW g \in Runners, Run(g), UNCHANGED marking PROVE OnceInv'
  <2>0. Accepted(g)
    BY DEF RemoteInv
  <2>1. CASE Dispatching(g)
    <3>0. Effect(g)
      BY <2>1, DispatchingEffect
    <3>1. ~EnterLocal(g)
      BY <2>0 DEF EnterLocal, Accepted
    <3>2. OnceEffect(g)
      BY <1>0, <1>2, <2>0, <2>1, <3>0, <3>1, DispatchingQuiet, QuietOnce, EnterCanceledOnce,
         RegisterOnce, EnqueueSetOnce, ReturningOnce DEF Dispatching
    <3> QED
      BY <1>0, <1>2, <3>0, <3>2, OnceStep
  <2>2. CASE Streaming(g)
    <3>0. Effect(g)
      BY <2>2, StreamingEffect
    <3>1. ~Compact(g)
      BY <1>0 DEF Compact, Remote, TypeOK
    <3>2. OnceEffect(g)
      BY <1>0, <1>2, <2>2, <3>0, <3>1, StreamingQuiet, QuietOnce, DrainSetOnce DEF Streaming
    <3> QED
      BY <1>0, <1>2, <3>0, <3>2, OnceStep
  <2>3. ~Summarizing(g)
    BY <2>0, SummarizingRemote
  <2>4. CASE Finishing(g)
    <3>0. Effect(g)
      BY <2>4, FinishingEffect
    <3>2. OnceEffect(g)
      BY <1>0, <1>2, <2>0, <2>4, <3>0, FinishingQuiet, QuietOnce, HandoffEmptyOnce,
         HandoffNextOnce, HandoffRunOnce, ReturningOnce DEF Finishing
    <3> QED
      BY <1>0, <1>2, <3>0, <3>2, OnceStep
  <2> QED
    BY <1>2, <2>1, <2>2, <2>3, <2>4 DEF Run
<1>3. ASSUME NEW c \in Cancels, Cancel(c) \/ CancelRaises(c) PROVE OnceInv'
  BY <1>0, <1>3, CancelOnce, ClearingOnce
<1>4. ASSUME NEW c \in Clears, ClearQueue(c), UNCHANGED marking PROVE OnceInv'
  BY <1>4, ClearingOnce
<1>5. ASSUME NEW c \in Cancels \cup Clears, ClearGet(c) \/ ClearSet(c), UNCHANGED marking
      PROVE OnceInv'
  BY <1>5, ClearingOnce
<1>6. CASE UNCHANGED vars
  BY <1>6 DEF vars, agentVars, acceptVars, localVars, otherVars, boundVars, ghostVars, OnceInv,
     OnceOf, HandleOf, BegunOf, AttemptOf, ReachOf, Apart, QueueOf, Due, NextCall, Begun, Cancelling,
     Alive, Marked, Queueing, Entering, HandedOff, Reading
<1> QED
  BY <1>1, <1>2, <1>3, <1>4, <1>5, <1>6 DEF Next, Terminated, Once, Remote

LEMMA InitOnce == Init => OnceInv
<1> SUFFICES ASSUME Init PROVE OnceInv
  OBVIOUS
<1> USE ActorTypes
<1>1. NoCall.accepted = 0
  BY DEF NoCall, NewCall
<1>2. \A g \in Runners : cur[g].accepted = 0 /\ pc[g] = "idle" /\ stack[g] = <<>> /\ seen[g] = <<>>
  BY <1>1 DEF Init
<1> QED
  BY <1>2 DEF Init, OnceInv, OnceOf, HandleOf, BegunOf, AttemptOf, ReachOf, Apart, QueueOf, Due,
     Queueing, Entering, HandedOff, Reading, Alive

(* A Cancel stops all that was submitted before it and nothing that comes   *)
(* after, whatever prompts and other Cancels run beside it: a covered        *)
(* prompt that is still to be dispatched meets a mark as high as its        *)
(* sequence and keeps its handle open until then, so that the mark is not   *)
(* dropped early; a queued one is in the queue the Cancel clears; a running *)
(* one is the registered run, or had its entry removed by another           *)
(* (agent.go:464-480, 565-626, 1823-1876).  A prompt is run once here: a     *)
(* Cancel between the two attempts of a 401 reaches neither.                *)
THEOREM CancelIsSound == Once /\ Spec => []CancelIsExact
<1>1. Init => PoisonInv /\ OnceInv
  BY InitPoison, InitOnce
<1>2. Once /\ AInv /\ RemoteInv /\ PoisonInv /\ OnceInv /\ [Next]_vars => PoisonInv' /\ OnceInv'
  BY PoisonInductive, OnceInductive DEF Once
<1>3. PoisonInv /\ OnceInv => CancelIsExact
  BY DEF PoisonInv, OnceInv, OnceOf, ReachOf, Alive, CancelIsExact, CancelReachesUnlessOrphaned,
     CancelReaches
<1>5. Once /\ Init => RemoteInv
  BY ActorTypes DEF Init, RemoteInv, Accepted, SummaryLabels, Once, Remote
<1>6. Once /\ AInv /\ RemoteInv /\ [Next]_vars => RemoteInv'
  BY RemoteInductive DEF Once
<1>7. CASE Once
  BY <1>1, <1>2, <1>3, <1>5, <1>6, <1>7, Invariance, PTL DEF Spec
<1> QED
  BY <1>7

-----------------------------------------------------------------------------
(* A prompt gets at most one RunComplete from the agent: what may still      *)
(* publish one is in a single place.                                        *)

(* The labels at which a run still owes the RunComplete of its call, and a   *)
(* prompt whose caller may still have its call queued.                      *)
Owing(g) == ~cur[g].hook /\ pc[g] \in
    {"entry", "register", "enqueue", "enqueueSet", "canceledEntry", "prepare", "prepareStep",
     "drainSet", "fold", "step", "finish", "handoff", "handoffSet", "handoffPublish", "settle"}
Own(p) == pc[p] # "done" /\ (pc[p] = "returned" => ret[p] = "provider")

(* The places of prompt p that a step of runner g may touch: positions of    *)
(* the queue, the call g runs, the call it hands over, and g's own prompt.  *)
Place(g, p, x) ==
    \/ x \in 1..Len(messageQueue) /\ messageQueue[x].id = p
    \/ x = 0 /\ Owing(g) /\ cur[g].id = p
    \/ x = -1 /\ HandedOff(g) /\ Head(seen[g]).id = p
    \/ x = -2 /\ g = p /\ Own(p)
Holds(g, p) == \E x \in Int : Place(g, p, x)
Given(g, p) == \E x \in Int : x # -2 /\ Place(g, p, x)
Alone(g, p) == \A x, y \in Int : Place(g, p, x) /\ Place(g, p, y) => x = y
Bearing(g, p) ==
    \/ Owing(g) /\ cur[g].id = p
    \/ HandedOff(g) /\ Head(seen[g]).id = p
    \/ g = p /\ Own(p)

SingleInv == \A p \in Prompts :
    /\ \A g \in Runners : Alone(g, p)
    /\ \A g, h \in Runners : Bearing(g, p) /\ Bearing(h, p) => g = h
    /\ published[p] \in {0, 1}
    /\ published[p] = 1 => \A g \in Runners : ~Holds(g, p)
HookOf(g) ==
    /\ pc[g] # "idle" => Base(g).hook
    /\ stack[g] # <<>> => /\ ~cur[g].hook
                          /\ \A i \in 1..Len(stack[g]) : i # Len(stack[g]) => ~stack[g][i].call.hook
    /\ \A i \in 1..Len(seen[g]) : ~seen[g][i].hook
HookInv ==
    /\ \A i \in 1..Len(messageQueue) : ~messageQueue[i].hook
    /\ \A g \in Runners : HookOf(g)
ReadInv ==
    /\ \A g \in Runners : Reading(g) => seen[g] = messageQueue
    /\ \A c \in Cancels : pc[c] = "clearSet" => seen[c] = messageQueue
TokenInv == SingleInv /\ HookInv /\ ReadInv

(* The caller's prompt is queued: the agent now owes its RunComplete.        *)
QueuesOwn(g, p) == pc[g] = "enqueueSet" /\ cur[g].hook /\ cur[g].id = p

TokenEffect(g) ==
    /\ \A p \in Prompts :
          /\ Alone(g, p)'
          /\ Holds(g, p)' => Holds(g, p)
          /\ \/ published'[p] = published[p]
             \/ published'[p] = published[p] + 1 /\ Holds(g, p) /\ ~Holds(g, p)'
          /\ published'[p] # published[p] => Given(g, p)
          /\ Given(g, p)' => Given(g, p) \/ QueuesOwn(g, p)
    /\ \A i \in 1..Len(messageQueue') : ~messageQueue'[i].hook
    /\ HookOf(g)'
    /\ Reading(g)' => seen'[g] = messageQueue'
    /\ messageQueue' = messageQueue \/ mu = g
    /\ \A h \in Runners \ {g} : stack'[h] = stack[h] /\ ret'[h] = ret[h]

LEMMA PlaceBearing ==
    ASSUME NEW g, NEW p
    PROVE  /\ Holds(g, p) <=> \/ Bearing(g, p)
                              \/ \E x \in 1..Len(messageQueue) : messageQueue[x].id = p
           /\ Bearing(g, p) <=> \E x \in {0, -1, -2} : Place(g, p, x)
<1>1. Bearing(g, p) <=> \E x \in {0, -1, -2} : Place(g, p, x)
  <2>1. \A x \in {0, -1, -2} : ~(x \in 1..Len(messageQueue))
    OBVIOUS
  <2>2. Place(g, p, 0) <=> Owing(g) /\ cur[g].id = p
    BY <2>1 DEF Place
  <2>3. Place(g, p, -1) <=> HandedOff(g) /\ Head(seen[g]).id = p
    BY <2>1 DEF Place
  <2>4. Place(g, p, -2) <=> g = p /\ Own(p)
    BY <2>1 DEF Place
  <2> QED
    BY <2>2, <2>3, <2>4 DEF Bearing
<1>2. \A x \in 1..Len(messageQueue) : x \in Int /\ (messageQueue[x].id = p => Place(g, p, x))
  BY DEF Place
<1>3. \A x \in Int : Place(g, p, x) =>
         x \in {0, -1, -2} \/ (x \in 1..Len(messageQueue) /\ messageQueue[x].id = p)
  BY DEF Place
<1> QED
  BY <1>1, <1>2, <1>3 DEF Holds

(* Whoever bears a prompt is the only one, and it is not queued.            *)
LEMMA BearsAlone ==
    ASSUME SingleInv, NEW p \in Prompts, NEW g \in Runners, NEW h \in Runners \ {g}, Bearing(h, p)
    PROVE  ~Holds(g, p)
<1>1. PICK x \in {0, -1, -2} : Place(h, p, x)
  BY PlaceBearing
<1>2. \A y \in 1..Len(messageQueue) : messageQueue[y].id # p
  <2> SUFFICES ASSUME NEW y \in 1..Len(messageQueue), messageQueue[y].id = p PROVE FALSE
    OBVIOUS
  <2>1. Place(h, p, y) /\ y \in Int /\ x \in Int /\ x # y
    BY DEF Place
  <2> QED
    BY <1>1, <2>1 DEF SingleInv, Alone
<1>3. ~Bearing(g, p)
  BY DEF SingleInv
<1> QED
  BY <1>2, <1>3, PlaceBearing

LEMMA TokenStep ==
    ASSUME TypeOK, LockInv, MuInv, TokenInv, NEW g \in Runners, Effect(g), TokenEffect(g)
    PROVE  TokenInv'
<1> USE ActorTypes DEF TokenInv
<1>1. /\ \A a \in Actors \ {g} : pc'[a] = pc[a] /\ seen'[a] = seen[a]
      /\ \A h \in Runners \ {g} : cur'[h] = cur[h] /\ stack'[h] = stack[h] /\ ret'[h] = ret[h]
  BY DEF Effect, TokenEffect
<1>2. ASSUME NEW h \in Runners \ {g}, NEW p \in Prompts
      PROVE  /\ Bearing(h, p)' = Bearing(h, p)
             /\ \A x \in {0, -1, -2} : Place(h, p, x)' => Place(h, p, x)
  <2>1. /\ Owing(h)' = Owing(h) /\ HandedOff(h)' = HandedOff(h) /\ Own(h)' = Own(h)
        /\ cur'[h] = cur[h] /\ seen'[h] = seen[h]
    BY <1>1 DEF Owing, HandedOff, Own
  <2>2. \A x \in {0, -1, -2} : ~(x \in 1..Len(messageQueue'))
    OBVIOUS
  <2> QED
    BY <2>1, <2>2 DEF Bearing, Place
<1>3. ASSUME NEW p \in Prompts, NEW h \in Runners \ {g}, Bearing(h, p)
      PROVE  ~Holds(g, p) /\ ~Holds(g, p)'
  BY <1>3, BearsAlone DEF TokenEffect
<1>4. ASSUME NEW p \in Prompts, NEW h \in Runners PROVE Alone(h, p)'
  <2>1. CASE h = g
    BY <2>1 DEF TokenEffect
  <2>2. CASE h # g
    <3> SUFFICES ASSUME NEW x \in Int, NEW y \in Int, Place(h, p, x)', Place(h, p, y)'
                 PROVE  x = y
      BY DEF Alone
    <3>1. Alone(g, p)' /\ Alone(h, p)
      BY DEF TokenEffect, SingleInv
    <3>2. ASSUME NEW z \in Int, Place(h, p, z)'
          PROVE  \/ z \in {0, -1, -2} /\ Place(h, p, z)
                 \/ z \in 1..Len(messageQueue') /\ Place(g, p, z)'
      <4>1. CASE z \in 1..Len(messageQueue')
        BY <3>2, <4>1 DEF Place
      <4>2. CASE ~(z \in 1..Len(messageQueue'))
        <5>1. z \in {0, -1, -2}
          BY <3>2, <4>2 DEF Place
        <5> QED
          BY <1>2, <2>2, <3>2, <5>1
      <4> QED
        BY <4>1, <4>2
    <3>3. ASSUME NEW z \in {0, -1, -2}, Place(h, p, z) PROVE ~Holds(g, p)'
      BY <1>3, <2>2, <3>3, PlaceBearing
    <3>4. ASSUME NEW z \in Int, Place(g, p, z)' PROVE Holds(g, p)'
      BY <3>4 DEF Holds
    <3> QED
      BY <3>1, <3>2, <3>3, <3>4 DEF Alone
  <2> QED
    BY <2>1, <2>2
<1>5. ASSUME NEW p \in Prompts, NEW h \in Runners, NEW k \in Runners,
             Bearing(h, p)', Bearing(k, p)'
      PROVE  h = k
  <2>1. Bearing(g, p)' => Holds(g, p)'
    <3>1. Bearing(g, p)' => \E x \in {0, -1, -2} : Place(g, p, x)'
      <4>1. \A x \in {0, -1, -2} : ~(x \in 1..Len(messageQueue'))
        OBVIOUS
      <4>2. Place(g, p, 0)' <=> (Owing(g) /\ cur[g].id = p)'
        BY <4>1 DEF Place
      <4>3. Place(g, p, -1)' <=> (HandedOff(g) /\ Head(seen[g]).id = p)'
        BY <4>1 DEF Place
      <4>4. Place(g, p, -2)' <=> (g = p /\ Own(p))'
        BY <4>1 DEF Place
      <4> QED
        BY <4>2, <4>3, <4>4 DEF Bearing
    <3> QED
      BY <3>1 DEF Holds
  <2>2. ~(h = g /\ k # g) /\ ~(h # g /\ k = g)
    BY <1>2, <1>3, <1>5, <2>1
  <2>3. CASE h # g /\ k # g
    BY <1>2, <1>5, <2>3 DEF SingleInv
  <2> QED
    BY <2>2, <2>3
<1>6. ASSUME NEW p \in Prompts, NEW h \in Runners, Holds(h, p)'
      PROVE  Holds(g, p)' \/ (h # g /\ Bearing(h, p))
  <2>1. PICK x \in Int : Place(h, p, x)'
    BY <1>6 DEF Holds
  <2>2. CASE x \in 1..Len(messageQueue')
    <3>1. Place(g, p, x)' \/ h = g \/ x \in {0, -1, -2}
      BY <2>1 DEF Place
    <3> QED
      BY <1>6, <2>2, <3>1 DEF Holds
  <2>3. CASE ~(x \in 1..Len(messageQueue'))
    <3>1. x \in {0, -1, -2}
      BY <2>1, <2>3 DEF Place
    <3> QED
      BY <1>2, <1>6, <2>1, <3>1, PlaceBearing
  <2> QED
    BY <2>2, <2>3
<1>7. ASSUME NEW p \in Prompts
      PROVE  published'[p] \in {0, 1} /\ (published'[p] = 1 => \A h \in Runners : ~Holds(h, p)')
  <2>1. CASE published'[p] = published[p]
    <3>1. published[p] = 1 => \A h \in Runners : ~Holds(h, p)
      BY DEF SingleInv
    <3>2. published[p] = 1 => ~Holds(g, p)'
      BY <3>1 DEF TokenEffect
    <3>3. published[p] = 1 => \A h \in Runners : ~Bearing(h, p)
      BY <3>1, PlaceBearing
    <3> QED
      BY <1>6, <2>1, <3>2, <3>3 DEF SingleInv
  <2>2. CASE published'[p] = published[p] + 1 /\ Holds(g, p) /\ ~Holds(g, p)'
    <3>1. published[p] = 0
      BY <2>2 DEF SingleInv
    <3>2. \A h \in Runners \ {g} : ~Bearing(h, p)
      BY <1>3, <2>2
    <3> QED
      BY <1>6, <2>2, <3>1, <3>2
  <2> QED
    BY <2>1, <2>2 DEF TokenEffect
<1>8. SingleInv'
  BY <1>4, <1>5, <1>7 DEF SingleInv
<1>9. HookInv'
  <2>1. ASSUME NEW h \in Runners, h # g PROVE HookOf(h)'
    BY <1>1, <2>1 DEF HookInv, HookOf, Base
  <2> QED
    BY <2>1 DEF HookInv, TokenEffect
<1>10. ReadInv'
  <2>1. ASSUME NEW h \in Runners, h # g, Reading(h)' PROVE seen'[h] = messageQueue'
    <3>1. Reading(h)
      BY <1>1, <2>1 DEF Reading
    <3>2. mu = h
      BY <3>1 DEF Reading, MuInv, Locking, LockInv, Queueing
    <3> QED
      BY <1>1, <2>1, <3>1, <3>2 DEF ReadInv, TokenEffect
  <2>2. ASSUME NEW c \in Cancels, pc'[c] = "clearSet" PROVE seen'[c] = messageQueue'
    <3>1. pc[c] = "clearSet" /\ mu = c /\ c # g
      BY <1>1, <2>2 DEF LockInv
    <3> QED
      BY <1>1, <3>1 DEF ReadInv, TokenEffect
  <2> QED
    BY <2>1, <2>2 DEF ReadInv, TokenEffect
<1> QED
  BY <1>8, <1>9, <1>10

(* A step that brings a prompt to no new place.                             *)
Stays(g) == \A p \in Prompts, x \in Int : Place(g, p, x)' => Place(g, p, x)

LEMMA StaysAlone ==
    ASSUME SingleInv, NEW g \in Runners, Stays(g), NEW p \in Prompts
    PROVE  Alone(g, p)' /\ (Holds(g, p)' => Holds(g, p)) /\ (Given(g, p)' => Given(g, p))
BY DEF SingleInv, Stays, Alone, Holds, Given

Lingers(g) ==
    /\ UNCHANGED messageQueue
    /\ Owing(g)' => Owing(g) /\ cur'[g] = cur[g]
    /\ HandedOff(g)' => HandedOff(g) /\ seen'[g] = seen[g]
    /\ g \in Prompts /\ Own(g)' => Own(g)

LEMMA LingersStays ==
    ASSUME NEW g \in Runners, Lingers(g)
    PROVE  Stays(g)
<1> SUFFICES ASSUME NEW p \in Prompts, NEW x \in Int, Place(g, p, x)'
             PROVE  Place(g, p, x)
  BY DEF Stays
<1> QED
  BY DEF Place, Lingers

(* A run that publishes for its own call owes nothing afterwards.           *)
LEMMA PublishSpends ==
    ASSUME TypeOK, SingleInv, NEW g \in Runners, NEW o, PublishRunComplete({cur[g]}, o),
           Lingers(g), ~cur[g].hook => Owing(g), ~Owing(g)', NEW p \in Prompts
    PROVE  /\ \/ published'[p] = published[p]
              \/ published'[p] = published[p] + 1 /\ Holds(g, p) /\ ~Holds(g, p)'
           /\ published'[p] # published[p] => Given(g, p)
<1>1. published'[p] = published[p] + IF cur[g].id = p /\ ~cur[g].hook THEN 1 ELSE 0
  BY DEF PublishRunComplete
<1>2. published[p] \in Nat
  BY DEF TypeOK
<1>3. CASE cur[g].id = p /\ ~cur[g].hook
  <2>1. Place(g, p, 0)
    BY <1>3 DEF Place
  <2>2. ASSUME NEW x \in Int, Place(g, p, x)' PROVE FALSE
    <3>1. Place(g, p, x)
      BY <2>2, LingersStays DEF Stays
    <3>2. x = 0
      BY <2>1, <3>1 DEF SingleInv, Alone
    <3>3. 0 \notin 1..Len(messageQueue')
      OBVIOUS
    <3> QED
      BY <2>2, <3>2, <3>3 DEF Place
  <2> QED
    BY <1>1, <1>3, <2>1, <2>2 DEF Holds, Given
<1>4. CASE ~(cur[g].id = p /\ ~cur[g].hook)
  BY <1>1, <1>2, <1>4
<1> QED
  BY <1>3, <1>4

LEMMA KeepsHook ==
    ASSUME HookInv, NEW g \in Runners, UNCHANGED <<cur, stack>>, pc[g] # "idle",
           seen'[g] \in {seen[g], messageQueue, <<>>}
    PROVE  HookOf(g)'
<1>1. \A i \in 1..Len(seen'[g]) : ~seen'[g][i].hook
  <2>1. CASE seen'[g] = <<>>
    BY <2>1
  <2> QED
    BY <2>1 DEF HookInv, HookOf
<1> QED
  BY <1>1 DEF HookInv, HookOf, Base

LEMMA ReturnHook ==
    ASSUME TypeOK, HookInv, NEW g \in Runners, Accepted(g), NEW r \in Results, Return(g, r),
           pc[g] # "idle", seen'[g] = seen[g]
    PROVE  HookOf(g)'
<1> USE ActorTypes, Functional
<1>0. HookOf(g) /\ Base(g)' = Base(g)
  BY ReturnBase DEF HookInv
<1>1. CASE stack[g] = <<>>
  BY <1>0, <1>1 DEF Return, HookOf
<1>2. CASE stack[g] # <<>>
  <2>1. stack \in [Runners -> Seq(Frame)] /\ stack[g] \in Seq(Frame)
    BY DEF TypeOK
  <2>2. /\ Len(stack[g]) \in Nat /\ Len(stack[g]) >= 1 /\ Head(stack[g]) = stack[g][1]
        /\ Len(Tail(stack[g])) = Len(stack[g]) - 1
        /\ \A i \in 1..Len(Tail(stack[g])) :
              i + 1 \in 1..Len(stack[g]) /\ Tail(stack[g])[i] = stack[g][i + 1]
        /\ Len(stack[g]) = 1 => Tail(stack[g]) = <<>>
    BY <1>2, <2>1, TailFacts
  <2>3. /\ stack' = [stack EXCEPT ![g] = Tail(stack[g])]
        /\ cur' = [cur EXCEPT ![g] = Head(stack[g]).call]
    BY <1>2 DEF Return
  <2>4. stack'[g] = Tail(stack[g]) /\ cur'[g] = stack[g][1].call
    BY <2>1, <2>2, <2>3
  <2>5. ASSUME stack'[g] # <<>> PROVE ~cur'[g].hook
    <3>1. 1 # Len(stack[g]) /\ 1 \in 1..Len(stack[g])
      BY <2>2, <2>4, <2>5
    <3> QED
      BY <1>0, <1>2, <2>4, <3>1 DEF HookOf
  <2>6. ASSUME NEW i \in 1..Len(stack'[g]), i # Len(stack'[g]) PROVE ~stack'[g][i].call.hook
    <3>1. i + 1 \in 1..Len(stack[g]) /\ i + 1 # Len(stack[g]) /\ stack'[g][i] = stack[g][i + 1]
      BY <2>2, <2>4, <2>6
    <3> QED
      BY <1>0, <1>2, <3>1 DEF HookOf
  <2> QED
    BY <1>0, <2>5, <2>6 DEF HookOf
<1> QED
  BY <1>1, <1>2

(* A step that moves no prompt and publishes nothing.                       *)
Idles(g) ==
    /\ Lingers(g) /\ UNCHANGED published
    /\ HookOf(g)'
    /\ Reading(g)' => seen'[g] = messageQueue
    /\ \A h \in Runners \ {g} : stack'[h] = stack[h] /\ ret'[h] = ret[h]

LEMMA IdlesToken ==
    ASSUME TokenInv, NEW g \in Runners, Idles(g)
    PROVE  TokenEffect(g)
BY StaysAlone, LingersStays DEF TokenInv, Idles, Lingers, TokenEffect, HookInv

LEMMA PromptingIdles ==
    ASSUME TypeOK, Remote, BaseInv, TokenInv, NEW p \in Prompts, Prompting(p)
    PROVE  Idles(p)
<1> USE ActorTypes, Functional
<1>0. ret \in [Runners -> Results] /\ HookOf(p)
  BY DEF TypeOK, TokenInv, HookInv
<1>1. CASE BeginAccepted(p)
  <2>1. /\ pc[p] = "idle" /\ pc' = [pc EXCEPT ![p] = "accepted"]
        /\ cur' = [cur EXCEPT ![p] = NewCall(p, acceptSeqGen + 1)]
        /\ UNCHANGED <<messageQueue, stack, seen, ret, published>>
    BY <1>1 DEF BeginAccepted, Remote, Goto, otherVars, eventVars
  <2>2. pc'[p] = "accepted" /\ cur'[p].hook /\ stack[p] = <<>>
    BY <2>1 DEF NewCall, BaseInv
  <2>3. HookOf(p)'
    BY <1>0, <2>1, <2>2 DEF HookOf, Base
  <2> QED
    BY <2>1, <2>2, <2>3 DEF Idles, Lingers, Owing, HandedOff, Own, Reading
<1>2. CASE CallRun(p)
  <2>1. /\ pc[p] = "accepted" \/ (pc[p] = "returned" /\ ret[p] = "provider")
        /\ pc' = [pc EXCEPT ![p] = "entry"]
        /\ UNCHANGED <<messageQueue, cur, stack, seen, ret, published>>
    BY <1>2 DEF CallRun, Goto, agentVars, eventVars
  <2>2. pc'[p] = "entry" /\ stack[p] = <<>> /\ cur[p].hook
    BY <1>0, <2>1 DEF BaseInv, HookOf, Base
  <2>3. HookOf(p)'
    BY <2>1, KeepsHook DEF TokenInv
  <2> QED
    BY <2>1, <2>2, <2>3 DEF Idles, Lingers, Owing, HandedOff, Own, Reading
<1>3. CASE RunAgentReturns(p)
  <2>1. /\ pc[p] \in {"accepted", "returned"} /\ pc' = [pc EXCEPT ![p] = "done"]
        /\ UNCHANGED <<messageQueue, cur, stack, seen, published>>
    BY <1>3 DEF RunAgentReturns, Goto, eventVars
  <2>2. pc'[p] = "done" /\ \A h \in Runners \ {p} : ret'[h] = ret[h]
    BY <1>0, <1>3, <2>1 DEF RunAgentReturns
  <2>3. HookOf(p)'
    BY <2>1, KeepsHook DEF TokenInv
  <2> QED
    BY <2>1, <2>2, <2>3 DEF Idles, Lingers, Owing, HandedOff, Own, Reading
<1> QED
  BY <1>1, <1>2, <1>3 DEF Prompting

LEMMA DispatchingIdles ==
    ASSUME TypeOK, TokenInv, NEW g \in Runners, Accepted(g),
           \/ EnterCanceled(g) \/ EnterBusy(g) \/ EnterIdle(g) \/ Register(g) \/ Enqueue(g)
           \/ Prepare(g) \/ PrepareFails(g)
    PROVE  Idles(g)
<1> USE ActorTypes, Functional
<1>0. ret \in [Runners -> Results]
  BY DEF TypeOK
<1>1. /\ UNCHANGED <<messageQueue, cur, stack, published>>
      /\ seen'[g] = seen[g] \/ (Enqueue(g) /\ seen'[g] = messageQueue)
      /\ \A h \in Runners \ {g} : ret'[h] = ret[h]
  BY <1>0 DEF EnterCanceled, EnterBusy, EnterIdle, Register, Enqueue, Prepare, PrepareFails,
     agentVars, otherVars, eventVars, Accepted, Goto
<1>2. PICK l \in {"canceledEntry", "enqueue", "register", "prepare", "enqueueSet", "prepareStep",
                  "unwind"} :
        pc' = [pc EXCEPT ![g] = l] /\ (l = "enqueueSet" => Enqueue(g))
  BY DEF EnterCanceled, EnterBusy, EnterIdle, Register, Enqueue, Prepare, PrepareFails, Accepted, Goto
<1>3. pc'[g] = l
  BY <1>2
<1>4. pc[g] \in {"entry", "register", "enqueue", "prepare"}
  BY DEF EnterCanceled, EnterBusy, EnterIdle, AtDispatch, Register, Enqueue, Prepare, PrepareFails
<1>5. HookOf(g)'
  BY <1>1, <1>4, KeepsHook DEF TokenInv
<1>6. Reading(g)' => seen'[g] = messageQueue
  <2> SUFFICES ASSUME l = "enqueueSet" PROVE seen'[g] = messageQueue
    BY <1>2, <1>3 DEF Reading
  <2> QED
    BY <1>2 DEF Enqueue
<1> QED
  BY <1>1, <1>3, <1>4, <1>5, <1>6 DEF Idles, Lingers, Owing, HandedOff, Own

LEMMA StreamingIdles ==
    ASSUME TypeOK, TokenInv, NEW g \in Runners,
           \/ DrainQueue(g) \/ Fold(g) \/ StreamFails(g) \/ NextStep(g) \/ StreamEnds(g)
           \/ FinishRun(g) \/ Handoff(g)
    PROVE  Idles(g)
<1> USE ActorTypes, Functional
<1>0. ret \in [Runners -> Results]
  BY DEF TypeOK
<1>1. /\ UNCHANGED <<messageQueue, cur, stack, published>>
      /\ seen'[g] \in {seen[g], messageQueue, <<>>}
      /\ \A h \in Runners \ {g} : ret'[h] = ret[h]
  BY <1>0 DEF DrainQueue, Fold, StreamFails, NextStep, StreamEnds, FinishRun, Handoff,
     agentVars, otherVars, eventVars, Goto
<1>2. PICK l \in {"drainSet", "step", "settle", "prepareStep", "finish", "handoff", "handoffSet"} :
        pc' = [pc EXCEPT ![g] = l] /\ (l \in {"drainSet", "handoffSet"} => seen'[g] = messageQueue)
  BY DEF DrainQueue, Fold, StreamFails, NextStep, StreamEnds, FinishRun, Handoff, Goto
<1>3. pc'[g] = l
  BY <1>2
<1>4. pc[g] \in {"prepareStep", "fold", "step", "finish", "handoff"}
  BY DEF DrainQueue, Fold, StreamFails, NextStep, StreamEnds, FinishRun, Handoff
<1>5. HookOf(g)'
  BY <1>1, <1>4, KeepsHook DEF TokenInv
<1> QED
  BY <1>1, <1>2, <1>3, <1>4, <1>5 DEF Idles, Lingers, Owing, HandedOff, Own, Reading

LEMMA UnwindIdles ==
    ASSUME TypeOK, TokenInv, NEW g \in Runners, Accepted(g), Unwind(g)
    PROVE  Idles(g)
<1> USE ActorTypes, Functional
<1>1. /\ Return(g, ret[g]) /\ ret[g] \in Results /\ pc[g] = "unwind"
      /\ UNCHANGED <<messageQueue, seen, published>>
  BY DEF Unwind, eventVars, TypeOK
<1>2. /\ pc'[g] \in {"returned", "unwind"}
      /\ \A h \in Runners \ {g} : stack'[h] = stack[h]
  BY <1>1, ReturnFrames
<1>3. \A h \in Runners \ {g} : ret'[h] = ret[h]
  BY <1>1 DEF Return, TypeOK
<1>4. HookOf(g)'
  BY <1>1, ReturnHook DEF TokenInv
<1> QED
  BY <1>1, <1>2, <1>3, <1>4 DEF Idles, Lingers, Owing, HandedOff, Own, Reading

(* A run that publishes for its own call.                                   *)
LEMMA PublishingToken ==
    ASSUME TypeOK, TokenInv, NEW g \in Runners, Accepted(g),
           CanceledEntry(g) \/ HandoffPublish(g) \/ Settle(g)
    PROVE  TokenEffect(g)
<1> USE ActorTypes, Functional
<1>0. ret \in [Runners -> Results]
  BY DEF TypeOK
<1>1. /\ \E o : PublishRunComplete({cur[g]}, o)
      /\ UNCHANGED <<messageQueue, seen>>
      /\ pc[g] \in {"canceledEntry", "handoffPublish", "settle"}
  BY DEF CanceledEntry, HandoffPublish, Settle, agentVars
<1>2. /\ pc'[g] \in {"returned", "handoffRun", "unwind"}
      /\ pc'[g] = "returned" => ret'[g] # "provider"
      /\ pc'[g] = "handoffRun" => pc[g] = "handoffPublish"
      /\ HookOf(g)'
      /\ \A h \in Runners \ {g} : stack'[h] = stack[h] /\ ret'[h] = ret[h]
  <2>1. CASE CanceledEntry(g)
    <3>1. PICK r \in {"nil", "error"} : Return(g, r)
      BY <2>1 DEF CanceledEntry
    <3>2. r \in Results /\ r # "provider" /\ ret' = [ret EXCEPT ![g] = r]
      BY <3>1 DEF Results, Return
    <3>3. pc'[g] = "unwind" \/ (pc'[g] = "returned" /\ ret'[g] = r)
      BY <3>1, <3>2, ReturnBase
    <3>4. HookOf(g)'
      BY <1>1, <3>1, <3>2, ReturnHook DEF TokenInv
    <3>5. \A h \in Runners \ {g} : stack'[h] = stack[h]
      BY <3>1, <3>2, ReturnType
    <3> QED
      BY <1>0, <3>2, <3>3, <3>4, <3>5
  <2>2. CASE HandoffPublish(g) \/ Settle(g)
    <3>1. PICK l \in {"handoffRun", "unwind"} : pc' = [pc EXCEPT ![g] = l] /\ (l = "handoffRun" => HandoffPublish(g))
      BY <2>2 DEF HandoffPublish, Settle, Goto
    <3>2. UNCHANGED <<cur, stack, ret>> /\ pc'[g] = l
      BY <2>2, <3>1 DEF HandoffPublish, Settle
    <3>3. HookOf(g)'
      BY <1>1, <3>2, KeepsHook DEF TokenInv
    <3> QED
      BY <3>1, <3>2, <3>3 DEF HandoffPublish
  <2> QED
    BY <2>1, <2>2
<1>3. Lingers(g) /\ ~Owing(g)' /\ (~cur[g].hook => Owing(g)) /\ ~Reading(g)'
  BY <1>1, <1>2 DEF Lingers, Owing, HandedOff, Own, Reading
<1>4. ASSUME NEW p \in Prompts
      PROVE  /\ \/ published'[p] = published[p]
                \/ published'[p] = published[p] + 1 /\ Holds(g, p) /\ ~Holds(g, p)'
             /\ published'[p] # published[p] => Given(g, p)
  BY <1>1, <1>3, PublishSpends DEF TokenInv
<1>5. ASSUME NEW p \in Prompts
      PROVE  Alone(g, p)' /\ (Holds(g, p)' => Holds(g, p)) /\ (Given(g, p)' => Given(g, p))
  BY <1>3, LingersStays, StaysAlone DEF TokenInv
<1> QED
  BY <1>1, <1>2, <1>3, <1>4, <1>5 DEF TokenEffect, TokenInv, HookInv

(* A run hands over the call it took from the queue.                        *)
LEMMA HandoffRunToken ==
    ASSUME TypeOK, TokenInv, SeenInv, NEW g \in Runners, HandoffRun(g)
    PROVE  TokenEffect(g)
<1> USE ActorTypes, Functional
<1> DEFINE f == [kind |-> "handoff", call |-> cur[g], tools |-> FALSE]
<1>1. /\ pc[g] = "handoffRun" /\ pc' = [pc EXCEPT ![g] = "entry"]
      /\ stack' = [stack EXCEPT ![g] = <<f>> \o stack[g]]
      /\ cur' = [cur EXCEPT ![g] = Head(seen[g])]
      /\ seen' = [seen EXCEPT ![g] = <<>>]
      /\ UNCHANGED <<messageQueue, published, ret>>
  BY DEF HandoffRun, Push, Goto, agentVars, otherVars, eventVars
<1>2. f \in Frame /\ f.call = cur[g] /\ stack \in [Runners -> Seq(Frame)]
  BY FrameTypes DEF TypeOK
<1>3. stack'[g] = <<f>> \o stack[g] /\ \A h \in Runners \ {g} : stack'[h] = stack[h]
  BY <1>1, <1>2
<1> HIDE DEF f
<1>4. Base(g)' = Base(g)
  BY <1>2, <1>3, PushBase
<1>5. pc'[g] = "entry" /\ cur'[g] = Head(seen[g]) /\ seen'[g] = <<>>
  BY <1>1
<1>6. seen[g] # <<>> /\ seen[g] \in Seq(Call) /\ Head(seen[g]) = seen[g][1] /\ 1 \in 1..Len(seen[g])
  BY <1>1 DEF SeenInv, Popping
<1>7. HookOf(g)'
  <2>0. HookOf(g) /\ stack[g] \in Seq(Frame) /\ Len(stack[g]) \in Nat
    BY <1>2 DEF TokenInv, HookInv
  <2>1. ~cur'[g].hook /\ Base(g)'.hook
    BY <1>1, <1>4, <1>5, <1>6, <2>0 DEF HookOf
  <2>2. Len(stack'[g]) = Len(stack[g]) + 1 /\ stack'[g][1] = f
        /\ \A i \in 2..Len(stack'[g]) : i - 1 \in 1..Len(stack[g]) /\ stack'[g][i] = stack[g][i - 1]
    BY <1>2, <1>3, <2>0
  <2>3. ASSUME NEW i \in 1..Len(stack'[g]), i # Len(stack'[g]) PROVE ~stack'[g][i].call.hook
    <3>1. CASE i = 1
      <4>1. stack[g] # <<>>
        <5>1. stack[g] = <<>> => Len(stack[g]) = 0
          BY <2>0
        <5> QED
          BY <2>0, <2>2, <2>3, <3>1, <5>1
      <4> QED
        BY <1>2, <2>0, <2>2, <3>1, <4>1 DEF HookOf
    <3>2. CASE i # 1
      <4>1. i - 1 \in 1..Len(stack[g]) /\ i - 1 # Len(stack[g]) /\ stack'[g][i] = stack[g][i - 1]
        BY <2>0, <2>2, <2>3, <3>2
      <4>2. stack[g] # <<>>
        BY <2>0, <4>1
      <4> QED
        BY <2>0, <4>1, <4>2 DEF HookOf
    <3> QED
      BY <3>1, <3>2
  <2>4. \A i \in 1..Len(seen'[g]) : ~seen'[g][i].hook
    BY <1>5
  <2> QED
    BY <2>1, <2>3, <2>4 DEF HookOf
<1>8. ASSUME NEW p \in Prompts
      PROVE  Alone(g, p)' /\ (Holds(g, p)' => Holds(g, p)) /\ (Given(g, p)' => Given(g, p))
  <2>1. ASSUME NEW x \in Int, Place(g, p, x)'
        PROVE  IF x = 0 THEN Place(g, p, -1) ELSE x # -1 /\ Place(g, p, x)
    <3>1. CASE x \in 1..Len(messageQueue)
      BY <1>1, <2>1, <3>1 DEF Place
    <3>2. CASE x = 0
      BY <1>1, <1>5, <2>1, <3>2 DEF Place, Owing, HandedOff
    <3>3. CASE x = -1
      BY <1>5, <2>1, <3>3 DEF Place, HandedOff
    <3>4. CASE x = -2
      <4>1. g = p
        BY <2>1, <3>4 DEF Place
      <4> QED
        BY <1>1, <3>4, <4>1 DEF Place, Own
    <3> QED
      BY <1>1, <2>1, <3>1, <3>2, <3>3, <3>4 DEF Place
  <2>2. Alone(g, p)
    BY DEF TokenInv, SingleInv
  <2>3. ASSUME NEW x \in Int, NEW y \in Int, Place(g, p, x)', Place(g, p, y)'
        PROVE  x = y
    BY <2>1, <2>2, <2>3 DEF Alone
  <2> QED
    BY <2>1, <2>3 DEF Alone, Holds, Given
<1> QED
  BY <1>1, <1>3, <1>5, <1>7, <1>8 DEF TokenEffect, TokenInv, HookInv, Reading

(* A step that moves every place of a prompt to one of its own.             *)
LEMMA MovesAlone ==
    ASSUME SingleInv, NEW g \in Runners, NEW p \in Prompts, NEW F,
           \A x \in Int : Place(g, p, x)' => F[x] \in Int /\ Place(g, p, F[x]),
           \A x, y \in Int : Place(g, p, x)' /\ Place(g, p, y)' /\ F[x] = F[y] => x = y
    PROVE  /\ Alone(g, p)' /\ (Holds(g, p)' => Holds(g, p))
           /\ (\A x \in Int : Place(g, p, x)' /\ x # -2 => F[x] # -2)
                 => (Given(g, p)' => Given(g, p))
           /\ \A j \in Int : Place(g, p, j) /\ (\A x \in Int : Place(g, p, x)' => F[x] # j)
                             => /\ Holds(g, p) /\ ~Holds(g, p)'
                                /\ j # -2 => Given(g, p)
<1>0. Alone(g, p)
  BY DEF SingleInv
<1>1. ASSUME NEW x \in Int, NEW y \in Int, Place(g, p, x)', Place(g, p, y)'
      PROVE  x = y
  BY <1>0, <1>1 DEF Alone
<1>2. /\ Holds(g, p)' => Holds(g, p)
      /\ (\A x \in Int : Place(g, p, x)' /\ x # -2 => F[x] # -2)
            => (Given(g, p)' => Given(g, p))
  BY DEF Holds, Given
<1>3. ASSUME NEW j \in Int, Place(g, p, j), \A x \in Int : Place(g, p, x)' => F[x] # j
      PROVE  Holds(g, p) /\ ~Holds(g, p)' /\ (j # -2 => Given(g, p))
  BY <1>0, <1>3 DEF Alone, Holds, Given
<1> QED
  BY <1>1, <1>2, <1>3 DEF Alone

LEMMA DropsPublish ==
    ASSUME TypeOK, NEW C, PublishCanceledQueueDrops(C), NEW p \in Prompts
    PROVE  \/ published'[p] = published[p]
           \/ published'[p] = published[p] + 1 /\ \E c \in C : c.id = p
<1>1. published[p] \in Nat
  BY DEF TypeOK
<1>2. PICK D \in SUBSET C :
        published'[p] = published[p] + IF \E c \in D : c.id = p /\ ~c.hook THEN 1 ELSE 0
  BY DEF PublishCanceledQueueDrops, PublishRunComplete
<1> QED
  BY <1>1, <1>2

LEMMA EnqueueSetToken ==
    ASSUME TypeOK, Remote, LockInv, BaseInv, TokenInv, NEW g \in Runners, Accepted(g),
           EnqueueSet(g)
    PROVE  TokenEffect(g)
<1> USE ActorTypes, Functional
<1> DEFINE c == EnqueueCall(cur[g])
<1>1. /\ pc[g] = "enqueueSet" /\ messageQueue' = Append(seen[g], c)
      /\ Return(g, "nil") /\ "nil" \in Results
      /\ UNCHANGED <<published, seen>>
  BY DEF EnqueueSet, otherVars, eventVars, Results
<1>2. /\ c \in Call /\ c.id = cur[g].id /\ ~c.hook
      /\ seen[g] = messageQueue /\ messageQueue \in Seq(Call) /\ mu = g
  <2>1. cur[g] \in Call
    BY DEF TypeOK
  <2>2. c \in Call
    BY <2>1, CallTypes
  <2> QED
    BY <1>1, <2>1, <2>2 DEF EnqueueCall, Call, TokenInv, ReadInv, Reading, LockInv, Queueing, TypeOK
<1> HIDE DEF c
<1>3. /\ Len(messageQueue) \in Nat /\ Len(messageQueue') = Len(messageQueue) + 1
      /\ messageQueue'[Len(messageQueue) + 1] = c
      /\ \A i \in 1..Len(messageQueue) : messageQueue'[i] = messageQueue[i]
  BY <1>1, <1>2
<1>4. /\ pc'[g] = "unwind" \/ (pc'[g] = "returned" /\ ret'[g] = "nil")
      /\ stack[g] = <<>> => pc'[g] = "returned"
  <2>1. stack[g] = <<>> => pc'[g] = "returned"
    BY <1>1 DEF Return, Goto
  <2> QED
    BY <1>1, <2>1, ReturnBase
<1>5. /\ \A h \in Runners \ {g} : stack'[h] = stack[h] /\ ret'[h] = ret[h]
      /\ HookOf(g)'
  <2>1. \A h \in Runners \ {g} : stack'[h] = stack[h]
    BY <1>1, ReturnType
  <2>2. \A h \in Runners \ {g} : ret'[h] = ret[h]
    BY <1>1 DEF Return, TypeOK
  <2> QED
    BY <1>1, <2>1, <2>2, ReturnHook DEF TokenInv
<1>6. /\ cur[g].hook => g = cur[g].id /\ stack[g] = <<>>
      /\ ~cur[g].hook => Owing(g)
  <2>1. g \in Prompts
    BY DEF Remote, Runners
  <2>2. cur[g].hook => stack[g] = <<>>
    BY DEF TokenInv, HookInv, HookOf
  <2> QED
    BY <1>1, <2>1, <2>2 DEF BaseInv, Base, Owing
<1>7. ASSUME NEW p \in Prompts
      PROVE  /\ Alone(g, p)' /\ (Holds(g, p)' => Holds(g, p))
             /\ Given(g, p)' => Given(g, p) \/ QueuesOwn(g, p)
  <2> DEFINE last == Len(messageQueue) + 1
             F == [x \in Int |-> IF x # last THEN x ELSE IF cur[g].hook THEN -2 ELSE 0]
  <2>0. /\ last \in Int /\ last >= 1 /\ \A x \in Int : x # last => F[x] = x
        /\ cur[g].hook => F[last] = -2
        /\ ~cur[g].hook => F[last] = 0
    BY <1>3
  <2> HIDE DEF F, last
  <2>1. ASSUME NEW x \in Int, Place(g, p, x)', x # last
        PROVE  Place(g, p, x) /\ (x = -2 => ~cur[g].hook) /\ x # 0
    <3>1. CASE x \in 1..Len(messageQueue)
      BY <1>3, <2>1, <3>1 DEF Place, last
    <3>2. ~(x \in {0, -1})
      BY <1>3, <1>4, <2>1 DEF Place, Owing, HandedOff
    <3>3. CASE x = -2
      <4>1. g = p /\ Own(g)'
        BY <1>3, <2>1, <3>3 DEF Place
      <4>2. ~cur[g].hook
        BY <1>4, <1>6, <4>1 DEF Own
      <4> QED
        BY <1>1, <3>3, <4>1, <4>2 DEF Place, Own
    <3>4. x \in 1..Len(messageQueue) \/ x \in {0, -1} \/ x = -2
      BY <1>3, <2>1 DEF Place, last
    <3> QED
      BY <3>1, <3>2, <3>3, <3>4
  <2>2. ASSUME NEW x \in Int, Place(g, p, x)', x = last
        PROVE  Place(g, p, F[x]) /\ cur[g].id = p
    <3>1. cur[g].id = p
      <4>1. last \in 1..Len(messageQueue') /\ messageQueue'[last] = c /\ last \notin {0, -1, -2}
        BY <1>3 DEF last
      <4> QED
        BY <1>2, <2>2, <4>1 DEF Place
    <3>2. CASE cur[g].hook
      BY <1>1, <1>6, <2>0, <2>2, <3>1, <3>2 DEF Place, Own
    <3>3. CASE ~cur[g].hook
      BY <1>6, <2>0, <2>2, <3>1, <3>3 DEF Place
    <3> QED
      BY <3>1, <3>2, <3>3
  <2>3. \A x \in Int : Place(g, p, x)' => F[x] \in Int /\ Place(g, p, F[x])
    BY <2>0, <2>1, <2>2
  <2>4. \A x, y \in Int : Place(g, p, x)' /\ Place(g, p, y)' /\ F[x] = F[y] => x = y
    BY <2>0, <2>1
  <2>5. QueuesOwn(g, p) \/ \A x \in Int : Place(g, p, x)' /\ x # -2 => F[x] # -2
    BY <1>1, <2>0, <2>2 DEF QueuesOwn
  <2> QED
    BY <2>3, <2>4, <2>5, MovesAlone DEF TokenInv
<1>8. \A i \in 1..Len(messageQueue') : ~messageQueue'[i].hook
  BY <1>2, <1>3 DEF TokenInv, HookInv
<1> QED
  BY <1>1, <1>2, <1>4, <1>5, <1>7, <1>8 DEF TokenEffect, Reading

(* A position of a filtered queue is a position of the queue.               *)
LEMMA FilterPlaces ==
    ASSUME TypeOK, NEW g \in Runners, seen[g] = messageQueue, NEW I \in SUBSET (1..Len(seen[g])),
           NEW n \in 1..Len(At(seen[g], I))
    PROVE  /\ Nth(I, n) \in I /\ Nth(I, n) \in 1..Len(messageQueue)
           /\ Place(g, At(seen[g], I)[n].id, Nth(I, n))
           /\ \A m \in 1..Len(At(seen[g], I)) : Nth(I, m) = Nth(I, n) => m = n
<1>1. seen[g] \in Seq(Call)
  BY ActorTypes DEF TypeOK
<1>2. /\ Nth(I, n) \in I /\ At(seen[g], I)[n] = seen[g][Nth(I, n)]
      /\ \A m \in 1..Len(At(seen[g], I)) : Nth(I, m) = Nth(I, n) => m = n
  BY <1>1, AtElements
<1> QED
  BY <1>2 DEF Place

LEMMA FilteredHooks ==
    ASSUME TypeOK, HookInv, NEW g \in Runners, seen[g] = messageQueue,
           NEW I \in SUBSET (1..Len(seen[g])), NEW n \in 1..Len(At(seen[g], I))
    PROVE  ~At(seen[g], I)[n].hook
<1>1. PICK i \in I : i \in 1..Len(seen[g]) /\ At(seen[g], I)[n] = seen[g][i]
  BY FilterReads
<1> QED
  BY <1>1 DEF HookInv

LEMMA DrainSetToken ==
    ASSUME TypeOK, MuInv, TokenInv, NEW g \in Runners, DrainSet(g)
    PROVE  TokenEffect(g)
<1> USE ActorTypes, Functional
<1> DEFINE I == {i \in 1..Len(seen[g]) :
                   ~CanceledBySeq(seen[g][i].acceptSeq) /\ HasRunID(seen[g][i])}
           J == {i \in 1..Len(seen[g]) :
                   ~CanceledBySeq(seen[g][i].acceptSeq) /\ ~HasRunID(seen[g][i])}
           drops == {seen[g][i] : i \in {k \in 1..Len(seen[g]) :
                                           CanceledBySeq(seen[g][k].acceptSeq)}}
<1>1. /\ pc[g] = "drainSet" /\ pc' = [pc EXCEPT ![g] = "fold"]
      /\ UNCHANGED <<cur, stack, ret>>
  BY DEF DrainSet, Goto
<1>2. /\ messageQueue' = At(seen[g], I) /\ seen' = [seen EXCEPT ![g] = At(seen[g], J)]
      /\ PublishCanceledQueueDrops(drops)
  BY DEF DrainSet, Keep, Elems
<1>3. /\ I \in SUBSET (1..Len(seen[g])) /\ J \in SUBSET (1..Len(seen[g]))
      /\ \A i \in I : ~CanceledBySeq(seen[g][i].acceptSeq)
  OBVIOUS
<1>4. \A c \in drops : \E k \in 1..Len(seen[g]) : c = seen[g][k] /\ CanceledBySeq(seen[g][k].acceptSeq)
  OBVIOUS
<1> HIDE DEF I, J, drops
<1>5. /\ pc'[g] = "fold" /\ seen'[g] = At(seen[g], J)
      /\ seen[g] = messageQueue /\ mu = g
  BY <1>1, <1>2 DEF TokenInv, ReadInv, Reading, MuInv, Locking
<1>6. /\ \A n \in 1..Len(At(seen[g], I)) : ~At(seen[g], I)[n].hook
      /\ \A n \in 1..Len(At(seen[g], J)) : ~At(seen[g], J)[n].hook
  BY <1>3, <1>5, FilteredHooks DEF TokenInv
<1>7. HookOf(g)' /\ \A i \in 1..Len(messageQueue') : ~messageQueue'[i].hook
  <2>1. \A i \in 1..Len(seen'[g]) : ~seen'[g][i].hook
    BY <1>3, <1>5, <1>6
  <2>2. \A i \in 1..Len(messageQueue') : ~messageQueue'[i].hook
    BY <1>2, <1>3, <1>6
  <2>3. HookOf(g)
    BY DEF TokenInv, HookInv
  <2> QED
    BY <1>1, <1>5, <2>1, <2>2, <2>3 DEF HookOf, Base
<1>8. ASSUME NEW p \in Prompts
      PROVE  /\ Alone(g, p)' /\ (Holds(g, p)' => Holds(g, p))
             /\ \/ published'[p] = published[p]
                \/ published'[p] = published[p] + 1 /\ Holds(g, p) /\ ~Holds(g, p)'
             /\ published'[p] # published[p] => Given(g, p)
             /\ Given(g, p)' => Given(g, p)
  <2> DEFINE F == [x \in Int |-> IF x \in 1..Len(messageQueue') THEN Nth(I, x) ELSE x]
  <2>1. ASSUME NEW x \in 1..Len(messageQueue')
        PROVE  /\ x \in Int /\ F[x] = Nth(I, x) /\ F[x] \in I /\ F[x] \in 1..Len(messageQueue)
               /\ Place(g, messageQueue'[x].id, F[x])
               /\ \A y \in 1..Len(messageQueue') : Nth(I, y) = Nth(I, x) => y = x
    <3>1. x \in 1..Len(At(seen[g], I))
      BY <1>2
    <3>2. x \in Int /\ F[x] = Nth(I, x)
      OBVIOUS
    <3> HIDE DEF F
    <3> QED
      BY <1>2, <1>3, <1>5, <3>1, <3>2, FilterPlaces
  <2>2. ASSUME NEW x \in Int, Place(g, p, x)', x \notin 1..Len(messageQueue')
        PROVE  F[x] = x /\ x < 1 /\ Place(g, p, x)
    <3>1. F[x] = x
      BY <2>2
    <3>2. x \in {0, -1, -2}
      BY <2>2 DEF Place
    <3> QED
      BY <1>1, <1>5, <2>2, <3>1, <3>2 DEF Place, Owing, HandedOff, Own
  <2>3. \A x \in 1..Len(messageQueue') : Place(g, p, x)' => messageQueue'[x].id = p
    BY DEF Place
  <2> HIDE DEF F
  <2>4. \A x \in Int : Place(g, p, x)' => F[x] \in Int /\ Place(g, p, F[x])
    BY <2>1, <2>2, <2>3
  <2>5. \A x, y \in Int : Place(g, p, x)' /\ Place(g, p, y)' /\ F[x] = F[y] => x = y
    BY <2>1, <2>2
  <2>6. ASSUME NEW c \in drops, c.id = p PROVE Holds(g, p) /\ ~Holds(g, p)' /\ Given(g, p)
    <3>1. PICK k \in 1..Len(seen[g]) : c = seen[g][k] /\ CanceledBySeq(seen[g][k].acceptSeq)
      BY <1>4
    <3>2. k \in Int /\ k # -2 /\ Place(g, p, k)
      BY <1>5, <2>6, <3>1 DEF Place
    <3>3. \A x \in Int : Place(g, p, x)' => F[x] # k
      BY <1>3, <2>1, <2>2, <3>1
    <3> QED
      BY <2>4, <2>5, <3>2, <3>3, MovesAlone DEF TokenInv
  <2>7. \A x \in Int : Place(g, p, x)' /\ x # -2 => F[x] # -2
    BY <2>1, <2>2
  <2>8. Alone(g, p)' /\ (Holds(g, p)' => Holds(g, p)) /\ (Given(g, p)' => Given(g, p))
    BY <2>4, <2>5, <2>7, MovesAlone DEF TokenInv
  <2> QED
    BY <1>2, <2>6, <2>8, DropsPublish
<1> QED
  BY <1>1, <1>5, <1>7, <1>8 DEF TokenEffect, Reading

LEMMA HandoffEmptyToken ==
    ASSUME TypeOK, MuInv, TokenInv, NEW g \in Runners, HandoffEmpty(g)
    PROVE  TokenEffect(g)
<1> USE ActorTypes, Functional
<1>1. /\ pc[g] = "handoffSet" /\ pc' = [pc EXCEPT ![g] = "settle"]
      /\ messageQueue' = <<>> /\ seen' = [seen EXCEPT ![g] = <<>>]
      /\ PublishCanceledQueueDrops(HandoffDrops(g))
      /\ UNCHANGED <<cur, stack, ret>>
  BY DEF HandoffEmpty, Goto
<1>2. /\ pc'[g] = "settle" /\ seen'[g] = <<>> /\ seen[g] = messageQueue /\ mu = g
      /\ \A x \in Int : x \notin 1..Len(messageQueue')
  BY <1>1 DEF TokenInv, ReadInv, Reading, MuInv, Locking
<1>3. HookOf(g)'
  BY <1>1, <1>2, KeepsHook DEF TokenInv
<1>4. ASSUME NEW p \in Prompts, NEW x \in Int, Place(g, p, x)'
      PROVE  Place(g, p, x) /\ x < 1
  BY <1>1, <1>2, <1>4 DEF Place, Owing, HandedOff, Own
<1>5. ASSUME NEW p \in Prompts
      PROVE  /\ Alone(g, p)' /\ (Holds(g, p)' => Holds(g, p))
             /\ \/ published'[p] = published[p]
                \/ published'[p] = published[p] + 1 /\ Holds(g, p) /\ ~Holds(g, p)'
             /\ published'[p] # published[p] => Given(g, p)
             /\ Given(g, p)' => Given(g, p)
  <2>1. Alone(g, p)' /\ (Holds(g, p)' => Holds(g, p)) /\ (Given(g, p)' => Given(g, p))
    BY <1>4 DEF Alone, Holds, Given, TokenInv, SingleInv
  <2>2. ASSUME NEW c \in HandoffDrops(g), c.id = p
        PROVE  Holds(g, p) /\ ~Holds(g, p)' /\ Given(g, p)
    <3>1. PICK k \in 1..Len(seen[g]) : c = seen[g][k]
      BY DropsRead
    <3>2. k \in Int /\ k >= 1 /\ Place(g, p, k)
      BY <1>2, <2>2, <3>1 DEF Place
    <3> QED
      BY <1>4, <3>2 DEF Alone, Holds, Given, TokenInv, SingleInv
  <2> QED
    BY <1>1, <2>1, <2>2, DropsPublish
<1> QED
  BY <1>1, <1>2, <1>3, <1>5 DEF TokenEffect, Reading

(* The first of the queued calls is taken over, the others stay in order.   *)
LEMMA HandoffNextToken ==
    ASSUME TypeOK, MuInv, TokenInv, NEW g \in Runners, HandoffNext(g)
    PROVE  TokenEffect(g)
<1> USE ActorTypes, Functional
<1> DEFINE I == {i \in 1..Len(seen[g]) : ~CanceledBySeq(seen[g][i].acceptSeq)}
           kept == Uncanceled(g)
           next == [Head(kept) EXCEPT !.accepted = acceptSeqGen + 1]
<1>1. /\ pc[g] = "handoffSet" /\ kept # <<>>
      /\ messageQueue' = Tail(kept) /\ seen' = [seen EXCEPT ![g] = <<next>>]
      /\ PublishCanceledQueueDrops(HandoffDrops(g))
      /\ UNCHANGED <<cur, stack, ret>>
  BY DEF HandoffNext
<1>2. PICK l \in {"handoffPublish", "handoffRun"} : pc' = [pc EXCEPT ![g] = l]
  BY DEF HandoffNext, Goto
<1>3. /\ kept = At(seen[g], I) /\ I \in SUBSET (1..Len(seen[g]))
      /\ \A i \in I : ~CanceledBySeq(seen[g][i].acceptSeq)
  BY DEF Uncanceled, Keep
<1>4. kept \in Seq(Call)
  BY UncanceledType
<1>5. /\ pc'[g] = l /\ seen[g] = messageQueue /\ mu = g
  BY <1>1, <1>2 DEF TokenInv, ReadInv, Reading, MuInv, Locking
<1>6. next.id = kept[1].id /\ next.hook = kept[1].hook /\ Len(<<next>>) = 1 /\ <<next>>[1] = next
      /\ Head(<<next>>) = next
  <2>1. Head(kept) \in Call /\ Head(kept) = kept[1]
    BY <1>1, <1>4, SeqFacts, TailFacts
  <2>2. next.id = kept[1].id /\ next.hook = kept[1].hook
    BY <2>1 DEF Call
  <2> HIDE DEF next
  <2>3. Len(<<next>>) = 1 /\ <<next>>[1] = next /\ Head(<<next>>) = next
    BY FirstOf
  <2> QED
    BY <2>2, <2>3
<1> HIDE DEF I, kept, next
<1>7. /\ Len(kept) \in Nat /\ 1 \in 1..Len(kept) /\ Len(messageQueue') = Len(kept) - 1
      /\ \A i \in 1..Len(messageQueue') : i + 1 \in 1..Len(kept) /\ messageQueue'[i] = kept[i + 1]
  BY <1>1, <1>4, TailFacts
<1>8. seen'[g] = <<next>>
  BY <1>1
<1>9. \A n \in 1..Len(kept) : ~kept[n].hook
  BY <1>3, <1>5, FilteredHooks DEF TokenInv
<1>10. HookOf(g)' /\ \A i \in 1..Len(messageQueue') : ~messageQueue'[i].hook
  <2>1. \A i \in 1..Len(seen'[g]) : ~seen'[g][i].hook
    BY <1>6, <1>7, <1>8, <1>9
  <2>2. HookOf(g)
    BY DEF TokenInv, HookInv
  <2> QED
    BY <1>1, <1>5, <1>7, <1>9, <2>1, <2>2 DEF HookOf, Base
<1>11. ASSUME NEW n \in 1..Len(kept)
       PROVE  /\ Nth(I, n) \in I /\ Nth(I, n) \in 1..Len(messageQueue)
              /\ Place(g, kept[n].id, Nth(I, n))
              /\ \A m \in 1..Len(kept) : Nth(I, m) = Nth(I, n) => m = n
  BY <1>3, <1>5, FilterPlaces
<1>12. ASSUME NEW p \in Prompts
       PROVE  /\ Alone(g, p)' /\ (Holds(g, p)' => Holds(g, p))
              /\ \/ published'[p] = published[p]
                 \/ published'[p] = published[p] + 1 /\ Holds(g, p) /\ ~Holds(g, p)'
              /\ published'[p] # published[p] => Given(g, p)
              /\ Given(g, p)' => Given(g, p)
  <2> DEFINE F == [x \in Int |-> IF x \in 1..Len(messageQueue') THEN Nth(I, x + 1)
                                 ELSE IF x = -1 THEN Nth(I, 1) ELSE x]
  <2>0. /\ \A x \in 1..Len(messageQueue') : x \in Int /\ F[x] = Nth(I, x + 1)
        /\ F[-1] = Nth(I, 1)
        /\ F[0] = 0 /\ F[-2] = -2
    OBVIOUS
  <2> HIDE DEF F
  <2>1. ASSUME NEW x \in Int, Place(g, p, x)', x \in 1..Len(messageQueue')
        PROVE  Place(g, p, F[x]) /\ F[x] \in I /\ F[x] \in 1..Len(messageQueue)
    <3>1. kept[x + 1].id = p
      <4>1. x \notin {0, -1, -2}
        BY <2>1
      <4> QED
        BY <1>7, <2>1, <4>1 DEF Place
    <3> QED
      BY <1>7, <1>11, <2>0, <2>1, <3>1
  <2>2. ASSUME Place(g, p, -1)'
        PROVE  Place(g, p, F[-1]) /\ F[-1] \in I /\ F[-1] \in 1..Len(messageQueue)
    <3>1. kept[1].id = p
      BY <1>6, <1>8, <2>2 DEF Place
    <3> QED
      BY <1>7, <1>11, <2>0, <3>1
  <2>3. ASSUME NEW x \in Int, Place(g, p, x)', x \notin 1..Len(messageQueue'), x # -1
        PROVE  F[x] = x /\ x < 1 /\ Place(g, p, x)
    <3>1. x \in {0, -2}
      BY <2>3 DEF Place
    <3> QED
      BY <1>1, <1>5, <2>0, <2>3, <3>1 DEF Place, Owing, HandedOff, Own
  <2>4. \A x \in Int : Place(g, p, x)' => F[x] \in Int /\ Place(g, p, F[x])
    BY <2>1, <2>2, <2>3
  <2>5. ASSUME NEW x \in Int, NEW y \in Int, Place(g, p, x)', Place(g, p, y)', F[x] = F[y]
        PROVE  x = y
    <3>1. \A n, m \in 1..Len(kept) : Nth(I, m) = Nth(I, n) => m = n
      BY <1>11
    <3>2. CASE x \in 1..Len(messageQueue') /\ y \in 1..Len(messageQueue')
      BY <1>7, <2>0, <2>5, <3>1, <3>2
    <3>3. CASE x \in 1..Len(messageQueue') /\ y = -1
      BY <1>7, <2>0, <2>5, <3>1, <3>3
    <3>4. CASE y \in 1..Len(messageQueue') /\ x = -1
      BY <1>7, <2>0, <2>5, <3>1, <3>4
    <3> QED
      BY <2>1, <2>2, <2>3, <2>5, <3>2, <3>3, <3>4
  <2>6. ASSUME NEW c \in HandoffDrops(g), c.id = p
        PROVE  Holds(g, p) /\ ~Holds(g, p)' /\ Given(g, p)
    <3>1. PICK k \in 1..Len(seen[g]) : c = seen[g][k] /\ CanceledBySeq(seen[g][k].acceptSeq)
      BY DropsRead
    <3>2. k \in Int /\ k # -2 /\ Place(g, p, k)
      BY <1>5, <2>6, <3>1 DEF Place
    <3>3. \A x \in Int : Place(g, p, x)' => F[x] # k
      BY <1>3, <2>1, <2>2, <2>3, <3>1
    <3> QED
      BY <2>4, <2>5, <3>2, <3>3, MovesAlone DEF TokenInv
  <2>7. \A x \in Int : Place(g, p, x)' /\ x # -2 => F[x] # -2
    BY <2>1, <2>2, <2>3
  <2>8. Alone(g, p)' /\ (Holds(g, p)' => Holds(g, p)) /\ (Given(g, p)' => Given(g, p))
    BY <2>4, <2>5, <2>7, MovesAlone DEF TokenInv
  <2> QED
    BY <1>1, <2>6, <2>8, DropsPublish
<1> QED
  BY <1>1, <1>2, <1>5, <1>10, <1>12 DEF TokenEffect, Reading

(* Cancel reads the queue and deletes it under the lock: what it answers is  *)
(* what it drops, and nobody else has read it.                              *)
LEMMA CancelToken ==
    ASSUME TypeOK, MuInv, LockInv, TokenInv, NEW c \in Cancels,
           Cancel(c) \/ CancelRaises(c) \/ ClearGet(c)
    PROVE  TokenInv'
<1> USE ActorTypes, Functional
<1>1. /\ UNCHANGED <<messageQueue, cur, stack, ret, published>>
      /\ seen'[c] = seen[c] \/ (ClearGet(c) /\ seen'[c] = messageQueue)
  BY DEF Cancel, CancelRaises, ClearGet, agentVars, otherVars, eventVars
<1>2. PICK l \in {"mark", "clear", "done", "clearSet"} :
        pc' = [pc EXCEPT ![c] = l] /\ (l = "clearSet" => ClearGet(c))
  BY DEF Cancel, CancelRaises, IfQueued, ClearGet, Goto
<1>3. /\ \A a \in Actors \ {c} : pc'[a] = pc[a] /\ seen'[a] = seen[a]
      /\ c \notin Runners
  BY <1>2, CancellingEffect DEF Effect
<1>4. ASSUME NEW g \in Runners
      PROVE  /\ pc'[g] = pc[g] /\ seen'[g] = seen[g]
             /\ Owing(g)' = Owing(g) /\ HandedOff(g)' = HandedOff(g) /\ Own(g)' = Own(g)
             /\ Reading(g)' = Reading(g)
  BY <1>1, <1>3 DEF Owing, HandedOff, Own, Reading
<1>5. \A g \in Runners, p \in Prompts, x \in Int : Place(g, p, x)' = Place(g, p, x)
  BY <1>1, <1>4 DEF Place
<1>6. \A g \in Runners, p \in Prompts : Bearing(g, p)' = Bearing(g, p)
  BY <1>1, <1>4 DEF Bearing
<1>7. SingleInv'
  BY <1>1, <1>5, <1>6 DEF TokenInv, SingleInv, Alone, Holds
<1>8. HookInv'
  BY <1>1, <1>4 DEF TokenInv, HookInv, HookOf, Base
<1>9. ReadInv'
  <2>1. pc'[c] = "clearSet" => seen'[c] = messageQueue
    BY <1>2 DEF ClearGet
  <2> QED
    BY <1>1, <1>3, <1>4, <2>1 DEF TokenInv, ReadInv
<1> QED
  BY <1>7, <1>8, <1>9 DEF TokenInv

LEMMA ClearToken ==
    ASSUME TypeOK, MuInv, LockInv, TokenInv, NEW c \in Cancels, ClearSet(c)
    PROVE  TokenInv'
<1> USE ActorTypes, Functional
<1> DEFINE drops == {seen[c][i] : i \in 1..Len(seen[c])}
<1>1. /\ pc[c] = "clearSet" /\ pc' = [pc EXCEPT ![c] = "done"]
      /\ messageQueue' = <<>> /\ PublishCanceledQueueDrops(drops)
      /\ UNCHANGED <<cur, stack, seen, ret>>
  BY DEF ClearSet, Goto
<1>2. \A d \in drops : \E i \in 1..Len(seen[c]) : d = seen[c][i]
  OBVIOUS
<1> HIDE DEF drops
<1>3. /\ pc'[c] = "done" /\ \A a \in Actors \ {c} : pc'[a] = pc[a]
      /\ mu = c /\ seen[c] = messageQueue /\ c \notin Runners
      /\ \A x \in Int : x \notin 1..Len(messageQueue')
  BY <1>1 DEF LockInv, TokenInv, ReadInv
<1>4. ASSUME NEW g \in Runners
      PROVE  /\ pc'[g] = pc[g] /\ ~Reading(g)
             /\ Owing(g)' = Owing(g) /\ HandedOff(g)' = HandedOff(g) /\ Own(g)' = Own(g)
             /\ Reading(g)' = Reading(g)
  <2>1. mu # g
    BY <1>3
  <2>2. ~Reading(g)
    BY <2>1 DEF Reading, MuInv, Locking, LockInv, Queueing
  <2> QED
    BY <1>1, <1>3, <2>2 DEF Owing, HandedOff, Own, Reading
<1>5. ASSUME NEW g \in Runners, NEW p \in Prompts, NEW x \in Int, Place(g, p, x)'
      PROVE  Place(g, p, x) /\ x < 1
  BY <1>1, <1>3, <1>4, <1>5 DEF Place
<1>6. \A g \in Runners, p \in Prompts : Bearing(g, p)' = Bearing(g, p)
  BY <1>1, <1>4 DEF Bearing
<1>7. ASSUME NEW p \in Prompts
      PROVE  published'[p] \in {0, 1} /\ (published'[p] = 1 => \A g \in Runners : ~Holds(g, p)')
  <2>1. published[p] \in {0, 1} /\ (published[p] = 1 => \A g \in Runners : ~Holds(g, p))
    BY DEF TokenInv, SingleInv
  <2>2. ASSUME NEW d \in drops, d.id = p
        PROVE  published[p] = 0 /\ \A g \in Runners : ~Holds(g, p)'
    <3>1. PICK k \in 1..Len(seen[c]) : d = seen[c][k]
      BY <1>2
    <3>2. \A g \in Runners : k \in Int /\ k >= 1 /\ Place(g, p, k)
      BY <1>3, <2>2, <3>1 DEF Place
    <3>3. \A g \in Runners : Holds(g, p) /\ ~Holds(g, p)'
      BY <1>5, <3>2 DEF Alone, Holds, TokenInv, SingleInv
    <3>4. Runners # {}
      BY ConstantsAssumption
    <3> QED
      BY <2>1, <3>3, <3>4
  <2>3. \A g \in Runners : Holds(g, p)' => Holds(g, p)
    BY <1>5 DEF Holds
  <2>4. \/ published'[p] = published[p]
        \/ published'[p] = published[p] + 1 /\ \E d \in drops : d.id = p
    BY <1>1, DropsPublish
  <2> QED
    BY <2>1, <2>2, <2>3, <2>4
<1>8. SingleInv'
  BY <1>5, <1>6, <1>7 DEF TokenInv, SingleInv, Alone
<1>9. HookInv'
  <2>1. \A i \in 1..Len(messageQueue') : ~messageQueue'[i].hook
    BY <1>1
  <2>2. \A g \in Runners : HookOf(g)'
    BY <1>1, <1>4 DEF TokenInv, HookInv, HookOf, Base
  <2> QED
    BY <2>1, <2>2 DEF HookInv
<1>10. ReadInv'
  <2>1. \A d \in Cancels : d # c => pc[d] # "clearSet"
    BY <1>3 DEF LockInv
  <2> QED
    BY <1>3, <1>4, <2>1 DEF ReadInv
<1> QED
  BY <1>8, <1>9, <1>10 DEF TokenInv

LEMMA TokenInductive ==
    ASSUME Remote, Clears = {}, AInv, RemoteInv, PoisonInv, TokenInv, [Next]_vars
    PROVE  TokenInv'
<1> USE ActorTypes DEF AInv, PoisonInv
<1>1. ASSUME NEW p \in Prompts, Prompting(p) PROVE TokenInv'
  <2>1. TokenEffect(p)
    BY <1>1, PromptingIdles, IdlesToken
  <2> QED
    BY <1>1, <2>1, PromptingEffect, TokenStep
<1>2. ASSUME NEW g \in Runners, Run(g) PROVE TokenInv'
  <2>0. Accepted(g)
    BY DEF RemoteInv
  <2>1. CASE Dispatching(g)
    <3>1. ~EnterLocal(g)
      BY <2>0 DEF EnterLocal, Accepted
    <3>2. TokenEffect(g)
      BY <2>0, <2>1, <3>1, DispatchingIdles, IdlesToken, EnqueueSetToken, PublishingToken
      DEF Dispatching
    <3> QED
      BY <2>1, <3>2, DispatchingEffect, TokenStep
  <2>2. CASE Streaming(g)
    <3>1. ~Compact(g)
      BY DEF Compact, Remote, TypeOK
    <3>2. TokenEffect(g)
      BY <2>2, <3>1, StreamingIdles, IdlesToken, DrainSetToken DEF Streaming
    <3> QED
      BY <2>2, <3>2, StreamingEffect, TokenStep
  <2>3. ~Summarizing(g)
    BY <2>0, SummarizingRemote
  <2>4. CASE Finishing(g)
    <3>1. TokenEffect(g)
      BY <2>0, <2>4, StreamingIdles, UnwindIdles, IdlesToken, HandoffEmptyToken, HandoffNextToken,
         HandoffRunToken, PublishingToken DEF Finishing
    <3> QED
      BY <2>4, <3>1, FinishingEffect, TokenStep
  <2> QED
    BY <1>2, <2>1, <2>2, <2>3, <2>4 DEF Run
<1>3. ASSUME NEW c \in Cancels, Cancel(c) \/ CancelRaises(c) \/ ClearGet(c) \/ ClearSet(c)
      PROVE  TokenInv'
  BY <1>3, CancelToken, ClearToken
<1>4. CASE UNCHANGED vars
  <2>1. UNCHANGED <<messageQueue, published, pc, cur, stack, seen, ret>>
    BY <1>4 DEF vars, agentVars, localVars, otherVars, eventVars
  <2>2. \A g \in Runners, p \in Prompts, x \in Int : Place(g, p, x)' = Place(g, p, x)
    BY <2>1 DEF Place, Owing, HandedOff, Own
  <2>3. \A g \in Runners, p \in Prompts : Bearing(g, p)' = Bearing(g, p)
    BY <2>1 DEF Bearing, Owing, HandedOff, Own
  <2>4. SingleInv'
    BY <2>1, <2>2, <2>3 DEF TokenInv, SingleInv, Alone, Holds
  <2>5. HookInv' /\ ReadInv'
    BY <2>1 DEF TokenInv, HookInv, HookOf, ReadInv, Reading, Base
  <2> QED
    BY <2>4, <2>5 DEF TokenInv
<1> QED
  BY <1>1, <1>2, <1>3, <1>4 DEF Next, Terminated, Remote

LEMMA InitToken == Init => TokenInv
<1> SUFFICES ASSUME Init PROVE TokenInv
  OBVIOUS
<1> USE ActorTypes DEF Init
<1>1. ASSUME NEW g \in Runners, NEW p \in Prompts
      PROVE  /\ \A x \in Int : Place(g, p, x) => x = -2 /\ g = p
             /\ Bearing(g, p) => g = p
  BY DEF Place, Bearing, Owing, HandedOff
<1>2. SingleInv
  BY <1>1 DEF SingleInv, Alone
<1>3. HookInv
  BY DEF HookInv, HookOf
<1>4. ReadInv
  BY DEF ReadInv, Reading
<1> QED
  BY <1>2, <1>3, <1>4 DEF TokenInv

(* A prompt never gets a second RunComplete from the agent: the one it is    *)
(* owed is in a single place at any time, from its submission through the    *)
(* queue and the handoffs to the run that settles it or the filter that      *)
(* drops it (agent.go:565-626, 1163-1204, 1823-1876), and each of these      *)
(* moves is made under dispatchMu.  ClearQueue, which does not take it, can *)
(* announce a prompt that a handoff has taken from the queue it read.       *)
THEOREM OneAnswer == Remote /\ Clears = {} /\ Spec => []OneRunComplete
<1>1. Init => TokenInv /\ PoisonInv
  BY InitPoison, InitToken
<1>2. Remote /\ Clears = {} /\ AInv /\ RemoteInv /\ PoisonInv /\ TokenInv /\ [Next]_vars
        => TokenInv'
  BY TokenInductive
<1>3. Remote /\ AInv /\ RemoteInv /\ PoisonInv /\ [Next]_vars => PoisonInv'
  BY PoisonInductive
<1>4. TokenInv => OneRunComplete
  BY DEF TokenInv, SingleInv, OneRunComplete
<1>5. Remote /\ Init => RemoteInv
  BY ActorTypes DEF Init, RemoteInv, Accepted, SummaryLabels
<1>6. Remote /\ AInv /\ RemoteInv /\ [Next]_vars => RemoteInv'
  BY RemoteInductive
<1>7. CASE Remote /\ Clears = {}
  BY <1>1, <1>2, <1>3, <1>4, <1>5, <1>6, <1>7, Invariance, PTL DEF Spec
<1> QED
  BY <1>7

-----------------------------------------------------------------------------
(* What the caller of Run is told, when it calls Run once.  A prompt is      *)
(* silent when the agent published nothing for it and never will.           *)
Silent(p) == published[p] = 0 /\ \A g \in Runners : ~Given(g, p)
Fresh == {"idle", "accepted", "entry", "enqueue", "enqueueSet"}
Left(p) == pc[p] \in {"returned", "done"}

(* Before its own run the hook of a prompt has buffered nothing; what it     *)
(* buffered, or an error, reaches the caller only if the agent is silent.   *)
AnswerInv == \A p \in Prompts :
    /\ pc[p] \in Fresh /\ stack[p] = <<>> => latest[p] = "none"
    /\ pc[p] = "returned" /\ (IsError(ret[p]) \/ latest[p] # "none") => Silent(p)

AnswerEffect(g) ==
    /\ \A p \in Prompts :
          latest'[p] # latest[p] => cur[g].hook /\ cur[g].id = p /\ pc[g] \notin Fresh
    /\ pc'[g] \in Fresh /\ stack'[g] = <<>> => pc[g] \in Fresh /\ stack[g] = <<>>
    /\ Left(g) => pc'[g] = "done"
    /\ pc'[g] = "returned" /\ pc[g] = "enqueueSet" => ret'[g] = "nil"

(* What a step of a Cancel does.                                            *)
CancelEffect ==
    /\ \A g \in Runners : pc'[g] = pc[g]
    /\ UNCHANGED <<cur, stack, ret, latest>>
    /\ \A g \in Runners, p \in Prompts, x \in Int : Place(g, p, x)' => Place(g, p, x)
    /\ \A p \in Prompts : published'[p] # published[p] => \E g \in Runners : Given(g, p)

(* Nobody else has what the caller of a prompt still waits for itself.      *)
LEMMA OwnSilent ==
    ASSUME TokenInv, NEW p \in Prompts, Own(p)
    PROVE  Silent(p)
<1> USE ActorTypes
<1>1. p \in Runners /\ Place(p, p, -2) /\ Bearing(p, p) /\ Holds(p, p)
  BY DEF Place, Bearing, Holds
<1>2. published[p] = 0
  BY <1>1 DEF TokenInv, SingleInv
<1>3. ASSUME NEW g \in Runners, NEW x \in Int, x # -2, Place(g, p, x) PROVE FALSE
  <2>1. CASE x \in 1..Len(messageQueue)
    <3>1. Place(p, p, x)
      BY <1>3, <2>1 DEF Place
    <3> QED
      BY <1>1, <1>3, <3>1 DEF TokenInv, SingleInv, Alone
  <2>2. CASE x \notin 1..Len(messageQueue)
    <3>1. Bearing(g, p)
      BY <1>3, <2>2 DEF Place, Bearing
    <3>2. g = p
      BY <1>1, <3>1 DEF TokenInv, SingleInv
    <3> QED
      BY <1>1, <1>3, <3>2 DEF TokenInv, SingleInv, Alone
  <2> QED
    BY <2>1, <2>2
<1> QED
  BY <1>2, <1>3 DEF Silent, Given

(* A prompt leaves its caller only when the caller's call is queued.        *)
LEMMA SilentStep ==
    ASSUME NEW g \in Runners, Effect(g), TokenEffect(g), NEW p \in Prompts, Silent(p),
           ~QueuesOwn(g, p)
    PROVE  Silent(p)'
<1> USE ActorTypes
<1>1. /\ \A a \in Actors \ {g} : pc'[a] = pc[a] /\ seen'[a] = seen[a]
      /\ \A h \in Runners \ {g} : cur'[h] = cur[h] /\ stack'[h] = stack[h] /\ ret'[h] = ret[h]
  BY DEF Effect, TokenEffect
<1>2. ~Given(g, p)' /\ published'[p] = published[p]
  BY DEF Silent, TokenEffect
<1>3. ASSUME NEW h \in Runners \ {g}, NEW x \in Int, x # -2, Place(h, p, x)' PROVE FALSE
  <2>1. CASE x \in 1..Len(messageQueue')
    <3>1. Place(g, p, x)'
      BY <1>3, <2>1 DEF Place
    <3> QED
      BY <1>2, <1>3, <3>1 DEF Given
  <2>2. CASE x \notin 1..Len(messageQueue')
    <3>1. Owing(h)' = Owing(h) /\ HandedOff(h)' = HandedOff(h)
      BY <1>1 DEF Owing, HandedOff
    <3>2. Place(h, p, x)
      BY <1>1, <1>3, <2>2, <3>1 DEF Place
    <3> QED
      BY <1>3, <3>2 DEF Silent, Given
  <2> QED
    BY <2>1, <2>2
<1>4. \A h \in Runners \ {g} : ~Given(h, p)'
  BY <1>3 DEF Given
<1> QED
  BY <1>2, <1>4 DEF Silent

LEMMA CancelSilent ==
    ASSUME CancelEffect, NEW p \in Prompts, Silent(p)
    PROVE  Silent(p)'
BY DEF CancelEffect, Silent, Given

LEMMA HookIsOwn ==
    ASSUME TypeOK, Remote, BaseInv, TokenInv, NEW g \in Runners, cur[g].hook, pc[g] # "idle"
    PROVE  g \in Prompts /\ cur[g].id = g /\ stack[g] = <<>>
<1>1. g \in Prompts
  BY DEF Remote, Runners
<1>2. stack[g] = <<>>
  BY DEF TokenInv, HookInv, HookOf
<1> QED
  BY <1>1, <1>2 DEF BaseInv, Base

LEMMA AnswerStep ==
    ASSUME TypeOK, Remote, BaseInv, TokenInv, AnswerInv, NEW g \in Runners, Effect(g),
           TokenEffect(g), AnswerEffect(g)
    PROVE  AnswerInv'
<1> USE ActorTypes
<1>1. \A h \in Runners \ {g} : pc'[h] = pc[h] /\ stack'[h] = stack[h] /\ ret'[h] = ret[h]
  BY DEF Effect, TokenEffect
<1>2. ASSUME NEW p \in Prompts, latest'[p] # latest[p] PROVE p = g /\ pc[g] \notin Fresh
  <2>1. cur[g].hook /\ cur[g].id = p /\ pc[g] \notin Fresh
    BY <1>2 DEF AnswerEffect
  <2> QED
    BY <2>1, HookIsOwn DEF Fresh
<1>3. ASSUME NEW p \in Prompts, QueuesOwn(g, p) PROVE p = g /\ stack[g] = <<>>
  BY <1>3, HookIsOwn DEF QueuesOwn
<1>4. ASSUME NEW p \in Prompts, pc'[p] \in Fresh, stack'[p] = <<>> PROVE latest'[p] = "none"
  <2>1. CASE p = g
    BY <1>2, <1>4, <2>1 DEF AnswerEffect, AnswerInv
  <2>2. CASE p # g
    BY <1>1, <1>2, <1>4, <2>2 DEF AnswerInv
  <2> QED
    BY <2>1, <2>2
<1>5. ASSUME NEW p \in Prompts, pc'[p] = "returned", IsError(ret'[p]) \/ latest'[p] # "none"
      PROVE  Silent(p)'
  <2>1. CASE p # g
    <3>1. Silent(p)
      BY <1>1, <1>2, <1>5, <2>1 DEF AnswerInv
    <3> QED
      BY <1>3, <2>1, <3>1, SilentStep
  <2>2. CASE p = g
    <3>1. Own(p)
      BY <1>5, <2>2 DEF AnswerEffect, Left, Own
    <3>2. Silent(p)
      BY <3>1, OwnSilent
    <3>3. ASSUME QueuesOwn(g, p) PROVE FALSE
      <4>1. pc[g] = "enqueueSet" /\ ret'[p] = "nil"
        BY <1>5, <2>2, <3>3 DEF QueuesOwn, AnswerEffect
      <4>2. latest'[p] = "none"
        BY <1>2, <1>3, <2>2, <3>3, <4>1 DEF AnswerInv, Fresh
      <4> QED
        BY <1>5, <4>1, <4>2 DEF IsError
    <3> QED
      BY <3>2, <3>3, SilentStep
  <2> QED
    BY <2>1, <2>2
<1> QED
  BY <1>4, <1>5 DEF AnswerInv

LEMMA CancelAnswer ==
    ASSUME AnswerInv, CancelEffect
    PROVE  AnswerInv'
<1>1. \A p \in Prompts : pc'[p] = pc[p]
  BY ActorTypes DEF CancelEffect
<1> QED
  BY <1>1, CancelSilent DEF AnswerInv, CancelEffect

LEMMA PublishLatest ==
    ASSUME NEW g \in Runners, NEW o, PublishRunComplete({cur[g]}, o), TypeOK, NEW p \in Prompts
    PROVE  latest'[p] # latest[p] => cur[g].hook /\ cur[g].id = p
BY DEF PublishRunComplete, TypeOK

LEMMA DropsLatest ==
    ASSUME TypeOK, NEW C, PublishCanceledQueueDrops(C), \A c \in C : ~c.hook
    PROVE  \A p \in Prompts : latest'[p] = latest[p]
BY DEF PublishCanceledQueueDrops, PublishRunComplete, TypeOK

(* The steps between the dispatch and the last return of a run.             *)
LEMMA PassingAnswer ==
    ASSUME TypeOK, TokenInv, NEW g \in Runners, Accepted(g),
           \/ EnterCanceled(g) \/ EnterBusy(g) \/ EnterIdle(g) \/ Register(g) \/ Enqueue(g)
           \/ Prepare(g) \/ PrepareFails(g)
           \/ DrainQueue(g) \/ DrainSet(g) \/ Fold(g) \/ StreamFails(g) \/ NextStep(g)
           \/ StreamEnds(g)
           \/ FinishRun(g) \/ Handoff(g) \/ HandoffEmpty(g) \/ HandoffNext(g)
           \/ HandoffPublish(g) \/ Settle(g)
    PROVE  AnswerEffect(g)
<1> USE ActorTypes, Functional
<1>1. PICK l \in {"canceledEntry", "enqueue", "register", "prepare", "enqueueSet", "prepareStep",
                  "unwind", "drainSet", "fold", "step", "settle", "finish", "handoff",
                  "handoffSet", "handoffPublish", "handoffRun"} :
        pc' = [pc EXCEPT ![g] = l]
  BY DEF EnterCanceled, EnterBusy, EnterIdle, Register, Enqueue, Prepare, PrepareFails, DrainQueue,
     DrainSet, Fold, StreamFails, NextStep, StreamEnds, FinishRun, Handoff, HandoffEmpty,
     HandoffNext, HandoffPublish, Settle, Goto, Accepted
<1>2. pc'[g] = l
  BY <1>1
<1>3. /\ ~Left(g) /\ stack' = stack
      /\ l \in {"enqueue", "enqueueSet"} => pc[g] \in {"entry", "enqueue"}
  <2>1. stack' = stack
    BY DEF EnterCanceled, EnterBusy, EnterIdle, Register, Enqueue, Prepare, PrepareFails,
       DrainQueue, DrainSet, Fold, StreamFails, NextStep, StreamEnds, FinishRun, Handoff,
       HandoffEmpty, HandoffNext, HandoffPublish, Settle, Accepted
  <2>2. ~Left(g)
    BY DEF Left, EnterCanceled, EnterBusy, EnterIdle, AtDispatch, Register, Enqueue, Prepare,
       PrepareFails, DrainQueue, DrainSet, Fold, StreamFails, NextStep, StreamEnds, FinishRun,
       Handoff, HandoffEmpty, HandoffNext, HandoffPublish, Settle
  <2>3. l \in {"enqueue", "enqueueSet"} => EnterBusy(g) \/ Enqueue(g)
    BY <1>1, <1>2 DEF EnterCanceled, EnterIdle, Register, Prepare, PrepareFails,
       DrainQueue, DrainSet, Fold, StreamFails, NextStep, StreamEnds, FinishRun, Handoff,
       HandoffEmpty, HandoffNext, HandoffPublish, Settle, Goto, Accepted
  <2> QED
    BY <2>1, <2>2, <2>3 DEF EnterBusy, AtDispatch, Enqueue
<1>4. ASSUME NEW p \in Prompts, latest'[p] # latest[p]
      PROVE  cur[g].hook /\ cur[g].id = p /\ pc[g] \notin Fresh
  <2>1. CASE HandoffPublish(g) \/ Settle(g)
    <3>1. PICK o : PublishRunComplete({cur[g]}, o)
      BY <2>1 DEF HandoffPublish, Settle
    <3>2. pc[g] \notin Fresh
      BY <2>1 DEF HandoffPublish, Settle, Fresh
    <3> QED
      BY <1>4, <3>1, <3>2, PublishLatest
  <2>2. CASE DrainSet(g) \/ HandoffEmpty(g) \/ HandoffNext(g)
    <3>1. PICK C : PublishCanceledQueueDrops(C) /\ \A c \in C : \E i \in 1..Len(seen[g]) : c = seen[g][i]
      <4>1. CASE DrainSet(g)
        <5> DEFINE D == {seen[g][i] : i \in {k \in 1..Len(seen[g]) :
                                               CanceledBySeq(seen[g][k].acceptSeq)}}
        <5>1. PublishCanceledQueueDrops(D)
          BY <4>1 DEF DrainSet, Elems
        <5>2. \A c \in D : \E i \in 1..Len(seen[g]) : c = seen[g][i]
          OBVIOUS
        <5> HIDE DEF D
        <5> QED
          BY <5>1, <5>2
      <4>2. CASE HandoffEmpty(g) \/ HandoffNext(g)
        <5>1. PublishCanceledQueueDrops(HandoffDrops(g))
          BY <4>2 DEF HandoffEmpty, HandoffNext
        <5>2. \A c \in HandoffDrops(g) : \E i \in 1..Len(seen[g]) : c = seen[g][i]
          BY DropsRead
        <5> QED
          BY <5>1, <5>2
      <4> QED
        BY <2>2, <4>1, <4>2
    <3>2. \A i \in 1..Len(seen[g]) : ~seen[g][i].hook
      BY DEF TokenInv, HookInv, HookOf
    <3>3. \A c \in C : ~c.hook
      BY <3>1, <3>2
    <3> QED
      BY <1>4, <3>1, <3>3, DropsLatest
  <2>3. CASE UNCHANGED latest
    BY <1>4, <2>3
  <2> QED
    BY <2>1, <2>2, <2>3 DEF EnterCanceled, EnterBusy, EnterIdle, Register, Enqueue, Prepare,
       PrepareFails, DrainQueue, Fold, StreamFails, NextStep, StreamEnds, FinishRun, Handoff,
       otherVars, eventVars
<1> QED
  BY <1>2, <1>3, <1>4 DEF AnswerEffect, Fresh

LEMMA ReturningAnswer ==
    ASSUME TypeOK, TokenInv, NEW g \in Runners, Accepted(g),
           EnqueueSet(g) \/ CanceledEntry(g) \/ Unwind(g)
    PROVE  AnswerEffect(g)
<1> USE ActorTypes, Functional
<1>1. PICK r \in Results : Return(g, r) /\ (EnqueueSet(g) => r = "nil")
  <2>1. CASE EnqueueSet(g)
    BY <2>1 DEF EnqueueSet, Results
  <2>2. CASE CanceledEntry(g)
    BY <2>2 DEF CanceledEntry, EnqueueSet, Results
  <2>3. CASE Unwind(g)
    BY <2>3 DEF Unwind, EnqueueSet, TypeOK
  <2> QED
    BY <2>1, <2>2, <2>3
<1>2. pc'[g] = "unwind" \/ (pc'[g] = "returned" /\ ret'[g] = r)
  BY <1>1, ReturnBase
<1>3. /\ pc[g] \in {"enqueueSet", "canceledEntry", "unwind"}
      /\ pc[g] = "enqueueSet" => EnqueueSet(g)
  BY DEF EnqueueSet, CanceledEntry, Unwind
<1>4. ASSUME NEW p \in Prompts, latest'[p] # latest[p]
      PROVE  cur[g].hook /\ cur[g].id = p /\ pc[g] \notin Fresh
  <2>1. CanceledEntry(g)
    BY <1>4 DEF EnqueueSet, Unwind, otherVars, eventVars
  <2>2. PublishRunComplete({cur[g]}, "canceled") /\ pc[g] \notin Fresh
    BY <2>1 DEF CanceledEntry, Fresh
  <2> QED
    BY <1>4, <2>2, PublishLatest
<1> QED
  BY <1>1, <1>2, <1>3, <1>4 DEF AnswerEffect, Fresh, Left

LEMMA PushedUpon ==
    ASSUME NEW S, NEW f \in S, NEW q \in Seq(S)
    PROVE  <<f>> \o q # <<>>
<1>1. Len(<<f>> \o q) = Len(q) + 1 /\ Len(q) \in Nat
  OBVIOUS
<1>2. Len(<<f>> \o q) # 0
  BY <1>1
<1> QED
  BY <1>2

LEMMA HandoffRunAnswer ==
    ASSUME TypeOK, NEW g \in Runners, HandoffRun(g)
    PROVE  AnswerEffect(g)
<1> USE ActorTypes, Functional
<1> DEFINE f == [kind |-> "handoff", call |-> cur[g], tools |-> FALSE]
<1>1. /\ pc[g] = "handoffRun" /\ pc' = [pc EXCEPT ![g] = "entry"]
      /\ stack' = [stack EXCEPT ![g] = <<f>> \o stack[g]]
      /\ UNCHANGED latest
  BY DEF HandoffRun, Push, Goto, otherVars, eventVars
<1>2. f \in Frame /\ stack \in [Runners -> Seq(Frame)]
  BY FrameTypes DEF TypeOK
<1> HIDE DEF f
<1>3. stack'[g] # <<>>
  <2>1. stack[g] \in Seq(Frame) /\ stack'[g] = <<f>> \o stack[g]
    BY <1>1, <1>2
  <2>2. <<f>> \o stack[g] # <<>>
    BY <1>2, <2>1, PushedUpon
  <2> QED
    BY <2>1, <2>2
<1> QED
  BY <1>1, <1>3 DEF AnswerEffect, Left

LEMMA PromptingAnswer ==
    ASSUME TypeOK, Once, OnceInv, TokenInv, NEW p \in Prompts, Prompting(p)
    PROVE  AnswerEffect(p)
<1> USE ActorTypes, Functional
<1>1. CASE BeginAccepted(p)
  BY <1>1 DEF BeginAccepted, Goto, otherVars, eventVars, AnswerEffect, Fresh, Left
<1>2. CASE CallRun(p)
  <2>1. attempts[p] < 1 /\ attempts[p] \in Nat
    BY <1>2 DEF CallRun, Once, TypeOK
  <2>2. AttemptOf(p)
    BY DEF OnceInv, OnceOf
  <2>3. pc[p] # "returned"
    BY <2>1, <2>2 DEF AttemptOf
  <2> QED
    BY <1>2, <2>3 DEF CallRun, Goto, eventVars, AnswerEffect, Fresh, Left
<1>3. CASE RunAgentReturns(p)
  BY <1>3 DEF RunAgentReturns, Goto, eventVars, AnswerEffect, Fresh, Left
<1> QED
  BY <1>1, <1>2, <1>3 DEF Prompting

-----------------------------------------------------------------------------
(* The steps of a Cancel.                                                   *)
LEMMA CancelingEffect ==
    ASSUME TypeOK, MuInv, NEW c \in Cancels, Cancel(c) \/ CancelRaises(c) \/ ClearGet(c)
    PROVE  CancelEffect
<1> USE ActorTypes, Functional
<1>1. UNCHANGED <<messageQueue, cur, stack, ret, latest, published>>
  BY DEF Cancel, CancelRaises, ClearGet, agentVars, otherVars, eventVars
<1>2. ASSUME NEW g \in Runners
      PROVE  /\ pc'[g] = pc[g] /\ seen'[g] = seen[g]
             /\ Owing(g)' = Owing(g) /\ HandedOff(g)' = HandedOff(g) /\ Own(g)' = Own(g)
  <2>1. pc'[g] = pc[g] /\ seen'[g] = seen[g]
    <3>1. c \in Cancels \cup Clears /\ Effect(c) /\ g # c
      BY CancellingEffect
    <3> QED
      BY <3>1 DEF Effect
  <2> QED
    BY <1>1, <2>1 DEF Owing, HandedOff, Own
<1>3. \A g \in Runners, p \in Prompts, x \in Int : Place(g, p, x)' = Place(g, p, x)
  BY <1>1, <1>2 DEF Place
<1> QED
  BY <1>1, <1>2, <1>3 DEF CancelEffect

LEMMA ClearingEffect ==
    ASSUME TypeOK, TokenInv, NEW c \in Cancels, ClearSet(c)
    PROVE  CancelEffect
<1> USE ActorTypes, Functional
<1> DEFINE drops == {seen[c][i] : i \in 1..Len(seen[c])}
<1>1. /\ pc[c] = "clearSet" /\ pc' = [pc EXCEPT ![c] = "done"]
      /\ messageQueue' = <<>> /\ PublishCanceledQueueDrops(drops)
      /\ UNCHANGED <<cur, stack, seen, ret>>
  BY DEF ClearSet, Goto
<1>2. \A d \in drops : \E i \in 1..Len(seen[c]) : d = seen[c][i]
  OBVIOUS
<1> HIDE DEF drops
<1>3. seen[c] = messageQueue /\ c \notin Runners
  BY <1>1 DEF TokenInv, ReadInv
<1>4. ASSUME NEW g \in Runners
      PROVE  /\ pc'[g] = pc[g]
             /\ Owing(g)' = Owing(g) /\ HandedOff(g)' = HandedOff(g) /\ Own(g)' = Own(g)
  BY <1>1, <1>3 DEF Owing, HandedOff, Own
<1>5. \A x \in Int : x \notin 1..Len(messageQueue')
  BY <1>1
<1>6. \A g \in Runners, p \in Prompts, x \in Int : Place(g, p, x)' => Place(g, p, x)
  BY <1>1, <1>4, <1>5 DEF Place
<1>7. \A d \in drops : ~d.hook
  BY <1>2, <1>3 DEF TokenInv, HookInv
<1>8. latest' = latest
  <2>1. \A p \in Prompts : latest'[p] = latest[p]
    BY <1>1, <1>7, DropsLatest
  <2>2. latest' \in [Prompts -> Outcomes] /\ latest \in [Prompts -> Outcomes]
    BY <1>1, DropsType DEF TypeOK
  <2> QED
    BY <2>1, <2>2
<1>9. ASSUME NEW p \in Prompts, published'[p] # published[p] PROVE \E g \in Runners : Given(g, p)
  <2>1. PICK d \in drops : d.id = p
    BY <1>1, <1>9, DropsPublish
  <2>2. PICK k \in 1..Len(seen[c]) : d = seen[c][k]
    BY <1>2
  <2>3. \A g \in Runners : k \in Int /\ k # -2 /\ Place(g, p, k)
    BY <1>3, <2>1, <2>2 DEF Place
  <2>4. Runners # {}
    BY ConstantsAssumption
  <2> QED
    BY <2>3, <2>4 DEF Given
<1> QED
  BY <1>1, <1>4, <1>6, <1>8, <1>9 DEF CancelEffect

(* Every step is a runner's or a Cancel's.                                  *)
AnswerMove ==
    \/ \E g \in Runners : Effect(g) /\ TokenEffect(g) /\ AnswerEffect(g)
    \/ CancelEffect

LEMMA AnswerMoves ==
    ASSUME Once, Clears = {}, AInv, RemoteInv, PoisonInv, OnceInv, TokenInv, [Next]_vars
    PROVE  AnswerMove
<1> USE ActorTypes DEF AInv, PoisonInv, Once
<1>1. ASSUME NEW p \in Prompts, Prompting(p) PROVE AnswerMove
  <2>1. TokenEffect(p)
    BY <1>1, PromptingIdles, IdlesToken
  <2>2. AnswerEffect(p)
    BY <1>1, PromptingAnswer
  <2> QED
    BY <1>1, <2>1, <2>2, PromptingEffect DEF AnswerMove
<1>2. ASSUME NEW g \in Runners, Run(g) PROVE AnswerMove
  <2>0. Accepted(g)
    BY DEF RemoteInv
  <2>1. CASE Dispatching(g)
    <3>1. ~EnterLocal(g)
      BY <2>0 DEF EnterLocal, Accepted
    <3>2. TokenEffect(g)
      BY <2>0, <2>1, <3>1, DispatchingIdles, IdlesToken, EnqueueSetToken, PublishingToken
      DEF Dispatching
    <3>3. AnswerEffect(g)
      BY <2>0, <2>1, <3>1, PassingAnswer, ReturningAnswer DEF Dispatching
    <3> QED
      BY <2>1, <3>2, <3>3, DispatchingEffect DEF AnswerMove
  <2>2. CASE Streaming(g)
    <3>1. ~Compact(g)
      BY DEF Compact, Remote, TypeOK
    <3>2. TokenEffect(g)
      BY <2>2, <3>1, StreamingIdles, IdlesToken, DrainSetToken DEF Streaming
    <3>3. AnswerEffect(g)
      BY <2>0, <2>2, <3>1, PassingAnswer DEF Streaming
    <3> QED
      BY <2>2, <3>2, <3>3, StreamingEffect DEF AnswerMove
  <2>3. ~Summarizing(g)
    BY <2>0, SummarizingRemote
  <2>4. CASE Finishing(g)
    <3>1. TokenEffect(g)
      BY <2>0, <2>4, StreamingIdles, UnwindIdles, IdlesToken, HandoffEmptyToken, HandoffNextToken,
         HandoffRunToken, PublishingToken DEF Finishing
    <3>2. AnswerEffect(g)
      BY <2>0, <2>4, PassingAnswer, ReturningAnswer, HandoffRunAnswer DEF Finishing
    <3> QED
      BY <2>4, <3>1, <3>2, FinishingEffect DEF AnswerMove
  <2> QED
    BY <1>2, <2>1, <2>2, <2>3, <2>4 DEF Run
<1>3. ASSUME NEW c \in Cancels, Cancel(c) \/ CancelRaises(c) \/ ClearGet(c) \/ ClearSet(c)
      PROVE  AnswerMove
  BY <1>3, CancelingEffect, ClearingEffect DEF AnswerMove
<1>4. CASE UNCHANGED vars
  <2>1. UNCHANGED <<messageQueue, published, latest, pc, cur, stack, seen, ret>>
    BY <1>4 DEF vars, agentVars, localVars, otherVars, eventVars
  <2>2. \A g \in Runners, p \in Prompts, x \in Int : Place(g, p, x)' = Place(g, p, x)
    BY <2>1 DEF Place, Owing, HandedOff, Own
  <2> QED
    BY <2>1, <2>2 DEF AnswerMove, CancelEffect
<1> QED
  BY <1>1, <1>2, <1>3, <1>4 DEF Next, Terminated, Remote

LEMMA AnswerInductive ==
    ASSUME Once, Clears = {}, AInv, RemoteInv, PoisonInv, OnceInv, TokenInv, AnswerInv,
           [Next]_vars
    PROVE  AnswerInv'
<1> USE DEF AInv, PoisonInv, Once
<1>1. AnswerMove
  BY AnswerMoves
<1> QED
  BY <1>1, AnswerStep, CancelAnswer DEF AnswerMove

LEMMA InitAnswer == Init => AnswerInv
BY ActorTypes DEF Init, AnswerInv

(* Once its caller has its answer, nothing more is said of a silent prompt. *)
LEMMA SilentStays ==
    ASSUME Once, Clears = {}, AInv, RemoteInv, PoisonInv, OnceInv, TokenInv, [Next]_vars,
           NEW p \in Prompts, Left(p)
    PROVE  /\ Silent(p) => Silent(p)'
           /\ Left(p)' /\ (pc[p] = "done" => pc'[p] = "done")
<1> USE ActorTypes DEF AInv, PoisonInv, Once
<1>1. AnswerMove
  BY AnswerMoves
<1>2. CASE CancelEffect
  BY <1>2, CancelSilent DEF CancelEffect, Left
<1>3. ASSUME NEW g \in Runners, Effect(g), TokenEffect(g), AnswerEffect(g)
      PROVE  /\ Silent(p) => Silent(p)'
             /\ Left(p)' /\ (pc[p] = "done" => pc'[p] = "done")
  <2>1. ~QueuesOwn(g, p)
    <3> SUFFICES ASSUME QueuesOwn(g, p) PROVE FALSE
      OBVIOUS
    <3>1. g = p
      BY HookIsOwn DEF QueuesOwn
    <3> QED
      BY <3>1 DEF QueuesOwn, Left
  <2>2. Silent(p) => Silent(p)'
    BY <1>3, <2>1, SilentStep
  <2>3. pc'[p] = "done" \/ (p # g /\ pc'[p] = pc[p])
    BY <1>3 DEF Effect, AnswerEffect
  <2> QED
    BY <2>2, <2>3 DEF Left
<1> QED
  BY <1>1, <1>2, <1>3 DEF AnswerMove

-----------------------------------------------------------------------------
(* The coordinator and runAgent as callers of Run.                          *)
LEMMA CoordStep ==
    ASSUME [CoordNext]_allVars
    PROVE  /\ [Next]_vars
           /\ \/ UNCHANGED coordVars
              \/ \E p \in Prompts : CoordResolve(p) \/ RunAgent(p)
<1>1. ASSUME NEW p \in Prompts, Caller(p) /\ UNCHANGED marking
      PROVE  /\ [Next]_vars
             /\ UNCHANGED coordVars \/ CoordResolve(p) \/ RunAgent(p)
  <2>1. CASE BeginAccepted(p) /\ UNCHANGED coordVars
    BY <1>1, <2>1 DEF Next, Prompting
  <2>2. CASE CoordRun(p)
    BY <1>1, <2>2 DEF CoordRun, Next, Prompting
  <2>3. CASE CoordResolve(p)
    BY <2>3 DEF CoordResolve
  <2>4. CASE RunAgent(p)
    BY <1>1, <2>4 DEF RunAgent, Next, Prompting
  <2> QED
    BY <1>1, <2>1, <2>2, <2>3, <2>4 DEF Caller
<1>2. CASE Others /\ UNCHANGED coordVars
  BY <1>2 DEF Others, Next
<1>3. CASE UNCHANGED allVars
  BY <1>3 DEF allVars
<1> QED
  BY <1>1, <1>2, <1>3 DEF CoordNext

(* Whoever is told by the coordinator or by runAgent is told once, and the   *)
(* agent itself keeps silent about that prompt.                             *)
DeliverOf(p) ==
    /\ resolved[p] => Left(p)
    /\ delivered[p] \in {0, 1}
    /\ delivered[p] = 1 => Silent(p) /\ Left(p) /\ (pc[p] = "done" \/ marker[p])
DeliverInv == CoordTypeOK /\ \A p \in Prompts : DeliverOf(p)

LEMMA InitDeliver == CoordInit => DeliverInv
BY DEF CoordInit, DeliverInv, CoordTypeOK, DeliverOf

LEMMA DeliverKept ==
    ASSUME Once, Clears = {}, AInv, RemoteInv, PoisonInv, OnceInv, TokenInv, [Next]_vars,
           NEW p \in Prompts, DeliverOf(p),
           resolved'[p] = resolved[p], delivered'[p] = delivered[p], marker'[p] = marker[p]
    PROVE  DeliverOf(p)'
BY SilentStays DEF DeliverOf

LEMMA ResolveDelivers ==
    ASSUME AnswerInv, DeliverInv, NEW p \in Prompts, CoordResolve(p)
    PROVE  DeliverInv'
<1> USE ActorTypes DEF DeliverInv
<1>1. UNCHANGED <<messageQueue, published, latest, pc, cur, stack, seen, ret>>
  BY DEF CoordResolve, vars, agentVars, localVars, otherVars, eventVars
<1>2. \A q \in Prompts : (Left(q)' <=> Left(q)) /\ (Silent(q)' <=> Silent(q))
  BY <1>1 DEF Left, Silent, Given, Place, Owing, HandedOff, Own
<1>3. /\ pc[p] = "returned" /\ ~resolved[p]
      /\ resolved' = [resolved EXCEPT ![p] = TRUE]
      /\ \/ /\ latest[p] # "none"
            /\ delivered' = [delivered EXCEPT ![p] = @ + 1]
            /\ marker' = [marker EXCEPT ![p] = TRUE]
         \/ UNCHANGED <<delivered, marker>>
  BY DEF CoordResolve
<1>4. delivered[p] = 0 /\ ~marker[p] /\ Left(p)
  BY <1>3 DEF DeliverOf, CoordTypeOK, Left
<1>5. latest[p] # "none" => Silent(p)
  BY <1>3 DEF AnswerInv
<1>6. CoordTypeOK'
  <2>1. CoordTypeOK /\ resolved' \in [Prompts -> BOOLEAN]
    BY <1>3 DEF CoordTypeOK
  <2>2. CASE UNCHANGED <<delivered, marker>>
    BY <1>3, <2>1, <2>2 DEF CoordTypeOK
  <2>3. CASE /\ delivered' = [delivered EXCEPT ![p] = @ + 1]
             /\ marker' = [marker EXCEPT ![p] = TRUE]
    <3>1. delivered' \in [Prompts -> Nat] /\ marker' \in [Prompts -> BOOLEAN]
      BY <2>1, <2>3 DEF CoordTypeOK
    <3>2. ASSUME NEW q \in Prompts, marker'[q] PROVE resolved'[q] /\ delivered'[q] > 0
      BY <1>3, <1>4, <2>1, <2>3, <3>2 DEF CoordTypeOK
    <3> QED
      BY <2>1, <3>1, <3>2 DEF CoordTypeOK
  <2> QED
    BY <1>3, <2>2, <2>3
<1>7. ASSUME NEW q \in Prompts PROVE DeliverOf(q)'
  <2>1. CASE q = p
    BY <1>1, <1>2, <1>3, <1>4, <1>5, <2>1 DEF DeliverOf, CoordTypeOK
  <2>2. CASE q # p
    BY <1>1, <1>2, <1>3, <2>2 DEF DeliverOf, CoordTypeOK
  <2> QED
    BY <2>1, <2>2
<1> QED
  BY <1>6, <1>7

LEMMA RunAgentDelivers ==
    ASSUME Once, Clears = {}, AInv, RemoteInv, PoisonInv, OnceInv, TokenInv, AnswerInv,
           DeliverInv, NEW p \in Prompts, RunAgent(p), [Next]_vars
    PROVE  DeliverInv'
<1> USE ActorTypes DEF DeliverInv
<1>1. /\ RunAgentReturns(p) /\ UNCHANGED <<marker, resolved>>
      /\ \/ delivered' = delivered
         \/ /\ IsError(ret'[p]) /\ ~marker[p]
            /\ delivered' = [delivered EXCEPT ![p] = @ + 1]
  <2>1. delivered \in [Prompts -> Nat]
    BY DEF CoordTypeOK
  <2>3. CASE IsError(ret'[p]) /\ p \in WithRunID \ Local /\ ~marker[p]
    BY <2>3 DEF RunAgent
  <2>4. CASE ~(IsError(ret'[p]) /\ p \in WithRunID \ Local /\ ~marker[p])
    <3>1. delivered' = [delivered EXCEPT ![p] = @ + 0] /\ RunAgentReturns(p)
          /\ UNCHANGED <<marker, resolved>>
      BY <2>4 DEF RunAgent
    <3> QED
      BY <2>1, <3>1
  <2> QED
    BY <2>3, <2>4
<1>2. pc[p] \in {"accepted", "returned"} /\ pc'[p] = "done"
  BY <1>1 DEF RunAgentReturns, Goto, AInv, TypeOK
<1>3. ~marker[p] => delivered[p] = 0
  BY <1>2 DEF DeliverOf, CoordTypeOK
<1>4. IsError(ret'[p]) => Silent(p)'
  <2> SUFFICES ASSUME IsError(ret'[p]) PROVE Silent(p)'
    OBVIOUS
  <2>1. Silent(p)
    <3>1. CASE pc[p] = "accepted"
      BY <3>1, OwnSilent DEF Own
    <3>2. CASE pc[p] = "returned"
      BY <1>1, <3>2 DEF RunAgentReturns, AnswerInv
    <3> QED
      BY <1>2, <3>1, <3>2
  <2>2. Effect(p) /\ TokenEffect(p) /\ ~QueuesOwn(p, p)
    BY <1>1, <1>2, PromptingEffect, PromptingIdles, IdlesToken
    DEF Prompting, AInv, PoisonInv, Once, QueuesOwn
  <2> QED
    BY <2>1, <2>2, SilentStep
<1>5. CoordTypeOK'
  BY <1>1 DEF CoordTypeOK
<1>6. ASSUME NEW q \in Prompts PROVE DeliverOf(q)'
  <2>1. CASE q = p /\ delivered'[p] # delivered[p]
    BY <1>1, <1>2, <1>3, <1>4, <2>1 DEF DeliverOf, CoordTypeOK, Left
  <2>2. CASE ~(q = p /\ delivered'[p] # delivered[p])
    <3>1. resolved'[q] = resolved[q] /\ delivered'[q] = delivered[q] /\ marker'[q] = marker[q]
      BY <1>1, <2>2 DEF CoordTypeOK
    <3> QED
      BY <3>1, DeliverKept
  <2> QED
    BY <2>1, <2>2
<1> QED
  BY <1>5, <1>6

LEMMA DeliverInductive ==
    ASSUME Once, Clears = {}, AInv, RemoteInv, PoisonInv, OnceInv, TokenInv, AnswerInv,
           DeliverInv, [CoordNext]_allVars
    PROVE  DeliverInv'
<1>1. [Next]_vars
  BY CoordStep
<1>2. CASE UNCHANGED coordVars
  BY <1>1, <1>2, DeliverKept DEF coordVars, DeliverInv, CoordTypeOK
<1>3. CASE \E p \in Prompts : CoordResolve(p) \/ RunAgent(p)
  BY <1>1, <1>3, ResolveDelivers, RunAgentDelivers
<1> QED
  BY <1>2, <1>3, CoordStep

(* Each step of the coordinator and of runAgent is a step of the agent's     *)
(* caller or leaves the agent alone.                                         *)
LEMMA CoordinatorIsACaller == CoordSpec => Spec
<1>1. CoordInit => Init
  BY DEF CoordInit
<1>2. [CoordNext]_allVars => [Next]_vars
  BY CoordStep
<1> QED
  BY <1>1, <1>2, PTL DEF CoordSpec, Spec

(* The waiter of a RunID is told at most once by the agent, the coordinator *)
(* and runAgent together: the coordinator publishes what the hook buffered  *)
(* and runAgent an error only when Run came back with the prompt neither     *)
(* queued nor running, and then the agent never publishes for it; runAgent   *)
(* is silent after the coordinator published (the marker).  It takes that a  *)
(* prompt is run once: what the hook kept of a first attempt may be          *)
(* published although the second was queued.                                *)
THEOREM WaitersAreToldOnce == Once /\ Clears = {} /\ CoordSpec => []CoordSound
<1>1. Init => PoisonInv /\ OnceInv /\ TokenInv /\ AnswerInv
  BY InitPoison, InitOnce, InitToken, InitAnswer
<1>2. CoordInit => DeliverInv
  BY InitDeliver
<1>3. Once /\ Clears = {} /\ AInv /\ RemoteInv /\ PoisonInv /\ OnceInv /\ TokenInv /\ AnswerInv
        /\ [Next]_vars => PoisonInv' /\ OnceInv' /\ TokenInv' /\ AnswerInv'
  BY PoisonInductive, OnceInductive, TokenInductive, AnswerInductive DEF Once
<1>4. Once /\ Clears = {} /\ AInv /\ RemoteInv /\ PoisonInv /\ OnceInv /\ TokenInv /\ AnswerInv
        /\ DeliverInv /\ [CoordNext]_allVars => DeliverInv'
  BY DeliverInductive
<1>5. Once /\ Init => RemoteInv
  BY ActorTypes DEF Init, RemoteInv, Accepted, SummaryLabels, Once, Remote
<1>6. Once /\ AInv /\ RemoteInv /\ [Next]_vars => RemoteInv'
  BY RemoteInductive DEF Once
<1>7. TokenInv /\ DeliverInv => CoordSound
  <2> SUFFICES ASSUME TokenInv, DeliverInv, NEW p \in WithRunID PROVE Terminals(p) <= 1
    BY DEF CoordSound, OneTerminalEvent, DeliverInv
  <2>1. p \in Prompts
    BY ConstantsAssumption
  <2>2. published[p] \in {0, 1} /\ delivered[p] \in {0, 1} /\ (delivered[p] = 1 => published[p] = 0)
    BY <2>1 DEF TokenInv, SingleInv, DeliverInv, DeliverOf, Silent
  <2> QED
    BY <2>2 DEF Terminals
<1>8. CoordInit => Init
  BY DEF CoordInit
<1>9. [CoordNext]_allVars => [Next]_vars
  BY CoordStep
<1>10. CASE Once /\ Clears = {}
  <2>1. CoordSpec => Spec
    BY CoordinatorIsACaller
  <2> QED
    BY <1>1, <1>2, <1>3, <1>4, <1>5, <1>6, <1>7, <1>8, <1>9, <1>10, <2>1, Invariance, PTL DEF CoordSpec
<1> QED
  BY <1>10
=============================================================================
