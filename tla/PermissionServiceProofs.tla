---------------------- MODULE PermissionServiceProofs ----------------------
(***************************************************************************)
(* Proofs about PermissionService: every safety property of the module, for *)
(* any set of calls and answers.  IInv is inductive.                        *)
(***************************************************************************)
EXTENDS PermissionService, FiniteSetTheorems, TLAPS

(* Where a call is while it holds requestMu. *)
Held == {"auto", "session", "active", "pend", "publish", "select", "del", "unlock"}

(* Where a call is before its prompt is shown. *)
Early == {"start", "lock", "auto", "session", "active", "pend", "publish"}

Won(a) == ans[a].at \notin {"start", "lost"}
Announced(a) == ans[a].at \in {"send", "clear", "won"}
Judgements == {"granted", "denied"}

MuInv == \A c \in Calls : pc[c] \in Held <=> requestMu = c

(* What is known of a call from where it is. *)
StageInv ==
    \A c \in Calls :
        /\ c \in pendingRequests => pc[c] \in {"publish", "select", "del"}
        /\ c \in shown => pc[c] \in {"select", "del", "unlock", "done"}
        /\ pc[c] \in Early \cup {"select"} => outcome[c] = None
        /\ c \in shown /\ pc[c] \in {"del", "unlock", "done"} => outcome[c] # None
        /\ outcome[c] = "cancelled" => c \in cancelled

ActiveInv == \A c \in Calls : pc[c] = "pend" \/ c \in pendingRequests => activeRequest = c

(* Each prompt that was taken from the map was taken by one answer. *)
WinInv ==
    \A a \in Answers :
        /\ ans[a].at # "start" => ans[a].call \in shown
        /\ Won(a) => ans[a].call \notin pendingRequests
        /\ ans[a].at = "record" => ans[a].kind = "persist"
        /\ \A b \in Answers : Won(a) /\ Won(b) /\ ans[a].call = ans[b].call => a = b

(* What is in a channel, and what came out of it, was sent by the winner. *)
AnswerInv ==
    \A c \in Calls :
        /\ respCh[c] # None =>
               \E a \in Winners(c) : Delivered(a) /\ Verdict(ans[a].kind) = respCh[c]
        /\ c \in shown /\ outcome[c] \in Judgements =>
               \E a \in Winners(c) : Delivered(a) /\ Verdict(ans[a].kind) = outcome[c]

(* A verdict is published once: by whoever approves without a prompt, or by  *)
(* the winner.                                                               *)
Unjudged(c) ==
    /\ c \notin shown => outcome[c] = None
    /\ \A a \in Winners(c) : ~Announced(a)

NotesOf(c) ==
    /\ Count(c, Judgements) \in {0, 1}
    /\ Unjudged(c) => Count(c, Judgements) = 0
    /\ \A a \in Winners(c) : Announced(a) => Count(c, {Verdict(ans[a].kind)}) = 1

NotesInv == \A c \in Calls : NotesOf(c)

(* A call that found no standing grant under the lock meets one afterwards   *)
(* only if a cancelled call left an answer behind.                           *)
Excused(c) == \E q \in cancelled : q # c /\ KeyOf[q] = KeyOf[c] /\ Winners(q) # {}

NeedlessInv ==
    \A c \in Calls :
        /\ pc[c] \in {"active", "pend"} \/ c \in pendingRequests
        /\ KeyOf[c] \in sessionPermissions
        => Excused(c)

IInv ==
    /\ TypeOK /\ MuInv /\ StageInv /\ ActiveInv /\ WinInv /\ AnswerInv
    /\ NotesInv /\ ConsentIsWon /\ NeedlessInv

-----------------------------------------------------------------------------
(* A step of a call, an answer, or the environment, for proofs by cases. *)
Step ==
    \/ \E c \in Calls : RequestStep(c)
    \/ \E a \in Answers, c \in Calls, kind \in Kinds : TakeWins(a, c, kind) \/ TakeLoses(a, c, kind)
    \/ \E a \in Answers : ResolveStep(a)
    \/ \E c \in Calls : CancelContext(c)
    \/ \E s \in Sessions : AutoApproveSession(s)
    \/ SetSkipRequests
    \/ UNCHANGED vars

LEMMA NextIsStep == [Next]_vars => Step
BY DEF Next, Step

(* What becomes of an answer. *)
LEMMA AnswerMoves ==
    ASSUME TypeOK, NEW a \in Answers, NEW l \in {"notify", "send", "clear", "won"}, AnsGoto(a, l)
    PROVE  /\ ans' \in [Answers -> AnswerStates]
           /\ \A b \in Answers : ans'[b].call = ans[b].call /\ ans'[b].kind = ans[b].kind
           /\ ans'[a].at = l
           /\ \A b \in Answers : b # a => ans'[b] = ans[b]
<1>1. ans[a] \in AnswerStates
  BY DEF TypeOK
<1>2. PICK r : r = [ans[a] EXCEPT !.at = l]
  OBVIOUS
<1>3. r \in AnswerStates /\ r.at = l /\ r.call = ans[a].call /\ r.kind = ans[a].kind
  BY <1>1, <1>2 DEF AnswerStates
<1>4. ans' = [ans EXCEPT ![a] = r]
  BY <1>2, Zenon DEF AnsGoto
<1> QED
  BY <1>3, <1>4 DEF TypeOK

LEMMA AnswerTakes ==
    ASSUME TypeOK, NEW a \in Answers, NEW l \in {"record", "notify", "lost"},
           NEW c \in Calls, NEW kind \in Kinds,
           ans' = [ans EXCEPT ![a] = [at |-> l, call |-> c, kind |-> kind]]
    PROVE  /\ ans' \in [Answers -> AnswerStates]
           /\ ans'[a].at = l /\ ans'[a].call = c /\ ans'[a].kind = kind
           /\ \A b \in Answers : b # a => ans'[b] = ans[b]
<1>1. PICK r : r = [at |-> l, call |-> c, kind |-> kind]
  OBVIOUS
<1>2. r \in AnswerStates /\ r.at = l /\ r.call = c /\ r.kind = kind
  BY <1>1 DEF AnswerStates
<1>3. ans' = [ans EXCEPT ![a] = r]
  BY <1>1
<1> QED
  BY <1>2, <1>3 DEF TypeOK

(* The fields of an answer. *)
LEMMA AnswerFields ==
    ASSUME TypeOK, NEW a \in Answers
    PROVE  /\ ans[a].at \in {"start", "record", "notify", "send", "clear", "won", "lost"}
           /\ ans[a].call \in Calls \cup {None}
           /\ ans[a].kind \in Kinds
           /\ Verdict(ans[a].kind) \in {"granted", "denied"}
BY DEF TypeOK, AnswerStates, Verdict

(* What becomes of a call, its notifications and its outcome. *)
LEMMA CallTypes ==
    ASSUME TypeOK, NEW c \in Calls
    PROVE  /\ \A n \in Notices :
                  Notify(c, n) => notes' \in [Calls -> Seq(Notices)]
           /\ \A o \in {"granted", "denied", "cancelled"} :
                  Returns(c, o) => outcome' \in [Calls -> {"granted", "denied", "cancelled", None}]
<1>1. notes[c] \in Seq(Notices)
  BY DEF TypeOK
<1>2. \A n \in Notices :
          Append(notes[c], n) \in Seq(Notices)
  BY <1>1
<1> QED
  BY <1>2 DEF TypeOK, Notify, Returns

LEMMA TypeStep ==
    ASSUME TypeOK, WinInv, [Next]_vars
    PROVE  TypeOK'
<1> USE DEF TypeOK
<1>1. ASSUME NEW c \in Calls, RequestStep(c)
      PROVE  TypeOK'
  <2>1. CASE Bypass(c) \/ HookApproved(c) \/ NeedsPermission(c) \/ Lock(c)
    BY <2>1, CallTypes DEF Notices, Bypass, HookApproved, NeedsPermission, Lock, Goto, policy, prompt
  <2>2. CASE Approved(c) \/ NotApproved(c)
    BY <2>2, CallTypes DEF Notices, Approved, NotApproved, Goto, policy, prompt
  <2>3. CASE SetActive(c) \/ SetPending(c) \/ Publish(c) \/ DelPending(c) \/ Unlock(c)
    BY <2>3 DEF SetActive, SetPending, Publish, DelPending, Unlock, Goto, policy, prompt
  <2>4. CASE ContextDone(c) \/ Answered(c)
    BY <2>4 DEF ContextDone, Answered, Goto, Returns, policy, prompt
  <2> QED
    BY <1>1, <2>1, <2>2, <2>3, <2>4 DEF RequestStep
<1>2. ASSUME NEW a \in Answers, NEW c \in Calls, NEW kind \in Kinds,
             TakeWins(a, c, kind) \/ TakeLoses(a, c, kind)
      PROVE  TypeOK'
  BY <1>2, AnswerTakes DEF TakeWins, TakeLoses, policy, prompt
<1>3. ASSUME NEW a \in Answers, ResolveStep(a)
      PROVE  TypeOK'
  <2>1. ans[a].at # "start" => ans[a].call \in Calls
    BY DEF WinInv
  <2>2. Verdict(ans[a].kind) \in {"granted", "denied"}
    BY AnswerFields
  <2>3. CASE Record(a) \/ AnswerNotifies(a)
    BY <2>1, <2>2, <2>3, AnswerMoves, CallTypes DEF Notices, Record, AnswerNotifies, Keys, policy, prompt
  <2>4. CASE Send(a) \/ ClearActive(a)
    BY <2>1, <2>2, <2>4, AnswerMoves DEF Send, ClearActive, policy, prompt
  <2> QED
    BY <1>3, <2>3, <2>4 DEF ResolveStep
<1>4. ASSUME NEW c \in Calls, CancelContext(c)
      PROVE  TypeOK'
  BY <1>4 DEF CancelContext, policy, prompt
<1>5. CASE (\E s \in Sessions : AutoApproveSession(s)) \/ SetSkipRequests \/ UNCHANGED vars
  BY <1>5 DEF AutoApproveSession, SetSkipRequests, policy, prompt, vars
<1> QED
  BY <1>1, <1>2, <1>3, <1>4, <1>5, NextIsStep DEF Step

(* Steps that move no call leave requestMu, and what a call returns, alone. *)
LEMMA CallFrame ==
    ASSUME \/ \E a \in Answers, c \in Calls, kind \in Kinds : TakeWins(a, c, kind) \/ TakeLoses(a, c, kind)
           \/ \E a \in Answers : ResolveStep(a)
           \/ \E c \in Calls : CancelContext(c)
           \/ \E s \in Sessions : AutoApproveSession(s)
           \/ SetSkipRequests
           \/ UNCHANGED vars
    PROVE  /\ pc' = pc /\ requestMu' = requestMu /\ outcome' = outcome /\ shown' = shown
           /\ pendingRequests' \subseteq pendingRequests /\ cancelled \subseteq cancelled'
<1> USE DEF policy, prompt
<1>1. CASE \E a \in Answers, c \in Calls, kind \in Kinds : TakeWins(a, c, kind) \/ TakeLoses(a, c, kind)
  BY <1>1 DEF TakeWins, TakeLoses
<1>2. CASE \E a \in Answers : ResolveStep(a)
  BY <1>2 DEF ResolveStep, Record, AnswerNotifies, Send, ClearActive
<1>3. CASE (\E c \in Calls : CancelContext(c)) \/ SetSkipRequests \/ UNCHANGED vars
  BY <1>3 DEF CancelContext, SetSkipRequests, vars
<1>4. CASE \E s \in Sessions : AutoApproveSession(s)
  BY <1>4 DEF AutoApproveSession
<1> QED
  BY <1>1, <1>2, <1>3, <1>4

(* Steps of a call leave the answers and the grants alone, and move only it. *)
LEMMA AnswerFrame ==
    ASSUME NEW c \in Calls, RequestStep(c), TypeOK
    PROVE  /\ ans' = ans /\ sessionPermissions' = sessionPermissions /\ cancelled' = cancelled
           /\ \A d \in Calls : d # c =>
                 /\ pc'[d] = pc[d] /\ outcome'[d] = outcome[d]
                 /\ notes'[d] = notes[d] /\ respCh'[d] = respCh[d]
                 /\ (d \in shown' <=> d \in shown)
                 /\ (d \in pendingRequests' <=> d \in pendingRequests)
<1> USE DEF TypeOK, policy, prompt, Goto, Returns, Notify
<1>1. CASE Bypass(c) \/ HookApproved(c) \/ NeedsPermission(c) \/ Lock(c)
  BY <1>1 DEF Bypass, HookApproved, NeedsPermission, Lock
<1>2. CASE Approved(c) \/ NotApproved(c)
  BY <1>2 DEF Approved, NotApproved
<1>3. CASE SetActive(c) \/ SetPending(c) \/ Publish(c) \/ DelPending(c) \/ Unlock(c)
  BY <1>3 DEF SetActive, SetPending, Publish, DelPending, Unlock
<1>4. CASE ContextDone(c) \/ Answered(c)
  BY <1>4 DEF ContextDone, Answered
<1> QED
  BY <1>1, <1>2, <1>3, <1>4 DEF RequestStep

LEMMA MuStep ==
    ASSUME TypeOK, MuInv, [Next]_vars
    PROVE  MuInv'
<1> USE DEF MuInv, Held
<1>1. ASSUME NEW c \in Calls, RequestStep(c)
      PROVE  MuInv'
  <2> USE DEF TypeOK, Goto, policy, prompt
  <2>1. CASE Bypass(c) \/ HookApproved(c) \/ NeedsPermission(c) \/ Lock(c)
    BY <2>1, CallsAssumption DEF Bypass, HookApproved, NeedsPermission, Lock
  <2>2. CASE Approved(c) \/ NotApproved(c)
    BY <2>2 DEF Approved, NotApproved
  <2>3. CASE SetActive(c) \/ SetPending(c) \/ Publish(c) \/ DelPending(c)
    BY <2>3 DEF SetActive, SetPending, Publish, DelPending
  <2>4. CASE ContextDone(c) \/ Answered(c)
    BY <2>4 DEF ContextDone, Answered
  <2>5. CASE Unlock(c)
    BY <2>5, CallsAssumption DEF Unlock
  <2> QED
    BY <1>1, <2>1, <2>2, <2>3, <2>4, <2>5 DEF RequestStep
<1>2. CASE pc' = pc /\ requestMu' = requestMu
  BY <1>2
<1> QED
  BY <1>1, <1>2, CallFrame, NextIsStep DEF Step

LEMMA StageStep ==
    ASSUME TypeOK, StageInv, [Next]_vars
    PROVE  StageInv'
<1> USE DEF StageInv, Early
<1>1. ASSUME NEW c \in Calls, RequestStep(c)
      PROVE  StageInv'
  <2> USE DEF TypeOK, Goto, Returns, policy, prompt
  <2>1. CASE Bypass(c) \/ HookApproved(c) \/ NeedsPermission(c) \/ Lock(c)
    BY <2>1, NoneAssumption DEF Bypass, HookApproved, NeedsPermission, Lock
  <2>2. CASE Approved(c) \/ NotApproved(c)
    BY <2>2, NoneAssumption DEF Approved, NotApproved
  <2>3. CASE SetActive(c) \/ SetPending(c)
    BY <2>3 DEF SetActive, SetPending
  <2>4. CASE Publish(c)
    BY <2>4 DEF Publish
  <2>5. CASE ContextDone(c)
    BY <2>5, NoneAssumption DEF ContextDone
  <2>6. CASE Answered(c)
    BY <2>6, NoneAssumption DEF Answered
  <2>7. CASE DelPending(c) \/ Unlock(c)
    BY <2>7 DEF DelPending, Unlock
  <2> QED
    BY <1>1, <2>1, <2>2, <2>3, <2>4, <2>5, <2>6, <2>7 DEF RequestStep
<1>2. CASE /\ pc' = pc /\ outcome' = outcome /\ shown' = shown
           /\ pendingRequests' \subseteq pendingRequests /\ cancelled \subseteq cancelled'
  BY <1>2
<1> QED
  BY <1>1, <1>2, CallFrame, NextIsStep DEF Step

LEMMA WinStep ==
    ASSUME TypeOK, StageInv, WinInv, [Next]_vars
    PROVE  WinInv'
<1> USE DEF WinInv, Won
<1>1. ASSUME NEW c \in Calls, RequestStep(c)
      PROVE  WinInv'
  <2>1. ans' = ans /\ shown \subseteq shown'
    BY <1>1, AnswerFrame DEF RequestStep, Bypass, HookApproved, NeedsPermission, Lock, Approved,
          NotApproved, SetActive, SetPending, Publish, ContextDone, Answered, DelPending, Unlock,
          policy, prompt
  <2>2. \A d \in shown : d \in pendingRequests' => d \in pendingRequests
    <3>1. CASE SetPending(c)
      BY <3>1 DEF SetPending, StageInv, TypeOK
    <3>2. CASE ~SetPending(c)
      BY <1>1, <3>2 DEF RequestStep, Bypass, HookApproved, NeedsPermission, Lock, Approved,
          NotApproved, SetActive, Publish, ContextDone, Answered, DelPending, Unlock, policy, prompt
    <3> QED
      BY <3>1, <3>2
  <2> QED
    BY <2>1, <2>2, AnswerFields
<1>2. ASSUME NEW a \in Answers, NEW c \in Calls, NEW kind \in Kinds, TakeWins(a, c, kind)
      PROVE  WinInv'
  BY <1>2, AnswerTakes DEF TakeWins, policy, prompt
<1>3. ASSUME NEW a \in Answers, NEW c \in Calls, NEW kind \in Kinds, TakeLoses(a, c, kind)
      PROVE  WinInv'
  BY <1>3, AnswerTakes DEF TakeLoses, policy, prompt
<1>4. ASSUME NEW a \in Answers, ResolveStep(a)
      PROVE  WinInv'
  <2>1. CASE Record(a) \/ AnswerNotifies(a)
    BY <2>1, AnswerMoves DEF Record, AnswerNotifies, policy, prompt
  <2>2. CASE Send(a) \/ ClearActive(a)
    BY <2>2, AnswerMoves DEF Send, ClearActive, policy, prompt
  <2> QED
    BY <1>4, <2>1, <2>2 DEF ResolveStep
<1>5. CASE \/ \E c \in Calls : CancelContext(c) 
           \/ \E s \in Sessions : AutoApproveSession(s)
           \/ SetSkipRequests \/ UNCHANGED vars
  BY <1>5 DEF CancelContext, AutoApproveSession, SetSkipRequests, policy, prompt, vars
<1> QED
  BY <1>1, <1>2, <1>3, <1>4, <1>5, NextIsStep DEF Step

(* An answer that won stays the winner of its call, and what it did stays done. *)
LEMMA WinnersStay ==
    ASSUME TypeOK, [Next]_vars, NEW a \in Answers, Won(a)
    PROVE  /\ Won(a)' /\ ans'[a].call = ans[a].call /\ ans'[a].kind = ans[a].kind
           /\ Announced(a) => Announced(a)'
           /\ Delivered(a) => Delivered(a)'
<1> USE DEF Won, Announced, Delivered
<1>1. CASE ans' = ans
  BY <1>1
<1>2. ASSUME NEW b \in Answers, NEW c \in Calls, NEW kind \in Kinds,
             TakeWins(b, c, kind) \/ TakeLoses(b, c, kind)
      PROVE  ans'[a] = ans[a]
  BY <1>2, AnswerTakes DEF TakeWins, TakeLoses
<1>3. ASSUME NEW b \in Answers, ResolveStep(b), b # a
      PROVE  ans'[a] = ans[a]
  BY <1>3, AnswerMoves DEF ResolveStep, Record, AnswerNotifies, Send, ClearActive
<1>4. CASE ResolveStep(a)
  BY <1>4, AnswerMoves DEF ResolveStep, Record, AnswerNotifies, Send, ClearActive
<1>5. \/ \E c \in Calls : CancelContext(c)
      \/ \E s \in Sessions : AutoApproveSession(s)
      \/ SetSkipRequests \/ UNCHANGED vars
      => ans' = ans
  BY DEF CancelContext, AutoApproveSession, SetSkipRequests, vars
<1> QED
  BY <1>1, <1>2, <1>3, <1>4, <1>5, AnswerFrame, NextIsStep DEF Step

LEMMA ActiveStep ==
    ASSUME TypeOK, MuInv, StageInv, WinInv, ActiveInv, [Next]_vars
    PROVE  ActiveInv'
<1> USE DEF ActiveInv
<1>1. ASSUME NEW c \in Calls, RequestStep(c)
      PROVE  ActiveInv'
  <2>1. CASE SetActive(c)
    <3>1. \A d \in Calls : pc[d] = "pend" \/ d \in pendingRequests => d = c
      BY <2>1 DEF SetActive, MuInv, StageInv, Held
    <3> QED
      BY <2>1, <3>1 DEF SetActive, Goto, TypeOK
  <2>2. CASE SetPending(c)
    BY <2>2 DEF SetPending, Goto, TypeOK, policy
  <2>3. CASE Publish(c) \/ DelPending(c) \/ Unlock(c)
    BY <2>3 DEF Publish, DelPending, Unlock, Goto, TypeOK, policy, prompt
  <2>4. CASE Bypass(c) \/ HookApproved(c) \/ NeedsPermission(c) \/ Lock(c) \/ Approved(c) \/ NotApproved(c)
    BY <2>4 DEF Bypass, HookApproved, NeedsPermission, Lock, Approved, NotApproved, Goto, TypeOK,
                policy, prompt
  <2>5. CASE ContextDone(c) \/ Answered(c)
    BY <2>5 DEF ContextDone, Answered, Goto, TypeOK, policy, prompt
  <2> QED
    BY <1>1, <2>1, <2>2, <2>3, <2>4, <2>5 DEF RequestStep
<1>2. ASSUME NEW a \in Answers, ClearActive(a)
      PROVE  ActiveInv'
  <2>1. ans[a].call \in shown /\ ans[a].call \notin pendingRequests
    BY <1>2 DEF ClearActive, WinInv, Won
  <2>2. ans[a].call \in Calls /\ pc[ans[a].call] # "pend"
    BY <2>1 DEF StageInv, TypeOK
  <2> QED
    BY <1>2, <2>1, <2>2 DEF ClearActive, policy
<1>3. CASE pc' = pc /\ activeRequest' = activeRequest /\ pendingRequests' \subseteq pendingRequests
  BY <1>3
<1>4. ASSUME NEW a \in Answers, Record(a) \/ AnswerNotifies(a) \/ Send(a)
      PROVE  activeRequest' = activeRequest
  BY <1>4 DEF Record, AnswerNotifies, Send, prompt
<1>5. (\E a \in Answers, c \in Calls, kind \in Kinds : TakeWins(a, c, kind) \/ TakeLoses(a, c, kind))
      => activeRequest' = activeRequest
  BY DEF TakeWins, TakeLoses, prompt
<1>6. \/ \E c \in Calls : CancelContext(c)
      \/ \E s \in Sessions : AutoApproveSession(s)
      \/ SetSkipRequests \/ UNCHANGED vars
      => activeRequest' = activeRequest
  BY DEF CancelContext, AutoApproveSession, SetSkipRequests, vars, prompt
<1> QED
  BY <1>1, <1>2, <1>3, <1>4, <1>5, <1>6, CallFrame, NextIsStep DEF Step, ResolveStep

LEMMA AnswerStep ==
    ASSUME TypeOK, StageInv, WinInv, AnswerInv, [Next]_vars
    PROVE  AnswerInv'
<1>1. \A c \in Calls, v \in Judgements :
          (\E a \in Winners(c) : Delivered(a) /\ Verdict(ans[a].kind) = v)
          => (\E a \in Winners(c) : Delivered(a) /\ Verdict(ans[a].kind) = v)'
  <2> SUFFICES ASSUME NEW c \in Calls, NEW a \in Winners(c), Delivered(a)
               PROVE  a \in Winners(c)' /\ Delivered(a)' /\ ans'[a].kind = ans[a].kind
    OBVIOUS
  <2> QED
    BY WinnersStay DEF Winners, Won
<1>2. \A c \in Calls : respCh[c] # None => respCh[c] \in Judgements
  BY DEF TypeOK, Judgements
<1>3. ASSUME NEW c \in Calls,
             respCh'[c] # None => respCh'[c] = respCh[c],
             c \in shown' /\ outcome'[c] \in Judgements =>
                 \/ c \in shown /\ outcome'[c] = outcome[c]
                 \/ outcome'[c] = respCh[c] /\ respCh[c] # None
      PROVE  /\ respCh'[c] # None =>
                   (\E a \in Winners(c) : Delivered(a) /\ Verdict(ans[a].kind) = respCh[c])'
             /\ c \in shown' /\ outcome'[c] \in Judgements =>
                   (\E a \in Winners(c) : Delivered(a) /\ Verdict(ans[a].kind) = outcome[c])'
  BY <1>1, <1>2, <1>3 DEF AnswerInv
<1>4. ASSUME NEW c \in Calls, RequestStep(c), NEW d \in Calls
      PROVE  /\ respCh'[d] # None => respCh'[d] = respCh[d]
             /\ d \in shown' /\ outcome'[d] \in Judgements =>
                 \/ d \in shown /\ outcome'[d] = outcome[d]
                 \/ outcome'[d] = respCh[d] /\ respCh[d] # None
  <2>1. CASE d # c
    BY <1>4, <2>1, AnswerFrame
  <2>2. CASE d = c /\ (Bypass(c) \/ HookApproved(c) \/ NeedsPermission(c) \/ Lock(c))
    BY <2>2 DEF Bypass, HookApproved, NeedsPermission, Lock, policy, prompt, StageInv
  <2>3. CASE d = c /\ (Approved(c) \/ NotApproved(c))
    BY <2>3 DEF Approved, NotApproved, policy, prompt, StageInv
  <2>4. CASE d = c /\ (SetActive(c) \/ SetPending(c) \/ DelPending(c) \/ Unlock(c))
    BY <2>4 DEF SetActive, SetPending, DelPending, Unlock, policy, prompt
  <2>5. CASE d = c /\ Publish(c)
    BY <2>5, NoneAssumption DEF Publish, StageInv, Early, Judgements
  <2>6. CASE d = c /\ ContextDone(c)
    BY <2>6 DEF ContextDone, Returns, TypeOK, Judgements, prompt
  <2>7. CASE d = c /\ Answered(c)
    BY <2>7 DEF Answered, Returns, TypeOK
  <2> QED
    BY <1>4, <2>1, <2>2, <2>3, <2>4, <2>5, <2>6, <2>7 DEF RequestStep
<1>5. ASSUME NEW a \in Answers, Send(a)
      PROVE  AnswerInv'
  <2>1. /\ ans[a].call \in Calls /\ ans'[a].at = "clear"
        /\ ans'[a].call = ans[a].call /\ ans'[a].kind = ans[a].kind
    BY <1>5, AnswerMoves DEF Send, WinInv, TypeOK
  <2>2. a \in Winners(ans[a].call)' /\ Delivered(a)'
    BY <2>1 DEF Winners, Delivered
  <2>3. respCh'[ans[a].call] = Verdict(ans[a].kind)
    BY <1>5, <2>1 DEF Send, TypeOK
  <2>4. \A c \in Calls : c # ans[a].call => respCh'[c] = respCh[c]
    BY <1>5 DEF Send, TypeOK
  <2>5. outcome' = outcome /\ shown' = shown
    BY <1>5 DEF Send
  <2> QED
    BY <1>1, <1>2, <2>1, <2>2, <2>3, <2>4, <2>5 DEF AnswerInv
<1>6. CASE respCh' = respCh /\ outcome' = outcome /\ shown' = shown
  BY <1>3, <1>6 DEF AnswerInv
<1>7. ASSUME NEW a \in Answers, Record(a) \/ AnswerNotifies(a) \/ ClearActive(a)
      PROVE  respCh' = respCh
  BY <1>7 DEF Record, AnswerNotifies, ClearActive, prompt
<1>8. \/ \E a \in Answers, c \in Calls, kind \in Kinds : TakeWins(a, c, kind) \/ TakeLoses(a, c, kind)
      \/ \E c \in Calls : CancelContext(c)
      \/ \E s \in Sessions : AutoApproveSession(s)
      \/ SetSkipRequests \/ UNCHANGED vars
      => respCh' = respCh
  BY DEF TakeWins, TakeLoses, CancelContext, AutoApproveSession, SetSkipRequests, vars, prompt
<1>9. (\E c \in Calls : RequestStep(c)) => AnswerInv'
  BY <1>3, <1>4 DEF AnswerInv
<1> QED
  BY <1>5, <1>6, <1>7, <1>8, <1>9, CallFrame, NextIsStep DEF Step, ResolveStep

-----------------------------------------------------------------------------
(* Counting the notifications of a kind. *)
NumberIn(q, S) == Cardinality({i \in 1..Len(q) : q[i] \in S})

LEMMA NumberAppend ==
    ASSUME NEW s \in Seq(Notices), NEW n \in Notices, NEW S
    PROVE  /\ NumberIn(s, S) \in Nat
           /\ NumberIn(Append(s, n), S) =
                 IF n \in S THEN NumberIn(s, S) + 1 ELSE NumberIn(s, S)
<1> DEFINE Places(q) == {i \in 1..Len(q) : q[i] \in S}
<1>1. Len(s) \in Nat
  OBVIOUS
<1>2. IsFiniteSet(Places(s))
  <2>1. IsFiniteSet(1..Len(s))
    BY <1>1, FS_Interval
  <2>2. Places(s) \subseteq 1..Len(s)
    OBVIOUS
  <2> QED
    BY <2>1, <2>2, FS_Subset
<1>3. Cardinality(Places(s)) \in Nat
  BY <1>2, FS_CardinalityType
<1>4. /\ Len(Append(s, n)) = Len(s) + 1
      /\ Append(s, n)[Len(s) + 1] = n
      /\ \A i \in 1..Len(s) : Append(s, n)[i] = s[i]
  OBVIOUS
<1>5. CASE n \in S
  <2>1. Places(Append(s, n)) = Places(s) \cup {Len(s) + 1}
    BY <1>1, <1>4, <1>5
  <2>2. Len(s) + 1 \notin Places(s)
    BY <1>1
  <2> QED
    BY <1>2, <1>3, <1>5, <2>1, <2>2, FS_AddElement DEF NumberIn
<1>6. CASE n \notin S
  <2>1. Places(Append(s, n)) = Places(s)
    BY <1>1, <1>4, <1>6
  <2> QED
    BY <1>3, <1>6, <2>1 DEF NumberIn
<1> QED
  BY <1>5, <1>6, <1>3 DEF NumberIn

LEMMA CountIsNumber == \A c, S : Count(c, S) = NumberIn(notes[c], S)
BY DEF Count, NumberIn

LEMMA CountIsNumberNext == \A c, S : Count(c, S)' = NumberIn(notes'[c], S)
BY DEF Count, NumberIn

LEMMA CountTypes ==
    ASSUME TypeOK, NEW c \in Calls, NEW S
    PROVE  /\ Count(c, S) \in Nat
           /\ \A R \in SUBSET S : Count(c, S) = 0 => Count(c, R) = 0
<1>1. notes[c] \in Seq(Notices)
  BY DEF TypeOK
<1>2. \A R : Count(c, R) \in Nat
  <2> SUFFICES ASSUME NEW R PROVE NumberIn(notes[c], R) \in Nat
    BY CountIsNumber
  <2>1. "requested" \in Notices
    BY DEF Notices
  <2> QED
    BY <1>1, <2>1, NumberAppend
<1>3. ASSUME NEW R \in SUBSET S, Count(c, S) = 0
      PROVE  Count(c, R) = 0
  <2> DEFINE All == {i \in 1..Len(notes[c]) : notes[c][i] \in S}
             Some == {i \in 1..Len(notes[c]) : notes[c][i] \in R}
  <2>1. IsFiniteSet(All)
    <3>1. Len(notes[c]) \in Nat
      BY <1>1
    <3>2. IsFiniteSet(1..Len(notes[c]))
      BY <3>1, FS_Interval
    <3> QED
      BY <3>2, FS_Subset
  <2>2. All = {}
    BY <1>3, <2>1, FS_EmptySet DEF Count
  <2>3. Some = {}
    BY <2>2
  <2> QED
    BY <2>3, FS_EmptySet DEF Count
<1> QED
  BY <1>2, <1>3

(* What a notification adds to the count of its call. *)
LEMMA CountNotify ==
    ASSUME TypeOK, NEW c \in Calls, NEW n \in Notices, Notify(c, n)
    PROVE  /\ \A S : Count(c, S)' = IF n \in S THEN Count(c, S) + 1 ELSE Count(c, S)
           /\ \A d \in Calls : d # c => notes'[d] = notes[d]
<1>1. notes[c] \in Seq(Notices)
  BY DEF TypeOK
<1>2. notes'[c] = Append(notes[c], n) /\ \A d \in Calls : d # c => notes'[d] = notes[d]
  BY DEF TypeOK, Notify
<1>3. \A S : Count(c, S)' = IF n \in S THEN Count(c, S) + 1 ELSE Count(c, S)
  <2>1. ASSUME NEW S
        PROVE  NumberIn(notes'[c], S) = IF n \in S THEN NumberIn(notes[c], S) + 1 ELSE NumberIn(notes[c], S)
    BY <1>1, <1>2, NumberAppend
  <2> QED
    BY <2>1, CountIsNumber, CountIsNumberNext
<1> QED
  BY <1>2, <1>3

(* A call's count stays right when nothing is published for it. *)
LEMMA NotesKept ==
    ASSUME NotesInv, NEW c \in Calls, notes'[c] = notes[c],
           Unjudged(c)' => Unjudged(c),
           \A a \in Winners(c)' : Announced(a)' =>
               a \in Winners(c) /\ Announced(a) /\ ans'[a].kind = ans[a].kind
    PROVE  NotesOf(c)'
<1>1. \A S : Count(c, S)' = Count(c, S)
  BY DEF Count
<1>2. \A a : ans'[a].kind = ans[a].kind => Verdict(ans[a].kind)' = Verdict(ans[a].kind)
  BY DEF Verdict
<1> QED
  BY <1>1, <1>2 DEF NotesInv, NotesOf

(* Request publishes a verdict only for a call that was never shown. *)
LEMMA NotesOfCaller ==
    ASSUME TypeOK, StageInv, WinInv, NotesInv, NEW c \in Calls, RequestStep(c)
    PROVE  NotesOf(c)'
<1>1. ans' = ans
  BY AnswerFrame
<1>2. c \notin shown => Winners(c) = {}
  BY DEF WinInv, Winners
<1>3. \A a \in Winners(c)' : Announced(a)' =>
          a \in Winners(c) /\ Announced(a) /\ ans'[a].kind = ans[a].kind
  BY <1>1 DEF Winners, Announced
<1>4. ASSUME notes' = notes, Unjudged(c)' => Unjudged(c)
      PROVE  NotesOf(c)'
  BY <1>3, <1>4, NotesKept
<1>5. ASSUME c \notin shown, outcome[c] = None, Notify(c, "granted"), Returns(c, "granted"), shown' = shown
      PROVE  NotesOf(c)'
  <2>1. Count(c, Judgements) = 0
    BY <1>2, <1>5 DEF NotesInv, NotesOf, Unjudged
  <2>2. Count(c, Judgements)' = 1
    BY <1>5, <2>1, CountNotify DEF Judgements, Notices
  <2>3. ~Unjudged(c)'
    BY <1>5, NoneAssumption DEF Unjudged, Returns, TypeOK
  <2>4. Winners(c)' = {}
    BY <1>1, <1>2, <1>5 DEF Winners
  <2> QED
    BY <2>2, <2>3, <2>4 DEF NotesOf
<1>6. CASE HookApproved(c)
  BY <1>5, <1>6 DEF HookApproved, StageInv, Early, prompt
<1>7. CASE Approved(c)
  BY <1>5, <1>7 DEF Approved, StageInv, Early, prompt
<1>8. CASE Lock(c)
  <2>1. /\ Count(c, Judgements)' = Count(c, Judgements)
        /\ \A v \in Judgements : Count(c, {v})' = Count(c, {v})
    BY <1>8, CountNotify DEF Lock, Judgements, Notices
  <2>2. Unjudged(c)' => Unjudged(c)
    BY <1>1, <1>8 DEF Unjudged, Lock, prompt, Winners, Announced
  <2>3. Winners(c)' = {}
    BY <1>1, <1>2, <1>8 DEF Winners, Lock, prompt, StageInv
  <2> QED
    BY <2>1, <2>2, <2>3 DEF NotesInv, NotesOf
<1>9. CASE Bypass(c)
  BY <1>1, <1>4, <1>9, NoneAssumption DEF Bypass, Unjudged, Winners, Announced, Returns, TypeOK,
     StageInv, prompt
<1>10. CASE NeedsPermission(c) \/ NotApproved(c) \/ SetActive(c) \/ SetPending(c) \/ DelPending(c) \/ Unlock(c)
  BY <1>1, <1>4, <1>10 DEF NeedsPermission, NotApproved, SetActive, SetPending, DelPending, Unlock,
     Unjudged, Winners, Announced, prompt
<1>11. CASE Publish(c)
  BY <1>1, <1>4, <1>11 DEF Publish, Unjudged, Winners, Announced, StageInv, Early
<1>12. CASE ContextDone(c) \/ Answered(c)
  <2>1. notes' = notes /\ shown' = shown /\ outcome[c] = None
    BY <1>12 DEF ContextDone, Answered, StageInv, Early, prompt
  <2> QED
    BY <1>1, <1>4, <2>1 DEF Unjudged, Winners, Announced
<1> QED
  BY <1>6, <1>7, <1>8, <1>9, <1>10, <1>11, <1>12 DEF RequestStep

(* The winner publishes its verdict, once. *)
LEMMA NotesOfWinner ==
    ASSUME TypeOK, WinInv, NotesInv, NEW a \in Answers, AnswerNotifies(a)
    PROVE  NotesInv'
<1>1. PICK w \in Calls, v \in Notices :
          w = ans[a].call /\ v = Verdict(ans[a].kind) /\ v \in Judgements
  BY AnswerFields DEF AnswerNotifies, WinInv, TypeOK, Judgements, Notices
<1>2. w \in shown /\ Notify(w, v) /\ AnsGoto(a, "send") /\ shown' = shown /\ outcome' = outcome
  BY <1>1 DEF AnswerNotifies, WinInv, prompt
<1>3. /\ ans'[a].at = "send" /\ ans'[a].call = w /\ Verdict(ans[a].kind)' = v
      /\ \A b \in Answers : b # a => ans'[b] = ans[b]
  BY <1>1, <1>2, AnswerMoves DEF Verdict
<1>4. Winners(w) = {a} /\ Winners(w)' = {a}
  BY <1>1, <1>3 DEF AnswerNotifies, WinInv, Won, Winners
<1>5. Count(w, Judgements) = 0 /\ Count(w, {v}) = 0
  <2>1. Unjudged(w)
    BY <1>2, <1>4 DEF Unjudged, Announced, AnswerNotifies
  <2>2. Count(w, Judgements) = 0
    BY <2>1 DEF NotesInv, NotesOf
  <2>3. {v} \in SUBSET Judgements
    BY <1>1
  <2> QED
    BY <2>2, <2>3, CountTypes
<1>6. Count(w, Judgements)' = 1 /\ Count(w, {v})' = 1
  <2>1. \A S : Count(w, S)' = IF v \in S THEN Count(w, S) + 1 ELSE Count(w, S)
    BY <1>2, CountNotify
  <2>2. Count(w, Judgements)' = Count(w, Judgements) + 1 /\ Count(w, {v})' = Count(w, {v}) + 1
    BY <1>1, <2>1
  <2> QED
    BY <1>5, <2>2
<1>7. NotesOf(w)'
  <2>1. ~Unjudged(w)'
    BY <1>3, <1>4 DEF Unjudged, Announced
  <2>2. \A b \in Winners(w)' : Verdict(ans[b].kind)' = v
    BY <1>3, <1>4
  <2> QED
    BY <1>6, <2>1, <2>2 DEF NotesOf
<1>8. ASSUME NEW d \in Calls, d # w
      PROVE  NotesOf(d)'
  <2>1. notes'[d] = notes[d]
    BY <1>2, <1>8, CountNotify
  <2>2. \A b \in Answers : ans'[b].call = d => b # a
    BY <1>3, <1>8
  <2>3. \A b \in Answers : ans[b].call = d => b # a
    BY <1>1, <1>8
  <2>4. Unjudged(d)' => Unjudged(d)
    BY <1>2, <1>3, <2>3 DEF Unjudged, Winners, Announced
  <2> QED
    BY <1>3, <2>1, <2>2, <2>4, NotesKept DEF Winners, Announced
<1> QED
  BY <1>7, <1>8 DEF NotesInv

LEMMA NotesStep ==
    ASSUME TypeOK, StageInv, WinInv, NotesInv, [Next]_vars
    PROVE  NotesInv'
<1>1. ASSUME NEW c \in Calls, RequestStep(c)
      PROVE  NotesInv'
  <2>1. ASSUME NEW d \in Calls, d # c
        PROVE  NotesOf(d)'
    <3>1. /\ ans' = ans /\ notes'[d] = notes[d] /\ outcome'[d] = outcome[d]
          /\ d \in shown' <=> d \in shown
      BY <1>1, <2>1, AnswerFrame
    <3> QED
      BY <3>1, NotesKept DEF Unjudged, Winners, Announced
  <2> QED
    BY <1>1, <2>1, NotesOfCaller DEF NotesInv
<1>2. ASSUME notes' = notes, outcome' = outcome, shown' = shown,
             \A a \in Answers :
                 /\ (Won(a) /\ Announced(a))' <=> (Won(a) /\ Announced(a))
                 /\ Announced(a) => ans'[a].call = ans[a].call /\ ans'[a].kind = ans[a].kind
      PROVE  NotesInv'
  BY <1>2, NotesKept DEF Unjudged, Winners, Announced, Won, NotesInv
<1>3. ASSUME NEW a \in Answers, NEW c \in Calls, NEW kind \in Kinds,
             TakeWins(a, c, kind) \/ TakeLoses(a, c, kind)
      PROVE  NotesInv'
  BY <1>2, <1>3, AnswerTakes DEF TakeWins, TakeLoses, Won, Announced, prompt
<1>4. ASSUME NEW a \in Answers, Record(a) \/ Send(a) \/ ClearActive(a)
      PROVE  NotesInv'
  BY <1>2, <1>4, AnswerMoves DEF Record, Send, ClearActive, Won, Announced, prompt
<1>5. \/ \E c \in Calls : CancelContext(c)
      \/ \E s \in Sessions : AutoApproveSession(s)
      \/ SetSkipRequests \/ UNCHANGED vars
      => NotesInv'
  BY <1>2 DEF CancelContext, AutoApproveSession, SetSkipRequests, vars, prompt, Won, Announced
<1> QED
  BY <1>1, <1>3, <1>4, <1>5, NotesOfWinner, NextIsStep DEF Step, ResolveStep

-----------------------------------------------------------------------------
(* Only GrantPersistent's onResolve adds a grant. *)
LEMMA GrantsFrame ==
    ASSUME [Next]_vars, TypeOK
    PROVE  \/ sessionPermissions' = sessionPermissions
           \/ \E a \in Answers : Record(a)
<1>1. (\E c \in Calls : RequestStep(c)) => sessionPermissions' = sessionPermissions
  BY AnswerFrame
<1>2. (\E a \in Answers, c \in Calls, kind \in Kinds : TakeWins(a, c, kind) \/ TakeLoses(a, c, kind))
      => sessionPermissions' = sessionPermissions
  BY DEF TakeWins, TakeLoses
<1>3. \A a \in Answers : AnswerNotifies(a) \/ Send(a) \/ ClearActive(a)
      => sessionPermissions' = sessionPermissions
  BY DEF AnswerNotifies, Send, ClearActive
<1>4. \/ \E c \in Calls : CancelContext(c)
      \/ \E s \in Sessions : AutoApproveSession(s)
      \/ SetSkipRequests \/ UNCHANGED vars
      => sessionPermissions' = sessionPermissions
  BY DEF CancelContext, AutoApproveSession, SetSkipRequests, vars
<1> QED
  BY <1>1, <1>2, <1>3, <1>4, NextIsStep DEF Step, ResolveStep

LEMMA ConsentStep ==
    ASSUME TypeOK, WinInv, ConsentIsWon, [Next]_vars
    PROVE  ConsentIsWon'
<1>1. ASSUME NEW k \in sessionPermissions
      PROVE  \E c \in Calls : KeyOf[c] = k /\ \E a \in Winners(c)' : ans'[a].kind = "persist"
  <2>1. PICK c \in Calls : KeyOf[c] = k /\ \E a \in Winners(c) : ans[a].kind = "persist"
    BY DEF ConsentIsWon
  <2>2. PICK a \in Winners(c) : ans[a].kind = "persist"
    BY <2>1
  <2>3. a \in Winners(c)' /\ ans'[a].kind = "persist"
    BY <2>2, WinnersStay DEF Winners, Won
  <2> QED
    BY <2>1, <2>3
<1>2. ASSUME NEW a \in Answers, Record(a)
      PROVE  /\ sessionPermissions' = sessionPermissions \cup {KeyOf[ans[a].call]}
             /\ ans[a].call \in Calls
             /\ \E c \in Calls : KeyOf[c] = KeyOf[ans[a].call] /\ \E b \in Winners(c)' : ans'[b].kind = "persist"
  <2>1. PICK c \in Calls : c = ans[a].call
    BY <1>2 DEF Record, WinInv, TypeOK
  <2>2. a \in Winners(c)' /\ ans'[a].kind = "persist"
    BY <1>2, <2>1, WinnersStay DEF Record, WinInv, Winners, Won
  <2> QED
    BY <1>2, <2>1, <2>2 DEF Record
<1>3. \A k \in sessionPermissions' :
          \E c \in Calls : KeyOf[c] = k /\ \E a \in Winners(c)' : ans'[a].kind = "persist"
  BY <1>1, <1>2, GrantsFrame
<1> QED
  BY <1>3 DEF ConsentIsWon

LEMMA NeedlessStep ==
    ASSUME TypeOK, MuInv, StageInv, WinInv, AnswerInv, NeedlessInv, [Next]_vars
    PROVE  NeedlessInv'
<1> DEFINE Waits(c) == pc[c] \in {"active", "pend"} \/ c \in pendingRequests
<1>1. ASSUME NEW c \in Calls, Excused(c)
      PROVE  Excused(c)'
  <2>1. PICK q \in cancelled : q # c /\ KeyOf[q] = KeyOf[c] /\ Winners(q) # {}
    BY <1>1 DEF Excused
  <2>2. q \in cancelled'
    BY CallFrame, AnswerFrame, NextIsStep DEF Step
  <2>3. Winners(q)' # {}
    BY <2>1, WinnersStay DEF Winners, Won
  <2> QED
    BY <2>1, <2>2, <2>3 DEF Excused
<1>2. ASSUME NEW c \in Calls, RequestStep(c), NEW d \in Calls, Waits(d)', KeyOf[d] \in sessionPermissions'
      PROVE  Waits(d)
  <2>0. sessionPermissions' = sessionPermissions
    BY <1>2, AnswerFrame
  <2>1. CASE d # c
    BY <1>2, <2>1, AnswerFrame
  <2>2. CASE d = c /\ NotApproved(c)
    BY <1>2, <2>0, <2>2 DEF NotApproved, Standing, Goto, TypeOK, prompt
  <2>3. CASE d = c /\ (Bypass(c) \/ HookApproved(c) \/ NeedsPermission(c) \/ Lock(c) \/ Approved(c))
    BY <1>2, <2>3 DEF Bypass, HookApproved, NeedsPermission, Lock, Approved, Goto, TypeOK, prompt
  <2>4. CASE d = c /\ (SetActive(c) \/ SetPending(c))
    BY <2>4 DEF SetActive, SetPending
  <2>5. CASE d = c /\ (Publish(c) \/ ContextDone(c) \/ Answered(c) \/ DelPending(c) \/ Unlock(c))
    BY <1>2, <2>5 DEF Publish, ContextDone, Answered, DelPending, Unlock, Goto, TypeOK, prompt
  <2> QED
    BY <1>2, <2>1, <2>2, <2>3, <2>4, <2>5 DEF RequestStep
<1>3. ASSUME NEW a \in Answers, Record(a), NEW d \in Calls, Waits(d), KeyOf[d] = KeyOf[ans[a].call]
      PROVE  Excused(d)
  <2>1. PICK q \in Calls : q = ans[a].call
    BY <1>3 DEF Record, WinInv, TypeOK
  <2>2. q \in shown /\ q \notin pendingRequests /\ a \in Winners(q)
    BY <1>3, <2>1 DEF Record, WinInv, Won, Winners
  <2>3. q # d /\ pc[q] = "done"
    BY <1>3, <2>2 DEF StageInv, MuInv, Held
  <2>4. outcome[q] \notin Judgements
    BY <1>3, <2>1, <2>2 DEF AnswerInv, WinInv, Won, Winners, Delivered, Record
  <2>5. q \in cancelled
    BY <2>2, <2>3, <2>4 DEF StageInv, Judgements, TypeOK
  <2> QED
    BY <1>3, <2>1, <2>2, <2>3, <2>5 DEF Excused
<1>4. ASSUME NEW d \in Calls, Waits(d), KeyOf[d] \in sessionPermissions'
      PROVE  Excused(d)
  <2>1. KeyOf[d] \in sessionPermissions \/ \E a \in Answers : Record(a) /\ KeyOf[d] = KeyOf[ans[a].call]
    BY <1>4, GrantsFrame DEF Record
  <2> QED
    BY <1>3, <1>4, <2>1 DEF NeedlessInv
<1>5. ASSUME NEW d \in Calls, Waits(d)', KeyOf[d] \in sessionPermissions'
      PROVE  Waits(d)
  BY <1>2, <1>5, CallFrame, NextIsStep DEF Step
<1> QED
  BY <1>1, <1>4, <1>5 DEF NeedlessInv

-----------------------------------------------------------------------------
LEMMA InitIInv == Init => IInv
<1> SUFFICES ASSUME Init PROVE IInv
  OBVIOUS
<1> USE DEF Init
<1>1. TypeOK
  <2>1. [at |-> "start", call |-> None, kind |-> "deny"] \in AnswerStates
    BY DEF AnswerStates, Kinds
  <2>2. ans \in [Answers -> AnswerStates]
    BY <2>1
  <2> QED
    BY <2>2 DEF TypeOK
<1>2. MuInv /\ StageInv /\ ActiveInv
  BY CallsAssumption, NoneAssumption DEF MuInv, StageInv, ActiveInv, Held, Early
<1>3. WinInv /\ \A c \in Calls : Winners(c) = {}
  BY DEF WinInv, Won, Winners
<1>4. AnswerInv /\ ConsentIsWon /\ NeedlessInv
  BY DEF AnswerInv, ConsentIsWon, NeedlessInv
<1>5. NotesInv
  <2>1. ASSUME NEW c \in Calls
        PROVE  Count(c, Judgements) = 0
    <3>1. {i \in 1..Len(notes[c]) : notes[c][i] \in Judgements} = {}
      BY <2>1
    <3> QED
      BY <3>1, FS_EmptySet DEF Count
  <2> QED
    BY <1>3, <2>1 DEF NotesInv, NotesOf
<1> QED
  BY <1>1, <1>2, <1>3, <1>4, <1>5 DEF IInv

LEMMA NextIInv == IInv /\ [Next]_vars => IInv'
BY TypeStep, MuStep, StageStep, ActiveStep, WinStep, AnswerStep, NotesStep, ConsentStep,
   NeedlessStep DEF IInv

LEMMA Invariance == Spec => []IInv
BY InitIInv, NextIInv, PTL DEF Spec

(* The permission service's variables stay in their types, so the winner of a *)
(* prompt always knows its call (permission.go: resolve).                     *)
THEOREM TypeCorrect == Spec => []TypeOK
<1>1. IInv => TypeOK
  BY DEF IInv
<1> QED
  BY <1>1, Invariance, PTL

(* A prompt is open only while its own Request holds requestMu.               *)
THEOREM OnePromptAtATime == Spec => []PromptsSerialized
<1>1. IInv => PromptsSerialized
  BY DEF IInv, MuInv, StageInv, Held, PromptsSerialized, TypeOK
<1> QED
  BY <1>1, Invariance, PTL

(* activeRequest is the open prompt: Grant, GrantPersistent and Deny clear    *)
(* only their own.                                                            *)
THEOREM ActiveIsOpen == Spec => []ActiveWhileOpen
<1>1. IInv => ActiveWhileOpen
  BY DEF IInv, ActiveInv, ActiveWhileOpen, TypeOK
<1> QED
  BY <1>1, Invariance, PTL

(* sessionPermissions holds only keys that a winning GrantPersistent granted. *)
THEOREM GrantsAreWon == Spec => []ConsentIsWon
<1>1. IInv => ConsentIsWon
  BY DEF IInv
<1> QED
  BY <1>1, Invariance, PTL

(* No prompt is open for a granted key, but for the one race with a cancelled *)
(* request.                                                                   *)
THEOREM GrantsAreHonoured == Spec => []NoNeedlessPrompt
<1>1. IInv => NoNeedlessPrompt
  BY DEF IInv, NeedlessInv, Excused, NoNeedlessPrompt, TypeOK
<1> QED
  BY <1>1, Invariance, PTL

(* One answer wins each prompt, one verdict is published, and Request returns *)
(* it or the cancellation.                                                    *)
THEOREM FirstWins == Spec => []FirstAnswerWins
<1>1. ASSUME IInv, NEW c \in Calls
      PROVE  /\ Cardinality(Winners(c)) <= 1 /\ Count(c, {"granted", "denied"}) <= 1
             /\ \A a \in Winners(c) : outcome[c] \in {Verdict(ans[a].kind), "cancelled", None}
  <2>1. Cardinality(Winners(c)) <= 1
    <3>1. CASE Winners(c) = {}
      BY <3>1, FS_EmptySet
    <3>2. ASSUME NEW a \in Winners(c)
          PROVE  Cardinality(Winners(c)) <= 1
      <4>1. Winners(c) = {a}
        BY <1>1 DEF IInv, WinInv, Won, Winners
      <4> QED
        BY <4>1, FS_Singleton
    <3> QED
      BY <3>1, <3>2
  <2>2. Count(c, {"granted", "denied"}) <= 1
    BY <1>1 DEF IInv, NotesInv, NotesOf, Judgements
  <2>3. ASSUME NEW a \in Winners(c)
        PROVE  outcome[c] \in {Verdict(ans[a].kind), "cancelled", None}
    <3>1. c \in shown
      BY <1>1 DEF IInv, WinInv, Winners
    <3>2. outcome[c] \in Judgements => Verdict(ans[a].kind) = outcome[c]
      BY <1>1, <3>1 DEF IInv, AnswerInv, WinInv, Won, Winners
    <3> QED
      BY <1>1, <3>2 DEF IInv, TypeOK, Judgements
  <2> QED
    BY <2>1, <2>2, <2>3
<1>2. IInv => FirstAnswerWins
  BY <1>1 DEF FirstAnswerWins
<1> QED
  BY <1>2, Invariance, PTL

(* A prompted Request returns "granted" or "denied" only after its winner     *)
(* published and sent that verdict.                                           *)
THEOREM VerdictsAreGiven == Spec => []VerdictIsGiven
<1>1. ASSUME IInv, NEW c \in shown, outcome[c] \in {"granted", "denied"}
      PROVE  /\ \E a \in Winners(c) : Delivered(a) /\ Verdict(ans[a].kind) = outcome[c]
             /\ Count(c, {outcome[c]}) = 1
  <2>1. c \in Calls
    BY <1>1 DEF IInv, TypeOK
  <2>2. PICK a \in Winners(c) : Delivered(a) /\ Verdict(ans[a].kind) = outcome[c]
    BY <1>1, <2>1 DEF IInv, AnswerInv, Judgements
  <2>3. Count(c, {outcome[c]}) = 1
    BY <1>1, <2>1, <2>2 DEF IInv, NotesInv, NotesOf, Announced, Delivered
  <2> QED
    BY <2>2, <2>3
<1>2. IInv => VerdictIsGiven
  BY <1>1 DEF VerdictIsGiven
<1> QED
  BY <1>2, Invariance, PTL

(* What the run checks: the state's types with the prompts' serialization.   *)
THEOREM PromptsWellFormed == Spec => []WellFormed
<1>1. TypeOK /\ PromptsSerialized /\ ActiveWhileOpen => WellFormed
  BY DEF WellFormed
<1> QED
  BY <1>1, TypeCorrect, OnePromptAtATime, ActiveIsOpen, PTL

(* And that the first answer's verdict is final.                             *)
THEOREM AnswersStand == Spec => []AnswersAreFinal
<1>1. FirstAnswerWins /\ VerdictIsGiven => AnswersAreFinal
  BY DEF AnswersAreFinal
<1> QED
  BY <1>1, FirstWins, VerdictsAreGiven, PTL
=============================================================================
