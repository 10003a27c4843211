------------------------- MODULE SessionAgentProofs -------------------------
(***************************************************************************)
(* Proofs about SessionAgent, for any number of prompts, cancels, summaries *)
(* and failures.  AInv is inductive.  Beside the types it says that the     *)
(* accept counter counts the open handles, that a goroutine between the     *)
(* two halves of a locked section holds dispatchMu (MuInv), that what a     *)
(* runner popped from the queue is there (SeenInv), and that a streaming    *)
(* runner is the registered one unless its entry was removed (RegInv).      *)
(* With every prompt submitted through an accept handle (Remote) the lock   *)
(* also orders the dispatches (RemoteInv).  What follows from the two is in *)
(* DispatchProofs.                                                         *)
(***************************************************************************)
EXTENDS SessionAgent, FiniteSetTheorems, WellFoundedInduction, SequenceTheorems, TLAPS

Popping(a) == pc[a] \in {"sumPopSet", "handoffPublish", "handoffRun"}
SeenInv == \A g \in Runners : Popping(g) => seen[g] # <<>>

AccountInv == IsFiniteSet(open) /\ HandleAccounting

Locking(a) == pc[a] \in {"register", "drainSet", "handoffSet", "mark"}
MuInv == \A a \in Actors : Locking(a) => mu = a

Registered(g) == Streams(g) \/ (pc[g] = "prepare" /\ cur[g].accepted # 0)
RegInv == \A g \in Runners : Registered(g) => orphaned \/ activeRequests = g

AInv == TypeOK /\ SeenInv /\ AccountInv /\ MuInv /\ RegInv

-----------------------------------------------------------------------------
(* The filter of Queues selects elements of the queue, in their order.      *)

(* A finite set of naturals has an n-th smallest element for every n up to  *)
(* its cardinality: the least bound below which it has n elements.          *)
LEMMA NthExists ==
    ASSUME NEW m \in Nat, NEW I \in SUBSET (1..m), NEW n \in 1..Cardinality(I)
    PROVE  /\ IsFiniteSet(I) /\ Cardinality(I) \in Nat
           /\ \E j \in I : Cardinality({k \in I : k <= j}) = n
<1> DEFINE Below(b) == {k \in I : k <= b}
           Count(b) == Cardinality(Below(b))
           T == {t \in 0..m : Count(t) >= n}
           R == OpToRel(<, Nat)
<1>0. m \in Nat /\ n \in Nat /\ n >= 1 /\ \A k \in I : k \in Nat /\ 1 <= k /\ k <= m
  OBVIOUS
<1>1. IsFiniteSet(I) /\ Cardinality(I) \in Nat
  <2>1. IsFiniteSet(1..m)
    BY FS_Interval
  <2> QED BY <2>1, FS_Subset, FS_CardinalityType
<1>2. ASSUME NEW b
      PROVE  IsFiniteSet(Below(b)) /\ Count(b) \in Nat
  <2>1. Below(b) \in SUBSET I
    OBVIOUS
  <2>2. IsFiniteSet(Below(b))
    BY <2>1, <1>1, FS_Subset
  <2> QED BY <2>2, FS_CardinalityType
<1>3. m \in T
  <2>1. Below(m) = I
    BY <1>0
  <2>2. Count(m) >= n
    BY <2>1, <1>1
  <2> QED BY <2>2, <1>0
<1>4. PICK j \in T : \A i \in T : ~(i < j)
  <2>1. T \subseteq Nat /\ T # {}
    BY <1>3
  <2>2. IsWellFoundedOn(R, Nat)
    BY NatLessThanWellFounded
  <2>3. \E x \in T : \A y \in T : <<y, x>> \notin R
    <3> HIDE DEF T, R
    <3> QED BY <2>1, <2>2, WFMin
  <2> QED BY <2>1, <2>3 DEF OpToRel
<1>5. j \in 0..m /\ Count(j) >= n
  BY <1>4
<1>6. j # 0
  <2> \A k \in I : ~(k <= 0)
    BY <1>0
  <2>1. Below(0) = {}
    OBVIOUS
  <2>2. Count(0) = 0
    BY <2>1, FS_EmptySet
  <2> QED BY <2>2, <1>5, <1>0
<1>7. Count(j - 1) < n
  <2>1. j - 1 \in 0..m /\ j - 1 < j
    BY <1>5, <1>6, <1>0
  <2>2. j - 1 \notin T
    BY <2>1, <1>4
  <2>3. ~(Count(j - 1) >= n)
    BY <2>1, <2>2
  <2>4. Count(j - 1) \in Nat
    BY <1>2
  <2> HIDE DEF Count
  <2> QED BY <2>3, <2>4, <1>0
<1>8. \A k \in I : k <= j <=> (k <= j - 1 \/ k = j)
  BY <1>0, <1>5
<1>9. j \in I
  <2> SUFFICES ASSUME j \notin I
               PROVE  FALSE
    OBVIOUS
  <2>1. Below(j) = Below(j - 1)
    BY <1>8
  <2>2. Count(j) = Count(j - 1) /\ Count(j) \in Nat
    BY <2>1, <1>2
  <2> HIDE DEF Count
  <2> QED BY <2>2, <1>5, <1>7, <1>0
<1>10. Count(j) = Count(j - 1) + 1
  <2>1. Below(j) = Below(j - 1) \cup {j}
    <3>1. \A k : k \in Below(j) <=> k \in Below(j - 1) \/ k = j
      BY <1>8, <1>9
    <3> HIDE DEF Below
    <3> QED BY <3>1
  <2>2. j \notin Below(j - 1)
    BY <1>5
  <2>3. IsFiniteSet(Below(j - 1))
    BY <1>2
  <2> HIDE DEF Below
  <2> QED BY <2>1, <2>2, <2>3, FS_AddElement
<1>11. Count(j) = n
  <2>1. Count(j - 1) \in Nat
    BY <1>2
  <2> HIDE DEF Count
  <2> QED BY <2>1, <1>5, <1>7, <1>10, <1>0
<1> QED BY <1>1, <1>9, <1>11

(* What At selects is a queue of the same elements. *)
LEMMA AtType ==
    ASSUME NEW S, NEW q \in Seq(S), NEW I \in SUBSET (1..Len(q))
    PROVE  At(q, I) \in Seq(S)
<1> DEFINE N == Cardinality(I)
<1>1. Len(q) \in Nat
  OBVIOUS
<1>2. N \in Nat
  <2>1. IsFiniteSet(1..Len(q))
    BY <1>1, FS_Interval
  <2>2. IsFiniteSet(I)
    BY <2>1, FS_Subset
  <2> QED BY <2>2, FS_CardinalityType
<1>3. ASSUME NEW n \in 1..N
      PROVE  q[Nth(I, n)] \in S
  <2>1. \E j \in I : Cardinality({k \in I : k <= j}) = n
    BY <1>1, NthExists
  <2>2. Nth(I, n) \in I
    <3> DEFINE P(j) == Cardinality({k \in I : k <= j}) = n
    <3>1. \E j \in I : P(j)
      BY <2>1
    <3>2. Nth(I, n) = CHOOSE j \in I : P(j)
      BY DEF Nth
    <3> HIDE DEF P
    <3> QED BY <3>1, <3>2
  <2>3. Nth(I, n) \in 1..Len(q)
    BY <2>2
  <2> QED BY <2>3
<1>4. [n \in 1..N |-> q[Nth(I, n)]] \in Seq(S)
  BY <1>2, <1>3, IsASeq
<1> QED BY <1>4 DEF At

(* The n-th element At selects is the queue's element at the n-th position, *)
(* and different places of the selection come from different positions.     *)
LEMMA AtElements ==
    ASSUME NEW S, NEW q \in Seq(S), NEW I \in SUBSET (1..Len(q))
    PROVE  /\ Len(At(q, I)) = Cardinality(I) /\ Cardinality(I) \in Nat
           /\ \A n \in 1..Len(At(q, I)) : Nth(I, n) \in I /\ At(q, I)[n] = q[Nth(I, n)]
           /\ \A m, n \in 1..Len(At(q, I)) : Nth(I, m) = Nth(I, n) => m = n
<1> DEFINE N == Cardinality(I)
<1>1. Len(q) \in Nat
  OBVIOUS
<1>2. N \in Nat
  <2>1. IsFiniteSet(1..Len(q))
    BY <1>1, FS_Interval
  <2> QED BY <2>1, FS_Subset, FS_CardinalityType
<1>3. Len(At(q, I)) = N /\ \A n \in 1..N : At(q, I)[n] = q[Nth(I, n)]
  BY <1>2 DEF At
<1>4. ASSUME NEW n \in 1..N
      PROVE  Nth(I, n) \in I /\ Cardinality({k \in I : k <= Nth(I, n)}) = n
  <2> DEFINE P(j) == Cardinality({k \in I : k <= j}) = n
  <2>1. \E j \in I : P(j)
    BY <1>1, NthExists
  <2>2. Nth(I, n) = CHOOSE j \in I : P(j)
    BY DEF Nth
  <2>3. Nth(I, n) \in I /\ P(Nth(I, n))
    <3> HIDE DEF P
    <3> QED BY <2>1, <2>2
  <2> QED BY <2>3
<1>5. ASSUME NEW m \in 1..N, NEW n \in 1..N, Nth(I, m) = Nth(I, n)
      PROVE  m = n
  BY <1>4, <1>5
<1> QED BY <1>2, <1>3, <1>4, <1>5

-----------------------------------------------------------------------------
(* Calls and frames. *)
LEMMA CallTypes ==
    ASSUME NEW c \in Call, NEW n \in Nat
    PROVE  /\ c.id \in Prompts /\ c.acceptSeq \in Nat /\ c.hook \in BOOLEAN
           /\ c.accepted \in Nat
           /\ [c EXCEPT !.accepted = n] \in Call
           /\ EnqueueCall(c) \in Call
<1>1. /\ c.id \in Prompts /\ c.acceptSeq \in Nat /\ c.hook \in BOOLEAN
      /\ c.accepted \in Nat
      /\ [c EXCEPT !.accepted = n] \in Call
  BY DEF Call
<1>2. EnqueueCall(c) \in Call
  <2>1. (IF c.accepted # 0 THEN c.accepted ELSE c.acceptSeq) \in Nat
    BY <1>1
  <2> QED
    BY <2>1 DEF EnqueueCall, Call
<1> QED
  BY <1>1, <1>2

LEMMA NewCallType ==
    ASSUME NEW p \in Prompts, NEW n \in Nat
    PROVE  NewCall(p, n) \in Call /\ NewCall(p, n).accepted = n
BY DEF NewCall, Call

LEMMA NoCallType == NoCall \in Call
<1>1. (CHOOSE p \in Prompts : TRUE) \in Prompts
  BY ConstantsAssumption
<1> QED
  BY <1>1, NewCallType DEF NoCall

LEMMA FrameTypes ==
    ASSUME NEW c \in Call, NEW t \in BOOLEAN,
           NEW k \in {"handoff", "summarize", "compact"}
    PROVE  [kind |-> k, call |-> c, tools |-> t] \in Frame
BY DEF Frame

LEMMA ActorTypes ==
    /\ Prompts \subseteq Runners /\ Summaries \subseteq Runners
    /\ Runners \subseteq Actors /\ Cancels \subseteq Actors /\ Clears \subseteq Actors
    /\ Runners \cap (Cancels \cup Clears) = {} /\ Cancels \cap Clears = {}
    /\ None \notin Actors /\ None \notin Runners
BY ConstantsAssumption DEF Actors, Runners

LEMMA SeqFacts ==
    ASSUME NEW S, NEW q \in Seq(S)
    PROVE  /\ q # <<>> => Head(q) \in S /\ Tail(q) \in Seq(S)
           /\ \A e \in S : Append(q, e) \in Seq(S) /\ <<e>> \o q \in Seq(S)
OBVIOUS

-----------------------------------------------------------------------------
(* The helpers keep the types of what they assign. *)
LEMMA GotoType ==
    ASSUME TypeOK, NEW a \in Actors, NEW l \in Labels, Goto(a, l)
    PROVE  /\ pc' \in [Actors -> Labels]
           /\ pc'[a] = l /\ \A b \in Actors : b # a => pc'[b] = pc[b]
BY DEF TypeOK, Goto

LEMMA CloseType ==
    ASSUME TypeOK, NEW h, Close(h)
    PROVE  open' \in SUBSET Nat /\ acceptedRuns' \in Nat /\ cancelMark' \in Nat
<1>1. CASE h \in open
  <2>1. open' \in SUBSET Nat
    BY <1>1 DEF TypeOK, Close
  <2>2. (IF acceptedRuns <= 1 THEN 0 ELSE acceptedRuns - 1) \in Nat
    BY DEF TypeOK
  <2>3. (IF acceptedRuns <= 1 THEN 0 ELSE cancelMark) \in Nat
    BY DEF TypeOK
  <2> QED
    BY <1>1, <2>1, <2>2, <2>3 DEF Close
<1>2. CASE h \notin open
  BY <1>2 DEF TypeOK, Close
<1> QED
  BY <1>1, <1>2

LEMMA ReserveType ==
    ASSUME TypeOK, Reserve
    PROVE  open' \in SUBSET Nat /\ acceptedRuns' \in Nat /\ acceptSeqGen' \in Nat
BY DEF TypeOK, Reserve

LEMMA PublishType ==
    ASSUME TypeOK, NEW C, NEW o \in Outcomes, PublishRunComplete(C, o)
    PROVE  latest' \in [Prompts -> Outcomes] /\ published' \in [Prompts -> Nat]
BY DEF TypeOK, PublishRunComplete

LEMMA DropsType ==
    ASSUME TypeOK, NEW C, PublishCanceledQueueDrops(C)
    PROVE  latest' \in [Prompts -> Outcomes] /\ published' \in [Prompts -> Nat]
BY PublishType DEF PublishCanceledQueueDrops, Outcomes

LEMMA ActiveType ==
    ASSUME TypeOK, NEW g \in Runners, DelActive(g) \/ SetActive(g)
    PROVE  activeRequests' \in Runners \cup {None} /\ orphaned' \in BOOLEAN
BY DEF TypeOK, DelActive, SetActive, Reregister

LEMMA ContextType ==
    ASSUME TypeOK, NEW g \in Runners, SetActive(g)
    PROVE  ctxDone' \in [Runners -> BOOLEAN]
BY DEF TypeOK, SetActive

ReturnLabels == {"returned", "unwind", "sumDefer", "requeue", "finish", "settle"}

LEMMA ReturnType ==
    ASSUME TypeOK, NEW g \in Runners, NEW r \in Results, Return(g, r)
    PROVE  /\ pc' \in [Actors -> Labels] /\ cur' \in [Runners -> Call]
           /\ stack' \in [Runners -> Seq(Frame)] /\ ret' \in [Runners -> Results]
           /\ pc'[g] \in ReturnLabels
           /\ \A a \in Actors : a # g => pc'[a] = pc[a]
           /\ \A h \in Runners : h # g => cur'[h] = cur[h] /\ stack'[h] = stack[h]
<1>1. g \in Actors
  BY ActorTypes
<1>2. ret' \in [Runners -> Results]
  BY DEF Return, TypeOK
<1>3. CASE stack[g] = <<>>
  BY <1>1, <1>2, <1>3 DEF Return, Goto, TypeOK, Labels, ReturnLabels
<1>4. CASE stack[g] # <<>>
  <2> DEFINE f == Head(stack[g])
  <2>1. f \in Frame /\ Tail(stack[g]) \in Seq(Frame)
    BY <1>4, SeqFacts DEF TypeOK
  <2>2. f.call \in Call
    BY <2>1 DEF Frame
  <2>3. /\ stack' = [stack EXCEPT ![g] = Tail(stack[g])]
        /\ cur' = [cur EXCEPT ![g] = f.call]
    BY <1>4 DEF Return
  <2>4. PICK l \in ReturnLabels : pc' = [pc EXCEPT ![g] = l]
    BY <1>4 DEF Return, Goto, ReturnLabels
  <2>5. ReturnLabels \subseteq Labels
    BY DEF ReturnLabels, Labels
  <2> QED
    BY <1>1, <1>2, <2>1, <2>2, <2>3, <2>4, <2>5 DEF TypeOK
<1> QED
  BY <1>3, <1>4

LEMMA PushType ==
    ASSUME TypeOK, NEW g \in Runners, NEW k \in {"handoff", "summarize", "compact"},
           NEW t \in BOOLEAN, NEW l \in Labels, Push(g, k, t, l)
    PROVE  pc' \in [Actors -> Labels] /\ stack' \in [Runners -> Seq(Frame)]
<1>1. [kind |-> k, call |-> cur[g], tools |-> t] \in Frame
  BY FrameTypes DEF TypeOK
<1>2. <<[kind |-> k, call |-> cur[g], tools |-> t]>> \o stack[g] \in Seq(Frame)
  BY <1>1, SeqFacts DEF TypeOK
<1> QED
  BY <1>2, ActorTypes DEF Push, Goto, TypeOK

(* A filter of what a goroutine read is a queue. *)
LEMMA KeptTypes ==
    ASSUME TypeOK, NEW a \in Actors, NEW I \in SUBSET (1..Len(seen[a]))
    PROVE  At(seen[a], I) \in Seq(Call) /\ \A i \in I : seen[a][i] \in Call
BY AtType DEF TypeOK

LEMMA UncanceledType ==
    ASSUME TypeOK, NEW g \in Runners
    PROVE  /\ Uncanceled(g) \in Seq(Call)
           /\ \A c \in HandoffDrops(g) : c \in Call
BY KeptTypes, ActorTypes DEF Uncanceled, HandoffDrops, Keep, Elems

-----------------------------------------------------------------------------
(* The initial state. *)
LEMMA InitType == Init => TypeOK
<1> SUFFICES ASSUME Init PROVE TypeOK
  OBVIOUS
<1>1. pc \in [Actors -> Labels]
  BY DEF Init, Labels
<1>2. cur \in [Runners -> Call]
  BY NoCallType DEF Init
<1>3. messageQueue \in Seq(Call) /\ seen \in [Actors -> Seq(Call)]
      /\ stack \in [Runners -> Seq(Frame)]
  BY DEF Init
<1>4. ret \in [Runners -> Results] /\ latest \in [Prompts -> Outcomes]
  BY DEF Init, Results, Outcomes
<1> QED
  BY <1>1, <1>2, <1>3, <1>4 DEF Init, TypeOK

-----------------------------------------------------------------------------
(* Types: the caller of Run and the dispatch. *)
LEMMA PromptingType ==
    ASSUME TypeOK, NEW p \in Prompts, Prompting(p), UNCHANGED marking
    PROVE  TypeOK'
<1> USE ActorTypes DEF agentVars, acceptVars, localVars, eventVars, boundVars,
        ghostVars, otherVars
<1>0. p \in Runners /\ p \in Actors
  OBVIOUS
<1>1. CASE BeginAccepted(p)
  <2>1. pc' \in [Actors -> Labels]
    BY <1>0, <1>1, GotoType DEF BeginAccepted, Labels
  <2>2. CASE p \in Local
    <3>1. NewCall(p, 0) \in Call
      BY NewCallType
    <3>2. cur' \in [Runners -> Call]
      BY <1>0, <1>1, <2>2, <3>1 DEF BeginAccepted, TypeOK
    <3> QED
      BY <1>1, <2>1, <2>2, <3>2 DEF BeginAccepted, TypeOK
  <2>3. CASE p \notin Local
    <3>1. NewCall(p, acceptSeqGen + 1) \in Call
      BY NewCallType DEF TypeOK
    <3>2. cur' \in [Runners -> Call]
      BY <1>0, <1>1, <2>3, <3>1 DEF BeginAccepted, TypeOK
    <3>3. open' \in SUBSET Nat /\ acceptedRuns' \in Nat /\ acceptSeqGen' \in Nat
      BY <1>1, <2>3, ReserveType DEF BeginAccepted
    <3> QED
      BY <1>1, <2>1, <2>3, <3>2, <3>3 DEF BeginAccepted, TypeOK
  <2> QED
    BY <2>2, <2>3
<1>2. CASE CallRun(p)
  <2>1. pc' \in [Actors -> Labels]
    BY <1>0, <1>2, GotoType DEF CallRun, Labels
  <2>2. attempts' \in [Runners -> Nat]
    BY <1>2 DEF CallRun, TypeOK
  <2> QED
    BY <1>2, <2>1, <2>2 DEF CallRun, TypeOK
<1>3. CASE RunAgentReturns(p)
  <2>1. pc' \in [Actors -> Labels]
    BY <1>0, <1>3, GotoType DEF RunAgentReturns, Labels
  <2>2. open' \in SUBSET Nat /\ acceptedRuns' \in Nat /\ cancelMark' \in Nat
    BY <1>3, CloseType DEF RunAgentReturns
  <2>3. errors' \in Nat /\ ret' \in [Runners -> Results]
    <3>1. \/ errors' = errors + 1 /\ ret' = [ret EXCEPT ![p] = "error"]
          \/ UNCHANGED <<errors, ret>>
      BY <1>3 DEF RunAgentReturns, MayFail
    <3>2. "error" \in Results
      BY DEF Results
    <3>3. errors \in Nat /\ ret \in [Runners -> Results]
      BY DEF TypeOK
    <3> QED
      BY <1>0, <3>1, <3>2, <3>3
  <2> QED
    BY <1>3, <2>1, <2>2, <2>3 DEF RunAgentReturns, TypeOK
<1> QED
  BY <1>1, <1>2, <1>3 DEF Prompting

LEMMA DispatchingType ==
    ASSUME TypeOK, NEW g \in Runners, Dispatching(g), UNCHANGED marking
    PROVE  TypeOK'
<1> USE ActorTypes DEF agentVars, acceptVars, localVars, eventVars, boundVars,
        ghostVars, otherVars
<1>0. g \in Actors /\ cur[g] \in Call /\ cur[g].id \in Prompts /\ seen[g] \in Seq(Call)
  BY CallTypes DEF TypeOK
<1>1. CASE EnterCanceled(g)
  <2>1. pc' \in [Actors -> Labels]
    BY <1>0, <1>1, GotoType DEF EnterCanceled, Labels
  <2>2. open' \in SUBSET Nat /\ acceptedRuns' \in Nat /\ cancelMark' \in Nat
    BY <1>1, CloseType DEF EnterCanceled
  <2> QED
    BY <1>0, <1>1, <2>1, <2>2 DEF EnterCanceled, TypeOK
<1>2. CASE EnterBusy(g) \/ EnterIdle(g)
  <2>1. pc' \in [Actors -> Labels]
    BY <1>0, <1>2, GotoType DEF EnterBusy, EnterIdle, Labels
  <2> QED
    BY <1>0, <1>2, <2>1 DEF EnterBusy, EnterIdle, TypeOK
<1>3. CASE Register(g)
  <2>1. pc' \in [Actors -> Labels]
    BY <1>0, <1>3, GotoType DEF Register, Labels
  <2>2. open' \in SUBSET Nat /\ acceptedRuns' \in Nat /\ cancelMark' \in Nat
    BY <1>3, CloseType DEF Register
  <2>3. /\ activeRequests' \in Runners \cup {None} /\ orphaned' \in BOOLEAN
        /\ ctxDone' \in [Runners -> BOOLEAN]
    BY <1>3, ActiveType, ContextType DEF Register
  <2> QED
    BY <1>3, <2>1, <2>2, <2>3 DEF Register, TypeOK
<1>4. CASE EnterLocal(g)
  <2>1. pc' \in [Actors -> Labels]
    BY <1>0, <1>4, GotoType DEF EnterLocal, Labels
  <2> QED
    BY <1>4, <2>1 DEF EnterLocal, TypeOK
<1>5. CASE Enqueue(g)
  <2>1. pc' \in [Actors -> Labels]
    BY <1>0, <1>5, GotoType DEF Enqueue, Labels
  <2>2. seen' \in [Actors -> Seq(Call)]
    BY <1>0, <1>5 DEF Enqueue, TypeOK
  <2> QED
    BY <1>5, <2>1, <2>2 DEF Enqueue, TypeOK
<1>6. CASE EnqueueSet(g)
  <2>1. EnqueueCall(cur[g]) \in Call
    BY <1>0, CallTypes
  <2>2. messageQueue' \in Seq(Call)
    BY <1>0, <1>6, <2>1, SeqFacts DEF EnqueueSet
  <2>3. open' \in SUBSET Nat /\ acceptedRuns' \in Nat /\ cancelMark' \in Nat
    BY <1>6, CloseType DEF EnqueueSet
  <2>4. /\ pc' \in [Actors -> Labels] /\ cur' \in [Runners -> Call]
        /\ stack' \in [Runners -> Seq(Frame)] /\ ret' \in [Runners -> Results]
    BY <1>6, ReturnType DEF EnqueueSet, Results
  <2>5. mu' \in Actors \cup {None}
    BY <1>6 DEF EnqueueSet, TypeOK
  <2> QED
    BY <1>6, <2>2, <2>3, <2>4, <2>5 DEF EnqueueSet, TypeOK
<1>7. CASE CanceledEntry(g)
  <2>1. latest' \in [Prompts -> Outcomes] /\ published' \in [Prompts -> Nat]
    BY <1>7, PublishType DEF CanceledEntry, Outcomes
  <2>2. /\ pc' \in [Actors -> Labels] /\ cur' \in [Runners -> Call]
        /\ stack' \in [Runners -> Seq(Frame)] /\ ret' \in [Runners -> Results]
    BY <1>7, ReturnType DEF CanceledEntry, Results
  <2>3. errors' \in Nat
    BY <1>7 DEF CanceledEntry, MayFail, TypeOK
  <2> QED
    BY <1>7, <2>1, <2>2, <2>3 DEF CanceledEntry, TypeOK
<1>8. CASE Prepare(g)
  <2>1. pc' \in [Actors -> Labels]
    BY <1>0, <1>8, GotoType DEF Prepare, Labels
  <2>2. /\ activeRequests' \in Runners \cup {None} /\ orphaned' \in BOOLEAN
        /\ ctxDone' \in [Runners -> BOOLEAN]
    BY <1>8, ActiveType, ContextType DEF Prepare, TypeOK
  <2> QED
    BY <1>8, <2>1, <2>2 DEF Prepare, TypeOK
<1>9. CASE PrepareFails(g)
  <2>1. errors' \in Nat
    BY <1>9 DEF PrepareFails, MayFail, TypeOK
  <2>2. /\ pc' \in [Actors -> Labels] /\ cur' \in [Runners -> Call]
        /\ stack' \in [Runners -> Seq(Frame)] /\ ret' \in [Runners -> Results]
    <3>1. CASE cur[g].accepted = 0
      BY <1>9, <3>1, ReturnType DEF PrepareFails, Results
    <3>2. CASE cur[g].accepted # 0
      <4>1. pc' \in [Actors -> Labels]
        BY <1>0, <1>9, <3>2, GotoType DEF PrepareFails, Labels
      <4> QED
        BY <1>9, <3>2, <4>1 DEF PrepareFails, Results, TypeOK
    <3> QED
      BY <3>1, <3>2
  <2> QED
    BY <1>9, <2>1, <2>2 DEF PrepareFails, TypeOK
<1> QED
  BY <1>1, <1>2, <1>3, <1>4, <1>5, <1>6, <1>7, <1>8, <1>9 DEF Dispatching

(* Types: the stream. *)
LEMMA StreamingType ==
    ASSUME TypeOK, NEW g \in Runners, Streaming(g), UNCHANGED marking
    PROVE  TypeOK'
<1> USE ActorTypes DEF agentVars, acceptVars, localVars, eventVars, boundVars,
        ghostVars, otherVars
<1>0. g \in Actors /\ cur[g] \in Call /\ seen[g] \in Seq(Call) /\ <<>> \in Seq(Call)
  BY DEF TypeOK
<1>1. CASE DrainQueue(g)
  <2>1. pc' \in [Actors -> Labels]
    BY <1>0, <1>1, GotoType DEF DrainQueue, Labels
  <2>2. seen' \in [Actors -> Seq(Call)]
    BY <1>0, <1>1 DEF DrainQueue, TypeOK
  <2> QED
    BY <1>0, <1>1, <2>1, <2>2 DEF DrainQueue, TypeOK
<1>2. CASE DrainSet(g)
  <2> DEFINE Dropped(c) == CanceledBySeq(c.acceptSeq)
             Kept(c)    == ~Dropped(c) /\ HasRunID(c)
             Folded(c)  == ~Dropped(c) /\ ~HasRunID(c)
             drops      == Elems(seen[g], Dropped)
  <2>1. pc' \in [Actors -> Labels]
    BY <1>0, <1>2, GotoType DEF DrainSet, Labels
  <2>2. Keep(seen[g], Kept) \in Seq(Call)
    BY <1>0, KeptTypes DEF Keep
  <2>3. Keep(seen[g], Folded) \in Seq(Call)
    BY <1>0, KeptTypes DEF Keep
  <2>4. \A c \in drops : c \in Call
    BY <1>0, KeptTypes DEF Elems
  <2>5. /\ messageQueue' = Keep(seen[g], Kept)
        /\ seen' = [seen EXCEPT ![g] = Keep(seen[g], Folded)]
        /\ PublishCanceledQueueDrops(drops)
        /\ struck' = struck \cup {c.id : c \in drops}
        /\ mu' = None
    BY <1>2 DEF DrainSet
  <2>6. messageQueue' \in Seq(Call) /\ seen' \in [Actors -> Seq(Call)]
    BY <1>0, <2>2, <2>3, <2>5 DEF TypeOK
  <2>7. latest' \in [Prompts -> Outcomes] /\ published' \in [Prompts -> Nat]
    BY <2>5, DropsType
  <2>8. struck' \in SUBSET Prompts
    <3>1. \A c \in drops : c.id \in Prompts
      BY <2>4, CallTypes
    <3>2. {c.id : c \in drops} \subseteq Prompts
      BY <3>1
    <3>3. struck \subseteq Prompts
      BY DEF TypeOK
    <3> QED
      BY <2>5, <3>2, <3>3
  <2>9. UNCHANGED <<activeRequests, acceptVars, cur, stack, ctxDone, ret,
                    boundVars, covered, orphaned>>
    BY <1>2 DEF DrainSet
  <2> QED
    BY <2>1, <2>5, <2>6, <2>7, <2>8, <2>9 DEF TypeOK
<1>3. CASE Fold(g)
  <2>1. pc' \in [Actors -> Labels]
    BY <1>0, <1>3, GotoType DEF Fold, Labels
  <2>2. seen' \in [Actors -> Seq(Call)]
    BY <1>0, <1>3 DEF Fold, TypeOK
  <2> QED
    BY <1>3, <2>1, <2>2 DEF Fold, TypeOK
<1>4. CASE StreamFails(g)
  <2>1. pc' \in [Actors -> Labels]
    BY <1>0, <1>4, GotoType DEF StreamFails, Labels
  <2>2. seen' \in [Actors -> Seq(Call)]
    BY <1>0, <1>4 DEF StreamFails, TypeOK
  <2>3. PICK r \in Results : ret' = [ret EXCEPT ![g] = r]
    BY <1>4 DEF StreamFails, Results
  <2>4. errors' \in Nat
    BY <1>4 DEF StreamFails, MayFail, TypeOK
  <2> QED
    BY <1>4, <2>1, <2>2, <2>3, <2>4 DEF StreamFails, TypeOK
<1>5. CASE NextStep(g)
  <2>1. pc' \in [Actors -> Labels]
    BY <1>0, <1>5, GotoType DEF NextStep, Labels
  <2> QED
    BY <1>5, <2>1 DEF NextStep, TypeOK
<1>6. CASE StreamEnds(g)
  <2>1. pc' \in [Actors -> Labels]
    BY <1>0, <1>6, GotoType DEF StreamEnds, Labels
  <2>2. ret' \in [Runners -> Results]
    BY <1>6 DEF StreamEnds, Results, TypeOK
  <2> QED
    BY <1>6, <2>1, <2>2 DEF StreamEnds, TypeOK
<1>7. CASE Compact(g)
  <2>1. pc' \in [Actors -> Labels] /\ stack' \in [Runners -> Seq(Frame)]
    BY <1>7, PushType DEF Compact, Labels
  <2>2. activeRequests' \in Runners \cup {None} /\ orphaned' \in BOOLEAN
    BY <1>7, ActiveType DEF Compact
  <2>3. /\ compactions' = compactions + 1
        /\ UNCHANGED <<messageQueue, acceptVars, mu, cur, seen, ctxDone, ret,
                       eventVars, attempts, errors, covered, struck>>
    BY <1>7 DEF Compact
  <2>4. compactions' \in Nat
    BY <2>3 DEF TypeOK
  <2> QED
    BY <2>1, <2>2, <2>3, <2>4 DEF TypeOK
<1> QED
  BY <1>1, <1>2, <1>3, <1>4, <1>5, <1>6, <1>7 DEF Streaming

(* Types: the summary. *)
LEMMA SummarizingType ==
    ASSUME TypeOK, SeenInv, NEW g \in Runners, Summarizing(g), UNCHANGED marking
    PROVE  TypeOK'
<1> USE ActorTypes DEF agentVars, acceptVars, localVars, eventVars, boundVars,
        ghostVars, otherVars
<1>0. g \in Actors /\ cur[g] \in Call /\ seen[g] \in Seq(Call) /\ <<>> \in Seq(Call)
  BY DEF TypeOK
<1>1. CASE SummarizeCheck(g)
  <2>1. CASE IsSessionBusy
    <3>1. /\ pc' \in [Actors -> Labels] /\ cur' \in [Runners -> Call]
          /\ stack' \in [Runners -> Seq(Frame)] /\ ret' \in [Runners -> Results]
      BY <1>1, <2>1, ReturnType DEF SummarizeCheck, Results
    <3> QED
      BY <1>1, <3>1 DEF SummarizeCheck, TypeOK
  <2>2. CASE ~IsSessionBusy
    <3>1. pc' \in [Actors -> Labels]
      BY <1>0, <1>1, <2>2, GotoType DEF SummarizeCheck, Labels
    <3> QED
      BY <1>1, <2>2, <3>1 DEF SummarizeCheck, TypeOK
  <2> QED
    BY <2>1, <2>2
<1>2. CASE SummarizeRegister(g)
  <2>1. pc' \in [Actors -> Labels]
    BY <1>0, <1>2, GotoType DEF SummarizeRegister, Labels
  <2>2. /\ activeRequests' \in Runners \cup {None} /\ orphaned' \in BOOLEAN
        /\ ctxDone' \in [Runners -> BOOLEAN]
    BY <1>2, ActiveType, ContextType DEF SummarizeRegister
  <2> QED
    BY <1>2, <2>1, <2>2 DEF SummarizeRegister, TypeOK
<1>3. CASE SummarizeSkips(g)
  <2>1. /\ pc' \in [Actors -> Labels] /\ cur' \in [Runners -> Call]
        /\ stack' \in [Runners -> Seq(Frame)] /\ ret' \in [Runners -> Results]
    BY <1>3, ReturnType DEF SummarizeSkips, Results
  <2>2. errors' \in Nat
    BY <1>3 DEF SummarizeSkips, MayFail, TypeOK
  <2> QED
    BY <1>3, <2>1, <2>2 DEF SummarizeSkips, TypeOK
<1>4. CASE SummaryEnds(g)
  <2>1. pc' \in [Actors -> Labels]
    BY <1>0, <1>4, GotoType DEF SummaryEnds, Labels
  <2>2. activeRequests' \in Runners \cup {None} /\ orphaned' \in BOOLEAN
    BY <1>4, ActiveType DEF SummaryEnds
  <2> QED
    BY <1>4, <2>1, <2>2 DEF SummaryEnds, TypeOK
<1>5. CASE SummaryFails(g)
  <2>1. pc' \in [Actors -> Labels]
    BY <1>0, <1>5, GotoType DEF SummaryFails, Labels
  <2>2. PICK r \in Results : ret' = [ret EXCEPT ![g] = r]
    BY <1>5 DEF SummaryFails, Results
  <2>3. errors' \in Nat
    BY <1>5 DEF SummaryFails, MayFail, TypeOK
  <2> QED
    BY <1>5, <2>1, <2>2, <2>3 DEF SummaryFails, TypeOK
<1>6. CASE SummaryPop(g)
  <2>1. pc' \in [Actors -> Labels]
    BY <1>0, <1>6, GotoType DEF SummaryPop, Labels
  <2>2. seen' \in [Actors -> Seq(Call)] /\ ret' \in [Runners -> Results]
    BY <1>0, <1>6 DEF SummaryPop, Results, TypeOK
  <2> QED
    BY <1>6, <2>1, <2>2 DEF SummaryPop, TypeOK
<1>7. CASE SummaryPopSet(g)
  <2>1. seen[g] # <<>> /\ Head(seen[g]) \in Call /\ Tail(seen[g]) \in Seq(Call)
    BY <1>0, <1>7, SeqFacts DEF SeenInv, Popping, SummaryPopSet
  <2>2. pc' \in [Actors -> Labels] /\ stack' \in [Runners -> Seq(Frame)]
    BY <1>7, PushType DEF SummaryPopSet, Labels
  <2>3. cur' \in [Runners -> Call] /\ seen' \in [Actors -> Seq(Call)]
    BY <1>0, <1>7, <2>1 DEF SummaryPopSet, TypeOK
  <2> QED
    BY <1>7, <2>1, <2>2, <2>3 DEF SummaryPopSet, TypeOK
<1>8. CASE SummarizeReturns(g)
  <2>1. /\ pc' \in [Actors -> Labels] /\ cur' \in [Runners -> Call]
        /\ stack' \in [Runners -> Seq(Frame)] /\ ret' \in [Runners -> Results]
    BY <1>8, ReturnType DEF SummarizeReturns, TypeOK
  <2>2. activeRequests' \in Runners \cup {None} /\ orphaned' \in BOOLEAN
    BY <1>8, ActiveType DEF SummarizeReturns
  <2> QED
    BY <1>8, <2>1, <2>2 DEF SummarizeReturns, TypeOK
<1>9. CASE Requeue(g)
  <2>1. pc' \in [Actors -> Labels]
    BY <1>0, <1>9, GotoType DEF Requeue, Labels
  <2>2. seen' \in [Actors -> Seq(Call)]
    BY <1>0, <1>9 DEF Requeue, TypeOK
  <2> QED
    BY <1>9, <2>1, <2>2 DEF Requeue, TypeOK
<1>10. CASE RequeueSet(g)
  <2>1. pc' \in [Actors -> Labels]
    BY <1>0, <1>10, GotoType DEF RequeueSet, Labels
  <2>2. messageQueue' \in Seq(Call)
    BY <1>0, <1>10, SeqFacts DEF RequeueSet
  <2> QED
    BY <1>10, <2>1, <2>2 DEF RequeueSet, TypeOK
<1> QED
  BY <1>1, <1>2, <1>3, <1>4, <1>5, <1>6, <1>7, <1>8, <1>9, <1>10 DEF Summarizing

(* Types: the end of a run. *)
LEMMA FinishingType ==
    ASSUME TypeOK, SeenInv, NEW g \in Runners, Finishing(g), UNCHANGED marking
    PROVE  TypeOK'
<1> USE ActorTypes DEF agentVars, acceptVars, localVars, eventVars, boundVars,
        ghostVars, otherVars
<1>0. g \in Actors /\ cur[g] \in Call /\ seen[g] \in Seq(Call) /\ <<>> \in Seq(Call)
  BY DEF TypeOK
<1>1. CASE FinishRun(g)
  <2>1. pc' \in [Actors -> Labels]
    BY <1>0, <1>1, GotoType DEF FinishRun, Labels
  <2>2. activeRequests' \in Runners \cup {None} /\ orphaned' \in BOOLEAN
    BY <1>1, ActiveType DEF FinishRun
  <2>3. ret' \in [Runners -> Results]
    BY <1>1 DEF FinishRun, Results, TypeOK
  <2> QED
    BY <1>1, <2>1, <2>2, <2>3 DEF FinishRun, TypeOK
<1>2. CASE Handoff(g)
  <2>1. pc' \in [Actors -> Labels]
    BY <1>0, <1>2, GotoType DEF Handoff, Labels
  <2>2. seen' \in [Actors -> Seq(Call)]
    BY <1>0, <1>2 DEF Handoff, TypeOK
  <2> QED
    BY <1>0, <1>2, <2>1, <2>2 DEF Handoff, TypeOK
<1>3. CASE HandoffEmpty(g)
  <2>1. pc' \in [Actors -> Labels]
    BY <1>0, <1>3, GotoType DEF HandoffEmpty, Labels
  <2>2. messageQueue' \in Seq(Call) /\ seen' \in [Actors -> Seq(Call)]
    BY <1>0, <1>3 DEF HandoffEmpty, TypeOK
  <2>3. latest' \in [Prompts -> Outcomes] /\ published' \in [Prompts -> Nat]
    BY <1>3, DropsType DEF HandoffEmpty
  <2>4. struck' \in SUBSET Prompts
    <3>1. {c.id : c \in HandoffDrops(g)} \subseteq Prompts
      BY UncanceledType, CallTypes
    <3>2. struck' = struck \cup {c.id : c \in HandoffDrops(g)}
      BY <1>3 DEF HandoffEmpty
    <3>3. struck \subseteq Prompts
      BY DEF TypeOK
    <3> QED
      BY <3>1, <3>2, <3>3
  <2>5. cancelMark' \in Nat /\ mu' = None
    BY <1>3 DEF HandoffEmpty, TypeOK
  <2>6. UNCHANGED <<activeRequests, acceptedRuns, acceptSeqGen, open, cur,
                    stack, ctxDone, ret, boundVars, covered, orphaned>>
    BY <1>3 DEF HandoffEmpty
  <2> QED
    BY <2>1, <2>2, <2>3, <2>4, <2>5, <2>6 DEF TypeOK
<1>4. CASE HandoffNext(g)
  <2> DEFINE kept == Uncanceled(g)
             next == [Head(kept) EXCEPT !.accepted = acceptSeqGen + 1]
  <2>1. kept \in Seq(Call) /\ kept # <<>>
    BY <1>4, UncanceledType DEF HandoffNext
  <2>2. Head(kept) \in Call /\ Tail(kept) \in Seq(Call)
    BY <2>1, SeqFacts
  <2>3. next \in Call /\ <<next>> \in Seq(Call)
    <3>1. acceptSeqGen + 1 \in Nat
      BY DEF TypeOK
    <3>2. next \in Call
      BY <2>2, <3>1, CallTypes
    <3> QED
      BY <3>2
  <2>4. PICK l \in {"handoffPublish", "handoffRun"} : Goto(g, l)
    BY <1>4 DEF HandoffNext
  <2>5. pc' \in [Actors -> Labels]
    BY <1>0, <2>4, GotoType DEF Labels
  <2>6. messageQueue' = Tail(kept) /\ seen' = [seen EXCEPT ![g] = <<next>>]
    BY <1>4 DEF HandoffNext
  <2>7. messageQueue' \in Seq(Call) /\ seen' \in [Actors -> Seq(Call)]
    BY <1>0, <2>2, <2>3, <2>6 DEF TypeOK
  <2>8. /\ latest' \in [Prompts -> Outcomes] /\ published' \in [Prompts -> Nat]
        /\ open' \in SUBSET Nat /\ acceptedRuns' \in Nat /\ acceptSeqGen' \in Nat
    BY <1>4, DropsType, ReserveType DEF HandoffNext
  <2>9. struck' \in SUBSET Prompts
    <3>1. {c.id : c \in HandoffDrops(g)} \subseteq Prompts
      BY UncanceledType, CallTypes
    <3>2. struck' = struck \cup {c.id : c \in HandoffDrops(g)}
      BY <1>4 DEF HandoffNext
    <3>3. struck \subseteq Prompts
      BY DEF TypeOK
    <3> QED
      BY <3>1, <3>2, <3>3
  <2>10. /\ mu' = None
         /\ UNCHANGED <<activeRequests, cancelMark, cur, stack, ctxDone, ret,
                         boundVars, covered, orphaned>>
    BY <1>4 DEF HandoffNext
  <2> QED
    BY <2>5, <2>7, <2>8, <2>9, <2>10 DEF TypeOK
<1>5. CASE HandoffPublish(g)
  <2>1. pc' \in [Actors -> Labels]
    BY <1>0, <1>5, GotoType DEF HandoffPublish, Labels
  <2>2. latest' \in [Prompts -> Outcomes] /\ published' \in [Prompts -> Nat]
    BY <1>5, PublishType DEF HandoffPublish, Outcomes
  <2> QED
    BY <1>5, <2>1, <2>2 DEF HandoffPublish, TypeOK
<1>6. CASE HandoffRun(g)
  <2>1. seen[g] # <<>> /\ Head(seen[g]) \in Call
    BY <1>0, <1>6, SeqFacts DEF SeenInv, Popping, HandoffRun
  <2>2. pc' \in [Actors -> Labels] /\ stack' \in [Runners -> Seq(Frame)]
    BY <1>6, PushType DEF HandoffRun, Labels
  <2>3. cur' \in [Runners -> Call] /\ seen' \in [Actors -> Seq(Call)]
    BY <1>0, <1>6, <2>1 DEF HandoffRun, TypeOK
  <2> QED
    BY <1>6, <2>1, <2>2, <2>3 DEF HandoffRun, TypeOK
<1>7. CASE Settle(g)
  <2>1. pc' \in [Actors -> Labels]
    BY <1>0, <1>7, GotoType DEF Settle, Labels
  <2>2. latest' \in [Prompts -> Outcomes] /\ published' \in [Prompts -> Nat]
    BY <1>7, PublishType DEF Settle, Outcomes
  <2> QED
    BY <1>7, <2>1, <2>2 DEF Settle, TypeOK
<1>8. CASE Unwind(g)
  <2>1. /\ pc' \in [Actors -> Labels] /\ cur' \in [Runners -> Call]
        /\ stack' \in [Runners -> Seq(Frame)] /\ ret' \in [Runners -> Results]
    BY <1>8, ReturnType DEF Unwind, TypeOK
  <2>2. activeRequests' \in Runners \cup {None} /\ orphaned' \in BOOLEAN
    BY <1>8, ActiveType DEF Unwind
  <2> QED
    BY <1>8, <2>1, <2>2 DEF Unwind, TypeOK
<1> QED
  BY <1>1, <1>2, <1>3, <1>4, <1>5, <1>6, <1>7, <1>8 DEF Finishing

(* Types: Cancel and ClearQueue. *)
LEMMA InFlightType == TypeOK /\ SeenInv => InFlight \subseteq Prompts
<1> SUFFICES ASSUME TypeOK, SeenInv PROVE InFlight \subseteq Prompts
  OBVIOUS
<1>1. \A g \in Runners : cur[g].id \in Prompts
  BY CallTypes DEF TypeOK
<1>2. \A g \in Runners : HandedOff(g) => Head(seen[g]).id \in Prompts
  <2> SUFFICES ASSUME NEW g \in Runners, HandedOff(g) PROVE Head(seen[g]).id \in Prompts
    OBVIOUS
  <2>1. seen[g] \in Seq(Call) /\ seen[g] # <<>>
    BY ActorTypes DEF TypeOK, SeenInv, Popping, HandedOff
  <2> QED
    BY <2>1, SeqFacts, CallTypes
<1>3. \A i \in 1..Len(messageQueue) : messageQueue[i].id \in Prompts
  <2>1. \A i \in 1..Len(messageQueue) : messageQueue[i] \in Call
    BY DEF TypeOK
  <2> QED
    BY <2>1, CallTypes
<1>4. \A g \in Runners : \A i \in 1..Len(stack[g]) : stack[g][i].call.id \in Prompts
  <2>1. \A g \in Runners : \A i \in 1..Len(stack[g]) : stack[g][i] \in Frame
    BY DEF TypeOK
  <2>2. \A f \in Frame : f.call \in Call
    BY DEF Frame
  <2> QED
    BY <2>1, <2>2, CallTypes
<1>5. ASSUME NEW g \in Runners
      PROVE  AwaitsSummary(g) \subseteq Prompts
  BY <1>4 DEF AwaitsSummary
<1> DEFINE Held == {cur[g].id : g \in {h \in Runners : Holding(h)}}
           Taken == {Head(seen[g]).id : g \in {h \in Runners : HandedOff(h)}}
           Queued == {messageQueue[i].id : i \in 1..Len(messageQueue)}
           Waiting == UNION {AwaitsSummary(g) : g \in Runners}
           Retried == {p \in Prompts : MayRetry(p)}
<1>6. /\ Held \subseteq Prompts /\ Taken \subseteq Prompts /\ Queued \subseteq Prompts
      /\ Waiting \subseteq Prompts /\ Retried \subseteq Prompts
  <2>1. Held \subseteq Prompts
    BY <1>1
  <2>2. Taken \subseteq Prompts
    BY <1>2
  <2>3. Queued \subseteq Prompts
    BY <1>3
  <2>4. Waiting \subseteq Prompts
    BY <1>5
  <2>5. Retried \subseteq Prompts
    OBVIOUS
  <2> QED
    BY <2>1, <2>2, <2>3, <2>4, <2>5
<1>7. InFlight = Held \cup Taken \cup Queued \cup Waiting \cup Retried
  BY DEF InFlight
<1> HIDE DEF Held, Taken, Queued, Waiting, Retried
<1> QED
  BY <1>6, <1>7

LEMMA CancellingType ==
    ASSUME TypeOK, SeenInv, NEW c \in Cancels \cup Clears,
           \/ c \in Cancels /\ (Cancel(c) \/ CancelRaises(c))
           \/ c \in Clears /\ ClearQueue(c) /\ UNCHANGED marking
           \/ (ClearGet(c) \/ ClearSet(c)) /\ UNCHANGED marking
    PROVE  TypeOK'
<1> USE ActorTypes DEF agentVars, acceptVars, localVars, eventVars, boundVars,
        ghostVars, otherVars
<1>0. c \in Actors /\ seen[c] \in Seq(Call) /\ <<>> \in Seq(Call)
  BY DEF TypeOK
<1>1. CASE c \in Cancels /\ Cancel(c)
  <2>1. pc' \in [Actors -> Labels]
    BY <1>0, <1>1, GotoType DEF Cancel, Labels
  <2>2. ctxDone' \in [Runners -> BOOLEAN] /\ marking' \in [Cancels -> Nat]
    BY <1>1 DEF Cancel, TypeOK
  <2>3. covered' \in SUBSET Prompts
    BY <1>1, InFlightType DEF Cancel, TypeOK
  <2> QED
    BY <1>0, <1>1, <2>1, <2>2, <2>3 DEF Cancel, TypeOK
<1>2. CASE c \in Cancels /\ CancelRaises(c)
  <2>1. PICK l \in Labels : Goto(c, l)
    BY <1>2 DEF CancelRaises, IfQueued, Labels
  <2>2. pc' \in [Actors -> Labels]
    BY <1>0, <2>1, GotoType
  <2>3. cancelMark' \in Nat /\ mu' \in Actors \cup {None}
    BY <1>2 DEF CancelRaises, TypeOK
  <2> QED
    BY <1>2, <2>2, <2>3 DEF CancelRaises, TypeOK
<1>3. CASE ClearQueue(c) /\ UNCHANGED marking
  <2>1. PICK l \in Labels : Goto(c, l)
    BY <1>3 DEF ClearQueue, IfQueued, Labels
  <2>2. pc' \in [Actors -> Labels]
    BY <1>0, <2>1, GotoType
  <2> QED
    BY <1>3, <2>2 DEF ClearQueue, TypeOK
<1>4. CASE ClearGet(c) /\ UNCHANGED marking
  <2>1. pc' \in [Actors -> Labels]
    BY <1>0, <1>4, GotoType DEF ClearGet, Labels
  <2>2. seen' \in [Actors -> Seq(Call)]
    BY <1>0, <1>4 DEF ClearGet, TypeOK
  <2> QED
    BY <1>4, <2>1, <2>2 DEF ClearGet, TypeOK
<1>5. CASE ClearSet(c) /\ UNCHANGED marking
  <2>1. pc' \in [Actors -> Labels]
    BY <1>0, <1>5, GotoType DEF ClearSet, Labels
  <2>2. latest' \in [Prompts -> Outcomes] /\ published' \in [Prompts -> Nat]
    BY <1>5, DropsType DEF ClearSet
  <2>3. mu' \in Actors \cup {None} /\ messageQueue' \in Seq(Call)
    BY <1>0, <1>5 DEF ClearSet, TypeOK
  <2> QED
    BY <1>5, <2>1, <2>2, <2>3 DEF ClearSet, TypeOK
<1> QED
  BY <1>1, <1>2, <1>3, <1>4, <1>5

LEMMA TypeStep == TypeOK /\ SeenInv /\ [Next]_vars => TypeOK'
<1> SUFFICES ASSUME TypeOK, SeenInv, [Next]_vars PROVE TypeOK'
  OBVIOUS
<1>1. ASSUME NEW p \in Prompts, Prompting(p), UNCHANGED marking PROVE TypeOK'
  BY <1>1, PromptingType
<1>2. ASSUME NEW s \in Summaries, UserSummarize(s), UNCHANGED marking PROVE TypeOK'
  <2> USE ActorTypes DEF agentVars, acceptVars, localVars, eventVars, ghostVars
  <2>1. pc' \in [Actors -> Labels]
    BY <1>2, GotoType DEF UserSummarize, Labels
  <2>2. attempts' \in [Runners -> Nat]
    BY <1>2 DEF UserSummarize, TypeOK
  <2> QED
    BY <1>2, <2>1, <2>2 DEF UserSummarize, TypeOK
<1>3. ASSUME NEW g \in Runners, Run(g), UNCHANGED marking PROVE TypeOK'
  BY <1>3, DispatchingType, StreamingType, SummarizingType, FinishingType DEF Run
<1>4. CASE UNCHANGED vars
  BY <1>4 DEF vars, agentVars, acceptVars, localVars, otherVars, eventVars, boundVars,
     ghostVars, TypeOK
<1> QED
  BY <1>1, <1>2, <1>3, <1>4, CancellingType DEF Next, Terminated

-----------------------------------------------------------------------------
(* The accept counter. *)
LEMMA CloseAccount ==
    ASSUME TypeOK, AccountInv, NEW h, Close(h), UNCHANGED acceptSeqGen
    PROVE  AccountInv'
<1>1. CASE h \in open
  <2>1. /\ open' = open \ {h} /\ IsFiniteSet(open') /\ open' \subseteq 1..acceptSeqGen
        /\ Cardinality(open') = Cardinality(open) - 1
    BY <1>1, FS_RemoveElement DEF Close, AccountInv, HandleAccounting
  <2>2. /\ acceptedRuns \in Nat /\ acceptedRuns = Cardinality(open)
        /\ acceptedRuns' = IF acceptedRuns <= 1 THEN 0 ELSE acceptedRuns - 1
    BY <1>1 DEF TypeOK, Close, AccountInv, HandleAccounting
  <2>3. Cardinality(open') \in Nat
    BY <2>1, FS_CardinalityType
  <2> QED
    BY <2>1, <2>2, <2>3 DEF AccountInv, HandleAccounting
<1>2. CASE h \notin open
  BY <1>2 DEF Close, AccountInv, HandleAccounting
<1> QED
  BY <1>1, <1>2

LEMMA ReserveAccount ==
    ASSUME TypeOK, AccountInv, Reserve
    PROVE  AccountInv'
<1> DEFINE n == acceptSeqGen + 1
<1>1. open \subseteq 1..acceptSeqGen /\ acceptSeqGen \in Nat /\ n \notin open
  BY DEF AccountInv, HandleAccounting, TypeOK
<1>2. IsFiniteSet(open \cup {n}) /\ Cardinality(open \cup {n}) = Cardinality(open) + 1
  BY <1>1, FS_AddElement DEF AccountInv
<1>3. open' = open \cup {n} /\ acceptedRuns' = acceptedRuns + 1 /\ acceptSeqGen' = n
  BY DEF Reserve
<1>4. open' \subseteq 1..acceptSeqGen'
  BY <1>1, <1>3
<1> QED
  BY <1>2, <1>3, <1>4 DEF AccountInv, HandleAccounting

(* Reservations are made by Reserve and dropped by Close, and by no one else. *)
LEMMA AcceptEffect ==
    ASSUME [Next]_vars
    PROVE  \/ UNCHANGED <<acceptedRuns, acceptSeqGen, open>>
           \/ UNCHANGED acceptSeqGen /\ \E h : Close(h)
           \/ Reserve
<1> USE DEF agentVars, acceptVars
<1>1. ASSUME NEW p \in Prompts, Prompting(p)
      PROVE  \/ UNCHANGED <<acceptedRuns, acceptSeqGen, open>>
             \/ UNCHANGED acceptSeqGen /\ \E h : Close(h)
             \/ Reserve
  BY <1>1 DEF Prompting, BeginAccepted, CallRun, RunAgentReturns
<1>2. ASSUME NEW g \in Runners, Dispatching(g)
      PROVE  \/ UNCHANGED <<acceptedRuns, acceptSeqGen, open>>
             \/ UNCHANGED acceptSeqGen /\ \E h : Close(h)
  BY <1>2 DEF Dispatching, EnterCanceled, EnterBusy, EnterIdle, Register, EnterLocal,
     Enqueue, EnqueueSet, CanceledEntry, Prepare, PrepareFails
<1>3. ASSUME NEW g \in Runners, Streaming(g)
      PROVE  UNCHANGED <<acceptedRuns, acceptSeqGen, open>>
  BY <1>3 DEF Streaming, DrainQueue, DrainSet, Fold, StreamFails, NextStep, StreamEnds,
     Compact
<1>4. ASSUME NEW g \in Runners, Summarizing(g)
      PROVE  UNCHANGED <<acceptedRuns, acceptSeqGen, open>>
  BY <1>4 DEF Summarizing, SummarizeCheck, SummarizeRegister, SummarizeSkips,
     SummaryEnds, SummaryFails, SummaryPop, SummaryPopSet, SummarizeReturns, Requeue,
     RequeueSet
<1>5. ASSUME NEW g \in Runners, Finishing(g)
      PROVE  UNCHANGED <<acceptedRuns, acceptSeqGen, open>> \/ Reserve
  BY <1>5 DEF Finishing, FinishRun, Handoff, HandoffEmpty, HandoffNext, HandoffPublish,
     HandoffRun, Settle, Unwind
<1>6. ASSUME NEW c \in Cancels \cup Clears,
             Cancel(c) \/ CancelRaises(c) \/ ClearQueue(c) \/ ClearGet(c) \/ ClearSet(c)
      PROVE  UNCHANGED <<acceptedRuns, acceptSeqGen, open>>
  BY <1>6 DEF Cancel, CancelRaises, ClearQueue, ClearGet, ClearSet
<1>7. ASSUME NEW s \in Summaries, UserSummarize(s)
      PROVE  UNCHANGED <<acceptedRuns, acceptSeqGen, open>>
  BY <1>7 DEF UserSummarize
<1>8. CASE UNCHANGED vars
  BY <1>8 DEF vars
<1> QED
  BY <1>1, <1>2, <1>3, <1>4, <1>5, <1>6, <1>7, <1>8 DEF Next, Run, Terminated

LEMMA AccountStep == TypeOK /\ AccountInv /\ [Next]_vars => AccountInv'
<1> SUFFICES ASSUME TypeOK, AccountInv, [Next]_vars PROVE AccountInv'
  OBVIOUS
<1>1. CASE UNCHANGED <<acceptedRuns, acceptSeqGen, open>>
  BY <1>1 DEF AccountInv, HandleAccounting
<1> QED
  BY <1>1, AcceptEffect, CloseAccount, ReserveAccount

-----------------------------------------------------------------------------
(* What a step of goroutine g does to control: it moves nobody else, takes  *)
(* no lock another holds, erases another's registration only on record, and *)
(* leaves g itself where the invariants want it.                            *)
Effect(g) ==
    /\ \A a \in Actors \ {g} : /\ pc'[a] = pc[a] /\ seen'[a] = seen[a]
                               /\ mu = a => mu' = a
    /\ \A h \in Runners \ {g} : /\ cur'[h] = cur[h]
                                /\ activeRequests = h => orphaned' \/ activeRequests' = h
    /\ orphaned => orphaned'
    /\ g \in Runners /\ Popping(g)' => seen'[g] # <<>>
    /\ Locking(g)' => mu' = g
    /\ g \in Runners /\ Registered(g)' => orphaned' \/ activeRequests' = g

LEMMA EffectInv ==
    ASSUME SeenInv, MuInv, RegInv, NEW g \in Actors, Effect(g)
    PROVE  SeenInv' /\ MuInv' /\ RegInv'
<1> USE ActorTypes DEF Effect
<1>1. SeenInv'
  <2>1. ASSUME NEW h \in Runners, h # g, Popping(h)' PROVE seen'[h] # <<>>
    BY <2>1 DEF SeenInv, Popping
  <2> QED
    BY <2>1 DEF SeenInv
<1>2. MuInv'
  <2>1. ASSUME NEW a \in Actors, a # g, Locking(a)' PROVE mu' = a
    BY <2>1 DEF MuInv, Locking
  <2> QED
    BY <2>1 DEF MuInv
<1>3. RegInv'
  <2>1. ASSUME NEW h \in Runners, h # g, Registered(h)'
        PROVE  orphaned' \/ activeRequests' = h
    <3>1. Registered(h)
      BY <2>1 DEF Registered, Streams
    <3> QED
      BY <2>1, <3>1 DEF RegInv
  <2> QED
    BY <2>1 DEF RegInv
<1> QED
  BY <1>1, <1>2, <1>3

LEMMA Functional ==
    ASSUME TypeOK
    PROVE  /\ pc \in [Actors -> Labels] /\ seen \in [Actors -> Seq(Call)]
           /\ cur \in [Runners -> Call]
BY DEF TypeOK

(* One's own registration is set or removed, another's only on record. *)
LEMMA ActiveEffect ==
    ASSUME NEW g \in Runners, DelActive(g) \/ SetActive(g)
    PROVE  /\ \A h \in Runners \ {g} : activeRequests = h => orphaned' \/ activeRequests' = h
           /\ orphaned => orphaned'
           /\ SetActive(g) => activeRequests' = g
BY ActorTypes DEF DelActive, SetActive, Reregister

(* A return leads to a label of ReturnLabels, outside every invariant. *)
LEMMA ReturnEffect ==
    ASSUME TypeOK, NEW g \in Runners, NEW r \in Results, Return(g, r)
    PROVE  /\ \A a \in Actors \ {g} : pc'[a] = pc[a]
           /\ \A h \in Runners \ {g} : cur'[h] = cur[h]
           /\ ~Popping(g)' /\ ~Locking(g)' /\ ~Registered(g)'
BY ReturnType DEF ReturnLabels, Popping, Locking, Registered, Streams

LEMMA PushEffect ==
    ASSUME TypeOK, NEW g \in Runners, NEW k, NEW t, NEW l \in {"entry", "sumCheck"},
           Push(g, k, t, l)
    PROVE  /\ \A a \in Actors \ {g} : pc'[a] = pc[a]
           /\ ~Popping(g)' /\ ~Locking(g)' /\ ~Registered(g)'
<1>1. pc' = [pc EXCEPT ![g] = l]
  BY DEF Push, Goto
<1>2. pc'[g] = l /\ \A a \in Actors \ {g} : pc'[a] = pc[a]
  BY <1>1, Functional, ActorTypes
<1> QED
  BY <1>2 DEF Popping, Locking, Registered, Streams

LEMMA PromptingEffect ==
    ASSUME TypeOK, NEW p \in Prompts, Prompting(p)
    PROVE  Effect(p)
<1> USE ActorTypes, Functional DEF agentVars, acceptVars, ghostVars, otherVars, Goto,
        Effect, Popping, Locking, Registered, Streams
<1>1. CASE BeginAccepted(p)
  BY <1>1 DEF BeginAccepted
<1>2. CASE CallRun(p)
  BY <1>2 DEF CallRun
<1>3. CASE RunAgentReturns(p)
  BY <1>3 DEF RunAgentReturns
<1> QED
  BY <1>1, <1>2, <1>3 DEF Prompting

LEMMA DispatchingEffect ==
    ASSUME TypeOK, MuInv, RegInv, NEW g \in Runners, Dispatching(g)
    PROVE  Effect(g)
<1> USE ActorTypes, Functional DEF agentVars, acceptVars, ghostVars, otherVars, Goto,
        Effect, Popping, Locking, Registered, Streams
<1>1. CASE EnterCanceled(g)
  BY <1>1 DEF EnterCanceled
<1>2. CASE EnterBusy(g)
  BY <1>2 DEF EnterBusy, AtDispatch
<1>3. CASE EnterIdle(g)
  BY <1>3 DEF EnterIdle, AtDispatch
<1>4. CASE Register(g)
  <2>1. mu = g
    BY <1>4 DEF Register, MuInv
  <2> QED
    BY <1>4, <2>1, ActiveEffect DEF Register
<1>5. CASE EnterLocal(g)
  BY <1>5 DEF EnterLocal
<1>6. CASE Enqueue(g)
  BY <1>6 DEF Enqueue
<1>7. CASE EnqueueSet(g)
  <2>1. /\ \A a \in Actors \ {g} : pc'[a] = pc[a]
        /\ \A h \in Runners \ {g} : cur'[h] = cur[h]
        /\ ~Popping(g)' /\ ~Locking(g)' /\ ~Registered(g)'
    BY <1>7, ReturnEffect DEF EnqueueSet, Results
  <2>2. /\ UNCHANGED <<seen, activeRequests, orphaned>>
        /\ \A a \in Actors \ {g} : mu = a => mu' = a
    BY <1>7 DEF EnqueueSet
  <2> QED
    BY <2>1, <2>2
<1>8. CASE CanceledEntry(g)
  <2>1. /\ \A a \in Actors \ {g} : pc'[a] = pc[a]
        /\ \A h \in Runners \ {g} : cur'[h] = cur[h]
        /\ ~Popping(g)' /\ ~Locking(g)' /\ ~Registered(g)'
    BY <1>8, ReturnEffect DEF CanceledEntry, Results
  <2>2. UNCHANGED <<mu, seen, activeRequests, orphaned>>
    BY <1>8 DEF CanceledEntry
  <2> QED
    BY <2>1, <2>2
<1>9. CASE Prepare(g)
  <2>1. /\ pc[g] = "prepare" /\ pc' = [pc EXCEPT ![g] = "prepareStep"]
        /\ UNCHANGED <<mu, cur, seen>>
    BY <1>9 DEF Prepare
  <2>2. CASE cur[g].accepted = 0
    BY <1>9, <2>1, <2>2, ActiveEffect DEF Prepare
  <2>3. CASE cur[g].accepted # 0
    <3>1. orphaned \/ activeRequests = g
      BY <2>1, <2>3 DEF RegInv
    <3> QED
      BY <1>9, <2>1, <2>3, <3>1 DEF Prepare
  <2> QED
    BY <2>2, <2>3
<1>10. CASE PrepareFails(g)
  <2>1. UNCHANGED <<mu, seen, activeRequests, orphaned>>
    BY <1>10 DEF PrepareFails
  <2>2. CASE cur[g].accepted = 0
    <3>1. /\ \A a \in Actors \ {g} : pc'[a] = pc[a]
          /\ \A h \in Runners \ {g} : cur'[h] = cur[h]
          /\ ~Popping(g)' /\ ~Locking(g)' /\ ~Registered(g)'
      BY <1>10, <2>2, ReturnEffect DEF PrepareFails, Results
    <3> QED
      BY <2>1, <3>1
  <2>3. CASE cur[g].accepted # 0
    BY <1>10, <2>1, <2>3 DEF PrepareFails
  <2> QED
    BY <2>2, <2>3
<1> QED
  BY <1>1, <1>2, <1>3, <1>4, <1>5, <1>6, <1>7, <1>8, <1>9, <1>10 DEF Dispatching

LEMMA StreamingEffect ==
    ASSUME TypeOK, MuInv, RegInv, NEW g \in Runners, Streaming(g)
    PROVE  Effect(g)
<1> USE ActorTypes, Functional DEF agentVars, acceptVars, ghostVars, otherVars, Goto,
        Effect, Popping, Locking, Registered, Streams
<1>1. Streams(g) => orphaned \/ activeRequests = g
  BY DEF RegInv
<1>2. CASE DrainQueue(g)
  BY <1>1, <1>2 DEF DrainQueue
<1>3. CASE DrainSet(g)
  <2>1. mu = g
    BY <1>3 DEF DrainSet, MuInv
  <2>2. /\ pc[g] = "drainSet" /\ pc' = [pc EXCEPT ![g] = "fold"] /\ mu' = None
        /\ UNCHANGED <<activeRequests, cur, orphaned>>
        /\ \A a \in Actors \ {g} : seen'[a] = seen[a]
    BY <1>3 DEF DrainSet
  <2> QED
    BY <1>1, <2>1, <2>2
<1>4. CASE Fold(g)
  BY <1>1, <1>4 DEF Fold
<1>5. CASE StreamFails(g)
  BY <1>5 DEF StreamFails
<1>6. CASE NextStep(g)
  BY <1>1, <1>6 DEF NextStep
<1>7. CASE StreamEnds(g)
  BY <1>7 DEF StreamEnds
<1>8. CASE Compact(g)
  <2>1. /\ \A a \in Actors \ {g} : pc'[a] = pc[a]
        /\ ~Popping(g)' /\ ~Locking(g)' /\ ~Registered(g)'
    BY <1>8, PushEffect DEF Compact
  <2>2. DelActive(g) /\ UNCHANGED <<mu, cur, seen>>
    BY <1>8 DEF Compact
  <2> QED
    BY <2>1, <2>2, ActiveEffect
<1> QED
  BY <1>2, <1>3, <1>4, <1>5, <1>6, <1>7, <1>8 DEF Streaming

LEMMA SummarizingEffect ==
    ASSUME TypeOK, NEW g \in Runners, Summarizing(g)
    PROVE  Effect(g)
<1> USE ActorTypes, Functional DEF agentVars, acceptVars, ghostVars, otherVars, Goto,
        Effect, Popping, Locking, Registered, Streams
<1>1. CASE SummarizeCheck(g)
  <2>1. UNCHANGED <<mu, seen, activeRequests, orphaned>>
    BY <1>1 DEF SummarizeCheck
  <2>2. CASE IsSessionBusy
    <3>1. /\ \A a \in Actors \ {g} : pc'[a] = pc[a]
          /\ \A h \in Runners \ {g} : cur'[h] = cur[h]
          /\ ~Popping(g)' /\ ~Locking(g)' /\ ~Registered(g)'
      BY <1>1, <2>2, ReturnEffect DEF SummarizeCheck, Results
    <3> QED
      BY <2>1, <3>1
  <2>3. CASE ~IsSessionBusy
    BY <1>1, <2>1, <2>3 DEF SummarizeCheck
  <2> QED
    BY <2>2, <2>3
<1>2. CASE SummarizeRegister(g)
  <2>1. SetActive(g) /\ pc' = [pc EXCEPT ![g] = "sumStream"] /\ UNCHANGED <<mu, cur, seen>>
    BY <1>2 DEF SummarizeRegister
  <2> QED
    BY <2>1, ActiveEffect
<1>3. CASE SummarizeSkips(g)
  <2>1. /\ \A a \in Actors \ {g} : pc'[a] = pc[a]
        /\ \A h \in Runners \ {g} : cur'[h] = cur[h]
        /\ ~Popping(g)' /\ ~Locking(g)' /\ ~Registered(g)'
    BY <1>3, ReturnEffect DEF SummarizeSkips, Results
  <2>2. UNCHANGED <<mu, seen, activeRequests, orphaned>>
    BY <1>3 DEF SummarizeSkips
  <2> QED
    BY <2>1, <2>2
<1>4. CASE SummaryEnds(g)
  <2>1. DelActive(g) /\ pc' = [pc EXCEPT ![g] = "sumPop"] /\ UNCHANGED <<mu, cur, seen>>
    BY <1>4 DEF SummaryEnds
  <2> QED
    BY <2>1, ActiveEffect
<1>5. CASE SummaryFails(g)
  BY <1>5 DEF SummaryFails
<1>6. CASE SummaryPop(g)
  <2>1. /\ seen' = [seen EXCEPT ![g] = messageQueue]
        /\ UNCHANGED <<mu, cur, activeRequests, orphaned>>
    BY <1>6 DEF SummaryPop
  <2>2. CASE messageQueue = <<>>
    BY <1>6, <2>1, <2>2 DEF SummaryPop
  <2>3. CASE messageQueue # <<>>
    BY <1>6, <2>1, <2>3 DEF SummaryPop
  <2> QED
    BY <2>2, <2>3
<1>7. CASE SummaryPopSet(g)
  <2>1. /\ \A a \in Actors \ {g} : pc'[a] = pc[a]
        /\ ~Popping(g)' /\ ~Locking(g)' /\ ~Registered(g)'
    BY <1>7, PushEffect DEF SummaryPopSet
  <2>2. /\ UNCHANGED <<mu, activeRequests, orphaned>>
        /\ \A a \in Actors \ {g} : seen'[a] = seen[a]
        /\ \A h \in Runners \ {g} : cur'[h] = cur[h]
    BY <1>7 DEF SummaryPopSet
  <2> QED
    BY <2>1, <2>2
<1>8. CASE SummarizeReturns(g)
  <2>0. ret[g] \in Results
    BY DEF TypeOK
  <2>1. /\ \A a \in Actors \ {g} : pc'[a] = pc[a]
        /\ \A h \in Runners \ {g} : cur'[h] = cur[h]
        /\ ~Popping(g)' /\ ~Locking(g)' /\ ~Registered(g)'
    BY <1>8, <2>0, ReturnEffect DEF SummarizeReturns, Results
  <2>2. DelActive(g) /\ UNCHANGED <<mu, seen>>
    BY <1>8 DEF SummarizeReturns
  <2> QED
    BY <2>1, <2>2, ActiveEffect
<1>9. CASE Requeue(g)
  BY <1>9 DEF Requeue
<1>10. CASE RequeueSet(g)
  BY <1>10 DEF RequeueSet
<1> QED
  BY <1>1, <1>2, <1>3, <1>4, <1>5, <1>6, <1>7, <1>8, <1>9, <1>10 DEF Summarizing

LEMMA FinishingEffect ==
    ASSUME TypeOK, SeenInv, MuInv, NEW g \in Runners, Finishing(g)
    PROVE  Effect(g)
<1> USE ActorTypes, Functional DEF agentVars, acceptVars, ghostVars, otherVars, Goto,
        Effect, Popping, Locking, Registered, Streams
<1>1. CASE FinishRun(g)
  <2>1. DelActive(g) /\ pc' = [pc EXCEPT ![g] = "handoff"] /\ UNCHANGED <<mu, cur, seen>>
    BY <1>1 DEF FinishRun
  <2> QED
    BY <2>1, ActiveEffect
<1>2. CASE Handoff(g)
  BY <1>2 DEF Handoff
<1>3. CASE HandoffEmpty(g)
  <2>1. mu = g
    BY <1>3 DEF HandoffEmpty, MuInv
  <2>2. /\ pc' = [pc EXCEPT ![g] = "settle"] /\ mu' = None
        /\ seen' = [seen EXCEPT ![g] = <<>>]
        /\ UNCHANGED <<activeRequests, cur, orphaned>>
    BY <1>3 DEF HandoffEmpty
  <2> QED
    BY <2>1, <2>2
<1>4. CASE HandoffNext(g)
  <2>1. mu = g
    BY <1>4 DEF HandoffNext, MuInv
  <2>2. PICK l \in {"handoffPublish", "handoffRun"} : pc' = [pc EXCEPT ![g] = l]
    BY <1>4 DEF HandoffNext
  <2>3. PICK c : seen' = [seen EXCEPT ![g] = <<c>>]
    BY <1>4 DEF HandoffNext
  <2>4. mu' = None /\ UNCHANGED <<activeRequests, cur, orphaned>>
    BY <1>4 DEF HandoffNext
  <2>5. seen'[g] # <<>>
    BY <2>3
  <2>6. /\ pc'[g] = l
        /\ \A a \in Actors \ {g} : pc'[a] = pc[a] /\ seen'[a] = seen[a]
    BY <2>2, <2>3
  <2> QED
    BY <2>1, <2>4, <2>5, <2>6
<1>5. CASE HandoffPublish(g)
  BY <1>5 DEF HandoffPublish, SeenInv
<1>6. CASE HandoffRun(g)
  <2>1. /\ \A a \in Actors \ {g} : pc'[a] = pc[a]
        /\ ~Popping(g)' /\ ~Locking(g)' /\ ~Registered(g)'
    BY <1>6, PushEffect DEF HandoffRun
  <2>2. /\ UNCHANGED <<mu, activeRequests, orphaned>>
        /\ \A a \in Actors \ {g} : seen'[a] = seen[a]
        /\ \A h \in Runners \ {g} : cur'[h] = cur[h]
    BY <1>6 DEF HandoffRun
  <2> QED
    BY <2>1, <2>2
<1>7. CASE Settle(g)
  BY <1>7 DEF Settle
<1>8. CASE Unwind(g)
  <2>0. ret[g] \in Results
    BY DEF TypeOK
  <2>1. /\ \A a \in Actors \ {g} : pc'[a] = pc[a]
        /\ \A h \in Runners \ {g} : cur'[h] = cur[h]
        /\ ~Popping(g)' /\ ~Locking(g)' /\ ~Registered(g)'
    BY <1>8, <2>0, ReturnEffect DEF Unwind, Results
  <2>2. DelActive(g) /\ UNCHANGED <<mu, seen>>
    BY <1>8 DEF Unwind
  <2> QED
    BY <2>1, <2>2, ActiveEffect
<1> QED
  BY <1>1, <1>2, <1>3, <1>4, <1>5, <1>6, <1>7, <1>8 DEF Finishing

LEMMA CancellingEffect ==
    ASSUME TypeOK, MuInv, NEW c \in Cancels \cup Clears,
           \/ c \in Cancels /\ (Cancel(c) \/ CancelRaises(c))
           \/ c \in Clears /\ ClearQueue(c)
           \/ ClearGet(c) \/ ClearSet(c)
    PROVE  Effect(c)
<1> USE ActorTypes, Functional DEF agentVars, acceptVars, ghostVars, otherVars, Goto,
        Effect, Popping, Locking, Registered, Streams
<1>1. CASE c \in Cancels /\ Cancel(c)
  BY <1>1 DEF Cancel
<1>2. CASE c \in Cancels /\ CancelRaises(c)
  <2>1. mu = c
    BY <1>2 DEF CancelRaises, MuInv
  <2> QED
    BY <1>2, <2>1 DEF CancelRaises, IfQueued
<1>3. CASE c \in Clears /\ ClearQueue(c)
  BY <1>3 DEF ClearQueue, IfQueued
<1>4. CASE ClearGet(c)
  BY <1>4 DEF ClearGet
<1>5. CASE ClearSet(c)
  BY <1>5 DEF ClearSet
<1> QED
  BY <1>1, <1>2, <1>3, <1>4, <1>5

-----------------------------------------------------------------------------
(* The induction. *)
LEMMA StepEffect ==
    ASSUME TypeOK, SeenInv, MuInv, RegInv, [Next]_vars
    PROVE  UNCHANGED vars \/ \E a \in Actors : Effect(a)
<1> USE ActorTypes
<1>1. ASSUME NEW p \in Prompts, Prompting(p) PROVE Effect(p)
  BY <1>1, PromptingEffect
<1>2. ASSUME NEW s \in Summaries, UserSummarize(s) PROVE Effect(s)
  BY <1>2, Functional DEF UserSummarize, agentVars, ghostVars, Goto, Effect, Popping,
     Locking, Registered, Streams
<1>3. ASSUME NEW g \in Runners, Run(g) PROVE Effect(g)
  BY <1>3, DispatchingEffect, StreamingEffect, SummarizingEffect, FinishingEffect DEF Run
<1> QED
  BY <1>1, <1>2, <1>3, CancellingEffect DEF Next, Terminated

LEMMA InitAInv == Init => AInv
<1> SUFFICES ASSUME Init PROVE AInv
  OBVIOUS
<1> USE ActorTypes
<1>1. SeenInv /\ MuInv /\ RegInv
  BY DEF Init, SeenInv, MuInv, RegInv, Popping, Locking, Registered, Streams
<1>2. AccountInv
  BY FS_EmptySet DEF Init, AccountInv, HandleAccounting
<1> QED
  BY <1>1, <1>2, InitType DEF AInv

LEMMA Inductive == AInv /\ [Next]_vars => AInv'
<1> SUFFICES ASSUME AInv, [Next]_vars PROVE AInv'
  OBVIOUS
<1>1. TypeOK' /\ AccountInv'
  BY TypeStep, AccountStep DEF AInv
<1>2. SeenInv' /\ MuInv' /\ RegInv'
  <2>1. CASE UNCHANGED vars
    BY <2>1 DEF vars, agentVars, localVars, otherVars, ghostVars, AInv, SeenInv, MuInv,
       RegInv, Popping, Locking, Registered, Streams
  <2> QED
    BY <2>1, StepEffect, EffectInv DEF AInv
<1> QED
  BY <1>1, <1>2 DEF AInv

(* AInv holds of every reachable state of a session of agent.go. *)
THEOREM Invariance == Spec => []AInv
<1> QED
  BY InitAInv, Inductive, PTL DEF Spec

(* The state of the session agent keeps its types; in particular neither    *)
(* the handoff nor Summarize pops an empty queue.                           *)
THEOREM TypeCorrect == Spec => []TypeOK
<1>1. AInv => TypeOK
  BY DEF AInv
<1> QED
  BY <1>1, Invariance, PTL

(* The accept counter counts the open AcceptedRun handles, however often    *)
(* and by whomever Close is called.                                         *)
THEOREM HandlesCounted == Spec => []HandleAccounting
<1>1. AInv => HandleAccounting
  BY DEF AInv, AccountInv
<1> QED
  BY <1>1, Invariance, PTL

(* Two runners never stream for one session unless some deferred            *)
(* activeRequests.Del or a later registration disturbed the entry of one.   *)
THEOREM OneActiveRun == Spec => []SingleActiveUnlessOrphaned
<1>1. AInv => SingleActiveUnlessOrphaned
  BY DEF AInv, RegInv, Registered, SingleActiveUnlessOrphaned, SingleActive
<1> QED
  BY <1>1, Invariance, PTL

(* The three together, which is what the runs check.                        *)
THEOREM SoundDispatch == Spec => []DispatchSound
<1>1. TypeOK /\ HandleAccounting /\ SingleActiveUnlessOrphaned => DispatchSound
  BY DEF DispatchSound
<1> QED
  BY <1>1, TypeCorrect, HandlesCounted, OneActiveRun, PTL

-----------------------------------------------------------------------------
(* Prompts that all come with an accept handle, without summaries: every    *)
(* dispatch then takes the locked path of Run.                              *)
Remote == Local = {} /\ Summaries = {} /\ MaxCompactions = 0

SummaryLabels == {"sumCheck", "sumPrepare", "sumStream", "sumPop", "sumPopSet",
                  "sumDefer", "requeue", "requeueSet"}
Accepted(g) ==
    /\ pc[g] \notin SummaryLabels
    /\ pc[g] # "idle" => cur[g].accepted # 0
    /\ pc[g] \in {"handoffPublish", "handoffRun"} => Head(seen[g]).accepted # 0
    /\ \A i \in 1..Len(stack[g]) : stack[g][i].kind = "handoff"
                                 /\ stack[g][i].call.accepted # 0

RemoteInv == \A g \in Runners :
    Accepted(g) /\ (pc[g] = "register" => activeRequests = None)

(* The sequence of one element, and what a Push puts in front of. *)
LEMMA FirstOf ==
    ASSUME NEW x
    PROVE  Head(<<x>>) = x /\ <<x>> # <<>>
OBVIOUS

LEMMA Prefixed ==
    ASSUME NEW S, NEW q \in Seq(S), NEW f \in S, NEW i \in 1..Len(<<f>> \o q)
    PROVE  \/ (<<f>> \o q)[i] = f
           \/ i - 1 \in 1..Len(q) /\ (<<f>> \o q)[i] = q[i - 1]
<1>1. Len(<<f>> \o q) = Len(q) + 1 /\ Len(q) \in Nat
  OBVIOUS
<1>2. CASE i = 1
  BY <1>1, <1>2
<1>3. CASE i # 1
  <2>1. i \in Nat /\ i > 1 /\ i - 1 \in 1..Len(q)
    BY <1>1, <1>3
  <2>2. <<f>> \in Seq(S) /\ Len(<<f>>) = 1
    OBVIOUS
  <2> QED
    BY <1>1, <2>1, <2>2
<1> QED
  BY <1>2, <1>3

(* What a step of runner g does to what RemoteInv is about. *)
RemoteEffect(g) ==
    /\ Accepted(g)'
    /\ \A h \in Runners \ {g} : stack'[h] = stack[h]
    /\ pc'[g] = "register" => activeRequests' = None
    /\ \/ activeRequests' \in {activeRequests, None}
       \/ pc[g] = "register" /\ activeRequests' = g

LEMMA ReturnRemote ==
    ASSUME TypeOK, NEW g \in Runners, Accepted(g), pc[g] # "idle",
           NEW r \in Results, Return(g, r), UNCHANGED seen
    PROVE  /\ Accepted(g)' /\ pc'[g] # "register"
           /\ \A h \in Runners \ {g} : stack'[h] = stack[h]
<1> USE ActorTypes, Functional
<1>0. stack \in [Runners -> Seq(Frame)] /\ stack[g] \in Seq(Frame)
  BY DEF TypeOK
<1>1. \A h \in Runners \ {g} : stack'[h] = stack[h]
  BY ReturnType
<1>2. CASE stack[g] = <<>>
  <2>1. pc' = [pc EXCEPT ![g] = "returned"] /\ UNCHANGED <<stack, cur>>
    BY <1>2 DEF Return, Goto
  <2> QED
    BY <1>1, <2>1 DEF Accepted, SummaryLabels
<1>3. CASE stack[g] # <<>>
  <2>1. 1 \in 1..Len(stack[g]) /\ Head(stack[g]) = stack[g][1]
    BY <1>0, <1>3
  <2>2. Head(stack[g]).kind = "handoff" /\ Head(stack[g]).call.accepted # 0
    BY <2>1 DEF Accepted
  <2>3. /\ stack' = [stack EXCEPT ![g] = Tail(stack[g])]
        /\ cur' = [cur EXCEPT ![g] = Head(stack[g]).call]
        /\ pc' = [pc EXCEPT ![g] = "unwind"]
    BY <1>3, <2>2 DEF Return, Goto
  <2>4. pc'[g] = "unwind" /\ cur'[g].accepted # 0 /\ stack'[g] = Tail(stack[g])
    BY <1>0, <2>2, <2>3
  <2>5. \A i \in 1..Len(Tail(stack[g])) :
           i + 1 \in 1..Len(stack[g]) /\ Tail(stack[g])[i] = stack[g][i + 1]
    BY <1>0, <1>3
  <2> QED
    BY <1>1, <2>4, <2>5 DEF Accepted, SummaryLabels
<1> QED
  BY <1>2, <1>3

LEMMA PromptingRemote ==
    ASSUME TypeOK, Remote, NEW p \in Prompts, Accepted(p), Prompting(p)
    PROVE  RemoteEffect(p)
<1> USE ActorTypes, Functional DEF agentVars, acceptVars, localVars, otherVars, eventVars,
        boundVars, ghostVars, Goto, RemoteEffect, Accepted, SummaryLabels
<1>1. CASE BeginAccepted(p)
  <2>1. /\ pc' = [pc EXCEPT ![p] = "accepted"]
        /\ cur' = [cur EXCEPT ![p] = NewCall(p, acceptSeqGen + 1)]
        /\ UNCHANGED <<activeRequests, stack, seen>>
    BY <1>1 DEF BeginAccepted, Remote
  <2>2. acceptSeqGen + 1 \in Nat /\ acceptSeqGen + 1 # 0
    BY DEF TypeOK
  <2>3. NewCall(p, acceptSeqGen + 1).accepted # 0
    BY <2>2, NewCallType
  <2> QED
    BY <2>1, <2>3
<1>2. CASE CallRun(p)
  BY <1>2 DEF CallRun
<1>3. CASE RunAgentReturns(p)
  BY <1>3 DEF RunAgentReturns
<1> QED
  BY <1>1, <1>2, <1>3 DEF Prompting

LEMMA DispatchingRemote ==
    ASSUME TypeOK, Remote, NEW g \in Runners, Accepted(g), Dispatching(g)
    PROVE  RemoteEffect(g)
<1> USE ActorTypes, Functional DEF agentVars, acceptVars, localVars, otherVars, eventVars,
        boundVars, ghostVars, Goto, RemoteEffect, Accepted, SummaryLabels
<1>1. CASE EnterCanceled(g)
  BY <1>1 DEF EnterCanceled, AtDispatch
<1>2. CASE EnterBusy(g)
  BY <1>2 DEF EnterBusy, AtDispatch
<1>3. CASE EnterIdle(g)
  BY <1>3 DEF EnterIdle, AtDispatch, IsSessionBusy
<1>4. CASE Register(g)
  BY <1>4, ActiveEffect DEF Register
<1>5. CASE EnterLocal(g)
  BY <1>5 DEF EnterLocal
<1>6. CASE Enqueue(g)
  BY <1>6 DEF Enqueue
<1>7. CASE EnqueueSet(g)
  BY <1>7, ReturnRemote DEF EnqueueSet, Results
<1>8. CASE CanceledEntry(g)
  BY <1>8, ReturnRemote DEF CanceledEntry, Results
<1>9. CASE Prepare(g)
  BY <1>9 DEF Prepare
<1>10. CASE PrepareFails(g)
  BY <1>10 DEF PrepareFails
<1> QED
  BY <1>1, <1>2, <1>3, <1>4, <1>5, <1>6, <1>7, <1>8, <1>9, <1>10 DEF Dispatching

LEMMA StreamingRemote ==
    ASSUME TypeOK, Remote, NEW g \in Runners, Accepted(g), Streaming(g)
    PROVE  RemoteEffect(g)
<1> USE ActorTypes, Functional DEF agentVars, acceptVars, localVars, otherVars, eventVars,
        boundVars, ghostVars, Goto, RemoteEffect, Accepted, SummaryLabels
<1>1. CASE DrainQueue(g)
  BY <1>1 DEF DrainQueue
<1>2. CASE DrainSet(g)
  <2>1. /\ pc[g] = "drainSet" /\ pc' = [pc EXCEPT ![g] = "fold"]
        /\ UNCHANGED <<activeRequests, cur, stack>>
    BY <1>2 DEF DrainSet
  <2> QED
    BY <2>1
<1>3. CASE Fold(g)
  BY <1>3 DEF Fold
<1>4. CASE StreamFails(g)
  BY <1>4 DEF StreamFails
<1>5. CASE NextStep(g)
  BY <1>5 DEF NextStep
<1>6. CASE StreamEnds(g)
  BY <1>6 DEF StreamEnds
<1>7. ~Compact(g)
  BY DEF Compact, Remote, TypeOK
<1> QED
  BY <1>1, <1>2, <1>3, <1>4, <1>5, <1>6, <1>7 DEF Streaming

LEMMA SummarizingRemote ==
    ASSUME NEW g \in Runners, Accepted(g)
    PROVE  ~Summarizing(g)
BY DEF Accepted, SummaryLabels, Summarizing, SummarizeCheck, SummarizeRegister,
   SummarizeSkips, SummaryEnds, SummaryFails, SummaryPop, SummaryPopSet,
   SummarizeReturns, Requeue, RequeueSet

LEMMA FinishingRemote ==
    ASSUME TypeOK, Remote, NEW g \in Runners, Accepted(g), Finishing(g)
    PROVE  RemoteEffect(g)
<1> USE ActorTypes, Functional DEF agentVars, acceptVars, localVars, otherVars, eventVars,
        boundVars, ghostVars, Goto, RemoteEffect, Accepted, SummaryLabels
<1>1. CASE FinishRun(g)
  BY <1>1 DEF FinishRun, DelActive, Reregister
<1>2. CASE Handoff(g)
  BY <1>2 DEF Handoff
<1>3. CASE HandoffEmpty(g)
  <2>1. /\ pc[g] = "handoffSet" /\ pc' = [pc EXCEPT ![g] = "settle"]
        /\ UNCHANGED <<activeRequests, cur, stack>>
    BY <1>3 DEF HandoffEmpty
  <2> QED
    BY <2>1
<1>4. CASE HandoffNext(g)
  <2> DEFINE kept == Uncanceled(g)
             next == [Head(kept) EXCEPT !.accepted = acceptSeqGen + 1]
  <2>1. kept \in Seq(Call) /\ kept # <<>>
    BY <1>4, UncanceledType DEF HandoffNext
  <2>2. Head(kept) \in Call
    BY <2>1, SeqFacts
  <2>3. next.accepted # 0
    <3>1. acceptSeqGen + 1 # 0
      BY DEF TypeOK
    <3> QED
      BY <2>2, <3>1 DEF Call
  <2>4. PICK l \in {"handoffPublish", "handoffRun"} : pc' = [pc EXCEPT ![g] = l]
    BY <1>4 DEF HandoffNext
  <2>5. /\ pc[g] = "handoffSet" /\ seen' = [seen EXCEPT ![g] = <<next>>]
        /\ UNCHANGED <<activeRequests, cur, stack>>
    BY <1>4 DEF HandoffNext
  <2> HIDE DEF next, kept
  <2>6. seen'[g] = <<next>> /\ Head(<<next>>) = next
    BY <2>5, FirstOf
  <2> QED
    BY <2>3, <2>4, <2>5, <2>6
<1>5. CASE HandoffPublish(g)
  BY <1>5 DEF HandoffPublish
<1>6. CASE HandoffRun(g)
  <2> DEFINE f == [kind |-> "handoff", call |-> cur[g], tools |-> FALSE]
  <2>1. /\ pc[g] = "handoffRun" /\ pc' = [pc EXCEPT ![g] = "entry"]
        /\ stack' = [stack EXCEPT ![g] = <<f>> \o stack[g]]
        /\ cur' = [cur EXCEPT ![g] = Head(seen[g])]
        /\ UNCHANGED activeRequests
    BY <1>6 DEF HandoffRun, Push
  <2>2. stack \in [Runners -> Seq(Frame)] /\ stack[g] \in Seq(Frame) /\ f \in Frame
    BY FrameTypes DEF TypeOK
  <2>3. \A i \in 1..Len(<<f>> \o stack[g]) :
           \/ (<<f>> \o stack[g])[i] = f
           \/ i - 1 \in 1..Len(stack[g]) /\ (<<f>> \o stack[g])[i] = stack[g][i - 1]
    <3> HIDE DEF f
    <3> QED
      BY <2>2, Prefixed
  <2>4. stack'[g] = <<f>> \o stack[g] /\ \A h \in Runners \ {g} : stack'[h] = stack[h]
    BY <2>1, <2>2
  <2>5. f.kind = "handoff" /\ f.call.accepted # 0
    BY <2>1
  <2>6. \A i \in 1..Len(stack'[g]) :
           stack'[g][i].kind = "handoff" /\ stack'[g][i].call.accepted # 0
    <3> HIDE DEF f
    <3>1. \A i \in 1..Len(stack[g]) :
             stack[g][i].kind = "handoff" /\ stack[g][i].call.accepted # 0
      OBVIOUS
    <3> QED
      BY <2>3, <2>4, <2>5, <3>1
  <2>7. pc'[g] = "entry" /\ cur'[g] = Head(seen[g]) /\ cur'[g].accepted # 0
    BY <2>1
  <2> QED
    BY <2>1, <2>4, <2>6, <2>7
<1>7. CASE Settle(g)
  BY <1>7 DEF Settle
<1>8. CASE Unwind(g)
  <2>1. ret[g] \in Results
    BY DEF TypeOK
  <2>2. Return(g, ret[g]) /\ DelActive(g) /\ UNCHANGED seen /\ pc[g] = "unwind"
    BY <1>8 DEF Unwind
  <2>3. Accepted(g)' /\ pc'[g] # "register" /\ \A h \in Runners \ {g} : stack'[h] = stack[h]
    BY <2>1, <2>2, ReturnRemote
  <2>4. activeRequests' = None
    BY <2>2 DEF DelActive, Reregister
  <2> QED
    BY <2>3, <2>4
<1> QED
  BY <1>1, <1>2, <1>3, <1>4, <1>5, <1>6, <1>7, <1>8 DEF Finishing

(* The others keep what RemoteInv says of them: the registration they are   *)
(* about to make is ruled out while they hold the lock.                     *)
LEMMA RemoteStep ==
    ASSUME TypeOK, MuInv, RemoteInv, NEW g \in Runners, Effect(g), RemoteEffect(g)
    PROVE  RemoteInv' /\ \A h \in Runners : activeRequests' = h => activeRequests \in {h, None}
<1> USE ActorTypes
<1>1. ASSUME NEW h \in Runners, h # g PROVE Accepted(h)'
  BY <1>1 DEF RemoteInv, Accepted, Effect, RemoteEffect
<1>2. ASSUME NEW h \in Runners, h # g, pc'[h] = "register" PROVE activeRequests' = None
  <2>1. pc[h] = "register" /\ activeRequests = None /\ mu = h
    BY <1>2 DEF Effect, RemoteInv, MuInv, Locking
  <2>2. pc[g] # "register"
    BY <1>2, <2>1 DEF MuInv, Locking
  <2> QED
    BY <2>1, <2>2 DEF RemoteEffect
<1>3. RemoteInv'
  BY <1>1, <1>2 DEF RemoteInv, RemoteEffect
<1>4. ASSUME NEW h \in Runners, activeRequests' = h PROVE activeRequests \in {h, None}
  BY <1>4 DEF RemoteEffect, RemoteInv
<1> QED
  BY <1>3, <1>4

LEMMA RemoteInductive ==
    ASSUME Remote, AInv, RemoteInv, [Next]_vars
    PROVE  RemoteInv' /\ \A h \in Runners : activeRequests' = h => activeRequests \in {h, None}
<1> USE ActorTypes DEF AInv
<1>1. ASSUME NEW p \in Prompts, Prompting(p)
      PROVE  Effect(p) /\ RemoteEffect(p)
  BY <1>1, PromptingEffect, PromptingRemote DEF RemoteInv
<1>2. ASSUME NEW g \in Runners, Run(g)
      PROVE  Effect(g) /\ RemoteEffect(g)
  <2>1. Accepted(g)
    BY DEF RemoteInv
  <2>2. Effect(g)
    BY <1>2, DispatchingEffect, StreamingEffect, SummarizingEffect, FinishingEffect DEF Run
  <2>3. RemoteEffect(g)
    BY <1>2, <2>1, DispatchingRemote, StreamingRemote, SummarizingRemote, FinishingRemote
    DEF Run
  <2> QED
    BY <2>2, <2>3
<1>3. ASSUME NEW c \in Cancels \cup Clears,
             \/ c \in Cancels /\ (Cancel(c) \/ CancelRaises(c))
             \/ c \in Clears /\ ClearQueue(c)
             \/ ClearGet(c) \/ ClearSet(c)
      PROVE  RemoteInv' /\ UNCHANGED activeRequests
  <2>1. UNCHANGED <<activeRequests, cur, stack>>
    BY <1>3 DEF Cancel, CancelRaises, ClearQueue, ClearGet, ClearSet, agentVars, acceptVars
  <2>2. Effect(c) /\ c \notin Runners
    BY <1>3, CancellingEffect
  <2>3. \A g \in Runners : pc'[g] = pc[g] /\ seen'[g] = seen[g]
    BY <2>2 DEF Effect
  <2> QED
    BY <2>1, <2>3 DEF RemoteInv, Accepted
<1>4. CASE UNCHANGED vars
  BY <1>4 DEF vars, agentVars, localVars, RemoteInv, Accepted
<1> QED
  BY <1>1, <1>2, <1>3, <1>4, RemoteStep DEF Next, Terminated, Remote

(* The test of the session and the registration of a run are one step to    *)
(* every other prompt that came with an accept handle (Run, lines 565-626): *)
(* none overwrites the cancel func of another run.                          *)
THEOREM DispatchIsAtomic == Remote /\ Spec => NeverReplaces
<1>1. Remote /\ Init => RemoteInv
  BY ActorTypes DEF Init, RemoteInv, Accepted, SummaryLabels
<1>2. Remote /\ AInv /\ RemoteInv /\ [Next]_vars => RemoteInv'
  BY RemoteInductive
<1>3. Remote /\ AInv /\ RemoteInv /\ [Next]_vars =>
        [\A g \in Runners : activeRequests' = g => activeRequests \in {g, None}]_vars
  BY RemoteInductive
<1>4. CASE Remote
  BY <1>1, <1>2, <1>3, <1>4, Invariance, PTL DEF Spec, NeverReplaces
<1> QED
  BY <1>4
=============================================================================
