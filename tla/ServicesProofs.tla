--------------------------- MODULE ServicesProofs ---------------------------
(***************************************************************************)
(* The services beside the session agent: every process they start is     *)
(* accounted for, the states of MCP servers that are shown agree with the  *)
(* sessions, the exit of `trapeze run` tells the truth, and commands share *)
(* servers as they should.  One part per component, each with an inductive *)
(* invariant that names what its goroutines may hold at each point, and at *)
(* the end the composition that MCServices makes of them.                  *)
(***************************************************************************)
EXTENDS MCServices, FiniteSetTheorems, TLAPS

-----------------------------------------------------------------------------
(* The background shells: an inductive invariant of BackgroundShells.      *)

ToolStates ==
    [pc : {"idle", "insert", "wait", "kill"}, id : Nat, background : BOOLEAN]

KillAllStates ==
    [pc : {"none", "collected", "waiting", "returned"}, jobs : SUBSET JobIds]

ShellTypes ==
    /\ shells \subseteq JobIds
    /\ job \in [JobIds -> {"none", "running", "cancelled", "done"}]
    /\ idCounter \in Nat
    /\ tool \in [Shellers -> ToolStates]
    /\ killAll \in [Homes -> KillAllStates]

(* What a KillAll has not collected came into the map after it looked.     *)
CollectedInv ==
    \A w \in Homes, j \in shells :
        killAll[w].pc = "collected" => j \in killAll[w].jobs \/ j \in raced

Inserting == {t \in Shellers : tool[t].pc = "insert"}

ShellsInv == ShellTypes /\ RunningIsReachable /\ CollectedInv /\ LimitOvershoot

LEMMA ToolMember ==
    ASSUME ShellTypes, NEW t \in Shellers
    PROVE  /\ tool[t] \in ToolStates
           /\ tool[t].pc \in {"idle", "insert", "wait", "kill"}
           /\ tool[t].id \in Nat /\ tool[t].background \in BOOLEAN
  BY DEF ShellTypes, ToolStates

LEMMA KillAllMember ==
    ASSUME ShellTypes, NEW w \in Homes
    PROVE  /\ killAll[w] \in KillAllStates
           /\ killAll[w].pc \in {"none", "collected", "waiting", "returned"}
           /\ killAll[w].jobs \subseteq JobIds
  BY DEF ShellTypes, KillAllStates

LEMMA ShellsFinite ==
    ASSUME ShellTypes, NEW S, S \subseteq shells
    PROVE  /\ IsFiniteSet(S) /\ Cardinality(S) \in Nat
           /\ Cardinality(S) <= Cardinality(shells)
           /\ Cardinality(shells) \in Nat
  <1>1. IsFiniteSet(JobIds)
    BY FS_Interval, BackgroundShellsAssumption DEF JobIds
  <1>2. IsFiniteSet(shells)
    BY <1>1, FS_Subset DEF ShellTypes
  <1> QED
    BY <1>2, FS_Subset, FS_CardinalityType

LEMMA InsertersFinite ==
    ASSUME NEW S, S \subseteq Shellers
    PROVE  /\ IsFiniteSet(S) /\ Cardinality(S) \in Nat
           /\ Cardinality(Shellers) \in Nat
           /\ Cardinality(S) <= Cardinality(Shellers)
  BY FS_Subset, FS_CardinalityType, BackgroundShellsAssumption

(* One agent's tool call goes on to a state that does not insert.          *)
LEMMA ToolMoves ==
    ASSUME ShellTypes, NEW t \in Shellers, NEW st \in ToolStates, tool' = [tool EXCEPT ![t] = st]
    PROVE  /\ tool' \in [Shellers -> ToolStates]
           /\ st.pc = "insert" => Inserting' = Inserting \cup {t}
           /\ st.pc # "insert" => Inserting' = Inserting \ {t}
  BY DEF ShellTypes, Inserting

LEMMA CancelledTypes ==
    ASSUME ShellTypes, NEW J
    PROVE  /\ Cancelled(J) \in [JobIds -> {"none", "running", "cancelled", "done"}]
           /\ \A j \in JobIds : Cancelled(J)[j] = "running" => job[j] = "running" /\ j \notin J
  BY DEF ShellTypes, Cancelled

(* The map loses jobs, none starts to insert.                              *)
LEMMA LimitKept ==
    ASSUME ShellsInv, shells' \subseteq shells, Inserting' \subseteq Inserting
    PROVE  LimitOvershoot'
  <1>1. /\ Cardinality(shells') \in Nat /\ Cardinality(shells') <= Cardinality(shells)
        /\ Cardinality(shells) \in Nat
    BY ShellsFinite DEF ShellsInv
  <1>2. /\ IsFiniteSet(Inserting) /\ Cardinality(Inserting) \in Nat
        /\ Cardinality(Shellers) \in Nat
    BY InsertersFinite DEF Inserting
  <1>3. Cardinality(Inserting') \in Nat /\ Cardinality(Inserting') <= Cardinality(Inserting)
    BY <1>2, FS_Subset, FS_CardinalityType
  <1>4. Cardinality(shells) + Cardinality(Inserting) <= MaxBackgroundJobs + Cardinality(Shellers) - 1
    BY DEF ShellsInv, LimitOvershoot, Inserting
  <1>5. Cardinality(shells') + Cardinality(Inserting') <= MaxBackgroundJobs + Cardinality(Shellers) - 1
    BY <1>1, <1>2, <1>3, <1>4, BackgroundShellsAssumption
  <1> QED
    BY <1>5 DEF LimitOvershoot, Inserting

LEMMA BashStartStep ==
    ASSUME ShellsInv, NEW t \in Shellers, NEW background \in BOOLEAN, BashStart(t, background)
    PROVE  ShellsInv'
  <1>1. PICK old \in SUBSET {j \in shells : job[j] = "done"} :
           /\ shells' = shells \ old
           /\ tool' = IF Cardinality(shells \ old) >= MaxBackgroundJobs
                        THEN tool
                        ELSE [tool EXCEPT ![t].pc = "insert", ![t].background = background]
    BY DEF BashStart
  <1>2. UNCHANGED <<job, idCounter, killAll, raced>> /\ tool[t].pc = "idle"
    BY DEF BashStart
  <1>3. ShellTypes
    BY DEF ShellsInv
  <1>4. CASE Cardinality(shells \ old) >= MaxBackgroundJobs
    <2>1. tool' = tool
      BY <1>1, <1>4
    <2>2. ShellTypes'
      BY <1>1, <1>2, <1>3, <2>1 DEF ShellTypes
    <2>3. LimitOvershoot'
      BY <1>1, <2>1, LimitKept DEF Inserting
    <2>4. RunningIsReachable' /\ CollectedInv'
      BY <1>1, <1>2 DEF ShellsInv, RunningIsReachable, CollectedInv
    <2> QED
      BY <2>2, <2>3, <2>4 DEF ShellsInv
  <1>5. CASE ~(Cardinality(shells \ old) >= MaxBackgroundJobs)
    <2>1. PICK st \in ToolStates : st = [tool[t] EXCEPT !.pc = "insert", !.background = background]
      BY <1>3, ToolMember DEF ToolStates
    <2>2. st.pc = "insert"
      BY <1>3, <2>1, ToolMember DEF ToolStates
    <2>3. tool' = [tool EXCEPT ![t] = st]
      BY <1>1, <1>3, <1>5, <2>1 DEF ShellTypes
    <2>4. tool' \in [Shellers -> ToolStates] /\ Inserting' = Inserting \cup {t}
      BY <1>3, <2>2, <2>3, ToolMoves
    <2>5. ShellTypes'
      BY <1>1, <1>2, <1>3, <2>4 DEF ShellTypes
    <2>6. Cardinality(shells') \in Nat /\ Cardinality(shells') < MaxBackgroundJobs
      BY <1>1, <1>3, <1>5, ShellsFinite, BackgroundShellsAssumption
    <2>7. /\ Cardinality(Inserting') \in Nat /\ Cardinality(Shellers) \in Nat
          /\ Cardinality(Inserting') <= Cardinality(Shellers)
      BY <2>4, InsertersFinite DEF Inserting
    <2>8. LimitOvershoot'
      <3>1. Cardinality(shells') + Cardinality(Inserting') <= MaxBackgroundJobs + Cardinality(Shellers) - 1
        BY <2>6, <2>7, BackgroundShellsAssumption
      <3> QED
        BY <3>1 DEF LimitOvershoot, Inserting
    <2>9. RunningIsReachable' /\ CollectedInv'
      BY <1>1, <1>2 DEF ShellsInv, RunningIsReachable, CollectedInv
    <2> QED
      BY <2>5, <2>8, <2>9 DEF ShellsInv
  <1> QED
    BY <1>4, <1>5

LEMMA BashInsertStep ==
    ASSUME ShellsInv, NEW t \in Shellers, BashInsert(t)
    PROVE  ShellsInv'
  <1>1. ShellTypes
    BY DEF ShellsInv
  <1>2. PICK id \in JobIds : id = idCounter + 1
    BY <1>1, BackgroundShellsAssumption DEF BashInsert, ShellTypes, JobIds
  <1>3. /\ idCounter' = id /\ shells' = shells \cup {id}
        /\ job' = [job EXCEPT ![id] = "running"]
        /\ tool' = [tool EXCEPT ![t].pc = "wait", ![t].id = id]
        /\ raced' = IF \E w \in Homes : killAll[w].pc = "collected" THEN raced \cup {id} ELSE raced
        /\ killAll' = killAll /\ tool[t].pc = "insert"
    BY <1>2 DEF BashInsert
  <1>4. PICK st \in ToolStates : st = [tool[t] EXCEPT !.pc = "wait", !.id = id]
    <2>1. id \in Nat
      BY <1>1, <1>2 DEF ShellTypes
    <2> QED
      BY <1>1, <2>1, ToolMember DEF ToolStates
  <1>5. st.pc = "wait"
    BY <1>1, <1>4, ToolMember DEF ToolStates
  <1>6. tool' = [tool EXCEPT ![t] = st]
    BY <1>1, <1>3, <1>4 DEF ShellTypes
  <1>7. tool' \in [Shellers -> ToolStates] /\ Inserting' = Inserting \ {t}
    BY <1>1, <1>5, <1>6, ToolMoves
  <1>8. ShellTypes'
    BY <1>1, <1>2, <1>3, <1>7 DEF ShellTypes, JobIds
  <1>9. LimitOvershoot'
    <2>1. IsFiniteSet(shells) /\ Cardinality(shells) \in Nat
      BY <1>1, ShellsFinite
    <2>2. Cardinality(shells') \in Nat /\ Cardinality(shells') <= Cardinality(shells) + 1
      <3>1. /\ IsFiniteSet(shells \cup {id}) 
            /\ Cardinality(shells \cup {id}) = IF id \in shells THEN Cardinality(shells)
                                                ELSE Cardinality(shells) + 1
        BY <2>1, FS_AddElement
      <3> QED
        BY <1>3, <2>1, <3>1
    <2>3. /\ IsFiniteSet(Inserting) /\ Cardinality(Inserting) \in Nat /\ Cardinality(Shellers) \in Nat
          /\ t \in Inserting
      BY <1>3, InsertersFinite DEF Inserting
    <2>4. Cardinality(Inserting') = Cardinality(Inserting) - 1
      BY <1>7, <2>3, FS_RemoveElement
    <2>5. Cardinality(shells) + Cardinality(Inserting) <= MaxBackgroundJobs + Cardinality(Shellers) - 1
      BY DEF ShellsInv, LimitOvershoot, Inserting
    <2>6. Cardinality(shells') + Cardinality(Inserting') <= MaxBackgroundJobs + Cardinality(Shellers) - 1
      BY <2>1, <2>2, <2>3, <2>4, <2>5, BackgroundShellsAssumption
    <2> QED
      BY <2>6 DEF LimitOvershoot, Inserting
  <1>10. RunningIsReachable'
    BY <1>1, <1>3 DEF ShellsInv, ShellTypes, RunningIsReachable
  <1>11. CollectedInv'
    BY <1>3 DEF ShellsInv, CollectedInv
  <1> QED
    BY <1>8, <1>9, <1>10, <1>11 DEF ShellsInv

(* A tool call leaves, removing or cancelling at most its own job.         *)
LEMMA ToolLeaves ==
    ASSUME ShellsInv, NEW t \in Shellers, NEW st \in ToolStates, st.pc # "insert",
           tool' = [tool EXCEPT ![t] = st],
           NEW J, shells' = shells \ J,
           \/ job' = job /\ \A j \in J \cap JobIds : job[j] # "running"
           \/ job' = Cancelled(J),
           UNCHANGED <<idCounter, killAll, raced>>
    PROVE  ShellsInv'
  <1>1. ShellTypes
    BY DEF ShellsInv
  <1>2. tool' \in [Shellers -> ToolStates] /\ Inserting' \subseteq Inserting
    BY <1>1, ToolMoves
  <1>3. /\ job' \in [JobIds -> {"none", "running", "cancelled", "done"}]
        /\ \A j \in JobIds : job'[j] = "running" => job[j] = "running" /\ j \notin J
    BY <1>1, CancelledTypes DEF ShellTypes
  <1>4. ShellTypes'
    BY <1>1, <1>2, <1>3 DEF ShellTypes
  <1>5. LimitOvershoot'
    BY <1>2, LimitKept
  <1>6. RunningIsReachable'
    BY <1>3 DEF ShellsInv, RunningIsReachable
  <1>7. CollectedInv'
    BY DEF ShellsInv, CollectedInv
  <1> QED
    BY <1>4, <1>5, <1>6, <1>7 DEF ShellsInv

LEMMA NoToolState == NoTool \in ToolStates /\ NoTool.pc # "insert"
  BY DEF NoTool, ToolStates

LEMMA BashLeavesStep ==
    ASSUME ShellsInv, NEW t \in Shellers, BashCompletes(t) \/ BashLeaves(t) \/ KillReturns(t)
    PROVE  ShellsInv'
  <1>1. tool' = [tool EXCEPT ![t] = NoTool] /\ UNCHANGED <<job, idCounter, killAll, raced>>
    BY DEF BashCompletes, BashLeaves, KillReturns
  <1>2. PICK J \in SUBSET Nat : shells' = shells \ J /\ \A j \in J : job[j] # "running"
    <2>1. CASE BashCompletes(t)
      <3>1. {tool[t].id} \in SUBSET Nat
        BY ToolMember DEF ShellsInv
      <3>2. shells' = shells \ {tool[t].id} /\ job[tool[t].id] # "running"
        BY <2>1 DEF BashCompletes
      <3> QED  BY <3>1, <3>2
    <2>2. CASE BashLeaves(t) \/ KillReturns(t)
      <3>1. shells' = shells \ {} /\ {} \in SUBSET Nat
        BY <2>2 DEF BashLeaves, KillReturns
      <3> QED  BY <3>1
    <2> QED  BY <2>1, <2>2
  <1> QED
    BY <1>1, <1>2, NoToolState, ToolLeaves

LEMMA KillStep ==
    ASSUME ShellsInv, NEW t \in Shellers, NEW id \in Nat, Kill(t, id)
    PROVE  ShellsInv'
  <1>1. shells' = shells \ {id} /\ UNCHANGED <<idCounter, killAll, raced>>
    BY DEF Kill
  <1>2. CASE id \in shells
    <2>1. PICK st \in ToolStates : st = [NoTool EXCEPT !.pc = "kill", !.id = id]
      BY NoToolState DEF ToolStates
    <2>2. st.pc # "insert"
      BY <2>1 DEF NoTool
    <2>3. tool' = [tool EXCEPT ![t] = st] /\ job' = Cancelled({id})
      BY <1>2, <2>1 DEF Kill
    <2> QED
      BY <1>1, <2>2, <2>3, ToolLeaves
  <1>3. CASE id \notin shells
    <2>1. tool' = [tool EXCEPT ![t] = NoTool] /\ job' = job /\ shells' = shells \ {}
      BY <1>1, <1>3 DEF Kill
    <2> QED
      BY <1>1, <2>1, NoToolState, ToolLeaves
  <1> QED
    BY <1>2, <1>3

LEMMA JobEndsStep ==
    ASSUME ShellsInv, NEW j \in JobIds, JobEnds(j)
    PROVE  ShellsInv'
  <1>1. UNCHANGED <<shells, idCounter, tool, killAll, raced>> /\ job' = [job EXCEPT ![j] = "done"]
    BY DEF JobEnds
  <1>2. ShellTypes'
    BY <1>1 DEF ShellsInv, ShellTypes
  <1>3. RunningIsReachable'
    BY <1>1 DEF ShellsInv, ShellTypes, RunningIsReachable
  <1>4. CollectedInv' /\ LimitOvershoot'
    BY <1>1 DEF ShellsInv, CollectedInv, LimitOvershoot
  <1> QED
    BY <1>2, <1>3, <1>4 DEF ShellsInv

LEMMA KillAllCollectStep ==
    ASSUME ShellsInv, NEW w \in Homes, KillAllCollect(w)
    PROVE  ShellsInv'
  <1>1. UNCHANGED <<shells, job, idCounter, tool, raced>>
    BY DEF KillAllCollect
  <1>2. ShellTypes /\ killAll[w].pc = "none"
    BY DEF ShellsInv, KillAllCollect
  <1>3. PICK st \in KillAllStates : st = [pc |-> "collected", jobs |-> shells]
    BY <1>2 DEF ShellTypes, KillAllStates
  <1>4. killAll' = [killAll EXCEPT ![w] = st] /\ st.jobs = shells
    BY <1>3 DEF KillAllCollect
  <1>5. /\ killAll' \in [Homes -> KillAllStates] /\ killAll'[w] = st
        /\ \A v \in Homes \ {w} : killAll'[v] = killAll[v]
    BY <1>2, <1>4 DEF ShellTypes
  <1>6. ShellTypes' /\ LimitOvershoot'
    BY <1>1, <1>2, <1>5 DEF ShellsInv, ShellTypes, LimitOvershoot
  <1>7. RunningIsReachable'
    BY <1>1, <1>2, <1>5 DEF ShellsInv, RunningIsReachable
  <1>8. CollectedInv'
    BY <1>1, <1>4, <1>5 DEF ShellsInv, CollectedInv
  <1> QED
    BY <1>6, <1>7, <1>8 DEF ShellsInv

(* A KillAll cancels what it collected, and forgets the rest with it.      *)
LEMMA KillAllResetStep ==
    ASSUME ShellsInv, NEW w \in Homes, KillAllReset(w)
    PROVE  ShellsInv'
  <1>1. /\ shells' = {} /\ job' = Cancelled(killAll[w].jobs) /\ killAll[w].pc = "collected"
        /\ UNCHANGED <<idCounter, tool, raced>>
    BY DEF KillAllReset
  <1>2. ShellTypes
    BY DEF ShellsInv
  <1>3. PICK st \in KillAllStates : st = [killAll[w] EXCEPT !.pc = "waiting"]
    BY <1>2, KillAllMember DEF KillAllStates
  <1>4. killAll' = [killAll EXCEPT ![w] = st] /\ st.pc = "waiting"
    BY <1>2, <1>3, KillAllMember DEF KillAllReset, ShellTypes, KillAllStates
  <1>5. /\ killAll' \in [Homes -> KillAllStates] /\ killAll'[w].pc = "waiting"
        /\ \A v \in Homes \ {w} : killAll'[v] = killAll[v]
    BY <1>2, <1>4 DEF ShellTypes
  <1>6. /\ job' \in [JobIds -> {"none", "running", "cancelled", "done"}]
        /\ \A j \in JobIds : job'[j] = "running" => job[j] = "running" /\ j \notin killAll[w].jobs
    BY <1>1, <1>2, CancelledTypes
  <1>7. ShellTypes'
    BY <1>1, <1>2, <1>5, <1>6 DEF ShellTypes
  <1>8. LimitOvershoot'
    BY <1>1, LimitKept DEF Inserting
  <1>9. RunningIsReachable'
    BY <1>1, <1>5, <1>6 DEF ShellsInv, RunningIsReachable, CollectedInv
  <1>10. CollectedInv'
    BY <1>1 DEF CollectedInv
  <1> QED
    BY <1>7, <1>8, <1>9, <1>10 DEF ShellsInv

LEMMA KillAllReturnsStep ==
    ASSUME ShellsInv, NEW w \in Homes, KillAllReturns(w)
    PROVE  ShellsInv'
  <1>1. UNCHANGED <<shells, job, idCounter, tool, raced>> /\ killAll[w].pc = "waiting"
    BY DEF KillAllReturns
  <1>2. ShellTypes
    BY DEF ShellsInv
  <1>3. PICK st \in KillAllStates : st = [killAll[w] EXCEPT !.pc = "returned"]
    BY <1>2, KillAllMember DEF KillAllStates
  <1>4. killAll' = [killAll EXCEPT ![w] = st] /\ st.pc = "returned"
    BY <1>2, <1>3, KillAllMember DEF KillAllReturns, ShellTypes, KillAllStates
  <1>5. /\ killAll' \in [Homes -> KillAllStates] /\ killAll'[w].pc = "returned"
        /\ \A v \in Homes \ {w} : killAll'[v] = killAll[v]
    BY <1>2, <1>4 DEF ShellTypes
  <1>6. ShellTypes' /\ LimitOvershoot'
    BY <1>1, <1>2, <1>5 DEF ShellsInv, ShellTypes, LimitOvershoot
  <1>7. RunningIsReachable' /\ CollectedInv'
    BY <1>1, <1>5 DEF ShellsInv, RunningIsReachable, CollectedInv
  <1> QED
    BY <1>6, <1>7 DEF ShellsInv

LEMMA ShellsInvNext == ShellsInv /\ [BackgroundShellsNext]_shellVars => ShellsInv'
  <1> SUFFICES ASSUME ShellsInv, [BackgroundShellsNext]_shellVars PROVE ShellsInv'
    OBVIOUS
  <1>1. ASSUME NEW t \in Shellers, BashCancelled(t)
        PROVE  ShellsInv'
    BY <1>1, ToolMember, KillStep DEF BashCancelled, ShellsInv
  <1>2. ASSUME NEW t \in Shellers, NEW id \in JobIds, JobKill(t, id)
        PROVE  ShellsInv'
    BY <1>2, KillStep DEF JobKill, JobIds
  <1>3. CASE UNCHANGED shellVars
    BY <1>3 DEF shellVars, ShellsInv, ShellTypes, RunningIsReachable, CollectedInv, LimitOvershoot
  <1> QED
    BY <1>1, <1>2, <1>3, BashStartStep, BashInsertStep, BashLeavesStep, JobEndsStep,
       KillAllCollectStep, KillAllResetStep, KillAllReturnsStep DEF BackgroundShellsNext

LEMMA ShellsInvInit == BackgroundShellsInit => ShellsInv
  <1> SUFFICES ASSUME BackgroundShellsInit PROVE ShellsInv
    OBVIOUS
  <1>1. ShellTypes /\ RunningIsReachable /\ CollectedInv
    BY NoToolState DEF BackgroundShellsInit, ShellTypes, RunningIsReachable, CollectedInv, KillAllStates
  <1>2. Inserting = {} /\ shells = {}
    BY DEF BackgroundShellsInit, Inserting, NoTool
  <1>3. Cardinality(shells) + Cardinality(Inserting) <= MaxBackgroundJobs + Cardinality(Shellers) - 1
    BY <1>2, FS_EmptySet, InsertersFinite, BackgroundShellsAssumption
  <1> QED
    BY <1>1, <1>3 DEF ShellsInv, LimitOvershoot, Inserting

(* For any number of agents and workspaces: a running command that is      *)
(* neither in the map nor in the hands of a KillAll was inserted inside    *)
(* another workspace's KillAll, and the limit is overshot by at most the   *)
(* other agents that start at the same time.                               *)
THEOREM RunningShellsAreAccounted == BackgroundShellsSpec => []ShellsAccounted
  <1>1. ShellsInv => ShellsAccounted
    BY DEF ShellsInv, ShellsAccounted
  <1> QED
    BY <1>1, ShellsInvInit, ShellsInvNext, PTL DEF BackgroundShellsSpec

-----------------------------------------------------------------------------
(* The LSP clients: an inductive invariant of LspManager.                  *)

StarterPoints == {"idle", "new", "look", "set", "mark", "initialize", "delete"}
StarterStates == [pc : StarterPoints, client : LspClients \cup {NoClient}]
StopperStates == [pc : {"idle", "kill", "delete"}, client : LspClients \cup {NoClient}]

(* A client in somebody's hands, or in the map, has been created.          *)
LspTypes ==
    /\ entry \in LspClients \cup {NoClient} /\ entry <= created
    /\ created \in Nat
    /\ serverState \in [LspClients -> {"stopped", "starting", "ready", "error"}]
    /\ process \in [LspClients -> {"none", "alive", "dead"}]
    /\ starter \in [LspStarters -> StarterStates]
    /\ \A t \in LspStarters :
         /\ starter[t].pc \in {"idle", "new"} <=> starter[t].client = NoClient
         /\ starter[t].client <= created
    /\ stopper \in [LspStoppers -> StopperStates]
    /\ \A w \in LspStoppers :
         /\ stopper[w].pc = "idle" <=> stopper[w].client = NoClient
         /\ stopper[w].client <= created

(* While one goroutine starts a client that overlapped nobody, no other    *)
(* starts or stops anything.                                               *)
AloneInv ==
    \A t \in LspStarters :
        starter[t].client # NoClient /\ starter[t].client \notin overlapped =>
            /\ \A u \in LspStarters \ {t} : starter[u].pc = "idle"
            /\ \A w \in LspStoppers : stopper[w].pc = "idle"

(* Whose client the map holds, unless that client overlapped somebody.     *)
EntryInv ==
    /\ \A t \in LspStarters :
         /\ starter[t].pc \in {"mark", "initialize", "delete"} =>
              \/ entry \in overlapped \cup {NoClient} /\ starter[t].client \in overlapped
              \/ entry = starter[t].client
         /\ starter[t].pc = "set" => entry \in overlapped \/ ~InService(entry)
         /\ starter[t].pc = "delete" => process[starter[t].client] = "dead"
    /\ \A w \in LspStoppers :
         /\ stopper[w].pc # "idle" =>
              entry \in overlapped \cup {NoClient} \/ entry = stopper[w].client
         /\ stopper[w].pc = "delete" => process[stopper[w].client] = "dead"

(* A live client in the map is being started, or ended its start, or is    *)
(* about to be ended.                                                      *)
ServedInv ==
    entry # NoClient /\ process[entry] = "alive" /\ entry \notin overlapped =>
        \/ \E t \in LspStarters :
             starter[t].pc \in {"mark", "initialize"} /\ starter[t].client = entry
        \/ serverState[entry] \in {"ready", "error"}
        \/ \E w \in LspStoppers : stopper[w].pc = "kill" /\ stopper[w].client = entry

(* ServersAccounted, with the goroutines named.                            *)
ServerKnown ==
    \A c \in LspClients : process[c] = "alive" =>
        \/ c = entry
        \/ \E t \in LspStarters : starter[t].client = c
        \/ \E w \in LspStoppers : stopper[w].pc = "kill" /\ stopper[w].client = c
        \/ c \in overlapped
        \/ serverState[c] = "error"

LspInv == LspTypes /\ AloneInv /\ EntryInv /\ ServedInv /\ ServerKnown

LEMMA StarterMember ==
    ASSUME LspTypes, NEW t \in LspStarters
    PROVE  /\ starter[t] \in StarterStates
           /\ starter[t].pc \in StarterPoints
           /\ starter[t].client \in LspClients \cup {NoClient}
           /\ starter[t] = [pc |-> starter[t].pc, client |-> starter[t].client]
  BY DEF LspTypes, StarterStates

LEMMA StopperMember ==
    ASSUME LspTypes, NEW w \in LspStoppers
    PROVE  /\ stopper[w] \in StopperStates
           /\ stopper[w].pc \in {"idle", "kill", "delete"}
           /\ stopper[w].client \in LspClients \cup {NoClient}
           /\ stopper[w] = [pc |-> stopper[w].pc, client |-> stopper[w].client]
  BY DEF LspTypes, StopperStates

LEMMA LspNumbers ==
    /\ AtRest \in StarterStates /\ AtRest \in StopperStates
    /\ AtRest.pc = "idle" /\ AtRest.client = NoClient
    /\ LspClients \subseteq Nat \ {0} /\ NoClient = 0 /\ NoClient \notin LspClients
  BY LspManagerAssumption DEF AtRest, StarterStates, StopperStates, StarterPoints, LspClients, NoClient

LEMMA BeingStartedHas ==
    ASSUME LspTypes, NEW t \in LspStarters, starter[t].client # NoClient
    PROVE  starter[t].client \in BeingStarted
  BY DEF LspTypes, BeingStarted, Starting

(* What the writes of one entry leave. *)
LEMMA StarterGoes ==
    ASSUME LspTypes, NEW t \in LspStarters, NEW l \in StarterPoints,
           starter' = [starter EXCEPT ![t].pc = l]
    PROVE  /\ starter' \in [LspStarters -> StarterStates]
           /\ starter'[t].pc = l /\ starter'[t].client = starter[t].client
           /\ \A u \in LspStarters \ {t} : starter'[u] = starter[u]
  <1>1. [starter[t] EXCEPT !.pc = l] \in StarterStates
    BY StarterMember DEF StarterStates
  <1> QED
    BY <1>1, StarterMember DEF LspTypes, StarterStates

LEMMA StarterRests ==
    ASSUME LspTypes, NEW t \in LspStarters, starter' = [starter EXCEPT ![t] = AtRest]
    PROVE  /\ starter' \in [LspStarters -> StarterStates]
           /\ starter'[t].pc = "idle" /\ starter'[t].client = NoClient
           /\ \A u \in LspStarters \ {t} : starter'[u] = starter[u]
  BY LspNumbers DEF LspTypes

LEMMA StopperGoes ==
    ASSUME LspTypes, NEW w \in LspStoppers, stopper' = [stopper EXCEPT ![w].pc = "delete"]
    PROVE  /\ stopper' \in [LspStoppers -> StopperStates]
           /\ stopper'[w].pc = "delete" /\ stopper'[w].client = stopper[w].client
           /\ \A v \in LspStoppers \ {w} : stopper'[v] = stopper[v]
  <1>1. [stopper[w] EXCEPT !.pc = "delete"] \in StopperStates
    BY StopperMember DEF StopperStates
  <1> QED
    BY <1>1, StopperMember DEF LspTypes, StopperStates

(* A step that ends clients, or goes on in a starter's or a stopper's hands. *)
LEMMA LspQuiet ==
    ASSUME LspInv, UNCHANGED <<entry, created, serverState, process, starter, stopper, overlapped>>
    PROVE  LspInv'
  BY DEF LspInv, LspTypes, AloneInv, EntryInv, ServedInv, ServerKnown, InService

LEMMA LookAgainStep ==
    ASSUME LspInv, NEW t \in LspStarters, LookAgain(t)
    PROVE  LspInv'
  <1>1. LspTypes /\ starter[t].pc = "idle" /\ starter[t].client = NoClient
    BY LspNumbers DEF LspInv, LookAgain
  <1>2. /\ starter' \in [LspStarters -> StarterStates]
        /\ starter'[t].pc = "new" /\ starter'[t].client = NoClient
        /\ \A u \in LspStarters \ {t} : starter'[u] = starter[u]
    BY <1>1, StarterGoes DEF LookAgain, StarterPoints
  <1>3. UNCHANGED <<entry, created, serverState, process, stopper>>
        /\ overlapped \subseteq overlapped'
    BY DEF LookAgain
  <1>4. \A u \in LspStarters : starter[u].client # NoClient => starter[u].client \in overlapped'
    BY <1>1, BeingStartedHas DEF LookAgain
  <1>5. LspTypes'
    BY <1>1, <1>2, <1>3 DEF LspTypes
  <1>6. AloneInv'
    BY <1>2, <1>4 DEF AloneInv
  <1>7. EntryInv'
    BY <1>2, <1>3 DEF LspInv, EntryInv, InService
  <1>8. ServedInv' /\ ServerKnown'
    BY <1>2, <1>3, <1>1 DEF LspInv, ServedInv, ServerKnown
  <1> QED
    BY <1>5, <1>6, <1>7, <1>8 DEF LspInv

LEMMA NewClientStep ==
    ASSUME LspInv, NEW t \in LspStarters, NewClient(t)
    PROVE  LspInv'
  <1>1. LspTypes /\ starter[t].pc = "new" /\ starter[t].client = NoClient
    BY DEF LspInv, LspTypes, NewClient
  <1>2. PICK c \in LspClients : c = created + 1
    BY <1>1, LspManagerAssumption DEF NewClient, LspTypes, LspClients
  <1>3. /\ created' = c /\ process' = [process EXCEPT ![c] = "alive"]
        /\ starter' = [starter EXCEPT ![t] = [pc |-> "look", client |-> c]]
        /\ overlapped' = IF Starting \ {t} # {} \/ Stopping # {}
                              THEN overlapped \cup {c} ELSE overlapped
        /\ UNCHANGED <<entry, serverState, stopper>>
    BY <1>2 DEF NewClient
  <1>4. PICK st \in StarterStates : st = [pc |-> "look", client |-> c]
    BY DEF StarterStates, StarterPoints
  <1>5. /\ starter' \in [LspStarters -> StarterStates]
        /\ starter'[t].pc = "look" /\ starter'[t].client = c
        /\ \A u \in LspStarters \ {t} : starter'[u] = starter[u]
    BY <1>1, <1>3, <1>4 DEF LspTypes
  <1>6. /\ process' \in [LspClients -> {"none", "alive", "dead"}]
        /\ \A d \in LspClients \ {c} : process'[d] = process[d]
    BY <1>1, <1>3 DEF LspTypes
  <1>7. /\ entry # c /\ c # NoClient
        /\ \A u \in LspStarters : starter[u].client # c
        /\ \A w \in LspStoppers : stopper[w].client # c
    BY <1>1, <1>2, LspNumbers, StarterMember, StopperMember DEF LspTypes
  <1>8. LspTypes'
    BY <1>1, <1>2, <1>3, <1>5, <1>6, <1>7, LspNumbers, StarterMember, StopperMember DEF LspTypes
  <1>9. AloneInv'
    <2>1. ASSUME NEW u \in LspStarters, starter'[u].client # NoClient, starter'[u].client \notin overlapped'
          PROVE  /\ \A v \in LspStarters \ {u} : starter'[v].pc = "idle"
                 /\ \A w \in LspStoppers : stopper'[w].pc = "idle"
      <3>1. CASE u = t
        BY <3>1, <2>1, <1>3, <1>5 DEF Starting, Stopping
      <3>2. CASE u # t
        <4>1. starter[t].pc = "idle"
          BY <3>2, <2>1, <1>3, <1>5 DEF LspInv, AloneInv
        <4> QED  BY <4>1, <1>1
      <3> QED  BY <3>1, <3>2
    <2> QED  BY <2>1 DEF AloneInv
  <1>10. EntryInv'
    BY <1>3, <1>5, <1>6, <1>7, <1>8, <1>1, StarterMember, StopperMember DEF LspInv, EntryInv, InService, LspTypes
  <1>11. ServedInv'
    BY <1>1, <1>3, <1>5, <1>6, <1>7 DEF LspInv, ServedInv, LspTypes
  <1>12. ServerKnown'
    BY <1>1, <1>3, <1>5, <1>6, LspNumbers DEF LspInv, ServerKnown
  <1> QED
    BY <1>8, <1>9, <1>10, <1>11, <1>12 DEF LspInv

(* A goroutine's start is over with its client in nobody's hands: either    *)
(* the client is dead, or the map holds it, or it needs no keeper.          *)
LEMMA NewFailsStep ==
    ASSUME LspInv, NEW t \in LspStarters, NewFails(t)
    PROVE  LspInv'
  <1>1. LspTypes /\ starter[t].pc = "new" /\ starter[t].client = NoClient
    BY DEF LspInv, LspTypes, NewFails
  <1>2. /\ starter' \in [LspStarters -> StarterStates]
        /\ starter'[t].pc = "idle" /\ starter'[t].client = NoClient
        /\ \A u \in LspStarters \ {t} : starter'[u] = starter[u]
    BY <1>1, StarterRests DEF NewFails
  <1>3. UNCHANGED <<entry, created, serverState, process, stopper, overlapped>>
    BY DEF NewFails
  <1>4. LspTypes'
    BY <1>1, <1>2, <1>3 DEF LspTypes
  <1>5. AloneInv' /\ EntryInv'
    BY <1>1, <1>2, <1>3 DEF LspInv, AloneInv, EntryInv, InService
  <1>6. ServedInv' /\ ServerKnown'
    BY <1>1, <1>2, <1>3 DEF LspInv, ServedInv, ServerKnown
  <1> QED
    BY <1>4, <1>5, <1>6 DEF LspInv

LEMMA PreferStoredStep ==
    ASSUME LspInv, NEW t \in LspStarters, PreferStored(t)
    PROVE  LspInv'
  <1>1. LspTypes /\ starter[t].pc = "look" /\ starter[t].client \in LspClients
    BY StarterMember DEF LspInv, LspTypes, PreferStored
  <1>2. UNCHANGED <<entry, created, serverState, stopper, overlapped>>
    BY DEF PreferStored
  <1>3. CASE InService(entry)
    <2>1. /\ starter' \in [LspStarters -> StarterStates]
          /\ starter'[t].pc = "idle" /\ starter'[t].client = NoClient
          /\ \A u \in LspStarters \ {t} : starter'[u] = starter[u]
      BY <1>1, <1>3, StarterRests DEF PreferStored
    <2>2. /\ process' \in [LspClients -> {"none", "alive", "dead"}]
          /\ process'[starter[t].client] = "dead"
          /\ \A d \in LspClients : process'[d] # process[d] => d = starter[t].client
      BY <1>1, <1>3 DEF PreferStored, LspTypes
    <2>3. LspTypes'
      BY <1>1, <1>2, <2>1, <2>2, LspNumbers DEF LspTypes
    <2>4. AloneInv'
      BY <1>2, <2>1 DEF LspInv, AloneInv
    <2>5. EntryInv'
      BY <1>1, <1>2, <2>1, <2>2, StarterMember, StopperMember DEF LspInv, EntryInv, InService, LspTypes
    <2>6. ServedInv' /\ ServerKnown'
      BY <1>1, <1>2, <2>1, <2>2 DEF LspInv, ServedInv, ServerKnown, LspTypes
    <2> QED
      BY <2>3, <2>4, <2>5, <2>6 DEF LspInv
  <1>4. CASE ~InService(entry)
    <2>1. /\ starter' \in [LspStarters -> StarterStates]
          /\ starter'[t].pc = "set" /\ starter'[t].client = starter[t].client
          /\ \A u \in LspStarters \ {t} : starter'[u] = starter[u]
      BY <1>1, <1>4, StarterGoes DEF PreferStored, StarterPoints
    <2>2. process' = process
      BY <1>4 DEF PreferStored
    <2>3. LspTypes'
      BY <1>1, <1>2, <2>1, <2>2, LspNumbers DEF LspTypes
    <2>4. AloneInv'
      BY <1>1, <1>2, <2>1 DEF LspInv, AloneInv
    <2>5. EntryInv'
      BY <1>1, <1>2, <1>4, <2>1, <2>2 DEF LspInv, EntryInv, InService
    <2>6. ServedInv' /\ ServerKnown'
      BY <1>1, <1>2, <2>1, <2>2 DEF LspInv, ServedInv, ServerKnown
    <2> QED
      BY <2>3, <2>4, <2>5, <2>6 DEF LspInv
  <1> QED
    BY <1>3, <1>4

(* Whom the map's new client replaces is in somebody's hands, or overlapped, *)
(* or was not ready in time.                                               *)
LEMMA SetClientStep ==
    ASSUME LspInv, NEW t \in LspStarters, SetClient(t)
    PROVE  LspInv'
  <1>1. LspTypes /\ starter[t].pc = "set" /\ starter[t].client \in LspClients
    BY StarterMember DEF LspInv, LspTypes, SetClient
  <1>2. /\ entry' = starter[t].client
        /\ UNCHANGED <<created, serverState, process, stopper, overlapped>>
    BY DEF SetClient
  <1>3. /\ starter' \in [LspStarters -> StarterStates]
        /\ starter'[t].pc = "mark" /\ starter'[t].client = starter[t].client
        /\ \A u \in LspStarters \ {t} : starter'[u] = starter[u]
    BY <1>1, StarterGoes DEF SetClient, StarterPoints
  <1>4. LspTypes'
    BY <1>1, <1>2, <1>3, LspNumbers DEF LspTypes
  <1>5. AloneInv'
    BY <1>1, <1>2, <1>3 DEF LspInv, AloneInv
  <1>6. starter[t].client \notin overlapped =>
          /\ \A u \in LspStarters \ {t} : starter[u].pc = "idle"
          /\ \A w \in LspStoppers : stopper[w].pc = "idle"
    BY <1>1, LspNumbers DEF LspInv, AloneInv
  <1>7. EntryInv'
    <2>1. ASSUME NEW u \in LspStarters
          PROVE  /\ starter'[u].pc \in {"mark", "initialize", "delete"} =>
                      \/ entry' \in overlapped' \cup {NoClient} /\ starter'[u].client \in overlapped'
                      \/ entry' = starter'[u].client
                 /\ starter'[u].pc = "set" => entry' \in overlapped' \/ ~InService(entry)'
                 /\ starter'[u].pc = "delete" => process'[starter'[u].client] = "dead"
      <3>1. CASE u = t
        BY <3>1, <1>2, <1>3
      <3>2. CASE u # t
        <4>1. starter'[u] = starter[u] 
          BY <1>3, <3>2
        <4>2. starter[u].pc # "idle" => starter[t].client \in overlapped
          BY <1>6, <3>2
        <4>3. starter[u].pc \in {"mark", "initialize", "delete"} =>
                starter[u].client \in overlapped \/ starter[t].pc = "idle"
          BY <3>2, <1>1, LspNumbers DEF LspInv, AloneInv, LspTypes
        <4>4. starter[u].pc = "delete" => process[starter[u].client] = "dead"
          BY DEF LspInv, EntryInv
        <4> QED
          BY <4>1, <4>2, <4>3, <4>4, <1>1, <1>2
      <3> QED  BY <3>1, <3>2
    <2>2. ASSUME NEW w \in LspStoppers
          PROVE  /\ stopper'[w].pc # "idle" =>
                      entry' \in overlapped' \cup {NoClient} \/ entry' = stopper'[w].client
                 /\ stopper'[w].pc = "delete" => process'[stopper'[w].client] = "dead"
      BY <1>2, <1>6 DEF LspInv, EntryInv
    <2> QED
      BY <2>1, <2>2 DEF EntryInv
  <1>8. ServedInv'
    BY <1>2, <1>3 DEF ServedInv
  <1>9. ServerKnown'
    <2>1. ASSUME NEW c \in LspClients, process[c] = "alive", c # starter[t].client,
                 ~\E u \in LspStarters : starter[u].client = c,
                 ~\E w \in LspStoppers : stopper[w].pc = "kill" /\ stopper[w].client = c,
                 c \notin overlapped
          PROVE  serverState[c] = "error"
      <3>1. CASE c = entry
        <4>1. serverState[c] \notin {"starting", "ready"}
          BY <1>1, <2>1, <3>1, LspNumbers DEF LspInv, EntryInv, InService
        <4> QED
          BY <2>1, <3>1, <4>1, LspNumbers DEF LspInv, ServedInv
      <3>2. CASE c # entry
        BY <2>1, <3>2 DEF LspInv, ServerKnown
      <3> QED  BY <3>1, <3>2
    <2>2. \A u \in LspStarters : starter'[u].client = starter[u].client
      BY <1>3
    <2> QED
      BY <2>1, <2>2, <1>2 DEF ServerKnown
  <1> QED
    BY <1>4, <1>5, <1>7, <1>8, <1>9 DEF LspInv

LEMMA MarkStartingStep ==
    ASSUME LspInv, NEW t \in LspStarters, MarkStarting(t)
    PROVE  LspInv'
  <1>1. LspTypes /\ starter[t].pc = "mark" /\ starter[t].client \in LspClients
    BY StarterMember DEF LspInv, LspTypes, MarkStarting
  <1>2. UNCHANGED <<entry, created, process, stopper, overlapped>>
    BY DEF MarkStarting
  <1>3. /\ starter' \in [LspStarters -> StarterStates]
        /\ starter'[t].pc = "initialize" /\ starter'[t].client = starter[t].client
        /\ \A u \in LspStarters \ {t} : starter'[u] = starter[u]
    BY <1>1, StarterGoes DEF MarkStarting, StarterPoints
  <1>4. /\ serverState' \in [LspClients -> {"stopped", "starting", "ready", "error"}]
        /\ \A c \in LspClients : c # starter[t].client => serverState'[c] = serverState[c]
    BY <1>1 DEF MarkStarting, LspTypes
  <1>5. LspTypes'
    BY <1>1, <1>2, <1>3, <1>4, LspNumbers DEF LspTypes
  <1>6. AloneInv'
    BY <1>1, <1>2, <1>3 DEF LspInv, AloneInv
  <1>7. EntryInv'
    <2>1. \A u \in LspStarters : starter[u].pc = "set" /\ entry = starter[t].client => entry \in overlapped
      BY <1>1, LspNumbers DEF LspInv, AloneInv
    <2>2. \A u \in LspStarters : starter[u].pc = "set" =>
             entry \in overlapped \/ entry = NoClient \/ serverState[entry] \notin {"starting", "ready"}
      BY DEF LspInv, EntryInv, InService
    <2>3. ASSUME NEW u \in LspStarters, starter'[u].pc = "set"
          PROVE  entry' \in overlapped' \/ ~InService(entry)'
      <3>1. starter[u].pc = "set"
        BY <1>3, <2>3
      <3> QED
        BY <1>1, <1>2, <1>4, <2>1, <2>2, <3>1 DEF InService, LspTypes
    <2> QED
      BY <1>1, <1>2, <1>3, <2>3 DEF LspInv, EntryInv
  <1>8. ServedInv'
    BY <1>1, <1>2, <1>3, <1>4 DEF LspInv, ServedInv, LspTypes
  <1>9. ServerKnown'
    BY <1>1, <1>2, <1>3, <1>4 DEF LspInv, ServerKnown
  <1> QED
    BY <1>5, <1>6, <1>7, <1>8, <1>9 DEF LspInv

LEMMA InitializeFailsStep ==
    ASSUME LspInv, NEW t \in LspStarters, InitializeFails(t)
    PROVE  LspInv'
  <1>1. LspTypes /\ starter[t].pc = "initialize" /\ starter[t].client \in LspClients
    BY StarterMember DEF LspInv, LspTypes, InitializeFails
  <1>2. UNCHANGED <<entry, created, serverState, stopper, overlapped>>
    BY DEF InitializeFails
  <1>3. /\ starter' \in [LspStarters -> StarterStates]
        /\ starter'[t].pc = "delete" /\ starter'[t].client = starter[t].client
        /\ \A u \in LspStarters \ {t} : starter'[u] = starter[u]
    BY <1>1, StarterGoes DEF InitializeFails, StarterPoints
  <1>4. /\ process' \in [LspClients -> {"none", "alive", "dead"}]
        /\ process'[starter[t].client] = "dead"
        /\ \A c \in LspClients : c # starter[t].client => process'[c] = process[c]
    BY <1>1 DEF InitializeFails, LspTypes
  <1>5. LspTypes'
    BY <1>1, <1>2, <1>3, <1>4, LspNumbers DEF LspTypes
  <1>6. AloneInv'
    BY <1>1, <1>2, <1>3 DEF LspInv, AloneInv
  <1>7. EntryInv'
    BY <1>1, <1>2, <1>3, <1>4, StarterMember, StopperMember DEF LspInv, EntryInv, InService, LspTypes
  <1>8. ServedInv'
    BY <1>1, <1>2, <1>3, <1>4 DEF LspInv, ServedInv, LspTypes
  <1>9. ServerKnown'
    BY <1>1, <1>2, <1>3, <1>4 DEF LspInv, ServerKnown
  <1> QED
    BY <1>5, <1>6, <1>7, <1>8, <1>9 DEF LspInv

(* The entry is deleted by name: what it held is dead, or overlapped.       *)
LEMMA DeleteFailedStep ==
    ASSUME LspInv, NEW t \in LspStarters, DeleteFailed(t)
    PROVE  LspInv'
  <1>1. /\ LspTypes /\ starter[t].pc = "delete" /\ starter[t].client \in LspClients
        /\ process[starter[t].client] = "dead"
        /\ entry = starter[t].client \/ entry \in overlapped \cup {NoClient}
    BY StarterMember DEF LspInv, LspTypes, EntryInv, DeleteFailed
  <1>2. entry' = NoClient /\ UNCHANGED <<created, serverState, process, stopper, overlapped>>
    BY DEF DeleteFailed
  <1>3. /\ starter' \in [LspStarters -> StarterStates]
        /\ starter'[t].pc = "idle" /\ starter'[t].client = NoClient
        /\ \A u \in LspStarters \ {t} : starter'[u] = starter[u]
    BY <1>1, StarterRests DEF DeleteFailed
  <1>4. LspTypes'
    BY <1>1, <1>2, <1>3, LspNumbers DEF LspTypes
  <1>5. AloneInv'
    BY <1>1, <1>2, <1>3 DEF LspInv, AloneInv
  <1>6. EntryInv'
    <2>1. \A u \in LspStarters \ {t} : starter[u].client # NoClient => starter[u].client \in overlapped
      BY <1>1 DEF LspInv, AloneInv
    <2>2. \A u \in LspStarters : starter[u].pc \in {"mark", "initialize", "delete"} => starter[u].client # NoClient
      BY <1>1, LspNumbers DEF LspTypes
    <2> QED
      BY <1>2, <1>3, <2>1, <2>2 DEF LspInv, EntryInv, InService
  <1>7. ServedInv'
    BY <1>2 DEF ServedInv
  <1>8. ServerKnown'
    BY <1>1, <1>2, <1>3, LspNumbers DEF LspInv, ServerKnown
  <1> QED
    BY <1>4, <1>5, <1>6, <1>7, <1>8 DEF LspInv

LEMMA InitializedStep ==
    ASSUME LspInv, NEW t \in LspStarters, Initialized(t)
    PROVE  LspInv'
  <1>1. /\ LspTypes /\ starter[t].pc = "initialize" /\ starter[t].client \in LspClients
        /\ entry = starter[t].client \/ starter[t].client \in overlapped
    BY StarterMember DEF LspInv, LspTypes, EntryInv, Initialized
  <1>2. UNCHANGED <<entry, created, process, stopper, overlapped>>
    BY DEF Initialized
  <1>3. /\ starter' \in [LspStarters -> StarterStates]
        /\ starter'[t].pc = "idle" /\ starter'[t].client = NoClient
        /\ \A u \in LspStarters \ {t} : starter'[u] = starter[u]
    BY <1>1, StarterRests DEF Initialized
  <1>4. /\ serverState' \in [LspClients -> {"stopped", "starting", "ready", "error"}]
        /\ serverState'[starter[t].client] \in {"ready", "error"}
        /\ \A c \in LspClients : c # starter[t].client => serverState'[c] = serverState[c]
    BY <1>1 DEF Initialized, LspTypes
  <1>5. LspTypes'
    BY <1>1, <1>2, <1>3, <1>4, LspNumbers DEF LspTypes
  <1>6. AloneInv'
    BY <1>1, <1>2, <1>3 DEF LspInv, AloneInv
  <1>7. EntryInv'
    <2>1. \A u \in LspStarters : starter[u].pc = "set" /\ entry = starter[t].client => entry \in overlapped
      BY <1>1, LspNumbers DEF LspInv, AloneInv
    <2>2. \A u \in LspStarters : starter[u].pc = "set" =>
             entry \in overlapped \/ entry = NoClient \/ serverState[entry] \notin {"starting", "ready"}
      BY DEF LspInv, EntryInv, InService
    <2>3. ASSUME NEW u \in LspStarters, starter'[u].pc = "set"
          PROVE  entry' \in overlapped' \/ ~InService(entry)'
      <3>1. starter[u].pc = "set"
        BY <1>3, <2>3
      <3> QED
        BY <1>1, <1>2, <1>4, <2>1, <2>2, <3>1 DEF InService, LspTypes
    <2> QED
      BY <1>1, <1>2, <1>3, <2>3 DEF LspInv, EntryInv
  <1>8. ServedInv'
    BY <1>1, <1>2, <1>3, <1>4 DEF LspInv, ServedInv, LspTypes
  <1>9. ServerKnown'
    BY <1>1, <1>2, <1>3, <1>4 DEF LspInv, ServerKnown
  <1> QED
    BY <1>5, <1>6, <1>7, <1>8, <1>9 DEF LspInv

LEMMA StopCollectStep ==
    ASSUME LspInv, NEW w \in LspStoppers, StopCollect(w)
    PROVE  LspInv'
  <1>1. LspTypes /\ stopper[w].pc = "idle" /\ stopper[w].client = NoClient /\ entry \in LspClients
    BY LspNumbers DEF LspInv, LspTypes, StopCollect
  <1>2. PICK st \in StopperStates : st = [pc |-> "kill", client |-> entry]
    BY <1>1 DEF StopperStates
  <1>3. /\ stopper' \in [LspStoppers -> StopperStates]
        /\ stopper'[w].pc = "kill" /\ stopper'[w].client = entry
        /\ \A v \in LspStoppers \ {w} : stopper'[v] = stopper[v]
    BY <1>1, <1>2 DEF StopCollect, LspTypes
  <1>4. UNCHANGED <<entry, created, serverState, process, starter>>
        /\ overlapped \subseteq overlapped'
    BY DEF StopCollect
  <1>5. \A u \in LspStarters : starter[u].client # NoClient => starter[u].client \in overlapped'
    BY <1>1, BeingStartedHas DEF StopCollect
  <1>6. LspTypes'
    BY <1>1, <1>3, <1>4, LspNumbers DEF LspTypes
  <1>7. AloneInv'
    BY <1>4, <1>5 DEF AloneInv
  <1>8. EntryInv'
    BY <1>1, <1>3, <1>4, <1>5 DEF LspInv, EntryInv, InService
  <1>9. ServedInv' /\ ServerKnown'
    BY <1>1, <1>3, <1>4 DEF LspInv, ServedInv, ServerKnown
  <1> QED
    BY <1>6, <1>7, <1>8, <1>9 DEF LspInv

LEMMA StopKillStep ==
    ASSUME LspInv, NEW w \in LspStoppers, StopKill(w)
    PROVE  LspInv'
  <1>1. LspTypes /\ stopper[w].pc = "kill" /\ stopper[w].client \in LspClients
    BY StopperMember DEF LspInv, LspTypes, StopKill
  <1>2. UNCHANGED <<entry, created, starter, overlapped>>
    BY DEF StopKill
  <1>3. /\ stopper' \in [LspStoppers -> StopperStates]
        /\ stopper'[w].pc = "delete" /\ stopper'[w].client = stopper[w].client
        /\ \A v \in LspStoppers \ {w} : stopper'[v] = stopper[v]
    BY <1>1, StopperGoes DEF StopKill
  <1>4. /\ process' \in [LspClients -> {"none", "alive", "dead"}]
        /\ process'[stopper[w].client] = "dead"
        /\ \A c \in LspClients : c # stopper[w].client => process'[c] = process[c]
    BY <1>1 DEF StopKill, LspTypes
  <1>5. /\ serverState' \in [LspClients -> {"stopped", "starting", "ready", "error"}]
        /\ serverState'[stopper[w].client] = "stopped"
        /\ \A c \in LspClients : c # stopper[w].client => serverState'[c] = serverState[c]
    BY <1>1 DEF StopKill, LspTypes
  <1>6. LspTypes'
    BY <1>1, <1>2, <1>3, <1>4, <1>5, LspNumbers DEF LspTypes
  <1>7. AloneInv'
    BY <1>1, <1>2, <1>3 DEF LspInv, AloneInv
  <1>8. EntryInv'
    <2>1. ASSUME NEW u \in LspStarters
          PROVE  /\ starter'[u].pc = "set" => entry' \in overlapped' \/ ~InService(entry)'
                 /\ starter'[u].pc = "delete" => process'[starter'[u].client] = "dead"
      BY <1>1, <1>2, <1>4, <1>5, StarterMember DEF LspInv, EntryInv, InService, LspTypes
    <2>2. ASSUME NEW v \in LspStoppers, stopper'[v].pc = "delete"
          PROVE  process'[stopper'[v].client] = "dead"
      <3>1. CASE v = w
        BY <3>1, <1>3, <1>4
      <3>2. CASE v # w
        BY <3>2, <2>2, <1>1, <1>3, <1>4, StopperMember DEF LspInv, EntryInv, LspTypes
      <3> QED  BY <3>1, <3>2
    <2>3. \A v \in LspStoppers : stopper'[v].pc # "idle" => stopper[v].pc # "idle" /\ stopper'[v].client = stopper[v].client
      BY <1>1, <1>3
    <2> QED
      BY <1>2, <2>1, <2>2, <2>3 DEF LspInv, EntryInv
  <1>9. ServedInv'
    BY <1>1, <1>2, <1>3, <1>4, <1>5 DEF LspInv, ServedInv, LspTypes
  <1>10. ServerKnown'
    BY <1>1, <1>2, <1>3, <1>4, <1>5 DEF LspInv, ServerKnown
  <1> QED
    BY <1>6, <1>7, <1>8, <1>9, <1>10 DEF LspInv

LEMMA StopDeleteStep ==
    ASSUME LspInv, NEW w \in LspStoppers, StopDelete(w)
    PROVE  LspInv'
  <1>1. /\ LspTypes /\ stopper[w].pc = "delete" /\ stopper[w].client \in LspClients
        /\ process[stopper[w].client] = "dead"
        /\ entry = stopper[w].client \/ entry \in overlapped \cup {NoClient}
    BY StopperMember DEF LspInv, LspTypes, EntryInv, StopDelete
  <1>2. entry' = NoClient /\ UNCHANGED <<created, serverState, process, starter, overlapped>>
    BY DEF StopDelete
  <1>3. /\ stopper' \in [LspStoppers -> StopperStates]
        /\ stopper'[w].pc = "idle" /\ stopper'[w].client = NoClient
        /\ \A v \in LspStoppers \ {w} : stopper'[v] = stopper[v]
    BY <1>1, LspNumbers DEF StopDelete, LspTypes
  <1>4. LspTypes'
    BY <1>1, <1>2, <1>3, LspNumbers DEF LspTypes
  <1>5. AloneInv'
    BY <1>1, <1>2, <1>3 DEF LspInv, AloneInv
  <1>6. EntryInv'
    <2>1. \A u \in LspStarters : starter[u].client # NoClient => starter[u].client \in overlapped
      BY <1>1 DEF LspInv, AloneInv
    <2>2. \A u \in LspStarters : starter[u].pc \in {"mark", "initialize", "delete"} => starter[u].client # NoClient
      BY <1>1, LspNumbers DEF LspTypes
    <2> QED
      BY <1>2, <1>3, <2>1, <2>2 DEF LspInv, EntryInv, InService
  <1>7. ServedInv'
    BY <1>2 DEF ServedInv
  <1>8. ServerKnown'
    BY <1>1, <1>2, <1>3, LspNumbers DEF LspInv, ServerKnown
  <1> QED
    BY <1>4, <1>5, <1>6, <1>7, <1>8 DEF LspInv

LEMMA LspInvNext == LspInv /\ [LspNext]_lspVars => LspInv'
  <1> SUFFICES ASSUME LspInv, [LspNext]_lspVars PROVE LspInv'
    OBVIOUS
  <1>1. CASE RetryTick \/ \E t \in LspStarters : NotInstalled(t)
    BY <1>1, LspQuiet DEF RetryTick, NotInstalled
  <1>2. CASE UNCHANGED lspVars
    BY <1>2, LspQuiet DEF lspVars
  <1> QED
    BY <1>1, <1>2, LookAgainStep, NewClientStep, NewFailsStep, PreferStoredStep, SetClientStep,
       MarkStartingStep, InitializeFailsStep, DeleteFailedStep, InitializedStep, StopCollectStep,
       StopKillStep, StopDeleteStep DEF LspNext

LEMMA LspInvInit == LspInit => LspInv
  <1> SUFFICES ASSUME LspInit PROVE LspInv
    OBVIOUS
  <1>1. LspTypes
    BY LspNumbers DEF LspInit, LspTypes
  <1>2. AloneInv /\ EntryInv
    BY LspNumbers DEF LspInit, AloneInv, EntryInv
  <1>3. ServedInv /\ ServerKnown
    BY LspNumbers DEF LspInit, ServedInv, ServerKnown
  <1> QED
    BY <1>1, <1>2, <1>3 DEF LspInv

LEMMA KnownIsAccounted == LspInv => ServersAccounted
  <1> SUFFICES ASSUME LspInv, NEW c \in LspClients, process[c] = "alive"
               PROVE  \/ c = entry
                      \/ c \in BeingStarted
                      \/ \E w \in Stopping : stopper[w] = [pc |-> "kill", client |-> c]
                      \/ c \in overlapped
                      \/ serverState[c] = "error"
    BY DEF ServersAccounted
  <1>1. LspTypes
    BY DEF LspInv
  <1>2. ASSUME NEW t \in LspStarters, starter[t].client = c
        PROVE  c \in BeingStarted
    BY <1>1, <1>2, BeingStartedHas, LspNumbers
  <1>3. ASSUME NEW w \in LspStoppers, stopper[w].pc = "kill", stopper[w].client = c
        PROVE  w \in Stopping /\ stopper[w] = [pc |-> "kill", client |-> c]
    BY <1>1, <1>3, StopperMember DEF Stopping
  <1> QED
    BY <1>2, <1>3 DEF LspInv, ServerKnown

(* For any number of goroutines that start and stop the server: a live     *)
(* process that neither the map nor a goroutine knows overlapped another   *)
(* start or a stop, or was not ready in time.                              *)
THEOREM RunningServersAreAccounted == LspSpec => []ServersAccounted
  BY LspInvInit, LspInvNext, KnownIsAccounted, PTL DEF LspSpec

-----------------------------------------------------------------------------
(* The MCP clients: two inductive invariants of McpClients, the second on  *)
(* top of the first.                                                       *)

(* What a goroutine may be doing, and the session it may hold there.       *)

McpOps == {"none", "init", "call", "refresh", "disable", "shutdown"}

McpPcs == {"idle", "connect", "list", "offer", "store", "report", "forget", "mark",
           "close", "ping", "use", "announce", "delete", "clear", "disabled"}

McpStates ==
    [state : {"absent", "starting", "connected", "error", "disabled"},
     client : {NoSession} \cup McpSessions]

Uses == [op : McpOps, pc : McpPcs, session : {NoSession} \cup McpSessions]

(* Which points each operation has.                                        *)
AtWork(x) ==
    \/ /\ x.op = "none" /\ x.pc = "idle"
    \/ /\ x.op = "init"
       /\ x.pc \in {"connect", "list", "offer", "store", "report", "forget", "mark", "close"}
    \/ /\ x.op = "call"
       /\ x.pc \in {"ping", "use", "report", "forget", "mark", "connect", "announce", "store"}
    \/ /\ x.op = "refresh" /\ x.pc \in {"list", "offer", "report", "forget", "mark"}
    \/ /\ x.op = "disable" /\ x.pc \in {"close", "delete", "clear", "disabled"}
    \/ /\ x.op = "shutdown" /\ x.pc = "close"

(* A session that its goroutine established and has not stored yet.        *)
Fresh(x) ==
    /\ x.session # NoSession
    /\ \/ x.op = "init" /\ x.pc \in {"list", "offer", "store", "forget", "mark", "close"}
       \/ x.op = "call" /\ x.pc \in {"announce", "store"}

HoldingPcs == {"list", "offer", "store", "report", "ping", "use", "announce"}

(* A goroutine that holds a live session of another's making holds the     *)
(* entry's or a dropped one.                                               *)
SoundUse(x) ==
    /\ AtWork(x)
    /\ x.pc \in HoldingPcs => x.session # NoSession
    /\ x.pc \in {"idle", "connect"} => x.session = NoSession
    /\ x.session <= established
    /\ x.session \in Live =>
         x.session = mcpSession \/ x.session \in dropped \/ Fresh(x)
    /\ x.pc \in {"forget", "mark"} /\ x.op # "init" /\ x.session \in Live =>
         x.session \in dropped
    /\ x.pc \in {"delete", "clear", "disabled"} => x.session \notin Live
    /\ Fresh(x) => x.session # mcpSession

McpTypes ==
    /\ mcpSession \in {NoSession} \cup McpSessions
    /\ mcpState \in McpStates
    /\ offered \in BOOLEAN
    /\ established \in 0 .. MaxMcpSessions
    /\ mcpServer \in [McpSessions -> {"none", "alive", "dead"}]
    /\ user \in [McpUsers -> Uses]
    /\ dropped \subseteq McpSessions
    /\ mixed \in BOOLEAN

EstablishedInv ==
    /\ mcpSession <= established
    /\ \A s \in Live : s <= established

UsesInv == \A u \in McpUsers : SoundUse(user[u])

FreshInv ==
    \A u, v \in McpUsers :
        Fresh(user[u]) /\ Fresh(user[v]) /\ u # v => user[u].session # user[v].session

McpInv == McpTypes /\ EstablishedInv /\ UsesInv /\ FreshInv /\ SessionsAccounted

(* What holds of the states shown while one operation is alone.            *)
Shows ==
    /\ mcpState.state # "starting"
    /\ mcpState.state = "connected" =>
         mcpState.client = mcpSession /\ mcpSession # NoSession
    /\ mcpState.state = "error" => mcpSession = NoSession

Follows(x) ==
    \/ x.pc \in {"ping", "use", "report"}
    \/ x.op = "refresh" /\ x.pc \in {"list", "offer"}

Agreed(x) ==
    /\ x.pc # "report" /\ Follows(x) => Shows
    /\ x.op = "shutdown" => Shows
    /\ Follows(x) => x.session = mcpSession
    /\ x.pc = "mark" => mcpSession = NoSession
    /\ x.op = "init" /\ x.pc = "close" =>
         mcpState.state = "error" /\ mcpSession = NoSession
    /\ x.op = "call" /\ x.pc = "store" =>
         mcpState.state = "connected" /\ mcpState.client = x.session

AgreeInv ==
    ~mixed =>
        /\ \A u, v \in Using : u = v
        /\ \A u \in Using : Agreed(user[u])
        /\ Using = {} => Shows

-----------------------------------------------------------------------------
LEMMA UseMember ==
    ASSUME McpTypes, NEW u \in McpUsers
    PROVE  /\ user[u] \in Uses
           /\ user[u].op \in McpOps
           /\ user[u].pc \in McpPcs
           /\ user[u].session \in {NoSession} \cup McpSessions
  BY DEF McpTypes, Uses

LEMMA McpNumbers == MaxMcpSessions \in Nat /\ NoSession \in Nat /\ McpSessions \subseteq Nat
                    /\ NoSession \notin McpSessions
  BY McpAssumption DEF McpSessions, NoSession

LEMMA GoToUse ==
    ASSUME McpTypes, NEW u \in McpUsers, NEW at \in McpPcs, GoTo(u, at)
    PROVE  \E x \in Uses : /\ user' = [user EXCEPT ![u] = x]
                           /\ x.op = user[u].op /\ x.pc = at
                           /\ x.session = user[u].session
  <1>1. [user[u] EXCEPT !.pc = at] \in Uses
    BY UseMember DEF Uses
  <1> QED  BY <1>1, UseMember DEF GoTo, Uses

LEMMA FinishUse ==
    ASSUME McpTypes, NEW u \in McpUsers, Finish(u)
    PROVE  \E x \in Uses : /\ user' = [user EXCEPT ![u] = x]
                           /\ x.op = "none" /\ x.pc = "idle" /\ x.session = NoSession
  <1>1. NoUse \in Uses
    BY DEF NoUse, Uses, McpOps, McpPcs
  <1> QED  BY <1>1 DEF Finish, NoUse

LEMMA BeginUse ==
    ASSUME McpTypes, NEW u \in McpUsers, NEW op \in McpOps, NEW at \in McpPcs,
           NEW s \in {NoSession} \cup McpSessions, Begin(u, op, at, s)
    PROVE  \E x \in Uses : /\ user' = [user EXCEPT ![u] = x]
                           /\ x.op = op /\ x.pc = at /\ x.session = s
  <1>1. [op |-> op, pc |-> at, session |-> s] \in Uses
    BY DEF Uses
  <1> QED  BY <1>1 DEF Begin

(* Writing one goroutine's use leaves the others'.                         *)
LEMMA OneUse ==
    ASSUME McpTypes, NEW u \in McpUsers, NEW x \in Uses, user' = [user EXCEPT ![u] = x]
    PROVE  /\ user' \in [McpUsers -> Uses]
           /\ user'[u] = x
           /\ \A v \in McpUsers \ {u} : user'[v] = user[v]
  BY DEF McpTypes

-----------------------------------------------------------------------------
(* A use stays sound while sessions only die or are dropped, and while the *)
(* entry passes over no live session that is not dropped.                  *)
LEMMA SoundKept ==
    ASSUME McpTypes, NEW x \in Uses, SoundUse(x),
           established \in Nat, established' \in Nat, established <= established',
           \A s \in Live' : s \in Live \/ ~(s <= established),
           Live' \cap dropped \subseteq dropped',
           mcpSession \in Live' => mcpSession = mcpSession' \/ mcpSession \in dropped',
           Fresh(x) => x.session # mcpSession'
    PROVE  SoundUse(x)'
  <1>0. x.session \in {NoSession} \cup McpSessions
    BY DEF Uses
  <1>a. x.session \in Nat
    BY <1>0, McpNumbers
  <1>b. x.session <= established
    BY DEF SoundUse
  <1>1. x.session \in Nat /\ x.session <= established'
    BY <1>a, <1>b
  <1>2. x.session \in Live' => x.session \in Live
    BY DEF SoundUse
  <1> QED  BY <1>1, <1>2 DEF SoundUse, AtWork

(* A step of one goroutine: what it must show of its own use, of the entry *)
(* and of the session it lets go.                                          *)
LEMMA McpStep ==
    ASSUME McpInv, NEW u \in McpUsers, NEW x \in Uses, user' = [user EXCEPT ![u] = x],
           McpTypes', established <= established', mcpSession' <= established',
           \A s \in Live' : \/ s \in Live
                            \/ /\ s = established' /\ ~(s <= established)
                               /\ x.pc # "idle" /\ x.session = s,
           Live' \cap dropped \subseteq dropped',
           mcpSession \in Live' => mcpSession = mcpSession' \/ mcpSession \in dropped',
           \A v \in McpUsers \ {u} : Fresh(user[v]) =>
               /\ user[v].session # mcpSession'
               /\ Fresh(x) => user[v].session # x.session,
           SoundUse(x)',
           user[u].session \in Live' =>
               \/ user[u].session \in {mcpSession'} \cup dropped'
               \/ x.pc # "idle" /\ x.session = user[u].session
    PROVE  McpInv'
  <1>1. McpTypes /\ EstablishedInv /\ UsesInv /\ FreshInv /\ SessionsAccounted
    BY DEF McpInv
  <1>2. /\ user'[u] = x
        /\ \A v \in McpUsers \ {u} : user'[v] = user[v]
    BY <1>1, OneUse
  <1>3. established \in Nat /\ established' \in Nat
    BY <1>1, McpNumbers DEF McpTypes
  <1>4. EstablishedInv'
    <2>1. ASSUME NEW s \in Live'  PROVE s <= established'
      <3>1. s \in McpSessions
        BY DEF Live
      <3>2. CASE s \in Live
        BY <1>1, <1>3, <3>1, <3>2, McpNumbers DEF EstablishedInv
      <3>3. CASE s = established'
        BY <3>3, <1>3
      <3> QED  BY <3>2, <3>3
    <2> QED  BY <2>1 DEF EstablishedInv
  <1>5. UsesInv'
    <2>1. ASSUME NEW v \in McpUsers, v # u  PROVE SoundUse(user[v])'
      <3>1. user[v] \in Uses /\ SoundUse(user[v])
        BY <1>1, UseMember DEF UsesInv
      <3>2. Fresh(user[v]) => user[v].session # mcpSession'
        BY <2>1
      <3>3. ASSUME NEW y \in Uses, y = user[v]  PROVE SoundUse(y)'
        BY <3>1, <3>2, <3>3, <1>1, <1>3, SoundKept
      <3>4. user'[v] = user[v]
        BY <1>2, <2>1
      <3> QED  BY <3>1, <3>3, <3>4 DEF SoundUse
    <2>2. SoundUse(user[u])'
      BY <1>2 DEF SoundUse
    <2> QED  BY <2>1, <2>2 DEF UsesInv
  <1>6. FreshInv'
    BY <1>1, <1>2 DEF FreshInv
  <1>7. SessionsAccounted'
    <2> SUFFICES ASSUME NEW s \in Live'
                 PROVE  s = mcpSession' \/ s \in InHand' \/ s \in dropped'
      BY DEF SessionsAccounted
    <2>1. CASE s \notin Live
      <3>1. x.pc # "idle" /\ x.session = s
        BY <2>1
      <3> QED  BY <3>1, <1>2 DEF InHand, Using
    <2>2. CASE s \in Live /\ s = mcpSession
      BY <2>2
    <2>3. CASE s \in dropped
      BY <2>3
    <2>4. CASE s \in Live /\ s \in InHand
      <3>1. PICK v \in Using : s = user[v].session
        BY <2>4 DEF InHand
      <3>2. CASE v = u
        BY <3>1, <3>2, <1>2 DEF InHand, Using
      <3>3. CASE v # u
        BY <3>1, <3>3, <1>2 DEF InHand, Using
      <3> QED  BY <3>2, <3>3
    <2> QED  BY <2>1, <2>2, <2>3, <2>4, <1>1 DEF SessionsAccounted
  <1> QED  BY <1>4, <1>5, <1>6, <1>7 DEF McpInv

(* A step that changes no session and no entry.                            *)
LEMMA McpQuiet ==
    ASSUME McpInv, NEW u \in McpUsers, NEW x \in Uses, user' = [user EXCEPT ![u] = x],
           UNCHANGED <<mcpSession, established, mcpServer, dropped>>,
           mcpState' \in McpStates, offered' \in BOOLEAN, mixed' \in BOOLEAN,
           SoundUse(x),
           Fresh(x) => Fresh(user[u]) /\ x.session = user[u].session,
           user[u].session \in Live =>
               \/ user[u].session \in {mcpSession} \cup dropped
               \/ x.pc # "idle" /\ x.session = user[u].session
    PROVE  McpInv'
  <1>1. McpTypes /\ EstablishedInv /\ UsesInv /\ FreshInv
    BY DEF McpInv
  <1>2. McpTypes'
    BY <1>1, OneUse DEF McpTypes
  <1>3. Live' = Live
    BY DEF Live
  <1>4. SoundUse(x)'
    BY <1>3 DEF SoundUse, AtWork
  <1>5. \A v \in McpUsers \ {u} : Fresh(user[v]) =>
            /\ user[v].session # mcpSession'
            /\ Fresh(x) => user[v].session # x.session
    BY <1>1 DEF UsesInv, SoundUse, FreshInv
  <1>6. established <= established' /\ mcpSession' <= established'
    BY <1>1, McpNumbers DEF McpTypes, EstablishedInv
  <1> QED  BY <1>2, <1>3, <1>4, <1>5, <1>6, McpStep


-----------------------------------------------------------------------------
LEMMA InitClientMcp ==
    ASSUME McpInv, NEW u \in McpUsers, InitClient(u)
    PROVE  McpInv'
  <1>1. McpTypes /\ UsesInv
    BY DEF McpInv
  <1>2. PICK x \in Uses : /\ user' = [user EXCEPT ![u] = x]
                         /\ x.op = "init" /\ x.pc = "connect" /\ x.session = NoSession
    BY <1>1, BeginUse DEF InitClient, McpOps, McpPcs
  <1>3. UNCHANGED <<mcpSession, established, mcpServer, dropped>>
    BY DEF InitClient
  <1>4. mcpState' \in McpStates /\ offered' \in BOOLEAN /\ mixed' \in BOOLEAN
    BY <1>1 DEF InitClient, Begin, McpTypes, McpStates, Shown
  <1>5. user[u].session = NoSession
    BY <1>1 DEF InitClient, Begin, UserAt, UsesInv, SoundUse
  <1>6. SoundUse(x) /\ ~Fresh(x)
    BY <1>1, <1>2, McpNumbers DEF SoundUse, AtWork, Fresh, HoldingPcs, Live, McpTypes, NoSession
  <1> QED  BY <1>2, <1>3, <1>4, <1>5, <1>6, McpQuiet, McpNumbers DEF Live

LEMMA InitDisabledMcp ==
    ASSUME McpInv, NEW u \in McpUsers, InitDisabled(u)
    PROVE  McpInv'
  <1>1. McpTypes /\ EstablishedInv /\ UsesInv /\ FreshInv /\ SessionsAccounted
    BY DEF McpInv
  <1>2. UNCHANGED <<mcpSession, offered, established, mcpServer, user, dropped>>
    BY DEF InitDisabled
  <1>3. McpTypes'
    BY <1>1, <1>2 DEF InitDisabled, McpTypes, McpStates, Shown
  <1> QED  BY <1>1, <1>2, <1>3
           DEF McpInv, EstablishedInv, UsesInv, SoundUse, FreshInv, SessionsAccounted,
               Live, InHand, Using

LEMMA LookUpMcp ==
    ASSUME McpInv, NEW u \in McpUsers, LookUp(u)
    PROVE  McpInv'
  <1>1. McpTypes /\ UsesInv /\ EstablishedInv
    BY DEF McpInv
  <1>0. mcpSession \in {NoSession} \cup McpSessions /\ mcpSession # NoSession
    BY <1>1 DEF McpTypes, LookUp
  <1>2. PICK x \in Uses : /\ user' = [user EXCEPT ![u] = x] /\ x.session = mcpSession
                         /\ \/ x.op = "call" /\ x.pc = "ping"
                            \/ x.op = "refresh" /\ x.pc = "list"
                            \/ x.op = "disable" /\ x.pc = "close"
                            \/ x.op = "shutdown" /\ x.pc = "close"
    <2>1. CASE Begin(u, "call", "ping", mcpSession)
      BY <1>1, <1>0, <2>1, BeginUse DEF McpOps, McpPcs
    <2>2. CASE Begin(u, "refresh", "list", mcpSession)
      BY <1>1, <1>0, <2>2, BeginUse DEF McpOps, McpPcs
    <2>3. CASE Begin(u, "disable", "close", mcpSession)
      BY <1>1, <1>0, <2>3, BeginUse DEF McpOps, McpPcs
    <2>4. CASE Begin(u, "shutdown", "close", mcpSession)
      BY <1>1, <1>0, <2>4, BeginUse DEF McpOps, McpPcs
    <2> QED  BY <2>1, <2>2, <2>3, <2>4 DEF LookUp
  <1>3. UNCHANGED <<mcpSession, established, mcpServer, dropped>>
    BY DEF LookUp
  <1>4. mcpState' \in McpStates /\ offered' \in BOOLEAN /\ mixed' \in BOOLEAN
    BY <1>1 DEF LookUp, Begin, McpTypes
  <1>5. user[u].session = NoSession
    BY <1>1 DEF LookUp, Begin, UserAt, UsesInv, SoundUse
  <1>6. SoundUse(x) /\ ~Fresh(x)
    BY <1>1, <1>0, <1>2 DEF SoundUse, AtWork, Fresh, HoldingPcs, EstablishedInv
  <1> QED  BY <1>2, <1>3, <1>4, <1>5, <1>6, McpQuiet, McpNumbers DEF Live

LEMMA DisableAbsentMcp ==
    ASSUME McpInv, NEW u \in McpUsers, DisableAbsent(u)
    PROVE  McpInv'
  <1>1. McpTypes /\ UsesInv
    BY DEF McpInv
  <1>2. PICK x \in Uses : /\ user' = [user EXCEPT ![u] = x]
                         /\ x.op = "disable" /\ x.pc = "clear" /\ x.session = NoSession
    BY <1>1, BeginUse DEF DisableAbsent, McpOps, McpPcs
  <1>3. UNCHANGED <<mcpSession, established, mcpServer, dropped>>
    BY DEF DisableAbsent
  <1>4. mcpState' \in McpStates /\ offered' \in BOOLEAN /\ mixed' \in BOOLEAN
    BY <1>1 DEF DisableAbsent, Begin, McpTypes
  <1>5. user[u].session = NoSession
    BY <1>1 DEF DisableAbsent, Begin, UserAt, UsesInv, SoundUse
  <1>6. SoundUse(x) /\ ~Fresh(x)
    BY <1>1, <1>2, McpNumbers DEF SoundUse, AtWork, Fresh, HoldingPcs, Live, McpTypes, NoSession
  <1> QED  BY <1>2, <1>3, <1>4, <1>5, <1>6, McpQuiet, McpNumbers DEF Live

LEMMA ConnectFailsMcp ==
    ASSUME McpInv, NEW u \in McpUsers, ConnectFails(u)
    PROVE  McpInv'
  <1>1. McpTypes /\ SoundUse(user[u])
    BY DEF McpInv, UsesInv
  <1>2. PICK x \in Uses : /\ user' = [user EXCEPT ![u] = x]
                         /\ x.op = user[u].op /\ x.session = user[u].session /\ x.pc = "forget"
    BY <1>1, GoToUse DEF ConnectFails, McpPcs
  <1>3. UNCHANGED <<mcpSession, established, mcpServer, dropped>>
    BY DEF ConnectFails
  <1>4. mcpState' \in McpStates /\ offered' \in BOOLEAN /\ mixed' \in BOOLEAN
    BY <1>1, UseMember DEF ConnectFails, McpTypes, McpStates, Shown
  <1>5. SoundUse(x)
    BY <1>1, <1>2, McpNumbers
    DEF ConnectFails, UserAt, SoundUse, AtWork, Fresh, HoldingPcs, McpTypes, Live, NoSession
  <1>6. /\ Fresh(x) => Fresh(user[u]) /\ x.session = user[u].session
        /\ user[u].session \in Live =>
               \/ user[u].session \in {mcpSession} \cup dropped
               \/ x.pc # "idle" /\ x.session = user[u].session
    BY <1>1, <1>2, McpNumbers DEF ConnectFails, UserAt, SoundUse, AtWork, Fresh, HoldingPcs, Live
  <1> QED  BY <1>2, <1>3, <1>4, <1>5, <1>6, McpQuiet

LEMMA MarkErrorMcp ==
    ASSUME McpInv, NEW u \in McpUsers, MarkError(u)
    PROVE  McpInv'
  <1>1. McpTypes /\ SoundUse(user[u])
    BY DEF McpInv, UsesInv
  <1>2. PICK x \in Uses : /\ user' = [user EXCEPT ![u] = x]
                         /\ \/ /\ x.pc = "connect" /\ x.session = NoSession
                               /\ x.op = "call" /\ user[u].op = "call"
                            \/ /\ x.pc = "close" /\ x.session = user[u].session
                               /\ x.op = "init" /\ user[u].op = "init"
                               /\ user[u].session # NoSession
                            \/ /\ x.op = "none" /\ x.pc = "idle" /\ x.session = NoSession
                               /\ user[u].session = NoSession \/ user[u].op = "refresh"
    <2>1. CASE user[u].op = "call" /\ user[u].session # NoSession /\
               user' = [user EXCEPT ![u].pc = "connect", ![u].session = NoSession]
      <3>1. [user[u] EXCEPT !.pc = "connect", !.session = NoSession] \in Uses
        BY <1>1, UseMember DEF Uses, McpPcs
      <3> QED  BY <1>1, <2>1, <3>1, UseMember DEF Uses
    <2>2. CASE user[u].session # NoSession /\ user[u].op = "init" /\ GoTo(u, "close")
      BY <1>1, <2>2, GoToUse DEF McpPcs
    <2>3. CASE (user[u].session = NoSession \/ user[u].op = "refresh") /\ Finish(u)
      BY <1>1, <2>3, FinishUse
    <2> QED  BY <2>1, <2>2, <2>3 DEF MarkError
  <1>3. UNCHANGED <<mcpSession, established, mcpServer, dropped>>
    BY DEF MarkError
  <1>4. mcpState' \in McpStates /\ offered' \in BOOLEAN /\ mixed' \in BOOLEAN
    BY <1>1, UseMember DEF MarkError, McpTypes, McpStates, Shown
  <1>5. SoundUse(x)
    BY <1>1, <1>2, McpNumbers
    DEF MarkError, UserAt, SoundUse, AtWork, Fresh, HoldingPcs, McpTypes, Live, NoSession
  <1>6. /\ Fresh(x) => Fresh(user[u]) /\ x.session = user[u].session
        /\ user[u].session \in Live =>
               \/ user[u].session \in {mcpSession} \cup dropped
               \/ x.pc # "idle" /\ x.session = user[u].session
    BY <1>1, <1>2, McpNumbers DEF MarkError, UserAt, SoundUse, AtWork, Fresh, HoldingPcs, Live
  <1> QED  BY <1>2, <1>3, <1>4, <1>5, <1>6, McpQuiet

LEMMA ListedMcp ==
    ASSUME McpInv, NEW u \in McpUsers, Listed(u)
    PROVE  McpInv'
  <1>1. McpTypes /\ SoundUse(user[u])
    BY DEF McpInv, UsesInv
  <1>2. PICK x \in Uses : /\ user' = [user EXCEPT ![u] = x]
                         /\ x.op = user[u].op /\ x.session = user[u].session /\ x.pc = "offer"
    BY <1>1, GoToUse DEF Listed, McpPcs
  <1>3. UNCHANGED <<mcpSession, established, mcpServer, dropped>>
    BY DEF Listed
  <1>4. mcpState' \in McpStates /\ offered' \in BOOLEAN /\ mixed' \in BOOLEAN
    BY <1>1, UseMember DEF Listed, McpTypes, McpStates, Shown
  <1>5. SoundUse(x)
    BY <1>1, <1>2, McpNumbers
    DEF Listed, UserAt, SoundUse, AtWork, Fresh, HoldingPcs, McpTypes, Live, NoSession
  <1>6. /\ Fresh(x) => Fresh(user[u]) /\ x.session = user[u].session
        /\ user[u].session \in Live =>
               \/ user[u].session \in {mcpSession} \cup dropped
               \/ x.pc # "idle" /\ x.session = user[u].session
    BY <1>1, <1>2, McpNumbers DEF Listed, UserAt, SoundUse, AtWork, Fresh, HoldingPcs, Live
  <1> QED  BY <1>2, <1>3, <1>4, <1>5, <1>6, McpQuiet

LEMMA UpdateToolsMcp ==
    ASSUME McpInv, NEW u \in McpUsers, UpdateTools(u)
    PROVE  McpInv'
  <1>1. McpTypes /\ SoundUse(user[u])
    BY DEF McpInv, UsesInv
  <1>2. PICK x \in Uses : /\ user' = [user EXCEPT ![u] = x]
                         /\ /\ x.op = user[u].op /\ x.session = user[u].session
                         /\ x.pc = IF user[u].op = "init" THEN "store" ELSE "report"
    BY <1>1, GoToUse DEF UpdateTools, McpPcs
  <1>3. UNCHANGED <<mcpSession, established, mcpServer, dropped>>
    BY DEF UpdateTools
  <1>4. mcpState' \in McpStates /\ offered' \in BOOLEAN /\ mixed' \in BOOLEAN
    BY <1>1, UseMember DEF UpdateTools, McpTypes, McpStates, Shown
  <1>5. SoundUse(x)
    BY <1>1, <1>2, McpNumbers
    DEF UpdateTools, UserAt, SoundUse, AtWork, Fresh, HoldingPcs, McpTypes, Live, NoSession
  <1>6. /\ Fresh(x) => Fresh(user[u]) /\ x.session = user[u].session
        /\ user[u].session \in Live =>
               \/ user[u].session \in {mcpSession} \cup dropped
               \/ x.pc # "idle" /\ x.session = user[u].session
    BY <1>1, <1>2, McpNumbers DEF UpdateTools, UserAt, SoundUse, AtWork, Fresh, HoldingPcs, Live
  <1> QED  BY <1>2, <1>3, <1>4, <1>5, <1>6, McpQuiet

LEMMA ReportMcp ==
    ASSUME McpInv, NEW u \in McpUsers, Report(u)
    PROVE  McpInv'
  <1>1. McpTypes /\ SoundUse(user[u])
    BY DEF McpInv, UsesInv
  <1>2. PICK x \in Uses : /\ user' = [user EXCEPT ![u] = x]
                         /\ x.op = "none" /\ x.pc = "idle" /\ x.session = NoSession
    BY <1>1, FinishUse DEF Report
  <1>3. UNCHANGED <<mcpSession, established, mcpServer, dropped>>
    BY DEF Report
  <1>4. mcpState' \in McpStates /\ offered' \in BOOLEAN /\ mixed' \in BOOLEAN
    BY <1>1, UseMember DEF Report, McpTypes, McpStates, Shown
  <1>5. SoundUse(x)
    BY <1>1, <1>2, McpNumbers
    DEF Report, UserAt, SoundUse, AtWork, Fresh, HoldingPcs, McpTypes, Live, NoSession
  <1>6. /\ Fresh(x) => Fresh(user[u]) /\ x.session = user[u].session
        /\ user[u].session \in Live =>
               \/ user[u].session \in {mcpSession} \cup dropped
               \/ x.pc # "idle" /\ x.session = user[u].session
    BY <1>1, <1>2, McpNumbers DEF Report, UserAt, SoundUse, AtWork, Fresh, HoldingPcs, Live
  <1> QED  BY <1>2, <1>3, <1>4, <1>5, <1>6, McpQuiet

LEMMA PingSucceedsMcp ==
    ASSUME McpInv, NEW u \in McpUsers, PingSucceeds(u)
    PROVE  McpInv'
  <1>1. McpTypes /\ SoundUse(user[u])
    BY DEF McpInv, UsesInv
  <1>2. PICK x \in Uses : /\ user' = [user EXCEPT ![u] = x]
                         /\ x.op = user[u].op /\ x.session = user[u].session /\ x.pc = "use"
    BY <1>1, GoToUse DEF PingSucceeds, McpPcs
  <1>3. UNCHANGED <<mcpSession, established, mcpServer, dropped>>
    BY DEF PingSucceeds
  <1>4. mcpState' \in McpStates /\ offered' \in BOOLEAN /\ mixed' \in BOOLEAN
    BY <1>1, UseMember DEF PingSucceeds, McpTypes, McpStates, Shown
  <1>5. SoundUse(x)
    BY <1>1, <1>2, McpNumbers
    DEF PingSucceeds, UserAt, SoundUse, AtWork, Fresh, HoldingPcs, McpTypes, Live, NoSession
  <1>6. /\ Fresh(x) => Fresh(user[u]) /\ x.session = user[u].session
        /\ user[u].session \in Live =>
               \/ user[u].session \in {mcpSession} \cup dropped
               \/ x.pc # "idle" /\ x.session = user[u].session
    BY <1>1, <1>2, McpNumbers DEF PingSucceeds, UserAt, SoundUse, AtWork, Fresh, HoldingPcs, Live
  <1> QED  BY <1>2, <1>3, <1>4, <1>5, <1>6, McpQuiet

LEMMA AnnounceRenewedMcp ==
    ASSUME McpInv, NEW u \in McpUsers, AnnounceRenewed(u)
    PROVE  McpInv'
  <1>1. McpTypes /\ SoundUse(user[u])
    BY DEF McpInv, UsesInv
  <1>2. PICK x \in Uses : /\ user' = [user EXCEPT ![u] = x]
                         /\ x.op = user[u].op /\ x.session = user[u].session /\ x.pc = "store"
    BY <1>1, GoToUse DEF AnnounceRenewed, McpPcs
  <1>3. UNCHANGED <<mcpSession, established, mcpServer, dropped>>
    BY DEF AnnounceRenewed
  <1>4. mcpState' \in McpStates /\ offered' \in BOOLEAN /\ mixed' \in BOOLEAN
    BY <1>1, UseMember DEF AnnounceRenewed, McpTypes, McpStates, Shown
  <1>5. SoundUse(x)
    BY <1>1, <1>2, McpNumbers
    DEF AnnounceRenewed, UserAt, SoundUse, AtWork, Fresh, HoldingPcs, McpTypes, Live, NoSession
  <1>6. /\ Fresh(x) => Fresh(user[u]) /\ x.session = user[u].session
        /\ user[u].session \in Live =>
               \/ user[u].session \in {mcpSession} \cup dropped
               \/ x.pc # "idle" /\ x.session = user[u].session
    BY <1>1, <1>2, McpNumbers DEF AnnounceRenewed, UserAt, SoundUse, AtWork, Fresh, HoldingPcs, Live
  <1> QED  BY <1>2, <1>3, <1>4, <1>5, <1>6, McpQuiet

LEMMA CallReturnsMcp ==
    ASSUME McpInv, NEW u \in McpUsers, CallReturns(u)
    PROVE  McpInv'
  <1>1. McpTypes /\ SoundUse(user[u])
    BY DEF McpInv, UsesInv
  <1>2. PICK x \in Uses : /\ user' = [user EXCEPT ![u] = x]
                         /\ \/ x.op = "none" /\ x.pc = "idle" /\ x.session = NoSession
                            \/ x.op = user[u].op /\ x.pc = "report" /\ x.session = user[u].session
    BY <1>1, FinishUse, GoToUse DEF CallReturns, McpPcs
  <1>3. UNCHANGED <<mcpSession, established, mcpServer, dropped>>
    BY DEF CallReturns
  <1>4. mcpState' \in McpStates /\ offered' \in BOOLEAN /\ mixed' \in BOOLEAN
    BY <1>1, UseMember DEF CallReturns, McpTypes, McpStates, Shown
  <1>5. SoundUse(x)
    BY <1>1, <1>2, McpNumbers
    DEF CallReturns, UserAt, SoundUse, AtWork, Fresh, HoldingPcs, McpTypes, Live, NoSession
  <1>6. /\ Fresh(x) => Fresh(user[u]) /\ x.session = user[u].session
        /\ user[u].session \in Live =>
               \/ user[u].session \in {mcpSession} \cup dropped
               \/ x.pc # "idle" /\ x.session = user[u].session
    BY <1>1, <1>2, McpNumbers DEF CallReturns, UserAt, SoundUse, AtWork, Fresh, HoldingPcs, Live
  <1> QED  BY <1>2, <1>3, <1>4, <1>5, <1>6, McpQuiet

LEMMA ClearToolsMcp ==
    ASSUME McpInv, NEW u \in McpUsers, ClearTools(u)
    PROVE  McpInv'
  <1>1. McpTypes /\ SoundUse(user[u])
    BY DEF McpInv, UsesInv
  <1>2. PICK x \in Uses : /\ user' = [user EXCEPT ![u] = x]
                         /\ x.op = user[u].op /\ x.session = user[u].session /\ x.pc = "disabled"
    BY <1>1, GoToUse DEF ClearTools, McpPcs
  <1>3. UNCHANGED <<mcpSession, established, mcpServer, dropped>>
    BY DEF ClearTools
  <1>4. mcpState' \in McpStates /\ offered' \in BOOLEAN /\ mixed' \in BOOLEAN
    BY <1>1, UseMember DEF ClearTools, McpTypes, McpStates, Shown
  <1>5. SoundUse(x)
    BY <1>1, <1>2, McpNumbers
    DEF ClearTools, UserAt, SoundUse, AtWork, Fresh, HoldingPcs, McpTypes, Live, NoSession
  <1>6. /\ Fresh(x) => Fresh(user[u]) /\ x.session = user[u].session
        /\ user[u].session \in Live =>
               \/ user[u].session \in {mcpSession} \cup dropped
               \/ x.pc # "idle" /\ x.session = user[u].session
    BY <1>1, <1>2, McpNumbers DEF ClearTools, UserAt, SoundUse, AtWork, Fresh, HoldingPcs, Live
  <1> QED  BY <1>2, <1>3, <1>4, <1>5, <1>6, McpQuiet

LEMMA MarkDisabledMcp ==
    ASSUME McpInv, NEW u \in McpUsers, MarkDisabled(u)
    PROVE  McpInv'
  <1>1. McpTypes /\ SoundUse(user[u])
    BY DEF McpInv, UsesInv
  <1>2. PICK x \in Uses : /\ user' = [user EXCEPT ![u] = x]
                         /\ x.op = "none" /\ x.pc = "idle" /\ x.session = NoSession
    BY <1>1, FinishUse DEF MarkDisabled
  <1>3. UNCHANGED <<mcpSession, established, mcpServer, dropped>>
    BY DEF MarkDisabled
  <1>4. mcpState' \in McpStates /\ offered' \in BOOLEAN /\ mixed' \in BOOLEAN
    BY <1>1, UseMember DEF MarkDisabled, McpTypes, McpStates, Shown
  <1>5. SoundUse(x)
    BY <1>1, <1>2, McpNumbers
    DEF MarkDisabled, UserAt, SoundUse, AtWork, Fresh, HoldingPcs, McpTypes, Live, NoSession
  <1>6. /\ Fresh(x) => Fresh(user[u]) /\ x.session = user[u].session
        /\ user[u].session \in Live =>
               \/ user[u].session \in {mcpSession} \cup dropped
               \/ x.pc # "idle" /\ x.session = user[u].session
    BY <1>1, <1>2, McpNumbers DEF MarkDisabled, UserAt, SoundUse, AtWork, Fresh, HoldingPcs, Live
  <1> QED  BY <1>2, <1>3, <1>4, <1>5, <1>6, McpQuiet


-----------------------------------------------------------------------------
(* An entry that is overwritten or deleted was dropped, or is dead.        *)
LEMMA EntryPut ==
    ASSUME McpInv, NEW u \in McpUsers, NEW s \in {NoSession} \cup McpSessions,
           PutSession(u, s), UNCHANGED mcpServer,
           user[u].pc \in {"forget", "store", "delete"}
    PROVE  /\ mcpSession \in Live' => mcpSession \in dropped'
           /\ Live' \cap dropped \subseteq dropped'
           /\ Live' = Live
           /\ dropped \subseteq dropped' /\ dropped' \subseteq McpSessions
  <1>1. McpTypes /\ SoundUse(user[u])
    BY DEF McpInv, UsesInv
  <1>2. Live' = Live /\ dropped' = dropped \cup (({mcpSession} \ {user[u].session}) \cap Live)
    BY DEF Live, PutSession, Drop
  <1>3. mcpSession \in Live /\ user[u].session = mcpSession => mcpSession \in dropped
    BY <1>1, McpNumbers DEF SoundUse, AtWork, Fresh, HoldingPcs, Live
  <1>4. Live \subseteq McpSessions
    BY DEF Live
  <1> QED  BY <1>1, <1>2, <1>3, <1>4 DEF McpTypes

LEMMA ForgetMcp ==
    ASSUME McpInv, NEW u \in McpUsers, Forget(u)
    PROVE  McpInv'
  <1>1. McpTypes /\ SoundUse(user[u]) /\ EstablishedInv /\ UsesInv /\ FreshInv
    BY DEF McpInv, UsesInv
  <1>2. PICK x \in Uses : /\ user' = [user EXCEPT ![u] = x]
                         /\ x.op = user[u].op /\ x.session = user[u].session
                         /\ x.pc = "mark"
    BY <1>1, GoToUse DEF Forget, McpPcs
  <1>3. /\ mcpSession' = NoSession /\ NoSession \in {NoSession} \cup McpSessions
        /\ established' = established /\ established \in Nat
        /\ UNCHANGED <<mcpState, offered, mcpServer, mixed>>
    BY <1>1, UseMember, McpNumbers DEF Forget, PutSession, McpTypes
  <1>4. /\ mcpSession \in Live' => mcpSession \in dropped'
        /\ Live' \cap dropped \subseteq dropped'
        /\ Live' = Live
        /\ dropped \subseteq dropped' /\ dropped' \subseteq McpSessions
    BY <1>1, <1>3, EntryPut DEF Forget, UserAt
  <1>5. McpTypes'
    BY <1>1, <1>2, <1>3, <1>4, OneUse DEF McpTypes
  <1>6. established <= established' /\ mcpSession' <= established'
    BY <1>1, <1>3, McpNumbers DEF SoundUse, NoSession
  <1>7. SoundUse(x)'
    BY <1>1, <1>2, <1>3, <1>4, McpNumbers
    DEF Forget, UserAt, SoundUse, AtWork, Fresh, HoldingPcs
  <1>8. \A v \in McpUsers \ {u} : Fresh(user[v]) =>
            /\ user[v].session # mcpSession'
            /\ Fresh(x) => user[v].session # x.session
    BY <1>1, <1>2, <1>3, McpNumbers
    DEF Forget, UserAt, UsesInv, SoundUse, AtWork, FreshInv, Fresh, HoldingPcs
  <1>9. user[u].session \in Live' => x.pc # "idle" /\ x.session = user[u].session
    BY <1>2
  <1> QED  BY <1>2, <1>4, <1>5, <1>6, <1>7, <1>8, <1>9, McpStep

LEMMA StoreSessionMcp ==
    ASSUME McpInv, NEW u \in McpUsers, StoreSession(u)
    PROVE  McpInv'
  <1>1. McpTypes /\ SoundUse(user[u]) /\ EstablishedInv /\ UsesInv /\ FreshInv
    BY DEF McpInv, UsesInv
  <1>2. PICK x \in Uses : /\ user' = [user EXCEPT ![u] = x]
                         /\ x.op = user[u].op /\ x.session = user[u].session
                         /\ x.pc = IF user[u].op = "init" THEN "report" ELSE "use"
    BY <1>1, GoToUse DEF StoreSession, McpPcs
  <1>3. /\ mcpSession' = user[u].session /\ user[u].session \in {NoSession} \cup McpSessions
        /\ established' = established /\ established \in Nat
        /\ UNCHANGED <<mcpState, offered, mcpServer, mixed>>
    BY <1>1, UseMember, McpNumbers DEF StoreSession, PutSession, McpTypes
  <1>4. /\ mcpSession \in Live' => mcpSession \in dropped'
        /\ Live' \cap dropped \subseteq dropped'
        /\ Live' = Live
        /\ dropped \subseteq dropped' /\ dropped' \subseteq McpSessions
    BY <1>1, <1>3, EntryPut DEF StoreSession, UserAt
  <1>5. McpTypes'
    BY <1>1, <1>2, <1>3, <1>4, OneUse DEF McpTypes
  <1>6. established <= established' /\ mcpSession' <= established'
    BY <1>1, <1>3, McpNumbers DEF SoundUse, NoSession
  <1>7. SoundUse(x)'
    BY <1>1, <1>2, <1>3, <1>4, McpNumbers
    DEF StoreSession, UserAt, SoundUse, AtWork, Fresh, HoldingPcs
  <1>8. \A v \in McpUsers \ {u} : Fresh(user[v]) =>
            /\ user[v].session # mcpSession'
            /\ Fresh(x) => user[v].session # x.session
    BY <1>1, <1>2, <1>3, McpNumbers
    DEF StoreSession, UserAt, UsesInv, SoundUse, AtWork, FreshInv, Fresh, HoldingPcs
  <1>9. user[u].session \in Live' => x.pc # "idle" /\ x.session = user[u].session
    BY <1>2
  <1> QED  BY <1>2, <1>4, <1>5, <1>6, <1>7, <1>8, <1>9, McpStep

LEMMA DeleteSessionMcp ==
    ASSUME McpInv, NEW u \in McpUsers, DeleteSession(u)
    PROVE  McpInv'
  <1>1. McpTypes /\ SoundUse(user[u]) /\ EstablishedInv /\ UsesInv /\ FreshInv
    BY DEF McpInv, UsesInv
  <1>2. PICK x \in Uses : /\ user' = [user EXCEPT ![u] = x]
                         /\ x.op = user[u].op /\ x.session = user[u].session
                         /\ x.pc = "clear"
    BY <1>1, GoToUse DEF DeleteSession, McpPcs
  <1>3. /\ mcpSession' = NoSession /\ NoSession \in {NoSession} \cup McpSessions
        /\ established' = established /\ established \in Nat
        /\ UNCHANGED <<mcpState, offered, mcpServer, mixed>>
    BY <1>1, UseMember, McpNumbers DEF DeleteSession, PutSession, McpTypes
  <1>4. /\ mcpSession \in Live' => mcpSession \in dropped'
        /\ Live' \cap dropped \subseteq dropped'
        /\ Live' = Live
        /\ dropped \subseteq dropped' /\ dropped' \subseteq McpSessions
    BY <1>1, <1>3, EntryPut DEF DeleteSession, UserAt
  <1>5. McpTypes'
    BY <1>1, <1>2, <1>3, <1>4, OneUse DEF McpTypes
  <1>6. established <= established' /\ mcpSession' <= established'
    BY <1>1, <1>3, McpNumbers DEF SoundUse, NoSession
  <1>7. SoundUse(x)'
    BY <1>1, <1>2, <1>3, <1>4, McpNumbers
    DEF DeleteSession, UserAt, SoundUse, AtWork, Fresh, HoldingPcs
  <1>8. \A v \in McpUsers \ {u} : Fresh(user[v]) =>
            /\ user[v].session # mcpSession'
            /\ Fresh(x) => user[v].session # x.session
    BY <1>1, <1>2, <1>3, McpNumbers
    DEF DeleteSession, UserAt, UsesInv, SoundUse, AtWork, FreshInv, Fresh, HoldingPcs
  <1>9. user[u].session \in Live' => x.pc # "idle" /\ x.session = user[u].session
    BY <1>2
  <1> QED  BY <1>2, <1>4, <1>5, <1>6, <1>7, <1>8, <1>9, McpStep

LEMMA ListFailsMcp ==
    ASSUME McpInv, NEW u \in McpUsers, ListFails(u)
    PROVE  McpInv'
  <1>1. McpTypes /\ SoundUse(user[u]) /\ EstablishedInv /\ UsesInv /\ FreshInv
    BY DEF McpInv, UsesInv
  <1>2. PICK x \in Uses : /\ user' = [user EXCEPT ![u] = x]
                         /\ x.op = user[u].op /\ x.session = user[u].session
                         /\ x.pc = "forget"
    BY <1>1, GoToUse DEF ListFails, McpPcs
  <1>3. /\ UNCHANGED <<mcpSession, established, mcpState, offered, mcpServer, mixed>>
        /\ established \in Nat
    BY <1>1, McpNumbers DEF ListFails, McpTypes
  <1>4. /\ Live' = Live /\ Live \subseteq McpSessions
        /\ dropped \subseteq dropped' /\ dropped' \subseteq dropped \cup Live
        /\ x.op # "init" /\ x.session \in Live => x.session \in dropped'
    BY <1>1, <1>2, <1>3 DEF ListFails, UserAt, Drop, Live, SoundUse, AtWork
  <1>5. McpTypes'
    BY <1>1, <1>2, <1>3, <1>4, OneUse DEF McpTypes
  <1>6. established <= established' /\ mcpSession' <= established'
    BY <1>1, <1>3 DEF EstablishedInv
  <1>7. SoundUse(x)' /\ (Fresh(x) => Fresh(user[u]))
    BY <1>1, <1>2, <1>3, <1>4, McpNumbers
    DEF ListFails, UserAt, SoundUse, AtWork, Fresh, HoldingPcs
  <1>8. \A v \in McpUsers \ {u} : Fresh(user[v]) =>
            /\ user[v].session # mcpSession'
            /\ Fresh(x) => user[v].session # x.session
    BY <1>1, <1>2, <1>3, <1>7 DEF UsesInv, SoundUse, FreshInv
  <1>9. user[u].session \in Live' => x.pc # "idle" /\ x.session = user[u].session
    BY <1>2
  <1> QED  BY <1>2, <1>3, <1>4, <1>5, <1>6, <1>7, <1>8, <1>9, McpStep

LEMMA PingFailsMcp ==
    ASSUME McpInv, NEW u \in McpUsers, PingFails(u)
    PROVE  McpInv'
  <1>1. McpTypes /\ SoundUse(user[u]) /\ EstablishedInv /\ UsesInv /\ FreshInv
    BY DEF McpInv, UsesInv
  <1>2. PICK x \in Uses : /\ user' = [user EXCEPT ![u] = x]
                         /\ x.op = user[u].op /\ x.session = user[u].session
                         /\ x.pc = "forget"
    BY <1>1, GoToUse DEF PingFails, McpPcs
  <1>3. /\ UNCHANGED <<mcpSession, established, mcpState, offered, mcpServer, mixed>>
        /\ established \in Nat
    BY <1>1, McpNumbers DEF PingFails, McpTypes
  <1>4. /\ Live' = Live /\ Live \subseteq McpSessions
        /\ dropped \subseteq dropped' /\ dropped' \subseteq dropped \cup Live
        /\ x.op # "init" /\ x.session \in Live => x.session \in dropped'
    BY <1>1, <1>2, <1>3 DEF PingFails, UserAt, Drop, Live, SoundUse, AtWork
  <1>5. McpTypes'
    BY <1>1, <1>2, <1>3, <1>4, OneUse DEF McpTypes
  <1>6. established <= established' /\ mcpSession' <= established'
    BY <1>1, <1>3 DEF EstablishedInv
  <1>7. SoundUse(x)' /\ (Fresh(x) => Fresh(user[u]))
    BY <1>1, <1>2, <1>3, <1>4, McpNumbers
    DEF PingFails, UserAt, SoundUse, AtWork, Fresh, HoldingPcs
  <1>8. \A v \in McpUsers \ {u} : Fresh(user[v]) =>
            /\ user[v].session # mcpSession'
            /\ Fresh(x) => user[v].session # x.session
    BY <1>1, <1>2, <1>3, <1>7 DEF UsesInv, SoundUse, FreshInv
  <1>9. user[u].session \in Live' => x.pc # "idle" /\ x.session = user[u].session
    BY <1>2
  <1> QED  BY <1>2, <1>3, <1>4, <1>5, <1>6, <1>7, <1>8, <1>9, McpStep

LEMMA ConnectMcp ==
    ASSUME McpInv, NEW u \in McpUsers, Connect(u)
    PROVE  McpInv'
  <1>1. McpTypes /\ SoundUse(user[u]) /\ EstablishedInv /\ UsesInv /\ FreshInv
    BY DEF McpInv, UsesInv
  <1>2. /\ established \in Nat /\ established' = established + 1
        /\ established' \in McpSessions /\ established' \in 0 .. MaxMcpSessions
    BY <1>1, McpNumbers DEF Connect, McpTypes, McpSessions
  <1>3. PICK x \in Uses : /\ user' = [user EXCEPT ![u] = x]
                         /\ x.op = user[u].op /\ x.session = established'
                         /\ x.pc = IF user[u].op = "init" THEN "list" ELSE "announce"
    <2>1. [user[u] EXCEPT !.session = established',
                          !.pc = IF user[u].op = "init" THEN "list" ELSE "announce"] \in Uses
      BY <1>1, <1>2, UseMember DEF Uses, McpPcs
    <2> QED  BY <1>1, <2>1, UseMember DEF Connect, Uses
  <1>4. UNCHANGED <<mcpSession, mcpState, offered, dropped, mixed>>
    BY DEF Connect
  <1>5. /\ mcpServer' \in [McpSessions -> {"none", "alive", "dead"}]
        /\ Live \subseteq Live' /\ Live' \subseteq Live \cup {established'}
    BY <1>1, <1>2 DEF Connect, McpTypes, Live
  <1>6. McpTypes'
    BY <1>1, <1>2, <1>3, <1>4, <1>5, OneUse DEF McpTypes
  <1>7. ~(established' <= established) /\ established <= established'
    BY <1>2
  <1>8. mcpSession' <= established' /\ mcpSession' # established'
    BY <1>1, <1>2, <1>4, McpNumbers DEF EstablishedInv, McpTypes
  <1>9. SoundUse(x)'
    BY <1>1, <1>2, <1>3, <1>8, McpNumbers
    DEF Connect, UserAt, SoundUse, AtWork, Fresh, HoldingPcs
  <1>10. \A v \in McpUsers \ {u} : Fresh(user[v]) =>
            /\ user[v].session # mcpSession'
            /\ Fresh(x) => user[v].session # x.session
    BY <1>1, <1>3, <1>4, <1>7 DEF UsesInv, SoundUse
  <1>11. user[u].session \notin Live'
    <2>1. user[u].session = NoSession
      BY <1>1 DEF Connect, UserAt, SoundUse
    <2> QED  BY <2>1, McpNumbers DEF Live
  <1>12. x.pc # "idle"
    BY <1>3
  <1> QED
    <2>1. \A s \in Live' : \/ s \in Live
                           \/ /\ s = established' /\ ~(s <= established)
                              /\ x.pc # "idle" /\ x.session = s
      BY <1>3, <1>5, <1>7, <1>12
    <2> QED  BY <1>3, <1>4, <1>6, <1>7, <1>8, <1>9, <1>10, <1>11, <2>1, McpStep

LEMMA SessionEnded ==
    ASSUME McpTypes, NEW s, End(s)
    PROVE  /\ Live' = Live \ {s}
           /\ dropped' = dropped \ {s}
           /\ mcpServer' \in [McpSessions -> {"none", "alive", "dead"}]
           /\ Live' \cap dropped \subseteq dropped'
  BY DEF McpTypes, End, Live

LEMMA CloseSessionMcp ==
    ASSUME McpInv, NEW u \in McpUsers, CloseSession(u)
    PROVE  McpInv'
  <1>1. McpTypes /\ SoundUse(user[u]) /\ EstablishedInv /\ UsesInv /\ FreshInv
    BY DEF McpInv, UsesInv
  <1>2. PICK x \in Uses : /\ user' = [user EXCEPT ![u] = x]
                         /\ \/ /\ x.op = user[u].op /\ x.op = "disable" /\ x.pc = "delete"
                               /\ x.session = user[u].session
                            \/ x.op = "none" /\ x.pc = "idle" /\ x.session = NoSession
    BY <1>1, GoToUse, FinishUse DEF CloseSession, McpPcs
  <1>3. /\ UNCHANGED <<mcpSession, mcpState, offered, established, mixed>>
        /\ established \in Nat
    BY <1>1, McpNumbers DEF CloseSession, McpTypes
  <1>4. /\ Live' = Live \ {user[u].session}
        /\ dropped' = dropped \ {user[u].session}
        /\ mcpServer' \in [McpSessions -> {"none", "alive", "dead"}]
        /\ Live' \cap dropped \subseteq dropped'
    BY <1>1, SessionEnded DEF CloseSession
  <1>5. McpTypes'
    BY <1>1, <1>2, <1>3, <1>4, OneUse DEF McpTypes
  <1>6. established <= established' /\ mcpSession' <= established'
    BY <1>1, <1>3 DEF EstablishedInv
  <1>7. SoundUse(x)' /\ ~Fresh(x)
    BY <1>1, <1>2, <1>3, <1>4, McpNumbers
    DEF SoundUse, AtWork, Fresh, HoldingPcs, Live, NoSession
  <1>8. \A v \in McpUsers \ {u} : Fresh(user[v]) =>
            /\ user[v].session # mcpSession'
            /\ Fresh(x) => user[v].session # x.session
    BY <1>1, <1>3, <1>7 DEF UsesInv, SoundUse
  <1>9. user[u].session \notin Live'
    BY <1>4
  <1> QED  BY <1>2, <1>3, <1>4, <1>5, <1>6, <1>7, <1>8, <1>9, McpStep

LEMMA ServerDiesMcp ==
    ASSUME McpInv, NEW s \in McpSessions, ServerDies(s)
    PROVE  McpInv'
  <1>1. McpTypes /\ EstablishedInv /\ UsesInv /\ FreshInv /\ SessionsAccounted
    BY DEF McpInv
  <1>2. /\ UNCHANGED <<mcpSession, mcpState, offered, established, user, mixed>>
        /\ established \in Nat /\ established <= established'
    BY <1>1, McpNumbers DEF ServerDies, McpTypes
  <1>3. /\ Live' = Live \ {s} /\ dropped' = dropped \ {s}
        /\ mcpServer' \in [McpSessions -> {"none", "alive", "dead"}]
        /\ Live' \cap dropped \subseteq dropped'
    BY <1>1, SessionEnded DEF ServerDies
  <1>4. McpTypes'
    BY <1>1, <1>2, <1>3 DEF McpTypes
  <1>5. EstablishedInv'
    BY <1>1, <1>2, <1>3 DEF EstablishedInv
  <1>6. UsesInv'
    <2>1. ASSUME NEW u \in McpUsers  PROVE SoundUse(user[u])'
      <3>1. user[u] \in Uses /\ SoundUse(user[u])
        BY <1>1, UseMember DEF UsesInv
      <3>2. Fresh(user[u]) => user[u].session # mcpSession'
        BY <1>2, <3>1 DEF SoundUse
      <3>3. ASSUME NEW y \in Uses, y = user[u]  PROVE SoundUse(y)'
        BY <3>1, <3>2, <3>3, <1>1, <1>2, <1>3, SoundKept
      <3> QED  BY <3>1, <3>3, <1>2 DEF SoundUse
    <2> QED  BY <2>1 DEF UsesInv
  <1>7. FreshInv'
    BY <1>1, <1>2 DEF FreshInv
  <1>8. SessionsAccounted'
    BY <1>1, <1>2, <1>3 DEF SessionsAccounted, InHand, Using
  <1> QED  BY <1>4, <1>5, <1>6, <1>7, <1>8 DEF McpInv

LEMMA McpInvInit == McpInit => McpInv
  <1> SUFFICES ASSUME McpInit PROVE McpInv
    OBVIOUS
  <1>1. McpTypes
    <2>1. NoUse \in Uses
      BY DEF NoUse, Uses, McpOps, McpPcs
    <2>2. Shown("absent", NoSession) \in McpStates
      BY DEF Shown, McpStates
    <2>3. mcpServer \in [McpSessions -> {"none", "alive", "dead"}]
      BY DEF McpInit
    <2>4. user \in [McpUsers -> Uses]
      BY <2>1 DEF McpInit
    <2>5. established \in 0 .. MaxMcpSessions
      BY McpAssumption DEF McpInit
    <2>6. mcpState \in McpStates /\ mcpSession \in {NoSession} \cup McpSessions
      BY <2>2 DEF McpInit
    <2>7. offered \in BOOLEAN /\ mixed \in BOOLEAN /\ dropped \subseteq McpSessions
      BY DEF McpInit
    <2> QED  BY <2>3, <2>4, <2>5, <2>6, <2>7 DEF McpTypes
  <1>2. EstablishedInv /\ SessionsAccounted
    BY DEF McpInit, EstablishedInv, SessionsAccounted, Live, NoSession
  <1>3. \A u \in McpUsers : user[u] = NoUse
    BY DEF McpInit
  <1>4. UsesInv
    BY <1>1, <1>3, McpNumbers DEF McpInit, UsesInv, SoundUse, AtWork, Fresh, HoldingPcs, NoUse, NoSession, Live
  <1>5. FreshInv
    BY <1>3 DEF FreshInv, Fresh, NoUse
  <1> QED  BY <1>1, <1>2, <1>4, <1>5 DEF McpInv

LEMMA McpInvNext == McpInv /\ [McpNext]_mcpVars => McpInv'
  <1> SUFFICES ASSUME McpInv, [McpNext]_mcpVars PROVE McpInv'
    OBVIOUS
  <1>1. CASE UNCHANGED mcpVars
    <2>1. Live' = Live /\ InHand' = InHand
      BY <1>1 DEF mcpVars, Live, InHand, Using
    <2> QED  BY <1>1, <2>1 DEF mcpVars, McpInv, McpTypes, EstablishedInv, UsesInv, SoundUse, FreshInv,
               SessionsAccounted
  <1>2. ASSUME NEW s \in McpSessions, ServerDies(s)  PROVE McpInv'
    BY <1>2, ServerDiesMcp
  <1>3. ASSUME NEW u \in McpUsers,
               \/ InitClient(u) \/ InitDisabled(u) \/ LookUp(u) \/ DisableAbsent(u)
               \/ Connect(u) \/ ConnectFails(u) \/ Forget(u) \/ MarkError(u)
               \/ Listed(u) \/ ListFails(u) \/ UpdateTools(u)
        PROVE  McpInv'
    BY <1>3, InitClientMcp, InitDisabledMcp, LookUpMcp, DisableAbsentMcp, ConnectMcp,
       ConnectFailsMcp, ForgetMcp, MarkErrorMcp, ListedMcp, ListFailsMcp, UpdateToolsMcp
  <1>4. ASSUME NEW u \in McpUsers,
               \/ StoreSession(u) \/ Report(u) \/ PingSucceeds(u) \/ PingFails(u)
               \/ AnnounceRenewed(u) \/ CallReturns(u) \/ CloseSession(u)
               \/ DeleteSession(u) \/ ClearTools(u) \/ MarkDisabled(u)
        PROVE  McpInv'
    BY <1>4, StoreSessionMcp, ReportMcp, PingSucceedsMcp, PingFailsMcp, AnnounceRenewedMcp,
       CallReturnsMcp, CloseSessionMcp, DeleteSessionMcp, ClearToolsMcp, MarkDisabledMcp
  <1> QED  BY <1>1, <1>2, <1>3, <1>4 DEF McpNext

(* For any number of goroutines that initialize, call, renew, refresh and  *)
(* close: a live session of an MCP server is the one in the map of         *)
(* sessions, or in the hands of the goroutine that connects or closes it,  *)
(* or was dropped when a goroutine replaced or deleted the entry without   *)
(* closing what it held (mcp/init.go:262, 299, 314, 337).                  *)
THEOREM LiveSessionsAreAccounted == McpSpec => []SessionsAccounted
  <1>1. McpInv => SessionsAccounted
    BY DEF McpInv
  <1> QED  BY <1>1, McpInvInit, McpInvNext, PTL DEF McpSpec


-----------------------------------------------------------------------------
(* Once operations have overlapped nothing more is said, so a step has     *)
(* only to show what holds of the goroutine that is alone in it.           *)
LEMMA AgreeStep ==
    ASSUME McpTypes, AgreeInv, NEW u \in McpUsers, NEW x \in Uses,
           user' = [user EXCEPT ![u] = x], UNCHANGED mixed, user[u].pc # "idle",
           ~mixed /\ Agreed(user[u]) => IF x.pc = "idle" THEN Shows' ELSE Agreed(x)'
    PROVE  AgreeInv'
  <1> SUFFICES ASSUME ~mixed'
               PROVE  /\ \A v, w \in Using' : v = w
                      /\ \A v \in Using' : Agreed(user[v])'
                      /\ Using' = {} => Shows'
    BY DEF AgreeInv
  <1>1. u \in Using /\ Agreed(user[u]) /\ \A v \in Using : v = u
    BY DEF AgreeInv, Using
  <1>2. user'[u] = x /\ \A v \in McpUsers \ {u} : user'[v] = user[v]
    BY OneUse
  <1>3. \A v \in Using' : v = u /\ x.pc # "idle"
    BY <1>1, <1>2 DEF Using
  <1>4. CASE x.pc = "idle"
    <2>1. Shows'
      BY <1>1, <1>4
    <2> QED  BY <1>3, <1>4, <2>1
  <1>5. CASE x.pc # "idle"
    <2>1. Agreed(x)'
      BY <1>1, <1>5
    <2>2. Agreed(user[u])'
      BY <2>1, <1>2 DEF Agreed, Follows
    <2>3. u \in Using'
      BY <1>2, <1>5 DEF Using
    <2> QED  BY <1>3, <2>2, <2>3
  <1> QED  BY <1>4, <1>5

(* An operation that begins while another is under way is an overlap.      *)
LEMMA AgreeBegin ==
    ASSUME McpTypes, AgreeInv, NEW u \in McpUsers, NEW x \in Uses,
           user' = [user EXCEPT ![u] = x], user[u].pc = "idle", x.pc # "idle",
           mixed' = (mixed \/ Using # {}),
           Shows => Agreed(x)'
    PROVE  AgreeInv'
  <1> SUFFICES ASSUME ~mixed'
               PROVE  /\ \A v, w \in Using' : v = w
                      /\ \A v \in Using' : Agreed(user[v])'
                      /\ Using' = {} => Shows'
    BY DEF AgreeInv
  <1>1. Using = {} /\ Shows
    BY DEF AgreeInv
  <1>2. user'[u] = x /\ \A v \in McpUsers \ {u} : user'[v] = user[v]
    BY OneUse
  <1>3. \A v \in Using' : v = u
    BY <1>1, <1>2 DEF Using
  <1>4. Agreed(x)'
    BY <1>1
  <1>5. Agreed(user[u])'
    BY <1>4, <1>2 DEF Agreed, Follows
  <1>6. u \in Using'
    BY <1>2 DEF Using
  <1> QED  BY <1>3, <1>5, <1>6

LEMMA BeginsAgree ==
    ASSUME McpInv, AgreeInv, NEW u \in McpUsers,
           InitClient(u) \/ LookUp(u) \/ DisableAbsent(u)
    PROVE  AgreeInv'
  <1>1. McpTypes
    BY DEF McpInv
  <1>2. ASSUME InitClient(u)  PROVE AgreeInv'
    <2>1. PICK x \in Uses : /\ user' = [user EXCEPT ![u] = x]
                           /\ x.op = "init" /\ x.pc = "connect" /\ x.session = NoSession
      BY <1>1, <1>2, BeginUse DEF InitClient, McpOps, McpPcs
    <2>2. Agreed(x)'
      BY <2>1 DEF Agreed, Follows
    <2> QED  BY <1>1, <1>2, <2>1, <2>2, AgreeBegin DEF InitClient, Begin, UserAt
  <1>3. ASSUME DisableAbsent(u)  PROVE AgreeInv'
    <2>1. PICK x \in Uses : /\ user' = [user EXCEPT ![u] = x]
                           /\ x.op = "disable" /\ x.pc = "clear" /\ x.session = NoSession
      BY <1>1, <1>3, BeginUse DEF DisableAbsent, McpOps, McpPcs
    <2>2. Agreed(x)'
      BY <2>1 DEF Agreed, Follows
    <2> QED  BY <1>1, <1>3, <2>1, <2>2, AgreeBegin DEF DisableAbsent, Begin, UserAt
  <1>4. ASSUME LookUp(u)  PROVE AgreeInv'
    <2>1. mcpSession \in {NoSession} \cup McpSessions
      BY <1>1 DEF McpTypes
    <2>2. UNCHANGED <<mcpSession, mcpState>>
      BY <1>4 DEF LookUp
    <2>3. ASSUME NEW op \in McpOps, NEW at \in McpPcs, Begin(u, op, at, mcpSession),
                 \/ op = "call" /\ at = "ping"
                 \/ op = "refresh" /\ at = "list"
                 \/ op \in {"disable", "shutdown"} /\ at = "close"
          PROVE  AgreeInv'
      <3>1. PICK x \in Uses : /\ user' = [user EXCEPT ![u] = x]
                             /\ x.op = op /\ x.pc = at /\ x.session = mcpSession
        BY <1>1, <2>1, <2>3, BeginUse
      <3>2. Shows => Agreed(x)'
        BY <2>2, <2>3, <3>1 DEF Agreed, Follows, Shows
      <3>3. user[u].pc = "idle" /\ x.pc # "idle" /\ mixed' = (mixed \/ Using # {})
        BY <2>3, <3>1 DEF Begin, UserAt
      <3> QED  BY <1>1, <3>1, <3>2, <3>3, AgreeBegin
    <2> QED  BY <1>4, <2>3 DEF LookUp, McpOps, McpPcs
  <1> QED  BY <1>2, <1>3, <1>4

LEMMA InitDisabledAgrees ==
    ASSUME McpInv, AgreeInv, NEW u \in McpUsers, InitDisabled(u)
    PROVE  AgreeInv'
  <1> SUFFICES ASSUME ~mixed'
               PROVE  /\ \A v, w \in Using' : v = w
                      /\ \A v \in Using' : Agreed(user[v])'
                      /\ Using' = {} => Shows'
    BY DEF AgreeInv
  <1>1. Using' = {}
    BY DEF InitDisabled, Using
  <1>2. Shows'
    BY DEF InitDisabled, Shows, Shown
  <1> QED  BY <1>1, <1>2

LEMMA ConnectFailsAgrees ==
    ASSUME McpInv, AgreeInv, NEW u \in McpUsers, ConnectFails(u)
    PROVE  AgreeInv'
  <1>1. McpTypes /\ SoundUse(user[u])
    BY DEF McpInv, UsesInv
  <1>2. PICK x \in Uses : /\ user' = [user EXCEPT ![u] = x]
                         /\ x.op = user[u].op /\ x.session = user[u].session /\ x.pc = "forget"
    BY <1>1, GoToUse DEF ConnectFails, McpPcs
  <1>3. UNCHANGED mixed /\ user[u].pc # "idle"
    BY DEF ConnectFails, UserAt
  <1>4. Agreed(user[u]) => IF x.pc = "idle" THEN Shows' ELSE Agreed(x)'
    BY <1>1, <1>2, McpNumbers
    DEF ConnectFails, UserAt, Agreed, Follows, Shows, Shown, SoundUse, AtWork, HoldingPcs
  <1> QED  BY <1>1, <1>2, <1>3, <1>4, AgreeStep

LEMMA ForgetAgrees ==
    ASSUME McpInv, AgreeInv, NEW u \in McpUsers, Forget(u)
    PROVE  AgreeInv'
  <1>1. McpTypes /\ SoundUse(user[u])
    BY DEF McpInv, UsesInv
  <1>2. PICK x \in Uses : /\ user' = [user EXCEPT ![u] = x]
                         /\ x.op = user[u].op /\ x.session = user[u].session /\ x.pc = "mark"
    BY <1>1, GoToUse DEF Forget, McpPcs
  <1>3. UNCHANGED mixed /\ user[u].pc # "idle"
    BY DEF Forget, UserAt
  <1>4. Agreed(user[u]) => IF x.pc = "idle" THEN Shows' ELSE Agreed(x)'
    BY <1>1, <1>2, McpNumbers
    DEF Forget, UserAt, Agreed, Follows, Shows, Shown, SoundUse, AtWork, HoldingPcs, PutSession
  <1> QED  BY <1>1, <1>2, <1>3, <1>4, AgreeStep

LEMMA ListedAgrees ==
    ASSUME McpInv, AgreeInv, NEW u \in McpUsers, Listed(u)
    PROVE  AgreeInv'
  <1>1. McpTypes /\ SoundUse(user[u])
    BY DEF McpInv, UsesInv
  <1>2. PICK x \in Uses : /\ user' = [user EXCEPT ![u] = x]
                         /\ x.op = user[u].op /\ x.session = user[u].session /\ x.pc = "offer"
    BY <1>1, GoToUse DEF Listed, McpPcs
  <1>3. UNCHANGED mixed /\ user[u].pc # "idle"
    BY DEF Listed, UserAt
  <1>4. Agreed(user[u]) => IF x.pc = "idle" THEN Shows' ELSE Agreed(x)'
    BY <1>1, <1>2, McpNumbers
    DEF Listed, UserAt, Agreed, Follows, Shows, Shown, SoundUse, AtWork, HoldingPcs
  <1> QED  BY <1>1, <1>2, <1>3, <1>4, AgreeStep

LEMMA ListFailsAgrees ==
    ASSUME McpInv, AgreeInv, NEW u \in McpUsers, ListFails(u)
    PROVE  AgreeInv'
  <1>1. McpTypes /\ SoundUse(user[u])
    BY DEF McpInv, UsesInv
  <1>2. PICK x \in Uses : /\ user' = [user EXCEPT ![u] = x]
                         /\ x.op = user[u].op /\ x.session = user[u].session /\ x.pc = "forget"
    BY <1>1, GoToUse DEF ListFails, McpPcs
  <1>3. UNCHANGED mixed /\ user[u].pc # "idle"
    BY DEF ListFails, UserAt
  <1>4. Agreed(user[u]) => IF x.pc = "idle" THEN Shows' ELSE Agreed(x)'
    BY <1>1, <1>2, McpNumbers
    DEF ListFails, UserAt, Agreed, Follows, Shows, Shown, SoundUse, AtWork, HoldingPcs
  <1> QED  BY <1>1, <1>2, <1>3, <1>4, AgreeStep

LEMMA UpdateToolsAgrees ==
    ASSUME McpInv, AgreeInv, NEW u \in McpUsers, UpdateTools(u)
    PROVE  AgreeInv'
  <1>1. McpTypes /\ SoundUse(user[u])
    BY DEF McpInv, UsesInv
  <1>2. PICK x \in Uses : /\ user' = [user EXCEPT ![u] = x]
                         /\ x.op = user[u].op /\ x.session = user[u].session /\ x.pc = IF user[u].op = "init" THEN "store" ELSE "report"
    BY <1>1, GoToUse DEF UpdateTools, McpPcs
  <1>3. UNCHANGED mixed /\ user[u].pc # "idle"
    BY DEF UpdateTools, UserAt
  <1>4. Agreed(user[u]) => IF x.pc = "idle" THEN Shows' ELSE Agreed(x)'
    BY <1>1, <1>2, McpNumbers
    DEF UpdateTools, UserAt, Agreed, Follows, Shows, Shown, SoundUse, AtWork, HoldingPcs
  <1> QED  BY <1>1, <1>2, <1>3, <1>4, AgreeStep

LEMMA StoreSessionAgrees ==
    ASSUME McpInv, AgreeInv, NEW u \in McpUsers, StoreSession(u)
    PROVE  AgreeInv'
  <1>1. McpTypes /\ SoundUse(user[u])
    BY DEF McpInv, UsesInv
  <1>2. PICK x \in Uses : /\ user' = [user EXCEPT ![u] = x]
                         /\ x.op = user[u].op /\ x.session = user[u].session /\ x.pc = IF user[u].op = "init" THEN "report" ELSE "use"
    BY <1>1, GoToUse DEF StoreSession, McpPcs
  <1>3. UNCHANGED mixed /\ user[u].pc # "idle"
    BY DEF StoreSession, UserAt
  <1>4. Agreed(user[u]) => IF x.pc = "idle" THEN Shows' ELSE Agreed(x)'
    BY <1>1, <1>2, McpNumbers
    DEF StoreSession, UserAt, Agreed, Follows, Shows, Shown, SoundUse, AtWork, HoldingPcs, PutSession
  <1> QED  BY <1>1, <1>2, <1>3, <1>4, AgreeStep

LEMMA ReportAgrees ==
    ASSUME McpInv, AgreeInv, NEW u \in McpUsers, Report(u)
    PROVE  AgreeInv'
  <1>1. McpTypes /\ SoundUse(user[u])
    BY DEF McpInv, UsesInv
  <1>2. PICK x \in Uses : /\ user' = [user EXCEPT ![u] = x]
                         /\ x.op = "none" /\ x.pc = "idle" /\ x.session = NoSession
    BY <1>1, FinishUse DEF Report
  <1>3. UNCHANGED mixed /\ user[u].pc # "idle"
    BY DEF Report, UserAt
  <1>4. Agreed(user[u]) => IF x.pc = "idle" THEN Shows' ELSE Agreed(x)'
    BY <1>1, <1>2, McpNumbers
    DEF Report, UserAt, Agreed, Follows, Shows, Shown, SoundUse, AtWork, HoldingPcs
  <1> QED  BY <1>1, <1>2, <1>3, <1>4, AgreeStep

LEMMA PingSucceedsAgrees ==
    ASSUME McpInv, AgreeInv, NEW u \in McpUsers, PingSucceeds(u)
    PROVE  AgreeInv'
  <1>1. McpTypes /\ SoundUse(user[u])
    BY DEF McpInv, UsesInv
  <1>2. PICK x \in Uses : /\ user' = [user EXCEPT ![u] = x]
                         /\ x.op = user[u].op /\ x.session = user[u].session /\ x.pc = "use"
    BY <1>1, GoToUse DEF PingSucceeds, McpPcs
  <1>3. UNCHANGED mixed /\ user[u].pc # "idle"
    BY DEF PingSucceeds, UserAt
  <1>4. Agreed(user[u]) => IF x.pc = "idle" THEN Shows' ELSE Agreed(x)'
    BY <1>1, <1>2, McpNumbers
    DEF PingSucceeds, UserAt, Agreed, Follows, Shows, Shown, SoundUse, AtWork, HoldingPcs
  <1> QED  BY <1>1, <1>2, <1>3, <1>4, AgreeStep

LEMMA PingFailsAgrees ==
    ASSUME McpInv, AgreeInv, NEW u \in McpUsers, PingFails(u)
    PROVE  AgreeInv'
  <1>1. McpTypes /\ SoundUse(user[u])
    BY DEF McpInv, UsesInv
  <1>2. PICK x \in Uses : /\ user' = [user EXCEPT ![u] = x]
                         /\ x.op = user[u].op /\ x.session = user[u].session /\ x.pc = "forget"
    BY <1>1, GoToUse DEF PingFails, McpPcs
  <1>3. UNCHANGED mixed /\ user[u].pc # "idle"
    BY DEF PingFails, UserAt
  <1>4. Agreed(user[u]) => IF x.pc = "idle" THEN Shows' ELSE Agreed(x)'
    BY <1>1, <1>2, McpNumbers
    DEF PingFails, UserAt, Agreed, Follows, Shows, Shown, SoundUse, AtWork, HoldingPcs
  <1> QED  BY <1>1, <1>2, <1>3, <1>4, AgreeStep

LEMMA AnnounceRenewedAgrees ==
    ASSUME McpInv, AgreeInv, NEW u \in McpUsers, AnnounceRenewed(u)
    PROVE  AgreeInv'
  <1>1. McpTypes /\ SoundUse(user[u])
    BY DEF McpInv, UsesInv
  <1>2. PICK x \in Uses : /\ user' = [user EXCEPT ![u] = x]
                         /\ x.op = user[u].op /\ x.session = user[u].session /\ x.pc = "store"
    BY <1>1, GoToUse DEF AnnounceRenewed, McpPcs
  <1>3. UNCHANGED mixed /\ user[u].pc # "idle"
    BY DEF AnnounceRenewed, UserAt
  <1>4. Agreed(user[u]) => IF x.pc = "idle" THEN Shows' ELSE Agreed(x)'
    BY <1>1, <1>2, McpNumbers
    DEF AnnounceRenewed, UserAt, Agreed, Follows, Shows, Shown, SoundUse, AtWork, HoldingPcs
  <1> QED  BY <1>1, <1>2, <1>3, <1>4, AgreeStep

LEMMA CallReturnsAgrees ==
    ASSUME McpInv, AgreeInv, NEW u \in McpUsers, CallReturns(u)
    PROVE  AgreeInv'
  <1>1. McpTypes /\ SoundUse(user[u])
    BY DEF McpInv, UsesInv
  <1>2. PICK x \in Uses : /\ user' = [user EXCEPT ![u] = x]
                         /\ \/ x.op = "none" /\ x.pc = "idle" /\ x.session = NoSession
                            \/ x.op = user[u].op /\ x.pc = "report" /\ x.session = user[u].session
    BY <1>1, FinishUse, GoToUse DEF CallReturns, McpPcs
  <1>3. UNCHANGED mixed /\ user[u].pc # "idle"
    BY DEF CallReturns, UserAt
  <1>4. Agreed(user[u]) => IF x.pc = "idle" THEN Shows' ELSE Agreed(x)'
    BY <1>1, <1>2, McpNumbers
    DEF CallReturns, UserAt, Agreed, Follows, Shows, Shown, SoundUse, AtWork, HoldingPcs
  <1> QED  BY <1>1, <1>2, <1>3, <1>4, AgreeStep

LEMMA CloseSessionAgrees ==
    ASSUME McpInv, AgreeInv, NEW u \in McpUsers, CloseSession(u)
    PROVE  AgreeInv'
  <1>1. McpTypes /\ SoundUse(user[u])
    BY DEF McpInv, UsesInv
  <1>2. PICK x \in Uses : /\ user' = [user EXCEPT ![u] = x]
                         /\ \/ /\ x.op = user[u].op /\ x.op = "disable" /\ x.pc = "delete"
                               /\ x.session = user[u].session
                            \/ x.op = "none" /\ x.pc = "idle" /\ x.session = NoSession /\ user[u].op # "disable"
    BY <1>1, GoToUse, FinishUse DEF CloseSession, McpPcs
  <1>3. UNCHANGED mixed /\ user[u].pc # "idle"
    BY DEF CloseSession, UserAt
  <1>4. Agreed(user[u]) => IF x.pc = "idle" THEN Shows' ELSE Agreed(x)'
    BY <1>1, <1>2, McpNumbers
    DEF CloseSession, UserAt, Agreed, Follows, Shows, Shown, SoundUse, AtWork, HoldingPcs
  <1> QED  BY <1>1, <1>2, <1>3, <1>4, AgreeStep

LEMMA DeleteSessionAgrees ==
    ASSUME McpInv, AgreeInv, NEW u \in McpUsers, DeleteSession(u)
    PROVE  AgreeInv'
  <1>1. McpTypes /\ SoundUse(user[u])
    BY DEF McpInv, UsesInv
  <1>2. PICK x \in Uses : /\ user' = [user EXCEPT ![u] = x]
                         /\ x.op = user[u].op /\ x.session = user[u].session /\ x.pc = "clear"
    BY <1>1, GoToUse DEF DeleteSession, McpPcs
  <1>3. UNCHANGED mixed /\ user[u].pc # "idle"
    BY DEF DeleteSession, UserAt
  <1>4. Agreed(user[u]) => IF x.pc = "idle" THEN Shows' ELSE Agreed(x)'
    BY <1>1, <1>2, McpNumbers
    DEF DeleteSession, UserAt, Agreed, Follows, Shows, Shown, SoundUse, AtWork, HoldingPcs, PutSession
  <1> QED  BY <1>1, <1>2, <1>3, <1>4, AgreeStep

LEMMA ClearToolsAgrees ==
    ASSUME McpInv, AgreeInv, NEW u \in McpUsers, ClearTools(u)
    PROVE  AgreeInv'
  <1>1. McpTypes /\ SoundUse(user[u])
    BY DEF McpInv, UsesInv
  <1>2. PICK x \in Uses : /\ user' = [user EXCEPT ![u] = x]
                         /\ x.op = user[u].op /\ x.session = user[u].session /\ x.pc = "disabled"
    BY <1>1, GoToUse DEF ClearTools, McpPcs
  <1>3. UNCHANGED mixed /\ user[u].pc # "idle"
    BY DEF ClearTools, UserAt
  <1>4. Agreed(user[u]) => IF x.pc = "idle" THEN Shows' ELSE Agreed(x)'
    BY <1>1, <1>2, McpNumbers
    DEF ClearTools, UserAt, Agreed, Follows, Shows, Shown, SoundUse, AtWork, HoldingPcs
  <1> QED  BY <1>1, <1>2, <1>3, <1>4, AgreeStep

LEMMA MarkDisabledAgrees ==
    ASSUME McpInv, AgreeInv, NEW u \in McpUsers, MarkDisabled(u)
    PROVE  AgreeInv'
  <1>1. McpTypes /\ SoundUse(user[u])
    BY DEF McpInv, UsesInv
  <1>2. PICK x \in Uses : /\ user' = [user EXCEPT ![u] = x]
                         /\ x.op = "none" /\ x.pc = "idle" /\ x.session = NoSession
    BY <1>1, FinishUse DEF MarkDisabled
  <1>3. UNCHANGED mixed /\ user[u].pc # "idle"
    BY DEF MarkDisabled, UserAt
  <1>4. Agreed(user[u]) => IF x.pc = "idle" THEN Shows' ELSE Agreed(x)'
    BY <1>1, <1>2, McpNumbers
    DEF MarkDisabled, UserAt, Agreed, Follows, Shows, Shown, SoundUse, AtWork, HoldingPcs
  <1> QED  BY <1>1, <1>2, <1>3, <1>4, AgreeStep

LEMMA MarkErrorAgrees ==
    ASSUME McpInv, AgreeInv, NEW u \in McpUsers, MarkError(u)
    PROVE  AgreeInv'
  <1>1. McpTypes /\ SoundUse(user[u])
    BY DEF McpInv, UsesInv
  <1>2. PICK x \in Uses : /\ user' = [user EXCEPT ![u] = x]
                         /\ \/ /\ x.pc = "connect" /\ x.session = NoSession
                               /\ x.op = "call" /\ user[u].op = "call"
                            \/ /\ x.pc = "close" /\ x.session = user[u].session
                               /\ x.op = "init" /\ user[u].op = "init"
                               /\ user[u].session # NoSession
                            \/ /\ x.op = "none" /\ x.pc = "idle" /\ x.session = NoSession
                               /\ user[u].session = NoSession \/ user[u].op = "refresh"
    <2>1. CASE user[u].op = "call" /\ user[u].session # NoSession /\
               user' = [user EXCEPT ![u].pc = "connect", ![u].session = NoSession]
      <3>1. [user[u] EXCEPT !.pc = "connect", !.session = NoSession] \in Uses
        BY <1>1, UseMember DEF Uses, McpPcs
      <3> QED  BY <1>1, <2>1, <3>1, UseMember DEF Uses
    <2>2. CASE user[u].session # NoSession /\ user[u].op = "init" /\ GoTo(u, "close")
      BY <1>1, <2>2, GoToUse DEF McpPcs
    <2>3. CASE (user[u].session = NoSession \/ user[u].op = "refresh") /\ Finish(u)
      BY <1>1, <2>3, FinishUse
    <2> QED  BY <2>1, <2>2, <2>3 DEF MarkError
  <1>3. UNCHANGED mixed /\ user[u].pc # "idle"
    BY DEF MarkError, UserAt
  <1>4. Agreed(user[u]) => IF x.pc = "idle" THEN Shows' ELSE Agreed(x)'
    BY <1>1, <1>2, McpNumbers
    DEF MarkError, UserAt, Agreed, Follows, Shows, Shown, SoundUse, AtWork, HoldingPcs
  <1> QED  BY <1>1, <1>2, <1>3, <1>4, AgreeStep

LEMMA ConnectAgrees ==
    ASSUME McpInv, AgreeInv, NEW u \in McpUsers, Connect(u)
    PROVE  AgreeInv'
  <1>1. McpTypes /\ SoundUse(user[u])
    BY DEF McpInv, UsesInv
  <1>2. /\ established \in Nat /\ established' = established + 1
        /\ established' \in McpSessions /\ established' \in 0 .. MaxMcpSessions
    BY <1>1, McpNumbers DEF Connect, McpTypes, McpSessions
  <1>3. PICK x \in Uses : /\ user' = [user EXCEPT ![u] = x]
                         /\ x.op = user[u].op /\ x.session = established'
                         /\ x.pc = IF user[u].op = "init" THEN "list" ELSE "announce"
    <2>1. [user[u] EXCEPT !.session = established',
                          !.pc = IF user[u].op = "init" THEN "list" ELSE "announce"] \in Uses
      BY <1>1, <1>2, UseMember DEF Uses, McpPcs
    <2> QED  BY <1>1, <2>1, UseMember DEF Connect, Uses
  <1>4. UNCHANGED mixed /\ user[u].pc # "idle"
    BY DEF Connect, UserAt
  <1>5. Agreed(user[u]) => IF x.pc = "idle" THEN Shows' ELSE Agreed(x)'
    BY <1>1, <1>2, <1>3, McpNumbers
    DEF Connect, UserAt, Agreed, Follows, Shows, SoundUse, AtWork, HoldingPcs
  <1> QED  BY <1>1, <1>3, <1>4, <1>5, AgreeStep

LEMMA AgreeInvInit == McpInit => AgreeInv
  BY DEF McpInit, AgreeInv, Using, NoUse, Shows, Shown

LEMMA AgreeInvNext == McpInv /\ AgreeInv /\ [McpNext]_mcpVars => AgreeInv'
  <1> SUFFICES ASSUME McpInv, AgreeInv, [McpNext]_mcpVars PROVE AgreeInv'
    OBVIOUS
  <1>1. ASSUME UNCHANGED <<mcpSession, mcpState, user, mixed>>  PROVE AgreeInv'
    BY <1>1 DEF AgreeInv, Using, Agreed, Follows, Shows
  <1>2. CASE UNCHANGED mcpVars
    BY <1>1, <1>2 DEF mcpVars
  <1>3. ASSUME NEW s \in McpSessions, ServerDies(s)  PROVE AgreeInv'
    BY <1>1, <1>3 DEF ServerDies
  <1>4. ASSUME NEW u \in McpUsers,
               \/ InitClient(u) \/ InitDisabled(u) \/ LookUp(u) \/ DisableAbsent(u)
               \/ Connect(u) \/ ConnectFails(u) \/ Forget(u) \/ MarkError(u)
               \/ Listed(u) \/ ListFails(u) \/ UpdateTools(u)
        PROVE  AgreeInv'
    BY <1>4, BeginsAgree, InitDisabledAgrees, ConnectAgrees, ConnectFailsAgrees, ForgetAgrees,
       MarkErrorAgrees, ListedAgrees, ListFailsAgrees, UpdateToolsAgrees
  <1>5. ASSUME NEW u \in McpUsers,
               \/ StoreSession(u) \/ Report(u) \/ PingSucceeds(u) \/ PingFails(u)
               \/ AnnounceRenewed(u) \/ CallReturns(u) \/ CloseSession(u)
               \/ DeleteSession(u) \/ ClearTools(u) \/ MarkDisabled(u)
        PROVE  AgreeInv'
    BY <1>5, StoreSessionAgrees, ReportAgrees, PingSucceedsAgrees, PingFailsAgrees,
       AnnounceRenewedAgrees, CallReturnsAgrees, CloseSessionAgrees, DeleteSessionAgrees,
       ClearToolsAgrees, MarkDisabledAgrees
  <1> QED  BY <1>2, <1>3, <1>4, <1>5 DEF McpNext

(* When no operation on an MCP server is under way, and no two have        *)
(* overlapped, the state the user is shown and the map of sessions agree:  *)
(* a connected client is the one the next call uses, and after an error    *)
(* there is none.  updateState and the write of the map come in opposite   *)
(* orders in initClient and getOrRenewClient (mcp/init.go:262, 319).       *)
THEOREM StatesShownAgree == McpSpec => []StatesAgree
  <1>1. McpInv /\ AgreeInv => StatesAgree
    BY DEF AgreeInv, Shows, StatesAgree
  <1>2. McpInit => McpInv /\ AgreeInv
    BY McpInvInit, AgreeInvInit
  <1>3. (McpInv /\ AgreeInv) /\ [McpNext]_mcpVars => (McpInv /\ AgreeInv)'
    BY McpInvNext, AgreeInvNext
  <1> QED  BY <1>1, <1>2, <1>3, PTL DEF McpSpec

-----------------------------------------------------------------------------
(* The output of a run: an inductive invariant of RunEvents.               *)

RunTurns == [who : Turns, phase : {"streaming", "finished", "over"}, len : Nat]

Finals == [len : Nat, outcome : TurnOutcomes, on : Turns]

MessageEvents == [kind : {"message"}, turn : Turns, len : Nat]

RunCommands ==
    [status : {"waiting", "ok", "failed", "short"}, read : [Turns -> Nat]]

(* What may be under way: the RunCompletes of the turns that ended, and    *)
(* the notices of the goroutines that ended with the error of one of them. *)
EndedTurns == {Complete(t, final[t]) : t \in DOMAIN final}
Failed(t) == t \in DOMAIN final /\ final[t].outcome = "error"
Failures == {r \in DOMAIN final : \E t \in DOMAIN final : Failed(t) /\ final[t].on = r}
Truths == MessageEvents \cup EndedTurns \cup {Notice(r) : r \in Failures}
Debts == {[event |-> Complete(r, final[r]), outcome |-> o] :
            r \in DOMAIN final, o \in TurnOutcomes}

RunTypes ==
    /\ mode \in Modes
    /\ turn \in RunTurns
    /\ root \in Turns
    /\ queue \in Seq(Turns)
    /\ DOMAIN final \subseteq Turns
    /\ \A t \in DOMAIN final : final[t] \in Finals
    /\ late \subseteq MessageEvents
    /\ msgSub \in Seq(MessageEvents)
    /\ command \in RunCommands

(* A turn ends once, and a nested one after its root.  In process there is *)
(* no other turn.                                                          *)
TurnInv ==
    /\ turn.phase # "over" => /\ turn.who \notin DOMAIN final
                              /\ turn.who # root => root \in DOMAIN final
    /\ turn.phase # "over" => turn.who \notin QueuedTurns
    /\ QueuedTurns \cap DOMAIN final = {}
    /\ \A i, j \in DOMAIN queue : queue[i] = queue[j] => i = j
    /\ ~Client => queue = <<>> /\ turn.who = "mine" /\ root = "mine"

(* A turn's error is reported under the run ID of a turn that ended        *)
(* before it without an error, or its own.                                 *)
RootsInv ==
    /\ \A t \in DOMAIN final :
         final[t].on \in DOMAIN final /\ (final[t].on # t => final[final[t].on].outcome = "ok")
    /\ turn.phase # "over" /\ turn.who # root => final[root].outcome = "ok"

(* Whatever hop it has reached, an event tells what happened.              *)
UnderWayInv ==
    /\ owed \subseteq Debts
    /\ \A o \in owed : /\ o.outcome = "error" => o.event.turn \in Failures
                       /\ ~Client => "mine" \in DOMAIN final /\ o.outcome = final["mine"].outcome
    /\ doneSub \in Seq(EndedTurns)
    /\ evSub \in Seq(Truths)
    /\ wire \in Seq(Truths)
    /\ notices \subseteq Failures
    /\ ~Client /\ result # "none" => "mine" \in DOMAIN final /\ result = final["mine"].outcome

(* Until it ends, a command that has a run ID has printed nothing.         *)
PrintedInv ==
    Client /\ Waiting => command.read = [t \in Turns |-> 0]

RunInv ==
    RunTypes /\ TurnInv /\ RootsInv /\ UnderWayInv /\ PrintedInv /\ ExitTellsTheTruth

LEMMA SeqAppend ==
    ASSUME NEW S, NEW q \in Seq(S), NEW e \in S
    PROVE  Append(q, e) \in Seq(S)
  OBVIOUS

LEMMA SeqLossy ==
    ASSUME NEW S, NEW q \in Seq(S), NEW e \in S
    PROVE  Lossy(q, e) \in Seq(S)
  BY DEF Lossy

LEMMA SeqHead ==
    ASSUME NEW S, NEW q \in Seq(S), q # <<>>
    PROVE  Head(q) \in S /\ Tail(q) \in Seq(S)
  OBVIOUS

LEMMA SeqMore ==
    ASSUME NEW S, NEW T, S \subseteq T, NEW q \in Seq(S)
    PROVE  q \in Seq(T)
  OBVIOUS

LEMMA RunMember ==
    ASSUME RunTypes
    PROVE  /\ turn.who \in Turns /\ turn.phase \in {"streaming", "finished", "over"}
           /\ turn.len \in Nat
           /\ command.status \in {"waiting", "ok", "failed", "short"}
           /\ command.read \in [Turns -> Nat]
  BY DEF RunTypes, RunTurns, RunCommands

LEMMA FreshTurnTyped ==
    ASSUME NEW t \in Turns
    PROVE  /\ FreshTurn(t) \in RunTurns /\ FreshTurn(t).who = t
           /\ FreshTurn(t).phase = "streaming"
  BY DEF FreshTurn, RunTurns

(* A prompt joins the queue at its end and leaves it at its head.          *)
LEMMA QueueAppend ==
    ASSUME NEW q \in Seq(Turns), NEW t \in Turns, t \notin {q[i] : i \in DOMAIN q},
           \A i, j \in DOMAIN q : q[i] = q[j] => i = j
    PROVE  LET r == Append(q, t) IN
           /\ r \in Seq(Turns)
           /\ {r[i] : i \in DOMAIN r} = {q[i] : i \in DOMAIN q} \cup {t}
           /\ \A i, j \in DOMAIN r : r[i] = r[j] => i = j
  <1> DEFINE r == Append(q, t)
  <1>1. /\ r \in Seq(Turns) /\ DOMAIN r = DOMAIN q \cup {Len(q) + 1}
        /\ \A i \in DOMAIN q : r[i] = q[i] /\ i # Len(q) + 1
        /\ r[Len(q) + 1] = t
    OBVIOUS
  <1> HIDE DEF r
  <1>2. {r[i] : i \in DOMAIN r} = {q[i] : i \in DOMAIN q} \cup {t}
    BY <1>1
  <1>3. \A i, j \in DOMAIN r : r[i] = r[j] => i = j
    BY <1>1
  <1> QED  BY <1>1, <1>2, <1>3 DEF r

LEMMA QueueTail ==
    ASSUME NEW q \in Seq(Turns), q # <<>>,
           \A i, j \in DOMAIN q : q[i] = q[j] => i = j
    PROVE  LET r == Tail(q) IN
           /\ r \in Seq(Turns) /\ Head(q) \in Turns
           /\ {r[i] : i \in DOMAIN r} = {q[i] : i \in DOMAIN q} \ {Head(q)}
           /\ Head(q) \in {q[i] : i \in DOMAIN q}
           /\ \A i, j \in DOMAIN r : r[i] = r[j] => i = j
  <1> DEFINE r == Tail(q)
  <1>1. /\ r \in Seq(Turns) /\ Head(q) = q[1] /\ 1 \in DOMAIN q /\ q[1] \in Turns
        /\ \A i \in DOMAIN r : i \in Nat /\ r[i] = q[i + 1] /\ i + 1 \in DOMAIN q /\ i + 1 # 1
        /\ \A i \in DOMAIN q : i # 1 => i - 1 \in DOMAIN r /\ r[i - 1] = q[i]
    OBVIOUS
  <1> HIDE DEF r
  <1>2. {r[i] : i \in DOMAIN r} = {q[i] : i \in DOMAIN q} \ {Head(q)}
    <2>1. ASSUME NEW i \in DOMAIN r PROVE r[i] \in {q[k] : k \in DOMAIN q} \ {Head(q)}
      <3>1. r[i] = q[i + 1] /\ i + 1 \in DOMAIN q /\ i + 1 # 1
        BY <1>1
      <3>2. q[i + 1] # q[1]
        BY <1>1, <3>1
      <3> QED  BY <1>1, <3>1, <3>2
    <2>2. ASSUME NEW i \in DOMAIN q, q[i] # Head(q) PROVE q[i] \in {r[k] : k \in DOMAIN r}
      <3>1. i # 1
        BY <1>1, <2>2
      <3>2. i - 1 \in DOMAIN r /\ r[i - 1] = q[i]
        BY <1>1, <3>1
      <3> QED  BY <3>2
    <2> QED  BY <2>1, <2>2
  <1>3. \A i, j \in DOMAIN r : r[i] = r[j] => i = j
    <2> SUFFICES ASSUME NEW i \in DOMAIN r, NEW j \in DOMAIN r, r[i] = r[j] PROVE i = j
      OBVIOUS
    <2>1. i + 1 = j + 1
      BY <1>1
    <2> QED  BY <1>1, <2>1
  <1> QED  BY <1>1, <1>2, <1>3 DEF r

(* What is under way stays true when more turns have ended.                *)
LEMMA FinalGrows ==
    ASSUME DOMAIN final \subseteq DOMAIN final',
           \A t \in DOMAIN final : final'[t] = final[t]
    PROVE  /\ EndedTurns \subseteq EndedTurns' /\ Failures \subseteq Failures'
           /\ Truths \subseteq Truths' /\ Debts \subseteq Debts'
  <1>1. EndedTurns \subseteq EndedTurns'
    BY DEF EndedTurns
  <1>2. Failures \subseteq Failures'
    BY DEF Failures, Failed
  <1>3. Debts \subseteq Debts'
    BY DEF Debts
  <1> QED  BY <1>1, <1>2, <1>3 DEF Truths

LEMMA UnderWayGrows ==
    ASSUME UnderWayInv, DOMAIN final \subseteq DOMAIN final',
           \A t \in DOMAIN final : final'[t] = final[t],
           UNCHANGED <<mode, owed, doneSub, evSub, wire, notices, result>>
    PROVE  UnderWayInv'
  <1>1. /\ EndedTurns \subseteq EndedTurns' /\ Failures \subseteq Failures'
        /\ Truths \subseteq Truths' /\ Debts \subseteq Debts'
    BY FinalGrows
  <1>2. doneSub' \in Seq(EndedTurns') /\ evSub' \in Seq(Truths') /\ wire' \in Seq(Truths')
    BY <1>1, SeqMore DEF UnderWayInv
  <1>3. owed' \subseteq Debts' /\ notices' \subseteq Failures'
    BY <1>1 DEF UnderWayInv
  <1>4. \A o \in owed' : /\ o.outcome = "error" => o.event.turn \in Failures'
                         /\ ~Client' => "mine" \in DOMAIN final' /\ o.outcome = final'["mine"].outcome
    BY <1>1 DEF UnderWayInv, Client
  <1>5. ~Client' /\ result' # "none" => "mine" \in DOMAIN final' /\ result' = final'["mine"].outcome
    BY DEF UnderWayInv, Client
  <1> QED  BY <1>2, <1>3, <1>4, <1>5 DEF UnderWayInv, Client

(* While it waits the command has said nothing yet.                        *)
LEMMA StillWaiting ==
    ASSUME PrintedInv, Waiting, ExitTellsTheTruth, UNCHANGED <<mode, command>>
    PROVE  PrintedInv' /\ ExitTellsTheTruth'
  BY DEF PrintedInv, Waiting, ExitTellsTheTruth, Client

(* A step that writes neither the RunCompletes nor the command.            *)
LEMMA HopStep ==
    ASSUME RunInv, Waiting, UNCHANGED <<mode, root, queue, final, owed, result, command>>,
           turn' \in RunTurns, turn'.who = turn.who, turn'.phase = "over" <=> turn.phase = "over",
           late' \subseteq MessageEvents, msgSub' \in Seq(MessageEvents),
           doneSub' \in Seq(EndedTurns), evSub' \in Seq(Truths), wire' \in Seq(Truths),
           notices' \subseteq Failures
    PROVE  RunInv'
  <1>1. RunTypes /\ TurnInv /\ RootsInv /\ UnderWayInv /\ PrintedInv /\ ExitTellsTheTruth
    BY DEF RunInv
  <1>2. RunTypes'
    BY <1>1 DEF RunTypes
  <1>3. TurnInv' /\ RootsInv'
    BY <1>1 DEF TurnInv, RootsInv, QueuedTurns, Client
  <1>4. EndedTurns' = EndedTurns /\ Failures' = Failures /\ Truths' = Truths /\ Debts' = Debts
    BY DEF EndedTurns, Failures, Truths, Failed, Debts
  <1>5. UnderWayInv'
    BY <1>1, <1>4 DEF UnderWayInv, Client
  <1> QED  BY <1>1, <1>2, <1>3, <1>5, StillWaiting DEF RunInv

(* The same, when the session is left alone.                               *)
LEMMA HopQuiet ==
    ASSUME RunInv, Waiting, UNCHANGED <<mode, turnVars, result, command>>,
           late' \subseteq MessageEvents, msgSub' \in Seq(MessageEvents),
           doneSub' \in Seq(EndedTurns), evSub' \in Seq(Truths), wire' \in Seq(Truths),
           notices' \subseteq Failures
    PROVE  RunInv'
  BY HopStep DEF turnVars, RunInv, RunTypes

LEMMA StreamDeltaTrue ==
    ASSUME RunInv, Waiting, StreamDelta
    PROVE  RunInv'
  <1>1. RunTypes /\ UnderWayInv
    BY DEF RunInv
  <1>2. MessageEvent(turn.who, turn.len + 1) \in MessageEvents
    BY <1>1, RunMember DEF MessageEvent, MessageEvents
  <1>3. [turn EXCEPT !.len = @ + 1] \in RunTurns
    <2>1. turn \in RunTurns
      BY <1>1 DEF RunTypes
    <2> QED  BY <2>1 DEF RunTurns
  <1>4. turn' \in RunTurns /\ turn'.who = turn.who /\ turn'.phase = turn.phase
    BY <1>1, <1>3, RunMember DEF RunTurns, RunTypes, StreamDelta
  <1>5. late' \subseteq MessageEvents
    BY <1>1, <1>2 DEF StreamDelta, RunTypes
  <1> QED  BY <1>1, <1>4, <1>5, HopStep DEF StreamDelta, RunTypes, UnderWayInv

LEMMA FinishMessageTrue ==
    ASSUME RunInv, Waiting, FinishMessage
    PROVE  RunInv'
  <1>1. RunTypes /\ UnderWayInv
    BY DEF RunInv
  <1>2. MessageEvent(turn.who, turn.len) \in MessageEvents
    BY <1>1, RunMember DEF MessageEvent, MessageEvents
  <1>3. [turn EXCEPT !.phase = "finished"] \in RunTurns
    <2>1. turn \in RunTurns
      BY <1>1 DEF RunTypes
    <2> QED  BY <2>1 DEF RunTurns
  <1>4. turn' \in RunTurns /\ turn'.who = turn.who /\ turn'.phase = "finished"
    BY <1>1, <1>3, RunMember DEF RunTurns, RunTypes, FinishMessage
  <1>5. msgSub' \in Seq(MessageEvents)
    BY <1>1, <1>2, SeqLossy DEF FinishMessage, RunTypes
  <1> QED  BY <1>1, <1>4, <1>5, HopStep DEF FinishMessage, RunTypes, UnderWayInv

LEMMA PublishLateTrue ==
    ASSUME RunInv, Waiting, NEW e \in late, PublishLate(e)
    PROVE  RunInv'
  <1>1. RunTypes /\ UnderWayInv
    BY DEF RunInv
  <1>2. e \in MessageEvents
    BY <1>1 DEF RunTypes
  <1>3. msgSub' \in Seq(MessageEvents) /\ late' \subseteq MessageEvents
    BY <1>1, <1>2, SeqLossy DEF PublishLate, RunTypes
  <1> QED  BY <1>1, <1>3, HopQuiet DEF PublishLate, UnderWayInv

LEMMA ForwardMessageTrue ==
    ASSUME RunInv, Waiting, ForwardMessage
    PROVE  RunInv'
  <1>1. RunTypes /\ UnderWayInv
    BY DEF RunInv
  <1>2. Head(msgSub) \in MessageEvents /\ msgSub' \in Seq(MessageEvents)
    BY <1>1, SeqHead DEF ForwardMessage, RunTypes
  <1>3. Head(msgSub) \in Truths
    BY <1>2 DEF Truths
  <1>4. evSub' \in Seq(Truths)
    BY <1>1, <1>3, SeqLossy DEF ForwardMessage, UnderWayInv
  <1> QED  BY <1>1, <1>2, <1>4, HopQuiet DEF ForwardMessage, UnderWayInv, RunTypes

LEMMA ForwardNoticeTrue ==
    ASSUME RunInv, Waiting, NEW t \in Turns, ForwardNotice(t)
    PROVE  RunInv'
  <1>1. RunTypes /\ UnderWayInv
    BY DEF RunInv
  <1>2. Notice(t) \in Truths
    BY <1>1 DEF ForwardNotice, UnderWayInv, Truths
  <1>3. evSub' \in Seq(Truths) /\ notices' \subseteq Failures
    BY <1>1, <1>2, SeqLossy DEF ForwardNotice, UnderWayInv
  <1> QED  BY <1>1, <1>3, HopQuiet DEF ForwardNotice, UnderWayInv, RunTypes

LEMMA ForwardCompleteTrue ==
    ASSUME RunInv, Waiting, ForwardComplete
    PROVE  RunInv'
  <1>1. RunTypes /\ UnderWayInv
    BY DEF RunInv
  <1>2. Head(doneSub) \in EndedTurns /\ doneSub' \in Seq(EndedTurns)
    BY <1>1, SeqHead DEF ForwardComplete, UnderWayInv
  <1>3. Head(doneSub) \in Truths
    BY <1>2 DEF Truths
  <1>4. evSub' \in Seq(Truths)
    BY <1>1, <1>3, SeqAppend DEF ForwardComplete, UnderWayInv
  <1> QED  BY <1>1, <1>2, <1>4, HopQuiet DEF ForwardComplete, UnderWayInv, RunTypes

LEMMA ForwardExpiresTrue ==
    ASSUME RunInv, Waiting, ForwardExpires
    PROVE  RunInv'
  <1>1. RunTypes /\ UnderWayInv
    BY DEF RunInv
  <1>2. doneSub' \in Seq(EndedTurns)
    BY <1>1, SeqHead DEF ForwardExpires, UnderWayInv
  <1> QED  BY <1>1, <1>2, HopQuiet DEF ForwardExpires, UnderWayInv, RunTypes

LEMMA WriteEventTrue ==
    ASSUME RunInv, Waiting, WriteEvent
    PROVE  RunInv'
  <1>1. RunTypes /\ UnderWayInv
    BY DEF RunInv
  <1>2. Head(evSub) \in Truths /\ evSub' \in Seq(Truths)
    BY <1>1, SeqHead DEF WriteEvent, UnderWayInv
  <1>3. wire' \in Seq(Truths)
    BY <1>1, <1>2, SeqAppend DEF WriteEvent, UnderWayInv
  <1> QED  BY <1>1, <1>2, <1>3, HopQuiet DEF WriteEvent, UnderWayInv, RunTypes

LEMMA DisconnectTrue ==
    ASSUME RunInv, Waiting, NEW how, Disconnect(how)
    PROVE  RunInv'
  <1>1. RunTypes /\ UnderWayInv
    BY DEF RunInv
  <1>2. evSub' \in Seq(Truths)
    BY DEF Disconnect
  <1> QED  BY <1>1, <1>2, HopQuiet DEF Disconnect, UnderWayInv, RunTypes

(* Deliver only ever adds the event.                                       *)
LEMMA Delivers ==
    ASSUME NEW S, doneSub \in Seq(S), NEW e \in S, Deliver(e)
    PROVE  doneSub' \in Seq(S)
  BY SeqAppend DEF Deliver

LEMMA ArriveTrue ==
    ASSUME RunInv, Waiting, NEW t \in Turns, Arrive(t)
    PROVE  RunInv'
  <1>1. RunTypes /\ TurnInv /\ RootsInv /\ UnderWayInv /\ PrintedInv /\ ExitTellsTheTruth
    BY DEF RunInv
  <1>2. /\ Client /\ t # turn.who /\ t \notin QueuedTurns /\ t \notin DOMAIN final
        /\ UNCHANGED <<mode, final, owed, late, msgSub, doneSub, notices, evSub, wire,
                       link, result, command, expired>>
    BY DEF Arrive, Arrived
  <1>3. UnderWayInv'
    BY <1>1, <1>2, UnderWayGrows
  <1>4. CASE turn.phase = "over"
    <2>1. turn' = FreshTurn(t) /\ root' = t /\ queue' = queue
      BY <1>4 DEF Arrive
    <2>2. turn' \in RunTurns /\ turn'.who = t /\ QueuedTurns' = QueuedTurns
      BY <2>1, FreshTurnTyped DEF QueuedTurns
    <2>3. RunTypes'
      BY <1>1, <1>2, <2>1, <2>2 DEF RunTypes
    <2>4. TurnInv'
      BY <1>1, <1>2, <2>1, <2>2 DEF TurnInv, Client
    <2>5. RootsInv'
      BY <1>1, <1>2, <2>1, <2>2 DEF RootsInv
    <2> QED  BY <1>1, <1>2, <1>3, <2>3, <2>4, <2>5, StillWaiting DEF RunInv
  <1>5. CASE turn.phase # "over"
    <2>1. queue' = Append(queue, t) /\ turn' = turn /\ root' = root
      BY <1>5 DEF Arrive
    <2>2. /\ queue' \in Seq(Turns)
          /\ QueuedTurns' = QueuedTurns \cup {t}
          /\ \A i, j \in DOMAIN queue' : queue'[i] = queue'[j] => i = j
      <3>1. /\ queue \in Seq(Turns) /\ t \notin {queue[i] : i \in DOMAIN queue}
            /\ \A i, j \in DOMAIN queue : queue[i] = queue[j] => i = j
        BY <1>1, <1>2 DEF RunTypes, TurnInv, QueuedTurns
      <3>2. LET r == Append(queue, t) IN
            /\ r \in Seq(Turns)
            /\ {r[i] : i \in DOMAIN r} = {queue[i] : i \in DOMAIN queue} \cup {t}
            /\ \A i, j \in DOMAIN r : r[i] = r[j] => i = j
        BY <3>1, QueueAppend
      <3> QED  BY <2>1, <3>2 DEF QueuedTurns
    <2>3. RunTypes'
      BY <1>1, <1>2, <2>1, <2>2 DEF RunTypes
    <2>4. TurnInv'
      BY <1>1, <1>2, <2>1, <2>2 DEF TurnInv, Client
    <2>5. RootsInv'
      BY <1>1, <1>2, <2>1 DEF RootsInv
    <2> QED  BY <1>1, <1>2, <1>3, <2>3, <2>4, <2>5, StillWaiting DEF RunInv
  <1> QED  BY <1>4, <1>5

(* The end of a turn adds its RunComplete and changes no other.            *)
LEMMA EndTurnTrue ==
    ASSUME RunInv, Waiting, NEW o \in TurnOutcomes, EndTurn(o)
    PROVE  RunInv'
  <1>1. RunTypes /\ TurnInv /\ RootsInv /\ UnderWayInv /\ PrintedInv /\ ExitTellsTheTruth
    BY DEF RunInv
  <1> DEFINE w == turn.who
             f == [len |-> turn.len, outcome |-> o, on |-> root]
             ended == [t \in DOMAIN final \cup {w} |-> IF t = w THEN f ELSE final[t]]
  <1>2. /\ turn.phase = "finished" /\ w \notin DOMAIN final /\ w \in Turns /\ root \in Turns
        /\ w \notin QueuedTurns /\ (w # root => root \in DOMAIN final)
    BY <1>1, RunMember DEF EndTurn, TurnInv, RunTypes
  <1>3. /\ final' = ended
        /\ IF w = root THEN UNCHANGED <<doneSub, expired>> ELSE Deliver(Complete(w, f))
        /\ UNCHANGED <<mode, root, late, msgSub, notices, evSub, wire, link, result, command>>
    BY DEF EndTurn
  <1>4. /\ o = "ok" /\ queue # <<>> =>
             turn' = FreshTurn(Head(queue)) /\ queue' = Tail(queue) /\ owed' = owed
        /\ ~(o = "ok" /\ queue # <<>>) =>
             /\ turn' = [turn EXCEPT !.phase = "over"]
             /\ owed' = owed \cup {[event |-> Complete(root, ended[root]), outcome |-> o]}
             /\ queue' = queue
    BY DEF EndTurn
  <1>5. f \in Finals /\ f.len = turn.len /\ f.outcome = o /\ f.on = root
    BY <1>1, <1>2, RunMember DEF Finals
  <1> HIDE DEF f
  <1>6. /\ DOMAIN final' = DOMAIN final \cup {w}
        /\ final'[w] = f
        /\ \A t \in DOMAIN final : final'[t] = final[t]
        /\ root \in DOMAIN final'
    BY <1>2, <1>3
  <1>7. owed' \subseteq owed \cup {[event |-> Complete(root, final'[root]), outcome |-> o]}
    BY <1>3, <1>4
  <1> HIDE DEF ended
  <1>8. /\ EndedTurns \subseteq EndedTurns' /\ Failures \subseteq Failures'
        /\ Truths \subseteq Truths' /\ Debts \subseteq Debts'
    BY <1>6, FinalGrows
  <1>9. /\ turn' \in RunTurns /\ queue' \in Seq(Turns)
        /\ \A i, j \in DOMAIN queue' : queue'[i] = queue'[j] => i = j
        /\ QueuedTurns' \subseteq QueuedTurns
        /\ turn'.phase # "over" =>
             o = "ok" /\ turn'.who \in QueuedTurns /\ turn'.who \notin QueuedTurns'
        /\ ~Client => turn'.who = "mine" /\ queue' = <<>> /\ turn'.phase = "over"
    <2>1. CASE o = "ok" /\ queue # <<>>
      <3>1. /\ queue' \in Seq(Turns) /\ Head(queue) \in QueuedTurns /\ Head(queue) \in Turns
            /\ QueuedTurns' = QueuedTurns \ {Head(queue)}
            /\ \A i, j \in DOMAIN queue' : queue'[i] = queue'[j] => i = j
        <4>1. /\ queue \in Seq(Turns) /\ queue # <<>>
              /\ \A i, j \in DOMAIN queue : queue[i] = queue[j] => i = j
          BY <1>1, <2>1 DEF RunTypes, TurnInv
        <4>2. LET r == Tail(queue) IN
              /\ r \in Seq(Turns) /\ Head(queue) \in Turns
              /\ {r[i] : i \in DOMAIN r} = {queue[i] : i \in DOMAIN queue} \ {Head(queue)}
              /\ Head(queue) \in {queue[i] : i \in DOMAIN queue}
              /\ \A i, j \in DOMAIN r : r[i] = r[j] => i = j
          BY <4>1, QueueTail
        <4> QED  BY <1>4, <2>1, <4>2 DEF QueuedTurns
      <3>2. turn' \in RunTurns /\ turn'.who = Head(queue)
        BY <1>4, <2>1, <3>1, FreshTurnTyped
      <3>3. Client
        BY <1>1, <2>1 DEF TurnInv
      <3> QED  BY <2>1, <3>1, <3>2, <3>3
    <2>2. CASE ~(o = "ok" /\ queue # <<>>)
      <3>1. [turn EXCEPT !.phase = "over"] \in RunTurns
        BY <1>1, RunMember DEF RunTurns, RunTypes
      <3>2. turn' \in RunTurns /\ turn'.phase = "over" /\ turn'.who = w
        BY <1>1, <1>4, <2>2, <3>1, RunMember DEF RunTurns, RunTypes
      <3>3. queue' = queue /\ QueuedTurns' = QueuedTurns
        BY <1>4, <2>2 DEF QueuedTurns
      <3> QED  BY <1>1, <3>2, <3>3 DEF RunTypes, TurnInv
    <2> QED  BY <2>1, <2>2
  <1>10. RunTypes'
    <2>1. \A t \in DOMAIN final' : final'[t] \in Finals
      BY <1>1, <1>5, <1>6 DEF RunTypes
    <2> QED  BY <1>1, <1>2, <1>3, <1>6, <1>9, <2>1 DEF RunTypes
  <1>11. TurnInv'
    <2>1. QueuedTurns' \cap DOMAIN final' = {}
      BY <1>1, <1>2, <1>6, <1>9 DEF TurnInv
    <2>2. turn'.phase # "over" => turn'.who \notin DOMAIN final' /\ turn'.who \notin QueuedTurns'
      BY <1>1, <1>2, <1>6, <1>9 DEF TurnInv
    <2>3. ~Client' => queue' = <<>> /\ turn'.who = "mine" /\ root' = "mine"
      BY <1>1, <1>3, <1>9 DEF TurnInv, Client
    <2> QED  BY <1>3, <1>6, <1>9, <2>1, <2>2, <2>3 DEF TurnInv
  <1>12. RootsInv'
    <2>1. w # root => final'[root].outcome = "ok"
      BY <1>1, <1>2, <1>6 DEF RootsInv
    <2>2. o = "ok" => final'[root].outcome = "ok"
      BY <1>5, <1>6, <2>1
    <2>3. \A t \in DOMAIN final' :
            final'[t].on \in DOMAIN final' /\ (final'[t].on # t => final'[final'[t].on].outcome = "ok")
      <3> SUFFICES ASSUME NEW t \in DOMAIN final'
                   PROVE  /\ final'[t].on \in DOMAIN final'
                          /\ final'[t].on # t => final'[final'[t].on].outcome = "ok"
        OBVIOUS
      <3>1. CASE t = w
        BY <1>5, <1>6, <2>1, <3>1
      <3>2. CASE t \in DOMAIN final
        BY <1>1, <1>6, <3>2 DEF RootsInv
      <3> QED  BY <1>6, <3>1, <3>2
    <2> QED  BY <1>3, <1>9, <2>2, <2>3 DEF RootsInv
  <1>13. UnderWayInv'
    <2>1. doneSub' \in Seq(EndedTurns')
      <3>1. doneSub \in Seq(EndedTurns')
        BY <1>1, <1>8, SeqMore DEF UnderWayInv
      <3>2. Complete(w, f) \in EndedTurns'
        BY <1>6 DEF EndedTurns
      <3> QED  BY <1>3, <3>1, <3>2, Delivers
    <2>2. evSub' \in Seq(Truths') /\ wire' \in Seq(Truths') /\ notices' \subseteq Failures'
      BY <1>1, <1>3, <1>8, SeqMore DEF UnderWayInv
    <2>3. o = "error" => root \in Failures'
      BY <1>5, <1>6 DEF Failures, Failed
    <2>4. owed' \subseteq Debts'
      <3>1. [event |-> Complete(root, final'[root]), outcome |-> o] \in Debts'
        BY <1>6 DEF Debts
      <3> QED  BY <1>1, <1>7, <1>8, <3>1 DEF UnderWayInv
    <2>5. ~Client => w = "mine" /\ root = "mine"
      BY <1>1 DEF TurnInv
    <2>6. \A d \in owed' : /\ d.outcome = "error" => d.event.turn \in Failures'
                           /\ ~Client' => "mine" \in DOMAIN final' /\ d.outcome = final'["mine"].outcome
      <3> SUFFICES ASSUME NEW d \in owed'
                   PROVE  /\ d.outcome = "error" => d.event.turn \in Failures'
                          /\ ~Client => "mine" \in DOMAIN final' /\ d.outcome = final'["mine"].outcome
        BY <1>3 DEF Client
      <3>1. CASE d \in owed
        BY <1>1, <1>6, <1>8, <3>1 DEF UnderWayInv
      <3>2. CASE d = [event |-> Complete(root, final'[root]), outcome |-> o]
        BY <1>5, <1>6, <2>3, <2>5, <3>2 DEF Complete
      <3> QED  BY <1>7, <3>1, <3>2
    <2>7. ~Client' /\ result' # "none" => "mine" \in DOMAIN final' /\ result' = final'["mine"].outcome
      BY <1>1, <1>3, <1>6 DEF UnderWayInv, Client
    <2> QED  BY <2>1, <2>2, <2>4, <2>6, <2>7 DEF UnderWayInv, Client
  <1> QED  BY <1>1, <1>3, <1>10, <1>11, <1>12, <1>13, StillWaiting DEF RunInv

(* So do the prompts a Cancel drops.                                       *)
LEMMA DropQueuedTrue ==
    ASSUME RunInv, Waiting, DropQueued
    PROVE  RunInv'
  <1>1. RunTypes /\ TurnInv /\ RootsInv /\ UnderWayInv /\ PrintedInv /\ ExitTellsTheTruth
    BY DEF RunInv
  <1> DEFINE f(t) == [len |-> 0, outcome |-> "cancelled", on |-> t]
  <1>2. /\ queue # <<>> /\ queue' = <<>>
        /\ final' = [t \in DOMAIN final \cup QueuedTurns |->
                       IF t \in QueuedTurns THEN f(t) ELSE final[t]]
        /\ owed' = owed \cup {[event |-> Complete(t, f(t)), outcome |-> "cancelled"] :
                              t \in QueuedTurns}
        /\ UNCHANGED <<mode, turn, root, late, msgSub, doneSub, notices, evSub, wire,
                       link, result, command, expired>>
    BY DEF DropQueued
  <1>3. QueuedTurns \subseteq Turns /\ QueuedTurns \cap DOMAIN final = {} /\ Client
    BY <1>1, <1>2 DEF QueuedTurns, RunTypes, TurnInv
  <1>4. /\ DOMAIN final' = DOMAIN final \cup QueuedTurns
        /\ \A t \in DOMAIN final : final'[t] = final[t]
        /\ \A t \in QueuedTurns : final'[t] = f(t)
    BY <1>2, <1>3
  <1>5. \A t \in QueuedTurns : f(t) \in Finals /\ f(t).on = t /\ f(t).outcome = "cancelled"
    BY <1>3 DEF Finals, TurnOutcomes
  <1> HIDE DEF f
  <1>6. /\ EndedTurns \subseteq EndedTurns' /\ Failures \subseteq Failures'
        /\ Truths \subseteq Truths' /\ Debts \subseteq Debts'
    BY <1>4, FinalGrows
  <1>7. QueuedTurns' = {} /\ DOMAIN queue' = {}
    BY <1>2 DEF QueuedTurns
  <1>8. RunTypes'
    <2>1. \A t \in DOMAIN final' : final'[t] \in Finals
      BY <1>1, <1>4, <1>5 DEF RunTypes
    <2>2. queue' \in Seq(Turns)
      BY <1>2
    <2> QED  BY <1>1, <1>2, <1>3, <1>4, <2>1, <2>2 DEF RunTypes
  <1>9. TurnInv'
    BY <1>1, <1>2, <1>3, <1>4, <1>7 DEF TurnInv, Client
  <1>10. RootsInv'
    <2>1. \A t \in DOMAIN final' :
            final'[t].on \in DOMAIN final' /\ (final'[t].on # t => final'[final'[t].on].outcome = "ok")
      BY <1>1, <1>4, <1>5 DEF RootsInv
    <2>2. turn'.phase # "over" /\ turn'.who # root' => final'[root'].outcome = "ok"
      BY <1>1, <1>2, <1>4 DEF RootsInv, TurnInv
    <2> QED  BY <2>1, <2>2 DEF RootsInv
  <1>11. UnderWayInv'
    <2>1. doneSub' \in Seq(EndedTurns') /\ evSub' \in Seq(Truths') /\ wire' \in Seq(Truths')
      BY <1>1, <1>2, <1>6, SeqMore DEF UnderWayInv
    <2>2. \A t \in QueuedTurns : [event |-> Complete(t, f(t)), outcome |-> "cancelled"] \in Debts'
      BY <1>4 DEF Debts, TurnOutcomes
    <2>3. owed' \subseteq Debts' /\ notices' \subseteq Failures'
      BY <1>1, <1>2, <1>6, <2>2 DEF UnderWayInv
    <2>4. \A d \in owed' : d.outcome = "error" => d.event.turn \in Failures'
      BY <1>1, <1>2, <1>6 DEF UnderWayInv
    <2> QED  BY <1>2, <1>3, <2>1, <2>3, <2>4 DEF UnderWayInv, Client
  <1> QED  BY <1>1, <1>2, <1>8, <1>9, <1>10, <1>11, StillWaiting DEF RunInv

(* A goroutine that is back publishes what it owes.                        *)
LEMMA RunReturnsTrue ==
    ASSUME RunInv, Waiting, NEW o \in owed, RunReturns(o)
    PROVE  RunInv'
  <1>1. RunTypes /\ TurnInv /\ RootsInv /\ UnderWayInv /\ PrintedInv /\ ExitTellsTheTruth
    BY DEF RunInv
  <1>2. /\ owed' = owed \ {o} /\ Deliver(o.event)
        /\ notices' = IF Client /\ o.outcome = "error" THEN notices \cup {o.event.turn} ELSE notices
        /\ result' = IF Client THEN result ELSE o.outcome
        /\ UNCHANGED <<mode, turn, root, queue, final, late, msgSub, evSub, wire, link,
                       command>>
    BY DEF RunReturns
  <1>3. EndedTurns' = EndedTurns /\ Failures' = Failures /\ Truths' = Truths /\ Debts' = Debts
    BY <1>2 DEF EndedTurns, Failures, Truths, Failed, Debts
  <1>4. o.event \in EndedTurns
    BY <1>1 DEF UnderWayInv, Debts, EndedTurns
  <1>5. doneSub' \in Seq(EndedTurns)
    BY <1>1, <1>2, <1>4, Delivers DEF UnderWayInv
  <1>6. notices' \subseteq Failures
    BY <1>1, <1>2 DEF UnderWayInv
  <1>7. ~Client' /\ result' # "none" => "mine" \in DOMAIN final' /\ result' = final'["mine"].outcome
    BY <1>1, <1>2 DEF UnderWayInv, Client
  <1>8. UnderWayInv'
    BY <1>1, <1>2, <1>3, <1>5, <1>6, <1>7 DEF UnderWayInv, Client
  <1>9. RunTypes'
    BY <1>1, <1>2 DEF RunTypes
  <1>10. TurnInv' /\ RootsInv'
    BY <1>1, <1>2 DEF TurnInv, RootsInv, QueuedTurns, Client
  <1> QED  BY <1>1, <1>2, <1>8, <1>9, <1>10, StillWaiting DEF RunInv

-----------------------------------------------------------------------------
(* A step of the command itself.                                           *)
LEMMA CommandStep ==
    ASSUME RunInv, UNCHANGED <<mode, turnVars, late, doneSub, notices, evSub, result>>,
           msgSub' \in Seq(MessageEvents), wire' \in Seq(Truths),
           command' \in RunCommands, PrintedInv', ExitTellsTheTruth'
    PROVE  RunInv'
  <1>1. RunTypes /\ TurnInv /\ RootsInv /\ UnderWayInv
    BY DEF RunInv
  <1>2. UNCHANGED <<mode, turn, root, queue, final, owed>>
    BY DEF turnVars
  <1>3. RunTypes' /\ TurnInv' /\ RootsInv'
    BY <1>1, <1>2 DEF RunTypes, TurnInv, RootsInv, QueuedTurns, Client
  <1>4. EndedTurns' = EndedTurns /\ Failures' = Failures /\ Truths' = Truths /\ Debts' = Debts
    BY <1>2 DEF EndedTurns, Failures, Truths, Failed, Debts
  <1>5. UnderWayInv'
    BY <1>1, <1>2, <1>4 DEF UnderWayInv, Client
  <1> QED  BY <1>3, <1>5 DEF RunInv

LEMMA ExitWrites ==
    ASSUME RunTypes, NEW st \in {"ok", "failed", "short"}, Exit(st)
    PROVE  /\ command' \in RunCommands
           /\ command'.status = st /\ command'.read = command.read
  <1>1. [command EXCEPT !.status = st] \in RunCommands
    BY RunMember DEF RunTypes, RunCommands
  <1> QED  BY <1>1, RunMember DEF Exit, RunTypes, RunCommands

(* The event that ends the command is the truth about its own turn, or, a  *)
(* notice, about a turn its goroutine ran afterwards.                      *)
LEMMA HandledTruth ==
    ASSUME RunTypes, RootsInv, NEW e \in Truths, e.kind # "message", e.turn = "mine"
    PROVE  /\ "mine" \in DOMAIN final /\ final["mine"] \in Finals
           /\ e.kind = "notice" => \E t \in DOMAIN final :
                /\ final[t].outcome = "error"
                /\ t = "mine" \/ (final["mine"].outcome # "error" /\ final[t].on = "mine")
           /\ e.kind # "notice" => e = Complete("mine", final["mine"])
  <1>1. CASE e \in MessageEvents
    BY <1>1 DEF MessageEvents
  <1>2. CASE e \in EndedTurns
    <2>1. PICK t \in DOMAIN final : e = Complete(t, final[t])
      BY <1>2 DEF EndedTurns
    <2>2. t = "mine" /\ e.kind = "complete"
      BY <2>1 DEF Complete
    <2> QED  BY <2>1, <2>2 DEF RunTypes
  <1>3. CASE e \in {Notice(r) : r \in Failures}
    <2>1. PICK r \in Failures : e = Notice(r)
      BY <1>3
    <2>2. r = "mine" /\ e.kind = "notice" /\ "mine" \in Failures
      BY <2>1 DEF Notice
    <2>3. PICK t \in DOMAIN final : final[t].outcome = "error" /\ final[t].on = "mine"
      BY <2>2 DEF Failures, Failed
    <2>4. t # "mine" => final["mine"].outcome = "ok"
      BY <2>3 DEF RootsInv
    <2> QED  BY <2>2, <2>3, <2>4 DEF Failures, RunTypes
  <1> QED  BY <1>1, <1>2, <1>3 DEF Truths

LEMMA ReadEventTrue ==
    ASSUME RunInv, Waiting, ReadEvent
    PROVE  RunInv'
  <1>1. RunTypes /\ RootsInv /\ UnderWayInv /\ PrintedInv /\ ExitTellsTheTruth
    BY DEF RunInv
  <1> DEFINE e == Head(wire)
  <1>2. /\ e \in Truths /\ wire' \in Seq(Truths)
        /\ UNCHANGED <<mode, turnVars, late, msgSub, doneSub, notices, evSub, link,
                       result, expired>>
    BY <1>1, SeqHead DEF ReadEvent, UnderWayInv
  <1>3. /\ Client /\ Client' /\ command.read = [t \in Turns |-> 0]
        /\ msgSub' \in Seq(MessageEvents) /\ final' = final
    BY <1>1, <1>2 DEF ReadEvent, Client, PrintedInv, RunTypes, turnVars
  <1>4. CASE e.kind = "message" \/ e.turn # "mine"
    <2>1. UNCHANGED command
      BY <1>4 DEF ReadEvent, Handle
    <2>2. command' \in RunCommands /\ PrintedInv' /\ ExitTellsTheTruth'
      BY <1>1, <1>2, <2>1, StillWaiting DEF RunTypes
    <2> QED  BY <1>2, <1>3, <2>2, CommandStep
  <1>5. CASE e.kind # "message" /\ e.turn = "mine"
    <2>1. /\ "mine" \in DOMAIN final /\ final["mine"] \in Finals
          /\ e.kind = "notice" => \E t \in DOMAIN final :
               /\ final[t].outcome = "error"
               /\ t = "mine" \/ (final["mine"].outcome # "error" /\ final[t].on = "mine")
          /\ e.kind # "notice" => e = Complete("mine", final["mine"])
      BY <1>1, <1>2, <1>5, HandledTruth
    <2>2. CASE e.kind = "notice" \/ e.outcome = "error"
      <3>1. Exit("failed")
        BY <1>5, <2>2 DEF ReadEvent, Handle
      <3>2. /\ command' \in RunCommands
            /\ command'.status = "failed" /\ command'.read = command.read
        BY <1>1, <3>1, ExitWrites
      <3>3. \E t \in DOMAIN final :
               /\ final[t].outcome = "error"
               /\ t = "mine" \/ (final["mine"].outcome # "error" /\ final[t].on = "mine")
        BY <2>1, <2>2 DEF Complete
      <3>4. \A t \in Turns : command'.read[t] = 0
        BY <1>3, <3>2
      <3>5. PrintedInv' /\ ExitTellsTheTruth'
        BY <1>3, <2>1, <3>2, <3>3, <3>4 DEF PrintedInv, Waiting, ExitTellsTheTruth
      <3> QED  BY <1>2, <1>3, <3>2, <3>5, CommandStep
    <2>3. CASE ~(e.kind = "notice" \/ e.outcome = "error")
      <3>1. e.len = final["mine"].len /\ final["mine"].outcome # "error" /\ e.len \in Nat
        BY <2>1, <2>3 DEF Complete, Finals
      <3>2. command' = [command EXCEPT !.status = "ok",
                          !.read["mine"] = IF @ < e.len THEN e.len ELSE @]
        BY <1>5, <2>3 DEF ReadEvent, Handle
      <3>3. /\ command' \in RunCommands /\ command'.status = "ok"
            /\ command'.read["mine"] = e.len
            /\ \A t \in Turns \ {"mine"} : command'.read[t] = 0
        <4>1. [command.read EXCEPT !["mine"] = e.len] \in [Turns -> Nat]
          BY <1>1, <3>1, RunMember
        <4>2. [command EXCEPT !.status = "ok", !.read = [command.read EXCEPT !["mine"] = e.len]]
                \in RunCommands
          BY <1>1, <4>1, RunMember DEF RunTypes, RunCommands
        <4>3. command.read["mine"] = 0 /\ \A t \in Turns : command.read[t] = 0
          BY <1>3 DEF Turns
        <4>4. (IF command.read["mine"] < e.len THEN e.len ELSE command.read["mine"]) = e.len
          BY <3>1, <4>3
        <4>5. command' = [command EXCEPT !.status = "ok",
                            !.read = [command.read EXCEPT !["mine"] = e.len]]
          BY <1>1, <3>2, <4>4, RunMember DEF RunTypes, RunCommands
        <4> HIDE DEF e
        <4>6. command'.status = "ok" /\ command'.read = [command.read EXCEPT !["mine"] = e.len]
          BY <1>1, <4>5, RunMember DEF RunTypes, RunCommands
        <4>7. /\ command'.read["mine"] = e.len
              /\ \A t \in Turns \ {"mine"} : command'.read[t] = 0
          BY <1>1, <4>3, <4>6, RunMember DEF Turns
        <4> QED  BY <4>2, <4>5, <4>6, <4>7
      <3>4. PrintedInv' /\ ExitTellsTheTruth'
        BY <1>3, <2>1, <3>1, <3>3 DEF PrintedInv, Waiting, ExitTellsTheTruth
      <3> QED  BY <1>2, <1>3, <3>3, <3>4, CommandStep
    <2> QED  BY <2>2, <2>3
  <1> QED  BY <1>4, <1>5

LEMMA StreamClosedTrue ==
    ASSUME RunInv, Waiting, StreamClosed
    PROVE  RunInv'
  <1>1. RunTypes /\ UnderWayInv /\ PrintedInv /\ ExitTellsTheTruth
    BY DEF RunInv
  <1>2. /\ command' \in RunCommands
        /\ command'.status = "ok" /\ command'.read = command.read
    BY <1>1, ExitWrites DEF StreamClosed
  <1>3. /\ Client /\ Client' /\ wire' = <<>> /\ link' = "eof"
        /\ UNCHANGED <<mode, turnVars, late, msgSub, doneSub, notices, evSub, wire, result>>
    BY DEF StreamClosed, Client
  <1>4. \A t \in Turns : command'.read[t] = 0
    BY <1>1, <1>2, <1>3 DEF PrintedInv
  <1>5. PrintedInv' /\ ExitTellsTheTruth'
    BY <1>2, <1>3, <1>4 DEF PrintedInv, Waiting, ExitTellsTheTruth, Turns
  <1> QED  BY <1>1, <1>2, <1>3, <1>5, CommandStep DEF UnderWayInv, RunTypes

LEMMA TakeMessageTrue ==
    ASSUME RunInv, Waiting, TakeMessage
    PROVE  RunInv'
  <1>1. RunTypes /\ UnderWayInv
    BY DEF RunInv
  <1> DEFINE e == Head(msgSub)
  <1>2. e \in MessageEvents /\ msgSub' \in Seq(MessageEvents)
    BY <1>1, SeqHead DEF TakeMessage, RunTypes
  <1>3. ~Client'
    BY DEF TakeMessage, Client
  <1>4. command' \in RunCommands /\ command'.status \in {"waiting", "short"}
    <2>1. CASE Exit("short")
      BY <1>1, <2>1, ExitWrites
    <2>2. CASE command' = [command EXCEPT !.read[e.turn] = e.len]
      <3>1. e.turn \in Turns /\ e.len \in Nat
        BY <1>2 DEF MessageEvents
      <3>2. [command.read EXCEPT ![e.turn] = e.len] \in [Turns -> Nat]
        BY <1>1, <3>1, RunMember
      <3>3. [command EXCEPT !.read = [command.read EXCEPT ![e.turn] = e.len]] \in RunCommands
        BY <1>1, <3>2, RunMember DEF RunTypes, RunCommands
      <3>4. command' = [command EXCEPT !.read = [command.read EXCEPT ![e.turn] = e.len]]
        BY <2>2
      <3>5. command'.status = "waiting"
        BY <1>1, <3>4 DEF Waiting, RunTypes, RunCommands
      <3> QED  BY <3>3, <3>4, <3>5
    <2> QED  BY <2>1, <2>2 DEF TakeMessage, ShowMessage
  <1>5. PrintedInv' /\ ExitTellsTheTruth'
    BY <1>3, <1>4 DEF PrintedInv, ExitTellsTheTruth
  <1> QED  BY <1>1, <1>2, <1>4, <1>5, CommandStep DEF TakeMessage, UnderWayInv

LEMMA TakeResultTrue ==
    ASSUME RunInv, Waiting, TakeResult
    PROVE  RunInv'
  <1>1. RunTypes /\ UnderWayInv
    BY DEF RunInv
  <1>2. command' \in RunCommands /\ command'.status = IF result = "error" THEN "failed" ELSE "ok"
    BY <1>1, ExitWrites DEF TakeResult
  <1>3. ~Client' /\ final' = final
    BY DEF TakeResult, Client, turnVars
  <1>4. "mine" \in DOMAIN final /\ result = final["mine"].outcome
    BY <1>1 DEF TakeResult, UnderWayInv
  <1>5. PrintedInv' /\ ExitTellsTheTruth'
    BY <1>2, <1>3, <1>4 DEF PrintedInv, ExitTellsTheTruth
  <1> QED  BY <1>1, <1>2, <1>5, CommandStep DEF TakeResult, UnderWayInv, RunTypes

LEMMA RunInvInit == RunEventsInit => RunInv
  <1> SUFFICES ASSUME RunEventsInit PROVE RunInv
    OBVIOUS
  <1>1. /\ turn \in RunTurns /\ turn.phase = "streaming" /\ root = turn.who /\ root \in Turns
        /\ \/ turn.who = "mine" /\ queue = <<>>
           \/ Client /\ turn.who = "other" /\ queue = <<"mine">>
    BY FreshTurnTyped DEF RunEventsInit, Turns
  <1>2. command \in RunCommands /\ command.status = "waiting" /\ command.read = [t \in Turns |-> 0]
    BY DEF RunEventsInit, RunCommands
  <1>3. DOMAIN final = {} /\ Failures = {}
    BY DEF RunEventsInit, Failures
  <1>4. queue \in Seq(Turns) /\ turn.who \notin QueuedTurns
    <2>1. CASE queue = <<>>
      BY <2>1 DEF QueuedTurns
    <2>2. CASE Client /\ turn.who = "other" /\ queue = <<"mine">>
      <3>1. QueuedTurns = {"mine"}
        BY <2>2 DEF QueuedTurns
      <3> QED  BY <2>2, <3>1 DEF Turns
    <2> QED  BY <1>1, <2>1, <2>2
  <1>5. \A i, j \in DOMAIN queue : queue[i] = queue[j] => i = j
    BY <1>1
  <1>6. RunTypes
    BY <1>1, <1>2, <1>3, <1>4 DEF RunEventsInit, RunTypes
  <1>7. TurnInv
    BY <1>1, <1>3, <1>4, <1>5 DEF TurnInv
  <1>8. RootsInv
    BY <1>1, <1>3 DEF RootsInv
  <1>9. UnderWayInv
    BY <1>3 DEF RunEventsInit, UnderWayInv
  <1>10. PrintedInv /\ ExitTellsTheTruth
    BY <1>2 DEF PrintedInv, ExitTellsTheTruth, Turns
  <1> QED  BY <1>6, <1>7, <1>8, <1>9, <1>10 DEF RunInv

LEMMA RunInvStutters ==
    ASSUME RunInv, UNCHANGED runVars
    PROVE  RunInv'
  <1>1. RunTypes /\ TurnInv /\ RootsInv /\ UnderWayInv /\ PrintedInv /\ ExitTellsTheTruth
    BY DEF RunInv
  <1>2. PrintedInv' /\ ExitTellsTheTruth'
    BY <1>1 DEF runVars, turnVars, PrintedInv, ExitTellsTheTruth, Client, Waiting
  <1> QED  BY <1>1, <1>2, CommandStep DEF runVars, RunTypes, UnderWayInv

LEMMA RunInvNext == RunInv /\ [RunEventsNext]_runVars => RunInv'
  <1> SUFFICES ASSUME RunInv, [RunEventsNext]_runVars PROVE RunInv'
    OBVIOUS
  <1>1. CASE UNCHANGED runVars
    BY <1>1, RunInvStutters
  <1>2. CASE RunEventsNext
    <2>1. "later" \in Turns /\ Waiting
      BY <1>2 DEF Turns, RunEventsNext
    <2> QED  BY <1>2, <2>1, ArriveTrue, StreamDeltaTrue, PublishLateTrue, FinishMessageTrue,
                EndTurnTrue, DropQueuedTrue, RunReturnsTrue, ForwardMessageTrue,
                ForwardNoticeTrue, ForwardCompleteTrue, ForwardExpiresTrue, WriteEventTrue,
                DisconnectTrue, ReadEventTrue, StreamClosedTrue, TakeMessageTrue,
                TakeResultTrue DEF RunEventsNext
  <1> QED  BY <1>1, <1>2

(* `trapeze run` with a run ID ends in success only after its own turn     *)
(* ended without an error, with all of that turn's text printed and none   *)
(* of another's, or at a clean end of the stream; and in failure only when *)
(* its own turn failed, or one that the same goroutine ran after it:       *)
(* however long the messages, and whatever the buffers on the way dropped  *)
(* or overtook (cmd/run.go:279, 337-390, backend/agent.go:95-105); in      *)
(* process the verdict is right.                                           *)
THEOREM TheExitTellsTheTruth == RunEventsSpec => []ExitTellsTheTruth
  <1>1. RunInv => ExitTellsTheTruth
    BY DEF RunInv
  <1> QED  BY <1>1, RunInvInit, RunInvNext, PTL DEF RunEventsSpec

-----------------------------------------------------------------------------
(* The shared server: an inductive invariant of ServerLifecycle.           *)

ServerRecords ==
    [state : {"none", "starting", "listening", "closing", "gone", "crashed"},
     build : Builds \cup {""},
     workspaces : SUBSET Commands,
     going : BOOLEAN]

CliPoints == {"start", "version", "stop", "linger", "lock", "probe", "spawn", "wait",
              "create", "attached", "gone", "failed"}

Clis == [pc : CliPoints, on : Servers \cup {NoFile}]

LifeTypes ==
    /\ build \in [Commands -> Builds]
    /\ sockFile \in Servers \cup {NoFile}
    /\ server \in [Servers -> ServerRecords]
    /\ cli \in [Commands -> Clis]
    /\ crashes \in Nat
    /\ upset \subseteq Commands
    /\ lateComers \subseteq Commands

Listening(s) == server[s].state = "listening"
Coming == \E s \in Servers : server[s].state \in {"starting", "closing"}

(* What has been started is of the build of the command that started it.   *)
BuildInv ==
    \A s \in Servers : server[s].build = "" <=> server[s].state = "none"

(* With one build nobody finds a stale server, and whoever listens, or has *)
(* not closed yet, holds the path.                                         *)
SharedInv ==
    OneBuild =>
        /\ \A c \in Commands : cli[c].pc \notin {"stop", "linger"}
        /\ \A s \in Servers : server[s].state \in {"listening", "closing"} => sockFile = s

(* A workspace created in time keeps its server.                           *)
AttachedInv ==
    \A c \in Commands : cli[c].pc = "attached" =>
        /\ cli[c].on \in Servers
        /\ c \notin lateComers =>
             /\ c \in server[cli[c].on].workspaces
             /\ ~server[cli[c].on].going
             /\ OneBuild => server[cli[c].on].state \in {"listening", "crashed"}

(* Until a server crashes, the file at the path is a server's, and what a  *)
(* command counts on is still there or has upset it.                       *)
FileInv ==
    crashes = 0 /\ sockFile # NoFile => server[sockFile].state \in {"listening", "closing"}

WaitInv ==
    crashes = 0 =>
        \A c \in Commands \ upset :
            /\ cli[c].pc = "create" => Answers(sockFile)
            /\ cli[c].pc = "wait" => Answers(sockFile) \/ Coming

LifeInv ==
    LifeTypes /\ BuildInv /\ SharedInv /\ AttachedInv /\ FileInv /\ WaitInv /\ FailedHasCause

LEMMA LifeNumbers == NoFile \notin Servers /\ Servers \subseteq Nat /\ 1 \in Servers
  <1>1. MaxServers \in Nat /\ MaxServers # 0
    BY ServerLifecycleAssumption
  <1>2. 1 <= MaxServers
    BY <1>1
  <1> QED  BY <1>1, <1>2 DEF NoFile, Servers

LEMMA ServerMember ==
    ASSUME LifeTypes, NEW s \in Servers
    PROVE  /\ server[s] \in ServerRecords
           /\ server[s].state \in {"none", "starting", "listening", "closing", "gone", "crashed"}
           /\ server[s].build \in Builds \cup {""}
           /\ server[s].workspaces \subseteq Commands
           /\ server[s].going \in BOOLEAN
  BY DEF LifeTypes, ServerRecords

LEMMA CliMember ==
    ASSUME LifeTypes, NEW c \in Commands
    PROVE  cli[c] \in Clis /\ cli[c].pc \in CliPoints /\ cli[c].on \in Servers \cup {NoFile}
  BY DEF LifeTypes, Clis

LEMMA GoCli ==
    ASSUME LifeTypes, NEW c \in Commands, NEW at \in CliPoints, Go(c, at)
    PROVE  \E x \in Clis : cli' = [cli EXCEPT ![c] = x] /\ x.pc = at
  <1>1. [cli[c] EXCEPT !.pc = at] \in Clis
    BY CliMember DEF Clis
  <1> QED  BY <1>1, CliMember DEF Go, Clis

LEMMA OneCli ==
    ASSUME LifeTypes, NEW c \in Commands, NEW x \in Clis, cli' = [cli EXCEPT ![c] = x]
    PROVE  /\ cli' \in [Commands -> Clis]
           /\ cli'[c] = x
           /\ \A d \in Commands \ {c} : cli'[d] = cli[d]
  BY DEF LifeTypes

LEMMA OneServer ==
    ASSUME LifeTypes, NEW s \in Servers, NEW q \in ServerRecords,
           server' = [server EXCEPT ![s] = q]
    PROVE  /\ server' \in [Servers -> ServerRecords]
           /\ server'[s] = q
           /\ \A r \in Servers \ {s} : server'[r] = server[r]
  BY DEF LifeTypes

(* A server's state is written, the rest of it kept.                       *)
LEMMA StateWritten ==
    ASSUME LifeTypes, NEW s \in Servers,
           NEW st \in {"none", "starting", "listening", "closing", "gone", "crashed"},
           server' = [server EXCEPT ![s].state = st]
    PROVE  \E q \in ServerRecords :
               /\ server' = [server EXCEPT ![s] = q]
               /\ q.state = st /\ q.build = server[s].build
               /\ q.workspaces = server[s].workspaces /\ q.going = server[s].going
  <1>1. [server[s] EXCEPT !.state = st] \in ServerRecords
    BY ServerMember DEF ServerRecords
  <1> QED  BY <1>1, ServerMember DEF ServerRecords

(* Nothing that happens makes one build of several.                        *)
LEMMA OneBuildBefore ==
    ASSUME LifeTypes, BuildInv, UNCHANGED build,
           \A s \in Servers : server[s].state # "none" => server'[s].build = server[s].build,
           OneBuild'
    PROVE  OneBuild
  <1> SUFFICES ASSUME NEW c \in Commands, NEW d \in Commands, NEW s \in Servers
               PROVE  build[c] = build[d] /\ server[s].build \in {"", build[c]}
    BY DEF OneBuild
  <1>1. build[c] = build[d] /\ server'[s].build \in {"", build[c]}
    BY DEF OneBuild
  <1>2. server[s].build = "" \/ server'[s].build = server[s].build
    BY DEF BuildInv
  <1> QED  BY <1>1, <1>2

-----------------------------------------------------------------------------
(* A step of a command that changes no server and attaches to none.        *)
LEMMA LifeQuiet ==
    ASSUME LifeInv, NEW c \in Commands, NEW x \in Clis, cli' = [cli EXCEPT ![c] = x],
           UNCHANGED <<build, sockFile, server, crashes, lateComers>>,
           upset \subseteq upset', upset' \subseteq Commands,
           x.pc # "attached",
           OneBuild => x.pc \notin {"stop", "linger"},
           x.pc = "failed" => c \in upset' \/ crashes > 0,
           crashes = 0 /\ c \notin upset' =>
               /\ x.pc = "create" => Answers(sockFile)
               /\ x.pc = "wait" => Answers(sockFile) \/ Coming
    PROVE  LifeInv'
  <1>1. /\ LifeTypes /\ BuildInv /\ SharedInv /\ AttachedInv /\ FileInv
        /\ WaitInv /\ FailedHasCause
    BY DEF LifeInv
  <1>2. /\ cli' \in [Commands -> Clis] /\ cli'[c] = x
        /\ \A d \in Commands \ {c} : cli'[d] = cli[d]
    BY <1>1, OneCli
  <1>3. OneBuild' = OneBuild
    BY DEF OneBuild
  <1>4. LifeTypes'
    BY <1>1, <1>2 DEF LifeTypes
  <1>5. BuildInv' /\ FileInv'
    BY <1>1 DEF BuildInv, FileInv
  <1>6. SharedInv'
    BY <1>1, <1>2, <1>3 DEF SharedInv
  <1>7. AttachedInv'
    <2> SUFFICES ASSUME NEW d \in Commands, cli'[d].pc = "attached"
                 PROVE  /\ cli'[d].on \in Servers
                        /\ d \notin lateComers' =>
                             /\ d \in server'[cli'[d].on].workspaces
                             /\ ~server'[cli'[d].on].going
                             /\ OneBuild' => server'[cli'[d].on].state \in {"listening", "crashed"}
      BY DEF AttachedInv
    <2>1. d # c
      BY <1>2
    <2>2. cli'[d] = cli[d]
      BY <1>2, <2>1
    <2> QED  BY <1>1, <1>3, <2>2 DEF AttachedInv
  <1>8. WaitInv'
    <2> SUFFICES ASSUME crashes' = 0, NEW d \in Commands \ upset'
                 PROVE  /\ cli'[d].pc = "create" => Answers(sockFile)'
                        /\ cli'[d].pc = "wait" => Answers(sockFile)' \/ Coming'
      BY DEF WaitInv, Answers
    <2>1. Answers(sockFile)' = Answers(sockFile) /\ Coming' = Coming
      BY DEF Answers, Coming
    <2>2. CASE d = c
      BY <2>1, <2>2, <1>2
    <2>3. CASE d # c
      BY <2>1, <2>3, <1>1, <1>2 DEF WaitInv
    <2> QED  BY <2>2, <2>3
  <1>9. FailedHasCause'
    BY <1>1, <1>2 DEF FailedHasCause
  <1> QED  BY <1>4, <1>5, <1>6, <1>7, <1>8, <1>9 DEF LifeInv

LEMMA StatSocketLife ==
    ASSUME LifeInv, NEW c \in Commands, StatSocket(c)
    PROVE  LifeInv'
  <1>1. /\ LifeTypes /\ SharedInv /\ WaitInv /\ FileInv /\ FailedHasCause /\ BuildInv
        /\ cli[c].pc \in CliPoints
    BY CliMember DEF LifeInv
  <1>2. PICK x \in Clis : /\ cli' = [cli EXCEPT ![c] = x]
                         /\ x.pc \in {"lock", "version"}
    BY <1>1, GoCli DEF StatSocket, CliPoints
  <1>3. /\ UNCHANGED <<build, sockFile, server, crashes, lateComers>>
        /\ upset \subseteq upset' /\ upset' \subseteq Commands
    BY <1>1 DEF StatSocket, LifeTypes, Connecting
  <1> QED  BY <1>2, <1>3, LifeQuiet

LEMMA CheckVersionLife ==
    ASSUME LifeInv, NEW c \in Commands, CheckVersion(c)
    PROVE  LifeInv'
  <1>1. /\ LifeTypes /\ SharedInv /\ WaitInv /\ FileInv /\ FailedHasCause /\ BuildInv
        /\ cli[c].pc \in CliPoints
    BY CliMember DEF LifeInv
  <1>2. PICK x \in Clis : /\ cli' = [cli EXCEPT ![c] = x]
                         /\ x.pc = IF ~Answers(sockFile) THEN "lock"
                                  ELSE IF server[sockFile].build = build[c] THEN "wait" ELSE "stop"
    BY <1>1, GoCli DEF CheckVersion, CliPoints
  <1>3. /\ UNCHANGED <<build, sockFile, server, crashes, lateComers>>
        /\ upset \subseteq upset' /\ upset' \subseteq Commands
    BY <1>1 DEF CheckVersion, LifeTypes, Connecting
  <1>4. OneBuild => x.pc # "stop"
    <2> SUFFICES ASSUME OneBuild, Answers(sockFile)
                 PROVE  server[sockFile].build = build[c]
      BY <1>2
    <2>1. sockFile \in Servers /\ server[sockFile].state = "listening"
      BY <1>1 DEF Answers, LifeTypes
    <2>2. server[sockFile].build # ""
      BY <1>1, <2>1 DEF BuildInv
    <2> QED  BY <2>1, <2>2 DEF OneBuild
  <1>5. x.pc = "wait" => Answers(sockFile)
    BY <1>2
  <1>6. x.pc \in {"lock", "wait", "stop"}
    BY <1>2
  <1> QED  BY <1>2, <1>3, <1>4, <1>5, <1>6, LifeQuiet

LEMMA LockSpawnLife ==
    ASSUME LifeInv, NEW c \in Commands, LockSpawn(c)
    PROVE  LifeInv'
  <1>1. /\ LifeTypes /\ SharedInv /\ WaitInv /\ FileInv /\ FailedHasCause /\ BuildInv
        /\ cli[c].pc \in CliPoints
    BY CliMember DEF LifeInv
  <1>2. PICK x \in Clis : /\ cli' = [cli EXCEPT ![c] = x]
                         /\ x.pc \in {"probe", "spawn"}
    BY <1>1, GoCli DEF LockSpawn, CliPoints
  <1>3. /\ UNCHANGED <<build, sockFile, server, crashes, lateComers>>
        /\ upset \subseteq upset' /\ upset' \subseteq Commands
    BY <1>1 DEF LockSpawn, LifeTypes, Connecting
  <1> QED  BY <1>2, <1>3, LifeQuiet

LEMMA ProbeAgainLife ==
    ASSUME LifeInv, NEW c \in Commands, ProbeAgain(c)
    PROVE  LifeInv'
  <1>1. /\ LifeTypes /\ SharedInv /\ WaitInv /\ FileInv /\ FailedHasCause /\ BuildInv
        /\ cli[c].pc \in CliPoints
    BY CliMember DEF LifeInv
  <1>2. PICK x \in Clis : /\ cli' = [cli EXCEPT ![c] = x]
                         /\ x.pc = IF Answers(sockFile) THEN "create" ELSE "spawn"
    BY <1>1, GoCli DEF ProbeAgain, CliPoints
  <1>3. /\ UNCHANGED <<build, sockFile, server, crashes, lateComers>>
        /\ upset \subseteq upset' /\ upset' \subseteq Commands
    BY <1>1 DEF ProbeAgain, LifeTypes, Connecting
  <1>4. x.pc \in {"create", "spawn"} /\ (x.pc = "create" => Answers(sockFile))
    BY <1>2
  <1> QED  BY <1>2, <1>3, <1>4, LifeQuiet

LEMMA ServerReadyLife ==
    ASSUME LifeInv, NEW c \in Commands, ServerReady(c)
    PROVE  LifeInv'
  <1>1. /\ LifeTypes /\ SharedInv /\ WaitInv /\ FileInv /\ FailedHasCause /\ BuildInv
        /\ cli[c].pc \in CliPoints
    BY CliMember DEF LifeInv
  <1>2. PICK x \in Clis : /\ cli' = [cli EXCEPT ![c] = x]
                         /\ x.pc = "create" /\ Answers(sockFile)
    BY <1>1, GoCli DEF ServerReady, CliPoints
  <1>3. /\ UNCHANGED <<build, sockFile, server, crashes, lateComers>>
        /\ upset \subseteq upset' /\ upset' \subseteq Commands
    BY <1>1 DEF ServerReady, LifeTypes, Connecting
  <1> QED  BY <1>2, <1>3, LifeQuiet

LEMMA ReadyTimeoutLife ==
    ASSUME LifeInv, NEW c \in Commands, ReadyTimeout(c)
    PROVE  LifeInv'
  <1>1. /\ LifeTypes /\ SharedInv /\ WaitInv /\ FileInv /\ FailedHasCause /\ BuildInv
        /\ cli[c].pc \in CliPoints
    BY CliMember DEF LifeInv
  <1>2. PICK x \in Clis : /\ cli' = [cli EXCEPT ![c] = x]
                         /\ x.pc = "failed"
    BY <1>1, GoCli DEF ReadyTimeout, CliPoints
  <1>3. /\ UNCHANGED <<build, sockFile, server, crashes, lateComers>>
        /\ upset \subseteq upset' /\ upset' \subseteq Commands
    BY <1>1 DEF ReadyTimeout, LifeTypes, Connecting
  <1>4. c \in upset' \/ crashes > 0
    <2> SUFFICES ASSUME c \notin upset', crashes = 0  PROVE FALSE
      BY <1>1 DEF LifeTypes
    <2>1. ~Coming /\ c \notin upset
      BY DEF ReadyTimeout, Coming
    <2> QED  BY <1>1, <2>1 DEF ReadyTimeout, WaitInv
  <1> QED  BY <1>2, <1>3, <1>4, LifeQuiet


-----------------------------------------------------------------------------
(* What a step that changes a server's state owes to the attached.         *)
LEMMA AttachedKept ==
    ASSUME LifeTypes, AttachedInv, lateComers \subseteq lateComers',
           \A d \in Commands : cli'[d].pc = "attached" => cli'[d] = cli[d],
           \A s \in Servers : /\ server'[s].workspaces = server[s].workspaces
                             /\ server'[s].going = server[s].going,
           OneBuild' =>
               /\ OneBuild
               /\ \A s \in Servers :
                    ~server[s].going /\ server[s].state \in {"listening", "crashed"} =>
                        server'[s].state \in {"listening", "crashed"}
    PROVE  AttachedInv'
  <1> SUFFICES ASSUME NEW d \in Commands, cli'[d].pc = "attached"
               PROVE  /\ cli'[d].on \in Servers
                      /\ d \notin lateComers' =>
                           /\ d \in server'[cli'[d].on].workspaces
                           /\ ~server'[cli'[d].on].going
                           /\ OneBuild' => server'[cli'[d].on].state \in {"listening", "crashed"}
    BY DEF AttachedInv
  <1>1. cli'[d] = cli[d] /\ cli[d].on \in Servers
    BY DEF AttachedInv
  <1>2. d \notin lateComers' =>
            /\ d \in server[cli[d].on].workspaces
            /\ ~server[cli[d].on].going
            /\ OneBuild => server[cli[d].on].state \in {"listening", "crashed"}
    BY <1>1 DEF AttachedInv
  <1> QED  BY <1>1, <1>2

(* A step that upsets everybody who is connecting owes them nothing more.  *)
LEMMA AllUpset ==
    ASSUME LifeTypes, upset' = upset \cup Connecting,
           \A d \in Commands : cli'[d].pc \in {"create", "wait"} => cli'[d] = cli[d]
    PROVE  WaitInv'
  <1>1. ASSUME NEW d \in Commands \ upset'
        PROVE  cli'[d].pc \notin {"create", "wait"}
    BY <1>1 DEF Connecting
  <1> QED  BY <1>1 DEF WaitInv

LEMMA TellShutdownLife ==
    ASSUME LifeInv, NEW c \in Commands, TellShutdown(c)
    PROVE  LifeInv'
  <1>1. /\ LifeTypes /\ SharedInv /\ WaitInv /\ FileInv /\ FailedHasCause /\ BuildInv
        /\ AttachedInv
    BY DEF LifeInv
  <1>2. PICK x \in Clis : cli' = [cli EXCEPT ![c] = x] /\ x.pc = "linger"
    BY <1>1, GoCli DEF TellShutdown, CliPoints
  <1>3. ~OneBuild
    BY <1>1 DEF SharedInv, TellShutdown
  <1>4. UNCHANGED <<build, sockFile, startLock, crashes, lateComers>>
    BY DEF TellShutdown
  <1>5. CASE ~Answers(sockFile)
    <2>1. UNCHANGED <<server, upset>>
      BY <1>5 DEF TellShutdown
    <2> QED  BY <1>1, <1>2, <1>3, <1>4, <2>1, LifeQuiet DEF LifeTypes
  <1>6. CASE Answers(sockFile)
    <2>1. /\ server' = [server EXCEPT ![sockFile].state = "closing"]
          /\ upset' = upset \cup Connecting
      BY <1>6 DEF TellShutdown
    <2>2. sockFile \in Servers /\ server[sockFile].state = "listening"
      BY <1>1, <1>6 DEF Answers, LifeTypes
    <2>3. PICK q \in ServerRecords :
               /\ server' = [server EXCEPT ![sockFile] = q]
               /\ q.state = "closing" /\ q.build = server[sockFile].build
               /\ q.workspaces = server[sockFile].workspaces
               /\ q.going = server[sockFile].going
      BY <1>1, <2>1, <2>2, StateWritten
    <2>4. /\ server' \in [Servers -> ServerRecords] /\ server'[sockFile] = q
          /\ \A r \in Servers \ {sockFile} : server'[r] = server[r]
      BY <1>1, <2>2, <2>3, OneServer
    <2>5. /\ cli' \in [Commands -> Clis] /\ cli'[c] = x
          /\ \A d \in Commands \ {c} : cli'[d] = cli[d]
      BY <1>1, <1>2, OneCli
    <2>6. ~OneBuild'
      <3>1. \A s \in Servers : server'[s].build = server[s].build
        BY <2>3, <2>4
      <3> QED  BY <1>1, <1>3, <1>4, <3>1, OneBuildBefore
    <2>7. LifeTypes'
      BY <1>1, <1>4, <2>1, <2>4, <2>5 DEF LifeTypes, Connecting
    <2>8. BuildInv'
      BY <1>1, <2>2, <2>3, <2>4 DEF BuildInv
    <2>9. SharedInv'
      BY <2>6 DEF SharedInv
    <2>10. AttachedInv'
      BY <1>1, <1>2, <1>4, <2>3, <2>4, <2>5, <2>6, AttachedKept
    <2>11. FileInv'
      BY <1>4, <2>3, <2>4 DEF FileInv
    <2>12. WaitInv'
      BY <1>1, <1>2, <2>1, <2>5, AllUpset
    <2>13. FailedHasCause'
      BY <1>1, <1>2, <1>4, <2>1, <2>5 DEF FailedHasCause
    <2> QED  BY <2>7, <2>8, <2>9, <2>10, <2>11, <2>12, <2>13 DEF LifeInv
  <1> QED  BY <1>5, <1>6

LEMMA RemoveSocketLife ==
    ASSUME LifeInv, NEW c \in Commands, RemoveSocket(c)
    PROVE  LifeInv'
  <1>1. /\ LifeTypes /\ SharedInv /\ WaitInv /\ FileInv /\ FailedHasCause /\ BuildInv
        /\ AttachedInv
    BY DEF LifeInv
  <1>2. PICK x \in Clis : cli' = [cli EXCEPT ![c] = x] /\ x.pc = "lock"
    BY <1>1, GoCli DEF RemoveSocket, CliPoints
  <1>3. UNCHANGED <<build, server, startLock, crashes, lateComers>> /\ sockFile' = NoFile
    BY DEF RemoveSocket
  <1>4. ~OneBuild /\ OneBuild' = OneBuild
    BY <1>1, <1>3 DEF SharedInv, RemoveSocket, OneBuild
  <1>5. CASE sockFile = NoFile
    <2>1. UNCHANGED <<sockFile, upset>>
      BY <1>3, <1>5 DEF RemoveSocket
    <2> QED  BY <1>1, <1>2, <1>3, <2>1, LifeQuiet DEF LifeTypes
  <1>6. CASE sockFile # NoFile
    <2>1. upset' = upset \cup Connecting
      BY <1>6 DEF RemoveSocket
    <2>2. /\ cli' \in [Commands -> Clis] /\ cli'[c] = x
          /\ \A d \in Commands \ {c} : cli'[d] = cli[d]
      BY <1>1, <1>2, OneCli
    <2>3. LifeTypes'
      BY <1>1, <1>3, <2>1, <2>2 DEF LifeTypes, Connecting
    <2>4. BuildInv' /\ SharedInv' /\ FileInv'
      BY <1>1, <1>3, <1>4 DEF BuildInv, SharedInv, FileInv
    <2>5. AttachedInv'
      BY <1>1, <1>2, <1>3, <1>4, <2>2, AttachedKept
    <2>6. WaitInv'
      BY <1>1, <1>2, <2>1, <2>2, AllUpset
    <2>7. FailedHasCause'
      BY <1>1, <1>2, <1>3, <2>1, <2>2 DEF FailedHasCause
    <2> QED  BY <2>3, <2>4, <2>5, <2>6, <2>7 DEF LifeInv
  <1> QED  BY <1>5, <1>6

LEMMA SpawnServerLife ==
    ASSUME LifeInv, NEW c \in Commands, SpawnServer(c)
    PROVE  LifeInv'
  <1>1. /\ LifeTypes /\ SharedInv /\ WaitInv /\ FileInv /\ FailedHasCause /\ BuildInv
        /\ AttachedInv
    BY DEF LifeInv
  <1>2. PICK x \in Clis : cli' = [cli EXCEPT ![c] = x] /\ x.pc = "wait"
    BY <1>1, GoCli DEF SpawnServer, CliPoints
  <1>3. UNCHANGED <<build, sockFile, startLock, crashes, upset, lateComers>>
    BY DEF SpawnServer
  <1>4. PICK s \in Servers :
            /\ server[s].state = "none"
            /\ server' = [server EXCEPT ![s].state = "starting", ![s].build = build[c]]
    BY DEF SpawnServer
  <1>5. build[c] \in Builds /\ build[c] # ""
    BY <1>1, ServerLifecycleAssumption DEF LifeTypes
  <1>6. PICK q \in ServerRecords :
             /\ server' = [server EXCEPT ![s] = q]
             /\ q.state = "starting" /\ q.build = build[c]
             /\ q.workspaces = server[s].workspaces /\ q.going = server[s].going
    <2>1. PICK b \in Builds : b = build[c]
      BY <1>5
    <2>2. [server[s] EXCEPT !.state = "starting", !.build = b] \in ServerRecords
      BY <1>1, ServerMember DEF ServerRecords
    <2>3. server' = [server EXCEPT ![s].state = "starting", ![s].build = b]
      BY <1>4, <2>1
    <2>4. PICK q \in ServerRecords : q = [server[s] EXCEPT !.state = "starting", !.build = b]
      BY <2>2
    <2>5. server' = [server EXCEPT ![s] = q]
      BY <1>1, <2>3, <2>4 DEF LifeTypes
    <2>6. /\ q.state = "starting" /\ q.build = b
          /\ q.workspaces = server[s].workspaces /\ q.going = server[s].going
      BY <1>1, <2>4, ServerMember DEF ServerRecords
    <2> QED  BY <2>1, <2>5, <2>6
  <1>7. /\ server' \in [Servers -> ServerRecords] /\ server'[s] = q
        /\ \A r \in Servers \ {s} : server'[r] = server[r]
    BY <1>1, <1>6, OneServer
  <1>8. /\ cli' \in [Commands -> Clis] /\ cli'[c] = x
        /\ \A d \in Commands \ {c} : cli'[d] = cli[d]
    BY <1>1, <1>2, OneCli
  <1>9. OneBuild' => OneBuild
    <2>1. \A r \in Servers : server[r].state # "none" => server'[r].build = server[r].build
      BY <1>4, <1>7
    <2> QED  BY <1>1, <1>3, <2>1, OneBuildBefore
  <1>10. LifeTypes'
    BY <1>1, <1>3, <1>7, <1>8 DEF LifeTypes
  <1>11. BuildInv'
    BY <1>1, <1>5, <1>6, <1>7 DEF BuildInv
  <1>12. SharedInv'
    BY <1>1, <1>2, <1>3, <1>6, <1>7, <1>8, <1>9 DEF SharedInv
  <1>13. AttachedInv'
    BY <1>1, <1>2, <1>3, <1>4, <1>6, <1>7, <1>8, <1>9, AttachedKept
  <1>14. FileInv'
    <2> SUFFICES ASSUME crashes' = 0, sockFile' # NoFile
                 PROVE  server'[sockFile'].state \in {"listening", "closing"}
      BY DEF FileInv
    <2>1. server[sockFile].state \in {"listening", "closing"} /\ sockFile \in Servers
      BY <1>1, <1>3 DEF FileInv, LifeTypes
    <2> QED  BY <2>1, <1>3, <1>4, <1>7
  <1>15. WaitInv'
    <2> SUFFICES ASSUME crashes' = 0, NEW d \in Commands \ upset'
                 PROVE  /\ cli'[d].pc = "create" => Answers(sockFile)'
                        /\ cli'[d].pc = "wait" => Answers(sockFile)' \/ Coming'
      BY DEF WaitInv, Answers
    <2>1. Coming'
      BY <1>6, <1>7 DEF Coming
    <2>2. Answers(sockFile) => Answers(sockFile)'
      BY <1>1, <1>3, <1>4, <1>7 DEF Answers, LifeTypes
    <2> QED  BY <1>1, <1>2, <1>3, <1>8, <2>1, <2>2 DEF WaitInv
  <1>16. FailedHasCause'
    BY <1>1, <1>2, <1>3, <1>8 DEF FailedHasCause
  <1> QED  BY <1>10, <1>11, <1>12, <1>13, <1>14, <1>15, <1>16 DEF LifeInv


LEMMA CreateWorkspaceLife ==
    ASSUME LifeInv, NEW c \in Commands, CreateWorkspace(c)
    PROVE  LifeInv'
  <1>1. /\ LifeTypes /\ SharedInv /\ WaitInv /\ FileInv /\ FailedHasCause /\ BuildInv
        /\ AttachedInv
    BY DEF LifeInv
  <1>2. UNCHANGED <<build, sockFile, startLock, crashes, upset>>
    BY DEF CreateWorkspace
  <1>3. CASE ~Answers(sockFile)
    <2>1. PICK x \in Clis : cli' = [cli EXCEPT ![c] = x] /\ x.pc = "failed"
      BY <1>1, <1>3, GoCli DEF CreateWorkspace, CliPoints
    <2>2. UNCHANGED <<server, lateComers>>
      BY <1>3 DEF CreateWorkspace
    <2>3. c \in upset \/ crashes > 0
      <3>1. c \in upset \/ crashes # 0
        BY <1>1, <1>3 DEF CreateWorkspace, WaitInv
      <3> QED  BY <1>1, <3>1 DEF LifeTypes
    <2> QED  BY <1>1, <1>2, <2>1, <2>2, <2>3, LifeQuiet DEF LifeTypes
  <1>4. CASE Answers(sockFile)
    <2>1. sockFile \in Servers /\ server[sockFile].state = "listening"
      BY <1>1, <1>4 DEF Answers, LifeTypes
    <2>2. /\ server' = [server EXCEPT ![sockFile].workspaces = @ \cup {c}]
          /\ cli' = [cli EXCEPT ![c] = [pc |-> "attached", on |-> sockFile]]
          /\ lateComers' = IF server[sockFile].going THEN lateComers \cup {c} ELSE lateComers
      BY <1>4 DEF CreateWorkspace
    <2>3. PICK q \in ServerRecords :
               /\ server' = [server EXCEPT ![sockFile] = q]
               /\ q.state = "listening" /\ q.build = server[sockFile].build
               /\ q.workspaces = server[sockFile].workspaces \cup {c}
               /\ q.going = server[sockFile].going
      <3>1. [server[sockFile] EXCEPT !.workspaces = @ \cup {c}] \in ServerRecords
        BY <1>1, <2>1, ServerMember DEF ServerRecords
      <3> QED  BY <1>1, <2>1, <2>2, <3>1, ServerMember DEF ServerRecords
    <2>4. /\ server' \in [Servers -> ServerRecords] /\ server'[sockFile] = q
          /\ \A r \in Servers \ {sockFile} : server'[r] = server[r]
      BY <1>1, <2>1, <2>3, OneServer
    <2>5. PICK x \in Clis : cli' = [cli EXCEPT ![c] = x] /\ x.pc = "attached" /\ x.on = sockFile
      <3>1. [pc |-> "attached", on |-> sockFile] \in Clis
        BY <2>1 DEF Clis, CliPoints
      <3> QED  BY <2>2, <3>1
    <2>6. /\ cli' \in [Commands -> Clis] /\ cli'[c] = x
          /\ \A d \in Commands \ {c} : cli'[d] = cli[d]
      BY <1>1, <2>5, OneCli
    <2>7. OneBuild' => OneBuild
      <3>1. \A r \in Servers : server'[r].build = server[r].build
        BY <2>3, <2>4
      <3> QED  BY <1>1, <1>2, <3>1, OneBuildBefore
    <2>8. \A r \in Servers : server'[r].state = server[r].state
      BY <2>1, <2>3, <2>4
    <2>9. LifeTypes'
      BY <1>1, <1>2, <2>2, <2>4, <2>6 DEF LifeTypes
    <2>10. BuildInv'
      BY <1>1, <2>3, <2>4, <2>8 DEF BuildInv
    <2>11. SharedInv'
      BY <1>1, <1>2, <2>5, <2>6, <2>7, <2>8 DEF SharedInv
    <2>12. AttachedInv'
      <3> SUFFICES ASSUME NEW d \in Commands, cli'[d].pc = "attached"
                   PROVE  /\ cli'[d].on \in Servers
                          /\ d \notin lateComers' =>
                               /\ d \in server'[cli'[d].on].workspaces
                               /\ ~server'[cli'[d].on].going
                               /\ OneBuild' =>
                                    server'[cli'[d].on].state \in {"listening", "crashed"}
        BY DEF AttachedInv
      <3>1. CASE d = c
        <4>1. cli'[d].on = sockFile
          BY <3>1, <2>5, <2>6
        <4>2. c \notin lateComers' => ~server[sockFile].going
          BY <2>2
        <4> QED  BY <3>1, <4>1, <4>2, <2>1, <2>3, <2>4
      <3>2. CASE d # c
        <4>1. cli'[d] = cli[d] /\ d \notin lateComers' => d \notin lateComers
          BY <3>2, <2>2, <2>6
        <4>2. cli[d].pc = "attached" /\ cli[d].on \in Servers
          BY <3>2, <2>6, <1>1 DEF AttachedInv
        <4>3. d \notin lateComers =>
                /\ d \in server[cli[d].on].workspaces
                /\ ~server[cli[d].on].going
                /\ OneBuild => server[cli[d].on].state \in {"listening", "crashed"}
          BY <1>1, <4>2 DEF AttachedInv
        <4>4. /\ server[cli[d].on].workspaces \subseteq server'[cli[d].on].workspaces
              /\ server'[cli[d].on].going = server[cli[d].on].going
          BY <4>2, <2>3, <2>4
        <4>5. cli'[d] = cli[d] /\ lateComers \subseteq lateComers'
          BY <3>2, <2>2, <2>6
        <4> QED  BY <4>2, <4>3, <4>4, <4>5, <2>7, <2>8
      <3> QED  BY <3>1, <3>2
    <2>13. FileInv'
      BY <1>1, <1>2, <2>8 DEF FileInv, LifeTypes
    <2>14. WaitInv'
      <3>1. Answers(sockFile)' = Answers(sockFile) /\ Coming' = Coming
        BY <1>2, <2>1, <2>8 DEF Answers, Coming
      <3> SUFFICES ASSUME crashes' = 0, NEW d \in Commands \ upset'
                   PROVE  /\ cli'[d].pc = "create" => Answers(sockFile)'
                          /\ cli'[d].pc = "wait" => Answers(sockFile)' \/ Coming'
        BY DEF WaitInv, Answers
      <3> QED  BY <1>1, <1>2, <2>5, <2>6, <3>1 DEF WaitInv
    <2>15. FailedHasCause'
      BY <1>1, <1>2, <2>5, <2>6 DEF FailedHasCause
    <2> QED  BY <2>9, <2>10, <2>11, <2>12, <2>13, <2>14, <2>15 DEF LifeInv
  <1> QED  BY <1>3, <1>4

LEMMA LeaveServerLife ==
    ASSUME LifeInv, NEW c \in Commands, LeaveServer(c)
    PROVE  LifeInv'
  <1>1. /\ LifeTypes /\ SharedInv /\ WaitInv /\ FileInv /\ FailedHasCause /\ BuildInv
        /\ AttachedInv
    BY DEF LifeInv
  <1>2. UNCHANGED <<build, sockFile, startLock, crashes, upset, lateComers>>
    BY DEF LeaveServer
  <1>3. PICK x \in Clis : cli' = [cli EXCEPT ![c] = x] /\ x.pc = "gone"
    BY <1>1, GoCli DEF LeaveServer, CliPoints
  <1> DEFINE s == cli[c].on
             left == server[s].workspaces \ {c}
  <1>4. s \in Servers
    BY <1>1 DEF LeaveServer, AttachedInv
  <1>5. PICK q \in ServerRecords :
             /\ server' = [server EXCEPT ![s] = q]
             /\ q.state = server[s].state /\ q.build = server[s].build
             /\ q.workspaces = left
             /\ q.going <=> server[s].going \/ left = {}
    <2> DEFINE gone == server[s].going \/ left = {}
    <2>1. server' = [server EXCEPT ![s].workspaces = left, ![s].going = gone]
      BY <1>1, <1>4 DEF LeaveServer, LifeTypes
    <2>2. left \in SUBSET Commands /\ gone \in BOOLEAN
      BY <1>1, <1>4, ServerMember
    <2>3. PICK q \in ServerRecords :
               /\ server' = [server EXCEPT ![s] = q]
               /\ q.state = server[s].state /\ q.build = server[s].build
               /\ q.workspaces = left /\ q.going = gone
      <3>1. PICK w \in SUBSET Commands, g \in BOOLEAN : w = left /\ g = gone
        <4> HIDE DEF left, gone
        <4> QED  BY <2>2
      <3>2. server' = [server EXCEPT ![s].workspaces = w, ![s].going = g]
        <4> HIDE DEF left, gone
        <4> QED  BY <2>1, <3>1
      <3>3. \E q \in ServerRecords :
               /\ server' = [server EXCEPT ![s] = q]
               /\ q.state = server[s].state /\ q.build = server[s].build
               /\ q.workspaces = w /\ q.going = g
        <4>1. PICK r \in Servers : r = s
          BY <1>4
        <4>2. server' = [server EXCEPT ![r].workspaces = w, ![r].going = g]
          BY <3>2, <4>1
        <4>3. \E q \in ServerRecords :
               /\ server' = [server EXCEPT ![r] = q]
               /\ q.state = server[r].state /\ q.build = server[r].build
               /\ q.workspaces = w /\ q.going = g
          <5>1. [server[r] EXCEPT !.workspaces = w, !.going = g] \in ServerRecords
            BY <1>1, ServerMember DEF ServerRecords
          <5> QED  BY <1>1, <4>2, <5>1, ServerMember DEF ServerRecords
        <4> QED  BY <4>1, <4>3
      <3> HIDE DEF left, gone
      <3> QED  BY <3>1, <3>3
    <2> QED  BY <2>3
  <1>6. /\ server' \in [Servers -> ServerRecords] /\ server'[s] = q
        /\ \A r \in Servers \ {s} : server'[r] = server[r]
    BY <1>1, <1>4, <1>5, OneServer
  <1>7. /\ cli' \in [Commands -> Clis] /\ cli'[c] = x
        /\ \A d \in Commands \ {c} : cli'[d] = cli[d]
    BY <1>1, <1>3, OneCli
  <1>17. \A r \in Servers : server'[r].build = server[r].build
    <2> HIDE DEF left
    <2> QED  BY <1>5, <1>6
  <1>8. OneBuild' => OneBuild
    <2> QED  BY <1>1, <1>2, <1>17, OneBuildBefore
  <1>9. \A r \in Servers : server'[r].state = server[r].state
    BY <1>5, <1>6
  <1>10. LifeTypes'
    BY <1>1, <1>2, <1>6, <1>7 DEF LifeTypes
  <1>11. BuildInv'
    <2>1. \A r \in Servers : server[r].build = "" <=> server[r].state = "none"
      BY <1>1 DEF BuildInv
    <2> QED  BY <1>9, <1>17, <2>1 DEF BuildInv
  <1>12. SharedInv'
    BY <1>1, <1>2, <1>3, <1>7, <1>8, <1>9 DEF SharedInv
  <1>13. AttachedInv'
    <2> SUFFICES ASSUME NEW d \in Commands, cli'[d].pc = "attached"
                 PROVE  /\ cli'[d].on \in Servers
                        /\ d \notin lateComers' =>
                             /\ d \in server'[cli'[d].on].workspaces
                             /\ ~server'[cli'[d].on].going
                             /\ OneBuild' =>
                                  server'[cli'[d].on].state \in {"listening", "crashed"}
      BY DEF AttachedInv
    <2>1. d # c /\ cli'[d] = cli[d]
      BY <1>3, <1>7
    <2>2. cli[d].pc = "attached" /\ cli[d].on \in Servers
      BY <1>1, <2>1 DEF AttachedInv
    <2>3. d \notin lateComers =>
            /\ d \in server[cli[d].on].workspaces
            /\ ~server[cli[d].on].going
            /\ OneBuild => server[cli[d].on].state \in {"listening", "crashed"}
      BY <1>1, <2>2 DEF AttachedInv
    <2>4. CASE cli[d].on = s
      <3>1. d \notin lateComers => d \in left
        BY <2>1, <2>3, <2>4
      <3> QED  BY <1>2, <1>4, <1>5, <1>6, <1>8, <1>9, <2>1, <2>2, <2>3, <2>4, <3>1
    <2>5. CASE cli[d].on # s
      BY <1>2, <1>6, <1>8, <1>9, <2>1, <2>2, <2>3, <2>5
    <2> QED  BY <2>4, <2>5
  <1>14. FileInv'
    BY <1>1, <1>2, <1>9 DEF FileInv, LifeTypes
  <1>15. WaitInv'
    <2>1. (Answers(sockFile) => Answers(sockFile)') /\ (Coming => Coming')
      BY <1>1, <1>2, <1>9 DEF Answers, Coming, LifeTypes
    <2> SUFFICES ASSUME crashes' = 0, NEW d \in Commands \ upset'
                 PROVE  /\ cli'[d].pc = "create" => Answers(sockFile)'
                        /\ cli'[d].pc = "wait" => Answers(sockFile)' \/ Coming'
      BY DEF WaitInv, Answers
    <2> QED  BY <1>1, <1>2, <1>3, <1>7, <2>1 DEF WaitInv
  <1>16. FailedHasCause'
    BY <1>1, <1>2, <1>3, <1>7 DEF FailedHasCause
  <1> QED  BY <1>10, <1>11, <1>12, <1>13, <1>14, <1>15, <1>16 DEF LifeInv

LEMMA ListenLife ==
    ASSUME LifeInv, NEW s \in Servers, Listen(s)
    PROVE  LifeInv'
  <1>1. /\ LifeTypes /\ SharedInv /\ WaitInv /\ FileInv /\ FailedHasCause /\ BuildInv
        /\ AttachedInv
    BY DEF LifeInv
  <1> DEFINE st == IF sockFile = NoFile THEN "listening" ELSE "gone"
  <1>2. /\ server[s].state = "starting"
        /\ server' = [server EXCEPT ![s].state = st]
        /\ sockFile' = IF sockFile = NoFile THEN s ELSE sockFile
        /\ UNCHANGED <<build, startLock, cli, crashes, upset, lateComers>>
    BY DEF Listen
  <1>3. PICK q \in ServerRecords :
             /\ server' = [server EXCEPT ![s] = q]
             /\ q.state = st /\ q.build = server[s].build
             /\ q.workspaces = server[s].workspaces /\ q.going = server[s].going
    BY <1>1, <1>2, StateWritten
  <1>4. /\ server' \in [Servers -> ServerRecords] /\ server'[s] = q
        /\ \A r \in Servers \ {s} : server'[r] = server[r]
    BY <1>1, <1>3, OneServer
  <1>5. OneBuild' => OneBuild
    <2>1. \A r \in Servers : server'[r].build = server[r].build
      BY <1>3, <1>4
    <2> QED  BY <1>1, <1>2, <2>1, OneBuildBefore
  <1>6. LifeTypes'
    BY <1>1, <1>2, <1>4 DEF LifeTypes, Connecting
  <1>7. BuildInv'
    BY <1>1, <1>2, <1>3, <1>4 DEF BuildInv
  <1>8. SharedInv'
    BY <1>1, <1>2, <1>3, <1>4, <1>5, LifeNumbers DEF SharedInv
  <1>9. AttachedInv'
    BY <1>1, <1>2, <1>3, <1>4, <1>5, AttachedKept
  <1>10. FileInv'
    BY <1>1, <1>2, <1>3, <1>4 DEF FileInv, LifeTypes
  <1>11. WaitInv'
    <2> SUFFICES ASSUME crashes' = 0, NEW d \in Commands \ upset'
                 PROVE  /\ cli'[d].pc = "create" => Answers(sockFile)'
                        /\ cli'[d].pc = "wait" => Answers(sockFile)' \/ Coming'
      BY DEF WaitInv, Answers
    <2>1. CASE sockFile = NoFile
      BY <2>1, <1>2, <1>3, <1>4, LifeNumbers DEF Answers
    <2>2. CASE sockFile # NoFile
      <3>1. /\ sockFile \in Servers /\ server[sockFile].state \in {"listening", "closing"}
            /\ sockFile # s
        BY <1>1, <1>2, <2>2 DEF FileInv, LifeTypes
      <3>2. Answers(sockFile)' \/ Coming'
        BY <3>1, <1>2, <1>4, <2>2 DEF Answers, Coming
      <3>3. Answers(sockFile) => Answers(sockFile)'
        BY <3>1, <1>2, <1>4, <2>2 DEF Answers
      <3> QED  BY <1>1, <1>2, <3>2, <3>3 DEF WaitInv
    <2> QED  BY <2>1, <2>2
  <1>12. FailedHasCause'
    BY <1>1, <1>2 DEF FailedHasCause
  <1> QED  BY <1>6, <1>7, <1>8, <1>9, <1>10, <1>11, <1>12 DEF LifeInv

LEMMA EndWhenEmptyLife ==
    ASSUME LifeInv, NEW s \in Servers, EndWhenEmpty(s)
    PROVE  LifeInv'
  <1>1. /\ LifeTypes /\ SharedInv /\ WaitInv /\ FileInv /\ FailedHasCause /\ BuildInv
        /\ AttachedInv
    BY DEF LifeInv
  <1>2. /\ server[s].going /\ server[s].state = "listening"
        /\ server' = [server EXCEPT ![s].state = "closing"]
        /\ upset' = upset \cup Connecting
        /\ UNCHANGED <<build, sockFile, startLock, cli, crashes, lateComers>>
    BY DEF EndWhenEmpty
  <1>3. PICK q \in ServerRecords :
             /\ server' = [server EXCEPT ![s] = q]
             /\ q.state = "closing" /\ q.build = server[s].build
             /\ q.workspaces = server[s].workspaces /\ q.going = server[s].going
    BY <1>1, <1>2, StateWritten
  <1>4. /\ server' \in [Servers -> ServerRecords] /\ server'[s] = q
        /\ \A r \in Servers \ {s} : server'[r] = server[r]
    BY <1>1, <1>3, OneServer
  <1>5. OneBuild' => OneBuild
    <2>1. \A r \in Servers : server'[r].build = server[r].build
      BY <1>3, <1>4
    <2> QED  BY <1>1, <1>2, <2>1, OneBuildBefore
  <1>6. LifeTypes'
    BY <1>1, <1>2, <1>4 DEF LifeTypes, Connecting
  <1>7. BuildInv'
    BY <1>1, <1>2, <1>3, <1>4 DEF BuildInv
  <1>8. SharedInv'
    BY <1>1, <1>2, <1>3, <1>4, <1>5, LifeNumbers DEF SharedInv
  <1>9. AttachedInv'
    BY <1>1, <1>2, <1>3, <1>4, <1>5, AttachedKept
  <1>10. FileInv'
    BY <1>1, <1>2, <1>3, <1>4 DEF FileInv, LifeTypes
  <1>11. WaitInv'
    BY <1>1, <1>2, AllUpset
  <1>12. FailedHasCause'
    BY <1>1, <1>2 DEF FailedHasCause
  <1> QED  BY <1>6, <1>7, <1>8, <1>9, <1>10, <1>11, <1>12 DEF LifeInv

LEMMA CloseListenerLife ==
    ASSUME LifeInv, NEW s \in Servers, CloseListener(s)
    PROVE  LifeInv'
  <1>1. /\ LifeTypes /\ SharedInv /\ WaitInv /\ FileInv /\ FailedHasCause /\ BuildInv
        /\ AttachedInv
    BY DEF LifeInv
  <1>2. /\ server[s].state = "closing"
        /\ server' = [server EXCEPT ![s].state = "gone"]
        /\ sockFile' = NoFile
        /\ upset' = upset \cup Connecting
        /\ UNCHANGED <<build, startLock, cli, crashes, lateComers>>
    BY DEF CloseListener
  <1>3. PICK q \in ServerRecords :
             /\ server' = [server EXCEPT ![s] = q]
             /\ q.state = "gone" /\ q.build = server[s].build
             /\ q.workspaces = server[s].workspaces /\ q.going = server[s].going
    BY <1>1, <1>2, StateWritten
  <1>4. /\ server' \in [Servers -> ServerRecords] /\ server'[s] = q
        /\ \A r \in Servers \ {s} : server'[r] = server[r]
    BY <1>1, <1>3, OneServer
  <1>5. OneBuild' => OneBuild
    <2>1. \A r \in Servers : server'[r].build = server[r].build
      BY <1>3, <1>4
    <2> QED  BY <1>1, <1>2, <2>1, OneBuildBefore
  <1>6. LifeTypes'
    BY <1>1, <1>2, <1>4 DEF LifeTypes, Connecting
  <1>7. BuildInv'
    BY <1>1, <1>2, <1>3, <1>4 DEF BuildInv
  <1>8. SharedInv'
    BY <1>1, <1>2, <1>3, <1>4, <1>5, LifeNumbers DEF SharedInv
  <1>9. AttachedInv'
    BY <1>1, <1>2, <1>3, <1>4, <1>5, AttachedKept
  <1>10. FileInv'
    BY <1>2 DEF FileInv
  <1>11. WaitInv'
    BY <1>1, <1>2, AllUpset
  <1>12. FailedHasCause'
    BY <1>1, <1>2 DEF FailedHasCause
  <1> QED  BY <1>6, <1>7, <1>8, <1>9, <1>10, <1>11, <1>12 DEF LifeInv

LEMMA CrashServerLife ==
    ASSUME LifeInv, NEW s \in Servers, CrashServer(s)
    PROVE  LifeInv'
  <1>1. /\ LifeTypes /\ SharedInv /\ WaitInv /\ FileInv /\ FailedHasCause /\ BuildInv
        /\ AttachedInv
    BY DEF LifeInv
  <1>2. /\ server[s].state \in {"starting", "listening", "closing"}
        /\ crashes' = crashes + 1
        /\ server' = [server EXCEPT ![s].state = "crashed"]
        /\ upset' = upset \cup Connecting
        /\ UNCHANGED <<build, sockFile, startLock, cli, lateComers>>
    BY DEF CrashServer
  <1>3. PICK q \in ServerRecords :
             /\ server' = [server EXCEPT ![s] = q]
             /\ q.state = "crashed" /\ q.build = server[s].build
             /\ q.workspaces = server[s].workspaces /\ q.going = server[s].going
    BY <1>1, <1>2, StateWritten
  <1>4. /\ server' \in [Servers -> ServerRecords] /\ server'[s] = q
        /\ \A r \in Servers \ {s} : server'[r] = server[r]
    BY <1>1, <1>3, OneServer
  <1>5. OneBuild' => OneBuild
    <2>1. \A r \in Servers : server'[r].build = server[r].build
      BY <1>3, <1>4
    <2> QED  BY <1>1, <1>2, <2>1, OneBuildBefore
  <1>6. LifeTypes'
    BY <1>1, <1>2, <1>4 DEF LifeTypes, Connecting
  <1>7. BuildInv'
    BY <1>1, <1>2, <1>3, <1>4 DEF BuildInv
  <1>8. SharedInv'
    BY <1>1, <1>2, <1>3, <1>4, <1>5, LifeNumbers DEF SharedInv
  <1>9. AttachedInv'
    BY <1>1, <1>2, <1>3, <1>4, <1>5, AttachedKept
  <1>10. FileInv'
    BY <1>1, <1>2 DEF FileInv, LifeTypes
  <1>11. WaitInv'
    BY <1>1, <1>2, AllUpset
  <1>12. FailedHasCause'
    BY <1>1, <1>2 DEF FailedHasCause, LifeTypes
  <1> QED  BY <1>6, <1>7, <1>8, <1>9, <1>10, <1>11, <1>12 DEF LifeInv

LEMMA LifeInvInit == LifeInit => LifeInv
  <1> SUFFICES ASSUME LifeInit PROVE LifeInv
    OBVIOUS
  <1>1. NoServer \in ServerRecords /\ NoServer.state = "none" /\ NoServer.build = ""
    BY DEF NoServer, ServerRecords
  <1>2. [pc |-> "start", on |-> NoFile] \in Clis
    BY DEF Clis, CliPoints
  <1>3. /\ cli \in [Commands -> Clis] /\ \A c \in Commands : cli[c].pc = "start"
        /\ build \in [Commands -> Builds] /\ crashes = 0 /\ upset = {} /\ lateComers = {}
    BY <1>2 DEF LifeInit
  <1>4. /\ sockFile \in Servers \cup {NoFile}
        /\ server \in [Servers -> ServerRecords]
        /\ BuildInv
        /\ \A s \in Servers : server[s].state \in {"none", "listening"}
        /\ \A s \in Servers : server[s].state = "listening" <=> sockFile = s
    <2>1. CASE sockFile = NoFile /\ server = [s \in Servers |-> NoServer]
      BY <1>1, <2>1, LifeNumbers DEF BuildInv
    <2>2. ASSUME sockFile = 1,
                 NEW b \in Builds,
                 server = [s \in Servers |->
                             IF s = 1 THEN [NoServer EXCEPT !.state = "listening", !.build = b]
                                      ELSE NoServer]
          PROVE  /\ sockFile \in Servers \cup {NoFile}
                 /\ server \in [Servers -> ServerRecords]
                 /\ BuildInv
                 /\ \A s \in Servers : server[s].state \in {"none", "listening"}
                 /\ \A s \in Servers : server[s].state = "listening" <=> sockFile = s
      <3>1. PICK q \in ServerRecords :
                /\ server = [s \in Servers |-> IF s = 1 THEN q ELSE NoServer]
                /\ q.state = "listening" /\ q.build = b
        <4>1. [NoServer EXCEPT !.state = "listening", !.build = b] \in ServerRecords
          BY DEF NoServer, ServerRecords
        <4> QED  BY <2>2, <4>1 DEF NoServer
      <3>2. b # ""
        BY ServerLifecycleAssumption
      <3> QED  BY <1>1, <2>2, <3>1, <3>2, LifeNumbers DEF BuildInv
    <2> QED  BY <2>1, <2>2 DEF LifeInit
  <1>5. LifeTypes
    BY <1>3, <1>4 DEF LifeTypes
  <1>6. SharedInv /\ AttachedInv /\ FileInv /\ WaitInv /\ FailedHasCause
    BY <1>3, <1>4 DEF SharedInv, AttachedInv, FileInv, WaitInv, FailedHasCause
  <1> QED  BY <1>4, <1>5, <1>6 DEF LifeInv

LEMMA LifeInvNext == LifeInv /\ [LifeNext]_lifeVars => LifeInv'
  <1> SUFFICES ASSUME LifeInv, [LifeNext]_lifeVars PROVE LifeInv'
    OBVIOUS
  <1>1. CASE UNCHANGED lifeVars
    <2>1. UNCHANGED <<build, sockFile, server, cli, crashes, upset, lateComers>>
      BY <1>1 DEF lifeVars
    <2>2. OneBuild' = OneBuild /\ Answers(sockFile)' = Answers(sockFile) /\ Coming' = Coming
      BY <2>1 DEF OneBuild, Answers, Coming
    <2>3. LifeTypes' /\ BuildInv' /\ SharedInv' /\ FileInv' /\ FailedHasCause'
      BY <2>1, <2>2 DEF LifeInv, LifeTypes, BuildInv, SharedInv, FileInv, FailedHasCause
    <2>4. AttachedInv' /\ WaitInv'
      BY <2>1, <2>2 DEF LifeInv, AttachedInv, WaitInv
    <2> QED  BY <2>3, <2>4 DEF LifeInv
  <1>2. ASSUME NEW c \in Commands,
               \/ StatSocket(c) \/ CheckVersion(c) \/ TellShutdown(c) \/ RemoveSocket(c)
               \/ LockSpawn(c) \/ ProbeAgain(c) \/ SpawnServer(c) \/ ServerReady(c)
               \/ ReadyTimeout(c) \/ CreateWorkspace(c) \/ LeaveServer(c)
        PROVE  LifeInv'
    BY <1>2, StatSocketLife, CheckVersionLife, TellShutdownLife, RemoveSocketLife, LockSpawnLife,
       ProbeAgainLife, SpawnServerLife, ServerReadyLife, ReadyTimeoutLife, CreateWorkspaceLife,
       LeaveServerLife
  <1>3. ASSUME NEW s \in Servers,
               Listen(s) \/ EndWhenEmpty(s) \/ CloseListener(s) \/ CrashServer(s)
        PROVE  LifeInv'
    BY <1>3, ListenLife, EndWhenEmptyLife, CloseListenerLife, CrashServerLife
  <1> QED  BY <1>1, <1>2, <1>3 DEF LifeNext

LEMMA SharedByInv == LifeInv => ServersAreShared
  <1> SUFFICES ASSUME LifeInv PROVE ServersAreShared
    OBVIOUS
  <1>1. FailedHasCause /\ AttachedInv /\ SharedInv
    BY DEF LifeInv
  <1>2. AttachedIsServed
    BY <1>1, LifeNumbers DEF AttachedInv, AttachedIsServed, Answers
  <1>3. ListenersAreFound
    BY <1>1 DEF SharedInv, ListenersAreFound, Answers
  <1> QED  BY <1>1, <1>2, <1>3 DEF ServersAreShared

(* For any number of commands, builds and servers: a command that fails to *)
(* connect was crossed by the end of a server or came after a crash; one   *)
(* that is attached is served, but for a crash, another build, or a        *)
(* workspace created after the server had decided to end; and with one     *)
(* build about no second server listens (cmd/root.go:463, 493-527,         *)
(* backend.go:598-613).                                                    *)
THEOREM ServersStayShared == LifeSpec => []ServersAreShared
  BY LifeInvInit, LifeInvNext, SharedByInv, PTL DEF LifeSpec

-----------------------------------------------------------------------------
(* The composition: it begins where each component does, and each of its   *)
(* steps is a step of each component or leaves it alone.                   *)

LEMMA ComposedInit ==
    MCInit => /\ BackgroundShellsInit /\ LspInit /\ McpInit /\ RunEventsInit /\ LifeInit
  BY DEF MCInit

LEMMA ComposedNext ==
    [MCNext]_MCVars =>
        /\ [BackgroundShellsNext]_shellVars
        /\ [LspNext]_lspVars
        /\ [McpNext]_mcpVars
        /\ [RunEventsNext]_runVars
        /\ [LifeNext]_lifeVars
  <1> SUFFICES ASSUME [MCNext]_MCVars
               PROVE  /\ BackgroundShellsNext \/ UNCHANGED shellVars
                      /\ LspNext \/ UNCHANGED lspVars
                      /\ McpNext \/ UNCHANGED mcpVars
                      /\ RunEventsNext \/ UNCHANGED runVars
                      /\ LifeNext \/ UNCHANGED lifeVars
    OBVIOUS
  <1>1. CASE UNCHANGED MCVars
    BY <1>1 DEF MCVars
  <1>2. CASE MCNext
    BY <1>2 DEF MCNext, Stopped
  <1> QED  BY <1>1, <1>2

LEMMA ComposedSafety ==
    MCSpec => [](ShellsInv /\ LspInv /\ McpInv /\ AgreeInv /\ RunInv /\ LifeInv)
  <1> DEFINE All == ShellsInv /\ LspInv /\ McpInv /\ AgreeInv /\ RunInv /\ LifeInv
  <1>1. MCInit => All
    BY ComposedInit, ShellsInvInit, LspInvInit, McpInvInit, AgreeInvInit, RunInvInit, LifeInvInit
  <1>2. All /\ [MCNext]_MCVars => All'
    BY ComposedNext, ShellsInvNext, LspInvNext, McpInvNext, AgreeInvNext, RunInvNext, LifeInvNext
  <1> QED  BY <1>1, <1>2, PTL DEF MCSpec

(* Every process that the program starts beside itself is in the map that  *)
(* ends it, in the hands of a goroutine that starts or ends it, or lost in *)
(* one of the ways the three components name.                              *)
THEOREM EveryProcessIsAccounted == MCSpec => []ProcessesAccounted
  <1>1. ShellsInv /\ LspInv /\ McpInv => ProcessesAccounted
    BY KnownIsAccounted DEF ShellsInv, ShellsAccounted, McpInv, ProcessesAccounted
  <1> QED  BY <1>1, ComposedSafety, PTL

=============================================================================
