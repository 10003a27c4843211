-------------------------- MODULE BackgroundShells --------------------------
(***************************************************************************)
(* The process-wide BackgroundShellManager (shell/background.go) and those *)
(* who share it: the bash and job_kill tools of every workspace's agents   *)
(* (agent/tools/bash.go, job_kill.go) and the shutdown of each workspace   *)
(* (App.Shutdown).  The manager is a concurrent map: each call on it is    *)
(* atomic, and nothing else is.                                            *)
(***************************************************************************)
EXTENDS Naturals, FiniteSets

CONSTANTS
    Shellers,           \* agents that call the tools
    HomeOf,             \* the workspace of each
    MaxBackgroundJobs,  \* jobs the manager should hold
    MaxStarts           \* jobs started in all (bound)

ASSUME BackgroundShellsAssumption ==
    /\ IsFiniteSet(Shellers) /\ HomeOf \in [Shellers -> STRING]
    /\ MaxBackgroundJobs \in Nat \ {0} /\ MaxStarts \in Nat

Homes == {HomeOf[t] : t \in Shellers}
JobIds == 1 .. MaxStarts

VARIABLES
    shells,     \* jobs in the manager's map
    job,        \* per id: "none", "running", "cancelled", "done"
    idCounter,  \* last id given out
    tool,       \* per agent: the tool call it is in
    killAll,    \* per workspace: its shutdown's KillAll
    raced       \* jobs inserted inside somebody's KillAll (history)

shellVars == <<shells, job, idCounter, tool, killAll, raced>>

NoTool == [pc |-> "idle", id |-> 0, background |-> FALSE]

BackgroundShellsInit ==
    /\ shells = {}
    /\ job = [j \in JobIds |-> "none"]
    /\ idCounter = 0
    /\ tool = [t \in Shellers |-> NoTool]
    /\ killAll = [w \in Homes |-> [pc |-> "none", jobs |-> {}]]
    /\ raced = {}

Cancelled(J) ==
    [j \in JobIds |-> IF j \in J /\ job[j] = "running" THEN "cancelled" ELSE job[j]]

-----------------------------------------------------------------------------
(* The bash tool.                                                          *)

(* Cleanup drops jobs that completed long ago, then Start looks at the     *)
(* size of the map; a refused call returns its error.                      *)
BashStart(t, background) ==
    /\ tool[t].pc = "idle" /\ killAll[HomeOf[t]].pc = "none"
    /\ \E old \in SUBSET {j \in shells : job[j] = "done"} :
         /\ shells' = shells \ old
         /\ tool' = IF Cardinality(shells \ old) >= MaxBackgroundJobs
                      THEN tool
                      ELSE [tool EXCEPT ![t].pc = "insert", ![t].background = background]
    /\ UNCHANGED <<job, idCounter, killAll, raced>>

BashInsert(t) ==
    /\ tool[t].pc = "insert" /\ idCounter < MaxStarts
    /\ LET id == idCounter + 1
       IN  /\ idCounter' = id
           /\ shells' = shells \cup {id}
           /\ job' = [job EXCEPT ![id] = "running"]
           /\ tool' = [tool EXCEPT ![t].pc = "wait", ![t].id = id]
           /\ raced' = IF \E w \in Homes : killAll[w].pc = "collected"
                         THEN raced \cup {id} ELSE raced
    /\ UNCHANGED killAll

(* The command ended while the tool looked on: Remove, and the output.     *)
BashCompletes(t) ==
    /\ tool[t].pc = "wait" /\ job[tool[t].id] = "done"
    /\ shells' = shells \ {tool[t].id}
    /\ tool' = [tool EXCEPT ![t] = NoTool]
    /\ UNCHANGED <<job, idCounter, killAll, raced>>

(* The first second, or the auto-background threshold, is over: the job is *)
(* left to the manager.                                                    *)
BashLeaves(t) ==
    /\ tool[t].pc = "wait" /\ job[tool[t].id] # "done"
    /\ tool' = [tool EXCEPT ![t] = NoTool]
    /\ UNCHANGED <<shells, job, idCounter, killAll, raced>>

(* Kill: only who takes the job out of the map cancels it and waits.       *)
Kill(t, id) ==
    /\ IF id \in shells
         THEN /\ job' = Cancelled({id})
              /\ tool' = [tool EXCEPT ![t] = [NoTool EXCEPT !.pc = "kill", !.id = id]]
         ELSE /\ tool' = [tool EXCEPT ![t] = NoTool]
              /\ UNCHANGED job
    /\ shells' = shells \ {id}
    /\ UNCHANGED <<idCounter, killAll, raced>>

(* The turn is cancelled while a synchronous call waits; a background call *)
(* sleeps its second out.                                                  *)
BashCancelled(t) ==
    /\ tool[t].pc = "wait" /\ ~tool[t].background
    /\ Kill(t, tool[t].id)

(* The job_kill tool, with whatever id the agent names: ids are those of   *)
(* the process, not of the workspace.                                      *)
JobKill(t, id) ==
    /\ tool[t].pc = "idle" /\ killAll[HomeOf[t]].pc = "none" /\ id \in shells
    /\ Kill(t, id)

KillReturns(t) ==
    /\ tool[t].pc = "kill" /\ job[tool[t].id] = "done"
    /\ tool' = [tool EXCEPT ![t] = NoTool]
    /\ UNCHANGED <<shells, job, idCounter, killAll, raced>>

JobEnds(j) ==
    /\ job[j] \in {"running", "cancelled"}
    /\ job' = [job EXCEPT ![j] = "done"]
    /\ UNCHANGED <<shells, idCounter, tool, killAll, raced>>

-----------------------------------------------------------------------------
(* App.Shutdown of one workspace: KillAll, over the jobs of all of them.   *)
KillAllCollect(w) ==
    /\ killAll[w].pc = "none"
    /\ killAll' = [killAll EXCEPT ![w] = [pc |-> "collected", jobs |-> shells]]
    /\ UNCHANGED <<shells, job, idCounter, tool, raced>>

(* Mistake: the collected jobs are only forgotten.                         *)
KillAllForgets(w) ==
    /\ killAll[w].pc = "collected"
    /\ shells' = {}
    /\ killAll' = [killAll EXCEPT ![w].pc = "waiting"]
    /\ UNCHANGED <<job, idCounter, tool, raced>>

KillAllReset(w) ==
    /\ killAll[w].pc = "collected"
    /\ shells' = {}
    /\ job' = Cancelled(killAll[w].jobs)
    /\ killAll' = [killAll EXCEPT ![w].pc = "waiting"]
    /\ UNCHANGED <<idCounter, tool, raced>>

(* All of them have ended, or the shutdown's five seconds are over.        *)
KillAllReturns(w) ==
    /\ killAll[w].pc = "waiting"
    /\ killAll' = [killAll EXCEPT ![w].pc = "returned"]
    /\ UNCHANGED <<shells, job, idCounter, tool, raced>>

BackgroundShellsNext ==
    \/ \E t \in Shellers :
         \/ \E background \in BOOLEAN : BashStart(t, background)
         \/ BashInsert(t)
         \/ BashCompletes(t)
         \/ BashLeaves(t)
         \/ BashCancelled(t)
         \/ \E id \in JobIds : JobKill(t, id)
         \/ KillReturns(t)
    \/ \E j \in JobIds : JobEnds(j)
    \/ \E w \in Homes :
         \/ KillAllCollect(w)
         \/ KillAllReset(w)
         \/ KillAllReturns(w)

BackgroundShellsSpec == BackgroundShellsInit /\ [][BackgroundShellsNext]_shellVars

-----------------------------------------------------------------------------
(* Every process is accounted for.  A running command nobody has cancelled *)
(* is in the map, where job_output and job_kill find it, or in the hands   *)
(* of a KillAll that is about to cancel it; the one exception is a job     *)
(* inserted between the two steps of some workspace's KillAll              *)
(* (background.go:202-203), which runs on with nobody able to stop it.     *)
RunningIsReachable ==
    \A j \in JobIds : job[j] = "running" =>
        \/ j \in shells
        \/ \E w \in Homes : killAll[w].pc = "collected" /\ j \in killAll[w].jobs
        \/ j \in raced

(* The limit is looked up before the job is inserted, so agents that start *)
(* together pass it together: but by no more than there are others         *)
(* starting (background.go:91, 121).                                       *)
LimitOvershoot ==
    Cardinality(shells) + Cardinality({t \in Shellers : tool[t].pc = "insert"})
        <= MaxBackgroundJobs + Cardinality(Shellers) - 1

ShellsAccounted == RunningIsReachable /\ LimitOvershoot
=============================================================================
