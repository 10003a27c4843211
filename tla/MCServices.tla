---------------------------- MODULE MCServices -----------------------------
(***************************************************************************)
(* The coordinator and the services beside the session agent, checked in   *)
(* one run.  They share no state here and no property relates two of them, *)
(* so a behaviour follows one of them, its subject, and leaves the others  *)
(* where they began.                                                       *)
(***************************************************************************)
EXTENDS Coordinator, Broker, RunEvents, BackgroundShells, LspManager, McpClients,
        ServerLifecycle, JobChannel

VARIABLE subject

Subjects == {"coord", "broker", "run", "shells", "lsp", "mcp", "lifecycle", "jobs"}

(* Only the messages of the command's own turn grow, twice in process.     *)
MCFullLength ==
    [m \in Modes |-> [t \in Turns |->
       IF t # "mine" THEN 0 ELSE IF m = "inprocess" THEN 2 ELSE 1]]

(* A must-deliver publisher comes back for a second event.                 *)
MCMaxEvents == [p \in Publishers |-> IF p \in MustDeliver THEN 2 ELSE 1]

(* Every agent of the shells' run works in a workspace of its own.         *)
MCHomeOf == [t \in Shellers |-> t]

(* Of the others' several initial states one will do, and builds differ    *)
(* in nothing but their names.                                             *)
MCInit ==
    /\ subject \in Subjects
    /\ CoordInit
    /\ BrokerInit
    /\ RunEventsInit
    /\ BackgroundShellsInit
    /\ LspInit
    /\ McpInit
    /\ LifeInit
    /\ JobChannelInit
    /\ subject # "run" => mode = "runid" /\ turn.who = "mine"
    /\ subject = "lifecycle" => build[CHOOSE c \in Commands : TRUE] = "old"
    /\ subject # "lifecycle" =>
         /\ sockFile = NoFile
         /\ build = CHOOSE b \in [Commands -> Builds] : TRUE

(* The others stop where their bounds end them.                            *)
Stopped ==
    /\ subject # "coord"
    /\ UNCHANGED <<allVars, brokerVars, runVars, shellVars, lspVars, mcpVars,
                   lifeVars, jobVars>>

MCNext ==
    /\ UNCHANGED subject
    /\ \/ /\ subject = "coord" /\ CoordNext
          /\ UNCHANGED <<brokerVars, runVars, shellVars, lspVars, mcpVars, lifeVars, jobVars>>
       \/ /\ subject = "broker" /\ BrokerNext
          /\ UNCHANGED <<allVars, runVars, shellVars, lspVars, mcpVars, lifeVars, jobVars>>
       \/ /\ subject = "run" /\ RunEventsNext
          /\ UNCHANGED <<allVars, brokerVars, shellVars, lspVars, mcpVars, lifeVars, jobVars>>
       \/ /\ subject = "shells" /\ BackgroundShellsNext
          /\ UNCHANGED <<allVars, brokerVars, runVars, lspVars, mcpVars, lifeVars, jobVars>>
       \/ /\ subject = "lsp" /\ LspNext
          /\ UNCHANGED <<allVars, brokerVars, runVars, shellVars, mcpVars, lifeVars, jobVars>>
       \/ /\ subject = "mcp" /\ McpNext
          /\ UNCHANGED <<allVars, brokerVars, runVars, shellVars, lspVars, lifeVars, jobVars>>
       \/ /\ subject = "lifecycle" /\ LifeNext
          /\ UNCHANGED <<allVars, brokerVars, runVars, shellVars, lspVars, mcpVars, jobVars>>
       \/ /\ subject = "jobs" /\ JobChannelNext
          /\ UNCHANGED <<allVars, brokerVars, runVars, shellVars, lspVars, mcpVars, lifeVars>>
       \/ Stopped

MCVars == <<subject, allVars, brokerVars, runVars, shellVars, lspVars, mcpVars, lifeVars, jobVars>>

(* The fairness of the four components that have any, each in the         *)
(* behaviours that follow it.                                              *)
MCCoordFairness ==
    /\ \A g \in Runners :
         /\ WF_allVars(subject = "coord" /\ Advance(g) /\ UNCHANGED <<marking, coordVars>>)
         /\ SF_allVars(/\ subject = "coord"
                       /\ StreamEnds(g) \/ StreamFails(g)
                       /\ UNCHANGED <<marking, coordVars>>)
    /\ \A p \in Prompts :
         WF_allVars(/\ subject = "coord"
                    /\ CoordRun(p) \/ CoordResolve(p) \/ (resolved[p] /\ RunAgent(p))
                    /\ UNCHANGED marking)
    /\ \A c \in Cancels :
         WF_allVars(subject = "coord" /\ CancelRaises(c) /\ UNCHANGED coordVars)
    /\ \A c \in Cancels \cup Clears :
         WF_allVars(/\ subject = "coord"
                    /\ ClearGet(c) \/ ClearSet(c)
                    /\ UNCHANGED <<marking, coordVars>>)

MCBrokerFairness ==
    /\ \A p \in Publishers :
         WF_brokerVars(subject = "broker" /\ Running /\ PublishStep(p))
    /\ WF_brokerVars(subject = "broker" /\ Running /\ WriteLockCall)
    /\ \A s \in Subscribers :
         WF_brokerVars(subject = "broker" /\ Running /\ Unsubscribe(s))
    /\ \A c \in Closers :
         WF_brokerVars(/\ subject = "broker" /\ Running
                       /\ ShutdownClose(c) \/ ShutdownEnter(c))

MCRunFairness ==
    /\ WF_runVars(subject = "run" /\ Waiting /\ \E o \in owed : RunReturns(o))
    /\ WF_runVars(subject = "run" /\ Waiting /\ ForwardMessage)
    /\ WF_runVars(subject = "run" /\ Waiting /\ (ForwardComplete \/ ForwardExpires))
    /\ WF_runVars(subject = "run" /\ Waiting /\ WriteEvent)
    /\ WF_runVars(subject = "run" /\ Waiting /\ (ReadEvent \/ StreamClosed))
    /\ WF_runVars(subject = "run" /\ Waiting /\ (TakeMessage \/ TakeResult))

MCJobFairness ==
    \A w \in Watchers : WF_jobVars(subject = "jobs" /\ Watch(w))

MCSpec ==
    /\ MCInit /\ [][MCNext]_MCVars
    /\ MCCoordFairness /\ MCBrokerFairness /\ MCRunFairness /\ MCJobFairness

-----------------------------------------------------------------------------
(* Every process the program starts beside itself (the commands of the     *)
(* bash tool, the language servers, the MCP servers) is in the map that    *)
(* ends it, in the hands of a goroutine that starts or ends it, or lost in *)
(* one of the ways the three parts name.                                   *)
ProcessesAccounted == ShellsAccounted /\ ServersAccounted /\ SessionsAccounted
=============================================================================
