-------------------------- MODULE ServerLifecycle ---------------------------
(***************************************************************************)
(* How commands share one server: ensureServer and its helpers             *)
(* (cmd/root.go:399-770) find, restart or spawn the server behind a unix   *)
(* socket, under a file lock (lock/); the server process (cmd/server.go,   *)
(* server/server.go) listens, and ends when told to, when its last         *)
(* workspace is gone (Backend.teardown), or by a crash, which leaves the   *)
(* socket's file behind.  Whoever removes the file removes it by path.     *)
(* Every command works in a directory of its own.                          *)
(***************************************************************************)
EXTENDS Naturals

CONSTANTS
    Commands,    \* `trapeze` processes
    Builds,      \* the versions a command or a server may be of
    MaxServers,  \* servers started in all (bound)
    MaxCrashes,  \* server crashes (bound)
    Nobody       \* holds the start lock

ASSUME ServerLifecycleAssumption ==
    /\ MaxServers \in Nat \ {0} /\ MaxCrashes \in Nat
    /\ Nobody \notin Commands /\ "" \notin Builds

Servers == 1 .. MaxServers
NoFile == 0

VARIABLES
    build,      \* per command: the version it is of
    sockFile,   \* the server whose socket file is at the path, or NoFile
    server,     \* per server: state, build, workspaces (by command), going
    startLock,  \* who holds start.lock
    cli,        \* per command: its point, and the server it is attached to
    crashes,    \* crashes so far
    upset,      \* commands whose connecting a server's end or slowness crossed (history)
    lateComers  \* commands that attached to a server already decided to end (history)

lifeVars == <<build, sockFile, server, startLock, cli, crashes, upset, lateComers>>

NoServer == [state |-> "none", build |-> "", workspaces |-> {}, going |-> FALSE]

(* `trapeze server` may have been run by hand before.                      *)
LifeInit ==
    /\ build \in [Commands -> Builds]
    /\ \/ sockFile = NoFile /\ server = [s \in Servers |-> NoServer]
       \/ /\ sockFile = 1
          /\ \E b \in Builds :
               server = [s \in Servers |->
                           IF s = 1 THEN [NoServer EXCEPT !.state = "listening", !.build = b]
                                    ELSE NoServer]
    /\ startLock = Nobody
    /\ cli = [c \in Commands |-> [pc |-> "start", on |-> NoFile]]
    /\ crashes = 0
    /\ upset = {}
    /\ lateComers = {}

(* A request reaches the server whose file is at the path, if it listens.  *)
Answers(s) == s # NoFile /\ server[s].state = "listening"

Connecting == {c \in Commands : cli[c].pc \notin {"start", "attached", "gone"}}

Go(c, pc) == cli' = [cli EXCEPT ![c].pc = pc]

-----------------------------------------------------------------------------
(* A command.                                                              *)

StatSocket(c) ==
    /\ cli[c].pc = "start"
    /\ Go(c, IF sockFile = NoFile THEN "lock" ELSE "version")
    /\ UNCHANGED <<build, sockFile, server, startLock, crashes, upset, lateComers>>

(* restartIfStale, before any lock is taken; no answer means a spawn.      *)
CheckVersion(c) ==
    /\ cli[c].pc = "version"
    /\ Go(c, IF ~Answers(sockFile) THEN "lock"
             ELSE IF server[sockFile].build = build[c] THEN "wait"
             ELSE "stop")
    /\ UNCHANGED <<build, sockFile, server, startLock, crashes, upset, lateComers>>

(* The shutdown command goes to whoever answers by now.                    *)
TellShutdown(c) ==
    /\ cli[c].pc = "stop"
    /\ server' = IF Answers(sockFile) THEN [server EXCEPT ![sockFile].state = "closing"]
                                      ELSE server
    /\ upset' = IF Answers(sockFile) THEN upset \cup Connecting ELSE upset
    /\ Go(c, "linger")
    /\ UNCHANGED <<build, sockFile, startLock, crashes, lateComers>>

(* After the file is gone, or two seconds: "force-remove if the socket is  *)
(* still lingering".                                                       *)
RemoveSocket(c) ==
    /\ cli[c].pc = "linger"
    /\ sockFile' = NoFile
    /\ upset' = IF sockFile = NoFile THEN upset ELSE upset \cup Connecting
    /\ Go(c, "lock")
    /\ UNCHANGED <<build, server, startLock, crashes, lateComers>>

(* spawnAndWaitReady: the lock, then a second look; without the lock when  *)
(* its file cannot be opened.                                              *)
LockSpawn(c) ==
    /\ cli[c].pc = "lock"
    /\ \/ startLock = Nobody /\ startLock' = c /\ Go(c, "probe")
       \/ UNCHANGED startLock /\ Go(c, "spawn")
    /\ UNCHANGED <<build, sockFile, server, crashes, upset, lateComers>>

Unlocked(c) == IF startLock = c THEN Nobody ELSE startLock

ProbeAgain(c) ==
    /\ cli[c].pc = "probe"
    /\ IF Answers(sockFile)
         THEN Go(c, "create") /\ startLock' = Unlocked(c)
         ELSE Go(c, "spawn") /\ UNCHANGED startLock
    /\ UNCHANGED <<build, sockFile, server, crashes, upset, lateComers>>

SpawnServer(c) ==
    /\ cli[c].pc = "spawn"
    /\ \E s \in Servers :
         /\ server[s].state = "none" /\ \A r \in 1 .. s - 1 : server[r].state # "none"
         /\ server' = [server EXCEPT ![s].state = "starting", ![s].build = build[c]]
    /\ Go(c, "wait")
    /\ UNCHANGED <<build, sockFile, startLock, crashes, upset, lateComers>>

ServerReady(c) ==
    /\ cli[c].pc = "wait" /\ Answers(sockFile)
    /\ startLock' = Unlocked(c)
    /\ Go(c, "create")
    /\ UNCHANGED <<build, sockFile, server, crashes, upset, lateComers>>

(* The budget is used up; a server still starting or closing was too slow. *)
ReadyTimeout(c) ==
    /\ cli[c].pc = "wait" /\ ~Answers(sockFile)
    /\ startLock' = Unlocked(c)
    /\ upset' = IF \E s \in Servers : server[s].state \in {"starting", "closing"}
                  THEN upset \cup {c} ELSE upset
    /\ Go(c, "failed")
    /\ UNCHANGED <<build, sockFile, server, crashes, lateComers>>

CreateWorkspace(c) ==
    /\ cli[c].pc = "create"
    /\ IF Answers(sockFile)
         THEN /\ server' = [server EXCEPT ![sockFile].workspaces = @ \cup {c}]
              /\ cli' = [cli EXCEPT ![c] = [pc |-> "attached", on |-> sockFile]]
              /\ lateComers' = IF server[sockFile].going THEN lateComers \cup {c}
                                                         ELSE lateComers
         ELSE /\ Go(c, "failed")
              /\ UNCHANGED <<server, lateComers>>
    /\ UNCHANGED <<build, sockFile, startLock, crashes, upset>>

(* The cleanup's DeleteWorkspace, or the end of the cli's connection:  *)
(* teardown decides here whether this was the last workspace, and acts on  *)
(* it when the workspace has been shut down.                               *)
LeaveServer(c) ==
    /\ cli[c].pc = "attached"
    /\ LET s == cli[c].on
           left == server[s].workspaces \ {c}
       IN  server' = [server EXCEPT ![s].workspaces = left,
                                    ![s].going = @ \/ left = {}]
    /\ Go(c, "gone")
    /\ UNCHANGED <<build, sockFile, startLock, crashes, upset, lateComers>>

-----------------------------------------------------------------------------
(* A server.                                                               *)

(* Mistake: whatever is at the path is removed first.                      *)
ListenTakesOver(s) ==
    /\ server[s].state = "starting"
    /\ sockFile' = s
    /\ server' = [server EXCEPT ![s].state = "listening"]
    /\ UNCHANGED <<build, startLock, cli, crashes, upset, lateComers>>

(* net.Listen fails when there is a file at the path, dead or alive.       *)
Listen(s) ==
    /\ server[s].state = "starting"
    /\ IF sockFile = NoFile
         THEN sockFile' = s /\ server' = [server EXCEPT ![s].state = "listening"]
         ELSE server' = [server EXCEPT ![s].state = "gone"] /\ UNCHANGED sockFile
    /\ UNCHANGED <<build, startLock, cli, crashes, upset, lateComers>>

(* shutdownFn, when the last workspace's own shutdown has returned.        *)
EndWhenEmpty(s) ==
    /\ server[s].going /\ server[s].state = "listening"
    /\ server' = [server EXCEPT ![s].state = "closing"]
    /\ upset' = upset \cup Connecting
    /\ UNCHANGED <<build, sockFile, startLock, cli, crashes, lateComers>>

(* http.Server.Shutdown closes the listener, which unlinks its path,       *)
(* whoever's socket is there by now; then the process exits.               *)
CloseListener(s) ==
    /\ server[s].state = "closing"
    /\ server' = [server EXCEPT ![s].state = "gone"]
    /\ sockFile' = NoFile
    /\ upset' = upset \cup Connecting
    /\ UNCHANGED <<build, startLock, cli, crashes, lateComers>>

CrashServer(s) ==
    /\ server[s].state \in {"starting", "listening", "closing"} /\ crashes < MaxCrashes
    /\ crashes' = crashes + 1
    /\ server' = [server EXCEPT ![s].state = "crashed"]
    /\ upset' = upset \cup Connecting
    /\ UNCHANGED <<build, sockFile, startLock, cli, lateComers>>

LifeNext ==
    \/ \E c \in Commands :
         \/ StatSocket(c)
         \/ CheckVersion(c)
         \/ TellShutdown(c)
         \/ RemoveSocket(c)
         \/ LockSpawn(c)
         \/ ProbeAgain(c)
         \/ SpawnServer(c)
         \/ ServerReady(c)
         \/ ReadyTimeout(c)
         \/ CreateWorkspace(c)
         \/ LeaveServer(c)
    \/ \E s \in Servers :
         \/ Listen(s)
         \/ EndWhenEmpty(s)
         \/ CloseListener(s)
         \/ CrashServer(s)

LifeSpec == LifeInit /\ [][LifeNext]_lifeVars

-----------------------------------------------------------------------------
(* Nobody of another build is about.                                       *)
OneBuild ==
    \A c, d \in Commands, s \in Servers :
        build[c] = build[d] /\ server[s].build \in {"", build[c]}

(* A command connects unless a server ended, was replaced or was slow      *)
(* while it tried, or a crash had left the socket's file, which nobody     *)
(* removes: the server it spawns cannot listen (root.go:463-466).          *)
FailedHasCause ==
    \A c \in Commands : cli[c].pc = "failed" => c \in upset \/ crashes > 0

(* The workspaces of a server are served until their commands leave:       *)
(* unless it crashed, commands of another build are about, or the          *)
(* workspace was created after the teardown of the last one had decided    *)
(* that the server ends (backend.go:598-613).                              *)
AttachedIsServed ==
    \A c \in Commands : cli[c].pc = "attached" =>
        \/ Answers(cli[c].on)
        \/ server[cli[c].on].state = "crashed"
        \/ ~OneBuild
        \/ c \in lateComers

(* With one build about, the server that answers at the path is the only   *)
(* one, however many commands start together (root.go:493-527): none is    *)
(* left behind listening where no command can find it.                     *)
ListenersAreFound ==
    OneBuild => \A s \in Servers : Answers(s) => s = sockFile

ServersAreShared == FailedHasCause /\ AttachedIsServed /\ ListenersAreFound
=============================================================================
