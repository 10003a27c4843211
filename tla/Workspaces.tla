----------------------------- MODULE Workspaces -----------------------------
(***************************************************************************)
(* internal/backend/backend.go: the server's workspaces, shared by clients   *)
(* that create, attach to, detach from and delete them; their teardown when  *)
(* the last claim is gone; the dispatch gate of agent runs against it; and    *)
(* the pooled database connection each holds (internal/db/connect.go).       *)
(*                                                                         *)
(* Critical sections under Backend.mu or Workspace.clientsMu are single       *)
(* actions: the maps they read are written only under the same locks.        *)
(* A workspace is named after the CreateWorkspace call that built it.        *)
(***************************************************************************)
EXTENDS Integers, FiniteSets

CONSTANTS
    Creates,      \* the calls of CreateWorkspace
    Clients,      \* the client ids
    Paths,        \* resolved workspace paths, each with its data directory
    Runs,         \* the calls of SendMessage
    MaxTeardowns, \* bound: goroutines in teardown at once
    MaxStreams,   \* bound: event streams attached over time
    MaxDeletes,   \* bound: calls of DeleteWorkspace
    MaxFailures,  \* bound: failing CreateWorkspace calls
    None

ASSUME BoundsAssumption == {MaxTeardowns, MaxStreams, MaxDeletes, MaxFailures} \subseteq Nat
ASSUME NamesAssumption == None \notin Creates \cup Clients \cup Paths

Teardowns == 1..MaxTeardowns

VARIABLES
    workspaces,  \* Backend.workspaces
    pathIndex,   \* Backend.pathIndex
    clients,     \* Workspace.clients: each client's claim on each workspace
    timer,       \* the hold timer started for each call of CreateWorkspace
    create,      \* where each call of CreateWorkspace is
    refs,        \* reference count of each data directory's connection
    leaked,      \* references held by failed calls (history)
    td,          \* the goroutines in teardown
    closing,     \* the workspaces whose closing flag is set
    ctxDone,     \* the workspaces whose run context is cancelled
    cleaned,     \* how often each workspace's App was shut down (history)
    run,         \* the agent runs
    stopped,     \* the server was told to shut down
    opened, deletes, failures  \* counters of the bounds

bounds == <<opened, deletes, failures>>
claims == <<clients, timer>>
index == <<workspaces, pathIndex>>
gate == <<closing, ctxDone, cleaned>>
vars == <<workspaces, pathIndex, clients, timer, create, refs, leaked, td, closing, ctxDone,
          cleaned, run, stopped, opened, deletes, failures>>

(* A claim: its event streams, and in hold the call of CreateWorkspace whose *)
(* timer its holdTimer is, or None.                                         *)
Claim == [streams : Nat, hold : Creates \cup {None}]
NoClaim == [streams |-> 0, hold |-> None]

TypeOK ==
    /\ workspaces \subseteq Creates
    /\ pathIndex \in [Paths -> Creates \cup {None}]
    /\ clients \in [Creates -> [Clients -> Claim]]
    /\ timer \in [Creates -> {"none", "armed", "fired"}]
    /\ create \in [Creates -> [at : {"start", "build", "built", "discard", "done", "found", "failed"},
                               client : Clients \cup {None}, path : Paths \cup {None}]]
    /\ refs \in [Paths -> Nat] /\ leaked \in [Paths -> Nat]
    /\ td \in [Teardowns -> [at : {"idle", "enter", "mark", "cancel", "wait", "cleanup", "stop"},
                             ws : Creates \cup {None}, last : BOOLEAN]]
    /\ closing \subseteq Creates /\ ctxDone \subseteq Creates
    /\ cleaned \in [Creates -> Nat]
    /\ run \in [Runs -> [at : {"start", "accepted", "running", "done", "rejected"},
                         ws : Creates \cup {None}]]
    /\ stopped \in BOOLEAN
    /\ opened \in Nat /\ deletes \in Nat /\ failures \in Nat

Init ==
    /\ workspaces = {} /\ pathIndex = [p \in Paths |-> None]
    /\ clients = [w \in Creates |-> [c \in Clients |-> NoClaim]]
    /\ timer = [k \in Creates |-> "none"]
    /\ create = [k \in Creates |-> [at |-> "start", client |-> None, path |-> None]]
    /\ refs = [p \in Paths |-> 0] /\ leaked = [p \in Paths |-> 0]
    /\ td = [g \in Teardowns |-> [at |-> "idle", ws |-> None, last |-> FALSE]]
    /\ closing = {} /\ ctxDone = {} /\ cleaned = [w \in Creates |-> 0]
    /\ run = [r \in Runs |-> [at |-> "start", ws |-> None]]
    /\ stopped = FALSE
    /\ opened = 0 /\ deletes = 0 /\ failures = 0

Path(w) == create[w].path
Claims(w) == {c \in Clients : clients[w][c] # NoClaim}

-----------------------------------------------------------------------------
(* Connect and Release of the pooled connection; each holds poolMu            *)
(* throughout.  A release of a directory that is not in the pool is a no-op.  *)
Connect(p) == refs' = [refs EXCEPT ![p] = @ + 1]
Release(p) == refs' = [refs EXCEPT ![p] = IF @ > 0 THEN @ - 1 ELSE 0]

-----------------------------------------------------------------------------
(* CreateWorkspace. *)

(* Faulty variant: the hold has no timer. *)
RegisterUntimed(w, k, c) ==
    IF clients[w][c] # NoClaim THEN UNCHANGED claims
    ELSE /\ clients' = [clients EXCEPT ![w][c] = [streams |-> 0, hold |-> k]]
         /\ UNCHANGED timer

(* registerClient for call k: a claim the client already has is left alone.  *)
Register(w, k, c) ==
    IF clients[w][c] # NoClaim THEN UNCHANGED claims
    ELSE /\ clients' = [clients EXCEPT ![w][c] = [streams |-> 0, hold |-> k]]
         /\ timer' = [timer EXCEPT ![k] = "armed"]

(* The live workspace of path p, if there is one. *)
Existing(p) == workspaces \cap {pathIndex[p]}

CreateGoto(k, l) == create' = [create EXCEPT ![k].at = l]

(* The first look at the index finds a workspace and claims it. *)
CreateFinds(k, c, p) ==
    /\ create[k].at = "start" /\ ~stopped
    /\ \E w \in Existing(p) : Register(w, k, c)
    /\ create' = [create EXCEPT ![k] = [at |-> "found", client |-> c, path |-> p]]
    /\ UNCHANGED <<index, refs, leaked, td, gate, run, stopped, bounds>>

(* It finds none, drops a stale entry, and builds one without the lock. *)
CreateBuilds(k, c, p) ==
    /\ create[k].at = "start" /\ ~stopped
    /\ Existing(p) = {}
    /\ pathIndex' = [pathIndex EXCEPT ![p] = None]
    /\ create' = [create EXCEPT ![k] = [at |-> "build", client |-> c, path |-> p]]
    /\ UNCHANGED <<workspaces, claims, refs, leaked, td, gate, run, stopped, bounds>>

CreateConnects(k) ==
    /\ create[k].at = "build"
    /\ Connect(Path(k))
    /\ CreateGoto(k, "built")
    /\ UNCHANGED <<index, claims, leaked, td, gate, run, stopped, bounds>>

(* Configuration, directory or database fail: nothing is held. *)
CreateFails(k) ==
    /\ create[k].at = "build" /\ failures < MaxFailures
    /\ failures' = failures + 1
    /\ CreateGoto(k, "failed")
    /\ UNCHANGED <<index, claims, refs, leaked, td, gate, run, stopped, opened, deletes>>

(* app.New fails: the connection is not released. *)
AppFails(k) ==
    /\ create[k].at = "built" /\ failures < MaxFailures
    /\ failures' = failures + 1
    /\ leaked' = [leaked EXCEPT ![Path(k)] = @ + 1]
    /\ CreateGoto(k, "failed")
    /\ UNCHANGED <<index, claims, refs, td, gate, run, stopped, opened, deletes>>

(* The second look: a concurrent call won, its workspace is claimed and the  *)
(* one just built is discarded.                                             *)
CreateLoses(k) ==
    /\ create[k].at = "built"
    /\ \E w \in Existing(Path(k)) : Register(w, k, create[k].client)
    /\ CreateGoto(k, "discard")
    /\ UNCHANGED <<index, refs, leaked, td, gate, run, stopped, bounds>>

(* Faulty variant: there is no second look. *)
InsertUnchecked(k) ==
    /\ create[k].at = "built"
    /\ workspaces' = workspaces \cup {k}
    /\ pathIndex' = [pathIndex EXCEPT ![Path(k)] = k]
    /\ Register(k, k, create[k].client)
    /\ CreateGoto(k, "done")
    /\ UNCHANGED <<refs, leaked, td, gate, run, stopped, bounds>>

CreateInserts(k) ==
    /\ create[k].at = "built" /\ Existing(Path(k)) = {}
    /\ workspaces' = workspaces \cup {k}
    /\ pathIndex' = [pathIndex EXCEPT ![Path(k)] = k]
    /\ Register(k, k, create[k].client)
    /\ CreateGoto(k, "done")
    /\ UNCHANGED <<refs, leaked, td, gate, run, stopped, bounds>>

(* Faulty variant: the discarded workspace is not shut down. *)
DiscardForgets(k) ==
    /\ create[k].at = "discard"
    /\ cleaned' = [cleaned EXCEPT ![k] = @ + 1]
    /\ CreateGoto(k, "done")
    /\ UNCHANGED <<index, claims, refs, leaked, td, closing, ctxDone, run, stopped, bounds>>

(* invokeShutdown of a workspace nobody has seen: no run can be in it. *)
CreateDiscards(k) ==
    /\ create[k].at = "discard"
    /\ closing' = closing \cup {k} /\ ctxDone' = ctxDone \cup {k}
    /\ cleaned' = [cleaned EXCEPT ![k] = @ + 1]
    /\ Release(Path(k))
    /\ CreateGoto(k, "done")
    /\ UNCHANGED <<index, claims, leaked, td, run, stopped, bounds>>

-----------------------------------------------------------------------------
(* Claims. *)

(* Timer.Stop on the claim's hold timer: too late if it has fired. *)
StopTimer(w, c) ==
    timer' = [k \in Creates |-> IF clients[w][c].hold = k /\ timer[k] = "armed" THEN "none" ELSE timer[k]]

(* AttachClient, by a client with a claim or without one. *)
Attach(w, c) ==
    /\ w \in workspaces /\ ~stopped /\ opened < MaxStreams
    /\ opened' = opened + 1
    /\ clients' = [clients EXCEPT ![w][c] = [NoClaim EXCEPT !.streams = clients[w][c].streams + 1]]
    /\ StopTimer(w, c)
    /\ UNCHANGED <<index, create, refs, leaked, td, gate, run, stopped, deletes, failures>>

(* The goroutines are interchangeable: the first idle one is taken. *)
StartTeardown(w) ==
    \E g \in Teardowns :
        /\ td[g].at = "idle" /\ \A h \in 1..(g - 1) : td[h].at # "idle"
        /\ td' = [td EXCEPT ![g] = [at |-> "enter", ws |-> w, last |-> FALSE]]

(* Faulty variant: the emptiness is tested before the claim is removed. *)
DropTestsFirst(w, c, cs) ==
    /\ clients' = [clients EXCEPT ![w][c] = cs]
    /\ IF Claims(w) = {} THEN StartTeardown(w) ELSE UNCHANGED td

(* The caller that took the last claim away goes on to tear the workspace    *)
(* down: cs is what is left of c's claim.                                   *)
Drop(w, c, cs) ==
    /\ clients' = [clients EXCEPT ![w][c] = cs]
    /\ IF cs = NoClaim /\ Claims(w) = {c} THEN StartTeardown(w) ELSE UNCHANGED td

(* detachStream, once per attached stream. *)
Detach(w, c) ==
    /\ clients[w][c].streams > 0
    /\ Drop(w, c, [clients[w][c] EXCEPT !.streams = @ - 1])
    /\ UNCHANGED <<index, timer, create, refs, leaked, gate, run, stopped, bounds>>

(* DeleteWorkspace, releaseHoldLocked. *)
Delete(w, c) ==
    /\ w \in workspaces /\ c \in Claims(w) /\ deletes < MaxDeletes
    /\ deletes' = deletes + 1
    /\ StopTimer(w, c)
    /\ Drop(w, c, IF clients[w][c].streams = 0 THEN NoClaim ELSE clients[w][c])
    /\ UNCHANGED <<index, create, refs, leaked, gate, run, stopped, opened, failures>>

TimerFires(k) ==
    /\ timer[k] = "armed"
    /\ timer' = [timer EXCEPT ![k] = "fired"]
    /\ UNCHANGED <<index, clients, create, refs, leaked, td, gate, run, stopped, bounds>>

(* expireHold: only while the claim it was started for still waits for it.   *)
Holds(w, c, k) == clients[w][c] = [streams |-> 0, hold |-> k]

ExpireHold(k) ==
    /\ timer[k] = "fired"
    /\ timer' = [timer EXCEPT ![k] = "none"]
    /\ IF \E w \in Creates, c \in Clients : Holds(w, c, k)
         THEN \E w \in Creates, c \in Clients : Holds(w, c, k) /\ Drop(w, c, NoClaim)
         ELSE UNCHANGED <<clients, td>>
    /\ UNCHANGED <<index, create, refs, leaked, gate, run, stopped, bounds>>

-----------------------------------------------------------------------------
(* teardown, and Workspace.Shutdown. *)

TdGoto(g, l) == td' = [td EXCEPT ![g].at = l]
Idle(g) == td' = [td EXCEPT ![g] = [at |-> "idle", ws |-> None, last |-> FALSE]]

(* Under both locks: somebody claimed the workspace again. *)
TeardownAborts(g) ==
    /\ td[g].at = "enter" /\ Claims(td[g].ws) # {}
    /\ Idle(g)
    /\ UNCHANGED <<index, claims, create, refs, leaked, gate, run, stopped, bounds>>

(* Faulty variant: teardown trusts what its caller saw. *)
RemovesUnchecked(g) ==
    /\ td[g].at = "enter"
    /\ pathIndex' = [pathIndex EXCEPT ![Path(td[g].ws)] = IF @ = td[g].ws THEN None ELSE @]
    /\ workspaces' = workspaces \ {td[g].ws}
    /\ td' = [td EXCEPT ![g].at = "mark", ![g].last = (workspaces' = {})]
    /\ UNCHANGED <<claims, create, refs, leaked, gate, run, stopped, bounds>>

(* The workspace goes; whether it was the last one is remembered. *)
TeardownRemoves(g) ==
    /\ td[g].at = "enter" /\ Claims(td[g].ws) = {}
    /\ LET w == td[g].ws
       IN  /\ pathIndex' = [pathIndex EXCEPT ![Path(w)] = IF @ = w THEN None ELSE @]
           /\ workspaces' = workspaces \ {w}
    /\ td' = [td EXCEPT ![g].at = "mark", ![g].last = (workspaces' = {})]
    /\ UNCHANGED <<claims, create, refs, leaked, gate, run, stopped, bounds>>

MarkClosing(g) ==
    /\ td[g].at = "mark"
    /\ closing' = closing \cup {td[g].ws}
    /\ TdGoto(g, "cancel")
    /\ UNCHANGED <<index, claims, create, refs, leaked, ctxDone, cleaned, run, stopped, bounds>>

(* cancel and CancelAll. *)
CancelRuns(g) ==
    /\ td[g].at = "cancel"
    /\ ctxDone' = ctxDone \cup {td[g].ws}
    /\ TdGoto(g, "wait")
    /\ UNCHANGED <<index, claims, create, refs, leaked, closing, cleaned, run, stopped, bounds>>

(* runWG.Wait *)
RunsReturned(g) ==
    /\ td[g].at = "wait"
    /\ \A r \in Runs : run[r].at = "running" => run[r].ws # td[g].ws
    /\ TdGoto(g, "cleanup")
    /\ UNCHANGED <<index, claims, create, refs, leaked, gate, run, stopped, bounds>>

(* App.Shutdown releases the connection. *)
Cleanup(g) ==
    /\ td[g].at = "cleanup"
    /\ cleaned' = [cleaned EXCEPT ![td[g].ws] = @ + 1]
    /\ Release(Path(td[g].ws))
    /\ IF td[g].last THEN TdGoto(g, "stop") ELSE Idle(g)
    /\ UNCHANGED <<index, claims, create, leaked, closing, ctxDone, run, stopped, bounds>>

(* shutdownFn *)
StopServer(g) ==
    /\ td[g].at = "stop"
    /\ stopped' = TRUE
    /\ Idle(g)
    /\ UNCHANGED <<index, claims, create, refs, leaked, gate, run, bounds>>

-----------------------------------------------------------------------------
(* SendMessage and runAgent. *)

RunGoto(r, l) == run' = [run EXCEPT ![r].at = l]

(* The workspace is looked up and a reservation made. *)
Accept(r, w) ==
    /\ run[r].at = "start" /\ w \in workspaces /\ ~stopped
    /\ run' = [run EXCEPT ![r] = [at |-> "accepted", ws |-> w]]
    /\ UNCHANGED <<index, claims, create, refs, leaked, td, gate, stopped, bounds>>

(* Faulty variant: the gate is not looked at. *)
DispatchUngated(r) ==
    /\ run[r].at = "accepted"
    /\ RunGoto(r, "running")
    /\ UNCHANGED <<index, claims, create, refs, leaked, td, gate, stopped, bounds>>

(* The gate under runMu. *)
Dispatch(r) ==
    /\ run[r].at = "accepted" /\ run[r].ws \notin closing
    /\ RunGoto(r, "running")
    /\ UNCHANGED <<index, claims, create, refs, leaked, td, gate, stopped, bounds>>

Reject(r) ==
    /\ run[r].at = "accepted" /\ run[r].ws \in closing
    /\ RunGoto(r, "rejected")
    /\ UNCHANGED <<index, claims, create, refs, leaked, td, gate, stopped, bounds>>

(* The run returns by itself, or because its context is done. *)
RunReturns(r) ==
    /\ run[r].at = "running"
    /\ RunGoto(r, "done")
    /\ UNCHANGED <<index, claims, create, refs, leaked, td, gate, stopped, bounds>>

-----------------------------------------------------------------------------
CreateStep(k) ==
    \/ CreateConnects(k) \/ CreateFails(k) \/ AppFails(k)
    \/ CreateLoses(k) \/ CreateInserts(k) \/ CreateDiscards(k)

TeardownStep(g) ==
    \/ TeardownAborts(g) \/ TeardownRemoves(g) \/ MarkClosing(g) \/ CancelRuns(g)
    \/ RunsReturned(g) \/ Cleanup(g) \/ StopServer(g)

TimerStep(k) == TimerFires(k) \/ ExpireHold(k)

Next ==
    \/ \E k \in Creates, c \in Clients, p \in Paths : CreateFinds(k, c, p) \/ CreateBuilds(k, c, p)
    \/ \E k \in Creates : CreateStep(k) \/ TimerStep(k)
    \/ \E w \in Creates, c \in Clients : Attach(w, c) \/ Detach(w, c) \/ Delete(w, c)
    \/ \E g \in Teardowns : TeardownStep(g)
    \/ \E r \in Runs : Dispatch(r) \/ Reject(r) \/ RunReturns(r)
    \/ \E r \in Runs, w \in Creates : Accept(r, w)

(* Goroutines that are not blocked run on, a timer that is armed fires, and a *)
(* run whose context is done returns.  Nothing makes a client attach, detach *)
(* or delete.                                                               *)
Spec == /\ Init /\ [][Next]_vars
        /\ \A k \in Creates : WF_vars(CreateStep(k)) /\ WF_vars(TimerStep(k))
        /\ \A g \in Teardowns : WF_vars(TeardownStep(g))
        /\ \A r \in Runs : WF_vars(run[r].ws \in ctxDone /\ RunReturns(r))

-----------------------------------------------------------------------------
(* Properties. *)

(* A claimed workspace is alive and is not being shut down, however a new     *)
(* claim races the teardown the last one's departure started: there is no     *)
(* half-state with a client in a workspace that is gone.                      *)
ClaimedStaysUp ==
    \A w \in Creates : Claims(w) # {} =>
        w \in workspaces /\ w \notin closing /\ cleaned[w] = 0

(* Calls for one path share one workspace: the live ones have distinct paths  *)
(* and each is the one its path's index entry names.                         *)
OneWorkspacePerPath ==
    /\ \A w \in workspaces : pathIndex[Path(w)] = w
    /\ \A p \in Paths : pathIndex[p] # None => pathIndex[p] \in workspaces

(* The registry, its index and their types agree.                            *)
WellFormed == TypeOK /\ OneWorkspacePerPath

(* No agent run is in progress in a workspace whose App has been shut down:   *)
(* none was admitted after the wait, and the wait saw all of them.           *)
CleanupAfterRuns == \A r \in Runs : run[r].at = "running" => cleaned[run[r].ws] = 0

(* The pool counts one reference for every workspace that was built and not   *)
(* shut down, and for every call whose app.New failed, as long as no          *)
(* workspace was shut down twice.                                           *)
Holders(p) == {w \in Creates : /\ Path(w) = p /\ cleaned[w] = 0
                               /\ create[w].at \in {"built", "discard", "done"}}

ConnectionsCounted ==
    (\A w \in Creates : cleaned[w] <= 1) =>
        \A p \in Paths : refs[p] = Cardinality(Holders(p)) + leaked[p]

(* Every Connect is paired with one Release: a live workspace's database      *)
(* connection stays in the pool.                                            *)
LiveKeepsConnection == \A w \in workspaces : refs[Path(w)] >= 1

(* A creation hold never outlives its grace, even if its client never comes   *)
(* back: it becomes a stream or is gone.                                     *)
Held(k) == \E w \in Creates, c \in Clients : clients[w][c].hold = k
HoldExpires == \A k \in Creates : Held(k) ~> ~Held(k)

(* A workspace that lost its last claim is torn down or claimed again, and    *)
(* its teardown ends although runs were in progress.                         *)
UnclaimedIsTornDown ==
    \A w \in Creates :
        (w \in workspaces /\ Claims(w) = {}) ~> (cleaned[w] > 0 \/ Claims(w) # {})
=============================================================================
