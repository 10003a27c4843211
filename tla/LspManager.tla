----------------------------- MODULE LspManager -----------------------------
(***************************************************************************)
(* lsp.Manager (lsp/manager.go) for one language server: startServer, run  *)
(* by whoever touches a file the server handles, and KillAll and StopAll,  *)
(* run by a workspace's shutdown and by users.  `clients` is a concurrent  *)
(* map: each call on it is atomic, and startServer makes several, with a   *)
(* process started and initialized in between.  The slow checks before the *)
(* second look change nothing but the retry delay of a command that is not *)
(* installed.                                                              *)
(***************************************************************************)
EXTENDS Naturals, FiniteSets

CONSTANTS
    LspStarters,   \* goroutines in startServer, several times each
    LspStoppers,   \* callers of KillAll or StopAll
    MaxLspClients, \* clients created in all (bound)
    RetryDelay     \* ticks an uninstalled command is not looked for again

ASSUME LspManagerAssumption == MaxLspClients \in Nat /\ RetryDelay \in Nat

LspClients == 1 .. MaxLspClients
NoClient == 0

VARIABLES
    entry,       \* the map's client for the server, or NoClient
    created,     \* clients created so far
    serverState, \* per client: the state its client says it is in
    process,     \* per client: "none", "alive", "dead"
    starter,     \* per starter: its point in startServer and its client
    stopper,     \* per stopper: its point and the client it collected
    unavailable, \* ticks left of the retry delay
    overlapped   \* clients whose start overlapped another start or a stop (history)

lspVars == <<entry, created, serverState, process, starter, stopper,
             unavailable, overlapped>>

AtRest == [pc |-> "idle", client |-> NoClient]

LspInit ==
    /\ entry = NoClient
    /\ created = 0
    /\ serverState = [c \in LspClients |-> "stopped"]
    /\ process = [c \in LspClients |-> "none"]
    /\ starter = [t \in LspStarters |-> AtRest]
    /\ stopper = [w \in LspStoppers |-> AtRest]
    /\ unavailable = 0
    /\ overlapped = {}

(* The states in which a starter leaves the stored client alone.           *)
InService(c) == c # NoClient /\ serverState[c] \in {"starting", "ready"}

Starting == {t \in LspStarters : starter[t].pc # "idle"}
Stopping == {w \in LspStoppers : stopper[w].pc # "idle"}
BeingStarted == {starter[t].client : t \in Starting} \ {NoClient}

-----------------------------------------------------------------------------
(* The command is looked for, unless it was not found a moment ago.        *)
NotInstalled(t) ==
    /\ starter[t] = AtRest /\ ~InService(entry) /\ unavailable = 0
    /\ unavailable' = RetryDelay
    /\ UNCHANGED <<entry, created, serverState, process, starter, stopper, overlapped>>

RetryTick ==
    /\ unavailable > 0
    /\ unavailable' = unavailable - 1
    /\ UNCHANGED <<entry, created, serverState, process, starter, stopper, overlapped>>

(* "Check again in case another goroutine started it in the meantime": the *)
(* second look; a client in service is used.                               *)
LookAgain(t) ==
    /\ starter[t] = AtRest /\ ~InService(entry) /\ unavailable = 0
    /\ starter' = [starter EXCEPT ![t].pc = "new"]
    /\ overlapped' = overlapped \cup BeingStarted
    /\ UNCHANGED <<entry, created, serverState, process, stopper, unavailable>>

(* New starts the server's process; the client says "stopped" till later.  *)
NewClient(t) ==
    /\ starter[t].pc = "new" /\ created < MaxLspClients
    /\ LET c == created + 1
       IN  /\ created' = c
           /\ process' = [process EXCEPT ![c] = "alive"]
           /\ starter' = [starter EXCEPT ![t] = [pc |-> "look", client |-> c]]
           /\ overlapped' = IF Starting \ {t} # {} \/ Stopping # {}
                              THEN overlapped \cup {c} ELSE overlapped
    /\ UNCHANGED <<entry, serverState, stopper, unavailable>>

NewFails(t) ==
    /\ starter[t].pc = "new"
    /\ starter' = [starter EXCEPT ![t] = AtRest]
    /\ UNCHANGED <<entry, created, serverState, process, stopper, unavailable, overlapped>>

(* "If another goroutine raced us, prefer the already-stored client."      *)
PreferStored(t) ==
    /\ starter[t].pc = "look"
    /\ IF InService(entry)
         THEN /\ process' = [process EXCEPT ![starter[t].client] = "dead"]
              /\ starter' = [starter EXCEPT ![t] = AtRest]
         ELSE /\ starter' = [starter EXCEPT ![t].pc = "set"]
              /\ UNCHANGED process
    /\ UNCHANGED <<entry, created, serverState, stopper, unavailable, overlapped>>

SetClient(t) ==
    /\ starter[t].pc = "set"
    /\ entry' = starter[t].client
    /\ starter' = [starter EXCEPT ![t].pc = "mark"]
    /\ UNCHANGED <<created, serverState, process, stopper, unavailable, overlapped>>

MarkStarting(t) ==
    /\ starter[t].pc = "mark"
    /\ serverState' = [serverState EXCEPT ![starter[t].client] = "starting"]
    /\ starter' = [starter EXCEPT ![t].pc = "initialize"]
    /\ UNCHANGED <<entry, created, process, stopper, unavailable, overlapped>>

(* Mistake: a client that failed is only deleted.                          *)
InitializeLeaks(t) ==
    /\ starter[t].pc = "initialize"
    /\ starter' = [starter EXCEPT ![t].pc = "delete"]
    /\ UNCHANGED <<entry, created, serverState, process, stopper, unavailable, overlapped>>

(* Initialize fails, always when the process is gone: the client is closed *)
(* and then whatever the map holds under this name is deleted.             *)
InitializeFails(t) ==
    /\ starter[t].pc = "initialize"
    /\ process' = [process EXCEPT ![starter[t].client] = "dead"]
    /\ starter' = [starter EXCEPT ![t].pc = "delete"]
    /\ UNCHANGED <<entry, created, serverState, stopper, unavailable, overlapped>>

DeleteFailed(t) ==
    /\ starter[t].pc = "delete"
    /\ entry' = NoClient
    /\ starter' = [starter EXCEPT ![t] = AtRest]
    /\ UNCHANGED <<created, serverState, process, stopper, unavailable, overlapped>>

(* "Not fully ready, continuing anyway": the client stays in the map.      *)
Initialized(t) ==
    /\ starter[t].pc = "initialize"
    /\ \E s \in {"ready", "error"} :
         /\ s = "ready" => process[starter[t].client] = "alive"
         /\ serverState' = [serverState EXCEPT ![starter[t].client] = s]
    /\ starter' = [starter EXCEPT ![t] = AtRest]
    /\ UNCHANGED <<entry, created, process, stopper, unavailable, overlapped>>

-----------------------------------------------------------------------------
(* KillAll and StopAll: the map's clients are collected, then each is      *)
(* ended and its name deleted.                                             *)
StopCollect(w) ==
    /\ stopper[w] = AtRest /\ entry # NoClient
    /\ stopper' = [stopper EXCEPT ![w] = [pc |-> "kill", client |-> entry]]
    /\ overlapped' = overlapped \cup BeingStarted
    /\ UNCHANGED <<entry, created, serverState, process, starter, unavailable>>

StopKill(w) ==
    /\ stopper[w].pc = "kill"
    /\ process' = [process EXCEPT ![stopper[w].client] = "dead"]
    /\ serverState' = [serverState EXCEPT ![stopper[w].client] = "stopped"]
    /\ stopper' = [stopper EXCEPT ![w].pc = "delete"]
    /\ UNCHANGED <<entry, created, starter, unavailable, overlapped>>

StopDelete(w) ==
    /\ stopper[w].pc = "delete"
    /\ entry' = NoClient
    /\ stopper' = [stopper EXCEPT ![w] = AtRest]
    /\ UNCHANGED <<created, serverState, process, starter, unavailable, overlapped>>

LspNext ==
    \/ RetryTick
    \/ \E t \in LspStarters :
         \/ NotInstalled(t)
         \/ LookAgain(t)
         \/ NewClient(t)
         \/ NewFails(t)
         \/ PreferStored(t)
         \/ SetClient(t)
         \/ MarkStarting(t)
         \/ InitializeFails(t)
         \/ DeleteFailed(t)
         \/ Initialized(t)
    \/ \E w \in LspStoppers :
         \/ StopCollect(w)
         \/ StopKill(w)
         \/ StopDelete(w)

LspSpec == LspInit /\ [][LspNext]_lspVars

-----------------------------------------------------------------------------
(* Every server process is accounted for: a live one is the map's client,  *)
(* or in the hands of a goroutine that starts or ends it.  A shutdown      *)
(* misses it only if its start overlapped another start or a stop (the     *)
(* checks and the Set are separate calls, and Del deletes by name,         *)
(* manager.go:185-236, 363), or it was not ready in time and a later start *)
(* replaced it without ending it (manager.go:206-217, 239-241).            *)
ServersAccounted ==
    \A c \in LspClients : process[c] = "alive" =>
        \/ c = entry
        \/ c \in BeingStarted
        \/ \E w \in Stopping : stopper[w] = [pc |-> "kill", client |-> c]
        \/ c \in overlapped
        \/ serverState[c] = "error"
=============================================================================
