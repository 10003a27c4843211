----------------------------- MODULE McpClients -----------------------------
(***************************************************************************)
(* The MCP clients (agent/tools/mcp) for one configured server.  The maps  *)
(* of sessions, states and tools belong to the process: every workspace    *)
(* that configures the name initializes it, every agent calls, renews and  *)
(* refreshes it, every workspace's shutdown closes it.  Each call on a map *)
(* is atomic; the operations make several, with requests to the server in  *)
(* between.  A session dies with the server, and also with the context it  *)
(* was created under: that of the tool call, when the call renewed it.     *)
(***************************************************************************)
EXTENDS Naturals, FiniteSets

CONSTANTS
    McpUsers,       \* goroutines that use the package, several times each
    MaxMcpSessions  \* sessions established in all (bound)

ASSUME McpAssumption == MaxMcpSessions \in Nat

McpSessions == 1 .. MaxMcpSessions
NoSession == 0

VARIABLES
    mcpSession,  \* the sessions map's entry, or NoSession
    mcpState,    \* the states map's entry
    offered,     \* whether the tools map has an entry
    established, \* sessions established so far
    mcpServer,      \* per session: "none", "alive", "dead"
    user,        \* per goroutine: its operation, its point in it, its session
    dropped,     \* live sessions that failed a ping or a listing, or lost the
                 \* entry to another's Set or Del (history)
    mixed        \* two operations have overlapped (history)

mcpVars == <<mcpSession, mcpState, offered, established, mcpServer, user, dropped, mixed>>

NoUse == [op |-> "none", pc |-> "idle", session |-> NoSession]

Shown(state, s) == [state |-> state, client |-> s]

McpInit ==
    /\ mcpSession = NoSession
    /\ mcpState = Shown("absent", NoSession)
    /\ offered = FALSE
    /\ established = 0
    /\ mcpServer = [s \in McpSessions |-> "none"]
    /\ user = [u \in McpUsers |-> NoUse]
    /\ dropped = {}
    /\ mixed = FALSE

Using == {u \in McpUsers : user[u].pc # "idle"}
Live == {s \in McpSessions : mcpServer[s] = "alive"}

InHand == {user[u].session : u \in Using}

UserAt(u, pc) == user[u].pc = pc
GoTo(u, pc) == user' = [user EXCEPT ![u].pc = pc]
Finish(u) == user' = [user EXCEPT ![u] = NoUse]

Begin(u, op, pc, s) ==
    /\ UserAt(u, "idle")
    /\ user' = [user EXCEPT ![u] = [op |-> op, pc |-> pc, session |-> s]]
    /\ mixed' = (mixed \/ Using # {})

Drop(S) == dropped' = dropped \cup (S \cap Live)

(* The entry is overwritten or deleted, whoever's session it is.           *)
PutSession(u, s) ==
    /\ mcpSession' = s
    /\ Drop({mcpSession} \ {user[u].session})

End(s) ==
    /\ mcpServer' = [mcpServer EXCEPT ![s] = "dead"]
    /\ dropped' = dropped \ {s}

-----------------------------------------------------------------------------
(* Where each operation begins.                                            *)

(* Initialize and InitializeSingle, whatever session there is.             *)
InitClient(u) ==
    /\ Begin(u, "init", "connect", NoSession)
    /\ mcpState' = Shown("starting", NoSession)
    /\ UNCHANGED <<mcpSession, offered, established, mcpServer, dropped>>

(* Another workspace's configuration disables the name: only the state     *)
(* says so.                                                                *)
InitDisabled(u) ==
    /\ UserAt(u, "idle")
    /\ mcpState' = Shown("disabled", NoSession)
    /\ mixed' = (mixed \/ Using # {})
    /\ UNCHANGED <<mcpSession, offered, established, mcpServer, user, dropped>>

(* A tool, prompt or resource call pings the session of the entry, the     *)
(* refreshes list it, DisableSingle and Close close it.                    *)
LookUp(u) ==
    /\ mcpSession # NoSession
    /\ \/ Begin(u, "call", "ping", mcpSession)
       \/ Begin(u, "refresh", "list", mcpSession)
       \/ Begin(u, "disable", "close", mcpSession)
       \/ Begin(u, "shutdown", "close", mcpSession)
    /\ UNCHANGED <<mcpSession, mcpState, offered, established, mcpServer, dropped>>

DisableAbsent(u) ==
    /\ mcpSession = NoSession
    /\ Begin(u, "disable", "clear", NoSession)
    /\ UNCHANGED <<mcpSession, mcpState, offered, established, mcpServer, dropped>>

-----------------------------------------------------------------------------
(* createSession, for initClient or for a renewal.                         *)

Connect(u) ==
    /\ UserAt(u, "connect") /\ established < MaxMcpSessions
    /\ established' = established + 1
    /\ mcpServer' = [mcpServer EXCEPT ![established'] = "alive"]
    /\ user' = [user EXCEPT
         ![u].session = established',
         ![u].pc = IF user[u].op = "init" THEN "list" ELSE "announce"]
    /\ UNCHANGED <<mcpSession, mcpState, offered, dropped, mixed>>

(* Bad configuration, no server, or its time is over.                      *)
ConnectFails(u) ==
    /\ UserAt(u, "connect")
    /\ GoTo(u, "forget")
    /\ UNCHANGED <<mcpSession, mcpState, offered, established, mcpServer, dropped, mixed>>

(* updateState with StateError: the entry is deleted, then the state set.  *)
Forget(u) ==
    /\ UserAt(u, "forget")
    /\ PutSession(u, NoSession)
    /\ GoTo(u, "mark")
    /\ UNCHANGED <<mcpState, offered, established, mcpServer, mixed>>

(* Mistake: a new session that cannot be listed is left open.              *)
MarkErrorLeaks(u) ==
    /\ UserAt(u, "mark")
    /\ mcpState' = Shown("error", NoSession)
    /\ IF user[u].op = "call" /\ user[u].session # NoSession
         THEN user' = [user EXCEPT ![u].pc = "connect", ![u].session = NoSession]
         ELSE Finish(u)
    /\ UNCHANGED <<mcpSession, offered, established, mcpServer, dropped, mixed>>

(* A call whose ping failed goes on to renew; initClient closes what it    *)
(* could not list; a failed renewal or refresh is over.                    *)
MarkError(u) ==
    /\ UserAt(u, "mark")
    /\ mcpState' = Shown("error", NoSession)
    /\ LET had == user[u].session # NoSession
       IN  \/ had /\ user[u].op = "call"
              /\ user' = [user EXCEPT ![u].pc = "connect", ![u].session = NoSession]
           \/ had /\ user[u].op = "init" /\ GoTo(u, "close")
           \/ (~had \/ user[u].op = "refresh") /\ Finish(u)
    /\ UNCHANGED <<mcpSession, offered, established, mcpServer, dropped, mixed>>

-----------------------------------------------------------------------------
(* initClient and the refreshes: list, offer, store, report.               *)

(* initClient always asks for the tools; a refresh of what the server does *)
(* not have asks nothing.                                                  *)
Listed(u) ==
    /\ UserAt(u, "list")
    /\ user[u].op = "init" => user[u].session \in Live
    /\ GoTo(u, "offer")
    /\ UNCHANGED <<mcpSession, mcpState, offered, established, mcpServer, dropped, mixed>>

ListFails(u) ==
    /\ UserAt(u, "list")
    /\ GoTo(u, "forget")
    /\ Drop(IF user[u].op = "init" THEN {} ELSE {user[u].session})
    /\ UNCHANGED <<mcpSession, mcpState, offered, established, mcpServer, mixed>>

(* updateTools: the filters may leave nothing of what was listed.          *)
UpdateTools(u) ==
    /\ UserAt(u, "offer")
    /\ offered' \in BOOLEAN
    /\ GoTo(u, IF user[u].op = "init" THEN "store" ELSE "report")
    /\ UNCHANGED <<mcpSession, mcpState, established, mcpServer, dropped, mixed>>

StoreSession(u) ==
    /\ UserAt(u, "store")
    /\ PutSession(u, user[u].session)
    /\ GoTo(u, IF user[u].op = "init" THEN "report" ELSE "use")
    /\ UNCHANGED <<mcpState, offered, established, mcpServer, mixed>>

Report(u) ==
    /\ UserAt(u, "report")
    /\ mcpState' = Shown("connected", user[u].session)
    /\ Finish(u)
    /\ UNCHANGED <<mcpSession, offered, established, mcpServer, dropped, mixed>>

-----------------------------------------------------------------------------
(* getOrRenewClient and the call it is for.                                *)

PingSucceeds(u) ==
    /\ UserAt(u, "ping") /\ user[u].session \in Live
    /\ GoTo(u, "use")
    /\ UNCHANGED <<mcpSession, mcpState, offered, established, mcpServer, dropped, mixed>>

(* Also when the server is only slow; the session is not closed.           *)
PingFails(u) ==
    /\ UserAt(u, "ping")
    /\ GoTo(u, "forget")
    /\ Drop({user[u].session})
    /\ UNCHANGED <<mcpSession, mcpState, offered, established, mcpServer, mixed>>

(* Mistake: the renewed session is used once and not stored.               *)
AnnounceOnly(u) ==
    /\ UserAt(u, "announce")
    /\ mcpState' = Shown("connected", user[u].session)
    /\ GoTo(u, "use")
    /\ UNCHANGED <<mcpSession, offered, established, mcpServer, dropped, mixed>>

(* A renewal sets the state before the entry; initClient does the reverse. *)
AnnounceRenewed(u) ==
    /\ UserAt(u, "announce")
    /\ mcpState' = Shown("connected", user[u].session)
    /\ GoTo(u, "store")
    /\ UNCHANGED <<mcpSession, offered, established, mcpServer, dropped, mixed>>

(* The call returns; ListResources reports what it listed.                 *)
CallReturns(u) ==
    /\ UserAt(u, "use")
    /\ Finish(u) \/ GoTo(u, "report")
    /\ UNCHANGED <<mcpSession, mcpState, offered, established, mcpServer, dropped, mixed>>

-----------------------------------------------------------------------------
(* Closing: initClient's failure, Close of a shutdown, DisableSingle.      *)

CloseSession(u) ==
    /\ UserAt(u, "close")
    /\ End(user[u].session)
    /\ IF user[u].op = "disable" THEN GoTo(u, "delete") ELSE Finish(u)
    /\ UNCHANGED <<mcpSession, mcpState, offered, established, mixed>>

DeleteSession(u) ==
    /\ UserAt(u, "delete")
    /\ PutSession(u, NoSession)
    /\ GoTo(u, "clear")
    /\ UNCHANGED <<mcpState, offered, established, mcpServer, mixed>>

ClearTools(u) ==
    /\ UserAt(u, "clear")
    /\ offered' = FALSE
    /\ GoTo(u, "disabled")
    /\ UNCHANGED <<mcpSession, mcpState, established, mcpServer, dropped, mixed>>

MarkDisabled(u) ==
    /\ UserAt(u, "disabled")
    /\ mcpState' = Shown("disabled", NoSession)
    /\ Finish(u)
    /\ UNCHANGED <<mcpSession, offered, established, mcpServer, dropped, mixed>>

(* The server crashes, or the context it was started under ends.           *)
ServerDies(s) ==
    /\ s \in Live
    /\ End(s)
    /\ UNCHANGED <<mcpSession, mcpState, offered, established, user, mixed>>

McpNext ==
    \/ \E u \in McpUsers :
         \/ InitClient(u)
         \/ InitDisabled(u)
         \/ LookUp(u)
         \/ DisableAbsent(u)
         \/ Connect(u)
         \/ ConnectFails(u)
         \/ Forget(u)
         \/ MarkError(u)
         \/ Listed(u)
         \/ ListFails(u)
         \/ UpdateTools(u)
         \/ StoreSession(u)
         \/ Report(u)
         \/ PingSucceeds(u)
         \/ PingFails(u)
         \/ AnnounceRenewed(u)
         \/ CallReturns(u)
         \/ CloseSession(u)
         \/ DeleteSession(u)
         \/ ClearTools(u)
         \/ MarkDisabled(u)
    \/ \E s \in McpSessions : ServerDies(s)

McpSpec == McpInit /\ [][McpNext]_mcpVars

-----------------------------------------------------------------------------
(* Every server process is accounted for: a live one belongs to the entry, *)
(* where a shutdown finds it, or to a goroutine at work.  One that is open *)
(* and out of reach, until the context it was started under ends, either   *)
(* failed a ping or a listing, which drops it without closing it           *)
(* (init.go:312, 337), or lost the entry to an operation that knew another *)
(* session or none (init.go:262, 282, 320, 337).                           *)
SessionsAccounted ==
    Live \subseteq {mcpSession} \cup InHand \cup dropped

(* As long as no two operations have overlapped, what the user is shown    *)
(* holds when nothing is under way: a connected client is the one the next *)
(* call will use, and after an error there is none.  (With an overlap it   *)
(* need not: a renewal announces its session before it stores it, and a    *)
(* refresh reports a session that was disabled meanwhile.)                 *)
StatesAgree ==
    Using = {} /\ ~mixed =>
        /\ mcpState.state # "starting"
        /\ mcpState.state = "connected" => mcpState.client = mcpSession
                                           /\ mcpSession # NoSession
        /\ mcpState.state = "error" => mcpSession = NoSession
=============================================================================
