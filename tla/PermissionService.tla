------------------------- MODULE PermissionService -------------------------
(***************************************************************************)
(* internal/permission/permission.go: tool calls of concurrent agents ask   *)
(* for permission (Request), one prompt at a time; any number of clients    *)
(* answer a prompt (Grant, GrantPersistent, Deny), the first one wins; an   *)
(* agent's cancellation may come at any moment.                             *)
(*                                                                         *)
(* A call is one Request, an answer one call of a resolution method.  A     *)
(* call's PermissionKey (session, tool, action, directory) is KeyOf[c], of  *)
(* which only equality matters, and its session is SessionOf[c].            *)
(***************************************************************************)
EXTENDS Integers, Sequences, FiniteSets

CONSTANTS
    Calls,       \* the tool calls that ask for permission, once each
    Answers,     \* the calls of Grant, GrantPersistent and Deny
    Allowed,     \* the calls the allowlist admits
    Hooked,      \* the calls a PreToolUse hook approved
    KeyOf,       \* a call's permission key
    SessionOf,   \* a call's session
    None

ASSUME CallsAssumption == None \notin Calls /\ Allowed \subseteq Calls /\ Hooked \subseteq Calls
ASSUME NoneAssumption == None \notin {"granted", "denied", "cancelled"}
ASSUME KeyAssumption == DOMAIN KeyOf = Calls /\ DOMAIN SessionOf = Calls

Keys == {KeyOf[c] : c \in Calls}
Sessions == {SessionOf[c] : c \in Calls}
Kinds == {"grant", "persist", "deny"}
Notices == {"requested", "granted", "denied"}
Verdict(kind) == IF kind = "deny" THEN "denied" ELSE "granted"

(* Where an answer is, which call it answers, and which method it is. *)
AnswerStates == [at : {"start", "record", "notify", "send", "clear", "won", "lost"},
                 call : Calls \cup {None}, kind : Kinds]

VARIABLES
    skip,                \* skip
    autoApproveSessions,
    sessionPermissions,  \* the keys granted for their session
    requestMu,           \* the call that holds it, or None
    activeRequest,       \* the call it points to, or None
    pendingRequests,     \* the calls whose response channel is in the map
    respCh,              \* the buffered answer of each call, or None
    cancelled,           \* the calls whose context is done
    shown,               \* the calls whose prompt was published
    notes,               \* the notifications published for each call
    pc,                  \* where each call is in Request
    outcome,             \* what Request returned, or is about to
    ans                  \* what each answer is about and where it is

policy == <<skip, autoApproveSessions>>
prompt == <<activeRequest, pendingRequests, respCh, shown>>
vars == <<skip, autoApproveSessions, sessionPermissions, requestMu, activeRequest,
          pendingRequests, respCh, cancelled, shown, notes, pc, outcome, ans>>

TypeOK ==
    /\ skip \in BOOLEAN
    /\ autoApproveSessions \subseteq Sessions
    /\ sessionPermissions \subseteq Keys
    /\ requestMu \in Calls \cup {None}
    /\ activeRequest \in Calls \cup {None}
    /\ pendingRequests \subseteq Calls
    /\ respCh \in [Calls -> {"granted", "denied", None}]
    /\ cancelled \subseteq Calls
    /\ shown \subseteq Calls
    /\ notes \in [Calls -> Seq(Notices)]
    /\ pc \in [Calls -> {"start", "lock", "auto", "session", "active", "pend", "publish",
                         "select", "del", "unlock", "done"}]
    /\ outcome \in [Calls -> {"granted", "denied", "cancelled", None}]
    /\ ans \in [Answers -> AnswerStates]

Init ==
    /\ skip \in BOOLEAN
    /\ autoApproveSessions = {} /\ sessionPermissions = {}
    /\ requestMu = None /\ activeRequest = None
    /\ pendingRequests = {} /\ respCh = [c \in Calls |-> None]
    /\ cancelled = {} /\ shown = {}
    /\ notes = [c \in Calls |-> <<>>]
    /\ pc = [c \in Calls |-> "start"] /\ outcome = [c \in Calls |-> None]
    /\ ans = [a \in Answers |-> [at |-> "start", call |-> None, kind |-> "deny"]]

Notify(c, n) == notes' = [notes EXCEPT ![c] = Append(@, n)]
Goto(c, l) == pc' = [pc EXCEPT ![c] = l]
AnsGoto(a, l) == ans' = [ans EXCEPT ![a].at = l]
Returns(c, o) == outcome' = [outcome EXCEPT ![c] = o]

-----------------------------------------------------------------------------
(* Faulty variants of definitions below, one bug each: what the properties   *)
(* would catch.                                                             *)

(* The winner leaves the entry in the map. *)
TakeKeepsEntry(a, c, kind) ==
    /\ ans[a].at = "start" /\ c \in shown \cap pendingRequests
    /\ ans' = [ans EXCEPT ![a] = [at |-> IF kind = "persist" THEN "record" ELSE "notify",
                                  call |-> c, kind |-> kind]]
    /\ UNCHANGED <<policy, sessionPermissions, requestMu, prompt, cancelled, notes, pc, outcome>>

(* The grant is recorded before the race is decided. *)
LoserRecords(a, c, kind) ==
    /\ ans[a].at = "start" /\ c \in shown \ pendingRequests
    /\ ans' = [ans EXCEPT ![a] = [at |-> "lost", call |-> c, kind |-> kind]]
    /\ sessionPermissions' = sessionPermissions \cup
                             IF kind = "persist" THEN {KeyOf[c]} ELSE {}
    /\ UNCHANGED <<policy, requestMu, prompt, cancelled, notes, pc, outcome>>

(* The answer is sent before onResolve runs. *)
TakeSends(a, c, kind) ==
    /\ ans[a].at = "start" /\ c \in shown \cap pendingRequests
    /\ pendingRequests' = pendingRequests \ {c}
    /\ respCh' = [respCh EXCEPT ![c] = Verdict(kind)]
    /\ ans' = [ans EXCEPT ![a] = [at |-> IF kind = "persist" THEN "record" ELSE "notify",
                                  call |-> c, kind |-> kind]]
    /\ UNCHANGED <<policy, sessionPermissions, requestMu, activeRequest, shown,
                   cancelled, notes, pc, outcome>>

(* requestMu is released while the prompt is open. *)
PublishUnlocks(c) ==
    /\ pc[c] = "publish"
    /\ shown' = shown \cup {c} /\ requestMu' = None
    /\ Goto(c, "select")
    /\ UNCHANGED <<policy, sessionPermissions, activeRequest, pendingRequests, respCh,
                   cancelled, notes, outcome, ans>>

(* The verdict is published but never sent to the waiter. *)
SendsNothing(a) ==
    /\ ans[a].at = "send"
    /\ AnsGoto(a, "clear")
    /\ UNCHANGED <<policy, sessionPermissions, requestMu, prompt, cancelled, notes, pc, outcome>>

-----------------------------------------------------------------------------
(* Request. *)

(* Skip mode or the allowlist: no prompt and no notification. *)
Bypass(c) ==
    /\ pc[c] = "start" /\ (skip \/ c \in Allowed)
    /\ Goto(c, "done") /\ Returns(c, "granted")
    /\ UNCHANGED <<policy, sessionPermissions, requestMu, prompt, cancelled, notes, ans>>

HookApproved(c) ==
    /\ pc[c] = "start" /\ ~skip /\ c \in Hooked \ Allowed
    /\ Notify(c, "granted")
    /\ Goto(c, "done") /\ Returns(c, "granted")
    /\ UNCHANGED <<policy, sessionPermissions, requestMu, prompt, cancelled, ans>>

NeedsPermission(c) ==
    /\ pc[c] = "start" /\ ~skip /\ c \notin Hooked \cup Allowed
    /\ Goto(c, "lock")
    /\ UNCHANGED <<policy, sessionPermissions, requestMu, prompt, cancelled, notes, outcome, ans>>

(* requestMu.Lock, and the notification that permission was requested.  The *)
(* wait for the lock does not look at the context.                          *)
Lock(c) ==
    /\ pc[c] = "lock" /\ requestMu = None
    /\ requestMu' = c
    /\ Notify(c, "requested")
    /\ Goto(c, "auto")
    /\ UNCHANGED <<policy, sessionPermissions, prompt, cancelled, outcome, ans>>

(* A check of a standing approval, made under requestMu: at "auto" of the   *)
(* session, at "session" of the key.                                        *)
Standing(c) == IF pc[c] = "auto" THEN SessionOf[c] \in autoApproveSessions
                                 ELSE KeyOf[c] \in sessionPermissions

Approved(c) ==
    /\ pc[c] \in {"auto", "session"} /\ Standing(c)
    /\ Notify(c, "granted") /\ Returns(c, "granted")
    /\ Goto(c, "unlock")
    /\ UNCHANGED <<policy, sessionPermissions, requestMu, prompt, cancelled, ans>>

NotApproved(c) ==
    /\ pc[c] \in {"auto", "session"} /\ ~Standing(c)
    /\ Goto(c, IF pc[c] = "auto" THEN "session" ELSE "active")
    /\ UNCHANGED <<policy, sessionPermissions, requestMu, prompt, cancelled, notes, outcome, ans>>

SetActive(c) ==
    /\ pc[c] = "active"
    /\ activeRequest' = c
    /\ Goto(c, "pend")
    /\ UNCHANGED <<policy, sessionPermissions, requestMu, pendingRequests, respCh, shown,
                   cancelled, notes, outcome, ans>>

SetPending(c) ==
    /\ pc[c] = "pend"
    /\ pendingRequests' = pendingRequests \cup {c}
    /\ Goto(c, "publish")
    /\ UNCHANGED <<policy, sessionPermissions, requestMu, activeRequest, respCh, shown,
                   cancelled, notes, outcome, ans>>

Publish(c) ==
    /\ pc[c] = "publish"
    /\ shown' = shown \cup {c}
    /\ Goto(c, "select")
    /\ UNCHANGED <<policy, sessionPermissions, requestMu, activeRequest, pendingRequests, respCh,
                   cancelled, notes, outcome, ans>>

(* The select: with both channels ready either branch may be taken. *)
ContextDone(c) ==
    /\ pc[c] = "select" /\ c \in cancelled
    /\ Returns(c, "cancelled")
    /\ Goto(c, "del")
    /\ UNCHANGED <<policy, sessionPermissions, requestMu, prompt, cancelled, notes, ans>>

Answered(c) ==
    /\ pc[c] = "select" /\ respCh[c] # None
    /\ Returns(c, respCh[c]) /\ respCh' = [respCh EXCEPT ![c] = None]
    /\ Goto(c, "del")
    /\ UNCHANGED <<policy, sessionPermissions, requestMu, activeRequest, pendingRequests, shown,
                   cancelled, notes, ans>>

(* The deferred calls, in reverse order. *)
DelPending(c) ==
    /\ pc[c] = "del"
    /\ pendingRequests' = pendingRequests \ {c}
    /\ Goto(c, "unlock")
    /\ UNCHANGED <<policy, sessionPermissions, requestMu, activeRequest, respCh, shown,
                   cancelled, notes, outcome, ans>>

Unlock(c) ==
    /\ pc[c] = "unlock"
    /\ requestMu' = None
    /\ Goto(c, "done")
    /\ UNCHANGED <<policy, sessionPermissions, prompt, cancelled, notes, outcome, ans>>

-----------------------------------------------------------------------------
(* resolve, as called by Grant, GrantPersistent and Deny. *)

(* Take removes the entry under the map's lock, so one answer wins. *)
TakeWins(a, c, kind) ==
    /\ ans[a].at = "start" /\ c \in shown \cap pendingRequests
    /\ pendingRequests' = pendingRequests \ {c}
    /\ ans' = [ans EXCEPT ![a] = [at |-> IF kind = "persist" THEN "record" ELSE "notify",
                                  call |-> c, kind |-> kind]]
    /\ UNCHANGED <<policy, sessionPermissions, requestMu, activeRequest, respCh, shown,
                   cancelled, notes, pc, outcome>>

TakeLoses(a, c, kind) ==
    /\ ans[a].at = "start" /\ c \in shown \ pendingRequests
    /\ ans' = [ans EXCEPT ![a] = [at |-> "lost", call |-> c, kind |-> kind]]
    /\ UNCHANGED <<policy, sessionPermissions, requestMu, prompt, cancelled, notes, pc, outcome>>

(* onResolve of GrantPersistent. *)
Record(a) ==
    /\ ans[a].at = "record"
    /\ sessionPermissions' = sessionPermissions \cup {KeyOf[ans[a].call]}
    /\ AnsGoto(a, "notify")
    /\ UNCHANGED <<policy, requestMu, prompt, cancelled, notes, pc, outcome>>

AnswerNotifies(a) ==
    /\ ans[a].at = "notify"
    /\ Notify(ans[a].call, Verdict(ans[a].kind))
    /\ AnsGoto(a, "send")
    /\ UNCHANGED <<policy, sessionPermissions, requestMu, prompt, cancelled, pc, outcome>>

(* The channel holds one answer: a second send would block. *)
Send(a) ==
    /\ ans[a].at = "send" /\ respCh[ans[a].call] = None
    /\ respCh' = [respCh EXCEPT ![ans[a].call] = Verdict(ans[a].kind)]
    /\ AnsGoto(a, "clear")
    /\ UNCHANGED <<policy, sessionPermissions, requestMu, activeRequest, pendingRequests, shown,
                   cancelled, notes, pc, outcome>>

ClearActive(a) ==
    /\ ans[a].at = "clear"
    /\ activeRequest' = IF activeRequest = ans[a].call THEN None ELSE activeRequest
    /\ AnsGoto(a, "won")
    /\ UNCHANGED <<policy, sessionPermissions, requestMu, pendingRequests, respCh, shown,
                   cancelled, notes, pc, outcome>>

-----------------------------------------------------------------------------
(* The rest of the interface, and the agent's cancellation. *)

(* Standing approvals and cancellation at moments when no call that is still *)
(* to read them is left are omitted: nobody could tell.                      *)
AutoApproveSession(s) ==
    /\ s \notin autoApproveSessions
    /\ \E c \in Calls : SessionOf[c] = s /\ pc[c] \in {"start", "lock", "auto"}
    /\ autoApproveSessions' = autoApproveSessions \cup {s}
    /\ UNCHANGED <<skip, sessionPermissions, requestMu, prompt, cancelled, notes, pc, outcome, ans>>

SetSkipRequests ==
    /\ \E c \in Calls : pc[c] = "start"
    /\ skip' = ~skip
    /\ UNCHANGED <<autoApproveSessions, sessionPermissions, requestMu, prompt, cancelled, notes,
                   pc, outcome, ans>>

CancelContext(c) ==
    /\ c \notin cancelled /\ pc[c] \notin {"start", "done"}
    /\ cancelled' = cancelled \cup {c}
    /\ UNCHANGED <<policy, sessionPermissions, requestMu, prompt, notes, pc, outcome, ans>>

RequestStep(c) ==
    \/ Bypass(c) \/ HookApproved(c) \/ NeedsPermission(c) \/ Lock(c)
    \/ Approved(c) \/ NotApproved(c)
    \/ SetActive(c) \/ SetPending(c) \/ Publish(c)
    \/ ContextDone(c) \/ Answered(c) \/ DelPending(c) \/ Unlock(c)

ResolveStep(a) == Record(a) \/ AnswerNotifies(a) \/ Send(a) \/ ClearActive(a)

Next ==
    \/ \E c \in Calls : RequestStep(c) \/ CancelContext(c)
    \/ \E a \in Answers, c \in Calls, kind \in Kinds : TakeWins(a, c, kind) \/ TakeLoses(a, c, kind)
    \/ \E a \in Answers : ResolveStep(a)
    \/ \E s \in Sessions : AutoApproveSession(s)
    \/ SetSkipRequests

(* Request and resolve run to their end once they can: goroutines that are  *)
(* not blocked.  That a client answers, or an agent is cancelled, is not    *)
(* assumed.                                                                 *)
Spec == /\ Init /\ [][Next]_vars
        /\ \A c \in Calls : WF_vars(RequestStep(c))
        /\ \A a \in Answers : WF_vars(ResolveStep(a))
-----------------------------------------------------------------------------
(* Properties. *)

Winners(c) == {a \in Answers : ans[a].call = c /\ ans[a].at \notin {"start", "lost"}}
Delivered(a) == ans[a].at \in {"clear", "won"}
Count(c, S) == Cardinality({i \in 1..Len(notes[c]) : notes[c][i] \in S})

(* Only one request is processed at a time: a prompt is open only while its  *)
(* own Request holds requestMu, whatever clients answer and whoever is       *)
(* cancelled.                                                               *)
PromptsSerialized == \A c \in pendingRequests : requestMu = c

(* The first answer wins and the rest are no-ops: a call has at most one      *)
(* winning answer, at most one verdict is published for it, and its Request  *)
(* returns that verdict or its cancellation, never the loser's.              *)
FirstAnswerWins ==
    \A c \in Calls :
        /\ Cardinality(Winners(c)) <= 1 /\ Count(c, {"granted", "denied"}) <= 1
        /\ \A a \in Winners(c) :
               outcome[c] \in {Verdict(ans[a].kind), "cancelled", None}

(* No tool runs on a denial or on nobody's word: a Request that was prompted   *)
(* for returns "granted" or "denied" only after its winner sent that verdict, *)
(* and after the verdict was published for audit.                            *)
VerdictIsGiven ==
    \A c \in shown : outcome[c] \in {"granted", "denied"} =>
        /\ \E a \in Winners(c) : Delivered(a) /\ Verdict(ans[a].kind) = outcome[c]
        /\ Count(c, {outcome[c]}) = 1

(* A standing grant comes only from a GrantPersistent that won its prompt: a  *)
(* GrantPersistent that lost to a Deny leaves no auto-approval behind.       *)
ConsentIsWon ==
    \A k \in sessionPermissions :
        \E c \in Calls : KeyOf[c] = k /\ \E a \in Winners(c) : ans[a].kind = "persist"

(* A standing grant is honoured by every later request: no prompt is open    *)
(* for a granted key, unless the request that obtained the grant was         *)
(* cancelled and let the next one in before the grant was recorded.          *)
NoNeedlessPrompt ==
    \A c \in pendingRequests : KeyOf[c] \in sessionPermissions =>
        \E q \in cancelled : q # c /\ KeyOf[q] = KeyOf[c] /\ Winners(q) # {}

(* While a prompt is open activeRequest is that prompt: an answer to an       *)
(* earlier one that is still finishing does not clear it.                    *)
ActiveWhileOpen == \A c \in pendingRequests : activeRequest = c

(* One prompt at a time, known as the active one.                            *)
WellFormed == TypeOK /\ PromptsSerialized /\ ActiveWhileOpen

(* The verdict of a prompt is its first answer's, once, for everybody.       *)
AnswersAreFinal == FirstAnswerWins /\ VerdictIsGiven

(* No answer is lost: once a prompt's winner has taken it, or the context of  *)
(* a prompted call is done, its Request returns and frees requestMu.         *)
AnsweredReturns ==
    \A c \in Calls :
        (Winners(c) # {} \/ (c \in cancelled /\ pc[c] = "select")) ~> (pc[c] = "done")
=============================================================================
