----------------------------- MODULE Coordinator -----------------------------
(***************************************************************************)
(* coordinator.run (internal/agent/coordinator.go) and backend.runAgent     *)
(* (internal/backend/agent.go) around sessionAgent.Run: the RunCompletes of *)
(* the attempts are buffered by a hook and the last one is published once,  *)
(* a 401 is retried, and a run that failed without a RunComplete gets one   *)
(* from runAgent.  The calls of Run that SessionAgent leaves to its caller  *)
(* are the calls made here.                                                *)
(***************************************************************************)
EXTENDS SessionAgent

VARIABLES
    delivered, \* RunCompletes the coordinator and runAgent published, by prompt
    marker,    \* MarkRunCompletePublished was called for the prompt
    resolved   \* coordinator.run has returned to runAgent

coordVars == <<delivered, marker, resolved>>
allVars   == <<vars, coordVars>>

CoordTypeOK ==
    /\ delivered \in [Prompts -> Nat]
    /\ marker \in [Prompts -> BOOLEAN]
    /\ resolved \in [Prompts -> BOOLEAN]
    /\ \A p \in Prompts : marker[p] => resolved[p] /\ delivered[p] > 0

CoordInit ==
    /\ Init
    /\ delivered = [p \in Prompts |-> 0]
    /\ marker = [p \in Prompts |-> FALSE]
    /\ resolved = [p \in Prompts |-> FALSE]

(* runWithUnauthorizedRetry: the first call, or one more after a 401.       *)
CoordRun(p) ==
    /\ ~resolved[p]
    /\ CallRun(p)
    /\ UNCHANGED coordVars

(* coordinator.run ends: what the hook buffered last is published, and      *)
(* runAgent is told so.                                                     *)
CoordResolve(p) ==
    /\ pc[p] = "returned" /\ ~resolved[p]
    /\ resolved' = [resolved EXCEPT ![p] = TRUE]
    /\ IF latest[p] # "none"
       THEN /\ delivered' = [delivered EXCEPT ![p] = @ + 1]
            /\ marker' = [marker EXCEPT ![p] = TRUE]
       ELSE UNCHANGED <<delivered, marker>>
    /\ UNCHANGED vars

(* Mistakes: the fallback ignores what was published, or is missing. *)
RunAgentRepeats(p) ==
    /\ resolved[p] \/ pc[p] = "accepted"
    /\ RunAgentReturns(p)
    /\ delivered' = [delivered EXCEPT ![p] = @ + IF IsError(ret'[p]) THEN 1 ELSE 0]
    /\ UNCHANGED <<marker, resolved>>
RunAgentSilent(p) ==
    /\ resolved[p] \/ pc[p] = "accepted"
    /\ RunAgentReturns(p)
    /\ UNCHANGED coordVars

(* runAgent, once coordinator.run has resolved or failed before Run: an     *)
(* error that is not a cancellation and that nobody was told of is          *)
(* published to the waiter of the RunID.                                    *)
RunAgent(p) ==
    /\ resolved[p] \/ pc[p] = "accepted"
    /\ RunAgentReturns(p)
    /\ delivered' = [delivered EXCEPT ![p] =
          @ + IF IsError(ret'[p]) /\ p \in WithRunID \ Local /\ ~marker[p] THEN 1 ELSE 0]
    /\ UNCHANGED <<marker, resolved>>

Caller(p) ==
    \/ BeginAccepted(p) /\ UNCHANGED coordVars
    \/ CoordRun(p) \/ CoordResolve(p) \/ RunAgent(p)

Others ==
    \/ \E s \in Summaries : UserSummarize(s) /\ UNCHANGED marking
    \/ \E g \in Runners : Run(g) /\ UNCHANGED marking
    \/ \E c \in Cancels : Cancel(c) \/ CancelRaises(c)
    \/ \E c \in Clears : ClearQueue(c) /\ UNCHANGED marking
    \/ \E c \in Cancels \cup Clears : (ClearGet(c) \/ ClearSet(c)) /\ UNCHANGED marking
    \/ Terminated

CoordNext ==
    \/ \E p \in Prompts : Caller(p) /\ UNCHANGED marking
    \/ Others /\ UNCHANGED coordVars

CoordSpec == CoordInit /\ [][CoordNext]_allVars

CoordFairSpec ==
    /\ CoordSpec
    /\ \A g \in Runners :
          /\ WF_allVars(Advance(g) /\ UNCHANGED <<marking, coordVars>>)
          /\ SF_allVars((StreamEnds(g) \/ StreamFails(g)) /\ UNCHANGED <<marking, coordVars>>)
    /\ \A p \in Prompts :
          WF_allVars((CoordRun(p) \/ CoordResolve(p) \/ (resolved[p] /\ RunAgent(p)))
                        /\ UNCHANGED marking)
    /\ \A c \in Cancels : WF_allVars(CancelRaises(c) /\ UNCHANGED coordVars)
    /\ \A c \in Cancels \cup Clears :
          WF_allVars((ClearGet(c) \/ ClearSet(c)) /\ UNCHANGED <<marking, coordVars>>)

-----------------------------------------------------------------------------
(* Properties. *)

Terminals(p) == published[p] + delivered[p]

(* The waiter of a RunID gets at most one terminal event, however many      *)
(* attempts were made and whoever ran the prompt.                           *)
OneTerminalEvent == \A p \in WithRunID : Terminals(p) <= 1
CoordSound == CoordTypeOK /\ OneTerminalEvent

(* And it gets one, once the prompt was submitted.                          *)
EveryRunIDTerminates ==
    \A p \in WithRunID : []<>(pc[p] = "idle" \/ Terminals(p) > 0)
=============================================================================
