----------------------------- MODULE MCStorage ------------------------------
(***************************************************************************)
(* Two stores with a copy in memory: the messages and the configuration.   *)
(* They share no state, so a behaviour follows one of them, its subject,   *)
(* as in MCServices.                                                       *)
(***************************************************************************)
EXTENDS MessageService, ConfigStore

VARIABLE subject

(* Two processes.  Either both refresh and one of them also sets a field,  *)
(* or both record recent models, or one does and the other sets a field.   *)
MCStoreOf == [g \in Routines |-> IF g \in {"r1", "m1"} THEN "s1" ELSE "s2"]
MCCome == {{"r1", "r2", "w1"}, {"m1", "m2"}, {"w1", "m1"}}

MCInit ==
    /\ subject \in {"message", "config"}
    /\ Init
    /\ ConfigInit
    /\ \E C \in MCCome : \A g \in Routines : (routine[g].pc = "idle") = (g \in C)
    /\ subject # "config" => ~configFile.legacy /\ routine["r1"].pc = "idle"

(* When all who touch the configuration are done, it stays.                *)
Stopped ==
    /\ subject = "config" /\ \A g \in Routines : routine[g].pc \in {"ok", "error"}
    /\ UNCHANGED <<vars, configVars>>

MCNext ==
    /\ UNCHANGED subject
    /\ \/ subject = "message" /\ Next /\ UNCHANGED configVars
       \/ subject = "config" /\ ConfigNext /\ UNCHANGED vars
       \/ Stopped

MCVars == <<subject, vars, configVars>>

(* The message service's, in the behaviours that follow it.                *)
MCFairness ==
    /\ \A t \in Timers : WF_vars(subject = "message" /\ TimerFires(t))
    /\ \A a \in SyncCallers \cup Timers : WF_vars(subject = "message" /\ FlushOne(a))

MCSpec == MCInit /\ [][MCNext]_MCVars /\ MCFairness
=============================================================================
