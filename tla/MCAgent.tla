------------------------------ MODULE MCAgent -------------------------------
(***************************************************************************)
(* A session's turns: how they are dispatched, the session's row that they *)
(* and others save, and a file that their tools edit.  The three share no  *)
(* state, so a behaviour follows one of them, its subject, and leaves the  *)
(* others where they began.                                                *)
(***************************************************************************)
EXTENDS SessionAgent, Sessions, FileEdits

VARIABLE subject

(* All tools are those of one turn; beside it is another turn, or the      *)
(* summarization.                                                          *)
MCTurnOf == [a \in TurnTools |-> "t1"]

MCInit ==
    /\ subject \in {"dispatch", "row", "edits"}
    /\ Init
    /\ SessionsInit
    /\ FileEditsInit
    /\ \E p \in {"t2", "summary"} : \A q \in Workers : (at[q] = "gone") = (q = p)
    /\ subject # "row" => at["t2"] = "gone"
    /\ subject # "edits" => ~Exists

(* A deleted session, and tool calls that the bound has ended, stop.       *)
Stopped ==
    /\ \/ subject = "row" /\ ~sessionRow.exists
       \/ /\ subject = "edits" /\ spent.calls = MaxCalls
          /\ \A s \in EditSessions : call[s].pc = "idle"
    /\ UNCHANGED <<vars, sessionVars, fileVars>>

MCNext ==
    /\ UNCHANGED subject
    /\ \/ /\ subject = "dispatch" /\ Next
          /\ UNCHANGED <<sessionVars, fileVars>>
       \/ /\ subject = "row" /\ SessionsNext
          /\ UNCHANGED <<vars, fileVars>>
       \/ /\ subject = "edits" /\ FileEditsNext
          /\ UNCHANGED <<vars, sessionVars>>
       \/ Stopped

MCVars == <<subject, vars, sessionVars, fileVars>>

MCSpec == MCInit /\ [][MCNext]_MCVars
=============================================================================
