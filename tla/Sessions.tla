------------------------------ MODULE Sessions ------------------------------
(***************************************************************************)
(* One row of the sessions table and those who write it.  session.Service  *)
(* (session/session.go) offers Get and a Save of the WHOLE row, used by    *)
(* the end of a step, the todos tool, a sub-agent that hands its cost to   *)
(* its parent, a summarization, and the session dialog's rename of a row   *)
(* it listed when it was opened; and two updates in place, the generated   *)
(* title with its usage and Rename.  Nothing but their order keeps the     *)
(* Saves apart; each operation costs one unit.                             *)
(*                                                                         *)
(* Turns and the summarization exclude one another only by the session's   *)
(* entry in activeRequests.  An in-process Run and Summarize look for it   *)
(* and set it in two steps without a lock, and whoever unwinds deletes the *)
(* entry it finds, so two of them can be at work at the same time.         *)
(***************************************************************************)
EXTENDS Naturals

CONSTANTS
    Turns,      \* turns of the session
    SubAgents,  \* sub-agents that steps of the turns start, in parallel
    TodosTools, \* the todos tools of turns, one call at a time
    TurnOf,     \* the turn whose tool each of these is
    MaxReads,   \* times the row is read to be saved (bound)
    MaxTitles   \* titles given by users (bound)

TurnTools == SubAgents \cup TodosTools

ASSUME SessionsAssumption ==
    /\ MaxReads \in Nat /\ MaxTitles \in Nat
    /\ TurnOf \in [TurnTools -> Turns]
    /\ \A a, b \in TodosTools : TurnOf[a] = TurnOf[b] => a = b
    /\ SubAgents \cap TodosTools = {} /\ Turns \cap TurnTools = {}
    /\ (Turns \cup TurnTools) \cap {"summary", "dialog", "title", "rename"} = {}

VARIABLES
    sessionRow, \* the row: exists, title, cost, todos, summary
    copy,     \* per writer of whole rows: the row it read, and who wrote since
    at,       \* where each turn and the summarization is
    busy,     \* whether activeRequests has an entry for the session
    reads,    \* times the row was read to be saved
    titling,  \* the title goroutine: "none", "running", "done"
    incurred, \* cost of the operations committed (history)
    newest,   \* last title and todos committed, was a summary (history)
    lost,     \* writers whose committed update a stale Save wrote over (history)
    together  \* two of them have been at work at the same time (history)

sessionVars == <<sessionRow, copy, at, busy, reads, titling,
                 incurred, newest, lost, together>>

Workers == Turns \cup {"summary"}
Savers == Workers \cup TurnTools \cup {"dialog"}
RowWriters == Savers \cup {"title", "rename"}

NoCopy == [held |-> FALSE, row |-> [exists |-> FALSE], since |-> {}]

(* Whoever does not come is gone from the start.                           *)
SessionsInit ==
    /\ sessionRow = [exists |-> TRUE, title |-> 0, cost |-> 0, todos |-> 0, summary |-> FALSE]
    /\ copy = [w \in Savers |-> NoCopy]
    /\ at \in [Workers -> {"idle", "gone"}]
    /\ busy = FALSE
    /\ reads = 0
    /\ titling = "none"
    /\ incurred = 0
    /\ newest = [title |-> 0, todos |-> 0, summary |-> FALSE]
    /\ lost = {}
    /\ together = FALSE

-----------------------------------------------------------------------------
(* Get, Save and the updates in place.                                     *)

GetRow(w) ==
    /\ ~copy[w].held /\ reads < MaxReads
    /\ reads' = reads + 1
    /\ copy' = [copy EXCEPT ![w] = [held |-> TRUE, row |-> sessionRow, since |-> {}]]

(* Everyone who holds a copy has one that lacks what w commits.            *)
Behind(C, w) == [v \in Savers |-> IF C[v].held /\ v # w
                                    THEN [C[v] EXCEPT !.since = @ \cup {w}]
                                    ELSE C[v]]

(* UpdateSession sets every column but the message count.                  *)
SaveRow(w, r) ==
    /\ sessionRow' = r
    /\ lost' = lost \cup copy[w].since

SaveAndDrop(w, r) ==
    /\ copy[w].held
    /\ SaveRow(w, r)
    /\ copy' = Behind([copy EXCEPT ![w] = NoCopy], w)

(* The context ends or the database refuses: the writer returns its error. *)
DropCopy(w) ==
    /\ copy[w].held
    /\ copy' = [copy EXCEPT ![w] = NoCopy]

InPlace(w, r) ==
    /\ sessionRow' = r
    /\ copy' = Behind(copy, w)

Quiet(t) == \A a \in TurnTools : TurnOf[a] = t => ~copy[a].held

-----------------------------------------------------------------------------
(* The entry.  A turn is at work from its entry on, the summarization from *)
(* the moment it reads the row.                                            *)

AtWork(p) == at[p] \in {"tools", "ending", "reading", "writing"}

SetsOut(p, where) ==
    /\ at' = [at EXCEPT ![p] = where]
    /\ together' = (together \/ \E q \in Workers \ {p} : AtWork(q))

(* IsSessionBusy.  A Run that finds the session busy queues its prompt,    *)
(* which comes here again; a dispatched Run goes on to its entry under     *)
(* dispatchMu, an in-process one and Summarize take no lock.               *)
FindsIdle(p) ==
    /\ at[p] = "idle" /\ ~busy
    /\ at' = [at EXCEPT ![p] = "tested"]
    /\ UNCHANGED <<sessionRow, copy, busy, reads, titling, incurred, newest, lost, together>>

(* The session's first prompt also starts the title's goroutine.           *)
StartTurn(t) ==
    /\ at[t] = "tested"
    /\ SetsOut(t, "tools")
    /\ busy' = TRUE
    /\ titling' = IF titling = "none" THEN "running" ELSE titling
    /\ UNCHANGED <<sessionRow, copy, reads, incurred, newest, lost>>

(* The end of the turn, then of the summarization, deletes the entry, and  *)
(* the deferred delete comes when the function returns: for a turn that    *)
(* hands off, when the turns it handed off to are over.  Neither looks     *)
(* whose entry it deletes.                                                 *)
Releases(p) ==
    /\ at[p] = "over"
    /\ at' = [at EXCEPT ![p] = "released"]
    /\ busy' = FALSE
    /\ UNCHANGED <<sessionRow, copy, reads, titling, incurred, newest, lost, together>>

Unwinds(p) ==
    /\ at[p] = "released"
    /\ at' = [at EXCEPT ![p] = "gone"]
    /\ busy' = FALSE
    /\ UNCHANGED <<sessionRow, copy, reads, titling, incurred, newest, lost, together>>

-----------------------------------------------------------------------------
(* A turn: its tools run side by side and have returned before the step is *)
(* saved.                                                                  *)

(* UpdateTitleAndUsage adds to the columns it finds, so its usage needs no *)
(* copy; when neither model answers the default title is set by Rename.    *)
TitleGenerated ==
    /\ titling = "running"
    /\ titling' = "done"
    /\ InPlace("title", [sessionRow EXCEPT !.title = newest.title + 1, !.cost = @ + 1])
    /\ newest' = [newest EXCEPT !.title = @ + 1]
    /\ incurred' = incurred + 1
    /\ UNCHANGED <<at, busy, reads, lost, together>>

TitleFailed ==
    /\ titling = "running"
    /\ titling' = "done"
    /\ InPlace("title", [sessionRow EXCEPT !.title = newest.title + 1])
    /\ newest' = [newest EXCEPT !.title = @ + 1]
    /\ UNCHANGED <<at, busy, reads, incurred, lost, together>>

TodosGet(a) ==
    /\ at[TurnOf[a]] = "tools"
    /\ GetRow(a)
    /\ UNCHANGED <<sessionRow, at, busy, titling, incurred, newest, lost, together>>

TodosSave(a) ==
    /\ SaveAndDrop(a, [copy[a].row EXCEPT !.todos = newest.todos + 1])
    /\ newest' = [newest EXCEPT !.todos = @ + 1]
    /\ UNCHANGED <<at, busy, reads, titling, incurred, together>>

(* A sub-agent writes the row only to hand its cost over, at its end; one  *)
(* that failed returns without.                                            *)
SubGetParent(a) ==
    /\ at[TurnOf[a]] = "tools"
    /\ GetRow(a)
    /\ UNCHANGED <<sessionRow, at, busy, titling, incurred, newest, lost, together>>

SubSaveParent(a) ==
    /\ SaveAndDrop(a, [copy[a].row EXCEPT !.cost = @ + 1])
    /\ incurred' = incurred + 1
    /\ UNCHANGED <<at, busy, reads, titling, newest, together>>

(* Mistake: the row is read while the step's tools are at work.            *)
StepGetEarly(t) ==
    /\ at[t] = "tools"
    /\ GetRow(t)
    /\ at' = [at EXCEPT ![t] = "ending"]
    /\ UNCHANGED <<sessionRow, busy, titling, incurred, newest, lost, together>>

(* OnStepFinish: Get and Save under the turn's own lock, which no other    *)
(* writer takes.                                                           *)
StepGet(t) ==
    /\ at[t] = "tools" /\ Quiet(t)
    /\ GetRow(t)
    /\ at' = [at EXCEPT ![t] = "ending"]
    /\ UNCHANGED <<sessionRow, busy, titling, incurred, newest, lost, together>>

StepSave(t) ==
    /\ SaveAndDrop(t, [copy[t].row EXCEPT !.cost = @ + 1])
    /\ incurred' = incurred + 1
    /\ \E where \in {"tools", "over"} : at' = [at EXCEPT ![t] = where]
    /\ UNCHANGED <<busy, reads, titling, newest, together>>

(* The provider fails or the turn is cancelled: only the deferred delete.  *)
TurnFails(t) ==
    /\ at[t] = "tools" /\ Quiet(t)
    /\ at' = [at EXCEPT ![t] = "released"]
    /\ UNCHANGED <<sessionRow, copy, busy, reads, titling, incurred, newest, lost, together>>

-----------------------------------------------------------------------------
(* Summarize reads the row before it sets its entry and before the model   *)
(* has written its summary, and saves it afterwards.                       *)

SummarizeGet ==
    /\ at["summary"] = "tested"
    /\ GetRow("summary")
    /\ SetsOut("summary", "reading")
    /\ UNCHANGED <<sessionRow, busy, titling, incurred, newest, lost>>

SummarizeEnters ==
    /\ at["summary"] = "reading"
    /\ at' = [at EXCEPT !["summary"] = "writing"]
    /\ busy' = TRUE
    /\ UNCHANGED <<sessionRow, copy, reads, titling, incurred, newest, lost, together>>

SummarizeSave ==
    /\ at["summary"] = "writing"
    /\ SaveAndDrop("summary", [copy["summary"].row EXCEPT !.cost = @ + 1,
                                                          !.summary = TRUE])
    /\ incurred' = incurred + 1
    /\ newest' = [newest EXCEPT !.summary = TRUE]
    /\ at' = [at EXCEPT !["summary"] = "over"]
    /\ UNCHANGED <<busy, reads, titling, together>>

(* A failed Get or Save ends the tool call, the turn or the summarization; *)
(* one that has no entry yet, for want of messages too, deletes none.      *)
SaveFails(w) ==
    /\ w # "dialog"
    /\ DropCopy(w)
    /\ at' = [p \in Workers |-> IF p # w THEN at[p]
                               ELSE IF at[p] = "reading" THEN "gone" ELSE "released"]
    /\ UNCHANGED <<sessionRow, busy, reads, titling, incurred, newest, lost, together>>

-----------------------------------------------------------------------------
(* Users.                                                                  *)

Titled == newest.title < MaxTitles + 1

(* `trapeze session rename`, from a process of its own.                    *)
RenameSession ==
    /\ Titled
    /\ InPlace("rename", [sessionRow EXCEPT !.title = newest.title + 1])
    /\ newest' = [newest EXCEPT !.title = @ + 1]
    /\ UNCHANGED <<at, busy, reads, titling, incurred, lost, together>>

DialogOpens ==
    /\ GetRow("dialog")
    /\ UNCHANGED <<sessionRow, at, busy, titling, incurred, newest, lost, together>>

(* The dialog keeps its copy, with the new title, for the next rename.     *)
DialogRenames ==
    /\ Titled /\ copy["dialog"].held
    /\ LET r == [copy["dialog"].row EXCEPT !.title = newest.title + 1]
       IN  /\ SaveRow("dialog", r)
           /\ copy' = Behind([copy EXCEPT !["dialog"].row = r], "dialog")
    /\ newest' = [newest EXCEPT !.title = @ + 1]
    /\ UNCHANGED <<at, busy, reads, titling, incurred, together>>

DialogCloses ==
    /\ DropCopy("dialog")
    /\ UNCHANGED <<sessionRow, at, busy, reads, titling, incurred, newest, lost, together>>

(* Delete is one transaction.  Whoever holds a copy fails when it comes to *)
(* its Save, which is taken together with this step.                       *)
DeleteSession ==
    /\ sessionRow' = [sessionRow EXCEPT !.exists = FALSE]
    /\ copy' = [w \in Savers |-> NoCopy]
    /\ UNCHANGED <<at, busy, reads, titling, incurred, newest, lost, together>>

SessionsNext ==
    /\ sessionRow.exists
    /\ \/ \E p \in Workers : FindsIdle(p) \/ Releases(p) \/ Unwinds(p)
       \/ \E t \in Turns : StartTurn(t) \/ StepGet(t) \/ StepSave(t) \/ TurnFails(t)
       \/ \E a \in TodosTools : TodosGet(a) \/ TodosSave(a)
       \/ \E a \in SubAgents : SubGetParent(a) \/ SubSaveParent(a)
       \/ \E w \in Savers : SaveFails(w)
       \/ TitleGenerated
       \/ TitleFailed
       \/ SummarizeGet
       \/ SummarizeEnters
       \/ SummarizeSave
       \/ RenameSession
       \/ DialogOpens
       \/ DialogRenames
       \/ DialogCloses
       \/ DeleteSession

SessionsSpec == SessionsInit /\ [][SessionsNext]_sessionVars

-----------------------------------------------------------------------------
(* Who may write over whom.  The updates in place lose nothing; the end of *)
(* a step and the tools of its turn never lose each other's, for the step  *)
(* is saved when its tools have returned (agent.go:969-984).  What remains:*)
(* anyone's stale row loses an update in place or the dialog's; two tools  *)
(* of a turn lose each other's (coordinator.go:1283-1300), two todos or    *)
(* two sub-agents or one of each; the dialog's loses everything since it   *)
(* was opened (ui/dialog/sessions.go:395); and where two turns, or a turn  *)
(* and the summarization, were at work together (agent.go:1276-1300), each *)
(* loses what the other wrote.                                             *)
ToolsOf(p) == {a \in TurnTools : TurnOf[a] = p}
Owner(w) == IF w \in TurnTools THEN TurnOf[w] ELSE w
WritersBeside(p) == UNION {{q} \cup ToolsOf(q) : q \in Workers \ {p}}

MayLose(w) ==
    IF w = "dialog" THEN RowWriters
    ELSE {"title", "rename", "dialog"}
           \cup (IF w \in TurnTools THEN ToolsOf(TurnOf[w]) \ {w} ELSE {})
           \cup (IF together THEN WritersBeside(Owner(w)) ELSE {})

(* Nothing else is ever lost, and what nobody lost is in the row: its cost *)
(* is what the operations cost, its title, todos and summary the last      *)
(* committed; a cost is never counted twice.                               *)
RowIsAccounted ==
    LET kept(O) == lost \cap O = {}
    IN  /\ \A w \in Savers : copy[w].since \subseteq MayLose(w)
        /\ sessionRow.cost <= incurred
        /\ lost = {} => sessionRow.cost = incurred
        /\ kept(TodosTools) => sessionRow.todos = newest.todos
        /\ kept({"summary"}) => sessionRow.summary = newest.summary
        /\ kept({"title", "rename", "dialog"}) => sessionRow.title = newest.title
=============================================================================
