--------------------------- MODULE MessageService ---------------------------
(***************************************************************************)
(* The debounced message store of internal/message/message.go, for one      *)
(* message: Update buffers a state or flushes it, a timer flushes later,    *)
(* Flush and FlushAll drain, Delete drops.  service.mu protects the         *)
(* pendingState and is released around the SQL write and the publish, so    *)
(* every action is one critical section, one write or one publish.          *)
(*                                                                         *)
(* A state of the message is its number, in the order Update was called.    *)
(* pending holds every pendingState made for the message: a flusher keeps   *)
(* the pointer it found although Delete drops it from the map.              *)
(***************************************************************************)
EXTENDS Naturals, FiniteSets

CONSTANTS
    Writer,       \* the goroutine that streams the message
    Flushers,     \* calls of Flush and FlushAll
    Deleters,     \* calls of Delete
    Timers,       \* goroutines of fired timers, at most so many at a time
    MaxVersion,   \* states given to Update
    Structural,   \* those that add or finish a tool call or end the reasoning
    FinishedFrom, \* the first that is finished
    Debounced,    \* the debounce window is positive
    MaxFailures   \* writes that may fail

SyncCallers == {Writer} \cup Flushers
Actors == SyncCallers \cup Timers \cup Deleters

ASSUME MessageAssumption ==
    /\ MaxVersion \in Nat /\ MaxFailures \in Nat
    /\ FinishedFrom \in Nat
    /\ Structural \subseteq Nat
    /\ Debounced \in BOOLEAN
    /\ IsFiniteSet(Deleters)
    /\ Writer \notin Flushers \cup Timers \cup Deleters
    /\ Flushers \cap (Timers \cup Deleters) = {}
    /\ Timers \cap Deleters = {}

VARIABLES
    accepted,  \* states given to Update so far
    row,       \* the state in the database
    deleted,   \* the row was deleted
    pending,   \* every pendingState made for the message
    entry,     \* the one in the pending map, 0 for none
    made,      \* pendingStates made so far
    pc,        \* program counter of every goroutine
    obj,       \* the pendingState a flusher works on
    snap,      \* the state it took from it
    again,     \* a state arrived meanwhile: it flushes again
    failed,    \* its last write failed
    goal,      \* newest state when a synchronous caller began
    published, \* the state published last
    failures   \* writes that failed so far

mapVars == <<pending, entry, made>>
flushVars == <<obj, snap, again, failed>>
vars == <<accepted, row, deleted, mapVars, pc, flushVars, goal, published, failures>>

Versions == 0..MaxVersion
Entries  == 1..(Cardinality(Deleters) + 1)

PendingState == [latest : Versions, dirty : BOOLEAN, flushing : BOOLEAN,
                 timer : {"none", "armed", "fired"}, lastFlushed : Versions]

Labels == {"idle", "enter", "write", "written", "publish", "delRow", "delDrop",
           "returned"}

NewPending == [latest |-> 0, dirty |-> FALSE, flushing |-> FALSE,
               timer |-> "none", lastFlushed |-> 0]

TypeOK ==
    /\ accepted \in Versions /\ row \in Versions /\ deleted \in BOOLEAN
    /\ pending \in [Entries -> PendingState]
    /\ made \in 0..Cardinality(Deleters) + 1
    /\ entry \in {0, made}
    /\ pc \in [Actors -> Labels]
    /\ obj \in [Actors -> Entries]
    /\ snap \in [Actors -> Versions]
    /\ again \in [Actors -> BOOLEAN] /\ failed \in [Actors -> BOOLEAN]
    /\ goal \in [Actors -> Versions]
    /\ published \in Versions
    /\ failures \in Nat

Init ==
    /\ accepted = 0 /\ row = 0 /\ deleted = FALSE
    /\ pending = [e \in Entries |-> NewPending]
    /\ entry = 0 /\ made = 0
    /\ pc = [a \in Actors |-> "idle"]
    /\ obj = [a \in Actors |-> 1]
    /\ snap = [a \in Actors |-> 0]
    /\ again = [a \in Actors |-> FALSE]
    /\ failed = [a \in Actors |-> FALSE]
    /\ goal = [a \in Actors |-> 0]
    /\ published = 0
    /\ failures = 0

Goto(a, label) == pc' = [pc EXCEPT ![a] = label]
Return(a) == Goto(a, IF a \in Flushers THEN "returned" ELSE "idle")

(* Mistake: the end of the message is no reason to flush. *)
ignoreFinish(prev, next) == \E v \in Structural : prev < v /\ v <= next

(* Is next a structural change against the state flushed last? *)
shouldFlushNow(prev, next) ==
    \/ next >= FinishedFrom
    \/ \E v \in Structural : prev < v /\ v <= next

-----------------------------------------------------------------------------
(* Mistake: a timer is armed although a flush is running. *)
BufferAndArm(v, e, old) ==
    LET terminal == ~Debounced \/ shouldFlushNow(old.lastFlushed, v)
    IN  /\ pending' = [pending EXCEPT ![e] =
              [old EXCEPT !.latest = v, !.dirty = TRUE,
                          !.timer = IF terminal THEN "none" ELSE "armed"]]
        /\ goal' = [goal EXCEPT ![Writer] = IF terminal THEN v ELSE @]
        /\ failed' = [failed EXCEPT ![Writer] = @ /\ ~terminal]
        /\ IF terminal THEN Goto(Writer, "enter") ELSE UNCHANGED pc

(* A new state either stays buffered, with the timer armed unless a flush   *)
(* is running, or is flushed before Update returns.                         *)
Buffer(v, e, old) ==
    LET terminal == ~Debounced \/ shouldFlushNow(old.lastFlushed, v)
        timer == CASE terminal -> "none"
                   [] ~terminal /\ old.timer = "none" /\ ~old.flushing -> "armed"
                   [] OTHER -> old.timer
    IN  /\ pending' = [pending EXCEPT ![e] =
              [old EXCEPT !.latest = v, !.dirty = TRUE, !.timer = timer]]
        /\ IF terminal
           THEN /\ Goto(Writer, "enter")
                /\ goal' = [goal EXCEPT ![Writer] = v]
                /\ failed' = [failed EXCEPT ![Writer] = FALSE]
           ELSE UNCHANGED <<pc, goal, failed>>

Update ==
    /\ pc[Writer] = "idle"
    /\ accepted < MaxVersion
    /\ accepted' = accepted + 1
    /\ IF entry = 0
       THEN /\ made' = made + 1 /\ entry' = made + 1
            /\ Buffer(accepted + 1, made + 1, NewPending)
       ELSE /\ UNCHANGED <<made, entry>>
            /\ Buffer(accepted + 1, entry, pending[entry])
    /\ UNCHANGED <<row, deleted, obj, snap, again, published, failures>>

(* The timer's goroutine starts; p.timer stays set until someone flushes. *)
TimerFires(t) ==
    /\ pc[t] = "idle"
    /\ entry # 0
    /\ pending[entry].timer = "armed"
    /\ pending' = [pending EXCEPT ![entry].timer = "fired"]
    /\ Goto(t, "enter")
    /\ UNCHANGED <<accepted, row, deleted, entry, made, flushVars, goal,
                   published, failures>>

Flush(f) ==
    /\ pc[f] = "idle"
    /\ Goto(f, "enter")
    /\ goal' = [goal EXCEPT ![f] = accepted]
    /\ UNCHANGED <<accepted, row, deleted, mapVars, flushVars, published, failures>>

(* FlushAll passes over a message with nothing buffered or in flight. *)
FlushAll(f) ==
    /\ pc[f] = "idle"
    /\ IF entry # 0 /\ (pending[entry].dirty \/ pending[entry].flushing)
       THEN Goto(f, "enter")
       ELSE Return(f)
    /\ goal' = [goal EXCEPT ![f] = accepted]
    /\ UNCHANGED <<accepted, row, deleted, mapVars, flushVars, published, failures>>

-----------------------------------------------------------------------------
(* Mistakes: the flag does not keep a second flusher out; a synchronous     *)
(* caller does not wait for a flush that took the last buffered state.      *)
FlushAnyway(a) ==
    /\ pc[a] = "enter"
    /\ entry # 0 /\ pending[entry].dirty
    /\ pending' = [pending EXCEPT ![entry].timer = "none",
                                  ![entry].flushing = TRUE,
                                  ![entry].dirty = FALSE]
    /\ obj' = [obj EXCEPT ![a] = entry]
    /\ snap' = [snap EXCEPT ![a] = pending[entry].latest]
    /\ Goto(a, "write")
    /\ UNCHANGED <<accepted, row, deleted, entry, made, again, failed, goal,
                   published, failures>>
FlushSkipsClean(a) ==
    /\ pc[a] = "enter"
    /\ \/ entry = 0
       \/ entry # 0 /\ pending[entry].flushing /\ a \in Timers
       \/ entry # 0 /\ ~pending[entry].dirty
    /\ Return(a)
    /\ UNCHANGED <<accepted, row, deleted, mapVars, flushVars, goal, published,
                   failures>>

(* flushOne.  A synchronous caller that finds a flush running sleeps and    *)
(* tries again; the timer's goroutine gives up.                             *)
FlushStart(a) ==
    /\ pc[a] = "enter"
    /\ entry # 0 /\ ~pending[entry].flushing /\ pending[entry].dirty
    /\ pending' = [pending EXCEPT ![entry].timer = "none",
                                  ![entry].flushing = TRUE,
                                  ![entry].dirty = FALSE]
    /\ obj' = [obj EXCEPT ![a] = entry]
    /\ snap' = [snap EXCEPT ![a] = pending[entry].latest]
    /\ Goto(a, "write")
    /\ UNCHANGED <<accepted, row, deleted, entry, made, again, failed, goal,
                   published, failures>>

FlushSkips(a) ==
    /\ pc[a] = "enter"
    /\ \/ entry = 0
       \/ entry # 0 /\ pending[entry].flushing /\ a \in Timers
       \/ entry # 0 /\ ~pending[entry].flushing /\ ~pending[entry].dirty
    /\ Return(a)
    /\ UNCHANGED <<accepted, row, deleted, mapVars, flushVars, goal, published,
                   failures>>

(* The SQL update of a row that is gone changes nothing and is no error. *)
Write(a) ==
    /\ pc[a] = "write"
    /\ row' = IF deleted THEN row ELSE snap[a]
    /\ failed' = [failed EXCEPT ![a] = FALSE]
    /\ Goto(a, "written")
    /\ UNCHANGED <<accepted, deleted, mapVars, obj, snap, again, goal,
                   published, failures>>

WriteFails(a) ==
    /\ pc[a] = "write"
    /\ failures < MaxFailures
    /\ failures' = failures + 1
    /\ failed' = [failed EXCEPT ![a] = TRUE]
    /\ Goto(a, "written")
    /\ UNCHANGED <<accepted, row, deleted, mapVars, obj, snap, again, goal,
                   published>>

(* Mistake: the buffer counts as clean when the write is over. *)
FlushDoneClean(a) ==
    /\ pc[a] = "written"
    /\ pending' = [pending EXCEPT ![obj[a]].flushing = FALSE,
                                  ![obj[a]].dirty = failed[a]]
    /\ IF failed[a] THEN Return(a) ELSE Goto(a, "publish")
    /\ UNCHANGED <<accepted, row, deleted, entry, made, flushVars, goal,
                   published, failures>>

FlushDone(a) ==
    /\ pc[a] = "written"
    /\ IF failed[a]
       THEN /\ pending' = [pending EXCEPT ![obj[a]].flushing = FALSE,
                                          ![obj[a]].dirty = TRUE]
            /\ Return(a)
            /\ UNCHANGED again
       ELSE /\ pending' = [pending EXCEPT ![obj[a]].flushing = FALSE,
                                          ![obj[a]].lastFlushed = snap[a]]
            /\ Goto(a, "publish")
            /\ again' = [again EXCEPT ![a] = pending[obj[a]].dirty /\ a \notin Timers]
    /\ UNCHANGED <<accepted, row, deleted, entry, made, obj, snap, failed, goal,
                   published, failures>>

(* The flush is over for everyone else before its state is published. *)
Publish(a) ==
    /\ pc[a] = "publish"
    /\ published' = snap[a]
    /\ IF again[a] THEN Goto(a, "enter") ELSE Return(a)
    /\ UNCHANGED <<accepted, row, deleted, mapVars, flushVars, goal, failures>>

-----------------------------------------------------------------------------
(* Delete reads the row, deletes it, and drops the pendingState. *)
Delete(d) ==
    /\ pc[d] = "idle"
    /\ Goto(d, IF deleted THEN "returned" ELSE "delRow")
    /\ UNCHANGED <<accepted, row, deleted, mapVars, flushVars, goal, published,
                   failures>>

DeleteRow(d) ==
    /\ pc[d] = "delRow"
    /\ deleted' = TRUE
    /\ Goto(d, "delDrop")
    /\ UNCHANGED <<accepted, row, mapVars, flushVars, goal, published, failures>>

DeletePending(d) ==
    /\ pc[d] = "delDrop"
    /\ IF entry # 0
       THEN /\ pending' = [pending EXCEPT ![entry].timer = "none"]
            /\ entry' = 0
       ELSE UNCHANGED <<pending, entry>>
    /\ Goto(d, "returned")
    /\ UNCHANGED <<accepted, row, deleted, made, flushVars, goal, published,
                   failures>>

-----------------------------------------------------------------------------
FlushOne(a) ==
    \/ FlushStart(a) \/ FlushSkips(a) \/ Write(a) \/ WriteFails(a)
    \/ FlushDone(a) \/ Publish(a)

(* Nothing is left to do: every call has returned and no timer is armed. *)
Terminated ==
    /\ \A a \in Flushers \cup Deleters : pc[a] = "returned"
    /\ \A a \in Timers \cup {Writer} : pc[a] = "idle"
    /\ accepted = MaxVersion
    /\ UNCHANGED vars

Next ==
    \/ Update
    \/ \E t \in Timers : TimerFires(t)
    \/ \E f \in Flushers : Flush(f) \/ FlushAll(f)
    \/ \E a \in SyncCallers \cup Timers : FlushOne(a)
    \/ \E d \in Deleters : Delete(d) \/ DeleteRow(d) \/ DeletePending(d)
    \/ Terminated

Spec == Init /\ [][Next]_vars

(* Timers fire and goroutines that flush are scheduled. *)
Fairness ==
    /\ \A t \in Timers : WF_vars(TimerFires(t))
    /\ \A a \in SyncCallers \cup Timers : WF_vars(FlushOne(a))
FairSpec == Spec /\ Fairness

-----------------------------------------------------------------------------
(* Properties. *)

Flushing(a) == pc[a] \in {"write", "written"}

(* The flushing flag serializes the writes of a pendingState, whoever flushes. *)
OneFlusher ==
    \A a, b \in Actors : Flushing(a) /\ Flushing(b) /\ obj[a] = obj[b] => a = b

(* A timer is set only for a buffered state that nobody writes: otherwise   *)
(* the next Update would rely on a timer that is over and arm none.         *)
TimerMeansDirty ==
    \A e \in Entries : pending[e].timer # "none" =>
        pending[e].dirty /\ ~pending[e].flushing

(* What the buffers' bookkeeping rests on. *)
WellFormed == TypeOK /\ OneFlusher /\ TimerMeansDirty

(* A state that is not in the database is buffered or on its way there. *)
NothingForgotten ==
    ~deleted /\ row < accepted =>
        /\ entry # 0
        /\ pending[entry].latest = accepted
        /\ pending[entry].dirty \/ pending[entry].flushing

(* A synchronous flush that reports success has written what was newest     *)
(* when it was called, even if another flusher wrote it or failed meanwhile. *)
FlushIsDurable ==
    \A a \in SyncCallers :
        pc[a] \in {"idle", "returned"} /\ ~failed[a] => deleted \/ row >= goal[a]

(* The finished message reaches the database unless its write failed. *)
FinishedLands ==
    accepted >= FinishedFrom ~> (row >= FinishedFrom \/ deleted \/ failed[Writer])

(* SQL writes never reorder: the service keeps the promise of CoalescedStore. *)
Store ==
    INSTANCE CoalescedStore WITH
        accepted <- accepted,
        row <- row,
        deleted <- deleted

ImplementsStore == Store!StoreSpec

(* When FlushAll has returned, what it found was also published. *)
PublishedOnReturn ==
    \A f \in Flushers : pc[f] = "returned" /\ ~failed[f] =>
        deleted \/ published >= goal[f]
=============================================================================
