------------------------ MODULE MessageServiceProofs ------------------------
(***************************************************************************)
(* Proofs about MessageService.  IInv is inductive.  Its parts say which    *)
(* pendingState a flusher holds (FlusherInv), how the map and the deleted   *)
(* row relate (EntryInv), how the row, the snapshots in flight and the      *)
(* accepted states are ordered (OrderInv), and what a synchronous caller is *)
(* owed while its flush runs (DurableInv).                                  *)
(***************************************************************************)
EXTENDS MessageService, FiniteSetTheorems, TLAPS

Returned == {d \in Deleters : pc[d] = "returned"}

(* Deletes that have not returned cannot have made room for a pendingState. *)
CountInv == made <= Cardinality(Returned) + (IF entry = 0 THEN 0 ELSE 1)

FlusherInv ==
    \A a \in Actors : Flushing(a) =>
        /\ obj[a] <= made
        /\ pending[obj[a]].flushing
        /\ ~pending[obj[a]].dirty => snap[a] = pending[obj[a]].latest

EntryInv ==
    /\ entry # 0 => pending[entry].latest = accepted
    /\ entry = 0 => deleted \/ accepted = 0
    /\ ~deleted => made <= 1 /\ entry = made
    /\ \A d \in Deleters : pc[d] = "delDrop" => deleted

OrderInv ==
    /\ row <= accepted
    /\ \A a \in Actors : snap[a] <= accepted /\ goal[a] <= accepted
    /\ ~deleted => \A a \in Actors :
          /\ pc[a] = "write" => row <= snap[a]
          /\ pc[a] = "written" /\ ~failed[a] => snap[a] <= row
          /\ pc[a] = "publish" => snap[a] <= row

DurableInv ==
    \A a \in SyncCallers :
        pc[a] \in {"write", "written", "publish"} => deleted \/ goal[a] <= snap[a]

IInv ==
    /\ TypeOK /\ CountInv /\ FlusherInv /\ OneFlusher /\ TimerMeansDirty
    /\ EntryInv /\ OrderInv /\ NothingForgotten /\ DurableInv /\ FlushIsDurable

-----------------------------------------------------------------------------
(* Counting the Deletes that returned. *)
LEMMA Counting ==
    /\ Cardinality(Deleters) \in Nat
    /\ IsFiniteSet(Returned)
    /\ Cardinality(Returned) \in Nat
    /\ Cardinality(Returned) <= Cardinality(Deleters)
<1>1. IsFiniteSet(Deleters)
  BY MessageAssumption
<1>2. Returned \subseteq Deleters
  BY DEF Returned
<1> QED
  BY <1>1, <1>2, FS_Subset, FS_CardinalityType

(* A step that lets no Delete return leaves the count alone. *)
LEMMA CountSame ==
    ASSUME \A d \in Deleters : pc'[d] = pc[d]
    PROVE  Returned' = Returned
BY DEF Returned

(* Members of the small sets. *)
LEMMA Members ==
    /\ 0 \in Versions /\ 1 \in Entries /\ Versions \subseteq Nat
    /\ NewPending \in PendingState
    /\ Writer \in Actors /\ Flushers \subseteq Actors /\ Deleters \subseteq Actors
    /\ Timers \subseteq Actors /\ SyncCallers \subseteq Actors
<1>1. 0 \in Versions /\ Versions \subseteq Nat
  BY MessageAssumption DEF Versions
<1>2. 1 \in Entries
  BY Counting DEF Entries
<1>3. NewPending \in PendingState
  BY <1>1 DEF NewPending, PendingState
<1> QED
  BY <1>1, <1>2, <1>3 DEF Actors, SyncCallers

(* What flushOne and Update do to a pendingState. *)
LEMMA PendingTypes ==
    ASSUME NEW p \in PendingState, NEW v \in Versions,
           NEW t \in {"none", "armed", "fired"}, NEW b \in BOOLEAN
    PROVE  /\ [p EXCEPT !.latest = v, !.dirty = TRUE, !.timer = t] \in PendingState
           /\ [p EXCEPT !.timer = t] \in PendingState
           /\ [p EXCEPT !.timer = t, !.flushing = b, !.dirty = FALSE] \in PendingState
           /\ [p EXCEPT !.flushing = b, !.dirty = TRUE] \in PendingState
           /\ [p EXCEPT !.flushing = b, !.lastFlushed = v] \in PendingState
BY DEF PendingState

-----------------------------------------------------------------------------
(* The initial state. *)
LEMMA InitType == Init => TypeOK
<1> SUFFICES ASSUME Init PROVE TypeOK
  OBVIOUS
<1>1. pending \in [Entries -> PendingState]
  BY Members DEF Init
<1>2. /\ accepted \in Versions /\ row \in Versions /\ deleted \in BOOLEAN
      /\ published \in Versions /\ failures \in Nat
  BY Members DEF Init
<1>3. made \in 0..Cardinality(Deleters) + 1 /\ entry \in {0, made}
  BY Counting DEF Init
<1>4. pc \in [Actors -> Labels]
  BY DEF Init, Labels
<1>5. obj \in [Actors -> Entries] /\ snap \in [Actors -> Versions] /\ goal \in [Actors -> Versions]
  BY Members DEF Init
<1>6. again \in [Actors -> BOOLEAN] /\ failed \in [Actors -> BOOLEAN]
  BY DEF Init
<1> QED
  BY <1>1, <1>2, <1>3, <1>4, <1>5, <1>6 DEF TypeOK

LEMMA InitIInv == Init => IInv
<1> SUFFICES ASSUME Init PROVE IInv
  OBVIOUS
<1>1. CountInv
  BY Counting DEF Init, CountInv
<1>2. FlusherInv /\ OneFlusher /\ NothingForgotten /\ DurableInv
  BY Members DEF Init, FlusherInv, OneFlusher, NothingForgotten, DurableInv, Flushing
<1>3. TimerMeansDirty
  BY DEF Init, TimerMeansDirty, NewPending
<1>4. EntryInv
  BY Members DEF Init, EntryInv
<1>5. OrderInv /\ FlushIsDurable
  BY Members DEF Init, OrderInv, FlushIsDurable
<1> QED
  BY <1>1, <1>2, <1>3, <1>4, <1>5, InitType DEF IInv

-----------------------------------------------------------------------------
(* Every step keeps the types. *)
LEMMA TypeStep == TypeOK /\ CountInv /\ [Next]_vars => TypeOK'
<1> SUFFICES ASSUME TypeOK, CountInv, [Next]_vars PROVE TypeOK'
  OBVIOUS
<1> USE Members DEF TypeOK
<1>1. CASE Update
  <2> DEFINE v == accepted + 1
  <2>1. v \in Versions
    BY <1>1, MessageAssumption DEF Update, Versions
  <2>2. ASSUME NEW e \in Entries, NEW p \in PendingState, Buffer(v, e, p)
        PROVE  /\ pending' \in [Entries -> PendingState]
               /\ pc' \in [Actors -> Labels]
               /\ goal' \in [Actors -> Versions]
               /\ failed' \in [Actors -> BOOLEAN]
    <3> DEFINE timer == CASE ~Debounced \/ shouldFlushNow(p.lastFlushed, v) -> "none"
                          [] ~(~Debounced \/ shouldFlushNow(p.lastFlushed, v))
                             /\ p.timer = "none" /\ ~p.flushing -> "armed"
                          [] OTHER -> p.timer
    <3>1. timer \in {"none", "armed", "fired"}
      BY DEF PendingState
    <3>2. [p EXCEPT !.latest = v, !.dirty = TRUE, !.timer = timer] \in PendingState
      BY <2>1, <3>1, PendingTypes
    <3>3. pending' = [pending EXCEPT ![e] =
                        [p EXCEPT !.latest = v, !.dirty = TRUE, !.timer = timer]]
      BY <2>2 DEF Buffer
    <3>4. pending' \in [Entries -> PendingState]
      BY <3>2, <3>3
    <3>5. /\ pc' \in [Actors -> Labels]
          /\ goal' \in [Actors -> Versions]
          /\ failed' \in [Actors -> BOOLEAN]
      BY <2>1, <2>2 DEF Buffer, Goto, Labels
    <3> QED
      BY <3>4, <3>5
  <2>3. CASE entry = 0
    <3>1. made + 1 \in Entries /\ made + 1 \in 0..Cardinality(Deleters) + 1
      BY <2>3, Counting DEF CountInv, Entries
    <3>2. Buffer(v, made + 1, NewPending) /\ made' = made + 1 /\ entry' = made + 1
      BY <1>1, <2>3 DEF Update
    <3> QED
      BY <1>1, <2>1, <2>2, <3>1, <3>2 DEF Update
  <2>4. CASE entry # 0
    <3>1. entry \in Entries /\ pending[entry] \in PendingState
      BY <2>4 DEF Entries
    <3>2. Buffer(v, entry, pending[entry]) /\ UNCHANGED <<made, entry>>
      BY <1>1, <2>4 DEF Update
    <3> QED
      BY <1>1, <2>1, <2>2, <3>1, <3>2 DEF Update
  <2> QED
    BY <2>3, <2>4
<1>2. ASSUME NEW t \in Timers, TimerFires(t) PROVE TypeOK'
  <2>1. entry \in Entries /\ pending[entry] \in PendingState
    BY <1>2 DEF TimerFires, Entries
  <2>2. pending' = [pending EXCEPT ![entry] = [pending[entry] EXCEPT !.timer = "fired"]]
    BY <1>2 DEF TimerFires
  <2>3. pending' \in [Entries -> PendingState]
    BY <2>1, <2>2, PendingTypes
  <2> QED
    BY <1>2, <2>3 DEF TimerFires, Goto, Labels, flushVars
<1>3. ASSUME NEW f \in Flushers, Flush(f) \/ FlushAll(f) PROVE TypeOK'
  BY <1>3 DEF Flush, FlushAll, Goto, Return, Labels, mapVars, flushVars
<1>4. ASSUME NEW a \in SyncCallers \cup Timers, FlushOne(a) PROVE TypeOK'
  <2>1. CASE FlushStart(a)
    <3>1. entry \in Entries
      BY <2>1 DEF FlushStart, Entries
    <3>2. pending' = [pending EXCEPT ![entry] =
             [pending[entry] EXCEPT !.timer = "none", !.flushing = TRUE, !.dirty = FALSE]]
      BY <2>1 DEF FlushStart
    <3>3. pending' \in [Entries -> PendingState]
      BY <3>1, <3>2, PendingTypes
    <3>4. pending[entry].latest \in Versions
      BY <3>1 DEF PendingState
    <3> QED
      BY <2>1, <3>1, <3>3, <3>4 DEF FlushStart, Goto, Labels
  <2>2. CASE FlushSkips(a)
    BY <2>2 DEF FlushSkips, Goto, Return, Labels, mapVars, flushVars
  <2>3. CASE Write(a) \/ WriteFails(a)
    <3>1. snap[a] \in Versions /\ failures + 1 \in Nat
      OBVIOUS
    <3>2. CASE Write(a)
      BY <3>1, <3>2 DEF Write, Goto, Labels, mapVars
    <3>3. CASE WriteFails(a)
      BY <3>1, <3>3 DEF WriteFails, Goto, Labels, mapVars
    <3> QED
      BY <2>3, <3>2, <3>3
  <2>4. CASE FlushDone(a)
    <3>1. obj[a] \in Entries /\ snap[a] \in Versions /\ pending[obj[a]] \in PendingState
      OBVIOUS
    <3>2. \/ pending' = [pending EXCEPT ![obj[a]] =
                 [pending[obj[a]] EXCEPT !.flushing = FALSE, !.dirty = TRUE]]
          \/ pending' = [pending EXCEPT ![obj[a]] =
                 [pending[obj[a]] EXCEPT !.flushing = FALSE, !.lastFlushed = snap[a]]]
      BY <2>4 DEF FlushDone
    <3>3. /\ [pending[obj[a]] EXCEPT !.flushing = FALSE, !.dirty = TRUE] \in PendingState
          /\ [pending[obj[a]] EXCEPT !.flushing = FALSE, !.lastFlushed = snap[a]]
                \in PendingState
      BY <3>1, PendingTypes
    <3>4. pending' \in [Entries -> PendingState]
      BY <3>1, <3>2, <3>3
    <3>5. again' \in [Actors -> BOOLEAN]
      <4>1. (pending[obj[a]].dirty /\ a \notin Timers) \in BOOLEAN
        OBVIOUS
      <4> QED
        BY <2>4, <4>1 DEF FlushDone
    <3> QED
      BY <2>4, <3>4, <3>5 DEF FlushDone, Goto, Return, Labels
  <2>5. CASE Publish(a)
    BY <2>5 DEF Publish, Goto, Return, Labels, mapVars, flushVars
  <2> QED
    BY <1>4, <2>1, <2>2, <2>3, <2>4, <2>5 DEF FlushOne
<1>5. ASSUME NEW d \in Deleters, Delete(d) \/ DeleteRow(d) \/ DeletePending(d)
      PROVE  TypeOK'
  <2>1. CASE Delete(d) \/ DeleteRow(d)
    BY <2>1 DEF Delete, DeleteRow, Goto, Labels, mapVars, flushVars
  <2>2. CASE DeletePending(d)
    <3>1. CASE entry # 0
      <4>1. entry \in Entries
        BY <3>1 DEF Entries
      <4>2. pending' = [pending EXCEPT ![entry] = [pending[entry] EXCEPT !.timer = "none"]]
        BY <2>2, <3>1 DEF DeletePending
      <4>3. pending' \in [Entries -> PendingState]
        BY <4>1, <4>2, PendingTypes
      <4> QED
        BY <2>2, <3>1, <4>3 DEF DeletePending, Goto, Labels, flushVars
    <3>2. CASE entry = 0
      BY <2>2, <3>2 DEF DeletePending, Goto, Labels, flushVars
    <3> QED
      BY <3>1, <3>2
  <2> QED
    BY <1>5, <2>1, <2>2
<1>6. CASE UNCHANGED vars
  BY <1>6 DEF vars, mapVars, flushVars
<1> QED
  BY <1>1, <1>2, <1>3, <1>4, <1>5, <1>6 DEF Next, Terminated

-----------------------------------------------------------------------------
(* The numbers of the state are numbers; whoever is not a deleter counts    *)
(* for nothing in Returned.                                                 *)
LEMMA Numbers ==
    ASSUME TypeOK
    PROVE  /\ accepted \in Nat /\ row \in Nat /\ made \in Nat /\ entry \in Nat
           /\ entry # 0 => entry = made /\ entry \in Entries
           /\ \A a \in Actors : snap[a] \in Nat /\ goal[a] \in Nat /\ obj[a] \in Nat \ {0}
           /\ \A e \in Entries : pending[e] \in PendingState
<1>1. accepted \in Nat /\ row \in Nat /\ made \in Nat /\ entry \in Nat
  BY Members, Counting DEF TypeOK
<1>2. entry # 0 => entry = made /\ entry \in Entries
  BY Counting DEF TypeOK, Entries
<1>3. Entries \subseteq Nat \ {0}
  BY Counting DEF Entries
<1>4. \A a \in Actors : snap[a] \in Nat /\ goal[a] \in Nat /\ obj[a] \in Nat \ {0}
  BY <1>3, Members DEF TypeOK
<1>5. \A e \in Entries : pending[e] \in PendingState
  BY DEF TypeOK
<1> QED
  BY <1>1, <1>2, <1>4, <1>5

LEMMA NotDeleters ==
    ASSUME NEW a \in SyncCallers \cup Timers
    PROVE  a \in Actors /\ a \notin Deleters
BY Members, MessageAssumption DEF SyncCallers

(* Actions of callers and timers leave the count of Deletes alone. *)
LEMMA CountStep ==
    ASSUME TypeOK, CountInv, NEW a \in SyncCallers \cup Timers, NEW l,
           pc' = [pc EXCEPT ![a] = l], UNCHANGED <<entry, made>>
    PROVE  CountInv'
<1>1. \A d \in Deleters : pc'[d] = pc[d]
  BY NotDeleters, Members DEF TypeOK
<1> QED
  BY <1>1, CountSame DEF CountInv

-----------------------------------------------------------------------------
(* Update: the writer is no flusher, and the state it buffers makes the     *)
(* pendingState dirty.                                                      *)
LEMMA UpdateStep == IInv /\ Update /\ TypeOK' => IInv'
<1> SUFFICES ASSUME IInv, Update, TypeOK' PROVE IInv'
  OBVIOUS
<1> USE Members DEF IInv
<1> DEFINE e == entry'
           p == IF entry = 0 THEN NewPending ELSE pending[entry]
<1>1. /\ e \in Entries /\ p \in PendingState
      /\ e = IF entry = 0 THEN made + 1 ELSE entry
      /\ made' = e /\ e # 0 /\ made' >= made
  BY Numbers DEF Update, TypeOK, Entries
<1>2. Buffer(accepted + 1, e, p)
  BY DEF Update
<1>3. PICK t : /\ pending' = [pending EXCEPT ![e] =
                        [p EXCEPT !.latest = accepted + 1, !.dirty = TRUE, !.timer = t]]
               /\ t # "none" => p.timer # "none" \/ ~p.flushing
  BY <1>2 DEF Buffer
<1>4. /\ pending'[e].latest = accepted + 1 /\ pending'[e].dirty
      /\ pending'[e].flushing = p.flushing /\ pending'[e].timer = t
      /\ \A o \in Entries : o # e => pending'[o] = pending[o]
  BY <1>1, <1>3 DEF TypeOK, PendingState
<1>5. /\ pc[Writer] = "idle" /\ pc'[Writer] \in {"idle", "enter"}
      /\ \A a \in Actors : a # Writer =>
            pc'[a] = pc[a] /\ goal'[a] = goal[a] /\ failed'[a] = failed[a]
      /\ pc'[Writer] = "idle" => goal' = goal /\ failed' = failed
      /\ goal'[Writer] \in {goal[Writer], accepted + 1}
  BY <1>2 DEF Update, Buffer, Goto, TypeOK
<1>6. /\ accepted' = accepted + 1
      /\ UNCHANGED <<row, deleted, obj, snap, again, published, failures>>
  BY DEF Update
<1>7. CountInv'
  <2>1. \A d \in Deleters : pc'[d] = pc[d]
    BY <1>5, MessageAssumption
  <2> QED
    BY <1>1, <2>1, CountSame, Counting, Numbers DEF CountInv, TypeOK
<1>8. FlusherInv' /\ OneFlusher'
  <2>1. \A a \in Actors : Flushing(a)' <=> Flushing(a)
    BY <1>5 DEF Flushing
  <2>2. ASSUME NEW a \in Actors, Flushing(a)
        PROVE  /\ obj[a] <= made'
               /\ pending'[obj[a]].flushing
               /\ ~pending'[obj[a]].dirty => snap[a] = pending'[obj[a]].latest
    <3>1. obj[a] <= made /\ obj[a] \in Entries /\ obj[a] \in Nat
      BY <2>2, Numbers DEF FlusherInv, TypeOK
    <3>2. CASE obj[a] = e
      <4>1. entry # 0 /\ p = pending[obj[a]]
        BY <1>1, <3>1, <3>2, Numbers
      <4> QED
        BY <1>1, <1>4, <2>2, <3>1, <3>2, <4>1, Numbers DEF FlusherInv
    <3>3. CASE obj[a] # e
      BY <1>1, <1>4, <2>2, <3>1, <3>3, Numbers DEF FlusherInv
    <3> QED
      BY <3>2, <3>3
  <2> QED
    BY <1>6, <2>1, <2>2 DEF FlusherInv, OneFlusher
<1>9. TimerMeansDirty'
  <2>1. t # "none" => ~p.flushing
    BY <1>1, <1>3 DEF TimerMeansDirty, NewPending
  <2> QED
    BY <1>4, <2>1 DEF TimerMeansDirty
<1>10. EntryInv' /\ NothingForgotten'
  <2>1. \A d \in Deleters : pc'[d] = pc[d]
    BY <1>5, MessageAssumption
  <2> QED
    BY <1>1, <1>4, <1>6, <2>1, Numbers DEF EntryInv, NothingForgotten
<1>11. OrderInv'
  <2>1. \A a \in Actors : pc'[a] \in {"write", "written", "publish"} =>
                              pc'[a] = pc[a] /\ failed'[a] = failed[a]
    BY <1>5
  <2>2. \A a \in Actors : snap[a] <= accepted + 1 /\ goal'[a] <= accepted + 1
    BY <1>5, Numbers DEF OrderInv
  <2> QED
    BY <1>6, <2>1, <2>2, Numbers DEF OrderInv
<1>12. DurableInv'
  BY <1>5, <1>6 DEF DurableInv
<1>13. FlushIsDurable'
  BY <1>5, <1>6 DEF FlushIsDurable
<1> QED
  BY <1>7, <1>8, <1>9, <1>10, <1>11, <1>12, <1>13

-----------------------------------------------------------------------------
(* The timer's goroutine: only the timer of the entry changes. *)
LEMMA TimerStep ==
    ASSUME IInv, NEW t \in Timers, TimerFires(t), TypeOK'
    PROVE  IInv'
<1> USE Members, MessageAssumption DEF IInv
<1>1. /\ entry # 0 /\ entry \in Entries /\ pending[entry] \in PendingState
      /\ pending[entry].timer = "armed"
      /\ pending' = [pending EXCEPT ![entry] = [pending[entry] EXCEPT !.timer = "fired"]]
  BY Numbers DEF TimerFires
<1>2. \A o \in Entries : /\ pending'[o].latest = pending[o].latest
                         /\ pending'[o].dirty = pending[o].dirty
                         /\ pending'[o].flushing = pending[o].flushing
                         /\ pending'[o].timer # "none" => pending[o].timer # "none"
  BY <1>1 DEF TypeOK, PendingState
<1>3. /\ pc' = [pc EXCEPT ![t] = "enter"] /\ pc[t] = "idle" /\ t \in Actors
      /\ t \notin SyncCallers
      /\ UNCHANGED <<accepted, row, deleted, entry, made, obj, snap, again, failed, goal>>
  BY DEF TimerFires, Goto, flushVars, SyncCallers
<1>4. /\ \A a \in Actors : a # t => pc'[a] = pc[a]
      /\ pc'[t] = "enter"
  BY <1>3 DEF TypeOK
<1>5. CountInv'
  BY <1>3, CountStep
<1>6. FlusherInv' /\ OneFlusher'
  <2>1. \A a \in Actors : Flushing(a)' <=> Flushing(a)
    BY <1>3, <1>4 DEF Flushing
  <2>2. \A a \in Actors : obj[a] \in Entries
    BY DEF TypeOK
  <2> QED
    BY <1>2, <1>3, <2>1, <2>2 DEF FlusherInv, OneFlusher
<1>7. TimerMeansDirty'
  BY <1>2 DEF TimerMeansDirty
<1>8. EntryInv' /\ NothingForgotten'
  <2>1. \A d \in Deleters : pc'[d] = pc[d]
    BY <1>4
  <2> QED
    BY <1>1, <1>2, <1>3, <2>1 DEF EntryInv, NothingForgotten
<1>9. OrderInv'
  BY <1>3, <1>4 DEF OrderInv
<1>10. DurableInv' /\ FlushIsDurable'
  <2>1. \A a \in SyncCallers : pc'[a] = pc[a]
    BY <1>3, <1>4
  <2> QED
    BY <1>3, <2>1 DEF DurableInv, FlushIsDurable
<1> QED
  BY <1>5, <1>6, <1>7, <1>8, <1>9, <1>10

(* A call that starts, or that finds nothing to flush, moves nobody but     *)
(* itself; when it returns at once the row holds what was newest.           *)
LEMMA CallStep ==
    ASSUME IInv, TypeOK', NEW a \in SyncCallers \cup Timers,
           pc[a] \in {"idle", "enter"}, pc'[a] \in {"idle", "enter", "returned"},
           NEW l, pc' = [pc EXCEPT ![a] = l],
           \A b \in Actors : b # a => goal'[b] = goal[b],
           goal'[a] <= accepted,
           a \in SyncCallers /\ pc'[a] # "enter" => deleted \/ row >= goal'[a],
           UNCHANGED <<accepted, row, deleted, mapVars, flushVars>>
    PROVE  IInv'
<1> USE Members, NotDeleters DEF IInv, mapVars, flushVars
<1>1. \A b \in Actors : b # a => pc'[b] = pc[b]
  BY DEF TypeOK
<1>2. CountInv'
  BY CountStep
<1>3. FlusherInv' /\ OneFlusher' /\ TimerMeansDirty' /\ NothingForgotten'
  <2>1. \A b \in Actors : Flushing(b)' <=> Flushing(b)
    BY <1>1 DEF Flushing
  <2> QED
    BY <2>1 DEF FlusherInv, OneFlusher, TimerMeansDirty, NothingForgotten
<1>4. EntryInv'
  BY <1>1 DEF EntryInv
<1>5. OrderInv'
  BY <1>1 DEF OrderInv
<1>6. DurableInv' /\ FlushIsDurable'
  BY <1>1 DEF DurableInv, FlushIsDurable
<1> QED
  BY <1>2, <1>3, <1>4, <1>5, <1>6

(* The row holds the newest state when nothing is buffered or in flight. *)
LEMMA CleanMeansStored ==
    ASSUME IInv, entry # 0 => ~pending[entry].dirty /\ ~pending[entry].flushing
    PROVE  deleted \/ row >= accepted
BY Numbers DEF IInv, EntryInv, NothingForgotten

LEMMA FlushCallStep ==
    ASSUME IInv, NEW f \in Flushers, Flush(f) \/ FlushAll(f), TypeOK'
    PROVE  IInv'
<1> USE DEF IInv
<1>1. f \in SyncCallers \cup Timers /\ f \in Actors
  BY Members DEF SyncCallers
<1>2. /\ pc[f] = "idle" /\ goal' = [goal EXCEPT ![f] = accepted]
      /\ UNCHANGED <<accepted, row, deleted, mapVars, flushVars>>
  BY DEF Flush, FlushAll
<1>3. \/ pc' = [pc EXCEPT ![f] = "enter"]
      \/ /\ pc' = [pc EXCEPT ![f] = "returned"]
         /\ ~(entry # 0 /\ (pending[entry].dirty \/ pending[entry].flushing))
  BY DEF Flush, FlushAll, Goto, Return
<1>4. /\ goal'[f] = accepted
      /\ \A b \in Actors : b # f => goal'[b] = goal[b]
      /\ goal'[f] <= accepted
  BY <1>1, <1>2, Numbers DEF TypeOK
<1>5. CASE pc' = [pc EXCEPT ![f] = "enter"]
  <2>1. pc'[f] = "enter"
    BY <1>1, <1>5 DEF TypeOK
  <2> QED
    BY <1>1, <1>2, <1>4, <1>5, <2>1, CallStep
<1>6. CASE /\ pc' = [pc EXCEPT ![f] = "returned"]
           /\ ~(entry # 0 /\ (pending[entry].dirty \/ pending[entry].flushing))
  <2>1. pc'[f] = "returned"
    BY <1>1, <1>6 DEF TypeOK
  <2>2. deleted \/ row >= accepted
    BY <1>6, CleanMeansStored
  <2> QED
    BY <1>1, <1>2, <1>4, <1>6, <2>1, <2>2, CallStep
<1> QED
  BY <1>3, <1>5, <1>6

LEMMA FlushSkipsStep ==
    ASSUME IInv, NEW a \in SyncCallers \cup Timers, FlushSkips(a), TypeOK'
    PROVE  IInv'
<1> USE NotDeleters DEF IInv
<1> DEFINE l == IF a \in Flushers THEN "returned" ELSE "idle"
<1>1. /\ pc[a] = "enter" /\ pc' = [pc EXCEPT ![a] = l]
      /\ UNCHANGED <<accepted, row, deleted, mapVars, flushVars, goal>>
  BY DEF FlushSkips, Return, Goto
<1>2. pc'[a] = l
  BY <1>1 DEF TypeOK
<1>3. goal'[a] = goal[a] /\ goal[a] <= accepted
  BY <1>1 DEF OrderInv
<1>4. ASSUME a \in SyncCallers
      PROVE  deleted \/ row >= goal'[a]
  <2>1. entry # 0 => ~pending[entry].dirty /\ ~pending[entry].flushing
    BY <1>4, MessageAssumption DEF FlushSkips, SyncCallers
  <2> QED
    BY <1>3, <2>1, CleanMeansStored, Numbers
<1> QED
  BY <1>1, <1>2, <1>3, <1>4, CallStep

-----------------------------------------------------------------------------
(* A flush starts on an entry nobody flushes and takes its newest state. *)
LEMMA FlushStartStep ==
    ASSUME IInv, NEW a \in SyncCallers \cup Timers, FlushStart(a), TypeOK'
    PROVE  IInv'
<1> USE Members, NotDeleters DEF IInv
<1>1. /\ entry # 0 /\ entry \in Entries /\ entry = made /\ pending[entry] \in PendingState
      /\ ~pending[entry].flushing /\ pending[entry].dirty
      /\ pending' = [pending EXCEPT ![entry] =
             [pending[entry] EXCEPT !.timer = "none", !.flushing = TRUE, !.dirty = FALSE]]
  BY Numbers DEF FlushStart
<1>2. /\ pending'[entry].latest = pending[entry].latest
      /\ pending'[entry].flushing /\ ~pending'[entry].dirty
      /\ pending'[entry].timer = "none"
      /\ \A o \in Entries : o # entry => pending'[o] = pending[o]
  BY <1>1 DEF TypeOK, PendingState
<1>3. /\ pc[a] = "enter" /\ pc' = [pc EXCEPT ![a] = "write"]
      /\ obj' = [obj EXCEPT ![a] = entry]
      /\ snap' = [snap EXCEPT ![a] = pending[entry].latest]
      /\ UNCHANGED <<accepted, row, deleted, entry, made, again, failed, goal>>
  BY DEF FlushStart, Goto
<1>4. /\ pc'[a] = "write" /\ obj'[a] = entry /\ snap'[a] = pending[entry].latest
      /\ \A b \in Actors : b # a =>
            pc'[b] = pc[b] /\ obj'[b] = obj[b] /\ snap'[b] = snap[b]
  BY <1>3 DEF TypeOK
<1>5. pending[entry].latest = accepted
  BY <1>1 DEF EntryInv
<1>6. CountInv'
  BY <1>3, CountStep
<1>7. \A b \in Actors : Flushing(b)' <=> Flushing(b) \/ b = a
  BY <1>3, <1>4 DEF Flushing
<1>8. \A b \in Actors : Flushing(b) => obj[b] \in Entries /\ obj[b] # entry
  BY <1>1 DEF FlusherInv, TypeOK
<1>9. ~Flushing(a)
  BY <1>3 DEF Flushing
<1>10. FlusherInv'
  <2>1. ASSUME NEW b \in Actors, b # a, Flushing(b)
        PROVE  /\ obj'[b] <= made
               /\ pending'[obj'[b]].flushing
               /\ ~pending'[obj'[b]].dirty => snap'[b] = pending'[obj'[b]].latest
    BY <1>2, <1>4, <1>8, <2>1 DEF FlusherInv
  <2>2. /\ obj'[a] <= made
        /\ pending'[obj'[a]].flushing
        /\ ~pending'[obj'[a]].dirty => snap'[a] = pending'[obj'[a]].latest
    BY <1>1, <1>2, <1>4, Numbers
  <2> QED
    BY <1>3, <1>7, <2>1, <2>2 DEF FlusherInv
<1>11. OneFlusher'
  BY <1>4, <1>7, <1>8 DEF OneFlusher
<1>12. TimerMeansDirty'
  BY <1>2 DEF TimerMeansDirty
<1>13. EntryInv' /\ NothingForgotten'
  BY <1>1, <1>2, <1>3, <1>4 DEF EntryInv, NothingForgotten
<1>14. OrderInv'
  BY <1>3, <1>4, <1>5, Numbers DEF OrderInv
<1>15. DurableInv'
  BY <1>3, <1>4, <1>5 DEF DurableInv, OrderInv
<1>16. FlushIsDurable'
  BY <1>3, <1>4 DEF FlushIsDurable
<1> QED
  BY <1>6, <1>10, <1>11, <1>12, <1>13, <1>14, <1>15, <1>16

(* Until the row is deleted one pendingState is made, so one goroutine at a *)
(* time is between taking a state and having written it.                    *)
LEMMA OneWriter ==
    ASSUME IInv, ~deleted, NEW a \in Actors, NEW b \in Actors, Flushing(a), Flushing(b)
    PROVE  a = b
<1>1. obj[a] = 1 /\ obj[b] = 1
  BY Numbers DEF IInv, FlusherInv, EntryInv
<1> QED
  BY <1>1 DEF IInv, OneFlusher

LEMMA WriteStep ==
    ASSUME IInv, NEW a \in SyncCallers \cup Timers, Write(a), TypeOK'
    PROVE  IInv' /\ (deleted => row' = row) /\ row <= row' /\ row' <= accepted
<1> USE Members, NotDeleters DEF IInv
<1>1. /\ pc[a] = "write" /\ pc' = [pc EXCEPT ![a] = "written"]
      /\ row' = IF deleted THEN row ELSE snap[a]
      /\ failed' = [failed EXCEPT ![a] = FALSE]
      /\ UNCHANGED <<accepted, deleted, mapVars, obj, snap, again, goal>>
  BY DEF Write, Goto
<1>2. /\ pc'[a] = "written" /\ failed'[a] = FALSE
      /\ \A b \in Actors : b # a => pc'[b] = pc[b] /\ failed'[b] = failed[b]
  BY <1>1 DEF TypeOK
<1>3. row <= row' /\ row' <= accepted
  BY <1>1, Numbers DEF OrderInv
<1>4. CountInv'
  BY <1>1, CountStep DEF mapVars
<1>5. FlusherInv' /\ OneFlusher' /\ TimerMeansDirty'
  <2>1. \A b \in Actors : Flushing(b)' <=> Flushing(b)
    BY <1>1, <1>2 DEF Flushing
  <2> QED
    BY <1>1, <2>1 DEF FlusherInv, OneFlusher, TimerMeansDirty, mapVars
<1>6. EntryInv'
  BY <1>1, <1>2 DEF EntryInv, mapVars
<1>7. NothingForgotten'
  BY <1>1, <1>3, Numbers DEF NothingForgotten, mapVars
<1>8. OrderInv'
  <2>1. ASSUME ~deleted, NEW b \in Actors
        PROVE  /\ pc'[b] = "write" => row' <= snap[b]
               /\ pc'[b] = "written" /\ ~failed'[b] => snap[b] <= row'
               /\ pc'[b] = "publish" => snap[b] <= row'
    <3>1. CASE b = a
      BY <1>1, <1>2, <2>1, <3>1, Numbers
    <3>2. CASE b # a
      <4>1. Flushing(a) /\ (pc[b] \in {"write", "written"} => Flushing(b))
        BY <1>1 DEF Flushing
      <4>2. pc[b] \notin {"write", "written"}
        BY <2>1, <3>2, <4>1, OneWriter
      <4>3. pc[b] = "publish" => snap[b] <= row
        BY <2>1 DEF OrderInv
      <4>4. row \in Nat /\ row' \in Nat /\ snap[b] \in Nat /\ pc'[b] = pc[b]
        BY <1>1, <1>2, <3>2, Numbers
      <4> QED
        BY <1>3, <4>2, <4>3, <4>4
    <3> QED
      BY <3>1, <3>2
  <2> QED
    BY <1>1, <1>3, <2>1 DEF OrderInv
<1>9. DurableInv'
  BY <1>1, <1>2 DEF DurableInv
<1>10. FlushIsDurable'
  BY <1>1, <1>2, <1>3, Numbers DEF FlushIsDurable
<1> QED
  BY <1>1, <1>3, <1>4, <1>5, <1>6, <1>7, <1>8, <1>9, <1>10

LEMMA WriteFailsStep ==
    ASSUME IInv, NEW a \in SyncCallers \cup Timers, WriteFails(a), TypeOK'
    PROVE  IInv'
<1> USE Members, NotDeleters DEF IInv
<1>1. /\ pc[a] = "write" /\ pc' = [pc EXCEPT ![a] = "written"]
      /\ failed' = [failed EXCEPT ![a] = TRUE]
      /\ UNCHANGED <<accepted, row, deleted, mapVars, obj, snap, again, goal>>
  BY DEF WriteFails, Goto
<1>2. /\ pc'[a] = "written" /\ failed'[a] = TRUE
      /\ \A b \in Actors : b # a => pc'[b] = pc[b] /\ failed'[b] = failed[b]
  BY <1>1 DEF TypeOK
<1>3. CountInv'
  BY <1>1, CountStep DEF mapVars
<1>4. FlusherInv' /\ OneFlusher' /\ TimerMeansDirty' /\ NothingForgotten'
  <2>1. \A b \in Actors : Flushing(b)' <=> Flushing(b)
    BY <1>1, <1>2 DEF Flushing
  <2> QED
    BY <1>1, <2>1 DEF FlusherInv, OneFlusher, TimerMeansDirty, NothingForgotten, mapVars
<1>5. EntryInv' /\ OrderInv'
  BY <1>1, <1>2 DEF EntryInv, OrderInv, mapVars
<1>6. DurableInv' /\ FlushIsDurable'
  BY <1>1, <1>2 DEF DurableInv, FlushIsDurable
<1> QED
  BY <1>3, <1>4, <1>5, <1>6

(* The flush is over: what arrived meanwhile keeps the pendingState dirty,  *)
(* and otherwise the row holds its newest state.                            *)
LEMMA FlushDoneStep ==
    ASSUME IInv, NEW a \in SyncCallers \cup Timers, FlushDone(a), TypeOK'
    PROVE  IInv'
<1> USE Members, NotDeleters DEF IInv
<1> DEFINE o == obj[a]
<1>1. /\ o \in Entries /\ o \in Nat /\ pending[o] \in PendingState /\ o <= made
      /\ Flushing(a) /\ pending[o].flushing /\ pending[o].timer = "none"
      /\ ~pending[o].dirty => snap[a] = pending[o].latest
  BY Numbers DEF FlushDone, Flushing, FlusherInv, TimerMeansDirty, TypeOK
<1>2. /\ pending'[o].latest = pending[o].latest /\ ~pending'[o].flushing
      /\ pending'[o].timer = "none"
      /\ pending'[o].dirty = IF failed[a] THEN TRUE ELSE pending[o].dirty
      /\ \A e \in Entries : e # o => pending'[e] = pending[e]
  <2>1. CASE failed[a]
    <3>1. pending' = [pending EXCEPT ![o] =
                        [pending[o] EXCEPT !.flushing = FALSE, !.dirty = TRUE]]
      BY <2>1 DEF FlushDone
    <3> QED
      BY <1>1, <2>1, <3>1 DEF TypeOK, PendingState
  <2>2. CASE ~failed[a]
    <3>1. pending' = [pending EXCEPT ![o] =
                        [pending[o] EXCEPT !.flushing = FALSE, !.lastFlushed = snap[a]]]
      BY <2>2 DEF FlushDone
    <3> QED
      BY <1>1, <2>2, <3>1 DEF TypeOK, PendingState
  <2> QED
    BY <2>1, <2>2
<1>3. PICK l : /\ pc' = [pc EXCEPT ![a] = l]
               /\ failed[a] => l \in {"idle", "returned"}
               /\ ~failed[a] => l = "publish"
  BY DEF FlushDone, Return, Goto
<1>4. /\ pc[a] = "written" /\ pc'[a] = l
      /\ \A b \in Actors : b # a => pc'[b] = pc[b]
      /\ UNCHANGED <<accepted, row, deleted, entry, made, obj, snap, failed, goal>>
  BY <1>3 DEF FlushDone, TypeOK
<1>5. CountInv'
  BY <1>3, <1>4, CountStep
<1>6. \A b \in Actors : Flushing(b)' <=> Flushing(b) /\ b # a
  BY <1>3, <1>4 DEF Flushing
<1>7. \A b \in Actors : Flushing(b) /\ b # a => obj[b] \in Entries /\ obj[b] # o
  BY <1>1 DEF OneFlusher, TypeOK
<1>8. FlusherInv' /\ OneFlusher'
  BY <1>2, <1>4, <1>6, <1>7 DEF FlusherInv, OneFlusher
<1>9. TimerMeansDirty'
  BY <1>2 DEF TimerMeansDirty
<1>10. EntryInv'
  BY <1>1, <1>2, <1>4, Numbers DEF EntryInv
<1>11. NothingForgotten'
  <2>1. ASSUME ~deleted, row < accepted
        PROVE  entry # 0 /\ entry = o /\ pending'[o].latest = accepted /\ pending'[o].dirty
    <3>1. entry # 0 /\ entry \in Entries /\ pending[entry].latest = accepted
      BY <2>1, Numbers DEF NothingForgotten
    <3>2. entry = o
      BY <1>1, <2>1, <3>1, Numbers DEF EntryInv
    <3>3. pending[o].dirty \/ failed[a]
      <4>1. ~failed[a] => snap[a] <= row
        BY <1>4, <2>1 DEF OrderInv
      <4> QED
        BY <1>1, <2>1, <3>1, <3>2, <4>1, Numbers
    <3> QED
      BY <1>2, <3>1, <3>2, <3>3
  <2> QED
    BY <1>4, <2>1 DEF NothingForgotten
<1>12. OrderInv'
  BY <1>3, <1>4 DEF OrderInv
<1>13. DurableInv'
  BY <1>3, <1>4 DEF DurableInv
<1>14. FlushIsDurable'
  BY <1>3, <1>4 DEF FlushIsDurable
<1> QED
  BY <1>5, <1>8, <1>9, <1>10, <1>11, <1>12, <1>13, <1>14

LEMMA PublishStep ==
    ASSUME IInv, NEW a \in SyncCallers \cup Timers, Publish(a), TypeOK'
    PROVE  IInv'
<1> USE Members, NotDeleters DEF IInv
<1>1. PICK l \in {"enter", "idle", "returned"} : pc' = [pc EXCEPT ![a] = l]
  BY DEF Publish, Return, Goto
<1>2. /\ pc[a] = "publish" /\ pc'[a] = l
      /\ \A b \in Actors : b # a => pc'[b] = pc[b]
      /\ UNCHANGED <<accepted, row, deleted, pending, entry, made, obj, snap, failed, goal>>
  BY <1>1 DEF Publish, mapVars, flushVars, TypeOK
<1>3. CountInv'
  BY <1>1, <1>2, CountStep
<1>4. FlusherInv' /\ OneFlusher' /\ TimerMeansDirty' /\ NothingForgotten'
  <2>1. \A b \in Actors : Flushing(b)' <=> Flushing(b)
    BY <1>1, <1>2 DEF Flushing
  <2> QED
    BY <1>2, <2>1 DEF FlusherInv, OneFlusher, TimerMeansDirty, NothingForgotten
<1>5. EntryInv' /\ OrderInv'
  BY <1>2 DEF EntryInv, OrderInv
<1>6. DurableInv'
  BY <1>1, <1>2 DEF DurableInv
<1>7. FlushIsDurable'
  <2>1. a \in SyncCallers => deleted \/ (goal[a] <= snap[a] /\ snap[a] <= row)
    BY <1>2 DEF DurableInv, OrderInv
  <2> QED
    BY <1>2, <2>1, Numbers DEF FlushIsDurable
<1> QED
  BY <1>3, <1>4, <1>5, <1>6, <1>7

-----------------------------------------------------------------------------
(* Delete: the row goes first, then the pendingState; the Deletes that      *)
(* return count for the pendingStates that Updates after them make.         *)
LEMMA DeleteStep ==
    ASSUME IInv, NEW d \in Deleters, Delete(d) \/ DeleteRow(d) \/ DeletePending(d), TypeOK'
    PROVE  IInv'
<1> USE Members, MessageAssumption DEF IInv
<1>1. d \in Actors /\ d \notin SyncCallers
  BY DEF SyncCallers
<1>2. PICK l \in {"returned", "delRow", "delDrop"} :
        /\ pc' = [pc EXCEPT ![d] = l]
        /\ l = "delDrop" => deleted'
        /\ DeletePending(d) => l = "returned"
  BY DEF Delete, DeleteRow, DeletePending, Goto
<1>3. /\ pc[d] \in {"idle", "delRow", "delDrop"} /\ pc'[d] = l
      /\ \A b \in Actors : b # d => pc'[b] = pc[b]
      /\ UNCHANGED <<accepted, row, made, obj, snap, failed, goal>>
      /\ deleted => deleted'
      /\ entry' = entry \/ (entry' = 0 /\ deleted /\ DeletePending(d))
  BY <1>1, <1>2 DEF Delete, DeleteRow, DeletePending, mapVars, flushVars, TypeOK, EntryInv
<1>4. \A e \in Entries : /\ pending'[e].latest = pending[e].latest
                         /\ pending'[e].dirty = pending[e].dirty
                         /\ pending'[e].flushing = pending[e].flushing
                         /\ pending'[e].timer # "none" => pending[e].timer # "none"
  <2>1. CASE pending' = pending
    BY <2>1
  <2>2. CASE pending' # pending
    <3>1. /\ entry # 0 /\ entry \in Entries /\ pending[entry] \in PendingState
          /\ pending' = [pending EXCEPT ![entry] = [pending[entry] EXCEPT !.timer = "none"]]
      BY <2>2, Numbers DEF Delete, DeleteRow, DeletePending, mapVars
    <3> QED
      BY <3>1 DEF TypeOK, PendingState
  <2> QED
    BY <2>1, <2>2
<1>5. CountInv'
  <2>1. \/ Returned' = Returned
        \/ Returned' = Returned \cup {d} /\ d \notin Returned
    BY <1>2, <1>3 DEF Returned
  <2>2. DeletePending(d) => d \notin Returned /\ d \in Returned'
    BY <1>2, <1>3 DEF Returned
  <2>3. /\ Cardinality(Returned)' \in Nat
        /\ Cardinality(Returned)' >= Cardinality(Returned)
        /\ DeletePending(d) => Cardinality(Returned)' >= Cardinality(Returned) + 1
    <3>1. CASE Returned' = Returned
      BY <2>2, <3>1, Counting
    <3>2. CASE Returned' = Returned \cup {d} /\ d \notin Returned
      <4>1. Cardinality(Returned \cup {d}) = Cardinality(Returned) + 1
        BY <3>2, Counting, FS_AddElement
      <4> QED
        BY <3>2, <4>1, Counting
    <3> QED
      BY <2>1, <3>1, <3>2
  <2> QED
    BY <1>3, <2>3, Counting, Numbers DEF CountInv
<1>6. FlusherInv' /\ OneFlusher' /\ TimerMeansDirty'
  <2>1. \A b \in Actors : Flushing(b)' <=> Flushing(b)
    BY <1>2, <1>3 DEF Flushing
  <2>2. \A b \in Actors : obj[b] \in Entries
    BY DEF TypeOK
  <2> QED
    BY <1>3, <1>4, <2>1, <2>2 DEF FlusherInv, OneFlusher, TimerMeansDirty
<1>7. EntryInv'
  <2>1. entry # 0 => entry \in Entries
    BY Numbers
  <2> QED
    BY <1>2, <1>3, <1>4, <2>1 DEF EntryInv
<1>8. NothingForgotten'
  <2>1. entry # 0 => entry \in Entries
    BY Numbers
  <2> QED
    BY <1>3, <1>4, <2>1 DEF NothingForgotten
<1>9. OrderInv'
  BY <1>2, <1>3 DEF OrderInv
<1>10. DurableInv' /\ FlushIsDurable'
  BY <1>1, <1>3 DEF DurableInv, FlushIsDurable
<1> QED
  BY <1>5, <1>6, <1>7, <1>8, <1>9, <1>10

-----------------------------------------------------------------------------
(* The induction. *)
LEMMA Inductive == IInv /\ [Next]_vars => IInv'
<1> SUFFICES ASSUME IInv, [Next]_vars PROVE IInv'
  OBVIOUS
<1>1. TypeOK'
  BY TypeStep DEF IInv
<1>2. ASSUME NEW a \in SyncCallers \cup Timers, FlushOne(a) PROVE IInv'
  BY <1>1, <1>2, FlushStartStep, FlushSkipsStep, WriteStep, WriteFailsStep,
     FlushDoneStep, PublishStep DEF FlushOne
<1>3. CASE UNCHANGED vars
  <2>1. Returned' = Returned
    BY <1>3 DEF vars, Returned
  <2> QED
    BY <1>1, <1>3, <2>1 DEF vars, mapVars, flushVars, IInv, CountInv, FlusherInv,
       OneFlusher, Flushing, TimerMeansDirty, EntryInv, OrderInv, NothingForgotten,
       DurableInv, FlushIsDurable
<1> QED
  BY <1>1, <1>2, <1>3, UpdateStep, TimerStep, FlushCallStep, DeleteStep
  DEF Next, Terminated

(* IInv holds of every reachable state of message.go's service. *)
THEOREM Invariance == Spec => []IInv
<1> QED
  BY InitIInv, Inductive, PTL DEF Spec

(* The state of the service keeps its types: no more pendingStates are made *)
(* than Deletes can drop, plus the one in the map.                          *)
THEOREM TypeCorrect == Spec => []TypeOK
<1>1. IInv => TypeOK
  BY DEF IInv
<1> QED
  BY <1>1, Invariance, PTL

(* The flushing flag serializes the writes of a pendingState. *)
THEOREM WritesSerialized == Spec => []OneFlusher
<1>1. IInv => OneFlusher
  BY DEF IInv
<1> QED
  BY <1>1, Invariance, PTL

(* A timer of flushOne and Update is set only for a buffered state. *)
THEOREM TimerSound == Spec => []TimerMeansDirty
<1>1. IInv => TimerMeansDirty
  BY DEF IInv
<1> QED
  BY <1>1, Invariance, PTL

(* The three together, which is what the run checks. *)
THEOREM BuffersWellFormed == Spec => []WellFormed
<1>1. TypeOK /\ OneFlusher /\ TimerMeansDirty => WellFormed
  BY DEF WellFormed
<1> QED
  BY <1>1, TypeCorrect, WritesSerialized, TimerSound, PTL

(* Whatever Update took is in the row, buffered, or being written. *)
THEOREM UpdatesKept == Spec => []NothingForgotten
<1>1. IInv => NothingForgotten
  BY DEF IInv
<1> QED
  BY <1>1, Invariance, PTL

(* Flush, FlushAll and a terminal Update that return without an error have  *)
(* stored what was newest when they were called.                            *)
THEOREM FlushDurable == Spec => []FlushIsDurable
<1>1. IInv => FlushIsDurable
  BY DEF IInv
<1> QED
  BY <1>1, Invariance, PTL

(* The service implements CoalescedStore: the row only moves forward, to    *)
(* states that were given to Update, and stays as it is once deleted.       *)
THEOREM StoreRefinement == Spec => ImplementsStore
<1> USE DEF Store!StoreInit, Store!StoreNext, Store!Accept, Store!Store, Store!Remove,
            Store!storeVars
<1>1. Init => Store!StoreInit
  BY DEF Init
<1>2. IInv /\ IInv' /\ [Next]_vars => [Store!StoreNext]_Store!storeVars
  <2> SUFFICES ASSUME IInv, IInv', [Next]_vars
               PROVE  [Store!StoreNext]_Store!storeVars
    OBVIOUS
  <2>1. CASE Update
    BY <2>1 DEF Update
  <2>2. ASSUME NEW t \in Timers, TimerFires(t) PROVE UNCHANGED Store!storeVars
    BY <2>2 DEF TimerFires
  <2>3. ASSUME NEW f \in Flushers, Flush(f) \/ FlushAll(f)
        PROVE  UNCHANGED Store!storeVars
    BY <2>3 DEF Flush, FlushAll
  <2>4. ASSUME NEW a \in SyncCallers \cup Timers, FlushOne(a)
        PROVE  [Store!StoreNext]_Store!storeVars
    <3>1. CASE Write(a)
      <4>1. (deleted => row' = row) /\ row <= row' /\ row' <= accepted
        BY <3>1, WriteStep DEF IInv
      <4>2. row \in Nat /\ row' \in Nat /\ accepted \in Nat
        BY Numbers, Members DEF IInv, TypeOK
      <4>3. UNCHANGED <<accepted, deleted>>
        BY <3>1 DEF Write
      <4>4. deleted \in BOOLEAN
        BY DEF IInv, TypeOK
      <4> QED
        BY <4>1, <4>2, <4>3, <4>4
    <3>2. CASE FlushStart(a) \/ FlushSkips(a) \/ WriteFails(a) \/ FlushDone(a) \/ Publish(a)
      BY <3>2 DEF FlushStart, FlushSkips, WriteFails, FlushDone, Publish
    <3> QED
      BY <2>4, <3>1, <3>2 DEF FlushOne
  <2>5. ASSUME NEW d \in Deleters, Delete(d) \/ DeleteRow(d) \/ DeletePending(d)
        PROVE  [Store!StoreNext]_Store!storeVars
    BY <2>5 DEF Delete, DeleteRow, DeletePending
  <2>6. CASE UNCHANGED vars
    BY <2>6 DEF vars
  <2> QED
    BY <2>1, <2>2, <2>3, <2>4, <2>5, <2>6 DEF Next, Terminated
<1> QED
  BY <1>1, <1>2, Invariance, PTL DEF Spec, ImplementsStore, Store!StoreSpec
=============================================================================
