----------------------------- MODULE JobChannel -----------------------------
(***************************************************************************)
(* A session's job channel (internal/jobs): producers append records to a  *)
(* journal of one file per job and send a datagram to the channel's nudge  *)
(* socket; the watcher of every process that shares the session reads the  *)
(* journal again on each datagram, and at the latest at its next deadline. *)
(* One watcher owns the socket: bindNudge takes a path that is free, or    *)
(* whose owner does not answer.  A job's derived state only depends on how *)
(* many of its records are complete.                                       *)
(***************************************************************************)
EXTENDS Naturals, FiniteSets

CONSTANTS
    Watchers,   \* processes with a jobs.Manager on this channel
    Jobs,       \* jobs of the channel
    MaxRecords, \* records per job (bound)
    MaxReadErrors, \* readings of a directory or a file that fail (bound)
    NoOwner     \* no file at the socket's path

ASSUME JobChannelAssumption ==
    MaxRecords \in Nat /\ MaxReadErrors \in Nat /\ NoOwner \notin Watchers

VARIABLES
    journal,  \* per job: complete records in its file
    nudging,  \* a record was appended whose datagram is not yet sent
    sockPath, \* whose socket file is at the path
    watcher,  \* per watcher: its point, socket, datagram, snapshot and reading
    readErrors \* readings that failed

jobVars == <<journal, nudging, sockPath, watcher, readErrors>>

Nothing == [j \in Jobs |-> 0]

JobChannelInit ==
    /\ journal = Nothing
    /\ nudging = FALSE
    /\ sockPath = NoOwner
    /\ watcher = [w \in Watchers |->
         [pc |-> "seed", conn |-> FALSE, datagram |-> FALSE, states |-> Nothing,
          listed |-> FALSE, unread |-> {}, reading |-> Nothing]]
    /\ readErrors = 0

WatcherAt(w, pc) == watcher' = [watcher EXCEPT ![w].pc = pc]
Alive(w) == w # NoOwner /\ watcher[w].conn

-----------------------------------------------------------------------------
(* A producer; a line that is not complete yet is skipped by readers.      *)
AppendRecord(j) ==
    /\ journal[j] < MaxRecords
    /\ journal' = [journal EXCEPT ![j] = @ + 1]
    /\ nudging' = TRUE
    /\ UNCHANGED <<sockPath, watcher, readErrors>>

SendNudge ==
    /\ nudging
    /\ nudging' = FALSE
    /\ watcher' = IF Alive(sockPath) THEN [watcher EXCEPT ![sockPath].datagram = TRUE]
                                     ELSE watcher
    /\ UNCHANGED <<journal, sockPath, readErrors>>

-----------------------------------------------------------------------------
(* ReadChannelStates lists the directory, then reads one file after        *)
(* another; what it found replaces the snapshot, and is published when it  *)
(* differs.  A directory or a file that cannot be read counts as empty     *)
(* (jobs.go:136, protocol.go:150), so that its jobs leave the snapshot     *)
(* until the next reading.                                                 *)
Reading(w) == watcher[w].pc \in {"seed", "read"}

ListJournal(w) ==
    /\ Reading(w) /\ ~watcher[w].listed
    /\ watcher' = [watcher EXCEPT ![w].listed = TRUE,
                                  ![w].unread = {j \in Jobs : journal[j] > 0}]
    /\ UNCHANGED <<journal, nudging, sockPath, readErrors>>

ReadJournal(w) ==
    /\ Reading(w)
    /\ \E j \in watcher[w].unread :
         watcher' = [watcher EXCEPT ![w].unread = @ \ {j},
                                    ![w].reading[j] = journal[j]]
    /\ UNCHANGED <<journal, nudging, sockPath, readErrors>>

ReadFails(w) ==
    /\ Reading(w) /\ readErrors < MaxReadErrors
    /\ readErrors' = readErrors + 1
    /\ \/ /\ ~watcher[w].listed
          /\ watcher' = [watcher EXCEPT ![w].listed = TRUE]
       \/ \E j \in watcher[w].unread :
            watcher' = [watcher EXCEPT ![w].unread = @ \ {j}]
    /\ UNCHANGED <<journal, nudging, sockPath>>

PublishJobs(w) ==
    /\ Reading(w) /\ watcher[w].listed /\ watcher[w].unread = {}
    /\ watcher' = [watcher EXCEPT ![w].states = watcher[w].reading,
                                  ![w].listed = FALSE, ![w].reading = Nothing,
                                  ![w].pc = IF @ = "seed" THEN "bind" ELSE "block"]
    /\ UNCHANGED <<journal, nudging, sockPath, readErrors>>

(* bindNudge: bind, else probe, else remove and bind again, each a call of *)
(* its own; a watcher that gets no socket polls.                           *)
Bound(w) ==
    /\ sockPath' = w
    /\ watcher' = [watcher EXCEPT ![w].conn = TRUE, ![w].pc = "block"]

Bind(w) ==
    /\ watcher[w].pc = "bind"
    /\ IF sockPath = NoOwner THEN Bound(w) ELSE WatcherAt(w, "probe") /\ UNCHANGED sockPath
    /\ UNCHANGED <<journal, nudging, readErrors>>

ProbeSocket(w) ==
    /\ watcher[w].pc = "probe"
    /\ IF Alive(sockPath)
         THEN watcher' = [watcher EXCEPT ![w].pc = "block", ![sockPath].datagram = TRUE]
         ELSE WatcherAt(w, "remove")
    /\ UNCHANGED <<journal, nudging, sockPath, readErrors>>

RemoveDead(w) ==
    /\ watcher[w].pc = "remove"
    /\ sockPath' = NoOwner
    /\ WatcherAt(w, "rebind")
    /\ UNCHANGED <<journal, nudging, readErrors>>

Rebind(w) ==
    /\ watcher[w].pc = "rebind"
    /\ IF sockPath = NoOwner THEN Bound(w) ELSE WatcherAt(w, "block") /\ UNCHANGED sockPath
    /\ UNCHANGED <<journal, nudging, readErrors>>

(* The watch loop wakes on a datagram or at its deadline.                  *)
WakeByNudge(w) ==
    /\ watcher[w].pc = "block" /\ watcher[w].conn /\ watcher[w].datagram
    /\ watcher' = [watcher EXCEPT ![w].pc = "read", ![w].datagram = FALSE]
    /\ UNCHANGED <<journal, nudging, sockPath, readErrors>>

(* Mistake: the owner of a socket has no deadline.                         *)
WakePolling(w) ==
    /\ watcher[w].pc = "block" /\ ~watcher[w].conn
    /\ WatcherAt(w, "read")
    /\ UNCHANGED <<journal, nudging, sockPath, readErrors>>

WakeByDeadline(w) ==
    /\ watcher[w].pc = "block"
    /\ WatcherAt(w, "read")
    /\ UNCHANGED <<journal, nudging, sockPath, readErrors>>

(* The manager is shut down: an owner removes the path, whoever's socket   *)
(* is there by now.  A process that dies leaves it.                        *)
StopWatch(w) ==
    /\ watcher[w].pc = "block"
    /\ sockPath' = IF watcher[w].conn THEN NoOwner ELSE sockPath
    /\ watcher' = [watcher EXCEPT ![w].pc = "stopped", ![w].conn = FALSE]
    /\ UNCHANGED <<journal, nudging, readErrors>>

DieWatching(w) ==
    /\ watcher[w].pc \notin {"stopped", "dead"}
    /\ watcher' = [watcher EXCEPT ![w].pc = "dead", ![w].conn = FALSE]
    /\ UNCHANGED <<journal, nudging, sockPath, readErrors>>

Watch(w) ==
    \/ ListJournal(w) \/ ReadJournal(w) \/ PublishJobs(w)
    \/ Bind(w) \/ ProbeSocket(w) \/ RemoveDead(w) \/ Rebind(w)
    \/ WakeByNudge(w) \/ WakeByDeadline(w)

JobChannelNext ==
    \/ \E j \in Jobs : AppendRecord(j)
    \/ SendNudge
    \/ \E w \in Watchers :
         \/ Watch(w)
         \/ ReadFails(w)
         \/ StopWatch(w)
         \/ DieWatching(w)

(* A watcher that runs keeps running, and its deadline comes; producers    *)
(* need not append, nor manage to send, and reads need not fail.           *)
JobChannelFairness == \A w \in Watchers : WF_jobVars(Watch(w))

JobChannelSpec ==
    JobChannelInit /\ [][JobChannelNext]_jobVars /\ JobChannelFairness

-----------------------------------------------------------------------------
(* "A lost datagram only delays, never loses, an update" (protocol.go:8):  *)
(* every record reaches the snapshot of every watcher that keeps running,  *)
(* also when the socket is dead, taken over by another process between its *)
(* probe and its removal, or removed by the shutdown of a former owner, and*)
(* when a reading that failed emptied the snapshot in between.             *)
JournalIsCaughtUp ==
    \A w \in Watchers :
      []<>(watcher[w].states = journal \/ watcher[w].pc \in {"stopped", "dead"})
=============================================================================
