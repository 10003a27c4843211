------------------------------- MODULE Broker -------------------------------
(***************************************************************************)
(* pubsub.Broker (internal/pubsub/broker.go): publishers iterate over the  *)
(* subscriber map under the read lock and may wait in a send while they    *)
(* hold it; Subscribe, the goroutine that ends a subscription and Shutdown *)
(* take the write lock; Shutdown closes `done` before it locks.  A write   *)
(* section is one step; a writer that waits for it keeps new readers out,  *)
(* as Go's RWMutex does.                                                   *)
(***************************************************************************)
EXTENDS Naturals, Sequences, FiniteSets

CONSTANTS
    Publishers,    \* goroutines that publish on this broker
    MustDeliver,   \* those of them that call PublishMustDeliver
    Subscribers,   \* subscriptions, each with a context of its own
    Closers,       \* goroutines that call Shutdown
    BufferSize,    \* capacity of a subscriber's channel
    MaxEvents,     \* per publisher: its publish calls (bound)
    NoOne          \* nobody holds or awaits the write lock

ASSUME BrokerAssumption ==
    /\ BufferSize \in Nat \ {0}
    /\ MaxEvents \in [Publishers -> Nat]
    /\ MustDeliver \subseteq Publishers
    /\ NoOne \notin Subscribers \cup Closers

VARIABLES
    registered,   \* Broker.subs
    brokerDone,   \* Broker.done: "open", "closed", "panic" (closed twice)
    readers,      \* publishers that hold the read lock
    writer,       \* who waits for the write lock and keeps readers out
    channel,      \* per subscriber: its channel's buffer and state
    subCtx,       \* per subscriber: "live", "done", or "gone" once its goroutine ended
    publisher,    \* per publisher: the call it is in
    given,        \* per subscriber and publisher: last event handed over (history)
    closer        \* per closer: the point Shutdown has reached

brokerVars == <<registered, brokerDone, readers, writer, channel, subCtx,
                publisher, given, closer>>

Idle(n) == [pc |-> "idle", left |-> {}, at |-> NoOne, n |-> n]

BrokerInit ==
    /\ registered = {}
    /\ brokerDone = "open"
    /\ readers = {}
    /\ writer = NoOne
    /\ channel = [s \in Subscribers |-> [buf |-> <<>>, state |-> "new"]]
    /\ subCtx = [s \in Subscribers |-> "live"]
    /\ publisher = [p \in Publishers |-> Idle(0)]
    /\ given = [s \in Subscribers |-> [p \in Publishers |-> 0]]
    /\ closer = [c \in Closers |-> "idle"]

Running ==
    /\ brokerDone # "panic"
    /\ \A s \in Subscribers : channel[s].state # "panic"

Full(s) == Len(channel[s].buf) >= BufferSize

(* A send on a closed channel and a second close of one are panics.        *)
Sent(s, e) ==
    IF channel[s].state = "open"
      THEN [channel[s] EXCEPT !.buf = Append(@, e)]
      ELSE [channel[s] EXCEPT !.state = "panic"]

Closed(s) ==
    [channel[s] EXCEPT !.state = IF @ = "closed" THEN "panic" ELSE "closed"]

-----------------------------------------------------------------------------
(* The write lock: announced first, entered when the last reader is gone.  *)

Announce(w) ==
    /\ writer = NoOne
    /\ writer' = w
    /\ UNCHANGED <<registered, brokerDone, readers, channel, subCtx, publisher,
                   given, closer>>

Enter(w) ==
    /\ writer = w
    /\ readers = {}
    /\ writer' = NoOne

(* Subscribe, its wait for the lock included; after Shutdown the caller    *)
(* gets a closed channel at once.                                          *)
Subscribe(s) ==
    /\ channel[s].state = "new"
    /\ writer = NoOne /\ readers = {}
    /\ IF brokerDone = "closed"
         THEN /\ channel' = [channel EXCEPT ![s].state = "closed"]
              /\ UNCHANGED registered
         ELSE /\ channel' = [channel EXCEPT ![s].state = "open"]
              /\ registered' = registered \cup {s}
    /\ UNCHANGED <<brokerDone, readers, writer, subCtx, publisher, given, closer>>

CancelSub(s) ==
    /\ channel[s].state # "new" /\ subCtx[s] = "live"
    /\ subCtx' = [subCtx EXCEPT ![s] = "done"]
    /\ UNCHANGED <<registered, brokerDone, readers, writer, channel, publisher,
                   given, closer>>

(* The goroutine Subscribe starts: it waits for the context, then for the  *)
(* write lock, and leaves the channel to Shutdown when done is closed.     *)
UnsubscribeCall(s) ==
    /\ channel[s].state # "new" /\ subCtx[s] = "done"
    /\ Announce(s)

(* Mistake: the channel is closed after Shutdown closed it.                *)
UnsubscribeAnyway(s) ==
    /\ channel[s].state # "new" /\ subCtx[s] = "done"
    /\ Enter(s)
    /\ subCtx' = [subCtx EXCEPT ![s] = "gone"]
    /\ registered' = registered \ {s}
    /\ channel' = [channel EXCEPT ![s] = Closed(s)]
    /\ UNCHANGED <<brokerDone, readers, publisher, given, closer>>

Unsubscribe(s) ==
    /\ channel[s].state # "new" /\ subCtx[s] = "done"
    /\ Enter(s)
    /\ subCtx' = [subCtx EXCEPT ![s] = "gone"]
    /\ IF brokerDone = "closed"
         THEN UNCHANGED <<registered, channel>>
         ELSE /\ registered' = registered \ {s}
              /\ channel' = [channel EXCEPT ![s] = Closed(s)]
    /\ UNCHANGED <<brokerDone, readers, publisher, given, closer>>

Receive(s) ==
    /\ channel[s].buf # <<>>
    /\ channel' = [channel EXCEPT ![s].buf = Tail(@)]
    /\ UNCHANGED <<registered, brokerDone, readers, writer, subCtx, publisher,
                   given, closer>>

-----------------------------------------------------------------------------
(* Publish and PublishMustDeliver.                                         *)

(* The read lock, and the check of done made under it.                     *)
Publish(p) ==
    /\ publisher[p].pc = "idle" /\ publisher[p].n < MaxEvents[p]
    /\ writer = NoOne
    /\ readers' = readers \cup {p}
    /\ publisher' = [publisher EXCEPT ![p] =
           [pc |-> "offering", at |-> NoOne, n |-> @.n + 1,
            left |-> IF brokerDone = "closed" THEN {} ELSE registered]]
    /\ UNCHANGED <<registered, brokerDone, writer, channel, subCtx, given, closer>>

Hand(p, s) ==
    /\ channel' = [channel EXCEPT ![s] = Sent(s, <<p, publisher[p].n>>)]
    /\ given' = [given EXCEPT ![s][p] = publisher[p].n]

(* Mistake: nobody waits for room.                                         *)
OfferOnce(p, s) ==
    /\ publisher[p].pc = "offering" /\ s \in publisher[p].left
    /\ publisher' = [publisher EXCEPT ![p].left = @ \ {s}]
    /\ IF Full(s) THEN UNCHANGED <<channel, given>> ELSE Hand(p, s)
    /\ UNCHANGED <<registered, brokerDone, readers, writer, subCtx, closer>>

(* The non-blocking send both kinds of publication try first; the map is   *)
(* iterated in any order.                                                  *)
Offer(p, s) ==
    /\ publisher[p].pc = "offering" /\ s \in publisher[p].left
    /\ IF ~Full(s) \/ channel[s].state = "closed"
         THEN /\ Hand(p, s)
              /\ publisher' = [publisher EXCEPT ![p].left = @ \ {s}]
         ELSE /\ publisher' =
                   IF p \in MustDeliver
                     THEN [publisher EXCEPT ![p].pc = "blocked", ![p].at = s]
                     ELSE [publisher EXCEPT ![p].left = @ \ {s}]
              /\ UNCHANGED <<channel, given>>
    /\ UNCHANGED <<registered, brokerDone, readers, writer, subCtx, closer>>

Resumed(p) ==
    [publisher[p] EXCEPT !.pc = "offering", !.left = @ \ {publisher[p].at},
                         !.at = NoOne]

(* The bounded wait ends: room in the buffer, ...                          *)
BlockedSend(p) ==
    /\ publisher[p].pc = "blocked"
    /\ LET s == publisher[p].at IN ~Full(s) /\ Hand(p, s)
    /\ publisher' = [publisher EXCEPT ![p] = Resumed(p)]
    /\ UNCHANGED <<registered, brokerDone, readers, writer, subCtx, closer>>

(* ... the timer, which drops the event for this subscriber only, ...      *)
BlockedTimeout(p) ==
    /\ publisher[p].pc = "blocked"
    /\ publisher' = [publisher EXCEPT ![p] = Resumed(p)]
    /\ UNCHANGED <<registered, brokerDone, readers, writer, channel, subCtx,
                   given, closer>>

(* ... or the publisher's own context, which drops it for all that remain. *)
BlockedCancelled(p) ==
    /\ publisher[p].pc = "blocked"
    /\ publisher' = [publisher EXCEPT ![p].pc = "offering", ![p].left = {},
                                      ![p].at = NoOne]
    /\ UNCHANGED <<registered, brokerDone, readers, writer, channel, subCtx,
                   given, closer>>


PublishReturn(p) ==
    /\ publisher[p].pc = "offering" /\ publisher[p].left = {}
    /\ readers' = readers \ {p}
    /\ publisher' = [publisher EXCEPT ![p] = Idle(@.n)]
    /\ UNCHANGED <<registered, brokerDone, writer, channel, subCtx, given, closer>>

-----------------------------------------------------------------------------
(* Shutdown: done is tested and closed before any lock is taken.           *)
ShutdownTest(c) ==
    /\ closer[c] = "idle"
    /\ closer' = [closer EXCEPT ![c] = IF brokerDone = "closed" THEN "returned"
                                                               ELSE "closing"]
    /\ UNCHANGED <<registered, brokerDone, readers, writer, channel, subCtx,
                   publisher, given>>

ShutdownClose(c) ==
    /\ closer[c] = "closing"
    /\ brokerDone' = IF brokerDone = "closed" THEN "panic" ELSE "closed"
    /\ closer' = [closer EXCEPT ![c] = "locking"]
    /\ UNCHANGED <<registered, readers, writer, channel, subCtx, publisher, given>>

ShutdownCall(c) ==
    /\ closer[c] = "locking"
    /\ Announce(c)

ShutdownEnter(c) ==
    /\ closer[c] = "locking"
    /\ Enter(c)
    /\ channel' = [s \in Subscribers |->
                     IF s \in registered THEN Closed(s) ELSE channel[s]]
    /\ registered' = {}
    /\ closer' = [closer EXCEPT ![c] = "returned"]
    /\ UNCHANGED <<brokerDone, readers, subCtx, publisher, given>>

-----------------------------------------------------------------------------
(* A publisher under way, with nobody to make room for it.                 *)
PublishStep(p) ==
    \/ \E s \in Subscribers : Offer(p, s)
    \/ BlockedTimeout(p)
    \/ PublishReturn(p)

WriteLockCall ==
    \/ \E s \in Subscribers : UnsubscribeCall(s)
    \/ \E c \in Closers : ShutdownCall(c)

BrokerNext ==
    /\ Running
    /\ \/ \E s \in Subscribers :
            \/ Subscribe(s)
            \/ CancelSub(s)
            \/ Unsubscribe(s)
            \/ Receive(s)
       \/ \E p \in Publishers :
            \/ Publish(p)
            \/ BlockedSend(p)
            \/ BlockedCancelled(p)
            \/ PublishStep(p)
       \/ WriteLockCall
       \/ \E c \in Closers :
            \/ ShutdownTest(c)
            \/ ShutdownClose(c)
            \/ ShutdownEnter(c)

(* Goroutines that can run do, and the timer of a blocked send fires;      *)
(* nobody need receive, publish, cancel a subscription or shut down.       *)
(* When several wait for the write lock, one of them gets it.              *)
BrokerFairness ==
    /\ \A p \in Publishers : WF_brokerVars(Running /\ PublishStep(p))
    /\ WF_brokerVars(Running /\ WriteLockCall)
    /\ \A s \in Subscribers : WF_brokerVars(Running /\ Unsubscribe(s))
    /\ \A c \in Closers :
         WF_brokerVars(Running /\ (ShutdownClose(c) \/ ShutdownEnter(c)))

BrokerSpec == BrokerInit /\ [][BrokerNext]_brokerVars /\ BrokerFairness

-----------------------------------------------------------------------------
(* A subscriber of the broker has what LossyChannel promises: in order per *)
(* publisher, nothing twice, never more than the buffer holds, nothing     *)
(* after the close; and since LossyChannel has no panicked state, nobody   *)
(* ever sends on a closed channel or closes a subscription twice, however  *)
(* Publish, the end of a subscription and Shutdown interleave.             *)
Channel ==
    INSTANCE LossyChannel WITH
        Capacity <- BufferSize,
        sent <- [p \in Publishers |-> publisher[p].n],
        accepted <- given,
        inbox <- [s \in Subscribers |-> channel[s].buf],
        state <- [s \in Subscribers |-> channel[s].state]

ImplementsLossyChannel == Channel!Spec

(* Nothing is lost without cause: a lossy publication passes a subscriber  *)
(* over only when its buffer is full, a must-deliver one only after having *)
(* waited for room, or because the publisher's own context ended while it  *)
(* waited on some subscriber (broker.go:174-185, 216-240).                 *)
DropsHaveCause ==
    [][\A p \in Publishers : \A s \in publisher[p].left \ publisher'[p].left :
         \/ given'[s][p] = publisher[p].n
         \/ /\ p \notin MustDeliver
            /\ Full(s)
         \/ /\ publisher[p].pc = "blocked"
            /\ s = publisher[p].at \/ publisher'[p].left = {}]_brokerVars

=============================================================================
