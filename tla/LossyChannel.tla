---------------------------- MODULE LossyChannel ----------------------------
(***************************************************************************)
(* What a subscriber of an event broker may rely on: each publisher's      *)
(* events reach it in order, none of them twice, possibly with gaps, in a  *)
(* buffer of bounded length, and nothing reaches it once it is closed.     *)
(* Two subscribers need not agree on the order of two publishers' events.  *)
(***************************************************************************)
EXTENDS Naturals, Sequences

CONSTANTS Publishers, Subscribers, Capacity

VARIABLES
    sent,      \* events each publisher has offered so far
    accepted,  \* per subscriber and publisher, the last event it was given
    inbox,     \* per subscriber, the events waiting to be received
    state      \* per subscriber: "new", "open" or "closed"

vars == <<sent, accepted, inbox, state>>

Init ==
    /\ sent = [p \in Publishers |-> 0]
    /\ accepted = [s \in Subscribers |-> [p \in Publishers |-> 0]]
    /\ inbox = [s \in Subscribers |-> <<>>]
    /\ state = [s \in Subscribers |-> "new"]

Send(p) ==
    /\ sent' = [sent EXCEPT ![p] = @ + 1]
    /\ UNCHANGED <<accepted, inbox, state>>

(* The event being offered is handed over at most once; skipping it is     *)
(* simply not taking this step before the publisher's next Send.           *)
Accept(s, p) ==
    /\ state[s] = "open"
    /\ accepted[s][p] < sent[p]
    /\ Len(inbox[s]) < Capacity
    /\ accepted' = [accepted EXCEPT ![s][p] = sent[p]]
    /\ inbox' = [inbox EXCEPT ![s] = Append(@, <<p, sent[p]>>)]
    /\ UNCHANGED <<sent, state>>

Receive(s) ==
    /\ inbox[s] # <<>>
    /\ inbox' = [inbox EXCEPT ![s] = Tail(@)]
    /\ UNCHANGED <<sent, accepted, state>>

Open(s) ==
    /\ state[s] = "new"
    /\ state' = [state EXCEPT ![s] = "open"]
    /\ UNCHANGED <<sent, accepted, inbox>>

(* Any number of the open subscriptions end together; one that was never   *)
(* opened may be refused by being handed a closed channel.                 *)
Close(S) ==
    /\ \A s \in S : state[s] \in {"new", "open"}
    /\ state' = [s \in Subscribers |-> IF s \in S THEN "closed" ELSE state[s]]
    /\ UNCHANGED <<sent, accepted, inbox>>

Next ==
    \/ \E p \in Publishers : Send(p)
    \/ \E s \in Subscribers, p \in Publishers : Accept(s, p)
    \/ \E s \in Subscribers : Receive(s) \/ Open(s)
    \/ \E S \in SUBSET Subscribers : Close(S)

Spec == Init /\ [][Next]_vars
=============================================================================
