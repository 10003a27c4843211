---------------------------- MODULE BrokerProofs ----------------------------
(***************************************************************************)
(* The broker keeps the promise of LossyChannel, for any number of         *)
(* publishers, subscriptions and Shutdowns and any size of the buffers.    *)
(* BrokerInv is inductive: a publisher at work holds the read lock         *)
(* (LockInv), the subscriptions it has yet to serve are open and have not  *)
(* been given its event (OfferInv), and those of the map are open, while a *)
(* closed one either ended by itself or met a closed `done` (CloseInv).    *)
(* The same invariant shows that no event is dropped without a cause.      *)
(***************************************************************************)
EXTENDS Broker, TLAPS

PublisherStates ==
    [pc : {"idle", "offering", "blocked"}, left : SUBSET Subscribers,
     at : Subscribers \cup {NoOne}, n : Nat]

ChannelStates == [buf : Seq(Publishers \X Nat), state : {"new", "open", "closed"}]

(* No channel is ever in the state "panic".                                *)
BrokerTypes ==
    /\ registered \subseteq Subscribers
    /\ brokerDone \in {"open", "closed", "panic"}
    /\ readers \subseteq Publishers
    /\ channel \in [Subscribers -> ChannelStates]
    /\ subCtx \in [Subscribers -> {"live", "done", "gone"}]
    /\ publisher \in [Publishers -> PublisherStates]
    /\ given \in [Subscribers -> [Publishers -> Nat]]

LockInv ==
    \A p \in Publishers :
        /\ publisher[p].pc # "idle" => p \in readers
        /\ publisher[p].pc = "idle" => publisher[p].left = {}
        /\ publisher[p].pc = "blocked" => publisher[p].at \in publisher[p].left

OfferInv ==
    \A p \in Publishers, s \in Subscribers :
        /\ given[s][p] <= publisher[p].n
        /\ s \in publisher[p].left =>
             channel[s].state = "open" /\ given[s][p] < publisher[p].n

CloseInv ==
    \A s \in Subscribers :
        /\ s \in registered => channel[s].state = "open"
        /\ channel[s].state = "closed" /\ brokerDone = "open" => subCtx[s] = "gone"

BrokerInv == BrokerTypes /\ LockInv /\ OfferInv /\ CloseInv

(* Whoever closes the subscriptions closed `done` first.                   *)
DoneInv ==
    /\ closer \in [Closers -> {"idle", "closing", "locking", "returned"}]
    /\ \A c \in Closers : closer[c] = "locking" => brokerDone # "open"

-----------------------------------------------------------------------------
LEMMA ChannelMember ==
    ASSUME NEW s \in Subscribers, BrokerTypes
    PROVE  /\ channel[s] \in ChannelStates
           /\ channel[s].buf \in Seq(Publishers \X Nat)
           /\ channel[s].state \in {"new", "open", "closed"}
           /\ channel[s] = [buf |-> channel[s].buf, state |-> channel[s].state]
  BY DEF BrokerTypes, ChannelStates

LEMMA PublisherMember ==
    ASSUME NEW p \in Publishers, BrokerTypes
    PROVE  /\ publisher[p] \in PublisherStates
           /\ publisher[p].pc \in {"idle", "offering", "blocked"}
           /\ publisher[p].left \subseteq Subscribers
           /\ publisher[p].at \in Subscribers \cup {NoOne}
           /\ publisher[p].n \in Nat
  BY DEF BrokerTypes, PublisherStates

LEMMA AppendInSeq ==
    ASSUME NEW S, NEW q \in Seq(S), NEW e \in S
    PROVE  Append(q, e) \in Seq(S)
  OBVIOUS

LEMMA TailInSeq ==
    ASSUME NEW S, NEW q \in Seq(S), q # <<>>
    PROVE  Tail(q) \in Seq(S)
  OBVIOUS

(* Whoever enters the write section finds no publisher at work.            *)
LEMMA NobodyOffers ==
    ASSUME BrokerInv, readers = {}, NEW p \in Publishers
    PROVE  publisher[p].left = {}
  BY DEF BrokerInv, LockInv

-----------------------------------------------------------------------------
(* The steps, one lemma for each: what it preserves and what it is for     *)
(* the channel.                                                            *)

ChannelStep == Channel!Next \/ UNCHANGED Channel!vars

LEMMA SubscribeStep ==
    ASSUME BrokerInv, NEW s \in Subscribers, Subscribe(s)
    PROVE  BrokerInv' /\ ChannelStep
  <1>1. channel[s].state = "new" /\ s \notin registered
    BY DEF Subscribe, BrokerInv, CloseInv
  <1>2. PICK st \in {"open", "closed"} :
           /\ channel' = [channel EXCEPT ![s].state = st]
           /\ st = "closed" => brokerDone = "closed" /\ registered' = registered
           /\ st = "open" => registered' = registered \cup {s}
    BY DEF Subscribe
  <1>3. UNCHANGED <<brokerDone, readers, subCtx, publisher, given>>
    BY DEF Subscribe
  <1>4. /\ channel'[s].state = st /\ channel'[s].buf = channel[s].buf
        /\ \A r \in Subscribers \ {s} : channel'[r] = channel[r]
    BY <1>2 DEF BrokerInv, BrokerTypes, ChannelStates
  <1>5. BrokerTypes'
    BY <1>2, <1>3 DEF BrokerInv, BrokerTypes, ChannelStates
  <1>6. LockInv'
    BY <1>3 DEF BrokerInv, LockInv
  <1>7. OfferInv'
    BY <1>1, <1>3, <1>4 DEF BrokerInv, OfferInv
  <1>8. CloseInv'
    BY <1>1, <1>2, <1>3, <1>4 DEF BrokerInv, CloseInv
  <1>9. ChannelStep
    <2>1. UNCHANGED <<[p \in Publishers |-> publisher[p].n], given,
                      [r \in Subscribers |-> channel[r].buf]>>
      BY <1>3, <1>4 
    <2>2. [r \in Subscribers |-> channel'[r].state] =
            [[r \in Subscribers |-> channel[r].state] EXCEPT ![s] = st]
      BY <1>4
    <2>3. CASE st = "open"
      <3>1. Channel!Open(s)
        BY <1>1, <2>1, <2>2, <2>3 DEF Channel!Open
      <3> QED  BY <3>1 DEF ChannelStep, Channel!Next
    <2>4. CASE st = "closed"
      <3>1. [r \in Subscribers |-> channel'[r].state] =
              [r \in Subscribers |-> IF r \in {s} THEN "closed" ELSE channel[r].state]
        BY <2>4, <1>4
      <3>2. Channel!Close({s})
        BY <1>1, <2>1, <3>1 DEF Channel!Close
      <3> QED  BY <3>2 DEF ChannelStep, Channel!Next
    <2> QED  BY <2>3, <2>4
  <1> QED
    BY <1>5, <1>6, <1>7, <1>8, <1>9 DEF BrokerInv

(* Steps that touch neither the channels nor the publishers.               *)
LEMMA QuietStep ==
    ASSUME BrokerInv, UNCHANGED <<registered, readers, channel, publisher, given>>,
           brokerDone' \in {"open", "closed", "panic"},
           brokerDone' = "open" => brokerDone = "open",
           subCtx' \in [Subscribers -> {"live", "done", "gone"}],
           \A s \in Subscribers : subCtx[s] = "gone" => subCtx'[s] = "gone"
    PROVE  BrokerInv' /\ ChannelStep
  <1>1. BrokerTypes'
    BY DEF BrokerInv, BrokerTypes
  <1>2. LockInv'
    BY DEF BrokerInv, LockInv
  <1>3. OfferInv'
    BY DEF BrokerInv, OfferInv
  <1>4. CloseInv'
    BY DEF BrokerInv, CloseInv
  <1>5. ChannelStep
    BY DEF ChannelStep, Channel!vars
  <1> QED
    BY <1>1, <1>2, <1>3, <1>4, <1>5 DEF BrokerInv

LEMMA UnsubscribeStep ==
    ASSUME BrokerInv, Running, NEW s \in Subscribers, Unsubscribe(s)
    PROVE  BrokerInv' /\ ChannelStep
  <1>1. UNCHANGED <<brokerDone, readers, publisher, given>> /\ readers = {}
    BY DEF Unsubscribe, Enter
  <1>2. /\ subCtx' = [subCtx EXCEPT ![s] = "gone"]
        /\ subCtx[s] = "done" /\ channel[s].state # "new"
    BY DEF Unsubscribe
  <1>3. CASE brokerDone = "closed"
    <2>1. UNCHANGED <<registered, channel>>
      BY <1>3 DEF Unsubscribe
    <2>2. /\ subCtx' \in [Subscribers -> {"live", "done", "gone"}]
          /\ \A r \in Subscribers : subCtx[r] = "gone" => subCtx'[r] = "gone"
      BY <1>2 DEF BrokerInv, BrokerTypes
    <2>3. brokerDone' \in {"open", "closed", "panic"}
      BY <1>1 DEF BrokerInv, BrokerTypes
    <2> QED
      BY <1>1, <2>1, <2>2, <2>3, QuietStep
  <1>4. CASE brokerDone # "closed" /\ brokerDone # "panic"
    <2>1. channel[s].state = "open"
      BY <1>2, <1>4, ChannelMember DEF BrokerInv, BrokerTypes, CloseInv
    <2>2. /\ registered' = registered \ {s}
          /\ channel' = [channel EXCEPT ![s] = [channel[s] EXCEPT !.state = "closed"]]
      BY <1>4, <2>1 DEF Unsubscribe, Closed
    <2>3. /\ channel'[s].state = "closed" /\ channel'[s].buf = channel[s].buf
          /\ \A r \in Subscribers \ {s} : channel'[r] = channel[r]
      BY <2>2 DEF BrokerInv, BrokerTypes, ChannelStates
    <2>4. BrokerTypes'
      BY <1>1, <1>2, <2>2 DEF BrokerInv, BrokerTypes, ChannelStates
    <2>5. LockInv'
      BY <1>1 DEF BrokerInv, LockInv
    <2>6. OfferInv'
      BY <1>1, <2>3, NobodyOffers DEF BrokerInv, OfferInv
    <2>7. subCtx'[s] = "gone" /\ \A r \in Subscribers \ {s} : subCtx'[r] = subCtx[r]
      BY <1>2 DEF BrokerInv, BrokerTypes
    <2>8. CloseInv'
      BY <1>1, <2>2, <2>3, <2>7 DEF BrokerInv, CloseInv
    <2>9. Channel!Close({s})
      <3>1. UNCHANGED <<[p \in Publishers |-> publisher[p].n], given,
                        [r \in Subscribers |-> channel[r].buf]>>
        BY <1>1, <2>3
      <3>2. [r \in Subscribers |-> channel'[r].state] =
              [r \in Subscribers |-> IF r \in {s} THEN "closed" ELSE channel[r].state]
        BY <2>3
      <3> QED  BY <2>1, <3>1, <3>2 DEF Channel!Close
    <2> QED
      BY <2>4, <2>5, <2>6, <2>8, <2>9 DEF BrokerInv, ChannelStep, Channel!Next
  <1> QED
    BY <1>3, <1>4 DEF Running

LEMMA ReceiveStep ==
    ASSUME BrokerInv, NEW s \in Subscribers, Receive(s)
    PROVE  BrokerInv' /\ ChannelStep
  <1>1. /\ channel[s].buf # <<>>
        /\ channel' = [channel EXCEPT ![s].buf = Tail(@)]
        /\ UNCHANGED <<registered, brokerDone, readers, subCtx, publisher, given>>
    BY DEF Receive
  <1>2. Tail(channel[s].buf) \in Seq(Publishers \X Nat)
    BY <1>1, ChannelMember, TailInSeq DEF BrokerInv
  <1>3. /\ channel'[s].buf = Tail(channel[s].buf)
        /\ channel'[s].state = channel[s].state
        /\ \A r \in Subscribers \ {s} : channel'[r] = channel[r]
    BY <1>1 DEF BrokerInv, BrokerTypes, ChannelStates
  <1>4. BrokerTypes'
    BY <1>1, <1>2 DEF BrokerInv, BrokerTypes, ChannelStates
  <1>5. LockInv'
    BY <1>1 DEF BrokerInv, LockInv
  <1>6. OfferInv'
    BY <1>1, <1>3 DEF BrokerInv, OfferInv
  <1>7. CloseInv'
    BY <1>1, <1>3 DEF BrokerInv, CloseInv
  <1>8. Channel!Receive(s)
    <2>1. UNCHANGED <<[p \in Publishers |-> publisher[p].n], given,
                      [r \in Subscribers |-> channel[r].state]>>
      BY <1>1, <1>3
    <2>2. [r \in Subscribers |-> channel'[r].buf] =
            [[r \in Subscribers |-> channel[r].buf] EXCEPT ![s] = Tail(@)]
      BY <1>3
    <2> QED  BY <1>1, <2>1, <2>2 DEF Channel!Receive
  <1> QED
    BY <1>4, <1>5, <1>6, <1>7, <1>8 DEF BrokerInv, ChannelStep, Channel!Next

-----------------------------------------------------------------------------
(* The publisher's steps.                                                  *)

LEMMA PublishStart ==
    ASSUME BrokerInv, NEW p \in Publishers, Publish(p)
    PROVE  BrokerInv' /\ ChannelStep
  <1>1. /\ readers' = readers \cup {p}
        /\ UNCHANGED <<registered, brokerDone, channel, subCtx, given>>
    BY DEF Publish
  <1>2. PICK L \in SUBSET registered :
          publisher' = [publisher EXCEPT ![p] =
            [pc |-> "offering", at |-> NoOne, n |-> publisher[p].n + 1, left |-> L]]
    BY DEF Publish
  <1>3. /\ publisher'[p].pc = "offering" /\ publisher'[p].left = L
        /\ publisher'[p].n = publisher[p].n + 1
        /\ \A q \in Publishers \ {p} : publisher'[q] = publisher[q]
    BY <1>2 DEF BrokerInv, BrokerTypes
  <1>4. BrokerTypes'
    <2>1. [pc |-> "offering", at |-> NoOne, n |-> publisher[p].n + 1, left |-> L]
            \in PublisherStates
      BY PublisherMember DEF BrokerInv, BrokerTypes, PublisherStates
    <2>2. publisher' \in [Publishers -> PublisherStates]
      BY <1>2, <2>1 DEF BrokerInv, BrokerTypes
    <2> QED  BY <1>1, <2>2 DEF BrokerInv, BrokerTypes
  <1>5. LockInv'
    BY <1>1, <1>3 DEF BrokerInv, LockInv
  <1>6. OfferInv'
    <2>1. publisher[p].n \in Nat
          /\ \A s \in Subscribers : given[s][p] \in Nat
      BY PublisherMember DEF BrokerInv, BrokerTypes
    <2>2. \A s \in Subscribers :
            given[s][p] <= publisher[p].n + 1 /\ given[s][p] < publisher[p].n + 1
      BY <2>1 DEF BrokerInv, OfferInv
    <2>3. \A s \in L : channel[s].state = "open"
      BY DEF BrokerInv, BrokerTypes, CloseInv
    <2> QED  BY <1>1, <1>3, <2>2, <2>3 DEF BrokerInv, OfferInv
  <1>7. CloseInv'
    BY <1>1 DEF BrokerInv, CloseInv
  <1>8. Channel!Send(p)
    <2>1. [q \in Publishers |-> publisher'[q].n] =
            [[q \in Publishers |-> publisher[q].n] EXCEPT ![p] = @ + 1]
      BY <1>3
    <2> QED  BY <1>1, <2>1 DEF Channel!Send
  <1> QED
    BY <1>4, <1>5, <1>6, <1>7, <1>8 DEF BrokerInv, ChannelStep, Channel!Next

(* The publisher drops subscribers, or waits for one of them.              *)
LEMMA PublisherMoves ==
    ASSUME BrokerInv, NEW p \in Publishers, NEW u \in PublisherStates,
           publisher' = [publisher EXCEPT ![p] = u],
           u.n = publisher[p].n, u.left \subseteq publisher[p].left,
           u.pc = "idle" => u.left = {},
           u.pc = "blocked" => u.at \in u.left,
           publisher[p].pc # "idle",
           readers' = IF u.pc = "idle" THEN readers \ {p} ELSE readers,
           UNCHANGED <<registered, brokerDone, channel, subCtx, given>>
    PROVE  BrokerInv' /\ ChannelStep
  <1>1. /\ publisher'[p] = u
        /\ \A q \in Publishers \ {p} : publisher'[q] = publisher[q]
    BY DEF BrokerInv, BrokerTypes
  <1>2. BrokerTypes'
    BY DEF BrokerInv, BrokerTypes
  <1>3. LockInv'
    BY <1>1 DEF BrokerInv, LockInv
  <1>4. OfferInv'
    BY <1>1 DEF BrokerInv, OfferInv
  <1>5. CloseInv'
    BY DEF BrokerInv, CloseInv
  <1>6. UNCHANGED Channel!vars
    <2>1. [q \in Publishers |-> publisher'[q].n] = [q \in Publishers |-> publisher[q].n]
      BY <1>1
    <2> QED  BY <2>1 DEF Channel!vars
  <1> QED
    BY <1>2, <1>3, <1>4, <1>5, <1>6 DEF BrokerInv, ChannelStep

(* The event is handed over to a subscriber that has yet to be served.     *)
LEMMA Handover ==
    ASSUME BrokerInv, NEW p \in Publishers, NEW s \in publisher[p].left,
           NEW u \in PublisherStates,
           publisher' = [publisher EXCEPT ![p] = u],
           u.n = publisher[p].n, u.left = publisher[p].left \ {s}, u.pc = "offering",
           publisher[p].pc # "idle", ~Full(s), Hand(p, s),
           UNCHANGED <<registered, brokerDone, readers, subCtx>>
    PROVE  BrokerInv' /\ ChannelStep
  <1>1. /\ s \in Subscribers /\ channel[s].state = "open"
        /\ given[s][p] < publisher[p].n /\ publisher[p].n \in Nat
    BY PublisherMember DEF BrokerInv, OfferInv
  <1>2. /\ channel' = [channel EXCEPT ![s] =
              [channel[s] EXCEPT !.buf = Append(@, <<p, publisher[p].n>>)]]
        /\ given' = [given EXCEPT ![s][p] = publisher[p].n]
    BY <1>1 DEF Hand, Sent
  <1>3. /\ channel'[s].buf = Append(channel[s].buf, <<p, publisher[p].n>>)
        /\ channel'[s].state = channel[s].state
        /\ \A r \in Subscribers \ {s} : channel'[r] = channel[r]
    BY <1>1, <1>2 DEF BrokerInv, BrokerTypes, ChannelStates
  <1>4. /\ given'[s][p] = publisher[p].n
        /\ \A r \in Subscribers, q \in Publishers :
             <<r, q>> # <<s, p>> => given'[r][q] = given[r][q]
    BY <1>1, <1>2 DEF BrokerInv, BrokerTypes
  <1>5. /\ publisher'[p] = u
        /\ \A q \in Publishers \ {p} : publisher'[q] = publisher[q]
    BY DEF BrokerInv, BrokerTypes
  <1>6. BrokerTypes'
    <2>1. Append(channel[s].buf, <<p, publisher[p].n>>) \in Seq(Publishers \X Nat)
      <3>1. <<p, publisher[p].n>> \in Publishers \X Nat
        BY <1>1
      <3> QED  BY <1>1, <3>1, ChannelMember, AppendInSeq DEF BrokerInv
    <2>2. channel' \in [Subscribers -> ChannelStates]
      BY <1>1, <1>2, <2>1 DEF BrokerInv, BrokerTypes, ChannelStates
    <2>3. given' \in [Subscribers -> [Publishers -> Nat]]
      BY <1>1, <1>2 DEF BrokerInv, BrokerTypes
    <2> QED  BY <2>2, <2>3 DEF BrokerInv, BrokerTypes
  <1>7. LockInv'
    BY <1>5 DEF BrokerInv, LockInv
  <1>8. OfferInv'
    <2> SUFFICES ASSUME NEW q \in Publishers, NEW r \in Subscribers
                 PROVE  /\ given'[r][q] <= publisher'[q].n
                        /\ r \in publisher'[q].left =>
                             /\ channel'[r].state = "open"
                             /\ given'[r][q] < publisher'[q].n
      BY DEF OfferInv
    <2>1. channel'[r].state = channel[r].state
      BY <1>3
    <2>2. CASE q = p /\ r = s
      BY <1>1, <1>4, <1>5, <2>2
    <2>3. CASE <<r, q>> # <<s, p>>
      <3>1. given'[r][q] = given[r][q]
        BY <1>4, <2>3
      <3>2. /\ publisher'[q].n = publisher[q].n
            /\ publisher'[q].left \subseteq publisher[q].left
        BY <1>5
      <3> QED  BY <2>1, <3>1, <3>2 DEF BrokerInv, OfferInv
    <2> QED  BY <2>2, <2>3
  <1>9. CloseInv'
    BY <1>3 DEF BrokerInv, CloseInv
  <1>10. Channel!Accept(s, p)
    <2>1. Len(channel[s].buf) < BufferSize
      BY <1>1, ChannelMember, BrokerAssumption DEF Full, BrokerInv
    <2>2. [r \in Subscribers |-> channel'[r].buf] =
            [[r \in Subscribers |-> channel[r].buf] EXCEPT
               ![s] = Append(@, <<p, publisher[p].n>>)]
      BY <1>1, <1>3
    <2>3. UNCHANGED <<[q \in Publishers |-> publisher[q].n],
                      [r \in Subscribers |-> channel[r].state]>>
      BY <1>3, <1>5
    <2>4. [q \in Publishers |-> publisher[q].n][p] = publisher[p].n
      OBVIOUS
    <2> QED  BY <1>1, <1>2, <2>1, <2>2, <2>3, <2>4 DEF Channel!Accept
  <1> QED
    BY <1>1, <1>6, <1>7, <1>8, <1>9, <1>10 DEF BrokerInv, ChannelStep, Channel!Next

LEMMA OfferStep ==
    ASSUME BrokerInv, NEW p \in Publishers, NEW s \in Subscribers, Offer(p, s)
    PROVE  BrokerInv' /\ ChannelStep
  <1>1. /\ publisher[p].pc = "offering" /\ s \in publisher[p].left
        /\ UNCHANGED <<registered, brokerDone, readers, subCtx>>
    BY DEF Offer
  <1>2. channel[s].state = "open"
    BY <1>1 DEF BrokerInv, OfferInv
  <1>3. publisher[p] \in PublisherStates
    BY PublisherMember DEF BrokerInv
  <1>4. CASE ~Full(s)
    <2> DEFINE u == [publisher[p] EXCEPT !.left = @ \ {s}]
    <2>1. /\ Hand(p, s)
          /\ publisher' = [publisher EXCEPT ![p] = u]
      BY <1>4 DEF Offer
    <2>2. /\ u \in PublisherStates /\ u.n = publisher[p].n
          /\ u.left = publisher[p].left \ {s} /\ u.pc = "offering"
      BY <1>1, <1>3 DEF PublisherStates
    <2> HIDE DEF u
    <2> QED  BY <1>1, <1>4, <2>1, <2>2, Handover
  <1>5. CASE Full(s)
    <2>1. UNCHANGED <<channel, given>>
      BY <1>2, <1>5 DEF Offer
    <2>2. PICK u \in PublisherStates :
             /\ publisher' = [publisher EXCEPT ![p] = u]
             /\ u.n = publisher[p].n /\ u.left \subseteq publisher[p].left
             /\ u.pc \in {"offering", "blocked"}
             /\ u.pc = "blocked" => u.at \in u.left
      <3>1. CASE p \in MustDeliver
        <4> DEFINE w == [publisher[p] EXCEPT !.pc = "blocked", !.at = s]
        <4>1. publisher' = [publisher EXCEPT ![p] = w]
          BY <1>2, <1>5, <3>1 DEF Offer
        <4>2. /\ w \in PublisherStates /\ w.n = publisher[p].n /\ w.pc = "blocked"
              /\ w.left = publisher[p].left /\ w.at = s
          BY <1>3 DEF PublisherStates
        <4> HIDE DEF w
        <4> QED  BY <1>1, <4>1, <4>2
      <3>2. CASE p \notin MustDeliver
        <4> DEFINE w == [publisher[p] EXCEPT !.left = @ \ {s}]
        <4>1. publisher' = [publisher EXCEPT ![p] = w]
          BY <1>2, <1>5, <3>2 DEF Offer
        <4>2. /\ w \in PublisherStates /\ w.n = publisher[p].n /\ w.pc = "offering"
              /\ w.left \subseteq publisher[p].left
          BY <1>1, <1>3 DEF PublisherStates
        <4> HIDE DEF w
        <4> QED  BY <4>1, <4>2
      <3> QED  BY <3>1, <3>2
    <2>3. readers' = IF u.pc = "idle" THEN readers \ {p} ELSE readers
      BY <1>1, <2>2
    <2> QED
      BY <1>1, <2>1, <2>2, <2>3, PublisherMoves
  <1> QED
    BY <1>4, <1>5

(* The three ways out of the bounded wait.                                 *)
LEMMA BlockedStep ==
    ASSUME BrokerInv, NEW p \in Publishers,
           BlockedSend(p) \/ BlockedTimeout(p) \/ BlockedCancelled(p)
    PROVE  BrokerInv' /\ ChannelStep
  <1>1. /\ publisher[p].pc = "blocked"
        /\ UNCHANGED <<registered, brokerDone, readers, subCtx>>
    BY DEF BlockedSend, BlockedTimeout, BlockedCancelled
  <1>2. publisher[p] \in PublisherStates
    BY PublisherMember DEF BrokerInv
  <1>3. publisher[p].at \in publisher[p].left
    BY <1>1 DEF BrokerInv, LockInv
  <1>4. /\ Resumed(p) \in PublisherStates /\ Resumed(p).n = publisher[p].n
        /\ Resumed(p).left = publisher[p].left \ {publisher[p].at}
        /\ Resumed(p).pc = "offering"
    BY <1>2 DEF PublisherStates, Resumed
  <1>5. CASE BlockedSend(p)
    <2>1. PICK s \in publisher[p].left : s = publisher[p].at /\ ~Full(s) /\ Hand(p, s)
      BY <1>3, <1>5 DEF BlockedSend
    <2>2. publisher' = [publisher EXCEPT ![p] = Resumed(p)]
      BY <1>5 DEF BlockedSend
    <2> QED
      BY <1>1, <1>4, <2>1, <2>2, Handover
  <1>6. CASE BlockedTimeout(p)
    <2>1. publisher' = [publisher EXCEPT ![p] = Resumed(p)] /\ UNCHANGED <<channel, given>>
      BY <1>6 DEF BlockedTimeout
    <2>2. readers' = IF Resumed(p).pc = "idle" THEN readers \ {p} ELSE readers
      BY <1>1, <1>4
    <2> QED
      BY <1>1, <1>4, <2>1, <2>2, PublisherMoves
  <1>7. CASE BlockedCancelled(p)
    <2> DEFINE u == [publisher[p] EXCEPT !.pc = "offering", !.left = {}, !.at = NoOne]
    <2>1. publisher' = [publisher EXCEPT ![p] = u] /\ UNCHANGED <<channel, given>>
      BY <1>7 DEF BlockedCancelled
    <2>2. /\ u \in PublisherStates /\ u.n = publisher[p].n
          /\ u.left = {} /\ u.pc = "offering"
      BY <1>2 DEF PublisherStates
    <2> HIDE DEF u
    <2>3. readers' = IF u.pc = "idle" THEN readers \ {p} ELSE readers
      BY <1>1, <2>2
    <2> QED
      BY <1>1, <2>1, <2>2, <2>3, PublisherMoves
  <1> QED
    BY <1>5, <1>6, <1>7

LEMMA ReturnStep ==
    ASSUME BrokerInv, NEW p \in Publishers, PublishReturn(p)
    PROVE  BrokerInv' /\ ChannelStep
  <1> DEFINE u == Idle(publisher[p].n)
  <1>1. /\ publisher[p].pc = "offering" /\ readers' = readers \ {p}
        /\ publisher' = [publisher EXCEPT ![p] = u]
        /\ UNCHANGED <<registered, brokerDone, channel, subCtx, given>>
    BY DEF PublishReturn
  <1>2. /\ u \in PublisherStates /\ u.n = publisher[p].n
        /\ u.left = {} /\ u.pc = "idle"
    BY PublisherMember DEF Idle, PublisherStates, BrokerInv
  <1> HIDE DEF u
  <1> QED
    BY <1>1, <1>2, PublisherMoves

-----------------------------------------------------------------------------
(* Shutdown.                                                               *)

LEMMA ShutdownStep ==
    ASSUME BrokerInv, brokerDone # "open", NEW c \in Closers, ShutdownEnter(c)
    PROVE  BrokerInv' /\ ChannelStep
  <1>1. /\ readers = {} /\ registered' = {}
        /\ UNCHANGED <<brokerDone, readers, subCtx, publisher, given>>
    BY DEF ShutdownEnter, Enter
  <1>2. \A s \in Subscribers :
           channel'[s] = IF s \in registered THEN [channel[s] EXCEPT !.state = "closed"]
                                             ELSE channel[s]
    BY DEF ShutdownEnter, Closed, BrokerInv, CloseInv
  <1>3. \A s \in Subscribers :
           /\ channel'[s].buf = channel[s].buf
           /\ channel'[s].state = IF s \in registered THEN "closed" ELSE channel[s].state
    BY <1>2 DEF BrokerInv, BrokerTypes, ChannelStates
  <1>4. BrokerTypes'
    <2>1. channel' \in [Subscribers -> ChannelStates]
      <3>1. \A s \in Subscribers : channel'[s] \in ChannelStates
        BY <1>2 DEF BrokerInv, BrokerTypes, ChannelStates
      <3> QED  BY <3>1 DEF ShutdownEnter
    <2> QED  BY <1>1, <2>1 DEF BrokerInv, BrokerTypes
  <1>5. LockInv'
    BY <1>1 DEF BrokerInv, LockInv
  <1>6. OfferInv'
    BY <1>1, NobodyOffers DEF BrokerInv, OfferInv
  <1>7. CloseInv'
    BY <1>1 DEF BrokerInv, CloseInv
  <1>8. PICK R \in SUBSET Subscribers : R = registered
    BY DEF BrokerInv, BrokerTypes
  <1>9. Channel!Close(R)
    <2>1. UNCHANGED <<[q \in Publishers |-> publisher[q].n], given,
                      [r \in Subscribers |-> channel[r].buf]>>
      BY <1>1, <1>3
    <2>2. [r \in Subscribers |-> channel'[r].state] =
            [r \in Subscribers |-> IF r \in R THEN "closed" ELSE channel[r].state]
      BY <1>3, <1>8
    <2>3. \A s \in R : channel[s].state = "open"
      BY <1>8 DEF BrokerInv, CloseInv
    <2> QED  BY <2>1, <2>2, <2>3 DEF Channel!Close
  <1> QED
    BY <1>4, <1>5, <1>6, <1>7, <1>9 DEF BrokerInv, ChannelStep, Channel!Next

-----------------------------------------------------------------------------
LEMMA DoneStep ==
    ASSUME DoneInv, [BrokerNext]_brokerVars
    PROVE  DoneInv'
  <1>1. CASE \E c \in Closers : ShutdownTest(c) \/ ShutdownClose(c) \/ ShutdownEnter(c)
    <2>1. PICK c \in Closers : ShutdownTest(c) \/ ShutdownClose(c) \/ ShutdownEnter(c)
      BY <1>1
    <2>2. CASE ShutdownTest(c)
      BY <2>2 DEF ShutdownTest, DoneInv
    <2>3. CASE ShutdownClose(c)
      BY <2>3 DEF ShutdownClose, DoneInv
    <2>4. CASE ShutdownEnter(c)
      BY <2>4 DEF ShutdownEnter, DoneInv
    <2> QED  BY <2>1, <2>2, <2>3, <2>4
  <1>2. CASE UNCHANGED <<closer, brokerDone>>
    BY <1>2 DEF DoneInv
  <1> QED
    BY <1>1, <1>2 DEF BrokerNext, brokerVars, Subscribe, CancelSub, Unsubscribe,
       Receive, Publish, BlockedSend, BlockedCancelled, BlockedTimeout, PublishStep,
       Offer, PublishReturn, WriteLockCall, UnsubscribeCall, ShutdownCall, Announce

LEMMA InitMaps ==
    ASSUME BrokerInit
    PROVE  BrokerInv /\ DoneInv /\ Channel!Init
  <1>1. BrokerTypes
    BY DEF BrokerInit, BrokerTypes, ChannelStates, PublisherStates, Idle
  <1>2. LockInv /\ OfferInv
    BY DEF BrokerInit, LockInv, OfferInv, Idle
  <1>3. CloseInv /\ DoneInv
    BY DEF BrokerInit, CloseInv, DoneInv
  <1>4. Channel!Init
    BY DEF BrokerInit, Channel!Init, Idle
  <1> QED
    BY <1>1, <1>2, <1>3, <1>4 DEF BrokerInv

LEMMA StepMaps ==
    ASSUME BrokerInv, DoneInv, [BrokerNext]_brokerVars
    PROVE  BrokerInv' /\ ChannelStep
  <1>0. /\ brokerDone \in {"open", "closed", "panic"}
        /\ subCtx \in [Subscribers -> {"live", "done", "gone"}]
    BY DEF BrokerInv, BrokerTypes
  <1>1. CASE UNCHANGED brokerVars
    BY <1>0, <1>1, QuietStep DEF brokerVars
  <1>2. ASSUME Running, NEW s \in Subscribers,
               Subscribe(s) \/ CancelSub(s) \/ Unsubscribe(s) \/ Receive(s)
        PROVE  BrokerInv' /\ ChannelStep
    <2>1. CASE CancelSub(s)
      <3>1. /\ subCtx' \in [Subscribers -> {"live", "done", "gone"}]
            /\ \A r \in Subscribers : subCtx[r] = "gone" => subCtx'[r] = "gone"
        BY <1>0, <2>1 DEF CancelSub
      <3> QED  BY <1>0, <2>1, <3>1, QuietStep DEF CancelSub
    <2> QED
      BY <1>2, <2>1, SubscribeStep, UnsubscribeStep, ReceiveStep
  <1>3. ASSUME NEW p \in Publishers,
               \/ Publish(p) \/ BlockedSend(p) \/ BlockedCancelled(p)
               \/ PublishStep(p)
        PROVE  BrokerInv' /\ ChannelStep
    BY <1>3, PublishStart, BlockedStep, OfferStep, ReturnStep DEF PublishStep
  <1>4. CASE WriteLockCall
    <2>1. /\ UNCHANGED <<registered, brokerDone, readers, channel, subCtx, publisher,
                         given>>
      BY <1>4 DEF WriteLockCall, UnsubscribeCall, ShutdownCall, Announce
    <2> QED  BY <1>0, <2>1, QuietStep
  <1>5. ASSUME NEW c \in Closers,
               ShutdownTest(c) \/ ShutdownClose(c) \/ ShutdownEnter(c)
        PROVE  BrokerInv' /\ ChannelStep
    <2>1. CASE ShutdownTest(c)
      BY <1>0, <2>1, QuietStep DEF ShutdownTest
    <2>2. CASE ShutdownClose(c)
      <3>1. brokerDone' \in {"closed", "panic"}
        BY <2>2 DEF ShutdownClose
      <3> QED  BY <1>0, <2>2, <3>1, QuietStep DEF ShutdownClose
    <2>3. CASE ShutdownEnter(c)
      <3>1. brokerDone # "open"
        BY <2>3 DEF ShutdownEnter, DoneInv
      <3> QED  BY <2>3, <3>1, ShutdownStep
    <2> QED  BY <1>5, <2>1, <2>2, <2>3
  <1> QED
    BY <1>1, <1>2, <1>3, <1>4, <1>5 DEF BrokerNext

-----------------------------------------------------------------------------
(* Every subscriber of the broker gets each publisher's events in order,   *)
(* none twice, never more than its buffer holds and nothing after the      *)
(* close; and no interleaving of Publish, the end of a subscription and    *)
(* Shutdown sends on a closed channel or closes one twice.                 *)
THEOREM BrokerRefinement == BrokerSpec => ImplementsLossyChannel
  <1>1. BrokerInit => BrokerInv /\ DoneInv /\ Channel!Init
    BY InitMaps
  <1>2. BrokerInv /\ DoneInv /\ [BrokerNext]_brokerVars
          => BrokerInv' /\ DoneInv' /\ [Channel!Next]_Channel!vars
    BY StepMaps, DoneStep DEF ChannelStep
  <1> QED
    BY <1>1, <1>2, PTL DEF BrokerSpec, ImplementsLossyChannel, Channel!Spec

-----------------------------------------------------------------------------
(* A subscription that leaves a publisher's list, and why.                 *)
Dropped(p, s) == s \in publisher[p].left \ publisher'[p].left

HasCause(p, s) ==
    \/ given'[s][p] = publisher[p].n
    \/ p \notin MustDeliver /\ Full(s)
    \/ publisher[p].pc = "blocked" /\ (s = publisher[p].at \/ publisher'[p].left = {})

LEMMA OtherPublishers ==
    ASSUME BrokerInv, NEW p \in Publishers, NEW q \in Publishers, NEW s, Dropped(q, s),
           \/ Publish(p) \/ BlockedSend(p) \/ BlockedCancelled(p) \/ PublishStep(p)
    PROVE  q = p
  BY DEF Dropped, BrokerInv, BrokerTypes, Publish, BlockedSend, BlockedCancelled,
         PublishStep, BlockedTimeout, Offer, PublishReturn

LEMMA HandIsGiven ==
    ASSUME BrokerInv, NEW p \in Publishers, NEW s \in Subscribers, Hand(p, s)
    PROVE  given'[s][p] = publisher[p].n
  BY DEF Hand, BrokerInv, BrokerTypes

LEMMA OfferHasCause ==
    ASSUME BrokerInv, NEW p \in Publishers, NEW r \in Subscribers, Offer(p, r),
           NEW s, Dropped(p, s)
    PROVE  HasCause(p, s)
  <1>1. r \in publisher[p].left /\ channel[r].state = "open"
    BY DEF Offer, BrokerInv, OfferInv
  <1>2. publisher' = [publisher EXCEPT ![p].left = @ \ {r}] => s = r
    BY DEF Dropped, BrokerInv, BrokerTypes, PublisherStates
  <1>3. CASE ~Full(r)
    BY <1>1, <1>2, <1>3, HandIsGiven DEF Offer, HasCause
  <1>4. CASE Full(r) /\ p \notin MustDeliver
    BY <1>1, <1>2, <1>4 DEF Offer, HasCause
  <1>5. CASE Full(r) /\ p \in MustDeliver
    <2>1. publisher' = [publisher EXCEPT ![p].pc = "blocked", ![p].at = r]
      BY <1>1, <1>5 DEF Offer
    <2>2. publisher'[p].left = publisher[p].left
      BY <2>1 DEF BrokerInv, BrokerTypes, PublisherStates
    <2> QED  BY <2>2 DEF Dropped
  <1> QED
    BY <1>3, <1>4, <1>5

LEMMA BlockedHasCause ==
    ASSUME BrokerInv, NEW p \in Publishers, NEW s, Dropped(p, s),
           BlockedSend(p) \/ BlockedTimeout(p) \/ BlockedCancelled(p)
    PROVE  HasCause(p, s)
  <1>1. publisher[p].pc = "blocked"
    BY DEF BlockedSend, BlockedTimeout, BlockedCancelled
  <1>2. CASE BlockedCancelled(p)
    <2>1. publisher'[p].left = {}
      BY <1>2 DEF BlockedCancelled, BrokerInv, BrokerTypes, PublisherStates
    <2> QED  BY <1>1, <2>1 DEF HasCause
  <1>3. CASE BlockedSend(p) \/ BlockedTimeout(p)
    <2>1. publisher' = [publisher EXCEPT ![p] = Resumed(p)]
      BY <1>3 DEF BlockedSend, BlockedTimeout
    <2>2. publisher'[p].left = publisher[p].left \ {publisher[p].at}
      BY <2>1 DEF Resumed, BrokerInv, BrokerTypes, PublisherStates
    <2> QED  BY <1>1, <2>2 DEF Dropped, HasCause
  <1> QED
    BY <1>2, <1>3

(* Nothing is lost without cause: a subscription passed over either had a  *)
(* full buffer, for a publication that may be lost, or was waited for, or  *)
(* the publisher's own context ended while it waited.                      *)
THEOREM NoSilentDrop == BrokerSpec => DropsHaveCause
  <1>1. BrokerInit => BrokerInv /\ DoneInv
    BY InitMaps
  <1>2. BrokerInv /\ DoneInv /\ [BrokerNext]_brokerVars => BrokerInv' /\ DoneInv'
    BY StepMaps, DoneStep
  <1>3. ASSUME BrokerInv, [BrokerNext]_brokerVars,
               NEW q \in Publishers, NEW s, Dropped(q, s)
        PROVE  HasCause(q, s)
    <2>1. CASE UNCHANGED publisher
      BY <1>3, <2>1 DEF Dropped
    <2>2. ASSUME NEW p \in Publishers,
                 \/ Publish(p) \/ BlockedSend(p) \/ BlockedCancelled(p)
                 \/ PublishStep(p)
          PROVE  HasCause(q, s)
      <3>1. q = p
        BY <1>3, <2>2, OtherPublishers
      <3>2. publisher[p].left # {}
        BY <1>3, <3>1 DEF Dropped
      <3>3. ~Publish(p) /\ ~PublishReturn(p)
        BY <1>3, <3>2 DEF Publish, PublishReturn, BrokerInv, LockInv
      <3> QED
        BY <1>3, <2>2, <3>1, <3>3, OfferHasCause, BlockedHasCause DEF PublishStep
    <2> QED
      BY <1>3, <2>1, <2>2 DEF BrokerNext, brokerVars, Subscribe, CancelSub,
         Unsubscribe, Receive, WriteLockCall, UnsubscribeCall, ShutdownCall, Announce,
         ShutdownTest, ShutdownClose, ShutdownEnter
  <1>4. BrokerInv /\ [BrokerNext]_brokerVars =>
          [\A p \in Publishers : \A s \in publisher[p].left \ publisher'[p].left :
             \/ given'[s][p] = publisher[p].n
             \/ /\ p \notin MustDeliver
                /\ Full(s)
             \/ /\ publisher[p].pc = "blocked"
                /\ s = publisher[p].at \/ publisher'[p].left = {}]_brokerVars
    BY <1>3 DEF Dropped, HasCause
  <1> QED
    BY <1>1, <1>2, <1>4, PTL DEF BrokerSpec, DropsHaveCause
=============================================================================
