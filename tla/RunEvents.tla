----------------------------- MODULE RunEvents ------------------------------
(***************************************************************************)
(* How the output of `trapeze run` reaches its stdout.  Message updates    *)
(* and the RunComplete of a turn leave by brokers of their own and are     *)
(* forwarded by goroutines of their own into app.events (app.go:544-624);  *)
(* the SSE handler (server/proto.go:257) writes what its subscription      *)
(* holds to the connection, the client (client/proto.go:114) reads it, and *)
(* runStream.handle (cmd/run.go:297) prints.  Each hop is a bounded queue  *)
(* of the kind LossyChannel describes.  Without a server,                  *)
(* App.RunNonInteractive (app.go:276) selects between the message events   *)
(* and the result of the run.                                              *)
(*                                                                         *)
(* A session runs one prompt after another: "mine" is the one the command  *)
(* waits for, "other" one that was running when mine was queued, "later"   *)
(* one that arrives after them.  A turn that ends without an error hands   *)
(* the session to the next queued prompt by a nested Run on the same       *)
(* goroutine (agent.go:1272), whose root is the prompt it was started for: *)
(* a nested turn publishes its RunComplete itself, the root's waits in the *)
(* coordinator's hook until the nested turns are over, and the error the   *)
(* goroutine ends with is reported under the root's run ID.  A message's   *)
(* content is its length.                                                  *)
(***************************************************************************)
EXTENDS Naturals, Sequences, FiniteSets

CONSTANTS
    FullLength,  \* per mode and turn: deltas in its assistant message (bound)
    QueueSize    \* capacity of every hop's buffer

(* Through a server, with the run ID the command mints, or in process.     *)
Modes == {"runid", "inprocess"}

Turns == {"other", "mine", "later"}
TurnOutcomes == {"ok", "error", "cancelled"}

ASSUME RunEventsAssumption ==
    /\ FullLength \in [Modes -> [Turns -> Nat]]
    /\ QueueSize \in Nat \ {0}

VARIABLES
    mode,      \* how the command follows the run
    turn,      \* the turn being run, its phase and its message's length
    root,      \* the prompt whose goroutine runs it
    queue,     \* prompts waiting for the session
    final,     \* per turn that ended: its length, its outcome and its root
    owed,      \* goroutines that are back in the coordinator: RunComplete, outcome
    late,      \* snapshots flushed but not yet published (message.go:374)
    msgSub,    \* subscription to the message broker
    doneSub,   \* fan-in subscription to the run completion broker
    notices,   \* turns whose error notification is being forwarded
    evSub,     \* the SSE stream's subscription to app.events
    wire,      \* bytes on the connection and the client's channel
    link,      \* "up", "eof" (closed in order), "broken" (any other error)
    result,    \* in process: the run's result on the `done` channel
    command,   \* the waiting command: status, bytes printed per turn
    expired    \* turns whose RunComplete a full buffer outlasted (history)

turnVars == <<turn, root, queue, final, owed>>
runVars == <<mode, turnVars, late, msgSub, doneSub, notices, evSub, wire,
             link, result, command, expired>>

MessageEvent(t, n) == [kind |-> "message", turn |-> t, len |-> n]
Notice(t) == [kind |-> "notice", turn |-> t]
Complete(t, f) == [kind |-> "complete", turn |-> t, len |-> f.len, outcome |-> f.outcome]
QueuedTurns == {queue[i] : i \in DOMAIN queue}
FreshTurn(t) == [who |-> t, phase |-> "streaming", len |-> 0]

Client == mode = "runid"
Waiting == command.status = "waiting"

(* app.events holds this stream's subscription only while the connection   *)
(* is up: its handler's return ends the subscription.                      *)
Subscribed == link = "up"

Room(q) == Len(q) < QueueSize

(* Broker.Publish: a full buffer drops the event.                          *)
Lossy(q, e) == IF Room(q) THEN Append(q, e) ELSE q

RunEventsInit ==
    /\ mode \in Modes
    /\ \/ turn = FreshTurn("mine") /\ queue = <<>>
       \/ Client /\ turn = FreshTurn("other") /\ queue = <<"mine">>
    /\ root = turn.who
    /\ final = <<>>
    /\ owed = {}
    /\ late = {}
    /\ msgSub = <<>> /\ doneSub = <<>> /\ evSub = <<>> /\ wire = <<>>
    /\ notices = {}
    /\ link = "up"
    /\ result = "none"
    /\ command = [status |-> "waiting", read |-> [t \in Turns |-> 0]]
    /\ expired = {}

-----------------------------------------------------------------------------
(* The session.                                                            *)

Arrived(t) == t = turn.who \/ t \in QueuedTurns \/ t \in DOMAIN final

(* Another prompt of the session: queued behind the turn being run, or the *)
(* root of a goroutine of its own.                                         *)
Arrive(t) ==
    /\ Client /\ ~Arrived(t)
    /\ IF turn.phase = "over"
         THEN turn' = FreshTurn(t) /\ root' = t /\ UNCHANGED queue
         ELSE queue' = Append(queue, t) /\ UNCHANGED <<turn, root>>
    /\ UNCHANGED <<mode, final, owed, late, msgSub, doneSub, notices, evSub, wire,
                   link, result, command, expired>>

StreamDelta ==
    /\ turn.phase = "streaming" /\ turn.len < FullLength[mode][turn.who]
    /\ turn' = [turn EXCEPT !.len = @ + 1]
    /\ late' = late \cup {MessageEvent(turn.who, turn.len + 1)}
    /\ UNCHANGED <<mode, root, queue, final, owed, msgSub, doneSub, notices, evSub,
                   wire, link, result, command, expired>>

(* A flush publishes after it has released the service's lock, so a        *)
(* snapshot of the timer's flush may be overtaken by a later one.          *)
PublishLate(e) ==
    /\ late' = late \ {e}
    /\ msgSub' = Lossy(msgSub, e)
    /\ UNCHANGED <<mode, turnVars, doneSub, notices, evSub, wire, link,
                   result, command, expired>>

(* The finishing update is flushed and published by the agent itself       *)
(* before it ends the turn; it is must-deliver, but a buffer that stays    *)
(* full outlasts it.  A turn that is bounded to no delta ends before it    *)
(* has an assistant message (agent.go:1020-1035).                          *)
FinishMessage ==
    /\ turn.phase = "streaming"
    /\ turn' = [turn EXCEPT !.phase = "finished"]
    /\ msgSub' = IF FullLength[mode][turn.who] = 0 THEN msgSub
                 ELSE Lossy(msgSub, MessageEvent(turn.who, turn.len))
    /\ UNCHANGED <<mode, root, queue, final, owed, late, doneSub, notices, evSub,
                   wire, link, result, command, expired>>

(* PublishMustDeliver: a buffer that stays full for the bounded wait       *)
(* outlasts the event.                                                     *)
Deliver(e) ==
    IF Room(doneSub) THEN doneSub' = Append(doneSub, e) /\ UNCHANGED expired
                     ELSE expired' = expired \cup {e.turn} /\ UNCHANGED doneSub

(* The turn ends: its RunComplete carries the assistant's text.  A nested  *)
(* turn's is published here, the root's goes to the coordinator's hook.    *)
(* Without an error the head of the queue runs next, nested; otherwise,    *)
(* or with nothing queued, every Run of the goroutine returns, with this   *)
(* turn's error.                                                           *)
EndTurn(outcome) ==
    LET f == [len |-> turn.len, outcome |-> outcome, on |-> root]
        ended == [t \in DOMAIN final \cup {turn.who} |-> IF t = turn.who THEN f ELSE final[t]]
    IN  /\ turn.phase = "finished"
        /\ final' = ended
        /\ IF turn.who = root THEN UNCHANGED <<doneSub, expired>>
                              ELSE Deliver(Complete(turn.who, f))
        /\ IF outcome = "ok" /\ queue # <<>>
             THEN turn' = FreshTurn(Head(queue)) /\ queue' = Tail(queue) /\ UNCHANGED owed
             ELSE /\ turn' = [turn EXCEPT !.phase = "over"]
                  /\ owed' = owed \cup {[event |-> Complete(root, ended[root]),
                                         outcome |-> outcome]}
                  /\ UNCHANGED queue
        /\ UNCHANGED <<mode, root, late, msgSub, notices, evSub, wire, link, result,
                       command>>

(* Cancel drops the queue; each dropped prompt gets its RunComplete.       *)
DropQueued ==
    LET f(t) == [len |-> 0, outcome |-> "cancelled", on |-> t]
    IN  /\ queue # <<>>
        /\ queue' = <<>>
        /\ final' = [t \in DOMAIN final \cup QueuedTurns |->
                       IF t \in QueuedTurns THEN f(t) ELSE final[t]]
        /\ owed' = owed \cup {[event |-> Complete(t, f(t)), outcome |-> "cancelled"] :
                              t \in QueuedTurns}
        /\ UNCHANGED <<mode, turn, root, late, msgSub, doneSub, notices, evSub, wire,
                       link, result, command, expired>>

(* Mistake: a goroutine that ends with an error only reports the error.    *)
RunReturnsSilently(o) ==
    /\ owed' = owed \ {o}
    /\ IF o.outcome = "error" THEN UNCHANGED <<doneSub, expired>> ELSE Deliver(o.event)
    /\ notices' = IF Client /\ o.outcome = "error" THEN notices \cup {o.event.turn} ELSE notices
    /\ result' = IF Client THEN result ELSE o.outcome
    /\ UNCHANGED <<mode, turn, root, queue, final, late, msgSub, evSub, wire, link,
                   command>>

(* The goroutine is back in the coordinator, which publishes what its hook *)
(* holds; the backend then reports the goroutine's error as a notification *)
(* (backend/agent.go:100), and in process its result is what the command's *)
(* goroutine sends.                                                        *)
RunReturns(o) ==
    /\ owed' = owed \ {o}
    /\ Deliver(o.event)
    /\ notices' = IF Client /\ o.outcome = "error" THEN notices \cup {o.event.turn} ELSE notices
    /\ result' = IF Client THEN result ELSE o.outcome
    /\ UNCHANGED <<mode, turn, root, queue, final, late, msgSub, evSub, wire, link,
                   command>>

-----------------------------------------------------------------------------
(* The fan-in goroutines and the stream (with a server).                   *)

ForwardMessage ==
    /\ Client /\ msgSub # <<>>
    /\ msgSub' = Tail(msgSub)
    /\ evSub' = IF Subscribed THEN Lossy(evSub, Head(msgSub)) ELSE evSub
    /\ UNCHANGED <<mode, turnVars, late, doneSub, notices, wire, link, result,
                   command, expired>>

ForwardNotice(t) ==
    /\ Client /\ t \in notices
    /\ notices' = notices \ {t}
    /\ evSub' = IF Subscribed THEN Lossy(evSub, Notice(t)) ELSE evSub
    /\ UNCHANGED <<mode, turnVars, late, msgSub, doneSub, wire, link, result,
                   command, expired>>

(* Bounded blocking: delivered when there is room, dropped when the buffer *)
(* stays full for the whole wait.                                          *)
ForwardComplete ==
    /\ Client /\ doneSub # <<>> /\ Room(evSub)
    /\ doneSub' = Tail(doneSub)
    /\ evSub' = IF Subscribed THEN Append(evSub, Head(doneSub)) ELSE evSub
    /\ UNCHANGED <<mode, turnVars, late, msgSub, notices, wire, link, result,
                   command, expired>>

ForwardExpires ==
    /\ Client /\ doneSub # <<>> /\ ~Room(evSub)
    /\ doneSub' = Tail(doneSub)
    /\ expired' = expired \cup {Head(doneSub).turn}
    /\ UNCHANGED <<mode, turnVars, late, msgSub, notices, evSub, wire, link,
                   result, command>>

WriteEvent ==
    /\ Client /\ link = "up" /\ evSub # <<>> /\ Room(wire)
    /\ evSub' = Tail(evSub)
    /\ wire' = Append(wire, Head(evSub))
    /\ UNCHANGED <<mode, turnVars, late, msgSub, doneSub, notices, link,
                   result, command, expired>>

(* The connection ends: in order when the server closes the subscription,  *)
(* or with any other error, which the client's reader retries for ever on  *)
(* the same body (client/proto.go:143-153).                                *)
Disconnect(how) ==
    /\ Client /\ link = "up"
    /\ link' = how
    /\ evSub' = <<>>
    /\ UNCHANGED <<mode, turnVars, late, msgSub, doneSub, notices, wire, result,
                   command, expired>>

-----------------------------------------------------------------------------
(* The waiting command.                                                    *)

Exit(status) == command' = [command EXCEPT !.status = status]

(* Only the tail past what was read of this message is printed.            *)
ShowMessage(e) ==
    IF e.len < command.read[e.turn] THEN Exit("short")
    ELSE command' = [command EXCEPT !.read[e.turn] = e.len]

(* Mistake: the end of any run of the session ends the command.            *)
HandleAny(e) ==
    IF e.kind = "message" THEN UNCHANGED command
    ELSE IF e.kind = "notice" \/ e.outcome = "error" THEN Exit("failed")
    ELSE command' = [command EXCEPT !.status = "ok", !.read[e.turn] = e.len]

(* runStream.handle.  The command always sends a run ID, and only events   *)
(* that carry it count; live messages do not.                              *)
Handle(e) ==
    IF e.kind = "message" \/ e.turn # "mine" THEN UNCHANGED command
    ELSE IF e.kind = "notice" \/ e.outcome = "error" THEN Exit("failed")
    ELSE command' = [command EXCEPT !.status = "ok",
                       !.read["mine"] = IF @ < e.len THEN e.len ELSE @]

ReadEvent ==
    /\ Client /\ wire # <<>>
    /\ wire' = Tail(wire)
    /\ Handle(Head(wire))
    /\ UNCHANGED <<mode, turnVars, late, msgSub, doneSub, notices, evSub, link,
                   result, expired>>

(* The reader closes the channel at the end of the stream: the command     *)
(* returns nil, as after a completed run, whatever it has seen.            *)
StreamClosed ==
    /\ Client /\ wire = <<>> /\ link = "eof"
    /\ Exit("ok")
    /\ UNCHANGED <<mode, turnVars, late, msgSub, doneSub, notices, evSub, wire,
                   link, result, expired>>

(* RunNonInteractive: the select takes either ready channel.               *)
TakeMessage ==
    /\ ~Client /\ msgSub # <<>>
    /\ msgSub' = Tail(msgSub)
    /\ ShowMessage(Head(msgSub))
    /\ UNCHANGED <<mode, turnVars, late, doneSub, notices, evSub, wire, link,
                   result, expired>>

TakeResult ==
    /\ ~Client /\ result # "none"
    /\ Exit(IF result = "error" THEN "failed" ELSE "ok")
    /\ UNCHANGED <<mode, turnVars, late, msgSub, doneSub, notices, evSub, wire,
                   link, result, expired>>

(* What happens after the command has exited concerns nobody here.        *)
RunEventsNext ==
    /\ Waiting
    /\ \/ Arrive("later")
       \/ StreamDelta
       \/ \E e \in late : PublishLate(e)
       \/ FinishMessage
       \/ \E o \in TurnOutcomes : EndTurn(o)
       \/ DropQueued
       \/ \E o \in owed : RunReturns(o)
       \/ ForwardMessage
       \/ \E t \in Turns : ForwardNotice(t)
       \/ ForwardComplete
       \/ ForwardExpires
       \/ WriteEvent
       \/ \E how \in {"eof", "broken"} : Disconnect(how)
       \/ ReadEvent
       \/ StreamClosed
       \/ TakeMessage
       \/ TakeResult

(* Every goroutine that can run does; that a turn ends is the session      *)
(* agent's business, and a connection need not break.                      *)
RunEventsFairness ==
    /\ WF_runVars(Waiting /\ \E o \in owed : RunReturns(o))
    /\ WF_runVars(Waiting /\ ForwardMessage)
    /\ WF_runVars(Waiting /\ (ForwardComplete \/ ForwardExpires))
    /\ WF_runVars(Waiting /\ WriteEvent)
    /\ WF_runVars(Waiting /\ (ReadEvent \/ StreamClosed))
    /\ WF_runVars(Waiting /\ (TakeMessage \/ TakeResult))

RunEventsSpec ==
    RunEventsInit /\ [][RunEventsNext]_runVars /\ RunEventsFairness

-----------------------------------------------------------------------------
(* What the command's exit says.  With a run ID it succeeds only after its *)
(* own turn ended without an error, with all of that turn's final text     *)
(* printed whatever was lost or overtaken on the way and nothing of any    *)
(* other turn (cmd/run.go:289, 337-390), or because the stream was closed  *)
(* in order before its end was read, with nothing printed (run.go:279).    *)
(* It fails only when its own turn failed or, its turn having ended well,  *)
(* one that was run after it on the same goroutine (backend/agent.go:100), *)
(* and never because snapshots came out of order.  In process there is no  *)
(* text to fall back on, so only the verdict is right.                     *)
ExitTellsTheTruth ==
    LET well == "mine" \in DOMAIN final /\ final["mine"].outcome # "error"
        printed == command.read["mine"]
    IN  /\ command.status = "ok" =>
             \/ well /\ (Client => printed = final["mine"].len)
             \/ link = "eof" /\ wire = <<>> /\ printed = 0
        /\ command.status = "failed" =>
             \E t \in DOMAIN final : /\ final[t].outcome = "error"
                                     /\ t = "mine" \/ (well /\ final[t].on = "mine")
        /\ Client => /\ command.status # "short"
                     /\ \A t \in Turns \ {"mine"} : command.read[t] = 0

(* The root's RunComplete is in the hook while a nested turn runs.         *)
Withheld == turn.phase # "over" /\ root = "mine" /\ turn.who # "mine"

(* Once its turn has ended, and with it those its goroutine was handed     *)
(* afterwards, the command ends too, unless the one event that tells it so *)
(* outlived a full buffer's bounded wait, or the connection broke without  *)
(* a clean end (cmd/run.go:335-345, coordinator.go:257-304, broker.go:221).*)
CommandEnds ==
    []<>(Waiting /\ "mine" \in DOMAIN final =>
           Withheld \/ link = "broken" \/ (Client /\ "mine" \in expired))
=============================================================================
