----------------------------- MODULE FileEdits ------------------------------
(***************************************************************************)
(* The agent's file tools on one file: view, edit and multiedit of an      *)
(* existing file, their creating forms, and write (agent/tools/view.go,    *)
(* edit.go, multiedit.go, write.go), with the read times they compare      *)
(* (filetracker/service.go) and the versions they keep (history/file.go),  *)
(* while the user changes the file too.  A session runs one of these tools *)
(* at a time; contents are numbers, 0 the empty one, and line endings are  *)
(* left out.  Times are whole seconds, as in the read_files table and in   *)
(* the truncated modification time.                                        *)
(***************************************************************************)
EXTENDS Integers, Sequences, FiniteSets, FiniteSetsExt

CONSTANTS
    EditSessions,    \* sessions that edit the file
    MaxCalls,        \* tool calls in all (bound)
    MaxUserChanges,  \* changes the user makes (bound)
    MaxClock         \* seconds that pass (bound)

ASSUME FileEditsAssumption ==
    MaxCalls \in Nat /\ MaxUserChanges \in Nat /\ MaxClock \in Nat \ {0}

VARIABLES
    clock,     \* the current second
    file,      \* content (or Absent) and modification time
    readAt,    \* read_files.read_at per session, 0 when never read
    versions,  \* the files table: [session, version, content]
    call,      \* per session: the tool call it is in
    spent,     \* calls and user changes made, contents written so far
    shown       \* per session: last content it was shown or wrote, and when (history)

fileVars == <<clock, file, readAt, versions, call, spent, shown>>

Absent == -1
Tools == {"view", "edit", "create", "write"}

(* "missing" names the contents whose insert failed, in the call (history).*)
NoToolCall == [pc |-> "idle", tool |-> "view", old |-> 0, new |-> 0, oldTime |-> 0,
               lastRead |-> 0, checked |-> 0, number |-> 0, missing |-> {}]

(* Some sessions have viewed the file, a second ago.                       *)
FileEditsInit ==
    /\ clock = 2
    /\ file \in {[content |-> Absent, time |-> 0], [content |-> 1, time |-> 1]}
    /\ \E R \in SUBSET EditSessions :
         /\ file.content = Absent => R = {}
         /\ readAt = [s \in EditSessions |-> IF s \in R THEN 1 ELSE 0]
         /\ shown = [s \in EditSessions |->
                      IF s \in R THEN file ELSE [content |-> Absent, time |-> 0]]
    /\ versions = {}
    /\ call = [s \in EditSessions |-> NoToolCall]
    /\ spent = [calls |-> 0, changes |-> 0, contents |-> 1]

Exists == file.content # Absent

Tick ==
    /\ clock < MaxClock
    /\ clock' = clock + 1
    /\ UNCHANGED <<file, readAt, versions, call, spent, shown>>

UserWrites ==
    /\ spent.changes < MaxUserChanges
    /\ file' = [content |-> spent.contents + 1, time |-> clock]
    /\ spent' = [spent EXCEPT !.changes = @ + 1, !.contents = @ + 1]
    /\ UNCHANGED <<clock, readAt, versions, call, shown>>

UserDeletes ==
    /\ spent.changes < MaxUserChanges /\ Exists
    /\ file' = [file EXCEPT !.content = Absent]
    /\ spent' = [spent EXCEPT !.changes = @ + 1]
    /\ UNCHANGED <<clock, readAt, versions, call, shown>>

-----------------------------------------------------------------------------
(* The tools.                                                              *)

Step(s, pc) == call' = [call EXCEPT ![s].pc = pc]
ToolReturns(s) == call' = [call EXCEPT ![s] = NoToolCall]

(* Mistake: an edit does not look at the modification time.                *)
CheckRead(s, tool) ==
    CASE tool = "view"   -> Exists
      [] tool = "edit"   -> Exists /\ readAt[s] # 0
      [] tool = "create" -> ~Exists
      [] tool = "write"  -> Exists => file.time <= readAt[s]

(* os.Stat and LastReadTime.  edit refuses a file never read, both refuse  *)
(* one modified in a later second than it was read in; the creating forms  *)
(* refuse a file that exists.  A refused call returns at once.             *)
Check(s, tool) ==
    CASE tool = "view"   -> Exists
      [] tool = "edit"   -> Exists /\ readAt[s] # 0 /\ file.time <= readAt[s]
      [] tool = "create" -> ~Exists
      [] tool = "write"  -> Exists => file.time <= readAt[s]

StartTool(s, tool) ==
    /\ call[s].pc = "idle" /\ spent.calls < MaxCalls
    /\ spent' = [spent EXCEPT !.calls = @ + 1]
    /\ IF Check(s, tool)
         THEN call' = [call EXCEPT ![s] =
                [NoToolCall EXCEPT !.pc = IF Exists THEN "read" ELSE "ask",
                    !.tool = tool, !.lastRead = readAt[s], !.checked = clock]]
         ELSE UNCHANGED call
    /\ UNCHANGED <<clock, file, readAt, versions, shown>>

(* os.ReadFile.  A view shows the content here, or a range of its lines,   *)
(* and records a read of the whole file after it has waited for            *)
(* diagnostics: to the checks, what was shown in part was shown.  An edit  *)
(* that finds no file or not its text returns; a write takes an unreadable *)
(* file for an empty one.                                                  *)
ReadFile(s) ==
    /\ call[s].pc = "read"
    /\ CASE call[s].tool = "view" /\ Exists ->
              /\ shown' = [shown EXCEPT ![s] = [content |-> file.content, time |-> clock]]
              /\ Step(s, "record")
         [] call[s].tool # "view" /\ (Exists \/ call[s].tool = "write") ->
              /\ call' = [call EXCEPT ![s].pc = "ask",
                            ![s].old = IF Exists THEN file.content ELSE 0,
                            ![s].oldTime = file.time]
              /\ UNCHANGED shown
         [] OTHER -> ToolReturns(s) /\ UNCHANGED shown
    /\ UNCHANGED <<clock, file, readAt, versions, spent>>

NoSuchText(s) ==
    /\ call[s].pc = "read" /\ call[s].tool \in {"edit", "write"}
    /\ ToolReturns(s)
    /\ UNCHANGED <<clock, file, readAt, versions, spent, shown>>

(* The permission prompt may take as long as it takes.                     *)
Denied(s) ==
    /\ call[s].pc = "ask"
    /\ ToolReturns(s)
    /\ UNCHANGED <<clock, file, readAt, versions, spent, shown>>

(* Granted: os.WriteFile, without another look at the file.                *)
WriteFile(s) ==
    /\ call[s].pc = "ask"
    /\ LET new == spent.contents + 1
       IN  /\ file' = [content |-> new, time |-> clock]
           /\ shown' = [shown EXCEPT ![s] = [content |-> new, time |-> clock]]
           /\ call' = [call EXCEPT ![s] = [NoToolCall EXCEPT !.pc = "lookup",
                         !.tool = call[s].tool, !.old = call[s].old, !.new = new]]
    /\ spent' = [spent EXCEPT !.contents = @ + 1]
    /\ UNCHANGED <<clock, readAt, versions>>

-----------------------------------------------------------------------------
(* history.Service.                                                        *)

Of(V, s) == {v \in V : v.session = s}
Numbers(V) == {v.version : v \in V}

(* createWithVersion: a number the session has used for this path is a     *)
(* constraint violation, after which the next one is tried, three in all.  *)
FreeNumbers(V, s, n) == (n .. n + 2) \ Numbers(Of(V, s))

Inserts(s, n, content) ==
    /\ FreeNumbers(versions, s, n) # {}
    /\ versions' = versions \cup
         {[session |-> s, version |-> Min(FreeNumbers(versions, s, n)), content |-> content]}

Latest(V, s) == CHOOSE v \in Of(V, s) : v.version = Max(Numbers(Of(V, s)))

(* After the write a tool looks for the session's newest version of the    *)
(* path, and keeps a change made outside when that is not what it found in *)
(* the file.  Nothing found, or a query that fails, starts a history with  *)
(* what was in the file, as the creating forms do at once with the empty   *)
(* content; the newest version then counts as empty.                       *)
ToKeep(c, known) == IF known # c.old THEN "listOld" ELSE "listNew"

(* Mistake: a change made outside is not looked for.                       *)
FindKeptAny(s) ==
    /\ call[s].pc = "lookup"
    /\ \/ /\ call[s].tool # "create" /\ Of(versions, s) # {}
          /\ Step(s, "listNew")
       \/ Step(s, "begin")
    /\ UNCHANGED <<clock, file, readAt, versions, spent, shown>>

FindKept(s) ==
    /\ call[s].pc = "lookup"
    /\ \/ /\ call[s].tool # "create" /\ Of(versions, s) # {}
          /\ Step(s, ToKeep(call[s], Latest(versions, s).content))
       \/ Step(s, "begin")
    /\ UNCHANGED <<clock, file, readAt, versions, spent, shown>>

(* Create, with version 0 first.  A failure, be it that three versions of  *)
(* an earlier life are in the way or that the turn is cancelled, ends the  *)
(* call with neither the versions nor the read recorded.                   *)
Begin(s) ==
    /\ call[s].pc = "begin"
    /\ \/ Inserts(s, 0, call[s].old) /\ Step(s, ToKeep(call[s], 0))
       \/ UNCHANGED versions /\ ToolReturns(s)
    /\ UNCHANGED <<clock, file, readAt, spent, shown>>

(* CreateVersion lists the path's versions and inserts the number after    *)
(* the latest, whatever session wrote that; first the content found, when  *)
(* it is to be kept, then the content written.                             *)
ListVersions(s) ==
    /\ call[s].pc \in {"listOld", "listNew"}
    /\ call' = [call EXCEPT
          ![s].pc = IF @ = "listOld" THEN "keepOld" ELSE "keepNew",
          ![s].number = IF versions = {} THEN 0 ELSE Max(Numbers(versions)) + 1]
    /\ UNCHANGED <<clock, file, readAt, versions, spent, shown>>

KeepOld(s) ==
    /\ call[s].pc = "keepOld"
    /\ Inserts(s, call[s].number, call[s].old)
    /\ call' = [call EXCEPT ![s].pc = "listNew", ![s].number = 0]
    /\ UNCHANGED <<clock, file, readAt, spent, shown>>

KeepNew(s) ==
    /\ call[s].pc = "keepNew"
    /\ Inserts(s, call[s].number, call[s].new)
    /\ call' = [call EXCEPT ![s].pc = "record", ![s].number = 0]
    /\ UNCHANGED <<clock, file, readAt, spent, shown>>

(* A CreateVersion that fails is only logged: the tool goes on.            *)
NotKept(s, what, next) ==
    call' = [call EXCEPT ![s].pc = next, ![s].number = 0, ![s].missing = @ \cup {what}]

KeepFails(s) ==
    /\ \/ call[s].pc \in {"listOld", "keepOld"} /\ NotKept(s, "old", "listNew")
       \/ call[s].pc \in {"listNew", "keepNew"} /\ NotKept(s, "new", "record")
    /\ UNCHANGED <<clock, file, readAt, versions, spent, shown>>

(* filetracker.RecordRead stamps the current second; a failure is logged.  *)
RecordRead(s) ==
    /\ call[s].pc = "record"
    /\ \/ readAt' = [readAt EXCEPT ![s] = clock]
       \/ UNCHANGED readAt
    /\ ToolReturns(s)
    /\ UNCHANGED <<clock, file, versions, spent, shown>>

FileEditsNext ==
    \/ Tick
    \/ UserWrites
    \/ UserDeletes
    \/ \E s \in EditSessions :
         \/ \E tool \in Tools : StartTool(s, tool)
         \/ ReadFile(s)
         \/ NoSuchText(s)
         \/ Denied(s)
         \/ WriteFile(s)
         \/ FindKept(s)
         \/ Begin(s)
         \/ ListVersions(s)
         \/ KeepOld(s)
         \/ KeepNew(s)
         \/ KeepFails(s)
         \/ RecordRead(s)

FileEditsSpec == FileEditsInit /\ [][FileEditsNext]_fileVars

-----------------------------------------------------------------------------
(* The read check stops a tool from working on a content its session never *)
(* saw, but for two gaps: a change in the second of the session's last     *)
(* read or write, or between that and the recording of it (times are whole *)
(* seconds, view.go:246-259), and a change after the check (edit.go:221).  *)
UnseenOnlyInTheGap ==
    \A s \in EditSessions :
        LET c == call[s]
        IN  c.pc = "ask" /\ c.old # 0 /\ c.old # shown[s].content =>
              \/ c.oldTime >= c.checked
              \/ c.oldTime >= shown[s].time /\ c.oldTime <= c.lastRead

(* What a tool replaced can be had back: when it records its read, the     *)
(* session's newest version of the file is what the tool wrote, and what   *)
(* it found, empty when there was no file, is an older one                 *)
(* (edit.go:302-325), whatever other sessions and earlier lives of the     *)
(* file left in the table.  The exceptions are the contents whose own      *)
(* insert failed in this call, for the tool reports success all the same.  *)
ReplacedIsKept ==
    \A s \in EditSessions :
        LET c == call[s]
            V == Of(versions, s)
            newest == "new" \notin c.missing
        IN  c.pc = "record" /\ c.tool # "view" =>
              /\ newest => V # {} /\ Latest(V, s).content = c.new
              /\ "old" \notin c.missing =>
                   \E v \in V : /\ v.content = c.old
                                /\ newest => v.version < Latest(V, s).version
=============================================================================
