---------------------------- MODULE ConfigStore -----------------------------
(***************************************************************************)
(* The global configuration file and the ConfigStores over it              *)
(* (config/store.go), one per workspace and process.  Writes go through    *)
(* lockConfig: a mutex of the store, then a file lock between all of them; *)
(* the one held by whoever holds the other, they are `fileLock` here.  A   *)
(* write is followed by a reload of the store that made it, unless one is  *)
(* under way there.  RefreshOAuthToken exchanges the token it found in     *)
(* memory without any lock, and every reload may first rewrite the file to *)
(* replace a deprecated field, without one too (config/load.go:836).       *)
(* Changes of the Config in memory, which the code makes without any lock, *)
(* are single steps here.                                                  *)
(*                                                                         *)
(* A token is its number in the order the provider issued it.  Refresh     *)
(* tokens are used once: the provider exchanges the newest only.           *)
(***************************************************************************)
EXTENDS Naturals, FiniteSets

CONSTANTS
    Stores,      \* stores of processes and workspaces
    Refreshers,  \* goroutines that refresh the token
    Setters,     \* goroutines that set a field, each its own
    Recents,     \* those of them that put a model into the list of recent ones
    StoreOf,     \* the store of each goroutine
    MaxTokens,   \* tokens issued (bound)
    MaxDeaths,   \* processes that die (bound)
    NoRoutine    \* nobody

Routines == Refreshers \cup Setters

ASSUME ConfigAssumption ==
    /\ Refreshers \cap Setters = {} /\ NoRoutine \notin Routines
    /\ Recents \subseteq Setters
    /\ StoreOf \in [Routines -> Stores]
    /\ MaxTokens \in Nat \ {0} /\ MaxDeaths \in Nat

VARIABLES
    configFile,  \* the file: token, fields set, has the deprecated field
    inMemory,    \* per store: the token and fields of its Config
    snapshotOK,  \* per store: the staleness snapshot still matches the file
    fileLock,    \* who is between lockConfig and release
    reloader,    \* per store: who holds reloadMu
    routine,     \* per goroutine: where it is, the token it found and got, the fields it
                 \* is to write, and what it has read
    issued,      \* newest token of the provider
    expired,     \* tokens up to this one have expired
    died,        \* stores whose process died
    lostTokens,  \* tokens that no longer reach the file, and why (history)
    trampled,    \* what a write without the lock took out of the file (history)
    overtaken,   \* stores a reload, a refresh or a late change left behind (history)
    unwritten    \* setters whose write failed after it had changed memory (history)

configVars == <<configFile, inMemory, snapshotOK, fileLock, reloader, routine,
                issued, expired, died, lostTokens, trampled, overtaken, unwritten>>

Settings(f) == [token |-> f.token, fields |-> f.fields]
NoFile0 == [token |-> 0, fields |-> {}, legacy |-> FALSE]
NoWork == [pc |-> "idle", held |-> 0, got |-> 0, list |-> {}, data |-> NoFile0]

(* An older build may have written the deprecated field since the stores   *)
(* were loaded.  Some of the goroutines may never come.                    *)
ConfigInit ==
    /\ configFile \in [token : {1}, fields : {{}}, legacy : BOOLEAN]
    /\ inMemory = [s \in Stores |-> Settings(configFile)]
    /\ snapshotOK = [s \in Stores |-> ~configFile.legacy]
    /\ fileLock = NoRoutine
    /\ reloader = [s \in Stores |-> NoRoutine]
    /\ \E away \in SUBSET Routines :
         routine = [g \in Routines |->
                      [NoWork EXCEPT !.pc = IF g \in away THEN "error" ELSE "idle"]]
    /\ issued = 1
    /\ expired = 0
    /\ died = {}
    /\ lostTokens = {}
    /\ trampled = {}
    /\ overtaken = {}
    /\ unwritten = {}

(* A routine goes on to pc, with what it has or with nothing.              *)
At(g, pc) == routine[g].pc = pc
Go(g, pc) == routine' = [routine EXCEPT ![g].pc = pc]
Done(g, pc) == routine' = [routine EXCEPT ![g] = [NoWork EXCEPT !.pc = pc]]
Free == fileLock = NoRoutine

(* Where the caller's field is in the file.                                *)
Committed == {"reload", "migrate", "style", "restyle", "clean", "rewrite",
              "load", "swap", "snapshot", "key", "ok"}

(* The wait for the file lock is bounded, the one for the store's own      *)
(* mutex is not.                                                           *)
LockTimesOut(g) == ~Free /\ StoreOf[fileLock] # StoreOf[g]

UNCHANGEDFile == UNCHANGED <<configFile, snapshotOK, trampled, overtaken, unwritten>>

(* Any write of the file makes every snapshot stale; a reload between its  *)
(* read and its snapshot has been overtaken.                               *)
Replace(f) ==
    /\ configFile' = f
    /\ snapshotOK' = [s \in Stores |-> FALSE]
    /\ overtaken' = overtaken \cup
         {s \in Stores : \E g \in Routines :
             g = reloader[s] /\ routine[g].pc \in {"swap", "snapshot"}}

-----------------------------------------------------------------------------
(* RefreshOAuthToken.                                                      *)

StartRefresh(g) ==
    /\ At(g, "idle")
    /\ routine' = [routine EXCEPT ![g].pc = "check",
                                  ![g].held = inMemory[StoreOf[g]].token]
    /\ UNCHANGEDFile
    /\ UNCHANGED <<inMemory, fileLock, reloader, issued, expired, died, lostTokens>>

(* A token on disk helps when it is another one and still good.            *)
Helps(g, t) == t > expired /\ t # routine[g].held

Misses(g) == IF At(g, "check") THEN Go(g, "exchange") ELSE Done(g, "error")

(* The look at the file before the exchange, and the one after it failed:  *)
(* under the lock, or not at all when the lock is not to be had.           *)
LookUp(g) ==
    /\ At(g, "check") \/ At(g, "recheck")
    /\ \/ /\ Free
          /\ IF Helps(g, configFile.token)
               THEN routine' = [routine EXCEPT ![g].pc = "apply", ![g].got = configFile.token]
               ELSE Misses(g)
       \/ LockTimesOut(g) /\ Misses(g)
    /\ UNCHANGEDFile
    /\ UNCHANGED <<inMemory, fileLock, reloader, issued, expired, died, lostTokens>>

(* The answer of the provider may be lost.                                 *)
Exchange(g) ==
    /\ At(g, "exchange") /\ routine[g].held = issued /\ issued < MaxTokens
    /\ issued' = issued + 1
    /\ \/ /\ routine' = [routine EXCEPT ![g].pc = "remember", ![g].got = issued + 1]
          /\ UNCHANGED lostTokens
       \/ /\ Go(g, "recheck")
          /\ lostTokens' = lostTokens \cup {issued + 1}
    /\ UNCHANGEDFile
    /\ UNCHANGED <<inMemory, fileLock, reloader, expired, died>>

(* Refused, or never asked.                                                *)
ExchangeFails(g) ==
    /\ At(g, "exchange")
    /\ Go(g, "recheck")
    /\ UNCHANGEDFile
    /\ UNCHANGED <<inMemory, fileLock, reloader, issued, expired, died, lostTokens>>

(* The token goes into memory; one that is not from disk is then written.  *)
(* The one found on disk may not be the file's any more: another refresher *)
(* may have written a newer one since, or a migration an older one back.   *)
Remember(g) ==
    /\ At(g, "apply") \/ At(g, "remember")
    /\ inMemory' = [inMemory EXCEPT ![StoreOf[g]].token = routine[g].got]
    /\ overtaken' = IF At(g, "apply") /\ routine[g].got # configFile.token
                      THEN overtaken \cup {StoreOf[g]} ELSE overtaken
    /\ IF At(g, "apply") THEN Done(g, "ok") ELSE Go(g, "lock")
    /\ UNCHANGED <<configFile, snapshotOK, trampled, unwritten>>
    /\ UNCHANGED <<fileLock, reloader, issued, expired, died, lostTokens>>

-----------------------------------------------------------------------------
(* The setters, which end in SetConfigFields or RemoveConfigField: lock,   *)
(* read, write, release, reload.                                           *)

(* Some change memory before they ask for the lock (UpdatePreferredModel,  *)
(* SetCompactMode, SetTransparentBackground), others leave that to the     *)
(* reload.  recordRecentModel is of the first kind and writes a whole      *)
(* list: what it finds in memory, with its own model in front.             *)
StartSet(g) ==
    LET s == StoreOf[g]
    IN  /\ At(g, "idle")
        /\ \/ inMemory' = [inMemory EXCEPT ![s].fields = @ \cup {g}]
           \/ g \notin Recents /\ UNCHANGED inMemory
        /\ routine' = [routine EXCEPT ![g].pc = "lock",
               ![g].list = {g} \cup (IF g \in Recents THEN Recents \cap inMemory[s].fields ELSE {})]
        /\ UNCHANGEDFile
        /\ UNCHANGED <<fileLock, reloader, issued, expired, died, lostTokens>>

(* Mistake: the file is read before the lock is asked for.                 *)
ReadAndLock(g) ==
    \/ /\ At(g, "lock")
       /\ IF routine[g].data = NoFile0
            THEN /\ routine' = [routine EXCEPT ![g].data = configFile]
                 /\ UNCHANGED fileLock
            ELSE /\ Free
                 /\ fileLock' = g
                 /\ Go(g, "write")
       /\ UNCHANGEDFile
       /\ UNCHANGED <<inMemory, reloader, issued, expired, died, lostTokens>>

LockAndRead(g) ==
    /\ At(g, "lock")
    /\ Free
    /\ fileLock' = g
    /\ routine' = [routine EXCEPT ![g].pc = "write", ![g].data = configFile]
    /\ UNCHANGEDFile
    /\ UNCHANGED <<inMemory, reloader, issued, expired, died, lostTokens>>

(* The call returns the error; what it has changed in memory stays.        *)
GivesUp(g) ==
    /\ Done(g, "error")
    /\ lostTokens' = lostTokens \cup {routine[g].got}
    /\ unwritten' = unwritten \cup ({g} \cap inMemory[StoreOf[g]].fields)
    /\ UNCHANGED <<configFile, snapshotOK, trampled, overtaken>>

LockFails(g) ==
    /\ At(g, "lock") /\ LockTimesOut(g)
    /\ GivesUp(g)
    /\ UNCHANGED <<inMemory, fileLock, reloader, issued, expired, died>>

(* The models of the list in the file that are not in the one to write.    *)
Dropped(g) == IF g \in Recents THEN Recents \ routine[g].list ELSE {}

Edited(g, f) ==
    IF g \in Setters THEN [f EXCEPT !.fields = (@ \cup routine[g].list) \ Dropped(g)]
                     ELSE [f EXCEPT !.token = routine[g].got]

WriteField(g) ==
    /\ At(g, "write")
    /\ Replace(Edited(g, routine[g].data))
    /\ trampled' = trampled \cup (configFile.fields \cap Dropped(g))
    /\ lostTokens' = IF g \in Refreshers /\ routine[g].got < configFile.token
                       THEN lostTokens \cup {configFile.token} ELSE lostTokens
    /\ fileLock' = NoRoutine
    /\ Done(g, "reload")
    /\ UNCHANGED <<inMemory, reloader, issued, expired, died, unwritten>>

(* The file cannot be read, edited or replaced.                            *)
WriteFieldFails(g) ==
    /\ At(g, "write")
    /\ fileLock' = NoRoutine
    /\ GivesUp(g)
    /\ UNCHANGED <<inMemory, reloader, issued, expired, died>>

(* After the reload SetProviderAPIKey puts the key into memory by itself;  *)
(* nobody else has anything left to do.                                    *)
Returns(g) == \/ Done(g, "ok")
              \/ g \in Setters \ Recents /\ Done(g, "key")

KeyIntoMemory(g) ==
    /\ At(g, "key")
    /\ inMemory' = [inMemory EXCEPT ![StoreOf[g]].fields = @ \cup {g}]
    /\ overtaken' = IF g \in configFile.fields THEN overtaken ELSE overtaken \cup {StoreOf[g]}
    /\ Done(g, "ok")
    /\ UNCHANGED <<configFile, snapshotOK, trampled, unwritten>>
    /\ UNCHANGED <<fileLock, reloader, issued, expired, died, lostTokens>>

(* autoReload: skipped when the store is being reloaded.                   *)
TryReload(g) ==
    /\ At(g, "reload")
    /\ IF reloader[StoreOf[g]] = NoRoutine
         THEN /\ reloader' = [reloader EXCEPT ![StoreOf[g]] = g]
              /\ Go(g, "migrate")
         ELSE /\ Returns(g)
              /\ UNCHANGED reloader
    /\ UNCHANGEDFile
    /\ UNCHANGED <<inMemory, fileLock, issued, expired, died, lostTokens>>

-----------------------------------------------------------------------------
(* reloadFromDiskLocked.                                                   *)

(* migrateDisableNotifications looks whether the field is there, then     *)
(* twice reads the file again and writes it back whole: to say the same in *)
(* another field, when that has to be said, and to take the old one out.   *)
(* What it cannot read or write it leaves.                                 *)
MigrateCheck(g) ==
    /\ At(g, "migrate")
    /\ Go(g, IF configFile.legacy THEN "style" ELSE "load")
    /\ UNCHANGEDFile
    /\ UNCHANGED <<inMemory, fileLock, reloader, issued, expired, died, lostTokens>>

MigrateTo(g, pc) == routine' = [routine EXCEPT ![g].pc = pc, ![g].data = configFile]

MigrateRead(g) ==
    /\ \/ At(g, "style") /\ (MigrateTo(g, "restyle") \/ Go(g, "clean"))
       \/ At(g, "clean") /\ (MigrateTo(g, "rewrite") \/ Go(g, "load"))
    /\ UNCHANGEDFile
    /\ UNCHANGED <<inMemory, fileLock, reloader, issued, expired, died, lostTokens>>

MigrateWrite(g) ==
    /\ \/ At(g, "restyle") /\ Replace(routine[g].data) /\ Done(g, "clean")
       \/ At(g, "rewrite") /\ Replace([routine[g].data EXCEPT !.legacy = FALSE]) /\ Done(g, "load")
    /\ trampled' = trampled \cup (configFile.fields \ routine[g].data.fields)
    /\ lostTokens' = IF configFile.token # routine[g].data.token
                       THEN lostTokens \cup {configFile.token} ELSE lostTokens
    /\ UNCHANGED <<inMemory, fileLock, reloader, issued, expired, died, unwritten>>

LoadFile(g) ==
    /\ At(g, "load")
    /\ routine' = [routine EXCEPT ![g].pc = "swap", ![g].data = configFile]
    /\ UNCHANGEDFile
    /\ UNCHANGED <<inMemory, fileLock, reloader, issued, expired, died, lostTokens>>

Unlock(g) == reloader' = [reloader EXCEPT ![StoreOf[g]] = NoRoutine]

(* Mistake: a reload that failed has cleared the dirty state.              *)
ReloadFailsClean(g) ==
    /\ At(g, "swap")
    /\ Unlock(g)
    /\ Returns(g)
    /\ snapshotOK' = [snapshotOK EXCEPT ![StoreOf[g]] = TRUE]
    /\ UNCHANGED <<configFile, trampled, overtaken, unwritten>>
    /\ UNCHANGED <<inMemory, fileLock, issued, expired, died, lostTokens>>

(* Providers, hooks or models of the new file do not work out: the store   *)
(* keeps, or gets back, what it had.                                       *)
ReloadFails(g) ==
    /\ At(g, "swap")
    /\ Unlock(g)
    /\ Returns(g)
    /\ UNCHANGEDFile
    /\ UNCHANGED <<inMemory, fileLock, issued, expired, died, lostTokens>>

SwapConfig(g) ==
    /\ At(g, "swap")
    /\ inMemory' = [inMemory EXCEPT ![StoreOf[g]] = Settings(routine[g].data)]
    /\ Done(g, "snapshot")
    /\ UNCHANGEDFile
    /\ UNCHANGED <<fileLock, reloader, issued, expired, died, lostTokens>>

(* The snapshot is of the file as it is now, not as it was read.           *)
CaptureSnapshot(g) ==
    /\ At(g, "snapshot")
    /\ snapshotOK' = [snapshotOK EXCEPT ![StoreOf[g]] = TRUE]
    /\ Unlock(g)
    /\ Returns(g)
    /\ UNCHANGED <<configFile, inMemory, fileLock, issued, expired, died,
                   lostTokens, trampled, overtaken, unwritten>>

-----------------------------------------------------------------------------
TokenExpires ==
    /\ expired < issued
    /\ expired' = expired + 1
    /\ UNCHANGEDFile
    /\ UNCHANGED <<inMemory, fileLock, reloader, routine, issued, died, lostTokens>>

(* Has a token that is in nobody's file yet.                               *)
Carries(g) == routine[g].pc \in {"remember", "lock", "write"}

(* The kernel releases the lock of a process that dies.  Its calls end     *)
(* where they are, with what they have committed.                          *)
Dies(s) ==
    /\ s \notin died /\ Cardinality(died) < MaxDeaths
    /\ died' = died \cup {s}
    /\ fileLock' = IF ~Free /\ StoreOf[fileLock] = s THEN NoRoutine ELSE fileLock
    /\ reloader' = [reloader EXCEPT ![s] = NoRoutine]
    /\ routine' = [g \in Routines |->
         IF StoreOf[g] # s THEN routine[g]
         ELSE [NoWork EXCEPT !.pc = IF routine[g].pc \in Committed THEN "ok" ELSE "error"]]
    /\ inMemory' = [inMemory EXCEPT ![s] = Settings(NoFile0)]
    /\ snapshotOK' = [snapshotOK EXCEPT ![s] = FALSE]
    /\ lostTokens' = lostTokens \cup
         {routine[g].got : g \in {r \in Refreshers : StoreOf[r] = s /\ Carries(r)}}
    /\ UNCHANGED <<configFile, trampled, overtaken, unwritten, issued, expired>>

ConfigNext ==
    \/ \E g \in Refreshers :
         \/ StartRefresh(g) \/ LookUp(g)
         \/ Exchange(g) \/ ExchangeFails(g) \/ Remember(g)
    \/ \E g \in Setters : StartSet(g) \/ KeyIntoMemory(g)
    \/ \E g \in Routines :
         \/ LockAndRead(g) \/ LockFails(g) \/ WriteField(g) \/ WriteFieldFails(g)
         \/ TryReload(g) \/ MigrateCheck(g) \/ MigrateRead(g) \/ MigrateWrite(g) \/ LoadFile(g)
         \/ ReloadFails(g) \/ SwapConfig(g) \/ CaptureSnapshot(g)
    \/ TokenExpires
    \/ \E s \in Stores : Dies(s)

ConfigSpec == ConfigInit /\ [][ConfigNext]_configVars

-----------------------------------------------------------------------------
(* What was committed stays.  A field somebody set is in the file whatever *)
(* other stores write, and the newest token is in the file or with a       *)
(* refresher that is going to write it: with refresh tokens that are used  *)
(* once, everybody is logged out otherwise.  Not so for what a migration   *)
(* wrote over without the lock (load.go:867, 888), for a recent model that *)
(* was not in the memory of the next store to write the list               *)
(* (store.go:523), for a token whose process died, or whose answer, lock   *)
(* or write failed, and for one that a refresher that got its own earlier  *)
(* writes over (store.go:451).                                             *)
CommittedIsKept ==
    /\ \A g \in Setters : routine[g].pc \in Committed => g \in configFile.fields \cup trampled
    /\ \/ configFile.token = issued
       \/ issued \in lostTokens
       \/ \E g \in Refreshers : routine[g].got = issued /\ Carries(g)

(* A store that reports itself clean has in memory what is in the file,    *)
(* once its own writers and reloads are through; but not if the file was   *)
(* written between a reload's read of it and the snapshot (store.go:742,   *)
(* 830), if a refresh took a token from the file that is no longer there   *)
(* (store.go:405), or a key came after its field had gone (store.go:345).  *)
(* Nor for a token that was never written, or a field that was changed in  *)
(* memory before a write that failed (store.go:286, 301, 310, 540): that   *)
(* stays in memory alone.                                                  *)
CleanIsFresh ==
    \A s \in Stores :
        LET quiet == \A g \in Routines :
                       StoreOf[g] = s => routine[g].pc \in {"idle", "ok", "error"}
        IN  quiet /\ snapshotOK[s] /\ s \notin died \cup overtaken =>
              /\ inMemory[s].token \in {configFile.token} \cup lostTokens
              /\ configFile.fields \subseteq inMemory[s].fields
              /\ inMemory[s].fields \subseteq configFile.fields \cup unwritten
=============================================================================
