-------------------------- MODULE WorkspacesProofs --------------------------
(***************************************************************************)
(* The registry of workspaces, for any number of calls, clients, paths,     *)
(* runs and teardowns.  RegistryInv is inductive: the index and the map      *)
(* name the same workspaces (IndexInv), only live ones are claimed           *)
(* (ClaimInv), what is closing or cleaned up has left the map for good        *)
(* (GoneInv), a teardown beyond its check works on such a workspace           *)
(* (TeardownInv), and no run is in one that is being cleaned up (RunInv).     *)
(* The references of the pool are counted in an invariant of their own,       *)
(* PoolInv: it needs that finitely many calls hold one, which follows from     *)
(* the steps and is not assumed of the calls.                                *)
(***************************************************************************)
EXTENDS Workspaces, TLAPS, FiniteSetTheorems

CreateStates ==
    [at : {"start", "build", "built", "discard", "done", "found", "failed"},
     client : Clients \cup {None}, path : Paths \cup {None}]

TeardownStates ==
    [at : {"idle", "enter", "mark", "cancel", "wait", "cleanup", "stop"},
     ws : Creates \cup {None}, last : BOOLEAN]

RunStates ==
    [at : {"start", "accepted", "running", "done", "rejected"}, ws : Creates \cup {None}]

(* Whoever began a call is known.                                          *)
NamedInv ==
    \A k \in Creates :
        create[k].at # "start" => create[k].client \in Clients /\ create[k].path \in Paths

IndexInv ==
    /\ \A w \in workspaces : create[w].at = "done" /\ pathIndex[create[w].path] = w
    /\ \A p \in Paths : pathIndex[p] # None =>
         pathIndex[p] \in workspaces /\ create[pathIndex[p]].path = p

ClaimInv == \A w \in Creates, c \in Clients : clients[w][c] # NoClaim => w \in workspaces

GoneInv ==
    \A w \in Creates :
        /\ cleaned[w] # 0 => w \in closing
        /\ w \in closing => w \notin workspaces /\ create[w].at = "done"

TeardownInv ==
    \A g \in Teardowns : td[g].at # "idle" =>
        /\ td[g].ws \in Creates /\ create[td[g].ws].at = "done"
        /\ td[g].at # "enter" => td[g].ws \notin workspaces
        /\ td[g].at \in {"cancel", "wait", "cleanup", "stop"} => td[g].ws \in closing

RunInv ==
    \A r \in Runs :
        /\ run[r].at # "start" => run[r].ws \in Creates /\ create[run[r].ws].at = "done"
        /\ run[r].at = "running" =>
             /\ cleaned[run[r].ws] = 0
             /\ \A g \in Teardowns : td[g].at = "cleanup" => td[g].ws # run[r].ws

RegistryInv == TypeOK /\ NamedInv /\ IndexInv /\ ClaimInv /\ GoneInv /\ TeardownInv /\ RunInv

-----------------------------------------------------------------------------
LEMMA CreateMember ==
    ASSUME TypeOK, NEW k \in Creates
    PROVE  /\ create[k] \in CreateStates
           /\ create[k].at \in {"start", "build", "built", "discard", "done", "found", "failed"}
           /\ create[k].client \in Clients \cup {None}
           /\ create[k].path \in Paths \cup {None}
           /\ create[k] = [at |-> create[k].at, client |-> create[k].client, path |-> create[k].path]
  BY DEF TypeOK, CreateStates

LEMMA TeardownMember ==
    ASSUME TypeOK, NEW g \in Teardowns
    PROVE  /\ td[g] \in TeardownStates
           /\ td[g].at \in {"idle", "enter", "mark", "cancel", "wait", "cleanup", "stop"}
           /\ td[g].ws \in Creates \cup {None}
           /\ td[g].last \in BOOLEAN
  BY DEF TypeOK, TeardownStates

LEMMA RunMember ==
    ASSUME TypeOK, NEW r \in Runs
    PROVE  /\ run[r] \in RunStates
           /\ run[r].at \in {"start", "accepted", "running", "done", "rejected"}
           /\ run[r].ws \in Creates \cup {None}
  BY DEF TypeOK, RunStates

LEMMA ClaimMember ==
    ASSUME TypeOK, NEW w \in Creates, NEW c \in Clients
    PROVE  /\ clients[w] \in [Clients -> Claim]
           /\ clients[w][c] \in Claim
           /\ clients[w][c].streams \in Nat
           /\ clients[w][c].hold \in Creates \cup {None}
           /\ clients[w][c] = [streams |-> clients[w][c].streams, hold |-> clients[w][c].hold]
  BY DEF TypeOK, Claim

(* A hold names a call, so it is a claim. *)
LEMMA NoClaimIsClaim == NoClaim \in Claim /\ \A k \in Creates : [streams |-> 0, hold |-> k] # NoClaim
  BY NamesAssumption DEF NoClaim, Claim

-----------------------------------------------------------------------------
(* What the writes of one entry leave. *)

LEMMA CreateMoves ==
    ASSUME TypeOK, NEW k \in Creates,
           NEW l \in {"start", "build", "built", "discard", "done", "found", "failed"},
           CreateGoto(k, l)
    PROVE  /\ create' \in [Creates -> CreateStates]
           /\ create'[k].at = l
           /\ create'[k].path = create[k].path /\ create'[k].client = create[k].client
           /\ \A j \in Creates \ {k} : create'[j] = create[j]
  <1>1. create \in [Creates -> CreateStates]
    BY DEF TypeOK, CreateStates
  <1>2. create[k] \in CreateStates /\ [create[k] EXCEPT !.at = l] \in CreateStates
    BY <1>1 DEF CreateStates
  <1> QED
    BY <1>1, <1>2 DEF CreateGoto, CreateStates

LEMMA TdMoves ==
    ASSUME TypeOK, NEW g \in Teardowns,
           NEW l \in {"idle", "enter", "mark", "cancel", "wait", "cleanup", "stop"},
           TdGoto(g, l)
    PROVE  /\ td' \in [Teardowns -> TeardownStates]
           /\ td'[g].at = l
           /\ td'[g].ws = td[g].ws
           /\ \A h \in Teardowns \ {g} : td'[h] = td[h]
  <1>1. td \in [Teardowns -> TeardownStates]
    BY DEF TypeOK, TeardownStates
  <1>2. td[g] \in TeardownStates /\ [td[g] EXCEPT !.at = l] \in TeardownStates
    BY <1>1 DEF TeardownStates
  <1> QED
    BY <1>1, <1>2 DEF TdGoto, TeardownStates

LEMMA IdleMoves ==
    ASSUME TypeOK, NEW g \in Teardowns, Idle(g)
    PROVE  /\ td' \in [Teardowns -> TeardownStates]
           /\ td'[g].at = "idle"
           /\ \A h \in Teardowns \ {g} : td'[h] = td[h]
  BY DEF TypeOK, Idle, TeardownStates

LEMMA RunMoves ==
    ASSUME TypeOK, NEW r \in Runs,
           NEW l \in {"start", "accepted", "running", "done", "rejected"}, RunGoto(r, l)
    PROVE  /\ run' \in [Runs -> RunStates]
           /\ run'[r].at = l
           /\ run'[r].ws = run[r].ws
           /\ \A q \in Runs \ {r} : run'[q] = run[q]
  <1>1. run \in [Runs -> RunStates]
    BY DEF TypeOK, RunStates
  <1>2. run[r] \in RunStates /\ [run[r] EXCEPT !.at = l] \in RunStates
    BY <1>1 DEF RunStates
  <1> QED
    BY <1>1, <1>2 DEF RunGoto, RunStates

LEMMA ClaimMoves ==
    ASSUME TypeOK, NEW w \in Creates, NEW c \in Clients, NEW cs \in Claim,
           clients' = [clients EXCEPT ![w][c] = cs]
    PROVE  /\ clients' \in [Creates -> [Clients -> Claim]]
           /\ clients'[w][c] = cs
           /\ \A v \in Creates, d \in Clients : v # w \/ d # c => clients'[v][d] = clients[v][d]
  BY DEF TypeOK

LEMMA StopTimerType ==
    ASSUME TypeOK, NEW w \in Creates, NEW c \in Clients, StopTimer(w, c)
    PROVE  timer' \in [Creates -> {"none", "armed", "fired"}]
  BY DEF TypeOK, StopTimer

LEMMA PoolType ==
    ASSUME TypeOK, NEW p, Connect(p) \/ Release(p)
    PROVE  refs' \in [Paths -> Nat]
  BY DEF TypeOK, Connect, Release

-----------------------------------------------------------------------------
(* What is left alone: a step keeps the calls that are done.                *)
DoneKept == \A k \in Creates : create[k].at = "done" => create'[k] = create[k]

LEMMA CreateGotoKeeps ==
    ASSUME TypeOK, NEW k \in Creates, create[k].at # "done",
           \A j \in Creates \ {k} : create'[j] = create[j]
    PROVE  DoneKept
  BY DEF DoneKept

LEMMA IndexKept ==
    ASSUME RegistryInv, DoneKept, UNCHANGED <<workspaces, pathIndex>>
    PROVE  IndexInv'
  BY DEF RegistryInv, TypeOK, IndexInv, DoneKept

LEMMA GoneKept ==
    ASSUME RegistryInv, DoneKept, UNCHANGED <<workspaces, closing, cleaned>>
    PROVE  GoneInv'
  BY DEF RegistryInv, GoneInv, DoneKept

(* A workspace that is done never enters the map again.                     *)
LEMMA TeardownKept ==
    ASSUME RegistryInv, DoneKept, UNCHANGED td, closing \subseteq closing',
           \A w \in Creates : create[w].at = "done" /\ w \notin workspaces => w \notin workspaces'
    PROVE  TeardownInv'
  BY DEF RegistryInv, TeardownInv, DoneKept

LEMMA RunKept ==
    ASSUME RegistryInv, DoneKept, UNCHANGED <<run, td>>,
           \A w \in Creates : create[w].at = "done" => cleaned'[w] = cleaned[w]
    PROVE  RunInv'
  BY DEF RegistryInv, RunInv, DoneKept

LEMMA ClaimKept ==
    ASSUME RegistryInv, UNCHANGED clients, workspaces \subseteq workspaces'
    PROVE  ClaimInv'
  BY DEF RegistryInv, ClaimInv

(* The steps of the pool and of the timers.                                *)
LEMMA QuietStep ==
    ASSUME RegistryInv, TypeOK',
           UNCHANGED <<workspaces, pathIndex, clients, create, td, closing, cleaned, run>>
    PROVE  RegistryInv'
  <1>1. DoneKept
    BY DEF DoneKept
  <1>2. NamedInv'
    BY DEF RegistryInv, NamedInv
  <1> QED
    BY <1>1, <1>2, IndexKept, GoneKept, TeardownKept, RunKept, ClaimKept DEF RegistryInv

(* One teardown goes on.                                                    *)
LEMMA TeardownGoes ==
    ASSUME RegistryInv, NEW g \in Teardowns, UNCHANGED create,
           \A h \in Teardowns \ {g} : td'[h] = td[h],
           workspaces' \subseteq workspaces, closing \subseteq closing',
           td'[g].at # "idle" =>
             /\ td'[g].ws \in Creates /\ create[td'[g].ws].at = "done"
             /\ td'[g].at # "enter" => td'[g].ws \notin workspaces'
             /\ td'[g].at \in {"cancel", "wait", "cleanup", "stop"} => td'[g].ws \in closing'
    PROVE  TeardownInv'
  <1> SUFFICES ASSUME NEW h \in Teardowns, td'[h].at # "idle"
               PROVE  /\ td'[h].ws \in Creates /\ create'[td'[h].ws].at = "done"
                      /\ td'[h].at # "enter" => td'[h].ws \notin workspaces'
                      /\ td'[h].at \in {"cancel", "wait", "cleanup", "stop"} =>
                           td'[h].ws \in closing'
    BY DEF TeardownInv, Teardowns
  <1>1. CASE h = g
    BY <1>1
  <1>2. CASE h # g
    <2>1. td'[h] = td[h]
      BY <1>2
    <2> QED
      BY <2>1 DEF RegistryInv, TeardownInv
  <1> QED
    BY <1>1, <1>2

LEMMA RunKeptBy ==
    ASSUME RegistryInv, NEW g \in Teardowns, UNCHANGED <<create, run, cleaned>>,
           \A h \in Teardowns \ {g} : td'[h] = td[h],
           td'[g].at # "cleanup"
    PROVE  RunInv'
  <1>1. \A h \in Teardowns : td'[h].at = "cleanup" => td'[h] = td[h]
    OBVIOUS
  <1> QED
    BY <1>1 DEF RegistryInv, RunInv, Teardowns

(* A goroutine starts to tear w down.                                       *)
LEMMA StartMoves ==
    ASSUME RegistryInv, NEW w \in Creates, create[w].at = "done", StartTeardown(w),
           UNCHANGED <<workspaces, create, closing, run, cleaned>>
    PROVE  /\ td' \in [Teardowns -> TeardownStates]
           /\ TeardownInv' /\ RunInv'
  <1>1. PICK g \in Teardowns : td' = [td EXCEPT ![g] = [at |-> "enter", ws |-> w, last |-> FALSE]]
    BY DEF StartTeardown
  <1>2. td \in [Teardowns -> TeardownStates]
    BY DEF RegistryInv, TypeOK, TeardownStates
  <1>3. [at |-> "enter", ws |-> w, last |-> FALSE] \in TeardownStates
    BY DEF TeardownStates
  <1>4. td' \in [Teardowns -> TeardownStates]
    BY <1>1, <1>2, <1>3
  <1>5. /\ td'[g].at = "enter" /\ td'[g].ws = w
        /\ \A h \in Teardowns \ {g} : td'[h] = td[h]
    BY <1>1, <1>2
  <1>6. TeardownInv'
    BY <1>5, TeardownGoes
  <1>7. RunInv'
    BY <1>5, RunKeptBy
  <1> QED
    BY <1>4, <1>6, <1>7

(* A claim on a live workspace changes, and its last one may start a teardown. *)
LEMMA ClaimStep ==
    ASSUME RegistryInv, NEW w \in workspaces, NEW c \in Clients, NEW cs \in Claim,
           clients' = [clients EXCEPT ![w][c] = cs],
           StartTeardown(w) \/ UNCHANGED td,
           timer' \in [Creates -> {"none", "armed", "fired"}],
           UNCHANGED <<index, create, refs, leaked, gate, run, stopped>>,
           opened' \in Nat, deletes' \in Nat, failures' \in Nat
    PROVE  RegistryInv'
  <1>1. TypeOK /\ w \in Creates /\ create[w].at = "done"
    BY DEF RegistryInv, TypeOK, IndexInv
  <1>2. UNCHANGED <<workspaces, pathIndex, create, refs, leaked, closing, ctxDone, cleaned, run, stopped>>
    BY DEF index, gate
  <1>3. /\ clients' \in [Creates -> [Clients -> Claim]]
        /\ \A v \in Creates, d \in Clients : v # w \/ d # c => clients'[v][d] = clients[v][d]
    BY <1>1, ClaimMoves
  <1>4. DoneKept
    BY <1>2 DEF DoneKept
  <1>5. td' \in [Teardowns -> TeardownStates] /\ TeardownInv' /\ RunInv'
    <2>1. CASE StartTeardown(w)
      BY <2>1, <1>1, <1>2, StartMoves
    <2>2. CASE UNCHANGED td
      BY <2>2, <1>1, <1>2, <1>4, TeardownKept, RunKept DEF TypeOK, TeardownStates
    <2> QED  BY <2>1, <2>2
  <1>6. TypeOK'
    BY <1>1, <1>2, <1>3, <1>5 DEF TypeOK, TeardownStates
  <1>7. ClaimInv'
    BY <1>1, <1>2, <1>3 DEF RegistryInv, ClaimInv
  <1>8. NamedInv'
    BY <1>2 DEF RegistryInv, NamedInv
  <1> QED
    BY <1>2, <1>4, <1>5, <1>6, <1>7, <1>8, IndexKept, GoneKept DEF RegistryInv

-----------------------------------------------------------------------------
(* CreateWorkspace, one lemma for each step. *)

(* A live workspace of p, with what Existing says of it.                    *)
LEMMA ExistingIsLive ==
    ASSUME RegistryInv, NEW p \in Paths
    PROVE  /\ \A w \in Existing(p) : w \in workspaces /\ w \in Creates /\ create[w].at = "done"
           /\ Existing(p) = {} => \A w \in workspaces : create[w].path # p
           /\ Existing(p) = {} => pathIndex[p] = None
  BY DEF RegistryInv, TypeOK, IndexInv, Existing

LEMMA RegisterMoves ==
    ASSUME TypeOK, NEW w \in Creates, NEW k \in Creates, NEW c \in Clients, Register(w, k, c)
    PROVE  /\ clients' \in [Creates -> [Clients -> Claim]]
           /\ timer' \in [Creates -> {"none", "armed", "fired"}]
           /\ \A v \in Creates, d \in Clients : v # w => clients'[v][d] = clients[v][d]
           /\ clients'[w][c] # NoClaim
  <1>1. PICK cs \in Claim : cs = [streams |-> 0, hold |-> k]
    BY DEF Claim
  <1>2. CASE clients[w][c] # NoClaim
    BY <1>2 DEF Register, claims, TypeOK
  <1>3. CASE clients[w][c] = NoClaim
    <2>1. /\ clients' = [clients EXCEPT ![w][c] = cs]
          /\ timer' = [timer EXCEPT ![k] = "armed"]
      BY <1>1, <1>3 DEF Register
    <2>2. /\ clients' \in [Creates -> [Clients -> Claim]]
          /\ clients'[w][c] = cs
          /\ \A v \in Creates, d \in Clients : v # w \/ d # c => clients'[v][d] = clients[v][d]
      BY <2>1, ClaimMoves
    <2>3. timer' \in [Creates -> {"none", "armed", "fired"}]
      BY <2>1 DEF TypeOK
    <2> QED
      BY <1>1, <2>2, <2>3, NoClaimIsClaim
  <1> QED
    BY <1>2, <1>3

(* A call that is not done claims a live workspace, or nothing, and goes on. *)
LEMMA CallStep ==
    ASSUME RegistryInv, NEW k \in Creates, create[k].at # "done",
           create' \in [Creates -> CreateStates],
           \A j \in Creates \ {k} : create'[j] = create[j],
           create'[k].client \in Clients, create'[k].path \in Paths,
           UNCHANGED <<workspaces, pathIndex, td, closing, ctxDone, cleaned, run, stopped>>,
           UNCHANGED claims \/
             (\E w \in workspaces : w \in Creates /\ Register(w, k, create'[k].client)),
           refs' \in [Paths -> Nat], leaked' \in [Paths -> Nat],
           opened' \in Nat, deletes' \in Nat, failures' \in Nat
    PROVE  RegistryInv'
  <1>1. TypeOK
    BY DEF RegistryInv
  <1>2. DoneKept
    BY <1>1, CreateGotoKeeps
  <1>3. NamedInv'
    BY DEF RegistryInv, NamedInv
  <1>4. /\ clients' \in [Creates -> [Clients -> Claim]]
        /\ timer' \in [Creates -> {"none", "armed", "fired"}]
        /\ ClaimInv'
    <2>1. CASE UNCHANGED claims
      BY <2>1, <1>1 DEF claims, TypeOK, RegistryInv, ClaimInv
    <2>2. CASE \E w \in workspaces : w \in Creates /\ Register(w, k, create'[k].client)
      <3>1. PICK w \in workspaces : w \in Creates /\ Register(w, k, create'[k].client)
        BY <2>2
      <3>2. /\ clients' \in [Creates -> [Clients -> Claim]]
            /\ timer' \in [Creates -> {"none", "armed", "fired"}]
            /\ \A v \in Creates, d \in Clients : v # w => clients'[v][d] = clients[v][d]
        BY <1>1, <3>1, RegisterMoves
      <3> QED
        BY <3>1, <3>2 DEF RegistryInv, ClaimInv
    <2> QED  BY <2>1, <2>2
  <1>5. TypeOK'
    BY <1>1, <1>4 DEF TypeOK, CreateStates
  <1> QED
    BY <1>2, <1>3, <1>4, <1>5, IndexKept, GoneKept, TeardownKept, RunKept DEF RegistryInv

LEMMA CreateFindsStep ==
    ASSUME RegistryInv, NEW k \in Creates, NEW c \in Clients, NEW p \in Paths, CreateFinds(k, c, p)
    PROVE  RegistryInv'
  <1>1. TypeOK
    BY DEF RegistryInv
  <1>2. /\ create' \in [Creates -> CreateStates]
        /\ create'[k].client = c /\ create'[k].path = p
        /\ \A j \in Creates \ {k} : create'[j] = create[j]
    BY <1>1 DEF CreateFinds, TypeOK, CreateStates
  <1>3. \E w \in workspaces : w \in Creates /\ Register(w, k, create'[k].client)
    BY <1>2, ExistingIsLive DEF CreateFinds
  <1> QED
    BY <1>1, <1>2, <1>3, CallStep DEF CreateFinds, index, gate, bounds, TypeOK

(* What it drops from the index is an entry of no live workspace.           *)
LEMMA CreateBuildsStep ==
    ASSUME RegistryInv, NEW k \in Creates, NEW c \in Clients, NEW p \in Paths, CreateBuilds(k, c, p)
    PROVE  RegistryInv'
  <1>1. TypeOK
    BY DEF RegistryInv
  <1>2. /\ create' \in [Creates -> CreateStates]
        /\ create'[k].client = c /\ create'[k].path = p
        /\ \A j \in Creates \ {k} : create'[j] = create[j]
    BY <1>1 DEF CreateBuilds, TypeOK, CreateStates
  <1>3. pathIndex' = pathIndex
    BY <1>1, ExistingIsLive DEF CreateBuilds, TypeOK
  <1> QED
    BY <1>1, <1>2, <1>3, CallStep DEF CreateBuilds, index, gate, bounds, TypeOK

LEMMA CreateConnectsStep ==
    ASSUME RegistryInv, NEW k \in Creates, CreateConnects(k)
    PROVE  RegistryInv'
  <1>1. TypeOK /\ create[k].client \in Clients /\ create[k].path \in Paths
    BY DEF RegistryInv, NamedInv, CreateConnects
  <1>2. /\ create' \in [Creates -> CreateStates]
        /\ create'[k].path = create[k].path /\ create'[k].client = create[k].client
        /\ \A j \in Creates \ {k} : create'[j] = create[j]
    BY <1>1, CreateMoves DEF CreateConnects
  <1>3. refs' \in [Paths -> Nat]
    BY <1>1, PoolType DEF CreateConnects
  <1> QED
    BY <1>1, <1>2, <1>3, CallStep DEF CreateConnects, index, gate, bounds, TypeOK

LEMMA CreateFailsStep ==
    ASSUME RegistryInv, NEW k \in Creates, CreateFails(k)
    PROVE  RegistryInv'
  <1>1. TypeOK /\ create[k].client \in Clients /\ create[k].path \in Paths
    BY DEF RegistryInv, NamedInv, CreateFails
  <1>2. /\ create' \in [Creates -> CreateStates]
        /\ create'[k].path = create[k].path /\ create'[k].client = create[k].client
        /\ \A j \in Creates \ {k} : create'[j] = create[j]
    BY <1>1, CreateMoves DEF CreateFails
  <1> QED
    BY <1>1, <1>2, CallStep DEF CreateFails, index, gate, TypeOK

LEMMA AppFailsStep ==
    ASSUME RegistryInv, NEW k \in Creates, AppFails(k)
    PROVE  RegistryInv'
  <1>1. TypeOK /\ create[k].client \in Clients /\ create[k].path \in Paths
    BY DEF RegistryInv, NamedInv, AppFails
  <1>2. /\ create' \in [Creates -> CreateStates]
        /\ create'[k].path = create[k].path /\ create'[k].client = create[k].client
        /\ \A j \in Creates \ {k} : create'[j] = create[j]
    BY <1>1, CreateMoves DEF AppFails
  <1>3. leaked' \in [Paths -> Nat]
    <2>1. leaked' = [leaked EXCEPT ![create[k].path] = leaked[create[k].path] + 1]
      BY DEF AppFails, Path
    <2> QED
      BY <1>1, <2>1 DEF TypeOK
  <1>4. /\ UNCHANGED <<workspaces, pathIndex, claims, td, closing, ctxDone, cleaned, run, stopped>>
        /\ refs' \in [Paths -> Nat]
        /\ opened' \in Nat /\ deletes' \in Nat /\ failures' \in Nat
    BY <1>1 DEF AppFails, index, gate, TypeOK
  <1>5. create[k].at # "done"
    BY DEF AppFails
  <1> QED
    BY <1>1, <1>2, <1>3, <1>4, <1>5, CallStep

LEMMA CreateLosesStep ==
    ASSUME RegistryInv, NEW k \in Creates, CreateLoses(k)
    PROVE  RegistryInv'
  <1>1. TypeOK /\ create[k].client \in Clients /\ create[k].path \in Paths
    BY DEF RegistryInv, NamedInv, CreateLoses
  <1>2. /\ create' \in [Creates -> CreateStates]
        /\ create'[k].path = create[k].path /\ create'[k].client = create[k].client
        /\ \A j \in Creates \ {k} : create'[j] = create[j]
    BY <1>1, CreateMoves DEF CreateLoses
  <1>3. \E w \in workspaces : w \in Creates /\ Register(w, k, create'[k].client)
    BY <1>1, <1>2, ExistingIsLive DEF CreateLoses, Path
  <1> QED
    BY <1>1, <1>2, <1>3, CallStep DEF CreateLoses, index, gate, bounds, TypeOK

LEMMA CreateInsertsStep ==
    ASSUME RegistryInv, NEW k \in Creates, CreateInserts(k)
    PROVE  RegistryInv'
  <1>1. TypeOK /\ create[k].client \in Clients /\ create[k].path \in Paths /\ create[k].at = "built"
    BY DEF RegistryInv, NamedInv, CreateInserts
  <1>2. /\ create' \in [Creates -> CreateStates]
        /\ create'[k].at = "done"
        /\ create'[k].path = create[k].path /\ create'[k].client = create[k].client
        /\ \A j \in Creates \ {k} : create'[j] = create[j]
    BY <1>1, CreateMoves DEF CreateInserts
  <1>3. /\ clients' \in [Creates -> [Clients -> Claim]]
        /\ timer' \in [Creates -> {"none", "armed", "fired"}]
        /\ \A v \in Creates, d \in Clients : v # k => clients'[v][d] = clients[v][d]
    BY <1>1, RegisterMoves DEF CreateInserts
  <1>4. /\ workspaces' = workspaces \cup {k}
        /\ pathIndex' = [pathIndex EXCEPT ![create[k].path] = k]
        /\ \A w \in workspaces : create[w].path # create[k].path
    BY <1>1, ExistingIsLive DEF CreateInserts, Path
  <1>5. UNCHANGED <<refs, leaked, td, closing, ctxDone, cleaned, run, stopped, opened, deletes, failures>>
    BY DEF CreateInserts, gate, bounds
  <1>6. DoneKept
    BY <1>1, <1>2, CreateGotoKeeps
  <1>7. TypeOK'
    BY <1>1, <1>2, <1>3, <1>4, <1>5 DEF TypeOK, CreateStates
  <1>8. NamedInv'
    BY <1>1, <1>2 DEF RegistryInv, NamedInv
  <1>9. IndexInv'
    <2>1. pathIndex'[create[k].path] = k
          /\ \A p \in Paths : p # create[k].path => pathIndex'[p] = pathIndex[p]
      BY <1>1, <1>4 DEF TypeOK
    <2>2. \A w \in workspaces : w \in Creates /\ w # k /\ create'[w] = create[w]
                                /\ create[w].path \in Paths
      BY <1>1, <1>2 DEF RegistryInv, NamedInv, IndexInv, TypeOK
    <2>3. ASSUME NEW w \in workspaces'
          PROVE  create'[w].at = "done" /\ pathIndex'[create'[w].path] = w
      <3>1. CASE w = k
        BY <3>1, <1>2, <2>1
      <3>2. CASE w \in workspaces
        BY <3>2, <1>4, <2>1, <2>2 DEF RegistryInv, IndexInv
      <3> QED  BY <3>1, <3>2, <1>4
    <2>4. ASSUME NEW p \in Paths, pathIndex'[p] # None
          PROVE  pathIndex'[p] \in workspaces' /\ create'[pathIndex'[p]].path = p
      <3>1. CASE p = create[k].path
        BY <3>1, <1>2, <1>4, <2>1
      <3>2. CASE p # create[k].path
        BY <3>2, <2>4, <1>4, <2>1, <2>2 DEF RegistryInv, IndexInv
      <3> QED  BY <3>1, <3>2
    <2> QED
      BY <2>3, <2>4 DEF IndexInv
  <1>10. ClaimInv'
    BY <1>3, <1>4 DEF RegistryInv, ClaimInv
  <1>11. GoneInv'
    BY <1>1, <1>4, <1>5, <1>6 DEF RegistryInv, GoneInv, DoneKept
  <1>12. TeardownInv'
    BY <1>1, <1>4, <1>5, <1>6, TeardownKept
  <1>13. RunInv'
    BY <1>5, <1>6, RunKept
  <1> QED
    BY <1>7, <1>8, <1>9, <1>10, <1>11, <1>12, <1>13 DEF RegistryInv

LEMMA CreateDiscardsStep ==
    ASSUME RegistryInv, NEW k \in Creates, CreateDiscards(k)
    PROVE  RegistryInv'
  <1>1. TypeOK /\ create[k].client \in Clients /\ create[k].path \in Paths /\ create[k].at = "discard"
    BY DEF RegistryInv, NamedInv, CreateDiscards
  <1>2. /\ create' \in [Creates -> CreateStates]
        /\ create'[k].at = "done"
        /\ create'[k].path = create[k].path /\ create'[k].client = create[k].client
        /\ \A j \in Creates \ {k} : create'[j] = create[j]
    BY <1>1, CreateMoves DEF CreateDiscards
  <1>3. UNCHANGED <<workspaces, pathIndex, clients, timer, leaked, td, run, stopped, opened, deletes, failures>>
    BY DEF CreateDiscards, index, claims, bounds
  <1>4. refs' \in [Paths -> Nat]
    BY <1>1, PoolType DEF CreateDiscards
  <1>5. /\ closing' = closing \cup {k} /\ ctxDone' = ctxDone \cup {k}
        /\ cleaned' \in [Creates -> Nat]
        /\ \A j \in Creates \ {k} : cleaned'[j] = cleaned[j]
    BY <1>1 DEF CreateDiscards, TypeOK
  <1>6. DoneKept
    BY <1>1, <1>2, CreateGotoKeeps
  <1>7. k \notin workspaces
    BY <1>1 DEF RegistryInv, IndexInv
  <1>8. TypeOK'
    BY <1>1, <1>2, <1>3, <1>4, <1>5 DEF TypeOK, CreateStates
  <1>9. NamedInv'
    BY <1>1, <1>2 DEF RegistryInv, NamedInv
  <1>10. GoneInv'
    BY <1>2, <1>3, <1>5, <1>6, <1>7 DEF RegistryInv, GoneInv, DoneKept
  <1>11. TeardownInv'
    BY <1>3, <1>5, <1>6, TeardownKept
  <1>12. RunInv'
    BY <1>1, <1>3, <1>5, <1>6, RunKept
  <1> QED
    BY <1>3, <1>6, <1>8, <1>9, <1>10, <1>11, <1>12, IndexKept, ClaimKept DEF RegistryInv

-----------------------------------------------------------------------------
(* The claims, one lemma for each step. *)

LEMMA AttachStep ==
    ASSUME RegistryInv, NEW w \in Creates, NEW c \in Clients, Attach(w, c)
    PROVE  RegistryInv'
  <1>1. TypeOK /\ w \in workspaces
    BY DEF RegistryInv, Attach
  <1>2. PICK cs \in Claim : cs = [NoClaim EXCEPT !.streams = clients[w][c].streams + 1]
    <2>1. PICK n \in Nat : n = clients[w][c].streams
      BY <1>1, ClaimMember
    <2>2. [NoClaim EXCEPT !.streams = n + 1] = [streams |-> n + 1, hold |-> None]
      BY DEF NoClaim
    <2> QED
      BY <2>1, <2>2 DEF Claim
  <1>3. clients' = [clients EXCEPT ![w][c] = cs]
    BY <1>2 DEF Attach
  <1>4. timer' \in [Creates -> {"none", "armed", "fired"}]
    BY <1>1, StopTimerType DEF Attach
  <1>5. opened' \in Nat /\ deletes' \in Nat /\ failures' \in Nat
    BY <1>1 DEF Attach, TypeOK
  <1> QED
    BY <1>1, <1>3, <1>4, <1>5, ClaimStep DEF Attach

LEMMA DetachStep ==
    ASSUME RegistryInv, NEW w \in Creates, NEW c \in Clients, Detach(w, c)
    PROVE  RegistryInv'
  <1>1. TypeOK /\ clients[w][c].streams > 0
    BY DEF RegistryInv, Detach
  <1>2. w \in workspaces
    BY <1>1 DEF RegistryInv, ClaimInv, NoClaim
  <1>3. PICK cs \in Claim : cs = [clients[w][c] EXCEPT !.streams = @ - 1]
    <2>1. PICK n \in Nat, h \in Creates \cup {None} : clients[w][c] = [streams |-> n, hold |-> h]
      BY <1>1, ClaimMember
    <2>2. n - 1 \in Nat
      BY <1>1, <2>1
    <2>3. [clients[w][c] EXCEPT !.streams = @ - 1] = [streams |-> n - 1, hold |-> h]
      BY <2>1
    <2> QED
      BY <2>2, <2>3 DEF Claim
  <1>4. clients' = [clients EXCEPT ![w][c] = cs] /\ (StartTeardown(w) \/ UNCHANGED td)
    BY <1>3 DEF Detach, Drop
  <1>5. timer' \in [Creates -> {"none", "armed", "fired"}]
    BY <1>1 DEF Detach, TypeOK
  <1>6. opened' \in Nat /\ deletes' \in Nat /\ failures' \in Nat
    BY <1>1 DEF Detach, TypeOK, bounds
  <1> QED
    BY <1>2, <1>4, <1>5, <1>6, ClaimStep DEF Detach

LEMMA DeleteStep ==
    ASSUME RegistryInv, NEW w \in Creates, NEW c \in Clients, Delete(w, c)
    PROVE  RegistryInv'
  <1>1. TypeOK /\ w \in workspaces
    BY DEF RegistryInv, Delete
  <1>2. PICK cs \in Claim : cs = IF clients[w][c].streams = 0 THEN NoClaim ELSE clients[w][c]
    BY <1>1, ClaimMember, NoClaimIsClaim
  <1>3. clients' = [clients EXCEPT ![w][c] = cs] /\ (StartTeardown(w) \/ UNCHANGED td)
    BY <1>2 DEF Delete, Drop
  <1>4. timer' \in [Creates -> {"none", "armed", "fired"}]
    BY <1>1, StopTimerType DEF Delete
  <1>5. opened' \in Nat /\ deletes' \in Nat /\ failures' \in Nat
    BY <1>1 DEF Delete, TypeOK
  <1> QED
    BY <1>1, <1>3, <1>4, <1>5, ClaimStep DEF Delete

LEMMA TimerFiresStep ==
    ASSUME RegistryInv, NEW k \in Creates, TimerFires(k)
    PROVE  RegistryInv'
  <1>1. TypeOK'
    BY DEF RegistryInv, TypeOK, TimerFires, index, gate, bounds
  <1> QED
    BY <1>1, QuietStep DEF TimerFires, index, gate

LEMMA ExpireHoldStep ==
    ASSUME RegistryInv, NEW k \in Creates, ExpireHold(k)
    PROVE  RegistryInv'
  <1>1. TypeOK
    BY DEF RegistryInv
  <1>2. timer' \in [Creates -> {"none", "armed", "fired"}]
    BY <1>1 DEF ExpireHold, TypeOK
  <1>3. opened' \in Nat /\ deletes' \in Nat /\ failures' \in Nat
    BY <1>1 DEF ExpireHold, TypeOK, bounds
  <1>4. CASE \E w \in Creates, c \in Clients : Holds(w, c, k)
    <2>1. PICK w \in Creates, c \in Clients : Holds(w, c, k) /\ Drop(w, c, NoClaim)
      BY <1>4 DEF ExpireHold
    <2>2. w \in workspaces
      BY <2>1, NoClaimIsClaim DEF RegistryInv, ClaimInv, Holds
    <2>3. clients' = [clients EXCEPT ![w][c] = NoClaim] /\ (StartTeardown(w) \/ UNCHANGED td)
      BY <2>1 DEF Drop
    <2> QED
      BY <1>2, <1>3, <2>2, <2>3, NoClaimIsClaim, ClaimStep DEF ExpireHold
  <1>5. CASE ~\E w \in Creates, c \in Clients : Holds(w, c, k)
    <2>1. UNCHANGED <<clients, td>>
      BY <1>5 DEF ExpireHold
    <2>2. TypeOK'
      BY <1>1, <1>2, <2>1 DEF TypeOK, ExpireHold, index, gate, bounds
    <2> QED
      BY <2>1, <2>2, QuietStep DEF ExpireHold, index, gate
  <1> QED
    BY <1>4, <1>5

-----------------------------------------------------------------------------
(* The teardown, one lemma for each step. *)

LEMMA TeardownAbortsStep ==
    ASSUME RegistryInv, NEW g \in Teardowns, TeardownAborts(g)
    PROVE  RegistryInv'
  <1>1. TypeOK
    BY DEF RegistryInv
  <1>2. /\ td' \in [Teardowns -> TeardownStates] /\ td'[g].at = "idle"
        /\ \A h \in Teardowns \ {g} : td'[h] = td[h]
    BY <1>1, IdleMoves DEF TeardownAborts
  <1>3. UNCHANGED <<workspaces, pathIndex, clients, timer, create, refs, leaked, closing, ctxDone, cleaned, run, stopped,
                    opened, deletes, failures>>
    BY DEF TeardownAborts, index, claims, gate, bounds
  <1>4. TypeOK' /\ DoneKept /\ NamedInv'
    BY <1>1, <1>2, <1>3 DEF TypeOK, TeardownStates, DoneKept, RegistryInv, NamedInv
  <1>5. TeardownInv' /\ RunInv'
    BY <1>2, <1>3, TeardownGoes, RunKeptBy
  <1> QED
    BY <1>3, <1>4, <1>5, IndexKept, GoneKept, ClaimKept DEF RegistryInv

LEMMA TeardownRemovesStep ==
    ASSUME RegistryInv, NEW g \in Teardowns, TeardownRemoves(g)
    PROVE  RegistryInv'
  <1>1. TypeOK
    BY DEF RegistryInv
  <1>2. PICK w \in Creates : w = td[g].ws /\ create[w].at = "done" /\ td[g].at = "enter"
    BY DEF RegistryInv, TeardownInv, TeardownRemoves
  <1>3. \A c \in Clients : clients[w][c] = NoClaim
    BY <1>2 DEF TeardownRemoves, Claims
  <1>4. create[w].path \in Paths
    BY <1>2 DEF RegistryInv, NamedInv
  <1>5. /\ workspaces' = workspaces \ {w}
        /\ pathIndex' = [pathIndex EXCEPT ![create[w].path] =
                            IF pathIndex[create[w].path] = w THEN None ELSE pathIndex[create[w].path]]
    BY <1>2 DEF TeardownRemoves, Path
  <1>6. UNCHANGED <<clients, timer, create, refs, leaked, closing, ctxDone, cleaned, run, stopped,
                    opened, deletes, failures>>
    BY DEF TeardownRemoves, claims, gate, bounds
  <1>7. /\ td' \in [Teardowns -> TeardownStates]
        /\ td'[g].at = "mark" /\ td'[g].ws = w
        /\ \A h \in Teardowns \ {g} : td'[h] = td[h]
    <2>1. PICK b \in BOOLEAN : td' = [td EXCEPT ![g].at = "mark", ![g].last = b]
      BY DEF TeardownRemoves
    <2>2. td \in [Teardowns -> TeardownStates]
      BY <1>1 DEF TypeOK, TeardownStates
    <2>3. [[td[g] EXCEPT !.at = "mark"] EXCEPT !.last = b] \in TeardownStates
      BY <2>2 DEF TeardownStates
    <2> QED
      BY <1>2, <2>1, <2>2, <2>3 DEF TeardownStates
  <1>8. pathIndex' \in [Paths -> Creates \cup {None}]
    BY <1>1, <1>4, <1>5 DEF TypeOK
  <1>9. TypeOK'
    BY <1>1, <1>5, <1>6, <1>7, <1>8 DEF TypeOK, TeardownStates
  <1>10. NamedInv'
    BY <1>6 DEF RegistryInv, NamedInv
  <1>11. IndexInv'
    <2>1. pathIndex'[create[w].path] # w
          /\ (pathIndex[create[w].path] # w => pathIndex'[create[w].path] = pathIndex[create[w].path])
          /\ (pathIndex[create[w].path] = w => pathIndex'[create[w].path] = None)
          /\ \A p \in Paths : p # create[w].path => pathIndex'[p] = pathIndex[p]
      BY <1>1, <1>2, <1>4, <1>5, NamesAssumption DEF TypeOK
    <2>2. ASSUME NEW v \in workspaces'
          PROVE  create'[v].at = "done" /\ pathIndex'[create'[v].path] = v
      <3>1. v \in workspaces /\ v # w /\ v \in Creates
        BY <1>1, <1>5 DEF TypeOK
      <3>2. create[v].at = "done" /\ pathIndex[create[v].path] = v /\ create[v].path \in Paths
        BY <3>1 DEF RegistryInv, IndexInv, NamedInv
      <3> QED
        BY <1>6, <2>1, <3>1, <3>2
    <2>3. ASSUME NEW p \in Paths, pathIndex'[p] # None
          PROVE  pathIndex'[p] \in workspaces' /\ create'[pathIndex'[p]].path = p
      <3>1. pathIndex'[p] = pathIndex[p] /\ pathIndex[p] # w
        <4>1. CASE p = create[w].path
          BY <4>1, <2>1, <2>3
        <4>2. CASE p # create[w].path
          <5>1. pathIndex[p] # None /\ pathIndex'[p] = pathIndex[p]
            BY <2>1, <2>3, <4>2
          <5> QED
            BY <4>2, <5>1 DEF RegistryInv, IndexInv
        <4> QED  BY <4>1, <4>2
      <3> QED
        BY <1>5, <1>6, <2>3, <3>1 DEF RegistryInv, IndexInv
    <2> QED
      BY <2>2, <2>3 DEF IndexInv
  <1>12. ClaimInv'
    BY <1>3, <1>5, <1>6 DEF RegistryInv, ClaimInv
  <1>13. GoneInv'
    BY <1>5, <1>6 DEF RegistryInv, GoneInv
  <1>14. TeardownInv'
    BY <1>2, <1>5, <1>6, <1>7, TeardownGoes
  <1>15. RunInv'
    BY <1>6, <1>7, RunKeptBy
  <1> QED
    BY <1>9, <1>10, <1>11, <1>12, <1>13, <1>14, <1>15 DEF RegistryInv

LEMMA MarkClosingStep ==
    ASSUME RegistryInv, NEW g \in Teardowns, MarkClosing(g)
    PROVE  RegistryInv'
  <1>1. TypeOK
    BY DEF RegistryInv
  <1>2. PICK w \in Creates : w = td[g].ws /\ create[w].at = "done" /\ w \notin workspaces
    BY DEF RegistryInv, TeardownInv, MarkClosing
  <1>3. /\ td' \in [Teardowns -> TeardownStates]
        /\ td'[g].at = "cancel" /\ td'[g].ws = w
        /\ \A h \in Teardowns \ {g} : td'[h] = td[h]
    BY <1>1, <1>2, TdMoves DEF MarkClosing
  <1>4. closing' = closing \cup {w}
    BY <1>2 DEF MarkClosing
  <1>5. UNCHANGED <<workspaces, pathIndex, clients, timer, create, refs, leaked, ctxDone, cleaned, run, stopped,
                    opened, deletes, failures>>
    BY DEF MarkClosing, index, claims, bounds
  <1>6. TypeOK' /\ DoneKept /\ NamedInv'
    BY <1>1, <1>3, <1>4, <1>5 DEF TypeOK, TeardownStates, DoneKept, RegistryInv, NamedInv
  <1>7. GoneInv'
    BY <1>2, <1>4, <1>5 DEF RegistryInv, GoneInv
  <1>8. TeardownInv' /\ RunInv'
    BY <1>2, <1>3, <1>4, <1>5, TeardownGoes, RunKeptBy
  <1> QED
    BY <1>5, <1>6, <1>7, <1>8, IndexKept, ClaimKept DEF RegistryInv

LEMMA CancelRunsStep ==
    ASSUME RegistryInv, NEW g \in Teardowns, CancelRuns(g)
    PROVE  RegistryInv'
  <1>1. TypeOK
    BY DEF RegistryInv
  <1>2. PICK w \in Creates : w = td[g].ws /\ create[w].at = "done" /\ w \notin workspaces /\ w \in closing
    BY DEF RegistryInv, TeardownInv, CancelRuns
  <1>3. /\ td' \in [Teardowns -> TeardownStates]
        /\ td'[g].at = "wait" /\ td'[g].ws = w
        /\ \A h \in Teardowns \ {g} : td'[h] = td[h]
    BY <1>1, <1>2, TdMoves DEF CancelRuns
  <1>4. ctxDone' = ctxDone \cup {w}
    BY <1>2 DEF CancelRuns
  <1>5. UNCHANGED <<workspaces, pathIndex, clients, timer, create, refs, leaked, closing, cleaned, run, stopped,
                    opened, deletes, failures>>
    BY DEF CancelRuns, index, claims, bounds
  <1>6. TypeOK' /\ DoneKept /\ NamedInv'
    BY <1>1, <1>3, <1>4, <1>5 DEF TypeOK, TeardownStates, DoneKept, RegistryInv, NamedInv
  <1>7. TeardownInv' /\ RunInv'
    BY <1>2, <1>3, <1>5, TeardownGoes, RunKeptBy
  <1> QED
    BY <1>5, <1>6, <1>7, IndexKept, GoneKept, ClaimKept DEF RegistryInv

(* The wait saw every run of the workspace return.                          *)
LEMMA RunsReturnedStep ==
    ASSUME RegistryInv, NEW g \in Teardowns, RunsReturned(g)
    PROVE  RegistryInv'
  <1>1. TypeOK
    BY DEF RegistryInv
  <1>2. PICK w \in Creates : w = td[g].ws /\ create[w].at = "done" /\ w \notin workspaces /\ w \in closing
    BY DEF RegistryInv, TeardownInv, RunsReturned
  <1>3. /\ td' \in [Teardowns -> TeardownStates]
        /\ td'[g].at = "cleanup" /\ td'[g].ws = w
        /\ \A h \in Teardowns \ {g} : td'[h] = td[h]
    BY <1>1, <1>2, TdMoves DEF RunsReturned
  <1>4. UNCHANGED <<workspaces, pathIndex, clients, timer, create, refs, leaked, closing, ctxDone, cleaned, run, stopped,
                    opened, deletes, failures>>
    BY DEF RunsReturned, index, claims, gate, bounds
  <1>5. TypeOK' /\ DoneKept /\ NamedInv'
    BY <1>1, <1>3, <1>4 DEF TypeOK, TeardownStates, DoneKept, RegistryInv, NamedInv
  <1>6. TeardownInv'
    BY <1>2, <1>3, <1>4, TeardownGoes
  <1>7. RunInv'
    <2>1. \A r \in Runs : run[r].at = "running" => run[r].ws # w
      BY <1>2 DEF RunsReturned
    <2> QED
      BY <2>1, <1>3, <1>4 DEF RegistryInv, RunInv, Teardowns
  <1> QED
    BY <1>4, <1>5, <1>6, <1>7, IndexKept, GoneKept, ClaimKept DEF RegistryInv

LEMMA CleanupStep ==
    ASSUME RegistryInv, NEW g \in Teardowns, Cleanup(g)
    PROVE  RegistryInv'
  <1>1. TypeOK
    BY DEF RegistryInv
  <1>2. PICK w \in Creates : /\ w = td[g].ws /\ td[g].at = "cleanup"
                             /\ create[w].at = "done" /\ w \notin workspaces /\ w \in closing
    BY DEF RegistryInv, TeardownInv, Cleanup
  <1>3. /\ td' \in [Teardowns -> TeardownStates]
        /\ td'[g].at = "idle" \/ (td'[g].at = "stop" /\ td'[g].ws = w)
        /\ \A h \in Teardowns \ {g} : td'[h] = td[h]
    BY <1>1, <1>2, TdMoves, IdleMoves DEF Cleanup
  <1>4. /\ cleaned' \in [Creates -> Nat]
        /\ \A v \in Creates \ {w} : cleaned'[v] = cleaned[v]
    BY <1>1, <1>2 DEF Cleanup, TypeOK
  <1>5. refs' \in [Paths -> Nat]
    BY <1>1, PoolType DEF Cleanup
  <1>6. UNCHANGED <<workspaces, pathIndex, clients, timer, create, leaked, closing, ctxDone, run, stopped,
                    opened, deletes, failures>>
    BY DEF Cleanup, index, claims, bounds
  <1>7. TypeOK' /\ DoneKept /\ NamedInv'
    BY <1>1, <1>3, <1>4, <1>5, <1>6 DEF TypeOK, TeardownStates, DoneKept, RegistryInv, NamedInv
  <1>8. GoneInv'
    BY <1>2, <1>4, <1>6 DEF RegistryInv, GoneInv
  <1>9. TeardownInv'
    BY <1>2, <1>3, <1>6, TeardownGoes
  <1>10. RunInv'
    <2>1. \A r \in Runs : run[r].at = "running" => run[r].ws # w /\ run[r].ws \in Creates
      BY <1>2 DEF RegistryInv, RunInv
    <2>2. \A h \in Teardowns : td'[h].at = "cleanup" => td'[h] = td[h]
      BY <1>3
    <2> QED
      BY <2>1, <2>2, <1>4, <1>6 DEF RegistryInv, RunInv, Teardowns
  <1> QED
    BY <1>6, <1>7, <1>8, <1>9, <1>10, IndexKept, ClaimKept DEF RegistryInv

LEMMA StopServerStep ==
    ASSUME RegistryInv, NEW g \in Teardowns, StopServer(g)
    PROVE  RegistryInv'
  <1>1. TypeOK
    BY DEF RegistryInv
  <1>2. /\ td' \in [Teardowns -> TeardownStates] /\ td'[g].at = "idle"
        /\ \A h \in Teardowns \ {g} : td'[h] = td[h]
    BY <1>1, IdleMoves DEF StopServer
  <1>3. /\ UNCHANGED <<workspaces, pathIndex, clients, timer, create, refs, leaked, closing, ctxDone, cleaned, run,
                       opened, deletes, failures>>
        /\ stopped' = TRUE
    BY DEF StopServer, index, claims, gate, bounds
  <1>4. TypeOK' /\ DoneKept /\ NamedInv'
    BY <1>1, <1>2, <1>3 DEF TypeOK, TeardownStates, DoneKept, RegistryInv, NamedInv
  <1>5. TeardownInv' /\ RunInv'
    BY <1>2, <1>3, TeardownGoes, RunKeptBy
  <1> QED
    BY <1>3, <1>4, <1>5, IndexKept, GoneKept, ClaimKept DEF RegistryInv

-----------------------------------------------------------------------------
(* The runs: RunGate is what is left when one of them moves.                *)

LEMMA RunGate ==
    ASSUME RegistryInv, NEW r \in Runs, run' \in [Runs -> RunStates],
           \A q \in Runs \ {r} : run'[q] = run[q],
           run'[r].at # "start" => run'[r].ws \in Creates /\ create[run'[r].ws].at = "done",
           run'[r].at = "running" => run'[r].ws \notin closing,
           UNCHANGED <<index, claims, create, refs, leaked, td, gate, stopped, bounds>>
    PROVE  RegistryInv'
  <1>1. UNCHANGED <<workspaces, pathIndex, clients, timer, create, refs, leaked, td, closing, ctxDone, cleaned, stopped,
                    opened, deletes, failures>>
    BY DEF index, claims, gate, bounds
  <1>2. TypeOK
    BY DEF RegistryInv
  <1>3. TypeOK' /\ DoneKept /\ NamedInv'
    BY <1>1, <1>2 DEF TypeOK, RunStates, DoneKept, RegistryInv, NamedInv
  <1>4. RunInv'
    <2>1. \A w \in Creates : w \notin closing =>
            cleaned[w] = 0 /\ \A g \in Teardowns : td[g].at = "cleanup" => td[g].ws # w
      BY DEF RegistryInv, GoneInv, TeardownInv
    <2>2. ASSUME NEW q \in Runs
          PROVE  /\ run'[q].at # "start" => run'[q].ws \in Creates /\ create'[run'[q].ws].at = "done"
                 /\ run'[q].at = "running" =>
                      /\ cleaned'[run'[q].ws] = 0
                      /\ \A g \in Teardowns : td'[g].at = "cleanup" => td'[g].ws # run'[q].ws
      <3>1. CASE q = r
        BY <3>1, <1>1, <2>1
      <3>2. CASE q # r
        BY <3>2, <1>1 DEF RegistryInv, RunInv
      <3> QED  BY <3>1, <3>2
    <2> QED
      BY <2>2 DEF RunInv, Teardowns
  <1> QED
    BY <1>1, <1>3, <1>4, IndexKept, GoneKept, ClaimKept, TeardownKept DEF RegistryInv

LEMMA AcceptStep ==
    ASSUME RegistryInv, NEW r \in Runs, NEW w \in Creates, Accept(r, w)
    PROVE  RegistryInv'
  <1>1. create[w].at = "done"
    BY DEF RegistryInv, IndexInv, Accept
  <1>2. /\ run' \in [Runs -> RunStates]
        /\ run'[r].at = "accepted" /\ run'[r].ws = w
        /\ \A q \in Runs \ {r} : run'[q] = run[q]
    BY DEF Accept, RegistryInv, TypeOK, RunStates
  <1> QED
    BY <1>1, <1>2, RunGate DEF Accept

(* The gate admits a run only where nothing closes.                         *)
LEMMA DispatchStep ==
    ASSUME RegistryInv, NEW r \in Runs, Dispatch(r) \/ Reject(r) \/ RunReturns(r)
    PROVE  RegistryInv'
  <1>1. TypeOK
    BY DEF RegistryInv
  <1>2. run[r].ws \in Creates /\ create[run[r].ws].at = "done"
    BY DEF RegistryInv, RunInv, Dispatch, Reject, RunReturns
  <1>3. PICK l \in {"running", "rejected", "done"} :
           RunGoto(r, l) /\ (l = "running" => run[r].ws \notin closing)
    BY DEF Dispatch, Reject, RunReturns
  <1>4. /\ run' \in [Runs -> RunStates]
        /\ run'[r].at = l /\ run'[r].ws = run[r].ws
        /\ \A q \in Runs \ {r} : run'[q] = run[q]
    BY <1>1, <1>3, RunMoves
  <1>5. UNCHANGED <<index, claims, create, refs, leaked, td, gate, stopped, bounds>>
    BY DEF Dispatch, Reject, RunReturns
  <1> QED
    BY <1>2, <1>3, <1>4, <1>5, RunGate

-----------------------------------------------------------------------------
LEMMA RegistryStep == RegistryInv /\ [Next]_vars => RegistryInv'
  <1> SUFFICES ASSUME RegistryInv, [Next]_vars PROVE RegistryInv'
    OBVIOUS
  <1>1. ASSUME NEW k \in Creates, NEW c \in Clients, NEW p \in Paths,
               CreateFinds(k, c, p) \/ CreateBuilds(k, c, p)
        PROVE  RegistryInv'
    BY <1>1, CreateFindsStep, CreateBuildsStep
  <1>2. ASSUME NEW k \in Creates, CreateStep(k)
        PROVE  RegistryInv'
    BY <1>2, CreateConnectsStep, CreateFailsStep, AppFailsStep, CreateLosesStep, CreateInsertsStep,
       CreateDiscardsStep DEF CreateStep
  <1>3. ASSUME NEW k \in Creates, TimerStep(k)
        PROVE  RegistryInv'
    BY <1>3, TimerFiresStep, ExpireHoldStep DEF TimerStep
  <1>4. ASSUME NEW w \in Creates, NEW c \in Clients, Attach(w, c) \/ Detach(w, c) \/ Delete(w, c)
        PROVE  RegistryInv'
    BY <1>4, AttachStep, DetachStep, DeleteStep
  <1>5. ASSUME NEW g \in Teardowns, TeardownStep(g)
        PROVE  RegistryInv'
    BY <1>5, TeardownAbortsStep, TeardownRemovesStep, MarkClosingStep, CancelRunsStep,
       RunsReturnedStep, CleanupStep, StopServerStep DEF TeardownStep
  <1>6. ASSUME NEW r \in Runs, Dispatch(r) \/ Reject(r) \/ RunReturns(r)
        PROVE  RegistryInv'
    BY <1>6, DispatchStep
  <1>7. ASSUME NEW r \in Runs, NEW w \in Creates, Accept(r, w)
        PROVE  RegistryInv'
    BY <1>7, AcceptStep
  <1>8. CASE UNCHANGED vars
    <2>1. TypeOK'
      BY <1>8 DEF RegistryInv, TypeOK, vars
    <2> QED
      BY <1>8, <2>1, QuietStep DEF vars
  <1> QED
    BY <1>1, <1>2, <1>3, <1>4, <1>5, <1>6, <1>7, <1>8 DEF Next

LEMMA RegistryStart == Init => RegistryInv
  <1> SUFFICES ASSUME Init PROVE RegistryInv
    OBVIOUS
  <1>1. TypeOK
    BY NoClaimIsClaim DEF Init, TypeOK
  <1>2. NamedInv /\ IndexInv /\ ClaimInv /\ GoneInv
    BY DEF Init, NamedInv, IndexInv, ClaimInv, GoneInv
  <1>3. TeardownInv /\ RunInv
    BY DEF Init, TeardownInv, RunInv
  <1> QED
    BY <1>1, <1>2, <1>3 DEF RegistryInv

LEMMA Registry == Spec => []RegistryInv
  BY RegistryStart, RegistryStep, PTL DEF Spec

(* The registry's variables have their types, the live workspaces have      *)
(* distinct paths, and the index entry of each path names its live           *)
(* workspace or none: two concurrent calls of CreateWorkspace for one path    *)
(* never both insert theirs, and a teardown drops the entry it owns only.     *)
THEOREM RegistryIsWellFormed == Spec => []WellFormed
  <1>1. RegistryInv => WellFormed
    BY DEF RegistryInv, IndexInv, WellFormed, OneWorkspacePerPath, Path
  <1> QED
    BY <1>1, Registry, PTL

(* A workspace somebody claims is live, is not closing and was not cleaned   *)
(* up: a new claim makes the teardown abort, or comes too late to be made.    *)
THEOREM ClaimedWorkspacesStayUp == Spec => []ClaimedStaysUp
  <1>1. RegistryInv => ClaimedStaysUp
    <2> SUFFICES ASSUME RegistryInv, NEW w \in Creates, NEW c \in Clients, clients[w][c] # NoClaim
                 PROVE  w \in workspaces /\ w \notin closing /\ cleaned[w] = 0
      BY DEF ClaimedStaysUp, Claims
    <2>1. w \in workspaces
      BY DEF RegistryInv, ClaimInv
    <2> QED
      BY <2>1 DEF RegistryInv, GoneInv
  <1> QED
    BY <1>1, Registry, PTL

(* No run is in progress in a workspace whose App was shut down: the gate      *)
(* admits none after the mark, and the wait lets none of the earlier ones out. *)
THEOREM CleanupComesAfterTheRuns == Spec => []CleanupAfterRuns
  <1>1. RegistryInv => CleanupAfterRuns
    BY DEF RegistryInv, RunInv, CleanupAfterRuns
  <1> QED
    BY <1>1, Registry, PTL

-----------------------------------------------------------------------------
(* The references of the pool. *)

Owning == {"built", "discard", "done"}

OnceCleaned == \A w \in Creates : cleaned[w] <= 1

PoolInv ==
    \A p \in Paths :
        /\ IsFiniteSet(Holders(p))
        /\ OnceCleaned => refs[p] = Cardinality(Holders(p)) + leaked[p]

LEMMA HoldersHas ==
    ASSUME NEW w \in Creates, NEW p
    PROVE  w \in Holders(p) <=> create[w].path = p /\ cleaned[w] = 0 /\ create[w].at \in Owning
  BY DEF Holders, Path, Owning

(* A step after which the same workspaces own a connection.                 *)
LEMMA SameHolders ==
    ASSUME PoolInv, UNCHANGED <<refs, leaked, cleaned>>,
           \A w \in Creates :
               /\ create'[w].at \in Owning <=> create[w].at \in Owning
               /\ create[w].at \in Owning => create'[w].path = create[w].path
    PROVE  PoolInv'
  <1>1. \A p \in Paths : Holders(p)' = Holders(p)
    BY DEF Holders, Path, Owning
  <1>2. OnceCleaned' <=> OnceCleaned
    BY DEF OnceCleaned
  <1> QED
    BY <1>1, <1>2 DEF PoolInv

(* A workspace gets a connection, or lets one go.                            *)
LEMMA OneMoreHolder ==
    ASSUME RegistryInv, PoolInv, NEW k \in Creates, NEW q \in Paths,
           k \notin Holders(q),
           Holders(q)' = Holders(q) \cup {k},
           \A p \in Paths \ {q} : Holders(p)' = Holders(p),
           OnceCleaned' => OnceCleaned,
           Connect(q), UNCHANGED leaked
    PROVE  PoolInv'
  <1>1. refs \in [Paths -> Nat] /\ leaked \in [Paths -> Nat]
    BY DEF RegistryInv, TypeOK
  <1>2. refs'[q] = refs[q] + 1 /\ \A p \in Paths \ {q} : refs'[p] = refs[p]
    BY <1>1 DEF Connect
  <1>3. IsFiniteSet(Holders(q))
    BY DEF PoolInv
  <1>4. /\ IsFiniteSet(Holders(q)') /\ Cardinality(Holders(q)) \in Nat
        /\ Cardinality(Holders(q)') = Cardinality(Holders(q)) + 1
    BY <1>3, FS_AddElement, FS_CardinalityType
  <1>5. ASSUME NEW p \in Paths
        PROVE  /\ IsFiniteSet(Holders(p)')
               /\ OnceCleaned' => refs'[p] = Cardinality(Holders(p)') + leaked'[p]
    <2>1. CASE p = q
      <3>1. OnceCleaned' => refs[q] = Cardinality(Holders(q)) + leaked[q]
        BY DEF PoolInv
      <3> QED
        BY <1>1, <1>2, <1>4, <2>1, <3>1
    <2>2. CASE p # q
      <3>1. Holders(p)' = Holders(p) /\ refs'[p] = refs[p] /\ leaked'[p] = leaked[p]
        BY <1>2, <2>2
      <3> QED
        BY <3>1 DEF PoolInv
    <2> QED
      BY <2>1, <2>2
  <1> QED
    BY <1>5 DEF PoolInv

LEMMA OneHolderLess ==
    ASSUME RegistryInv, PoolInv, NEW k \in Creates, NEW q \in Paths,
           k \in Holders(q),
           Holders(q)' = Holders(q) \ {k},
           \A p \in Paths \ {q} : Holders(p)' = Holders(p),
           OnceCleaned' => OnceCleaned,
           \/ Release(q) /\ UNCHANGED leaked
           \/ UNCHANGED refs /\ leaked' = [leaked EXCEPT ![q] = @ + 1]
    PROVE  PoolInv'
  <1>1. refs \in [Paths -> Nat] /\ leaked \in [Paths -> Nat]
    BY DEF RegistryInv, TypeOK
  <1>2. /\ \/ refs'[q] = (IF refs[q] > 0 THEN refs[q] - 1 ELSE 0) /\ leaked'[q] = leaked[q]
           \/ refs'[q] = refs[q] /\ leaked'[q] = leaked[q] + 1
        /\ \A p \in Paths \ {q} : refs'[p] = refs[p] /\ leaked'[p] = leaked[p]
    BY <1>1 DEF Release
  <1>3. IsFiniteSet(Holders(q)) /\ k \in Holders(q)
    BY DEF PoolInv
  <1>4. /\ IsFiniteSet(Holders(q)') /\ Cardinality(Holders(q)) \in Nat
        /\ Cardinality(Holders(q)') \in Nat
        /\ Cardinality(Holders(q)') = Cardinality(Holders(q)) - 1
    BY <1>3, FS_RemoveElement, FS_CardinalityType
  <1>5. ASSUME NEW p \in Paths
        PROVE  /\ IsFiniteSet(Holders(p)')
               /\ OnceCleaned' => refs'[p] = Cardinality(Holders(p)') + leaked'[p]
    <2>1. CASE p = q
      <3>1. OnceCleaned' => refs[q] = Cardinality(Holders(q)) + leaked[q]
        BY DEF PoolInv
      <3>2. Cardinality(Holders(q)) >= 1 /\ refs[q] \in Nat /\ leaked[q] \in Nat
        BY <1>1, <1>4
      <3>3. OnceCleaned' => refs'[q] = Cardinality(Holders(q)') + leaked'[q]
        BY <1>2, <1>4, <3>1, <3>2
      <3> QED
        BY <1>4, <2>1, <3>3
    <2>2. CASE p # q
      <3>1. Holders(p)' = Holders(p) /\ refs'[p] = refs[p] /\ leaked'[p] = leaked[p]
        BY <1>2, <2>2
      <3> QED
        BY <3>1 DEF PoolInv
    <2> QED
      BY <2>1, <2>2
  <1> QED
    BY <1>5 DEF PoolInv

(* A step of one call: k owned a connection before, after, both or neither.  *)
LEMMA CallHolders ==
    ASSUME NEW k \in Creates, NEW q, UNCHANGED cleaned,
           create[k].path = q, create'[k].path = q,
           \A j \in Creates \ {k} : create'[j] = create[j]
    PROVE  /\ \A p \in Paths \ {q} : Holders(p)' = Holders(p)
           /\ cleaned[k] = 0 /\ create'[k].at \in Owning =>
                Holders(q)' = Holders(q) \cup {k}
           /\ create'[k].at \notin Owning =>
                Holders(q)' = Holders(q) \ {k}
           /\ OnceCleaned' => OnceCleaned
  BY DEF Holders, Path, Owning, OnceCleaned

(* A workspace is cleaned up.                                               *)
LEMMA CleanedHolders ==
    ASSUME RegistryInv, NEW w \in Creates, NEW q \in Paths,
           cleaned' = [cleaned EXCEPT ![w] = @ + 1],
           create[w].path = q, create'[w].path = q,
           \A j \in Creates \ {w} : create'[j] = create[j]
    PROVE  /\ \A p \in Paths \ {q} : Holders(p)' = Holders(p)
           /\ Holders(q)' = Holders(q) \ {w}
           /\ OnceCleaned' => OnceCleaned /\ cleaned[w] = 0
  <1>1. cleaned \in [Creates -> Nat]
    BY DEF RegistryInv, TypeOK
  <1>2. cleaned'[w] = cleaned[w] + 1 /\ cleaned[w] \in Nat /\ cleaned'[w] # 0
        /\ \A j \in Creates \ {w} : cleaned'[j] = cleaned[j]
    BY <1>1
  <1>3. \A p \in Paths \ {q} : Holders(p)' = Holders(p)
    BY <1>2 DEF Holders, Path
  <1>4. Holders(q)' = Holders(q) \ {w}
    BY <1>2 DEF Holders, Path
  <1>5. ASSUME OnceCleaned'
        PROVE  OnceCleaned /\ cleaned[w] = 0
    <2>1. cleaned[w] = 0
      BY <1>2, <1>5 DEF OnceCleaned
    <2> QED
      BY <1>2, <1>5, <2>1 DEF OnceCleaned
  <1> QED
    BY <1>3, <1>4, <1>5

LEMMA CleanedStep ==
    ASSUME RegistryInv, PoolInv, NEW w \in Creates, NEW q \in Paths,
           create[w].at \in Owning,
           cleaned' = [cleaned EXCEPT ![w] = @ + 1],
           create[w].path = q, create'[w].path = q,
           \A j \in Creates \ {w} : create'[j] = create[j],
           Release(q), UNCHANGED leaked
    PROVE  PoolInv'
  <1>1. /\ \A p \in Paths \ {q} : Holders(p)' = Holders(p)
        /\ Holders(q)' = Holders(q) \ {w}
        /\ OnceCleaned' => OnceCleaned /\ cleaned[w] = 0
    BY CleanedHolders
  <1>2. CASE cleaned[w] = 0
    <2>1. w \in Holders(q)
      BY <1>2, HoldersHas
    <2> QED
      BY <1>1, <2>1, OneHolderLess
  <1>3. CASE cleaned[w] # 0
    <2>1. ~OnceCleaned'
      BY <1>1, <1>3
    <2>2. w \notin Holders(q)
      BY <1>3, HoldersHas
    <2>3. \A p \in Paths : Holders(p)' = Holders(p)
      BY <1>1, <2>2
    <2> QED
      BY <2>1, <2>3 DEF PoolInv
  <1> QED
    BY <1>2, <1>3

LEMMA PoolStep == RegistryInv /\ PoolInv /\ [Next]_vars => PoolInv'
  <1> SUFFICES ASSUME RegistryInv, PoolInv, [Next]_vars PROVE PoolInv'
    OBVIOUS
  <1>0. TypeOK
    BY DEF RegistryInv
  <1>1. CASE UNCHANGED <<create, refs, leaked, cleaned>>
    BY <1>1, SameHolders
  <1>2. ASSUME NEW k \in Creates, NEW c \in Clients, NEW p \in Paths,
               CreateFinds(k, c, p) \/ CreateBuilds(k, c, p)
        PROVE  PoolInv'
    <2>1. PICK l \in {"found", "build"} : create' = [create EXCEPT ![k] = [at |-> l, client |-> c, path |-> p]]
      BY <1>2 DEF CreateFinds, CreateBuilds
    <2>2. /\ create'[k].at = l /\ create[k].at = "start"
          /\ \A j \in Creates \ {k} : create'[j] = create[j]
      BY <1>0, <1>2, <2>1 DEF CreateFinds, CreateBuilds, TypeOK
    <2>3. UNCHANGED <<refs, leaked, cleaned>>
      BY <1>2 DEF CreateFinds, CreateBuilds, gate
    <2>4. \A w \in Creates :
               /\ create'[w].at \in Owning <=> create[w].at \in Owning
               /\ create[w].at \in Owning => create'[w].path = create[w].path
      BY <2>2 DEF Owning
    <2> QED
      BY <2>3, <2>4, SameHolders
  <1>3. ASSUME NEW k \in Creates, CreateStep(k)
        PROVE  PoolInv'
    <2>1. PICK q \in Paths :
             /\ q = create[k].path
             /\ create[k].at # "done" => cleaned[k] = 0
      BY <1>3 DEF CreateStep, CreateConnects, CreateFails, AppFails, CreateLoses, CreateInserts,
                  CreateDiscards, RegistryInv, NamedInv, GoneInv
    <2>2. PICK l \in {"built", "failed", "discard", "done"} : CreateGoto(k, l)
      BY <1>3 DEF CreateStep, CreateConnects, CreateFails, AppFails, CreateLoses, CreateInserts,
                  CreateDiscards
    <2>3. /\ create'[k].at = l /\ create'[k].path = q
          /\ \A j \in Creates \ {k} : create'[j] = create[j]
      BY <1>0, <2>1, <2>2, CreateMoves
    <2>4. CASE CreateConnects(k)
      <3>1. create[k].at = "build" /\ create'[k].at = "built" /\ cleaned' = cleaned
            /\ Connect(q) /\ leaked' = leaked
        BY <2>4, <1>0, <2>1, CreateMoves DEF CreateConnects, gate, Path
      <3>2. k \notin Holders(q)
        BY <2>1, <3>1, HoldersHas DEF Owning
      <3>3. /\ Holders(q)' = Holders(q) \cup {k}
            /\ \A p \in Paths \ {q} : Holders(p)' = Holders(p)
            /\ OnceCleaned' => OnceCleaned
        BY <2>1, <2>3, <3>1, CallHolders DEF Owning
      <3> QED
        BY <2>1, <3>1, <3>2, <3>3, OneMoreHolder
    <2>5. CASE AppFails(k)
      <3>1. create[k].at = "built" /\ create'[k].at = "failed" /\ cleaned' = cleaned
            /\ refs' = refs /\ leaked' = [leaked EXCEPT ![q] = @ + 1]
        BY <2>5, <1>0, <2>1, CreateMoves DEF AppFails, gate, Path
      <3>2. k \in Holders(q)
        BY <2>1, <3>1, HoldersHas DEF Owning
      <3>3. /\ Holders(q)' = Holders(q) \ {k}
            /\ \A p \in Paths \ {q} : Holders(p)' = Holders(p)
            /\ OnceCleaned' => OnceCleaned
        BY <2>1, <2>3, <3>1, CallHolders DEF Owning
      <3> QED
        BY <2>1, <3>1, <3>2, <3>3, OneHolderLess
    <2>6. CASE CreateDiscards(k)
      <3>1. create[k].at \in Owning /\ cleaned' = [cleaned EXCEPT ![k] = @ + 1]
            /\ Release(q) /\ leaked' = leaked
        BY <2>6, <2>1 DEF CreateDiscards, Path, Owning
      <3> QED
        BY <2>1, <2>3, <3>1, CleanedStep
    <2>7. CASE CreateFails(k) \/ CreateLoses(k) \/ CreateInserts(k)
      <3>1. UNCHANGED <<refs, leaked, cleaned>>
        BY <2>7 DEF CreateFails, CreateLoses, CreateInserts, gate
      <3>2. create'[k].at \in Owning <=> create[k].at \in Owning
        BY <2>7, <1>0, CreateMoves DEF CreateFails, CreateLoses, CreateInserts, Owning
      <3> QED
        BY <2>1, <2>3, <3>1, <3>2, SameHolders
    <2> QED
      BY <1>3, <2>4, <2>5, <2>6, <2>7 DEF CreateStep
  <1>4. ASSUME NEW k \in Creates, TimerStep(k)
        PROVE  PoolInv'
    <2>1. UNCHANGED <<create, refs, leaked, cleaned>>
      BY <1>4 DEF TimerStep, TimerFires, ExpireHold, gate
    <2> QED  BY <1>1, <2>1
  <1>5. ASSUME NEW w \in Creates, NEW c \in Clients, Attach(w, c) \/ Detach(w, c) \/ Delete(w, c)
        PROVE  PoolInv'
    <2>1. UNCHANGED <<create, refs, leaked, cleaned>>
      BY <1>5 DEF Attach, Detach, Delete, gate
    <2> QED  BY <1>1, <2>1
  <1>6. ASSUME NEW g \in Teardowns, Cleanup(g)
        PROVE  PoolInv'
    <2>1. PICK w \in Creates : w = td[g].ws /\ create[w].at = "done"
      BY <1>6 DEF RegistryInv, TeardownInv, Cleanup
    <2>2. PICK q \in Paths : q = create[w].path /\ create[w].at \in Owning
      BY <2>1 DEF RegistryInv, NamedInv, Owning
    <2>3. /\ cleaned' = [cleaned EXCEPT ![w] = @ + 1] /\ create' = create
          /\ Release(q) /\ leaked' = leaked
      BY <1>6, <2>1, <2>2 DEF Cleanup, Path
    <2> QED
      BY <2>2, <2>3, CleanedStep
  <1>7. ASSUME NEW g \in Teardowns, TeardownStep(g), ~Cleanup(g)
        PROVE  PoolInv'
    <2>1. UNCHANGED <<create, refs, leaked, cleaned>>
      BY <1>7 DEF TeardownStep, TeardownAborts, TeardownRemoves, MarkClosing, CancelRuns,
                  RunsReturned, StopServer, gate
    <2> QED  BY <1>1, <2>1
  <1>8. ASSUME NEW r \in Runs, NEW w, Dispatch(r) \/ Reject(r) \/ RunReturns(r) \/ Accept(r, w)
        PROVE  PoolInv'
    <2>1. UNCHANGED <<create, refs, leaked, cleaned>>
      BY <1>8 DEF Dispatch, Reject, RunReturns, Accept, gate
    <2> QED  BY <1>1, <2>1
  <1>9. CASE UNCHANGED vars
    BY <1>1, <1>9 DEF vars
  <1> QED
    BY <1>2, <1>3, <1>4, <1>5, <1>6, <1>7, <1>8, <1>9 DEF Next

(* The pool counts one reference for each workspace that was built and not    *)
(* shut down and for each call whose app.New failed, however many calls        *)
(* there are, until a workspace is shut down twice.                          *)
THEOREM PoolCountsItsHolders == Spec => []ConnectionsCounted
  <1>1. Init => PoolInv
    <2> SUFFICES ASSUME Init, NEW p \in Paths
                 PROVE  IsFiniteSet(Holders(p)) /\ refs[p] = Cardinality(Holders(p)) + leaked[p]
      BY DEF PoolInv
    <2>1. Holders(p) = {}
      BY DEF Init, Holders
    <2> QED
      BY <2>1, FS_EmptySet DEF Init
  <1>2. PoolInv => ConnectionsCounted
    BY DEF PoolInv, OnceCleaned, ConnectionsCounted
  <1> QED
    BY <1>1, <1>2, PoolStep, Registry, PTL DEF Spec
=============================================================================
