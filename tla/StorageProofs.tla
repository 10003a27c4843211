--------------------------- MODULE StorageProofs ----------------------------
(***************************************************************************)
(* What the program keeps beside its messages, proved of every number of   *)
(* sessions, writers, tokens and stores: the session row, the edited file  *)
(* with its versions, the configuration.  Each part has an inductive       *)
(* invariant that says what its goroutines have read and may still write.  *)
(***************************************************************************)
EXTENDS Sessions, FileEdits, ConfigStore, TLAPS

-----------------------------------------------------------------------------
(* The session row.                                                        *)

SessionRows ==
    [exists : BOOLEAN, title : Nat, cost : Nat, todos : Nat, summary : BOOLEAN]
HeldCopies == [held : {TRUE}, row : SessionRows, since : SUBSET RowWriters]
Places == {"idle", "tested", "tools", "ending", "reading", "writing", "over", "released", "gone"}
NewestRecords == [title : Nat, todos : Nat, summary : BOOLEAN]

SessionTypes ==
    /\ sessionRow \in SessionRows
    /\ copy \in [Savers -> HeldCopies \cup {NoCopy}]
    /\ at \in [Workers -> Places]
    /\ busy \in BOOLEAN /\ together \in BOOLEAN /\ reads \in Nat
    /\ incurred \in Nat
    /\ newest \in NewestRecords
    /\ lost \subseteq RowWriters

(* Who holds a copy is at work: the step when the tools of its turn have   *)
(* returned; and two are at work only together.                            *)
TurnOrderInv ==
    /\ \A t \in Turns : copy[t].held => at[t] = "ending"
    /\ copy["summary"].held => at["summary"] \in {"reading", "writing"}
    /\ \A a \in TurnTools : copy[a].held => at[TurnOf[a]] = "tools"
    /\ \A p, q \in Workers : p # q /\ AtWork(p) /\ AtWork(q) => together

(* A row in which L is what it may lack of what was committed.             *)
Accounts(r, L) ==
    /\ r.cost <= incurred
    /\ L = {} => r.cost = incurred
    /\ L \cap TodosTools = {} => r.todos = newest.todos
    /\ L \cap {"summary"} = {} => r.summary = newest.summary
    /\ L \cap {"title", "rename", "dialog"} = {} => r.title = newest.title

(* A copy accounts for all but what was lost and what came since.          *)
CopyInv ==
    \A w \in Savers : copy[w].held =>
        /\ copy[w].since \subseteq MayLose(w)
        /\ Accounts(copy[w].row, lost \cup copy[w].since)

RowInv == Accounts(sessionRow, lost)

SessionsInv == SessionTypes /\ TurnOrderInv /\ CopyInv /\ RowInv

CopyRecords == HeldCopies \cup {NoCopy}

(* Whatever a step does to the workers, it does not undo "together".       *)
Moves ==
    /\ at' \in [Workers -> Places]
    /\ busy' \in BOOLEAN /\ together' \in BOOLEAN /\ reads' \in Nat
    /\ together => together'

LEMMA Writers ==
    /\ TurnTools \subseteq Savers /\ Savers \subseteq RowWriters /\ Workers \subseteq Savers
    /\ Turns \subseteq Workers /\ SubAgents \subseteq TurnTools /\ TodosTools \subseteq TurnTools
    /\ "summary" \in Workers /\ "dialog" \in Savers
    /\ {"title", "rename"} \subseteq RowWriters /\ "title" \notin Savers /\ "rename" \notin Savers
    /\ "summary" \notin Turns /\ "dialog" \notin Workers
    /\ \A a \in TurnTools : a \notin Workers /\ a # "dialog" /\ TurnOf[a] \in Turns
    /\ \A a \in SubAgents : a \notin TodosTools
    /\ TodosTools \cap (Workers \cup {"dialog", "title", "rename"}) = {}
  BY SessionsAssumption DEF Savers, RowWriters, Workers, TurnTools

LEMMA LosesMore ==
    ASSUME SessionTypes, Moves, NEW w \in Savers
    PROVE  MayLose(w) \subseteq MayLose(w)'
  BY DEF SessionTypes, Moves, MayLose, ToolsOf, Owner, WritersBeside

(* Of two who hold a copy, each may lose what the other writes.            *)
LEMMA BothHold ==
    ASSUME SessionTypes, TurnOrderInv, NEW v \in Savers, NEW w \in Savers, v # w,
           copy[v].held, copy[w].held
    PROVE  w \in MayLose(v)
<1>1. CASE v = "dialog"
  BY <1>1, Writers DEF MayLose
<1>2. CASE w = "dialog" /\ v # "dialog"
  BY <1>2 DEF MayLose
<1>3. CASE v # "dialog" /\ w # "dialog"
  <2>1. \A x \in Savers \ {"dialog"} :
          /\ x \in Workers \/ x \in TurnTools
          /\ Owner(x) \in Workers
          /\ x \in {Owner(x)} \cup ToolsOf(Owner(x))
    BY Writers DEF Savers, Owner, ToolsOf
  <2>2. \A x \in Savers \ {"dialog"} : copy[x].held => AtWork(Owner(x))
    BY <2>1, Writers DEF TurnOrderInv, Owner, AtWork, Workers
  <2>3. CASE Owner(v) # Owner(w)
    <3>1. together
      BY <1>3, <2>1, <2>2, <2>3 DEF TurnOrderInv
    <3>2. w \in WritersBeside(Owner(v))
      BY <1>3, <2>1, <2>3 DEF WritersBeside
    <3> QED BY <1>3, <3>1, <3>2 DEF MayLose
  <2>4. CASE Owner(v) = Owner(w)
    <3>1. v \in TurnTools /\ w \in TurnTools
      BY <1>3, <2>1, <2>4, Writers DEF TurnOrderInv, Owner, Workers
    <3> QED BY <1>3, <2>4, <3>1 DEF MayLose, Owner, ToolsOf
  <2> QED BY <2>3, <2>4
<1> QED BY <1>1, <1>2, <1>3

(* Nobody moves and nobody reads.                                          *)
LEMMA OrderKept ==
    ASSUME TurnOrderInv, Moves, UNCHANGED at,
           \A v \in Savers : copy'[v].held => copy[v].held \/ v = "dialog"
    PROVE  TurnOrderInv'
<1>1. \A t \in Workers \cup TurnTools : copy'[t].held => copy[t].held
  BY Writers
<1> QED BY <1>1, Writers DEF TurnOrderInv, Moves, AtWork

LEMMA CopyMember ==
    ASSUME NEW C \in [Savers -> CopyRecords], NEW w \in Savers
    PROVE  /\ C[w] \in CopyRecords
           /\ C[w].held \in BOOLEAN
           /\ C[w].held => /\ C[w] \in HeldCopies
                          /\ C[w].row \in SessionRows /\ C[w].since \subseteq RowWriters
           /\ ~C[w].held => C[w] = NoCopy
           /\ ~NoCopy.held
<1>1. ~NoCopy.held
  BY DEF NoCopy
<1>2. C[w] \in HeldCopies \/ C[w] = NoCopy
  BY DEF CopyRecords
<1>3. C[w] \in HeldCopies => C[w].held = TRUE /\ C[w].row \in SessionRows /\ C[w].since \subseteq RowWriters
  BY DEF HeldCopies
<1>4. NoCopy.held = FALSE
  BY DEF NoCopy
<1> QED BY <1>1, <1>2, <1>3, <1>4

LEMMA RowMember ==
    ASSUME NEW r \in SessionRows
    PROVE  /\ r.exists \in BOOLEAN /\ r.title \in Nat /\ r.cost \in Nat
           /\ r.todos \in Nat /\ r.summary \in BOOLEAN
  BY DEF SessionRows

LEMMA NewestMember ==
    ASSUME SessionTypes
    PROVE  newest.title \in Nat /\ newest.todos \in Nat /\ newest.summary \in BOOLEAN
  BY DEF SessionTypes, NewestRecords

(* Who holds a copy has fallen behind w, nobody else.                      *)
LEMMA BehindOf ==
    ASSUME NEW C \in [Savers -> CopyRecords], NEW w \in RowWriters
    PROVE  /\ Behind(C, w) \in [Savers -> CopyRecords]
           /\ \A v \in Savers :
                /\ v = w \/ ~C[v].held => Behind(C, w)[v] = C[v]
                /\ v # w /\ C[v].held =>
                     /\ Behind(C, w)[v].held
                     /\ Behind(C, w)[v].row = C[v].row
                     /\ Behind(C, w)[v].since = C[v].since \cup {w}
<1>1. ASSUME NEW v \in Savers, v = w \/ ~C[v].held
      PROVE  Behind(C, w)[v] = C[v]
  BY <1>1 DEF Behind
<1>2. ASSUME NEW v \in Savers, v # w, C[v].held
      PROVE  /\ Behind(C, w)[v] \in HeldCopies
             /\ Behind(C, w)[v].held
             /\ Behind(C, w)[v].row = C[v].row
             /\ Behind(C, w)[v].since = C[v].since \cup {w}
  <2>1. C[v] \in HeldCopies
    BY <1>2, CopyMember
  <2>2. Behind(C, w)[v] = [C[v] EXCEPT !.since = @ \cup {w}]
    BY <1>2 DEF Behind
  <2> QED BY <2>1, <2>2 DEF HeldCopies
<1>3. Behind(C, w) \in [Savers -> CopyRecords]
  <2>1. Behind(C, w) = [v \in Savers |-> Behind(C, w)[v]]
    BY DEF Behind
  <2>2. \A v \in Savers : Behind(C, w)[v] \in CopyRecords
    BY <1>1, <1>2, CopyMember DEF CopyRecords
  <2> QED BY <2>1, <2>2
<1> QED BY <1>1, <1>2, <1>3

-----------------------------------------------------------------------------
(* The four ways to use a copy.                                            *)

LEMMA GetKind ==
    ASSUME SessionsInv, NEW w \in Savers, GetRow(w), Moves,
           UNCHANGED <<sessionRow, incurred, newest, lost>>
    PROVE  /\ SessionTypes' /\ CopyInv' /\ RowInv'
           /\ \A v \in Savers : copy'[v].held <=> copy[v].held \/ v = w
<1>1. PICK x \in HeldCopies : /\ copy' = [copy EXCEPT ![w] = x]
                             /\ x.held /\ x.row = sessionRow /\ x.since = {}
  <2> DEFINE y == [held |-> TRUE, row |-> sessionRow, since |-> {}]
  <2>1. y \in HeldCopies /\ y.held /\ y.row = sessionRow /\ y.since = {}
    BY DEF HeldCopies, SessionsInv, SessionTypes
  <2>2. copy' = [copy EXCEPT ![w] = y]
    BY DEF GetRow
  <2> QED BY <2>1, <2>2
<1>2. /\ copy' \in [Savers -> CopyRecords]
      /\ copy'[w] = x
      /\ \A v \in Savers : v # w => copy'[v] = copy[v]
  BY <1>1 DEF SessionsInv, SessionTypes, CopyRecords
<1>3. SessionTypes'
  BY <1>2 DEF SessionsInv, SessionTypes, CopyRecords, Moves
<1>4. CopyInv'
  BY <1>1, <1>2, LosesMore DEF SessionsInv, CopyInv, RowInv, Accounts
<1>5. RowInv'
  BY DEF SessionsInv, RowInv, Accounts
<1> QED BY <1>1, <1>2, <1>3, <1>4, <1>5

LEMMA DropKind ==
    ASSUME SessionsInv, NEW w \in Savers, DropCopy(w), Moves,
           UNCHANGED <<sessionRow, incurred, newest, lost>>
    PROVE  /\ SessionTypes' /\ CopyInv' /\ RowInv'
           /\ \A v \in Savers : copy'[v].held <=> copy[v].held /\ v # w
<1>0. ~NoCopy.held
  BY DEF NoCopy
<1>1. copy' = [copy EXCEPT ![w] = NoCopy]
  BY DEF DropCopy
<1>2. /\ copy' \in [Savers -> CopyRecords]
      /\ copy'[w] = NoCopy
      /\ \A v \in Savers : v # w => copy'[v] = copy[v]
  BY <1>1 DEF SessionsInv, SessionTypes, CopyRecords
<1>3. SessionTypes'
  BY <1>2 DEF SessionsInv, SessionTypes, CopyRecords, Moves
<1>4. CopyInv'
  BY <1>0, <1>2, LosesMore DEF SessionsInv, CopyInv, Accounts
<1>5. RowInv'
  BY DEF SessionsInv, RowInv, Accounts
<1> QED BY <1>0, <1>2, <1>3, <1>4, <1>5

(* What w has committed is new to those who hold a copy, and nothing else. *)
Commits(w) ==
    /\ copy' \in [Savers -> CopyRecords]
    /\ \A v \in Savers : v # w =>
         /\ copy'[v].held => copy[v].held
         /\ copy[v].held => /\ copy'[v].row = copy[v].row
                           /\ copy'[v].since = copy[v].since \cup {w}
                           /\ w \in MayLose(v)
    /\ Moves
    /\ lost \subseteq lost'
    /\ incurred' \in Nat /\ incurred <= incurred'
    /\ newest' \in NewestRecords
    /\ newest'.todos = newest.todos \/ w \in TodosTools
    /\ newest'.summary = newest.summary \/ w = "summary"
    /\ newest'.title = newest.title \/ w \in {"title", "rename", "dialog"}

LEMMA OthersAccount ==
    ASSUME SessionsInv, NEW w \in RowWriters, Commits(w),
           NEW v \in Savers, v # w, copy'[v].held
    PROVE  /\ copy'[v].since \subseteq MayLose(v)'
           /\ Accounts(copy[v].row, lost \cup copy[v].since)'
<1>1. /\ copy[v].held
      /\ copy'[v].row = copy[v].row
      /\ copy'[v].since = copy[v].since \cup {w}
      /\ w \in MayLose(v)
  BY DEF Commits
<1>2. /\ copy[v].since \subseteq MayLose(v)
      /\ Accounts(copy[v].row, lost \cup copy[v].since)
      /\ copy[v].row \in SessionRows /\ incurred \in Nat
  BY <1>1, CopyMember DEF SessionsInv, CopyInv, SessionTypes, CopyRecords
<1>8. w \in TodosTools => copy'[v].since \cap TodosTools # {}
  BY <1>1
<1>9. MayLose(v) \subseteq MayLose(v)'
  BY LosesMore DEF Commits, SessionsInv
<1>3. copy[v].row.cost <= incurred'
  BY <1>2, RowMember DEF Accounts, Commits
<1>4. lost' \cup copy'[v].since # {}
  BY <1>1
<1>5. (lost' \cup copy'[v].since) \cap TodosTools = {} => copy[v].row.todos = newest'.todos
  BY <1>1, <1>2, <1>8 DEF Accounts, Commits
<1>6. (lost' \cup copy'[v].since) \cap {"summary"} = {} => copy[v].row.summary = newest'.summary
  BY <1>1, <1>2 DEF Accounts, Commits
<1>7. (lost' \cup copy'[v].since) \cap {"title", "rename", "dialog"} = {}
        => copy[v].row.title = newest'.title
  BY <1>1, <1>2 DEF Accounts, Commits
<1> QED BY <1>1, <1>2, <1>3, <1>4, <1>5, <1>6, <1>7, <1>9 DEF Accounts

LEMMA SaveKind ==
    ASSUME SessionsInv, NEW w \in Savers, NEW r \in SessionRows, SaveAndDrop(w, r),
           Moves, RowInv',
           incurred' \in Nat, incurred <= incurred', newest' \in NewestRecords,
           newest'.todos = newest.todos \/ w \in TodosTools,
           newest'.summary = newest.summary \/ w = "summary",
           newest'.title = newest.title \/ w = "dialog"
    PROVE  /\ SessionTypes' /\ CopyInv'
           /\ \A v \in Savers : copy'[v].held <=> copy[v].held /\ v # w
<1> DEFINE C == [copy EXCEPT ![w] = NoCopy]
<1>0. w \in RowWriters /\ copy \in [Savers -> CopyRecords] /\ ~NoCopy.held
  BY Writers DEF SessionsInv, SessionTypes, CopyRecords, NoCopy
<1>8. \A v \in Savers : v # w /\ copy[v].held => w \in MayLose(v)
  BY BothHold DEF SaveAndDrop, SessionsInv
<1>1. /\ C \in [Savers -> CopyRecords] /\ C[w] = NoCopy
      /\ \A v \in Savers : v # w => C[v] = copy[v]
  BY <1>0 DEF CopyRecords
<1>2. copy' = Behind(C, w) /\ copy[w].held /\ lost' = lost \cup copy[w].since /\ sessionRow' = r
  BY DEF SaveAndDrop, SaveRow
<1> HIDE DEF C
<1>3. /\ copy' \in [Savers -> CopyRecords]
      /\ copy'[w] = NoCopy
      /\ \A v \in Savers : v # w =>
           /\ copy'[v].held <=> copy[v].held
           /\ copy[v].held => /\ copy'[v].row = copy[v].row
                             /\ copy'[v].since = copy[v].since \cup {w}
  BY <1>0, <1>1, <1>2, BehindOf
<1>4. Commits(w)
  BY <1>2, <1>3, <1>8 DEF Commits, Moves
<1>5. CopyInv'
  BY <1>0, <1>3, <1>4, OthersAccount DEF CopyInv
<1>6. copy[w].since \subseteq RowWriters
  BY <1>0, <1>2, CopyMember
<1>7. SessionTypes'
  BY <1>2, <1>3, <1>6 DEF SessionsInv, SessionTypes, CopyRecords, Moves
<1> QED BY <1>0, <1>3, <1>5, <1>7

LEMMA InPlaceKind ==
    ASSUME SessionsInv, NEW w \in {"title", "rename"}, NEW r \in SessionRows, InPlace(w, r),
           Moves, RowInv', UNCHANGED lost,
           incurred' \in Nat, incurred <= incurred', newest' \in NewestRecords,
           newest'.todos = newest.todos, newest'.summary = newest.summary
    PROVE  /\ SessionTypes' /\ CopyInv'
           /\ \A v \in Savers : copy'[v].held <=> copy[v].held
<1>0. w \in RowWriters /\ w \notin Savers /\ copy \in [Savers -> CopyRecords]
  BY Writers DEF SessionsInv, SessionTypes, CopyRecords
<1>1. copy' = Behind(copy, w) /\ sessionRow' = r
  BY DEF InPlace
<1>2. /\ copy' \in [Savers -> CopyRecords]
      /\ \A v \in Savers :
           /\ copy'[v].held <=> copy[v].held
           /\ copy[v].held => /\ copy'[v].row = copy[v].row
                             /\ copy'[v].since = copy[v].since \cup {w}
  BY <1>0, <1>1, BehindOf
<1>3. \A v \in Savers : w \in MayLose(v)
  BY <1>0 DEF MayLose, RowWriters
<1>4. Commits(w)
  BY <1>2, <1>3 DEF Commits, Moves
<1>5. CopyInv'
  BY <1>0, <1>4, OthersAccount DEF CopyInv
<1>6. SessionTypes'
  BY <1>1, <1>2 DEF SessionsInv, SessionTypes, CopyRecords, Moves
<1> QED BY <1>2, <1>5, <1>6

LEMMA TodosGetRow ==
    ASSUME SessionsInv, NEW a \in TodosTools, TodosGet(a)
    PROVE  SessionsInv'
<1>1. a \in TurnTools /\ a \in Savers /\ Moves
  BY Writers DEF TodosGet, GetRow, SessionsInv, SessionTypes, Moves
<1>2. /\ SessionTypes' /\ CopyInv' /\ RowInv'
      /\ \A v \in Savers : copy'[v].held <=> copy[v].held \/ v = a
  BY <1>1, GetKind DEF TodosGet
<1>3. TurnOrderInv'
  <2>1. /\ \A p \in Workers : copy'[p].held <=> copy[p].held
        /\ \A v \in TurnTools : copy'[v].held <=> copy[v].held \/ v = a
    BY <1>1, <1>2, Writers
  <2> QED BY <1>1, <2>1, Writers DEF SessionsInv, TurnOrderInv, TodosGet, AtWork
<1> QED BY <1>2, <1>3 DEF SessionsInv

LEMMA StepGetRow ==
    ASSUME SessionsInv, NEW t \in Turns, StepGet(t)
    PROVE  SessionsInv'
<1>1. t \in Workers /\ t \in Savers /\ Moves
  BY Writers DEF StepGet, GetRow, SessionsInv, SessionTypes, Moves, Places
<1>2. /\ SessionTypes' /\ CopyInv' /\ RowInv'
      /\ \A v \in Savers : copy'[v].held <=> copy[v].held \/ v = t
  BY <1>1, GetKind DEF StepGet
<1>3. TurnOrderInv'
  <2>1. /\ \A p \in Workers : copy'[p].held <=> copy[p].held \/ p = t
        /\ \A v \in TurnTools : copy'[v].held <=> copy[v].held
    BY <1>1, <1>2, Writers
  <2>2. /\ at'[t] = "ending" /\ at[t] = "tools" /\ together' = together
        /\ \A p \in Workers : p # t => at'[p] = at[p]
    BY <1>1 DEF StepGet, SessionsInv, SessionTypes
  <2>3. \A p \in Workers : AtWork(p)' <=> AtWork(p)
    BY <2>2 DEF AtWork
  <2>4. \A a \in TurnTools : copy[a].held => TurnOf[a] # t
    BY DEF StepGet, Quiet
  <2> QED BY <1>1, <2>1, <2>2, <2>3, <2>4, Writers DEF SessionsInv, TurnOrderInv
<1> QED BY <1>2, <1>3 DEF SessionsInv

LEMMA SummarizeGetRow ==
    ASSUME SessionsInv, SummarizeGet
    PROVE  SessionsInv'
<1>1. "summary" \in Workers /\ "summary" \in Savers /\ Moves
  BY Writers DEF SummarizeGet, SetsOut, GetRow, SessionsInv, SessionTypes, Moves, Places
<1>2. /\ SessionTypes' /\ CopyInv' /\ RowInv'
      /\ \A v \in Savers : copy'[v].held <=> copy[v].held \/ v = "summary"
  BY <1>1, GetKind DEF SummarizeGet
<1>3. TurnOrderInv'
  <2>1. /\ \A p \in Workers : copy'[p].held <=> copy[p].held \/ p = "summary"
        /\ \A v \in TurnTools : copy'[v].held <=> copy[v].held
    BY <1>1, <1>2, Writers
  <2>2. /\ at'["summary"] = "reading"
        /\ together' = (together \/ \E q \in Workers \ {"summary"} : AtWork(q))
        /\ \A p \in Workers : p # "summary" => at'[p] = at[p]
    BY <1>1 DEF SummarizeGet, SetsOut, SessionsInv, SessionTypes
  <2>3. \A p \in Workers : p # "summary" => (AtWork(p)' <=> AtWork(p))
    BY <2>2 DEF AtWork
  <2> QED BY <1>1, <2>1, <2>2, <2>3, Writers DEF SessionsInv, TurnOrderInv
<1> QED BY <1>2, <1>3 DEF SessionsInv

LEMMA DialogOpensRow ==
    ASSUME SessionsInv, DialogOpens
    PROVE  SessionsInv'
<1>1. "dialog" \in Savers /\ Moves
  BY Writers DEF DialogOpens, GetRow, SessionsInv, SessionTypes, Moves
<1>2. /\ SessionTypes' /\ CopyInv' /\ RowInv'
      /\ \A v \in Savers : copy'[v].held <=> copy[v].held \/ v = "dialog"
  BY <1>1, GetKind DEF DialogOpens
<1>3. TurnOrderInv'
  BY <1>1, <1>2, OrderKept DEF SessionsInv, DialogOpens
<1> QED BY <1>2, <1>3 DEF SessionsInv

LEMMA SubGetParentRow ==
    ASSUME SessionsInv, NEW a \in SubAgents, SubGetParent(a)
    PROVE  SessionsInv'
<1>1. a \in TurnTools /\ a \in Savers /\ Moves
  BY Writers DEF SubGetParent, GetRow, SessionsInv, SessionTypes, Moves
<1>2. /\ SessionTypes' /\ CopyInv' /\ RowInv'
      /\ \A v \in Savers : copy'[v].held <=> copy[v].held \/ v = a
  BY <1>1, GetKind DEF SubGetParent
<1>3. TurnOrderInv'
  <2>1. /\ \A p \in Workers : copy'[p].held <=> copy[p].held
        /\ \A v \in TurnTools : copy'[v].held <=> copy[v].held \/ v = a
    BY <1>1, <1>2, Writers
  <2> QED BY <1>1, <2>1, Writers DEF SessionsInv, TurnOrderInv, SubGetParent, AtWork
<1> QED BY <1>2, <1>3 DEF SessionsInv

LEMMA DialogClosesRow ==
    ASSUME SessionsInv, DialogCloses
    PROVE  SessionsInv'
<1>1. "dialog" \in Savers /\ Moves
  BY Writers DEF DialogCloses, SessionsInv, SessionTypes, Moves
<1>2. /\ SessionTypes' /\ CopyInv' /\ RowInv'
      /\ \A v \in Savers : copy'[v].held <=> copy[v].held /\ v # "dialog"
  BY <1>1, DropKind DEF DialogCloses
<1>3. TurnOrderInv'
  BY <1>1, <1>2, OrderKept DEF SessionsInv, DialogCloses
<1> QED BY <1>2, <1>3 DEF SessionsInv

LEMMA SaveFailsRow ==
    ASSUME SessionsInv, NEW w \in Savers, SaveFails(w)
    PROVE  SessionsInv'
<1>1. Moves
  BY DEF SaveFails, SessionsInv, SessionTypes, Moves, Places
<1>2. /\ SessionTypes' /\ CopyInv' /\ RowInv'
      /\ \A v \in Savers : copy'[v].held <=> copy[v].held /\ v # w
  BY <1>1, DropKind DEF SaveFails
<1>3. TurnOrderInv'
  <2>1. \A v \in Workers \cup TurnTools : copy'[v].held <=> copy[v].held /\ v # w
    BY <1>2, Writers
  <2>2. /\ together' = together
        /\ \A p \in Workers : p # w => at'[p] = at[p]
        /\ w \in Workers => at'[w] \in {"gone", "released"}
    BY DEF SaveFails, SessionsInv, SessionTypes
  <2>3. \A p \in Workers : AtWork(p)' => AtWork(p)
    BY <2>2 DEF AtWork
  <2>4. w \in Workers => \A a \in TurnTools : copy[a].held => TurnOf[a] # w
    BY Writers DEF SaveFails, DropCopy, SessionsInv, TurnOrderInv, Workers
  <2> QED BY <2>1, <2>2, <2>3, <2>4, Writers DEF SessionsInv, TurnOrderInv
<1> QED BY <1>2, <1>3 DEF SessionsInv

LEMMA StillAccounts ==
    ASSUME SessionsInv, Moves, UNCHANGED <<sessionRow, copy, incurred, newest, lost>>
    PROVE  SessionTypes' /\ CopyInv' /\ RowInv'
<1>1. SessionTypes'
  BY DEF SessionsInv, SessionTypes, Moves
<1>2. CopyInv'
  BY LosesMore DEF SessionsInv, CopyInv, Accounts
<1>3. RowInv'
  BY DEF SessionsInv, RowInv, Accounts
<1> QED BY <1>1, <1>2, <1>3

LEMMA StartTurnRow ==
    ASSUME SessionsInv, NEW t \in Turns, StartTurn(t)
    PROVE  SessionsInv'
<1>1. t \in Workers /\ Moves
  BY Writers DEF StartTurn, SetsOut, SessionsInv, SessionTypes, Moves, Places
<1>2. SessionTypes' /\ CopyInv' /\ RowInv'
  BY <1>1, StillAccounts DEF StartTurn
<1>3. TurnOrderInv'
  <2>1. /\ at[t] = "tested" /\ at'[t] = "tools" /\ UNCHANGED copy
        /\ together' = (together \/ \E q \in Workers \ {t} : AtWork(q))
        /\ \A p \in Workers : p # t => at'[p] = at[p]
    BY <1>1 DEF StartTurn, SetsOut, SessionsInv, SessionTypes
  <2>2. \A p \in Workers : p # t => (AtWork(p)' <=> AtWork(p))
    BY <2>1 DEF AtWork
  <2> QED BY <1>1, <2>1, <2>2, Writers DEF SessionsInv, TurnOrderInv
<1> QED BY <1>2, <1>3 DEF SessionsInv

(* Looking for the entry, setting it and deleting it move no row.          *)
LEMMA EntryRow ==
    ASSUME SessionsInv, NEW p \in Workers, FindsIdle(p) \/ Releases(p) \/ Unwinds(p)
    PROVE  SessionsInv'
<1>1. Moves /\ UNCHANGED <<sessionRow, copy, incurred, newest, lost, together>>
  BY DEF FindsIdle, Releases, Unwinds, SessionsInv, SessionTypes, Moves, Places
<1>2. SessionTypes' /\ CopyInv' /\ RowInv'
  BY <1>1, StillAccounts
<1>3. TurnOrderInv'
  <2>1. /\ at[p] \in {"idle", "over", "released"} /\ at'[p] \in {"tested", "released", "gone"}
        /\ \A q \in Workers : q # p => at'[q] = at[q]
    BY DEF FindsIdle, Releases, Unwinds, SessionsInv, SessionTypes
  <2>2. \A q \in Workers : AtWork(q)' <=> AtWork(q)
    BY <2>1 DEF AtWork
  <2> QED BY <1>1, <2>1, <2>2, Writers DEF SessionsInv, TurnOrderInv
<1> QED BY <1>2, <1>3 DEF SessionsInv

LEMMA TurnFailsRow ==
    ASSUME SessionsInv, NEW t \in Turns, TurnFails(t)
    PROVE  SessionsInv'
<1>1. t \in Workers /\ Moves /\ UNCHANGED <<sessionRow, copy, incurred, newest, lost, together>>
  BY Writers DEF TurnFails, SessionsInv, SessionTypes, Moves, Places
<1>2. SessionTypes' /\ CopyInv' /\ RowInv'
  BY <1>1, StillAccounts
<1>3. TurnOrderInv'
  <2>1. /\ at[t] = "tools" /\ at'[t] = "released"
        /\ \A q \in Workers : q # t => at'[q] = at[q]
        /\ \A a \in TurnTools : copy[a].held => TurnOf[a] # t
    BY <1>1 DEF TurnFails, Quiet, SessionsInv, SessionTypes
  <2>2. \A q \in Workers : AtWork(q)' => AtWork(q)
    BY <2>1 DEF AtWork
  <2> QED BY <1>1, <2>1, <2>2, Writers DEF SessionsInv, TurnOrderInv
<1> QED BY <1>2, <1>3 DEF SessionsInv

LEMMA SummarizeEntersRow ==
    ASSUME SessionsInv, SummarizeEnters
    PROVE  SessionsInv'
<1>1. "summary" \in Workers /\ Moves
      /\ UNCHANGED <<sessionRow, copy, incurred, newest, lost, together>>
  BY Writers DEF SummarizeEnters, SessionsInv, SessionTypes, Moves, Places
<1>2. SessionTypes' /\ CopyInv' /\ RowInv'
  BY <1>1, StillAccounts
<1>3. TurnOrderInv'
  <2>1. /\ at["summary"] = "reading" /\ at'["summary"] = "writing"
        /\ \A q \in Workers : q # "summary" => at'[q] = at[q]
    BY <1>1 DEF SummarizeEnters, SessionsInv, SessionTypes
  <2>2. \A q \in Workers : AtWork(q)' <=> AtWork(q)
    BY <2>1 DEF AtWork
  <2> QED BY <1>1, <2>1, <2>2, Writers DEF SessionsInv, TurnOrderInv
<1> QED BY <1>2, <1>3 DEF SessionsInv

LEMMA TitleGeneratedRow ==
    ASSUME SessionsInv, TitleGenerated
    PROVE  SessionsInv'
<1>0. /\ sessionRow \in SessionRows /\ newest \in NewestRecords /\ incurred \in Nat
      /\ Moves /\ newest.title \in Nat
  BY NewestMember DEF TitleGenerated, SessionsInv, SessionTypes, Moves
<1>1. PICK r \in SessionRows :
        /\ InPlace("title", r)
        /\ r.title = newest.title + 1 /\ r.cost = sessionRow.cost + 1
        /\ r.todos = sessionRow.todos /\ r.summary = sessionRow.summary
  <2>0. PICK t \in Nat, c \in Nat : t = newest.title + 1 /\ c = sessionRow.cost + 1
    BY <1>0, RowMember
  <2> DEFINE y == [sessionRow EXCEPT !.title = t, !.cost = c]
  <2>1. y \in SessionRows /\ y.title = t /\ y.cost = c
        /\ y.todos = sessionRow.todos /\ y.summary = sessionRow.summary
    BY <1>0 DEF SessionRows
  <2>2. InPlace("title", y)
    BY <2>0 DEF TitleGenerated
  <2> QED BY <2>0, <2>1, <2>2
<1>2. /\ newest' \in NewestRecords /\ newest'.title = newest.title + 1
      /\ newest'.todos = newest.todos /\ newest'.summary = newest.summary
      /\ incurred' = incurred + 1 /\ UNCHANGED lost
  BY <1>0 DEF TitleGenerated, NewestRecords
<1>3. sessionRow' = r
  BY <1>1 DEF InPlace
<1>4. RowInv'
  BY <1>0, <1>1, <1>2, <1>3, RowMember DEF SessionsInv, RowInv, Accounts
<1>5. /\ SessionTypes' /\ CopyInv'
      /\ \A v \in Savers : copy'[v].held <=> copy[v].held
  BY <1>0, <1>1, <1>2, <1>4, InPlaceKind
<1>6. TurnOrderInv'
  BY <1>0, <1>5, OrderKept DEF SessionsInv, TitleGenerated
<1> QED BY <1>4, <1>5, <1>6 DEF SessionsInv

LEMMA TitleFailedRow ==
    ASSUME SessionsInv, TitleFailed
    PROVE  SessionsInv'
<1>0. /\ sessionRow \in SessionRows /\ newest \in NewestRecords /\ incurred \in Nat
      /\ Moves /\ newest.title \in Nat
  BY NewestMember DEF TitleFailed, SessionsInv, SessionTypes, Moves
<1>1. PICK r \in SessionRows :
        /\ InPlace("title", r)
        /\ r.title = newest.title + 1 /\ r.cost = sessionRow.cost
        /\ r.todos = sessionRow.todos /\ r.summary = sessionRow.summary
  <2> DEFINE y == [sessionRow EXCEPT !.title = newest.title + 1]
  <2>1. y \in SessionRows /\ y.title = newest.title + 1 /\ y.cost = sessionRow.cost
        /\ y.todos = sessionRow.todos /\ y.summary = sessionRow.summary
    BY <1>0 DEF SessionRows
  <2>2. InPlace("title", y)
    BY DEF TitleFailed
  <2> QED BY <2>1, <2>2
<1>2. /\ newest' \in NewestRecords /\ newest'.title = newest.title + 1
      /\ newest'.todos = newest.todos /\ newest'.summary = newest.summary
      /\ incurred' = incurred /\ UNCHANGED lost
  BY <1>0 DEF TitleFailed, NewestRecords
<1>3. sessionRow' = r
  BY <1>1 DEF InPlace
<1>4. RowInv'
  BY <1>0, <1>1, <1>2, <1>3, RowMember DEF SessionsInv, RowInv, Accounts
<1>5. /\ SessionTypes' /\ CopyInv'
      /\ \A v \in Savers : copy'[v].held <=> copy[v].held
  BY <1>0, <1>1, <1>2, <1>4, InPlaceKind
<1>6. TurnOrderInv'
  BY <1>0, <1>5, OrderKept DEF SessionsInv, TitleFailed
<1> QED BY <1>4, <1>5, <1>6 DEF SessionsInv

LEMMA RenameSessionRow ==
    ASSUME SessionsInv, RenameSession
    PROVE  SessionsInv'
<1>0. /\ sessionRow \in SessionRows /\ newest \in NewestRecords /\ incurred \in Nat
      /\ Moves /\ newest.title \in Nat
  BY NewestMember DEF RenameSession, SessionsInv, SessionTypes, Moves
<1>1. PICK r \in SessionRows :
        /\ InPlace("rename", r)
        /\ r.title = newest.title + 1 /\ r.cost = sessionRow.cost
        /\ r.todos = sessionRow.todos /\ r.summary = sessionRow.summary
  <2> DEFINE y == [sessionRow EXCEPT !.title = newest.title + 1]
  <2>1. y \in SessionRows /\ y.title = newest.title + 1 /\ y.cost = sessionRow.cost
        /\ y.todos = sessionRow.todos /\ y.summary = sessionRow.summary
    BY <1>0 DEF SessionRows
  <2>2. InPlace("rename", y)
    BY DEF RenameSession
  <2> QED BY <2>1, <2>2
<1>2. /\ newest' \in NewestRecords /\ newest'.title = newest.title + 1
      /\ newest'.todos = newest.todos /\ newest'.summary = newest.summary
      /\ incurred' = incurred /\ UNCHANGED lost
  BY <1>0 DEF RenameSession, NewestRecords
<1>3. sessionRow' = r
  BY <1>1 DEF InPlace
<1>4. RowInv'
  BY <1>0, <1>1, <1>2, <1>3, RowMember DEF SessionsInv, RowInv, Accounts
<1>5. /\ SessionTypes' /\ CopyInv'
      /\ \A v \in Savers : copy'[v].held <=> copy[v].held
  BY <1>0, <1>1, <1>2, <1>4, InPlaceKind
<1>6. TurnOrderInv'
  BY <1>0, <1>5, OrderKept DEF SessionsInv, RenameSession
<1> QED BY <1>4, <1>5, <1>6 DEF SessionsInv

LEMMA TodosSaveRow ==
    ASSUME SessionsInv, NEW a \in TodosTools, TodosSave(a)
    PROVE  SessionsInv'
<1>0. /\ newest \in NewestRecords /\ incurred \in Nat /\ newest.todos \in Nat
      /\ Moves /\ a \in Savers /\ copy[a].held
  BY NewestMember, Writers DEF TodosSave, SessionsInv, SessionTypes, Moves, Places, SaveAndDrop
<1>1. /\ copy[a].row \in SessionRows /\ copy[a].since \subseteq RowWriters
      /\ Accounts(copy[a].row, lost \cup copy[a].since)
  BY <1>0, CopyMember DEF SessionsInv, SessionTypes, CopyInv, CopyRecords
<1>2. PICK r \in SessionRows :
        /\ SaveAndDrop(a, r)
        /\ r.title = copy[a].row.title
        /\ r.cost = copy[a].row.cost
        /\ r.todos = newest.todos + 1
        /\ r.summary = copy[a].row.summary
  <2> DEFINE y == [copy[a].row EXCEPT !.todos = newest.todos + 1]
  <2>1. /\ y \in SessionRows
        /\ y.title = copy[a].row.title
        /\ y.cost = copy[a].row.cost
        /\ y.todos = newest.todos + 1
        /\ y.summary = copy[a].row.summary
    BY <1>0, <1>1 DEF SessionRows
  <2>2. SaveAndDrop(a, y)
    BY DEF TodosSave
  <2> QED BY <2>1, <2>2
<1>3. /\ newest' \in NewestRecords
      /\ newest'.title = newest.title
      /\ newest'.todos = newest.todos + 1
      /\ newest'.summary = newest.summary
      /\ incurred' = incurred
  BY <1>0 DEF TodosSave, NewestRecords
<1>4. sessionRow' = r /\ lost' = lost \cup copy[a].since
  BY <1>2 DEF SaveAndDrop, SaveRow
<1>5. RowInv'
  BY <1>0, <1>1, <1>2, <1>3, <1>4, RowMember DEF RowInv, Accounts
<1>7. /\ SessionTypes' /\ CopyInv'
      /\ \A v \in Savers : copy'[v].held <=> copy[v].held /\ v # a
  BY <1>0, <1>2, <1>3, <1>5, SaveKind
<1>8. TurnOrderInv'
  BY <1>0, <1>7, OrderKept DEF SessionsInv, TodosSave
<1> QED BY <1>5, <1>7, <1>8 DEF SessionsInv

LEMMA SubSaveParentRow ==
    ASSUME SessionsInv, NEW a \in SubAgents, SubSaveParent(a)
    PROVE  SessionsInv'
<1>0. /\ newest \in NewestRecords /\ incurred \in Nat /\ newest.todos \in Nat
      /\ Moves /\ a \in Savers /\ copy[a].held
  BY NewestMember, Writers DEF SubSaveParent, SessionsInv, SessionTypes, Moves, Places, SaveAndDrop
<1>1. /\ copy[a].row \in SessionRows /\ copy[a].since \subseteq RowWriters
      /\ Accounts(copy[a].row, lost \cup copy[a].since)
  BY <1>0, CopyMember DEF SessionsInv, SessionTypes, CopyInv, CopyRecords
<1>2. PICK r \in SessionRows :
        /\ SaveAndDrop(a, r)
        /\ r.title = copy[a].row.title
        /\ r.cost = copy[a].row.cost + 1
        /\ r.todos = copy[a].row.todos
        /\ r.summary = copy[a].row.summary
  <2> DEFINE y == [copy[a].row EXCEPT !.cost = @ + 1]
  <2>1. /\ y \in SessionRows
        /\ y.title = copy[a].row.title
        /\ y.cost = copy[a].row.cost + 1
        /\ y.todos = copy[a].row.todos
        /\ y.summary = copy[a].row.summary
    BY <1>0, <1>1 DEF SessionRows
  <2>2. SaveAndDrop(a, y)
    BY DEF SubSaveParent
  <2> QED BY <2>1, <2>2
<1>3. /\ newest' \in NewestRecords
      /\ newest'.title = newest.title
      /\ newest'.todos = newest.todos
      /\ newest'.summary = newest.summary
      /\ incurred' = incurred + 1
  BY <1>0 DEF SubSaveParent, NewestRecords
<1>4. sessionRow' = r /\ lost' = lost \cup copy[a].since
  BY <1>2 DEF SaveAndDrop, SaveRow
<1>5. RowInv'
  BY <1>0, <1>1, <1>2, <1>3, <1>4, RowMember DEF RowInv, Accounts
<1>7. /\ SessionTypes' /\ CopyInv'
      /\ \A v \in Savers : copy'[v].held <=> copy[v].held /\ v # a
  BY <1>0, <1>2, <1>3, <1>5, SaveKind
<1>8. TurnOrderInv'
  BY <1>0, <1>7, OrderKept DEF SessionsInv, SubSaveParent
<1> QED BY <1>5, <1>7, <1>8 DEF SessionsInv

LEMMA StepSaveRow ==
    ASSUME SessionsInv, NEW t \in Turns, StepSave(t)
    PROVE  SessionsInv'
<1>0. /\ newest \in NewestRecords /\ incurred \in Nat /\ newest.todos \in Nat
      /\ Moves /\ t \in Savers /\ copy[t].held
  BY NewestMember, Writers DEF StepSave, SessionsInv, SessionTypes, Moves, Places, SaveAndDrop
<1>1. /\ copy[t].row \in SessionRows /\ copy[t].since \subseteq RowWriters
      /\ Accounts(copy[t].row, lost \cup copy[t].since)
  BY <1>0, CopyMember DEF SessionsInv, SessionTypes, CopyInv, CopyRecords
<1>2. PICK r \in SessionRows :
        /\ SaveAndDrop(t, r)
        /\ r.title = copy[t].row.title
        /\ r.cost = copy[t].row.cost + 1
        /\ r.todos = copy[t].row.todos
        /\ r.summary = copy[t].row.summary
  <2> DEFINE y == [copy[t].row EXCEPT !.cost = @ + 1]
  <2>1. /\ y \in SessionRows
        /\ y.title = copy[t].row.title
        /\ y.cost = copy[t].row.cost + 1
        /\ y.todos = copy[t].row.todos
        /\ y.summary = copy[t].row.summary
    BY <1>0, <1>1 DEF SessionRows
  <2>2. SaveAndDrop(t, y)
    BY DEF StepSave
  <2> QED BY <2>1, <2>2
<1>3. /\ newest' \in NewestRecords
      /\ newest'.title = newest.title
      /\ newest'.todos = newest.todos
      /\ newest'.summary = newest.summary
      /\ incurred' = incurred + 1
  BY <1>0 DEF StepSave, NewestRecords
<1>4. sessionRow' = r /\ lost' = lost \cup copy[t].since
  BY <1>2 DEF SaveAndDrop, SaveRow
<1>5. RowInv'
  BY <1>0, <1>1, <1>2, <1>3, <1>4, RowMember DEF RowInv, Accounts
<1>7. /\ SessionTypes' /\ CopyInv'
      /\ \A v \in Savers : copy'[v].held <=> copy[v].held /\ v # t
  BY <1>0, <1>2, <1>3, <1>5, SaveKind
<1>8. TurnOrderInv'
  <2>1. /\ t \in Workers /\ together' = together
        /\ at'[t] \in {"tools", "over"} /\ at[t] = "ending"
        /\ \A q \in Workers : q # t => at'[q] = at[q]
    BY <1>0, Writers DEF StepSave, SessionsInv, SessionTypes, TurnOrderInv
  <2>2. \A q \in Workers : AtWork(q)' => AtWork(q)
    BY <2>1 DEF AtWork
  <2>3. \A v \in Workers \cup TurnTools : copy'[v].held => copy[v].held /\ v # t
    BY <1>7, Writers
  <2>4. \A a \in TurnTools : copy[a].held => TurnOf[a] # t
    BY <1>0, <2>1, Writers DEF SessionsInv, TurnOrderInv
  <2> QED BY <2>1, <2>2, <2>3, <2>4, Writers DEF SessionsInv, TurnOrderInv
<1> QED BY <1>5, <1>7, <1>8 DEF SessionsInv

LEMMA SummarizeSaveRow ==
    ASSUME SessionsInv, SummarizeSave
    PROVE  SessionsInv'
<1>0. /\ newest \in NewestRecords /\ incurred \in Nat /\ newest.todos \in Nat
      /\ Moves /\ "summary" \in Savers /\ copy["summary"].held
  BY NewestMember, Writers DEF SummarizeSave, SessionsInv, SessionTypes, Moves, Places, SaveAndDrop
<1>1. /\ copy["summary"].row \in SessionRows /\ copy["summary"].since \subseteq RowWriters
      /\ Accounts(copy["summary"].row, lost \cup copy["summary"].since)
  BY <1>0, CopyMember DEF SessionsInv, SessionTypes, CopyInv, CopyRecords
<1>2. PICK r \in SessionRows :
        /\ SaveAndDrop("summary", r)
        /\ r.title = copy["summary"].row.title
        /\ r.cost = copy["summary"].row.cost + 1
        /\ r.todos = copy["summary"].row.todos
        /\ r.summary = TRUE
  <2>0. PICK c \in Nat : c = copy["summary"].row.cost + 1
    BY <1>1, RowMember
  <2> DEFINE y == [copy["summary"].row EXCEPT !.cost = c, !.summary = TRUE]
  <2>1. /\ y \in SessionRows
        /\ y.title = copy["summary"].row.title
        /\ y.cost = c
        /\ y.todos = copy["summary"].row.todos
        /\ y.summary = TRUE
    BY <1>1 DEF SessionRows
  <2>2. SaveAndDrop("summary", y)
    BY <2>0 DEF SummarizeSave
  <2> QED BY <2>0, <2>1, <2>2
<1>3. /\ newest' \in NewestRecords
      /\ newest'.title = newest.title
      /\ newest'.todos = newest.todos
      /\ newest'.summary = TRUE
      /\ incurred' = incurred + 1
  BY <1>0 DEF SummarizeSave, NewestRecords
<1>4. sessionRow' = r /\ lost' = lost \cup copy["summary"].since
  BY <1>2 DEF SaveAndDrop, SaveRow
<1>5. RowInv'
  <2>1. r.cost <= incurred' /\ (lost' = {} => r.cost = incurred')
    BY <1>0, <1>1, <1>2, <1>3, <1>4, RowMember DEF Accounts
  <2>2. /\ lost' \cap TodosTools = {} => r.todos = newest'.todos
        /\ lost' \cap {"title", "rename", "dialog"} = {} => r.title = newest'.title
    BY <1>1, <1>2, <1>3, <1>4 DEF Accounts
  <2>3. r.summary = newest'.summary
    BY <1>2, <1>3
  <2> QED BY <1>4, <2>1, <2>2, <2>3 DEF RowInv, Accounts
<1>7. /\ SessionTypes' /\ CopyInv'
      /\ \A v \in Savers : copy'[v].held <=> copy[v].held /\ v # "summary"
  BY <1>0, <1>2, <1>3, <1>5, SaveKind
<1>8. TurnOrderInv'
  <2>1. /\ "summary" \in Workers /\ together' = together
        /\ at'["summary"] = "over" /\ at["summary"] = "writing"
        /\ \A q \in Workers : q # "summary" => at'[q] = at[q]
    BY <1>0, Writers DEF SummarizeSave, SessionsInv, SessionTypes
  <2>2. \A q \in Workers : AtWork(q)' => AtWork(q)
    BY <2>1 DEF AtWork
  <2>3. \A v \in Workers \cup TurnTools : copy'[v].held => copy[v].held /\ v # "summary"
    BY <1>7, Writers
  <2>4. \A a \in TurnTools : copy[a].held => TurnOf[a] # "summary"
    BY <1>0, <2>1, Writers DEF SessionsInv, TurnOrderInv
  <2> QED BY <2>1, <2>2, <2>3, <2>4, Writers DEF SessionsInv, TurnOrderInv
<1> QED BY <1>5, <1>7, <1>8 DEF SessionsInv

(* The dialog keeps its copy, which still lacks what came since.           *)
LEMMA DialogRenamesRow ==
    ASSUME SessionsInv, DialogRenames
    PROVE  SessionsInv'
<1>0. /\ newest \in NewestRecords /\ incurred \in Nat /\ newest.title \in Nat
      /\ "dialog" \in Savers /\ "dialog" \in RowWriters /\ copy["dialog"].held
      /\ copy \in [Savers -> CopyRecords]
  BY NewestMember, Writers DEF DialogRenames, SessionsInv, SessionTypes, CopyRecords
<1>1. /\ copy["dialog"] \in HeldCopies
      /\ copy["dialog"].row \in SessionRows /\ copy["dialog"].since \subseteq RowWriters
      /\ Accounts(copy["dialog"].row, lost \cup copy["dialog"].since)
  BY <1>0, CopyMember DEF SessionsInv, CopyInv
<1>2. PICK r \in SessionRows :
        /\ r = [copy["dialog"].row EXCEPT !.title = newest.title + 1]
        /\ r.title = newest.title + 1
        /\ r.cost = copy["dialog"].row.cost
        /\ r.todos = copy["dialog"].row.todos
        /\ r.summary = copy["dialog"].row.summary
  <2> DEFINE y == [copy["dialog"].row EXCEPT !.title = newest.title + 1]
  <2>1. /\ y \in SessionRows
        /\ y.title = newest.title + 1
        /\ y.cost = copy["dialog"].row.cost
        /\ y.todos = copy["dialog"].row.todos
        /\ y.summary = copy["dialog"].row.summary
    BY <1>0, <1>1 DEF SessionRows
  <2> QED BY <2>1
<1>3. PICK x \in HeldCopies :
        /\ [copy EXCEPT !["dialog"].row = r] = [copy EXCEPT !["dialog"] = x]
        /\ x.held /\ x.row = r /\ x.since = copy["dialog"].since
  <2> DEFINE y == [copy["dialog"] EXCEPT !.row = r]
  <2>1. y \in HeldCopies /\ y.held /\ y.row = r /\ y.since = copy["dialog"].since
    BY <1>1 DEF HeldCopies
  <2>2. [copy EXCEPT !["dialog"].row = r] = [copy EXCEPT !["dialog"] = y]
    BY <1>0
  <2> QED BY <2>1, <2>2
<1> DEFINE C == [copy EXCEPT !["dialog"] = x]
<1>4. /\ C \in [Savers -> CopyRecords] /\ C["dialog"] = x
      /\ \A v \in Savers : v # "dialog" => C[v] = copy[v]
  BY <1>0 DEF CopyRecords
<1>5. copy' = Behind(C, "dialog") /\ sessionRow' = r /\ lost' = lost \cup copy["dialog"].since
  BY <1>2, <1>3 DEF DialogRenames, SaveRow
<1> HIDE DEF C
<1>6. /\ copy' \in [Savers -> CopyRecords]
      /\ copy'["dialog"] = x
      /\ \A v \in Savers : v # "dialog" =>
           /\ copy'[v].held <=> copy[v].held
           /\ copy[v].held => /\ copy'[v].row = copy[v].row
                             /\ copy'[v].since = copy[v].since \cup {"dialog"}
  BY <1>0, <1>4, <1>5, BehindOf
<1>7. /\ newest' \in NewestRecords /\ newest'.title = newest.title + 1
      /\ newest'.todos = newest.todos /\ newest'.summary = newest.summary
      /\ UNCHANGED <<incurred, at>> /\ Moves
  BY <1>0 DEF DialogRenames, NewestRecords, Moves, SessionsInv, SessionTypes
<1>8. RowInv'
  BY <1>0, <1>1, <1>2, <1>5, <1>7, RowMember DEF RowInv, Accounts
<1>9. \A v \in Savers : "dialog" \in MayLose(v)
  BY <1>0, Writers DEF MayLose, Savers
<1>10. Commits("dialog")
  BY <1>0, <1>5, <1>6, <1>7, <1>9 DEF Commits
<1>11. CopyInv'
  <2> DEFINE L == lost' \cup copy'["dialog"].since
  <2>1. copy'["dialog"].since = copy["dialog"].since
    BY <1>3, <1>6
  <2>2. L = lost'
    BY <1>5, <2>1
  <2>3. copy'["dialog"].since \subseteq MayLose("dialog")'
    BY <1>1, <2>1 DEF MayLose
  <2>4. copy'["dialog"].row = sessionRow'
    BY <1>3, <1>5, <1>6
  <2>5. Accounts(copy["dialog"].row, lost \cup copy["dialog"].since)'
    BY <1>8, <2>2, <2>4 DEF RowInv, Accounts
  <2>6. \A v \in Savers : v # "dialog" /\ copy'[v].held =>
          /\ copy'[v].since \subseteq MayLose(v)'
          /\ Accounts(copy[v].row, lost \cup copy[v].since)'
    BY <1>0, <1>10, OthersAccount
  <2> QED BY <2>3, <2>5, <2>6 DEF CopyInv
<1>12. SessionTypes'
  BY <1>1, <1>5, <1>6, <1>7 DEF SessionsInv, SessionTypes, CopyRecords, Moves
<1>13. TurnOrderInv'
  BY <1>0, <1>6, <1>7, OrderKept DEF SessionsInv
<1> QED BY <1>8, <1>11, <1>12, <1>13 DEF SessionsInv

LEMMA DeleteSessionRow ==
    ASSUME SessionsInv, DeleteSession
    PROVE  SessionsInv'
<1>0. ~NoCopy.held
  BY DEF NoCopy
<1>1. PICK r \in SessionRows :
        /\ sessionRow' = r
        /\ r.title = sessionRow.title /\ r.cost = sessionRow.cost
        /\ r.todos = sessionRow.todos /\ r.summary = sessionRow.summary
  <2> DEFINE y == [sessionRow EXCEPT !.exists = FALSE]
  <2>1. /\ y \in SessionRows
        /\ y.title = sessionRow.title /\ y.cost = sessionRow.cost
        /\ y.todos = sessionRow.todos /\ y.summary = sessionRow.summary
    BY DEF SessionsInv, SessionTypes, SessionRows
  <2> QED BY <2>1 DEF DeleteSession
<1>2. \A v \in Savers : ~copy'[v].held
  BY <1>0 DEF DeleteSession
<1>3. SessionTypes'
  BY <1>1 DEF DeleteSession, SessionsInv, SessionTypes
<1>4. TurnOrderInv'
  BY <1>2, Writers DEF TurnOrderInv, DeleteSession, SessionsInv, AtWork
<1>5. CopyInv'
  BY <1>2 DEF CopyInv
<1>6. RowInv'
  BY <1>1 DEF DeleteSession, SessionsInv, RowInv, Accounts
<1> QED BY <1>3, <1>4, <1>5, <1>6 DEF SessionsInv

LEMMA SessionsStart == SessionsInit => SessionsInv
<1> SUFFICES ASSUME SessionsInit
             PROVE  SessionsInv
  OBVIOUS
<1>1. ~NoCopy.held
  BY DEF NoCopy
<1>2. \A w \in Savers : ~copy[w].held
  BY <1>1 DEF SessionsInit
<1>3. SessionTypes
  BY DEF SessionsInit, SessionTypes, SessionRows, Places, NewestRecords
<1>4. TurnOrderInv
  BY <1>2, Writers DEF TurnOrderInv, SessionsInit, AtWork
<1>5. CopyInv
  BY <1>2 DEF CopyInv
<1>6. RowInv
  BY DEF SessionsInit, RowInv, Accounts
<1> QED BY <1>3, <1>4, <1>5, <1>6 DEF SessionsInv

LEMMA SessionsStep == SessionsInv /\ [SessionsNext]_sessionVars => SessionsInv'
<1> SUFFICES ASSUME SessionsInv, [SessionsNext]_sessionVars
             PROVE  SessionsInv'
  OBVIOUS
<1>1. CASE UNCHANGED sessionVars
  BY <1>1 DEF sessionVars, SessionsInv, SessionTypes, TurnOrderInv, CopyInv, RowInv, Accounts, AtWork, MayLose
<1>2. ASSUME NEW a \in SubAgents, SubGetParent(a) \/ SubSaveParent(a)
      PROVE  SessionsInv'
  BY <1>2, SubGetParentRow, SubSaveParentRow
<1>3. ASSUME NEW a \in TodosTools, TodosGet(a) \/ TodosSave(a)
      PROVE  SessionsInv'
  BY <1>3, TodosGetRow, TodosSaveRow
<1>4. ASSUME NEW w \in Savers, SaveFails(w)
      PROVE  SessionsInv'
  BY <1>4, SaveFailsRow
<1>5. ASSUME NEW p \in Workers, FindsIdle(p) \/ Releases(p) \/ Unwinds(p)
      PROVE  SessionsInv'
  BY <1>5, EntryRow
<1>7. ASSUME NEW t \in Turns, StartTurn(t) \/ StepGet(t) \/ StepSave(t) \/ TurnFails(t)
      PROVE  SessionsInv'
  BY <1>7, StartTurnRow, StepGetRow, StepSaveRow, TurnFailsRow
<1>8. CASE TitleGenerated \/ TitleFailed \/ SummarizeGet \/ SummarizeEnters \/ SummarizeSave
  BY <1>8, TitleGeneratedRow, TitleFailedRow, SummarizeGetRow, SummarizeEntersRow, SummarizeSaveRow
<1>6. CASE RenameSession \/ DialogOpens \/ DialogRenames \/ DialogCloses \/ DeleteSession
  BY <1>6, RenameSessionRow, DialogOpensRow, DialogRenamesRow, DialogClosesRow, DeleteSessionRow
<1> QED BY <1>1, <1>2, <1>3, <1>4, <1>5, <1>6, <1>7, <1>8 DEF SessionsNext

(* Every update of a session row is accounted for.  A Save of the whole    *)
(* row, by the end of a step, a tool, a summary or the dialog, writes over *)
(* nothing but what its writer may lose; what nobody wrote over is in the  *)
(* row: the cost is the sum of the operations' costs, and the title, todos *)
(* and summary are the last committed (session/session.go).                *)
THEOREM SessionRowIsAccounted == SessionsSpec => []RowIsAccounted
<1>1. SessionsInv => RowIsAccounted
  <2> SUFFICES ASSUME SessionsInv
               PROVE  RowIsAccounted
    OBVIOUS
  <2>1. ASSUME NEW w \in Savers
        PROVE  copy[w].since \subseteq MayLose(w)
    <3>1. CASE copy[w].held
      BY <3>1 DEF SessionsInv, CopyInv
    <3>2. CASE ~copy[w].held
      BY <3>2, CopyMember DEF SessionsInv, SessionTypes, CopyRecords, NoCopy
    <3> QED BY <3>1, <3>2
  <2> QED BY <2>1 DEF RowIsAccounted, SessionsInv, RowInv, Accounts
<1> QED BY <1>1, SessionsStart, SessionsStep, PTL DEF SessionsSpec

-----------------------------------------------------------------------------
(* The edited file.                                                        *)

Contents == Nat \cup {Absent}
FileRecords == [content : Contents, time : Nat]
VersionRecords == [session : EditSessions, version : Nat, content : Nat]
ToolPCs == {"idle", "read", "ask", "lookup", "begin", "listOld", "keepOld", "listNew",
            "keepNew", "record"}
EditCalls == [pc : ToolPCs, tool : Tools, old : Nat, new : Nat, oldTime : Nat,
              lastRead : Nat, checked : Nat, number : Nat, missing : SUBSET {"old", "new"}]
SpentRecords == [calls : Nat, changes : Nat, contents : Nat]

EditTypes ==
    /\ clock \in Nat
    /\ file \in FileRecords
    /\ readAt \in [EditSessions -> Nat]
    /\ call \in [EditSessions -> EditCalls]
    /\ shown \in [EditSessions -> FileRecords]
    /\ spent \in SpentRecords

(* Nothing is from the future.                                             *)
ClockInv ==
    /\ file.time <= clock
    /\ \A s \in EditSessions : shown[s].time <= clock /\ call[s].checked <= clock

(* A content a session has not seen is no older than the one it has.       *)
SeenInv ==
    \A s \in EditSessions :
        Exists /\ file.content # shown[s].content => file.time >= shown[s].time

(* A file about to be read has passed the check, or changed since.         *)
CheckedInv ==
    \A s \in EditSessions :
        /\ call[s].pc = "read" /\ call[s].tool \in {"edit", "write"} =>
             file.time >= call[s].checked \/ file.time <= call[s].lastRead
        /\ call[s].pc # "idle" /\ call[s].tool = "create" =>
             call[s].pc # "read" /\ call[s].old = 0
        /\ call[s].pc \in {"idle", "read", "ask"} => call[s].missing = {}

(* The table is keyed by session and version, and has latest versions.     *)
WellKept(V) ==
    /\ V \subseteq VersionRecords
    /\ \A v, w \in V : v.session = w.session /\ v.version = w.version => v = w
    /\ V # {} => \E t \in V : \A v \in V : v.version <= t.version
    /\ \A s \in EditSessions :
         Of(V, s) # {} => \E t \in Of(V, s) : \A v \in Of(V, s) : v.version <= t.version

(* How far the call c has kept its contents in V, its session's versions:  *)
(* the number it is about to insert is above all of them, and what it has  *)
(* inserted without a failure is there.                                    *)
KeptOld(c, V) == "old" \notin c.missing => \E v \in V : v.content = c.old

KeptNew(c, V) ==
    "new" \notin c.missing =>
      \E t \in V :
        /\ t.content = c.new /\ \A v \in V : v.version <= t.version
        /\ "old" \notin c.missing => \E v \in V : v.content = c.old /\ v.version < t.version

KeepsFor(c, V) ==
    /\ c.pc \in {"lookup", "begin", "listOld", "keepOld"} => c.missing = {}
    /\ c.pc \in {"listNew", "keepNew"} => "new" \notin c.missing /\ KeptOld(c, V)
    /\ c.pc \in {"keepOld", "keepNew"} => \A v \in V : v.version < c.number
    /\ c.pc = "record" /\ c.tool # "view" => KeptOld(c, V) /\ KeptNew(c, V)

KeepInv == \A s \in EditSessions : KeepsFor(call[s], Of(versions, s))

EditsInv ==
    /\ EditTypes /\ ClockInv /\ SeenInv /\ CheckedInv /\ UnseenOnlyInTheGap
    /\ WellKept(versions) /\ KeepInv

-----------------------------------------------------------------------------
(* The versions of the file.                                               *)

LEMMA MaxIs ==
    ASSUME NEW S \in SUBSET Nat, NEW m \in S, \A x \in S : x <= m
    PROVE  Max(S) = m
<1>1. \E x \in S : \A y \in S : x >= y
  <2>1. \A y \in S : m >= y
    OBVIOUS
  <2> QED BY <2>1
<1>2. Max(S) \in S /\ \A y \in S : Max(S) >= y
  BY <1>1 DEF Max
<1>3. Max(S) >= m /\ Max(S) <= m /\ Max(S) \in Nat /\ m \in Nat
  BY <1>2
<1> QED BY <1>3

LEMMA MinIn ==
    ASSUME NEW n \in Nat, NEW S \in SUBSET (n .. n + 2), S # {}
    PROVE  Min(S) \in S
<1>1. S \subseteq {n, n + 1, n + 2}
  OBVIOUS
<1>2. \E x \in S : \A y \in S : x =< y
  <2>1. CASE n \in S
    BY <1>1, <2>1
  <2>2. CASE n \notin S /\ n + 1 \in S
    BY <1>1, <2>2
  <2>3. CASE n \notin S /\ n + 1 \notin S
    <3>1. \A y \in S : y = n + 2
      BY <1>1, <2>3
    <3>2. n + 2 \in S
      BY <3>1
    <3> QED BY <3>1, <3>2
  <2> QED BY <2>1, <2>2, <2>3
<1> QED BY <1>2 DEF Min

LEMMA VersionMember ==
    ASSUME NEW v \in VersionRecords
    PROVE  v.session \in EditSessions /\ v.version \in Nat /\ v.content \in Nat
  BY DEF VersionRecords

(* The latest version is the one that none is above.                       *)
LEMMA LatestIs ==
    ASSUME NEW V, WellKept(V), NEW s \in EditSessions, NEW t \in Of(V, s),
           \A v \in Of(V, s) : v.version <= t.version
    PROVE  Latest(V, s) = t
<1>1. Of(V, s) \subseteq VersionRecords /\ \A v \in Of(V, s) : v.session = s /\ v \in V
  BY DEF WellKept, Of
<1>2. Numbers(Of(V, s)) \in SUBSET Nat /\ t.version \in Numbers(Of(V, s))
      /\ \A x \in Numbers(Of(V, s)) : x <= t.version
  BY <1>1, VersionMember DEF Numbers
<1>3. Max(Numbers(Of(V, s))) = t.version
  BY <1>2, MaxIs
<1>4. \A v \in Of(V, s) : v.version = t.version => v = t
  BY <1>1 DEF WellKept
<1> QED BY <1>3, <1>4 DEF Latest

LEMMA LatestIn ==
    ASSUME NEW V, WellKept(V), NEW s \in EditSessions, Of(V, s) # {}
    PROVE  /\ Latest(V, s) \in Of(V, s)
           /\ \A v \in Of(V, s) : v.version <= Latest(V, s).version
<1>1. PICK t \in Of(V, s) : \A v \in Of(V, s) : v.version <= t.version
  BY DEF WellKept
<1>2. Latest(V, s) = t
  BY <1>1, LatestIs
<1> QED BY <1>1, <1>2

(* A version with a number its session has not used.                       *)
LEMMA AddedKeeps ==
    ASSUME NEW V, WellKept(V), NEW v \in VersionRecords,
           v.version \notin Numbers(Of(V, v.session))
    PROVE  /\ WellKept(V \cup {v})
           /\ Of(V \cup {v}, v.session) = Of(V, v.session) \cup {v}
           /\ \A s \in EditSessions : s # v.session => Of(V \cup {v}, s) = Of(V, s)
<1> DEFINE W == V \cup {v}
<1>1. Of(W, v.session) = Of(V, v.session) \cup {v}
  BY DEF Of
<1>2. \A s \in EditSessions : s # v.session => Of(W, s) = Of(V, s)
  BY DEF Of
<1>3. W \subseteq VersionRecords
  BY DEF WellKept
<1>4. \A x, y \in W : x.session = y.session /\ x.version = y.version => x = y
  <2>1. \A x \in V : x.session = v.session => x.version # v.version
    BY DEF Of, Numbers
  <2> QED BY <2>1 DEF WellKept
<1>5. ASSUME NEW X \in SUBSET VersionRecords,
             X # {} => \E t \in X : \A x \in X : x.version <= t.version
      PROVE  \E t \in X \cup {v} : \A x \in X \cup {v} : x.version <= t.version
  <2>1. CASE X = {}
    BY <2>1, VersionMember
  <2>2. CASE X # {}
    <3>1. PICK t \in X : \A x \in X : x.version <= t.version
      BY <2>2, <1>5
    <3>2. t.version \in Nat /\ v.version \in Nat /\ \A x \in X : x.version \in Nat
      BY VersionMember
    <3>3. CASE v.version <= t.version
      BY <3>1, <3>2, <3>3
    <3>4. CASE t.version < v.version
      <4>1. \A x \in X : x.version <= v.version
        BY <3>1, <3>2, <3>4
      <4>2. \A x \in X \cup {v} : x.version <= v.version
        BY <3>2, <4>1
      <4> QED BY <4>2
    <3> QED BY <3>2, <3>3, <3>4
  <2> QED BY <2>1, <2>2
<1>6. \E t \in W : \A x \in W : x.version <= t.version
  <2>1. V \in SUBSET VersionRecords /\ (V # {} => \E t \in V : \A x \in V : x.version <= t.version)
    BY DEF WellKept
  <2> QED BY <2>1, <1>5
<1>7. ASSUME NEW s \in EditSessions, Of(W, s) # {}
      PROVE  \E t \in Of(W, s) : \A x \in Of(W, s) : x.version <= t.version
  <2>1. CASE s # v.session
    BY <2>1, <1>2, <1>7 DEF WellKept
  <2>2. CASE s = v.session
    <3>1. Of(V, s) \in SUBSET VersionRecords
          /\ (Of(V, s) # {} => \E t \in Of(V, s) : \A x \in Of(V, s) : x.version <= t.version)
      BY DEF WellKept, Of
    <3> QED BY <2>2, <3>1, <1>1, <1>5
  <2> QED BY <2>1, <2>2
<1> HIDE DEF W
<1>8. WellKept(W)
  BY <1>3, <1>4, <1>6, <1>7 DEF WellKept
<1> QED BY <1>1, <1>2, <1>8 DEF W

(* createWithVersion adds one version of its session, numbered n or above. *)
Added(s, n, c) == [session |-> s, version |-> Min(FreeNumbers(versions, s, n)), content |-> c]
WithAdded(s, n, c) == versions \cup {Added(s, n, c)}

LEMMA InsertsOne ==
    ASSUME WellKept(versions), NEW s \in EditSessions, NEW n \in Nat, NEW c \in Nat,
           FreeNumbers(versions, s, n) # {},
           NEW W, W = WithAdded(s, n, c)
    PROVE  /\ WellKept(W)
           /\ \A r \in EditSessions : r # s => Of(W, r) = Of(versions, r)
           /\ \E v \in VersionRecords :
                /\ v.content = c /\ n <= v.version
                /\ Of(W, s) = Of(versions, s) \cup {v}
<1> DEFINE free == FreeNumbers(versions, s, n)
           v == Added(s, n, c)
<1>1. free \in SUBSET (n .. n + 2) /\ free # {}
  BY DEF FreeNumbers
<1>2. Min(free) \in free
  BY <1>1, MinIn
<1>3. Min(free) \in Nat /\ n <= Min(free) /\ Min(free) \notin Numbers(Of(versions, s))
  BY <1>2 DEF FreeNumbers
<1> HIDE DEF free
<1>4. v \in VersionRecords /\ v.session = s /\ v.content = c /\ v.version = Min(free)
  BY <1>3 DEF VersionRecords, Added, free
<1> HIDE DEF v
<1>5. v.version \notin Numbers(Of(versions, v.session))
  BY <1>3, <1>4
<1>6. W = versions \cup {v}
  BY DEF v, WithAdded
<1>7. /\ WellKept(versions \cup {v})
      /\ Of(versions \cup {v}, v.session) = Of(versions, v.session) \cup {v}
      /\ \A r \in EditSessions : r # v.session => Of(versions \cup {v}, r) = Of(versions, r)
  BY <1>4, <1>5, AddedKeeps
<1>8. /\ WellKept(W)
      /\ Of(W, s) = Of(versions, s) \cup {v}
      /\ \A r \in EditSessions : r # s => Of(W, r) = Of(versions, r)
  BY <1>4, <1>6, <1>7
<1> QED BY <1>3, <1>4, <1>8

(* The number after the latest is above every number of the path.          *)
LEMMA NextNumber ==
    ASSUME WellKept(versions), NEW n,
           n = IF versions = {} THEN 0 ELSE Max(Numbers(versions)) + 1
    PROVE  n \in Nat /\ \A s \in EditSessions : \A v \in Of(versions, s) : v.version < n
<1>1. n \in Nat /\ \A u \in versions : u.version < n
  <2>1. CASE versions = {}
    BY <2>1
  <2>2. CASE versions # {}
    <3>1. PICK t \in versions : \A v \in versions : v.version <= t.version
      BY <2>2 DEF WellKept
    <3>2. versions \subseteq VersionRecords
      BY DEF WellKept
    <3>3. /\ Numbers(versions) \in SUBSET Nat /\ t.version \in Numbers(versions)
          /\ \A x \in Numbers(versions) : x <= t.version
      BY <3>1, <3>2, VersionMember DEF Numbers
    <3>4. Max(Numbers(versions)) = t.version
      BY <3>3, MaxIs
    <3>5. \A u \in versions : u.version \in Nat
      BY <3>2, VersionMember
    <3> QED BY <2>2, <3>1, <3>4, <3>5
  <2> QED BY <2>1, <2>2
<1> QED BY <1>1 DEF Of

-----------------------------------------------------------------------------
(* The tools.                                                              *)

(* What a step of s leaves of the calls.                                   *)
CallMoved(s, c) ==
    /\ call' \in [EditSessions -> EditCalls]
    /\ call'[s] = c
    /\ \A r \in EditSessions : r # s => call'[r] = call[r]

LEMMA CallMember ==
    ASSUME EditTypes, NEW s \in EditSessions
    PROVE  /\ call[s] \in EditCalls
           /\ call[s].pc \in ToolPCs /\ call[s].tool \in Tools
           /\ call[s].old \in Nat /\ call[s].new \in Nat /\ call[s].oldTime \in Nat
           /\ call[s].lastRead \in Nat /\ call[s].checked \in Nat
           /\ call[s].number \in Nat /\ call[s].missing \in SUBSET {"old", "new"}
           /\ readAt[s] \in Nat
           /\ shown[s] \in FileRecords /\ shown[s].time \in Nat
           /\ shown[s].content \in Contents
  BY DEF EditTypes, EditCalls, FileRecords

LEMMA EditedMember ==
    ASSUME EditTypes
    PROVE  /\ file \in FileRecords /\ file.time \in Nat /\ file.content \in Contents
           /\ (Exists => file.content \in Nat)
           /\ clock \in Nat /\ spent.contents \in Nat /\ spent.calls \in Nat
           /\ spent.changes \in Nat
           /\ NoToolCall \in EditCalls /\ NoToolCall.pc = "idle" /\ NoToolCall.checked = 0
           /\ NoToolCall.missing = {}
  BY DEF EditTypes, FileRecords, Contents, Exists, SpentRecords, NoToolCall, EditCalls,
         ToolPCs, Tools

LEMMA CallOne ==
    ASSUME EditTypes, NEW s \in EditSessions, NEW c \in EditCalls,
           call' = [call EXCEPT ![s] = c]
    PROVE  CallMoved(s, c)
  BY DEF EditTypes, CallMoved

LEMMA StepTo ==
    ASSUME EditTypes, NEW s \in EditSessions, NEW p \in ToolPCs, Step(s, p)
    PROVE  \E c \in EditCalls :
             /\ CallMoved(s, c)
             /\ c.pc = p /\ c.tool = call[s].tool /\ c.old = call[s].old
             /\ c.new = call[s].new /\ c.oldTime = call[s].oldTime
             /\ c.lastRead = call[s].lastRead /\ c.checked = call[s].checked
             /\ c.number = call[s].number /\ c.missing = call[s].missing
<1> DEFINE c == [call[s] EXCEPT !.pc = p]
<1>1. /\ c \in EditCalls
      /\ c.pc = p /\ c.tool = call[s].tool /\ c.old = call[s].old
      /\ c.new = call[s].new /\ c.oldTime = call[s].oldTime
      /\ c.lastRead = call[s].lastRead /\ c.checked = call[s].checked
      /\ c.number = call[s].number /\ c.missing = call[s].missing
  BY CallMember DEF EditCalls
<1>2. call' = [call EXCEPT ![s] = c]
  BY DEF Step, EditTypes
<1> QED BY <1>1, <1>2, CallOne

LEMMA ReturnsTo ==
    ASSUME EditTypes, NEW s \in EditSessions, ToolReturns(s)
    PROVE  CallMoved(s, NoToolCall)
  BY CallOne, EditedMember DEF ToolReturns

(* A call that returns, or has not begun, leaves nothing to hold.          *)
LEMMA ReturnKeeps ==
    ASSUME EditsInv, NEW s \in EditSessions, CallMoved(s, NoToolCall),
           readAt' \in [EditSessions -> Nat],
           UNCHANGED <<clock, file, versions, spent, shown>>
    PROVE  EditsInv'
<1> USE DEF EditsInv
<1>1. EditTypes'
  BY DEF EditTypes, CallMoved
<1>2. NoToolCall.pc = "idle" /\ NoToolCall.checked = 0 /\ NoToolCall.missing = {}
  BY EditedMember
<1>3. ClockInv'
  <2>1. clock \in Nat
    BY DEF EditTypes
  <2> QED BY <1>2, <2>1 DEF ClockInv, CallMoved
<1>4. SeenInv'
  BY DEF SeenInv, Exists
<1>5. CheckedInv'
  BY <1>2 DEF CheckedInv, CallMoved
<1>6. UnseenOnlyInTheGap'
  BY <1>2 DEF UnseenOnlyInTheGap, CallMoved
<1>7. WellKept(versions)'
  BY DEF WellKept, Of
<1>8. KeepInv'
  <2>1. KeepsFor(NoToolCall, Of(versions, s))
    BY <1>2 DEF KeepsFor
  <2> QED BY <2>1 DEF KeepInv, CallMoved, Of
<1> QED BY <1>1, <1>3, <1>4, <1>5, <1>6, <1>7, <1>8

(* The file changes under everybody.                                       *)
LEMMA ChangeKeeps ==
    ASSUME EditsInv, file' \in FileRecords, spent' \in SpentRecords,
           clock' \in Nat, clock <= clock', file'.time <= clock',
           file'.content = Absent \/ file' = file \/ file'.time = clock,
           file'.time = file.time \/ file'.time = clock,
           UNCHANGED <<readAt, versions, call, shown>>
    PROVE  EditsInv'
<1> USE DEF EditsInv
<1>1. EditTypes'
  BY DEF EditTypes
<1>2. ClockInv'
  <2>1. clock \in Nat /\ clock' \in Nat
    BY DEF EditTypes
  <2>2. \A s \in EditSessions : shown[s].time <= clock' /\ call[s].checked <= clock'
    BY <2>1, CallMember DEF ClockInv
  <2> QED BY <2>2 DEF ClockInv
<1>3. SeenInv'
  BY DEF SeenInv, Exists, ClockInv
<1>4. CheckedInv'
  BY DEF CheckedInv, ClockInv
<1>5. UnseenOnlyInTheGap'
  BY DEF UnseenOnlyInTheGap
<1>6. WellKept(versions)'
  BY DEF WellKept, Of
<1>7. KeepInv'
  BY DEF KeepInv, Of
<1> QED BY <1>1, <1>2, <1>3, <1>4, <1>5, <1>6, <1>7

LEMMA TickEdits ==
    ASSUME EditsInv, Tick
    PROVE  EditsInv'
<1>1. EditTypes /\ clock \in Nat /\ file.time \in Nat /\ file.time <= clock
  BY EditedMember DEF EditsInv, ClockInv
<1>2. /\ file' = file /\ spent' = spent /\ clock' = clock + 1
      /\ file' \in FileRecords /\ spent' \in SpentRecords
  BY <1>1 DEF Tick, EditTypes
<1> QED BY <1>1, <1>2, ChangeKeeps DEF Tick

LEMMA UserWritesEdits ==
    ASSUME EditsInv, UserWrites
    PROVE  EditsInv'
<1>1. EditTypes /\ clock \in Nat /\ spent \in SpentRecords /\ spent.contents \in Nat
      /\ spent.changes \in Nat
  BY EditedMember DEF EditsInv, EditTypes
<1>2. file' \in FileRecords /\ file'.time = clock
  BY <1>1 DEF UserWrites, FileRecords, Contents
<1>3. spent' \in SpentRecords
  <2> PICK c \in Nat, d \in Nat : c = spent.changes + 1 /\ d = spent.contents + 1
    BY <1>1
  <2>1. spent' = [spent EXCEPT !.changes = c, !.contents = d]
    BY DEF UserWrites
  <2> QED BY <1>1, <2>1 DEF SpentRecords
<1> QED BY <1>1, <1>2, <1>3, ChangeKeeps DEF UserWrites

LEMMA UserDeletesEdits ==
    ASSUME EditsInv, UserDeletes
    PROVE  EditsInv'
<1>1. EditTypes /\ clock \in Nat /\ spent \in SpentRecords /\ spent.changes \in Nat
      /\ file \in FileRecords /\ file.time \in Nat /\ file.time <= clock
  BY EditedMember DEF EditsInv, EditTypes, ClockInv
<1>2. file' \in FileRecords /\ file'.time = file.time /\ file'.content = Absent
  BY <1>1 DEF UserDeletes, FileRecords, Contents
<1>3. spent' \in SpentRecords
  BY <1>1 DEF UserDeletes, SpentRecords
<1> QED BY <1>1, <1>2, <1>3, ChangeKeeps DEF UserDeletes

LEMMA NoSuchTextEdits ==
    ASSUME EditsInv, NEW s \in EditSessions, NoSuchText(s)
    PROVE  EditsInv'
<1>0. EditTypes
  BY DEF EditsInv
<1>1. CallMoved(s, NoToolCall)
  BY <1>0, ReturnsTo DEF NoSuchText
<1> QED BY <1>0, <1>1, ReturnKeeps DEF NoSuchText, EditTypes

LEMMA DeniedEdits ==
    ASSUME EditsInv, NEW s \in EditSessions, Denied(s)
    PROVE  EditsInv'
<1>0. EditTypes
  BY DEF EditsInv
<1>1. CallMoved(s, NoToolCall)
  BY <1>0, ReturnsTo DEF Denied
<1> QED BY <1>0, <1>1, ReturnKeeps DEF Denied, EditTypes

LEMMA RecordReadEdits ==
    ASSUME EditsInv, NEW s \in EditSessions, RecordRead(s)
    PROVE  EditsInv'
<1>0. EditTypes
  BY DEF EditsInv
<1>1. CallMoved(s, NoToolCall)
  BY <1>0, ReturnsTo DEF RecordRead
<1>2. readAt' \in [EditSessions -> Nat]
  BY <1>0 DEF RecordRead, EditTypes
<1> QED BY <1>0, <1>1, <1>2, ReturnKeeps DEF RecordRead

(* A step of one session before it keeps versions: the conjuncts about the *)
(* other sessions are those of the state before.                           *)
LEMMA OthersEdit ==
    ASSUME EditsInv, NEW s \in EditSessions, NEW c \in EditCalls, CallMoved(s, c),
           file'.content = file.content \/ file'.time = clock,
           file'.time = file.time \/ file'.time = clock,
           file' \in FileRecords, spent' \in SpentRecords, shown' \in [EditSessions -> FileRecords],
           \A r \in EditSessions : r # s => shown'[r] = shown[r],
           UNCHANGED <<clock, readAt, versions>>,
           shown'[s].time <= clock, c.checked <= clock,
           Exists' /\ file'.content # shown'[s].content => file'.time >= shown'[s].time,
           c.pc = "read" /\ c.tool \in {"edit", "write"} =>
             file'.time >= c.checked \/ file'.time <= c.lastRead,
           c.pc # "idle" /\ c.tool = "create" => c.pc # "read" /\ c.old = 0,
           c.pc = "ask" /\ c.old # 0 /\ c.old # shown'[s].content =>
              \/ c.oldTime >= c.checked
              \/ c.oldTime >= shown'[s].time /\ c.oldTime <= c.lastRead,
           c.pc \in {"read", "ask", "lookup", "record"}, c.pc = "record" => c.tool = "view",
           c.missing = {},
           Exists' => Exists \/ file'.time = clock
    PROVE  EditsInv'
<1> USE DEF EditsInv
<1>1. EditTypes'
  BY DEF EditTypes, CallMoved
<1>2. ClockInv'
  BY EditedMember DEF ClockInv, CallMoved
<1>3. SeenInv'
  BY DEF SeenInv, ClockInv, Exists
<1>4. CheckedInv'
  BY DEF CheckedInv, ClockInv, CallMoved
<1>5. UnseenOnlyInTheGap'
  BY DEF UnseenOnlyInTheGap, CallMoved
<1>6. WellKept(versions)'
  BY DEF WellKept, Of
<1>7. KeepInv'
  <2>1. KeepsFor(c, Of(versions, s))
    BY DEF KeepsFor
  <2> QED BY <2>1 DEF KeepInv, CallMoved, Of
<1> QED BY <1>1, <1>2, <1>3, <1>4, <1>5, <1>6, <1>7

LEMMA StartToolEdits ==
    ASSUME EditsInv, NEW s \in EditSessions, NEW tool \in Tools, StartTool(s, tool)
    PROVE  EditsInv'
<1>0. EditTypes
  BY DEF EditsInv
<1>1. /\ spent' \in SpentRecords /\ clock \in Nat
      /\ UNCHANGED <<clock, file, readAt, versions, shown>>
  BY <1>0, EditedMember DEF StartTool, EditTypes, SpentRecords
<1>2. CASE Check(s, tool)
  <2> DEFINE c == [NoToolCall EXCEPT !.pc = IF Exists THEN "read" ELSE "ask",
                     !.tool = tool, !.lastRead = readAt[s], !.checked = clock]
  <2>1. call' = [call EXCEPT ![s] = c]
    BY <1>2 DEF StartTool
  <2>2. /\ c \in EditCalls /\ c.pc = (IF Exists THEN "read" ELSE "ask") /\ c.tool = tool
        /\ c.lastRead = readAt[s] /\ c.checked = clock /\ c.old = 0 /\ c.missing = {}
    <3> PICK p \in ToolPCs, l \in Nat : p = (IF Exists THEN "read" ELSE "ask") /\ l = readAt[s]
      BY <1>0, CallMember DEF ToolPCs
    <3>1. c = [NoToolCall EXCEPT !.pc = p, !.tool = tool, !.lastRead = l, !.checked = clock]
      OBVIOUS
    <3> QED BY <1>1, <3>1 DEF NoToolCall, EditCalls
  <2> HIDE DEF c
  <2>3. CallMoved(s, c)
    BY <1>0, <2>1, <2>2, CallOne
  <2>4. c.pc = "read" /\ c.tool \in {"edit", "write"} => file.time <= c.lastRead
    BY <1>2, <2>2 DEF Check
  <2>5. c.tool = "create" => c.pc = "ask"
    BY <1>2, <2>2 DEF Check
  <2>6. /\ shown[s].time <= clock
        /\ Exists /\ file.content # shown[s].content => file.time >= shown[s].time
        /\ file \in FileRecords /\ shown \in [EditSessions -> FileRecords]
    BY <1>0 DEF EditsInv, ClockInv, SeenInv, EditTypes
  <2>7. Exists' = Exists
    BY <1>1 DEF Exists
  <2>8. c.pc \in {"read", "ask", "lookup", "record"} /\ c.pc # "record" /\ c.checked <= clock
    BY <1>1, <2>2
  <2> QED BY <1>1, <2>2, <2>3, <2>4, <2>5, <2>6, <2>7, <2>8, OthersEdit
<1>3. CASE ~Check(s, tool)
  <2>1. UNCHANGED call
    BY <1>3 DEF StartTool
  <2>2. /\ file \in FileRecords /\ file.time <= clock
    BY <1>0 DEF EditsInv, EditTypes, ClockInv
  <2> QED BY <1>1, <2>1, <2>2, ChangeKeeps
<1> QED BY <1>2, <1>3

LEMMA ReadFileEdits ==
    ASSUME EditsInv, NEW s \in EditSessions, ReadFile(s)
    PROVE  EditsInv'
<1>0. EditTypes
  BY DEF EditsInv
<1>1. /\ UNCHANGED <<clock, file, readAt, versions, spent>> /\ call[s].pc = "read"
      /\ clock \in Nat /\ readAt \in [EditSessions -> Nat]
      /\ file \in FileRecords /\ spent \in SpentRecords
      /\ shown \in [EditSessions -> FileRecords]
  BY <1>0 DEF ReadFile, EditTypes
<1>2. /\ shown[s].time <= clock /\ call[s].checked <= clock
      /\ Exists /\ file.content # shown[s].content => file.time >= shown[s].time
      /\ call[s].tool \in {"edit", "write"} =>
           file.time >= call[s].checked \/ file.time <= call[s].lastRead
      /\ call[s].tool # "create" /\ call[s].missing = {}
  BY <1>1 DEF EditsInv, ClockInv, SeenInv, CheckedInv
<1>3. Exists' = Exists
  BY <1>1 DEF Exists
<1>4. CASE call[s].tool = "view" /\ Exists
  <2>1. /\ shown' = [shown EXCEPT ![s] = [content |-> file.content, time |-> clock]]
        /\ Step(s, "record")
    BY <1>4 DEF ReadFile
  <2>2. PICK c \in EditCalls :
          CallMoved(s, c) /\ c.pc = "record" /\ c.tool = "view" /\ c.checked <= clock
          /\ c.missing = {}
    <3>1. "record" \in ToolPCs
      BY DEF ToolPCs
    <3> QED BY <1>0, <1>2, <1>4, <2>1, <3>1, StepTo
  <2>3. /\ shown' \in [EditSessions -> FileRecords]
        /\ shown'[s].content = file.content /\ shown'[s].time = clock
        /\ \A r \in EditSessions : r # s => shown'[r] = shown[r]
    BY <1>0, <1>1, <2>1, EditedMember DEF FileRecords
  <2>4. shown'[s].time <= clock
    BY <1>1, <2>3
  <2>5. ~(Exists' /\ file'.content # shown'[s].content)
    BY <1>1, <2>3
  <2>6. UNCHANGED <<clock, readAt, versions>> /\ file' \in FileRecords /\ spent' \in SpentRecords
        /\ file'.content = file.content /\ file'.time = file.time
    BY <1>1
  <2> QED BY <1>3, <2>2, <2>3, <2>4, <2>5, <2>6, OthersEdit
<1>5. CASE call[s].tool # "view" /\ (Exists \/ call[s].tool = "write")
  <2> DEFINE o == IF Exists THEN file.content ELSE 0
  <2>1. /\ call' = [call EXCEPT ![s].pc = "ask", ![s].old = o, ![s].oldTime = file.time]
        /\ UNCHANGED shown
    BY <1>5 DEF ReadFile
  <2>2. PICK c \in EditCalls :
          /\ call' = [call EXCEPT ![s] = c]
          /\ c.pc = "ask" /\ c.old = o /\ c.oldTime = file.time
          /\ c.tool = call[s].tool /\ c.checked = call[s].checked /\ c.lastRead = call[s].lastRead
          /\ c.missing = call[s].missing
    <3> PICK u \in Nat, t \in Nat : u = o /\ t = file.time
      BY <1>0, EditedMember
    <3> DEFINE d == [call[s] EXCEPT !.pc = "ask", !.old = u, !.oldTime = t]
    <3>1. /\ d \in EditCalls /\ d.pc = "ask" /\ d.old = u /\ d.oldTime = t
          /\ d.tool = call[s].tool /\ d.checked = call[s].checked
          /\ d.lastRead = call[s].lastRead /\ d.missing = call[s].missing
      BY <1>0, CallMember DEF EditCalls, ToolPCs
    <3>2. call' = [call EXCEPT ![s] = d]
      BY <1>0, <2>1 DEF EditTypes
    <3> QED BY <3>1, <3>2
  <2>3. CallMoved(s, c)
    BY <1>0, <2>2, CallOne
  <2>4. c.tool \in {"edit", "write"}
    BY <1>0, <1>2, <1>5, <2>2, CallMember DEF Tools
  <2>5. c.old # 0 /\ c.old # shown[s].content =>
              \/ c.oldTime >= c.checked
              \/ c.oldTime >= shown[s].time /\ c.oldTime <= c.lastRead
    BY <1>2, <2>2, <2>4
  <2>6. UNCHANGED <<clock, readAt, versions, shown>> /\ file' \in FileRecords /\ spent' \in SpentRecords
        /\ file'.content = file.content /\ file'.time = file.time
        /\ shown' \in [EditSessions -> FileRecords]
    BY <1>1, <2>1
  <2>7. c.checked <= clock /\ c.tool # "create" /\ c.missing = {}
    BY <1>2, <2>2, <2>4
  <2> HIDE DEF o
  <2>8. /\ shown'[s].time <= clock /\ shown'[s] = shown[s]
        /\ Exists' /\ file'.content # shown'[s].content => file'.time >= shown'[s].time
        /\ \A r \in EditSessions : r # s => shown'[r] = shown[r]
    BY <1>2, <1>3, <2>6
  <2> QED BY <1>3, <2>2, <2>3, <2>5, <2>6, <2>7, <2>8, OthersEdit
<1>6. CASE ~(call[s].tool = "view" /\ Exists)
           /\ ~(call[s].tool # "view" /\ (Exists \/ call[s].tool = "write"))
  <2>1. ToolReturns(s) /\ UNCHANGED shown
    BY <1>6 DEF ReadFile
  <2> QED BY <1>0, <1>1, <2>1, ReturnsTo, ReturnKeeps
<1> QED BY <1>4, <1>5, <1>6

LEMMA WriteFileEdits ==
    ASSUME EditsInv, NEW s \in EditSessions, WriteFile(s)
    PROVE  EditsInv'
<1>0. EditTypes
  BY DEF EditsInv
<1>1. /\ UNCHANGED <<clock, readAt, versions>> /\ call[s].pc = "ask"
      /\ clock \in Nat /\ spent \in SpentRecords /\ spent.contents \in Nat
      /\ shown \in [EditSessions -> FileRecords]
  BY <1>0, EditedMember DEF WriteFile, EditTypes
<1>2. PICK n \in Nat : n = spent.contents + 1
  BY <1>1
<1>3. /\ file' = [content |-> n, time |-> clock]
      /\ shown' = [shown EXCEPT ![s] = [content |-> n, time |-> clock]]
      /\ call' = [call EXCEPT ![s] = [NoToolCall EXCEPT !.pc = "lookup",
                    !.tool = call[s].tool, !.old = call[s].old, !.new = n]]
      /\ spent' = [spent EXCEPT !.contents = n]
  BY <1>2 DEF WriteFile
<1>4. /\ file' \in FileRecords /\ file'.content = n /\ file'.time = clock
      /\ shown' \in [EditSessions -> FileRecords] /\ spent' \in SpentRecords
      /\ shown'[s].content = n /\ shown'[s].time = clock
      /\ \A r \in EditSessions : r # s => shown'[r] = shown[r]
  BY <1>1, <1>3 DEF FileRecords, Contents, SpentRecords
<1>5. PICK c \in EditCalls :
        /\ call' = [call EXCEPT ![s] = c]
        /\ c.pc = "lookup" /\ c.tool = call[s].tool /\ c.old = call[s].old
        /\ c.checked = 0 /\ c.missing = {}
  <2> PICK tool \in Tools, old \in Nat : tool = call[s].tool /\ old = call[s].old
    BY <1>0, CallMember
  <2> DEFINE d == [NoToolCall EXCEPT !.pc = "lookup", !.tool = tool, !.old = old, !.new = n]
  <2>1. /\ d \in EditCalls /\ d.pc = "lookup" /\ d.tool = tool /\ d.old = old
        /\ d.checked = 0 /\ d.missing = {}
    BY DEF NoToolCall, EditCalls, ToolPCs
  <2>2. call' = [call EXCEPT ![s] = d]
    BY <1>3
  <2> QED BY <2>1, <2>2
<1>6. CallMoved(s, c)
  BY <1>0, <1>5, CallOne
<1>7. c.checked <= clock /\ (c.tool = "create" => c.old = 0)
  BY <1>1, <1>5 DEF EditsInv, ClockInv, CheckedInv
<1>8. /\ shown'[s].time <= clock
      /\ ~(Exists' /\ file'.content # shown'[s].content)
  BY <1>1, <1>4
<1> QED BY <1>1, <1>4, <1>5, <1>6, <1>7, <1>8, OthersEdit

(* A step that keeps a version, or fails to, stays in the same call.       *)
LEMMA KeepingEdits ==
    ASSUME EditsInv, NEW s \in EditSessions, NEW c \in EditCalls, CallMoved(s, c),
           UNCHANGED <<clock, file, readAt, spent, shown>>,
           call[s].pc # "idle", c.pc \notin {"idle", "read", "ask"},
           c.tool = call[s].tool, c.old = call[s].old, c.checked = call[s].checked,
           WellKept(versions'), KeepsFor(c, Of(versions', s)),
           \A r \in EditSessions : r # s => Of(versions', r) = Of(versions, r)
    PROVE  EditsInv'
<1> USE DEF EditsInv
<1>1. EditTypes'
  BY DEF EditTypes, CallMoved
<1>2. ClockInv' /\ SeenInv' /\ CheckedInv'
  BY DEF ClockInv, SeenInv, CheckedInv, Exists, CallMoved
<1>3. UnseenOnlyInTheGap'
  BY DEF UnseenOnlyInTheGap, CallMoved
<1>4. WellKept(versions)'
  BY DEF WellKept, Of
<1>5. KeepInv'
  <2> SUFFICES ASSUME NEW r \in EditSessions
               PROVE  KeepsFor(call'[r], Of(versions', r))
    BY DEF KeepInv
  <2>1. CASE r = s
    BY <2>1 DEF CallMoved
  <2>2. CASE r # s
    BY <2>2 DEF CallMoved, KeepInv
  <2> QED BY <2>1, <2>2
<1> QED BY <1>1, <1>2, <1>3, <1>4, <1>5

LEMMA SameVersions ==
    ASSUME WellKept(versions), UNCHANGED versions
    PROVE  /\ WellKept(versions')
           /\ \A s \in EditSessions : Of(versions', s) = Of(versions, s)
  BY DEF WellKept, Of

LEMMA FindKeptEdits ==
    ASSUME EditsInv, NEW s \in EditSessions, FindKept(s)
    PROVE  EditsInv'
<1>0. EditTypes /\ WellKept(versions)
      /\ call[s].pc = "lookup" /\ UNCHANGED <<clock, file, readAt, versions, spent, shown>>
  BY DEF EditsInv, FindKept
<1>1. call[s].missing = {}
  BY <1>0 DEF EditsInv, KeepInv, KeepsFor
<1>2. PICK p \in {"begin", "listOld", "listNew"} :
        /\ Step(s, p)
        /\ p = "listNew" => Of(versions, s) # {} /\ Latest(versions, s).content = call[s].old
  BY DEF FindKept, ToKeep
<1>3. PICK c \in EditCalls :
        /\ CallMoved(s, c)
        /\ c.pc = p /\ c.tool = call[s].tool /\ c.old = call[s].old
        /\ c.checked = call[s].checked /\ c.missing = {}
  <2>1. p \in ToolPCs
    BY <1>2 DEF ToolPCs
  <2> QED BY <1>0, <1>1, <1>2, <2>1, StepTo
<1>4. KeepsFor(c, Of(versions, s))
  <2>1. CASE p = "listNew"
    <3>1. Latest(versions, s) \in Of(versions, s) /\ Latest(versions, s).content = call[s].old
      BY <1>0, <1>2, <2>1, LatestIn
    <3> QED BY <1>3, <2>1, <3>1 DEF KeepsFor, KeptOld
  <2>2. CASE p # "listNew"
    BY <1>2, <1>3, <2>2 DEF KeepsFor
  <2> QED BY <2>1, <2>2
<1> QED BY <1>0, <1>2, <1>3, <1>4, SameVersions, KeepingEdits

LEMMA BeginEdits ==
    ASSUME EditsInv, NEW s \in EditSessions, Begin(s)
    PROVE  EditsInv'
<1>0. EditTypes /\ WellKept(versions)
      /\ call[s].pc = "begin" /\ UNCHANGED <<clock, file, readAt, spent, shown>>
  BY DEF EditsInv, Begin
<1>1. call[s].missing = {} /\ call[s].old \in Nat
  BY <1>0, CallMember DEF EditsInv, KeepInv, KeepsFor
<1>2. CASE UNCHANGED versions /\ ToolReturns(s)
  BY <1>0, <1>2, ReturnsTo, ReturnKeeps DEF EditTypes
<1>3. CASE Inserts(s, 0, call[s].old) /\ Step(s, ToKeep(call[s], 0))
  <2>1. PICK p \in {"listOld", "listNew"} : Step(s, p)
    BY <1>3 DEF ToKeep
  <2>2. PICK c \in EditCalls :
          /\ CallMoved(s, c)
          /\ c.pc = p /\ c.tool = call[s].tool /\ c.old = call[s].old
          /\ c.checked = call[s].checked /\ c.missing = {}
    <3>1. p \in ToolPCs
      BY <2>1 DEF ToolPCs
    <3> QED BY <1>0, <1>1, <2>1, <3>1, StepTo
  <2>3. /\ WellKept(versions')
        /\ \A r \in EditSessions : r # s => Of(versions', r) = Of(versions, r)
        /\ \E v \in Of(versions', s) : v.content = call[s].old
    <3>1. PICK W : W = versions'
      OBVIOUS
    <3>2. FreeNumbers(versions, s, 0) # {} /\ W = WithAdded(s, 0, call[s].old)
      BY <1>3, <3>1 DEF Inserts, WithAdded, Added
    <3>3. /\ WellKept(W)
          /\ \A r \in EditSessions : r # s => Of(W, r) = Of(versions, r)
          /\ \E v \in VersionRecords :
                v.content = call[s].old /\ Of(W, s) = Of(versions, s) \cup {v}
      BY <1>0, <1>1, <3>2, InsertsOne
    <3> QED BY <3>1, <3>3
  <2>4. KeepsFor(c, Of(versions', s))
    BY <2>1, <2>2, <2>3 DEF KeepsFor, KeptOld
  <2> QED BY <1>0, <2>1, <2>2, <2>3, <2>4, KeepingEdits
<1> QED BY <1>2, <1>3 DEF Begin

LEMMA ListVersionsEdits ==
    ASSUME EditsInv, NEW s \in EditSessions, ListVersions(s)
    PROVE  EditsInv'
<1>0. EditTypes /\ WellKept(versions) /\ call[s].pc \in {"listOld", "listNew"}
      /\ UNCHANGED <<clock, file, readAt, versions, spent, shown>>
  BY DEF EditsInv, ListVersions
<1>1. PICK n \in Nat, p \in {"keepOld", "keepNew"} :
        /\ p = (IF call[s].pc = "listOld" THEN "keepOld" ELSE "keepNew")
        /\ n = (IF versions = {} THEN 0 ELSE Max(Numbers(versions)) + 1)
        /\ \A v \in Of(versions, s) : v.version < n
  BY <1>0, NextNumber
<1> DEFINE c == [call[s] EXCEPT !.pc = p, !.number = n]
<1>2. call' = [call EXCEPT ![s] = c]
  BY <1>0, <1>1 DEF ListVersions, EditTypes
<1>3. /\ c \in EditCalls /\ c.pc = p /\ c.number = n /\ c.tool = call[s].tool
      /\ c.old = call[s].old /\ c.checked = call[s].checked /\ c.missing = call[s].missing
  <2>1. p \in ToolPCs /\ call[s] \in EditCalls
    BY <1>0, CallMember DEF ToolPCs
  <2> QED BY <2>1 DEF EditCalls
<1> HIDE DEF c
<1>4. CallMoved(s, c)
  BY <1>0, <1>2, <1>3, CallOne
<1>5. KeepsFor(call[s], Of(versions, s))
  BY DEF EditsInv, KeepInv
<1>6. KeepsFor(c, Of(versions, s))
  BY <1>0, <1>1, <1>3, <1>5 DEF KeepsFor, KeptOld
<1> QED BY <1>0, <1>1, <1>3, <1>4, <1>6, SameVersions, KeepingEdits

(* The call after it has inserted, or failed to, with what it now misses.  *)
Onward(c, p, m) == [c EXCEPT !.pc = p, !.number = 0, !.missing = m]

LEMMA GoesOn ==
    ASSUME EditTypes, NEW s \in EditSessions, NEW p \in ToolPCs,
           NEW m \in SUBSET {"old", "new"}, NEW c, c = Onward(call[s], p, m)
    PROVE  /\ c \in EditCalls
           /\ c.pc = p /\ c.tool = call[s].tool /\ c.old = call[s].old
           /\ c.new = call[s].new /\ c.checked = call[s].checked /\ c.missing = m
  BY CallMember DEF EditCalls, Onward

LEMMA KeepOldEdits ==
    ASSUME EditsInv, NEW s \in EditSessions, KeepOld(s)
    PROVE  EditsInv'
<1>0. EditTypes /\ WellKept(versions)
      /\ call[s].pc = "keepOld" /\ UNCHANGED <<clock, file, readAt, spent, shown>>
  BY DEF EditsInv, KeepOld
<1>1. call[s].missing = {} /\ call[s].old \in Nat /\ call[s].number \in Nat
  BY <1>0, CallMember DEF EditsInv, KeepInv, KeepsFor
<1>2. PICK c \in EditCalls :
        /\ CallMoved(s, c)
        /\ c.pc = "listNew" /\ c.tool = call[s].tool /\ c.old = call[s].old
        /\ c.checked = call[s].checked /\ c.missing = {}
  <2>1. "listNew" \in ToolPCs /\ {} \in SUBSET {"old", "new"}
    BY DEF ToolPCs
  <2> PICK c : c = Onward(call[s], "listNew", {})
    OBVIOUS
  <2>2. call' = [call EXCEPT ![s] = c]
    <3>1. [call[s] EXCEPT !.pc = "listNew", !.number = 0] = c
      BY <1>0, <1>1, CallMember DEF EditCalls, Onward
    <3> QED BY <1>0, <3>1 DEF KeepOld, EditTypes
  <2>3. CallMoved(s, c)
    BY <1>0, <2>1, <2>2, GoesOn, CallOne
  <2> QED BY <1>0, <2>1, <2>3, GoesOn
<1>3. /\ WellKept(versions')
      /\ \A r \in EditSessions : r # s => Of(versions', r) = Of(versions, r)
      /\ \E v \in Of(versions', s) : v.content = call[s].old
  <2>1. PICK W : W = versions'
    OBVIOUS
  <2>2. /\ FreeNumbers(versions, s, call[s].number) # {}
        /\ W = WithAdded(s, call[s].number, call[s].old)
    BY <2>1 DEF KeepOld, Inserts, WithAdded, Added
  <2>3. /\ WellKept(W)
        /\ \A r \in EditSessions : r # s => Of(W, r) = Of(versions, r)
        /\ \E v \in VersionRecords :
              v.content = call[s].old /\ Of(W, s) = Of(versions, s) \cup {v}
    BY <1>0, <1>1, <2>2, InsertsOne
  <2> QED BY <2>1, <2>3
<1>4. KeepsFor(c, Of(versions', s))
  BY <1>2, <1>3 DEF KeepsFor, KeptOld
<1> QED BY <1>0, <1>2, <1>3, <1>4, KeepingEdits

LEMMA KeepNewEdits ==
    ASSUME EditsInv, NEW s \in EditSessions, KeepNew(s)
    PROVE  EditsInv'
<1>0. EditTypes /\ WellKept(versions)
      /\ call[s].pc = "keepNew" /\ UNCHANGED <<clock, file, readAt, spent, shown>>
  BY DEF EditsInv, KeepNew
<1>1. /\ call[s].new \in Nat /\ call[s].number \in Nat
      /\ KeptOld(call[s], Of(versions, s))
      /\ \A v \in Of(versions, s) : v.version < call[s].number
      /\ Of(versions, s) \subseteq VersionRecords
  BY <1>0, CallMember DEF EditsInv, KeepInv, KeepsFor, WellKept, Of
<1>2. PICK c \in EditCalls :
        /\ CallMoved(s, c)
        /\ c.pc = "record" /\ c.tool = call[s].tool /\ c.old = call[s].old
        /\ c.new = call[s].new /\ c.checked = call[s].checked /\ c.missing = call[s].missing
  <2>1. "record" \in ToolPCs
    BY DEF ToolPCs
  <2>3. PICK m \in SUBSET {"old", "new"} : m = call[s].missing
    BY <1>0, CallMember
  <2> PICK c : c = Onward(call[s], "record", m)
    OBVIOUS
  <2>2. call' = [call EXCEPT ![s] = c]
    <3>1. [call[s] EXCEPT !.pc = "record", !.number = 0] = c
      BY <1>0, <2>3, CallMember DEF EditCalls, Onward
    <3> QED BY <1>0, <3>1 DEF KeepNew, EditTypes
  <2>4. CallMoved(s, c)
    <3>1. c \in EditCalls
      BY <1>0, <2>1, GoesOn
    <3> QED BY <1>0, <2>2, <3>1, CallOne
  <2> QED BY <1>0, <2>1, <2>3, <2>4, GoesOn
<1>3. PICK t \in VersionRecords :
        /\ WellKept(versions')
        /\ \A r \in EditSessions : r # s => Of(versions', r) = Of(versions, r)
        /\ t.content = call[s].new /\ call[s].number <= t.version
        /\ Of(versions', s) = Of(versions, s) \cup {t}
  <2>1. PICK W : W = versions'
    OBVIOUS
  <2>2. /\ FreeNumbers(versions, s, call[s].number) # {}
        /\ W = WithAdded(s, call[s].number, call[s].new)
    BY <2>1 DEF KeepNew, Inserts, WithAdded, Added
  <2>3. PICK t \in VersionRecords :
          /\ WellKept(W)
          /\ \A r \in EditSessions : r # s => Of(W, r) = Of(versions, r)
          /\ t.content = call[s].new /\ call[s].number <= t.version
          /\ Of(W, s) = Of(versions, s) \cup {t}
    <3>1. PICK n \in Nat, x \in Nat : n = call[s].number /\ x = call[s].new
      BY <1>1
    <3>2. FreeNumbers(versions, s, n) # {} /\ W = WithAdded(s, n, x)
      BY <2>2, <3>1
    <3>3. /\ WellKept(W)
          /\ \A r \in EditSessions : r # s => Of(W, r) = Of(versions, r)
          /\ \E v \in VersionRecords :
               /\ v.content = x /\ n <= v.version
               /\ Of(W, s) = Of(versions, s) \cup {v}
      BY <1>0, <3>2, InsertsOne
    <3> QED BY <3>1, <3>3
  <2> QED BY <2>1, <2>3
<1>4. \A v \in Of(versions, s) : v.version < t.version
  BY <1>1, <1>3, VersionMember
<1>5. KeptOld(c, Of(versions', s))
  BY <1>1, <1>2, <1>3 DEF KeptOld
<1>6. KeptNew(c, Of(versions', s))
  <2>1. \A v \in Of(versions', s) : v.version <= t.version
    BY <1>1, <1>3, <1>4, VersionMember
  <2>2. "old" \notin c.missing => \E v \in Of(versions', s) : v.content = c.old /\ v.version < t.version
    BY <1>1, <1>2, <1>3, <1>4 DEF KeptOld
  <2> QED BY <1>2, <1>3, <2>1, <2>2 DEF KeptNew
<1>7. KeepsFor(c, Of(versions', s))
  BY <1>2, <1>5, <1>6 DEF KeepsFor
<1> QED BY <1>0, <1>2, <1>3, <1>7, KeepingEdits

LEMMA KeepFailsEdits ==
    ASSUME EditsInv, NEW s \in EditSessions, KeepFails(s)
    PROVE  EditsInv'
<1>0. EditTypes /\ WellKept(versions)
      /\ UNCHANGED <<clock, file, readAt, versions, spent, shown>>
      /\ call[s].pc \in {"listOld", "keepOld", "listNew", "keepNew"}
      /\ KeepsFor(call[s], Of(versions, s))
  BY DEF EditsInv, KeepFails, KeepInv
<1>1. CASE call[s].pc \in {"listOld", "keepOld"} /\ NotKept(s, "old", "listNew")
  <2>1. call[s].missing = {}
    BY <1>0, <1>1 DEF KeepsFor
  <2>3. PICK c \in EditCalls :
          /\ CallMoved(s, c)
          /\ c.pc = "listNew" /\ c.tool = call[s].tool /\ c.old = call[s].old
          /\ c.checked = call[s].checked /\ c.missing = {"old"}
    <3>1. "listNew" \in ToolPCs /\ {"old"} \in SUBSET {"old", "new"}
      BY DEF ToolPCs
    <3> PICK c : c = Onward(call[s], "listNew", {"old"})
      OBVIOUS
    <3>2. call' = [call EXCEPT ![s] = c]
      <4>1. [call[s] EXCEPT !.pc = "listNew", !.number = 0, !.missing = @ \cup {"old"}] = c
        BY <2>1 DEF Onward
      <4> QED BY <1>0, <1>1, <4>1 DEF NotKept, EditTypes
    <3>3. CallMoved(s, c)
      BY <1>0, <3>1, <3>2, GoesOn, CallOne
    <3> QED BY <1>0, <3>1, <3>3, GoesOn
  <2>4. KeepsFor(c, Of(versions, s))
    BY <2>3 DEF KeepsFor, KeptOld
  <2> QED BY <1>0, <2>3, <2>4, SameVersions, KeepingEdits
<1>2. CASE call[s].pc \in {"listNew", "keepNew"} /\ NotKept(s, "new", "record")
  <2>1. PICK m \in SUBSET {"old", "new"} : m = call[s].missing \cup {"new"}
    BY <1>0, CallMember
  <2>3. PICK c \in EditCalls :
          /\ CallMoved(s, c)
          /\ c.pc = "record" /\ c.tool = call[s].tool /\ c.old = call[s].old
          /\ c.checked = call[s].checked /\ c.missing = m
    <3>1. "record" \in ToolPCs
      BY DEF ToolPCs
    <3> PICK c : c = Onward(call[s], "record", m)
      OBVIOUS
    <3>2. call' = [call EXCEPT ![s] = c]
      <4>1. [call[s] EXCEPT !.pc = "record", !.number = 0, !.missing = @ \cup {"new"}] = c
        BY <2>1 DEF Onward
      <4> QED BY <1>0, <1>2, <4>1 DEF NotKept, EditTypes
    <3>3. CallMoved(s, c)
      BY <1>0, <3>1, <3>2, GoesOn, CallOne
    <3> QED BY <1>0, <3>1, <3>3, GoesOn
  <2>4. KeepsFor(c, Of(versions, s))
    BY <1>0, <1>2, <2>1, <2>3 DEF KeepsFor, KeptOld, KeptNew
  <2> QED BY <1>0, <2>3, <2>4, SameVersions, KeepingEdits
<1> QED BY <1>1, <1>2 DEF KeepFails

LEMMA EditsStart == FileEditsInit => EditsInv
<1> SUFFICES ASSUME FileEditsInit
             PROVE  EditsInv
  OBVIOUS
<1>1. /\ clock = 2 /\ file \in FileRecords /\ file.time <= 1
      /\ \/ file.content = Absent /\ file.time = 0
         \/ file.content = 1 /\ file.time = 1
      /\ [content |-> Absent, time |-> 0] \in FileRecords
  <2>1. /\ [content |-> Absent, time |-> 0] \in FileRecords
        /\ [content |-> 1, time |-> 1] \in FileRecords
    BY DEF FileRecords, Contents
  <2>2. file = [content |-> Absent, time |-> 0] \/ file = [content |-> 1, time |-> 1]
    BY DEF FileEditsInit
  <2>3. clock = 2
    BY DEF FileEditsInit
  <2> QED BY <2>1, <2>2, <2>3
<1>2. PICK R \in SUBSET EditSessions :
         /\ file.content = Absent => R = {}
         /\ readAt = [s \in EditSessions |-> IF s \in R THEN 1 ELSE 0]
         /\ shown = [s \in EditSessions |->
                      IF s \in R THEN file ELSE [content |-> Absent, time |-> 0]]
  BY DEF FileEditsInit
<1>3. /\ NoToolCall \in EditCalls /\ NoToolCall.pc = "idle" /\ NoToolCall.checked = 0
      /\ NoToolCall.missing = {}
  BY DEF NoToolCall, EditCalls, ToolPCs, Tools
<1>4. \A s \in EditSessions : call[s] = NoToolCall
  BY DEF FileEditsInit
<1>5. EditTypes
  <2>1. readAt \in [EditSessions -> Nat]
    BY <1>2
  <2>2. shown \in [EditSessions -> FileRecords]
    BY <1>1, <1>2
  <2>3. call \in [EditSessions -> EditCalls] /\ spent \in SpentRecords
    BY <1>3 DEF FileEditsInit, SpentRecords
  <2> QED BY <1>1, <2>1, <2>2, <2>3 DEF EditTypes
<1>6. ClockInv
  <2>1. \A s \in EditSessions : shown[s].time <= 2
    BY <1>1, <1>2
  <2> QED BY <1>1, <1>3, <1>4, <2>1 DEF ClockInv
<1>7. SeenInv
  BY <1>1, <1>2 DEF SeenInv
<1>8. CheckedInv /\ UnseenOnlyInTheGap /\ KeepInv
  BY <1>3, <1>4 DEF CheckedInv, UnseenOnlyInTheGap, KeepInv, KeepsFor
<1>9. WellKept(versions)
  BY DEF FileEditsInit, WellKept, Of
<1> QED BY <1>5, <1>6, <1>7, <1>8, <1>9 DEF EditsInv

LEMMA EditsStutter ==
    ASSUME EditsInv, UNCHANGED fileVars
    PROVE  EditsInv'
<1>1. /\ file' = file /\ spent' = spent /\ clock' = clock
      /\ UNCHANGED <<readAt, versions, call, shown>>
  BY DEF fileVars
<1>2. file \in FileRecords /\ spent \in SpentRecords /\ clock \in Nat /\ file.time <= clock
  BY DEF EditsInv, EditTypes, ClockInv
<1> QED BY <1>1, <1>2, ChangeKeeps

LEMMA EditsStep == EditsInv /\ [FileEditsNext]_fileVars => EditsInv'
<1> SUFFICES ASSUME EditsInv, [FileEditsNext]_fileVars
             PROVE  EditsInv'
  OBVIOUS
<1>1. CASE UNCHANGED fileVars
  BY <1>1, EditsStutter
<1>2. CASE Tick \/ UserWrites \/ UserDeletes
  BY <1>2, TickEdits, UserWritesEdits, UserDeletesEdits
<1>3. ASSUME NEW s \in EditSessions, NEW tool \in Tools, StartTool(s, tool)
      PROVE  EditsInv'
  BY <1>3, StartToolEdits
<1>4. ASSUME NEW s \in EditSessions, ReadFile(s) \/ NoSuchText(s) \/ Denied(s) \/ WriteFile(s)
      PROVE  EditsInv'
  BY <1>4, ReadFileEdits, NoSuchTextEdits, DeniedEdits, WriteFileEdits
<1>5. ASSUME NEW s \in EditSessions, FindKept(s) \/ Begin(s) \/ ListVersions(s) \/ RecordRead(s)
      PROVE  EditsInv'
  BY <1>5, FindKeptEdits, BeginEdits, ListVersionsEdits, RecordReadEdits
<1>6. ASSUME NEW s \in EditSessions, KeepOld(s) \/ KeepNew(s) \/ KeepFails(s)
      PROVE  EditsInv'
  BY <1>6, KeepOldEdits, KeepNewEdits, KeepFailsEdits
<1> QED BY <1>1, <1>2, <1>3, <1>4, <1>5, <1>6 DEF FileEditsNext

(* A tool asks to replace a content its session was never shown only when  *)
(* the file changed after the read check, or in the second in which the    *)
(* session last read or wrote it or before that read was recorded          *)
(* (agent/tools/edit.go:221, view.go:246-259).                             *)
THEOREM UnseenIsOnlyInTheGap == FileEditsSpec => []UnseenOnlyInTheGap
<1>1. EditsInv => UnseenOnlyInTheGap
  BY DEF EditsInv
<1> QED BY <1>1, EditsStart, EditsStep, PTL DEF FileEditsSpec

(* What a tool replaced can be had back: when it records its read, the     *)
(* session's latest version is what it wrote and what it found is an older *)
(* one, whatever other sessions and earlier lives of the file have left    *)
(* among the versions, but for a content whose insert failed in that call  *)
(* (edit.go:302-325, history/file.go).                                     *)
THEOREM ReplacedContentIsKept == FileEditsSpec => []ReplacedIsKept
<1>1. EditsInv => ReplacedIsKept
  <2> SUFFICES ASSUME EditsInv, NEW s \in EditSessions,
                      call[s].pc = "record", call[s].tool # "view"
               PROVE  LET V == Of(versions, s)
                      IN  /\ "new" \notin call[s].missing =>
                               V # {} /\ Latest(V, s).content = call[s].new
                          /\ "old" \notin call[s].missing =>
                               \E v \in V : /\ v.content = call[s].old
                                            /\ "new" \notin call[s].missing =>
                                                 v.version < Latest(V, s).version
    BY DEF ReplacedIsKept
  <2>1. WellKept(versions) /\ KeptOld(call[s], Of(versions, s)) /\ KeptNew(call[s], Of(versions, s))
    BY DEF EditsInv, KeepInv, KeepsFor
  <2>2. Of(Of(versions, s), s) = Of(versions, s)
    BY DEF Of
  <2>3. Latest(Of(versions, s), s) = Latest(versions, s)
    BY <2>2 DEF Latest
  <2>4. CASE "new" \in call[s].missing
    BY <2>1, <2>4 DEF KeptOld
  <2>5. CASE "new" \notin call[s].missing
    <3>1. PICK t \in Of(versions, s) :
            /\ t.content = call[s].new /\ \A v \in Of(versions, s) : v.version <= t.version
            /\ "old" \notin call[s].missing =>
                 \E v \in Of(versions, s) : v.content = call[s].old /\ v.version < t.version
      BY <2>1, <2>5 DEF KeptNew
    <3>2. Latest(versions, s) = t
      BY <2>1, <3>1, LatestIs
    <3> QED BY <2>3, <3>1, <3>2
  <2> QED BY <2>4, <2>5
<1> QED BY <1>1, EditsStart, EditsStep, PTL DEF FileEditsSpec

-----------------------------------------------------------------------------
(* The configuration.                                                      *)

ConfigFiles == [token : Nat, fields : SUBSET Routines, legacy : BOOLEAN]
MemorySettings == [token : Nat, fields : SUBSET Routines]
RoutinePCs == {"idle", "check", "recheck", "exchange", "apply", "remember", "lock", "write",
               "reload", "migrate", "style", "restyle", "clean", "rewrite", "load", "swap",
               "snapshot", "key", "ok", "error"}
RoutineRecords == [pc : RoutinePCs, held : Nat, got : Nat, list : SUBSET Routines,
                   data : ConfigFiles]

Reloading == {"migrate", "style", "restyle", "clean", "rewrite", "load", "swap", "snapshot"}
Refreshing == {"check", "recheck", "exchange", "apply", "remember"}
Carrying == {"remember", "lock", "write"}

ConfigTypes ==
    /\ configFile \in ConfigFiles
    /\ inMemory \in [Stores -> MemorySettings]
    /\ snapshotOK \in [Stores -> BOOLEAN]
    /\ fileLock \in Routines \cup {NoRoutine}
    /\ reloader \in [Stores -> Routines \cup {NoRoutine}]
    /\ routine \in [Routines -> RoutineRecords]
    /\ issued \in Nat /\ expired \in Nat
    /\ lostTokens \subseteq Nat
    /\ trampled \subseteq Routines /\ unwritten \subseteq Routines

(* The two locks are held by those who are between taking and releasing    *)
(* them, only refreshers do what theirs is, and a setter is going to write *)
(* its own field.                                                          *)
HoldsInv ==
    \A g \in Routines :
        /\ routine[g].pc = "write" => fileLock = g
        /\ routine[g].pc \in Reloading => reloader[StoreOf[g]] = g
        /\ routine[g].pc \in Refreshing => g \in Refreshers
        /\ routine[g].pc \in {"lock", "write"} /\ g \in Setters => g \in routine[g].list

(* No token is ahead of the provider.                                      *)
IssuedInv ==
    /\ configFile.token <= issued
    /\ \A g \in Routines :
         /\ routine[g].data.token <= issued
         /\ routine[g].got <= issued
         /\ routine[g].held <= issued
    /\ \A s \in Stores : inMemory[s].token <= issued

(* A token nobody counts on any more.                                      *)
Outdated(t) == t < issued \/ t \in lostTokens

EverSet == configFile.fields \cup trampled

(* What a migration is going to write back was once in the file, and its   *)
(* token is the file's or nobody counts on it.                             *)
RewriteInv ==
    \A g \in Routines :
        /\ routine[g].data.fields \subseteq EverSet
        /\ routine[g].pc \in {"restyle", "rewrite"} =>
             routine[g].data.token = configFile.token \/ Outdated(routine[g].data.token)

(* Whoever holds the lock has read all there is to keep.                   *)
WriteInv ==
    \A g \in Routines :
        routine[g].pc = "write" =>
            /\ configFile.fields \subseteq routine[g].data.fields \cup trampled
            /\ configFile.token = routine[g].data.token \/ Outdated(configFile.token)

ConfigInv ==
    /\ ConfigTypes /\ HoldsInv /\ IssuedInv /\ RewriteInv /\ WriteInv /\ CommittedIsKept

(* A refresher that has put its token into memory and is about to write it,*)
(* and the setters that may have done so with their fields.                *)
InFlight(s) ==
    \E g \in Refreshers :
        /\ StoreOf[g] = s /\ routine[g].pc \in {"lock", "write"}
        /\ routine[g].got = inMemory[s].token

Underway(s) == {g \in Setters : StoreOf[g] = s /\ routine[g].pc \in {"lock", "write"}}

(* The memory of a store is the file's, but for a token and fields on      *)
(* their way or lost.                                                      *)
InStep(s) ==
    /\ configFile.fields \subseteq inMemory[s].fields
    /\ inMemory[s].fields \subseteq configFile.fields \cup unwritten \cup Underway(s)
    /\ \/ inMemory[s].token = configFile.token
       \/ inMemory[s].token \in lostTokens
       \/ InFlight(s)

FreshInv ==
    /\ \A s \in Stores \ (died \cup overtaken) : snapshotOK[s] => InStep(s)
    /\ \A g \in Routines :
         StoreOf[g] \notin died \cup overtaken =>
           /\ routine[g].pc = "swap" =>
                /\ routine[g].data.token = configFile.token
                /\ routine[g].data.fields = configFile.fields
           /\ routine[g].pc = "snapshot" => InStep(StoreOf[g])

-----------------------------------------------------------------------------
(* What a step of g leaves of the goroutines.                              *)

Moved(g, p, d, t, h, l) ==
    /\ routine' \in [Routines -> RoutineRecords]
    /\ routine'[g].pc = p /\ routine'[g].data = d
    /\ routine'[g].got = t /\ routine'[g].held = h /\ routine'[g].list = l
    /\ \A k \in Routines : k # g => routine'[k] = routine[k]

LEMMA RoutineMember ==
    ASSUME ConfigTypes, NEW g \in Routines
    PROVE  /\ routine[g] \in RoutineRecords
           /\ routine[g].pc \in RoutinePCs /\ routine[g].held \in Nat
           /\ routine[g].got \in Nat /\ routine[g].data \in ConfigFiles
           /\ routine[g].list \in SUBSET Routines
           /\ routine[g].data.token \in Nat
           /\ routine[g].data.fields \in SUBSET Routines
           /\ routine[g].data.legacy \in BOOLEAN
  BY DEF ConfigTypes, RoutineRecords, ConfigFiles

LEMMA FileMember ==
    ASSUME ConfigTypes
    PROVE  /\ configFile \in ConfigFiles
           /\ configFile.token \in Nat
           /\ configFile.fields \in SUBSET Routines
           /\ configFile.legacy \in BOOLEAN
           /\ NoFile0 \in ConfigFiles /\ NoFile0.fields = {} /\ NoFile0.token = 0
  BY DEF ConfigTypes, ConfigFiles, NoFile0

LEMMA MemoryMember ==
    ASSUME ConfigTypes, NEW s \in Stores
    PROVE  /\ inMemory[s] \in MemorySettings
           /\ inMemory[s].token \in Nat
           /\ inMemory[s].fields \in SUBSET Routines
           /\ snapshotOK[s] \in BOOLEAN
           /\ reloader[s] \in Routines \cup {NoRoutine}
  BY DEF ConfigTypes, MemorySettings

LEMMA StoreMember ==
    ASSUME NEW g \in Routines
    PROVE  StoreOf[g] \in Stores /\ g # NoRoutine
  BY ConfigAssumption

LEMMA Parties ==
    /\ Refreshers \subseteq Routines /\ Setters \subseteq Routines
    /\ Recents \subseteq Setters
    /\ \A g \in Refreshers : g \notin Setters
    /\ \A g \in Routines : g \in Refreshers \/ g \in Setters
  BY ConfigAssumption DEF Routines

LEMMA MoveOne ==
    ASSUME ConfigTypes, NEW g \in Routines, NEW x \in RoutineRecords,
           routine' = [routine EXCEPT ![g] = x]
    PROVE  Moved(g, x.pc, x.data, x.got, x.held, x.list)
  BY DEF ConfigTypes, Moved

LEMMA GoTo ==
    ASSUME ConfigTypes, NEW g \in Routines, NEW p \in RoutinePCs, Go(g, p)
    PROVE  Moved(g, p, routine[g].data, routine[g].got, routine[g].held, routine[g].list)
<1> DEFINE y == [routine[g] EXCEPT !.pc = p]
<1>1. /\ y \in RoutineRecords /\ y.pc = p /\ y.data = routine[g].data
      /\ y.held = routine[g].held /\ y.got = routine[g].got /\ y.list = routine[g].list
  BY RoutineMember DEF RoutineRecords
<1>2. routine' = [routine EXCEPT ![g] = y]
  BY DEF Go, ConfigTypes
<1> HIDE DEF y
<1> QED BY <1>1, <1>2, MoveOne

LEMMA DoneTo ==
    ASSUME ConfigTypes, NEW g \in Routines, NEW p \in RoutinePCs, Done(g, p)
    PROVE  Moved(g, p, NoFile0, 0, 0, {})
<1> DEFINE y == [NoWork EXCEPT !.pc = p]
<1>1. /\ y \in RoutineRecords /\ y.pc = p /\ y.data = NoFile0
      /\ y.held = 0 /\ y.got = 0 /\ y.list = {}
  BY FileMember DEF RoutineRecords, NoWork
<1>2. routine' = [routine EXCEPT ![g] = y]
  BY DEF Done
<1> HIDE DEF y
<1> QED BY <1>1, <1>2, MoveOne

LEMMA ReadTo ==
    ASSUME ConfigTypes, NEW g \in Routines, NEW p \in RoutinePCs, NEW d \in ConfigFiles,
           routine' = [routine EXCEPT ![g].pc = p, ![g].data = d]
    PROVE  Moved(g, p, d, routine[g].got, routine[g].held, routine[g].list)
<1> DEFINE y == [routine[g] EXCEPT !.pc = p, !.data = d]
<1>1. /\ y \in RoutineRecords /\ y.pc = p /\ y.data = d
      /\ y.held = routine[g].held /\ y.got = routine[g].got /\ y.list = routine[g].list
  BY RoutineMember DEF RoutineRecords
<1>2. routine' = [routine EXCEPT ![g] = y]
  BY DEF ConfigTypes
<1> HIDE DEF y
<1> QED BY <1>1, <1>2, MoveOne

LEMMA GetTo ==
    ASSUME ConfigTypes, NEW g \in Routines, NEW p \in RoutinePCs, NEW t \in Nat,
           routine' = [routine EXCEPT ![g].pc = p, ![g].got = t]
    PROVE  Moved(g, p, routine[g].data, t, routine[g].held, routine[g].list)
<1> DEFINE y == [routine[g] EXCEPT !.pc = p, !.got = t]
<1>1. /\ y \in RoutineRecords /\ y.pc = p /\ y.data = routine[g].data
      /\ y.held = routine[g].held /\ y.got = t /\ y.list = routine[g].list
  BY RoutineMember DEF RoutineRecords
<1>2. routine' = [routine EXCEPT ![g] = y]
  BY DEF ConfigTypes
<1> HIDE DEF y
<1> QED BY <1>1, <1>2, MoveOne

LEMMA HoldTo ==
    ASSUME ConfigTypes, NEW g \in Routines, NEW p \in RoutinePCs, NEW h \in Nat,
           routine' = [routine EXCEPT ![g].pc = p, ![g].held = h]
    PROVE  Moved(g, p, routine[g].data, routine[g].got, h, routine[g].list)
<1> DEFINE y == [routine[g] EXCEPT !.pc = p, !.held = h]
<1>1. /\ y \in RoutineRecords /\ y.pc = p /\ y.data = routine[g].data
      /\ y.held = h /\ y.got = routine[g].got /\ y.list = routine[g].list
  BY RoutineMember DEF RoutineRecords
<1>2. routine' = [routine EXCEPT ![g] = y]
  BY DEF ConfigTypes
<1> HIDE DEF y
<1> QED BY <1>1, <1>2, MoveOne

LEMMA ListTo ==
    ASSUME ConfigTypes, NEW g \in Routines, NEW p \in RoutinePCs, NEW l \in SUBSET Routines,
           routine' = [routine EXCEPT ![g].pc = p, ![g].list = l]
    PROVE  Moved(g, p, routine[g].data, routine[g].got, routine[g].held, l)
<1> DEFINE y == [routine[g] EXCEPT !.pc = p, !.list = l]
<1>1. /\ y \in RoutineRecords /\ y.pc = p /\ y.data = routine[g].data
      /\ y.held = routine[g].held /\ y.got = routine[g].got /\ y.list = l
  BY RoutineMember DEF RoutineRecords
<1>2. routine' = [routine EXCEPT ![g] = y]
  BY DEF ConfigTypes
<1> HIDE DEF y
<1> QED BY <1>1, <1>2, MoveOne

-----------------------------------------------------------------------------
(* The steps that leave the file alone.                                    *)

Steady(g, p, d, t, h, l) ==
    /\ Moved(g, p, d, t, h, l)
    /\ UNCHANGED <<configFile, trampled, issued>>
    /\ inMemory' \in [Stores -> MemorySettings]
    /\ \A s \in Stores : inMemory'[s].token <= issued
    /\ snapshotOK' \in [Stores -> BOOLEAN] /\ expired' \in Nat
    /\ lostTokens \subseteq lostTokens' /\ lostTokens' \subseteq Nat
    /\ unwritten' \subseteq Routines
    /\ fileLock' \in Routines \cup {NoRoutine}
    /\ fileLock' = fileLock \/ fileLock \in {g, NoRoutine}
    /\ p = "write" => fileLock' = g /\ d = configFile
    /\ reloader' \in [Stores -> Routines \cup {NoRoutine}]
    /\ \A s \in Stores : s # StoreOf[g] => reloader'[s] = reloader[s]
    /\ reloader' = reloader \/ reloader[StoreOf[g]] \in {g, NoRoutine}
    /\ p \in Reloading => reloader'[StoreOf[g]] = g
    /\ p \in Refreshing => g \in Refreshers
    /\ p \in {"lock", "write"} /\ g \in Setters => g \in l
    /\ d \in {routine[g].data, configFile, NoFile0}
    /\ p \in {"restyle", "rewrite"} => d = configFile
    /\ t <= issued /\ h <= issued
    /\ routine[g].pc \in Carrying =>
         (p \in Carrying /\ t = routine[g].got) \/ routine[g].got \in lostTokens'
    /\ p \in Committed /\ g \in Setters => routine[g].pc \in Committed

LEMMA SteadyStep ==
    ASSUME ConfigInv, NEW g \in Routines, NEW p, NEW d, NEW t, NEW h, NEW l,
           Steady(g, p, d, t, h, l)
    PROVE  ConfigInv'
<1> USE DEF Steady, Moved
<1>1. ConfigTypes'
  BY DEF ConfigInv, ConfigTypes
<1>2. HoldsInv'
  <2> SUFFICES ASSUME NEW k \in Routines
               PROVE  /\ routine'[k].pc = "write" => fileLock' = k
                      /\ routine'[k].pc \in Reloading => reloader'[StoreOf[k]] = k
                      /\ routine'[k].pc \in Refreshing => k \in Refreshers
                      /\ routine'[k].pc \in {"lock", "write"} /\ k \in Setters
                           => k \in routine'[k].list
    BY DEF HoldsInv
  <2>1. CASE k = g
    BY <2>1 DEF HoldsInv, ConfigInv
  <2>2. CASE k # g
    <3>1. routine'[k].pc \in Reloading => reloader[StoreOf[k]] = k
      BY <2>2 DEF HoldsInv, ConfigInv
    <3>2. reloader[StoreOf[k]] = k => reloader'[StoreOf[k]] = k
      BY <2>2, StoreMember
    <3>3. routine'[k].pc = "write" => fileLock' = k
      BY <2>2, StoreMember DEF HoldsInv, ConfigInv
    <3> QED BY <2>2, <3>1, <3>2, <3>3 DEF HoldsInv, ConfigInv
  <2> QED BY <2>1, <2>2
<1>d. \A k \in Routines : routine'[k].data \in {routine[k].data, configFile, NoFile0}
  OBVIOUS
<1>n. NoFile0.fields = {} /\ NoFile0.token = 0 /\ issued \in Nat
  BY FileMember DEF ConfigInv, ConfigTypes
<1>3. IssuedInv'
  <2>1. \A k \in Routines : routine'[k].data.token <= issued
    BY <1>d, <1>n DEF ConfigInv, IssuedInv
  <2>2. \A k \in Routines : routine'[k].got <= issued /\ routine'[k].held <= issued
    BY DEF ConfigInv, IssuedInv
  <2> QED BY <2>1, <2>2 DEF ConfigInv, IssuedInv
<1>4. RewriteInv'
  <2>1. \A k \in Routines : routine'[k].data.fields \subseteq EverSet
    BY <1>d, <1>n DEF ConfigInv, RewriteInv, EverSet
  <2>2. \A k \in Routines : routine'[k].pc \in {"restyle", "rewrite"} =>
          \/ routine'[k].data.token = configFile.token
          \/ routine'[k].data.token < issued \/ routine'[k].data.token \in lostTokens'
    BY DEF ConfigInv, RewriteInv, Outdated
  <2> QED BY <2>1, <2>2 DEF RewriteInv, Outdated, EverSet
<1>5. WriteInv'
  BY DEF ConfigInv, WriteInv, Outdated
<1>6. CommittedIsKept'
  <2>1. \A k \in Setters : routine'[k].pc \in Committed => k \in configFile.fields \cup trampled
    BY Parties DEF ConfigInv, CommittedIsKept
  <2>2. \/ configFile.token = issued
        \/ issued \in lostTokens'
        \/ \E k \in Refreshers : routine'[k].got = issued /\ routine'[k].pc \in Carrying
    BY Parties DEF ConfigInv, CommittedIsKept, Carries, Carrying
  <2> QED BY <2>1, <2>2 DEF CommittedIsKept, Carries, Carrying
<1> QED BY <1>1, <1>2, <1>3, <1>4, <1>5, <1>6 DEF ConfigInv

LEMMA StaysInStep ==
    ASSUME NEW s \in Stores, InStep(s), UNCHANGED configFile, inMemory'[s] = inMemory[s],
           lostTokens \subseteq lostTokens', unwritten \subseteq unwritten',
           InFlight(s) => InFlight(s)' \/ inMemory[s].token \in lostTokens',
           \A k \in Underway(s) \cap inMemory[s].fields : k \in Underway(s)' \cup unwritten'
    PROVE  InStep(s)'
  BY DEF InStep

(* Those that neither touch the memory nor end a write.                    *)
LEMMA FreshStep ==
    ASSUME FreshInv, NEW g \in Routines, NEW p, NEW d, NEW t, NEW h, NEW l,
           Moved(g, p, d, t, h, l), UNCHANGEDFile, UNCHANGED <<inMemory, died>>,
           lostTokens \subseteq lostTokens',
           routine[g].pc \in {"lock", "write"} => p \in {"lock", "write"} /\ t = routine[g].got,
           p # "snapshot", p = "swap" => d = configFile
    PROVE  FreshInv'
<1> USE DEF Moved, UNCHANGEDFile
<1>1. ASSUME NEW s \in Stores, InStep(s)
      PROVE  InStep(s)'
  <2>1. InFlight(s) => InFlight(s)'
    BY Parties DEF InFlight
  <2>2. Underway(s) \subseteq Underway(s)'
    BY Parties DEF Underway
  <2> QED BY <1>1, <2>1, <2>2, StaysInStep
<1> QED BY <1>1, StoreMember DEF FreshInv

LEMMA StartRefreshConfig ==
    ASSUME ConfigInv, FreshInv, NEW g \in Refreshers, StartRefresh(g)
    PROVE  ConfigInv' /\ FreshInv'
<1>1. ConfigTypes /\ g \in Routines
  BY DEF ConfigInv, Routines
<1> USE <1>1
<1>2. inMemory[StoreOf[g]].token \in Nat /\ inMemory[StoreOf[g]].token <= issued
  BY StoreMember, MemoryMember DEF ConfigInv, IssuedInv
<1>3. Moved(g, "check", routine[g].data, routine[g].got, inMemory[StoreOf[g]].token,
            routine[g].list)
  BY HoldTo, <1>2 DEF StartRefresh, RoutinePCs
<1>4. Steady(g, "check", routine[g].data, routine[g].got, inMemory[StoreOf[g]].token,
             routine[g].list)
  BY <1>2, <1>3 DEF StartRefresh, ConfigInv, IssuedInv, ConfigTypes, Steady, At,
     UNCHANGEDFile, Reloading, Refreshing, Carrying, Committed
<1>5. FreshInv'
  BY <1>3, FreshStep DEF StartRefresh, At
<1> QED BY <1>4, <1>5, SteadyStep

LEMMA LookUpConfig ==
    ASSUME ConfigInv, FreshInv, NEW g \in Refreshers, LookUp(g)
    PROVE  ConfigInv' /\ FreshInv'
<1>1. ConfigTypes /\ g \in Routines /\ issued \in Nat
  BY DEF ConfigInv, Routines, ConfigTypes
<1> USE <1>1
<1>2. PICK p \in {"apply", "exchange", "error"}, d \in {routine[g].data, NoFile0}, t \in Nat,
           h \in Nat, l \in {routine[g].list, {}} :
        Moved(g, p, d, t, h, l) /\ t <= issued /\ h <= issued
  <2>1. CASE routine' = [routine EXCEPT ![g].pc = "apply", ![g].got = configFile.token]
    <3>1. Moved(g, "apply", routine[g].data, configFile.token, routine[g].held, routine[g].list)
      BY <2>1, GetTo, FileMember DEF RoutinePCs
    <3> QED BY <3>1, FileMember, RoutineMember DEF ConfigInv, IssuedInv
  <2>2. CASE Go(g, "exchange")
    <3>1. Moved(g, "exchange", routine[g].data, routine[g].got, routine[g].held, routine[g].list)
      BY <2>2, GoTo DEF RoutinePCs
    <3> QED BY <3>1, RoutineMember DEF ConfigInv, IssuedInv
  <2>3. CASE Done(g, "error")
    <3>1. Moved(g, "error", NoFile0, 0, 0, {})
      BY <2>3, DoneTo DEF RoutinePCs
    <3> QED BY <3>1
  <2> QED BY <2>1, <2>2, <2>3 DEF LookUp, Misses
<1>3. UNCHANGED <<inMemory, fileLock, reloader, issued, expired, died, lostTokens>>
      /\ UNCHANGEDFile /\ routine[g].pc \in {"check", "recheck"}
  BY DEF LookUp, At
<1>4. Steady(g, p, d, t, h, l)
  BY <1>2, <1>3 DEF ConfigInv, IssuedInv, ConfigTypes, Steady, UNCHANGEDFile,
     Reloading, Refreshing, Carrying, Committed
<1>5. FreshInv'
  BY <1>2, <1>3, FreshStep
<1> QED BY <1>4, <1>5, SteadyStep

LEMMA ExchangeFailsConfig ==
    ASSUME ConfigInv, FreshInv, NEW g \in Refreshers, ExchangeFails(g)
    PROVE  ConfigInv' /\ FreshInv'
<1>1. ConfigTypes /\ g \in Routines
  BY DEF ConfigInv, Routines
<1> USE <1>1
<1>2. Moved(g, "recheck", routine[g].data, routine[g].got, routine[g].held, routine[g].list)
  BY GoTo DEF ExchangeFails, RoutinePCs
<1>3. Steady(g, "recheck", routine[g].data, routine[g].got, routine[g].held, routine[g].list)
  BY <1>2 DEF ExchangeFails, ConfigInv, IssuedInv, ConfigTypes, Steady, At,
     UNCHANGEDFile, Reloading, Refreshing, Carrying, Committed
<1>4. FreshInv'
  BY <1>2, FreshStep DEF ExchangeFails, At
<1> QED BY <1>3, <1>4, SteadyStep

(* A field that goes into memory is one that is underway.                  *)
LEMMA StartSetConfig ==
    ASSUME ConfigInv, FreshInv, NEW g \in Setters, StartSet(g)
    PROVE  ConfigInv' /\ FreshInv'
<1>1. ConfigTypes /\ g \in Routines
  BY Parties DEF ConfigInv
<1> USE <1>1
<1> DEFINE list == {g} \cup (IF g \in Recents THEN Recents \cap inMemory[StoreOf[g]].fields ELSE {})
<1>2. list \in SUBSET Routines /\ g \in list
  BY Parties
<1>a. routine' = [routine EXCEPT ![g].pc = "lock", ![g].list = list]
  BY DEF StartSet
<1> HIDE DEF list
<1>3. Moved(g, "lock", routine[g].data, routine[g].got, routine[g].held, list)
  BY <1>a, <1>2, ListTo DEF RoutinePCs
<1>4. /\ inMemory' \in [Stores -> MemorySettings]
      /\ inMemory'[StoreOf[g]].token = inMemory[StoreOf[g]].token
      /\ inMemory[StoreOf[g]].fields \subseteq inMemory'[StoreOf[g]].fields
      /\ inMemory'[StoreOf[g]].fields \subseteq inMemory[StoreOf[g]].fields \cup {g}
      /\ \A s \in Stores : s # StoreOf[g] => inMemory'[s] = inMemory[s]
  <2>1. CASE UNCHANGED inMemory
    BY <2>1 DEF ConfigTypes
  <2>2. CASE inMemory' = [inMemory EXCEPT ![StoreOf[g]].fields = @ \cup {g}]
    <3> DEFINE m == [inMemory[StoreOf[g]] EXCEPT !.fields = @ \cup {g}]
    <3>1. /\ m \in MemorySettings /\ m.token = inMemory[StoreOf[g]].token
          /\ m.fields = inMemory[StoreOf[g]].fields \cup {g}
      BY MemoryMember, StoreMember DEF MemorySettings
    <3>2. inMemory' = [inMemory EXCEPT ![StoreOf[g]] = m]
      BY <2>2 DEF ConfigTypes
    <3> HIDE DEF m
    <3> QED BY <3>1, <3>2, StoreMember DEF ConfigTypes
  <2> QED BY <2>1, <2>2 DEF StartSet
<1>5. \A s \in Stores : inMemory'[s].token = inMemory[s].token
  BY <1>4
<1>6. Steady(g, "lock", routine[g].data, routine[g].got, routine[g].held, list)
  BY <1>2, <1>3, <1>4, <1>5 DEF StartSet, ConfigInv, IssuedInv, ConfigTypes, Steady, At,
     UNCHANGEDFile, Reloading, Refreshing, Carrying, Committed
<1>7. ASSUME NEW s \in Stores, InStep(s)
      PROVE  InStep(s)'
  <2>1. InFlight(s) => InFlight(s)'
    BY <1>3, <1>5, Parties DEF InFlight, Moved
  <2>2. Underway(s) \subseteq Underway(s)' /\ (s = StoreOf[g] => g \in Underway(s)')
    BY <1>3, Parties DEF Underway, Moved
  <2>3. UNCHANGED <<configFile, unwritten, lostTokens>>
    BY DEF StartSet, UNCHANGEDFile
  <2> QED BY <1>4, <1>5, <1>7, <2>1, <2>2, <2>3 DEF InStep
<1>8. FreshInv'
  BY <1>3, <1>7, StoreMember DEF FreshInv, StartSet, UNCHANGEDFile, Moved
<1> QED BY <1>6, <1>8, SteadyStep

LEMMA KeyIntoMemoryConfig ==
    ASSUME ConfigInv, FreshInv, NEW g \in Setters, KeyIntoMemory(g)
    PROVE  ConfigInv' /\ FreshInv'
<1>1. ConfigTypes /\ g \in Routines
  BY Parties DEF ConfigInv
<1> USE <1>1
<1>3. Moved(g, "ok", NoFile0, 0, 0, {})
  BY DoneTo DEF KeyIntoMemory, RoutinePCs
<1>4. /\ inMemory' \in [Stores -> MemorySettings]
      /\ inMemory'[StoreOf[g]].token = inMemory[StoreOf[g]].token
      /\ inMemory'[StoreOf[g]].fields = inMemory[StoreOf[g]].fields \cup {g}
      /\ \A s \in Stores : s # StoreOf[g] => inMemory'[s] = inMemory[s]
  <2> DEFINE m == [inMemory[StoreOf[g]] EXCEPT !.fields = @ \cup {g}]
  <2>1. /\ m \in MemorySettings /\ m.token = inMemory[StoreOf[g]].token
        /\ m.fields = inMemory[StoreOf[g]].fields \cup {g}
    BY MemoryMember, StoreMember DEF MemorySettings
  <2>2. inMemory' = [inMemory EXCEPT ![StoreOf[g]] = m]
    BY DEF KeyIntoMemory, ConfigTypes
  <2> HIDE DEF m
  <2> QED BY <2>1, <2>2, StoreMember DEF ConfigTypes
<1>5. \A s \in Stores : inMemory'[s].token = inMemory[s].token
  BY <1>4
<1>6. Steady(g, "ok", NoFile0, 0, 0, {})
  BY <1>3, <1>4, <1>5 DEF KeyIntoMemory, ConfigInv, IssuedInv, ConfigTypes, Steady, At,
     UNCHANGEDFile, Reloading, Refreshing, Carrying, Committed
<1>7. ASSUME NEW s \in Stores \ overtaken', InStep(s)
      PROVE  InStep(s)'
  <2>1. InFlight(s) => InFlight(s)'
    BY <1>3, <1>5, Parties DEF InFlight, Moved, KeyIntoMemory, At
  <2>2. Underway(s) \subseteq Underway(s)'
    BY <1>3, Parties DEF Underway, Moved, KeyIntoMemory, At
  <2>3. s = StoreOf[g] => g \in configFile.fields
    BY <1>7 DEF KeyIntoMemory
  <2>4. UNCHANGED <<configFile, unwritten, lostTokens>>
    BY DEF KeyIntoMemory
  <2> QED BY <1>4, <1>5, <1>7, <2>1, <2>2, <2>3, <2>4 DEF InStep
<1>8. overtaken \subseteq overtaken' /\ UNCHANGED <<configFile, snapshotOK, died>>
  BY DEF KeyIntoMemory
<1>9. FreshInv'
  BY <1>3, <1>7, <1>8, StoreMember DEF FreshInv, Moved
<1> QED BY <1>6, <1>9, SteadyStep

LEMMA CallReturns ==
    ASSUME ConfigTypes, NEW g \in Routines, Returns(g)
    PROVE  \/ Moved(g, "ok", NoFile0, 0, 0, {})
           \/ Moved(g, "key", NoFile0, 0, 0, {})
<1>1. Done(g, "ok") => Moved(g, "ok", NoFile0, 0, 0, {})
  BY DoneTo DEF RoutinePCs
<1>2. Done(g, "key") => Moved(g, "key", NoFile0, 0, 0, {})
  BY DoneTo DEF RoutinePCs
<1>3. Done(g, "ok") \/ Done(g, "key")
  BY DEF Returns
<1> QED BY <1>1, <1>2, <1>3

LEMMA TryReloadConfig ==
    ASSUME ConfigInv, FreshInv, NEW g \in Routines, TryReload(g)
    PROVE  ConfigInv' /\ FreshInv'
<1>1. ConfigTypes /\ issued \in Nat
  BY DEF ConfigInv, ConfigTypes
<1> USE <1>1
<1>2. CASE reloader[StoreOf[g]] = NoRoutine
  <2>1. Moved(g, "migrate", routine[g].data, routine[g].got, routine[g].held, routine[g].list)
    BY <1>2, GoTo DEF TryReload, RoutinePCs
  <2>2. /\ reloader' \in [Stores -> Routines \cup {NoRoutine}]
        /\ \A s \in Stores : s # StoreOf[g] => reloader'[s] = reloader[s]
        /\ reloader'[StoreOf[g]] = g
    BY <1>2, StoreMember DEF TryReload, ConfigTypes
  <2>3. Steady(g, "migrate", routine[g].data, routine[g].got, routine[g].held, routine[g].list)
    BY <1>2, <2>1, <2>2 DEF TryReload, ConfigInv, IssuedInv, ConfigTypes, Steady, At,
       UNCHANGEDFile, Reloading, Refreshing, Carrying, Committed
  <2>4. FreshInv'
    BY <2>1, FreshStep DEF TryReload, At
  <2> QED BY <2>3, <2>4, SteadyStep
<1>3. CASE reloader[StoreOf[g]] # NoRoutine
  <2>0. Returns(g)
    BY <1>3 DEF TryReload
  <2>1. PICK p \in {"ok", "key"} : Moved(g, p, NoFile0, 0, 0, {})
    BY <2>0, CallReturns
  <2>2. Steady(g, p, NoFile0, 0, 0, {})
    BY <1>3, <2>1 DEF TryReload, ConfigInv, IssuedInv, ConfigTypes, Steady, At,
       UNCHANGEDFile, Reloading, Refreshing, Carrying, Committed
  <2>3. FreshInv'
    BY <1>3, <2>1, FreshStep DEF TryReload, At
  <2> QED BY <2>2, <2>3, SteadyStep
<1> QED BY <1>2, <1>3

LEMMA MigrateCheckConfig ==
    ASSUME ConfigInv, FreshInv, NEW g \in Routines, MigrateCheck(g)
    PROVE  ConfigInv' /\ FreshInv'
<1>1. ConfigTypes
  BY DEF ConfigInv
<1> USE <1>1
<1>2. PICK p \in {"style", "load"} :
        Moved(g, p, routine[g].data, routine[g].got, routine[g].held, routine[g].list)
  BY GoTo DEF MigrateCheck, RoutinePCs
<1>3. Steady(g, p, routine[g].data, routine[g].got, routine[g].held, routine[g].list)
  BY <1>2 DEF MigrateCheck, ConfigInv, IssuedInv, ConfigTypes, HoldsInv, Steady, At,
     UNCHANGEDFile, Reloading, Refreshing, Carrying, Committed
<1>4. FreshInv'
  BY <1>2, FreshStep DEF MigrateCheck, At
<1> QED BY <1>3, <1>4, SteadyStep

LEMMA MigrateReadConfig ==
    ASSUME ConfigInv, FreshInv, NEW g \in Routines, MigrateRead(g)
    PROVE  ConfigInv' /\ FreshInv'
<1>1. ConfigTypes /\ routine[g].pc \in {"style", "clean"}
  BY DEF ConfigInv, MigrateRead, At
<1> USE <1>1
<1>2. PICK p \in {"restyle", "clean", "rewrite", "load"}, d \in {routine[g].data, configFile} :
        /\ Moved(g, p, d, routine[g].got, routine[g].held, routine[g].list)
        /\ p \in {"restyle", "rewrite"} => d = configFile
  <2>1. ASSUME NEW p \in {"restyle", "rewrite"}, MigrateTo(g, p)
        PROVE  Moved(g, p, configFile, routine[g].got, routine[g].held, routine[g].list)
    BY <2>1, ReadTo, FileMember DEF MigrateTo, RoutinePCs
  <2>2. ASSUME NEW p \in {"clean", "load"}, Go(g, p)
        PROVE  Moved(g, p, routine[g].data, routine[g].got, routine[g].held, routine[g].list)
    BY <2>2, GoTo DEF RoutinePCs
  <2>3. \/ MigrateTo(g, "restyle") \/ Go(g, "clean") \/ MigrateTo(g, "rewrite") \/ Go(g, "load")
    BY DEF MigrateRead
  <2> QED BY <2>1, <2>2, <2>3
<1>3. UNCHANGED <<inMemory, fileLock, reloader, issued, expired, died, lostTokens>>
      /\ UNCHANGEDFile
  BY DEF MigrateRead
<1>4. Steady(g, p, d, routine[g].got, routine[g].held, routine[g].list)
  BY <1>2, <1>3 DEF ConfigInv, IssuedInv, ConfigTypes, HoldsInv, Steady,
     UNCHANGEDFile, Reloading, Refreshing, Carrying, Committed
<1>5. FreshInv'
  BY <1>2, <1>3, FreshStep
<1> QED BY <1>4, <1>5, SteadyStep

LEMMA LoadFileConfig ==
    ASSUME ConfigInv, FreshInv, NEW g \in Routines, LoadFile(g)
    PROVE  ConfigInv' /\ FreshInv'
<1>1. ConfigTypes
  BY DEF ConfigInv
<1> USE <1>1
<1>2. Moved(g, "swap", configFile, routine[g].got, routine[g].held, routine[g].list)
  BY ReadTo, FileMember DEF LoadFile, RoutinePCs
<1>3. Steady(g, "swap", configFile, routine[g].got, routine[g].held, routine[g].list)
  BY <1>2 DEF LoadFile, ConfigInv, IssuedInv, ConfigTypes, HoldsInv, Steady, At,
     UNCHANGEDFile, Reloading, Refreshing, Carrying, Committed
<1>4. FreshInv'
  BY <1>2, FreshStep DEF LoadFile, At
<1> QED BY <1>3, <1>4, SteadyStep

LEMMA UnlockGives ==
    ASSUME ConfigTypes, NEW g \in Routines, Unlock(g)
    PROVE  /\ reloader' \in [Stores -> Routines \cup {NoRoutine}]
           /\ \A s \in Stores : s # StoreOf[g] => reloader'[s] = reloader[s]
  BY StoreMember DEF Unlock, ConfigTypes

LEMMA ReloadFailsConfig ==
    ASSUME ConfigInv, FreshInv, NEW g \in Routines, ReloadFails(g)
    PROVE  ConfigInv' /\ FreshInv'
<1>1. ConfigTypes /\ issued \in Nat
  BY DEF ConfigInv, ConfigTypes
<1> USE <1>1
<1>0. Returns(g)
  BY DEF ReloadFails
<1>2. PICK p \in {"ok", "key"} : Moved(g, p, NoFile0, 0, 0, {})
  BY <1>0, CallReturns
<1>3. reloader[StoreOf[g]] = g
  BY DEF ReloadFails, At, ConfigInv, HoldsInv, Reloading
<1>4. Steady(g, p, NoFile0, 0, 0, {})
  BY <1>2, <1>3, UnlockGives DEF ReloadFails, ConfigInv, IssuedInv, ConfigTypes, Steady, At,
     UNCHANGEDFile, Reloading, Refreshing, Carrying, Committed
<1>5. FreshInv'
  BY <1>2, FreshStep DEF ReloadFails, At
<1> QED BY <1>4, <1>5, SteadyStep

(* The provider gives a new token; all others are outdated by it.          *)
LEMMA ExchangeConfig ==
    ASSUME ConfigInv, FreshInv, NEW g \in Refreshers, Exchange(g)
    PROVE  ConfigInv' /\ FreshInv'
<1>1. ConfigTypes /\ g \in Routines /\ issued \in Nat
  BY DEF ConfigInv, Routines, ConfigTypes
<1> USE <1>1
<1>2. PICK p \in {"remember", "recheck"}, t \in Nat :
        /\ Moved(g, p, routine[g].data, t, routine[g].held, routine[g].list)
        /\ t <= issued + 1
        /\ \/ p = "remember" /\ t = issued + 1 /\ lostTokens' = lostTokens
           \/ p = "recheck" /\ lostTokens' = lostTokens \cup {issued + 1}
  <2>1. CASE routine' = [routine EXCEPT ![g].pc = "remember", ![g].got = issued + 1]
             /\ lostTokens' = lostTokens
    <3>1. PICK u \in Nat : u = issued + 1
      OBVIOUS
    <3>2. routine' = [routine EXCEPT ![g].pc = "remember", ![g].got = u]
      BY <2>1, <3>1
    <3>3. Moved(g, "remember", routine[g].data, u, routine[g].held, routine[g].list)
      BY <3>2, GetTo DEF RoutinePCs
    <3> QED BY <3>1, <3>3, <2>1
  <2>2. CASE Go(g, "recheck") /\ lostTokens' = lostTokens \cup {issued + 1}
    <3>1. Moved(g, "recheck", routine[g].data, routine[g].got, routine[g].held, routine[g].list)
      BY <2>2, GoTo DEF RoutinePCs
    <3>2. routine[g].got \in Nat /\ routine[g].got <= issued + 1
      BY RoutineMember DEF ConfigInv, IssuedInv
    <3> QED BY <3>1, <3>2, <2>2
  <2> QED BY <2>1, <2>2 DEF Exchange
<1>t. ConfigTypes'
  BY <1>2 DEF Exchange, ConfigTypes, UNCHANGEDFile, Moved
<1>3. \A u \in Nat : u <= issued => u <= issued' /\ Outdated(u)'
  BY DEF Exchange, Outdated
<1>h. HoldsInv'
  <2> SUFFICES ASSUME NEW k \in Routines
               PROVE  /\ routine'[k].pc = "write" => fileLock' = k
                      /\ routine'[k].pc \in Reloading => reloader'[StoreOf[k]] = k
                      /\ routine'[k].pc \in Refreshing => k \in Refreshers
                      /\ routine'[k].pc \in {"lock", "write"} /\ k \in Setters
                           => k \in routine'[k].list
    BY DEF HoldsInv
  <2>1. CASE k = g
    BY <2>1, <1>2 DEF Moved, Reloading, Refreshing
  <2>2. CASE k # g
    BY <2>2, <1>2 DEF HoldsInv, ConfigInv, Exchange, Moved
  <2> QED BY <2>1, <2>2
<1>i. IssuedInv'
  BY <1>2, <1>3, RoutineMember, FileMember, MemoryMember
  DEF ConfigInv, IssuedInv, Exchange, UNCHANGEDFile, Moved
<1>r. RewriteInv'
  <2>1. \A k \in Routines : routine'[k].data = routine[k].data
    BY <1>2 DEF Moved
  <2> QED BY <1>3, <2>1, RoutineMember
          DEF ConfigInv, RewriteInv, IssuedInv, EverSet, Exchange, UNCHANGEDFile
<1>w. WriteInv'
  <2>1. Outdated(configFile.token)'
    BY <1>3, FileMember DEF ConfigInv, IssuedInv, Exchange, UNCHANGEDFile, Outdated
  <2> QED BY <1>2, <2>1 DEF ConfigInv, WriteInv, Exchange, UNCHANGEDFile, Moved
<1>c. CommittedIsKept'
  <2>1. \A k \in Setters : routine'[k].pc \in Committed => k \in configFile'.fields \cup trampled'
    BY <1>2, Parties DEF ConfigInv, CommittedIsKept, Committed, Exchange, UNCHANGEDFile, Moved
  <2>2. \/ issued' \in lostTokens'
        \/ \E k \in Refreshers : routine'[k].got = issued' /\ routine'[k].pc \in Carrying
    BY <1>2 DEF Exchange, Moved, Carrying
  <2> QED BY <2>1, <2>2 DEF CommittedIsKept, Carries, Carrying
<1>f. FreshInv'
  BY <1>2, FreshStep DEF Exchange, At
<1> QED BY <1>t, <1>h, <1>i, <1>r, <1>w, <1>c, <1>f DEF ConfigInv

(* The token that goes into memory is the file's or on its way there.      *)
LEMMA RememberConfig ==
    ASSUME ConfigInv, FreshInv, NEW g \in Refreshers, Remember(g)
    PROVE  ConfigInv' /\ FreshInv'
<1>1. ConfigTypes /\ g \in Routines /\ issued \in Nat
  BY DEF ConfigInv, Routines, ConfigTypes
<1> USE <1>1
<1>2. PICK p \in {"ok", "lock"}, d \in {routine[g].data, NoFile0}, t \in Nat, h \in Nat,
           l \in SUBSET Routines :
        /\ Moved(g, p, d, t, h, l) /\ t <= issued /\ h <= issued
        /\ p = "ok" => routine[g].pc = "apply"
        /\ p = "lock" => routine[g].pc = "remember" /\ t = routine[g].got
  <2>1. CASE At(g, "apply")
    <3>1. Moved(g, "ok", NoFile0, 0, 0, {})
      BY <2>1, DoneTo DEF Remember, RoutinePCs
    <3> QED BY <3>1, <2>1 DEF At
  <2>2. CASE ~At(g, "apply")
    <3>1. Moved(g, "lock", routine[g].data, routine[g].got, routine[g].held, routine[g].list)
      BY <2>2, GoTo DEF Remember, RoutinePCs
    <3> QED BY <3>1, <2>2, RoutineMember DEF At, Remember, ConfigInv, IssuedInv
  <2> QED BY <2>1, <2>2
<1>3. /\ inMemory' \in [Stores -> MemorySettings]
      /\ inMemory'[StoreOf[g]].token = routine[g].got
      /\ \A s \in Stores : inMemory'[s].fields = inMemory[s].fields
      /\ \A s \in Stores : s # StoreOf[g] => inMemory'[s] = inMemory[s]
  <2> DEFINE m == [inMemory[StoreOf[g]] EXCEPT !.token = routine[g].got]
  <2>1. m \in MemorySettings /\ m.token = routine[g].got /\ m.fields = inMemory[StoreOf[g]].fields
    BY MemoryMember, StoreMember, RoutineMember DEF MemorySettings
  <2>2. inMemory' = [inMemory EXCEPT ![StoreOf[g]] = m]
    BY DEF Remember, ConfigTypes
  <2> HIDE DEF m
  <2> QED BY <2>1, <2>2, StoreMember DEF ConfigTypes
<1>4. \A s \in Stores : inMemory'[s].token <= issued
  BY <1>3 DEF ConfigInv, IssuedInv
<1>5. Steady(g, p, d, t, h, l)
  BY <1>2, <1>3, <1>4, Parties DEF Remember, ConfigInv, ConfigTypes, Steady,
     Reloading, Refreshing, Carrying, Committed
<1>6. ASSUME NEW s \in Stores \ overtaken', InStep(s)
      PROVE  InStep(s)'
  <2>1. Underway(s) \subseteq Underway(s)'
    BY <1>2, Parties DEF Underway, Moved
  <2>2. UNCHANGED <<configFile, unwritten, lostTokens>>
    BY DEF Remember
  <2>3. \/ inMemory'[s].token = configFile.token
        \/ inMemory'[s].token \in lostTokens
        \/ InFlight(s)'
    <3>1. CASE s # StoreOf[g]
      BY <3>1, <1>2, <1>3, <1>6, Parties DEF InStep, InFlight, Moved
    <3>2. CASE s = StoreOf[g] /\ p = "lock"
      BY <3>2, <1>2, <1>3 DEF InFlight, Moved
    <3>3. CASE s = StoreOf[g] /\ p = "ok"
      BY <3>3, <1>2, <1>3, <1>6 DEF Remember, At
    <3> QED BY <3>1, <3>2, <3>3
  <2> QED BY <2>1, <2>2, <2>3, <1>3, <1>6 DEF InStep
<1>7. overtaken \subseteq overtaken' /\ UNCHANGED <<configFile, snapshotOK, died>>
  BY DEF Remember
<1>f. FreshInv'
  BY <1>2, <1>6, <1>7, StoreMember DEF FreshInv, Moved
<1> QED BY <1>5, <1>f, SteadyStep

LEMMA LockAndReadConfig ==
    ASSUME ConfigInv, FreshInv, NEW g \in Routines, LockAndRead(g)
    PROVE  ConfigInv' /\ FreshInv'
<1>1. ConfigTypes
  BY DEF ConfigInv
<1> USE <1>1
<1>2. Moved(g, "write", configFile, routine[g].got, routine[g].held, routine[g].list)
  BY ReadTo, FileMember DEF LockAndRead, RoutinePCs
<1>3. Steady(g, "write", configFile, routine[g].got, routine[g].held, routine[g].list)
  BY <1>2 DEF LockAndRead, Free, ConfigInv, IssuedInv, HoldsInv, ConfigTypes, Steady, At,
     UNCHANGEDFile, Reloading, Refreshing, Carrying, Committed
<1>4. FreshInv'
  BY <1>2, FreshStep DEF LockAndRead, At
<1> QED BY <1>3, <1>4, SteadyStep

(* A token that will not be written is lost, a field stays in memory.      *)
LEMMA GivesUpConfig ==
    ASSUME ConfigInv, FreshInv, NEW g \in Routines, GivesUp(g),
           routine[g].pc \in {"lock", "write"},
           fileLock' = fileLock \/ (fileLock = g /\ fileLock' = NoRoutine),
           UNCHANGED <<inMemory, reloader, issued, expired, died>>
    PROVE  ConfigInv' /\ FreshInv'
<1>1. ConfigTypes /\ issued \in Nat
  BY DEF ConfigInv, ConfigTypes
<1> USE <1>1
<1>2. Moved(g, "error", NoFile0, 0, 0, {})
  BY DoneTo DEF GivesUp, RoutinePCs
<1>3. /\ lostTokens \subseteq lostTokens' /\ lostTokens' \subseteq Nat
      /\ routine[g].got \in lostTokens'
      /\ unwritten \subseteq unwritten' /\ unwritten' \subseteq Routines
      /\ g \in inMemory[StoreOf[g]].fields => g \in unwritten'
  BY RoutineMember DEF GivesUp, ConfigTypes
<1>4. UNCHANGED <<configFile, snapshotOK, trampled, overtaken>>
  BY DEF GivesUp
<1>5. Steady(g, "error", NoFile0, 0, 0, {})
  BY <1>2, <1>3, <1>4 DEF ConfigInv, IssuedInv, ConfigTypes, Steady,
     Reloading, Refreshing, Carrying, Committed
<1>6. ASSUME NEW s \in Stores, InStep(s)
      PROVE  InStep(s)'
  <2>1. InFlight(s) => InFlight(s)' \/ inMemory[s].token \in lostTokens'
    BY <1>2, <1>3, Parties DEF InFlight, Moved
  <2>2. \A k \in Underway(s) \cap inMemory[s].fields : k \in Underway(s)' \cup unwritten'
    BY <1>2, <1>3, Parties DEF Underway, Moved
  <2> QED BY <2>1, <2>2, <1>3, <1>4, <1>6, StaysInStep
<1>f. FreshInv'
  BY <1>2, <1>4, <1>6, StoreMember DEF FreshInv, Moved
<1> QED BY <1>5, <1>f, SteadyStep

LEMMA LockFailsConfig ==
    ASSUME ConfigInv, FreshInv, NEW g \in Routines, LockFails(g)
    PROVE  ConfigInv' /\ FreshInv'
<1>1. GivesUp(g)
  BY DEF LockFails
<1>2. /\ routine[g].pc = "lock" /\ fileLock' = fileLock
      /\ UNCHANGED <<inMemory, reloader, issued, expired, died>>
  BY DEF LockFails, At
<1> QED BY <1>1, <1>2, GivesUpConfig

LEMMA WriteFieldFailsConfig ==
    ASSUME ConfigInv, FreshInv, NEW g \in Routines, WriteFieldFails(g)
    PROVE  ConfigInv' /\ FreshInv'
<1>1. GivesUp(g)
  BY DEF WriteFieldFails
<1>2. fileLock = g
  BY DEF WriteFieldFails, At, ConfigInv, HoldsInv
<1> QED BY <1>1, <1>2, GivesUpConfig DEF WriteFieldFails, At

LEMMA SwapConfigConfig ==
    ASSUME ConfigInv, FreshInv, NEW g \in Routines, SwapConfig(g)
    PROVE  ConfigInv' /\ FreshInv'
<1>1. ConfigTypes /\ issued \in Nat
  BY DEF ConfigInv, ConfigTypes
<1> USE <1>1
<1>2. Moved(g, "snapshot", NoFile0, 0, 0, {})
  BY DoneTo DEF SwapConfig, RoutinePCs
<1>3. /\ inMemory' \in [Stores -> MemorySettings]
      /\ inMemory'[StoreOf[g]].token = routine[g].data.token
      /\ inMemory'[StoreOf[g]].fields = routine[g].data.fields
      /\ \A s \in Stores : s # StoreOf[g] => inMemory'[s] = inMemory[s]
  BY StoreMember, RoutineMember DEF SwapConfig, ConfigTypes, Settings, MemorySettings
<1>4. \A s \in Stores : inMemory'[s].token <= issued
  BY <1>3 DEF ConfigInv, IssuedInv
<1>5. Steady(g, "snapshot", NoFile0, 0, 0, {})
  BY <1>2, <1>3, <1>4 DEF SwapConfig, ConfigInv, HoldsInv, ConfigTypes, Steady, At,
     UNCHANGEDFile, Reloading, Refreshing, Carrying, Committed
<1>6. ASSUME NEW s \in Stores, s # StoreOf[g], InStep(s)
      PROVE  InStep(s)'
  <2>1. InFlight(s) => InFlight(s)'
    BY <1>2, <1>3, <1>6, Parties DEF InFlight, Moved
  <2>2. Underway(s) \subseteq Underway(s)'
    BY <1>2, <1>6, Parties DEF Underway, Moved
  <2> QED BY <2>1, <2>2, <1>3, <1>6, StaysInStep DEF SwapConfig, UNCHANGEDFile
<1>7. StoreOf[g] \notin died \cup overtaken => InStep(StoreOf[g])'
  BY <1>3 DEF FreshInv, InStep, SwapConfig, At, UNCHANGEDFile
<1>f. FreshInv'
  BY <1>2, <1>6, <1>7, StoreMember DEF FreshInv, SwapConfig, UNCHANGEDFile, Moved
<1> QED BY <1>5, <1>f, SteadyStep

LEMMA CaptureSnapshotConfig ==
    ASSUME ConfigInv, FreshInv, NEW g \in Routines, CaptureSnapshot(g)
    PROVE  ConfigInv' /\ FreshInv'
<1>1. ConfigTypes /\ issued \in Nat
  BY DEF ConfigInv, ConfigTypes
<1> USE <1>1
<1>0. Returns(g)
  BY DEF CaptureSnapshot
<1>2. PICK p \in {"ok", "key"} : Moved(g, p, NoFile0, 0, 0, {})
  BY <1>0, CallReturns
<1>3. reloader[StoreOf[g]] = g
  BY DEF CaptureSnapshot, At, ConfigInv, HoldsInv, Reloading
<1>5. /\ snapshotOK' \in [Stores -> BOOLEAN]
      /\ \A s \in Stores : s # StoreOf[g] => snapshotOK'[s] = snapshotOK[s]
  BY StoreMember DEF CaptureSnapshot, ConfigTypes
<1>6. Steady(g, p, NoFile0, 0, 0, {})
  BY <1>2, <1>3, <1>5, UnlockGives DEF CaptureSnapshot, ConfigInv, IssuedInv, ConfigTypes,
     Steady, At, Reloading, Refreshing, Carrying, Committed
<1>7. ASSUME NEW s \in Stores, InStep(s)
      PROVE  InStep(s)'
  <2>1. InFlight(s) => InFlight(s)'
    BY <1>2, Parties DEF InFlight, Moved, CaptureSnapshot, At
  <2>2. Underway(s) \subseteq Underway(s)'
    BY <1>2, Parties DEF Underway, Moved, CaptureSnapshot, At
  <2> QED BY <2>1, <2>2, <1>7, StaysInStep DEF CaptureSnapshot
<1>8. StoreOf[g] \notin died \cup overtaken => InStep(StoreOf[g])
  BY DEF FreshInv, CaptureSnapshot, At
<1>f. FreshInv'
  BY <1>2, <1>5, <1>7, <1>8, StoreMember DEF FreshInv, CaptureSnapshot, Moved
<1> QED BY <1>6, <1>f, SteadyStep

-----------------------------------------------------------------------------
(* The steps that write the file.                                          *)

(* A new file catches every reload between its read and its snapshot.      *)
LEMMA ReplaceStep ==
    ASSUME ConfigInv, FreshInv, NEW g \in Routines, NEW p, NEW f, Replace(f),
           Moved(g, p, NoFile0, 0, 0, {}), p \notin {"swap", "snapshot"}, UNCHANGED died
    PROVE  FreshInv'
<1>1. \A k \in Routines : routine[k].pc \in {"swap", "snapshot"} => StoreOf[k] \in overtaken'
  <2>1. \A k \in Routines : routine[k].pc \in {"swap", "snapshot"} => reloader[StoreOf[k]] = k
    BY DEF ConfigInv, HoldsInv, Reloading
  <2> QED BY <2>1, StoreMember DEF Replace
<1>2. \A k \in Routines : routine'[k].pc \in {"swap", "snapshot"} => StoreOf[k] \in overtaken'
  BY <1>1 DEF Moved
<1>3. \A s \in Stores : ~snapshotOK'[s]
  BY DEF Replace
<1> QED BY <1>2, <1>3 DEF FreshInv

(* What it takes for a written file to keep what was committed.            *)
LEMMA WrittenStep ==
    ASSUME ConfigInv, NEW g \in Routines, NEW p \in {"reload", "clean", "load"},
           Moved(g, p, NoFile0, 0, 0, {}),
           ConfigTypes', EverSet \subseteq EverSet',
           issued' = issued, lostTokens \subseteq lostTokens', configFile'.token <= issued,
           \/ configFile.token = configFile'.token \/ configFile.token < issued
           \/ configFile.token \in lostTokens',
           fileLock' = fileLock \/ fileLock \in {g, NoRoutine},
           UNCHANGED <<reloader, inMemory>>,
           p \in Reloading => routine[g].pc \in Reloading,
           g \in Setters => g \in EverSet',
           routine[g].pc \in Carrying /\ g \in Refreshers
             => configFile'.token = routine[g].got
    PROVE  HoldsInv' /\ IssuedInv' /\ RewriteInv' /\ CommittedIsKept'
<1> USE DEF Moved
<1>0. ConfigTypes /\ issued \in Nat /\ configFile.token \in Nat
  BY FileMember DEF ConfigInv, ConfigTypes
<1>n. NoFile0.fields = {} /\ NoFile0.token = 0
  BY <1>0, FileMember
<1>h. HoldsInv'
  <2> SUFFICES ASSUME NEW k \in Routines
               PROVE  /\ routine'[k].pc = "write" => fileLock' = k
                      /\ routine'[k].pc \in Reloading => reloader[StoreOf[k]] = k
                      /\ routine'[k].pc \in Refreshing => k \in Refreshers
                      /\ routine'[k].pc \in {"lock", "write"} /\ k \in Setters
                           => k \in routine'[k].list
    BY DEF HoldsInv
  <2>1. CASE k = g
    BY <2>1 DEF HoldsInv, ConfigInv, Refreshing
  <2>2. CASE k # g
    BY <2>2, StoreMember DEF HoldsInv, ConfigInv
  <2> QED BY <2>1, <2>2
<1>i. IssuedInv'
  <2>1. \A k \in Routines : routine'[k].data.token <= issued
    BY <1>0, <1>n DEF ConfigInv, IssuedInv
  <2>2. \A k \in Routines : routine'[k].got <= issued /\ routine'[k].held <= issued
    BY <1>0 DEF ConfigInv, IssuedInv
  <2> QED BY <2>1, <2>2 DEF ConfigInv, IssuedInv
<1>r. RewriteInv'
  <2>1. \A k \in Routines : routine'[k].data.fields \subseteq EverSet'
    BY <1>n DEF ConfigInv, RewriteInv
  <2>2. ASSUME NEW k \in Routines, routine'[k].pc \in {"restyle", "rewrite"}
        PROVE  \/ routine'[k].data.token = configFile'.token
               \/ routine'[k].data.token < issued \/ routine'[k].data.token \in lostTokens'
    <3>1. routine'[k] = routine[k]
      BY <2>2
    <3> QED BY <2>2, <3>1 DEF ConfigInv, RewriteInv, Outdated
  <2> QED BY <2>1, <2>2 DEF RewriteInv, Outdated
<1>c. CommittedIsKept'
  <2>1. ASSUME NEW k \in Setters, routine'[k].pc \in Committed
        PROVE  k \in EverSet'
    <3>1. k # g => k \in EverSet
      BY <2>1, Parties DEF ConfigInv, CommittedIsKept, EverSet
    <3> QED BY <3>1
  <2>2. \/ configFile'.token = issued
        \/ issued \in lostTokens'
        \/ \E k \in Refreshers : routine'[k].got = issued /\ routine'[k].pc \in Carrying
    <3>1. CASE configFile.token = issued
      BY <3>1, <1>0
    <3>2. CASE issued \in lostTokens
      BY <3>2
    <3>3. ASSUME NEW k \in Refreshers, routine[k].got = issued, routine[k].pc \in Carrying
          PROVE  configFile'.token = issued \/ k # g
      BY <3>3
    <3> QED BY <3>1, <3>2, <3>3, Parties DEF ConfigInv, CommittedIsKept, Carries, Carrying
  <2> QED BY <2>1, <2>2 DEF CommittedIsKept, Carries, Carrying, EverSet
<1> QED BY <1>h, <1>i, <1>r, <1>c

(* Who writes under the lock has read what is there to keep.               *)
LEMMA WriteFieldConfig ==
    ASSUME ConfigInv, FreshInv, NEW g \in Routines, WriteField(g)
    PROVE  ConfigInv' /\ FreshInv'
<1>1. ConfigTypes /\ issued \in Nat
  BY DEF ConfigInv, ConfigTypes
<1> USE <1>1
<1>2. Moved(g, "reload", NoFile0, 0, 0, {})
  BY DoneTo DEF WriteField, RoutinePCs
<1>d. Dropped(g) \subseteq Routines
  BY Parties DEF Dropped
<1>3. /\ configFile' \in ConfigFiles
      /\ g \in Setters =>
           /\ configFile'.token = routine[g].data.token
           /\ configFile'.fields = (routine[g].data.fields \cup routine[g].list) \ Dropped(g)
      /\ g \notin Setters => /\ configFile'.token = routine[g].got
                             /\ configFile'.fields = routine[g].data.fields
  <2>1. CASE g \in Setters
    BY <2>1, RoutineMember DEF WriteField, Replace, Edited, ConfigFiles
  <2>2. CASE g \notin Setters
    BY <2>2, RoutineMember DEF WriteField, Replace, Edited, ConfigFiles
  <2> QED BY <2>1, <2>2
<1>5. /\ routine[g].pc = "write" /\ fileLock = g
      /\ configFile.fields \subseteq routine[g].data.fields \cup trampled
      /\ configFile.token = routine[g].data.token \/ Outdated(configFile.token)
      /\ g \in Setters => g \in routine[g].list
      /\ \A k \in Routines : k # g => routine[k].pc # "write"
  BY DEF WriteField, At, ConfigInv, WriteInv, HoldsInv
<1>e. g \in Setters => g \notin Dropped(g)
  BY <1>5 DEF Dropped
<1>a. g \notin Setters => Dropped(g) = {}
  BY Parties DEF Dropped
<1>b. trampled' = trampled \cup (configFile.fields \cap Dropped(g))
  BY DEF WriteField
<1>6. EverSet \subseteq EverSet' /\ (g \in Setters => g \in EverSet')
  <2>1. configFile.fields \subseteq configFile'.fields \cup trampled'
    BY <1>3, <1>5, <1>a, <1>b
  <2>2. trampled \subseteq trampled'
    BY <1>b
  <2> QED BY <2>1, <2>2, <1>3, <1>5, <1>e DEF EverSet
<1>8. issued' = issued /\ lostTokens \subseteq lostTokens'
  BY DEF WriteField
<1>7. configFile.token = configFile'.token \/ configFile.token < issued \/ configFile.token \in lostTokens'
  <2>1. CASE g \in Setters
    BY <2>1, <1>3, <1>5, <1>8, Parties DEF Outdated
  <2>2. CASE g \notin Setters
    <3>1. g \in Refreshers /\ configFile'.token = routine[g].got /\ routine[g].got <= issued
      BY <2>2, <1>3, Parties DEF ConfigInv, IssuedInv
    <3>2. CASE routine[g].got < configFile.token
      BY <3>1, <3>2 DEF WriteField
    <3>3. CASE ~(routine[g].got < configFile.token)
      <4>1. configFile.token \in Nat /\ routine[g].got \in Nat
        BY FileMember, RoutineMember
      <4>2. configFile.token = routine[g].got \/ configFile.token < issued
        BY <3>1, <3>3, <4>1
      <4> QED BY <3>1, <4>2
    <3> QED BY <3>2, <3>3
  <2> QED BY <2>1, <2>2
<1>t. ConfigTypes'
  <2>1. lostTokens' \subseteq Nat /\ trampled' \subseteq Routines
    BY <1>b, <1>d, FileMember DEF WriteField, ConfigTypes
  <2> QED BY <2>1, <1>2, <1>3 DEF WriteField, Replace, ConfigTypes, Moved
<1>9. configFile'.token <= issued
  BY <1>3 DEF ConfigInv, IssuedInv
<1>s. HoldsInv' /\ IssuedInv' /\ RewriteInv' /\ CommittedIsKept'
  <2>1. fileLock \in {g, NoRoutine} /\ UNCHANGED <<reloader, inMemory>>
    BY <1>5 DEF WriteField
  <2>2. routine[g].pc \in Carrying /\ g \in Refreshers => configFile'.token = routine[g].got
    BY <1>3, Parties
  <2>3. "reload" \in {"reload", "clean", "load"} /\ "reload" \notin Reloading
    BY DEF Reloading
  <2> QED BY <2>1, <2>2, <2>3, <1>2, <1>6, <1>7, <1>8, <1>9, <1>t, WrittenStep
<1>w. WriteInv'
  BY <1>2, <1>5 DEF WriteInv, Moved
<1>f. FreshInv'
  <2>1. Replace(Edited(g, routine[g].data)) /\ UNCHANGED died
    BY DEF WriteField
  <2> QED BY <2>1, <1>2, ReplaceStep
<1> QED BY <1>t, <1>s, <1>w, <1>f DEF ConfigInv

(* A migration writes back, without the lock, what was in the file once.   *)
LEMMA MigrateWriteConfig ==
    ASSUME ConfigInv, FreshInv, NEW g \in Routines, MigrateWrite(g)
    PROVE  ConfigInv' /\ FreshInv'
<1>1. ConfigTypes /\ issued \in Nat
  BY DEF ConfigInv, ConfigTypes
<1> USE <1>1
<1>2. PICK p \in {"clean", "load"}, f \in ConfigFiles :
        /\ Moved(g, p, NoFile0, 0, 0, {})
        /\ Replace(f)
        /\ f.token = routine[g].data.token /\ f.fields = routine[g].data.fields
  <2>1. CASE Replace(routine[g].data) /\ Done(g, "clean")
    <3>1. Moved(g, "clean", NoFile0, 0, 0, {})
      BY <2>1, DoneTo DEF RoutinePCs
    <3> QED BY <3>1, <2>1, RoutineMember
  <2>2. CASE Replace([routine[g].data EXCEPT !.legacy = FALSE]) /\ Done(g, "load")
    <3>1. Moved(g, "load", NoFile0, 0, 0, {})
      BY <2>2, DoneTo DEF RoutinePCs
    <3> DEFINE y == [routine[g].data EXCEPT !.legacy = FALSE]
    <3>2. /\ y \in ConfigFiles
          /\ y.token = routine[g].data.token /\ y.fields = routine[g].data.fields
      BY RoutineMember DEF ConfigFiles
    <3>3. Replace(y)
      BY <2>2
    <3> HIDE DEF y
    <3> QED BY <3>1, <3>2, <3>3
  <2> QED BY <2>1, <2>2 DEF MigrateWrite
<1>3. configFile' = f
  BY <1>2 DEF Replace
<1>5. /\ routine[g].pc \in {"restyle", "rewrite"}
      /\ routine[g].data.fields \subseteq EverSet
      /\ routine[g].data.token = configFile.token \/ Outdated(routine[g].data.token)
  BY DEF MigrateWrite, At, ConfigInv, RewriteInv
<1>6. EverSet \subseteq EverSet' /\ trampled \subseteq trampled'
  BY <1>2, <1>3 DEF EverSet, MigrateWrite
<1>8. issued' = issued /\ lostTokens \subseteq lostTokens'
  BY DEF MigrateWrite
<1>7. configFile.token = configFile'.token \/ configFile.token \in lostTokens'
  BY <1>2, <1>3 DEF MigrateWrite
<1>t. ConfigTypes'
  <2>1. lostTokens' \subseteq Nat /\ trampled' \subseteq Routines
    BY FileMember DEF MigrateWrite, ConfigTypes
  <2>2. configFile' \in ConfigFiles
    BY <1>3
  <2> QED BY <2>1, <2>2, <1>2 DEF MigrateWrite, Replace, ConfigTypes, Moved
<1>9. configFile'.token <= issued
  BY <1>2, <1>3 DEF ConfigInv, IssuedInv
<1>s. HoldsInv' /\ IssuedInv' /\ RewriteInv' /\ CommittedIsKept'
  <2>1. UNCHANGED <<fileLock, reloader, inMemory>>
    BY DEF MigrateWrite
  <2>2. routine[g].pc \in Reloading /\ routine[g].pc \notin Carrying
    BY <1>5 DEF Carrying, Reloading
  <2>3. g \in Setters => g \in EverSet'
    BY <1>5, <1>6 DEF ConfigInv, CommittedIsKept, Committed, EverSet
  <2>4. p \in {"reload", "clean", "load"}
    BY <1>2
  <2> QED BY <2>1, <2>2, <2>3, <2>4, <1>2, <1>6, <1>7, <1>8, <1>9, <1>t, WrittenStep
<1>w. WriteInv'
  <2> SUFFICES ASSUME NEW k \in Routines, routine'[k].pc = "write"
               PROVE  /\ configFile'.fields \subseteq routine'[k].data.fields \cup trampled'
                      /\ \/ configFile'.token = routine'[k].data.token
                         \/ configFile'.token < issued' \/ configFile'.token \in lostTokens'
    BY DEF WriteInv, Outdated
  <2>1. k # g /\ routine'[k] = routine[k]
    BY <1>2 DEF Moved
  <2>2. /\ configFile.fields \subseteq routine[k].data.fields \cup trampled
        /\ configFile.token = routine[k].data.token \/ Outdated(configFile.token)
    BY <2>1 DEF ConfigInv, WriteInv
  <2> QED BY <2>1, <2>2, <1>2, <1>3, <1>5, <1>6, <1>8 DEF EverSet, Outdated
<1>f. FreshInv'
  BY <1>2, ReplaceStep DEF MigrateWrite
<1> QED BY <1>t, <1>s, <1>w, <1>f DEF ConfigInv

LEMMA TokenExpiresConfig ==
    ASSUME ConfigInv, FreshInv, TokenExpires
    PROVE  ConfigInv' /\ FreshInv'
<1> USE DEF TokenExpires, UNCHANGEDFile
<1>t. ConfigTypes'
  BY DEF ConfigInv, ConfigTypes
<1>h. HoldsInv'
  BY DEF ConfigInv, HoldsInv
<1>i. IssuedInv'
  BY DEF ConfigInv, IssuedInv
<1>r. RewriteInv'
  BY DEF ConfigInv, RewriteInv, EverSet, Outdated
<1>w. WriteInv'
  BY DEF ConfigInv, WriteInv, Outdated
<1>c. CommittedIsKept'
  BY DEF ConfigInv, CommittedIsKept, Carries
<1>f. FreshInv'
  BY DEF FreshInv, InStep, InFlight, Underway
<1> QED BY <1>t, <1>h, <1>i, <1>r, <1>w, <1>c, <1>f DEF ConfigInv

(* The routines of a process that dies end; the others do not notice.      *)
LEMMA DiesConfig ==
    ASSUME ConfigInv, FreshInv, NEW s \in Stores, Dies(s)
    PROVE  ConfigInv' /\ FreshInv'
<1>1. ConfigTypes /\ issued \in Nat
  BY DEF ConfigInv, ConfigTypes
<1> USE <1>1
<1>n. NoFile0 \in ConfigFiles /\ NoFile0.fields = {} /\ NoFile0.token = 0
  BY FileMember
<1>2. lostTokens \subseteq lostTokens' /\ lostTokens' \subseteq Nat
      /\ \A k \in Refreshers : StoreOf[k] = s /\ Carries(k) => routine[k].got \in lostTokens'
  BY RoutineMember, Parties DEF ConfigTypes, Dies
<1>3. ASSUME NEW k \in Routines, StoreOf[k] # s
      PROVE  routine'[k] = routine[k]
  BY <1>3 DEF Dies
<1>4. ASSUME NEW k \in Routines, StoreOf[k] = s
      PROVE  /\ routine'[k] \in RoutineRecords
             /\ routine'[k].pc = (IF routine[k].pc \in Committed THEN "ok" ELSE "error")
             /\ routine'[k].data = NoFile0 /\ routine'[k].got = 0 /\ routine'[k].held = 0
  BY <1>4, <1>n DEF Dies, NoWork, RoutineRecords, RoutinePCs
<1>5. routine' \in [Routines -> RoutineRecords]
  <2>1. \A k \in Routines : routine'[k] \in RoutineRecords
    BY <1>3, <1>4, RoutineMember
  <2>2. routine' = [k \in Routines |-> routine'[k]]
    BY DEF Dies
  <2> QED BY <2>1, <2>2
<1>6. /\ UNCHANGED <<configFile, trampled, overtaken, unwritten, issued, expired>>
      /\ died' = died \cup {s}
      /\ \A r \in Stores : r # s => /\ inMemory'[r] = inMemory[r]
                                    /\ snapshotOK'[r] = snapshotOK[r]
                                    /\ reloader'[r] = reloader[r]
  BY DEF Dies, ConfigTypes
<1>7. /\ inMemory' \in [Stores -> MemorySettings] /\ inMemory'[s].token = 0
      /\ snapshotOK' \in [Stores -> BOOLEAN]
      /\ reloader' \in [Stores -> Routines \cup {NoRoutine}]
      /\ fileLock' \in Routines \cup {NoRoutine}
  BY <1>n DEF Dies, ConfigTypes, Settings, MemorySettings
<1>t. ConfigTypes'
  BY <1>2, <1>5, <1>6, <1>7 DEF ConfigTypes
<1>h. HoldsInv'
  <2> SUFFICES ASSUME NEW k \in Routines
               PROVE  /\ routine'[k].pc = "write" => fileLock' = k
                      /\ routine'[k].pc \in Reloading => reloader'[StoreOf[k]] = k
                      /\ routine'[k].pc \in Refreshing => k \in Refreshers
                      /\ routine'[k].pc \in {"lock", "write"} /\ k \in Setters
                           => k \in routine'[k].list
    BY DEF HoldsInv
  <2>1. CASE StoreOf[k] = s
    BY <2>1, <1>4 DEF Reloading, Refreshing
  <2>2. CASE StoreOf[k] # s
    <3>1. routine[k].pc = "write" => fileLock' = k
      BY <2>2 DEF Dies, ConfigInv, HoldsInv
    <3> QED BY <3>1, <2>2, <1>3, <1>6, StoreMember DEF ConfigInv, HoldsInv
  <2> QED BY <2>1, <2>2
<1>i. IssuedInv'
  <2>1. \A k \in Routines : /\ routine'[k].data.token <= issued
                            /\ routine'[k].got <= issued /\ routine'[k].held <= issued
    BY <1>3, <1>4, <1>n DEF ConfigInv, IssuedInv
  <2>2. \A r \in Stores : inMemory'[r].token <= issued
    BY <1>6, <1>7 DEF ConfigInv, IssuedInv
  <2> QED BY <2>1, <2>2, <1>6 DEF ConfigInv, IssuedInv
<1>r. RewriteInv'
  <2> SUFFICES ASSUME NEW k \in Routines
               PROVE  /\ routine'[k].data.fields \subseteq EverSet
                      /\ routine'[k].pc \in {"restyle", "rewrite"} =>
                           \/ routine'[k].data.token = configFile.token
                           \/ routine'[k].data.token < issued
                           \/ routine'[k].data.token \in lostTokens'
    BY <1>6 DEF RewriteInv, EverSet, Outdated
  <2>1. CASE StoreOf[k] = s
    BY <2>1, <1>4, <1>n
  <2>2. CASE StoreOf[k] # s
    BY <2>2, <1>2, <1>3 DEF ConfigInv, RewriteInv, Outdated
  <2> QED BY <2>1, <2>2
<1>w. WriteInv'
  <2>1. ASSUME NEW k \in Routines, routine'[k].pc = "write"
        PROVE  routine'[k] = routine[k]
    BY <2>1, <1>3, <1>4
  <2> QED BY <2>1, <1>2, <1>6 DEF ConfigInv, WriteInv, Outdated
<1>c. CommittedIsKept'
  <2>1. \A k \in Setters : routine'[k].pc \in Committed => k \in configFile.fields \cup trampled
    BY <1>3, <1>4, Parties DEF ConfigInv, CommittedIsKept, Committed
  <2>2. ASSUME NEW k \in Refreshers, routine[k].got = issued, Carries(k)
        PROVE  \/ issued \in lostTokens'
               \/ routine'[k].got = issued /\ routine'[k].pc \in Carrying
    BY <2>2, <1>2, <1>3, Parties DEF Carries, Carrying
  <2> QED BY <2>1, <2>2, <1>2, <1>6 DEF ConfigInv, CommittedIsKept, Carries, Carrying
<1>8. ASSUME NEW r \in Stores, r # s, InStep(r)
      PROVE  InStep(r)'
  <2>1. InFlight(r) => InFlight(r)'
    BY <1>3, <1>6, <1>8, Parties DEF InFlight
  <2>2. Underway(r) \subseteq Underway(r)'
    BY <1>3, <1>8, Parties DEF Underway
  <2> QED BY <2>1, <2>2, <1>2, <1>6, <1>8, StaysInStep
<1>f. FreshInv'
  <2>1. \A r \in Stores \ (died' \cup overtaken') : snapshotOK'[r] => InStep(r)'
    BY <1>6, <1>8 DEF FreshInv
  <2>2. ASSUME NEW k \in Routines, StoreOf[k] \notin died' \cup overtaken'
        PROVE  /\ routine'[k].pc = "swap" =>
                    /\ routine'[k].data.token = configFile'.token
                    /\ routine'[k].data.fields = configFile'.fields
               /\ routine'[k].pc = "snapshot" => InStep(StoreOf[k])'
    <3>1. StoreOf[k] # s /\ StoreOf[k] \notin died \cup overtaken /\ StoreOf[k] \in Stores
      BY <2>2, <1>6, StoreMember
    <3> QED BY <3>1, <1>3, <1>6, <1>8 DEF FreshInv
  <2> QED BY <2>1, <2>2 DEF FreshInv
<1> QED BY <1>t, <1>h, <1>i, <1>r, <1>w, <1>c, <1>f DEF ConfigInv

LEMMA ConfigStarts == ConfigInit => ConfigInv /\ FreshInv
<1> SUFFICES ASSUME ConfigInit
             PROVE  ConfigInv /\ FreshInv
  OBVIOUS
<1>1. /\ configFile \in ConfigFiles /\ configFile.token = 1 /\ configFile.fields = {}
      /\ NoFile0 \in ConfigFiles /\ NoFile0.token = 0 /\ NoFile0.fields = {}
  BY DEF ConfigInit, ConfigFiles, NoFile0
<1>2. \A s \in Stores : /\ inMemory[s] \in MemorySettings
                         /\ inMemory[s].token = 1 /\ inMemory[s].fields = {}
  BY <1>1 DEF ConfigInit, Settings, MemorySettings
<1>3. PICK away \in SUBSET Routines :
        routine = [g \in Routines |->
                     [NoWork EXCEPT !.pc = IF g \in away THEN "error" ELSE "idle"]]
  BY DEF ConfigInit
<1>4. \A g \in Routines : /\ routine[g] \in RoutineRecords /\ routine[g].pc \in {"idle", "error"}
                          /\ routine[g].held = 0 /\ routine[g].got = 0
                          /\ routine[g].data = NoFile0
  BY <1>1, <1>3 DEF NoWork, RoutineRecords, RoutinePCs
<1>t. ConfigTypes
  <2>1. inMemory \in [Stores -> MemorySettings]
    BY <1>2 DEF ConfigInit
  <2>2. routine \in [Routines -> RoutineRecords]
    BY <1>3, <1>4
  <2> QED BY <2>1, <2>2, <1>1 DEF ConfigInit, ConfigTypes
<1>h. HoldsInv
  BY <1>4 DEF HoldsInv, Reloading, Refreshing
<1>i. IssuedInv
  BY <1>1, <1>2, <1>4 DEF IssuedInv, ConfigInit
<1>r. RewriteInv
  BY <1>1, <1>4 DEF RewriteInv
<1>w. WriteInv
  BY <1>4 DEF WriteInv
<1>c. CommittedIsKept
  BY <1>1, <1>4, Parties DEF CommittedIsKept, Committed, ConfigInit
<1>f. FreshInv
  BY <1>1, <1>2, <1>4 DEF FreshInv, InStep
<1> QED BY <1>t, <1>h, <1>i, <1>r, <1>w, <1>c, <1>f DEF ConfigInv

LEMMA ConfigSteps ==
    ASSUME ConfigInv, FreshInv, [ConfigNext]_configVars
    PROVE  ConfigInv' /\ FreshInv'
<1>1. CASE UNCHANGED configVars
  <2> USE <1>1 DEF configVars
  <2>t. ConfigTypes'
    BY DEF ConfigInv, ConfigTypes
  <2>h. HoldsInv'
    BY DEF ConfigInv, HoldsInv
  <2>i. IssuedInv'
    BY DEF ConfigInv, IssuedInv
  <2>r. RewriteInv'
    BY DEF ConfigInv, RewriteInv, EverSet, Outdated
  <2>w. WriteInv'
    BY DEF ConfigInv, WriteInv, Outdated
  <2>c. CommittedIsKept'
    BY DEF ConfigInv, CommittedIsKept, Carries
  <2>f. FreshInv'
    BY DEF FreshInv, InStep, InFlight, Underway
  <2> QED BY <2>t, <2>h, <2>i, <2>r, <2>w, <2>c, <2>f DEF ConfigInv
<1>2. ASSUME NEW g \in Refreshers,
             \/ StartRefresh(g) \/ LookUp(g)
             \/ Exchange(g) \/ ExchangeFails(g) \/ Remember(g)
      PROVE  ConfigInv' /\ FreshInv'
  BY <1>2, StartRefreshConfig, LookUpConfig, ExchangeConfig, ExchangeFailsConfig, RememberConfig
<1>3. ASSUME NEW g \in Setters, StartSet(g) \/ KeyIntoMemory(g)
      PROVE  ConfigInv' /\ FreshInv'
  BY <1>3, StartSetConfig, KeyIntoMemoryConfig
<1>4. ASSUME NEW g \in Routines,
             LockAndRead(g) \/ LockFails(g) \/ WriteField(g) \/ WriteFieldFails(g)
      PROVE  ConfigInv' /\ FreshInv'
  BY <1>4, LockAndReadConfig, LockFailsConfig, WriteFieldConfig, WriteFieldFailsConfig
<1>5. ASSUME NEW g \in Routines,
             \/ TryReload(g) \/ MigrateCheck(g) \/ MigrateRead(g) \/ MigrateWrite(g)
             \/ LoadFile(g) \/ ReloadFails(g) \/ SwapConfig(g) \/ CaptureSnapshot(g)
      PROVE  ConfigInv' /\ FreshInv'
  BY <1>5, TryReloadConfig, MigrateCheckConfig, MigrateReadConfig, MigrateWriteConfig,
     LoadFileConfig, ReloadFailsConfig, SwapConfigConfig, CaptureSnapshotConfig
<1>6. CASE TokenExpires
  BY <1>6, TokenExpiresConfig
<1>7. ASSUME NEW s \in Stores, Dies(s)
      PROVE  ConfigInv' /\ FreshInv'
  BY <1>7, DiesConfig
<1> QED BY <1>1, <1>2, <1>3, <1>4, <1>5, <1>6, <1>7 DEF ConfigNext

LEMMA ConfigIsKept == ConfigSpec => [](ConfigInv /\ FreshInv)
BY ConfigStarts, ConfigSteps, PTL DEF ConfigSpec

(* What was committed to the configuration stays.  A field whose write has *)
(* returned is in the file unless a migration, which takes no lock, has    *)
(* written over it, or the next writer of the recent models, which writes  *)
(* the list its own memory gives it; the newest token of the provider is   *)
(* in the file, or a refresher that lives is about to write it, or it is   *)
(* one of those the history counts as lost (config/store.go:451, 523,      *)
(* load.go:867, 888).                                                      *)
THEOREM CommittedSettingsAreKept == ConfigSpec => []CommittedIsKept
<1>1. ConfigInv => CommittedIsKept
  BY DEF ConfigInv
<1> QED BY <1>1, ConfigIsKept, PTL

(* A store that reports itself clean has in memory what is in the file     *)
(* when its own writers and reloads are through, but for a file written    *)
(* between a reload's read and its snapshot, a token taken from the file   *)
(* that is no longer there, a key whose field has gone meanwhile, a token  *)
(* that was never written, and fields changed in memory before a write     *)
(* that failed (store.go:286, 301, 310, 345, 405, 540, 742, 830).          *)
THEOREM CleanStoresAreFresh == ConfigSpec => []CleanIsFresh
<1>1. ConfigInv /\ FreshInv => CleanIsFresh
  <2> SUFFICES ASSUME ConfigInv, FreshInv, NEW s \in Stores, snapshotOK[s],
                      s \notin died \cup overtaken,
                      \A g \in Routines :
                        StoreOf[g] = s => routine[g].pc \in {"idle", "ok", "error"}
               PROVE  /\ inMemory[s].token \in {configFile.token} \cup lostTokens
                      /\ configFile.fields \subseteq inMemory[s].fields
                      /\ inMemory[s].fields \subseteq configFile.fields \cup unwritten
    BY DEF CleanIsFresh
  <2>1. InStep(s) /\ ~InFlight(s)
    BY Parties DEF FreshInv, InFlight
  <2>2. Underway(s) = {}
    BY Parties DEF Underway
  <2> QED BY <2>1, <2>2 DEF InStep
<1> QED BY <1>1, ConfigIsKept, PTL
=============================================================================
