-------------------------- MODULE BillCollectorProofs --------------------------
(***************************************************************************)
(* The collector of the account's ledger skips nothing, proved for every   *)
(* length of a second, a window, an overlap and a page, however many       *)
(* workers there are and whatever is lost, if the ledger shows an entry    *)
(* within the overlap and the lag of the windows.                          *)
(*                                                                         *)
(* The argument: an entry that the ledger still holds back is younger than *)
(* the delay (Timely), so that it lies behind the start of the next window *)
(* when this one is opened.  The others are on the pages of the window,    *)
(* and a page that is done was stored (Reading).                           *)
(***************************************************************************)
EXTENDS BillCollector, FiniteSetTheorems, WellFoundedInduction, TLAPS

WorkerStates ==
    [pc : {"idle", "open", "query", "store", "failed", "release"}, demand : Nat \cup {None},
     window : Windows \cup {None}, page : Nat, todo : SUBSET Entries, complete : BOOLEAN]

Made == {e \in Entries : entry[e] # None}

\* Rows and workers have their types, only what the ledger shows is stored, and a
\* worker that runs has claimed the row.
Typed ==
    /\ from \in [Payments -> Nat \cup {None}]
    /\ entry \in [Entries -> EntryRows \cup {None}]
    /\ stored \subseteq Visible
    /\ state \in States \cup {None}
    /\ worker \in [Workers -> WorkerStates]
    /\ now \in Nat
    /\ \A w \in Workers :
          /\ worker[w] # Idle => state # None
          /\ worker[w].pc = "open" => worker[w].demand \in Nat
          /\ worker[w].pc = "store" => worker[w].window # None
          /\ worker[w].todo \subseteq Visible

\* No instant on record is in the future; an entry is not older than its payment; and
\* an entry that the ledger holds back is younger than the delay.
Timely ==
    /\ \A p \in Payments : from[p] # None => from[p] <= now
    /\ \A e \in Made :
          /\ entry[e].payer # None =>
                from[entry[e].payer] # None /\ entry[e].paidAt >= Floor(from[entry[e].payer])
          /\ ~entry[e].visible =>
                now <= entry[e].paidAt + MaxDelay \/ entry[e].paidAt = Floor(now)
    /\ state # None => state.cursor <= now /\ (state.window # None => state.window.end <= now)

\* What a worker knows of the demand when it opens a window.
Known ==
    \A w \in Workers : worker[w].pc = "open" =>
        worker[w].demand <= now /\ \A p \in Demanded : worker[w].demand <= from[p]

\* An entry is not before the next window.
Ahead(e) ==
    entry[e].paidAt >= Floor((IF state.window = None THEN state.cursor ELSE state.window.end) - OVERLAP)

\* An entry of the window is on a page that comes after the first n.
Behind(e, n) == e \in InWindow /\ Cardinality(Before(e)) >= n * PAGE_SIZE

Wanted == {e \in Made : entry[e].payer \in Demanded}

\* Nothing is skipped, whether the ledger shows it already or not.
Kept ==
    state # None => \A e \in Wanted :
        Ahead(e) \/ (state.window # None /\ Behind(e, state.page - 1))

\* A worker that has the row is about its page, whether its lease is alive or not.
HasItsPage ==
    \A w \in Workers : (worker[w].pc = "store" /\ Owns(w)) =>
        state.window = worker[w].window /\ state.page = worker[w].page

\* It stores what the page is about: what it does not hold is on later pages, if there are
\* any.
Reading ==
    /\ HasItsPage
    /\ \A w \in Workers : (worker[w].pc = "store" /\ Owns(w)) => \A e \in Wanted :
           Ahead(e) \/ e \in worker[w].todo \/ (~worker[w].complete /\ Behind(e, state.page))

-----------------------------------------------------------------------------
(* Seconds, least instants, pages.                                         *)

LEMMA FloorOf ==
    ASSUME NEW i \in Int
    PROVE  Floor(i) \in Int /\ Floor(i) <= i /\ Floor(i) = SECOND * (i \div SECOND)
  BY CollectorAssumption DEF Floor

LEMMA FloorIsMonotone ==
    ASSUME NEW i \in Int, NEW j \in Int, i <= j
    PROVE  Floor(i) <= Floor(j)
  <1>1. i \div SECOND \in Int /\ j \div SECOND \in Int /\ i \div SECOND <= j \div SECOND
    BY CollectorAssumption
  <1>2. \A a, b \in Int : a <= b => SECOND * a <= SECOND * b
    BY CollectorAssumption
  <1> QED  BY <1>1, <1>2, FloorOf

\* Of some instants one is the least: the instants up to it are a set with no less.
LEMMA LeastOfNat ==
    ASSUME NEW S \in SUBSET Nat, S # {}
    PROVE  Least(S) \in S /\ \A j \in S : Least(S) <= j
  <1>1. PICK n \in S : TRUE
    OBVIOUS
  <1> DEFINE N == 0 .. n
             T == {0 .. i : i \in {j \in S : j <= n}}
  <1>2. IsWellFoundedOn(StrictSubsetOrdering(N), SUBSET N)
    <2>1. IsFiniteSet(N)
      BY n \in Int, 0 \in Int, FS_Interval
    <2> HIDE DEF N
    <2>2. FiniteSubsetsOf(N) = SUBSET N
      BY <2>1, FS_FiniteSubsetsOfFinite
    <2> QED  BY <2>1, <2>2, FS_StrictSubsetOrderingWellFounded
  <1>3. T \subseteq SUBSET N /\ T # {}
    OBVIOUS
  <1>4. PICK s \in T : \A u \in T : ~(<<u, s>> \in StrictSubsetOrdering(N))
    <2> HIDE DEF T, N
    <2> QED  BY <1>2, <1>3, WFMin
  <1>5. PICK i \in S : i <= n /\ s = 0 .. i
    OBVIOUS
  <1>6. ASSUME NEW j \in S, j < i
        PROVE  FALSE
    <2>1. 0 .. j \in T /\ 0 .. j \subseteq 0 .. i /\ 0 .. j # 0 .. i
      <3>1. i \in 0 .. i /\ i \notin 0 .. j
        BY <1>6
      <3> QED  BY <1>5, <1>6, <3>1
    <2>2. 0 .. j \in SUBSET N /\ 0 .. i \in SUBSET N
      BY <1>5, <1>6
    <2> HIDE DEF T, N
    <2> QED  BY <1>4, <1>5, <2>1, <2>2 DEF StrictSubsetOrdering
  <1>7. \A j \in S : i <= j
    BY <1>6
  <1> QED  BY <1>7 DEF Least

LEMMA LeastOfTwo ==
    ASSUME NEW a \in Int, NEW b \in Int
    PROVE  Least({a, b}) \in {a, b} /\ Least({a, b}) <= a /\ Least({a, b}) <= b
  <1>1. \E i \in {a, b} : \A j \in {a, b} : i <= j
    OBVIOUS
  <1> QED  BY <1>1 DEF Least

\* The demand is the instant of the first payment that is looked after.
LEMMA DemandOf ==
    ASSUME Typed, Timely, Demanded # {}
    PROVE  /\ collectionDemand \in Nat /\ collectionDemand <= now
           /\ \A p \in Demanded : collectionDemand <= from[p]
  <1> DEFINE S == {from[p] : p \in Demanded}
  <1>1. S \in SUBSET Nat /\ S # {}
    BY DEF Typed, Demanded
  <1>2. \A i \in S : i <= now
    BY DEF Timely, Demanded
  <1>3. collectionDemand = Least(S) /\ \A p \in Demanded : from[p] \in S
    BY DEF collectionDemand
  <1> HIDE DEF S
  <1> QED  BY <1>1, <1>2, <1>3, LeastOfNat

LEMMA RankType ==
    ASSUME NEW e
    PROVE  IsFiniteSet(InWindow) /\ IsFiniteSet(Before(e)) /\ Cardinality(Before(e)) \in Nat
  <1>1. InWindow \subseteq Entries /\ Before(e) \subseteq InWindow
    BY DEF InWindow, Visible, Before
  <1> QED  BY <1>1, CollectorAssumption, FS_Subset, FS_CardinalityType

\* What the ledger shows later never moves an entry of a window to an earlier page.
LEMMA PagesGrow ==
    ASSUME state'.window = state.window, Visible \subseteq Visible',
           \A d \in Visible : entry'[d].paidAt = entry[d].paidAt,
           NEW e, NEW n \in Int, Behind(e, n)
    PROVE  Behind(e, n)'
  <1>1. InWindow \subseteq InWindow'
    BY DEF InWindow
  <1>2. Before(e) \subseteq Before(e)'
    BY <1>1 DEF Before
  <1>3. InWindow' \subseteq Entries /\ Before(e)' \subseteq InWindow'
    BY DEF InWindow, Visible, Before
  <1>4. IsFiniteSet(Before(e)')
    BY <1>3, CollectorAssumption, FS_Subset
  <1>5. Cardinality(Before(e)) <= Cardinality(Before(e)') /\ Cardinality(Before(e)') \in Nat
    BY <1>2, <1>4, FS_Subset, FS_CardinalityType
  <1>6. n * PAGE_SIZE \in Int /\ Cardinality(Before(e)) >= n * PAGE_SIZE /\ e \in InWindow
    BY CollectorAssumption DEF Behind
  <1> QED  BY <1>1, <1>5, <1>6, RankType DEF Behind

-----------------------------------------------------------------------------
(* Types.                                                                  *)

LEMMA InitTyped == Init => Typed /\ Timely
  <1> SUFFICES ASSUME Init
               PROVE  Typed /\ Timely
    OBVIOUS
  <1>1. /\ worker \in [Workers -> WorkerStates]
        /\ \A w \in Workers : worker[w] = Idle /\ worker[w].pc = "idle" /\ worker[w].todo = {}
    BY DEF Init, Idle, WorkerStates
  <1> QED  BY <1>1 DEF Init, Typed, Timely, Made

\* A worker that only goes on to another place.
LEMMA GotoType ==
    ASSUME Typed, NEW w \in Workers,
           NEW pc \in {"query", "failed", "release"}, Goto(w, pc)
    PROVE  /\ worker' \in [Workers -> WorkerStates]
           /\ worker'[w].pc = pc /\ worker'[w].todo \subseteq Visible
           /\ \A v \in Workers : v # w => worker'[v] = worker[v]
  <1> DEFINE s == [worker[w] EXCEPT !.pc = pc]
  <1>1. s \in WorkerStates /\ s.pc = pc /\ s.todo \subseteq Visible
    BY DEF Typed, WorkerStates
  <1>2. worker' = [worker EXCEPT ![w] = s]
    BY DEF Goto
  <1> HIDE DEF s
  <1> QED  BY <1>1, <1>2 DEF Typed

\* What a step of a worker or of its row has to show for the types.
LEMMA RunTyped ==
    ASSUME Typed, UNCHANGED <<from, entry, now>>, stored' \subseteq Visible,
           state' \in States \cup {None}, state # None => state' # None,
           NEW w \in Workers, worker' \in [Workers -> WorkerStates],
           \A v \in Workers : v # w => worker'[v] = worker[v],
           worker'[w] # Idle => state' # None,
           worker'[w].pc = "open" => worker'[w].demand \in Nat,
           worker'[w].pc = "store" => worker'[w].window # None,
           worker'[w].todo \subseteq Visible
    PROVE  Typed'
  <1>1. stored' \subseteq Visible'
    BY DEF Visible
  <1>2. ASSUME NEW v \in Workers
        PROVE  /\ worker'[v] # Idle => state' # None
               /\ worker'[v].pc = "open" => worker'[v].demand \in Nat
               /\ worker'[v].pc = "store" => worker'[v].window # None
               /\ worker'[v].todo \subseteq Visible
    BY DEF Typed
  <1>3. Visible' = Visible
    BY DEF Visible
  <1> QED  BY <1>1, <1>2, <1>3 DEF Typed

LEMMA BusyHasRow ==
    ASSUME Typed, NEW w \in Workers, worker[w].pc # "idle"
    PROVE  state \in States
  <1>1. worker[w] # Idle
    BY DEF Idle
  <1> QED  BY <1>1 DEF Typed

LEMMA LedgerTyped ==
    ASSUME Typed,
           \/ \E p \in Payments : CreatePayment(p)
           \/ \E e \in Entries, p \in Payments \cup {None} : Income(e, p)
           \/ \E e \in Entries : Appear(e)
           \/ Tick
    PROVE  Typed'
  <1>1. UNCHANGED <<stored, state, worker>>
    BY DEF CreatePayment, Income, Appear, Tick, rowVars
  <1>2. from' \in [Payments -> Nat \cup {None}] /\ now' \in Nat
    BY DEF CreatePayment, Income, Appear, Tick, rowVars, Typed
  <1>3. entry' \in [Entries -> EntryRows \cup {None}] /\ Visible \subseteq Visible'
    <2>1. CASE UNCHANGED entry
      BY <2>1 DEF Typed, Visible
    <2>2. ASSUME NEW e \in Entries, NEW p \in Payments \cup {None}, Income(e, p)
          PROVE  entry' \in [Entries -> EntryRows \cup {None}] /\ Visible \subseteq Visible'
      <3>1. PICK shown \in BOOLEAN :
              entry' = [entry EXCEPT ![e] = [payer |-> p, paidAt |-> Floor(now), visible |-> shown]]
        BY <2>2 DEF Income
      <3> DEFINE r == [payer |-> p, paidAt |-> Floor(now), visible |-> shown]
      <3>2. r \in EntryRows
        BY FloorOf DEF EntryRows, Typed
      <3>3. entry[e] = None
        BY <2>2 DEF Income
      <3> HIDE DEF r
      <3>4. entry' = [entry EXCEPT ![e] = r]
        BY <3>1 DEF r
      <3> QED  BY <3>2, <3>3, <3>4 DEF Typed, Visible
    <2>3. ASSUME NEW e \in Entries, Appear(e)
          PROVE  entry' \in [Entries -> EntryRows \cup {None}] /\ Visible \subseteq Visible'
      <3> DEFINE r == [entry[e] EXCEPT !.visible = TRUE]
      <3>1. r \in EntryRows /\ r.visible
        BY <2>3 DEF Appear, Typed, EntryRows
      <3>2. entry' = [entry EXCEPT ![e] = r]
        BY <2>3 DEF Appear
      <3> HIDE DEF r
      <3> QED  BY <3>1, <3>2, RowAssumption DEF Typed, Visible
    <2> QED  BY <2>1, <2>2, <2>3 DEF CreatePayment, Tick
  <1> QED  BY <1>1, <1>2, <1>3 DEF Typed

LEMMA ClaimTyped ==
    ASSUME Typed, Timely, NEW w \in Workers, Claim(w)
    PROVE  Typed'
  <1> DEFINE row == IF state = None THEN Fresh ELSE state
             s == [Idle EXCEPT !.pc = "open", !.demand = collectionDemand]
  <1>1. /\ state' = [row EXCEPT !.owner = w, !.lock = "held"] /\ worker' = [worker EXCEPT ![w] = s]
        /\ UNCHANGED <<from, entry, stored, now>> /\ Demanded # {}
    BY DEF Claim
  <1>2. collectionDemand \in Nat
    BY <1>1, DemandOf
  <1>3. row \in States
    BY <1>2 DEF Fresh, States, Typed
  <1>4. state' \in States
    <2> HIDE DEF row
    <2> QED  BY <1>1, <1>3 DEF States
  <1>5. s \in WorkerStates /\ s.pc = "open" /\ s.demand \in Nat /\ s.todo = {}
    BY <1>2 DEF WorkerStates, Idle
  <1> HIDE DEF s
  <1> QED  BY <1>1, <1>4, <1>5, RunTyped, RowAssumption DEF Typed

LEMMA RowOf ==
    ASSUME NEW row \in States, NEW c \in Int, NEW x \in Windows \cup {None}
    PROVE  [row EXCEPT !.cursor = c, !.window = x, !.page = 1] \in States
  <1>1. 1 \in Nat \ {0}
    OBVIOUS
  <1> QED  BY <1>1 DEF States

LEMMA OpenWindowTyped ==
    ASSUME Typed, NEW w \in Workers, OpenWindow(w)
    PROVE  Typed'
  <1> DEFINE cursor == IF state.cursor < worker[w].demand THEN worker[w].demand ELSE state.cursor
             window == collectorWindow(cursor)
  <1>1. worker[w].pc = "open" /\ UNCHANGED <<from, entry, stored, now>>
    BY DEF OpenWindow
  <1>2. state \in States /\ worker[w].demand \in Nat
    BY <1>1, BusyHasRow DEF Typed
  <1>3. cursor \in Int
    BY <1>2 DEF States
  <1>4. window \in Windows
    <2> HIDE DEF cursor
    <2>1. now - LAG \in Int /\ cursor + SPAN \in Int /\ cursor - OVERLAP \in Int
      BY <1>3, CollectorAssumption DEF Typed
    <2> QED  BY <2>1, LeastOfTwo DEF collectorWindow, Windows
  <1>5. state' \in States
    <2>1. \/ state' = state
          \/ state' = [state EXCEPT !.cursor = cursor]
          \/ state' = [state EXCEPT !.cursor = cursor, !.window = window, !.page = 1]
      BY DEF OpenWindow
    <2> HIDE DEF cursor, window
    <2>2. [state EXCEPT !.cursor = cursor] \in States
      BY <1>2, <1>3 DEF States
    <2>3. [state EXCEPT !.cursor = cursor, !.window = window, !.page = 1] \in States
      BY <1>2, <1>3, <1>4, RowOf
    <2> QED  BY <1>2, <2>1, <2>2, <2>3
  <1>6. PICK pc \in {"query", "failed", "release"} : Goto(w, pc)
    BY DEF OpenWindow
  <1>7. /\ worker' \in [Workers -> WorkerStates]
        /\ worker'[w].pc = pc /\ worker'[w].todo \subseteq Visible
        /\ \A v \in Workers : v # w => worker'[v] = worker[v]
    BY <1>6, GotoType
  <1> QED  BY <1>1, <1>5, <1>7, RunTyped, RowAssumption DEF Typed

LEMMA QueryTyped ==
    ASSUME Typed, NEW w \in Workers, Query(w)
    PROVE  Typed'
  <1>1. worker[w].pc = "query" /\ UNCHANGED <<from, entry, stored, state, now>>
    BY DEF Query, rowVars
  <1>2. state \in States
    BY <1>1, BusyHasRow
  <1>3. CASE Holds(w) /\ state.window # None
    <2> DEFINE s == [pc |-> "store", demand |-> None, window |-> state.window,
                page |-> state.page, todo |-> Page(state.page),
                complete |-> state.page * PAGE_SIZE >= Cardinality(InWindow)]
    <2>1. worker' = [worker EXCEPT ![w] = s]
      BY <1>3 DEF Query
    <2>2. Page(state.page) \subseteq Visible /\ Visible \subseteq Entries
      BY DEF Page, InWindow, Visible
    <2>3. s \in WorkerStates /\ s.pc = "store" /\ s.window # None /\ s.todo \subseteq Visible
      <3> DEFINE c == state.page * PAGE_SIZE >= Cardinality(InWindow)
      <3>1. c \in BOOLEAN
        OBVIOUS
      <3> HIDE DEF c
      <3>2. state.window \in Windows \cup {None} /\ state.page \in Nat
        BY <1>2 DEF States
      <3>3. s = [pc |-> "store", demand |-> None, window |-> state.window, page |-> state.page,
                 todo |-> Page(state.page), complete |-> c]
        BY DEF c
      <3> QED  BY <1>3, <2>2, <3>1, <3>2, <3>3 DEF WorkerStates
    <2> HIDE DEF s
    <2> QED  BY <1>1, <1>2, <2>1, <2>3, RunTyped, RowAssumption DEF Typed
  <1>4. CASE ~(Holds(w) /\ state.window # None)
    <2>1. Goto(w, "failed")
      BY <1>4 DEF Query
    <2> QED  BY <1>1, <1>2, <2>1, GotoType, RunTyped, RowAssumption DEF Typed
  <1> QED  BY <1>3, <1>4

LEMMA StoreTyped ==
    ASSUME Typed, NEW w \in Workers, NEW e \in Entries, Store(w, e)
    PROVE  Typed'
  <1>1. worker[w].pc = "store" /\ e \in worker[w].todo /\ UNCHANGED <<from, entry, state, now>>
    BY DEF Store, rowVars
  <1>2. state \in States
    BY <1>1, BusyHasRow
  <1>3. CASE worker' = [worker EXCEPT ![w].todo = @ \ {e}] /\ stored' = stored \cup {e}
    <2> DEFINE s == [worker[w] EXCEPT !.todo = @ \ {e}]
    <2>1. s \in WorkerStates /\ s.pc = "store" /\ s.window # None /\ s.todo \subseteq Visible
      BY <1>1 DEF Typed, WorkerStates
    <2>2. worker' = [worker EXCEPT ![w] = s] /\ stored' \subseteq Visible
      BY <1>1, <1>3 DEF Typed
    <2> HIDE DEF s
    <2> QED  BY <1>1, <1>2, <2>1, <2>2, RunTyped, RowAssumption DEF Typed
  <1>4. CASE Goto(w, "failed") /\ UNCHANGED stored
    BY <1>1, <1>2, <1>4, GotoType, RunTyped, RowAssumption DEF Typed
  <1> QED  BY <1>3, <1>4 DEF Store

LEMMA CommitTyped ==
    ASSUME Typed, NEW w \in Workers, Commit(w)
    PROVE  Typed'
  <1>1. worker[w].pc = "store" /\ UNCHANGED <<from, entry, stored, now>>
    BY DEF Commit
  <1>2. state \in States /\ worker[w].window \in Windows /\ worker[w].page \in Nat
    BY <1>1, BusyHasRow DEF Typed, WorkerStates
  <1>3. state' \in States
    <2>1. \/ state' = state
          \/ state' = [state EXCEPT !.cursor = worker[w].window.end, !.window = None, !.page = 1]
          \/ state' = [state EXCEPT !.page = worker[w].page + 1]
      BY DEF Commit
    <2>2. [state EXCEPT !.cursor = worker[w].window.end, !.window = None, !.page = 1] \in States
      BY <1>2, RowOf DEF Windows
    <2>3. [state EXCEPT !.page = worker[w].page + 1] \in States
      <3> DEFINE n == worker[w].page + 1
      <3>1. n \in Nat \ {0}
        BY <1>2
      <3> HIDE DEF n
      <3> QED  BY <1>2, <3>1 DEF States, n
    <2> QED  BY <1>2, <2>1, <2>2, <2>3
  <1>4. PICK pc \in {"query", "failed", "release"} : Goto(w, pc)
    BY DEF Commit
  <1>5. /\ worker' \in [Workers -> WorkerStates]
        /\ worker'[w].pc = pc /\ worker'[w].todo \subseteq Visible
        /\ \A v \in Workers : v # w => worker'[v] = worker[v]
    BY <1>4, GotoType
  <1> QED  BY <1>1, <1>3, <1>5, RunTyped, RowAssumption DEF Typed

LEMMA LeaseTyped ==
    ASSUME Typed, LeaseElapses
    PROVE  Typed'
  <1>1. UNCHANGED <<from, entry, stored, worker, now>> /\ state # None
        /\ state' = [state EXCEPT !.lock = "past"]
    BY DEF LeaseElapses
  <1>2. state' \in States
    BY <1>1 DEF Typed, States
  <1>3. Visible' = Visible
    BY <1>1 DEF Visible
  <1> QED  BY <1>1, <1>2, <1>3, RowAssumption DEF Typed

LEMMA EndTyped ==
    ASSUME Typed, NEW w \in Workers, BackOff(w) \/ Release(w) \/ Fails(w) \/ Lose(w)
    PROVE  Typed'
  <1>1. worker[w] # Idle /\ UNCHANGED <<from, entry, stored, now>>
    BY DEF BackOff, Release, Fails, Lose, Idle, rowVars
  <1>2. state \in States
    BY <1>1 DEF Typed
  <1>3. state' \in States
    <2>1. state' = state \/ state' = [state EXCEPT !.owner = None, !.lock = "null"]
      BY DEF BackOff, Release, Fails, Lose, rowVars
    <2>2. [state EXCEPT !.owner = None, !.lock = "null"] \in States
      BY <1>2 DEF States
    <2> QED  BY <1>2, <2>1, <2>2
  <1>4. CASE worker' = [worker EXCEPT ![w] = Idle]
    <2>1. Idle \in WorkerStates /\ Idle.pc = "idle" /\ Idle.todo = {}
      BY DEF Idle, WorkerStates
    <2> QED  BY <1>1, <1>3, <1>4, <2>1, RunTyped, RowAssumption DEF Typed
  <1>5. CASE Goto(w, "failed") \/ Goto(w, "release")
    BY <1>1, <1>3, <1>5, GotoType, RunTyped, RowAssumption DEF Typed
  <1> QED  BY <1>4, <1>5 DEF BackOff, Release, Fails, Lose

LEMMA TypedStep ==
    ASSUME Typed, Timely, [Next]_vars
    PROVE  Typed'
  <1>1. CASE ComesDue \/ UNCHANGED vars
    <2>1. UNCHANGED <<from, entry, stored, state, worker, now>>
      BY <1>1 DEF ComesDue, vars, rowVars
    <2>2. Visible' = Visible
      BY <2>1 DEF Visible
    <2> QED  BY <2>1, <2>2 DEF Typed
  <1> QED  BY <1>1, LedgerTyped, ClaimTyped, OpenWindowTyped, QueryTyped, StoreTyped, CommitTyped,
              LeaseTyped, EndTyped DEF Next, Run

-----------------------------------------------------------------------------
(* The clock.                                                              *)

LEMMA LedgerTimely ==
    ASSUME Typed, Typed', Timely,
           \/ \E p \in Payments : CreatePayment(p)
           \/ \E e \in Entries, p \in Payments \cup {None} : Income(e, p)
           \/ \E e \in Entries : Appear(e)
           \/ Tick
    PROVE  Timely'
  <1>1. UNCHANGED state
    BY DEF CreatePayment, Income, Appear, Tick, rowVars
  <1>2. ASSUME NEW p \in Payments, CreatePayment(p)
        PROVE  Timely'
    <2>1. /\ from[p] = None /\ from' = [from EXCEPT ![p] = now] /\ UNCHANGED <<entry, now>>
      BY <1>2 DEF CreatePayment
    <2> QED  BY <1>1, <2>1 DEF Timely, Typed, Made, EntryRows
  <1>3. ASSUME NEW e \in Entries, NEW p \in Payments \cup {None}, Income(e, p)
        PROVE  Timely'
    <2>1. PICK shown \in BOOLEAN :
            entry' = [entry EXCEPT ![e] = [payer |-> p, paidAt |-> Floor(now), visible |-> shown]]
      BY <1>3 DEF Income
    <2>2. entry[e] = None /\ (p # None => from[p] # None) /\ UNCHANGED <<from, now>>
      BY <1>3 DEF Income
    <2>3. /\ entry'[e].payer = p /\ entry'[e].paidAt = Floor(now)
          /\ \A d \in Entries : d # e => entry'[d] = entry[d]
      BY <2>1 DEF Typed
    <2>4. p # None => Floor(from[p]) <= Floor(now)
      BY <2>2, FloorIsMonotone DEF Typed, Timely
    <2>5. p # None => Floor(now) >= Floor(from[p])
      <3>1. p # None => from[p] \in Int /\ now \in Int
        BY <2>2 DEF Typed
      <3> QED  BY <2>4, <3>1, FloorOf
    <2> QED  BY <1>1, <2>2, <2>3, <2>5 DEF Timely, Made
  <1>4. ASSUME NEW e \in Entries, Appear(e)
        PROVE  Timely'
    <2>1. /\ entry[e] # None /\ entry' = [entry EXCEPT ![e] = [entry[e] EXCEPT !.visible = TRUE]]
          /\ UNCHANGED <<from, now>>
      BY <1>4 DEF Appear
    <2>2. entry[e] \in EntryRows
      BY <2>1 DEF Typed
    <2>3. /\ entry'[e].payer = entry[e].payer /\ entry'[e].paidAt = entry[e].paidAt /\ entry'[e].visible
          /\ \A d \in Entries : d # e => entry'[d] = entry[d]
      BY <2>1, <2>2 DEF Typed, EntryRows
    <2> QED  BY <1>1, <2>1, <2>3 DEF Timely, Made
  <1>5. CASE Tick
    <2>1. /\ now' = now + 1 /\ UNCHANGED <<from, entry>>
          /\ \A e \in Entries : entry[e] # None /\ ~entry[e].visible => now < entry[e].paidAt + MaxDelay
      BY <1>5 DEF Tick
    <2>2. \A p \in Payments : from[p] # None => from[p] <= now + 1
      BY DEF Typed, Timely
    <2>3. state # None => state.cursor <= now + 1 /\ (state.window # None => state.window.end <= now + 1)
      BY DEF Typed, Timely, States, Windows
    <2>4. \A e \in Made : ~entry[e].visible => now + 1 <= entry[e].paidAt + MaxDelay
      <3> SUFFICES ASSUME NEW e \in Made, ~entry[e].visible
                   PROVE  now + 1 <= entry[e].paidAt + MaxDelay
        OBVIOUS
      <3>1. now < entry[e].paidAt + MaxDelay
        BY <2>1 DEF Made
      <3>2. entry[e].paidAt \in Int /\ MaxDelay \in Int /\ now \in Int
        BY CollectorAssumption DEF Typed, Made, EntryRows
      <3> QED  BY <3>1, <3>2
    <2> QED  BY <1>1, <2>1, <2>2, <2>3, <2>4 DEF Timely, Made
  <1> QED  BY <1>2, <1>3, <1>4, <1>5

\* A step of the collector moves the cursor and the window into the past only.
LEMMA RowTimely ==
    ASSUME Timely, UNCHANGED <<from, entry, now>>,
           state' # None => state'.cursor <= now /\ (state'.window # None => state'.window.end <= now)
    PROVE  Timely'
  BY DEF Timely, Made

LEMMA ClaimTimely ==
    ASSUME Typed, Timely, NEW w \in Workers, Claim(w)
    PROVE  Timely' /\ worker'[w].demand <= now /\ \A p \in Demanded : worker'[w].demand <= from[p]
  <1> DEFINE row == IF state = None THEN Fresh ELSE state
  <1>1. /\ state' = [row EXCEPT !.owner = w, !.lock = "held"]
        /\ worker' = [worker EXCEPT ![w] = [Idle EXCEPT !.pc = "open", !.demand = collectionDemand]]
        /\ UNCHANGED <<from, entry, now>> /\ Demanded # {}
    BY DEF Claim
  <1>2. worker'[w].demand = collectionDemand
    BY <1>1 DEF Typed, Idle
  <1>3. state'.cursor = row.cursor /\ state'.window = row.window
    <2>1. CASE state = None
      BY <1>1, <2>1 DEF Fresh
    <2>2. CASE state # None
      BY <1>1, <2>2 DEF Typed, States
    <2> QED  BY <2>1, <2>2
  <1>4. row.cursor <= now /\ (row.window # None => row.window.end <= now)
    <2>1. CASE state = None
      BY <1>1, <2>1, DemandOf DEF Fresh
    <2>2. CASE state # None
      BY <2>2 DEF Timely
    <2> QED  BY <2>1, <2>2
  <1> HIDE DEF row
  <1> QED  BY <1>1, <1>2, <1>3, <1>4, DemandOf, RowTimely

\* The window that a worker opens.
LEMMA WindowOf ==
    ASSUME Typed, NEW c \in Int
    PROVE  /\ collectorWindow(c).start = c - OVERLAP
           /\ collectorWindow(c).end \in Int /\ collectorWindow(c).end <= now - LAG
           /\ collectorWindow(c).end <= now
  <1>1. now - LAG \in Int /\ c + SPAN \in Int /\ now - LAG <= now
    BY CollectorAssumption DEF Typed
  <1>2. Least({now - LAG, c + SPAN}) \in Int /\ Least({now - LAG, c + SPAN}) <= now - LAG
    BY <1>1, LeastOfTwo
  <1>3. Least({now - LAG, c + SPAN}) <= now
    BY <1>1, <1>2 DEF Typed
  <1> QED  BY <1>2, <1>3 DEF collectorWindow

LEMMA OpenWindowTimely ==
    ASSUME Typed, Timely, Known, NEW w \in Workers, OpenWindow(w)
    PROVE  Timely'
  <1> DEFINE cursor == IF state.cursor < worker[w].demand THEN worker[w].demand ELSE state.cursor
             window == collectorWindow(cursor)
  <1>1. worker[w].pc = "open" /\ UNCHANGED <<from, entry, now>>
    BY DEF OpenWindow
  <1>2. state \in States /\ worker[w].demand \in Nat
    BY <1>1, BusyHasRow DEF Typed
  <1>3. cursor \in Int /\ cursor <= now
    BY <1>1, <1>2, RowAssumption DEF States, Known, Timely
  <1>4. window.end <= now
    <2> HIDE DEF cursor
    <2> QED  BY <1>3, WindowOf
  <1>5. state.cursor <= now /\ (state.window # None => state.window.end <= now)
    BY <1>2, RowAssumption DEF Timely
  <1>6. \/ state' = state
        \/ state' = [state EXCEPT !.cursor = cursor]
        \/ state' = [state EXCEPT !.cursor = cursor, !.window = window, !.page = 1]
    BY DEF OpenWindow
  <1>7. state'.cursor <= now /\ (state'.window # None => state'.window.end <= now)
    <2> HIDE DEF cursor, window
    <2> QED  BY <1>2, <1>3, <1>4, <1>5, <1>6 DEF States
  <1> QED  BY <1>1, <1>7, RowTimely

\* The window of a page that is committed is the row's.
LEMMA CommitRow ==
    ASSUME Typed, Typed', HasItsPage, NEW w \in Workers, Commit(w), Holds(w)
    PROVE  /\ state \in States /\ worker[w].pc = "store" /\ worker[w].todo = {}
           /\ state.window = worker[w].window /\ state.page = worker[w].page
           /\ worker[w].window \in Windows
           /\ state' = IF worker[w].complete
                       THEN [state EXCEPT !.cursor = worker[w].window.end, !.window = None, !.page = 1]
                       ELSE [state EXCEPT !.page = worker[w].page + 1]
  <1>1. worker[w].pc = "store"
    BY DEF Commit
  <1>2. state \in States
    BY <1>1, BusyHasRow
  <1> QED  BY <1>1, <1>2 DEF Commit, Holds, HasItsPage, Typed, WorkerStates

LEMMA TimelyStep ==
    ASSUME Typed, Typed', Timely, Known, HasItsPage, [Next]_vars
    PROVE  Timely'
  <1>1. ASSUME NEW w \in Workers, Commit(w), Holds(w)
        PROVE  Timely'
    <2>1. /\ state \in States /\ state.window \in Windows
          /\ \/ state' = [state EXCEPT !.cursor = state.window.end, !.window = None, !.page = 1]
             \/ state' = [state EXCEPT !.page = worker[w].page + 1]
      BY <1>1, CommitRow
    <2>2. state.cursor <= now /\ state.window.end <= now /\ state.window # None
      BY <2>1, RowAssumption DEF Timely
    <2>3. state'.cursor <= now /\ (state'.window # None => state'.window.end <= now)
      <3>1. CASE state' = [state EXCEPT !.cursor = state.window.end, !.window = None, !.page = 1]
        BY <2>1, <2>2, <3>1 DEF States
      <3>2. CASE state' = [state EXCEPT !.page = worker[w].page + 1]
        BY <2>1, <2>2, <3>2 DEF States
      <3> QED  BY <2>1, <3>1, <3>2
    <2>4. UNCHANGED <<from, entry, now>>
      BY <1>1 DEF Commit
    <2> QED  BY <2>3, <2>4, RowTimely
  <1>2. ASSUME NEW w \in Workers, Release(w)
        PROVE  Timely'
    <2>1. /\ UNCHANGED <<from, entry, now>>
          /\ state' = state \/ state' = [state EXCEPT !.owner = None, !.lock = "null"]
      BY <1>2 DEF Release
    <2>2. state \in States
      <3>1. worker[w].pc # "idle"
        BY <1>2 DEF Release
      <3> QED  BY <3>1, BusyHasRow
    <2>3. state'.cursor = state.cursor /\ state'.window = state.window
      BY <2>1, <2>2 DEF States
    <2> QED  BY <2>1, <2>2, <2>3, RowAssumption, RowTimely DEF Timely
  <1>3. CASE LeaseElapses
    <2>1. /\ UNCHANGED <<from, entry, now>> /\ state # None
          /\ state' = [state EXCEPT !.lock = "past"]
      BY <1>3 DEF LeaseElapses
    <2>2. state'.cursor = state.cursor /\ state'.window = state.window
      BY <2>1 DEF States, Typed
    <2> QED  BY <2>1, <2>2, RowTimely DEF Timely
  <1>4. ASSUME UNCHANGED <<from, entry, now, state>>
        PROVE  Timely'
    BY <1>4 DEF Timely, Made
  <1>5. ASSUME NEW w \in Workers, Commit(w), ~Holds(w)
        PROVE  UNCHANGED <<from, entry, now, state>>
    BY <1>5 DEF Commit
  <1>6. ASSUME NEW w \in Workers,
               Query(w) \/ (\E e \in Entries : Store(w, e)) \/ BackOff(w) \/ Fails(w) \/ Lose(w)
        PROVE  UNCHANGED <<from, entry, now, state>>
    BY <1>6 DEF Query, Store, BackOff, Fails, Lose, rowVars
  <1>7. ASSUME ComesDue \/ UNCHANGED vars
        PROVE  UNCHANGED <<from, entry, now, state>>
    BY <1>7 DEF ComesDue, vars, rowVars
  <1>8. ASSUME NEW w \in Workers, Run(w) \/ Fails(w) \/ Lose(w)
        PROVE  Timely'
    BY <1>1, <1>2, <1>4, <1>5, <1>6, <1>8, ClaimTimely, OpenWindowTimely DEF Run
  <1> QED  BY <1>3, <1>4, <1>7, <1>8, LedgerTimely DEF Next

-----------------------------------------------------------------------------
(* What is wanted.                                                         *)

\* A step of a worker makes nothing wanted that was not.
LEMMA WantedShrinks ==
    ASSUME UNCHANGED <<from, entry, now>>, stored \subseteq stored'
    PROVE  /\ Demanded' \subseteq Demanded /\ Wanted' \subseteq Wanted
           /\ Visible' = Visible /\ Made' = Made
  BY DEF Demanded, Paid, Wanted, Visible, Made

\* A step of the ledger or of the clock makes wanted what is new, at most.
LEMMA LedgerWanted ==
    ASSUME Typed, Timely,
           \/ \E p \in Payments : CreatePayment(p)
           \/ \E e \in Entries, p \in Payments \cup {None} : Income(e, p)
           \/ \E e \in Entries : Appear(e)
           \/ Tick
    PROVE  /\ \A p \in Demanded' : (p \in Demanded /\ from'[p] = from[p]) \/ from'[p] = now
           /\ now <= now'
           /\ \A e \in Made : e \in Made' /\ entry'[e].payer = entry[e].payer
                              /\ entry'[e].paidAt = entry[e].paidAt
           /\ Visible \subseteq Visible'
           /\ \A e \in Wanted' : e \in Wanted \/ (e \notin Made /\ entry'[e].paidAt = Floor(now))
  <1>0. now \in Nat /\ \A e \in Made : entry[e] \in EntryRows
    BY DEF Typed, Made
  <1>1. \A e \in Made : /\ e \in Made' /\ entry'[e].payer = entry[e].payer
                        /\ entry'[e].paidAt = entry[e].paidAt
                        /\ entry[e].visible => entry'[e].visible
    <2> SUFFICES ASSUME NEW e \in Made
                 PROVE  /\ entry'[e] # None /\ entry'[e].payer = entry[e].payer
                        /\ entry'[e].paidAt = entry[e].paidAt
                        /\ entry[e].visible => entry'[e].visible
      BY DEF Made
    <2>1. e \in Entries /\ entry[e] \in EntryRows /\ entry[e] # None
      BY DEF Typed, Made
    <2>2. CASE UNCHANGED entry
      BY <2>1, <2>2
    <2>3. ASSUME NEW d \in Entries, NEW p \in Payments \cup {None}, Income(d, p)
          PROVE  entry'[e] = entry[e]
      <3>1. d # e
        BY <2>1, <2>3 DEF Income
      <3>2. \E r : entry' = [entry EXCEPT ![d] = r]
        BY <2>3 DEF Income
      <3> QED  BY <2>1, <3>1, <3>2 DEF Typed
    <2>4. ASSUME NEW d \in Entries, Appear(d)
          PROVE  /\ entry'[e] # None /\ entry'[e].payer = entry[e].payer
                 /\ entry'[e].paidAt = entry[e].paidAt
                 /\ entry[e].visible => entry'[e].visible
      <3> DEFINE r == [entry[d] EXCEPT !.visible = TRUE]
      <3>1. entry' = [entry EXCEPT ![d] = r] /\ entry[d] \in EntryRows
        BY <2>4 DEF Appear, Typed
      <3>2. r \in EntryRows /\ r.visible /\ r.payer = entry[d].payer /\ r.paidAt = entry[d].paidAt
        BY <3>1 DEF EntryRows
      <3> HIDE DEF r
      <3> QED  BY <2>1, <3>1, <3>2, RowAssumption DEF Typed
    <2> QED  BY <2>1, <2>2, <2>3, <2>4 DEF CreatePayment, Tick
  <1>2. Visible \subseteq Visible'
    BY <1>1 DEF Visible, Made
  <1>3. Paid' = Paid /\ stored' = stored
    <2>1. stored' = stored /\ \A e \in stored : e \in Made
      BY DEF CreatePayment, Income, Appear, Tick, Typed, Visible, Made
    <2> QED  BY <1>1, <2>1 DEF Paid
  <1>4. now <= now' /\ (now' = now \/ now' = now + 1)
    BY <1>0 DEF CreatePayment, Income, Appear, Tick
  <1>5. ASSUME NEW p \in Payments, from'[p] # None
        PROVE  from'[p] = from[p] \/ (from[p] = None /\ from'[p] = now)
    BY <1>5 DEF CreatePayment, Income, Appear, Tick, Typed
  <1>6. ASSUME NEW p \in Demanded'
        PROVE  (p \in Demanded /\ from'[p] = from[p]) \/ (from[p] = None /\ from'[p] = now)
    <2>1. p \in Payments /\ from'[p] # None /\ p \notin Paid /\ now' <= from'[p] + VALID + GRACE
      BY <1>3 DEF Demanded
    <2>2. CASE from'[p] = from[p]
      <3>1. from[p] \in Nat /\ VALID \in Nat /\ GRACE \in Nat
        BY <2>1, <2>2, CollectorAssumption DEF Typed
      <3>2. now <= from[p] + VALID + GRACE
        BY <1>0, <1>4, <2>1, <2>2, <3>1
      <3> QED  BY <2>1, <2>2, <3>2 DEF Demanded
    <2> QED  BY <1>5, <2>1, <2>2
  <1>7. ASSUME NEW e \in Wanted'
        PROVE  e \in Wanted \/ (e \notin Made /\ entry'[e].paidAt = Floor(now))
    <2>1. e \in Entries /\ entry'[e] # None /\ entry'[e].payer \in Demanded'
      BY DEF Wanted, Made
    <2>2. CASE e \in Made
      <3>1. entry[e].payer \in Demanded'
        BY <1>1, <2>1, <2>2
      <3>2. entry[e].payer \in Payments
        BY <3>1 DEF Demanded
      <3>3. from[entry[e].payer] # None
        <4>1. entry[e].payer # None
          <5>1. None \notin Int /\ Payments \subseteq Int
            BY CollectorAssumption
          <5> QED  BY <3>2, <5>1
        <4> QED  BY <2>2, <4>1 DEF Timely
      <3> QED  BY <1>6, <2>2, <3>1, <3>3 DEF Wanted
    <2>3. CASE e \notin Made
      <3>1. PICK d \in Entries, p \in Payments \cup {None} : Income(d, p)
        BY <2>1, <2>3 DEF CreatePayment, Appear, Tick, Made, Typed
      <3>2. PICK shown \in BOOLEAN :
              entry' = [entry EXCEPT ![d] = [payer |-> p, paidAt |-> Floor(now), visible |-> shown]]
        BY <3>1 DEF Income
      <3>3. e = d
        BY <2>1, <2>3, <3>2 DEF Made, Typed
      <3> QED  BY <2>3, <3>2, <3>3 DEF Typed
    <2> QED  BY <2>2, <2>3
  <1> QED  BY <1>1, <1>2, <1>4, <1>6, <1>7

LEMMA KnownStep ==
    ASSUME Typed, Typed', Timely, Known, [Next]_vars
    PROVE  Known'
  <1>1. ASSUME UNCHANGED worker,
               \/ \E p \in Payments : CreatePayment(p)
               \/ \E e \in Entries, p \in Payments \cup {None} : Income(e, p)
               \/ \E e \in Entries : Appear(e)
               \/ Tick
        PROVE  Known'
    <2> SUFFICES ASSUME NEW w \in Workers, worker[w].pc = "open"
                 PROVE  worker[w].demand <= now' /\ \A p \in Demanded' : worker[w].demand <= from'[p]
      BY <1>1 DEF Known
    <2>1. worker[w].demand \in Nat /\ worker[w].demand <= now /\ now \in Nat /\ now' \in Nat
      BY DEF Typed, Known
    <2>2. now <= now' /\ \A p \in Demanded' : (p \in Demanded /\ from'[p] = from[p]) \/ from'[p] = now
      BY <1>1, LedgerWanted
    <2>3. worker[w].demand <= now'
      BY <2>1, <2>2
    <2> QED  BY <2>1, <2>2, <2>3 DEF Known
  <1>2. ASSUME UNCHANGED <<from, entry, now>>, stored \subseteq stored',
               \A w \in Workers : worker'[w].pc = "open" =>
                   \/ worker'[w] = worker[w]
                   \/ worker'[w].demand <= now /\ \A p \in Demanded : worker'[w].demand <= from[p]
        PROVE  Known'
    BY <1>2, WantedShrinks DEF Known
  <1>3. ASSUME NEW w \in Workers, Claim(w)
        PROVE  Known'
    <2>1. /\ UNCHANGED <<from, entry, now, stored>>
          /\ \A v \in Workers : v # w => worker'[v] = worker[v]
      BY <1>3 DEF Claim, Typed
    <2>2. worker'[w].demand <= now /\ \A p \in Demanded : worker'[w].demand <= from[p]
      BY <1>3, ClaimTimely
    <2> QED  BY <1>2, <2>1, <2>2
  <1>4. ASSUME NEW w \in Workers, (Run(w) /\ ~Claim(w)) \/ Fails(w) \/ Lose(w)
        PROVE  Known'
    <2>1. UNCHANGED <<from, entry, now>> /\ stored \subseteq stored'
      <3>1. UNCHANGED <<from, entry, now>>
        BY <1>4 DEF Run, OpenWindow, Query, Store, Commit, BackOff, Release, Fails, Lose, rowVars
      <3>2. stored \subseteq stored'
        BY <1>4 DEF Run, OpenWindow, Query, Store, Commit, BackOff, Release, Fails, Lose, rowVars
      <3> QED  BY <3>1, <3>2
    <2>2. \A v \in Workers : v # w => worker'[v] = worker[v]
      BY <1>4 DEF Run, OpenWindow, Query, Store, Commit, BackOff, Release, Fails, Lose, Goto, Typed
    <2>3. worker'[w].pc # "open"
      <3>0. worker[w] \in WorkerStates
        BY DEF Typed
      <3>1. CASE OpenWindow(w) \/ Commit(w) \/ BackOff(w) \/ Fails(w)
        BY <3>0, <3>1 DEF OpenWindow, Commit, BackOff, Fails, Goto, Typed, WorkerStates
      <3>2. CASE Query(w)
        BY <3>0, <3>2 DEF Query, Goto, Typed, WorkerStates
      <3>3. CASE \E e \in Entries : Store(w, e)
        BY <3>0, <3>3 DEF Store, Goto, Typed, WorkerStates
      <3>4. CASE Release(w) \/ Lose(w)
        BY <3>4 DEF Release, Lose, Idle, Typed
      <3> QED  BY <1>4, <3>1, <3>2, <3>3, <3>4 DEF Run
    <2> QED  BY <1>2, <2>1, <2>2, <2>3
  <1>5. CASE ComesDue \/ LeaseElapses \/ UNCHANGED vars
    <2>1. UNCHANGED <<from, entry, now, stored, worker>>
      BY <1>5 DEF ComesDue, LeaseElapses, vars
    <2> QED  BY <1>2, <2>1
  <1>6. ASSUME \/ \E p \in Payments : CreatePayment(p)
               \/ \E e \in Entries, p \in Payments \cup {None} : Income(e, p)
               \/ \E e \in Entries : Appear(e)
               \/ Tick
        PROVE  UNCHANGED worker
    BY <1>6 DEF CreatePayment, Income, Appear, Tick
  <1> QED  BY <1>1, <1>3, <1>4, <1>5, <1>6 DEF Next

-----------------------------------------------------------------------------
(* What is not skipped.                                                    *)

\* A step that moves neither the cursor, the window nor the page skips nothing, if what
\* it makes wanted is ahead and what a worker holds stays with it until it is stored.
LEMMA QuietStep ==
    ASSUME Typed, Typed', Kept, Reading,
           state' # None => /\ state # None /\ state'.cursor = state.cursor
                            /\ state'.window = state.window /\ state'.page = state.page,
           \A w \in Workers : (worker'[w].pc = "store" /\ Owns(w)') =>
               /\ worker[w].pc = "store" /\ Owns(w) /\ worker'[w].window = worker[w].window
               /\ worker'[w].page = worker[w].page /\ worker'[w].complete = worker[w].complete
               /\ \A e \in Wanted' : e \in worker[w].todo => e \in worker'[w].todo,
           Visible \subseteq Visible', \A e \in Made : entry'[e].paidAt = entry[e].paidAt,
           \A e \in Wanted' : e \in Wanted \/ (state' # None => Ahead(e)')
    PROVE  Kept' /\ Reading'
  <1>1. ASSUME state' # None, NEW e \in Wanted', ~Ahead(e)'
        PROVE  /\ state.window # None /\ Behind(e, state.page - 1)'
               /\ \A w \in Workers : (worker'[w].pc = "store" /\ Owns(w)') =>
                     e \in worker'[w].todo \/ (~worker'[w].complete /\ Behind(e, state.page)')
    <2>1. e \in Wanted /\ e \in Made /\ state # None
      BY <1>1 DEF Wanted
    <2>2. ~Ahead(e)
      BY <1>1, <2>1 DEF Ahead
    <2>3. state.window # None /\ Behind(e, state.page - 1)
      BY <2>1, <2>2 DEF Kept
    <2>4. PICK m \in Int, n \in Int : m = state.page - 1 /\ n = state.page
      BY <2>1 DEF Typed, States
    <2>5. state'.window = state.window /\ m = state'.page - 1 /\ n = state'.page
      BY <1>1, <2>4
    <2>6. \A d \in Visible : entry'[d].paidAt = entry[d].paidAt
      BY DEF Visible, Made
    <2>7. Behind(e, m)'
      BY <2>3, <2>4, <2>5, <2>6, PagesGrow
    <2>8. Behind(e, n) => Behind(e, n)'
      BY <2>5, <2>6, PagesGrow
    <2>9. ASSUME NEW w \in Workers, worker'[w].pc = "store", Owns(w)'
          PROVE  e \in worker'[w].todo \/ (~worker'[w].complete /\ Behind(e, n)')
      <3>1. e \in worker[w].todo \/ (~worker[w].complete /\ Behind(e, state.page))
        BY <2>1, <2>2, <2>9 DEF Reading, HasItsPage
      <3> QED  BY <1>1, <2>4, <2>8, <2>9, <3>1
    <2>10. (Behind(e, n)' => Behind(e, state.page)') /\ Behind(e, state.page - 1)'
      BY <2>5, <2>7 DEF Behind
    <2> QED  BY <2>3, <2>9, <2>10
  <1>2. Kept'
    BY <1>1 DEF Kept
  <1>3. ASSUME NEW w \in Workers, worker'[w].pc = "store", Owns(w)'
        PROVE  /\ state'.window = worker'[w].window /\ state'.page = worker'[w].page
               /\ \A e \in Wanted' : Ahead(e)' \/ e \in worker'[w].todo
                                     \/ (~worker'[w].complete /\ Behind(e, state.page)')
    <2>1. state' # None
      BY <1>3 DEF Typed, Idle
    <2>2. state'.window = worker'[w].window /\ state'.page = worker'[w].page
      BY <1>3, <2>1 DEF Reading, HasItsPage
    <2> QED  BY <1>1, <1>3, <2>1, <2>2
  <1> QED  BY <1>2, <1>3 DEF Reading, HasItsPage

LEMMA LedgerKept ==
    ASSUME Typed, Typed', Timely, Kept, Reading,
           \/ \E p \in Payments : CreatePayment(p)
           \/ \E e \in Entries, p \in Payments \cup {None} : Income(e, p)
           \/ \E e \in Entries : Appear(e)
           \/ Tick
    PROVE  Kept' /\ Reading'
  <1>1. UNCHANGED <<state, worker>>
    BY DEF CreatePayment, Income, Appear, Tick, rowVars
  <1>2. /\ \A e \in Made : e \in Made' /\ entry'[e].payer = entry[e].payer
                           /\ entry'[e].paidAt = entry[e].paidAt
        /\ Visible \subseteq Visible'
        /\ \A e \in Wanted' : e \in Wanted \/ (e \notin Made /\ entry'[e].paidAt = Floor(now))
    BY LedgerWanted
  <1>3. ASSUME NEW e, entry'[e].paidAt = Floor(now), state # None
        PROVE  Ahead(e)'
    <2> DEFINE c == IF state.window = None THEN state.cursor ELSE state.window.end
    <2>1. c \in Int /\ c <= now
      BY <1>3, RowAssumption DEF Typed, Timely, States, Windows
    <2>2. c - OVERLAP \in Int /\ c - OVERLAP <= now /\ now \in Int
      BY <2>1, CollectorAssumption DEF Typed
    <2>3. Floor(c - OVERLAP) <= Floor(now) /\ Floor(c - OVERLAP) \in Int /\ Floor(now) \in Int
      <3> HIDE DEF c
      <3> QED  BY <2>2, FloorIsMonotone, FloorOf
    <2>4. Floor(now) >= Floor(c - OVERLAP)
      BY <2>3
    <2> QED  BY <1>1, <1>3, <2>4 DEF Ahead
  <1> QED  BY <1>1, <1>2, <1>3, QuietStep DEF Owns

\* A wanted entry is not before its payment, and so not before any demand the latter is in.
LEMMA NotBeforeDemand ==
    ASSUME Typed, Timely, NEW d \in Int, \A p \in Demanded : d <= from[p], NEW e \in Wanted
    PROVE  entry[e].paidAt >= Floor(d - OVERLAP)
  <1> DEFINE p == entry[e].payer
  <1>1. p \in Demanded /\ p \in Payments /\ e \in Made /\ from[p] # None
    BY DEF Wanted, Demanded
  <1>2. from[p] \in Int /\ d - OVERLAP \in Int /\ d - OVERLAP <= from[p] /\ entry[e].paidAt \in Int
    <2>1. OVERLAP \in Nat
      BY CollectorAssumption
    <2>2. from[p] \in Nat /\ d <= from[p]
      BY <1>1 DEF Typed
    <2>3. entry[e].paidAt \in Int
      BY <1>1 DEF Typed, Made, EntryRows
    <2> QED  BY <2>1, <2>2, <2>3
  <1>3. entry[e].paidAt >= Floor(from[p])
    <2>1. p # None
      <3>1. None \notin Int /\ Payments \subseteq Int
        BY CollectorAssumption
      <3> QED  BY <1>1, <3>1
    <2> QED  BY <1>1, <2>1 DEF Timely
  <1>4. Floor(d - OVERLAP) <= Floor(from[p]) /\ Floor(d - OVERLAP) \in Int /\ Floor(from[p]) \in Int
    BY <1>2, FloorIsMonotone, FloorOf
  <1> HIDE DEF p
  <1> QED  BY <1>2, <1>3, <1>4

LEMMA ClaimKept ==
    ASSUME Typed, Typed', Timely, Kept, Reading, NEW w \in Workers, Claim(w)
    PROVE  Kept' /\ Reading'
  <1>1. /\ UNCHANGED <<from, entry, now, stored>> /\ Demanded # {}
        /\ worker'[w].pc = "open" /\ \A v \in Workers : v # w => worker'[v] = worker[v]
    BY DEF Claim, Typed, Idle
  <1>2. Wanted' \subseteq Wanted /\ Visible' = Visible
    BY <1>1, WantedShrinks
  <1>3. CASE state = None
    <2>1. state' = [Fresh EXCEPT !.owner = w, !.lock = "held"]
      BY <1>3 DEF Claim
    <2>2. state'.cursor = collectionDemand /\ state'.window = None
      BY <2>1 DEF Fresh
    <2>3. \A e \in Wanted : entry[e].paidAt >= Floor(collectionDemand - OVERLAP)
      BY <1>1, DemandOf, NotBeforeDemand
    <2>4. Kept'
      BY <1>1, <1>2, <2>2, <2>3 DEF Kept, Ahead
    <2>5. \A v \in Workers : worker'[v].pc # "store"
      BY <1>1, <1>3 DEF Typed, Idle
    <2> QED  BY <2>4, <2>5 DEF Reading, HasItsPage
  <1>4. CASE state # None
    <2>1. state \in States /\ state' = [state EXCEPT !.owner = w, !.lock = "held"]
      BY <1>4 DEF Claim, Typed
    <2>2. /\ state'.cursor = state.cursor /\ state'.window = state.window /\ state'.page = state.page
          /\ state'.owner = w
      BY <2>1 DEF States
    <2>3. \A v \in Workers : ~(worker'[v].pc = "store" /\ Owns(v)')
      BY <1>1, <2>2 DEF Owns
    <2> QED  BY <1>1, <1>2, <1>4, <2>2, <2>3, QuietStep
  <1> QED  BY <1>3, <1>4

\* When a window is opened, what the ledger still holds back is not before the next one,
\* and the rest of what is wanted is in this one or not before the next one either.
LEMMA NothingBeforeWindow ==
    ASSUME Typed, Timely, MaxDelay <= OVERLAP + LAG,
           NEW c \in Int, NEW x \in Windows, x = collectorWindow(c),
           NEW e \in Wanted, entry[e].paidAt >= Floor(c - OVERLAP)
    PROVE  \/ entry[e].paidAt >= Floor(x.end - OVERLAP)
           \/ e \in Visible /\ Floor(x.start) <= entry[e].paidAt /\ entry[e].paidAt < Floor(x.end)
  <1>1. x.start = c - OVERLAP /\ x.end \in Int /\ x.end <= now - LAG /\ x.end <= now
    BY WindowOf
  <1>2. OVERLAP \in Nat /\ LAG \in Nat /\ MaxDelay \in Nat /\ now \in Nat
    BY CollectorAssumption DEF Typed
  <1>3. e \in Made /\ e \in Entries /\ entry[e].paidAt \in Int
    BY DEF Wanted, Made, Typed, EntryRows
  <1>4. /\ Floor(x.end - OVERLAP) \in Int /\ Floor(x.end) \in Int /\ Floor(now) \in Int
        /\ Floor(c - OVERLAP) \in Int
        /\ Floor(x.end - OVERLAP) <= Floor(x.end) /\ Floor(x.end) <= Floor(now)
        /\ Floor(x.end - OVERLAP) <= x.end - OVERLAP
    <2>1. x.end - OVERLAP \in Int /\ x.end - OVERLAP <= x.end /\ now \in Int /\ c - OVERLAP \in Int
      BY <1>1, <1>2
    <2> QED  BY <1>1, <2>1, FloorOf, FloorIsMonotone
  <1>5. CASE entry[e].visible
    <2>1. e \in Visible
      BY <1>3, <1>5 DEF Visible, Made
    <2> QED  BY <1>1, <1>3, <1>4, <2>1
  <1>6. CASE ~entry[e].visible
    <2>1. now <= entry[e].paidAt + MaxDelay \/ entry[e].paidAt = Floor(now)
      BY <1>3, <1>6 DEF Timely
    <2>2. CASE now <= entry[e].paidAt + MaxDelay
      BY <1>1, <1>2, <1>3, <1>4, <2>2
    <2>3. CASE entry[e].paidAt = Floor(now)
      BY <1>3, <1>4, <2>3
    <2> QED  BY <2>1, <2>2, <2>3
  <1> QED  BY <1>5, <1>6

LEMMA OpenWindowKept ==
    ASSUME Typed, Typed', Timely, Known, Kept, Reading, MaxDelay <= OVERLAP + LAG,
           NEW w \in Workers, OpenWindow(w)
    PROVE  Kept' /\ Reading'
  <1>0. PICK c : c = IF state.cursor < worker[w].demand THEN worker[w].demand ELSE state.cursor
    OBVIOUS
  <1>1. PICK x : x = collectorWindow(c)
    OBVIOUS
  <1>2. worker[w].pc = "open" /\ UNCHANGED <<from, entry, now, stored>>
    BY DEF OpenWindow
  <1>3. state \in States /\ worker[w].demand \in Int
    BY <1>2, BusyHasRow DEF Typed
  <1>4. PICK pc \in {"query", "failed", "release"} : Goto(w, pc)
    BY DEF OpenWindow
  <1>5. worker'[w].pc # "store" /\ \A v \in Workers : v # w => worker'[v] = worker[v]
    BY <1>4, GotoType
  <1>6. Wanted' \subseteq Wanted /\ Visible' = Visible
    BY <1>2, WantedShrinks
  <1>7. CASE state' = state
    BY <1>2, <1>3, <1>5, <1>6, <1>7, RowAssumption, QuietStep DEF Owns
  <1>8. CASE state' # state
    <2>1. /\ Owns(w) /\ state.window = None
          /\ \/ state' = [state EXCEPT !.cursor = c]
             \/ state' = [state EXCEPT !.cursor = c, !.window = x, !.page = 1]
      BY <1>0, <1>1, <1>8 DEF OpenWindow
    <2>2. c \in Int /\ c - OVERLAP \in Int
      BY <1>0, <1>3, CollectorAssumption DEF States
    <2>3. ASSUME NEW e \in Wanted
          PROVE  entry[e].paidAt >= Floor(c - OVERLAP)
      <3>1. entry[e].paidAt >= Floor(state.cursor - OVERLAP)
        BY <1>3, <2>1, RowAssumption DEF Kept, Ahead
      <3>2. entry[e].paidAt >= Floor(worker[w].demand - OVERLAP)
        BY <1>2, <1>3, NotBeforeDemand DEF Known
      <3> QED  BY <1>0, <3>1, <3>2
    <2>4. state'.owner = w
      BY <1>3, <2>1 DEF Owns, States
    <2>5. Reading'
      BY <1>5, <2>4 DEF Reading, HasItsPage, Owns
    <2>6. CASE state' = [state EXCEPT !.cursor = c]
      <3>1. state'.cursor = c /\ state'.window = None
        BY <1>3, <2>1, <2>6 DEF States
      <3>2. Kept'
        BY <1>2, <1>6, <2>3, <3>1 DEF Kept, Ahead
      <3> QED  BY <2>5, <3>2
    <2>7. CASE state' = [state EXCEPT !.cursor = c, !.window = x, !.page = 1]
      <3>1. state'.window = x /\ state'.page = 1 /\ x \in Windows
        <4>1. now - LAG \in Int /\ c + SPAN \in Int
          BY <2>2, CollectorAssumption DEF Typed
        <4>2. x \in Windows
          BY <1>1, <2>2, <4>1, LeastOfTwo DEF collectorWindow, Windows
        <4> QED  BY <1>3, <2>7, <4>2 DEF States
      <3>2. x # None
        BY <3>1, RowAssumption
      <3>3. ASSUME NEW e \in Wanted'
            PROVE  Ahead(e)' \/ Behind(e, state.page - 1)'
        <4>1. e \in Wanted
          BY <1>6, <3>3
        <4>2. \/ entry[e].paidAt >= Floor(x.end - OVERLAP)
              \/ e \in Visible /\ Floor(x.start) <= entry[e].paidAt /\ entry[e].paidAt < Floor(x.end)
          BY <1>1, <2>2, <2>3, <3>1, <4>1, NothingBeforeWindow
        <4>3. CASE entry[e].paidAt >= Floor(x.end - OVERLAP)
          BY <1>2, <3>1, <3>2, <4>3 DEF Ahead
        <4>4. CASE e \in Visible /\ Floor(x.start) <= entry[e].paidAt /\ entry[e].paidAt < Floor(x.end)
          <5>1. e \in InWindow'
            BY <1>2, <1>6, <3>1, <4>4 DEF InWindow
          <5>2. Cardinality(Before(e)') \in Nat
            <6>1. Before(e)' \subseteq Entries
              BY DEF Before, InWindow, Visible
            <6> QED  BY <6>1, CollectorAssumption, FS_Subset, FS_CardinalityType
          <5>3. (state.page - 1)' * PAGE_SIZE = 0
            <6>1. PAGE_SIZE \in Nat
              BY CollectorAssumption
            <6> QED  BY <3>1, <6>1
          <5> QED  BY <5>1, <5>2, <5>3 DEF Behind
        <4> QED  BY <4>2, <4>3, <4>4
      <3>4. Kept'
        BY <3>1, <3>2, <3>3 DEF Kept
      <3> QED  BY <2>5, <3>4
    <2> QED  BY <2>1, <2>6, <2>7
  <1> QED  BY <1>7, <1>8

LEMMA QueryKept ==
    ASSUME Typed, Typed', Kept, Reading, NEW w \in Workers, Query(w)
    PROVE  Kept' /\ Reading'
  <1>1. worker[w].pc = "query" /\ UNCHANGED <<from, entry, now, stored, state>>
    BY DEF Query, rowVars
  <1>2. Wanted' \subseteq Wanted /\ Visible' = Visible
    BY <1>1, WantedShrinks
  <1>3. state \in States /\ state # None
    BY <1>1, BusyHasRow, RowAssumption
  <1>4. CASE ~(Holds(w) /\ state.window # None)
    <2>1. Goto(w, "failed")
      BY <1>4 DEF Query
    <2>2. worker'[w].pc = "failed" /\ \A v \in Workers : v # w => worker'[v] = worker[v]
      BY <2>1, GotoType
    <2> QED  BY <1>1, <1>2, <1>3, <2>2, QuietStep DEF Owns
  <1>5. CASE Holds(w) /\ state.window # None
    <2>1. /\ worker'[w].window = state.window /\ worker'[w].page = state.page
          /\ worker'[w].todo = Page(state.page)
          /\ worker'[w].complete = (state.page * PAGE_SIZE >= Cardinality(InWindow))
          /\ \A v \in Workers : v # w => worker'[v] = worker[v]
      BY <1>5 DEF Query, Typed
    <2>2. PICK n \in Nat \ {0} : n = state.page
      BY <1>3 DEF States
    <2>3. InWindow' = InWindow /\ \A e : Before(e)' = Before(e)
      <3>1. InWindow' = InWindow
        BY <1>1, <1>2 DEF InWindow
      <3> QED  BY <3>1 DEF Before
    <2>4. \A e, m : Behind(e, m)' <=> Behind(e, m)
      BY <2>3 DEF Behind
    <2>5. \A e : Ahead(e)' <=> Ahead(e)
      BY <1>1 DEF Ahead
    <2>6. Kept'
      <3> SUFFICES ASSUME NEW e \in Wanted', ~Ahead(e)'
                   PROVE  state.window # None /\ Behind(e, state.page - 1)'
        BY <1>1 DEF Kept
      <3>1. Behind(e, state.page - 1)
        BY <1>2, <1>3, <2>5 DEF Kept
      <3> QED  BY <1>1, <1>5, <2>3, <3>1 DEF Behind
    <2>7. ASSUME NEW e \in Wanted', ~Ahead(e)'
          PROVE  e \in worker'[w].todo \/ (~worker'[w].complete /\ Behind(e, state.page)')
      <3>1. Behind(e, state.page - 1)
        BY <1>2, <1>3, <2>5, <2>7 DEF Kept
      <3>2. e \in InWindow /\ Cardinality(Before(e)) >= (n - 1) * PAGE_SIZE
        BY <2>2, <3>1 DEF Behind
      <3>3. CASE Cardinality(Before(e)) < n * PAGE_SIZE
        <4>1. (n - 1) * PAGE_SIZE <= Cardinality(Before(e))
          <5>1. (n - 1) * PAGE_SIZE \in Int
            BY CollectorAssumption
          <5> QED  BY <3>2, <5>1, RankType
        <4>2. e \in Page(n)
          BY <3>2, <3>3, <4>1 DEF Page
        <4> QED  BY <2>1, <2>2, <4>2
      <3>4. CASE ~(Cardinality(Before(e)) < n * PAGE_SIZE)
        <4>1. n * PAGE_SIZE \in Int /\ Cardinality(Before(e)) >= n * PAGE_SIZE
          <5>1. n * PAGE_SIZE \in Int
            BY CollectorAssumption
          <5> QED  BY <3>4, <5>1, RankType
        <4>2. Cardinality(Before(e)) < Cardinality(InWindow)
          <5>1. Before(e) \subseteq InWindow /\ e \notin Before(e)
            <6>1. ~(e < e)
              BY <3>2, CollectorAssumption DEF InWindow, Visible
            <6> QED  BY <6>1 DEF Before
          <5>2. /\ Cardinality(Before(e)) <= Cardinality(InWindow)
                /\ Cardinality(InWindow) = Cardinality(Before(e)) => InWindow = Before(e)
            BY <5>1, RankType, FS_Subset
          <5>3. Cardinality(InWindow) \in Nat /\ Cardinality(Before(e)) \in Nat
            BY RankType, FS_CardinalityType
          <5> QED  BY <3>2, <5>1, <5>2, <5>3
        <4>3. Cardinality(InWindow) \in Nat /\ Cardinality(Before(e)) \in Nat
          BY RankType, FS_CardinalityType
        <4>4. ~(n * PAGE_SIZE >= Cardinality(InWindow))
          BY <4>1, <4>2, <4>3
        <4>5. ~worker'[w].complete
          BY <2>1, <2>2, <4>4
        <4>6. Behind(e, state.page)'
          BY <1>1, <2>2, <2>3, <3>2, <4>1 DEF Behind
        <4> QED  BY <4>5, <4>6
      <3> QED  BY <3>3, <3>4
    <2>8. ASSUME NEW v \in Workers, worker'[v].pc = "store", Owns(v)'
          PROVE  v = w
      BY <1>1, <1>5, <2>8 DEF Holds, Owns
    <2>9. Reading'
      BY <1>1, <2>1, <2>7, <2>8 DEF Reading, HasItsPage
    <2> QED  BY <2>6, <2>9
  <1> QED  BY <1>4, <1>5

LEMMA StoreKept ==
    ASSUME Typed, Typed', Kept, Reading, NEW w \in Workers, NEW e \in Entries, Store(w, e)
    PROVE  Kept' /\ Reading'
  <1>1. /\ worker[w].pc = "store" /\ e \in worker[w].todo
        /\ UNCHANGED <<from, entry, now, state>> /\ stored \subseteq stored'
    BY DEF Store, rowVars
  <1>2. Wanted' \subseteq Wanted /\ Visible' = Visible
    BY <1>1, WantedShrinks
  <1>3. state # None
    BY <1>1, BusyHasRow, RowAssumption
  <1>4. CASE Goto(w, "failed")
    <2>1. worker'[w].pc = "failed" /\ \A v \in Workers : v # w => worker'[v] = worker[v]
      BY <1>4, GotoType
    <2> QED  BY <1>1, <1>2, <1>3, <2>1, QuietStep DEF Owns
  <1>5. CASE worker' = [worker EXCEPT ![w].todo = @ \ {e}] /\ stored' = stored \cup {e}
    <2>1. /\ \A v \in Workers : v # w => worker'[v] = worker[v]
          /\ worker'[w].pc = "store" /\ worker'[w].window = worker[w].window
          /\ worker'[w].page = worker[w].page /\ worker'[w].complete = worker[w].complete
          /\ worker'[w].todo = worker[w].todo \ {e}
      BY <1>1, <1>5 DEF Typed, WorkerStates
    <2>2. e \notin Wanted'
      BY <1>1, <1>5 DEF Wanted, Demanded, Paid
    <2> QED  BY <1>1, <1>2, <1>3, <2>1, <2>2, QuietStep DEF Owns
  <1> QED  BY <1>4, <1>5 DEF Store

LEMMA CommitKept ==
    ASSUME Typed, Typed', Kept, Reading, NEW w \in Workers, Commit(w)
    PROVE  Kept' /\ Reading'
  <1>1. /\ worker[w].pc = "store" /\ UNCHANGED <<from, entry, now, stored>>
    BY DEF Commit
  <1>2. Wanted' \subseteq Wanted /\ Visible' = Visible
    BY <1>1, WantedShrinks
  <1>3. PICK pc \in {"query", "failed", "release"} : Goto(w, pc)
    BY DEF Commit
  <1>4. worker'[w].pc # "store" /\ \A v \in Workers : v # w => worker'[v] = worker[v]
    BY <1>3, GotoType
  <1>5. state # None
    BY <1>1, BusyHasRow, RowAssumption
  <1>6. CASE ~Holds(w)
    <2>1. state' = state
      BY <1>6 DEF Commit
    <2> QED  BY <1>1, <1>2, <1>4, <1>5, <2>1, QuietStep DEF Owns
  <1>7. CASE Holds(w)
    <2>1. /\ state \in States /\ worker[w].todo = {}
          /\ state.window = worker[w].window /\ state.page = worker[w].page
          /\ worker[w].window \in Windows /\ worker[w].window # None
          /\ state' = IF worker[w].complete
                      THEN [state EXCEPT !.cursor = worker[w].window.end, !.window = None, !.page = 1]
                      ELSE [state EXCEPT !.page = worker[w].page + 1]
      BY <1>7, CommitRow, RowAssumption DEF Reading
    <2>2. Owns(w) /\ state'.owner = w
      BY <1>7, <2>1 DEF Holds, Owns, States
    <2>3. Reading'
      BY <1>4, <2>2 DEF Reading, HasItsPage, Owns
    <2>4. \A e \in Wanted : Ahead(e) \/ (~worker[w].complete /\ Behind(e, state.page))
      BY <1>1, <2>1, <2>2 DEF Reading, HasItsPage
    <2>5. CASE worker[w].complete
      <3>1. state'.cursor = state.window.end /\ state'.window = None
        BY <2>1, <2>5 DEF States
      <3>2. \A e \in Wanted : Ahead(e)'
        BY <1>1, <2>1, <2>4, <2>5, <3>1 DEF Ahead
      <3> QED  BY <1>2, <2>3, <3>2 DEF Kept
    <2>6. CASE ~worker[w].complete
      <3>1. PICK n \in Int : n = state.page
        BY <2>1 DEF States
      <3>2. state'.window = state.window /\ state'.page = n + 1
        BY <2>1, <2>6, <3>1 DEF States
      <3>3. InWindow' = InWindow
        BY <1>1, <1>2, <3>2 DEF InWindow
      <3>4. ASSUME NEW e \in Wanted, Behind(e, state.page)
            PROVE  Behind(e, state.page - 1)'
        <4>1. e \in InWindow /\ Cardinality(Before(e)) >= n * PAGE_SIZE
          BY <3>1, <3>4 DEF Behind
        <4>2. Before(e)' = Before(e) /\ state'.page - 1 = n
          BY <3>2, <3>3 DEF Before
        <4> QED  BY <3>3, <4>1, <4>2 DEF Behind
      <3>5. \A e \in Wanted : Ahead(e) => Ahead(e)'
        BY <1>1, <2>1, <3>2 DEF Ahead
      <3> QED  BY <1>2, <2>1, <2>3, <2>4, <3>2, <3>4, <3>5 DEF Kept
    <2> QED  BY <2>5, <2>6
  <1> QED  BY <1>6, <1>7

LEMMA EndKept ==
    ASSUME Typed, Typed', Kept, Reading,
           NEW w \in Workers, BackOff(w) \/ Release(w) \/ Fails(w) \/ Lose(w)
    PROVE  Kept' /\ Reading'
  <1>1. worker[w] # Idle /\ UNCHANGED <<from, entry, now, stored>>
    BY DEF BackOff, Release, Fails, Lose, Idle, rowVars
  <1>2. Wanted' \subseteq Wanted /\ Visible' = Visible
    BY <1>1, WantedShrinks
  <1>3. state \in States /\ state # None
    BY <1>1, RowAssumption DEF Typed
  <1>4. worker'[w].pc # "store" /\ \A v \in Workers : v # w => worker'[v] = worker[v]
    <2>1. CASE worker' = [worker EXCEPT ![w] = Idle]
      BY <2>1 DEF Typed, Idle
    <2>2. CASE Goto(w, "failed") \/ Goto(w, "release")
      BY <2>2, GotoType
    <2> QED  BY <2>1, <2>2 DEF BackOff, Release, Fails, Lose
  <1>5. CASE state' = state
    BY <1>1, <1>2, <1>3, <1>4, <1>5, QuietStep DEF Owns
  <1>6. CASE state' = [state EXCEPT !.owner = None, !.lock = "null"]
    <2>1. /\ state'.cursor = state.cursor /\ state'.window = state.window /\ state'.page = state.page
          /\ state'.owner = None
      BY <1>3, <1>6 DEF States
    <2>2. \A v \in Workers : ~Owns(v)'
      <3>1. None \notin Workers
        BY CollectorAssumption
      <3> QED  BY <2>1, <3>1 DEF Owns
    <2> QED  BY <1>1, <1>2, <1>3, <2>1, <2>2, QuietStep
  <1> QED  BY <1>5, <1>6 DEF BackOff, Release, Fails, Lose, rowVars

LEMMA LeaseKept ==
    ASSUME Typed, Typed', Kept, Reading, LeaseElapses
    PROVE  Kept' /\ Reading'
  <1>1. UNCHANGED <<from, entry, stored, worker, now>> /\ state # None
        /\ state' = [state EXCEPT !.lock = "past"]
    BY DEF LeaseElapses
  <1>2. /\ state'.cursor = state.cursor /\ state'.window = state.window /\ state'.page = state.page
        /\ state'.owner = state.owner
    BY <1>1 DEF Typed, States
  <1>3. Wanted' \subseteq Wanted /\ Visible' = Visible
    BY <1>1, WantedShrinks
  <1> QED  BY <1>1, <1>2, <1>3, QuietStep DEF Owns

LEMMA KeptStep ==
    ASSUME Typed, Typed', Timely, Known, Kept, Reading, MaxDelay <= OVERLAP + LAG, [Next]_vars
    PROVE  Kept' /\ Reading'
  <1>1. CASE ComesDue \/ UNCHANGED vars
    <2>1. UNCHANGED <<from, entry, stored, state, worker, now>>
      BY <1>1 DEF ComesDue, vars, rowVars
    <2>2. Wanted' \subseteq Wanted /\ Visible' = Visible
      BY <2>1, WantedShrinks
    <2> QED  BY <2>1, <2>2, QuietStep DEF Owns
  <1> QED  BY <1>1, LedgerKept, ClaimKept, OpenWindowKept, QueryKept, StoreKept, CommitKept,
              EndKept, LeaseKept DEF Next, Run

-----------------------------------------------------------------------------
(* The row: its lease, and the order of the windows.                       *)

\* The row is leased exactly while it has an owner, the pages of a window are counted
\* from one, and a window ends after the cursor.
Ordered ==
    state # None =>
        /\ state.owner = None <=> state.lock = "null"
        /\ state.page > 1 => state.window # None
        /\ state.window # None => state.cursor < state.window.end

\* Someone gets the row, loses its lease or gives it back.
LeaseMoves ==
    /\ state'.cursor = state.cursor /\ state'.window = state.window /\ state'.page = state.page
    /\ \/ state'.owner \in Workers /\ state'.lock = "held"
       \/ state'.owner = state.owner /\ state.lock = "held" /\ state'.lock = "past"
       \/ state'.owner = None /\ state'.lock = "null"

\* The cursor skips idle history, with or without a window at its end.
WindowOpens ==
    /\ state'.owner = state.owner /\ state'.lock = state.lock
    /\ state.window = None /\ state.cursor <= state'.cursor
    /\ \/ state'.window = None /\ state'.page = state.page
       \/ state'.window # None /\ state'.page = 1 /\ state'.cursor < state'.window.end

\* A page of the window is done, or its last one.
WindowGoesOn ==
    /\ state'.owner = state.owner /\ state'.lock = state.lock
    /\ state.window # None
    /\ \/ state'.window = None /\ state'.page = 1 /\ state'.cursor = state.window.end
       \/ state'.window = state.window /\ state'.page = state.page + 1 /\ state'.cursor = state.cursor

RowBegins ==
    /\ state = None /\ state' # None
    /\ state'.window = None /\ state'.page = 1 /\ state'.owner \in Workers /\ state'.lock = "held"

LEMMA ClaimMoves ==
    ASSUME Typed, Typed', NEW w \in Workers, Claim(w)
    PROVE  RowBegins \/ (state # None /\ LeaseMoves)
  <1>1. CASE state = None
    <2>1. state' = [Fresh EXCEPT !.owner = w, !.lock = "held"]
      BY <1>1 DEF Claim
    <2>2. /\ state'.window = None /\ state'.page = 1 /\ state'.owner = w /\ state'.lock = "held"
      BY <2>1 DEF Fresh
    <2>3. state' # None
      <3>1. worker' = [worker EXCEPT ![w] = [Idle EXCEPT !.pc = "open", !.demand = collectionDemand]]
        BY DEF Claim
      <3>2. worker'[w].pc = "open" /\ worker'[w] # Idle
        BY <3>1 DEF Typed, Idle
      <3> QED  BY <3>2 DEF Typed
    <2> QED  BY <1>1, <2>2, <2>3 DEF RowBegins
  <1>2. CASE state # None
    <2>1. state \in States /\ state' = [state EXCEPT !.owner = w, !.lock = "held"]
      BY <1>2 DEF Claim, Typed
    <2> QED  BY <1>2, <2>1 DEF LeaseMoves, States
  <1> QED  BY <1>1, <1>2

LEMMA OpenWindowMoves ==
    ASSUME Typed, NEW w \in Workers, OpenWindow(w)
    PROVE  UNCHANGED state \/ (state # None /\ WindowOpens)
  <1> DEFINE cursor == IF state.cursor < worker[w].demand THEN worker[w].demand ELSE state.cursor
             window == collectorWindow(cursor)
  <1>1. worker[w].pc = "open"
    BY DEF OpenWindow
  <1>2. state \in States /\ worker[w].demand \in Nat
    BY <1>1, BusyHasRow DEF Typed
  <1>3. cursor \in Int /\ state.cursor <= cursor
    BY <1>2 DEF States
  <1>4. window.end \in Int /\ window \in Windows
    <2> HIDE DEF cursor
    <2>1. window.start = cursor - OVERLAP /\ window.end \in Int
      BY <1>3, WindowOf
    <2>2. cursor - OVERLAP \in Int
      BY <1>3, CollectorAssumption
    <2> QED  BY <2>1, <2>2 DEF collectorWindow, Windows
  <1>5. \/ UNCHANGED state
        \/ state.window = None /\ state' = [state EXCEPT !.cursor = cursor]
        \/ /\ state.window = None /\ ~(window.end <= cursor)
           /\ state' = [state EXCEPT !.cursor = cursor, !.window = window, !.page = 1]
    BY DEF OpenWindow
  <1>6. state # None /\ window # None
    BY <1>2, <1>4, RowAssumption
  <1> HIDE DEF cursor, window
  <1>7. ~(window.end <= cursor) => cursor < window.end
    BY <1>3, <1>4
  <1> QED  BY <1>2, <1>3, <1>5, <1>6, <1>7 DEF WindowOpens, States

LEMMA CommitMoves ==
    ASSUME Typed, Typed', HasItsPage, NEW w \in Workers, Commit(w)
    PROVE  UNCHANGED state \/ (state # None /\ WindowGoesOn)
  <1>1. CASE ~Holds(w)
    BY <1>1 DEF Commit
  <1>2. CASE Holds(w)
    <2>1. /\ state \in States /\ state.window \in Windows
          /\ \/ state' = [state EXCEPT !.cursor = state.window.end, !.window = None, !.page = 1]
             \/ state' = [state EXCEPT !.page = state.page + 1]
      BY <1>2, CommitRow
    <2>2. state # None /\ state.window # None
      BY <2>1, RowAssumption
    <2> QED  BY <2>1, <2>2 DEF WindowGoesOn, States
  <1> QED  BY <1>1, <1>2

LEMMA EndMoves ==
    ASSUME Typed, LeaseElapses \/ \E w \in Workers : Release(w)
    PROVE  UNCHANGED state \/ (state # None /\ LeaseMoves)
  <1>1. CASE LeaseElapses
    <2>1. state # None /\ state.lock = "held" /\ state' = [state EXCEPT !.lock = "past"]
      BY <1>1 DEF LeaseElapses
    <2> QED  BY <2>1 DEF Typed, States, LeaseMoves
  <1>2. ASSUME NEW w \in Workers, Release(w)
        PROVE  UNCHANGED state \/ (state # None /\ LeaseMoves)
    <2>1. state \in States
      <3>1. worker[w].pc # "idle"
        BY <1>2 DEF Release
      <3> QED  BY <3>1, BusyHasRow
    <2>2. state' = state \/ state' = [state EXCEPT !.owner = None, !.lock = "null"]
      BY <1>2 DEF Release
    <2> QED  BY <2>1, <2>2, RowAssumption DEF LeaseMoves, States
  <1> QED  BY <1>1, <1>2

\* What a step may do to the row.
LEMMA RowMoves ==
    ASSUME Typed, Typed', HasItsPage, [Next]_vars
    PROVE  \/ UNCHANGED state \/ RowBegins
           \/ state # None /\ (LeaseMoves \/ WindowOpens \/ WindowGoesOn)
  <1>1. ASSUME \/ \E p \in Payments : CreatePayment(p)
               \/ \E e \in Entries, p \in Payments \cup {None} : Income(e, p)
               \/ \E e \in Entries : Appear(e)
               \/ ComesDue \/ Tick \/ UNCHANGED vars
        PROVE  UNCHANGED state
    BY <1>1 DEF CreatePayment, Income, Appear, ComesDue, Tick, vars, rowVars
  <1>2. ASSUME NEW w \in Workers,
               Query(w) \/ (\E e \in Entries : Store(w, e)) \/ BackOff(w) \/ Fails(w) \/ Lose(w)
        PROVE  UNCHANGED state
    BY <1>2 DEF Query, Store, BackOff, Fails, Lose, rowVars
  <1> QED  BY <1>1, <1>2, ClaimMoves, OpenWindowMoves, CommitMoves, EndMoves DEF Next, Run

LEMMA OrderedStep ==
    ASSUME Typed, Typed', HasItsPage, Ordered, [Next]_vars
    PROVE  Ordered'
  <1>1. None \notin Workers
    BY CollectorAssumption
  <1>2. CASE UNCHANGED state
    BY <1>2 DEF Ordered
  <1>3. CASE RowBegins
    BY <1>1, <1>3 DEF RowBegins, Ordered
  <1>4. CASE state # None /\ LeaseMoves
    BY <1>1, <1>4 DEF LeaseMoves, Ordered
  <1>5. CASE state # None /\ WindowOpens
    BY <1>5 DEF WindowOpens, Ordered
  <1>6. CASE state # None /\ WindowGoesOn
    BY <1>6 DEF WindowGoesOn, Ordered
  <1> QED  BY <1>2, <1>3, <1>4, <1>5, <1>6, RowMoves

\* Who claims the row has no page yet, who moves its window has none any more.
LEMMA PageLeft ==
    ASSUME NEW w \in Workers, state'.owner \in {w, None}, worker'[w].pc # "store"
    PROVE  HasItsPage'
  <1>1. None \notin Workers
    BY CollectorAssumption
  <1> QED  BY <1>1 DEF HasItsPage, Owns

LEMMA PageStays ==
    ASSUME HasItsPage, NEW w \in Workers, \A v \in Workers : v # w => worker'[v] = worker[v],
           state'.window = state.window, state'.page = state.page, state'.owner = state.owner,
           worker'[w].pc = "store" =>
               \/ worker'[w].window = state.window /\ worker'[w].page = state.page
               \/ /\ worker[w].pc = "store"
                  /\ worker'[w].window = worker[w].window /\ worker'[w].page = worker[w].page
    PROVE  HasItsPage'
  BY DEF HasItsPage, Owns

LEMMA HasItsPageStep ==
    ASSUME Typed, Typed', HasItsPage, [Next]_vars
    PROVE  HasItsPage'
  <1>1. ASSUME UNCHANGED <<state, worker>>
        PROVE  HasItsPage'
    BY <1>1 DEF HasItsPage, Owns
  <1>2. ASSUME \/ \E p \in Payments : CreatePayment(p)
               \/ \E e \in Entries, p \in Payments \cup {None} : Income(e, p)
               \/ \E e \in Entries : Appear(e)
               \/ ComesDue \/ Tick \/ UNCHANGED vars
        PROVE  UNCHANGED <<state, worker>>
    BY <1>2 DEF CreatePayment, Income, Appear, ComesDue, Tick, vars, rowVars
  <1>3. CASE LeaseElapses
    <2>1. state # None /\ state' = [state EXCEPT !.lock = "past"] /\ worker' = worker
      BY <1>3 DEF LeaseElapses
    <2>2. state'.window = state.window /\ state'.page = state.page /\ state'.owner = state.owner
      BY <2>1 DEF Typed, States
    <2> QED  BY <2>1, <2>2 DEF HasItsPage, Owns
  <1>4. ASSUME NEW w \in Workers, Claim(w)
        PROVE  HasItsPage'
    <2> DEFINE row == IF state = None THEN Fresh ELSE state
    <2>1. /\ state' = [row EXCEPT !.owner = w, !.lock = "held"]
          /\ worker' = [worker EXCEPT ![w] = [Idle EXCEPT !.pc = "open", !.demand = collectionDemand]]
      BY <1>4 DEF Claim
    <2>2. worker'[w].pc = "open"
      BY <2>1 DEF Typed, Idle
    <2>3. state'.owner = w
      BY <2>1 DEF Typed, Fresh, States
    <2> QED  BY <2>2, <2>3, PageLeft
  <1>5. ASSUME NEW w \in Workers, OpenWindow(w)
        PROVE  HasItsPage'
    <2>1. worker[w].pc = "open" /\ \E pc \in {"query", "failed", "release"} : Goto(w, pc)
      BY <1>5 DEF OpenWindow
    <2>2. worker'[w].pc # "store" /\ \A v \in Workers : v # w => worker'[v] = worker[v]
      BY <2>1, GotoType
    <2>3. state \in States
      BY <2>1, BusyHasRow
    <2>4. state' = state \/ (Owns(w) /\ state'.owner = state.owner)
      <3>1. \/ state' = state
            \/ Owns(w) /\ \E c : state' = [state EXCEPT !.cursor = c]
            \/ Owns(w) /\ \E c, x : state' = [state EXCEPT !.cursor = c, !.window = x, !.page = 1]
        BY <1>5 DEF OpenWindow
      <3> QED  BY <2>3, <3>1 DEF States
    <2> QED  BY <2>2, <2>4, PageLeft, PageStays DEF Owns
  <1>6. ASSUME NEW w \in Workers, Query(w)
        PROVE  HasItsPage'
    <2>1. state' = state
      BY <1>6 DEF Query, rowVars
    <2>2. CASE Holds(w) /\ state.window # None
      <3>1. /\ worker'[w].window = state.window /\ worker'[w].page = state.page
            /\ \A v \in Workers : v # w => worker'[v] = worker[v]
        BY <1>6, <2>2 DEF Query, Typed
      <3> QED  BY <2>1, <3>1, PageStays
    <2>3. CASE Goto(w, "failed")
      BY <2>1, <2>3, GotoType, PageStays
    <2> QED  BY <1>6, <2>2, <2>3 DEF Query
  <1>7. ASSUME NEW w \in Workers, NEW e \in Entries, Store(w, e)
        PROVE  HasItsPage'
    <2>1. state' = state /\ worker[w].pc = "store"
      BY <1>7 DEF Store, rowVars
    <2>2. CASE worker' = [worker EXCEPT ![w].todo = @ \ {e}]
      <3>1. /\ worker'[w].window = worker[w].window /\ worker'[w].page = worker[w].page
            /\ \A v \in Workers : v # w => worker'[v] = worker[v]
        BY <2>2 DEF Typed, WorkerStates
      <3> QED  BY <2>1, <3>1, PageStays
    <2>3. CASE Goto(w, "failed")
      BY <2>1, <2>3, GotoType, PageStays
    <2> QED  BY <1>7, <2>2, <2>3 DEF Store
  <1>8. ASSUME NEW w \in Workers, Commit(w)
        PROVE  HasItsPage'
    <2>1. \E pc \in {"query", "failed", "release"} : Goto(w, pc)
      BY <1>8 DEF Commit
    <2>2. worker'[w].pc # "store" /\ \A v \in Workers : v # w => worker'[v] = worker[v]
      BY <2>1, GotoType
    <2>3. CASE ~Holds(w)
      <3>1. state' = state
        BY <1>8, <2>3 DEF Commit
      <3> QED  BY <2>2, <3>1, PageStays
    <2>4. CASE Holds(w)
      <3>1. state'.owner = w
        BY <1>8, <2>4, CommitRow DEF Holds, Owns, States
      <3> QED  BY <2>2, <3>1, PageLeft
    <2> QED  BY <2>3, <2>4
  <1>9. ASSUME NEW w \in Workers, BackOff(w) \/ Release(w) \/ Fails(w) \/ Lose(w)
        PROVE  HasItsPage'
    <2>1. worker'[w].pc # "store" /\ \A v \in Workers : v # w => worker'[v] = worker[v]
      <3>1. CASE worker' = [worker EXCEPT ![w] = Idle]
        BY <3>1 DEF Typed, Idle
      <3>2. CASE Goto(w, "failed") \/ Goto(w, "release")
        BY <3>2, GotoType
      <3> QED  BY <1>9, <3>1, <3>2 DEF BackOff, Release, Fails, Lose
    <2>2. worker[w] # Idle
      BY <1>9 DEF BackOff, Release, Fails, Lose, Idle
    <2>3. state' = state \/ state'.owner = None
      <3>1. state' = state \/ state' = [state EXCEPT !.owner = None, !.lock = "null"]
        BY <1>9 DEF BackOff, Release, Fails, Lose, rowVars
      <3> QED  BY <2>2, <3>1 DEF Typed, States
    <2> QED  BY <2>1, <2>3, PageLeft, PageStays
  <1> QED  BY <1>1, <1>2, <1>3, <1>4, <1>5, <1>6, <1>7, <1>8, <1>9 DEF Next, Run

\* The row and who holds it, without any assumption on the delay of the ledger.
RowInv == Typed /\ Timely /\ Known /\ HasItsPage /\ Ordered

LEMMA RowInvariant == Spec => []RowInv
  <1>1. Init => RowInv
    <2>1. Init => Known /\ HasItsPage /\ Ordered
      BY DEF Init, Idle, Known, HasItsPage, Ordered
    <2> QED  BY <2>1, InitTyped DEF RowInv
  <1>2. RowInv /\ [Next]_vars => RowInv'
    BY TypedStep, TimelyStep, KnownStep, HasItsPageStep, OrderedStep DEF RowInv
  <1> QED  BY <1>1, <1>2, PTL DEF Spec

-----------------------------------------------------------------------------
(* Nothing is skipped.                                                     *)

\* If the ledger shows an entry within the overlap and the lag of the windows, the
\* collector passes over none that a payment waits for, whoever of its workers is lost,
\* outlives its lease or goes on with a window that another one began.
THEOREM NothingSkippedCorrect ==
    ASSUME MaxDelay <= OVERLAP + LAG
    PROVE  Spec => []NothingSkipped
  <1> DEFINE IInv == Typed /\ Timely /\ Known /\ Kept /\ Reading
  <1>1. Init => IInv
    <2>1. Init => Known /\ Kept /\ Reading
      BY DEF Init, Idle, Known, Kept, Reading, HasItsPage
    <2> QED  BY <2>1, InitTyped
  <1>2. IInv /\ [Next]_vars => IInv'
    BY TypedStep, TimelyStep, KnownStep, KeptStep DEF Reading
  <1>3. IInv => NothingSkipped
    <2> SUFFICES ASSUME IInv, NEW e \in Visible, entry[e].payer \in Demanded, state # None
                 PROVE  IF state.window = None THEN entry[e].paidAt >= Floor(state.cursor - OVERLAP)
                        ELSE \/ entry[e].paidAt >= Floor(state.window.end - OVERLAP)
                             \/ e \in InWindow /\ Cardinality(Before(e)) >= (state.page - 1) * PAGE_SIZE
      BY DEF NothingSkipped
    <2>1. e \in Wanted
      BY DEF Visible, Wanted, Made
    <2> QED  BY <2>1 DEF Kept, Ahead, Behind
  <1> QED  BY <1>1, <1>2, <1>3, PTL DEF Spec

-----------------------------------------------------------------------------
(* The row and its windows, whatever the delay of the ledger.              *)

\* The row of the account is typed, leased exactly while it has an owner, and there while
\* a worker runs; what is stored was shown by the ledger.
THEOREM CollectorTypeCorrect == Spec => []CollectorTypeOK
  <1>1. RowInv => CollectorTypeOK
    <2> SUFFICES ASSUME Typed, Ordered
                 PROVE  CollectorTypeOK
      BY DEF RowInv
    <2>1. \A w \in Workers : worker[w].pc # "idle" => state # None
      BY DEF Typed, Idle
    <2> QED  BY <2>1 DEF Typed, Ordered, CollectorTypeOK, States
  <1> QED  BY <1>1, RowInvariant, PTL

\* The windows follow each other in order, whatever workers are lost or wake up late: one
\* that has lost the row has lost the right to write its window.
THEOREM WindowsInOrderCorrect == Spec => WindowsInOrder
  <1>1. RowInv /\ RowInv' /\ [Next]_vars =>
            [state # None =>
                /\ state.cursor <= state'.cursor
                /\ state.window # None =>
                      \/ state'.window = state.window /\ state.page <= state'.page
                      \/ state'.window = None /\ state'.cursor = state.window.end]_vars
    <2> SUFFICES ASSUME Typed, Typed', HasItsPage, Ordered, [Next]_vars, state # None
                 PROVE  /\ state.cursor <= state'.cursor
                        /\ state.window # None =>
                              \/ state'.window = state.window /\ state.page <= state'.page
                              \/ state'.window = None /\ state'.cursor = state.window.end
      BY DEF RowInv
    <2>1. state \in States /\ state.cursor \in Int /\ state.page \in Int
          /\ (state.window # None => state.window.end \in Int)
      BY DEF Typed, States, Windows
    <2>2. CASE UNCHANGED state \/ LeaseMoves
      BY <2>1, <2>2 DEF LeaseMoves
    <2>3. CASE WindowOpens
      BY <2>3 DEF WindowOpens
    <2>4. CASE WindowGoesOn
      BY <2>1, <2>4 DEF WindowGoesOn, Ordered
    <2> QED  BY <2>2, <2>3, <2>4, RowMoves DEF RowBegins
  <1> QED  BY <1>1, RowInvariant, PTL DEF Spec, WindowsInOrder

=============================================================================
