---------------------------- MODULE BillCollector ----------------------------
(***************************************************************************)
(* The collector of the account's ledger                                   *)
(* (apps/api/src/services/alipay-bill-collector-service.ts and             *)
(* lib/alipay-account-log.ts): windows behind a cursor, read page by page, *)
(* by any of several workers that hold a lease on the row of the account.  *)
(*                                                                         *)
(* Instants are numbers, SECOND of them in a second: the program's clock   *)
(* is finer than the ledger's and the gateway's, which know whole seconds. *)
(* Leases and back-offs run out at any time, whatever the clock says.  A   *)
(* flow that is stored settles the payment it was made for, which is what  *)
(* ReceiptFlow does with the flow of a careful customer.                   *)
(***************************************************************************)
EXTENDS Integers, FiniteSets

CONSTANTS
    Payments, Entries,  \* numbered in the order in which they are made
    Workers, None,
    SECOND,
    VALID,              \* how long a code is valid
    OVERLAP, LAG,       \* ALIPAY_BILL_OVERLAP_SECONDS, ALIPAY_BILL_LAG_SECONDS
    SPAN,               \* the longest step of the cursor, half an hour in the code
    GRACE,              \* how long an unpaid payment is looked after when its code ends
    PAGE_SIZE,
    MaxDelay,           \* the ledger shows an entry within this time
    Horizon,            \* bound: the last instant explored
    MaxFaults           \* bound: queries that fail, workers that are lost or paused too long

ASSUME CollectorAssumption ==
    /\ {SECOND, VALID, SPAN, PAGE_SIZE} \subseteq Nat \ {0}
    /\ {OVERLAP, LAG, GRACE, MaxDelay, Horizon, MaxFaults} \subseteq Nat
    /\ GRACE >= OVERLAP + LAG
    /\ Payments \subseteq Nat \ {0} /\ Entries \subseteq Nat \ {0} /\ IsFiniteSet(Entries)
    /\ None \notin Workers \cup Int

VARIABLES
    from,       \* receiptValidFrom of a payment
    entry,      \* the account's ledger, [payer, paidAt, visible]
    stored,     \* the entries that have become receipts
    state,      \* the collector's row, None before the first claim
    due,        \* nextRunAt has passed
    worker,
    now, faults

rowVars == <<state, due>>
vars == <<from, entry, stored, rowVars, worker, now, faults>>

\* The rows of the ledger and of the collector, and the window in the latter.
EntryRows == [payer : Payments \cup {None}, paidAt : Int, visible : BOOLEAN]
Windows == [start : Int, end : Int]
States == [cursor : Int, window : Windows \cup {None}, page : Nat \ {0},
           owner : Workers \cup {None}, lock : {"null", "held", "past"}]

ASSUME RowAssumption == None \notin EntryRows \cup Windows \cup States

Idle == [pc |-> "idle", demand |-> None, window |-> None, page |-> 0, todo |-> {}, complete |-> FALSE]

Init ==
    /\ from = [p \in Payments |-> None]
    /\ entry = [e \in Entries |-> None]
    /\ stored = {}
    /\ state = None /\ due = TRUE
    /\ worker = [w \in Workers |-> Idle]
    /\ now = 0 /\ faults = 0

Least(S) == CHOOSE i \in S : \A j \in S : i <= j
Floor(i) == i - (i % SECOND)

-----------------------------------------------------------------------------
(* What happens around the collector.                                      *)

\* prepareReceiptPayment wakes the collector.
CreatePayment(p) ==
    /\ from[p] = None /\ \A q \in Payments : q < p => from[q] # None
    /\ from' = [from EXCEPT ![p] = now]
    /\ due' = TRUE
    /\ UNCHANGED <<entry, stored, state, worker, now, faults>>

\* Income of the account, by a customer while the code is valid or by anybody else;
\* the ledger shows it at once or later.  Bound: the clock then still has an instant
\* to go when the ledger shows it.
Income(e, p) ==
    /\ entry[e] = None /\ \A d \in Entries : d < e => entry[d] # None
    /\ now + LAG + MaxDelay < Horizon
    /\ p = None \/ (p \in Payments /\ from[p] # None /\ now <= from[p] + VALID)
    /\ \E shown \in BOOLEAN :
        entry' = [entry EXCEPT ![e] = [payer |-> p, paidAt |-> Floor(now), visible |-> shown]]
    /\ UNCHANGED <<from, stored, rowVars, worker, now, faults>>

Appear(e) ==
    /\ entry[e] # None /\ ~entry[e].visible
    /\ entry' = [entry EXCEPT ![e].visible = TRUE]
    /\ UNCHANGED <<from, stored, rowVars, worker, now, faults>>

Tick ==
    /\ now < Horizon
    /\ \A e \in Entries : entry[e] # None /\ ~entry[e].visible => now < entry[e].paidAt + MaxDelay
    /\ now' = now + 1
    /\ UNCHANGED <<from, entry, stored, rowVars, worker, faults>>

Visible == {e \in Entries : entry[e] # None /\ entry[e].visible}

-----------------------------------------------------------------------------
(* runAlipayBillCollector                                                  *)

Paid == {entry[e].payer : e \in stored}

\* The payments that are still looked after.
Demanded == {p \in Payments \ Paid : from[p] # None /\ now <= from[p] + VALID + GRACE}

collectionDemand == Least({from[p] : p \in Demanded})

Goto(w, pc) == worker' = [worker EXCEPT ![w].pc = pc]
Owns(w) == state.owner = w

Holds(w) == Owns(w) /\ state.lock = "held"

Fresh == [cursor |-> collectionDemand, window |-> None, page |-> 1, owner |-> None, lock |-> "null"]

\* Mutant: the row must have been released.
Released(row) == row.lock = "null"

Free(row) == row.lock # "held"

Claim(w) ==
    LET row == IF state = None THEN Fresh ELSE state IN
    /\ worker[w] = Idle /\ Demanded # {} /\ due /\ Free(row)
    /\ state' = [row EXCEPT !.owner = w, !.lock = "held"]
    /\ worker' = [worker EXCEPT ![w] = [Idle EXCEPT !.pc = "open", !.demand = collectionDemand]]
    /\ UNCHANGED <<from, entry, stored, due, now, faults>>

\* Mutant: the windows do not overlap.
NoOverlap(cursor) == [start |-> cursor, end |-> Least({now - LAG, cursor + SPAN})]

collectorWindow(cursor) == [start |-> cursor - OVERLAP, end |-> Least({now - LAG, cursor + SPAN})]

\* A window that was begun is continued.  Otherwise the cursor skips idle history
\* and a window is opened, if there is anything to read yet.
OpenWindow(w) ==
    LET cursor == IF state.cursor < worker[w].demand THEN worker[w].demand ELSE state.cursor
        window == collectorWindow(cursor)
    IN
    /\ worker[w].pc = "open"
    /\ IF state.window # None THEN Goto(w, "query") /\ UNCHANGED state
       ELSE IF window.end <= cursor
       THEN /\ state' = IF Owns(w) THEN [state EXCEPT !.cursor = cursor] ELSE state
            /\ Goto(w, "release")
       ELSE IF Owns(w)
       THEN /\ state' = [state EXCEPT !.cursor = cursor, !.window = window, !.page = 1]
            /\ Goto(w, "query")
       ELSE Goto(w, "failed") /\ UNCHANGED state
    /\ UNCHANGED <<from, entry, stored, due, now, faults>>

\* What the gateway answers: whole seconds from start to before end, oldest first.
InWindow == {e \in Visible : /\ Floor(state.window.start) <= entry[e].paidAt
                             /\ entry[e].paidAt < Floor(state.window.end)}
Before(e) == {d \in InWindow : d < e}
Page(n) == {e \in InWindow : /\ (n - 1) * PAGE_SIZE <= Cardinality(Before(e))
                             /\ Cardinality(Before(e)) < n * PAGE_SIZE}

\* The lease is renewed before every page, which ends the run of a worker that has
\* lost it.
Query(w) ==
    /\ worker[w].pc = "query"
    /\ IF Holds(w) /\ state.window # None
       THEN worker' = [worker EXCEPT ![w] = [pc |-> "store", demand |-> None, window |-> state.window,
                page |-> state.page, todo |-> Page(state.page),
                complete |-> state.page * PAGE_SIZE >= Cardinality(InWindow)]]
       ELSE Goto(w, "failed")
    /\ UNCHANGED <<from, entry, stored, rowVars, now, faults>>

\* Every entry of the page becomes a receipt; one outside the window is an error.
Store(w, e) ==
    LET inside == /\ worker[w].window.start <= entry[e].paidAt
                  /\ entry[e].paidAt < worker[w].window.end
    IN
    /\ worker[w].pc = "store" /\ e \in worker[w].todo
    /\ IF inside
       THEN stored' = stored \cup {e} /\ worker' = [worker EXCEPT ![w].todo = @ \ {e}]
       ELSE Goto(w, "failed") /\ UNCHANGED stored
    /\ UNCHANGED <<from, entry, rowVars, now, faults>>

\* The page is done when its entries are stored.  The run goes on with the next page,
\* or ends: after five, when the settings changed, when no payment is waiting.
Commit(w) ==
    /\ worker[w].pc = "store" /\ worker[w].todo = {}
    /\ IF ~Holds(w) THEN Goto(w, "failed") /\ UNCHANGED state
       ELSE IF worker[w].complete
       THEN /\ state' = [state EXCEPT !.cursor = worker[w].window.end, !.window = None, !.page = 1]
            /\ Goto(w, "release")
       ELSE /\ state' = [state EXCEPT !.page = worker[w].page + 1]
            /\ \E pc \in IF Demanded = {} THEN {"release"} ELSE {"query", "release"} : Goto(w, pc)
    /\ UNCHANGED <<from, entry, stored, due, now, faults>>

\* The back-off, if the row is still this worker's.
BackOff(w) ==
    /\ worker[w].pc = "failed"
    /\ due' = (due /\ ~Owns(w))
    /\ Goto(w, "release")
    /\ UNCHANGED <<from, entry, stored, state, now, faults>>

Release(w) ==
    LET row == IF Owns(w) THEN [state EXCEPT !.owner = None, !.lock = "null"] ELSE state IN
    /\ worker[w].pc = "release"
    /\ state' = row
    /\ due' = (due /\ row.owner # None)
    /\ worker' = [worker EXCEPT ![w] = Idle]
    /\ UNCHANGED <<from, entry, stored, now, faults>>

\* The poll interval or the back-off is over, or the settings were saved.
ComesDue ==
    /\ ~due /\ due' = TRUE
    /\ UNCHANGED <<from, entry, stored, state, worker, now, faults>>

\* A lease runs out under a worker only when it is lost, or paused too long.
LeaseElapses ==
    LET alive == state # None /\ \E w \in Workers : Owns(w) /\ worker[w].pc # "idle" IN
    /\ state # None /\ state.lock = "held"
    /\ alive => faults < MaxFaults
    /\ faults' = faults + IF alive THEN 1 ELSE 0
    /\ state' = [state EXCEPT !.lock = "past"]
    /\ UNCHANGED <<from, entry, stored, due, worker, now>>

\* The gateway or the database fails, or answers what cannot be read.
Fails(w) ==
    /\ worker[w].pc \in {"open", "query", "store"}
    /\ faults < MaxFaults /\ faults' = faults + 1
    /\ Goto(w, "failed")
    /\ UNCHANGED <<from, entry, stored, rowVars, now>>

Lose(w) ==
    /\ worker[w] # Idle
    /\ faults < MaxFaults /\ faults' = faults + 1
    /\ worker' = [worker EXCEPT ![w] = Idle]
    /\ UNCHANGED <<from, entry, stored, rowVars, now>>

Run(w) ==
    \/ Claim(w) \/ OpenWindow(w) \/ Query(w) \/ (\E e \in Entries : Store(w, e)) \/ Commit(w)
    \/ BackOff(w) \/ Release(w)

Next ==
    \/ \E p \in Payments : CreatePayment(p)
    \/ \E e \in Entries, p \in Payments \cup {None} : Income(e, p)
    \/ \E e \in Entries : Appear(e)
    \/ \E w \in Workers : Run(w) \/ Fails(w) \/ Lose(w)
    \/ ComesDue \/ LeaseElapses \/ Tick

Spec == Init /\ [][Next]_vars

\* The worker's tick runs the collector again and again, the clock goes on, leases
\* and back-offs run out, and the ledger shows what it holds back.
FairSpec ==
    /\ Spec
    /\ \A w \in Workers : SF_vars(Run(w))
    /\ WF_vars(ComesDue) /\ WF_vars(LeaseElapses) /\ WF_vars(Tick)
    /\ \A e \in Entries : WF_vars(Appear(e))

-----------------------------------------------------------------------------
(* Properties                                                              *)

CollectorTypeOK ==
    /\ stored \subseteq Visible
    /\ state # None =>
        /\ state.owner \in Workers \cup {None} /\ state.lock \in {"null", "held", "past"}
        /\ state.owner = None <=> state.lock = "null"
        /\ state.page > 1 => state.window # None
    /\ \A w \in Workers : worker[w].pc # "idle" => state # None

\* Nothing falls between two windows: the entry of a payment that is looked after,
\* however late the ledger shows it within the delay that is provided for, is stored,
\* or on a page that is still to be read, or not before the next window.
NothingSkipped ==
    \A e \in Visible : entry[e].payer \in Demanded /\ state # None =>
        \/ IF state.window = None THEN entry[e].paidAt >= Floor(state.cursor - OVERLAP)
           ELSE \/ entry[e].paidAt >= Floor(state.window.end - OVERLAP)
                \/ e \in InWindow /\ Cardinality(Before(e)) >= (state.page - 1) * PAGE_SIZE

\* The cursor never goes back, and a window that was begun is read to its end before
\* another is, page after page, whichever worker goes on with it or wakes up late.
WindowsInOrder ==
    [][state # None =>
          /\ state.cursor <= state'.cursor
          /\ state.window # None =>
                \/ state'.window = state.window /\ state.page <= state'.page
                \/ state'.window = None /\ state'.cursor = state.window.end]_vars

\* What a customer paid is found in the end, although queries fail, and workers are
\* lost in the middle of a window.
PaidIsCollected ==
    \A e \in Entries : entry[e] # None /\ entry[e].payer \in Demanded ~>
                            entry[e] # None /\ (e \in stored \/ entry[e].payer \notin Demanded)
=============================================================================
