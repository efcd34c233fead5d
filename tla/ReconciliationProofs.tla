------------------------- MODULE ReconciliationProofs -------------------------
(***************************************************************************)
(* What the reservation of amounts and the matching of receipts guarantee, *)
(* proved for every set of orders, payments and trades, every number of    *)
(* workers and importers, and without bound on time or on faults.          *)
(***************************************************************************)
EXTENDS Reconciliation, FiniteSetTheorems, TLAPS

-----------------------------------------------------------------------------
(* The steps that touch neither the rows of the payments nor the clock.    *)

\* Whoever settles a payment leaves the rows that matching reads alone.
LEMMA RowsOrClock ==
    ASSUME [Next]_allVars
    PROVE  \/ (\E p \in Payments : CreatePayment(p)) \/ Tick \/ UNCHANGED <<payment, now>>
<1>1. CASE UNCHANGED allVars BY <1>1 DEF allVars, vars, payVars
<1>2. ASSUME NEW t \in Trades, Notify(t) \/ Store(t) \/ LeaseElapses(t)
      PROVE  UNCHANGED <<payment, now>>
  BY <1>2 DEF Notify, Store, LeaseElapses, markPaymentSucceeded, payVars
<1>3. ASSUME NEW w \in Workers, NEW t \in Trades, Claim(w, t) \/ Rematch(w, t)
      PROVE  UNCHANGED <<payment, now>>
  BY <1>3 DEF Claim, Rematch, payVars
<1>4. ASSUME NEW w \in Workers, Handle(w) \/ Throw(w) \/ Lose(w)
      PROVE  UNCHANGED <<payment, now>>
  BY <1>4 DEF Handle, Reset, Locate, Settle, MarkMatched, markUnmatched, markMismatch, Throw, Lose,
              markPaymentSucceeded, payVars
<1>5. ASSUME NEW i \in Importers, Request(i) \/ ThrowInImport(i) \/ LoseImport(i) \/ importAlipayBill(i)
      PROVE  UNCHANGED <<payment, now>>
  BY <1>5 DEF Request, StoreRow, ReadIncome, SettleIncome, FillTrade, Mark, FinishImport,
              FailImport, ThrowInImport, LoseImport, importAlipayBill, markPaymentSucceeded,
              vars, payVars
<1>6. ASSUME NEW i \in Importers, NEW t \in Trades, matchReceipt(i, t)
      PROVE  UNCHANGED <<payment, now>>
  BY <1>6 DEF matchReceipt, vars, payVars
<1>7. ASSUME NEW t \in Trades, NEW p \in Payments, NEW kind \in Kinds, Pay(t, p, kind)
      PROVE  UNCHANGED <<payment, now>>
  BY <1>7 DEF Pay, payVars
<1> QED BY <1>1, <1>2, <1>3, <1>4, <1>5, <1>6, <1>7 DEF Next, FlowNext

-----------------------------------------------------------------------------
(* The pool of amounts.                                                    *)

\* The windows are of instants, and begin no later than now.
Windows ==
    /\ now \in Nat /\ payment = [p \in Payments |-> payment[p]]
    /\ \A p \in Payments : Exists(p) =>
           /\ payment[p].from \in Nat /\ payment[p].from <= now /\ payment[p].until \in Nat
           /\ payment[p].value \in Nat

Pool == Windows /\ AmountsAreExclusive

LEMMA PoolInit == AllInit => Pool
BY DEF AllInit, Init, Pool, Windows, AmountsAreExclusive, Exists, Bill

\* A payment takes an amount that no running reservation holds.
LEMMA PoolGrows == ASSUME Pool, NEW p \in Payments, CreatePayment(p) PROVE Pool'
<1>1. PICK mode \in Modes : prepareReceiptPayment(p, mode) BY DEF CreatePayment
<1>2. PICK i \in Offsets(p, mode) :
          payment' = [payment EXCEPT ![p] =
              [mode |-> mode, from |-> now,
               until |-> IF mode = "NONE" THEN expiresAt[OrderOf[p]]
                         ELSE Earlier(expiresAt[OrderOf[p]], now + VALID_SECONDS),
               value |-> amount[OrderOf[p]] + i]]
  BY <1>1 DEF prepareReceiptPayment
<1>3. i \in Nat /\ (mode = "AMOUNT" => amount[OrderOf[p]] + i \notin Used)
  BY FlowAssumption DEF Offsets, FreeOffsets
<1>4. now' = now /\ now \in Nat BY DEF CreatePayment, Pool, Windows
<1>5. /\ expiresAt[OrderOf[p]] \in Nat /\ amount[OrderOf[p]] \in Nat /\ VALID_SECONDS \in Nat
  BY FlowAssumption
<1>6. /\ payment'[p].mode = mode /\ payment'[p].from = now
      /\ payment'[p].until \in Nat /\ payment'[p].value \in Nat
      /\ payment'[p].value = amount[OrderOf[p]] + i
      /\ \A q \in Payments \ {p} : payment'[q] = payment[q]
      /\ payment' = [q \in Payments |-> payment'[q]]
  <2> DEFINE row == [mode |-> mode, from |-> now,
                     until |-> IF mode = "NONE" THEN expiresAt[OrderOf[p]]
                               ELSE Earlier(expiresAt[OrderOf[p]], now + VALID_SECONDS),
                     value |-> amount[OrderOf[p]] + i]
  <2>1. /\ row.mode = mode /\ row.from = now /\ row.until \in Nat /\ row.value \in Nat
        /\ row.value = amount[OrderOf[p]] + i
    BY <1>3, <1>4, <1>5 DEF Earlier
  <2>2. payment' = [payment EXCEPT ![p] = row] BY <1>2
  <2> HIDE DEF row
  <2> QED BY <2>1, <2>2 DEF Pool, Windows
<1>7. Windows' BY <1>4, <1>6 DEF Pool, Windows, Exists
<1>8. ASSUME NEW q \in Payments \ {p}, Bill(q), payment[q].mode = "AMOUNT", mode = "AMOUNT",
             payment[q].value = payment'[p].value
      PROVE  payment[q].until <= now
  <2>1. payment[q].value \notin Used BY <1>3, <1>6, <1>8
  <2> QED BY <1>4, <1>8, <2>1 DEF Used, Reserved, Bill, Pool, Windows
<1>9. AmountsAreExclusive'
  <2> SUFFICES ASSUME NEW q \in Payments, NEW r \in Payments, q # r, Bill(q)', Bill(r)',
                      payment'[q].mode = "AMOUNT", payment'[r].mode = "AMOUNT",
                      payment'[q].value = payment'[r].value
               PROVE  payment'[q].until <= payment'[r].from \/ payment'[r].until <= payment'[q].from
    BY DEF AmountsAreExclusive
  <2>1. CASE q = p BY <1>6, <1>8, <2>1 DEF Bill, Exists
  <2>2. CASE r = p BY <1>6, <1>8, <2>2 DEF Bill, Exists
  <2>3. CASE q # p /\ r # p BY <1>6, <2>3 DEF Bill, Exists, Pool, AmountsAreExclusive
  <2> QED BY <2>1, <2>2, <2>3
<1> QED BY <1>7, <1>9 DEF Pool

LEMMA PoolStep == Pool /\ [Next]_allVars => Pool'
<1> SUFFICES ASSUME Pool, [Next]_allVars PROVE Pool' OBVIOUS
<1>1. CASE Tick
  BY <1>1 DEF Tick, payVars, Pool, Windows, AmountsAreExclusive, Exists, Bill
<1>2. CASE UNCHANGED <<payment, now>>
  BY <1>2 DEF Pool, Windows, AmountsAreExclusive, Exists, Bill
<1> QED BY <1>1, <1>2, PoolGrows, RowsOrClock

\* At no instant do two payments wait for the same amount, but where the window of one
\* ends as that of the other begins.
THEOREM AmountsAreExclusiveCorrect == Spec => []AmountsAreExclusive
<1>1. Pool => AmountsAreExclusive BY DEF Pool
<1> QED BY <1>1, PoolInit, PoolStep, PTL DEF Spec

-----------------------------------------------------------------------------
(* Receipts, and who has them in hand.                                     *)

Receipts == [status : {"NONE", "UNMATCHED", "PROCESSING", "MATCHED", "MISMATCH"},
             lock : {"null", "held", "past"}, pay : Payments \cup {None}]
Hands == [pc : {"idle", "reset", "locate", "settle", "match", "unmatched", "mismatch", "refuse"},
          trade : Trades \cup {None}, pay : Payments \cup {None}, raise : BOOLEAN]
Imports == [pc : {"idle", "next", "read", "settle", "fill", "MATCHED", "MISMATCH", "UNMATCHED", "failed"},
            trade : Trades \cup {None}, pay : Payments \cup {None},
            fill : BOOLEAN, file : BOOLEAN, todo : SUBSET Trades]

Kinded ==
    /\ settled \subseteq Payments /\ channelTradeNo \in [Payments -> Trades \cup {None}]
    /\ flow = [t \in Trades |-> flow[t]] /\ receipt \in [Trades -> Receipts]
    /\ worker \in [Workers -> Hands] /\ importer \in [Importers -> Imports]

\* A payment that was settled keeps the trade that settled it.
Paid(t, p) == p \in settled /\ channelTradeNo[p] = t
Agrees(t, p) ==
    /\ Exists(p) /\ payment[p].value = flow[t].amount
    /\ Bill(p) => isWithinReceiptWindow(t, p)

FlowOK(t) ==
    flow[t] # None => /\ flow[t].payer \in Payments /\ Exists(flow[t].payer)
                      /\ flow[t].remark \subseteq Payments

ReceiptOK(t) ==
    LET p == receipt[t].pay IN
    /\ receipt[t].status # "NONE" => t \in Made
    /\ receipt[t].status = "PROCESSING" => receipt[t].lock # "null"
    /\ receipt[t].status = "MATCHED" => p \in Payments /\ Paid(t, p) /\ Agrees(t, p)

WorkerOK(w) ==
    LET t == worker[w].trade  p == worker[w].pay IN
    /\ worker[w].pc # "idle" => t \in Made
    /\ worker[w].pc \in {"settle", "match"} => p \in Payments /\ Agrees(t, p)
    /\ worker[w].pc = "match" => Paid(t, p)

ImporterOK(i) ==
    LET t == importer[i].trade  p == importer[i].pay IN
    /\ importer[i].todo \subseteq Listed
    /\ importer[i].pc \in {"read", "settle", "fill", "MATCHED", "MISMATCH", "UNMATCHED"} => t \in Listed
    /\ importer[i].pc \in {"settle", "fill", "MATCHED"} => p \in Payments /\ ~Bill(p) /\ Agrees(t, p)
    /\ importer[i].pc \in {"fill", "MATCHED"} => Paid(t, p)

\* The inductive invariant of the receipts.
Bound ==
    /\ Pool /\ Kinded
    /\ \A p \in settled : channelTradeNo[p] # None
    /\ \A t \in Trades : FlowOK(t) /\ ReceiptOK(t)
    /\ \A w \in Workers : WorkerOK(w)
    /\ \A i \in Importers : ImporterOK(i)

LEMMA BoundInit == AllInit => Bound
<1> SUFFICES ASSUME AllInit PROVE Bound OBVIOUS
<1>1. Pool BY PoolInit
<1>2. Init /\ ReconciliationInit BY DEF AllInit
<1>3. Kinded
  BY <1>2 DEF Init, ReconciliationInit, Core!Init, Kinded, Receipts, Hands, Imports,
              NoReceipt, Idle, Resting
<1>4. /\ \A p \in settled : channelTradeNo[p] # None
      /\ \A t \in Trades : FlowOK(t) /\ ReceiptOK(t)
      /\ \A w \in Workers : WorkerOK(w)
      /\ \A i \in Importers : ImporterOK(i)
  BY <1>2 DEF Init, ReconciliationInit, Core!Init, FlowOK, ReceiptOK, WorkerOK, ImporterOK,
              NoReceipt, Idle, Resting
<1> QED BY <1>1, <1>3, <1>4 DEF Bound

\* Rows of payments and flows are written once, and so is the trade that settled a payment.
Keeps ==
    /\ \A p \in Payments : Exists(p) => payment'[p] = payment[p]
    /\ \A t \in Trades : flow[t] # None => flow'[t] = flow[t]
    /\ \A p \in settled : p \in settled' /\ channelTradeNo'[p] = channelTradeNo[p]

\* What was true of a flow, a receipt, a worker or an importer that a step leaves alone
\* stays true.
LEMMA ClaimsStay ==
    ASSUME Bound, Keeps
    PROVE  /\ \A t \in Trades : flow'[t] = flow[t] => FlowOK(t)'
           /\ \A t \in Trades : receipt'[t] = receipt[t] => ReceiptOK(t)'
           /\ \A w \in Workers : worker'[w] = worker[w] => WorkerOK(w)'
           /\ \A i \in Importers : importer'[i] = importer[i] => ImporterOK(i)'
<1>1. \A t \in Made : t \in Trades /\ t \in Made' /\ flow'[t] = flow[t] BY DEF Keeps, Made
<1>2. \A p \in Payments : Exists(p) => Exists(p)' /\ payment'[p] = payment[p]
  BY DEF Keeps, Exists
<1>3. \A p \in Payments : Exists(p) => (Bill(p)' <=> Bill(p)) BY <1>2 DEF Bill
<1>4. \A t \in Made : flow[t].payer \in Payments /\ Exists(flow[t].payer)
  BY DEF Made, Bound, FlowOK
<1>5. \A t \in Listed : t \in Made /\ t \in Listed' /\ flow'[t] = flow[t]
  BY <1>1, <1>3, <1>4 DEF Listed
<1>6. \A t \in Made, p \in Payments : Agrees(t, p) => Agrees(t, p)'
  BY <1>1, <1>2, <1>3 DEF Agrees, isWithinReceiptWindow
<1>7. \A t \in Trades, p \in Payments : Paid(t, p) => Paid(t, p)' BY DEF Paid, Keeps
<1>8. ASSUME NEW t \in Trades, flow'[t] = flow[t] PROVE FlowOK(t)'
  BY <1>2, <1>3, <1>8 DEF Bound, FlowOK
<1>9. ASSUME NEW t \in Trades, receipt'[t] = receipt[t] PROVE ReceiptOK(t)'
  BY <1>1, <1>6, <1>7, <1>9 DEF Bound, ReceiptOK
<1>10. ASSUME NEW w \in Workers, worker'[w] = worker[w] PROVE WorkerOK(w)'
  BY <1>1, <1>6, <1>7, <1>10 DEF Bound, WorkerOK
<1>11. ASSUME NEW i \in Importers, importer'[i] = importer[i] PROVE ImporterOK(i)'
  <2>1. ImporterOK(i) BY DEF Bound
  <2>2. \A t \in Listed : t \in Made /\ t \in Trades BY DEF Listed, Made
  <2>3. \A p \in Payments : Agrees(importer[i].trade, p) => Exists(p) BY DEF Agrees
  <2> QED BY <1>3, <1>5, <1>6, <1>7, <1>11, <2>1, <2>2, <2>3 DEF ImporterOK
<1> QED BY <1>8, <1>9, <1>10, <1>11

\* markPaymentSucceeded, which only a payment that was not settled can be changed by.
LEMMA MarkKeeps ==
    ASSUME Bound, NEW p \in Payments, NEW t \in Trades, markPaymentSucceeded(p, t)
    PROVE  /\ payment' = payment /\ settled' \subseteq Payments
           /\ channelTradeNo' \in [Payments -> Trades \cup {None}]
           /\ \A q \in settled : q \in settled' /\ channelTradeNo'[q] = channelTradeNo[q]
           /\ \A q \in settled' : channelTradeNo'[q] # None
           /\ Paid(t, p)'
<1>1. /\ settled \subseteq Payments /\ channelTradeNo \in [Payments -> Trades \cup {None}]
      /\ \A q \in settled : channelTradeNo[q] # None
  BY DEF Bound, Kinded
<1>2. t # None /\ payment' = payment BY FlowAssumption DEF markPaymentSucceeded
<1>3. CASE p \in settled /\ UNCHANGED <<coreVars, channelTradeNo>>
  BY <1>1, <1>2, <1>3 DEF coreVars, markPaymentSucceeded, Conflicts, Paid
<1>4. CASE (Core!Win(p) \/ Core!Dispute(p)) /\ channelTradeNo' = [channelTradeNo EXCEPT ![p] = t]
  BY <1>1, <1>2, <1>4 DEF Core!Win, Core!Dispute, Paid
<1> QED BY <1>3, <1>4 DEF markPaymentSucceeded

\* What is left to show of a step: the claims of what it changes.
LEMMA BoundKept ==
    ASSUME Bound, [Next]_allVars, Keeps, Kinded', \A p \in settled' : channelTradeNo'[p] # None,
           \A t \in Trades : flow'[t] = flow[t] \/ FlowOK(t)',
           \A t \in Trades : receipt'[t] = receipt[t] \/ ReceiptOK(t)',
           \A w \in Workers : worker'[w] = worker[w] \/ WorkerOK(w)',
           \A i \in Importers : importer'[i] = importer[i] \/ ImporterOK(i)'
    PROVE  Bound'
<1>1. Pool' BY PoolStep DEF Bound
<1> QED BY <1>1, ClaimsStay DEF Bound

LEMMA PutMoves ==
    ASSUME Bound, NEW t \in Trades, NEW status \in {"UNMATCHED", "PROCESSING", "MATCHED", "MISMATCH"},
           NEW lock \in {"null", "held", "past"}, NEW p \in Payments \cup {None},
           Put(t, status, lock, p)
    PROVE  /\ receipt' \in [Trades -> Receipts]
           /\ receipt'[t].status = status /\ receipt'[t].lock = lock /\ receipt'[t].pay = p
           /\ \A u \in Trades \ {t} : receipt'[u] = receipt[u]
<1> DEFINE row == [status |-> status, lock |-> lock, pay |-> p]
<1>1. row \in Receipts /\ row.status = status /\ row.lock = lock /\ row.pay = p BY DEF Receipts
<1>2. receipt' = [receipt EXCEPT ![t] = row] BY DEF Put
<1> HIDE DEF row
<1>3. receipt \in [Trades -> Receipts] BY DEF Bound, Kinded
<1> QED BY <1>1, <1>2, <1>3

LEMMA HandMoves ==
    ASSUME Bound, NEW w \in Workers, NEW state \in Hands, worker' = [worker EXCEPT ![w] = state]
    PROVE  /\ worker' \in [Workers -> Hands] /\ worker'[w] = state
           /\ \A v \in Workers \ {w} : worker'[v] = worker[v]
BY DEF Bound, Kinded

LEMMA IdleHands == Idle \in Hands /\ Idle.pc = "idle"
BY DEF Idle, Hands

\* A worker that is done, whatever it wrote.
LEMMA DoneMoves ==
    ASSUME Bound, NEW w \in Workers, Done(w)
    PROVE  /\ worker' \in [Workers -> Hands] /\ WorkerOK(w)'
           /\ \A v \in Workers \ {w} : worker'[v] = worker[v]
<1>1. /\ worker' \in [Workers -> Hands] /\ worker'[w] = Idle
      /\ \A v \in Workers \ {w} : worker'[v] = worker[v]
  BY IdleHands, HandMoves DEF Done
<1> QED BY <1>1, IdleHands DEF WorkerOK

\* The trade in a worker's hands.
LEMMA InHand ==
    ASSUME Bound, NEW w \in Workers, worker[w].pc # "idle"
    PROVE  worker[w] \in Hands /\ worker[w].trade \in Trades /\ worker[w].trade \in Made
BY DEF Bound, Kinded, WorkerOK, Made

\* A worker writes a verdict other than MATCHED, or fails.
LEMMA VerdictBound ==
    ASSUME Bound, [Next]_allVars, NEW w \in Workers, worker[w].pc # "idle", Done(w),
           NEW status \in {"UNMATCHED", "PROCESSING", "MISMATCH"}, NEW lock \in {"null", "held"},
           status = "PROCESSING" => lock = "held",
           NEW p \in Payments \cup {None}, Put(worker[w].trade, status, lock, p),
           UNCHANGED <<settled, channelTradeNo, payment, flow, importer>>
    PROVE  Bound'
<1>1. worker[w].trade \in Trades /\ worker[w].trade \in Made BY InHand
<1>2. Keeps BY DEF Keeps
<1>3. /\ receipt' \in [Trades -> Receipts]
      /\ receipt'[worker[w].trade].status = status /\ receipt'[worker[w].trade].lock = lock
      /\ \A u \in Trades \ {worker[w].trade} : receipt'[u] = receipt[u]
  BY <1>1, PutMoves
<1>4. \A t \in {worker[w].trade} : ReceiptOK(t)' BY <1>1, <1>2, <1>3 DEF ReceiptOK, Made
<1>5. /\ worker' \in [Workers -> Hands] /\ WorkerOK(w)'
      /\ \A v \in Workers \ {w} : worker'[v] = worker[v]
  BY DoneMoves
<1>6. Kinded' BY <1>3, <1>5 DEF Bound, Kinded
<1>7. /\ \A t \in Trades : receipt'[t] = receipt[t] \/ ReceiptOK(t)'
      /\ \A v \in Workers : worker'[v] = worker[v] \/ WorkerOK(v)'
  BY <1>3, <1>4, <1>5
<1>8. \A q \in settled' : channelTradeNo'[q] # None BY DEF Bound
<1> QED BY <1>2, <1>6, <1>7, <1>8, BoundKept

\* What matching may find.
Choices == [pc : {"settle", "unmatched", "mismatch"}, pay : Payments \cup {None}, raise : BOOLEAN]
Sound(choice) ==
    choice \in Choices /\ (choice.pc = "settle" => choice.pay \in Payments /\ Bill(choice.pay))

LEMMA SoundChoices ==
    /\ \A p \in Payments : Bill(p) => Sound(To("settle", p, FALSE))
    /\ Sound(To("unmatched", None, FALSE))
    /\ \A p \in Payments \cup {None}, raise \in BOOLEAN :
           Sound(Mismatch(p, raise)) /\ Mismatch(p, raise).pc = "mismatch"
BY DEF Sound, Choices, To, Mismatch

LEMMA OneOfOne == \A S : S # {} => OneOf(S) \in S
BY DEF OneOf

LEMMA SoleSound == ASSUME NEW S, S \subseteq {p \in Payments : Bill(p)} PROVE Sound(Sole(S))
BY OneOfOne, SoundChoices DEF Sole

LEMMA LocateSound ==
    ASSUME NEW t \in Trades, flow[t].remark \subseteq Payments
    PROVE  Sound(locatePayment(t))
<1> DEFINE Bills == {p \in Payments : Bill(p)}
           named == IF Direct(t) # {} THEN Direct(t) ELSE ByTrade(t)
<1>1. /\ Direct(t) \subseteq Bills /\ ByRemark(t) \subseteq Bills /\ ByAmount(t) \subseteq Bills
      /\ ByTrade(t) \subseteq Payments
  BY DEF Direct, ByRemark, ByAmount, Fits, ByTrade
<1>2. \A S \in SUBSET Payments : S # {} => \A raise \in BOOLEAN : Sound(Mismatch(OneOf(S), raise))
  BY OneOfOne, SoundChoices
<1>3. \A S \in SUBSET Bills : S # {} => Sound(To("settle", OneOf(S), FALSE))
  BY OneOfOne, SoundChoices
<1>4. Sound(Sole(ByAmount(t))) /\ Sound(Mismatch(None, FALSE)) BY <1>1, SoleSound, SoundChoices
<1>5. CASE \E p \in ByTrade(t) : ~Bill(p)
  <2>1. locatePayment(t) = Mismatch(OneOf(ByTrade(t)), TRUE) BY <1>5 DEF locatePayment
  <2> QED BY <1>1, <1>2, <1>5, <2>1
<1>6. CASE ~(\E p \in ByTrade(t) : ~Bill(p))
  <2>1. ByTrade(t) \subseteq Bills BY <1>1, <1>6
  <2>2. named \subseteq Bills BY <1>1, <2>1
  <2>3. CASE named # {}
    <3>1. locatePayment(t) \in {Mismatch(OneOf(named), TRUE), To("settle", OneOf(named), FALSE)}
      BY <1>6, <2>3 DEF locatePayment
    <3> QED BY <1>2, <1>3, <2>2, <2>3, <3>1
  <2>4. CASE named = {}
    <3> DEFINE referred == flow[t].remark
    <3>1. \/ locatePayment(t) \in {Sole(ByAmount(t)), Mismatch(None, FALSE)}
          \/ ByRemark(t) # {} /\ locatePayment(t) = To("settle", OneOf(ByRemark(t)), FALSE)
          \/ referred # {} /\ locatePayment(t) = Mismatch(OneOf(referred), FALSE)
      BY <1>6, <2>4 DEF locatePayment
    <3> QED BY <1>1, <1>2, <1>3, <1>4, <3>1
  <2> QED BY <2>3, <2>4
<1> QED BY <1>5, <1>6

\* What the checks leave of a choice.
LEMMA CheckedSound ==
    ASSUME NEW t, NEW choice, Sound(choice)
    PROVE  /\ Sound(Checked(t, choice))
           /\ Checked(t, choice).pc = "settle" => /\ Checked(t, choice) = choice
                                                 /\ payment[choice.pay].value = flow[t].amount
                                                 /\ isWithinReceiptWindow(t, choice.pay)
<1>1. CASE choice.pc # "settle" BY <1>1 DEF Checked
<1>2. CASE choice.pc = "settle"
  <2>1. choice.pay \in Payments BY <1>2 DEF Sound
  <2>2. /\ \A raise \in BOOLEAN : /\ Sound(Mismatch(choice.pay, raise))
                                  /\ Mismatch(choice.pay, raise).pc = "mismatch"
    BY <2>1, SoundChoices
  <2> QED BY <1>2, <2>2 DEF Checked
<1> QED BY <1>1, <1>2

\* The choice of locatePayment, when it survives the checks, agrees with the flow.
LEMMA LocateAgrees ==
    ASSUME NEW t \in Trades, flow[t].remark \subseteq Payments
    PROVE  LET choice == Checked(t, locatePayment(t)) IN
           choice \in Choices /\ (choice.pc = "settle" => choice.pay \in Payments /\ Agrees(t, choice.pay))
<1> DEFINE found == locatePayment(t)
<1>1. Sound(found) BY LocateSound
<1> HIDE DEF found
<1>2. /\ Sound(Checked(t, found))
      /\ Checked(t, found).pc = "settle" => /\ Checked(t, found) = found
                                           /\ payment[found.pay].value = flow[t].amount
                                           /\ isWithinReceiptWindow(t, found.pay)
  BY <1>1, CheckedSound
<1> QED BY <1>1, <1>2 DEF Sound, Agrees, Bill, found

\* The payments and the flows: what customers do.
LEMMA CustomersBound ==
    ASSUME Bound, [Next]_allVars, UNCHANGED reconVars,
           \/ \E p \in Payments : CreatePayment(p)
           \/ \E t \in Trades, p \in Payments, kind \in Kinds : Pay(t, p, kind)
           \/ Tick
    PROVE  Bound'
<1>1. /\ UNCHANGED <<settled, channelTradeNo, receipt, worker>>
      /\ \A q \in settled' : channelTradeNo'[q] # None
  BY DEF CreatePayment, Pay, Tick, coreVars, payVars, Bound
<1>2. ASSUME NEW p \in Payments, CreatePayment(p) PROVE Bound'
  <2>1. flow' = flow /\ ~Exists(p) /\ importer' = importer
    BY <1>2 DEF CreatePayment, reconVars
  <2>2. Keeps
    BY <1>1, <1>2, <2>1 DEF Keeps, CreatePayment, prepareReceiptPayment, Bound, Pool, Windows
  <2>3. Kinded' BY <1>1, <2>1 DEF Bound, Kinded
  <2> QED BY <1>1, <2>1, <2>2, <2>3, BoundKept
<1>3. CASE Tick
  <2>1. UNCHANGED <<payment, flow, importer>> BY <1>3 DEF Tick, reconVars, payVars
  <2>2. Keeps /\ Kinded' BY <1>1, <2>1 DEF Keeps, Bound, Kinded
  <2> QED BY <1>1, <2>1, <2>2, BoundKept
<1>4. ASSUME NEW t \in Trades, NEW p \in Payments, NEW kind \in Kinds, Pay(t, p, kind)
      PROVE  Bound'
  <2>1. flow[t] = None /\ Exists(p) /\ payment' = payment /\ importer' = importer
    BY <1>4 DEF Pay, payVars, reconVars
  <2> DEFINE remark == IF kind = "noRemark" \/ payment[p].mode # "REMARK" THEN {}
                       ELSE IF kind = "twoRemarks" THEN Payments ELSE {p}
             row == [payer |-> p, kind |-> kind, paidAt |-> now,
                     amount |-> payment[p].value - IF kind = "short" THEN 1 ELSE 0, remark |-> remark]
  <2>2. flow' = [flow EXCEPT ![t] = row] BY <1>4 DEF Pay
  <2>3. row.payer = p /\ row.remark \subseteq Payments OBVIOUS
  <2> HIDE DEF row
  <2>4. /\ flow'[t] = row /\ \A u \in Trades \ {t} : flow'[u] = flow[u]
        /\ flow' = [u \in Trades |-> flow'[u]]
    BY <2>2 DEF Bound, Kinded
  <2>5. Keeps BY <1>1, <2>1, <2>4 DEF Keeps
  <2>6. Kinded' BY <1>1, <2>1, <2>4 DEF Bound, Kinded
  <2>7. \A u \in {t} : FlowOK(u)' BY <2>1, <2>3, <2>4 DEF FlowOK, Exists, Bill
  <2>8. \A u \in Trades : flow'[u] = flow[u] \/ FlowOK(u)' BY <2>4, <2>7
  <2> QED BY <1>1, <2>1, <2>5, <2>6, <2>8, BoundKept
<1> QED BY <1>2, <1>3, <1>4

\* The rows of the receipts that are made, and leases that run out.
LEMMA LeasesBound ==
    ASSUME Bound, [Next]_allVars, UNCHANGED reconVars, NEW t \in Trades, Store(t) \/ LeaseElapses(t)
    PROVE  Bound'
<1>1. UNCHANGED <<settled, channelTradeNo, payment, flow, worker, importer>>
  BY DEF Store, LeaseElapses, coreVars, payVars, reconVars
<1>2. Keeps /\ \A q \in settled' : channelTradeNo'[q] # None BY <1>1 DEF Keeps, Bound
<1>3. /\ receipt' \in [Trades -> Receipts] /\ \A u \in {t} : ReceiptOK(u)'
      /\ \A u \in Trades \ {t} : receipt'[u] = receipt[u]
  <2>1. CASE Store(t)
    <3>1. Put(t, "UNMATCHED", "null", None) /\ flow[t] # None BY <2>1 DEF Store
    <3>2. /\ receipt' \in [Trades -> Receipts] /\ receipt'[t].status = "UNMATCHED"
          /\ \A u \in Trades \ {t} : receipt'[u] = receipt[u]
      BY <3>1, PutMoves
    <3> QED BY <1>1, <3>1, <3>2 DEF ReceiptOK, Made
  <2>2. CASE LeaseElapses(t)
    <3> DEFINE row == [receipt[t] EXCEPT !.lock = "past"]
    <3>1. receipt \in [Trades -> Receipts] /\ receipt[t] \in Receipts BY DEF Bound, Kinded
    <3>2. /\ row \in Receipts /\ row.lock = "past" /\ row.status = receipt[t].status
          /\ row.pay = receipt[t].pay
      BY <3>1 DEF Receipts
    <3>3. receipt' = [receipt EXCEPT ![t] = row] BY <2>2, <3>1 DEF LeaseElapses
    <3> HIDE DEF row
    <3>4. /\ receipt' \in [Trades -> Receipts] /\ receipt'[t] = row
          /\ \A u \in Trades \ {t} : receipt'[u] = receipt[u]
      BY <3>1, <3>2, <3>3
    <3>5. ReceiptOK(t) /\ UNCHANGED <<settled, channelTradeNo, payment, flow>>
      BY <1>1 DEF Bound
    <3>6. \A u \in {t} : ReceiptOK(u)'
      BY <3>2, <3>4, <3>5 DEF ReceiptOK, Made, Paid, Agrees, Exists, Bill, isWithinReceiptWindow
    <3> QED BY <3>4, <3>6
  <2> QED BY <2>1, <2>2
<1>4. Kinded' BY <1>1, <1>3 DEF Bound, Kinded
<1>5. \A u \in Trades : receipt'[u] = receipt[u] \/ ReceiptOK(u)' BY <1>3
<1> QED BY <1>1, <1>2, <1>4, <1>5, BoundKept

\* A worker takes a receipt: to match it, or to reset it first.
LEMMA TakeBound ==
    ASSUME Bound, [Next]_allVars, UNCHANGED reconVars, NEW w \in Workers, NEW t \in Trades,
           Claim(w, t) \/ Rematch(w, t)
    PROVE  Bound'
<1>1. UNCHANGED <<settled, channelTradeNo, payment, flow, importer>>
  BY DEF Claim, Rematch, coreVars, payVars, reconVars
<1>2. Keeps /\ \A q \in settled' : channelTradeNo'[q] # None BY <1>1 DEF Keeps, Bound
<1>3. receipt \in [Trades -> Receipts] BY DEF Bound, Kinded
<1>4. t \in Made
  <2>1. receipt[t].status # "NONE" BY DEF Claim, Claimable, Rematch
  <2> QED BY <2>1 DEF Bound, ReceiptOK
<1>5. PICK pc \in {"locate", "reset"} :
          worker' = [worker EXCEPT ![w] = [Idle EXCEPT !.pc = pc, !.trade = t]]
  BY DEF Claim, Rematch, Start
<1> DEFINE state == [Idle EXCEPT !.pc = pc, !.trade = t]
<1>6. state \in Hands /\ state.pc = pc /\ state.trade = t BY DEF Idle, Hands
<1> HIDE DEF state
<1>7. /\ worker' \in [Workers -> Hands] /\ worker'[w] = state
      /\ \A v \in Workers \ {w} : worker'[v] = worker[v]
  BY <1>5, <1>6, HandMoves DEF state
<1>8. WorkerOK(w)' BY <1>1, <1>4, <1>5, <1>6, <1>7 DEF WorkerOK, Made
<1>9. receipt' \in [Trades -> Receipts] /\ \A u \in Trades : receipt'[u] = receipt[u] \/ ReceiptOK(u)'
  <2>1. CASE Rematch(w, t) BY <1>3, <2>1 DEF Rematch
  <2>2. CASE Claim(w, t)
    <3>1. Put(t, "PROCESSING", "held", receipt[t].pay) /\ receipt[t].pay \in Payments \cup {None}
      BY <1>3, <2>2 DEF Claim, Keep, Receipts
    <3>2. /\ receipt' \in [Trades -> Receipts] /\ receipt'[t].status = "PROCESSING"
          /\ receipt'[t].lock = "held" /\ \A u \in Trades \ {t} : receipt'[u] = receipt[u]
      BY <3>1, PutMoves
    <3>3. \A u \in {t} : ReceiptOK(u)' BY <1>1, <1>4, <3>2 DEF ReceiptOK, Made
    <3> QED BY <3>2, <3>3
  <2> QED BY <2>1, <2>2
<1>10. Kinded' BY <1>1, <1>7, <1>9 DEF Bound, Kinded
<1>11. \A v \in Workers : worker'[v] = worker[v] \/ WorkerOK(v)' BY <1>7, <1>8
<1> QED BY <1>1, <1>2, <1>9, <1>10, <1>11, BoundKept

\* A worker moves on without writing a receipt.
LEMMA MoveBound ==
    ASSUME Bound, [Next]_allVars, UNCHANGED <<flow, receipt, importer>>, Keeps,
           settled' \subseteq Payments, channelTradeNo' \in [Payments -> Trades \cup {None}],
           \A q \in settled' : channelTradeNo'[q] # None,
           NEW w \in Workers, NEW state \in Hands, worker' = [worker EXCEPT ![w] = state], WorkerOK(w)'
    PROVE  Bound'
<1>1. /\ worker' \in [Workers -> Hands] /\ \A v \in Workers \ {w} : worker'[v] = worker[v]
  BY HandMoves
<1>2. Kinded' BY <1>1 DEF Bound, Kinded
<1>3. \A v \in Workers : worker'[v] = worker[v] \/ WorkerOK(v)' BY <1>1
<1> QED BY <1>2, <1>3, BoundKept

LEMMA LocateBound ==
    ASSUME Bound, [Next]_allVars, UNCHANGED reconVars, NEW w \in Workers, Locate(w) PROVE Bound'
<1> DEFINE t == worker[w].trade
           choice == Checked(t, locatePayment(t))
           state == [worker[w] EXCEPT !.pc = choice.pc, !.pay = choice.pay, !.raise = choice.raise]
<1>1. worker[w] \in Hands /\ t \in Trades /\ t \in Made BY InHand DEF Locate
<1>2. choice \in Choices /\ (choice.pc = "settle" => choice.pay \in Payments /\ Agrees(t, choice.pay))
  <2>1. flow[t].remark \subseteq Payments BY <1>1 DEF Bound, FlowOK, Made
  <2> QED BY <1>1, <2>1, LocateAgrees
<1>3. worker' = [worker EXCEPT ![w] = state] BY DEF Locate, Bound, Kinded
<1>4. UNCHANGED <<settled, channelTradeNo, payment, flow, receipt, importer>>
  BY DEF Locate, coreVars, payVars, reconVars
<1> HIDE DEF choice
<1>5. /\ state \in Hands /\ state.pc = choice.pc /\ state.pay = choice.pay /\ state.trade = t
      /\ state.pc \in {"settle", "unmatched", "mismatch"}
  BY <1>1, <1>2 DEF Choices, Hands
<1> HIDE DEF state
<1>6. worker'[w] = state BY <1>3, <1>5, HandMoves
<1>7. state.pc = "settle" => state.pay \in Payments /\ Agrees(state.trade, state.pay)
  BY <1>2, <1>5
<1>8. WorkerOK(w)'
  BY <1>1, <1>4, <1>5, <1>6, <1>7 DEF WorkerOK, Made, Agrees, Exists, Bill, isWithinReceiptWindow
<1>9. Keeps BY <1>4 DEF Keeps
<1> QED BY <1>3, <1>4, <1>5, <1>8, <1>9, MoveBound DEF Bound, Kinded

\* Verdicts other than MATCHED, errors, and the loss of a worker.
LEMMA VerdictsBound ==
    ASSUME Bound, [Next]_allVars, UNCHANGED reconVars, NEW w \in Workers,
           \/ Reset(w) \/ markUnmatched(w) \/ markMismatch(w) \/ Throw(w) \/ Lose(w)
    PROVE  Bound'
<1>1. /\ UNCHANGED <<settled, channelTradeNo, payment, flow, importer>> /\ Done(w)
  BY DEF Reset, markUnmatched, markMismatch, Throw, Lose, RecordError, coreVars, payVars, reconVars
<1>2. CASE Lose(w)
  <2>1. receipt' = receipt BY <1>2 DEF Lose
  <2>2. Keeps /\ \A q \in settled' : channelTradeNo'[q] # None BY <1>1 DEF Keeps, Bound
  <2>3. /\ worker' \in [Workers -> Hands] /\ WorkerOK(w)'
        /\ \A v \in Workers \ {w} : worker'[v] = worker[v]
    BY <1>1, DoneMoves
  <2>4. Kinded' BY <1>1, <2>1, <2>3 DEF Bound, Kinded
  <2>5. \A v \in Workers : worker'[v] = worker[v] \/ WorkerOK(v)' BY <2>3
  <2> QED BY <1>1, <2>1, <2>2, <2>4, <2>5, BoundKept
<1>3. worker[w].pc # "idle" => /\ worker[w].pay \in Payments \cup {None}
                             /\ receipt[worker[w].trade].pay \in Payments \cup {None}
  BY InHand DEF Bound, Kinded, Hands, Receipts
<1>4. CASE Reset(w) \/ Throw(w)
  <2>1. worker[w].pc # "idle" /\ \/ Keep(worker[w].trade, "UNMATCHED", "null")
                                 \/ Keep(worker[w].trade, "PROCESSING", "held")
    BY <1>4 DEF Reset, Throw, RecordError, ErrorLease
  <2> QED BY <1>1, <1>3, <2>1, VerdictBound DEF Keep
<1>5. CASE markUnmatched(w) \/ markMismatch(w)
  <2>1. worker[w].pc # "idle" /\ \/ Put(worker[w].trade, "UNMATCHED", "null", None)
                                 \/ Put(worker[w].trade, "MISMATCH", "null", worker[w].pay)
    BY <1>5 DEF markUnmatched, markMismatch
  <2> QED BY <1>1, <1>3, <2>1, VerdictBound
<1> QED BY <1>2, <1>3, <1>4, <1>5

\* The settlement of what was found.
LEMMA SettleBound ==
    ASSUME Bound, [Next]_allVars, UNCHANGED reconVars, NEW w \in Workers, Settle(w) PROVE Bound'
<1> DEFINE t == worker[w].trade
           p == worker[w].pay
<1>1. worker[w] \in Hands /\ t \in Trades /\ t \in Made BY InHand DEF Settle
<1>2. worker[w].pc = "settle" /\ p \in Payments /\ Agrees(t, p) BY DEF Settle, Bound, WorkerOK
<1>3. flow' = flow /\ importer' = importer BY DEF Settle, reconVars
<1>4. CASE markPaymentSucceeded(p, t) /\ Goto(w, "match") /\ UNCHANGED receipt
  <2> DEFINE state == [worker[w] EXCEPT !.pc = "match"]
  <2>1. state \in Hands /\ state.pc = "match" /\ state.trade = t /\ state.pay = p
    BY <1>1 DEF Hands
  <2>2. worker' = [worker EXCEPT ![w] = state] BY <1>4 DEF Goto, Bound, Kinded
  <2> HIDE DEF state
  <2>3. worker'[w] = state BY <2>1, <2>2, HandMoves
  <2>4. /\ payment' = payment /\ settled' \subseteq Payments
        /\ channelTradeNo' \in [Payments -> Trades \cup {None}]
        /\ \A q \in settled : q \in settled' /\ channelTradeNo'[q] = channelTradeNo[q]
        /\ \A q \in settled' : channelTradeNo'[q] # None
        /\ p \in settled' /\ channelTradeNo'[p] = t
    BY <1>1, <1>2, <1>4, MarkKeeps DEF Paid
  <2>5. Keeps BY <1>3, <2>4 DEF Keeps
  <2>6. WorkerOK(w)'
    BY <1>1, <1>2, <1>3, <2>1, <2>3, <2>4
       DEF WorkerOK, Made, Paid, Agrees, Exists, Bill, isWithinReceiptWindow
  <2> QED BY <1>3, <1>4, <2>1, <2>2, <2>4, <2>5, <2>6, MoveBound
<1>5. CASE /\ worker' = [worker EXCEPT ![w].pc = "refuse", ![w].pay = None, ![w].raise = TRUE]
           /\ UNCHANGED <<coreVars, payVars, receipt>>
  <2> DEFINE state == [worker[w] EXCEPT !.pc = "refuse", !.pay = None, !.raise = TRUE]
  <2>1. state \in Hands /\ state.pc = "refuse" /\ state.trade = t BY <1>1 DEF Hands
  <2>2. worker' = [worker EXCEPT ![w] = state] BY <1>5 DEF Bound, Kinded
  <2> HIDE DEF state
  <2>3. worker'[w] = state BY <2>1, <2>2, HandMoves
  <2>4. UNCHANGED <<settled, channelTradeNo, payment>> BY <1>5 DEF coreVars, payVars
  <2>5. Keeps BY <1>3, <2>4 DEF Keeps
  <2>6. WorkerOK(w)' BY <1>1, <1>3, <2>1, <2>3 DEF WorkerOK, Made
  <2> QED BY <1>3, <1>5, <2>1, <2>2, <2>4, <2>5, <2>6, MoveBound DEF Bound, Kinded
<1>6. CASE RecordError(w) /\ UNCHANGED <<coreVars, payVars>>
  <2>1. UNCHANGED <<settled, channelTradeNo, payment>> BY <1>6 DEF coreVars, payVars
  <2>2. Done(w) /\ Put(t, "PROCESSING", "held", receipt[t].pay)
    BY <1>6 DEF RecordError, ErrorLease, Keep
  <2>3. receipt[t].pay \in Payments \cup {None} BY <1>1 DEF Bound, Kinded, Receipts
  <2> QED BY <1>2, <1>3, <2>1, <2>2, <2>3, VerdictBound
<1> QED BY <1>4, <1>5, <1>6 DEF Settle

\* A verdict of MATCHED: what was found is settled, by this trade.
LEMMA MatchedBound ==
    ASSUME Bound, [Next]_allVars, NEW t \in Made, NEW p \in Payments, Agrees(t, p), Paid(t, p),
           Put(t, "MATCHED", "null", p), UNCHANGED <<settled, channelTradeNo, payment, flow>>,
           worker' \in [Workers -> Hands], importer' \in [Importers -> Imports],
           \A v \in Workers : worker'[v] = worker[v] \/ WorkerOK(v)',
           \A j \in Importers : importer'[j] = importer[j] \/ ImporterOK(j)'
    PROVE  Bound'
<1>1. t \in Trades BY DEF Made
<1>2. /\ receipt' \in [Trades -> Receipts] /\ receipt'[t].status = "MATCHED" /\ receipt'[t].pay = p
      /\ \A u \in Trades \ {t} : receipt'[u] = receipt[u]
  BY <1>1, PutMoves
<1>3. \A u \in {t} : ReceiptOK(u)'
  BY <1>2 DEF ReceiptOK, Made, Paid, Agrees, Exists, Bill, isWithinReceiptWindow
<1>4. \A u \in Trades : receipt'[u] = receipt[u] \/ ReceiptOK(u)' BY <1>2, <1>3
<1>5. Kinded' /\ Keeps /\ \A q \in settled' : channelTradeNo'[q] # None
  BY <1>2 DEF Bound, Kinded, Keeps
<1> QED BY <1>4, <1>5, BoundKept

LEMMA MarkMatchedBound ==
    ASSUME Bound, [Next]_allVars, UNCHANGED reconVars, NEW w \in Workers, MarkMatched(w) PROVE Bound'
<1> DEFINE t == worker[w].trade
           p == worker[w].pay
<1>1. worker[w].pc = "match" /\ Put(t, "MATCHED", "null", p) /\ Done(w) BY DEF MarkMatched
<1>2. t \in Made /\ p \in Payments /\ Agrees(t, p) /\ Paid(t, p)
  BY <1>1 DEF Bound, WorkerOK
<1>3. UNCHANGED <<settled, channelTradeNo, payment, flow, importer>>
  BY DEF MarkMatched, coreVars, payVars, reconVars
<1>4. /\ worker' \in [Workers -> Hands] /\ WorkerOK(w)'
      /\ \A v \in Workers \ {w} : worker'[v] = worker[v]
  BY <1>1, DoneMoves
<1>5. \A v \in Workers : worker'[v] = worker[v] \/ WorkerOK(v)' BY <1>4
<1> QED BY <1>1, <1>2, <1>3, <1>4, <1>5, MatchedBound DEF Bound, Kinded

\* The webhook of the trade.
LEMMA NotifyBound ==
    ASSUME Bound, [Next]_allVars, NEW t \in Trades, Notify(t) PROVE Bound'
<1>1. flow[t].payer \in Payments BY DEF Notify, Listed, Made, Bound, FlowOK
<1>2. /\ payment' = payment /\ settled' \subseteq Payments
      /\ channelTradeNo' \in [Payments -> Trades \cup {None}]
      /\ \A q \in settled : q \in settled' /\ channelTradeNo'[q] = channelTradeNo[q]
      /\ \A q \in settled' : channelTradeNo'[q] # None
  BY <1>1, MarkKeeps DEF Notify
<1>3. UNCHANGED <<flow, receipt, worker, importer>> BY DEF Notify, reconVars
<1>4. Keeps /\ Kinded' BY <1>2, <1>3 DEF Keeps, Bound, Kinded
<1> QED BY <1>2, <1>3, <1>4, BoundKept

-----------------------------------------------------------------------------
(* The import of a bill.                                                   *)

LEMMA ImportMoves ==
    ASSUME Bound, NEW i \in Importers, NEW state \in Imports, importer' = [importer EXCEPT ![i] = state]
    PROVE  /\ importer' \in [Importers -> Imports] /\ importer'[i] = state
           /\ \A j \in Importers \ {i} : importer'[j] = importer[j]
BY DEF Bound, Kinded

LEMMA RestingImports == Resting \in Imports /\ Resting.pc = "idle" /\ Resting.todo = {}
BY DEF Resting, Imports

\* A request that moves on, where the receipts stay as they are.
LEMMA RequestBound ==
    ASSUME Bound, [Next]_allVars, UNCHANGED <<flow, receipt, worker>>, Keeps,
           settled' \subseteq Payments, channelTradeNo' \in [Payments -> Trades \cup {None}],
           \A q \in settled' : channelTradeNo'[q] # None,
           NEW i \in Importers, NEW state \in Imports, importer' = [importer EXCEPT ![i] = state],
           ImporterOK(i)'
    PROVE  Bound'
<1>1. /\ importer' \in [Importers -> Imports]
      /\ \A j \in Importers \ {i} : importer'[j] = importer[j]
  BY ImportMoves
<1>2. Kinded' BY <1>1 DEF Bound, Kinded
<1>3. \A j \in Importers : importer'[j] = importer[j] \/ ImporterOK(j)' BY <1>1
<1> QED BY <1>2, <1>3, BoundKept

\* The trade of a request, and the payment it was found to be for.
LEMMA InImport ==
    ASSUME Bound, NEW i \in Importers,
           importer[i].pc \in {"read", "settle", "fill", "MATCHED", "MISMATCH", "UNMATCHED"}
    PROVE  LET t == importer[i].trade  p == importer[i].pay IN
           /\ importer[i] \in Imports /\ t \in Trades /\ t \in Made /\ t \in Listed
           /\ p \in Payments \cup {None}
           /\ importer[i].pc \in {"settle", "fill", "MATCHED"} =>
                  p \in Payments /\ ~Bill(p) /\ Agrees(t, p)
BY DEF Bound, Kinded, Imports, ImporterOK, Listed, Made

\* Requests that begin, end or fail.
LEMMA RequestsBound ==
    ASSUME Bound, [Next]_allVars, NEW i \in Importers,
           \/ importAlipayBill(i) \/ (\E t \in Trades : matchReceipt(i, t))
           \/ FinishImport(i) \/ FailImport(i) \/ ThrowInImport(i) \/ LoseImport(i)
    PROVE  Bound'
<1>1. UNCHANGED <<settled, channelTradeNo, payment, flow, receipt, worker>>
  BY DEF importAlipayBill, matchReceipt, FinishImport, FailImport, ThrowInImport, LoseImport,
         vars, coreVars, payVars
<1>2. Keeps BY <1>1 DEF Keeps
<1>3. Listed' = Listed BY <1>1 DEF Listed, Made, Bill, Exists
<1>4. Listed \subseteq Trades BY DEF Listed, Made
<1>5. importer \in [Importers -> Imports] /\ importer[i] \in Imports BY DEF Bound, Kinded
<1>6. PICK state \in Imports :
          /\ importer' = [importer EXCEPT ![i] = state]
          /\ state.todo \subseteq Listed
          /\ \/ state.pc \in {"idle", "next", "failed"}
             \/ state.pc = "read" /\ state.trade \in Listed
  <2>1. CASE importAlipayBill(i)
    <3> DEFINE state == [Resting EXCEPT !.pc = "next", !.file = TRUE, !.todo = Listed]
    <3>1. state \in Imports /\ state.todo = Listed /\ state.pc = "next"
      BY <1>4 DEF Resting, Imports
    <3>2. importer' = [importer EXCEPT ![i] = state] BY <2>1 DEF importAlipayBill
    <3> HIDE DEF state
    <3> QED BY <3>1, <3>2
  <2>2. ASSUME NEW t \in Trades, matchReceipt(i, t)
        PROVE  \E state \in Imports :
                   /\ importer' = [importer EXCEPT ![i] = state]
                   /\ state.todo \subseteq Listed
                   /\ state.pc = "read" /\ state.trade \in Listed
    <3> DEFINE state == [Resting EXCEPT !.pc = "read", !.trade = t]
    <3>1. state \in Imports /\ state.todo = {} /\ state.pc = "read" /\ state.trade = t
      BY <2>2 DEF Resting, Imports
    <3>2. importer' = [importer EXCEPT ![i] = state] /\ t \in Listed BY <2>2 DEF matchReceipt
    <3> HIDE DEF state
    <3> QED BY <3>1, <3>2
  <2>3. CASE FinishImport(i) \/ FailImport(i) \/ LoseImport(i)
    BY <2>3, RestingImports DEF FinishImport, FailImport, LoseImport
  <2>4. CASE ThrowInImport(i)
    <3> DEFINE state == [importer[i] EXCEPT !.pc = "failed"]
    <3>1. state \in Imports /\ state.todo = importer[i].todo /\ state.pc = "failed"
      BY <1>5 DEF Imports
    <3>2. importer' = [importer EXCEPT ![i] = state] BY <1>5, <2>4 DEF ThrowInImport, Move
    <3> HIDE DEF state
    <3>3. importer[i].todo \subseteq Listed BY DEF Bound, ImporterOK
    <3> QED BY <3>1, <3>2, <3>3
  <2> QED BY <2>1, <2>2, <2>3, <2>4
<1>7. importer'[i] = state BY <1>6, ImportMoves
<1>8. ImporterOK(i)' BY <1>3, <1>6, <1>7 DEF ImporterOK
<1> QED BY <1>1, <1>2, <1>6, <1>8, RequestBound DEF Bound, Kinded

\* A row of the file is stored, or is known.
LEMMA StoreRowBound ==
    ASSUME Bound, [Next]_allVars, NEW i \in Importers, NEW t \in Trades, StoreRow(i, t) PROVE Bound'
<1>1. UNCHANGED <<settled, channelTradeNo, payment, flow, worker>>
  BY DEF StoreRow, coreVars, payVars
<1>2. Keeps /\ (\A q \in settled' : channelTradeNo'[q] # None) /\ Listed' = Listed
  BY <1>1 DEF Keeps, Bound, Listed, Made, Bill, Exists
<1>3. importer \in [Importers -> Imports] /\ importer[i] \in Imports /\ receipt \in [Trades -> Receipts]
  BY DEF Bound, Kinded
<1>4. t \in Listed /\ importer[i].todo \subseteq Listed /\ t \in Made
  BY DEF StoreRow, Bound, ImporterOK, Listed
<1> DEFINE state == [importer[i] EXCEPT !.pc = "read", !.trade = t, !.todo = @ \ {t}]
<1>5. /\ state \in Imports /\ state.pc = "read" /\ state.trade = t
      /\ state.todo = importer[i].todo \ {t}
  BY <1>3 DEF Imports
<1>6. importer' = [importer EXCEPT ![i] = state] BY <1>3 DEF StoreRow
<1> HIDE DEF state
<1>7. /\ importer' \in [Importers -> Imports] /\ importer'[i] = state
      /\ \A j \in Importers \ {i} : importer'[j] = importer[j]
  BY <1>5, <1>6, ImportMoves
<1>8. ImporterOK(i)' BY <1>2, <1>4, <1>5, <1>7 DEF ImporterOK
<1>9. receipt' \in [Trades -> Receipts] /\ \A u \in Trades : receipt'[u] = receipt[u] \/ ReceiptOK(u)'
  <2>1. CASE receipt' = receipt BY <1>3, <2>1
  <2>2. CASE Put(t, "UNMATCHED", "null", None)
    <3>1. /\ receipt' \in [Trades -> Receipts] /\ receipt'[t].status = "UNMATCHED"
          /\ \A u \in Trades \ {t} : receipt'[u] = receipt[u]
      BY <2>2, PutMoves
    <3>2. \A u \in {t} : ReceiptOK(u)' BY <1>1, <1>4, <3>1 DEF ReceiptOK, Made
    <3> QED BY <3>1, <3>2
  <2> QED BY <2>1, <2>2 DEF StoreRow
<1>10. Kinded' BY <1>1, <1>7, <1>9 DEF Bound, Kinded
<1>11. \A j \in Importers : importer'[j] = importer[j] \/ ImporterOK(j)' BY <1>7, <1>8
<1> QED BY <1>1, <1>2, <1>9, <1>10, <1>11, BoundKept

\* What matchIncome takes for the payment of a trade.
LEMMA IncomeFound ==
    ASSUME Bound, NEW i \in Importers, ReadIncome(i)
    PROVE  \E pc \in {"settle", "MISMATCH", "UNMATCHED"}, p \in Payments \cup {None}, fill \in BOOLEAN :
               /\ importer' = [importer EXCEPT ![i] = [importer[i] EXCEPT !.pc = pc, !.pay = p, !.fill = fill]]
               /\ pc = "settle" => p \in Payments /\ ~Bill(p) /\ Agrees(importer[i].trade, p)
<1> DEFINE t == importer[i].trade
           byMerchant == IF flow[t].kind = "noRemark" THEN {} ELSE {flow[t].payer}
           found == IF byMerchant # {} THEN byMerchant ELSE ByTrade(t)
           p == OneOf(IF \E q \in ByTrade(t) : Bill(q) THEN ByTrade(t) ELSE found)
           refused == \/ Bill(p) \/ ByTrade(t) \notin {{}, found}
                      \/ payment[p].value # flow[t].amount
                      \/ channelTradeNo[p] \notin {None, t}
<1>1. /\ importer[i] \in Imports /\ t \in Made
      /\ importer \in [Importers -> Imports] /\ flow[t].payer \in Payments /\ Exists(flow[t].payer)
  BY InImport DEF ReadIncome, At, Bound, Kinded, FlowOK, Made
<1>2. /\ found \subseteq {q \in Payments : Exists(q)}
      /\ ByTrade(t) \subseteq {q \in Payments : Exists(q)}
  BY <1>1 DEF ByTrade
<1>3. CASE found = {}
  <2>1. importer' = [importer EXCEPT ![i] = [importer[i] EXCEPT !.pc = "UNMATCHED", !.pay = None]]
    BY <1>1, <1>3 DEF ReadIncome
  <2>2. [importer[i] EXCEPT !.pc = "UNMATCHED", !.pay = None]
            = [importer[i] EXCEPT !.pc = "UNMATCHED", !.pay = None, !.fill = importer[i].fill]
    BY <1>1 DEF Imports
  <2>3. importer[i].fill \in BOOLEAN BY <1>1 DEF Imports
  <2> QED BY <2>1, <2>2, <2>3
<1>4. CASE found # {}
  <2>1. p \in Payments /\ Exists(p)
    <3>1. PICK S : S = IF \E q \in ByTrade(t) : Bill(q) THEN ByTrade(t) ELSE found OBVIOUS
    <3>2. S # {} /\ S \subseteq {q \in Payments : Exists(q)} BY <1>2, <1>4, <3>1
    <3> QED BY <3>1, <3>2, OneOfOne
  <2>2. PICK r : r = refused OBVIOUS
  <2>3. PICK fill \in BOOLEAN : fill = (channelTradeNo[p] = None) OBVIOUS
  <2>4. importer' = [importer EXCEPT ![i] = [importer[i] EXCEPT
            !.pc = IF r THEN "MISMATCH" ELSE "settle", !.pay = p, !.fill = fill]]
    BY <1>1, <1>4, <2>2, <2>3 DEF ReadIncome
  <2>5. ~r => ~Bill(p) /\ Agrees(t, p) BY <2>1, <2>2 DEF Agrees
  <2> HIDE DEF p
  <2>6. CASE r BY <2>1, <2>4, <2>6
  <2>7. CASE ~r BY <2>1, <2>4, <2>5, <2>7
  <2> QED BY <2>6, <2>7
<1> QED BY <1>3, <1>4

LEMMA ReadIncomeBound ==
    ASSUME Bound, [Next]_allVars, NEW i \in Importers, ReadIncome(i) PROVE Bound'
<1> DEFINE t == importer[i].trade
<1>1. importer[i] \in Imports /\ t \in Listed /\ t \in Trades BY InImport DEF ReadIncome, At
<1>2. UNCHANGED <<settled, channelTradeNo, payment, flow, receipt, worker>>
  BY DEF ReadIncome, vars, coreVars, payVars
<1>3. PICK pc \in {"settle", "MISMATCH", "UNMATCHED"}, p \in Payments \cup {None}, fill \in BOOLEAN :
          /\ importer' = [importer EXCEPT ![i] = [importer[i] EXCEPT !.pc = pc, !.pay = p, !.fill = fill]]
          /\ pc = "settle" => p \in Payments /\ ~Bill(p) /\ Agrees(t, p)
  BY IncomeFound
<1> DEFINE state == [importer[i] EXCEPT !.pc = pc, !.pay = p, !.fill = fill]
<1>4. /\ state \in Imports /\ state.pc = pc /\ state.pay = p /\ state.trade = t
      /\ state.todo = importer[i].todo
  BY <1>1 DEF Imports
<1> HIDE DEF state
<1>5. importer'[i] = state BY <1>3, <1>4, ImportMoves DEF state
<1>6. Listed' = Listed /\ importer[i].todo \subseteq Listed
  BY <1>2 DEF Listed, Made, Bill, Exists, Bound, ImporterOK
<1>7. ImporterOK(i)'
  BY <1>1, <1>2, <1>3, <1>4, <1>5, <1>6
     DEF ImporterOK, Agrees, Bill, Exists, isWithinReceiptWindow
<1>8. Keeps BY <1>2 DEF Keeps
<1> QED BY <1>2, <1>3, <1>4, <1>7, <1>8, RequestBound DEF state, Bound, Kinded

LEMMA SettleIncomeBound ==
    ASSUME Bound, [Next]_allVars, NEW i \in Importers, SettleIncome(i) PROVE Bound'
<1> DEFINE t == importer[i].trade
           p == importer[i].pay
<1>1. /\ importer[i] \in Imports /\ t \in Trades /\ t \in Listed /\ t \in Made
      /\ p \in Payments /\ ~Bill(p) /\ Agrees(t, p)
  BY InImport DEF SettleIncome, At
<1>2. UNCHANGED <<flow, receipt, worker>> /\ importer[i].todo \subseteq Listed
  BY DEF SettleIncome, Bound, ImporterOK
<1>3. \A pc \in {"fill", "MATCHED", "failed"} :
          LET state == [importer[i] EXCEPT !.pc = pc] IN
          /\ state \in Imports /\ state.pc = pc /\ state.trade = t /\ state.pay = p
          /\ state.todo = importer[i].todo
  BY <1>1 DEF Imports
<1>4. importer \in [Importers -> Imports] BY DEF Bound, Kinded
<1>5. CASE markPaymentSucceeded(p, t) /\ Move(i, IF importer[i].fill THEN "fill" ELSE "MATCHED")
  <2>1. PICK pc \in {"fill", "MATCHED"} : Move(i, pc) BY <1>5
  <2> DEFINE state == [importer[i] EXCEPT !.pc = pc]
  <2>2. importer' = [importer EXCEPT ![i] = state] BY <1>4, <2>1 DEF Move
  <2>3. /\ state \in Imports /\ state.pc = pc /\ state.trade = t /\ state.pay = p
        /\ state.todo = importer[i].todo
    BY <1>3
  <2> HIDE DEF state
  <2>4. importer'[i] = state BY <2>2, <2>3, ImportMoves
  <2>5. /\ payment' = payment /\ settled' \subseteq Payments
        /\ channelTradeNo' \in [Payments -> Trades \cup {None}]
        /\ \A q \in settled : q \in settled' /\ channelTradeNo'[q] = channelTradeNo[q]
        /\ \A q \in settled' : channelTradeNo'[q] # None
        /\ p \in settled' /\ channelTradeNo'[p] = t
    BY <1>1, <1>5, MarkKeeps DEF Paid
  <2>6. Keeps /\ Listed' = Listed
    BY <1>2, <2>5 DEF Keeps, Listed, Made, Bill, Exists
  <2>7. ImporterOK(i)'
    BY <1>1, <1>2, <2>1, <2>3, <2>4, <2>5, <2>6
       DEF ImporterOK, Paid, Agrees, Bill, Exists, isWithinReceiptWindow
  <2> QED BY <1>2, <2>2, <2>3, <2>5, <2>6, <2>7, RequestBound
<1>6. CASE Move(i, "failed") /\ UNCHANGED <<coreVars, payVars>>
  <2> DEFINE state == [importer[i] EXCEPT !.pc = "failed"]
  <2>1. importer' = [importer EXCEPT ![i] = state] BY <1>4, <1>6 DEF Move
  <2>2. state \in Imports /\ state.pc = "failed" /\ state.todo = importer[i].todo BY <1>3
  <2> HIDE DEF state
  <2>3. importer'[i] = state BY <2>1, <2>2, ImportMoves
  <2>4. UNCHANGED <<settled, channelTradeNo, payment>> BY <1>6 DEF coreVars, payVars
  <2>5. Keeps /\ Listed' = Listed BY <1>2, <2>4 DEF Keeps, Listed, Made, Bill, Exists
  <2>6. ImporterOK(i)' BY <1>2, <2>2, <2>3, <2>5 DEF ImporterOK
  <2> QED BY <1>2, <2>1, <2>2, <2>4, <2>5, <2>6, RequestBound DEF Bound, Kinded
<1> QED BY <1>5, <1>6 DEF SettleIncome

\* The trade that is filled in is the one that settled the payment.
LEMMA FillTradeBound ==
    ASSUME Bound, [Next]_allVars, NEW i \in Importers, FillTrade(i) PROVE Bound'
<1> DEFINE t == importer[i].trade
           p == importer[i].pay
<1>1. /\ importer[i] \in Imports /\ t \in Trades /\ t \in Listed
      /\ p \in Payments /\ ~Bill(p) /\ Agrees(t, p)
  BY InImport DEF FillTrade, At
<1>2. /\ UNCHANGED <<settled, payment, flow, receipt, worker>>
      /\ importer[i].todo \subseteq Listed /\ Paid(t, p)
  BY DEF FillTrade, At, coreVars, Bound, ImporterOK
<1>3. /\ importer \in [Importers -> Imports] /\ channelTradeNo \in [Payments -> Trades \cup {None}]
  BY DEF Bound, Kinded
<1>4. channelTradeNo' = channelTradeNo BY <1>1, <1>2, <1>3 DEF FillTrade, Paid, Agrees
<1>5. PICK pc \in {"MATCHED", "failed"} : Move(i, pc) BY DEF FillTrade
<1> DEFINE state == [importer[i] EXCEPT !.pc = pc]
<1>6. importer' = [importer EXCEPT ![i] = state] BY <1>3, <1>5 DEF Move
<1>7. /\ state \in Imports /\ state.pc = pc /\ state.trade = t /\ state.pay = p
      /\ state.todo = importer[i].todo
  BY <1>1 DEF Imports
<1> HIDE DEF state
<1>8. importer'[i] = state BY <1>6, <1>7, ImportMoves
<1>9. Keeps /\ Listed' = Listed BY <1>2, <1>4 DEF Keeps, Listed, Made, Bill, Exists
<1>10. ImporterOK(i)'
  BY <1>1, <1>2, <1>4, <1>5, <1>7, <1>8, <1>9
     DEF ImporterOK, Paid, Agrees, Bill, Exists, isWithinReceiptWindow
<1> QED BY <1>2, <1>4, <1>6, <1>7, <1>9, <1>10, RequestBound DEF Bound, Kinded

LEMMA MarkBound ==
    ASSUME Bound, [Next]_allVars, NEW i \in Importers, Mark(i) PROVE Bound'
<1> DEFINE t == importer[i].trade
           p == importer[i].pay
<1>1. /\ importer[i] \in Imports /\ t \in Trades /\ t \in Made
      /\ p \in Payments \cup {None} /\ importer[i].pc \in {"MATCHED", "MISMATCH", "UNMATCHED"}
      /\ At(i, "MATCHED") => p \in Payments /\ Agrees(t, p) /\ Paid(t, p)
  BY InImport DEF Mark, At, Bound, ImporterOK
<1>2. UNCHANGED <<settled, channelTradeNo, payment, flow, worker>>
  BY DEF Mark, coreVars, payVars
<1>3. Listed' = Listed /\ importer[i].todo \subseteq Listed
  BY <1>2 DEF Listed, Made, Bill, Exists, Bound, ImporterOK
<1>4. importer' \in [Importers -> Imports] /\ \A j \in Importers : importer'[j] = importer[j] \/ ImporterOK(j)'
  <2>1. PICK state \in Imports :
            /\ importer' = [importer EXCEPT ![i] = state]
            /\ state.pc \in {"idle", "next"} /\ state.todo \subseteq Listed
    <3> DEFINE state == [importer[i] EXCEPT !.pc = "next", !.trade = None, !.pay = None, !.fill = FALSE]
    <3>1. state \in Imports /\ state.pc = "next" /\ state.todo = importer[i].todo
      BY <1>1 DEF Imports
    <3>2. \/ importer' = [importer EXCEPT ![i] = state]
          \/ importer' = [importer EXCEPT ![i] = Resting]
      BY DEF Mark, Bound, Kinded
    <3> HIDE DEF state
    <3> QED BY <1>3, <3>1, <3>2, RestingImports
  <2>2. /\ importer' \in [Importers -> Imports] /\ importer'[i] = state
        /\ \A j \in Importers \ {i} : importer'[j] = importer[j]
    BY <2>1, ImportMoves
  <2>3. ImporterOK(i)' BY <1>3, <2>1, <2>2 DEF ImporterOK
  <2> QED BY <2>2, <2>3
<1>5. CASE At(i, "MATCHED")
  <2>1. Put(t, "MATCHED", "null", p) BY <1>5 DEF Mark, At
  <2> QED BY <1>1, <1>2, <1>4, <1>5, <2>1, MatchedBound DEF Bound, Kinded
<1>6. CASE ~At(i, "MATCHED")
  <2>1. Put(t, importer[i].pc, "null", p) /\ importer[i].pc \in {"MISMATCH", "UNMATCHED"}
    BY <1>1, <1>6 DEF Mark, At
  <2>2. /\ receipt' \in [Trades -> Receipts] /\ receipt'[t].status \in {"MISMATCH", "UNMATCHED"}
        /\ \A u \in Trades \ {t} : receipt'[u] = receipt[u]
    BY <1>1, <2>1, PutMoves
  <2>3. \A u \in {t} : ReceiptOK(u)' BY <1>1, <1>2, <2>2 DEF ReceiptOK, Made
  <2>4. \A u \in Trades : receipt'[u] = receipt[u] \/ ReceiptOK(u)' BY <2>2, <2>3
  <2>5. Keeps /\ Kinded' /\ \A q \in settled' : channelTradeNo'[q] # None
    BY <1>2, <1>4, <2>2 DEF Keeps, Bound, Kinded
  <2> QED BY <1>2, <1>4, <2>4, <2>5, BoundKept
<1> QED BY <1>5, <1>6

-----------------------------------------------------------------------------

LEMMA BoundStep == Bound /\ [Next]_allVars => Bound'
<1> SUFFICES ASSUME Bound, [Next]_allVars PROVE Bound' OBVIOUS
<1>1. CASE FlowNext /\ UNCHANGED reconVars
  BY <1>1, CustomersBound, LeasesBound, TakeBound, LocateBound, SettleBound, MarkMatchedBound,
     VerdictsBound DEF FlowNext, Handle
<1>2. CASE \E t \in Trades : Notify(t) BY <1>2, NotifyBound
<1>3. ASSUME NEW i \in Importers,
             \/ importAlipayBill(i) \/ (\E t \in Trades : matchReceipt(i, t))
             \/ Request(i) \/ ThrowInImport(i) \/ LoseImport(i)
      PROVE  Bound'
  BY <1>3, RequestsBound, StoreRowBound, ReadIncomeBound, SettleIncomeBound, FillTradeBound,
     MarkBound DEF Request
<1>4. CASE UNCHANGED allVars
  <2>1. UNCHANGED <<settled, channelTradeNo, payment, flow, receipt, worker, importer>>
    BY <1>4 DEF allVars, vars, coreVars, payVars, reconVars
  <2>2. Keeps /\ Kinded' /\ \A q \in settled' : channelTradeNo'[q] # None
    BY <2>1 DEF Keeps, Bound, Kinded
  <2> QED BY <2>1, <2>2, BoundKept
<1> QED BY <1>1, <1>2, <1>3, <1>4 DEF Next

\* A receipt that is MATCHED belongs to a payment that this very trade settled, of the
\* same amount and in its window, whoever wrote it and however late.
THEOREM MatchedIsBoundCorrect == Spec => []MatchedIsBound
<1>1. Bound => MatchedIsBound
  BY DEF Bound, ReceiptOK, Paid, Agrees, MatchedIsBound
<1> QED BY <1>1, BoundInit, BoundStep, PTL DEF Spec

\* A flow that is undecided has a lease, which runs out and lets the tick find it.
THEOREM UndecidedIsFoundCorrect == Spec => []UndecidedIsFound
<1>1. Bound => UndecidedIsFound BY DEF Bound, ReceiptOK, UndecidedIsFound
<1> QED BY <1>1, BoundInit, BoundStep, PTL DEF Spec

-----------------------------------------------------------------------------
(* The money of a careful customer.                                        *)

\* Who sets the trade of a payment: a worker for what it found, or the account's own
\* webhook and bill.
LEMMA SettlingSteps ==
    ASSUME Bound, [Next]_allVars
    PROVE  \/ UNCHANGED <<coreVars, channelTradeNo>>
           \/ \E w \in Workers : /\ worker[w].pc = "settle"
                                 /\ markPaymentSucceeded(worker[w].pay, worker[w].trade)
           \/ \E t \in Listed, p \in Payments :
                  ~Bill(p) /\ Agrees(t, p) /\ markPaymentSucceeded(p, t)
<1>1. CASE UNCHANGED allVars BY <1>1 DEF allVars, vars, coreVars, payVars
<1>2. ASSUME NEW w \in Workers, NEW t \in Trades, Claim(w, t) \/ Rematch(w, t)
      PROVE  UNCHANGED <<coreVars, channelTradeNo>>
  BY <1>2 DEF Claim, Rematch, coreVars, payVars
<1>3. ASSUME NEW w \in Workers, Handle(w) \/ Throw(w) \/ Lose(w)
      PROVE  \/ UNCHANGED <<coreVars, channelTradeNo>>
             \/ /\ worker[w].pc = "settle"
                /\ markPaymentSucceeded(worker[w].pay, worker[w].trade)
  BY <1>3 DEF Handle, Reset, Locate, Settle, MarkMatched, markUnmatched, markMismatch, Throw, Lose,
              coreVars, payVars
<1>4. ASSUME NEW t \in Trades, Store(t) \/ LeaseElapses(t)
      PROVE  UNCHANGED <<coreVars, channelTradeNo>>
  BY <1>4 DEF Store, LeaseElapses, coreVars, payVars
<1>5. ASSUME \/ \E p \in Payments : CreatePayment(p)
             \/ \E t \in Trades, p \in Payments, kind \in Kinds : Pay(t, p, kind)
             \/ Tick
      PROVE  UNCHANGED <<coreVars, channelTradeNo>>
  BY <1>5 DEF CreatePayment, Pay, Tick, coreVars, payVars
<1>6. ASSUME NEW i \in Importers,
             \/ importAlipayBill(i) \/ (\E t \in Trades : matchReceipt(i, t))
             \/ (\E t \in Trades : StoreRow(i, t)) \/ ReadIncome(i) \/ Mark(i)
             \/ FinishImport(i) \/ FailImport(i) \/ ThrowInImport(i) \/ LoseImport(i)
      PROVE  UNCHANGED <<coreVars, channelTradeNo>>
  <2>1. CASE importAlipayBill(i) \/ ReadIncome(i) \/ FinishImport(i) \/ FailImport(i)
    BY <2>1 DEF importAlipayBill, ReadIncome, FinishImport, FailImport, vars, payVars
  <2>2. CASE \E t \in Trades : matchReceipt(i, t) \/ StoreRow(i, t)
    BY <2>2 DEF matchReceipt, StoreRow, vars, payVars
  <2>3. CASE Mark(i) \/ ThrowInImport(i) \/ LoseImport(i)
    BY <2>3 DEF Mark, ThrowInImport, LoseImport, payVars
  <2> QED BY <1>6, <2>1, <2>2, <2>3
<1>7. ASSUME NEW i \in Importers, FillTrade(i) PROVE UNCHANGED <<coreVars, channelTradeNo>>
  <2>1. importer[i].pay \in Payments /\ Paid(importer[i].trade, importer[i].pay)
    BY <1>7, InImport DEF FillTrade, At, Bound, ImporterOK
  <2>2. channelTradeNo \in [Payments -> Trades \cup {None}] BY DEF Bound, Kinded
  <2> QED BY <1>7, <2>1, <2>2 DEF FillTrade, Paid, coreVars
<1>8. ASSUME NEW i \in Importers, SettleIncome(i)
      PROVE  \/ UNCHANGED <<coreVars, channelTradeNo>>
             \/ \E t \in Listed, p \in Payments :
                    ~Bill(p) /\ Agrees(t, p) /\ markPaymentSucceeded(p, t)
  <2>1. /\ importer[i].trade \in Listed /\ importer[i].pay \in Payments
        /\ ~Bill(importer[i].pay) /\ Agrees(importer[i].trade, importer[i].pay)
    BY <1>8, InImport DEF SettleIncome, At
  <2> QED BY <1>8, <2>1 DEF SettleIncome, coreVars, payVars
<1>9. ASSUME NEW t \in Trades, Notify(t)
      PROVE  \E p \in Payments :
                 t \in Listed /\ ~Bill(p) /\ Agrees(t, p) /\ markPaymentSucceeded(p, t)
  <2>1. t \in Listed /\ flow[t] # None BY <1>9 DEF Notify, Listed, Made
  <2>2. flow[t].payer \in Payments /\ Exists(flow[t].payer) BY <2>1 DEF Bound, FlowOK
  <2>3. ~Bill(flow[t].payer) /\ Agrees(t, flow[t].payer)
    BY <1>9, <2>1, <2>2 DEF Notify, Listed, Agrees
  <2> QED BY <1>9, <2>1, <2>2, <2>3 DEF Notify
<1> QED BY <1>1, <1>2, <1>3, <1>4, <1>5, <1>6, <1>7, <1>8, <1>9 DEF Next, FlowNext, Request

LEMMA TradeNoSteps ==
    ASSUME Bound, [Next]_allVars
    PROVE  \/ UNCHANGED <<settled, channelTradeNo>>
           \/ \E w \in Workers : /\ worker[w].pc = "settle"
                                 /\ markPaymentSucceeded(worker[w].pay, worker[w].trade)
           \/ \E t \in Listed, p \in Payments :
                  ~Bill(p) /\ Agrees(t, p) /\ markPaymentSucceeded(p, t)
BY SettlingSteps DEF coreVars

LEMMA MarkSets ==
    ASSUME Bound, NEW p \in Payments, NEW t \in Trades, markPaymentSucceeded(p, t)
    PROVE  \A q \in Payments : channelTradeNo'[q] = channelTradeNo[q] \/ (q = p /\ channelTradeNo'[q] = t)
BY DEF markPaymentSucceeded, Bound, Kinded

\* What is left of the flows and the rows.
LEMMA FlowSteps ==
    ASSUME [Next]_allVars
    PROVE  \/ \E t \in Trades, p \in Payments, kind \in Kinds : Pay(t, p, kind)
           \/ UNCHANGED flow
<1>1. CASE UNCHANGED allVars BY <1>1 DEF allVars, vars
<1>2. ASSUME NEW w \in Workers, NEW t \in Trades, Claim(w, t) \/ Rematch(w, t) PROVE flow' = flow
  BY <1>2 DEF Claim, Rematch
<1>3. ASSUME NEW w \in Workers, Handle(w) \/ Throw(w) \/ Lose(w) PROVE flow' = flow
  BY <1>3 DEF Handle, Reset, Locate, Settle, MarkMatched, markUnmatched, markMismatch, Throw, Lose
<1>4. ASSUME NEW t \in Trades, Store(t) \/ LeaseElapses(t) \/ Notify(t) PROVE flow' = flow
  BY <1>4 DEF Store, LeaseElapses, Notify
<1>5. ASSUME (\E p \in Payments : CreatePayment(p)) \/ Tick PROVE flow' = flow
  BY <1>5 DEF CreatePayment, Tick
<1>6. ASSUME NEW i \in Importers, NEW t \in Trades, matchReceipt(i, t) \/ StoreRow(i, t) PROVE flow' = flow
  BY <1>6 DEF matchReceipt, StoreRow, vars
<1>7. ASSUME NEW i \in Importers,
             \/ importAlipayBill(i) \/ ReadIncome(i) \/ SettleIncome(i) \/ FillTrade(i) \/ Mark(i)
             \/ FinishImport(i) \/ FailImport(i) \/ ThrowInImport(i) \/ LoseImport(i)
      PROVE  flow' = flow
  BY <1>7 DEF importAlipayBill, ReadIncome, SettleIncome, FillTrade, Mark, FinishImport,
              FailImport, ThrowInImport, LoseImport, vars
<1> QED BY <1>1, <1>2, <1>3, <1>4, <1>5, <1>6, <1>7 DEF Next, FlowNext, Request

LEMMA KeepsStep == ASSUME Bound, [Next]_allVars PROVE Keeps
<1>1. \A p \in Payments : Exists(p) => payment'[p] = payment[p]
  BY RowsOrClock DEF CreatePayment, prepareReceiptPayment, Tick, payVars, Bound, Pool, Windows
<1>2. \A t \in Trades : flow[t] # None => flow'[t] = flow[t]
  BY FlowSteps DEF Pay, Bound, Kinded
<1>3. \A p \in settled : p \in settled' /\ channelTradeNo'[p] = channelTradeNo[p]
  <2>1. ASSUME NEW w \in Workers, worker[w].pc = "settle",
               markPaymentSucceeded(worker[w].pay, worker[w].trade)
        PROVE  \A p \in settled : p \in settled' /\ channelTradeNo'[p] = channelTradeNo[p]
    <3>1. worker[w].pay \in Payments /\ worker[w].trade \in Trades
      BY <2>1, InHand DEF Bound, WorkerOK
    <3> QED BY <2>1, <3>1, MarkKeeps
  <2>2. ASSUME NEW t \in Listed, NEW q \in Payments, markPaymentSucceeded(q, t)
        PROVE  \A p \in settled : p \in settled' /\ channelTradeNo'[p] = channelTradeNo[p]
    BY <2>2, MarkKeeps DEF Listed, Made
  <2> QED BY <2>1, <2>2, TradeNoSteps
<1> QED BY <1>1, <1>2, <1>3 DEF Keeps

\* A flow that pays what is shown says so.
ShownOK(t) ==
    LET p == flow[t].payer IN
    flow[t] # None /\ flow[t].kind = "asShown" =>
        /\ flow[t].amount = payment[p].value
        /\ flow[t].remark = IF payment[p].mode = "REMARK" THEN {p} ELSE {}

\* What a worker has found for a careful customer is right, and what it refuses is shown.
HandOK(w) ==
    LET t == worker[w].trade IN
    worker[w].pc # "idle" /\ Careful(t) =>
        /\ worker[w].pc = "settle" => worker[w].pay = flow[t].payer
        /\ worker[w].pc \in {"mismatch", "refuse"} => worker[w].raise = TRUE

Credit ==
    /\ \A p \in Payments : Exists(p) => payment[p].mode \in {"AMOUNT", "REMARK", "NONE"}
    /\ \A p \in Payments : channelTradeNo[p] # None => channelTradeNo[p] \in Made
    /\ \A t \in Trades : ShownOK(t)
    /\ CreditedToPayer /\ CarefulIsSeen
    /\ \A w \in Workers : HandOK(w)

Fair == Bound /\ Credit

LEMMA CreditInit == AllInit => Credit
<1> SUFFICES ASSUME AllInit PROVE Credit OBVIOUS
<1>1. Init BY DEF AllInit
<1> QED BY <1>1, FlowAssumption
        DEF Init, Credit, ShownOK, HandOK, CreditedToPayer, CarefulIsSeen, Careful, Exists, Idle, NoReceipt

\* The sole candidate by amount is the payer, who is one of them.
LEMMA SoleIsPayer ==
    ASSUME NEW S, S \subseteq Payments, NEW p \in S
    PROVE  /\ Sole(S).pc = "settle" => Sole(S).pay = p
           /\ Sole(S).pc = "mismatch" => Sole(S).raise = TRUE
<1>1. IsFiniteSet(S) BY FlowAssumption, FS_Subset
<1>2. Cardinality(S) > 1 \/ S = {p}
  <2>1. IsFiniteSet({p}) /\ Cardinality({p}) = 1 BY FS_Singleton
  <2>2. Cardinality({p}) <= Cardinality(S) /\ (Cardinality(S) = Cardinality({p}) => S = {p})
    BY <1>1, FS_Subset
  <2>3. Cardinality(S) \in Nat BY <1>1, FS_CardinalityType
  <2> QED BY <2>1, <2>2, <2>3
<1>3. CASE Cardinality(S) > 1 BY <1>3 DEF Sole, Mismatch, To
<1>4. CASE ~(Cardinality(S) > 1)
  <2>1. S = {p} BY <1>2, <1>4
  <2>2. OneOf(S) = p BY <2>1, OneOfOne
  <2>3. Sole(S) = To("settle", OneOf(S), FALSE) BY <1>4, <2>1 DEF Sole
  <2> QED BY <2>2, <2>3 DEF To
<1> QED BY <1>3, <1>4

\* Matching finds the careful customer, or shows the flow to the operator.
LEMMA LocateCareful ==
    ASSUME Fair, NEW t \in Made, Careful(t)
    PROVE  LET choice == Checked(t, locatePayment(t)) IN
           /\ choice.pc = "settle" => choice.pay = flow[t].payer
           /\ choice.pc = "mismatch" => choice.raise = TRUE
<1> DEFINE p == flow[t].payer
           found == locatePayment(t)
<1>1. /\ t \in Trades /\ p \in Payments /\ Bill(p) /\ isWithinReceiptWindow(t, p)
      /\ flow[t].kind = "asShown" /\ flow[t].amount = payment[p].value
      /\ flow[t].remark = IF payment[p].mode = "REMARK" THEN {p} ELSE {}
      /\ payment[p].mode \in {"AMOUNT", "REMARK"}
  BY DEF Fair, Bound, Credit, FlowOK, ShownOK, Careful, Made, Bill
<1>2. Direct(t) = {} /\ ByTrade(t) \subseteq {p}
  BY <1>1 DEF Direct, ByTrade, Fair, Credit, CreditedToPayer
<1>3. p \in Fits(t) BY <1>1 DEF Fits
<1>4. /\ \A q, raise : Mismatch(q, raise).pc = "mismatch" /\ Mismatch(q, raise).raise = raise
      /\ \A q : To("settle", q, FALSE).pc = "settle" /\ To("settle", q, FALSE).pay = q
  BY DEF Mismatch, To
<1>5. /\ found.pc = "settle" => found.pay = p
      /\ found.pc = "mismatch" => found.raise = TRUE
  <2>1. CASE ByTrade(t) # {}
    <3>1. ByTrade(t) = {p} BY <1>2, <2>1
    <3>2. OneOf(ByTrade(t)) = p BY <3>1, OneOfOne
    <3>3. found = To("settle", OneOf(ByTrade(t)), FALSE) BY <1>1, <1>2, <3>1 DEF locatePayment
    <3> QED BY <1>4, <3>2, <3>3
  <2>2. CASE ByTrade(t) = {} /\ payment[p].mode = "AMOUNT"
    <3>1. found = Sole(ByAmount(t)) BY <1>1, <1>2, <2>2 DEF locatePayment
    <3>2. p \in ByAmount(t) /\ ByAmount(t) \subseteq Payments BY <1>3, <2>2 DEF ByAmount, Fits
    <3> QED BY <3>1, <3>2, SoleIsPayer
  <2>3. CASE ByTrade(t) = {} /\ payment[p].mode = "REMARK"
    <3>1. flow[t].remark = {p} /\ Cardinality(flow[t].remark) = 1 BY <1>1, <2>3, FS_Singleton
    <3>2. ByRemark(t) = {p} BY <1>3, <2>3, <3>1 DEF ByRemark
    <3>3. ~(Cardinality(flow[t].remark) > 1) /\ flow[t].remark # {} /\ ByRemark(t) # {}
      BY <3>1, <3>2
    <3>4. Direct(t) = {} /\ ByTrade(t) = {} BY <1>2, <2>3
    <3>5. found = To("settle", OneOf(ByRemark(t)), FALSE)
      BY <3>3, <3>4, Zenon DEF locatePayment
    <3>6. OneOf(ByRemark(t)) = p BY <3>2, OneOfOne
    <3> QED BY <1>4, <3>5, <3>6
  <2> QED BY <1>1, <2>1, <2>2, <2>3
<1> HIDE DEF found
<1>6. CASE found.pc # "settle" BY <1>5, <1>6 DEF Checked, found
<1>7. CASE found.pc = "settle"
  <2>1. found.pay = p BY <1>5, <1>7
  <2>2. Checked(t, found) = found \/ Checked(t, found) = Mismatch(p, TRUE)
    BY <1>1, <1>7, <2>1 DEF Checked
  <2>3. CASE Checked(t, found) = found BY <1>7, <2>1, <2>3 DEF found
  <2>4. CASE Checked(t, found) = Mismatch(p, TRUE)
    <3>1. Checked(t, found).pc = "mismatch" /\ Checked(t, found).raise = TRUE
      BY <2>4 DEF Mismatch, To
    <3> QED BY <3>1 DEF found
  <2> QED BY <2>2, <2>3, <2>4
<1> QED BY <1>6, <1>7

\* A flow of a careful customer was his before the step, if it was made by then.
LEMMA CarefulStays ==
    ASSUME Fair, Keeps
    PROVE  \A t \in Made : flow'[t] = flow[t] /\ (Careful(t)' => Careful(t))
BY DEF Keeps, Made, Fair, Bound, FlowOK, Careful, Bill, Exists, isWithinReceiptWindow

LEMMA ModesStep ==
    ASSUME Fair, [Next]_allVars
    PROVE  \A p \in Payments : Exists(p)' => payment'[p].mode \in {"AMOUNT", "REMARK", "NONE"}
<1>1. ASSUME NEW p \in Payments, CreatePayment(p)
      PROVE  \A q \in Payments : Exists(q)' => payment'[q].mode \in {"AMOUNT", "REMARK", "NONE"}
  <2>1. PICK mode \in Modes : prepareReceiptPayment(p, mode) BY <1>1 DEF CreatePayment
  <2>2. PICK i \in Offsets(p, mode) :
            payment' = [payment EXCEPT ![p] =
                [mode |-> mode, from |-> now,
                 until |-> IF mode = "NONE" THEN expiresAt[OrderOf[p]]
                           ELSE Earlier(expiresAt[OrderOf[p]], now + VALID_SECONDS),
                 value |-> amount[OrderOf[p]] + i]]
    BY <2>1 DEF prepareReceiptPayment
  <2>3. payment'[p].mode = mode /\ \A q \in Payments \ {p} : payment'[q] = payment[q]
    BY <2>2 DEF Fair, Bound, Pool, Windows
  <2> QED BY <2>3, FlowAssumption DEF Fair, Credit, Exists
<1>2. CASE Tick \/ UNCHANGED <<payment, now>>
  BY <1>2 DEF Tick, payVars, Fair, Credit, Exists
<1> QED BY <1>1, <1>2, RowsOrClock

LEMMA ShownStep ==
    ASSUME Fair, Keeps, [Next]_allVars
    PROVE  \A t \in Trades : ShownOK(t)'
<1>1. ASSUME NEW t \in Made PROVE ShownOK(t)'
  <2>1. t \in Trades /\ flow[t].payer \in Payments /\ Exists(flow[t].payer) /\ flow'[t] = flow[t]
    BY DEF Keeps, Made, Fair, Bound, FlowOK
  <2>2. payment'[flow[t].payer] = payment[flow[t].payer] BY <2>1 DEF Keeps
  <2> QED BY <2>1, <2>2 DEF Fair, Credit, ShownOK
<1>2. ASSUME NEW t \in Trades, NEW p \in Payments, NEW kind \in Kinds, Pay(t, p, kind)
      PROVE  \A u \in Trades \ Made : ShownOK(u)'
  <2>1. payment' = payment /\ Exists(p) /\ payment[p].value \in Nat
    BY <1>2 DEF Pay, payVars, Fair, Bound, Pool, Windows
  <2> DEFINE row == [payer |-> p, kind |-> kind, paidAt |-> now,
                     amount |-> payment[p].value - IF kind = "short" THEN 1 ELSE 0,
                     remark |-> IF kind = "noRemark" \/ payment[p].mode # "REMARK" THEN {}
                                ELSE IF kind = "twoRemarks" THEN Payments ELSE {p}]
  <2>2. flow' = [flow EXCEPT ![t] = row] BY <1>2 DEF Pay
  <2>3. /\ row.payer = p /\ row.kind = kind
        /\ kind = "asShown" => /\ row.amount = payment[p].value
                               /\ row.remark = IF payment[p].mode = "REMARK" THEN {p} ELSE {}
    BY <2>1
  <2> HIDE DEF row
  <2>4. flow'[t] = row /\ \A u \in Trades \ {t} : flow'[u] = flow[u]
    BY <2>2 DEF Fair, Bound, Kinded
  <2> QED BY <2>1, <2>3, <2>4 DEF ShownOK, Made
<1>3. ASSUME UNCHANGED flow PROVE \A t \in Trades \ Made : ShownOK(t)'
  BY <1>3 DEF ShownOK, Made
<1> QED BY <1>1, <1>2, <1>3, FlowSteps DEF Made

LEMMA CreditedStep ==
    ASSUME Fair, Keeps, Bound', [Next]_allVars
    PROVE  /\ \A p \in Payments : channelTradeNo'[p] # None => channelTradeNo'[p] \in Made'
           /\ CreditedToPayer'
<1>1. \A t \in Made : t \in Made' BY DEF Keeps, Made
<1>2. \A p \in Payments :
          \/ channelTradeNo'[p] = channelTradeNo[p]
          \/ channelTradeNo'[p] \in Made /\ (Careful(channelTradeNo'[p]) => p = flow[channelTradeNo'[p]].payer)
  <2>1. ASSUME NEW w \in Workers, worker[w].pc = "settle",
               markPaymentSucceeded(worker[w].pay, worker[w].trade)
        PROVE  <1>2
    <3>1. worker[w].pay \in Payments /\ worker[w].trade \in Made /\ worker[w].trade \in Trades
      BY <2>1 DEF Fair, Bound, WorkerOK, Made
    <3>2. Careful(worker[w].trade) => worker[w].pay = flow[worker[w].trade].payer
      BY <2>1 DEF Fair, Credit, HandOK
    <3> QED BY <2>1, <3>1, <3>2, MarkSets DEF Fair
  <2>2. ASSUME NEW t \in Listed, NEW q \in Payments, markPaymentSucceeded(q, t)
        PROVE  <1>2
    <3>1. t \in Made /\ t \in Trades /\ ~Careful(t) BY DEF Listed, Made, Careful
    <3> QED BY <2>2, <3>1, MarkSets DEF Fair
  <2> QED BY <2>1, <2>2, TradeNoSteps DEF Fair
<1>3. \A p \in Payments : channelTradeNo'[p] # None => channelTradeNo'[p] \in Made
  BY <1>2 DEF Fair, Credit
<1>4. CreditedToPayer'
  <2> SUFFICES ASSUME NEW t \in Trades, NEW p \in Payments, Careful(t)', channelTradeNo'[p] = t
               PROVE  p = flow'[t].payer
    BY DEF CreditedToPayer
  <2>1. t \in Made BY <1>3, FlowAssumption
  <2>2. Careful(t) /\ flow'[t] = flow[t] BY <2>1, CarefulStays
  <2> QED BY <1>2, <2>1, <2>2 DEF Fair, Credit, CreditedToPayer
<1> QED BY <1>1, <1>3, <1>4

\* The careful customer's flow that a step leaves a mismatch is in front of the operator.
LEMMA SeenStep ==
    ASSUME Fair, [Next]_allVars, NEW t \in Trades, Careful(t), receipt'[t].status = "MISMATCH"
    PROVE  t \in raised'
<1>1. /\ receipt[t].status = "MISMATCH" => t \in raised
      /\ receipt \in [Trades -> Receipts] /\ t \notin Listed
      /\ \A w \in Workers : worker[w].pc # "idle" => worker[w].trade \in Trades
  BY DEF Fair, Bound, Kinded, Credit, CarefulIsSeen, Careful, Listed, WorkerOK, Made
<1>2. CASE receipt'[t] = receipt[t] /\ raised' = raised BY <1>1, <1>2
<1>3. CASE UNCHANGED <<receipt, raised>> BY <1>1, <1>3
<1>4. ASSUME NEW u \in Trades, NEW status, NEW lock, NEW p, Put(u, status, lock, p),
             status # "MISMATCH", raised' = raised
      PROVE  t \in raised'
  BY <1>1, <1>4 DEF Put
<1>5. CASE UNCHANGED allVars BY <1>3, <1>5 DEF allVars, vars
<1>6. ASSUME NEW w \in Workers, NEW u \in Trades, Claim(w, u) \/ Rematch(w, u) PROVE t \in raised'
  BY <1>3, <1>4, <1>6 DEF Claim, Rematch, Keep
<1>7. ASSUME NEW w \in Workers, Handle(w) \/ Throw(w) \/ Lose(w) PROVE t \in raised'
  <2>1. worker[w].pc # "idle" => worker[w].trade \in Trades BY <1>1
  <2>2. CASE Locate(w) \/ Lose(w) BY <1>3, <2>2 DEF Locate, Lose
  <2>3. CASE Reset(w) \/ markUnmatched(w) BY <1>4, <2>1, <2>3 DEF Reset, markUnmatched, Keep
  <2>4. CASE Settle(w) BY <1>3, <1>4, <2>1, <2>4 DEF Settle, RecordError, Keep
  <2>5. CASE Throw(w) BY <1>4, <2>1, <2>5 DEF Throw, RecordError, Keep
  <2>6. CASE MarkMatched(w)
    BY <1>1, <2>1, <2>6 DEF MarkMatched, Put
  <2>7. CASE markMismatch(w)
    <3>1. worker[w].trade = t => worker[w].raise = TRUE
      BY <2>7 DEF markMismatch, Fair, Credit, HandOK
    <3> QED BY <1>1, <2>1, <2>7, <3>1 DEF markMismatch, Raise, Put
  <2> QED BY <1>7, <2>2, <2>3, <2>4, <2>5, <2>6, <2>7 DEF Handle
<1>8. ASSUME NEW u \in Trades, Store(u) PROVE t \in raised' BY <1>4, <1>8 DEF Store
<1>9. ASSUME NEW u \in Trades, LeaseElapses(u) PROVE t \in raised'
  BY <1>1, <1>9 DEF LeaseElapses, Receipts
<1>10. CASE \/ (\E p \in Payments : CreatePayment(p)) \/ (\E u \in Trades : Notify(u))
            \/ (\E u \in Trades, p \in Payments, kind \in Kinds : Pay(u, p, kind)) \/ Tick
  BY <1>3, <1>10 DEF CreatePayment, Notify, Pay, Tick
<1>11. ASSUME NEW i \in Importers, NEW u \in Trades, StoreRow(i, u) PROVE t \in raised'
  BY <1>3, <1>4, <1>11 DEF StoreRow
<1>12. ASSUME NEW i \in Importers, Mark(i) PROVE t \in raised'
  <2>1. importer[i].trade \in Listed BY <1>12 DEF Mark, At, Fair, Bound, ImporterOK
  <2> QED BY <1>1, <1>12, <2>1 DEF Mark, Put, Listed, Made
<1>13. ASSUME NEW i \in Importers,
              \/ importAlipayBill(i) \/ (\E u \in Trades : matchReceipt(i, u))
              \/ ReadIncome(i) \/ SettleIncome(i) \/ FillTrade(i) \/ FinishImport(i)
              \/ FailImport(i) \/ ThrowInImport(i) \/ LoseImport(i)
       PROVE  t \in raised'
  BY <1>3, <1>13 DEF importAlipayBill, matchReceipt, ReadIncome, SettleIncome, FillTrade,
     FinishImport, FailImport, ThrowInImport, LoseImport, vars
<1> QED BY <1>5, <1>6, <1>7, <1>8, <1>9, <1>10, <1>11, <1>12, <1>13 DEF Next, FlowNext, Request

\* What a step leaves in the hands of a worker.
LEMMA HandStep ==
    ASSUME Fair, Keeps, [Next]_allVars, NEW w \in Workers
    PROVE  HandOK(w)'
<1>1. /\ worker \in [Workers -> Hands]
      /\ \A v \in Workers : worker[v].pc # "idle" => worker[v].trade \in Made
      /\ \A v \in Workers : HandOK(v)
  BY DEF Fair, Bound, Kinded, WorkerOK, Credit
<1>2. \A t \in Made : flow'[t] = flow[t] /\ (Careful(t)' => Careful(t)) BY CarefulStays
<1>3. ASSUME worker'[w] = worker[w] PROVE HandOK(w)'
  BY <1>1, <1>2, <1>3 DEF HandOK
<1>4. ASSUME worker'[w].pc \notin {"settle", "mismatch", "refuse"} PROVE HandOK(w)'
  BY <1>4 DEF HandOK
<1>5. CASE UNCHANGED worker BY <1>3, <1>5
<1>6. ASSUME NEW v \in Workers, NEW t \in Trades, Claim(v, t) \/ Rematch(v, t) PROVE HandOK(w)'
  BY <1>1, <1>3, <1>4, <1>6 DEF Claim, Rematch, Start, Idle
<1>7. ASSUME NEW v \in Workers, Done(v) PROVE HandOK(w)'
  BY <1>1, <1>3, <1>4, <1>7 DEF Done, Idle
<1>8. ASSUME NEW v \in Workers, Locate(v) PROVE HandOK(w)'
  <2> DEFINE choice == Checked(worker[v].trade, locatePayment(worker[v].trade))
  <2>1. worker[v].trade \in Made BY <1>1, <1>8 DEF Locate
  <2>2. worker'[v].trade = worker[v].trade /\ worker'[v].pc = choice.pc
        /\ worker'[v].pay = choice.pay /\ worker'[v].raise = choice.raise
    BY <1>1, <1>8 DEF Locate, Hands
  <2>3. Careful(worker[v].trade) => /\ choice.pc = "settle" => choice.pay = flow[worker[v].trade].payer
                                    /\ choice.pc = "mismatch" => choice.raise = TRUE
    BY <2>1, LocateCareful
  <2>4. choice.pc \in {"settle", "unmatched", "mismatch"}
    <3>1. worker[v].trade \in Trades /\ flow[worker[v].trade].remark \subseteq Payments
      BY <2>1 DEF Fair, Bound, FlowOK, Made
    <3> QED BY <3>1, LocateSound, CheckedSound DEF Sound, Choices
  <2> HIDE DEF choice
  <2>5. CASE w = v BY <1>2, <2>1, <2>2, <2>3, <2>4, <2>5 DEF HandOK
  <2>6. CASE w # v BY <1>1, <1>3, <1>8, <2>6 DEF Locate
  <2> QED BY <2>5, <2>6
<1>9. ASSUME NEW v \in Workers, Settle(v) PROVE HandOK(w)'
  <2>1. CASE RecordError(v) BY <1>7, <2>1 DEF RecordError
  <2>2. CASE Goto(v, "match") BY <1>1, <1>3, <1>4, <2>2 DEF Goto, Hands
  <2>3. CASE worker' = [worker EXCEPT ![v].pc = "refuse", ![v].pay = None, ![v].raise = TRUE]
    <3>1. worker'[v].pc = "refuse" /\ worker'[v].raise = TRUE BY <1>1, <2>3 DEF Hands
    <3>2. CASE w = v BY <3>1, <3>2 DEF HandOK
    <3>3. CASE w # v BY <1>1, <1>3, <2>3, <3>3
    <3> QED BY <3>2, <3>3
  <2> QED BY <1>9, <2>1, <2>2, <2>3 DEF Settle
<1>10. ASSUME NEW v \in Workers, Handle(v) \/ Throw(v) \/ Lose(v) PROVE HandOK(w)'
  BY <1>7, <1>8, <1>9, <1>10
     DEF Handle, Reset, MarkMatched, markUnmatched, markMismatch, Throw, RecordError, Lose
<1>11. ASSUME NEW t \in Trades, Store(t) \/ LeaseElapses(t) \/ Notify(t) PROVE HandOK(w)'
  BY <1>5, <1>11 DEF Store, LeaseElapses, Notify
<1>12. CASE \/ (\E p \in Payments : CreatePayment(p)) \/ Tick
            \/ (\E t \in Trades, p \in Payments, kind \in Kinds : Pay(t, p, kind))
  BY <1>5, <1>12 DEF CreatePayment, Tick, Pay
<1>13. ASSUME NEW i \in Importers, NEW t \in Trades, StoreRow(i, t) \/ matchReceipt(i, t) PROVE HandOK(w)'
  BY <1>5, <1>13 DEF StoreRow, matchReceipt, vars
<1>14. ASSUME NEW i \in Importers,
              \/ importAlipayBill(i) \/ ReadIncome(i) \/ SettleIncome(i) \/ FillTrade(i) \/ Mark(i)
              \/ FinishImport(i) \/ FailImport(i) \/ ThrowInImport(i) \/ LoseImport(i)
       PROVE  HandOK(w)'
  BY <1>5, <1>14 DEF importAlipayBill, ReadIncome, SettleIncome, FillTrade, Mark, FinishImport,
     FailImport, ThrowInImport, LoseImport, vars
<1>15. CASE UNCHANGED allVars BY <1>5, <1>15 DEF allVars, vars
<1> QED BY <1>6, <1>10, <1>11, <1>12, <1>13, <1>14, <1>15 DEF Next, FlowNext, Request

LEMMA FairStep == Fair /\ [Next]_allVars => Fair'
<1> SUFFICES ASSUME Fair, [Next]_allVars PROVE Fair' OBVIOUS
<1>1. Bound' /\ Keeps BY BoundStep, KeepsStep DEF Fair
<1>2. CarefulIsSeen'
  <2> SUFFICES ASSUME NEW t \in Trades, Careful(t)', receipt'[t].status = "MISMATCH"
               PROVE  t \in raised'
    BY DEF CarefulIsSeen
  <2>1. CASE t \in Made BY <1>1, <2>1, CarefulStays, SeenStep
  <2>2. CASE t \notin Made
    <3>1. receipt[t].status # "MISMATCH" BY <2>2 DEF Fair, Bound, ReceiptOK
    <3>2. flow' # flow BY <2>2 DEF Careful, Made
    <3>3. receipt' = receipt BY <3>2, FlowSteps DEF Pay
    <3> QED BY <3>1, <3>3
  <2> QED BY <2>1, <2>2
<1> QED BY <1>1, <1>2, ModesStep, ShownStep, CreditedStep, HandStep DEF Fair, Credit

\* The money of a customer who pays what the cashier shows, while the code is valid, is
\* credited to his own payment or to none.
THEOREM CreditedToPayerCorrect == Spec => []CreditedToPayer
<1>1. AllInit => Fair BY BoundInit, CreditInit DEF Fair
<1>2. Fair => CreditedToPayer BY DEF Fair, Credit
<1> QED BY <1>1, <1>2, FairStep, PTL DEF Spec

\* His flow is never refused without an exception that the operator sees.
THEOREM CarefulIsSeenCorrect == Spec => []CarefulIsSeen
<1>1. AllInit => Fair BY BoundInit, CreditInit DEF Fair
<1>2. Fair => CarefulIsSeen BY DEF Fair, Credit
<1> QED BY <1>1, <1>2, FairStep, PTL DEF Spec

-----------------------------------------------------------------------------
(* The money of all payments.                                              *)

\* Every step settles a payment as Settlement has it, or settles none: no verdict on a
\* receipt, import or lost worker gives an order a second winner.
THEOREM CoreImplemented == Spec => Core!Spec
<1>1. AllInit => Core!Init BY DEF AllInit, Init
<1>2. Bound /\ [Next]_allVars => [Core!Next]_(Core!vars)
  <2> SUFFICES ASSUME Bound, [Next]_allVars PROVE [Core!Next]_(Core!vars) OBVIOUS
  <2>1. ASSUME NEW p \in Payments, NEW t, markPaymentSucceeded(p, t)
        PROVE  [Core!Next]_(Core!vars)
    BY <2>1 DEF markPaymentSucceeded, coreVars, Core!Next, Core!vars
  <2>2. \A w \in Workers : worker[w].pc = "settle" => worker[w].pay \in Payments
    BY DEF Bound, WorkerOK
  <2> QED BY <2>1, <2>2, SettlingSteps DEF coreVars, Core!vars
<1> QED BY <1>1, <1>2, BoundInit, BoundStep, PTL DEF Spec, Core!Spec

\* A trade settles one payment, with which it agrees.
OwnTrade ==
    /\ \A p \in settled : channelTradeNo[p] \in Made /\ Agrees(channelTradeNo[p], p)
    /\ \A p, q \in Payments : p # q /\ channelTradeNo[p] # None => channelTradeNo[q] # channelTradeNo[p]

\* A payment that is settled wins its order or is disputed.
Accounted ==
    /\ winner \in [Orders -> Payments \cup {None}] /\ told \in [Orders -> Payments \cup {None}]
    /\ disputed \subseteq settled
    /\ \A o \in Orders : /\ winner[o] # None => winner[o] \in settled
                         /\ told[o] = IF o \in WithUrl THEN winner[o] ELSE None
    /\ \A p \in settled : /\ winner[OrderOf[p]] # None
                          /\ p \in disputed <=> winner[OrderOf[p]] # p

Funded == Bound /\ OwnTrade /\ Accounted

LEMMA FundedInit == AllInit => Funded
<1> SUFFICES ASSUME AllInit PROVE Funded OBVIOUS
<1>1. Init BY DEF AllInit
<1>2. OwnTrade BY <1>1 DEF Init, Core!Init, OwnTrade
<1>3. Accounted BY <1>1, FlowAssumption DEF Init, Core!Init, Accounted
<1> QED BY <1>2, <1>3, BoundInit DEF Funded

\* What a trade agrees with, it agrees with for good.
LEMMA AgreesStays ==
    ASSUME Bound, Keeps, NEW t \in Made, NEW p \in Payments, Agrees(t, p)
    PROVE  t \in Made' /\ Agrees(t, p)'
BY DEF Bound, Keeps, Made, Agrees, Exists, Bill, isWithinReceiptWindow

\* To settle a payment with a trade that agrees with it.
LEMMA MarkFunds ==
    ASSUME Funded, Keeps, NEW p \in Payments, NEW t \in Made, Agrees(t, p), markPaymentSucceeded(p, t)
    PROVE  OwnTrade' /\ Accounted'
<1>1. settled \subseteq Payments /\ channelTradeNo \in [Payments -> Trades \cup {None}]
  BY DEF Funded, Bound, Kinded
<1>2. t \in Trades /\ t # None /\ OrderOf[p] \in Orders BY FlowAssumption DEF Made
<1>3. \A u \in Made, q \in Payments : Agrees(u, q) => u \in Made' /\ Agrees(u, q)'
  BY AgreesStays DEF Funded
<1>4. CASE p \in settled /\ UNCHANGED <<coreVars, channelTradeNo>>
  <2>1. OwnTrade' BY <1>1, <1>3, <1>4 DEF Funded, OwnTrade, coreVars
  <2>2. Accounted' BY <1>4 DEF Funded, Accounted, coreVars
  <2> QED BY <2>1, <2>2
<1>5. ASSUME Core!Win(p) \/ Core!Dispute(p), channelTradeNo' = [channelTradeNo EXCEPT ![p] = t]
      PROVE  OwnTrade' /\ Accounted'
  <2>1. p \notin settled /\ settled' = settled \cup {p}
    BY <1>5 DEF Core!Win, Core!Dispute
  <2>2. channelTradeNo'[p] = t /\ \A q \in Payments \ {p} : channelTradeNo'[q] = channelTradeNo[q]
    BY <1>1, <1>5
  <2>3. \A q \in Payments \ {p} : channelTradeNo[q] # t
    BY <2>1 DEF markPaymentSucceeded, TradeTaken
  <2>4. OwnTrade'
    <3>1. ASSUME NEW q \in settled' 
          PROVE  \E u \in Made : channelTradeNo'[q] = u /\ u \in Made' /\ Agrees(u, q)'
      <4>1. q \in Payments /\ (q = p \/ q \in settled) BY <1>1, <2>1
      <4>2. CASE q = p BY <1>3, <2>2, <4>2
      <4>3. CASE q # p BY <1>3, <2>2, <4>1, <4>3 DEF Funded, OwnTrade
      <4> QED BY <4>2, <4>3
    <3>2. ASSUME NEW q \in Payments, NEW r \in Payments, q # r, channelTradeNo'[q] # None
          PROVE  channelTradeNo'[r] # channelTradeNo'[q]
      BY <2>2, <2>3, <3>2 DEF Funded, OwnTrade
    <3> QED BY <3>1, <3>2 DEF OwnTrade
  <2>5. CASE Core!Win(p)
    <3>1. /\ winner[OrderOf[p]] = None /\ winner' = [winner EXCEPT ![OrderOf[p]] = p]
          /\ told' = IF OrderOf[p] \in WithUrl THEN [told EXCEPT ![OrderOf[p]] = p] ELSE told
          /\ disputed' = disputed
      BY <2>5 DEF Core!Win
    <3>2. p # None /\ OrderOf \in [Payments -> Orders] BY FlowAssumption
    <3> QED BY <1>1, <1>2, <2>1, <2>4, <3>1, <3>2 DEF Funded, Accounted
  <2>6. CASE Core!Dispute(p)
    <3>1. /\ winner[OrderOf[p]] # None /\ winner' = winner /\ told' = told
          /\ disputed' = disputed \cup {p}
      BY <2>6 DEF Core!Dispute
    <3> QED BY <1>1, <1>2, <2>1, <2>4, <3>1 DEF Funded, Accounted
  <2> QED BY <1>5, <2>5, <2>6
<1> QED BY <1>4, <1>5 DEF markPaymentSucceeded

LEMMA FundedStep == Funded /\ [Next]_allVars => Funded'
<1> SUFFICES ASSUME Funded, [Next]_allVars PROVE Funded' OBVIOUS
<1>1. Bound /\ Bound' /\ Keeps BY BoundStep, KeepsStep DEF Funded
<1>2. CASE UNCHANGED <<coreVars, channelTradeNo>>
  <2>1. \A u \in Made, q \in Payments : Agrees(u, q) => u \in Made' /\ Agrees(u, q)'
    BY <1>1, AgreesStays
  <2>2. OwnTrade' BY <1>1, <1>2, <2>1 DEF Bound, Kinded, Funded, OwnTrade, coreVars
  <2>3. Accounted' BY <1>2 DEF Funded, Accounted, coreVars
  <2> QED BY <1>1, <2>2, <2>3 DEF Funded
<1>3. ASSUME NEW w \in Workers, worker[w].pc = "settle",
             markPaymentSucceeded(worker[w].pay, worker[w].trade)
      PROVE  Funded'
  <2>1. /\ worker[w].pay \in Payments /\ worker[w].trade \in Made
        /\ Agrees(worker[w].trade, worker[w].pay)
    BY <1>1, <1>3 DEF Bound, WorkerOK
  <2> QED BY <1>1, <1>3, <2>1, MarkFunds DEF Funded
<1>4. ASSUME NEW t \in Listed, NEW p \in Payments, Agrees(t, p), markPaymentSucceeded(p, t)
      PROVE  Funded'
  <2>1. t \in Made BY DEF Listed
  <2> QED BY <1>1, <1>4, <2>1, MarkFunds DEF Funded
<1> QED BY <1>1, <1>2, <1>3, <1>4, SettlingSteps

\* Every payment that is settled was paid, by a trade of its own and of its amount, and
\* wins its order or is disputed, whoever settled it.
THEOREM CreditIsFundedCorrect == Spec => []CreditIsFunded
<1>1. Funded => CreditIsFunded
  <2> SUFFICES ASSUME Funded, NEW p \in settled
               PROVE  /\ channelTradeNo[p] \in Made /\ flow[channelTradeNo[p]].amount = payment[p].value
                      /\ \A q \in Payments \ {p} : channelTradeNo[q] # channelTradeNo[p]
                      /\ IF winner[OrderOf[p]] = p
                         THEN /\ p \notin disputed
                              /\ told[OrderOf[p]] = IF OrderOf[p] \in WithUrl THEN p ELSE None
                         ELSE p \in disputed
    BY DEF CreditIsFunded
  <2>1. p \in Payments /\ OrderOf[p] \in Orders BY FlowAssumption DEF Funded, Bound, Kinded
  <2>2. channelTradeNo[p] \in Made /\ Agrees(channelTradeNo[p], p) BY DEF Funded, OwnTrade
  <2>3. channelTradeNo[p] # None BY <2>2, FlowAssumption DEF Made
  <2> QED BY <2>1, <2>2, <2>3 DEF Funded, OwnTrade, Accounted, Agrees
<1> QED BY <1>1, FundedInit, FundedStep, PTL DEF Spec

-----------------------------------------------------------------------------
(* Types.                                                                  *)

\* A worker settles what it has found, which is for a personal code.
Found(w) ==
    worker'[w].pc \in {"settle", "match"} =>
        \/ worker[w].pc \in {"settle", "match"} /\ worker'[w].pay = worker[w].pay
        \/ worker'[w].pay \in Payments /\ Bill(worker'[w].pay)

LEMMA HandsSteps == ASSUME Bound, [Next]_allVars PROVE \A v \in Workers : Found(v)
<1>1. CASE UNCHANGED worker BY <1>1 DEF Found
<1>2. ASSUME NEW w \in Workers, NEW state \in Hands, worker' = [worker EXCEPT ![w] = state],
             state.pc \in {"settle", "match"} =>
                 \/ worker[w].pc \in {"settle", "match"} /\ state.pay = worker[w].pay
                 \/ state.pay \in Payments /\ Bill(state.pay)
      PROVE  \A v \in Workers : Found(v)
  BY <1>2, HandMoves DEF Found
<1>3. CASE UNCHANGED allVars BY <1>1, <1>3 DEF allVars, vars
<1>4. ASSUME NEW w \in Workers, Done(w) PROVE \A v \in Workers : Found(v)
  BY <1>2, <1>4, IdleHands DEF Done
<1>5. ASSUME NEW w \in Workers, NEW t \in Trades, Claim(w, t) \/ Rematch(w, t)
      PROVE  \A v \in Workers : Found(v)
  <2>1. PICK pc \in {"locate", "reset"} :
            worker' = [worker EXCEPT ![w] = [Idle EXCEPT !.pc = pc, !.trade = t]]
    BY <1>5 DEF Claim, Rematch, Start
  <2>2. PICK state : state = [Idle EXCEPT !.pc = pc, !.trade = t] OBVIOUS
  <2>3. state \in Hands /\ state.pc = pc BY <2>2 DEF Idle, Hands
  <2> QED BY <1>2, <2>1, <2>2, <2>3
<1>6. ASSUME NEW w \in Workers, Locate(w) PROVE \A v \in Workers : Found(v)
  <2>1. worker[w] \in Hands /\ worker[w].trade \in Trades BY <1>6, InHand DEF Locate
  <2>2. PICK choice : choice = Checked(worker[w].trade, locatePayment(worker[w].trade)) OBVIOUS
  <2>3. Sound(choice)
    <3>1. flow[worker[w].trade].remark \subseteq Payments
      BY <1>6, <2>1, InHand DEF Locate, Bound, FlowOK, Made
    <3> QED BY <2>1, <2>2, <3>1, LocateSound, CheckedSound
  <2>4. PICK state : state = [worker[w] EXCEPT !.pc = choice.pc, !.pay = choice.pay, !.raise = choice.raise]
    OBVIOUS
  <2>5. worker' = [worker EXCEPT ![w] = state] BY <1>6, <2>2, <2>4 DEF Locate, Bound, Kinded
  <2>6. state \in Hands /\ state.pc = choice.pc /\ state.pay = choice.pay
    BY <2>1, <2>3, <2>4 DEF Hands, Sound, Choices
  <2>7. state.pc \in {"settle", "match"} => state.pay \in Payments /\ Bill(state.pay)
    BY <2>3, <2>6 DEF Sound, Choices
  <2> QED BY <1>2, <2>5, <2>6, <2>7
<1>7. ASSUME NEW w \in Workers, Settle(w) PROVE \A v \in Workers : Found(v)
  <2>1. worker[w] \in Hands /\ worker[w].pc = "settle" BY <1>7, InHand DEF Settle
  <2>2. CASE Goto(w, "match")
    <3>1. PICK state : state = [worker[w] EXCEPT !.pc = "match"] OBVIOUS
    <3>2. state \in Hands /\ state.pay = worker[w].pay BY <2>1, <3>1 DEF Hands
    <3>3. worker' = [worker EXCEPT ![w] = state] BY <2>2, <3>1 DEF Goto, Bound, Kinded
    <3> QED BY <1>2, <2>1, <3>2, <3>3
  <2>3. CASE worker' = [worker EXCEPT ![w].pc = "refuse", ![w].pay = None, ![w].raise = TRUE]
    <3>1. PICK state : state = [worker[w] EXCEPT !.pc = "refuse", !.pay = None, !.raise = TRUE] OBVIOUS
    <3>2. state \in Hands /\ state.pc = "refuse" BY <2>1, <3>1 DEF Hands
    <3>3. worker' = [worker EXCEPT ![w] = state] BY <2>3, <3>1 DEF Bound, Kinded
    <3> QED BY <1>2, <3>2, <3>3
  <2>4. CASE Done(w) BY <1>4, <2>4
  <2> QED BY <1>7, <2>2, <2>3, <2>4 DEF Settle, RecordError
<1>8. ASSUME NEW w \in Workers,
             \/ Reset(w) \/ MarkMatched(w) \/ markUnmatched(w) \/ markMismatch(w)
             \/ Throw(w) \/ Lose(w)
      PROVE  \A v \in Workers : Found(v)
  <2>1. Done(w)
    BY <1>8 DEF Reset, MarkMatched, markUnmatched, markMismatch, Throw, Lose, RecordError
  <2> QED BY <1>4, <2>1
<1>9. CASE \/ \E p \in Payments : CreatePayment(p)
           \/ \E t \in Trades, p \in Payments, kind \in Kinds : Pay(t, p, kind)
           \/ \E t \in Trades : Store(t) \/ LeaseElapses(t) \/ Notify(t)
           \/ Tick
  BY <1>1, <1>9 DEF CreatePayment, Pay, Store, LeaseElapses, Notify, Tick
<1>10. ASSUME NEW i \in Importers,
              \/ importAlipayBill(i) \/ (\E t \in Trades : matchReceipt(i, t))
              \/ Request(i) \/ ThrowInImport(i) \/ LoseImport(i)
       PROVE  worker' = worker
  <2>1. CASE \E t \in Trades : matchReceipt(i, t) \/ StoreRow(i, t)
    BY <2>1 DEF matchReceipt, StoreRow, vars
  <2>2. CASE importAlipayBill(i) \/ ReadIncome(i) \/ FinishImport(i) \/ FailImport(i)
    BY <2>2 DEF importAlipayBill, ReadIncome, FinishImport, FailImport, vars
  <2>3. CASE SettleIncome(i) \/ FillTrade(i) \/ Mark(i) \/ ThrowInImport(i) \/ LoseImport(i)
    BY <2>3 DEF SettleIncome, FillTrade, Mark, ThrowInImport, LoseImport
  <2> QED BY <1>10, <2>1, <2>2, <2>3 DEF Request
<1> QED BY <1>1, <1>3, <1>5, <1>6, <1>7, <1>8, <1>9, <1>10 DEF Next, FlowNext, Handle

Runs == {"NONE", "PROCESSING", "SUCCESS", "FAILED"}

LEMMA RunStep == run \in Runs /\ [Next]_allVars => run' \in Runs
<1> SUFFICES ASSUME run \in Runs, [Next]_allVars PROVE run' \in Runs OBVIOUS
<1>1. ASSUME NEW i \in Importers, (\E t \in Trades : matchReceipt(i, t) \/ StoreRow(i, t))
      PROVE  run' = run
  BY <1>1 DEF matchReceipt, StoreRow
<1>2. ASSUME NEW i \in Importers,
             \/ importAlipayBill(i) \/ ReadIncome(i) \/ SettleIncome(i) \/ FillTrade(i) \/ Mark(i)
             \/ FinishImport(i) \/ FailImport(i) \/ ThrowInImport(i) \/ LoseImport(i)
      PROVE  run' \in Runs
  <2>1. CASE importAlipayBill(i) \/ FinishImport(i) \/ FailImport(i)
    BY <2>1 DEF importAlipayBill, FinishImport, FailImport, Runs
  <2>2. CASE ReadIncome(i) \/ SettleIncome(i) \/ FillTrade(i)
    BY <2>2 DEF ReadIncome, SettleIncome, FillTrade
  <2>3. CASE Mark(i) \/ ThrowInImport(i) \/ LoseImport(i)
    BY <2>3 DEF Mark, ThrowInImport, LoseImport
  <2> QED BY <1>2, <2>1, <2>2, <2>3
<1>3. ASSUME NEW t \in Trades, Notify(t) PROVE run' = run BY <1>3 DEF Notify, reconVars
<1>4. CASE UNCHANGED reconVars BY <1>4 DEF reconVars
<1>5. CASE UNCHANGED allVars BY <1>5 DEF allVars, reconVars
<1> QED BY <1>1, <1>2, <1>3, <1>4, <1>5 DEF Next, Request

Shaped == Bound /\ FlowTypeOK

LEMMA ShapedStep == Shaped /\ [Next]_allVars => Shaped'
<1> SUFFICES ASSUME Shaped, [Next]_allVars PROVE Shaped' OBVIOUS
<1>1. Bound /\ Bound' /\ Keeps BY BoundStep, KeepsStep DEF Shaped
<1>2. \A t \in Trades : receipt'[t].status = "MATCHED" => receipt'[t].pay # None
  BY <1>1, FlowAssumption DEF Bound, ReceiptOK
<1>3. ASSUME NEW w \in Workers, worker'[w].pc \in {"settle", "match"}
      PROVE  \E p \in Payments : worker'[w].pay = p /\ Bill(p)'
  <2>1. PICK p : p = worker'[w].pay OBVIOUS
  <2>2. p \in Payments BY <1>1, <1>3, <2>1 DEF Bound, WorkerOK
  <2>3. Bill(p) BY <1>1, <1>3, <2>1, HandsSteps DEF Found, Shaped, FlowTypeOK
  <2>4. payment'[p] = payment[p] BY <1>1, <2>2, <2>3 DEF Keeps, Bill
  <2> QED BY <2>1, <2>2, <2>3, <2>4 DEF Bill, Exists
<1>4. run' \in {"NONE", "PROCESSING", "SUCCESS", "FAILED"}
  BY RunStep DEF Shaped, FlowTypeOK, Runs
<1>5. FlowTypeOK'
  BY <1>1, <1>2, <1>3, <1>4 DEF FlowTypeOK, Bound, Kinded, Receipts, Hands
<1> QED BY <1>1, <1>5 DEF Shaped

\* Every variable keeps its type, a matched receipt has a payment, and a worker settles
\* payments of personal codes only.
THEOREM FlowTypeCorrect == Spec => []FlowTypeOK
<1>1. AllInit => FlowTypeOK
  BY DEF AllInit, Init, ReconciliationInit, Core!Init, FlowTypeOK, NoReceipt, Idle
<1> QED BY <1>1, BoundInit, ShapedStep, PTL DEF Spec, Shaped

=============================================================================
