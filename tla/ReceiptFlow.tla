----------------------------- MODULE ReceiptFlow -----------------------------
(***************************************************************************)
(* Payments to a personal QR code: the reservation of an amount or of a    *)
(* remark (apps/api/src/services/receipt-reservation-service.ts) and the   *)
(* matching of the account's flows with the payments                       *)
(* (receipt-flow-service.ts).                                              *)
(*                                                                         *)
(* A flow is known by its trade number, so that the fingerprint is the     *)
(* trade.  markPaymentSucceeded is the step of Settlement that             *)
(* PaymentSystem is shown to implement, with the checks it makes first.    *)
(* Statements and transactions on the database are steps; a worker may be  *)
(* lost, or paused past its lease, between two of them.                    *)
(***************************************************************************)
EXTENDS Integers, FiniteSets

CONSTANTS
    Orders, Payments, OrderOf, WithUrl, None,
    Trades,             \* the trades customers may make
    Workers,            \* handlers of flows: watcher, collector, worker, administrator
    amount,             \* of an order
    expiresAt,          \* of an order
    Modes,              \* what ALIPAY_BILL_MATCH_MODE is set to, "NONE" for channel ALIPAY
    VALID_SECONDS,
    AMOUNT_OFFSET_MAX,
    Kinds,              \* the ways a customer pays
    Horizon,            \* bound: the last instant explored
    MaxFaults           \* bound: statements that throw, workers that are lost or paused past their lease

ASSUME FlowAssumption ==
    /\ IsFiniteSet(Payments) /\ OrderOf \in [Payments -> Orders]
    /\ amount \in [Orders -> Nat \ {0}] /\ expiresAt \in [Orders -> Nat]
    /\ Modes \subseteq {"AMOUNT", "REMARK", "NONE"}
    /\ VALID_SECONDS \in Nat \ {0} /\ AMOUNT_OFFSET_MAX \in Nat
    /\ Kinds \subseteq {"asShown", "named", "noRemark", "twoRemarks", "short"}
    /\ Horizon \in Nat /\ MaxFaults \in Nat
    /\ None \notin Payments \cup Trades

VARIABLES
    settled, winner, told, disputed,    \* the settlement of the payments
    payment,        \* the rows that matching reads, [mode, value, from, until]
    channelTradeNo, \* of a payment, unique
    flow,           \* the trades that were made, as the account's log has them
    receipt,        \* the rows of the receipts
    raised,         \* the trades with a RECEIPT case that is open
    worker,
    now, faults

coreVars == <<settled, winner, told, disputed>>
payVars == <<payment, channelTradeNo>>
vars == <<coreVars, payVars, flow, receipt, raised, worker, now, faults>>

Core == INSTANCE Settlement

Idle == [pc |-> "idle", trade |-> None, pay |-> None, raise |-> FALSE]
NoReceipt == [status |-> "NONE", lock |-> "null", pay |-> None]

Init ==
    /\ Core!Init
    /\ payment = [p \in Payments |-> None]
    /\ channelTradeNo = [p \in Payments |-> None]
    /\ flow = [t \in Trades |-> None]
    /\ receipt = [t \in Trades |-> NoReceipt]
    /\ raised = {}
    /\ worker = [w \in Workers |-> Idle]
    /\ now = 0 /\ faults = 0

Exists(p) == payment[p] # None
Bill(p) == Exists(p) /\ payment[p].mode # "NONE"

-----------------------------------------------------------------------------
(* prepareReceiptPayment, in the transaction of createPayment.  The rows of *)
(* expired reservations are deleted first, so that a reservation is in     *)
(* force exactly until its payment's window ends.                          *)

Earlier(i, j) == IF i <= j THEN i ELSE j

\* Mutant: the amount of a payment is given away as soon as it is paid.
ReservedUntilPaid(p) == Exists(p) /\ payment[p].until > now /\ p \notin settled

Reserved(p) == Exists(p) /\ payment[p].until > now

\* The amounts that running reservations hold.
Used == {payment[q].value : q \in {q \in Payments : Reserved(q) /\ payment[q].mode = "AMOUNT"}}

FreeOffsets(p) == {i \in 0 .. AMOUNT_OFFSET_MAX : amount[OrderOf[p]] + i \notin Used}

\* The first free amount, if there is one.  With a remark the reserved value is the
\* payment's own reference, and the customer is shown the amount of the order.
Offsets(p, mode) ==
    IF mode = "AMOUNT" THEN {i \in FreeOffsets(p) : \A j \in FreeOffsets(p) : i <= j} ELSE {0}

prepareReceiptPayment(p, mode) ==
    LET o == OrderOf[p] IN
    \E i \in Offsets(p, mode) :
        payment' = [payment EXCEPT ![p] =
            [mode |-> mode, from |-> now,
             until |-> IF mode = "NONE" THEN expiresAt[o] ELSE Earlier(expiresAt[o], now + VALID_SECONDS),
             value |-> amount[o] + i]]

CreatePayment(p) ==
    LET o == OrderOf[p] IN
    /\ ~Exists(p) /\ winner[o] = None /\ expiresAt[o] > now
    /\ \E mode \in Modes : prepareReceiptPayment(p, mode)
    /\ UNCHANGED <<coreVars, channelTradeNo, flow, receipt, raised, worker, now, faults>>

Made == {t \in Trades : flow[t] # None}

\* The customer pays what the cashier shows, or by the order's number, or forgets
\* the remark, or gives those of two payments, or another amount; at any time, since
\* the code stays valid.  "payer" is the payment that was meant, which nobody else
\* knows; Alipay lets an order number of its own be paid once, and its bill may show
\* the trade without that number ("noRemark") or with another amount.  Bound: one
\* customer does not pay what is shown.
Pay(t, p, kind) ==
    /\ flow[t] = None /\ Exists(p)
    /\ kind # "asShown" => {u \in Made : flow[u].kind # "asShown"} = {}
    /\ \/ Bill(p)
       \/ kind \in {"asShown", "noRemark", "short"} /\ p \notin {flow[u].payer : u \in Made}
    /\ flow' = [flow EXCEPT ![t] =
           [payer |-> p, kind |-> kind, paidAt |-> now,
            amount |-> payment[p].value - IF kind = "short" THEN 1 ELSE 0,
            remark |-> IF kind = "noRemark" \/ payment[p].mode # "REMARK" THEN {}
                       ELSE IF kind = "twoRemarks" THEN Payments ELSE {p}]]
    /\ UNCHANGED <<coreVars, payVars, receipt, raised, worker, now, faults>>

-----------------------------------------------------------------------------
(* locatePayment, and the checks that follow it.                           *)

isWithinReceiptWindow(t, p) ==
    payment[p].from <= flow[t].paidAt /\ flow[t].paidAt <= payment[p].until

Direct(t) == {p \in Payments : Bill(p) /\ flow[t].kind = "named" /\ flow[t].payer = p}
ByTrade(t) == {p \in Payments : Exists(p) /\ channelTradeNo[p] = t}
Fits(t) == {p \in Payments : /\ Bill(p) /\ payment[p].value = flow[t].amount
                             /\ isWithinReceiptWindow(t, p)}
ByRemark(t) == {p \in Fits(t) \cap flow[t].remark : payment[p].mode = "REMARK"}
ByAmount(t) == {p \in Fits(t) : payment[p].mode = "AMOUNT"}

OneOf(S) == CHOOSE p \in S : TRUE

\* A verdict, with the payment that the receipt will show.
To(pc, p, raise) == [pc |-> pc, pay |-> p, raise |-> raise]
Mismatch(p, raise) == To("mismatch", p, raise)

\* Mutant: of several candidates one is taken.
Guess(S) == IF S = {} THEN To("unmatched", None, FALSE) ELSE To("settle", OneOf(S), FALSE)

\* By amount there may be one candidate only.
Sole(S) ==
    IF Cardinality(S) > 1 THEN Mismatch(None, TRUE)
    ELSE IF S = {} THEN To("unmatched", None, FALSE)
    ELSE To("settle", OneOf(S), FALSE)

\* The payments the flow names by the order's number come before that of the trade.
locatePayment(t) ==
    LET named == IF Direct(t) # {} THEN Direct(t) ELSE ByTrade(t)
        referred == flow[t].remark
    IN
    IF \E p \in ByTrade(t) : ~Bill(p) THEN Mismatch(OneOf(ByTrade(t)), TRUE)
    ELSE IF ByTrade(t) \notin {{}, named} THEN Mismatch(OneOf(named), TRUE)
    ELSE IF named # {} THEN To("settle", OneOf(named), FALSE)
    ELSE IF referred = {} THEN Sole(ByAmount(t))
    ELSE IF Cardinality(referred) > 1 THEN Mismatch(None, FALSE)
    ELSE IF ByRemark(t) # {} THEN To("settle", OneOf(ByRemark(t)), FALSE)
    ELSE Mismatch(OneOf(referred), FALSE)

\* A candidate is not enough: remark, amount, window and trade must agree with it.
Checked(t, choice) ==
    LET p == choice.pay IN
    IF choice.pc # "settle" THEN choice
    ELSE IF \/ payment[p].mode = "REMARK" /\ flow[t].remark # {p}
            \/ payment[p].value # flow[t].amount
            \/ ~isWithinReceiptWindow(t, p)
    THEN Mismatch(p, FALSE)
    ELSE IF channelTradeNo[p] \notin {None, t} THEN Mismatch(p, TRUE)
    ELSE choice

-----------------------------------------------------------------------------
(* ingestAlipayBillFlow                                                    *)

Goto(w, pc) == worker' = [worker EXCEPT ![w].pc = pc]
Done(w) == worker' = [worker EXCEPT ![w] = Idle]
Start(w, pc, t) == worker[w] = Idle /\ worker' = [worker EXCEPT ![w] = [Idle EXCEPT !.pc = pc, !.trade = t]]
Put(t, status, lock, p) == receipt' = [receipt EXCEPT ![t] = [status |-> status, lock |-> lock, pay |-> p]]

\* The claim, the reset and the record of an error leave the row its payment.
Keep(t, status, lock) == Put(t, status, lock, receipt[t].pay)

\* A flow is given to the API or read by the collector, once or again: its row is
\* made when there is none.  The claim is a later statement, which needs nothing but
\* the row.
Store(t) ==
    /\ flow[t] # None /\ Bill(flow[t].payer) /\ receipt[t] = NoReceipt
    /\ Put(t, "UNMATCHED", "null", None)
    /\ UNCHANGED <<coreVars, payVars, flow, raised, worker, now, faults>>

\* The claim of ingestAlipayBillFlow, of recoverStale and of a rematch.
Claimable(t) ==
    \/ receipt[t].status = "UNMATCHED"
    \/ receipt[t].status = "PROCESSING" /\ receipt[t].lock = "past"

Claim(w, t) ==
    /\ Claimable(t) /\ Bill(flow[t].payer)
    /\ Start(w, "locate", t)
    /\ Keep(t, "PROCESSING", "held")
    /\ UNCHANGED <<coreVars, payVars, flow, raised, now, faults>>

\* rematchAlipayBillReceipt reads the receipt, and resets it in a later statement.
Rematch(w, t) ==
    /\ receipt[t].status \notin {"NONE", "MATCHED"} /\ Bill(flow[t].payer)
    /\ Start(w, "reset", t)
    /\ UNCHANGED <<coreVars, payVars, flow, receipt, raised, now, faults>>

Reset(w) ==
    /\ worker[w].pc = "reset"
    /\ Keep(worker[w].trade, "UNMATCHED", "null")
    /\ Done(w)
    /\ UNCHANGED <<coreVars, payVars, flow, raised, now, faults>>

Locate(w) ==
    LET t == worker[w].trade
        choice == Checked(t, locatePayment(t))
    IN
    /\ worker[w].pc = "locate"
    /\ worker' = [worker EXCEPT ![w].pc = choice.pc, ![w].pay = choice.pay, ![w].raise = choice.raise]
    /\ UNCHANGED <<coreVars, payVars, flow, receipt, raised, now, faults>>

-----------------------------------------------------------------------------
(* markPaymentSucceeded                                                    *)

\* Mutant: a settled payment takes the money of any trade.
NeverConflicts(p, t) == FALSE

\* Refused with an AppError: the payment was settled by another trade.
Conflicts(p, t) == p \in settled /\ channelTradeNo[p] \notin {None, t}

\* Refused by the unique index, which is not an AppError.
TradeTaken(p, t) == p \notin settled /\ \E q \in Payments \ {p} : channelTradeNo[q] = t

markPaymentSucceeded(p, t) ==
    /\ ~Conflicts(p, t) /\ ~TradeTaken(p, t)
    /\ \/ p \in settled /\ UNCHANGED <<coreVars, channelTradeNo>>
       \/ /\ Core!Win(p) \/ Core!Dispute(p)
          /\ channelTradeNo' = [channelTradeNo EXCEPT ![p] = t]
    /\ UNCHANGED payment

\* Mutant: the lease is dropped with the error.
Unleased == "null"

ErrorLease == "held"

\* The catch of an error that is no AppError, at once.
RecordError(w) == Keep(worker[w].trade, "PROCESSING", ErrorLease) /\ Done(w)

Settle(w) ==
    LET t == worker[w].trade
        p == worker[w].pay
    IN
    /\ worker[w].pc = "settle"
    /\ \/ markPaymentSucceeded(p, t) /\ Goto(w, "match") /\ UNCHANGED receipt
       \/ /\ Conflicts(p, t)
          /\ worker' = [worker EXCEPT ![w].pc = "refuse", ![w].pay = None, ![w].raise = TRUE]
          /\ UNCHANGED <<coreVars, payVars, receipt>>
       \/ TradeTaken(p, t) /\ RecordError(w) /\ UNCHANGED <<coreVars, payVars>>
    /\ UNCHANGED <<flow, raised, now, faults>>

-----------------------------------------------------------------------------
(* The verdict is written whoever holds the receipt by then.               *)

MarkMatched(w) ==
    LET t == worker[w].trade IN
    /\ worker[w].pc = "match" /\ Bill(worker[w].pay)
    /\ Put(t, "MATCHED", "null", worker[w].pay)
    /\ raised' = raised \ {t}
    /\ Done(w)
    /\ UNCHANGED <<coreVars, payVars, flow, now, faults>>

markUnmatched(w) ==
    /\ worker[w].pc = "unmatched"
    /\ Put(worker[w].trade, "UNMATCHED", "null", None)
    /\ Done(w)
    /\ UNCHANGED <<coreVars, payVars, flow, raised, now, faults>>

\* Mutant: a conflict is not shown to the operator.
Silent(t, raise) == raised

\* openPaymentException, which opens a resolved case again.
Raise(t, raise) == IF raise THEN raised \cup {t} ELSE raised

markMismatch(w) ==
    LET t == worker[w].trade IN
    /\ worker[w].pc \in {"mismatch", "refuse"}
    /\ Put(t, "MISMATCH", "null", worker[w].pay)
    /\ raised' = Raise(t, worker[w].raise)
    /\ Done(w)
    /\ UNCHANGED <<coreVars, payVars, flow, now, faults>>

\* A statement throws: the database is away, or a transaction lost a deadlock.
Throw(w) ==
    /\ worker[w].pc \in {"locate", "settle", "match", "unmatched", "mismatch"}
    /\ faults < MaxFaults /\ faults' = faults + 1
    /\ RecordError(w)
    /\ UNCHANGED <<coreVars, payVars, flow, raised, now>>

\* The process ends, or the last statement failed too.
Lose(w) ==
    /\ worker[w] # Idle
    /\ faults < MaxFaults /\ faults' = faults + 1
    /\ Done(w)
    /\ UNCHANGED <<coreVars, payVars, flow, receipt, raised, now>>

\* Under a worker that is paused for so long, a fault.
LeaseElapses(t) ==
    LET paused == \E w \in Workers : worker[w].trade = t /\ worker[w].pc # "reset" IN
    /\ receipt[t].lock = "held"
    /\ paused => faults < MaxFaults
    /\ faults' = faults + IF paused THEN 1 ELSE 0
    /\ receipt' = [receipt EXCEPT ![t].lock = "past"]
    /\ UNCHANGED <<coreVars, payVars, flow, raised, worker, now>>

Tick ==
    /\ now < Horizon /\ now' = now + 1
    /\ UNCHANGED <<coreVars, payVars, flow, receipt, raised, worker, faults>>

Handle(w) ==
    \/ Reset(w) \/ Locate(w) \/ Settle(w)
    \/ MarkMatched(w) \/ markUnmatched(w) \/ markMismatch(w)

FlowNext ==
    \/ \E p \in Payments : CreatePayment(p)
    \/ \E t \in Trades, p \in Payments, kind \in Kinds : Pay(t, p, kind)
    \/ \E w \in Workers, t \in Trades : Claim(w, t) \/ Rematch(w, t)
    \/ \E w \in Workers : Handle(w) \/ Throw(w) \/ Lose(w)
    \/ \E t \in Trades : Store(t) \/ LeaseElapses(t)
    \/ Tick
=============================================================================
