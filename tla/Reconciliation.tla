---------------------------- MODULE Reconciliation ----------------------------
(***************************************************************************)
(* The daily bill of the Alipay account                                    *)
(* (apps/api/src/services/reconciliation-service.ts), beside the webhook   *)
(* that settles the same payments and the receipt flows that share the     *)
(* index of trade numbers.  Only the income rows of the bill are modelled. *)
(***************************************************************************)
EXTENDS ReceiptFlow

CONSTANTS Importers   \* requests that import the bill, or match one receipt again

VARIABLES
    importer,   \* the requests, todo being the rows of the file that are left
    run         \* the status of the reconciliation run of the day

reconVars == <<importer, run>>
allVars == <<vars, reconVars>>

Resting == [pc |-> "idle", trade |-> None, pay |-> None, fill |-> FALSE, file |-> FALSE, todo |-> {}]

ReconciliationInit ==
    /\ importer = [i \in Importers |-> Resting]
    /\ run = "NONE"

\* The trades of the account whose bill is imported.
Listed == {t \in Made : ~Bill(flow[t].payer)}

At(i, pc) == importer[i].pc = pc
Move(i, pc) == importer' = [importer EXCEPT ![i].pc = pc]

\* The webhook of the trade, whenever it comes and however often.  It names the order,
\* and another amount is refused.
Notify(t) ==
    /\ t \in Listed /\ payment[flow[t].payer].value = flow[t].amount
    /\ markPaymentSucceeded(flow[t].payer, t)
    /\ UNCHANGED <<flow, receipt, raised, worker, now, faults, reconVars>>

importAlipayBill(i) ==
    /\ importer[i] = Resting /\ Listed # {}
    /\ importer' = [importer EXCEPT ![i] = [Resting EXCEPT !.pc = "next", !.file = TRUE, !.todo = Listed]]
    /\ run' = "PROCESSING"
    /\ UNCHANGED vars

\* ingestAndMatch: a row that is known already is matched again.
StoreRow(i, t) ==
    /\ At(i, "next") /\ t \in importer[i].todo
    /\ importer' = [importer EXCEPT ![i].pc = "read", ![i].trade = t, ![i].todo = @ \ {t}]
    /\ IF receipt[t] = NoReceipt THEN Put(t, "UNMATCHED", "null", None) ELSE UNCHANGED receipt
    /\ UNCHANGED <<coreVars, payVars, flow, raised, worker, now, faults, run>>

\* The administrator has one receipt matched again, in whatever status it is.
matchReceipt(i, t) ==
    /\ importer[i] = Resting /\ t \in Listed /\ receipt[t].status # "NONE"
    /\ importer' = [importer EXCEPT ![i] = [Resting EXCEPT !.pc = "read", !.trade = t]]
    /\ UNCHANGED <<vars, run>>

\* matchIncome reads the payment of the order's number, if the row has it, and that of
\* the trade, if there is one.  A trade that a personal code holds, two different
\* payments, another amount or another trade are refused.
ReadIncome(i) ==
    LET t == importer[i].trade
        byMerchant == IF flow[t].kind = "noRemark" THEN {} ELSE {flow[t].payer}
        found == IF byMerchant # {} THEN byMerchant ELSE ByTrade(t)
        p == OneOf(IF \E q \in ByTrade(t) : Bill(q) THEN ByTrade(t) ELSE found)
        refused == \/ Bill(p) \/ ByTrade(t) \notin {{}, found}
                   \/ payment[p].value # flow[t].amount
                   \/ channelTradeNo[p] \notin {None, t}
    IN
    /\ At(i, "read")
    /\ importer' = [importer EXCEPT ![i] =
           IF found = {} THEN [@ EXCEPT !.pc = "UNMATCHED", !.pay = None]
           ELSE [@ EXCEPT !.pc = IF refused THEN "MISMATCH" ELSE "settle",
                          !.pay = p, !.fill = channelTradeNo[p] = None]]
    /\ UNCHANGED <<vars, run>>

SettleIncome(i) ==
    LET t == importer[i].trade
        p == importer[i].pay
    IN
    /\ At(i, "settle")
    /\ \/ markPaymentSucceeded(p, t) /\ Move(i, IF importer[i].fill THEN "fill" ELSE "MATCHED")
       \/ /\ Conflicts(p, t) \/ TradeTaken(p, t)
          /\ Move(i, "failed") /\ UNCHANGED <<coreVars, payVars>>
    /\ UNCHANGED <<flow, receipt, raised, worker, now, faults, run>>

\* The trade number is written when the read had found none, if the index allows.
FillTrade(i) ==
    LET t == importer[i].trade
        p == importer[i].pay
        free == ByTrade(t) \subseteq {p}
    IN
    /\ At(i, "fill")
    /\ Move(i, IF free THEN "MATCHED" ELSE "failed")
    /\ channelTradeNo' = IF free THEN [channelTradeNo EXCEPT ![p] = t] ELSE channelTradeNo
    /\ UNCHANGED <<coreVars, payment, flow, receipt, raised, worker, now, faults, run>>

\* markMatched, markMismatch and markUnmatched, which alone shows no payment.
Mark(i) ==
    /\ importer[i].pc \in {"MATCHED", "MISMATCH", "UNMATCHED"}
    /\ Put(importer[i].trade, importer[i].pc, "null", importer[i].pay)
    /\ importer' = [importer EXCEPT ![i] =
           IF @.file THEN [@ EXCEPT !.pc = "next", !.trade = None, !.pay = None, !.fill = FALSE]
           ELSE Resting]
    /\ UNCHANGED <<coreVars, payVars, flow, raised, worker, now, faults, run>>

FinishImport(i) ==
    /\ At(i, "next") /\ importer[i].todo = {}
    /\ importer' = [importer EXCEPT ![i] = Resting]
    /\ run' = "SUCCESS"
    /\ UNCHANGED vars

\* An error ends the request, and fails the run of an import.
FailImport(i) ==
    /\ At(i, "failed")
    /\ importer' = [importer EXCEPT ![i] = Resting]
    /\ run' = IF importer[i].file THEN "FAILED" ELSE run
    /\ UNCHANGED vars

ThrowInImport(i) ==
    /\ importer[i].pc \in {"read", "settle", "fill", "MATCHED", "MISMATCH", "UNMATCHED"}
    /\ faults < MaxFaults /\ faults' = faults + 1
    /\ Move(i, "failed")
    /\ UNCHANGED <<coreVars, payVars, flow, receipt, raised, worker, now, run>>

LoseImport(i) ==
    /\ importer[i] # Resting
    /\ faults < MaxFaults /\ faults' = faults + 1
    /\ importer' = [importer EXCEPT ![i] = Resting]
    /\ UNCHANGED <<coreVars, payVars, flow, receipt, raised, worker, now, run>>

Request(i) ==
    \/ (\E t \in Trades : StoreRow(i, t)) \/ ReadIncome(i) \/ SettleIncome(i) \/ FillTrade(i)
    \/ Mark(i) \/ FinishImport(i) \/ FailImport(i)

Next ==
    \/ FlowNext /\ UNCHANGED reconVars
    \/ \E t \in Trades : Notify(t)
    \/ \E i \in Importers : importAlipayBill(i) \/ (\E t \in Trades : matchReceipt(i, t))
    \/ \E i \in Importers : Request(i) \/ ThrowInImport(i) \/ LoseImport(i)

AllInit == Init /\ ReconciliationInit

Spec == AllInit /\ [][Next]_allVars

-----------------------------------------------------------------------------
(* Properties                                                              *)

\* A matched receipt is bound: its payment succeeded, with this very trade and with
\* the amount of the flow, and for a personal code the flow lies in the window of
\* the payment, whichever of the workers, the webhook and the import came first.
MatchedIsBound ==
    \A t \in Trades : receipt[t].status = "MATCHED" =>
        LET p == receipt[t].pay IN
        /\ p \in settled /\ channelTradeNo[p] = t
        /\ payment[p].value = flow[t].amount
        /\ Bill(p) => isWithinReceiptWindow(t, p)

\* A customer who pays what the cashier shows, while the code is valid.
Careful(t) ==
    /\ flow[t] # None /\ Bill(flow[t].payer) /\ flow[t].kind = "asShown"
    /\ isWithinReceiptWindow(t, flow[t].payer)

\* The money of a careful customer never pays for somebody else, be it recognised by
\* its amount alone: docs/architecture.md has the amount stay reserved until the end
\* of the window, even when the payment is paid or closed before.
CreditedToPayer ==
    \A t \in Trades, p \in Payments : Careful(t) /\ channelTradeNo[p] = t => p = flow[t].payer

\* A careful customer's flow that matches nothing is in front of the operator: it is
\* refused with an open exception, and never as an unknown flow.
CarefulIsSeen ==
    \A t \in Trades : Careful(t) /\ receipt[t].status = "MISMATCH" => t \in raised

\* The windows of two payments that are shown the same amount do not overlap, but for
\* the instant where one ends: within it the amount alone tells who paid, whatever
\* was paid, settled or disputed meanwhile.
AmountsAreExclusive ==
    \A p, q \in Payments :
        p # q /\ Bill(p) /\ Bill(q) /\ payment[p].mode = "AMOUNT" /\ payment[q].mode = "AMOUNT"
        /\ payment[p].value = payment[q].value
        => payment[p].until <= payment[q].from \/ payment[q].until <= payment[p].from

\* No money is credited that did not arrive, and none is credited twice: a payment that
\* was settled has a trade of its own, of the amount that it asked for, and either wins
\* its order, which the business is told, or is disputed.
CreditIsFunded ==
    \A p \in settled :
        LET t == channelTradeNo[p]  o == OrderOf[p] IN
        /\ t \in Made /\ flow[t].amount = payment[p].value
        /\ \A q \in Payments \ {p} : channelTradeNo[q] # t
        /\ IF winner[o] = p THEN p \notin disputed /\ told[o] = IF o \in WithUrl THEN p ELSE None
           ELSE p \in disputed

\* A flow is not lost in the hands of a worker: as long as it is undecided some
\* worker holds a lease that runs out, or the worker's tick finds it.
UndecidedIsFound ==
    \A t \in Trades : receipt[t].status = "PROCESSING" => receipt[t].lock # "null"

FlowTypeOK ==
    /\ settled \subseteq Payments /\ channelTradeNo \in [Payments -> Trades \cup {None}]
    /\ \A t \in Trades :
        /\ receipt[t].status \in {"NONE", "UNMATCHED", "PROCESSING", "MATCHED", "MISMATCH"}
        /\ receipt[t].pay \in Payments \cup {None}
        /\ receipt[t].status = "MATCHED" => receipt[t].pay # None
    /\ \A w \in Workers :
        /\ worker[w].pc \in {"idle", "reset", "locate", "settle", "match", "unmatched", "mismatch", "refuse"}
        /\ worker[w].pc \in {"settle", "match"} => Bill(worker[w].pay)
    /\ run \in {"NONE", "PROCESSING", "SUCCESS", "FAILED"}

=============================================================================
