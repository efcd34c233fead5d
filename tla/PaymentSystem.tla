--------------------------- MODULE PaymentSystem ----------------------------
(***************************************************************************)
(* The API's handlers, the worker's two loops and the payment channel      *)
(* together, and what they promise.                                        *)
(***************************************************************************)
EXTENDS Expiration, Recovery

ApiStep(h) ==
    \/ DispatchCreate(h) \/ ObserveCreate(h) \/ ObservationThrows(h)
    \/ SettleNotice(h) \/ SettlementThrows(h) \/ AcknowledgeNotice(h)

\* The steps of queryPayment and closePayment, for whoever called them.
CallStep(h) ==
    \/ ChannelQuery(h) \/ QueryThrows(h) \/ ApplyQuery(h)
    \/ ChannelClose(h) \/ CloseThrows(h) \/ ConfirmClose(h)

ExpirerStep(h) ==
    \/ LoadOrder(h) \/ LoadPayments(h) \/ VisitPayment(h)
    \/ AfterQuery(h) \/ AfterClose(h) \/ releaseExpiration(h)
    \/ CloseOrder(h) \/ ExpireFailRead(h) \/ ExpireFailWrite(h)

RecovererStep(h) ==
    \/ RecoverQuery(h) \/ AfterRecovery(h) \/ RecoverRead(h) \/ RecoverWrite(h)

AnyNotice(h, pay) == \E status \in NoticeStatus : ReceiveNotice(h, pay, status)

Request(h, pay) ==
    \/ CreatePayment(h, pay) \/ StartQuery(h, pay) \/ StartClose(h, pay)
    \/ AnyNotice(h, pay)

Next ==
    \/ \E h \in Procs :
           \/ ApiStep(h) \/ CallStep(h) \/ ExpirerStep(h) \/ RecovererStep(h)
           \/ Crash(h)
           \/ \E pay \in Payments : Request(h, pay) \/ ClaimRecovery(h, pay)
           \/ \E o \in Orders : ClaimExpiration(h, o)
    \/ \E pay \in Payments :
           \/ Credit(pay) \/ UpdatePaymentException(pay)
           \/ LateCreate(pay) \/ Buyer(pay) \/ Inform(pay) \/ GiveUp(pay)
    \/ \E o \in Orders :
           \/ RefundWinner(o) \/ PassDeadline(o) \/ BackoffElapses(o)
           \/ LeaseElapses(o)

Spec == Init /\ [][Next]_vars

(***************************************************************************)
(* What the runtime guarantees.  A started handler goes on unless it is    *)
(* lost, the worker polls every three seconds, and time passes (WF).  A    *)
(* call the worker makes again and again is answered in the end, and a     *)
(* success that Alipay keeps notifying of is received and settled (SF).    *)
(***************************************************************************)
Fairness ==
    /\ \A h \in Procs :
           WF_vars(ApiStep(h) \/ CallStep(h) \/ ExpirerStep(h) \/ RecovererStep(h))
    /\ \A h \in Expirers \cup Recoverers : SF_vars(ChannelQuery(h))
    /\ \A h \in Expirers : SF_vars(ChannelClose(h))
    /\ \A h \in Api : SF_vars(SettleNotice(h))
    /\ \A pay \in Payments :
           /\ SF_vars(\E h \in Api : ReceiveNotice(h, pay, "SUCCESS"))
           /\ WF_vars(\E h \in Recoverers : ClaimRecovery(h, pay))
    /\ \A o \in Orders :
           /\ WF_vars(\E h \in Expirers : ClaimExpiration(h, o))
           /\ WF_vars(BackoffElapses(o)) /\ WF_vars(LeaseElapses(o))

FairSpec == Spec /\ Fairness

-----------------------------------------------------------------------------
(* Safety                                                                  *)

ProcState ==
    [pc : {"idle", "dispatch", "observe", "query", "apply", "close", "confirm",
           "settle", "acknowledge", "afterQuery", "afterClose", "loadOrder",
           "loadPayments", "loop", "release", "expireFail", "expireFailWrite",
           "recover", "exhaust", "recoverFail", "recoverWrite"},
     pay : Payments \cup {None}, seen : RowStatus, rearm : BOOLEAN,
     res : RowStatus \cup {"error"}, order : Orders \cup {None},
     todo : SUBSET Payments, paidSeen : SUBSET Payments, final : BOOLEAN]

\* Every variable has the type the schema and the handlers give it; attempts of
\* recovery never exceed RECOVERY_MAX_ATTEMPTS.
TypeOK ==
    /\ orderStatus \in [Orders -> OrderStatus]
    /\ winningPaymentId \in [Orders -> Payments \cup {None}]
    /\ delivery \in [Orders -> Payments \cup {None}]
    /\ expirationNext \in [Orders -> {"none", "later", "due"}]
    /\ expirationLocked \in [Orders -> BOOLEAN]
    /\ payStatus \in [Payments -> RowStatus]
    /\ nextQueryAt \in [Payments -> BOOLEAN]
    /\ queryAttempts \in [Payments -> 0 .. RECOVERY_MAX_ATTEMPTS]
    /\ exception \in [Payments -> ExceptionStatus]
    /\ callback \in [Payments \X NoticeStatus -> {"none", "recorded", "processed"}]
    /\ expired \in [Orders -> SUBSET {"api", "worker"}]
    /\ trade \in [Payments -> TradeStatus]
    /\ inTransit \subseteq Payments
    /\ notices \subseteq Payments \X NoticeStatus
    /\ proc \in [Procs -> ProcState]
    /\ crashes \in 0 .. MaxCrashes

\* A handler that works on a payment names one whose row exists, and carries an
\* answer of the channel only where the code has one (with TypeOK: the part of
\* the inductive invariant that is about the handlers).
GoodHandler(s) ==
    /\ s.pc \notin {"idle", "loadOrder", "loadPayments", "loop", "release",
                     "expireFail", "expireFailWrite"}
          => s.pay \in Payments /\ payStatus[s.pay] # "NONE"
    /\ s.pc = "observe" => s.res \in {"PROCESSING", "FAILED", "UNKNOWN"}
    /\ s.pc \in {"query", "apply"} => s.seen \in PaymentStatus
    /\ s.pc = "apply" => s.res \in PaymentStatus

HandlersOK == \A h \in Procs : GoodHandler(proc[h])

Settled(pay) == payStatus[pay] = "SUCCESS"

\* An order is paid exactly when it has a winning payment, and the winner is one
\* of its own payments and successful (markPaymentSucceeded writes the three
\* facts; createPayment, the expiration and the refunds write the status too).
PaidMeansWinner ==
    \A o \in Orders :
        /\ (orderStatus[o] \in PaidOrder) = (winningPaymentId[o] # None)
        /\ winningPaymentId[o] # None =>
               OrderOf[winningPaymentId[o]] = o /\ Settled(winningPaymentId[o])

\* Money that arrived is accounted for once: a successful payment is the winner
\* of its order or has a LATE_DUPLICATE case, never both and never neither, in
\* whichever order webhook, query, mock success and expiration interleave.
MoneyAccountedOnce ==
    \A p \in Payments :
        /\ Settled(p) => (winningPaymentId[OrderOf[p]] = p) # (exception[p] # "NONE")
        /\ exception[p] # "NONE" => Settled(p)

\* The business is told of a payment exactly when the order is paid (and has a
\* notification URL), and of the winning payment, however many attempts succeed.
OutboxTellsWinner ==
    \A o \in Orders :
        delivery[o] = IF o \in WithUrl THEN winningPaymentId[o] ELSE None

\* The callback of a notice of success is marked processed only after its payment
\* was settled, so that a handler lost between the two leaves a callback that is
\* processed again.  (Notices of other statuses settle nothing.)
ProcessedMeansSettled ==
    \A p \in Payments : callback[<<p, "SUCCESS">>] = "processed" => Settled(p)

\* An Alipay payment is successful only if Alipay was really paid: no stale
\* answer, timeout or failed close is ever taken for a success.
SuccessMeansPaid == \A p \in Payments : Alipay(p) /\ Settled(p) => trade[p] = "paid"

\* An Alipay payment recorded as CLOSED can no longer be paid at Alipay.
ClosedMeansClosed ==
    \A p \in Payments : Alipay(p) /\ payStatus[p] = "CLOSED" => trade[p] = "closed"

\* A closed order has no attempt a customer could still be paying: the expiration
\* and a concurrent createPayment never leave one behind.
ClosedOrderIsQuiet ==
    \A p \in Payments :
        orderStatus[OrderOf[p]] = "CLOSED" => payStatus[p] \notin ActivePayment

\* An order that still waits for money is never dropped from the schedule of
\* the expiration, whatever fails or is lost on the way.
UnpaidStaysScheduled ==
    \A o \in Orders : orderStatus[o] \in PayableOrder => expirationNext[o] # "none"

\* A payment whose result is open, and whose attempts are not used up, is always
\* on the worker's list, even if the handler that created it was lost.
OpenIsRediscovered ==
    \A p \in Payments :
        /\ Alipay(p) /\ payStatus[p] \in Recoverable
        /\ queryAttempts[p] < RECOVERY_MAX_ATTEMPTS
        => nextQueryAt[p]

-----------------------------------------------------------------------------
(* Refinement                                                              *)

Settlement == INSTANCE Settlement WITH
    settled <- {p \in Payments : Settled(p)},
    winner <- winningPaymentId,
    told <- delivery,
    disputed <- {p \in Payments : exception[p] # "NONE"}

\* Seen through the rows it leaves, the system settles each payment once and in
\* one step: the first of an order wins and is told, every later one is disputed.
ImplementsSettlement == Settlement!Spec

-----------------------------------------------------------------------------
(* Action properties                                                       *)

\* Every change of a payment's status is an edge of the state machine, although
\* the handlers decide on a row they read before they called the channel.
StatusFollowsGraph ==
    [][\A p \in Payments :
          payStatus[p] # "NONE" => /\ payStatus'[p] # "NONE"
                                   /\ canPaymentTransition(payStatus[p], payStatus'[p])]_vars

\* The winner of an order never changes, and a paid order never becomes unpaid.
WinnerIsFinal ==
    [][\A o \in Orders : winningPaymentId[o] # None =>
          /\ winningPaymentId'[o] = winningPaymentId[o]
          /\ orderStatus'[o] \in PaidOrder]_vars

-----------------------------------------------------------------------------
(* Liveness, under FairSpec                                                *)

\* The worker would still query this payment.
InRecovery(p) ==
    payStatus[p] \in Recoverable /\ nextQueryAt[p] /\ queryAttempts[p] < RECOVERY_MAX_ATTEMPTS

\* Money paid to Alipay is recorded in the end: because Alipay repeats its
\* notification, or, once it has given up, because the worker asks.  Only when both
\* are over may it stay unrecorded.
PaidIsRecorded ==
    \A p \in Payments : trade[p] = "paid" ~> Settled(p) \/ (<<p, "SUCCESS">> \notin notices /\ ~InRecovery(p))

Overdue(o) == "worker" \in expired[o] /\ orderStatus[o] \in PayableOrder

\* An order past its deadline is closed or paid in the end (README.md:317 of the
\* repository).  False where a code is displayed and never scanned.
ExpiredIsSettled == \A o \in Orders : Overdue(o) ~> orderStatus[o] \notin PayableOrder

\* An open attempt whose code nobody scanned: Alipay refuses to close its trade.
Unscanned(o) ==
    \E p \in Payments :
        /\ OrderOf[p] = o /\ Alipay(p)
        /\ payStatus[p] \in ActivePayment /\ trade[p] \in {"none", "qr"}

\* What does hold: an order past its deadline is closed or paid in the end, unless
\* again and again one of its open attempts is a code nobody scanned; whatever
\* queries or closes fail, the order is taken up again until it ends.
ScannedIsSettled ==
    \A o \in Orders : Overdue(o) ~> (orderStatus[o] \notin PayableOrder \/ Unscanned(o))

=============================================================================
