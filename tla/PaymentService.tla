--------------------------- MODULE PaymentService ---------------------------
(***************************************************************************)
(* Orders and payment attempts, as apps/api/src/services/payment-service.ts *)
(* drives them against the database and the payment channel.               *)
(*                                                                         *)
(* A database transaction is one step.  A handler that awaits a channel    *)
(* call between two accesses of the database is several steps: what it     *)
(* read stays in its record of proc and may be stale when it is used.      *)
(* A handler may be lost between any two of its steps (Crash).             *)
(*                                                                         *)
(* Time is abstracted: a nullable instant is null or set, and a deadline   *)
(* passes in a step of the environment.                                    *)
(***************************************************************************)
EXTENDS StateMachine, FiniteSets

CONSTANTS
    Orders, Payments,
    OrderOf,       \* the order a payment attempt is made for
    ChannelOf,     \* the channel of a payment attempt
    WithUrl,       \* the orders for which notificationUrl() is not null
    Notified,      \* what Alipay also notifies of, beside a payment
    Lossy,         \* the payments whose notification Alipay may stop sending
    Api,           \* request handlers of the API
    Expirers,      \* runs of runDueOrderExpirations
    Recoverers,    \* runs of runDuePaymentRecoveries
    RECOVERY_MAX_ATTEMPTS,
    MaxCrashes,    \* bound: the handlers that may be lost
    None

Procs == Api \cup Expirers \cup Recoverers

ASSUME PaymentAssumption ==
    /\ OrderOf \in [Payments -> Orders]
    /\ ChannelOf \in [Payments -> {"ALIPAY", "ALIPAY_BILL", "MOCK"}]
    /\ WithUrl \subseteq Orders
    /\ Notified \subseteq {"PROCESSING", "CLOSED"}
    /\ Lossy \subseteq Payments
    /\ Api \cap Expirers = {} /\ Api \cap Recoverers = {}
    /\ Expirers \cap Recoverers = {}
    /\ RECOVERY_MAX_ATTEMPTS \in Nat \ {0}
    /\ MaxCrashes \in Nat
    /\ None \notin Payments \cup Orders

VARIABLES
    \* table orders, and the outbox row "payment.succeeded" of each order
    orderStatus, winningPaymentId, delivery,
    expirationNext,     \* expirationNextAttemptAt: "none", "later" or "due"
    expirationLocked,   \* expirationLockedUntil lies in the future
    \* table payments; "NONE" for a row that does not exist
    payStatus,
    nextQueryAt,        \* nextQueryAt is not null
    queryAttempts,
    \* tables payment_exceptions (LATE_DUPLICATE) and channel_callbacks (by the
    \* event of its notification: a payment and the status it reports)
    exception, callback,
    \* the clocks that have passed expiresAt: the API's, the worker's
    expired,
    \* the channel: trades, creation requests under way, unanswered notifications
    trade, inTransit, notices,
    \* the handlers
    proc, crashes

orderVars == <<orderStatus, winningPaymentId, delivery,
               expirationNext, expirationLocked>>
paymentVars == <<payStatus, nextQueryAt, exception>>
channelVars == <<trade, inTransit, notices>>
vars == <<orderVars, paymentVars, queryAttempts, callback, expired,
          channelVars, proc, crashes>>

RowStatus == PaymentStatus \cup {"NONE"}
ExceptionStatus == {"NONE", "OPEN", "PROCESSING", "RESOLVED", "IGNORED"}
TradeStatus == {"none", "qr", "wait", "paid", "closed"}
NoticeStatus == {"SUCCESS"} \cup Notified

\* What a handler holds between two steps: where it is, the payment it works on,
\* the status it read (seen), whether the row it read asks for a new query
\* (rearm), the answer or the result it carries (res), and for the workers the
\* order, the payments still to visit and whether this is the last attempt.
Idle == [pc |-> "idle", pay |-> None, seen |-> "NONE", rearm |-> FALSE,
         res |-> "NONE", order |-> None, todo |-> {}, paidSeen |-> {},
         final |-> FALSE]

Init ==
    /\ orderStatus = [o \in Orders |-> "CREATED"]
    /\ winningPaymentId = [o \in Orders |-> None]
    /\ delivery = [o \in Orders |-> None]
    /\ expirationNext = [o \in Orders |-> "due"]
    /\ expirationLocked = [o \in Orders |-> FALSE]
    /\ payStatus = [p \in Payments |-> "NONE"]
    /\ nextQueryAt = [p \in Payments |-> FALSE]
    /\ queryAttempts = [p \in Payments |-> 0]
    /\ exception = [p \in Payments |-> "NONE"]
    /\ callback = [n \in Payments \X NoticeStatus |-> "none"]
    /\ expired = [o \in Orders |-> {}]
    /\ trade = [p \in Payments |-> "none"]
    /\ inTransit = {}
    /\ notices = {}
    /\ proc = [h \in Procs |-> Idle]
    /\ crashes = 0

Alipay(pay) == ChannelOf[pay] = "ALIPAY"

Become(h, state) == proc' = [proc EXCEPT ![h] = state]

\* The end of queryPayment or closePayment: a response to the API's client, or a
\* result (or "error", a throw) for the worker's loop that called it.
Return(h, at, pay, result) ==
    Become(h, IF h \in Api THEN Idle
              ELSE [proc[h] EXCEPT !.pc = at, !.pay = pay, !.res = result,
                                   !.seen = "NONE", !.rearm = FALSE])

-----------------------------------------------------------------------------
(* The two transactions through which a payment changes its status.        *)

\* Mutant: the row is written without reading it again under the lock.
UpdateBlindly(pay, status) ==
    /\ payStatus' = [payStatus EXCEPT ![pay] = status]
    /\ nextQueryAt' = [nextQueryAt EXCEPT ![pay] = Alipay(pay) /\ status \in Recoverable]

Accepts(pay, status) ==
    payStatus[pay] # "SUCCESS" /\ canPaymentTransition(payStatus[pay], status)

updatePaymentObservation(pay, status) ==
    IF Accepts(pay, status)
    THEN /\ payStatus' = [payStatus EXCEPT ![pay] = status]
         /\ nextQueryAt' = [nextQueryAt EXCEPT
                               ![pay] = Alipay(pay) /\ status \in Recoverable]
    ELSE UNCHANGED <<payStatus, nextQueryAt>>

\* Mutant: only an order in SUCCESS counts as already paid.
OnlySuccessIsLate(o) == orderStatus[o] = "SUCCESS"
\* Mutant: no order counts as already paid.
NothingIsLate(o) == FALSE

isLateDuplicate(o) == orderStatus[o] \in PaidOrder

\* openLateDuplicateException: a row for the payment, reopened if it was settled.
openLateDuplicateException(pay) ==
    exception' = [exception EXCEPT
        ![pay] = IF @ \in {"NONE", "RESOLVED", "IGNORED"} THEN "OPEN" ELSE @]

\* createPaymentSucceededDelivery: an upsert that never changes an existing row.
createPaymentSucceededDelivery(o, pay) ==
    delivery' = [delivery EXCEPT
        ![o] = IF o \in WithUrl /\ @ = None THEN pay ELSE @]

\* Mutant: the outbox row is written for every success.
MarkAndAlwaysNotify(pay) ==
    LET o == OrderOf[pay] IN
    /\ payStatus' = [payStatus EXCEPT ![pay] = "SUCCESS"]
    /\ delivery' = [delivery EXCEPT ![o] = IF o \in WithUrl THEN pay ELSE @]
    /\ IF isLateDuplicate(o)
       THEN openLateDuplicateException(pay) /\ UNCHANGED <<orderStatus, winningPaymentId>>
       ELSE /\ orderStatus' = [orderStatus EXCEPT ![o] = "SUCCESS"]
            /\ winningPaymentId' = [winningPaymentId EXCEPT ![o] = pay]
            /\ UNCHANGED exception
    /\ UNCHANGED <<nextQueryAt, expirationNext, expirationLocked>>

\* markPaymentSucceeded on an existing row whose amount agrees.
markPaymentSucceeded(pay) ==
    LET o == OrderOf[pay] IN
    /\ payStatus[pay] # "NONE"
    /\ canPaymentTransition(payStatus[pay], "SUCCESS")
    /\ IF payStatus[pay] = "SUCCESS"
       THEN UNCHANGED <<paymentVars, orderVars>>
       ELSE /\ payStatus' = [payStatus EXCEPT ![pay] = "SUCCESS"]
            /\ nextQueryAt' = [nextQueryAt EXCEPT ![pay] = FALSE]
            /\ IF isLateDuplicate(o)
               THEN openLateDuplicateException(pay) /\ UNCHANGED orderVars
               ELSE /\ orderStatus' = [orderStatus EXCEPT ![o] = "SUCCESS"]
                    /\ winningPaymentId' = [winningPaymentId EXCEPT ![o] = pay]
                    /\ expirationNext' = [expirationNext EXCEPT ![o] = "none"]
                    /\ expirationLocked' = [expirationLocked EXCEPT ![o] = FALSE]
                    /\ createPaymentSucceededDelivery(o, pay)
                    /\ UNCHANGED exception

-----------------------------------------------------------------------------
(* createPayment: a transaction, the channel's create, an observation.     *)

\* Mutant: the deadline and the status of the order are not checked.
CreateForAnyOrder(o) == TRUE

Payable(o) == "api" \notin expired[o] /\ orderStatus[o] \in PayableOrder

\* The row is created and becomes PROCESSING, and the order PENDING, before the
\* channel is called.  (A request with a known idempotency key changes nothing.)
CreatePayment(h, pay) ==
    LET o == OrderOf[pay] IN
    /\ h \in Api /\ proc[h] = Idle
    /\ payStatus[pay] = "NONE"
    /\ Payable(o)
    /\ payStatus' = [payStatus EXCEPT ![pay] = "PROCESSING"]
    /\ nextQueryAt' = [nextQueryAt EXCEPT ![pay] = Alipay(pay)]
    /\ orderStatus' = [orderStatus EXCEPT ![o] = "PENDING"]
    /\ Become(h, [Idle EXCEPT !.pc = "dispatch", !.pay = pay])
    /\ UNCHANGED <<winningPaymentId, delivery, expirationNext, expirationLocked,
                   exception, queryAttempts, callback, expired, channelVars, crashes>>

\* adapter.create answers: accepted, refused (a definitive error), or no answer
\* in time, when the request may have been lost, or done, or be under way.  When
\* only the body of Alipay's answer is lost, response.text() throws an error that
\* is not a ChannelUncertainError, and the attempt is FAILED with a live code.
DispatchCreate(h) ==
    LET pay == proc[h].pay
        Answer(status) == Become(h, [proc[h] EXCEPT !.pc = "observe", !.res = status])
        Precreated == [trade EXCEPT ![pay] = IF @ = "none" THEN "qr" ELSE @]
    IN
    /\ proc[h].pc = "dispatch"
    /\ \/ /\ Answer("PROCESSING")
          /\ trade' = IF Alipay(pay) THEN Precreated ELSE trade
          /\ UNCHANGED inTransit
       \/ /\ Answer("FAILED") /\ UNCHANGED inTransit
          /\ trade' \in {trade, IF Alipay(pay) THEN Precreated ELSE trade}
       \/ /\ Alipay(pay) /\ Answer("UNKNOWN")
          /\ \/ UNCHANGED <<trade, inTransit>>
             \/ trade' = Precreated /\ UNCHANGED inTransit
             \/ inTransit' = inTransit \cup {pay} /\ UNCHANGED trade
    /\ UNCHANGED <<orderVars, paymentVars, queryAttempts, callback, expired,
                   notices, crashes>>

ObserveCreate(h) ==
    /\ proc[h].pc = "observe"
    /\ updatePaymentObservation(proc[h].pay, proc[h].res)
    /\ Become(h, Idle)
    /\ UNCHANGED <<orderVars, exception, queryAttempts, callback, expired,
                   channelVars, crashes>>

\* The try block covers the observation: when its transaction throws after the
\* channel accepted, the catch block records FAILED.
ObservationThrows(h) ==
    /\ proc[h].pc = "observe" /\ proc[h].res = "PROCESSING"
    /\ Become(h, [proc[h] EXCEPT !.res = "FAILED"])
    /\ UNCHANGED <<orderVars, paymentVars, queryAttempts, callback, expired,
                   channelVars, crashes>>

-----------------------------------------------------------------------------
(* queryPayment: read the row, ask the channel, apply the answer.          *)

QueryRead(h, pay) ==
    /\ payStatus[pay] # "NONE"
    /\ Become(h, [proc[h] EXCEPT
           !.pc = "query", !.pay = pay, !.res = "NONE", !.seen = payStatus[pay],
           !.rearm = /\ Alipay(pay) /\ payStatus[pay] \in Recoverable
                     /\ ~nextQueryAt[pay]
                     /\ queryAttempts[pay] < RECOVERY_MAX_ATTEMPTS])

StartQuery(h, pay) ==
    /\ h \in Api /\ proc[h] = Idle
    /\ QueryRead(h, pay)
    /\ UNCHANGED <<orderVars, paymentVars, queryAttempts, callback, expired,
                   channelVars, crashes>>

\* Mutant: a trade that waits for its buyer is read as a success.
WaitIsSuccess(pay) ==
    IF ~Alipay(pay) THEN "PROCESSING"
    ELSE IF trade[pay] \in {"paid", "wait"} THEN "SUCCESS" ELSE "CREATED"

\* adapter.query: what Alipay says of a trade, a missing one being "CREATED".
\* The other two channels have no remote record and always say PROCESSING.
QueryAnswer(pay) ==
    IF ~Alipay(pay) THEN "PROCESSING"
    ELSE CASE trade[pay] = "paid" -> "SUCCESS"
           [] trade[pay] = "closed" -> "CLOSED"
           [] trade[pay] = "wait" -> "PROCESSING"
           [] OTHER -> "CREATED"

ChannelQuery(h) ==
    /\ proc[h].pc = "query"
    /\ Become(h, [proc[h] EXCEPT !.pc = "apply", !.res = QueryAnswer(proc[h].pay)])
    /\ UNCHANGED <<orderVars, paymentVars, queryAttempts, callback, expired,
                   channelVars, crashes>>

QueryThrows(h) ==
    /\ proc[h].pc = "query" /\ Alipay(proc[h].pay)
    /\ Return(h, "afterQuery", proc[h].pay, "error")
    /\ UNCHANGED <<orderVars, paymentVars, queryAttempts, callback, expired,
                   channelVars, crashes>>

\* The branches of queryPayment, in the code's order; seen and rearm are what
\* the row said before the channel was asked.
ApplyQuery(h) ==
    LET pay == proc[h].pay
        seen == proc[h].seen
        answer == proc[h].res
        news == seen # answer /\ seen # "SUCCESS" /\ canPaymentTransition(seen, answer)
    IN
    /\ proc[h].pc = "apply"
    /\ \/ /\ answer = "SUCCESS"
          /\ markPaymentSucceeded(pay)
          /\ Return(h, "afterQuery", pay, "SUCCESS")
       \/ /\ answer # "SUCCESS" /\ news
          /\ updatePaymentObservation(pay, answer)
          /\ Return(h, "afterQuery", pay,
                    IF Accepts(pay, answer) THEN answer ELSE payStatus[pay])
          /\ UNCHANGED <<orderVars, exception>>
       \/ /\ answer # "SUCCESS" /\ ~news
          /\ nextQueryAt' = [nextQueryAt EXCEPT ![pay] = @ \/ proc[h].rearm]
          /\ Return(h, "afterQuery", pay, IF proc[h].rearm THEN payStatus[pay] ELSE seen)
          /\ UNCHANGED <<orderVars, payStatus, exception>>
    /\ UNCHANGED <<queryAttempts, callback, expired, channelVars, crashes>>

-----------------------------------------------------------------------------
(* closePayment: read the row, ask the channel to close, write CLOSED.     *)

CloseRead(h, pay) ==
    /\ payStatus[pay] # "NONE"
    /\ IF payStatus[pay] \in {"SUCCESS", "CLOSED"}
       THEN Return(h, "afterClose", pay, payStatus[pay])
       ELSE IF payStatus[pay] \notin ActivePayment
       THEN Return(h, "afterClose", pay, "error")
       ELSE Become(h, [proc[h] EXCEPT !.pc = "close", !.pay = pay, !.res = "NONE"])

StartClose(h, pay) ==
    /\ h \in Api /\ proc[h] = Idle
    /\ CloseRead(h, pay)
    /\ UNCHANGED <<orderVars, paymentVars, queryAttempts, callback, expired,
                   channelVars, crashes>>

\* Mutant: a refused close is taken for a close.
ClosesAnything(pay) == TRUE

\* Alipay closes a trade that waits for its buyer, and may confirm a closed one
\* again; it refuses a paid trade and one that does not exist.
Closable(pay) == ~Alipay(pay) \/ trade[pay] \in {"wait", "closed"}

ChannelClose(h) ==
    LET pay == proc[h].pay IN
    /\ proc[h].pc = "close"
    /\ Closable(pay)
    /\ trade' = IF Alipay(pay) /\ trade[pay] = "wait"
                THEN [trade EXCEPT ![pay] = "closed"] ELSE trade
    /\ Become(h, [proc[h] EXCEPT !.pc = "confirm"])
    /\ UNCHANGED <<orderVars, paymentVars, queryAttempts, callback, expired,
                   inTransit, notices, crashes>>

\* Refused, or no answer in time (then the trade may be closed all the same).
CloseThrows(h) ==
    LET pay == proc[h].pay IN
    /\ proc[h].pc = "close" /\ Alipay(pay)
    /\ \/ UNCHANGED trade
       \/ trade[pay] = "wait" /\ trade' = [trade EXCEPT ![pay] = "closed"]
    /\ Return(h, "afterClose", pay, "error")
    /\ UNCHANGED <<orderVars, paymentVars, queryAttempts, callback, expired,
                   inTransit, notices, crashes>>

ConfirmClose(h) ==
    LET pay == proc[h].pay
        now == payStatus[pay]
    IN
    /\ proc[h].pc = "confirm"
    /\ IF now \in {"SUCCESS", "CLOSED"}
       THEN Return(h, "afterClose", pay, now) /\ UNCHANGED paymentVars
       ELSE IF ~canPaymentTransition(now, "CLOSED")
       THEN Return(h, "afterClose", pay, "error") /\ UNCHANGED paymentVars
       ELSE /\ payStatus' = [payStatus EXCEPT ![pay] = "CLOSED"]
            /\ nextQueryAt' = [nextQueryAt EXCEPT ![pay] = FALSE]
            /\ Return(h, "afterClose", pay, "CLOSED")
            /\ UNCHANGED exception
    /\ UNCHANGED <<orderVars, queryAttempts, callback, expired, channelVars, crashes>>

-----------------------------------------------------------------------------
(* handleAlipayWebhook: record the callback, settle, mark it processed.    *)

AlreadyProcessed(pay, status) == callback[<<pay, status>>] = "processed"

\* Mutant: the callback is marked processed before its payment is settled.
BornProcessed == "processed"

newCallback == "recorded"

\* Only a notice of success settles; any other is marked processed at once.
ReceiveNotice(h, pay, status) ==
    /\ h \in Api /\ proc[h] = Idle
    /\ <<pay, status>> \in notices /\ payStatus[pay] # "NONE"
    /\ IF AlreadyProcessed(pay, status)
       THEN /\ notices' = notices \ {<<pay, status>>}
            /\ UNCHANGED <<callback, proc>>
       ELSE /\ callback' = [callback EXCEPT ![<<pay, status>>] = newCallback]
            /\ Become(h, [Idle EXCEPT !.pay = pay, !.res = status,
                              !.pc = IF status = "SUCCESS" THEN "settle" ELSE "acknowledge"])
            /\ UNCHANGED notices
    /\ UNCHANGED <<orderVars, paymentVars, queryAttempts, expired, trade,
                   inTransit, crashes>>

SettleNotice(h) ==
    /\ proc[h].pc = "settle"
    /\ markPaymentSucceeded(proc[h].pay)
    /\ Become(h, [proc[h] EXCEPT !.pc = "acknowledge"])
    /\ UNCHANGED <<queryAttempts, callback, expired, channelVars, crashes>>

\* markPaymentSucceeded throws (the amounts differ, or the database aborts the
\* transaction): the callback stays unprocessed and Alipay sends it again.
SettlementThrows(h) ==
    /\ proc[h].pc = "settle"
    /\ Become(h, Idle)
    /\ UNCHANGED <<orderVars, paymentVars, queryAttempts, callback, expired,
                   channelVars, crashes>>

\* The answer "success" stops the notification, unless it is lost.
AcknowledgeNotice(h) ==
    LET notice == <<proc[h].pay, proc[h].res>> IN
    /\ proc[h].pc = "acknowledge"
    /\ callback' = [callback EXCEPT ![notice] = "processed"]
    /\ notices' \in {notices, notices \ {notice}}
    /\ Become(h, Idle)
    /\ UNCHANGED <<orderVars, paymentVars, queryAttempts, expired, trade,
                   inTransit, crashes>>

-----------------------------------------------------------------------------
(* Other ways a success or a change of an order arrives.                   *)

\* mockSucceed, or a receipt the matcher attributes to an ALIPAY_BILL payment.
Credit(pay) ==
    /\ ~Alipay(pay)
    /\ markPaymentSucceeded(pay)
    /\ UNCHANGED <<queryAttempts, callback, expired, channelVars, proc, crashes>>

\* The order update of finalizeRefund, for a refund of the winning payment.
RefundWinner(o) ==
    /\ winningPaymentId[o] # None
    /\ \E s \in {"PARTIALLY_REFUNDED", "REFUNDED"} :
           orderStatus' = [orderStatus EXCEPT ![o] = s]
    /\ UNCHANGED <<winningPaymentId, delivery, expirationNext, expirationLocked,
                   paymentVars, queryAttempts, callback, expired, channelVars,
                   proc, crashes>>

\* updatePaymentException, by an administrator; a resolved case stays resolved.
UpdatePaymentException(pay) ==
    /\ exception[pay] # "NONE"
    /\ \E s \in {"PROCESSING", "RESOLVED", "IGNORED"} :
           /\ exception[pay] = "RESOLVED" => s = "RESOLVED"
           /\ exception' = [exception EXCEPT ![pay] = s]
    /\ UNCHANGED <<orderVars, payStatus, nextQueryAt, queryAttempts, callback,
                   expired, channelVars, proc, crashes>>

-----------------------------------------------------------------------------
(* The environment: Alipay, its buyers, and lost handlers.                 *)

\* A creation request that outlived the handler's patience arrives.
LateCreate(pay) ==
    /\ pay \in inTransit
    /\ inTransit' = inTransit \ {pay}
    /\ trade' = [trade EXCEPT ![pay] = IF @ = "none" THEN "qr" ELSE @]
    /\ UNCHANGED <<orderVars, paymentVars, queryAttempts, callback, expired,
                   notices, proc, crashes>>

\* A buyer scans the code, then pays (and Alipay starts to notify), or lets the
\* trade time out.
Buyer(pay) ==
    /\ \/ /\ trade[pay] = "qr"
          /\ trade' = [trade EXCEPT ![pay] = "wait"]
          /\ UNCHANGED notices
       \/ /\ trade[pay] = "wait"
          /\ trade' = [trade EXCEPT ![pay] = "paid"]
          /\ notices' = notices \cup {<<pay, "SUCCESS">>}
       \/ /\ trade[pay] = "wait"
          /\ trade' = [trade EXCEPT ![pay] = "closed"]
          /\ UNCHANGED notices
    /\ UNCHANGED <<orderVars, paymentVars, queryAttempts, callback, expired,
                   inTransit, proc, crashes>>

\* Alipay also tells of a trade that waits for its buyer, or was closed.
Inform(pay) ==
    /\ Alipay(pay) /\ trade[pay] \in {"wait", "closed"}
    /\ QueryAnswer(pay) \in Notified
    /\ notices' = notices \cup {<<pay, QueryAnswer(pay)>>}
    /\ UNCHANGED <<orderVars, paymentVars, queryAttempts, callback, expired,
                   trade, inTransit, proc, crashes>>

\* Alipay stops repeating a notification nobody acknowledged.
GiveUp(pay) ==
    /\ pay \in Lossy
    /\ \E status \in NoticeStatus :
           <<pay, status>> \in notices /\ notices' = notices \ {<<pay, status>>}
    /\ UNCHANGED <<orderVars, paymentVars, queryAttempts, callback, expired,
                   trade, inTransit, proc, crashes>>

Crash(h) ==
    /\ proc[h] # Idle /\ crashes < MaxCrashes
    /\ Become(h, Idle)
    /\ crashes' = crashes + 1
    /\ UNCHANGED <<orderVars, paymentVars, queryAttempts, callback, expired,
                   channelVars>>

=============================================================================
