------------------------------- MODULE Refund -------------------------------
(***************************************************************************)
(* Refunds of successful payments: apps/api/src/services/refund-service.ts *)
(* and the refund half of recovery-service.ts.                             *)
(*                                                                         *)
(* As in PaymentService a transaction is one step, a handler that awaits   *)
(* the channel is several, and a handler may be lost between two of them.  *)
(* The payments and their orders are those markPaymentSucceeded left: the  *)
(* winner of an order, and late duplicates with an open exception, which   *)
(* the administrator may also move on by hand.                             *)
(***************************************************************************)
EXTENDS StateMachine, FiniteSets, FiniteSetsExt

CONSTANTS
    Orders, Payments, Refunds,
    winningPaymentId,   \* the winner of each order
    OrderOf, ChannelOf, \* of a payment
    amount,             \* of an order, and of each of its payments
    PaymentOf, AmountOf,\* of a refund
    WithUrl,            \* the orders whose business is told of refunds
    Truncated,          \* refunds for which the body of Alipay's answer may be lost
    Api, Recoverers,
    RECOVERY_MAX_ATTEMPTS,
    MaxCrashes,         \* bound: the handlers that may be lost
    None

ASSUME RefundAssumption ==
    /\ IsFiniteSet(Refunds)
    /\ winningPaymentId \in [Orders -> Payments]
    /\ OrderOf \in [Payments -> Orders]
    /\ \A o \in Orders : OrderOf[winningPaymentId[o]] = o
    /\ ChannelOf \in [Payments -> {"ALIPAY", "ALIPAY_BILL", "MOCK"}]
    /\ amount \in [Orders -> Nat \ {0}]
    /\ PaymentOf \in [Refunds -> Payments]
    /\ AmountOf \in [Refunds -> Nat \ {0}]
    /\ WithUrl \subseteq Orders /\ Truncated \subseteq Refunds
    /\ Api \cap Recoverers = {}
    /\ RECOVERY_MAX_ATTEMPTS \in Nat \ {0} /\ MaxCrashes \in Nat
    /\ None \notin Refunds

VARIABLES
    refundStatus,       \* table refunds; "NONE" for a row that does not exist
    nextQueryAt,        \* nextQueryAt is not null
    queryAttempts,
    orderStatus,        \* table orders
    exception,          \* table payment_exceptions (LATE_DUPLICATE)
    settledByRefund,    \* payments with an event PAYMENT_EXCEPTION_RESOLVED of source REFUND
    told,               \* the refunds with an outbox row "refund.succeeded"
    refunded,           \* the refunds the channel has done
    inTransit,          \* the requests Alipay has not seen yet
    proc, crashes

rowVars == <<refundStatus, nextQueryAt, orderStatus, exception, settledByRefund, told>>
vars == <<rowVars, queryAttempts, refunded, inTransit, proc, crashes>>

Procs == Api \cup Recoverers
Idle == [pc |-> "idle", refund |-> None, seen |-> "NONE", res |-> "NONE", final |-> FALSE]

Alipay(r) == ChannelOf[PaymentOf[r]] = "ALIPAY"
OrderOfRefund(r) == OrderOf[PaymentOf[r]]
isWinningPayment(p) == winningPaymentId[OrderOf[p]] = p

Init ==
    /\ refundStatus = [r \in Refunds |-> "NONE"]
    /\ nextQueryAt = [r \in Refunds |-> FALSE]
    /\ queryAttempts = [r \in Refunds |-> 0]
    /\ orderStatus = [o \in Orders |-> "SUCCESS"]
    /\ exception = [p \in Payments |-> IF isWinningPayment(p) THEN "NONE" ELSE "OPEN"]
    /\ settledByRefund = {} /\ told = {} /\ refunded = {} /\ inTransit = {}
    /\ proc = [h \in Procs |-> Idle]
    /\ crashes = 0

Become(h, state) == proc' = [proc EXCEPT ![h] = state]

\* queryRefund comes back: to the API's client, or to the worker's loop.
Return(h, result) ==
    Become(h, IF h \in Api THEN Idle ELSE [proc[h] EXCEPT !.pc = "afterQuery", !.res = result])

TotalOf(S) == MapThenSumSet(LAMBDA r : AmountOf[r], S)
RefundsOf(p, statuses) == {r \in Refunds : PaymentOf[r] = p /\ refundStatus[r] \in statuses}

-----------------------------------------------------------------------------
(* createRefund                                                            *)

\* Mutant: what is under way is not reserved.
OnlySucceeded(p) == TotalOf(RefundsOf(p, {"SUCCESS"}))

\* What the refunds of a payment may take of its amount at most.
reserved(p) == TotalOf(RefundsOf(p, {"CREATED", "PROCESSING", "UNKNOWN", "SUCCESS"}))

\* The transaction locks the payment.  (A known external number changes nothing.)
CreateRefund(h, r) ==
    /\ h \in Api /\ proc[h] = Idle
    /\ refundStatus[r] = "NONE"
    /\ reserved(PaymentOf[r]) + AmountOf[r] <= amount[OrderOfRefund(r)]
    /\ refundStatus' = [refundStatus EXCEPT ![r] = "PROCESSING"]
    /\ nextQueryAt' = [nextQueryAt EXCEPT ![r] = Alipay(r)]
    /\ Become(h, [Idle EXCEPT !.pc = "dispatch", !.refund = r, !.seen = "PROCESSING"])
    /\ UNCHANGED <<orderStatus, exception, settledByRefund, told, queryAttempts, refunded,
                   inTransit, crashes>>

\* adapter.refund: done, refused (always, for ALIPAY_BILL), or without an answer.
\* Alipay's own limit on the amount is not relied upon.  When only the body of
\* the answer is lost, response.text() throws an error that is neither definitive
\* nor uncertain, and the catch block takes it for a failure.
DispatchRefund(h) ==
    LET r == proc[h].refund
        Move(pc, res) == Become(h, [proc[h] EXCEPT !.pc = pc, !.res = res])
    IN
    /\ proc[h].pc = "dispatch"
    /\ \/ /\ ChannelOf[PaymentOf[r]] # "ALIPAY_BILL"
          /\ refunded' = refunded \cup {r}
          /\ Move("finalize", "SUCCESS") /\ UNCHANGED inTransit
       \/ Move("update", "FAILED") /\ UNCHANGED <<refunded, inTransit>>
       \/ /\ Alipay(r) /\ Move("update", "UNKNOWN")
          /\ \/ UNCHANGED <<refunded, inTransit>>
             \/ refunded' = refunded \cup {r} /\ UNCHANGED inTransit
             \/ inTransit' = inTransit \cup {r} /\ UNCHANGED refunded
       \/ /\ Alipay(r) /\ r \in Truncated
          /\ refunded' = refunded \cup {r}
          /\ Move("update", "FAILED") /\ UNCHANGED inTransit
    /\ UNCHANGED <<rowVars, queryAttempts, crashes>>

\* The transition is checked from the status the handler read (seen), and the
\* row is written whatever it has become since.
updateRefund(h) ==
    LET r == proc[h].refund IN
    /\ proc[h].pc = "update"
    /\ canRefundTransition(proc[h].seen, proc[h].res)
    /\ refundStatus' = [refundStatus EXCEPT ![r] = proc[h].res]
    /\ nextQueryAt' = [nextQueryAt EXCEPT ![r] = Alipay(r) /\ proc[h].res \in Recoverable]
    /\ Return(h, proc[h].res)
    /\ UNCHANGED <<orderStatus, exception, settledByRefund, told, queryAttempts, refunded,
                   inTransit, crashes>>

-----------------------------------------------------------------------------
(* finalizeRefund with SUCCESS: one transaction.                           *)

\* Mutant: the refund of a late duplicate counts for the order.
AnyPaymentWins(p) == TRUE

countsForOrder(p) == isWinningPayment(p)

\* Mutant: a partial refund settles the dispute.
AnyRefundSettles(total, p) == TRUE

settlesDispute(total, p) == total >= amount[OrderOf[p]]

Finalize(r) ==
    LET p == PaymentOf[r]
        o == OrderOf[p]
        total == TotalOf(RefundsOf(p, {"SUCCESS"}) \cup {r})
    IN
    IF refundStatus[r] = "SUCCESS" THEN UNCHANGED rowVars
    ELSE /\ canRefundTransition(refundStatus[r], "SUCCESS")
         /\ refundStatus' = [refundStatus EXCEPT ![r] = "SUCCESS"]
         /\ nextQueryAt' = [nextQueryAt EXCEPT ![r] = FALSE]
         /\ orderStatus' = IF countsForOrder(p)
               THEN [orderStatus EXCEPT ![o] = refundedOrderStatus(total, amount[o])]
               ELSE orderStatus
         /\ IF settlesDispute(total, p) /\ exception[p] \in {"OPEN", "PROCESSING"}
               THEN /\ exception' = [exception EXCEPT ![p] = "RESOLVED"]
                    /\ settledByRefund' = settledByRefund \cup {p}
               ELSE UNCHANGED <<exception, settledByRefund>>
         /\ told' = IF countsForOrder(p) /\ o \in WithUrl THEN told \cup {r} ELSE told

finalizeRefund(h) ==
    /\ proc[h].pc = "finalize"
    /\ Finalize(proc[h].refund)
    /\ Return(h, "SUCCESS")
    /\ UNCHANGED <<queryAttempts, refunded, inTransit, crashes>>

\* The serializable transaction is aborted: createRefund returns the promise
\* without awaiting it, so its catch block does not see the error.
FinalizeThrows(h) ==
    /\ proc[h].pc = "finalize"
    /\ Return(h, "error")
    /\ UNCHANGED <<rowVars, queryAttempts, refunded, inTransit, crashes>>

\* markRefundSucceededFromReceipt: the day's bill of Alipay shows the refund.
MatchReceipt(r) ==
    /\ refundStatus[r] # "NONE" /\ Alipay(r) /\ r \in refunded
    /\ Finalize(r)
    /\ UNCHANGED <<queryAttempts, refunded, inTransit, proc, crashes>>

-----------------------------------------------------------------------------
(* queryRefund: read the row, ask the channel, apply the answer.           *)

QueryRead(h, r) ==
    /\ refundStatus[r] # "NONE"
    /\ Become(h, [proc[h] EXCEPT !.pc = "query", !.refund = r, !.seen = refundStatus[r],
                     !.res = IF /\ Alipay(r) /\ refundStatus[r] \in Recoverable
                                /\ ~nextQueryAt[r]
                                /\ queryAttempts[r] < RECOVERY_MAX_ATTEMPTS
                             THEN "rearm" ELSE "NONE"])

StartQuery(h, r) ==
    /\ h \in Api /\ proc[h] = Idle
    /\ QueryRead(h, r)
    /\ UNCHANGED <<rowVars, queryAttempts, refunded, inTransit, crashes>>

\* Mutant: an answer without a refund amount is read as a success.
AlwaysRefunded(r) == "SUCCESS"

\* adapter.queryRefund: the mock channel always says SUCCESS, Alipay says what it
\* has done and PROCESSING for what it does not know.
QueryAnswer(r) == IF ChannelOf[PaymentOf[r]] = "MOCK" \/ r \in refunded THEN "SUCCESS" ELSE "PROCESSING"

\* The answer arrives, and the handler decides on it and on what it read before.
ChannelQuery(h) ==
    LET r == proc[h].refund
        seen == proc[h].seen
        answer == QueryAnswer(r)
        news == seen # answer /\ seen # "SUCCESS" /\ canRefundTransition(seen, answer)
    IN
    /\ proc[h].pc = "query" /\ ChannelOf[PaymentOf[r]] # "ALIPAY_BILL"
    /\ \/ /\ answer = "SUCCESS"
          /\ Become(h, [proc[h] EXCEPT !.pc = "finalize", !.res = answer])
       \/ /\ answer # "SUCCESS" /\ news
          /\ Become(h, [proc[h] EXCEPT !.pc = "update", !.res = answer])
       \/ /\ answer # "SUCCESS" /\ ~news
          /\ Become(h, [proc[h] EXCEPT !.pc = "keep"])
    /\ UNCHANGED <<rowVars, queryAttempts, refunded, inTransit, crashes>>

\* No answer from Alipay; ALIPAY_BILL always throws.
QueryThrows(h) ==
    /\ proc[h].pc = "query" /\ ChannelOf[PaymentOf[proc[h].refund]] # "MOCK"
    /\ Return(h, "error")
    /\ UNCHANGED <<rowVars, queryAttempts, refunded, inTransit, crashes>>

\* Nothing new: the row keeps its status.  One that was off the worker's list goes
\* back on it; RefundIsRediscovered says that no row written by this code is.
KeepRefund(h) ==
    LET r == proc[h].refund
        rearm == proc[h].res = "rearm"
    IN
    /\ proc[h].pc = "keep"
    /\ nextQueryAt' = [nextQueryAt EXCEPT ![r] = @ \/ rearm]
    /\ Return(h, IF rearm THEN refundStatus[r] ELSE proc[h].seen)
    /\ UNCHANGED <<refundStatus, orderStatus, exception, settledByRefund, told,
                   queryAttempts, refunded, inTransit, crashes>>

-----------------------------------------------------------------------------
(* runDueRefundRecoveries                                                  *)

notRecovery == <<refundStatus, orderStatus, exception, settledByRefund, told, refunded,
                 inTransit, crashes>>

\* Mutant: refunds that may have to be queried again are not picked up.
NeverDue(r) == FALSE
RecoveryDue(r) ==
    /\ Alipay(r) /\ refundStatus[r] \in Recoverable /\ nextQueryAt[r]
    /\ queryAttempts[r] < RECOVERY_MAX_ATTEMPTS

ClaimRecovery(h, r) ==
    /\ h \in Recoverers /\ proc[h] = Idle
    /\ RecoveryDue(r)
    /\ queryAttempts' = [queryAttempts EXCEPT ![r] = @ + 1]
    /\ Become(h, [Idle EXCEPT !.pc = "recover", !.refund = r,
                      !.final = queryAttempts[r] + 1 >= RECOVERY_MAX_ATTEMPTS])
    /\ UNCHANGED <<notRecovery, nextQueryAt>>

RecoverQuery(h) ==
    /\ proc[h].pc = "recover"
    /\ QueryRead(h, proc[h].refund)
    /\ UNCHANGED <<notRecovery, nextQueryAt, queryAttempts>>

AfterRecovery(h) ==
    LET at(pc) == [proc[h] EXCEPT !.pc = pc, !.seen = "NONE", !.res = "NONE"] IN
    /\ proc[h].pc = "afterQuery"
    /\ Become(h, CASE proc[h].res = "error" -> at("recoverFail")
                   [] proc[h].res \in Recoverable /\ proc[h].final -> at("exhaust")
                   [] OTHER -> Idle)
    /\ UNCHANGED <<notRecovery, nextQueryAt, queryAttempts>>

\* exhaustRefund and the catch block read the row without a lock, then write.
RecoverRead(h) ==
    LET r == proc[h].refund IN
    /\ proc[h].pc \in {"exhaust", "recoverFail"}
    /\ Become(h, IF /\ refundStatus[r] \in Recoverable
                    /\ proc[h].pc = "exhaust" => nextQueryAt[r]
                 THEN [proc[h] EXCEPT !.pc = "recoverWrite"] ELSE Idle)
    /\ UNCHANGED <<notRecovery, nextQueryAt, queryAttempts>>

\* Mutant: a failed query clears nextQueryAt whatever the attempt.
ClearAlways(h) ==
    /\ proc[h].pc = "recoverWrite"
    /\ nextQueryAt' = [nextQueryAt EXCEPT ![proc[h].refund] = FALSE]
    /\ Become(h, Idle)
    /\ UNCHANGED <<notRecovery, queryAttempts>>

RecoverWrite(h) ==
    /\ proc[h].pc = "recoverWrite"
    /\ nextQueryAt' = [nextQueryAt EXCEPT ![proc[h].refund] = ~proc[h].final]
    /\ Become(h, Idle)
    /\ UNCHANGED <<notRecovery, queryAttempts>>

-----------------------------------------------------------------------------
(* The administrator, the environment and the specification.               *)

\* The administrator moves a case on by hand, with or without a refund; a resolved
\* one stays resolved.
updatePaymentException(p) ==
    /\ exception[p] # "NONE"
    /\ \E status \in {"PROCESSING", "RESOLVED", "IGNORED"} :
           /\ exception[p] = "RESOLVED" => status = "RESOLVED"
           /\ exception' = [exception EXCEPT ![p] = status]
    /\ UNCHANGED <<refundStatus, nextQueryAt, orderStatus, settledByRefund, told,
                   queryAttempts, refunded, inTransit, proc, crashes>>

\* A request that outlived the handler's patience is done, or lost.
LateRefund(r) ==
    /\ r \in inTransit
    /\ inTransit' = inTransit \ {r}
    /\ refunded' \in {refunded, refunded \cup {r}}
    /\ UNCHANGED <<rowVars, queryAttempts, proc, crashes>>

Crash(h) ==
    /\ proc[h] # Idle /\ crashes < MaxCrashes
    /\ Become(h, Idle)
    /\ crashes' = crashes + 1
    /\ UNCHANGED <<rowVars, queryAttempts, refunded, inTransit>>

HandlerStep(h) ==
    \/ DispatchRefund(h) \/ updateRefund(h) \/ finalizeRefund(h) \/ FinalizeThrows(h)
    \/ ChannelQuery(h) \/ QueryThrows(h) \/ KeepRefund(h)
    \/ RecoverQuery(h) \/ AfterRecovery(h) \/ RecoverRead(h) \/ RecoverWrite(h)

Next ==
    \/ \E h \in Procs :
           \/ HandlerStep(h) \/ Crash(h)
           \/ \E r \in Refunds : CreateRefund(h, r) \/ StartQuery(h, r) \/ ClaimRecovery(h, r)
    \/ \E r \in Refunds : MatchReceipt(r) \/ LateRefund(r)
    \/ \E p \in Payments : updatePaymentException(p)

Spec == Init /\ [][Next]_vars

\* A started handler goes on unless it is lost, and the worker polls.
Fairness ==
    /\ \A h \in Procs : WF_vars(HandlerStep(h))
    /\ \A r \in Refunds : WF_vars(\E h \in Recoverers : ClaimRecovery(h, r))

FairSpec == Spec /\ Fairness

-----------------------------------------------------------------------------
(* Properties                                                              *)

\* Every variable has the type the schema and the handlers give it; attempts of
\* recovery never exceed RECOVERY_MAX_ATTEMPTS.
RefundTypeOK ==
    /\ refundStatus \in [Refunds -> RefundStatus \cup {"NONE"}]
    /\ nextQueryAt \in [Refunds -> BOOLEAN]
    /\ queryAttempts \in [Refunds -> 0 .. RECOVERY_MAX_ATTEMPTS]
    /\ orderStatus \in [Orders -> {"SUCCESS", "PARTIALLY_REFUNDED", "REFUNDED"}]
    /\ exception \in [Payments -> {"NONE", "OPEN", "PROCESSING", "RESOLVED", "IGNORED"}]
    /\ settledByRefund \subseteq Payments
    /\ told \subseteq Refunds /\ refunded \subseteq Refunds /\ inTransit \subseteq Refunds
    /\ proc \in [Procs -> [pc : {"idle", "dispatch", "update", "finalize", "query", "keep",
                                 "recover", "afterQuery", "exhaust", "recoverFail",
                                 "recoverWrite"},
                           refund : Refunds \cup {None},
                           seen : RefundStatus \cup {"NONE"},
                           res : RefundStatus \cup {"NONE", "error", "rearm"},
                           final : BOOLEAN]]
    /\ crashes \in 0 .. MaxCrashes

Done(p) == TotalOf({r \in refunded : PaymentOf[r] = p})

\* Alipay is never asked to give back more than was paid, whatever requests time
\* out, arrive late or are given up: what may still be done stays reserved.  Only a
\* done refund whose answer lost its body is not counted, since the code forgets it.
NothingOverRefunded ==
    \A p \in Payments :
        TotalOf({r \in (refunded \ Truncated) \cup inTransit : PaymentOf[r] = p})
            <= amount[OrderOf[p]]

\* A refund of Alipay is recorded as a success only if Alipay has done it.
SuccessMeansRefunded ==
    \A r \in Refunds : Alipay(r) /\ refundStatus[r] = "SUCCESS" => r \in refunded

\* The status of an order speaks of its winner alone: refunds of a late duplicate
\* never change it, REFUNDED means that all of the winner's money went back, and
\* a success of the winner's refunds always shows.
OrderFollowsWinner ==
    \A o \in Orders :
        LET w == winningPaymentId[o] IN
        /\ orderStatus[o] = "REFUNDED" => ChannelOf[w] # "ALIPAY" \/ Done(w) >= amount[o]
        /\ orderStatus[o] # "SUCCESS" => \E r \in Refunds : PaymentOf[r] = w /\ refundStatus[r] # "NONE"
        /\ RefundsOf(w, {"SUCCESS"}) # {} => orderStatus[o] # "SUCCESS"

\* The LATE_DUPLICATE case of a payment is settled by its refunds only when all of
\* its money went back, and whatever the administrator does then, it stays settled;
\* and a case is not left open once all of the money is recorded as returned.
DisputeFollowsRefunds ==
    \A p \in Payments : ChannelOf[p] = "ALIPAY" =>
        /\ p \in settledByRefund => exception[p] = "RESOLVED" /\ Done(p) >= amount[OrderOf[p]]
        /\ TotalOf(RefundsOf(p, {"SUCCESS"})) >= amount[OrderOf[p]] => exception[p] # "OPEN"

\* The business is told of refunds of the winner only, each done by the channel,
\* and of every one that is recorded as a success.
BusinessToldOfWinner ==
    /\ \A r \in told : isWinningPayment(PaymentOf[r]) /\ (Alipay(r) => r \in refunded)
    /\ \A r \in Refunds :
           /\ refundStatus[r] = "SUCCESS" /\ isWinningPayment(PaymentOf[r])
           /\ OrderOfRefund(r) \in WithUrl
           => r \in told

\* A refund whose result is open, and whose attempts are not used up, is always on
\* the worker's list.
RefundIsRediscovered ==
    \A r \in Refunds :
        /\ Alipay(r) /\ refundStatus[r] \in Recoverable
        /\ queryAttempts[r] < RECOVERY_MAX_ATTEMPTS
        => nextQueryAt[r]

\* A success is never taken back by an answer that comes later.
RefundSuccessIsFinal ==
    [][\A r \in Refunds : refundStatus[r] = "SUCCESS" => refundStatus'[r] = "SUCCESS"]_vars

\* A refund recorded as FAILED was not done by Alipay: where the answer cannot be
\* confirmed the refund is UNKNOWN.
FailedMeansNotRefunded ==
    \A r \in Refunds : Alipay(r) /\ refundStatus[r] = "FAILED" => r \notin refunded

\* A refund that Alipay has done is recorded for good in the end, or its recovery
\* is exhausted: what a stale write took back is found again.
RefundStaysRecorded ==
    \A r \in Refunds :
        <>(r \in refunded) => \/ <>[](refundStatus[r] = "SUCCESS")
                              \/ <>(queryAttempts[r] = RECOVERY_MAX_ATTEMPTS)

\* Seen through what went back at Alipay, what the business was told and which cases
\* the refunds settled, the refunds keep the promise.
AlipaysOwn(S) == {r \in S : Alipay(r)}
Refunding == INSTANCE Refunding WITH
    given <- AlipaysOwn(refunded),
    told <- AlipaysOwn(told),
    resolved <- {p \in settledByRefund : ChannelOf[p] = "ALIPAY"},
    amount <- [p \in Payments |-> amount[OrderOf[p]]],
    Unsure <- Truncated,
    Announced <- {r \in Refunds : isWinningPayment(PaymentOf[r]) /\ OrderOfRefund(r) \in WithUrl},
    Disputed <- {p \in Payments : ~isWinningPayment(p)}

ImplementsRefunding == Refunding!Spec

=============================================================================
