---------------------------- MODULE StateMachine ----------------------------
(***************************************************************************)
(* The status graphs of payments and refunds and the status of a refunded  *)
(* order: apps/api/src/lib/state-machine.ts.                               *)
(***************************************************************************)
EXTENDS Integers

PaymentStatus ==
    {"CREATED", "PROCESSING", "SUCCESS", "FAILED", "UNKNOWN", "CLOSED"}

RefundStatus == {"CREATED", "PROCESSING", "SUCCESS", "FAILED", "UNKNOWN"}

OrderStatus ==
    {"CREATED", "PENDING", "SUCCESS", "CLOSED", "PARTIALLY_REFUNDED", "REFUNDED"}

\* The statuses in which an order still waits for its money.
PayableOrder == {"CREATED", "PENDING"}

\* The statuses markPaymentSucceeded tests before it calls a payment late.
PaidOrder == {"SUCCESS", "PARTIALLY_REFUNDED", "REFUNDED"}

\* A payment the customer may still complete, as far as the database knows.
ActivePayment == {"CREATED", "PROCESSING", "UNKNOWN"}

\* isRecoverablePayment and isRecoverableRefund: the statuses worth querying.
Recoverable == {"PROCESSING", "UNKNOWN"}

paymentTransitions ==
    [CREATED    |-> {"PROCESSING", "FAILED", "UNKNOWN", "CLOSED", "SUCCESS"},
     PROCESSING |-> {"FAILED", "UNKNOWN", "CLOSED", "SUCCESS"},
     UNKNOWN    |-> {"PROCESSING", "FAILED", "CLOSED", "SUCCESS"},
     FAILED     |-> {"SUCCESS"},
     CLOSED     |-> {"SUCCESS"},
     SUCCESS    |-> {}]

refundTransitions ==
    [CREATED    |-> {"PROCESSING", "SUCCESS", "FAILED", "UNKNOWN"},
     PROCESSING |-> {"SUCCESS", "FAILED", "UNKNOWN"},
     UNKNOWN    |-> {"PROCESSING", "SUCCESS", "FAILED"},
     FAILED     |-> {"SUCCESS"},
     SUCCESS    |-> {}]

canPaymentTransition(from, to) == from = to \/ to \in paymentTransitions[from]

canRefundTransition(from, to) == from = to \/ to \in refundTransitions[from]

\* Defined for a positive total only; the code throws for zero.
refundedOrderStatus(totalRefunded, orderAmount) ==
    IF totalRefunded >= orderAmount THEN "REFUNDED" ELSE "PARTIALLY_REFUNDED"

=============================================================================
