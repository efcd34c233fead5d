----------------------------- MODULE Expiration -----------------------------
(***************************************************************************)
(* Closing orders whose deadline has passed:                               *)
(* apps/api/src/services/expiration-service.ts.                            *)
(***************************************************************************)
EXTENDS PaymentService

Unscheduled(o) == expirationNext' = [expirationNext EXCEPT ![o] = "none"]
Unlocked(o) == expirationLocked' = [expirationLocked EXCEPT ![o] = FALSE]
orderCore == <<orderStatus, winningPaymentId, delivery>>
notExpiration == <<paymentVars, queryAttempts, callback, expired, channelVars, crashes>>

Due(o) ==
    /\ orderStatus[o] \in PayableOrder /\ "worker" \in expired[o]
    /\ expirationNext[o] = "due" /\ ~expirationLocked[o]

\* The list of due orders and the conditional update that takes one of them:
\* a run whose reading is stale updates no row and goes on.
ClaimExpiration(h, o) ==
    /\ h \in Expirers /\ proc[h] = Idle
    /\ Due(o)
    /\ expirationLocked' = [expirationLocked EXCEPT ![o] = TRUE]
    /\ Become(h, [Idle EXCEPT !.pc = "loadOrder", !.order = o])
    /\ UNCHANGED <<orderCore, expirationNext, notExpiration>>

\* expireOrder reads the order, then its payments, with two queries.
LoadOrder(h) ==
    /\ proc[h].pc = "loadOrder"
    /\ Become(h, IF orderStatus[proc[h].order] \in PayableOrder
                 THEN [proc[h] EXCEPT !.pc = "loadPayments"] ELSE Idle)
    /\ UNCHANGED <<orderVars, notExpiration>>

LoadPayments(h) ==
    LET Having(S) == {p \in Payments : OrderOf[p] = proc[h].order /\ payStatus[p] \in S} IN
    /\ proc[h].pc = "loadPayments"
    /\ Become(h, [proc[h] EXCEPT !.pc = "loop",
                      !.todo = Having(ActivePayment \cup {"SUCCESS"}),
                      !.paidSeen = Having({"SUCCESS"})])
    /\ UNCHANGED <<orderVars, notExpiration>>

\* One turn of the loop.  The code takes the attempts in order; any order is
\* allowed here.
VisitPayment(h) ==
    /\ proc[h].pc = "loop"
    /\ \E pay \in proc[h].todo :
           IF pay \in proc[h].paidSeen
           THEN Become(h, [proc[h] EXCEPT !.pc = "expireFail"])
           ELSE IF Alipay(pay) THEN QueryRead(h, pay) ELSE CloseRead(h, pay)
    /\ UNCHANGED <<orderVars, notExpiration>>

AfterQuery(h) ==
    /\ h \in Expirers /\ proc[h].pc = "afterQuery"
    /\ CASE proc[h].res = "SUCCESS" -> Become(h, [proc[h] EXCEPT !.pc = "release"])
         [] proc[h].res = "error" -> Become(h, [proc[h] EXCEPT !.pc = "expireFail"])
         [] OTHER -> CloseRead(h, proc[h].pay)
    /\ UNCHANGED <<orderVars, notExpiration>>

AfterClose(h) ==
    /\ h \in Expirers /\ proc[h].pc = "afterClose"
    /\ Become(h, CASE proc[h].res = "SUCCESS" -> [proc[h] EXCEPT !.pc = "release"]
                   [] proc[h].res = "CLOSED" ->
                          [proc[h] EXCEPT !.pc = "loop", !.todo = @ \ {proc[h].pay},
                                          !.pay = None, !.res = "NONE"]
                   [] OTHER -> [proc[h] EXCEPT !.pc = "expireFail"])
    /\ UNCHANGED <<orderVars, notExpiration>>

releaseExpiration(h) ==
    /\ proc[h].pc = "release"
    /\ Unscheduled(proc[h].order) /\ Unlocked(proc[h].order)
    /\ Become(h, Idle)
    /\ UNCHANGED <<orderCore, notExpiration>>

\* Mutant: the payments are not looked at again under the order's lock.
NothingLeft(o) == TRUE

\* No attempt of the order is successful or may still succeed.
AllClosed(o) ==
    \A p \in Payments : OrderOf[p] = o => payStatus[p] \notin ActivePayment \cup {"SUCCESS"}

\* The last transaction of expireOrder, with the order locked.
CloseOrder(h) ==
    LET o == proc[h].order IN
    /\ proc[h].pc = "loop" /\ proc[h].todo = {}
    /\ \/ /\ orderStatus[o] \notin PayableOrder
          /\ Unscheduled(o) /\ Unlocked(o)
          /\ Become(h, Idle)
          /\ UNCHANGED orderStatus
       \/ /\ orderStatus[o] \in PayableOrder /\ ~AllClosed(o)
          /\ Become(h, [proc[h] EXCEPT !.pc = "expireFail"])
          /\ UNCHANGED <<orderStatus, expirationNext, expirationLocked>>
       \/ /\ orderStatus[o] \in PayableOrder /\ AllClosed(o)
          /\ orderStatus' = [orderStatus EXCEPT ![o] = "CLOSED"]
          /\ Unscheduled(o) /\ Unlocked(o)
          /\ Become(h, Idle)
    /\ UNCHANGED <<winningPaymentId, delivery, notExpiration>>

\* The catch block reads the status without a lock, then writes.
ExpireFailRead(h) ==
    /\ proc[h].pc = "expireFail"
    /\ Become(h, IF orderStatus[proc[h].order] \in PayableOrder
                 THEN [Idle EXCEPT !.pc = "expireFailWrite", !.order = proc[h].order]
                 ELSE Idle)
    /\ UNCHANGED <<orderVars, notExpiration>>

\* Mutant: a failed expiration is not scheduled again.
FailWithoutRetry(h) ==
    /\ proc[h].pc = "expireFailWrite"
    /\ Unscheduled(proc[h].order) /\ Unlocked(proc[h].order)
    /\ Become(h, Idle)
    /\ UNCHANGED <<orderCore, notExpiration>>

ExpireFailWrite(h) ==
    LET o == proc[h].order IN
    /\ proc[h].pc = "expireFailWrite"
    /\ expirationNext' = [expirationNext EXCEPT ![o] = "later"]
    /\ Unlocked(o)
    /\ Become(h, Idle)
    /\ UNCHANGED <<orderCore, notExpiration>>

\* The clocks: the deadline of an order (the API and the worker each compare it
\* with their own clock), the back-off, the 60 second lease.
PassDeadline(o) ==
    /\ \E side \in {"api", "worker"} \ expired[o] :
           expired' = [expired EXCEPT ![o] = @ \cup {side}]
    /\ UNCHANGED <<orderVars, paymentVars, queryAttempts, callback, channelVars,
                   proc, crashes>>

BackoffElapses(o) ==
    /\ expirationNext[o] = "later"
    /\ expirationNext' = [expirationNext EXCEPT ![o] = "due"]
    /\ UNCHANGED <<orderCore, expirationLocked, notExpiration, proc>>

LeaseElapses(o) ==
    /\ expirationLocked[o]
    /\ Unlocked(o)
    /\ UNCHANGED <<orderCore, expirationNext, notExpiration, proc>>

=============================================================================
