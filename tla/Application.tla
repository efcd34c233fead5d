----------------------------- MODULE Application -----------------------------
(***************************************************************************)
(* The life of an application, from its credentials to its removal         *)
(* (apps/api/src/services/application-service.ts, middleware/auth.ts), and *)
(* what its requests do in the meantime: orders (order-service.ts),        *)
(* attempts to pay and refunds, as far as the removal touches them.        *)
(*                                                                         *)
(* A request is authenticated once, with the row of the application as it  *)
(* is then; the handler works on with that copy.  The removal is one       *)
(* transaction, but all that it reads is the snapshot of its first read,   *)
(* and what it deletes is what is there when it deletes.                   *)
(***************************************************************************)
EXTENDS Naturals

CONSTANTS
    Orders, Payments,           \* numbered in the order in which they are made
    Numbers, Keys, Bodies,      \* externalOrderNo, Idempotency-Key, the rest of a request
    Workers, None

ASSUME ApplicationAssumption ==
    /\ Orders \subseteq Nat \ {0} /\ Payments \subseteq Nat \ {0}
    /\ None \notin Numbers \cup Keys \cup Bodies \cup Workers \cup Nat

VARIABLES
    app,        \* the row, None when it is gone
    order,      \* [number, key, hash, deleted, winner], None before it is made
    payment,    \* [order, status], None before it is made
    refund,     \* the status of the refund of a payment, None without one, or "deleted"
    settled,    \* not in the program: the payments whose success was recorded
    worker, admin

vars == <<app, order, payment, refund, settled, worker, admin>>

Requests == [number : Numbers, key : Keys \cup {None}, body : Bodies]

\* The rows of an order and of an attempt.
OrderRows == [number : Numbers, key : Keys \cup {None}, hash : [number : Numbers, body : Bodies],
              deleted : BOOLEAN, winner : Payments \cup {None}]
PaymentRows == [order : Orders, status : {"PROCESSING", "SUCCESS", "CLOSED", "FAILED", "deleted"}]

ASSUME RowAssumption == None \notin Requests \cup OrderRows \cup PaymentRows

Idle == [pc |-> "idle", ask |-> None, order |-> None]
AtRest == [pc |-> "idle", orders |-> {}, payments |-> {}, refunds |-> {}]

\* createApplication: the business holds the credentials.
Init ==
    /\ app = [status |-> "ACTIVE", archived |-> FALSE, holder |-> "business"]
    /\ order = [o \in Orders |-> None]
    /\ payment = [p \in Payments |-> None] /\ refund = [p \in Payments |-> None]
    /\ settled = {}
    /\ worker = [w \in Workers |-> Idle] /\ admin = AtRest

-----------------------------------------------------------------------------
(* The rows.                                                               *)

MadeOrders == {o \in Orders : order[o] # None}
LiveOrders == {o \in MadeOrders : ~order[o].deleted}
Rows == {p \in Payments : payment[p] # None /\ payment[p].status # "deleted"}
Refunds == {p \in Payments : refund[p] \notin {None, "deleted"}}

IsNext(x, f, S) == f[x] = None /\ \A y \in S : y < x => f[y] # None

Hash(ask) == [number |-> ask.number, body |-> ask.body]
Clash(o, ask) == order[o].number = ask.number \/ (ask.key # None /\ order[o].key = ask.key)

-----------------------------------------------------------------------------
(* Requests of the business.                                               *)

\* applicationAuth.
Welcome == app # None /\ ~app.archived /\ app.status = "ACTIVE" /\ app.holder = "business"

Authenticate(w) ==
    /\ worker[w].pc \in {"idle", "answered"} /\ Welcome
    /\ worker' = [worker EXCEPT ![w] = [Idle EXCEPT !.pc = "in"]]
    /\ UNCHANGED <<app, order, payment, refund, settled, admin>>

Answer(w, ask, o) == worker' = [worker EXCEPT ![w] = [pc |-> "answered", ask |-> ask, order |-> o]]
Refuse(w) == worker' = [worker EXCEPT ![w] = Idle]

\* Mutant: an order that was found is taken for the one that was asked for.
TakeAnyOrder(w, ask, found) == IF found = {} THEN Refuse(w) ELSE \E o \in found : Answer(w, ask, o)

\* What createOrder makes of the orders it finds for a number or a key.
TakeOrder(w, ask, found) ==
    IF found = {} THEN Refuse(w)
    ELSE \E o \in found : IF order[o].hash = Hash(ask) THEN Answer(w, ask, o) ELSE Refuse(w)

\* createOrder looks for an order of that number or that key first.
LookForOrder(w, ask) ==
    LET found == {o \in LiveOrders : Clash(o, ask)}
    IN /\ worker[w].pc = "in"
       /\ IF found = {} THEN worker' = [worker EXCEPT ![w].pc = "insert", ![w].ask = ask]
          ELSE TakeOrder(w, ask, found)
       /\ UNCHANGED <<app, order, payment, refund, settled, admin>>

\* The insert fails on the unique indexes, which know the deleted orders too, and on
\* an application that is gone.
InsertOrder(w) ==
    LET ask == worker[w].ask
    IN /\ worker[w].pc = "insert"
       /\ IF app = None THEN Refuse(w) /\ UNCHANGED order
          ELSE IF \E o \in MadeOrders : Clash(o, ask)
               THEN worker' = [worker EXCEPT ![w].pc = "raced"] /\ UNCHANGED order
               ELSE \E o \in Orders :
                    /\ IsNext(o, order, Orders)
                    /\ order' = [order EXCEPT ![o] = [number |-> ask.number, key |-> ask.key,
                            hash |-> Hash(ask), deleted |-> FALSE, winner |-> None]]
                    /\ Answer(w, ask, o)
       /\ UNCHANGED <<app, payment, refund, settled, admin>>

LookAgain(w) ==
    /\ worker[w].pc = "raced"
    /\ TakeOrder(w, worker[w].ask, {o \in LiveOrders : Clash(o, worker[w].ask)})
    /\ UNCHANGED <<app, order, payment, refund, settled, admin>>

\* Mutant: the order is found by its number alone.
PayableIfUnpaid(o) == order[o].winner = None

\* createPayment finds the order of the business only while it is in use.
Payable(o) == ~order[o].deleted /\ order[o].winner = None

Pay(w, o, p) ==
    /\ worker[w].pc = "in" /\ o \in MadeOrders /\ Payable(o)
    /\ IsNext(p, payment, Payments)
    /\ payment' = [payment EXCEPT ![p] = [order |-> o, status |-> "PROCESSING"]]
    /\ Refuse(w)
    /\ UNCHANGED <<app, order, refund, settled, admin>>

\* createRefund.
Refund(w, p) ==
    /\ worker[w].pc = "in" /\ p \in Rows /\ payment[p].status = "SUCCESS"
    /\ ~order[payment[p].order].deleted /\ refund[p] = None
    /\ refund' = [refund EXCEPT ![p] = "PROCESSING"]
    /\ Refuse(w)
    /\ UNCHANGED <<app, order, payment, settled, admin>>

-----------------------------------------------------------------------------
(* What the channel tells of payments and refunds.                         *)

\* markPaymentSucceeded, which does not ask whether the order is in use.
Settle(p) ==
    /\ p \in Rows /\ payment[p].status \in {"PROCESSING", "CLOSED", "FAILED"}
    /\ payment' = [payment EXCEPT ![p].status = "SUCCESS"]
    /\ order' = [order EXCEPT ![payment[p].order].winner = IF @ = None THEN p ELSE @]
    /\ settled' = settled \cup {p}
    /\ UNCHANGED <<app, refund, worker, admin>>

EndUnpaid(p) ==
    /\ p \in Rows /\ payment[p].status = "PROCESSING"
    /\ \E status \in {"CLOSED", "FAILED"} : payment' = [payment EXCEPT ![p].status = status]
    /\ UNCHANGED <<app, order, refund, settled, worker, admin>>

EndRefund(p) ==
    /\ p \in Refunds /\ refund[p] # "SUCCESS"
    /\ \E status \in {"SUCCESS", "FAILED"} : refund' = [refund EXCEPT ![p] = status]
    /\ UNCHANGED <<app, order, payment, settled, worker, admin>>

-----------------------------------------------------------------------------
(* The administrator.                                                      *)

\* updateApplicationStatus, which an archived application takes as well.
SetStatus(status) ==
    /\ app # None /\ app.status # status
    /\ app' = [app EXCEPT !.status = status]
    /\ UNCHANGED <<order, payment, refund, settled, worker, admin>>

\* rotateApplicationCredentials and rotateApplicationApiKey: the administrator is
\* shown the new ones, of an archived application as well.
Rotate ==
    /\ app # None /\ app.holder # "business"
    /\ app' = [app EXCEPT !.holder = "business"]
    /\ UNCHANGED <<order, payment, refund, settled, worker, admin>>

\* deleteApplication counts what hangs on the row.
CountForDeletion ==
    /\ admin.pc = "idle" /\ app # None
    /\ admin' = [AtRest EXCEPT !.pc = IF MadeOrders = {} THEN "delete" ELSE "archive"]
    /\ UNCHANGED <<app, order, payment, refund, settled, worker>>

\* The foreign key of an order that has come in between turns it into an archive.
DeleteRow ==
    /\ admin.pc = "delete"
    /\ IF MadeOrders = {} THEN app' = None /\ admin' = AtRest
       ELSE admin' = [admin EXCEPT !.pc = "archive"] /\ UNCHANGED app
    /\ UNCHANGED <<order, payment, refund, settled, worker>>

\* archiveApplication: the snapshot.
ReadForArchive ==
    /\ admin.pc = "archive"
    /\ admin' = IF app = None THEN AtRest
                ELSE [pc |-> "write", orders |-> LiveOrders,
                      payments |-> {p \in Rows : payment[p].status \in {"SUCCESS", "CLOSED"}},
                      refunds |-> {p \in Refunds : refund[p] \in {"PROCESSING", "SUCCESS"}}]
    /\ UNCHANGED <<app, order, payment, refund, settled, worker>>

\* The deletes: every refund and every attempt but those to keep.
WriteArchive ==
    /\ admin.pc = "write"
    /\ refund' = [p \in Payments |->
            IF p \in Refunds \ admin.refunds THEN "deleted" ELSE refund[p]]
    /\ payment' = [p \in Payments |->
            IF p \in Rows \ admin.payments /\ payment[p].order \in admin.orders
            THEN [payment[p] EXCEPT !.status = "deleted"] ELSE payment[p]]
    /\ order' = [o \in Orders |->
            IF o \in admin.orders THEN [order[o] EXCEPT !.deleted = TRUE] ELSE order[o]]
    /\ app' = [status |-> "DISABLED", archived |-> TRUE, holder |-> "nobody"]
    /\ admin' = AtRest
    /\ UNCHANGED <<settled, worker>>

Request(w) ==
    \/ Authenticate(w)
    \/ \E ask \in Requests : LookForOrder(w, ask)
    \/ InsertOrder(w)
    \/ LookAgain(w)
    \/ \E o \in Orders, p \in Payments : Pay(w, o, p)
    \/ \E p \in Payments : Refund(w, p)

Next ==
    \/ \E w \in Workers : Request(w)
    \/ \E p \in Payments : Settle(p) \/ EndUnpaid(p) \/ EndRefund(p)
    \/ \E status \in {"ACTIVE", "DISABLED"} : SetStatus(status)
    \/ Rotate \/ CountForDeletion \/ DeleteRow \/ ReadForArchive \/ WriteArchive

Spec == Init /\ [][Next]_vars

-----------------------------------------------------------------------------
(* What should hold.                                                       *)

\* Who asks for an order and is answered with one that exists already, be it that it
\* was found at once or that another request was faster, gets the order that was
\* asked for and never one of other contents (order-service.ts:41-43, :82-92).
AnsweredIsAsked ==
    \A w \in Workers :
        (worker[w].pc = "answered" /\ worker[w].order # None) =>
            order[worker[w].order].hash = Hash(worker[w].ask)

\* An order that was archived has no attempt that is still on its way: neither one
\* that the archive forgot nor one that a request made afterwards, authenticated
\* while the application was in use (application-service.ts:120-122).
DeletedIsQuiet ==
    \A p \in Rows : order[payment[p].order].deleted => payment[p].status # "PROCESSING"

\* A success that was recorded and a refund that was begun stay on record, whatever
\* is archived: "the money has moved at the channel, and without the row it can never
\* be reconciled" (application-service.ts:137, docs/plugin-channels.md:71).
MovedMoneyIsOnRecord ==
    /\ settled \subseteq Rows
    /\ \A p \in settled : refund[p] # "deleted"

=============================================================================
