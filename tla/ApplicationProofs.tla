-------------------------- MODULE ApplicationProofs --------------------------
(***************************************************************************)
(* What the requests of a business and the removal of its application      *)
(* leave behind, proved for every set of orders, payments, requests and    *)
(* handlers: an answer is the order that was asked for, and an archived    *)
(* order has no attempt on its way.                                        *)
(***************************************************************************)
EXTENDS Application, TLAPS

WorkerStates == [pc : {"idle", "in", "insert", "raced", "answered"},
                 ask : Requests \cup {None}, order : Orders \cup {None}]
AdminStates == [pc : {"idle", "delete", "archive", "write"}, orders : SUBSET Orders,
                payments : SUBSET Payments, refunds : SUBSET Payments]

\* The rows and the handlers have their types, a payment was made for an order that
\* was, and a handler that inserts or answers knows what for.
Typed ==
    /\ order \in [Orders -> OrderRows \cup {None}]
    /\ payment \in [Payments -> PaymentRows \cup {None}]
    /\ worker \in [Workers -> WorkerStates]
    /\ admin \in AdminStates
    /\ \A p \in Payments : payment[p] # None => order[payment[p].order] # None
    /\ \A o \in admin.orders : order[o] # None
    /\ \A w \in Workers :
          /\ worker[w].pc \in {"insert", "raced", "answered"} => worker[w].ask \in Requests
          /\ worker[w].pc = "answered" => worker[w].order \in MadeOrders

\* What the administrator has read of the payments stays true of them.
Kept ==
    admin.pc = "write" =>
        \A p \in admin.payments : payment[p] # None /\ payment[p].status # "PROCESSING"

LEMMA TypedInit == Init => Typed /\ Kept /\ AnsweredIsAsked /\ DeletedIsQuiet
BY DEF Init, Typed, Kept, AnsweredIsAsked, DeletedIsQuiet, Idle, AtRest, WorkerStates,
       AdminStates, Rows

\* An order that was made stays made, keeps its contents, and stays deleted.
LEMMA OrdersGrow ==
    ASSUME Typed, [Next]_vars, NEW o \in MadeOrders
    PROVE  /\ o \in MadeOrders'
           /\ order'[o].hash = order[o].hash
           /\ order[o].deleted => order'[o].deleted
<1> DEFINE Grows == /\ o \in MadeOrders'
                    /\ order'[o].hash = order[o].hash
                    /\ order[o].deleted => order'[o].deleted
<1>1. /\ order \in [Orders -> OrderRows \cup {None}] /\ o \in Orders
      /\ order[o] \in OrderRows /\ order[o] # None
  BY DEF Typed, MadeOrders
<1>2. ASSUME order'[o] = order[o] PROVE Grows BY <1>1, <1>2 DEF MadeOrders
<1>3. ASSUME NEW w \in Workers, InsertOrder(w) PROVE order'[o] = order[o]
  BY <1>1, <1>3 DEF InsertOrder, IsNext
<1>4. ASSUME NEW p \in Payments, Settle(p) PROVE Grows
  <2>1. PICK q, winner : /\ order' = [order EXCEPT ![q].winner = winner]
                         /\ q = o => winner \in Payments \cup {None}
    <3> DEFINE q == payment[p].order
               winner == IF order[q].winner = None THEN p ELSE order[q].winner
    <3>1. order' = [order EXCEPT ![q].winner = winner] BY <1>4 DEF Settle
    <3>2. q = o => winner \in Payments \cup {None} BY <1>1 DEF OrderRows
    <3> QED BY <3>1, <3>2
  <2>2. CASE q = o
    <3>1. order'[o] = [order[o] EXCEPT !.winner = winner] BY <1>1, <2>1, <2>2
    <3>2. /\ order'[o] \in OrderRows /\ order'[o].hash = order[o].hash
          /\ order'[o].deleted = order[o].deleted
      BY <1>1, <2>1, <2>2, <3>1 DEF OrderRows
    <3> QED BY <1>1, <3>2, RowAssumption DEF MadeOrders
  <2> QED BY <1>1, <1>2, <2>1, <2>2
<1>5. CASE WriteArchive
  <2>1. order'[o] = IF o \in admin.orders THEN [order[o] EXCEPT !.deleted = TRUE] ELSE order[o]
    BY <1>1, <1>5 DEF WriteArchive
  <2>2. CASE o \in admin.orders
    <3>1. /\ order'[o] \in OrderRows /\ order'[o].hash = order[o].hash /\ order'[o].deleted
      BY <1>1, <2>1, <2>2 DEF OrderRows
    <3> QED BY <1>1, <3>1, RowAssumption DEF MadeOrders
  <2> QED BY <1>2, <2>1, <2>2
<1>6. ASSUME \/ \E w \in Workers :
                    \/ Authenticate(w) \/ LookAgain(w)
                    \/ \E ask \in Requests : LookForOrder(w, ask)
                    \/ \E q \in Orders, p \in Payments : Pay(w, q, p)
                    \/ \E p \in Payments : Refund(w, p)
             \/ \E p \in Payments : EndUnpaid(p) \/ EndRefund(p)
             \/ \E status \in {"ACTIVE", "DISABLED"} : SetStatus(status)
             \/ Rotate \/ CountForDeletion \/ DeleteRow \/ ReadForArchive \/ UNCHANGED vars
      PROVE  order'[o] = order[o]
  BY <1>6 DEF Authenticate, LookAgain, LookForOrder, Pay, Refund, EndUnpaid, EndRefund,
              SetStatus, Rotate, CountForDeletion, DeleteRow, ReadForArchive, vars
<1> QED BY <1>2, <1>3, <1>4, <1>5, <1>6 DEF Next, Request

\* A handler's state after it answered, refused or found nothing.
LEMMA TakeOrderTyped ==
    ASSUME Typed, NEW w \in Workers, NEW ask \in Requests, NEW found \in SUBSET MadeOrders,
           TakeOrder(w, ask, found)
    PROVE  /\ worker' \in [Workers -> WorkerStates]
           /\ \A v \in Workers \ {w} : worker'[v] = worker[v]
           /\ \/ worker'[w] = Idle
              \/ /\ worker'[w].pc = "answered" /\ worker'[w].ask = ask
                 /\ worker'[w].order \in found
                 /\ order[worker'[w].order].hash = Hash(ask)
<1>1. worker \in [Workers -> WorkerStates] BY DEF Typed
<1>2. Idle \in WorkerStates BY DEF Idle, WorkerStates
<1>3. CASE Refuse(w) BY <1>1, <1>2, <1>3 DEF Refuse
<1>4. ASSUME NEW o \in found, Answer(w, ask, o), order[o].hash = Hash(ask)
      PROVE  /\ worker' \in [Workers -> WorkerStates]
             /\ \A v \in Workers \ {w} : worker'[v] = worker[v]
             /\ worker'[w].pc = "answered" /\ worker'[w].ask = ask
             /\ worker'[w].order = o
  BY <1>1, <1>4 DEF Answer, WorkerStates, MadeOrders
<1> QED BY <1>3, <1>4 DEF TakeOrder

\* What a request does to the handlers, and that an answer is what was asked for.
LEMMA RequestTyped ==
    ASSUME Typed, AnsweredIsAsked, NEW w \in Workers, Request(w)
    PROVE  /\ worker' \in [Workers -> WorkerStates]
           /\ \A v \in Workers \ {w} : worker'[v] = worker[v]
           /\ worker'[w].pc \in {"insert", "raced", "answered"} => worker'[w].ask \in Requests
           /\ worker'[w].pc = "answered" => /\ worker'[w].order \in MadeOrders'
                                            /\ order'[worker'[w].order].hash = Hash(worker'[w].ask)
<1> DEFINE Good == /\ worker' \in [Workers -> WorkerStates]
                   /\ \A v \in Workers \ {w} : worker'[v] = worker[v]
                   /\ worker'[w].pc \in {"insert", "raced", "answered"} => worker'[w].ask \in Requests
                   /\ worker'[w].pc = "answered" =>
                          /\ worker'[w].order \in MadeOrders'
                          /\ order'[worker'[w].order].hash = Hash(worker'[w].ask)
<1>1. worker \in [Workers -> WorkerStates] BY DEF Typed
<1>2. Idle \in WorkerStates /\ Idle.pc = "idle" BY DEF Idle, WorkerStates
<1>3. ASSUME Refuse(w) PROVE Good BY <1>1, <1>2, <1>3 DEF Refuse
<1>4. ASSUME NEW ask \in Requests, TakeOrder(w, ask, {o \in LiveOrders : Clash(o, ask)}),
             UNCHANGED order
      PROVE  Good
  <2>1. {o \in LiveOrders : Clash(o, ask)} \in SUBSET MadeOrders BY DEF LiveOrders
  <2>2. MadeOrders' = MadeOrders BY <1>4 DEF MadeOrders
  <2>3. \/ worker'[w] = Idle
        \/ /\ worker'[w].pc = "answered" /\ worker'[w].ask = ask
           /\ worker'[w].order \in MadeOrders
           /\ order[worker'[w].order].hash = Hash(ask)
    BY <1>4, <2>1, TakeOrderTyped
  <2>4. /\ worker' \in [Workers -> WorkerStates]
        /\ \A v \in Workers \ {w} : worker'[v] = worker[v]
    BY <1>4, <2>1, TakeOrderTyped
  <2> QED BY <1>2, <1>4, <2>2, <2>3, <2>4
<1>5. CASE Authenticate(w)
  <2>1. [Idle EXCEPT !.pc = "in"] \in WorkerStates /\ [Idle EXCEPT !.pc = "in"].pc = "in"
    BY DEF Idle, WorkerStates
  <2> QED BY <1>1, <1>5, <2>1 DEF Authenticate
<1>6. ASSUME NEW ask \in Requests, LookForOrder(w, ask) PROVE Good
  <2>1. CASE TakeOrder(w, ask, {o \in LiveOrders : Clash(o, ask)})
    BY <1>4, <1>6, <2>1 DEF LookForOrder
  <2>2. CASE worker' = [worker EXCEPT ![w].pc = "insert", ![w].ask = ask]
    <3>1. /\ worker'[w] \in WorkerStates /\ worker'[w].pc = "insert" /\ worker'[w].ask = ask
          /\ \A v \in Workers \ {w} : worker'[v] = worker[v]
      BY <1>1, <2>2 DEF WorkerStates
    <3>2. worker' = [worker EXCEPT ![w] = worker'[w]] BY <1>1, <2>2
    <3> QED BY <1>1, <3>1, <3>2
  <2> QED BY <1>6, <2>1, <2>2 DEF LookForOrder
<1>7. CASE InsertOrder(w)
  <2> DEFINE ask == worker[w].ask
  <2>1. ask \in Requests BY <1>7 DEF InsertOrder, Typed
  <2>2. CASE worker' = [worker EXCEPT ![w].pc = "raced"]
    <3>1. worker'[w] \in WorkerStates /\ worker'[w].pc = "raced" /\ worker'[w].ask = ask
      BY <1>1, <2>2 DEF WorkerStates
    <3>2. worker' = [worker EXCEPT ![w] = worker'[w]] BY <1>1, <2>2
    <3> QED BY <1>1, <2>1, <3>1, <3>2
  <2>3. ASSUME NEW o \in Orders, Answer(w, ask, o),
               order' = [order EXCEPT ![o] = [number |-> ask.number, key |-> ask.key,
                             hash |-> Hash(ask), deleted |-> FALSE, winner |-> None]]
        PROVE  Good
    <3>1. /\ order'[o] \in OrderRows /\ order'[o].hash = Hash(ask)
      BY <2>1, <2>3 DEF Typed, Requests, OrderRows, Hash
    <3>2. o \in MadeOrders' BY <3>1, RowAssumption DEF MadeOrders
    <3>3. /\ worker'[w] = [pc |-> "answered", ask |-> ask, order |-> o]
          /\ worker' = [worker EXCEPT ![w] = worker'[w]]
      BY <1>1, <2>3 DEF Answer
    <3>4. worker'[w] \in WorkerStates BY <2>1, <3>3 DEF WorkerStates
    <3>5. worker'[w].pc = "answered" /\ worker'[w].ask = ask /\ worker'[w].order = o BY <3>3
    <3> QED BY <1>1, <2>1, <3>1, <3>2, <3>3, <3>4, <3>5
  <2> QED BY <1>3, <1>7, <2>2, <2>3 DEF InsertOrder
<1>8. CASE LookAgain(w) BY <1>4, <1>8 DEF LookAgain, Typed
<1>9. ASSUME NEW o \in Orders, NEW p \in Payments, Pay(w, o, p) PROVE Good
  BY <1>3, <1>9 DEF Pay
<1>10. ASSUME NEW p \in Payments, Refund(w, p) PROVE Good BY <1>3, <1>10 DEF Refund
<1> QED BY <1>5, <1>6, <1>7, <1>8, <1>9, <1>10 DEF Request
\* The orders keep their type.
LEMMA OrderTyped ==
    ASSUME Typed, [Next]_vars
    PROVE  order' \in [Orders -> OrderRows \cup {None}]
<1>1. order \in [Orders -> OrderRows \cup {None}] BY DEF Typed
<1>2. ASSUME NEW w \in Workers, InsertOrder(w) PROVE order' \in [Orders -> OrderRows \cup {None}]
  <2> DEFINE ask == worker[w].ask
  <2>1. ask \in Requests BY <1>2 DEF InsertOrder, Typed
  <2>2. [number |-> ask.number, key |-> ask.key, hash |-> Hash(ask), deleted |-> FALSE,
         winner |-> None] \in OrderRows
    BY <2>1 DEF Requests, OrderRows, Hash
  <2>3. \/ order' = order
        \/ \E o \in Orders : order' = [order EXCEPT ![o] =
               [number |-> ask.number, key |-> ask.key, hash |-> Hash(ask),
                deleted |-> FALSE, winner |-> None]]
    BY <1>2 DEF InsertOrder
  <2> QED BY <1>1, <2>2, <2>3
<1>3. ASSUME NEW p \in Payments, Settle(p) PROVE order' \in [Orders -> OrderRows \cup {None}]
  <2> DEFINE q == payment[p].order
             winner == IF order[q].winner = None THEN p ELSE order[q].winner
  <2>1. q \in Orders /\ order[q] \in OrderRows
    BY <1>3, RowAssumption DEF Settle, Rows, Typed, PaymentRows
  <2>2. order' = [order EXCEPT ![q].winner = winner] BY <1>3 DEF Settle
  <2>3. winner \in Payments \cup {None} BY <2>1 DEF OrderRows
  <2>4. [order[q] EXCEPT !.winner = winner] \in OrderRows BY <2>1, <2>3 DEF OrderRows
  <2>5. order' = [order EXCEPT ![q] = [order[q] EXCEPT !.winner = winner]] BY <1>1, <2>1, <2>2
  <2> QED BY <1>1, <2>1, <2>4, <2>5
<1>4. CASE WriteArchive
  <2>1. order' = [o \in Orders |->
                    IF o \in admin.orders THEN [order[o] EXCEPT !.deleted = TRUE] ELSE order[o]]
    BY <1>4 DEF WriteArchive
  <2>2. \A o \in admin.orders : order[o] \in OrderRows BY DEF Typed, AdminStates
  <2>3. \A o \in admin.orders : [order[o] EXCEPT !.deleted = TRUE] \in OrderRows
    BY <2>2 DEF OrderRows
  <2> QED BY <1>1, <2>1, <2>3
<1>5. ASSUME \/ \E w \in Workers :
                    \/ Authenticate(w) \/ LookAgain(w)
                    \/ \E ask \in Requests : LookForOrder(w, ask)
                    \/ \E q \in Orders, p \in Payments : Pay(w, q, p)
                    \/ \E p \in Payments : Refund(w, p)
             \/ \E p \in Payments : EndUnpaid(p) \/ EndRefund(p)
             \/ \E status \in {"ACTIVE", "DISABLED"} : SetStatus(status)
             \/ Rotate \/ CountForDeletion \/ DeleteRow \/ ReadForArchive \/ UNCHANGED vars
      PROVE  order' = order
  BY <1>5 DEF Authenticate, LookAgain, LookForOrder, Pay, Refund, EndUnpaid, EndRefund,
              SetStatus, Rotate, CountForDeletion, DeleteRow, ReadForArchive, vars
<1> QED BY <1>1, <1>2, <1>3, <1>4, <1>5 DEF Next, Request

\* The attempts keep their type and their order; one that is new is made for an order
\* in use, and none that was ends up on its way again.
LEMMA PaymentsStep ==
    ASSUME Typed, [Next]_vars, NEW p \in Payments
    PROVE  /\ payment'[p] \in PaymentRows \cup {None}
           /\ payment[p] # None => /\ payment'[p] # None
                                   /\ payment'[p].order = payment[p].order
                                   /\ payment'[p].status = "PROCESSING" =>
                                          payment[p].status = "PROCESSING"
           /\ payment[p] = None /\ payment'[p] # None =>
                  LET o == payment'[p].order
                  IN  o \in MadeOrders /\ order'[o] = order[o] /\ ~order[o].deleted
<1> DEFINE Moves == /\ payment'[p] \in PaymentRows \cup {None}
                    /\ payment[p] # None => /\ payment'[p] # None
                                            /\ payment'[p].order = payment[p].order
                                            /\ payment'[p].status = "PROCESSING" =>
                                                   payment[p].status = "PROCESSING"
                    /\ payment[p] = None /\ payment'[p] # None =>
                           LET o == payment'[p].order
                           IN  o \in MadeOrders /\ order'[o] = order[o] /\ ~order[o].deleted
<1>1. /\ payment \in [Payments -> PaymentRows \cup {None}]
      /\ payment[p] # None => payment[p] \in PaymentRows
  BY DEF Typed
<1>2. ASSUME payment'[p] = payment[p] PROVE Moves BY <1>1, <1>2
<1>3. ASSUME NEW status \in {"SUCCESS", "CLOSED", "FAILED", "deleted"}, payment[p] # None,
             payment'[p] = [payment[p] EXCEPT !.status = status]
      PROVE  Moves
  <2>1. /\ payment'[p] \in PaymentRows /\ payment'[p].order = payment[p].order
        /\ payment'[p].status = status
    BY <1>1, <1>3 DEF PaymentRows
  <2> QED BY <1>3, <2>1, RowAssumption
<1>4. ASSUME NEW w \in Workers, NEW o \in Orders, NEW q \in Payments, Pay(w, o, q) PROVE Moves
  <2>1. CASE q = p
    <3>1. /\ payment'[p] = [order |-> o, status |-> "PROCESSING"]
          /\ payment[p] = None /\ o \in MadeOrders /\ ~order[o].deleted /\ order' = order
      BY <1>1, <1>4, <2>1 DEF Pay, IsNext, Payable
    <3>2. payment'[p] \in PaymentRows /\ payment'[p].order = o BY <3>1 DEF PaymentRows
    <3> QED BY <3>1, <3>2
  <2>2. CASE q # p BY <1>1, <1>2, <1>4, <2>2 DEF Pay
  <2> QED BY <2>1, <2>2
<1>5. ASSUME NEW q \in Payments, Settle(q) \/ EndUnpaid(q) PROVE Moves
  <2>1. PICK status \in {"SUCCESS", "CLOSED", "FAILED", "deleted"} :
            payment' = [payment EXCEPT ![q].status = status]
    BY <1>5 DEF Settle, EndUnpaid
  <2>2. payment[q] # None BY <1>5 DEF Settle, EndUnpaid, Rows
  <2>3. CASE q = p
    <3>1. payment'[p] = [payment[p] EXCEPT !.status = status] BY <1>1, <2>1, <2>3
    <3> QED BY <1>3, <2>2, <2>3, <3>1
  <2>4. CASE q # p BY <1>1, <1>2, <2>1, <2>4
  <2> QED BY <2>3, <2>4
<1>6. CASE WriteArchive
  <2>1. \/ payment'[p] = payment[p]
        \/ payment[p] # None /\ payment'[p] = [payment[p] EXCEPT !.status = "deleted"]
    BY <1>6 DEF WriteArchive, Rows
  <2> QED BY <1>2, <1>3, <2>1
<1>7. ASSUME \/ \E w \in Workers :
                    \/ Authenticate(w) \/ LookAgain(w) \/ InsertOrder(w)
                    \/ \E ask \in Requests : LookForOrder(w, ask)
                    \/ \E q \in Payments : Refund(w, q)
             \/ \E q \in Payments : EndRefund(q)
             \/ \E status \in {"ACTIVE", "DISABLED"} : SetStatus(status)
             \/ Rotate \/ CountForDeletion \/ DeleteRow \/ ReadForArchive \/ UNCHANGED vars
      PROVE  payment'[p] = payment[p]
  BY <1>7 DEF Authenticate, LookAgain, InsertOrder, LookForOrder, Refund, EndRefund,
              SetStatus, Rotate, CountForDeletion, DeleteRow, ReadForArchive, vars
<1> HIDE DEF Moves
<1> QED BY <1>2, <1>4, <1>5, <1>6, <1>7 DEF Next, Request, Moves

\* What the administrator holds is what was there when it was read.
LEMMA AdminStep ==
    ASSUME Typed, Kept, [Next]_vars
    PROVE  /\ admin' \in AdminStates
           /\ \A o \in admin'.orders : o \in MadeOrders'
           /\ Kept'
<1> DEFINE Held == /\ admin' \in AdminStates
                   /\ \A o \in admin'.orders : o \in MadeOrders'
                   /\ Kept'
<1>1. admin \in AdminStates /\ \A o \in admin.orders : o \in MadeOrders
  BY DEF Typed, AdminStates, MadeOrders
<1>2. \A o \in MadeOrders : o \in MadeOrders' BY OrdersGrow
<1>3. \A p \in Payments : payment[p] # None /\ payment[p].status # "PROCESSING" =>
                              payment'[p] # None /\ payment'[p].status # "PROCESSING"
  BY PaymentsStep
<1>4. ASSUME UNCHANGED admin PROVE Held
  BY <1>1, <1>2, <1>3, <1>4 DEF Kept, AdminStates
<1>5. ASSUME admin' = AtRest PROVE Held BY <1>5 DEF AtRest, AdminStates, Kept
<1>6. CASE CountForDeletion
  <2>1. /\ admin'.pc \in {"delete", "archive"} /\ admin'.orders = {}
        /\ admin' \in AdminStates
    BY <1>6 DEF CountForDeletion, AtRest, AdminStates
  <2> QED BY <2>1 DEF Kept
<1>7. CASE DeleteRow
  <2>1. CASE admin' = [admin EXCEPT !.pc = "archive"]
    <3>1. admin'.pc = "archive" /\ admin'.orders = admin.orders /\ admin' \in AdminStates
      BY <1>1, <2>1 DEF AdminStates
    <3> QED BY <1>1, <1>2, <3>1 DEF Kept
  <2> QED BY <1>5, <1>7, <2>1 DEF DeleteRow
<1>8. CASE ReadForArchive
  <2>1. CASE /\ admin'.pc = "write" /\ admin'.orders = LiveOrders
             /\ admin'.payments = {p \in Rows : payment[p].status \in {"SUCCESS", "CLOSED"}}
             /\ admin' \in AdminStates
    BY <1>2, <1>3, <2>1 DEF LiveOrders, Rows, Kept
  <2>2. CASE admin' = [pc |-> "write", orders |-> LiveOrders,
                       payments |-> {p \in Rows : payment[p].status \in {"SUCCESS", "CLOSED"}},
                       refunds |-> {p \in Refunds : refund[p] \in {"PROCESSING", "SUCCESS"}}]
    BY <2>1, <2>2 DEF AdminStates, LiveOrders, MadeOrders, Rows, Refunds
  <2> QED BY <1>5, <1>8, <2>2 DEF ReadForArchive
<1>9. CASE WriteArchive BY <1>5, <1>9 DEF WriteArchive
<1>10. ASSUME \/ \E w \in Workers : Request(w)
              \/ \E p \in Payments : Settle(p) \/ EndUnpaid(p) \/ EndRefund(p)
              \/ \E status \in {"ACTIVE", "DISABLED"} : SetStatus(status)
              \/ Rotate \/ UNCHANGED vars
      PROVE  UNCHANGED admin
  BY <1>10 DEF Request, Authenticate, LookAgain, InsertOrder, LookForOrder, Pay, Refund,
              Settle, EndUnpaid, EndRefund, SetStatus, Rotate, vars
<1> HIDE DEF Held
<1> QED BY <1>4, <1>6, <1>7, <1>8, <1>9, <1>10 DEF Next, Held

\* Of the handlers, that an answer is what was asked for.
LEMMA WorkersStep ==
    ASSUME Typed, AnsweredIsAsked, [Next]_vars
    PROVE  /\ worker' \in [Workers -> WorkerStates]
           /\ \A w \in Workers :
                 /\ worker'[w].pc \in {"insert", "raced", "answered"} => worker'[w].ask \in Requests
                 /\ worker'[w].pc = "answered" => worker'[w].order \in MadeOrders'
           /\ AnsweredIsAsked'
<1> DEFINE Good(v) ==
        /\ worker'[v].pc \in {"insert", "raced", "answered"} => worker'[v].ask \in Requests
        /\ worker'[v].pc = "answered" =>
               /\ worker'[v].order \in MadeOrders'
               /\ order'[worker'[v].order].hash = Hash(worker'[v].ask)
<1>1. ASSUME NEW v \in Workers, worker'[v] = worker[v] PROVE Good(v)
  <2>1. /\ worker[v].pc \in {"insert", "raced", "answered"} => worker[v].ask \in Requests
        /\ worker[v].pc = "answered" => worker[v].order \in MadeOrders
    BY DEF Typed
  <2>2. worker[v].pc = "answered" => order[worker[v].order].hash = Hash(worker[v].ask)
    BY <2>1, ApplicationAssumption DEF AnsweredIsAsked, MadeOrders
  <2>3. \A o \in MadeOrders : o \in MadeOrders' /\ order'[o].hash = order[o].hash
    BY OrdersGrow
  <2> QED BY <1>1, <2>1, <2>2, <2>3
<1>2. ASSUME NEW w \in Workers, Request(w)
      PROVE  worker' \in [Workers -> WorkerStates] /\ \A v \in Workers : Good(v)
  <2>1. /\ worker' \in [Workers -> WorkerStates] /\ Good(w)
        /\ \A v \in Workers \ {w} : worker'[v] = worker[v]
    BY <1>2, RequestTyped
  <2> HIDE DEF Good
  <2> QED BY <1>1, <2>1
<1>3. ASSUME \/ \E p \in Payments : Settle(p) \/ EndUnpaid(p) \/ EndRefund(p)
             \/ \E status \in {"ACTIVE", "DISABLED"} : SetStatus(status)
             \/ Rotate \/ CountForDeletion \/ DeleteRow \/ ReadForArchive \/ WriteArchive
             \/ UNCHANGED vars
      PROVE  UNCHANGED worker
  BY <1>3 DEF Settle, EndUnpaid, EndRefund, SetStatus, Rotate, CountForDeletion, DeleteRow,
              ReadForArchive, WriteArchive, vars
<1>4. worker' \in [Workers -> WorkerStates] /\ \A v \in Workers : Good(v)
  <2> HIDE DEF Good
  <2> QED BY <1>1, <1>2, <1>3 DEF Next, Typed
<1> QED BY <1>4 DEF AnsweredIsAsked

\* An order that is deleted has no attempt left on its way, and gets none.
LEMMA QuietStep ==
    ASSUME Typed, Kept, DeletedIsQuiet, [Next]_vars
    PROVE  DeletedIsQuiet'
<1> SUFFICES ASSUME NEW p \in Payments, payment'[p] # None, payment'[p].status = "PROCESSING",
                    order'[payment'[p].order].deleted
             PROVE  FALSE
  BY DEF DeletedIsQuiet, Rows
<1>1. CASE payment[p] = None
  <2>1. LET o == payment'[p].order IN order'[o] = order[o] /\ ~order[o].deleted
    BY <1>1, PaymentsStep
  <2> QED BY <2>1
<1>2. CASE payment[p] # None
  <2> DEFINE o == payment[p].order
  <2>1. payment'[p].order = o /\ payment[p].status = "PROCESSING" BY <1>2, PaymentsStep
  <2>2. o \in MadeOrders /\ p \in Rows
    BY <1>2, <2>1 DEF Typed, MadeOrders, Rows, PaymentRows
  <2>3. ~order[o].deleted BY <2>1, <2>2 DEF DeletedIsQuiet
  <2>4. order'[o].deleted BY <2>1
  <2>5. WriteArchive
    <3>1. /\ order \in [Orders -> OrderRows \cup {None}] /\ o \in Orders /\ order[o] # None
          /\ order[o] \in OrderRows
      BY <2>2 DEF Typed, MadeOrders
    <3>2. ASSUME NEW w \in Workers, InsertOrder(w) PROVE order'[o] = order[o]
      BY <3>1, <3>2 DEF InsertOrder, IsNext
    <3>3. ASSUME NEW q \in Payments, Settle(q) PROVE order'[o].deleted = order[o].deleted
      <4>1. PICK r, winner : order' = [order EXCEPT ![r].winner = winner] BY <3>3 DEF Settle
      <4> QED BY <3>1, <4>1 DEF OrderRows
    <3>4. ASSUME \/ \E w \in Workers :
                        \/ Authenticate(w) \/ LookAgain(w)
                        \/ \E ask \in Requests : LookForOrder(w, ask)
                        \/ \E r \in Orders, q \in Payments : Pay(w, r, q)
                        \/ \E q \in Payments : Refund(w, q)
                 \/ \E q \in Payments : EndUnpaid(q) \/ EndRefund(q)
                 \/ \E status \in {"ACTIVE", "DISABLED"} : SetStatus(status)
                 \/ Rotate \/ CountForDeletion \/ DeleteRow \/ ReadForArchive \/ UNCHANGED vars
          PROVE  order' = order
      BY <3>4 DEF Authenticate, LookAgain, LookForOrder, Pay, Refund, EndUnpaid, EndRefund,
                  SetStatus, Rotate, CountForDeletion, DeleteRow, ReadForArchive, vars
    <3> QED BY <2>3, <2>4, <3>2, <3>3, <3>4 DEF Next, Request
  <2>6. o \in admin.orders BY <2>2, <2>3, <2>4, <2>5 DEF WriteArchive, MadeOrders
  <2>7. p \notin admin.payments BY <2>1, <2>5 DEF Kept, WriteArchive
  <2>8. payment'[p] = [payment[p] EXCEPT !.status = "deleted"]
    BY <2>2, <2>5, <2>6, <2>7 DEF WriteArchive
  <2> QED BY <1>2, <2>8 DEF Typed, PaymentRows
<1> QED BY <1>1, <1>2

LEMMA ApplicationStep ==
    Typed /\ Kept /\ AnsweredIsAsked /\ DeletedIsQuiet /\ [Next]_vars
        => Typed' /\ Kept' /\ AnsweredIsAsked' /\ DeletedIsQuiet'
<1> SUFFICES ASSUME Typed, Kept, AnsweredIsAsked, DeletedIsQuiet, [Next]_vars
             PROVE  Typed' /\ Kept' /\ AnsweredIsAsked' /\ DeletedIsQuiet'
  OBVIOUS
<1>1. payment' \in [Payments -> PaymentRows \cup {None}]
  <2>1. ASSUME NEW p \in Payments PROVE payment'[p] \in PaymentRows \cup {None}
    BY PaymentsStep
  <2> DEFINE AFunction == payment' = [p \in Payments |-> payment'[p]]
  <2>2. AFunction
    <3>1. payment \in [Payments -> PaymentRows \cup {None}] BY DEF Typed
    <3>2. ASSUME NEW w \in Workers, NEW o \in Orders, NEW p \in Payments, Pay(w, o, p)
          PROVE  AFunction
      BY <3>1, <3>2 DEF Pay
    <3>3. ASSUME NEW p \in Payments, Settle(p) \/ EndUnpaid(p) PROVE AFunction
      BY <3>1, <3>3 DEF Settle, EndUnpaid
    <3>4. ASSUME WriteArchive PROVE AFunction BY <3>4 DEF WriteArchive
    <3>5. ASSUME payment' = payment PROVE AFunction BY <3>1, <3>5
    <3>6. ASSUME \/ \E w \in Workers :
                        \/ Authenticate(w) \/ LookAgain(w) \/ InsertOrder(w)
                        \/ \E ask \in Requests : LookForOrder(w, ask)
                        \/ \E q \in Payments : Refund(w, q)
                 \/ \E q \in Payments : EndRefund(q)
                 \/ \E status \in {"ACTIVE", "DISABLED"} : SetStatus(status)
                 \/ Rotate \/ CountForDeletion \/ DeleteRow \/ ReadForArchive \/ UNCHANGED vars
          PROVE  payment' = payment
      BY <3>6 DEF Authenticate, LookAgain, InsertOrder, LookForOrder, Refund, EndRefund,
                  SetStatus, Rotate, CountForDeletion, DeleteRow, ReadForArchive, vars
    <3> QED BY <3>2, <3>3, <3>4, <3>5, <3>6 DEF Next, Request
  <2> QED BY <2>1, <2>2
<1>2. \A p \in Payments : payment'[p] # None => payment'[p].order \in MadeOrders'
  <2> SUFFICES ASSUME NEW p \in Payments, payment'[p] # None
               PROVE  payment'[p].order \in MadeOrders'
    OBVIOUS
  <2>1. payment'[p].order \in MadeOrders
    BY PaymentsStep DEF Typed, MadeOrders, PaymentRows
  <2> QED BY <2>1, OrdersGrow
<1>3. \A p \in Payments : payment'[p] # None => order'[payment'[p].order] # None
  BY <1>2 DEF MadeOrders
<1>4. \A o \in admin'.orders : order'[o] # None BY AdminStep DEF MadeOrders
<1> QED BY <1>1, <1>3, <1>4, OrderTyped, AdminStep, WorkersStep, QuietStep DEF Typed

\* Who is answered gets the order that was asked for, whoever else asks for the same
\* number or under the same key at the same time.
THEOREM AnsweredIsAskedCorrect == Spec => []AnsweredIsAsked
BY TypedInit, ApplicationStep, PTL DEF Spec

\* An archived order has no attempt on its way, whatever the requests do that were
\* authenticated before the archive.
THEOREM DeletedIsQuietCorrect == Spec => []DeletedIsQuiet
BY TypedInit, ApplicationStep, PTL DEF Spec

=============================================================================
