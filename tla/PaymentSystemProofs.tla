------------------------ MODULE PaymentSystemProofs -------------------------
(***************************************************************************)
(* Invariants of PaymentSystem, proved for every set of orders, payments,  *)
(* channels and handlers, in three parts: type correctness; what a success *)
(* of a payment does, with the refinement of Settlement; and what the      *)
(* handlers know when they act on what they read earlier.                  *)
(***************************************************************************)
EXTENDS PaymentSystem, TLAPS

TypeInv == TypeOK /\ HandlersOK

\* The rows the transactions write, well typed.
RowsOK ==
    /\ orderStatus \in [Orders -> OrderStatus]
    /\ winningPaymentId \in [Orders -> Payments \cup {None}]
    /\ delivery \in [Orders -> Payments \cup {None}]
    /\ expirationNext \in [Orders -> {"none", "later", "due"}]
    /\ expirationLocked \in [Orders -> BOOLEAN]
    /\ payStatus \in [Payments -> RowStatus]
    /\ nextQueryAt \in [Payments -> BOOLEAN]
    /\ exception \in [Payments -> ExceptionStatus]

\* The rest of the state, but for the handlers.
RestOK ==
    /\ queryAttempts \in [Payments -> 0 .. RECOVERY_MAX_ATTEMPTS]
    /\ callback \in [Payments \X NoticeStatus -> {"none", "recorded", "processed"}]
    /\ expired \in [Orders -> SUBSET {"api", "worker"}]
    /\ trade \in [Payments -> TradeStatus]
    /\ inTransit \subseteq Payments
    /\ notices \subseteq Payments \X NoticeStatus
    /\ crashes \in 0 .. MaxCrashes

\* TypeOK in three parts.
LEMMA TypeParts == TypeOK <=> RowsOK /\ RestOK /\ proc \in [Procs -> ProcState]
BY DEF TypeOK, RowsOK, RestOK

\* No row of a payment disappears in the step.
RowsStay == \A p \in Payments : payStatus[p] # "NONE" => payStatus'[p] # "NONE"

\* The idle handler is a handler.
LEMMA IdleType == Idle \in ProcState /\ GoodHandler(Idle)
BY DEF Idle, ProcState, RowStatus, GoodHandler

\* A step in which one handler moves to a good state keeps all handlers good.
LEMMA BecomeOK ==
    ASSUME TypeInv, RowsStay, NEW h, NEW state \in ProcState, GoodHandler(state),
           Become(h, state)
    PROVE  proc' \in [Procs -> ProcState] /\ HandlersOK'
<1>1. proc' \in [Procs -> ProcState]
  BY DEF TypeInv, TypeOK, Become
<1>2. ASSUME NEW g \in Procs PROVE GoodHandler(proc[g])'
  <2>1. proc'[g] = proc[g] \/ proc'[g] = state
    BY DEF TypeInv, TypeOK, Become
  <2>2. CASE proc'[g] = proc[g]
    BY <2>2 DEF TypeInv, HandlersOK, GoodHandler, RowsStay
  <2>3. CASE proc'[g] = state
    BY <2>3 DEF GoodHandler, RowsStay
  <2> QED BY <2>1, <2>2, <2>3
<1> QED BY <1>1, <1>2 DEF HandlersOK

\* The same when no handler moves.
LEMMA StayOK ==
    ASSUME TypeInv, RowsStay, UNCHANGED proc
    PROVE  proc' \in [Procs -> ProcState] /\ HandlersOK'
BY DEF TypeInv, TypeOK, HandlersOK, GoodHandler, RowsStay

\* What a handler that works on a payment knows.
LEMMA HandlerFacts ==
    ASSUME TypeInv, NEW h \in Procs
    PROVE  /\ proc[h] \in ProcState
           /\ GoodHandler(proc[h])
BY DEF TypeInv, TypeOK, HandlersOK

\* markPaymentSucceeded leaves well-typed rows and removes none.
LEMMA MarkType ==
    ASSUME TypeInv, NEW pay \in Payments, markPaymentSucceeded(pay)
    PROVE  RowsOK' /\ RowsStay
<1> USE PaymentAssumption DEF RowStatus, PaymentStatus
<1>1. RowsOK BY TypeParts DEF TypeInv
<1>2. CASE payStatus[pay] = "SUCCESS"
  BY <1>1, <1>2 DEF markPaymentSucceeded, paymentVars, orderVars, RowsOK, RowsStay
<1>3. CASE payStatus[pay] # "SUCCESS" /\ isLateDuplicate(OrderOf[pay])
  BY <1>1, <1>3 DEF markPaymentSucceeded, orderVars, RowsOK, RowsStay,
                    openLateDuplicateException, ExceptionStatus
<1>4. CASE payStatus[pay] # "SUCCESS" /\ ~isLateDuplicate(OrderOf[pay])
  <2> DEFINE o == OrderOf[pay]
  <2>1. o \in Orders BY DEF PaymentAssumption
  <2>2. /\ payStatus' = [payStatus EXCEPT ![pay] = "SUCCESS"]
        /\ nextQueryAt' = [nextQueryAt EXCEPT ![pay] = FALSE]
        /\ orderStatus' = [orderStatus EXCEPT ![o] = "SUCCESS"]
        /\ winningPaymentId' = [winningPaymentId EXCEPT ![o] = pay]
        /\ expirationNext' = [expirationNext EXCEPT ![o] = "none"]
        /\ expirationLocked' = [expirationLocked EXCEPT ![o] = FALSE]
        /\ createPaymentSucceededDelivery(o, pay)
        /\ exception' = exception
    BY <1>4 DEF markPaymentSucceeded
  <2>3. delivery' \in [Orders -> Payments \cup {None}]
    BY <1>1, <2>1, <2>2 DEF RowsOK, createPaymentSucceededDelivery
  <2> QED BY <1>1, <2>1, <2>2, <2>3 DEF RowsOK, RowsStay, OrderStatus
<1> QED BY <1>2, <1>3, <1>4

\* updatePaymentObservation leaves well-typed rows and removes none.
LEMMA ObserveType ==
    ASSUME TypeInv, NEW pay \in Payments, NEW status \in PaymentStatus,
           updatePaymentObservation(pay, status), UNCHANGED <<orderVars, exception>>
    PROVE  RowsOK' /\ RowsStay
BY TypeParts DEF TypeInv, RowsOK, RowsStay, updatePaymentObservation, orderVars,
                 RowStatus, PaymentStatus

\* Steps that write no row of payments, orders or exceptions.
LEMMA SameRowsType ==
    ASSUME TypeInv, UNCHANGED <<orderVars, paymentVars>>
    PROVE  RowsOK' /\ RowsStay
BY TypeParts DEF TypeInv, RowsOK, RowsStay, orderVars, paymentVars

\* Steps that write nothing but rows and handlers.
LEMMA SameRestType ==
    ASSUME TypeInv, UNCHANGED <<queryAttempts, callback, expired, channelVars, crashes>>
    PROVE  RestOK'
BY TypeParts DEF TypeInv, RestOK, channelVars

\* The result of queryPayment or closePayment is handed over to a good handler.
LEMMA ReturnOK ==
    ASSUME TypeInv, RowsStay, NEW h \in Procs, NEW pay \in Payments,
           payStatus[pay] # "NONE", NEW at \in {"afterQuery", "afterClose"},
           NEW result \in RowStatus \cup {"error"}, Return(h, at, pay, result)
    PROVE  proc' \in [Procs -> ProcState] /\ HandlersOK'
<1> DEFINE next == [proc[h] EXCEPT !.pc = at, !.pay = pay, !.res = result,
                                   !.seen = "NONE", !.rearm = FALSE]
<1>1. next \in ProcState /\ GoodHandler(next)
  BY HandlerFacts DEF ProcState, GoodHandler, RowStatus
<1>2. CASE h \in Api
  BY <1>2, IdleType, BecomeOK DEF Return
<1>3. CASE h \notin Api
  <2>1. Become(h, next) BY <1>3 DEF Return
  <2> QED BY <1>1, <2>1, BecomeOK
<1> QED BY <1>2, <1>3

\* A handler that is done keeps all handlers good.
LEMMA DoneOK ==
    ASSUME TypeInv, RowsStay, NEW h, Become(h, Idle)
    PROVE  proc' \in [Procs -> ProcState] /\ HandlersOK'
BY IdleType, BecomeOK

\* The invariant after a step, in four parts.
LEMMA TypeParts2 ==
    ASSUME RowsOK', RestOK', proc' \in [Procs -> ProcState], HandlersOK'
    PROVE  TypeInv'
BY DEF TypeInv, TypeOK, RowsOK, RestOK

-----------------------------------------------------------------------------
(* Type correctness: one step per action.                                  *)

\* The initial state is well typed.
LEMMA TypeInit == Init => TypeInv
<1> SUFFICES ASSUME Init PROVE TypeInv OBVIOUS
<1>1. RowsOK BY PaymentAssumption DEF Init, RowsOK, OrderStatus, RowStatus, ExceptionStatus
<1>2. RestOK BY PaymentAssumption DEF Init, RestOK, TradeStatus
<1>3. proc \in [Procs -> ProcState] /\ HandlersOK
  BY IdleType DEF Init, HandlersOK
<1> QED BY <1>1, <1>2, <1>3, TypeParts DEF TypeInv

\* The API's handlers of createPayment and of the Alipay webhook.
LEMMA ApiStepType ==
    ASSUME TypeInv, NEW h \in Procs, ApiStep(h)
    PROVE  TypeInv'
<1> DEFINE pay == proc[h].pay
<1>1. /\ proc[h] \in ProcState
      /\ GoodHandler(proc[h])
  BY HandlerFacts
<1>2. pay \in Payments /\ payStatus[pay] # "NONE"
  BY <1>1 DEF GoodHandler, ApiStep, DispatchCreate, ObserveCreate, ObservationThrows,
              SettleNotice, SettlementThrows, AcknowledgeNotice
<1>3. CASE DispatchCreate(h)
  <2>1. RowsOK' /\ RowsStay BY <1>3, SameRowsType DEF DispatchCreate
  <2>2. trade' \in [Payments -> TradeStatus] /\ inTransit' \subseteq Payments
    BY <1>2, <1>3, TypeParts DEF DispatchCreate, TypeInv, RestOK, TradeStatus
  <2>3. RestOK' BY <1>3, <2>2, TypeParts DEF DispatchCreate, TypeInv, RestOK
  <2>4. PICK res \in {"PROCESSING", "FAILED", "UNKNOWN"} :
            Become(h, [proc[h] EXCEPT !.pc = "observe", !.res = res])
    BY <1>3 DEF DispatchCreate
  <2> DEFINE state == [proc[h] EXCEPT !.pc = "observe", !.res = res]
  <2>5. state \in ProcState /\ GoodHandler(state)
    BY <1>1, <1>2 DEF ProcState, GoodHandler, RowStatus, PaymentStatus
  <2> QED BY <2>1, <2>3, <2>4, <2>5, BecomeOK, TypeParts2
<1>4. CASE ObserveCreate(h)
  <2>1. proc[h].res \in PaymentStatus
    BY <1>1, <1>4 DEF ObserveCreate, GoodHandler, PaymentStatus
  <2>2. RowsOK' /\ RowsStay BY <1>2, <1>4, <2>1, ObserveType DEF ObserveCreate
  <2>3. RestOK' BY <1>4, SameRestType DEF ObserveCreate
  <2> QED BY <1>4, <2>2, <2>3, DoneOK, TypeParts2 DEF ObserveCreate
<1>5. CASE ObservationThrows(h)
  <2> DEFINE state == [proc[h] EXCEPT !.res = "FAILED"]
  <2>1. RowsOK' /\ RowsStay /\ RestOK'
    BY <1>5, SameRowsType, SameRestType DEF ObservationThrows
  <2>2. state \in ProcState /\ GoodHandler(state)
    BY <1>1, <1>2, <1>5 DEF ObservationThrows, ProcState, GoodHandler, RowStatus, PaymentStatus
  <2> QED BY <1>5, <2>1, <2>2, BecomeOK, TypeParts2 DEF ObservationThrows
<1>6. CASE SettleNotice(h)
  <2> DEFINE state == [proc[h] EXCEPT !.pc = "acknowledge"]
  <2>1. RowsOK' /\ RowsStay BY <1>2, <1>6, MarkType DEF SettleNotice
  <2>2. RestOK' BY <1>6, SameRestType DEF SettleNotice
  <2>3. state \in ProcState /\ GoodHandler(state)
    BY <1>1, <1>2 DEF ProcState, GoodHandler
  <2> QED BY <1>6, <2>1, <2>2, <2>3, BecomeOK, TypeParts2 DEF SettleNotice
<1>7. CASE SettlementThrows(h)
  BY <1>7, SameRowsType, SameRestType, DoneOK, TypeParts2 DEF SettlementThrows
<1>8. CASE AcknowledgeNotice(h)
  <2>1. RowsOK' /\ RowsStay BY <1>8, SameRowsType DEF AcknowledgeNotice
  <2>2. RestOK' BY <1>2, <1>8, TypeParts DEF AcknowledgeNotice, TypeInv, RestOK
  <2> QED BY <1>8, <2>1, <2>2, DoneOK, TypeParts2 DEF AcknowledgeNotice
<1> QED BY <1>3, <1>4, <1>5, <1>6, <1>7, <1>8 DEF ApiStep

\* queryPayment's first step leaves a good handler.
LEMMA QueryReadOK ==
    ASSUME TypeInv, RowsStay, NEW h \in Procs, NEW pay \in Payments, QueryRead(h, pay)
    PROVE  proc' \in [Procs -> ProcState] /\ HandlersOK'
<1>1. proc[h] \in ProcState /\ payStatus[pay] # "NONE" /\ payStatus[pay] \in PaymentStatus
  BY HandlerFacts DEF QueryRead, TypeInv, TypeOK, RowStatus
<1>2. PICK rearm \in BOOLEAN :
          Become(h, [proc[h] EXCEPT !.pc = "query", !.pay = pay, !.res = "NONE",
                                    !.seen = payStatus[pay], !.rearm = rearm])
  BY DEF QueryRead
<1> DEFINE state == [proc[h] EXCEPT !.pc = "query", !.pay = pay, !.res = "NONE",
                                    !.seen = payStatus[pay], !.rearm = rearm]
<1>3. state \in ProcState BY <1>1 DEF ProcState, RowStatus
<1>4. state.pc = "query" /\ state.pay = pay /\ state.seen = payStatus[pay] BY <1>1 DEF ProcState
<1>5. Become(h, state) BY <1>2
<1> HIDE DEF state
<1>6. GoodHandler(state) BY <1>1, <1>4 DEF GoodHandler
<1> QED BY <1>3, <1>5, <1>6, BecomeOK

\* closePayment's first step leaves a good handler.
LEMMA CloseReadOK ==
    ASSUME TypeInv, RowsStay, NEW h \in Procs, NEW pay \in Payments, CloseRead(h, pay)
    PROVE  proc' \in [Procs -> ProcState] /\ HandlersOK'
<1>1. proc[h] \in ProcState /\ payStatus[pay] # "NONE" /\ payStatus[pay] \in RowStatus
  BY HandlerFacts DEF CloseRead, TypeInv, TypeOK
<1>2. CASE payStatus[pay] \in {"SUCCESS", "CLOSED"}
  BY <1>1, <1>2, ReturnOK DEF CloseRead
<1>3. CASE payStatus[pay] \notin {"SUCCESS", "CLOSED"} /\ payStatus[pay] \notin ActivePayment
  BY <1>1, <1>3, ReturnOK DEF CloseRead
<1>4. CASE payStatus[pay] \notin {"SUCCESS", "CLOSED"} /\ payStatus[pay] \in ActivePayment
  <2> DEFINE state == [proc[h] EXCEPT !.pc = "close", !.pay = pay, !.res = "NONE"]
  <2>1. Become(h, state) BY <1>4 DEF CloseRead
  <2>2. state \in ProcState /\ GoodHandler(state)
    BY <1>1 DEF ProcState, GoodHandler, RowStatus
  <2> QED BY <2>1, <2>2, BecomeOK
<1> QED BY <1>2, <1>3, <1>4

\* The steps of queryPayment and closePayment.
LEMMA CallStepType ==
    ASSUME TypeInv, NEW h \in Procs, CallStep(h)
    PROVE  TypeInv'
<1> DEFINE pay == proc[h].pay
<1>1. /\ proc[h] \in ProcState
      /\ GoodHandler(proc[h])
  BY HandlerFacts
<1>2. pay \in Payments /\ payStatus[pay] # "NONE" /\ payStatus[pay] \in PaymentStatus
  BY <1>1 DEF GoodHandler, CallStep, ChannelQuery, QueryThrows, ApplyQuery, ChannelClose,
              CloseThrows, ConfirmClose, TypeInv, TypeOK, RowStatus
<1>3. CASE ChannelQuery(h)
  <2> DEFINE answer == QueryAnswer(pay)
             state == [proc[h] EXCEPT !.pc = "apply", !.res = answer]
  <2>1. RowsOK' /\ RowsStay /\ RestOK'
    BY <1>3, SameRowsType, SameRestType DEF ChannelQuery
  <2>2. answer \in PaymentStatus BY DEF QueryAnswer, PaymentStatus
  <2>3. proc[h].seen \in PaymentStatus
    BY <1>1, <1>3 DEF ChannelQuery, GoodHandler
  <2>4. state \in ProcState /\ GoodHandler(state)
    BY <1>1, <1>2, <2>2, <2>3 DEF ProcState, GoodHandler, RowStatus
  <2> QED BY <1>3, <2>1, <2>4, BecomeOK, TypeParts2 DEF ChannelQuery
<1>4. CASE QueryThrows(h)
  BY <1>2, <1>4, SameRowsType, SameRestType, ReturnOK, TypeParts2 DEF QueryThrows
<1>5. CASE ApplyQuery(h)
  <2>1. proc[h].res \in PaymentStatus /\ proc[h].seen \in PaymentStatus
    BY <1>1, <1>5 DEF ApplyQuery, GoodHandler
  <2>2. RestOK' BY <1>5, SameRestType DEF ApplyQuery
  <2>3. \E result \in RowStatus : Return(h, "afterQuery", pay, result)
    BY <1>2, <1>5, <2>1 DEF ApplyQuery, RowStatus, PaymentStatus
  <2>4. RowsOK' /\ RowsStay
    <3>1. CASE markPaymentSucceeded(pay) BY <1>2, <3>1, MarkType
    <3>2. CASE updatePaymentObservation(pay, proc[h].res) /\ UNCHANGED <<orderVars, exception>>
      BY <1>2, <2>1, <3>2, ObserveType
    <3>3. CASE /\ nextQueryAt' = [nextQueryAt EXCEPT ![pay] = @ \/ proc[h].rearm]
               /\ UNCHANGED <<orderVars, payStatus, exception>>
      BY <1>1, <1>2, <3>3, TypeParts DEF TypeInv, RowsOK, RowsStay, orderVars, ProcState
    <3> QED BY <1>5, <3>1, <3>2, <3>3 DEF ApplyQuery
  <2> QED BY <1>2, <2>2, <2>3, <2>4, ReturnOK, TypeParts2
<1>6. CASE ChannelClose(h)
  <2> DEFINE state == [proc[h] EXCEPT !.pc = "confirm"]
  <2>1. RowsOK' /\ RowsStay BY <1>6, SameRowsType DEF ChannelClose
  <2>2. RestOK' BY <1>2, <1>6, TypeParts DEF ChannelClose, TypeInv, RestOK, TradeStatus
  <2>3. state \in ProcState /\ GoodHandler(state)
    BY <1>1, <1>2 DEF ProcState, GoodHandler
  <2> QED BY <1>6, <2>1, <2>2, <2>3, BecomeOK, TypeParts2 DEF ChannelClose
<1>7. CASE CloseThrows(h)
  <2>1. RowsOK' /\ RowsStay BY <1>7, SameRowsType DEF CloseThrows
  <2>2. RestOK' BY <1>2, <1>7, TypeParts DEF CloseThrows, TypeInv, RestOK, TradeStatus
  <2> QED BY <1>2, <1>7, <2>1, <2>2, ReturnOK, TypeParts2 DEF CloseThrows
<1>8. CASE ConfirmClose(h)
  <2>1. RowsOK' /\ RowsStay
    BY <1>2, <1>8, TypeParts DEF ConfirmClose, TypeInv, RowsOK, RowsStay, orderVars,
                                 paymentVars, RowStatus, PaymentStatus
  <2>2. RestOK' BY <1>8, SameRestType DEF ConfirmClose
  <2>3. \E result \in RowStatus \cup {"error"} : Return(h, "afterClose", pay, result)
    BY <1>2, <1>8 DEF ConfirmClose, RowStatus, PaymentStatus
  <2> QED BY <1>2, <2>1, <2>2, <2>3, ReturnOK, TypeParts2
<1> QED BY <1>3, <1>4, <1>5, <1>6, <1>7, <1>8 DEF CallStep

\* Steps that write nothing but the schedule of an order and one handler.
LEMMA ScheduleType ==
    ASSUME TypeInv, UNCHANGED <<winningPaymentId, delivery, notExpiration>>,
           orderStatus' \in [Orders -> OrderStatus],
           expirationNext' \in [Orders -> {"none", "later", "due"}],
           expirationLocked' \in [Orders -> BOOLEAN]
    PROVE  RowsOK' /\ RowsStay /\ RestOK'
BY TypeParts DEF TypeInv, RowsOK, RowsStay, RestOK, notExpiration, paymentVars, channelVars

\* The steps of runDueOrderExpirations and expireOrder.
LEMMA ExpirerStepType ==
    ASSUME TypeInv, NEW h \in Procs, ExpirerStep(h)
    PROVE  TypeInv'
<1>1. /\ proc[h] \in ProcState
      /\ GoodHandler(proc[h])
  BY HandlerFacts
<1>2. RowsOK BY TypeParts DEF TypeInv
<1>3. RowsOK' /\ RowsStay /\ RestOK'
  <2>1. CASE UNCHANGED <<orderVars, notExpiration>>
    BY <1>2, <2>1, ScheduleType DEF orderVars, RowsOK
  <2>2. CASE releaseExpiration(h)
    BY <1>2, <2>2, ScheduleType DEF releaseExpiration, orderCore, RowsOK, Unscheduled, Unlocked
  <2>3. CASE CloseOrder(h)
    BY <1>2, <2>3, ScheduleType DEF CloseOrder, RowsOK, Unscheduled, Unlocked, OrderStatus
  <2>4. CASE ExpireFailWrite(h)
    BY <1>2, <2>4, ScheduleType DEF ExpireFailWrite, orderCore, RowsOK, Unlocked
  <2> QED BY <2>1, <2>2, <2>3, <2>4
          DEF ExpirerStep, LoadOrder, LoadPayments, VisitPayment, AfterQuery, AfterClose,
              ExpireFailRead
<1>4. ASSUME NEW state \in ProcState, GoodHandler(state), Become(h, state)
      PROVE  proc' \in [Procs -> ProcState] /\ HandlersOK'
  BY <1>3, <1>4, BecomeOK
<1>5. proc' \in [Procs -> ProcState] /\ HandlersOK'
  <2>1. CASE LoadOrder(h)
    BY <1>1, <1>4, <2>1, IdleType DEF LoadOrder, ProcState, GoodHandler
  <2>2. CASE LoadPayments(h)
    BY <1>1, <1>4, <2>2 DEF LoadPayments, ProcState, GoodHandler
  <2>3. CASE VisitPayment(h)
    <3>1. PICK pay \in proc[h].todo :
              IF pay \in proc[h].paidSeen
              THEN Become(h, [proc[h] EXCEPT !.pc = "expireFail"])
              ELSE IF Alipay(pay) THEN QueryRead(h, pay) ELSE CloseRead(h, pay)
      BY <2>3 DEF VisitPayment
    <3>2. pay \in Payments BY <1>1 DEF ProcState
    <3>3. CASE Become(h, [proc[h] EXCEPT !.pc = "expireFail"])
      BY <1>1, <1>4, <3>3 DEF ProcState, GoodHandler
    <3> QED BY <1>3, <3>1, <3>2, <3>3, QueryReadOK, CloseReadOK
  <2>4. CASE AfterQuery(h)
    <3>1. proc[h].pay \in Payments BY <1>1, <2>4 DEF AfterQuery, GoodHandler
    <3>2. CASE Become(h, [proc[h] EXCEPT !.pc = "release"])
      BY <1>1, <1>4, <3>2 DEF ProcState, GoodHandler
    <3>3. CASE Become(h, [proc[h] EXCEPT !.pc = "expireFail"])
      BY <1>1, <1>4, <3>3 DEF ProcState, GoodHandler
    <3> QED BY <1>3, <2>4, <3>1, <3>2, <3>3, CloseReadOK DEF AfterQuery
  <2>5. CASE AfterClose(h)
    <3>1. CASE Become(h, [proc[h] EXCEPT !.pc = "release"])
      BY <1>1, <1>4, <3>1 DEF ProcState, GoodHandler
    <3>2. CASE Become(h, [proc[h] EXCEPT !.pc = "expireFail"])
      BY <1>1, <1>4, <3>2 DEF ProcState, GoodHandler
    <3> DEFINE state == [proc[h] EXCEPT !.pc = "loop", !.todo = @ \ {proc[h].pay},
                                        !.pay = None, !.res = "NONE"]
    <3>3. state \in ProcState /\ GoodHandler(state)
      BY <1>1 DEF ProcState, GoodHandler, RowStatus
    <3> QED BY <1>4, <2>5, <3>1, <3>2, <3>3 DEF AfterClose
  <2>6. CASE CloseOrder(h)
    <3>1. CASE Become(h, [proc[h] EXCEPT !.pc = "expireFail"])
      BY <1>1, <1>4, <3>1 DEF ProcState, GoodHandler
    <3> QED BY <1>4, <2>6, <3>1, IdleType DEF CloseOrder
  <2>7. CASE ExpireFailRead(h)
    <3> DEFINE state == [Idle EXCEPT !.pc = "expireFailWrite", !.order = proc[h].order]
    <3>1. state \in ProcState /\ GoodHandler(state)
      BY <1>1 DEF Idle, ProcState, GoodHandler, RowStatus
    <3> QED BY <1>4, <2>7, <3>1, IdleType DEF ExpireFailRead
  <2>8. CASE releaseExpiration(h) BY <1>4, <2>8, IdleType DEF releaseExpiration
  <2>9. CASE ExpireFailWrite(h) BY <1>4, <2>9, IdleType DEF ExpireFailWrite
  <2> QED BY <2>1, <2>2, <2>3, <2>4, <2>5, <2>6, <2>7, <2>8, <2>9 DEF ExpirerStep
<1> QED BY <1>3, <1>5, TypeParts2

\* The steps of runDuePaymentRecoveries.
LEMMA RecovererStepType ==
    ASSUME TypeInv, NEW h \in Procs, RecovererStep(h)
    PROVE  TypeInv'
<1> DEFINE pay == proc[h].pay
           at(pc) == [Idle EXCEPT !.pc = pc, !.pay = pay, !.final = proc[h].final]
<1>1. /\ proc[h] \in ProcState
      /\ GoodHandler(proc[h])
  BY HandlerFacts
<1>2. pay \in Payments /\ payStatus[pay] # "NONE"
  BY <1>1 DEF GoodHandler, RecovererStep, RecoverQuery, AfterRecovery, RecoverRead, RecoverWrite
<1>3. RowsOK' /\ RowsStay /\ RestOK'
  <2>1. nextQueryAt' \in [Payments -> BOOLEAN]
    BY <1>1, TypeParts DEF RecovererStep, RecoverQuery, AfterRecovery, RecoverRead,
                           RecoverWrite, TypeInv, RowsOK, ProcState
  <2>2. UNCHANGED <<notRecovery, queryAttempts>>
    BY DEF RecovererStep, RecoverQuery, AfterRecovery, RecoverRead, RecoverWrite
  <2> QED BY <2>1, <2>2, TypeParts DEF notRecovery, orderVars, channelVars, TypeInv, RowsOK,
                                       RowsStay, RestOK
<1>4. CASE RecoverQuery(h)
  BY <1>2, <1>3, <1>4, QueryReadOK, TypeParts2 DEF RecoverQuery
<1>5. CASE AfterRecovery(h)
  <2>1. ASSUME NEW pc \in {"recoverFail", "exhaust"}
        PROVE  at(pc) \in ProcState /\ GoodHandler(at(pc))
    BY <1>1, <1>2 DEF Idle, ProcState, GoodHandler, RowStatus
  <2>2. \/ Become(h, at("recoverFail")) \/ Become(h, at("exhaust")) \/ Become(h, Idle)
    BY <1>5 DEF AfterRecovery
  <2> QED BY <1>3, <2>1, <2>2, BecomeOK, DoneOK, TypeParts2
<1>6. CASE RecoverRead(h)
  <2> DEFINE state == [proc[h] EXCEPT !.pc = "recoverWrite"]
  <2>1. state \in ProcState /\ GoodHandler(state)
    BY <1>1, <1>2 DEF ProcState, GoodHandler
  <2>2. Become(h, state) \/ Become(h, Idle) BY <1>6 DEF RecoverRead
  <2> QED BY <1>3, <2>1, <2>2, BecomeOK, DoneOK, TypeParts2
<1>7. CASE RecoverWrite(h) BY <1>3, <1>7, DoneOK, TypeParts2 DEF RecoverWrite
<1> QED BY <1>4, <1>5, <1>6, <1>7 DEF RecovererStep

\* A notice moves its handler on, unless it was processed before.
LEMMA NoticeMoves ==
    ASSUME proc \in [Procs -> ProcState], NEW h \in Procs, NEW pay, NEW status,
           ReceiveNotice(h, pay, status)
    PROVE  /\ ~proc[h].final /\ ~proc'[h].final
           /\ UNCHANGED trade /\ <<pay, status>> \in notices
           /\ proc'[h] # proc[h] =>
                  /\ proc'[h].pc = IF status = "SUCCESS" THEN "settle" ELSE "acknowledge"
                  /\ proc'[h].pay = pay /\ proc'[h].res = status
<1>1. PICK pc : pc = IF status = "SUCCESS" THEN "settle" ELSE "acknowledge" OBVIOUS
<1>2. \/ UNCHANGED proc
      \/ proc' = [proc EXCEPT ![h] = [Idle EXCEPT !.pay = pay, !.res = status, !.pc = pc]]
  BY <1>1 DEF ReceiveNotice, Become
<1>3. /\ proc[h] = Idle /\ UNCHANGED trade /\ <<pay, status>> \in notices
  BY DEF ReceiveNotice
<1>4. CASE UNCHANGED proc BY <1>3, <1>4 DEF Idle
<1>5. CASE proc' = [proc EXCEPT ![h] = [Idle EXCEPT !.pay = pay, !.res = status, !.pc = pc]]
  BY <1>1, <1>3, <1>5 DEF Idle
<1> QED BY <1>2, <1>4, <1>5

\* The requests the API starts.
LEMMA RequestType ==
    ASSUME TypeInv, NEW h \in Procs, NEW pay \in Payments, Request(h, pay)
    PROVE  TypeInv'
<1> DEFINE at == [Idle EXCEPT !.pc = "dispatch", !.pay = pay]
<1>1. at \in ProcState
  BY DEF Idle, ProcState, RowStatus
<1>2. CASE CreatePayment(h, pay)
  <2>1. RowsOK' /\ RowsStay
    BY <1>2, PaymentAssumption, TypeParts
       DEF CreatePayment, TypeInv, RowsOK, RowsStay, Alipay, OrderStatus, RowStatus, PaymentStatus
  <2>2. RestOK' BY <1>2, SameRestType DEF CreatePayment
  <2>3. payStatus'[pay] = "PROCESSING" BY <1>2, TypeParts DEF CreatePayment, TypeInv, RowsOK
  <2>4. proc' \in [Procs -> ProcState]
    BY <1>1, <1>2, TypeParts DEF CreatePayment, Become, TypeInv
  <2>5. ASSUME NEW g \in Procs PROVE GoodHandler(proc[g])'
    <3>1. CASE g = h
      BY <1>2, <2>3, <3>1, TypeParts DEF CreatePayment, Become, TypeInv, GoodHandler, Idle
    <3>2. CASE g # h
      BY <1>2, <2>1, <3>2, TypeParts DEF CreatePayment, Become, TypeInv, HandlersOK,
                                         GoodHandler, RowsStay
    <3> QED BY <3>1, <3>2
  <2> QED BY <2>1, <2>2, <2>4, <2>5, TypeParts2 DEF HandlersOK
<1>3. CASE StartQuery(h, pay)
  BY <1>3, SameRowsType, SameRestType, QueryReadOK, TypeParts2 DEF StartQuery
<1>4. CASE StartClose(h, pay)
  BY <1>4, SameRowsType, SameRestType, CloseReadOK, TypeParts2 DEF StartClose
<1>5. CASE AnyNotice(h, pay)
  <2>1. RowsOK' /\ RowsStay BY <1>5, SameRowsType DEF AnyNotice, ReceiveNotice
  <2>2. RestOK' BY <1>5, TypeParts DEF AnyNotice, ReceiveNotice, TypeInv, RestOK, newCallback
  <2>3. PICK status \in NoticeStatus : ReceiveNotice(h, pay, status) BY <1>5 DEF AnyNotice
  <2> DEFINE told(pc) == [Idle EXCEPT !.pay = pay, !.res = status, !.pc = pc]
             pc == IF status = "SUCCESS" THEN "settle" ELSE "acknowledge"
  <2>4. told(pc) \in ProcState
    BY PaymentAssumption DEF Idle, ProcState, RowStatus, PaymentStatus, NoticeStatus
  <2>5. GoodHandler(told(pc)) BY <2>3 DEF ReceiveNotice, GoodHandler, Idle
  <2>6. UNCHANGED proc \/ Become(h, told(pc)) BY <2>3 DEF ReceiveNotice
  <2> QED BY <2>1, <2>2, <2>4, <2>5, <2>6, StayOK, BecomeOK, TypeParts2
<1> QED BY <1>2, <1>3, <1>4, <1>5 DEF Request

\* The claims of the worker's two loops, and lost handlers.
LEMMA ClaimType ==
    ASSUME TypeInv, NEW h \in Procs,
           \/ Crash(h)
           \/ \E pay \in Payments : ClaimRecovery(h, pay)
           \/ \E o \in Orders : ClaimExpiration(h, o)
    PROVE  TypeInv'
<1>1. CASE Crash(h)
  <2>1. RowsOK' /\ RowsStay BY <1>1, SameRowsType DEF Crash
  <2>2. RestOK' BY <1>1, PaymentAssumption, TypeParts DEF Crash, TypeInv, RestOK, channelVars
  <2> QED BY <1>1, <2>1, <2>2, DoneOK, TypeParts2 DEF Crash
<1>2. ASSUME NEW pay \in Payments, ClaimRecovery(h, pay) PROVE TypeInv'
  <2>1. RowsOK' /\ RowsStay
    BY <1>2, SameRowsType DEF ClaimRecovery, notRecovery, paymentVars
  <2> DEFINE final == queryAttempts[pay] + 1 >= RECOVERY_MAX_ATTEMPTS
             state == [Idle EXCEPT !.pc = "recover", !.pay = pay, !.final = final]
  <2>2. /\ queryAttempts \in [Payments -> 0 .. RECOVERY_MAX_ATTEMPTS]
        /\ RECOVERY_MAX_ATTEMPTS \in Nat
    BY PaymentAssumption DEF TypeInv, TypeOK
  <2>3. queryAttempts[pay] + 1 \in 0 .. RECOVERY_MAX_ATTEMPTS /\ final \in BOOLEAN
    <3>1. queryAttempts[pay] < RECOVERY_MAX_ATTEMPTS BY <1>2 DEF ClaimRecovery, RecoveryDue
    <3>2. queryAttempts[pay] \in Nat BY <2>2
    <3>3. queryAttempts[pay] + 1 \in 0 .. RECOVERY_MAX_ATTEMPTS BY <2>2, <3>1, <3>2
    <3>4. final \in BOOLEAN BY <2>2, <3>2
    <3> QED BY <3>3, <3>4
  <2>4. queryAttempts' \in [Payments -> 0 .. RECOVERY_MAX_ATTEMPTS]
    BY <1>2, <2>2, <2>3 DEF ClaimRecovery
  <2>5. RestOK'
    BY <1>2, <2>4, TypeParts DEF ClaimRecovery, notRecovery, TypeInv, RestOK, channelVars
  <2>6. Become(h, state) BY <1>2 DEF ClaimRecovery
  <2>7. payStatus[pay] # "NONE" BY <1>2 DEF ClaimRecovery, RecoveryDue, Recoverable
  <2>8. state \in ProcState /\ GoodHandler(state)
    BY <2>3, <2>7 DEF Idle, ProcState, GoodHandler, RowStatus
  <2> QED BY <2>1, <2>5, <2>6, <2>8, BecomeOK, TypeParts2
<1>3. ASSUME NEW o \in Orders, ClaimExpiration(h, o) PROVE TypeInv'
  <2>1. RowsOK' /\ RowsStay /\ RestOK'
    BY <1>3, ScheduleType, TypeParts DEF ClaimExpiration, orderCore, TypeInv, RowsOK
  <2> DEFINE state == [Idle EXCEPT !.pc = "loadOrder", !.order = o]
  <2>2. state \in ProcState /\ GoodHandler(state)
    BY DEF Idle, ProcState, GoodHandler, RowStatus
  <2> QED BY <1>3, <2>1, <2>2, BecomeOK, TypeParts2 DEF ClaimExpiration
<1> QED BY <1>1, <1>2, <1>3

\* The steps of the channel, its buyers, the administrators and the clocks.
LEMMA EnvironmentType ==
    ASSUME TypeInv,
           \/ \E pay \in Payments :
                  \/ Credit(pay) \/ UpdatePaymentException(pay)
                  \/ LateCreate(pay) \/ Buyer(pay) \/ Inform(pay) \/ GiveUp(pay)
           \/ \E o \in Orders :
                  \/ RefundWinner(o) \/ PassDeadline(o) \/ BackoffElapses(o)
                  \/ LeaseElapses(o)
    PROVE  TypeInv'
<1>1. UNCHANGED proc
  BY DEF Credit, UpdatePaymentException, LateCreate, Buyer, Inform, GiveUp, RefundWinner,
         PassDeadline, BackoffElapses, LeaseElapses
<1>2. RowsOK /\ RestOK BY TypeParts DEF TypeInv
<1>3. SUFFICES RowsOK' /\ RowsStay /\ RestOK' BY <1>1, StayOK, TypeParts2
<1>4. ASSUME NEW pay \in Payments, Credit(pay) PROVE RowsOK' /\ RowsStay /\ RestOK'
  BY <1>4, MarkType, SameRestType DEF Credit
<1>5. ASSUME NEW pay \in Payments, UpdatePaymentException(pay)
      PROVE  RowsOK' /\ RowsStay /\ RestOK'
  BY <1>2, <1>5, SameRestType
     DEF UpdatePaymentException, RowsOK, RowsStay, orderVars, ExceptionStatus
<1>6. ASSUME NEW pay \in Payments, LateCreate(pay) \/ Buyer(pay) \/ Inform(pay) \/ GiveUp(pay)
      PROVE  RowsOK' /\ RowsStay /\ RestOK'
  <2>1. RowsOK' /\ RowsStay BY <1>6, SameRowsType DEF LateCreate, Buyer, Inform, GiveUp
  <2>2. trade' \in [Payments -> TradeStatus]
    BY <1>2, <1>6 DEF LateCreate, Buyer, Inform, GiveUp, RestOK, TradeStatus
  <2>3. notices' \subseteq Payments \X NoticeStatus
    <3>1. notices \subseteq Payments \X NoticeStatus BY <1>2 DEF RestOK
    <3>2. CASE LateCreate(pay) BY <3>1, <3>2 DEF LateCreate
    <3>3. CASE Buyer(pay)
      <4>1. <<pay, "SUCCESS">> \in Payments \X NoticeStatus BY DEF NoticeStatus
      <4> QED BY <3>1, <3>3, <4>1 DEF Buyer
    <3>4. CASE Inform(pay)
      <4>1. <<pay, QueryAnswer(pay)>> \in Payments \X NoticeStatus
        BY <3>4 DEF Inform, NoticeStatus
      <4> QED BY <3>1, <3>4, <4>1 DEF Inform
    <3>5. CASE GiveUp(pay) BY <3>1, <3>5 DEF GiveUp
    <3> QED BY <1>6, <3>2, <3>3, <3>4, <3>5
  <2> QED BY <1>2, <1>6, <2>1, <2>2, <2>3 DEF LateCreate, Buyer, Inform, GiveUp, RestOK
<1>7. ASSUME NEW o \in Orders, RefundWinner(o) PROVE RowsOK' /\ RowsStay /\ RestOK'
  <2>1. orderStatus' \in [Orders -> OrderStatus]
    BY <1>2, <1>7 DEF RefundWinner, RowsOK, OrderStatus
  <2> QED BY <1>2, <1>7, <2>1, SameRestType
          DEF RefundWinner, RowsOK, RowsStay, paymentVars
<1>8. ASSUME NEW o \in Orders, PassDeadline(o) PROVE RowsOK' /\ RowsStay /\ RestOK'
  <2>1. RowsOK' /\ RowsStay BY <1>8, SameRowsType DEF PassDeadline
  <2>2. expired' \in [Orders -> SUBSET {"api", "worker"}]
    BY <1>2, <1>8 DEF PassDeadline, RestOK
  <2> QED BY <1>2, <1>8, <2>1, <2>2 DEF PassDeadline, RestOK, channelVars
<1>9. ASSUME NEW o \in Orders, BackoffElapses(o) \/ LeaseElapses(o)
      PROVE  RowsOK' /\ RowsStay /\ RestOK'
  BY <1>2, <1>9, ScheduleType DEF BackoffElapses, LeaseElapses, Unlocked, orderCore, RowsOK
<1> QED BY <1>4, <1>5, <1>6, <1>7, <1>8, <1>9

\* Every step keeps the state well typed.
LEMMA TypeStep == TypeInv /\ [Next]_vars => TypeInv'
<1> SUFFICES ASSUME TypeInv, [Next]_vars PROVE TypeInv' OBVIOUS
<1>1. CASE UNCHANGED vars
  BY <1>1, SameRowsType, SameRestType, StayOK, TypeParts2 DEF vars
<1>2. CASE Next
  BY <1>2, ApiStepType, CallStepType, ExpirerStepType, RecovererStepType, RequestType,
     ClaimType, EnvironmentType DEF Next
<1> QED BY <1>1, <1>2

\* Every variable keeps its type, in particular the attempts of recovery stay
\* within RECOVERY_MAX_ATTEMPTS, and every handler works on an existing row.
THEOREM TypeCorrect == Spec => []TypeOK
<1>1. Spec => []TypeInv BY TypeInit, TypeStep, PTL DEF Spec
<1>2. TypeInv => TypeOK BY DEF TypeInv
<1> QED BY <1>1, <1>2, PTL

-----------------------------------------------------------------------------
(***************************************************************************)
(* What a success of a payment does: the money is accounted for once, the  *)
(* winner is final, and the system implements Settlement.                  *)
(*                                                                         *)
(* Every step either is a markPaymentSucceeded or leaves alone all that    *)
(* Settlement shows (Quiet); the theorems follow from the two cases.       *)
(***************************************************************************)

Paid(o) == orderStatus[o] \in PaidOrder
Disputed(p) == exception[p] # "NONE"

\* The step settles no payment, opens no dispute and pays no order.
Quiet ==
    /\ \A p \in Payments : /\ Settled(p)' <=> Settled(p)
                           /\ Disputed(p)' <=> Disputed(p)
    /\ \A o \in Orders : Paid(o)' <=> Paid(o)
    /\ UNCHANGED <<winningPaymentId, delivery>>

\* The inductive invariant of the settlement.
Accounting == PaidMeansWinner /\ MoneyAccountedOnce /\ OutboxTellsWinner

\* A step that writes no row of payments, orders or exceptions is quiet.
LEMMA SameRowsQuiet ==
    ASSUME UNCHANGED <<orderStatus, winningPaymentId, delivery, payStatus, exception>>
    PROVE  Quiet
BY DEF Quiet, Settled, Disputed, Paid

\* A payment that becomes or stays unsuccessful is a quiet step.
LEMMA OpenStatusQuiet ==
    ASSUME TypeInv, NEW pay \in Payments, NEW status,
           payStatus[pay] # "SUCCESS", status # "SUCCESS",
           payStatus' = [payStatus EXCEPT ![pay] = status],
           UNCHANGED <<orderStatus, winningPaymentId, delivery, exception>>
    PROVE  Quiet
BY DEF Quiet, Settled, Disputed, Paid, TypeInv, TypeOK

\* An observation other than a success is a quiet step.
LEMMA ObserveQuiet ==
    ASSUME TypeInv, NEW pay \in Payments, NEW status, status # "SUCCESS",
           updatePaymentObservation(pay, status), UNCHANGED <<orderVars, exception>>
    PROVE  Quiet
<1>1. CASE Accepts(pay, status)
  BY <1>1, OpenStatusQuiet DEF updatePaymentObservation, Accepts, orderVars
<1>2. CASE ~Accepts(pay, status)
  BY <1>2, SameRowsQuiet DEF updatePaymentObservation, orderVars
<1> QED BY <1>1, <1>2

\* The API's handlers settle a payment or are quiet.
LEMMA ApiStepKinds ==
    ASSUME TypeInv, NEW h \in Procs, ApiStep(h)
    PROVE  Quiet \/ \E pay \in Payments : markPaymentSucceeded(pay)
<1>1. GoodHandler(proc[h]) BY HandlerFacts
<1>2. CASE ObserveCreate(h)
  BY <1>1, <1>2, ObserveQuiet DEF ObserveCreate, GoodHandler
<1>3. CASE SettleNotice(h)
  BY <1>1, <1>3 DEF SettleNotice, GoodHandler
<1>4. CASE DispatchCreate(h) \/ ObservationThrows(h) \/ SettlementThrows(h) \/ AcknowledgeNotice(h)
  BY <1>4, SameRowsQuiet DEF DispatchCreate, ObservationThrows, SettlementThrows,
                             AcknowledgeNotice, orderVars, paymentVars
<1> QED BY <1>2, <1>3, <1>4 DEF ApiStep

\* queryPayment and closePayment settle a payment or are quiet.
LEMMA CallStepKinds ==
    ASSUME TypeInv, NEW h \in Procs, CallStep(h)
    PROVE  Quiet \/ \E pay \in Payments : markPaymentSucceeded(pay)
<1>1. GoodHandler(proc[h]) BY HandlerFacts
<1>2. CASE ApplyQuery(h)
  <2>1. proc[h].pay \in Payments BY <1>1, <1>2 DEF ApplyQuery, GoodHandler
  <2>2. CASE proc[h].res = "SUCCESS" BY <1>2, <2>1, <2>2 DEF ApplyQuery
  <2>3. CASE proc[h].res # "SUCCESS"
    <3>1. CASE updatePaymentObservation(proc[h].pay, proc[h].res)
               /\ UNCHANGED <<orderVars, exception>>
      BY <2>1, <2>3, <3>1, ObserveQuiet
    <3>2. CASE UNCHANGED <<orderVars, payStatus, exception>>
      BY <3>2, SameRowsQuiet DEF orderVars
    <3> QED BY <1>2, <2>3, <3>1, <3>2 DEF ApplyQuery
  <2> QED BY <2>2, <2>3
<1>3. CASE ConfirmClose(h)
  <2>1. proc[h].pay \in Payments BY <1>1, <1>3 DEF ConfirmClose, GoodHandler
  <2>2. CASE UNCHANGED paymentVars
    BY <1>3, <2>2, SameRowsQuiet DEF ConfirmClose, orderVars, paymentVars
  <2>3. CASE /\ payStatus[proc[h].pay] # "SUCCESS"
             /\ payStatus' = [payStatus EXCEPT ![proc[h].pay] = "CLOSED"]
             /\ UNCHANGED exception
    BY <1>3, <2>1, <2>3, OpenStatusQuiet DEF ConfirmClose, orderVars
  <2> QED BY <1>3, <2>2, <2>3 DEF ConfirmClose
<1>4. CASE ChannelQuery(h) \/ QueryThrows(h) \/ ChannelClose(h) \/ CloseThrows(h)
  BY <1>4, SameRowsQuiet DEF ChannelQuery, QueryThrows, ChannelClose, CloseThrows,
                             orderVars, paymentVars
<1> QED BY <1>2, <1>3, <1>4 DEF CallStep

\* The worker's loops settle nothing themselves: they close unpaid orders only.
LEMMA WorkerQuiet ==
    ASSUME TypeInv, NEW h \in Procs,
           \/ ExpirerStep(h) \/ RecovererStep(h) \/ Crash(h)
           \/ \E pay \in Payments : ClaimRecovery(h, pay)
           \/ \E o \in Orders : ClaimExpiration(h, o)
    PROVE  Quiet
<1>1. CASE CloseOrder(h)
  <2>1. \A o \in Orders : Paid(o)' <=> Paid(o)
    BY <1>1 DEF CloseOrder, Paid, PaidOrder, PayableOrder, TypeInv, TypeOK
  <2> QED BY <1>1, <2>1 DEF CloseOrder, Quiet, Settled, Disputed, notExpiration, paymentVars
<1>2. CASE UNCHANGED <<orderStatus, winningPaymentId, delivery, payStatus, exception>>
  BY <1>2, SameRowsQuiet
<1> QED BY <1>1, <1>2
        DEF ExpirerStep, RecovererStep, Crash, ClaimRecovery, ClaimExpiration, LoadOrder,
            LoadPayments, VisitPayment, AfterQuery, AfterClose, releaseExpiration,
            ExpireFailRead, ExpireFailWrite, RecoverQuery, AfterRecovery, RecoverRead,
            RecoverWrite, orderVars, paymentVars, orderCore, notExpiration, notRecovery

\* A request settles nothing: a payment is created for an unpaid order only.
LEMMA RequestQuiet ==
    ASSUME TypeInv, NEW h \in Procs, NEW pay \in Payments, Request(h, pay)
    PROVE  Quiet
<1>1. CASE CreatePayment(h, pay)
  <2>1. OrderOf[pay] \in Orders BY PaymentAssumption
  <2>2. \A o \in Orders : Paid(o)' <=> Paid(o)
    BY <1>1, <2>1 DEF CreatePayment, Payable, Paid, PaidOrder, PayableOrder, TypeInv, TypeOK
  <2>3. \A p \in Payments : Settled(p)' <=> Settled(p)
    BY <1>1 DEF CreatePayment, Settled, TypeInv, TypeOK
  <2> QED BY <1>1, <2>2, <2>3 DEF CreatePayment, Quiet, Disputed
<1>2. CASE StartQuery(h, pay) \/ StartClose(h, pay) \/ AnyNotice(h, pay)
  BY <1>2, SameRowsQuiet
     DEF StartQuery, StartClose, AnyNotice, ReceiveNotice, orderVars, paymentVars
<1> QED BY <1>1, <1>2 DEF Request

\* Every step is quiet or a success of one payment.
LEMMA StepKinds ==
    ASSUME TypeInv, PaidMeansWinner, [Next]_vars
    PROVE  Quiet \/ \E pay \in Payments : markPaymentSucceeded(pay)
<1>1. CASE UNCHANGED vars
  BY <1>1, SameRowsQuiet DEF vars, orderVars, paymentVars
<1>2. ASSUME NEW pay \in Payments, UpdatePaymentException(pay) PROVE Quiet
  BY <1>2 DEF UpdatePaymentException, Quiet, Settled, Disputed, Paid, orderVars, TypeInv, TypeOK
<1>3. ASSUME NEW o \in Orders, RefundWinner(o) PROVE Quiet
  <2>1. \A q \in Orders : Paid(q)' <=> Paid(q)
    BY <1>3 DEF RefundWinner, Paid, PaidOrder, PaidMeansWinner, TypeInv, TypeOK
  <2> QED BY <1>3, <2>1 DEF RefundWinner, Quiet, Settled, Disputed, paymentVars
<1>4. ASSUME NEW pay \in Payments, LateCreate(pay) \/ Buyer(pay) \/ Inform(pay) \/ GiveUp(pay)
      PROVE  Quiet
  BY <1>4, SameRowsQuiet DEF LateCreate, Buyer, Inform, GiveUp, orderVars, paymentVars
<1>5. ASSUME NEW o \in Orders, PassDeadline(o) \/ BackoffElapses(o) \/ LeaseElapses(o)
      PROVE  Quiet
  BY <1>5, SameRowsQuiet DEF PassDeadline, BackoffElapses, LeaseElapses, orderVars,
                             paymentVars, orderCore, notExpiration
<1>6. ASSUME NEW pay \in Payments, Credit(pay) PROVE markPaymentSucceeded(pay)
  BY <1>6 DEF Credit
<1> QED BY <1>1, <1>2, <1>3, <1>4, <1>5, <1>6, ApiStepKinds, CallStepKinds, WorkerQuiet,
           RequestQuiet DEF Next

-----------------------------------------------------------------------------
(* The accounting invariant.                                               *)

\* What markPaymentSucceeded does to the rows Settlement shows: nothing, a
\* dispute, or a win.
LEMMA MarkKinds ==
    ASSUME TypeInv, Accounting, NEW pay \in Payments, markPaymentSucceeded(pay)
    PROVE  LET o == OrderOf[pay] IN
           \/ UNCHANGED <<orderStatus, winningPaymentId, delivery, payStatus, exception>>
           \/ /\ payStatus[pay] # "SUCCESS" /\ winningPaymentId[o] \notin {None, pay}
              /\ payStatus' = [payStatus EXCEPT ![pay] = "SUCCESS"]
              /\ exception' = [exception EXCEPT ![pay] = "OPEN"]
              /\ UNCHANGED <<orderStatus, winningPaymentId, delivery>>
           \/ /\ payStatus[pay] # "SUCCESS" /\ winningPaymentId[o] = None
              /\ payStatus' = [payStatus EXCEPT ![pay] = "SUCCESS"]
              /\ orderStatus' = [orderStatus EXCEPT ![o] = "SUCCESS"]
              /\ winningPaymentId' = [winningPaymentId EXCEPT ![o] = pay]
              /\ delivery' = [delivery EXCEPT ![o] = IF o \in WithUrl THEN pay ELSE @]
              /\ delivery[o] = None
              /\ UNCHANGED exception
<1> DEFINE o == OrderOf[pay]
<1>1. o \in Orders BY PaymentAssumption
<1>2. CASE payStatus[pay] = "SUCCESS"
  BY <1>2 DEF markPaymentSucceeded, paymentVars, orderVars
<1>3. CASE payStatus[pay] # "SUCCESS" /\ isLateDuplicate(o)
  <2>1. exception[pay] = "NONE"
    BY <1>3 DEF Accounting, MoneyAccountedOnce, Settled
  <2>2. winningPaymentId[o] \notin {None, pay}
    BY <1>1, <1>3 DEF Accounting, PaidMeansWinner, isLateDuplicate, Settled
  <2>3. exception' = [exception EXCEPT ![pay] = "OPEN"]
    BY <1>3, <2>1 DEF markPaymentSucceeded, openLateDuplicateException
  <2> QED BY <1>3, <2>2, <2>3 DEF markPaymentSucceeded, orderVars
<1>4. CASE payStatus[pay] # "SUCCESS" /\ ~isLateDuplicate(o)
  <2>1. winningPaymentId[o] = None
    BY <1>1, <1>4 DEF Accounting, PaidMeansWinner, isLateDuplicate
  <2>2. delivery[o] = None
    BY <1>1, <2>1 DEF Accounting, OutboxTellsWinner
  <2>3. delivery' = [delivery EXCEPT ![o] = IF o \in WithUrl THEN pay ELSE @]
    BY <1>4, <2>2 DEF markPaymentSucceeded, createPaymentSucceededDelivery
  <2> QED BY <1>4, <2>1, <2>2, <2>3 DEF markPaymentSucceeded
<1> QED BY <1>2, <1>3, <1>4

\* Nothing is settled and nothing is disputed in the initial state.
LEMMA AccountingInit == Init => Accounting
BY PaymentAssumption DEF Init, Accounting, PaidMeansWinner, MoneyAccountedOnce,
                         OutboxTellsWinner, Settled, PaidOrder

\* Every step keeps the accounts.
LEMMA AccountingStep == TypeInv /\ Accounting /\ [Next]_vars => Accounting'
<1> SUFFICES ASSUME TypeInv, Accounting, [Next]_vars PROVE Accounting' OBVIOUS
<1> USE DEF Accounting, PaidMeansWinner, MoneyAccountedOnce, OutboxTellsWinner, Settled
<1>1. CASE Quiet
  <2>1. PaidMeansWinner' BY <1>1, PaymentAssumption DEF Quiet, Paid, TypeInv, TypeOK
  <2>2. MoneyAccountedOnce' BY <1>1, PaymentAssumption DEF Quiet, Disputed
  <2>3. OutboxTellsWinner' BY <1>1 DEF Quiet
  <2> QED BY <2>1, <2>2, <2>3
<1>2. ASSUME NEW pay \in Payments, markPaymentSucceeded(pay) PROVE Accounting'
  <2> DEFINE o == OrderOf[pay]
  <2>1. /\ o \in Orders /\ pay # None
        /\ OrderOf \in [Payments -> Orders]
        /\ orderStatus \in [Orders -> OrderStatus]
        /\ winningPaymentId \in [Orders -> Payments \cup {None}]
        /\ delivery \in [Orders -> Payments \cup {None}]
        /\ payStatus \in [Payments -> RowStatus]
        /\ exception \in [Payments -> ExceptionStatus]
    BY PaymentAssumption DEF TypeInv, TypeOK
  <2>2. CASE UNCHANGED <<orderStatus, winningPaymentId, delivery, payStatus, exception>>
    BY <2>2
  <2>3. CASE /\ payStatus[pay] # "SUCCESS" /\ winningPaymentId[o] \notin {None, pay}
             /\ payStatus' = [payStatus EXCEPT ![pay] = "SUCCESS"]
             /\ exception' = [exception EXCEPT ![pay] = "OPEN"]
             /\ UNCHANGED <<orderStatus, winningPaymentId, delivery>>
    <3>1. PaidMeansWinner' BY <2>1, <2>3
    <3>2. MoneyAccountedOnce' BY <2>1, <2>3
    <3>3. OutboxTellsWinner' BY <2>3
    <3> QED BY <3>1, <3>2, <3>3
  <2>4. CASE /\ payStatus[pay] # "SUCCESS" /\ winningPaymentId[o] = None
             /\ payStatus' = [payStatus EXCEPT ![pay] = "SUCCESS"]
             /\ orderStatus' = [orderStatus EXCEPT ![o] = "SUCCESS"]
             /\ winningPaymentId' = [winningPaymentId EXCEPT ![o] = pay]
             /\ delivery' = [delivery EXCEPT ![o] = IF o \in WithUrl THEN pay ELSE @]
             /\ delivery[o] = None
             /\ UNCHANGED exception
    <3>1. PaidMeansWinner' BY <2>1, <2>4 DEF PaidOrder
    <3>2. ASSUME NEW q \in Payments
          PROVE  /\ Settled(q)' => (winningPaymentId'[OrderOf[q]] = q) # (exception'[q] # "NONE")
                 /\ exception'[q] # "NONE" => Settled(q)'
      <4>1. OrderOf[q] \in Orders /\ q # None BY PaymentAssumption
      <4>2. CASE q = pay
        <5>1. exception'[q] = "NONE" BY <2>4, <4>2
        <5>2. winningPaymentId'[OrderOf[q]] = q BY <2>1, <2>4, <4>2
        <5> QED BY <5>1, <5>2
      <4>3. CASE q # pay /\ OrderOf[q] = o
        <5>1. payStatus'[q] = payStatus[q] /\ exception'[q] = exception[q]
          BY <2>1, <2>4, <4>3
        <5>2. winningPaymentId'[OrderOf[q]] # q /\ winningPaymentId[OrderOf[q]] # q
          BY <2>1, <2>4, <4>1, <4>3
        <5> QED BY <5>1, <5>2
      <4>4. CASE q # pay /\ OrderOf[q] # o
        <5>1. payStatus'[q] = payStatus[q] /\ exception'[q] = exception[q]
          BY <2>1, <2>4, <4>4
        <5>2. winningPaymentId'[OrderOf[q]] = winningPaymentId[OrderOf[q]]
          BY <2>1, <2>4, <4>1, <4>4
        <5> QED BY <5>1, <5>2
      <4> QED BY <4>2, <4>3, <4>4
    <3>3. OutboxTellsWinner' BY <2>1, <2>4
    <3> QED BY <3>1, <3>2, <3>3
  <2> QED BY <1>2, <2>2, <2>3, <2>4, MarkKinds
<1> QED BY <1>1, <1>2, StepKinds

\* The inductive invariant holds in every reachable state.
LEMMA AccountingCorrect == Spec => [](TypeInv /\ Accounting)
BY TypeInit, TypeStep, AccountingInit, AccountingStep, PTL DEF Spec

\* An order is paid exactly when it has a winning payment, a successful one of
\* its own.
THEOREM PaidMeansWinnerCorrect == Spec => []PaidMeansWinner
<1>1. Accounting => PaidMeansWinner BY DEF Accounting
<1> QED BY <1>1, AccountingCorrect, PTL

\* Every successful payment is either the winner of its order or a
\* LATE_DUPLICATE case, never both and never neither.
THEOREM MoneyAccountedOnceCorrect == Spec => []MoneyAccountedOnce
<1>1. Accounting => MoneyAccountedOnce BY DEF Accounting
<1> QED BY <1>1, AccountingCorrect, PTL

\* The outbox row of an order names its winner, and there is one exactly when
\* the order is paid and has a notification URL.
THEOREM OutboxTellsWinnerCorrect == Spec => []OutboxTellsWinner
<1>1. Accounting => OutboxTellsWinner BY DEF Accounting
<1> QED BY <1>1, AccountingCorrect, PTL

-----------------------------------------------------------------------------
(* Action properties and refinement.                                       *)

\* A step never changes the winner of an order, nor unpays it.
LEMMA WinnerStep ==
    ASSUME TypeInv, Accounting, [Next]_vars, NEW o \in Orders, winningPaymentId[o] # None
    PROVE  winningPaymentId'[o] = winningPaymentId[o] /\ orderStatus'[o] \in PaidOrder
<1>1. orderStatus[o] \in PaidOrder BY DEF Accounting, PaidMeansWinner
<1>2. CASE Quiet BY <1>1, <1>2 DEF Quiet, Paid
<1>3. ASSUME NEW pay \in Payments, markPaymentSucceeded(pay)
      PROVE  winningPaymentId'[o] = winningPaymentId[o] /\ orderStatus'[o] \in PaidOrder
  BY <1>1, <1>3, MarkKinds DEF TypeInv, TypeOK
<1> QED BY <1>2, <1>3, StepKinds DEF Accounting

\* The winner of an order never changes and a paid order stays paid, whatever
\* arrives later.
THEOREM WinnerIsFinalCorrect == Spec => WinnerIsFinal
<1> DEFINE Final == \A o \in Orders : winningPaymentId[o] # None =>
                        /\ winningPaymentId'[o] = winningPaymentId[o]
                        /\ orderStatus'[o] \in PaidOrder
<1>1. (TypeInv /\ Accounting) /\ [Next]_vars => [Final]_vars BY WinnerStep
<1> QED BY <1>1, AccountingCorrect, PTL DEF Spec, WinnerIsFinal

\* The initial state of the system is the one of Settlement.
LEMMA RefinementInit == Init => Settlement!Init
BY DEF Init, Settlement!Init, Settled

\* A success is a win or a dispute of Settlement, or changes nothing there.
LEMMA MarkRefines ==
    ASSUME TypeInv, Accounting, NEW pay \in Payments, markPaymentSucceeded(pay)
    PROVE  Settlement!Next \/ UNCHANGED Settlement!vars
<1> DEFINE o == OrderOf[pay]
<1> USE DEF Settled
<1>1. /\ o \in Orders
      /\ payStatus \in [Payments -> RowStatus]
      /\ exception \in [Payments -> ExceptionStatus]
      /\ delivery \in [Orders -> Payments \cup {None}]
  BY PaymentAssumption DEF TypeInv, TypeOK
<1>2. CASE UNCHANGED <<orderStatus, winningPaymentId, delivery, payStatus, exception>>
  BY <1>2 DEF Settlement!vars
<1>3. CASE /\ payStatus[pay] # "SUCCESS" /\ winningPaymentId[o] \notin {None, pay}
           /\ payStatus' = [payStatus EXCEPT ![pay] = "SUCCESS"]
           /\ exception' = [exception EXCEPT ![pay] = "OPEN"]
           /\ UNCHANGED <<orderStatus, winningPaymentId, delivery>>
  <2>1. {p \in Payments : Settled(p)}' = {p \in Payments : Settled(p)} \cup {pay}
    BY <1>1, <1>3
  <2>2. {p \in Payments : exception[p] # "NONE"}'
            = {p \in Payments : exception[p] # "NONE"} \cup {pay}
    BY <1>1, <1>3
  <2>3. Settlement!Dispute(pay) BY <1>3, <2>1, <2>2 DEF Settlement!Dispute
  <2> QED BY <2>3 DEF Settlement!Next
<1>4. CASE /\ payStatus[pay] # "SUCCESS" /\ winningPaymentId[o] = None
           /\ payStatus' = [payStatus EXCEPT ![pay] = "SUCCESS"]
           /\ orderStatus' = [orderStatus EXCEPT ![o] = "SUCCESS"]
           /\ winningPaymentId' = [winningPaymentId EXCEPT ![o] = pay]
           /\ delivery' = [delivery EXCEPT ![o] = IF o \in WithUrl THEN pay ELSE @]
           /\ delivery[o] = None
           /\ UNCHANGED exception
  <2>1. {p \in Payments : Settled(p)}' = {p \in Payments : Settled(p)} \cup {pay}
    BY <1>1, <1>4
  <2>2. delivery' = IF o \in WithUrl THEN [delivery EXCEPT ![o] = pay] ELSE delivery
    BY <1>1, <1>4
  <2>3. Settlement!Win(pay) BY <1>4, <2>1, <2>2 DEF Settlement!Win
  <2> QED BY <2>3 DEF Settlement!Next
<1> QED BY <1>2, <1>3, <1>4, MarkKinds

\* A quiet step is a stutter of Settlement.
LEMMA QuietRefines == ASSUME Quiet PROVE UNCHANGED Settlement!vars
BY DEF Quiet, Settled, Disputed, Settlement!vars

\* Seen through its rows the system settles every payment once, in one step: the
\* first of an order wins and is told, every later one is disputed.
THEOREM SettlementImplemented == Spec => ImplementsSettlement
<1>1. (TypeInv /\ Accounting) /\ [Next]_vars => [Settlement!Next]_(Settlement!vars)
  BY StepKinds, MarkRefines, QuietRefines DEF Accounting
<1> QED BY <1>1, RefinementInit, AccountingCorrect, PTL
        DEF Spec, ImplementsSettlement, Settlement!Spec

-----------------------------------------------------------------------------
(* The status graph of payments.                                           *)

\* The status of one payment at most moves, along an edge of the graph, or the
\* row is created.
OneEdge ==
    \/ UNCHANGED payStatus
    \/ \E pay \in Payments, status \in PaymentStatus :
           /\ payStatus' = [payStatus EXCEPT ![pay] = status]
           /\ payStatus[pay] # "NONE" => canPaymentTransition(payStatus[pay], status)

\* updatePaymentObservation follows an edge.
LEMMA ObserveEdge ==
    ASSUME NEW pay \in Payments, NEW status \in PaymentStatus,
           updatePaymentObservation(pay, status)
    PROVE  OneEdge
BY DEF OneEdge, updatePaymentObservation, Accepts

\* markPaymentSucceeded follows an edge.
LEMMA MarkEdge ==
    ASSUME NEW pay \in Payments, markPaymentSucceeded(pay)
    PROVE  OneEdge
<1>1. CASE payStatus[pay] = "SUCCESS"
  BY <1>1 DEF OneEdge, markPaymentSucceeded, paymentVars
<1>2. CASE payStatus[pay] # "SUCCESS"
  BY <1>2 DEF OneEdge, markPaymentSucceeded, PaymentStatus
<1> QED BY <1>1, <1>2

\* A handler follows an edge, whatever it read before it called the channel.
LEMMA HandlerEdge ==
    ASSUME TypeInv, NEW h \in Procs,
           ApiStep(h) \/ CallStep(h) \/ \E pay \in Payments : Request(h, pay)
    PROVE  OneEdge
<1>1. GoodHandler(proc[h]) BY HandlerFacts
<1>2. CASE ObserveCreate(h)
  BY <1>1, <1>2, ObserveEdge DEF ObserveCreate, GoodHandler, PaymentStatus
<1>3. CASE SettleNotice(h) BY <1>1, <1>3, MarkEdge DEF SettleNotice, GoodHandler
<1>4. CASE ApplyQuery(h)
  <2>1. proc[h].pay \in Payments /\ proc[h].res \in PaymentStatus
    BY <1>1, <1>4 DEF ApplyQuery, GoodHandler
  <2>2. \/ markPaymentSucceeded(proc[h].pay)
        \/ updatePaymentObservation(proc[h].pay, proc[h].res)
        \/ UNCHANGED payStatus
    BY <1>4 DEF ApplyQuery
  <2> QED BY <2>1, <2>2, MarkEdge, ObserveEdge DEF OneEdge
<1>5. CASE ConfirmClose(h)
  <2>1. proc[h].pay \in Payments BY <1>1, <1>5 DEF ConfirmClose, GoodHandler
  <2>2. CASE UNCHANGED paymentVars BY <2>2 DEF paymentVars, OneEdge
  <2>3. CASE /\ payStatus' = [payStatus EXCEPT ![proc[h].pay] = "CLOSED"]
             /\ canPaymentTransition(payStatus[proc[h].pay], "CLOSED")
    BY <2>1, <2>3 DEF OneEdge, PaymentStatus
  <2> QED BY <1>5, <2>2, <2>3 DEF ConfirmClose
<1>6. ASSUME NEW pay \in Payments, CreatePayment(h, pay) PROVE OneEdge
  BY <1>6 DEF CreatePayment, OneEdge, PaymentStatus
<1>7. ASSUME NEW pay \in Payments,
             \/ DispatchCreate(h) \/ ObservationThrows(h) \/ SettlementThrows(h)
             \/ AcknowledgeNotice(h) \/ ChannelQuery(h) \/ QueryThrows(h)
             \/ ChannelClose(h) \/ CloseThrows(h) \/ StartQuery(h, pay)
             \/ StartClose(h, pay) \/ AnyNotice(h, pay)
      PROVE  OneEdge
  BY <1>7 DEF DispatchCreate, ObservationThrows, SettlementThrows, AcknowledgeNotice,
              ChannelQuery, QueryThrows, ChannelClose, CloseThrows, StartQuery, StartClose,
              AnyNotice, ReceiveNotice, paymentVars, OneEdge
<1>8. CASE \E pay \in Payments : Request(h, pay)
  BY <1>6, <1>7, <1>8 DEF Request
<1>9. CASE ApiStep(h) \/ CallStep(h)
  <2>1. CASE \/ DispatchCreate(h) \/ ObservationThrows(h) \/ SettlementThrows(h)
             \/ AcknowledgeNotice(h) \/ ChannelQuery(h) \/ QueryThrows(h)
             \/ ChannelClose(h) \/ CloseThrows(h)
    BY <2>1 DEF DispatchCreate, ObservationThrows, SettlementThrows, AcknowledgeNotice,
                ChannelQuery, QueryThrows, ChannelClose, CloseThrows, paymentVars, OneEdge
  <2> QED BY <1>2, <1>3, <1>4, <1>5, <1>9, <2>1 DEF ApiStep, CallStep
<1> QED BY <1>8, <1>9

\* Every step follows an edge.
LEMMA StepEdge == TypeInv /\ [Next]_vars => OneEdge
<1> SUFFICES ASSUME TypeInv, [Next]_vars PROVE OneEdge OBVIOUS
<1>1. CASE UNCHANGED payStatus BY <1>1 DEF OneEdge
<1>2. ASSUME NEW pay \in Payments, Credit(pay) PROVE OneEdge
  BY <1>2, MarkEdge DEF Credit
<1>3. ASSUME NEW h \in Procs,
             \/ ExpirerStep(h) \/ RecovererStep(h) \/ Crash(h)
             \/ \E pay \in Payments : ClaimRecovery(h, pay)
             \/ \E o \in Orders : ClaimExpiration(h, o)
      PROVE  UNCHANGED payStatus
  BY <1>3 DEF ExpirerStep, RecovererStep, Crash, ClaimRecovery, ClaimExpiration, LoadOrder,
              LoadPayments, VisitPayment, AfterQuery, AfterClose, releaseExpiration,
              CloseOrder, ExpireFailRead, ExpireFailWrite, RecoverQuery, AfterRecovery,
              RecoverRead, RecoverWrite, paymentVars, notExpiration, notRecovery
<1>4. ASSUME NEW pay \in Payments,
             \/ UpdatePaymentException(pay) \/ LateCreate(pay)
             \/ Buyer(pay) \/ Inform(pay) \/ GiveUp(pay)
      PROVE  UNCHANGED payStatus
  BY <1>4 DEF UpdatePaymentException, LateCreate, Buyer, Inform, GiveUp, paymentVars
<1>5. ASSUME NEW o \in Orders,
             \/ RefundWinner(o) \/ PassDeadline(o) \/ BackoffElapses(o) \/ LeaseElapses(o)
      PROVE  UNCHANGED payStatus
  BY <1>5 DEF RefundWinner, PassDeadline, BackoffElapses, LeaseElapses, paymentVars,
              notExpiration
<1>6. CASE Next BY <1>1, <1>2, <1>3, <1>4, <1>5, <1>6, HandlerEdge DEF Next
<1>7. CASE UNCHANGED vars BY <1>1, <1>7 DEF vars, paymentVars
<1> QED BY <1>6, <1>7

\* Every change of a payment's status is an edge of the state machine, although
\* the handlers decide on rows they read before they called the channel.
THEOREM StatusFollowsGraphCorrect == Spec => StatusFollowsGraph
<1> DEFINE Follows == \A p \in Payments :
               payStatus[p] # "NONE" => /\ payStatus'[p] # "NONE"
                                        /\ canPaymentTransition(payStatus[p], payStatus'[p])
<1>1. TypeInv /\ OneEdge => Follows
  BY DEF TypeInv, TypeOK, OneEdge, PaymentStatus, canPaymentTransition
<1>2. TypeInv /\ [Next]_vars => [Follows]_vars BY <1>1, StepEdge
<1> QED BY <1>2, TypeInit, TypeStep, PTL DEF Spec, StatusFollowsGraph

-----------------------------------------------------------------------------
(***************************************************************************)
(* What the handlers know when they act on what they read earlier: no      *)
(* recorded status contradicts Alipay, no order is closed over an active   *)
(* attempt, and neither the expiration nor the recovery forgets its work,  *)
(* however many runs of them there are and whatever leases they outlive.   *)
(*                                                                         *)
(* A handler's knowledge is stable because what it is about only grows     *)
(* (Growing); each section says which steps give a handler new knowledge.  *)
(***************************************************************************)

\* What a step never takes back.
Growing ==
    /\ \A p \in Payments : trade[p] \in {"paid", "closed"} => trade'[p] = trade[p]
    /\ \A p \in Payments : Settled(p) => Settled(p)'
    /\ \A o \in Orders : Paid(o) => Paid(o)'
    /\ \A p \in Payments : queryAttempts'[p] >= queryAttempts[p]

\* A trade that is paid or closed at Alipay stays so.
LEMMA TradeGrows ==
    ASSUME TypeInv, [Next]_vars, NEW p \in Payments, trade[p] \in {"paid", "closed"}
    PROVE  trade'[p] = trade[p]
<1>1. trade \in [Payments -> TradeStatus] BY DEF TypeInv, TypeOK
<1>2. ASSUME NEW h \in Procs, DispatchCreate(h) \/ ChannelClose(h) \/ CloseThrows(h)
      PROVE  trade'[p] = trade[p]
  BY <1>1, <1>2 DEF DispatchCreate, ChannelClose, CloseThrows, Closable
<1>3. ASSUME NEW pay \in Payments, LateCreate(pay) \/ Buyer(pay)
      PROVE  trade'[p] = trade[p]
  BY <1>1, <1>3 DEF LateCreate, Buyer
<1>4. ASSUME NEW h \in Procs,
             \/ ObserveCreate(h) \/ ObservationThrows(h) \/ SettleNotice(h)
             \/ SettlementThrows(h) \/ AcknowledgeNotice(h) \/ ChannelQuery(h)
             \/ QueryThrows(h) \/ ApplyQuery(h) \/ ConfirmClose(h)
             \/ ExpirerStep(h) \/ RecovererStep(h) \/ Crash(h)
             \/ \E pay \in Payments : Request(h, pay) \/ ClaimRecovery(h, pay)
             \/ \E o \in Orders : ClaimExpiration(h, o)
      PROVE  UNCHANGED trade
  BY <1>4 DEF ObserveCreate, ObservationThrows, SettleNotice, SettlementThrows,
              AcknowledgeNotice, ChannelQuery, QueryThrows, ApplyQuery, ConfirmClose,
              ExpirerStep, LoadOrder, LoadPayments, VisitPayment, AfterQuery, AfterClose,
              releaseExpiration, CloseOrder, ExpireFailRead, ExpireFailWrite, RecovererStep,
              RecoverQuery, AfterRecovery, RecoverRead, RecoverWrite, Crash, Request,
              CreatePayment, StartQuery, StartClose, AnyNotice, ReceiveNotice, ClaimRecovery,
              ClaimExpiration, channelVars, notExpiration, notRecovery
<1>5. ASSUME NEW pay \in Payments,
             Credit(pay) \/ UpdatePaymentException(pay) \/ Inform(pay) \/ GiveUp(pay)
      PROVE  UNCHANGED trade
  BY <1>5 DEF Credit, UpdatePaymentException, Inform, GiveUp, channelVars
<1>6. ASSUME NEW o \in Orders,
             RefundWinner(o) \/ PassDeadline(o) \/ BackoffElapses(o) \/ LeaseElapses(o)
      PROVE  UNCHANGED trade
  BY <1>6 DEF RefundWinner, PassDeadline, BackoffElapses, LeaseElapses, channelVars,
              notExpiration
<1>7. CASE UNCHANGED vars BY <1>7 DEF vars, channelVars
<1> QED BY <1>2, <1>3, <1>4, <1>5, <1>6, <1>7 DEF Next, ApiStep, CallStep

\* The attempts of the recovery are counted by its claim and by nothing else.
LEMMA AttemptsGrow ==
    ASSUME TypeInv, [Next]_vars, NEW p \in Payments
    PROVE  queryAttempts'[p] >= queryAttempts[p]
<1>1. queryAttempts \in [Payments -> Nat]
  BY PaymentAssumption DEF TypeInv, TypeOK
<1>2. ASSUME UNCHANGED queryAttempts PROVE queryAttempts'[p] >= queryAttempts[p]
  BY <1>1, <1>2
<1>3. ASSUME NEW h \in Procs, NEW pay \in Payments, ClaimRecovery(h, pay)
      PROVE  queryAttempts'[p] >= queryAttempts[p]
  <2>1. queryAttempts' = [queryAttempts EXCEPT ![pay] = @ + 1] BY <1>3 DEF ClaimRecovery
  <2> QED BY <1>1, <2>1
<1>4. ASSUME NEW h \in Procs,
             \/ ApiStep(h) \/ CallStep(h) \/ ExpirerStep(h) \/ RecovererStep(h) \/ Crash(h)
             \/ \E pay \in Payments : Request(h, pay)
             \/ \E o \in Orders : ClaimExpiration(h, o)
      PROVE  UNCHANGED queryAttempts
  BY <1>4 DEF ApiStep, DispatchCreate, ObserveCreate, ObservationThrows, SettleNotice,
              SettlementThrows, AcknowledgeNotice, CallStep, ChannelQuery, QueryThrows,
              ApplyQuery, ChannelClose, CloseThrows, ConfirmClose, ExpirerStep, LoadOrder,
              LoadPayments, VisitPayment, AfterQuery, AfterClose, releaseExpiration,
              CloseOrder, ExpireFailRead, ExpireFailWrite, RecovererStep, RecoverQuery,
              AfterRecovery, RecoverRead, RecoverWrite, Crash, Request, CreatePayment,
              StartQuery, StartClose, AnyNotice, ReceiveNotice, ClaimExpiration, notExpiration,
              notRecovery
<1>5. ASSUME NEW pay \in Payments,
             \/ Credit(pay) \/ UpdatePaymentException(pay) \/ LateCreate(pay)
             \/ Buyer(pay) \/ Inform(pay) \/ GiveUp(pay)
      PROVE  UNCHANGED queryAttempts
  BY <1>5 DEF Credit, UpdatePaymentException, LateCreate, Buyer, Inform, GiveUp
<1>6. ASSUME NEW o \in Orders,
             RefundWinner(o) \/ PassDeadline(o) \/ BackoffElapses(o) \/ LeaseElapses(o)
      PROVE  UNCHANGED queryAttempts
  BY <1>6 DEF RefundWinner, PassDeadline, BackoffElapses, LeaseElapses, notExpiration
<1>7. CASE UNCHANGED vars BY <1>2, <1>7 DEF vars
<1> QED BY <1>2, <1>3, <1>4, <1>5, <1>6, <1>7 DEF Next

\* Nothing is unsettled, unpaid or uncounted by any step.
LEMMA StepGrows ==
    ASSUME TypeInv, Accounting, [Next]_vars
    PROVE  Growing
<1>1. ASSUME NEW p \in Payments, Settled(p) PROVE Settled(p)'
  BY <1>1, StepEdge DEF TypeInv, TypeOK, OneEdge, Settled, canPaymentTransition,
                        paymentTransitions
<1>2. ASSUME NEW o \in Orders, Paid(o) PROVE Paid(o)'
  BY <1>2, WinnerStep DEF Accounting, PaidMeansWinner, Paid
<1> QED BY <1>1, <1>2, TradeGrows, AttemptsGrow DEF Growing

-----------------------------------------------------------------------------
(* What Alipay has told a handler.                                         *)

\* An answer under way, a close to be confirmed, a notification to be settled
\* and one to be acknowledged.
Told(h) ==
    LET at == proc[h].pc
        pay == proc[h].pay
    IN
    /\ at = "apply" /\ Alipay(pay) => /\ proc[h].res = "SUCCESS" => trade[pay] = "paid"
                                      /\ proc[h].res = "CLOSED" => trade[pay] = "closed"
    /\ at = "apply" /\ proc[h].res = "SUCCESS" => Alipay(pay)
    /\ at = "confirm" /\ Alipay(pay) => trade[pay] = "closed"
    /\ at = "settle" => proc[h].res = "SUCCESS" /\ trade[pay] = "paid"
    /\ at = "acknowledge" /\ proc[h].res = "SUCCESS" => Settled(pay)

\* The inductive invariant of the statuses that quote Alipay.
Truthful ==
    /\ ProcessedMeansSettled /\ SuccessMeansPaid /\ ClosedMeansClosed
    /\ \A p \in Payments : <<p, "SUCCESS">> \in notices => trade[p] = "paid"
    /\ \A h \in Procs : Told(h)

\* The steps after which a handler holds what Alipay has told it.
LEMMA WhoIsTold ==
    ASSUME TypeInv, [Next]_vars, NEW g \in Procs
    PROVE  \/ proc'[g] = proc[g]
           \/ proc'[g].pc \notin {"apply", "confirm", "settle", "acknowledge"}
           \/ ChannelQuery(g) \/ ChannelClose(g) \/ SettleNotice(g)
           \/ \E pay \in Payments : AnyNotice(g, pay)
<1> DEFINE Elsewhere == \/ proc'[g] = proc[g]
                        \/ proc'[g].pc \notin {"apply", "confirm", "settle", "acknowledge"}
<1>1. proc \in [Procs -> ProcState] BY DEF TypeInv, TypeOK
<1>2. ASSUME NEW h \in Procs, NEW state, Become(h, state),
             state.pc \notin {"apply", "confirm", "settle", "acknowledge"}
      PROVE  Elsewhere
  BY <1>1, <1>2 DEF Become
<1>3. ASSUME NEW h \in Procs, NEW state, Become(h, state), h # g PROVE Elsewhere
  BY <1>1, <1>3 DEF Become
<1>4. ASSUME NEW h \in Procs, Become(h, Idle) PROVE Elsewhere
  BY <1>1, <1>4 DEF Become, Idle
<1>5. ASSUME NEW h \in Procs, NEW at \in {"afterQuery", "afterClose"}, NEW pay, NEW result,
             Return(h, at, pay, result)
      PROVE  Elsewhere
  BY <1>1, <1>5 DEF Return, Become, Idle, ProcState
<1>6. ASSUME NEW h \in Procs, NEW pay, QueryRead(h, pay) \/ CloseRead(h, pay)
      PROVE  Elsewhere
  <2>1. CASE QueryRead(h, pay) BY <1>1, <2>1 DEF QueryRead, Become, ProcState
  <2>2. CASE CloseRead(h, pay)
    <3>1. CASE Become(h, [proc[h] EXCEPT !.pc = "close", !.pay = pay, !.res = "NONE"])
      BY <1>1, <3>1 DEF Become, ProcState
    <3> QED BY <1>5, <2>2, <3>1 DEF CloseRead
  <2> QED BY <1>6, <2>1, <2>2
<1> HIDE DEF Elsewhere
<1>7. ASSUME NEW h \in Procs, ApiStep(h) PROVE Elsewhere \/ SettleNotice(g)
  <2>1. CASE DispatchCreate(h)
    <3>1. PICK status : Become(h, [proc[h] EXCEPT !.pc = "observe", !.res = status])
      BY <2>1 DEF DispatchCreate
    <3> QED BY <1>1, <3>1 DEF Become, ProcState, Elsewhere
  <2>2. CASE ObservationThrows(h)
    BY <1>1, <2>2 DEF ObservationThrows, Become, ProcState, Elsewhere
  <2>3. CASE ObserveCreate(h) \/ SettlementThrows(h) \/ AcknowledgeNotice(h)
    BY <1>4, <2>3 DEF ObserveCreate, SettlementThrows, AcknowledgeNotice
  <2>4. CASE SettleNotice(h)
    BY <1>1, <2>4 DEF SettleNotice, Become, Elsewhere
  <2> QED BY <1>7, <2>1, <2>2, <2>3, <2>4 DEF ApiStep
<1>8. ASSUME NEW h \in Procs, CallStep(h)
      PROVE  Elsewhere \/ ChannelQuery(g) \/ ChannelClose(g)
  <2>1. CASE ChannelQuery(h) \/ ChannelClose(h)
    BY <1>1, <2>1 DEF ChannelQuery, ChannelClose, Become, Elsewhere
  <2>2. CASE QueryThrows(h) BY <1>5, <2>2 DEF QueryThrows
  <2>3. CASE CloseThrows(h) BY <1>5, <2>3 DEF CloseThrows
  <2>4. CASE ApplyQuery(h) BY <1>5, <2>4 DEF ApplyQuery
  <2>5. CASE ConfirmClose(h) BY <1>5, <2>5 DEF ConfirmClose
  <2> QED BY <1>8, <2>1, <2>2, <2>3, <2>4, <2>5 DEF CallStep
<1>9. ASSUME NEW h \in Procs,
             \/ ExpirerStep(h) \/ RecovererStep(h) \/ Crash(h)
             \/ \E pay \in Payments : ClaimRecovery(h, pay)
             \/ \E o \in Orders : ClaimExpiration(h, o)
      PROVE  Elsewhere
  <2> DEFINE at(pc) == [proc[h] EXCEPT !.pc = pc]
  <2>1. CASE LoadOrder(h) \/ CloseOrder(h)
    <3>1. Become(h, at("loadPayments")) \/ Become(h, at("expireFail")) \/ Become(h, Idle)
      BY <2>1 DEF LoadOrder, CloseOrder
    <3>2. at("loadPayments").pc = "loadPayments" /\ at("expireFail").pc = "expireFail"
      BY <1>1 DEF ProcState
    <3> QED BY <1>2, <1>4, <3>1, <3>2 DEF Elsewhere
  <2>2. CASE LoadPayments(h)
    <3>1. PICK S, T : Become(h, [proc[h] EXCEPT !.pc = "loop", !.todo = S, !.paidSeen = T])
      BY <2>2 DEF LoadPayments
    <3> QED BY <1>1, <3>1 DEF Become, ProcState, Elsewhere
  <2>3. CASE AfterClose(h)
    <3>1. CASE Become(h, at("release")) \/ Become(h, at("expireFail"))
      BY <1>1, <3>1 DEF Become, ProcState, Elsewhere
    <3>2. CASE Become(h, [proc[h] EXCEPT !.pc = "loop", !.todo = @ \ {proc[h].pay},
                                         !.pay = None, !.res = "NONE"])
      BY <1>1, <3>2 DEF Become, ProcState, Elsewhere
    <3> QED BY <2>3, <3>1, <3>2 DEF AfterClose
  <2>4. CASE VisitPayment(h)
    <3>1. CASE Become(h, [proc[h] EXCEPT !.pc = "expireFail"])
      BY <1>1, <3>1 DEF Become, ProcState, Elsewhere
    <3> QED BY <1>6, <2>4, <3>1 DEF VisitPayment
  <2>5. CASE AfterQuery(h)
    <3>1. CASE \/ Become(h, [proc[h] EXCEPT !.pc = "release"])
               \/ Become(h, [proc[h] EXCEPT !.pc = "expireFail"])
      BY <1>1, <3>1 DEF Become, ProcState, Elsewhere
    <3> QED BY <1>6, <2>5, <3>1 DEF AfterQuery
  <2>6. CASE releaseExpiration(h) \/ ExpireFailWrite(h) \/ RecoverWrite(h) \/ Crash(h)
    BY <1>4, <2>6 DEF releaseExpiration, ExpireFailWrite, RecoverWrite, Crash
  <2>7. CASE ExpireFailRead(h)
    <3>1. CASE Become(h, [Idle EXCEPT !.pc = "expireFailWrite", !.order = proc[h].order])
      BY <1>1, <3>1 DEF Become, Idle, Elsewhere
    <3> QED BY <1>4, <2>7, <3>1 DEF ExpireFailRead, Elsewhere
  <2>8. CASE RecoverRead(h)
    <3>1. CASE Become(h, at("recoverWrite"))
      BY <1>1, <3>1 DEF Become, ProcState, Elsewhere
    <3> QED BY <1>4, <2>8, <3>1 DEF RecoverRead, Elsewhere
  <2>9. CASE AfterRecovery(h)
    <3>1. CASE \E pc \in {"recoverFail", "exhaust"} :
                   Become(h, [Idle EXCEPT !.pc = pc, !.pay = proc[h].pay,
                                          !.final = proc[h].final])
      BY <1>1, <3>1 DEF Become, Idle, Elsewhere
    <3> QED BY <1>4, <2>9, <3>1 DEF AfterRecovery, Elsewhere
  <2>10. CASE RecoverQuery(h) BY <1>6, <2>10 DEF RecoverQuery
  <2>11. ASSUME NEW pay \in Payments, ClaimRecovery(h, pay) PROVE Elsewhere
    <3>1. PICK final : Become(h, [Idle EXCEPT !.pc = "recover", !.pay = pay, !.final = final])
      BY <2>11 DEF ClaimRecovery
    <3> QED BY <1>1, <3>1 DEF Become, Idle, Elsewhere
  <2>12. ASSUME NEW o \in Orders, ClaimExpiration(h, o) PROVE Elsewhere
    BY <1>1, <2>12 DEF ClaimExpiration, Become, Idle, Elsewhere
  <2> QED BY <1>9, <2>1, <2>2, <2>3, <2>4, <2>5, <2>6,
             <2>7, <2>8, <2>9, <2>10, <2>11, <2>12
          DEF ExpirerStep, RecovererStep
<1>10. ASSUME NEW h \in Procs, NEW pay \in Payments, Request(h, pay)
       PROVE  Elsewhere \/ AnyNotice(g, pay)
  <2>1. CASE CreatePayment(h, pay)
    BY <1>1, <2>1 DEF CreatePayment, Become, Idle, Elsewhere
  <2>2. CASE StartQuery(h, pay) \/ StartClose(h, pay)
    BY <1>6, <2>2 DEF StartQuery, StartClose
  <2>3. CASE AnyNotice(h, pay)
    BY <1>1, <2>3 DEF AnyNotice, ReceiveNotice, Become, Elsewhere
  <2> QED BY <1>10, <2>1, <2>2, <2>3 DEF Request
<1>11. ASSUME UNCHANGED proc PROVE Elsewhere BY <1>11 DEF Elsewhere
<1>12. CASE UNCHANGED vars BY <1>11, <1>12 DEF vars, Elsewhere
<1>13. CASE \/ \E pay \in Payments :
                  \/ Credit(pay) \/ UpdatePaymentException(pay)
                  \/ LateCreate(pay) \/ Buyer(pay) \/ Inform(pay) \/ GiveUp(pay)
            \/ \E o \in Orders :
                  \/ RefundWinner(o) \/ PassDeadline(o) \/ BackoffElapses(o)
                  \/ LeaseElapses(o)
  BY <1>11, <1>13 DEF Credit, UpdatePaymentException, LateCreate, Buyer, Inform, GiveUp,
                      RefundWinner, PassDeadline, BackoffElapses, LeaseElapses
<1> QED BY <1>7, <1>8, <1>9, <1>10, <1>12, <1>13 DEF Next, Elsewhere

\* A new answer, close, notification or settlement is what Alipay says.
LEMMA ToldStep ==
    ASSUME TypeInv, Accounting, Truthful, [Next]_vars, NEW g \in Procs
    PROVE  Told(g)'
<1>1. /\ Growing /\ Told(g) /\ GoodHandler(proc[g])
      /\ proc \in [Procs -> ProcState] /\ trade \in [Payments -> TradeStatus]
  BY StepGrows, HandlerFacts DEF Truthful, TypeInv, TypeOK
<1>2. CASE proc'[g] = proc[g]
  BY <1>1, <1>2 DEF Told, Growing, GoodHandler, Alipay
<1>3. CASE proc'[g].pc \notin {"apply", "confirm", "settle", "acknowledge"}
  BY <1>3 DEF Told
<1>4. CASE ChannelQuery(g)
  <2>1. /\ proc'[g].pc = "apply" /\ proc'[g].pay = proc[g].pay
        /\ proc'[g].res = QueryAnswer(proc[g].pay)
        /\ trade' = trade
    BY <1>1, <1>4 DEF ChannelQuery, Become, ProcState, channelVars
  <2> QED BY <1>1, <2>1 DEF Told, QueryAnswer, Alipay
<1>5. CASE ChannelClose(g)
  <2>1. proc'[g].pc = "confirm" /\ proc'[g].pay = proc[g].pay /\ proc[g].pay \in Payments
    BY <1>1, <1>5 DEF ChannelClose, Become, ProcState, GoodHandler
  <2>2. Alipay(proc[g].pay) => trade'[proc[g].pay] = "closed"
    BY <1>1, <1>5, <2>1 DEF ChannelClose, Closable
  <2> QED BY <2>1, <2>2 DEF Told, Alipay
<1>6. CASE SettleNotice(g)
  <2>1. proc'[g].pc = "acknowledge" /\ proc'[g].pay = proc[g].pay /\ proc[g].pay \in Payments
    BY <1>1, <1>6 DEF SettleNotice, Become, ProcState, GoodHandler
  <2>2. Settled(proc[g].pay)'
    BY <1>6, <2>1 DEF SettleNotice, markPaymentSucceeded, paymentVars, Settled, TypeInv, TypeOK
  <2> QED BY <2>1, <2>2 DEF Told, Settled
<1>7. ASSUME NEW pay \in Payments, AnyNotice(g, pay), proc'[g] # proc[g] PROVE Told(g)'
  <2>1. PICK status \in NoticeStatus : ReceiveNotice(g, pay, status) BY <1>7 DEF AnyNotice
  <2>2. /\ proc'[g].pc = IF status = "SUCCESS" THEN "settle" ELSE "acknowledge"
        /\ proc'[g].pay = pay /\ proc'[g].res = status
        /\ trade' = trade /\ <<pay, status>> \in notices
    BY <1>1, <1>7, <2>1, NoticeMoves
  <2> QED BY <2>2 DEF Told, Truthful
<1> QED BY <1>2, <1>3, <1>4, <1>5, <1>6, <1>7, WhoIsTold

\* Who marks a callback as processed, and who adds a notification.
LEMMA NoticeStep ==
    ASSUME TypeInv, Truthful, [Next]_vars, NEW p \in Payments
    PROVE  /\ callback'[<<p, "SUCCESS">>] = "processed"
                 => callback[<<p, "SUCCESS">>] = "processed" \/ Settled(p)
           /\ <<p, "SUCCESS">> \in notices'
                 => <<p, "SUCCESS">> \in notices \/ trade'[p] = "paid"
<1> DEFINE paid == <<p, "SUCCESS">>
<1>0. paid \in Payments \X NoticeStatus /\ "SUCCESS" \notin Notified
  BY PaymentAssumption DEF NoticeStatus
<1>1. CASE UNCHANGED <<callback, notices>> BY <1>1
<1>2. ASSUME NEW h \in Procs, AcknowledgeNotice(h)
      PROVE  /\ callback'[paid] = "processed" => callback[paid] = "processed" \/ Settled(p)
             /\ paid \in notices' => paid \in notices
  <2>1. Told(h) /\ callback \in [Payments \X NoticeStatus -> {"none", "recorded", "processed"}]
    BY DEF Truthful, TypeInv, TypeOK
  <2> QED BY <1>0, <1>2, <2>1 DEF AcknowledgeNotice, Told
<1>3. ASSUME NEW h \in Procs, NEW pay \in Payments, AnyNotice(h, pay)
      PROVE  /\ callback'[paid] = "processed" => callback[paid] = "processed"
             /\ paid \in notices' => paid \in notices
  BY <1>0, <1>3 DEF AnyNotice, ReceiveNotice, newCallback, TypeInv, TypeOK
<1>4. ASSUME NEW pay \in Payments, Buyer(pay) \/ Inform(pay) \/ GiveUp(pay)
      PROVE  /\ UNCHANGED callback
             /\ paid \in notices' => paid \in notices \/ trade'[p] = "paid"
  BY <1>0, <1>4 DEF Buyer, Inform, GiveUp, TypeInv, TypeOK
<1>5. ASSUME NEW h \in Procs,
             \/ DispatchCreate(h) \/ ObserveCreate(h) \/ ObservationThrows(h)
             \/ SettleNotice(h) \/ SettlementThrows(h) \/ CallStep(h)
             \/ ExpirerStep(h) \/ RecovererStep(h) \/ Crash(h)
             \/ \E pay \in Payments : \/ CreatePayment(h, pay) \/ StartQuery(h, pay)
                                      \/ StartClose(h, pay) \/ ClaimRecovery(h, pay)
             \/ \E o \in Orders : ClaimExpiration(h, o)
      PROVE  UNCHANGED <<callback, notices>>
  BY <1>5 DEF DispatchCreate, ObserveCreate, ObservationThrows, SettleNotice,
              SettlementThrows, CallStep, ChannelQuery, QueryThrows, ApplyQuery,
              ChannelClose, CloseThrows, ConfirmClose, ExpirerStep, LoadOrder, LoadPayments,
              VisitPayment, AfterQuery, AfterClose, releaseExpiration, CloseOrder,
              ExpireFailRead, ExpireFailWrite, RecovererStep, RecoverQuery, AfterRecovery,
              RecoverRead, RecoverWrite, Crash, CreatePayment, StartQuery, StartClose,
              ClaimRecovery, ClaimExpiration, channelVars, notExpiration, notRecovery
<1>6. ASSUME NEW pay \in Payments,
             Credit(pay) \/ UpdatePaymentException(pay) \/ LateCreate(pay)
      PROVE  UNCHANGED <<callback, notices>>
  BY <1>6 DEF Credit, UpdatePaymentException, LateCreate, channelVars
<1>7. ASSUME NEW o \in Orders,
             RefundWinner(o) \/ PassDeadline(o) \/ BackoffElapses(o) \/ LeaseElapses(o)
      PROVE  UNCHANGED <<callback, notices>>
  BY <1>7 DEF RefundWinner, PassDeadline, BackoffElapses, LeaseElapses, channelVars,
              notExpiration
<1>8. CASE UNCHANGED vars BY <1>1, <1>8 DEF vars, channelVars
<1> QED BY <1>1, <1>2, <1>3, <1>4, <1>5, <1>6, <1>7, <1>8 DEF Next, ApiStep, Request

\* A status that becomes SUCCESS or CLOSED is what Alipay has told the handler.
LEMMA StatusStep ==
    ASSUME TypeInv, Accounting, Truthful, [Next]_vars, NEW p \in Payments, Alipay(p)
    PROVE  /\ payStatus'[p] = "SUCCESS" => Settled(p) \/ trade[p] = "paid"
           /\ payStatus'[p] = "CLOSED" => payStatus[p] = "CLOSED" \/ trade[p] = "closed"
<1> DEFINE Quoted == /\ payStatus'[p] = "SUCCESS" => Settled(p) \/ trade[p] = "paid"
                     /\ payStatus'[p] = "CLOSED" => payStatus[p] = "CLOSED" \/ trade[p] = "closed"
<1>1. payStatus \in [Payments -> RowStatus] BY DEF TypeInv, TypeOK
<1>2. ASSUME UNCHANGED payStatus PROVE Quoted BY <1>2 DEF Settled
<1>3. ASSUME NEW pay \in Payments, markPaymentSucceeded(pay), Alipay(pay) => trade[pay] = "paid"
      PROVE  Quoted
  BY <1>1, <1>3 DEF markPaymentSucceeded, paymentVars, Settled
<1>4. ASSUME NEW pay \in Payments, NEW status, updatePaymentObservation(pay, status),
             status # "SUCCESS", Alipay(pay) /\ status = "CLOSED" => trade[pay] = "closed"
      PROVE  Quoted
  BY <1>1, <1>4 DEF updatePaymentObservation, Settled
<1> HIDE DEF Quoted
<1>5. ASSUME NEW h \in Procs, ApiStep(h) \/ CallStep(h) PROVE Quoted
  <2>1. GoodHandler(proc[h]) /\ Told(h) BY HandlerFacts DEF Truthful
  <2>2. CASE ObserveCreate(h)
    BY <1>4, <2>1, <2>2 DEF ObserveCreate, GoodHandler
  <2>3. CASE SettleNotice(h)
    BY <1>3, <2>1, <2>3 DEF SettleNotice, GoodHandler, Told
  <2>4. CASE ApplyQuery(h)
    <3>1. proc[h].pay \in Payments /\ proc[h].pc = "apply"
      BY <2>1, <2>4 DEF ApplyQuery, GoodHandler
    <3>2. CASE proc[h].res = "SUCCESS" /\ markPaymentSucceeded(proc[h].pay)
      BY <1>3, <2>1, <3>1, <3>2 DEF Told
    <3>3. CASE proc[h].res # "SUCCESS" /\ updatePaymentObservation(proc[h].pay, proc[h].res)
      BY <1>4, <2>1, <3>1, <3>3 DEF Told
    <3>4. CASE UNCHANGED payStatus BY <1>2, <3>4
    <3> QED BY <2>4, <3>2, <3>3, <3>4 DEF ApplyQuery
  <2>5. CASE ConfirmClose(h)
    <3>1. proc[h].pay \in Payments /\ (Alipay(proc[h].pay) => trade[proc[h].pay] = "closed")
      BY <2>1, <2>5 DEF ConfirmClose, GoodHandler, Told
    <3>2. CASE payStatus' = [payStatus EXCEPT ![proc[h].pay] = "CLOSED"]
      BY <1>1, <3>1, <3>2 DEF Quoted, Settled
    <3>3. CASE UNCHANGED paymentVars BY <1>2, <3>3 DEF paymentVars
    <3> QED BY <2>5, <3>2, <3>3 DEF ConfirmClose
  <2>6. CASE \/ DispatchCreate(h) \/ ObservationThrows(h) \/ SettlementThrows(h)
             \/ AcknowledgeNotice(h) \/ ChannelQuery(h) \/ QueryThrows(h)
             \/ ChannelClose(h) \/ CloseThrows(h)
    BY <1>2, <2>6 DEF DispatchCreate, ObservationThrows, SettlementThrows, AcknowledgeNotice,
                      ChannelQuery, QueryThrows, ChannelClose, CloseThrows, paymentVars
  <2> QED BY <1>5, <2>2, <2>3, <2>4, <2>5, <2>6 DEF ApiStep, CallStep
<1>6. ASSUME NEW h \in Procs, NEW pay \in Payments, Request(h, pay) PROVE Quoted
  <2>1. CASE CreatePayment(h, pay)
    BY <1>1, <2>1 DEF CreatePayment, Quoted, Settled
  <2>2. CASE StartQuery(h, pay) \/ StartClose(h, pay) \/ AnyNotice(h, pay)
    BY <1>2, <2>2 DEF StartQuery, StartClose, AnyNotice, ReceiveNotice, paymentVars
  <2> QED BY <1>6, <2>1, <2>2 DEF Request
<1>7. ASSUME NEW h \in Procs,
             \/ ExpirerStep(h) \/ RecovererStep(h) \/ Crash(h)
             \/ \E pay \in Payments : ClaimRecovery(h, pay)
             \/ \E o \in Orders : ClaimExpiration(h, o)
      PROVE  UNCHANGED payStatus
  BY <1>7 DEF ExpirerStep, RecovererStep, Crash, ClaimRecovery, ClaimExpiration, LoadOrder,
              LoadPayments, VisitPayment, AfterQuery, AfterClose, releaseExpiration,
              CloseOrder, ExpireFailRead, ExpireFailWrite, RecoverQuery, AfterRecovery,
              RecoverRead, RecoverWrite, paymentVars, notExpiration, notRecovery
<1>8. ASSUME NEW pay \in Payments,
             \/ Credit(pay) \/ UpdatePaymentException(pay) \/ LateCreate(pay)
             \/ Buyer(pay) \/ Inform(pay) \/ GiveUp(pay)
      PROVE  Quoted
  <2>1. CASE Credit(pay) BY <1>3, <2>1 DEF Credit
  <2>2. CASE \/ UpdatePaymentException(pay) \/ LateCreate(pay)
             \/ Buyer(pay) \/ Inform(pay) \/ GiveUp(pay)
    BY <1>2, <2>2 DEF UpdatePaymentException, LateCreate, Buyer, Inform, GiveUp, paymentVars
  <2> QED BY <1>8, <2>1, <2>2
<1>9. ASSUME NEW o \in Orders,
             RefundWinner(o) \/ PassDeadline(o) \/ BackoffElapses(o) \/ LeaseElapses(o)
      PROVE  UNCHANGED payStatus
  BY <1>9 DEF RefundWinner, PassDeadline, BackoffElapses, LeaseElapses, paymentVars,
              notExpiration
<1>10. ASSUME UNCHANGED vars PROVE Quoted BY <1>2, <1>10 DEF vars, paymentVars
<1>11. Quoted BY <1>2, <1>5, <1>6, <1>7, <1>8, <1>9, <1>10 DEF Next
<1> QED BY <1>11 DEF Quoted

\* In the initial state nothing is known of Alipay.
LEMMA TruthfulInit == Init => Truthful
BY DEF Init, Truthful, ProcessedMeansSettled, SuccessMeansPaid, ClosedMeansClosed, Settled,
       Told, Idle, NoticeStatus

\* Every step quotes Alipay truly.
LEMMA TruthfulStep == TypeInv /\ Accounting /\ Truthful /\ [Next]_vars => Truthful'
<1> SUFFICES ASSUME TypeInv, Accounting, Truthful, [Next]_vars PROVE Truthful' OBVIOUS
<1>1. Growing /\ ProcessedMeansSettled /\ SuccessMeansPaid /\ ClosedMeansClosed
  BY StepGrows DEF Truthful
<1>2. ProcessedMeansSettled' BY <1>1, NoticeStep DEF ProcessedMeansSettled, Growing
<1>3. SuccessMeansPaid'
  BY <1>1, StatusStep DEF SuccessMeansPaid, Growing, Settled, Alipay
<1>4. ClosedMeansClosed' BY <1>1, StatusStep DEF ClosedMeansClosed, Growing, Alipay
<1>5. (\A p \in Payments : <<p, "SUCCESS">> \in notices => trade[p] = "paid")'
  <2>1. TypeInv' BY TypeStep
  <2> QED BY <1>1, <2>1, NoticeStep DEF Truthful, Growing, TypeInv, TypeOK
<1>6. (\A h \in Procs : Told(h))' BY ToldStep DEF Procs
<1> QED BY <1>2, <1>3, <1>4, <1>5, <1>6 DEF Truthful

\* The inductive invariant holds in every reachable state.
LEMMA TruthfulCorrect == Spec => [](TypeInv /\ Accounting /\ Truthful)
BY TypeInit, TypeStep, AccountingInit, AccountingStep, TruthfulInit, TruthfulStep, PTL DEF Spec

\* The callback of a notice of success is marked processed only when its payment
\* is settled, wherever its handler is lost and whatever else is notified.
THEOREM ProcessedMeansSettledCorrect == Spec => []ProcessedMeansSettled
<1>1. Truthful => ProcessedMeansSettled BY DEF Truthful
<1> QED BY <1>1, TruthfulCorrect, PTL

\* An Alipay payment is successful only if Alipay was paid, whatever answer was
\* lost, late or stale.
THEOREM SuccessMeansPaidCorrect == Spec => []SuccessMeansPaid
<1>1. Truthful => SuccessMeansPaid BY DEF Truthful
<1> QED BY <1>1, TruthfulCorrect, PTL

\* An Alipay payment recorded as CLOSED can no longer be paid.
THEOREM ClosedMeansClosedCorrect == Spec => []ClosedMeansClosed
<1>1. Truthful => ClosedMeansClosed BY DEF Truthful
<1> QED BY <1>1, TruthfulCorrect, PTL

-----------------------------------------------------------------------------
(* Closing an order.                                                       *)

\* The steps that write the status of an order or its schedule.
LEMMA ScheduleSteps ==
    ASSUME TypeInv, [Next]_vars
    PROVE  \/ UNCHANGED <<orderStatus, expirationNext>>
           \/ \E pay \in Payments : markPaymentSucceeded(pay)
           \/ \E h \in Procs, pay \in Payments : CreatePayment(h, pay)
           \/ \E h \in Procs : CloseOrder(h) \/ releaseExpiration(h) \/ ExpireFailWrite(h)
           \/ \E o \in Orders : RefundWinner(o) \/ BackoffElapses(o)
<1> DEFINE Same == UNCHANGED <<orderStatus, expirationNext>>
           Mark == \E pay \in Payments : markPaymentSucceeded(pay)
<1>1. ASSUME NEW h \in Procs, ApiStep(h) \/ CallStep(h) PROVE Same \/ Mark
  <2>1. GoodHandler(proc[h]) BY HandlerFacts
  <2>2. CASE SettleNotice(h) BY <2>1, <2>2 DEF SettleNotice, GoodHandler
  <2>3. CASE ApplyQuery(h) BY <2>1, <2>3 DEF ApplyQuery, GoodHandler, orderVars
  <2>4. CASE \/ DispatchCreate(h) \/ ObserveCreate(h) \/ ObservationThrows(h)
             \/ SettlementThrows(h) \/ AcknowledgeNotice(h) \/ ChannelQuery(h)
             \/ QueryThrows(h) \/ ChannelClose(h) \/ CloseThrows(h) \/ ConfirmClose(h)
    BY <2>4 DEF DispatchCreate, ObserveCreate, ObservationThrows, SettlementThrows,
                AcknowledgeNotice, ChannelQuery, QueryThrows, ChannelClose, CloseThrows,
                ConfirmClose, orderVars
  <2> QED BY <1>1, <2>2, <2>3, <2>4 DEF ApiStep, CallStep
<1>2. ASSUME NEW h \in Procs,
             \/ LoadOrder(h) \/ LoadPayments(h) \/ VisitPayment(h) \/ AfterQuery(h)
             \/ AfterClose(h) \/ ExpireFailRead(h) \/ RecovererStep(h) \/ Crash(h)
             \/ \E pay \in Payments : \/ StartQuery(h, pay) \/ StartClose(h, pay)
                                      \/ AnyNotice(h, pay) \/ ClaimRecovery(h, pay)
             \/ \E o \in Orders : ClaimExpiration(h, o)
      PROVE  Same
  BY <1>2 DEF LoadOrder, LoadPayments, VisitPayment, AfterQuery, AfterClose, ExpireFailRead,
              RecovererStep, RecoverQuery, AfterRecovery, RecoverRead, RecoverWrite, Crash,
              StartQuery, StartClose, AnyNotice, ReceiveNotice, ClaimRecovery, ClaimExpiration,
              orderVars, orderCore, notRecovery
<1>3. ASSUME NEW pay \in Payments,
             \/ Credit(pay) \/ UpdatePaymentException(pay) \/ LateCreate(pay)
             \/ Buyer(pay) \/ Inform(pay) \/ GiveUp(pay)
      PROVE  Same \/ Mark
  BY <1>3 DEF Credit, UpdatePaymentException, LateCreate, Buyer, Inform, GiveUp, orderVars
<1>4. ASSUME NEW o \in Orders, PassDeadline(o) \/ LeaseElapses(o) PROVE Same
  BY <1>4 DEF PassDeadline, LeaseElapses, orderVars, orderCore
<1>5. CASE UNCHANGED vars BY <1>5 DEF vars, orderVars
<1> QED BY <1>1, <1>2, <1>3, <1>4, <1>5 DEF Next, ExpirerStep, Request

\* Only createPayment adds a row.
LEMMA NewRow ==
    ASSUME TypeInv, [Next]_vars, NEW p \in Payments,
           payStatus[p] = "NONE", payStatus'[p] # "NONE"
    PROVE  \E h \in Procs : CreatePayment(h, p)
<1>1. payStatus \in [Payments -> RowStatus] BY DEF TypeInv, TypeOK
<1>2. ASSUME NEW h \in Procs, ApiStep(h) \/ CallStep(h) PROVE FALSE
  <2>1. GoodHandler(proc[h]) BY HandlerFacts
  <2>2. CASE ObserveCreate(h)
    BY <1>1, <2>1, <2>2 DEF ObserveCreate, GoodHandler, updatePaymentObservation
  <2>3. CASE SettleNotice(h)
    BY <1>1, <2>1, <2>3 DEF SettleNotice, GoodHandler, markPaymentSucceeded, paymentVars
  <2>4. CASE ApplyQuery(h)
    BY <1>1, <2>1, <2>4 DEF ApplyQuery, GoodHandler, markPaymentSucceeded, paymentVars,
                            updatePaymentObservation
  <2>5. CASE ConfirmClose(h)
    BY <1>1, <2>1, <2>5 DEF ConfirmClose, GoodHandler, paymentVars
  <2>6. CASE \/ DispatchCreate(h) \/ ObservationThrows(h) \/ SettlementThrows(h)
             \/ AcknowledgeNotice(h) \/ ChannelQuery(h) \/ QueryThrows(h)
             \/ ChannelClose(h) \/ CloseThrows(h)
    BY <2>6 DEF DispatchCreate, ObservationThrows, SettlementThrows, AcknowledgeNotice,
                ChannelQuery, QueryThrows, ChannelClose, CloseThrows, paymentVars
  <2> QED BY <1>2, <2>2, <2>3, <2>4, <2>5, <2>6 DEF ApiStep, CallStep
<1>3. ASSUME NEW h \in Procs,
             \/ ExpirerStep(h) \/ RecovererStep(h) \/ Crash(h)
             \/ \E pay \in Payments : \/ StartQuery(h, pay) \/ StartClose(h, pay)
                                      \/ AnyNotice(h, pay) \/ ClaimRecovery(h, pay)
             \/ \E o \in Orders : ClaimExpiration(h, o)
      PROVE  FALSE
  BY <1>3 DEF ExpirerStep, RecovererStep, Crash, ClaimRecovery, ClaimExpiration, LoadOrder,
              LoadPayments, VisitPayment, AfterQuery, AfterClose, releaseExpiration,
              CloseOrder, ExpireFailRead, ExpireFailWrite, RecoverQuery, AfterRecovery,
              RecoverRead, RecoverWrite, StartQuery, StartClose, AnyNotice, ReceiveNotice,
              paymentVars,
              notExpiration, notRecovery
<1>4. ASSUME NEW h \in Procs, NEW pay \in Payments, CreatePayment(h, pay) PROVE pay = p
  BY <1>1, <1>4 DEF CreatePayment
<1>5. ASSUME NEW pay \in Payments,
             \/ Credit(pay) \/ UpdatePaymentException(pay) \/ LateCreate(pay)
             \/ Buyer(pay) \/ Inform(pay) \/ GiveUp(pay)
      PROVE  FALSE
  BY <1>1, <1>5 DEF Credit, markPaymentSucceeded, UpdatePaymentException, LateCreate, Buyer,
                    Inform, GiveUp, paymentVars
<1>6. ASSUME NEW o \in Orders,
             RefundWinner(o) \/ PassDeadline(o) \/ BackoffElapses(o) \/ LeaseElapses(o)
      PROVE  FALSE
  BY <1>6 DEF RefundWinner, PassDeadline, BackoffElapses, LeaseElapses, paymentVars,
              notExpiration
<1>7. CASE UNCHANGED vars BY <1>7 DEF vars, paymentVars
<1> QED BY <1>2, <1>3, <1>4, <1>5, <1>6, <1>7 DEF Next, Request

\* An attempt becomes active only when it is created, for an order that is open.
LEMMA ActiveStep ==
    ASSUME TypeInv, [Next]_vars, NEW p \in Payments, payStatus'[p] \in ActivePayment
    PROVE  \/ payStatus[p] \in ActivePayment
           \/ orderStatus'[OrderOf[p]] # "CLOSED"
<1>1. CASE payStatus[p] # "NONE"
  <2>1. payStatus'[p] = payStatus[p] \/ canPaymentTransition(payStatus[p], payStatus'[p])
    BY <1>1, StepEdge DEF OneEdge, TypeInv, TypeOK
  <2> QED BY <1>1, <2>1 DEF TypeInv, TypeOK, RowStatus, PaymentStatus, canPaymentTransition,
                            paymentTransitions, ActivePayment
<1>2. CASE payStatus[p] = "NONE"
  <2>1. PICK h \in Procs : CreatePayment(h, p) BY <1>2, NewRow DEF ActivePayment
  <2> QED BY <2>1, PaymentAssumption DEF CreatePayment, TypeInv, TypeOK
<1> QED BY <1>1, <1>2

\* An order is closed only over attempts none of which can still succeed.
LEMMA ClosingStep ==
    ASSUME TypeInv, [Next]_vars, NEW o \in Orders, orderStatus'[o] = "CLOSED"
    PROVE  orderStatus[o] = "CLOSED" \/ (AllClosed(o) /\ UNCHANGED payStatus)
<1>1. orderStatus \in [Orders -> OrderStatus] BY DEF TypeInv, TypeOK
<1>2. ASSUME NEW pay \in Payments, markPaymentSucceeded(pay) PROVE orderStatus[o] = "CLOSED"
  BY <1>1, <1>2 DEF markPaymentSucceeded, orderVars
<1>3. ASSUME NEW h \in Procs, CloseOrder(h)
      PROVE  orderStatus[o] = "CLOSED" \/ (AllClosed(o) /\ UNCHANGED payStatus)
  BY <1>1, <1>3 DEF CloseOrder, notExpiration, paymentVars
<1>4. ASSUME NEW h \in Procs, NEW pay \in Payments, CreatePayment(h, pay)
      PROVE  orderStatus[o] = "CLOSED"
  BY <1>1, <1>4 DEF CreatePayment
<1>5. ASSUME NEW q \in Orders, RefundWinner(q) PROVE orderStatus[o] = "CLOSED"
  BY <1>1, <1>5 DEF RefundWinner
<1>6. ASSUME NEW h \in Procs, releaseExpiration(h) \/ ExpireFailWrite(h)
      PROVE  UNCHANGED orderStatus
  BY <1>6 DEF releaseExpiration, ExpireFailWrite, orderCore
<1>7. ASSUME NEW q \in Orders, BackoffElapses(q) PROVE UNCHANGED orderStatus
  BY <1>7 DEF BackoffElapses, orderCore
<1> QED BY <1>2, <1>3, <1>4, <1>5, <1>6, <1>7, ScheduleSteps

\* A closed order has no attempt a customer could still be paying, whatever
\* createPayment does meanwhile and however many runs of the expiration overlap.
THEOREM ClosedOrderIsQuietCorrect == Spec => []ClosedOrderIsQuiet
<1>1. Init => ClosedOrderIsQuiet
  BY PaymentAssumption DEF Init, ClosedOrderIsQuiet
<1>2. TypeInv /\ ClosedOrderIsQuiet /\ [Next]_vars => ClosedOrderIsQuiet'
  <2> SUFFICES ASSUME TypeInv, ClosedOrderIsQuiet, [Next]_vars, NEW p \in Payments,
                      orderStatus'[OrderOf[p]] = "CLOSED", payStatus'[p] \in ActivePayment
               PROVE  FALSE
    BY DEF ClosedOrderIsQuiet
  <2>1. payStatus[p] \in ActivePayment BY ActiveStep
  <2>2. orderStatus[OrderOf[p]] # "CLOSED" BY <2>1 DEF ClosedOrderIsQuiet
  <2>3. AllClosed(OrderOf[p]) BY <2>2, ClosingStep, PaymentAssumption
  <2> QED BY <2>1, <2>3 DEF AllClosed
<1> QED BY <1>1, <1>2, TypeInit, TypeStep, PTL DEF Spec

-----------------------------------------------------------------------------
(* What a run of the expiration knows of the order it has taken.           *)

Visiting == {"query", "apply", "close", "confirm", "afterQuery", "afterClose"}

\* A run visits attempts of its own order, a success it has read is one, and it
\* releases an order only when that is paid.
Known(h) ==
    LET at == proc[h].pc
        pay == proc[h].pay
        o == proc[h].order
    IN
    /\ at = "release" => o \in Orders /\ Paid(o)
    /\ h \in Expirers =>
          /\ at # "recover"
          /\ at \in Visiting \cup {"loop"} => \A p \in proc[h].todo : OrderOf[p] = o
          /\ at \in Visiting => OrderOf[pay] = o
          /\ at \in {"query", "apply"} /\ proc[h].seen = "SUCCESS" => Settled(pay)
          /\ at \in {"afterQuery", "afterClose"} /\ proc[h].res = "SUCCESS" => Settled(pay)

\* A settled payment has its order paid, by itself or by an earlier one.
SettledIsPaid == \A p \in Payments : Settled(p) => Paid(OrderOf[p])

\* The inductive invariant of the schedule.
Scheduled == SettledIsPaid /\ UnpaidStaysScheduled /\ \A h \in Procs : Known(h)

\* The steps after which a handler holds something of an order.
LEMMA WhoKnows ==
    ASSUME TypeInv, [Next]_vars, NEW g \in Procs
    PROVE  \/ proc'[g] = proc[g]
           \/ proc'[g].pc \notin Visiting \cup {"loop", "release", "recover"}
           \/ LoadPayments(g) \/ VisitPayment(g) \/ AfterQuery(g) \/ AfterClose(g)
           \/ CallStep(g) \/ RecoverQuery(g)
           \/ g \notin Expirers /\ proc'[g].pc # "release"
<1> DEFINE Nothing == \/ proc'[g] = proc[g]
                      \/ proc'[g].pc \notin Visiting \cup {"loop", "release", "recover"}
           Other == g \notin Expirers /\ proc'[g].pc # "release"
<1> USE DEF Visiting
<1>1. proc \in [Procs -> ProcState] BY DEF TypeInv, TypeOK
<1>2. ASSUME NEW h \in Procs, NEW state, Become(h, state), h # g PROVE Nothing
  BY <1>1, <1>2 DEF Become
<1>3. ASSUME NEW h \in Procs, Become(h, Idle) PROVE Nothing
  BY <1>1, <1>3 DEF Become, Idle
<1>4. ASSUME NEW h \in Procs, NEW at, NEW pay, NEW result, Return(h, at, pay, result), h # g
      PROVE  Nothing
  BY <1>1, <1>4 DEF Return, Become
<1>5. ASSUME NEW h \in Procs, NEW pay, QueryRead(h, pay) \/ CloseRead(h, pay), h # g
      PROVE  Nothing
  <2>1. CASE QueryRead(h, pay) BY <1>1, <1>5, <2>1 DEF QueryRead, Become
  <2>2. CASE CloseRead(h, pay)
    <3>1. CASE Become(h, [proc[h] EXCEPT !.pc = "close", !.pay = pay, !.res = "NONE"])
      BY <1>2, <1>5, <3>1
    <3> QED BY <1>4, <1>5, <2>2, <3>1 DEF CloseRead
  <2> QED BY <1>5, <2>1, <2>2
<1> HIDE DEF Nothing
<1>6. ASSUME NEW h \in Procs, ApiStep(h) PROVE Nothing
  <2>1. CASE DispatchCreate(h)
    <3>1. PICK status : Become(h, [proc[h] EXCEPT !.pc = "observe", !.res = status])
      BY <2>1 DEF DispatchCreate
    <3> QED BY <1>1, <3>1 DEF Become, ProcState, Nothing
  <2>2. CASE ObservationThrows(h)
    BY <1>1, <2>2 DEF ObservationThrows, Become, ProcState, Nothing
  <2>3. CASE ObserveCreate(h) \/ SettlementThrows(h) \/ AcknowledgeNotice(h)
    BY <1>3, <2>3 DEF ObserveCreate, SettlementThrows, AcknowledgeNotice
  <2>4. CASE SettleNotice(h)
    BY <1>1, <2>4 DEF SettleNotice, Become, ProcState, Nothing
  <2> QED BY <1>6, <2>1, <2>2, <2>3, <2>4 DEF ApiStep
<1>7. ASSUME NEW h \in Procs, CallStep(h), h # g PROVE Nothing
  <2>1. CASE ChannelQuery(h) BY <1>2, <1>7, <2>1 DEF ChannelQuery
  <2>2. CASE ChannelClose(h) BY <1>2, <1>7, <2>2 DEF ChannelClose
  <2>3. CASE QueryThrows(h) BY <1>4, <1>7, <2>3 DEF QueryThrows
  <2>4. CASE CloseThrows(h) BY <1>4, <1>7, <2>4 DEF CloseThrows
  <2>5. CASE ApplyQuery(h) BY <1>4, <1>7, <2>5 DEF ApplyQuery
  <2>6. CASE ConfirmClose(h) BY <1>4, <1>7, <2>6 DEF ConfirmClose
  <2> QED BY <1>7, <2>1, <2>2, <2>3, <2>4, <2>5, <2>6 DEF CallStep
<1>8. ASSUME NEW h \in Procs,
             LoadPayments(h) \/ VisitPayment(h) \/ AfterQuery(h) \/ AfterClose(h), h # g
      PROVE  Nothing
  <2>1. CASE LoadPayments(h) BY <1>2, <1>8, <2>1 DEF LoadPayments
  <2>2. CASE AfterClose(h) BY <1>2, <1>8, <2>2 DEF AfterClose
  <2>3. CASE VisitPayment(h) BY <1>2, <1>5, <1>8, <2>3 DEF VisitPayment
  <2>4. CASE AfterQuery(h) BY <1>2, <1>5, <1>8, <2>4 DEF AfterQuery
  <2> QED BY <1>8, <2>1, <2>2, <2>3, <2>4
<1>9. ASSUME NEW h \in Procs,
             \/ LoadOrder(h) \/ CloseOrder(h) \/ releaseExpiration(h)
             \/ ExpireFailRead(h) \/ ExpireFailWrite(h)
      PROVE  Nothing
  <2> DEFINE at(pc) == [proc[h] EXCEPT !.pc = pc]
  <2>1. ASSUME NEW pc \in {"loadPayments", "expireFail"}, Become(h, at(pc)) PROVE Nothing
    BY <1>1, <2>1 DEF Become, ProcState, Nothing
  <2>2. CASE LoadOrder(h) \/ CloseOrder(h)
    <3>1. Become(h, at("loadPayments")) \/ Become(h, at("expireFail")) \/ Become(h, Idle)
      BY <2>2 DEF LoadOrder, CloseOrder
    <3> QED BY <1>3, <2>1, <3>1
  <2>3. CASE ExpireFailRead(h)
    <3>1. CASE Become(h, [Idle EXCEPT !.pc = "expireFailWrite", !.order = proc[h].order])
      BY <1>1, <3>1 DEF Become, Idle, Nothing
    <3> QED BY <1>3, <2>3, <3>1 DEF ExpireFailRead
  <2>4. CASE releaseExpiration(h) \/ ExpireFailWrite(h)
    BY <1>3, <2>4 DEF releaseExpiration, ExpireFailWrite
  <2> QED BY <1>9, <2>2, <2>3, <2>4
<1>10. ASSUME NEW h \in Procs, RecovererStep(h) PROVE Nothing \/ RecoverQuery(g)
  <2>1. CASE RecoverQuery(h) BY <1>5, <2>1 DEF RecoverQuery
  <2>2. CASE RecoverRead(h)
    <3>1. CASE Become(h, [proc[h] EXCEPT !.pc = "recoverWrite"])
      BY <1>1, <3>1 DEF Become, ProcState, Nothing
    <3> QED BY <1>3, <2>2, <3>1 DEF RecoverRead
  <2>3. CASE AfterRecovery(h)
    <3>1. CASE \E pc \in {"recoverFail", "exhaust"} :
                   Become(h, [Idle EXCEPT !.pc = pc, !.pay = proc[h].pay,
                                          !.final = proc[h].final])
      BY <1>1, <3>1 DEF Become, Idle, Nothing
    <3> QED BY <1>3, <2>3, <3>1 DEF AfterRecovery
  <2>4. CASE RecoverWrite(h) BY <1>3, <2>4 DEF RecoverWrite
  <2> QED BY <1>10, <2>1, <2>2, <2>3, <2>4 DEF RecovererStep
<1>11. ASSUME NEW h \in Procs,
              \/ Crash(h)
              \/ \E pay \in Payments : ClaimRecovery(h, pay)
              \/ \E o \in Orders : ClaimExpiration(h, o)
       PROVE  Nothing \/ Other
  <2>1. CASE Crash(h) BY <1>3, <2>1 DEF Crash
  <2>2. ASSUME NEW pay \in Payments, ClaimRecovery(h, pay) PROVE Nothing \/ Other
    <3>1. PICK final : Become(h, [Idle EXCEPT !.pc = "recover", !.pay = pay, !.final = final])
      BY <2>2 DEF ClaimRecovery
    <3>2. h \notin Expirers BY <2>2, PaymentAssumption DEF ClaimRecovery
    <3> QED BY <1>1, <3>1, <3>2 DEF Become, Idle, Nothing
  <2>3. ASSUME NEW o \in Orders, ClaimExpiration(h, o) PROVE Nothing
    BY <1>1, <2>3 DEF ClaimExpiration, Become, Idle, Nothing
  <2> QED BY <1>11, <2>1, <2>2, <2>3
<1>12. ASSUME NEW h \in Procs, NEW pay \in Payments, Request(h, pay) PROVE Nothing \/ Other
  <2>1. h \in Api /\ h \notin Expirers
    BY <1>12, PaymentAssumption
       DEF Request, CreatePayment, StartQuery, StartClose, AnyNotice, ReceiveNotice
  <2>2. CASE CreatePayment(h, pay)
    BY <1>1, <2>2 DEF CreatePayment, Become, Idle, Nothing
  <2>3. CASE StartQuery(h, pay)
    BY <1>1, <2>1, <2>3 DEF StartQuery, QueryRead, Become, ProcState, Nothing
  <2>4. CASE StartClose(h, pay)
    <3>1. CASE Become(h, [proc[h] EXCEPT !.pc = "close", !.pay = pay, !.res = "NONE"])
      BY <1>1, <2>1, <3>1 DEF Become, ProcState, Nothing
    <3> QED BY <1>3, <2>1, <2>4, <3>1 DEF StartClose, CloseRead, Return
  <2>5. CASE AnyNotice(h, pay)
    <3>1. PICK status \in NoticeStatus : ReceiveNotice(h, pay, status) BY <2>5 DEF AnyNotice
    <3>2. CASE UNCHANGED proc BY <3>2 DEF Nothing
    <3>3. CASE Become(h, [Idle EXCEPT !.pay = pay, !.res = status,
                              !.pc = IF status = "SUCCESS" THEN "settle" ELSE "acknowledge"])
      BY <1>1, <3>3 DEF Become, Idle, Nothing
    <3> QED BY <3>1, <3>2, <3>3 DEF ReceiveNotice
  <2> QED BY <1>12, <2>2, <2>3, <2>4, <2>5 DEF Request
<1>13. ASSUME UNCHANGED proc PROVE Nothing BY <1>13 DEF Nothing
<1>14. ASSUME UNCHANGED vars PROVE Nothing BY <1>13, <1>14 DEF vars
<1>15. ASSUME \/ \E pay \in Payments :
                    \/ Credit(pay) \/ UpdatePaymentException(pay)
                    \/ LateCreate(pay) \/ Buyer(pay) \/ Inform(pay) \/ GiveUp(pay)
              \/ \E o \in Orders :
                    \/ RefundWinner(o) \/ PassDeadline(o) \/ BackoffElapses(o)
                    \/ LeaseElapses(o)
       PROVE Nothing
  BY <1>13, <1>15 DEF Credit, UpdatePaymentException, LateCreate, Buyer, Inform, GiveUp,
                      RefundWinner, PassDeadline, BackoffElapses, LeaseElapses
<1>16. CASE Next
  BY <1>6, <1>7, <1>8, <1>9, <1>10, <1>11, <1>12, <1>15, <1>16
     DEF Next, ExpirerStep, Nothing
<1> QED BY <1>14, <1>16 DEF Nothing

\* What is known of a payment and an order stays known.
LEMMA KnownStays ==
    ASSUME TypeInv, Growing, NEW g \in Procs, Known(g), proc'[g] = proc[g]
    PROVE  Known(g)'
<1>1. GoodHandler(proc[g]) BY HandlerFacts
<1>2. proc[g].pc \in Visiting => proc[g].pay \in Payments
  BY <1>1 DEF GoodHandler, Visiting
<1> QED BY <1>2 DEF Known, Growing, Visiting, Paid, Settled

\* A result is handed to a run of the expiration for an attempt of its order.
LEMMA ReturnKnown ==
    ASSUME TypeInv, NEW g \in Procs, NEW pay \in Payments, NEW result,
           NEW at \in {"afterQuery", "afterClose"}, Return(g, at, pay, result),
           g \in Expirers => /\ OrderOf[pay] = proc[g].order
                             /\ \A p \in proc[g].todo : OrderOf[p] = proc[g].order
                             /\ result = "SUCCESS" => Settled(pay)'
    PROVE  Known(g)'
<1>1. proc \in [Procs -> ProcState] BY DEF TypeInv, TypeOK
<1>2. CASE g \in Api
  BY <1>1, <1>2, PaymentAssumption DEF Return, Become, Idle, Known
<1>3. CASE g \notin Api
  <2>1. /\ proc'[g].pc = at /\ proc'[g].pay = pay /\ proc'[g].res = result
        /\ proc'[g].order = proc[g].order /\ proc'[g].todo = proc[g].todo
    BY <1>1, <1>3 DEF Return, Become, ProcState
  <2> QED BY <2>1 DEF Known, Visiting
<1> QED BY <1>2, <1>3

\* closePayment reads an attempt of the order, and its status with it.
LEMMA CloseReadKnown ==
    ASSUME TypeInv, NEW g \in Expirers, NEW pay \in Payments, CloseRead(g, pay),
           UNCHANGED payStatus, OrderOf[pay] = proc[g].order,
           \A p \in proc[g].todo : OrderOf[p] = proc[g].order
    PROVE  Known(g)'
<1>1. g \in Procs /\ proc \in [Procs -> ProcState] BY DEF Procs, TypeInv, TypeOK
<1>2. CASE Become(g, [proc[g] EXCEPT !.pc = "close", !.pay = pay, !.res = "NONE"])
  <2>1. /\ proc'[g].pc = "close" /\ proc'[g].pay = pay
        /\ proc'[g].order = proc[g].order /\ proc'[g].todo = proc[g].todo
    BY <1>1, <1>2 DEF Become, ProcState
  <2> QED BY <2>1 DEF Known, Visiting
<1>3. CASE Return(g, "afterClose", pay, payStatus[pay])
  BY <1>1, <1>3, ReturnKnown DEF Settled
<1>4. CASE Return(g, "afterClose", pay, "error")
  BY <1>1, <1>4, ReturnKnown
<1> QED BY <1>2, <1>3, <1>4 DEF CloseRead

\* The steps of queryPayment and closePayment.
LEMMA CallKnown ==
    ASSUME TypeInv, Growing, NEW g \in Procs, Known(g), CallStep(g)
    PROVE  Known(g)'
<1> DEFINE pay == proc[g].pay
<1> USE DEF Visiting
<1>1. /\ proc \in [Procs -> ProcState] /\ payStatus \in [Payments -> RowStatus]
      /\ GoodHandler(proc[g])
  BY HandlerFacts DEF TypeInv, TypeOK
<1>2. /\ pay \in Payments
      /\ g \in Expirers => /\ OrderOf[pay] = proc[g].order
                           /\ \A p \in proc[g].todo : OrderOf[p] = proc[g].order
  BY <1>1 DEF CallStep, ChannelQuery, QueryThrows, ApplyQuery, ChannelClose, CloseThrows,
              ConfirmClose, GoodHandler, Known
<1>3. CASE ChannelQuery(g)
  <2>1. /\ proc'[g].pc = "apply" /\ proc'[g].pay = pay /\ proc'[g].seen = proc[g].seen
        /\ proc'[g].order = proc[g].order /\ proc'[g].todo = proc[g].todo
        /\ proc[g].pc = "query" /\ payStatus' = payStatus
    BY <1>1, <1>3 DEF ChannelQuery, Become, ProcState, paymentVars
  <2> QED BY <1>2, <2>1 DEF Known, Settled
<1>4. CASE ChannelClose(g)
  <2>1. /\ proc'[g].pc = "confirm" /\ proc'[g].pay = pay
        /\ proc'[g].order = proc[g].order /\ proc'[g].todo = proc[g].todo
    BY <1>1, <1>4 DEF ChannelClose, Become, ProcState
  <2> QED BY <1>2, <2>1 DEF Known
<1>5. CASE QueryThrows(g) BY <1>2, <1>5, ReturnKnown DEF QueryThrows
<1>6. CASE CloseThrows(g) BY <1>2, <1>6, ReturnKnown DEF CloseThrows
<1>7. CASE ConfirmClose(g)
  <2>1. CASE Return(g, "afterClose", pay, payStatus[pay]) /\ UNCHANGED paymentVars
    BY <1>2, <2>1, ReturnKnown DEF Settled, paymentVars
  <2>2. CASE Return(g, "afterClose", pay, "error") \/ Return(g, "afterClose", pay, "CLOSED")
    BY <1>2, <2>2, ReturnKnown
  <2> QED BY <1>7, <2>1, <2>2 DEF ConfirmClose
<1>8. CASE ApplyQuery(g)
  <2>1. CASE markPaymentSucceeded(pay) /\ Return(g, "afterQuery", pay, "SUCCESS")
    <3>1. payStatus'[pay] = "SUCCESS"
      BY <1>1, <1>2, <2>1 DEF markPaymentSucceeded, paymentVars, Settled
    <3> QED BY <1>2, <2>1, <3>1, ReturnKnown DEF Settled
  <2>2. ASSUME NEW result, Return(g, "afterQuery", pay, result),
               result = payStatus[pay] \/ result # "SUCCESS"
        PROVE  Known(g)'
    BY <1>2, <2>2, ReturnKnown DEF Growing, Settled
  <2>3. ASSUME Return(g, "afterQuery", pay, proc[g].seen), proc[g].pc = "apply"
        PROVE  Known(g)'
    <3>1. g \in Expirers /\ proc[g].seen = "SUCCESS" => payStatus'[pay] = "SUCCESS"
      BY <1>2, <2>3 DEF Growing, Known, Settled
    <3> QED BY <1>2, <2>3, <3>1, ReturnKnown DEF Settled
  <2>4. CASE \E result : /\ Return(g, "afterQuery", pay, result)
                         /\ result = payStatus[pay] \/ result # "SUCCESS"
    BY <2>2, <2>4
  <2>5. \/ markPaymentSucceeded(pay) /\ Return(g, "afterQuery", pay, "SUCCESS")
        \/ \E result : /\ Return(g, "afterQuery", pay, result)
                       /\ result = payStatus[pay] \/ result # "SUCCESS"
        \/ Return(g, "afterQuery", pay, proc[g].seen) /\ proc[g].pc = "apply"
    <3> DEFINE answer == proc[g].res
    <3>1. CASE Return(g, "afterQuery", pay,
                      IF Accepts(pay, answer) THEN answer ELSE payStatus[pay])
               /\ answer # "SUCCESS"
      BY <3>1
    <3>2. CASE Return(g, "afterQuery", pay,
                      IF proc[g].rearm THEN payStatus[pay] ELSE proc[g].seen)
               /\ proc[g].pc = "apply"
      BY <3>2
    <3> QED BY <1>8, <3>1, <3>2 DEF ApplyQuery
  <2> QED BY <2>1, <2>3, <2>4, <2>5
<1> QED BY <1>3, <1>4, <1>5, <1>6, <1>7, <1>8 DEF CallStep

\* The steps of the loop over the attempts.
LEMMA LoopKnown ==
    ASSUME TypeInv, SettledIsPaid, NEW g \in Procs, Known(g),
           \/ LoadPayments(g) \/ VisitPayment(g) \/ AfterQuery(g) \/ AfterClose(g)
    PROVE  Known(g)'
<1> DEFINE pay == proc[g].pay
           o == proc[g].order
           at(pc) == [proc[g] EXCEPT !.pc = pc]
<1> USE DEF Visiting
<1>1. /\ proc \in [Procs -> ProcState] /\ UNCHANGED <<payStatus, orderStatus>>
      /\ GoodHandler(proc[g])
  BY HandlerFacts DEF TypeInv, TypeOK, LoadPayments, VisitPayment, AfterQuery, AfterClose,
                      notExpiration, paymentVars, orderVars
<1>2. CASE Become(g, at("expireFail"))
  BY <1>1, <1>2 DEF Become, ProcState, Known
<1>3. ASSUME Become(g, at("release")), g \in Expirers,
             proc[g].pc \in {"afterQuery", "afterClose"}, proc[g].res = "SUCCESS"
      PROVE  Known(g)'
  <2>1. proc'[g].pc = "release" /\ proc'[g].order = o
    BY <1>1, <1>3 DEF Become, ProcState
  <2>2. pay \in Payments /\ Settled(pay) /\ OrderOf[pay] = o
    BY <1>1, <1>3 DEF GoodHandler, Known
  <2>3. o \in Orders /\ Paid(o) BY <2>2, PaymentAssumption DEF SettledIsPaid
  <2> QED BY <1>1, <2>1, <2>3 DEF Known, Paid
<1>4. CASE LoadPayments(g)
  <2>1. PICK T : Become(g, [proc[g] EXCEPT !.pc = "loop",
                  !.todo = {p \in Payments : OrderOf[p] = o
                                /\ payStatus[p] \in ActivePayment \cup {"SUCCESS"}},
                  !.paidSeen = T])
    BY <1>4 DEF LoadPayments
  <2>2. /\ proc'[g].pc = "loop" /\ proc'[g].order = o
        /\ \A p \in proc'[g].todo : OrderOf[p] = o
    BY <1>1, <2>1 DEF Become, ProcState
  <2> QED BY <2>2 DEF Known
<1>5. CASE VisitPayment(g)
  <2>1. PICK p \in proc[g].todo :
            \/ Become(g, at("expireFail"))
            \/ QueryRead(g, p) \/ CloseRead(g, p)
    BY <1>5 DEF VisitPayment
  <2>2. p \in Payments BY <1>1 DEF ProcState
  <2>3. g \in Expirers => OrderOf[p] = o /\ \A q \in proc[g].todo : OrderOf[q] = o
    BY <1>5 DEF VisitPayment, Known
  <2>4. CASE QueryRead(g, p)
    <3>1. /\ proc'[g].pc = "query" /\ proc'[g].pay = p /\ proc'[g].seen = payStatus[p]
          /\ proc'[g].order = o /\ proc'[g].todo = proc[g].todo
      BY <1>1, <2>4 DEF QueryRead, Become, ProcState
    <3> QED BY <1>1, <2>3, <3>1 DEF Known, Settled
  <2>5. CASE CloseRead(g, p) /\ g \in Expirers
    BY <1>1, <2>2, <2>3, <2>5, CloseReadKnown
  <2>6. CASE CloseRead(g, p) /\ g \notin Expirers
    <3>1. CASE Become(g, [proc[g] EXCEPT !.pc = "close", !.pay = p, !.res = "NONE"])
      BY <1>1, <2>6, <3>1 DEF Become, ProcState, Known
    <3> QED BY <2>2, <2>6, <3>1, ReturnKnown DEF CloseRead
  <2> QED BY <1>2, <2>1, <2>4, <2>5, <2>6
<1>6. CASE AfterQuery(g)
  <2>1. /\ pay \in Payments /\ OrderOf[pay] = o
        /\ \A q \in proc[g].todo : OrderOf[q] = o
    BY <1>1, <1>6 DEF AfterQuery, GoodHandler, Known
  <2> QED BY <1>1, <1>2, <1>3, <1>6, <2>1, CloseReadKnown DEF AfterQuery
<1>7. CASE AfterClose(g)
  <2>1. CASE Become(g, [proc[g] EXCEPT !.pc = "loop", !.todo = @ \ {proc[g].pay},
                                       !.pay = None, !.res = "NONE"])
    <3>1. /\ proc'[g].pc = "loop" /\ proc'[g].order = o
          /\ proc'[g].todo = proc[g].todo \ {pay}
      BY <1>1, <2>1 DEF Become, ProcState
    <3>2. \A q \in proc[g].todo : OrderOf[q] = o BY <1>7 DEF AfterClose, Known
    <3> QED BY <3>1, <3>2 DEF Known
  <2> QED BY <1>2, <1>3, <1>7, <2>1 DEF AfterClose
<1> QED BY <1>4, <1>5, <1>6, <1>7

\* What a handler holds of an order is true when it acts on it.
LEMMA KnownStep ==
    ASSUME TypeInv, Growing, SettledIsPaid, [Next]_vars, NEW g \in Procs, Known(g)
    PROVE  Known(g)'
<1>1. proc \in [Procs -> ProcState] BY DEF TypeInv, TypeOK
<1>2. CASE proc'[g] = proc[g] BY <1>2, KnownStays
<1>3. CASE proc'[g].pc \notin Visiting \cup {"loop", "release", "recover"}
  BY <1>3 DEF Known, Visiting
<1>4. CASE LoadPayments(g) \/ VisitPayment(g) \/ AfterQuery(g) \/ AfterClose(g)
  BY <1>4, LoopKnown
<1>5. CASE CallStep(g) BY <1>5, CallKnown
<1>6. CASE g \notin Expirers /\ proc'[g].pc # "release" BY <1>6 DEF Known
<1>7. CASE RecoverQuery(g)
  <2>1. g \notin Expirers BY <1>7 DEF RecoverQuery, Known
  <2>2. proc'[g].pc = "query" BY <1>1, <1>7 DEF RecoverQuery, QueryRead, Become, ProcState
  <2> QED BY <1>6, <2>1, <2>2
<1> QED BY <1>2, <1>3, <1>4, <1>5, <1>6, <1>7, WhoKnows

\* A success that does not win finds its order paid already.
LEMMA SettledIsPaidStep ==
    ASSUME TypeInv, Accounting, Growing, SettledIsPaid, [Next]_vars
    PROVE  SettledIsPaid'
<1> SUFFICES ASSUME NEW p \in Payments, Settled(p)' PROVE Paid(OrderOf[p])'
  BY DEF SettledIsPaid
<1>1. OrderOf[p] \in Orders BY PaymentAssumption
<1>2. CASE Settled(p) BY <1>1, <1>2 DEF SettledIsPaid, Growing
<1>3. CASE ~Settled(p)
  <2>1. PICK pay \in Payments : markPaymentSucceeded(pay)
    BY <1>3, StepKinds DEF Accounting, Quiet
  <2>2. payStatus'[p] = "SUCCESS" /\ payStatus[p] # "SUCCESS" BY <1>3 DEF Settled
  <2>3. pay = p
    BY <2>1, <2>2 DEF markPaymentSucceeded, paymentVars, TypeInv, TypeOK
  <2> QED BY <1>1, <2>1, <2>2, <2>3 DEF markPaymentSucceeded, isLateDuplicate, orderVars,
                                        Paid, PaidOrder, TypeInv, TypeOK
<1> QED BY <1>2, <1>3

\* Only an order that no longer waits for money leaves the schedule.
LEMMA ScheduledOrder ==
    ASSUME TypeInv, Accounting, SettledIsPaid, UnpaidStaysScheduled,
           \A h \in Procs : Known(h), [Next]_vars, NEW o \in Orders,
           orderStatus'[o] \in PayableOrder
    PROVE  expirationNext'[o] # "none"
<1>1. /\ orderStatus \in [Orders -> OrderStatus]
      /\ expirationNext \in [Orders -> {"none", "later", "due"}]
      /\ orderStatus[o] \in PayableOrder => expirationNext[o] # "none"
  BY DEF TypeInv, TypeOK, UnpaidStaysScheduled
<1>2. CASE UNCHANGED <<orderStatus, expirationNext>> BY <1>1, <1>2
<1>3. ASSUME NEW pay \in Payments, markPaymentSucceeded(pay) PROVE expirationNext'[o] # "none"
  <2>1. CASE UNCHANGED orderVars BY <1>1, <2>1 DEF orderVars
  <2>2. CASE /\ orderStatus' = [orderStatus EXCEPT ![OrderOf[pay]] = "SUCCESS"]
             /\ expirationNext' = [expirationNext EXCEPT ![OrderOf[pay]] = "none"]
    BY <1>1, <2>2 DEF PayableOrder
  <2> QED BY <1>3, <2>1, <2>2 DEF markPaymentSucceeded
<1>4. ASSUME NEW h \in Procs, NEW pay \in Payments, CreatePayment(h, pay)
      PROVE  expirationNext'[o] # "none"
  BY <1>1, <1>4 DEF CreatePayment, Payable
<1>5. ASSUME NEW h \in Procs, CloseOrder(h) PROVE expirationNext'[o] # "none"
  BY <1>1, <1>5 DEF CloseOrder, Unscheduled, PayableOrder
<1>6. ASSUME NEW h \in Procs, releaseExpiration(h) PROVE expirationNext'[o] # "none"
  <2>1. Paid(proc[h].order) /\ orderStatus' = orderStatus
    BY <1>6 DEF releaseExpiration, Known, orderCore
  <2>2. o # proc[h].order BY <2>1 DEF Paid, PaidOrder, PayableOrder
  <2> QED BY <1>1, <1>6, <2>1, <2>2 DEF releaseExpiration, Unscheduled
<1>7. ASSUME NEW h \in Procs, ExpireFailWrite(h) PROVE expirationNext'[o] # "none"
  BY <1>1, <1>7 DEF ExpireFailWrite, orderCore
<1>8. ASSUME NEW q \in Orders, BackoffElapses(q) PROVE expirationNext'[o] # "none"
  BY <1>1, <1>8 DEF BackoffElapses, orderCore
<1>9. ASSUME NEW q \in Orders, RefundWinner(q) PROVE expirationNext'[o] # "none"
  BY <1>1, <1>9 DEF RefundWinner, PayableOrder
<1> QED BY <1>2, <1>3, <1>4, <1>5, <1>6, <1>7, <1>8, <1>9, ScheduleSteps

LEMMA ScheduledInit == Init => Scheduled
<1> SUFFICES ASSUME Init PROVE Scheduled OBVIOUS
<1>1. SettledIsPaid BY DEF Init, SettledIsPaid, Settled
<1>2. UnpaidStaysScheduled BY DEF Init, UnpaidStaysScheduled
<1>3. \A h \in Procs : Known(h) BY DEF Init, Known, Idle, Visiting
<1> QED BY <1>1, <1>2, <1>3 DEF Scheduled

LEMMA ScheduledStep ==
    TypeInv /\ Accounting /\ Scheduled /\ [Next]_vars => Scheduled'
<1> SUFFICES ASSUME TypeInv, Accounting, Scheduled, [Next]_vars PROVE Scheduled' OBVIOUS
<1> USE DEF Scheduled
<1>1. Growing BY StepGrows
<1>2. SettledIsPaid' BY <1>1, SettledIsPaidStep
<1>3. UnpaidStaysScheduled' BY ScheduledOrder DEF UnpaidStaysScheduled
<1>4. \A h \in Procs : Known(h)' BY <1>1, KnownStep
<1> QED BY <1>2, <1>3, <1>4

\* An order that still waits for money stays in the schedule of the expiration,
\* however many runs of it work on the order and whatever leases they outlive.
THEOREM UnpaidStaysScheduledCorrect == Spec => []UnpaidStaysScheduled
<1>1. Scheduled => UnpaidStaysScheduled BY DEF Scheduled
<1> QED BY <1>1, TypeInit, TypeStep, AccountingInit, AccountingStep, ScheduledInit,
           ScheduledStep, PTL DEF Spec

-----------------------------------------------------------------------------
(* What a run of the recovery knows of the payment it has taken.           *)

Recovering == {"recover", "query", "apply", "afterQuery", "exhaust", "recoverFail",
               "recoverWrite"}

\* Only a run of the recovery holds a last attempt, and the payment's attempts are
\* used up when it does.
Last(h) ==
    proc[h].final => /\ h \in Recoverers /\ proc[h].pc \in Recovering
                     /\ proc[h].pay \in Payments
                     /\ queryAttempts[proc[h].pay] >= RECOVERY_MAX_ATTEMPTS

LastAttempt == \A h \in Procs : Last(h)

\* A handler that does not move, that drops the mark, or that takes it one step
\* further with the same payment.
LEMMA LastStays ==
    ASSUME TypeInv, TypeInv', Growing, NEW g \in Procs, Last(g),
           \/ proc'[g] = proc[g]
           \/ ~proc'[g].final
           \/ /\ proc'[g].final = proc[g].final /\ proc'[g].pay = proc[g].pay
              /\ proc[g].final => proc'[g].pc \in Recovering
    PROVE  Last(g)'
<1>1. /\ queryAttempts \in [Payments -> Nat] /\ queryAttempts' \in [Payments -> Nat]
      /\ RECOVERY_MAX_ATTEMPTS \in Nat
  BY PaymentAssumption DEF TypeInv, TypeOK
<1>2. CASE ~proc'[g].final BY <1>2 DEF Last
<1>3. CASE proc'[g].final
  <2>1. /\ g \in Recoverers /\ proc'[g].pc \in Recovering /\ proc'[g].pay = proc[g].pay
        /\ proc[g].pay \in Payments
        /\ queryAttempts[proc[g].pay] >= RECOVERY_MAX_ATTEMPTS
    BY <1>3 DEF Last
  <2>2. queryAttempts'[proc[g].pay] >= queryAttempts[proc[g].pay]
    BY <2>1 DEF Growing
  <2> QED BY <1>1, <2>1, <2>2 DEF Last
<1> QED BY <1>2, <1>3

\* The steps of a handler that works on a call of queryPayment or closePayment.
LEMMA CallLast ==
    ASSUME TypeInv, TypeInv', Growing, NEW g \in Procs, Last(g), CallStep(g)
    PROVE  Last(g)'
<1> DEFINE Kept == \/ ~proc'[g].final
                   \/ /\ proc'[g].final = proc[g].final /\ proc'[g].pay = proc[g].pay
                      /\ proc[g].final => proc'[g].pc \in Recovering
<1> USE DEF Recovering
<1>1. proc \in [Procs -> ProcState] BY DEF TypeInv, TypeOK
<1>2. ASSUME NEW result, Return(g, "afterQuery", proc[g].pay, result) PROVE Kept
  <2>1. CASE g \in Api BY <1>1, <1>2, <2>1 DEF Return, Become, Idle
  <2>2. CASE g \notin Api
    <3>1. /\ proc'[g].pc = "afterQuery" /\ proc'[g].pay = proc[g].pay
          /\ proc'[g].final = proc[g].final
      BY <1>1, <1>2, <2>2 DEF Return, Become, ProcState
    <3> QED BY <3>1
  <2> QED BY <2>1, <2>2
<1>3. ASSUME NEW at, NEW result, Return(g, at, proc[g].pay, result), ~proc[g].final PROVE Kept
  <2>1. CASE g \in Api BY <1>1, <1>3, <2>1 DEF Return, Become, Idle
  <2>2. CASE g \notin Api
    <3>1. proc'[g].final = proc[g].final
      BY <1>1, <1>3, <2>2 DEF Return, Become, ProcState
    <3> QED BY <1>3, <3>1
  <2> QED BY <2>1, <2>2
<1>4. CASE ChannelQuery(g)
  <2>1. /\ proc'[g].pc = "apply" /\ proc'[g].pay = proc[g].pay
        /\ proc'[g].final = proc[g].final
    BY <1>1, <1>4 DEF ChannelQuery, Become, ProcState
  <2> QED BY <2>1, LastStays
<1>5. CASE QueryThrows(g) \/ ApplyQuery(g)
  <2>1. PICK result : Return(g, "afterQuery", proc[g].pay, result)
    BY <1>5 DEF QueryThrows, ApplyQuery
  <2> QED BY <1>2, <2>1, LastStays
<1>6. CASE ChannelClose(g) \/ CloseThrows(g) \/ ConfirmClose(g)
  <2>1. ~proc[g].final BY <1>6 DEF ChannelClose, CloseThrows, ConfirmClose, Last
  <2>2. CASE ChannelClose(g)
    <3>1. proc'[g].final = proc[g].final
      BY <1>1, <2>2 DEF ChannelClose, Become, ProcState
    <3> QED BY <2>1, <3>1, LastStays
  <2>3. CASE CloseThrows(g) \/ ConfirmClose(g)
    <3>1. PICK at, result : Return(g, at, proc[g].pay, result)
      BY <2>3 DEF CloseThrows, ConfirmClose
    <3> QED BY <1>3, <2>1, <3>1, LastStays
  <2> QED BY <1>6, <2>2, <2>3
<1> QED BY <1>4, <1>5, <1>6 DEF CallStep

\* The other steps that give a handler a new state.
LEMMA WorkLast ==
    ASSUME TypeInv, TypeInv', Growing, NEW g \in Procs, Last(g),
           \/ ApiStep(g) \/ ExpirerStep(g) \/ RecovererStep(g) \/ Crash(g)
    PROVE  Last(g)'
<1> USE DEF Recovering
<1>1. proc \in [Procs -> ProcState] BY DEF TypeInv, TypeOK
<1>2. ASSUME Become(g, Idle) PROVE Last(g)'
  <2>1. ~proc'[g].final BY <1>1, <1>2 DEF Become, Idle
  <2> QED BY <2>1, LastStays
<1>3. ASSUME NEW pc, Become(g, [proc[g] EXCEPT !.pc = pc]),
             ~proc[g].final \/ pc \in Recovering
      PROVE  Last(g)'
  <2>1. proc'[g].pc = pc /\ proc'[g].pay = proc[g].pay /\ proc'[g].final = proc[g].final
    BY <1>1, <1>3 DEF Become, ProcState
  <2> QED BY <1>3, <2>1, LastStays
<1>4. CASE ApiStep(g)
  <2>1. ~proc[g].final
    BY <1>4 DEF ApiStep, DispatchCreate, ObserveCreate, ObservationThrows, SettleNotice,
                SettlementThrows, AcknowledgeNotice, Last
  <2>2. CASE DispatchCreate(g) \/ ObservationThrows(g)
    <3>1. PICK pc, status : Become(g, [proc[g] EXCEPT !.pc = pc, !.res = status])
      <4>1. CASE DispatchCreate(g) BY <4>1 DEF DispatchCreate
      <4>2. CASE ObservationThrows(g)
        <5>1. [proc[g] EXCEPT !.res = "FAILED"]
                 = [proc[g] EXCEPT !.pc = proc[g].pc, !.res = "FAILED"]
          BY <1>1 DEF ProcState
        <5> QED BY <4>2, <5>1 DEF ObservationThrows
      <4> QED BY <2>2, <4>1, <4>2
    <3>2. proc'[g].final = proc[g].final BY <1>1, <3>1 DEF Become, ProcState
    <3> QED BY <2>1, <3>2, LastStays
  <2>3. CASE SettleNotice(g) BY <1>3, <2>1, <2>3 DEF SettleNotice
  <2>4. CASE ObserveCreate(g) \/ SettlementThrows(g) \/ AcknowledgeNotice(g)
    BY <1>2, <2>4 DEF ObserveCreate, SettlementThrows, AcknowledgeNotice
  <2> QED BY <1>4, <2>2, <2>3, <2>4 DEF ApiStep
<1>5. CASE RecovererStep(g)
  <2>1. CASE RecoverQuery(g)
    <3>1. /\ proc'[g].pc = "query" /\ proc'[g].pay = proc[g].pay
          /\ proc'[g].final = proc[g].final
      BY <1>1, <2>1 DEF RecoverQuery, QueryRead, Become, ProcState
    <3> QED BY <3>1, LastStays
  <2>2. CASE AfterRecovery(g)
    <3>1. CASE Become(g, Idle) BY <1>2, <3>1
    <3>2. ASSUME NEW pc \in {"recoverFail", "exhaust"},
                 Become(g, [Idle EXCEPT !.pc = pc, !.pay = proc[g].pay,
                                        !.final = proc[g].final])
          PROVE  Last(g)'
      <4>1. proc'[g].pc = pc /\ proc'[g].pay = proc[g].pay /\ proc'[g].final = proc[g].final
        BY <1>1, <3>2 DEF Become, Idle
      <4> QED BY <4>1, LastStays
    <3> QED BY <2>2, <3>1, <3>2 DEF AfterRecovery
  <2>3. CASE RecoverRead(g)
    <3>1. Become(g, Idle) \/ Become(g, [proc[g] EXCEPT !.pc = "recoverWrite"])
      BY <2>3 DEF RecoverRead
    <3> QED BY <1>2, <1>3, <3>1
  <2>4. CASE RecoverWrite(g) BY <1>2, <2>4 DEF RecoverWrite
  <2> QED BY <1>5, <2>1, <2>2, <2>3, <2>4 DEF RecovererStep
<1>6. CASE Crash(g) BY <1>2, <1>6 DEF Crash
<1>7. CASE ExpirerStep(g)
  <2>1. ~proc[g].final
    BY <1>7, PaymentAssumption
       DEF ExpirerStep, LoadOrder, LoadPayments, VisitPayment, AfterQuery, AfterClose,
           releaseExpiration, CloseOrder, ExpireFailRead, ExpireFailWrite, Last
  <2>2. ASSUME NEW pay, QueryRead(g, pay) \/ CloseRead(g, pay) PROVE Last(g)'
    <3>1. CASE QueryRead(g, pay)
      <4>1. proc'[g].final = proc[g].final
        BY <1>1, <3>1 DEF QueryRead, Become, ProcState
      <4> QED BY <2>1, <4>1, LastStays
    <3>2. ASSUME NEW result, Return(g, "afterClose", pay, result) PROVE Last(g)'
      <4>1. CASE g \in Api BY <1>2, <3>2, <4>1 DEF Return
      <4>2. CASE g \notin Api
        <5>1. proc'[g].final = proc[g].final
          BY <1>1, <3>2, <4>2 DEF Return, Become, ProcState
        <5> QED BY <2>1, <5>1, LastStays
      <4> QED BY <4>1, <4>2
    <3>3. CASE Become(g, [proc[g] EXCEPT !.pc = "close", !.pay = pay, !.res = "NONE"])
      <4>1. proc'[g].final = proc[g].final
        BY <1>1, <3>3 DEF Become, ProcState
      <4> QED BY <2>1, <4>1, LastStays
    <3> QED BY <2>2, <3>1, <3>2, <3>3 DEF CloseRead
  <2>3. CASE LoadPayments(g)
    <3>1. PICK T, U : Become(g, [proc[g] EXCEPT !.pc = "loop", !.todo = T, !.paidSeen = U])
      BY <2>3 DEF LoadPayments
    <3>2. proc'[g].final = proc[g].final BY <1>1, <3>1 DEF Become, ProcState
    <3> QED BY <2>1, <3>2, LastStays
  <2>4. CASE VisitPayment(g) BY <1>3, <2>1, <2>2, <2>4 DEF VisitPayment
  <2>5. CASE AfterQuery(g) BY <1>3, <2>1, <2>2, <2>5 DEF AfterQuery
  <2>6. CASE AfterClose(g)
    <3>1. CASE Become(g, [proc[g] EXCEPT !.pc = "loop", !.todo = @ \ {proc[g].pay},
                                         !.pay = None, !.res = "NONE"])
      <4>1. proc'[g].final = proc[g].final BY <1>1, <3>1 DEF Become, ProcState
      <4> QED BY <2>1, <4>1, LastStays
    <3> QED BY <1>3, <2>1, <2>6, <3>1 DEF AfterClose
  <2>7. CASE ExpireFailRead(g)
    <3>1. CASE Become(g, [Idle EXCEPT !.pc = "expireFailWrite", !.order = proc[g].order])
      <4>1. ~proc'[g].final BY <1>1, <3>1 DEF Become, Idle
      <4> QED BY <4>1, LastStays
    <3> QED BY <1>2, <2>7, <3>1 DEF ExpireFailRead
  <2>8. CASE LoadOrder(g) \/ CloseOrder(g)
    <3>1. Become(g, Idle) \/ \E pc : Become(g, [proc[g] EXCEPT !.pc = pc])
      BY <2>8 DEF LoadOrder, CloseOrder
    <3> QED BY <1>2, <1>3, <2>1, <3>1
  <2>9. CASE releaseExpiration(g) \/ ExpireFailWrite(g)
    BY <1>2, <2>9 DEF releaseExpiration, ExpireFailWrite
  <2> QED BY <1>7, <2>3, <2>4, <2>5, <2>6, <2>7, <2>8, <2>9 DEF ExpirerStep
<1> QED BY <1>4, <1>5, <1>6, <1>7

\* A step of a handler moves no other handler.
LEMMA MovesAlone ==
    ASSUME TypeInv, NEW h \in Procs, NEW g \in Procs, g # h,
           \/ ApiStep(h) \/ CallStep(h) \/ ExpirerStep(h) \/ RecovererStep(h) \/ Crash(h)
           \/ \E pay \in Payments : Request(h, pay) \/ ClaimRecovery(h, pay)
           \/ \E o \in Orders : ClaimExpiration(h, o)
    PROVE  proc'[g] = proc[g]
<1> DEFINE Moves == \E state : Become(h, state)
<1>1. proc \in [Procs -> ProcState] BY DEF TypeInv, TypeOK
<1>2. ASSUME Moves PROVE proc'[g] = proc[g] BY <1>1, <1>2 DEF Become
<1>3. ASSUME NEW pay, QueryRead(h, pay) \/ CloseRead(h, pay) PROVE Moves
  BY <1>3 DEF QueryRead, CloseRead, Return
<1>4. ASSUME ApiStep(h) PROVE Moves
  BY <1>4 DEF ApiStep, DispatchCreate, ObserveCreate, ObservationThrows, SettleNotice,
              SettlementThrows, AcknowledgeNotice
<1>5. ASSUME CallStep(h) PROVE Moves
  BY <1>5 DEF CallStep, ChannelQuery, QueryThrows, ApplyQuery, ChannelClose, CloseThrows,
              ConfirmClose, Return
<1>6. ASSUME ExpirerStep(h) PROVE Moves
  <2>1. CASE VisitPayment(h) BY <1>3, <2>1 DEF VisitPayment
  <2>2. CASE AfterQuery(h) BY <1>3, <2>2 DEF AfterQuery
  <2>3. CASE CloseOrder(h) BY <2>3 DEF CloseOrder
  <2>4. CASE LoadOrder(h) \/ LoadPayments(h) \/ AfterClose(h) \/ releaseExpiration(h)
             \/ ExpireFailRead(h) \/ ExpireFailWrite(h)
    BY <2>4 DEF LoadOrder, LoadPayments, AfterClose, releaseExpiration, ExpireFailRead,
                ExpireFailWrite
  <2> QED BY <1>6, <2>1, <2>2, <2>3, <2>4 DEF ExpirerStep
<1>7. ASSUME RecovererStep(h) \/ Crash(h) PROVE Moves
  BY <1>3, <1>7 DEF RecovererStep, RecoverQuery, AfterRecovery, RecoverRead, RecoverWrite,
                    Crash
<1>8. ASSUME NEW pay \in Payments, ClaimRecovery(h, pay) PROVE Moves
  BY <1>8 DEF ClaimRecovery
<1>9. ASSUME NEW o \in Orders, ClaimExpiration(h, o) PROVE Moves
  BY <1>9 DEF ClaimExpiration
<1>10. ASSUME NEW pay \in Payments, Request(h, pay) PROVE Moves \/ UNCHANGED proc
  BY <1>3, <1>10 DEF Request, CreatePayment, StartQuery, StartClose, AnyNotice, ReceiveNotice
<1> QED BY <1>2, <1>4, <1>5, <1>6, <1>7, <1>8, <1>9, <1>10

\* Whatever happens, a last attempt is known to be the last.
LEMMA LastStep ==
    ASSUME TypeInv, TypeInv', Growing, [Next]_vars, NEW g \in Procs, Last(g)
    PROVE  Last(g)'
<1>1. proc \in [Procs -> ProcState] BY DEF TypeInv, TypeOK
<1>2. CASE proc'[g] = proc[g] BY <1>2, LastStays
<1>3. ASSUME NEW pay \in Payments, ClaimRecovery(g, pay) PROVE Last(g)'
  <2> DEFINE final == queryAttempts[pay] + 1 >= RECOVERY_MAX_ATTEMPTS
  <2>1. g \in Recoverers /\ queryAttempts' = [queryAttempts EXCEPT ![pay] = @ + 1]
    BY <1>3 DEF ClaimRecovery
  <2>2. proc'[g] = [Idle EXCEPT !.pc = "recover", !.pay = pay, !.final = final]
    BY <1>1, <1>3 DEF ClaimRecovery, Become
  <2>3. proc'[g].pc = "recover" /\ proc'[g].pay = pay BY <2>2 DEF Idle
  <2>4. proc'[g].final = final
    <3> HIDE DEF final
    <3> QED BY <2>2 DEF Idle
  <2>5. queryAttempts'[pay] = queryAttempts[pay] + 1 BY <2>1 DEF TypeInv, TypeOK
  <2> QED BY <2>1, <2>3, <2>4, <2>5 DEF Last, Recovering
<1>4. ASSUME NEW o \in Orders, ClaimExpiration(g, o) PROVE Last(g)'
  <2>1. ~proc'[g].final BY <1>1, <1>4 DEF ClaimExpiration, Become, Idle
  <2> QED BY <2>1, LastStays
<1>5. ASSUME NEW pay \in Payments, Request(g, pay) PROVE Last(g)'
  <2>0. CASE AnyNotice(g, pay)
    BY <1>1, <2>0, NoticeMoves, LastStays DEF AnyNotice
  <2>1. ~proc[g].final \/ AnyNotice(g, pay)
    BY <1>5 DEF Request, CreatePayment, StartQuery, StartClose, Idle
  <2>2. CASE CreatePayment(g, pay)
    <3>1. ~proc'[g].final BY <1>1, <2>2 DEF CreatePayment, Become, Idle
    <3> QED BY <3>1, LastStays
  <2>3. CASE StartQuery(g, pay)
    <3>1. proc'[g].final = proc[g].final
      BY <1>1, <2>3 DEF StartQuery, QueryRead, Become, ProcState
    <3> QED BY <2>0, <2>1, <3>1, LastStays
  <2>4. CASE StartClose(g, pay)
    <3>1. CASE Become(g, [proc[g] EXCEPT !.pc = "close", !.pay = pay, !.res = "NONE"])
      <4>1. proc'[g].final = proc[g].final BY <1>1, <3>1 DEF Become, ProcState
      <4> QED BY <2>0, <2>1, <4>1, LastStays
    <3>2. CASE Become(g, Idle)
      <4>1. ~proc'[g].final BY <1>1, <3>2 DEF Become, Idle
      <4> QED BY <4>1, LastStays
    <3> QED BY <2>4, <3>1, <3>2 DEF StartClose, CloseRead, Return
  <2> QED BY <1>5, <2>0, <2>2, <2>3, <2>4 DEF Request
<1>6. CASE UNCHANGED vars BY <1>2, <1>6 DEF vars
<1>7. ASSUME \/ \E pay \in Payments :
                    \/ Credit(pay) \/ UpdatePaymentException(pay)
                    \/ LateCreate(pay) \/ Buyer(pay) \/ Inform(pay) \/ GiveUp(pay)
             \/ \E o \in Orders :
                    \/ RefundWinner(o) \/ PassDeadline(o) \/ BackoffElapses(o)
                    \/ LeaseElapses(o)
       PROVE Last(g)'
  BY <1>2, <1>7 DEF Credit, UpdatePaymentException, LateCreate, Buyer, Inform, GiveUp,
                    RefundWinner, PassDeadline, BackoffElapses, LeaseElapses
<1>8. ASSUME NEW h \in Procs,
             \/ ApiStep(h) \/ CallStep(h) \/ ExpirerStep(h) \/ RecovererStep(h) \/ Crash(h)
             \/ \E pay \in Payments : Request(h, pay) \/ ClaimRecovery(h, pay)
             \/ \E o \in Orders : ClaimExpiration(h, o)
      PROVE  Last(g)'
  <2>1. CASE h # g BY <1>2, <1>8, <2>1, MovesAlone
  <2>2. CASE h = g BY <1>3, <1>4, <1>5, <1>8, <2>2, CallLast, WorkLast
  <2> QED BY <2>1, <2>2
<1> QED BY <1>6, <1>7, <1>8 DEF Next

\* A payment whose result is open, with attempts left, stays on the worker's list.
LEMMA OpenStep ==
    ASSUME TypeInv, TypeInv', Growing, LastAttempt, OpenIsRediscovered, [Next]_vars,
           NEW p \in Payments, Alipay(p), payStatus'[p] \in Recoverable,
           queryAttempts'[p] < RECOVERY_MAX_ATTEMPTS
    PROVE  nextQueryAt'[p]
<1>1. /\ payStatus \in [Payments -> RowStatus] /\ nextQueryAt \in [Payments -> BOOLEAN]
      /\ queryAttempts[p] < RECOVERY_MAX_ATTEMPTS
  BY PaymentAssumption DEF TypeInv, TypeOK, Growing
<1>2. ASSUME payStatus'[p] = payStatus[p], nextQueryAt[p] => nextQueryAt'[p]
      PROVE  nextQueryAt'[p]
  BY <1>1, <1>2 DEF OpenIsRediscovered
<1>3. CASE UNCHANGED <<payStatus, nextQueryAt>> BY <1>2, <1>3
<1>4. ASSUME NEW pay \in Payments, markPaymentSucceeded(pay) PROVE nextQueryAt'[p]
  BY <1>1, <1>2, <1>4 DEF markPaymentSucceeded, paymentVars, Recoverable
<1>5. ASSUME NEW pay \in Payments, NEW status, updatePaymentObservation(pay, status)
      PROVE  nextQueryAt'[p]
  BY <1>1, <1>2, <1>5 DEF updatePaymentObservation
<1>6. ASSUME NEW h \in Procs, ConfirmClose(h) PROVE nextQueryAt'[p]
  BY <1>1, <1>2, <1>6 DEF ConfirmClose, paymentVars, Recoverable
<1>7. ASSUME NEW h \in Procs, NEW pay \in Payments, CreatePayment(h, pay)
      PROVE  nextQueryAt'[p]
  BY <1>1, <1>2, <1>7 DEF CreatePayment
<1>8. ASSUME NEW h \in Procs, RecoverWrite(h) PROVE nextQueryAt'[p]
  <2>1. nextQueryAt' = [nextQueryAt EXCEPT ![proc[h].pay] = ~proc[h].final]
        /\ payStatus' = payStatus
    BY <1>8 DEF RecoverWrite, notRecovery
  <2>2. CASE proc[h].final /\ proc[h].pay = p
    BY <1>1, <2>2, PaymentAssumption DEF LastAttempt, Last, TypeInv, TypeOK
  <2>3. CASE proc[h].pay # p BY <1>1, <1>2, <2>1, <2>3
  <2>4. CASE ~proc[h].final /\ proc[h].pay = p BY <1>1, <2>1, <2>4
  <2> QED BY <2>2, <2>3, <2>4, <1>1
<1>9. ASSUME NEW h \in Procs, NEW pay \in Payments,
             nextQueryAt' = [nextQueryAt EXCEPT ![pay] = @ \/ proc[h].rearm],
             UNCHANGED payStatus
      PROVE  nextQueryAt'[p]
  <2>1. nextQueryAt[p] => nextQueryAt'[p]
    <3>1. CASE pay = p BY <1>1, <1>9, <3>1, Zenon
    <3>2. CASE pay # p BY <1>1, <1>9, <3>2
    <3> QED BY <3>1, <3>2
  <2> QED BY <1>2, <1>9, <2>1
<1>10. ASSUME NEW h \in Procs, ApiStep(h) \/ CallStep(h) PROVE nextQueryAt'[p]
  <2>1. GoodHandler(proc[h]) BY HandlerFacts
  <2>2. CASE ObserveCreate(h)
    BY <1>5, <2>1, <2>2 DEF ObserveCreate, GoodHandler
  <2>3. CASE SettleNotice(h) BY <1>4, <2>1, <2>3 DEF SettleNotice, GoodHandler
  <2>4. CASE ApplyQuery(h)
    <3>1. proc[h].pay \in Payments BY <2>1, <2>4 DEF ApplyQuery, GoodHandler
    <3> QED BY <1>4, <1>5, <1>9, <2>4, <3>1 DEF ApplyQuery
  <2>5. CASE \/ DispatchCreate(h) \/ ObservationThrows(h) \/ SettlementThrows(h)
             \/ AcknowledgeNotice(h) \/ ChannelQuery(h) \/ QueryThrows(h)
             \/ ChannelClose(h) \/ CloseThrows(h)
    BY <1>3, <2>5 DEF DispatchCreate, ObservationThrows, SettlementThrows,
              AcknowledgeNotice, ChannelQuery, QueryThrows, ChannelClose, CloseThrows,
              paymentVars
  <2> QED BY <1>6, <1>10, <2>2, <2>3, <2>4, <2>5 DEF ApiStep, CallStep
<1>11. ASSUME NEW h \in Procs,
              \/ ExpirerStep(h) \/ Crash(h)
              \/ RecoverQuery(h) \/ AfterRecovery(h) \/ RecoverRead(h)
              \/ \E pay \in Payments : \/ StartQuery(h, pay) \/ StartClose(h, pay)
                                       \/ AnyNotice(h, pay) \/ ClaimRecovery(h, pay)
              \/ \E o \in Orders : ClaimExpiration(h, o)
       PROVE  nextQueryAt'[p]
  BY <1>3, <1>11
     DEF ExpirerStep, LoadOrder, LoadPayments, VisitPayment, AfterQuery, AfterClose,
         releaseExpiration, CloseOrder, ExpireFailRead, ExpireFailWrite, RecoverQuery,
         AfterRecovery, RecoverRead, Crash, StartQuery, StartClose, AnyNotice, ReceiveNotice,
         ClaimRecovery, ClaimExpiration, paymentVars, notExpiration, notRecovery
<1>12. ASSUME NEW pay \in Payments,
              \/ Credit(pay) \/ UpdatePaymentException(pay) \/ LateCreate(pay)
              \/ Buyer(pay) \/ Inform(pay) \/ GiveUp(pay)
       PROVE  nextQueryAt'[p]
  BY <1>3, <1>4, <1>12 DEF Credit, UpdatePaymentException, LateCreate, Buyer, Inform, GiveUp,
                           paymentVars
<1>13. ASSUME NEW o \in Orders,
              RefundWinner(o) \/ PassDeadline(o) \/ BackoffElapses(o) \/ LeaseElapses(o)
       PROVE  nextQueryAt'[p]
  BY <1>3, <1>13 DEF RefundWinner, PassDeadline, BackoffElapses, LeaseElapses, paymentVars,
                     notExpiration
<1>14. CASE UNCHANGED vars BY <1>3, <1>14 DEF vars, paymentVars
<1> QED BY <1>7, <1>8, <1>10, <1>11, <1>12, <1>13, <1>14 DEF Next, RecovererStep, Request

\* A payment whose result is open is on the worker's list until its attempts are
\* used up, whatever stale answer, late failure or lost handler intervenes.
THEOREM OpenIsRediscoveredCorrect == Spec => []OpenIsRediscovered
<1>1. Init => LastAttempt /\ OpenIsRediscovered
  BY DEF Init, LastAttempt, Last, Idle, OpenIsRediscovered, Recoverable
<1>2. TypeInv /\ TypeInv' /\ Accounting /\ LastAttempt /\ OpenIsRediscovered /\ [Next]_vars
         => LastAttempt' /\ OpenIsRediscovered'
  <2> SUFFICES ASSUME TypeInv, TypeInv', Accounting, LastAttempt, OpenIsRediscovered,
                      [Next]_vars
               PROVE  LastAttempt' /\ OpenIsRediscovered'
    OBVIOUS
  <2>1. Growing BY StepGrows
  <2>2. LastAttempt' BY <2>1, LastStep DEF LastAttempt
  <2>3. OpenIsRediscovered' BY <2>1, OpenStep DEF OpenIsRediscovered, Alipay
  <2> QED BY <2>2, <2>3
<1> QED BY <1>1, <1>2, TypeInit, TypeStep, AccountingInit, AccountingStep, PTL DEF Spec

=============================================================================
