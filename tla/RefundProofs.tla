---------------------------- MODULE RefundProofs ----------------------------
(***************************************************************************)
(* What the refunds guarantee, proved for every set of orders, payments,   *)
(* refunds and handlers, with any amounts and any number of crashes.       *)
(*                                                                         *)
(* The properties are about sums of amounts.  A sum is a fold, so first    *)
(* its laws: they are proved on the smallest set that would break them.    *)
(***************************************************************************)
EXTENDS Refund, FiniteSetTheorems, WellFoundedInduction, TLAPS

-----------------------------------------------------------------------------
(* Sums.  A total is a fold: it adds the amounts of a set one by one, in   *)
(* the order in which CHOOSE takes them.                                   *)

Taken(S) == CHOOSE r \in S : TRUE
Rest(S) == S \ {Taken(S)}

Adds(sum, S) == sum = [s \in SUBSET S |-> IF s = {} THEN 0 ELSE AmountOf[Taken(s)] + sum[Rest(s)]]
SumOf(S) == CHOOSE sum : Adds(sum, S)

LEMMA TotalIsSum == \A S : TotalOf(S) = SumOf(S)[S]
BY DEF TotalOf, MapThenSumSet, MapThenFoldSet, SumOf, Adds, Taken, Rest

LEMMA RestIsLess == \A S : S # {} => Taken(S) \in S /\ Rest(S) \subseteq S /\ Rest(S) # S
BY DEF Taken, Rest

\* Of some subsets of a finite set one has none of the others inside.
LEMMA SmallestSet ==
    ASSUME NEW S, IsFiniteSet(S), NEW T \in SUBSET (SUBSET S), T # {}
    PROVE  \E s \in T : \A u \in T : u \subseteq s => u = s
<1>1. IsWellFoundedOn(StrictSubsetOrdering(S), SUBSET S)
  BY FS_StrictSubsetOrderingWellFounded, FS_FiniteSubsetsOfFinite
<1>2. PICK s \in T : \A u \in T : ~(<<u, s>> \in StrictSubsetOrdering(S)) BY <1>1, WFMin
<1> QED BY <1>2 DEF StrictSubsetOrdering

LEMMA AddsTo ==
    ASSUME NEW sum, NEW S, Adds(sum, S), NEW s \in SUBSET S
    PROVE  sum[s] = IF s = {} THEN 0 ELSE AmountOf[Taken(s)] + sum[Rest(s)]
<1> DEFINE value(f, x) == IF x = {} THEN 0 ELSE AmountOf[Taken(x)] + f[Rest(x)]
<1>1. sum = [x \in SUBSET S |-> value(sum, x)] BY DEF Adds
<1> HIDE DEF value
<1>2. sum[s] = value(sum, s) BY <1>1
<1> QED BY <1>2 DEF value

\* What was added of a set is the same within a larger one.
LEMMA SumsAgree ==
    ASSUME NEW S, NEW T, IsFiniteSet(S), NEW f, NEW g, Adds(f, S), Adds(g, T)
    PROVE  \A s \in SUBSET (S \cap T) : f[s] = g[s]
<1> DEFINE Bad == {s \in SUBSET (S \cap T) : f[s] # g[s]}
<1> SUFFICES ASSUME Bad # {} PROVE FALSE OBVIOUS
<1>1. PICK s \in Bad : \A u \in Bad : u \subseteq s => u = s
  <2>1. Bad \in SUBSET (SUBSET S) OBVIOUS
  <2> HIDE DEF Bad
  <2> QED BY <2>1, SmallestSet
<1>2. s \in SUBSET S /\ s \in SUBSET T OBVIOUS
<1>3. CASE s = {} BY <1>2, <1>3, AddsTo
<1>4. CASE s # {}
  <2>1. f[Rest(s)] = g[Rest(s)] BY <1>1, <1>2, <1>4, RestIsLess
  <2> QED BY <1>2, <1>4, <2>1, AddsTo
<1> QED BY <1>3, <1>4

\* The fold has a value for every finite set: if the parts of a set have sums, it has one.
LEMMA SumExists == ASSUME NEW S, IsFiniteSet(S) PROVE Adds(SumOf(S), S)
<1> DEFINE Bad == {s \in SUBSET S : ~Adds(SumOf(s), s)}
<1> SUFFICES ASSUME Bad # {} PROVE FALSE OBVIOUS
<1>1. PICK s \in Bad : \A u \in Bad : u \subseteq s => u = s
  <2>1. Bad \in SUBSET (SUBSET S) OBVIOUS
  <2> HIDE DEF Bad
  <2> QED BY <2>1, SmallestSet
<1>2. \A u \in SUBSET s : u # s => Adds(SumOf(u), u) /\ IsFiniteSet(u)
  BY <1>1, FS_Subset
<1> DEFINE part(u) == SumOf(u)[u]
           sum == [u \in SUBSET s |-> IF u = {} THEN 0 ELSE AmountOf[Taken(u)] + part(Rest(u))]
<1>3. \A u \in SUBSET s : u # s => part(u) = sum[u]
  <2> SUFFICES ASSUME NEW u \in SUBSET s, u # s PROVE part(u) = sum[u] OBVIOUS
  <2>1. part(u) = IF u = {} THEN 0 ELSE AmountOf[Taken(u)] + SumOf(u)[Rest(u)]
    BY <1>2, AddsTo
  <2>2. ASSUME u # {} PROVE SumOf(u)[Rest(u)] = part(Rest(u))
    <3>1. Rest(u) \subseteq u /\ Rest(u) # s BY <2>2, RestIsLess
    <3>2. /\ Adds(SumOf(u), u) /\ Adds(SumOf(Rest(u)), Rest(u))
          /\ IsFiniteSet(u) /\ Rest(u) \in SUBSET (u \cap Rest(u))
      BY <1>2, <3>1
    <3> QED BY <3>2, SumsAgree
  <2> QED BY <2>1, <2>2
<1>4. Adds(sum, s)
  <2>1. ASSUME NEW u \in SUBSET s, u # {} PROVE part(Rest(u)) = sum[Rest(u)]
    <3>1. Rest(u) \in SUBSET s /\ Rest(u) # s BY <2>1, RestIsLess
    <3> HIDE DEF part, sum
    <3> QED BY <3>1, <1>3
  <2> DEFINE left(u) == IF u = {} THEN 0 ELSE AmountOf[Taken(u)] + part(Rest(u))
             right(u) == IF u = {} THEN 0 ELSE AmountOf[Taken(u)] + sum[Rest(u)]
  <2>2. \A u \in SUBSET s : left(u) = right(u) BY <2>1
  <2>3. sum = [u \in SUBSET s |-> left(u)] OBVIOUS
  <2> HIDE DEF left
  <2>4. sum = [u \in SUBSET s |-> right(u)] BY <2>2, <2>3
  <2> QED BY <2>4 DEF Adds
<1>5. Adds(SumOf(s), s) BY <1>4 DEF SumOf
<1> QED BY <1>1, <1>5

\* What the totals of refunds are: the sum of their amounts, in whatever order.
LEMMA TotalTakes ==
    ASSUME NEW S \in SUBSET Refunds
    PROVE  /\ S = {} => TotalOf(S) = 0
           /\ S # {} => TotalOf(S) = AmountOf[Taken(S)] + TotalOf(Rest(S))
<1>1. IsFiniteSet(S) BY FS_Subset, RefundAssumption
<1>2. TotalOf(S) = IF S = {} THEN 0 ELSE AmountOf[Taken(S)] + SumOf(S)[Rest(S)]
  BY <1>1, SumExists, AddsTo, TotalIsSum
<1>3. ASSUME S # {} PROVE SumOf(S)[Rest(S)] = TotalOf(Rest(S))
  <2>1. Rest(S) \in SUBSET (S \cap Rest(S)) /\ IsFiniteSet(Rest(S)) BY <1>1, <1>3, RestIsLess, FS_Subset
  <2>2. Adds(SumOf(S), S) /\ Adds(SumOf(Rest(S)), Rest(S)) BY <1>1, <2>1, SumExists
  <2>3. SumOf(S)[Rest(S)] = SumOf(Rest(S))[Rest(S)] BY <1>1, <2>1, <2>2, SumsAgree
  <2> QED BY <2>3, TotalIsSum
<1> QED BY <1>2, <1>3

LEMMA TotalNat == ASSUME NEW S \in SUBSET Refunds PROVE TotalOf(S) \in Nat
<1> DEFINE Bad == {s \in SUBSET Refunds : TotalOf(s) \notin Nat}
<1> SUFFICES ASSUME Bad # {} PROVE FALSE OBVIOUS
<1>1. PICK s \in Bad : \A u \in Bad : u \subseteq s => u = s
  <2>1. Bad \in SUBSET (SUBSET Refunds) OBVIOUS
  <2> HIDE DEF Bad
  <2> QED BY <2>1, SmallestSet, RefundAssumption
<1>2. s = {} \/ (AmountOf[Taken(s)] \in Nat /\ TotalOf(Rest(s)) \in Nat)
  BY <1>1, RestIsLess, RefundAssumption
<1>3. s \in SUBSET Refunds /\ TotalOf(s) \notin Nat OBVIOUS
<1> QED BY <1>2, <1>3, TotalTakes

LEMMA TotalAdds ==
    ASSUME NEW S \in SUBSET Refunds, NEW r \in S
    PROVE  TotalOf(S) = AmountOf[r] + TotalOf(S \ {r})
<1> DEFINE Bad == {s \in SUBSET Refunds : \E q \in s : TotalOf(s) # AmountOf[q] + TotalOf(s \ {q})}
<1> SUFFICES ASSUME Bad # {} PROVE FALSE OBVIOUS
<1>1. PICK s \in Bad : \A u \in Bad : u \subseteq s => u = s
  <2>1. Bad \in SUBSET (SUBSET Refunds) OBVIOUS
  <2> HIDE DEF Bad
  <2> QED BY <2>1, SmallestSet, RefundAssumption
<1>2. PICK q \in s : TotalOf(s) # AmountOf[q] + TotalOf(s \ {q}) OBVIOUS
<1> DEFINE c == Taken(s)
<1>3. /\ c \in s /\ s \in SUBSET Refunds /\ Rest(s) = s \ {c}
      /\ TotalOf(s) = AmountOf[c] + TotalOf(s \ {c})
  BY RestIsLess, TotalTakes DEF Rest
<1> HIDE DEF c
<1>4. c # q BY <1>2, <1>3
<1>5. /\ TotalOf(s \ {c}) = AmountOf[q] + TotalOf((s \ {c}) \ {q})
      /\ TotalOf(s \ {q}) = AmountOf[c] + TotalOf((s \ {q}) \ {c})
  <2>1. s \ {c} \notin Bad /\ s \ {q} \notin Bad BY <1>1, <1>3
  <2> QED BY <1>3, <1>4, <2>1
<1>6. (s \ {c}) \ {q} = (s \ {q}) \ {c} OBVIOUS
<1>7. /\ AmountOf[c] \in Nat /\ AmountOf[q] \in Nat /\ TotalOf((s \ {q}) \ {c}) \in Nat
  BY <1>3, RefundAssumption, TotalNat
<1> QED BY <1>2, <1>3, <1>5, <1>6, <1>7

LEMMA TotalGrows ==
    ASSUME NEW T \in SUBSET Refunds, NEW S \in SUBSET T
    PROVE  TotalOf(S) <= TotalOf(T)
<1> DEFINE Bad == {t \in SUBSET Refunds : \E s \in SUBSET t : ~(TotalOf(s) <= TotalOf(t))}
<1> SUFFICES ASSUME Bad # {} PROVE FALSE OBVIOUS
<1>1. PICK t \in Bad : \A u \in Bad : u \subseteq t => u = t
  <2>1. Bad \in SUBSET (SUBSET Refunds) OBVIOUS
  <2> HIDE DEF Bad
  <2> QED BY <2>1, SmallestSet, RefundAssumption
<1>2. PICK s \in SUBSET t : ~(TotalOf(s) <= TotalOf(t)) OBVIOUS
<1>3. s # t BY <1>2, TotalNat
<1>4. PICK r \in t : r \notin s BY <1>3
<1>5. TotalOf(s) <= TotalOf(t \ {r}) BY <1>1, <1>4
<1>6. TotalOf(t) = AmountOf[r] + TotalOf(t \ {r}) BY TotalAdds
<1>7. AmountOf[r] \in Nat /\ TotalOf(t \ {r}) \in Nat /\ TotalOf(s) \in Nat
  BY RefundAssumption, TotalNat
<1> QED BY <1>2, <1>5, <1>6, <1>7

-----------------------------------------------------------------------------
(* Types, and what the handlers hold.                                      *)

Hands == [pc : {"idle", "dispatch", "update", "finalize", "query", "keep", "recover",
                "afterQuery", "exhaust", "recoverFail", "recoverWrite"},
          refund : Refunds \cup {None}, seen : RefundStatus \cup {"NONE"},
          res : RefundStatus \cup {"NONE", "error", "rearm"}, final : BOOLEAN]

\* What a handler may hold while the rows are as they are.
Good(state) ==
    /\ state.pc # "idle" => state.refund \in Refunds /\ refundStatus[state.refund] # "NONE"
    /\ state.pc = "update" => state.res \in {"FAILED", "UNKNOWN", "PROCESSING"}
    /\ state.pc = "finalize" /\ Alipay(state.refund) => state.refund \in refunded
    /\ state.final => /\ state.refund \in Refunds
                      /\ queryAttempts[state.refund] >= RECOVERY_MAX_ATTEMPTS

Tracked == RefundTypeOK /\ \A h \in Procs : Good(proc[h])

LEMMA TrackedInit == Init => Tracked
<1> SUFFICES ASSUME Init PROVE Tracked OBVIOUS
<1>1. Idle \in Hands /\ Idle.pc = "idle" /\ Idle.final = FALSE BY DEF Idle, Hands, RefundStatus
<1>2. proc \in [Procs -> Hands] /\ \A h \in Procs : proc[h] = Idle BY <1>1 DEF Init
<1>3. \A h \in Procs : Good(proc[h]) BY <1>1, <1>2 DEF Good
<1> QED BY <1>2, <1>3, RefundAssumption DEF Tracked, Init, RefundTypeOK, Hands, RefundStatus

\* Rows are never deleted, nor is what was refunded or tried.
Grows ==
    /\ \A r \in Refunds : refundStatus[r] # "NONE" => refundStatus'[r] # "NONE"
    /\ refunded \subseteq refunded'
    /\ \A r \in Refunds : queryAttempts[r] <= queryAttempts'[r]

LEMMA GoodStays ==
    ASSUME Tracked, Grows, queryAttempts' \in [Refunds -> 0 .. RECOVERY_MAX_ATTEMPTS],
           NEW h \in Procs, proc'[h] = proc[h]
    PROVE  Good(proc[h])'
<1>1. Good(proc[h]) BY DEF Tracked
<1>2. \A r \in Refunds : queryAttempts[r] \in Nat /\ queryAttempts'[r] \in Nat
  BY RefundAssumption DEF Tracked, RefundTypeOK
<1>3. RECOVERY_MAX_ATTEMPTS \in Nat BY RefundAssumption
<1> QED BY <1>1, <1>2, <1>3 DEF Good, Grows

\* The handler that moves is the only one to look at.
LEMMA HandlerMoves ==
    ASSUME Tracked, Grows, queryAttempts' \in [Refunds -> 0 .. RECOVERY_MAX_ATTEMPTS],
           NEW h \in Procs, NEW state \in Hands, proc' = [proc EXCEPT ![h] = state], Good(state)'
    PROVE  proc' \in [Procs -> Hands] /\ \A g \in Procs : Good(proc[g])'
<1>1. proc \in [Procs -> Hands] BY DEF Tracked, RefundTypeOK, Hands
<1>2. proc'[h] = state /\ \A g \in Procs \ {h} : proc'[g] = proc[g] BY <1>1
<1>3. Good(proc[h])' BY <1>2 DEF Good
<1> QED BY <1>1, <1>2, <1>3, GoodStays

LEMMA HandlersRest ==
    ASSUME Tracked, Grows, queryAttempts' \in [Refunds -> 0 .. RECOVERY_MAX_ATTEMPTS], proc' = proc
    PROVE  proc' \in [Procs -> Hands] /\ \A g \in Procs : Good(proc[g])'
<1>1. proc \in [Procs -> Hands] BY DEF Tracked, RefundTypeOK, Hands
<1> QED BY <1>1, GoodStays

LEMMA IdleIsGood == Idle \in Hands /\ Good(Idle)'
BY DEF Idle, Hands, Good, RefundStatus

\* A handler comes back from a query, or from the dispatch.
LEMMA Returns ==
    ASSUME Tracked, Grows, queryAttempts' \in [Refunds -> 0 .. RECOVERY_MAX_ATTEMPTS],
           NEW h \in Procs, proc[h].pc # "idle",
           NEW result \in RefundStatus \cup {"NONE", "error", "rearm"}, Return(h, result)
    PROVE  proc' \in [Procs -> Hands] /\ \A g \in Procs : Good(proc[g])'
<1>1. proc[h] \in Hands /\ Good(proc[h]) BY DEF Tracked, RefundTypeOK, Hands
<1>2. CASE h \in Api BY <1>2, IdleIsGood, HandlerMoves DEF Return, Become
<1>3. CASE h \notin Api
  <2>1. PICK state : state = [proc[h] EXCEPT !.pc = "afterQuery", !.res = result] OBVIOUS
  <2>2. state \in Hands /\ state.pc = "afterQuery" /\ state.refund = proc[h].refund /\ state.final = proc[h].final
    BY <1>1, <2>1 DEF Hands
  <2>3. Good(state)'
    <3>1. /\ proc[h].refund \in Refunds /\ refundStatus[proc[h].refund] # "NONE"
          /\ proc[h].final => queryAttempts[proc[h].refund] >= RECOVERY_MAX_ATTEMPTS
      BY <1>1 DEF Good
    <3>2. \A r \in Refunds : queryAttempts[r] \in Nat /\ queryAttempts'[r] \in Nat
      BY RefundAssumption DEF Tracked, RefundTypeOK
    <3> QED BY <2>2, <3>1, <3>2, RefundAssumption DEF Good, Grows
  <2>4. proc' = [proc EXCEPT ![h] = state] BY <1>3, <2>1 DEF Return, Become
  <2> QED BY <2>2, <2>3, <2>4, HandlerMoves
<1> QED BY <1>2, <1>3

\* The rows of a step that writes none keep their types.
Cases == {"NONE", "OPEN", "PROCESSING", "RESOLVED", "IGNORED"}
RowTypes ==
    /\ refundStatus \in [Refunds -> RefundStatus \cup {"NONE"}]
    /\ nextQueryAt \in [Refunds -> BOOLEAN]
    /\ orderStatus \in [Orders -> {"SUCCESS", "PARTIALLY_REFUNDED", "REFUNDED"}]
    /\ exception \in [Payments -> Cases] /\ settledByRefund \subseteq Payments
    /\ told \subseteq Refunds
WorldTypes ==
    /\ queryAttempts \in [Refunds -> 0 .. RECOVERY_MAX_ATTEMPTS]
    /\ refunded \subseteq Refunds /\ inTransit \subseteq Refunds /\ crashes \in 0 .. MaxCrashes
HandTypes == proc \in [Procs -> Hands]

LEMMA TypeParts == RefundTypeOK <=> RowTypes /\ WorldTypes /\ HandTypes
BY DEF RefundTypeOK, RowTypes, WorldTypes, HandTypes, Hands, Cases

LEMMA TypeParts2 == RefundTypeOK' <=> RowTypes' /\ WorldTypes' /\ HandTypes'
BY DEF RefundTypeOK, RowTypes, WorldTypes, HandTypes, Hands, Cases

LEMMA HandFacts ==
    ASSUME Tracked, NEW h \in Procs
    PROVE  /\ proc[h] \in Hands /\ Good(proc[h])
           /\ RowTypes /\ WorldTypes /\ proc \in [Procs -> Hands]
BY TypeParts DEF Tracked, HandTypes

LEMMA SameRows == ASSUME Tracked, UNCHANGED rowVars PROVE RowTypes'
BY TypeParts DEF Tracked, RowTypes, rowVars

\* The success of a refund, by a handler or by the day's bill.
LEMMA FinalizeTypes ==
    ASSUME Tracked, NEW r \in Refunds, refundStatus[r] # "NONE", Finalize(r)
    PROVE  RowTypes' /\ \A q \in Refunds : refundStatus[q] # "NONE" => refundStatus'[q] # "NONE"
<1>1. RowTypes BY TypeParts DEF Tracked
<1>2. CASE refundStatus[r] = "SUCCESS" BY <1>1, <1>2, SameRows DEF Finalize, rowVars
<1>3. CASE refundStatus[r] # "SUCCESS"
  <2>1. /\ refundStatus' = [refundStatus EXCEPT ![r] = "SUCCESS"]
        /\ nextQueryAt' = [nextQueryAt EXCEPT ![r] = FALSE]
        /\ \/ orderStatus' = orderStatus
           \/ \E status \in {"PARTIALLY_REFUNDED", "REFUNDED"} :
                  orderStatus' = [orderStatus EXCEPT ![OrderOfRefund(r)] = status]
        /\ exception' = exception \/ exception' = [exception EXCEPT ![PaymentOf[r]] = "RESOLVED"]
        /\ settledByRefund' \in {settledByRefund, settledByRefund \cup {PaymentOf[r]}}
        /\ told' \in {told, told \cup {r}}
    BY <1>3 DEF Finalize, refundedOrderStatus, OrderOfRefund
  <2>2. OrderOfRefund(r) \in Orders /\ PaymentOf[r] \in Payments
    BY RefundAssumption DEF OrderOfRefund
  <2> QED BY <1>1, <2>1, <2>2 DEF RowTypes, RefundStatus, Cases
<1> QED BY <1>2, <1>3

\* Requests of the API, and the refund of the channel.
LEMMA CreateTracked ==
    ASSUME Tracked, NEW h \in Procs, NEW r \in Refunds, CreateRefund(h, r)
    PROVE  Tracked'
<1>1. /\ proc[h] \in Hands /\ RowTypes /\ WorldTypes BY HandFacts
<1>2. Grows /\ RowTypes' /\ WorldTypes' /\ refundStatus'[r] = "PROCESSING"
  <2>1. /\ refundStatus' = [refundStatus EXCEPT ![r] = "PROCESSING"]
        /\ nextQueryAt' = [nextQueryAt EXCEPT ![r] = Alipay(r)]
        /\ UNCHANGED <<orderStatus, exception, settledByRefund, told, queryAttempts, refunded, inTransit, crashes>>
    BY DEF CreateRefund
  <2>2. Alipay(r) \in BOOLEAN BY DEF Alipay
  <2>3. RowTypes' /\ refundStatus'[r] = "PROCESSING"
    BY <1>1, <2>1, <2>2 DEF RowTypes, RefundStatus
  <2>4. WorldTypes' BY <1>1, <2>1 DEF WorldTypes
  <2>5. \A q \in Refunds : queryAttempts[q] \in Nat BY <1>1, RefundAssumption DEF WorldTypes
  <2>6. Grows BY <1>1, <2>1, <2>5 DEF Grows, RowTypes
  <2> QED BY <2>3, <2>4, <2>6
<1>3. PICK state : state = [Idle EXCEPT !.pc = "dispatch", !.refund = r, !.seen = "PROCESSING"]
  OBVIOUS
<1>4. /\ state \in Hands /\ state.pc = "dispatch" /\ state.refund = r /\ state.final = FALSE
      /\ proc' = [proc EXCEPT ![h] = state]
  BY <1>3 DEF CreateRefund, Become, Idle, Hands, RefundStatus
<1>5. Good(state)' BY <1>2, <1>4 DEF Good
<1>6. proc' \in [Procs -> Hands] /\ \A g \in Procs : Good(proc[g])'
  BY <1>2, <1>4, <1>5, HandlerMoves DEF WorldTypes
<1> QED BY <1>2, <1>6, TypeParts2 DEF Tracked, HandTypes

LEMMA DispatchTracked ==
    ASSUME Tracked, NEW h \in Procs, DispatchRefund(h)
    PROVE  Tracked'
<1> DEFINE r == proc[h].refund
<1>1. /\ proc[h] \in Hands /\ Good(proc[h]) /\ RowTypes /\ WorldTypes BY HandFacts
<1>2. r \in Refunds /\ refundStatus[r] # "NONE" BY <1>1 DEF DispatchRefund, Good
<1>3. PICK pc, res :
          /\ proc' = [proc EXCEPT ![h] = [proc[h] EXCEPT !.pc = pc, !.res = res]]
          /\ \/ pc = "finalize" /\ res = "SUCCESS" /\ r \in refunded'
             \/ pc = "update" /\ res \in {"FAILED", "UNKNOWN"}
          /\ refunded' \in {refunded, refunded \cup {r}}
          /\ inTransit' \in {inTransit, inTransit \cup {r}}
  BY DEF DispatchRefund, Become
<1>4. UNCHANGED rowVars /\ UNCHANGED <<queryAttempts, crashes>> BY DEF DispatchRefund
<1>5. Grows /\ RowTypes' /\ WorldTypes'
  BY <1>1, <1>2, <1>3, <1>4, SameRows DEF Grows, WorldTypes, rowVars
<1>6. PICK state : state = [proc[h] EXCEPT !.pc = pc, !.res = res] OBVIOUS
<1>7. /\ state \in Hands /\ state.pc = pc /\ state.res = res /\ state.refund = r
      /\ state.final = proc[h].final /\ proc' = [proc EXCEPT ![h] = state]
  BY <1>1, <1>3, <1>6 DEF Hands, RefundStatus
<1>8. Good(state)' BY <1>1, <1>2, <1>3, <1>4, <1>7 DEF Good, rowVars
<1>9. proc' \in [Procs -> Hands] /\ \A g \in Procs : Good(proc[g])'
  BY <1>5, <1>7, <1>8, HandlerMoves DEF WorldTypes
<1> QED BY <1>5, <1>9, TypeParts2 DEF Tracked, HandTypes

\* A handler writes the row it has dispatched or queried.
LEMMA WriteTracked ==
    ASSUME Tracked, NEW h \in Procs, updateRefund(h) \/ finalizeRefund(h) \/ FinalizeThrows(h)
    PROVE  Tracked'
<1> DEFINE r == proc[h].refund
<1>1. /\ proc[h] \in Hands /\ Good(proc[h]) /\ RowTypes /\ WorldTypes /\ proc[h].pc # "idle"
  BY HandFacts DEF updateRefund, finalizeRefund, FinalizeThrows
<1>2. r \in Refunds /\ refundStatus[r] # "NONE" BY <1>1 DEF Good
<1>3. UNCHANGED <<queryAttempts, refunded, inTransit, crashes>>
  BY DEF updateRefund, finalizeRefund, FinalizeThrows
<1>4. RowTypes' /\ \A q \in Refunds : refundStatus[q] # "NONE" => refundStatus'[q] # "NONE"
  <2>1. CASE updateRefund(h)
    <3>1. proc[h].res \in {"FAILED", "UNKNOWN", "PROCESSING"} BY <1>1, <2>1 DEF updateRefund, Good
    <3> QED BY <1>1, <1>2, <2>1, <3>1 DEF updateRefund, RowTypes, RefundStatus
  <2>2. CASE finalizeRefund(h) BY <1>2, <2>2, FinalizeTypes DEF finalizeRefund
  <2>3. CASE FinalizeThrows(h) BY <2>3, SameRows DEF FinalizeThrows, rowVars
  <2> QED BY <2>1, <2>2, <2>3
<1>5. Grows /\ WorldTypes' BY <1>1, <1>3, <1>4 DEF Grows, WorldTypes
<1>6. \E result \in RefundStatus \cup {"NONE", "error", "rearm"} : Return(h, result)
  <2>1. CASE updateRefund(h) BY <1>1, <2>1 DEF updateRefund, Hands
  <2>2. CASE finalizeRefund(h) \/ FinalizeThrows(h)
    BY <2>2 DEF finalizeRefund, FinalizeThrows, RefundStatus
  <2> QED BY <2>1, <2>2
<1>7. proc' \in [Procs -> Hands] /\ \A g \in Procs : Good(proc[g])'
  BY <1>1, <1>5, <1>6, Returns DEF WorldTypes
<1> QED BY <1>4, <1>5, <1>7, TypeParts2 DEF Tracked, HandTypes

\* A query: the row is read, the channel asked, the row kept or off the list.
LEMMA QueryReadTracked ==
    ASSUME Tracked, NEW h \in Procs, NEW r \in Refunds, QueryRead(h, r),
           proc[h].final => queryAttempts[r] >= RECOVERY_MAX_ATTEMPTS,
           UNCHANGED <<rowVars, queryAttempts, refunded, inTransit, crashes>>
    PROVE  Tracked'
<1>1. /\ proc[h] \in Hands /\ Good(proc[h]) /\ RowTypes /\ WorldTypes BY HandFacts
<1>2. PICK res \in {"rearm", "NONE"} :
          proc' = [proc EXCEPT ![h] = [proc[h] EXCEPT !.pc = "query", !.refund = r,
                                           !.seen = refundStatus[r], !.res = res]]
  BY DEF QueryRead, Become
<1>3. PICK state : state = [proc[h] EXCEPT !.pc = "query", !.refund = r,
                                !.seen = refundStatus[r], !.res = res]
  OBVIOUS
<1>4. /\ state \in Hands /\ state.pc = "query" /\ state.refund = r /\ state.final = proc[h].final
      /\ proc' = [proc EXCEPT ![h] = state]
  BY <1>1, <1>2, <1>3 DEF Hands, RowTypes
<1>5. Grows /\ RowTypes' /\ WorldTypes' BY <1>1, SameRows DEF Grows, WorldTypes, rowVars
<1>6. Good(state)' BY <1>4 DEF Good, QueryRead, rowVars
<1>7. proc' \in [Procs -> Hands] /\ \A g \in Procs : Good(proc[g])'
  BY <1>4, <1>5, <1>6, HandlerMoves DEF WorldTypes
<1> QED BY <1>5, <1>7, TypeParts2 DEF Tracked, HandTypes

LEMMA QueryTracked ==
    ASSUME Tracked, NEW h \in Procs,
           \/ \E r \in Refunds : StartQuery(h, r)
           \/ RecoverQuery(h)
    PROVE  Tracked'
<1>1. /\ proc[h] \in Hands /\ Good(proc[h]) BY HandFacts
<1>2. ASSUME NEW r \in Refunds, StartQuery(h, r) PROVE Tracked'
  BY <1>2, QueryReadTracked DEF StartQuery, Idle
<1>3. CASE RecoverQuery(h)
  <2>1. /\ proc[h].refund \in Refunds
        /\ proc[h].final => queryAttempts[proc[h].refund] >= RECOVERY_MAX_ATTEMPTS
    BY <1>1, <1>3 DEF RecoverQuery, Good
  <2>2. UNCHANGED <<rowVars, queryAttempts, refunded, inTransit, crashes>>
    BY <1>3 DEF RecoverQuery, notRecovery, rowVars
  <2> QED BY <1>3, <2>1, <2>2, QueryReadTracked DEF RecoverQuery
<1> QED BY <1>2, <1>3

\* A step of a handler that leaves all but its own record, and perhaps the list.
LEMMA OnlyHandMoves ==
    ASSUME Tracked, NEW h \in Procs, NEW state \in Hands, proc' = [proc EXCEPT ![h] = state],
           UNCHANGED <<notRecovery, queryAttempts>>, nextQueryAt' \in [Refunds -> BOOLEAN],
           Good(state)
    PROVE  Tracked'
<1>1. RowTypes /\ WorldTypes BY HandFacts
<1>2. UNCHANGED <<refundStatus, orderStatus, exception, settledByRefund, told, refunded, inTransit, crashes, queryAttempts>>
  BY DEF notRecovery
<1>3. Grows /\ RowTypes' /\ WorldTypes' BY <1>1, <1>2 DEF Grows, WorldTypes, RowTypes
<1>4. Good(state)' BY <1>2 DEF Good
<1>5. proc' \in [Procs -> Hands] /\ \A g \in Procs : Good(proc[g])'
  BY <1>3, <1>4, HandlerMoves DEF WorldTypes
<1> QED BY <1>3, <1>5, TypeParts2 DEF Tracked, HandTypes

LEMMA AnswerTracked ==
    ASSUME Tracked, NEW h \in Procs, ChannelQuery(h)
    PROVE  Tracked'
<1> DEFINE r == proc[h].refund
<1>1. /\ proc[h] \in Hands /\ Good(proc[h]) /\ RowTypes BY HandFacts
<1>2. proc[h].pc = "query" BY DEF ChannelQuery
<1>3. QueryAnswer(r) \in {"SUCCESS", "PROCESSING"} /\ (Alipay(r) /\ QueryAnswer(r) = "SUCCESS" => r \in refunded)
  BY DEF QueryAnswer, Alipay
<1>4. PICK pc, res :
          /\ proc' = [proc EXCEPT ![h] = [proc[h] EXCEPT !.pc = pc, !.res = res]]
          /\ \/ pc = "finalize" /\ res = "SUCCESS" /\ QueryAnswer(r) = "SUCCESS"
             \/ pc = "update" /\ res = "PROCESSING"
             \/ pc = "keep" /\ res = proc[h].res
  <2>1. CASE Become(h, [proc[h] EXCEPT !.pc = "keep"])
    <3>1. [proc[h] EXCEPT !.pc = "keep"] = [proc[h] EXCEPT !.pc = "keep", !.res = proc[h].res]
      BY <1>1 DEF Hands
    <3> QED BY <2>1, <3>1 DEF Become
  <2>2. CASE QueryAnswer(r) = "SUCCESS" /\ Become(h, [proc[h] EXCEPT !.pc = "finalize", !.res = QueryAnswer(r)])
    BY <2>2 DEF Become
  <2>3. CASE QueryAnswer(r) # "SUCCESS" /\ Become(h, [proc[h] EXCEPT !.pc = "update", !.res = QueryAnswer(r)])
    BY <1>3, <2>3 DEF Become
  <2> QED BY <2>1, <2>2, <2>3 DEF ChannelQuery
<1>5. PICK state : state = [proc[h] EXCEPT !.pc = pc, !.res = res] OBVIOUS
<1>6. /\ state \in Hands /\ state.pc = pc /\ state.res = res /\ state.refund = r
      /\ state.final = proc[h].final /\ proc' = [proc EXCEPT ![h] = state]
  BY <1>1, <1>4, <1>5 DEF Hands, RefundStatus
<1>7. Good(state) BY <1>1, <1>2, <1>3, <1>4, <1>6 DEF Good
<1>8. UNCHANGED <<notRecovery, queryAttempts>> /\ nextQueryAt' \in [Refunds -> BOOLEAN]
  BY <1>1 DEF ChannelQuery, notRecovery, rowVars, RowTypes
<1> QED BY <1>6, <1>7, <1>8, OnlyHandMoves

LEMMA KeepTracked ==
    ASSUME Tracked, NEW h \in Procs, QueryThrows(h) \/ KeepRefund(h)
    PROVE  Tracked'
<1>1. /\ proc[h] \in Hands /\ Good(proc[h]) /\ RowTypes /\ WorldTypes /\ proc[h].pc # "idle"
  BY HandFacts DEF QueryThrows, KeepRefund
<1>2. proc[h].refund \in Refunds BY <1>1 DEF Good
<1>3. UNCHANGED <<refundStatus, orderStatus, exception, settledByRefund, told, refunded, inTransit, crashes, queryAttempts>>
  BY DEF QueryThrows, KeepRefund, rowVars
<1>4. nextQueryAt' \in [Refunds -> BOOLEAN]
  BY <1>1, <1>2 DEF QueryThrows, KeepRefund, rowVars, RowTypes
<1>5. \E result \in RefundStatus \cup {"NONE", "error", "rearm"} : Return(h, result)
  BY <1>1, <1>2 DEF QueryThrows, KeepRefund, Hands, RowTypes
<1>6. Grows /\ RowTypes' /\ WorldTypes' BY <1>1, <1>3, <1>4 DEF Grows, WorldTypes, RowTypes
<1>7. proc' \in [Procs -> Hands] /\ \A g \in Procs : Good(proc[g])'
  BY <1>1, <1>5, <1>6, Returns DEF WorldTypes
<1> QED BY <1>6, <1>7, TypeParts2 DEF Tracked, HandTypes

\* The worker.
LEMMA ClaimTracked ==
    ASSUME Tracked, NEW h \in Procs, NEW r \in Refunds, ClaimRecovery(h, r)
    PROVE  Tracked'
<1>1. RowTypes /\ WorldTypes BY HandFacts
<1>2. /\ refundStatus[r] # "NONE" /\ queryAttempts[r] \in Nat /\ RECOVERY_MAX_ATTEMPTS \in Nat
      /\ queryAttempts[r] < RECOVERY_MAX_ATTEMPTS
  BY <1>1, RefundAssumption DEF ClaimRecovery, RecoveryDue, WorldTypes, Recoverable
<1>3. /\ queryAttempts' = [queryAttempts EXCEPT ![r] = @ + 1]
      /\ UNCHANGED <<refundStatus, orderStatus, exception, settledByRefund, told, refunded, inTransit, crashes, nextQueryAt>>
  BY DEF ClaimRecovery, notRecovery
<1>4. RowTypes' /\ WorldTypes' /\ queryAttempts'[r] = queryAttempts[r] + 1
  BY <1>1, <1>2, <1>3 DEF RowTypes, WorldTypes
<1>5. \A q \in Refunds : queryAttempts[q] \in Nat BY <1>1, RefundAssumption DEF WorldTypes
<1>6. Grows BY <1>1, <1>3, <1>5 DEF Grows, WorldTypes
<1> DEFINE last == queryAttempts[r] + 1 >= RECOVERY_MAX_ATTEMPTS
<1>7. proc' = [proc EXCEPT ![h] = [Idle EXCEPT !.pc = "recover", !.refund = r, !.final = last]]
  BY DEF ClaimRecovery, Become
<1>8. last \in BOOLEAN /\ (last => queryAttempts'[r] >= RECOVERY_MAX_ATTEMPTS)
  <2>1. last => queryAttempts'[r] >= RECOVERY_MAX_ATTEMPTS BY <1>4
  <2>2. last \in BOOLEAN OBVIOUS
  <2> QED BY <2>1, <2>2
<1> HIDE DEF last
<1>13. PICK state : state = [Idle EXCEPT !.pc = "recover", !.refund = r, !.final = last] OBVIOUS
<1>9. /\ state \in Hands /\ state.pc = "recover" /\ state.refund = r /\ state.final = last
      /\ proc' = [proc EXCEPT ![h] = state]
  BY <1>7, <1>8, <1>13 DEF Idle, Hands, RefundStatus
<1>10. Good(state)' BY <1>2, <1>3, <1>8, <1>9 DEF Good
<1>11. proc' \in [Procs -> Hands] /\ \A g \in Procs : Good(proc[g])'
  BY <1>4, <1>6, <1>9, <1>10, HandlerMoves DEF WorldTypes
<1> QED BY <1>4, <1>11, TypeParts2 DEF Tracked, HandTypes

LEMMA WorkerTracked ==
    ASSUME Tracked, NEW h \in Procs, AfterRecovery(h) \/ RecoverRead(h) \/ RecoverWrite(h)
    PROVE  Tracked'
<1>1. /\ proc[h] \in Hands /\ Good(proc[h]) /\ RowTypes /\ proc[h].pc \notin {"idle", "update", "finalize"}
  BY HandFacts DEF AfterRecovery, RecoverRead, RecoverWrite
<1>2. proc[h].refund \in Refunds BY <1>1 DEF Good
<1>3. UNCHANGED <<notRecovery, queryAttempts>> BY DEF AfterRecovery, RecoverRead, RecoverWrite
<1>4. nextQueryAt' \in [Refunds -> BOOLEAN]
  <2>1. proc[h].final \in BOOLEAN BY <1>1 DEF Hands
  <2> QED BY <1>1, <1>2, <2>1 DEF AfterRecovery, RecoverRead, RecoverWrite, RowTypes
<1>5. CASE Become(h, Idle)
  <2>1. Good(Idle) BY DEF Idle, Good
  <2> QED BY <1>3, <1>4, <1>5, <2>1, IdleIsGood, OnlyHandMoves DEF Become
<1>6. ASSUME NEW pc \in {"recoverFail", "exhaust", "recoverWrite"}, NEW seen \in {"NONE", proc[h].seen},
             NEW res \in {"NONE", proc[h].res},
             Become(h, [proc[h] EXCEPT !.pc = pc, !.seen = seen, !.res = res])
      PROVE  Tracked'
  <2>1. PICK state : state = [proc[h] EXCEPT !.pc = pc, !.seen = seen, !.res = res] OBVIOUS
  <2>2. /\ state \in Hands /\ state.pc = pc /\ state.refund = proc[h].refund
        /\ state.final = proc[h].final /\ proc' = [proc EXCEPT ![h] = state]
    BY <1>1, <1>6, <2>1 DEF Hands, Become
  <2>3. Good(state) BY <1>1, <1>6, <2>2 DEF Good
  <2> QED BY <1>3, <1>4, <2>2, <2>3, OnlyHandMoves
<1>7. CASE AfterRecovery(h)
  <2>1. \/ Become(h, Idle)
        \/ \E pc \in {"recoverFail", "exhaust"} :
               Become(h, [proc[h] EXCEPT !.pc = pc, !.seen = "NONE", !.res = "NONE"])
    BY <1>7 DEF AfterRecovery
  <2> QED BY <1>5, <1>6, <2>1
<1>8. CASE RecoverRead(h)
  <2>1. [proc[h] EXCEPT !.pc = "recoverWrite"]
        = [proc[h] EXCEPT !.pc = "recoverWrite", !.seen = proc[h].seen, !.res = proc[h].res]
    BY <1>1 DEF Hands
  <2> QED BY <1>5, <1>6, <1>8, <2>1 DEF RecoverRead
<1>9. CASE RecoverWrite(h) BY <1>5, <1>9 DEF RecoverWrite
<1> QED BY <1>7, <1>8, <1>9

LEMMA RestTracked ==
    ASSUME Tracked,
           \/ \E h \in Procs : Crash(h)
           \/ \E r \in Refunds : MatchReceipt(r) \/ LateRefund(r)
           \/ \E p \in Payments : updatePaymentException(p)
           \/ UNCHANGED vars
    PROVE  Tracked'
<1>1. RowTypes /\ WorldTypes BY TypeParts DEF Tracked
<1>2. ASSUME NEW h \in Procs, Crash(h) PROVE Tracked'
  <2>1. Grows /\ RowTypes' /\ WorldTypes'
    BY <1>1, <1>2, SameRows, RefundAssumption DEF Crash, Grows, WorldTypes, rowVars
  <2>2. proc' \in [Procs -> Hands] /\ \A g \in Procs : Good(proc[g])'
    BY <1>2, <2>1, IdleIsGood, HandlerMoves DEF Crash, Become, WorldTypes
  <2> QED BY <2>1, <2>2, TypeParts2 DEF Tracked, HandTypes
<1>3. ASSUME Grows, RowTypes', WorldTypes', proc' = proc PROVE Tracked'
  BY <1>3, HandlersRest, TypeParts2 DEF Tracked, HandTypes, WorldTypes
<1>4. ASSUME NEW r \in Refunds, MatchReceipt(r) PROVE Tracked'
  <2>1. RowTypes' /\ \A q \in Refunds : refundStatus[q] # "NONE" => refundStatus'[q] # "NONE"
    BY <1>4, FinalizeTypes DEF MatchReceipt
  <2> QED BY <1>1, <1>3, <1>4, <2>1 DEF MatchReceipt, Grows, WorldTypes
<1>5. ASSUME NEW r \in Refunds, LateRefund(r) PROVE Tracked'
  BY <1>1, <1>3, <1>5, SameRows DEF LateRefund, Grows, WorldTypes, rowVars
<1>6. CASE UNCHANGED vars BY <1>1, <1>3, <1>6, SameRows DEF vars, Grows, WorldTypes, rowVars
<1>7. ASSUME NEW p \in Payments, updatePaymentException(p) PROVE Tracked'
  <2>1. /\ \E status \in Cases : exception' = [exception EXCEPT ![p] = status]
        /\ UNCHANGED <<refundStatus, nextQueryAt, orderStatus, settledByRefund, told,
                       queryAttempts, refunded, inTransit, proc, crashes>>
    BY <1>7 DEF updatePaymentException, Cases
  <2>2. RowTypes' BY <1>1, <2>1 DEF RowTypes
  <2> QED BY <1>1, <1>3, <2>1, <2>2 DEF Grows, WorldTypes
<1> QED BY <1>2, <1>4, <1>5, <1>6, <1>7

LEMMA TrackedStep == Tracked /\ [Next]_vars => Tracked'
BY CreateTracked, DispatchTracked, WriteTracked, QueryTracked, AnswerTracked, KeepTracked,
   ClaimTracked, WorkerTracked, RestTracked DEF Next, HandlerStep

\* The rows of the refunds, of the orders and of the cases keep their types, and so do the
\* handlers.
THEOREM RefundTypeCorrect == Spec => []RefundTypeOK
<1>1. Tracked => RefundTypeOK BY DEF Tracked
<1> QED BY <1>1, TrackedInit, TrackedStep, PTL DEF Spec

-----------------------------------------------------------------------------
(* What a step does to the rows, and the successes they record.            *)

OtherRows == <<orderStatus, exception, settledByRefund, told>>

LEMMA RowSteps ==
    ASSUME Tracked, [Next]_vars
    PROVE  /\ refunded \subseteq refunded'
           /\ \/ UNCHANGED <<refundStatus, OtherRows>>
              \/ /\ UNCHANGED OtherRows
                 /\ \E r \in Refunds, status \in {"FAILED", "UNKNOWN", "PROCESSING"} :
                        refundStatus' = [refundStatus EXCEPT ![r] = status]
              \/ \E r \in Refunds :
                     /\ refundStatus[r] # "NONE" /\ (Alipay(r) => r \in refunded)
                     /\ Finalize(r)
              \/ \E p \in Payments :
                     /\ updatePaymentException(p)
                     /\ UNCHANGED <<refundStatus, orderStatus, settledByRefund, told>>
                     /\ \A q \in Payments :
                            /\ exception[q] = "NONE" => exception'[q] = "NONE"
                            /\ exception[q] = "RESOLVED" => exception'[q] = "RESOLVED"
                            /\ exception'[q] = "OPEN" => exception[q] = "OPEN"
<1>1. CASE UNCHANGED vars BY <1>1 DEF vars, rowVars, OtherRows
<1>2. ASSUME NEW h \in Procs, NEW r \in Refunds, CreateRefund(h, r)
      PROVE  /\ UNCHANGED <<OtherRows, refunded>>
             /\ refundStatus' = [refundStatus EXCEPT ![r] = "PROCESSING"]
  BY <1>2 DEF CreateRefund, OtherRows
<1>3. ASSUME NEW h \in Procs, NEW r \in Refunds, StartQuery(h, r) \/ ClaimRecovery(h, r)
      PROVE  UNCHANGED <<refundStatus, OtherRows, refunded>>
  BY <1>3 DEF StartQuery, ClaimRecovery, rowVars, notRecovery, OtherRows
<1>4. ASSUME NEW h \in Procs, DispatchRefund(h)
      PROVE  UNCHANGED <<refundStatus, OtherRows>> /\ refunded \subseteq refunded'
  BY <1>4 DEF DispatchRefund, rowVars, OtherRows
<1>5. ASSUME NEW h \in Procs, updateRefund(h)
      PROVE  /\ UNCHANGED <<OtherRows, refunded>>
             /\ \E r \in Refunds, status \in {"FAILED", "UNKNOWN", "PROCESSING"} :
                    refundStatus' = [refundStatus EXCEPT ![r] = status]
  <2>1. proc[h].refund \in Refunds /\ proc[h].res \in {"FAILED", "UNKNOWN", "PROCESSING"}
    BY <1>5, HandFacts DEF updateRefund, Good
  <2> QED BY <1>5, <2>1 DEF updateRefund, OtherRows
<1>6. ASSUME NEW h \in Procs, finalizeRefund(h)
      PROVE  /\ refunded' = refunded
             /\ \E r \in Refunds : /\ refundStatus[r] # "NONE" /\ (Alipay(r) => r \in refunded)
                                  /\ Finalize(r)
  <2>1. /\ proc[h].refund \in Refunds /\ refundStatus[proc[h].refund] # "NONE"
        /\ Alipay(proc[h].refund) => proc[h].refund \in refunded
    BY <1>6, HandFacts DEF finalizeRefund, Good
  <2> QED BY <1>6, <2>1 DEF finalizeRefund
<1>7. ASSUME NEW h \in Procs,
             \/ FinalizeThrows(h) \/ ChannelQuery(h) \/ QueryThrows(h) \/ KeepRefund(h) \/ RecoverQuery(h)
             \/ AfterRecovery(h) \/ RecoverRead(h) \/ RecoverWrite(h) \/ Crash(h)
      PROVE  UNCHANGED <<refundStatus, OtherRows, refunded>>
  BY <1>7 DEF FinalizeThrows, ChannelQuery, QueryThrows, KeepRefund, RecoverQuery, AfterRecovery,
     RecoverRead, RecoverWrite, Crash, rowVars, notRecovery, OtherRows
<1>8. ASSUME NEW r \in Refunds, MatchReceipt(r)
      PROVE  refunded' = refunded /\ refundStatus[r] # "NONE" /\ r \in refunded /\ Finalize(r)
  BY <1>8 DEF MatchReceipt
<1>9. ASSUME NEW r \in Refunds, LateRefund(r)
      PROVE  UNCHANGED <<refundStatus, OtherRows>> /\ refunded \subseteq refunded'
  BY <1>9 DEF LateRefund, rowVars, OtherRows
<1>10. ASSUME NEW p \in Payments, updatePaymentException(p)
       PROVE  /\ UNCHANGED <<refundStatus, orderStatus, settledByRefund, told, refunded>>
              /\ \A q \in Payments :
                     /\ exception[q] = "NONE" => exception'[q] = "NONE"
                     /\ exception[q] = "RESOLVED" => exception'[q] = "RESOLVED"
                     /\ exception'[q] = "OPEN" => exception[q] = "OPEN"
  <2>1. exception \in [Payments -> Cases] BY HandFacts, TypeParts DEF Tracked, RowTypes
  <2>2. PICK status \in {"PROCESSING", "RESOLVED", "IGNORED"} :
            /\ exception[p] = "RESOLVED" => status = "RESOLVED"
            /\ exception' = [exception EXCEPT ![p] = status]
    BY <1>10 DEF updatePaymentException
  <2>3. exception[p] # "NONE" BY <1>10 DEF updatePaymentException
  <2> QED BY <1>10, <2>1, <2>2, <2>3 DEF updatePaymentException
<1> QED BY <1>1, <1>2, <1>3, <1>4, <1>5, <1>6, <1>7, <1>8, <1>9, <1>10 DEF Next, HandlerStep

\* The inductive invariant of the successes.
Booked ==
    /\ Tracked
    /\ SuccessMeansRefunded /\ OrderFollowsWinner /\ DisputeFollowsRefunds /\ BusinessToldOfWinner

LEMMA BookedInit == Init => Booked
<1> SUFFICES ASSUME Init PROVE Booked OBVIOUS
<1>1. \A p, statuses : "NONE" \notin statuses => RefundsOf(p, statuses) = {}
  BY DEF Init, RefundsOf
<1>2. \A p \in Payments : exception[p] = "OPEN" =>
          ~(TotalOf(RefundsOf(p, {"SUCCESS"})) >= amount[OrderOf[p]])
  <2>1. {} \in SUBSET Refunds OBVIOUS
  <2>2. TotalOf({}) = 0 BY <2>1, TotalTakes
  <2>3. \A p \in Payments : amount[OrderOf[p]] \in Nat \ {0} BY RefundAssumption
  <2>4. \A p \in Payments : TotalOf(RefundsOf(p, {"SUCCESS"})) = 0 BY <1>1, <2>2
  <2> QED BY <2>3, <2>4
<1>3. OrderFollowsWinner BY <1>1 DEF OrderFollowsWinner, Init
<1>4. DisputeFollowsRefunds BY <1>2 DEF DisputeFollowsRefunds, Init
<1>5. SuccessMeansRefunded /\ BusinessToldOfWinner
  BY DEF SuccessMeansRefunded, BusinessToldOfWinner, Init
<1> QED BY <1>3, <1>4, <1>5, TrackedInit DEF Booked

\* More refunds of a payment are more money.
LEMMA DoneGrows ==
    ASSUME RefundTypeOK, RefundTypeOK', refunded \subseteq refunded'
    PROVE  \A p \in Payments : /\ Done(p) \in Nat /\ Done(p)' \in Nat /\ Done(p) <= Done(p)'
<1> SUFFICES ASSUME NEW p \in Payments
             PROVE  /\ Done(p) \in Nat /\ Done(p)' \in Nat /\ Done(p) <= Done(p)'
  OBVIOUS
<1> DEFINE S == {r \in refunded : PaymentOf[r] = p}
           T == {r \in refunded' : PaymentOf[r] = p}
<1>1. S \in SUBSET T /\ T \in SUBSET Refunds /\ S \in SUBSET Refunds BY DEF RefundTypeOK
<1>2. Done(p) = TotalOf(S) /\ Done(p)' = TotalOf(T) BY DEF Done, TotalOf, MapThenSumSet, MapThenFoldSet
<1> HIDE DEF S, T
<1> QED BY <1>1, <1>2, TotalGrows, TotalNat

Succeeded(p) == RefundsOf(p, {"SUCCESS"})

\* Fewer successes are less money, and the totals are numbers.
LEMMA SucceededTotals ==
    ASSUME RefundTypeOK, RefundTypeOK', NEW p \in Payments
    PROVE  /\ Succeeded(p) \in SUBSET Refunds /\ Succeeded(p)' \in SUBSET Refunds
           /\ TotalOf(Succeeded(p)) \in Nat /\ TotalOf(Succeeded(p))' \in Nat
           /\ amount[OrderOf[p]] \in Nat
           /\ Succeeded(p)' \subseteq Succeeded(p) => TotalOf(Succeeded(p))' <= TotalOf(Succeeded(p))
<1>1. Succeeded(p) \in SUBSET Refunds /\ Succeeded(p)' \in SUBSET Refunds
  BY DEF Succeeded, RefundsOf
<1>2. amount[OrderOf[p]] \in Nat BY RefundAssumption
<1>3. PICK S \in SUBSET Refunds : S = Succeeded(p)' BY <1>1
<1>4. TotalOf(Succeeded(p))' = TotalOf(S)
  BY <1>3 DEF TotalOf, MapThenSumSet, MapThenFoldSet
<1>5. TotalOf(S) \in Nat /\ TotalOf(Succeeded(p)) \in Nat BY <1>1, TotalNat
<1>6. S \subseteq Succeeded(p) => TotalOf(S) <= TotalOf(Succeeded(p)) BY <1>1, TotalGrows
<1> QED BY <1>1, <1>2, <1>3, <1>4, <1>5, <1>6

\* A step that records no success, and writes nothing of the orders; a case is at most
\* moved on by hand.
LEMMA BookedStays ==
    ASSUME Booked, Tracked', refunded \subseteq refunded',
           UNCHANGED <<orderStatus, settledByRefund, told>>,
           \A q \in Payments : /\ exception[q] = "RESOLVED" => exception'[q] = "RESOLVED"
                               /\ exception'[q] = "OPEN" => exception[q] = "OPEN",
           \A r \in Refunds : refundStatus[r] # "NONE" => refundStatus'[r] # "NONE",
           \A r \in Refunds : refundStatus'[r] = "SUCCESS" => refundStatus[r] = "SUCCESS"
    PROVE  Booked'
<1>1. RefundTypeOK /\ RefundTypeOK' BY DEF Booked, Tracked
<1>2. \A p \in Payments : Succeeded(p)' \subseteq Succeeded(p) BY DEF Succeeded, RefundsOf
<1>3. UNCHANGED <<orderStatus, settledByRefund, told>> OBVIOUS
<1>4. SuccessMeansRefunded' BY DEF Booked, SuccessMeansRefunded
<1>5. OrderFollowsWinner'
  <2> SUFFICES ASSUME NEW o \in Orders
               PROVE  LET w == winningPaymentId[o] IN
                      /\ orderStatus'[o] = "REFUNDED" => ChannelOf[w] # "ALIPAY" \/ Done(w)' >= amount[o]
                      /\ orderStatus'[o] # "SUCCESS" =>
                             \E r \in Refunds : PaymentOf[r] = w /\ refundStatus'[r] # "NONE"
                      /\ Succeeded(w)' # {} => orderStatus'[o] # "SUCCESS"
    BY DEF OrderFollowsWinner, Succeeded
  <2> DEFINE w == winningPaymentId[o]
  <2>1. w \in Payments /\ amount[o] \in Nat BY RefundAssumption
  <2>2. Done(w) \in Nat /\ Done(w)' \in Nat /\ Done(w) <= Done(w)' BY <1>1, <2>1, DoneGrows
  <2>3. /\ orderStatus[o] = "REFUNDED" => ChannelOf[w] # "ALIPAY" \/ Done(w) >= amount[o]
        /\ orderStatus[o] # "SUCCESS" => \E r \in Refunds : PaymentOf[r] = w /\ refundStatus[r] # "NONE"
        /\ Succeeded(w) # {} => orderStatus[o] # "SUCCESS"
    BY DEF Booked, OrderFollowsWinner, Succeeded
  <2>4. Succeeded(w)' \subseteq Succeeded(w) BY <1>2, <2>1
  <2>5. orderStatus'[o] = orderStatus[o] BY <1>3
  <2>6. Done(w) >= amount[o] => Done(w)' >= amount[o] BY <2>1, <2>2
  <2> HIDE DEF w
  <2>8. orderStatus'[o] = "REFUNDED" => ChannelOf[w] # "ALIPAY" \/ Done(w)' >= amount[o]
    BY <2>3, <2>5, <2>6
  <2>9. orderStatus'[o] # "SUCCESS" => \E r \in Refunds : PaymentOf[r] = w /\ refundStatus'[r] # "NONE"
    BY <2>3, <2>5
  <2>10. Succeeded(w)' # {} => orderStatus'[o] # "SUCCESS" BY <2>3, <2>4, <2>5
  <2> QED BY <2>8, <2>9, <2>10 DEF w
<1>6. DisputeFollowsRefunds'
  <2> SUFFICES ASSUME NEW p \in Payments, ChannelOf[p] = "ALIPAY"
               PROVE  /\ p \in settledByRefund' => exception'[p] = "RESOLVED" /\ Done(p)' >= amount[OrderOf[p]]
                      /\ TotalOf(Succeeded(p))' >= amount[OrderOf[p]] => exception'[p] # "OPEN"
    BY DEF DisputeFollowsRefunds, Succeeded
  <2>1. Done(p) \in Nat /\ Done(p)' \in Nat /\ Done(p) <= Done(p)' BY <1>1, DoneGrows
  <2>2. /\ TotalOf(Succeeded(p)) \in Nat /\ TotalOf(Succeeded(p))' \in Nat
        /\ amount[OrderOf[p]] \in Nat /\ TotalOf(Succeeded(p))' <= TotalOf(Succeeded(p))
    BY <1>1, <1>2, SucceededTotals
  <2>3. /\ p \in settledByRefund => exception[p] = "RESOLVED" /\ Done(p) >= amount[OrderOf[p]]
        /\ TotalOf(Succeeded(p)) >= amount[OrderOf[p]] => exception[p] # "OPEN"
    BY DEF Booked, DisputeFollowsRefunds, Succeeded
  <2>4. /\ exception[p] = "RESOLVED" => exception'[p] = "RESOLVED"
        /\ exception'[p] = "OPEN" => exception[p] = "OPEN"
    OBVIOUS
  <2> QED BY <1>3, <2>1, <2>2, <2>3, <2>4
<1>7. BusinessToldOfWinner' BY <1>3 DEF Booked, BusinessToldOfWinner
<1> QED BY <1>4, <1>5, <1>6, <1>7 DEF Booked

\* A success is recorded, of a refund that the channel has done.
LEMMA BookedFinalizes ==
    ASSUME Booked, Tracked', refunded \subseteq refunded', NEW r \in Refunds,
           refundStatus[r] # "NONE", refundStatus[r] # "SUCCESS", Alipay(r) => r \in refunded, Finalize(r)
    PROVE  Booked'
<1> DEFINE p == PaymentOf[r]
           o == OrderOf[p]
           total == TotalOf(Succeeded(p) \cup {r})
<1>1. RefundTypeOK /\ RefundTypeOK' BY DEF Booked, Tracked
<1>2. p \in Payments /\ o \in Orders /\ amount[o] \in Nat \ {0} BY RefundAssumption
<1>3. /\ refundStatus' = [refundStatus EXCEPT ![r] = "SUCCESS"]
      /\ orderStatus' = IF isWinningPayment(p)
             THEN [orderStatus EXCEPT ![o] = refundedOrderStatus(total, amount[o])] ELSE orderStatus
      /\ IF total >= amount[o] /\ exception[p] \in {"OPEN", "PROCESSING"}
             THEN /\ exception' = [exception EXCEPT ![p] = "RESOLVED"]
                  /\ settledByRefund' = settledByRefund \cup {p}
             ELSE UNCHANGED <<exception, settledByRefund>>
      /\ told' = IF isWinningPayment(p) /\ o \in WithUrl THEN told \cup {r} ELSE told
  BY DEF Finalize, Succeeded, countsForOrder, settlesDispute
<1>4. /\ refundStatus'[r] = "SUCCESS" /\ \A q \in Refunds \ {r} : refundStatus'[q] = refundStatus[q]
      /\ orderStatus \in [Orders -> {"SUCCESS", "PARTIALLY_REFUNDED", "REFUNDED"}]
      /\ exception \in [Payments -> Cases]
  BY <1>1, <1>3 DEF RefundTypeOK, Cases
<1>5. /\ Succeeded(p)' = Succeeded(p) \cup {r} /\ TotalOf(Succeeded(p))' = total
      /\ \A q \in Payments \ {p} : Succeeded(q)' = Succeeded(q) /\ TotalOf(Succeeded(q))' = TotalOf(Succeeded(q))
  <2>1. Succeeded(p)' = Succeeded(p) \cup {r} /\ \A q \in Payments \ {p} : Succeeded(q)' = Succeeded(q)
    BY <1>4 DEF Succeeded, RefundsOf
  <2> QED BY <2>1 DEF TotalOf, MapThenSumSet, MapThenFoldSet
<1>6. SuccessMeansRefunded' BY <1>4 DEF Booked, SuccessMeansRefunded
<1>7. total \in Nat /\ (ChannelOf[p] = "ALIPAY" => total <= Done(p)')
  <2>1. total \in Nat BY <1>1, <1>2, <1>5, SucceededTotals
  <2>2. ASSUME ChannelOf[p] = "ALIPAY" PROVE total <= Done(p)'
    <3>1. PICK T \in SUBSET Refunds : T = {q \in refunded' : PaymentOf[q] = p}
      BY <1>1 DEF RefundTypeOK
    <3>2. PICK S : S = Succeeded(p) \cup {r} OBVIOUS
    <3>3. S \in SUBSET T
      BY <1>4, <1>6, <2>2, <3>1, <3>2 DEF Booked, SuccessMeansRefunded, Succeeded, RefundsOf, Alipay
    <3>4. Done(p)' = TotalOf(T) BY <3>1 DEF Done, TotalOf, MapThenSumSet, MapThenFoldSet
    <3> QED BY <3>2, <3>3, <3>4, TotalGrows
  <2> QED BY <2>1, <2>2
<1>8. \A q \in Payments : /\ Done(q) \in Nat /\ Done(q)' \in Nat /\ Done(q) <= Done(q)'
                          /\ amount[OrderOf[q]] \in Nat
  BY <1>1, DoneGrows, RefundAssumption
<1> HIDE DEF total
<1>9. OrderFollowsWinner'
  <2> SUFFICES ASSUME NEW x \in Orders
               PROVE  LET w == winningPaymentId[x] IN
                      /\ orderStatus'[x] = "REFUNDED" => ChannelOf[w] # "ALIPAY" \/ Done(w)' >= amount[x]
                      /\ orderStatus'[x] # "SUCCESS" =>
                             \E q \in Refunds : PaymentOf[q] = w /\ refundStatus'[q] # "NONE"
                      /\ Succeeded(w)' # {} => orderStatus'[x] # "SUCCESS"
    BY DEF OrderFollowsWinner, Succeeded
  <2> DEFINE w == winningPaymentId[x]
  <2>1. w \in Payments /\ OrderOf[w] = x /\ amount[x] \in Nat BY RefundAssumption
  <2>2. /\ orderStatus[x] = "REFUNDED" => ChannelOf[w] # "ALIPAY" \/ Done(w) >= amount[x]
        /\ orderStatus[x] # "SUCCESS" => \E q \in Refunds : PaymentOf[q] = w /\ refundStatus[q] # "NONE"
        /\ Succeeded(w) # {} => orderStatus[x] # "SUCCESS"
    BY DEF Booked, OrderFollowsWinner, Succeeded
  <2>3. CASE w = p
    <3>1. isWinningPayment(p) /\ x = o BY <2>1, <2>3 DEF isWinningPayment
    <3>2. orderStatus'[x] = IF total >= amount[x] THEN "REFUNDED" ELSE "PARTIALLY_REFUNDED"
      BY <1>3, <1>4, <3>1 DEF refundedOrderStatus
    <3>3. \E q \in Refunds : PaymentOf[q] = w /\ refundStatus'[q] # "NONE" BY <1>4, <2>3
    <3>4. total >= amount[x] /\ ChannelOf[w] = "ALIPAY" => Done(w)' >= amount[x]
      BY <1>7, <1>8, <2>1, <2>3
    <3> QED BY <3>2, <3>3, <3>4
  <2>4. CASE w # p
    <3>1. orderStatus'[x] = orderStatus[x]
      BY <1>3, <1>4, <2>4 DEF isWinningPayment
    <3>2. \A q \in Refunds : refundStatus[q] # "NONE" => refundStatus'[q] # "NONE" BY <1>4
    <3> QED BY <1>5, <1>8, <2>1, <2>2, <2>4, <3>1, <3>2
  <2> QED BY <2>3, <2>4
<1>10. DisputeFollowsRefunds'
  <2> SUFFICES ASSUME NEW q \in Payments, ChannelOf[q] = "ALIPAY"
               PROVE  /\ q \in settledByRefund' => exception'[q] = "RESOLVED" /\ Done(q)' >= amount[OrderOf[q]]
                      /\ TotalOf(Succeeded(q))' >= amount[OrderOf[q]] => exception'[q] # "OPEN"
    BY DEF DisputeFollowsRefunds, Succeeded
  <2>1. /\ q \in settledByRefund => exception[q] = "RESOLVED" /\ Done(q) >= amount[OrderOf[q]]
        /\ TotalOf(Succeeded(q)) >= amount[OrderOf[q]] => exception[q] # "OPEN"
    BY DEF Booked, DisputeFollowsRefunds, Succeeded
  <2>2. Done(q)' >= Done(q) /\ Done(q) \in Nat /\ Done(q)' \in Nat /\ amount[OrderOf[q]] \in Nat
    BY <1>8
  <2>3. CASE q = p
    <3>1. total >= amount[o] => Done(q)' >= amount[o] BY <1>7, <2>2, <2>3
    <3>2. CASE total >= amount[o]
      <4>1. CASE exception[p] \in {"OPEN", "PROCESSING"}
        <5>1. exception'[p] = "RESOLVED" BY <1>2, <1>3, <1>4, <3>2, <4>1
        <5> QED BY <2>3, <3>1, <3>2, <5>1
      <4>2. CASE exception[p] \notin {"OPEN", "PROCESSING"}
        <5>1. UNCHANGED <<exception, settledByRefund>> BY <1>3, <4>2
        <5> QED BY <2>1, <2>3, <3>1, <3>2, <4>2, <5>1
      <4> QED BY <4>1, <4>2
    <3>3. CASE ~(total >= amount[o])
      <4>1. UNCHANGED <<exception, settledByRefund>> BY <1>3, <3>3
      <4>2. ~(TotalOf(Succeeded(q))' >= amount[OrderOf[q]]) BY <1>5, <2>3, <3>3
      <4>3. Done(q) >= amount[OrderOf[q]] => Done(q)' >= amount[OrderOf[q]] BY <2>2
      <4> QED BY <2>1, <4>1, <4>2, <4>3
    <3> QED BY <3>2, <3>3
  <2>4. CASE q # p
    <3>1. exception'[q] = exception[q] /\ (q \in settledByRefund' <=> q \in settledByRefund)
      BY <1>3, <1>4, <2>4
    <3> QED BY <1>5, <2>1, <2>2, <2>4, <3>1
  <2> QED BY <2>3, <2>4
<1>11. BusinessToldOfWinner'
  BY <1>3, <1>4 DEF Booked, BusinessToldOfWinner, OrderOfRefund
<1> QED BY <1>6, <1>9, <1>10, <1>11 DEF Booked

LEMMA BookedStep == Booked /\ [Next]_vars => Booked'
<1> SUFFICES ASSUME Booked, [Next]_vars PROVE Booked' OBVIOUS
<1>1. Tracked /\ Tracked' BY TrackedStep DEF Booked
<1>2. refunded \subseteq refunded' BY <1>1, RowSteps
<1>3. refundStatus \in [Refunds -> RefundStatus \cup {"NONE"}] BY <1>1 DEF Tracked, RefundTypeOK
<1>4. CASE UNCHANGED <<refundStatus, OtherRows>>
  BY <1>1, <1>2, <1>4, BookedStays DEF OtherRows
<1>5. ASSUME UNCHANGED OtherRows, NEW r \in Refunds, NEW status \in {"FAILED", "UNKNOWN", "PROCESSING"},
             refundStatus' = [refundStatus EXCEPT ![r] = status]
      PROVE  Booked'
  <2>1. refundStatus'[r] = status /\ \A q \in Refunds \ {r} : refundStatus'[q] = refundStatus[q]
    BY <1>3, <1>5
  <2> QED BY <1>1, <1>2, <1>5, <2>1, BookedStays DEF OtherRows
<1>6. ASSUME NEW r \in Refunds, refundStatus[r] # "NONE", Alipay(r) => r \in refunded, Finalize(r)
      PROVE  Booked'
  <2>1. CASE refundStatus[r] = "SUCCESS"
    BY <1>4, <1>6, <2>1 DEF Finalize, rowVars, OtherRows
  <2>2. CASE refundStatus[r] # "SUCCESS" BY <1>1, <1>2, <1>6, <2>2, BookedFinalizes
  <2> QED BY <2>1, <2>2
<1>7. ASSUME UNCHANGED <<refundStatus, orderStatus, settledByRefund, told>>,
             \A q \in Payments : /\ exception[q] = "RESOLVED" => exception'[q] = "RESOLVED"
                                 /\ exception'[q] = "OPEN" => exception[q] = "OPEN"
      PROVE  Booked'
  BY <1>1, <1>2, <1>7, BookedStays
<1> QED BY <1>1, <1>4, <1>5, <1>6, <1>7, RowSteps

\* A refund of Alipay is recorded as a success only if Alipay has done it.
THEOREM SuccessMeansRefundedCorrect == Spec => []SuccessMeansRefunded
<1>1. Booked => SuccessMeansRefunded BY DEF Booked
<1> QED BY <1>1, BookedInit, BookedStep, PTL DEF Spec

\* The status of an order speaks of the refunds of its winner alone.
THEOREM OrderFollowsWinnerCorrect == Spec => []OrderFollowsWinner
<1>1. Booked => OrderFollowsWinner BY DEF Booked
<1> QED BY <1>1, BookedInit, BookedStep, PTL DEF Spec

\* Refunds settle the case of a late duplicate only when all of its money went back, the
\* administrator never undoes it, and no case is left open once its money is recorded back.
THEOREM DisputeFollowsRefundsCorrect == Spec => []DisputeFollowsRefunds
<1>1. Booked => DisputeFollowsRefunds BY DEF Booked
<1> QED BY <1>1, BookedInit, BookedStep, PTL DEF Spec

\* The business is told of the winner's refunds, of all that are recorded and only of those
\* that are done.
THEOREM BusinessToldOfWinnerCorrect == Spec => []BusinessToldOfWinner
<1>1. Booked => BusinessToldOfWinner BY DEF Booked
<1> QED BY <1>1, BookedInit, BookedStep, PTL DEF Spec

-----------------------------------------------------------------------------
(* The worker's list.                                                      *)

\* A step leaves a refund on the list, or gives it no reason to be there.
Listed(r) ==
    /\ queryAttempts'[r] >= queryAttempts[r]
    /\ \/ refundStatus'[r] = refundStatus[r] /\ (nextQueryAt[r] => nextQueryAt'[r])
       \/ Alipay(r) /\ refundStatus'[r] \in Recoverable => nextQueryAt'[r]
       \/ queryAttempts'[r] >= RECOVERY_MAX_ATTEMPTS

\* A row that is written: either it is listed with what it needs, or it needs nothing.
LEMMA RowLists ==
    ASSUME Tracked, queryAttempts' = queryAttempts, NEW q \in Refunds, NEW r \in Refunds,
           NEW value, nextQueryAt' = [nextQueryAt EXCEPT ![r] = value],
           NEW status, refundStatus' = [refundStatus EXCEPT ![r] = status],
           Alipay(r) /\ status \in Recoverable => value
    PROVE  Listed(q)
<1>1. RowTypes /\ queryAttempts[q] \in Nat
  BY TypeParts, RefundAssumption DEF Tracked, WorldTypes
<1>2. CASE q = r
  <2>1. nextQueryAt'[r] = value /\ refundStatus'[r] = status BY <1>1 DEF RowTypes
  <2> QED BY <1>1, <1>2, <2>1 DEF Listed
<1>3. CASE q # r
  <2>1. nextQueryAt'[q] = nextQueryAt[q] /\ refundStatus'[q] = refundStatus[q]
    BY <1>1, <1>3 DEF RowTypes
  <2> QED BY <1>1, <2>1 DEF Listed
<1> QED BY <1>2, <1>3

LEMMA FinalizeLists ==
    ASSUME Tracked, queryAttempts' = queryAttempts, NEW q \in Refunds, NEW r \in Refunds, Finalize(r)
    PROVE  Listed(q)
<1>1. queryAttempts[q] \in Nat BY TypeParts, RefundAssumption DEF Tracked, WorldTypes
<1>2. CASE UNCHANGED rowVars BY <1>1, <1>2 DEF rowVars, Listed
<1>3. CASE ~UNCHANGED rowVars
  <2>1. /\ refundStatus' = [refundStatus EXCEPT ![r] = "SUCCESS"]
        /\ nextQueryAt' = [nextQueryAt EXCEPT ![r] = FALSE]
    BY <1>3 DEF Finalize
  <2> QED BY <2>1, RowLists DEF Recoverable
<1> QED BY <1>2, <1>3

LEMMA ListSteps ==
    ASSUME Tracked, [Next]_vars, NEW q \in Refunds
    PROVE  Listed(q)
<1>1. RowTypes /\ WorldTypes BY TypeParts DEF Tracked
<1>2. queryAttempts[q] \in Nat /\ RECOVERY_MAX_ATTEMPTS \in Nat BY <1>1, RefundAssumption DEF WorldTypes
<1>3. ASSUME UNCHANGED <<refundStatus, nextQueryAt, queryAttempts>> PROVE Listed(q)
  BY <1>2, <1>3 DEF Listed
<1>4. CASE UNCHANGED vars BY <1>3, <1>4 DEF vars, rowVars
<1>5. ASSUME NEW h \in Procs, NEW r \in Refunds, CreateRefund(h, r) PROVE Listed(q)
  <2>1. /\ nextQueryAt' = [nextQueryAt EXCEPT ![r] = Alipay(r)]
        /\ refundStatus' = [refundStatus EXCEPT ![r] = "PROCESSING"]
        /\ queryAttempts' = queryAttempts
    BY <1>5 DEF CreateRefund
  <2> QED BY <2>1, RowLists
<1>6. ASSUME NEW h \in Procs, updateRefund(h) PROVE Listed(q)
  <2>1. proc[h].refund \in Refunds BY <1>6, HandFacts DEF updateRefund, Good
  <2> DEFINE value == Alipay(proc[h].refund) /\ proc[h].res \in Recoverable
  <2>2. /\ nextQueryAt' = [nextQueryAt EXCEPT ![proc[h].refund] = value]
        /\ refundStatus' = [refundStatus EXCEPT ![proc[h].refund] = proc[h].res]
        /\ queryAttempts' = queryAttempts
    BY <1>6 DEF updateRefund
  <2>3. Alipay(proc[h].refund) /\ proc[h].res \in Recoverable => value OBVIOUS
  <2> HIDE DEF value
  <2> QED BY <2>1, <2>2, <2>3, RowLists
<1>7. ASSUME NEW h \in Procs, finalizeRefund(h) PROVE Listed(q)
  <2>1. proc[h].refund \in Refunds BY <1>7, HandFacts DEF finalizeRefund, Good
  <2> QED BY <1>7, <2>1, FinalizeLists DEF finalizeRefund
<1>14. ASSUME NEW r \in Refunds, MatchReceipt(r) PROVE Listed(q)
  BY <1>14, FinalizeLists DEF MatchReceipt
<1>8. ASSUME NEW r \in Refunds, LateRefund(r) PROVE Listed(q)
  BY <1>3, <1>8 DEF LateRefund, rowVars
<1>9. ASSUME NEW h \in Procs, NEW r \in Refunds, ClaimRecovery(h, r) PROVE Listed(q)
  <2>1. /\ queryAttempts' = [queryAttempts EXCEPT ![r] = @ + 1]
        /\ UNCHANGED <<refundStatus, nextQueryAt>>
    BY <1>9 DEF ClaimRecovery, notRecovery
  <2>2. queryAttempts'[q] >= queryAttempts[q] BY <1>1, <1>2, <2>1 DEF WorldTypes
  <2> QED BY <2>1, <2>2 DEF Listed
<1>10. ASSUME NEW h \in Procs, KeepRefund(h) PROVE Listed(q)
  <2>1. UNCHANGED <<refundStatus, queryAttempts>> BY <1>10 DEF KeepRefund
  <2> DEFINE rearm == proc[h].res = "rearm"
  <2>2. nextQueryAt' = [nextQueryAt EXCEPT ![proc[h].refund] = @ \/ rearm] BY <1>10 DEF KeepRefund
  <2> HIDE DEF rearm
  <2>3. nextQueryAt[q] => nextQueryAt'[q]
    <3>1. CASE q = proc[h].refund
      <4>1. nextQueryAt'[q] = (nextQueryAt[q] \/ rearm) BY <1>1, <2>2, <3>1 DEF RowTypes
      <4> QED BY <4>1
    <3>2. CASE q # proc[h].refund BY <1>1, <2>2, <3>2 DEF RowTypes
    <3> QED BY <3>1, <3>2
  <2> QED BY <1>2, <2>1, <2>3 DEF Listed
<1>11. ASSUME NEW h \in Procs, RecoverWrite(h) PROVE Listed(q)
  <2>1. UNCHANGED <<refundStatus, queryAttempts>> BY <1>11 DEF RecoverWrite, notRecovery
  <2>2. nextQueryAt' = [nextQueryAt EXCEPT ![proc[h].refund] = ~proc[h].final] BY <1>11 DEF RecoverWrite
  <2>3. CASE q = proc[h].refund /\ proc[h].final
    <3>1. queryAttempts[q] >= RECOVERY_MAX_ATTEMPTS BY <2>3, HandFacts DEF Good
    <3> QED BY <1>2, <2>1, <3>1 DEF Listed
  <2>4. CASE q = proc[h].refund /\ ~proc[h].final
    <3>1. nextQueryAt'[q] BY <1>1, <2>2, <2>4 DEF RowTypes
    <3> QED BY <1>2, <2>1, <3>1 DEF Listed
  <2>5. CASE q # proc[h].refund
    <3>1. nextQueryAt'[q] = nextQueryAt[q] BY <1>1, <2>2, <2>5 DEF RowTypes
    <3> QED BY <1>2, <2>1, <3>1 DEF Listed
  <2> QED BY <2>3, <2>4, <2>5
<1>12. ASSUME NEW h \in Procs, NEW r \in Refunds, StartQuery(h, r) PROVE Listed(q)
  BY <1>3, <1>12 DEF StartQuery, rowVars
<1>15. ASSUME NEW p \in Payments, updatePaymentException(p) PROVE Listed(q)
  BY <1>3, <1>15 DEF updatePaymentException
<1>13. ASSUME NEW h \in Procs,
              \/ DispatchRefund(h) \/ FinalizeThrows(h) \/ ChannelQuery(h) \/ QueryThrows(h)
              \/ RecoverQuery(h) \/ AfterRecovery(h) \/ RecoverRead(h) \/ Crash(h)
       PROVE  Listed(q)
  BY <1>3, <1>13 DEF DispatchRefund, FinalizeThrows, ChannelQuery, QueryThrows, RecoverQuery,
     AfterRecovery, RecoverRead, Crash, rowVars, notRecovery
<1> QED BY <1>4, <1>5, <1>6, <1>7, <1>8, <1>9, <1>10, <1>11, <1>12, <1>13, <1>14, <1>15
       DEF Next, HandlerStep

\* A refund whose result is open, and whose attempts are not used up, is on the worker's
\* list: nobody but the worker that has made the last attempt takes it off.
THEOREM RefundIsRediscoveredCorrect == Spec => []RefundIsRediscovered
<1>1. Init => RefundIsRediscovered BY DEF Init, RefundIsRediscovered, Recoverable
<1>2. Tracked /\ RefundIsRediscovered /\ [Next]_vars => RefundIsRediscovered'
  <2> SUFFICES ASSUME Tracked, RefundIsRediscovered, [Next]_vars, NEW r \in Refunds,
                      Alipay(r), refundStatus'[r] \in Recoverable,
                      queryAttempts'[r] < RECOVERY_MAX_ATTEMPTS
               PROVE  nextQueryAt'[r]
    BY DEF RefundIsRediscovered, Alipay
  <2>1. Listed(r) BY ListSteps
  <2>2. queryAttempts[r] \in Nat /\ queryAttempts'[r] \in Nat /\ RECOVERY_MAX_ATTEMPTS \in Nat
    BY TrackedStep, RefundAssumption DEF Tracked, RefundTypeOK
  <2>3. queryAttempts[r] < RECOVERY_MAX_ATTEMPTS /\ ~(queryAttempts'[r] >= RECOVERY_MAX_ATTEMPTS)
    BY <2>1, <2>2 DEF Listed
  <2> QED BY <2>1, <2>3 DEF Listed, RefundIsRediscovered
<1> QED BY <1>1, <1>2, TrackedInit, TrackedStep, PTL DEF Spec

-----------------------------------------------------------------------------
(* What Alipay may still give back.                                        *)

\* The refunds that are done, that Alipay may still do, or that a handler will ask for.
\* One whose answer may lose its body counts until it is done.
Dispatching(h, r) == proc[h].pc = "dispatch" /\ proc[h].refund = r
Spent == (refunded \ Truncated) \cup inTransit \cup {r \in Refunds : \E h \in Procs : Dispatching(h, r)}
Live(p) == {r \in Spent : PaymentOf[r] = p}
Reserving == {"PROCESSING", "UNKNOWN", "SUCCESS"}

\* The inductive invariant of the money: it fits, it is reserved, it is not given up, and
\* each refund is asked for once.
Within == \A p \in Payments : TotalOf(Live(p)) <= amount[OrderOf[p]]
Standing == \A r \in Spent : refundStatus[r] \in Reserving
Refused == \A h \in Procs : proc[h].pc = "update" /\ proc[h].res = "FAILED" => proc[h].refund \notin Spent
Sole ==
    /\ \A h \in Procs : proc[h].pc = "dispatch" => proc[h].refund \notin refunded \cup inTransit
    /\ \A g, h \in Procs : \A r \in Refunds : Dispatching(g, r) /\ Dispatching(h, r) => g = h
Bounded == Tracked /\ Within /\ Standing /\ Refused /\ Sole

\* What is done has a row.
Asked == \A r \in refunded : refundStatus[r] # "NONE"

\* The totals of a payment are numbers, and follow what is live.
LEMMA LiveTotals ==
    ASSUME RefundTypeOK, RefundTypeOK', NEW p \in Payments
    PROVE  /\ Live(p) \in SUBSET Refunds /\ Live(p)' \in SUBSET Refunds
           /\ TotalOf(Live(p)) \in Nat /\ TotalOf(Live(p))' \in Nat /\ amount[OrderOf[p]] \in Nat
           /\ Live(p)' \subseteq Live(p) => TotalOf(Live(p))' <= TotalOf(Live(p))
           /\ \A r \in Refunds : r \notin Live(p) /\ Live(p)' = Live(p) \cup {r}
                  => TotalOf(Live(p))' = AmountOf[r] + TotalOf(Live(p))
<1>1. Live(p) \in SUBSET Refunds /\ Live(p)' \in SUBSET Refunds
  BY DEF Live, Spent, RefundTypeOK
<1>2. amount[OrderOf[p]] \in Nat BY RefundAssumption
<1>3. PICK S \in SUBSET Refunds : S = Live(p)' BY <1>1
<1>4. TotalOf(Live(p))' = TotalOf(S) BY <1>3 DEF TotalOf, MapThenSumSet, MapThenFoldSet
<1>5. TotalOf(S) \in Nat /\ TotalOf(Live(p)) \in Nat BY <1>1, TotalNat
<1>6. S \subseteq Live(p) => TotalOf(S) <= TotalOf(Live(p)) BY <1>1, TotalGrows
<1>7. ASSUME NEW r \in Refunds, r \notin Live(p), S = Live(p) \cup {r}
      PROVE  TotalOf(S) = AmountOf[r] + TotalOf(Live(p))
  <2>1. r \in S /\ S \ {r} = Live(p) BY <1>7
  <2> QED BY <2>1, TotalAdds
<1> QED BY <1>1, <1>2, <1>3, <1>4, <1>5, <1>6, <1>7

LEMMA BoundedInit == Init => Asked /\ Bounded
<1> SUFFICES ASSUME Init PROVE Bounded BY DEF Init, Asked
<1>1. \A h \in Procs : proc[h].pc = "idle" BY DEF Init, Idle
<1>2. Spent = {} BY <1>1 DEF Init, Spent, Dispatching
<1>3. \A p \in Payments : Live(p) = {} BY <1>2 DEF Live
<1>4. TotalOf({}) = 0 BY TotalTakes
<1>5. Within
  <2>1. \A p \in Payments : amount[OrderOf[p]] \in Nat BY RefundAssumption
  <2> QED BY <1>3, <1>4, <2>1 DEF Within
<1>6. Standing /\ Refused /\ Sole BY <1>1, <1>2 DEF Standing, Refused, Sole, Dispatching
<1> QED BY <1>5, <1>6, TrackedInit DEF Bounded

\* A step that spends nothing new.
LEMMA SpendsNothing ==
    ASSUME Bounded, Tracked', Spent' \subseteq Spent,
           \A r \in Spent' : refundStatus'[r] \in Reserving
    PROVE  Within' /\ Standing'
<1>1. ASSUME NEW p \in Payments PROVE TotalOf(Live(p))' <= amount[OrderOf[p]]
  <2>1. RefundTypeOK /\ RefundTypeOK' BY DEF Bounded, Tracked
  <2>2. Live(p)' \subseteq Live(p) BY DEF Live
  <2>3. /\ TotalOf(Live(p)) \in Nat /\ TotalOf(Live(p))' \in Nat /\ amount[OrderOf[p]] \in Nat
        /\ TotalOf(Live(p))' <= TotalOf(Live(p))
    BY <2>1, <2>2, LiveTotals
  <2>4. TotalOf(Live(p)) <= amount[OrderOf[p]] BY DEF Bounded, Within
  <2> QED BY <2>3, <2>4
<1> QED BY <1>1 DEF Within, Standing

\* A refund is created only when everything that may still be given back leaves room.
LEMMA CreateBounded ==
    ASSUME Asked, Bounded, Tracked', NEW h \in Procs, NEW r \in Refunds, CreateRefund(h, r)
    PROVE  Bounded'
<1> DEFINE p == PaymentOf[r]
<1>1. /\ RefundTypeOK /\ RefundTypeOK' BY DEF Bounded, Tracked
<1>2. /\ refundStatus[r] = "NONE"
      /\ reserved(p) + AmountOf[r] <= amount[OrderOf[p]]
      /\ refundStatus' = [refundStatus EXCEPT ![r] = "PROCESSING"]
      /\ UNCHANGED <<refunded, inTransit>>
  BY DEF CreateRefund, OrderOfRefund
<1>3. PICK state : state = [Idle EXCEPT !.pc = "dispatch", !.refund = r, !.seen = "PROCESSING"]
  OBVIOUS
<1>4. /\ state.pc = "dispatch" /\ state.refund = r /\ proc' = [proc EXCEPT ![h] = state]
  BY <1>3 DEF CreateRefund, Become, Idle
<1>5. /\ proc'[h].pc = "dispatch" /\ proc'[h].refund = r
      /\ \A g \in Procs \ {h} : proc'[g] = proc[g]
  BY <1>1, <1>4 DEF RefundTypeOK
<1>6. \A g \in Procs : proc[g].pc # "idle" => proc[g].refund # r
  BY <1>2 DEF Bounded, Tracked, Good
<1>7. proc[h].pc = "idle" BY DEF CreateRefund, Idle
<1>8. r \notin Spent BY <1>2 DEF Bounded, Standing, Reserving
<1>9. Spent' = Spent \cup {r}
  <2>1. \A q \in Refunds : \A g \in Procs :
            Dispatching(g, q)' <=> Dispatching(g, q) \/ (g = h /\ q = r)
    BY <1>5, <1>7 DEF Dispatching
  <2> QED BY <1>2, <2>1 DEF Spent
<1>10. \A q \in Refunds \ {r} : refundStatus'[q] = refundStatus[q]
  BY <1>2
<1>11. Standing'
  <2>1. refundStatus'[r] = "PROCESSING" BY <1>1, <1>2 DEF RefundTypeOK
  <2>2. Spent \subseteq Refunds BY <1>1 DEF Spent, RefundTypeOK
  <2> QED BY <1>1, <1>2, <1>9, <2>1, <2>2 DEF Bounded, Standing, Reserving, RefundTypeOK
<1>12. Within'
  <2> SUFFICES ASSUME NEW q \in Payments PROVE TotalOf(Live(q))' <= amount[OrderOf[q]]
    BY DEF Within
  <2>1. TotalOf(Live(q)) <= amount[OrderOf[q]] BY DEF Bounded, Within
  <2>2. CASE q # p
    <3>1. Live(q)' \subseteq Live(q) BY <1>9, <2>2 DEF Live
    <3>2. /\ TotalOf(Live(q)) \in Nat /\ TotalOf(Live(q))' \in Nat /\ amount[OrderOf[q]] \in Nat
          /\ TotalOf(Live(q))' <= TotalOf(Live(q))
      BY <1>1, <3>1, LiveTotals
    <3> QED BY <2>1, <3>2
  <2>3. CASE q = p
    <3> DEFINE held == RefundsOf(p, {"CREATED", "PROCESSING", "UNKNOWN", "SUCCESS"})
    <3>1. r \notin Live(p) /\ Live(p)' = Live(p) \cup {r} BY <1>8, <1>9 DEF Live
    <3>2. /\ TotalOf(Live(p))' = AmountOf[r] + TotalOf(Live(p))
          /\ TotalOf(Live(p)) \in Nat /\ TotalOf(Live(p))' \in Nat /\ amount[OrderOf[p]] \in Nat
      BY <1>1, <2>3, <3>1, LiveTotals
    <3>3. Live(p) \in SUBSET held /\ held \in SUBSET Refunds
      <4>1. Live(p) \in SUBSET Refunds BY <1>1, <2>3, LiveTotals
      <4> QED BY <4>1 DEF Live, Bounded, Standing, Reserving, RefundsOf
    <3>4. TotalOf(Live(p)) <= TotalOf(held) /\ TotalOf(held) \in Nat
      <4> HIDE DEF held
      <4> QED BY <3>3, TotalGrows, TotalNat
    <3>5. TotalOf(held) + AmountOf[r] <= amount[OrderOf[p]] BY <1>2 DEF reserved
    <3>6. AmountOf[r] \in Nat BY RefundAssumption
    <3> HIDE DEF held
    <3> QED BY <2>3, <3>2, <3>4, <3>5, <3>6
  <2> QED BY <2>2, <2>3
<1>13. Refused'
  BY <1>5, <1>6, <1>9 DEF Bounded, Refused
<1>14. Sole'
  <2>1. r \notin refunded \cup inTransit BY <1>2, <1>8 DEF Asked, Spent
  <2>2. \A g \in Procs : proc'[g].pc = "dispatch" => proc'[g].refund \notin (refunded \cup inTransit)'
    BY <1>2, <1>5, <2>1 DEF Bounded, Sole
  <2>3. ASSUME NEW f \in Procs, NEW g \in Procs, NEW q \in Refunds, Dispatching(f, q)', Dispatching(g, q)'
        PROVE  f = g
    <3>1. CASE f # h /\ g # h BY <1>5, <2>3, <3>1 DEF Bounded, Sole, Dispatching
    <3>2. CASE f = h \/ g = h BY <1>5, <1>6, <2>3, <3>2 DEF Dispatching
    <3> QED BY <3>1, <3>2
  <2> QED BY <2>2, <2>3 DEF Sole
<1> QED BY <1>11, <1>12, <1>13, <1>14 DEF Bounded

\* The channel is asked: what it does, or may do later, was live before.
LEMMA DispatchBounded ==
    ASSUME Bounded, Tracked', NEW h \in Procs, DispatchRefund(h)
    PROVE  Bounded'
<1> DEFINE r == proc[h].refund
<1>1. /\ RefundTypeOK /\ RefundTypeOK' BY DEF Bounded, Tracked
<1>2. r \in Refunds /\ proc[h].pc = "dispatch" BY HandFacts DEF DispatchRefund, Good, Bounded
<1>3. r \in Spent /\ r \notin refunded \cup inTransit
  BY <1>2 DEF Spent, Dispatching, Bounded, Sole
<1>4. PICK pc, res :
          /\ proc' = [proc EXCEPT ![h] = [proc[h] EXCEPT !.pc = pc, !.res = res]]
          /\ pc \in {"finalize", "update"}
          /\ pc = "update" /\ res = "FAILED" =>
                 inTransit' = inTransit /\ (refunded' = refunded \/ r \in Truncated)
          /\ refunded' \in {refunded, refunded \cup {r}}
          /\ inTransit' \in {inTransit, inTransit \cup {r}}
  BY DEF DispatchRefund, Become
<1>5. refundStatus' = refundStatus BY DEF DispatchRefund, rowVars
<1>6. PICK state : state = [proc[h] EXCEPT !.pc = pc, !.res = res] OBVIOUS
<1>7. state.pc = pc /\ state.res = res /\ state.refund = r /\ proc' = [proc EXCEPT ![h] = state]
  <2>1. proc[h] \in Hands BY HandFacts DEF Bounded
  <2> QED BY <1>4, <1>6, <2>1 DEF Hands
<1>8. /\ proc'[h] = state
      /\ \A g \in Procs \ {h} : proc'[g] = proc[g]
  BY <1>1, <1>7 DEF RefundTypeOK
<1>9. \A q \in Refunds : \A g \in Procs : Dispatching(g, q)' => g # h /\ Dispatching(g, q)
  BY <1>4, <1>7, <1>8 DEF Dispatching
<1>10. Spent' \subseteq Spent
  BY <1>3, <1>4, <1>9 DEF Spent
<1>11. Within' /\ Standing'
  <2>1. \A q \in Spent' : refundStatus'[q] \in Reserving
    BY <1>5, <1>10 DEF Bounded, Standing
  <2> QED BY <1>10, <2>1, SpendsNothing
<1>12. \A g \in Procs \ {h} : ~Dispatching(g, r)
  BY <1>2 DEF Bounded, Sole, Dispatching
<1>13. Refused'
  <2>1. ASSUME pc = "update", res = "FAILED" PROVE r \notin Spent'
    BY <1>3, <1>4, <1>9, <1>12, <2>1 DEF Spent
  <2>2. \A g \in Procs \ {h} : proc'[g].pc = "update" /\ proc'[g].res = "FAILED" => proc'[g].refund \notin Spent'
    BY <1>8, <1>10 DEF Bounded, Refused
  <2> QED BY <1>7, <1>8, <2>1, <2>2 DEF Refused
<1>14. Sole'
  <2>1. ASSUME NEW g \in Procs, proc'[g].pc = "dispatch"
        PROVE  proc'[g].refund \notin (refunded \cup inTransit)'
    <3>1. g # h /\ proc'[g] = proc[g] BY <1>4, <1>7, <1>8, <2>1
    <3>2. proc[g].refund # r BY <1>12, <2>1, <3>1 DEF Dispatching
    <3>3. proc[g].refund \notin refunded \cup inTransit BY <2>1, <3>1 DEF Bounded, Sole
    <3> QED BY <1>4, <3>1, <3>2, <3>3
  <2>2. \A f, g \in Procs : \A q \in Refunds : Dispatching(f, q)' /\ Dispatching(g, q)' => f = g
    BY <1>9 DEF Bounded, Sole
  <2> QED BY <2>1, <2>2 DEF Sole
<1> QED BY <1>11, <1>13, <1>14 DEF Bounded

\* Any other step: no handler starts to dispatch or to give up, and no live refund is
\* given up.
LEMMA OtherBounded ==
    ASSUME Bounded, Tracked', (refunded \cup inTransit)' \subseteq refunded \cup inTransit,
           inTransit' \subseteq inTransit,
           \A r \in Spent : refundStatus'[r] \in Reserving,
           \A g \in Procs : \/ proc'[g] = proc[g]
                            \/ /\ proc'[g].pc # "dispatch"
                               /\ proc'[g].pc = "update" => proc'[g].res # "FAILED"
    PROVE  Bounded'
<1>1. \A q \in Refunds : \A g \in Procs : Dispatching(g, q)' => Dispatching(g, q)
  BY DEF Dispatching
<1>2. Spent' \subseteq Spent BY <1>1 DEF Spent
<1>3. Within' /\ Standing' BY <1>2, SpendsNothing
<1>4. Refused' BY <1>2 DEF Bounded, Refused
<1>5. Sole' BY <1>1 DEF Bounded, Sole
<1> QED BY <1>3, <1>4, <1>5 DEF Bounded

\* Of the rows only a refusal leaves what is reserved, and it is of a refund that is not live.
LEMMA RowsStand ==
    ASSUME Bounded, NEW r \in Refunds, NEW q \in Spent,
           \/ refundStatus' = refundStatus
           \/ \E status \in Reserving : refundStatus' = [refundStatus EXCEPT ![r] = status]
           \/ r \notin Spent /\ refundStatus' = [refundStatus EXCEPT ![r] = "FAILED"]
    PROVE  refundStatus'[q] \in Reserving
<1>1. refundStatus \in [Refunds -> RefundStatus \cup {"NONE"}] /\ q \in Refunds
  BY DEF Bounded, Tracked, RefundTypeOK, Spent
<1>2. refundStatus[q] \in Reserving BY DEF Bounded, Standing
<1> QED BY <1>1, <1>2

LEMMA FinalizeStands ==
    ASSUME NEW r \in Refunds, Finalize(r)
    PROVE  \/ refundStatus' = refundStatus
           \/ \E status \in Reserving : refundStatus' = [refundStatus EXCEPT ![r] = status]
BY DEF Finalize, rowVars, Reserving

\* A handler that moves by itself.
LEMMA OneMoves ==
    ASSUME Tracked, NEW h \in Procs, NEW state, proc' = [proc EXCEPT ![h] = state],
           state.pc # "dispatch", state.pc = "update" => state.res # "FAILED"
    PROVE  \A g \in Procs : \/ proc'[g] = proc[g]
                            \/ /\ proc'[g].pc # "dispatch"
                               /\ proc'[g].pc = "update" => proc'[g].res # "FAILED"
<1>1. proc'[h] = state /\ \A g \in Procs \ {h} : proc'[g] = proc[g]
  BY DEF Tracked, RefundTypeOK
<1> QED BY <1>1

LEMMA ReturnMoves ==
    ASSUME Tracked, NEW h \in Procs, NEW result, Return(h, result)
    PROVE  \A g \in Procs : \/ proc'[g] = proc[g]
                            \/ /\ proc'[g].pc # "dispatch"
                               /\ proc'[g].pc = "update" => proc'[g].res # "FAILED"
<1>1. PICK state : state = IF h \in Api THEN Idle ELSE [proc[h] EXCEPT !.pc = "afterQuery", !.res = result]
  OBVIOUS
<1>2. proc[h] \in Hands BY HandFacts
<1>3. state.pc \in {"idle", "afterQuery"} BY <1>1, <1>2 DEF Idle, Hands
<1>4. proc' = [proc EXCEPT ![h] = state] BY <1>1 DEF Return, Become
<1> QED BY <1>3, <1>4, OneMoves

\* A handler writes a row.
LEMMA WriteBounded ==
    ASSUME Bounded, Tracked', NEW h \in Procs, updateRefund(h) \/ finalizeRefund(h)
    PROVE  Bounded'
<1>1. proc[h].refund \in Refunds BY HandFacts DEF Bounded, updateRefund, finalizeRefund, Good
<1>2. UNCHANGED <<refunded, inTransit>> BY DEF updateRefund, finalizeRefund
<1>3. \A q \in Spent : refundStatus'[q] \in Reserving
  <2>1. CASE updateRefund(h)
    <3>1. /\ refundStatus' = [refundStatus EXCEPT ![proc[h].refund] = proc[h].res]
          /\ proc[h].res \in {"FAILED", "UNKNOWN", "PROCESSING"}
          /\ proc[h].res = "FAILED" => proc[h].refund \notin Spent
      BY <2>1, HandFacts DEF updateRefund, Bounded, Good, Refused
    <3> QED BY <1>1, <3>1, RowsStand DEF Reserving
  <2>2. CASE finalizeRefund(h) BY <1>1, <2>2, FinalizeStands, RowsStand DEF finalizeRefund
  <2> QED BY <2>1, <2>2
<1>4. \E result : Return(h, result) BY DEF updateRefund, finalizeRefund
<1> QED BY <1>2, <1>3, <1>4, ReturnMoves, OtherBounded DEF Bounded

\* A step of one handler that writes nothing but, perhaps, the list of the worker.
LEMMA HandBounded ==
    ASSUME Bounded, Tracked', NEW h \in Procs, NEW state, proc' = [proc EXCEPT ![h] = state],
           state.pc # "dispatch", state.pc = "update" => state.res # "FAILED",
           UNCHANGED <<refundStatus, refunded, inTransit>>
    PROVE  Bounded'
<1>1. \A q \in Spent : refundStatus'[q] \in Reserving BY DEF Bounded, Standing
<1> QED BY <1>1, OneMoves, OtherBounded DEF Bounded

LEMMA QueryBounded ==
    ASSUME Bounded, Tracked', NEW h \in Procs,
           \/ \E r \in Refunds : StartQuery(h, r) \/ ClaimRecovery(h, r)
           \/ RecoverQuery(h) \/ ChannelQuery(h) \/ AfterRecovery(h) \/ RecoverRead(h)
           \/ RecoverWrite(h) \/ Crash(h)
    PROVE  Bounded'
<1>1. UNCHANGED <<refundStatus, refunded, inTransit>>
  BY DEF StartQuery, ClaimRecovery, RecoverQuery, ChannelQuery, AfterRecovery, RecoverRead,
     RecoverWrite, Crash, rowVars, notRecovery
<1>2. proc[h] \in Hands BY HandFacts DEF Bounded
<1>3. \E state : /\ proc' = [proc EXCEPT ![h] = state]
                 /\ state.pc # "dispatch" /\ (state.pc = "update" => state.res # "FAILED")
  <2>1. ASSUME NEW r, QueryRead(h, r)
        PROVE  \E state : proc' = [proc EXCEPT ![h] = state] /\ state.pc = "query"
    <3>1. PICK res : proc' = [proc EXCEPT ![h] = [proc[h] EXCEPT !.pc = "query", !.refund = r,
                                                     !.seen = refundStatus[r], !.res = res]]
      BY <2>1 DEF QueryRead, Become
    <3>2. PICK state : state = [proc[h] EXCEPT !.pc = "query", !.refund = r,
                                    !.seen = refundStatus[r], !.res = res]
      OBVIOUS
    <3>3. state.pc = "query" BY <1>2, <3>2 DEF Hands
    <3> QED BY <3>1, <3>2, <3>3
  <2>2. CASE \E r \in Refunds : StartQuery(h, r) BY <2>1, <2>2 DEF StartQuery
  <2>3. CASE RecoverQuery(h) BY <2>1, <2>3 DEF RecoverQuery
  <2>4. CASE Become(h, Idle)
    <3>1. Idle.pc = "idle" BY DEF Idle
    <3> QED BY <2>4, <3>1 DEF Become
  <2>5. ASSUME NEW r \in Refunds, ClaimRecovery(h, r)
        PROVE  \E state : proc' = [proc EXCEPT ![h] = state] /\ state.pc = "recover"
    <3> DEFINE last == queryAttempts[r] + 1 >= RECOVERY_MAX_ATTEMPTS
    <3>1. PICK state : state = [Idle EXCEPT !.pc = "recover", !.refund = r, !.final = last] OBVIOUS
    <3>2. state.pc = "recover" BY <3>1 DEF Idle
    <3>3. proc' = [proc EXCEPT ![h] = state] BY <2>5, <3>1 DEF ClaimRecovery, Become
    <3> QED BY <3>2, <3>3
  <2>6. ASSUME ChannelQuery(h)
        PROVE  \E state : /\ proc' = [proc EXCEPT ![h] = state]
                          /\ state.pc \in {"finalize", "keep"} \/ (state.pc = "update" /\ state.res # "FAILED")
    <3>1. QueryAnswer(proc[h].refund) # "FAILED" BY DEF QueryAnswer
    <3>2. PICK pc, res :
              /\ proc' = [proc EXCEPT ![h] = [proc[h] EXCEPT !.pc = pc, !.res = res]]
              /\ pc \in {"finalize", "keep"} \/ (pc = "update" /\ res # "FAILED")
      <4>1. [proc[h] EXCEPT !.pc = "keep"] = [proc[h] EXCEPT !.pc = "keep", !.res = proc[h].res]
        BY <1>2 DEF Hands
      <4> QED BY <2>6, <3>1, <4>1 DEF ChannelQuery, Become
    <3>3. PICK state : state = [proc[h] EXCEPT !.pc = pc, !.res = res] OBVIOUS
    <3>4. state.pc = pc /\ state.res = res BY <1>2, <3>3 DEF Hands
    <3> QED BY <3>2, <3>3, <3>4
  <2>7. ASSUME AfterRecovery(h)
        PROVE  \E state : proc' = [proc EXCEPT ![h] = state] /\ state.pc \in {"idle", "recoverFail", "exhaust"}
    <3>1. \/ Become(h, Idle)
          \/ \E pc \in {"recoverFail", "exhaust"} :
                 Become(h, [proc[h] EXCEPT !.pc = pc, !.seen = "NONE", !.res = "NONE"])
      BY <2>7 DEF AfterRecovery
    <3>2. ASSUME NEW pc \in {"recoverFail", "exhaust"},
                 Become(h, [proc[h] EXCEPT !.pc = pc, !.seen = "NONE", !.res = "NONE"])
          PROVE  \E state : proc' = [proc EXCEPT ![h] = state] /\ state.pc = pc
      <4>1. PICK state : state = [proc[h] EXCEPT !.pc = pc, !.seen = "NONE", !.res = "NONE"] OBVIOUS
      <4>2. state.pc = pc BY <1>2, <4>1 DEF Hands
      <4> QED BY <3>2, <4>1, <4>2 DEF Become
    <3>3. CASE Become(h, Idle)
      <4>1. Idle.pc = "idle" BY DEF Idle
      <4> QED BY <3>3, <4>1 DEF Become
    <3> QED BY <3>1, <3>2, <3>3
  <2>8. CASE RecoverRead(h)
    <3>1. PICK state : state = [proc[h] EXCEPT !.pc = "recoverWrite"] OBVIOUS
    <3>2. state.pc = "recoverWrite" BY <1>2, <3>1 DEF Hands
    <3> QED BY <2>4, <2>8, <3>1, <3>2 DEF RecoverRead, Become
  <2>9. CASE RecoverWrite(h) \/ Crash(h) BY <2>4, <2>9 DEF RecoverWrite, Crash
  <2> QED BY <2>2, <2>3, <2>5, <2>6, <2>7, <2>8, <2>9
<1> QED BY <1>1, <1>3, HandBounded

LEMMA RestBounded ==
    ASSUME Bounded, Tracked',
           \/ \E h \in Procs : FinalizeThrows(h) \/ QueryThrows(h) \/ KeepRefund(h)
           \/ \E r \in Refunds : MatchReceipt(r) \/ LateRefund(r)
           \/ \E p \in Payments : updatePaymentException(p)
           \/ UNCHANGED vars
    PROVE  Bounded'
<1>1. ASSUME UNCHANGED refundStatus PROVE \A q \in Spent : refundStatus'[q] \in Reserving
  BY <1>1 DEF Bounded, Standing
<1>2. ASSUME NEW h \in Procs, FinalizeThrows(h) \/ QueryThrows(h) \/ KeepRefund(h) PROVE Bounded'
  <2>1. UNCHANGED <<refundStatus, refunded, inTransit>>
    BY <1>2 DEF FinalizeThrows, QueryThrows, KeepRefund, rowVars
  <2>2. \E result : Return(h, result) BY <1>2 DEF FinalizeThrows, QueryThrows, KeepRefund
  <2> QED BY <1>1, <2>1, <2>2, ReturnMoves, OtherBounded DEF Bounded
<1>3. ASSUME NEW r \in Refunds, MatchReceipt(r) PROVE Bounded'
  <2>1. UNCHANGED <<refunded, inTransit, proc>> /\ Finalize(r) BY <1>3 DEF MatchReceipt
  <2>2. \A q \in Spent : refundStatus'[q] \in Reserving BY <2>1, FinalizeStands, RowsStand
  <2> QED BY <2>1, <2>2, OtherBounded
<1>4. ASSUME NEW r \in Refunds, LateRefund(r) PROVE Bounded'
  <2>1. /\ UNCHANGED <<refundStatus, proc>> /\ inTransit' \subseteq inTransit
        /\ (refunded \cup inTransit)' \subseteq refunded \cup inTransit
    BY <1>4 DEF LateRefund, rowVars
  <2> QED BY <1>1, <2>1, OtherBounded
<1>5. CASE UNCHANGED vars BY <1>1, <1>5, OtherBounded DEF vars, rowVars
<1>6. ASSUME NEW p \in Payments, updatePaymentException(p) PROVE Bounded'
  BY <1>1, <1>6, OtherBounded DEF updatePaymentException
<1> QED BY <1>2, <1>3, <1>4, <1>5, <1>6

\* A step does one more refund at most, and then writes nothing of orders and cases.
LEMMA GivenSteps ==
    ASSUME Tracked, [Next]_vars
    PROVE  \/ refunded' = refunded
           \/ UNCHANGED OtherRows /\ \E r \in Refunds \cap Spent : refunded' = refunded \cup {r}
<1>1. ASSUME NEW h \in Procs, DispatchRefund(h)
      PROVE  /\ UNCHANGED OtherRows
             /\ \E r \in Refunds \cap Spent : refunded' \in {refunded, refunded \cup {r}}
  <2>1. proc[h].refund \in Refunds BY <1>1, HandFacts DEF DispatchRefund, Good
  <2>2. proc[h].refund \in Spent BY <1>1, <2>1 DEF DispatchRefund, Spent, Dispatching
  <2> QED BY <1>1, <2>1, <2>2 DEF DispatchRefund, rowVars, OtherRows
<1>2. ASSUME NEW r \in Refunds, LateRefund(r)
      PROVE  UNCHANGED OtherRows /\ r \in Spent /\ refunded' \in {refunded, refunded \cup {r}}
  BY <1>2 DEF LateRefund, rowVars, OtherRows, Spent
<1>3. ASSUME NEW h \in Procs, NEW r \in Refunds, CreateRefund(h, r) \/ StartQuery(h, r) \/ ClaimRecovery(h, r)
      PROVE  refunded' = refunded
  BY <1>3 DEF CreateRefund, StartQuery, ClaimRecovery, notRecovery
<1>4. ASSUME NEW h \in Procs, HandlerStep(h), ~DispatchRefund(h) PROVE refunded' = refunded
  BY <1>4 DEF HandlerStep, updateRefund, finalizeRefund, FinalizeThrows, ChannelQuery, QueryThrows,
     KeepRefund, RecoverQuery, AfterRecovery, RecoverRead, RecoverWrite, notRecovery
<1>5. ASSUME \/ \E h \in Procs : Crash(h)
             \/ \E r \in Refunds : MatchReceipt(r)
             \/ \E p \in Payments : updatePaymentException(p)
             \/ UNCHANGED vars
      PROVE  refunded' = refunded
  BY <1>5 DEF Crash, MatchReceipt, updatePaymentException, vars
<1> QED BY <1>1, <1>2, <1>3, <1>4, <1>5 DEF Next

LEMMA AskedStep == Asked /\ Bounded /\ [Next]_vars => Asked'
<1> SUFFICES ASSUME Asked, Bounded, [Next]_vars, NEW r \in refunded' PROVE refundStatus'[r] # "NONE"
  BY DEF Asked
<1>1. Tracked /\ Tracked' BY TrackedStep DEF Bounded
<1>2. r \in Refunds /\ refundStatus[r] # "NONE"
  <2>1. r \in Refunds BY <1>1 DEF Tracked, RefundTypeOK
  <2>2. r \in refunded \/ r \in Spent BY <1>1, GivenSteps
  <2> QED BY <2>1, <2>2 DEF Asked, Bounded, Standing, Reserving
<1>3. refundStatus \in [Refunds -> RefundStatus \cup {"NONE"}] BY <1>1 DEF Tracked, RefundTypeOK
<1>4. ASSUME NEW q \in Refunds, refundStatus[q] # "NONE", Finalize(q) PROVE refundStatus'[r] # "NONE"
  BY <1>1, <1>2, <1>4, FinalizeTypes
<1> QED BY <1>1, <1>2, <1>3, <1>4, RowSteps

LEMMA BoundedStep == Asked /\ Bounded /\ [Next]_vars => Asked' /\ Bounded'
<1> SUFFICES ASSUME Asked, Bounded, [Next]_vars PROVE Bounded' BY AskedStep
<1>1. Tracked' BY TrackedStep DEF Bounded
<1> QED BY <1>1, CreateBounded, DispatchBounded, WriteBounded, QueryBounded, RestBounded
        DEF Next, HandlerStep

\* Alipay is never asked to give back more than was paid, however many requests time out,
\* arrive late, are given up or are lost with their handler.  A refund whose answer may lose
\* its body is within the amount as long as it is under way; done, it is not counted.
THEOREM NothingOverRefundedCorrect == Spec => []NothingOverRefunded
<1>1. Bounded => NothingOverRefunded
  <2> SUFFICES ASSUME Bounded, NEW p \in Payments
               PROVE  TotalOf({r \in (refunded \ Truncated) \cup inTransit : PaymentOf[r] = p})
                          <= amount[OrderOf[p]]
    BY DEF NothingOverRefunded
  <2>1. PICK S : S = {r \in (refunded \ Truncated) \cup inTransit : PaymentOf[r] = p} OBVIOUS
  <2>2. S \in SUBSET Live(p) /\ Live(p) \in SUBSET Refunds
    BY <2>1 DEF Live, Spent, Bounded, Tracked, RefundTypeOK
  <2>3. TotalOf(S) <= TotalOf(Live(p)) /\ TotalOf(S) \in Nat /\ TotalOf(Live(p)) \in Nat
    BY <2>2, TotalGrows, TotalNat
  <2>4. TotalOf(Live(p)) <= amount[OrderOf[p]] /\ amount[OrderOf[p]] \in Nat
    BY RefundAssumption DEF Bounded, Within
  <2> QED BY <2>1, <2>3, <2>4
<1> QED BY <1>1, BoundedInit, BoundedStep, PTL DEF Spec

\* A refund of Alipay recorded as FAILED was not done, nor is it still to be done, unless its
\* answer lost its body (alipay.ts:192): no time-out, late arrival, lost handler or stale write
\* makes the record wrong, only that.
THEOREM FailedMeansNotRefundedCorrect ==
    Spec => [](\A r \in Refunds : Alipay(r) /\ refundStatus[r] = "FAILED"
                   => r \notin inTransit /\ (r \in refunded => r \in Truncated))
<1>1. Bounded => \A r \in Refunds : Alipay(r) /\ refundStatus[r] = "FAILED"
                     => r \notin inTransit /\ (r \in refunded => r \in Truncated)
  BY DEF Bounded, Standing, Spent, Reserving
<1> QED BY <1>1, BoundedInit, BoundedStep, PTL DEF Spec

-----------------------------------------------------------------------------
(* The promise of the refunds: the abstract specification Refunding.       *)

\* The case of a winner is none.
WinnersApart == \A p \in Payments : isWinningPayment(p) => exception[p] = "NONE"
Promising == Booked /\ Asked /\ Bounded /\ WinnersApart

LEMMA WinnersApartStep ==
    ASSUME Tracked, Tracked', WinnersApart, [Next]_vars
    PROVE  WinnersApart'
<1>1. CASE UNCHANGED OtherRows BY <1>1 DEF WinnersApart, isWinningPayment, OtherRows
<1>2. ASSUME NEW r \in Refunds, Finalize(r) PROVE WinnersApart'
  <2>1. \/ exception' = exception
        \/ /\ exception' = [exception EXCEPT ![PaymentOf[r]] = "RESOLVED"]
           /\ exception[PaymentOf[r]] \in {"OPEN", "PROCESSING"}
    BY <1>2 DEF Finalize, rowVars
  <2>2. exception \in [Payments -> Cases] BY DEF Tracked, RefundTypeOK, Cases
  <2> QED BY <2>1, <2>2 DEF WinnersApart, isWinningPayment
<1>3. ASSUME \A q \in Payments : exception[q] = "NONE" => exception'[q] = "NONE" PROVE WinnersApart'
  BY <1>3 DEF WinnersApart, isWinningPayment
<1> QED BY <1>1, <1>2, <1>3, RowSteps DEF OtherRows

LEMMA SameTotal == \A S : Refunding!Total(S) = TotalOf(S)
BY DEF Refunding!Total, Refunding!MapThenSumSet, Refunding!MapThenFoldSet,
       TotalOf, MapThenSumSet, MapThenFoldSet

\* The refund that a step does is within what its payment took.
LEMMA GiveRefines ==
    ASSUME Bounded, UNCHANGED OtherRows,
           NEW r \in Refunds \cap Spent, refunded' = refunded \cup {r}
    PROVE  Refunding!Give(r) \/ UNCHANGED Refunding!vars
<1>1. UNCHANGED <<AlipaysOwn(told), {p \in settledByRefund : ChannelOf[p] = "ALIPAY"}>>
  BY DEF OtherRows, AlipaysOwn
<1>2. CASE r \in refunded \/ ~Alipay(r)
  <2>1. AlipaysOwn(refunded)' = AlipaysOwn(refunded) BY <1>2 DEF AlipaysOwn, Alipay
  <2> QED BY <1>1, <2>1 DEF Refunding!vars
<1>3. CASE r \notin refunded /\ Alipay(r)
  <2> DEFINE p == PaymentOf[r]
             S == {q \in (AlipaysOwn(refunded) \ Truncated) \cup {r} : PaymentOf[q] = p}
  <2>1. AlipaysOwn(refunded)' = AlipaysOwn(refunded) \cup {r} /\ r \notin AlipaysOwn(refunded)
    BY <1>3 DEF AlipaysOwn, Alipay
  <2>2. p \in Payments /\ amount[OrderOf[p]] \in Nat BY RefundAssumption
  <2>3. PICK L : L = Live(p) OBVIOUS
  <2>4. L \in SUBSET Refunds /\ S \in SUBSET L
    <3>1. Spent \subseteq Refunds BY DEF Bounded, Tracked, RefundTypeOK, Spent
    <3> QED BY <2>3, <3>1 DEF Live, Spent, AlipaysOwn
  <2>5. TotalOf(L) <= amount[OrderOf[p]] BY <2>2, <2>3 DEF Bounded, Within
  <2>6. TotalOf(S) <= TotalOf(L) /\ TotalOf(S) \in Nat /\ TotalOf(L) \in Nat
    <3> HIDE DEF S
    <3>1. S \in SUBSET Refunds BY <2>4
    <3> QED BY <2>4, <3>1, TotalGrows, TotalNat
  <2>7. TotalOf(S) <= amount[OrderOf[p]] BY <2>2, <2>5, <2>6
  <2>8. Refunding!Total(S) <= [q \in Payments |-> amount[OrderOf[q]]][p]
    BY <2>2, <2>7, SameTotal
  <2>9. Refunding!Of(p, (AlipaysOwn(refunded) \ Truncated) \cup {r}) = S BY DEF Refunding!Of
  <2> HIDE DEF S
  <2> QED BY <1>1, <2>1, <2>8, <2>9 DEF Refunding!Give
<1> QED BY <1>2, <1>3

\* A success that is recorded is told, or settles a case, or neither.
LEMMA FinalizeRefines ==
    ASSUME Promising, Booked', refunded' = refunded, NEW r \in Refunds,
           Alipay(r) => r \in refunded, Finalize(r)
    PROVE  [Refunding!Next]_(Refunding!vars)
<1> DEFINE p == PaymentOf[r]
           cases == {q \in settledByRefund : ChannelOf[q] = "ALIPAY"}
           late == {q \in Payments : ~isWinningPayment(q)}
           due == {q \in Refunds : isWinningPayment(PaymentOf[q]) /\ OrderOfRefund(q) \in WithUrl}
<1>1. p \in Payments BY RefundAssumption
<1>2. AlipaysOwn(refunded)' = AlipaysOwn(refunded) BY DEF AlipaysOwn
<1>3. exception \in [Payments -> Cases] /\ settledByRefund \subseteq Payments
  BY DEF Promising, Booked, Tracked, RefundTypeOK, Cases
<1>4. \/ told' = told /\ UNCHANGED settledByRefund
      \/ /\ isWinningPayment(p) /\ OrderOf[p] \in WithUrl /\ told' = told \cup {r}
         /\ UNCHANGED settledByRefund
      \/ /\ told' = told /\ ~isWinningPayment(p) /\ exception[p] # "RESOLVED"
         /\ settledByRefund' = settledByRefund \cup {p}
  <2>1. isWinningPayment(p) => exception[p] = "NONE" BY <1>1 DEF Promising, WinnersApart
  <2> QED BY <2>1 DEF Finalize, rowVars, countsForOrder
<1>5. CASE UNCHANGED <<told, settledByRefund>> \/ ~Alipay(r)
  <2>1. AlipaysOwn(told)' = AlipaysOwn(told) BY <1>4, <1>5 DEF AlipaysOwn, Alipay
  <2>2. UNCHANGED cases BY <1>3, <1>4, <1>5 DEF Alipay
  <2> QED BY <1>2, <2>1, <2>2 DEF Refunding!vars
<1>6. CASE /\ Alipay(r) /\ isWinningPayment(p) /\ OrderOf[p] \in WithUrl
           /\ told' = told \cup {r} /\ UNCHANGED settledByRefund
  <2>1. AlipaysOwn(told)' = AlipaysOwn(told) \cup {r} BY <1>6 DEF AlipaysOwn, Alipay
  <2>2. UNCHANGED cases BY <1>6
  <2>3. r \in AlipaysOwn(refunded) /\ r \in due BY <1>6 DEF AlipaysOwn, OrderOfRefund
  <2>4. CASE r \in AlipaysOwn(told)
    <3>1. AlipaysOwn(told)' = AlipaysOwn(told) BY <2>1, <2>4
    <3> QED BY <1>2, <2>2, <3>1 DEF Refunding!vars
  <2>5. CASE r \notin AlipaysOwn(told)
    <3>1. Refunding!Tell(r) BY <1>2, <2>1, <2>2, <2>3, <2>5 DEF Refunding!Tell
    <3> QED BY <3>1 DEF Refunding!Next
  <2> QED BY <2>4, <2>5
<1>7. CASE /\ Alipay(r) /\ told' = told /\ ~isWinningPayment(p) /\ exception[p] # "RESOLVED"
           /\ settledByRefund' = settledByRefund \cup {p}
  <2>1. AlipaysOwn(told)' = AlipaysOwn(told) BY <1>7 DEF AlipaysOwn
  <2>2. cases' = cases \cup {p} /\ p \notin cases
    <3>1. p \notin settledByRefund
      BY <1>1, <1>7 DEF Promising, Booked, DisputeFollowsRefunds, Alipay
    <3> QED BY <1>1, <1>7, <3>1 DEF Alipay
  <2>3. p \in late BY <1>1, <1>7
  <2>4. Done(p) >= amount[OrderOf[p]]
    <3>1. Done(p)' >= amount[OrderOf[p]]
      BY <1>1, <1>3, <1>7 DEF Booked, DisputeFollowsRefunds, Alipay
    <3>2. Done(p)' = Done(p) BY DEF Done, TotalOf, MapThenSumSet, MapThenFoldSet
    <3> QED BY <3>1, <3>2
  <2>5. Refunding!Of(p, AlipaysOwn(refunded)) = {q \in refunded : PaymentOf[q] = p}
    BY <1>7 DEF Refunding!Of, AlipaysOwn, Alipay
  <2>6. Refunding!Total(Refunding!Of(p, AlipaysOwn(refunded))) >= [q \in Payments |-> amount[OrderOf[q]]][p]
    BY <1>1, <2>4, <2>5, SameTotal DEF Done
  <2>7. Refunding!Resolve(p)
    BY <1>2, <2>1, <2>2, <2>3, <2>6 DEF Refunding!Resolve
  <2> QED BY <2>3, <2>7 DEF Refunding!Next
<1> QED BY <1>4, <1>5, <1>6, <1>7

\* The refunds of Alipay keep the promise of Refunding: every step is one of its steps, or
\* none.  The refunds it admits as unsure are those whose answer may lose its body.
THEOREM RefundingImplemented == Spec => ImplementsRefunding
<1>1. Init => Promising /\ Refunding!Init
  <2>1. Init => WinnersApart BY DEF Init, WinnersApart
  <2>2. Init => Refunding!Init BY DEF Init, Refunding!Init, AlipaysOwn
  <2> QED BY <2>1, <2>2, BookedInit, BoundedInit DEF Promising
<1>2. Promising /\ [Next]_vars => Promising'
  BY BookedStep, BoundedStep, WinnersApartStep DEF Promising, Booked
<1>3. Promising /\ Promising' /\ [Next]_vars => [Refunding!Next]_(Refunding!vars)
  <2> SUFFICES ASSUME Promising, Promising', [Next]_vars
               PROVE  [Refunding!Next]_(Refunding!vars)
    OBVIOUS
  <2>1. Tracked /\ Booked' /\ Bounded' BY DEF Promising, Booked
  <2>2. ASSUME UNCHANGED OtherRows, NEW r \in Refunds \cap Spent, refunded' = refunded \cup {r}
        PROVE  [Refunding!Next]_(Refunding!vars)
    BY <2>2, GiveRefines DEF Refunding!Next, Promising
  <2>3. ASSUME UNCHANGED <<settledByRefund, told>>, refunded' = refunded
        PROVE  [Refunding!Next]_(Refunding!vars)
    BY <2>3 DEF AlipaysOwn, Refunding!vars
  <2>4. ASSUME refunded' = refunded, NEW r \in Refunds, Alipay(r) => r \in refunded, Finalize(r)
        PROVE  [Refunding!Next]_(Refunding!vars)
    BY <2>1, <2>4, FinalizeRefines
  <2>5. ASSUME NEW p \in Payments, updatePaymentException(p) PROVE [Refunding!Next]_(Refunding!vars)
    BY <2>3, <2>5 DEF updatePaymentException
  <2> QED BY <2>1, <2>2, <2>3, <2>4, <2>5, GivenSteps, RowSteps DEF OtherRows
<1> QED BY <1>1, <1>2, <1>3, PTL DEF Spec, ImplementsRefunding, Refunding!Spec

=============================================================================
