------------------------------ MODULE Recovery ------------------------------
(***************************************************************************)
(* Querying payments whose result is not known, a bounded number of times: *)
(* apps/api/src/services/recovery-service.ts.                              *)
(***************************************************************************)
EXTENDS PaymentService

notRecovery == <<orderVars, payStatus, exception, callback, expired, channelVars, crashes>>

\* Mutant: the limit on the attempts is off by one.
OneTooMany(pay) ==
    /\ Alipay(pay) /\ payStatus[pay] \in Recoverable /\ nextQueryAt[pay]
    /\ queryAttempts[pay] <= RECOVERY_MAX_ATTEMPTS
\* Mutant: payments that may have to be queried again are not picked up.
NeverDue(pay) == FALSE

\* nextQueryAt has been reached: an instant that is set may be reached any time.
RecoveryDue(pay) ==
    /\ Alipay(pay) /\ payStatus[pay] \in Recoverable /\ nextQueryAt[pay]
    /\ queryAttempts[pay] < RECOVERY_MAX_ATTEMPTS

\* The list of due payments and the conditional update that takes one: it counts
\* the attempt and moves nextQueryAt, which stays set.
ClaimRecovery(h, pay) ==
    /\ h \in Recoverers /\ proc[h] = Idle
    /\ RecoveryDue(pay)
    /\ queryAttempts' = [queryAttempts EXCEPT ![pay] = @ + 1]
    /\ Become(h, [Idle EXCEPT !.pc = "recover", !.pay = pay,
                      !.final = queryAttempts[pay] + 1 >= RECOVERY_MAX_ATTEMPTS])
    /\ UNCHANGED <<notRecovery, nextQueryAt>>

RecoverQuery(h) ==
    /\ proc[h].pc = "recover"
    /\ QueryRead(h, proc[h].pay)
    /\ UNCHANGED <<notRecovery, nextQueryAt, queryAttempts>>

\* queryPayment came back.
AfterRecovery(h) ==
    LET at(pc) == [Idle EXCEPT !.pc = pc, !.pay = proc[h].pay, !.final = proc[h].final] IN
    /\ h \in Recoverers /\ proc[h].pc = "afterQuery"
    /\ Become(h, CASE proc[h].res = "error" -> at("recoverFail")
                   [] proc[h].res \in Recoverable /\ proc[h].final -> at("exhaust")
                   [] OTHER -> Idle)
    /\ UNCHANGED <<notRecovery, nextQueryAt, queryAttempts>>

\* exhaustPayment and the catch block read the row without a lock, then write.
RecoverRead(h) ==
    LET pay == proc[h].pay IN
    /\ proc[h].pc \in {"exhaust", "recoverFail"}
    /\ Become(h, IF /\ payStatus[pay] \in Recoverable
                    /\ proc[h].pc = "exhaust" => nextQueryAt[pay]
                 THEN [proc[h] EXCEPT !.pc = "recoverWrite"] ELSE Idle)
    /\ UNCHANGED <<notRecovery, nextQueryAt, queryAttempts>>

\* Mutant: a failed query clears nextQueryAt whatever the attempt.
ClearAlways(h) ==
    /\ proc[h].pc = "recoverWrite"
    /\ nextQueryAt' = [nextQueryAt EXCEPT ![proc[h].pay] = FALSE]
    /\ Become(h, Idle)
    /\ UNCHANGED <<notRecovery, queryAttempts>>

\* nextQueryAt is cleared at the last attempt and set again before it.
RecoverWrite(h) ==
    /\ proc[h].pc = "recoverWrite"
    /\ nextQueryAt' = [nextQueryAt EXCEPT ![proc[h].pay] = ~proc[h].final]
    /\ Become(h, Idle)
    /\ UNCHANGED <<notRecovery, queryAttempts>>

=============================================================================
