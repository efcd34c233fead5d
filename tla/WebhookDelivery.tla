--------------------------- MODULE WebhookDelivery ---------------------------
(***************************************************************************)
(* Delivering the outbox to the business:                                  *)
(* apps/api/src/services/webhook-worker-service.ts, the loop of worker.ts  *)
(* that feeds its queue, and the administrator's retry.                    *)
(*                                                                         *)
(* The row of a delivery is the truth; the queue (BullMQ) only carries     *)
(* jobs named after the row and its number of attempts, and refuses a name *)
(* it still holds, finished or not.  A statement on the database is one    *)
(* step; a worker may be lost, or paused past its lease, between two.      *)
(***************************************************************************)
EXTENDS Integers, FiniteSets

CONSTANTS
    Deliveries,
    Workers,        \* runs of a job: concurrency 8, and several processes
    maxAttempts,
    Limit,          \* bound: the attempts of a delivery that are explored
    MaxLost,        \* bound: the workers that may be lost
    MaxRetries,     \* bound: the retries of the administrator
    MaxFailures,    \* bound: the answers of the business that are not a success
    None

ASSUME DeliveryAssumption ==
    /\ maxAttempts \in Nat \ {0}
    /\ Limit \in Nat \ {0} /\ MaxLost \in Nat /\ MaxRetries \in Nat /\ MaxFailures \in Nat
    /\ None \notin Deliveries

VARIABLES
    status, attempts,   \* the row; "NONE" before the outbox wrote it
    nextAttemptAt,      \* "due" when the instant is reached, "later" before
    lockedUntil,        \* "null", "held" before that instant, "past" after it
    listed,             \* what the poll has read and not yet given to the queue
    queued,             \* the jobs that wait for a worker
    finished,           \* the jobs that are done or failed and are still kept
    received,           \* the deliveries the business has acknowledged
    worker,             \* the runs of deliverWebhook
    outlived,           \* history: the deliveries a worker still sent when its lease
                        \* expired, or when the administrator retried
    lost, retries, failures

rowVars == <<status, attempts, nextAttemptAt, lockedUntil>>
queueVars == <<listed, queued, finished>>
boundVars == <<lost, retries, failures>>
vars == <<rowVars, queueVars, received, worker, outlived, boundVars>>

WebhookStatus == {"PENDING", "PROCESSING", "SUCCESS", "DEAD"}
Jobs == Deliveries \X (0 .. Limit)
Idle == [pc |-> "idle", job |-> None, attempt |-> 0]

Init ==
    /\ status = [d \in Deliveries |-> "NONE"]
    /\ attempts = [d \in Deliveries |-> 0]
    /\ nextAttemptAt = [d \in Deliveries |-> "due"]
    /\ lockedUntil = [d \in Deliveries |-> "null"]
    /\ listed = {} /\ queued = {} /\ finished = {}
    /\ received = {}
    /\ worker = [w \in Workers |-> Idle]
    /\ outlived = {}
    /\ lost = 0 /\ retries = 0 /\ failures = 0

\* The outbox row is committed with the payment or the refund.
WriteOutbox(d) ==
    /\ status[d] = "NONE"
    /\ status' = [status EXCEPT ![d] = "PENDING"]
    /\ UNCHANGED <<outlived, attempts, nextAttemptAt, lockedUntil, queueVars, received, worker, boundVars>>

-----------------------------------------------------------------------------
(* The poll of worker.ts, every three seconds.                             *)

\* Mutant: a lease is broken before it has expired.
AnyLease == {"held", "past"}
\* Mutant: expired leases are not looked for.
NoLease == {}

BrokenLease == {"past"}

recoverExpiredDeliveries(d) ==
    /\ status[d] = "PROCESSING" /\ lockedUntil[d] \in BrokenLease
    /\ status' = [status EXCEPT ![d] = "PENDING"]
    /\ lockedUntil' = [lockedUntil EXCEPT ![d] = "null"]
    /\ nextAttemptAt' = [nextAttemptAt EXCEPT ![d] = "due"]
    /\ UNCHANGED <<outlived, attempts, queueVars, received, worker, boundVars>>

\* Mutant: the job is named after the delivery alone.
JobOfDelivery(d) == <<d, 0>>

JobOf(d) == <<d, attempts[d]>>

listDueDeliveryIds(d) ==
    /\ status[d] = "PENDING" /\ nextAttemptAt[d] = "due"
    /\ JobOf(d) \notin listed
    /\ listed' = listed \cup {JobOf(d)}
    /\ UNCHANGED <<outlived, rowVars, queued, finished, received, worker, boundVars>>

Held(j) == j \in queued \cup finished \/ \E w \in Workers : worker[w].job = j

\* queue.add does nothing for the name of a job that is waiting, running or kept.
Enqueue(j) ==
    /\ j \in listed
    /\ listed' = listed \ {j}
    /\ queued' = IF Held(j) THEN queued ELSE queued \cup {j}
    /\ UNCHANGED <<outlived, rowVars, finished, received, worker, boundVars>>

\* A finished job is removed when it is old enough, or by newer ones.
Forget(j) ==
    /\ j \in finished
    /\ finished' = finished \ {j}
    /\ UNCHANGED <<outlived, rowVars, listed, queued, received, worker, boundVars>>

-----------------------------------------------------------------------------
(* deliverWebhook                                                          *)

Finish(w) ==
    /\ finished' = finished \cup {worker[w].job}
    /\ worker' = [worker EXCEPT ![w] = Idle]

\* A free worker takes a job.
Take(w, j) ==
    /\ worker[w] = Idle /\ j \in queued
    /\ queued' = queued \ {j}
    /\ worker' = [worker EXCEPT ![w] = [Idle EXCEPT !.pc = "claim", !.job = j]]
    /\ UNCHANGED <<outlived, rowVars, listed, finished, received, boundVars>>

\* Mutant: the delivery is taken whoever has it.
ClaimAny(d) == status[d] \in {"PENDING", "PROCESSING"}

Claimable(d) == status[d] = "PENDING" /\ nextAttemptAt[d] = "due"

\* The conditional update that takes the delivery; without it the job is done.
\* The bound Limit stops the exploration, not the code.
Claim(w) ==
    LET d == worker[w].job[1] IN
    /\ worker[w].pc = "claim"
    /\ IF Claimable(d)
       THEN /\ attempts[d] < Limit
            /\ status' = [status EXCEPT ![d] = "PROCESSING"]
            /\ lockedUntil' = [lockedUntil EXCEPT ![d] = "held"]
            /\ attempts' = [attempts EXCEPT ![d] = @ + 1]
            /\ worker' = [worker EXCEPT ![w].pc = "read"]
            /\ UNCHANGED <<nextAttemptAt, finished>>
       ELSE Finish(w) /\ UNCHANGED rowVars
    /\ UNCHANGED <<outlived, listed, queued, received, boundVars>>

\* The database does not answer.  No catch block is around this statement: the
\* job has failed, and the row is as it was.
ClaimThrows(w) ==
    /\ worker[w].pc = "claim" /\ lost < MaxLost
    /\ lost' = lost + 1
    /\ Finish(w)
    /\ UNCHANGED <<outlived, rowVars, listed, queued, received, retries, failures>>

\* The row is read again; its attempts decide later whether this was the last.
ReadDelivery(w) ==
    /\ worker[w].pc = "read"
    /\ worker' = [worker EXCEPT ![w].pc = "send", ![w].attempt = attempts[worker[w].job[1]]]
    /\ UNCHANGED <<outlived, rowVars, queueVars, received, boundVars>>

\* send throws unless the answer is 2xx (and "success", for ePay).
Answered(ok) == IF ok THEN "sent" ELSE "failed"

\* The business acknowledges; or it refuses, does not answer within 10 seconds,
\* or acknowledges and the answer is lost.
Send(w) ==
    LET d == worker[w].job[1] IN
    /\ worker[w].pc = "send"
    /\ \/ /\ received' = received \cup {d}
          /\ worker' = [worker EXCEPT ![w].pc = Answered(TRUE)]
          /\ UNCHANGED failures
       \/ /\ failures < MaxFailures
          /\ failures' = failures + 1
          /\ worker' = [worker EXCEPT ![w].pc = Answered(FALSE)]
          /\ received' \in {received, received \cup {d}}
    /\ UNCHANGED <<outlived, rowVars, queueVars, lost, retries>>

RecordSuccess(w) ==
    LET d == worker[w].job[1] IN
    /\ worker[w].pc = "sent"
    /\ status' = [status EXCEPT ![d] = "SUCCESS"]
    /\ lockedUntil' = [lockedUntil EXCEPT ![d] = "null"]
    /\ Finish(w)
    /\ UNCHANGED <<outlived, attempts, nextAttemptAt, listed, queued, received, boundVars>>

\* Mutant: a delivery is given up one attempt early.
DeadEarly(attempt) == attempt + 1 >= maxAttempts

isDead(attempt) == attempt >= maxAttempts

\* The catch block writes what the attempt it read says, whoever has the row now.
RecordFailure(w) ==
    LET d == worker[w].job[1] IN
    /\ worker[w].pc = "failed"
    /\ status' = [status EXCEPT ![d] = IF isDead(worker[w].attempt) THEN "DEAD" ELSE "PENDING"]
    /\ lockedUntil' = [lockedUntil EXCEPT ![d] = "null"]
    /\ nextAttemptAt' = [nextAttemptAt EXCEPT ![d] = "later"]
    /\ Finish(w)
    /\ UNCHANGED <<outlived, attempts, listed, queued, received, boundVars>>

-----------------------------------------------------------------------------
(* The administrator, the clocks, and lost workers.                        *)

Past == {"read", "send", "sent", "failed"}
Sending(d) == {w \in Workers : worker[w].pc \in Past /\ worker[w].job[1] = d}
Outlive(d) == outlived' = IF Sending(d) # {} THEN outlived \cup {d} ELSE outlived

\* POST /webhooks/:id/retry, whatever the delivery is doing.
Retry(d) ==
    /\ status[d] # "NONE" /\ retries < MaxRetries
    /\ status' = [status EXCEPT ![d] = "PENDING"]
    /\ nextAttemptAt' = [nextAttemptAt EXCEPT ![d] = "due"]
    /\ lockedUntil' = [lockedUntil EXCEPT ![d] = "null"]
    /\ retries' = retries + 1
    /\ Outlive(d)
    /\ UNCHANGED <<attempts, queueVars, received, worker, lost, failures>>

BackoffElapses(d) ==
    /\ nextAttemptAt[d] = "later"
    /\ nextAttemptAt' = [nextAttemptAt EXCEPT ![d] = "due"]
    /\ UNCHANGED <<outlived, status, attempts, lockedUntil, queueVars, received, worker, boundVars>>

LeaseElapses(d) ==
    /\ lockedUntil[d] = "held"
    /\ Outlive(d)
    /\ lockedUntil' = [lockedUntil EXCEPT ![d] = "past"]
    /\ UNCHANGED <<status, attempts, nextAttemptAt, queueVars, received, worker, boundVars>>

\* A lost worker's job stalls: the queue gives it to another one, or fails it.
Lose(w) ==
    /\ worker[w] # Idle /\ lost < MaxLost
    /\ lost' = lost + 1
    /\ \/ queued' = queued \cup {worker[w].job} /\ UNCHANGED finished
       \/ finished' = finished \cup {worker[w].job} /\ UNCHANGED queued
    /\ worker' = [worker EXCEPT ![w] = Idle]
    /\ UNCHANGED <<outlived, rowVars, listed, received, retries, failures>>

WorkerStep(w) ==
    Claim(w) \/ ReadDelivery(w) \/ Send(w) \/ RecordSuccess(w) \/ RecordFailure(w)

Poll(d) == recoverExpiredDeliveries(d) \/ listDueDeliveryIds(d)

Next ==
    \/ \E d \in Deliveries :
           \/ WriteOutbox(d) \/ Poll(d) \/ Retry(d) \/ BackoffElapses(d) \/ LeaseElapses(d)
    \/ \E j \in Jobs : Enqueue(j) \/ Forget(j)
    \/ \E w \in Workers :
           \/ WorkerStep(w) \/ ClaimThrows(w) \/ Lose(w)
           \/ \E j \in Jobs : Take(w, j)

Spec == Init /\ [][Next]_vars

\* The poll runs every three seconds, jobs that wait are taken and go on unless
\* their worker is lost, time passes, and finished jobs are removed in the end.
Fairness ==
    /\ \A d \in Deliveries :
           WF_vars(recoverExpiredDeliveries(d)) /\ WF_vars(listDueDeliveryIds(d))
           /\ WF_vars(BackoffElapses(d)) /\ WF_vars(LeaseElapses(d))
    /\ \A j \in Jobs :
           /\ WF_vars(Enqueue(j)) /\ WF_vars(Forget(j))
           /\ SF_vars(\E w \in Workers : Take(w, j))
    /\ \A w \in Workers : WF_vars(WorkerStep(w))

FairSpec == Spec /\ Fairness

-----------------------------------------------------------------------------
(* Properties                                                              *)

\* The row and the queue have the types of the schema, and a row is leased exactly
\* while it is PROCESSING: a row that lost one without the other is never sent again.
DeliveryTypeOK ==
    /\ status \in [Deliveries -> WebhookStatus \cup {"NONE"}]
    /\ attempts \in [Deliveries -> 0 .. Limit]
    /\ nextAttemptAt \in [Deliveries -> {"due", "later"}]
    /\ lockedUntil \in [Deliveries -> {"null", "held", "past"}]
    /\ listed \subseteq Jobs /\ queued \subseteq Jobs /\ finished \subseteq Jobs
    /\ received \subseteq Deliveries /\ outlived \subseteq Deliveries
    /\ worker \in [Workers -> [pc : {"idle", "claim"} \cup Past,
                               job : Jobs \cup {None}, attempt : 0 .. Limit]]
    /\ lost \in 0 .. MaxLost /\ retries \in 0 .. MaxRetries /\ failures \in 0 .. MaxFailures
    /\ \A d \in Deliveries : lockedUntil[d] # "null" <=> status[d] = "PROCESSING"

\* Whoever wrote the row last, paused workers included: SUCCESS means that the
\* business has acknowledged, and a delivery is given up only after all attempts.
EndIsEarned ==
    \A d \in Deliveries :
        /\ status[d] = "SUCCESS" => d \in received
        /\ status[d] = "DEAD" => attempts[d] >= maxAttempts

\* The conditional update and the lease admit one sender of a delivery at a time,
\* until one outlives its lease or the administrator retries meanwhile.
OneSender == \A d \in Deliveries \ outlived : Cardinality(Sending(d)) <= 1

\* Under the same conditions what has been delivered is not sent again, unless the
\* administrator asks for it.
DeliveredIsFinal ==
    [][\A d \in Deliveries \ outlived :
          status[d] = "SUCCESS" => status'[d] = "SUCCESS" \/ retries' # retries]_vars

\* A delivery that is due can be given to the queue: its job's name is not that of
\* a job the queue keeps although it is over.
DueIsNotHidden ==
    \A d \in Deliveries :
        status[d] = "PENDING" /\ nextAttemptAt[d] = "due" => JobOf(d) \notin finished

\* That holds as long as every job reaches the row: the attempts in a name make
\* every retry a new job.
RetryIsNotHidden == lost = 0 /\ outlived = {} => DueIsNotHidden

\* A delivery is attempted maxAttempts times at most, then it is DEAD.
AttemptsWithinMax == \A d \in Deliveries : attempts[d] <= maxAttempts

\* A notification that was written is delivered or given up in the end, whatever
\* happens to the workers and to the queue.
DeliveryIsSettled ==
    \A d \in Deliveries : status[d] = "PENDING" ~> status[d] \in {"SUCCESS", "DEAD"}

=============================================================================
