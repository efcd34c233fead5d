------------------------ MODULE WebhookDeliveryProofs ------------------------
(***************************************************************************)
(* What the row of a delivery and its lease guarantee, proved for every    *)
(* set of deliveries and workers and every number of attempts: the end of  *)
(* a delivery is earned, a delivery has one sender, and no job that is     *)
(* over hides a delivery that is due.                                      *)
(***************************************************************************)
EXTENDS WebhookDelivery, FiniteSetTheorems, TLAPS

Workings == [pc : {"idle", "claim"} \cup Past, job : Jobs \cup {None}, attempt : 0 .. Limit]

\* A worker that is not idle has a job; what it read of the attempts is no more than
\* the row has; what it sends off as acknowledged has been.
Working(w) ==
    LET d == worker[w].job[1] IN
    /\ worker[w] = Idle \/ (worker[w].pc # "idle" /\ worker[w].job \in Jobs)
    /\ worker[w].pc \in {"send", "sent", "failed"} => worker[w].attempt <= attempts[d]
    /\ worker[w].pc = "sent" => d \in received

\* The inductive invariant of the rows.
Rows == DeliveryTypeOK /\ EndIsEarned /\ \A w \in Workers : Working(w)

LEMMA IdleFacts == Idle \in Workings /\ Idle.pc = "idle"
BY DeliveryAssumption DEF Idle, Workings

\* What a worker does to the workers.
LEMMA WorkerMoves ==
    ASSUME Rows, NEW w \in Workers, NEW state \in Workings,
           worker' = [worker EXCEPT ![w] = state]
    PROVE  /\ worker' \in [Workers -> Workings]
           /\ worker'[w] = state /\ \A v \in Workers \ {w} : worker'[v] = worker[v]
BY DEF Rows, DeliveryTypeOK, Workings

LEMMA FinishMoves ==
    ASSUME Rows, NEW w \in Workers, worker[w].pc # "idle", Finish(w)
    PROVE  /\ worker' \in [Workers -> Workings]
           /\ worker'[w] = Idle /\ \A v \in Workers \ {w} : worker'[v] = worker[v]
           /\ finished' \subseteq Jobs
<1>1. worker[w].job \in Jobs BY IdleFacts DEF Rows, Working
<1> QED BY <1>1, IdleFacts, WorkerMoves DEF Finish, Rows, DeliveryTypeOK

\* A worker's claims about the row stay true.
LEMMA WorkingStays ==
    ASSUME Rows, NEW w \in Workers, worker'[w] = worker[w], received \subseteq received',
           attempts' \in [Deliveries -> 0 .. Limit],
           \A d \in Deliveries : attempts'[d] >= attempts[d]
    PROVE  Working(w)'
<1>1. worker[w].pc # "idle" => worker[w].job[1] \in Deliveries
  BY IdleFacts DEF Rows, Working, Jobs
<1>2. worker[w].attempt \in 0 .. Limit /\ worker[w].pc \in {"idle", "claim"} \cup Past
      /\ attempts \in [Deliveries -> 0 .. Limit]
  BY DEF Rows, DeliveryTypeOK
<1>3. Working(w) BY DEF Rows
<1> QED BY <1>1, <1>2, <1>3, DeliveryAssumption DEF Working, Past

LEMMA RowsInit == Init => Rows
BY DeliveryAssumption DEF Init, Rows, DeliveryTypeOK, EndIsEarned, Working, Idle, WebhookStatus

\* The rest of the types.
TypesButWorker ==
    /\ status \in [Deliveries -> WebhookStatus \cup {"NONE"}]
    /\ attempts \in [Deliveries -> 0 .. Limit]
    /\ nextAttemptAt \in [Deliveries -> {"due", "later"}]
    /\ lockedUntil \in [Deliveries -> {"null", "held", "past"}]
    /\ listed \subseteq Jobs /\ queued \subseteq Jobs /\ finished \subseteq Jobs
    /\ received \subseteq Deliveries /\ outlived \subseteq Deliveries
    /\ lost \in 0 .. MaxLost /\ retries \in 0 .. MaxRetries /\ failures \in 0 .. MaxFailures
    /\ \A d \in Deliveries : lockedUntil[d] # "null" <=> status[d] = "PROCESSING"

LEMMA RowsParts ==
    Rows <=> /\ TypesButWorker /\ worker \in [Workers -> Workings]
             /\ EndIsEarned /\ \A w \in Workers : Working(w)
BY DEF Rows, TypesButWorker, DeliveryTypeOK, Workings

\* A step of one worker: what is left to show is its own claims and the rows.
LEMMA OneWorker ==
    ASSUME Rows, NEW w \in Workers, worker' \in [Workers -> Workings],
           \A v \in Workers \ {w} : worker'[v] = worker[v],
           received \subseteq received', \A d \in Deliveries : attempts'[d] >= attempts[d],
           TypesButWorker', EndIsEarned', Working(w)'
    PROVE  Rows'
<1>1. attempts' \in [Deliveries -> 0 .. Limit] BY DEF TypesButWorker
<1>2. ASSUME NEW v \in Workers \ {w} PROVE Working(v)' BY <1>1, <1>2, WorkingStays
<1> QED BY <1>2 DEF Rows, TypesButWorker, DeliveryTypeOK, Workings

\* A step of no worker.
LEMMA NoWorker ==
    ASSUME Rows, UNCHANGED worker, received' = received, attempts' = attempts,
           TypesButWorker', EndIsEarned'
    PROVE  Rows'
<1>1. \A d \in Deliveries : attempts'[d] >= attempts[d] BY DEF Rows, DeliveryTypeOK
<1>2. attempts' \in [Deliveries -> 0 .. Limit] BY DEF TypesButWorker
<1>3. ASSUME NEW v \in Workers PROVE Working(v)' BY <1>1, <1>2, WorkingStays
<1> QED BY <1>3 DEF Rows, TypesButWorker, DeliveryTypeOK, Workings

\* The job of a worker that is not idle.
LEMMA JobFacts ==
    ASSUME Rows, NEW w \in Workers, worker[w].pc # "idle"
    PROVE  /\ worker[w] \in Workings /\ worker[w].job \in Jobs
           /\ worker[w].job[1] \in Deliveries
BY IdleFacts DEF Rows, DeliveryTypeOK, Working, Workings, Jobs

LEMMA ClaimRows == ASSUME Rows, NEW w \in Workers, Claim(w) PROVE Rows'
<1> DEFINE d == worker[w].job[1]
<1>1. worker[w].pc = "claim" BY DEF Claim
<1>2. worker[w] \in Workings /\ worker[w].job \in Jobs /\ d \in Deliveries BY <1>1, JobFacts
<1>3. TypesButWorker BY RowsParts
<1>4. CASE Claimable(d)
  <2>1. worker' = [worker EXCEPT ![w] = [worker[w] EXCEPT !.pc = "read"]]
    BY <1>4 DEF Claim, Rows, DeliveryTypeOK
  <2>2. /\ [worker[w] EXCEPT !.pc = "read"] \in Workings
        /\ [worker[w] EXCEPT !.pc = "read"].pc = "read"
        /\ [worker[w] EXCEPT !.pc = "read"].job = worker[w].job
    BY <1>2 DEF Workings, Past
  <2>3. /\ worker' \in [Workers -> Workings] /\ worker'[w].pc = "read"
        /\ worker'[w].job = worker[w].job /\ \A v \in Workers \ {w} : worker'[v] = worker[v]
    BY <2>1, <2>2, WorkerMoves
  <2>4. /\ attempts' = [attempts EXCEPT ![d] = @ + 1] /\ attempts[d] < Limit
        /\ status' = [status EXCEPT ![d] = "PROCESSING"]
        /\ lockedUntil' = [lockedUntil EXCEPT ![d] = "held"]
        /\ UNCHANGED <<nextAttemptAt, finished, outlived, listed, queued, received, boundVars>>
    BY <1>4 DEF Claim
  <2>5. TypesButWorker'
    BY <1>2, <1>3, <2>4, DeliveryAssumption DEF TypesButWorker, WebhookStatus, boundVars
  <2>6. EndIsEarned' /\ \A e \in Deliveries : attempts'[e] >= attempts[e]
    BY <1>2, <1>3, <2>4, DeliveryAssumption DEF TypesButWorker, EndIsEarned, Rows
  <2>7. Working(w)' BY <1>2, <2>3 DEF Working
  <2> QED BY <2>3, <2>4, <2>5, <2>6, <2>7, OneWorker
<1>5. CASE ~Claimable(d)
  <2>1. Finish(w) /\ UNCHANGED <<rowVars, outlived, listed, queued, received, boundVars>>
    BY <1>5 DEF Claim
  <2>2. /\ worker' \in [Workers -> Workings] /\ worker'[w] = Idle
        /\ \A v \in Workers \ {w} : worker'[v] = worker[v] /\ finished' \subseteq Jobs
    BY <1>1, <2>1, FinishMoves
  <2>3. TypesButWorker' /\ EndIsEarned' /\ \A e \in Deliveries : attempts'[e] >= attempts[e]
    BY <1>3, <2>1, <1>1, FinishMoves, DeliveryAssumption
       DEF TypesButWorker, EndIsEarned, Rows, rowVars, boundVars
  <2>4. Working(w)' BY <2>2 DEF Working, Idle
  <2> QED BY <2>1, <2>2, <2>3, <2>4, OneWorker
<1> QED BY <1>4, <1>5

LEMMA ReadRows == ASSUME Rows, NEW w \in Workers, ReadDelivery(w) PROVE Rows'
<1> DEFINE d == worker[w].job[1]
           state == [worker[w] EXCEPT !.pc = "send", !.attempt = attempts[d]]
<1>1. worker[w] \in Workings /\ worker[w].job \in Jobs /\ d \in Deliveries
  BY JobFacts DEF ReadDelivery
<1>2. TypesButWorker BY RowsParts
<1>3. /\ state \in Workings /\ state.pc = "send" /\ state.job = worker[w].job
      /\ state.attempt = attempts[d]
  BY <1>1, <1>2 DEF Workings, Past, TypesButWorker
<1>4. worker' = [worker EXCEPT ![w] = state]
  BY DEF ReadDelivery, Rows, DeliveryTypeOK
<1> HIDE DEF state
<1>5. /\ worker' \in [Workers -> Workings] /\ worker'[w] = state
      /\ \A v \in Workers \ {w} : worker'[v] = worker[v]
  BY <1>3, <1>4, WorkerMoves
<1>6. UNCHANGED <<outlived, rowVars, queueVars, received, boundVars>> BY DEF ReadDelivery
<1>7. TypesButWorker' /\ EndIsEarned' /\ \A e \in Deliveries : attempts'[e] >= attempts[e]
  BY <1>2, <1>6, DeliveryAssumption
     DEF TypesButWorker, EndIsEarned, Rows, rowVars, queueVars, boundVars
<1>8. attempts' = attempts /\ received' = received BY <1>6 DEF rowVars
<1>9. Working(w)'
  BY <1>1, <1>2, <1>3, <1>5, <1>8, DeliveryAssumption DEF Working, TypesButWorker
<1> QED BY <1>5, <1>7, <1>8, <1>9, OneWorker

LEMMA SendRows == ASSUME Rows, NEW w \in Workers, Send(w) PROVE Rows'
<1> DEFINE d == worker[w].job[1]
<1>1. /\ worker[w] \in Workings /\ worker[w].job \in Jobs /\ d \in Deliveries
      /\ worker[w].attempt <= attempts[d]
  BY JobFacts DEF Send, Rows, Working
<1>2. TypesButWorker BY RowsParts
<1>3. PICK pc \in {"sent", "failed"} :
          /\ worker' = [worker EXCEPT ![w] = [worker[w] EXCEPT !.pc = pc]]
          /\ received' \in {received, received \cup {d}}
          /\ pc = "sent" => received' = received \cup {d}
          /\ failures' \in {failures, failures + 1} /\ failures' <= MaxFailures
  BY <1>2, DeliveryAssumption DEF Send, Answered, Rows, DeliveryTypeOK, TypesButWorker
<1> DEFINE state == [worker[w] EXCEPT !.pc = pc]
<1>4. /\ state \in Workings /\ state.pc = pc /\ state.job = worker[w].job
      /\ state.attempt = worker[w].attempt
  BY <1>1 DEF Workings, Past
<1> HIDE DEF state
<1>5. /\ worker' \in [Workers -> Workings] /\ worker'[w] = state
      /\ \A v \in Workers \ {w} : worker'[v] = worker[v]
  BY <1>3, <1>4, WorkerMoves DEF state
<1>6. UNCHANGED <<outlived, rowVars, queueVars, lost, retries>> BY DEF Send
<1>7. TypesButWorker' /\ EndIsEarned' /\ \A e \in Deliveries : attempts'[e] >= attempts[e]
  BY <1>1, <1>2, <1>3, <1>6, DeliveryAssumption
     DEF TypesButWorker, EndIsEarned, Rows, rowVars, queueVars
<1>8. attempts' = attempts BY <1>6 DEF rowVars
<1>9. Working(w)' BY <1>1, <1>3, <1>4, <1>5, <1>8 DEF Working
<1> QED BY <1>3, <1>5, <1>7, <1>9, OneWorker

\* The last statement of a run.
LEMMA RecordRows ==
    ASSUME Rows, NEW w \in Workers, RecordSuccess(w) \/ RecordFailure(w) PROVE Rows'
<1> DEFINE d == worker[w].job[1]
<1>1. /\ worker[w] \in Workings /\ worker[w].job \in Jobs /\ d \in Deliveries
      /\ worker[w].pc \in {"sent", "failed"} /\ Working(w) /\ Finish(w)
  BY JobFacts DEF RecordSuccess, RecordFailure, Rows
<1>2. TypesButWorker BY RowsParts
<1>3. /\ worker' \in [Workers -> Workings] /\ worker'[w] = Idle
      /\ \A v \in Workers \ {w} : worker'[v] = worker[v] /\ finished' \subseteq Jobs
  BY <1>1, FinishMoves
<1>4. finished' \subseteq Jobs BY <1>1, FinishMoves
<1>5. PICK end \in {"SUCCESS", "DEAD", "PENDING"} :
          /\ status' = [status EXCEPT ![d] = end]
          /\ end = "SUCCESS" => d \in received
          /\ end = "DEAD" => attempts[d] >= maxAttempts
  <2>1. CASE RecordSuccess(w) BY <1>1, <2>1 DEF RecordSuccess, Working
  <2>2. CASE RecordFailure(w)
    <3>1. worker[w].attempt <= attempts[d] BY <1>1, <2>2 DEF RecordFailure, Working
    <3>2. isDead(worker[w].attempt) => attempts[d] >= maxAttempts
      BY <1>1, <1>2, <3>1, DeliveryAssumption DEF isDead, TypesButWorker, Workings
    <3>3. status' = [status EXCEPT ![d] = IF isDead(worker[w].attempt) THEN "DEAD" ELSE "PENDING"]
      BY <2>2 DEF RecordFailure
    <3> QED BY <3>2, <3>3
  <2> QED BY <2>1, <2>2
<1>6. /\ lockedUntil' = [lockedUntil EXCEPT ![d] = "null"]
      /\ nextAttemptAt' \in {nextAttemptAt, [nextAttemptAt EXCEPT ![d] = "later"]}
      /\ UNCHANGED <<outlived, attempts, listed, queued, received, boundVars>>
  BY DEF RecordSuccess, RecordFailure
<1>7. TypesButWorker'
  BY <1>1, <1>2, <1>4, <1>5, <1>6 DEF TypesButWorker, WebhookStatus, boundVars
<1>8. EndIsEarned' /\ \A e \in Deliveries : attempts'[e] >= attempts[e]
  BY <1>1, <1>2, <1>5, <1>6, DeliveryAssumption DEF TypesButWorker, EndIsEarned, Rows
<1>9. Working(w)' BY <1>3 DEF Working, Idle
<1> QED BY <1>3, <1>6, <1>7, <1>8, <1>9, OneWorker

\* A worker takes a job, is lost, or is not answered by the database.
LEMMA QueueRows ==
    ASSUME Rows, NEW w \in Workers,
           (\E j \in Jobs : Take(w, j)) \/ ClaimThrows(w) \/ Lose(w)
    PROVE  Rows'
<1>1. TypesButWorker BY RowsParts
<1>2. Idle \in Workings /\ Idle.pc = "idle" BY IdleFacts
<1> DEFINE Moved ==
      /\ UNCHANGED <<outlived, rowVars, listed, received, retries, failures>>
      /\ queued' \subseteq Jobs /\ finished' \subseteq Jobs /\ lost' \in 0 .. MaxLost
      /\ worker' \in [Workers -> Workings] /\ \A v \in Workers \ {w} : worker'[v] = worker[v]
      /\ worker'[w] = Idle \/ (worker'[w].pc = "claim" /\ worker'[w].job \in Jobs)
<1>3. Moved
  <2>1. ASSUME NEW j \in Jobs, Take(w, j) PROVE Moved
    <3> DEFINE state == [Idle EXCEPT !.pc = "claim", !.job = j]
    <3>1. state \in Workings /\ state.pc = "claim" /\ state.job = j
      BY <1>2, <2>1 DEF Workings
    <3>2. worker' = [worker EXCEPT ![w] = state] BY <2>1 DEF Take
    <3> HIDE DEF state
    <3>3. /\ worker' \in [Workers -> Workings] /\ worker'[w] = state
          /\ \A v \in Workers \ {w} : worker'[v] = worker[v]
      BY <3>1, <3>2, WorkerMoves
    <3>4. worker'[w].pc = "claim" /\ worker'[w].job \in Jobs BY <2>1, <3>1, <3>3
    <3>5. /\ UNCHANGED <<outlived, rowVars, listed, received, retries, failures>>
          /\ queued' \subseteq Jobs /\ finished' \subseteq Jobs /\ lost' \in 0 .. MaxLost
      BY <1>1, <2>1 DEF Take, TypesButWorker, boundVars
    <3> QED BY <3>3, <3>4, <3>5
  <2>2. CASE ClaimThrows(w)
    <3>1. worker[w].pc # "idle" /\ Finish(w) BY <2>2 DEF ClaimThrows
    <3> QED BY <1>1, <2>2, <3>1, FinishMoves, DeliveryAssumption DEF ClaimThrows, TypesButWorker
  <2>3. CASE Lose(w)
    <3>1. worker[w].job \in Jobs BY <2>3 DEF Lose, Rows, Working
    <3>2. /\ worker' \in [Workers -> Workings] /\ worker'[w] = Idle
          /\ \A v \in Workers \ {w} : worker'[v] = worker[v]
      BY <1>2, <2>3, WorkerMoves DEF Lose
    <3> QED BY <1>1, <2>3, <3>1, <3>2, DeliveryAssumption DEF Lose, TypesButWorker
  <2> QED BY <2>1, <2>2, <2>3
<1>4. TypesButWorker' /\ EndIsEarned' /\ \A d \in Deliveries : attempts'[d] >= attempts[d]
  BY <1>1, <1>3, DeliveryAssumption DEF TypesButWorker, EndIsEarned, Rows, rowVars
<1>5. attempts' = attempts /\ received' = received BY <1>3 DEF rowVars
<1>6. Working(w)' BY <1>3 DEF Working, Idle
<1> QED BY <1>3, <1>4, <1>5, <1>6, OneWorker

\* The poll, the administrator and the clocks.
LEMMA RowSteps ==
    ASSUME Rows, NEW d \in Deliveries,
           WriteOutbox(d) \/ Poll(d) \/ Retry(d) \/ BackoffElapses(d) \/ LeaseElapses(d)
    PROVE  Rows'
<1>1. TypesButWorker BY RowsParts
<1>2. UNCHANGED <<worker, received, attempts>>
  BY DEF WriteOutbox, Poll, recoverExpiredDeliveries, listDueDeliveryIds, Retry,
         BackoffElapses, LeaseElapses, rowVars
<1>3. JobOf(d) \in Jobs BY <1>1 DEF TypesButWorker, JobOf, Jobs
<1>4. TypesButWorker' /\ EndIsEarned'
  <2>1. CASE WriteOutbox(d)
    BY <1>1, <2>1 DEF WriteOutbox, TypesButWorker, WebhookStatus, EndIsEarned, Rows,
                      queueVars, boundVars
  <2>2. CASE recoverExpiredDeliveries(d)
    BY <1>1, <2>2 DEF recoverExpiredDeliveries, TypesButWorker, WebhookStatus, EndIsEarned,
                      Rows, queueVars, boundVars
  <2>3. CASE listDueDeliveryIds(d)
    BY <1>1, <1>3, <2>3 DEF listDueDeliveryIds, TypesButWorker, EndIsEarned, Rows, rowVars,
                            boundVars
  <2>4. CASE Retry(d)
    <3>1. retries' \in 0 .. MaxRetries
      BY <1>1, <2>4, DeliveryAssumption DEF Retry, TypesButWorker
    <3> QED BY <1>1, <2>4, <3>1 DEF Retry, Outlive, TypesButWorker, WebhookStatus,
                                    EndIsEarned, Rows, queueVars
  <2>5. CASE BackoffElapses(d)
    BY <1>1, <2>5 DEF BackoffElapses, TypesButWorker, EndIsEarned, Rows, queueVars, boundVars
  <2>6. CASE LeaseElapses(d)
    BY <1>1, <2>6 DEF LeaseElapses, Outlive, TypesButWorker, EndIsEarned, Rows, queueVars,
                      boundVars
  <2> QED BY <2>1, <2>2, <2>3, <2>4, <2>5, <2>6 DEF Poll
<1> QED BY <1>2, <1>4, NoWorker

LEMMA RowsStep == Rows /\ [Next]_vars => Rows'
<1> SUFFICES ASSUME Rows, [Next]_vars PROVE Rows' OBVIOUS
<1>1. TypesButWorker BY RowsParts
<1>2. ASSUME NEW j \in Jobs, Enqueue(j) \/ Forget(j) PROVE Rows'
  <2>1. TypesButWorker' /\ EndIsEarned'
    BY <1>1, <1>2 DEF Enqueue, Forget, TypesButWorker, EndIsEarned, Rows, rowVars, boundVars
  <2> QED BY <1>2, <2>1, NoWorker DEF Enqueue, Forget, rowVars
<1>3. CASE UNCHANGED vars
  <2>1. TypesButWorker' /\ EndIsEarned'
    BY <1>1, <1>3 DEF vars, TypesButWorker, EndIsEarned, Rows, rowVars, queueVars, boundVars
  <2> QED BY <1>3, <2>1, NoWorker DEF vars, rowVars
<1> QED BY <1>2, <1>3, ClaimRows, ReadRows, SendRows, RecordRows, QueueRows, RowSteps
        DEF Next, WorkerStep

\* The rows and the queue keep their types, and a row is leased exactly while it is
\* PROCESSING.
THEOREM DeliveryTypeCorrect == Spec => []DeliveryTypeOK
<1>1. Rows => DeliveryTypeOK BY DEF Rows
<1> QED BY <1>1, RowsInit, RowsStep, PTL DEF Spec

\* A delivery is SUCCESS only if the business has acknowledged it, and DEAD only after
\* all its attempts, however many workers outlive their leases.
THEOREM EndIsEarnedCorrect == Spec => []EndIsEarned
<1>1. Rows => EndIsEarned BY DEF Rows
<1> QED BY <1>1, RowsInit, RowsStep, PTL DEF Spec

-----------------------------------------------------------------------------
(* One sender at a time.                                                   *)

Sends(w, d) == worker[w].pc \in Past /\ worker[w].job[1] = d

\* As long as nobody outlives a lease, the worker that sends a delivery has its lease.
Exclusive ==
    \A d \in Deliveries \ outlived : \A v \in Workers : Sends(v, d) =>
        /\ status[d] = "PROCESSING" /\ lockedUntil[d] = "held"
        /\ \A w \in Workers : Sends(w, d) => v = w

Safe == Rows /\ Exclusive

LEMMA ExclusiveInit == Init => Exclusive
BY DEF Init, Exclusive, Sends, Idle, Past

\* A step after which nobody sends who did not before, and that leaves alone the rows
\* that are still sent.
LEMMA FewerSenders ==
    ASSUME Safe, outlived \subseteq outlived',
           \A d \in Deliveries, w \in Workers : Sends(w, d)' => Sends(w, d),
           \A d \in Deliveries \ outlived', w \in Workers :
               Sends(w, d)' => status'[d] = status[d] /\ lockedUntil'[d] = lockedUntil[d]
    PROVE  Exclusive'
BY DEF Safe, Exclusive

\* The same worker sends the same delivery, one statement later.
LEMMA ReadOrSend ==
    ASSUME Safe, NEW w \in Workers, ReadDelivery(w) \/ Send(w)
    PROVE  /\ UNCHANGED <<outlived, rowVars, queueVars, lost, retries>>
           /\ worker'[w].pc \in Past /\ worker[w].pc \in Past
           /\ worker'[w].job = worker[w].job
           /\ \A v \in Workers \ {w} : worker'[v] = worker[v]
<1>1. worker[w] \in Workings /\ worker \in [Workers -> Workings]
  BY DEF Safe, Rows, DeliveryTypeOK, Workings
<1>2. CASE ReadDelivery(w)
  <2> DEFINE state == [worker[w] EXCEPT !.pc = "send", !.attempt = attempts[worker[w].job[1]]]
  <2>1. state.pc = "send" /\ state.job = worker[w].job BY <1>1 DEF Workings
  <2>2. worker' = [worker EXCEPT ![w] = state] BY <1>1, <1>2 DEF ReadDelivery
  <2> HIDE DEF state
  <2>3. worker'[w] = state /\ \A v \in Workers \ {w} : worker'[v] = worker[v]
    BY <1>1, <2>2
  <2> QED BY <1>2, <2>1, <2>3 DEF ReadDelivery, Past, boundVars
<1>3. CASE Send(w)
  <2>1. PICK pc \in {"sent", "failed"} :
            worker' = [worker EXCEPT ![w] = [worker[w] EXCEPT !.pc = pc]]
    BY <1>1, <1>3 DEF Send, Answered
  <2> DEFINE state == [worker[w] EXCEPT !.pc = pc]
  <2>2. state.pc = pc /\ state.job = worker[w].job BY <1>1 DEF Workings
  <2>3. worker' = [worker EXCEPT ![w] = state] BY <2>1
  <2> HIDE DEF state
  <2>4. worker'[w] = state /\ \A v \in Workers \ {w} : worker'[v] = worker[v]
    BY <1>1, <2>3
  <2> QED BY <1>3, <2>2, <2>4 DEF Send, Past
<1> QED BY <1>2, <1>3

\* A worker that takes the delivery.
LEMMA ClaimTakes ==
    ASSUME Safe, NEW w \in Workers, Claim(w), Claimable(worker[w].job[1])
    PROVE  LET d == worker[w].job[1] IN
           /\ worker[w].pc = "claim" /\ d \in Deliveries
           /\ worker'[w].pc = "read" /\ worker'[w].job = worker[w].job
           /\ \A v \in Workers \ {w} : worker'[v] = worker[v]
           /\ status' = [status EXCEPT ![d] = "PROCESSING"]
           /\ lockedUntil' = [lockedUntil EXCEPT ![d] = "held"]
           /\ attempts' = [attempts EXCEPT ![d] = @ + 1]
           /\ UNCHANGED <<nextAttemptAt, finished, outlived, listed, queued, received, boundVars>>
<1> DEFINE state == [worker[w] EXCEPT !.pc = "read"]
<1>1. worker \in [Workers -> Workings] /\ worker[w] \in Workings
  BY DEF Safe, Rows, DeliveryTypeOK, Workings
<1>2. worker[w].pc = "claim" BY DEF Claim
<1>3. worker[w].job[1] \in Deliveries BY <1>2, JobFacts DEF Safe
<1>4. state.pc = "read" /\ state.job = worker[w].job BY <1>1 DEF Workings
<1>5. worker' = [worker EXCEPT ![w] = state] BY <1>1 DEF Claim
<1> HIDE DEF state
<1>6. worker'[w] = state /\ \A v \in Workers \ {w} : worker'[v] = worker[v] BY <1>1, <1>5
<1> QED BY <1>2, <1>3, <1>4, <1>6 DEF Claim

\* A worker that goes, for whatever reason.
LEMMA WorkerGoes ==
    ASSUME Safe, NEW w \in Workers,
           \/ Claim(w) /\ ~Claimable(worker[w].job[1])
           \/ ClaimThrows(w) \/ RecordSuccess(w) \/ RecordFailure(w) \/ Lose(w)
    PROVE  /\ worker'[w] = Idle /\ \A v \in Workers \ {w} : worker'[v] = worker[v]
           /\ UNCHANGED <<outlived, listed, attempts, received, retries, failures>>
<1>1. worker \in [Workers -> Workings] BY DEF Safe, Rows, DeliveryTypeOK, Workings
<1> QED BY <1>1 DEF Claim, ClaimThrows, RecordSuccess, RecordFailure, Lose, Finish, rowVars, boundVars

\* A job is taken.
LEMMA TakeTakes ==
    ASSUME Safe, NEW w \in Workers, NEW j \in Jobs, Take(w, j)
    PROVE  /\ worker[w].pc = "idle" /\ worker'[w].pc = "claim" /\ worker'[w].job = j
           /\ \A v \in Workers \ {w} : worker'[v] = worker[v]
           /\ UNCHANGED <<outlived, rowVars, listed, finished, received, boundVars>>
<1> DEFINE state == [Idle EXCEPT !.pc = "claim", !.job = j]
<1>1. worker \in [Workers -> Workings] BY DEF Safe, Rows, DeliveryTypeOK, Workings
<1>2. state.pc = "claim" /\ state.job = j BY IdleFacts DEF Workings
<1>3. worker' = [worker EXCEPT ![w] = state] BY DEF Take
<1> HIDE DEF state
<1>4. worker'[w] = state /\ \A v \in Workers \ {w} : worker'[v] = worker[v] BY <1>1, <1>3
<1> QED BY <1>2, <1>4, IdleFacts DEF Take

LEMMA ExclusiveWorkers ==
    ASSUME Safe, NEW w \in Workers,
           WorkerStep(w) \/ ClaimThrows(w) \/ Lose(w) \/ \E j \in Jobs : Take(w, j)
    PROVE  Exclusive'
<1>1. Idle.pc \notin Past BY IdleFacts DEF Past
<1>2. ASSUME ReadDelivery(w) \/ Send(w) PROVE Exclusive'
  BY <1>2, ReadOrSend, FewerSenders DEF Sends, rowVars
<1>3. ASSUME Claim(w), Claimable(worker[w].job[1]) PROVE Exclusive'
  <2> DEFINE e == worker[w].job[1]
  <2>1. /\ e \in Deliveries /\ worker'[w].job = worker[w].job /\ worker'[w].pc = "read"
        /\ \A v \in Workers \ {w} : worker'[v] = worker[v]
        /\ status' = [status EXCEPT ![e] = "PROCESSING"]
        /\ lockedUntil' = [lockedUntil EXCEPT ![e] = "held"] /\ outlived' = outlived
        /\ status \in [Deliveries -> WebhookStatus \cup {"NONE"}]
        /\ lockedUntil \in [Deliveries -> {"null", "held", "past"}]
    BY <1>3, ClaimTakes DEF Safe, Rows, DeliveryTypeOK
  <2>2. e \notin outlived => \A v \in Workers : ~Sends(v, e)
    BY <1>3, <2>1 DEF Safe, Exclusive, Claimable
  <2>3. ASSUME NEW d \in Deliveries \ outlived, NEW v \in Workers, Sends(v, d)'
        PROVE  /\ status'[d] = "PROCESSING" /\ lockedUntil'[d] = "held"
               /\ \A u \in Workers : Sends(u, d)' => v = u
    <3>1. CASE d = e BY <2>1, <2>2, <2>3, <3>1 DEF Sends
    <3>2. CASE d # e BY <2>1, <2>3, <3>2 DEF Sends, Safe, Exclusive
    <3> QED BY <3>1, <3>2
  <2> QED BY <2>1, <2>3 DEF Exclusive
<1>4. ASSUME RecordSuccess(w) \/ RecordFailure(w) PROVE Exclusive'
  <2> DEFINE e == worker[w].job[1]
  <2>1. worker'[w] = Idle /\ (\A v \in Workers \ {w} : worker'[v] = worker[v]) /\ outlived' = outlived
    BY <1>4, WorkerGoes
  <2>2. /\ \A d \in Deliveries \ {e} : status'[d] = status[d] /\ lockedUntil'[d] = lockedUntil[d]
        /\ worker[w].pc \in Past
    BY <1>4 DEF RecordSuccess, RecordFailure, Past, Safe, Rows, DeliveryTypeOK
  <2>3. ASSUME NEW d \in Deliveries \ outlived', NEW v \in Workers, Sends(v, d)'
        PROVE  status'[d] = status[d] /\ lockedUntil'[d] = lockedUntil[d]
    <3>1. v # w /\ Sends(v, d) BY <1>1, <2>1, <2>3 DEF Sends
    <3>2. d # e BY <2>1, <2>2, <2>3, <3>1 DEF Sends, Safe, Exclusive
    <3> QED BY <2>2, <2>3, <3>2
  <2>4. \A d \in Deliveries, v \in Workers : Sends(v, d)' => Sends(v, d)
    BY <1>1, <2>1 DEF Sends
  <2> QED BY <2>1, <2>3, <2>4, FewerSenders
<1>5. ASSUME (Claim(w) /\ ~Claimable(worker[w].job[1])) \/ ClaimThrows(w) \/ Lose(w)
      PROVE  Exclusive'
  <2>1. worker'[w] = Idle /\ (\A v \in Workers \ {w} : worker'[v] = worker[v]) /\ outlived' = outlived
    BY <1>5, WorkerGoes
  <2>2. status' = status /\ lockedUntil' = lockedUntil
    BY <1>5 DEF Claim, ClaimThrows, Lose, rowVars
  <2>3. \A d \in Deliveries, v \in Workers : Sends(v, d)' => Sends(v, d)
    BY <1>1, <2>1 DEF Sends
  <2> QED BY <2>1, <2>2, <2>3, FewerSenders
<1>6. ASSUME NEW j \in Jobs, Take(w, j) PROVE Exclusive'
  <2>1. \A d \in Deliveries, v \in Workers : Sends(v, d)' => Sends(v, d)
    BY <1>6, TakeTakes DEF Sends, Past
  <2> QED BY <1>6, <2>1, TakeTakes, FewerSenders DEF rowVars
<1> QED BY <1>2, <1>3, <1>4, <1>5, <1>6 DEF WorkerStep

\* The poll, the administrator and the clocks: what they change is not being sent, or
\* is recorded as outlived.
LEMMA ExclusiveRows ==
    ASSUME Safe, NEW e \in Deliveries,
           WriteOutbox(e) \/ Poll(e) \/ Retry(e) \/ BackoffElapses(e) \/ LeaseElapses(e)
    PROVE  Exclusive'
<1>1. worker' = worker /\ \A d \in Deliveries, w \in Workers : Sends(w, d)' => Sends(w, d)
  BY DEF WriteOutbox, Poll, recoverExpiredDeliveries, listDueDeliveryIds, Retry,
         BackoffElapses, LeaseElapses, Sends
<1>2. /\ outlived \subseteq outlived'
      /\ \A d \in Deliveries \ {e} : status'[d] = status[d] /\ lockedUntil'[d] = lockedUntil[d]
  BY DEF WriteOutbox, Poll, recoverExpiredDeliveries, listDueDeliveryIds, Retry, Outlive,
         BackoffElapses, LeaseElapses, Safe, Rows, DeliveryTypeOK, rowVars
<1>3. ASSUME NEW w \in Workers, Sends(w, e), e \notin outlived'
      PROVE  status'[e] = status[e] /\ lockedUntil'[e] = lockedUntil[e]
  <2>1. status[e] = "PROCESSING" /\ lockedUntil[e] = "held"
    BY <1>2, <1>3 DEF Safe, Exclusive
  <2>2. w \in Sending(e) BY <1>3 DEF Sending, Sends
  <2>3. ~Retry(e) /\ ~LeaseElapses(e) BY <1>3, <2>2 DEF Retry, LeaseElapses, Outlive
  <2> QED BY <2>1, <2>3 DEF WriteOutbox, Poll, recoverExpiredDeliveries, listDueDeliveryIds,
                            BrokenLease, BackoffElapses, rowVars
<1> QED BY <1>1, <1>2, <1>3, FewerSenders

LEMMA SafeStep == Safe /\ [Next]_vars => Safe'
<1> SUFFICES ASSUME Safe, [Next]_vars PROVE Safe' OBVIOUS
<1>1. Rows' BY RowsStep DEF Safe
<1>2. ASSUME NEW j \in Jobs, Enqueue(j) \/ Forget(j) PROVE Exclusive'
  BY <1>2, FewerSenders DEF Enqueue, Forget, rowVars, Sends
<1>3. CASE UNCHANGED vars
  <2>1. Exclusive' BY <1>3, FewerSenders DEF vars, rowVars, Sends
  <2> QED BY <1>1, <2>1 DEF Safe
<1>4. CASE Next
  <2>1. Exclusive' BY <1>2, <1>4, ExclusiveWorkers, ExclusiveRows DEF Next
  <2> QED BY <1>1, <2>1 DEF Safe
<1> QED BY <1>3, <1>4

\* The claim and the lease admit one sender of a delivery at a time, unless one outlives
\* its lease or the administrator retries meanwhile.
THEOREM OneSenderCorrect == Spec => []OneSender
<1>1. Safe => OneSender
  <2> SUFFICES ASSUME Safe, NEW d \in Deliveries \ outlived PROVE Cardinality(Sending(d)) <= 1
    BY DEF OneSender
  <2>1. CASE Sending(d) = {} BY <2>1, FS_EmptySet
  <2>2. CASE Sending(d) # {}
    <3>1. PICK w \in Workers : w \in Sending(d) BY <2>2 DEF Sending
    <3>2. Sending(d) = {w} BY <3>1 DEF Sending, Sends, Safe, Exclusive
    <3> QED BY <3>2, FS_Singleton
  <2> QED BY <2>1, <2>2
<1>2. Init => Safe BY RowsInit, ExclusiveInit DEF Safe
<1> QED BY <1>1, <1>2, SafeStep, PTL DEF Spec

\* What has been delivered is not sent again, under the same conditions, unless the
\* administrator asks for it.
THEOREM DeliveredIsFinalCorrect == Spec => DeliveredIsFinal
<1> DEFINE Final == \A d \in Deliveries \ outlived :
                       status[d] = "SUCCESS" => status'[d] = "SUCCESS" \/ retries' # retries
<1>1. Safe /\ [Next]_vars => [Final]_vars
  <2> SUFFICES ASSUME Safe, [Next]_vars, NEW d \in Deliveries \ outlived, status[d] = "SUCCESS"
               PROVE  status'[d] = "SUCCESS" \/ retries' # retries
    OBVIOUS
  <2>1. status \in [Deliveries -> WebhookStatus \cup {"NONE"}] /\ retries \in 0 .. MaxRetries
    BY DEF Safe, Rows, DeliveryTypeOK
  <2>2. \A w \in Workers : ~Sends(w, d) BY DEF Safe, Exclusive
  <2>3. ASSUME NEW e \in Deliveries,
               WriteOutbox(e) \/ Poll(e) \/ Retry(e) \/ BackoffElapses(e) \/ LeaseElapses(e)
        PROVE  status'[d] = "SUCCESS" \/ retries' # retries
    BY <2>1, <2>3, DeliveryAssumption
       DEF WriteOutbox, Poll, recoverExpiredDeliveries, listDueDeliveryIds, Retry,
           BackoffElapses, LeaseElapses, rowVars
  <2>4. ASSUME NEW w \in Workers, RecordSuccess(w) \/ RecordFailure(w) PROVE status'[d] = "SUCCESS"
    <3>1. worker[w].job[1] # d BY <2>2, <2>4 DEF RecordSuccess, RecordFailure, Sends, Past
    <3> QED BY <2>1, <2>4, <3>1 DEF RecordSuccess, RecordFailure
  <2>5. ASSUME NEW w \in Workers, Claim(w) PROVE status'[d] = "SUCCESS"
    BY <2>1, <2>5 DEF Claim, Claimable, rowVars
  <2>6. ASSUME NEW w \in Workers,
               \/ ReadDelivery(w) \/ Send(w) \/ ClaimThrows(w) \/ Lose(w)
               \/ \E j \in Jobs : Take(w, j)
        PROVE  status' = status
    BY <2>6 DEF ReadDelivery, Send, ClaimThrows, Lose, Take, rowVars
  <2>7. ASSUME NEW j \in Jobs, Enqueue(j) \/ Forget(j) PROVE status' = status
    BY <2>7 DEF Enqueue, Forget, rowVars
  <2>8. CASE UNCHANGED vars BY <2>8 DEF vars, rowVars
  <2> QED BY <2>3, <2>4, <2>5, <2>6, <2>7, <2>8 DEF Next, WorkerStep
<1>2. Init => Safe BY RowsInit, ExclusiveInit DEF Safe
<1> QED BY <1>1, <1>2, SafeStep, PTL DEF Spec, DeliveredIsFinal

-----------------------------------------------------------------------------
(* No finished job hides a delivery that is due.                           *)

Old(j) == j[2] < attempts[j[1]]

\* A job that has not reached its row is older than it, or finds it as it was listed.
Named(j) ==
    \/ Old(j)
    \/ j[2] = attempts[j[1]] /\ status[j[1]] = "PENDING" /\ nextAttemptAt[j[1]] = "due"

Fresh ==
    lost = 0 /\ outlived = {} =>
        /\ \A j \in listed \cup queued : Named(j)
        /\ \A j \in finished : Old(j)
        /\ \A w \in Workers : /\ worker[w].pc = "claim" => Named(worker[w].job)
                              /\ worker[w].pc \in Past => Old(worker[w].job)

Visible == Safe /\ Fresh

LEMMA FreshInit == Init => Fresh
BY IdleFacts DEF Init, Fresh, Past

\* A step that leaves the rows alone, or only what makes a job older or its row due.
LEMMA NamesStay ==
    ASSUME Safe, Safe',
           \A d \in Deliveries :
               \/ attempts'[d] > attempts[d]
               \/ /\ attempts'[d] = attempts[d]
                  /\ status[d] = "PENDING" /\ nextAttemptAt[d] = "due" =>
                         status'[d] = "PENDING" /\ nextAttemptAt'[d] = "due"
    PROVE  \A j \in Jobs : (Named(j) => Named(j)') /\ (Old(j) => Old(j)')
<1>1. /\ attempts \in [Deliveries -> 0 .. Limit] /\ attempts' \in [Deliveries -> 0 .. Limit]
      /\ Limit \in Nat
  BY DeliveryAssumption DEF Safe, Rows, DeliveryTypeOK
<1>2. SUFFICES ASSUME NEW j \in Jobs
               PROVE  (Named(j) => Named(j)') /\ (Old(j) => Old(j)')
  OBVIOUS
<1>3. j[1] \in Deliveries /\ j[2] \in 0 .. Limit BY <1>2 DEF Jobs
<1> QED BY <1>1, <1>3 DEF Named, Old

\* Nothing was lost or outlived, before the step as after it.
Undisturbed == lost = 0 /\ outlived = {}

LEMMA UndisturbedBefore ==
    ASSUME Safe, [Next]_vars, Undisturbed' PROVE Undisturbed
<1>1. lost \in Nat BY DeliveryAssumption DEF Safe, Rows, DeliveryTypeOK
<1>2. ASSUME NEW w \in Workers, ClaimThrows(w) \/ Lose(w) PROVE FALSE
  BY <1>1, <1>2 DEF ClaimThrows, Lose, Undisturbed
<1>3. ASSUME NEW w \in Workers, WorkerStep(w) \/ \E j \in Jobs : Take(w, j)
      PROVE  Undisturbed
  BY <1>3 DEF WorkerStep, Claim, ReadDelivery, Send, RecordSuccess, RecordFailure, Take,
              boundVars, Undisturbed
<1>4. ASSUME NEW j \in Jobs, Enqueue(j) \/ Forget(j) PROVE Undisturbed
  BY <1>4 DEF Enqueue, Forget, boundVars, Undisturbed
<1>5. ASSUME NEW d \in Deliveries,
             WriteOutbox(d) \/ Poll(d) \/ Retry(d) \/ BackoffElapses(d) \/ LeaseElapses(d)
      PROVE  Undisturbed
  BY <1>5 DEF WriteOutbox, Poll, recoverExpiredDeliveries, listDueDeliveryIds, Retry, Outlive,
              BackoffElapses, LeaseElapses, boundVars, Undisturbed
<1>6. CASE UNCHANGED vars BY <1>6 DEF vars, boundVars, Undisturbed
<1> QED BY <1>2, <1>3, <1>4, <1>5, <1>6 DEF Next

\* What Fresh says of an undisturbed state, with the types of the jobs.
LEMMA FreshFacts ==
    ASSUME Visible, Undisturbed
    PROVE  /\ listed \subseteq Jobs /\ queued \subseteq Jobs /\ finished \subseteq Jobs
           /\ \A v \in Workers : worker[v].pc # "idle" => worker[v].job \in Jobs
           /\ \A j \in listed \cup queued : Named(j)
           /\ \A j \in finished : Old(j)
           /\ \A w \in Workers : /\ worker[w].pc = "claim" => Named(worker[w].job)
                                 /\ worker[w].pc \in Past => Old(worker[w].job)
BY IdleFacts DEF Visible, Fresh, Undisturbed, Safe, Rows, DeliveryTypeOK, Working

\* Where the names stay, a step has to show it only of the jobs it moves.
LEMMA FreshMoves ==
    ASSUME Visible, Undisturbed,
           \A j \in Jobs : (Named(j) => Named(j)') /\ (Old(j) => Old(j)'),
           \A j \in listed' \cup queued' : j \in listed \cup queued \/ Named(j)',
           \A j \in finished' : j \in finished \/ Old(j)',
           \A v \in Workers :
               \/ worker'[v] = worker[v]
               \/ /\ worker'[v].pc = "claim" => Named(worker[v].job)'
                  /\ worker'[v].pc \in Past => Old(worker[v].job)'
    PROVE  Fresh'
<1>1. \A j \in listed' \cup queued' : Named(j)' BY FreshFacts
<1>2. \A j \in finished' : Old(j)' BY FreshFacts
<1>3. ASSUME NEW v \in Workers
      PROVE  /\ worker'[v].pc = "claim" => Named(worker[v].job)'
             /\ worker'[v].pc \in Past => Old(worker[v].job)'
  <2>1. CASE worker'[v] = worker[v] BY <1>3, <2>1, FreshFacts DEF Past
  <2> QED BY <1>3, <2>1
<1> QED BY <1>1, <1>2, <1>3 DEF Fresh

LEMMA FreshWorkers ==
    ASSUME Visible, Safe', Undisturbed, Undisturbed', NEW w \in Workers,
           WorkerStep(w) \/ ClaimThrows(w) \/ Lose(w) \/ \E j \in Jobs : Take(w, j)
    PROVE  Fresh'
<1>1. Safe /\ Idle.pc = "idle" BY IdleFacts DEF Visible
<1>2. /\ attempts \in [Deliveries -> 0 .. Limit] /\ Limit \in Nat
      /\ status \in [Deliveries -> WebhookStatus \cup {"NONE"}]
      /\ nextAttemptAt \in [Deliveries -> {"due", "later"}]
  BY <1>1, DeliveryAssumption DEF Safe, Rows, DeliveryTypeOK
<1>3. ASSUME UNCHANGED <<attempts, status, nextAttemptAt>>
      PROVE  \A j \in Jobs : (Named(j) => Named(j)') /\ (Old(j) => Old(j)')
  BY <1>1, <1>2, <1>3, NamesStay
<1>4. ASSUME ReadDelivery(w) \/ Send(w) PROVE Fresh'
  <2>1. /\ UNCHANGED <<attempts, status, nextAttemptAt, listed, queued, finished>>
        /\ worker'[w].pc \in Past /\ worker[w].pc \in Past /\ worker'[w].job = worker[w].job
        /\ \A v \in Workers \ {w} : worker'[v] = worker[v]
    BY <1>1, <1>4, ReadOrSend DEF rowVars, queueVars
  <2>2. Old(worker[w].job)' BY <2>1, FreshFacts DEF Old
  <2> QED BY <1>3, <2>1, <2>2, FreshMoves DEF Past
<1>5. ASSUME Claim(w), Claimable(worker[w].job[1]) PROVE Fresh'
  <2> DEFINE e == worker[w].job[1]
  <2>1. /\ worker[w].pc = "claim" /\ e \in Deliveries
        /\ worker'[w].pc = "read" /\ worker'[w].job = worker[w].job
        /\ \A v \in Workers \ {w} : worker'[v] = worker[v]
        /\ status' = [status EXCEPT ![e] = "PROCESSING"]
        /\ attempts' = [attempts EXCEPT ![e] = @ + 1]
        /\ UNCHANGED <<nextAttemptAt, finished, listed, queued>>
    BY <1>1, <1>5, ClaimTakes
  <2>2. \A j \in Jobs : (Named(j) => Named(j)') /\ (Old(j) => Old(j)')
    <3>1. \A d \in Deliveries \ {e} : attempts'[d] = attempts[d] /\ status'[d] = status[d]
      BY <1>2, <2>1
    <3>2. attempts'[e] > attempts[e] BY <1>2, <2>1
    <3> QED BY <1>1, <2>1, <3>1, <3>2, NamesStay
  <2>3. Old(worker[w].job)'
    <3>1. Named(worker[w].job) /\ worker[w].job \in Jobs BY <2>1, FreshFacts
    <3>2. worker[w].job[2] \in 0 .. Limit BY <3>1 DEF Jobs
    <3>3. worker[w].job[2] <= attempts[e] /\ attempts'[e] = attempts[e] + 1
      BY <1>2, <2>1, <3>1, <3>2 DEF Named, Old
    <3> QED BY <1>2, <2>1, <3>2, <3>3 DEF Old
  <2> QED BY <2>1, <2>2, <2>3, FreshMoves
<1>6. ASSUME Claim(w), ~Claimable(worker[w].job[1]) PROVE Fresh'
  <2>1. /\ worker'[w] = Idle /\ \A v \in Workers \ {w} : worker'[v] = worker[v]
        /\ finished' = finished \cup {worker[w].job} /\ worker[w].pc = "claim"
        /\ UNCHANGED <<attempts, status, nextAttemptAt, listed, queued>>
    BY <1>1, <1>6, WorkerGoes DEF Claim, Finish, rowVars
  <2>2. Old(worker[w].job)
    BY <1>6, <2>1, FreshFacts DEF Named, Claimable
  <2>3. Old(worker[w].job) => \A j \in {worker[w].job} : Old(j)' BY <2>1 DEF Old
  <2> QED BY <1>1, <1>3, <2>1, <2>2, <2>3, FreshMoves DEF Past
<1>7. ASSUME RecordSuccess(w) \/ RecordFailure(w) PROVE Fresh'
  <2> DEFINE e == worker[w].job[1]
  <2>1. /\ worker'[w] = Idle /\ \A v \in Workers \ {w} : worker'[v] = worker[v]
        /\ finished' = finished \cup {worker[w].job} /\ worker[w].pc \in Past
        /\ UNCHANGED <<attempts, listed, queued>>
        /\ \A d \in Deliveries \ {e} :
               status'[d] = status[d] /\ nextAttemptAt'[d] = nextAttemptAt[d]
    BY <1>1, <1>2, <1>7, WorkerGoes DEF RecordSuccess, RecordFailure, Finish, Past
  <2>2. e \in Deliveries => status[e] = "PROCESSING"
    BY <1>1, <2>1 DEF Safe, Exclusive, Sends, Undisturbed
  <2>3. \A j \in Jobs : (Named(j) => Named(j)') /\ (Old(j) => Old(j)')
    BY <1>1, <2>1, <2>2, NamesStay
  <2>4. \A j \in {worker[w].job} : Old(j)' BY <2>1, FreshFacts DEF Old
  <2> QED BY <1>1, <2>1, <2>3, <2>4, FreshMoves DEF Past
<1>8. ASSUME ClaimThrows(w) \/ Lose(w) PROVE FALSE
  BY <1>8 DEF ClaimThrows, Lose, Undisturbed
<1>9. ASSUME NEW j \in Jobs, Take(w, j) PROVE Fresh'
  <2>1. /\ worker'[w].pc = "claim" /\ worker'[w].job = j
        /\ \A v \in Workers \ {w} : worker'[v] = worker[v]
        /\ UNCHANGED <<attempts, status, nextAttemptAt, listed, finished>>
        /\ queued' \subseteq queued /\ j \in queued
    BY <1>1, <1>9, TakeTakes DEF rowVars, Take
  <2>2. Named(j)' BY <1>3, <2>1, FreshFacts
  <2>3. Named(worker[w].job)' BY <2>1, <2>2 DEF Named, Old
  <2> QED BY <1>3, <2>1, <2>3, FreshMoves DEF Past
<1> QED BY <1>4, <1>5, <1>6, <1>7, <1>8, <1>9 DEF WorkerStep

LEMMA FreshRows ==
    ASSUME Visible, Safe', Undisturbed, NEW e \in Deliveries,
           WriteOutbox(e) \/ Poll(e) \/ Retry(e) \/ BackoffElapses(e) \/ LeaseElapses(e)
    PROVE  Fresh'
<1>1. Safe BY DEF Visible
<1>2. /\ attempts \in [Deliveries -> 0 .. Limit] /\ Limit \in Nat
      /\ status \in [Deliveries -> WebhookStatus \cup {"NONE"}]
      /\ nextAttemptAt \in [Deliveries -> {"due", "later"}]
  BY <1>1, DeliveryAssumption DEF Safe, Rows, DeliveryTypeOK
<1>3. /\ UNCHANGED <<attempts, worker, queued, finished>>
      /\ \A d \in Deliveries : status[d] = "PENDING" /\ nextAttemptAt[d] = "due" =>
             status'[d] = "PENDING" /\ nextAttemptAt'[d] = "due"
      /\ listed' = listed \/ (listed' = listed \cup {JobOf(e)} /\ listDueDeliveryIds(e))
  BY <1>2 DEF WriteOutbox, Poll, recoverExpiredDeliveries, listDueDeliveryIds, Retry,
              BackoffElapses, LeaseElapses, rowVars, queueVars
<1>4. \A j \in Jobs : (Named(j) => Named(j)') /\ (Old(j) => Old(j)')
  BY <1>1, <1>3, NamesStay
<1>5. \A j \in {JobOf(e)} : listDueDeliveryIds(e) => Named(j)'
  BY DEF listDueDeliveryIds, JobOf, Named, rowVars
<1> QED BY <1>3, <1>4, <1>5, FreshMoves

LEMMA VisibleStep == Visible /\ [Next]_vars => Visible'
<1> SUFFICES ASSUME Visible, [Next]_vars PROVE Visible' OBVIOUS
<1>1. Safe /\ Safe' BY SafeStep DEF Visible
<1>2. SUFFICES ASSUME Undisturbed' PROVE Fresh' BY <1>1 DEF Visible, Fresh, Undisturbed
<1>3. Undisturbed BY <1>1, <1>2, UndisturbedBefore
<1>4. ASSUME UNCHANGED <<attempts, status, nextAttemptAt>>
      PROVE  \A j \in Jobs : (Named(j) => Named(j)') /\ (Old(j) => Old(j)')
  BY <1>1, <1>4, NamesStay
<1>5. ASSUME NEW i \in Jobs, Enqueue(i) \/ Forget(i) PROVE Fresh'
  <2>1. UNCHANGED <<attempts, status, nextAttemptAt, worker>>
    BY <1>5 DEF Enqueue, Forget, rowVars
  <2>2. listed' \cup queued' \subseteq listed \cup queued /\ finished' \subseteq finished
    BY <1>5 DEF Enqueue, Forget
  <2> QED BY <1>3, <1>4, <2>1, <2>2, FreshMoves
<1>6. CASE UNCHANGED vars
  BY <1>3, <1>4, <1>6, FreshMoves DEF vars, rowVars, queueVars
<1> QED BY <1>1, <1>2, <1>3, <1>5, <1>6, FreshWorkers, FreshRows DEF Next

\* As long as no worker is lost or outlives its lease, the attempts in a job's name make
\* every retry a job that no finished one hides.
THEOREM RetryIsNotHiddenCorrect == Spec => []RetryIsNotHidden
<1>1. Visible => RetryIsNotHidden
  <2> SUFFICES ASSUME Visible, Undisturbed, NEW d \in Deliveries PROVE JobOf(d) \notin finished
    BY DEF RetryIsNotHidden, DueIsNotHidden, Undisturbed
  <2>1. attempts[d] \in 0 .. Limit BY DEF Visible, Safe, Rows, DeliveryTypeOK
  <2>2. ~Old(JobOf(d)) BY <2>1, DeliveryAssumption DEF Old, JobOf
  <2> QED BY <2>2, FreshFacts
<1>2. Init => Visible BY RowsInit, ExclusiveInit, FreshInit DEF Visible, Safe
<1> QED BY <1>1, <1>2, VisibleStep, PTL DEF Spec

=============================================================================
