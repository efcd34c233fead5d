------------------------ MODULE OwnerNotificationProofs ------------------------
(***************************************************************************)
(* How often the owner is told one thing, proved for every set of events,  *)
(* channels and workers: only a fault, a worker that is lost or paused for *)
(* too long or an answer that is, makes it more than once.                 *)
(*                                                                         *)
(* The argument is a balance (Covered).  Whoever may still send a task, and*)
(* every message that has arrived, is covered by a fault that happened or  *)
(* by the one message that a task is worth.                                *)
(***************************************************************************)
EXTENDS OwnerNotification, FiniteSetTheorems, TLAPS

WorkerStates ==
    [pc : {"idle", "collect", "recover", "list", "next", "taken", "send", "sent", "failed"},
     batch : SUBSET Events, todo : SUBSET [task : Tasks, attempts : Nat],
     task : Tasks \cup {None}, attempts : Nat]

Telling == {"taken", "send"}
Busy == Telling \cup {"sent", "failed"}

\* Rows and workers have their types, workers name tasks that are, and of a task that
\* is not nobody was told.
Typed ==
    /\ there \subseteq Events
    /\ task \in [Tasks -> TaskRows \cup {None}]
    /\ told \in [Tasks -> Nat] /\ faults \in Nat
    /\ worker \in [Workers -> WorkerStates]
    /\ \A w \in Workers : /\ \A i \in worker[w].todo : i.task \in Made
                          /\ worker[w].pc \in Busy => worker[w].task \in Made
    /\ \A t \in Tasks \ Made : told[t] = 0

\* The workers that may still send the task, whether it is theirs or not.
Tellers(t) == {w \in Workers : worker[w].pc \in Telling /\ worker[w].task = t}

\* The worker has the task for itself until its lease runs out.
Has(w, t) ==
    /\ worker[w].pc \in Telling \cup {"sent"} /\ worker[w].task = t
    /\ task[t].status = "PROCESSING" /\ task[t].owner = w /\ task[t].live

\* A task that is over was worth a message, and so is one that a worker has.
Worth(t) == task[t].status \in Final \/ \E w \in Workers : Has(w, t)
Allowed(t) == IF Worth(t) THEN faults + 1 ELSE faults

Covered == \A t \in Made : told[t] + Cardinality(Tellers(t)) <= Allowed(t)

USE DEF settingVars, sourceVars

LEMMA InitTyped == Init => Typed
  <1>1. ASSUME Init
        PROVE  worker \in [Workers -> WorkerStates]
    BY <1>1 DEF Init, Idle, WorkerStates
  <1>2. ASSUME Init
        PROVE  /\ task \in [Tasks -> TaskRows \cup {None}]
               /\ told \in [Tasks -> Nat] /\ faults \in Nat
               /\ \A t \in Tasks : told[t] = 0
    BY <1>2 DEF Init
  <1>3. ASSUME Init, NEW w \in Workers
        PROVE  worker[w].todo = {} /\ worker[w].pc \notin Busy
    BY <1>3 DEF Init, Idle, Busy, Telling
  <1>4. Init => there \subseteq Events
    BY DEF Init
  <1> QED  BY <1>1, <1>2, <1>3, <1>4 DEF Typed, Made

\* A worker that goes on with its round.
LEMMA OnwardsType ==
    ASSUME Typed, NEW w \in Workers
    PROVE  /\ Onwards(w) \in WorkerStates
           /\ Onwards(w).pc = "next" /\ Onwards(w).todo = worker[w].todo
    BY DEF Typed, Onwards, WorkerStates

\* What a worker writes when it is done with a task.
LEMMA SettleType ==
    ASSUME Typed, NEW w \in Workers, worker[w].pc \in Busy,
           NEW status \in {"PENDING"} \cup Final, NEW due \in BOOLEAN
    PROVE  /\ Settle(w, status, due) \in [Tasks -> TaskRows \cup {None}]
           /\ \A t \in Tasks : Settle(w, status, due)[t] = None <=> task[t] = None
  <1> DEFINE t == worker[w].task
             s == [task[t] EXCEPT !.status = status, !.due = due, !.owner = None, !.live = FALSE]
  <1>1. t \in Tasks /\ task[t] \in TaskRows
    BY DEF Typed, Made
  <1>2. s \in TaskRows
    BY <1>1 DEF TaskRows
  <1>3. Owned(w) => Settle(w, status, due) = [task EXCEPT ![t] = s]
    BY <1>1 DEF Settle, Typed
  <1>4. ~Owned(w) => Settle(w, status, due) = task
    BY DEF Settle
  <1> HIDE DEF s, t
  <1> QED  BY <1>1, <1>2, <1>3, <1>4, RowAssumption DEF Typed

\* What a worker writes when it takes a task.
LEMMA TakenType ==
    ASSUME NEW a \in TaskRows, NEW w \in Workers, a.attempts + 1 \in Nat
    PROVE  [a EXCEPT !.status = "PROCESSING", !.owner = w, !.live = TRUE, !.attempts = @ + 1] \in TaskRows
  <1> DEFINE n == a.attempts + 1
  <1>1. [a EXCEPT !.status = "PROCESSING", !.owner = w, !.live = TRUE, !.attempts = n] \in TaskRows
    <2>1. n \in Nat
      OBVIOUS
    <2> HIDE DEF n
    <2> QED  BY <2>1 DEF TaskRows
  <1> QED  BY <1>1

LEMMA TypedStep ==
    ASSUME Typed, [Next]_vars
    PROVE  Typed'
  <1> USE DEF Typed
  <1>1. ASSUME NEW e \in Events, Happen(e) \/ Vanish(e)
        PROVE  Typed'
    BY <1>1 DEF Happen, Vanish, Made
  <1>2. ASSUME \/ CollectorRuns \/ SaveSettings \/ UNCHANGED vars
               \/ \E q \in Quarters : CollectorFails(q)
        PROVE  Typed'
    BY <1>2 DEF CollectorRuns, SaveSettings, CollectorFails, vars, Made
  <1>3. ASSUME NEW k \in Tests, NEW m \in Mediums, Test(k, m)
        PROVE  Typed'
    <2>1. <<k, m>> \in Tasks /\ task[<<k, m>>] = None
      BY <1>3 DEF Test, Tasks, Keys
    <2>2. Fresh \in TaskRows
      BY DEF Fresh, TaskRows
    <2>3. task' = [task EXCEPT ![<<k, m>>] = Fresh] /\ UNCHANGED <<there, told, worker, faults>>
      BY <1>3 DEF Test
    <2>4. Made \subseteq Made'
      BY <2>1, <2>2, <2>3, RowAssumption DEF Made
    <2> QED  BY <2>1, <2>2, <2>3, <2>4 DEF Made
  <1>4. ASSUME NEW w \in Workers, Read(w)
        PROVE  Typed'
    <2> DEFINE s == [Idle EXCEPT !.pc = "collect", !.batch = First(there \ seen)]
    <2>1. s \in WorkerStates /\ s.pc = "collect" /\ s.todo = {}
      BY DEF WorkerStates, Idle, First
    <2>2. worker' = [worker EXCEPT ![w] = s] /\ UNCHANGED <<there, task, told, faults>>
      BY <1>4 DEF Read
    <2> HIDE DEF s
    <2> QED  BY <2>1, <2>2 DEF Made, Busy, Telling
  <1>5. ASSUME NEW w \in Workers, Collect(w)
        PROVE  Typed'
    <2>1. PICK s \in {Idle, [Idle EXCEPT !.pc = "recover"]} : worker' = [worker EXCEPT ![w] = s]
      BY <1>5 DEF Collect
    <2>2. s \in WorkerStates /\ s.pc \in {"idle", "recover"} /\ s.todo = {}
      BY DEF WorkerStates, Idle
    <2>3. Fresh \in TaskRows
      BY DEF Fresh, TaskRows
    <2>4. /\ task' \in [Tasks -> TaskRows \cup {None}]
          /\ \A t \in Tasks : task[t] # None => task'[t] = task[t]
      <3> DEFINE new == worker[w].batch \ seen
                 keys == {e \in new : Selected(e)}
                         \cup (IF failing /\ "collector" \in chosen THEN {quarter} ELSE {})
      <3>1. \/ task' = task
            \/ task' = [t \in Tasks |-> IF t \in keys \X enabled /\ task[t] = None THEN Fresh ELSE task[t]]
        BY <1>5 DEF Collect
      <3> HIDE DEF keys
      <3> QED  BY <3>1, <2>3
    <2>5. UNCHANGED <<there, told, faults>>
      BY <1>5 DEF Collect
    <2>6. Made \subseteq Made'
      BY <2>4 DEF Made
    <2> QED  BY <2>1, <2>2, <2>4, <2>5, <2>6 DEF Busy, Telling, Made
  <1>6. ASSUME NEW w \in Workers, Recover(w)
        PROVE  Typed'
    <2> DEFINE s == [worker[w] EXCEPT !.pc = "list"]
    <2>1. s \in WorkerStates /\ s.pc = "list" /\ s.todo = worker[w].todo
      BY DEF WorkerStates
    <2>2. worker' = [worker EXCEPT ![w] = s] /\ UNCHANGED <<there, told, faults>>
      BY <1>6 DEF Recover
    <2>3. \A t \in Made : [task[t] EXCEPT !.status = "PENDING", !.owner = None] \in TaskRows
      BY DEF Made, TaskRows
    <2>4. /\ task' \in [Tasks -> TaskRows \cup {None}]
          /\ \A t \in Tasks : task'[t] = None <=> task[t] = None
      BY <1>6, <2>3, RowAssumption DEF Recover, Made
    <2> HIDE DEF s
    <2> QED  BY <2>1, <2>2, <2>4 DEF Made, Busy, Telling
  <1>7. ASSUME NEW w \in Workers, List(w)
        PROVE  Typed'
    <2>1. PICK todo \in SUBSET Made :
            worker' = [worker EXCEPT ![w].pc = "next",
                                     ![w].todo = {[task |-> t, attempts |-> task[t].attempts] : t \in todo}]
      BY <1>7 DEF List
    <2> DEFINE I == {[task |-> t, attempts |-> task[t].attempts] : t \in todo}
               s == [worker[w] EXCEPT !.pc = "next", !.todo = I]
    <2>2. I \in SUBSET [task : Tasks, attempts : Nat] /\ \A i \in I : i.task \in Made
      BY DEF Made, TaskRows
    <2>3. worker' = [worker EXCEPT ![w] = s]
      BY <2>1
    <2> HIDE DEF I
    <2>4. s \in WorkerStates /\ s.pc = "next" /\ s.todo = I
      BY <2>2 DEF WorkerStates
    <2>5. UNCHANGED <<there, task, told, faults>>
      BY <1>7 DEF List
    <2> HIDE DEF s
    <2> QED  BY <2>2, <2>3, <2>4, <2>5 DEF Made, Busy, Telling
  <1>8. ASSUME NEW w \in Workers, Take(w)
        PROVE  Typed'
    <2>1. PICK i \in worker[w].todo :
            LET rest == [worker[w] EXCEPT !.todo = @ \ {i}]
            IN IF Free(i.task)
               THEN /\ task' = [task EXCEPT ![i.task].status = "PROCESSING", ![i.task].owner = w,
                                            ![i.task].live = TRUE, ![i.task].attempts = @ + 1]
                    /\ worker' = [worker EXCEPT ![w] = [rest EXCEPT !.pc = "taken", !.task = i.task, !.attempts = i.attempts]]
               ELSE worker' = [worker EXCEPT ![w] = rest] /\ UNCHANGED task
      BY <1>8 DEF Take
    <2> DEFINE u == i.task
               rest == [worker[w] EXCEPT !.todo = @ \ {i}]
               s == [rest EXCEPT !.pc = "taken", !.task = u, !.attempts = i.attempts]
               r == [task[u] EXCEPT !.status = "PROCESSING", !.owner = w, !.live = TRUE, !.attempts = @ + 1]
    <2>2. worker[w].pc = "next" /\ UNCHANGED <<there, told, faults>>
      BY <1>8 DEF Take
    <2>3. u \in Made /\ u \in Tasks /\ task[u] \in TaskRows /\ i.attempts \in Nat
      BY DEF Made, WorkerStates
    <2>4. r \in TaskRows
      <3>1. task[u].attempts + 1 \in Nat
        BY <2>3 DEF TaskRows
      <3> QED  BY <3>1, <2>3, TakenType
    <2>5. rest \in WorkerStates /\ rest.pc = "next" /\ rest.todo \subseteq worker[w].todo
      BY <2>2 DEF WorkerStates
    <2>6. s \in WorkerStates /\ s.task = u /\ s.todo \subseteq worker[w].todo
      BY <2>3, <2>5 DEF WorkerStates
    <2>7. CASE Free(u)
      <3>1. task' = [task EXCEPT ![u] = r] /\ worker' = [worker EXCEPT ![w] = s]
        BY <2>1, <2>7, <2>3
      <3> HIDE DEF r, s, u, rest
      <3>2. Made = Made'
        BY <3>1, <2>3, <2>4, RowAssumption DEF Made
      <3> QED  BY <3>1, <3>2, <2>2, <2>3, <2>4, <2>6
    <2>8. CASE ~Free(u)
      <3>1. worker' = [worker EXCEPT ![w] = rest] /\ UNCHANGED task
        BY <2>1, <2>8
      <3> HIDE DEF rest
      <3> QED  BY <3>1, <2>2, <2>5 DEF Made, Busy, Telling
    <2> QED  BY <2>7, <2>8
  <1>9. ASSUME NEW w \in Workers, EndRound(w) \/ Crash(w)
        PROVE  Typed'
    <2>1. Idle \in WorkerStates /\ Idle.pc = "idle" /\ Idle.todo = {}
      BY DEF Idle, WorkerStates
    <2>2. /\ worker' = [worker EXCEPT ![w] = Idle] /\ UNCHANGED <<there, task, told>>
          /\ faults' \in Nat
      BY <1>9 DEF EndRound, Crash
    <2> QED  BY <2>1, <2>2 DEF Made, Busy, Telling
  <1>10. ASSUME NEW w \in Workers, Address(w)
         PROVE  Typed'
    <2>1. worker[w].pc = "taken" /\ UNCHANGED <<there, told, faults>>
      BY <1>10 DEF Address
    <2>2. CASE worker[w].task[2] \in enabled
      <3> DEFINE s == [worker[w] EXCEPT !.pc = "send"]
      <3>1. s \in WorkerStates /\ s.todo = worker[w].todo /\ s.task = worker[w].task
        BY DEF WorkerStates
      <3>2. worker' = [worker EXCEPT ![w] = s] /\ UNCHANGED task
        BY <1>10, <2>2 DEF Address
      <3> HIDE DEF s
      <3> QED  BY <2>1, <3>1, <3>2 DEF Made, Busy, Telling
    <2>3. CASE worker[w].task[2] \notin enabled
      <3>1. worker' = [worker EXCEPT ![w] = Onwards(w)] /\ task' = Settle(w, "CANCELLED", TRUE)
        BY <1>10, <2>3 DEF Address
      <3>2. /\ task' \in [Tasks -> TaskRows \cup {None}]
            /\ \A t \in Tasks : task'[t] = None <=> task[t] = None
        BY <3>1, <2>1, SettleType DEF Busy, Telling, Final
      <3> QED  BY <2>1, <3>1, <3>2, OnwardsType DEF Made, Busy, Telling
    <2> QED  BY <2>2, <2>3
  <1>11. ASSUME NEW w \in Workers, Send(w)
         PROVE  Typed'
    <2>1. PICK confirmed \in BOOLEAN : worker' = [worker EXCEPT ![w].pc = IF confirmed THEN "sent" ELSE "failed"]
      BY <1>11 DEF Send
    <2> DEFINE s == [worker[w] EXCEPT !.pc = IF confirmed THEN "sent" ELSE "failed"]
    <2>2. s \in WorkerStates /\ s.todo = worker[w].todo /\ s.task = worker[w].task
      BY DEF WorkerStates
    <2>3. worker' = [worker EXCEPT ![w] = s] /\ UNCHANGED <<there, task>> /\ faults' \in Nat
      <3>1. faults' = faults \/ faults' = faults + 1
        BY <1>11 DEF Send
      <3>2. faults' \in Nat
        BY <3>1
      <3>3. UNCHANGED <<there, task>>
        BY <1>11 DEF Send
      <3> QED  BY <2>1, <3>2, <3>3
    <2>4. worker[w].pc = "send" /\ worker[w].task \in Made /\ worker[w].task \in Tasks
      BY <1>11 DEF Send, Busy, Telling, Made
    <2>5. told' \in [Tasks -> Nat] /\ \A t \in Tasks \ Made : told'[t] = 0
      <3>1. told' = told \/ told' = [told EXCEPT ![worker[w].task] = told[worker[w].task] + 1]
        BY <1>11 DEF Send
      <3> QED  BY <3>1, <2>4
    <2> HIDE DEF s
    <2> QED  BY <2>2, <2>3, <2>4, <2>5 DEF Made, Busy, Telling
  <1>12. ASSUME NEW w \in Workers, Record(w)
         PROVE  Typed'
    <2>1. /\ worker[w].pc \in Busy /\ worker' = [worker EXCEPT ![w] = Onwards(w)]
          /\ UNCHANGED <<there, told, faults>>
      BY <1>12 DEF Record, Busy
    <2>2. /\ task' \in [Tasks -> TaskRows \cup {None}]
          /\ \A t \in Tasks : task'[t] = None <=> task[t] = None
      <3>1. \/ task' = Settle(w, "SUCCESS", TRUE) \/ task' = Settle(w, "DEAD", TRUE)
            \/ task' = Settle(w, "PENDING", FALSE)
        BY <1>12 DEF Record
      <3>2. /\ "SUCCESS" \in {"PENDING"} \cup Final /\ "DEAD" \in {"PENDING"} \cup Final
            /\ "PENDING" \in {"PENDING"} \cup Final /\ TRUE \in BOOLEAN /\ FALSE \in BOOLEAN
        BY DEF Final
      <3>3. CASE task' = Settle(w, "SUCCESS", TRUE)
        BY <2>1, <3>2, <3>3, SettleType
      <3>4. CASE task' = Settle(w, "DEAD", TRUE)
        BY <2>1, <3>2, <3>4, SettleType
      <3>5. CASE task' = Settle(w, "PENDING", FALSE)
        BY <2>1, <3>2, <3>5, SettleType
      <3> QED  BY <3>1, <3>3, <3>4, <3>5
    <2> QED  BY <2>1, <2>2, OnwardsType DEF Made, Busy, Telling
  <1>13. ASSUME NEW u \in Tasks, BackoffEnds(u) \/ LeaseExpires(u)
         PROVE  Typed'
    <2>1. PICK r \in {[task[u] EXCEPT !.due = TRUE], [task[u] EXCEPT !.live = FALSE]} :
            task' = [task EXCEPT ![u] = r]
      BY <1>13 DEF BackoffEnds, LeaseExpires
    <2>2. u \in Made /\ UNCHANGED <<there, told, worker>> /\ faults' \in Nat
      BY <1>13 DEF BackoffEnds, LeaseExpires
    <2>3. r \in TaskRows
      BY <2>2 DEF Made, TaskRows
    <2>4. Made' = Made
      BY <2>1, <2>2, <2>3, RowAssumption DEF Made
    <2> QED  BY <2>1, <2>2, <2>3, <2>4
  <1> QED  BY <1>1, <1>2, <1>3, <1>4, <1>5, <1>6, <1>7, <1>8, <1>9, <1>10, <1>11, <1>12, <1>13 DEF Next, Step

-----------------------------------------------------------------------------
(* The balance.                                                            *)

LEMMA CountType ==
    ASSUME NEW t
    PROVE  IsFiniteSet(Tellers(t)) /\ Cardinality(Tellers(t)) \in Nat
  <1>1. Tellers(t) \subseteq Workers
    BY DEF Tellers
  <1> QED  BY <1>1, OwnerAssumption, FS_Subset, FS_CardinalityType

LEMMA AllowedGrows ==
    ASSUME NEW t, faults \in Nat, faults' \in {faults, faults + 1}, Worth(t) => Worth(t)'
    PROVE  Allowed(t) <= Allowed(t)' /\ Allowed(t) \in Nat /\ Allowed(t)' \in Nat
  <1>1. CASE faults' = faults
    BY <1>1 DEF Allowed
  <1>2. CASE faults' = faults + 1
    BY <1>2 DEF Allowed
  <1> QED  BY <1>1, <1>2

\* A step of which no worker that has taken a task knows: a task stays worth what it was.
LEMMA QuietStep ==
    ASSUME Typed, Covered, told' = told, faults' \in {faults, faults + 1},
           \A w \in Workers : \/ worker'[w] = worker[w]
                              \/ worker[w].pc \notin Busy /\ worker'[w].pc \notin Busy,
           \A t \in Made : /\ task[t].status \in Final => task'[t].status \in Final
                           /\ (task[t].status = "PROCESSING" /\ task[t].live) =>
                                 /\ task'[t].status = "PROCESSING" /\ task'[t].live
                                 /\ task'[t].owner = task[t].owner
    PROVE  Covered'
  <1> SUFFICES ASSUME NEW t \in Made'
               PROVE  told[t] + Cardinality(Tellers(t)') <= Allowed(t)'
    BY DEF Covered
  <1>1. t \in Tasks /\ faults \in Nat /\ told[t] \in Nat
    BY DEF Made, Typed
  <1>2. Tellers(t)' = Tellers(t)
    BY DEF Tellers, Busy
  <1>3. CASE t \in Made
    <2>1. Worth(t) => Worth(t)'
      BY <1>3 DEF Worth, Has, Busy
    <2>2. Allowed(t) <= Allowed(t)' /\ Allowed(t) \in Nat /\ Allowed(t)' \in Nat
      BY <1>1, <2>1, AllowedGrows
    <2>3. told[t] + Cardinality(Tellers(t)) <= Allowed(t)
      BY <1>3 DEF Covered
    <2> QED  BY <1>1, <1>2, <2>2, <2>3, CountType
  <1>4. CASE t \notin Made
    <2>1. told[t] = 0 /\ Tellers(t) = {}
      BY <1>1, <1>4 DEF Typed, Tellers, Busy
    <2>2. Allowed(t)' \in Nat
      BY <1>1 DEF Allowed
    <2> QED  BY <1>2, <2>1, <2>2, FS_EmptySet
  <1> QED  BY <1>3, <1>4

\* A step of one worker with one task leaves the balance of the others alone.
LEMMA ApartStep ==
    ASSUME Typed, Covered, faults' \in {faults, faults + 1},
           NEW w \in Workers, NEW u, NEW t \in Made, t # u,
           told'[t] = told[t], task'[t] = task[t],
           \A v \in Workers : v # w => worker'[v] = worker[v],
           worker[w].pc \in Busy => worker[w].task = u,
           worker'[w].pc \in Busy => worker'[w].task = u
    PROVE  told'[t] + Cardinality(Tellers(t)') <= Allowed(t)'
  <1>1. t \in Tasks /\ faults \in Nat /\ told[t] \in Nat
    BY DEF Made, Typed
  <1>2. Tellers(t)' = Tellers(t)
    BY DEF Tellers, Busy
  <1>3. Worth(t) => Worth(t)'
    BY DEF Worth, Has, Busy
  <1>4. Allowed(t) <= Allowed(t)' /\ Allowed(t) \in Nat /\ Allowed(t)' \in Nat
    BY <1>1, <1>3, AllowedGrows
  <1>5. told[t] + Cardinality(Tellers(t)) <= Allowed(t)
    BY DEF Covered
  <1> QED  BY <1>1, <1>2, <1>4, <1>5, CountType

\* What a worker does with a row when it is done: nothing unless the row is its own.
LEMMA SettleRow ==
    ASSUME Typed, NEW w \in Workers, worker[w].pc \in Busy,
           NEW status, NEW due, task' = Settle(w, status, due)
    PROVE  /\ \A t \in Tasks : t # worker[w].task => task'[t] = task[t]
           /\ ~Owned(w) => task' = task
           /\ Owned(w) => task'[worker[w].task].status = status
  <1>1. worker[w].task \in Tasks /\ task[worker[w].task] \in TaskRows
    BY DEF Typed, Made
  <1> QED  BY <1>1 DEF Typed, Settle, TaskRows

LEMMA CoveredTake ==
    ASSUME Typed, Typed', Covered, NEW w \in Workers, Take(w)
    PROVE  Covered'
  <1>1. PICK i \in worker[w].todo :
          LET rest == [worker[w] EXCEPT !.todo = @ \ {i}]
          IN IF Free(i.task)
             THEN /\ task' = [task EXCEPT ![i.task].status = "PROCESSING", ![i.task].owner = w,
                                          ![i.task].live = TRUE, ![i.task].attempts = @ + 1]
                  /\ worker' = [worker EXCEPT ![w] = [rest EXCEPT !.pc = "taken", !.task = i.task, !.attempts = i.attempts]]
             ELSE worker' = [worker EXCEPT ![w] = rest] /\ UNCHANGED task
    BY DEF Take
  <1>2. worker[w].pc = "next" /\ told' = told /\ faults' = faults
    BY DEF Take
  <1> DEFINE u == i.task
  <1>3. u \in Made /\ u \in Tasks /\ task[u] \in TaskRows /\ worker[w] \in WorkerStates
    BY DEF Typed, Made
  <1>4. faults \in Nat /\ told[u] \in Nat
    BY <1>3 DEF Typed
  <1>5. CASE Free(u)
    <2> DEFINE rest == [worker[w] EXCEPT !.todo = @ \ {i}]
               s == [rest EXCEPT !.pc = "taken", !.task = u, !.attempts = i.attempts]
               a == [task[u] EXCEPT !.status = "PROCESSING", !.owner = w, !.live = TRUE, !.attempts = @ + 1]
    <2>0. task' = [task EXCEPT ![u] = a] /\ worker' = [worker EXCEPT ![w] = s]
      BY <1>1, <1>3, <1>5 DEF Typed
    <2>1. /\ worker'[w].pc = "taken" /\ worker'[w].task = u
          /\ \A v \in Workers : v # w => worker'[v] = worker[v]
      <3>1. s.pc = "taken" /\ s.task = u
        BY <1>3 DEF WorkerStates
      <3> HIDE DEF s
      <3> QED  BY <2>0, <3>1 DEF Typed
    <2>2. /\ \A t \in Tasks : t # u => task'[t] = task[t]
          /\ task'[u].status = "PROCESSING" /\ task'[u].owner = w /\ task'[u].live
          /\ task'[u] \in TaskRows
      <3>1. a.status = "PROCESSING" /\ a.owner = w /\ a.live
        BY <1>3 DEF TaskRows
      <3>2. a \in TaskRows
        <4>1. task[u].attempts + 1 \in Nat
          BY <1>3 DEF TaskRows
        <4> QED  BY <1>3, <4>1, TakenType
      <3> HIDE DEF a, u
      <3> QED  BY <1>3, <2>0, <3>1, <3>2 DEF Typed
    <2>3. Made' = Made
      BY <1>3, <2>2, RowAssumption DEF Made
    <2>4. ASSUME NEW t \in Made, t # u
          PROVE  told'[t] + Cardinality(Tellers(t)') <= Allowed(t)'
      BY <1>2, <1>4, <2>1, <2>2, <2>4, ApartStep DEF Busy, Telling, Made
    <2>5. told[u] + Cardinality(Tellers(u)') <= Allowed(u)'
      <3>1. ~Worth(u) /\ Worth(u)'
        BY <1>5, <2>1, <2>2 DEF Worth, Has, Free, Final, Telling
      <3>2. told[u] + Cardinality(Tellers(u)) <= faults /\ Allowed(u)' = faults + 1
        BY <1>2, <1>3, <3>1 DEF Covered, Allowed
      <3>3. Tellers(u)' = Tellers(u) \cup {w} /\ w \notin Tellers(u)
        BY <1>2, <2>1 DEF Tellers, Telling
      <3>4. Cardinality(Tellers(u)') = Cardinality(Tellers(u)) + 1
        BY <3>3, CountType, FS_AddElement
      <3> QED  BY <1>4, <3>2, <3>4, CountType
    <2> QED  BY <1>2, <2>3, <2>4, <2>5 DEF Covered
  <1>6. CASE ~Free(u)
    <2>1. task' = task
      BY <1>1, <1>6
    <2>2. \A v \in Workers : worker'[v] = worker[v] \/ (v = w /\ worker'[v].pc = "next")
      BY <1>1, <1>2, <1>3, <1>6 DEF Typed, WorkerStates
    <2> QED  BY <1>2, <1>4, <2>1, <2>2, QuietStep DEF Busy, Telling
  <1> QED  BY <1>5, <1>6

LEMMA CoveredAddress ==
    ASSUME Typed, Typed', Covered, NEW w \in Workers, Address(w)
    PROVE  Covered'
  <1>0. PICK u : u = worker[w].task
    OBVIOUS
  <1>1. worker[w].pc = "taken" /\ told' = told /\ faults' = faults
    BY <1>0 DEF Address
  <1>2. u \in Made /\ u \in Tasks /\ task[u] \in TaskRows /\ worker[w] \in WorkerStates
    BY <1>0, <1>1 DEF Typed, Made, Busy, Telling
  <1>3. faults \in Nat /\ told[u] \in Nat
    BY <1>0, <1>2 DEF Typed
  <1>4. CASE u[2] \in enabled
    <2>1. /\ task' = task /\ worker'[w].pc = "send" /\ worker'[w].task = u
          /\ \A v \in Workers : v # w => worker'[v] = worker[v]
      BY <1>0, <1>2, <1>4 DEF Address, Typed, WorkerStates
    <2>2. ASSUME NEW t \in Made
          PROVE  Tellers(t)' = Tellers(t) /\ (Worth(t) => Worth(t)')
      BY <1>0, <1>1, <2>1 DEF Tellers, Telling, Worth, Has
    <2>3. ASSUME NEW t \in Made
          PROVE  told[t] + Cardinality(Tellers(t)') <= Allowed(t)'
      <3>1. told[t] + Cardinality(Tellers(t)) <= Allowed(t) /\ told[t] \in Nat
        BY DEF Covered, Made, Typed
      <3>2. Allowed(t) <= Allowed(t)' /\ Allowed(t) \in Nat /\ Allowed(t)' \in Nat
        BY <1>1, <1>3, <2>2, AllowedGrows
      <3> QED  BY <2>2, <3>1, <3>2, CountType
    <2> QED  BY <1>1, <2>1, <2>3 DEF Covered, Made
  <1>5. CASE u[2] \notin enabled
    <2>1. worker' = [worker EXCEPT ![w] = Onwards(w)] /\ task' = Settle(w, "CANCELLED", TRUE)
      BY <1>0, <1>5 DEF Address
    <2>2. worker'[w].pc = "next" /\ \A v \in Workers : v # w => worker'[v] = worker[v]
      BY <1>0, <2>1, OnwardsType DEF Typed
    <2>3. worker[w].pc \in Busy
      BY <1>0, <1>1 DEF Busy, Telling
    <2>4. /\ \A t \in Tasks : t # u => task'[t] = task[t]
          /\ ~Owned(w) => task' = task
          /\ Owned(w) => task'[u].status = "CANCELLED"
      BY <1>0, <2>1, <2>3, SettleRow
    <2>5. Made' = Made
      BY <1>0, <2>1, <2>3, SettleType DEF Final, Made
    <2>6. ASSUME NEW t \in Made, t # u
          PROVE  told'[t] + Cardinality(Tellers(t)') <= Allowed(t)'
      BY <1>0, <1>1, <1>3, <2>2, <2>4, <2>6, ApartStep DEF Busy, Telling, Made
    <2>7. told[u] + Cardinality(Tellers(u)') <= Allowed(u)'
      <3>1. Tellers(u)' \subseteq Tellers(u)
        BY <1>0, <2>2 DEF Tellers, Telling
      <3>2. Cardinality(Tellers(u)') <= Cardinality(Tellers(u)) /\ Cardinality(Tellers(u)') \in Nat
        BY <1>0, <3>1, CountType, FS_Subset, FS_CardinalityType
      <3>3. Worth(u) => Worth(u)'
        <4>1. CASE Owned(w)
          BY <1>0, <2>4, <4>1 DEF Worth, Final
        <4>2. CASE ~Owned(w)
          BY <1>0, <2>2, <2>4, <4>2 DEF Worth, Has, Owned
        <4> QED  BY <1>0, <4>1, <4>2
      <3>4. told[u] + Cardinality(Tellers(u)) <= Allowed(u)
        BY <1>0, <1>2 DEF Covered
      <3>5. Allowed(u) <= Allowed(u)' /\ Allowed(u) \in Nat /\ Allowed(u)' \in Nat
        BY <1>0, <1>1, <1>3, <3>3 DEF Allowed
      <3> QED  BY <1>0, <1>3, <3>2, <3>4, <3>5, CountType
    <2> QED  BY <1>0, <1>1, <2>5, <2>6, <2>7 DEF Covered
  <1> QED  BY <1>0, <1>4, <1>5

LEMMA CoveredSend ==
    ASSUME Typed, Typed', Covered, NEW w \in Workers, Send(w)
    PROVE  Covered'
  <1>0. PICK u : u = worker[w].task
    OBVIOUS
  <1>1. PICK arrives \in BOOLEAN, confirmed \in BOOLEAN :
          /\ confirmed => arrives
          /\ faults' = IF arrives /\ ~confirmed THEN faults + 1 ELSE faults
          /\ told' = IF arrives THEN [told EXCEPT ![worker[w].task] = @ + 1] ELSE told
          /\ worker' = [worker EXCEPT ![w].pc = IF confirmed THEN "sent" ELSE "failed"]
    BY <1>0 DEF Send
  <1>2. worker[w].pc = "send" /\ task' = task
    BY <1>0 DEF Send
  <1>3. u \in Made /\ u \in Tasks /\ task[u] \in TaskRows /\ worker[w] \in WorkerStates
    BY <1>0, <1>2 DEF Typed, Made, Busy, Telling
  <1>4. faults \in Nat /\ told[u] \in Nat /\ faults' \in {faults, faults + 1}
    BY <1>0, <1>1, <1>3 DEF Typed
  <1>5. /\ worker'[w].pc = IF confirmed THEN "sent" ELSE "failed"
        /\ worker'[w].task = u
        /\ \A v \in Workers : v # w => worker'[v] = worker[v]
    BY <1>0, <1>1, <1>3 DEF Typed, WorkerStates
  <1>6. /\ \A t \in Tasks : t # u => told'[t] = told[t]
        /\ told'[u] = IF arrives THEN told[u] + 1 ELSE told[u]
    BY <1>0, <1>1, <1>3 DEF Typed
  <1>7. ASSUME NEW t \in Made, t # u
        PROVE  told'[t] + Cardinality(Tellers(t)') <= Allowed(t)'
    BY <1>0, <1>2, <1>4, <1>5, <1>6, <1>7, ApartStep DEF Busy, Telling, Made
  <1>8. told'[u] + Cardinality(Tellers(u)') <= Allowed(u)'
    <2>1. Tellers(u)' = Tellers(u) \ {w} /\ w \in Tellers(u)
      BY <1>0, <1>2, <1>5 DEF Tellers, Telling
    <2>2. Cardinality(Tellers(u)') = Cardinality(Tellers(u)) - 1
      BY <1>0, <2>1, CountType, FS_RemoveElement
    <2>3. told[u] + Cardinality(Tellers(u)) <= Allowed(u)
      BY <1>0, <1>3 DEF Covered
    <2>4. (confirmed /\ Worth(u)) => Worth(u)'
      BY <1>0, <1>2, <1>5 DEF Worth, Has, Telling
    <2>5. /\ Allowed(u) \in {faults, faults + 1} /\ Allowed(u)' \in {faults', faults' + 1}
          /\ confirmed => Allowed(u) <= Allowed(u)'
      BY <1>0, <1>1, <1>4, <2>4 DEF Allowed
    <2> QED  BY <1>0, <1>1, <1>4, <1>6, <2>2, <2>3, <2>5, CountType
  <1> QED  BY <1>0, <1>2, <1>7, <1>8 DEF Covered, Made

LEMMA CoveredRecord ==
    ASSUME Typed, Typed', Covered, NEW w \in Workers, Record(w)
    PROVE  Covered'
  <1>0. PICK u : u = worker[w].task
    OBVIOUS
  <1>1. /\ worker[w].pc \in {"sent", "failed"} /\ told' = told /\ faults' = faults
        /\ worker' = [worker EXCEPT ![w] = Onwards(w)]
    BY <1>0 DEF Record
  <1>2. PICK status \in {"PENDING"} \cup Final, due \in BOOLEAN :
          /\ task' = Settle(w, status, due)
          /\ worker[w].pc = "sent" => status = "SUCCESS"
    BY <1>0 DEF Record, Final
  <1>3. u \in Made /\ u \in Tasks /\ task[u] \in TaskRows /\ worker[w].pc \in Busy
    BY <1>0, <1>1 DEF Typed, Made, Busy, Telling
  <1>4. faults \in Nat /\ told[u] \in Nat
    BY <1>0, <1>3 DEF Typed
  <1>5. worker'[w].pc = "next" /\ \A v \in Workers : v # w => worker'[v] = worker[v]
    BY <1>0, <1>1, OnwardsType DEF Typed
  <1>6. /\ \A t \in Tasks : t # u => task'[t] = task[t]
        /\ ~Owned(w) => task' = task
        /\ Owned(w) => task'[u].status = status
    BY <1>0, <1>2, <1>3, SettleRow
  <1>7. Made' = Made
    BY <1>0, <1>2, <1>3, SettleType DEF Made
  <1>8. ASSUME NEW t \in Made, t # u
        PROVE  told'[t] + Cardinality(Tellers(t)') <= Allowed(t)'
    BY <1>0, <1>1, <1>4, <1>5, <1>6, <1>8, ApartStep DEF Busy, Telling, Made
  <1>9. told[u] + Cardinality(Tellers(u)') <= Allowed(u)'
    <2>1. Tellers(u)' = Tellers(u)
      BY <1>0, <1>1, <1>5 DEF Tellers, Telling
    <2>2. Worth(u) => Worth(u)'
      <3>1. CASE ~Owned(w)
        BY <1>0, <1>5, <1>6, <3>1 DEF Worth, Has, Owned
      <3>2. CASE Owned(w) /\ worker[w].pc = "sent"
        BY <1>0, <1>2, <1>6, <3>2 DEF Worth, Final
      <3>3. CASE Owned(w) /\ worker[w].pc = "failed"
        BY <1>0, <3>3 DEF Worth, Has, Owned, Final, Telling
      <3> QED  BY <1>0, <1>1, <3>1, <3>2, <3>3
    <2>3. told[u] + Cardinality(Tellers(u)) <= Allowed(u)
      BY <1>0, <1>3 DEF Covered
    <2>4. Allowed(u) <= Allowed(u)' /\ Allowed(u) \in Nat /\ Allowed(u)' \in Nat
      BY <1>0, <1>1, <1>4, <2>2 DEF Allowed
    <2> QED  BY <1>0, <1>4, <2>1, <2>3, <2>4, CountType
  <1> QED  BY <1>0, <1>1, <1>7, <1>8, <1>9 DEF Covered

LEMMA CoveredLeaseExpires ==
    ASSUME Typed, Typed', Covered, NEW u \in Tasks, LeaseExpires(u)
    PROVE  Covered'
  <1>1. /\ u \in Made /\ told' = told /\ worker' = worker
        /\ faults' = IF AtWork(u) THEN faults + 1 ELSE faults
        /\ task' = [task EXCEPT ![u].live = FALSE]
    BY DEF LeaseExpires
  <1>2. task[u] \in TaskRows /\ faults \in Nat
    BY <1>1 DEF Typed, Made
  <1>3. /\ \A t \in Tasks : t # u => task'[t] = task[t]
        /\ task'[u].status = task[u].status /\ task'[u] # None
    BY <1>1, <1>2, RowAssumption DEF Typed, TaskRows
  <1>4. Made' = Made
    BY <1>1, <1>3 DEF Made
  <1>5. ASSUME NEW t \in Made
        PROVE  told[t] + Cardinality(Tellers(t)') <= Allowed(t)'
    <2>1. Tellers(t)' = Tellers(t)
      BY <1>1 DEF Tellers
    <2>2. told[t] + Cardinality(Tellers(t)) <= Allowed(t) /\ told[t] \in Nat
      BY DEF Covered, Typed, Made
    <2>3. CASE t = u /\ \E v \in Workers : Has(v, u)
      <3>1. AtWork(u)
        BY <2>3 DEF AtWork, Has
      <3>2. Allowed(t) \in {faults, faults + 1} /\ Allowed(t)' \in {faults + 1, faults + 2}
        <4>1. faults' = faults + 1
          BY <1>1, <3>1
        <4> QED  BY <1>2, <4>1 DEF Allowed
      <3> QED  BY <1>2, <2>1, <2>2, <3>2, CountType
    <2>4. CASE ~(t = u /\ \E v \in Workers : Has(v, u))
      <3>1. Worth(t) => Worth(t)'
        BY <1>1, <1>3, <2>4 DEF Worth, Has, Made
      <3>2. Allowed(t) <= Allowed(t)' /\ Allowed(t) \in Nat /\ Allowed(t)' \in Nat
        BY <1>1, <1>2, <3>1 DEF Allowed
      <3> QED  BY <2>1, <2>2, <3>2, CountType
    <2> QED  BY <2>3, <2>4
  <1> QED  BY <1>1, <1>4, <1>5 DEF Covered

LEMMA CoveredCrash ==
    ASSUME Typed, Typed', Covered, NEW w \in Workers, Crash(w)
    PROVE  Covered'
  <1>0. PICK u : u = worker[w].task
    OBVIOUS
  <1>1. /\ task' = task /\ told' = told /\ faults' = faults + 1
        /\ worker' = [worker EXCEPT ![w] = Idle]
    BY <1>0 DEF Crash
  <1>2. worker'[w].pc = "idle" /\ \A v \in Workers : v # w => worker'[v] = worker[v]
    BY <1>0, <1>1 DEF Typed, Idle
  <1>3. faults \in Nat /\ faults' \in {faults, faults + 1}
    BY <1>0, <1>1 DEF Typed
  <1>4. CASE worker[w].pc \in Busy
    <2>1. u \in Made /\ told[u] \in Nat
      BY <1>0, <1>4 DEF Typed, Made
    <2>2. ASSUME NEW t \in Made, t # u
          PROVE  told'[t] + Cardinality(Tellers(t)') <= Allowed(t)'
      BY <1>0, <1>1, <1>2, <1>3, <2>2, ApartStep DEF Busy, Telling, Made
    <2>3. told[u] + Cardinality(Tellers(u)') <= Allowed(u)'
      <3>1. Tellers(u)' \subseteq Tellers(u)
        BY <1>0, <1>2 DEF Tellers, Telling
      <3>2. Cardinality(Tellers(u)') <= Cardinality(Tellers(u)) /\ Cardinality(Tellers(u)') \in Nat
        BY <1>0, <3>1, CountType, FS_Subset, FS_CardinalityType
      <3>3. told[u] + Cardinality(Tellers(u)) <= Allowed(u)
        BY <1>0, <2>1 DEF Covered
      <3>4. Allowed(u) <= Allowed(u)' /\ Allowed(u) \in Nat /\ Allowed(u)' \in Nat
        BY <1>0, <1>1, <1>3 DEF Allowed
      <3> QED  BY <1>0, <2>1, <3>2, <3>3, <3>4, CountType
    <2> QED  BY <1>0, <1>1, <2>2, <2>3 DEF Covered, Made
  <1>5. CASE worker[w].pc \notin Busy
    BY <1>0, <1>1, <1>2, <1>3, <1>5, QuietStep DEF Busy, Telling
  <1> QED  BY <1>0, <1>4, <1>5

\* The steps that no worker with a task takes.
LEMMA CoveredQuiet ==
    ASSUME Typed, Covered,
           \/ \E e \in Events : Happen(e) \/ Vanish(e)
           \/ \E q \in Quarters : CollectorFails(q)
           \/ CollectorRuns \/ SaveSettings \/ UNCHANGED vars
           \/ \E k \in Tests, m \in Mediums : Test(k, m)
           \/ \E w \in Workers : Read(w) \/ Collect(w) \/ Recover(w) \/ List(w) \/ EndRound(w)
           \/ \E t \in Tasks : BackoffEnds(t)
    PROVE  Covered'
  <1>1. faults \in Nat
    BY DEF Typed
  <1>2. told' = told /\ faults' = faults
    BY DEF Happen, Vanish, CollectorFails, CollectorRuns, SaveSettings, vars, Test, Read, Collect,
           Recover, List, EndRound, BackoffEnds
  <1>3. ASSUME NEW w \in Workers, worker'[w] # worker[w]
        PROVE  worker[w].pc \notin Busy /\ worker'[w].pc \notin Busy
    <2>1. \E v \in Workers : Read(v) \/ Collect(v) \/ Recover(v) \/ List(v) \/ EndRound(v)
      BY <1>3 DEF Happen, Vanish, CollectorFails, CollectorRuns, SaveSettings, vars, Test, BackoffEnds
    <2>2. PICK v \in Workers : Read(v) \/ Collect(v) \/ Recover(v) \/ List(v) \/ EndRound(v)
      BY <2>1
    <2>3. /\ worker[v].pc \in {"idle", "collect", "recover", "list", "next"}
          /\ worker'[v].pc \in {"idle", "collect", "recover", "list", "next"}
          /\ \A x \in Workers : x # v => worker'[x] = worker[x]
      <3>0. worker[v] \in WorkerStates
        BY DEF Typed
      <3>1. CASE Read(v)
        BY <3>1 DEF Read, Idle, Typed
      <3>2. CASE Collect(v)
        BY <3>2 DEF Collect, Idle, Typed
      <3>3. CASE Recover(v)
        BY <3>0, <3>3 DEF Recover, Typed, WorkerStates
      <3>4. CASE List(v)
        BY <3>0, <3>4 DEF List, Typed, WorkerStates
      <3>5. CASE EndRound(v)
        BY <3>5 DEF EndRound, Idle, Typed
      <3> QED  BY <2>2, <3>1, <3>2, <3>3, <3>4, <3>5
    <2> QED  BY <1>3, <2>3 DEF Busy, Telling
  <1>4. ASSUME NEW t \in Made
        PROVE  /\ task[t].status \in Final => task'[t].status \in Final
               /\ (task[t].status = "PROCESSING" /\ task[t].live) =>
                     /\ task'[t].status = "PROCESSING" /\ task'[t].live
                     /\ task'[t].owner = task[t].owner
    <2>0. t \in Tasks /\ task[t] \in TaskRows
      BY DEF Made, Typed
    <2>1. CASE UNCHANGED task
      BY <2>1
    <2>2. CASE \E k \in Tests, m \in Mediums : Test(k, m)
      BY <2>0, <2>2 DEF Test, Typed, Made
    <2>3. CASE \E w \in Workers : Collect(w)
      <3>1. PICK w \in Workers : Collect(w)
        BY <2>3
      <3> DEFINE new == worker[w].batch \ seen
                 keys == {e \in new : Selected(e)}
                         \cup (IF failing /\ "collector" \in chosen THEN {quarter} ELSE {})
      <3>2. \/ task' = task
            \/ task' = [x \in Tasks |-> IF x \in keys \X enabled /\ task[x] = None THEN Fresh ELSE task[x]]
        BY <3>1 DEF Collect
      <3> HIDE DEF keys
      <3> QED  BY <2>0, <3>2 DEF Made
    <2>4. CASE \E w \in Workers : Recover(w)
      <3>1. task' = [x \in Tasks |-> IF x \in Made /\ Left(x)
                                     THEN [task[x] EXCEPT !.status = "PENDING", !.owner = None] ELSE task[x]]
        BY <2>4 DEF Recover
      <3>2. ~Left(t) => task'[t] = task[t]
        BY <2>0, <3>1
      <3> QED  BY <3>2 DEF Left, Final
    <2>5. CASE \E u \in Tasks : BackoffEnds(u)
      BY <2>0, <2>5 DEF BackoffEnds, Typed, TaskRows
    <2> QED  BY <2>1, <2>2, <2>3, <2>4, <2>5 DEF Happen, Vanish, CollectorFails, CollectorRuns, SaveSettings,
                 vars, Read, List, EndRound
  <1> QED  BY <1>1, <1>2, <1>3, <1>4, QuietStep

LEMMA CoveredStep ==
    ASSUME Typed, Typed', Covered, [Next]_vars
    PROVE  Covered'
  <1>1. ASSUME NEW w \in Workers, Step(w) \/ Crash(w)
        PROVE  Covered'
    BY <1>1, CoveredQuiet, CoveredTake, CoveredAddress, CoveredSend, CoveredRecord, CoveredCrash DEF Step
  <1>2. ASSUME NEW t \in Tasks, BackoffEnds(t) \/ LeaseExpires(t)
        PROVE  Covered'
    BY <1>2, CoveredQuiet, CoveredLeaseExpires
  <1> QED  BY <1>1, <1>2, CoveredQuiet DEF Next

-----------------------------------------------------------------------------
(* The results.                                                            *)

\* Every row of a task and every worker has its type, workers name tasks that are, and
\* nobody is told of a task that is not.
THEOREM OwnerTypeCorrect == Spec => []Typed
  <1> QED  BY InitTyped, TypedStep, PTL DEF Spec

\* However many workers make their rounds, crash, or are paused until their leases run
\* out, the owner is told one thing at most once more often than there were faults.
THEOREM ToldOnceCorrect == Spec => []ToldOnce
  <1>1. Init => Covered
    BY DEF Init, Covered, Made
  <1>2. Typed /\ Covered => ToldOnce
    <2> SUFFICES ASSUME Typed, Covered, NEW t \in Tasks
                 PROVE  told[t] <= 1 + faults
      BY DEF ToldOnce
    <2>1. told[t] \in Nat /\ faults \in Nat
      BY DEF Typed
    <2>2. CASE t \in Made
      <3>1. told[t] + Cardinality(Tellers(t)) <= Allowed(t)
        BY <2>2 DEF Covered
      <3>2. Allowed(t) \in {faults, faults + 1}
        BY DEF Allowed
      <3> QED  BY <2>1, <3>1, <3>2, CountType
    <2>3. CASE t \notin Made
      BY <2>1, <2>3 DEF Typed
    <2> QED  BY <2>2, <2>3
  <1> QED  BY <1>1, <1>2, InitTyped, TypedStep, CoveredStep, PTL DEF Spec
=============================================================================
