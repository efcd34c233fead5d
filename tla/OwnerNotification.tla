-------------------------- MODULE OwnerNotification --------------------------
(***************************************************************************)
(* The messages to the owner                                               *)
(* (apps/api/src/services/owner-notification-service.ts): every round of a *)
(* worker takes the events that nobody has seen yet, makes a task of each  *)
(* for every channel that is switched on, and sends the tasks that are due.*)
(* Several workers make their rounds at the same time.                     *)
(*                                                                         *)
(* A task has a key: an event, a quarter of an hour in which a collector   *)
(* kept failing, or a test.  Leases and back-offs run out at any time.     *)
(***************************************************************************)
EXTENDS Naturals, FiniteSets

CONSTANTS
    Events,         \* numbered as the database does
    KindOf,         \* "success", "anomaly", "webhook", or "mock" for an event of a mock payment
    Quarters, Tests,
    Mediums,        \* the channels: EMAIL and FEISHU
    Workers, None,
    BATCH,          \* events of a round, 20 in the code
    LIMIT,          \* tasks of a round, 5 in the code
    MAX_ATTEMPTS,   \* 5 in the code
    MaxSources,     \* bound: events, quarters and tests
    MaxFailures,    \* bound: messages that are refused
    MaxTrouble      \* bound: changes of the settings, events deleted, workers lost or
                    \* paused for too long and answers lost, taken together

ASSUME OwnerAssumption ==
    /\ Events \subseteq Nat /\ IsFiniteSet(Events)
    /\ KindOf \in [Events -> {"success", "anomaly", "webhook", "mock"}]
    /\ {BATCH, LIMIT, MAX_ATTEMPTS} \subseteq Nat \ {0}
    /\ {MaxSources, MaxFailures, MaxTrouble} \subseteq Nat
    /\ IsFiniteSet(Workers) /\ None \notin Workers

VARIABLES
    enabled, chosen,    \* the settings: mediums, kinds of events
    there, seen,        \* the events on record, those with a marker
    failing, quarter,   \* a collector keeps failing; the present quarter, None before the first
    task,
    told,               \* not in the program: how often a message has arrived
    worker,
    saves, failures, faults

settingVars == <<enabled, chosen, saves>>
sourceVars == <<there, seen, failing, quarter>>
vars == <<settingVars, sourceVars, task, told, worker, failures, faults>>

Keys == Events \cup Quarters \cup Tests
Tasks == Keys \X Mediums
Kinds == {"success", "anomaly", "webhook", "collector"}
Final == {"SUCCESS", "DEAD", "CANCELLED"}

\* The columns of a task that the rounds read and write.
TaskRows ==
    [status : {"PENDING", "PROCESSING"} \cup Final, due : BOOLEAN, attempts : Nat,
     owner : Workers \cup {None}, live : BOOLEAN]

ASSUME RowAssumption == None \notin TaskRows

Fresh == [status |-> "PENDING", due |-> TRUE, attempts |-> 0, owner |-> None, live |-> FALSE]
Idle == [pc |-> "idle", batch |-> {}, todo |-> {}, task |-> None, attempts |-> 0]

Init ==
    /\ enabled = Mediums /\ chosen = Kinds
    /\ there = {} /\ seen = {}
    /\ failing = FALSE /\ quarter = None
    /\ task = [t \in Tasks |-> None] /\ told = [t \in Tasks |-> 0]
    /\ worker = [w \in Workers |-> Idle]
    /\ saves = 0 /\ failures = 0 /\ faults = 0

-----------------------------------------------------------------------------
(* What happens around the workers.                                        *)

\* Bound: what there is to tell.
Used == {k \in Quarters \cup Tests : k = quarter \/ \E m \in Mediums : task[<<k, m>>] # None}
FewSources == Cardinality(there) + Cardinality(Used) < MaxSources

\* An event is committed; not in the order of the numbers.
Happen(e) ==
    /\ e \notin there /\ FewSources
    /\ there' = there \cup {e}
    /\ UNCHANGED <<settingVars, seen, failing, quarter, task, told, worker, failures, faults>>

\* An archive of the application deletes an event, and its marker with it.
Vanish(e) ==
    /\ e \in there /\ saves + faults < MaxTrouble /\ saves' = saves + 1
    /\ there' = there \ {e} /\ seen' = seen \ {e}
    /\ UNCHANGED <<enabled, chosen, failing, quarter, task, told, worker, failures, faults>>

\* A collector fails three times in a row, or runs again; quarters go by.
CollectorFails(q) ==
    /\ ~(failing /\ q = quarter) /\ (q # quarter => q \notin Used /\ FewSources)
    /\ failing' = TRUE /\ quarter' = q
    /\ UNCHANGED <<settingVars, there, seen, task, told, worker, failures, faults>>

CollectorRuns ==
    /\ failing /\ failing' = FALSE
    /\ UNCHANGED <<settingVars, there, seen, quarter, task, told, worker, failures, faults>>

\* saveOwnerSettings, for an administrator who has seen the present revision.
SaveSettings ==
    /\ saves + faults < MaxTrouble /\ saves' = saves + 1
    /\ enabled' \in SUBSET Mediums /\ chosen' \in {Kinds, Kinds \ {"success"}}
    /\ UNCHANGED <<sourceVars, task, told, worker, failures, faults>>

\* testOwnerNotification; once a minute, which the number of tests stands for.
Test(k, m) ==
    /\ m \in enabled /\ task[<<k, m>>] = None /\ FewSources
    /\ task' = [task EXCEPT ![<<k, m>>] = Fresh]
    /\ UNCHANGED <<settingVars, sourceVars, told, worker, failures, faults>>

-----------------------------------------------------------------------------
(* A round: collectOwnerEvents.                                            *)

\* Mutant: a cursor, behind which nothing is expected any more.
AfterTheLast(S) ==
    LET after == {e \in S : \A f \in seen : f < e}
    IN {e \in after : Cardinality({f \in after : f < e}) < BATCH}

\* The events without a marker, in the order of their numbers; no cursor.
First(S) == {e \in S : Cardinality({f \in S : f < e}) < BATCH}

Read(w) ==
    /\ worker[w] = Idle
    /\ worker' = [worker EXCEPT ![w] = [Idle EXCEPT !.pc = "collect", !.batch = First(there \ seen)]]
    /\ UNCHANGED <<settingVars, sourceVars, task, told, failures, faults>>

\* selectedOwnerEvent
Selected(e) == KindOf[e] # "mock" /\ KindOf[e] \in chosen

\* One transaction under the lock of the settings: the events of the batch that are
\* still unseen, and a reminder of the quarter.  An event that is gone fails it.
Collect(w) ==
    LET new == worker[w].batch \ seen
        keys == {e \in new : Selected(e)}
                \cup (IF failing /\ "collector" \in chosen THEN {quarter} ELSE {})
    IN /\ worker[w].pc = "collect"
       /\ IF new \subseteq there
          THEN /\ seen' = seen \cup new
               /\ task' = [t \in Tasks |->
                    IF t \in keys \X enabled /\ task[t] = None THEN Fresh ELSE task[t]]
               /\ worker' = [worker EXCEPT ![w] = [Idle EXCEPT !.pc = "recover"]]
          ELSE worker' = [worker EXCEPT ![w] = Idle] /\ UNCHANGED <<seen, task>>
       /\ UNCHANGED <<settingVars, there, failing, quarter, told, failures, faults>>

-----------------------------------------------------------------------------
(* The rest of the round: runOwnerNotifications.                           *)

Made == {t \in Tasks : task[t] # None}

\* What was left by a worker whose lease has run out is due again.
Left(t) == task[t].status = "PROCESSING" /\ ~task[t].live

Recover(w) ==
    /\ worker[w].pc = "recover"
    /\ task' = [t \in Tasks |->
            IF t \in Made /\ Left(t) THEN [task[t] EXCEPT !.status = "PENDING", !.owner = None] ELSE task[t]]
    /\ worker' = [worker EXCEPT ![w].pc = "list"]
    /\ UNCHANGED <<settingVars, sourceVars, told, failures, faults>>

List(w) ==
    LET due == {t \in Made : task[t].status = "PENDING" /\ task[t].due}
    IN /\ worker[w].pc = "list"
       /\ \E todo \in SUBSET due :
            /\ Cardinality(todo) = IF Cardinality(due) < LIMIT THEN Cardinality(due) ELSE LIMIT
            /\ worker' = [worker EXCEPT ![w].pc = "next",
                                        ![w].todo = {[task |-> t, attempts |-> task[t].attempts] : t \in todo}]
       /\ UNCHANGED <<settingVars, sourceVars, task, told, failures, faults>>

\* Mutant: whatever was listed is taken.
FreeOrTaken(t) == task[t].status \in {"PENDING", "PROCESSING"}

\* The claim asks for the status alone, not for the time of the next attempt.
Free(t) == task[t].status = "PENDING"

Take(w) ==
    /\ worker[w].pc = "next"
    /\ \E i \in worker[w].todo :
        LET rest == [worker[w] EXCEPT !.todo = @ \ {i}]
        IN IF Free(i.task)
           THEN /\ task' = [task EXCEPT ![i.task].status = "PROCESSING", ![i.task].owner = w,
                                        ![i.task].live = TRUE, ![i.task].attempts = @ + 1]
                /\ worker' = [worker EXCEPT ![w] = [rest EXCEPT !.pc = "taken", !.task = i.task, !.attempts = i.attempts]]
           ELSE worker' = [worker EXCEPT ![w] = rest] /\ UNCHANGED task
    /\ UNCHANGED <<settingVars, sourceVars, told, failures, faults>>

EndRound(w) ==
    /\ worker[w].pc = "next" /\ worker[w].todo = {}
    /\ worker' = [worker EXCEPT ![w] = Idle]
    /\ UNCHANGED <<settingVars, sourceVars, task, told, failures, faults>>

Owned(w) == task[worker[w].task].status = "PROCESSING" /\ task[worker[w].task].owner = w

Onwards(w) == [worker[w] EXCEPT !.pc = "next", !.task = None, !.attempts = 0]
Settle(w, status, due) ==
    IF Owned(w) THEN [task EXCEPT ![worker[w].task].status = status, ![worker[w].task].due = due,
                                  ![worker[w].task].owner = None, ![worker[w].task].live = FALSE]
    ELSE task

\* The settings are read again; a channel that was switched off cancels the task.
Address(w) ==
    /\ worker[w].pc = "taken"
    /\ IF worker[w].task[2] \in enabled
       THEN worker' = [worker EXCEPT ![w].pc = "send"] /\ UNCHANGED task
       ELSE worker' = [worker EXCEPT ![w] = Onwards(w)] /\ task' = Settle(w, "CANCELLED", TRUE)
    /\ UNCHANGED <<settingVars, sourceVars, told, failures, faults>>

\* sendOwnerNotification: it arrives and is confirmed, it arrives and nobody knows, or
\* it is refused.
Send(w) ==
    /\ worker[w].pc = "send"
    /\ \E arrives, confirmed \in BOOLEAN :
        /\ confirmed => arrives
        /\ faults' = IF arrives /\ ~confirmed THEN faults + 1 ELSE faults
        /\ failures' = IF arrives THEN failures ELSE failures + 1
        /\ saves + faults' <= MaxTrouble /\ failures' <= MaxFailures
        /\ told' = IF arrives THEN [told EXCEPT ![worker[w].task] = @ + 1] ELSE told
        /\ worker' = [worker EXCEPT ![w].pc = IF confirmed THEN "sent" ELSE "failed"]
    /\ UNCHANGED <<settingVars, sourceVars, task>>

\* The last attempt is counted from what the list said, not from the row.
Record(w) ==
    /\ worker[w].pc \in {"sent", "failed"}
    /\ task' = IF worker[w].pc = "sent" THEN Settle(w, "SUCCESS", TRUE)
               ELSE IF worker[w].attempts + 1 >= MAX_ATTEMPTS THEN Settle(w, "DEAD", TRUE)
               ELSE Settle(w, "PENDING", FALSE)
    /\ worker' = [worker EXCEPT ![w] = Onwards(w)]
    /\ UNCHANGED <<settingVars, sourceVars, told, failures, faults>>

Step(w) ==
    \/ Read(w) \/ Collect(w) \/ Recover(w) \/ List(w) \/ Take(w) \/ EndRound(w)
    \/ Address(w) \/ Send(w) \/ Record(w)

-----------------------------------------------------------------------------
(* Time, and what goes wrong.                                              *)

BackoffEnds(t) ==
    /\ t \in Made /\ ~task[t].due
    /\ task' = [task EXCEPT ![t].due = TRUE]
    /\ UNCHANGED <<settingVars, sourceVars, told, worker, failures, faults>>

AtWork(t) == \E w \in Workers : worker[w].task = t /\ task[t].owner = w

\* The lease of two minutes: of a worker that is lost, or one that is paused for longer.
LeaseExpires(t) ==
    /\ t \in Made /\ task[t].live
    /\ faults' = IF AtWork(t) THEN faults + 1 ELSE faults
    /\ saves + faults' <= MaxTrouble
    /\ task' = [task EXCEPT ![t].live = FALSE]
    /\ UNCHANGED <<settingVars, sourceVars, told, worker, failures>>

Crash(w) ==
    /\ worker[w].pc # "idle" /\ saves + faults < MaxTrouble
    /\ faults' = faults + 1
    /\ worker' = [worker EXCEPT ![w] = Idle]
    /\ UNCHANGED <<settingVars, sourceVars, task, told, failures>>

Next ==
    \/ \E e \in Events : Happen(e) \/ Vanish(e)
    \/ \E q \in Quarters : CollectorFails(q)
    \/ CollectorRuns \/ SaveSettings
    \/ \E k \in Tests, m \in Mediums : Test(k, m)
    \/ \E w \in Workers : Step(w) \/ Crash(w)
    \/ \E t \in Tasks : BackoffEnds(t) \/ LeaseExpires(t)

Spec == Init /\ [][Next]_vars

\* The workers make their rounds for ever, and time goes by.
FairSpec ==
    /\ Spec
    /\ \A w \in Workers : WF_vars(Step(w))
    /\ \A t \in Tasks : WF_vars(BackoffEnds(t)) /\ WF_vars(LeaseExpires(t) /\ ~AtWork(t))

-----------------------------------------------------------------------------
(* What should hold.                                                       *)

\* A message is told twice only if a worker was lost, was paused for longer than its
\* lease, or did not hear the answer: two workers at work never tell it both
\* (docs/owner-notifications.md:27).
ToldOnce == \A t \in Tasks : told[t] <= 1 + faults

\* An event that stays on record is seen in the end, also when one with a higher number
\* was committed and collected before it or fills the batch; and its task for a channel,
\* which it has if the settings always asked for it, is sent, is given up after the last
\* attempt or is cancelled (owner-notification-service.ts:83-96).
EventIsHandled ==
    \A e \in Events :
        (e \in there) ~>
            \/ e \notin there
            \/ /\ e \in seen
               /\ \A m \in Mediums :
                    IF task[<<e, m>>] = None THEN saves > 0 \/ KindOf[e] = "mock"
                    ELSE task[<<e, m>>].status \in Final

=============================================================================
