--------------------------- MODULE ChannelInstance ---------------------------
(***************************************************************************)
(* The instances of the payment plugins, their settings and the evidence   *)
(* that the settings work (apps/api/src/services/                          *)
(* channel-instance-service.ts, channel-test-service.ts and                *)
(* bill-settings-service.ts), with what payment-service.ts asks of them.   *)
(*                                                                         *)
(* An instance is a row with a revision.  Saving it makes a new revision   *)
(* without evidence; a check asks the gateway with the saved settings; a   *)
(* test makes a real payment of a cent.  Both hold a lease of a minute on  *)
(* the row, during which it cannot be saved, and both may take longer than *)
(* that.  The settings are the receiving account (App ID, user, gateway    *)
(* and code, of which the program makes billIdentity) and the rest: a key  *)
(* and whether the account's ledger is collected or watched from outside.  *)
(***************************************************************************)
EXTENDS Naturals

CONSTANTS
    Channels, Legacy,   \* the instances; the one that was made from the environment
    PluginOf,           \* "ALIPAY", "ALIPAY_BILL" or "MOCK"
    None,               \* nothing: no row, no lease, not configured
    Accounts, Keys,     \* what an administrator may enter, None among it or not
    Payments,           \* numbered in the order in which they are made
    Workers,            \* the handlers of requests
    MaxRevision,        \* bound: revisions of each instance
    MaxFaults           \* bound: leases that run out, workers that are lost

ASSUME ChannelAssumption ==
    /\ Legacy \in Channels
    /\ PluginOf \in [Channels -> {"ALIPAY", "ALIPAY_BILL", "MOCK"}]
    /\ Payments \subseteq Nat \ {0}
    /\ MaxRevision \in [Channels -> Nat] /\ MaxFaults \in Nat
    /\ None \notin Channels \cup Workers \cup Nat

VARIABLES
    channel,    \* the row of an instance, None before it is made; checkedWith is not in it,
                \* but the settings with which the check of it was made
    payment,    \* [channel, account, used, status, rechecked], None before it is made
    assigned,   \* defaultChannelId of an application, None for an application of old
    worker,
    faults

vars == <<channel, payment, assigned, worker, faults>>

Settings == [account : Accounts, key : Keys, collects : BOOLEAN]

\* The columns that the handlers here read and write.
Texts == [account : Accounts \cup {None}, key : Keys \cup {None}, collects : BOOLEAN]
Rows ==
    [enabled : BOOLEAN, settings : Texts, revision : Nat,
     status : {"UNCHECKED", "SIMULATED", "NEEDS_PAYMENT", "API_VERIFIED", "FAILED"},
     checkRevision : Nat \cup {None}, checkedWith : Texts \cup {None},
     test : Payments \cup {None}, testRevision : Nat \cup {None},
     lease : Workers \cup {None}, locked : BOOLEAN]
PaymentRows ==
    [channel : Channels, account : Accounts \cup {None}, used : Texts \cup {None},
     status : {"PROCESSING", "SUCCESS", "FAILED", "CLOSED"}, rechecked : BOOLEAN]

ASSUME RowAssumption == None \notin Rows \cup PaymentRows

Open == {"CREATED", "PROCESSING", "UNKNOWN"}
Row(enabled, s, revision) ==
    [enabled |-> enabled, settings |-> s, revision |-> revision, status |-> "UNCHECKED",
     checkRevision |-> None, checkedWith |-> None, test |-> None, testRevision |-> None, lease |-> None, locked |-> FALSE]
Idle == [pc |-> "idle", channel |-> None, revision |-> 0, settings |-> None, payment |-> None]

\* ensureLegacyChannels has run: whatever the environment gave is a row.
Init ==
    /\ \E s \in Settings, enabled \in BOOLEAN :
        channel = [c \in Channels |-> IF c = Legacy THEN Row(enabled, s, 1) ELSE None]
    /\ payment = [p \in Payments |-> None]
    /\ assigned = None
    /\ worker = [w \in Workers |-> Idle]
    /\ faults = 0

-----------------------------------------------------------------------------
(* What a row says.                                                        *)

Made == {p \in Payments : payment[p] # None}
History(c) == {p \in Made : payment[p].channel = c}

\* verificationStatus: what the last check of this revision said, unless a test of
\* this revision has been paid since.
Status(c) ==
    LET row == channel[c]
        current == IF row.checkRevision = row.revision THEN row.status ELSE "UNCHECKED"
        paid == /\ row.testRevision = row.revision /\ PluginOf[c] # "MOCK"
                /\ payment[row.test].channel = c /\ payment[row.test].status = "SUCCESS"
    IN IF paid /\ ~(current = "FAILED" /\ payment[row.test].rechecked)
       THEN "PAYMENT_VERIFIED" ELSE current

\* assertChannelVerified
Verified(c) ==
    channel[c].enabled /\ Status(c) \in {"API_VERIFIED", "PAYMENT_VERIFIED", "SIMULATED"}

\* What mergeChannelSettings and mergeBillSettings ask of settings before they are
\* saved or checked.  A watcher from outside always has its token here.
Complete(c, s, enabled) ==
    CASE PluginOf[c] = "ALIPAY" -> enabled => s.account # None /\ s.key # None
      [] PluginOf[c] = "ALIPAY_BILL" -> /\ s.collects => s.account # None /\ s.key # None
                                        /\ enabled => s.account # None
      [] PluginOf[c] = "MOCK" -> TRUE

\* keyValue: a blank key keeps the old one, null clears it.
Merge(old, account, key, collects) ==
    [account |-> account, key |-> IF key = "blank" THEN old.key ELSE key, collects |-> collects]

-----------------------------------------------------------------------------
(* Saving.                                                                 *)

\* Mutant: a revision is an account's, and a new key is none.
RevisionOfAccount(c, s) ==
    IF s.account = channel[c].settings.account THEN channel[c].revision ELSE channel[c].revision + 1

NextRevision(c, s) == channel[c].revision + 1

Blank == [account |-> None, key |-> None, collects |-> FALSE]

\* Mutant: only the payments that are still open are looked for.
ChangesBetweenPayments(c) == \A p \in History(c) : payment[p].status \notin Open

\* The account of an instance stays once payments were made through it.
AccountMayChange(c) == History(c) = {}

\* One receiving account is one pool of amounts: no two instances of the bill share it.
AccountIsFree(c, account) ==
    (PluginOf[c] = "ALIPAY_BILL" /\ account # None) =>
        \A d \in Channels \ {c} :
            (channel[d] # None /\ PluginOf[d] = "ALIPAY_BILL") => channel[d].settings.account # account

\* saveChannel, for an administrator who has seen the present revision.
Save(c) ==
    \E account \in Accounts, key \in Keys \cup {"blank"}, collects, enabled \in BOOLEAN :
        LET old == IF channel[c] = None THEN Blank ELSE channel[c].settings
            new == IF PluginOf[c] = "MOCK" THEN Blank ELSE Merge(old, account, key, collects)
        IN /\ Complete(c, new, enabled)
           /\ AccountIsFree(c, new.account)
           /\ \/ /\ channel[c] = None
                 /\ channel' = [channel EXCEPT ![c] = Row(enabled, new, 1)]
              \/ /\ channel[c] # None /\ ~channel[c].locked
                 /\ channel[c].revision < MaxRevision[c]
                 /\ new.account # old.account => AccountMayChange(c)
                 /\ channel' = [channel EXCEPT ![c] =
                        [Row(enabled, new, NextRevision(c, new)) EXCEPT !.test = channel[c].test,
                                                                  !.lease = channel[c].lease]]
           /\ UNCHANGED <<payment, assigned, worker, faults>>

-----------------------------------------------------------------------------
(* The lease that checks and tests share.                                  *)

Claim(w, c, pc) ==
    /\ worker[w] = Idle /\ channel[c] # None /\ ~channel[c].locked
    /\ channel' = [channel EXCEPT ![c].lease = w, ![c].locked = TRUE]
    /\ worker' = [worker EXCEPT ![w] = [Idle EXCEPT !.pc = pc, !.channel = c, !.revision = channel[c].revision]]
    /\ UNCHANGED <<payment, assigned, faults>>

Holds(w) == channel[worker[w].channel].lease = w
SameRevision(w) == channel[worker[w].channel].revision = worker[w].revision

-----------------------------------------------------------------------------
(* Checking: checkChannel.                                                 *)

ClaimCheck(w, c) == Claim(w, c, "check")

LoadForCheck(w) ==
    /\ worker[w].pc = "check"
    /\ worker' = [worker EXCEPT ![w].pc = "ask", ![w].settings = channel[worker[w].channel].settings]
    /\ UNCHANGED <<channel, payment, assigned, faults>>

Outcomes(c, s) ==
    IF PluginOf[c] = "MOCK" THEN {"SIMULATED", "FAILED"}
    ELSE IF ~Complete(c, s, TRUE) THEN {"FAILED"}
    ELSE IF PluginOf[c] = "ALIPAY_BILL" /\ ~s.collects THEN {"NEEDS_PAYMENT"}
    ELSE {"API_VERIFIED", "FAILED"}

\* The result counts for the revision and the lease under which it was asked for.
ResultCounts(w) == Holds(w) /\ SameRevision(w)

FinishCheck(w) ==
    LET c == worker[w].channel
    IN /\ worker[w].pc = "ask"
       /\ \E outcome \in Outcomes(c, worker[w].settings) :
            /\ IF ResultCounts(w)
               THEN /\ channel' = [channel EXCEPT ![c].status = outcome, ![c].checkRevision = worker[w].revision,
                                                  ![c].checkedWith = worker[w].settings, ![c].lease = None, ![c].locked = FALSE]
                    /\ payment' = [p \in Payments |->
                            IF p \in History(c) THEN [payment[p] EXCEPT !.rechecked = TRUE] ELSE payment[p]]
               ELSE UNCHANGED <<channel, payment>>
       /\ worker' = [worker EXCEPT ![w] = Idle]
       /\ UNCHANGED <<assigned, faults>>

-----------------------------------------------------------------------------
(* Payments, as far as they touch an instance.                             *)

IsNext(p) == payment[p] = None /\ \A q \in Payments : q < p => payment[q] # None

\* The transaction of createPayment.
NewPayment(c, p) ==
    /\ IsNext(p)
    /\ payment' = [payment EXCEPT ![p] =
            [channel |-> c, account |-> channel[c].settings.account, used |-> None,
             status |-> "PROCESSING", rechecked |-> FALSE]]

\* A request of the application has been authenticated with the row of the moment.
PayReads(w) ==
    /\ worker[w] = Idle
    /\ worker' = [worker EXCEPT ![w].pc = "pay", ![w].channel = IF assigned = None THEN Legacy ELSE assigned,
                                ![w].revision = IF assigned = None THEN 0 ELSE 1]
    /\ UNCHANGED <<channel, payment, assigned, faults>>

\* Only an application with an instance of its own is held to the evidence.
HeldToEvidence(w) == worker[w].revision # 0

PayCommits(w) ==
    LET c == worker[w].channel
        accepted == channel[c].enabled /\ (HeldToEvidence(w) => Verified(c))
    IN /\ worker[w].pc = "pay"
       /\ IF accepted
          THEN \E p \in Payments :
                /\ NewPayment(c, p)
                /\ worker' = [worker EXCEPT ![w] = [Idle EXCEPT !.pc = "send", !.channel = c, !.payment = p]]
          ELSE worker' = [worker EXCEPT ![w] = Idle] /\ UNCHANGED payment
       /\ UNCHANGED <<channel, assigned, faults>>

\* adapterForPayment and the gateway's answer: the settings are read again, the
\* instance need not be enabled any more.  A test goes on to be recorded.
Send(w) ==
    LET p == worker[w].payment  c == worker[w].channel
    IN /\ worker[w].pc \in {"send", "sendTest"}
       /\ \E status \in {"PROCESSING", "FAILED"} :
            payment' = [payment EXCEPT ![p].used = channel[c].settings,
                                       ![p].status = IF @ = "PROCESSING" THEN status ELSE @]
       /\ worker' = [worker EXCEPT ![w] = IF worker[w].pc = "send" THEN Idle ELSE [@ EXCEPT !.pc = "record"]]
       /\ UNCHANGED <<channel, assigned, faults>>

\* The customer has paid and the payment has been confirmed.
Paid(p) ==
    /\ p \in Made /\ payment[p].status = "PROCESSING" /\ payment[p].used # None
    /\ payment' = [payment EXCEPT ![p].status = "SUCCESS", ![p].rechecked = FALSE]
    /\ UNCHANGED <<channel, assigned, worker, faults>>

-----------------------------------------------------------------------------
(* Testing: createChannelTest.                                             *)

ClaimTest(w, c) == channel[c] # None /\ channel[c].enabled /\ Claim(w, c, "test")

\* A test of this revision that is still open may be shown again; if not it is closed,
\* which may fail.
StartTest(w) ==
    LET row == channel[worker[w].channel]
        earlier == IF row.test # None /\ row.testRevision = worker[w].revision THEN {row.test} ELSE {}
        open == {p \in earlier : payment[p].status \in Open}
    IN /\ worker[w].pc = "test"
       /\ \E next \in IF open = {} THEN {"make"} ELSE {"make", "release"} :
            worker' = [worker EXCEPT ![w].pc = next]
       /\ \E closed \in SUBSET open :
            payment' = [p \in Payments |->
                IF p \in closed /\ worker'[w].pc = "make" THEN [payment[p] EXCEPT !.status = "CLOSED"] ELSE payment[p]]
       /\ UNCHANGED <<channel, assigned, faults>>

\* createPayment for the application of the tests, which needs no evidence.
MakeTest(w) ==
    LET c == worker[w].channel
    IN /\ worker[w].pc = "make"
       /\ IF channel[c].enabled
          THEN \E p \in Payments :
                NewPayment(c, p) /\ worker' = [worker EXCEPT ![w].pc = "sendTest", ![w].payment = p]
          ELSE worker' = [worker EXCEPT ![w].pc = "release"] /\ UNCHANGED payment
       /\ UNCHANGED <<channel, assigned, faults>>

RecordTest(w) ==
    LET c == worker[w].channel
    IN /\ worker[w].pc = "record"
       /\ channel' = IF ResultCounts(w)
                     THEN [channel EXCEPT ![c].test = worker[w].payment, ![c].testRevision = worker[w].revision]
                     ELSE channel
       /\ worker' = [worker EXCEPT ![w].pc = "release"]
       /\ UNCHANGED <<payment, assigned, faults>>

ReleaseTest(w) ==
    LET c == worker[w].channel
    IN /\ worker[w].pc = "release"
       /\ channel' = IF Holds(w) THEN [channel EXCEPT ![c].lease = None, ![c].locked = FALSE] ELSE channel
       /\ worker' = [worker EXCEPT ![w] = Idle]
       /\ UNCHANGED <<payment, assigned, faults>>

-----------------------------------------------------------------------------
(* Assigning an instance to the application: assignChannel.                *)

AssignReads(w, c) ==
    /\ worker[w] = Idle /\ channel[c] # None /\ Verified(c)
    /\ worker' = [worker EXCEPT ![w] = [Idle EXCEPT !.pc = "assign", !.channel = c, !.revision = channel[c].revision]]
    /\ UNCHANGED <<channel, payment, assigned, faults>>

AssignCommits(w) ==
    LET c == worker[w].channel
    IN /\ worker[w].pc = "assign"
       /\ assigned' = IF SameRevision(w) /\ Verified(c) THEN c ELSE assigned
       /\ worker' = [worker EXCEPT ![w] = Idle]
       /\ UNCHANGED <<channel, payment, faults>>

-----------------------------------------------------------------------------
(* What goes wrong.                                                        *)

\* A check or a test takes longer than its lease.
LeaseExpires(c) ==
    /\ faults < MaxFaults /\ channel[c] # None /\ channel[c].locked
    /\ channel' = [channel EXCEPT ![c].locked = FALSE]
    /\ faults' = faults + 1
    /\ UNCHANGED <<payment, assigned, worker>>

\* The handler is lost, and what it has claimed stays locked until the lease runs out.
Crash(w) ==
    /\ faults < MaxFaults /\ worker[w] # Idle
    /\ worker' = [worker EXCEPT ![w] = Idle]
    /\ faults' = faults + 1
    /\ UNCHANGED <<channel, payment, assigned>>

Check(w) == (\E c \in Channels : ClaimCheck(w, c)) \/ LoadForCheck(w) \/ FinishCheck(w)
Test(w) == (\E c \in Channels : ClaimTest(w, c)) \/ StartTest(w) \/ MakeTest(w) \/ RecordTest(w) \/ ReleaseTest(w)
Assign(w) == (\E c \in Channels : AssignReads(w, c)) \/ AssignCommits(w)
Pay(w) == PayReads(w) \/ PayCommits(w) \/ Send(w)

Next ==
    \/ \E c \in Channels : Save(c) \/ LeaseExpires(c)
    \/ \E p \in Payments : Paid(p)
    \/ \E w \in Workers : Check(w) \/ Test(w) \/ Assign(w) \/ Pay(w) \/ Crash(w)

Spec == Init /\ [][Next]_vars

-----------------------------------------------------------------------------
(* What should hold.                                                       *)

\* Settings that count as checked or as paid for are settings that the gateway has
\* answered for or through which a customer has paid: never those of an earlier
\* revision, whoever saved while a check or a test was on its way
\* (docs/plugin-channels.md:19 and :24).
EvidenceIsCurrent ==
    \A c \in Channels :
        channel[c] # None =>
            /\ Status(c) = "API_VERIFIED" => channel[c].checkedWith = channel[c].settings
            /\ Status(c) = "PAYMENT_VERIFIED" => payment[channel[c].test].used = channel[c].settings

\* The account of a payment stays the account of its instance, and of no other
\* instance of the bill: queries, refunds and the matching of amounts all go by the
\* instance (saveChannel; "do not represent one receiving account as two independent
\* amount pools").
AccountsStayApart ==
    \A p \in Made, c \in Channels :
        channel[c] # None =>
            /\ payment[p].channel = c => channel[c].settings.account = payment[p].account
            /\ (payment[p].account # None /\ PluginOf[c] = "ALIPAY_BILL" /\ PluginOf[payment[p].channel] = "ALIPAY_BILL"
                    /\ channel[c].settings.account = payment[p].account) => payment[p].channel = c

=============================================================================
