------------------------ MODULE ChannelInstanceProofs ------------------------
(***************************************************************************)
(* What a check and a test of an instance prove about its settings, and    *)
(* whose account a payment goes to, proved for every set of instances,     *)
(* payments and handlers, however many leases run out.                     *)
(***************************************************************************)
EXTENDS ChannelInstance, TLAPS

WorkerStates ==
    [pc : {"idle", "check", "ask", "pay", "send", "test", "make", "sendTest", "record",
           "release", "assign"},
     channel : Channels \cup {None}, revision : Nat, settings : Texts \cup {None},
     payment : Payments \cup {None}]

\* The handlers that hold a claim, and those that hold a payment of their own.
Claiming == {"check", "ask", "test", "make", "sendTest", "record", "release"}
Holding == {"send", "sendTest", "record"}

\* Rows and handlers have their types; what a row or a handler names was made.
Typed ==
    /\ channel \in [Channels -> Rows \cup {None}]
    /\ channel[Legacy] # None
    /\ payment \in [Payments -> PaymentRows \cup {None}]
    /\ assigned \in Channels \cup {None}
    /\ assigned # None => channel[assigned] # None
    /\ worker \in [Workers -> WorkerStates]
    /\ \A c \in Channels :
          (channel[c] # None /\ channel[c].test # None) => channel[c].test \in Made
    /\ \A w \in Workers :
          /\ worker[w].pc # "idle" =>
                 worker[w].channel \in Channels /\ channel[worker[w].channel] # None
          /\ worker[w].pc \in Claiming =>
                 worker[w].revision <= channel[worker[w].channel].revision
          /\ worker[w].pc \in Holding => worker[w].payment \in Made

\* No two handlers hold one payment.
Alone ==
    \A w, v \in Workers :
        (worker[w].pc \in Holding /\ worker[v].pc \in Holding /\ w # v) =>
            worker[w].payment # worker[v].payment

\* As long as an instance has the revision under which it was claimed, its settings are
\* those that the check has read and those that the test has used.
Knows ==
    \A w \in Workers :
        /\ (worker[w].pc = "ask" /\ SameRevision(w)) =>
               worker[w].settings = channel[worker[w].channel].settings
        /\ (worker[w].pc = "record" /\ SameRevision(w)) =>
               payment[worker[w].payment].used = channel[worker[w].channel].settings

\* Evidence of the present revision is about the present settings, and a test that
\* counts is one that nobody is about to send.
Proved ==
    \A c \in Channels :
        channel[c] # None =>
            /\ (channel[c].checkRevision = channel[c].revision /\ channel[c].status = "API_VERIFIED") =>
                   channel[c].checkedWith = channel[c].settings
            /\ channel[c].testRevision = channel[c].revision =>
                   /\ channel[c].test \in Made
                   /\ payment[channel[c].test].used = channel[c].settings
                   /\ \A w \in Workers :
                         worker[w].pc \in Holding \ {"record"} => worker[w].payment # channel[c].test

\* The account of a payment is its instance's, and instances of the bill share none.
Apart ==
    /\ \A p \in Made :
          /\ channel[payment[p].channel] # None
          /\ channel[payment[p].channel].settings.account = payment[p].account
    /\ \A c, d \in Channels :
          (/\ c # d /\ channel[c] # None /\ channel[d] # None
           /\ PluginOf[c] = "ALIPAY_BILL" /\ PluginOf[d] = "ALIPAY_BILL"
           /\ channel[c].settings.account # None) =>
              channel[c].settings.account # channel[d].settings.account

IInv == Typed /\ Alone /\ Knows /\ Proved /\ Apart

-----------------------------------------------------------------------------
(* What a step does to a row.                                              *)

\* Everything but the lease stays.
LeaseOnly(r, s) ==
    /\ s.settings = r.settings /\ s.revision = r.revision
    /\ s.status = r.status /\ s.checkRevision = r.checkRevision /\ s.checkedWith = r.checkedWith
    /\ s.test = r.test /\ s.testRevision = r.testRevision

\* A save makes a revision without evidence, of an account that may be had.
Saved(c) ==
    /\ channel'[c].revision = channel[c].revision + 1
    /\ channel'[c].checkRevision = None /\ channel'[c].testRevision = None
    /\ channel'[c].test = channel[c].test
    /\ channel'[c].settings.account # channel[c].settings.account => History(c) = {}
    /\ AccountIsFree(c, channel'[c].settings.account)
    /\ \A d \in Channels \ {c} : channel'[d] = channel[d]
    /\ UNCHANGED <<payment, worker>>

\* A check records its result.
Checked(c) ==
    /\ channel'[c].settings = channel[c].settings /\ channel'[c].revision = channel[c].revision
    /\ channel'[c].test = channel[c].test /\ channel'[c].testRevision = channel[c].testRevision
    /\ \E w \in Workers :
          /\ worker[w].pc = "ask" /\ worker[w].channel = c /\ SameRevision(w)
          /\ channel'[c].checkedWith = worker[w].settings

\* A test is recorded.
Recorded(c) ==
    /\ channel'[c].settings = channel[c].settings /\ channel'[c].revision = channel[c].revision
    /\ channel'[c].status = channel[c].status
    /\ channel'[c].checkRevision = channel[c].checkRevision
    /\ channel'[c].checkedWith = channel[c].checkedWith
    /\ \E w \in Workers :
          /\ worker[w].pc = "record" /\ worker[w].channel = c /\ SameRevision(w)
          /\ channel'[c].test = worker[w].payment
          /\ worker'[w].pc = "release" /\ \A v \in Workers \ {w} : worker'[v] = worker[v]
    /\ UNCHANGED payment

\* A row is made.
Created(c) ==
    /\ channel'[c].checkRevision = None /\ channel'[c].testRevision = None
    /\ channel'[c].test = None /\ channel'[c].revision = 1
    /\ AccountIsFree(c, channel'[c].settings.account)
    /\ \A d \in Channels \ {c} : channel'[d] = channel[d]
    /\ UNCHANGED <<payment, worker>>

LEMMA MergeTyped ==
    ASSUME NEW old \in Texts, NEW account \in Accounts, NEW key \in Keys \cup {"blank"},
           NEW collects \in BOOLEAN
    PROVE  Merge(old, account, key, collects) \in Texts
BY DEF Merge, Texts

LEMMA BlankTyped == Blank \in Texts
BY DEF Blank, Texts

LEMMA RowTyped ==
    ASSUME NEW enabled \in BOOLEAN, NEW s \in Texts, NEW r \in Nat
    PROVE  /\ Row(enabled, s, r) \in Rows /\ Row(enabled, s, r) # None
           /\ Row(enabled, s, r).settings = s /\ Row(enabled, s, r).revision = r
           /\ Row(enabled, s, r).checkRevision = None /\ Row(enabled, s, r).testRevision = None
           /\ Row(enabled, s, r).test = None
<1>1. Row(enabled, s, r) \in Rows BY DEF Row, Rows
<1>2. Row(enabled, s, r) # None BY <1>1, RowAssumption
<1> QED BY <1>1, <1>2 DEF Row

LEMMA SaveStep ==
    ASSUME Typed, NEW c \in Channels, Save(c)
    PROVE  /\ channel' \in [Channels -> Rows \cup {None}] /\ channel'[c] # None
           /\ IF channel[c] = None THEN Created(c) ELSE Saved(c)
<1> DEFINE old == IF channel[c] = None THEN Blank ELSE channel[c].settings
           new(account, key, collects) ==
               IF PluginOf[c] = "MOCK" THEN Blank ELSE Merge(old, account, key, collects)
<1>1. /\ channel \in [Channels -> Rows \cup {None}] BY DEF Typed
<1>2. PICK account \in Accounts, key \in Keys \cup {"blank"}, collects, enabled \in BOOLEAN :
        /\ Complete(c, new(account, key, collects), enabled)
        /\ AccountIsFree(c, new(account, key, collects).account)
        /\ \/ /\ channel[c] = None
              /\ channel' = [channel EXCEPT ![c] = Row(enabled, new(account, key, collects), 1)]
           \/ /\ channel[c] # None /\ ~channel[c].locked
              /\ channel[c].revision < MaxRevision[c]
              /\ new(account, key, collects).account # old.account => AccountMayChange(c)
              /\ channel' = [channel EXCEPT ![c] =
                    [Row(enabled, new(account, key, collects),
                         NextRevision(c, new(account, key, collects))) EXCEPT
                        !.test = channel[c].test, !.lease = channel[c].lease]]
        /\ UNCHANGED <<payment, assigned, worker, faults>>
  BY DEF Save
<1> DEFINE s == new(account, key, collects)
<1>3. old \in Texts BY <1>1, BlankTyped DEF Rows
<1>4. s \in Texts BY <1>3, BlankTyped, MergeTyped
<1>5. CASE channel[c] = None
  <2>1. /\ Row(enabled, s, 1) \in Rows /\ Row(enabled, s, 1) # None
        /\ Row(enabled, s, 1).settings = s /\ Row(enabled, s, 1).revision = 1
        /\ Row(enabled, s, 1).checkRevision = None /\ Row(enabled, s, 1).testRevision = None
        /\ Row(enabled, s, 1).test = None
    BY <1>4, RowTyped
  <2> HIDE DEF s
  <2>2. channel' = [channel EXCEPT ![c] = Row(enabled, s, 1)] BY <1>2, <1>5 DEF s
  <2>3. AccountIsFree(c, s.account) /\ UNCHANGED <<payment, worker>> BY <1>2 DEF s
  <2>4. channel'[c] = Row(enabled, s, 1) /\ \A d \in Channels \ {c} : channel'[d] = channel[d]
    BY <1>1, <2>2
  <2>5. channel' \in [Channels -> Rows \cup {None}] BY <1>1, <2>1, <2>2
  <2> QED BY <1>5, <2>1, <2>3, <2>4, <2>5 DEF Created
<1>6. CASE channel[c] # None
  <2> DEFINE row == [Row(enabled, s, NextRevision(c, s)) EXCEPT
                        !.test = channel[c].test, !.lease = channel[c].lease]
  <2>1. channel[c] \in Rows BY <1>1, <1>6
  <2>2. /\ row \in Rows /\ row.settings = s /\ row.revision = channel[c].revision + 1
        /\ row.checkRevision = None /\ row.testRevision = None /\ row.test = channel[c].test
    <3> HIDE DEF s
    <3> DEFINE r == Row(enabled, s, channel[c].revision + 1)
    <3>1. channel[c].revision \in Nat /\ channel[c].test \in Payments \cup {None}
          /\ channel[c].lease \in Workers \cup {None}
      BY <2>1 DEF Rows
    <3>2. r \in Rows /\ r.settings = s /\ r.revision = channel[c].revision + 1
          /\ r.checkRevision = None /\ r.testRevision = None
      BY <1>4, <3>1, RowTyped
    <3>3. row = [r EXCEPT !.test = channel[c].test, !.lease = channel[c].lease]
      BY DEF NextRevision
    <3> HIDE DEF r, row
    <3> QED BY <3>1, <3>2, <3>3 DEF Rows
  <2>3. /\ s.account # old.account => History(c) = {} BY <1>2, <1>6 DEF AccountMayChange
  <2>4. channel' = [channel EXCEPT ![c] = row] BY <1>2, <1>6, Zenon
  <2>5. AccountIsFree(c, s.account) /\ UNCHANGED <<payment, worker>> BY <1>2
  <2>6. old = channel[c].settings BY <1>6
  <2> HIDE DEF s, row, old
  <2>7. channel'[c] = row /\ \A d \in Channels \ {c} : channel'[d] = channel[d] BY <1>1, <2>4
  <2>8. channel' \in [Channels -> Rows \cup {None}] BY <1>1, <2>2, <2>4
  <2> QED BY <1>6, <2>2, <2>3, <2>5, <2>6, <2>7, <2>8, RowAssumption DEF Saved
<1> QED BY <1>5, <1>6

\* Whoever gives a lease or takes one leaves the rest of the row.
LEMMA LeaseStep ==
    ASSUME Typed, NEW c \in Channels, channel[c] # None, NEW l \in Workers \cup {None},
           NEW b \in BOOLEAN,
           \/ channel' = [channel EXCEPT ![c].lease = l, ![c].locked = b]
           \/ channel' = [channel EXCEPT ![c].locked = b]
    PROVE  /\ channel' \in [Channels -> Rows \cup {None}] /\ channel'[c] # None
           /\ LeaseOnly(channel[c], channel'[c])
           /\ \A d \in Channels \ {c} : channel'[d] = channel[d]
<1>1. channel \in [Channels -> Rows \cup {None}] /\ channel[c] \in Rows BY DEF Typed
<1>2. channel'[c] \in Rows /\ LeaseOnly(channel[c], channel'[c])
  <2>1. \/ channel'[c] = [channel[c] EXCEPT !.lease = l, !.locked = b]
        \/ channel'[c] = [channel[c] EXCEPT !.locked = b]
    BY <1>1
  <2> QED BY <1>1, <2>1 DEF Rows, LeaseOnly
<1>3. \A d \in Channels \ {c} : channel'[d] = channel[d] BY <1>1
<1>4. channel' \in [Channels -> Rows \cup {None}]
  <2>1. channel' = [d \in Channels |-> channel'[d]] BY <1>1
  <2>2. \A d \in Channels : channel'[d] \in Rows \cup {None} BY <1>1, <1>2, <1>3
  <2> QED BY <2>1, <2>2
<1> QED BY <1>2, <1>3, <1>4, RowAssumption


\* What can become of a row in one step.
RowMoves(c) ==
    \/ channel'[c] = channel[c]
    \/ channel[c] = None /\ channel'[c] # None /\ Created(c)
    \/ /\ channel[c] # None /\ channel'[c] # None
       /\ LeaseOnly(channel[c], channel'[c]) \/ Saved(c) \/ Checked(c) \/ Recorded(c)

LEMMA FinishCheckRows ==
    ASSUME Typed, NEW w \in Workers, FinishCheck(w)
    PROVE  channel' \in [Channels -> Rows \cup {None}] /\ \A c \in Channels : RowMoves(c)
<1> DEFINE c == worker[w].channel
<1>1. /\ channel \in [Channels -> Rows \cup {None}]
      /\ worker[w].pc = "ask" /\ worker[w] \in WorkerStates
      /\ c \in Channels /\ channel[c] \in Rows /\ channel[c] # None
  BY DEF Typed, FinishCheck
<1>2. PICK outcome \in Outcomes(c, worker[w].settings) :
        IF ResultCounts(w)
        THEN channel' = [channel EXCEPT ![c].status = outcome, ![c].checkRevision = worker[w].revision,
                                        ![c].checkedWith = worker[w].settings, ![c].lease = None, ![c].locked = FALSE]
        ELSE UNCHANGED channel
  BY DEF FinishCheck
<1>3. CASE ResultCounts(w)
  <2>1. outcome \in {"UNCHECKED", "SIMULATED", "NEEDS_PAYMENT", "API_VERIFIED", "FAILED"}
    BY <1>2 DEF Outcomes
  <2>2. worker[w].revision \in Nat /\ worker[w].settings \in Texts \cup {None}
    BY <1>1 DEF WorkerStates
  <2> DEFINE row == [channel[c] EXCEPT !.status = outcome, !.checkRevision = worker[w].revision,
                                       !.checkedWith = worker[w].settings, !.lease = None, !.locked = FALSE]
  <2>3. channel'[c] = row /\ \A d \in Channels \ {c} : channel'[d] = channel[d]
    BY <1>1, <1>2, <1>3
  <2>4. /\ row \in Rows /\ row.settings = channel[c].settings /\ row.revision = channel[c].revision
        /\ row.test = channel[c].test /\ row.testRevision = channel[c].testRevision
        /\ row.checkedWith = worker[w].settings
    <3> HIDE DEF c
    <3> QED BY <1>1, <2>1, <2>2 DEF Rows
  <2>5. row # None BY <2>4, RowAssumption
  <2>6. SameRevision(w) BY <1>3 DEF ResultCounts
  <2> HIDE DEF row
  <2>7. Checked(c) BY <1>1, <2>3, <2>4, <2>6 DEF Checked
  <2>8. channel' = [d \in Channels |-> channel'[d]] BY <1>1, <1>2, <1>3
  <2>9. \A d \in Channels : channel'[d] \in Rows \cup {None} BY <1>1, <2>3, <2>4
  <2>10. channel' \in [Channels -> Rows \cup {None}] BY <2>8, <2>9
  <2>11. \A d \in Channels : RowMoves(d)
    <3> HIDE DEF c
    <3> QED BY <1>1, <2>3, <2>5, <2>7 DEF RowMoves
  <2> QED BY <2>10, <2>11
<1> QED BY <1>1, <1>2, <1>3 DEF RowMoves

LEMMA RecordTestRows ==
    ASSUME Typed, NEW w \in Workers, RecordTest(w)
    PROVE  channel' \in [Channels -> Rows \cup {None}] /\ \A c \in Channels : RowMoves(c)
<1> DEFINE c == worker[w].channel
<1>1. /\ channel \in [Channels -> Rows \cup {None}] /\ worker \in [Workers -> WorkerStates]
      /\ worker[w].pc = "record" /\ worker[w] \in WorkerStates
      /\ c \in Channels /\ channel[c] \in Rows /\ channel[c] # None
      /\ worker[w].payment \in Payments
  BY DEF Typed, RecordTest, Holding, Made
<1>2. /\ channel' = IF ResultCounts(w)
                    THEN [channel EXCEPT ![c].test = worker[w].payment, ![c].testRevision = worker[w].revision]
                    ELSE channel
      /\ worker' = [worker EXCEPT ![w].pc = "release"]
      /\ UNCHANGED payment
  BY DEF RecordTest
<1>3. CASE ResultCounts(w)
  <2>1. worker[w].revision \in Nat BY <1>1 DEF WorkerStates
  <2> DEFINE row == [channel[c] EXCEPT !.test = worker[w].payment, !.testRevision = worker[w].revision]
  <2>2. channel'[c] = row /\ \A d \in Channels \ {c} : channel'[d] = channel[d]
    BY <1>1, <1>2, <1>3
  <2>3. /\ row \in Rows /\ row.settings = channel[c].settings /\ row.revision = channel[c].revision
        /\ row.status = channel[c].status /\ row.checkRevision = channel[c].checkRevision
        /\ row.checkedWith = channel[c].checkedWith /\ row.test = worker[w].payment
    <3> HIDE DEF c
    <3> QED BY <1>1, <2>1 DEF Rows
  <2>4. row # None BY <2>3, RowAssumption
  <2>5. SameRevision(w) BY <1>3 DEF ResultCounts
  <2>6. worker'[w].pc = "release" /\ \A v \in Workers \ {w} : worker'[v] = worker[v]
    BY <1>1, <1>2 DEF WorkerStates
  <2> HIDE DEF row
  <2>7. Recorded(c) BY <1>1, <1>2, <2>2, <2>3, <2>5, <2>6 DEF Recorded
  <2>8. channel' = [d \in Channels |-> channel'[d]] BY <1>1, <1>2, <1>3
  <2>9. \A d \in Channels : channel'[d] \in Rows \cup {None} BY <1>1, <2>2, <2>3
  <2>10. channel' \in [Channels -> Rows \cup {None}] BY <2>8, <2>9
  <2>11. \A d \in Channels : RowMoves(d)
    <3> HIDE DEF c
    <3> QED BY <1>1, <2>2, <2>4, <2>7 DEF RowMoves
  <2> QED BY <2>10, <2>11
<1> QED BY <1>1, <1>2, <1>3 DEF RowMoves

\* The rows keep their types, and each of them moves as it may.
LEMMA RowsStep ==
    ASSUME Typed, [Next]_vars
    PROVE  channel' \in [Channels -> Rows \cup {None}] /\ \A c \in Channels : RowMoves(c)
<1> DEFINE Good == channel' \in [Channels -> Rows \cup {None}] /\ \A c \in Channels : RowMoves(c)
<1>1. channel \in [Channels -> Rows \cup {None}] BY DEF Typed
<1>2. ASSUME NEW c \in Channels, Save(c) PROVE Good
  <2>1. /\ channel' \in [Channels -> Rows \cup {None}] /\ channel'[c] # None
        /\ IF channel[c] = None THEN Created(c) ELSE Saved(c)
    BY <1>2, SaveStep
  <2>2. \A d \in Channels \ {c} : channel'[d] = channel[d] BY <2>1 DEF Created, Saved
  <2> QED BY <2>1, <2>2 DEF RowMoves
<1>3. ASSUME NEW c \in Channels, channel[c] # None, NEW l \in Workers \cup {None}, NEW b \in BOOLEAN,
             \/ channel' = [channel EXCEPT ![c].lease = l, ![c].locked = b]
             \/ channel' = [channel EXCEPT ![c].locked = b]
      PROVE  Good
  <2>1. /\ channel' \in [Channels -> Rows \cup {None}] /\ channel'[c] # None
        /\ LeaseOnly(channel[c], channel'[c])
        /\ \A d \in Channels \ {c} : channel'[d] = channel[d]
    BY <1>3, LeaseStep
  <2> QED BY <1>3, <2>1 DEF RowMoves
<1>4. ASSUME UNCHANGED channel PROVE Good BY <1>1, <1>4 DEF RowMoves
<1> HIDE DEF Good
<1>5. ASSUME NEW c \in Channels, LeaseExpires(c) PROVE Good BY <1>3, <1>5 DEF LeaseExpires
<1>6. ASSUME NEW w \in Workers, NEW c \in Channels, ClaimCheck(w, c) \/ ClaimTest(w, c) PROVE Good
  BY <1>3, <1>6 DEF ClaimCheck, ClaimTest, Claim
<1>7. ASSUME NEW w \in Workers, ReleaseTest(w) PROVE Good
  <2>1. worker[w].channel \in Channels /\ channel[worker[w].channel] # None
    BY <1>7 DEF ReleaseTest, Typed
  <2>2. CASE Holds(w)
    <3>1. channel' = [channel EXCEPT ![worker[w].channel].lease = None, ![worker[w].channel].locked = FALSE]
      BY <1>7, <2>2 DEF ReleaseTest
    <3> QED BY <1>3, <2>1, <3>1
  <2> QED BY <1>4, <1>7, <2>2 DEF ReleaseTest
<1>8. ASSUME NEW w \in Workers, FinishCheck(w) PROVE Good BY <1>8, FinishCheckRows DEF Good
<1>9. ASSUME NEW w \in Workers, RecordTest(w) PROVE Good BY <1>9, RecordTestRows DEF Good
<1>10. ASSUME \/ \E p \in Payments : Paid(p)
              \/ \E w \in Workers : LoadForCheck(w) \/ StartTest(w) \/ MakeTest(w) \/ Assign(w)
                                    \/ Pay(w) \/ Crash(w)
              \/ UNCHANGED vars
       PROVE  UNCHANGED channel
  BY <1>10 DEF Paid, LoadForCheck, StartTest, MakeTest, Assign, AssignReads, AssignCommits, Pay,
               PayReads, PayCommits, Send, Crash, vars
<1> QED BY <1>2, <1>4, <1>5, <1>6, <1>7, <1>8, <1>9, <1>10 DEF Next, Check, Test, Good


-----------------------------------------------------------------------------
(* What a step does to a payment.                                          *)

\* A payment is made for an instance that is, and for its account of the moment.
New(p) ==
    /\ payment[p] = None /\ payment'[p] # None
    /\ payment'[p].channel \in Channels /\ channel[payment'[p].channel] # None
    /\ payment'[p].account = channel[payment'[p].channel].settings.account
    /\ UNCHANGED channel

\* It is sent with the settings of the moment by whoever holds it.
Sent(p) ==
    \E w \in Workers :
        /\ worker[w].pc \in {"send", "sendTest"} /\ worker[w].payment = p
        /\ UNCHANGED channel

PaymentMoves(p) ==
    \/ payment'[p] = payment[p]
    \/ New(p)
    \/ /\ payment[p] # None /\ payment'[p] # None
       /\ payment'[p].channel = payment[p].channel /\ payment'[p].account = payment[p].account
       /\ payment'[p].used = payment[p].used \/ Sent(p)

\* One handler moves, and goes on with what it has read or made.
WorkerMoves(w) ==
    /\ \A v \in Workers \ {w} : worker'[v] = worker[v]
    /\ worker'[w].channel \in Channels /\ channel[worker'[w].channel] # None
    /\ worker'[w].pc \in Claiming =>
           worker'[w].revision <= channel[worker'[w].channel].revision
    /\ \/ worker'[w].pc \notin Holding \cup {"ask"}
       \/ /\ worker'[w].pc = "ask" /\ UNCHANGED channel
          /\ worker'[w].settings = channel[worker'[w].channel].settings
       \/ /\ worker'[w].pc \in {"send", "sendTest"} /\ UNCHANGED channel
          /\ worker'[w].payment \in Payments /\ New(worker'[w].payment)
       \/ /\ worker'[w].pc = "record" /\ UNCHANGED channel
          /\ worker[w].pc = "sendTest" /\ worker'[w].payment = worker[w].payment
          /\ payment'[worker'[w].payment].used = channel[worker'[w].channel].settings

\* A handler that has not moved or has ended needs no more.
Rests(w) == worker'[w] = worker[w] \/ worker'[w].pc = "idle"

\* The payments and the handlers after a step.
Moves ==
    /\ payment' \in [Payments -> PaymentRows \cup {None}] /\ \A p \in Payments : PaymentMoves(p)
    /\ worker' \in [Workers -> WorkerStates]
    /\ \/ \A w \in Workers : Rests(w)
       \/ \E w \in Workers : WorkerMoves(w)

LEMMA NewPaymentMoves ==
    ASSUME Typed, NEW c \in Channels, channel[c] # None, NEW p \in Payments, NewPayment(c, p),
           UNCHANGED channel
    PROVE  /\ payment' \in [Payments -> PaymentRows \cup {None}] /\ New(p)
           /\ \A q \in Payments : PaymentMoves(q)
<1> DEFINE row == [channel |-> c, account |-> channel[c].settings.account, used |-> None,
                   status |-> "PROCESSING", rechecked |-> FALSE]
<1>1. /\ payment \in [Payments -> PaymentRows \cup {None}] /\ channel[c] \in Rows
      /\ payment[p] = None /\ payment' = [payment EXCEPT ![p] = row]
  BY DEF Typed, NewPayment, IsNext
<1>2. row \in PaymentRows BY <1>1 DEF Rows, Texts, PaymentRows
<1>3. row # None BY <1>2, RowAssumption
<1>4. row.channel = c /\ row.account = channel[c].settings.account OBVIOUS
<1> HIDE DEF row
<1>5. payment'[p] = row /\ \A q \in Payments \ {p} : payment'[q] = payment[q] BY <1>1
<1>6. New(p) BY <1>1, <1>3, <1>4, <1>5 DEF New
<1>7. payment' \in [Payments -> PaymentRows \cup {None}] BY <1>1, <1>2
<1> QED BY <1>5, <1>6, <1>7 DEF PaymentMoves

\* Payments whose status or mark changes keep the rest.
LEMMA RemarkedMoves ==
    ASSUME Typed, NEW P \in SUBSET Made,
           DOMAIN payment' = Payments, payment' = [p \in Payments |-> payment'[p]],
           \A p \in Payments \ P : payment'[p] = payment[p],
           \A p \in P : \E status \in {"PROCESSING", "SUCCESS", "FAILED", "CLOSED"}, b \in BOOLEAN :
               payment'[p] = [payment[p] EXCEPT !.status = status, !.rechecked = b]
    PROVE  /\ payment' \in [Payments -> PaymentRows \cup {None}]
           /\ \A q \in Payments : PaymentMoves(q)
<1>1. payment \in [Payments -> PaymentRows \cup {None}] BY DEF Typed
<1>2. ASSUME NEW p \in P PROVE payment'[p] \in PaymentRows /\ PaymentMoves(p)
  <2>1. PICK status \in {"PROCESSING", "SUCCESS", "FAILED", "CLOSED"}, b \in BOOLEAN :
            payment'[p] = [payment[p] EXCEPT !.status = status, !.rechecked = b]
    OBVIOUS
  <2>2. payment[p] \in PaymentRows /\ payment[p] # None BY <1>1 DEF Made
  <2>3. /\ payment'[p] \in PaymentRows
        /\ payment'[p].channel = payment[p].channel /\ payment'[p].account = payment[p].account
        /\ payment'[p].used = payment[p].used
    BY <2>1, <2>2 DEF PaymentRows
  <2> QED BY <2>2, <2>3, RowAssumption DEF PaymentMoves
<1>3. \A p \in Payments : payment'[p] \in PaymentRows \cup {None} BY <1>1, <1>2
<1> QED BY <1>2, <1>3 DEF PaymentMoves


\* One handler's state is replaced.
LEMMA OneMoves ==
    ASSUME Typed, NEW w \in Workers, NEW s \in WorkerStates, worker' = [worker EXCEPT ![w] = s]
    PROVE  /\ worker' \in [Workers -> WorkerStates] /\ worker'[w] = s
           /\ \A v \in Workers \ {w} : worker'[v] = worker[v]
BY DEF Typed

LEMMA IdleTyped == Idle \in WorkerStates /\ Idle.pc = "idle"
BY DEF Idle, WorkerStates

\* A handler ends, and no payment is touched.
LEMMA EndMoves ==
    ASSUME Typed, NEW w \in Workers, worker' = [worker EXCEPT ![w] = Idle],
           /\ payment' \in [Payments -> PaymentRows \cup {None}]
           /\ \A p \in Payments : PaymentMoves(p)
    PROVE  Moves
BY IdleTyped, OneMoves DEF Moves, Rests

\* A handler goes on to a step at which it holds nothing new.
LEMMA GoesOn ==
    ASSUME Typed, NEW w \in Workers, NEW s \in WorkerStates, worker' = [worker EXCEPT ![w] = s],
           s.channel \in Channels, channel[s.channel] # None,
           s.pc \in Claiming => s.revision <= channel[s.channel].revision,
           s.pc \notin Holding \cup {"ask"},
           /\ payment' \in [Payments -> PaymentRows \cup {None}]
           /\ \A p \in Payments : PaymentMoves(p)
    PROVE  Moves
<1>1. /\ worker' \in [Workers -> WorkerStates] /\ worker'[w] = s
      /\ \A v \in Workers \ {w} : worker'[v] = worker[v]
  BY OneMoves
<1>2. WorkerMoves(w) BY <1>1 DEF WorkerMoves
<1> QED BY <1>1, <1>2 DEF Moves

LEMMA PaymentsStay ==
    ASSUME Typed, UNCHANGED payment
    PROVE  /\ payment' \in [Payments -> PaymentRows \cup {None}]
           /\ \A p \in Payments : PaymentMoves(p)
BY DEF Typed, PaymentMoves

\* What is known of a handler that is at work.
LEMMA AtWork ==
    ASSUME Typed, NEW w \in Workers, worker[w].pc # "idle"
    PROVE  /\ worker[w] \in WorkerStates
           /\ worker[w].channel \in Channels /\ channel[worker[w].channel] # None
           /\ channel[worker[w].channel] \in Rows
           /\ worker[w].pc \in Claiming =>
                  worker[w].revision <= channel[worker[w].channel].revision
BY DEF Typed

LEMMA CheckMoves ==
    ASSUME Typed, NEW w \in Workers, Check(w)
    PROVE  Moves
<1>1. worker \in [Workers -> WorkerStates] BY DEF Typed
<1>2. ASSUME NEW c \in Channels, ClaimCheck(w, c) PROVE Moves
  <2> DEFINE s == [Idle EXCEPT !.pc = "check", !.channel = c, !.revision = channel[c].revision]
  <2>1. /\ channel[c] # None /\ channel[c] \in Rows /\ UNCHANGED payment
        /\ worker' = [worker EXCEPT ![w] = s]
    BY <1>2 DEF ClaimCheck, Claim, Typed
  <2>2. channel[c].revision \in Nat /\ channel[c].revision <= channel[c].revision
    BY <2>1 DEF Rows
  <2>3. /\ s \in WorkerStates /\ s.channel = c /\ s.revision = channel[c].revision
        /\ s.pc = "check"
    BY <2>2 DEF Idle, WorkerStates
  <2> HIDE DEF s
  <2>4. s.pc \notin Holding \cup {"ask"} BY <2>3 DEF Holding
  <2> QED BY <2>1, <2>2, <2>3, <2>4, PaymentsStay, GoesOn
<1>3. CASE LoadForCheck(w)
  <2> DEFINE c == worker[w].channel
             s == [worker[w] EXCEPT !.pc = "ask", !.settings = channel[c].settings]
  <2>1. /\ worker[w].pc = "check" /\ UNCHANGED <<payment, channel>>
        /\ worker' = [worker EXCEPT ![w] = s]
    BY <1>1, <1>3 DEF LoadForCheck
  <2>2. /\ worker[w] \in WorkerStates /\ c \in Channels /\ channel[c] # None /\ channel[c] \in Rows
        /\ worker[w].revision <= channel[c].revision
    BY <2>1, AtWork DEF Claiming
  <2>3. /\ s \in WorkerStates /\ s.channel = c /\ s.revision = worker[w].revision
        /\ s.pc = "ask" /\ s.settings = channel[c].settings
    BY <2>2 DEF WorkerStates, Rows
  <2> HIDE DEF s
  <2>4. /\ worker' \in [Workers -> WorkerStates] /\ worker'[w] = s
        /\ \A v \in Workers \ {w} : worker'[v] = worker[v]
    BY <2>1, <2>3, OneMoves
  <2>5. WorkerMoves(w) BY <2>1, <2>2, <2>3, <2>4 DEF WorkerMoves
  <2> QED BY <2>1, <2>4, <2>5, PaymentsStay DEF Moves
<1>4. CASE FinishCheck(w)
  <2>1. worker' = [worker EXCEPT ![w] = Idle] BY <1>4 DEF FinishCheck
  <2>2. CASE UNCHANGED payment BY <2>1, <2>2, PaymentsStay, EndMoves
  <2>3. CASE payment' = [p \in Payments |->
                            IF p \in History(worker[w].channel)
                            THEN [payment[p] EXCEPT !.rechecked = TRUE] ELSE payment[p]]
    <3> DEFINE P == History(worker[w].channel)
    <3>1. P \in SUBSET Made BY DEF History
    <3>2. \A p \in P : \E status \in {"PROCESSING", "SUCCESS", "FAILED", "CLOSED"}, b \in BOOLEAN :
              payment'[p] = [payment[p] EXCEPT !.status = status, !.rechecked = b]
      <4> SUFFICES ASSUME NEW p \in P
                   PROVE  \E status \in {"PROCESSING", "SUCCESS", "FAILED", "CLOSED"}, b \in BOOLEAN :
                              payment'[p] = [payment[p] EXCEPT !.status = status, !.rechecked = b]
        OBVIOUS
      <4>1. payment[p] \in PaymentRows BY <3>1 DEF Typed, Made
      <4>2. payment'[p] = [payment[p] EXCEPT !.rechecked = TRUE] BY <2>3, <3>1 DEF Made
      <4>3. payment'[p] = [payment[p] EXCEPT !.status = payment[p].status, !.rechecked = TRUE]
        BY <4>1, <4>2 DEF PaymentRows
      <4>4. payment[p].status \in {"PROCESSING", "SUCCESS", "FAILED", "CLOSED"} BY <4>1 DEF PaymentRows
      <4> QED BY <4>3, <4>4
    <3>3. \A p \in Payments \ P : payment'[p] = payment[p] BY <2>3
    <3>4. DOMAIN payment' = Payments /\ payment' = [p \in Payments |-> payment'[p]] BY <2>3
    <3> HIDE DEF P
    <3>5. /\ payment' \in [Payments -> PaymentRows \cup {None}]
          /\ \A q \in Payments : PaymentMoves(q)
      BY <3>1, <3>2, <3>3, <3>4, RemarkedMoves
    <3> QED BY <2>1, <3>5, EndMoves
  <2> QED BY <1>4, <2>2, <2>3 DEF FinishCheck
<1> QED BY <1>2, <1>3, <1>4 DEF Check


\* Sending: the payment has been used with the settings of the moment.
LEMMA SendMoves ==
    ASSUME Typed, NEW w \in Workers, Send(w)
    PROVE  Moves
<1> DEFINE p == worker[w].payment
           c == worker[w].channel
<1>1. PICK status \in {"PROCESSING", "FAILED"} :
        payment' = [payment EXCEPT ![p].used = channel[c].settings,
                                   ![p].status = IF @ = "PROCESSING" THEN status ELSE @]
  BY DEF Send
<1>2. /\ worker \in [Workers -> WorkerStates] /\ payment \in [Payments -> PaymentRows \cup {None}]
      /\ worker[w].pc \in {"send", "sendTest"} /\ UNCHANGED channel
      /\ worker' = [worker EXCEPT ![w] = IF worker[w].pc = "send" THEN Idle
                                         ELSE [worker[w] EXCEPT !.pc = "record"]]
  BY DEF Send, Typed
<1>3. /\ worker[w] \in WorkerStates /\ c \in Channels /\ channel[c] # None /\ channel[c] \in Rows
  BY <1>2, AtWork
<1>4. p \in Payments /\ payment[p] # None /\ payment[p] \in PaymentRows
  BY <1>2 DEF Typed, Holding, Made
<1>5. /\ payment'[p] \in PaymentRows /\ payment'[p].used = channel[c].settings
      /\ payment'[p].channel = payment[p].channel /\ payment'[p].account = payment[p].account
  <2> DEFINE next == IF payment[p].status = "PROCESSING" THEN status ELSE payment[p].status
  <2>1. payment'[p] = [payment[p] EXCEPT !.used = channel[c].settings, !.status = next]
    <3> HIDE DEF c
    <3> QED BY <1>1, <1>2, <1>4 DEF PaymentRows
  <2>2. next \in {"PROCESSING", "SUCCESS", "FAILED", "CLOSED"} BY <1>4 DEF PaymentRows
  <2>3. channel[c].settings \in Texts BY <1>3 DEF Rows
  <2> HIDE DEF p, c, next
  <2> QED BY <1>4, <2>1, <2>2, <2>3 DEF PaymentRows
<1>6. \A q \in Payments \ {p} : payment'[q] = payment[q] BY <1>1, <1>2
<1>7. /\ payment' \in [Payments -> PaymentRows \cup {None}]
      /\ \A q \in Payments : PaymentMoves(q)
  <2>1. payment'[p] # None BY <1>5, RowAssumption
  <2>2. Sent(p) BY <1>2 DEF Sent
  <2>3. PaymentMoves(p) BY <1>4, <1>5, <2>1, <2>2 DEF PaymentMoves
  <2>4. payment' = [q \in Payments |-> payment'[q]] BY <1>1, <1>2
  <2>5. \A q \in Payments : payment'[q] \in PaymentRows \cup {None} BY <1>2, <1>5, <1>6
  <2>6. payment' \in [Payments -> PaymentRows \cup {None}] BY <2>4, <2>5
  <2>7. \A q \in Payments : PaymentMoves(q) BY <1>6, <2>3 DEF PaymentMoves
  <2> QED BY <2>6, <2>7
<1>8. CASE worker[w].pc = "send" BY <1>2, <1>7, <1>8, EndMoves
<1>9. CASE worker[w].pc = "sendTest"
  <2> DEFINE s == [worker[w] EXCEPT !.pc = "record"]
  <2>1. worker' = [worker EXCEPT ![w] = s] BY <1>2, <1>9
  <2>2. /\ s \in WorkerStates /\ s.pc = "record" /\ s.channel = c /\ s.payment = p
        /\ s.revision = worker[w].revision
    BY <1>3 DEF WorkerStates
  <2>3. worker[w].revision <= channel[c].revision BY <1>9, AtWork DEF Claiming
  <2> HIDE DEF s
  <2>4. /\ worker' \in [Workers -> WorkerStates] /\ worker'[w] = s
        /\ \A v \in Workers \ {w} : worker'[v] = worker[v]
    BY <2>1, <2>2, OneMoves
  <2>5. WorkerMoves(w) BY <1>2, <1>3, <1>5, <1>9, <2>2, <2>3, <2>4 DEF WorkerMoves
  <2> QED BY <1>7, <2>4, <2>5 DEF Moves
<1> QED BY <1>2, <1>8, <1>9

LEMMA PayMoves ==
    ASSUME Typed, NEW w \in Workers, Pay(w)
    PROVE  Moves
<1>1. worker \in [Workers -> WorkerStates] BY DEF Typed
<1>2. CASE PayReads(w)
  <2> DEFINE c == IF assigned = None THEN Legacy ELSE assigned
             r == IF assigned = None THEN 0 ELSE 1
             s == [Idle EXCEPT !.pc = "pay", !.channel = c, !.revision = r]
  <2>1. worker' = [worker EXCEPT ![w] = s] /\ UNCHANGED payment
    BY <1>1, <1>2 DEF PayReads, Idle
  <2>2. c \in Channels /\ channel[c] # None BY ChannelAssumption DEF Typed
  <2>3. s \in WorkerStates /\ s.pc = "pay" /\ s.channel = c
    <3>1. r \in Nat OBVIOUS
    <3> HIDE DEF c, r
    <3> QED BY <2>2, <3>1 DEF Idle, WorkerStates
  <2> HIDE DEF s, c
  <2>4. s.pc \notin Claiming \cup Holding \cup {"ask"} BY <2>3 DEF Claiming, Holding
  <2> QED BY <2>1, <2>2, <2>3, <2>4, PaymentsStay, GoesOn
<1>3. CASE PayCommits(w)
  <2> DEFINE c == worker[w].channel
  <2>1. /\ c \in Channels /\ channel[c] # None /\ UNCHANGED channel
    BY <1>3, AtWork DEF PayCommits
  <2>2. CASE worker' = [worker EXCEPT ![w] = Idle] /\ UNCHANGED payment
    BY <2>2, PaymentsStay, EndMoves
  <2>3. ASSUME NEW p \in Payments, NewPayment(c, p),
               worker' = [worker EXCEPT ![w] = [Idle EXCEPT !.pc = "send", !.channel = c, !.payment = p]]
        PROVE  Moves
    <3> DEFINE s == [Idle EXCEPT !.pc = "send", !.channel = c, !.payment = p]
    <3>1. s \in WorkerStates /\ s.pc = "send" /\ s.channel = c /\ s.payment = p
      <4> HIDE DEF c
      <4> QED BY <2>1 DEF Idle, WorkerStates
    <3>2. /\ payment' \in [Payments -> PaymentRows \cup {None}] /\ New(p)
          /\ \A q \in Payments : PaymentMoves(q)
      BY <2>1, <2>3, NewPaymentMoves
    <3> HIDE DEF s
    <3>3. /\ worker' \in [Workers -> WorkerStates] /\ worker'[w] = s
          /\ \A v \in Workers \ {w} : worker'[v] = worker[v]
      BY <2>3, <3>1, OneMoves DEF s
    <3>4. WorkerMoves(w) BY <2>1, <3>1, <3>2, <3>3 DEF WorkerMoves, Claiming
    <3> QED BY <3>2, <3>3, <3>4 DEF Moves
  <2> QED BY <1>3, <2>2, <2>3 DEF PayCommits
<1> QED BY <1>2, <1>3, SendMoves DEF Pay


\* A handler of a test goes on to a step at which it holds nothing new.
LEMMA NextStep ==
    ASSUME Typed, NEW w \in Workers, worker[w].pc \in Claiming, NEW next \in {"make", "release"},
           worker' = [worker EXCEPT ![w].pc = next],
           /\ payment' \in [Payments -> PaymentRows \cup {None}]
           /\ \A p \in Payments : PaymentMoves(p)
    PROVE  Moves
<1> DEFINE s == [worker[w] EXCEPT !.pc = next]
<1>1. worker[w].pc # "idle" BY DEF Claiming
<1>2. /\ worker[w] \in WorkerStates
      /\ worker[w].channel \in Channels /\ channel[worker[w].channel] # None
      /\ worker[w].revision <= channel[worker[w].channel].revision
  BY <1>1, AtWork
<1>3. /\ s \in WorkerStates /\ s.pc = next /\ s.channel = worker[w].channel
      /\ s.revision = worker[w].revision
  BY <1>2 DEF WorkerStates
<1>4. worker' = [worker EXCEPT ![w] = s] BY DEF Typed
<1> HIDE DEF s
<1>5. s.pc \notin Holding \cup {"ask"} BY <1>3 DEF Holding
<1>6. /\ s.channel \in Channels /\ channel[s.channel] # None
      /\ s.revision <= channel[s.channel].revision
  BY <1>2, <1>3
<1> QED BY <1>3, <1>4, <1>5, <1>6, GoesOn

LEMMA TestMoves ==
    ASSUME Typed, NEW w \in Workers, Test(w)
    PROVE  Moves
<1>1. worker \in [Workers -> WorkerStates] BY DEF Typed
<1>2. ASSUME NEW c \in Channels, ClaimTest(w, c) PROVE Moves
  <2> DEFINE s == [Idle EXCEPT !.pc = "test", !.channel = c, !.revision = channel[c].revision]
  <2>1. /\ channel[c] # None /\ channel[c] \in Rows /\ UNCHANGED payment
        /\ worker' = [worker EXCEPT ![w] = s]
    BY <1>2 DEF ClaimTest, Claim, Typed
  <2>2. channel[c].revision \in Nat /\ channel[c].revision <= channel[c].revision
    BY <2>1 DEF Rows
  <2>3. /\ s \in WorkerStates /\ s.channel = c /\ s.revision = channel[c].revision
        /\ s.pc = "test"
    BY <2>2 DEF Idle, WorkerStates
  <2> HIDE DEF s
  <2>4. s.pc \notin Holding \cup {"ask"} BY <2>3 DEF Holding
  <2> QED BY <2>1, <2>2, <2>3, <2>4, PaymentsStay, GoesOn
<1>3. CASE StartTest(w)
  <2> DEFINE row == channel[worker[w].channel]
             earlier == IF row.test # None /\ row.testRevision = worker[w].revision THEN {row.test} ELSE {}
             open == {p \in earlier : payment[p].status \in Open}
  <2>1. worker[w].pc \in Claiming BY <1>3 DEF StartTest, Claiming
  <2>2. row \in Rows
    <3>1. worker[w].pc # "idle" BY <2>1 DEF Claiming
    <3> QED BY <3>1, AtWork
  <2>3. PICK next \in {"make", "release"} : worker' = [worker EXCEPT ![w].pc = next]
    BY <1>3 DEF StartTest
  <2>4. PICK closed \in SUBSET open :
          payment' = [p \in Payments |->
                IF p \in closed /\ worker'[w].pc = "make" THEN [payment[p] EXCEPT !.status = "CLOSED"] ELSE payment[p]]
    BY <1>3 DEF StartTest
  <2>5. closed \in SUBSET Payments BY <2>2, <2>4 DEF Rows
  <2>6. /\ payment' \in [Payments -> PaymentRows \cup {None}]
        /\ \A p \in Payments : PaymentMoves(p)
    <3> DEFINE P == {p \in closed : payment[p] # None /\ worker'[w].pc = "make"}
    <3>1. P \in SUBSET Made BY <2>5 DEF Made
    <3>2. \A p \in closed : payment[p] # None
      <4> SUFFICES ASSUME NEW p \in closed PROVE payment[p] # None
        OBVIOUS
      <4>1. p = row.test /\ row.test # None BY <2>4
      <4>2. worker[w].channel \in Channels /\ row # None
        <5>1. worker[w].pc # "idle" BY <2>1 DEF Claiming
        <5> QED BY <5>1, AtWork
      <4> QED BY <4>1, <4>2 DEF Typed, Made
    <3>3. \A p \in Payments \ P : payment'[p] = payment[p] BY <2>4, <3>2
    <3>4. \A p \in P : \E status \in {"PROCESSING", "SUCCESS", "FAILED", "CLOSED"}, b \in BOOLEAN :
              payment'[p] = [payment[p] EXCEPT !.status = status, !.rechecked = b]
      <4> SUFFICES ASSUME NEW p \in P
                   PROVE  \E status \in {"PROCESSING", "SUCCESS", "FAILED", "CLOSED"}, b \in BOOLEAN :
                              payment'[p] = [payment[p] EXCEPT !.status = status, !.rechecked = b]
        OBVIOUS
      <4>1. payment[p] \in PaymentRows BY <3>1 DEF Typed, Made
      <4>2. payment'[p] = [payment[p] EXCEPT !.status = "CLOSED"] BY <2>4, <3>1 DEF Made
      <4>3. payment'[p] = [payment[p] EXCEPT !.status = "CLOSED", !.rechecked = payment[p].rechecked]
        BY <4>1, <4>2 DEF PaymentRows
      <4>4. payment[p].rechecked \in BOOLEAN BY <4>1 DEF PaymentRows
      <4> QED BY <4>3, <4>4
    <3>5. DOMAIN payment' = Payments /\ payment' = [p \in Payments |-> payment'[p]] BY <2>4
    <3> HIDE DEF P
    <3> QED BY <3>1, <3>3, <3>4, <3>5, RemarkedMoves
  <2> QED BY <2>1, <2>3, <2>6, NextStep
<1>4. CASE MakeTest(w)
  <2> DEFINE c == worker[w].channel
  <2>1. /\ worker[w].pc = "make" /\ worker[w].pc \in Claiming /\ UNCHANGED channel
        /\ worker[w] \in WorkerStates /\ c \in Channels /\ channel[c] # None
        /\ worker[w].revision <= channel[c].revision
    BY <1>4, AtWork DEF MakeTest, Claiming
  <2>2. CASE worker' = [worker EXCEPT ![w].pc = "release"] /\ UNCHANGED payment
    BY <2>1, <2>2, PaymentsStay, NextStep
  <2>3. ASSUME NEW p \in Payments, NewPayment(c, p),
               worker' = [worker EXCEPT ![w].pc = "sendTest", ![w].payment = p]
        PROVE  Moves
    <3> DEFINE s == [worker[w] EXCEPT !.pc = "sendTest", !.payment = p]
    <3>1. worker' = [worker EXCEPT ![w] = s] BY <1>1, <2>3
    <3>2. /\ s \in WorkerStates /\ s.pc = "sendTest" /\ s.channel = c /\ s.payment = p
          /\ s.revision = worker[w].revision
      BY <2>1 DEF WorkerStates
    <3>3. /\ payment' \in [Payments -> PaymentRows \cup {None}] /\ New(p)
          /\ \A q \in Payments : PaymentMoves(q)
      BY <2>1, <2>3, NewPaymentMoves
    <3> HIDE DEF s
    <3>4. /\ worker' \in [Workers -> WorkerStates] /\ worker'[w] = s
          /\ \A v \in Workers \ {w} : worker'[v] = worker[v]
      BY <3>1, <3>2, OneMoves
    <3>5. WorkerMoves(w) BY <2>1, <3>2, <3>3, <3>4 DEF WorkerMoves
    <3> QED BY <3>3, <3>4, <3>5 DEF Moves
  <2> QED BY <1>4, <2>2, <2>3 DEF MakeTest
<1>5. CASE RecordTest(w)
  <2>1. worker[w].pc \in Claiming /\ UNCHANGED payment /\ worker' = [worker EXCEPT ![w].pc = "release"]
    BY <1>5 DEF RecordTest, Claiming
  <2> QED BY <2>1, PaymentsStay, NextStep
<1>6. CASE ReleaseTest(w)
  BY <1>6, PaymentsStay, EndMoves DEF ReleaseTest
<1> QED BY <1>2, <1>3, <1>4, <1>5, <1>6 DEF Test

LEMMA AssignMoves ==
    ASSUME Typed, NEW w \in Workers, Assign(w)
    PROVE  Moves
<1>1. ASSUME NEW c \in Channels, AssignReads(w, c) PROVE Moves
  <2> DEFINE s == [Idle EXCEPT !.pc = "assign", !.channel = c, !.revision = channel[c].revision]
  <2>1. /\ channel[c] # None /\ channel[c] \in Rows /\ UNCHANGED payment
        /\ worker' = [worker EXCEPT ![w] = s]
    BY <1>1 DEF AssignReads, Typed
  <2>2. channel[c].revision \in Nat BY <2>1 DEF Rows
  <2>3. s \in WorkerStates /\ s.channel = c /\ s.pc = "assign" BY <2>2 DEF Idle, WorkerStates
  <2> HIDE DEF s
  <2>4. s.pc \notin Claiming \cup Holding \cup {"ask"} BY <2>3 DEF Claiming, Holding
  <2> QED BY <2>1, <2>3, <2>4, PaymentsStay, GoesOn
<1>2. CASE AssignCommits(w) BY <1>2, PaymentsStay, EndMoves DEF AssignCommits
<1> QED BY <1>1, <1>2 DEF Assign

\* The payments and the handlers keep their types, and move as they may.
LEMMA MovesStep ==
    ASSUME Typed, [Next]_vars
    PROVE  Moves
<1>1. ASSUME UNCHANGED <<payment, worker>> PROVE Moves
  BY <1>1, PaymentsStay DEF Typed, Moves, Rests
<1>2. ASSUME NEW p \in Payments, Paid(p) PROVE Moves
  <2>1. /\ payment \in [Payments -> PaymentRows \cup {None}] /\ UNCHANGED worker
        /\ p \in Made /\ payment' = [payment EXCEPT ![p].status = "SUCCESS", ![p].rechecked = FALSE]
    BY <1>2 DEF Paid, Typed
  <2>2. payment'[p] = [payment[p] EXCEPT !.status = "SUCCESS", !.rechecked = FALSE] BY <2>1
  <2>3. \A q \in Payments \ {p} : payment'[q] = payment[q] BY <2>1
  <2>4. DOMAIN payment' = Payments /\ payment' = [q \in Payments |-> payment'[q]] BY <2>1
  <2>5. {p} \in SUBSET Made BY <2>1
  <2>6. \A q \in {p} : \E status \in {"PROCESSING", "SUCCESS", "FAILED", "CLOSED"}, b \in BOOLEAN :
            payment'[q] = [payment[q] EXCEPT !.status = status, !.rechecked = b]
    BY <2>2
  <2>7. /\ payment' \in [Payments -> PaymentRows \cup {None}]
        /\ \A q \in Payments : PaymentMoves(q)
    BY <2>3, <2>4, <2>5, <2>6, RemarkedMoves
  <2> QED BY <2>1, <2>7 DEF Typed, Moves, Rests
<1>3. ASSUME NEW w \in Workers, Crash(w) PROVE Moves
  BY <1>3, PaymentsStay, EndMoves DEF Crash
<1>4. ASSUME NEW c \in Channels, Save(c) \/ LeaseExpires(c) PROVE UNCHANGED <<payment, worker>>
  BY <1>4 DEF Save, LeaseExpires
<1>5. ASSUME UNCHANGED vars PROVE UNCHANGED <<payment, worker>> BY <1>5 DEF vars
<1> QED BY <1>1, <1>2, <1>3, <1>4, <1>5, CheckMoves, TestMoves, AssignMoves, PayMoves DEF Next


-----------------------------------------------------------------------------
(* The invariant.                                                          *)

\* What was made stays made, and keeps its instance and its account.
LEMMA MadeStays ==
    ASSUME Moves, NEW p \in Made
    PROVE  /\ p \in Made' /\ payment'[p].channel = payment[p].channel
           /\ payment'[p].account = payment[p].account
           /\ payment'[p].used = payment[p].used \/ Sent(p)
BY DEF Moves, PaymentMoves, New, Made

\* A row never goes; as long as its revision stays, so do its settings.
LEMMA RowStays ==
    ASSUME Typed, NEW c \in Channels, channel[c] # None, RowMoves(c)
    PROVE  /\ channel'[c] # None /\ channel[c].revision <= channel'[c].revision
           /\ channel'[c].revision = channel[c].revision => channel'[c].settings = channel[c].settings
<1>1. channel[c].revision \in Nat BY DEF Typed, Rows
<1>2. CASE channel'[c] = channel[c] BY <1>1, <1>2
<1>3. CASE LeaseOnly(channel[c], channel'[c]) /\ channel'[c] # None BY <1>1, <1>3 DEF LeaseOnly
<1>4. CASE Saved(c) /\ channel'[c] # None BY <1>1, <1>4 DEF Saved
<1>5. CASE Checked(c) /\ channel'[c] # None BY <1>1, <1>5 DEF Checked
<1>6. CASE Recorded(c) /\ channel'[c] # None BY <1>1, <1>6 DEF Recorded
<1> QED BY <1>2, <1>3, <1>4, <1>5, <1>6 DEF RowMoves

LEMMA TypedStep ==
    ASSUME Typed, [Next]_vars
    PROVE  Typed'
<1>1. channel' \in [Channels -> Rows \cup {None}] /\ \A c \in Channels : RowMoves(c)
  BY RowsStep
<1>2. Moves BY MovesStep
<1>3. \A c \in Channels : channel[c] # None =>
          channel'[c] # None /\ channel[c].revision <= channel'[c].revision
  BY <1>1, RowStays
<1>4. \A c \in Channels : channel[c] # None => channel[c].revision \in Nat BY DEF Typed, Rows
<1>5. \A c \in Channels : channel'[c] # None => channel'[c].revision \in Nat BY <1>1 DEF Rows
<1>6. \A p \in Made : p \in Made' BY <1>2, MadeStays
<1>7. assigned' \in Channels \cup {None} /\ (assigned' # None => channel'[assigned'] # None)
  <2>1. CASE UNCHANGED assigned BY <1>3, <2>1 DEF Typed
  <2>2. ASSUME NEW w \in Workers, AssignCommits(w)
        PROVE  assigned' \in Channels \cup {None} /\ (assigned' # None => channel'[assigned'] # None)
    <3>1. worker[w].channel \in Channels /\ channel[worker[w].channel] # None
      BY <2>2, AtWork DEF AssignCommits
    <3>2. assigned' = worker[w].channel \/ assigned' = assigned BY <2>2 DEF AssignCommits
    <3> QED BY <1>3, <2>1, <3>1, <3>2
  <2>3. ASSUME \/ \E c \in Channels : Save(c) \/ LeaseExpires(c)
               \/ \E p \in Payments : Paid(p)
               \/ \E w \in Workers : Check(w) \/ Test(w) \/ Pay(w) \/ Crash(w)
                                     \/ \E c \in Channels : AssignReads(w, c)
               \/ UNCHANGED vars
        PROVE  UNCHANGED assigned
    <3>1. ASSUME NEW w \in Workers, Check(w) PROVE UNCHANGED assigned
      BY <3>1 DEF Check, ClaimCheck, Claim, LoadForCheck, FinishCheck
    <3>2. ASSUME NEW w \in Workers, Test(w) PROVE UNCHANGED assigned
      BY <3>2 DEF Test, ClaimTest, Claim, StartTest, MakeTest, RecordTest, ReleaseTest
    <3>3. ASSUME NEW w \in Workers, Pay(w) PROVE UNCHANGED assigned
      BY <3>3 DEF Pay, PayReads, PayCommits, Send
    <3>4. ASSUME NEW w \in Workers, Crash(w) \/ \E c \in Channels : AssignReads(w, c)
          PROVE  UNCHANGED assigned
      BY <3>4 DEF Crash, AssignReads
    <3>5. ASSUME NEW c \in Channels, Save(c) \/ LeaseExpires(c) PROVE UNCHANGED assigned
      BY <3>5 DEF Save, LeaseExpires
    <3>6. ASSUME UNCHANGED vars \/ \E p \in Payments : Paid(p) PROVE UNCHANGED assigned
      BY <3>6 DEF vars, Paid
    <3> QED BY <2>3, <3>1, <3>2, <3>3, <3>4, <3>5, <3>6
  <2> QED BY <2>1, <2>2, <2>3 DEF Next, Assign
<1>8. ASSUME NEW c \in Channels, channel'[c] # None, channel'[c].test # None
      PROVE  channel'[c].test \in Made'
  <2>1. CASE channel'[c] = channel[c] BY <1>6, <1>8, <2>1 DEF Typed
  <2>2. CASE Created(c) BY <1>8, <2>2 DEF Created
  <2>3. CASE channel[c] # None /\ channel'[c].test = channel[c].test BY <1>6, <1>8, <2>3 DEF Typed
  <2>4. CASE Recorded(c)
    <3>1. PICK w \in Workers : worker[w].pc = "record" /\ channel'[c].test = worker[w].payment
      BY <2>4 DEF Recorded
    <3> QED BY <1>6, <3>1 DEF Typed, Holding
  <2> QED BY <1>1, <2>1, <2>2, <2>3, <2>4 DEF RowMoves, LeaseOnly, Saved, Checked
<1>9. ASSUME NEW w \in Workers
      PROVE  /\ worker'[w].pc # "idle" =>
                    worker'[w].channel \in Channels /\ channel'[worker'[w].channel] # None
             /\ worker'[w].pc \in Claiming =>
                    worker'[w].revision <= channel'[worker'[w].channel].revision
             /\ worker'[w].pc \in Holding => worker'[w].payment \in Made'
  <2>1. worker'[w] \in WorkerStates BY <1>2 DEF Moves
  <2>2. worker'[w].revision \in Nat BY <2>1 DEF WorkerStates
  <2>3. CASE worker'[w] = worker[w]
    <3>1. worker[w].pc # "idle" =>
              /\ worker[w].channel \in Channels /\ channel[worker[w].channel] # None
              /\ channel'[worker[w].channel] # None
              /\ channel[worker[w].channel].revision <= channel'[worker[w].channel].revision
              /\ channel[worker[w].channel].revision \in Nat
              /\ channel'[worker[w].channel].revision \in Nat
      BY <1>3, <1>4, <1>5 DEF Typed
    <3>2. /\ worker[w].pc \in Claiming => worker[w].revision <= channel[worker[w].channel].revision
          /\ worker[w].pc \in Holding => worker[w].payment \in Made
      BY DEF Typed
    <3>3. worker[w].pc \in Claiming => worker[w].pc # "idle" BY DEF Claiming
    <3> QED BY <1>6, <2>2, <2>3, <3>1, <3>2, <3>3
  <2>4. CASE worker'[w].pc = "idle" BY <2>4 DEF Claiming, Holding
  <2>5. CASE WorkerMoves(w)
    <3>1. /\ worker'[w].channel \in Channels /\ channel[worker'[w].channel] # None
          /\ worker'[w].pc \in Claiming =>
                 worker'[w].revision <= channel[worker'[w].channel].revision
      BY <2>5 DEF WorkerMoves
    <3>2. /\ channel'[worker'[w].channel] # None
          /\ channel[worker'[w].channel].revision <= channel'[worker'[w].channel].revision
          /\ channel[worker'[w].channel].revision \in Nat
          /\ channel'[worker'[w].channel].revision \in Nat
      BY <1>3, <1>4, <1>5, <3>1
    <3>3. worker'[w].pc \in Claiming =>
              worker'[w].revision <= channel'[worker'[w].channel].revision
      BY <2>2, <3>1, <3>2
    <3>4. CASE worker'[w].pc \in {"send", "sendTest"} /\ New(worker'[w].payment)
                   /\ worker'[w].payment \in Payments
      BY <3>1, <3>2, <3>3, <3>4 DEF New, Made
    <3>5. CASE worker'[w].pc = "record" /\ worker[w].pc = "sendTest"
                   /\ worker'[w].payment = worker[w].payment
      <4>1. worker[w].payment \in Made BY <3>5 DEF Typed, Holding
      <4> QED BY <1>6, <3>1, <3>2, <3>3, <3>5, <4>1
    <3>6. CASE worker'[w].pc \notin Holding BY <3>1, <3>2, <3>3, <3>6
    <3> QED BY <2>5, <3>4, <3>5, <3>6 DEF WorkerMoves, Holding
  <2> QED BY <1>2, <2>3, <2>4, <2>5 DEF Moves, Rests, WorkerMoves
<1>10. channel'[Legacy] # None BY <1>3, ChannelAssumption DEF Typed
<1>11. /\ payment' \in [Payments -> PaymentRows \cup {None}] /\ worker' \in [Workers -> WorkerStates]
  BY <1>2 DEF Moves
<1> QED BY <1>1, <1>7, <1>8, <1>9, <1>10, <1>11 DEF Typed


LEMMA AloneStep ==
    ASSUME Typed, Alone, [Next]_vars
    PROVE  Alone'
<1>1. Moves BY MovesStep
<1> SUFFICES ASSUME NEW w \in Workers, NEW v \in Workers, w # v,
                    worker'[w].pc \in Holding, worker'[v].pc \in Holding
             PROVE  worker'[w].payment # worker'[v].payment
  BY DEF Alone
<1>2. ASSUME NEW u \in Workers, worker'[u].pc \in Holding, worker'[u] = worker[u]
      PROVE  worker[u].pc \in Holding /\ worker[u].payment \in Made
  BY <1>2 DEF Typed
<1>3. ASSUME NEW u \in Workers, NEW t \in Workers, u # t, WorkerMoves(u),
             worker'[u].pc \in Holding, worker'[t].pc \in Holding
      PROVE  worker'[u].payment # worker'[t].payment
  <2>1. worker'[t] = worker[t] BY <1>3 DEF WorkerMoves
  <2>2. worker[t].pc \in Holding /\ worker[t].payment \in Made BY <1>2, <1>3, <2>1
  <2>3. CASE New(worker'[u].payment) BY <2>1, <2>2, <2>3 DEF New, Made
  <2>4. CASE worker[u].pc = "sendTest" /\ worker'[u].payment = worker[u].payment
    BY <1>3, <2>1, <2>2, <2>4 DEF Alone, Holding
  <2> QED BY <1>3, <2>3, <2>4 DEF WorkerMoves, Holding
<1>4. CASE \A u \in Workers : Rests(u)
  <2>1. worker'[w] = worker[w] /\ worker'[v] = worker[v] BY <1>4 DEF Rests, Holding
  <2> QED BY <1>2, <2>1 DEF Alone
<1>5. ASSUME NEW u \in Workers, WorkerMoves(u) PROVE worker'[w].payment # worker'[v].payment
  <2>1. CASE u = w BY <1>3, <1>5, <2>1
  <2>2. CASE u = v BY <1>3, <1>5, <2>2
  <2>3. CASE u # w /\ u # v
    <3>1. worker'[w] = worker[w] /\ worker'[v] = worker[v] BY <1>5, <2>3 DEF WorkerMoves
    <3> QED BY <1>2, <3>1 DEF Alone
  <2> QED BY <2>1, <2>2, <2>3
<1> QED BY <1>1, <1>4, <1>5 DEF Moves

\* What a handler knows stays true as long as the revision does: only who holds the
\* payment sends it.
LEMMA KnowsStep ==
    ASSUME Typed, Alone, Knows, [Next]_vars
    PROVE  Knows'
<1>1. channel' \in [Channels -> Rows \cup {None}] /\ \A c \in Channels : RowMoves(c)
  BY RowsStep
<1>2. Moves BY MovesStep
<1> SUFFICES ASSUME NEW w \in Workers, SameRevision(w)'
             PROVE  /\ worker'[w].pc = "ask" =>
                           worker'[w].settings = channel'[worker'[w].channel].settings
                    /\ worker'[w].pc = "record" =>
                           payment'[worker'[w].payment].used = channel'[worker'[w].channel].settings
  BY DEF Knows
<1> DEFINE Good == /\ worker'[w].pc = "ask" =>
                          worker'[w].settings = channel'[worker'[w].channel].settings
                   /\ worker'[w].pc = "record" =>
                          payment'[worker'[w].payment].used = channel'[worker'[w].channel].settings
<1>3. CASE worker'[w] = worker[w] /\ worker[w].pc \in {"ask", "record"}
  <2> DEFINE c == worker[w].channel
  <2>1. /\ c \in Channels /\ channel[c] # None /\ channel[c] \in Rows
        /\ worker[w].revision <= channel[c].revision /\ worker[w] \in WorkerStates
    <3>1. worker[w].pc # "idle" /\ worker[w].pc \in Claiming BY <1>3 DEF Claiming
    <3> QED BY <3>1, AtWork
  <2>2. /\ channel[c].revision <= channel'[c].revision
        /\ channel'[c].revision = channel[c].revision => channel'[c].settings = channel[c].settings
    BY <1>1, <2>1, RowStays
  <2>3. channel'[c].revision = worker[w].revision BY <1>3 DEF SameRevision
  <2>4. worker[w].revision \in Nat /\ channel[c].revision \in Nat BY <2>1 DEF WorkerStates, Rows
  <2>5. channel[c].revision = worker[w].revision /\ channel'[c].settings = channel[c].settings
    <3> HIDE DEF c
    <3> QED BY <2>1, <2>2, <2>3, <2>4
  <2>6. CASE worker[w].pc = "ask" BY <1>3, <2>5, <2>6 DEF Knows, SameRevision
  <2>7. CASE worker[w].pc = "record"
    <3>1. worker[w].payment \in Made BY <2>7 DEF Typed, Holding
    <3>2. ~Sent(worker[w].payment)
      <4> SUFFICES ASSUME NEW v \in Workers, worker[v].pc \in {"send", "sendTest"},
                          worker[v].payment = worker[w].payment
                   PROVE  FALSE
        BY DEF Sent
      <4> QED BY <2>7 DEF Alone, Holding
    <3>3. payment'[worker[w].payment].used = payment[worker[w].payment].used
      BY <1>2, <3>1, <3>2, MadeStays
    <3> QED BY <1>3, <2>5, <2>7, <3>3 DEF Knows, SameRevision
  <2> QED BY <1>3, <2>6, <2>7
<1>4. CASE worker'[w].pc \notin {"ask", "record"} BY <1>4
<1>5. CASE WorkerMoves(w) BY <1>5 DEF WorkerMoves, Holding
<1>6. ASSUME NEW u \in Workers, WorkerMoves(u), u # w PROVE worker'[w] = worker[w]
  BY <1>6 DEF WorkerMoves
<1> QED BY <1>2, <1>3, <1>4, <1>5, <1>6 DEF Moves, Rests


\* A test that counts is not sent again.
LEMMA TestStays ==
    ASSUME Typed, Proved, Moves, NEW c \in Channels, channel[c] # None,
           channel[c].testRevision = channel[c].revision
    PROVE  /\ channel[c].test \in Made'
           /\ payment'[channel[c].test].used = channel[c].settings
           /\ \A w \in Workers :
                 worker'[w].pc \in Holding \ {"record"} => worker'[w].payment # channel[c].test
<1> DEFINE t == channel[c].test
<1>1. /\ t \in Made /\ payment[t].used = channel[c].settings
      /\ \A w \in Workers : worker[w].pc \in Holding \ {"record"} => worker[w].payment # t
  BY DEF Proved
<1> HIDE DEF t
<1>2. ~Sent(t) BY <1>1 DEF Sent, Holding
<1>3. t \in Made' /\ payment'[t].used = channel[c].settings BY <1>1, <1>2, MadeStays
<1>4. ASSUME NEW w \in Workers, worker'[w].pc \in Holding \ {"record"}
      PROVE  worker'[w].payment # t
  <2>1. CASE worker'[w] = worker[w] BY <1>1, <1>4, <2>1
  <2>2. CASE WorkerMoves(w) BY <1>1, <1>4, <2>2 DEF WorkerMoves, Holding, New, Made
  <2>3. worker'[w].pc # "idle" BY <1>4 DEF Holding
  <2> QED BY <2>1, <2>2, <2>3 DEF Moves, Rests, WorkerMoves
<1> QED BY <1>3, <1>4 DEF t

LEMMA ProvedStep ==
    ASSUME Typed, Alone, Knows, Proved, [Next]_vars
    PROVE  Proved'
<1>1. channel' \in [Channels -> Rows \cup {None}] /\ \A c \in Channels : RowMoves(c)
  BY RowsStep
<1>2. Moves BY MovesStep
<1> SUFFICES ASSUME NEW c \in Channels, channel'[c] # None
             PROVE  /\ (channel'[c].checkRevision = channel'[c].revision /\ channel'[c].status = "API_VERIFIED") =>
                           channel'[c].checkedWith = channel'[c].settings
                    /\ channel'[c].testRevision = channel'[c].revision =>
                           /\ channel'[c].test \in Made'
                           /\ payment'[channel'[c].test].used = channel'[c].settings
                           /\ \A w \in Workers :
                                 worker'[w].pc \in Holding \ {"record"} => worker'[w].payment # channel'[c].test
  BY DEF Proved
<1> DEFINE Check1 == (channel'[c].checkRevision = channel'[c].revision /\ channel'[c].status = "API_VERIFIED") =>
                        channel'[c].checkedWith = channel'[c].settings
           Test1 == channel'[c].testRevision = channel'[c].revision =>
                        /\ channel'[c].test \in Made'
                        /\ payment'[channel'[c].test].used = channel'[c].settings
                        /\ \A w \in Workers :
                              worker'[w].pc \in Holding \ {"record"} => worker'[w].payment # channel'[c].test
<1>3. channel'[c].revision # None
  <2>1. channel'[c].revision \in Nat BY <1>1 DEF Rows
  <2> QED BY <2>1, ChannelAssumption
<1>4. CASE channel'[c].checkRevision = None /\ channel'[c].testRevision = None
  BY <1>3, <1>4
<1>5. ASSUME channel[c] # None,
             channel'[c].settings = channel[c].settings, channel'[c].revision = channel[c].revision,
             channel'[c].test = channel[c].test, channel'[c].testRevision = channel[c].testRevision
      PROVE  Test1
  BY <1>2, <1>5, TestStays
<1>6. ASSUME channel[c] # None,
             channel'[c].settings = channel[c].settings, channel'[c].revision = channel[c].revision,
             channel'[c].status = channel[c].status,
             channel'[c].checkRevision = channel[c].checkRevision,
             channel'[c].checkedWith = channel[c].checkedWith
      PROVE  Check1
  BY <1>6 DEF Proved
<1>7. CASE Checked(c) /\ channel[c] # None
  <2>1. PICK w \in Workers : /\ worker[w].pc = "ask" /\ worker[w].channel = c /\ SameRevision(w)
                             /\ channel'[c].checkedWith = worker[w].settings
    BY <1>7 DEF Checked
  <2>2. Check1 BY <1>7, <2>1 DEF Checked, Knows
  <2>3. Test1 BY <1>5, <1>7 DEF Checked
  <2> QED BY <2>2, <2>3
<1>8. CASE Recorded(c) /\ channel[c] # None
  <2>1. Check1 BY <1>6, <1>8 DEF Recorded
  <2>2. PICK w \in Workers :
          /\ worker[w].pc = "record" /\ worker[w].channel = c /\ SameRevision(w)
          /\ channel'[c].test = worker[w].payment
          /\ worker'[w].pc = "release" /\ \A v \in Workers \ {w} : worker'[v] = worker[v]
    BY <1>8 DEF Recorded
  <2>3. /\ channel'[c].settings = channel[c].settings /\ payment' = payment
        /\ payment[worker[w].payment].used = channel[c].settings
        /\ worker[w].payment \in Made
    BY <1>8, <2>2 DEF Recorded, Knows, Typed, Holding
  <2>4. worker[w].payment \in Made' BY <2>3 DEF Made
  <2>5. ASSUME NEW v \in Workers, worker'[v].pc \in Holding \ {"record"}
        PROVE  worker'[v].payment # worker[w].payment
    <3>1. v # w BY <2>2, <2>5 DEF Holding
    <3> QED BY <2>2, <2>5, <3>1 DEF Alone, Holding
  <2>6. Test1 BY <2>2, <2>3, <2>4, <2>5
  <2> QED BY <2>1, <2>6
<1>9. CASE channel'[c] = channel[c] BY <1>5, <1>6, <1>9
<1>10. CASE LeaseOnly(channel[c], channel'[c]) /\ channel[c] # None
  BY <1>5, <1>6, <1>10 DEF LeaseOnly
<1>11. RowMoves(c) BY <1>1
<1> QED BY <1>4, <1>7, <1>8, <1>9, <1>10, <1>11 DEF RowMoves, Created, Saved

\* The account stays where payments are, and a save takes only one that is free.
LEMMA ApartStep ==
    ASSUME Typed, Apart, [Next]_vars
    PROVE  Apart'
<1>1. channel' \in [Channels -> Rows \cup {None}] /\ \A c \in Channels : RowMoves(c)
  BY RowsStep
<1>2. Moves BY MovesStep
<1>3. ASSUME NEW c \in Channels, channel[c] # None,
             channel'[c].settings.account # channel[c].settings.account
      PROVE  Saved(c) /\ History(c) = {} /\ payment' = payment
  BY <1>1, <1>3 DEF RowMoves, LeaseOnly, Saved, Checked, Recorded
<1>4. ASSUME NEW p \in Made'
      PROVE  /\ channel'[payment'[p].channel] # None
             /\ channel'[payment'[p].channel].settings.account = payment'[p].account
  <2> DEFINE c == payment'[p].channel
  <2>1. CASE New(p)
    <3>1. /\ c \in Channels /\ channel[c] # None /\ channel' = channel
          /\ payment'[p].account = channel[c].settings.account
      BY <2>1 DEF New
    <3> QED BY <3>1
  <2>2. CASE p \in Made
    <3>1. /\ payment'[p].channel = payment[p].channel /\ payment'[p].account = payment[p].account
      BY <1>2, <2>2, MadeStays
    <3>2. c \in Channels
      <4>1. payment[p] \in PaymentRows BY <2>2 DEF Typed, Made
      <4> QED BY <3>1, <4>1 DEF PaymentRows
    <3>3. channel[c] # None /\ channel[c].settings.account = payment'[p].account
      BY <2>2, <3>1 DEF Apart
    <3>4. channel'[c] # None BY <1>1, <3>2, <3>3, RowStays
    <3>5. History(c) # {} BY <2>2, <3>1 DEF History
    <3>6. channel'[c].settings.account = channel[c].settings.account BY <1>3, <3>2, <3>3, <3>5
    <3> QED BY <3>3, <3>4, <3>6
  <2> QED BY <1>2, <1>4, <2>1, <2>2 DEF Moves, PaymentMoves, Made
<1>5. ASSUME NEW c \in Channels, NEW d \in Channels, c # d,
             channel'[c] # None, channel'[d] # None,
             PluginOf[c] = "ALIPAY_BILL", PluginOf[d] = "ALIPAY_BILL",
             channel'[c].settings.account # None
      PROVE  channel'[c].settings.account # channel'[d].settings.account
  <2> DEFINE Keeps(b) == channel[b] # None /\ channel'[b].settings.account = channel[b].settings.account
  <2>1. ASSUME NEW b \in Channels, channel'[b] # None, ~Keeps(b)
        PROVE  /\ AccountIsFree(b, channel'[b].settings.account)
               /\ \A e \in Channels \ {b} : channel'[e] = channel[e]
    <3>1. CASE channel[b] = None BY <1>1, <2>1, <3>1 DEF RowMoves, Created
    <3>2. CASE channel[b] # None BY <1>3, <2>1, <3>2 DEF Saved
    <3> QED BY <3>1, <3>2
  <2>2. CASE ~Keeps(c) BY <1>5, <2>1, <2>2 DEF AccountIsFree
  <2>3. CASE ~Keeps(d) BY <1>5, <2>1, <2>3 DEF AccountIsFree
  <2>4. CASE Keeps(c) /\ Keeps(d) BY <1>5, <2>4 DEF Apart
  <2> QED BY <2>2, <2>3, <2>4
<1> QED BY <1>4, <1>5 DEF Apart


LEMMA InvariantInit == Init => IInv
<1> SUFFICES ASSUME Init PROVE IInv OBVIOUS
<1>1. PICK s \in Settings, enabled \in BOOLEAN :
        channel = [c \in Channels |-> IF c = Legacy THEN Row(enabled, s, 1) ELSE None]
  BY DEF Init
<1>2. s \in Texts BY DEF Settings, Texts
<1> DEFINE row == Row(enabled, s, 1)
<1>3. /\ row \in Rows /\ row # None /\ row.revision = 1 /\ row.test = None
      /\ row.checkRevision = None /\ row.testRevision = None
  BY <1>2, RowTyped
<1> HIDE DEF row
<1>4. channel = [c \in Channels |-> IF c = Legacy THEN row ELSE None] BY <1>1 DEF row
<1>5. /\ channel \in [Channels -> Rows \cup {None}] /\ channel[Legacy] # None
      /\ \A c \in Channels : channel[c] # None => c = Legacy /\ channel[c] = row
  BY <1>3, <1>4, ChannelAssumption
<1>6. /\ payment \in [Payments -> PaymentRows \cup {None}] /\ Made = {} /\ assigned = None
      /\ worker \in [Workers -> WorkerStates] /\ \A w \in Workers : worker[w].pc = "idle"
  BY IdleTyped DEF Init, Made
<1>7. Typed BY <1>3, <1>5, <1>6 DEF Typed, Claiming, Holding
<1>8. Alone /\ Knows BY <1>6 DEF Alone, Knows, Holding
<1>9. Proved
  <2>1. None # 1 BY ChannelAssumption
  <2> QED BY <1>3, <1>5, <2>1 DEF Proved
<1>10. Apart BY <1>5, <1>6 DEF Apart
<1> QED BY <1>7, <1>8, <1>9, <1>10 DEF IInv

LEMMA InvariantStep == IInv /\ [Next]_vars => IInv'
BY TypedStep, AloneStep, KnowsStep, ProvedStep, ApartStep DEF IInv

LEMMA InvariantHolds == Spec => []IInv
BY InvariantInit, InvariantStep, PTL DEF Spec

\* Evidence is about the settings that are saved now, whoever saved while a check or a
\* test was on its way (checkChannel, createChannelTest, verificationStatus).
THEOREM EvidenceIsCurrentCorrect == Spec => []EvidenceIsCurrent
<1>1. ASSUME Typed, Proved PROVE EvidenceIsCurrent
  <2> SUFFICES ASSUME NEW c \in Channels, channel[c] # None
               PROVE  /\ Status(c) = "API_VERIFIED" => channel[c].checkedWith = channel[c].settings
                      /\ Status(c) = "PAYMENT_VERIFIED" =>
                             payment[channel[c].test].used = channel[c].settings
    BY DEF EvidenceIsCurrent
  <2>1. channel[c].status \in {"UNCHECKED", "SIMULATED", "NEEDS_PAYMENT", "API_VERIFIED", "FAILED"}
    BY <1>1 DEF Typed, Rows
  <2>2. Status(c) = "API_VERIFIED" =>
            channel[c].checkRevision = channel[c].revision /\ channel[c].status = "API_VERIFIED"
    BY DEF Status
  <2>3. Status(c) = "PAYMENT_VERIFIED" => channel[c].testRevision = channel[c].revision
    BY <2>1 DEF Status
  <2> QED BY <1>1, <2>2, <2>3 DEF Proved
<1>2. IInv => EvidenceIsCurrent BY <1>1 DEF IInv
<1> QED BY <1>2, InvariantHolds, PTL

\* The account of a payment stays that of its instance and of no other instance of the
\* bill, so that queries, refunds and amounts go by the right one (saveChannel).
THEOREM AccountsStayApartCorrect == Spec => []AccountsStayApart
<1>1. ASSUME Typed, Apart PROVE AccountsStayApart
  <2> SUFFICES ASSUME NEW p \in Made, NEW c \in Channels, channel[c] # None
               PROVE  /\ payment[p].channel = c => channel[c].settings.account = payment[p].account
                      /\ (/\ payment[p].account # None /\ PluginOf[c] = "ALIPAY_BILL"
                          /\ PluginOf[payment[p].channel] = "ALIPAY_BILL"
                          /\ channel[c].settings.account = payment[p].account) =>
                             payment[p].channel = c
    BY DEF AccountsStayApart
  <2>1. /\ payment[p].channel \in Channels /\ channel[payment[p].channel] # None
        /\ channel[payment[p].channel].settings.account = payment[p].account
    <3>1. payment[p] \in PaymentRows BY <1>1 DEF Typed, Made
    <3> QED BY <1>1, <3>1 DEF Apart, PaymentRows
  <2> QED BY <1>1, <2>1 DEF Apart
<1>2. IInv => AccountsStayApart BY <1>1 DEF IInv
<1> QED BY <1>2, InvariantHolds, PTL

=============================================================================
