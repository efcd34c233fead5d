------------------------------ MODULE Refunding ------------------------------
(***************************************************************************)
(* What refunds promise, whoever asks for them and whatever requests time  *)
(* out: no refund is given that would, with the others, exceed what its    *)
(* payment took; the business is told only of money that went back; and    *)
(* refunds settle the dispute over a payment only when all of its money    *)
(* did.  None of it is taken back.  The exception is admitted: a refund    *)
(* whose answer lost its body is given, and then forgotten by the others.  *)
(***************************************************************************)
EXTENDS Naturals, FiniteSetsExt

CONSTANTS
    Refunds,
    PaymentOf, AmountOf, \* of a refund
    amount,              \* of a payment
    Unsure,              \* the refunds whose answer may lose its body
    Announced,           \* the refunds the business is to be told of
    Disputed             \* the payments that came too late

VARIABLES
    given,               \* the refunds that are done
    told,                \* those the business was told of
    resolved             \* the disputes that refunds have settled

vars == <<given, told, resolved>>

Total(S) == MapThenSumSet(LAMBDA r : AmountOf[r], S)
Of(p, S) == {r \in S : PaymentOf[r] = p}

Init == given = {} /\ told = {} /\ resolved = {}

Give(r) ==
    /\ r \notin given
    /\ Total(Of(PaymentOf[r], (given \ Unsure) \cup {r})) <= amount[PaymentOf[r]]
    /\ given' = given \cup {r}
    /\ UNCHANGED <<told, resolved>>

Tell(r) ==
    /\ r \in (given \cap Announced) \ told
    /\ told' = told \cup {r}
    /\ UNCHANGED <<given, resolved>>

Resolve(p) ==
    /\ p \in Disputed \ resolved
    /\ Total(Of(p, given)) >= amount[p]
    /\ resolved' = resolved \cup {p}
    /\ UNCHANGED <<given, told>>

Next ==
    \/ \E r \in Refunds : Give(r) \/ Tell(r)
    \/ \E p \in Disputed : Resolve(p)

Spec == Init /\ [][Next]_vars

=============================================================================
