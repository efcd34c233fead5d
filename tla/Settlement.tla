----------------------------- MODULE Settlement -----------------------------
(***************************************************************************)
(* What markPaymentSucceeded promises, whoever reports the success and in  *)
(* whatever order: the first payment of an order to be settled wins it and *)
(* is told to the business, every other one becomes a dispute.             *)
(***************************************************************************)
CONSTANTS Orders, Payments, OrderOf, WithUrl, None

VARIABLES settled, winner, told, disputed

vars == <<settled, winner, told, disputed>>

Init ==
    /\ settled = {} /\ disputed = {}
    /\ winner = [o \in Orders |-> None]
    /\ told = [o \in Orders |-> None]

Win(p) ==
    LET o == OrderOf[p] IN
    /\ p \notin settled /\ winner[o] = None
    /\ settled' = settled \cup {p}
    /\ winner' = [winner EXCEPT ![o] = p]
    /\ told' = IF o \in WithUrl THEN [told EXCEPT ![o] = p] ELSE told
    /\ UNCHANGED disputed

Dispute(p) ==
    /\ p \notin settled /\ winner[OrderOf[p]] # None
    /\ settled' = settled \cup {p}
    /\ disputed' = disputed \cup {p}
    /\ UNCHANGED <<winner, told>>

Next == \E p \in Payments : Win(p) \/ Dispute(p)

Spec == Init /\ [][Next]_vars

=============================================================================
