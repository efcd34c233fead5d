--------------------------- MODULE MCReconciliation ---------------------------
(* Instances of Reconciliation for TLC. *)
EXTENDS Reconciliation, TLC

CONSTANTS o1, o2, p1, p2, t1, t2, w1, w2, i1

MCOrderOf == p1 :> o1 @@ p2 :> o2
\* Two payments of one order, of which one comes late.
OneOrder == p1 :> o1 @@ p2 :> o1
OneAmount == o1 :> 2
OneExpiry == o1 :> 2
\* Two orders of the same price compete for the amounts.
MCAmount == o1 :> 2 @@ o2 :> 2
MCExpiresAt == o1 :> 2 @@ o2 :> 2

\* The two orders differ in their payment only.
Exchange == p1 :> p2 @@ p2 :> p1 @@ o1 :> o2 @@ o2 :> o1

Symmetry == Permutations({t1, t2}) \cup Permutations({w1, w2}) \cup {Exchange}
=============================================================================
