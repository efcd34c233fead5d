-------------------------- MODULE MCOwnerNotification --------------------------
(* Instances of OwnerNotification for TLC. *)
EXTENDS OwnerNotification

CONSTANTS w1, w2

OneMock == [e \in Events |-> IF e = 1 THEN "mock" ELSE "success"]
AllSuccess == [e \in Events |-> "success"]
=============================================================================
