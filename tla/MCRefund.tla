------------------------------ MODULE MCRefund ------------------------------
(***************************************************************************)
(* Small instances of Refund: one order of 2 with a winner and a late      *)
(* duplicate, both paid through Alipay, and refunds a, c of 2 and b of 1.  *)
(***************************************************************************)
EXTENDS Refund

CONSTANTS o1, won, late, a, b, c

Winner == [o \in Orders |-> won]
OneOrder == [p \in Payments |-> o1]
AllAlipay == [p \in Payments |-> "ALIPAY"]
AmountTwo == [o \in Orders |-> 2]
Sizes == [r \in Refunds |-> IF r = b THEN 1 ELSE 2]
AllOfWinner == [r \in Refunds |-> won]
OneOfWinner == [r \in Refunds |-> IF r = a THEN won ELSE late]

=============================================================================
