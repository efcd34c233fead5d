-------------------------- MODULE MCPaymentSystem ---------------------------
(***************************************************************************)
(* Small instances of PaymentSystem: one order, one or two attempts.       *)
(***************************************************************************)
EXTENDS PaymentSystem, TLC

CONSTANTS o1, p1, p2, api1, api2, exp1, exp2

EitherHandler == Permutations({api1, api2}) \cup Permutations({exp1, exp2})

OneOrder == [p \in Payments |-> o1]
AllAlipay == [p \in Payments |-> "ALIPAY"]
AllMock == [p \in Payments |-> "MOCK"]
AlipayAndMock == [p \in Payments |-> IF p = p1 THEN "ALIPAY" ELSE "MOCK"]

=============================================================================
