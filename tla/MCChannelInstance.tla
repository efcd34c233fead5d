--------------------------- MODULE MCChannelInstance ---------------------------
(* Instances of ChannelInstance for TLC. *)
EXTENDS ChannelInstance, TLC

CONSTANTS c1, c2, w1, w2

AllBill == [c \in Channels |-> "ALIPAY_BILL"]
AlipayAndBill == [c \in Channels |-> IF c = c1 THEN "ALIPAY" ELSE "ALIPAY_BILL"]
WithMock == [c \in Channels |-> IF c = c1 THEN "MOCK" ELSE "ALIPAY_BILL"]
TwoAndOne == [c \in Channels |-> IF c = c1 THEN 2 ELSE 1]
ThreeAndOne == [c \in Channels |-> IF c = c1 THEN 3 ELSE 1]
Symmetry == Permutations(Accounts \ {None}) \cup Permutations(Workers)
=============================================================================
