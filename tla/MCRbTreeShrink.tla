--------------------------- MODULE MCRbTreeShrink ---------------------------
EXTENDS RbTreeShrink, MCRbTree

Few == 16
Ascending == [i \in 1..Few |-> i]
Alternating == [i \in 1..Few |-> IF i % 2 = 1 THEN (i + 1) \div 2 ELSE Few + 1 - i \div 2]

InsertionOrders == {Reverse(Ascending), Alternating}
=============================================================================
