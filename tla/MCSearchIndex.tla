--------------------------- MODULE MCSearchIndex ----------------------------
(* Small instances of SearchIndex for TLC: three emails, of which the first *)
(* in the scan's order cannot be built and the second is refused.           *)
EXTENDS SearchIndex, TLC

CONSTANTS w1, w2
Slots == Permutations({ w1, w2 })
Three == 1 .. 3
AllOrLast == { {1, 2, 3}, {3} }
TwoBatches == { {1, 2}, {3} }
=============================================================================
