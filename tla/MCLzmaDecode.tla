---------------------------- MODULE MCLzmaDecode ----------------------------
EXTENDS LzmaDecode

(* Bits of bytes 0, 255 and 129, and of the first and the last length. *)
Octets == {[i \in 1..8 |-> 0], [i \in 1..8 |-> 1], [i \in 1..8 |-> IF i \in {1, 8} THEN 1 ELSE 0]}
Triples == {[i \in 1..3 |-> 0], [i \in 1..3 |-> 1], [i \in 1..3 |-> IF i = 3 THEN 1 ELSE 0]}
=============================================================================
