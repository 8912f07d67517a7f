----------------------------- MODULE MCInterning -----------------------------
(* Two names longer than the 31 characters the table keeps, the name both  *)
(* of them are cut to, and ordinary names, two of which share all their    *)
(* hash bits and one of which shares a bucket with others until the table  *)
(* has grown.                                                              *)
EXTENDS Interning

CONSTANTS long1, long2, cut, short1, short2, short3

MCNames == {long1, long2, cut, short1, short2, short3}

MCKey == [n \in MCNames |-> IF n \in {long1, long2} THEN cut ELSE n]

MCHash == [n \in MCNames |->
  CASE n \in {short1, short2} -> 5 [] n = short3 -> 9 [] n = cut -> 3 [] OTHER -> 12]
=============================================================================
