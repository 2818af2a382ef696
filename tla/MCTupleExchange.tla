--------------------------- MODULE MCTupleExchange ---------------------------
(* Small instances of TupleExchange for TLC: one stage-1 task, whose lines all *)
(* have the key of one stage-2 task, on another worker or on the same one.     *)
EXTENDS TupleExchange, TLC

CONSTANTS w1, w2, w3, s1, r1

KeysOne == [x \in Ids |-> r1]

PlaceApart    == (s1 :> w1) @@ (r1 :> w2)
PlaceTogether == (s1 :> w1) @@ (r1 :> w1)
=============================================================================
