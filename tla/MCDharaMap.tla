----------------------------- MODULE MCDharaMap -----------------------------
(* Small chips for TLC.                                                    *)
EXTENDS DharaMap

CONSTANTS d1, d2, sys, ftl

Three == {0, 1, 3}

Wr(s, d) == [op |-> "write", sector |-> s, data |-> d]
Tr(s) == [op |-> "trim", sector |-> s, data |-> Blank]
Sy == [op |-> "sync", sector |-> NoRequest, data |-> Blank]

(* Writes that leave sectors 0 and 3 behind at the tail.                   *)
Busy(n) == [i \in 1..n |-> IF i = 1 THEN Wr(0, d1) ELSE IF i = 2 THEN Wr(3, d1)
                           ELSE Wr(1, IF i % 2 = 0 THEN d1 ELSE d2)]

NewAndAged == {<<>>, Busy(50)}
Aged == {Busy(20)}
=============================================================================
