----------------------------- MODULE MCOutboxRelay -----------------------------
(* Three rows, a batch of two (so a batch can be full while a row waits): a *)
(* judge output, whose command reads the proofs; a row without a route; and *)
(* a row with the two other habits of the commands, of a delivery result   *)
(* (excluded rows are sent too) and of a source message (a failed XADD is  *)
(* committed).                                                             *)
EXTENDS OutboxRelay

MCEvents == 1..3
MCUnroutable == {2}
MCExcludable == {1, 3}
MCGuarded == {1}
MCFailureKept == {3}
=============================================================================
