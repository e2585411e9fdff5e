------------------------------ MODULE MCEnrichment ------------------------------
(* Three groups let the content go one way and back; two processes race.   *)
EXTENDS Enrichment

CONSTANTS g1, g2, g3, w1, w2

MCGroups == {g1, g2, g3}
MCWorkers == {w1, w2}
=============================================================================
