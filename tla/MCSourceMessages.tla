--------------------------- MODULE MCSourceMessages ---------------------------
(* Two messages of one channel, the newer of which may be edited, deleted   *)
(* and brought by an operator, and two history runs at a time.              *)
EXTENDS SourceMessages

MCTexts == 1..3
===============================================================================
