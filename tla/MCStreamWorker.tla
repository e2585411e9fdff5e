---------------------------- MODULE MCStreamWorker ----------------------------
(* One good and one malformed job; entries for two full batches, so that   *)
(* what a first one leaves pending can hold up a second, and for a trim.   *)
EXTENDS StreamWorker

MCJobs == {"job", "blank"}
MCMalformed == {"blank"}
=============================================================================
