---------------------------- MODULE MCJudgement ----------------------------
(* One run of a group whose bundle may change away and back, with one      *)
(* transient failure, abort and worker stop and two events sent again.     *)
EXTENDS Judgement
=============================================================================
