------------------------------ MODULE OneVerdict ------------------------------
(***************************************************************************)
(* What the readers of judge runs and analyses may assume: a run is tried  *)
(* until it has an answer or fails for good, it has one answer, a          *)
(* validator passes or rejects that answer, and what was passed is         *)
(* announced once.  Judgement, with its command, its workers, resent       *)
(* events and crashes, implements this specification.                      *)
(***************************************************************************)
EXTENDS Sequences, Functions

CONSTANT Runs

VARIABLES
    run,        \* the status of each run
    outputs,    \* the answers of each run
    passed,     \* runs whose answer was passed on to the policy
    announced   \* runs with an analysis and an intent, in their order

verdicts == <<run, outputs, passed, announced>>

Passable == {"valid", "skip"}
Rejectable == {"skip", "truncated", "invalid"}

Init ==
    /\ run = [r \in Runs |-> "absent"] /\ outputs = [r \in Runs |-> <<>>]
    /\ passed = {} /\ announced = <<>>

Request(r) ==
    /\ run[r] = "absent" /\ run' = [run EXCEPT ![r] = "pending"]
    /\ UNCHANGED <<outputs, passed, announced>>

(* A try is for a run without an answer that may still get one.            *)
Open(r) == outputs[r] = <<>> /\ run[r] \in {"pending", "failed_retryable"}

Answer(r) ==
    /\ Open(r)
    /\ \E kind \in Passable \cup Rejectable \cup {"refusal"} :
           outputs' = [outputs EXCEPT ![r] = <<kind>>]
    /\ run' = [run EXCEPT ![r] = "succeeded"]
    /\ UNCHANGED <<passed, announced>>

Fail(r) ==
    /\ Open(r)
    /\ \E status \in {"failed_retryable", "failed_terminal"} : run' = [run EXCEPT ![r] = status]
    /\ UNCHANGED <<outputs, passed, announced>>

(* The status of a rejected answer is its kind's, however often it is      *)
(* rejected; there is no way back to a success or to another answer.       *)
Reject(r) ==
    /\ Range(outputs[r]) \cap Rejectable # {}
    /\ run' = [run EXCEPT ![r] = IF "truncated" \in Range(outputs[r]) THEN "failed_retryable"
                                 ELSE "failed_terminal"]
    /\ UNCHANGED <<outputs, passed, announced>>

Pass(r) ==
    /\ Range(outputs[r]) \cap Passable # {}
    /\ passed' = passed \cup {r}
    /\ UNCHANGED <<run, outputs, announced>>

Announce(r) ==
    /\ r \in passed /\ r \notin Range(announced)
    /\ announced' = Append(announced, r)
    /\ UNCHANGED <<run, outputs, passed>>

Next == \E r \in Runs :
    Request(r) \/ Answer(r) \/ Fail(r) \/ Reject(r) \/ Pass(r) \/ Announce(r)

Spec == Init /\ [][Next]_verdicts

(* A run whose answer is valid is decided for good: its answer and its     *)
(* status never change again.                                              *)
ValidForGood ==
    [][\A r \in Runs : "valid" \in Range(outputs[r]) =>
          outputs'[r] = outputs[r] /\ run'[r] = run[r]]_verdicts
=============================================================================
