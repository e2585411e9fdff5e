----------------------------- MODULE Judgement -----------------------------
(***************************************************************************)
(* From a requested judge call to the analysis and its notification        *)
(* intent, for the bundles of one candidate group.  The judge worker ends  *)
(* on every message, so an operator drives the calls with the exact-target *)
(* command: call, validator and policy in one process, one commit each,    *)
(* beside the validator and the policy engine that read the same events.   *)
(***************************************************************************)
EXTENDS Naturals, Sequences, FiniteSets, Functions

CONSTANTS
    Runs,         \* judge runs, each of a bundle of its own
    NoRun,        \* a bundle of the group that is not judged
    MaxMoves,     \* later changes of the group's current bundle
    MaxFailures,  \* calls that fail for a transient reason
    MaxAborts,    \* times the operator's process ends in the middle
    MaxResends,   \* events a restarted relay sends again
    MaxStops      \* messages a worker ends with

ASSUME JudgementAssumption ==
    /\ NoRun \notin Runs
    /\ {MaxMoves, MaxFailures, MaxAborts, MaxResends, MaxStops} \subseteq Nat

VARIABLES
    current,    \* the group's current bundle, by its run
    run,        \* judge_runs.status as committed
    outputs,    \* judge_outputs of each run, by what the answer was
    forwarded,  \* outputs with an analysis.policy.apply row
    analyses,   \* the analyses, by output, as they are inserted
    stale,      \* outputs whose application was dropped for good (history)
    calls, taken,    \* call messages waiting, and those the worker took
    ready, applies,  \* events waiting for the validator and the policy engine
    operator,   \* the exact-target command up to its policy stage
    policy,     \* policy transactions, the worker's and the command's
    asked,      \* requests made to the provider, by run
    failures,   \* transient failures committed, by run
    moves, aborts, resends, stops

judging == <<run, outputs, operator, asked, failures>>
deciding == <<forwarded, analyses, stale, policy>>
streams == <<calls, taken, ready, applies>>
bounds == <<moves, aborts, resends, stops>>
vars == <<current, judging, deciding, streams, bounds>>

(* An answer is usable; usable only under the rules of a resumed command,  *)
(* and then suppressed; refused by the model; cut short; or against the    *)
(* schema or the rules.                                                    *)
Kinds == {"valid", "skip", "refusal", "truncated", "invalid"}

Actors == {"worker", "command"}
Outputs == Runs \X Nat
Kind(o) == outputs[o[1]][o[2]]

Idle == [at |-> "idle", of |-> <<>>]
NoCommand == [at |-> "idle", of |-> <<>>, requests |-> 0, answer |-> "none", resumed |-> FALSE]

Init ==
    /\ current \in Runs \cup {NoRun}
    /\ run = [r \in Runs |-> "absent"] /\ outputs = [r \in Runs |-> <<>>]
    /\ forwarded = {} /\ analyses = <<>> /\ stale = {}
    /\ calls = {} /\ taken = {} /\ ready = {} /\ applies = {}
    /\ operator = NoCommand /\ policy = [a \in Actors |-> Idle]
    /\ asked = [r \in Runs |-> 0] /\ failures = [r \in Runs |-> 0]
    /\ moves = 0 /\ aborts = 0 /\ resends = 0 /\ stops = 0

-----------------------------------------------------------------------------
(* What comes from elsewhere.                                              *)

(* The router commits a pending run of the current bundle with its call.   *)
RequestJudge ==
    /\ current \in Runs /\ run[current] = "absent"
    /\ run' = [run EXCEPT ![current] = "pending"]
    /\ calls' = calls \cup {current}
    /\ UNCHANGED <<current, outputs, operator, asked, failures, deciding, taken, ready, applies, bounds>>

(* The assembler points the group at another bundle, also back.            *)
Reassemble(r) ==
    /\ moves < MaxMoves /\ r # current
    /\ current' = r /\ moves' = moves + 1
    /\ UNCHANGED <<judging, deciding, streams, aborts, resends, stops>>

(* A restarted relay sends an event again.                                 *)
Resend ==
    /\ resends < MaxResends /\ resends' = resends + 1
    /\ \/ \E r \in Runs : \E i \in DOMAIN outputs[r] :
              <<r, i>> \notin ready /\ ready' = ready \cup {<<r, i>>} /\ UNCHANGED applies
       \/ \E o \in forwarded \ applies : applies' = applies \cup {o} /\ UNCHANGED ready
    /\ UNCHANGED <<current, judging, deciding, calls, taken, moves, aborts, stops>>

(* The worker calls a method its service does not have: the exception ends *)
(* the process, the message stays with the dead consumer, the run waits.   *)
WorkerTakes ==
    /\ \E r \in calls : calls' = calls \ {r} /\ taken' = taken \cup {r}
    /\ UNCHANGED <<current, judging, deciding, ready, applies, bounds>>

-----------------------------------------------------------------------------
(* The exact-target command: one process, one session.                     *)

(* _downstream_counts: what the command finds of a run it is pointed at.   *)
Consumed_NoOutputs(r) == \E o \in forwarded : o[1] = r
Consumed(r) == outputs[r] # <<>>

Forwarded(r) == \E o \in forwarded : o[1] = r

Free == operator.at = "idle" /\ policy["command"].at = "idle"

(* Preflight of a first call, or of a retry that resets the run: the reset *)
(* is committed with the outcome of the call, by nothing before it.        *)
StartCall(r) ==
    /\ Free
    /\ run[r] \in {"pending", "failed_retryable"} /\ ~Consumed(r)
    /\ operator' = [NoCommand EXCEPT !.at = "call", !.of = <<r, Len(outputs[r]) + 1>>]
    /\ UNCHANGED <<current, run, outputs, asked, failures, deciding, streams, bounds>>

(* Preflight of a resume after the output was committed.                   *)
StartResume(r) ==
    /\ Free
    /\ run[r] = "succeeded" /\ Len(outputs[r]) = 1 /\ ~Forwarded(r)
    /\ operator' = [NoCommand EXCEPT !.at = "validate", !.of = <<r, 1>>, !.resumed = TRUE]
    /\ UNCHANGED <<current, run, outputs, asked, failures, deciding, streams, bounds>>

Called == operator.of[1]
Ask == asked' = [asked EXCEPT ![Called] = @ + 1]

(* A structured payload or a refusal.                                      *)
Answered(kind) ==
    /\ operator.at = "call"
    /\ Ask
    /\ operator' = [operator EXCEPT !.at = "commit", !.answer = kind]
    /\ UNCHANGED <<current, run, outputs, failures, deciding, streams, bounds>>

(* No payload: the provider is asked once more, then the run fails.        *)
Unusable_Again ==
    /\ operator.at = "call"
    /\ Ask
    /\ operator' = [operator EXCEPT !.requests = 1]
    /\ UNCHANGED <<current, run, outputs, failures, deciding, streams, bounds>>
Unusable ==
    /\ operator.at = "call"
    /\ Ask
    /\ operator' = IF operator.requests = 0
                   THEN [operator EXCEPT !.requests = 1]
                   ELSE [operator EXCEPT !.at = "commit", !.answer = "failed_terminal"]
    /\ UNCHANGED <<current, run, outputs, failures, deciding, streams, bounds>>

(* The prompt or the request is not usable, or the provider fails.         *)
CallFails(status) ==
    /\ operator.at = "call"
    /\ (asked' = asked \/ Ask)
    /\ status = "failed_retryable" => failures[Called] < MaxFailures
    /\ operator' = [operator EXCEPT !.at = "commit", !.answer = status]
    /\ UNCHANGED <<current, run, outputs, failures, deciding, streams, bounds>>

(* Output, status and event in one transaction, then on to the validator.  *)
CommitOutput ==
    /\ operator.at = "commit" /\ operator.answer \in Kinds
    /\ outputs' = [outputs EXCEPT ![Called] = Append(@, operator.answer)]
    /\ run' = [run EXCEPT ![Called] = "succeeded"]
    /\ ready' = ready \cup {operator.of}
    /\ operator' = [operator EXCEPT !.at = "validate"]
    /\ UNCHANGED <<current, asked, failures, deciding, calls, taken, applies, bounds>>

CommitFailure ==
    /\ operator.at = "commit" /\ operator.answer \notin Kinds
    /\ run' = [run EXCEPT ![Called] = operator.answer]
    /\ failures' = [failures EXCEPT ![Called] =
                       IF operator.answer = "failed_retryable" THEN @ + 1 ELSE @]
    /\ operator' = NoCommand
    /\ UNCHANGED <<current, outputs, asked, deciding, streams, bounds>>

(* The process ends; what its session held is rolled back, what the        *)
(* provider was asked is not.                                              *)
Abort ==
    /\ aborts < MaxAborts /\ ~Free /\ aborts' = aborts + 1
    /\ operator' = NoCommand /\ policy' = [policy EXCEPT !["command"] = Idle]
    /\ UNCHANGED <<current, run, outputs, asked, failures, forwarded, analyses, stale, streams,
                   moves, resends, stops>>

-----------------------------------------------------------------------------
(* The validator, in its worker or in the command.                         *)

(* A resumed command also lets a suppressed skip without comparables pass. *)
Accepted_Resumed(o, resumed) == (Kind(o) = "valid") \/ resumed
Accepted(o, resumed) == Kind(o) = "valid" \/ (resumed /\ Kind(o) = "skip")

(* handle_job: the status is written whatever it was.                      *)
Judge_TransitionOnly(o, status) == UNCHANGED run
Judge_AlwaysRetryable(o, status) == run' = [run EXCEPT ![o[1]] = "failed_retryable"]
Judge(o, status) == run' = [run EXCEPT ![o[1]] = status]
Forward(o) == forwarded' = forwarded \cup {o} /\ applies' = applies \cup ({o} \ forwarded)

Validate(o, resumed) ==
    \/ Kind(o) = "refusal" /\ UNCHANGED <<run, forwarded, applies>>
    \/ Kind(o) = "truncated" /\ Judge(o, "failed_retryable") /\ UNCHANGED <<forwarded, applies>>
    \/ Accepted(o, resumed) /\ Forward(o) /\ UNCHANGED run
    \/ /\ Kind(o) \notin {"refusal", "truncated"} /\ ~Accepted(o, resumed)
       /\ Judge(o, "failed_terminal") /\ UNCHANGED <<forwarded, applies>>

WorkerValidates(o) ==
    /\ o \in ready /\ ready' = ready \ {o}
    /\ Validate(o, FALSE)
    /\ UNCHANGED <<current, outputs, operator, asked, failures, analyses, stale, policy,
                   calls, taken, bounds>>

(* The worker was faster: what the command reads back is a failed run.     *)
ReadBackFails ==
    /\ operator.at = "validate" /\ run[operator.of[1]] # "succeeded"
    /\ operator' = NoCommand
    /\ UNCHANGED <<current, run, outputs, asked, failures, deciding, streams, bounds>>

(* The command goes on when it finds the policy event, whoever wrote it.   *)
CommandValidates ==
    /\ operator.at = "validate"
    /\ Validate(operator.of, operator.resumed)
    /\ operator' = NoCommand
    /\ policy' = [policy EXCEPT !["command"] =
                     IF operator.of \in forwarded' THEN [at |-> "open", of |-> operator.of] ELSE Idle]
    /\ UNCHANGED <<current, outputs, asked, failures, analyses, stale, calls, taken, ready, bounds>>

-----------------------------------------------------------------------------
(* The policy engine, in its worker or in the command: one transaction,    *)
(* each read sees what is committed by then.                               *)

(* An application for another bundle than the current one is dropped.      *)
Open(a, o) ==
    IF current = o[1]
    THEN /\ policy' = [policy EXCEPT ![a] = [at |-> "context", of |-> o]]
         /\ UNCHANGED stale
    ELSE /\ policy' = [policy EXCEPT ![a] = Idle]
         /\ stale' = stale \cup {o}

WorkerOpens(o) ==
    /\ o \in applies /\ policy["worker"].at = "idle"
    /\ Open("worker", o) /\ applies' = applies \ {o}
    /\ UNCHANGED <<current, judging, forwarded, analyses, calls, taken, ready, bounds>>

CommandOpens ==
    /\ policy["command"].at = "open"
    /\ Open("command", policy["command"].of)
    /\ UNCHANGED <<current, judging, forwarded, analyses, streams, bounds>>

Analysed(o) == o \in Range(analyses)

(* The run must have succeeded, and no analysis of the output exist.       *)
Usable(o) == run[o[1]] = "succeeded" /\ ~Analysed(o)

ReadContext(a) ==
    /\ policy[a].at = "context"
    /\ policy' = [policy EXCEPT ![a] = IF Usable(policy[a].of) THEN [@ EXCEPT !.at = "store"] ELSE Idle]
    /\ UNCHANGED <<current, judging, forwarded, analyses, stale, streams, bounds>>

(* insert_analysis_if_absent, and with a row of its own the intent.        *)
Store_Blind(a) ==
    /\ policy[a].at = "store"
    /\ analyses' = Append(analyses, policy[a].of)
    /\ policy' = [policy EXCEPT ![a] = Idle]
    /\ UNCHANGED <<current, judging, forwarded, stale, streams, bounds>>
Store(a) ==
    /\ policy[a].at = "store"
    /\ analyses' = IF Analysed(policy[a].of) THEN analyses ELSE Append(analyses, policy[a].of)
    /\ policy' = [policy EXCEPT ![a] = Idle]
    /\ UNCHANGED <<current, judging, forwarded, stale, streams, bounds>>

(* A worker ends with its message, which nobody claims again.              *)
WorkerStops ==
    /\ stops < MaxStops /\ stops' = stops + 1
    /\ \/ \E o \in ready : ready' = ready \ {o} /\ UNCHANGED policy
       \/ policy["worker"].at # "idle" /\ policy' = [policy EXCEPT !["worker"] = Idle] /\ UNCHANGED ready
    /\ UNCHANGED <<current, judging, forwarded, analyses, stale, calls, taken, applies,
                   moves, aborts, resends>>

-----------------------------------------------------------------------------

Command ==
    \/ \E r \in Runs : StartCall(r) \/ StartResume(r)
    \/ \E kind \in Kinds : Answered(kind)
    \/ Unusable
    \/ \E status \in {"failed_retryable", "failed_terminal"} : CallFails(status)
    \/ CommitOutput \/ CommitFailure \/ ReadBackFails \/ CommandValidates \/ CommandOpens

Validator == \E o \in ready : WorkerValidates(o)
Policy == (\E o \in applies : WorkerOpens(o)) \/ ReadContext("worker") \/ Store("worker")

Next ==
    \/ RequestJudge \/ (\E r \in Runs \cup {NoRun} : Reassemble(r)) \/ Resend
    \/ WorkerTakes \/ Command \/ Abort
    \/ Validator \/ Policy \/ WorkerStops
    \/ ReadContext("command") \/ Store("command")

Spec == Init /\ [][Next]_vars

(* The workers poll for ever; nobody is obliged to run the command.        *)
FairSpec == Spec /\ WF_vars(WorkerTakes) /\ WF_vars(Validator) /\ WF_vars(Policy)

-----------------------------------------------------------------------------

(* The variables keep their shape.                                         *)
TypeOK ==
    /\ current \in Runs \cup {NoRun}
    /\ run \in [Runs -> {"absent", "pending", "succeeded", "failed_retryable", "failed_terminal"}]
    /\ outputs \in [Runs -> Seq(Kinds)]
    /\ forwarded \cup stale \cup ready \cup applies \subseteq Outputs
    /\ analyses \in Seq(Outputs)
    /\ operator.at \in {"idle", "call", "commit", "validate"} /\ operator.requests \in 0..1
    /\ (operator.answer = "none") <=> (operator.at \in {"idle", "call"} \/ operator.resumed)
    /\ \A a \in Actors : policy[a].at \in {"idle", "open", "context", "store"}

(* A run has one output, although the table would take more: what is       *)
(* retried, resumed, rolled back or judged again by the validator never    *)
(* meets a second call.                                                    *)
OneOutputPerRun ==
    \A r \in Runs : Len(outputs[r]) <= 1

(* A try costs at most two calls of responses.create, and there is a new   *)
(* try only after a transient failure or an aborted command.  What is      *)
(* counted are these calls: the provider's client, built with its own      *)
(* retries on, may send each of them up to three times.                    *)
RequestsBounded ==
    \A r \in Runs : asked[r] <= 2 * (1 + failures[r] + aborts)

(* One analysis and one intent of an output, although the worker and the   *)
(* command apply the same event at the same time.                          *)
OneAnalysisPerOutput ==
    \A i, j \in DOMAIN analyses : analyses[i] = analyses[j] => i = j

(* What reaches the operator's chat was judged well and still is: the run  *)
(* of an analysed, notified output is never failed, reset or asked again.  *)
NotifiedStaysSucceeded ==
    \A o \in Range(analyses) :
        Kind(o) # "skip" => Kind(o) = "valid" /\ run[o[1]] = "succeeded"

(* A judged output comes to an end: refused, failed, analysed, or dropped  *)
(* while another bundle was current, unless a worker ended with it.        *)
OutputsSettle ==
    []<>(stops > 0 \/ \A r \in Runs : \A i \in DOMAIN outputs[r] :
            \/ Kind(<<r, i>>) = "refusal" \/ run[r] # "succeeded"
            \/ Analysed(<<r, i>>) \/ <<r, i>> \in stale)

(* Calls with their retries, resumed and aborted commands, two validators  *)
(* and two appliers of one event are one answer for each run, passed or    *)
(* rejected, and one announcement: OneVerdict.                             *)
Verdict == INSTANCE OneVerdict WITH
    passed <- {o[1] : o \in forwarded},
    announced <- [i \in DOMAIN analyses |-> analyses[i][1]]
ImplementsOneVerdict == Verdict!Spec

-----------------------------------------------------------------------------
(* What the documents say and the code does not do.                        *)

(* Documented: the worker consumes the call and decides the run.           *)
CallsDecided ==
    \A r \in Runs : r \in taken ~> run[r] # "pending"
=============================================================================
