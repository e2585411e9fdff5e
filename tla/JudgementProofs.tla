-------------------------- MODULE JudgementProofs --------------------------
(* Proofs about Judgement for any number of runs and any bounds.  The      *)
(* inductive invariant says that a call is only open for a run without an  *)
(* output, and that every event, policy transaction and analysis is about  *)
(* the one output of its run.                                              *)
EXTENDS Judgement, TLAPS

Statuses == {"absent", "pending", "succeeded", "failed_retryable", "failed_terminal"}
Failures == {"failed_retryable", "failed_terminal"}

Phases == {"idle", "call", "commit", "validate"}
Targets == {<<>>} \cup Outputs
Answers == {"none"} \cup Kinds \cup Failures
Commands == [at : Phases, of : Targets, requests : 0..1, answer : Answers, resumed : BOOLEAN]
Turns == [at : {"idle", "open", "context", "store"}, of : Targets]

Types ==
    /\ current \in Runs \cup {NoRun}
    /\ run \in [Runs -> Statuses] /\ outputs \in [Runs -> Seq(Kinds)]
    /\ stale \subseteq Outputs /\ ready \subseteq Outputs /\ forwarded \subseteq Outputs
    /\ analyses \in Seq(Outputs)
    /\ operator \in Commands /\ policy \in [Actors -> Turns]
    /\ asked \in [Runs -> Nat] /\ failures \in [Runs -> Nat] /\ aborts \in Nat

(* The open command: a call is for a run without an output, the validator  *)
(* for an output that is there.                                            *)
Commanded ==
    /\ operator.at \in {"call", "commit"} =>
         /\ operator.of \in Outputs /\ operator.of[2] = 1 /\ ~operator.resumed
         /\ outputs[operator.of[1]] = <<>> /\ run[operator.of[1]] \in {"pending", "failed_retryable"}
    /\ operator.at = "validate" =>
         /\ operator.of \in Outputs /\ operator.of[2] = 1 /\ outputs[operator.of[1]] # <<>>
    /\ operator.at = "idle" => ~operator.resumed
    /\ (operator.answer = "none") <=> (operator.at \in {"idle", "call"} \/ operator.resumed)

(* What is in the streams and tables is about the one output of a run.     *)
About(o) == o \in Outputs /\ o[2] = 1 /\ outputs[o[1]] # <<>>
Events ==
    /\ \A o \in ready \cup forwarded : About(o)
    /\ \A o \in forwarded : Kind(o) \in {"valid", "skip"}
    /\ applies \cup Range(analyses) \cup stale \subseteq forwarded
    /\ \A a \in Actors : policy[a].at # "idle" => policy[a].of \in forwarded

(* A run with an output is decided, and succeeded if it is a usable one.   *)
Decided ==
    \A r \in Runs :
        IF outputs[r] = <<>> THEN run[r] # "succeeded"
        ELSE /\ Len(outputs[r]) = 1
             /\ run[r] \in {"succeeded"} \cup Failures
             /\ outputs[r][1] = "valid" => run[r] = "succeeded"

(* The requests of a run that no failure and no abort accounts for.        *)
Extra(r) ==
    IF outputs[r] # <<>> \/ run[r] = "failed_terminal" THEN 2
    ELSE IF operator.at = "call" /\ operator.of[1] = r THEN operator.requests
    ELSE IF operator.at = "commit" /\ operator.of[1] = r THEN 2 ELSE 0
Costs == \A r \in Runs : asked[r] <= 2 * (failures[r] + aborts) + Extra(r)

IInv == Types /\ Commanded /\ Events /\ Decided /\ Costs /\ OneAnalysisPerOutput

THEOREM InitIInv == Init => IInv
<1> SUFFICES ASSUME Init PROVE IInv
  OBVIOUS
<1> USE DEF Init
<1>1. Types
  BY DEF Types, Commands, Phases, Targets, Answers, Turns, Statuses, Outputs, NoCommand, Idle, Actors
<1>2. Commanded /\ Decided /\ Costs
  BY DEF Commanded, Decided, Costs, Extra, NoCommand
<1>3. Events /\ OneAnalysisPerOutput
  BY DEF Events, OneAnalysisPerOutput, Range, Idle, Actors
<1> QED BY <1>1, <1>2, <1>3 DEF IInv

(* One more analysis keeps the analyses apart if its output had none.      *)
LEMMA AppendAnalysis ==
  ASSUME NEW s \in Seq(Outputs), NEW o \in Outputs
  PROVE  /\ Append(s, o) \in Seq(Outputs)
         /\ Range(Append(s, o)) \subseteq Range(s) \cup {o}
         /\ (\A i, j \in DOMAIN s : s[i] = s[j] => i = j) /\ o \notin Range(s)
              => \A i, j \in DOMAIN Append(s, o) : Append(s, o)[i] = Append(s, o)[j] => i = j
<1>1. /\ Append(s, o) \in Seq(Outputs)
      /\ DOMAIN s = 1..Len(s) /\ DOMAIN Append(s, o) = 1..(Len(s) + 1) /\ Len(s) \in Nat
      /\ Append(s, o)[Len(s) + 1] = o
      /\ \A i \in 1..Len(s) : Append(s, o)[i] = s[i]
  OBVIOUS
<1>2. \A i \in DOMAIN Append(s, o) :
         IF i = Len(s) + 1 THEN Append(s, o)[i] = o
         ELSE i \in DOMAIN s /\ Append(s, o)[i] = s[i] /\ s[i] \in Range(s)
  BY <1>1 DEF Range
<1>3. Range(Append(s, o)) \subseteq Range(s) \cup {o}
  BY <1>2 DEF Range
<1>4. ASSUME \A i, j \in DOMAIN s : s[i] = s[j] => i = j, o \notin Range(s),
             NEW i \in DOMAIN Append(s, o), NEW j \in DOMAIN Append(s, o),
             Append(s, o)[i] = Append(s, o)[j]
      PROVE  i = j
  BY <1>2, <1>4
<1> QED BY <1>1, <1>3, <1>4

(* The steps that touch neither the runs nor what is known of them.        *)
LEMMA Elsewhere ==
  ASSUME IInv, current' \in Runs \cup {NoRun}, UNCHANGED <<judging, forwarded, analyses, aborts>>,
         ready' \subseteq ready \cup {o \in Outputs : o[2] = 1 /\ outputs[o[1]] # <<>>},
         applies' \cup stale' \subseteq forwarded,
         policy' \in [Actors -> Turns],
         \A a \in Actors : policy'[a].at # "idle" => policy'[a].of \in forwarded
  PROVE  IInv'
<1> USE DEF IInv, judging
<1>1. Types'
  BY DEF Types, Events
<1>2. Commanded' /\ Decided' /\ Costs' /\ OneAnalysisPerOutput'
  BY DEF Commanded, Decided, Costs, Extra, OneAnalysisPerOutput
<1>3. Events'
  BY DEF Events, About, Kind
<1> QED BY <1>1, <1>2, <1>3

(* The steps of the command before the commit: it is about a run without   *)
(* output, and every request is counted.                                   *)
LEMMA Calling ==
  ASSUME IInv, UNCHANGED <<run, outputs, failures, deciding, streams, current, aborts>>,
         Types', Commanded', Costs'
  PROVE  IInv'
BY DEF IInv, deciding, streams, Events, About, Kind, Decided, OneAnalysisPerOutput

LEMMA NoCommandFields ==
  /\ NoCommand \in Commands /\ NoCommand.at = "idle" /\ NoCommand.of = <<>>
  /\ NoCommand.requests = 0 /\ NoCommand.answer = "none" /\ NoCommand.resumed = FALSE
BY DEF NoCommand, Commands, Phases, Targets, Answers

(* A call of a run without output is prepared, or the resume of one with.  *)
LEMMA Preflights ==
  ASSUME IInv, NEW r \in Runs, StartCall(r) \/ StartResume(r) PROVE IInv'
<1> USE DEF IInv, Types
<1>1. /\ operator.at = "idle" /\ operator.answer = "none"
      /\ UNCHANGED <<run, outputs, failures, deciding, streams, current, aborts, asked>>
  BY DEF StartCall, StartResume, Free, bounds, Commanded
<1>2. <<r, 1>> \in Outputs /\ <<r, 1>> \in Targets /\ <<r, 1>>[1] = r /\ <<r, 1>>[2] = 1
  BY DEF Outputs, Targets
<1>3. Types' <=> operator' \in Commands
  BY <1>1 DEF deciding, streams
<1>4. CASE StartCall(r)
  <2>1. outputs[r] = <<>> /\ run[r] \in {"pending", "failed_retryable"} /\ Len(outputs[r]) + 1 = 1
    BY <1>4 DEF StartCall, Consumed
  <2>2. operator' = [NoCommand EXCEPT !.at = "call", !.of = <<r, 1>>]
    BY <1>4, <2>1 DEF StartCall
  <2>3. /\ operator' \in Commands /\ operator'.at = "call" /\ operator'.of = <<r, 1>>
        /\ operator'.requests = 0 /\ operator'.answer = "none" /\ operator'.resumed = FALSE
    <3>1. "call" \in Phases /\ 0 \in 0..1 /\ "none" \in Answers /\ FALSE \in BOOLEAN
      BY DEF Phases, Answers
    <3> HIDE DEF IInv, Types
    <3> QED BY <1>2, <2>2, <3>1, NoCommandFields DEF Commands
  <2>4. Commanded'
    BY <1>1, <1>2, <2>1, <2>3 DEF Commanded
  <2>5. Costs'
    BY <1>1, <1>2, <2>1, <2>3 DEF Costs, Extra
  <2> QED BY <1>1, <1>3, <2>3, <2>4, <2>5, Calling
<1>5. CASE StartResume(r)
  <2>1. outputs[r] # <<>>
    <3>1. Len(outputs[r]) = 1 /\ outputs[r] \in Seq(Kinds)
      BY <1>5 DEF StartResume
    <3> HIDE DEF IInv, Types
    <3>2. ASSUME outputs[r] = <<>> PROVE Len(outputs[r]) = 0
      BY <3>2
    <3> QED BY <3>1, <3>2
  <2>2. operator' = [NoCommand EXCEPT !.at = "validate", !.of = <<r, 1>>, !.resumed = TRUE]
    <3> HIDE DEF IInv, Types
    <3> QED BY <1>5, Zenon DEF StartResume
  <2>3. /\ operator' \in Commands /\ operator'.at = "validate" /\ operator'.of = <<r, 1>>
        /\ operator'.requests = 0 /\ operator'.answer = "none" /\ operator'.resumed = TRUE
    <3>1. "validate" \in Phases /\ 0 \in 0..1 /\ "none" \in Answers /\ TRUE \in BOOLEAN
      BY DEF Phases, Answers
    <3> HIDE DEF IInv, Types
    <3> QED BY <1>2, <2>2, <3>1, NoCommandFields DEF Commands
  <2>4. Commanded'
    BY <1>1, <1>2, <2>1, <2>3 DEF Commanded
  <2>5. Costs'
    BY <1>1, <1>2, <2>1, <2>3 DEF Costs, Extra
  <2> QED BY <1>1, <1>3, <2>3, <2>4, <2>5, Calling
<1> QED BY <1>4, <1>5

(* The provider answers, fails, or is asked a second time.                 *)
LEMMA Requests ==
  ASSUME IInv, \/ \E kind \in Kinds : Answered(kind)
               \/ Unusable
               \/ \E status \in Failures : CallFails(status)
  PROVE  IInv'
<1> USE DEF IInv, Types
<1>1. /\ operator.at = "call" /\ operator.of \in Outputs /\ operator.of[2] = 1
      /\ UNCHANGED <<run, outputs, failures, deciding, streams, current, aborts>>
      /\ asked' = asked \/ asked' = [asked EXCEPT ![operator.of[1]] = @ + 1]
      /\ outputs[operator.of[1]] = <<>> /\ run[operator.of[1]] \in {"pending", "failed_retryable"}
      /\ ~operator.resumed /\ operator.answer = "none"
  BY DEF Answered, Unusable, CallFails, bounds, Commanded, Ask, Called
<1>2. operator \in Commands /\ operator.requests \in 0..1 /\ operator.of[1] \in Runs
  BY <1>1 DEF Commands, Outputs
<1>3. /\ operator' \in Commands /\ operator'.of = operator.of /\ operator'.resumed = operator.resumed
      /\ \/ operator'.at = "commit" /\ operator'.answer # "none"
         \/ /\ operator'.at = "call" /\ operator'.answer = "none"
            /\ operator.requests = 0 /\ operator'.requests = 1
  <2>1. \/ \E k \in Kinds \cup Failures : operator' = [operator EXCEPT !.at = "commit", !.answer = k]
        \/ operator.requests = 0 /\ operator' = [operator EXCEPT !.requests = 1]
    BY DEF Answered, Unusable, CallFails, Failures
  <2>2. /\ {"commit", operator.at} \subseteq Phases /\ operator.of \in Targets
        /\ {operator.requests, 1} \subseteq 0..1 /\ operator.resumed \in BOOLEAN
        /\ operator.answer \in Answers /\ (\A k \in Kinds \cup Failures : k \in Answers /\ k # "none")
    BY <1>1, <1>2 DEF Phases, Targets, Answers, Commands, Kinds, Failures
  <2>3. CASE \E k \in Kinds \cup Failures : operator' = [operator EXCEPT !.at = "commit", !.answer = k]
    <3>1. PICK k \in Kinds \cup Failures : operator' = [operator EXCEPT !.at = "commit", !.answer = k]
      BY <2>3
    <3> HIDE DEF IInv, Types
    <3> QED BY <1>1, <1>2, <2>2, <3>1 DEF Commands
  <2>4. CASE operator.requests = 0 /\ operator' = [operator EXCEPT !.requests = 1]
    <3> HIDE DEF IInv, Types
    <3> QED BY <1>1, <1>2, <2>2, <2>4 DEF Commands
  <2> QED BY <2>1, <2>3, <2>4
<1>4. Commanded'
  BY <1>1, <1>3 DEF Commanded
<1>5. Types'
  <2>1. asked' \in [Runs -> Nat]
    <3>1. asked \in [Runs -> Nat]
      OBVIOUS
    <3> HIDE DEF IInv, Types
    <3> QED BY <1>1, <1>2, <3>1
  <2> QED BY <1>1, <1>3, <2>1 DEF deciding, streams
<1>6. Costs'
  <2> SUFFICES ASSUME NEW r \in Runs
               PROVE  asked'[r] <= 2 * (failures[r] + aborts) + Extra(r)'
    BY <1>1 DEF Costs
  <2>1. asked[r] <= 2 * (failures[r] + aborts) + Extra(r)
    BY DEF Costs
  <2>2. CASE r = operator.of[1]
    <3>1. asked[r] \in Nat /\ asked'[r] \in Nat /\ asked'[r] <= asked[r] + 1
      <4>1. asked \in [Runs -> Nat]
        OBVIOUS
      <4> HIDE DEF IInv, Types
      <4>2. asked' = asked \/ asked' = [asked EXCEPT ![r] = @ + 1]
        BY <1>1, <2>2
      <4> QED BY <4>1, <4>2
    <3>2. Extra(r) = operator.requests
      BY <1>1, <2>2 DEF Extra
    <3>3. (Extra(r)' = 2) \/ (operator.requests = 0 /\ Extra(r)' = 1)
      <4>1. outputs'[r] = <<>> /\ run'[r] # "failed_terminal" /\ operator'.of[1] = r
        BY <1>1, <1>3, <2>2
      <4> HIDE DEF IInv, Types
      <4>2. ASSUME operator'.at = "commit" PROVE Extra(r)' = 2
        BY <4>1, <4>2 DEF Extra
      <4>3. ASSUME operator'.at = "call", operator'.requests = 1 PROVE Extra(r)' = 1
        BY <4>1, <4>3 DEF Extra
      <4>4. \/ operator'.at = "commit"
            \/ operator'.at = "call" /\ operator.requests = 0 /\ operator'.requests = 1
        BY <1>3
      <4> QED BY <4>2, <4>3, <4>4
    <3>4. failures[r] \in Nat /\ aborts \in Nat /\ operator.requests \in 0..1
      BY <1>2
    <3> HIDE DEF IInv, Types
    <3> QED BY <2>1, <3>1, <3>2, <3>3, <3>4
  <2>3. CASE r # operator.of[1]
    <3>1. asked'[r] = asked[r]
      BY <1>1, <2>3
    <3>2. Extra(r)' = Extra(r)
      BY <1>1, <1>3, <2>3 DEF Extra
    <3> QED BY <1>1, <2>1, <3>1, <3>2
  <2> QED BY <2>2, <2>3
<1> QED BY <1>1, <1>4, <1>5, <1>6, Calling

(* A command that stops at a failed run leaves everything as it was.       *)
LEMMA ReadsBack ==
  ASSUME IInv, ReadBackFails PROVE IInv'
<1>0. Types /\ Commanded /\ Costs
  BY DEF IInv
<1>1. /\ operator.at = "validate" /\ operator' = NoCommand
      /\ UNCHANGED <<run, outputs, asked, failures, deciding, streams, current, aborts>>
  BY DEF ReadBackFails, bounds
<1>2. Types' /\ Commanded'
  BY <1>0, <1>1, NoCommandFields DEF Types, Commanded, deciding, streams
<1>3. Costs'
  BY <1>0, <1>1, NoCommandFields DEF Costs, Extra
<1> QED BY <1>1, <1>2, <1>3, Calling

(* The output of a run is stored, which had none.                          *)
LEMMA Commits ==
  ASSUME IInv, CommitOutput PROVE IInv'
<1> DEFINE c == operator.of[1]
<1>0. Types /\ Commanded /\ Events /\ Decided /\ Costs /\ OneAnalysisPerOutput
  BY DEF IInv
<1>1. /\ operator.at = "commit" /\ operator.answer \in Kinds /\ operator \in Commands
      /\ UNCHANGED <<current, asked, failures, deciding, applies, aborts>>
      /\ outputs' = [outputs EXCEPT ![c] = Append(@, operator.answer)]
      /\ run' = [run EXCEPT ![c] = "succeeded"]
      /\ ready' = ready \cup {operator.of}
      /\ operator' = [operator EXCEPT !.at = "validate"]
  BY <1>0, Zenon DEF CommitOutput, Called, bounds, Types
<1>2. /\ operator.of \in Outputs /\ operator.of[2] = 1 /\ ~operator.resumed /\ operator.answer # "none"
      /\ outputs[c] = <<>> /\ run[c] \in {"pending", "failed_retryable"} /\ c \in Runs
  BY <1>0, <1>1 DEF Commanded, Outputs
<1>3. /\ operator' \in Commands /\ operator'.at = "validate" /\ operator'.of = operator.of
      /\ operator'.answer = operator.answer /\ operator'.resumed = operator.resumed
  <2>1. "validate" \in Phases
    BY DEF Phases
  <2> QED BY <1>1, <2>1 DEF Commands
<1>4. /\ outputs \in [Runs -> Seq(Kinds)] /\ run \in [Runs -> Statuses]
      /\ asked \in [Runs -> Nat] /\ failures \in [Runs -> Nat] /\ aborts \in Nat
  BY <1>0 DEF Types
<1>5. /\ outputs'[c] \in Seq(Kinds) /\ outputs'[c] # <<>> /\ Len(outputs'[c]) = 1
      /\ run'[c] = "succeeded"
      /\ \A r \in Runs \ {c} : outputs'[r] = outputs[r] /\ run'[r] = run[r]
      /\ outputs' \in [Runs -> Seq(Kinds)] /\ run' \in [Runs -> Statuses]
  <2>1. /\ Append(<<>>, operator.answer) \in Seq(Kinds)
        /\ Len(Append(<<>>, operator.answer)) = 1 /\ Append(<<>>, operator.answer) # <<>>
    BY <1>1
  <2>2. outputs'[c] = Append(<<>>, operator.answer)
    BY <1>1, <1>2, <1>4
  <2>3. "succeeded" \in Statuses
    BY DEF Statuses
  <2> QED BY <1>1, <1>2, <1>4, <2>1, <2>2, <2>3
<1>6. \A o \in Outputs : outputs[o[1]] # <<>> => o[1] \in Runs \ {c} /\ outputs'[o[1]] = outputs[o[1]]
  BY <1>2, <1>5 DEF Outputs
<1>7. Types'
  BY <1>0, <1>1, <1>2, <1>3, <1>5 DEF Types, deciding
<1>8. Commanded'
  BY <1>1, <1>2, <1>3, <1>5 DEF Commanded
<1>9. Events'
  <2>1. \A o \in ready \cup forwarded : About(o)'
    BY <1>0, <1>6 DEF Events, About
  <2>2. About(operator.of)'
    BY <1>2, <1>3, <1>5 DEF About
  <2>3. \A o \in forwarded : Kind(o)' \in {"valid", "skip"}
    BY <1>0, <1>6 DEF Events, About, Kind
  <2> QED BY <1>0, <1>1, <2>1, <2>2, <2>3 DEF Events, deciding
<1>10. Decided'
  <2> SUFFICES ASSUME NEW r \in Runs
               PROVE  IF outputs'[r] = <<>> THEN run'[r] # "succeeded"
                      ELSE /\ Len(outputs'[r]) = 1
                           /\ run'[r] \in {"succeeded"} \cup Failures
                           /\ outputs'[r][1] = "valid" => run'[r] = "succeeded"
    BY DEF Decided
  <2> QED BY <1>0, <1>5 DEF Decided
<1>11. Costs'
  <2> SUFFICES ASSUME NEW r \in Runs
               PROVE  asked[r] <= 2 * (failures[r] + aborts) + Extra(r)'
    BY <1>1 DEF Costs
  <2>1. asked[r] <= 2 * (failures[r] + aborts) + Extra(r)
    BY <1>0 DEF Costs
  <2>2. CASE r = c
    <3>1. Extra(r)' = 2
      BY <1>5, <2>2 DEF Extra
    <3>2. Extra(r) = 2
      BY <1>1, <1>2, <2>2 DEF Extra
    <3> QED BY <2>1, <3>1, <3>2
  <2>3. CASE r # c
    <3>1. Extra(r)' = Extra(r)
      BY <1>1, <1>3, <1>5, <2>3 DEF Extra
    <3> QED BY <2>1, <3>1
  <2> QED BY <2>2, <2>3
<1>12. OneAnalysisPerOutput'
  BY <1>0, <1>1 DEF OneAnalysisPerOutput, deciding
<1> QED BY <1>7, <1>8, <1>9, <1>10, <1>11, <1>12 DEF IInv

(* A failed call leaves the run without output, and retryable or finished. *)
LEMMA Fails ==
  ASSUME IInv, CommitFailure PROVE IInv'
<1> DEFINE c == operator.of[1]
<1>0. Types /\ Commanded /\ Events /\ Decided /\ Costs /\ OneAnalysisPerOutput
  BY DEF IInv
<1>1. /\ operator.at = "commit" /\ operator.answer \notin Kinds /\ operator \in Commands
      /\ UNCHANGED <<current, outputs, asked, deciding, streams, aborts>>
      /\ run' = [run EXCEPT ![c] = operator.answer]
      /\ failures' = [failures EXCEPT ![c] =
                         IF operator.answer = "failed_retryable" THEN @ + 1 ELSE @]
      /\ operator' = NoCommand
  BY <1>0, Zenon DEF CommitFailure, Called, bounds, Types
<1>2. /\ operator.of \in Outputs /\ ~operator.resumed /\ operator.answer \in Failures
      /\ outputs[c] = <<>> /\ run[c] \in {"pending", "failed_retryable"} /\ c \in Runs
  BY <1>0, <1>1 DEF Commanded, Outputs, Commands, Answers
<1>3. /\ run \in [Runs -> Statuses] /\ Failures \subseteq Statuses
      /\ asked \in [Runs -> Nat] /\ failures \in [Runs -> Nat] /\ aborts \in Nat
  BY <1>0 DEF Types, Failures, Statuses
<1>4. /\ run'[c] = operator.answer /\ run' \in [Runs -> Statuses]
      /\ \A r \in Runs \ {c} : run'[r] = run[r] /\ failures'[r] = failures[r]
  BY <1>1, <1>2, <1>3
<1>5. /\ failures' \in [Runs -> Nat] /\ failures[c] \in Nat
      /\ failures'[c] = IF operator.answer = "failed_retryable" THEN failures[c] + 1 ELSE failures[c]
  BY <1>1, <1>2, <1>3
<1>6. Types'
  BY <1>0, <1>1, <1>4, <1>5, NoCommandFields DEF Types, deciding, streams
<1>7. Commanded'
  BY <1>1, NoCommandFields DEF Commanded
<1>8. Events' /\ OneAnalysisPerOutput'
  BY <1>0, <1>1 DEF Events, About, Kind, OneAnalysisPerOutput, deciding, streams
<1>9. Decided'
  <2>1. operator.answer # "succeeded"
    BY <1>2 DEF Failures
  <2> QED BY <1>0, <1>1, <1>2, <1>4, <2>1 DEF Decided
<1>10. Costs'
  <2> SUFFICES ASSUME NEW r \in Runs
               PROVE  asked[r] <= 2 * (failures'[r] + aborts) + Extra(r)'
    BY <1>1 DEF Costs
  <2>1. asked[r] <= 2 * (failures[r] + aborts) + Extra(r) /\ failures[r] \in Nat /\ asked[r] \in Nat
    BY <1>0, <1>3 DEF Costs
  <2>2. CASE r = c
    <3>1. Extra(r) = 2
      BY <1>1, <1>2, <2>2 DEF Extra
    <3>2. CASE operator.answer = "failed_retryable"
      <4>1. Extra(r)' = 0
        BY <1>1, <1>2, <1>4, <2>2, <3>2, NoCommandFields DEF Extra
      <4> QED BY <1>3, <1>5, <2>1, <2>2, <3>1, <3>2, <4>1
    <3>3. CASE operator.answer = "failed_terminal"
      <4>1. Extra(r)' = 2
        BY <1>4, <2>2, <3>3 DEF Extra
      <4> QED BY <1>3, <1>5, <2>1, <2>2, <3>1, <3>3, <4>1
    <3> QED BY <1>2, <3>2, <3>3 DEF Failures
  <2>3. CASE r # c
    <3>1. Extra(r)' = Extra(r)
      BY <1>1, <1>4, <2>3, NoCommandFields DEF Extra
    <3> QED BY <1>4, <2>1, <2>3, <3>1
  <2> QED BY <2>2, <2>3
<1> QED BY <1>6, <1>7, <1>8, <1>9, <1>10 DEF IInv

(* A command that ends leaves at most two requests without an output.      *)
LEMMA Aborts ==
  ASSUME IInv, Abort PROVE IInv'
<1>0. Types /\ Commanded /\ Events /\ Decided /\ Costs /\ OneAnalysisPerOutput
  BY DEF IInv
<1>1. /\ UNCHANGED <<current, run, outputs, asked, failures, forwarded, analyses, stale, streams>>
      /\ operator' = NoCommand /\ policy' = [policy EXCEPT !["command"] = Idle]
      /\ aborts' = aborts + 1
  BY Zenon DEF Abort
<1>2. /\ aborts \in Nat /\ policy \in [Actors -> Turns] /\ Idle \in Turns /\ Idle.at = "idle"
      /\ asked \in [Runs -> Nat] /\ failures \in [Runs -> Nat]
  BY <1>0 DEF Types, Turns, Targets, Idle
<1>3. policy' \in [Actors -> Turns] /\ \A a \in Actors : policy'[a] \in {policy[a], Idle}
  BY <1>1, <1>2
<1>4. Types'
  BY <1>0, <1>1, <1>2, <1>3, NoCommandFields DEF Types, streams
<1>5. Commanded'
  BY <1>1, NoCommandFields DEF Commanded
<1>6. Events' /\ Decided' /\ OneAnalysisPerOutput'
  <2>1. Decided' /\ OneAnalysisPerOutput'
    BY <1>0, <1>1 DEF Decided, OneAnalysisPerOutput
  <2>2. \A a \in Actors : policy'[a].at # "idle" => policy'[a].of \in forwarded
    BY <1>0, <1>2, <1>3 DEF Events
  <2>3. Events'
    BY <1>0, <1>1, <2>2 DEF Events, About, Kind, streams
  <2> QED BY <2>1, <2>3
<1>7. Costs'
  <2> SUFFICES ASSUME NEW r \in Runs
               PROVE  asked[r] <= 2 * (failures[r] + (aborts + 1)) + Extra(r)'
    BY <1>1 DEF Costs
  <2>1. asked[r] <= 2 * (failures[r] + aborts) + Extra(r) /\ failures[r] \in Nat /\ asked[r] \in Nat
    BY <1>0, <1>2 DEF Costs
  <2>2. Extra(r) \in 0..2
    BY <1>0 DEF Extra, Types, Commands
  <2>3. Extra(r)' = IF outputs[r] # <<>> \/ run[r] = "failed_terminal" THEN 2 ELSE 0
    BY <1>1, NoCommandFields DEF Extra
  <2>4. CASE outputs[r] # <<>> \/ run[r] = "failed_terminal"
    BY <1>2, <2>1, <2>2, <2>3, <2>4
  <2>5. CASE ~(outputs[r] # <<>> \/ run[r] = "failed_terminal")
    BY <1>2, <2>1, <2>2, <2>3, <2>5
  <2> QED BY <2>4, <2>5
<1> QED BY <1>4, <1>5, <1>6, <1>7 DEF IInv

(* The validator decides a run that has its output, and forwards only what *)
(* it finds usable.                                                        *)
LEMMA Validated ==
  ASSUME IInv, NEW o, About(o), NEW b \in BOOLEAN, Validate(o, b)
  PROVE  /\ run' \in [Runs -> Statuses] /\ forwarded' \subseteq forwarded \cup {o}
         /\ forwarded \subseteq forwarded' /\ applies' \subseteq applies \cup {o}
         /\ applies' \subseteq forwarded'
         /\ o \in forwarded' => o \in forwarded \/ Kind(o) \in {"valid", "skip"}
         /\ \A r \in Runs : \/ run'[r] = run[r]
                            \/ /\ r = o[1] /\ Kind(o) # "valid"
                               /\ run'[r] \in Failures
<1>0. Types /\ applies \subseteq forwarded /\ o \in Outputs
  BY DEF IInv, Events, About
<1>1. run \in [Runs -> Statuses] /\ Failures \subseteq Statuses /\ o[1] \in Runs
  BY <1>0 DEF Types, Statuses, Failures, Outputs
<1>2. CASE UNCHANGED <<run, forwarded, applies>>
  BY <1>0, <1>1, <1>2
<1>3. CASE \E s \in Failures : Judge(o, s) /\ Kind(o) # "valid" /\ UNCHANGED <<forwarded, applies>>
  <2>1. PICK s \in Failures : /\ run' = [run EXCEPT ![o[1]] = s] /\ Kind(o) # "valid"
                              /\ UNCHANGED <<forwarded, applies>>
    BY <1>3 DEF Judge
  <2>2. /\ run' \in [Runs -> Statuses] /\ run'[o[1]] = s
        /\ \A r \in Runs \ {o[1]} : run'[r] = run[r]
    BY <1>1, <2>1
  <2> QED BY <1>0, <2>1, <2>2
<1>4. CASE Accepted(o, b) /\ Forward(o) /\ UNCHANGED run
  <2>1. Kind(o) \in {"valid", "skip"}
    BY <1>4 DEF Accepted
  <2>2. /\ forwarded' = forwarded \cup {o} /\ applies' = applies \cup ({o} \ forwarded)
        /\ run' = run
    BY <1>4 DEF Forward
  <2> QED BY <1>0, <1>1, <2>1, <2>2
<1>5. \/ UNCHANGED <<run, forwarded, applies>>
      \/ \E s \in Failures : Judge(o, s) /\ Kind(o) # "valid" /\ UNCHANGED <<forwarded, applies>>
      \/ Accepted(o, b) /\ Forward(o) /\ UNCHANGED run
  <2>1. CASE Kind(o) = "refusal" /\ UNCHANGED <<run, forwarded, applies>>
    BY <2>1
  <2>2. CASE Kind(o) = "truncated" /\ Judge(o, "failed_retryable") /\ UNCHANGED <<forwarded, applies>>
    BY <2>2 DEF Failures
  <2>3. CASE /\ Kind(o) \notin {"refusal", "truncated"} /\ ~Accepted(o, b)
             /\ Judge(o, "failed_terminal") /\ UNCHANGED <<forwarded, applies>>
    <3>1. Kind(o) # "valid"
      BY <2>3 DEF Accepted
    <3> QED BY <2>3, <3>1 DEF Failures
  <2> QED BY <2>1, <2>2, <2>3 DEF Validate
<1> QED BY <1>2, <1>3, <1>4, <1>5

LEMMA Judged ==
  ASSUME IInv, NEW o, About(o), NEW b \in BOOLEAN, Validate(o, b),
         UNCHANGED <<current, outputs, asked, failures, aborts, analyses, stale>>,
         ready' \subseteq ready,
         operator' = operator \/ (operator.at = "validate" /\ operator' = NoCommand),
         policy' \in [Actors -> Turns],
         \A a \in Actors : policy'[a].at # "idle" => policy'[a].of \in forwarded'
  PROVE  IInv'
<1>0. Types /\ Commanded /\ Events /\ Decided /\ Costs /\ OneAnalysisPerOutput
  BY DEF IInv
<1>1. /\ run' \in [Runs -> Statuses] /\ forwarded' \subseteq forwarded \cup {o}
      /\ forwarded \subseteq forwarded' /\ applies' \subseteq applies \cup {o}
      /\ applies' \subseteq forwarded'
      /\ o \in forwarded' => o \in forwarded \/ Kind(o) \in {"valid", "skip"}
  BY Validated
<1>2. \A r \in Runs : \/ run'[r] = run[r]
                      \/ r = o[1] /\ Kind(o) # "valid" /\ run'[r] \in Failures
  BY Validated
<1>3. o \in Outputs /\ o[2] = 1 /\ o[1] \in Runs /\ outputs[o[1]] # <<>> /\ Kind(o) = outputs[o[1]][1]
  BY DEF About, Outputs, Kind
<1>4. operator' \in Commands
  BY <1>0, NoCommandFields DEF Types
<1>5. Types'
  BY <1>0, <1>1, <1>3, <1>4 DEF Types
<1>6. Commanded'
  <2>1. CASE operator' = operator
    <3>1. operator.at \in {"call", "commit"} => run'[operator.of[1]] = run[operator.of[1]]
      BY <1>0, <1>2, <1>3 DEF Commanded, Outputs
    <3> QED BY <1>0, <2>1, <3>1 DEF Commanded
  <2>2. CASE operator' = NoCommand
    BY <2>2, NoCommandFields DEF Commanded
  <2> QED BY <2>1, <2>2
<1>7. Events'
  <2>1. \A p \in ready' \cup forwarded' : About(p)'
    BY <1>0, <1>1 DEF Events, About
  <2>2. \A p \in forwarded' : Kind(p)' \in {"valid", "skip"}
    BY <1>0, <1>1 DEF Events, Kind
  <2> QED BY <1>0, <1>1, <2>1, <2>2 DEF Events
<1>8. Decided'
  <2> SUFFICES ASSUME NEW r \in Runs
               PROVE  IF outputs[r] = <<>> THEN run'[r] # "succeeded"
                      ELSE /\ Len(outputs[r]) = 1
                           /\ run'[r] \in {"succeeded"} \cup Failures
                           /\ outputs[r][1] = "valid" => run'[r] = "succeeded"
    BY DEF Decided
  <2>1. CASE run'[r] = run[r]
    BY <1>0, <2>1 DEF Decided
  <2>2. CASE r = o[1] /\ Kind(o) # "valid" /\ run'[r] \in Failures
    BY <1>0, <1>3, <2>2 DEF Decided
  <2> QED BY <1>2, <2>1, <2>2
<1>9. Costs'
  <2> SUFFICES ASSUME NEW r \in Runs PROVE Extra(r)' = Extra(r)
    BY <1>0 DEF Costs
  <2>1. CASE outputs[r] # <<>>
    BY <2>1 DEF Extra
  <2>2. CASE outputs[r] = <<>>
    <3>1. run'[r] = run[r]
      BY <1>2, <1>3, <2>2
    <3>2. CASE operator' = operator
      BY <2>2, <3>1, <3>2 DEF Extra
    <3>3. CASE operator.at = "validate" /\ operator' = NoCommand
      BY <2>2, <3>1, <3>3, NoCommandFields DEF Extra
    <3> QED BY <3>2, <3>3
  <2> QED BY <2>1, <2>2
<1>10. OneAnalysisPerOutput'
  BY <1>0 DEF OneAnalysisPerOutput
<1> QED BY <1>5, <1>6, <1>7, <1>8, <1>9, <1>10 DEF IInv

(* The validator in its worker and in the command.                         *)
LEMMA Validations ==
  ASSUME IInv, (\E o \in ready : WorkerValidates(o)) \/ CommandValidates PROVE IInv'
<1>0. Types /\ Commanded /\ Events
  BY DEF IInv
<1>1. CASE \E o \in ready : WorkerValidates(o)
  <2>1. PICK o \in ready : WorkerValidates(o)
    BY <1>1
  <2>2. About(o) /\ FALSE \in BOOLEAN
    BY <1>0 DEF Events
  <2>3. /\ Validate(o, FALSE) /\ ready' \subseteq ready
        /\ UNCHANGED <<current, outputs, asked, failures, aborts, analyses, stale, operator, policy>>
    BY <2>1 DEF WorkerValidates, bounds
  <2>4. forwarded \subseteq forwarded'
    BY <2>2, <2>3, Validated
  <2>5. /\ policy' \in [Actors -> Turns]
        /\ \A a \in Actors : policy'[a].at # "idle" => policy'[a].of \in forwarded'
    BY <1>0, <2>3, <2>4 DEF Types, Events
  <2> QED BY <2>2, <2>3, <2>5, Judged
<1>2. CASE CommandValidates
  <2> DEFINE o == operator.of
  <2>1. /\ operator.at = "validate" /\ operator \in Commands /\ Validate(o, operator.resumed)
        /\ operator' = NoCommand /\ ready' = ready
        /\ policy' = [policy EXCEPT !["command"] =
                         IF o \in forwarded' THEN [at |-> "open", of |-> o] ELSE Idle]
        /\ UNCHANGED <<current, outputs, asked, failures, aborts, analyses, stale>>
    BY <1>0, <1>2, Zenon DEF CommandValidates, bounds, Types
  <2>2. About(o) /\ operator.resumed \in BOOLEAN /\ o \in Targets
    BY <1>0, <2>1 DEF Commanded, About, Commands
  <2>3. forwarded \subseteq forwarded'
    BY <2>1, <2>2, Validated
  <2>4. policy \in [Actors -> Turns]
    BY <1>0 DEF Types
  <2>5. /\ [at |-> "open", of |-> o] \in Turns /\ [at |-> "open", of |-> o].of = o
        /\ Idle \in Turns /\ Idle.at = "idle"
    BY <2>2 DEF Turns, Idle, Targets
  <2>6. /\ policy' \in [Actors -> Turns]
        /\ \A a \in Actors : \/ policy'[a] = policy[a] \/ policy'[a] = Idle
                             \/ o \in forwarded' /\ policy'[a] = [at |-> "open", of |-> o]
    BY <2>1, <2>4, <2>5
  <2>7. \A a \in Actors : policy'[a].at # "idle" => policy'[a].of \in forwarded'
    BY <1>0, <2>3, <2>5, <2>6 DEF Events
  <2> QED BY <2>1, <2>2, <2>6, <2>7, Judged
<1> QED BY <1>1, <1>2

(* A transaction of the policy engine opens, reads, or is dropped: it is   *)
(* about a forwarded output throughout.                                    *)
LEMMA Applications ==
  ASSUME IInv, \/ \E o \in applies : WorkerOpens(o)
               \/ CommandOpens
               \/ \E a \in Actors : ReadContext(a)
  PROVE  IInv'
<1>0. /\ policy \in [Actors -> Turns] /\ applies \cup stale \subseteq forwarded
      /\ forwarded \subseteq Outputs /\ current \in Runs \cup {NoRun}
      /\ \A a \in Actors : policy[a].at # "idle" => policy[a].of \in forwarded
  BY DEF IInv, Types, Events
<1>1. /\ \A o \in Outputs : [at |-> "context", of |-> o] \in Turns
      /\ \A t \in Turns : [t EXCEPT !.at = "store"] \in Turns /\ [t EXCEPT !.at = "store"].of = t.of
      /\ Idle \in Turns /\ Idle.at = "idle"
  <2>1. \A o \in Outputs : [at |-> "context", of |-> o] \in Turns
    BY DEF Turns, Targets
  <2>2. Idle \in Turns /\ Idle.at = "idle"
    BY DEF Turns, Targets, Idle
  <2>3. "store" \in {"idle", "open", "context", "store"}
    OBVIOUS
  <2>4. \A t \in Turns : [t EXCEPT !.at = "store"] \in Turns /\ [t EXCEPT !.at = "store"].of = t.of
    BY <2>3 DEF Turns
  <2> QED BY <2>1, <2>2, <2>4
<1>2. ASSUME NEW a \in Actors, NEW o \in forwarded, Open(a, o)
      PROVE  /\ policy' \in [Actors -> Turns] /\ stale' \subseteq forwarded
             /\ \A x \in Actors : policy'[x].at # "idle" => policy'[x].of \in forwarded
  <2>1. /\ \/ policy' = [policy EXCEPT ![a] = [at |-> "context", of |-> o]]
           \/ policy' = [policy EXCEPT ![a] = Idle]
        /\ stale' \subseteq stale \cup {o}
    BY <1>2 DEF Open
  <2>2. CASE policy' = [policy EXCEPT ![a] = [at |-> "context", of |-> o]]
    BY <1>0, <1>1, <2>1, <2>2
  <2>3. CASE policy' = [policy EXCEPT ![a] = Idle]
    BY <1>0, <1>1, <2>1, <2>3
  <2> QED BY <2>1, <2>2, <2>3
<1>3. CASE \E o \in applies : WorkerOpens(o)
  <2>1. PICK o \in applies : WorkerOpens(o)
    BY <1>3
  <2>2. /\ Open("worker", o) /\ "worker" \in Actors /\ o \in forwarded /\ applies' \subseteq forwarded
        /\ UNCHANGED <<current, judging, forwarded, analyses, aborts, ready>>
    BY <1>0, <2>1 DEF WorkerOpens, Actors, bounds
  <2>3. /\ policy' \in [Actors -> Turns] /\ stale' \subseteq forwarded
        /\ \A x \in Actors : policy'[x].at # "idle" => policy'[x].of \in forwarded
    BY <1>2, <2>2
  <2> QED BY <1>0, <2>2, <2>3, Elsewhere
<1>4. CASE CommandOpens
  <2> DEFINE o == policy["command"].of
  <2>1. /\ Open("command", o) /\ "command" \in Actors /\ policy["command"].at = "open"
        /\ UNCHANGED <<current, judging, forwarded, analyses, aborts, ready, applies>>
    BY <1>4 DEF CommandOpens, Actors, streams, bounds
  <2>2. o \in forwarded
    BY <1>0, <2>1
  <2>3. /\ policy' \in [Actors -> Turns] /\ stale' \subseteq forwarded
        /\ \A x \in Actors : policy'[x].at # "idle" => policy'[x].of \in forwarded
    BY <1>2, <2>1, <2>2
  <2> QED BY <1>0, <2>1, <2>3, Elsewhere
<1>5. CASE \E a \in Actors : ReadContext(a)
  <2>1. PICK a \in Actors : ReadContext(a)
    BY <1>5
  <2>2. /\ policy[a].at = "context"
        /\ \/ policy' = [policy EXCEPT ![a] = [policy[a] EXCEPT !.at = "store"]]
           \/ policy' = [policy EXCEPT ![a] = Idle]
        /\ UNCHANGED <<current, judging, forwarded, analyses, stale, aborts, ready, applies>>
    BY <1>0, <2>1 DEF ReadContext, streams, bounds
  <2>3. policy[a] \in Turns /\ policy[a].of \in forwarded
    BY <1>0, <2>2
  <2>4. \E t \in Turns : /\ policy' = [policy EXCEPT ![a] = t]
                         /\ t.at # "idle" => t.of \in forwarded
    BY <1>1, <2>2, <2>3
  <2>5. /\ policy' \in [Actors -> Turns]
        /\ \A x \in Actors : policy'[x].at # "idle" => policy'[x].of \in forwarded
    BY <1>0, <2>4
  <2> QED BY <1>0, <2>2, <2>5, Elsewhere
<1> QED BY <1>3, <1>4, <1>5

(* An analysis is stored unless its output has one.                        *)
LEMMA Stores ==
  ASSUME IInv, NEW a \in Actors, Store(a) PROVE IInv'
<1> DEFINE o == policy[a].of
<1>0. Types /\ Commanded /\ Events /\ Decided /\ Costs /\ OneAnalysisPerOutput
  BY DEF IInv
<1>1. /\ policy[a].at = "store" /\ policy' = [policy EXCEPT ![a] = Idle]
      /\ analyses' = IF Analysed(o) THEN analyses ELSE Append(analyses, o)
      /\ UNCHANGED <<current, judging, forwarded, stale, aborts, ready, applies>>
  BY Zenon DEF Store, streams, bounds
<1>2. /\ policy \in [Actors -> Turns] /\ Idle \in Turns /\ Idle.at = "idle"
      /\ o \in forwarded /\ o \in Outputs /\ analyses \in Seq(Outputs)
  BY <1>0, <1>1 DEF Types, Events, Turns, Targets, Idle
<1>3. /\ policy' \in [Actors -> Turns]
      /\ \A x \in Actors : policy'[x].at # "idle" => policy'[x].of \in forwarded
  BY <1>0, <1>1, <1>2 DEF Events
<1>4. /\ analyses' \in Seq(Outputs) /\ Range(analyses') \subseteq Range(analyses) \cup {o}
      /\ OneAnalysisPerOutput'
  <2>1. CASE Analysed(o)
    BY <1>0, <1>1, <1>2, <2>1 DEF OneAnalysisPerOutput
  <2>2. CASE ~Analysed(o)
    <3>1. analyses' = Append(analyses, o) /\ o \notin Range(analyses)
      BY <1>1, <2>2 DEF Analysed
    <3> QED BY <1>0, <1>2, <3>1, AppendAnalysis DEF OneAnalysisPerOutput
  <2> QED BY <2>1, <2>2
<1>5. Types'
  BY <1>0, <1>1, <1>3, <1>4 DEF Types, judging
<1>6. Commanded' /\ Decided' /\ Costs'
  BY <1>0, <1>1 DEF Commanded, Decided, Costs, Extra, judging
<1>7. Events'
  BY <1>0, <1>1, <1>2, <1>3, <1>4 DEF Events, About, Kind, judging
<1> QED BY <1>4, <1>5, <1>6, <1>7 DEF IInv

(* A requested call makes an absent run pending.                           *)
LEMMA Requested ==
  ASSUME IInv, RequestJudge PROVE IInv'
<1>0. Types /\ Commanded /\ Events /\ Decided /\ Costs /\ OneAnalysisPerOutput
  BY DEF IInv
<1>1. /\ current \in Runs /\ run[current] = "absent"
      /\ run' = [run EXCEPT ![current] = "pending"]
      /\ UNCHANGED <<current, outputs, operator, asked, failures, deciding, ready, applies, aborts>>
  BY DEF RequestJudge, bounds
<1>2. run \in [Runs -> Statuses] /\ "pending" \in Statuses
  BY <1>0 DEF Types, Statuses
<1>3. /\ run' \in [Runs -> Statuses] /\ run'[current] = "pending"
      /\ \A r \in Runs \ {current} : run'[r] = run[r]
  BY <1>1, <1>2
<1>4. outputs[current] = <<>>
  BY <1>0, <1>1 DEF Decided, Failures
<1>5. Types'
  BY <1>0, <1>1, <1>3 DEF Types, deciding
<1>6. Commanded'
  <2>1. operator.at \in {"call", "commit"} => run'[operator.of[1]] = run[operator.of[1]]
    BY <1>0, <1>1, <1>3 DEF Commanded, Outputs
  <2> QED BY <1>0, <1>1, <2>1 DEF Commanded
<1>7. Decided'
  BY <1>0, <1>1, <1>3, <1>4 DEF Decided
<1>8. Costs'
  <2> SUFFICES ASSUME NEW r \in Runs PROVE Extra(r)' = Extra(r)
    BY <1>0, <1>1 DEF Costs
  <2>1. run'[r] = "failed_terminal" <=> run[r] = "failed_terminal"
    BY <1>1, <1>3
  <2> QED BY <1>1, <2>1 DEF Extra
<1>9. Events' /\ OneAnalysisPerOutput'
  BY <1>0, <1>1 DEF Events, About, Kind, OneAnalysisPerOutput, deciding
<1> QED BY <1>5, <1>6, <1>7, <1>8, <1>9 DEF IInv

(* What comes from elsewhere, and what a worker loses.                     *)
LEMMA Surroundings ==
  ASSUME IInv, \/ \E r \in Runs \cup {NoRun} : Reassemble(r)
               \/ Resend \/ WorkerTakes \/ WorkerStops
               \/ UNCHANGED vars
  PROVE  IInv'
<1>0. /\ Types /\ Events /\ Decided /\ current \in Runs \cup {NoRun} /\ policy \in [Actors -> Turns]
  BY DEF IInv, Types
<1>1. CASE (\E r \in Runs \cup {NoRun} : Reassemble(r)) \/ WorkerTakes \/ UNCHANGED vars
  BY <1>0, <1>1, Elsewhere DEF Reassemble, WorkerTakes, vars, deciding, streams, bounds, Events
<1>2. CASE Resend
  <2>1. /\ UNCHANGED <<current, judging, deciding, aborts>>
        /\ ready' = ready \/ \E r \in Runs : \E i \in DOMAIN outputs[r] : ready' = ready \cup {<<r, i>>}
        /\ applies' = applies \/ \E o \in forwarded : applies' = applies \cup {o}
    BY <1>2 DEF Resend, bounds
  <2>2. ASSUME NEW r \in Runs, NEW i \in DOMAIN outputs[r]
        PROVE  i = 1 /\ <<r, i>> \in Outputs /\ outputs[r] # <<>>
    <3>1. outputs[r] \in Seq(Kinds) /\ i \in 1..Len(outputs[r])
      BY <1>0 DEF Types
    <3>2. outputs[r] # <<>>
      BY <3>1
    <3>3. Len(outputs[r]) = 1
      BY <1>0, <3>2 DEF Decided
    <3> QED BY <3>1, <3>2, <3>3 DEF Outputs
  <2>3. ready' \subseteq ready \cup {o \in Outputs : o[2] = 1 /\ outputs[o[1]] # <<>>}
    BY <2>1, <2>2
  <2> QED BY <1>0, <2>1, <2>3, Elsewhere DEF deciding, Events
<1>3. CASE WorkerStops
  <2>1. /\ UNCHANGED <<current, judging, forwarded, analyses, stale, applies, aborts>>
        /\ ready' \subseteq ready
        /\ policy' = policy \/ policy' = [policy EXCEPT !["worker"] = Idle]
    BY <1>3 DEF WorkerStops
  <2>2. Idle \in Turns /\ Idle.at = "idle"
    BY DEF Turns, Targets, Idle
  <2>3. /\ policy' \in [Actors -> Turns]
        /\ \A x \in Actors : policy'[x].at # "idle" => policy'[x].of \in forwarded
    BY <1>0, <2>1, <2>2 DEF Events
  <2> QED BY <1>0, <2>1, <2>3, Elsewhere DEF Events
<1> QED BY <1>1, <1>2, <1>3

(* Every step keeps the inductive invariant.                               *)
THEOREM StepIInv == IInv /\ [Next]_vars => IInv'
<1> SUFFICES ASSUME IInv, [Next]_vars PROVE IInv'
  OBVIOUS
<1>1. CASE RequestJudge
  BY <1>1, Requested
<1>2. CASE (\E r \in Runs \cup {NoRun} : Reassemble(r)) \/ Resend \/ WorkerTakes \/ WorkerStops \/ UNCHANGED vars
  BY <1>2, Surroundings
<1>3. CASE Command
  <2>1. CASE \E r \in Runs : StartCall(r) \/ StartResume(r)
    BY <2>1, Preflights
  <2>2. CASE \/ \E kind \in Kinds : Answered(kind)
             \/ Unusable
             \/ \E status \in Failures : CallFails(status)
    BY <2>2, Requests
  <2>3. CASE CommitOutput \/ CommitFailure
    BY <2>3, Commits, Fails
  <2>4. CASE ReadBackFails \/ CommandValidates
    BY <2>4, ReadsBack, Validations
  <2>5. CASE CommandOpens
    BY <2>5, Applications
  <2> QED BY <1>3, <2>1, <2>2, <2>3, <2>4, <2>5 DEF Command, Failures
<1>4. CASE Abort
  BY <1>4, Aborts
<1>5. CASE Validator
  BY <1>5, Validations DEF Validator
<1>6. CASE Policy \/ ReadContext("command") \/ Store("command")
  <2>1. "worker" \in Actors /\ "command" \in Actors
    BY DEF Actors
  <2>2. CASE (\E o \in applies : WorkerOpens(o)) \/ \E a \in Actors : ReadContext(a)
    BY <2>2, Applications
  <2>3. CASE \E a \in Actors : Store(a)
    BY <2>3, Stores
  <2> QED BY <1>6, <2>1, <2>2, <2>3 DEF Policy
<1> QED BY <1>1, <1>2, <1>3, <1>4, <1>5, <1>6 DEF Next

THEOREM Invariance == Spec => []IInv
BY InitIInv, StepIInv, PTL DEF Spec

(* Whatever runs, bounds and crashes: the variables keep their shape.      *)
THEOREM TypeCorrect == Spec => []TypeOK
<1>1. IInv => TypeOK
  <2> SUFFICES ASSUME IInv PROVE TypeOK
    OBVIOUS
  <2>1. \A a \in Actors : policy[a].at \in {"idle", "open", "context", "store"}
    BY DEF IInv, Types, Turns
  <2>2. operator.at \in {"idle", "call", "commit", "validate"} /\ operator.requests \in 0..1
    BY DEF IInv, Types, Commands, Phases
  <2>3. forwarded \cup stale \cup ready \cup applies \subseteq Outputs
    BY DEF IInv, Types, Events
  <2> QED BY <2>1, <2>2, <2>3 DEF IInv, Types, Commanded, TypeOK, Statuses
<1> QED BY <1>1, Invariance, PTL

(* A run never has two outputs, although the table has no constraint that  *)
(* forbids it and a run may be called again and again.                     *)
THEOREM OneOutput == Spec => []OneOutputPerRun
<1>1. IInv => OneOutputPerRun
  <2> SUFFICES ASSUME IInv, NEW r \in Runs PROVE Len(outputs[r]) <= 1
    BY DEF OneOutputPerRun
  <2>1. CASE outputs[r] = <<>>
    BY <2>1
  <2>2. CASE outputs[r] # <<>>
    <3>1. Decided
      BY DEF IInv
    <3>2. Len(outputs[r]) = 1
      BY <2>2, <3>1 DEF Decided
    <3> QED BY <3>2
  <2> QED BY <2>1, <2>2
<1> QED BY <1>1, Invariance, PTL

(* A run costs two requests for each try, and a try more only for each     *)
(* transient failure and each aborted command.                             *)
THEOREM BoundedCost == Spec => []RequestsBounded
<1>1. IInv => RequestsBounded
  <2> SUFFICES ASSUME IInv, NEW r \in Runs
               PROVE  asked[r] <= 2 * (1 + failures[r] + aborts)
    BY DEF RequestsBounded
  <2>1. asked[r] \in Nat /\ failures[r] \in Nat /\ aborts \in Nat /\ Extra(r) \in 0..2
    BY DEF IInv, Types, Extra, Commands
  <2>2. asked[r] <= 2 * (failures[r] + aborts) + Extra(r)
    BY DEF IInv, Costs
  <2> QED BY <2>1, <2>2
<1> QED BY <1>1, Invariance, PTL

(* An output is analysed and announced once, whoever applies it.           *)
THEOREM OneAnalysis == Spec => []OneAnalysisPerOutput
<1>1. IInv => OneAnalysisPerOutput
  BY DEF IInv
<1> QED BY <1>1, Invariance, PTL

(* What was announced was judged well, and its run stays decided so.       *)
THEOREM Announced == Spec => []NotifiedStaysSucceeded
<1>1. IInv => NotifiedStaysSucceeded
  <2> SUFFICES ASSUME IInv, NEW o \in Range(analyses), Kind(o) # "skip"
               PROVE  Kind(o) = "valid" /\ run[o[1]] = "succeeded"
    BY DEF NotifiedStaysSucceeded
  <2>1. o \in forwarded /\ Kind(o) = "valid"
    BY DEF IInv, Events
  <2>2. o \in Outputs /\ o[2] = 1 /\ outputs[o[1]] # <<>>
    BY <2>1 DEF IInv, Events, About
  <2>3. o[1] \in Runs /\ outputs[o[1]][1] = "valid"
    BY <2>1, <2>2 DEF Kind, Outputs
  <2> QED BY <2>1, <2>2, <2>3 DEF IInv, Decided
<1> QED BY <1>1, Invariance, PTL

-----------------------------------------------------------------------------
(* The refinement of OneVerdict.                                           *)

(* The runs of a sequence of outputs, one output more and in range.        *)
LEMMA RunsOf ==
  ASSUME NEW s \in Seq(Outputs), NEW o \in Outputs
  PROVE  /\ [i \in DOMAIN Append(s, o) |-> Append(s, o)[i][1]]
              = Append([i \in DOMAIN s |-> s[i][1]], o[1])
         /\ Range([i \in DOMAIN s |-> s[i][1]]) = {q[1] : q \in Range(s)}
<1> DEFINE first == [i \in DOMAIN s |-> s[i][1]]
           longer == [i \in DOMAIN Append(s, o) |-> Append(s, o)[i][1]]
<1>1. /\ Len(s) \in Nat /\ DOMAIN s = 1..Len(s) /\ DOMAIN Append(s, o) = 1..(Len(s) + 1)
      /\ Append(s, o)[Len(s) + 1] = o /\ \A i \in 1..Len(s) : Append(s, o)[i] = s[i]
      /\ \A i \in 1..Len(s) : s[i] \in Outputs
  OBVIOUS
<1>2. o[1] \in Runs /\ \A i \in 1..Len(s) : s[i][1] \in Runs
  BY <1>1 DEF Outputs
<1>3. first = [i \in 1..Len(s) |-> s[i][1]]
  BY <1>1
<1>4. first \in Seq(Runs) /\ Len(first) = Len(s)
  BY <1>1, <1>2, <1>3
<1>5. longer = [i \in 1..(Len(s) + 1) |-> Append(s, o)[i][1]]
  BY <1>1
<1>6. longer = Append(first, o[1])
  <2>1. /\ Append(first, o[1]) = [i \in 1..(Len(s) + 1) |->
                                      IF i <= Len(s) THEN first[i] ELSE o[1]]
    BY <1>1, <1>2, <1>4
  <2>2. \A i \in 1..(Len(s) + 1) :
           Append(s, o)[i][1] = IF i <= Len(s) THEN first[i] ELSE o[1]
    BY <1>1, <1>3
  <2> QED BY <1>5, <2>1, <2>2
<1>7. Range(first) = {q[1] : q \in Range(s)}
  BY <1>3, <1>1 DEF Range
<1> QED BY <1>6, <1>7

(* A validator passes or rejects the answer it is about, or leaves it.     *)
LEMMA ValidationDecides ==
  ASSUME IInv, NEW o \in Outputs, About(o), NEW resumed \in BOOLEAN, Validate(o, resumed),
         UNCHANGED <<outputs, analyses>>
  PROVE  [Verdict!Next]_(Verdict!verdicts)
<1> DEFINE r == o[1]
<1>1. /\ r \in Runs /\ o = <<r, 1>> /\ Len(outputs[r]) = 1
      /\ Kind(o) = outputs[r][1] /\ Kind(o) \in Kinds
  <2>1. r \in Runs /\ o = <<r, 1>> /\ outputs[r] # <<>> /\ outputs[r] \in Seq(Kinds)
    BY DEF About, Outputs, IInv, Types
  <2>2. Len(outputs[r]) = 1
    BY <2>1 DEF IInv, Decided
  <2> QED BY <2>1, <2>2 DEF Kind
<1>2. Range(outputs[r]) = {Kind(o)}
  <2>1. outputs[r] \in Seq(Kinds) /\ DOMAIN outputs[r] = {1}
    BY <1>1 DEF IInv, Types
  <2> QED BY <1>1, <2>1 DEF Range
<1>3. ASSUME Judge(o, IF Kind(o) = "truncated" THEN "failed_retryable" ELSE "failed_terminal"),
             Kind(o) \in {"skip", "truncated", "invalid"}, UNCHANGED forwarded
      PROVE  Verdict!Reject(r)
  <2>1. run' = [run EXCEPT ![r] = IF "truncated" \in Range(outputs[r]) THEN "failed_retryable"
                                  ELSE "failed_terminal"]
    BY <1>2, <1>3 DEF Judge
  <2>2. Range(outputs[r]) \cap Verdict!Rejectable # {}
    BY <1>2, <1>3 DEF Verdict!Rejectable
  <2> QED BY <1>3, <2>1, <2>2 DEF Verdict!Reject, Verdict!Range, Range
<1>4. ASSUME Forward(o), Kind(o) \in {"valid", "skip"}, UNCHANGED run
      PROVE  Verdict!Pass(r)
  <2>1. {q[1] : q \in forwarded'} = {q[1] : q \in forwarded} \cup {r}
    BY <1>4 DEF Forward
  <2>2. Range(outputs[r]) \cap Verdict!Passable # {}
    BY <1>2, <1>4 DEF Verdict!Passable
  <2> QED BY <1>4, <2>1, <2>2 DEF Verdict!Pass, Verdict!Range, Range
<1>5. \/ UNCHANGED <<run, forwarded>>
      \/ Verdict!Reject(r)
      \/ Verdict!Pass(r)
  <2>1. CASE Kind(o) = "refusal" /\ UNCHANGED <<run, forwarded, applies>>
    BY <2>1
  <2>2. CASE Kind(o) = "truncated" /\ Judge(o, "failed_retryable") /\ UNCHANGED <<forwarded, applies>>
    BY <1>3, <2>2
  <2>3. CASE Accepted(o, resumed) /\ Forward(o) /\ UNCHANGED run
    BY <1>4, <2>3 DEF Accepted
  <2>4. CASE /\ Kind(o) \notin {"refusal", "truncated"} /\ ~Accepted(o, resumed)
             /\ Judge(o, "failed_terminal") /\ UNCHANGED <<forwarded, applies>>
    BY <1>1, <1>3, <2>4 DEF Accepted, Kinds
  <2> QED BY <2>1, <2>2, <2>3, <2>4 DEF Validate
<1> QED BY <1>1, <1>5 DEF Verdict!Next, Verdict!verdicts

(* An applier announces a run that was passed and not announced before.    *)
LEMMA StoreAnnounces ==
  ASSUME IInv, NEW a \in Actors, Store(a)
  PROVE  [Verdict!Next]_(Verdict!verdicts)
<1> DEFINE o == policy[a].of
           r == o[1]
<1>1. /\ UNCHANGED <<run, outputs, forwarded>>
      /\ analyses' = IF Analysed(o) THEN analyses ELSE Append(analyses, o)
      /\ o \in forwarded /\ analyses \in Seq(Outputs)
      /\ \A q \in forwarded : q \in Outputs /\ q[2] = 1
      /\ Range(analyses) \subseteq forwarded
  BY DEF Store, judging, IInv, Types, Events, About
<1>2. CASE Analysed(o)
  BY <1>1, <1>2 DEF Verdict!verdicts
<1>3. CASE ~Analysed(o)
  <2>1. r \in Runs /\ r \in {q[1] : q \in forwarded} /\ o \in Outputs
    BY <1>1 DEF Outputs
  <2>2. ASSUME NEW q \in Range(analyses) PROVE q[1] # r
    <3>1. q \in Outputs /\ q[2] = o[2] /\ q # o
      BY <1>1, <1>3, <2>2 DEF Analysed
    <3> QED BY <2>1, <3>1 DEF Outputs
  <2>3. r \notin Range([i \in DOMAIN analyses |-> analyses[i][1]])
    <3>1. Range([i \in DOMAIN analyses |-> analyses[i][1]]) = {q[1] : q \in Range(analyses)}
      BY <1>1, <2>1, RunsOf
    <3> QED BY <2>2, <3>1
  <2>4. analyses' = Append(analyses, o)
    BY <1>1, <1>3
  <2>5. [i \in DOMAIN analyses |-> analyses[i][1]]' = Append([i \in DOMAIN analyses |-> analyses[i][1]], r)
    BY <1>1, <2>1, <2>4, RunsOf
  <2>6. PICK v \in Runs : v = r
    BY <2>1
  <2>7. Verdict!Announce(v)
    BY <1>1, <2>1, <2>3, <2>5, <2>6 DEF Verdict!Announce, Verdict!Range, Range
  <2> QED BY <2>7 DEF Verdict!Next
<1> QED BY <1>2, <1>3

(* The command's commits: one answer, or a failure, of an open run.        *)
LEMMA CommitAnswers ==
  ASSUME IInv, CommitOutput \/ CommitFailure
  PROVE  [Verdict!Next]_(Verdict!verdicts)
<1> DEFINE r == operator.of[1]
<1>1. /\ r \in Runs /\ outputs[r] = <<>> /\ run[r] \in {"pending", "failed_retryable"}
      /\ operator.answer \in Answers \ {"none"} /\ outputs \in [Runs -> Seq(Kinds)]
      /\ UNCHANGED <<forwarded, analyses>>
  BY DEF CommitOutput, CommitFailure, IInv, Types, Commands, Commanded, Outputs, deciding
<1>2. Verdict!Open(r)
  BY <1>1 DEF Verdict!Open
<1>3. CASE CommitOutput
  <2>1. outputs' = [outputs EXCEPT ![r] = <<operator.answer>>]
    BY <1>1, <1>3 DEF CommitOutput, Called
  <2>2. operator.answer \in Verdict!Passable \cup Verdict!Rejectable \cup {"refusal"}
    BY <1>3 DEF CommitOutput, Kinds, Verdict!Passable, Verdict!Rejectable
  <2>3. run' = [run EXCEPT ![r] = "succeeded"]
    BY <1>3 DEF CommitOutput, Called
  <2>4. Verdict!Answer(r)
    BY <1>1, <1>2, <2>1, <2>2, <2>3 DEF Verdict!Answer
  <2> QED BY <1>1, <2>4 DEF Verdict!Next
<1>4. CASE CommitFailure
  <2>1. run' = [run EXCEPT ![r] = operator.answer] /\ operator.answer \in Failures /\ UNCHANGED outputs
    BY <1>1, <1>4 DEF CommitFailure, Called, Answers
  <2>2. Verdict!Fail(r)
    BY <1>1, <1>2, <2>1 DEF Verdict!Fail, Failures
  <2> QED BY <1>1, <2>2 DEF Verdict!Next
<1> QED BY <1>3, <1>4

(* Everything else the readers of runs and analyses do not see.            *)
LEMMA OthersUnseen ==
  ASSUME \/ \E r \in Runs : StartCall(r) \/ StartResume(r)
         \/ \E kind \in Kinds : Answered(kind)
         \/ \E status \in Failures : CallFails(status)
         \/ Unusable \/ ReadBackFails \/ CommandOpens \/ Abort
         \/ \E r \in Runs \cup {NoRun} : Reassemble(r)
         \/ Resend \/ WorkerTakes \/ WorkerStops
         \/ \E o \in applies : WorkerOpens(o)
         \/ \E a \in Actors : ReadContext(a)
         \/ UNCHANGED vars
  PROVE  UNCHANGED Verdict!verdicts
<1>1. UNCHANGED <<run, outputs, forwarded, analyses>>
  BY DEF StartCall, StartResume, Answered, CallFails, Unusable, ReadBackFails, CommandOpens, Abort,
         Reassemble, Resend, WorkerTakes, WorkerStops, WorkerOpens, ReadContext,
         vars, judging, deciding
<1> QED BY <1>1 DEF Verdict!verdicts

(* A step of Judgement is a step of a run, or nobody's.                    *)
LEMMA StepVerdict == IInv /\ [Next]_vars => [Verdict!Next]_(Verdict!verdicts)
<1> SUFFICES ASSUME IInv, [Next]_vars PROVE [Verdict!Next]_(Verdict!verdicts)
  OBVIOUS
<1>1. CASE RequestJudge
  <2>1. Verdict!Request(current) /\ current \in Runs
    BY <1>1 DEF RequestJudge, deciding, Verdict!Request
  <2> QED BY <2>1 DEF Verdict!Next
<1>2. CASE CommitOutput \/ CommitFailure
  BY <1>2, CommitAnswers
<1>3. CASE CommandValidates
  <2>1. /\ About(operator.of) /\ operator.resumed \in BOOLEAN
        /\ Validate(operator.of, operator.resumed) /\ UNCHANGED <<outputs, analyses>>
    BY <1>3 DEF CommandValidates, IInv, Types, Commands, Commanded, About
  <2> QED BY <2>1, ValidationDecides DEF About
<1>4. ASSUME NEW o \in ready, WorkerValidates(o) PROVE [Verdict!Next]_(Verdict!verdicts)
  <2>1. About(o) /\ Validate(o, FALSE) /\ UNCHANGED <<outputs, analyses>>
    BY <1>4 DEF WorkerValidates, IInv, Events
  <2> QED BY <2>1, ValidationDecides DEF About
<1>5. CASE Store("worker") \/ Store("command")
  BY <1>5, StoreAnnounces DEF Actors
<1>6. ASSUME \/ \E r \in Runs : StartCall(r) \/ StartResume(r)
             \/ \E kind \in Kinds : Answered(kind)
             \/ \E status \in Failures : CallFails(status)
             \/ Unusable \/ ReadBackFails \/ CommandOpens \/ Abort
             \/ \E r \in Runs \cup {NoRun} : Reassemble(r)
             \/ Resend \/ WorkerTakes \/ WorkerStops
             \/ \E o \in applies : WorkerOpens(o)
             \/ \E a \in Actors : ReadContext(a)
             \/ UNCHANGED vars
      PROVE  [Verdict!Next]_(Verdict!verdicts)
  BY <1>6, OthersUnseen
<1>7. "worker" \in Actors /\ "command" \in Actors
  BY DEF Actors
<1> QED BY <1>1, <1>2, <1>3, <1>4, <1>5, <1>6, <1>7
        DEF Next, Command, Validator, Policy, Failures

(* Whatever the number of runs, of retries, crashes and resent events: a   *)
(* run has one answer that is passed or rejected, and what was passed is   *)
(* announced once.                                                         *)
THEOREM Implements == Spec => ImplementsOneVerdict
<1>1. Init => Verdict!Init
  <2> SUFFICES ASSUME Init PROVE Verdict!Init
    OBVIOUS
  <2>1. {o[1] : o \in forwarded} = {} /\ [i \in DOMAIN analyses |-> analyses[i][1]] = <<>>
    BY DEF Init
  <2> QED BY <2>1 DEF Init, Verdict!Init
<1> QED BY <1>1, StepVerdict, Invariance, PTL DEF Spec, ImplementsOneVerdict, Verdict!Spec

(* A run with a valid answer keeps it, and stays a success, whatever is    *)
(* called, resumed, validated again or lost afterwards.                    *)
THEOREM ForGood == Spec => Verdict!ValidForGood
<1> DEFINE Keeps(r) == "valid" \in Verdict!Range(outputs[r]) =>
                          outputs'[r] = outputs[r] /\ run'[r] = run[r]
           Keep == \A r \in Runs : Keeps(r)
<1>1. IInv /\ [Verdict!Next]_(Verdict!verdicts) => Keep
  <2> SUFFICES ASSUME IInv, [Verdict!Next]_(Verdict!verdicts), NEW r \in Runs,
                      "valid" \in Verdict!Range(outputs[r])
               PROVE  outputs'[r] = outputs[r] /\ run'[r] = run[r]
    OBVIOUS
  <2>1. outputs[r] \in Seq(Kinds) /\ outputs[r] # <<>>
    BY DEF IInv, Types, Verdict!Range
  <2>2. Len(outputs[r]) = 1 /\ run[r] \in {"succeeded"} \cup Failures
    BY <2>1 DEF IInv, Decided
  <2>3. Verdict!Range(outputs[r]) = {"valid"} /\ run[r] # "absent"
    BY <2>1, <2>2 DEF Verdict!Range, Failures
  <2>4. ASSUME NEW q \in Runs, Verdict!Request(q) \/ Verdict!Answer(q) \/ Verdict!Fail(q) \/ Verdict!Reject(q)
        PROVE  outputs'[r] = outputs[r] /\ run'[r] = run[r]
    <3>1. q # r
      BY <2>1, <2>3, <2>4 DEF Verdict!Request, Verdict!Answer, Verdict!Fail, Verdict!Reject,
                              Verdict!Open, Verdict!Rejectable
    <3>2. DOMAIN run = Runs /\ DOMAIN outputs = Runs
      BY DEF IInv, Types
    <3> QED BY <2>4, <3>1, <3>2 DEF Verdict!Request, Verdict!Answer, Verdict!Fail, Verdict!Reject
  <2>5. ASSUME NEW q \in Runs, Verdict!Pass(q) \/ Verdict!Announce(q)
        PROVE  outputs'[r] = outputs[r] /\ run'[r] = run[r]
    BY <2>5 DEF Verdict!Pass, Verdict!Announce
  <2>6. CASE UNCHANGED Verdict!verdicts
    BY <2>6 DEF Verdict!verdicts
  <2> QED BY <2>4, <2>5, <2>6 DEF Verdict!Next
<1>2. IInv /\ [Next]_vars => [Keep]_(Verdict!verdicts)
  BY <1>1, StepVerdict
<1> HIDE DEF Keep
<1>3. Spec => [][Keep]_(Verdict!verdicts)
  BY <1>2, Invariance, PTL DEF Spec
<1> QED BY <1>3 DEF Keep, Verdict!ValidForGood
=============================================================================
