--------------------------- MODULE NotificationDelivery ---------------------------
(***************************************************************************)
(* notifier-telegram and the delivery part of maintenance for the plans of *)
(* one dedupe subject and chat.  A plan stands for one analysis and one    *)
(* material hash, as the policy's outbox key has it; several analyses may  *)
(* share a material.  One notifier process runs (the documented            *)
(* concurrency), with one transaction per message in which it also calls   *)
(* Telegram: what a crash rolls back may already be in the chat.           *)
(***************************************************************************)
EXTENDS Naturals, Sequences, FiniteSets, SequencesExt

CONSTANTS
    Arrivals, Material,   \* plans in the policy's order, the material hash of each
    AllowEdits,           \* NOTIFIER_TELEGRAM_ALLOW_EDITS
    MaxAttempts,          \* DELIVERY_RETRY_MAX_ATTEMPTS
    ReplayAllowed,        \* what replay_dispatch_allowed may answer
    None,
    MaxTroubles           \* bounds resent messages, replays, switches and crashes

ASSUME DeliveryAssumption ==
    /\ Arrivals \in Seq(Range(Arrivals)) /\ IsInjective(Arrivals)
    /\ Material \in [Range(Arrivals) -> Range(Material)] /\ None \notin Range(Arrivals)
    /\ AllowEdits \in BOOLEAN /\ ReplayAllowed \subseteq BOOLEAN
    /\ MaxAttempts \in Nat \ {0} /\ MaxTroubles \in Nat

Plans == Range(Arrivals)
Materials == {Material[p] : p \in Plans}

Success == {"sent", "edited"}
Suppressed == {"disabled", "not_modified"}
Terminal == {"terminal", "edit_refused"}
Outcomes == Success \cup Suppressed \cup Terminal \cup {"retryable"}

VARIABLES
    \* PostgreSQL, committed
    status,     \* notification_plans.status, "absent" without a row
    due,        \* failed_retryable plans whose send_after has passed
    records,    \* each plan's delivery records in order
    recent,     \* the plan of the subject's latest successful delivery
    retried,    \* dedupe keys of retry intents
    replay,     \* delivery replay requests in order: plan and state
    dead,       \* dead letters: <<plan, "ceiling">> or <<plan, "terminal">>
    \* Redis
    arrived,    \* how many of Arrivals the policy has sent
    intents,    \* notification.plan.created messages in order
    results,    \* notification.delivery.result messages in order
    \* processes
    enabled,    \* the notifier's transport_enabled
    turn,       \* its open message: step, plan, send or edit, outcome
    scan,       \* the due-retry scan's candidates, {} between scans
    \* Telegram and history
    copies,     \* messages in the chat per material
    unclear,    \* those of them no answer or commit told the notifier of
    resends, replays, switches, stops, restarts

notifierRows == <<status, due, records, recent>>
maintenanceRows == <<retried, replay, dead>>
streams == <<arrived, intents, results>>
chat == <<copies, unclear>>
counters == <<resends, replays, switches, stops, restarts>>
vars == <<notifierRows, maintenanceRows, streams, enabled, turn, scan, chat, counters>>

Spare == resends + replays + switches + stops + restarts < MaxTroubles

Idle == [at |-> "idle", plan |-> None, mode |-> "none", outcome |-> "none"]

Init ==
    /\ status = [p \in Plans |-> "absent"] /\ due = {}
    /\ records = [p \in Plans |-> <<>>] /\ recent = None
    /\ retried = {} /\ replay = <<>> /\ dead = {}
    /\ arrived = 0 /\ intents = <<>> /\ results = <<>>
    /\ enabled \in BOOLEAN /\ turn = Idle /\ scan = {}
    /\ copies = [m \in Materials |-> 0] /\ unclear = [m \in Materials |-> 0]
    /\ resends = 0 /\ replays = 0 /\ switches = 0 /\ stops = 0 /\ restarts = 0

-----------------------------------------------------------------------------
(* Around the services.                                                    *)

Announce ==
    /\ arrived < Len(Arrivals)
    /\ arrived' = arrived + 1 /\ intents' = Append(intents, Arrivals[arrived'])
    /\ UNCHANGED <<notifierRows, maintenanceRows, results, enabled, turn, scan, chat, counters>>

(* A restarted relay sends an intent once more.                            *)
ResendIntent ==
    /\ Spare /\ resends' = resends + 1
    /\ \E k \in 1..arrived : intents' = Append(intents, Arrivals[k])
    /\ UNCHANGED <<notifierRows, maintenanceRows, arrived, results, enabled, turn, scan, chat,
                   replays, switches, stops, restarts>>

(* The operator restarts the notifier with sending turned on or off.       *)
SwitchTransport ==
    /\ turn.at = "idle" /\ Spare
    /\ enabled' = ~enabled /\ switches' = switches + 1
    /\ UNCHANGED <<notifierRows, maintenanceRows, streams, turn, scan, chat, resends,
                   replays, stops, restarts>>

(* send_after, the back-off of a retryable failure, passes.                *)
BecomeDue(p) ==
    /\ status[p] = "failed_retryable" /\ p \notin due
    /\ due' = due \cup {p}
    /\ UNCHANGED <<status, records, recent, maintenanceRows, streams, enabled, turn, scan, chat,
                   counters>>

-----------------------------------------------------------------------------
(* notifier-telegram.                                                      *)

(* The rows load_idempotency_plan_snapshots finds.                         *)
Existing_ThisPlan(p) == {q \in {p} : status[q] # "absent"}
Existing(p) == {q \in Plans : Material[q] = Material[p] /\ status[q] # "absent"}

HasRecord(S, kinds) == \E q \in S : Range(records[q]) \cap kinds # {}

(* _is_stale_suppressed_history_for_live_send: only suppressions so far,   *)
(* and sending is on now.                                                  *)
OnlySuppressed(p) ==
    /\ enabled
    /\ Cardinality(Existing(p)) = 1
    /\ HasRecord(Existing(p), Suppressed)
    /\ ~HasRecord(Existing(p), Success \cup Terminal)

(* should_noop_before_concretization.                                      *)
Decided_SuccessOnly(p) ==
    HasRecord(Existing(p), Success \cup Suppressed) /\ ~OnlySuppressed(p)
Decided(p) ==
    /\ \/ \E q \in Existing(p) : status[q] \in Success \cup {"failed_terminal"}
       \/ HasRecord(Existing(p), Success \cup Suppressed \cup Terminal)
    /\ ~OnlySuppressed(p)

(* The material is claimed by the plan of another analysis.                *)
Reposted_Never(p) == FALSE
Reposted_AnySubjectPlan(p) == \E q \in Plans \ {p} : status[q] # "absent"
Reposted(p) == Existing(p) \ {p} # {}

Deferred_EvenDue(p) == status[p] = "failed_retryable"
Deferred(p) == status[p] = "failed_retryable" /\ p \notin due

Settled(p) == Decided(p) \/ Reposted(p) \/ Deferred(p)

Take(p) ==
    /\ turn.at = "idle" /\ intents # <<>>
    /\ p = Head(intents) /\ intents' = Tail(intents)
    /\ UNCHANGED <<notifierRows, maintenanceRows, arrived, results, enabled, scan, chat, counters>>

(* The message is answered by state transitions only.                      *)
Ignore(p) == Take(p) /\ Settled(p) /\ UNCHANGED turn

(* has_previous_edit_restriction of the plan that was delivered last.      *)
Restricted(p) == HasRecord({p}, {"edit_refused"})

(* decide_delivery_action.  Urgency, primary URL, profile and edit window  *)
(* are data: with a recent message either answer is possible.              *)
DeliveryModes ==
    IF recent = None \/ ~AllowEdits \/ Restricted(recent) THEN {"send"} ELSE {"send", "edit"}

(* Claim, plan row and render, not committed yet.                          *)
Render(p, mode) ==
    /\ Take(p) /\ ~Settled(p) /\ mode \in DeliveryModes
    /\ turn' = [at |-> "transport", plan |-> p, mode |-> mode, outcome |-> "none"]

-----------------------------------------------------------------------------
(* _perform_delivery.                                                      *)

Answer(outcome) ==
    /\ turn.at = "transport"
    /\ turn' = [turn EXCEPT !.at = "commit", !.outcome = outcome]
    /\ UNCHANGED <<notifierRows, maintenanceRows, streams, enabled, scan, counters>>

InChat(p) == copies' = [copies EXCEPT ![Material[p]] = @ + 1]

SkipTransport == ~enabled /\ Answer("disabled") /\ UNCHANGED chat

Deliver ==
    /\ enabled
    /\ \/ turn.mode = "send" /\ Answer("sent") /\ InChat(turn.plan)
       \/ turn.mode = "edit" /\ Answer("edited") /\ UNCHANGED copies
    /\ UNCHANGED unclear

(* A timeout after Telegram took the message: a retryable error.           *)
LoseReply ==
    /\ enabled /\ turn.mode = "send" /\ Answer("retryable")
    /\ InChat(turn.plan)
    /\ unclear' = [unclear EXCEPT ![Material[turn.plan]] = @ + 1]

Refuse ==
    /\ enabled /\ UNCHANGED chat
    /\ \/ Answer("retryable") \/ Answer("terminal")
       \/ turn.mode = "edit" /\ (Answer("not_modified") \/ Answer("edit_refused"))

StatusOf_UnmodifiedIsSent(outcome) ==
    CASE outcome = "disabled" -> "suppressed"
      [] outcome = "not_modified" -> "sent"
      [] outcome \in Terminal -> "failed_terminal"
      [] outcome = "retryable" -> "failed_retryable"
      [] OTHER -> outcome
StatusOf(outcome) ==
    CASE outcome \in Suppressed -> "suppressed"
      [] outcome \in Terminal -> "failed_terminal"
      [] outcome = "retryable" -> "failed_retryable"
      [] OTHER -> outcome

(* Status, send_after, record and result are committed together.           *)
Finish ==
    /\ turn.at = "commit"
    /\ LET p == turn.plan
           k == Len(records[p]) + 1 IN
           /\ status' = [status EXCEPT ![p] = StatusOf(turn.outcome)]
           /\ due' = due \ {p}
           /\ records' = [records EXCEPT ![p] = Append(@, turn.outcome)]
           /\ recent' = IF turn.outcome \in Success THEN p ELSE recent
           /\ results' = Append(results, <<p, k>>)
    /\ turn' = Idle
    /\ UNCHANGED <<maintenanceRows, arrived, intents, enabled, scan, chat, counters>>

(* The process ends: the transaction is rolled back, the message stays     *)
(* pending and is not read again.                                          *)
Stop ==
    /\ turn.at # "idle" /\ Spare
    /\ stops' = stops + 1 /\ turn' = Idle
    /\ unclear' = IF turn.outcome = "sent"
                  THEN [unclear EXCEPT ![Material[turn.plan]] = @ + 1] ELSE unclear
    /\ UNCHANGED <<notifierRows, maintenanceRows, streams, enabled, scan, copies, resends,
                   replays, switches, restarts>>

-----------------------------------------------------------------------------
(* maintenance.                                                            *)

Latest(p) == IF records[p] = <<>> THEN "none" ELSE records[p][Len(records[p])]

(* load_due_retry_candidates, with the attempt count of the last record.   *)
ScanRead ==
    /\ scan = {}
    /\ scan' = {<<p, Len(records[p])>> :
                   p \in {q \in due : status[q] = "failed_retryable" /\ Latest(q) = "retryable"}}
    /\ scan' # {}
    /\ UNCHANGED <<notifierRows, maintenanceRows, streams, enabled, turn, chat, counters>>

Exhausted_OneMore(n) == n > MaxAttempts
Exhausted(n) == n >= MaxAttempts

(* The key also has send_after, which each record sets once.               *)
RetryKey(p, n) == <<p, n>>

(* promote_due_retries_once acts on what it read: a retry intent per new   *)
(* key, one dead letter per plan at the ceiling, one commit for the batch. *)
ScanWrite ==
    /\ scan # {}
    /\ LET retries == {c \in scan : ~Exhausted(c[2])}
           fresh == {c \in retries : RetryKey(c[1], c[2]) \notin retried} IN
           /\ retried' = retried \cup {RetryKey(c[1], c[2]) : c \in fresh}
           /\ \E sent \in SetToSeqs({c[1] : c \in fresh}) : intents' = intents \o sent
           /\ dead' = dead \cup {<<c[1], "ceiling">> : c \in scan \ retries}
    /\ scan' = {}
    /\ UNCHANGED <<notifierRows, replay, arrived, results, enabled, turn, chat, counters>>

(* decide_delivery_result: only the plan's last record is acted on.        *)
IsTerminal(p, k) == k = Len(records[p]) /\ records[p][k] \in Terminal

Record(p, k) ==
    dead' = IF IsTerminal(p, k) THEN dead \cup {<<p, "terminal">>} ELSE dead

HandleResult ==
    /\ results # <<>> /\ results' = Tail(results)
    /\ Record(Head(results)[1], Head(results)[2])
    /\ UNCHANGED <<notifierRows, retried, replay, arrived, intents, enabled, turn, scan, chat,
                   counters>>

(* classify_selected_plan_for_delivery_replay.                             *)
Replayable(p) ==
    /\ [plan |-> p, state |-> "requested"] \notin Range(replay)
    /\ status[p] # "absent" /\ status[p] \notin Success
    /\ (\E kind \in {"ceiling", "terminal"} : <<p, kind>> \in dead)
          \/ Latest(p) \in {"disabled"} \cup Terminal

RequestReplay(p) ==
    /\ Spare /\ Replayable(p)
    /\ replay' = Append(replay, [plan |-> p, state |-> "requested"])
    /\ replays' = replays + 1
    /\ UNCHANGED <<notifierRows, retried, dead, streams, enabled, turn, scan, chat,
                   resends, switches, stops, restarts>>

(* dispatch_delivery_replay_request: each request has a key of its own.    *)
(* The message of a rejected one is not acknowledged and is read again,    *)
(* so it is dispatched when the answer of the environment guard changes.   *)
(* Which of several open requests comes first is left open.                *)
DispatchReplay(r) ==
    /\ replay[r].state # "completed"
    /\ \/ /\ TRUE \in ReplayAllowed
          /\ replay' = [replay EXCEPT ![r].state = "completed"]
          /\ intents' = Append(intents, replay[r].plan)
       \/ /\ FALSE \in ReplayAllowed
          /\ replay' = [replay EXCEPT ![r].state = "rejected_by_env_guard"]
          /\ UNCHANGED intents
    /\ UNCHANGED <<notifierRows, retried, dead, arrived, results, enabled, turn, scan, chat,
                   counters>>

(* maintenance ends: its scan is rolled back, or a result's receipt is     *)
(* committed and not acknowledged; that message is read again.             *)
StopMaintenance ==
    /\ Spare /\ restarts' = restarts + 1
    /\ \/ scan # {} /\ scan' = {} /\ UNCHANGED dead
       \/ results # <<>> /\ Record(Head(results)[1], Head(results)[2]) /\ UNCHANGED scan
    /\ UNCHANGED <<notifierRows, retried, replay, streams, enabled, turn, chat, resends,
                   replays, switches, stops>>

-----------------------------------------------------------------------------

Notify ==
    \/ \E p \in Plans : Ignore(p) \/ \E mode \in {"send", "edit"} : Render(p, mode)
    \/ SkipTransport \/ Deliver \/ LoseReply \/ Refuse
    \/ Finish

Scan == ScanRead \/ ScanWrite

(* The policy's analyses and the clock; both run out.                      *)
Outside == Announce \/ \E p \in Plans : BecomeDue(p)

Next ==
    \/ Notify \/ Stop
    \/ Scan \/ HandleResult \/ StopMaintenance
    \/ \E p \in Plans : RequestReplay(p)
    \/ \E r \in DOMAIN replay : DispatchReplay(r)
    \/ Outside \/ ResendIntent
    \/ SwitchTransport

Spec == Init /\ [][Next]_vars

(* The workers poll for ever, time passes, and one stream feeds each.      *)
FairSpec ==
    /\ Spec
    /\ WF_vars(Outside) /\ WF_vars(Notify) /\ WF_vars(Scan) /\ WF_vars(HandleResult)

-----------------------------------------------------------------------------

(* The variables keep their shape, and the plan the edit rules look at is  *)
(* one whose delivery succeeded.                                           *)
TypeOK ==
    /\ status \in [Plans -> {"absent", "suppressed", "failed_retryable", "failed_terminal"}
                               \cup Success]
    /\ due \subseteq {p \in Plans : status[p] = "failed_retryable"}
    /\ \A p \in Plans : records[p] \in Seq(Outcomes)
    /\ recent # None => status[recent] \in Success
    /\ turn.at \in {"idle", "transport", "commit"}
    /\ turn.at # "idle" => turn.plan \in Plans

(* Reposted analyses share the row of the first.                           *)
OnePlanPerMaterial ==
    \A p, q \in Plans :
        status[p] # "absent" /\ status[q] # "absent" /\ Material[p] = Material[q] => p = q

(* Whatever is sent again, reposted, retried or replayed, and whenever     *)
(* sending is switched: a second message of the same material has an       *)
(* unanswered request or a crash before the commit behind it.              *)
NoSilentDuplicate ==
    \A m \in Materials : copies[m] <= 1 + unclear[m]

(* A message costs at most one attempt, and maintenance adds no message at *)
(* the ceiling: only resent and replayed intents go beyond it.             *)
AttemptsBounded ==
    \A p \in Plans : Len(records[p]) <= MaxAttempts + resends + replays

(* A delivered or terminally failed plan is never touched again, neither   *)
(* by its retries nor by a replay, which may still be dispatched for it.   *)
FinalStays ==
    [][\A p \in Plans :
          status[p] \in Success \cup {"failed_terminal"}
              => status'[p] = status[p] /\ records'[p] = records[p]]_vars

(* A failure comes to an end, also when maintenance ends in its work: a    *)
(* retryable one in another outcome or in the ceiling's dead letter, never *)
(* stranded by the due scan or the keys of its intents, unless a notifier  *)
(* ended with its message; a terminal one in its dead letter, whoever      *)
(* ends, although its result is read later than it was written.            *)
FailuresEnd ==
    []<>(\A p \in Plans :
            /\ status[p] = "failed_retryable" => stops > 0 \/ <<p, "ceiling">> \in dead
            /\ status[p] = "failed_terminal" => <<p, "terminal">> \in dead)

(* Every material gets a plan row, unless a notifier ended with a message: *)
(* no intent is taken for a repost of a material that has none.            *)
EveryMaterialPlanned ==
    []<>(\A p \in Plans : Existing(p) # {} \/ stops > 0)

(* Whoever announces, repeats, retries or replays a material's analyses:   *)
(* for the chat it is one material with attempts up to a final one.        *)
OutcomeOf(m) ==
    LET owners == {p \in Plans : Material[p] = m /\ status[p] # "absent"}
    IN IF owners = {} THEN "absent" ELSE status[CHOOSE p \in owners : TRUE]
Message == INSTANCE OneMessage WITH
    outcome <- [m \in Materials |-> OutcomeOf(m)],
    pending <- IF turn.outcome = "sent" THEN {Material[turn.plan]} ELSE {}
ImplementsOneMessage == Message!Spec

=============================================================================
