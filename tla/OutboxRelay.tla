------------------------------ MODULE OutboxRelay ------------------------------
(***************************************************************************)
(* The outbox relay (src/services/outbox_relay): one process that moves    *)
(* pending rows of the PostgreSQL table event_outbox to Redis Streams.     *)
(*                                                                         *)
(* The relay works for its whole life in ONE session that nobody commits   *)
(* (main.py opens it, run_forever never ends it), so what it writes, the   *)
(* row's status and the job_attempts row that goes with it, is visible to  *)
(* itself and rolled back when the process ends.  The model keeps the      *)
(* committed rows (outbox) apart from the open session (session).          *)
(*                                                                         *)
(* Beside it an operator may publish one row with the command of its event *)
(* type (the bounded_*_publish* modules), one command at a time.  A        *)
(* command reads the committed row, XADDs, marks it and commits.  It does  *)
(* not see what the relay's session wrote, and waits for the lock the      *)
(* session keeps on every row it has written.                              *)
(***************************************************************************)
EXTENDS Naturals, FiniteSets

CONSTANTS
    Events,       \* event ids, numbered in ORDER BY created_at, event_id
    BatchSize,    \* LIMIT of fetch_pending_batch
    Unroutable,   \* events OutboxRouteResolver.resolve raises for
    Excludable,   \* events maintenance may write an exclusion proof for
    Guarded,      \* events whose publish command reads the exclusion proofs
    FailureKept,  \* events whose publish command commits a failed XADD
    MaxStarts,    \* bound: how many times the process is started
    MaxCommands   \* bound: how many publish commands an operator runs

ASSUME EventsAssumption ==
    /\ Events \subseteq Nat
    /\ IsFiniteSet(Events)
    /\ Unroutable \subseteq Events
    /\ Excludable \subseteq Events
    /\ Guarded \cup FailureKept \subseteq Events

ASSUME BoundsAssumption ==
    /\ BatchSize \in Nat \ {0}
    /\ MaxStarts \in Nat \ {0}
    /\ MaxCommands \in Nat

VARIABLES
    outbox,    \* committed status of each row
    proofs,    \* rows with a committed relay exclusion proof
    session,   \* what the relay's open session wrote for each row
    batch,     \* rows fetched and not yet processed
    at,        \* where run_forever stands
    failure,   \* attempt status the except branch is about to record
    copies,    \* entries XADDed so far for each event
    handed,    \* events XADDed since the process started
    since,     \* rows inserted or excluded since the last fetch (history)
    starts,    \* times the process was started
    command,   \* the publish command: [at, of, late], late if of was excluded
               \* after the command selected it (history)
    commands   \* publish commands begun

relay == <<session, batch, at, failure, handed, starts>>
operator == <<command, commands>>
vars == <<outbox, proofs, relay, copies, since, operator>>

RowStatuses == {"absent", "pending", "published", "failed"}
Attempts == {"succeeded", "failed_retryable", "failed_terminal"}

(* A session write pairs mark_published with a succeeded attempt and       *)
(* mark_failed with a failed one, so the attempt names both.               *)
StatusInSession_MarkLost(e) == outbox[e]
StatusInSession(e) ==
    IF session[e] = "none" THEN outbox[e]
    ELSE IF session[e] = "succeeded" THEN "published" ELSE "failed"

Eligible_ProofIgnored(e) == StatusInSession(e) = "pending"
Eligible(e) == StatusInSession(e) = "pending" /\ e \notin proofs

Oldest_Newest(S, n) == {e \in S : Cardinality({f \in S : f > e}) < n}
Oldest(S, n) == {e \in S : Cardinality({f \in S : f < e}) < n}

NoCommand == [at |-> "idle", of |-> {}, late |-> FALSE]

(* The row a publish command is about.                                     *)
Commanded(e) == command.of = {e}

IsNextRow(e) == e \in batch /\ \A f \in batch : e <= f

Init ==
    /\ outbox = [e \in Events |-> "absent"]
    /\ proofs = {}
    /\ session = [e \in Events |-> "none"]
    /\ batch = {}
    /\ at = "stopped"
    /\ failure = "none"
    /\ copies = [e \in Events |-> 0]
    /\ handed = {}
    /\ since = {}
    /\ starts = 0
    /\ command = NoCommand
    /\ commands = 0

-----------------------------------------------------------------------------
(* The rest of the system.                                                 *)

(* A producing service commits an event row.  created_at is the start of   *)
(* its transaction, so rows can become visible out of creation order.      *)
InsertRow(e) ==
    /\ outbox[e] = "absent"
    /\ outbox' = [outbox EXCEPT ![e] = "pending"]
    /\ since' = since \cup {e}
    /\ UNCHANGED <<proofs, relay, copies, operator>>

(* Maintenance commits a receipt or a stale-row proof for the event.       *)
WriteExclusionProof(e) ==
    /\ e \in Excludable \ proofs
    /\ outbox[e] # "absent"
    /\ proofs' = proofs \cup {e}
    /\ since' = since \cup {e}
    /\ command' = [command EXCEPT !.late = @ \/ Commanded(e)]
    /\ UNCHANGED <<outbox, relay, copies, commands>>

-----------------------------------------------------------------------------
(* The relay process.                                                      *)

Start ==
    /\ at = "stopped"
    /\ starts < MaxStarts
    /\ at' = "poll"
    /\ starts' = starts + 1
    /\ UNCHANGED <<outbox, proofs, session, batch, failure, copies, handed, since, operator>>

(* The process ends: cancelled, killed, or a statement failed, after which *)
(* mark_failed fails too and the exception leaves run_forever.  Closing    *)
(* the session rolls back everything it wrote.                             *)
Stop ==
    /\ at # "stopped"
    /\ starts < MaxStarts            \* bound: the last life does not end
    /\ at' = "stopped"
    /\ session' = [e \in Events |-> "none"]
    /\ batch' = {}
    /\ failure' = "none"
    /\ handed' = {}
    /\ UNCHANGED <<outbox, proofs, copies, since, starts, operator>>

FetchPendingBatch ==
    /\ at = "poll"
    /\ batch = {}
    /\ \E e \in Events : Eligible(e)
    /\ batch' = Oldest({e \in Events : Eligible(e)}, BatchSize)
    /\ since' = {}
    /\ UNCHANGED <<outbox, proofs, session, at, failure, copies, handed, starts, operator>>

(* XADD succeeds.                                                          *)
Publish(e) ==
    /\ at = "poll"
    /\ IsNextRow(e)
    /\ e \notin Unroutable
    /\ copies' = [copies EXCEPT ![e] = @ + 1]
    /\ handed' = handed \cup {e}
    /\ at' = "record"
    /\ UNCHANGED <<outbox, proofs, session, batch, failure, since, starts, operator>>

PublishError_Swallowed(e) ==
    /\ at = "poll"
    /\ IsNextRow(e)
    /\ e \notin Unroutable
    /\ at' = "record"
    /\ UNCHANGED <<outbox, proofs, session, batch, failure, copies, handed, since, starts, operator>>

(* XADD raises; the entry may nevertheless have reached the stream.        *)
PublishError(e) ==
    /\ at = "poll"
    /\ IsNextRow(e)
    /\ e \notin Unroutable
    /\ \/ UNCHANGED <<copies, handed>>
       \/ /\ copies' = [copies EXCEPT ![e] = @ + 1]
          /\ handed' = handed \cup {e}
    /\ at' = "except"
    /\ failure' = "failed_retryable"
    /\ UNCHANGED <<outbox, proofs, session, batch, since, starts, operator>>


(* UnsupportedOutboxEventTypeError.                                        *)
RouteError(e) ==
    /\ at = "poll"
    /\ IsNextRow(e)
    /\ e \in Unroutable
    /\ at' = "except"
    /\ failure' = "failed_terminal"
    /\ UNCHANGED <<outbox, proofs, session, batch, copies, handed, since, starts, operator>>

(* mark_published and insert_job_attempt.                                  *)
RecordPublished(e) ==
    /\ at = "record"
    /\ IsNextRow(e)
    /\ session' = [session EXCEPT ![e] = "succeeded"]
    /\ batch' = batch \ {e}
    /\ at' = "poll"
    /\ UNCHANGED <<outbox, proofs, failure, copies, handed, since, starts, operator>>

(* mark_failed and insert_job_attempt.                                     *)
RecordFailed(e) ==
    /\ at = "except"
    /\ IsNextRow(e)
    /\ session' = [session EXCEPT ![e] = failure]
    /\ batch' = batch \ {e}
    /\ at' = "poll"
    /\ failure' = "none"
    /\ UNCHANGED <<outbox, proofs, copies, handed, since, starts, operator>>

ProcessRow(e) ==
    \/ Publish(e) \/ PublishError(e) \/ RouteError(e)
    \/ RecordPublished(e) \/ RecordFailed(e)

RelayStep == FetchPendingBatch \/ \E e \in Events : ProcessRow(e)

-----------------------------------------------------------------------------
(* The operator's publish command.                                         *)

(* The gates pass: the committed row is pending and has a route.  The      *)
(* relay's open session may already have sent it.                          *)
CommandSelects(e) ==
    /\ command.at = "idle"
    /\ commands < MaxCommands
    /\ outbox[e] = "pending"
    /\ e \notin Unroutable
    /\ e \in Guarded => e \notin proofs
    /\ command' = [at |-> "send", of |-> {e}, late |-> FALSE]
    /\ commands' = commands + 1
    /\ UNCHANGED <<outbox, proofs, relay, copies, since>>

(* XADD succeeds.                                                          *)
CommandSends(e) ==
    /\ command.at = "send"
    /\ Commanded(e)
    /\ copies' = [copies EXCEPT ![e] = @ + 1]
    /\ command' = [command EXCEPT !.at = "mark"]
    /\ UNCHANGED <<outbox, proofs, relay, since, commands>>

(* XADD raises, with or without its entry in the stream.  Only the command *)
(* for source messages records that.                                       *)
CommandSendFails(e) ==
    /\ command.at = "send"
    /\ Commanded(e)
    /\ copies' = copies \/ copies' = [copies EXCEPT ![e] = @ + 1]
    /\ command' = IF e \in FailureKept THEN [command EXCEPT !.at = "fail"] ELSE NoCommand
    /\ UNCHANGED <<outbox, proofs, relay, since, commands>>

CommandMarks_SentOnly(e) ==
    /\ command.at = "mark"
    /\ Commanded(e)
    /\ session[e] = "none"
    /\ outbox' = [outbox EXCEPT ![e] = "published"]
    /\ command' = NoCommand
    /\ UNCHANGED <<proofs, relay, copies, since, commands>>

(* mark_published or mark_failed, insert_job_attempt and the commit.  The  *)
(* first of them waits for the row while the relay's session has written   *)
(* it.                                                                     *)
CommandMarks(e) ==
    /\ command.at \in {"mark", "fail"}
    /\ Commanded(e)
    /\ session[e] = "none"
    /\ outbox' = [outbox EXCEPT ![e] = IF command.at = "mark" THEN "published" ELSE "failed"]
    /\ command' = NoCommand
    /\ UNCHANGED <<proofs, relay, copies, since, commands>>

(* The command is killed, or may not or cannot write: its transaction is   *)
(* rolled back, also after the XADD.                                       *)
CommandStops ==
    /\ command.at # "idle"
    /\ command' = NoCommand
    /\ UNCHANGED <<outbox, proofs, relay, copies, since, commands>>

CommandStep == \E e \in Events : CommandSends(e) \/ CommandSendFails(e) \/ CommandMarks(e)

-----------------------------------------------------------------------------
Next ==
    \/ \E e \in Events : InsertRow(e) \/ WriteExclusionProof(e) \/ CommandSelects(e)
    \/ Start \/ Stop
    \/ RelayStep
    \/ CommandStep \/ CommandStops

Spec == Init /\ [][Next]_vars

(* The event loop keeps running the relay and the host restarts it; a      *)
(* command that was begun runs on.                                         *)
FairSpec == Spec /\ WF_vars(RelayStep) /\ WF_vars(Start) /\ WF_vars(CommandStep)

-----------------------------------------------------------------------------

(* Every variable keeps its shape.                                         *)
TypeOK ==
    /\ outbox \in [Events -> RowStatuses]
    /\ proofs \subseteq Events
    /\ session \in [Events -> {"none"} \cup Attempts]
    /\ batch \subseteq Events
    /\ at \in {"stopped", "poll", "record", "except"}
    /\ failure \in {"none", "failed_retryable", "failed_terminal"}
    /\ copies \in [Events -> Nat]
    /\ handed \subseteq Events
    /\ since \subseteq Events
    /\ starts \in 0..MaxStarts
    /\ command \in [at : {"idle", "send", "mark", "fail"}, of : SUBSET Events, late : BOOLEAN]
    /\ commands \in 0..MaxCommands

(* Rows leave in creation order: an older row that waits while a younger   *)
(* one is in the batch became visible only after that batch was fetched.   *)
CreationOrder ==
    \A e \in batch, f \in Events :
        f < e /\ Eligible(f) /\ f \notin batch => f \in since

(* A row is called published only after XADD answered for it: what the     *)
(* relay's session records was handed over in this life, what is committed *)
(* as published is in the stream, and a row whose type has no route never  *)
(* is.                                                                     *)
RecordsFollowXadd ==
    \A e \in Events :
        /\ session[e] = "succeeded" => e \in handed
        /\ at = "record" /\ IsNextRow(e) => e \in handed
        /\ outbox[e] = "published" \/ (command.at = "mark" /\ Commanded(e)) => copies[e] > 0
        /\ e \in Unroutable => copies[e] = 0

(* A row excluded before the batch was fetched is never sent again, also   *)
(* by a relay that lost its marks in a restart; the one exception is an    *)
(* operator's command that selected the row before, or whose type does not *)
(* look at the proofs.                                                     *)
ExcludedStaysOut ==
    [][\A e \in proofs \ since :
          copies'[e] # copies[e] =>
              command.at = "send" /\ Commanded(e) /\ (e \notin Guarded \/ command.late)]_vars

(* Under a running relay every committed row is sent, excluded or recorded *)
(* as failed; a batch full of older rows does not starve the younger ones. *)
EveryRowHandled ==
    \A e \in Events :
        outbox[e] = "pending"
            ~> (copies[e] > 0 \/ e \in proofs \/ StatusInSession(e) = "failed")

(* A publish command ends, unless the relay's session has written its row: *)
(* that session never commits, and the command waits for the row as long   *)
(* as the relay lives.                                                     *)
CommandEnds ==
    command.at # "idle"
        ~> command.at = "idle" \/ \E e \in Events : Commanded(e) /\ session[e] # "none"

-----------------------------------------------------------------------------
(* What other services may rely on.                                        *)
Delivery == INSTANCE AtLeastOnce
    WITH stored <- {e \in Events : outbox[e] # "absent"}, lives <- starts + commands

DeliverySpec == Delivery!Spec
=============================================================================
