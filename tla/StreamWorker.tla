------------------------------ MODULE StreamWorker ------------------------------
(***************************************************************************)
(* One Redis stream, its consumer group and the worker process that drains *)
(* it.  Every service's worker.py and redis_streams.py has this shape: the *)
(* group is created at id 0, entries are read, handled one by one and      *)
(* acknowledged.  Services differ in what they do about an exception and   *)
(* about entries that were delivered and not acknowledged:                 *)
(*   "stop"    an exception leaves run_forever and the process ends;       *)
(*             XREADGROUP asks for new entries only (eight services)       *)
(*   "skip"    the handler's is logged and the entry left; new entries     *)
(*             only (router-normalizer)                                    *)
(*   "decide"  as skip, also for XACK; the handler's result decides about  *)
(*             the acknowledgement, and what is pending is read again      *)
(*             before anything new (both workers of maintenance)           *)
(***************************************************************************)
EXTENDS Naturals, Sequences, FiniteSets

CONSTANTS
    Jobs,         \* trigger_event_id of the messages
    Malformed,    \* messages without a usable trigger_event_id
    MaxEntries,   \* bound: entries added to the stream
    MaxLen,       \* MAXLEN ~ of XADD
    BatchSize,    \* COUNT of XREADGROUP
    MaxStops      \* bound: how often the process ends

ASSUME StreamAssumption ==
    /\ Malformed \subseteq Jobs
    /\ MaxEntries \in Nat /\ MaxStops \in Nat
    /\ MaxLen \in Nat \ {0} /\ BatchSize \in Nat \ {0}

Policies == {"stop", "skip", "decide"}

VARIABLES
    policy,    \* what the service does about an exception
    log,       \* entries in the order of their ids
    first,     \* oldest entry the stream still holds
    last,      \* the group's last-delivered entry
    pel,       \* delivered, not acknowledged
    acked,     \* acknowledged
    lost,      \* trimmed before the group saw them
    batch,     \* entries of the last read that are still to be processed
    at,        \* "down", "read", "handle" or "ack"
    blank,     \* entries of the batch that came back without their fields
    committed, \* entries whose handler's transaction has committed
    abandoned, \* left pending, never read again: the handler or the process failed (history)
    stops

vars == <<policy, log, first, last, pel, acked, lost, batch, at, blank, committed, abandoned, stops>>

Entries == 1..MaxEntries
Current_Newest(i) == i \in batch /\ \A j \in batch : j <= i
Current(i) == i \in batch /\ \A j \in batch : i <= j
Oldest(S, n) == {i \in S : Cardinality({j \in S : j < i}) < n}

Init ==
    /\ policy \in Policies
    /\ log = <<>>
    /\ first = 1 /\ last = 0
    /\ pel = {} /\ acked = {} /\ lost = {}
    /\ batch = {}
    /\ at = "down"
    /\ blank = {} /\ committed = {} /\ abandoned = {}
    /\ stops = 0

(* XADD with an approximate cap: Redis may drop old entries as long as the *)
(* newest MaxLen stay.                                                     *)
Add(j) ==
    /\ Len(log) < MaxEntries
    /\ log' = Append(log, j)
    /\ first' \in {f \in first..(Len(log) + 1) : f = first \/ Len(log) + 2 - f >= MaxLen}
    /\ lost' = lost \cup {i \in first..(first' - 1) : i > last}
    /\ UNCHANGED <<policy, last, pel, acked, batch, at, blank, committed, abandoned, stops>>

-----------------------------------------------------------------------------

(* ensure_group: creating a group that exists answers BUSYGROUP, ignored.  *)
Start_AtStreamEnd ==
    /\ at = "down"
    /\ at' = "read"
    /\ last' = IF stops = 0 THEN Len(log) ELSE last
    /\ UNCHANGED <<policy, log, first, pel, acked, lost, batch, blank, committed, abandoned, stops>>
Start ==
    /\ at = "down"
    /\ at' = "read"
    /\ UNCHANGED <<policy, log, first, last, pel, acked, lost, batch, blank, committed, abandoned, stops>>

(* Where only new entries are read nobody comes back for these.            *)
Abandon(S) == abandoned' = IF policy = "decide" THEN abandoned ELSE abandoned \cup S

(* The process ends, at any point between two statements.                  *)
Stop ==
    /\ at # "down"
    /\ stops < MaxStops
    /\ stops' = stops + 1
    /\ at' = "down"
    /\ batch' = {} /\ blank' = {}
    /\ Abandon(batch)
    /\ UNCHANGED <<policy, log, first, last, pel, acked, lost, committed>>

Fresh == {i \in 1..Len(log) : i > last /\ i >= first}

(* New entries; "decide" asks for them when none is pending.               *)
ReadBatch ==
    /\ at = "read"
    /\ policy = "decide" => pel = {}
    /\ Fresh # {}
    /\ batch' = Oldest(Fresh, BatchSize)
    /\ blank' = {}
    /\ pel' = pel \cup batch'
    /\ last' \in batch' /\ \A k \in batch' : k <= last'
    /\ at' = "handle"
    /\ UNCHANGED <<policy, log, first, acked, lost, committed, abandoned, stops>>

(* The consumer's pending entries, oldest first.  One that was trimmed     *)
(* since is answered with its id alone.                                    *)
ReadPending ==
    /\ at = "read"
    /\ policy = "decide"
    /\ pel # {}
    /\ batch' = Oldest(pel, BatchSize)
    /\ blank' = {i \in batch' : i < first}
    /\ at' = "handle"
    /\ UNCHANGED <<policy, log, first, last, pel, acked, lost, committed, abandoned, stops>>

Usable(i) == log[i] \notin Malformed /\ i \notin blank

Leave(i) ==
    /\ batch' = batch \ {i} /\ blank' = blank \ {i}
    /\ at' = IF batch' = {} THEN "read" ELSE "handle"

(* The handler returns.  Its transaction commits before XACK is sent; a    *)
(* malformed message has no handler and is acknowledged.                   *)
HandleOk(i) ==
    /\ at = "handle"
    /\ Current(i)
    /\ at' = "ack"
    /\ IF Usable(i)
       THEN committed' = committed \cup {i}
       ELSE policy # "decide" /\ UNCHANGED committed
    /\ UNCHANGED <<policy, log, first, last, pel, acked, lost, batch, blank, abandoned, stops>>

(* "decide": the message is malformed, or the result does not allow the    *)
(* acknowledgement; what the handler wrote stays.                          *)
HandleRefused(i) ==
    /\ at = "handle"
    /\ Current(i)
    /\ policy = "decide"
    /\ \/ UNCHANGED committed
       \/ Usable(i) /\ committed' = committed \cup {i}
    /\ Leave(i)
    /\ UNCHANGED <<policy, log, first, last, pel, acked, lost, abandoned, stops>>

(* The handler raises; its transaction is rolled back.                     *)
HandleError_Returns(i) ==
    /\ at = "handle"
    /\ Current(i)
    /\ Usable(i)
    /\ policy # "stop"
    /\ Abandon({i})
    /\ at' = "read" /\ batch' = {} /\ blank' = {}
    /\ UNCHANGED <<policy, log, first, last, pel, acked, lost, committed, stops>>
HandleError(i) ==
    /\ at = "handle"
    /\ Current(i)
    /\ Usable(i)
    /\ policy # "stop"
    /\ Abandon({i})
    /\ Leave(i)
    /\ UNCHANGED <<policy, log, first, last, pel, acked, lost, committed, stops>>

Ack(i) ==
    /\ at = "ack"
    /\ Current(i)
    /\ pel' = pel \ {i}
    /\ acked' = acked \cup {i}
    /\ Leave(i)
    /\ UNCHANGED <<policy, log, first, last, lost, committed, abandoned, stops>>

(* XACK raises; it may have reached Redis.                                 *)
AckError(i) ==
    /\ at = "ack"
    /\ Current(i)
    /\ policy = "decide"
    /\ \/ UNCHANGED <<pel, acked>>
       \/ pel' = pel \ {i} /\ acked' = acked \cup {i}
    /\ Leave(i)
    /\ UNCHANGED <<policy, log, first, last, lost, committed, abandoned, stops>>

(* An exception the service lets through ends the process, after the       *)
(* rollback of the handler's transaction or a lost or applied XACK.        *)
ExceptionStops(i) ==
    /\ Current(i)
    /\ \/ at = "handle" /\ policy = "stop" /\ log[i] \notin Malformed /\ UNCHANGED <<pel, acked>>
       \/ at = "ack" /\ policy # "decide" /\ UNCHANGED <<pel, acked>>
       \/ at = "ack" /\ policy # "decide" /\ pel' = pel \ {i} /\ acked' = acked \cup {i}
    /\ stops < MaxStops
    /\ stops' = stops + 1
    /\ at' = "down"
    /\ batch' = {} /\ blank' = {}
    /\ Abandon(batch)
    /\ UNCHANGED <<policy, log, first, last, lost, committed>>

Process(i) ==
    \/ HandleOk(i) \/ HandleRefused(i) \/ HandleError(i)
    \/ Ack(i) \/ AckError(i) \/ ExceptionStops(i)

Worker == Start \/ ReadBatch \/ ReadPending \/ \E i \in Entries : Process(i)

Next == Stop \/ Worker \/ \E j \in Jobs : Add(j)

Spec == Init /\ [][Next]_vars

(* The event loop runs the worker and the host restarts the process.       *)
FairSpec == Spec /\ WF_vars(Worker)

-----------------------------------------------------------------------------

(* Every variable keeps its shape.                                         *)
TypeOK ==
    /\ policy \in Policies
    /\ log \in Seq(Jobs) /\ Len(log) <= MaxEntries
    /\ first \in 1..(MaxEntries + 1) /\ last \in 0..MaxEntries
    /\ pel \subseteq Entries /\ acked \subseteq Entries
    /\ lost \subseteq Entries /\ batch \subseteq pel
    /\ pel \cap acked = {}
    /\ at \in {"down", "read", "handle", "ack"}
    /\ blank \subseteq batch /\ committed \subseteq Entries /\ abandoned \subseteq Entries
    /\ stops \in 0..MaxStops

(* The group's cursor passes no entry by, and state comes first: every     *)
(* entry before the cursor is pending, was trimmed away unseen, or was     *)
(* acknowledged after its handler's writes were committed.                 *)
NothingSkipped ==
    \A i \in 1..last :
        \/ i \in pel \cup lost
        \/ i \in acked /\ (i \in committed \/ log[i] \in Malformed)

(* Jobs commit in stream order: when a younger entry has committed, every  *)
(* older one left in the stream was delivered and is out of the batch.     *)
(* Where pending entries are read again, an older one may still be open,   *)
(* but then the two were read together: nothing beyond the batch of an     *)
(* unresolved entry commits before it.                                     *)
StreamOrder ==
    \A i, j \in 1..Len(log) :
        i < j /\ j \in committed /\ i \notin lost =>
            /\ i <= last
            /\ IF policy = "decide" THEN i \in pel => j - i < BatchSize ELSE i \notin batch

(* With a fair, restarted worker every entry ends acknowledged, trimmed    *)
(* or, where nobody reads it again, abandoned in the pending list; but     *)
(* only by a failure of its own handler or by the end of the process, not  *)
(* because another entry of its batch failed.  Where it is read again, one *)
(* that is refused each time holds up what follows: an entry waits for     *)
(* ever behind an entry that stays pending for ever, and for no other      *)
(* reason.                                                                 *)
EveryEntryResolved ==
    \A i \in Entries :
        i <= Len(log) ~>
            \/ i \in acked \cup lost \cup abandoned
            \/ \E j \in 1..i : [](policy = "decide" /\ j \in pel)

=============================================================================
