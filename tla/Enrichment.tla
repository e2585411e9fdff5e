------------------------------- MODULE Enrichment -------------------------------
(***************************************************************************)
(* One artifact that several candidate groups share, the enrichment worker *)
(* of its provider, and the fan-out of its snapshot events.                *)
(* router-normalizer adds a group and requests enrichment in one           *)
(* transaction; gh-, x- or web-enricher claims a run by its idempotency    *)
(* key, fetches, and records snapshot, event and run together;             *)
(* evidence-assembler refreshes, one after the other, the groups that have *)
(* the artifact; its bounded runner may keep only one of them.             *)
(* GitHub and X run a job in one transaction, web commits the claim first. *)
(* A message is taken once (StreamWorker): a job whose process ends is     *)
(* gone unless the relay, restarted, sends the row again.                  *)
(* Which groups an event reaches is modelled here; what a refresh writes,  *)
(* and whether anybody commits it, is EvidenceAssembler's.                 *)
(***************************************************************************)
EXTENDS Naturals, Sequences, FiniteSets

CONSTANTS
    Groups,       \* candidate groups
    Contents,     \* what the provider can serve; a snapshot is its content anchor
    Gone,         \* contents of an X post that is not there any more
    NoSnap,       \* no current snapshot
    Workers,      \* processes of the enricher
    Filters,      \* groups a bounded runner may be told to refresh alone
    MaxChanges,   \* bound: how often the content changes
    MaxStops,     \* bound: jobs that end at a crash or an error nobody catches
    MaxResends,   \* bound: rows a restarted relay sends again
    MaxFailures   \* bound: fan-outs that fail before their last group

ASSUME EnrichmentAssumption ==
    /\ NoSnap \notin Contents
    /\ Gone \subseteq Contents
    /\ MaxChanges \in Nat /\ MaxStops \in Nat /\ MaxResends \in Nat /\ MaxFailures \in Nat

Bases == Contents \cup {NoSnap}
Providers == {"github", "x", "web"}
RunStatuses == {"none", "fetching", "done", "refused", "failed_transient"}

VARIABLES
    provider,
    publisher,   \* "relay" leaves the row pending, a publish runner commits it
    joined,      \* candidate_group_members of the artifact
    jobs,        \* enrichment requests the worker has not taken
    content,     \* what a fetch returns now
    snaps,       \* artifact_snapshots
    current,     \* artifact_registry.current_snapshot_id
    runs,        \* artifact_enrichment_runs by idempotency key
    announced,   \* artifact.snapshot.updated rows
    updates,     \* those the assembler has not taken
    fan,         \* groups the assembler at work has still to refresh
    reached,     \* the snapshot a group's last refresh has read
    worker,      \* each process: step, base snapshot it loaded, content fetched
    changes, stops, resends, failures

assembler == <<fan, reached, failures>>
vars == <<provider, publisher, joined, jobs, content, snaps, current, runs, announced,
          updates, assembler, worker, changes, stops, resends>>

Idle == [at |-> "idle", base |-> NoSnap, got |-> NoSnap]

(* The variables keep their shape; a process is in one step of one job.    *)
TypeOK ==
    /\ provider \in Providers /\ publisher \in {"relay", "runner"}
    /\ joined \subseteq Groups /\ jobs \in Seq(Groups)
    /\ content \in Contents /\ snaps \subseteq Contents /\ current \in Bases
    /\ runs \in [Bases -> RunStatuses]
    /\ announced \subseteq Contents /\ updates \in Seq(Contents)
    /\ fan \subseteq joined /\ reached \in [Groups -> Bases]
    /\ worker \in [Workers -> [at : {"idle", "claim", "fetch", "record"}, base : Bases, got : Bases]]
    /\ changes \in 0..MaxChanges /\ stops \in 0..MaxStops
    /\ resends \in 0..MaxResends /\ failures \in 0..MaxFailures

Init ==
    /\ provider \in Providers /\ publisher \in {"relay", "runner"}
    /\ joined = {} /\ jobs = <<>>
    /\ content \in Contents \ Gone
    /\ snaps = {} /\ current = NoSnap
    /\ runs = [b \in Bases |-> "none"]
    /\ announced = {} /\ updates = <<>>
    /\ fan = {} /\ reached = [g \in Groups |-> NoSnap]
    /\ worker = [w \in Workers |-> Idle]
    /\ changes = 0 /\ stops = 0 /\ resends = 0 /\ failures = 0

-----------------------------------------------------------------------------

(* The candidate, its member and the request commit together.              *)
Join(g) ==
    /\ g \notin joined
    /\ joined' = joined \cup {g}
    /\ jobs' = Append(jobs, g)
    /\ UNCHANGED <<provider, publisher, content, snaps, current, runs, announced, updates, assembler,
                   worker, changes, stops, resends>>

(* A restarted relay sends rows again: requests or snapshot events.        *)
Resend ==
    /\ publisher = "relay" /\ resends < MaxResends
    /\ resends' = resends + 1
    /\ \/ \E g \in joined : jobs' = Append(jobs, g) /\ UNCHANGED updates
       \/ \E c \in announced : updates' = Append(updates, c) /\ UNCHANGED jobs
    /\ UNCHANGED <<provider, publisher, joined, content, snaps, current, runs, announced, assembler,
                   worker, changes, stops>>

Change(c) ==
    /\ c # content /\ changes < MaxChanges
    /\ c \in Gone => provider = "x"
    /\ content' = c /\ changes' = changes + 1
    /\ UNCHANGED <<provider, publisher, joined, jobs, snaps, current, runs, announced, updates,
                   assembler, worker, stops, resends>>

-----------------------------------------------------------------------------

Loadable == publisher = "runner" \/ provider = "x"

(* The event for a snapshot is inserted ON CONFLICT (dedupe_key) DO        *)
(* NOTHING; the key names artifact and snapshot, not the group.            *)
Announce(c) ==
    /\ announced' = announced \cup {c}
    /\ updates' = IF c \in announced THEN updates ELSE Append(updates, c)

(* github and web refuse a row that is not published; the exception ends   *)
(* the process.                                                            *)
RejectUnpublished(w) ==
    /\ worker[w].at = "idle" /\ jobs # <<>>
    /\ ~Loadable
    /\ jobs' = Tail(jobs)
    /\ UNCHANGED <<provider, publisher, joined, content, snaps, current, runs, announced, updates,
                   assembler, worker, changes, stops, resends>>

(* A ready GitHub snapshot is reused and announced again.                  *)
ShortCircuit(w) ==
    /\ worker[w].at = "idle" /\ jobs # <<>>
    /\ Loadable /\ provider = "github" /\ current # NoSnap
    /\ jobs' = Tail(jobs)
    /\ Announce(current)
    /\ UNCHANGED <<provider, publisher, joined, content, snaps, current, runs, assembler, worker,
                   changes, stops, resends>>

LoadCurrent(w) ==
    /\ worker[w].at = "idle" /\ jobs # <<>>
    /\ Loadable /\ ~(provider = "github" /\ current # NoSnap)
    /\ jobs' = Tail(jobs)
    /\ worker' = [worker EXCEPT ![w] = [at |-> "claim", base |-> current, got |-> NoSnap]]
    /\ UNCHANGED <<provider, publisher, joined, content, snaps, current, runs, announced, updates,
                   assembler, changes, stops, resends>>

(* The unique idempotency key (artifact, base snapshot): an insert waits   *)
(* for another process's open transaction on the same key.                 *)
OpenClaim_Unlocked(w, b) == {}
OpenClaim(w, b) == {v \in Workers \ {w} : provider # "web" /\ worker[v].at \in {"fetch", "record"} /\ worker[v].base = b}

KeyExists(b) == runs[b] # "none"

Claim(w) ==
    /\ worker[w].at = "claim" /\ OpenClaim(w, worker[w].base) = {}
    /\ ~KeyExists(worker[w].base)
    /\ worker' = [worker EXCEPT ![w].at = "fetch"]
    /\ runs' = IF provider = "web" THEN [runs EXCEPT ![worker[w].base] = "fetching"] ELSE runs
    /\ UNCHANGED <<provider, publisher, joined, jobs, content, snaps, current, announced, updates,
                   assembler, changes, stops, resends>>

(* The key is taken: the job ends with nothing written.                    *)
Duplicate(w) ==
    /\ worker[w].at = "claim" /\ OpenClaim(w, worker[w].base) = {}
    /\ KeyExists(worker[w].base)
    /\ worker' = [worker EXCEPT ![w] = Idle]
    /\ UNCHANGED <<provider, publisher, joined, jobs, content, snaps, current, runs, announced,
                   updates, assembler, changes, stops, resends>>

FetchOk(w) ==
    /\ worker[w].at = "fetch"
    /\ worker' = [worker EXCEPT ![w].at = "record", ![w].got = content]
    /\ UNCHANGED <<provider, publisher, joined, jobs, content, snaps, current, runs, announced,
                   updates, assembler, changes, stops, resends>>

Finish(w, status) ==
    /\ runs' = [runs EXCEPT ![worker[w].base] = status]
    /\ worker' = [worker EXCEPT ![w] = Idle]

(* Rate limit, access denied, not found, unsupported.                      *)
FetchRefused(w) ==
    /\ worker[w].at = "fetch"
    /\ Finish(w, "refused")
    /\ UNCHANGED <<provider, publisher, joined, jobs, content, snaps, current, announced, updates,
                   assembler, changes, stops, resends>>

(* web records a transient failure and acknowledges; github and x mark the *)
(* run and raise, which rolls the mark and the claim back.                 *)
FetchTransient_Raised(w) ==
    /\ worker[w].at = "fetch"
    /\ worker' = [worker EXCEPT ![w] = Idle]
    /\ UNCHANGED <<provider, publisher, joined, jobs, content, snaps, current, runs, announced,
                   updates, assembler, changes, stops, resends>>
FetchTransient(w) ==
    /\ worker[w].at = "fetch"
    /\ \/ provider = "web" /\ Finish(w, "failed_transient")
       \/ provider # "web" /\ worker' = [worker EXCEPT ![w] = Idle] /\ UNCHANGED runs
    /\ UNCHANGED <<provider, publisher, joined, jobs, content, snaps, current, announced, updates,
                   assembler, changes, stops, resends>>

(* Content the current snapshot already holds finishes the run and writes  *)
(* nothing else; github records without looking.                           *)
SameContent(w) ==
    /\ provider # "github"
    /\ worker[w].got = worker[w].base /\ worker[w].got \notin Gone

RecordSame(w) ==
    /\ worker[w].at = "record" /\ SameContent(w)
    /\ Finish(w, "done")
    /\ UNCHANGED <<provider, publisher, joined, jobs, content, snaps, current, announced, updates,
                   assembler, changes, stops, resends>>

RecordSnapshot_NoEvent(w) ==
    /\ worker[w].at = "record" /\ ~SameContent(w)
    /\ snaps' = snaps \cup {worker[w].got}
    /\ current' = worker[w].got
    /\ Finish(w, "done")
    /\ UNCHANGED <<provider, publisher, joined, jobs, content, announced, updates, assembler,
                   changes, stops, resends>>
RecordSnapshot(w) ==
    /\ worker[w].at = "record" /\ ~SameContent(w)
    /\ snaps' = snaps \cup {worker[w].got}
    /\ current' = worker[w].got
    /\ Announce(worker[w].got)
    /\ Finish(w, "done")
    /\ UNCHANGED <<provider, publisher, joined, jobs, content, assembler, changes, stops,
                   resends>>

(* The process ends between two statements, or on an error nobody catches: *)
(* an open transaction is rolled back, a committed claim stays.            *)
Stop(w) ==
    /\ worker[w].at # "idle" /\ stops < MaxStops
    /\ stops' = stops + 1
    /\ worker' = [worker EXCEPT ![w] = Idle]
    /\ UNCHANGED <<provider, publisher, joined, jobs, content, snaps, current, runs, announced,
                   updates, assembler, changes, resends>>

(* resolve_refresh_targets: the members at the time the event is handled,  *)
(* of which a bounded runner can be told to keep one.                      *)
Targets == {joined} \cup {joined \cap {g} : g \in Filters}

TakeUpdate ==
    /\ fan = {} /\ updates # <<>>
    /\ updates' = Tail(updates) /\ fan' \in Targets
    /\ UNCHANGED <<provider, publisher, joined, jobs, content, snaps, current, runs, announced,
                   reached, worker, changes, stops, resends, failures>>

(* handle_trigger_event goes group by group; each refresh reads the        *)
(* current snapshot, whichever event started it.                           *)
RefreshOne(g) ==
    /\ g \in fan
    /\ fan' = fan \ {g} /\ reached' = [reached EXCEPT ![g] = current]
    /\ UNCHANGED <<provider, publisher, joined, jobs, content, snaps, current, runs, announced,
                   updates, worker, changes, stops, resends, failures>>

(* An exception leaves the loop; the message is not read again.            *)
FanOutFails ==
    /\ fan # {} /\ failures < MaxFailures
    /\ failures' = failures + 1 /\ fan' = {}
    /\ UNCHANGED <<provider, publisher, joined, jobs, content, snaps, current, runs, announced,
                   updates, reached, worker, changes, stops, resends>>

FanOut == TakeUpdate \/ (\E g \in Groups : RefreshOne(g)) \/ FanOutFails

Handle(w) ==
    \/ RejectUnpublished(w) \/ ShortCircuit(w) \/ LoadCurrent(w)
    \/ Claim(w) \/ Duplicate(w)
    \/ FetchOk(w) \/ FetchRefused(w) \/ FetchTransient(w)
    \/ RecordSame(w) \/ RecordSnapshot(w)

Next ==
    \/ \E g \in Groups : Join(g)
    \/ Resend
    \/ \E c \in Contents : Change(c)
    \/ \E w \in Workers : Handle(w) \/ Stop(w)
    \/ FanOut

Spec == Init /\ [][Next]_vars

-----------------------------------------------------------------------------

(* Every recorded snapshot has its event and every event its snapshot, for *)
(* all three providers, reused and resent ones included: neither row is    *)
(* ever visible without the other.                                         *)
SnapshotsAnnounced ==
    /\ snaps = announced
    /\ current \in snaps \cup {NoSnap}

(* The idempotency key contains the snapshot the process loaded, so the    *)
(* key alone serialises the fetchers: one works at a time and the current  *)
(* snapshot has not moved since it looked.                                 *)
NoLostUpdate ==
    \A w \in Workers : worker[w].at \in {"fetch", "record"} =>
        /\ worker[w].base = current
        /\ \A v \in Workers \ {w} : worker[v].at \notin {"fetch", "record"}

(* Keys of committed claims nobody works on: every later request on the    *)
(* same snapshot finds the key taken and ends with nothing written.        *)
Abandoned ==
    {b \in Bases : /\ runs[b] = "fetching"
                   /\ \A w \in Workers : worker[w].at \in {"fetch", "record"} => worker[w].base # b}

(* A web claim is committed before the fetch, and the process that made it *)
(* settles it whatever the fetch brings: only a process that ended in      *)
(* between leaves one, and each leaves one at most.                        *)
AbandonedNeedStops == Cardinality(Abandoned) <= stops

(* Documented: several candidates sharing an artifact miss no refresh.     *)
SharedArtifactNotMissed ==
    jobs = <<>> /\ updates = <<>> /\ fan = {} /\ (\A w \in Workers : worker[w] = Idle)
        => \A g \in joined : reached[g] = current

=============================================================================
