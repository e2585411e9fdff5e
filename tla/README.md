# Verification of the catchbot pipeline

This directory holds TLA+ models of the services under `src/src/services`, the
TLC configurations that check them, and machine-checked proofs of the properties
that matter most. Paths below are relative to the repository's root directory,
`src/`; `01:274` means line 274 of the document under `src/docs/project-source/`
whose name starts with `01`.

Reading order: [1 the system](#1-the-system), [2 the modules](#2-the-modules),
[3 the runs](#3-the-runs), [4 the proofs](#4-the-proofs),
[5 where code and documents disagree](#5-where-code-and-documents-disagree),
[6 what is not modelled](#6-what-is-not-modelled), [7 the plan](#7-the-plan).

To check a run: `tlc -config OutboxRelay.cfg MCOutboxRelay`. To check proofs:
`tlapm OutboxRelayProofs.tla`.

## 1 The system

Telegram channels are watched, the links and ideas in their messages are
gathered into candidates, enriched from GitHub, X and the web, assembled into
evidence bundles, judged by a language model, validated, scored, and announced
in a private chat.

    collector -> [outbox] -> router-normalizer -> gh / x / web-enricher
        -> evidence-assembler -> analysis-router -> judge-openai
        -> analysis-validator -> policy-engine -> notifier-telegram <-> maintenance

Every arrow is the same mechanism. A service writes its rows and an
`event_outbox` row in one PostgreSQL transaction; the outbox relay copies pending
rows to Redis Streams; the next service's worker reads the stream through a
consumer group and acknowledges the entry after its handler. PostgreSQL is meant to
be the state and Redis the transport (01:586-590), delivery is at least once and
every handler is to be idempotent (01:418-422). The documented concurrency is one
process per service, two at most for the normalizer and the assembler
(01:335-352).

Services share state only through PostgreSQL tables and streams. There are no
callbacks between services, and within a service one message is handled at a
time. The collector's runtime is the one process with several asyncio loops.

Beside the services an operator runs one-target commands (`bounded_*`, `restricted_*`,
`exact_target_*`): they work on the same tables, at the same time, in transactions of
their own. Where such a command can meet a service on a row it is a process of the
model: the publish commands in `OutboxRelay`, the history ingest and the
operator-supplied source in `SourceMessages`, the normalize runner in
`SourceNormalizer`, the assembler's runner in `EvidenceAssembler`, the exact-target
command in `Judgement`.

### Transactions, the fact that decides most of what follows

| Service | Who commits |
|---|---|
| analysis-router, analysis-validator, policy-engine, notifier, maintenance | one transaction per message, committed before XACK |
| gh-, x-enricher, router-normalizer | one transaction around the job |
| web-enricher | several: claim first, then the outcome |
| judge-openai | each repository call its own |
| evidence-assembler's worker | nobody: its session's first SELECT opens a transaction that `repository.transaction()` joins |
| evidence-assembler's bounded runner | the runner |
| outbox relay | nobody: one session for the whole life of the process |
| publish commands | one transaction from the read of the row to its mark |
| collector: history ingest, operator-supplied source | one transaction per run, per packet |
| collector: dispatcher | one per update, but its handlers raise at their first write and it is rolled back |
| exact-target command | one session, a commit after each stage |

### Inventory

**Outbox relay** (`outbox_relay/main.py`, `service.py`, `repositories.py`).
State: `event_outbox.status`, `job_attempts`, exclusion proofs. Operations: fetch
the oldest pending, not excluded rows; resolve the route; XADD with a cap; mark
published or failed. Beside it, one publish command per event type
(`outbox_relay/bounded_*`): read one pending row, XADD, mark, commit. Hard: marks that
are never committed, XADD whose reply is lost, rows that become visible out of
creation order, proofs written while a row is in the batch, a command on a row
the relay has sent and locked. Correct when: one copy per life of the process
and per command, creation order, no mark without XADD, excluded rows stay out,
every row is dealt with, a command ends.

**Stream workers** (`*/worker.py`, `*/redis_streams.py` of every service). State:
the stream, the group's cursor, the pending entries list. Operations: create the
group at 0, read new entries, handle, acknowledge. Hard: nobody but maintenance reads
the pending list again, and maintenance reads nothing else until it is empty; three
policies for exceptions; trimming. Correct when: nothing is skipped, an acknowledged
job has committed, jobs commit in order, an entry waits behind no settled one.

**Router-normalizer** (`router_normalizer/`). State: normalization runs, artifacts,
observations, candidate groups and members, enrichment requests. Operations:
normalise the requested version of a message, suppress a deleted one; by the
worker, and by an operator's runner from a group of its own. Hard: the row is
read without a lock and the outcome written after network calls, short URLs
open differently each time, failed announcements are not read again. Correct
when: what is acknowledged is normalised, no link of an accepted version is lost,
a deleted message ends suppressed, every version is decided.

**Enrichers** (`gh_enricher/`, `x_enricher/`, `web_enricher/`). State: enrichment
runs by idempotency key, snapshots, `artifact_registry.current_snapshot_id`, jobs
and events. Operations: load, reuse, claim, fetch, record or refuse. Hard: two
processes on one artifact, content that changes while it is fetched and later
returns, crashes between claim and record. Correct when: a snapshot and its
event come together, no older fetch overwrites a newer one, only a process that
ended leaves a claim behind that nobody settles.

**Evidence-assembler** (`evidence_assembler/`). State: the group's current primary
and current bundle, reroot events, bundles with input hash and version, requests.
Operations: fan an event out to groups, refresh one group: read, materialise,
reroot, look up, append, point, request. Hard: each statement sees what others
committed before it, reuse of old bundles, the group's row lock. Correct when: the
current bundle is stored, fresh and requested, its primary is the group's, row and
hash never wait for each other in a circle, versions are distinct.

**Analysis-router** (`analysis_router/`). State: judge runs. Operations: drop a stale
request, create the run and its call. Hard: the pointer moves, also back. Correct
when: every request is decided and the current bundle is judged.

**Judge, validator, policy engine, exact-target command** (`judge_openai/`,
`analysis_validator/`, `policy_engine/`,
`maintenance/exact_target_live_openai_canary.py`). State: run status, outputs,
policy events, analyses. Operations: call (asked again once without a usable
payload), validate, apply; the command does all three in one process beside the
workers. Hard: costs that a rollback does not undo, two appliers of one event,
a validator that writes the status whatever it is by then. Correct when: one
output per run, bounded requests, one analysis and intent per output, what was
announced stays a success, what was judged comes to an end.

**Notifier and delivery maintenance** (`notifier_telegram/`, `maintenance/service.py`,
`delivery_retry.py`, `delivery_result_policy.py`, `delivery_replay.py`,
`batch_recovery.py`). State: plans by dedupe subject and material, delivery
records, dead letters, retry keys, replay requests. Operations: ignore, defer,
send or edit; scan for due retries; act on results; request and dispatch replays.
Hard: Telegram is called inside the transaction, replies are lost, reposts,
retries of older material, sending switched on and off, messages maintenance does not
acknowledge and reads again. Correct when: one plan
per material, no silent duplicate, bounded attempts, final stays final, failures
end.

**Collector** (`collector_telegram/`,
`maintenance/exact_target_source_to_analysis_materializer.py`). State: source
messages, their versions and announcements, the channel's cursor, a journal of raw
updates. Three kinds of program write them: the dispatcher of TDLib updates (driven by
the bounded smoke runner), runs of the history ingest, and the operator-supplied source.
The dispatcher never gets a row committed: its handlers take the id of the row they have
written through `_require_uuid` (`update_handlers.py:290`), which accepts a string, while
the driver (psycopg 3, raw rows) gives a `uuid.UUID`; they raise, and the transaction is
rolled back (`update_dispatcher.py:111`).
`main.py` builds the long-running runtime without update runner, registry and
reconcile service, so its five loops tick and write nothing. Hard: writers without a
common guard, rows read before the lock is taken, several rows locked by one run, a
journal nobody replays. Correct when: versions are appended once per
change and announced, the row shows the latest version, the cursor names a stored
message, every writer ends.

**The rest**: one-target runners and canaries, inventories, readiness gates, rollout
proofs, Redis rebuild, the pure policy arithmetic, 95 operational scripts and the
command-line tools beside them, migrations. Section 6 says why each is left out.

## 2 The modules

| Module | Models | State to code |
|---|---|---|
| `SourceRows` | one message's row, versions and announcements, and what a transaction may do to them | operators only; no state |
| `SourceFeed` | what readers of the collector's tables may assume | abstract: `feed` the committed rows |
| `SourceMessages` | dispatcher, runs of the history ingest and operator's packet on one channel | `rows` committed, `work` what each open transaction wrote (its domain are the locks), `live`, `hist` (one per run), `oper` the programs, `cursor` |
| `CandidatePlan` | from the links of a message to its groups, pure | operators only |
| `SourceNormalizer` | worker and runner of the normalizer on `SourceFeed` | `taken`/`acked`/`left` the worker's group, `runs`, `members`, `requests` the tables, `open` each program's transaction with what it read |
| `AtLeastOnce` | what consumers may assume of the outbox | abstract: `stored`, `copies`, `lives` |
| `OutboxRelay` | relay process, publish command, producers, exclusion proofs | `outbox` committed status, `session` what the open session wrote, `batch`, `at` the place in `run_forever`, `copies` XADDs, `command` the operator's command |
| `StreamWorker` | one stream, its group, one worker under each exception policy | `log`/`first` the stream, `last`/`pel` the group, `committed` handler transactions, `blank` entries that came back without fields, `abandoned` (history) entries a failure left pending for ever |
| `Enrichment` | one artifact several groups share, its enricher, the fan-out group by group | `runs` by key, `snaps`, `current`, `announced` event keys, `worker` each open job, `fan` groups the assembler at work has still to refresh |
| `EvidenceAssembler` | one candidate group and every process that refreshes it | `proc` open transactions with what they read, `holder` the row lock, `bundles`, `requested` |
| `BundleLedger` | what the stages behind the assembler may assume: a refresh at once | abstract: `bundles`, `current`, `requested`, `judged` |
| `BundleAnalysis` | `EvidenceAssembler` composed with the analysis-router | `taken`, `router`, `judged`, `dropped` |
| `OneMessage` | what the chat and its operator may assume of a material | abstract: `outcome`, `pending`, `copies`, `unclear` |
| `NotificationDelivery` | plans of one dedupe subject in notifier and maintenance, Telegram | `status`, `records`, `retried`, `dead`, `turn` the notifier's open message, `scan`, `copies` the chat |
| `OneVerdict` | what the readers of judge runs and analyses may assume | abstract: `run`, `outputs`, `passed`, `announced` |
| `Judgement` | call, validation, policy of one group's runs by workers and command | `run`, `outputs`, `forwarded`, `analyses`, `operator` the command, `policy` the two policy transactions |

The MC modules give the constants their values; the `...Proofs` modules extend a
component with its theorems. Operators named `X_Something` beside an `X` are
faulty variants of it: each property of a passing run is violated when one of
them takes X's place, so each says something about the code.

Conventions. A transaction of one statement, or whose intermediate states nobody can
see, is one action; a transaction whose statements read what others commit is
several, its writes kept with the process until the commit. A process that ends
loses exactly what was not committed. Messages are taken once, as `StreamWorker`
shows (`NothingSkipped`, `StreamOrder`), except by maintenance, which takes what it
did not acknowledge again; a second copy comes only from a restarted relay or a
publish command, as `OutboxRelay` shows (it implements `AtLeastOnce`), and appears
in the other modules as a bounded `Resend`. History variables are marked as such.

Reading notes, module by module:

- *SourceMessages.* A content stands for its `content_hash`. A history run takes a step
  per row, so does the dispatcher's only write; a step that meets another's lock is not
  enabled. A live handler's first write is followed by `FailUpdate` (or `LiveCrash`) and
  nothing else: the row is locked for a while and never changed. What a history run read
  before it held the lock is kept in `hist[h].existed`; the latest version it compares with
  is read again under the lock, as in the code. Two history runs can be under way when
  each has a state directory of its own. The journal of raw updates is written and never
  replayed, so it is left out; so is what a history run does after its commit. Telegram
  changes again only after the last change was taken up: the queue of updates is a
  bound, the lag of a handler is not.
- *SourceRows, SourceFeed.* `Buried` (a deletion) and `Observed` with an older text are what
  the live handlers are written to commit. Nothing commits them today, so
  `SourceMessages` implements `SourceFeed` without using them, and `SourceNormalizer` is
  checked against all of it: what it shows of deletions holds for the normalizer's code
  and becomes relevant when the handlers are repaired.
- *SourceNormalizer.* The announcements of `SourceFeed` all reach the stream, which is
  what `EveryRowHandled` of the relay is about. The worker takes them in any order:
  those of one message can be overtaken in the outbox. `silent` and `overtaken` are
  history: the row changed with no new announcement; the run was written by a
  transaction that had read an older row.
- *CandidatePlan.* Parsing is abstracted to `Kind`, `Anchor` and `Behind`; which groups
  follow from the artifacts is the code's.
- *OutboxRelay.* The nine publish commands differ in two things a row can tell apart:
  whether the command reads the exclusion proofs (`Guarded`) and whether it commits a
  failed XADD (`FailureKept`). A command sees the committed row, so a row the
  relay's session has sent is still pending to it, and its first write waits for
  that session. Selectors and gates that only refuse are the choice of the row.
- *OutboxRelay, the relay.* `StatusInSession` is what a SELECT in the relay's own session
  returns. `Stop` covers cancellation, a kill and a failed statement. A row whose
  transaction began earlier can become visible after a younger one was sent; that
  is why `CreationOrder` speaks of rows that appeared since the fetch.
- *StreamWorker.* `policy` is chosen once: "stop" for eight services, "skip" for the
  router-normalizer, "decide" for the two workers of maintenance, whose `read_batch`
  asks for the consumer's pending entries first (`ReadPending`) and for new ones only
  when it has none. `Add` may trim as Redis may; a pending entry that was trimmed
  comes back as an id without fields (`blank`), which maintenance refuses. `abandoned`
  remembers which entries stay pending for ever and by whose fault: the entry whose
  handler raised, or what the batch still held when the process ended. A batch that is
  dropped for another entry's failure would leave entries pending that are not in it.
- *Enrichment.* A snapshot is identified by its content anchor. `publisher`
  distinguishes a relay, which leaves the row pending for everyone else, from a
  publish runner, which commits: gh and web refuse rows that are not published.
  Every recorded snapshot counts as ready. The fan-out takes an event (`TakeUpdate`),
  refreshes the groups one by one (`RefreshOne`) and may fail before the last
  (`FanOutFails`), after which the message is not read again; a bounded runner may have
  been told to refresh one group only (`Filters`). Whether what a refresh writes is ever
  committed is the business of `EvidenceAssembler`.
- *EvidenceAssembler.* A group is its ordered members and their kinds. The input
  hash is the record of what it covers (primary, snapshots, reroot count). An X
  snapshot that links to the repository member is `"linking"`; a poor X post
  that does not link behaves as a ready one. The router never groups a GitHub
  repository with another primary, and the promotion of discovered repositories
  never takes effect (the worker rolls it back, the runner overrides it), so
  neither is modelled. The runner handles one selected group per message. `Read` makes
  the decision of `RerootRules` on the snapshots it has just read; only a change is
  written, and from there on the row is locked. `silent` (history) names what changed
  after the last message without one of its own: members whose content returned, and
  the primary, which a renormalisation puts back. One `MaxDisturbances` bounds resends,
  renormalisations and crashes together.
- *BundleAnalysis.* The composed run also checks the assembler's own properties
  (`FreshAtRest`, `PrimarySettled`, `HolderNeverWaits`), and `ImplementsLedger`: as the
  judge, the validator and the policy see it a refresh is one step. `Serial` in
  `BundleLedger` is "one bounded runner at a time"; without it two refreshes may count to
  the same version and one may leave the pointer where the other moved it. `dropped`
  holds a request only if another bundle was current when the router read the pointer.
  That requests are for stored and ready bundles (`RequestedIsUsable`, part of the proved
  invariant) makes the router's refresh branches (bundle missing, not ready) unreachable
  for the assembler's requests; they have no action for that reason.
- *NotificationDelivery.* Urgency, primary URL, edit window and rendering are data:
  with a recent message either mode is possible. Attempts suppressed because
  sending is off leave a record, as in the code. The key of a retry intent
  contains `send_after`, which each record sets once, so plan and attempt number
  determine it. `Arrivals` announces a plan once: the outbox key of the policy's
  intent is the analysis; what a relay sends again is `ResendIntent`. The order of
  one scan's intents is any. Intents of one stream are
  FIFO. A result handled by a maintenance that ends before XACK is handled again, and
  a replay request rejected by the environment guard stays on its stream and may be
  dispatched later; which of several open requests is next is left open, although
  the oldest are read first. Digest plans (only ever stored as suppressed) and
  receipts are left out.
- *Judgement.* Each run is of a bundle of its own and `current` is the bundle by its
  run. The command's session never commits a "running" status. Rate-limit
  cool-downs are time and therefore either outcome; payload and identity
  mismatches are outcomes of validation. A request is a call of `responses.create`: the
  client (`judge_openai/openai_client.py:134`) keeps its library's default of two
  resends, so on the wire there may be three for each. An output cut short can never be retried:
  the command refuses a run that has an output. One operator runs one command at a
  time (01:346); two at once would pay twice and could store two outputs, which
  the documented concurrency excludes and the model does not contain. The
  command's notifier stage never sends and is a case of `NotificationDelivery`.

## 3 The runs

Eight runs must hold and four must be violated. Distinct states are those TLC
finds; the search is exhaustive in every passing run.

| Run | Instance | States |
|---|---|---|
| `source_messages` | 2 messages; 2 contents and a packet; an edit and a deletion of the newer; 2 history runs at a time; every failure unbounded | 138,812 |
| `normalizer` | 1 message, 2 versions, a file of a repository, an article and a short URL; 1 deletion, 1 copy or runner | 485,713 |
| `relay` | 3 rows, one without a route, two that may be excluded; batch of 2; 2 lives, 2 commands | 367,959 |
| `stream` | 4 entries of a good and a malformed job; MAXLEN 2; batch of 2; 1 stop; each policy | 36,673 |
| `enrichment` | 3 groups, 2 contents, 2 processes, each provider and publisher; 2 changes, 1 stop, 1 resend, 1 failed fan-out | 423,095 |
| `routing` | X post and repository; committing runner, worker and analysis-router; 3 snapshots, 1 resend, renormalisation or stop | 480,566 |
| `delivery` | 3 analyses of 2 materials; 2 attempts; 1 trouble of any kind | 448,719 |
| `judgement` | 1 run, 2 moves of the bundle, 1 failure, 1 abort, 2 resends, 1 stop | 148,998 |

Bounds are guards on the environment's actions, on crashes and on failures from
outside, never on what a component does by itself, and each is named in the module.
`CHECK_DEADLOCK FALSE` is set because the bounded inputs run out and the system then
rests.

**source_messages**, why enough: two messages and two history runs over them are what a
circle of waits and a cursor that runs ahead need; an edit makes the two runs fetch
different contents, and the packet brings a third; crashes, failed runs and new starts
are not bounded at all. `ImplementsFeed` (what readers see is `SourceFeed`: whole
transactions, every version with its announcement), `VersionsAnnounced` (once each, no two
equal in a row, the row shows the latest, though a history run decides on rows it read
before the lock), `CursorIsStored` (a run that is rolled back takes its cursor with it),
`WritersEnd` (two runs lock their rows in the same order, so neither waits for ever).

**normalizer**: two versions and a deletion reach deletion, revival and second
deletion; one extra copy or one start of the runner puts two transactions on one
version. `AckedIsNormalized`, `EligibleIsProposed` (no link of an accepted version is
lost and every member with a provider is requested), `DeletedIsSuppressed` (with its
two exceptions named: an unannounced change, and an outcome written by a
transaction that read the row before; the code allows both, and the property says
there is no third), `EveryVersionDecided`. That both groups of a version stay when worker
and runner opened its short URL differently is the code's choice and no violation.

**relay**: a batch of two with three rows has a full batch with a row waiting behind
it; two lives are what a second copy by the relay needs, and two commands what one
by an operator needs. `CreationOrder`, `RecordsFollowXadd`, `ExcludedStaysOut` (also for a
relay that lost its marks; the commands that do not look at the proofs are the
exception), `DeliverySpec` (relay and commands implement `AtLeastOnce`: copies never
exceed lives, although every restart sends the backlog again), `EveryRowHandled`,
`CommandEnds`. The last has its exception too: on a row the relay has written the
command waits as long as the relay lives.

**stream**: two batches of two, so that a failure is in front, in the middle and
behind, and what one batch leaves pending holds up the next where it is read again.
`NothingSkipped` (the cursor passes nothing by, and an acknowledged job has
committed), `StreamOrder` (in maintenance: nothing beyond the batch of an open entry
commits), `EveryEntryResolved` (acknowledged, trimmed, or abandoned by a failure of its own
handler or the end of the process, never because of another entry of its batch; in
maintenance an entry waits for ever only behind one that stays pending for ever).

**enrichment**: two changes let content go and return; two processes race for one
key. `SnapshotsAnnounced` (neither is ever visible without the other), `NoLostUpdate` (the
key, which contains the snapshot a process loaded, alone serialises fetchers),
`AbandonedNeedStops` (web commits its claim before it fetches; whatever the fetch brings,
only a process that ended leaves a claim that locks out every later request). That
early members are refreshed cannot be promised: the long-running assembler commits
nothing (`assembler_ack_without_commit`), its runner may be told one group, and a
fan-out that fails is not repeated.

**routing**: three changes let a member's content go and come back, so that a stored
bundle is reused and the pointer moves back to it; two reach a reroot. `FreshAtRest`
(what was read too early is refreshed by the message that follows; only content that
returned after the last message, whose event's key exists already, is excepted),
`PrimarySettled` (the current bundle's primary is the group's and the rules would
choose it again, unless the initial one was put back after the last message),
`HolderNeverWaits` (who holds the row never waits for a hash, so row and unique key
never wait for each other in a circle), `CurrentJudgedOrDropped` (a bundle that returned is
judged for any request taken since, however many newer ones are stored; the
exception is a request dropped while another bundle was current), `ImplementsLedger`
(refreshes that overlap look to everybody else like refreshes one after the other),
`QueueDrains` (nobody waits for ever for the row or the hash).
One committing runner is what the documents allow (01:346), and the run has one. With
two, `FreshAtRest` fails: the one that read first commits last and puts an older
bundle back, with no message left. The theorems about it and about `PrimarySettled`
have one runner as their hypothesis; `ImplementsLedger` is proved for any number, with
`Serial` false for more than one.

**delivery**: two analyses of one material and another material; one trouble (a
resent intent, a replay, a switch of sending, a crash of either service) can fall
between any two steps. `OnePlanPerMaterial`, `NoSilentDuplicate` (a second message
of one material has a lost reply or a crash before the commit behind it),
`AttemptsBounded`, `ImplementsOneMessage` (all analyses, retries and replays of a
material are one message that is posted until an outcome is final), `FinalStays`,
`FailuresEnd` (no crash of maintenance loses a failure; one of the notifier may
leave a retryable one behind, never a terminal one), `EveryMaterialPlanned`.

**judgement**: `OneOutputPerRun`, `RequestsBounded` (two calls of the client per try, a new
try only after a transient failure or an abort), `OneAnalysisPerOutput`,
`NotifiedStaysSucceeded`, `ImplementsOneVerdict` (command, workers, resent events and
crashes are one answer for each run, passed or rejected, and one
announcement), `OutputsSettle`. Two runs with all bounds exceed what TLC
does in minutes; runs meet only in the two policy transactions and the command,
and the proofs hold for any number of runs.

Violated runs are section 5.

### Fairness, and why the code justifies it

- `OutboxRelay`: weak fairness of the relay's steps and of `Start`. `run_forever`
  polls without end and the host restarts the process; the last life does not
  end (the bound on `Stop`). Weak fairness of `CommandStep`: a command that was begun
  runs on, and one that waits for a lock takes no step. Nobody has to begin one.
- `SourceMessages`: a program that was started runs on. A statement that waits for a
  row is enabled whenever the lock is free; PostgreSQL queues the waiters, hence
  strong fairness of each program's steps. Nobody has to start a program, nothing has
  to fail.
- `SourceNormalizer`: weak fairness of the worker, whose loop goes on after a failure.
- `StreamWorker`: weak fairness of the worker including its start, for the same
  reasons. Nothing is assumed of producers or of stops.
- `BundleAnalysis`: weak fairness of each process's refresh and of the router.
  PostgreSQL grants row locks; a waiting statement is not an enabled step, so
  `QueueDrains` needs that no cycle of waits arises.
- `Enrichment`, `EvidenceAssembler` alone: none, their runs check safety.
- `NotificationDelivery`: one assumption each for the notifier's messages, the due
  scan, the result worker and the clock. No assumption on replays or switches:
  nobody is obliged to operate.
- `Judgement`: the three workers. Nobody is obliged to run the command.

## 4 The proofs

tlapm checks every theorem to the last leaf. The assumptions are the named
ASSUMEs of the component modules (constants are sets and naturals; TLC evaluates
them in every run) and nothing else.

**OutboxRelayProofs.** `TypeCorrect`; `AtMostOneCopyPerLife`; `PublishedAfterXadd`;
`Implements`: relay and commands implement `AtLeastOnce`; `InCreationOrder`;
`ExcludedForGood`. `OneCopyPerLife`, the count of copies against lives and commands, is
not inductive: a row in the batch could, as far as it says, have been sent
before in this life, so `BatchUnsent` says that batch rows are unsent except the one
about to be recorded, and that a row the session left alone has not been sent; and
a command that is about to send counts as a copy already (`Sending`).
`CommandKnown` and `ProofIsNews` say what a command and a batch still know of the rows
they took. Refinement: an XADD, also one whose reply is lost, is a `Deliver`; a start
and the begin of a command are a `Restart`; every other step stutters or stores a
row. `InCreationOrder` rests on `OldestHasNoGap`, which is about LIMIT: what is older
than a fetched row and eligible is fetched.

**StreamWorkerProofs.** `TypeCorrect`, `NoEntrySkipped`, `CommitsInOrder`. The
invariant: the cursor is inside the stream and what was trimmed beyond it is lost
(`Cursor`), what is acknowledged was handled (`HandledFirst`), everything up to the
cursor is pending, lost or acknowledged (`Accounted`), and nothing older than a
committed entry waits in the batch (`InOrder`) or, in maintenance, what is pending
lies within one batch of the cursor (`ReadTogether`). The last rests on
`OldestSpan`, which is about COUNT: a read of new entries reaches less than a batch
beyond its first.

**SourceMessagesProofs.** `TypeCorrect`, `EveryVersionAnnounced`, `CursorStored`,
`ImplementsSourceFeed`, for any number of messages, contents and history runs. The
lemmas about rows: each effect keeps a row announced and without echo. The invariant:
what a history run holds is an effect on the committed row and nobody holds the row of
another (`WorkOK`), the packet is not written over itself (`PacketInRow`), what a run read
of a row before its lock and still uses holds (`Remembers`), and the newest message is the
last it applies (`NewestLast`, which is why the cursor it sets is stored). The dispatcher adds a lock and no effect
(`FirstWriteStep`, `LiveStep`).

**SourceNormalizerProofs.** `PlanCovers` (every artifact of an eligible message is a member
of a group of its plan, for every set of artifacts), `TypeCorrect`, `Normalized`,
`Proposals`, `Deletions`. The invariant: what is open is about an announced version
(`OpenOK`), the runs and members are those of plans (`TablesOK`), a run exists before
its acknowledgement (`AckReady`). For deletions also: a transaction whose row has not
changed since it was read knows whether the message is deleted (`FreshRead`), and once
the worker is done with a tombstone the last version is suppressed or overtaken
(`Tombstoned`).

**EnrichmentProofs.** `TypeCorrect`, `Announced`, `Serialised` (`NoLostUpdate` for any
number of processes), `ClaimsSettled`. Strengthening: a base that is no longer current
has its key taken (`StaleBaseIsTaken`), and web's open claim is a committed one
(`WebRunIsCommitted`); so a process that comes late with a stale snapshot meets
its own key. `ClaimsSettled` counts: no step of a handler adds an abandoned claim
(`HandleAbandonsNothing`), the end of a process adds one at most, and the other
providers never have one (`OnlyWebFetches`).

**BundleAnalysisProofs.** For any members, any number of processes and of events:
`TypeCorrect`, `JudgedOrDropped`, `NoCircleOfWaits`, `FreshWithOneRunner`,
`PrimaryWithOneRunner`, `Implements`, and of the assembler's tables `CurrentRequested` and
`RequestedUsable`. None of the run's invariants is inductive: whether
the current bundle is requested depends on what open refreshes hold. The invariant
(`AssemblerInv`) says of each of them that who has rerooted holds the row (`Locked`),
that the input it looked up counts the reroots there are, and one more if it
rerooted (`LookedUp`), and that at its end the bundle is stored already or it
alone has inserted that hash (`Inserted`); of the tables that stored bundles count
committed reroots (`CountedReroots`) and no input is stored twice. `CommitStep` is the
heart: a commit raises `reroots` only under the row lock, so nobody else's look-up
is out of date by it. From the same facts follows that no circle of waits arises
between row lock and unique key: a holder's input counts a reroot nobody else has
counted, so nobody can have inserted its hash (`HolderNeverWaits`). The router adds
that a taken request is open, judged or dropped.
`FreshWithOneRunner` has the hypothesis that at most one process commits. Then what a
refresh has read of the pointer stays true (`PointerKnown`), and what is announced is
queued, about to be read, in the runner's hands or in the current bundle
(`Underway`); a process that reads and never commits, and a crash, are named
in it. `PrimaryWithOneRunner` has the same hypothesis and goes the same way: until
something is lost a message is queued, or the runner carries a primary it has decided or
read from the group, or all rest and the current bundle shows the group's
(`PrimaryUnderway`); that deciding again changes nothing (`DecideSettles`) rests on the
rules leaving a repository alone. `Implements` maps a commit to `Refresh`, the router's call to `Judge`, and every
other step to a stutter; that versions grow needs one runner (`VersionsAhead`),
everything else holds for any number.

**NotificationDeliveryProofs.** `TypeCorrect`, `OnePlan`, `NoDuplicate`, `FinalForGood`,
`AttemptsBound`, `Implements`, `KnownCopies`. The invariant: each row's status is that of
its last record (`Rows`); between the check at the start of a message and its
commit nothing else was planned for its material and nothing final recorded (`Open`);
every message in the chat is recorded, about to be, or unclear (`Accounts`).
`AttemptsBounded` counts records only and is not inductive: the invariant counts what
a plan has spent (records, the open turn, its intents in the queue) against what
it was granted (its announcement, retry keys below the ceiling, resends,
dispatched replays). Each step that adds an intent adds a grant, and no other step
raises what is spent; the retry key is what makes the due scan pay, whatever
it read before. It rests on `Arrivals` being injective.
`Implements` maps a delivery to `Post`, one whose reply is lost to `PostUnanswered`, a crash
after the answer to `Forget`, a commit to `Record`; that a material has one owner
(`OnePlan`) is what makes its outcome a function of the plans. `KnownCopies` is then
proved of `OneMessage` alone and carried over: an equation where `NoDuplicate` is
a bound.

**JudgementProofs.** `TypeCorrect`, `OneOutput`, `BoundedCost`, `OneAnalysis`,
`Announced` (`NotifiedStaysSucceeded`), `Implements`, `ForGood`. The invariant: a
call is open only for a run without an output (`Commanded`); events, transactions
and analyses are about the one output of their run (`Events`); a run with a usable
output is succeeded (`Decided`); each request is accounted for by a failure, an
abort, the output or the open try (`Costs`). `Implements`: the two commits of the
command are `Answer` and `Fail`, validations by either actor `Pass` or `Reject`, a
store is `Announce` or, when the other applier was faster, a stutter; that a commit
meets an `Open` run is `Commanded`, that a store meets a run not announced needs
every output to be the first of its run (`Events`). `ForGood` (a valid answer and
its status never change) follows from the steps of `OneVerdict`.

Only model-checked: the liveness properties (`EveryRowHandled`, `CommandEnds`,
`EveryEntryResolved`, `QueueDrains`, `WritersEnd`,
`EveryVersionDecided`, `FailuresEnd`, `EveryMaterialPlanned`, `OutputsSettle`).
Every other property of a run that must hold is a theorem. Out of the prover's
reach: liveness under fairness, ENABLED, and induction over data through theorems
with an operator parameter; a least element of a set of naturals, which some proofs
need, comes from the well-foundedness of < instead (`LeastExists`). No module
declares a RECURSIVE operator. Each module's type invariant is proved (`TypeCorrect`);
only `source_messages` also runs one.

## 5 Where code and documents disagree

Each is a run that TLC must find violated.

- `enrichment_shared_artifact`: a group that joins after a GitHub snapshot was
  announced is never refreshed for it; the event's key names artifact and
  snapshot only. 09:97 says no refresh is missed.
- `assembler_ack_without_commit`: the long-running assembler acknowledges messages
  whose transaction nobody commits. 08:6889-6899 fixes commit before ack.
- `source_new`: every live handler takes the id of the row it has written through
  `_require_uuid` (`update_handlers.py:290`), which refuses the `uuid.UUID` the driver
  returns; the update is rolled back and marked failed, and no message gets into the
  tables this way. 01:956 says of updateNewMessage that it creates a new SourceMessage.
- `judgement_worker`: the judge worker calls `rehydrate_job` and `handle_job` of a
  service that has only `handle_trigger_event`; its run stays pending.
  `ops/pipeline/runbooks/judge_openai_runtime_smoke.md:39` and 09:3122 have it
  consume calls.

Known and not run, because they follow from one line or from a run above: a bundle
that becomes current again after its request was dropped as stale is never judged
(09:1873 expects a newer request; `CurrentJudgedOrDropped` names the case); a replay
of a terminally failed plan is dispatched and marked completed, and the notifier
ignores it (10:4970; `FinalStays`); a result or replay request that maintenance
refuses each time (malformed, trimmed, rejected by the environment guard) is read
again before anything new, and while one stays nothing new is read
(`maintenance/redis_streams.py:73`, `maintenance/ack_decision.py:16`;
`EveryEntryResolved` names the case); a retry of an older material may run after a
newer one and edit the shared message back (`notifier_telegram/service.py:324`); the
relay's outcome is never committed (`outbox_relay/main.py:30`, 07:76), so a publish
command on a row it has sent makes a second copy and then waits for the relay to
end (`CommandEnds`); a deletion after a revival of the same version would have the key
of the first and not be announced (`collector_telegram/idempotency.py:29`); journalled
updates of a crashed dispatcher stay pending and nothing replays them; the
bounded runners read their stream with `block=0`, so one whose target is not in the
first batch waits for the next entry
(`router_normalizer/bounded_source_normalize_runner.py:306`,
`web_enricher/bounded_web_enrich_runner.py:355`,
`gh_enricher/bounded_github_enrich_runner.py:381`); a row whose
XADD failed is not tried again in that life (`outbox_relay/repositories.py:104`, 01:944); a
transient GitHub failure leaves no row (`gh_enricher/service.py:151`, 08:478); a
message handled again by the normalizer puts the primary back, and the reroot
that follows makes a new input hash and a second request for the same content
(`router_normalizer/repositories.py:356`, 01:418-422); of two assemblers that
store one bundle at once the second fails and its message is not handled again
(01:346 allows two); a bundle that stops being current while the router decides
is judged all the same (09:1875); a group of text ideas alone never gets an event
(`router_normalizer/repositories.py:415`, 02:335); whether an edit was refused is
asked of the plan delivered last, not of the one refused
(`notifier_telegram/service.py:358`, 10:389).

## 6 What is not modelled

- *Redis rebuild, policy arithmetic*: section 7.
- *The collector's runtime, authorization, registry and health*: as `main.py` builds it
  the loops have nothing to drive; the programs that write are in `SourceMessages`.
- *Normalizer: artifact registry, observations, suppression traces*: facts no later
  step reads back. Where other modules depend on the normalizer its effect is an
  action (`Join` in `Enrichment`, `Renormalise` in `EvidenceAssembler`): composing the
  modules themselves would multiply two state spaces that share one table.
- *One-target runners, canaries and one-shot commands* other than those named in
  section 1: they call the modelled handlers once behind configuration gates.
- *Inventories, readiness gates, rollout proofs, operational scripts*: read-only
  reports or wrappers.
- *Rendering, URL extraction, prompt building, summaries, token budgets,
  limitations*: data that no modelled decision distinguishes.
- *Migrations*: the unique keys and checks the handlers rely on are part of the
  actions that meet them.
- *Much of the repository by lines.* Of some 258,000 lines most are operational scripts,
  inventories, gates, reports and one-target runners that wrap the same handlers in
  checks of their own arguments; the lines the modules map are those in which
  services and commands change shared state.
- *Time*: back-off, cool-downs and edit windows are either outcome.
- *PostgreSQL and Redis failures other than a lost reply, a rollback and a trim.*

## 7 The plan

In order of importance. Done: 1 to 10, 13 and 14.

1. `AtLeastOnce`, `OutboxRelay`: the mechanism everything stands on.
2. `StreamWorker`: the other half of it.
3. `Enrichment`.
4. `EvidenceAssembler`, then `BundleAnalysis`, which composes it with the router.
5. `NotificationDelivery`.
6. `Judgement`.
7. Proofs of the relay, the stream workers, the enrichers, delivery and judgement.
8. `SourceRows`, `SourceFeed`, `SourceMessages`: the collector's writers, the abstract
   feed they implement, and the proofs.
9. `CandidatePlan`, `SourceNormalizer` on that feed, and the proofs.
10. Publish commands as a second process of `OutboxRelay`, and the proofs for both.
11. `RedisRebuild`: after a lost stream, what the rebuild adds against what the
    pending lists held; refinement of `AtLeastOnce`.
12. `VerdictPolicy`, `BusinessRules` as operators checked against reference definitions
    over bounded inputs.
13. Abstract specifications `OneMessage` for `NotificationDelivery`, `BundleLedger` for
    the assembler and `OneVerdict` for `Judgement`, with refinement checked and proved.
14. Proofs about the assembler and the router for any number of processes and
    members; `AttemptsBounded`.
