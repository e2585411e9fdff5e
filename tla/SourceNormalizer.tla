--------------------------- MODULE SourceNormalizer ---------------------------
(***************************************************************************)
(* router-normalizer on the rows of the collector.  Two programs handle     *)
(* the announcements of the feed:                                           *)
(*   worker  main.py and worker.py, from the stream's own group: each       *)
(*           announcement once, and once more for each copy of the relay;   *)
(*           what fails is left in the pending list and never read again;   *)
(*   runner  the bounded normalize runner, from a group it makes for        *)
(*           itself: any announcement, at any time, also one the worker has *)
(*           handled.                                                       *)
(* Both open one transaction per announcement, read the message's current   *)
(* row without a lock, resolve short URLs (the worker over the network, the *)
(* runner never), and write the outcome.                                    *)
(*                                                                          *)
(* Left out: artifact_registry and artifact_observations (facts about links *)
(* that no later step reads back), suppression traces, the order of the     *)
(* members, the batch of the stream (see StreamWorker).                     *)
(***************************************************************************)
EXTENDS SourceFeed, CandidatePlan, FiniteSets

CONSTANTS Links,        \* Links[t]: artifacts the URLs of content t stand for, unresolved
          Keyworded,    \* contents the keyword rules accept
          Idea,         \* Idea[t]: the text_idea artifact of content t
          MaxVersion,   \* bound: versions of a message
          MaxDeletions, \* bound: deletions announced
          MaxAgain      \* bound: copies sent by the relay, and starts of the runner

Programs == {"worker", "runner"}

ASSUME NormalizerAssumption ==
  /\ Links \in [Texts -> SUBSET Artifacts] /\ Idea \in [Texts -> Artifacts]
  /\ Keyworded \subseteq Texts
  /\ \A t \in Texts : Kind[Idea[t]] = "text_idea"
  /\ MaxVersion \in Nat /\ MaxDeletions \in Nat /\ Texts = 1..MaxVersion /\ MaxAgain \in Nat

VARIABLES
  taken,       \* announcements the worker has read from its group
  acked,       \* those it has acknowledged
  left,        \* those it has left in the pending list
  runs,        \* normalization_runs: [eligible, artifacts] by message and version
  members,     \* candidate_group_members: [group, artifact]; a group is [m, v, primary]
  requests,    \* artifact.enrich.requested rows, one for each [group, artifact]
  open,        \* open[p]: the transaction of program p, with what it read of the row
  silent,      \* messages whose row last changed without a new announcement (history)
  overtaken,   \* versions last written by a transaction that had read a stale row (history)
  again

stream == <<taken, acked, left>>
tables == <<runs, members, requests>>
vars == <<feed, stream, tables, open, silent, overtaken, again>>

None == [kind |-> "deleted", version |-> 0]
Closed == [pc |-> "idle", m |-> 0, e |-> None, text |-> 0, deleted |-> FALSE, stale |-> FALSE]
Suppressed == [eligible |-> FALSE, artifacts |-> {}]

Init ==
  /\ FeedInit
  /\ taken = {} /\ acked = {} /\ left = {}
  /\ runs = [x \in {} |-> Suppressed]
  /\ members = {} /\ requests = {}
  /\ open = [p \in Programs |-> Closed]
  /\ silent = {} /\ overtaken = {} /\ again = 0

Announced_(m) == {[m |-> m, e |-> e] : e \in feed[m].events}
Announcements_ == UNION {Announced_(m) : m \in Messages}

-------------------------------------------------------------------------------
(* The collector and the relay *)

\* bounds: the first version is created and every other edited (the handler reads no
\* kind), version v has content v, a row shows the content of a version, and a deletion
\* is announced MaxDeletions times
Usual(r) ==
  /\ Len(r.versions) <= MaxVersion
  /\ \A e \in r.events : e.kind \in {"deleted", IF e.version = 1 THEN "created" ELSE "edited"}
  /\ \A v \in 1..Len(r.versions) : r.versions[v] = v
  /\ r.text <= Len(r.versions)
  /\ Cardinality({e \in r.events : e.kind = "deleted"}) <= MaxDeletions

Collect(m) ==
  /\ \E r \in Effects(feed[m]) :
        /\ Usual(r)
        /\ feed' = [feed EXCEPT ![m] = r]
        /\ silent' = IF r.events = feed[m].events THEN silent \cup {m} ELSE silent \ {m}
  /\ open' = [p \in Programs |-> IF open[p].pc = "write" /\ open[p].m = m
                                  THEN [open[p] EXCEPT !.stale = TRUE] ELSE open[p]]
  /\ UNCHANGED <<stream, tables, overtaken, again>>

\* a restarted relay sends an announcement once more
Resend(a) ==
  /\ again < MaxAgain /\ a \in taken /\ open["worker"].pc = "idle"
  /\ taken' = taken \ {a} /\ acked' = acked \ {a} /\ left' = left \ {a}
  /\ again' = again + 1
  /\ UNCHANGED <<feed, tables, open, silent, overtaken>>

-------------------------------------------------------------------------------
(* process_stream_message *)

\* _snapshot_for_requested_version: an older version has a row of its own
Content(r, v) == IF v = Len(r.versions) THEN r.text ELSE r.versions[v]

\* The announcement and the rows it is about are read, without a lock.  (Taking and
\* reading are one step: in between, a program can only fail, as it can after.)
Read_DeletionsOnly(p, a) ==
  LET r == feed[a.m] IN
    /\ open[p].pc = "idle"
    /\ open' = [open EXCEPT ![p] = [pc |-> "write", m |-> a.m, e |-> a.e,
                                   deleted |-> a.e.kind = "deleted",
                                   text |-> Content(r, a.e.version), stale |-> FALSE]]
Read(p, a) ==
  LET r == feed[a.m] IN
    /\ open[p].pc = "idle"
    /\ open' = [open EXCEPT ![p] = [pc |-> "write", m |-> a.m, e |-> a.e, deleted |-> r.deleted,
                                   text |-> IF r.deleted THEN 0 ELSE Content(r, a.e.version),
                                   stale |-> FALSE]]

WorkerTakes_Newest(a) ==
  /\ a \in Announcements_ \ taken
  /\ taken' = taken \cup {b \in Announced_(a.m) : b.e.version <= a.e.version}
  /\ Read("worker", a)
  /\ UNCHANGED <<feed, acked, left, tables, silent, overtaken, again>>
WorkerTakes(a) ==
  /\ a \in Announcements_ \ taken
  /\ taken' = taken \cup {a}
  /\ Read("worker", a)
  /\ UNCHANGED <<feed, acked, left, tables, silent, overtaken, again>>

RunnerTakes(a) ==
  /\ again < MaxAgain /\ a \in Announcements_
  /\ again' = again + 1
  /\ Read("runner", a)
  /\ UNCHANGED <<feed, stream, tables, silent, overtaken>>

\* ShortUrlResolver; the runner has the OfflineShortUrlResolver
Opened(p, t) == IF p = "worker" THEN SUBSET OfKind(Links[t], {"short_url_unresolved"}) ELSE {{}}

Evaluate(t, opened) ==
  LET linked   == Anchored(Canonical(Links[t], opened))
      eligible == Eligible(linked, t \in Keyworded)
  IN [eligible  |-> eligible,
      artifacts |-> IF eligible /\ linked = {} THEN {Idea[t]} ELSE linked]

Proposed(m, v, S) ==
  UNION {{[group |-> [m |-> m, v |-> v, primary |-> p], artifact |-> a] : a \in Members(p, S)} :
         p \in Primaries(S)}

\* upserts of the run, the groups and their members, and the requests whose key is
\* new; a deleted message gets a run and nothing else
Write(o, run) ==
  LET new == IF run.eligible THEN Proposed(o.m, o.e.version, run.artifacts) ELSE {}
  IN /\ runs' = [x \in DOMAIN runs \cup {<<o.m, o.e.version>>} |->
                   IF x = <<o.m, o.e.version>> THEN run ELSE runs[x]]
     /\ members' = members \cup new
     /\ requests' = requests \cup {x \in new : HasProvider(x.artifact)}
     /\ overtaken' = IF o.stale THEN overtaken \cup {<<o.m, o.e.version>>}
                                 ELSE overtaken \ {<<o.m, o.e.version>>}

Outcomes(p) ==
  IF open[p].deleted THEN {Suppressed}
  ELSE {Evaluate(open[p].text, opened) : opened \in Opened(p, open[p].text)}

\* the transaction commits
Commit(p) ==
  /\ open[p].pc = "write"
  /\ \E run \in Outcomes(p) : Write(open[p], run)
  /\ open' = [open EXCEPT ![p] = IF p = "worker"
                                 THEN [Closed EXCEPT !.pc = "ack", !.m = open[p].m, !.e = open[p].e]
                                 ELSE Closed]
  /\ UNCHANGED <<feed, stream, silent, again>>

Held == [m |-> open["worker"].m, e |-> open["worker"].e]

Ack ==
  /\ open["worker"].pc = "ack"
  /\ acked' = acked \cup {Held}
  /\ open' = [open EXCEPT !["worker"] = Closed]
  /\ UNCHANGED <<feed, taken, left, tables, silent, overtaken, again>>

\* an exception, a deadlock or the end of the process: nothing is written, and the
\* worker's announcement stays in the pending list
Fail_Acks(p) ==
  /\ open[p].pc \in {"write", "ack"}
  /\ open' = [open EXCEPT ![p] = Closed]
  /\ acked' = IF p = "worker" THEN acked \cup {Held} ELSE acked
  /\ UNCHANGED <<feed, taken, left, tables, silent, overtaken, again>>
Fail(p) ==
  /\ open[p].pc \in {"write", "ack"}
  /\ open' = [open EXCEPT ![p] = Closed]
  /\ left' = IF p = "worker" THEN left \cup {Held} ELSE left
  /\ UNCHANGED <<feed, taken, acked, tables, silent, overtaken, again>>

Worker == (\E a \in Announcements_ : WorkerTakes(a)) \/ Commit("worker") \/ Ack

Next ==
  \/ \E m \in Messages : Collect(m)
  \/ \E a \in Announcements_ : Resend(a) \/ RunnerTakes(a)
  \/ Worker
  \/ Commit("runner")
  \/ \E p \in Programs : Fail(p)

\* the worker's loop goes on; nobody has to start the runner
Spec == Init /\ [][Next]_vars /\ WF_vars(Worker)
-------------------------------------------------------------------------------
(* Properties *)

Groups == [m : Messages, v : 1..MaxVersion, primary : Artifacts]
Versions == Messages \X (1..MaxVersion)
Jobs == [m : Messages, e : Announcements]

\* Shapes; the worker's announcements are acknowledged or left, not both.
TypeOK ==
  /\ feed \in [Messages -> Rows]
  /\ taken \subseteq Jobs /\ acked \subseteq taken /\ left \subseteq taken
  /\ acked \cap left = {}
  /\ DOMAIN runs \subseteq Versions
  /\ \A x \in DOMAIN runs : runs[x] \in [eligible : BOOLEAN, artifacts : SUBSET Artifacts]
  /\ members \subseteq [group : Groups, artifact : Artifacts] /\ requests \subseteq members
  /\ \A p \in Programs : open[p].pc \in {"idle", "write", "ack"}
                        /\ open[p].text \in Texts \cup {0} /\ open[p].deleted \in BOOLEAN

\* An acknowledged announcement has left its version normalized: the worker
\* acknowledges after the commit, and nothing takes a run away.
AckedIsNormalized == \A a \in acked : <<a.m, a.e.version>> \in DOMAIN runs

\* No link of an accepted message is lost: what an eligible run found is in the groups
\* of its version, and every member somebody can fetch has been requested for its
\* group, whichever program handled the version last and however often.
EligibleIsProposed ==
  /\ \A x \in DOMAIN runs : runs[x].eligible =>
       \A a \in runs[x].artifacts : \E y \in members :
          y.artifact = a /\ y.group.m = x[1] /\ y.group.v = x[2]
  /\ \A y \in members : HasProvider(y.artifact) => y \in requests

\* A deleted message ends suppressed.  When the worker has acknowledged its
\* announcements and nobody is in the middle of one, its last version counts as not
\* eligible, unless the row changed without an announcement (a second deletion of a
\* version has the key of the first) or the run was written by a transaction that had
\* read the row before its last change.
DeletedIsSuppressed ==
  \A m \in Messages :
     LET last == <<m, Len(feed[m].versions)>> IN
       /\ feed[m].deleted /\ m \notin silent
       /\ Announced_(m) \subseteq acked /\ \A p \in Programs : open[p].pc = "idle"
       => runs[last] = Suppressed \/ last \in overtaken

\* Again and again every stored version is normalized, or an announcement of it is in
\* the pending list: the worker never passes one by for another.
EveryVersionDecided ==
  []<>(\A m \in Messages : \A v \in 1..Len(feed[m].versions) :
          \/ <<m, v>> \in DOMAIN runs
          \/ \E a \in left : a.m = m /\ a.e.version = v)
===============================================================================
