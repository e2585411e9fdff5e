---------------------------- MODULE EvidenceAssembler ----------------------------
(***************************************************************************)
(* evidence-assembler: it turns the snapshots of one candidate group's     *)
(* members into append-only evidence bundles and keeps the group's current *)
(* primary and current bundle.                                             *)
(*                                                                         *)
(* A refresh is one transaction of several statements, each of which sees  *)
(* what others committed before it; the group's row is locked from the     *)
(* first UPDATE to the end.  The bounded runner commits.  The worker opens *)
(* a session whose first SELECT begins a transaction that nobody ends, so  *)
(* repository.transaction() joins it and closing the session undoes it.    *)
(***************************************************************************)
EXTENDS Naturals, Sequences, FiniteSets

CONSTANTS
    Order,           \* the group's members as load_candidate_members orders them
    Kind,            \* artifact type of each member
    Primary0,        \* initial_primary_artifact_id
    Procs,           \* processes that refresh
    Committing,      \* those that commit: bounded runners
    MaxUpdates,      \* bound: current snapshots set by the enrichers
    MaxDisturbances  \* bound: events sent again by a restarted relay, messages the
                     \* normalizer handles again, processes that end in the middle

Artifacts == {Order[i] : i \in 1..Len(Order)}

ASSUME AssemblerAssumption ==
    /\ Order \in Seq(Artifacts)
    /\ Kind \in [Artifacts -> {"github_repo", "x_post", "web_article", "text_idea"}]
    /\ Primary0 \in Artifacts
    /\ Committing \subseteq Procs
    /\ MaxUpdates \in Nat /\ MaxDisturbances \in Nat

(* What a current snapshot can be, by content: "gone" is an X post that    *)
(* cannot be read any more, "low" has low_evidence, "linking" is a ready X *)
(* post whose URLs name the repository member (a poor post that does not   *)
(* link behaves as a ready one).                                           *)
Snapshots == {"gone", "low", "ready", "linking"}
Provided(a) ==
    CASE Kind[a] = "github_repo" -> {"ready"}
      [] Kind[a] = "x_post"      -> {"gone", "ready", "linking"}
      [] Kind[a] = "web_article" -> {"low", "ready"}
      [] Kind[a] = "text_idea"   -> {}

(* The fields bundle_input_hash covers; the hash identifies a bundle.      *)
Inputs == [primary : Artifacts, snaps : [Artifacts -> Snapshots \cup {"none"}], reroots : Nat]
NoBundle == [primary |-> Primary0, snaps |-> [a \in Artifacts |-> "none"],
             reroots |-> MaxUpdates + MaxDisturbances + 1]

VARIABLES
    snap,       \* artifact_registry.current_snapshot_id
    announced,  \* snapshots with an artifact.snapshot.updated row
    queue,      \* messages of q.candidate.bundle not yet taken
    primary,    \* candidate_group_proposals.current_primary_artifact_id
    current,    \* candidate_group_proposals.current_bundle_id
    reroots,    \* number of candidate_reroot_events
    bundles,    \* candidate_evidence_bundles
    requested,  \* bundles with an analysis.requested row
    holder,     \* who has the group's row locked
    proc,       \* the open transaction of each process
    silent,     \* what came back, without an event, after the last message (history):
                \* members' snapshots, and the initial primary
    lost,       \* a message was consumed and nothing committed (history)
    updates, resends, renormalised, stops

database == <<primary, current, reroots, bundles, requested>>
counters == <<updates, resends, renormalised, stops>>
vars == <<snap, announced, queue, primary, current, reroots, bundles, requested, holder, proc,
          silent, lost, updates, resends, renormalised, stops>>

Idle == [at |-> "idle", primary |-> Primary0, current |-> NoBundle, moved |-> FALSE,
         snaps |-> [a \in Artifacts |-> "none"], input |-> NoBundle, version |-> 0]
Steps == {"idle", "read", "reroot", "lookup", "append", "point", "commit"}

(* The variables keep their shape, and who has rerooted holds the row.     *)
TypeOK ==
    /\ snap \in [Artifacts -> Snapshots \cup {"none"}]
    /\ announced \subseteq Artifacts \X Snapshots
    /\ queue \in Nat /\ reroots \in Nat
    /\ primary \in Artifacts /\ current \in Inputs /\ requested \subseteq Inputs
    /\ \A b \in bundles : b.input \in Inputs /\ b.version \in Nat \ {0}
    /\ holder \in {{}} \cup {{p} : p \in Procs}
    /\ \A p \in Procs :
         /\ proc[p].at \in Steps /\ proc[p].primary \in Artifacts
         /\ proc[p].moved \in BOOLEAN /\ proc[p].version \in Nat
         /\ proc[p].input \in Inputs /\ proc[p].current \in Inputs
         /\ proc[p].moved => holder = {p}
    /\ silent \subseteq Artifacts \cup {"primary"} /\ lost \in BOOLEAN

Init ==
    /\ snap = [a \in Artifacts |-> "none"] /\ announced = {} /\ queue = 0
    /\ primary = Primary0 /\ current = NoBundle /\ reroots = 0
    /\ bundles = {} /\ requested = {}
    /\ holder = {} /\ proc = [p \in Procs |-> Idle]
    /\ silent = {} /\ lost = FALSE
    /\ updates = 0 /\ resends = 0 /\ renormalised = 0 /\ stops = 0

-----------------------------------------------------------------------------
(* What the group's neighbours do.                                         *)

(* An enricher sets a current snapshot and announces it; a snapshot that   *)
(* returns has its row and its event already.                              *)
Update(a, s) ==
    /\ updates < MaxUpdates /\ s \in Provided(a) /\ s # snap[a]
    /\ snap' = [snap EXCEPT ![a] = s]
    /\ announced' = announced \cup {<<a, s>>}
    /\ queue' = IF <<a, s>> \in announced THEN queue ELSE queue + 1
    /\ silent' = IF <<a, s>> \in announced THEN silent \cup {a} ELSE {}
    /\ updates' = updates + 1
    /\ UNCHANGED <<database, holder, proc, lost, resends, renormalised, stops>>

Disturbable == resends + renormalised + stops < MaxDisturbances

Resend ==
    /\ Disturbable /\ announced # {}
    /\ queue' = queue + 1 /\ silent' = {} /\ resends' = resends + 1
    /\ UNCHANGED <<snap, announced, database, holder, proc, lost, updates, renormalised, stops>>

(* The router handles the source message once more: the upsert of the      *)
(* group sets the current primary back to the initial one.                 *)
Renormalise ==
    /\ Disturbable /\ holder = {}
    /\ primary' = Primary0 /\ renormalised' = renormalised + 1
    /\ silent' = silent \cup {"primary"}
    /\ UNCHANGED <<snap, announced, queue, current, reroots, bundles, requested, holder, proc,
                   lost, updates, resends, stops>>

-----------------------------------------------------------------------------
(* One refresh.                                                            *)

Take_InitialPrimary(p) ==
    /\ proc[p].at = "idle" /\ queue > 0
    /\ queue' = queue - 1
    /\ proc' = [proc EXCEPT ![p] = [Idle EXCEPT !.at = "read", !.current = current]]
    /\ UNCHANGED <<snap, announced, database, holder, silent, lost, counters>>
Take(p) ==
    /\ proc[p].at = "idle" /\ queue > 0
    /\ queue' = queue - 1
    /\ proc' = [proc EXCEPT ![p] = [Idle EXCEPT !.at = "read", !.primary = primary, !.current = current]]
    /\ UNCHANGED <<snap, announced, database, holder, silent, lost, counters>>

(* A text idea has no provider: its snapshot is made here, when it is the  *)
(* primary or nothing else can be used.                                    *)
Usable(s) == s \in {"low", "ready", "linking"}
Materialised(s, prime) ==
    LET external == \E a \in Artifacts : Kind[a] # "text_idea" /\ Usable(s[a])
    IN [a \in Artifacts |->
          IF Kind[a] = "text_idea" /\ (a = prime \/ ~external) THEN "low" ELSE s[a]]

ReadyRepos(s) == {i \in 1..Len(Order) : Kind[Order[i]] = "github_repo" /\ s[Order[i]] = "ready"}
BestReadyRepo(s) == Order[CHOOSE i \in ReadyRepos(s) : \A j \in ReadyRepos(s) : i <= j]

(* RerootRules.decide                                                      *)
Decide(prime, s) ==
    IF Kind[prime] # "github_repo" /\ ReadyRepos(s) # {} /\ (~Usable(s[prime]) \/ s[prime] = "linking")
    THEN BestReadyRepo(s)
    ELSE prime

(* The rules see the snapshots just read; only a change is written.        *)
Read(p) ==
    LET read == Materialised(snap, proc[p].primary)
        same == Decide(proc[p].primary, read) = proc[p].primary
    IN
    /\ proc[p].at = "read"
    /\ proc' = [proc EXCEPT ![p].at = IF same THEN "lookup" ELSE "reroot", ![p].snaps = read]
    /\ UNCHANGED <<snap, announced, queue, database, holder, silent, lost, counters>>

(* The new primary and its reroot event; the row stays locked.             *)
Reroot(p) ==
    /\ proc[p].at = "reroot"
    /\ holder = {} /\ holder' = {p}
    /\ proc' = [proc EXCEPT ![p].at = "lookup", ![p].moved = TRUE,
                            ![p].primary = Decide(proc[p].primary, proc[p].snaps)]
    /\ UNCHANGED <<snap, announced, queue, database, silent, lost, counters>>

Stored(input) == \E b \in bundles : b.input = input

(* count_reroot_events, _bundle_input_hash and load_existing_bundle: the   *)
(* rows committed by now and its own reroot event.  A stored bundle is     *)
(* reused; its pointer moves if the group had another one when loaded.     *)
Lookup_ReuseKeepsPointer(p) ==
    LET input == [primary |-> proc[p].primary, snaps |-> proc[p].snaps,
                  reroots |-> reroots + (IF proc[p].moved THEN 1 ELSE 0)] IN
    /\ proc[p].at = "lookup"
    /\ proc' = [proc EXCEPT ![p].input = IF Stored(input) THEN proc[p].current ELSE input,
                            ![p].at = IF Stored(input) THEN "commit" ELSE "append"]
    /\ UNCHANGED <<snap, announced, queue, database, holder, silent, lost, counters>>
Lookup_RerootsNotHashed(p) ==
    LET input == [primary |-> proc[p].primary, snaps |-> proc[p].snaps, reroots |-> 0] IN
    /\ proc[p].at = "lookup"
    /\ proc' = [proc EXCEPT ![p].input = input,
                            ![p].at = IF ~Stored(input) THEN "append"
                                      ELSE IF proc[p].current # input THEN "point" ELSE "commit"]
    /\ UNCHANGED <<snap, announced, queue, database, holder, silent, lost, counters>>
Lookup(p) ==
    LET input == [primary |-> proc[p].primary, snaps |-> proc[p].snaps,
                  reroots |-> reroots + (IF proc[p].moved THEN 1 ELSE 0)] IN
    /\ proc[p].at = "lookup"
    /\ proc' = [proc EXCEPT ![p].input = input,
                            ![p].at = IF ~Stored(input) THEN "append"
                                      ELSE IF proc[p].current # input THEN "point" ELSE "commit"]
    /\ UNCHANGED <<snap, announced, queue, database, holder, silent, lost, counters>>

NextVersion ==
    IF bundles = {} THEN 1
    ELSE (CHOOSE b \in bundles : \A c \in bundles : c.version <= b.version).version + 1

(* The insert waits for another open transaction with the same hash.       *)
Inserting(input) == {q \in Procs : proc[q].version > 0 /\ proc[q].input = input}

Append_(p) ==
    /\ proc[p].at = "append"
    /\ Inserting(proc[p].input) = {} /\ ~Stored(proc[p].input)
    /\ proc' = [proc EXCEPT ![p].at = "point", ![p].version = NextVersion]
    /\ UNCHANGED <<snap, announced, queue, database, holder, silent, lost, counters>>

Point(p) ==
    /\ proc[p].at = "point" /\ holder \in {{}, {p}}
    /\ holder' = {p}
    /\ proc' = [proc EXCEPT ![p].at = "commit"]
    /\ UNCHANGED <<snap, announced, queue, database, silent, lost, counters>>

Ready(input) == Usable(input.snaps[input.primary])

(* With the reroot the group's row gets its new primary.                   *)
PrimaryAfter(p) == IF proc[p].moved THEN proc[p].primary ELSE primary

(* A ready bundle's analysis is requested, stored before or now.           *)
RequestedAfter_Unready(p) == requested \cup {proc[p].input}
RequestedAfter(p) ==
    IF Ready(proc[p].input) THEN requested \cup {proc[p].input} ELSE requested

(* What the transaction wrote becomes visible at once; then XACK.          *)
Commit(p) ==
    /\ proc[p].at = "commit" /\ p \in Committing
    /\ primary' = PrimaryAfter(p)
    /\ reroots' = reroots + (IF proc[p].moved THEN 1 ELSE 0)
    /\ bundles' = IF proc[p].version = 0 THEN bundles
                  ELSE bundles \cup {[input |-> proc[p].input, version |-> proc[p].version]}
    /\ current' = IF proc[p].input # proc[p].current THEN proc[p].input ELSE current
    /\ requested' = RequestedAfter(p)
    /\ holder' = holder \ {p} /\ proc' = [proc EXCEPT ![p] = Idle]
    /\ UNCHANGED <<snap, announced, queue, silent, lost, counters>>

RollBack_LockKept(p) ==
    /\ lost' = TRUE
    /\ UNCHANGED holder /\ proc' = [proc EXCEPT ![p] = Idle]
    /\ UNCHANGED <<snap, announced, queue, database, silent>>
RollBack(p) ==
    /\ lost' = TRUE
    /\ holder' = holder \ {p} /\ proc' = [proc EXCEPT ![p] = Idle]
    /\ UNCHANGED <<snap, announced, queue, database, silent>>

(* The worker's session is closed without a commit and the message acked.  *)
CloseUncommitted(p) ==
    /\ proc[p].at = "commit" /\ p \notin Committing
    /\ RollBack(p) /\ UNCHANGED counters

(* Another transaction has stored the bundle since the look-up.            *)
InsertFails(p) ==
    /\ proc[p].at = "append" /\ Stored(proc[p].input)
    /\ RollBack(p) /\ UNCHANGED counters

Stop(p) ==
    /\ proc[p].at # "idle" /\ Disturbable
    /\ stops' = stops + 1
    /\ RollBack(p) /\ UNCHANGED <<updates, resends, renormalised>>

Refresh(p) ==
    \/ Take(p) \/ Read(p) \/ Reroot(p) \/ Lookup(p) \/ Append_(p) \/ Point(p)
    \/ Commit(p) \/ CloseUncommitted(p) \/ InsertFails(p)

Neighbours ==
    \/ \E a \in Artifacts, s \in Snapshots : Update(a, s)
    \/ Resend \/ Renormalise

Next == Neighbours \/ \E p \in Procs : Refresh(p) \/ Stop(p)

Spec == Init /\ [][Next]_vars

FairSpec == Spec /\ \A p \in Procs : WF_vars(Refresh(p))

-----------------------------------------------------------------------------

AtRest == queue = 0 /\ \A p \in Procs : proc[p].at = "idle"

(* When every message has been handled by a process that commits, the      *)
(* current bundle holds the members' current snapshots, except those that  *)
(* came back without an event.  Whatever was read too early was refreshed, *)
(* and when content returns the pointer is back at its bundle.             *)
FreshAtRest ==
    AtRest /\ ~lost =>
        \A a \in Artifacts \ silent : Kind[a] # "text_idea" => current.snaps[a] = snap[a]

(* So does its primary, unless the router put the initial one back after   *)
(* the last message: it is the group's, and nothing is left to reroot.     *)
PrimarySettled ==
    AtRest /\ ~lost /\ "primary" \notin silent =>
        current.primary = primary /\ Decide(primary, current.snaps) = primary

(* Where the group's row is held across a wait for a bundle hash, nobody   *)
(* has inserted that hash: row and unique key never wait for each other in *)
(* a circle, and a refresh that reroots never loses its insert.            *)
HolderNeverWaits ==
    \A p \in Procs : proc[p].at = "append" /\ holder = {p} =>
        Inserting(proc[p].input) = {} /\ ~Stored(proc[p].input)

(* The messages are handled, whoever waits for the row or the hash.        *)
QueueDrains == <>[](queue = 0 /\ \A p \in Procs : proc[p].at = "idle")

(* Documented: the state is in PostgreSQL before the message is acked.     *)
AckedIsCommitted == stops = 0 => ~lost
=============================================================================
