---------------------------- MODULE EnrichmentProofs ----------------------------
(* Proofs about Enrichment, for any number of groups, contents, processes, *)
(* changes, crashes, failures and resends.                                 *)
EXTENDS Enrichment, FiniteSetTheorems, TLAPS

(* What is recorded was fetched; TypeOK needs it for the snapshots.        *)
Fetched == \A w \in Workers : worker[w].at = "record" => worker[w].got \in Contents
TypeInv == TypeOK /\ Fetched

LEMMA TypeInvInit == Init => TypeInv
  BY EnrichmentAssumption
  DEF Init, TypeInv, TypeOK, Fetched, Idle, Bases, Providers, RunStatuses

LEMMA TypeInvStep == TypeInv /\ [Next]_vars => TypeInv'
<1> SUFFICES ASSUME TypeInv, [Next]_vars PROVE TypeInv'
  OBVIOUS
<1> USE EnrichmentAssumption DEF TypeInv, TypeOK, Fetched, Bases, assembler
<1>1. ASSUME NEW g \in Groups, Join(g) PROVE TypeInv'
  BY <1>1 DEF Join
<1>2. CASE Resend
  <2>1. CASE \E g \in joined : jobs' = Append(jobs, g) /\ UNCHANGED updates
    BY <1>2, <2>1 DEF Resend
  <2>2. CASE \E c \in announced : updates' = Append(updates, c) /\ UNCHANGED jobs
    BY <1>2, <2>2 DEF Resend
  <2> QED BY <1>2, <2>1, <2>2 DEF Resend
<1>3. ASSUME NEW c \in Contents, Change(c) PROVE TypeInv'
  BY <1>3 DEF Change
<1>4. ASSUME NEW w \in Workers, Stop(w) PROVE TypeInv'
  BY <1>4 DEF Stop, Idle
<1>5. CASE FanOut
  <2>1. CASE TakeUpdate
    BY <2>1 DEF TakeUpdate, Targets
  <2>2. ASSUME NEW g \in Groups, RefreshOne(g) PROVE TypeInv'
    BY <2>2 DEF RefreshOne
  <2>3. CASE FanOutFails
    BY <2>3 DEF FanOutFails
  <2> QED BY <1>5, <2>1, <2>2, <2>3 DEF FanOut
<1>6. ASSUME NEW w \in Workers, Handle(w) PROVE TypeInv'
  <2>1. CASE RejectUnpublished(w)
    BY <2>1 DEF RejectUnpublished
  <2>2. CASE ShortCircuit(w)
    BY <2>2 DEF ShortCircuit, Announce
  <2>3. CASE LoadCurrent(w)
    BY <2>3 DEF LoadCurrent
  <2>4. CASE Claim(w)
    BY <2>4 DEF Claim, RunStatuses
  <2>5. CASE Duplicate(w)
    BY <2>5 DEF Duplicate, Idle
  <2>6. CASE FetchOk(w)
    <3>1. UNCHANGED <<provider, publisher, joined, jobs, content, snaps, current, runs, announced,
                      updates, assembler, changes, stops, resends>>
      BY <2>6 DEF FetchOk
    <3>2. worker' = [worker EXCEPT ![w] = [@ EXCEPT !.at = "record", !.got = content]]
      BY <2>6 DEF FetchOk
    <3>3. /\ content \in Contents /\ content \in Bases /\ \A v \in Workers : v # w => worker'[v] = worker[v]
          /\ worker'[w].at = "record" /\ worker'[w].got = content
      BY <3>2
    <3>4. worker' \in [Workers -> [at : {"idle", "claim", "fetch", "record"}, base : Bases, got : Bases]]
      BY <3>2, <3>3
    <3>5. Fetched'
      BY <3>1, <3>3
    <3> QED BY <3>1, <3>4, <3>5
  <2>7. CASE FetchRefused(w)
    <3>1. worker' = [worker EXCEPT ![w] = Idle]
      BY <2>7 DEF FetchRefused, Finish
    <3>2. runs' \in [Bases -> RunStatuses]
      BY <2>7 DEF FetchRefused, Finish, RunStatuses
    <3>3. UNCHANGED <<provider, publisher, joined, jobs, content, snaps, current, announced,
                      updates, assembler, changes, stops, resends>>
      BY <2>7 DEF FetchRefused
    <3> QED BY <3>1, <3>2, <3>3 DEF Idle
  <2>8. CASE FetchTransient(w)
    <3>1. worker' = [worker EXCEPT ![w] = Idle]
      BY <2>8 DEF FetchTransient, Finish
    <3>2. worker[w].base \in Bases /\ runs' \in [Bases -> RunStatuses]
      BY <2>8 DEF FetchTransient, Finish, RunStatuses
    <3>3. UNCHANGED <<provider, publisher, joined, jobs, content, snaps, current, announced,
                      updates, assembler, changes, stops, resends>>
      BY <2>8 DEF FetchTransient
    <3> QED BY <3>1, <3>2, <3>3 DEF Idle
  <2>9. CASE RecordSame(w)
    BY <2>9 DEF RecordSame, Finish, Idle, RunStatuses
  <2>10. CASE RecordSnapshot(w)
    BY <2>10 DEF RecordSnapshot, Finish, Announce, Idle, RunStatuses
  <2> QED BY <1>6, <2>1, <2>2, <2>3, <2>4, <2>5, <2>6, <2>7, <2>8, <2>9, <2>10 DEF Handle
<1>7. CASE UNCHANGED vars
  BY <1>7 DEF vars
<1> QED BY <1>1, <1>2, <1>3, <1>4, <1>5, <1>6, <1>7 DEF Next

(* The variables keep their shape.                                         *)
THEOREM TypeCorrect == Spec => []TypeOK
  BY TypeInvInit, TypeInvStep, PTL DEF Spec, TypeInv

-----------------------------------------------------------------------------

(* Every snapshot has its event: the enrichers never commit one without    *)
(* the other.                                                              *)
LEMMA SnapshotsAnnouncedStep ==
    TypeInv /\ SnapshotsAnnounced /\ [Next]_vars => SnapshotsAnnounced'
<1> SUFFICES ASSUME TypeInv, SnapshotsAnnounced, [Next]_vars PROVE SnapshotsAnnounced'
  OBVIOUS
<1> USE DEF SnapshotsAnnounced
<1>1. ASSUME NEW w \in Workers, Handle(w) PROVE SnapshotsAnnounced'
  <2>1. CASE ShortCircuit(w)
    BY <2>1 DEF ShortCircuit, Announce
  <2>2. CASE RecordSnapshot(w)
    BY <2>2 DEF RecordSnapshot, Announce
  <2> QED
    BY <1>1, <2>1, <2>2
    DEF Handle, RejectUnpublished, LoadCurrent, Claim, Duplicate, FetchOk, FetchRefused,
        FetchTransient, RecordSame
<1>2. CASE UNCHANGED vars
  BY <1>2 DEF vars
<1> QED BY <1>1, <1>2 DEF Next, Join, Resend, Change, Stop, FanOut, TakeUpdate, RefreshOne, FanOutFails

(* A snapshot and its event appear together.                               *)
THEOREM Announced == Spec => []SnapshotsAnnounced
<1>1. Init => SnapshotsAnnounced
  BY DEF Init, SnapshotsAnnounced
<1> QED
  BY <1>1, TypeInvInit, TypeInvStep, SnapshotsAnnouncedStep, PTL DEF Spec

-----------------------------------------------------------------------------

(* Why the key serialises the fetchers.  A process that still has to claim *)
(* either looked at what is current or finds its key taken: the snapshot   *)
(* can only have moved away from its base by a run with that key.  A web   *)
(* run in progress is a committed row.                                     *)
StaleBaseIsTaken ==
    \A w \in Workers : worker[w].at = "claim" =>
        worker[w].base = current \/ runs[worker[w].base] # "none"
WebRunIsCommitted ==
    \A w \in Workers : provider = "web" /\ worker[w].at \in {"fetch", "record"} =>
        runs[worker[w].base] # "none"
Serial == NoLostUpdate /\ StaleBaseIsTaken /\ WebRunIsCommitted

LEMMA SerialStep == TypeInv /\ Serial /\ [Next]_vars => Serial'
<1> SUFFICES ASSUME TypeInv, Serial, [Next]_vars PROVE Serial'
  OBVIOUS
<1> USE DEF Serial, NoLostUpdate, StaleBaseIsTaken, WebRunIsCommitted, TypeInv, TypeOK
<1>1. ASSUME NEW w \in Workers, Handle(w) PROVE Serial'
  <2>1. CASE RejectUnpublished(w) \/ ShortCircuit(w)
    BY <2>1 DEF RejectUnpublished, ShortCircuit
  <2>2. CASE LoadCurrent(w)
    BY <2>2 DEF LoadCurrent
  <2>3. CASE Claim(w)
    BY <2>3 DEF Claim, KeyExists, OpenClaim
  <2>4. CASE Duplicate(w)
    BY <2>4 DEF Duplicate, Idle
  <2>5. CASE FetchOk(w)
    BY <2>5 DEF FetchOk
  <2>6. CASE FetchRefused(w)
    BY <2>6 DEF FetchRefused, Finish, Idle
  <2>7. CASE FetchTransient(w)
    <3>1. worker' = [worker EXCEPT ![w] = Idle] /\ UNCHANGED <<provider, current>>
      BY <2>7 DEF FetchTransient, Finish
    <3>2. \A b \in Bases : runs[b] # "none" => runs'[b] # "none"
      BY <2>7 DEF FetchTransient, Finish
    <3> QED BY <3>1, <3>2 DEF Idle, Bases
  <2>8. CASE RecordSame(w)
    BY <2>8 DEF RecordSame, Finish, Idle
  <2>9. CASE RecordSnapshot(w)
    BY <2>9 DEF RecordSnapshot, Finish, Idle
  <2> QED BY <1>1, <2>1, <2>2, <2>3, <2>4, <2>5, <2>6, <2>7, <2>8, <2>9 DEF Handle
<1>2. ASSUME NEW w \in Workers, Stop(w) PROVE Serial'
  BY <1>2 DEF Stop, Idle
<1>3. CASE (\E g \in Groups : Join(g)) \/ Resend \/ (\E c \in Contents : Change(c)) \/ FanOut
  BY <1>3 DEF Join, Resend, Change, FanOut, TakeUpdate, RefreshOne, FanOutFails
<1>4. CASE UNCHANGED vars
  BY <1>4 DEF vars
<1> QED BY <1>1, <1>2, <1>3, <1>4 DEF Next

(* One process fetches at a time and the current snapshot has not moved    *)
(* since it looked, although nothing but the unique key orders them.       *)
THEOREM Serialised == Spec => []NoLostUpdate
<1>1. Init => Serial
  BY DEF Init, Serial, NoLostUpdate, StaleBaseIsTaken, WebRunIsCommitted, Idle
<1>2. Serial => NoLostUpdate
  BY DEF Serial
<1> QED
  BY <1>1, <1>2, TypeInvInit, TypeInvStep, SerialStep, PTL DEF Spec

-----------------------------------------------------------------------------

(* Only web commits a run that is not finished.                            *)
OnlyWebFetches == provider = "web" \/ \A b \in Bases : runs[b] # "fetching"

(* The strengthening: only a finite set has a cardinality to speak of.     *)
AbandonedInv == OnlyWebFetches /\ IsFiniteSet(Abandoned) /\ AbandonedNeedStops

LEMMA OnlyWebFetchesStep ==
    TypeInv /\ OnlyWebFetches /\ [Next]_vars => OnlyWebFetches'
<1> SUFFICES ASSUME TypeInv, OnlyWebFetches, [Next]_vars PROVE OnlyWebFetches'
  OBVIOUS
<1> USE DEF OnlyWebFetches, TypeInv, TypeOK
<1>1. ASSUME NEW w \in Workers, Handle(w) PROVE OnlyWebFetches'
  <2>1. provider' = provider
    BY <1>1 DEF Handle, RejectUnpublished, ShortCircuit, LoadCurrent, Claim, Duplicate, FetchOk,
                FetchRefused, FetchTransient, RecordSame, RecordSnapshot
  <2>2. \/ provider = "web"
        \/ UNCHANGED runs
        \/ \E s \in {"done", "refused"} : Finish(w, s)
    BY <1>1 DEF Handle, RejectUnpublished, ShortCircuit, LoadCurrent, Claim, Duplicate, FetchOk,
                FetchRefused, FetchTransient, RecordSame, RecordSnapshot
  <2> QED BY <2>1, <2>2 DEF Finish
<1>2. CASE UNCHANGED vars
  BY <1>2 DEF vars
<1> QED BY <1>1, <1>2 DEF Next, Join, Resend, Change, Stop, FanOut, TakeUpdate, RefreshOne, FanOutFails

(* A process that leaves its key without Stop has finished the run, or is  *)
(* not one of web's and leaves no committed claim.                         *)
LEMMA HandleAbandonsNothing ==
    ASSUME TypeInv, OnlyWebFetches, NEW w \in Workers, Handle(w)
    PROVE  Abandoned' \subseteq Abandoned
<1> USE DEF TypeInv, TypeOK, Abandoned
<1>1. CASE RejectUnpublished(w) \/ ShortCircuit(w)
  BY <1>1 DEF RejectUnpublished, ShortCircuit
<1>2. CASE LoadCurrent(w)
  BY <1>2 DEF LoadCurrent
<1>3. CASE Claim(w)
  BY <1>3 DEF Claim
<1>4. CASE Duplicate(w)
  BY <1>4 DEF Duplicate, Idle
<1>5. CASE FetchOk(w)
  BY <1>5 DEF FetchOk
<1>6. ASSUME \/ FetchRefused(w) \/ RecordSame(w) \/ RecordSnapshot(w)
             \/ FetchTransient(w) /\ provider = "web"
      PROVE  Abandoned' \subseteq Abandoned
  <2>1. PICK s \in {"done", "refused", "failed_transient"} : Finish(w, s)
    BY <1>6 DEF FetchRefused, RecordSame, RecordSnapshot, FetchTransient
  <2>2. worker' = [worker EXCEPT ![w] = Idle] /\ runs' = [runs EXCEPT ![worker[w].base] = s]
    BY <2>1 DEF Finish
  <2> QED BY <2>2 DEF Idle
<1>7. CASE FetchTransient(w)
  <2>1. CASE provider = "web"
    BY <1>6, <1>7, <2>1
  <2>2. CASE provider # "web"
    BY <1>7, <2>2 DEF FetchTransient, OnlyWebFetches
  <2> QED BY <2>1, <2>2
<1>8. CASE FetchRefused(w) \/ RecordSame(w) \/ RecordSnapshot(w)
  BY <1>6, <1>8
<1> HIDE DEF TypeInv, TypeOK, Abandoned
<1> QED BY <1>1, <1>2, <1>3, <1>4, <1>5, <1>7, <1>8 DEF Handle

LEMMA AbandonedInvStep == TypeInv /\ AbandonedInv /\ [Next]_vars => AbandonedInv'
<1> SUFFICES ASSUME TypeInv, AbandonedInv, [Next]_vars PROVE AbandonedInv'
  OBVIOUS
<1>1. OnlyWebFetches'
  BY OnlyWebFetchesStep DEF AbandonedInv
<1>2. stops \in Nat /\ IsFiniteSet(Abandoned) /\ Cardinality(Abandoned) \in Nat
      /\ Cardinality(Abandoned) <= stops
  BY EnrichmentAssumption, FS_CardinalityType DEF TypeInv, TypeOK, AbandonedInv, AbandonedNeedStops
<1>3. ASSUME Abandoned' \subseteq Abandoned, stops' = stops PROVE AbandonedInv'
  <2>1. IsFiniteSet(Abandoned') /\ Cardinality(Abandoned') <= Cardinality(Abandoned)
    BY <1>2, <1>3, FS_Subset
  <2>2. Cardinality(Abandoned') \in Nat
    BY <2>1, FS_CardinalityType
  <2>3. Cardinality(Abandoned') <= stops'
    BY <1>2, <1>3, <2>1, <2>2
  <2> QED BY <1>1, <2>1, <2>3 DEF AbandonedInv, AbandonedNeedStops
<1>4. ASSUME NEW w \in Workers, Stop(w) PROVE AbandonedInv'
  <2> DEFINE T == Abandoned \cup {worker[w].base}
  <2>1. Abandoned' \subseteq T /\ stops' = stops + 1
    BY <1>4 DEF Stop, Idle, Abandoned, TypeInv, TypeOK
  <2>2. IsFiniteSet(T) /\ Cardinality(T) \in Nat /\ Cardinality(T) <= Cardinality(Abandoned) + 1
    <3>1. IsFiniteSet(T)
          /\ Cardinality(T) = IF worker[w].base \in Abandoned THEN Cardinality(Abandoned)
                              ELSE Cardinality(Abandoned) + 1
      BY <1>2, FS_AddElement
    <3>2. Cardinality(T) \in Nat
      BY <3>1, FS_CardinalityType
    <3> QED BY <1>2, <3>1, <3>2
  <2> HIDE DEF T
  <2>3. IsFiniteSet(Abandoned') /\ Cardinality(Abandoned') <= Cardinality(T)
    BY <2>1, <2>2, FS_Subset
  <2>4. Cardinality(Abandoned') \in Nat
    BY <2>3, FS_CardinalityType
  <2>5. Cardinality(Abandoned') <= stops'
    BY <1>2, <2>1, <2>2, <2>3, <2>4
  <2> QED BY <1>1, <2>3, <2>5 DEF AbandonedInv, AbandonedNeedStops
<1>5. ASSUME NEW w \in Workers, Handle(w) PROVE AbandonedInv'
  <2>1. stops' = stops
    BY <1>5 DEF Handle, RejectUnpublished, ShortCircuit, LoadCurrent, Claim, Duplicate, FetchOk,
                FetchRefused, FetchTransient, RecordSame, RecordSnapshot
  <2> QED BY <1>3, <1>5, <2>1, HandleAbandonsNothing DEF AbandonedInv
<1>6. CASE (\E g \in Groups : Join(g)) \/ Resend \/ (\E c \in Contents : Change(c)) \/ FanOut \/ UNCHANGED vars
  <2>1. UNCHANGED <<runs, worker, stops>>
    BY <1>6 DEF Join, Resend, Change, FanOut, TakeUpdate, RefreshOne, FanOutFails, vars
  <2>2. Abandoned' = Abandoned
    BY <2>1 DEF Abandoned
  <2> QED BY <1>3, <2>1, <2>2
<1> QED BY <1>4, <1>5, <1>6 DEF Next

(* However many processes share the artifact, the keys left locked behind  *)
(* a committed web claim are no more than the processes that ended.        *)
THEOREM ClaimsSettled == Spec => []AbandonedNeedStops
<1>1. Init => AbandonedInv
  <2> SUFFICES ASSUME Init PROVE AbandonedInv
    OBVIOUS
  <2>1. Abandoned = {} /\ OnlyWebFetches /\ stops = 0
    BY DEF Init, Abandoned, OnlyWebFetches
  <2> QED BY <2>1, FS_EmptySet DEF AbandonedInv, AbandonedNeedStops
<1>2. AbandonedInv => AbandonedNeedStops
  BY DEF AbandonedInv
<1> QED
  BY <1>1, <1>2, TypeInvInit, TypeInvStep, AbandonedInvStep, PTL DEF Spec
=============================================================================
