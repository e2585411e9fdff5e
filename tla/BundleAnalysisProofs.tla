-------------------------- MODULE BundleAnalysisProofs --------------------------
(***************************************************************************)
(* The assembler and the router, for any members, any number of processes   *)
(* and of events.  Every step of the assembler keeps the invariant; the     *)
(* router adds steps that leave the assembler's tables alone.               *)
(***************************************************************************)
EXTENDS BundleAnalysis, TLAPS, WellFoundedInduction

(* A stored bundle, and the open transaction of a process.                  *)
Contents == [Artifacts -> Snapshots \cup {"none"}]
Bundle == [input : Inputs, version : Nat \ {0}]
Transaction == [at : Steps, primary : Artifacts, current : Inputs, moved : BOOLEAN,
                snaps : Contents, input : Inputs, version : Nat]
Request == [at : {"idle", "decide"}, bundle : Inputs, current : Inputs]

Shapes ==
    /\ snap \in Contents /\ announced \subseteq Artifacts \X Snapshots
    /\ queue \in Nat /\ reroots \in Nat
    /\ primary \in Artifacts /\ current \in Inputs /\ requested \subseteq Inputs
    /\ bundles \subseteq Bundle
    /\ holder \in {{}} \cup {{p} : p \in Procs}
    /\ proc \in [Procs -> Transaction]
    /\ silent \subseteq Artifacts \cup {"primary"} /\ lost \in BOOLEAN

(* max(bundle_version) exists.                                              *)
LatestExists == bundles # {} => \E b \in bundles : \A c \in bundles : c.version <= b.version

(* Who has rerooted holds the row; who holds it has rerooted or is done.    *)
Locked(p) ==
    /\ proc[p].moved => holder = {p} /\ proc[p].at \in {"lookup", "append", "point", "commit"}
    /\ holder = {p} => proc[p].moved \/ proc[p].at = "commit"

(* The input is of what was read; with a reroot it counts one more than     *)
(* anybody else's can, since the row is held.                               *)
LookedUp(p) ==
    proc[p].at \in {"append", "point", "commit"} =>
        /\ proc[p].input.snaps = proc[p].snaps
        /\ proc[p].moved => proc[p].input.reroots = reroots + 1
        /\ ~proc[p].moved => proc[p].input.reroots <= reroots

(* At the end a bundle is stored already or inserted, and one that is       *)
(* inserted has a hash of its own.                                          *)
Inserted(p) ==
    /\ proc[p].version > 0 => /\ proc[p].at \in {"point", "commit"} /\ ~Stored(proc[p].input)
                              /\ \A q \in Inserting(proc[p].input) : q = p
    /\ proc[p].at \in {"point", "commit"} => proc[p].version > 0 \/ Stored(proc[p].input)

(* A stored bundle counts reroots that are committed.                       *)
CountedReroots == \A b \in bundles : b.input.reroots <= reroots

(* The unique key over candidate_evidence_bundles: one bundle for an input. *)
OneBundlePerInput == \A b, c \in bundles : b.input = c.input => b = c

(* The current bundle is stored, and whenever it is ready its analysis has  *)
(* been requested; a request is for a stored and ready bundle.              *)
CurrentIsRequested ==
    current # NoBundle => Stored(current) /\ (Ready(current) => current \in requested)
RequestedIsUsable == \A b \in requested : Stored(b) /\ Ready(b)

AssemblerInv ==
    /\ Shapes /\ LatestExists /\ CountedReroots /\ OneBundlePerInput
    /\ \A p \in Procs : Locked(p) /\ LookedUp(p) /\ Inserted(p)
    /\ CurrentIsRequested /\ RequestedIsUsable

(* The open request is one of the group's; a taken one is open, judged or   *)
(* dropped.                                                                 *)
RouterInv ==
    /\ router \in Request
    /\ router.at # "idle" => router.bundle \in requested
    /\ taken \subseteq judged \cup dropped \cup (IF router.at = "idle" THEN {} ELSE {router.bundle})

IInv == AssemblerInv /\ RouterInv

(* One bounded runner at a time.                                            *)
OneRunner == \A p, q \in Committing : p = q

Agrees(s) == \A a \in Artifacts \ silent : Kind[a] # "text_idea" => s[a] = snap[a]

(* Until something is lost, what is announced is queued, about to be read,  *)
(* held by the runner, in the current bundle, or in the hands of a process  *)
(* that will lose it.                                                       *)
Underway ==
    ~lost =>
        \/ queue > 0
        \/ \E p \in Procs \ Committing : proc[p].at # "idle"
        \/ \E p \in Committing : \/ proc[p].at = "read"
                                 \/ proc[p].at \notin {"idle", "read"} /\ Agrees(proc[p].snaps)
        \/ (\A p \in Procs : proc[p].at = "idle") /\ Agrees(current.snaps)

(* The runner alone moves the pointer, so what it has read of it holds.     *)
PointerKnown == \A p \in Committing : proc[p].at # "idle" => proc[p].current = current

FreshInv == Underway /\ PointerKnown

-----------------------------------------------------------------------------
(* The operators of a refresh.                                              *)

(* Naturals are well-ordered; of a set that is not empty one is the least.  *)
LEMMA LeastExists ==
    ASSUME NEW S \in SUBSET Nat, S # {}
    PROVE  \E i \in S : \A j \in S : i <= j
<1> DEFINE R == OpToRel(<, Nat)
<1>1. IsWellFoundedOn(R, Nat)
  BY NatLessThanWellFounded
<1>2. \A i, j \in Nat : i < j => <<i, j>> \in R
  BY DEF OpToRel
<1> HIDE DEF R
<1>3. PICK i \in S : \A j \in S : ~ (<<j, i>> \in R)
  BY <1>1, WFMin, Zenon
<1>4. ASSUME NEW j \in S PROVE i <= j
  <2>1. ~ (j < i)
    BY <1>2, <1>3
  <2> QED BY <2>1
<1> QED BY <1>4

(* The primary a refresh decides on is a member: the best ready repository  *)
(* exists when there is a ready one.                                        *)
LEMMA DecideIsMember ==
    ASSUME NEW a \in Artifacts, NEW s
    PROVE  Decide(a, s) \in Artifacts
<1>1. ASSUME ReadyRepos(s) # {} PROVE BestReadyRepo(s) \in Artifacts
  <2>1. ReadyRepos(s) \in SUBSET Nat
    BY DEF ReadyRepos
  <2>2. \E i \in ReadyRepos(s) : \A j \in ReadyRepos(s) : i <= j
    BY <1>1, <2>1, LeastExists
  <2> DEFINE i == CHOOSE i \in ReadyRepos(s) : \A j \in ReadyRepos(s) : i <= j
  <2>3. i \in ReadyRepos(s)
    BY <2>2
  <2>4. i \in 1..Len(Order)
    BY <2>3 DEF ReadyRepos
  <2> QED BY <2>4 DEF BestReadyRepo, Artifacts
<1> QED BY <1>1 DEF Decide

(* Text ideas are made or left as they are; what providers gave is kept.    *)
LEMMA MaterialisedFacts ==
    ASSUME NEW s \in Contents, NEW a \in Artifacts
    PROVE  /\ Materialised(s, a) \in Contents
           /\ \A b \in Artifacts : Kind[b] # "text_idea" => Materialised(s, a)[b] = s[b]
BY DEF Materialised, Contents, Snapshots

LEMMA IdleFacts ==
    /\ NoBundle \in Inputs /\ Idle \in Transaction
    /\ Idle.at = "idle" /\ Idle.moved = FALSE /\ Idle.version = 0
BY AssemblerAssumption DEF NoBundle, Idle, Inputs, Transaction, Contents, Steps

(* A new version is later than every stored one, so the latest stays known. *)
LEMMA NextVersionFacts ==
    ASSUME bundles \subseteq Bundle, LatestExists
    PROVE  NextVersion \in Nat \ {0}
<1>1. CASE bundles = {}
  BY <1>1 DEF NextVersion
<1>2. CASE bundles # {}
  <2> DEFINE b == CHOOSE b \in bundles : \A c \in bundles : c.version <= b.version
  <2>1. b \in bundles
    BY <1>2 DEF LatestExists
  <2>2. b.version \in Nat
    BY <2>1 DEF Bundle
  <2> QED BY <1>2, <2>2 DEF NextVersion
<1> QED BY <1>1, <1>2

LEMMA LatestAfter ==
    ASSUME NEW S, S \subseteq Bundle, NEW new \in Bundle,
           S # {} => \E b \in S : \A c \in S : c.version <= b.version
    PROVE  \E b \in S \cup {new} : \A c \in S \cup {new} : c.version <= b.version
<1>1. \A c \in S \cup {new} : c.version \in Nat
  BY DEF Bundle
<1>2. CASE S = {}
  BY <1>1, <1>2
<1>3. CASE S # {}
  <2>1. PICK b \in S : \A c \in S : c.version <= b.version
    BY <1>3
  <2>2. CASE b.version <= new.version
    <3>1. \A c \in S : c.version <= new.version
      BY <1>1, <2>1, <2>2
    <3> QED BY <1>1, <3>1
  <2>3. CASE ~ (b.version <= new.version)
    <3>1. new.version <= b.version
      BY <1>1, <2>3
    <3> QED BY <2>1, <3>1
  <2> QED BY <2>2, <2>3
<1> QED BY <1>2, <1>3

-----------------------------------------------------------------------------
(* The steps of the assembler.                                              *)

LEMMA InvInit == Init => AssemblerInv
<1> SUFFICES ASSUME Init PROVE AssemblerInv
  OBVIOUS
<1>1. Shapes
  BY IdleFacts, AssemblerAssumption DEF Init, Shapes, Contents
<1>2. \A p \in Procs : proc[p] = Idle
  BY DEF Init
<1>3. \A p \in Procs : Locked(p) /\ LookedUp(p) /\ Inserted(p)
  BY <1>2, IdleFacts DEF Init, Locked, LookedUp, Inserted
<1> QED BY <1>1, <1>3
        DEF Init, AssemblerInv, LatestExists, CountedReroots, OneBundlePerInput,
            CurrentIsRequested, RequestedIsUsable

(* A step inside one transaction: the database is as it was, nobody else's  *)
(* transaction changes, and the row's lock is taken, kept or given back.    *)
LEMMA OwnStep ==
    ASSUME AssemblerInv, NEW p \in Procs,
           UNCHANGED <<snap, announced, database, silent>>,
           queue' \in Nat, lost' \in BOOLEAN,
           proc' \in [Procs -> Transaction],
           \A q \in Procs \ {p} : proc'[q] = proc[q],
           \/ holder' = holder
           \/ holder' = {p} /\ holder \in {{}, {p}}
           \/ holder' = holder \ {p},
           Locked(p)', LookedUp(p)', Inserted(p)'
    PROVE  AssemblerInv'
<1>1. Shapes'
  BY DEF AssemblerInv, Shapes, database
<1>2. (LatestExists /\ CountedReroots /\ OneBundlePerInput)'
  BY DEF AssemblerInv, LatestExists, CountedReroots, OneBundlePerInput, database
<1>3. (CurrentIsRequested /\ RequestedIsUsable)'
  BY DEF AssemblerInv, CurrentIsRequested, RequestedIsUsable, Stored, database
<1>4. ASSUME NEW q \in Procs \ {p} PROVE Locked(q)' /\ LookedUp(q)' /\ Inserted(q)'
  <2>1. proc'[q] = proc[q] /\ Locked(q) /\ LookedUp(q) /\ Inserted(q)
    BY <1>4 DEF AssemblerInv
  <2>2. holder \in {{}} \cup {{r} : r \in Procs}
    BY DEF AssemblerInv, Shapes
  <2>3. holder' = {q} <=> holder = {q}
    BY <1>4, <2>2
  <2>4. Locked(q)'
    BY <2>1, <2>3 DEF Locked
  <2>5. LookedUp(q)'
    BY <2>1 DEF LookedUp, database
  <2>6. Stored(proc[q].input)' <=> Stored(proc[q].input)
    BY DEF Stored, database
  <2>7. proc[q].version > 0 => \A r \in Inserting(proc[q].input)' : r = q
    <3> SUFFICES ASSUME proc[q].version > 0, NEW r \in Procs, proc'[r].version > 0,
                        proc'[r].input = proc[q].input
                 PROVE  r = q
      BY DEF Inserting
    <3>1. CASE r = p
      <4>1. q \in Inserting(proc[p].input)'
        BY <2>1, <3>1 DEF Inserting
      <4> QED BY <3>1, <4>1 DEF Inserted
    <3>2. CASE r # p
      BY <3>2, <2>1 DEF Inserted, Inserting
    <3> QED BY <3>1, <3>2
  <2>8. Inserted(q)'
    BY <2>1, <2>6, <2>7 DEF Inserted, Stored, Inserting
  <2> QED BY <2>4, <2>5, <2>8
<1>5. \A q \in Procs : Locked(q)' /\ LookedUp(q)' /\ Inserted(q)'
  BY <1>4
<1> QED BY <1>1, <1>2, <1>3, <1>5 DEF AssemblerInv

(* A process of the invariant, and what the look-up promises of its input.  *)
LEMMA ProcessFacts ==
    ASSUME AssemblerInv, NEW p \in Procs
    PROVE  /\ proc[p] \in Transaction /\ Locked(p) /\ LookedUp(p) /\ Inserted(p)
           /\ proc \in [Procs -> Transaction] /\ queue \in Nat /\ reroots \in Nat /\ lost \in BOOLEAN
           /\ primary \in Artifacts /\ current \in Inputs /\ snap \in Contents
           /\ holder \in {{}} \cup {{q} : q \in Procs}
           /\ proc[p].snaps \in Contents /\ proc[p].primary \in Artifacts /\ proc[p].input \in Inputs
           /\ proc[p].version \in Nat
BY DEF AssemblerInv, Shapes, Transaction

LEMMA TakeStep ==
    ASSUME AssemblerInv, NEW p \in Procs, Take(p)
    PROVE  AssemblerInv'
<1> DEFINE t == [Idle EXCEPT !.at = "read", !.primary = primary, !.current = current]
<1>1. /\ proc' = [proc EXCEPT ![p] = t] /\ queue' = queue - 1 /\ queue > 0
      /\ UNCHANGED <<snap, announced, database, holder, silent, lost>>
      /\ proc[p].at = "idle"
  BY DEF Take
<1>2. t \in Transaction /\ t.at = "read" /\ t.moved = FALSE /\ t.version = 0
  BY ProcessFacts, IdleFacts DEF Transaction, Steps
<1>3. /\ proc' \in [Procs -> Transaction] /\ proc'[p] = t
      /\ \A q \in Procs \ {p} : proc'[q] = proc[q]
      /\ queue' \in Nat /\ lost' \in BOOLEAN
  BY <1>1, <1>2, ProcessFacts
<1>4. ~proc[p].moved /\ holder # {p}
  BY <1>1, ProcessFacts DEF Locked, Transaction
<1>5. Locked(p)' /\ LookedUp(p)' /\ Inserted(p)'
  BY <1>1, <1>2, <1>3, <1>4 DEF Locked, LookedUp, Inserted
<1> QED BY <1>1, <1>3, <1>5, OwnStep

LEMMA ReadStep ==
    ASSUME AssemblerInv, NEW p \in Procs, Read(p)
    PROVE  AssemblerInv'
<1> DEFINE read == Materialised(snap, proc[p].primary)
           at == IF Decide(proc[p].primary, read) = proc[p].primary THEN "lookup" ELSE "reroot"
           t == [proc[p] EXCEPT !.at = at, !.snaps = read]
<1>1. /\ proc' = [proc EXCEPT ![p] = t] /\ proc[p].at = "read"
      /\ UNCHANGED <<snap, announced, queue, database, holder, silent, lost>>
  BY DEF Read
<1>2. at \in {"lookup", "reroot"} /\ read \in Contents
  BY ProcessFacts, MaterialisedFacts
<1> HIDE DEF at, read
<1>3. /\ t \in Transaction /\ t.at = at /\ t.moved = proc[p].moved /\ t.version = proc[p].version
  BY <1>2, ProcessFacts DEF Transaction, Steps
<1> HIDE DEF t
<1>4. /\ proc' \in [Procs -> Transaction] /\ proc'[p] = t
      /\ \A q \in Procs \ {p} : proc'[q] = proc[q]
      /\ queue' \in Nat /\ lost' \in BOOLEAN
  BY <1>1, <1>3, ProcessFacts
<1>5. proc[p].moved = FALSE /\ holder # {p} /\ ~(proc[p].version > 0)
  BY <1>1, ProcessFacts DEF Locked, Transaction, Inserted
<1>6. Locked(p)' /\ LookedUp(p)' /\ Inserted(p)'
  BY <1>1, <1>2, <1>3, <1>4, <1>5 DEF Locked, LookedUp, Inserted
<1> QED BY <1>1, <1>4, <1>6, OwnStep

LEMMA RerootStep ==
    ASSUME AssemblerInv, NEW p \in Procs, Reroot(p)
    PROVE  AssemblerInv'
<1> DEFINE to == Decide(proc[p].primary, proc[p].snaps)
           t == [proc[p] EXCEPT !.at = "lookup", !.moved = TRUE, !.primary = to]
<1>1. /\ proc' = [proc EXCEPT ![p] = t] /\ proc[p].at = "reroot"
      /\ holder = {} /\ holder' = {p}
      /\ UNCHANGED <<snap, announced, queue, database, silent, lost>>
  BY DEF Reroot
<1>2. to \in Artifacts
  BY ProcessFacts, DecideIsMember
<1>3. t \in Transaction /\ t.at = "lookup" /\ t.moved /\ t.version = proc[p].version
  BY <1>2, ProcessFacts DEF Transaction, Steps
<1> HIDE DEF to, t
<1>4. /\ proc' \in [Procs -> Transaction] /\ proc'[p] = t
      /\ \A q \in Procs \ {p} : proc'[q] = proc[q]
      /\ queue' \in Nat /\ lost' \in BOOLEAN
  BY <1>1, <1>3, ProcessFacts
<1>5. ~(proc[p].version > 0)
  BY <1>1, ProcessFacts DEF Inserted
<1>6. Locked(p)' /\ LookedUp(p)' /\ Inserted(p)'
  BY <1>1, <1>3, <1>4, <1>5 DEF Locked, LookedUp, Inserted
<1> QED BY <1>1, <1>4, <1>6, OwnStep

LEMMA LookupStep ==
    ASSUME AssemblerInv, NEW p \in Procs, Lookup(p)
    PROVE  AssemblerInv'
<1> DEFINE n == reroots + (IF proc[p].moved THEN 1 ELSE 0)
           input == [primary |-> proc[p].primary, snaps |-> proc[p].snaps, reroots |-> n]
           at == IF ~Stored(input) THEN "append"
                 ELSE IF proc[p].current # input THEN "point" ELSE "commit"
           t == [proc[p] EXCEPT !.input = input, !.at = at]
<1>1. /\ proc' = [proc EXCEPT ![p] = t] /\ proc[p].at = "lookup"
      /\ UNCHANGED <<snap, announced, queue, database, holder, silent, lost>>
  BY DEF Lookup
<1>2. n \in Nat /\ (proc[p].moved => n = reroots + 1) /\ (~proc[p].moved => n <= reroots)
  BY ProcessFacts DEF Transaction
<1>3. input \in Inputs /\ input.snaps = proc[p].snaps /\ input.reroots = n
  BY <1>2, ProcessFacts DEF Inputs, Contents
<1>4. at \in {"append", "point", "commit"} /\ (at # "append" => Stored(input))
  OBVIOUS
<1> HIDE DEF n, input, at
<1>5. /\ t \in Transaction /\ t.at = at /\ t.moved = proc[p].moved
      /\ t.version = proc[p].version /\ t.input = input /\ t.snaps = proc[p].snaps
  BY <1>3, <1>4, ProcessFacts DEF Transaction, Steps
<1> HIDE DEF t
<1>6. /\ proc' \in [Procs -> Transaction] /\ proc'[p] = t
      /\ \A q \in Procs \ {p} : proc'[q] = proc[q]
      /\ queue' \in Nat /\ lost' \in BOOLEAN
  BY <1>1, <1>5, ProcessFacts
<1>7. ~(proc[p].version > 0) /\ (proc[p].moved => holder = {p}) /\ (holder = {p} => proc[p].moved)
  BY <1>1, ProcessFacts DEF Locked, Inserted
<1>8. Locked(p)'
  BY <1>1, <1>4, <1>5, <1>6, <1>7 DEF Locked
<1>9. LookedUp(p)'
  BY <1>1, <1>2, <1>3, <1>5, <1>6 DEF LookedUp, database
<1>10. Inserted(p)'
  BY <1>1, <1>4, <1>5, <1>6, <1>7 DEF Inserted, Stored, database
<1> QED BY <1>1, <1>6, <1>8, <1>9, <1>10, OwnStep

LEMMA AppendStep ==
    ASSUME AssemblerInv, NEW p \in Procs, Append_(p)
    PROVE  AssemblerInv'
<1> DEFINE t == [proc[p] EXCEPT !.at = "point", !.version = NextVersion]
<1>1. /\ proc' = [proc EXCEPT ![p] = t] /\ proc[p].at = "append"
      /\ Inserting(proc[p].input) = {} /\ ~Stored(proc[p].input)
      /\ UNCHANGED <<snap, announced, queue, database, holder, silent, lost>>
  BY DEF Append_
<1>2. NextVersion \in Nat /\ NextVersion > 0
  BY NextVersionFacts DEF AssemblerInv, Shapes
<1>3. /\ t \in Transaction /\ t.at = "point" /\ t.moved = proc[p].moved
      /\ t.version = NextVersion /\ t.input = proc[p].input /\ t.snaps = proc[p].snaps
  BY <1>2, ProcessFacts DEF Transaction, Steps
<1> HIDE DEF t
<1>4. /\ proc' \in [Procs -> Transaction] /\ proc'[p] = t
      /\ \A q \in Procs \ {p} : proc'[q] = proc[q]
      /\ queue' \in Nat /\ lost' \in BOOLEAN
  BY <1>1, <1>3, ProcessFacts
<1>5. Locked(p)'
  BY <1>1, <1>3, <1>4, ProcessFacts DEF Locked
<1>6. LookedUp(p)'
  BY <1>1, <1>3, <1>4, ProcessFacts DEF LookedUp, database
<1>7. \A q \in Inserting(proc[p].input)' : q = p
  BY <1>1, <1>3, <1>4 DEF Inserting
<1>8. Inserted(p)'
  BY <1>1, <1>2, <1>3, <1>4, <1>7 DEF Inserted, Stored, database
<1> QED BY <1>1, <1>4, <1>5, <1>6, <1>8, OwnStep

LEMMA PointStep ==
    ASSUME AssemblerInv, NEW p \in Procs, Point(p)
    PROVE  AssemblerInv'
<1> DEFINE t == [proc[p] EXCEPT !.at = "commit"]
<1>1. /\ proc' = [proc EXCEPT ![p] = t] /\ proc[p].at = "point"
      /\ holder \in {{}, {p}} /\ holder' = {p}
      /\ UNCHANGED <<snap, announced, queue, database, silent, lost>>
  BY DEF Point
<1>2. /\ t \in Transaction /\ t.at = "commit" /\ t.moved = proc[p].moved
      /\ t.version = proc[p].version /\ t.input = proc[p].input /\ t.snaps = proc[p].snaps
  BY ProcessFacts DEF Transaction, Steps
<1> HIDE DEF t
<1>3. /\ proc' \in [Procs -> Transaction] /\ proc'[p] = t
      /\ \A q \in Procs \ {p} : proc'[q] = proc[q]
      /\ queue' \in Nat /\ lost' \in BOOLEAN
  BY <1>1, <1>2, ProcessFacts
<1>4. Locked(p)' /\ LookedUp(p)'
  BY <1>1, <1>2, <1>3, ProcessFacts DEF Locked, LookedUp, database
<1>5. \A q \in Inserting(proc[p].input)' : q \in Inserting(proc[p].input)
  BY <1>2, <1>3 DEF Inserting
<1>6. Inserted(p)'
  BY <1>1, <1>2, <1>3, <1>5, ProcessFacts DEF Inserted, Stored, database
<1> QED BY <1>1, <1>3, <1>4, <1>6, OwnStep

(* However a transaction ends without a commit, nothing of it stays.        *)
LEMMA RollBackStep ==
    ASSUME AssemblerInv, NEW p \in Procs, RollBack(p)
    PROVE  AssemblerInv'
<1>1. /\ proc' = [proc EXCEPT ![p] = Idle] /\ lost' = TRUE /\ holder' = holder \ {p}
      /\ UNCHANGED <<snap, announced, queue, database, silent>>
  BY DEF RollBack
<1>2. /\ proc' \in [Procs -> Transaction] /\ proc'[p] = Idle
      /\ \A q \in Procs \ {p} : proc'[q] = proc[q]
      /\ queue' \in Nat /\ lost' \in BOOLEAN
  BY <1>1, ProcessFacts, IdleFacts
<1>3. Locked(p)' /\ LookedUp(p)' /\ Inserted(p)'
  BY <1>1, <1>2, IdleFacts DEF Locked, LookedUp, Inserted
<1> QED BY <1>1, <1>2, <1>3, OwnStep

(* The neighbours touch no transaction and no lock.                         *)
LEMMA NeighbourStep ==
    ASSUME AssemblerInv, Neighbours
    PROVE  AssemblerInv'
<1>1. /\ UNCHANGED <<current, reroots, bundles, requested, holder, proc, lost>>
      /\ snap' \in Contents /\ announced' \subseteq Artifacts \X Snapshots
      /\ queue' \in Nat /\ silent' \subseteq Artifacts \cup {"primary"} /\ primary' \in Artifacts
  <2>1. CASE \E a \in Artifacts, s \in Snapshots : Update(a, s)
    BY <2>1 DEF AssemblerInv, Shapes, Update, database, Contents
  <2>2. CASE Resend
    BY <2>2 DEF AssemblerInv, Shapes, Resend, database
  <2>3. CASE Renormalise
    BY <2>3, AssemblerAssumption DEF AssemblerInv, Shapes, Renormalise
  <2> QED BY <2>1, <2>2, <2>3 DEF Neighbours
<1>2. Shapes'
  BY <1>1 DEF AssemblerInv, Shapes
<1>3. (LatestExists /\ CountedReroots /\ OneBundlePerInput /\ CurrentIsRequested /\ RequestedIsUsable)'
  BY <1>1 DEF AssemblerInv, LatestExists, CountedReroots, OneBundlePerInput, CurrentIsRequested,
              RequestedIsUsable, Stored
<1>4. ASSUME NEW p \in Procs PROVE (Locked(p) /\ LookedUp(p) /\ Inserted(p))'
  <2>1. Locked(p) /\ LookedUp(p) /\ Inserted(p)
    BY DEF AssemblerInv
  <2> QED BY <1>1, <2>1 DEF Locked, LookedUp, Inserted, Stored, Inserting
<1> QED BY <1>2, <1>3, <1>4 DEF AssemblerInv

(* A commit stores what is inserted and moves the pointer to what is stored;*)
(* who has rerooted held the row, so no open look-up is out of date by it.  *)
LEMMA CommitStep ==
    ASSUME AssemblerInv, NEW p \in Procs, Commit(p)
    PROVE  AssemblerInv'
<1> PICK input, v : input = proc[p].input /\ v = proc[p].version
  OBVIOUS
<1> DEFINE new == [input |-> input, version |-> v]
<1>1. /\ proc[p].at = "commit" /\ proc' = [proc EXCEPT ![p] = Idle] /\ holder' = holder \ {p}
      /\ primary' = PrimaryAfter(p)
      /\ reroots' = reroots + (IF proc[p].moved THEN 1 ELSE 0)
      /\ bundles' = IF v = 0 THEN bundles ELSE bundles \cup {new}
      /\ current' = IF input # proc[p].current THEN input ELSE current
      /\ requested' = IF Ready(input) THEN requested \cup {input} ELSE requested
      /\ UNCHANGED <<snap, announced, queue, silent, lost>>
  BY DEF Commit, RequestedAfter
<1>2. /\ input \in Inputs /\ v \in Nat /\ proc[p].primary \in Artifacts
      /\ proc[p].moved => holder = {p} /\ input.reroots = reroots + 1
      /\ ~proc[p].moved => input.reroots <= reroots
      /\ v > 0 => ~Stored(input) /\ \A q \in Inserting(input) : q = p
      /\ ~(v > 0) => Stored(input)
  BY <1>1, ProcessFacts DEF Locked, LookedUp, Inserted
<1>3. /\ proc' \in [Procs -> Transaction] /\ proc'[p] = Idle
      /\ \A q \in Procs \ {p} : proc'[q] = proc[q]
  BY <1>1, ProcessFacts, IdleFacts
<1>4. reroots \in Nat /\ reroots' \in Nat /\ reroots <= reroots' /\ input.reroots <= reroots'
      /\ (~proc[p].moved => reroots' = reroots)
  BY <1>1, <1>2, ProcessFacts
<1>5. \/ bundles' = bundles /\ Stored(input)
      \/ bundles' = bundles \cup {new} /\ new \in Bundle /\ ~Stored(input) /\ v > 0
  BY <1>1, <1>2 DEF Bundle
<1>6. new.input = input
  OBVIOUS
<1> HIDE DEF new
<1>7. Stored(input)' /\ bundles \subseteq bundles'
  BY <1>5, <1>6 DEF Stored
<1>8. \A i : Stored(i)' => Stored(i) \/ i = input
  BY <1>5, <1>6 DEF Stored
<1>9. Shapes'
  <2>1. bundles' \subseteq Bundle
    BY <1>5 DEF AssemblerInv, Shapes
  <2>2. requested' \subseteq Inputs /\ current' \in Inputs /\ primary' \in Artifacts
    BY <1>1, <1>2, ProcessFacts DEF AssemblerInv, Shapes, PrimaryAfter
  <2>3. holder' \in {{}} \cup {{q} : q \in Procs}
    BY <1>1, ProcessFacts
  <2> QED BY <1>1, <1>3, <1>4, <2>1, <2>2, <2>3 DEF AssemblerInv, Shapes
<1>10. LatestExists'
  <2>1. CASE bundles' = bundles
    BY <2>1 DEF AssemblerInv, LatestExists
  <2>2. CASE bundles' = bundles \cup {new} /\ new \in Bundle
    <3>1. bundles \subseteq Bundle /\ LatestExists
      BY DEF AssemblerInv, Shapes
    <3>2. \E b \in bundles \cup {new} : \A c \in bundles \cup {new} : c.version <= b.version
      BY <2>2, <3>1, LatestAfter DEF LatestExists
    <3> QED BY <2>2, <3>2 DEF LatestExists
  <2> QED BY <1>5, <2>1, <2>2
<1>11. CountedReroots'
  <2> SUFFICES ASSUME NEW b \in bundles' PROVE b.input.reroots <= reroots'
    BY DEF CountedReroots
  <2>1. CASE b = new
    BY <2>1, <1>4, <1>6
  <2>2. CASE b \in bundles
    <3>1. b.input \in Inputs /\ b.input.reroots <= reroots
      BY <2>2 DEF AssemblerInv, Shapes, Bundle, CountedReroots
    <3>2. b.input.reroots \in Nat
      BY <3>1 DEF Inputs
    <3> QED BY <1>4, <3>1, <3>2
  <2> QED BY <1>5, <2>1, <2>2
<1>12. OneBundlePerInput'
  BY <1>5, <1>6 DEF AssemblerInv, OneBundlePerInput, Stored
<1>13. CurrentIsRequested'
  <2>1. CASE current' = input
    BY <2>1, <1>1, <1>7 DEF CurrentIsRequested, Ready
  <2>2. CASE current' = current
    <3>1. current # NoBundle => Stored(current) /\ (Ready(current) => current \in requested)
      BY DEF AssemblerInv, CurrentIsRequested
    <3>2. requested \subseteq requested' /\ (Stored(current) => Stored(current)')
      BY <1>1, <1>7, <2>2 DEF Stored
    <3> QED BY <2>2, <3>1, <3>2 DEF CurrentIsRequested, Ready
  <2> QED BY <1>1, <2>1, <2>2
<1>14. RequestedIsUsable'
  <2> SUFFICES ASSUME NEW b \in requested' PROVE Stored(b)' /\ Ready(b)
    BY DEF RequestedIsUsable, Ready
  <2>1. CASE b \in requested
    BY <2>1, <1>7 DEF AssemblerInv, RequestedIsUsable, Stored
  <2>2. CASE b = input /\ Ready(input)
    BY <2>2, <1>7 DEF Stored
  <2> QED BY <1>1, <2>1, <2>2
<1>15. ASSUME NEW q \in Procs PROVE Locked(q)' /\ LookedUp(q)' /\ Inserted(q)'
  <2>1. CASE q = p
    <3>1. holder' # {p}
      BY <1>1
    <3> QED BY <2>1, <3>1, <1>3, IdleFacts DEF Locked, LookedUp, Inserted
  <2>2. CASE q # p
    <3>1. /\ proc'[q] = proc[q] /\ Locked(q) /\ LookedUp(q) /\ Inserted(q) /\ proc[q].input \in Inputs
      BY <2>2, <1>3, ProcessFacts
    <3>2. holder' = {q} <=> holder = {q}
      BY <2>2, <1>1, ProcessFacts
    <3>3. Locked(q)'
      BY <3>1, <3>2 DEF Locked
    <3>4. LookedUp(q)'
      <4>1. proc[q].input.reroots \in Nat
        BY <3>1 DEF Inputs
      <4>2. CASE proc[p].moved
        <5>1. ~proc[q].moved
          BY <4>2, <2>2, <1>2, <3>1 DEF Locked
        <5> QED BY <3>1, <4>1, <5>1, <1>4 DEF LookedUp
      <4>3. CASE ~proc[p].moved
        BY <4>3, <3>1, <1>4 DEF LookedUp
      <4> QED BY <4>2, <4>3
    <3>5. proc[q].version > 0 => ~Stored(proc[q].input)'
      <4> SUFFICES ASSUME proc[q].version > 0, Stored(proc[q].input)' PROVE FALSE
        OBVIOUS
      <4>1. ~Stored(proc[q].input)
        BY <3>1 DEF Inserted
      <4>2. Stored(proc[q].input) \/ proc[q].input = input
        BY <3>1, <1>8 DEF Stored
      <4>3. proc[q].input = input /\ ~Stored(input)
        BY <4>1, <4>2
      <4>4. q \in Inserting(input)
        BY <4>3 DEF Inserting
      <4> QED BY <4>3, <4>4, <1>2, <2>2
    <3>6. proc[q].version > 0 => \A r \in Inserting(proc[q].input)' : r = q
      <4>1. \A r \in Inserting(proc[q].input)' : r \in Inserting(proc[q].input)
        <5> SUFFICES ASSUME NEW r \in Procs, proc'[r].version > 0, proc'[r].input = proc'[q].input
                     PROVE  r \in Inserting(proc[q].input)
          BY DEF Inserting
        <5>1. r # p
          BY <1>3, IdleFacts
        <5> QED BY <5>1, <1>3, <3>1 DEF Inserting
      <4> QED BY <4>1, <3>1 DEF Inserted
    <3>7. Stored(proc[q].input) => Stored(proc[q].input)'
      BY <3>1, <1>7 DEF Stored
    <3>8. Inserted(q)'
      BY <3>1, <3>5, <3>6, <3>7 DEF Inserted, Stored
    <3> QED BY <3>3, <3>4, <3>8
  <2> QED BY <2>1, <2>2
<1> QED BY <1>9, <1>10, <1>11, <1>12, <1>13, <1>14, <1>15 DEF AssemblerInv

LEMMA NextStep ==
    ASSUME AssemblerInv, [Next]_vars
    PROVE  AssemblerInv'
<1>1. CASE Neighbours
  BY <1>1, NeighbourStep
<1>2. ASSUME NEW p \in Procs, Refresh(p) PROVE AssemblerInv'
  <2>1. Commit(p) => AssemblerInv'
    BY CommitStep
  <2>2. CloseUncommitted(p) \/ InsertFails(p) => AssemblerInv'
    BY RollBackStep DEF CloseUncommitted, InsertFails
  <2> QED BY <1>2, <2>1, <2>2, TakeStep, ReadStep, RerootStep, LookupStep, AppendStep, PointStep
          DEF Refresh
<1>3. ASSUME NEW p \in Procs, Stop(p) PROVE AssemblerInv'
  BY <1>3, RollBackStep DEF Stop
<1>4. CASE UNCHANGED vars
  <2>1. UNCHANGED <<snap, announced, queue, primary, current, reroots, bundles, requested, holder,
                    proc, silent, lost>>
    BY <1>4 DEF vars
  <2>2. (Shapes /\ LatestExists /\ CountedReroots /\ OneBundlePerInput)'
    BY <2>1 DEF AssemblerInv, Shapes, LatestExists, CountedReroots, OneBundlePerInput
  <2>3. (CurrentIsRequested /\ RequestedIsUsable)'
    BY <2>1 DEF AssemblerInv, CurrentIsRequested, RequestedIsUsable, Stored
  <2>4. \A p \in Procs : (Locked(p) /\ LookedUp(p) /\ Inserted(p))'
    BY <2>1 DEF AssemblerInv, Locked, LookedUp, Inserted, Stored, Inserting
  <2> QED BY <2>2, <2>3, <2>4 DEF AssemblerInv
<1> QED BY <1>1, <1>2, <1>3, <1>4 DEF Next

(* A request sent again touches nothing of the assembler's.                 *)
LEMMA ResendRequestStep ==
    ASSUME AssemblerInv, NEW b, ResendRequest(b)
    PROVE  AssemblerInv'
<1>1. UNCHANGED <<snap, announced, queue, primary, current, reroots, bundles, requested, holder,
                  proc, silent, lost>>
  BY DEF ResendRequest, database
<1>2. (Shapes /\ LatestExists /\ CountedReroots /\ OneBundlePerInput)'
  BY <1>1 DEF AssemblerInv, Shapes, LatestExists, CountedReroots, OneBundlePerInput
<1>3. (CurrentIsRequested /\ RequestedIsUsable)'
  BY <1>1 DEF AssemblerInv, CurrentIsRequested, RequestedIsUsable, Stored
<1>4. \A p \in Procs : (Locked(p) /\ LookedUp(p) /\ Inserted(p))'
  BY <1>1 DEF AssemblerInv, Locked, LookedUp, Inserted, Stored, Inserting
<1> QED BY <1>2, <1>3, <1>4 DEF AssemblerInv

(* The invariant, without the router and with it.                           *)
LEMMA AssemblerInvariant == Spec => []AssemblerInv
<1>1. Init => AssemblerInv
  BY InvInit
<1>2. AssemblerInv /\ [Next]_vars => AssemblerInv'
  BY NextStep
<1> QED BY <1>1, <1>2, PTL DEF Spec

(* A request is never taken back.                                           *)
LEMMA RequestedGrows ==
    ASSUME Next
    PROVE  requested \subseteq requested'
<1>1. Neighbours => requested' = requested
  BY DEF Neighbours, Update, Resend, Renormalise, database
<1>2. ASSUME NEW p \in Procs, Refresh(p) PROVE requested \subseteq requested'
  <2>1. RollBack(p) => requested' = requested
    BY DEF RollBack, database
  <2>2. Commit(p) => requested \subseteq requested'
    BY DEF Commit, RequestedAfter
  <2>3. Take(p) \/ Read(p) \/ Reroot(p) \/ Lookup(p) \/ Append_(p) \/ Point(p)
          => requested' = requested
    BY DEF Take, Read, Reroot, Lookup, Append_, Point, database
  <2> QED BY <1>2, <2>1, <2>2, <2>3 DEF Refresh, CloseUncommitted, InsertFails
<1>3. ASSUME NEW p \in Procs, Stop(p) PROVE requested' = requested
  BY <1>3 DEF Stop, RollBack, database
<1> QED BY <1>1, <1>2, <1>3 DEF Next

LEMMA RouterStep ==
    ASSUME IInv, [RoutingNext]_allVars
    PROVE  IInv'
<1>1. CASE Next /\ UNCHANGED routing
  <2>1. AssemblerInv'
    BY <1>1, NextStep DEF IInv
  <2>2. requested \subseteq requested'
    BY <1>1, RequestedGrows
  <2> QED BY <1>1, <2>1, <2>2 DEF IInv, RouterInv, routing
<1>2. CASE Route
  <2>1. AssemblerInv'
    <3>1. UNCHANGED vars
      BY <1>2 DEF Route, TakeRequest, DropStale, RequestJudge
    <3> QED BY <3>1, NextStep DEF IInv
  <2>2. RouterInv'
    <3>1. ASSUME NEW b \in requested, TakeRequest(b) PROVE RouterInv'
      <4>1. b \in Inputs /\ current \in Inputs
        BY DEF IInv, AssemblerInv, Shapes
      <4> QED BY <3>1, <4>1 DEF TakeRequest, IInv, RouterInv, Request, vars
    <3>2. CASE DropStale \/ RequestJudge
      <4>1. Waiting \in Request /\ Waiting.at = "idle"
        BY IdleFacts DEF Waiting, Request
      <4> QED BY <3>2, <4>1 DEF DropStale, IsStale, RequestJudge, IInv, RouterInv
    <3> QED BY <1>2, <3>1, <3>2 DEF Route
  <2> QED BY <2>1, <2>2 DEF IInv
<1>3. ASSUME NEW b \in requested, ResendRequest(b) PROVE IInv'
  <2>1. AssemblerInv'
    BY <1>3, ResendRequestStep DEF IInv
  <2>2. RouterInv'
    BY <1>3 DEF ResendRequest, IInv, RouterInv, database
  <2> QED BY <2>1, <2>2 DEF IInv
<1>4. CASE UNCHANGED allVars
  <2>1. AssemblerInv'
    BY <1>4, NextStep DEF IInv, allVars
  <2> QED BY <1>4, <2>1 DEF IInv, RouterInv, allVars, routing, vars
<1> QED BY <1>1, <1>2, <1>3, <1>4 DEF RoutingNext

LEMMA Invariant == RoutingSpec => []IInv
<1>1. RoutingInit => IInv
  <2> SUFFICES ASSUME RoutingInit PROVE IInv
    OBVIOUS
  <2>1. AssemblerInv
    BY InvInit DEF RoutingInit
  <2>2. Waiting \in Request /\ Waiting.at = "idle"
    BY IdleFacts DEF Waiting, Request
  <2> QED BY <2>1, <2>2 DEF RoutingInit, IInv, RouterInv
<1>2. IInv /\ [RoutingNext]_allVars => IInv'
  BY RouterStep
<1> QED BY <1>1, <1>2, PTL DEF RoutingSpec

-----------------------------------------------------------------------------
(* The theorems.                                                            *)

(* The variables keep their shape, and who has rerooted holds the row.      *)
THEOREM TypeCorrect == RoutingSpec => []TypeOK
<1>1. IInv => TypeOK
  <2> SUFFICES ASSUME IInv PROVE TypeOK
    OBVIOUS
  <2>1. Shapes
    BY DEF IInv, AssemblerInv
  <2>2. \A b \in bundles : b.input \in Inputs /\ b.version \in Nat \ {0}
    BY <2>1 DEF Shapes, Bundle
  <2>3. ASSUME NEW p \in Procs
        PROVE  /\ proc[p].at \in Steps /\ proc[p].primary \in Artifacts
               /\ proc[p].moved \in BOOLEAN /\ proc[p].version \in Nat
               /\ proc[p].input \in Inputs /\ proc[p].current \in Inputs
               /\ proc[p].moved => holder = {p}
    <3>1. proc[p] \in Transaction /\ Locked(p)
      BY DEF IInv, AssemblerInv, Shapes
    <3> QED BY <3>1 DEF Transaction, Locked
  <2> QED BY <2>1, <2>2, <2>3 DEF TypeOK, Shapes, Contents
<1> QED BY <1>1, Invariant, PTL

(* Reuse of an old bundle, reroot and append agree: the current bundle is   *)
(* stored, and if it is ready its analysis has been requested; whatever the *)
(* members, the processes and what others commit between two statements.    *)
THEOREM CurrentRequested == RoutingSpec => []CurrentIsRequested
<1>1. IInv => CurrentIsRequested
  BY DEF IInv, AssemblerInv
<1> QED BY <1>1, Invariant, PTL

(* A request is for a stored and ready bundle: the branches of the router   *)
(* that ask for another refresh are never taken.                            *)
THEOREM RequestedUsable == RoutingSpec => []RequestedIsUsable
<1>1. IInv => RequestedIsUsable
  BY DEF IInv, AssemblerInv
<1> QED BY <1>1, Invariant, PTL

(* A ready current bundle is judged, or its request was dropped while       *)
(* another bundle was current, once every request was taken.                *)
THEOREM JudgedOrDropped == RoutingSpec => []CurrentJudgedOrDropped
<1>1. IInv => CurrentJudgedOrDropped
  BY DEF IInv, RouterInv, CurrentJudgedOrDropped
<1> QED BY <1>1, Invariant, PTL

(* The unique key is kept and a refresh that waits for a hash while it      *)
(* holds the group's row would wait for nobody: no circle of waits.         *)
THEOREM NoCircleOfWaits == RoutingSpec => [](OneBundlePerInput /\ HolderNeverWaits)
<1>1. IInv => OneBundlePerInput /\ HolderNeverWaits
  <2> SUFFICES ASSUME AssemblerInv, NEW p \in Procs, proc[p].at = "append", holder = {p}
               PROVE  Inserting(proc[p].input) = {} /\ ~Stored(proc[p].input)
    BY DEF IInv, AssemblerInv, HolderNeverWaits
  <2>1. proc[p].moved /\ proc[p].input.reroots = reroots + 1 /\ reroots \in Nat
    BY ProcessFacts DEF Locked, LookedUp
  <2>2. ~Stored(proc[p].input)
    <3> SUFFICES ASSUME NEW b \in bundles, b.input = proc[p].input PROVE FALSE
      BY DEF Stored
    <3>1. b.input.reroots <= reroots
      BY DEF AssemblerInv, CountedReroots
    <3> QED BY <2>1, <3>1
  <2>3. Inserting(proc[p].input) = {}
    <3> SUFFICES ASSUME NEW q \in Procs, proc[q].version > 0, proc[q].input = proc[p].input
                 PROVE  FALSE
      BY DEF Inserting
    <3>1. proc[q].at \in {"point", "commit"} /\ q # p
      BY ProcessFacts DEF Inserted
    <3>2. ~proc[q].moved
      BY <3>1, ProcessFacts DEF Locked
    <3>3. proc[q].input.reroots <= reroots
      BY <3>1, <3>2, ProcessFacts DEF LookedUp
    <3> QED BY <2>1, <3>3
  <2> QED BY <2>2, <2>3
<1> QED BY <1>1, Invariant, PTL

-----------------------------------------------------------------------------
(* What is announced reaches the current bundle.                            *)

(* A statement inside a refresh keeps what the refresh has read.            *)
LEMMA StatementKeepsFresh ==
    ASSUME FreshInv, NEW p \in Procs,
           UNCHANGED <<snap, silent, queue, current, lost>>,
           \A q \in Procs \ {p} : proc'[q] = proc[q],
           proc[p].at # "idle", proc'[p].at \notin {"idle", "read"},
           proc'[p].current = proc[p].current,
           proc[p].at = "read" => Agrees(proc'[p].snaps),
           proc[p].at # "read" => proc'[p].snaps = proc[p].snaps
    PROVE  FreshInv'
<1>1. PointerKnown'
  BY AssemblerAssumption DEF FreshInv, PointerKnown
<1>2. Underway'
  <2> SUFFICES ASSUME ~lost, queue = queue' PROVE Underway'
    BY DEF Underway
  <2>1. CASE queue > 0
    BY <2>1 DEF Underway
  <2>2. ASSUME NEW q \in Procs \ Committing, proc[q].at # "idle" PROVE Underway'
    <3>1. proc'[q].at # "idle"
      BY <2>2
    <3> QED BY <3>1 DEF Underway
  <2>3. ASSUME NEW q \in Committing,
               \/ proc[q].at = "read"
               \/ proc[q].at \notin {"idle", "read"} /\ Agrees(proc[q].snaps)
        PROVE  Underway'
    <3>1. q \in Procs
      BY AssemblerAssumption
    <3>2. CASE q # p
      <4>1. proc'[q] = proc[q]
        BY <3>1, <3>2
      <4>2. \/ proc'[q].at = "read"
            \/ proc'[q].at \notin {"idle", "read"} /\ Agrees(proc[q].snaps)'
        BY <2>3, <4>1 DEF Agrees
      <4> QED BY <4>2 DEF Underway
    <3>3. CASE q = p
      <4>1. proc'[q].at \notin {"idle", "read"} /\ Agrees(proc'[q].snaps)
        BY <2>3, <3>3
      <4> QED BY <4>1 DEF Underway, Agrees
    <3> QED BY <3>2, <3>3
  <2> QED BY <2>1, <2>2, <2>3 DEF FreshInv, Underway
<1> QED BY <1>1, <1>2 DEF FreshInv

(* The neighbours queue a message, or change what has had one: a return     *)
(* without an event is remembered as silent.                                *)
LEMMA NeighboursKeepFresh ==
    ASSUME AssemblerInv, FreshInv, Neighbours
    PROVE  FreshInv'
<1>1. UNCHANGED <<proc, current, lost>> /\ queue \in Nat
  BY DEF Neighbours, Update, Resend, Renormalise, database, AssemblerInv, Shapes
<1>2. PointerKnown'
  BY <1>1 DEF FreshInv, PointerKnown
<1>3. \/ queue' > 0
      \/ queue' = queue /\ \A s : Agrees(s) => Agrees(s)'
  <2>1. ASSUME NEW a \in Artifacts, NEW s \in Snapshots, Update(a, s), <<a, s>> \in announced
        PROVE  queue' = queue /\ \A t : Agrees(t) => Agrees(t)'
    <3>1. queue' = queue /\ silent' = silent \cup {a} /\ snap' = [snap EXCEPT ![a] = s]
      BY <2>1 DEF Update
    <3>2. \A b \in Artifacts \ silent' : b \in Artifacts \ silent /\ snap'[b] = snap[b]
      BY <3>1 DEF AssemblerInv, Shapes, Contents
    <3> QED BY <3>1, <3>2 DEF Agrees
  <2>2. ASSUME NEW a \in Artifacts, NEW s \in Snapshots, Update(a, s), <<a, s>> \notin announced
        PROVE  queue' > 0
    BY <1>1, <2>2 DEF Update
  <2>3. CASE Resend
    BY <1>1, <2>3 DEF Resend
  <2>4. CASE Renormalise
    BY <2>4 DEF Renormalise, Agrees
  <2> QED BY <2>1, <2>2, <2>3, <2>4 DEF Neighbours
<1>4. Underway'
  <2>1. CASE queue' > 0
    BY <2>1 DEF Underway
  <2>2. CASE queue' = queue /\ \A s : Agrees(s) => Agrees(s)'
    <3>1. \A p \in Procs : Agrees(proc[p].snaps) => Agrees(proc[p].snaps)'
      BY <2>2, <1>1 DEF Agrees
    <3>2. Agrees(current.snaps) => Agrees(current.snaps)'
      BY <2>2, <1>1 DEF Agrees
    <3> QED BY <1>1, <2>2, <3>1, <3>2, AssemblerAssumption DEF FreshInv, Underway
  <2> QED BY <1>3, <2>1, <2>2
<1> QED BY <1>2, <1>4 DEF FreshInv

LEMMA TakeKeepsFresh ==
    ASSUME AssemblerInv, FreshInv, NEW p \in Procs, Take(p)
    PROVE  FreshInv'
<1>1. /\ proc' \in [Procs -> Transaction] /\ proc'[p].at = "read" /\ proc'[p].current = current
      /\ \A q \in Procs \ {p} : proc'[q] = proc[q]
      /\ current' = current
  <2> DEFINE t == [Idle EXCEPT !.at = "read", !.primary = primary, !.current = current]
  <2>1. t \in Transaction /\ t.at = "read" /\ t.current = current
    BY ProcessFacts, IdleFacts DEF Transaction, Steps
  <2>2. proc' = [proc EXCEPT ![p] = t] /\ current' = current
    BY DEF Take, database
  <2> HIDE DEF t
  <2> QED BY <2>1, <2>2, ProcessFacts
<1>2. PointerKnown'
  BY <1>1, AssemblerAssumption DEF FreshInv, PointerKnown
<1>3. Underway'
  <2>1. CASE p \in Committing
    BY <1>1, <2>1 DEF Underway
  <2>2. CASE p \notin Committing
    BY <1>1, <2>2 DEF Underway
  <2> QED BY <2>1, <2>2
<1> QED BY <1>2, <1>3 DEF FreshInv

(* The runner, alone to commit, leaves the pointer at what it has read.     *)
LEMMA CommitKeepsFresh ==
    ASSUME OneRunner, AssemblerInv, FreshInv, NEW p \in Procs, Commit(p)
    PROVE  FreshInv'
<1>1. /\ p \in Committing /\ proc[p].at = "commit"
      /\ current' = IF proc[p].input # proc[p].current THEN proc[p].input ELSE current
      /\ UNCHANGED <<snap, queue, silent, lost>>
      /\ proc' = [proc EXCEPT ![p] = Idle]
  BY DEF Commit
<1>2. /\ proc'[p].at = "idle" /\ \A q \in Procs \ {p} : proc'[q] = proc[q]
      /\ \A q \in Committing : q = p
  BY <1>1, ProcessFacts, IdleFacts DEF OneRunner
<1>3. current' = proc[p].input /\ proc[p].input.snaps = proc[p].snaps
  <2>1. proc[p].current = current
    BY <1>1 DEF FreshInv, PointerKnown
  <2> QED BY <1>1, <2>1, ProcessFacts DEF LookedUp
<1>4. PointerKnown'
  BY <1>2 DEF PointerKnown
<1>5. Underway'
  <2> SUFFICES ASSUME ~lost PROVE Underway'
    BY <1>1 DEF Underway
  <2>1. CASE queue > 0
    BY <1>1, <2>1 DEF Underway
  <2>2. ASSUME NEW q \in Procs \ Committing, proc[q].at # "idle" PROVE Underway'
    <3>1. proc'[q].at # "idle"
      BY <1>1, <1>2, <2>2
    <3> QED BY <3>1 DEF Underway
  <2>3. CASE /\ Agrees(proc[p].snaps)
             /\ \A q \in Procs \ Committing : proc[q].at = "idle"
    <3>1. Agrees(current.snaps)'
      BY <1>1, <1>3, <2>3 DEF Agrees
    <3>2. \A q \in Procs : proc'[q].at = "idle"
      BY <1>2, <2>3
    <3> QED BY <3>1, <3>2 DEF Underway
  <2>4. \/ queue > 0
        \/ \E q \in Procs \ Committing : proc[q].at # "idle"
        \/ Agrees(proc[p].snaps)
    BY <1>1, <1>2 DEF FreshInv, Underway
  <2> QED BY <2>1, <2>2, <2>3, <2>4
<1> QED BY <1>4, <1>5 DEF FreshInv

LEMMA RollBackKeepsFresh ==
    ASSUME AssemblerInv, FreshInv, NEW p \in Procs, RollBack(p)
    PROVE  FreshInv'
<1>1. lost' = TRUE /\ current' = current
  BY DEF RollBack, database
<1>2. proc'[p].at = "idle" /\ \A q \in Procs \ {p} : proc'[q] = proc[q]
  BY ProcessFacts, IdleFacts DEF RollBack
<1> QED BY <1>1, <1>2, AssemblerAssumption DEF FreshInv, Underway, PointerKnown

LEMMA FreshStep ==
    ASSUME OneRunner, AssemblerInv, FreshInv, [Next]_vars
    PROVE  FreshInv'
<1>1. CASE Neighbours
  BY <1>1, NeighboursKeepFresh
<1>2. ASSUME NEW p \in Procs, Refresh(p) PROVE FreshInv'
  <2>1. Take(p) => FreshInv'
    BY TakeKeepsFresh
  <2>2. ASSUME Read(p) PROVE FreshInv'
    <3> DEFINE read == Materialised(snap, proc[p].primary)
               at == IF Decide(proc[p].primary, read) = proc[p].primary THEN "lookup" ELSE "reroot"
               t == [proc[p] EXCEPT !.at = at, !.snaps = read]
    <3>1. /\ proc' = [proc EXCEPT ![p] = t] /\ proc[p].at = "read"
          /\ UNCHANGED <<snap, queue, current, silent, lost>>
      BY <2>2 DEF Read, database
    <3>2. t.at \in {"lookup", "reroot"} /\ t.current = proc[p].current /\ t.snaps = read
      BY ProcessFacts DEF Transaction
    <3>3. Agrees(t.snaps)
      BY <3>2, ProcessFacts, MaterialisedFacts DEF Agrees
    <3> HIDE DEF t
    <3>4. proc'[p] = t /\ \A q \in Procs \ {p} : proc'[q] = proc[q]
      BY <3>1, ProcessFacts
    <3> QED BY <3>1, <3>2, <3>3, <3>4, StatementKeepsFresh
  <2>3. ASSUME Reroot(p) \/ Lookup(p) \/ Append_(p) \/ Point(p) PROVE FreshInv'
    <3>1. UNCHANGED <<snap, queue, current, silent, lost>>
      BY <2>3 DEF Reroot, Lookup, Append_, Point, database
    <3>2. /\ proc[p].at \in {"reroot", "lookup", "append", "point"}
          /\ \A q \in Procs \ {p} : proc'[q] = proc[q]
          /\ proc'[p].at \in {"lookup", "append", "point", "commit"}
          /\ proc'[p].current = proc[p].current /\ proc'[p].snaps = proc[p].snaps
      <4>1. CASE Reroot(p)
        BY <4>1, ProcessFacts DEF Reroot, Transaction
      <4>2. CASE Lookup(p)
        BY <4>2, ProcessFacts DEF Lookup, Transaction
      <4>3. CASE Append_(p)
        BY <4>3, ProcessFacts DEF Append_, Transaction
      <4>4. CASE Point(p)
        BY <4>4, ProcessFacts DEF Point, Transaction
      <4> QED BY <2>3, <4>1, <4>2, <4>3, <4>4
    <3> QED BY <3>1, <3>2, StatementKeepsFresh
  <2>4. Commit(p) => FreshInv'
    BY CommitKeepsFresh
  <2>5. CloseUncommitted(p) \/ InsertFails(p) => FreshInv'
    BY RollBackKeepsFresh DEF CloseUncommitted, InsertFails
  <2> QED BY <1>2, <2>1, <2>2, <2>3, <2>4, <2>5 DEF Refresh
<1>3. ASSUME NEW p \in Procs, Stop(p) PROVE FreshInv'
  BY <1>3, RollBackKeepsFresh DEF Stop
<1>4. CASE UNCHANGED vars
  BY <1>4 DEF vars, FreshInv, Underway, PointerKnown, Agrees
<1> QED BY <1>1, <1>2, <1>3, <1>4 DEF Next

LEMMA FreshInit == RoutingInit => AssemblerInv /\ FreshInv
<1> SUFFICES ASSUME RoutingInit PROVE AssemblerInv /\ FreshInv
  OBVIOUS
<1>1. AssemblerInv
  BY InvInit DEF RoutingInit
<1>2. \A p \in Procs : proc[p].at = "idle"
  BY IdleFacts DEF RoutingInit, Init
<1>3. Agrees(current.snaps)
  BY DEF RoutingInit, Init, NoBundle, Agrees
<1> QED BY <1>1, <1>2, <1>3, AssemblerAssumption DEF FreshInv, Underway, PointerKnown

LEMMA FreshRoutingStep ==
    ASSUME OneRunner, AssemblerInv, FreshInv, [RoutingNext]_allVars
    PROVE  AssemblerInv' /\ FreshInv'
<1>1. CASE [Next]_vars
  BY <1>1, NextStep, FreshStep
<1>2. ASSUME NEW b \in requested, ResendRequest(b) PROVE AssemblerInv' /\ FreshInv'
  BY <1>2, ResendRequestStep
  DEF ResendRequest, database, FreshInv, Underway, PointerKnown, Agrees
<1>3. Route => UNCHANGED vars
  BY DEF Route, TakeRequest, DropStale, RequestJudge
<1> QED BY <1>1, <1>2, <1>3 DEF RoutingNext, allVars

(* With one bounded runner at a time: when every message has been handled   *)
(* and nothing was lost, the current bundle holds the members' snapshots,   *)
(* except those that came back without an event.                            *)
THEOREM FreshWithOneRunner ==
    ASSUME OneRunner
    PROVE  RoutingSpec => []FreshAtRest
<1>1. RoutingInit => AssemblerInv /\ FreshInv
  BY FreshInit
<1>2. AssemblerInv /\ FreshInv /\ [RoutingNext]_allVars => AssemblerInv' /\ FreshInv'
  BY FreshRoutingStep
<1>3. AssemblerInv /\ FreshInv => FreshAtRest
  BY AssemblerAssumption DEF FreshInv, Underway, Agrees, FreshAtRest, AtRest
<1> QED BY <1>1, <1>2, <1>3, PTL DEF RoutingSpec

-----------------------------------------------------------------------------
(* The current bundle's primary is the group's.                             *)

Kept(a) == "primary" \notin silent => a = primary

(* A refresh has settled the primary of what it looks up and inserts.       *)
Decided(p) ==
    /\ proc[p].at \in {"lookup", "append", "point", "commit"} =>
         Decide(proc[p].primary, proc[p].snaps) = proc[p].primary
    /\ proc[p].at \in {"append", "point", "commit"} => proc[p].input.primary = proc[p].primary

(* A refresh at work writes the primary it holds, or has read the group's.  *)
Carries(p) == proc[p].at # "idle" /\ (proc[p].moved \/ Kept(proc[p].primary))
Rests == "primary" \notin silent =>
    current.primary = primary /\ Decide(primary, current.snaps) = primary

PrimaryUnderway ==
    ~lost =>
        \/ queue > 0
        \/ \E p \in Procs \ Committing : proc[p].at # "idle"
        \/ \E p \in Committing : Carries(p)
        \/ (\A p \in Procs : proc[p].at = "idle") /\ Rests

PrimaryInv == PrimaryUnderway /\ PointerKnown /\ \A p \in Procs : Decided(p)

(* A repository is a primary that stays: deciding again changes nothing.    *)
LEMMA DecideSettles ==
    ASSUME NEW a \in Artifacts, NEW s
    PROVE  Decide(Decide(a, s), s) = Decide(a, s)
<1>1. ASSUME ReadyRepos(s) # {} PROVE Kind[BestReadyRepo(s)] = "github_repo"
  <2>1. ReadyRepos(s) \in SUBSET Nat
    BY DEF ReadyRepos
  <2>2. \E i \in ReadyRepos(s) : \A j \in ReadyRepos(s) : i <= j
    BY <1>1, <2>1, LeastExists
  <2> DEFINE i == CHOOSE i \in ReadyRepos(s) : \A j \in ReadyRepos(s) : i <= j
  <2>3. i \in ReadyRepos(s)
    BY <2>2
  <2>4. Kind[Order[i]] = "github_repo"
    BY <2>3 DEF ReadyRepos
  <2> QED BY <2>4 DEF BestReadyRepo
<1>2. CASE Decide(a, s) = a
  BY <1>2
<1>3. CASE Decide(a, s) # a
  <2>1. ReadyRepos(s) # {} /\ Decide(a, s) = BestReadyRepo(s)
    BY <1>3 DEF Decide
  <2> QED BY <1>1, <2>1 DEF Decide
<1> QED BY <1>2, <1>3

(* A statement inside a refresh keeps the primary it works for.             *)
LEMMA StatementKeepsPrimary ==
    ASSUME PrimaryInv, NEW p \in Procs,
           UNCHANGED <<silent, queue, primary, current, lost>>,
           \A q \in Procs \ {p} : proc'[q] = proc[q],
           proc[p].at # "idle", proc'[p].at # "idle",
           proc'[p].current = proc[p].current,
           Decided(p)',
           proc'[p].moved \/ (~proc[p].moved /\ proc'[p].primary = proc[p].primary)
    PROVE  PrimaryInv'
<1>1. PointerKnown'
  BY AssemblerAssumption DEF PrimaryInv, PointerKnown
<1>2. \A q \in Procs : Decided(q)'
  <2>1. \A q \in Procs \ {p} : Decided(q) => Decided(q)'
    BY DEF Decided
  <2> QED BY <2>1 DEF PrimaryInv
<1>3. \A q \in Procs : Carries(q) => Carries(q)'
  BY DEF Carries, Kept
<1>4. PrimaryUnderway'
  <2> SUFFICES ASSUME ~lost, queue = queue' PROVE PrimaryUnderway'
    BY DEF PrimaryUnderway
  <2>1. CASE queue > 0
    BY <2>1 DEF PrimaryUnderway
  <2>2. ASSUME NEW q \in Procs \ Committing, proc[q].at # "idle" PROVE PrimaryUnderway'
    <3>1. proc'[q].at # "idle"
      BY <2>2
    <3> QED BY <3>1 DEF PrimaryUnderway
  <2>3. ASSUME NEW q \in Committing, Carries(q) PROVE PrimaryUnderway'
    <3>1. Carries(q)'
      BY <1>3, <2>3, AssemblerAssumption
    <3> QED BY <3>1 DEF PrimaryUnderway
  <2> QED BY <2>1, <2>2, <2>3 DEF PrimaryInv, PrimaryUnderway
<1> QED BY <1>1, <1>2, <1>4 DEF PrimaryInv

(* The initial primary is put back only while nobody holds the row.         *)
LEMMA NeighboursKeepPrimary ==
    ASSUME AssemblerInv, PrimaryInv, Neighbours
    PROVE  PrimaryInv'
<1>1. UNCHANGED <<proc, current, lost>> /\ queue \in Nat
  BY DEF Neighbours, Update, Resend, Renormalise, database, AssemblerInv, Shapes
<1>2. PointerKnown' /\ \A p \in Procs : Decided(p)'
  BY <1>1 DEF PrimaryInv, PointerKnown, Decided
<1>3. \/ queue' > 0
      \/ queue' = queue /\ primary' = primary /\ silent \subseteq silent'
      \/ queue' = queue /\ "primary" \in silent'
  <2>1. ASSUME NEW a \in Artifacts, NEW s \in Snapshots, Update(a, s)
        PROVE  \/ queue' > 0
               \/ queue' = queue /\ primary' = primary /\ silent \subseteq silent'
    BY <1>1, <2>1 DEF Update, database
  <2>2. Resend => queue' > 0
    BY <1>1 DEF Resend
  <2>3. Renormalise => queue' = queue /\ "primary" \in silent'
    BY DEF Renormalise
  <2> QED BY <2>1, <2>2, <2>3 DEF Neighbours
<1>4. PrimaryUnderway'
  <2>1. CASE queue' > 0
    BY <2>1 DEF PrimaryUnderway
  <2>2. CASE \/ queue' = queue /\ primary' = primary /\ silent \subseteq silent'
             \/ queue' = queue /\ "primary" \in silent'
    <3>1. \A p \in Procs : Carries(p) => Carries(p)'
      BY <2>2, <1>1 DEF Carries, Kept
    <3>2. Rests => Rests'
      BY <2>2, <1>1 DEF Rests
    <3> QED BY <1>1, <2>2, <3>1, <3>2, AssemblerAssumption DEF PrimaryInv, PrimaryUnderway
  <2> QED BY <1>3, <2>1, <2>2
<1> QED BY <1>2, <1>4 DEF PrimaryInv

LEMMA TakeKeepsPrimary ==
    ASSUME AssemblerInv, PrimaryInv, NEW p \in Procs, Take(p)
    PROVE  PrimaryInv'
<1>1. /\ proc'[p].at = "read" /\ proc'[p].primary = primary /\ proc'[p].current = current
      /\ \A q \in Procs \ {p} : proc'[q] = proc[q]
      /\ UNCHANGED <<current, primary, silent>>
  <2> DEFINE t == [Idle EXCEPT !.at = "read", !.primary = primary, !.current = current]
  <2>1. t \in Transaction /\ t.at = "read" /\ t.primary = primary /\ t.current = current
    BY ProcessFacts, IdleFacts DEF Transaction, Steps, Idle
  <2>2. /\ proc' = [proc EXCEPT ![p] = t]
        /\ UNCHANGED <<current, primary, silent>>
    BY DEF Take, database
  <2> HIDE DEF t
  <2> QED BY <2>1, <2>2, ProcessFacts
<1>2. PointerKnown'
  BY <1>1, AssemblerAssumption DEF PrimaryInv, PointerKnown
<1>3. \A q \in Procs : Decided(q)'
  BY <1>1 DEF PrimaryInv, Decided
<1>4. PrimaryUnderway'
  <2>1. CASE p \in Committing
    BY <1>1, <2>1 DEF PrimaryUnderway, Carries, Kept
  <2>2. CASE p \notin Committing
    BY <1>1, <2>2 DEF PrimaryUnderway
  <2> QED BY <2>1, <2>2
<1> QED BY <1>2, <1>3, <1>4 DEF PrimaryInv

LEMMA RollBackKeepsPrimary ==
    ASSUME AssemblerInv, PrimaryInv, NEW p \in Procs, RollBack(p)
    PROVE  PrimaryInv'
<1>1. lost' = TRUE /\ current' = current
  BY DEF RollBack, database
<1>2. proc'[p].at = "idle" /\ \A q \in Procs \ {p} : proc'[q] = proc[q]
  BY ProcessFacts, IdleFacts DEF RollBack
<1>3. \A q \in Procs : Decided(q)'
  BY <1>2 DEF PrimaryInv, Decided
<1> QED BY <1>1, <1>2, <1>3, AssemblerAssumption DEF PrimaryInv, PrimaryUnderway, PointerKnown

(* With the pointer comes the primary: moved together, or read together.    *)
LEMMA CommitKeepsPrimary ==
    ASSUME OneRunner, AssemblerInv, PrimaryInv, NEW p \in Procs, Commit(p)
    PROVE  PrimaryInv'
<1>1. /\ p \in Committing /\ proc[p].at = "commit"
      /\ primary' = IF proc[p].moved THEN proc[p].primary ELSE primary
      /\ current' = IF proc[p].input # proc[p].current THEN proc[p].input ELSE current
      /\ UNCHANGED <<queue, silent, lost>>
      /\ proc' = [proc EXCEPT ![p] = Idle]
  BY DEF Commit, PrimaryAfter
<1>2. /\ proc'[p].at = "idle" /\ \A q \in Procs \ {p} : proc'[q] = proc[q]
      /\ \A q \in Committing : q = p
  BY <1>1, ProcessFacts, IdleFacts DEF OneRunner
<1>3. /\ current' = proc[p].input /\ proc[p].input.snaps = proc[p].snaps
      /\ proc[p].input.primary = proc[p].primary
      /\ Decide(proc[p].primary, proc[p].snaps) = proc[p].primary
  <2>1. proc[p].current = current /\ Decided(p)
    BY <1>1 DEF PrimaryInv, PointerKnown
  <2> QED BY <1>1, <2>1, ProcessFacts DEF LookedUp, Decided
<1>4. PointerKnown'
  BY <1>2 DEF PointerKnown
<1>5. \A q \in Procs : Decided(q)'
  BY <1>2 DEF PrimaryInv, Decided
<1>6. PrimaryUnderway'
  <2> SUFFICES ASSUME ~lost PROVE PrimaryUnderway'
    BY <1>1 DEF PrimaryUnderway
  <2>1. CASE queue > 0
    BY <1>1, <2>1 DEF PrimaryUnderway
  <2>2. ASSUME NEW q \in Procs \ Committing, proc[q].at # "idle" PROVE PrimaryUnderway'
    <3>1. proc'[q].at # "idle"
      BY <1>1, <1>2, <2>2
    <3> QED BY <3>1 DEF PrimaryUnderway
  <2>3. CASE Carries(p) /\ \A q \in Procs \ Committing : proc[q].at = "idle"
    <3>1. Rests'
      BY <1>1, <1>3, <2>3 DEF Rests, Carries, Kept
    <3>2. \A q \in Procs : proc'[q].at = "idle"
      BY <1>2, <2>3
    <3> QED BY <3>1, <3>2 DEF PrimaryUnderway
  <2>4. \/ queue > 0
        \/ \E q \in Procs \ Committing : proc[q].at # "idle"
        \/ Carries(p)
    BY <1>1, <1>2 DEF PrimaryInv, PrimaryUnderway
  <2> QED BY <2>1, <2>2, <2>3, <2>4
<1> QED BY <1>4, <1>5, <1>6 DEF PrimaryInv

LEMMA PrimaryStep ==
    ASSUME OneRunner, AssemblerInv, PrimaryInv, [Next]_vars
    PROVE  PrimaryInv'
<1>1. CASE Neighbours
  BY <1>1, NeighboursKeepPrimary
<1>2. ASSUME NEW p \in Procs, Read(p) \/ Reroot(p) \/ Lookup(p) \/ Append_(p) \/ Point(p)
      PROVE  PrimaryInv'
  <2>1. UNCHANGED <<silent, queue, primary, current, lost>>
    BY <1>2 DEF Read, Reroot, Lookup, Append_, Point, database
  <2>2. proc[p].primary \in Artifacts /\ proc[p] \in Transaction
    BY ProcessFacts
  <2>3. /\ proc[p].at # "idle" /\ proc'[p].at # "idle"
        /\ \A q \in Procs \ {p} : proc'[q] = proc[q]
        /\ proc'[p].current = proc[p].current /\ Decided(p)'
        /\ proc'[p].moved \/ (~proc[p].moved /\ proc'[p].primary = proc[p].primary)
    <3>1. CASE Read(p)
      <4> DEFINE read == Materialised(snap, proc[p].primary)
                 same == Decide(proc[p].primary, read) = proc[p].primary
      <4>1. /\ proc' = [proc EXCEPT ![p].at = IF same THEN "lookup" ELSE "reroot", ![p].snaps = read]
            /\ proc[p].at = "read" /\ ~proc[p].moved
        BY <3>1, ProcessFacts DEF Read, Locked
      <4> HIDE DEF read
      <4>2. /\ proc'[p].at = IF same THEN "lookup" ELSE "reroot"
            /\ proc'[p].snaps = read /\ proc'[p].primary = proc[p].primary
            /\ proc'[p].moved = proc[p].moved /\ proc'[p].current = proc[p].current
            /\ \A q \in Procs \ {p} : proc'[q] = proc[q]
        BY <4>1, ProcessFacts DEF Transaction
      <4>3. /\ proc'[p].at \in {"lookup", "reroot"}
            /\ proc'[p].at = "lookup" => Decide(proc[p].primary, read) = proc[p].primary
        BY <4>2
      <4>4. Decided(p)'
        BY <4>2, <4>3 DEF Decided
      <4> QED BY <4>1, <4>2, <4>3, <4>4
    <3>2. CASE Reroot(p)
      <4> DEFINE to == Decide(proc[p].primary, proc[p].snaps)
      <4>1. /\ proc' = [proc EXCEPT ![p].at = "lookup", ![p].moved = TRUE, ![p].primary = to]
            /\ proc[p].at = "reroot" /\ Decide(to, proc[p].snaps) = to
        BY <2>2, <3>2, DecideSettles DEF Reroot
      <4> HIDE DEF to
      <4>2. /\ proc'[p].at = "lookup" /\ proc'[p].moved
            /\ proc'[p].snaps = proc[p].snaps /\ proc'[p].primary = to
            /\ proc'[p].current = proc[p].current
            /\ \A q \in Procs \ {p} : proc'[q] = proc[q]
        BY <4>1, ProcessFacts DEF Transaction
      <4> QED BY <4>1, <4>2 DEF Decided
    <3>3. CASE Lookup(p) \/ Append_(p) \/ Point(p)
      <4>1. Decided(p)
        BY DEF PrimaryInv
      <4>2. /\ proc[p].at \in {"lookup", "append", "point"}
            /\ proc'[p].at \in {"append", "point", "commit"}
            /\ proc'[p].snaps = proc[p].snaps /\ proc'[p].primary = proc[p].primary
            /\ proc'[p].moved = proc[p].moved /\ proc'[p].current = proc[p].current
            /\ \A q \in Procs \ {p} : proc'[q] = proc[q]
            /\ proc[p].at # "lookup" => proc'[p].input = proc[p].input
            /\ proc[p].at = "lookup" => proc'[p].input.primary = proc[p].primary
        <5>1. CASE Lookup(p)
          BY <5>1, ProcessFacts DEF Lookup, Transaction
        <5>2. CASE Append_(p)
          BY <5>2, ProcessFacts DEF Append_, Transaction
        <5>3. CASE Point(p)
          BY <5>3, ProcessFacts DEF Point, Transaction
        <5> QED BY <3>3, <5>1, <5>2, <5>3
      <4>3. proc[p].moved \in BOOLEAN
        BY <2>2 DEF Transaction
      <4> QED BY <4>1, <4>2, <4>3 DEF Decided
    <3> QED BY <1>2, <3>1, <3>2, <3>3
  <2> QED BY <2>1, <2>3, StatementKeepsPrimary
<1>3. ASSUME NEW p \in Procs, Refresh(p) PROVE PrimaryInv'
  BY <1>2, <1>3, TakeKeepsPrimary, CommitKeepsPrimary, RollBackKeepsPrimary
  DEF Refresh, CloseUncommitted, InsertFails
<1>4. ASSUME NEW p \in Procs, Stop(p) PROVE PrimaryInv'
  BY <1>4, RollBackKeepsPrimary DEF Stop
<1>5. CASE UNCHANGED vars
  BY <1>5 DEF vars, PrimaryInv, PrimaryUnderway, PointerKnown, Carries, Kept, Rests, Decided
<1> QED BY <1>1, <1>3, <1>4, <1>5 DEF Next

(* With one bounded runner at a time: when every message has been handled   *)
(* and nothing was lost, the current bundle's primary is the group's, and   *)
(* the rules would not reroot it, unless the normalizer put the initial     *)
(* primary back after the last message.                                     *)
THEOREM PrimaryWithOneRunner ==
    ASSUME OneRunner
    PROVE  RoutingSpec => []PrimarySettled
<1>1. RoutingInit => AssemblerInv /\ FreshInv /\ PrimaryInv
  <2> SUFFICES ASSUME RoutingInit PROVE PrimaryInv
    BY FreshInit
  <2>1. \A p \in Procs : proc[p].at = "idle"
    BY IdleFacts DEF RoutingInit, Init
  <2>2. ReadyRepos(current.snaps) = {}
    BY AssemblerAssumption DEF RoutingInit, Init, NoBundle, ReadyRepos, Artifacts
  <2>3. Rests
    BY <2>2 DEF RoutingInit, Init, NoBundle, Rests, Decide
  <2> QED BY <2>1, <2>3, AssemblerAssumption DEF PrimaryInv, PrimaryUnderway, PointerKnown, Decided
<1>2. AssemblerInv /\ FreshInv /\ PrimaryInv /\ [RoutingNext]_allVars
        => AssemblerInv' /\ FreshInv' /\ PrimaryInv'
  <2> SUFFICES ASSUME AssemblerInv, FreshInv, PrimaryInv, [RoutingNext]_allVars PROVE PrimaryInv'
    BY FreshRoutingStep
  <2>1. CASE [Next]_vars
    BY <2>1, PrimaryStep
  <2>2. ASSUME NEW b \in requested, ResendRequest(b) PROVE PrimaryInv'
    BY <2>2 DEF ResendRequest, database, PrimaryInv, PrimaryUnderway, PointerKnown, Carries, Kept,
                Rests, Decided
  <2>3. Route => UNCHANGED vars
    BY DEF Route, TakeRequest, DropStale, RequestJudge
  <2> QED BY <2>1, <2>2, <2>3 DEF RoutingNext, allVars
<1>3. PrimaryInv => PrimarySettled
  BY AssemblerAssumption DEF PrimaryInv, PrimaryUnderway, Carries, Rests, PrimarySettled, AtRest
<1> QED BY <1>1, <1>2, <1>3, PTL DEF RoutingSpec

-----------------------------------------------------------------------------
(* The refreshes look as if each happened at once.                          *)

(* The runner that is alone to commit has counted past every stored bundle. *)
VersionsAhead ==
    \A p \in Committing : proc[p].version > 0 => \A b \in bundles : b.version < proc[p].version

AloneInv == OneRunner => FreshInv /\ VersionsAhead

(* The next version is past every stored one.                               *)
LEMMA NextVersionAhead ==
    ASSUME bundles \subseteq Bundle, LatestExists, NEW c \in bundles
    PROVE  c.version < NextVersion
<1> DEFINE b == CHOOSE b \in bundles : \A d \in bundles : d.version <= b.version
<1>1. b \in bundles /\ c.version <= b.version
  BY DEF LatestExists
<1>2. b.version \in Nat /\ c.version \in Nat
  BY <1>1 DEF Bundle
<1>3. NextVersion = b.version + 1
  BY DEF NextVersion
<1> HIDE DEF b
<1> QED BY <1>1, <1>2, <1>3

LEMMA VersionsStep ==
    ASSUME OneRunner, AssemblerInv, VersionsAhead, [Next]_vars
    PROVE  VersionsAhead'
<1>1. ASSUME bundles' = bundles,
             \A q \in Procs : proc'[q].version = proc[q].version \/ proc'[q].version = 0
      PROVE  VersionsAhead'
  <2> SUFFICES ASSUME NEW q \in Committing, proc'[q].version > 0, NEW b \in bundles
               PROVE  b.version < proc'[q].version
    BY <1>1 DEF VersionsAhead
  <2>1. q \in Procs
    BY AssemblerAssumption
  <2>2. proc'[q].version = proc[q].version
    BY <1>1, <2>1
  <2> QED BY <2>2 DEF VersionsAhead
<1>2. CASE Neighbours \/ UNCHANGED vars
  BY <1>1, <1>2 DEF Neighbours, Update, Resend, Renormalise, database, vars
<1>3. ASSUME NEW p \in Procs, RollBack(p) PROVE VersionsAhead'
  <2>1. \A q \in Procs : proc'[q].version = proc[q].version \/ proc'[q].version = 0
    BY <1>3, ProcessFacts, IdleFacts DEF RollBack
  <2> QED BY <1>1, <1>3, <2>1 DEF RollBack, database
<1>4. ASSUME NEW p \in Procs, Take(p) \/ Read(p) \/ Reroot(p) \/ Lookup(p) \/ Point(p)
      PROVE  VersionsAhead'
  <2>1. bundles' = bundles
    BY <1>4 DEF Take, Read, Reroot, Lookup, Point, database
  <2>2. \A q \in Procs \ {p} : proc'[q] = proc[q]
    BY <1>4, ProcessFacts DEF Take, Read, Reroot, Lookup, Point
  <2>3. proc'[p].version = proc[p].version \/ proc'[p].version = 0
    <3>1. CASE Take(p)
      BY <3>1, ProcessFacts DEF Take, Idle
    <3>2. CASE Read(p)
      BY <3>2, ProcessFacts DEF Read, Transaction
    <3>3. CASE Reroot(p)
      BY <3>3, ProcessFacts DEF Reroot, Transaction
    <3>4. CASE Lookup(p)
      BY <3>4, ProcessFacts DEF Lookup, Transaction
    <3>5. CASE Point(p)
      BY <3>5, ProcessFacts DEF Point, Transaction
    <3> QED BY <1>4, <3>1, <3>2, <3>3, <3>4, <3>5
  <2> QED BY <1>1, <2>1, <2>2, <2>3
<1>5. ASSUME NEW p \in Procs, Append_(p) PROVE VersionsAhead'
  <2>1. /\ bundles' = bundles /\ \A q \in Procs \ {p} : proc'[q] = proc[q]
        /\ proc'[p].version = NextVersion
    BY <1>5, ProcessFacts DEF Append_, database, Transaction
  <2>2. \A b \in bundles : b.version < NextVersion
    BY NextVersionAhead DEF AssemblerInv, Shapes
  <2> QED BY <2>1, <2>2, AssemblerAssumption DEF VersionsAhead
<1>6. ASSUME NEW p \in Procs, Commit(p) PROVE VersionsAhead'
  <2>1. proc'[p].version = 0 /\ \A q \in Committing : q = p
    BY <1>6, ProcessFacts, IdleFacts DEF Commit, OneRunner
  <2> QED BY <2>1 DEF VersionsAhead
<1> QED BY <1>2, <1>3, <1>4, <1>5, <1>6 DEF Next, Refresh, CloseUncommitted, InsertFails, Stop

(* The steps of the ledger.                                                 *)
LEMMA CommitIsRefresh ==
    ASSUME IInv, AloneInv, NEW p \in Procs, Commit(p), UNCHANGED routing
    PROVE  Ledger!Next
<1> PICK input, v : input = proc[p].input /\ v = proc[p].version
  OBVIOUS
<1> PICK new : new = [input |-> input, version |-> v]
  OBVIOUS
<1>1. /\ proc[p].at = "commit" /\ p \in Committing
      /\ bundles' = IF v = 0 THEN bundles ELSE bundles \cup {new}
      /\ current' = IF input # proc[p].current THEN input ELSE current
      /\ requested' = IF Ready(input) THEN requested \cup {input} ELSE requested
      /\ judged' = judged
  BY DEF Commit, RequestedAfter, routing
<1>2. /\ input \in Inputs /\ v \in Nat
      /\ v > 0 => ~Stored(input)
      /\ ~(v > 0) => Stored(input)
  BY <1>1, ProcessFacts DEF IInv, Inserted
<1>3. Ledger!Reuse(input) \/ Ledger!Add(input)
  <2>1. CASE v = 0
    BY <1>1, <1>2, <2>1 DEF Ledger!Reuse, Stored
  <2>2. CASE v # 0
    <3>1. new \in bundles' /\ new.input = input /\ bundles' = bundles \cup {new}
      BY <1>1, <2>2
    <3>2. \A c \in bundles : c.input # input
      BY <1>2, <2>2 DEF Stored
    <3>3. ASSUME NEW c \in bundles, \A q, r \in Committing : q = r
          PROVE  c.version < new.version
      BY <1>1, <1>2, <2>2, <3>3 DEF AloneInv, OneRunner, VersionsAhead
    <3> QED BY <3>1, <3>2, <3>3 DEF Ledger!Add
  <2> QED BY <2>1, <2>2
<1>4. current' = input \/ (~(\A q, r \in Committing : q = r) /\ current' = current)
  BY <1>1 DEF AloneInv, OneRunner, FreshInv, PointerKnown
<1>5. requested' = requested \cup ({input} \cap {b \in Inputs : Ready(b)})
  BY <1>1, <1>2
<1>6. Ledger!Refresh(input)
  BY <1>1, <1>3, <1>4, <1>5 DEF Ledger!Refresh
<1>7. input \in {c.input : c \in bundles'}
  BY <1>1, <1>2 DEF Stored
<1> QED BY <1>6, <1>7 DEF Ledger!Next

LEMMA LedgerStep ==
    ASSUME IInv, AloneInv, [RoutingNext]_allVars
    PROVE  [Ledger!Next]_(Ledger!ledger)
<1>1. ASSUME UNCHANGED <<bundles, current, requested, judged>> PROVE [Ledger!Next]_(Ledger!ledger)
  BY <1>1 DEF Ledger!ledger
<1>2. CASE Next /\ UNCHANGED routing
  <2>1. CASE Neighbours
    BY <1>1, <1>2, <2>1 DEF Neighbours, Update, Resend, Renormalise, database, routing
  <2>2. ASSUME NEW p \in Procs, Commit(p) PROVE Ledger!Next
    BY <1>2, <2>2, CommitIsRefresh
  <2>3. ASSUME NEW p \in Procs, Refresh(p) \/ Stop(p), ~Commit(p)
        PROVE  [Ledger!Next]_(Ledger!ledger)
    <3>1. UNCHANGED database
      BY <2>3 DEF Refresh, Take, Read, Reroot, Lookup, Append_, Point, CloseUncommitted,
                  InsertFails, Stop, RollBack
    <3> QED BY <1>1, <1>2, <3>1 DEF database, routing
  <2> QED BY <1>2, <2>1, <2>2, <2>3 DEF Next
<1>3. CASE Route
  <2>1. ASSUME RequestJudge PROVE Ledger!Next
    <3>1. router.bundle \in requested
      BY <2>1 DEF RequestJudge, IInv, RouterInv
    <3>2. Ledger!Judge(router.bundle)
      BY <2>1, <3>1 DEF RequestJudge, Ledger!Judge, vars
    <3> QED BY <3>1, <3>2 DEF Ledger!Next
  <2>2. CASE ~RequestJudge
    <3>1. UNCHANGED <<vars, judged>>
      BY <1>3, <2>2 DEF Route, TakeRequest, DropStale
    <3> QED BY <1>1, <3>1 DEF vars
  <2> QED BY <2>1, <2>2
<1>4. ASSUME NEW b \in requested, ResendRequest(b) PROVE [Ledger!Next]_(Ledger!ledger)
  BY <1>1, <1>4 DEF ResendRequest, database
<1>5. CASE UNCHANGED allVars
  BY <1>1, <1>5 DEF allVars, vars, routing
<1> QED BY <1>2, <1>3, <1>4, <1>5 DEF RoutingNext

(* Refreshes of several statements, interleaved, rolled back and committed  *)
(* by any number of processes, implement the ledger in which each happens   *)
(* at once; with one runner versions grow and the pointer follows.          *)
THEOREM Implements == RoutingSpec => ImplementsLedger
<1>1. RoutingInit => AloneInv /\ Ledger!Init
  <2> SUFFICES ASSUME RoutingInit PROVE AloneInv /\ Ledger!Init
    OBVIOUS
  <2>1. FreshInv /\ VersionsAhead
    BY FreshInit DEF RoutingInit, Init, VersionsAhead
  <2> QED BY <2>1 DEF AloneInv, RoutingInit, Init, Ledger!Init
<1>2. IInv /\ AloneInv /\ [RoutingNext]_allVars => AloneInv'
  <2> SUFFICES ASSUME IInv, AloneInv, [RoutingNext]_allVars, OneRunner
               PROVE  (FreshInv /\ VersionsAhead)'
    BY DEF AloneInv, OneRunner
  <2>1. AssemblerInv /\ FreshInv /\ VersionsAhead
    BY DEF IInv, AloneInv
  <2>2. FreshInv'
    BY <2>1, FreshRoutingStep
  <2>3. VersionsAhead'
    <3>1. CASE [Next]_vars
      BY <2>1, <3>1, VersionsStep
    <3>2. ASSUME NEW b \in requested, ResendRequest(b) PROVE VersionsAhead'
      BY <2>1, <3>2 DEF ResendRequest, database, VersionsAhead
    <3>3. Route => UNCHANGED vars
      BY DEF Route, TakeRequest, DropStale, RequestJudge
    <3> QED BY <3>1, <3>2, <3>3 DEF RoutingNext, allVars
  <2> QED BY <2>2, <2>3
<1>3. IInv /\ AloneInv /\ [RoutingNext]_allVars => [Ledger!Next]_(Ledger!ledger)
  BY LedgerStep
<1> QED BY <1>1, <1>2, <1>3, Invariant, PTL DEF RoutingSpec, ImplementsLedger, Ledger!Spec

=============================================================================
