------------------------- MODULE SourceNormalizerProofs -------------------------
(***************************************************************************)
(* The plan of candidate groups, for any set of links, and the worker and   *)
(* the runner that apply it, for any number of messages, versions,          *)
(* announcements and copies.                                                *)
(***************************************************************************)
EXTENDS SourceNormalizer, TLAPS

-------------------------------------------------------------------------------
(* The plan.                                                                *)

(* Every repository a path or page belongs to is there too.                 *)
Complete(S) == S \subseteq Artifacts /\ \A a \in S : Anchor[a] \in S

LEMMA KindsOfArtifacts ==
  ASSUME NEW a \in Artifacts
  PROVE  /\ Kind[a] \in Strong \cup Medium \cup Other
         /\ Anchor[a] \in Artifacts /\ Behind[a] \in Artifacts
         /\ Kind[a] \in InRepository => Kind[Anchor[a]] = "github_repo"
         /\ Kind[a] \notin InRepository => Anchor[a] = a
BY PlanAssumption

(* Adding the repositories is enough: they have none of their own.          *)
LEMMA AnchoredIsComplete ==
  ASSUME NEW S \in SUBSET Artifacts
  PROVE  Complete(Anchored(S))
<1>1. ASSUME NEW a \in Artifacts PROVE Anchor[Anchor[a]] = Anchor[a]
  <2>1. CASE Kind[a] \in InRepository
    <3>1. Kind[Anchor[a]] \notin InRepository /\ Anchor[a] \in Artifacts
      BY <2>1, KindsOfArtifacts DEF InRepository
    <3> QED BY <3>1, KindsOfArtifacts
  <2>2. CASE Kind[a] \notin InRepository
    BY <2>2, KindsOfArtifacts
  <2> QED BY <2>1, <2>2
<1>2. \A a \in S : Anchor[a] \in Artifacts
  BY KindsOfArtifacts
<1> QED BY <1>1, <1>2 DEF Complete, Anchored

(* When nothing is on GitHub, some kind of the fallback list is there.      *)
LEMMA FallbackExists ==
  ASSUME NEW S, Complete(S), S # {}, OfKind(S, PrimaryOnGitHub) = {}
  PROVE  /\ \A a \in S : Kind[a] \notin InRepository
         /\ Fallback(S) \in 1..5
         /\ OfKind(S, {FallbackKinds[Fallback(S)]}) # {}
<1>1. ASSUME NEW a \in S PROVE Kind[a] \notin InRepository
  BY KindsOfArtifacts DEF Complete, OfKind, PrimaryOnGitHub
<1> DEFINE Has(i) == OfKind(S, {FallbackKinds[i]}) # {}
<1>2. \E i \in 1..5 : Has(i)
  <2>1. PICK a : a \in S
    OBVIOUS
  <2>2. Kind[a] \in {"x_post", "web_article", "text_idea", "unknown_link", "short_url_unresolved"}
    BY <1>1, <2>1, KindsOfArtifacts
    DEF Complete, OfKind, Strong, Medium, Other, PrimaryOnGitHub
  <2>3. \E i \in 1..5 : Kind[a] = FallbackKinds[i]
    BY <2>2 DEF FallbackKinds
  <2> QED BY <2>1, <2>3 DEF OfKind
<1> HIDE DEF Has
<1>3. \E i \in 1..5 : Has(i) /\ \A j \in 1..i - 1 : ~Has(j)
  BY <1>2
<1>4. \E i \in 1..5 : /\ OfKind(S, {FallbackKinds[i]}) # {}
                      /\ \A j \in 1..i - 1 : OfKind(S, {FallbackKinds[j]}) = {}
  BY <1>3 DEF Has
<1>5. Fallback(S) \in 1..5 /\ OfKind(S, {FallbackKinds[Fallback(S)]}) # {}
  BY <1>4 DEF Fallback
<1> QED BY <1>1, <1>5

(* No link is lost by the plan: the groups it makes cover what was found,   *)
(* and add nothing.                                                         *)
THEOREM PlanCovers ==
  ASSUME NEW S, Complete(S)
  PROVE  S = UNION {Members(p, S) : p \in Primaries(S)}
<1>1. ASSUME NEW p \in Primaries(S) PROVE Members(p, S) \subseteq S
  BY DEF Primaries, OfKind, Members, Related
<1>2. ASSUME NEW a \in S PROVE \E p \in Primaries(S) : a \in Members(p, S)
  <2>1. a \in Artifacts /\ Anchor[a] \in S
    BY DEF Complete
  <2>2. CASE OfKind(S, PrimaryOnGitHub) # {}
    <3>1. Primaries(S) = OfKind(S, PrimaryOnGitHub)
      BY <2>2 DEF Primaries
    <3>2. CASE Kind[a] \in PrimaryOnGitHub
      BY <3>1, <3>2 DEF OfKind, Members
    <3>3. CASE Kind[a] \in InRepository
      <4>1. Kind[Anchor[a]] \in PrimaryOnGitHub /\ Kind[a] \notin PrimaryOnGitHub
        BY <2>1, <3>3, KindsOfArtifacts DEF PrimaryOnGitHub, InRepository
      <4>2. a \in Members(Anchor[a], S)
        BY <4>1 DEF Members, Related, Supports
      <4> QED BY <2>1, <3>1, <4>1, <4>2 DEF OfKind
    <3>4. CASE Kind[a] \notin PrimaryOnGitHub \cup InRepository
      BY <2>2, <3>1, <3>4 DEF OfKind, Members, Related, Supports
    <3> QED BY <3>2, <3>3, <3>4
  <2>3. CASE OfKind(S, PrimaryOnGitHub) = {}
    <3>1. /\ Primaries(S) = OfKind(S, {FallbackKinds[Fallback(S)]}) /\ Primaries(S) # {}
      BY <2>3, FallbackExists DEF Primaries
    <3>2. CASE Kind[a] = FallbackKinds[Fallback(S)]
      BY <3>1, <3>2 DEF OfKind, Members
    <3>3. CASE Kind[a] # FallbackKinds[Fallback(S)]
      <4>1. PICK p \in Primaries(S) : TRUE
        BY <3>1
      <4>2. p \in S /\ Kind[p] = FallbackKinds[Fallback(S)]
        BY <3>1 DEF OfKind
      <4>3. Kind[p] \notin PrimaryOnGitHub
        BY <2>3, <4>2 DEF OfKind
      <4> QED BY <3>3, <4>2, <4>3 DEF Members, Related
    <3> QED BY <3>2, <3>3
  <2> QED BY <2>2, <2>3
<1> QED BY <1>1, <1>2
-------------------------------------------------------------------------------
(* A row of the feed: its announcements are those of its versions, whatever *)
(* one transaction of the collector does to it.                             *)

(* A row as the collector may leave it; a message that was seen has text.  *)
RowOK(r) == /\ r \in Rows
            /\ Announced(r)
            /\ Seen(r) => r.text \in Texts

(* A message without a row has nothing to announce.                        *)
LEMMA UnseenOK == RowOK(Unseen)
  BY DEF RowOK, Rows, Unseen, Announced, Seen, Announcing, Announcements, VersionKinds

(* What the fields of a row are.                                           *)
LEMMA RowFields ==
  ASSUME NEW r \in Rows
  PROVE  /\ r.text \in Texts \cup {0} /\ r.deleted \in BOOLEAN
         /\ r.versions \in Seq(Texts) /\ Len(r.versions) \in Nat
         /\ r.events \in SUBSET Announcements
         /\ Seen(r) <=> Len(r.versions) > 0
  BY DEF Rows, Seen

(* A new version keeps the announcements of the older ones and adds one.   *)
LEMMA AdvancedOK ==
  ASSUME NEW r, RowOK(r), NEW t \in Texts, Changes(r, t), NEW kind \in Kinds(r)
  PROVE  RowOK(Advanced(r, t, kind)) /\ Seen(Advanced(r, t, kind))
<1> DEFINE s == Advanced(r, t, kind)
           n == Len(r.versions)
           e == [kind |-> kind, version |-> n + 1]
<1>1. /\ n \in Nat /\ r.versions \in Seq(Texts) /\ r.events \in SUBSET Announcements
      /\ Seen(r) <=> n > 0
  BY RowFields DEF RowOK
<1>2. kind \in VersionKinds /\ (n = 0 => kind = "created")
  BY <1>1 DEF Kinds, VersionKinds
<1>3. /\ s.versions = Append(r.versions, t) /\ s.events = r.events \cup {e}
      /\ s.text = t /\ s.deleted = FALSE
      /\ s = [text |-> t, deleted |-> FALSE, versions |-> s.versions, events |-> s.events]
  BY DEF Advanced
<1>4. /\ s.versions \in Seq(Texts) /\ Len(s.versions) = n + 1
      /\ s.versions[n + 1] = t
      /\ \A v \in 1..n : s.versions[v] = r.versions[v]
  BY <1>1, <1>3
<1>5. s \in Rows
  <2>1. e \in Announcements
    BY <1>1, <1>2 DEF Announcements
  <2> QED BY <1>1, <1>3, <1>4, <2>1 DEF Rows
<1> HIDE DEF s
<1>6. \A x \in r.events : x.version \in Nat \ {0} /\ x.version <= n
  BY <1>1 DEF RowOK, Announced, Announcements
<1>7. Announced(s)
  <2>1. ASSUME NEW v \in 1..n PROVE Announcing(s, v) = Announcing(r, v)
    BY <1>1, <1>3, <2>1 DEF Announcing
  <2>2. Announcing(s, n + 1) = {e}
    BY <1>1, <1>2, <1>3, <1>6 DEF Announcing
  <2>3. \A v \in 1..Len(s.versions) : \E k \in VersionKinds :
           Announcing(s, v) = {[kind |-> k, version |-> v]}
    <3> SUFFICES ASSUME NEW v \in 1..(n + 1)
                 PROVE  \E k \in VersionKinds : Announcing(s, v) = {[kind |-> k, version |-> v]}
      BY <1>4
    <3>1. CASE v = n + 1
      BY <3>1, <2>2, <1>2
    <3>2. CASE v # n + 1
      <4>1. v \in 1..n
        BY <3>2, <1>1
      <4> QED BY <4>1, <2>1 DEF RowOK, Announced
    <3> QED BY <3>1, <3>2
  <2>4. [kind |-> "created", version |-> 1] \in s.events
    <3>1. CASE n = 0
      BY <3>1, <1>2, <1>3
    <3>2. CASE n > 0
      BY <3>2, <1>1, <1>3 DEF RowOK, Announced
    <3> QED BY <3>1, <3>2, <1>1
  <2>5. \A x \in s.events : x.version <= n + 1
    <3> SUFFICES ASSUME NEW x \in s.events PROVE x.version <= n + 1
      OBVIOUS
    <3>1. CASE x = e
      BY <3>1, <1>1
    <3>2. CASE x \in r.events
      BY <3>2, <1>1, <1>6
    <3> QED BY <1>3, <3>1, <3>2
  <2> QED BY <2>3, <2>4, <2>5, <1>3, <1>4 DEF Announced
<1>8. Seen(s) /\ s.text \in Texts
  BY <1>1, <1>3, <1>4 DEF Seen
<1> QED BY <1>5, <1>7, <1>8 DEF RowOK, s

(* A text written back touches neither versions nor announcements.         *)
LEMMA ObservedOK ==
  ASSUME NEW r, RowOK(r), Seen(r), NEW t \in Texts
  PROVE  RowOK(Observed(r, t)) /\ Seen(Observed(r, t))
<1> DEFINE s == Observed(r, t)
<1>1. s.versions = r.versions /\ s.events = r.events /\ s.text = t /\ s.deleted = FALSE
  BY DEF Observed, RowOK, Rows
<1>2. s \in Rows
  BY DEF Observed, RowOK, Rows
<1> HIDE DEF s
<1>3. \A v : Announcing(s, v) = Announcing(r, v)
  BY <1>1 DEF Announcing
<1> QED BY <1>1, <1>2, <1>3 DEF RowOK, Announced, Seen, s

(* A deletion is announced at the version it hides.                        *)
LEMMA BuriedOK ==
  ASSUME NEW r, RowOK(r), Seen(r)
  PROVE  RowOK(Buried(r)) /\ Seen(Buried(r))
<1> DEFINE s == Buried(r)
           n == Len(r.versions)
           e == [kind |-> "deleted", version |-> n]
<1>1. n \in Nat \ {0} /\ r.events \in SUBSET Announcements
  BY RowFields DEF RowOK
<1>2. s.versions = r.versions /\ s.events = r.events \cup {e} /\ s.text = r.text /\ s.deleted = TRUE
  BY DEF Buried, RowOK, Rows
<1>3. s \in Rows
  <2>1. e \in Announcements
    BY <1>1 DEF Announcements
  <2> QED BY <2>1 DEF Buried, RowOK, Rows
<1> HIDE DEF s
<1>4. \A v : Announcing(s, v) = Announcing(r, v)
  BY <1>2 DEF Announcing, VersionKinds
<1>5. Announced(s)
  BY <1>1, <1>2, <1>4 DEF RowOK, Announced, Seen
<1> QED BY <1>2, <1>3, <1>5 DEF RowOK, Seen, s

(* Every transaction on a row that is in order leaves it in order.         *)
LEMMA EffectOK ==
  ASSUME NEW r, RowOK(r), NEW s \in Effects(r)
  PROVE  RowOK(s) /\ Seen(s)
<1>1. \/ \E t \in {x \in Texts : Changes(r, x)}, kind \in Kinds(r) : s = Advanced(r, t, kind)
      \/ Seen(r) /\ (s = Buried(r) \/ \E t \in Texts : s = Observed(r, t))
  BY DEF Effects
<1> QED BY <1>1, AdvancedOK, ObservedOK, BuriedOK

-------------------------------------------------------------------------------
(* The programs.  The inductive invariant: the rows are in order; what a    *)
(* program has open is about a real version, with its content unless the    *)
(* message was deleted; what the worker holds it has neither acknowledged   *)
(* nor left; it is about to acknowledge only what has a run.                *)
FeedOK == /\ feed \in [Messages -> Rows]
          /\ \A m \in Messages : RowOK(feed[m]) /\ Len(feed[m].versions) <= MaxVersion

Openings == [pc : {"idle", "write", "ack"}, m : Messages \cup {0}, e : Announcements \cup {None},
             text : Texts \cup {0}, deleted : BOOLEAN, stale : BOOLEAN]

About(o) == /\ o.pc # "idle" => o.m \in Messages /\ o.e \in Announcements /\ o.e.version <= MaxVersion
            /\ o.pc = "write" /\ ~o.deleted => o.text \in Texts

OpenOK == /\ open \in [Programs -> Openings] /\ \A p \in Programs : About(open[p])
          /\ open["runner"].pc # "ack"

JobsOK == /\ taken \subseteq Jobs /\ acked \subseteq taken /\ left \subseteq taken /\ acked \cap left = {}
          /\ open["worker"].pc # "idle" => Held \in taken /\ Held \notin acked \cup left

Run == [eligible : BOOLEAN, artifacts : SUBSET Artifacts]
Sound(run) == run \in Run /\ (run.eligible => Complete(run.artifacts))

TablesOK ==
  /\ DOMAIN runs \subseteq Versions /\ \A x \in DOMAIN runs : Sound(runs[x])
  /\ members \subseteq [group : Groups, artifact : Artifacts] /\ requests \subseteq members
  /\ EligibleIsProposed

AckReady ==
  /\ AckedIsNormalized
  /\ open["worker"].pc = "ack" => <<Held.m, Held.e.version>> \in DOMAIN runs

IInv == FeedOK /\ OpenOK /\ JobsOK /\ TablesOK /\ AckReady

(* What is announced is a version that is there.                            *)
LEMMA AnnouncementFacts ==
  ASSUME FeedOK, NEW a \in Announcements_
  PROVE  /\ a.m \in Messages /\ a.e \in Announcements /\ a.e.version \in 1..Len(feed[a.m].versions)
         /\ a.e.version <= MaxVersion /\ a = [m |-> a.m, e |-> a.e] /\ a \in Jobs
         /\ Content(feed[a.m], a.e.version) \in Texts
<1>1. PICK m \in Messages : \E e \in feed[m].events : a = [m |-> m, e |-> e]
  BY DEF Announcements_, Announced_
<1>2. PICK e \in feed[m].events : a = [m |-> m, e |-> e]
  BY <1>1
<1>3. a.m = m /\ a.e = e
  BY <1>2
<1>4. /\ RowOK(feed[m]) /\ Len(feed[m].versions) <= MaxVersion /\ feed[m] \in Rows
  BY DEF FeedOK, RowOK
<1>5. /\ e \in Announcements /\ e.version <= Len(feed[m].versions)
      /\ feed[m].versions \in Seq(Texts) /\ Len(feed[m].versions) \in Nat
      /\ Seen(feed[m]) <=> Len(feed[m].versions) > 0
  BY <1>4, RowFields DEF RowOK, Announced
<1>6. e.version \in Nat \ {0}
  BY <1>5 DEF Announcements
<1>7. e.version \in 1..Len(feed[m].versions) /\ e.version <= MaxVersion /\ Seen(feed[m])
  BY <1>4, <1>5, <1>6, NormalizerAssumption
<1>8. Content(feed[m], e.version) \in Texts
  BY <1>4, <1>5, <1>7 DEF Content, RowOK
<1> QED BY <1>2, <1>3, <1>5, <1>7, <1>8 DEF Jobs

(* What an evaluation finds is complete, and an idea stands alone.          *)
LEMMA EvaluateSound ==
  ASSUME NEW p \in Programs, NEW t \in Texts, NEW opened \in Opened(p, t)
  PROVE  Sound(Evaluate(t, opened))
<1>1. opened \subseteq Links[t] /\ Links[t] \subseteq Artifacts /\ Idea[t] \in Artifacts
      /\ Kind[Idea[t]] = "text_idea"
  BY NormalizerAssumption DEF Opened, OfKind
<1>2. Canonical(Links[t], opened) \in SUBSET Artifacts
  BY <1>1, KindsOfArtifacts DEF Canonical
<1> DEFINE linked == Anchored(Canonical(Links[t], opened))
<1>3. Complete(linked)
  BY <1>2, AnchoredIsComplete
<1>4. Complete({Idea[t]})
  BY <1>1, KindsOfArtifacts DEF Complete, InRepository
<1> DEFINE eligible == Eligible(linked, t \in Keyworded)
           found == IF eligible /\ linked = {} THEN {Idea[t]} ELSE linked
<1>5. Evaluate(t, opened) = [eligible |-> eligible, artifacts |-> found] /\ eligible \in BOOLEAN
  BY DEF Evaluate, Eligible
<1> HIDE DEF linked, eligible
<1>6. Complete(found)
  BY <1>3, <1>4
<1> HIDE DEF found
<1> QED BY <1>5, <1>6 DEF Sound, Run, Complete

LEMMA OutcomesSound ==
  ASSUME OpenOK, NEW p \in Programs, open[p].pc = "write", NEW run \in Outcomes(p)
  PROVE  Sound(run)
<1>1. CASE open[p].deleted
  <2>1. run = Suppressed
    BY <1>1 DEF Outcomes
  <2> QED BY <2>1 DEF Suppressed, Sound, Run
<1>2. CASE ~open[p].deleted
  <2>1. open[p].text \in Texts
    BY <1>2 DEF OpenOK, About
  <2> QED BY <1>2, <2>1, EvaluateSound DEF Outcomes
<1> QED BY <1>1, <1>2

(* What a run proposes has its shape, and holds every artifact of the run.  *)
LEMMA ProposedFacts ==
  ASSUME NEW m \in Messages, NEW v \in 1..MaxVersion, NEW S, Complete(S)
  PROVE  /\ Proposed(m, v, S) \subseteq [group : Groups, artifact : Artifacts]
         /\ \A a \in S : \E y \in Proposed(m, v, S) :
               y.artifact = a /\ y.group.m = m /\ y.group.v = v
<1>1. ASSUME NEW a \in S
      PROVE  \E y \in Proposed(m, v, S) : y.artifact = a /\ y.group.m = m /\ y.group.v = v
  <2>1. PICK p \in Primaries(S) : a \in Members(p, S)
    BY PlanCovers
  <2>2. [group |-> [m |-> m, v |-> v, primary |-> p], artifact |-> a] \in Proposed(m, v, S)
    BY <2>1 DEF Proposed
  <2> QED BY <2>2
<1>2. ASSUME NEW y \in Proposed(m, v, S) PROVE y \in [group : Groups, artifact : Artifacts]
  <2>1. PICK p \in Primaries(S) : \E a \in Members(p, S) :
           y = [group |-> [m |-> m, v |-> v, primary |-> p], artifact |-> a]
    BY DEF Proposed
  <2>2. p \in S
    BY DEF Primaries, OfKind
  <2>3. Members(p, S) \subseteq Artifacts /\ p \in Artifacts
    BY <2>2, PlanCovers DEF Complete
  <2> QED BY <2>1, <2>3 DEF Groups
<1> QED BY <1>1, <1>2

-------------------------------------------------------------------------------
(* What a transaction writes keeps the tables.                              *)
LEMMA WriteKeeps ==
  ASSUME TablesOK, NEW o, o.m \in Messages, o.e.version \in 1..MaxVersion,
         NEW run, Sound(run), Write(o, run)
  PROVE  /\ TablesOK' /\ DOMAIN runs' = DOMAIN runs \cup {<<o.m, o.e.version>>}
<1> DEFINE x0 == <<o.m, o.e.version>>
           new == IF run.eligible THEN Proposed(o.m, o.e.version, run.artifacts) ELSE {}
<1>1. /\ runs' = [x \in DOMAIN runs \cup {x0} |-> IF x = x0 THEN run ELSE runs[x]]
      /\ members' = members \cup new
      /\ requests' = requests \cup {x \in new : HasProvider(x.artifact)}
  BY DEF Write
<1>2. new \subseteq [group : Groups, artifact : Artifacts]
  BY ProposedFacts DEF Sound
<1>3. run.eligible => \A a \in run.artifacts : \E y \in new :
         y.artifact = a /\ y.group.m = x0[1] /\ y.group.v = x0[2]
  BY ProposedFacts DEF Sound
<1>4. x0 \in Versions
  BY DEF Versions
<1> HIDE DEF x0, new
<1>5. DOMAIN runs' = DOMAIN runs \cup {x0} /\ runs'[x0] = run
      /\ \A x \in DOMAIN runs : x # x0 => runs'[x] = runs[x]
  BY <1>1
<1>6. DOMAIN runs' \subseteq Versions /\ \A x \in DOMAIN runs' : Sound(runs'[x])
  BY <1>4, <1>5 DEF TablesOK
<1>7. members' \subseteq [group : Groups, artifact : Artifacts] /\ requests' \subseteq members'
  BY <1>1, <1>2 DEF TablesOK
<1>8. ASSUME NEW x \in DOMAIN runs', runs'[x].eligible, NEW a \in runs'[x].artifacts
      PROVE  \E y \in members' : y.artifact = a /\ y.group.m = x[1] /\ y.group.v = x[2]
  <2>1. CASE x = x0
    BY <1>1, <1>3, <1>5, <1>8, <2>1
  <2>2. CASE x # x0
    BY <1>1, <1>5, <1>8, <2>2 DEF TablesOK, EligibleIsProposed
  <2> QED BY <2>1, <2>2
<1>9. \A y \in members' : HasProvider(y.artifact) => y \in requests'
  BY <1>1 DEF TablesOK, EligibleIsProposed
<1>10. EligibleIsProposed'
  BY <1>8, <1>9 DEF EligibleIsProposed
<1> QED BY <1>5, <1>6, <1>7, <1>10 DEF TablesOK, x0
-------------------------------------------------------------------------------
(* Each step keeps the invariant.                                           *)
LEMMA ClosedFacts == Closed \in Openings /\ Closed.pc = "idle"
  BY NormalizerAssumption DEF Closed, Openings

LEMMA CollectKeeps ==
  ASSUME IInv, NEW m \in Messages, Collect(m)
  PROVE  IInv'
<1>1. PICK r \in Effects(feed[m]) : Usual(r) /\ feed' = [feed EXCEPT ![m] = r]
  BY DEF Collect
<1>2. UNCHANGED <<taken, acked, left, runs, members, requests>>
  BY DEF Collect, stream, tables
<1>3. open' = [p \in Programs |-> IF open[p].pc = "write" /\ open[p].m = m
                                  THEN [open[p] EXCEPT !.stale = TRUE] ELSE open[p]]
  BY DEF Collect
<1>4. FeedOK'
  <2>1. RowOK(feed[m])
    BY DEF IInv, FeedOK
  <2>2. RowOK(r) /\ Len(r.versions) <= MaxVersion
    BY <1>1, <2>1, EffectOK DEF Usual
  <2> QED BY <1>1, <2>2 DEF IInv, FeedOK, RowOK
<1>5. ASSUME NEW p \in Programs
      PROVE  /\ open'[p] \in Openings /\ open'[p].pc = open[p].pc /\ open'[p].m = open[p].m
             /\ open'[p].e = open[p].e /\ open'[p].text = open[p].text
             /\ open'[p].deleted = open[p].deleted
  <2>1. open[p] \in Openings
    BY DEF IInv, OpenOK
  <2>2. open'[p] = open[p] \/ open'[p] = [open[p] EXCEPT !.stale = TRUE]
    BY <1>3
  <2> QED BY <2>1, <2>2 DEF Openings
<1>6. OpenOK'
  <2>1. open' \in [Programs -> Openings]
    BY <1>3, <1>5
  <2> QED BY <1>5, <2>1 DEF IInv, OpenOK, About, Programs
<1>7. Held' = Held /\ open'["worker"].pc = open["worker"].pc
  BY <1>5 DEF Held, Programs
<1>8. JobsOK'
  BY <1>2, <1>7 DEF IInv, JobsOK
<1>9. TablesOK'
  BY <1>2 DEF IInv, TablesOK, EligibleIsProposed
<1>10. AckReady'
  BY <1>2, <1>7 DEF IInv, AckReady, AckedIsNormalized
<1> QED BY <1>4, <1>6, <1>8, <1>9, <1>10 DEF IInv

LEMMA ResendKeeps ==
  ASSUME IInv, NEW a, Resend(a)
  PROVE  IInv'
<1>1. /\ taken' = taken \ {a} /\ acked' = acked \ {a} /\ left' = left \ {a}
      /\ open["worker"].pc = "idle" /\ UNCHANGED <<feed, runs, members, requests, open>>
  BY DEF Resend, tables
<1>2. FeedOK' /\ OpenOK' /\ TablesOK'
  BY <1>1 DEF IInv, FeedOK, OpenOK, TablesOK, EligibleIsProposed
<1>3. JobsOK'
  BY <1>1 DEF IInv, JobsOK
<1>4. AckReady'
  BY <1>1 DEF IInv, AckReady, AckedIsNormalized
<1> QED BY <1>2, <1>3, <1>4 DEF IInv

(* What a program opens is about a real version, with a content.            *)
LEMMA ReadKeeps ==
  ASSUME IInv, NEW p \in Programs, NEW a \in Announcements_, Read(p, a)
  PROVE  /\ OpenOK' /\ open[p].pc = "idle" /\ \A q \in Programs : q # p => open'[q] = open[q]
         /\ open'[p].pc = "write" /\ open'[p].m = a.m /\ open'[p].e = a.e
<1> DEFINE r == feed[a.m]
           t == IF r.deleted THEN 0 ELSE Content(r, a.e.version)
           o == [pc |-> "write", m |-> a.m, e |-> a.e, deleted |-> r.deleted, text |-> t,
                 stale |-> FALSE]
<1>1. open[p].pc = "idle" /\ open' = [open EXCEPT ![p] = o]
  BY DEF Read
<1>2. /\ a.m \in Messages /\ a.e \in Announcements /\ a.e.version <= MaxVersion
      /\ Content(r, a.e.version) \in Texts
  BY AnnouncementFacts DEF IInv
<1>3. r.deleted \in BOOLEAN
  BY <1>2 DEF IInv, FeedOK, Rows
<1>4. t \in Texts \cup {0} /\ (~r.deleted => t \in Texts)
  BY <1>2
<1> HIDE DEF t, r
<1>5. o \in Openings /\ About(o)
  BY <1>2, <1>3, <1>4 DEF Openings, About
<1>6. o.pc = "write" /\ o.m = a.m /\ o.e = a.e
  OBVIOUS
<1> HIDE DEF o
<1>7. OpenOK'
  BY <1>1, <1>5, <1>6 DEF IInv, OpenOK
<1> QED BY <1>1, <1>6, <1>7 DEF IInv, OpenOK

LEMMA WorkerTakesKeeps ==
  ASSUME IInv, NEW a \in Announcements_, WorkerTakes(a)
  PROVE  IInv'
<1>1. /\ a \notin taken /\ taken' = taken \cup {a} /\ Read("worker", a) /\ "worker" \in Programs
      /\ UNCHANGED <<feed, acked, left, runs, members, requests>>
  BY DEF WorkerTakes, tables, Programs
<1>2. OpenOK' /\ open'["worker"].pc = "write" /\ open'["worker"].m = a.m /\ open'["worker"].e = a.e
  BY <1>1, ReadKeeps
<1>3. a \in Jobs /\ a = [m |-> a.m, e |-> a.e]
  BY AnnouncementFacts DEF IInv
<1>4. Held' = a
  BY <1>2, <1>3 DEF Held
<1>5. JobsOK'
  BY <1>1, <1>3, <1>4 DEF IInv, JobsOK
<1>6. FeedOK' /\ TablesOK'
  BY <1>1 DEF IInv, FeedOK, TablesOK, EligibleIsProposed
<1>7. AckReady'
  BY <1>1, <1>2 DEF IInv, AckReady, AckedIsNormalized
<1> QED BY <1>2, <1>5, <1>6, <1>7 DEF IInv

LEMMA RunnerTakesKeeps ==
  ASSUME IInv, NEW a \in Announcements_, RunnerTakes(a)
  PROVE  IInv'
<1>1. /\ Read("runner", a) /\ "runner" \in Programs /\ "worker" \in Programs
      /\ UNCHANGED <<feed, taken, acked, left, runs, members, requests>>
  BY DEF RunnerTakes, stream, tables, Programs
<1>2. OpenOK' /\ open'["worker"] = open["worker"]
  BY <1>1, ReadKeeps
<1>3. Held' = Held
  BY <1>2 DEF Held
<1>4. JobsOK' /\ AckReady'
  BY <1>1, <1>2, <1>3 DEF IInv, JobsOK, AckReady, AckedIsNormalized
<1>5. FeedOK' /\ TablesOK'
  BY <1>1 DEF IInv, FeedOK, TablesOK, EligibleIsProposed
<1> QED BY <1>2, <1>4, <1>5 DEF IInv

LEMMA CommitKeeps ==
  ASSUME IInv, NEW p \in Programs, Commit(p)
  PROVE  IInv'
<1>1. /\ open[p].pc = "write" /\ open[p] \in Openings /\ About(open[p])
      /\ UNCHANGED <<feed, taken, acked, left>>
  BY DEF Commit, IInv, OpenOK, stream
<1>2. PICK run \in Outcomes(p) : Write(open[p], run)
  BY DEF Commit
<1>3. Sound(run)
  BY <1>1, OutcomesSound DEF IInv
<1>4. open[p].m \in Messages /\ open[p].e.version \in 1..MaxVersion /\ open[p].e \in Announcements
  BY <1>1, NormalizerAssumption DEF About, Announcements
<1>5. TablesOK' /\ DOMAIN runs' = DOMAIN runs \cup {<<open[p].m, open[p].e.version>>}
  BY <1>2, <1>3, <1>4, WriteKeeps DEF IInv
<1>6. PICK o : o = IF p = "worker"
                   THEN [Closed EXCEPT !.pc = "ack", !.m = open[p].m, !.e = open[p].e]
                   ELSE Closed
  OBVIOUS
<1>7. open' = [open EXCEPT ![p] = o]
  BY <1>6 DEF Commit
<1>8. /\ o \in Openings /\ About(o)
      /\ p = "worker" => o.pc = "ack" /\ o.m = open[p].m /\ o.e = open[p].e
      /\ p # "worker" => o.pc = "idle"
  <2>1. PICK c : c = Closed
    OBVIOUS
  <2>2. c \in Openings /\ c.pc = "idle"
    BY <2>1, ClosedFacts
  <2>3. CASE p = "worker"
    <3>1. o = [c EXCEPT !.pc = "ack", !.m = open[p].m, !.e = open[p].e]
      BY <1>6, <2>1, <2>3
    <3>2. o \in Openings /\ o.pc = "ack" /\ o.m = open[p].m /\ o.e = open[p].e
      BY <1>4, <2>2, <3>1 DEF Openings
    <3> QED BY <1>1, <1>4, <2>3, <3>2 DEF About
  <2>4. CASE p # "worker"
    BY <1>6, <2>1, <2>2, <2>4 DEF About
  <2> QED BY <2>3, <2>4
<1>9. OpenOK'
  BY <1>7, <1>8 DEF IInv, OpenOK
<1>10. open'[p] = o /\ \A q \in Programs : q # p => open'[q] = open[q]
  BY <1>7 DEF IInv, OpenOK
<1>11. open["worker"].pc # "idle" \/ p # "worker" => Held' = Held
  BY <1>8, <1>10 DEF Held, Programs
<1>12. /\ open'["worker"].pc # "idle" => Held' = Held /\ open["worker"].pc # "idle"
       /\ open'["worker"].pc = "ack" =>
             open["worker"].pc = "ack" \/ Held = [m |-> open[p].m, e |-> open[p].e]
  BY <1>1, <1>8, <1>10, <1>11 DEF Held, Programs
<1>13. JobsOK'
  BY <1>1, <1>12 DEF IInv, JobsOK
<1>14. AckReady'
  BY <1>1, <1>5, <1>12 DEF IInv, AckReady, AckedIsNormalized
<1>15. FeedOK'
  BY <1>1 DEF IInv, FeedOK
<1> QED BY <1>5, <1>9, <1>13, <1>14, <1>15 DEF IInv

(* A program that is done or has failed is free again.                      *)
LEMMA CloseKeeps ==
  ASSUME IInv, NEW p \in Programs, open' = [open EXCEPT ![p] = Closed]
  PROVE  /\ OpenOK' /\ open'[p].pc = "idle" /\ \A q \in Programs : q # p => open'[q] = open[q]
<1>1. open'[p] = Closed /\ \A q \in Programs : q # p => open'[q] = open[q]
  BY DEF IInv, OpenOK
<1>2. OpenOK'
  BY <1>1, ClosedFacts DEF IInv, OpenOK, About
<1> QED BY <1>1, <1>2, ClosedFacts

LEMMA AckKeeps ==
  ASSUME IInv, Ack
  PROVE  IInv'
<1>1. /\ open["worker"].pc = "ack" /\ acked' = acked \cup {Held} /\ "worker" \in Programs
      /\ open' = [open EXCEPT !["worker"] = Closed]
      /\ UNCHANGED <<feed, taken, left, runs, members, requests>>
  BY DEF Ack, tables, Programs
<1>2. OpenOK' /\ open'["worker"].pc = "idle"
  BY <1>1, CloseKeeps
<1>3. JobsOK'
  BY <1>1, <1>2 DEF IInv, JobsOK
<1>4. AckReady'
  BY <1>1, <1>2 DEF IInv, AckReady, AckedIsNormalized
<1>5. FeedOK' /\ TablesOK'
  BY <1>1 DEF IInv, FeedOK, TablesOK, EligibleIsProposed
<1> QED BY <1>2, <1>3, <1>4, <1>5 DEF IInv

LEMMA FailKeeps ==
  ASSUME IInv, NEW p \in Programs, Fail(p)
  PROVE  IInv'
<1>1. /\ open[p].pc # "idle" /\ open' = [open EXCEPT ![p] = Closed]
      /\ left' = IF p = "worker" THEN left \cup {Held} ELSE left
      /\ UNCHANGED <<feed, taken, acked, runs, members, requests>>
  BY DEF Fail, tables
<1>2. OpenOK' /\ open'[p].pc = "idle" /\ \A q \in Programs : q # p => open'[q] = open[q]
  BY <1>1, CloseKeeps
<1>3. p # "worker" => Held' = Held /\ open'["worker"].pc = open["worker"].pc
  BY <1>2 DEF Held, Programs
<1>4. JobsOK'
  BY <1>1, <1>2, <1>3 DEF IInv, JobsOK
<1>5. AckReady'
  BY <1>1, <1>2, <1>3 DEF IInv, AckReady, AckedIsNormalized
<1>6. FeedOK' /\ TablesOK'
  BY <1>1 DEF IInv, FeedOK, TablesOK, EligibleIsProposed
<1> QED BY <1>2, <1>4, <1>5, <1>6 DEF IInv

LEMMA IInvStep == IInv /\ [Next]_vars => IInv'
<1> SUFFICES ASSUME IInv, [Next]_vars PROVE IInv'
  OBVIOUS
<1>1. CASE Next
  BY <1>1, CollectKeeps, ResendKeeps, WorkerTakesKeeps, RunnerTakesKeeps, CommitKeeps, AckKeeps,
     FailKeeps
  DEF Next, Worker, Programs
<1>2. CASE UNCHANGED vars
  BY <1>2
  DEF vars, stream, tables, IInv, FeedOK, OpenOK, JobsOK, TablesOK, AckReady, EligibleIsProposed,
      AckedIsNormalized, Held
<1> QED BY <1>1, <1>2

LEMMA IInvInit == Init => IInv
<1> SUFFICES ASSUME Init PROVE IInv
  OBVIOUS
<1>1. FeedOK
  BY UnseenOK, NormalizerAssumption DEF Init, FeedInit, FeedOK, Unseen, RowOK
<1>2. OpenOK /\ open["worker"].pc = "idle"
  BY ClosedFacts DEF Init, OpenOK, About, Programs
<1>3. JobsOK /\ AckReady
  BY <1>2 DEF Init, JobsOK, AckReady, AckedIsNormalized
<1>4. TablesOK
  BY DEF Init, TablesOK, EligibleIsProposed
<1> QED BY <1>1, <1>2, <1>3, <1>4 DEF IInv

-------------------------------------------------------------------------------
LEMMA Invariance == Spec => []IInv
  BY IInvInit, IInvStep, PTL DEF Spec

(* The variables keep their shape, and what the worker took it acknowledges *)
(* or leaves, not both.                                                     *)
THEOREM TypeCorrect == Spec => []TypeOK
<1>1. IInv => TypeOK
  BY DEF IInv, FeedOK, OpenOK, JobsOK, TablesOK, Sound, Run, Openings, TypeOK
<1> QED BY <1>1, Invariance, PTL

(* What the worker has acknowledged has a run, for good.                    *)
THEOREM Normalized == Spec => []AckedIsNormalized
<1>1. IInv => AckedIsNormalized
  BY DEF IInv, AckReady
<1> QED BY <1>1, Invariance, PTL

(* No link of an accepted message is lost, and every member with a provider *)
(* was requested.                                                           *)
THEOREM Proposals == Spec => []EligibleIsProposed
<1>1. IInv => EligibleIsProposed
  BY DEF IInv, TablesOK
<1> QED BY <1>1, Invariance, PTL
-------------------------------------------------------------------------------
(* The suppression of a deleted message.  A transaction whose row has not   *)
(* changed since it was read knows whether the message is deleted; only     *)
(* what was announced has been taken; and from the moment the worker is     *)
(* done with the tombstone, the last version is suppressed or overtaken.    *)
Tombstone(m) == [m |-> m, e |-> [kind |-> "deleted", version |-> Len(feed[m].versions)]]
Last(m) == <<m, Len(feed[m].versions)>>

FreshRead ==
  \A p \in Programs : open[p].pc = "write" /\ ~open[p].stale
                       => open[p].deleted = feed[open[p].m].deleted

TakenExists == taken \subseteq Announcements_

DoneWith(d) == d \in acked \/ (open["worker"].pc = "ack" /\ Held = d)

Tombstoned ==
  \A m \in Messages : feed[m].deleted /\ m \notin silent /\ DoneWith(Tombstone(m))
                       => runs[Last(m)] = Suppressed \/ Last(m) \in overtaken

Suppression == FreshRead /\ TakenExists /\ Tombstoned

(* A tombstone is the only effect that deletes, and announcements stay.     *)
LEMMA EffectFacts ==
  ASSUME NEW r, r \in Rows, NEW s \in Effects(r)
  PROVE  /\ r.events \subseteq s.events
         /\ s.deleted => /\ s.events = r.events \cup {[kind |-> "deleted", version |-> Len(r.versions)]}
                         /\ s.versions = r.versions
<1>1. \/ \E t \in {x \in Texts : Changes(r, x)}, kind \in Kinds(r) : s = Advanced(r, t, kind)
      \/ s = Buried(r)
      \/ \E t \in Texts : s = Observed(r, t)
  BY DEF Effects
<1>2. ASSUME NEW t, NEW kind, s = Advanced(r, t, kind)
      PROVE  r.events \subseteq s.events /\ ~s.deleted
  BY <1>2 DEF Advanced
<1>3. ASSUME NEW t, s = Observed(r, t)
      PROVE  r.events \subseteq s.events /\ ~s.deleted
  BY <1>3 DEF Observed, Rows
<1>4. CASE s = Buried(r)
  BY <1>4 DEF Buried, Rows
<1> QED BY <1>1, <1>2, <1>3, <1>4

LEMMA CollectSuppresses ==
  ASSUME IInv, Suppression, NEW m \in Messages, Collect(m)
  PROVE  Suppression'
<1>1. PICK r \in Effects(feed[m]) :
         /\ feed' = [feed EXCEPT ![m] = r]
         /\ silent' = IF r.events = feed[m].events THEN silent \cup {m} ELSE silent \ {m}
  BY DEF Collect
<1>2. UNCHANGED <<taken, acked, runs, overtaken>>
  BY DEF Collect, stream, tables
<1>3. open' = [p \in Programs |-> IF open[p].pc = "write" /\ open[p].m = m
                                  THEN [open[p] EXCEPT !.stale = TRUE] ELSE open[p]]
  BY DEF Collect
<1>4. feed[m] \in Rows
  BY DEF IInv, FeedOK
<1>5. feed'[m] = r /\ \A n \in Messages : n # m => feed'[n] = feed[n]
  BY <1>1 DEF IInv, FeedOK
<1>6. ASSUME NEW p \in Programs
      PROVE  /\ open'[p].pc = open[p].pc /\ open'[p].m = open[p].m /\ open'[p].e = open[p].e
             /\ open'[p].deleted = open[p].deleted
             /\ open[p].pc = "write" /\ open[p].m = m => open'[p].stale
             /\ ~(open[p].pc = "write" /\ open[p].m = m) => open'[p].stale = open[p].stale
  <2>1. open[p] \in Openings
    BY DEF IInv, OpenOK
  <2>2. /\ open[p].pc = "write" /\ open[p].m = m => open'[p] = [open[p] EXCEPT !.stale = TRUE]
        /\ ~(open[p].pc = "write" /\ open[p].m = m) => open'[p] = open[p]
    BY <1>3
  <2> QED BY <2>1, <2>2 DEF Openings
<1>7. FreshRead'
  BY <1>5, <1>6 DEF Suppression, FreshRead, IInv, OpenOK, About
<1>8. TakenExists'
  <2>1. \A n \in Messages : feed[n].events \subseteq feed'[n].events
    BY <1>4, <1>5, EffectFacts
  <2>2. Announcements_ \subseteq Announcements_'
    BY <2>1 DEF Announcements_, Announced_
  <2> QED BY <1>2, <2>2 DEF Suppression, TakenExists
<1>9. Held' = Held /\ open'["worker"].pc = open["worker"].pc
  BY <1>6 DEF Held, Programs
<1>10. \A d : DoneWith(d)' <=> DoneWith(d)
  BY <1>2, <1>9 DEF DoneWith
<1>11. ASSUME NEW n \in Messages, n # m,
              feed'[n].deleted, n \notin silent', DoneWith(Tombstone(n))'
       PROVE  (runs[Last(n)] = Suppressed \/ Last(n) \in overtaken)'
  <2>1. Tombstone(n)' = Tombstone(n) /\ Last(n)' = Last(n) /\ feed[n].deleted /\ n \notin silent
    BY <1>1, <1>5, <1>11 DEF Tombstone, Last
  <2>2. DoneWith(Tombstone(n))
    BY <1>2, <1>9, <1>11, <2>1 DEF DoneWith
  <2> QED BY <1>2, <2>1, <2>2 DEF Suppression, Tombstoned
<1>12. ASSUME feed'[m].deleted, m \notin silent'
       PROVE  ~DoneWith(Tombstone(m))'
  <2>1. r.events # feed[m].events
    BY <1>1, <1>12
  <2>2. /\ [kind |-> "deleted", version |-> Len(feed[m].versions)] \notin feed[m].events
        /\ r.versions = feed[m].versions
    <3>1. r.deleted
      BY <1>5, <1>12
    <3>2. /\ r.events = feed[m].events \cup {[kind |-> "deleted", version |-> Len(feed[m].versions)]}
          /\ r.versions = feed[m].versions
      BY <1>4, <3>1, EffectFacts
    <3> QED BY <2>1, <3>2
  <2>3. Tombstone(m)' = Tombstone(m)
    BY <1>5, <2>2 DEF Tombstone
  <2>4. Tombstone(m) \notin Announcements_
    <3>1. ASSUME NEW n \in Messages, NEW e \in feed[n].events, Tombstone(m) = [m |-> n, e |-> e]
          PROVE  FALSE
      BY <2>2, <3>1 DEF Tombstone
    <3> QED BY <3>1 DEF Announcements_, Announced_
  <2>5. Tombstone(m) \notin taken
    BY <2>4 DEF Suppression, TakenExists
  <2> QED BY <1>2, <1>9, <2>3, <2>5 DEF DoneWith, IInv, JobsOK
<1>13. Tombstoned'
  BY <1>11, <1>12 DEF Tombstoned
<1> QED BY <1>7, <1>8, <1>13 DEF Suppression

(* A transaction on the last version of a deleted message writes Suppressed *)
(* or had read the row before it changed.                                   *)
LEMMA CommitSuppresses ==
  ASSUME IInv, Suppression, NEW p \in Programs, Commit(p)
  PROVE  Suppression'
<1>1. /\ open[p].pc = "write" /\ open[p] \in Openings /\ About(open[p])
      /\ UNCHANGED <<feed, taken, acked, silent>>
  BY DEF Commit, IInv, OpenOK, stream
<1>2. PICK run \in Outcomes(p) : Write(open[p], run)
  BY DEF Commit
<1> DEFINE x0 == <<open[p].m, open[p].e.version>>
<1>3. /\ runs' = [x \in DOMAIN runs \cup {x0} |-> IF x = x0 THEN run ELSE runs[x]]
      /\ overtaken' = IF open[p].stale THEN overtaken \cup {x0} ELSE overtaken \ {x0}
  BY <1>2 DEF Write
<1> HIDE DEF x0
<1>4. /\ runs'[x0] = run /\ \A x \in DOMAIN runs : x # x0 => runs'[x] = runs[x]
      /\ \A x : x # x0 => (x \in overtaken' <=> x \in overtaken)
  BY <1>3
<1>5. ASSUME NEW m \in Messages, feed[m].deleted, Last(m) = x0
      PROVE  runs'[x0] = Suppressed \/ x0 \in overtaken'
  <2>1. open[p].m = m
    BY <1>5 DEF Last, x0
  <2>2. CASE open[p].stale
    BY <1>3, <2>2
  <2>3. CASE ~open[p].stale
    <3>1. open[p].deleted
      BY <1>1, <1>5, <2>1, <2>3 DEF Suppression, FreshRead
    <3>2. run = Suppressed
      BY <3>1 DEF Outcomes
    <3> QED BY <1>4, <3>2
  <2> QED BY <2>2, <2>3
<1>6. PICK o : o = IF p = "worker"
                   THEN [Closed EXCEPT !.pc = "ack", !.m = open[p].m, !.e = open[p].e]
                   ELSE Closed
  OBVIOUS
<1>7. /\ o.pc # "write"
      /\ p = "worker" => o.pc = "ack" /\ o.m = open[p].m /\ o.e = open[p].e
  <2>1. PICK c : c = Closed
    OBVIOUS
  <2>2. c \in Openings /\ c.pc = "idle"
    BY <2>1, ClosedFacts
  <2>3. p = "worker" => o = [c EXCEPT !.pc = "ack", !.m = open[p].m, !.e = open[p].e]
    BY <1>6, <2>1
  <2>4. p # "worker" => o = c
    BY <1>6, <2>1
  <2> QED BY <2>2, <2>3, <2>4 DEF Openings
<1>8. open' = [open EXCEPT ![p] = o]
  BY <1>6 DEF Commit
<1>9. open'[p] = o /\ \A q \in Programs : q # p => open'[q] = open[q]
  BY <1>8 DEF IInv, OpenOK
<1>10. FreshRead' /\ TakenExists'
  BY <1>1, <1>7, <1>9 DEF Suppression, FreshRead, TakenExists, Announcements_, Announced_
<1>11. ASSUME NEW m \in Messages, feed[m].deleted, m \notin silent, DoneWith(Tombstone(m))'
       PROVE  (runs[Last(m)] = Suppressed \/ Last(m) \in overtaken)'
  <2>1. Last(m)' = Last(m) /\ Tombstone(m)' = Tombstone(m)
    BY <1>1 DEF Last, Tombstone
  <2>2. CASE Last(m) = x0
    BY <1>5, <1>11, <2>1, <2>2
  <2>3. CASE Last(m) # x0
    <3>1. DoneWith(Tombstone(m))
      <4>1. CASE Tombstone(m) \in acked
        BY <4>1 DEF DoneWith
      <4>2. CASE Tombstone(m) \notin acked
        <5>1. open'["worker"].pc = "ack" /\ Held' = Tombstone(m)
          BY <1>1, <1>11, <2>1, <4>2 DEF DoneWith
        <5>2. CASE p = "worker"
          <6>1. open[p].m = m /\ open[p].e.version = Len(feed[m].versions)
            BY <1>7, <1>9, <5>1, <5>2 DEF Held, Tombstone
          <6> QED BY <2>3, <6>1 DEF Last, x0
        <5>3. CASE p # "worker"
          BY <1>9, <5>1, <5>3 DEF DoneWith, Held, Programs
        <5> QED BY <5>2, <5>3
      <4> QED BY <4>1, <4>2
    <3>2. runs[Last(m)] = Suppressed \/ Last(m) \in overtaken
      BY <1>11, <3>1 DEF Suppression, Tombstoned
    <3>3. Last(m) \in DOMAIN runs
      <4>1. Tombstone(m) \in acked => Last(m) \in DOMAIN runs
        BY DEF IInv, AckReady, AckedIsNormalized, Tombstone, Last
      <4>2. open["worker"].pc = "ack" /\ Held = Tombstone(m) => Last(m) \in DOMAIN runs
        BY DEF IInv, AckReady, Tombstone, Last
      <4> QED BY <3>1, <4>1, <4>2 DEF DoneWith
    <3> QED BY <1>4, <2>1, <2>3, <3>2, <3>3
  <2> QED BY <2>2, <2>3
<1>12. Tombstoned'
  BY <1>1, <1>11 DEF Tombstoned
<1> QED BY <1>10, <1>12 DEF Suppression

(* The other steps write nothing.                                           *)
LEMMA OthersSuppress ==
  ASSUME IInv, Suppression,
         UNCHANGED <<feed, runs, silent, overtaken>>,
         taken' \subseteq Announcements_, FreshRead',
         \A d : DoneWith(d)' => DoneWith(d)
  PROVE  Suppression'
<1>1. TakenExists'
  BY DEF TakenExists, Announcements_, Announced_
<1>2. ASSUME NEW m \in Messages
      PROVE  Last(m)' = Last(m) /\ Tombstone(m)' = Tombstone(m)
  BY DEF Last, Tombstone
<1>3. ASSUME NEW m \in Messages, DoneWith(Tombstone(m))' PROVE DoneWith(Tombstone(m))
  BY <1>2, <1>3 DEF DoneWith
<1>4. Tombstoned'
  BY <1>2, <1>3 DEF Suppression, Tombstoned
<1> QED BY <1>1, <1>4 DEF Suppression

LEMMA SuppressionStep == IInv /\ Suppression /\ [Next]_vars => Suppression'
<1> SUFFICES ASSUME IInv, Suppression, [Next]_vars PROVE Suppression'
  OBVIOUS
<1>0. taken \subseteq Announcements_ /\ open \in [Programs -> Openings]
  BY DEF Suppression, TakenExists, IInv, OpenOK
<1>1. ASSUME NEW a \in Announcements_, Resend(a) PROVE Suppression'
  <2>1. UNCHANGED <<feed, runs, silent, overtaken, open>> /\ taken' \subseteq taken /\ acked' \subseteq acked
    BY <1>1 DEF Resend, tables
  <2>2. FreshRead' /\ \A d : DoneWith(d)' => DoneWith(d)
    BY <2>1 DEF Suppression, FreshRead, DoneWith, Held
  <2> QED BY <1>0, <2>1, <2>2, OthersSuppress
<1>2. ASSUME NEW p \in Programs, NEW a \in Announcements_, Read(p, a),
             UNCHANGED <<feed, acked, runs, silent, overtaken>>, taken' \subseteq taken \cup {a}
      PROVE  Suppression'
  <2>1. /\ open' = [open EXCEPT ![p] = [pc |-> "write", m |-> a.m, e |-> a.e,
                       deleted |-> feed[a.m].deleted,
                       text |-> IF feed[a.m].deleted THEN 0 ELSE Content(feed[a.m], a.e.version),
                       stale |-> FALSE]]
    BY <1>2 DEF Read
  <2>2. /\ open'[p].pc = "write" /\ open'[p].m = a.m /\ open'[p].deleted = feed[a.m].deleted
        /\ \A q \in Programs : q # p => open'[q] = open[q]
    BY <1>0, <2>1
  <2>3. FreshRead'
    BY <1>2, <2>2 DEF Suppression, FreshRead
  <2>4. \A d : DoneWith(d)' => DoneWith(d)
    BY <1>2, <2>2 DEF DoneWith, Held, Programs
  <2> QED BY <1>0, <1>2, <2>3, <2>4, OthersSuppress
<1>3. ASSUME NEW p \in Programs, open' = [open EXCEPT ![p] = Closed],
             UNCHANGED <<feed, taken, runs, silent, overtaken>>,
             acked' \subseteq acked \cup (IF open["worker"].pc = "ack" THEN {Held} ELSE {})
      PROVE  Suppression'
  <2>1. open'[p].pc = "idle" /\ \A q \in Programs : q # p => open'[q] = open[q]
    BY <1>0, <1>3, ClosedFacts
  <2>2. FreshRead'
    BY <1>3, <2>1 DEF Suppression, FreshRead
  <2>3. \A d : DoneWith(d)' => DoneWith(d)
    BY <1>3, <2>1 DEF DoneWith, Held, Programs
  <2> QED BY <1>0, <1>3, <2>2, <2>3, OthersSuppress
<1>4. ASSUME NEW a \in Announcements_, WorkerTakes(a) \/ RunnerTakes(a) PROVE Suppression'
  BY <1>2, <1>4 DEF WorkerTakes, RunnerTakes, tables, stream, Programs
<1>5. CASE Ack
  BY <1>3, <1>5 DEF Ack, tables, Programs
<1>6. ASSUME NEW p \in Programs, Fail(p) PROVE Suppression'
  BY <1>3, <1>6 DEF Fail, tables
<1>7. CASE UNCHANGED vars
  <2>1. UNCHANGED <<feed, taken, acked, runs, silent, overtaken, open>>
    BY <1>7 DEF vars, stream, tables
  <2>2. FreshRead' /\ \A d : DoneWith(d)' => DoneWith(d)
    BY <2>1 DEF Suppression, FreshRead, DoneWith, Held
  <2> QED BY <1>0, <2>1, <2>2, OthersSuppress
<1>8. CASE Next
  BY <1>1, <1>4, <1>5, <1>6, <1>8, CollectSuppresses, CommitSuppresses DEF Next, Worker, Programs
<1> QED BY <1>7, <1>8

(* A deleted message ends suppressed, but for the two races it names, for   *)
(* any number of messages, copies and failures.                             *)
THEOREM Deletions == Spec => []DeletedIsSuppressed
<1>1. Init => Suppression
  <2> SUFFICES ASSUME Init PROVE Suppression
    OBVIOUS
  <2>1. FreshRead /\ TakenExists
    BY ClosedFacts DEF Init, FreshRead, TakenExists
  <2>2. \A m \in Messages : ~feed[m].deleted
    BY DEF Init, FeedInit, Unseen
  <2> QED BY <2>1, <2>2 DEF Suppression, Tombstoned
<1>2. IInv /\ Suppression => DeletedIsSuppressed
  <2> SUFFICES ASSUME IInv, Suppression, NEW m \in Messages, feed[m].deleted, m \notin silent,
                      Announced_(m) \subseteq acked
               PROVE  runs[Last(m)] = Suppressed \/ Last(m) \in overtaken
    BY DEF DeletedIsSuppressed, Last
  <2>1. Tombstone(m) \in Announced_(m)
    BY DEF IInv, FeedOK, RowOK, Announced, Announced_, Tombstone
  <2> QED BY <2>1 DEF Suppression, Tombstoned, DoneWith
<1> QED BY <1>1, <1>2, SuppressionStep, Invariance, PTL DEF Spec
===============================================================================
