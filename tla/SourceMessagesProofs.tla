------------------------- MODULE SourceMessagesProofs -------------------------
(***************************************************************************)
(* The writers of the collector's tables, for any number of messages,       *)
(* contents, deletions and history runs: what they commit is always an      *)
(* effect of SourceRows on the row as it is at that moment, although they   *)
(* decide on rows read earlier.  The row locks do it: a row somebody holds  *)
(* does not change, and what a history run holds is an effect on the        *)
(* committed row.                                                           *)
(***************************************************************************)
EXTENDS SourceMessages, TLAPS, FiniteSetTheorems

-------------------------------------------------------------------------------
(* A committed row: what one transaction may do to it keeps its promises.   *)

(* A row as the collector may leave it; a message that was seen has text.  *)
RowOK(r) == /\ r \in Rows
            /\ Announced(r) /\ NoEcho(r)
            /\ Seen(r) => r.text \in Texts

(* A message without a row has nothing to announce.                        *)
LEMMA UnseenOK == RowOK(Unseen)
  BY DEF RowOK, Rows, Unseen, Announced, NoEcho, Seen, Announcing, Announcements, VersionKinds

(* What the fields of a row are.                                           *)
LEMMA RowFields ==
  ASSUME NEW r \in Rows
  PROVE  /\ r.text \in Texts \cup {0} /\ r.deleted \in BOOLEAN
         /\ r.versions \in Seq(Texts) /\ Len(r.versions) \in Nat
         /\ r.events \in SUBSET Announcements
         /\ Seen(r) <=> Len(r.versions) > 0
  BY DEF Rows, Seen

(* A new version keeps the announcements of the older ones and adds one.   *)
LEMMA AdvancedOK ==
  ASSUME NEW r, RowOK(r), NEW t \in Texts, Changes(r, t), NEW kind \in Kinds(r)
  PROVE  RowOK(Advanced(r, t, kind)) /\ Seen(Advanced(r, t, kind))
<1> DEFINE s == Advanced(r, t, kind)
           n == Len(r.versions)
           e == [kind |-> kind, version |-> n + 1]
<1>1. /\ n \in Nat /\ r.versions \in Seq(Texts) /\ r.events \in SUBSET Announcements
      /\ Seen(r) <=> n > 0
  BY RowFields DEF RowOK
<1>2. kind \in VersionKinds /\ (n = 0 => kind = "created")
  BY <1>1 DEF Kinds, VersionKinds
<1>3. /\ s.versions = Append(r.versions, t) /\ s.events = r.events \cup {e}
      /\ s.text = t /\ s.deleted = FALSE
      /\ s = [text |-> t, deleted |-> FALSE, versions |-> s.versions, events |-> s.events]
  BY DEF Advanced
<1>4. /\ s.versions \in Seq(Texts) /\ Len(s.versions) = n + 1
      /\ s.versions[n + 1] = t
      /\ \A v \in 1..n : s.versions[v] = r.versions[v]
  BY <1>1, <1>3
<1>5. s \in Rows
  <2>1. e \in Announcements
    BY <1>1, <1>2 DEF Announcements
  <2> QED BY <1>1, <1>3, <1>4, <2>1 DEF Rows
<1> HIDE DEF s
<1>6. \A x \in r.events : x.version \in Nat \ {0} /\ x.version <= n
  BY <1>1 DEF RowOK, Announced, Announcements
<1>7. Announced(s)
  <2>1. ASSUME NEW v \in 1..n PROVE Announcing(s, v) = Announcing(r, v)
    BY <1>1, <1>3, <2>1 DEF Announcing
  <2>2. Announcing(s, n + 1) = {e}
    BY <1>1, <1>2, <1>3, <1>6 DEF Announcing
  <2>3. \A v \in 1..Len(s.versions) : \E k \in VersionKinds :
           Announcing(s, v) = {[kind |-> k, version |-> v]}
    <3> SUFFICES ASSUME NEW v \in 1..(n + 1)
                 PROVE  \E k \in VersionKinds : Announcing(s, v) = {[kind |-> k, version |-> v]}
      BY <1>4
    <3>1. CASE v = n + 1
      BY <3>1, <2>2, <1>2
    <3>2. CASE v # n + 1
      <4>1. v \in 1..n
        BY <3>2, <1>1
      <4> QED BY <4>1, <2>1 DEF RowOK, Announced
    <3> QED BY <3>1, <3>2
  <2>4. [kind |-> "created", version |-> 1] \in s.events
    <3>1. CASE n = 0
      BY <3>1, <1>2, <1>3
    <3>2. CASE n > 0
      BY <3>2, <1>1, <1>3 DEF RowOK, Announced
    <3> QED BY <3>1, <3>2, <1>1
  <2>5. \A x \in s.events : x.version <= n + 1
    <3> SUFFICES ASSUME NEW x \in s.events PROVE x.version <= n + 1
      OBVIOUS
    <3>1. CASE x = e
      BY <3>1, <1>1
    <3>2. CASE x \in r.events
      BY <3>2, <1>1, <1>6
    <3> QED BY <1>3, <3>1, <3>2
  <2> QED BY <2>3, <2>4, <2>5, <1>3, <1>4 DEF Announced
<1>8. NoEcho(s)
  <2> SUFFICES ASSUME NEW v \in 1..n PROVE s.versions[v] # s.versions[v + 1]
    BY <1>1, <1>4 DEF NoEcho
  <2>1. CASE v = n
    BY <2>1, <1>1, <1>4 DEF Changes, Latest
  <2>2. CASE v < n
    BY <2>2, <1>1, <1>4 DEF RowOK, NoEcho
  <2> QED BY <2>1, <2>2, <1>1
<1>9. Seen(s) /\ s.text \in Texts
  BY <1>1, <1>3, <1>4 DEF Seen
<1> QED BY <1>5, <1>7, <1>8, <1>9 DEF RowOK, s

(* A text written back touches neither versions nor announcements.         *)
LEMMA ObservedOK ==
  ASSUME NEW r, RowOK(r), Seen(r), NEW t \in Texts
  PROVE  RowOK(Observed(r, t)) /\ Seen(Observed(r, t))
<1> DEFINE s == Observed(r, t)
<1>1. s.versions = r.versions /\ s.events = r.events /\ s.text = t /\ s.deleted = FALSE
  BY DEF Observed, RowOK, Rows
<1>2. s \in Rows
  BY DEF Observed, RowOK, Rows
<1> HIDE DEF s
<1>3. \A v : Announcing(s, v) = Announcing(r, v)
  BY <1>1 DEF Announcing
<1> QED BY <1>1, <1>2, <1>3 DEF RowOK, Announced, NoEcho, Seen, s

(* A deletion is announced at the version it hides.                        *)
LEMMA BuriedOK ==
  ASSUME NEW r, RowOK(r), Seen(r)
  PROVE  RowOK(Buried(r)) /\ Seen(Buried(r))
<1> DEFINE s == Buried(r)
           n == Len(r.versions)
           e == [kind |-> "deleted", version |-> n]
<1>1. n \in Nat \ {0} /\ r.events \in SUBSET Announcements
  BY RowFields DEF RowOK
<1>2. s.versions = r.versions /\ s.events = r.events \cup {e} /\ s.text = r.text /\ s.deleted = TRUE
  BY DEF Buried, RowOK, Rows
<1>3. s \in Rows
  <2>1. e \in Announcements
    BY <1>1 DEF Announcements
  <2> QED BY <2>1 DEF Buried, RowOK, Rows
<1> HIDE DEF s
<1>4. \A v : Announcing(s, v) = Announcing(r, v)
  BY <1>2 DEF Announcing, VersionKinds
<1>5. Announced(s)
  BY <1>1, <1>2, <1>4 DEF RowOK, Announced, Seen
<1> QED BY <1>2, <1>3, <1>5 DEF RowOK, NoEcho, Seen, s

(* Every transaction on a row that is in order leaves it in order.         *)
LEMMA EffectOK ==
  ASSUME NEW r, RowOK(r), NEW s \in Effects(r)
  PROVE  RowOK(s) /\ Seen(s)
<1>1. \/ \E t \in {x \in Texts : Changes(r, x)}, kind \in Kinds(r) : s = Advanced(r, t, kind)
      \/ Seen(r) /\ (s = Buried(r) \/ \E t \in Texts : s = Observed(r, t))
  BY DEF Effects
<1> QED BY <1>1, AdvancedOK, ObservedOK, BuriedOK

-------------------------------------------------------------------------------
(* The writers.                                                             *)

Shown_Text == 1..MaxText

(* An update names one message unless it is a deletion, and has a content   *)
(* when it brings one.                                                      *)
Proper(u) ==
  /\ u \in Updates
  /\ u.type # "delete" => u.ms # <<>>
  /\ u.type \in {"new", "content"} => u.text \in Shown_Text

Live == [pc : {"idle", "rebuilt", "raised"}, text : Texts \cup {0}]
Fetched == [m : Messages, text : Shown_Text]
Hist == [pc : {"idle", "apply", "write"}, todo : Seq(Fetched),
         newest : Messages \cup {0}, existed : BOOLEAN, wrote : BOOLEAN]

WorldOK ==
  /\ telegram \in [Messages -> [text : 0..MaxText, gone : BOOLEAN]]
  /\ updates \in Seq(Updates) /\ \A i \in 1..Len(updates) : Proper(updates[i])

(* A handler works on the first update.                                     *)
LiveOK ==
  /\ live \in Live
  /\ live.pc # "idle" => updates # <<>>
  /\ live.pc = "rebuilt" => Current.type \in Rebuilds /\ live.text \in Texts

HistOK == /\ hist \in [Runs -> Hist]
          /\ \A h \in Runs : hist[h].pc = "write" => hist[h].todo # <<>>

RestOK == oper \in {"idle", "write"} /\ cursor \in Messages \cup {0}

Shapes == WorldOK /\ LiveOK /\ HistOK /\ RestOK

(* An effect that leaves the row on its latest version, and one of somebody *)
(* who does not bring the operator's packet in.                             *)
Faithful(r) == {s \in Effects(r) : Canonical(s)}
Careful(r) ==
  {s \in Faithful(r) : Latest(s) = OperatorText => Seen(r) /\ Latest(r) = OperatorText}

(* Committed rows are in order, nobody holds a row of another, and what a   *)
(* history run holds is an effect on the committed row.                     *)
WorkOK ==
  /\ rows \in [Messages -> Rows] /\ \A m \in Messages : RowOK(rows[m]) /\ Canonical(rows[m])
  /\ DOMAIN work = Batch
  /\ \A v, w \in Batch : v # w => DOMAIN work[v] \cap DOMAIN work[w] = {}
  /\ \A w \in Batch : /\ DOMAIN work[w] \subseteq Messages
                      /\ \A m \in DOMAIN work[w] : work[w][m] \in Rows
  /\ \A h \in Runs : \A m \in DOMAIN work[h] : work[h][m] \in Careful(rows[m])

(* The packet is not written over itself.                                   *)
PacketInRow ==
  oper = "write" /\ Seen(rows[OperatorMessage])
     => Latest(rows[OperatorMessage]) # OperatorText

(* What a history run read and is still to use holds.                       *)
Remembers(h) == hist[h].pc = "write" /\ hist[h].existed => Seen(rows[Next1(h).m])

(* The newest message of a history run is the last it applies.              *)
NewestLast(h) ==
  hist[h].pc # "idle" =>
     /\ hist[h].newest \in Messages
     /\ hist[h].todo # <<>> => hist[h].newest = hist[h].todo[Len(hist[h].todo)].m
     /\ hist[h].todo = <<>> => Seen(See(h, hist[h].newest))

IInv == /\ Shapes /\ WorkOK /\ PacketInRow /\ CursorIsStored
        /\ \A h \in Runs : Remembers(h) /\ NewestLast(h)

(* Every row stays or takes one effect.                                     *)
Advance == \A m \in Messages : rows'[m] \in Faithful(rows[m]) \cup {rows[m]}
CarefulAdvance == \A m \in Messages : rows'[m] \in Careful(rows[m]) \cup {rows[m]}

-------------------------------------------------------------------------------
(* The contents Telegram gives and the packet's are all contents.           *)
LEMMA TextFacts ==
  /\ Shown_Text \subseteq Texts /\ OperatorText \in Texts /\ OperatorText \notin Shown_Text
  /\ 0 \notin Texts /\ 1 \in Shown_Text /\ MaxMessage \in Nat /\ MaxText \in Nat
BY SourceAssumption DEF Shown_Text, OperatorText

(* Who keeps locks, and that the operator's program does not.               *)
LEMMA BatchFacts ==
  /\ "live" \in Batch /\ "live" \notin Runs
  /\ \A h \in Runs : h \in Batch /\ h # "live"
BY SourceAssumption DEF Batch

(* An effect leaves a row in order that was.                                *)
LEMMA FaithfulOK ==
  ASSUME NEW r, RowOK(r), NEW s \in Faithful(r)
  PROVE  RowOK(s) /\ Seen(s) /\ Canonical(s) /\ s \in Rows
BY EffectOK DEF Faithful, RowOK

(* upsert, version and event make one effect, and the content is the latest *)
(* version's.                                                               *)
LEMMA ReceivedEffect ==
  ASSUME NEW r, RowOK(r), NEW t \in Shown_Text, NEW kind \in Kinds(r)
  PROVE  Received(r, t, kind) \in Careful(r)
<1> DEFINE s == Received(r, t, kind)
<1>0. t \in Texts /\ t # OperatorText
  BY TextFacts
<1> SUFFICES s \in Effects(r) /\ Latest(s) = t /\ s.text = t
  BY <1>0 DEF Careful, Faithful, Canonical
<1>1. CASE Changes(r, t)
  <2>1. s = Advanced(r, t, kind)
    BY <1>1 DEF Received
  <2>2. Advanced(r, t, kind) \in Effects(r)
    BY <1>0, <1>1 DEF Effects
  <2>3. /\ Advanced(r, t, kind).versions = Append(r.versions, t) /\ r.versions \in Seq(Texts)
        /\ Advanced(r, t, kind).text = t
    BY DEF Advanced, RowOK, Rows
  <2> QED BY <1>0, <2>1, <2>2, <2>3 DEF Latest
<1>2. CASE ~Changes(r, t)
  <2>1. s = Observed(r, t) /\ Seen(r) /\ Latest(r) = t
    BY <1>2 DEF Received, Changes
  <2>2. Observed(r, t) \in Effects(r)
    BY <1>0, <2>1 DEF Effects
  <2>3. Observed(r, t).versions = r.versions /\ Observed(r, t).text = t
    BY DEF Observed, RowOK, Rows
  <2> QED BY <2>1, <2>2, <2>3 DEF Latest
<1> QED BY <1>1, <1>2

(* The kinds a history run announces are possible ones.                     *)
LEMMA KindFacts ==
  ASSUME NEW r
  PROVE  "created" \in Kinds(r) /\ (Seen(r) => "reconciled" \in Kinds(r))
BY DEF Kinds, VersionKinds

(* Nothing makes a message unseen.                                          *)
LEMMA AdvanceSees ==
  ASSUME WorkOK, Advance, NEW m \in Messages, Seen(rows[m])
  PROVE  Seen(rows'[m])
BY FaithfulOK DEF Advance, WorkOK

-------------------------------------------------------------------------------
(* A row written inside a transaction.                                      *)
LEMMA WriteKeeps ==
  ASSUME WorkOK, NEW w \in Batch, NEW m \in Messages, NEW r \in Rows,
         w \in Runs => r \in Careful(rows[m]),
         Write(w, m, r), rows' = rows
  PROVE  WorkOK' /\ \A v \in Batch : v # w => work'[v] = work[v]
<1>1. DOMAIN work' = Batch
  BY DEF Write, WorkOK
<1>2. \A v \in Batch : v # w => work'[v] = work[v]
  BY DEF Write, WorkOK
<1>3. /\ DOMAIN work'[w] = DOMAIN work[w] \cup {m}
      /\ work'[w][m] = r
      /\ \A n \in DOMAIN work[w] : n # m => work'[w][n] = work[w][n]
  BY DEF Write, WorkOK
<1>4. \A v \in Batch \ {w} : m \notin DOMAIN work[v]
  BY DEF Write, Locked
<1>5. ASSUME NEW u \in Batch, NEW v \in Batch, u # v
      PROVE  DOMAIN work'[u] \cap DOMAIN work'[v] = {}
  <2>1. DOMAIN work[u] \cap DOMAIN work[v] = {}
    BY <1>5 DEF WorkOK
  <2>2. CASE u = w
    BY <1>2, <1>3, <1>4, <1>5, <2>1, <2>2
  <2>3. CASE v = w
    BY <1>2, <1>3, <1>4, <1>5, <2>1, <2>3
  <2>4. CASE u # w /\ v # w
    BY <1>2, <2>1, <2>4
  <2> QED BY <2>2, <2>3, <2>4
<1>6. ASSUME NEW v \in Batch
      PROVE  DOMAIN work'[v] \subseteq Messages /\ \A n \in DOMAIN work'[v] : work'[v][n] \in Rows
  <2>1. CASE v = w
    BY <1>3, <2>1 DEF WorkOK
  <2>2. CASE v # w
    BY <1>2, <2>2 DEF WorkOK
  <2> QED BY <2>1, <2>2
<1>7. ASSUME NEW h \in Runs, NEW n \in DOMAIN work'[h] PROVE work'[h][n] \in Careful(rows[n])
  <2>1. CASE h = w
    BY <1>3, <1>7, <2>1 DEF WorkOK
  <2>2. CASE h # w
    BY <1>2, <1>7, <2>2, BatchFacts DEF WorkOK
  <2> QED BY <2>1, <2>2
<1> QED BY <1>1, <1>2, <1>5, <1>6, <1>7 DEF WorkOK

(* The end of a history run's transaction.                                  *)
LEMMA CommitKeeps ==
  ASSUME WorkOK, NEW w \in Runs, Commit(w)
  PROVE  /\ WorkOK' /\ Advance /\ CarefulAdvance
         /\ \A v \in Batch : v # w => work'[v] = work[v]
         /\ \A m \in Messages : rows'[m] = See(w, m)
<1>0. w \in Batch
  BY BatchFacts
<1>1. DOMAIN work' = Batch /\ DOMAIN work'[w] = {} /\ \A v \in Batch : v # w => work'[v] = work[v]
  BY <1>0 DEF Commit, WorkOK, Nothing
<1>2. \A m \in Messages : rows'[m] = See(w, m)
  BY DEF Commit
<1>3. ASSUME NEW m \in Messages
      PROVE  /\ m \in DOMAIN work[w] => rows'[m] = work[w][m]
             /\ m \notin DOMAIN work[w] => rows'[m] = rows[m]
  BY <1>2, <1>3 DEF See
<1>4. CarefulAdvance /\ Advance
  BY <1>3 DEF Advance, CarefulAdvance, Careful, WorkOK
<1>5. \A m \in Messages : RowOK(rows'[m]) /\ Canonical(rows'[m])
  BY <1>4, FaithfulOK DEF WorkOK, Advance
<1>6. rows' \in [Messages -> Rows]
  <2>1. rows' = [m \in Messages |-> See(w, m)]
    BY DEF Commit
  <2>2. \A m \in Messages : rows'[m] \in Rows
    BY <1>5 DEF RowOK
  <2> QED BY <2>1, <2>2
<1>7. ASSUME NEW h \in Runs, NEW n \in DOMAIN work'[h] PROVE work'[h][n] \in Careful(rows'[n])
  <2>0. h \in Batch
    BY BatchFacts
  <2>1. h # w /\ n \in DOMAIN work[h] /\ n \in Messages /\ work'[h][n] = work[h][n]
    BY <1>1, <1>7, <2>0 DEF WorkOK
  <2>2. n \notin DOMAIN work[w]
    BY <1>0, <2>0, <2>1 DEF WorkOK
  <2> QED BY <2>1, <2>2, <1>3 DEF WorkOK
<1>8. ASSUME NEW v \in Batch
      PROVE  /\ DOMAIN work'[v] \subseteq DOMAIN work[v]
             /\ DOMAIN work'[v] \subseteq Messages
             /\ \A n \in DOMAIN work'[v] : work'[v][n] \in Rows
  BY <1>1 DEF WorkOK
<1>9. \A u, v \in Batch : u # v => DOMAIN work'[u] \cap DOMAIN work'[v] = {}
  BY <1>8 DEF WorkOK
<1> QED BY <1>1, <1>2, <1>4, <1>5, <1>6, <1>7, <1>8, <1>9 DEF WorkOK

(* A transaction on one row of a writer that holds none.                    *)
LEMMA CommitRowKeeps ==
  ASSUME WorkOK, NEW m \in Messages, NEW r \in Faithful(rows[m]), "oper" \notin Batch,
         CommitRow("oper", m, r)
  PROVE  WorkOK' /\ Advance /\ work' = work
<1>1. /\ rows' = [rows EXCEPT ![m] = r] /\ work' = work
      /\ \A v \in Batch : m \notin DOMAIN work[v]
  BY DEF CommitRow, Locked
<1>2. rows'[m] = r /\ \A n \in Messages : n # m => rows'[n] = rows[n]
  BY <1>1 DEF WorkOK
<1>3. Advance
  BY <1>2 DEF Advance
<1>4. \A n \in Messages : RowOK(rows'[n]) /\ Canonical(rows'[n])
  BY <1>3, FaithfulOK DEF WorkOK, Advance
<1>5. rows' \in [Messages -> Rows]
  BY <1>1, <1>4 DEF WorkOK, RowOK
<1>6. \A h \in Runs : \A n \in DOMAIN work[h] : rows'[n] = rows[n]
  BY <1>1, <1>2, BatchFacts DEF WorkOK
<1> QED BY <1>1, <1>3, <1>4, <1>5, <1>6 DEF WorkOK

(* A transaction undone.                                                    *)
LEMMA RollbackKeeps ==
  ASSUME WorkOK, NEW w \in Batch, Rollback(w), rows' = rows
  PROVE  WorkOK' /\ \A v \in Batch : v # w => work'[v] = work[v]
<1>1. DOMAIN work' = Batch /\ DOMAIN work'[w] = {} /\ \A v \in Batch : v # w => work'[v] = work[v]
  BY DEF Rollback, WorkOK, Nothing
<1>2. ASSUME NEW v \in Batch
      PROVE  /\ DOMAIN work'[v] \subseteq DOMAIN work[v] /\ DOMAIN work'[v] \subseteq Messages
             /\ \A n \in DOMAIN work'[v] : work'[v][n] \in Rows
  BY <1>1 DEF WorkOK
<1>3. ASSUME NEW h \in Runs PROVE \A n \in DOMAIN work'[h] : work'[h][n] \in Careful(rows[n])
  BY <1>1, BatchFacts DEF WorkOK
<1>4. \A u, v \in Batch : u # v => DOMAIN work'[u] \cap DOMAIN work'[v] = {}
  BY <1>2 DEF WorkOK
<1> QED BY <1>1, <1>2, <1>3, <1>4 DEF WorkOK
-------------------------------------------------------------------------------
(* Records before and after a program starts.                               *)
LEMMA IdleFacts ==
  /\ LiveIdle \in Live /\ LiveIdle.pc = "idle"
  /\ HistIdle \in Hist /\ HistIdle.pc = "idle"
<1>1. <<>> \in Seq(Fetched)
  OBVIOUS
<1> QED BY <1>1 DEF LiveIdle, HistIdle, Live, Hist

(* Orders of a set of messages are sequences of messages.                   *)
LEMMA OrdersAreSequences ==
  ASSUME NEW S \in SUBSET Messages, NEW ms \in Orders(S)
  PROVE  /\ ms \in Seq(Messages) /\ \A i \in DOMAIN ms : ms[i] \in S
         /\ S # {} => ms # <<>>
<1>1. IsFiniteSet(Messages)
  BY FS_Interval, TextFacts DEF Messages
<1>2. IsFiniteSet(S)
  BY <1>1, FS_Subset
<1>3. Cardinality(S) \in Nat /\ (Cardinality(S) = 0 <=> S = {})
  BY <1>2, FS_CardinalityType, FS_EmptySet
<1>4. ms \in [1..Cardinality(S) -> S]
  BY DEF Orders
<1>5. Len(ms) = Cardinality(S) /\ ms \in Seq(S)
  BY <1>3, <1>4
<1> QED BY <1>3, <1>4, <1>5

(* The first of a list, and what is left of it.                             *)
LEMMA HeadTail ==
  ASSUME NEW S, NEW s \in Seq(S), s # <<>>
  PROVE  /\ Head(s) \in S /\ Head(s) = s[1] /\ Tail(s) \in Seq(S)
         /\ \A i \in 1..Len(Tail(s)) : Tail(s)[i] = s[i + 1] /\ i + 1 \in 1..Len(s)
         /\ Tail(s) # <<>> => Tail(s)[Len(Tail(s))] = s[Len(s)]
         /\ Tail(s) = <<>> => Head(s) = s[Len(s)]
<1>1. Len(s) \in Nat \ {0} /\ Head(s) = s[1] /\ s[1] \in S
  OBVIOUS
<1>2. Tail(s) \in Seq(S) /\ Len(Tail(s)) = Len(s) - 1
  BY <1>1
<1>3. \A i \in 1..Len(Tail(s)) : Tail(s)[i] = s[i + 1] /\ i + 1 \in 1..Len(s)
  BY <1>1, <1>2
<1>4. Tail(s) = <<>> <=> Len(s) = 1
  <2>1. ASSUME NEW q \in Seq(S) PROVE q = <<>> <=> Len(q) = 0
    OBVIOUS
  <2>2. Tail(s) = <<>> <=> Len(Tail(s)) = 0
    BY <1>2, <2>1, Zenon
  <2> QED BY <1>1, <1>2, <2>2
<1>5. ASSUME Tail(s) # <<>> PROVE Tail(s)[Len(Tail(s))] = s[Len(s)]
  <2>1. Len(Tail(s)) \in 1..Len(Tail(s)) /\ Len(Tail(s)) + 1 = Len(s)
    BY <1>1, <1>2, <1>4, <1>5
  <2> QED BY <2>1, <1>3
<1>6. Tail(s) = <<>> => Head(s) = s[Len(s)]
  BY <1>1, <1>4
<1>7. Head(s) \in S
  BY <1>1
<1> QED BY <1>1, <1>2, <1>3, <1>5, <1>6, <1>7
-------------------------------------------------------------------------------
(* What Telegram sends is proper.                                           *)
LEMMA SendOK ==
  ASSUME WorldOK, NEW us \in Seq(Updates), \A i \in 1..Len(us) : Proper(us[i]), Send(us)
  PROVE  updates = <<>> /\ updates' \in Seq(Updates) /\ \A i \in 1..Len(updates') : Proper(updates'[i])
  BY DEF Send

LEMMA TelegramShapes ==
  ASSUME WorldOK, Telegram
  PROVE  WorldOK' /\ updates = <<>> /\ UNCHANGED <<rows, work, live, hist, oper, cursor>>
<1>1. ASSUME NEW m \in Messages, Post(m)
      PROVE  WorldOK' /\ updates = <<>> /\ UNCHANGED <<rows, work, live, hist, oper, cursor>>
  <2> DEFINE u == Update("new", <<m>>, 1)
  <2>1. Proper(u) /\ u \in Updates
    BY TextFacts DEF Update, Updates, Proper, Shown_Text
  <2>2. Send(<<u>>) /\ telegram' = [telegram EXCEPT ![m].text = 1]
        /\ UNCHANGED <<rows, work, live, hist, oper, cursor>>
    BY <1>1 DEF Post
  <2>3. telegram' \in [Messages -> [text : 0..MaxText, gone : BOOLEAN]]
    <3>1. 1 \in 0..MaxText
      BY SourceAssumption
    <3> QED BY <2>2, <3>1 DEF WorldOK
  <2> HIDE DEF u
  <2>4. <<u>> \in Seq(Updates) /\ \A i \in 1..Len(<<u>>) : Proper(<<u>>[i])
    BY <2>1
  <2>5. updates = <<>> /\ updates' \in Seq(Updates)
        /\ \A i \in 1..Len(updates') : Proper(updates'[i])
    BY <2>2, <2>4, SendOK
  <2> QED BY <2>2, <2>3, <2>5 DEF WorldOK
<1>2. ASSUME NEW m \in Messages, Edit(m)
      PROVE  WorldOK' /\ updates = <<>> /\ UNCHANGED <<rows, work, live, hist, oper, cursor>>
  <2> DEFINE u == Update("content", <<m>>, telegram[m].text + 1)
             v == Update("edited", <<m>>, 0)
  <2>1. telegram[m].text \in 0..MaxText /\ telegram[m].text < MaxText
    BY <1>2 DEF Edit, WorldOK
  <2>2. Proper(u) /\ u \in Updates /\ Proper(v) /\ v \in Updates
    BY <2>1, TextFacts DEF Update, Updates, Proper, Shown_Text
  <2>3. Send(<<u, v>>) /\ telegram' = [telegram EXCEPT ![m].text = @ + 1]
        /\ UNCHANGED <<rows, work, live, hist, oper, cursor>>
    BY <1>2 DEF Edit
  <2>4. telegram' \in [Messages -> [text : 0..MaxText, gone : BOOLEAN]]
    <3>1. telegram[m].text + 1 \in 0..MaxText
      BY <2>1, SourceAssumption
    <3>2. telegram \in [Messages -> [text : 0..MaxText, gone : BOOLEAN]]
      BY DEF WorldOK
    <3>3. PICK t \in 0..MaxText : t = telegram[m].text + 1
      BY <3>1
    <3>4. telegram' = [telegram EXCEPT ![m].text = t]
      BY <2>3, <3>3
    <3> QED BY <3>2, <3>3, <3>4
  <2> HIDE DEF u, v
  <2>5. <<u, v>> \in Seq(Updates) /\ \A i \in 1..Len(<<u, v>>) : Proper(<<u, v>>[i])
    BY <2>2
  <2>6. updates = <<>> /\ updates' \in Seq(Updates)
        /\ \A i \in 1..Len(updates') : Proper(updates'[i])
    BY <2>3, <2>5, SendOK
  <2> QED BY <2>3, <2>4, <2>6 DEF WorldOK
<1>3. ASSUME NEW S \in SUBSET Messages, Remove(S)
      PROVE  WorldOK' /\ updates = <<>> /\ UNCHANGED <<rows, work, live, hist, oper, cursor>>
  <2>1. PICK ms \in Orders(S) : Send(<<Update("delete", ms, 0)>>)
    BY <1>3 DEF Remove
  <2> DEFINE u == Update("delete", ms, 0)
  <2>2. Proper(u) /\ u \in Updates
    BY OrdersAreSequences, TextFacts DEF Update, Updates, Proper, Shown_Text
  <2>3. /\ telegram' = [m \in Messages |-> [telegram[m] EXCEPT !.gone = @ \/ m \in S]]
        /\ UNCHANGED <<rows, work, live, hist, oper, cursor>>
    BY <1>3 DEF Remove
  <2>4. telegram' \in [Messages -> [text : 0..MaxText, gone : BOOLEAN]]
    <3>1. ASSUME NEW m \in Messages
          PROVE  [telegram[m] EXCEPT !.gone = @ \/ m \in S] \in [text : 0..MaxText, gone : BOOLEAN]
      BY Zenon DEF WorldOK
    <3> QED BY <2>3, <3>1
  <2> HIDE DEF u
  <2>6. <<u>> \in Seq(Updates) /\ \A i \in 1..Len(<<u>>) : Proper(<<u>>[i])
    BY <2>2
  <2>7. Send(<<u>>)
    BY <2>1 DEF u
  <2>8. updates = <<>> /\ updates' \in Seq(Updates)
        /\ \A i \in 1..Len(updates') : Proper(updates'[i])
    BY <2>6, <2>7, SendOK
  <2> QED BY <2>3, <2>4, <2>8 DEF WorldOK
<1> QED BY <1>1, <1>2, <1>3 DEF Telegram

(* A step that leaves one part of the state alone leaves its shape alone.   *)
LEMMA ShapesKept ==
  /\ WorldOK /\ UNCHANGED <<telegram, updates>> => WorldOK'
  /\ LiveOK /\ UNCHANGED <<live, updates>> => LiveOK'
  /\ HistOK /\ UNCHANGED hist => HistOK'
  /\ RestOK /\ UNCHANGED <<oper, cursor>> => RestOK'
BY DEF WorldOK, LiveOK, HistOK, RestOK, Current

(* An update is behind the dispatcher.                                      *)
LEMMA SettleShapes ==
  ASSUME WorldOK, updates # <<>>, Settle, UNCHANGED telegram
  PROVE  WorldOK' /\ LiveOK'
<1>1. updates \in Seq(Updates) /\ updates' = Tail(updates) /\ live' = LiveIdle
  BY DEF Settle, WorldOK
<1>2. /\ Tail(updates) \in Seq(Updates)
      /\ \A i \in 1..Len(Tail(updates)) : Tail(updates)[i] = updates[i + 1] /\ i + 1 \in 1..Len(updates)
  BY <1>1, HeadTail
<1>3. WorldOK'
  BY <1>1, <1>2 DEF WorldOK
<1>4. LiveOK'
  BY <1>1, IdleFacts DEF LiveOK
<1> QED BY <1>3, <1>4

(* The update at hand, and the message it is about.                         *)
LEMMA CurrentFacts ==
  ASSUME WorldOK, updates # <<>>
  PROVE  /\ Proper(Current) /\ Current \in Updates /\ Current.ms \in Seq(Messages)
         /\ Current.ms # <<>> => Target \in Messages
         /\ Current.type # "delete" => Target \in Messages
<1>1. updates \in Seq(Updates) /\ 1 \in 1..Len(updates) /\ Current = updates[1]
  <2>1. updates \in Seq(Updates)
    BY DEF WorldOK
  <2> QED BY <2>1 DEF Current
<1>2. Proper(Current)
  BY <1>1 DEF WorldOK
<1>3. Current \in Updates /\ Current.ms \in Seq(Messages)
  BY <1>2 DEF Proper, Updates
<1>4. Current.ms # <<>> => Target \in Messages
  BY <1>3, HeadTail DEF Target
<1>5. Current.type # "delete" => Current.ms # <<>>
  BY <1>2 DEF Proper
<1> QED BY <1>2, <1>3, <1>4, <1>5

(* The row an update is about can be written back with a content.           *)
LEMMA RowTypes ==
  ASSUME NEW r \in Rows, NEW t \in Texts
  PROVE  Observed(r, t) \in Rows /\ [r EXCEPT !.deleted = TRUE] \in Rows
BY DEF Observed, Rows
-------------------------------------------------------------------------------
(* What a step must do to keep the rest of the invariant.                   *)
LEMMA Keep ==
  ASSUME IInv, WorkOK', Advance
  PROVE  /\ \A h \in Runs : work'[h] = work[h] /\ hist'[h] = hist[h]
                              => Remembers(h)' /\ NewestLast(h)'
         /\ cursor' = cursor => CursorIsStored'
         /\ CarefulAdvance /\ oper' = oper => PacketInRow'
         /\ oper' = "idle" => PacketInRow'
<1>1. ASSUME NEW m \in Messages, Seen(rows[m]) PROVE Seen(rows'[m])
  BY <1>1, AdvanceSees DEF IInv
<1>2. ASSUME NEW h \in Runs, work'[h] = work[h], hist'[h] = hist[h]
      PROVE  Remembers(h)' /\ NewestLast(h)'
  <2>1. Next1(h)' = Next1(h) /\ (hist[h].pc = "write" => Next1(h).m \in Messages)
    <3>1. hist[h] \in Hist /\ (hist[h].pc = "write" => hist[h].todo # <<>>)
      BY DEF IInv, Shapes, HistOK
    <3>2. hist[h].todo \in Seq(Fetched)
      BY <3>1 DEF Hist
    <3>3. hist[h].pc = "write" => Next1(h) \in Fetched
      BY <3>1, <3>2, HeadTail DEF Next1
    <3> QED BY <1>2, <3>3 DEF Next1, Fetched
  <2>2. Remembers(h)'
    BY <1>1, <1>2, <2>1 DEF IInv, Remembers
  <2>3. ASSUME NEW m \in Messages, Seen(See(h, m)) PROVE Seen(See(h, m)')
    <3>1. CASE m \in DOMAIN work[h]
      BY <1>2, <2>3, <3>1 DEF See
    <3>2. CASE m \notin DOMAIN work[h]
      BY <1>1, <1>2, <2>3, <3>2 DEF See
    <3> QED BY <3>1, <3>2
  <2>4. NewestLast(h)'
    BY <1>2, <2>3 DEF IInv, NewestLast, See
  <2> QED BY <2>2, <2>4
<1>3. cursor' = cursor => CursorIsStored'
  BY <1>1 DEF IInv, CursorIsStored, Shapes, RestOK
<1>4. CarefulAdvance /\ oper' = oper => PacketInRow'
  BY SourceAssumption DEF CarefulAdvance, Careful, Faithful, IInv, PacketInRow
<1>5. oper' = "idle" => PacketInRow'
  BY DEF PacketInRow
<1> QED BY <1>2, <1>3, <1>4, <1>5

LEMMA StillRows ==
  ASSUME UNCHANGED rows
  PROVE  Advance /\ CarefulAdvance /\ (WorkOK /\ UNCHANGED work => WorkOK')
  BY DEF Advance, CarefulAdvance, WorkOK

(* A step of the dispatcher or of Telegram: no run moves.                   *)
LEMMA NoRunMoves ==
  ASSUME IInv, WorldOK', LiveOK', WorkOK', UNCHANGED <<rows, hist, oper, cursor>>,
         \A h \in Runs : work'[h] = work[h]
  PROVE  IInv' /\ Advance
<1>1. Advance /\ CarefulAdvance
  BY StillRows
<1>2. \A h \in Runs : Remembers(h)' /\ NewestLast(h)'
  BY <1>1, Keep
<1>3. CursorIsStored' /\ PacketInRow'
  BY <1>1, Keep
<1>4. Shapes'
  BY ShapesKept DEF IInv, Shapes
<1> QED BY <1>1, <1>2, <1>3, <1>4 DEF IInv

(* A handler's first write, and the error after it.                         *)
LEMMA FirstWriteStep ==
  ASSUME IInv, updates # <<>>, NEW m \in Messages, NEW r \in Rows, FirstWrite(m, r)
  PROVE  IInv' /\ Advance
<1>1. /\ Write("live", m, r) /\ live' = [live EXCEPT !.pc = "raised"]
      /\ UNCHANGED <<telegram, updates, rows, hist, oper, cursor>>
  BY DEF FirstWrite
<1>2. WorkOK' /\ \A v \in Batch : v # "live" => work'[v] = work[v]
  BY <1>1, BatchFacts, WriteKeeps DEF IInv
<1>3. \A h \in Runs : work'[h] = work[h]
  BY <1>2, BatchFacts
<1>4. WorldOK'
  BY <1>1, ShapesKept DEF IInv, Shapes
<1>5. live' \in Live /\ live'.pc = "raised"
  BY <1>1 DEF IInv, Shapes, LiveOK, Live
<1>6. LiveOK'
  BY <1>1, <1>5 DEF LiveOK
<1> QED BY <1>1, <1>2, <1>3, <1>4, <1>6, NoRunMoves

(* Every step of the dispatcher keeps the invariant.                        *)
LEMMA LiveStep ==
  ASSUME IInv, Handle \/ Settling \/ LiveCrash
  PROVE  IInv' /\ Advance
<1>0. WorldOK /\ LiveOK /\ WorkOK
  BY DEF IInv, Shapes
<1>1. ASSUME NEW m \in Messages PROVE rows[m] \in Rows /\ RowOK(rows[m])
  BY DEF IInv, WorkOK
<1>2. CASE HandleNew
  <2>1. updates # <<>> /\ Current.type = "new" /\ FirstWrite(Target, Observed(rows[Target], Current.text))
    BY <1>2 DEF HandleNew, Arrived
  <2>2. Target \in Messages /\ Current.text \in Texts
    BY <1>0, <2>1, CurrentFacts, TextFacts DEF Proper
  <2>3. Observed(rows[Target], Current.text) \in Rows
    BY <1>1, <2>2, RowTypes
  <2> QED BY <2>1, <2>2, <2>3, FirstWriteStep
<1>3. CASE HandleEdited \/ HandleContent
  <2>1. /\ live.pc = "rebuilt" /\ Current.type \in {"edited", "content"}
        /\ \/ Current.type = "edited" /\ FirstWrite(Target, Observed(rows[Target], live.text))
           \/ Current.type = "content" /\ FirstWrite(Target, Observed(rows[Target], Current.text))
    BY <1>3 DEF HandleEdited, HandleContent
  <2>2. updates # <<>> /\ live.text \in Texts
    BY <1>0, <2>1 DEF LiveOK
  <2>3. Target \in Messages /\ (Current.type = "content" => Current.text \in Texts)
    BY <1>0, <2>1, <2>2, CurrentFacts, TextFacts DEF Proper
  <2>4. PICK t \in Texts : FirstWrite(Target, Observed(rows[Target], t))
    BY <2>1, <2>2, <2>3
  <2>5. Observed(rows[Target], t) \in Rows
    BY <1>1, <2>3, RowTypes
  <2> QED BY <2>2, <2>3, <2>4, <2>5, FirstWriteStep
<1>4. CASE DeleteKnown
  <2>1. /\ updates # <<>> /\ Current.ms # <<>>
        /\ FirstWrite(Target, [rows[Target] EXCEPT !.deleted = TRUE])
    BY <1>4 DEF DeleteKnown, Arrived
  <2>2. Target \in Messages /\ OperatorText \in Texts
    BY <1>0, <2>1, CurrentFacts, TextFacts
  <2>3. [rows[Target] EXCEPT !.deleted = TRUE] \in Rows
    BY <1>1, <2>2, RowTypes
  <2> QED BY <2>1, <2>2, <2>3, FirstWriteStep
<1>5. CASE ReadCurrent
  <2>1. /\ updates # <<>> /\ Current.type \in Rebuilds /\ Seen(rows[Target])
        /\ live' = [live EXCEPT !.pc = "rebuilt", !.text = rows[Target].text]
        /\ UNCHANGED <<telegram, updates, rows, work, hist, oper, cursor>>
    BY <1>5 DEF ReadCurrent, Arrived, Unusable
  <2>2. Target \in Messages
    BY <1>0, <2>1, CurrentFacts DEF Rebuilds
  <2>3. PICK t \in Texts : t = rows[Target].text
    BY <1>1, <2>1, <2>2 DEF RowOK
  <2>4. live' = [live EXCEPT !.pc = "rebuilt", !.text = t]
    BY <2>1, <2>3
  <2>5. live' \in Live /\ live'.pc = "rebuilt" /\ live'.text = t
    BY <1>0, <2>4 DEF LiveOK, Live
  <2>6. LiveOK'
    BY <2>1, <2>3, <2>5 DEF LiveOK, Current
  <2> QED BY <1>0, <2>1, <2>6, ShapesKept, StillRows, NoRunMoves
<1>6. CASE ReadUnusable
  <2>1. /\ updates # <<>> /\ live' = [live EXCEPT !.pc = "raised"]
        /\ UNCHANGED <<telegram, updates, rows, work, hist, oper, cursor>>
    BY <1>6 DEF ReadUnusable, Arrived
  <2>2. live' \in Live /\ live'.pc = "raised"
    BY <1>0, <2>1 DEF LiveOK, Live
  <2>3. LiveOK'
    BY <2>1, <2>2 DEF LiveOK
  <2> QED BY <1>0, <2>1, <2>3, ShapesKept, StillRows, NoRunMoves
<1>7. CASE DeleteUnknown
  <2>1. /\ updates # <<>> /\ Current.type = "delete" /\ Current.ms # <<>> /\ live.pc = "idle"
        /\ updates' = [updates EXCEPT ![1].ms = Tail(@)]
        /\ UNCHANGED <<telegram, rows, work, live, hist, oper, cursor>>
    BY <1>7 DEF DeleteUnknown, Arrived
  <2>2. updates \in Seq(Updates) /\ Current = updates[1] /\ 1 \in 1..Len(updates)
    <3>1. updates \in Seq(Updates)
      BY <1>0 DEF WorldOK
    <3> QED BY <2>1, <3>1 DEF Current
  <2>3. Current \in Updates /\ Tail(Current.ms) \in Seq(Messages)
    BY <1>0, <2>1, CurrentFacts, HeadTail
  <2>4. PICK u : u = [Current EXCEPT !.ms = Tail(Current.ms)]
    OBVIOUS
  <2>5. Proper(u) /\ u \in Updates
    BY <2>1, <2>3, <2>4 DEF Proper, Updates
  <2>6. updates' = [updates EXCEPT ![1] = u]
    BY <2>1, <2>2, <2>4
  <2>7. updates' \in Seq(Updates) /\ Len(updates') = Len(updates)
    BY <2>2, <2>5, <2>6
  <2>8. \A i \in 1..Len(updates') : updates'[i] = u \/ updates'[i] = updates[i]
    BY <2>2, <2>6, <2>7
  <2>9. WorldOK'
    BY <1>0, <2>1, <2>5, <2>7, <2>8 DEF WorldOK
  <2>10. LiveOK'
    BY <1>0, <2>1 DEF LiveOK
  <2> QED BY <1>0, <2>1, <2>9, <2>10, StillRows, NoRunMoves
<1>8. CASE DeleteDone
  <2>1. updates # <<>> /\ Settle /\ UNCHANGED <<telegram, rows, work, hist, oper, cursor>>
    BY <1>8 DEF DeleteDone, Arrived
  <2> QED BY <1>0, <2>1, SettleShapes, StillRows, NoRunMoves
<1>9. CASE FailUpdate \/ LiveCrash
  <2>1. /\ updates # <<>> /\ Settle /\ Rollback("live")
        /\ UNCHANGED <<telegram, rows, hist, oper, cursor>>
    BY <1>0, <1>9 DEF FailUpdate, LiveCrash, LiveOK
  <2>2. WorkOK' /\ \A v \in Batch : v # "live" => work'[v] = work[v]
    BY <1>0, <2>1, BatchFacts, RollbackKeeps
  <2>3. \A h \in Runs : work'[h] = work[h]
    BY <2>2, BatchFacts
  <2> QED BY <1>0, <2>1, <2>2, <2>3, SettleShapes, NoRunMoves
<1> QED BY <1>2, <1>3, <1>4, <1>5, <1>6, <1>7, <1>8, <1>9 DEF Handle, Settling
-------------------------------------------------------------------------------
(* A step of one history run: the others stay where they are.               *)
LEMMA OneRun ==
  ASSUME IInv, WorkOK', Advance, NEW h \in Runs, NEW x \in Hist,
         x.pc = "write" => x.todo # <<>>,
         hist' = [hist EXCEPT ![h] = x],
         \A v \in Batch : v # h => work'[v] = work[v],
         Remembers(h)', NewestLast(h)', CursorIsStored', CarefulAdvance,
         cursor' \in Messages \cup {0}, UNCHANGED <<telegram, updates, live, oper>>
  PROVE  IInv'
<1>1. hist \in [Runs -> Hist] /\ \A g \in Runs : hist[g].pc = "write" => hist[g].todo # <<>>
  BY DEF IInv, Shapes, HistOK
<1>2. HistOK'
  BY <1>1 DEF HistOK
<1>3. ASSUME NEW g \in Runs PROVE Remembers(g)' /\ NewestLast(g)'
  <2>1. CASE g # h
    <3>1. work'[g] = work[g] /\ hist'[g] = hist[g]
      BY <1>1, <2>1, BatchFacts
    <3> QED BY <3>1, Keep
  <2> QED BY <2>1
<1>4. RestOK'
  BY DEF IInv, Shapes, RestOK
<1>5. Shapes'
  BY <1>2, <1>4, ShapesKept DEF IInv, Shapes
<1>6. PacketInRow'
  BY Keep
<1> QED BY <1>3, <1>5, <1>6 DEF IInv

(* What a run has left to do, in the shape it has.                          *)
LEMMA RunFacts ==
  ASSUME IInv, NEW h \in Runs
  PROVE  /\ hist[h] \in Hist /\ hist[h].todo \in Seq(Fetched) /\ h \in Batch
         /\ hist[h].existed \in BOOLEAN /\ hist[h].wrote \in BOOLEAN
         /\ hist[h].pc = "write" => hist[h].todo # <<>>
         /\ hist[h].todo # <<>> =>
               /\ Next1(h) \in Fetched /\ Next1(h).m \in Messages
               /\ Next1(h).text \in Shown_Text /\ Tail(hist[h].todo) \in Seq(Fetched)
<1>1. hist[h] \in Hist /\ (hist[h].pc = "write" => hist[h].todo # <<>>) /\ h \in Batch
  BY BatchFacts DEF IInv, Shapes, HistOK
<1>2. /\ hist[h].todo \in Seq(Fetched)
      /\ hist[h].existed \in BOOLEAN /\ hist[h].wrote \in BOOLEAN
  BY <1>1 DEF Hist
<1>3. ASSUME hist[h].todo # <<>>
      PROVE  Next1(h) \in Fetched /\ Tail(hist[h].todo) \in Seq(Fetched)
  BY <1>2, <1>3, HeadTail DEF Next1
<1> QED BY <1>1, <1>2, <1>3 DEF Fetched

(* After one more message the newest is still the last to come, or it is    *)
(* in the table or in the transaction.                                      *)
LEMMA NewestStays ==
  ASSUME IInv, NEW h \in Runs, hist[h].pc # "idle", hist[h].todo # <<>>,
         hist'[h].todo = Tail(hist[h].todo), hist'[h].newest = hist[h].newest,
         NEW m \in Messages, m = Next1(h).m, Seen(See(h, m)')
  PROVE  NewestLast(h)'
<1>1. hist[h].newest \in Messages /\ hist[h].newest = hist[h].todo[Len(hist[h].todo)].m
  BY DEF IInv, NewestLast
<1>2. hist[h].todo \in Seq(Fetched)
  BY RunFacts
<1>3. Tail(hist[h].todo) # <<>> => hist[h].newest = Tail(hist[h].todo)[Len(Tail(hist[h].todo))].m
  BY <1>1, <1>2, HeadTail
<1>4. Tail(hist[h].todo) = <<>> => hist[h].newest = m
  BY <1>1, <1>2, HeadTail DEF Next1
<1> QED BY <1>1, <1>3, <1>4 DEF NewestLast, See

LEMMA FetchStep ==
  ASSUME IInv, NEW h \in Runs, Fetch(h)
  PROVE  IInv' /\ Advance
<1>1. PICK ms \in Orders(Newest) :
         hist' = [hist EXCEPT ![h] = [HistIdle EXCEPT
                     !.pc = "apply", !.todo = History(ms), !.newest = ms[Len(ms)]]]
  BY DEF Fetch
<1>2. Newest # {} /\ UNCHANGED <<telegram, updates, rows, work, live, oper, cursor>>
  BY DEF Fetch
<1>3. Newest \in SUBSET Messages /\ \A m \in Newest : telegram[m].text \in Shown_Text
  BY DEF Newest, Shown, IInv, Shapes, WorldOK, Shown_Text
<1>4. ms \in Seq(Messages) /\ ms # <<>> /\ \A i \in DOMAIN ms : ms[i] \in Newest
  BY <1>2, <1>3, OrdersAreSequences
<1> DEFINE todo == History(ms)
<1>5. DOMAIN ms = 1..Len(ms) /\ Len(ms) \in Nat \ {0} /\ ms[Len(ms)] \in Messages
  BY <1>4
<1>6. \A i \in DOMAIN ms : [m |-> ms[i], text |-> telegram[ms[i]].text] \in Fetched
  BY <1>3, <1>4 DEF Fetched
<1>7. todo \in Seq(Fetched) /\ Len(todo) = Len(ms) /\ todo[Len(ms)].m = ms[Len(ms)] /\ todo # <<>>
  BY <1>5, <1>6 DEF History
<1> HIDE DEF todo
<1>8. PICK n \in Messages : n = ms[Len(ms)]
  BY <1>5
<1>9. PICK x : x = [HistIdle EXCEPT !.pc = "apply", !.todo = todo, !.newest = n]
  OBVIOUS
<1>10. hist' = [hist EXCEPT ![h] = x]
  BY <1>1, <1>8, <1>9 DEF todo
<1>11. x \in Hist /\ x.pc = "apply" /\ x.todo = todo /\ x.newest = n
  <2>1. PICK i \in Hist : i = HistIdle
    BY IdleFacts
  <2>2. x = [i EXCEPT !.pc = "apply", !.todo = todo, !.newest = n]
    BY <1>9, <2>1
  <2> QED BY <1>7, <2>1, <2>2 DEF Hist
<1>12. hist'[h] = x
  BY <1>10 DEF IInv, Shapes, HistOK
<1>13. Remembers(h)' /\ NewestLast(h)'
  BY <1>7, <1>8, <1>11, <1>12 DEF Remembers, NewestLast
<1>14. WorkOK' /\ Advance /\ CarefulAdvance /\ cursor' \in Messages \cup {0}
  BY <1>2, StillRows DEF IInv, Shapes, RestOK
<1>15. CursorIsStored'
  BY <1>2, <1>14, Keep
<1> QED BY <1>2, <1>10, <1>11, <1>13, <1>14, <1>15, OneRun

LEMMA ReadStep ==
  ASSUME IInv, NEW h \in Runs, HistRead(h)
  PROVE  IInv' /\ Advance
<1>1. /\ hist[h].pc = "apply" /\ hist[h].todo # <<>>
      /\ UNCHANGED <<telegram, updates, rows, work, live, oper, cursor>>
  BY DEF HistRead
<1>2. PICK m \in Messages, t \in Shown_Text : m = Next1(h).m /\ t = Next1(h).text
  BY <1>1, RunFacts
<1>3. WorkOK' /\ Advance /\ CarefulAdvance /\ cursor' \in Messages \cup {0}
  BY <1>1, StillRows DEF IInv, Shapes, RestOK
<1>4. CursorIsStored'
  BY <1>1, <1>3, Keep
<1>5. PICK n : n = Tail(hist[h].todo)
  OBVIOUS
<1>6. PICK seen \in BOOLEAN : seen = Seen(rows[m])
  BY DEF Seen
<1>7. PICK x : x = IF Changes(rows[m], t)
                   THEN [hist[h] EXCEPT !.pc = "write", !.existed = seen]
                   ELSE [hist[h] EXCEPT !.todo = n]
  OBVIOUS
<1>8. hist' = [hist EXCEPT ![h] = x]
  BY <1>2, <1>5, <1>6, <1>7 DEF HistRead
<1>9. hist'[h] = x
  BY <1>8 DEF IInv, Shapes, HistOK
<1>10. CASE Changes(rows[m], t)
  <2>1. x \in Hist /\ x.pc = "write" /\ x.todo = hist[h].todo /\ x.newest = hist[h].newest
        /\ x.existed = seen
    BY <1>7, <1>10, RunFacts DEF Hist
  <2>2. Next1(h)' = Next1(h)
    BY <1>9, <2>1 DEF Next1
  <2>3. Remembers(h)'
    BY <1>1, <1>2, <1>6, <1>9, <2>1, <2>2 DEF Remembers
  <2>4. NewestLast(h)'
    BY <1>1, <1>9, <2>1 DEF IInv, NewestLast, See
  <2> QED BY <1>1, <1>3, <1>4, <1>8, <2>1, <2>3, <2>4, OneRun
<1>11. CASE ~Changes(rows[m], t)
  <2>1. x \in Hist /\ x.pc = "apply" /\ x.todo = n /\ x.newest = hist[h].newest
    BY <1>1, <1>5, <1>7, <1>11, RunFacts DEF Hist
  <2>2. Remembers(h)'
    BY <1>9, <2>1 DEF Remembers
  <2>3. Seen(rows[m])
    BY <1>11 DEF Changes
  <2>4. Seen(See(h, m))
    <3>1. CASE m \in DOMAIN work[h]
      BY <3>1, FaithfulOK DEF IInv, WorkOK, Careful, See
    <3>2. CASE m \notin DOMAIN work[h]
      BY <2>3, <3>2 DEF See
    <3> QED BY <3>1, <3>2
  <2>5. Seen(See(h, m)')
    BY <1>1, <2>4 DEF See
  <2>6. NewestLast(h)'
    BY <1>1, <1>2, <1>5, <1>9, <2>1, <2>5, NewestStays
  <2> QED BY <1>1, <1>3, <1>4, <1>8, <2>1, <2>2, <2>6, OneRun
<1> QED BY <1>3, <1>10, <1>11

(* What was read of the row before the lock still holds under it.           *)
LEMMA WriteStep ==
  ASSUME IInv, NEW h \in Runs, HistWrite(h)
  PROVE  IInv' /\ Advance
<1>1. /\ hist[h].pc = "write" /\ hist[h].todo # <<>> /\ h \in Batch
      /\ UNCHANGED <<telegram, updates, rows, live, oper, cursor>>
  BY RunFacts DEF HistWrite
<1>2. PICK m \in Messages, t \in Shown_Text : m = Next1(h).m /\ t = Next1(h).text
  BY <1>1, RunFacts
<1>3. PICK kind : kind = HistKind(h)
  OBVIOUS
<1>4. RowOK(rows[m]) /\ kind \in Kinds(rows[m])
  BY <1>1, <1>2, <1>3, KindFacts DEF IInv, WorkOK, Remembers, HistKind
<1>5. PICK r \in Careful(rows[m]) : r = Received(rows[m], t, kind)
  BY <1>4, ReceivedEffect
<1>6. Write(h, m, r)
  BY <1>2, <1>3, <1>5 DEF HistWrite
<1>7. r \in Rows /\ Seen(r)
  BY <1>4, FaithfulOK DEF Careful
<1>8. WorkOK' /\ \A v \in Batch : v # h => work'[v] = work[v]
  BY <1>1, <1>6, <1>7, WriteKeeps DEF IInv
<1>9. Advance /\ CarefulAdvance /\ cursor' \in Messages \cup {0}
  BY <1>1, StillRows DEF IInv, Shapes, RestOK
<1>10. CursorIsStored'
  BY <1>1, <1>8, <1>9, Keep
<1>11. PICK n \in Seq(Fetched) : n = Tail(hist[h].todo)
  BY <1>1, RunFacts
<1>12. PICK wrote \in BOOLEAN : wrote = (hist[h].wrote \/ Changes(rows[m], t))
  OBVIOUS
<1>13. PICK x : x = [hist[h] EXCEPT !.pc = "apply", !.todo = n, !.existed = FALSE, !.wrote = wrote]
  OBVIOUS
<1>14. hist' = [hist EXCEPT ![h] = x]
  BY <1>2, <1>11, <1>12, <1>13 DEF HistWrite
<1>15. hist'[h] = x
  BY <1>14 DEF IInv, Shapes, HistOK
<1>16. x \in Hist /\ x.pc = "apply" /\ x.todo = n /\ x.newest = hist[h].newest
  BY <1>13, RunFacts DEF Hist
<1>17. Remembers(h)'
  BY <1>15, <1>16 DEF Remembers
<1>18. m \in DOMAIN work'[h] /\ work'[h][m] = r
  BY <1>1, <1>6 DEF Write, IInv, WorkOK
<1>19. Seen(See(h, m)')
  BY <1>7, <1>18 DEF See
<1>20. NewestLast(h)'
  BY <1>1, <1>2, <1>11, <1>15, <1>16, <1>19, NewestStays
<1> QED BY <1>1, <1>8, <1>9, <1>10, <1>14, <1>16, <1>17, <1>20, OneRun

(* The cursor moves with the commit of the run that stored the message.     *)
LEMMA CommitStep ==
  ASSUME IInv, NEW h \in Runs, HistCommit(h)
  PROVE  IInv' /\ Advance
<1>1. /\ Commit(h) /\ hist' = [hist EXCEPT ![h] = HistIdle]
      /\ hist[h].todo = <<>> /\ hist[h].pc # "idle"
      /\ cursor' = cursor \/ cursor' = hist[h].newest
      /\ UNCHANGED <<telegram, updates, live, oper>>
  BY DEF HistCommit
<1>2. /\ WorkOK' /\ Advance /\ CarefulAdvance
      /\ \A v \in Batch : v # h => work'[v] = work[v]
      /\ \A m \in Messages : rows'[m] = See(h, m)
  BY <1>1, CommitKeeps DEF IInv
<1>3. hist[h].newest \in Messages /\ Seen(See(h, hist[h].newest))
  BY <1>1 DEF IInv, NewestLast
<1>4. Seen(rows'[hist[h].newest])
  BY <1>2, <1>3
<1>5. CursorIsStored'
  <2>1. CASE cursor' = cursor
    BY <1>2, <2>1, Keep
  <2>2. CASE cursor' = hist[h].newest
    BY <1>4, <2>2 DEF CursorIsStored
  <2> QED BY <1>1, <2>1, <2>2
<1>6. cursor' \in Messages \cup {0}
  BY <1>1, <1>3 DEF IInv, Shapes, RestOK
<1>7. hist'[h].pc = "idle"
  BY <1>1, IdleFacts DEF IInv, Shapes, HistOK
<1>8. Remembers(h)' /\ NewestLast(h)'
  BY <1>7 DEF Remembers, NewestLast
<1> QED BY <1>1, <1>2, <1>5, <1>6, <1>8, IdleFacts, OneRun

LEMMA FailStep ==
  ASSUME IInv, NEW h \in Runs, HistFail(h)
  PROVE  IInv' /\ Advance
<1>1. /\ Rollback(h) /\ hist' = [hist EXCEPT ![h] = HistIdle] /\ h \in Batch
      /\ UNCHANGED <<telegram, updates, rows, live, oper, cursor>>
  BY RunFacts DEF HistFail
<1>2. WorkOK' /\ \A v \in Batch : v # h => work'[v] = work[v]
  BY <1>1, RollbackKeeps DEF IInv
<1>3. Advance /\ CarefulAdvance /\ cursor' \in Messages \cup {0}
  BY <1>1, StillRows DEF IInv, Shapes, RestOK
<1>4. CursorIsStored'
  BY <1>1, <1>2, <1>3, Keep
<1>5. hist'[h].pc = "idle"
  BY <1>1, IdleFacts DEF IInv, Shapes, HistOK
<1>6. Remembers(h)' /\ NewestLast(h)'
  BY <1>5 DEF Remembers, NewestLast
<1> QED BY <1>1, <1>2, <1>3, <1>4, <1>6, IdleFacts, OneRun
-------------------------------------------------------------------------------
(* The packet is a new version: it is not what the row has.                 *)
LEMMA OperWrites ==
  ASSUME IInv, OperWrite
  PROVE  /\ \E r \in Faithful(rows[OperatorMessage]) : CommitRow("oper", OperatorMessage, r)
         /\ oper' = "idle" /\ UNCHANGED <<telegram, updates, live, hist, cursor>>
<1> DEFINE r == rows[OperatorMessage]
           s == Advanced(r, OperatorText, "created")
<1>1. oper = "write" /\ oper' = "idle" /\ UNCHANGED <<telegram, updates, live, hist, cursor>>
      /\ CommitRow("oper", OperatorMessage, s)
  BY DEF OperWrite
<1>2. Changes(r, OperatorText)
  BY <1>1 DEF Changes, IInv, PacketInRow
<1>3. s \in Effects(r)
  BY <1>2, TextFacts, KindFacts DEF Effects
<1>4. r.versions \in Seq(Texts)
  BY SourceAssumption DEF IInv, WorkOK, RowOK, Rows
<1>5. s.versions = Append(r.versions, OperatorText) /\ s.text = OperatorText
  BY DEF Advanced
<1>6. Canonical(s)
  BY <1>4, <1>5 DEF Canonical, Latest
<1> HIDE DEF s
<1> QED BY <1>1, <1>3, <1>6 DEF Faithful

(* Telegram and the operator's materializer keep the invariant.             *)
LEMMA OtherStep ==
  ASSUME IInv, Telegram \/ OperRead \/ OperWrite \/ OperFail \/ UNCHANGED vars
  PROVE  IInv' /\ Advance
<1>1. CASE Telegram
  <2>1. WorldOK' /\ updates = <<>> /\ UNCHANGED <<rows, work, live, hist, oper, cursor>>
    BY <1>1, TelegramShapes DEF IInv, Shapes
  <2>2. LiveOK'
    BY <2>1 DEF IInv, Shapes, LiveOK
  <2> QED BY <2>1, <2>2, StillRows, NoRunMoves DEF IInv
<1>2. CASE OperRead \/ OperFail
  <2>1. /\ UNCHANGED <<telegram, updates, rows, work, live, hist, cursor>>
        /\ oper' \in {"idle", "write"}
        /\ oper' = "idle" \/ ~Seen(rows[OperatorMessage])
    BY <1>2 DEF OperRead, OperFail
  <2>2. Shapes'
    BY <2>1, ShapesKept DEF IInv, Shapes, RestOK
  <2>3. PacketInRow'
    BY <2>1 DEF PacketInRow
  <2>4. WorkOK' /\ Advance
    BY <2>1, StillRows DEF IInv
  <2> QED BY <2>1, <2>2, <2>3, <2>4, Keep DEF IInv
<1>3. CASE OperWrite
  <2>1. /\ \E r \in Faithful(rows[OperatorMessage]) : CommitRow("oper", OperatorMessage, r)
        /\ oper' = "idle" /\ UNCHANGED <<telegram, updates, live, hist, cursor>>
    BY <1>3, OperWrites
  <2>2. OperatorMessage \in Messages /\ "oper" \notin Batch
    BY SourceAssumption DEF Batch
  <2>3. WorkOK' /\ Advance /\ work' = work
    BY <2>1, <2>2, CommitRowKeeps DEF IInv
  <2>4. Shapes'
    BY <2>1, ShapesKept DEF IInv, Shapes, RestOK
  <2> QED BY <2>1, <2>3, <2>4, Keep DEF IInv
<1>4. CASE UNCHANGED vars
  <2>1. UNCHANGED <<telegram, updates, rows, work, live, hist, oper, cursor>>
    BY <1>4 DEF vars
  <2> QED BY <2>1, ShapesKept, StillRows, NoRunMoves DEF IInv, Shapes
<1> QED BY <1>1, <1>2, <1>3, <1>4

LEMMA IInvStep == IInv /\ [Next]_vars => IInv' /\ Advance
  BY LiveStep, FetchStep, ReadStep, WriteStep, CommitStep, FailStep, OtherStep DEF Next, Apply

LEMMA IInvInit == Init => IInv
<1> SUFFICES ASSUME Init PROVE IInv
  OBVIOUS
<1>1. WorldOK
  BY SourceAssumption DEF Init, WorldOK
<1>2. LiveOK /\ HistOK /\ RestOK
  BY IdleFacts DEF Init, LiveOK, HistOK, RestOK
<1>3. Canonical(Unseen)
  BY DEF Canonical, Unseen, Seen
<1>4. WorkOK
  BY <1>3, UnseenOK, BatchFacts DEF Init, WorkOK, Nothing, RowOK
<1>5. PacketInRow /\ CursorIsStored /\ \A h \in Runs : Remembers(h) /\ NewestLast(h)
  BY IdleFacts DEF Init, PacketInRow, Remembers, NewestLast, CursorIsStored
<1> QED BY <1>1, <1>2, <1>4, <1>5 DEF IInv, Shapes
-------------------------------------------------------------------------------
LEMMA Invariance == Spec => []IInv
<1>1. IInv /\ [Next]_vars => IInv'
  BY IInvStep
<1> QED BY <1>1, IInvInit, PTL DEF Spec

(* The variables keep their shape.                                          *)
THEOREM TypeCorrect == Spec => []TypeOK
<1>1. IInv => TypeOK
  <2> SUFFICES ASSUME IInv PROVE TypeOK
    OBVIOUS
  <2>1. /\ DOMAIN work = Batch
        /\ \A w \in Batch : DOMAIN work[w] \subseteq Messages
                            /\ \A m \in DOMAIN work[w] : work[w][m] \in Rows
        /\ rows \in [Messages -> Rows]
    BY DEF IInv, WorkOK
  <2>2. live \in Live /\ hist \in [Runs -> Hist]
    BY DEF IInv, Shapes, LiveOK, HistOK
  <2> QED
    BY <2>1, <2>2
    DEF TypeOK, IInv, Shapes, WorldOK, RestOK, Live, Hist, Fetched, Shown_Text
<1> QED BY <1>1, Invariance, PTL

(* Whatever the writers read before they held the lock, every version they  *)
(* commit is announced once and under its own number, no two in a row are   *)
(* equal, and the row shows the latest: with any number of history runs,    *)
(* each with its own TDLib directory.                                       *)
THEOREM EveryVersionAnnounced == Spec => []VersionsAnnounced
<1>1. IInv => VersionsAnnounced
  BY DEF IInv, WorkOK, RowOK, VersionsAnnounced
<1> QED BY <1>1, Invariance, PTL

(* The channel's cursor names a stored message: it moves with the commit of *)
(* the run that stored it.                                                  *)
THEOREM CursorStored == Spec => []CursorIsStored
<1>1. IInv => CursorIsStored
  BY DEF IInv
<1> QED BY <1>1, Invariance, PTL

LEMMA SameEffects ==
  /\ Feed!Rows = Rows /\ Feed!Unseen = Unseen
  /\ \A r : Feed!Effects(r) = Effects(r)
<1>1. Feed!Rows = Rows /\ Feed!Unseen = Unseen
  BY DEF Feed!Rows, Rows, Feed!Announcements, Announcements, Feed!VersionKinds, VersionKinds,
         Feed!Unseen, Unseen
<1>2. ASSUME NEW r PROVE Feed!Effects(r) = Effects(r)
  BY DEF Feed!Effects, Effects, Feed!Advanced, Advanced, Feed!Observed, Observed, Feed!Buried,
         Buried, Feed!Changes, Changes, Feed!Seen, Seen, Feed!Latest, Latest, Feed!Kinds, Kinds,
         Feed!VersionKinds, VersionKinds
<1> QED BY <1>1, <1>2

(* The tables as their readers see them are SourceFeed: the row locks and   *)
(* the decisions taken under them hide the writers from each other.         *)
THEOREM ImplementsSourceFeed == Spec => ImplementsFeed
<1>1. Init => Feed!FeedInit
  BY SameEffects DEF Init, Feed!FeedInit
<1>2. IInv /\ [Next]_vars => [Feed!FeedNext]_rows
  <2> SUFFICES ASSUME IInv, [Next]_vars PROVE Feed!FeedNext
    OBVIOUS
  <2>1. IInv' /\ Advance
    BY IInvStep
  <2>2. rows' \in [Messages -> Rows]
    BY <2>1 DEF IInv, WorkOK
  <2>3. \A m \in Messages : rows'[m] \in Effects(rows[m]) \cup {rows[m]}
    BY <2>1 DEF Advance, Faithful
  <2> QED BY <2>2, <2>3, SameEffects DEF Feed!FeedNext
<1> QED BY <1>1, <1>2, Invariance, PTL DEF Spec, ImplementsFeed, Feed!FeedSpec
===============================================================================
