--------------------------- MODULE StreamWorkerProofs ---------------------------
(***************************************************************************)
(* The stream and its worker, for any jobs, batch size, trimming and number *)
(* of stops, and each of the three policies.                                *)
(***************************************************************************)
EXTENDS StreamWorker, FiniteSetTheorems, TLAPS

Handled(i) == i \in committed \/ log[i] \in Malformed

(* The group's cursor is inside the stream; what is pending or acknowledged *)
(* was delivered; what was trimmed beyond the cursor is lost.               *)
Cursor ==
  /\ last <= Len(log) /\ first <= Len(log) + 1
  /\ pel \cup acked \subseteq 1..last
  /\ lost \subseteq 1..Len(log)
  /\ \A i \in 1..Len(log) : last < i /\ i < first => i \in lost

(* What is acknowledged was handled before, and the job at hand too once    *)
(* its handler has returned.                                                *)
HandledFirst ==
  /\ \A i \in acked : Handled(i)
  /\ at = "ack" => \A i \in Entries : Current(i) => Handled(i)

(* Nothing before the cursor is forgotten.                                  *)
Accounted == \A i \in 1..last : i \in pel \cup lost \cup acked

(* What committed was delivered, and nothing older waits in the batch,      *)
(* unless pending entries are read again.                                   *)
InOrder ==
  \A j \in committed : j <= last /\ (policy # "decide" => \A i \in batch : j <= i)

(* Then what is pending was read with the newest entry that was delivered.  *)
ReadTogether == policy = "decide" => \A i \in pel : last - i < BatchSize

(* Fields are missing only where pending entries are read again.            *)
BlankAgain == policy # "decide" => blank = {}

IInv == TypeOK /\ Cursor /\ HandledFirst /\ Accounted /\ InOrder /\ ReadTogether /\ BlankAgain

-------------------------------------------------------------------------------
(* The oldest n of a set have no gap: what is older than one of them and in *)
(* the set is one of them.                                                  *)
LEMMA OldestHasNoGap ==
  ASSUME NEW m \in Nat, NEW S \in SUBSET (1..m), NEW n \in Nat,
         NEW k \in Oldest(S, n), NEW i \in S, i < k
  PROVE  i \in Oldest(S, n)
<1> DEFINE A == {j \in S : j < i}
           B == {j \in S : j < k}
<1>1. IsFiniteSet(1..m)
  BY FS_Interval
<1>2. IsFiniteSet(S)
  BY <1>1, FS_Subset
<1>3. IsFiniteSet(B) /\ A \in SUBSET B
  <2>1. k \in Nat /\ i \in Nat /\ \A j \in S : j \in Nat
    BY DEF Oldest
  <2>2. \A j \in S : j < i => j < k
    BY <2>1
  <2> QED BY <1>2, <2>2, FS_Subset
<1>4. Cardinality(A) <= Cardinality(B) /\ Cardinality(A) \in Nat /\ Cardinality(B) \in Nat
  BY <1>3, FS_Subset, FS_CardinalityType
<1>5. Cardinality(B) < n
  BY DEF Oldest
<1>6. Cardinality(A) < n
  BY <1>4, <1>5
<1> QED BY <1>6 DEF Oldest

(* One of the oldest n is less than n beyond where a run up to it begins.   *)
LEMMA OldestSpan ==
  ASSUME NEW m \in Nat, NEW S \in SUBSET (1..m), NEW n \in Nat, NEW i \in Int,
         NEW y \in Int, y + 1 \in Oldest(S, n), i <= y + 1, \A k \in i..y : k \in S
  PROVE  y + 1 - i < n
<1> DEFINE A == i..y
           B == {j \in S : j < y + 1}
<1>1. A \in SUBSET B
  BY SMT
<1>2. IsFiniteSet(B)
  <2>1. IsFiniteSet(1..m)
    BY FS_Interval
  <2>2. B \in SUBSET (1..m)
    OBVIOUS
  <2> QED BY <2>1, <2>2, FS_Subset
<1>3. Cardinality(A) <= Cardinality(B) /\ Cardinality(B) \in Nat
  BY <1>1, <1>2, FS_Subset, FS_CardinalityType
<1>4. Cardinality(A) = IF i > y THEN 0 ELSE y - i + 1
  BY FS_Interval
<1>5. Cardinality(B) < n
  BY DEF Oldest
<1>6. Cardinality(A) = y + 1 - i
  BY <1>4
<1> QED BY <1>3, <1>5, <1>6

LEMMA TypeFacts ==
  ASSUME TypeOK
  PROVE  /\ Len(log) \in 0..MaxEntries /\ MaxEntries \in Nat /\ BatchSize \in Nat
         /\ last \in Nat /\ first \in Nat \ {0}
         /\ 1..Len(log) \subseteq Entries
  BY StreamAssumption DEF TypeOK, Entries

(* A new entry, and a trim.                                                 *)
LEMMA AddKeeps ==
  ASSUME IInv, NEW j \in Jobs, Add(j)
  PROVE  IInv'
<1>1. /\ Len(log) < MaxEntries /\ log' = Append(log, j)
      /\ first' \in first..(Len(log) + 1)
      /\ lost' = lost \cup {i \in first..(first' - 1) : i > last}
      /\ UNCHANGED <<policy, last, pel, acked, batch, at, blank, committed, abandoned, stops>>
  BY DEF Add
<1>2. /\ Len(log) \in Nat /\ MaxEntries \in Nat /\ last \in Nat /\ first \in Nat \ {0}
      /\ log \in Seq(Jobs) /\ last <= Len(log) /\ lost \subseteq 1..Len(log)
  BY TypeFacts DEF IInv, TypeOK, Cursor
<1>3. log' \in Seq(Jobs) /\ Len(log') = Len(log) + 1 /\ \A i \in 1..Len(log) : log'[i] = log[i]
  BY <1>1, <1>2
<1>4. first' \in Nat \ {0} /\ first' <= Len(log) + 1 /\ first <= first'
  BY <1>1, <1>2
<1>5. {i \in first..(first' - 1) : i > last} \subseteq 1..Len(log)
  BY <1>2, <1>4
<1>6. lost' \subseteq 1..Len(log)
  BY <1>1, <1>2, <1>5
<1>7. TypeOK'
  <2>1. log' \in Seq(Jobs) /\ Len(log') <= MaxEntries /\ first' \in 1..(MaxEntries + 1)
    BY <1>1, <1>2, <1>3, <1>4
  <2>2. lost' \subseteq Entries
    BY <1>1, <1>2, <1>6 DEF Entries
  <2> QED BY <1>1, <2>1, <2>2 DEF IInv, TypeOK
<1>8. Cursor'
  <2>1. ASSUME NEW i \in 1..Len(log'), last' < i, i < first' PROVE i \in lost'
    <3>0. i \in Nat
      BY <1>2, <1>3
    <3>1. i \in 1..Len(log) /\ last < i
      BY <1>1, <1>2, <1>3, <1>4, <2>1
    <3>2. CASE i < first
      BY <1>1, <3>1, <3>2 DEF IInv, Cursor
    <3>3. CASE ~(i < first)
      <4>1. i \in first..(first' - 1)
        <5>1. PICK f \in Nat : f = first'
          BY <1>4
        <5>2. i < f /\ first <= i
          BY <1>2, <2>1, <3>0, <3>3, <5>1
        <5>3. i \in first..(f - 1)
          BY <1>2, <3>0, <5>2
        <5> QED BY <5>1, <5>3
      <4> QED BY <1>1, <3>1, <4>1
    <3> QED BY <3>2, <3>3
  <2>2. last' <= Len(log') /\ first' <= Len(log') + 1 /\ lost' \subseteq 1..Len(log')
    BY <1>1, <1>2, <1>3, <1>4, <1>6
  <2>3. pel' \cup acked' \subseteq 1..last'
    BY <1>1 DEF IInv, Cursor
  <2> QED BY <2>1, <2>2, <2>3 DEF Cursor
<1>9. ASSUME NEW i \in 1..last PROVE Handled(i)' <=> Handled(i)
  BY <1>1, <1>2, <1>3 DEF Handled
<1>10. HandledFirst'
  <2>1. \A i \in Entries : Current(i)' <=> Current(i)
    BY <1>1 DEF Current
  <2>2. \A i \in Entries : Current(i) => i \in 1..last
    BY DEF Current, IInv, TypeOK, Cursor
  <2>3. \A i \in acked : i \in 1..last
    BY DEF IInv, Cursor
  <2> QED BY <1>1, <1>9, <2>1, <2>2, <2>3 DEF IInv, HandledFirst
<1>11. Accounted' /\ InOrder' /\ ReadTogether' /\ BlankAgain'
  BY <1>1 DEF IInv, Accounted, InOrder, ReadTogether, BlankAgain
<1> QED BY <1>7, <1>8, <1>10, <1>11 DEF IInv

(* The next entries are delivered: those trimmed in between are lost.       *)
LEMMA ReadKeeps ==
  ASSUME IInv, ReadBatch
  PROVE  IInv'
<1>1. /\ batch' = Oldest(Fresh, BatchSize) /\ pel' = pel \cup batch' /\ at' = "handle"
      /\ last' \in batch' /\ \A k \in batch' : k <= last'
      /\ policy = "decide" => pel = {}
      /\ blank' = {} /\ UNCHANGED <<policy, log, first, acked, lost, committed, abandoned, stops>>
  BY DEF ReadBatch
<1>2. /\ Len(log) \in Nat /\ Len(log) <= MaxEntries /\ MaxEntries \in Nat /\ BatchSize \in Nat
      /\ last \in Nat /\ first \in Nat \ {0} /\ 1..Len(log) \subseteq Entries
  BY TypeFacts DEF IInv
<1>3. Fresh \in SUBSET (1..Len(log)) /\ \A i \in Fresh : last < i /\ first <= i
  BY DEF Fresh
<1>4. batch' \subseteq Fresh
  BY <1>1 DEF Oldest
<1>5. last' \in 1..Len(log) /\ last < last' /\ last' \in Entries
  BY <1>1, <1>2, <1>3, <1>4
<1>6. \A i \in batch' : i \in 1..last' /\ last < i
  BY <1>1, <1>3, <1>4
<1>7. pel' \subseteq 1..last' /\ acked \subseteq 1..last'
  <2>1. 1..last \subseteq 1..last'
    BY <1>2, <1>5
  <2>2. pel \subseteq 1..last /\ acked \subseteq 1..last
    BY DEF IInv, Cursor
  <2> QED BY <1>1, <1>6, <2>1, <2>2
<1>8. TypeOK'
  <2>0. \A i \in acked : i <= last /\ i \in Nat
    BY <1>2 DEF IInv, Cursor
  <2>1. pel' \cap acked = {} /\ pel' \subseteq Entries /\ batch' \subseteq pel'
    <3>1. batch' \cap acked = {} /\ batch' \subseteq Entries
      BY <1>2, <1>3, <1>4, <1>6, <2>0
    <3> QED BY <1>1, <3>1 DEF IInv, TypeOK
  <2>2. last' \in 0..MaxEntries
    BY <1>2, <1>5
  <2> QED BY <1>1, <2>1, <2>2 DEF IInv, TypeOK
<1>9. Cursor'
  <2>1. last' <= Len(log) /\ \A i \in 1..Len(log) : last' < i => last < i
    BY <1>2, <1>5
  <2>2. pel' \cup acked' \subseteq 1..last'
    BY <1>1, <1>7
  <2> QED BY <1>1, <2>1, <2>2 DEF IInv, Cursor
<1>10. HandledFirst'
  BY <1>1 DEF IInv, HandledFirst, Handled
<1>11. ASSUME NEW i \in 1..last' PROVE i \in pel' \cup lost' \cup acked'
  <2>1. CASE i \in 1..last
    BY <1>1, <2>1 DEF IInv, Accounted
  <2>2. CASE i \notin 1..last
    <3>1. i \in 1..Len(log) /\ last < i /\ i \in Nat
      BY <1>2, <1>5, <2>2
    <3>2. CASE i < first
      BY <1>1, <3>1, <3>2 DEF IInv, Cursor
    <3>3. CASE ~(i < first)
      <4>1. i \in Fresh
        BY <1>2, <3>1, <3>3 DEF Fresh
      <4>2. CASE i = last'
        BY <1>1, <4>2
      <4>3. CASE i # last'
        <5>1. i < last'
          BY <1>5, <4>3
        <5>2. i \in batch'
          BY <1>1, <1>2, <1>3, <4>1, <5>1, OldestHasNoGap
        <5> QED BY <1>1, <5>2
      <4> QED BY <4>2, <4>3
    <3> QED BY <3>2, <3>3
  <2> QED BY <2>1, <2>2
<1>12. Accounted'
  BY <1>11 DEF Accounted
<1>13. InOrder'
  <2>1. ASSUME NEW j \in committed
        PROVE  j <= last' /\ \A i \in batch' : j <= i
    <3>1. j <= last /\ j \in Nat
      BY <2>1 DEF IInv, InOrder, TypeOK, Entries
    <3> QED BY <1>2, <1>3, <1>4, <1>5, <3>1
  <2> QED BY <1>1, <2>1 DEF InOrder
<1>14. ReadTogether'
  <2> SUFFICES ASSUME policy = "decide", NEW i \in batch' PROVE last' - i < BatchSize
    BY <1>1 DEF ReadTogether
  <2>1. i \in Fresh /\ i \in Nat /\ last' \in Nat /\ i <= last' /\ i \in 1..Len(log)
    <3>1. i \in Fresh /\ i <= last' /\ last' \in 1..Len(log)
      BY <1>1, <1>4, <1>5
    <3>2. i \in 1..Len(log)
      BY <1>3, <3>1
    <3> QED BY <3>1, <3>2
  <2>2. PICK y \in Nat : last' = y + 1
    BY <1>5
  <2>3. ASSUME NEW k \in i..y PROVE k \in Fresh
    <3>1. last < i /\ first <= i /\ i \in Nat
      BY <1>3, <2>1
    <3>2. y + 1 \in 1..Len(log)
      BY <1>5, <2>2
    <3>3. k \in 1..Len(log) /\ k > last /\ k >= first
      BY <1>2, <3>1, <3>2
    <3> QED BY <3>3 DEF Fresh
  <2>4. y + 1 \in Oldest(Fresh, BatchSize) /\ y \in Int /\ i \in Int /\ i <= y + 1
    BY <1>1, <2>1, <2>2
  <2>5. y + 1 - i < BatchSize
    BY <1>2, <1>3, <2>3, <2>4, OldestSpan
  <2> QED BY <1>2, <2>1, <2>2, <2>5
<1>15. BlankAgain'
  BY <1>1 DEF BlankAgain
<1> QED BY <1>8, <1>9, <1>10, <1>12, <1>13, <1>14, <1>15 DEF IInv

(* What is pending is read again.                                           *)
LEMMA ReadAgainKeeps ==
  ASSUME IInv, ReadPending
  PROVE  IInv'
<1>1. /\ policy = "decide" /\ at' = "handle" /\ batch' \subseteq pel /\ blank' \subseteq batch'
      /\ UNCHANGED <<policy, log, first, last, pel, acked, lost, committed, abandoned, stops>>
  BY DEF ReadPending, Oldest
<1>2. TypeOK' /\ Cursor' /\ Accounted'
  BY <1>1 DEF IInv, TypeOK, Cursor, Accounted
<1>3. HandledFirst'
  BY <1>1 DEF IInv, HandledFirst, Handled
<1>4. InOrder' /\ ReadTogether' /\ BlankAgain'
  BY <1>1 DEF IInv, InOrder, ReadTogether, BlankAgain
<1> QED BY <1>2, <1>3, <1>4 DEF IInv

(* Steps that leave the stream, the cursor and the commits alone: the batch *)
(* shrinks, and pending entries become acknowledged after their handling.   *)
LEMMA ShrinkKeeps ==
  ASSUME IInv, UNCHANGED <<policy, log, first, last, lost>>,
         batch' \subseteq batch, blank' \subseteq blank \cap batch',
         pel' \subseteq pel, acked \subseteq acked',
         pel \cup acked = pel' \cup acked', pel' \cap acked' = {}, batch' \subseteq pel',
         at' \in {"down", "read", "handle"}, stops' \in 0..MaxStops,
         \A i \in acked' \ acked : Handled(i), committed' = committed,
         abandoned' \subseteq abandoned \cup batch
  PROVE  IInv'
<1>1. TypeOK'
  BY DEF IInv, TypeOK
<1>2. Cursor' /\ Accounted'
  BY DEF IInv, Cursor, Accounted
<1>3. HandledFirst'
  BY DEF IInv, HandledFirst, Handled
<1>4. InOrder' /\ ReadTogether' /\ BlankAgain'
  BY DEF IInv, InOrder, ReadTogether, BlankAgain
<1> QED BY <1>1, <1>2, <1>3, <1>4 DEF IInv

(* The first job of the batch commits.                                      *)
LEMMA CommitKeeps ==
  ASSUME IInv, NEW i \in Entries, Current(i), at = "handle",
         UNCHANGED <<policy, log, first, last, pel, acked, lost, stops>>,
         batch' \subseteq batch, blank' \subseteq blank \cap batch',
         at' \in {"read", "handle", "ack"},
         \/ committed' = committed \cup {i}
         \/ UNCHANGED committed /\ (at' = "ack" => log[i] \in Malformed),
         at' = "ack" => batch' = batch,
         abandoned' \subseteq abandoned \cup {i}
  PROVE  IInv'
<1>1. /\ committed' \subseteq committed \cup {i} /\ committed \subseteq committed'
      /\ i \in committed' \/ (at' = "ack" => log[i] \in Malformed)
  OBVIOUS
<1>2. i \in batch /\ i \in 1..last /\ \A j \in batch : i <= j
  BY DEF Current, IInv, TypeOK, Cursor
<1>3. TypeOK'
  BY <1>1 DEF IInv, TypeOK
<1>4. Cursor' /\ Accounted'
  BY DEF IInv, Cursor, Accounted
<1>5. HandledFirst'
  <2>1. \A j \in acked' : Handled(j)'
    BY <1>1 DEF IInv, TypeOK, HandledFirst, Handled
  <2>2. ASSUME at' = "ack", NEW j \in Entries, Current(j)' PROVE Handled(j)'
    <3>1. j = i
      BY <1>2, <2>2 DEF Current, Entries
    <3> QED BY <1>1, <2>2, <3>1 DEF Handled
  <2> QED BY <2>1, <2>2 DEF HandledFirst
<1>6. InOrder'
  <2>1. ASSUME NEW j \in committed'
        PROVE  j <= last /\ (policy # "decide" => \A k \in batch' : j <= k)
    <3>1. CASE j = i
      BY <1>2, <3>1
    <3>2. CASE j # i
      BY <1>1, <2>1, <3>2 DEF IInv, InOrder
    <3> QED BY <3>1, <3>2
  <2> QED BY <2>1 DEF InOrder
<1>7. ReadTogether' /\ BlankAgain'
  BY DEF IInv, ReadTogether, BlankAgain
<1> QED BY <1>3, <1>4, <1>5, <1>6, <1>7 DEF IInv

LEMMA ProcessKeeps ==
  ASSUME IInv, NEW i \in Entries, Process(i)
  PROVE  IInv'
<1>0. TypeOK /\ (Current(i) => i \in batch /\ i \in pel /\ i \notin acked)
  BY DEF IInv, TypeOK, Current
<1>1. CASE HandleOk(i)
  <2>1. Usable(i) \/ log[i] \in Malformed \/ policy = "decide"
    BY DEF Usable, IInv, BlankAgain
  <2> QED BY <1>0, <1>1, <2>1, CommitKeeps DEF HandleOk, TypeOK
<1>2. CASE HandleRefused(i)
  <2>1. at' \in {"read", "handle"} /\ batch' \subseteq batch /\ blank' \subseteq blank \cap batch'
    BY <1>0, <1>2 DEF HandleRefused, Leave, TypeOK
  <2> QED BY <1>2, <2>1, CommitKeeps DEF HandleRefused
<1>3. CASE HandleError(i)
  <2>1. at' \in {"read", "handle"} /\ batch' \subseteq batch /\ blank' \subseteq blank \cap batch'
    BY <1>0, <1>3 DEF HandleError, Leave, TypeOK
  <2> QED BY <1>3, <2>1, CommitKeeps DEF HandleError, Abandon
<1>4. CASE Ack(i)
  <2>1. /\ at' \in {"read", "handle"} /\ batch' = batch \ {i} /\ blank' \subseteq blank \cap batch'
        /\ Current(i) /\ Handled(i)
    BY <1>0, <1>4 DEF Ack, Leave, IInv, HandledFirst, TypeOK
  <2> QED BY <1>0, <1>4, <2>1, ShrinkKeeps DEF Ack, TypeOK
<1>5. CASE AckError(i)
  <2>1. /\ at' \in {"read", "handle"} /\ batch' = batch \ {i} /\ blank' \subseteq blank \cap batch'
        /\ Current(i) /\ Handled(i)
    BY <1>0, <1>5 DEF AckError, Leave, IInv, HandledFirst, TypeOK
  <2> QED BY <1>0, <1>5, <2>1, ShrinkKeeps DEF AckError, TypeOK
<1>6. CASE ExceptionStops(i)
  <2>1. /\ batch' = {} /\ blank' = {} /\ at' = "down" /\ Current(i) /\ (at = "ack" => Handled(i))
        /\ UNCHANGED <<policy, log, first, last, lost, committed>> /\ stops' \in 0..MaxStops
        /\ abandoned' \subseteq abandoned \cup batch
    BY <1>0, <1>6, StreamAssumption DEF ExceptionStops, Abandon, IInv, HandledFirst, TypeOK
  <2>2. \/ UNCHANGED <<pel, acked>>
        \/ at = "ack" /\ pel' = pel \ {i} /\ acked' = acked \cup {i}
    BY <1>6 DEF ExceptionStops
  <2> QED BY <1>0, <2>1, <2>2, ShrinkKeeps DEF TypeOK
<1> QED BY <1>1, <1>2, <1>3, <1>4, <1>5, <1>6 DEF Process

LEMMA IInvStep == IInv /\ [Next]_vars => IInv'
<1> SUFFICES ASSUME IInv, [Next]_vars PROVE IInv'
  OBVIOUS
<1>0. TypeOK
  BY DEF IInv
<1>1. CASE Start
  BY <1>0, <1>1, ShrinkKeeps DEF Start, TypeOK
<1>2. CASE Stop
  <2>1. stops' \in 0..MaxStops /\ abandoned' \subseteq abandoned \cup batch
    BY <1>0, <1>2, StreamAssumption DEF Stop, Abandon, TypeOK
  <2> QED BY <1>0, <1>2, <2>1, ShrinkKeeps DEF Stop, TypeOK
<1>3. CASE UNCHANGED vars
  BY <1>3
  DEF vars, IInv, TypeOK, Cursor, HandledFirst, Handled, Current, Accounted, InOrder,
      ReadTogether, BlankAgain
<1> QED BY <1>1, <1>2, <1>3, AddKeeps, ReadKeeps, ReadAgainKeeps, ProcessKeeps DEF Next, Worker

LEMMA IInvInit == Init => IInv
<1> SUFFICES ASSUME Init PROVE IInv
  OBVIOUS
<1>1. TypeOK
  BY StreamAssumption DEF Init, TypeOK, Entries
<1>2. Cursor /\ HandledFirst /\ Accounted /\ InOrder /\ ReadTogether /\ BlankAgain
  BY DEF Init, Cursor, HandledFirst, Accounted, InOrder, ReadTogether, BlankAgain
<1> QED BY <1>1, <1>2 DEF IInv

LEMMA Invariance == Spec => []IInv
  BY IInvInit, IInvStep, PTL DEF Spec

-------------------------------------------------------------------------------
(* The variables keep their shape.                                          *)
THEOREM TypeCorrect == Spec => []TypeOK
<1>1. IInv => TypeOK
  BY DEF IInv
<1> QED BY <1>1, Invariance, PTL

(* The cursor of the group passes nothing by: what is behind it is pending, *)
(* was trimmed unseen, or was acknowledged after its handler committed.     *)
THEOREM NoEntrySkipped == Spec => []NothingSkipped
<1>1. IInv => NothingSkipped
  BY DEF IInv, HandledFirst, Handled, Accounted, NothingSkipped
<1> QED BY <1>1, Invariance, PTL

(* Jobs commit in the order of the stream; where pending entries are read   *)
(* again, none commits before an open one it was not read together with.    *)
THEOREM CommitsInOrder == Spec => []StreamOrder
<1>1. IInv => StreamOrder
  <2> SUFFICES ASSUME IInv, NEW i \in 1..Len(log), NEW j \in 1..Len(log), i < j, j \in committed
               PROVE  /\ i <= last
                      /\ IF policy = "decide" THEN i \in pel => j - i < BatchSize
                         ELSE i \notin batch
    BY DEF StreamOrder
  <2>1. last \in Nat /\ i \in Nat /\ j \in Nat /\ BatchSize \in Nat
    BY TypeFacts DEF IInv
  <2>2. j <= last
    BY DEF IInv, InOrder
  <2>3. CASE policy = "decide"
    BY <2>1, <2>2, <2>3 DEF IInv, ReadTogether
  <2>4. CASE policy # "decide"
    BY <2>1, <2>2, <2>4 DEF IInv, InOrder
  <2> QED BY <2>3, <2>4
<1> QED BY <1>1, Invariance, PTL
===============================================================================
