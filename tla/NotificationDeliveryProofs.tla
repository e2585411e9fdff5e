------------------------ MODULE NotificationDeliveryProofs ------------------------
(* Proofs about NotificationDelivery for any plans, materials, settings    *)
(* and bounds.  The inductive invariant says what the message the notifier *)
(* works on relies on: nothing else was planned for its material and no    *)
(* final outcome is recorded, from the check at its start to the commit.   *)
EXTENDS NotificationDelivery, TLAPS, FiniteSetTheorems

Statuses == {"absent", "suppressed", "failed_retryable", "failed_terminal"} \cup Success

Types ==
    /\ status \in [Plans -> Statuses]
    /\ records \in [Plans -> Seq(Outcomes)]
    /\ recent \in Plans \cup {None}
    /\ turn \in [at : {"idle", "transport", "commit"}, plan : Plans \cup {None},
                 mode : {"none", "send", "edit"}, outcome : Outcomes \cup {"none"}]
    /\ copies \in [Materials -> Nat] /\ unclear \in [Materials -> Nat]

(* A row's status is that of its last record; only failed plans are due;   *)
(* the edit rules look at a delivered plan.                                *)
Rows ==
    /\ \A p \in Plans : IF records[p] = <<>> THEN status[p] = "absent"
                        ELSE status[p] = StatusOf(records[p][Len(records[p])])
    /\ due \subseteq {p \in Plans : status[p] = "failed_retryable"}
    /\ recent # None => status[recent] \in Success

(* The open message.                                                       *)
Open ==
    /\ turn.at # "idle" =>
         /\ turn.plan \in Plans /\ turn.mode # "none"
         /\ Existing(turn.plan) \subseteq {turn.plan}
         /\ Range(records[turn.plan]) \cap (Success \cup Terminal) = {}
    /\ turn.at = "commit" <=> turn.outcome # "none"

(* A message in the chat without a record or an open turn is an unclear    *)
(* one; one more is recorded or about to be.                               *)
Sent(m) ==
    \/ \E p \in Plans : Material[p] = m /\ "sent" \in Range(records[p])
    \/ turn.outcome = "sent" /\ Material[turn.plan] = m
Accounts ==
    \A m \in Materials : copies[m] <= unclear[m] + (IF Sent(m) THEN 1 ELSE 0)

IInv == Types /\ Rows /\ Open /\ OnePlanPerMaterial /\ Accounts

(* A record more is in the range, and it is the last.                      *)
LEMMA AppendRecord ==
  ASSUME NEW s \in Seq(Outcomes), NEW o \in Outcomes
  PROVE  /\ Append(s, o) \in Seq(Outcomes) /\ Append(s, o) # <<>>
         /\ Append(s, o)[Len(Append(s, o))] = o
         /\ Range(Append(s, o)) = Range(s) \cup {o}
<1>1. /\ Append(s, o) \in Seq(Outcomes) /\ Append(s, o) # <<>>
      /\ Len(Append(s, o)) = Len(s) + 1
      /\ Append(s, o)[Len(s) + 1] = o
      /\ \A i \in 1..Len(s) : Append(s, o)[i] = s[i]
  OBVIOUS
<1>2. DOMAIN s = 1..Len(s) /\ DOMAIN Append(s, o) = 1..(Len(s) + 1) /\ Len(s) \in Nat
  BY <1>1
<1>3. Range(Append(s, o)) \subseteq Range(s) \cup {o}
  <2> SUFFICES ASSUME NEW i \in 1..(Len(s) + 1) PROVE Append(s, o)[i] \in Range(s) \cup {o}
    BY <1>2 DEF Range
  <2>1. CASE i = Len(s) + 1
    BY <2>1, <1>1
  <2>2. CASE i \in 1..Len(s)
    BY <2>2, <1>1, <1>2 DEF Range
  <2> QED BY <2>1, <2>2, <1>2
<1>4. Range(s) \cup {o} \subseteq Range(Append(s, o))
  <2>1. o \in Range(Append(s, o))
    BY <1>1, <1>2 DEF Range
  <2>2. ASSUME NEW i \in 1..Len(s) PROVE s[i] \in Range(Append(s, o))
    <3>1. i \in DOMAIN Append(s, o) /\ Append(s, o)[i] = s[i]
      BY <1>1, <1>2
    <3> QED BY <3>1 DEF Range
  <2> QED BY <2>1, <2>2, <1>2 DEF Range
<1> QED BY <1>1, <1>3, <1>4

(* The status of an outcome is never absent, and final as the outcome is.  *)
LEMMA Classes ==
  ASSUME NEW o \in Outcomes
  PROVE  /\ StatusOf(o) \in Statuses \ {"absent"}
         /\ StatusOf(o) \in Success <=> o \in Success
         /\ StatusOf(o) = "failed_terminal" <=> o \in Terminal
  BY DEF StatusOf, Statuses, Outcomes, Success, Suppressed, Terminal

(* What should_noop_before_concretization and the repost check leave: a    *)
(* plan alone with its material and without a final record.                *)
LEMMA Unsettled ==
  ASSUME NEW p \in Plans, Types, Rows, ~Settled(p)
  PROVE  /\ Existing(p) \subseteq {p}
         /\ Range(records[p]) \cap (Success \cup Terminal) = {}
<1>1. Existing(p) \subseteq {p}
  BY DEF Settled, Reposted
<1>2. ~Decided(p)
  BY DEF Settled
<1>3. ~HasRecord(Existing(p), Success \cup Terminal)
  BY <1>2 DEF Decided, OnlySuppressed, HasRecord
<1>4. CASE status[p] # "absent"
  BY <1>1, <1>3, <1>4 DEF HasRecord, Existing
<1>5. CASE status[p] = "absent"
  <2>1. ASSUME records[p] # <<>> PROVE FALSE
    <3>1. records[p][Len(records[p])] \in Outcomes
      BY <2>1 DEF Types
    <3> QED BY <1>5, <2>1, <3>1, Classes DEF Rows
  <2> QED BY <1>1, <2>1 DEF Range
<1> QED BY <1>4, <1>5

THEOREM InitIInv == Init => IInv
<1> SUFFICES ASSUME Init PROVE IInv
  OBVIOUS
<1>1. Types
  BY DEF Init, Types, Idle, Statuses
<1>2. Rows
  BY DEF Init, Rows
<1>3. Open
  BY DEF Init, Open, Idle
<1>4. OnePlanPerMaterial
  BY DEF Init, OnePlanPerMaterial
<1>5. Accounts
  BY DEF Init, Accounts
<1> QED BY <1>1, <1>2, <1>3, <1>4, <1>5 DEF IInv

(* Most steps leave what IInv speaks of alone.                             *)
LEMMA Elsewhere ==
  ASSUME IInv, UNCHANGED <<notifierRows, turn, chat>>
  PROVE  IInv'
  BY DEF IInv, notifierRows, chat, Types, Rows, Open, OnePlanPerMaterial, Accounts, Sent, Existing

LEMMA Deferral ==
  ASSUME IInv, NEW p \in Plans, BecomeDue(p)
  PROVE  IInv'
  BY DEF BecomeDue, chat, IInv, Types, Rows, Open, OnePlanPerMaterial, Accounts, Sent, Existing

LEMMA Rendering ==
  ASSUME IInv, NEW p \in Plans, NEW mode \in {"send", "edit"}, Render(p, mode)
  PROVE  IInv'
<1>1. UNCHANGED <<notifierRows, chat>> /\ turn.at = "idle"
  BY DEF Render, Take
<1>2. /\ Existing(p) \subseteq {p}
      /\ Range(records[p]) \cap (Success \cup Terminal) = {}
  BY Unsettled DEF IInv, Render
<1>3. turn' = [at |-> "transport", plan |-> p, mode |-> mode, outcome |-> "none"]
  BY DEF Render
<1>4. Types' /\ Rows' /\ OnePlanPerMaterial'
  BY <1>1, <1>3 DEF IInv, Types, Rows, OnePlanPerMaterial, notifierRows, chat
<1>5. Open'
  BY <1>1, <1>2, <1>3 DEF Open, Existing, notifierRows
<1>6. Accounts'
  BY <1>1, <1>3 DEF IInv, Open, Accounts, Sent, notifierRows, chat
<1> QED BY <1>4, <1>5, <1>6 DEF IInv

(* The answer, with what it puts into the chat.                            *)
LEMMA Answering ==
  ASSUME IInv, SkipTransport \/ Deliver \/ LoseReply \/ Refuse
  PROVE  IInv'
<1> DEFINE p == turn.plan
           m == Material[p]
<1>1. PICK o \in Outcomes :
        /\ Answer(o)
        /\ \/ o # "sent" /\ UNCHANGED chat
           \/ o = "sent" /\ InChat(p) /\ UNCHANGED unclear
           \/ o = "retryable" /\ InChat(p) /\ unclear' = [unclear EXCEPT ![m] = @ + 1]
  <2>1. CASE SkipTransport
    BY <2>1 DEF SkipTransport, Outcomes, Suppressed
  <2>2. CASE Deliver
    BY <2>2 DEF Deliver, Outcomes, Success, chat
  <2>3. CASE LoseReply
    BY <2>3 DEF LoseReply, Outcomes
  <2>4. CASE Refuse
    BY <2>4 DEF Refuse, Outcomes, Suppressed, Terminal
  <2> QED BY <2>1, <2>2, <2>3, <2>4
<1>2. /\ turn.at = "transport" /\ UNCHANGED notifierRows
      /\ turn' = [turn EXCEPT !.at = "commit", !.outcome = o]
  BY <1>1 DEF Answer
<1>3. p \in Plans /\ m \in Materials /\ turn'.plan = p /\ turn'.outcome = o
  BY <1>2 DEF IInv, Open, Types, Materials
<1>4. Types'
  <2>1. copies \in [Materials -> Nat] /\ unclear \in [Materials -> Nat]
    BY DEF IInv, Types
  <2>2. copies' \in [Materials -> Nat] /\ unclear' \in [Materials -> Nat]
    <3>1. CASE UNCHANGED chat
      BY <2>1, <3>1 DEF chat
    <3>2. CASE InChat(p) /\ UNCHANGED unclear
      BY <1>3, <2>1, <3>2 DEF InChat
    <3>3. CASE InChat(p) /\ unclear' = [unclear EXCEPT ![m] = @ + 1]
      BY <1>3, <2>1, <3>3 DEF InChat
    <3> QED BY <1>1, <3>1, <3>2, <3>3
  <2>3. turn' \in [at : {"idle", "transport", "commit"}, plan : Plans \cup {None},
                   mode : {"none", "send", "edit"}, outcome : Outcomes \cup {"none"}]
    BY <1>2 DEF IInv, Types
  <2> QED BY <1>2, <2>2, <2>3 DEF IInv, Types, notifierRows
<1>5. Rows' /\ OnePlanPerMaterial'
  BY <1>2 DEF IInv, Rows, OnePlanPerMaterial, notifierRows
<1>6. Open'
  <2>1. turn'.at = "commit" /\ turn'.mode = turn.mode /\ o # "none"
    BY <1>2 DEF IInv, Types, Outcomes, Success, Suppressed, Terminal
  <2> QED BY <1>2, <1>3, <2>1 DEF IInv, Open, Existing, notifierRows
<1>7. Accounts'
  <2> SUFFICES ASSUME NEW n \in Materials
               PROVE  copies'[n] <= unclear'[n] + (IF Sent(n)' THEN 1 ELSE 0)
    BY DEF Accounts
  <2>1. Sent(n)' <=> Sent(n) \/ (o = "sent" /\ m = n)
    BY <1>2, <1>3 DEF IInv, Open, Sent, notifierRows
  <2>2. ~Sent(m)
    <3>1. \A q \in Plans : Material[q] = m /\ "sent" \in Range(records[q]) => q = p
      <4> SUFFICES ASSUME NEW q \in Plans, Material[q] = m, "sent" \in Range(records[q])
                   PROVE  q \in Existing(p)
        BY <1>2 DEF IInv, Open
      <4>1. records[q] # <<>> /\ records[q][Len(records[q])] \in Outcomes
        BY DEF Range, IInv, Types
      <4>2. status[q] # "absent"
        BY <4>1, Classes DEF IInv, Rows
      <4> QED BY <4>2 DEF Existing
    <3>2. "sent" \notin Range(records[p])
      BY <1>2 DEF IInv, Open, Success
    <3>3. turn.outcome # "sent"
      BY <1>2 DEF IInv, Open
    <3> QED BY <3>1, <3>2, <3>3 DEF Sent
  <2>3. copies[n] \in Nat /\ unclear[n] \in Nat
        /\ copies[n] <= unclear[n] + (IF Sent(n) THEN 1 ELSE 0)
    BY DEF IInv, Accounts, Types
  <2>4. CASE n # m
    <3>1. copies'[n] = copies[n] /\ unclear'[n] = unclear[n]
      BY <1>1, <1>3, <2>4 DEF InChat, chat, IInv, Types
    <3> QED BY <2>1, <2>3, <2>4, <3>1
  <2>5. CASE n = m
    <3>1. \/ o # "sent" /\ copies'[n] = copies[n] /\ unclear'[n] = unclear[n]
          \/ o = "sent" /\ copies'[n] = copies[n] + 1 /\ unclear'[n] = unclear[n]
          \/ o = "retryable" /\ copies'[n] = copies[n] + 1 /\ unclear'[n] = unclear[n] + 1
      BY <1>1, <1>3, <2>5 DEF InChat, chat, IInv, Types
    <3> QED BY <2>1, <2>2, <2>3, <2>5, <3>1
  <2> QED BY <2>4, <2>5
<1> QED BY <1>4, <1>5, <1>6, <1>7 DEF IInv

(* The commit of an outcome for the plan whose message is open.            *)
LEMMA Finishing ==
  ASSUME IInv, Finish
  PROVE  IInv'
<1> DEFINE p == turn.plan
           o == turn.outcome
<1>1. /\ p \in Plans /\ o \in Outcomes
      /\ Existing(p) \subseteq {p}
      /\ Range(records[p]) \cap (Success \cup Terminal) = {}
  BY DEF Finish, IInv, Open, Types
<1>2. /\ status' = [status EXCEPT ![p] = StatusOf(o)]
      /\ due' = due \ {p}
      /\ records' = [records EXCEPT ![p] = Append(@, o)]
      /\ recent' = IF o \in Success THEN p ELSE recent
      /\ turn' = Idle
      /\ UNCHANGED chat
  BY DEF Finish
<1>3. /\ records[p] \in Seq(Outcomes)
      /\ Append(records[p], o) \in Seq(Outcomes) /\ Append(records[p], o) # <<>>
      /\ Append(records[p], o)[Len(Append(records[p], o))] = o
      /\ Range(Append(records[p], o)) = Range(records[p]) \cup {o}
  BY <1>1, AppendRecord DEF IInv, Types
<1>4. /\ status'[p] = StatusOf(o) /\ records'[p] = Append(records[p], o)
      /\ \A q \in Plans \ {p} : status'[q] = status[q] /\ records'[q] = records[q]
  BY <1>1, <1>2 DEF IInv, Types
<1>5. StatusOf(o) \in Statuses \ {"absent"} /\ (StatusOf(o) \in Success <=> o \in Success)
  BY <1>1, Classes
<1>6. Types'
  <2>1. status' \in [Plans -> Statuses]
    BY <1>2, <1>5 DEF IInv, Types
  <2>2. records' \in [Plans -> Seq(Outcomes)]
    BY <1>2, <1>3 DEF IInv, Types
  <2>3. recent' \in Plans \cup {None}
    BY <1>1, <1>2 DEF IInv, Types
  <2> QED BY <1>2, <2>1, <2>2, <2>3 DEF IInv, Types, Idle, chat
<1>7. Rows'
  <2>1. ASSUME NEW q \in Plans
        PROVE  IF records'[q] = <<>> THEN status'[q] = "absent"
               ELSE status'[q] = StatusOf(records'[q][Len(records'[q])])
    <3>1. CASE q = p
      BY <1>3, <1>4, <3>1
    <3>2. CASE q # p
      BY <1>4, <3>2 DEF IInv, Rows
    <3> QED BY <3>1, <3>2
  <2>2. due' \subseteq {q \in Plans : status'[q] = "failed_retryable"}
    BY <1>2, <1>4 DEF IInv, Rows
  <2>3. recent' # None => status'[recent'] \in Success
    <3>1. CASE o \in Success
      BY <1>2, <1>4, <1>5, <3>1
    <3>2. CASE o \notin Success
      <4> SUFFICES ASSUME recent # None PROVE status'[recent] \in Success
        BY <1>2, <3>2
      <4>1. recent \in Plans /\ status[recent] \in Success
        BY DEF IInv, Types, Rows
      <4>2. recent # p
        <5> SUFFICES ASSUME recent = p PROVE FALSE
          OBVIOUS
        <5>1. records[p] # <<>> /\ status[p] = StatusOf(records[p][Len(records[p])])
          BY <1>1, <4>1 DEF IInv, Rows, Success
        <5>2. records[p][Len(records[p])] \in Outcomes \cap Range(records[p])
          BY <1>3, <5>1 DEF Range
        <5>3. records[p][Len(records[p])] \in Success
          BY <4>1, <5>1, <5>2, Classes
        <5> QED BY <1>1, <5>2, <5>3
      <4> QED BY <1>4, <4>1, <4>2
    <3> QED BY <3>1, <3>2
  <2> QED BY <2>1, <2>2, <2>3 DEF Rows
<1>8. Open'
  BY <1>2 DEF Open, Idle
<1>9. OnePlanPerMaterial'
  <2> SUFFICES ASSUME NEW q \in Plans, NEW r \in Plans,
                      status'[q] # "absent", status'[r] # "absent",
                      Material[q] = Material[r], q # r
               PROVE  FALSE
    BY DEF OnePlanPerMaterial
  <2>1. CASE q = p
    BY <1>1, <1>4, <2>1 DEF Existing
  <2>2. CASE r = p
    BY <1>1, <1>4, <2>2 DEF Existing
  <2>3. CASE q # p /\ r # p
    BY <1>4, <2>3 DEF IInv, OnePlanPerMaterial
  <2> QED BY <2>1, <2>2, <2>3
<1>10. Accounts'
  <2>1. ASSUME NEW n \in Materials, Sent(n) PROVE Sent(n)'
    <3>1. CASE o = "sent" /\ Material[p] = n
      <4>1. "sent" \in Range(records'[p])
        BY <1>3, <1>4, <3>1
      <4> QED BY <1>1, <3>1, <4>1 DEF Sent
    <3>2. ASSUME NEW q \in Plans, Material[q] = n, "sent" \in Range(records[q])
          PROVE  Sent(n)'
      <4>1. "sent" \in Range(records'[q])
        BY <1>3, <1>4, <3>2
      <4> QED BY <3>2, <4>1 DEF Sent
    <3> QED BY <2>1, <3>1, <3>2 DEF Sent
  <2>2. ASSUME NEW n \in Materials
        PROVE  copies'[n] <= unclear'[n] + (IF Sent(n)' THEN 1 ELSE 0)
    <3>1. copies[n] \in Nat /\ unclear[n] \in Nat
          /\ copies[n] <= unclear[n] + (IF Sent(n) THEN 1 ELSE 0)
      BY DEF IInv, Accounts, Types
    <3> QED BY <1>2, <2>1, <3>1 DEF chat
  <2> QED BY <2>2 DEF Accounts
<1> QED BY <1>6, <1>7, <1>8, <1>9, <1>10 DEF IInv

(* A crash: what was in the chat and not committed is unclear now.         *)
LEMMA Stopping ==
  ASSUME IInv, Stop
  PROVE  IInv'
<1> DEFINE p == turn.plan
           m == Material[p]
<1>1. p \in Plans /\ m \in Materials
  BY DEF Stop, IInv, Open, Materials
<1>2. /\ turn' = Idle /\ UNCHANGED <<notifierRows, copies>>
      /\ unclear' = IF turn.outcome = "sent" THEN [unclear EXCEPT ![m] = @ + 1] ELSE unclear
  BY DEF Stop
<1>3. copies \in [Materials -> Nat] /\ unclear \in [Materials -> Nat]
  BY DEF IInv, Types
<1>4. unclear' \in [Materials -> Nat]
  BY <1>1, <1>2, <1>3
<1>5. Types' /\ Rows' /\ OnePlanPerMaterial'
  BY <1>2, <1>4 DEF IInv, Types, Rows, OnePlanPerMaterial, notifierRows, Idle
<1>6. Open'
  BY <1>2 DEF Open, Idle
<1>7. Accounts'
  <2> SUFFICES ASSUME NEW n \in Materials
               PROVE  copies'[n] <= unclear'[n] + (IF Sent(n)' THEN 1 ELSE 0)
    BY DEF Accounts
  <2>1. copies'[n] = copies[n]
        /\ copies[n] <= unclear[n] + (IF Sent(n) THEN 1 ELSE 0)
    BY <1>2 DEF IInv, Accounts
  <2>2. CASE turn.outcome = "sent" /\ n = m
    <3>1. unclear'[n] = unclear[n] + 1
      BY <1>2, <1>3, <2>2
    <3> QED BY <1>3, <2>1, <3>1
  <2>3. CASE ~(turn.outcome = "sent" /\ n = m)
    <3>1. unclear'[n] = unclear[n]
      BY <1>2, <1>3, <2>3
    <3>2. Sent(n)' <=> Sent(n)
      BY <1>2, <2>3 DEF Sent, notifierRows, Idle
    <3> QED BY <2>1, <3>1, <3>2
  <2> QED BY <2>2, <2>3
<1> QED BY <1>5, <1>6, <1>7 DEF IInv

(* Every other step: none of them writes the notifier's rows, the turn or  *)
(* the chat.                                                               *)
Others ==
    \/ \E p \in Plans : Ignore(p) \/ RequestReplay(p)
    \/ \E r \in DOMAIN replay : DispatchReplay(r)
    \/ Scan \/ HandleResult \/ StopMaintenance \/ Announce \/ ResendIntent \/ SwitchTransport

LEMMA OthersElsewhere ==
  ASSUME Others
  PROVE  UNCHANGED <<notifierRows, turn, chat>>
<1>1. ASSUME NEW p \in Plans, Ignore(p) \/ RequestReplay(p)
      PROVE  UNCHANGED <<notifierRows, turn, chat>>
  BY <1>1 DEF Ignore, Take, RequestReplay
<1>1a. ASSUME NEW r \in DOMAIN replay, DispatchReplay(r)
       PROVE  UNCHANGED <<notifierRows, turn, chat>>
  BY <1>1a DEF DispatchReplay
<1>2. CASE Scan \/ HandleResult \/ StopMaintenance
  BY <1>2 DEF Scan, ScanRead, ScanWrite, HandleResult, StopMaintenance
<1>3. CASE Announce \/ ResendIntent \/ SwitchTransport
  BY <1>3 DEF Announce, ResendIntent, SwitchTransport
<1> QED BY <1>1, <1>1a, <1>2, <1>3 DEF Others

(* The cases of a step.                                                    *)
LEMMA Cases ==
  ASSUME Next
  PROVE  \/ Others \/ Finish \/ Stop
         \/ SkipTransport \/ Deliver \/ LoseReply \/ Refuse
         \/ \E p \in Plans : BecomeDue(p) \/ \E mode \in {"send", "edit"} : Render(p, mode)
  BY DEF Next, Notify, Outside, Others

(* Every step keeps the inductive invariant.                               *)
THEOREM StepIInv == IInv /\ [Next]_vars => IInv'
<1> SUFFICES ASSUME IInv, [Next]_vars PROVE IInv'
  OBVIOUS
<1>1. CASE Others
  BY <1>1, OthersElsewhere, Elsewhere
<1>2. CASE Finish
  BY <1>2, Finishing
<1>3. CASE Stop
  BY <1>3, Stopping
<1>4. CASE SkipTransport \/ Deliver \/ LoseReply \/ Refuse
  BY <1>4, Answering
<1>5. ASSUME NEW p \in Plans, BecomeDue(p) PROVE IInv'
  BY <1>5, Deferral
<1>6. ASSUME NEW p \in Plans, NEW mode \in {"send", "edit"}, Render(p, mode) PROVE IInv'
  BY <1>6, Rendering
<1>7. CASE UNCHANGED vars
  BY <1>7, Elsewhere DEF vars
<1> QED BY <1>1, <1>2, <1>3, <1>4, <1>5, <1>6, <1>7, Cases

THEOREM Invariance == Spec => []IInv
  BY InitIInv, StepIInv, PTL DEF Spec

(* The shapes of the variables and the meaning of the row the edit rules   *)
(* start from, whatever the plans and the settings.                        *)
THEOREM TypeCorrect == Spec => []TypeOK
<1>1. IInv => TypeOK
  BY DEF IInv, Types, Rows, Open, TypeOK, Statuses
<1> QED BY <1>1, Invariance, PTL

(* However many analyses repost a material, one row stands for it.         *)
THEOREM OnePlan == Spec => []OnePlanPerMaterial
<1>1. IInv => OnePlanPerMaterial
  BY DEF IInv
<1> QED BY <1>1, Invariance, PTL

(* A second message of a material always has an unanswered request or a    *)
(* crash before the commit behind it, for any retries and replays.         *)
THEOREM NoDuplicate == Spec => []NoSilentDuplicate
<1>1. IInv => NoSilentDuplicate
  <2> SUFFICES ASSUME IInv, NEW m \in Materials PROVE copies[m] <= 1 + unclear[m]
    BY DEF NoSilentDuplicate
  <2>1. copies[m] \in Nat /\ unclear[m] \in Nat
        /\ copies[m] <= unclear[m] + (IF Sent(m) THEN 1 ELSE 0)
    BY DEF IInv, Accounts, Types
  <2> QED BY <2>1
<1> QED BY <1>1, Invariance, PTL

(* What a delivered or terminally failed plan says is never overwritten:   *)
(* only Finish writes rows, and its plan had no final outcome when the     *)
(* message was checked, nor can it have got one since.                     *)
THEOREM FinalForGood == Spec => FinalStays
<1>1. ASSUME IInv, [Next]_vars, NEW q \in Plans,
             status[q] \in Success \cup {"failed_terminal"}
      PROVE  status'[q] = status[q] /\ records'[q] = records[q]
  <2>1. CASE Finish
    <3>1. turn.plan \in Plans
          /\ Range(records[turn.plan]) \cap (Success \cup Terminal) = {}
      BY <1>1, <2>1 DEF Finish, IInv, Open
    <3>2. records[q] # <<>> /\ status[q] = StatusOf(records[q][Len(records[q])])
      BY <1>1 DEF IInv, Rows, Success
    <3>3. records[q][Len(records[q])] \in Outcomes \cap Range(records[q])
      BY <1>1, <3>2 DEF Range, IInv, Types
    <3>4. records[q][Len(records[q])] \in Success \cup Terminal
      BY <1>1, <3>2, <3>3, Classes
    <3>5. q # turn.plan
      BY <3>1, <3>3, <3>4
    <3> QED BY <1>1, <2>1, <3>1, <3>5 DEF Finish, IInv, Types
  <2>2. CASE ~Finish
    <3>1. UNCHANGED <<status, records>>
      <4>1. CASE Others
        BY <4>1, OthersElsewhere DEF notifierRows
      <4>2. CASE Stop
        BY <4>2 DEF Stop, notifierRows
      <4>3. CASE SkipTransport \/ Deliver \/ LoseReply \/ Refuse
        BY <4>3 DEF SkipTransport, Deliver, LoseReply, Refuse, Answer, notifierRows
      <4>4. ASSUME NEW p \in Plans, BecomeDue(p) PROVE UNCHANGED <<status, records>>
        BY <4>4 DEF BecomeDue
      <4>5. ASSUME NEW p \in Plans, NEW mode \in {"send", "edit"}, Render(p, mode)
            PROVE  UNCHANGED <<status, records>>
        BY <4>5 DEF Render, Take, notifierRows
      <4>6. CASE UNCHANGED vars
        BY <4>6 DEF vars, notifierRows
      <4> QED BY <1>1, <2>2, <4>1, <4>2, <4>3, <4>4, <4>5, <4>6, Cases
    <3> QED BY <3>1
  <2> QED BY <2>1, <2>2
<1>2. IInv /\ [Next]_vars
        => [\A p \in Plans :
              status[p] \in Success \cup {"failed_terminal"}
                  => status'[p] = status[p] /\ records'[p] = records[p]]_vars
  BY <1>1
<1> QED BY <1>2, Invariance, PTL DEF Spec, FinalStays

-----------------------------------------------------------------------------
(* How often a plan is attempted.  Every message of an intent gives at most *)
(* one record; what a plan has had and still has before it is paid for by   *)
(* the policy's one intent, by retry keys below the ceiling, by dispatched  *)
(* replays and by resent messages.                                          *)

Occurrences(s, p) == {i \in 1..Len(s) : s[i] = p}

Keys(p) == {n \in 1..(MaxAttempts - 1) : <<p, n>> \in retried}
Dispatched == {r \in 1..Len(replay) : replay[r].state = "completed"}
Told(p) == IF \E k \in 1..arrived : Arrivals[k] = p THEN 1 ELSE 0
Held(p) == IF turn.at # "idle" /\ turn.plan = p THEN 1 ELSE 0

Spent(p) == Len(records[p]) + Held(p) + Cardinality(Occurrences(intents, p))
Granted(p) == Told(p) + Cardinality(Keys(p)) + Cardinality(Dispatched) + resends

Requests == [plan : Plans, state : {"requested", "rejected_by_env_guard", "completed"}]

Queues ==
    /\ intents \in Seq(Plans) /\ arrived \in 0..Len(Arrivals) /\ resends \in Nat
    /\ replay \in Seq(Requests) /\ Len(replay) = replays
    /\ scan \subseteq Plans \X (Nat \ {0})

Attempts == Queues /\ \A p \in Plans : Spent(p) <= Granted(p)

LEMMA OccurrencesFinite ==
  ASSUME NEW S, NEW s \in Seq(S), NEW p
  PROVE  IsFiniteSet(Occurrences(s, p)) /\ Cardinality(Occurrences(s, p)) \in Nat
<1>1. Len(s) \in Nat
  OBVIOUS
<1>2. IsFiniteSet(1..Len(s))
  BY <1>1, FS_Interval
<1>3. Occurrences(s, p) \in SUBSET (1..Len(s))
  BY DEF Occurrences
<1> QED BY <1>2, <1>3, FS_Subset, FS_CardinalityType

LEMMA OccurrencesAppend ==
  ASSUME NEW S, NEW s \in Seq(S), NEW e \in S, NEW p
  PROVE  Cardinality(Occurrences(Append(s, e), p))
            = Cardinality(Occurrences(s, p)) + (IF e = p THEN 1 ELSE 0)
<1> DEFINE t == Append(s, e)
           n == Len(s) + 1
<1>1. /\ Len(s) \in Nat /\ Len(t) = n /\ t[n] = e
      /\ \A i \in 1..Len(s) : t[i] = s[i]
  OBVIOUS
<1>2. \A i : i \in 1..n <=> i \in 1..Len(s) \/ i = n
  BY <1>1
<1>3. CASE e = p
  <2>1. Occurrences(t, p) = Occurrences(s, p) \cup {n}
    BY <1>1, <1>2, <1>3 DEF Occurrences
  <2>2. n \notin Occurrences(s, p)
    BY <1>1 DEF Occurrences
  <2> QED BY <1>3, <2>1, <2>2, OccurrencesFinite, FS_AddElement
<1>4. CASE e # p
  <2>1. Occurrences(t, p) = Occurrences(s, p)
    BY <1>1, <1>2, <1>4 DEF Occurrences
  <2> QED BY <1>4, <2>1, OccurrencesFinite
<1> QED BY <1>3, <1>4

LEMMA OccurrencesTail ==
  ASSUME NEW S, NEW s \in Seq(S), s # <<>>, NEW p
  PROVE  Cardinality(Occurrences(Tail(s), p)) + (IF Head(s) = p THEN 1 ELSE 0)
            <= Cardinality(Occurrences(s, p))
<1> DEFINE A == Occurrences(Tail(s), p)
           B == Occurrences(s, p)
           f == [i \in A |-> i + 1]
<1>1. /\ Len(s) \in Nat /\ Len(s) > 0 /\ Tail(s) \in Seq(S) /\ Len(Tail(s)) = Len(s) - 1
      /\ \A i \in 1..Len(Tail(s)) : Tail(s)[i] = s[i + 1]
      /\ Head(s) = s[1]
  OBVIOUS
<1>2. \A i \in A : i \in Nat /\ i + 1 \in B \ {1}
  BY <1>1 DEF Occurrences
<1>3. f \in Injection(A, B \ {1})
  BY <1>2 DEF Injection, IsInjective
<1>4. IsFiniteSet(A) /\ IsFiniteSet(B) /\ Cardinality(A) \in Nat /\ Cardinality(B) \in Nat
  BY <1>1, OccurrencesFinite
<1>5. IsFiniteSet(B \ {1})
      /\ Cardinality(B \ {1}) = IF 1 \in B THEN Cardinality(B) - 1 ELSE Cardinality(B)
  BY <1>4, FS_RemoveElement
<1>6. Cardinality(A) <= Cardinality(B \ {1})
  BY <1>3, <1>5, FS_Injection
<1>7. 1 \in B <=> Head(s) = p
  BY <1>1 DEF Occurrences
<1> QED BY <1>4, <1>5, <1>6, <1>7

(* Messages added in any order, each plan at most once.                     *)
LEMMA OccurrencesConcat ==
  ASSUME NEW S, NEW s \in Seq(S), NEW t \in Seq(S), NEW p,
         \A i, j \in 1..Len(t) : t[i] = t[j] => i = j
  PROVE  Cardinality(Occurrences(s \o t, p))
            <= Cardinality(Occurrences(s, p)) + (IF \E j \in 1..Len(t) : t[j] = p THEN 1 ELSE 0)
<1>1. /\ Len(s) \in Nat /\ Len(t) \in Nat /\ s \o t \in Seq(S)
      /\ Len(s \o t) = Len(s) + Len(t)
      /\ \A i \in 1..Len(s) : (s \o t)[i] = s[i]
      /\ \A i \in (Len(s) + 1)..(Len(s) + Len(t)) : (s \o t)[i] = t[i - Len(s)]
  OBVIOUS
<1>2. \A i \in 1..(Len(s) + Len(t)) : i \in 1..Len(s) \/ i \in (Len(s) + 1)..(Len(s) + Len(t))
  BY <1>1
<1>3. ASSUME NEW i \in Occurrences(s \o t, p), i \notin Occurrences(s, p)
      PROVE  i - Len(s) \in 1..Len(t) /\ t[i - Len(s)] = p /\ i \in Nat
  <2>1. i \in 1..(Len(s) + Len(t)) /\ (s \o t)[i] = p
    BY <1>1, <1>3 DEF Occurrences
  <2>2. i \in (Len(s) + 1)..(Len(s) + Len(t))
    BY <1>1, <1>2, <1>3, <2>1 DEF Occurrences
  <2> QED BY <1>1, <2>1, <2>2
<1>4. IsFiniteSet(Occurrences(s, p)) /\ Cardinality(Occurrences(s, p)) \in Nat
  BY OccurrencesFinite
<1>5. CASE \E j \in 1..Len(t) : t[j] = p
  <2>1. PICK j \in 1..Len(t) : t[j] = p
    BY <1>5
  <2> PICK k : k = Len(s) + j
    OBVIOUS
  <2> DEFINE C == Occurrences(s, p)
  <2>2. Occurrences(s \o t, p) \in SUBSET (C \cup {k})
    <3> SUFFICES ASSUME NEW i \in Occurrences(s \o t, p), i \notin Occurrences(s, p)
                 PROVE  i = k
      OBVIOUS
    <3>1. i - Len(s) \in 1..Len(t) /\ t[i - Len(s)] = t[j] /\ i \in Nat
      BY <1>3, <2>1
    <3>2. i - Len(s) = j
      BY <3>1, <2>1
    <3> QED BY <3>1, <3>2, <1>1
  <2>3. IsFiniteSet(C) /\ Cardinality(C) \in Nat
    BY <1>4
  <2>4. Cardinality(Occurrences(s \o t, p)) \in Nat
    BY <1>1, OccurrencesFinite
  <2> HIDE DEF C
  <2>5. /\ IsFiniteSet(C \cup {k})
        /\ Cardinality(C \cup {k}) = IF k \in C THEN Cardinality(C) ELSE Cardinality(C) + 1
    BY <2>3, FS_AddElement
  <2>6. Cardinality(Occurrences(s \o t, p)) <= Cardinality(C \cup {k})
    BY <2>2, <2>5, FS_Subset
  <2>7. Cardinality(Occurrences(s \o t, p)) <= Cardinality(C) + 1
    BY <2>3, <2>4, <2>5, <2>6
  <2> QED BY <1>5, <2>7 DEF C
<1>6. CASE ~ \E j \in 1..Len(t) : t[j] = p
  <2>1. Occurrences(s \o t, p) \in SUBSET Occurrences(s, p)
    BY <1>3, <1>6
  <2> QED BY <1>4, <1>6, <2>1, FS_Subset
<1> QED BY <1>5, <1>6

LEMMA KeysFinite ==
  ASSUME NEW K \in SUBSET (1..(MaxAttempts - 1))
  PROVE  IsFiniteSet(K) /\ Cardinality(K) \in Nat /\ Cardinality(K) <= MaxAttempts - 1
<1>1. 1 \in Int /\ MaxAttempts - 1 \in Int /\ MaxAttempts - 1 \in Nat
  BY DeliveryAssumption
<1>2. IsFiniteSet(1..(MaxAttempts - 1)) /\ Cardinality(1..(MaxAttempts - 1)) = MaxAttempts - 1
  BY <1>1, FS_Interval
<1> QED BY <1>2, FS_Subset, FS_CardinalityType

LEMMA DispatchedFinite ==
  ASSUME NEW n \in Nat, NEW D \in SUBSET (1..n)
  PROVE  IsFiniteSet(D) /\ Cardinality(D) \in Nat /\ Cardinality(D) <= n
<1>1. IsFiniteSet(1..n) /\ Cardinality(1..n) = n
  BY FS_Interval
<1> QED BY <1>1, FS_Subset, FS_CardinalityType

LEMMA Amounts ==
  ASSUME IInv, Queues, NEW p \in Plans
  PROVE  /\ records[p] \in Seq(Outcomes) /\ Len(records[p]) \in Nat
         /\ Held(p) \in {0, 1} /\ Told(p) \in {0, 1}
         /\ Cardinality(Occurrences(intents, p)) \in Nat
         /\ IsFiniteSet(Keys(p)) /\ Cardinality(Keys(p)) \in Nat
         /\ IsFiniteSet(Dispatched) /\ Cardinality(Dispatched) \in Nat
         /\ resends \in Nat
<1>1. records[p] \in Seq(Outcomes)
  BY DEF IInv, Types
<1>2. Keys(p) \in SUBSET (1..(MaxAttempts - 1))
  BY DEF Keys
<1>3. Len(replay) \in Nat /\ Dispatched \in SUBSET (1..Len(replay))
  BY DEF Queues, Dispatched
<1>4. Cardinality(Occurrences(intents, p)) \in Nat
  BY OccurrencesFinite DEF Queues
<1>5. Len(records[p]) \in Nat
  BY <1>1
<1>6. IsFiniteSet(Keys(p)) /\ Cardinality(Keys(p)) \in Nat
  BY <1>2, KeysFinite
<1>7. IsFiniteSet(Dispatched) /\ Cardinality(Dispatched) \in Nat
  BY <1>3, DispatchedFinite
<1>8. Held(p) \in {0, 1} /\ Told(p) \in {0, 1}
  BY DEF Held, Told
<1>9. resends \in Nat
  BY DEF Queues
<1> QED BY <1>1, <1>4, <1>5, <1>6, <1>7, <1>8, <1>9

LEMMA Sums ==
  ASSUME IInv, Attempts, NEW p \in Plans
  PROVE  Spent(p) \in Nat /\ Granted(p) \in Nat /\ Spent(p) <= Granted(p)
<1>1. Held(p) \in Nat /\ Told(p) \in Nat
  BY Amounts DEF Attempts
<1>2. Spent(p) \in Nat
  BY <1>1, Amounts DEF Attempts, Spent
<1>3. Granted(p) \in Nat
  BY <1>1, Amounts DEF Attempts, Granted
<1> QED BY <1>2, <1>3 DEF Attempts

(* Nobody is granted anything, and nobody has more before him.              *)
LEMMA NothingMore ==
  ASSUME IInv, Attempts, Queues', UNCHANGED <<records, arrived, retried, replay, resends>>,
         \A p \in Plans : Held(p)' + Cardinality(Occurrences(intents', p))
                             <= Held(p) + Cardinality(Occurrences(intents, p))
  PROVE  Attempts'
<1> SUFFICES ASSUME NEW p \in Plans PROVE Spent(p)' <= Granted(p)'
  BY DEF Attempts
<1>1. Spent(p) <= Granted(p)
  BY DEF Attempts
<1>2. Cardinality(Occurrences(intents', p)) \in Nat /\ Held(p)' \in {0, 1}
  BY OccurrencesFinite DEF Queues, Held
<1>3. Granted(p)' = Granted(p)
  BY DEF Granted, Told, Keys, Dispatched
<1>4. Spent(p)' = Len(records[p]) + Held(p)' + Cardinality(Occurrences(intents', p))
  BY DEF Spent
<1> DEFINE h == Held(p)'
<1> HIDE DEF h
<1>5. /\ h \in Nat /\ h + Cardinality(Occurrences(intents', p)) <= Held(p) + Cardinality(Occurrences(intents, p))
      /\ Spent(p)' = Len(records[p]) + h + Cardinality(Occurrences(intents', p))
  BY <1>2, <1>4 DEF h
<1>6. Held(p) \in Nat /\ Told(p) \in Nat
  BY Amounts DEF Attempts
<1>7. Granted(p) \in Nat
  BY <1>6, Amounts DEF Attempts, Granted
<1>8. /\ Len(records[p]) \in Nat /\ Cardinality(Occurrences(intents, p)) \in Nat
      /\ Cardinality(Occurrences(intents', p)) \in Nat
  BY <1>2, Amounts DEF Attempts
<1>9. Spent(p) = Len(records[p]) + Held(p) + Cardinality(Occurrences(intents, p))
  BY DEF Spent
<1> DEFINE l == Len(records[p])
           was == Held(p) + Cardinality(Occurrences(intents, p))
           is == h + Cardinality(Occurrences(intents', p))
           g == Granted(p)
<1>10. /\ l \in Nat /\ was \in Nat /\ is \in Nat /\ g \in Nat
       /\ l + was <= g /\ is <= was
  <2>1. l \in Nat /\ was \in Nat /\ is \in Nat /\ g \in Nat
    BY <1>5, <1>6, <1>7, <1>8
  <2>2. Spent(p) = l + was
    BY <1>6, <1>8, <1>9
  <2>3. l + was <= g
    BY <1>1, <2>2
  <2>4. is <= was
    BY <1>5
  <2> QED BY <2>1, <2>3, <2>4
<1>11. Spent(p)' = l + is
  BY <1>5, <1>8
<1> HIDE DEF l, was, is, g
<1>12. l + is <= g
  BY <1>10
<1> QED BY <1>3, <1>11, <1>12 DEF g

(* A message that is taken is one less to come, and one open at most.       *)
LEMMA TakingAttempts ==
  ASSUME IInv, Attempts, NEW p \in Plans, Take(p),
         \/ UNCHANGED turn
         \/ turn'.at # "idle" /\ turn'.plan = p
  PROVE  Attempts'
<1>1. /\ turn.at = "idle" /\ intents # <<>> /\ p = Head(intents) /\ intents' = Tail(intents)
      /\ UNCHANGED <<records, arrived, retried, replay, resends, replays, scan>>
  BY DEF Take, notifierRows, maintenanceRows, counters
<1>2. intents \in Seq(Plans) /\ intents' \in Seq(Plans)
  BY <1>1 DEF Attempts, Queues
<1>3. Queues'
  BY <1>1, <1>2 DEF Attempts, Queues
<1>4. ASSUME NEW q \in Plans
      PROVE  Held(q)' + Cardinality(Occurrences(intents', q))
                <= Held(q) + Cardinality(Occurrences(intents, q))
  <2>1. Held(q) = 0 /\ Held(q)' \in {0, IF Head(intents) = q THEN 1 ELSE 0}
    BY <1>1 DEF Held
  <2>2. /\ Cardinality(Occurrences(intents, q)) \in Nat /\ Cardinality(Occurrences(intents', q)) \in Nat
        /\ Cardinality(Occurrences(intents', q)) + (IF Head(intents) = q THEN 1 ELSE 0)
              <= Cardinality(Occurrences(intents, q))
    BY <1>1, <1>2, OccurrencesTail, OccurrencesFinite
  <2> DEFINE h == Held(q)'
  <2> HIDE DEF h
  <2>3. Held(q) = 0 /\ h \in {0, IF Head(intents) = q THEN 1 ELSE 0}
    BY <2>1 DEF h
  <2>4. h + Cardinality(Occurrences(intents', q)) <= Held(q) + Cardinality(Occurrences(intents, q))
    BY <2>2, <2>3
  <2> QED BY <2>4 DEF h
<1> QED BY <1>1, <1>3, <1>4, NothingMore

(* An answer, a crash and the steps of others queue no intent.              *)
LEMMA QuietAttempts ==
  ASSUME IInv, Attempts,
         UNCHANGED <<records, arrived, retried, replay, resends, replays, intents>>,
         scan' \subseteq Plans \X (Nat \ {0}),
         \/ UNCHANGED turn
         \/ turn' = Idle
         \/ turn.at # "idle" /\ turn'.plan = turn.plan
  PROVE  Attempts'
<1>1. Queues'
  BY DEF Attempts, Queues
<1>2. ASSUME NEW q \in Plans
      PROVE  Held(q)' + Cardinality(Occurrences(intents', q))
                <= Held(q) + Cardinality(Occurrences(intents, q))
  <2>1. Held(q)' \in {0, 1} /\ Held(q) \in {0, 1} /\ (Held(q)' = 1 => Held(q) = 1)
    BY DEF Held, Idle
  <2>2. Cardinality(Occurrences(intents, q)) \in Nat /\ intents' = intents
    BY Amounts DEF Attempts
  <2> DEFINE h == Held(q)'
  <2> HIDE DEF h
  <2>3. h \in {0, 1} /\ (h = 1 => Held(q) = 1)
    BY <2>1 DEF h
  <2>4. h + Cardinality(Occurrences(intents', q)) <= Held(q) + Cardinality(Occurrences(intents, q))
    BY <2>1, <2>2, <2>3
  <2> QED BY <2>4 DEF h
<1> QED BY <1>1, <1>2, NothingMore

(* The open message becomes a record.                                       *)
LEMMA FinishingAttempts ==
  ASSUME IInv, Attempts, Finish
  PROVE  Attempts'
<1> DEFINE p == turn.plan
<1>1. /\ p \in Plans /\ turn.at # "idle" /\ turn.outcome \in Outcomes
      /\ records' = [records EXCEPT ![p] = Append(@, turn.outcome)] /\ turn' = Idle
      /\ UNCHANGED <<arrived, retried, replay, resends, replays, intents, scan>>
  BY DEF Finish, IInv, Open, Types, maintenanceRows, counters
<1>2. Queues'
  BY <1>1 DEF Attempts, Queues
<1> SUFFICES ASSUME NEW q \in Plans PROVE Spent(q)' <= Granted(q)'
  BY <1>2 DEF Attempts
<1>3. Granted(q)' = Granted(q) /\ Held(q)' = 0
  BY <1>1 DEF Granted, Told, Keys, Dispatched, Held, Idle
<1>4. Len(records'[q]) = Len(records[q]) + Held(q)
  <2>1. CASE q = p
    BY <1>1, <2>1 DEF IInv, Types, Held
  <2>2. CASE q # p
    <3>1. records'[q] = records[q] /\ Held(q) = 0 /\ Len(records[q]) \in Nat
      BY <1>1, <2>2 DEF IInv, Types, Held
    <3> QED BY <3>1
  <2> QED BY <2>1, <2>2
<1>5. Spent(q)' = Len(records'[q]) + 0 + Cardinality(Occurrences(intents, q))
  BY <1>1, <1>3 DEF Spent
<1> QED BY <1>3, <1>4, <1>5, Amounts DEF Attempts, Spent

(* One intent more, for e, and something is granted to e for it.            *)
LEMMA OneMoreAttempt ==
  ASSUME IInv, Attempts, Queues', NEW e \in Plans, intents' = Append(intents, e),
         UNCHANGED <<records, turn>>,
         \A p \in Plans : Granted(p)' >= Granted(p) /\ Granted(p)' \in Nat,
         Granted(e)' >= Granted(e) + 1
  PROVE  Attempts'
<1> SUFFICES ASSUME NEW p \in Plans PROVE Spent(p)' <= Granted(p)'
  BY DEF Attempts
<1>1. intents \in Seq(Plans)
  BY DEF Attempts, Queues
<1>2. Cardinality(Occurrences(intents', p))
        = Cardinality(Occurrences(intents, p)) + (IF e = p THEN 1 ELSE 0)
  BY <1>1, OccurrencesAppend
<1>3. Spent(p)' = Len(records[p]) + Held(p) + Cardinality(Occurrences(intents', p))
  BY DEF Spent, Held
<1>4. Spent(p)' = Spent(p) + (IF e = p THEN 1 ELSE 0)
  <2>1. Held(p) \in Nat /\ Len(records[p]) \in Nat /\ Cardinality(Occurrences(intents, p)) \in Nat
    BY Amounts DEF Attempts
  <2> QED BY <1>2, <1>3, <2>1 DEF Spent
<1>5. Spent(p) \in Nat /\ Spent(p) <= Granted(p) /\ Granted(p) \in Nat
  BY Sums
<1> DEFINE g == Granted(p)'
<1> HIDE DEF g
<1>6. g \in Nat /\ g >= Granted(p) /\ (e = p => g >= Granted(p) + 1)
  BY DEF g
<1>7. Spent(p) + (IF e = p THEN 1 ELSE 0) <= g
  BY <1>4, <1>5, <1>6
<1> QED BY <1>4, <1>7 DEF g

LEMMA AnnouncingAttempts ==
  ASSUME IInv, Attempts, Announce
  PROVE  Attempts'
<1> PICK n, e : n = arrived + 1 /\ e = Arrivals[n]
  OBVIOUS
<1>1. /\ arrived < Len(Arrivals) /\ arrived' = n /\ intents' = Append(intents, e)
      /\ UNCHANGED <<records, turn, retried, replay, resends, replays, scan>>
  BY DEF Announce, notifierRows, maintenanceRows, counters
<1>2. /\ arrived \in 0..Len(Arrivals) /\ Len(Arrivals) \in Nat /\ intents \in Seq(Plans)
      /\ DOMAIN Arrivals = 1..Len(Arrivals)
  BY DeliveryAssumption DEF Attempts, Queues
<1>3. n \in 1..Len(Arrivals) /\ e \in Plans
  BY <1>1, <1>2 DEF Plans, Range
<1>4. Queues'
  BY <1>1, <1>2, <1>3 DEF Attempts, Queues
<1>5. ASSUME NEW p \in Plans
      PROVE  Told(p)' = Told(p) + (IF e = p THEN 1 ELSE 0)
  <2>1. \A k \in 1..n : k \in 1..arrived \/ k = n
    BY <1>2
  <2>2. \A k \in 1..arrived : k \in DOMAIN Arrivals /\ k # n /\ k \in 1..n
    BY <1>2, <1>3
  <2>3. n \in 1..n /\ n \in DOMAIN Arrivals
    BY <1>2, <1>3
  <2>4. CASE e = p
    <3>1. \A k \in 1..arrived : Arrivals[k] # p
      BY <2>2, <2>3, <2>4, DeliveryAssumption DEF IsInjective
    <3>2. \E k \in 1..n : Arrivals[k] = p
      BY <2>3, <2>4
    <3> QED BY <1>1, <2>4, <3>1, <3>2 DEF Told
  <2>5. CASE e # p
    <3>1. (\E k \in 1..n : Arrivals[k] = p) <=> (\E k \in 1..arrived : Arrivals[k] = p)
      BY <2>1, <2>2, <2>5
    <3> QED BY <1>1, <2>5, <3>1 DEF Told
  <2> QED BY <2>4, <2>5
<1>6. ASSUME NEW p \in Plans
      PROVE  Granted(p)' = Granted(p) + (IF e = p THEN 1 ELSE 0) /\ Granted(p) \in Nat
  <2>1. Granted(p)' = Told(p)' + Cardinality(Keys(p)) + Cardinality(Dispatched) + resends
    BY <1>1 DEF Granted, Keys, Dispatched
  <2>2. Granted(p)' = Told(p) + (IF e = p THEN 1 ELSE 0) + Cardinality(Keys(p)) + Cardinality(Dispatched) + resends
    BY <1>5, <2>1
  <2> QED BY <2>2, Amounts DEF Attempts, Granted
<1>7. \A p \in Plans : Granted(p)' >= Granted(p) /\ Granted(p)' \in Nat
  <2> SUFFICES ASSUME NEW p \in Plans PROVE Granted(p)' >= Granted(p) /\ Granted(p)' \in Nat
    OBVIOUS
  <2> QED BY <1>6
<1>8. Granted(e)' >= Granted(e) + 1
  BY <1>3, <1>6
<1> QED BY <1>1, <1>3, <1>4, <1>7, <1>8, OneMoreAttempt

LEMMA ResendingAttempts ==
  ASSUME IInv, Attempts, ResendIntent
  PROVE  Attempts'
<1>1. /\ resends' = resends + 1
      /\ UNCHANGED <<records, turn, arrived, retried, replay, replays, scan>>
  BY DEF ResendIntent, notifierRows, maintenanceRows
<1>2. /\ arrived \in 0..Len(Arrivals) /\ Len(Arrivals) \in Nat /\ intents \in Seq(Plans)
      /\ DOMAIN Arrivals = 1..Len(Arrivals) /\ resends \in Nat
  BY DeliveryAssumption DEF Attempts, Queues
<1>3. PICK k \in 1..arrived : intents' = Append(intents, Arrivals[k])
  BY DEF ResendIntent
<1>4. Arrivals[k] \in Plans
  BY <1>2 DEF Plans, Range
<1>5. Queues'
  BY <1>1, <1>2, <1>3, <1>4 DEF Attempts, Queues
<1>6. ASSUME NEW p \in Plans
      PROVE  Granted(p)' = Granted(p) + 1 /\ Granted(p) \in Nat
  <2>1. Granted(p)' = Told(p) + Cardinality(Keys(p)) + Cardinality(Dispatched) + (resends + 1)
    BY <1>1 DEF Granted, Told, Keys, Dispatched
  <2> QED BY <2>1, Amounts DEF Attempts, Granted
<1>7. ASSUME NEW p \in Plans PROVE Granted(p)' >= Granted(p) + 1 /\ Granted(p)' >= Granted(p) /\ Granted(p)' \in Nat
  BY <1>6
<1> QED BY <1>1, <1>3, <1>4, <1>5, <1>7, OneMoreAttempt

LEMMA ReplacedRequest ==
  ASSUME NEW S, NEW s \in Seq(S), NEW r \in 1..Len(s), NEW x \in S
  PROVE  /\ [s EXCEPT ![r] = x] \in Seq(S) /\ Len([s EXCEPT ![r] = x]) = Len(s)
         /\ [s EXCEPT ![r] = x][r] = x
         /\ \A q \in 1..Len(s) : q # r => [s EXCEPT ![r] = x][q] = s[q]
OBVIOUS

(* A request is dispatched once; one that is rejected is not yet.           *)
LEMMA DispatchingAttempts ==
  ASSUME IInv, Attempts, NEW r \in DOMAIN replay, DispatchReplay(r)
  PROVE  Attempts'
<1>1. /\ replay[r].state # "completed"
      /\ UNCHANGED <<records, turn, arrived, retried, resends, replays, scan>>
  BY DEF DispatchReplay, notifierRows, counters
<1>2. /\ replay \in Seq(Requests) /\ Len(replay) \in Nat /\ r \in 1..Len(replay)
      /\ replay[r] \in Requests /\ replay[r].plan \in Plans /\ intents \in Seq(Plans)
  <2>1. replay \in Seq(Requests) /\ intents \in Seq(Plans)
    BY DEF Attempts, Queues
  <2>2. DOMAIN replay = 1..Len(replay) /\ Len(replay) \in Nat /\ replay[r] \in Requests
    BY <2>1
  <2> QED BY <2>1, <2>2 DEF Requests
<1>3. ASSUME NEW to \in {"rejected_by_env_guard", "completed"},
             replay' = [replay EXCEPT ![r].state = to]
      PROVE  /\ replay' \in Seq(Requests) /\ Len(replay') = Len(replay)
             /\ replay'[r].state = to
             /\ \A q \in 1..Len(replay) : q # r => replay'[q] = replay[q]
  <2> PICK x : x = [replay[r] EXCEPT !.state = to]
    OBVIOUS
  <2>1. x \in Requests /\ x.state = to
    BY <1>2 DEF Requests
  <2>2. replay' = [replay EXCEPT ![r] = x]
    BY <1>3
  <2>3. /\ [replay EXCEPT ![r] = x] \in Seq(Requests)
        /\ Len([replay EXCEPT ![r] = x]) = Len(replay)
        /\ [replay EXCEPT ![r] = x][r] = x
        /\ \A q \in 1..Len(replay) : q # r => [replay EXCEPT ![r] = x][q] = replay[q]
    BY <1>2, <2>1, ReplacedRequest
  <2> QED BY <2>1, <2>2, <2>3
<1>4. CASE /\ replay' = [replay EXCEPT ![r].state = "completed"]
           /\ intents' = Append(intents, replay[r].plan)
  <2>1. Queues'
    BY <1>1, <1>2, <1>3, <1>4 DEF Attempts, Queues
  <2>2. Dispatched' = Dispatched \cup {r} /\ r \notin Dispatched
    BY <1>1, <1>2, <1>3, <1>4 DEF Dispatched
  <2>3. ASSUME NEW p \in Plans PROVE Granted(p)' = Granted(p) + 1
    <3>1. Granted(p)' = Told(p) + Cardinality(Keys(p)) + Cardinality(Dispatched') + resends
      BY <1>1 DEF Granted, Told, Keys
    <3>2. Cardinality(Dispatched') = Cardinality(Dispatched) + 1
      BY <2>2, Amounts, FS_AddElement DEF Attempts
    <3>3. /\ Told(p) \in Nat /\ Cardinality(Keys(p)) \in Nat /\ Cardinality(Dispatched) \in Nat
          /\ resends \in Nat
      BY Amounts DEF Attempts
    <3> QED BY <3>1, <3>2, <3>3 DEF Granted
  <2>4. ASSUME NEW p \in Plans
        PROVE  Granted(p)' >= Granted(p) + 1 /\ Granted(p)' >= Granted(p) /\ Granted(p)' \in Nat
    BY <2>3, Sums
  <2> QED BY <1>1, <1>2, <1>4, <2>1, <2>4, OneMoreAttempt
<1>5. CASE /\ replay' = [replay EXCEPT ![r].state = "rejected_by_env_guard"]
           /\ UNCHANGED intents
  <2>1. Queues'
    BY <1>1, <1>2, <1>3, <1>5 DEF Attempts, Queues
  <2>2. Dispatched' = Dispatched
    BY <1>1, <1>2, <1>3, <1>5 DEF Dispatched
  <2>3. \A p \in Plans : Spent(p)' = Spent(p) /\ Granted(p)' = Granted(p)
    BY <1>1, <1>5, <2>2 DEF Spent, Held, Granted, Told, Keys
  <2> QED BY <2>1, <2>3 DEF Attempts
<1> QED BY <1>4, <1>5 DEF DispatchReplay

LEMMA RequestingAttempts ==
  ASSUME IInv, Attempts, NEW p \in Plans, RequestReplay(p)
  PROVE  Attempts'
<1> DEFINE new == [plan |-> p, state |-> "requested"]
<1>1. /\ replay' = Append(replay, new) /\ replays' = replays + 1
      /\ UNCHANGED <<records, turn, arrived, retried, resends, intents, scan>>
  BY DEF RequestReplay, notifierRows, streams
<1>2. /\ replay \in Seq(Requests) /\ Len(replay) \in Nat /\ Len(replay) = replays
      /\ new \in Requests /\ new.state = "requested"
  BY DEF Attempts, Queues, Requests
<1> HIDE DEF new
<1>3. /\ replay' \in Seq(Requests) /\ Len(replay') = Len(replay) + 1
      /\ replay'[Len(replay) + 1] = new
      /\ \A q \in 1..Len(replay) : replay'[q] = replay[q]
  BY <1>1, <1>2
<1>4. Queues'
  BY <1>1, <1>2, <1>3 DEF Attempts, Queues
<1>5. Dispatched' = Dispatched
  <2>1. \A q : q \in 1..(Len(replay) + 1) <=> q \in 1..Len(replay) \/ q = Len(replay) + 1
    BY <1>2
  <2> QED BY <1>2, <1>3, <2>1 DEF Dispatched
<1>6. \A q \in Plans : Spent(q)' = Spent(q) /\ Granted(q)' = Granted(q)
  BY <1>1, <1>5 DEF Spent, Held, Granted, Told, Keys
<1> QED BY <1>4, <1>6 DEF Attempts

(* What is spent and what is granted may grow alike.                        *)
LEMMA Balance ==
  ASSUME NEW a \in Nat, NEW b \in Nat, NEW o \in Nat, NEW o1 \in Nat, NEW t \in Nat,
         NEW k \in Nat, NEW k1 \in Nat, NEW d \in Nat, NEW r \in Nat, NEW more \in Nat,
         a + b + o <= t + k + d + r, o1 <= o + more, k1 >= k + more
  PROVE  a + b + o1 <= t + k1 + d + r
OBVIOUS

(* The scan queues a plan's message only with a key of that plan that is    *)
(* new and below the ceiling.                                               *)
LEMMA ScanningAttempts ==
  ASSUME IInv, Attempts, ScanWrite
  PROVE  Attempts'
<1> DEFINE retries == {c \in scan : ~Exhausted(c[2])}
           fresh == {c \in retries : RetryKey(c[1], c[2]) \notin retried}
           S == {c[1] : c \in fresh}
<1>1. /\ retried' = retried \cup {RetryKey(c[1], c[2]) : c \in fresh}
      /\ scan' = {}
      /\ UNCHANGED <<records, turn, replay, arrived, resends, replays>>
  BY DEF ScanWrite, notifierRows, counters
<1>2. PICK sent \in SetToSeqs(S) : intents' = intents \o sent
  BY DEF ScanWrite
<1>3. intents \in Seq(Plans) /\ scan \subseteq Plans \X (Nat \ {0})
  BY DEF Attempts, Queues
<1>4. S \subseteq Plans
  BY <1>3
<1>5. /\ sent \in Seq(Plans) /\ Len(sent) \in Nat
      /\ \A i, j \in 1..Len(sent) : sent[i] = sent[j] => i = j
      /\ \A i \in 1..Len(sent) : sent[i] \in S
  <2> HIDE DEF S
  <2>1. IsFiniteSet(Plans)
    <3>1. Arrivals \in Seq(Plans) /\ Plans = {Arrivals[i] : i \in DOMAIN Arrivals}
      BY DeliveryAssumption DEF Plans, Range
    <3> HIDE DEF Plans
    <3>2. Len(Arrivals) \in Nat /\ DOMAIN Arrivals = 1..Len(Arrivals)
      BY <3>1
    <3>3. Arrivals \in [1..Len(Arrivals) -> Plans]
      BY <3>1, <3>2
    <3>4. \A p \in Plans : \E i \in 1..Len(Arrivals) : Arrivals[i] = p
      BY <3>1, <3>2
    <3>5. Arrivals \in Surjection(1..Len(Arrivals), Plans)
      BY <3>3, <3>4 DEF Surjection
    <3>6. IsFiniteSet(1..Len(Arrivals))
      BY <3>2, FS_Interval
    <3> QED BY <3>5, <3>6, FS_Surjection
  <2>2. Cardinality(S) \in Nat
    BY <1>4, <2>1, FS_Subset, FS_CardinalityType
  <2>3. /\ sent \in [1..Cardinality(S) -> S]
        /\ \A i, j \in 1..Cardinality(S) : i # j => sent[i] # sent[j]
    BY DEF SetToSeqs
  <2>4. sent \in Seq(Plans) /\ Len(sent) = Cardinality(S)
    BY <1>4, <2>2, <2>3
  <2> QED BY <2>2, <2>3, <2>4
<1>6. Queues'
  BY <1>1, <1>2, <1>3, <1>5 DEF Attempts, Queues
<1> SUFFICES ASSUME NEW p \in Plans PROVE Spent(p)' <= Granted(p)'
  BY <1>6 DEF Attempts
<1>7. Cardinality(Occurrences(intents', p))
        <= Cardinality(Occurrences(intents, p)) + (IF \E j \in 1..Len(sent) : sent[j] = p THEN 1 ELSE 0)
  BY <1>2, <1>3, <1>5, OccurrencesConcat
<1>8. Cardinality(Keys(p)') >= Cardinality(Keys(p)) + (IF \E j \in 1..Len(sent) : sent[j] = p THEN 1 ELSE 0)
  <2>1. Keys(p) \subseteq Keys(p)'
    BY <1>1 DEF Keys
  <2>2. Keys(p)' \in SUBSET (1..(MaxAttempts - 1))
    BY DEF Keys
  <2>3. IsFiniteSet(Keys(p)') /\ Cardinality(Keys(p)') \in Nat
    BY <2>2, KeysFinite
  <2>4. IsFiniteSet(Keys(p)) /\ Cardinality(Keys(p)) \in Nat
    BY Amounts DEF Attempts
  <2>5. CASE \E j \in 1..Len(sent) : sent[j] = p
    <3>1. p \in S
      BY <1>5, <2>5
    <3>2. PICK c \in fresh : p = c[1]
      BY <3>1
    <3>3. PICK n \in Nat \ {0} : c = <<p, n>>
      BY <1>3, <3>2
    <3>4. ~Exhausted(n) /\ <<p, n>> \notin retried /\ <<p, n>> \in retried'
      <4>1. c[1] = p /\ c[2] = n
        BY <3>3
      <4>2. ~Exhausted(c[2]) /\ RetryKey(c[1], c[2]) \notin retried
        BY <3>2
      <4>3. RetryKey(c[1], c[2]) \in {RetryKey(d[1], d[2]) : d \in fresh}
        BY <3>2
      <4>4. RetryKey(c[1], c[2]) \in retried'
        BY <1>1, <4>3
      <4>5. RetryKey(c[1], c[2]) = <<p, n>>
        BY <4>1 DEF RetryKey
      <4> QED BY <4>1, <4>2, <4>4, <4>5
    <3>5. n \in 1..(MaxAttempts - 1)
      BY <3>3, <3>4, DeliveryAssumption DEF Exhausted
    <3>6. n \in Keys(p)' /\ n \notin Keys(p)
      BY <3>4, <3>5 DEF Keys
    <3>7. Keys(p) \cup {n} \in SUBSET Keys(p)'
      BY <2>1, <3>6
    <3>8. Cardinality(Keys(p) \cup {n}) = Cardinality(Keys(p)) + 1
      BY <2>4, <3>6, FS_AddElement
    <3>9. Cardinality(Keys(p) \cup {n}) <= Cardinality(Keys(p)')
      BY <2>3, <3>7, FS_Subset
    <3> QED BY <2>3, <2>4, <2>5, <3>8, <3>9
  <2>6. CASE ~ \E j \in 1..Len(sent) : sent[j] = p
    <3>1. Cardinality(Keys(p)) <= Cardinality(Keys(p)')
      BY <2>1, <2>3, FS_Subset
    <3> QED BY <2>3, <2>4, <2>6, <3>1
  <2> QED BY <2>5, <2>6
<1>9. /\ Spent(p)' = Len(records[p]) + Held(p) + Cardinality(Occurrences(intents', p))
      /\ Granted(p)' = Told(p) + Cardinality(Keys(p)') + Cardinality(Dispatched) + resends
  BY <1>1 DEF Spent, Held, Granted, Told, Dispatched
<1> DEFINE more == IF \E j \in 1..Len(sent) : sent[j] = p THEN 1 ELSE 0
           K == Cardinality(Keys(p)')
           O == Cardinality(Occurrences(intents', p))
<1>10. more \in Nat /\ K \in Nat /\ O \in Nat
  <2>1. Keys(p)' \in SUBSET (1..(MaxAttempts - 1))
    BY DEF Keys
  <2> QED BY <1>6, <2>1, KeysFinite, OccurrencesFinite DEF Queues
<1> HIDE DEF more, K, O, retries, fresh, S
<1>11. O <= Cardinality(Occurrences(intents, p)) + more /\ K >= Cardinality(Keys(p)) + more
  BY <1>7, <1>8 DEF more, K, O
<1>12. /\ Len(records[p]) \in Nat /\ Held(p) \in Nat /\ Cardinality(Occurrences(intents, p)) \in Nat
       /\ Told(p) \in Nat /\ Cardinality(Keys(p)) \in Nat /\ Cardinality(Dispatched) \in Nat
       /\ resends \in Nat
  BY Amounts DEF Attempts
<1>13. Len(records[p]) + Held(p) + Cardinality(Occurrences(intents, p))
          <= Told(p) + Cardinality(Keys(p)) + Cardinality(Dispatched) + resends
  BY DEF Attempts, Spent, Granted
<1>14. Len(records[p]) + Held(p) + O <= Told(p) + K + Cardinality(Dispatched) + resends
  BY <1>10, <1>11, <1>12, <1>13, Balance
<1> QED BY <1>9, <1>14 DEF K, O

(* Of the other steps, each that changes a count has its lemma.             *)
LEMMA OthersAttempts ==
  ASSUME IInv, Attempts, Others
  PROVE  Attempts'
<1>1. ASSUME NEW p \in Plans, Ignore(p) PROVE Attempts'
  BY <1>1, TakingAttempts DEF Ignore
<1>2. ASSUME NEW p \in Plans, RequestReplay(p) PROVE Attempts'
  BY <1>2, RequestingAttempts
<1>3. ASSUME NEW r \in DOMAIN replay, DispatchReplay(r) PROVE Attempts'
  BY <1>3, DispatchingAttempts
<1>4. CASE ScanRead
  <2>1. /\ scan' = {<<p, Len(records[p])>> :
                      p \in {q \in due : status[q] = "failed_retryable" /\ Latest(q) = "retryable"}}
        /\ UNCHANGED <<records, arrived, retried, replay, resends, replays, intents, turn>>
    BY <1>4 DEF ScanRead, notifierRows, maintenanceRows, streams, counters
  <2>2. ASSUME NEW p \in due, Latest(p) = "retryable"
        PROVE  p \in Plans /\ Len(records[p]) \in Nat \ {0}
    <3>1. p \in Plans /\ records[p] \in Seq(Outcomes)
      BY DEF IInv, Rows, Types
    <3>2. records[p] # <<>>
      BY <2>2 DEF Latest
    <3> QED BY <3>1, <3>2
  <2>3. scan' \subseteq Plans \X (Nat \ {0})
    BY <2>1, <2>2
  <2> QED BY <2>1, <2>3, QuietAttempts
<1>5. CASE ScanWrite
  BY <1>5, ScanningAttempts
<1>6. CASE HandleResult \/ StopMaintenance \/ SwitchTransport
  <2>1. UNCHANGED <<records, arrived, retried, replay, resends, replays, intents, turn>>
    BY <1>6 DEF HandleResult, StopMaintenance, SwitchTransport, notifierRows, maintenanceRows,
                streams, counters
  <2>2. scan' = scan \/ scan' = {}
    BY <1>6 DEF HandleResult, StopMaintenance, SwitchTransport
  <2>3. scan' \subseteq Plans \X (Nat \ {0})
    BY <2>2 DEF Attempts, Queues
  <2> QED BY <2>1, <2>3, QuietAttempts
<1>7. CASE Announce
  BY <1>7, AnnouncingAttempts
<1>8. CASE ResendIntent
  BY <1>8, ResendingAttempts
<1> QED BY <1>1, <1>2, <1>3, <1>4, <1>5, <1>6, <1>7, <1>8 DEF Others, Scan

(* Every step keeps the balance of attempts.                                *)
THEOREM StepAttempts == IInv /\ Attempts /\ [Next]_vars => Attempts'
<1> SUFFICES ASSUME IInv, Attempts, [Next]_vars PROVE Attempts'
  OBVIOUS
<1>1. CASE Others
  BY <1>1, OthersAttempts
<1>2. CASE Finish
  BY <1>2, FinishingAttempts
<1>3. CASE Stop \/ SkipTransport \/ Deliver \/ LoseReply \/ Refuse
  <2>1. /\ UNCHANGED <<records, arrived, retried, replay, resends, replays, intents, scan>>
        /\ turn' = Idle \/ (turn.at # "idle" /\ turn'.plan = turn.plan)
    <3>1. turn = [at |-> turn.at, plan |-> turn.plan, mode |-> turn.mode,
                  outcome |-> turn.outcome]
      BY DEF IInv, Types
    <3>2. ASSUME NEW o, Answer(o)
          PROVE  /\ UNCHANGED <<records, arrived, retried, replay, resends, replays, intents, scan>>
                 /\ turn.at # "idle" /\ turn'.plan = turn.plan
      BY <3>1, <3>2 DEF Answer, notifierRows, maintenanceRows, streams, counters
    <3>3. CASE Stop
      BY <3>3 DEF Stop, notifierRows, maintenanceRows, streams
    <3>4. CASE SkipTransport \/ Deliver \/ LoseReply \/ Refuse
      BY <3>2, <3>4 DEF SkipTransport, Deliver, LoseReply, Refuse
    <3> QED BY <1>3, <3>3, <3>4
  <2>2. scan' \subseteq Plans \X (Nat \ {0})
    BY <2>1 DEF Attempts, Queues
  <2> QED BY <2>1, <2>2, QuietAttempts
<1>4. ASSUME NEW p \in Plans, BecomeDue(p) PROVE Attempts'
  <2>1. UNCHANGED <<records, arrived, retried, replay, resends, replays, intents, scan, turn>>
    BY <1>4 DEF BecomeDue, maintenanceRows, streams, counters
  <2>2. scan' \subseteq Plans \X (Nat \ {0})
    BY <2>1 DEF Attempts, Queues
  <2> QED BY <2>1, <2>2, QuietAttempts
<1>5. ASSUME NEW p \in Plans, NEW mode \in {"send", "edit"}, Render(p, mode) PROVE Attempts'
  <2>1. Take(p) /\ turn'.at # "idle" /\ turn'.plan = p
    BY <1>5 DEF Render
  <2> QED BY <2>1, TakingAttempts
<1>6. CASE UNCHANGED vars
  <2>1. UNCHANGED <<records, arrived, retried, replay, resends, replays, intents, scan, turn>>
    BY <1>6 DEF vars, notifierRows, maintenanceRows, streams, counters
  <2>2. scan' \subseteq Plans \X (Nat \ {0})
    BY <2>1 DEF Attempts, Queues
  <2> QED BY <2>1, <2>2, QuietAttempts
<1> QED BY <1>1, <1>2, <1>3, <1>4, <1>5, <1>6, Cases

THEOREM InitAttempts == Init => Attempts
<1> SUFFICES ASSUME Init PROVE Attempts
  OBVIOUS
<1>1. Queues
  BY DeliveryAssumption DEF Init, Queues
<1> SUFFICES ASSUME NEW p \in Plans PROVE Spent(p) <= Granted(p)
  BY <1>1 DEF Attempts
<1>2. Len(records[p]) = 0 /\ Held(p) = 0
  BY DEF Init, Held, Idle
<1>3. Cardinality(Occurrences(intents, p)) = 0
  <2>1. Occurrences(intents, p) = {}
    BY DEF Init, Occurrences
  <2> QED BY <2>1, FS_EmptySet
<1>4. IInv
  BY InitIInv
<1>5. Told(p) \in Nat
  BY <1>1, <1>4, Amounts
<1>6. Spent(p) = 0 /\ Granted(p) \in Nat
  BY <1>1, <1>2, <1>3, <1>4, <1>5, Amounts DEF Spent, Granted
<1> QED BY <1>6

(* What the balance says of the records alone: the first announcement, one  *)
(* key per attempt below the ceiling, one dispatch per replay request.      *)
LEMMA FewAttempts ==
  ASSUME IInv, Attempts
  PROVE  AttemptsBounded
<1> SUFFICES ASSUME NEW p \in Plans
             PROVE  Len(records[p]) <= MaxAttempts + resends + replays
  BY DEF AttemptsBounded
<1>1. Cardinality(Keys(p)) <= MaxAttempts - 1
  <2>1. Keys(p) \in SUBSET (1..(MaxAttempts - 1))
    BY DEF Keys
  <2> QED BY <2>1, KeysFinite
<1>2. Cardinality(Dispatched) <= replays /\ replays \in Nat
  <2>1. Len(replay) \in Nat /\ Len(replay) = replays /\ Dispatched \in SUBSET (1..Len(replay))
    BY DEF Attempts, Queues, Dispatched
  <2> QED BY <2>1, DispatchedFinite
<1>3. /\ Len(records[p]) \in Nat /\ Held(p) \in Nat /\ Cardinality(Occurrences(intents, p)) \in Nat
      /\ Told(p) \in {0, 1} /\ Cardinality(Keys(p)) \in Nat /\ Cardinality(Dispatched) \in Nat
      /\ resends \in Nat
  BY Amounts DEF Attempts
<1>4. Len(records[p]) + Held(p) + Cardinality(Occurrences(intents, p))
          <= Told(p) + Cardinality(Keys(p)) + Cardinality(Dispatched) + resends
  BY DEF Attempts, Spent, Granted
<1>5. MaxAttempts \in Nat \ {0}
  BY DeliveryAssumption
<1> QED BY <1>1, <1>2, <1>3, <1>4, <1>5

(* A plan is attempted at most MaxAttempts times by the service itself: the *)
(* retry keys below the ceiling, and one announcement, pay for every        *)
(* record.  Only a resent intent or an operator's replay goes beyond.       *)
THEOREM AttemptsBound == Spec => []AttemptsBounded
<1>1. Init => IInv /\ Attempts
  BY InitIInv, InitAttempts
<1>2. IInv /\ Attempts /\ [Next]_vars => (IInv /\ Attempts)'
  BY StepIInv, StepAttempts
<1>3. IInv /\ Attempts => AttemptsBounded
  BY FewAttempts
<1> QED BY <1>1, <1>2, <1>3, PTL DEF Spec

-----------------------------------------------------------------------------
(* For the chat a material is one message.                                  *)

OutcomeIn(st, m) ==
    LET owners == {p \in Plans : Material[p] = m /\ st[p] # "absent"}
    IN IF owners = {} THEN "absent" ELSE st[CHOOSE p \in owners : TRUE]

LEMMA OutcomeByOwner ==
  ASSUME NEW st, NEW p \in Plans, st[p] # "absent",
         \A q \in Plans : Material[q] = Material[p] /\ st[q] # "absent" => q = p
  PROVE  OutcomeIn(st, Material[p]) = st[p]
<1>1. {q \in Plans : Material[q] = Material[p] /\ st[q] # "absent"} = {p}
  OBVIOUS
<1> QED BY <1>1 DEF OutcomeIn

LEMMA OutcomeElsewhere ==
  ASSUME NEW st, NEW to, NEW m, \A q \in Plans : Material[q] = m => to[q] = st[q]
  PROVE  OutcomeIn(to, m) = OutcomeIn(st, m)
<1> DEFINE owners == {p \in Plans : Material[p] = m /\ st[p] # "absent"}
<1>1. {p \in Plans : Material[p] = m /\ to[p] # "absent"} = owners
  OBVIOUS
<1>2. CASE owners = {}
  BY <1>1, <1>2 DEF OutcomeIn
<1>3. CASE owners # {}
  <2> PICK q : q = CHOOSE p \in owners : TRUE
    OBVIOUS
  <2>1. q \in owners
    BY <1>3
  <2>2. to[q] = st[q]
    BY <2>1
  <2> QED BY <1>1, <1>3, <2>2 DEF OutcomeIn
<1> QED BY <1>2, <1>3

(* While a message is open, its material is undecided.                      *)
LEMMA OpenUndecided ==
  ASSUME IInv, turn.at # "idle"
  PROVE  /\ turn.plan \in Plans /\ Material[turn.plan] \in Materials
         /\ OutcomeIn(status, Material[turn.plan]) \notin Message!Final
<1> DEFINE p == turn.plan
<1>1. /\ p \in Plans /\ Material[p] \in Materials
      /\ Existing(p) \subseteq {p} /\ Range(records[p]) \cap (Success \cup Terminal) = {}
  BY DEF IInv, Open, Materials
<1>2. CASE status[p] = "absent"
  <2>1. {q \in Plans : Material[q] = Material[p] /\ status[q] # "absent"} = {}
    BY <1>1, <1>2 DEF Existing
  <2>2. OutcomeIn(status, Material[p]) = "absent"
    BY <2>1 DEF OutcomeIn
  <2> QED BY <1>1, <2>2 DEF Message!Final
<1>3. CASE status[p] # "absent"
  <2>1. OutcomeIn(status, Material[p]) = status[p]
    <3>1. \A q \in Plans : Material[q] = Material[p] /\ status[q] # "absent" => q = p
      BY <1>1 DEF Existing
    <3> QED BY <1>1, <1>3, <3>1, OutcomeByOwner
  <2> PICK o : o = records[p][Len(records[p])]
    OBVIOUS
  <2>2. records[p] # <<>> /\ status[p] = StatusOf(o)
    BY <1>1, <1>3 DEF IInv, Rows
  <2>3. records[p] \in Seq(Outcomes)
    BY <1>1 DEF IInv, Types
  <2>4. Len(records[p]) \in DOMAIN records[p] /\ o \in Outcomes
    BY <2>2, <2>3
  <2>5. o \notin Success \cup Terminal
    BY <1>1, <2>4 DEF Range
  <2>6. status[p] \notin Success \cup {"failed_terminal"}
    BY <2>2, <2>4, <2>5, Classes
  <2> QED BY <1>1, <2>1, <2>6 DEF Message!Final, Success
<1> QED BY <1>2, <1>3

(* The commit records the outcome of the open message's material.           *)
LEMMA FinishRecords ==
  ASSUME IInv, Finish
  PROVE  Message!Next
<1> PICK p, m, o : p = turn.plan /\ m = Material[p] /\ o = turn.outcome
  OBVIOUS
<1>1. /\ turn.at = "commit" /\ p \in Plans /\ m \in Materials /\ o \in Outcomes
      /\ Existing(p) \subseteq {p}
      /\ OutcomeIn(status, m) \notin Message!Final
  BY OpenUndecided DEF Finish, IInv, Open, Types
<1>2. /\ status' = [status EXCEPT ![p] = StatusOf(o)] /\ turn' = Idle
      /\ UNCHANGED <<copies, unclear>>
  BY DEF Finish, chat
<1>3. status'[p] = StatusOf(o) /\ \A q \in Plans \ {p} : status'[q] = status[q]
  BY <1>1, <1>2 DEF IInv, Types
<1>4. OutcomeIn(status', m) = StatusOf(o)
  <2>1. status'[p] # "absent"
    BY <1>1, <1>3, Classes
  <2>2. \A q \in Plans : Material[q] = Material[p] /\ status'[q] # "absent" => q = p
    BY <1>1, <1>3 DEF Existing
  <2> QED BY <1>1, <1>3, <2>1, <2>2, OutcomeByOwner
<1>5. ASSUME NEW n \in Materials, n # m PROVE OutcomeIn(status', n) = OutcomeIn(status, n)
  <2>1. \A q \in Plans : Material[q] = n => status'[q] = status[q]
    BY <1>3, <1>5
  <2> QED BY <2>1, OutcomeElsewhere
<1>6. StatusOf(o) \in Message!Recorded /\ (StatusOf(o) = "sent" <=> o = "sent")
  BY <1>1 DEF StatusOf, Outcomes, Success, Suppressed, Terminal, Message!Recorded, Message!Final
<1>7. \A n \in Materials : OutcomeOf(n) = OutcomeIn(status, n) /\ OutcomeOf(n)' = OutcomeIn(status', n)
  BY DEF OutcomeOf, OutcomeIn
<1> DEFINE before == [n \in Materials |-> OutcomeOf(n)]
           after == [n \in Materials |-> OutcomeOf(n)']
<1>8. /\ before[m] \notin Message!Final /\ after[m] = StatusOf(o)
      /\ after = [before EXCEPT ![m] = after[m]]
  BY <1>1, <1>4, <1>5, <1>7
<1>9. /\ (IF turn.outcome = "sent" THEN {Material[turn.plan]} ELSE {}) = IF o = "sent" THEN {m} ELSE {}
      /\ (IF turn.outcome = "sent" THEN {Material[turn.plan]} ELSE {})' = {}
  BY <1>2 DEF Idle
<1>10. Message!Record(m)
  BY <1>2, <1>6, <1>8, <1>9 DEF Message!Record
<1> QED BY <1>1, <1>10 DEF Message!Next

(* Where no status changes, no outcome does.                                *)
LEMMA SameOutcomes ==
  ASSUME UNCHANGED status
  PROVE  [m \in Materials |-> OutcomeOf(m)]' = [m \in Materials |-> OutcomeOf(m)]
BY DEF OutcomeOf

(* The transport posts a message, with or without an answer, or does not.   *)
LEMMA AnswersPost ==
  ASSUME IInv, SkipTransport \/ Deliver \/ LoseReply \/ Refuse
  PROVE  [Message!Next]_(Message!delivery)
<1> PICK m : m = Material[turn.plan]
  OBVIOUS
<1>1. /\ turn.at = "transport" /\ UNCHANGED status
      /\ \E outcome \in Outcomes : turn' = [turn EXCEPT !.at = "commit", !.outcome = outcome]
  BY DEF SkipTransport, Deliver, LoseReply, Refuse, Answer, notifierRows, Outcomes, Success,
         Suppressed, Terminal
<1>2. turn'.plan = turn.plan /\ turn.outcome = "none"
  BY <1>1 DEF IInv, Types, Open
<1>3. m \in Materials /\ OutcomeOf(m) \notin Message!Final
  BY <1>1, OpenUndecided DEF OutcomeOf, OutcomeIn
<1> DEFINE before == [n \in Materials |-> OutcomeOf(n)]
           pending == IF turn.outcome = "sent" THEN {Material[turn.plan]} ELSE {}
<1>4. before[m] \notin Message!Final /\ before' = before /\ pending = {}
  BY <1>1, <1>2, <1>3, SameOutcomes
<1>5. turn'.outcome = "sent" => pending' = {m}
  BY <1>2
<1>6. turn'.outcome # "sent" => pending' = {}
  OBVIOUS
<1> HIDE DEF before, pending
<1>7. CASE enabled /\ turn.mode = "send" /\ Answer("sent") /\ InChat(turn.plan) /\ UNCHANGED unclear
  <2>1. turn'.outcome = "sent"
    BY <1>7 DEF Answer, IInv, Types
  <2>2. copies' = [copies EXCEPT ![m] = @ + 1]
    BY <1>7 DEF InChat
  <2>3. Message!Post(m)
    BY <1>4, <1>5, <1>7, <2>1, <2>2 DEF Message!Post, Message!Undecided, before, pending
  <2> QED BY <1>3, <2>3 DEF Message!Next
<1>8. CASE LoseReply
  <2>1. turn'.outcome = "retryable"
    BY <1>8 DEF LoseReply, Answer, IInv, Types
  <2>2. /\ copies' = [copies EXCEPT ![m] = @ + 1]
        /\ unclear' = [unclear EXCEPT ![m] = @ + 1]
    BY <1>8 DEF LoseReply, InChat
  <2>3. Message!PostUnanswered(m)
    BY <1>4, <1>6, <2>1, <2>2 DEF Message!PostUnanswered, Message!Undecided, before, pending
  <2> QED BY <1>3, <2>3 DEF Message!Next
<1>9. CASE \/ SkipTransport \/ Refuse
           \/ enabled /\ turn.mode = "edit" /\ Answer("edited") /\ UNCHANGED <<copies, unclear>>
  <2>1. turn'.outcome # "sent" /\ UNCHANGED <<copies, unclear>>
    BY <1>9 DEF SkipTransport, Refuse, Answer, IInv, Types, chat
  <2> QED BY <1>4, <1>6, <2>1 DEF Message!delivery, before, pending
<1> QED BY <1>7, <1>8, <1>9 DEF Deliver

LEMMA StopForgets ==
  ASSUME IInv, Stop
  PROVE  [Message!Next]_(Message!delivery)
<1> PICK m : m = Material[turn.plan]
  OBVIOUS
<1>1. /\ turn.at # "idle" /\ turn' = Idle /\ UNCHANGED <<status, copies>>
      /\ unclear' = IF turn.outcome = "sent" THEN [unclear EXCEPT ![m] = @ + 1] ELSE unclear
  BY DEF Stop, notifierRows
<1>2. m \in Materials
  BY <1>1, OpenUndecided
<1> DEFINE pending == IF turn.outcome = "sent" THEN {Material[turn.plan]} ELSE {}
<1>3. pending' = {} /\ pending = IF turn.outcome = "sent" THEN {m} ELSE {}
  BY <1>1 DEF Idle
<1> HIDE DEF pending
<1>4. CASE turn.outcome = "sent"
  <2>1. Message!Forget(m)
    BY <1>1, <1>3, <1>4, SameOutcomes DEF Message!Forget, pending
  <2> QED BY <1>2, <2>1 DEF Message!Next
<1>5. CASE turn.outcome # "sent"
  BY <1>1, <1>3, <1>5, SameOutcomes DEF Message!delivery, pending
<1> QED BY <1>4, <1>5

(* Announced, repeated, retried, reposted, replayed, switched off and on,   *)
(* crashed: for the chat it is one material, attempted until an outcome is  *)
(* final, and posted once for all it can know.                              *)
THEOREM Implements == Spec => ImplementsOneMessage
<1>1. Init => Message!Init
  <2> SUFFICES ASSUME Init PROVE Message!Init
    OBVIOUS
  <2>1. ASSUME NEW m \in Materials PROVE OutcomeOf(m) = "absent"
    BY DEF Init, OutcomeOf
  <2> QED BY <2>1 DEF Init, Idle, Message!Init
<1>2. IInv /\ [Next]_vars => [Message!Next]_(Message!delivery)
  <2> SUFFICES ASSUME IInv, [Next]_vars PROVE [Message!Next]_(Message!delivery)
    OBVIOUS
  <2>1. ASSUME UNCHANGED <<status, copies, unclear>>, turn'.outcome = "none", turn.outcome = "none"
        PROVE  UNCHANGED Message!delivery
    BY <2>1, SameOutcomes DEF Message!delivery
  <2>2. ASSUME UNCHANGED <<status, copies, unclear, turn>>
        PROVE  UNCHANGED Message!delivery
    BY <2>2, SameOutcomes DEF Message!delivery
  <2>3. CASE Others
    BY <2>2, <2>3, OthersElsewhere DEF notifierRows, chat
  <2>4. CASE Finish
    BY <2>4, FinishRecords
  <2>5. CASE Stop
    BY <2>5, StopForgets
  <2>6. CASE SkipTransport \/ Deliver \/ LoseReply \/ Refuse
    BY <2>6, AnswersPost
  <2>7. ASSUME NEW p \in Plans, BecomeDue(p) PROVE UNCHANGED Message!delivery
    BY <2>2, <2>7 DEF BecomeDue, chat
  <2>8. ASSUME NEW p \in Plans, NEW mode \in {"send", "edit"}, Render(p, mode)
        PROVE  UNCHANGED Message!delivery
    <3>1. turn.outcome = "none"
      BY <2>8 DEF Render, Take, IInv, Open
    <3> QED BY <2>1, <2>8, <3>1 DEF Render, Take, notifierRows, chat
  <2>9. CASE UNCHANGED vars
    BY <2>2, <2>9 DEF vars, notifierRows, chat
  <2> QED BY <2>3, <2>4, <2>5, <2>6, <2>7, <2>8, <2>9, Cases
<1> QED BY <1>1, <1>2, Invariance, PTL DEF Spec, ImplementsOneMessage, Message!Spec

(* Of a material's messages in the chat all but one are those nobody was    *)
(* told of, and there is one more exactly when it is recorded as sent or    *)
(* about to be: the abstract specification says so by itself.               *)
THEOREM KnownCopies == Spec => []Message!OneKnownCopy
<1> DEFINE O == [m \in Materials |-> OutcomeOf(m)]
           P == IF turn.outcome = "sent" THEN {Material[turn.plan]} ELSE {}
           Numbers == copies \in [Materials -> Nat] /\ unclear \in [Materials -> Nat]
           Apart == P \subseteq Materials /\ \A m \in P : O[m] # "sent"
           One(m) == copies[m] = unclear[m] + (IF m \in P \/ O[m] = "sent" THEN 1 ELSE 0)
           J == Numbers /\ Apart /\ \A m \in Materials : One(m)
<1>1. Message!Init => J
  BY DEF Message!Init
<1>2. J /\ [Message!Next]_(Message!delivery) => J'
  <2> SUFFICES ASSUME J, [Message!Next]_(Message!delivery) PROVE J'
    OBVIOUS
  <2>0. DOMAIN O = Materials /\ DOMAIN O' = Materials
    OBVIOUS
  <2> HIDE DEF O, P
  <2>1. ASSUME NEW m \in Materials, Message!Post(m) PROVE J'
    <3>1. /\ P = {} /\ P' = {m} /\ O' = O /\ O[m] # "sent"
          /\ copies' = [copies EXCEPT ![m] = @ + 1] /\ unclear' = unclear
      BY <2>1 DEF Message!Post, Message!Undecided, Message!Final, O, P
    <3> QED BY <3>1
  <2>2. ASSUME NEW m \in Materials, Message!PostUnanswered(m) PROVE J'
    <3>1. /\ P' = P /\ O' = O
          /\ copies' = [copies EXCEPT ![m] = @ + 1] /\ unclear' = [unclear EXCEPT ![m] = @ + 1]
      BY <2>2 DEF Message!PostUnanswered, O, P
    <3> QED BY <3>1
  <2>3. ASSUME NEW m \in Materials, Message!Forget(m) PROVE J'
    <3>1. /\ m \in P /\ P' = P \ {m} /\ O' = O
          /\ copies' = copies /\ unclear' = [unclear EXCEPT ![m] = @ + 1]
      BY <2>3 DEF Message!Forget, O, P
    <3> QED BY <3>1
  <2>4. ASSUME NEW m \in Materials, Message!Record(m) PROVE J'
    <3>1. /\ P' = P \ {m} /\ copies' = copies /\ unclear' = unclear
          /\ O[m] # "sent" /\ (O'[m] = "sent" <=> m \in P)
          /\ O' = [O EXCEPT ![m] = O'[m]]
      BY <2>4 DEF Message!Record, Message!Final, O, P
    <3>2. \A n \in Materials \ {m} : O'[n] = O[n]
      BY <2>0, <3>1
    <3>3. ASSUME NEW n \in Materials PROVE One(n)'
      <4>1. One(n)
        OBVIOUS
      <4>2. (n \in P \/ O[n] = "sent") <=> (n \in P' \/ O'[n] = "sent")
        BY <3>1, <3>2
      <4> QED BY <3>1, <4>1, <4>2
    <3>4. Apart'
      <4>1. P' \subseteq Materials
        BY <3>1
      <4>2. ASSUME NEW n \in P' PROVE O'[n] # "sent"
        <5>1. n \in Materials \ {m} /\ O[n] # "sent"
          BY <3>1, <4>2
        <5> QED BY <3>2, <5>1
      <4> QED BY <4>1, <4>2
    <3> QED BY <3>1, <3>3, <3>4
  <2>5. CASE UNCHANGED Message!delivery
    <3>1. UNCHANGED <<O, P, copies, unclear>>
      BY <2>5 DEF Message!delivery, O, P
    <3> QED BY <3>1
  <2> QED BY <2>1, <2>2, <2>3, <2>4, <2>5 DEF Message!Next
<1>3. J => Message!OneKnownCopy
  BY DEF Message!OneKnownCopy
<1>4. Message!Spec => []J
  <2> HIDE DEF J
  <2> QED BY <1>1, <1>2, PTL DEF Message!Spec
<1>5. Message!Spec => []Message!OneKnownCopy
  <2> HIDE DEF J
  <2> QED BY <1>3, <1>4, PTL
<1> QED BY <1>5, Implements, PTL DEF ImplementsOneMessage

=============================================================================
