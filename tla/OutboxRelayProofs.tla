--------------------------- MODULE OutboxRelayProofs ---------------------------
(* Proofs about the outbox relay and the publish commands for every set of *)
(* events, batch size and number of restarts and commands.                 *)
EXTENDS OutboxRelay, FiniteSetTheorems, TLAPS

(* The oldest rows of a set are rows of that set.                          *)
LEMMA OldestSubset == \A S, n : Oldest(S, n) \subseteq S
BY DEF Oldest

(* A command that is about to send a row.                                  *)
Sending(e) == IF command.at = "send" /\ Commanded(e) THEN 1 ELSE 0

(* Each life of the relay and each command puts at most one copy of an     *)
(* event into its stream: however they meet, consumers see no more copies  *)
(* than starts and commands, an event the relay has not handed over in     *)
(* this life has one to spare, and so has one a command is about to send.  *)
OneCopyPerLife ==
    \A e \in Events :
        /\ copies[e] + Sending(e) <= starts + commands
        /\ at # "stopped" /\ e \notin handed => copies[e] + Sending(e) < starts + commands

(* What keeps one copy per life inductive: the batch holds only rows this  *)
(* life has not sent, except the one it is about to record, and a row the  *)
(* session leaves as it was has not been sent; its rows are committed.     *)
BatchUnsent ==
    \A e \in Events :
        /\ e \in handed /\ e \notin batch => session[e] # "none"
        /\ e \in handed /\ e \in batch => at \in {"record", "except"} /\ IsNextRow(e)
        /\ at = "stopped" => e \notin handed /\ e \notin batch /\ session[e] = "none"
        /\ e \in batch => session[e] = "none" /\ outbox[e] # "absent"

(* The except branch knows why it runs.                                    *)
ReasonKnown == at = "except" => failure # "none"

(* A command is about one committed row with a route.                      *)
CommandKnown ==
    \A e \in Events : Commanded(e) => outbox[e] # "absent" /\ e \notin Unroutable

(* An excluded row the relay holds in its batch, or a command that looks   *)
(* at the proofs, was excluded after it had been taken.                    *)
ProofIsNews ==
    \A e \in proofs :
        /\ e \in batch => e \in since
        /\ Commanded(e) /\ e \in Guarded => command.late

Safe == /\ OneCopyPerLife /\ RecordsFollowXadd /\ BatchUnsent /\ ReasonKnown
        /\ CommandKnown /\ ProofIsNews

Inv == TypeOK /\ Safe

(* Every reachable state has the declared shape.                           *)
THEOREM TypeCorrect == Spec => []TypeOK
<1>1. Init => TypeOK
  BY BoundsAssumption DEF Init, TypeOK, RowStatuses, Attempts, NoCommand
<1>2. TypeOK /\ [Next]_vars => TypeOK'
  <2> SUFFICES ASSUME TypeOK, [Next]_vars PROVE TypeOK'
    OBVIOUS
  <2> USE DEF TypeOK, RowStatuses, Attempts, relay, operator
  <2>1. ASSUME NEW e \in Events, InsertRow(e) PROVE TypeOK'
    BY <2>1 DEF InsertRow
  <2>2. ASSUME NEW e \in Events, WriteExclusionProof(e) PROVE TypeOK'
    BY <2>2 DEF WriteExclusionProof
  <2>3. CASE Start
    BY <2>3, BoundsAssumption DEF Start
  <2>4. CASE Stop
    BY <2>4 DEF Stop
  <2>5. CASE FetchPendingBatch
    BY <2>5 DEF FetchPendingBatch, Oldest
  <2>6. ASSUME NEW e \in Events, Publish(e) PROVE TypeOK'
    BY <2>6 DEF Publish
  <2>7. ASSUME NEW e \in Events, PublishError(e) PROVE TypeOK'
    BY <2>7 DEF PublishError
  <2>8. ASSUME NEW e \in Events, RouteError(e) PROVE TypeOK'
    BY <2>8 DEF RouteError
  <2>9. ASSUME NEW e \in Events, RecordPublished(e) PROVE TypeOK'
    BY <2>9 DEF RecordPublished
  <2>10. ASSUME NEW e \in Events, RecordFailed(e) PROVE TypeOK'
    BY <2>10 DEF RecordFailed
  <2>11. CASE UNCHANGED vars
    BY <2>11 DEF vars
  <2>12. ASSUME NEW e \in Events, CommandSelects(e) PROVE TypeOK'
    BY <2>12, BoundsAssumption DEF CommandSelects
  <2>13. ASSUME NEW e \in Events, CommandSends(e) \/ CommandSendFails(e) PROVE TypeOK'
    <3>1. UNCHANGED <<outbox, proofs, relay, since, commands>>
      BY <2>13 DEF CommandSends, CommandSendFails
    <3>2. copies' \in [Events -> Nat]
      BY <2>13 DEF CommandSends, CommandSendFails
    <3>3. \/ command' = NoCommand
          \/ \E a \in {"mark", "fail"} : command' = [command EXCEPT !.at = a]
      BY <2>13 DEF CommandSends, CommandSendFails
    <3>4. command' \in [at : {"idle", "send", "mark", "fail"}, of : SUBSET Events, late : BOOLEAN]
      <4>1. CASE command' = NoCommand
        BY <4>1 DEF NoCommand
      <4>2. ASSUME NEW a \in {"mark", "fail"}, command' = [command EXCEPT !.at = a]
            PROVE  command' \in [at : {"idle", "send", "mark", "fail"}, of : SUBSET Events,
                                 late : BOOLEAN]
        BY <4>2
      <4> QED BY <3>3, <4>1, <4>2
    <3> QED BY <3>1, <3>2, <3>4
  <2>14. ASSUME NEW e \in Events, CommandMarks(e) PROVE TypeOK'
    BY <2>14 DEF CommandMarks, NoCommand
  <2>15. CASE CommandStops
    BY <2>15 DEF CommandStops, NoCommand
  <2> QED
    BY <2>1, <2>2, <2>3, <2>4, <2>5, <2>6, <2>7, <2>8, <2>9, <2>10, <2>11, <2>12, <2>13,
       <2>14, <2>15 DEF Next, RelayStep, ProcessRow, CommandStep
<1> QED
  BY <1>1, <1>2, PTL DEF Spec

(* A step that leaves the command alone leaves what it is about to send.   *)
LEMMA SameCommand == ASSUME NEW e, command' = command PROVE Sending(e)' = Sending(e)
BY DEF Sending, Commanded

LEMMA SendingIsBit == \A e : Sending(e) \in {0, 1}
BY DEF Sending

(* A step of the relay that sends nothing and stays in the same life keeps *)
(* what is said of copies.                                                 *)
LEMMA CopiesKept ==
  ASSUME OneCopyPerLife, handed' = handed, at # "stopped" \/ at' = "stopped",
         UNCHANGED <<copies, starts, operator>>
  PROVE  OneCopyPerLife'
BY SameCommand DEF OneCopyPerLife, operator

(* The relay sends a row it has not sent in this life.                     *)
LEMMA CopySent ==
  ASSUME TypeOK, OneCopyPerLife, NEW e \in Events, at # "stopped", e \notin handed,
         copies' = [copies EXCEPT ![e] = @ + 1], handed' = handed \cup {e},
         UNCHANGED <<starts, operator>>
  PROVE  OneCopyPerLife'
<1>1. \A f \in Events : Sending(f)' = Sending(f)
  BY SameCommand DEF operator
<1>2. copies \in [Events -> Nat] /\ starts \in Nat /\ commands \in Nat /\ commands' = commands
  BY BoundsAssumption DEF TypeOK, operator
<1> QED BY <1>1, <1>2, SendingIsBit DEF OneCopyPerLife

(* What is known of the command stays known while the command, the rows    *)
(* and the proofs stay and the batch only shrinks.                         *)
LEMMA CommandFactsKept ==
  ASSUME CommandKnown, ProofIsNews, UNCHANGED <<outbox, proofs, since, command>>,
         batch' \subseteq batch
  PROVE  CommandKnown' /\ ProofIsNews'
BY DEF CommandKnown, ProofIsNews, Commanded

(* Steps of the relay keep the inductive invariant.                        *)
LEMMA RelayKeeps ==
  ASSUME Inv, TypeOK', Start \/ Stop \/ RelayStep
  PROVE  Safe'
<1> USE DEF Inv, TypeOK, RowStatuses, Attempts, Safe
<1> USE DEF RecordsFollowXadd, BatchUnsent, ReasonKnown
<1>0. \A e \in Events : IsNextRow(e) => e \in batch /\ (e \in handed => at # "poll")
  BY DEF IsNextRow
<1>1. CASE Start
  <2>1. OneCopyPerLife'
    <3>1. UNCHANGED <<copies, commands, handed>> /\ starts' = starts + 1
      BY <1>1 DEF Start, operator
    <3>2. \A e \in Events : Sending(e)' = Sending(e)
      BY <1>1, SameCommand DEF Start, operator
    <3>3. starts \in Nat /\ commands \in Nat
      BY BoundsAssumption
    <3> QED BY <3>1, <3>2, <3>3, SendingIsBit DEF OneCopyPerLife
  <2>2. RecordsFollowXadd' /\ BatchUnsent' /\ ReasonKnown'
    BY <1>1 DEF Start, IsNextRow, operator, Commanded
  <2> QED BY <1>1, <2>1, <2>2, CommandFactsKept DEF Start, operator
<1>2. CASE Stop
  <2>1. OneCopyPerLife'
    BY <1>2, SameCommand DEF Stop, operator, OneCopyPerLife
  <2>2. RecordsFollowXadd' /\ BatchUnsent' /\ ReasonKnown'
    BY <1>2 DEF Stop, IsNextRow, operator, Commanded
  <2> QED BY <1>2, <2>1, <2>2, CommandFactsKept DEF Stop, operator
<1>3. CASE FetchPendingBatch
  <2>1. batch' \subseteq {e \in Events : Eligible(e)}
    BY <1>3, OldestSubset DEF FetchPendingBatch
  <2>2. \A e \in batch' : /\ session[e] = "none" /\ e \notin handed /\ e \notin proofs
                          /\ outbox[e] = "pending"
    BY <1>3, <2>1 DEF FetchPendingBatch, Eligible, StatusInSession
  <2>3. OneCopyPerLife'
    BY <1>3, CopiesKept DEF FetchPendingBatch
  <2>4. CommandKnown' /\ ProofIsNews'
    BY <1>3, <2>2 DEF FetchPendingBatch, operator, CommandKnown, ProofIsNews, Commanded
  <2>5. RecordsFollowXadd' /\ BatchUnsent' /\ ReasonKnown'
    BY <1>3, <2>2 DEF FetchPendingBatch, IsNextRow, operator, Commanded
  <2> QED BY <2>3, <2>4, <2>5
<1>4. ASSUME NEW e \in Events, Publish(e) PROVE Safe'
  <2>1. e \notin handed /\ e \notin Unroutable
    BY <1>0, <1>4 DEF Publish
  <2>2. OneCopyPerLife'
    BY <1>4, <2>1, CopySent DEF Publish
  <2>3. \A f \in Events : IsNextRow(f)' <=> f = e
    BY <1>4, EventsAssumption DEF Publish, IsNextRow
  <2>4. RecordsFollowXadd'
    BY <1>4, <2>1, <2>3 DEF Publish, operator, Commanded
  <2>5. BatchUnsent'
    <3> SUFFICES ASSUME NEW f \in Events PROVE BatchUnsent!(f)'
      OBVIOUS
    <3>1. CASE f = e
      BY <1>4, <2>3, <3>1 DEF Publish, IsNextRow
    <3>2. CASE f # e
      BY <1>4, <2>1, <2>3, <3>2 DEF Publish, IsNextRow
    <3> QED BY <3>1, <3>2
  <2>6. ReasonKnown' /\ CommandKnown' /\ ProofIsNews'
    BY <1>4, CommandFactsKept DEF Publish, operator
  <2> QED BY <2>2, <2>4, <2>5, <2>6
<1>5. ASSUME NEW e \in Events, PublishError(e) PROVE Safe'
  <2>1. e \notin handed /\ e \notin Unroutable
    BY <1>0, <1>5 DEF PublishError
  <2>2. \/ copies' = copies /\ handed' = handed
        \/ copies' = [copies EXCEPT ![e] = copies[e] + 1] /\ handed' = handed \cup {e}
    BY <1>5 DEF PublishError
  <2>3. OneCopyPerLife'
    BY <1>5, <2>1, <2>2, CopySent, CopiesKept DEF PublishError
  <2>4. \A f \in Events : IsNextRow(f)' <=> f = e
    BY <1>5, EventsAssumption DEF PublishError, IsNextRow
  <2>5. RecordsFollowXadd'
    BY <1>5, <2>1, <2>2 DEF PublishError, operator, Commanded
  <2>6. BatchUnsent'
    <3> SUFFICES ASSUME NEW f \in Events PROVE BatchUnsent!(f)'
      OBVIOUS
    <3>1. CASE f = e
      BY <1>5, <2>4, <3>1 DEF PublishError, IsNextRow
    <3>2. CASE f # e
      <4>1. f \in handed' <=> f \in handed
        BY <2>2, <3>2
      <4> QED BY <1>5, <2>1, <3>2, <4>1 DEF PublishError, IsNextRow
    <3> QED BY <3>1, <3>2
  <2>7. ReasonKnown' /\ CommandKnown' /\ ProofIsNews'
    BY <1>5, CommandFactsKept DEF PublishError, operator
  <2> QED BY <2>3, <2>5, <2>6, <2>7
<1>6. ASSUME NEW e \in Events, RouteError(e) PROVE Safe'
  <2>1. OneCopyPerLife'
    BY <1>6, CopiesKept DEF RouteError
  <2>2. RecordsFollowXadd' /\ BatchUnsent' /\ ReasonKnown'
    BY <1>6 DEF RouteError, IsNextRow, operator, Commanded
  <2> QED BY <1>6, <2>1, <2>2, CommandFactsKept DEF RouteError, operator
<1>7. ASSUME NEW e \in Events, RecordPublished(e) PROVE Safe'
  <2>1. e \in handed
    BY <1>7 DEF RecordPublished
  <2>2. \A f \in Events : f \in batch /\ f \in handed => f = e
    BY <1>7, EventsAssumption DEF RecordPublished, IsNextRow
  <2>3. OneCopyPerLife'
    BY <1>7, CopiesKept DEF RecordPublished
  <2>4. RecordsFollowXadd' /\ BatchUnsent' /\ ReasonKnown'
    BY <1>7, <2>1, <2>2 DEF RecordPublished, operator, Commanded
  <2> QED BY <1>7, <2>3, <2>4, CommandFactsKept DEF RecordPublished, operator
<1>8. ASSUME NEW e \in Events, RecordFailed(e) PROVE Safe'
  <2>1. \A f \in Events : f \in batch /\ f \in handed => f = e
    BY <1>8, EventsAssumption DEF RecordFailed, IsNextRow
  <2>2. session'[e] = failure /\ failure \notin {"none", "succeeded"}
    BY <1>8 DEF RecordFailed
  <2>3. BatchUnsent'
    <3> SUFFICES ASSUME NEW f \in Events PROVE BatchUnsent!(f)'
      OBVIOUS
    <3>1. CASE f = e
      BY <1>8, <2>2, <3>1 DEF RecordFailed, IsNextRow
    <3>2. CASE f # e
      BY <1>8, <2>1, <3>2 DEF RecordFailed, IsNextRow
    <3> QED BY <3>1, <3>2
  <2>4. OneCopyPerLife'
    BY <1>8, CopiesKept DEF RecordFailed
  <2>5. RecordsFollowXadd' /\ ReasonKnown'
    BY <1>8, <2>2 DEF RecordFailed, operator, Commanded
  <2> QED BY <1>8, <2>3, <2>4, <2>5, CommandFactsKept DEF RecordFailed, operator
<1> QED
  BY <1>1, <1>2, <1>3, <1>4, <1>5, <1>6, <1>7, <1>8 DEF RelayStep, ProcessRow

(* Steps of a publish command keep the inductive invariant.                *)
LEMMA CommandKeeps ==
  ASSUME Inv, TypeOK', CommandStep \/ CommandStops \/ \E e \in Events : CommandSelects(e)
  PROVE  Safe'
<1> USE DEF Inv, TypeOK, RowStatuses, Attempts, Safe, relay, NoCommand, Commanded
<1>0. starts \in Nat /\ commands \in Nat
  BY BoundsAssumption
<1>1. BatchUnsent' /\ ReasonKnown'
  BY DEF CommandStep, CommandStops, CommandSelects, CommandSends, CommandSendFails, CommandMarks,
         BatchUnsent, ReasonKnown, IsNextRow
<1>2. ASSUME NEW e \in Events, CommandSelects(e) PROVE Safe'
  <2>1. OneCopyPerLife'
    BY <1>0, <1>2 DEF CommandSelects, OneCopyPerLife, Sending
  <2>2. RecordsFollowXadd'
    BY <1>2 DEF CommandSelects, RecordsFollowXadd, IsNextRow
  <2>3. CommandKnown' /\ ProofIsNews'
    BY <1>2 DEF CommandSelects, CommandKnown, ProofIsNews
  <2> QED BY <1>1, <2>1, <2>2, <2>3
<1>3. ASSUME NEW e \in Events, CommandSends(e) PROVE Safe'
  <2>1. OneCopyPerLife'
    BY <1>0, <1>3 DEF CommandSends, OneCopyPerLife, Sending
  <2>2. RecordsFollowXadd'
    BY <1>3 DEF CommandSends, RecordsFollowXadd, IsNextRow, CommandKnown
  <2>3. CommandKnown' /\ ProofIsNews'
    BY <1>3 DEF CommandSends, CommandKnown, ProofIsNews
  <2> QED BY <1>1, <2>1, <2>2, <2>3
<1>4. ASSUME NEW e \in Events, CommandSendFails(e) PROVE Safe'
  <2>1. OneCopyPerLife'
    BY <1>0, <1>4 DEF CommandSendFails, OneCopyPerLife, Sending
  <2>2. RecordsFollowXadd'
    BY <1>4 DEF CommandSendFails, RecordsFollowXadd, IsNextRow, CommandKnown
  <2>3. CommandKnown' /\ ProofIsNews'
    BY <1>4 DEF CommandSendFails, CommandKnown, ProofIsNews
  <2> QED BY <1>1, <2>1, <2>2, <2>3
<1>5. ASSUME NEW e \in Events, CommandMarks(e) PROVE Safe'
  <2>1. OneCopyPerLife'
    BY <1>0, <1>5 DEF CommandMarks, OneCopyPerLife, Sending
  <2>2. RecordsFollowXadd'
    BY <1>5 DEF CommandMarks, RecordsFollowXadd, IsNextRow
  <2>3. CommandKnown' /\ ProofIsNews'
    BY <1>5 DEF CommandMarks, CommandKnown, ProofIsNews
  <2> QED BY <1>1, <2>1, <2>2, <2>3
<1>6. CASE CommandStops
  <2>1. OneCopyPerLife'
    BY <1>0, <1>6 DEF CommandStops, OneCopyPerLife, Sending
  <2>2. RecordsFollowXadd'
    BY <1>6 DEF CommandStops, RecordsFollowXadd, IsNextRow
  <2>3. CommandKnown' /\ ProofIsNews'
    BY <1>6 DEF CommandStops, CommandKnown, ProofIsNews
  <2> QED BY <1>1, <2>1, <2>2, <2>3
<1> QED
  BY <1>2, <1>3, <1>4, <1>5, <1>6 DEF CommandStep

(* Each step keeps the inductive invariant.                                *)
LEMMA InvStep == Inv /\ [Next]_vars /\ TypeOK' => Inv'
<1> SUFFICES ASSUME Inv, [Next]_vars, TypeOK'
             PROVE  Safe'
  BY DEF Inv
<1> USE DEF Inv, TypeOK, RowStatuses, Safe, relay, operator
<1>1. ASSUME NEW e \in Events, InsertRow(e) PROVE Safe'
  <2>1. OneCopyPerLife'
    BY <1>1, SameCommand DEF InsertRow, OneCopyPerLife
  <2>2. RecordsFollowXadd' /\ BatchUnsent' /\ ReasonKnown'
    BY <1>1 DEF InsertRow, IsNextRow, RecordsFollowXadd, BatchUnsent, ReasonKnown, Commanded
  <2>3. CommandKnown' /\ ProofIsNews'
    BY <1>1 DEF InsertRow, CommandKnown, ProofIsNews, Commanded
  <2> QED BY <2>1, <2>2, <2>3
<1>2. ASSUME NEW e \in Events, WriteExclusionProof(e) PROVE Safe'
  <2>1. command' = [command EXCEPT !.late = @ \/ Commanded(e)]
    BY <1>2 DEF WriteExclusionProof
  <2>2. command'.at = command.at /\ command'.of = command.of
    BY <2>1
  <2>3. command'.late = (command.late \/ Commanded(e))
    BY <2>1
  <2>4. OneCopyPerLife'
    BY <1>2, <2>2 DEF WriteExclusionProof, OneCopyPerLife, Sending, Commanded
  <2>5. RecordsFollowXadd' /\ BatchUnsent' /\ ReasonKnown'
    BY <1>2, <2>2 DEF WriteExclusionProof, IsNextRow, RecordsFollowXadd, BatchUnsent, ReasonKnown,
                      Commanded
  <2>6. CommandKnown'
    BY <1>2, <2>2 DEF WriteExclusionProof, CommandKnown, Commanded
  <2>7. ProofIsNews'
    BY <1>2, <2>2, <2>3 DEF WriteExclusionProof, ProofIsNews, Commanded
  <2> QED BY <2>4, <2>5, <2>6, <2>7
<1>3. CASE UNCHANGED vars
  BY <1>3 DEF vars, IsNextRow, OneCopyPerLife, Sending, RecordsFollowXadd, BatchUnsent, ReasonKnown,
              CommandKnown, ProofIsNews, Commanded
<1> QED
  BY <1>1, <1>2, <1>3, RelayKeeps, CommandKeeps DEF Next

(* The inductive invariant holds throughout.                               *)
THEOREM Invariance == Spec => []Inv
<1>1. Init => Inv
  BY BoundsAssumption DEF Init, Inv, Safe, TypeOK, RowStatuses, Attempts, NoCommand,
     OneCopyPerLife, Sending, Commanded, RecordsFollowXadd, BatchUnsent, ReasonKnown, IsNextRow,
     CommandKnown, ProofIsNews
<1> QED
  BY <1>1, TypeCorrect, InvStep, PTL DEF Spec

(* However the relay is interrupted, each life adds at most one copy.      *)
THEOREM AtMostOneCopyPerLife == Spec => []OneCopyPerLife
<1>1. Inv => OneCopyPerLife
  BY DEF Inv, Safe
<1> QED BY <1>1, Invariance, PTL

(* A row is called published only after XADD answered for it.              *)
THEOREM PublishedAfterXadd == Spec => []RecordsFollowXadd
<1>1. Inv => RecordsFollowXadd
  BY DEF Inv, Safe
<1> QED BY <1>1, Invariance, PTL

(* The relay and the publish commands together implement at-least-once     *)
(* delivery: each start and each command is a life.                        *)
THEOREM Implements == Spec => DeliverySpec
<1> DEFINE stored == {e \in Events : outbox[e] # "absent"}
           lives == starts + commands
           Same == UNCHANGED <<stored, copies, lives>>
<1>1. Init => Delivery!Init
  BY DEF Init, Delivery!Init
<1>2. Inv /\ [Next]_vars => [Delivery!Next]_(Delivery!vars)
  <2> SUFFICES ASSUME Inv, [Next]_vars
               PROVE  Delivery!Next \/ Same
    BY DEF Delivery!vars
  <2> USE DEF Inv, Safe, TypeOK, OneCopyPerLife, relay, operator
  <2>0. starts \in Nat /\ commands \in Nat /\ \A e \in Events : Sending(e) \in {0, 1}
    BY BoundsAssumption, SendingIsBit
  <2>1. ASSUME NEW e \in Events, InsertRow(e) PROVE Delivery!Store(e)
    BY <2>1 DEF InsertRow, Delivery!Store, RowStatuses
  <2>2. ASSUME NEW e \in Events, WriteExclusionProof(e) PROVE Same
    BY <2>2 DEF WriteExclusionProof
  <2>3. ASSUME Start PROVE Delivery!Restart
    <3>1. starts' = starts + 1 /\ commands' = commands /\ UNCHANGED <<outbox, copies>>
      BY <2>3 DEF Start
    <3>2. lives' = lives + 1
      BY <2>0, <3>1
    <3>3. stored' = stored
      BY <3>1
    <3> QED BY <3>1, <3>2, <3>3 DEF Delivery!Restart
  <2>4. CASE Stop
    BY <2>4 DEF Stop
  <2>5. CASE FetchPendingBatch
    BY <2>5 DEF FetchPendingBatch
  <2>6. ASSUME NEW e \in Events, Publish(e) PROVE Delivery!Deliver(e)
    BY <2>0, <2>6 DEF Publish, IsNextRow, BatchUnsent, Delivery!Deliver
  <2>7. ASSUME NEW e \in Events, PublishError(e) PROVE Delivery!Deliver(e) \/ Same
    BY <2>0, <2>7 DEF PublishError, IsNextRow, BatchUnsent, Delivery!Deliver
  <2>8. ASSUME NEW e \in Events, RouteError(e) \/ RecordPublished(e) \/ RecordFailed(e)
        PROVE  Same
    BY <2>8 DEF RouteError, RecordPublished, RecordFailed
  <2>9. CASE UNCHANGED vars
    BY <2>9 DEF vars
  <2>10. ASSUME NEW e \in Events, CommandSelects(e) PROVE Delivery!Restart
    BY <2>0, <2>10 DEF CommandSelects, Delivery!Restart
  <2>11. ASSUME NEW e \in Events, CommandSends(e) PROVE Delivery!Deliver(e)
    BY <2>0, <2>11 DEF CommandSends, Sending, CommandKnown, Delivery!Deliver
  <2>12. ASSUME NEW e \in Events, CommandSendFails(e) PROVE Delivery!Deliver(e) \/ Same
    <3>1. UNCHANGED <<stored, lives>> /\ e \in stored /\ copies[e] < lives
      BY <2>0, <2>12 DEF CommandSendFails, Sending, CommandKnown
    <3>2. copies' = copies \/ copies' = [copies EXCEPT ![e] = @ + 1]
      BY <2>12 DEF CommandSendFails
    <3> QED BY <3>1, <3>2 DEF Delivery!Deliver
  <2>13. ASSUME NEW e \in Events, CommandMarks(e) PROVE Same
    BY <2>13 DEF CommandMarks, CommandKnown
  <2>14. CASE CommandStops
    BY <2>14 DEF CommandStops
  <2> HIDE DEF Same, Inv
  <2> QED
    BY <2>1, <2>2, <2>3, <2>4, <2>5, <2>6, <2>7, <2>8, <2>9, <2>10, <2>11, <2>12, <2>13, <2>14
       DEF Next, RelayStep, ProcessRow, CommandStep, Delivery!Next
<1> QED
  BY <1>1, <1>2, Invariance, PTL DEF Spec, DeliverySpec, Delivery!Spec

-----------------------------------------------------------------------------

(* The oldest rows have no gap: what is older than one of them and in the  *)
(* set is one of them.                                                     *)
LEMMA OldestHasNoGap ==
  ASSUME NEW S \in SUBSET Events, NEW n \in Nat, NEW e \in Oldest(S, n), NEW f \in S, f < e
  PROVE  f \in Oldest(S, n)
<1> DEFINE A == {g \in S : g < f}
           B == {g \in S : g < e}
<1>1. e \in Nat /\ f \in Nat /\ \A g \in S : g \in Nat
  BY EventsAssumption DEF Oldest
<1>2. \A g \in S : g < f => g < e
  BY <1>1
<1>3. IsFiniteSet(B) /\ A \in SUBSET B
  BY <1>2, EventsAssumption, FS_Subset
<1>4. Cardinality(A) <= Cardinality(B) /\ Cardinality(A) \in Nat /\ Cardinality(B) \in Nat
  BY <1>3, FS_Subset, FS_CardinalityType
<1>5. Cardinality(B) < n
  BY DEF Oldest
<1>6. Cardinality(A) < n
  BY <1>4, <1>5
<1> QED BY <1>6 DEF Oldest

LEMMA OrderStep == Inv /\ CreationOrder /\ [Next]_vars => CreationOrder'
<1> SUFFICES ASSUME Inv, CreationOrder, [Next]_vars PROVE CreationOrder'
  OBVIOUS
<1>0. TypeOK /\ ReasonKnown
  BY DEF Inv, Safe
<1> USE DEF relay, operator
<1>1. CASE FetchPendingBatch
  <2> DEFINE S == {e \in Events : Eligible(e)}
  <2>1. batch' = Oldest(S, BatchSize) /\ UNCHANGED <<outbox, proofs, session>>
    BY <1>1 DEF FetchPendingBatch
  <2>2. ASSUME NEW e \in batch', NEW f \in Events, f < e, Eligible(f) PROVE f \in batch'
    <3>1. e \in Oldest(S, BatchSize) /\ f \in S /\ S \in SUBSET Events
      BY <2>1, <2>2
    <3> HIDE DEF S
    <3> QED BY <2>1, <2>2, <3>1, OldestHasNoGap, BoundsAssumption
  <2>3. \A f \in Events : Eligible(f)' <=> Eligible(f)
    BY <2>1 DEF Eligible, StatusInSession
  <2> QED BY <2>2, <2>3 DEF CreationOrder
<1>2. ASSUME NEW e \in Events, InsertRow(e) \/ WriteExclusionProof(e) PROVE CreationOrder'
  <2>1. \A f \in Events : Eligible(f)' => Eligible(f) \/ f = e
    BY <1>0, <1>2 DEF InsertRow, WriteExclusionProof, Eligible, StatusInSession, TypeOK
  <2>2. batch' = batch /\ since' = since \cup {e}
    BY <1>2 DEF InsertRow, WriteExclusionProof
  <2> QED BY <2>1, <2>2 DEF CreationOrder
<1>3. ASSUME NEW e \in Events, RecordPublished(e) \/ RecordFailed(e) PROVE CreationOrder'
  <2>1. PICK o \in Attempts : session' = [session EXCEPT ![e] = o]
    BY <1>0, <1>3 DEF RecordPublished, RecordFailed, TypeOK, ReasonKnown, Attempts
  <2>2. batch' = batch \ {e} /\ UNCHANGED <<outbox, proofs, since>>
    BY <1>3 DEF RecordPublished, RecordFailed
  <2>3. \A f \in Events : Eligible(f)' => Eligible(f) /\ f # e
    BY <1>0, <2>1, <2>2 DEF Eligible, StatusInSession, TypeOK, Attempts
  <2> QED BY <2>2, <2>3 DEF CreationOrder
<1>4. CASE Stop
  BY <1>4 DEF Stop, CreationOrder
<1>5. CASE \/ UNCHANGED vars \/ Start \/ CommandStops
           \/ \E e \in Events : Publish(e) \/ PublishError(e) \/ RouteError(e)
           \/ \E e \in Events : CommandSelects(e) \/ CommandSends(e) \/ CommandSendFails(e)
  <2>1. UNCHANGED <<outbox, proofs, session, batch, since>>
    BY <1>5 DEF vars, Start, Publish, PublishError, RouteError, CommandStops, CommandSelects,
                CommandSends, CommandSendFails
  <2> QED BY <2>1 DEF CreationOrder, Eligible, StatusInSession
<1>6. ASSUME NEW e \in Events, CommandMarks(e) PROVE CreationOrder'
  <2>1. UNCHANGED <<proofs, session, batch, since>>
    BY <1>6 DEF CommandMarks
  <2>2. \A f \in Events : Eligible(f)' => Eligible(f)
    BY <1>0, <1>6 DEF CommandMarks, Eligible, StatusInSession, TypeOK
  <2> QED BY <2>1, <2>2 DEF CreationOrder
<1> QED BY <1>1, <1>2, <1>3, <1>4, <1>5, <1>6 DEF Next, RelayStep, ProcessRow, CommandStep

(* Rows leave in creation order, but for those that became visible after   *)
(* the batch was fetched.                                                  *)
THEOREM InCreationOrder == Spec => []CreationOrder
<1>1. Init => CreationOrder
  BY DEF Init, CreationOrder
<1> QED BY <1>1, Invariance, OrderStep, PTL DEF Spec

-----------------------------------------------------------------------------

(* A row excluded before the batch was fetched is not sent again, but by a *)
(* command that selected it before or does not look at the proofs.         *)
THEOREM ExcludedForGood == Spec => ExcludedStaysOut
<1> DEFINE Out == \A e \in proofs \ since :
              copies'[e] # copies[e] =>
                  command.at = "send" /\ Commanded(e) /\ (e \notin Guarded \/ command.late)
<1>1. Inv /\ [Next]_vars => [Out]_vars
  <2> SUFFICES ASSUME Inv, [Next]_vars, NEW e \in proofs \ since, copies'[e] # copies[e]
               PROVE  command.at = "send" /\ Commanded(e) /\ (e \notin Guarded \/ command.late)
    OBVIOUS
  <2> USE DEF Inv, TypeOK, Safe, relay, operator
  <2>1. ASSUME NEW f \in Events, Publish(f) \/ PublishError(f) PROVE FALSE
    <3>1. e = f
      BY <2>1 DEF Publish, PublishError
    <3> QED BY <2>1, <3>1 DEF Publish, PublishError, IsNextRow, ProofIsNews
  <2>2. ASSUME NEW f \in Events, CommandSends(f) \/ CommandSendFails(f)
        PROVE  command.at = "send" /\ Commanded(e) /\ (e \notin Guarded \/ command.late)
    <3>1. e = f
      BY <2>2 DEF CommandSends, CommandSendFails
    <3> QED BY <2>2, <3>1 DEF CommandSends, CommandSendFails, ProofIsNews
  <2>3. CASE UNCHANGED copies
    BY <2>3
  <2> QED
    BY <2>1, <2>2, <2>3 DEF Next, vars, RelayStep, ProcessRow, CommandStep, InsertRow,
       WriteExclusionProof, Start, Stop, FetchPendingBatch, RouteError, RecordPublished,
       RecordFailed, CommandSelects, CommandMarks, CommandStops
<1> QED
  BY <1>1, Invariance, PTL DEF Spec, ExcludedStaysOut
=============================================================================
