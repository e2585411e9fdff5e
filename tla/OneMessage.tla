------------------------------- MODULE OneMessage -------------------------------
(***************************************************************************)
(* What the chat and its operator may assume of a material: attempts go on *)
(* until one is final; a message posted for it is recorded as sent, which  *)
(* is final, or it is one that nobody was told of.  NotificationDelivery,  *)
(* with several analyses of a material, retries, replays, switches and     *)
(* crashes, implements this specification.                                 *)
(***************************************************************************)
EXTENDS Naturals

CONSTANT Materials

VARIABLES
    outcome,    \* the last recorded outcome of each material
    pending,    \* materials with a posted message about to be recorded
    copies,     \* messages posted
    unclear     \* those nobody was told of

delivery == <<outcome, pending, copies, unclear>>

Final == {"sent", "edited", "failed_terminal"}
Recorded == Final \cup {"suppressed", "failed_retryable"}

Init ==
    /\ outcome = [m \in Materials |-> "absent"] /\ pending = {}
    /\ copies = [m \in Materials |-> 0] /\ unclear = [m \in Materials |-> 0]

(* One message is open at a time.                                          *)
Undecided(m) == outcome[m] \notin Final /\ pending = {}

(* The answer tells of the message.                                        *)
Post(m) ==
    /\ pending' = {m} /\ copies' = [copies EXCEPT ![m] = @ + 1]
    /\ Undecided(m)
    /\ UNCHANGED <<outcome, unclear>>

(* The message is there, the answer is lost.                               *)
PostUnanswered(m) ==
    /\ copies' = [copies EXCEPT ![m] = @ + 1] /\ unclear' = [unclear EXCEPT ![m] = @ + 1]
    /\ Undecided(m)
    /\ UNCHANGED <<outcome, pending>>

(* A crash: what was answered is forgotten.                                *)
Forget(m) ==
    /\ m \in pending
    /\ pending' = pending \ {m}
    /\ unclear' = [unclear EXCEPT ![m] = @ + 1]
    /\ UNCHANGED <<outcome, copies>>

(* What is recorded of a material is final when it says so.                *)
Record(m) ==
    /\ UNCHANGED <<copies, unclear>> /\ pending' = pending \ {m}
    /\ outcome[m] \notin Final /\ outcome'[m] \in Recorded
    /\ outcome' = [outcome EXCEPT ![m] = outcome'[m]]
    /\ outcome'[m] = "sent" <=> m \in pending

Next == \E m \in Materials : Post(m) \/ PostUnanswered(m) \/ Forget(m) \/ Record(m)

Spec == Init /\ [][Next]_delivery

(* Every message but one is an unclear one.                                *)
OneKnownCopy ==
    \A m \in Materials :
        copies[m] = unclear[m] + (IF m \in pending \/ outcome[m] = "sent" THEN 1 ELSE 0)
=============================================================================
