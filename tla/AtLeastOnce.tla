------------------------------ MODULE AtLeastOnce ------------------------------
(***************************************************************************)
(* What the consumers may assume of the outbox: an event is delivered only *)
(* after its row was committed, and once at most in each life of a         *)
(* publisher (the relay from start to stop, or one publish command), so a  *)
(* consumer sees duplicates only of different lives.                       *)
(***************************************************************************)
EXTENDS Naturals

CONSTANT Events

VARIABLES
    stored,   \* events whose row is committed
    copies,   \* deliveries of each event
    lives     \* lives of publishers begun so far

vars == <<stored, copies, lives>>

Init ==
    /\ stored = {}
    /\ copies = [e \in Events |-> 0]
    /\ lives = 0

Store(e) ==
    /\ e \in Events \ stored
    /\ stored' = stored \cup {e}
    /\ UNCHANGED <<copies, lives>>

Deliver(e) ==
    /\ e \in stored
    /\ copies[e] < lives
    /\ copies' = [copies EXCEPT ![e] = @ + 1]
    /\ UNCHANGED <<stored, lives>>

Restart ==
    /\ lives' = lives + 1
    /\ UNCHANGED <<stored, copies>>

Next == Restart \/ \E e \in Events : Store(e) \/ Deliver(e)

Spec == Init /\ [][Next]_vars
=============================================================================
