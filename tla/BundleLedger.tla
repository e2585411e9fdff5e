------------------------------ MODULE BundleLedger ------------------------------
(***************************************************************************)
(* What the stages behind the assembler may assume of one candidate group: *)
(* a refresh happens at once.  Its bundle is stored already or added, the  *)
(* pointer moves to it, and if it is ready its analysis is requested; the  *)
(* judge is called for requested bundles.  BundleAnalysis, with refreshes  *)
(* of several statements that see each other's commits, stale reads and    *)
(* crashes, implements this specification.                                 *)
(***************************************************************************)
EXTENDS Naturals

CONSTANTS
    Nothing,    \* what is current before there is a bundle
    Judgeable,  \* bundles that are ready for an analysis
    Serial      \* refreshes that commit begin and end one after the other

VARIABLES
    bundles,    \* stored bundles: input and version
    current,    \* the current bundle's input
    requested,  \* inputs whose analysis has been requested
    judged      \* inputs the judge has been called for

ledger == <<bundles, current, requested, judged>>

Init == bundles = {} /\ current = Nothing /\ requested = {} /\ judged = {}

Reuse(b) == (\E c \in bundles : c.input = b) /\ UNCHANGED bundles

(* Without Serial two refreshes may count to the same version.             *)
Add(b) ==
    \E new \in bundles' :
        /\ new.input = b /\ bundles' = bundles \cup {new}
        /\ \A c \in bundles : c.input # b /\ (Serial => c.version < new.version)

(* Without Serial a refresh may find its bundle current at its beginning   *)
(* and leave the pointer where another has moved it since.                 *)
Refresh(b) ==
    /\ Reuse(b) \/ Add(b)
    /\ current' = b \/ (~Serial /\ UNCHANGED current)
    /\ requested' = requested \cup ({b} \cap Judgeable)
    /\ UNCHANGED judged

Judge(b) ==
    /\ b \in requested
    /\ judged' = judged \cup {b}
    /\ UNCHANGED <<bundles, current, requested>>

Next ==
    \/ \E b \in {c.input : c \in bundles'} : Refresh(b)
    \/ \E b \in requested : Judge(b)

Spec == Init /\ [][Next]_ledger
=============================================================================
