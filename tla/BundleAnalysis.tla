------------------------------ MODULE BundleAnalysis ------------------------------
(***************************************************************************)
(* evidence-assembler and analysis-router around one candidate group.  The *)
(* router reads the group's current bundle in one statement and commits a  *)
(* judge run later; meanwhile a refresh may move the pointer, also back to *)
(* a bundle whose request was dropped long ago.                            *)
(***************************************************************************)
EXTENDS EvidenceAssembler

VARIABLES
    taken,    \* requests the router has taken from q.analysis.route
    router,   \* its open transaction: bundle asked for, current bundle it read
    judged,   \* bundles with a judge run and its judge.call.requested row
    dropped   \* bundles whose request was dropped while another was current (history)

routing == <<taken, router, judged, dropped>>
allVars == <<vars, routing>>

Waiting == [at |-> "idle", bundle |-> NoBundle, current |-> NoBundle]

RoutingInit == Init /\ taken = {} /\ router = Waiting /\ judged = {} /\ dropped = {}

(* The job is read from its row, which never changes, and then the pointer *)
(* of the group, bundle and members in statements of their own.            *)
TakeRequest(b) ==
    /\ router.at = "idle" /\ b \in requested \ taken
    /\ taken' = taken \cup {b}
    /\ router' = [at |-> "decide", bundle |-> b, current |-> current]
    /\ UNCHANGED <<vars, judged, dropped>>

(* A restarted relay sends a request that was handled once more.           *)
ResendRequest(b) ==
    /\ Disturbable /\ b \in taken \ judged /\ router.bundle # b
    /\ taken' = taken \ {b} /\ resends' = resends + 1
    /\ UNCHANGED <<snap, announced, queue, database, holder, proc, silent, lost, updates,
                   renormalised, stops, router, judged, dropped>>

(* AnalysisRoutingPolicy.decide, first rule.                               *)
IsStale_Newer ==
    \E b, c \in bundles : b.input = router.bundle /\ b.version < c.version
IsStale == router.current # router.bundle

DropStale ==
    /\ router.at = "decide" /\ IsStale
    /\ dropped' = dropped \cup ({router.bundle} \ {router.current})
    /\ router' = Waiting
    /\ UNCHANGED <<vars, taken, judged>>

(* get_or_create_judge_run and, for a new run, its call.                   *)
RequestJudge ==
    /\ router.at = "decide" /\ ~IsStale
    /\ judged' = judged \cup {router.bundle}
    /\ router' = Waiting
    /\ UNCHANGED <<vars, taken, dropped>>

Route == (\E b \in requested : TakeRequest(b)) \/ DropStale \/ RequestJudge

RoutingNext ==
    \/ Next /\ UNCHANGED routing
    \/ Route
    \/ \E b \in requested : ResendRequest(b)

RoutingSpec == RoutingInit /\ [][RoutingNext]_allVars

FairRoutingSpec ==
    /\ RoutingSpec /\ WF_allVars(Route)
    /\ \A p \in Procs : WF_allVars(Refresh(p) /\ UNCHANGED routing)

-----------------------------------------------------------------------------

(* With everything handled, a ready current bundle is at the judge unless  *)
(* its request was dropped while another bundle was current: a bundle that *)
(* has returned is judged for any request taken since, however many newer  *)
(* ones are stored.  That a request dropped in the meantime is not made    *)
(* again is what the dedupe key does, and the one exception here.          *)
CurrentJudgedOrDropped ==
    AtRest /\ router.at = "idle" /\ requested \subseteq taken /\ current \in requested
        => current \in judged \/ current \in dropped

(* The abstract ledger: refreshes of several statements, by processes that *)
(* read and write between each other's, look as if each happened at once.  *)
Ledger == INSTANCE BundleLedger WITH
    Nothing <- NoBundle, Judgeable <- {b \in Inputs : Ready(b)},
    Serial <- \A p, q \in Committing : p = q
ImplementsLedger == Ledger!Spec

=============================================================================
