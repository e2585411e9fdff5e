--------------------------- MODULE MCEvidenceAssembler ---------------------------
(* An X post with the repository it may name.                              *)
EXTENDS EvidenceAssembler, TLC

CONSTANTS x, r

XAndRepo == <<x, r>>
XAndRepoKind == x :> "x_post" @@ r :> "github_repo"
=============================================================================
