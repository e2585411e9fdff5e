---------------------------- MODULE MCBundleAnalysis ----------------------------
(* The router and the assembler on an X post with its repository.          *)
EXTENDS BundleAnalysis, TLC

CONSTANTS x, r

XAndRepo == <<x, r>>
XAndRepoKind == x :> "x_post" @@ r :> "github_repo"
=============================================================================
