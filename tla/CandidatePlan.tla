---------------------------- MODULE CandidatePlan ----------------------------
(***************************************************************************)
(* From the links of a message to its candidate groups: the pure part of    *)
(* the router-normalizer (canonicalizer, trigger_rules, the group plan of   *)
(* its service).  Parsing is abstracted: an artifact is a canonical_id, and *)
(* Kind, Anchor and Behind say what parsing and resolving it gives.         *)
(***************************************************************************)
EXTENDS Integers

CONSTANTS Artifacts,
          Kind,       \* artifact_type
          Anchor,     \* inferred_repo of a path or page of a repository, else itself
          Behind      \* what a short URL leads to, else itself

PrimaryOnGitHub == {"github_repo", "github_gist"}
InRepository == {"github_subpath", "github_repo_page"}
Strong == PrimaryOnGitHub \cup InRepository \cup {"x_post"}
Medium == {"web_article"}
Other == {"text_idea", "unknown_link", "short_url_unresolved"}

ASSUME PlanAssumption ==
  /\ Kind \in [Artifacts -> Strong \cup Medium \cup Other]
  /\ Anchor \in [Artifacts -> Artifacts] /\ Behind \in [Artifacts -> Artifacts]
  /\ \A a \in Artifacts : IF Kind[a] \in InRepository THEN Kind[Anchor[a]] = "github_repo"
                                                      ELSE Anchor[a] = a

OfKind(S, kinds) == {a \in S : Kind[a] \in kinds}

\* canonicalize_resolved_urls, given the short URLs that were resolved
Canonical(S, opened) == (S \ opened) \cup {Behind[a] : a \in opened}

\* _with_inferred_repo_anchors
Anchored(S) == S \cup {Anchor[a] : a \in S}

\* evaluate_triggers; the keyword rules only matter when no link decides
Eligible(S, keyworded) == OfKind(S, Strong \cup Medium) # {} \/ keyworded

\* provider_route
HasProvider(a) == Kind[a] \in Strong \cup Medium

-------------------------------------------------------------------------------
\* when nothing is on GitHub, the first of these kinds gives the primaries
FallbackKinds == <<"x_post", "web_article", "text_idea", "unknown_link", "short_url_unresolved">>

Fallback(S) == CHOOSE i \in 1..5 : /\ OfKind(S, {FallbackKinds[i]}) # {}
                                   /\ \A j \in 1..i - 1 : OfKind(S, {FallbackKinds[j]}) = {}

Primaries(S) ==
  IF OfKind(S, PrimaryOnGitHub) # {} THEN OfKind(S, PrimaryOnGitHub)
  ELSE IF S = {} THEN {}
  ELSE OfKind(S, {FallbackKinds[Fallback(S)]})

\* _supports_github_primary
Supports_None(a, p) == Kind[a] \notin InRepository
Supports(a, p) == Kind[a] \in InRepository => Anchor[a] = p

Related(p, S) ==
  IF Kind[p] \in PrimaryOnGitHub
  THEN {a \in S : Kind[a] \notin PrimaryOnGitHub /\ Supports(a, p)}
  ELSE {a \in S : Kind[a] # Kind[p]}

Members(p, S) == {p} \cup Related(p, S)
===============================================================================
