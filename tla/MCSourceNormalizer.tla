-------------------------- MODULE MCSourceNormalizer --------------------------
(* One message: first a short URL that hides a repository, then a file of another
   repository beside an article. *)
EXTENDS SourceNormalizer, TLC

CONSTANTS file, repo, web, short, hidden, idea

MCTexts == {1, 2}
MCArtifacts == {file, repo, web, short, hidden, idea}
MCKind == file :> "github_subpath" @@ repo :> "github_repo" @@ short :> "short_url_unresolved"
          @@ hidden :> "github_repo" @@ idea :> "text_idea" @@ web :> "web_article"
MCAnchor == [a \in MCArtifacts |-> IF a = file THEN repo ELSE a]
MCBehind == [a \in MCArtifacts |-> IF a = short THEN hidden ELSE a]
MCLinks == 1 :> {short} @@ 2 :> {file, web}
MCIdea == [t \in MCTexts |-> idea]
===============================================================================
