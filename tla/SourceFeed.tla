------------------------------ MODULE SourceFeed ------------------------------
(***************************************************************************)
(* What the collector promises the stages that read its tables: the rows    *)
(* change only by the effects of SourceRows, whole transactions at a time.  *)
(* SourceMessages, with its writers, row locks, stale reads and crashes,    *)
(* implements this specification and uses less of it; SourceNormalizer is   *)
(* checked against all of it.                                               *)
(***************************************************************************)
EXTENDS SourceRows

CONSTANT Messages

VARIABLE feed             \* feed[m]: the committed row of message m

FeedInit == feed = [m \in Messages |-> Unseen]

\* one transaction commits: any number of messages, each changed once
FeedNext ==
  /\ feed' \in [Messages -> Rows]
  /\ \A m \in Messages : feed'[m] \in Effects(feed[m]) \cup {feed[m]}

FeedSpec == FeedInit /\ [][FeedNext]_feed
===============================================================================
