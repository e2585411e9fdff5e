SPECIFICATION Spec
CONSTANTS
  file = file
  repo = repo
  web = web
  short = short
  hidden = hidden
  idea = idea
  Texts <- MCTexts
  Messages = {1}
  Artifacts <- MCArtifacts
  Kind <- MCKind
  Anchor <- MCAnchor
  Behind <- MCBehind
  Links <- MCLinks
  Idea <- MCIdea
  Keyworded = {}
  MaxDeletions = 1
  MaxVersion = 2
  MaxAgain = 1
INVARIANTS AckedIsNormalized EligibleIsProposed DeletedIsSuppressed
PROPERTY EveryVersionDecided
CHECK_DEADLOCK FALSE
