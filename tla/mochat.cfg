SPECIFICATION Spec
CONSTANTS
  Ids <- IdsVal
  Shapes <- MochatShapes
  Answers <- AnswersVal
  Policies <- MochatPolicies
  Enabled <- MochatEnabled
  Copies = 2
  Replies <- MochatReplies
  Backlog = 2
  SeenMax = 2
  PollLimit = 2
  Crashes = 1
INVARIANTS
  Accounted
  AtMostOnce
CHECK_DEADLOCK FALSE
