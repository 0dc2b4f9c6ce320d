SPECIFICATION Spec
CONSTANTS
  Ids <- IdsVal
  Shapes <- ShapesVal
  Answers <- AnswersVal
  Policies <- PoliciesVal
  Enabled <- EnabledVal
  Copies = 2
  Replies <- RepliesVal
  Backlog = 2
  SeenMax = 1
  PollLimit = 1
  Crashes = 1
INVARIANTS
  
  AtMostOnce
  TypingJustified
CHECK_DEADLOCK FALSE
PROPERTIES
  SentInOrder
  HandledInTheEnd
