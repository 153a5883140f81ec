SPECIFICATION Spec
CONSTANTS
  c1 = c1
  c2 = c2
  a1 = a1
  a2 = a2
  None = None
  Conversations = {c1, c2}
  Agents = {a1, a2}
  Pages <- AllPages
  MaxOps = 4
  Clicks <- MCClicks
  MaxTicks = 1
  MaxPolls = 2
  MaxReplicas = 2
  MaxRuns = 2
  MaxFiles = 2
  MaxRefreshes = 1
  MaxWaiting = 2
SYMMETRY ConversationSymmetry
INVARIANTS
  
  ChatLockHasWorker
  TokensStayInTheirChat
  OnlyLateAnswersMisplace
  CompareColumnHasItsStream
  
  CanaryCommandsExclusive
  CanaryPanelCurrent
  ReleaseDetailSettles
  EvalFlagsMatchRequests
  EvaluationsOfThePicked
  ComparedRunsDistinct
  ReviewIsComplete
  OneCreationAtATime
  UploadRowsTruthful
  KbListSettles
  ListsAtRest
  AssignmentsAddUp
PROPERTIES
  WatchEndsAnnounced
  EditsSurviveRefresh
CHECK_DEADLOCK FALSE
