SPECIFICATION FairSpec
CONSTANTS
  Prompt = {}
  MaxBinding = 1
PROPERTIES
  WaitingTaskIsAnswered
CHECK_DEADLOCK FALSE
