SPECIFICATION FairSpec
CONSTANTS
  Prompt = {p1}
  MaxBinding = 2
INVARIANTS
  OnlyARaceRemoves
  PreviewIsOwn
  RepliedOnce
PROPERTIES
  EveryMessageEnds
  PromptIsShown
CHECK_DEADLOCK FALSE
