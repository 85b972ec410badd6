\* Items of two sizes in lists up to three, and completions of up to five tokens:
\* a tag before, one behind, and one again after the line.
SPECIFICATION PromptSpec
CONSTANTS
  Sizes = {1, 3}
  FixedSizes = {4, 9}
  BlankSize = 2
  Budget = 11
  Caps <- MCCaps
  CompanionCaps <- MCCompanionCaps
  MaxItems = 3
  MaxTokens = 5
INVARIANTS
  TrimmedFairly
  NoTagSpoken
  LineIsSpoken
CHECK_DEADLOCK FALSE
