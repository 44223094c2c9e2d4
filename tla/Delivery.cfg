SPECIFICATION Spec
CONSTANTS
  code = code
  rules = rules
  tool = tool
  Tracked = {code, rules}
  Ignored = {tool}
  Runners = {tool}
  Protected = {rules}
  CheckOutputs = {code, rules}
  SetupSteps = 1
  Checks = 1
  Modes = {"in_place", "clean"}
  Gates = {TRUE, FALSE}
  MaxRetries = 1
  MaxEdits = 2
  MaxMeddling = 1
  MaxOutputs = 1
CHECK_DEADLOCK FALSE
INVARIANTS
  DeliveredIsWhatWasJudged
  NothingUnverifiedDelivered
  NobodysWorkIsLost
  BlameIsTheAgents
  CancelledByTheOperator
