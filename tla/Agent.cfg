SPECIFICATION AgentSpec
CONSTANTS
  Backends = {"opencode", "codex"}
  MaxEventLine = 2
  LongSays = {"error"}
  MaxLength = 4
  MaxLines = 3
CHECK_DEADLOCK FALSE
INVARIANTS
  StreamIsReadWhole
  SuccessIsEarned
