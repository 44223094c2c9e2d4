SPECIFICATION AlgorithmsSpec
CONSTANTS
  DefaultLogBytes = 3
  MaxLogBytes = 7
  Stems = {"*", "docs"}
  NameStems = {"docs", "sub"}
  Exts = {"none", ".md"}
  MaxDepth = 3
  MaxText = 9
  MaxShort = 3
  Kinds = {"path", "tree", "module", "glob", "outside"}
  Valued = {}
  MinDepth = 2
CHECK_DEADLOCK FALSE
INVARIANTS
  GuardMissesNothing
  CreationRefusesTheUnjudgeable
  
  PagesFitTogether
