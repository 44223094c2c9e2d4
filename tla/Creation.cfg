SPECIFICATION Spec
CONSTANTS
  None = None
  m1 = m1
  m2 = m2
  m3 = m3
  c1 = c1
  c2 = c2
  main = main
  topic = topic
  Migrators = {m1, m2, m3}
  Files <- ThreeBuilds
  Creators = {c1, c2}
  Build <- NewBuild
  Requests <- ManyRequests
  Branches = {main, topic}
  History <- ShortHistory
  MaxMoves = 2
  MaxChoices = 1
SYMMETRY CreatorSymmetry
CHECK_DEADLOCK FALSE
INVARIANTS
  MigratedOnce
  CreatedAsChecked
  SettingsStand
