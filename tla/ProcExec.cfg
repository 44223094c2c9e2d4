\* One command, two helpers, an odd output limit and writes past it.
SPECIFICATION FairSpec
CONSTANTS
    Child = child
    Helpers = {h1, h2}
    Limit = 3
    MaxBytes = 4
INVARIANTS
    NothingSurvives
    VerdictIsTheCommandsOwn
    CaptureIsHeadAndTail
PROPERTY
    RunReturns
CHECK_DEADLOCK FALSE
