SPECIFICATION ResetSpec
CONSTANT MaxLosses = 2
INVARIANT NeverRunsBlank
PROPERTY ComesToRun
