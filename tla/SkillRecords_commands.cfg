\* One skill run, two judges of it at any time or at once, one failing step.
SPECIFICATION Spec
CONSTANTS
  r1 = r1
  r2 = r2
  j1 = j1
  j2 = j2
  None = None
  Run = {r1}
  Judge = {j1, j2}
  Setups <- SetupSet
  Answers <- AnswerSet
  JudgeOf <- OfR1
  RubricOf <- Two
  Moments = {"result", "register", "returned"}
  Absolute = TRUE
  MaxFaults = 1
INVARIANTS OkRunsReplay RefusalIsRecorded PassIsEarned ScoreIsRecorded
