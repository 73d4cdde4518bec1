SPECIFICATION BranchesSpec
CONSTANTS
  r1 = r1
  r2 = r2
  Lesson = {r1, r2}
  Evals <- MCEvals
  Evidence <- MCEvidence
  MinRepeats = 2
  MinPassRate = 66
  MinScore = 8
  MaxCandidates = 2
  MaxHunks = 4
  Canonical = {TRUE, FALSE}
  MaxCommands = 2
  MaxEdits = 1
  MaxBreaks = 1
  Nothing = Nothing
SYMMETRY Runs
INVARIANTS RefineRowIsTrue SuggestionStandsAlone NoEditIsLost
CHECK_DEADLOCK FALSE
