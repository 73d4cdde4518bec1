\* One A/B run, one push at any time, two operators in any order or at once, one fault.
SPECIFICATION Spec
CONSTANTS
  c0 = c0
  c1 = c1
  c2 = c2
  a1 = a1
  o1 = o1
  o2 = o2
  f1 = f1
  f2 = f2
  dd = dd
  ee = ee
  None = None
  BaseRef = BaseRef
  HeadRef = HeadRef
  Skill = {dd, ee}
  Fixture = {f1, f2}
  Commit = {c0, c1, c2}
  Start <- Refs
  Pushes <- OnePush
  Suite <- Suites
  Evaluation = {a1}
  SkillOf <- OfDd
  Settings <- SettingSet
  Answers <- AnswerSet
  Operator = {o1, o2}
  Requests <- RequestSet
  MaxFaults = 1
SYMMETRY Operators
INVARIANTS PromotedIsNoRegression HistoryExplainsTag ResultIsBacked
