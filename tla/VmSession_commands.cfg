SPECIFICATION FairSpec
CONSTANT
  Commands = {"vm-run", "tool", "vm-zygote", "vm-resume"}
INVARIANTS
  OkIsEarned
  RecordedSnapshotIsWhole
  EventsTellTheStory
  ExitIsObserved
PROPERTY
  EveryCommandReturns
