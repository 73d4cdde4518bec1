\* A vm-run with a tool call and a research run of two tracks; two failing writes at most,
\* a crash anywhere.
SPECIFICATION Spec
CONSTANTS
  g1 = g1
  g2 = g2
  Main = Main
  None = None
  Goroutine = {g1, g2}
  Files <- FileList
  ExportOnFail = TRUE
  Commands <- BothCommands
  MaxFaults = 2
  MayCrash = TRUE
INVARIANTS RowsFollowTrace TraceIsSound SuccessIsComplete OkIsEarned BundleAgreesWithItself
