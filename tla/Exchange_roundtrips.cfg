\* Four jobs, two imports of the bundle, two failing steps anywhere.
SPECIFICATION Spec
CONSTANTS
  f1 = f1
  f2 = f2
  i1 = i1
  i2 = i2
  None = None
  Id = "x"
  Importer = {i1, i2}
  Jobs <- JobSet
  Own <- OwnRows
  MaxFaults = 2
INVARIANTS RoundtripWorks OkMeansBoth
PROPERTY ImportIsAtomic
