SPECIFICATION Spec
CONSTANTS
  MaxTasks = 2
  Owners = {w1, w2}
  Patches <- SomePatches
  None = None
PROPERTY BoardSpec
SYMMETRY OwnerSymmetry
