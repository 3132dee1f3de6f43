\* Two checkpoints of two overlays with one file each.
SPECIFICATION Spec
CONSTANTS
  c1 = c1
  c2 = c2
  i1 = i1
  i2 = i2
  NoId = NoId
  Files = {f}
  Contents <- MCContents
  RootContents = {c1}
  Ids <- MCIds
  Roots <- MCRoots
  MaxDirs = 4
SYMMETRY MCSymmetry
INVARIANTS FilesFaithful PatchOfLive
CHECK_DEADLOCK FALSE
