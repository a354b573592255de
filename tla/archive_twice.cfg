SPECIFICATION Spec
CONSTANTS
  Engineer = {e1, e2}
  Key = {k1, k2, k3}
  Slot = {s1, s2}
  NoSlot = NoSlot
  NoContent = NoContent
  NoKey = NoKey
  NoEngineer = NoEngineer
  Contents <- MCContents
  ArchiveSettings = {TRUE, FALSE}
  MaxSent = 3
SYMMETRY Symmetry
INVARIANT ArchivedOnce
CHECK_DEADLOCK FALSE
