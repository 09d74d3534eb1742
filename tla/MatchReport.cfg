\* Two updates of up to two players each, with a boundary anywhere.
SPECIFICATION Spec
CONSTANTS
  Entries <- FewEntries
  MaxEntries = 2
  Goals = {0, 1}
  MaxUpdates = 2
INVARIANTS
  LogsTellTheMatch
  OneResult
