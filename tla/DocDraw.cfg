\* A statement of a test that the code does not keep.
SPECIFICATION Spec
CONSTANTS
  Entries <- FewEntries
  MaxEntries = 1
  Goals = {0, 1}
  MaxUpdates = 1
INVARIANT NobodyWinsADraw
