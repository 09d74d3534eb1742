\* Two callers, a password provided twice, and an account that changes once.
SPECIFICATION FairSpec
CONSTANTS
  Callers = {c1, c2}
  Updaters = {h1}
  MaxUpdates = 2
  MaxAccount = 2
INVARIANTS
  TypeOK
  GrantedIsAlive
  StoredStays
  StaleOnlyIfOvertaken
PROPERTY TokenAgain
