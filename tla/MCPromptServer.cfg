SPECIFICATION FairSpec
CONSTANTS
  Prompts = {p1, p2}
  N = 2
  ChanCap = 1
  Quorum = 1
  Configs <- Server
  Heard = Heard
  None = None
INVARIANTS TypeOK OwnAnswer StoredIsFound WrapsStay
PROPERTIES AnsweredUnlessStuck
CHECK_DEADLOCK FALSE
