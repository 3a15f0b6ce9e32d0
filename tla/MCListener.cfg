SPECIFICATION FairSpec
CONSTANTS
  q1 = q1
  q2 = q2
  own = own
  other = other
  cid1 = cid1
  cid2 = cid2
  Ids = {q1, q2}
  Accounts = {own, other}
  Key = own
  Fee = 1
  Payments = {0, 1}
  Cids = {cid1, cid2}
  NoCid = NoCid
  Lookback = 2
  UintModulus = 16
  FirstHeights = {1}
  Callers = {q1}
  MaxBlocks = 4
  MaxFailures = 1
  MaxCrashes = 1
INVARIANTS TypeOK Solvent NothingPassedBy 
PROPERTIES AnswerStays EveryRequestSettles
CHECK_DEADLOCK FALSE
