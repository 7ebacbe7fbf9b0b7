\* A service switched over from simple mode, and its first maintenance tick.
SPECIFICATION MCSpec
CONSTANTS
  i1 = i1  i2 = i2  m1 = m1  m2 = m2  r1 = r1  r2 = r2  k1 = k1  k2 = k2  k3 = k3
  Free = Free  Orphan = Orphan
  Posters = {"w1", "w2"}
  Accounts = {"cash", "sales", "wallet"}
  Postings = {"pay", "again", "mixed", "wrong", "fx"}
  AssetOf <- MCAssetOf
  Normal <- MCNormal
  KeyOf <- MCKeyOf
  Legs <- MCLegs
  MaxTx = 3
  Instances = {i1, i2}
  Interval = 2
  FnStop = 1
  MaxFaults = 2
  Members = {m1, m2}
  Inputs = 3
  MaxBatch = 2
  MaxMisses = 2
CHECK_DEADLOCK FALSE
INVARIANT Repairs
