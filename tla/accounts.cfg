SPECIFICATION AccountsSpec
CONSTANTS
  r1 = r1 r2 = r2 r3 = r3
  Request = {r1, r2, r3}
  Host = {"h1", "h2"}
  Address = {"a", "b", "junk"}
  Deliverable = {"a", "b"}
  Bucket <- MCBucket
  Limit <- MCLimit
  Window <- MCWindow
  HostOf <- MCHostOf
  AddressOf <- MCAddressOf
  MaxWindow = 3
  Horizon = 3
  k1 = k1 k2 = k2 k3 = k3
  Link = {k1, k2, k3}
  Spelling = {"alice", "Alice", "bob"}
  MailAddress = {"alice", "bob"}
  lower <- MClower
  SpellingOf <- MCSpellingOf
  LinkLife = 2
  Accounts = 3
  LastInstant = 3
  MaxDenied = 4
  MaxFocus = 2
  t1 = t1 t2 = t2
  Tab = {t1, t2}
  User = {"ua", "ub"}
  Nobody = "nobody"
  TabClicks = 4
  Image = {1, 2, 3}
  Migration = {"a", "b", "c"}
  Journal <- MCJournal
  FirstImage = 1
  NoImage = 0
  Commands = 3
  Outages = 1
  SiteWrites = 1
INVARIANTS LimitsHold LinkInv QuotaEdge DeletionInv CheckInv ServesItsSchema NoWriteLost
PROPERTIES LeavesRight DeleteAsConfirmed RefusalsEarned DeletionKept ChecksEnd
CHECK_DEADLOCK FALSE
