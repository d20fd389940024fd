SPECIFICATION FairSpec
CONSTANTS
  acc = acc
  host = host
  ann = ann
  ben = ben
  fas1 = fas1
  t1 = t1
  t2 = t2
  NoOne = NoOne
  Accounts = {acc}
  Host = host
  People = {ann, ben}
  FasAccounts = {ann, ben, fas1}
  Matching <- MCMatching
  Tasks = {t1, t2}
  AdminNamespaces = {acc}
  MaxRows = 2
  MaxTasks = 3
  MaxCrashes = 1
INVARIANTS TypeOK ApprovedInstaller WaitingHasIssue
PROPERTY InstallationAnswered
