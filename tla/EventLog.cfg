SPECIFICATION FairSpec
CONSTANTS
  t1 = t1
  t2 = t2
  t3 = t3
  r = r
  m = m
  l = l
  Tx = {t1, t2, t3}
  NoTx = NoTx
  Exec = {r, m, l}
  Root = r
  Parent <- MCParent
  NextStatus = {"waiting", "failed"}
  MaxEvents = 4
CHECK_DEADLOCK FALSE
INVARIANTS
  TypeOK
  LogMeetsContract
  HistoryIsAChain
PROPERTIES
  TransactionsEnd
