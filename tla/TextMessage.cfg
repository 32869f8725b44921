CONSTANTS
  t1 = t1
  t2 = t2
  t3 = t3
  hello = hello
  bye = bye
  common = common
  None = None
  Torn = Torn
  Dropped = Dropped
  Texts <- MCTexts
  Key <- MCKey
  Silent = {t3}
  Accounts = {common}
  Account <- MCAccount
  Quota <- MCQuota
  Credit <- MCCredit
SPECIFICATION FairSpec
INVARIANTS
  TypeOK
  
  QuotaHolds
PROPERTIES
  DeliversOnce
  GoroutinesEnd
CHECK_DEADLOCK FALSE
