SPECIFICATION Spec
CONSTANTS
  d1 = d1
  d2 = d2
  d3 = d3
  adv = adv
  b1 = b1
  b2 = b2
  Deals <- MCDeals
  Users <- MCUsers
  Advertiser <- MCAdvertiser
  Blogger <- MCBlogger
  Terms <- MCTerms
  Funds <- MCFunds
  LegacyPercent = 15
SYMMETRY Symmetry
CHECK_DEADLOCK FALSE
INVARIANTS
  TypeOK
  LedgerShowsHeld
  ReservedBalanceIsHeld
  MoneyConserved
  CommissionWithinTerms
