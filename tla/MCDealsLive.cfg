SPECIFICATION FairSpec
CONSTANTS
  d1 = d1
  d2 = d2
  adv = adv
  bl = bl
  Slots = {d1}
  Generations = {"package", "package_no_approval"}
  Deals <- Slots
  Users <- MCUsers
  Advertiser <- MCAdvertiser
  Blogger <- MCBlogger
  Terms <- MCTerms
  Funds <- MCFunds
  LegacyPercent = 15
  MaxDay = 3
  Weekend = {}
  Dates = {2}
  Parts = {7}
  MaxSubmissions = 2
  AutoApproveAfter = 1
  LegacyCheckDays = 2
  LeadDays = 1
  ReviewDays = 1
  ClaimDays = 1
  DecisionDays = 2
  ExtraDocsDays = 1
  CompensationPercent = 30
CHECK_DEADLOCK FALSE
PROPERTIES
  DueIsPaid
  SilentCreativeMovesOn
  LateReviewIsNoticed
  ExtraDocsComeBack
