SPECIFICATION Spec
CONSTANTS
  p1 = p1
  p2 = p2
  b1 = b1
  Offers = {o1, o2}
  Responses = {r1}
  Platforms <- MCPlatforms
  Owner <- MCOwner
  PlatformOf <- MCPlatformOf
  Invited = {}
  Terms <- MCTerms
  Budgets = {1, 4}
  Prices = {2}
  FixedPrice = 1
  CpaRate = 2
  Funds = 4
  Former = {o1, o2}
  MaxDay = 2
  Dates = {1, 2}
  OfferDays = 1
  ResponseLead = 1
  Sessions = {s1}
  NoTerms = NoTerms
  NoProposal = NoProposal
SYMMETRY OfferSymmetry
CONSTRAINT MCBound
CHECK_DEADLOCK FALSE
INVARIANTS
  TypeOK
  ReserveFollowsOffer
  LimitKept
  BudgetCovers
  AcceptedResponseHasOffer
  DatesCovered
  CompletedHoldsNoOffers
