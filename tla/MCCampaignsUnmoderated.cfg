SPECIFICATION Spec
CONSTANTS
  p1 = p1
  p2 = p2
  b1 = b1
  Offers = {o1}
  Responses = {r1}
  Platforms <- MCPlatforms
  Owner <- MCOwner
  PlatformOf <- MCPlatformOf
  Invited = {b1}
  Terms <- MCTerms
  Budgets = {1, 4}
  Prices = {2}
  FixedPrice = 1
  CpaRate = 1
  Funds = 4
  Former = {}
  MaxDay = 2
  Dates = {1}
  OfferDays = 1
  ResponseLead = 1
  Sessions = {s1, s2}
  NoTerms = NoTerms
  NoProposal = NoProposal
CHECK_DEADLOCK FALSE
INVARIANTS
  ActiveMeansApproved
