SPECIFICATION Spec
CONSTANTS
  Invoices = {i1, i2}
  Refunds = {r1, r2}
  Clicks = {c1}
  Goals = {lead, sale}
  Amounts = {1, 2}
  Demo = TRUE
  GrantLimit = 1
  ClickPays = TRUE
  CpaRate = 2
  CpaFee = 1
  OfferPrice = 2
  OfferFee = 1
  Budget = 4
SYMMETRY SlotSymmetry
CHECK_DEADLOCK FALSE
INVARIANT InvoiceCreditedOnce
