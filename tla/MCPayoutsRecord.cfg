SPECIFICATION Spec
CONSTANTS
  d1 = d1
  d2 = d2
  Deals = {d1, d2}
  Payouts = {w1, w2, w3}
  Earning <- MCEarning
  Commission <- MCCommission
  Versions = {v1, v2}
  Legacy = 1
  EsfCategories = {"ip"}
  Applications = {a1}
  Targets = {"ip", "self_employed"}
  Txns = {t1, t2}
  NoVersion = NoVersion
CHECK_DEADLOCK FALSE
PROPERTY TransferRecordKept
