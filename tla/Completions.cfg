SPECIFICATION FairSpec
CONSTANTS
  r1 = r1  r2 = r2  r3 = r3
  b1 = b1
  m1 = m1
  Null = Null
  Requests = {r1, r2}
  Buckets = {b1}
  Models = {m1}
  Prices = {}
  ModelOf <- MCModelOf
  InputRate <- MCRate
  OutputRate <- MCRate
  Usages <- MCUsages
  Million = 2
  MaxFigure = 6
  MaxInflight = 1
  MaxCrashes = 1
CHECK_DEADLOCK FALSE
INVARIANTS TypeOK RecordedBeforeSent BilledWasDelivered MeteredIsDurable ReportsAgree SlotsHeld
PROPERTIES SlotsReturned
