\* BoostDelivery
SPECIFICATION Spec
CONSTANTS
  v1 = v1
  o1 = o1
  o2 = o2
  e1 = e1
  e2 = e2
  r1 = r1
  Visitor = {v1}
  Opportunity = {o1, o2}
  Event = {e1, e2}
  MaxReports = 2
  MaxWork = 2
  Request = {r1}
  Target = 1
  Cap = 1
  MaxDay = 2
INVARIANTS FrequencyCapHolds CompletedMeansDelivered
PROPERTIES CountersCatchUp LedgerIsKept
