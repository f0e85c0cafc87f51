\* Traffic
SPECIFICATION Spec
CONSTANTS
  open = open
  end = end
  tab = tab
  w1 = w1
  w2 = w2
  Event = {open, end}
  Session = {tab}
  SessionOf <- MCSessionOf
  KindOf <- MCKindOf
  Rejected = {}
  Worker = {w1, w2}
  MaxSends = 3
  MaxRetries = 1
  MaxBatch = 2
  Ttl = 0
INVARIANTS TypeOK
PROPERTIES AdmittedIsSettled VisitorsFade EventsAreDelivered
