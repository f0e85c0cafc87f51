\* TrackerKeys
SPECIFICATION Spec
CONSTANTS
  k1 = k1
  k2 = k2
  k3 = k3
  t1 = t1
  t2 = t2
  q1 = q1
  q2 = q2
  a1 = a1
  a2 = a2
  l1 = l1
  l2 = l2
  NoKey = NoKey
  Key = {k1, k2, k3}
  Alias = {a1, a2}
  Listing = {l1}
  Tab = {t1}
  Request = {q1}
  MaxVersion = 3
  MaxInstant = 3
  Window = 1
SYMMETRY Symmetry
INVARIANTS OnlyLatestInUse DomainsFollowSettings
PROPERTIES RevocationIsFinal
