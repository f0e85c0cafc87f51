\* Ownership
SPECIFICATION Spec
CONSTANTS
  u1 = u1
  u2 = u2
  c1 = c1
  c2 = c2
  q1 = q1
  q2 = q2
  s1 = s1
  User = {u1, u2}
  NoUser = NoUser
  Site = {s1}
  NoSite = NoSite
  Claim = {c1, c2}
  NoClaim = NoClaim
  Request = {q1, q2}
  MaxAttempts = 2
SYMMETRY Symmetry
INVARIANTS SingleOwner OwnersHaveProven ClosedAtCap
PROPERTIES VerifiedInTime ListingIsKept
