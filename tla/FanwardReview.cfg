\* FanwardReview
SPECIFICATION Spec
CONSTANTS
  u1 = u1
  t1 = t1
  t2 = t2
  a1 = a1
  a2 = a2
  r1 = r1
  r2 = r2
  r3 = r3
  c1 = c1
  c2 = c2
  Owner = {u1}
  Site = {s1}
  Tab = {t1}
  TabOwner <- MCTabOwner
  Admin = {a1, a2}
  Revision = {r1, r2, r3}
  Content = {c1, c2}
  NoOwner = NoOwner
  NoSite = NoSite
  NoContent = NoContent
  NoRevision = NoRevision
  ClockReading = {0, 6}
  MaxInstant = 9
SYMMETRY Symmetry
INVARIANTS OneOpenRevision StatusMatchesRevisions ReviewedTextIsFrozen PublishedAsApproved FeedbackIsLatestDecision
PROPERTIES PublicationIsModerated
