------------------------ MODULE FanwardProfile_proofs -----------------------
(***************************************************************************)
(* Theorems about FanwardProfile, for any sets of owners, sites, tabs,     *)
(* administrators, revisions and texts and any clock.                      *)
(***************************************************************************)
EXTENDS FanwardProfile, TLAPS

-----------------------------------------------------------------------------
(* Types *)

\* The new timestamp is a number above the one it replaces.
LEMMA TimestampAdvances ==
  ASSUME TypeOK, NEW u \in Owner, NEW now \in ClockReading
  PROVE  /\ NextTimestamp(u, now) \in Nat
         /\ NextTimestamp(u, now) > profile[u].updatedAt
  <1>1. now \in Nat /\ profile[u].updatedAt \in Nat
    BY ClockAssumption DEF TypeOK, ProfileRow
  <1> QED BY <1>1 DEF NextTimestamp

\* A write of the profile row leaves a well-typed table.
LEMMA StampType ==
  ASSUME TypeOK, NEW u \in Owner, NEW at \in Nat,
         NEW st \in {"none", "draft", "pending", "active", "rejected", "suspended"}
  PROVE  Stamp(u, st, at) \in [Owner -> ProfileRow]
  BY DEF TypeOK, ProfileRow, Stamp

\* The texts shown by editors are texts, or nothing.
LEMMA FormContentType ==
  ASSUME TypeOK, NEW u \in Owner
  PROVE  FormContent(u) \in Content \cup {NoContent}
  <1>1. ASSUME NEW st PROVE ContentIn(u, st) \in Content \cup {NoContent}
    <2>1. CASE Rows(u, st) = {}
      BY <2>1 DEF ContentIn
    <2>2. CASE Rows(u, st) # {}
      <3>1. FirstOf(Rows(u, st)) \in Revision
        BY <2>2 DEF Rows, FirstOf
      <3> QED BY <2>2, <3>1 DEF ContentIn, TypeOK, RevisionRow
    <2> QED BY <2>1, <2>2
  <1> QED BY <1>1 DEF FormContent

\* The initial state is well typed.
LEMMA InitTypeOK == Init => TypeOK
  BY DEF Init, TypeOK, SiteRow, ProfileRow, RevisionRow, EditorState, QueueItem,
         NoProfile, NoRow, ClosedTab, EmptyQueue

\* Every step keeps the types.
LEMMA TypeStep == TypeOK /\ [Next]_vars => TypeOK'
  <1> SUFFICES ASSUME TypeOK, [Next]_vars PROVE TypeOK'
    OBVIOUS
  <1>1. ASSUME NEW s \in Site, ModerateSite(s) PROVE TypeOK'
    BY <1>1 DEF TypeOK, SiteRow, ModerateSite
  <1>2. ASSUME NEW s \in Site, NEW u \in Owner, CompleteClaim(s, u) PROVE TypeOK'
    BY <1>2 DEF TypeOK, SiteRow, CompleteClaim
  <1>3. ASSUME NEW s \in Site, VerifyTraffic(s) PROVE TypeOK'
    BY <1>3 DEF TypeOK, SiteRow, VerifyTraffic
  <1>4. ASSUME NEW t \in Tab, OpenEditor(t) PROVE TypeOK'
    BY <1>4 DEF TypeOK, EditorState, OpenEditor, ClosedTab
  <1>5. ASSUME NEW t \in Tab, ReadProfile(t) PROVE TypeOK'
    <2>1. profile[TabOwner[t]].updatedAt \in Nat
      BY TabAssumption DEF TypeOK, ProfileRow
    <2> QED BY ZenonT(40), <1>5, <2>1 DEF TypeOK, EditorState, ReadProfile
  <1>6. ASSUME NEW t \in Tab, ReadRevisions(t) PROVE TypeOK'
    <2>1. FormContent(TabOwner[t]) \in Content \cup {NoContent}
      BY FormContentType, TabAssumption
    <2>2. editor[t] \in EditorState
      BY DEF TypeOK
    <2>3. \A ph \in {"submit", "idle"}, c \in Content \cup {NoContent} :
            [editor[t] EXCEPT !.phase = ph, !.token = editor[t].row, !.shown = c] \in EditorState
      BY <2>2 DEF EditorState
    <2>4. editor' \in [Tab -> EditorState]
      BY <1>6, <2>1, <2>3 DEF TypeOK, ReadRevisions
    <2> QED BY <1>6, <2>4 DEF TypeOK, ReadRevisions
  <1>7. ASSUME NEW t \in Tab, NEW s \in Site, NEW r \in Revision, NEW c \in Content,
               NEW now \in ClockReading, SaveDraft(t, s, r, c, now)
        PROVE  TypeOK'
    <2>1. TabOwner[t] \in Owner /\ NextTimestamp(TabOwner[t], now) \in Nat
      BY TabAssumption, TimestampAdvances
    <2>2. profile' \in [Owner -> ProfileRow]
      BY <1>7, <2>1 DEF TypeOK, ProfileRow, SaveDraft
    <2>3. rev' \in [Revision -> RevisionRow]
      BY <1>7, <2>1 DEF TypeOK, RevisionRow, SaveDraft
    <2>4. editor' \in [Tab -> EditorState]
      <3>1. PICK i \in {"save", "submit"} :
              editor' = [editor EXCEPT ![t] = [@ EXCEPT !.phase = "read", !.intent = i]]
        BY <1>7 DEF SaveDraft
      <3> QED BY ZenonT(40), <3>1 DEF TypeOK, EditorState
    <2> QED BY <1>7, <2>2, <2>3, <2>4 DEF TypeOK, SaveDraft
  <1>8. ASSUME NEW t \in Tab, NEW r \in Revision, NEW now \in ClockReading,
               SubmitDraft(t, r, now)
        PROVE  TypeOK'
    <2>1. TabOwner[t] \in Owner /\ NextTimestamp(TabOwner[t], now) \in Nat
      BY TabAssumption, TimestampAdvances
    <2>2. profile' \in [Owner -> ProfileRow]
      BY <1>8, <2>1, StampType DEF SubmitDraft
    <2>3. rev' \in [Revision -> RevisionRow]
      BY ZenonT(40), <1>8 DEF TypeOK, RevisionRow, SubmitDraft
    <2>4. editor' \in [Tab -> EditorState]
      <3>1. editor' = [editor EXCEPT ![t] = [@ EXCEPT !.phase = "read", !.intent = "sent"]]
        BY <1>8 DEF SubmitDraft
      <3> QED BY ZenonT(40), <3>1 DEF TypeOK, EditorState
    <2> QED BY <1>8, <2>2, <2>3, <2>4 DEF TypeOK, SubmitDraft
  <1>9. ASSUME NEW t \in Tab, RequestFails(t) PROVE TypeOK'
    BY <1>9 DEF TypeOK, EditorState, RequestFails, ClosedTab
  <1>10. ASSUME NEW a \in Admin, NEW r \in Revision, LoadQueue(a, r) PROVE TypeOK'
    BY <1>10 DEF TypeOK, QueueItem, RevisionRow, LoadQueue
  <1>11. ASSUME NEW a \in Admin, NEW r \in Revision, NEW u \in Owner,
                NEW now \in ClockReading, Approve(a, r, u, now)
         PROVE  TypeOK'
    <2>1. NextTimestamp(u, now) \in Nat
      BY TimestampAdvances
    <2>2. profile' \in [Owner -> ProfileRow]
      BY <1>11, <2>1, StampType DEF Approve
    <2>3. rev' \in [Revision -> RevisionRow]
      <3>1. \A q \in Revision : rev[q] \in RevisionRow
        BY DEF TypeOK
      <3>2. \A q \in Revision :
              /\ [rev[q] EXCEPT !.status = "published", !.reviewedAt = NextTimestamp(u, now)]
                   \in RevisionRow
              /\ [rev[q] EXCEPT !.status = "superseded"] \in RevisionRow
        BY <2>1, <3>1 DEF RevisionRow
      <3> QED BY <1>11, <3>1, <3>2 DEF Approve
    <2>4. approvedAs' \in [Revision -> Content \cup {NoContent}]
      BY <1>11 DEF TypeOK, QueueItem, Approve
    <2>5. verdict' \in [Owner -> {"none", "approve", "reject"}]
      BY <1>11 DEF TypeOK, Approve
    <2> QED BY <1>11, <2>2, <2>3, <2>4, <2>5 DEF TypeOK, Approve
  <1>12. ASSUME NEW a \in Admin, NEW r \in Revision, NEW u \in Owner,
                NEW now \in ClockReading, Reject(a, r, u, now)
         PROVE  TypeOK'
    <2>1. NextTimestamp(u, now) \in Nat
      BY TimestampAdvances
    <2>2. profile' \in [Owner -> ProfileRow]
      BY <1>12, <2>1, StampType DEF Reject, StatusAfterReject
    <2>3. rev' \in [Revision -> RevisionRow]
      BY ZenonT(40), <1>12, <2>1 DEF TypeOK, RevisionRow, Reject
    <2>4. verdict' \in [Owner -> {"none", "approve", "reject"}]
      BY <1>12 DEF TypeOK, Reject
    <2> QED BY <1>12, <2>2, <2>3, <2>4 DEF TypeOK, Reject
  <1>13. ASSUME NEW u \in Owner, NEW now \in ClockReading, Suspend(u, now) PROVE TypeOK'
    <2>1. profile' \in [Owner -> ProfileRow]
      BY <1>13, TimestampAdvances, StampType DEF Suspend
    <2> QED BY <1>13, <2>1 DEF TypeOK, Suspend
  <1>14. ASSUME NEW u \in Owner, NEW now \in ClockReading, Restore(u, now) PROVE TypeOK'
    <2>1. profile' \in [Owner -> ProfileRow]
      BY <1>14, TimestampAdvances, StampType DEF Restore
    <2> QED BY <1>14, <2>1 DEF TypeOK, Restore
  <1>15. CASE UNCHANGED vars
    BY <1>15 DEF TypeOK, vars
  <1> QED
    BY <1>1, <1>2, <1>3, <1>4, <1>5, <1>6, <1>7, <1>8, <1>9, <1>10, <1>11, <1>12,
       <1>13, <1>14, <1>15 DEF Next, SiteStep, EditorStep, ReviewStep

\* TypeOK holds in every reachable state.
THEOREM TypeCorrect == Spec => []TypeOK
  BY InitTypeOK, TypeStep, PTL DEF Spec

-----------------------------------------------------------------------------
(* Revisions and the status column *)

\* A row exists exactly when it has an owner.
RowsAreOwned ==
  \A r \in Revision : rev[r].status = "absent" <=> rev[r].owner = NoOwner

\* The inductive invariant about the two tables.
TableInv == TypeOK /\ RowsAreOwned /\ OneOpenRevision /\ StatusMatchesRevisions

\* Only six handlers write the two tables.
LEMMA Writers ==
  ASSUME [Next]_vars
  PROVE  \/ UNCHANGED <<profile, rev>>
         \/ \E t \in Tab, s \in Site, r \in Revision, c \in Content, now \in ClockReading :
              SaveDraft(t, s, r, c, now)
         \/ \E t \in Tab, r \in Revision, now \in ClockReading : SubmitDraft(t, r, now)
         \/ \E a \in Admin, r \in Revision, u \in Owner, now \in ClockReading :
              Approve(a, r, u, now) \/ Reject(a, r, u, now)
         \/ \E u \in Owner, now \in ClockReading : Suspend(u, now) \/ Restore(u, now)
  <1>1. CASE SiteStep
    BY <1>1 DEF SiteStep, ModerateSite, CompleteClaim, VerifyTraffic
  <1>2. CASE EditorStep
    BY <1>2 DEF EditorStep, OpenEditor, ReadProfile, ReadRevisions, RequestFails
  <1>3. CASE ReviewStep
    BY <1>3 DEF ReviewStep, LoadQueue
  <1>4. CASE UNCHANGED vars
    BY <1>4 DEF vars
  <1> QED BY <1>1, <1>2, <1>3, <1>4 DEF Next

\* The initial tables are empty.
LEMMA InitTableInv == Init => TableInv
  <1> SUFFICES ASSUME Init PROVE RowsAreOwned /\ OneOpenRevision /\ StatusMatchesRevisions
    BY InitTypeOK DEF TableInv
  <1>1. \A r \in Revision : rev[r].status = "absent" /\ rev[r].owner = NoOwner
    BY DEF Init, NoRow
  <1>2. \A u \in Owner : \A st : Rows(u, st) = {}
    BY <1>1, ValuesAssumption DEF Rows
  <1>3. \A u \in Owner : profile[u].status = "none"
    BY DEF Init, NoProfile
  <1> QED BY <1>1, <1>2, <1>3 DEF RowsAreOwned, OneOpenRevision, StatusMatchesRevisions

\* A save: r becomes the only draft of its owner.
LEMMA SaveKeepsTables ==
  ASSUME TableInv, TypeOK', NEW t \in Tab, NEW s \in Site, NEW r \in Revision, NEW c \in Content,
         NEW now \in ClockReading, SaveDraft(t, s, r, c, now)
  PROVE  RowsAreOwned' /\ OneOpenRevision' /\ StatusMatchesRevisions'
  <1> DEFINE u == TabOwner[t]
  <1>1. u \in Owner /\ u # NoOwner
    BY TabAssumption, ValuesAssumption
  <1>2. \A q \in Revision : ~(rev[q].owner = u /\ rev[q].status = "pending")
    BY DEF SaveDraft, NoneInReview, Rows
  <1>3. \/ rev[r] = NoRow /\ \A q \in Revision : ~(rev[q].owner = u /\ rev[q].status = "draft")
        \/ rev[r].owner = u /\ rev[r].status = "draft"
    BY DEF SaveDraft, Rows
  <1>4. /\ rev'[r].status = "draft" /\ rev'[r].owner = u
        /\ \A q \in Revision : q # r => rev'[q] = rev[q]
    BY DEF SaveDraft, TableInv, TypeOK
  <1>5. /\ profile'[u].status = IF profile[u].status = "active" THEN "active" ELSE "draft"
        /\ profile[u].status # "suspended"
        /\ \A v \in Owner : v # u => profile'[v] = profile[v]
    BY <1>1 DEF SaveDraft, TableInv, TypeOK
  <1>6. RowsAreOwned'
    BY <1>1, <1>4 DEF RowsAreOwned, TableInv
  <1>7. OneOpenRevision'
    BY <1>1, <1>2, <1>3, <1>4 DEF OneOpenRevision, TableInv
  <1>8. StatusMatchesRevisions'
    <2> SUFFICES ASSUME NEW v \in Owner
                 PROVE  /\ profile'[v].status \in {"active", "suspended"}
                             <=> Rows(v, "published")' # {}
                        /\ profile'[v].status = "draft" => Rows(v, "draft")' # {}
                        /\ profile'[v].status = "pending" => Rows(v, "pending")' # {}
                        /\ profile'[v].status \in {"none", "rejected"} =>
                             Rows(v, "draft")' = {} /\ Rows(v, "pending")' = {}
      BY DEF StatusMatchesRevisions
    <2>1. Rows(v, "published")' = Rows(v, "published")
      BY <1>3, <1>4 DEF Rows, NoRow
    <2>2. CASE v = u
      BY <2>1, <2>2, <1>4, <1>5 DEF Rows, TableInv, StatusMatchesRevisions
    <2>3. CASE v # u
      <3>1. rev[r].owner # v
        BY <1>3, <2>3, ValuesAssumption DEF NoRow
      <3>2. \A st : Rows(v, st)' = Rows(v, st)
        BY <1>4, <2>3, <3>1 DEF Rows
      <3> QED BY <3>2, <2>3, <1>5 DEF TableInv, StatusMatchesRevisions
    <2> QED BY <2>2, <2>3
  <1> QED BY <1>6, <1>7, <1>8

\* A submission: the owner's draft becomes its only pending revision.
LEMMA SubmitKeepsTables ==
  ASSUME TableInv, TypeOK', NEW t \in Tab, NEW r \in Revision,
         NEW now \in ClockReading, SubmitDraft(t, r, now)
  PROVE  RowsAreOwned' /\ OneOpenRevision' /\ StatusMatchesRevisions'
  <1> DEFINE u == TabOwner[t]
  <1>1. u \in Owner /\ u # NoOwner
    BY TabAssumption, ValuesAssumption
  <1>2. rev[r].owner = u /\ rev[r].status = "draft"
    BY DEF SubmitDraft, Rows
  <1>3. /\ rev'[r].status = "pending" /\ rev'[r].owner = u
        /\ \A q \in Revision : q # r => rev'[q] = rev[q]
    BY <1>2 DEF SubmitDraft, TableInv, TypeOK, RevisionRow
  <1>4. /\ profile'[u].status = IF profile[u].status = "active" THEN "active" ELSE "pending"
        /\ profile[u].status # "suspended"
        /\ \A v \in Owner : v # u => profile'[v] = profile[v]
    BY <1>1 DEF SubmitDraft, Stamp, TableInv, TypeOK, ProfileRow
  <1>5. RowsAreOwned'
    BY <1>1, <1>3 DEF RowsAreOwned, TableInv
  <1>6. OneOpenRevision'
    BY <1>1, <1>2, <1>3 DEF OneOpenRevision, TableInv
  <1>7. StatusMatchesRevisions'
    <2> SUFFICES ASSUME NEW v \in Owner
                 PROVE  /\ profile'[v].status \in {"active", "suspended"}
                             <=> Rows(v, "published")' # {}
                        /\ profile'[v].status = "draft" => Rows(v, "draft")' # {}
                        /\ profile'[v].status = "pending" => Rows(v, "pending")' # {}
                        /\ profile'[v].status \in {"none", "rejected"} =>
                             Rows(v, "draft")' = {} /\ Rows(v, "pending")' = {}
      BY DEF StatusMatchesRevisions
    <2>1. Rows(v, "published")' = Rows(v, "published")
      BY <1>2, <1>3 DEF Rows
    <2>2. CASE v = u
      BY <2>1, <2>2, <1>3, <1>4 DEF Rows, TableInv, StatusMatchesRevisions
    <2>3. CASE v # u
      <3>1. \A st : Rows(v, st)' = Rows(v, st)
        BY <1>2, <1>3, <2>3 DEF Rows
      <3> QED BY <3>1, <2>3, <1>4 DEF TableInv, StatusMatchesRevisions
    <2> QED BY <2>2, <2>3
  <1> QED BY <1>5, <1>6, <1>7

\* An approval: r replaces whatever its owner had published.
LEMMA ApproveKeepsTables ==
  ASSUME TableInv, TypeOK', NEW a \in Admin, NEW r \in Revision, NEW u \in Owner,
         NEW now \in ClockReading, Approve(a, r, u, now)
  PROVE  RowsAreOwned' /\ OneOpenRevision' /\ StatusMatchesRevisions'
  <1>1. rev[r].owner = u /\ rev[r].status = "pending" /\ u # NoOwner
    BY ValuesAssumption DEF Approve, Reviewing, Rows
  <1>2. /\ rev'[r].status = "published"
        /\ \A q \in Revision : rev'[q].owner = rev[q].owner
        /\ \A q \in Revision : q # r /\ rev[q].owner = u /\ rev[q].status = "published" =>
                                 rev'[q].status = "superseded"
        /\ \A q \in Revision : q # r /\ ~(rev[q].owner = u /\ rev[q].status = "published") =>
                                 rev'[q] = rev[q]
    <2>1. \A q \in Revision :
            rev'[q] = IF q = r THEN [rev[q] EXCEPT !.status = "published",
                                                   !.reviewedAt = NextTimestamp(u, now)]
                      ELSE IF q \in Rows(u, "published")
                             THEN [rev[q] EXCEPT !.status = "superseded"]
                      ELSE rev[q]
      BY DEF Approve
    <2>2. \A q \in Revision : rev[q] \in RevisionRow
      BY DEF TableInv, TypeOK
    <2>3. \A q \in Revision :
            q \in Rows(u, "published") <=> rev[q].owner = u /\ rev[q].status = "published"
      BY DEF Rows
    <2> QED BY ZenonT(40), <1>1, <2>1, <2>2, <2>3 DEF RevisionRow
  <1>3. /\ profile'[u].status = "active"
        /\ \A v \in Owner : v # u => profile'[v] = profile[v]
    BY ZenonT(40) DEF Approve, Stamp, TableInv, TypeOK, ProfileRow
  <1>4. RowsAreOwned'
    BY <1>1, <1>2 DEF RowsAreOwned, TableInv
  <1>5. OneOpenRevision'
    BY <1>1, <1>2 DEF OneOpenRevision, TableInv
  <1>6. StatusMatchesRevisions'
    <2> SUFFICES ASSUME NEW v \in Owner
                 PROVE  /\ profile'[v].status \in {"active", "suspended"}
                             <=> Rows(v, "published")' # {}
                        /\ profile'[v].status = "draft" => Rows(v, "draft")' # {}
                        /\ profile'[v].status = "pending" => Rows(v, "pending")' # {}
                        /\ profile'[v].status \in {"none", "rejected"} =>
                             Rows(v, "draft")' = {} /\ Rows(v, "pending")' = {}
      BY DEF StatusMatchesRevisions
    <2>1. CASE v = u
      BY <2>1, <1>1, <1>2, <1>3 DEF Rows
    <2>2. CASE v # u
      <3>1. \A st : Rows(v, st)' = Rows(v, st)
        BY <1>1, <1>2, <2>2 DEF Rows
      <3> QED BY <3>1, <2>2, <1>3 DEF TableInv, StatusMatchesRevisions
    <2> QED BY <2>1, <2>2
  <1> QED BY <1>4, <1>5, <1>6

\* A rejection: nothing of the owner's stays open.
LEMMA RejectKeepsTables ==
  ASSUME TableInv, TypeOK', NEW a \in Admin, NEW r \in Revision, NEW u \in Owner,
         NEW now \in ClockReading, Reject(a, r, u, now)
  PROVE  RowsAreOwned' /\ OneOpenRevision' /\ StatusMatchesRevisions'
  <1>1. rev[r].owner = u /\ rev[r].status = "pending" /\ u # NoOwner
    BY ValuesAssumption DEF Reject, Reviewing, Rows
  <1>2. /\ rev'[r].status = "rejected" /\ rev'[r].owner = u
        /\ \A q \in Revision : q # r => rev'[q] = rev[q]
    BY <1>1 DEF Reject, TableInv, TypeOK, RevisionRow
  <1>3. /\ profile'[u].status = StatusAfterReject(u)
        /\ profile[u].status # "none"
        /\ \A v \in Owner : v # u => profile'[v] = profile[v]
    BY DEF Reject, HasProfile, Stamp, TableInv, TypeOK, ProfileRow
  <1>4. RowsAreOwned'
    BY <1>1, <1>2 DEF RowsAreOwned, TableInv
  <1>5. OneOpenRevision'
    BY <1>1, <1>2 DEF OneOpenRevision, TableInv
  <1>6. StatusMatchesRevisions'
    <2> SUFFICES ASSUME NEW v \in Owner
                 PROVE  /\ profile'[v].status \in {"active", "suspended"}
                             <=> Rows(v, "published")' # {}
                        /\ profile'[v].status = "draft" => Rows(v, "draft")' # {}
                        /\ profile'[v].status = "pending" => Rows(v, "pending")' # {}
                        /\ profile'[v].status \in {"none", "rejected"} =>
                             Rows(v, "draft")' = {} /\ Rows(v, "pending")' = {}
      BY DEF StatusMatchesRevisions
    <2>1. CASE v = u
      <3>1. Rows(u, "published")' = Rows(u, "published")
        BY <1>1, <1>2 DEF Rows
      <3>2. \A q \in Revision : q # r =>
              ~(rev[q].owner = u /\ rev[q].status \in {"draft", "pending"})
        BY <1>1 DEF TableInv, OneOpenRevision
      <3>3. Rows(u, "draft")' = {} /\ Rows(u, "pending")' = {}
        BY <1>2, <3>2 DEF Rows
      <3>4. profile[u].status \in {"active", "suspended"} <=> Rows(u, "published") # {}
        BY DEF TableInv, StatusMatchesRevisions
      <3> QED BY <2>1, <1>3, <3>1, <3>3, <3>4 DEF StatusAfterReject
    <2>2. CASE v # u
      <3>1. \A st : Rows(v, st)' = Rows(v, st)
        BY <1>1, <1>2, <2>2 DEF Rows
      <3> QED BY <3>1, <2>2, <1>3 DEF TableInv, StatusMatchesRevisions
    <2> QED BY <2>1, <2>2
  <1> QED BY <1>4, <1>5, <1>6

\* Suspending and restoring move a profile between the two statuses that go with
\* a published text.
LEMMA SuspendRestoreKeepTables ==
  ASSUME TableInv, TypeOK', NEW u \in Owner, NEW now \in ClockReading,
         Suspend(u, now) \/ Restore(u, now)
  PROVE  RowsAreOwned' /\ OneOpenRevision' /\ StatusMatchesRevisions'
  <1>1. /\ profile'[u].status \in {"active", "suspended"}
        /\ profile[u].status \in {"active", "suspended"}
        /\ \A v \in Owner : v # u => profile'[v] = profile[v]
        /\ rev' = rev
    BY ZenonT(40) DEF Suspend, Restore, Stamp, TableInv, TypeOK, ProfileRow
  <1>2. \A v \in Owner : \A st : Rows(v, st)' = Rows(v, st)
    BY <1>1 DEF Rows
  <1>3. RowsAreOwned' /\ OneOpenRevision'
    BY <1>1 DEF RowsAreOwned, OneOpenRevision, TableInv
  <1>4. StatusMatchesRevisions'
    BY <1>1, <1>2 DEF StatusMatchesRevisions, TableInv
  <1> QED BY <1>3, <1>4

\* Every step keeps the tables consistent.
LEMMA TableStep == TableInv /\ [Next]_vars => TableInv'
  <1> SUFFICES ASSUME TableInv, [Next]_vars PROVE TableInv'
    OBVIOUS
  <1>1. TypeOK'
    BY TypeStep DEF TableInv
  <1> SUFFICES RowsAreOwned' /\ OneOpenRevision' /\ StatusMatchesRevisions'
    BY <1>1 DEF TableInv
  <1>2. CASE UNCHANGED <<profile, rev>>
    BY <1>2 DEF TableInv, RowsAreOwned, OneOpenRevision, StatusMatchesRevisions, Rows
  <1> QED
    BY <1>1, <1>2, Writers, SaveKeepsTables, SubmitKeepsTables, ApproveKeepsTables,
       RejectKeepsTables, SuspendRestoreKeepTables

\* The revision tables never hold two open or two published revisions of one
\* profile: the database's partial unique indexes are never what stops a write.
THEOREM OneRevisionOpen == Spec => []OneOpenRevision
  <1>1. TableInv => OneOpenRevision
    BY DEF TableInv
  <1> QED BY InitTableInv, TableStep, <1>1, PTL DEF Spec

\* The profile's status column always agrees with its revisions.
THEOREM StatusIsConsistent == Spec => []StatusMatchesRevisions
  <1>1. TableInv => StatusMatchesRevisions
    BY DEF TableInv
  <1> QED BY InitTableInv, TableStep, <1>1, PTL DEF Spec

-----------------------------------------------------------------------------
(* Concurrency tokens *)

\* Whoever leaves the revisions of v alone leaves the text of v's form alone.
LEMMA TextFrame ==
  ASSUME NEW v,
         \A r \in Revision : rev[r].owner = v \/ rev'[r].owner = v => rev'[r] = rev[r]
  PROVE  /\ \A st : Rows(v, st)' = Rows(v, st)
         /\ \A st : ContentIn(v, st)' = ContentIn(v, st)
         /\ FormContent(v)' = FormContent(v)
  <1>1. ASSUME NEW st PROVE Rows(v, st)' = Rows(v, st)
    BY DEF Rows
  <1>2. ASSUME NEW st PROVE ContentIn(v, st)' = ContentIn(v, st)
    <2>1. CASE Rows(v, st) = {}
      BY <2>1, <1>1 DEF ContentIn
    <2>2. CASE Rows(v, st) # {}
      <3> DEFINE q == FirstOf(Rows(v, st))
      <3>1. q \in Revision /\ rev[q].owner = v
        BY <2>2 DEF Rows, FirstOf
      <3>2. rev'[q] = rev[q]
        BY <3>1
      <3> QED BY <2>2, <1>1, <3>2 DEF ContentIn
    <2> QED BY <2>1, <2>2
  <1>3. FormContent(v)' = FormContent(v)
    BY <1>1, <1>2 DEF FormContent
  <1> QED BY <1>1, <1>2, <1>3

\* A step that changes the profile or the text of an owner issues a later token.
LEMMA TokenPerWrite ==
  ASSUME TableInv, [Next]_vars, NEW v \in Owner
  PROVE  \/ profile'[v] = profile[v] /\ FormContent(v)' = FormContent(v)
         \/ profile'[v].updatedAt > profile[v].updatedAt /\ profile'[v].status # "none"
  <1>1. CASE UNCHANGED <<profile, rev>>
    BY <1>1, TextFrame
  <1>2. ASSUME NEW t \in Tab, NEW s \in Site, NEW r \in Revision, NEW c \in Content,
               NEW now \in ClockReading, SaveDraft(t, s, r, c, now)
        PROVE  \/ profile'[v] = profile[v] /\ FormContent(v)' = FormContent(v)
               \/ profile'[v].updatedAt > profile[v].updatedAt /\ profile'[v].status # "none"
    <2> DEFINE u == TabOwner[t]
    <2>1. u \in Owner
      BY TabAssumption
    <2>2. CASE v = u
      BY <1>2, <2>1, <2>2, TimestampAdvances DEF SaveDraft, TableInv, TypeOK
    <2>3. CASE v # u
      <3>1. \A q \in Revision : rev[q].owner = v \/ rev'[q].owner = v => rev'[q] = rev[q]
        BY <1>2, <2>3, ValuesAssumption DEF SaveDraft, Rows, NoRow, TableInv, TypeOK
      <3> QED BY <1>2, <2>1, <2>3, <3>1, TextFrame DEF SaveDraft, TableInv, TypeOK
    <2> QED BY <2>2, <2>3
  <1>3. ASSUME NEW t \in Tab, NEW r \in Revision, NEW now \in ClockReading,
               SubmitDraft(t, r, now)
        PROVE  \/ profile'[v] = profile[v] /\ FormContent(v)' = FormContent(v)
               \/ profile'[v].updatedAt > profile[v].updatedAt /\ profile'[v].status # "none"
    <2> DEFINE u == TabOwner[t]
    <2>1. u \in Owner
      BY TabAssumption
    <2>2. CASE v = u
      BY <1>3, <2>1, <2>2, TimestampAdvances DEF SubmitDraft, Stamp, TableInv, TypeOK, ProfileRow
    <2>3. CASE v # u
      <3>1. \A q \in Revision : rev[q].owner = v \/ rev'[q].owner = v => rev'[q] = rev[q]
        BY <1>3, <2>3 DEF SubmitDraft, Rows, TableInv, TypeOK, RevisionRow
      <3> QED BY <1>3, <2>1, <2>3, <3>1, TextFrame DEF SubmitDraft, Stamp, TableInv, TypeOK
    <2> QED BY <2>2, <2>3
  <1>4. ASSUME NEW a \in Admin, NEW r \in Revision, NEW u \in Owner, NEW now \in ClockReading,
               Approve(a, r, u, now)
        PROVE  \/ profile'[v] = profile[v] /\ FormContent(v)' = FormContent(v)
               \/ profile'[v].updatedAt > profile[v].updatedAt /\ profile'[v].status # "none"
    <2>1. CASE v = u
      BY <1>4, <2>1, TimestampAdvances DEF Approve, Stamp, TableInv, TypeOK, ProfileRow
    <2>2. CASE v # u
      <3>1. \A q \in Revision : rev[q].owner = v \/ rev'[q].owner = v => rev'[q] = rev[q]
        BY <1>4, <2>2 DEF Approve, Reviewing, Rows, TableInv, TypeOK, RevisionRow
      <3> QED BY <1>4, <2>2, <3>1, TextFrame DEF Approve, Stamp, TableInv, TypeOK
    <2> QED BY <2>1, <2>2
  <1>5. ASSUME NEW a \in Admin, NEW r \in Revision, NEW u \in Owner, NEW now \in ClockReading,
               Reject(a, r, u, now)
        PROVE  \/ profile'[v] = profile[v] /\ FormContent(v)' = FormContent(v)
               \/ profile'[v].updatedAt > profile[v].updatedAt /\ profile'[v].status # "none"
    <2>1. CASE v = u
      BY <1>5, <2>1, TimestampAdvances
         DEF Reject, StatusAfterReject, Stamp, TableInv, TypeOK, ProfileRow
    <2>2. CASE v # u
      <3>1. \A q \in Revision : rev[q].owner = v \/ rev'[q].owner = v => rev'[q] = rev[q]
        BY <1>5, <2>2 DEF Reject, Reviewing, Rows, TableInv, TypeOK, RevisionRow
      <3> QED BY <1>5, <2>2, <3>1, TextFrame DEF Reject, Stamp, TableInv, TypeOK
    <2> QED BY <2>1, <2>2
  <1>6. ASSUME NEW u \in Owner, NEW now \in ClockReading, Suspend(u, now) \/ Restore(u, now)
        PROVE  \/ profile'[v] = profile[v] /\ FormContent(v)' = FormContent(v)
               \/ profile'[v].updatedAt > profile[v].updatedAt /\ profile'[v].status # "none"
    <2>1. CASE v = u
      <3>1. \E st \in {"active", "suspended"} : profile' = Stamp(u, st, NextTimestamp(u, now))
        BY <1>6 DEF Suspend, Restore
      <3>2. profile'[u].updatedAt = NextTimestamp(u, now) /\ profile'[u].status # "none"
        BY <3>1 DEF Stamp, TableInv, TypeOK, ProfileRow
      <3> QED BY <2>1, <3>2, TimestampAdvances DEF TableInv
    <2>2. CASE v # u
      BY <1>6, <2>2, TextFrame DEF Suspend, Restore, Stamp, TableInv, TypeOK
    <2> QED BY <2>1, <2>2
  <1> QED BY <1>1, <1>2, <1>3, <1>4, <1>5, <1>6, Writers

\* What one step can do to the token and the text that a tab holds.
LEMMA EditorEffect ==
  ASSUME TypeOK, [Next]_vars, NEW t \in Tab
  PROVE  \/ /\ editor'[t].token = editor[t].token /\ editor'[t].shown = editor[t].shown
            /\ editor'[t].row \in {editor[t].row, profile[TabOwner[t]].updatedAt}
         \/ editor'[t].token = 0 /\ editor'[t].row = 0
         \/ /\ UNCHANGED <<profile, rev>>
            /\ editor'[t].token = editor[t].row /\ editor'[t].row = editor[t].row
            /\ editor[t].row # 0 => editor'[t].shown = FormContent(TabOwner[t])
  <1>1. CASE SiteStep
    BY <1>1 DEF SiteStep, ModerateSite, CompleteClaim, VerifyTraffic
  <1>2. CASE ReviewStep
    <2>1. UNCHANGED editor
      BY ZenonT(40), <1>2 DEF ReviewStep, LoadQueue, Approve, Reject, Suspend, Restore
    <2> QED BY <2>1
  <1>3. CASE UNCHANGED vars
    BY <1>3 DEF vars
  <1>4. ASSUME NEW w \in Tab, w # t, OpenEditor(w) \/ ReadProfile(w) \/ ReadRevisions(w)
                                       \/ RequestFails(w)
        PROVE  editor'[t] = editor[t]
    BY <1>4 DEF OpenEditor, ReadProfile, ReadRevisions, RequestFails, TypeOK
  <1>5. ASSUME NEW w \in Tab, NEW s \in Site, NEW r \in Revision, NEW c \in Content,
               NEW now \in ClockReading, SaveDraft(w, s, r, c, now)
        PROVE  /\ editor'[t].token = editor[t].token /\ editor'[t].shown = editor[t].shown
               /\ editor'[t].row = editor[t].row
    <2>1. PICK i \in {"save", "submit"} :
            editor' = [editor EXCEPT ![w] = [@ EXCEPT !.phase = "read", !.intent = i]]
      BY <1>5 DEF SaveDraft
    <2> QED BY <2>1 DEF TypeOK, EditorState
  <1>6. ASSUME NEW w \in Tab, NEW r \in Revision, NEW now \in ClockReading,
               SubmitDraft(w, r, now)
        PROVE  /\ editor'[t].token = editor[t].token /\ editor'[t].shown = editor[t].shown
               /\ editor'[t].row = editor[t].row
    BY <1>6 DEF SubmitDraft, TypeOK, EditorState
  <1>7. ASSUME OpenEditor(t) PROVE editor'[t].token = 0 /\ editor'[t].row = 0
    BY <1>7 DEF OpenEditor, ClosedTab, TypeOK
  <1>8. ASSUME ReadProfile(t)
        PROVE  /\ editor'[t].token = editor[t].token /\ editor'[t].shown = editor[t].shown
               /\ editor'[t].row = profile[TabOwner[t]].updatedAt
    BY <1>8 DEF ReadProfile, TypeOK, EditorState
  <1>9. ASSUME ReadRevisions(t)
        PROVE  /\ UNCHANGED <<profile, rev>>
               /\ editor'[t].token = editor[t].row /\ editor'[t].row = editor[t].row
               /\ editor[t].row # 0 => editor'[t].shown = FormContent(TabOwner[t])
    BY <1>9 DEF ReadRevisions, TypeOK, EditorState
  <1>10. ASSUME RequestFails(t)
         PROVE  \/ editor'[t].token = 0 /\ editor'[t].row = 0
                \/ /\ editor'[t].token = editor[t].token /\ editor'[t].shown = editor[t].shown
                   /\ editor'[t].row = editor[t].row
    BY <1>10 DEF RequestFails, ClosedTab, TypeOK, EditorState
  <1>11. CASE EditorStep
    BY <1>11, <1>4, <1>5, <1>6, <1>7, <1>8, <1>9, <1>10 DEF EditorStep
  <1> QED BY <1>1, <1>2, <1>3, <1>11 DEF Next

\* The inductive invariant about tokens.  A profile exists once it has a token;
\* no tab has a token from the future; and a tab with the current token has the
\* current text, whatever it is waiting for.
TokenInv ==
  /\ \A u \in Owner : profile[u].status # "none" => profile[u].updatedAt > 0
  /\ \A t \in Tab : /\ editor[t].row <= profile[TabOwner[t]].updatedAt
                    /\ editor[t].token <= profile[TabOwner[t]].updatedAt
                    /\ /\ HasProfile(TabOwner[t])
                       /\ editor[t].token = profile[TabOwner[t]].updatedAt
                       => editor[t].shown = FormContent(TabOwner[t])

\* At first there is no profile and no tab has a token.
LEMMA InitTokenInv == Init => TokenInv
  <1> SUFFICES ASSUME Init PROVE TokenInv
    OBVIOUS
  <1>1. \A u \in Owner : profile[u].status = "none" /\ profile[u].updatedAt = 0
    BY DEF Init, NoProfile
  <1>2. \A t \in Tab : editor[t].row = 0 /\ editor[t].token = 0 /\ TabOwner[t] \in Owner
    BY TabAssumption DEF Init, ClosedTab
  <1> QED BY <1>1, <1>2 DEF TokenInv, HasProfile

\* Every step keeps TokenInv.
LEMMA TokenStep == TableInv /\ TokenInv /\ [Next]_vars => TokenInv'
  <1> SUFFICES ASSUME TableInv, TokenInv, [Next]_vars PROVE TokenInv'
    OBVIOUS
  <1>1. TypeOK /\ TypeOK'
    BY TypeStep DEF TableInv
  <1>2. \A u \in Owner : profile[u].updatedAt \in Nat /\ profile'[u].updatedAt \in Nat
    BY <1>1 DEF TypeOK, ProfileRow
  <1>3. ASSUME NEW u \in Owner, profile'[u].status # "none" PROVE profile'[u].updatedAt > 0
    BY <1>2, <1>3, TokenPerWrite DEF TokenInv
  <1>4. ASSUME NEW t \in Tab
        PROVE  /\ editor'[t].row <= profile'[TabOwner[t]].updatedAt
               /\ editor'[t].token <= profile'[TabOwner[t]].updatedAt
               /\ /\ HasProfile(TabOwner[t])'
                  /\ editor'[t].token = profile'[TabOwner[t]].updatedAt
                  => editor'[t].shown = FormContent(TabOwner[t])'
    <2> DEFINE u == TabOwner[t]
    <2>1. u \in Owner
      BY TabAssumption
    <2>2. /\ editor[t].row \in Nat /\ editor[t].token \in Nat
          /\ editor[t].row <= profile[u].updatedAt
          /\ editor[t].token <= profile[u].updatedAt
          /\ profile[u].status # "none" /\ editor[t].token = profile[u].updatedAt
               => editor[t].shown = FormContent(u)
      BY <1>1 DEF TypeOK, EditorState, TokenInv, HasProfile
    <2>3. \/ profile'[u] = profile[u] /\ FormContent(u)' = FormContent(u)
          \/ profile'[u].updatedAt > profile[u].updatedAt /\ profile'[u].status # "none"
      BY <2>1, TokenPerWrite
    <2>4. CASE /\ editor'[t].token = editor[t].token /\ editor'[t].shown = editor[t].shown
               /\ editor'[t].row \in {editor[t].row, profile[u].updatedAt}
      BY <1>2, <2>1, <2>2, <2>3, <2>4 DEF HasProfile
    <2>5. CASE editor'[t].token = 0 /\ editor'[t].row = 0
      BY <1>2, <1>3, <2>1, <2>5 DEF HasProfile
    <2>6. CASE /\ UNCHANGED <<profile, rev>>
               /\ editor'[t].token = editor[t].row /\ editor'[t].row = editor[t].row
               /\ editor[t].row # 0 => editor'[t].shown = FormContent(u)
      <3>1. FormContent(u)' = FormContent(u)
        BY <2>6, TextFrame
      <3> QED BY <1>2, <1>3, <2>1, <2>2, <2>6, <3>1 DEF HasProfile
    <2> QED BY <1>1, <2>4, <2>5, <2>6, EditorEffect
  <1> QED BY <1>3, <1>4 DEF TokenInv

\* Optimistic concurrency works: a token that the server would still accept
\* vouches for the text that the tab shows beside it.
THEOREM TokensVouch == Spec => []TokenVouchesForText
  <1>1. TokenInv => TokenVouchesForText
    BY DEF TokenInv, TokenVouchesForText
  <1> QED BY InitTableInv, TableStep, InitTokenInv, TokenStep, <1>1, PTL DEF Spec

-----------------------------------------------------------------------------
(* Edits *)

\* The only row of one status is the row that is read.
LEMMA ContentOfOnlyRow ==
  ASSUME OneOpenRevision, NEW u, NEW st \in {"draft", "pending", "published"},
         NEW r \in Rows(u, st)
  PROVE  Rows(u, st) = {r} /\ ContentIn(u, st) = rev[r].content
  <1>1. \A q \in Rows(u, st) : q = r
    BY DEF OneOpenRevision, Rows
  <1>2. FirstOf(Rows(u, st)) = r
    BY <1>1 DEF FirstOf
  <1> QED BY <1>1, <1>2 DEF ContentIn

\* A tab with the current token shows the owner's draft, if there is one.
LEMMA DraftIsShown ==
  ASSUME TableInv, TokenInv, NEW t \in Tab, NEW r \in Rows(TabOwner[t], "draft"),
         HasProfile(TabOwner[t]) => TokenIsCurrent(t)
  PROVE  editor[t].shown = rev[r].content
  <1> DEFINE u == TabOwner[t]
  <1>1. u \in Owner
    BY TabAssumption
  <1>2. HasProfile(u)
    BY <1>1 DEF TableInv, StatusMatchesRevisions, HasProfile
  <1>3. editor[t].shown = FormContent(u)
    BY <1>2 DEF TokenIsCurrent, TokenInv
  <1>4. FormContent(u) = rev[r].content
    BY ContentOfOnlyRow DEF TableInv, FormContent
  <1> QED BY <1>3, <1>4

\* A draft's text or status changes only by a save or a submission that saw it.
LEMMA DraftStep ==
  ASSUME TableInv, TokenInv, [Next]_vars, NEW r \in Revision, rev[r].status = "draft"
  PROVE  /\ rev'[r].content # rev[r].content =>
              \E t \in Tab : /\ editor[t].phase = "idle" /\ editor'[t].phase = "read"
                             /\ editor[t].shown = rev[r].content
         /\ rev'[r].status = "pending" =>
              \E t \in Tab : /\ editor[t].phase = "submit" /\ editor'[t].phase = "read"
                             /\ editor[t].shown = rev[r].content
  <1>1. CASE UNCHANGED <<profile, rev>>
    BY <1>1
  <1>2. ASSUME NEW t \in Tab, NEW s \in Site, NEW q \in Revision, NEW c \in Content,
               NEW now \in ClockReading, SaveDraft(t, s, q, c, now), rev'[r] # rev[r]
        PROVE  /\ rev'[r].status = "draft"
               /\ editor[t].phase = "idle" /\ editor'[t].phase = "read"
               /\ editor[t].shown = rev[r].content
    <2>1. r = q /\ rev'[r].status = "draft"
      BY <1>2 DEF SaveDraft, TableInv, TypeOK
    <2>2. r \in Rows(TabOwner[t], "draft")
      BY <1>2, <2>1 DEF SaveDraft, NoRow
    <2>3. editor[t].shown = rev[r].content
      BY <1>2, <2>2, DraftIsShown DEF SaveDraft
    <2>4. PICK i \in {"save", "submit"} :
            editor' = [editor EXCEPT ![t] = [@ EXCEPT !.phase = "read", !.intent = i]]
      BY <1>2 DEF SaveDraft
    <2>5. editor[t].phase = "idle" /\ editor'[t].phase = "read"
      BY <1>2, <2>4 DEF SaveDraft, TableInv, TypeOK, EditorState
    <2> QED BY <2>1, <2>3, <2>5
  <1>3. ASSUME NEW t \in Tab, NEW q \in Revision, NEW now \in ClockReading,
               SubmitDraft(t, q, now)
        PROVE  /\ rev'[r].content = rev[r].content
               /\ rev'[r].status = "pending" =>
                    /\ editor[t].phase = "submit" /\ editor'[t].phase = "read"
                    /\ editor[t].shown = rev[r].content
    <2>1. rev'[r].content = rev[r].content /\ (q # r => rev'[r] = rev[r])
      BY <1>3 DEF SubmitDraft, TableInv, TypeOK, RevisionRow
    <2>2. CASE q = r
      <3>1. r \in Rows(TabOwner[t], "draft")
        BY <1>3, <2>2 DEF SubmitDraft
      <3>2. editor[t].shown = rev[r].content
        BY <1>3, <3>1, DraftIsShown DEF SubmitDraft
      <3>3. editor[t].phase = "submit" /\ editor'[t].phase = "read"
        BY <1>3 DEF SubmitDraft, TableInv, TypeOK, EditorState
      <3> QED BY <2>1, <3>2, <3>3
    <2> QED BY <2>1, <2>2
  <1>4. ASSUME NEW a \in Admin, NEW q \in Revision, NEW u \in Owner, NEW now \in ClockReading,
               Approve(a, q, u, now)
        PROVE  rev'[r] = rev[r]
    BY <1>4 DEF Approve, Reviewing, Rows
  <1>5. ASSUME NEW a \in Admin, NEW q \in Revision, NEW u \in Owner, NEW now \in ClockReading,
               Reject(a, q, u, now)
        PROVE  rev'[r] = rev[r]
    BY <1>5 DEF Reject, Reviewing, Rows, TableInv, TypeOK
  <1>6. ASSUME NEW u \in Owner, NEW now \in ClockReading, Suspend(u, now) \/ Restore(u, now)
        PROVE  rev'[r] = rev[r]
    BY <1>6 DEF Suspend, Restore
  <1>7. ASSUME NEW t \in Tab, NEW s \in Site, NEW q \in Revision, NEW c \in Content,
               NEW now \in ClockReading, SaveDraft(t, s, q, c, now)
        PROVE  \/ rev'[r] = rev[r]
               \/ /\ rev'[r].status = "draft"
                  /\ editor[t].phase = "idle" /\ editor'[t].phase = "read"
                  /\ editor[t].shown = rev[r].content
    BY <1>2, <1>7
  <1> QED BY <1>1, <1>7, <1>3, <1>4, <1>5, <1>6, Writers

\* No tab overwrites an edit that it has not shown.
THEOREM EditsAreNotLost == Spec => NoLostEdit
  <1>1. TableInv /\ TokenInv /\ [Next]_vars =>
          [\A r \in Revision :
             rev[r].status = "draft" /\ rev'[r].content # rev[r].content =>
               \E t \in Tab : /\ editor[t].phase = "idle" /\ editor'[t].phase = "read"
                              /\ editor[t].shown = rev[r].content]_vars
    BY DraftStep
  <1> QED BY InitTableInv, TableStep, InitTokenInv, TokenStep, <1>1, PTL DEF Spec, NoLostEdit

\* No tab submits a text that it has not shown.
THEOREM SubmissionsAreLoaded == Spec => SubmittedAsLoaded
  <1>1. TableInv /\ TokenInv /\ [Next]_vars =>
          [\A r \in Revision :
             rev[r].status = "draft" /\ rev'[r].status = "pending" =>
               \E t \in Tab : /\ editor[t].phase = "submit" /\ editor'[t].phase = "read"
                              /\ editor[t].shown = rev[r].content]_vars
    BY DraftStep
  <1> QED BY InitTableInv, TableStep, InitTokenInv, TokenStep, <1>1, PTL
             DEF Spec, SubmittedAsLoaded

-----------------------------------------------------------------------------
(* Review *)

\* The inductive invariant about review: rows carry a text, a revision on an
\* administrator's screen has left the owner's hands, and what was approved is
\* what was on the screen.
ReviewInv ==
  /\ \A r \in Revision : rev[r].status # "absent" => rev[r].content \in Content
  /\ \A a \in Admin, r \in Revision : screen[a].revision = r =>
       rev[r].status \notin {"absent", "draft"} /\ rev[r].content = screen[a].content
  /\ PublishedAsApproved

\* At first nobody looks at anything.
LEMMA InitReviewInv == Init => ReviewInv
  <1> SUFFICES ASSUME Init PROVE ReviewInv
    OBVIOUS
  <1>1. \A r \in Revision : rev[r].status = "absent"
    BY DEF Init, NoRow
  <1>2. \A a \in Admin : screen[a].revision \notin Revision
    BY ValuesAssumption DEF Init, EmptyQueue
  <1> QED BY <1>1, <1>2 DEF ReviewInv, PublishedAsApproved

\* Every step keeps ReviewInv.
LEMMA ReviewStepInv == TableInv /\ ReviewInv /\ [Next]_vars => ReviewInv'
  <1> SUFFICES ASSUME TableInv, ReviewInv, [Next]_vars PROVE ReviewInv'
    OBVIOUS
  <1>1. CASE UNCHANGED <<rev, screen, approvedAs>>
    BY <1>1 DEF ReviewInv, PublishedAsApproved
  <1>2. ASSUME NEW t \in Tab, NEW s \in Site, NEW r \in Revision, NEW c \in Content,
               NEW now \in ClockReading, SaveDraft(t, s, r, c, now)
        PROVE  ReviewInv'
    <2>1. rev[r].status \in {"absent", "draft"}
      BY <1>2 DEF SaveDraft, Rows, NoRow
    <2>2. /\ rev'[r].status = "draft" /\ rev'[r].content = c
          /\ \A q \in Revision : q # r => rev'[q] = rev[q]
          /\ UNCHANGED <<screen, approvedAs>>
      BY <1>2 DEF SaveDraft, TableInv, TypeOK
    <2> QED BY <2>1, <2>2 DEF ReviewInv, PublishedAsApproved
  <1>3. ASSUME NEW t \in Tab, NEW r \in Revision, NEW now \in ClockReading,
               SubmitDraft(t, r, now)
        PROVE  ReviewInv'
    <2>1. rev[r].status = "draft"
      BY <1>3 DEF SubmitDraft, Rows
    <2>2. /\ rev'[r].status = "pending" /\ rev'[r].content = rev[r].content
          /\ \A q \in Revision : q # r => rev'[q] = rev[q]
          /\ UNCHANGED <<screen, approvedAs>>
      BY <1>3 DEF SubmitDraft, TableInv, TypeOK, RevisionRow
    <2> QED BY <2>1, <2>2 DEF ReviewInv, PublishedAsApproved
  <1>4. ASSUME NEW a \in Admin, NEW r \in Revision, LoadQueue(a, r) PROVE ReviewInv'
    BY <1>4 DEF LoadQueue, ReviewInv, PublishedAsApproved, TableInv, TypeOK
  <1>5. ASSUME NEW a \in Admin, NEW r \in Revision, NEW u \in Owner, NEW now \in ClockReading,
               Approve(a, r, u, now)
        PROVE  ReviewInv'
    <2>1. screen[a].revision = r /\ rev[r].status = "pending"
      BY <1>5 DEF Approve, Reviewing, Rows
    <2>2. \A q \in Revision : rev[q] \in RevisionRow
      BY DEF TableInv, TypeOK
    <2>3. \A q \in Revision : /\ rev'[q].content = rev[q].content
                              /\ \/ q = r /\ rev'[q].status = "published"
                                 \/ q # r /\ rev'[q] = rev[q]
                                 \/ /\ q # r /\ rev[q].status = "published"
                                    /\ rev'[q].status = "superseded"
      BY <1>5, <2>2 DEF Approve, Rows, RevisionRow
    <2>4. /\ approvedAs'[r] = screen[a].content
          /\ \A q \in Revision : q # r => approvedAs'[q] = approvedAs[q]
          /\ screen' = screen
      BY <1>5 DEF Approve, TableInv, TypeOK
    <2> QED BY <2>1, <2>3, <2>4 DEF ReviewInv, PublishedAsApproved
  <1>6. ASSUME NEW a \in Admin, NEW r \in Revision, NEW u \in Owner, NEW now \in ClockReading,
               Reject(a, r, u, now)
        PROVE  ReviewInv'
    <2>1. rev[r].status = "pending"
      BY <1>6 DEF Reject, Reviewing, Rows
    <2>2. /\ rev'[r].status = "rejected" /\ rev'[r].content = rev[r].content
          /\ \A q \in Revision : q # r => rev'[q] = rev[q]
          /\ UNCHANGED <<screen, approvedAs>>
      BY <1>6 DEF Reject, TableInv, TypeOK, RevisionRow
    <2> QED BY <2>1, <2>2 DEF ReviewInv, PublishedAsApproved
  <1>7. ASSUME NEW u \in Owner, NEW now \in ClockReading, Suspend(u, now) \/ Restore(u, now)
        PROVE  ReviewInv'
    BY <1>1, <1>7 DEF Suspend, Restore
  <1>8. CASE SiteStep
    BY <1>1, <1>8 DEF SiteStep, ModerateSite, CompleteClaim, VerifyTraffic
  <1>9. ASSUME NEW t \in Tab, OpenEditor(t) \/ ReadProfile(t) \/ ReadRevisions(t)
                                \/ RequestFails(t)
        PROVE  ReviewInv'
    BY <1>1, <1>9 DEF OpenEditor, ReadProfile, ReadRevisions, RequestFails
  <1>10. CASE EditorStep
    BY <1>2, <1>3, <1>9, <1>10 DEF EditorStep
  <1>11. CASE ReviewStep
    BY <1>4, <1>5, <1>6, <1>7, <1>11 DEF ReviewStep
  <1>12. CASE UNCHANGED vars
    BY <1>1, <1>12 DEF vars
  <1> QED BY <1>8, <1>10, <1>11, <1>12 DEF Next

\* A text under review does not change on the administrators' screens.
THEOREM ReviewIsOfFrozenText == Spec => []ReviewedTextIsFrozen
  <1>1. TableInv /\ ReviewInv => ReviewedTextIsFrozen
    BY DEF TableInv, TypeOK, QueueItem, ReviewInv, ReviewedTextIsFrozen
  <1> QED BY InitTableInv, TableStep, InitReviewInv, ReviewStepInv, <1>1, PTL DEF Spec

\* The published text is the text on the screen of the administrator who approved it.
THEOREM PublishedTextWasApproved == Spec => []PublishedAsApproved
  <1>1. ReviewInv => PublishedAsApproved
    BY DEF ReviewInv
  <1> QED BY InitTableInv, TableStep, InitReviewInv, ReviewStepInv, <1>1, PTL DEF Spec

-----------------------------------------------------------------------------
(* Feedback *)

\* r has the latest decision of all revisions of u, and no other has one as late.
Decided(u, r) ==
  /\ rev[r].owner = u /\ rev[r].reviewedAt > 0
  /\ \A q \in Revision : q # r /\ rev[q].owner = u => rev[q].reviewedAt < rev[r].reviewedAt

\* The part of the inductive invariant about one owner: no decision is dated later than the
\* token, nothing open has been decided, and the last decision is where the log says.
FeedbackOf(u) ==
  /\ \A r \in Revision : rev[r].owner = u =>
       /\ rev[r].reviewedAt <= profile[u].updatedAt
       /\ rev[r].status \in {"draft", "pending"} => rev[r].reviewedAt = 0
       /\ verdict[u] = "none" => rev[r].reviewedAt = 0
  /\ verdict[u] = "reject" =>
       \E r \in Revision : Decided(u, r) /\ rev[r].status = "rejected"
  /\ verdict[u] = "approve" =>
       \E r \in Revision : Decided(u, r) /\ rev[r].status = "published"

FeedbackInv == \A u \in Owner : FeedbackOf(u)

\* At first nothing has been decided.
LEMMA InitFeedbackInv == Init => FeedbackInv
  <1> SUFFICES ASSUME Init, NEW u \in Owner PROVE FeedbackOf(u)
    BY DEF FeedbackInv
  <1>1. \A r \in Revision : rev[r].owner = NoOwner
    BY DEF Init, NoRow
  <1>2. verdict[u] = "none"
    BY DEF Init
  <1> QED BY <1>1, <1>2, ValuesAssumption DEF FeedbackOf

\* Whoever leaves v's revisions and its last decision alone, and does not turn back its token,
\* leaves v's feedback alone.
LEMMA FeedbackFrame ==
  ASSUME TypeOK, TypeOK', NEW v \in Owner, FeedbackOf(v),
         profile'[v].updatedAt >= profile[v].updatedAt, verdict'[v] = verdict[v],
         \A q \in Revision : rev[q].owner = v \/ rev'[q].owner = v => rev'[q] = rev[q]
  PROVE  FeedbackOf(v)'
  <1>1. \A q \in Revision : rev[q].reviewedAt \in Nat
    BY DEF TypeOK, RevisionRow
  <1>2. profile[v].updatedAt \in Nat /\ profile'[v].updatedAt \in Nat
    BY DEF TypeOK, ProfileRow
  <1>3. \A r \in Revision : Decided(v, r) => Decided(v, r)' /\ rev'[r] = rev[r]
    BY DEF Decided
  <1>4. \A r \in Revision : rev'[r].owner = v =>
          /\ rev'[r].reviewedAt <= profile'[v].updatedAt
          /\ rev'[r].status \in {"draft", "pending"} => rev'[r].reviewedAt = 0
          /\ verdict'[v] = "none" => rev'[r].reviewedAt = 0
    BY <1>1, <1>2 DEF FeedbackOf
  <1> QED BY <1>3, <1>4 DEF FeedbackOf

\* The owner's own writes touch a revision that has not been decided on.
LEMMA OpenWriteKeepsFeedback ==
  ASSUME TypeOK, TypeOK', NEW u \in Owner, FeedbackOf(u), NEW r \in Revision,
         profile'[u].updatedAt > profile[u].updatedAt, verdict'[u] = verdict[u],
         rev[r].owner = u => rev[r].status \in {"draft", "pending"},
         rev'[r].owner = u, rev'[r].reviewedAt = 0,
         \A q \in Revision : q # r => rev'[q] = rev[q]
  PROVE  FeedbackOf(u)'
  <1>1. \A q \in Revision : rev[q].reviewedAt \in Nat
    BY DEF TypeOK, RevisionRow
  <1>2. profile[u].updatedAt \in Nat /\ profile'[u].updatedAt \in Nat
    BY DEF TypeOK, ProfileRow
  <1>3. ASSUME NEW d \in Revision, Decided(u, d)
        PROVE  Decided(u, d)' /\ rev'[d] = rev[d]
    <2>1. d # r
      BY <1>3 DEF Decided, FeedbackOf
    <2> QED BY <1>1, <1>3, <2>1 DEF Decided
  <1>4. ASSUME NEW q \in Revision, rev'[q].owner = u
        PROVE  /\ rev'[q].reviewedAt <= profile'[u].updatedAt
               /\ rev'[q].status \in {"draft", "pending"} => rev'[q].reviewedAt = 0
               /\ verdict'[u] = "none" => rev'[q].reviewedAt = 0
    <2>1. CASE q = r
      BY <1>2, <2>1
    <2>2. CASE q # r
      BY <1>1, <1>2, <1>4, <2>2 DEF FeedbackOf
    <2> QED BY <2>1, <2>2
  <1> QED BY <1>3, <1>4 DEF FeedbackOf

\* A decision is dated later than all before it.
LEMMA DecisionIsLatest ==
  ASSUME TypeOK, TypeOK', NEW u \in Owner, FeedbackOf(u), NEW r \in Revision, NEW at \in Nat,
         at > profile[u].updatedAt, profile'[u].updatedAt = at,
         rev[r].owner = u, rev'[r].owner = u, rev'[r].reviewedAt = at,
         \A q \in Revision : q # r => /\ rev'[q].owner = rev[q].owner
                                      /\ rev'[q].reviewedAt = rev[q].reviewedAt
                                      /\ rev'[q].status \in {"draft", "pending"} =>
                                           rev[q].status \in {"draft", "pending"},
         \/ verdict'[u] = "reject" /\ rev'[r].status = "rejected"
         \/ verdict'[u] = "approve" /\ rev'[r].status = "published"
  PROVE  FeedbackOf(u)'
  <1>1. \A q \in Revision : rev[q].reviewedAt \in Nat
    BY DEF TypeOK, RevisionRow
  <1>2. profile[u].updatedAt \in Nat
    BY DEF TypeOK, ProfileRow
  <1>3. ASSUME NEW q \in Revision, q # r, rev'[q].owner = u
        PROVE  /\ rev'[q].reviewedAt < at
               /\ rev'[q].status \in {"draft", "pending"} => rev'[q].reviewedAt = 0
    BY <1>1, <1>2, <1>3 DEF FeedbackOf
  <1>4. Decided(u, r)'
    BY <1>2, <1>3 DEF Decided
  <1>5. \A q \in Revision : rev'[q].reviewedAt \in Nat
    BY DEF TypeOK, RevisionRow
  <1>6. ASSUME NEW q \in Revision, rev'[q].owner = u
        PROVE  /\ rev'[q].reviewedAt <= profile'[u].updatedAt
               /\ rev'[q].status \in {"draft", "pending"} => rev'[q].reviewedAt = 0
    BY <1>3, <1>5, <1>6
  <1> QED BY <1>4, <1>6 DEF FeedbackOf

\* Every step keeps FeedbackInv.
LEMMA FeedbackStep == TableInv /\ FeedbackInv /\ [Next]_vars => FeedbackInv'
  <1> SUFFICES ASSUME TableInv, FeedbackInv, [Next]_vars, NEW v \in Owner
               PROVE  FeedbackOf(v)'
    BY DEF FeedbackInv
  <1>1. TypeOK /\ TypeOK' /\ FeedbackOf(v)
    BY TypeStep DEF TableInv, FeedbackInv
  <1>2. profile[v].updatedAt \in Nat
    BY <1>1 DEF TypeOK, ProfileRow
  <1>3. ASSUME UNCHANGED <<profile, rev, verdict>>
        PROVE  FeedbackOf(v)'
    BY <1>1, <1>2, <1>3, FeedbackFrame
  <1>4. ASSUME NEW u \in Owner, u # v, profile'[v] = profile[v], verdict'[v] = verdict[v],
               \A q \in Revision : rev[q].owner = v \/ rev'[q].owner = v => rev'[q] = rev[q]
        PROVE  FeedbackOf(v)'
    BY <1>1, <1>2, <1>4, FeedbackFrame
  <1>5. ASSUME NEW t \in Tab, NEW s \in Site, NEW r \in Revision, NEW c \in Content,
               NEW now \in ClockReading, SaveDraft(t, s, r, c, now)
        PROVE  FeedbackOf(v)'
    <2> DEFINE u == TabOwner[t]
    <2>1. u \in Owner
      BY TabAssumption
    <2>2. NextTimestamp(u, now) > profile[u].updatedAt
      BY <1>1, <2>1, TimestampAdvances
    <2>3. /\ rev'[r].owner = u /\ rev'[r].reviewedAt = 0
          /\ \A q \in Revision : q # r => rev'[q] = rev[q]
          /\ rev[r].owner \in {u, NoOwner}
          /\ rev[r].owner = u => rev[r].status = "draft"
      BY <1>1, <1>5, <2>1, ValuesAssumption DEF SaveDraft, TypeOK, Rows, NoRow
    <2>4. /\ profile'[u].updatedAt = NextTimestamp(u, now) /\ verdict' = verdict
          /\ v # u => profile'[v] = profile[v]
      BY <1>1, <1>5, <2>1 DEF SaveDraft, TypeOK
    <2>5. CASE v = u
      BY <1>1, <2>2, <2>3, <2>4, <2>5, OpenWriteKeepsFeedback
    <2>6. CASE v # u
      BY <1>4, <2>1, <2>3, <2>4, <2>6, ValuesAssumption
    <2> QED BY <2>5, <2>6
  <1>6. ASSUME NEW t \in Tab, NEW r \in Revision, NEW now \in ClockReading,
               SubmitDraft(t, r, now)
        PROVE  FeedbackOf(v)'
    <2> DEFINE u == TabOwner[t]
    <2>1. u \in Owner
      BY TabAssumption
    <2>2. NextTimestamp(u, now) > profile[u].updatedAt
      BY <1>1, <2>1, TimestampAdvances
    <2>3. rev[r].owner = u /\ rev[r].status = "draft"
      BY <1>6 DEF SubmitDraft, Rows
    <2>4. rev[r].reviewedAt = 0
      BY <2>1, <2>3 DEF FeedbackInv, FeedbackOf
    <2>5. /\ rev'[r].owner = u /\ rev'[r].reviewedAt = 0
          /\ \A q \in Revision : q # r => rev'[q] = rev[q]
      BY <1>1, <1>6, <2>3, <2>4 DEF SubmitDraft, TypeOK, RevisionRow
    <2>6. /\ profile'[u].updatedAt = NextTimestamp(u, now) /\ verdict' = verdict
          /\ v # u => profile'[v] = profile[v]
      BY <1>1, <1>6, <2>1 DEF SubmitDraft, Stamp, TypeOK, ProfileRow
    <2>7. CASE v = u
      BY <1>1, <2>2, <2>3, <2>5, <2>6, <2>7, OpenWriteKeepsFeedback
    <2>8. CASE v # u
      BY <1>4, <2>1, <2>3, <2>5, <2>6, <2>8
    <2> QED BY <2>7, <2>8
  <1>7. ASSUME NEW a \in Admin, NEW r \in Revision, NEW u \in Owner, NEW now \in ClockReading,
               Approve(a, r, u, now) \/ Reject(a, r, u, now)
        PROVE  FeedbackOf(v)'
    <2>1. NextTimestamp(u, now) > profile[u].updatedAt /\ NextTimestamp(u, now) \in Nat
      BY <1>1, TimestampAdvances
    <2>2. rev[r].owner = u /\ rev[r].status = "pending"
      BY <1>7 DEF Approve, Reject, Reviewing, Rows
    <2>3. \A q \in Revision : rev[q] \in RevisionRow
      BY <1>1 DEF TypeOK
    <2>4. /\ rev'[r].owner = u /\ rev'[r].reviewedAt = NextTimestamp(u, now)
          /\ \A q \in Revision : q # r =>
               /\ rev'[q].owner = rev[q].owner
               /\ rev'[q].reviewedAt = rev[q].reviewedAt
               /\ rev'[q].status \in {"draft", "pending"} => rev[q].status \in {"draft", "pending"}
               /\ rev[q].owner # u => rev'[q] = rev[q]
      <3>1. CASE Approve(a, r, u, now)
        BY <2>2, <2>3, <3>1 DEF Approve, Rows, RevisionRow
      <3>2. CASE Reject(a, r, u, now)
        BY <1>1, <2>2, <2>3, <3>2 DEF Reject, TypeOK, RevisionRow
      <3> QED BY <1>7, <3>1, <3>2
    <2>5. /\ profile'[u].updatedAt = NextTimestamp(u, now)
          /\ v # u => profile'[v] = profile[v] /\ verdict'[v] = verdict[v]
      <3>1. \E st : profile' = Stamp(u, st, NextTimestamp(u, now))
        BY <1>7 DEF Approve, Reject
      <3>2. profile'[u].updatedAt = NextTimestamp(u, now) /\ (v # u => profile'[v] = profile[v])
        BY <1>1, <3>1 DEF Stamp, TypeOK, ProfileRow
      <3>3. \E d : verdict' = [verdict EXCEPT ![u] = d]
        BY <1>7 DEF Approve, Reject
      <3>4. v # u => verdict'[v] = verdict[v]
        BY <1>1, <3>3 DEF TypeOK
      <3> QED BY <3>2, <3>4
    <2>6. \/ verdict'[u] = "approve" /\ rev'[r].status = "published"
          \/ verdict'[u] = "reject" /\ rev'[r].status = "rejected"
      <3>1. CASE Approve(a, r, u, now)
        BY <1>1, <2>3, <3>1 DEF Approve, TypeOK, RevisionRow
      <3>2. CASE Reject(a, r, u, now)
        BY <1>1, <2>3, <3>2 DEF Reject, TypeOK, RevisionRow
      <3> QED BY <1>7, <3>1, <3>2
    <2>7. CASE v = u
      BY <1>1, <2>1, <2>2, <2>4, <2>5, <2>6, <2>7, DecisionIsLatest
    <2>8. CASE v # u
      BY <1>4, <2>2, <2>4, <2>5, <2>8
    <2> QED BY <2>7, <2>8
  <1>8. ASSUME NEW u \in Owner, NEW now \in ClockReading, Suspend(u, now) \/ Restore(u, now)
        PROVE  FeedbackOf(v)'
    <2>1. NextTimestamp(u, now) > profile[u].updatedAt /\ NextTimestamp(u, now) \in Nat
      BY <1>1, TimestampAdvances
    <2>2. /\ profile'[u].updatedAt = NextTimestamp(u, now)
          /\ v # u => profile'[v] = profile[v]
          /\ rev' = rev /\ verdict' = verdict
      BY <1>1, <1>8 DEF Suspend, Restore, Stamp, TypeOK, ProfileRow
    <2>3. profile'[v].updatedAt >= profile[v].updatedAt
      BY <1>2, <2>1, <2>2
    <2> QED BY <1>1, <2>2, <2>3, FeedbackFrame
  <1>9. CASE SiteStep
    BY <1>3, <1>9 DEF SiteStep, ModerateSite, CompleteClaim, VerifyTraffic
  <1>10. CASE EditorStep
    BY <1>3, <1>5, <1>6, <1>10
       DEF EditorStep, OpenEditor, ReadProfile, ReadRevisions, RequestFails
  <1>11. CASE ReviewStep
    BY <1>3, <1>7, <1>8, <1>11 DEF ReviewStep, LoadQueue
  <1>12. CASE UNCHANGED vars
    BY <1>3, <1>12 DEF vars
  <1> QED BY <1>9, <1>10, <1>11, <1>12 DEF Next

\* Nobody has decided on an owner without a profile.
UndecidedAtFirst == \A u \in Owner : profile[u].status = "none" => verdict[u] = "none"

\* Every step keeps UndecidedAtFirst.
LEMMA UndecidedStep == TableInv /\ UndecidedAtFirst /\ [Next]_vars => UndecidedAtFirst'
  <1> SUFFICES ASSUME TableInv, UndecidedAtFirst, [Next]_vars, NEW v \in Owner,
                      profile'[v].status = "none"
               PROVE  verdict'[v] = "none"
    BY DEF UndecidedAtFirst
  <1>1. profile[v].status = "none"
    BY TokenPerWrite
  <1>2. verdict[v] = "none"
    BY <1>1 DEF UndecidedAtFirst
  <1>3. CASE verdict' = verdict
    BY <1>2, <1>3
  <1>4. ASSUME NEW a \in Admin, NEW r \in Revision, NEW u \in Owner, NEW now \in ClockReading,
               Approve(a, r, u, now) \/ Reject(a, r, u, now)
        PROVE  verdict'[v] = "none"
    <2>1. profile[u].status # "none" /\ \E x : verdict' = [verdict EXCEPT ![u] = x]
      BY <1>4 DEF Approve, Reject, HasProfile
    <2> QED BY <1>1, <1>2, <2>1 DEF TableInv, TypeOK
  <1>5. CASE SiteStep
    BY <1>3, <1>5 DEF SiteStep, ModerateSite, CompleteClaim, VerifyTraffic
  <1>6. CASE EditorStep
    <2>1. ASSUME NEW t \in Tab, NEW s \in Site, NEW r \in Revision, NEW c \in Content,
                 NEW now \in ClockReading, SaveDraft(t, s, r, c, now)
          PROVE  verdict' = verdict
      BY <2>1 DEF SaveDraft
    <2>2. ASSUME NEW t \in Tab, NEW r \in Revision, NEW now \in ClockReading, SubmitDraft(t, r, now)
          PROVE  verdict' = verdict
      BY <2>2 DEF SubmitDraft
    <2>3. ASSUME NEW t \in Tab,
                 OpenEditor(t) \/ ReadProfile(t) \/ ReadRevisions(t) \/ RequestFails(t)
          PROVE  verdict' = verdict
      BY <2>3 DEF OpenEditor, ReadProfile, ReadRevisions, RequestFails
    <2> QED BY <1>3, <1>6, <2>1, <2>2, <2>3 DEF EditorStep
  <1>7. CASE ReviewStep
    BY <1>3, <1>4, <1>7 DEF ReviewStep, LoadQueue, Suspend, Restore
  <1>8. CASE UNCHANGED vars
    BY <1>3, <1>8 DEF vars
  <1> QED BY <1>5, <1>6, <1>7, <1>8 DEF Next

\* Unless the profile is suspended, its owner is shown a moderator's reason exactly when the
\* last decision was a rejection, however the clock that dates the decisions jumps
\* (currentFanwardReviewReason).
THEOREM FeedbackIsTheLatest == Spec => []FeedbackIsLatestDecision
  <1>1. TypeOK /\ UndecidedAtFirst /\ FeedbackInv => FeedbackIsLatestDecision
    <2> SUFFICES ASSUME TypeOK, UndecidedAtFirst, FeedbackInv, NEW u \in Owner
                 PROVE  FeedbackShown(u) = {verdict[u] = "reject" /\ profile[u].status # "suspended"}
      BY DEF FeedbackIsLatestDecision
    <2>1. FeedbackOf(u) /\ verdict[u] \in {"none", "approve", "reject"}
      BY DEF FeedbackInv, TypeOK
    <2>2. \A q \in Revision : rev[q].reviewedAt \in Nat
      BY DEF TypeOK, RevisionRow
    <2>3. \A d \in Revision : Decided(u, d) => \A r \in Revision : LatestReviewed(u, r) <=> r = d
      BY <2>2 DEF Decided, LatestReviewed
    <2>4. CASE profile[u].status = "suspended"
      <3>1. FeedbackShown(u) = {FALSE}
        BY <2>4 DEF FeedbackShown
      <3>2. (verdict[u] = "reject" /\ profile[u].status # "suspended") = FALSE
        BY <2>4
      <3> QED BY <3>1, <3>2
    <2>5. CASE verdict[u] = "none"
      <3>1. \A r \in Revision : ~LatestReviewed(u, r)
        BY <2>1, <2>2, <2>5 DEF FeedbackOf, LatestReviewed
      <3>2. FeedbackShown(u) = {FALSE}
        BY <3>1 DEF FeedbackShown
      <3>3. (verdict[u] = "reject" /\ profile[u].status # "suspended") = FALSE
        BY <2>5
      <3> QED BY <3>2, <3>3
    <2>6. ASSUME verdict[u] # "none", profile[u].status # "suspended",
                 NEW d \in Revision, Decided(u, d)
          PROVE  FeedbackShown(u) = {rev[d].status = "rejected"}
      <3>1. profile[u].status # "none"
        BY <2>6 DEF UndecidedAtFirst
      <3>2. {q \in Revision : LatestReviewed(u, q)} = {d}
        BY <2>3, <2>6
      <3> QED BY <2>6, <3>1, <3>2 DEF FeedbackShown
    <2>7. CASE verdict[u] = "reject" /\ profile[u].status # "suspended"
      <3>1. PICK d \in Revision : Decided(u, d) /\ rev[d].status = "rejected"
        BY <2>1, <2>7 DEF FeedbackOf
      <3>2. FeedbackShown(u) = {rev[d].status = "rejected"}
        BY <2>6, <2>7, <3>1
      <3>3. (rev[d].status = "rejected") = (verdict[u] = "reject" /\ profile[u].status # "suspended")
        BY <2>7, <3>1
      <3> QED BY <3>2, <3>3
    <2>8. CASE verdict[u] = "approve" /\ profile[u].status # "suspended"
      <3>1. PICK d \in Revision : Decided(u, d) /\ rev[d].status = "published"
        BY <2>1, <2>8 DEF FeedbackOf
      <3>2. FeedbackShown(u) = {rev[d].status = "rejected"}
        BY <2>6, <2>8, <3>1
      <3>3. (rev[d].status = "rejected") = (verdict[u] = "reject" /\ profile[u].status # "suspended")
        BY <2>8, <3>1
      <3> QED BY <3>2, <3>3
    <2> QED BY <2>1, <2>4, <2>5, <2>7, <2>8
  <1>2. TableInv => TypeOK
    BY DEF TableInv
  <1>3. Init => UndecidedAtFirst
    BY DEF Init, UndecidedAtFirst
  <1> QED BY InitTableInv, TableStep, InitFeedbackInv, FeedbackStep, UndecidedStep,
             <1>1, <1>2, <1>3, PTL DEF Spec

-----------------------------------------------------------------------------
(* Refinement of ModeratedPublication *)

\* The tables start with nothing published, reviewed or hidden.
LEMMA InitMaps == Init => Promise!Init
  <1> SUFFICES ASSUME Init PROVE Promise!Init
    OBVIOUS
  <1>1. \A r \in Revision : rev[r].owner = NoOwner
    BY DEF Init, NoRow
  <1>2. \A u \in Owner : \A st : ContentIn(u, st) = NoContent
    BY <1>1, ValuesAssumption DEF ContentIn, Rows
  <1>3. \A u \in Owner : (profile[u].status = "suspended") = FALSE
    BY DEF Init, NoProfile
  <1> QED BY <1>2, <1>3 DEF Promise!Init

\* A step that touches the rows of u alone leaves the other owners' mapped state.
LEMMA OthersUnchanged ==
  ASSUME NEW u \in Owner, NEW v \in Owner, v # u,
         \A r \in Revision : rev'[r] # rev[r] =>
           rev[r].owner \in {u, NoOwner} /\ rev'[r].owner = u,
         profile'[v] = profile[v]
  PROVE  /\ ContentIn(v, "published")' = ContentIn(v, "published")
         /\ ContentIn(v, "pending")' = ContentIn(v, "pending")
         /\ (profile[v].status = "suspended")' = (profile[v].status = "suspended")
  <1>1. \A r \in Revision : rev[r].owner = v \/ rev'[r].owner = v => rev'[r] = rev[r]
    BY ValuesAssumption
  <1> QED BY <1>1, TextFrame

\* Saving a draft is invisible.
LEMMA SaveMaps ==
  ASSUME TableInv, NEW t \in Tab, NEW s \in Site, NEW r \in Revision, NEW c \in Content,
         NEW now \in ClockReading, SaveDraft(t, s, r, c, now)
  PROVE  UNCHANGED Promise!vars
  <1> DEFINE u == TabOwner[t]
  <1>1. u \in Owner /\ rev[r].owner \in {u, NoOwner} /\ rev[r].status \in {"absent", "draft"}
    BY TabAssumption DEF SaveDraft, Rows, NoRow
  <1>2. /\ rev'[r].owner = u /\ rev'[r].status = "draft"
        /\ \A q \in Revision : q # r => rev'[q] = rev[q]
        /\ \A v \in Owner : v # u => profile'[v] = profile[v]
    BY DEF SaveDraft, TableInv, TypeOK
  <1>3. (profile[u].status = "suspended")' = (profile[u].status = "suspended")
    BY <1>1 DEF SaveDraft, TableInv, TypeOK
  <1>4. \A st \in {"published", "pending"} : ContentIn(u, st)' = ContentIn(u, st)
    <2> TAKE st \in {"published", "pending"}
    <2>1. Rows(u, st)' = Rows(u, st) /\ \A q \in Rows(u, st) : rev'[q] = rev[q]
      BY <1>1, <1>2 DEF Rows
    <2>2. Rows(u, st) # {} => FirstOf(Rows(u, st)) \in Rows(u, st)
      BY DEF FirstOf
    <2> QED BY <2>1, <2>2 DEF ContentIn
  <1>5. \A v \in Owner : /\ ContentIn(v, "published")' = ContentIn(v, "published")
                         /\ ContentIn(v, "pending")' = ContentIn(v, "pending")
                         /\ (profile[v].status = "suspended")' = (profile[v].status = "suspended")
    BY <1>1, <1>2, <1>3, <1>4, OthersUnchanged
  <1> QED BY <1>5 DEF Promise!vars

\* A submission puts a text under review.
LEMMA SubmitMaps ==
  ASSUME TableInv, TableInv', ReviewInv, NEW t \in Tab, NEW r \in Revision,
         NEW now \in ClockReading, SubmitDraft(t, r, now)
  PROVE  Promise!Submit(TabOwner[t])
  <1> DEFINE u == TabOwner[t]
  <1>1. u \in Owner /\ rev[r].owner = u /\ rev[r].status = "draft"
    BY TabAssumption DEF SubmitDraft, Rows
  <1>2. /\ rev'[r].owner = u /\ rev'[r].status = "pending" /\ rev'[r].content = rev[r].content
        /\ \A q \in Revision : q # r => rev'[q] = rev[q]
        /\ \A v \in Owner : v # u => profile'[v] = profile[v]
    BY <1>1 DEF SubmitDraft, Stamp, TableInv, TypeOK, RevisionRow
  <1>3. profile[u].status # "suspended" /\ profile'[u].status # "suspended"
    BY <1>1 DEF SubmitDraft, Stamp, TableInv, TypeOK, ProfileRow
  <1>4. ContentIn(u, "pending") = NoContent
    BY DEF SubmitDraft, NoneInReview, ContentIn
  <1>5. ContentIn(u, "published")' = ContentIn(u, "published")
    <2>1. /\ Rows(u, "published")' = Rows(u, "published")
          /\ \A q \in Rows(u, "published") : rev'[q] = rev[q]
      BY <1>1, <1>2 DEF Rows
    <2>2. Rows(u, "published") # {} => FirstOf(Rows(u, "published")) \in Rows(u, "published")
      BY DEF FirstOf
    <2> QED BY <2>1, <2>2 DEF ContentIn
  <1>6. ContentIn(u, "pending")' = rev[r].content /\ rev[r].content \in Content
    <2>1. Rows(u, "pending")' = {r}
      BY <1>2 DEF SubmitDraft, NoneInReview, Rows
    <2>2. FirstOf({r}) = r
      BY DEF FirstOf
    <2> QED BY <1>1, <1>2, <2>1, <2>2 DEF ContentIn, ReviewInv
  <1>7. \A v \in Owner : v # u => /\ ContentIn(v, "published")' = ContentIn(v, "published")
                                  /\ ContentIn(v, "pending")' = ContentIn(v, "pending")
                                  /\ profile'[v] = profile[v]
    BY <1>1, <1>2, OthersUnchanged
  <1> QED BY <1>1, <1>3, <1>4, <1>5, <1>6, <1>7 DEF Promise!Submit

\* An approval publishes the text under review.
LEMMA ApproveMaps ==
  ASSUME TableInv, ReviewInv, NEW a \in Admin, NEW r \in Revision, NEW u \in Owner,
         NEW now \in ClockReading, Approve(a, r, u, now)
  PROVE  Promise!Approve(u)
  <1>1. r \in Rows(u, "pending") /\ rev[r].owner = u /\ rev[r].status = "pending"
    BY DEF Approve, Reviewing, Rows
  <1>2. \A q \in Revision : rev[q] \in RevisionRow
    BY DEF TableInv, TypeOK
  <1>3. /\ rev'[r].status = "published" /\ rev'[r].content = rev[r].content
        /\ \A q \in Revision : rev'[q].owner = rev[q].owner
        /\ \A q \in Rows(u, "published") : rev'[q].status = "superseded"
        /\ \A q \in Revision : q # r /\ q \notin Rows(u, "published") => rev'[q] = rev[q]
        /\ \A v \in Owner : v # u => profile'[v] = profile[v]
    BY <1>1, <1>2 DEF Approve, Stamp, Rows, RevisionRow, TableInv, TypeOK
  <1>4. profile[u].status # "suspended" /\ profile'[u].status # "suspended"
    BY DEF Approve, Stamp, TableInv, TypeOK, ProfileRow
  <1>5. Rows(u, "pending") = {r} /\ ContentIn(u, "pending") = rev[r].content
    BY <1>1, ContentOfOnlyRow DEF TableInv
  <1>6. ContentIn(u, "pending") # NoContent
    BY <1>1, <1>5, ValuesAssumption DEF ReviewInv
  <1>7. Rows(u, "pending")' = {} /\ Rows(u, "published")' = {r}
    BY <1>1, <1>3, <1>5 DEF Rows
  <1>8. ContentIn(u, "pending")' = NoContent
    BY <1>7 DEF ContentIn
  <1>9. ContentIn(u, "published")' = ContentIn(u, "pending")
    <2>1. FirstOf({r}) = r
      BY DEF FirstOf
    <2> QED BY <1>3, <1>5, <1>7, <2>1 DEF ContentIn
  <1>10. \A v \in Owner : v # u => /\ ContentIn(v, "published")' = ContentIn(v, "published")
                                   /\ ContentIn(v, "pending")' = ContentIn(v, "pending")
                                   /\ profile'[v] = profile[v]
    <2>1. \A q \in Revision : rev'[q] # rev[q] => rev[q].owner = u /\ rev'[q].owner = u
      BY <1>1, <1>3 DEF Rows
    <2> QED BY <1>3, <2>1, OthersUnchanged
  <1> QED BY <1>4, <1>6, <1>8, <1>9, <1>10 DEF Promise!Approve

\* A rejection ends the review and changes nothing else.
LEMMA RejectMaps ==
  ASSUME TableInv, ReviewInv, NEW a \in Admin, NEW r \in Revision, NEW u \in Owner,
         NEW now \in ClockReading, Reject(a, r, u, now)
  PROVE  Promise!Reject(u)
  <1>1. r \in Rows(u, "pending") /\ rev[r].owner = u /\ rev[r].status = "pending"
    BY DEF Reject, Reviewing, Rows
  <1>2. /\ rev'[r].status = "rejected" /\ rev'[r].owner = u
        /\ \A q \in Revision : q # r => rev'[q] = rev[q]
        /\ \A v \in Owner : v # u => profile'[v] = profile[v]
    BY <1>1 DEF Reject, Stamp, TableInv, TypeOK, RevisionRow
  <1>3. profile'[u].status = "suspended" <=> profile[u].status = "suspended"
    BY DEF Reject, StatusAfterReject, Stamp, TableInv, TypeOK, ProfileRow
  <1>4. Rows(u, "pending") = {r} /\ ContentIn(u, "pending") = rev[r].content
    BY <1>1, ContentOfOnlyRow DEF TableInv
  <1>5. ContentIn(u, "pending") # NoContent
    BY <1>1, <1>4, ValuesAssumption DEF ReviewInv
  <1>6. ContentIn(u, "pending")' = NoContent
    BY <1>2, <1>4 DEF ContentIn, Rows
  <1>7. ContentIn(u, "published")' = ContentIn(u, "published")
    <2>1. /\ Rows(u, "published")' = Rows(u, "published")
          /\ \A q \in Rows(u, "published") : rev'[q] = rev[q]
      BY <1>1, <1>2 DEF Rows
    <2>2. Rows(u, "published") # {} => FirstOf(Rows(u, "published")) \in Rows(u, "published")
      BY DEF FirstOf
    <2> QED BY <2>1, <2>2 DEF ContentIn
  <1>8. \A v \in Owner : v # u => /\ ContentIn(v, "published")' = ContentIn(v, "published")
                                  /\ ContentIn(v, "pending")' = ContentIn(v, "pending")
                                  /\ profile'[v] = profile[v]
    BY <1>1, <1>2, OthersUnchanged
  <1>9. \A v \in Owner : (profile[v].status = "suspended")' = (profile[v].status = "suspended")
    BY <1>3, <1>8
  <1> QED BY <1>5, <1>6, <1>7, <1>8, <1>9 DEF Promise!Reject

\* Suspending hides and restoring shows a profile whose published text stays.
LEMMA SuspendRestoreMap ==
  ASSUME TableInv, ReviewInv, NEW u \in Owner, NEW now \in ClockReading,
         Suspend(u, now) \/ Restore(u, now)
  PROVE  Promise!Suspend(u) \/ Promise!Restore(u)
  <1>1. \A v \in Owner : \A st : ContentIn(v, st)' = ContentIn(v, st)
    <2>1. rev' = rev
      BY DEF Suspend, Restore
    <2> QED BY <2>1, TextFrame
  <1>2. ContentIn(u, "published") # NoContent
    <2>1. Rows(u, "published") # {}
      BY DEF Suspend, Restore, TableInv, StatusMatchesRevisions
    <2>2. PICK r \in Rows(u, "published") : TRUE
      BY <2>1
    <2>3. ContentIn(u, "published") = rev[r].content
      BY ContentOfOnlyRow DEF TableInv
    <2>4. rev[r].content \in Content
      BY DEF ReviewInv, Rows
    <2> QED BY <2>3, <2>4, ValuesAssumption
  <1>3. \A v \in Owner : v # u => profile'[v] = profile[v]
    BY DEF Suspend, Restore, Stamp, TableInv, TypeOK
  <1>4. CASE Suspend(u, now)
    <2>1. profile[u].status = "active" /\ profile'[u].status = "suspended"
      BY <1>4 DEF Suspend, Stamp, TableInv, TypeOK, ProfileRow
    <2> QED BY <1>1, <1>2, <1>3, <2>1 DEF Promise!Suspend
  <1>5. CASE Restore(u, now)
    <2>1. profile[u].status = "suspended" /\ profile'[u].status = "active"
      BY <1>5 DEF Restore, Stamp, TableInv, TypeOK, ProfileRow
    <2> QED BY <1>1, <1>2, <1>3, <2>1 DEF Promise!Restore
  <1> QED BY <1>4, <1>5

\* Publication is moderated: the handlers implement ModeratedPublication.
THEOREM ImplementsModeratedPublication == Spec => PublicationIsModerated
  <1>1. TableInv /\ TableInv' /\ ReviewInv /\ [Next]_vars => [Promise!Next]_(Promise!vars)
    <2> SUFFICES ASSUME TableInv, TableInv', ReviewInv, [Next]_vars
                 PROVE  Promise!Next \/ UNCHANGED Promise!vars
      OBVIOUS
    <2>1. CASE UNCHANGED <<profile, rev>>
      <3>1. \A v \in Owner : \A st : ContentIn(v, st)' = ContentIn(v, st)
        BY <2>1, TextFrame
      <3> QED BY <2>1, <3>1 DEF Promise!vars
    <2>2. ASSUME NEW t \in Tab, NEW r \in Revision, NEW now \in ClockReading,
                 SubmitDraft(t, r, now)
          PROVE  Promise!Next
      BY <2>2, SubmitMaps, TabAssumption DEF Promise!Next
    <2>3. ASSUME NEW a \in Admin, NEW r \in Revision, NEW u \in Owner, NEW now \in ClockReading,
                 Approve(a, r, u, now) \/ Reject(a, r, u, now)
          PROVE  Promise!Next
      BY <2>3, ApproveMaps, RejectMaps DEF Promise!Next
    <2>4. ASSUME NEW u \in Owner, NEW now \in ClockReading, Suspend(u, now) \/ Restore(u, now)
          PROVE  Promise!Next
      BY <2>4, SuspendRestoreMap DEF Promise!Next
    <2> QED BY <2>1, <2>2, <2>3, <2>4, SaveMaps, Writers
  <1> QED BY InitTableInv, TableStep, InitReviewInv, ReviewStepInv, InitMaps, <1>1, PTL
             DEF Spec, PublicationIsModerated, Promise!Spec
=============================================================================
