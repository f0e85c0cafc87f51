--------------------------- MODULE FanwardProfile ---------------------------
(***************************************************************************)
(* Fanward creator profiles: one profile per owner, edited in browser tabs *)
(* as revisions and published by moderators.                               *)
(*                                                                         *)
(* Each write of packages/db/src/fanward-repositories.ts is one database   *)
(* transaction that holds the owner's advisory lock or the profile row and *)
(* then the site row, so it is one action here.  What is not atomic is     *)
(* kept apart: a tab reads the profile row and its revisions in two        *)
(* statements, saves, reads the workspace again and only then submits; an  *)
(* administrator decides on a queue page loaded earlier; sites change in   *)
(* between; and the clock may stand still or go back.                      *)
(***************************************************************************)
EXTENDS Naturals, FiniteSets

CONSTANTS Owner,          \* accounts
          Site,           \* rows of table site
          Tab,            \* open copies of the profile editor
          Admin,          \* administrators with the review page open
          Revision,       \* ids of table creator_profile_revision
          Content,        \* texts an owner may type (all within the length limits)
          NoOwner, NoSite, NoContent, NoRevision,
          TabOwner,       \* TabOwner[t]: the account signed in on tab t
          ClockReading,   \* values Date.now() may return, in any order
          MaxInstant      \* bound: no write takes a timestamp above it

ASSUME ValuesAssumption ==
         /\ NoOwner \notin Owner
         /\ NoSite \notin Site
         /\ NoContent \notin Content
         /\ NoRevision \notin Revision
ASSUME TabAssumption == TabOwner \in [Tab -> Owner]
ASSUME ClockAssumption == ClockReading \subseteq Nat /\ MaxInstant \in Nat

VARIABLES site,      \* site[s]: the columns that decide eligibility
          profile,   \* profile[u]: u's row of creator_profile
          rev,       \* rev[r]: row r of creator_profile_revision
          editor,    \* editor[t]: the state of tab t
          screen,    \* screen[a]: the pending revision a is looking at
          verdict,   \* verdict[u]: the last approve or reject in the audit log
          approvedAs \* approvedAs[r]: history of the text on the approver's screen

vars == <<site, profile, rev, editor, screen, verdict, approvedAs>>

-----------------------------------------------------------------------------
(* Rows *)

SiteRow == [status   : {"pending", "active", "rejected", "suspended"},
            owner    : Owner \cup {NoOwner},
            verified : BOOLEAN]

ProfileRow == [status    : {"none", "draft", "pending", "active", "rejected", "suspended"},
               site      : Site \cup {NoSite},
               updatedAt : Nat]

RevisionRow == [status     : {"absent", "draft", "pending", "published", "rejected", "superseded"},
                owner      : Owner \cup {NoOwner},
                content    : Content \cup {NoContent},
                reviewedAt : Nat]

EditorState == [phase  : {"closed", "read", "content", "idle", "submit"},
                intent : {"open", "save", "submit", "sent"},
                row    : Nat,
                token  : Nat,
                shown  : Content \cup {NoContent}]

QueueItem == [revision : Revision \cup {NoRevision},
              content  : Content \cup {NoContent}]

NoProfile  == [status |-> "none", site |-> NoSite, updatedAt |-> 0]
NoRow      == [status |-> "absent", owner |-> NoOwner, content |-> NoContent, reviewedAt |-> 0]
ClosedTab  == [phase |-> "closed", intent |-> "open", row |-> 0, token |-> 0, shown |-> NoContent]
EmptyQueue == [revision |-> NoRevision, content |-> NoContent]

Init ==
  /\ site = [s \in Site |-> [status |-> "pending", owner |-> NoOwner, verified |-> FALSE]]
  /\ profile = [u \in Owner |-> NoProfile]
  /\ rev = [r \in Revision |-> NoRow]
  /\ editor = [t \in Tab |-> ClosedTab]
  /\ screen = [a \in Admin |-> EmptyQueue]
  /\ verdict = [u \in Owner |-> "none"]
  /\ approvedAs = [r \in Revision |-> NoContent]

-----------------------------------------------------------------------------
(* Queries *)

HasProfile(u) == profile[u].status # "none"

\* The revisions of u in one status.
Rows(u, st) == {r \in Revision : rev[r].owner = u /\ rev[r].status = st}

\* The row that "limit 1" or find() returns.
FirstOf(rows) == CHOOSE r \in rows : TRUE

ContentIn(u, st) ==
  IF Rows(u, st) = {} THEN NoContent ELSE rev[FirstOf(Rows(u, st))].content

\* The text the editor form starts from: draft ?? pending ?? published.
FormContent(u) ==
  IF Rows(u, "draft") # {} THEN ContentIn(u, "draft")
  ELSE IF Rows(u, "pending") # {} THEN ContentIn(u, "pending")
  ELSE ContentIn(u, "published")

\* lockedSiteEligibility; ownership is 'claimed' exactly when there is an owner.
Eligible(u, s) ==
  /\ site[s].owner = u
  /\ site[s].status = "active"
  /\ site[s].verified
  /\ \A v \in Owner \ {u} : profile[v].site # s

\* Mutant: Date.now() alone.
ClockTimestamp(u, now) == now

\* nextProfileTimestamp: later than the previous token even when the clock is not.
NextTimestamp(u, now) ==
  IF now > profile[u].updatedAt THEN now ELSE profile[u].updatedAt + 1

\* Mutant: the save that forgets to look for a revision in review.
MayAlwaysEdit(u) == TRUE

\* A revision waiting for a moderator locks the editor.
NoneInReview(u) == Rows(u, "pending") = {}

\* Mutant: the last tab to write wins.
AnyTokenIsCurrent(t) == TRUE

\* The token that tab t sends is the one in the profile row.
TokenIsCurrent(t) == profile[TabOwner[t]].updatedAt = editor[t].token

\* What a write leaves in the profile row.
Stamp(u, st, at) == [profile EXCEPT ![u] = [@ EXCEPT !.status = st, !.updatedAt = at]]

-----------------------------------------------------------------------------
(* Sites, reduced to the columns that decide eligibility *)

\* POST admin site moderation; no status is refused as a starting point.
ModerateSite(s) ==
  /\ \E st \in {"active", "rejected", "suspended"} : site' = [site EXCEPT ![s].status = st]
  /\ UNCHANGED <<profile, rev, editor, screen, verdict, approvedAs>>

\* An ownership challenge succeeds; a site never has two owners.
CompleteClaim(s, u) ==
  /\ site[s].status = "active"
  /\ site[s].owner \in {u, NoOwner}
  /\ site' = [site EXCEPT ![s].owner = u]
  /\ UNCHANGED <<profile, rev, editor, screen, verdict, approvedAs>>

\* The first tracker event, or a selected GA4 property, of a site with an owner.
VerifyTraffic(s) ==
  /\ site[s].owner # NoOwner
  /\ site' = [site EXCEPT ![s].verified = TRUE]
  /\ UNCHANGED <<profile, rev, editor, screen, verdict, approvedAs>>

-----------------------------------------------------------------------------
(* The owner's editor *)

\* A tab opens or reloads the editor page.
OpenEditor(t) ==
  /\ editor[t].phase \in {"closed", "idle"}
  /\ editor' = [editor EXCEPT ![t] = [ClosedTab EXCEPT !.phase = "read"]]
  /\ UNCHANGED <<site, profile, rev, screen, verdict, approvedAs>>

\* getFanwardOwnerWorkspace, first statement: the profile row and its token.
ReadProfile(t) ==
  /\ editor[t].phase = "read"
  /\ editor' = [editor EXCEPT ![t] = [@ EXCEPT !.phase = "content",
                                               !.row = profile[TabOwner[t]].updatedAt]]
  /\ UNCHANGED <<site, profile, rev, screen, verdict, approvedAs>>

\* Mutant: after the save of "Submit" the page keeps the text it had.
ReadTokenOnly(t) ==
  /\ editor[t].phase = "content"
  /\ editor' = [editor EXCEPT ![t] = [@ EXCEPT
       !.phase = IF editor[t].intent = "submit" THEN "submit" ELSE "idle",
       !.token = editor[t].row,
       !.shown = IF editor[t].row = 0 THEN NoContent
                 ELSE IF editor[t].intent = "submit" THEN editor[t].shown
                 ELSE FormContent(TabOwner[t])]]
  /\ UNCHANGED <<site, profile, rev, screen, verdict, approvedAs>>

\* The revisions follow in a later statement (none are asked for when there was
\* no profile); the page then shows them, or goes on to submit.
ReadRevisions(t) ==
  /\ editor[t].phase = "content"
  /\ editor' = [editor EXCEPT ![t] = [@ EXCEPT
       !.phase = IF editor[t].intent = "submit" THEN "submit" ELSE "idle",
       !.token = editor[t].row,
       !.shown = IF editor[t].row = 0 THEN NoContent ELSE FormContent(TabOwner[t])]]
  /\ UNCHANGED <<site, profile, rev, screen, verdict, approvedAs>>

\* PATCH /api/fanward/me commits text c for site s into revision r.  The same
\* save runs for the button "Save draft" and as the first half of "Submit".
SaveDraft(t, s, r, c, now) ==
  LET u  == TabOwner[t]
      at == NextTimestamp(u, now)
  IN /\ editor[t].phase = "idle"
     /\ profile[u].status # "suspended"
     /\ HasProfile(u) => profile[u].site = s /\ TokenIsCurrent(t)
     /\ Eligible(u, s)
     /\ NoneInReview(u)
     /\ IF Rows(u, "draft") = {} THEN rev[r] = NoRow ELSE r \in Rows(u, "draft")
     /\ at <= MaxInstant
     /\ rev' = [rev EXCEPT ![r] = [status |-> "draft", owner |-> u,
                                   content |-> c, reviewedAt |-> 0]]
     /\ profile' = [profile EXCEPT
          ![u] = [status    |-> IF profile[u].status = "active" THEN "active" ELSE "draft",
                  site      |-> s,
                  updatedAt |-> at]]
     /\ \E i \in {"save", "submit"} :
          editor' = [editor EXCEPT ![t] = [@ EXCEPT !.phase = "read", !.intent = i]]
     /\ UNCHANGED <<site, screen, verdict, approvedAs>>

\* POST /api/fanward/me/submit commits with the token of the workspace the save
\* returned.
SubmitDraft(t, r, now) ==
  LET u  == TabOwner[t]
      at == NextTimestamp(u, now)
  IN /\ editor[t].phase = "submit"
     /\ profile[u].status \notin {"none", "suspended"}
     /\ TokenIsCurrent(t)
     /\ Eligible(u, profile[u].site)
     /\ NoneInReview(u)
     /\ r \in Rows(u, "draft")
     /\ at <= MaxInstant
     /\ rev' = [rev EXCEPT ![r].status = "pending"]
     /\ profile' = Stamp(u, IF profile[u].status = "active" THEN "active" ELSE "pending", at)
     /\ editor' = [editor EXCEPT ![t] = [@ EXCEPT !.phase = "read", !.intent = "sent"]]
     /\ UNCHANGED <<site, screen, verdict, approvedAs>>

\* The request is refused, or its response is lost: the tab keeps what it last
\* showed.  A page that never loaded is closed.
RequestFails(t) ==
  /\ editor[t].phase \in {"read", "content", "submit"}
  /\ editor' = IF editor[t].intent = "open"
                 THEN [editor EXCEPT ![t] = ClosedTab]
                 ELSE [editor EXCEPT ![t].phase = "idle"]
  /\ UNCHANGED <<site, profile, rev, screen, verdict, approvedAs>>

-----------------------------------------------------------------------------
(* Review: POST /api/admin/fanward/[profileId]/review *)

\* The queue page shows administrator a the pending revision r.
LoadQueue(a, r) ==
  /\ rev[r].status = "pending"
  /\ screen' = [screen EXCEPT ![a] = [revision |-> r, content |-> rev[r].content]]
  /\ UNCHANGED <<site, profile, rev, editor, verdict, approvedAs>>

\* Mutant: the review ignores which revision the administrator was looking at.
ReviewingAny(a, r, u) == screen[a].revision # NoRevision /\ r \in Rows(u, "pending")

\* r, on a's screen, is u's revision and still pending.
Reviewing(a, r, u) == screen[a].revision = r /\ r \in Rows(u, "pending")

Approve(a, r, u, now) ==
  LET at == NextTimestamp(u, now)
  IN /\ profile[u].status \notin {"none", "suspended"}
     /\ Reviewing(a, r, u)
     /\ Eligible(u, profile[u].site)
     /\ at <= MaxInstant
     /\ rev' = [q \in Revision |->
          IF q = r THEN [rev[q] EXCEPT !.status = "published", !.reviewedAt = at]
          ELSE IF q \in Rows(u, "published") THEN [rev[q] EXCEPT !.status = "superseded"]
          ELSE rev[q]]
     /\ profile' = Stamp(u, "active", at)
     /\ verdict' = [verdict EXCEPT ![u] = "approve"]
     /\ approvedAs' = [approvedAs EXCEPT ![r] = screen[a].content]
     /\ UNCHANGED <<site, editor, screen>>

\* Mutant: a rejected profile is always marked rejected.
AlwaysRejected(u) == "rejected"

\* Mutant: rejecting an edit of a published profile lifts its suspension.
ActiveIfPublished(u) == IF Rows(u, "published") # {} THEN "active" ELSE "rejected"

\* The status a rejection leaves the profile in.
StatusAfterReject(u) ==
  IF profile[u].status = "suspended" THEN "suspended" ELSE
  IF Rows(u, "published") # {} THEN "active" ELSE "rejected"

\* Mutant: a rejected revision is handed back as the owner's draft.
RejectToDraft(a, r, u, now) ==
  LET at == NextTimestamp(u, now)
  IN /\ HasProfile(u)
     /\ Reviewing(a, r, u)
     /\ at <= MaxInstant
     /\ rev' = [rev EXCEPT ![r] = [@ EXCEPT !.status = "draft", !.reviewedAt = at]]
     /\ profile' = Stamp(u, StatusAfterReject(u), at)
     /\ verdict' = [verdict EXCEPT ![u] = "reject"]
     /\ UNCHANGED <<site, editor, screen, approvedAs>>

\* Rejecting is allowed on a suspended profile and keeps it suspended.
Reject(a, r, u, now) ==
  LET at == NextTimestamp(u, now)
  IN /\ HasProfile(u)
     /\ Reviewing(a, r, u)
     /\ at <= MaxInstant
     /\ rev' = [rev EXCEPT ![r] = [@ EXCEPT !.status = "rejected", !.reviewedAt = at]]
     /\ profile' = Stamp(u, StatusAfterReject(u), at)
     /\ verdict' = [verdict EXCEPT ![u] = "reject"]
     /\ UNCHANGED <<site, editor, screen, approvedAs>>

Suspend(u, now) ==
  LET at == NextTimestamp(u, now)
  IN /\ profile[u].status = "active"
     /\ at <= MaxInstant
     /\ profile' = Stamp(u, "suspended", at)
     /\ UNCHANGED <<site, rev, editor, screen, verdict, approvedAs>>

Restore(u, now) ==
  LET at == NextTimestamp(u, now)
  IN /\ profile[u].status = "suspended"
     /\ Eligible(u, profile[u].site)
     /\ Rows(u, "published") # {}
     /\ at <= MaxInstant
     /\ profile' = Stamp(u, "active", at)
     /\ UNCHANGED <<site, rev, editor, screen, verdict, approvedAs>>

-----------------------------------------------------------------------------
SiteStep == \E s \in Site :
  \/ ModerateSite(s)
  \/ \E u \in Owner : CompleteClaim(s, u)
  \/ VerifyTraffic(s)

EditorStep == \E t \in Tab :
  \/ OpenEditor(t)
  \/ ReadProfile(t)
  \/ ReadRevisions(t)
  \/ \E s \in Site, r \in Revision, c \in Content, now \in ClockReading :
       SaveDraft(t, s, r, c, now)
  \/ \E r \in Revision, now \in ClockReading : SubmitDraft(t, r, now)
  \/ RequestFails(t)

ReviewStep ==
  \/ \E a \in Admin, r \in Revision : LoadQueue(a, r)
  \/ \E a \in Admin, r \in Revision, u \in Owner, now \in ClockReading :
       Approve(a, r, u, now) \/ Reject(a, r, u, now)
  \/ \E u \in Owner, now \in ClockReading : Suspend(u, now) \/ Restore(u, now)

Next == SiteStep \/ EditorStep \/ ReviewStep

Spec == Init /\ [][Next]_vars

-----------------------------------------------------------------------------
(* Correctness *)

\* Every variable keeps its type: rows, tabs and queue items are the records the
\* schema and the two React components declare.
TypeOK ==
  /\ site \in [Site -> SiteRow]
  /\ profile \in [Owner -> ProfileRow]
  /\ rev \in [Revision -> RevisionRow]
  /\ editor \in [Tab -> EditorState]
  /\ screen \in [Admin -> QueueItem]
  /\ verdict \in [Owner -> {"none", "approve", "reject"}]
  /\ approvedAs \in [Revision -> Content \cup {NoContent}]

\* A profile has at most one revision that is being edited or reviewed and at
\* most one published one, so the partial unique indexes of the revision table
\* (packages/db/src/schema.ts) never turn a legal write into an error, and every
\* "limit 1" read of the repository finds the only candidate.
OneOpenRevision ==
  \A r, q \in Revision :
    (r # q /\ rev[r].owner = rev[q].owner) =>
      /\ ~(rev[r].status \in {"draft", "pending"} /\ rev[q].status \in {"draft", "pending"})
      /\ ~(rev[r].status = "published" /\ rev[q].status = "published")

\* The status column of the profile, written by six handlers, always agrees with
\* the revisions: a public or suspended profile has a published text, a pending
\* one has a revision in review, a rejected one has nothing open.
StatusMatchesRevisions ==
  \A u \in Owner :
    /\ profile[u].status \in {"active", "suspended"} <=> Rows(u, "published") # {}
    /\ profile[u].status = "draft" => Rows(u, "draft") # {}
    /\ profile[u].status = "pending" => Rows(u, "pending") # {}
    /\ profile[u].status \in {"none", "rejected"} =>
         Rows(u, "draft") = {} /\ Rows(u, "pending") = {}

\* A token that is still current vouches for the text beside it: although a tab
\* reads the token and the text in two statements with other tabs' saves and
\* moderators' decisions in between, no tab ever holds the current token of the
\* profile together with an outdated text.
TokenVouchesForText ==
  \A t \in Tab :
    LET u == TabOwner[t]
    IN (/\ HasProfile(u)
        /\ editor[t].phase \in {"idle", "submit"}
        /\ editor[t].token = profile[u].updatedAt) => editor[t].shown = FormContent(u)

\* Nothing an administrator has on screen changes underneath: as long as the
\* revision awaits a decision, its text is the text shown when the queue was
\* loaded, whatever the owner's tabs do meanwhile.
ReviewedTextIsFrozen ==
  \A a \in Admin : LET r == screen[a].revision
                   IN r # NoRevision => rev[r].content = screen[a].content

\* The public text is word for word a text some administrator had on screen when
\* approving it; later edits and decisions never alter it.
PublishedAsApproved ==
  \A r \in Revision :
    rev[r].status \in {"published", "superseded"} => rev[r].content = approvedAs[r]

\* r is a reviewed revision of u that the sort by reviewedAt may put first.
LatestReviewed(u, r) ==
  /\ rev[r].owner = u /\ rev[r].reviewedAt > 0
  /\ \A q \in Revision : rev[q].owner = u => rev[q].reviewedAt <= rev[r].reviewedAt

\* currentFanwardReviewReason: whether u's page shows a moderator's reason, for each
\* revision that the sort may put first.  A suspended profile shows none.
FeedbackShown(u) ==
  IF profile[u].status \in {"none", "suspended"} \/ \A r \in Revision : ~LatestReviewed(u, r)
  THEN {FALSE}
  ELSE {rev[r].status = "rejected" : r \in {q \in Revision : LatestReviewed(u, q)}}

\* The owner of a profile that is not suspended is shown a moderator's reason
\* exactly when the last decision in the audit log was a rejection, although the
\* page works it out from the times in the revision rows and the clock that stamps
\* them may stand still or go back.
FeedbackIsLatestDecision ==
  \A u \in Owner :
    FeedbackShown(u) = {verdict[u] = "reject" /\ profile[u].status # "suspended"}

\* No edit is lost between tabs: a save overwrites a draft only when the saving
\* tab was showing that draft's text.
NoLostEdit ==
  [][\A r \in Revision :
       rev[r].status = "draft" /\ rev'[r].content # rev[r].content =>
         \E t \in Tab : /\ editor[t].phase = "idle" /\ editor'[t].phase = "read"
                        /\ editor[t].shown = rev[r].content]_vars

\* What goes to the moderators is the draft its owner's page had just received:
\* a tab never submits a text that it did not load.
SubmittedAsLoaded ==
  [][\A r \in Revision :
       rev[r].status = "draft" /\ rev'[r].status = "pending" =>
         \E t \in Tab : /\ editor[t].phase = "submit" /\ editor'[t].phase = "read"
                        /\ editor[t].shown = rev[r].content]_vars

\* The tables implement the promise of ModeratedPublication: the published
\* revision is the live text, the pending one the text under review, and the
\* profile status 'suspended' hides it.
Promise == INSTANCE ModeratedPublication WITH
  live   <- [u \in Owner |-> ContentIn(u, "published")],
  review <- [u \in Owner |-> ContentIn(u, "pending")],
  hidden <- [u \in Owner |-> profile[u].status = "suspended"]

\* Publication is moderated: every step of the handlers is a step, or no step,
\* of ModeratedPublication.
PublicationIsModerated == Promise!Spec
=============================================================================
