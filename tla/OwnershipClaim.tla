--------------------------- MODULE OwnershipClaim ---------------------------
(***************************************************************************)
(* Ownership claims: a user asks for a token, puts it on the site's page   *)
(* or in its DNS, and asks for verification.                               *)
(*                                                                         *)
(* Verification is not one transaction: the claim is read, the proof is    *)
(* looked up over the network, and only then is the claim completed or a   *)
(* failed attempt counted.  Any number of requests do so at once, while    *)
(* rivals claim the same site, moderators act, time runs out and requests  *)
(* die.                                                                    *)
(***************************************************************************)
EXTENDS Naturals, FiniteSets

CONSTANTS User, NoUser,
          Site, NoSite,
          Claim, NoClaim,  \* ids of table site_claim
          Request,         \* verification requests that may be under way at once
          MaxAttempts      \* MAX_ATTEMPTS

ASSUME ValuesAssumption == NoUser \notin User /\ NoSite \notin Site /\ NoClaim \notin Claim
ASSUME AttemptsAssumption == MaxAttempts \in Nat \ {0}

VARIABLES status,  \* status[s]: the moderation status of site s
          owners,  \* owners[s]: the users with an 'owner' row in site_owner
          claim,   \* claim[c]: row c of site_claim
          request, \* request[q]: what a running verification has read so far
          display, \* the claims whose proof is on display at their site
          proven   \* history: the claims whose proof a lookup has found

vars == <<status, owners, claim, request, display, proven>>

ClaimRow == [status   : {"absent", "pending", "verified", "failed", "expired"},
             user     : User \cup {NoUser},
             site     : Site \cup {NoSite},
             attempts : 0..MaxAttempts,
             due      : BOOLEAN]  \* expiresAt has passed

RequestState == [phase    : {"idle", "lookup", "overdue", "missing", "found"},
                 claim    : Claim \cup {NoClaim},
                 attempts : 0..MaxAttempts]

NoRow == [status |-> "absent", user |-> NoUser, site |-> NoSite, attempts |-> 0, due |-> FALSE]
Idle  == [phase |-> "idle", claim |-> NoClaim, attempts |-> 0]

Init ==
  /\ status = [s \in Site |-> "pending"]
  /\ owners = [s \in Site |-> {}]
  /\ claim = [c \in Claim |-> NoRow]
  /\ request = [q \in Request |-> Idle]
  /\ display = {}
  /\ proven = {}

-----------------------------------------------------------------------------
(* Site and challenge *)

\* moderateSite refuses no status as a starting point.
ModerateSite(s) ==
  /\ \E st \in {"active", "rejected", "suspended"} : status' = [status EXCEPT ![s] = st]
  /\ UNCHANGED <<owners, claim, request, display, proven>>

\* Mutant: the owner is not looked up.
NoRivals(s, u) == {}

\* Owners of s that u would displace.
Rivals(s, u) == owners[s] \ {u}

\* createClaim: a site that has another owner only gets a failed row.
StartClaim(c, s, u) ==
  /\ claim[c] = NoRow
  /\ status[s] = "active"
  /\ claim' = [claim EXCEPT ![c] =
       [NoRow EXCEPT !.status = IF Rivals(s, u) = {} THEN "pending" ELSE "failed",
                     !.user = u, !.site = s]]
  /\ UNCHANGED <<status, owners, request, display, proven>>

\* reviewClaim: an administrator settles a claim that has already ended badly.
ReviewClaim(c) ==
  /\ claim[c].status \in {"failed", "expired"}
  /\ \E st \in {"failed", "expired"} : claim' = [claim EXCEPT ![c].status = st]
  /\ UNCHANGED <<status, owners, request, display, proven>>

-----------------------------------------------------------------------------
(* verifyOwnershipClaim *)

Target(q) == claim[request[q].claim]

\* getClaimForUser and the checks on the row it returned.  A pending row that has
\* used up its attempts would go to "missing" without a lookup.
ReadClaim(q, c) ==
  /\ request[q] = Idle
  /\ claim[c].status = "pending"
  /\ request' = [request EXCEPT ![q] =
       [claim    |-> c,
        attempts |-> claim[c].attempts,
        phase    |-> IF claim[c].due THEN "overdue"
                     ELSE IF claim[c].attempts < MaxAttempts THEN "lookup" ELSE "missing"]]
  /\ UNCHANGED <<status, owners, claim, display, proven>>

\* resolveTxt or fetchPublicMetadata; a lookup that fails counts as no proof.
LookUp(q) ==
  /\ request[q].phase = "lookup"
  /\ \/ /\ request[q].claim \in display
        /\ request' = [request EXCEPT ![q].phase = "found"]
        /\ proven' = proven \cup {request[q].claim}
     \/ /\ request' = [request EXCEPT ![q].phase = "missing"]
        /\ UNCHANGED proven
  /\ UNCHANGED <<status, owners, claim, display>>

OneMore(c) == IF claim[c].attempts < MaxAttempts THEN claim[c].attempts + 1 ELSE claim[c].attempts

\* Mutant: the decision is taken on the attempts the request had read.
LastAttemptAsRead(q) == request[q].attempts + 1 >= MaxAttempts

\* The row as it is now has no attempt left after this one.
LastAttempt(q) == Target(q).attempts + 1 >= MaxAttempts

\* Mutant: the update names the row and not its status.
AnyRow(q) == TRUE

\* The update finds its row only while the claim is pending.
StillPending(q) == Target(q).status = "pending"

Answered(q) == request' = [request EXCEPT ![q] = Idle]

\* recordClaimAttempt: one UPDATE that counts and decides.
RecordAttempt(q) ==
  LET c == request[q].claim
  IN /\ request[q].phase \in {"overdue", "missing"}
     /\ claim' = IF StillPending(q)
                   THEN [claim EXCEPT ![c] = [@ EXCEPT
                          !.attempts = OneMore(c),
                          !.status = IF request[q].phase = "overdue" THEN "expired"
                                     ELSE IF LastAttempt(q) THEN "failed" ELSE "pending"]]
                   ELSE claim
     /\ Answered(q)
     /\ UNCHANGED <<status, owners, display, proven>>

Settle(c, st) == claim' = [claim EXCEPT ![c] = [@ EXCEPT !.status = st, !.attempts = OneMore(c)]]

\* completeClaim, when the claim or its site is no longer what the request had read.
CompleteRefused(q) ==
  /\ request[q].phase = "found"
  /\ ~StillPending(q) \/ (~Target(q).due /\ status[Target(q).site] # "active")
  /\ Answered(q)
  /\ UNCHANGED <<status, owners, claim, display, proven>>

\* completeClaim, when the challenge ran out during the lookup.
CompleteExpired(q) ==
  /\ request[q].phase = "found"
  /\ StillPending(q)
  /\ Target(q).due
  /\ Settle(request[q].claim, "expired")
  /\ Answered(q)
  /\ UNCHANGED <<status, owners, display, proven>>

\* completeClaim, when a rival has become the owner.
CompleteConflict(q) ==
  /\ request[q].phase = "found"
  /\ StillPending(q)
  /\ ~Target(q).due
  /\ status[Target(q).site] = "active"
  /\ Rivals(Target(q).site, Target(q).user) # {}
  /\ Settle(request[q].claim, "failed")
  /\ Answered(q)
  /\ UNCHANGED <<status, owners, display, proven>>

\* Mutant: the expiry checked before the lookup is trusted after it.
OnTimeWhenRead(q) == TRUE

OnTime(q) == ~Target(q).due

\* completeClaim, when all is well: the claim is verified and its user becomes owner.
\* The row locks make the transaction one step, dated by the clock read after the
\* first lock.
CompleteVerified(q) ==
  LET s == Target(q).site  u == Target(q).user
  IN /\ request[q].phase = "found"
     /\ StillPending(q)
     /\ OnTime(q)
     /\ status[s] = "active"
     /\ Rivals(s, u) = {}
     /\ Settle(request[q].claim, "verified")
     /\ owners' = [owners EXCEPT ![s] = @ \cup {u}]
     /\ Answered(q)
     /\ UNCHANGED <<status, display, proven>>

\* The process dies or the connection is lost between two statements.
RequestDies(q) ==
  /\ request[q] # Idle
  /\ Answered(q)
  /\ UNCHANGED <<status, owners, claim, display, proven>>

-----------------------------------------------------------------------------
(* Environment *)

\* Whoever controls the site puts up or takes down a proof.
ChangeProof(c) ==
  /\ claim[c] # NoRow
  /\ display' = IF c \in display THEN display \ {c} ELSE display \cup {c}
  /\ UNCHANGED <<status, owners, claim, request, proven>>

\* The half hour of a challenge is over.
TimeRunsOut(c) ==
  /\ claim[c] # NoRow
  /\ ~claim[c].due
  /\ claim' = [claim EXCEPT ![c].due = TRUE]
  /\ UNCHANGED <<status, owners, request, display, proven>>

Verify(q) ==
  \/ LookUp(q) \/ RecordAttempt(q) \/ RequestDies(q)
  \/ CompleteRefused(q) \/ CompleteExpired(q) \/ CompleteConflict(q) \/ CompleteVerified(q)

Next ==
  \/ \E s \in Site : ModerateSite(s)
  \/ \E c \in Claim, s \in Site, u \in User : StartClaim(c, s, u)
  \/ \E c \in Claim : ReviewClaim(c) \/ ChangeProof(c) \/ TimeRunsOut(c)
  \/ \E q \in Request, c \in Claim : ReadClaim(q, c)
  \/ \E q \in Request : Verify(q)

Spec == Init /\ [][Next]_vars

-----------------------------------------------------------------------------
(* Correctness *)

\* Every variable keeps its type; in particular the attempts stay within the cap.
TypeOK ==
  /\ status \in [Site -> {"pending", "active", "rejected", "suspended"}]
  /\ owners \in [Site -> SUBSET User]
  /\ claim \in [Claim -> ClaimRow]
  /\ request \in [Request -> RequestState]
  /\ display \subseteq Claim
  /\ proven \subseteq Claim

\* Of all the users who prove control of a site, at the same moment or years
\* apart, one becomes its owner: the unique index on owner rows is never hit.
SingleOwner == \A s \in Site : \A u, v \in owners[s] : u = v

\* Every owner holds a verified claim to the site whose proof was really found,
\* and no late answer to another request, no expiry and no review takes the
\* verification back.
OwnersHaveProven ==
  \A s \in Site : \A u \in owners[s] :
    \E c \in proven : claim[c].status = "verified" /\ claim[c].site = s /\ claim[c].user = u

\* A challenge that has used up its attempts is closed, however many requests
\* read it while it still had one left.
ClosedAtCap ==
  \A c \in Claim : claim[c].status = "pending" => claim[c].attempts < MaxAttempts

\* A claim is verified only while it is open, in time and its site is active,
\* although all three were checked before a lookup of any length.
VerifiedInTime ==
  [][\A c \in Claim :
       claim[c].status # "verified" /\ claim'[c].status = "verified" =>
         /\ claim[c].status = "pending"
         /\ ~claim[c].due
         /\ status[claim[c].site] = "active"]_vars

\* The promise that FanwardProfile and the tracker keys build on: a site gets one
\* owner, once, while it is active.
OwnerOf(s) == IF owners[s] = {} THEN NoUser ELSE CHOOSE u \in owners[s] : TRUE

Listing == INSTANCE SiteListing WITH owner <- [s \in Site |-> OwnerOf(s)]

\* Claims implement SiteListing: no interleaving of requests replaces an owner or
\* grants a site that moderators have closed.
ListingIsKept == Listing!Spec
=============================================================================
