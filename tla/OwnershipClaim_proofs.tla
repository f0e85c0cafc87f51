------------------------ MODULE OwnershipClaim_proofs ------------------------
(***************************************************************************)
(* Theorems about OwnershipClaim, for any sets of users, sites, claims and *)
(* concurrent requests and any cap on the attempts.                        *)
(***************************************************************************)
EXTENDS OwnershipClaim, TLAPS

\* Rows that exist name a user and a site; a request under way names such a row,
\* and one that has found a proof is recorded in the history.
RowsAreReal ==
  /\ \A c \in Claim : claim[c].status # "absent" => claim[c].user \in User /\ claim[c].site \in Site
  /\ \A q \in Request : request[q].phase # "idle" =>
       request[q].claim \in Claim /\ claim[request[q].claim].status # "absent"
  /\ \A q \in Request : request[q].phase = "found" => request[q].claim \in proven

ClaimInv == TypeOK /\ RowsAreReal /\ ClosedAtCap /\ SingleOwner /\ OwnersHaveProven

-----------------------------------------------------------------------------
(* What the steps do *)

\* Counting an attempt stays within the cap.
LEMMA OneMoreType ==
  ASSUME TypeOK, NEW c \in Claim
  PROVE  OneMore(c) \in 0..MaxAttempts
  BY AttemptsAssumption DEF TypeOK, ClaimRow, OneMore

\* A request under way works on a row that exists.
LEMMA TargetIsReal ==
  ASSUME TypeOK, RowsAreReal, NEW q \in Request, request[q].phase # "idle"
  PROVE  /\ request[q].claim \in Claim
         /\ Target(q) = claim[request[q].claim]
         /\ Target(q) \in ClaimRow
         /\ Target(q).status # "absent"
         /\ Target(q).user \in User
         /\ Target(q).site \in Site
  BY DEF TypeOK, RowsAreReal, Target

\* Settling a claim changes the status and the attempts of its row only.
LEMMA SettleEffect ==
  ASSUME TypeOK, NEW c \in Claim, NEW st \in {"verified", "failed", "expired"}, Settle(c, st)
  PROVE  /\ claim' \in [Claim -> ClaimRow]
         /\ claim'[c].status = st
         /\ claim'[c].user = claim[c].user /\ claim'[c].site = claim[c].site
         /\ \A d \in Claim \ {c} : claim'[d] = claim[d]
  <1>1. OneMore(c) \in 0..MaxAttempts
    BY OneMoreType
  <1>2. claim' = [claim EXCEPT ![c] = [claim[c] EXCEPT !.status = st, !.attempts = OneMore(c)]]
    BY DEF Settle
  <1>3. claim[c] \in ClaimRow /\ claim \in [Claim -> ClaimRow]
    BY DEF TypeOK
  <1> HIDE DEF OneMore
  <1> QED BY <1>1, <1>2, <1>3 DEF ClaimRow

\* Recording a failed attempt closes an open row, leaves it open below the cap,
\* and does nothing to a row that is no longer open.
LEMMA AttemptEffect ==
  ASSUME TypeOK, RowsAreReal, NEW q \in Request, RecordAttempt(q)
  PROVE  /\ claim' \in [Claim -> ClaimRow]
         /\ \A c \in Claim :
              \/ claim'[c] = claim[c]
              \/ /\ claim[c].status = "pending"
                 /\ claim'[c].status \in {"pending", "failed", "expired"}
                 /\ claim'[c].user = claim[c].user /\ claim'[c].site = claim[c].site
                 /\ claim'[c].status = "pending" => claim'[c].attempts < MaxAttempts
  <1> DEFINE k == request[q].claim
             n == OneMore(k)
             st == IF request[q].phase = "overdue" THEN "expired"
                   ELSE IF LastAttempt(q) THEN "failed" ELSE "pending"
  <1>1. k \in Claim /\ Target(q) = claim[k] /\ claim[k] \in ClaimRow /\ claim \in [Claim -> ClaimRow]
    BY TargetIsReal DEF RecordAttempt, TypeOK
  <1>2. n \in 0..MaxAttempts
    BY <1>1, OneMoreType
  <1>3. st = "pending" => n < MaxAttempts
    BY <1>1, AttemptsAssumption DEF LastAttempt, OneMore, ClaimRow
  <1>4. st \in {"pending", "failed", "expired"}
    OBVIOUS
  <1>5. claim' = IF claim[k].status = "pending"
                   THEN [claim EXCEPT ![k] = [claim[k] EXCEPT !.attempts = n, !.status = st]]
                   ELSE claim
    BY <1>1 DEF RecordAttempt, StillPending
  <1> HIDE DEF k, n, st
  <1> QED BY <1>1, <1>2, <1>3, <1>4, <1>5 DEF ClaimRow

-----------------------------------------------------------------------------
(* Types *)

LEMMA InitClaimInv == Init => ClaimInv
  BY AttemptsAssumption DEF Init, ClaimInv, TypeOK, RowsAreReal, ClosedAtCap, SingleOwner, OwnersHaveProven,
     ClaimRow, RequestState, NoRow, Idle

\* Requests end idle.
LEMMA AnsweredType ==
  ASSUME TypeOK, NEW q \in Request, Answered(q)
  PROVE  request' \in [Request -> RequestState]
  BY AttemptsAssumption DEF TypeOK, Answered, Idle, RequestState

LEMMA TypeStep == TypeOK /\ RowsAreReal /\ [Next]_vars => TypeOK'
  <1> SUFFICES ASSUME TypeOK, RowsAreReal, [Next]_vars PROVE TypeOK'
    OBVIOUS
  <1>1. ASSUME NEW s \in Site, ModerateSite(s) PROVE TypeOK'
    BY <1>1 DEF TypeOK, ModerateSite
  <1>2. ASSUME NEW c \in Claim, NEW s \in Site, NEW u \in User, StartClaim(c, s, u) PROVE TypeOK'
    <2>1. claim' \in [Claim -> ClaimRow]
      BY <1>2, AttemptsAssumption DEF StartClaim, NoRow, ClaimRow, TypeOK
    <2> QED BY <1>2, <2>1 DEF TypeOK, StartClaim
  <1>3. ASSUME NEW c \in Claim, ReviewClaim(c) PROVE TypeOK'
    <2>1. claim' \in [Claim -> ClaimRow]
      BY <1>3 DEF TypeOK, ReviewClaim, ClaimRow
    <2> QED BY <1>3, <2>1 DEF TypeOK, ReviewClaim
  <1>4. ASSUME NEW q \in Request, NEW c \in Claim, ReadClaim(q, c) PROVE TypeOK'
    <2>1. request' \in [Request -> RequestState]
      BY <1>4 DEF ReadClaim, TypeOK, ClaimRow, RequestState
    <2> QED BY <1>4, <2>1 DEF TypeOK, ReadClaim
  <1>5. ASSUME NEW q \in Request, LookUp(q) PROVE TypeOK'
    <2>1. request[q].claim \in Claim
      BY <1>5, TargetIsReal DEF LookUp
    <2>2. request' \in [Request -> RequestState] /\ proven' \subseteq Claim
      BY <1>5, <2>1 DEF LookUp, TypeOK, RequestState
    <2> QED BY <1>5, <2>2 DEF TypeOK, LookUp
  <1>6. ASSUME NEW q \in Request, RecordAttempt(q) PROVE TypeOK'
    <2>1. request' \in [Request -> RequestState]
      BY <1>6, AnsweredType DEF RecordAttempt
    <2> QED BY <1>6, <2>1, AttemptEffect DEF TypeOK, RecordAttempt
  <1>7. ASSUME NEW q \in Request, CompleteRefused(q) \/ RequestDies(q) PROVE TypeOK'
    <2>1. request' \in [Request -> RequestState]
      BY <1>7, AnsweredType DEF CompleteRefused, RequestDies
    <2> QED BY <1>7, <2>1 DEF TypeOK, CompleteRefused, RequestDies
  <1>8. ASSUME NEW q \in Request, CompleteExpired(q) \/ CompleteConflict(q) PROVE TypeOK'
    <2>1. request' \in [Request -> RequestState]
      BY <1>8, AnsweredType DEF CompleteExpired, CompleteConflict
    <2>2. request[q].claim \in Claim
      BY <1>8, TargetIsReal DEF CompleteExpired, CompleteConflict
    <2>3. claim' \in [Claim -> ClaimRow]
      BY <1>8, <2>2, SettleEffect DEF CompleteExpired, CompleteConflict
    <2> QED BY <1>8, <2>1, <2>3 DEF TypeOK, CompleteExpired, CompleteConflict
  <1>9. ASSUME NEW q \in Request, CompleteVerified(q) PROVE TypeOK'
    <2>1. request' \in [Request -> RequestState]
      BY <1>9, AnsweredType DEF CompleteVerified
    <2>2. request[q].claim \in Claim /\ Target(q).user \in User
      BY <1>9, TargetIsReal DEF CompleteVerified
    <2>3. claim' \in [Claim -> ClaimRow]
      BY <1>9, <2>2, SettleEffect DEF CompleteVerified
    <2>4. owners' \in [Site -> SUBSET User]
      BY <1>9, <2>2 DEF CompleteVerified, TypeOK
    <2> QED BY <1>9, <2>1, <2>3, <2>4 DEF TypeOK, CompleteVerified
  <1>10. ASSUME NEW c \in Claim, ChangeProof(c) PROVE TypeOK'
    BY <1>10 DEF TypeOK, ChangeProof
  <1>11. ASSUME NEW c \in Claim, TimeRunsOut(c) PROVE TypeOK'
    <2>1. [claim[c] EXCEPT !.due = TRUE] \in ClaimRow
      BY DEF TypeOK, ClaimRow
    <2>2. claim' = [claim EXCEPT ![c] = [claim[c] EXCEPT !.due = TRUE]]
      BY <1>11 DEF TimeRunsOut
    <2>3. claim' \in [Claim -> ClaimRow]
      BY <2>1, <2>2 DEF TypeOK
    <2> QED BY <1>11, <2>3 DEF TypeOK, TimeRunsOut
  <1>12. CASE UNCHANGED vars
    BY <1>12 DEF TypeOK, vars
  <1> QED BY <1>1, <1>2, <1>3, <1>4, <1>5, <1>6, <1>7, <1>8, <1>9, <1>10, <1>11, <1>12
          DEF Next, Verify

-----------------------------------------------------------------------------
(* Claims *)

\* No step takes a row away or gives it to another user or site, no step takes a
\* verification back, and the history of proofs grows.
LEMMA ClaimFrame ==
  ASSUME TypeOK, RowsAreReal, [Next]_vars
  PROVE  /\ \A c \in Claim :
              claim[c].status # "absent" =>
                /\ claim'[c].status # "absent"
                /\ claim'[c].user = claim[c].user /\ claim'[c].site = claim[c].site
                /\ claim[c].status = "verified" => claim'[c].status = "verified"
         /\ proven \subseteq proven'
  <1> DEFINE Kept == /\ \A c \in Claim :
                          claim[c].status # "absent" =>
                            /\ claim'[c].status # "absent"
                            /\ claim'[c].user = claim[c].user /\ claim'[c].site = claim[c].site
                            /\ claim[c].status = "verified" => claim'[c].status = "verified"
                     /\ proven \subseteq proven'
  <1> SUFFICES Kept
    OBVIOUS
  <1>1. ASSUME NEW c \in Claim, NEW s \in Site, NEW u \in User, StartClaim(c, s, u) PROVE Kept
    BY <1>1 DEF StartClaim, NoRow, TypeOK
  <1>2. ASSUME NEW c \in Claim, ReviewClaim(c) PROVE Kept
    BY <1>2 DEF ReviewClaim, TypeOK, ClaimRow
  <1>3. ASSUME NEW q \in Request, RecordAttempt(q) PROVE Kept
    BY <1>3, AttemptEffect DEF RecordAttempt
  <1>4. ASSUME NEW q \in Request, CompleteExpired(q) \/ CompleteConflict(q) \/ CompleteVerified(q)
        PROVE  Kept
    <2>1. request[q].claim \in Claim /\ Target(q) = claim[request[q].claim]
      BY <1>4, TargetIsReal DEF CompleteExpired, CompleteConflict, CompleteVerified
    <2>2. claim[request[q].claim].status = "pending" /\ proven' = proven
      BY <1>4, <2>1 DEF CompleteExpired, CompleteConflict, CompleteVerified, StillPending
    <2>3. PICK st \in {"verified", "failed", "expired"} : Settle(request[q].claim, st)
      BY <1>4 DEF CompleteExpired, CompleteConflict, CompleteVerified
    <2> QED BY <2>1, <2>2, <2>3, SettleEffect
  <1>5. ASSUME NEW c \in Claim, TimeRunsOut(c) PROVE Kept
    BY <1>5 DEF TimeRunsOut, TypeOK, ClaimRow
  <1>6. ASSUME NEW q \in Request, LookUp(q) PROVE Kept
    BY <1>6 DEF LookUp
  <1>7. CASE UNCHANGED <<claim, proven>>
    BY <1>7
  <1> QED BY <1>1, <1>2, <1>3, <1>4, <1>5, <1>6, <1>7
          DEF Next, Verify, ModerateSite, ReadClaim, CompleteRefused, RequestDies, ChangeProof, vars

LEMMA RowsStep == TypeOK /\ RowsAreReal /\ [Next]_vars => RowsAreReal'
  <1> SUFFICES ASSUME TypeOK, RowsAreReal, [Next]_vars PROVE RowsAreReal'
    OBVIOUS
  <1>1. \A c \in Claim : claim'[c].status # "absent" => claim'[c].user \in User /\ claim'[c].site \in Site
    <2>1. ASSUME NEW d \in Claim, NEW s \in Site, NEW u \in User, StartClaim(d, s, u),
                 NEW c \in Claim, claim'[c].status # "absent"
          PROVE  claim'[c].user \in User /\ claim'[c].site \in Site
      BY <2>1 DEF StartClaim, NoRow, TypeOK, RowsAreReal
    <2>2. ASSUME ~ \E d \in Claim, s \in Site, u \in User : StartClaim(d, s, u),
                 NEW c \in Claim, claim[c].status = "absent"
          PROVE  claim'[c].status = "absent"
      <3>1. ASSUME NEW d \in Claim, ReviewClaim(d) PROVE claim'[c].status = "absent"
        BY <2>2, <3>1 DEF ReviewClaim, TypeOK
      <3>2. ASSUME NEW q \in Request, RecordAttempt(q) PROVE claim'[c].status = "absent"
        BY <2>2, <3>2, AttemptEffect
      <3>3. ASSUME NEW q \in Request, CompleteExpired(q) \/ CompleteConflict(q) \/ CompleteVerified(q)
            PROVE  claim'[c].status = "absent"
        <4>1. /\ request[q].claim \in Claim
              /\ claim[request[q].claim].status # "absent"
          BY <3>3, TargetIsReal DEF CompleteExpired, CompleteConflict, CompleteVerified
        <4>2. PICK st \in {"verified", "failed", "expired"} : Settle(request[q].claim, st)
          BY <3>3 DEF CompleteExpired, CompleteConflict, CompleteVerified
        <4> QED BY <2>2, <4>1, <4>2, SettleEffect
      <3>4. ASSUME NEW d \in Claim, TimeRunsOut(d) PROVE claim'[c].status = "absent"
        BY <2>2, <3>4 DEF TimeRunsOut, TypeOK
      <3>5. CASE UNCHANGED claim
        BY <2>2, <3>5
      <3> QED BY <2>2, <3>1, <3>2, <3>3, <3>4, <3>5
              DEF Next, Verify, LookUp, ModerateSite, ReadClaim, CompleteRefused, RequestDies, ChangeProof, vars
    <2> QED BY <2>1, <2>2, ClaimFrame DEF RowsAreReal
  <1>2. \A q \in Request :
          /\ request'[q].phase # "idle" =>
               request'[q].claim \in Claim /\ claim[request'[q].claim].status # "absent"
          /\ request'[q].phase = "found" => request'[q].claim \in proven'
    <2> DEFINE Good == \A q \in Request :
          /\ request'[q].phase # "idle" =>
               request'[q].claim \in Claim /\ claim[request'[q].claim].status # "absent"
          /\ request'[q].phase = "found" => request'[q].claim \in proven'
    <2>1. ASSUME NEW p \in Request, NEW c \in Claim, ReadClaim(p, c) PROVE Good
      BY <2>1 DEF ReadClaim, TypeOK, RowsAreReal
    <2>2. ASSUME NEW p \in Request, LookUp(p) PROVE Good
      BY <2>2 DEF LookUp, TypeOK, RequestState, RowsAreReal
    <2>3. ASSUME NEW p \in Request, Answered(p), proven' = proven PROVE Good
      BY <2>3 DEF Answered, Idle, TypeOK, RowsAreReal
    <2>4. CASE UNCHANGED <<request, proven>>
      BY <2>4 DEF RowsAreReal
    <2> QED BY <2>1, <2>2, <2>3, <2>4
            DEF Next, Verify, ModerateSite, StartClaim, ReviewClaim, RecordAttempt, CompleteRefused,
                CompleteExpired, CompleteConflict, CompleteVerified, RequestDies, ChangeProof, TimeRunsOut, vars
  <1> QED BY <1>1, <1>2, ClaimFrame DEF RowsAreReal

LEMMA CapStep == TypeOK /\ RowsAreReal /\ ClosedAtCap /\ [Next]_vars => ClosedAtCap'
  <1> SUFFICES ASSUME TypeOK, RowsAreReal, ClosedAtCap, [Next]_vars,
                      NEW c \in Claim, claim'[c].status = "pending"
               PROVE  claim'[c].attempts < MaxAttempts
    BY DEF ClosedAtCap
  <1>1. ASSUME NEW d \in Claim, NEW s \in Site, NEW u \in User, StartClaim(d, s, u)
        PROVE  claim'[c].attempts < MaxAttempts
    BY <1>1, AttemptsAssumption DEF StartClaim, NoRow, TypeOK, ClosedAtCap
  <1>2. ASSUME NEW d \in Claim, ReviewClaim(d) PROVE claim'[c].attempts < MaxAttempts
    BY <1>2 DEF ReviewClaim, TypeOK, ClaimRow, ClosedAtCap
  <1>3. ASSUME NEW q \in Request, RecordAttempt(q) PROVE claim'[c].attempts < MaxAttempts
    BY <1>3, AttemptEffect DEF ClosedAtCap
  <1>4. ASSUME NEW q \in Request, CompleteExpired(q) \/ CompleteConflict(q) \/ CompleteVerified(q)
        PROVE  claim'[c].attempts < MaxAttempts
    <2>1. request[q].claim \in Claim
      BY <1>4, TargetIsReal DEF CompleteExpired, CompleteConflict, CompleteVerified
    <2>2. PICK st \in {"verified", "failed", "expired"} : Settle(request[q].claim, st)
      BY <1>4 DEF CompleteExpired, CompleteConflict, CompleteVerified
    <2> QED BY <2>1, <2>2, SettleEffect DEF ClosedAtCap
  <1>5. ASSUME NEW d \in Claim, TimeRunsOut(d) PROVE claim'[c].attempts < MaxAttempts
    BY <1>5 DEF TimeRunsOut, TypeOK, ClaimRow, ClosedAtCap
  <1>6. CASE UNCHANGED claim
    BY <1>6 DEF ClosedAtCap
  <1> QED BY <1>1, <1>2, <1>3, <1>4, <1>5, <1>6
          DEF Next, Verify, LookUp, ModerateSite, ReadClaim, CompleteRefused, RequestDies, ChangeProof, vars

-----------------------------------------------------------------------------
(* Owners *)

\* Only a verification touches the owners.
LEMMA OwnersFrame ==
  ASSUME [Next]_vars, ~ \E q \in Request : CompleteVerified(q)
  PROVE  owners' = owners
  BY DEF Next, Verify, ModerateSite, StartClaim, ReviewClaim, ReadClaim, LookUp, RecordAttempt,
         CompleteRefused, CompleteExpired, CompleteConflict, RequestDies, ChangeProof, TimeRunsOut, vars

\* A verification adds its user to a site that has no other owner.
LEMMA VerifiedOwner ==
  ASSUME TypeOK, RowsAreReal, NEW q \in Request, CompleteVerified(q)
  PROVE  /\ Target(q).site \in Site /\ Target(q).user \in User
         /\ owners[Target(q).site] \subseteq {Target(q).user}
         /\ owners' = [owners EXCEPT ![Target(q).site] = {Target(q).user}]
  <1>1. Target(q).site \in Site /\ Target(q).user \in User
    BY TargetIsReal DEF CompleteVerified
  <1>2. owners[Target(q).site] \subseteq {Target(q).user}
    BY DEF CompleteVerified, Rivals
  <1>3. owners' = [owners EXCEPT ![Target(q).site] = owners[Target(q).site] \cup {Target(q).user}]
    BY DEF CompleteVerified
  <1>4. owners[Target(q).site] \cup {Target(q).user} = {Target(q).user}
    BY <1>2
  <1> QED BY <1>1, <1>2, <1>3, <1>4

LEMMA SingleOwnerStep == TypeOK /\ RowsAreReal /\ SingleOwner /\ [Next]_vars => SingleOwner'
  <1> SUFFICES ASSUME TypeOK, RowsAreReal, SingleOwner, [Next]_vars PROVE SingleOwner'
    OBVIOUS
  <1>1. ASSUME NEW q \in Request, CompleteVerified(q) PROVE SingleOwner'
    BY <1>1, VerifiedOwner DEF SingleOwner, TypeOK
  <1>2. CASE ~ \E q \in Request : CompleteVerified(q)
    BY <1>2, OwnersFrame DEF SingleOwner
  <1> QED BY <1>1, <1>2

LEMMA OwnersStep == TypeOK /\ RowsAreReal /\ OwnersHaveProven /\ [Next]_vars => OwnersHaveProven'
  <1> SUFFICES ASSUME TypeOK, RowsAreReal, OwnersHaveProven, [Next]_vars,
                      NEW s \in Site, NEW u \in owners'[s]
               PROVE  \E c \in proven' :
                        claim'[c].status = "verified" /\ claim'[c].site = s /\ claim'[c].user = u
    BY DEF OwnersHaveProven
  <1>1. CASE u \in owners[s]
    <2>1. PICK c \in proven : claim[c].status = "verified" /\ claim[c].site = s /\ claim[c].user = u
      BY <1>1 DEF OwnersHaveProven
    <2>2. c \in Claim
      BY DEF TypeOK
    <2> QED BY <2>1, <2>2, ClaimFrame
  <1>2. CASE u \notin owners[s]
    <2>1. PICK q \in Request : CompleteVerified(q)
      BY <1>2, OwnersFrame
    <2>2. s = Target(q).site /\ u = Target(q).user
      BY <1>2, <2>1, VerifiedOwner DEF TypeOK
    <2>3. /\ request[q].claim \in Claim
          /\ Target(q) = claim[request[q].claim]
          /\ request[q].claim \in proven
      BY <2>1, TargetIsReal DEF CompleteVerified, RowsAreReal
    <2>4. Settle(request[q].claim, "verified") /\ proven' = proven
      BY <2>1 DEF CompleteVerified
    <2> QED BY <2>2, <2>3, <2>4, SettleEffect
  <1> QED BY <1>1, <1>2

LEMMA ClaimInvStep == ClaimInv /\ [Next]_vars => ClaimInv'
  BY TypeStep, RowsStep, CapStep, SingleOwnerStep, OwnersStep DEF ClaimInv

\* Every reachable state is well typed, the attempts within their cap included.
THEOREM TypeCorrect == Spec => []TypeOK
  <1>1. ClaimInv => TypeOK
    BY DEF ClaimInv
  <1> QED BY InitClaimInv, ClaimInvStep, <1>1, PTL DEF Spec

\* However many rivals prove control of a site at once, it has one owner.
THEOREM SitesHaveOneOwner == Spec => []SingleOwner
  <1>1. ClaimInv => SingleOwner
    BY DEF ClaimInv
  <1> QED BY InitClaimInv, ClaimInvStep, <1>1, PTL DEF Spec

\* Every owner got there by a verified claim whose proof was found, and keeps it.
THEOREM OwnersWereVerified == Spec => []OwnersHaveProven
  <1>1. ClaimInv => OwnersHaveProven
    BY DEF ClaimInv
  <1> QED BY InitClaimInv, ClaimInvStep, <1>1, PTL DEF Spec

\* No number of concurrent requests leaves a challenge open past its last attempt.
THEOREM CapCloses == Spec => []ClosedAtCap
  <1>1. ClaimInv => ClosedAtCap
    BY DEF ClaimInv
  <1> QED BY InitClaimInv, ClaimInvStep, <1>1, PTL DEF Spec

-----------------------------------------------------------------------------
(* Verification in time *)

\* Which step verifies a claim, and when.
LEMMA VerifyingStep ==
  ASSUME TypeOK, RowsAreReal, [Next]_vars,
         NEW c \in Claim, claim[c].status # "verified", claim'[c].status = "verified"
  PROVE  /\ claim[c].status = "pending"
         /\ ~claim[c].due
         /\ status[claim[c].site] = "active"
  <1>1. ASSUME NEW d \in Claim, NEW s \in Site, NEW u \in User, StartClaim(d, s, u) PROVE FALSE
    BY <1>1 DEF StartClaim, NoRow, TypeOK
  <1>2. ASSUME NEW d \in Claim, ReviewClaim(d) PROVE FALSE
    BY <1>2 DEF ReviewClaim, TypeOK, ClaimRow
  <1>3. ASSUME NEW q \in Request, RecordAttempt(q) PROVE FALSE
    BY <1>3, AttemptEffect
  <1>4. ASSUME NEW q \in Request, CompleteExpired(q) \/ CompleteConflict(q) PROVE FALSE
    <2>1. request[q].claim \in Claim
      BY <1>4, TargetIsReal DEF CompleteExpired, CompleteConflict
    <2>2. PICK st \in {"failed", "expired"} : Settle(request[q].claim, st)
      BY <1>4 DEF CompleteExpired, CompleteConflict
    <2> QED BY <2>1, <2>2, SettleEffect
  <1>5. ASSUME NEW d \in Claim, TimeRunsOut(d) PROVE FALSE
    BY <1>5 DEF TimeRunsOut, TypeOK, ClaimRow
  <1>6. claim' # claim
    OBVIOUS
  <1>7. PICK q \in Request : CompleteVerified(q)
    BY <1>1, <1>2, <1>3, <1>4, <1>5, <1>6
       DEF Next, Verify, LookUp, ModerateSite, ReadClaim, CompleteRefused, RequestDies, ChangeProof, vars
  <1>8. request[q].claim \in Claim /\ Target(q) = claim[request[q].claim]
    BY <1>7, TargetIsReal DEF CompleteVerified
  <1>9. c = request[q].claim
    <2>1. Settle(request[q].claim, "verified")
      BY <1>7 DEF CompleteVerified
    <2> QED BY <1>8, <2>1, SettleEffect
  <1> QED BY <1>7, <1>8, <1>9 DEF CompleteVerified, StillPending, OnTime

\* A lookup of any length does not verify a claim that has closed or run out, or
\* whose site moderators have closed meanwhile.
THEOREM VerificationIsInTime == Spec => VerifiedInTime
  <1>1. ClaimInv /\ [Next]_vars =>
          [\A c \in Claim :
             claim[c].status # "verified" /\ claim'[c].status = "verified" =>
               /\ claim[c].status = "pending"
               /\ ~claim[c].due
               /\ status[claim[c].site] = "active"]_vars
    BY VerifyingStep DEF ClaimInv
  <1> QED BY InitClaimInv, ClaimInvStep, <1>1, PTL DEF Spec, VerifiedInTime

-----------------------------------------------------------------------------
(* The promise to the rest of the system *)

LEMMA InitLists == Init => Listing!Init
  BY DEF Init, Listing!Init, OwnerOf

\* A site keeps its owner while it keeps its owner rows.
LEMMA OwnerFrame ==
  ASSUME NEW t, owners'[t] = owners[t]
  PROVE  OwnerOf(t)' = OwnerOf(t)
  <1>1. CASE owners[t] = {}
    BY <1>1 DEF OwnerOf
  <1>2. CASE owners[t] # {}
    <2>1. OwnerOf(t) = CHOOSE u \in owners[t] : TRUE
      BY <1>2 DEF OwnerOf
    <2>2. OwnerOf(t)' = CHOOSE u \in owners'[t] : TRUE
      BY <1>2 DEF OwnerOf
    <2> QED BY <2>1, <2>2
  <1> QED BY <1>1, <1>2

\* A verification grants the site, or confirms the owner it has.
LEMMA VerifiedLists ==
  ASSUME ClaimInv, NEW q \in Request, CompleteVerified(q)
  PROVE  Listing!Next \/ UNCHANGED Listing!vars
  <1>1. PICK s \in Site, u \in User :
          /\ s = Target(q).site /\ owners[s] \subseteq {u}
          /\ owners' = [owners EXCEPT ![s] = {u}]
    BY VerifiedOwner DEF ClaimInv
  <1>2. status[s] = "active" /\ status' = status
    BY <1>1 DEF CompleteVerified
  <1>3. owners'[s] = {u} /\ \A t \in Site \ {s} : owners'[t] = owners[t]
    BY <1>1 DEF ClaimInv, TypeOK
  <1>4. CASE owners[s] = {}
    <2>1. OwnerOf(s) = NoUser /\ OwnerOf(s)' = u
      <3>1. (CHOOSE v \in {u} : TRUE) = u
        OBVIOUS
      <3>2. owners'[s] # {}
        BY <1>3
      <3> QED BY <1>3, <1>4, <3>1, <3>2 DEF OwnerOf
    <2>2. \A t \in Site \ {s} : OwnerOf(t)' = OwnerOf(t)
      BY <1>3, OwnerFrame
    <2>3. Listing!Grant(s, u)
      BY <1>1, <1>2, <2>1, <2>2 DEF Listing!Grant
    <2> QED BY <1>1, <2>3 DEF Listing!Next
  <1>5. CASE owners[s] = {u}
    <2>1. \A t \in Site : owners'[t] = owners[t]
      BY <1>3, <1>5
    <2>2. \A t \in Site : OwnerOf(t)' = OwnerOf(t)
      BY <2>1, OwnerFrame
    <2> QED BY <1>2, <2>2 DEF Listing!vars
  <1> QED BY <1>1, <1>4, <1>5

\* Claims implement the listing: no step replaces an owner or grants a closed site.
THEOREM ImplementsListing == Spec => ListingIsKept
  <1>1. ClaimInv /\ [Next]_vars => [Listing!Next]_(Listing!vars)
    <2> SUFFICES ASSUME ClaimInv, [Next]_vars
                 PROVE  Listing!Next \/ UNCHANGED Listing!vars
      OBVIOUS
    <2>1. ASSUME NEW q \in Request, CompleteVerified(q)
          PROVE  Listing!Next \/ UNCHANGED Listing!vars
      BY <2>1, VerifiedLists
    <2>2. ASSUME NEW s \in Site, ModerateSite(s) PROVE Listing!Next
      <3>1. \A t \in Site : OwnerOf(t)' = OwnerOf(t)
        BY <2>2 DEF ModerateSite, OwnerOf
      <3>2. Listing!Moderate(s)
        BY <2>2, <3>1 DEF ModerateSite, Listing!Moderate
      <3> QED BY <3>2 DEF Listing!Next
    <2>3. CASE UNCHANGED <<status, owners>>
      BY <2>3 DEF Listing!vars, OwnerOf
    <2> QED BY <2>1, <2>2, <2>3
            DEF Next, Verify, StartClaim, ReviewClaim, ReadClaim, LookUp, RecordAttempt,
                CompleteRefused, CompleteExpired, CompleteConflict, RequestDies, ChangeProof, TimeRunsOut, vars
  <1> QED BY InitClaimInv, ClaimInvStep, InitLists, <1>1, PTL DEF Spec, ListingIsKept, Listing!Spec
=============================================================================
