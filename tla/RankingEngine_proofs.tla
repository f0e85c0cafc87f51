------------------------- MODULE RankingEngine_proofs -------------------------
(***************************************************************************)
(* For any finite set of sites, any set of states of their metrics and any *)
(* number of overlapping runs: each publication is, as a whole, what one   *)
(* run has computed from one state of the metrics, and is replaced as a    *)
(* whole.                                                                  *)
(*                                                                         *)
(* The argument: a transaction takes away all rows of a publication or     *)
(* none, since its DELETE finds them committed together; it knows of its   *)
(* own process's last publication; and the unique index keeps what it      *)
(* inserts apart from what it has not deleted.                             *)
(*                                                                         *)
(* At the end, about the job that finds the breakouts (BreakoutDetection): *)
(* the badge of a site is always the state of its latest row.              *)
(***************************************************************************)
EXTENDS RankingJob, BreakoutDetection, FiniteSetTheorems, TLAPS

RankedFromMetrics ==
  \A p \in Process : run[p].phase \in {"delete", "publish"} => run[p].ranked \in CompleteSets

EachIsComplete == \A p \in Process : PublishedBy(p) \in CompleteSets \cup {{}}

KeptApart ==
  \A r, q \in ranking :
    r.by # q.by /\ r.place.site = q.place.site => r.place.scope # q.place.scope

SeesItsOwn ==
  \A p \in Process : run[p].phase = "publish" /\ p \notin run[p].deleted => PublishedBy(p) = {}

Inv == TypeOK /\ RankedFromMetrics /\ EachIsComplete /\ KeptApart /\ SeesItsOwn

-----------------------------------------------------------------------------
(* Lemmas about leaderboards *)

LEMMA MetricType ==
  ASSUME NEW m \in Metrics, NEW s \in Site
  PROVE  m[s] \in Metric /\ m[s].score \in Nat /\ s \in Nat
<1>1. m \in [Site -> Metric] /\ s \in Nat
  BY MetricAssumption, SiteAssumption
<1>2. m[s] \in Metric
  BY <1>1
<1> QED BY <1>1, <1>2 DEF Metric

\* A rank is between one and the number of sites (rankCandidates).
LEMMA RankType ==
  ASSUME NEW m \in Metrics, NEW c \in Scope, NEW s \in Ranked(m, c)
  PROVE  Rank(m, c, s) \in 1..Cardinality(Site)
<1> DEFINE Better == {t \in Ranked(m, c) : Precedes(m, t, s)}
<1>1. s \in Site /\ m[s].score \in Nat
  BY MetricType DEF Ranked
<1>2. s \notin Better
  BY <1>1, MetricType DEF Precedes
<1>3. Better \subseteq Site \ {s}
  BY <1>2 DEF Ranked
<1>4. IsFiniteSet(Site \ {s}) /\ Cardinality(Site \ {s}) = Cardinality(Site) - 1
  BY <1>1, SiteAssumption, FS_RemoveElement
<1>5. IsFiniteSet(Better) /\ Cardinality(Better) <= Cardinality(Site \ {s})
  BY <1>3, <1>4, FS_Subset
<1>6. Cardinality(Better) \in Nat /\ Cardinality(Site) \in Nat
  BY <1>5, SiteAssumption, FS_CardinalityType
<1>7. Rank(m, c, s) = Cardinality(Better) + 1
  BY DEF Rank
<1> HIDE DEF Better
<1> QED BY <1>4, <1>5, <1>6, <1>7

\* The places of a leaderboard, one for each site that belongs to its scope.
LEMMA Places ==
  ASSUME NEW m, NEW place
  PROVE  place \in Leaderboards(m) <=>
           \E s \in Site, c \in Scope :
             s \in Ranked(m, c) /\ place = [site |-> s, scope |-> c, rank |-> Rank(m, c, s)]
BY DEF Leaderboards, Ranked

LEMMA LeaderboardsType ==
  ASSUME NEW m \in Metrics
  PROVE  Leaderboards(m) \subseteq Place
<1> SUFFICES ASSUME NEW place \in Leaderboards(m)
             PROVE  place \in Place
  OBVIOUS
<1>1. PICK s \in Site, c \in Scope :
        s \in Ranked(m, c) /\ place = [site |-> s, scope |-> c, rank |-> Rank(m, c, s)]
  BY Places
<1>2. Rank(m, c, s) \in 1..Cardinality(Site)
  BY <1>1, RankType
<1> QED BY <1>1, <1>2 DEF Place

-----------------------------------------------------------------------------
(* The order of a leaderboard *)

\* compareRankingCandidates is a total order.
LEMMA PrecedesIsTotal ==
  ASSUME NEW m \in Metrics, NEW s \in Site, NEW t \in Site
  PROVE  /\ ~Precedes(m, s, s)
         /\ s = t \/ Precedes(m, s, t) \/ Precedes(m, t, s)
         /\ \A u \in Site : Precedes(m, u, s) /\ Precedes(m, s, t) => Precedes(m, u, t)
<1>1. \A u \in Site : u \in Nat /\ m[u].score \in Nat
  BY MetricType
<1> QED BY <1>1 DEF Precedes

\* Who precedes has a lower rank.
LEMMA RankFollowsOrder ==
  ASSUME NEW m \in Metrics, NEW c \in Scope, NEW s \in Ranked(m, c), NEW t \in Ranked(m, c),
         Precedes(m, s, t)
  PROVE  Rank(m, c, s) < Rank(m, c, t)
<1> DEFINE Better(u) == {v \in Ranked(m, c) : Precedes(m, v, u)}
<1>1. \A u \in Ranked(m, c) : u \in Site
  BY DEF Ranked
<1>2. IsFiniteSet(Ranked(m, c))
  BY <1>1, SiteAssumption, FS_Subset DEF Ranked
<1>3. IsFiniteSet(Better(s)) /\ IsFiniteSet(Better(t))
  BY <1>2, FS_Subset
<1>4. s \in Better(t) /\ Better(s) \subseteq Better(t) \ {s}
  BY <1>1, PrecedesIsTotal
<1>5. /\ IsFiniteSet(Better(t) \ {s})
      /\ Cardinality(Better(t) \ {s}) = Cardinality(Better(t)) - 1
  BY <1>3, <1>4, FS_RemoveElement
<1>6. Cardinality(Better(s)) <= Cardinality(Better(t) \ {s})
  BY <1>4, <1>5, FS_Subset
<1>7. Cardinality(Better(s)) \in Nat /\ Cardinality(Better(t)) \in Nat
  BY <1>3, FS_CardinalityType
<1>8. /\ Rank(m, c, s) = Cardinality(Better(s)) + 1
      /\ Rank(m, c, t) = Cardinality(Better(t)) + 1
  BY DEF Rank
<1> HIDE DEF Better
<1> QED BY <1>5, <1>6, <1>7, <1>8

\* ... and who has a lower rank precedes: no two sites share one.
LEMMA RankReflectsOrder ==
  ASSUME NEW m \in Metrics, NEW c \in Scope, NEW s \in Ranked(m, c), NEW t \in Ranked(m, c)
  PROVE  /\ Rank(m, c, s) < Rank(m, c, t) => Precedes(m, s, t)
         /\ Rank(m, c, s) = Rank(m, c, t) => s = t
<1>1. s \in Site /\ t \in Site
  BY DEF Ranked
<1>2. Rank(m, c, s) \in Nat /\ Rank(m, c, t) \in Nat
  <2>1. Rank(m, c, s) \in 1..Cardinality(Site) /\ Rank(m, c, t) \in 1..Cardinality(Site)
    BY RankType
  <2> QED BY <2>1, SiteAssumption, FS_CardinalityType
<1>3. s = t \/ Precedes(m, s, t) \/ Precedes(m, t, s)
  BY <1>1, PrecedesIsTotal
<1>4. Precedes(m, s, t) => Rank(m, c, s) < Rank(m, c, t)
  BY RankFollowsOrder
<1>5. Precedes(m, t, s) => Rank(m, c, t) < Rank(m, c, s)
  BY RankFollowsOrder
<1> QED BY <1>2, <1>3, <1>4, <1>5

\* No rank is above the number of sites on the leaderboard.
LEMMA RankBound ==
  ASSUME NEW m \in Metrics, NEW c \in Scope, NEW s \in Ranked(m, c)
  PROVE  /\ IsFiniteSet(Ranked(m, c))
         /\ Rank(m, c, s) \in 1..Cardinality(Ranked(m, c))
<1> DEFINE Better == {t \in Ranked(m, c) : Precedes(m, t, s)}
<1>1. s \in Site /\ Ranked(m, c) \in SUBSET Site
  BY DEF Ranked
<1>2. IsFiniteSet(Ranked(m, c))
  BY <1>1, SiteAssumption, FS_Subset
<1>3. Better \in SUBSET (Ranked(m, c) \ {s})
  BY <1>1, PrecedesIsTotal
<1>4. /\ IsFiniteSet(Ranked(m, c) \ {s})
      /\ Cardinality(Ranked(m, c) \ {s}) = Cardinality(Ranked(m, c)) - 1
  BY <1>2, FS_RemoveElement
<1>5. IsFiniteSet(Better) /\ Cardinality(Better) <= Cardinality(Ranked(m, c) \ {s})
  BY <1>3, <1>4, FS_Subset
<1>6. Cardinality(Better) \in Nat /\ Cardinality(Ranked(m, c)) \in Nat
  BY <1>2, <1>5, FS_CardinalityType
<1>7. Rank(m, c, s) = Cardinality(Better) + 1
  BY DEF Rank
<1> HIDE DEF Better
<1> QED BY <1>2, <1>4, <1>5, <1>6, <1>7

\* The ranks are 1 to n, each once (rankCandidates).
LEMMA RanksAreDense ==
  ASSUME NEW m \in Metrics, NEW c \in Scope
  PROVE  {Rank(m, c, s) : s \in Ranked(m, c)} = 1..Cardinality(Ranked(m, c))
<1> DEFINE R == Ranked(m, c)
           n == Cardinality(R)
           f == [s \in R |-> Rank(m, c, s)]
<1>1. IsFiniteSet(R) /\ n \in Nat
  <2>1. IsFiniteSet(R)
    BY SiteAssumption, FS_Subset DEF Ranked
  <2> QED BY <2>1, FS_CardinalityType
<1>2. f \in [R -> 1..n]
  BY RankBound
<1>3. \A s, t \in R : f[s] = f[t] => s = t
  BY RankReflectsOrder
<1>4. f \in Injection(R, 1..n)
  BY <1>2, <1>3 DEF Injection, IsInjective
<1>5. IsFiniteSet(1..n) /\ Cardinality(1..n) = n
  BY <1>1, FS_Interval
<1> HIDE DEF n
<1>6. f \in Surjection(R, 1..n)
  BY <1>4, <1>5, FS_Injection DEF n
<1>7. \A k \in 1..n : \E s \in R : f[s] = k
  BY <1>6 DEF Surjection
<1> QED BY <1>2, <1>7 DEF n

-----------------------------------------------------------------------------
(* One publication is complete leaderboards *)

\* What stands under a scope: a place for each site that belongs to it.
LEMMA OnLeaderboards ==
  ASSUME NEW m \in Metrics, NEW c \in Scope
  PROVE  On(Leaderboards(m), c) =
           {[site |-> s, scope |-> c, rank |-> Rank(m, c, s)] : s \in Ranked(m, c)}
<1> DEFINE PlaceOf(s) == [site |-> s, scope |-> c, rank |-> Rank(m, c, s)]
<1>1. ASSUME NEW place \in On(Leaderboards(m), c)
      PROVE  \E s \in Ranked(m, c) : place = PlaceOf(s)
  <2>1. place \in Leaderboards(m) /\ place.scope = c
    BY <1>1 DEF On
  <2>2. PICK s \in Site, d \in Scope :
          s \in Ranked(m, d) /\ place = [site |-> s, scope |-> d, rank |-> Rank(m, d, s)]
    BY <2>1, Places
  <2>3. d = c
    BY <2>1, <2>2
  <2> QED BY <2>2, <2>3
<1>2. ASSUME NEW s \in Ranked(m, c)
      PROVE  PlaceOf(s) \in On(Leaderboards(m), c)
  <2>1. s \in Site
    BY DEF Ranked
  <2>2. PlaceOf(s) \in Leaderboards(m)
    BY <2>1, Places
  <2>3. PlaceOf(s).scope = c
    OBVIOUS
  <2> HIDE DEF PlaceOf
  <2> QED BY <2>2, <2>3 DEF On
<1> QED BY <1>1, <1>2

LEMMA SizeOfLeaderboard ==
  ASSUME NEW m \in Metrics, NEW c \in Scope
  PROVE  Cardinality(On(Leaderboards(m), c)) = Cardinality(Ranked(m, c))
<1> DEFINE PlaceOf(s) == [site |-> s, scope |-> c, rank |-> Rank(m, c, s)]
           R == Ranked(m, c)
           T == On(Leaderboards(m), c)
           g == [s \in R |-> PlaceOf(s)]
<1>1. T = {PlaceOf(s) : s \in R}
  BY OnLeaderboards
<1>2. \A s, t \in R : g[s] = g[t] => s = t
  <2> SUFFICES ASSUME NEW s \in R, NEW t \in R, g[s] = g[t] PROVE s = t
    OBVIOUS
  <2>1. g[s].site = s /\ g[t].site = t
    OBVIOUS
  <2> QED BY <2>1
<1> HIDE DEF T
<1>3. g \in Injection(R, T) /\ g \in Surjection(R, T)
  BY <1>1, <1>2 DEF Injection, IsInjective, Surjection
<1>4. ExistsBijection(R, T)
  BY <1>3 DEF ExistsBijection, Bijection
<1>5. IsFiniteSet(R)
  BY SiteAssumption, FS_Subset DEF Ranked
<1> QED BY <1>4, <1>5, FS_Bijection DEF T

\* The ranks are 1 to n in every scope, and the breakout leaderboard follows the global one.
LEMMA LeaderboardsWhole ==
  ASSUME NEW m \in Metrics
  PROVE  Whole(Leaderboards(m))
<1> DEFINE places == Leaderboards(m)
           PlaceOf(s, c) == [site |-> s, scope |-> c, rank |-> Rank(m, c, s)]
<1>1. \A c \in Scope : On(places, c) = {PlaceOf(s, c) : s \in Ranked(m, c)}
  BY OnLeaderboards
<1>2. ASSUME NEW c \in Scope
      PROVE  {place.rank : place \in On(places, c)} = 1..Cardinality(On(places, c))
  <2>1. {place.rank : place \in On(places, c)} = {Rank(m, c, s) : s \in Ranked(m, c)}
    <3>1. ASSUME NEW place \in On(places, c)
          PROVE  place.rank \in {Rank(m, c, s) : s \in Ranked(m, c)}
      <4>1. PICK s \in Ranked(m, c) : place = PlaceOf(s, c)
        BY <1>1, <3>1
      <4> QED BY <4>1
    <3>2. ASSUME NEW s \in Ranked(m, c)
          PROVE  Rank(m, c, s) \in {place.rank : place \in On(places, c)}
      <4>1. PICK place : place = PlaceOf(s, c)
        OBVIOUS
      <4>2. place \in On(places, c) /\ place.rank = Rank(m, c, s)
        BY <1>1, <4>1
      <4> QED BY <4>2
    <3> QED BY <3>1, <3>2
  <2> QED BY <2>1, RanksAreDense, SizeOfLeaderboard
<1>3. ASSUME NEW b \in On(places, "breakout"), NEW c \in On(places, "breakout")
      PROVE  \E g, h \in On(places, "global") :
               g.site = b.site /\ h.site = c.site /\ (b.rank < c.rank => g.rank < h.rank)
  <2>1. "breakout" \in Scope /\ "global" \in Scope
    BY DEF Scope
  <2>2. PICK s \in Ranked(m, "breakout") : b = PlaceOf(s, "breakout")
    BY <1>1, <2>1
  <2>3. PICK t \in Ranked(m, "breakout") : c = PlaceOf(t, "breakout")
    BY <1>1, <2>1
  <2>4. s \in Ranked(m, "global") /\ t \in Ranked(m, "global")
    BY DEF Ranked, Belongs
  <2> DEFINE g == PlaceOf(s, "global")
             h == PlaceOf(t, "global")
  <2>5. g \in On(places, "global") /\ h \in On(places, "global")
    BY <1>1, <2>1, <2>4
  <2>6. b.rank < c.rank => g.rank < h.rank
    <3>1. b.rank < c.rank => Precedes(m, s, t)
      BY <2>1, <2>2, <2>3, RankReflectsOrder
    <3>2. Precedes(m, s, t) => Rank(m, "global", s) < Rank(m, "global", t)
      BY <2>1, <2>4, RankFollowsOrder
    <3> QED BY <3>1, <3>2
  <2>7. g.site = b.site /\ h.site = c.site
    BY <2>2, <2>3
  <2> HIDE DEF g, h
  <2> QED BY <2>5, <2>6, <2>7
<1> QED BY <1>2, <1>3 DEF Whole

LEMMA NothingIsWhole == Whole({})
<1>1. \A c \in Scope : On({}, c) = {}
  BY DEF On
<1>2. On({}, "breakout") = {}
  BY DEF On
<1> QED BY <1>1, <1>2, FS_EmptySet DEF Whole

LEMMA CompleteIsPlaces ==
  ASSUME NEW places \in CompleteSets
  PROVE  places \in SUBSET Place /\ Whole(places)
BY LeaderboardsType, LeaderboardsWhole DEF CompleteSets

-----------------------------------------------------------------------------
(* Every step keeps the invariant *)

LEMMA IdleType == Idle \in Run
BY DEF Idle, Run

LEMMA OverType ==
  ASSUME TypeOK, NEW p \in Process, NEW outcome \in {"completed", "failed"}
  PROVE  /\ Over(p, outcome) \in Run
         /\ Over(p, outcome).phase = "finish" /\ Over(p, outcome).deleted = {}
<1>1. run[p].current \in BOOLEAN
  BY DEF TypeOK, Run
<1> QED BY <1>1 DEF Over, Idle, Run

\* A step of one process that leaves the leaderboards alone.
LEMMA RunStep ==
  ASSUME Inv, NEW p \in Process, NEW r \in Run, run' = [run EXCEPT ![p] = r],
         r.phase \in {"delete", "publish"} => r.ranked \in CompleteSets,
         r.phase = "publish" /\ p \notin r.deleted => PublishedBy(p) = {},
         metric' = metric, ranking' = ranking, job' \in JobStatus
  PROVE  Inv'
<1>1. run \in [Process -> Run]
  BY DEF Inv, TypeOK
<1>2. run' \in [Process -> Run] /\ run'[p] = r /\ \A q \in Process : q # p => run'[q] = run[q]
  BY <1>1
<1>3. \A q \in Process : PublishedBy(q)' = PublishedBy(q)
  BY DEF PublishedBy
<1>4. TypeOK'
  BY <1>2 DEF Inv, TypeOK
<1>5. RankedFromMetrics'
  BY <1>2 DEF Inv, RankedFromMetrics
<1>6. SeesItsOwn'
  BY <1>2, <1>3 DEF Inv, SeesItsOwn
<1>7. EachIsComplete' /\ KeptApart'
  BY <1>3 DEF Inv, EachIsComplete, KeptApart
<1> QED BY <1>4, <1>5, <1>6, <1>7 DEF Inv

\* A commit puts what the run has computed in the place of the publications it has deleted
\* and leaves the others as they are.
LEMMA PublishedAfter ==
  ASSUME Inv, NEW p \in Process, Publish(p)
  PROVE  /\ PublishedBy(p)' = run[p].ranked
         /\ \A q \in Process \ {p} :
              PublishedBy(q)' = IF q \in run[p].deleted THEN {} ELSE PublishedBy(q)
<1>1. ranking' = Remaining(p) \cup [place : run[p].ranked, by : {p}]
  BY DEF Publish
<1>2. \A row \in Remaining(p) : row \in ranking /\ row.by \notin run[p].deleted
  BY DEF Remaining
<1>3. PublishedBy(p)' = run[p].ranked
  <2>1. ASSUME NEW place \in run[p].ranked
        PROVE  place \in PublishedBy(p)'
    <3>1. PICK row : row = [place |-> place, by |-> p]
      OBVIOUS
    <3>2. row \in ranking' /\ row.by = p /\ row.place = place
      BY <1>1, <2>1, <3>1
    <3> QED BY <3>2 DEF PublishedBy
  <2>2. ASSUME NEW place \in PublishedBy(p)'
        PROVE  place \in run[p].ranked
    <3>1. PICK row \in ranking' : row.by = p /\ row.place = place
      BY <2>2 DEF PublishedBy
    <3>2. row \notin Remaining(p)
      <4>1. SUFFICES ASSUME row \in Remaining(p) PROVE FALSE
        OBVIOUS
      <4>2. p \notin run[p].deleted /\ row.place \in PublishedBy(p)
        BY <1>2, <3>1, <4>1 DEF PublishedBy
      <4> QED BY <4>2 DEF Inv, SeesItsOwn, Publish
    <3> QED BY <1>1, <3>1, <3>2
  <2> QED BY <2>1, <2>2
<1>4. ASSUME NEW q \in Process \ {p}
      PROVE  PublishedBy(q)' = IF q \in run[p].deleted THEN {} ELSE PublishedBy(q)
  <2>1. \A row \in [place : run[p].ranked, by : {p}] : row.by # q
    BY <1>4
  <2>2. {row \in ranking' : row.by = q} = {row \in Remaining(p) : row.by = q}
    BY <1>1, <2>1
  <2>3. {row \in Remaining(p) : row.by = q}
          = IF q \in run[p].deleted THEN {} ELSE {row \in ranking : row.by = q}
    BY DEF Remaining
  <2> QED BY <2>2, <2>3 DEF PublishedBy
<1> QED BY <1>3, <1>4

\* ... and nothing that it inserts stands beside the same site on the same leaderboard.
LEMMA ApartAfter ==
  ASSUME Inv, NEW p \in Process, Publish(p)
  PROVE  KeptApart'
<1> DEFINE new == [place : run[p].ranked, by : {p}]
<1>1. ranking' = Remaining(p) \cup new /\ ~Clashes(p)
  BY DEF Publish
<1>2. Remaining(p) \subseteq ranking
  BY DEF Remaining
<1>3. ASSUME NEW r \in new, NEW q \in Remaining(p)
      PROVE  ~SameKey(r.place, q.place)
  BY <1>1, <1>3 DEF Clashes
<1>4. \A r \in new : r.by = p
  OBVIOUS
<1> HIDE DEF new
<1> SUFFICES ASSUME NEW r \in ranking', NEW q \in ranking', r.by # q.by,
                    r.place.site = q.place.site
             PROVE  r.place.scope # q.place.scope
  BY DEF KeptApart
<1>5. CASE r \in new /\ q \in Remaining(p)
  BY <1>3, <1>5 DEF SameKey
<1>6. CASE r \in Remaining(p) /\ q \in new
  BY <1>3, <1>6 DEF SameKey
<1>7. CASE r \in Remaining(p) /\ q \in Remaining(p)
  BY <1>2, <1>7 DEF Inv, KeptApart
<1> QED BY <1>1, <1>4, <1>5, <1>6, <1>7

\* What a commit does to the runs: its own is over, the others no longer have anything to
\* delete of the publications it has dealt with.
LEMMA RunsAfter ==
  ASSUME TypeOK, NEW p \in Process, Publish(p)
  PROVE  /\ run' \in [Process -> Run]
         /\ run'[p].phase = "finish" /\ run'[p].deleted = {}
         /\ \A q \in Process \ {p} :
              /\ run'[q].phase = run[q].phase /\ run'[q].ranked = run[q].ranked
              /\ run'[q].deleted = run[q].deleted \ (run[p].deleted \cup {p})
<1>1. run'[p] = Over(p, "completed")
  BY DEF Publish
<1>2. Over(p, "completed") \in Run /\ Over(p, "completed").phase = "finish"
      /\ Over(p, "completed").deleted = {}
  BY OverType
<1>3. ASSUME NEW q \in Process \ {p}
      PROVE  /\ run'[q] \in Run
             /\ run'[q].phase = run[q].phase /\ run'[q].ranked = run[q].ranked
             /\ run'[q].deleted = run[q].deleted \ (run[p].deleted \cup {p})
  <2>1. run[q] \in Run
    BY DEF TypeOK
  <2>2. run'[q] = [run[q] EXCEPT !.deleted = @ \ (run[p].deleted \cup {p})]
    BY DEF Publish
  <2> QED BY <2>1, <2>2 DEF Run
<1>4. run' = [q \in Process |-> run'[q]]
  BY DEF Publish
<1>5. run' \in [Process -> Run]
  BY <1>1, <1>2, <1>3, <1>4
<1> QED BY <1>1, <1>2, <1>3, <1>5

\* One process takes a step.
LEMMA ProcessStep ==
  ASSUME Inv, NEW p \in Process, Step(p)
  PROVE  Inv'
<1>0. /\ TypeOK /\ run[p] \in Run /\ run \in [Process -> Run] /\ job \in JobStatus
      /\ run[p].ranked \in SUBSET Place /\ run[p].deleted \in SUBSET Process
      /\ run[p].current \in BOOLEAN /\ run[p].outcome \in {"completed", "failed"}
  BY DEF Inv, TypeOK, Run
<1>1. CASE Begin(p)
  <2>1. PICK r : r = [Idle EXCEPT !.phase = "collect", !.current = TRUE]
    OBVIOUS
  <2>2. r \in Run /\ r.phase = "collect"
    BY <2>1 DEF Idle, Run
  <2> QED BY <1>1, <2>1, <2>2, RunStep DEF Begin, JobStatus
<1>2. CASE Find(p)
  <2>1. PICK r : r = [Idle EXCEPT !.phase = "restart", !.current = TRUE]
    OBVIOUS
  <2>2. r \in Run /\ r.phase = "restart"
    BY <2>1 DEF Idle, Run
  <2> QED BY <1>0, <1>2, <2>1, <2>2, RunStep DEF Find
<1>3. CASE Restart(p)
  <2>1. PICK r : r = [run[p] EXCEPT !.phase = "collect"]
    OBVIOUS
  <2>2. r \in Run /\ r.phase = "collect"
    BY <1>0, <2>1 DEF Run
  <2>3. run' = [run EXCEPT ![p] = r]
    BY <1>0, <1>3, <2>1 DEF Restart
  <2>4. job' \in JobStatus
    BY <1>0, <1>3 DEF Restart, JobStatus
  <2> QED BY <1>3, <2>2, <2>3, <2>4, RunStep DEF Restart
<1>4. CASE Collect(p)
  <2>1. PICK places : places = Leaderboards(metric)
    OBVIOUS
  <2>2. places \in CompleteSets /\ places \in SUBSET Place
    BY <1>0, <2>1, LeaderboardsType DEF TypeOK, CompleteSets
  <2>3. PICK r : r = [run[p] EXCEPT !.phase = "delete", !.ranked = places]
    OBVIOUS
  <2>4. r \in Run /\ r.phase = "delete" /\ r.ranked = places
    BY <1>0, <2>2, <2>3 DEF Run
  <2>5. run' = [run EXCEPT ![p] = r]
    BY <1>0, <1>4, <2>1, <2>3 DEF Collect
  <2> QED BY <1>0, <1>4, <2>2, <2>4, <2>5, RunStep DEF Collect
<1>5. CASE Delete(p)
  <2>1. PICK gone : gone = Deleted(p)
    OBVIOUS
  <2>2. gone \subseteq Process /\ (p \notin gone => PublishedBy(p) = {})
    BY <1>0, <2>1 DEF Deleted, PublishedBy, TypeOK, Row
  <2>3. PICK r : r = [run[p] EXCEPT !.phase = "publish", !.deleted = gone]
    OBVIOUS
  <2>4. r \in Run /\ r.ranked = run[p].ranked /\ r.deleted = gone
    BY <1>0, <2>2, <2>3 DEF Run
  <2>5. run' = [run EXCEPT ![p] = r]
    BY <1>0, <1>5, <2>1, <2>3 DEF Delete
  <2>6. r.ranked \in CompleteSets
    BY <1>5, <2>4 DEF Delete, Inv, RankedFromMetrics
  <2> QED BY <1>0, <1>5, <2>2, <2>4, <2>5, <2>6, RunStep DEF Delete
<1>6. CASE Publish(p)
  <2>1. /\ run' \in [Process -> Run] /\ run'[p].phase = "finish"
        /\ \A q \in Process \ {p} :
             /\ run'[q].phase = run[q].phase /\ run'[q].ranked = run[q].ranked
             /\ run'[q].deleted = run[q].deleted \ (run[p].deleted \cup {p})
    BY <1>0, <1>6, RunsAfter
  <2>2. run[p].ranked \in CompleteSets
    BY <1>6 DEF Publish, Inv, RankedFromMetrics
  <2>3. /\ PublishedBy(p)' = run[p].ranked
        /\ \A q \in Process \ {p} :
             PublishedBy(q)' = IF q \in run[p].deleted THEN {} ELSE PublishedBy(q)
    BY <1>6, PublishedAfter
  <2>4. ranking' \subseteq Row
    <3>1. Remaining(p) \subseteq Row
      BY <1>0 DEF Remaining, TypeOK
    <3>2. [place : run[p].ranked, by : {p}] \subseteq Row
      BY <1>0 DEF Row
    <3> QED BY <1>6, <3>1, <3>2 DEF Publish
  <2>5. TypeOK'
    BY <1>0, <1>6, <2>1, <2>4 DEF Publish, TypeOK
  <2>6. RankedFromMetrics'
    BY <2>1 DEF Inv, RankedFromMetrics
  <2>7. EachIsComplete'
    <3> SUFFICES ASSUME NEW q \in Process PROVE PublishedBy(q)' \in CompleteSets \cup {{}}
      BY DEF EachIsComplete
    <3>1. PublishedBy(q) \in CompleteSets \cup {{}}
      BY DEF Inv, EachIsComplete
    <3> QED BY <2>2, <2>3, <3>1
  <2>8. SeesItsOwn'
    <3> SUFFICES ASSUME NEW q \in Process, run'[q].phase = "publish", q \notin run'[q].deleted
                 PROVE  PublishedBy(q)' = {}
      BY DEF SeesItsOwn
    <3>1. q # p /\ run[q].phase = "publish"
      BY <2>1
    <3>2. q \in run[p].deleted \/ q \notin run[q].deleted
      BY <2>1, <3>1
    <3>3. q \notin run[q].deleted => PublishedBy(q) = {}
      BY <3>1 DEF Inv, SeesItsOwn
    <3> QED BY <2>3, <3>1, <3>2, <3>3
  <2>9. KeptApart'
    BY <1>6, ApartAfter
  <2> QED BY <2>5, <2>6, <2>7, <2>8, <2>9 DEF Inv
<1>7. CASE Clash(p) \/ Fail(p)
  <2>1. PICK r : r = Over(p, "failed")
    OBVIOUS
  <2>2. r \in Run /\ r.phase = "finish"
    BY <1>0, <2>1, OverType
  <2>3. run' = [run EXCEPT ![p] = r] /\ metric' = metric /\ ranking' = ranking /\ job' = job
    BY <1>7, <2>1 DEF Clash, Fail, Finished
  <2> QED BY <1>0, <2>2, <2>3, RunStep
<1>8. CASE Finish(p) \/ Die(p)
  <2>1. job' \in JobStatus
    BY <1>0, <1>8 DEF Finish, Die, StatusAfter, JobStatus
  <2>2. run' = [run EXCEPT ![p] = Idle] /\ metric' = metric /\ ranking' = ranking
    BY <1>8 DEF Finish, Die
  <2>3. Idle.phase = "idle"
    BY DEF Idle
  <2> QED BY <2>1, <2>2, <2>3, IdleType, RunStep
<1> QED
  BY <1>1, <1>2, <1>3, <1>4, <1>5, <1>6, <1>7, <1>8 DEF Step

LEMMA InvInit == Init => Inv
<1> SUFFICES ASSUME Init PROVE Inv
  OBVIOUS
<1>1. TypeOK
  BY IdleType DEF Init, TypeOK, JobStatus
<1>2. \A p \in Process : PublishedBy(p) = {}
  BY DEF Init, PublishedBy
<1>3. RankedFromMetrics /\ SeesItsOwn
  BY <1>2 DEF Init, RankedFromMetrics, SeesItsOwn, Idle
<1>4. EachIsComplete /\ KeptApart
  BY <1>2 DEF Init, EachIsComplete, KeptApart
<1> QED BY <1>1, <1>3, <1>4 DEF Inv

LEMMA InvStep == Inv /\ [Next]_vars => Inv'
<1> SUFFICES ASSUME Inv, [Next]_vars PROVE Inv'
  OBVIOUS
<1>1. ASSUME NEW p \in Process, Step(p)
      PROVE  Inv'
  BY <1>1, ProcessStep
<1>2. ASSUME ranking' = ranking, metric' \in Metrics, job' \in JobStatus,
             run' \in [Process -> Run],
             \A p \in Process : /\ run'[p].phase = run[p].phase /\ run'[p].ranked = run[p].ranked
                                /\ run'[p].deleted = run[p].deleted
      PROVE  Inv'
  <2>1. \A p \in Process : PublishedBy(p)' = PublishedBy(p)
    BY <1>2 DEF PublishedBy
  <2>2. TypeOK'
    BY <1>2 DEF Inv, TypeOK
  <2>3. RankedFromMetrics' /\ SeesItsOwn'
    BY <1>2, <2>1 DEF Inv, RankedFromMetrics, SeesItsOwn
  <2>4. EachIsComplete' /\ KeptApart'
    BY <1>2, <2>1 DEF Inv, EachIsComplete, KeptApart
  <2> QED BY <2>2, <2>3, <2>4 DEF Inv
<1>3. ASSUME NEW m \in Metrics, Rescore(m)
      PROVE  Inv'
  BY <1>2, <1>3 DEF Rescore, Inv, TypeOK
<1>4. CASE NextSlot
  <2>1. ASSUME NEW p \in Process
        PROVE  /\ run'[p] \in Run /\ run'[p].phase = run[p].phase
               /\ run'[p].ranked = run[p].ranked /\ run'[p].deleted = run[p].deleted
    <3>1. run'[p] = [run[p] EXCEPT !.current = FALSE]
      BY <1>4 DEF NextSlot
    <3>2. run[p] \in Run
      BY DEF Inv, TypeOK
    <3> QED BY <3>1, <3>2 DEF Run
  <2>2. run' \in [Process -> Run]
    BY <1>4, <2>1 DEF NextSlot
  <2>3. ranking' = ranking /\ metric' \in Metrics /\ job' \in JobStatus
    BY <1>4 DEF NextSlot, Inv, TypeOK, JobStatus
  <2> QED BY <1>2, <2>1, <2>2, <2>3
<1>5. CASE UNCHANGED vars
  BY <1>2, <1>5 DEF vars, Inv, TypeOK
<1> QED BY <1>1, <1>3, <1>4, <1>5 DEF Next

-----------------------------------------------------------------------------
(* The theorems *)

\* Every reachable state satisfies the inductive invariant.
THEOREM Invariance == Spec => []Inv
BY InvInit, InvStep, PTL DEF Spec

\* Metrics, rows, job and runs keep their types; in particular a rank lies between one and
\* the number of sites (rankCandidates).
THEOREM TypeCorrect == Spec => []TypeOK
<1>1. Inv => TypeOK
  BY DEF Inv
<1> QED BY <1>1, Invariance, PTL

\* However many runs overlap, are killed or repeat a slot, what is left of a publication has
\* the ranks 1 to n, each once, and no site stands twice on a leaderboard (runRankingJob, and
\* the unique index of current_ranking).
THEOREM LeaderboardsAreWhole == Spec => []PublicationsAreWhole
<1>1. Inv => PublicationsAreWhole
  <2> SUFFICES ASSUME Inv PROVE PublicationsAreWhole
    OBVIOUS
  <2>1. ASSUME NEW p \in Process
        PROVE  Whole(PublishedBy(p))
    <3>1. PublishedBy(p) \in CompleteSets \/ PublishedBy(p) = {}
      BY DEF Inv, EachIsComplete
    <3> QED BY <3>1, CompleteIsPlaces, NothingIsWhole
  <2> QED BY <2>1 DEF Inv, KeptApart, PublicationsAreWhole
<1> QED BY <1>1, Invariance, PTL

\* A general leaderboard of one state of the metrics always shares a site with that of another.
OneSiteStays ==
  \A m, n \in Metrics : \E s \in Site : Belongs(m[s], "global") /\ Belongs(n[s], "global")

PublishedAtOnce == ranking = {} \/ Published \in CompleteSets

\* Only where a site stays on the leaderboards is the whole table what one run computed
\* from one state of the metrics: then an overlapping run always meets the unique index
\* (runRankingJob: "Publish the complete set atomically").
THEOREM OnePublicationIfASiteStays == OneSiteStays => (Spec => []PublishedAtOnce)
<1>1. ASSUME OneSiteStays, Inv
      PROVE  PublishedAtOnce
  <2> SUFFICES ASSUME NEW row \in ranking PROVE Published \in CompleteSets
    BY DEF PublishedAtOnce
  <2>1. \A r \in ranking : r.by \in Process /\ r.place \in PublishedBy(r.by)
    BY <1>1 DEF Inv, TypeOK, Row, PublishedBy
  <2>2. ASSUME NEW r \in ranking
        PROVE  r.by = row.by
    <3> SUFFICES ASSUME r.by # row.by PROVE FALSE
      OBVIOUS
    <3>1. PublishedBy(r.by) \in CompleteSets /\ PublishedBy(row.by) \in CompleteSets
      BY <1>1, <2>1 DEF Inv, EachIsComplete
    <3>2. PICK m \in Metrics, n \in Metrics :
            PublishedBy(r.by) = Leaderboards(m) /\ PublishedBy(row.by) = Leaderboards(n)
      BY <3>1 DEF CompleteSets
    <3>3. PICK s \in Site : s \in Ranked(m, "global") /\ s \in Ranked(n, "global")
      BY <1>1 DEF OneSiteStays, Ranked
    <3>4. PICK a, b : /\ a = [site |-> s, scope |-> "global", rank |-> Rank(m, "global", s)]
                      /\ b = [site |-> s, scope |-> "global", rank |-> Rank(n, "global", s)]
      OBVIOUS
    <3>5. a \in Leaderboards(m) /\ b \in Leaderboards(n)
      BY <3>3, <3>4, Places DEF Scope
    <3>6. PICK x \in ranking, y \in ranking :
            x.by = r.by /\ x.place = a /\ y.by = row.by /\ y.place = b
      BY <3>2, <3>5 DEF PublishedBy
    <3>7. x.place.site = y.place.site /\ x.place.scope = y.place.scope
      BY <3>4, <3>6
    <3> QED BY <1>1, <3>6, <3>7 DEF Inv, KeptApart
  <2>3. Published = PublishedBy(row.by)
    BY <2>2 DEF Published, PublishedBy
  <2> QED BY <1>1, <2>1, <2>3 DEF Inv, EachIsComplete
<1>2. ASSUME OneSiteStays
      PROVE  Spec => []PublishedAtOnce
  BY <1>1, <1>2, Invariance, PTL
<1> QED BY <1>2

-----------------------------------------------------------------------------
(* The refinement of RankingPublication *)

BoardShown == [p \in Process |-> PublishedBy(p)]
BoardSeen == [p \in Process |-> run[p].deleted]

\* A step that leaves the leaderboards alone opens a transaction, gives it up, or does
\* neither.
LEMMA QuietStep ==
  ASSUME TypeOK, NEW p \in Process, NEW r \in Run, run' = [run EXCEPT ![p] = r],
         ranking' = ranking,
         r.deleted = run[p].deleted \/ r.deleted = {} \/ r.deleted = Deleted(p)
  PROVE  [Board!Next]_(Board!board)
<1>1. BoardShown' = BoardShown
  BY DEF BoardShown, PublishedBy
<1>2. BoardSeen' = [BoardSeen EXCEPT ![p] = r.deleted]
  BY DEF BoardSeen, TypeOK
<1>3. CASE r.deleted = run[p].deleted
  <2>1. BoardSeen' = BoardSeen
    BY <1>2, <1>3 DEF BoardSeen
  <2> QED BY <1>1, <2>1 DEF Board!board, BoardShown, BoardSeen
<1>4. CASE r.deleted = {}
  <2>1. Board!GiveUp(p)
    BY <1>1, <1>2, <1>4 DEF Board!GiveUp, BoardShown, BoardSeen
  <2> QED BY <2>1 DEF Board!Next
<1>5. CASE r.deleted = Deleted(p)
  <2>1. Deleted(p) = {q \in Process : BoardShown[q] # {}}
    <3>1. \A row \in ranking : row.by \in Process
      BY DEF TypeOK, Row
    <3>2. \A q \in Process : BoardShown[q] # {} <=> \E row \in ranking : row.by = q
      BY DEF BoardShown, PublishedBy
    <3> QED BY <3>1, <3>2 DEF Deleted
  <2>2. Board!Open(p)
    BY <1>1, <1>2, <1>5, <2>1 DEF Board!Open, BoardShown, BoardSeen
  <2> QED BY <2>2 DEF Board!Next
<1> QED BY <1>3, <1>4, <1>5

LEMMA CommitStep ==
  ASSUME Inv, NEW p \in Process, Publish(p)
  PROVE  Board!Commit(p)
<1>0. TypeOK
  BY DEF Inv
<1>1. /\ PublishedBy(p)' = run[p].ranked
      /\ \A q \in Process \ {p} :
           PublishedBy(q)' = IF q \in run[p].deleted THEN {} ELSE PublishedBy(q)
  BY PublishedAfter
<1>2. BoardShown'[p] \in CompleteSets
  BY <1>1 DEF BoardShown, Publish, Inv, RankedFromMetrics
<1>3. BoardShown' = [q \in Process |-> IF q = p THEN BoardShown'[p]
                                       ELSE IF q \in BoardSeen[p] THEN {} ELSE BoardShown[q]]
  BY <1>1 DEF BoardShown, BoardSeen
<1>4. ASSUME NEW q \in Process \ {p}, NEW a \in BoardShown'[q], NEW b \in BoardShown'[p],
             a.site = b.site
      PROVE  a.scope # b.scope
  <2>1. a \in PublishedBy(q)' /\ b \in PublishedBy(p)'
    BY <1>4 DEF BoardShown
  <2>2. PICK x \in ranking', y \in ranking' : x.by = q /\ x.place = a /\ y.by = p /\ y.place = b
    BY <2>1 DEF PublishedBy
  <2> QED BY <1>4, <2>2, ApartAfter DEF KeptApart
<1>5. BoardSeen' = [q \in Process |-> IF q = p THEN {} ELSE BoardSeen[q] \ (BoardSeen[p] \cup {p})]
  BY <1>0, RunsAfter DEF BoardSeen
<1> QED BY <1>2, <1>3, <1>4, <1>5 DEF Board!Commit, BoardShown, BoardSeen

\* A publication replaces all it found in one step or changes nothing, and what stays beside
\* it was put there meanwhile, whatever runs overlap, fail or are killed between DELETE and
\* commit.
THEOREM ImplementsPublication == Spec => ReplacedAsAWhole
<1>1. Init => Board!Init
  BY DEF Init, Board!Init, PublishedBy, Idle
<1>2. Inv /\ [Next]_vars => [Board!Next]_(Board!board)
  <2> SUFFICES ASSUME Inv, [Next]_vars PROVE [Board!Next]_(Board!board)
    OBVIOUS
  <2>0. TypeOK /\ run \in [Process -> Run]
    BY DEF Inv, TypeOK
  <2>1. ASSUME NEW p \in Process, Publish(p)
        PROVE  [Board!Next]_(Board!board)
    BY <2>1, CommitStep DEF Board!Next
  <2>2. ASSUME NEW p \in Process, Begin(p) \/ Find(p)
        PROVE  [Board!Next]_(Board!board)
    <3>1. PICK r : \/ r = [Idle EXCEPT !.phase = "collect", !.current = TRUE]
                      /\ run' = [run EXCEPT ![p] = r]
                   \/ r = [Idle EXCEPT !.phase = "restart", !.current = TRUE]
                      /\ run' = [run EXCEPT ![p] = r]
      BY <2>2 DEF Begin, Find
    <3>2. r \in Run /\ r.deleted = {}
      BY <3>1 DEF Idle, Run
    <3>3. ranking' = ranking
      BY <2>2 DEF Begin, Find
    <3> QED BY <2>0, <3>1, <3>2, <3>3, QuietStep
  <2>3. ASSUME NEW p \in Process, Restart(p) \/ Collect(p)
        PROVE  [Board!Next]_(Board!board)
    <3>1. \A q \in Process : run'[q].deleted = run[q].deleted
      BY <2>0, <2>3 DEF Restart, Collect, Run
    <3>2. ranking' = ranking
      BY <2>3 DEF Restart, Collect
    <3> QED BY <3>1, <3>2 DEF Board!board, PublishedBy
  <2>4. ASSUME NEW p \in Process, Delete(p)
        PROVE  [Board!Next]_(Board!board)
    <3>1. PICK gone : gone = Deleted(p)
      OBVIOUS
    <3>2. gone \subseteq Process
      BY <2>0, <3>1 DEF Deleted, TypeOK, Row
    <3>3. PICK r : r = [run[p] EXCEPT !.phase = "publish", !.deleted = gone]
      OBVIOUS
    <3>4. r \in Run /\ r.deleted = Deleted(p)
      <4>1. run[p] \in Run
        BY <2>0
      <4> QED BY <3>1, <3>2, <3>3, <4>1 DEF Run
    <3>5. run' = [run EXCEPT ![p] = r] /\ ranking' = ranking
      BY <2>0, <2>4, <3>1, <3>3 DEF Delete
    <3> QED BY <2>0, <3>4, <3>5, QuietStep
  <2>5. ASSUME NEW p \in Process, Clash(p) \/ Fail(p) \/ Finish(p) \/ Die(p)
        PROVE  [Board!Next]_(Board!board)
    <3>1. PICK r : r \in {Over(p, "failed"), Idle} /\ run' = [run EXCEPT ![p] = r]
      BY <2>5 DEF Clash, Fail, Finished, Finish, Die
    <3>2. r \in Run /\ r.deleted = {}
      <4>1. Idle \in Run /\ Idle.deleted = {}
        BY IdleType DEF Idle
      <4> QED BY <2>0, <3>1, <4>1, OverType
    <3>3. ranking' = ranking
      BY <2>5 DEF Clash, Fail, Finish, Die
    <3> QED BY <2>0, <3>1, <3>2, <3>3, QuietStep
  <2>6. ASSUME (\E m \in Metrics : Rescore(m)) \/ NextSlot \/ UNCHANGED vars
        PROVE  [Board!Next]_(Board!board)
    <3>1. \A q \in Process : run'[q].deleted = run[q].deleted
      BY <2>0, <2>6 DEF Rescore, NextSlot, vars, Run
    <3>2. ranking' = ranking
      BY <2>6 DEF Rescore, NextSlot, vars
    <3> QED BY <3>1, <3>2 DEF Board!board, PublishedBy
  <2> QED BY <2>1, <2>2, <2>3, <2>4, <2>5, <2>6 DEF Next, Step
<1> QED BY <1>1, <1>2, Invariance, PTL DEF Spec, ReplacedAsAWhole, Board!Spec

-----------------------------------------------------------------------------
(* The breakout job: BreakoutDetection *)

USE DEF BreakoutState, Public, Closed

\* What an evaluation leaves to the row: its state, the age of activeSince and the cooldown.
EvaluationRow == [state : BreakoutState, since : Age, cooldown : 0..Cooldown]

\* A field left null is of the right type (evaluateBreakout returns activeSince: null).
LEMMA ToType ==
  ASSUME NEW s \in BreakoutState
  PROVE  To(s) \in EvaluationRow
<1>1. Never \in Age /\ 0 \in 0..Cooldown
  BY SpanAssumption, NeverAssumption DEF Age
<1> QED BY <1>1 DEF To, EvaluationRow

\* The rule returns one of the seven states whatever the row and the traffic are.
LEMMA EvaluationType ==
  ASSUME BreakoutTypeOK
  PROVE  Evaluation \in EvaluationRow
<1>0. event.state \in BreakoutState /\ event.since \in Age /\ event.cooldown \in 0..Cooldown
  BY DEF BreakoutTypeOK, EventRow
<1>1. Falling \in EvaluationRow
  <2>1. To("none") \in EvaluationRow
    BY ToType
  <2>2. [To("resolved") EXCEPT !.since = event.since, !.cooldown = Cooldown] \in EvaluationRow
    <3>1. Cooldown \in 0..Cooldown
      BY SpanAssumption, NeverAssumption
    <3> QED BY <1>0, <3>1 DEF To, EvaluationRow
  <2>3. [To("cooling") EXCEPT !.since = event.since] \in EvaluationRow
    <3>1. To("cooling") \in EvaluationRow
      BY ToType
    <3> QED BY <1>0, <3>1 DEF EvaluationRow
  <2> QED BY <2>1, <2>2, <2>3 DEF Falling
<1>2. Rising \in EvaluationRow
  <2> DEFINE since == IF event.since = Never THEN 0 ELSE event.since
             next == IF since < Persistence THEN "watch"
                     ELSE IF signal = "exceptional" THEN "surging" ELSE "breaking_out"
  <2>1. since \in Age
    BY <1>0, SpanAssumption, NeverAssumption DEF Age, Longest
  <2>2. next \in BreakoutState
    OBVIOUS
  <2>3. To(next) \in EvaluationRow
    BY <2>2, ToType
  <2>4. Rising = [To(next) EXCEPT !.since = since]
    BY DEF Rising
  <2> HIDE DEF since, next
  <2> QED BY <2>1, <2>3, <2>4 DEF EvaluationRow
<1>3. [To("resolved") EXCEPT !.cooldown = event.cooldown] \in EvaluationRow
  <2>1. To("resolved") \in EvaluationRow
    BY ToType
  <2> QED BY <1>0, <2>1 DEF EvaluationRow
<1>4. To(IF event.state \in Public THEN "invalidated" ELSE "none") \in EvaluationRow
  <2>1. (IF event.state \in Public THEN "invalidated" ELSE "none") \in BreakoutState
    OBVIOUS
  <2> QED BY <2>1, ToType
<1> QED BY <1>1, <1>2, <1>3, <1>4 DEF Evaluation

\* Ages stay within the span that they are held at.
LEMMA OlderType ==
  ASSUME NEW age \in Age
  PROVE  /\ Older(age) \in Age
         /\ age # Never => Older(age) \in 0..Longest
<1>1. CASE age = Never
  BY <1>1 DEF Older
<1>2. CASE age # Never
  <2>1. age \in 0..Longest /\ Longest \in Nat
    BY <1>2, SpanAssumption, NeverAssumption DEF Age, Longest
  <2>2. Older(age) \in 0..Longest
    BY <2>1, <1>2 DEF Older
  <2> QED BY <2>2, <1>2 DEF Age
<1> QED BY <1>1, <1>2

\* A row is recorded with its types (the insert and the update of runBreakoutJob).
LEMMA RowType ==
  ASSUME BreakoutTypeOK
  PROVE  RowOf(Evaluation) \in EventRow /\ RowOf(Evaluation).state = Evaluation.state
<1> DEFINE ev == Evaluation
<1>1. ev \in EvaluationRow
  BY EvaluationType
<1> HIDE DEF ev
<1>2. ev.state \in BreakoutState /\ ev.since \in Age /\ ev.cooldown \in 0..Cooldown
  BY <1>1 DEF EvaluationRow
<1>3. 0 \in 0..Longest
  BY SpanAssumption, NeverAssumption DEF Longest
<1>4. CASE StartsNewRow
  BY <1>2, <1>3, <1>4 DEF RowOf, EventRow, ev
<1>5. CASE ~StartsNewRow
  <2> DEFINE since == IF ev.since = Never THEN event.since ELSE ev.since
             cooldown == IF ev.state = "resolved" THEN ev.cooldown ELSE event.cooldown
  <2>0. event \in EventRow
    BY DEF BreakoutTypeOK
  <2>1. since \in Age /\ cooldown \in 0..Cooldown
    BY <1>2, <2>0 DEF EventRow
  <2>2. RowOf(ev) = [present |-> event.present, state |-> ev.state, since |-> since,
                   evaluated |-> 0, cooldown |-> cooldown]
    BY <1>5, <2>0 DEF RowOf, EventRow
  <2> HIDE DEF since, cooldown
  <2>3. event.present \in BOOLEAN
    BY <2>0 DEF EventRow
  <2> QED BY <1>2, <1>3, <2>1, <2>2, <2>3 DEF EventRow, ev
<1> QED BY <1>4, <1>5

BreakoutInv == BreakoutTypeOK /\ BadgeIsLatestState /\ (~event.present => event.state = "none")

\* Before the first run there is no row and the badge is "none".
LEMMA BreakoutRowInit ==
  ASSUME BreakoutInit
  PROVE  BreakoutInv
<1>1. 0 \in 0..Longest /\ 0 \in 0..Cooldown /\ Never \in Age
  BY SpanAssumption, NeverAssumption DEF Longest, Age
<1> QED BY <1>1 DEF BreakoutInit, BreakoutInv, BreakoutTypeOK, EventRow, BadgeIsLatestState

\* Every branch of the job, the traffic and the clock preserve the invariant.
LEMMA BreakoutRowStep ==
  ASSUME BreakoutInv, [BreakoutNext]_breakoutVars
  PROVE  BreakoutInv'
<1>0. BreakoutTypeOK /\ event \in EventRow /\ met \in Age /\ 0 \in 0..Longest
  BY SpanAssumption, NeverAssumption DEF BreakoutInv, BreakoutTypeOK, Longest
<1>h. History => met' \in Age
  BY <1>0 DEF History, Age
<1>1. CASE NothingYet
  BY <1>1, <1>h DEF NothingYet, BreakoutInv, BreakoutTypeOK, BadgeIsLatestState
<1>2. CASE StillInCooldown
  <2>1. event' \in EventRow /\ event'.state = event.state /\ event'.present = event.present
    BY <1>0, <1>2 DEF StillInCooldown, EventRow
  <2> QED BY <1>2, <1>h, <2>1 DEF StillInCooldown, BreakoutInv, BreakoutTypeOK, BadgeIsLatestState
<1>3. CASE Record
  <2>1. event' \in EventRow /\ event'.state = Evaluation.state
    BY <1>0, <1>3, RowType DEF Record
  <2>2. badge' = Evaluation.state
    BY <1>3 DEF Record, BadgeOf
  <2>3. event'.present
    BY <1>0, <1>3 DEF Record, RowOf, StartsNewRow, EventRow
  <2> QED BY <1>3, <1>h, <2>1, <2>2, <2>3 DEF Record, BreakoutInv, BreakoutTypeOK, BadgeIsLatestState, EventRow
<1>4. CASE Traffic
  BY <1>4 DEF Traffic, BreakoutInv, BreakoutTypeOK, BadgeIsLatestState
<1>5. CASE NextWindow
  <2>1. Older(event.since) \in Age
    BY <1>0, OlderType DEF EventRow
  <2>2. Older(event.evaluated) \in 0..Longest
    <3>1. event.evaluated \in Age /\ event.evaluated # Never
      BY <1>0, SpanAssumption, NeverAssumption DEF EventRow, Age
    <3> QED BY <3>1, OlderType
  <2>3. (IF event.cooldown = 0 THEN 0 ELSE event.cooldown - 1) \in 0..Cooldown
    BY <1>0, SpanAssumption, NeverAssumption DEF EventRow
  <2>4. event' = [present |-> event.present, state |-> event.state, since |-> Older(event.since),
                  evaluated |-> Older(event.evaluated),
                  cooldown |-> IF event.cooldown = 0 THEN 0 ELSE event.cooldown - 1]
    BY <1>0, <1>5 DEF NextWindow, EventRow
  <2>5. event' \in EventRow /\ event'.state = event.state /\ event'.present = event.present
    BY <1>0, <2>1, <2>2, <2>3, <2>4 DEF EventRow
  <2>6. met' \in Age
    BY <1>0, <1>5, OlderType DEF NextWindow
  <2> QED BY <1>5, <2>5, <2>6 DEF NextWindow, BreakoutInv, BreakoutTypeOK, BadgeIsLatestState
<1>6. CASE UNCHANGED breakoutVars
  BY <1>6 DEF breakoutVars, BreakoutInv, BreakoutTypeOK, BadgeIsLatestState
<1> QED BY <1>1, <1>2, <1>3, <1>4, <1>5, <1>6 DEF BreakoutNext, Evaluate

\* The rows of breakout_event keep their types for any configured spans.
THEOREM BreakoutsTyped == BreakoutSpec => []BreakoutTypeOK
<1>1. BreakoutInit => BreakoutInv
  BY BreakoutRowInit
<1>2. BreakoutInv /\ [BreakoutNext]_breakoutVars => BreakoutInv'
  BY BreakoutRowStep
<1>3. BreakoutInv => BreakoutTypeOK
  BY DEF BreakoutInv
<1> QED BY <1>1, <1>2, <1>3, PTL DEF BreakoutSpec

\* For any configured spans, and whatever runs are missed, failed or forced, the badge on
\* the site is the state of its latest breakout row.
THEOREM BadgeIsTheLatest == BreakoutSpec => []BadgeIsLatestState
<1>1. BreakoutInit => BreakoutInv
  BY BreakoutRowInit
<1>2. BreakoutInv /\ [BreakoutNext]_breakoutVars => BreakoutInv'
  BY BreakoutRowStep
<1>3. BreakoutInv => BadgeIsLatestState
  BY DEF BreakoutInv
<1> QED BY <1>1, <1>2, <1>3, PTL DEF BreakoutSpec
=============================================================================
