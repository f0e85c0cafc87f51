-------------------------- MODULE TrackerKey_proofs --------------------------
(***************************************************************************)
(* Theorems about TrackerKey, for any sets of keys, settings, pages and    *)
(* requests, any window and any number of versions.                        *)
(***************************************************************************)
EXTENDS TrackerKey, TLAPS

\* Versions count from one, and rows that do not exist yet have none.
VersionsCount == \A k \in Key : Exists(k) <=> key[k].version # 0

KeyInv == TypeOK /\ VersionsCount /\ OnlyLatestInUse /\ DomainsFollowSettings

-----------------------------------------------------------------------------
(* Types *)

LEMMA InitKeyInv == Init => KeyInv
  <1> SUFFICES ASSUME Init PROVE KeyInv
    OBVIOUS
  <1>1. settings \in Settings /\ settings.aliases \in Alias
    BY DEF Init, Settings
  <1>2. 1 \in Instant /\ 0 \in 0..MaxVersion
    BY NumberAssumption DEF Instant
  <1>3. \A k \in Key : /\ key[k] \in KeyRow
                       /\ key[k].status = "absent" /\ key[k].version = 0
    BY <1>1, <1>2 DEF Init, KeyRow
  <1>4. key \in [Key -> KeyRow]
    BY <1>3 DEF Init
  <1>5. tab \in [Tab -> Instant] /\ request \in [Request -> Pending \cup {Idle}]
    BY <1>1, <1>2 DEF Init
  <1>6. TypeOK
    BY <1>1, <1>2, <1>4, <1>5 DEF Init, TypeOK
  <1> QED BY <1>3, <1>6 DEF KeyInv, VersionsCount, OnlyLatestInUse, DomainsFollowSettings, Exists, InUse

LEMMA TypeStep == TypeOK /\ [Next]_vars => TypeOK'
  <1> SUFFICES ASSUME TypeOK, [Next]_vars PROVE TypeOK'
    OBVIOUS
  <1> USE NumberAssumption
  <1>1. ASSUME NEW k \in Key, NEW v \in 1..MaxVersion, Generate(k, v) PROVE TypeOK'
    <2>1. NewKey(v) \in KeyRow
      BY DEF NewKey, KeyRow, TypeOK, Settings
    <2>2. key' \in [Key -> KeyRow]
      BY <1>1, <2>1 DEF Generate, TypeOK
    <2> QED BY <1>1, <2>2 DEF Generate, TypeOK
  <1>2. ASSUME NEW k \in Key, NEW v \in 1..MaxVersion, Rotate(k, v) PROVE TypeOK'
    <2>1. NewKey(v) \in KeyRow
      BY DEF NewKey, KeyRow, TypeOK, Settings
    <2>2. \A j \in Key : [key[j] EXCEPT !.status = "revoked"] \in KeyRow /\ key[j] \in KeyRow
      BY DEF TypeOK, KeyRow
    <2>3. key' \in [Key -> KeyRow]
      BY <1>2, <2>1, <2>2 DEF Rotate
    <2> QED BY <1>2, <2>3 DEF Rotate, TypeOK
  <1>3. ASSUME NEW k \in Key, Revoke(k) PROVE TypeOK'
    <2>1. key' \in [Key -> KeyRow]
      BY <1>3 DEF Revoke, TypeOK, KeyRow
    <2> QED BY <1>3, <2>1 DEF Revoke, TypeOK
  <1>4. ASSUME NEW k \in Key, MarkStale(k) PROVE TypeOK'
    <2>1. key' \in [Key -> KeyRow]
      BY <1>4 DEF MarkStale, TypeOK, KeyRow
    <2> QED BY <1>4, <2>1 DEF MarkStale, TypeOK
  <1>5. ASSUME NEW t \in Tab, LoadTab(t) PROVE TypeOK'
    <2>1. tab' \in [Tab -> Instant]
      BY <1>5 DEF LoadTab, TypeOK
    <2> QED BY <1>5, <2>1 DEF LoadTab, TypeOK
  <1>6. ASSUME NEW t \in Tab, NEW s \in Settings, Save(t, s) PROVE TypeOK'
    <2>1. tab' \in [Tab -> Instant]
      BY <1>6 DEF Save, TypeOK
    <2>2. \A k \in Key : key[k] \in KeyRow /\ [key[k] EXCEPT !.domains = s.aliases] \in KeyRow
      BY DEF Settings, TypeOK, KeyRow
    <2>3. key' \in [Key -> KeyRow]
      BY <1>6, <2>2 DEF Save
    <2> QED BY <1>6, <2>1, <2>3 DEF Save, TypeOK
  <1>7. ASSUME NEW l \in Listing, UpdateCategory(l) PROVE TypeOK'
    <2>1. settings' \in Settings
      BY <1>7 DEF UpdateCategory, TypeOK, Settings
    <2> QED BY <1>7, <2>1 DEF UpdateCategory, TypeOK
  <1>8. ASSUME NEW st \in {"active", "rejected", "suspended"}, ModerateSite(st) PROVE TypeOK'
    BY <1>8 DEF ModerateSite, TypeOK
  <1>9. ASSUME NEW q \in Request, NEW k \in Key, Accept(q, k) PROVE TypeOK'
    <2>1. request' \in [Request -> Pending \cup {Idle}]
      BY <1>9 DEF Accept, TypeOK, Pending
    <2> QED BY <1>9, <2>1 DEF Accept, TypeOK
  <1>10. ASSUME NEW q \in Request, Ingest(q) PROVE TypeOK'
    <2>1. request[q] \in Pending
      BY <1>10 DEF Ingest, TypeOK
    <2>2. request[q].key \in Key /\ request[q].receivedAt \in Instant
      BY <2>1 DEF Pending
    <2>3. key' \in [Key -> KeyRow]
      <3> DEFINE k == request[q].key
                 row == [key[k] EXCEPT !.status = "active", !.lastEvent = request[q].receivedAt]
      <3>1. row \in KeyRow /\ key \in [Key -> KeyRow]
        <4>1. key[k] \in KeyRow /\ key \in [Key -> KeyRow]
          BY <2>2 DEF TypeOK
        <4>2. ASSUME NEW r \in KeyRow, NEW at \in Instant
              PROVE  [r EXCEPT !.status = "active", !.lastEvent = at] \in KeyRow
          BY DEF KeyRow
        <4> QED BY <2>2, <4>1, <4>2
      <3>2. key' = key \/ key' = [key EXCEPT ![k] = row]
        BY <1>10 DEF Ingest
      <3> HIDE DEF k, row
      <3> QED BY <3>1, <3>2
    <2>4. request' \in [Request -> Pending \cup {Idle}]
      BY <1>10 DEF Ingest, TypeOK
    <2> QED BY <1>10, <2>2, <2>3, <2>4 DEF Ingest, TypeOK
  <1>11. ASSUME NEW q \in Request, RequestFails(q) PROVE TypeOK'
    <2>1. request' \in [Request -> Pending \cup {Idle}]
      BY <1>11 DEF RequestFails, TypeOK
    <2> QED BY <1>11, <2>1 DEF RequestFails, TypeOK
  <1>12. CASE ListStale \/ AggregationDies
    BY <1>12 DEF ListStale, AggregationDies, TypeOK
  <1>13. CASE Tick
    BY <1>13 DEF Tick, TypeOK, Instant
  <1>14. CASE UNCHANGED vars
    BY <1>14 DEF TypeOK, vars
  <1> QED BY <1>1, <1>2, <1>3, <1>4, <1>5, <1>6, <1>7, <1>8, <1>9, <1>10, <1>11, <1>12, <1>13, <1>14
          DEF Next

-----------------------------------------------------------------------------
(* Keys *)

\* Only a save, a rotation or a generation gives a key its domains, only the last
\* two give versions, and no other step puts a key into use or out of revocation.
LEMMA KeyFrame ==
  ASSUME TypeOK, [Next]_vars,
         ~ \E k \in Key, v \in 1..MaxVersion : Generate(k, v) \/ Rotate(k, v)
  PROVE  \A k \in Key :
           /\ key'[k].version = key[k].version
           /\ key'[k].status = "absent" <=> key[k].status = "absent"
           /\ key[k].status = "revoked" => key'[k].status = "revoked"
           /\ key'[k].domains = key[k].domains \/ \E t \in Tab, s \in Settings : Save(t, s)
  <1> DEFINE Kept == \A k \in Key :
           /\ key'[k].version = key[k].version
           /\ key'[k].status = "absent" <=> key[k].status = "absent"
           /\ key[k].status = "revoked" => key'[k].status = "revoked"
           /\ key'[k].domains = key[k].domains \/ \E t \in Tab, s \in Settings : Save(t, s)
  <1> SUFFICES Kept
    OBVIOUS
  <1>1. ASSUME NEW k \in Key, Revoke(k) PROVE Kept
    BY <1>1 DEF Revoke, InUse, TypeOK, KeyRow
  <1>2. ASSUME NEW k \in Key, MarkStale(k) PROVE Kept
    BY <1>2 DEF MarkStale, TypeOK, KeyRow
  <1>3. ASSUME NEW t \in Tab, NEW s \in Settings, Save(t, s) PROVE Kept
    BY <1>3 DEF Save, TypeOK, KeyRow
  <1>4. ASSUME NEW q \in Request, Ingest(q) PROVE Kept
    <2>1. request[q].key \in Key
      BY <1>4 DEF Ingest, TypeOK, Pending
    <2> QED BY <1>4, <2>1 DEF Ingest, InUse, TypeOK, KeyRow
  <1>5. CASE UNCHANGED key
    BY <1>5
  <1> QED BY <1>1, <1>2, <1>3, <1>4, <1>5
          DEF Next, LoadTab, UpdateCategory, ModerateSite, Accept, RequestFails, ListStale, AggregationDies,
              Tick, vars

\* A new version is above all others, and all of those are revoked with it.
LEMMA NewVersionStep ==
  ASSUME KeyInv, NEW k \in Key, NEW v \in 1..MaxVersion, Generate(k, v) \/ Rotate(k, v)
  PROVE  /\ key'[k] = NewKey(v)
         /\ \A j \in Key \ {k} :
              /\ key'[j].version = key[j].version /\ key'[j].version < v
              /\ key'[j].status \in {"absent", "revoked"}
              /\ key'[j].status = "absent" <=> key[j].status = "absent"
              /\ key[j].status = "revoked" => key'[j].status = "revoked"
  <1>1. /\ \A j \in Key : key[j].version < v /\ key[j].version \in Nat
        /\ v = 1 \/ \E j \in Key : key[j].version = v - 1
    BY NumberAssumption DEF Generate, Rotate, IsNext, KeyInv, TypeOK, KeyRow
  <1>2. \A j \in Key : Exists(j) /\ ~Current(j, v) => key[j].status = "revoked"
    <2> SUFFICES ASSUME NEW j \in Key, Exists(j), ~Current(j, v) PROVE key[j].status = "revoked"
      OBVIOUS
    <2>1. key[j].version # 0 /\ key[j].version # v - 1
      BY DEF KeyInv, VersionsCount, Exists, Current
    <2>2. PICK i \in Key : key[i].version = v - 1
      BY <1>1, <2>1
    <2>3. i # j /\ key[j].version < key[i].version /\ key[i].version # 0
      BY <1>1, <2>1, <2>2
    <2>4. Exists(i)
      BY <2>3 DEF KeyInv, VersionsCount
    <2> QED BY <2>3, <2>4 DEF KeyInv, OnlyLatestInUse
  <1>3. \A j \in Key : key[j].status \in {"absent", "active", "stale", "revoked"}
    BY DEF KeyInv, TypeOK, KeyRow
  <1>4. CASE Generate(k, v)
    BY <1>1, <1>2, <1>3, <1>4 DEF Generate, Current, InUse, Exists, KeyInv, TypeOK
  <1>5. CASE Rotate(k, v)
    BY <1>1, <1>2, <1>3, <1>5 DEF Rotate, Current, Exists, KeyInv, TypeOK, KeyRow
  <1> QED BY <1>4, <1>5

LEMMA KeyInvStep == KeyInv /\ [Next]_vars => KeyInv'
  <1> SUFFICES ASSUME KeyInv, [Next]_vars PROVE KeyInv'
    OBVIOUS
  <1>1. TypeOK'
    BY TypeStep DEF KeyInv
  <1>2. ASSUME NEW k \in Key, NEW v \in 1..MaxVersion, Generate(k, v) \/ Rotate(k, v)
        PROVE  VersionsCount' /\ OnlyLatestInUse' /\ DomainsFollowSettings'
    <2>1. settings' = settings
      BY <1>2 DEF Generate, Rotate
    <2>2. /\ key'[k].status = "active" /\ key'[k].version = v /\ key'[k].domains = settings.aliases
          /\ v \in Nat \ {0}
      <3>1. key'[k] = NewKey(v)
        BY <1>2, NewVersionStep
      <3>2. v \in Nat \ {0}
        BY NumberAssumption
      <3> QED BY <3>1, <3>2 DEF NewKey
    <2>3. \A j \in Key \ {k} : /\ key'[j].version = key[j].version /\ key'[j].version < v
                               /\ key'[j].status \in {"absent", "revoked"}
                               /\ key'[j].status = "absent" <=> key[j].status = "absent"
                               /\ key[j].version \in Nat
      BY <1>2, NewVersionStep, NumberAssumption DEF KeyInv, TypeOK, KeyRow
    <2>4. VersionsCount'
      BY <2>2, <2>3 DEF VersionsCount, KeyInv, Exists
    <2>5. OnlyLatestInUse'
      BY <2>2, <2>3 DEF OnlyLatestInUse, KeyInv, Exists
    <2>6. DomainsFollowSettings'
      BY <2>1, <2>2, <2>3 DEF DomainsFollowSettings, InUse
    <2> QED BY <2>4, <2>5, <2>6
  <1>3. ASSUME ~ \E k \in Key, v \in 1..MaxVersion : Generate(k, v) \/ Rotate(k, v)
        PROVE  VersionsCount' /\ OnlyLatestInUse'
    BY <1>3, KeyFrame DEF KeyInv, VersionsCount, OnlyLatestInUse, Exists
  <1>4. ASSUME NEW t \in Tab, NEW s \in Settings, Save(t, s) PROVE DomainsFollowSettings'
    <2>1. \A k \in Key : InUse(k)' => key'[k].domains = s.aliases
      BY <1>4 DEF Save, TakesAliases, InUse, KeyInv, TypeOK, KeyRow
    <2> QED BY <1>4, <2>1 DEF DomainsFollowSettings, Save
  <1>5. ASSUME ~ \E k \in Key, v \in 1..MaxVersion : Generate(k, v) \/ Rotate(k, v),
               ~ \E t \in Tab, s \in Settings : Save(t, s)
        PROVE  DomainsFollowSettings'
    <2>1. settings'.aliases = settings.aliases
      BY <1>5 DEF Next, Revoke, MarkStale, LoadTab, UpdateCategory, ModerateSite, Accept, Ingest, RequestFails,
                  ListStale, AggregationDies, Tick, vars, KeyInv, TypeOK, Settings
    <2>2. \A k \in Key : InUse(k)' => InUse(k)
      BY <1>1, <1>5, KeyFrame DEF InUse, KeyInv, TypeOK, KeyRow
    <2> QED BY <1>5, <2>1, <2>2, KeyFrame DEF DomainsFollowSettings, KeyInv
  <1> QED BY <1>1, <1>2, <1>3, <1>4, <1>5 DEF KeyInv

\* Every reachable state is well typed.
THEOREM TypeCorrect == Spec => []TypeOK
  <1>1. KeyInv => TypeOK
    BY DEF KeyInv
  <1> QED BY InitKeyInv, KeyInvStep, <1>1, PTL DEF Spec

\* A site has at most one key in use, the one with the highest version, and no two
\* keys with the same version.
THEOREM LatestKeyInUse == Spec => []OnlyLatestInUse
  <1>1. KeyInv => OnlyLatestInUse
    BY DEF KeyInv
  <1> QED BY InitKeyInv, KeyInvStep, <1>1, PTL DEF Spec

\* The collector judges origins by the aliases in the current settings.
THEOREM DomainsAreCurrent == Spec => []DomainsFollowSettings
  <1>1. KeyInv => DomainsFollowSettings
    BY DEF KeyInv
  <1> QED BY InitKeyInv, KeyInvStep, <1>1, PTL DEF Spec

\* No late event and no aggregation revives a revoked key.
THEOREM RevokedForGood == Spec => RevocationIsFinal
  <1>1. KeyInv /\ [Next]_vars =>
          [\A k \in Key : key[k].status = "revoked" => key'[k].status = "revoked"]_vars
    <2> SUFFICES ASSUME KeyInv, [Next]_vars, NEW k \in Key, key[k].status = "revoked"
                 PROVE  key'[k].status = "revoked"
      OBVIOUS
    <2>1. ASSUME NEW j \in Key, NEW v \in 1..MaxVersion, Generate(j, v) \/ Rotate(j, v)
          PROVE  key'[k].status = "revoked"
      <3>1. j # k
        BY <2>1 DEF Generate, Rotate
      <3> QED BY <2>1, <3>1, NewVersionStep
    <2> QED BY <2>1, KeyFrame DEF KeyInv
  <1> QED BY InitKeyInv, KeyInvStep, <1>1, PTL DEF Spec, RevocationIsFinal
=============================================================================
