----------------------------- MODULE TrackerKey -----------------------------
(***************************************************************************)
(* Tracker keys and listing settings of one claimed site.                  *)
(*                                                                         *)
(* Owners generate, rotate and revoke the key of the site's tracker and    *)
(* save its settings, whose aliases are copied into the key, while events  *)
(* accepted earlier are still being stored, the aggregation marks silent   *)
(* keys as stale and moderators act.  Sites share none of this.            *)
(***************************************************************************)
EXTENDS Naturals

CONSTANTS Key, NoKey,  \* ids of table tracker_key
          Alias,       \* values of site.permittedAliases
          Listing,     \* values of everything else the settings page saves
          Tab,         \* open settings pages
          Request,     \* collector requests that may be under way at once
          MaxVersion,  \* bound: versions a site goes through
          MaxInstant,  \* bound: what the clock reaches
          Window       \* two session TTLs

ASSUME KeyAssumption == NoKey \notin Key
ASSUME NumberAssumption == MaxVersion \in Nat /\ MaxInstant \in Nat \ {0} /\ Window \in Nat

VARIABLES now,       \* milliseconds, or as coarse as the model needs
          status,    \* moderation status of the site
          settings,  \* what the settings page shows of row site
          updatedAt, \* site.updatedAt, the token of the settings page
            \* history: when the settings were last written
          key,       \* key[k]: row k of tracker_key
          request,   \* request[q]: an event that is accepted and not yet stored
          listed,    \* the keys that the running aggregation has found silent
          notice,    \* the activity feed says that no event arrived in the window
          tab        \* tab[t]: the token that settings page t has loaded

vars == <<now, status, settings, updatedAt, key, request, listed, notice, tab>>

Never == 0
Instant == 1..MaxInstant
Settings == [aliases : Alias, listing : Listing]

\* 'pending' and 'rotated' are in the enum and written by no code.
KeyRow == [status    : {"absent", "active", "stale", "revoked"},
           version   : 0..MaxVersion,
           domains   : Alias,
           lastEvent : Instant \cup {Never}]

Pending == [key : Key, receivedAt : Instant]

Idle == [key |-> NoKey, receivedAt |-> Never]

\* A claimed site with a settings page already open in every tab.
Init ==
  /\ now = 1
  /\ status = "active"
  /\ settings \in Settings
  /\ updatedAt = 1
  /\ key = [k \in Key |-> [status |-> "absent", version |-> 0,
                           domains |-> settings.aliases, lastEvent |-> Never]]
  /\ request = [q \in Request |-> Idle]
  /\ listed = {}
  /\ notice = FALSE
  /\ tab = [t \in Tab |-> 1]

-----------------------------------------------------------------------------
(* Key management: one transaction under the lock of the site row *)

\* Mutant: the row is there, whatever its status.
Exists(k) == key[k].status # "absent"

InUse(k) == key[k].status \in {"active", "stale"}

\* Mutant: the current version is looked up among the keys in use.
AfterKeyInUse(v) ==
  /\ \A k \in Key : InUse(k) => key[k].version < v
  /\ v = 1 \/ \E k \in Key : InUse(k) /\ key[k].version = v - 1

\* v follows the highest version so far, which revoked keys keep.
IsNext(v) ==
  /\ \A k \in Key : key[k].version < v
  /\ v = 1 \/ \E k \in Key : key[k].version = v - 1

Current(k, v) == key[k].status # "absent" /\ key[k].version = v - 1

NewKey(v) ==
  [status |-> "active", version |-> v, domains |-> settings.aliases, lastEvent |-> Never]

\* mutateTrackerKey "generate": does nothing while the current key is in use.
Generate(k, v) ==
  /\ status = "active"
  /\ key[k].status = "absent"
  /\ IsNext(v)
  /\ \A j \in Key : Current(j, v) => ~InUse(j)
  /\ key' = [key EXCEPT ![k] = NewKey(v)]
  /\ UNCHANGED <<now, status, settings, updatedAt, request, listed, notice, tab>>

\* mutateTrackerKey "rotate"
Rotate(k, v) ==
  /\ status = "active"
  /\ key[k].status = "absent"
  /\ IsNext(v)
  /\ key' = [j \in Key |-> IF j = k THEN NewKey(v)
                           ELSE IF Current(j, v) THEN [key[j] EXCEPT !.status = "revoked"]
                           ELSE key[j]]
  /\ UNCHANGED <<now, status, settings, updatedAt, request, listed, notice, tab>>

\* revokeTrackerKey
Revoke(k) ==
  /\ status = "active"
  /\ InUse(k)
  /\ \A j \in Key : InUse(j) => key[j].version <= key[k].version
  /\ key' = [key EXCEPT ![k].status = "revoked"]
  /\ UNCHANGED <<now, status, settings, updatedAt, request, listed, notice, tab>>

-----------------------------------------------------------------------------
(* Settings and moderation *)

\* GET settings
LoadTab(t) ==
  /\ tab' = [tab EXCEPT ![t] = updatedAt]
  /\ UNCHANGED <<now, status, settings, updatedAt, key, request, listed, notice>>

\* Mutant: a stale key is forgotten.
IsActive(k) == key[k].status = "active"

\* The rows that the saved aliases are copied into.
TakesAliases(k) == key[k].status \in {"active", "stale"}

\* PATCH settings; a page with another token is refused and nothing changes.
Save(t, s) ==
  /\ tab[t] = updatedAt
  /\ settings' = s
  /\ updatedAt' = now
  /\ key' = [k \in Key |-> IF TakesAliases(k) THEN [key[k] EXCEPT !.domains = s.aliases] ELSE key[k]]
  /\ tab' = [tab EXCEPT ![t] = now]
  /\ UNCHANGED <<now, status, request, listed, notice>>

\* updateSiteCategory
UpdateCategory(l) ==
  /\ settings' = [settings EXCEPT !.listing = l]
  /\ updatedAt' = now
  /\ UNCHANGED <<now, status, key, request, listed, notice, tab>>

\* moderateSite
ModerateSite(st) ==
  /\ status' = st
  /\ updatedAt' = now
  /\ UNCHANGED <<now, settings, key, request, listed, notice, tab>>

-----------------------------------------------------------------------------
(* Events *)

\* collectTrackerRequest: the key is looked up, the event judged valid and dated.
Accept(q, k) ==
  /\ request[q] = Idle
  /\ InUse(k)
  /\ status = "active"
  /\ request' = [request EXCEPT ![q] = [key |-> k, receivedAt |-> now]]
  /\ UNCHANGED <<now, status, settings, updatedAt, key, listed, notice, tab>>

\* ingest, of which markTrackerConnected is the part that matters here: the key is
\* only touched while in use, the site always.
Ingest(q) ==
  /\ request[q] # Idle
  /\ key' = IF InUse(request[q].key)
              THEN [key EXCEPT ![request[q].key] =
                     [@ EXCEPT !.status = "active", !.lastEvent = request[q].receivedAt]]
              ELSE key
  /\ updatedAt' = request[q].receivedAt
  /\ request' = [request EXCEPT ![q] = Idle]
  /\ UNCHANGED <<now, status, settings, listed, notice, tab>>

\* The transaction fails or its process dies; the tracker does not send again.
RequestFails(q) ==
  /\ request[q] # Idle
  /\ request' = [request EXCEPT ![q] = Idle]
  /\ UNCHANGED <<now, status, settings, updatedAt, key, listed, notice, tab>>

-----------------------------------------------------------------------------
(* Aggregation *)

Silent(k) == key[k].lastEvent # Never => key[k].lastEvent + Window < now

\* runTrafficAggregation first selects the active keys that have fallen silent.
ListStale ==
  /\ listed = {}
  /\ listed' = {k \in Key : key[k].status = "active" /\ key[k].lastEvent # Never /\ Silent(k)}
  /\ UNCHANGED <<now, status, settings, updatedAt, key, request, notice, tab>>

\* Then each is marked, in a transaction of its own, and a notice posted unless
\* the last day has seen one.
MarkStale(k) ==
  /\ k \in listed
  /\ key' = IF key[k].status = "active" THEN [key EXCEPT ![k].status = "stale"] ELSE key
  /\ notice' = TRUE
  /\ listed' = listed \ {k}
  /\ UNCHANGED <<now, status, settings, updatedAt, request, tab>>

\* The job dies.
AggregationDies ==
  /\ listed # {}
  /\ listed' = {}
  /\ UNCHANGED <<now, status, settings, updatedAt, key, request, notice, tab>>

Tick ==
  /\ now < MaxInstant
  /\ now' = now + 1
  /\ UNCHANGED <<status, settings, updatedAt, key, request, listed, notice, tab>>

Next ==
  \/ \E k \in Key, v \in 1..MaxVersion : Generate(k, v) \/ Rotate(k, v)
  \/ \E k \in Key : Revoke(k) \/ MarkStale(k)
  \/ \E t \in Tab : LoadTab(t) \/ \E s \in Settings : Save(t, s)
  \/ \E l \in Listing : UpdateCategory(l)
  \/ \E st \in {"active", "rejected", "suspended"} : ModerateSite(st)
  \/ \E q \in Request, k \in Key : Accept(q, k)
  \/ \E q \in Request : Ingest(q) \/ RequestFails(q)
  \/ ListStale \/ AggregationDies \/ Tick

Spec == Init /\ [][Next]_vars

-----------------------------------------------------------------------------
(* Correctness *)

\* Every variable keeps its type; the enum values nobody writes do not appear.
TypeOK ==
  /\ now \in Instant /\ updatedAt \in Instant
  /\ status \in {"active", "rejected", "suspended"}
  /\ settings \in Settings
  /\ key \in [Key -> KeyRow]
  /\ request \in [Request -> Pending \cup {Idle}]
  /\ listed \subseteq Key
  /\ notice \in BOOLEAN
  /\ tab \in [Tab -> Instant]

\* No version is given twice, and every key but the latest is revoked, whatever
\* rotations, revocations, late events and aggregations come between.
OnlyLatestInUse ==
  \A j, k \in Key : j # k /\ Exists(j) /\ Exists(k) =>
    /\ key[j].version # key[k].version
    /\ key[j].version < key[k].version => key[j].status = "revoked"

\* A key in use admits the domains of the current settings, whichever of a save and
\* a rotation came last, and whether the key was active or stale at the time.
DomainsFollowSettings ==
  \A k \in Key : InUse(k) => key[k].domains = settings.aliases

\* A revoked key stays revoked, although events it was good for may arrive later
\* and the aggregation may have it on its list.
RevocationIsFinal ==
  [][\A k \in Key : key[k].status = "revoked" => key'[k].status = "revoked"]_vars
=============================================================================
