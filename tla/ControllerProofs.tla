-------------------------- MODULE ControllerProofs --------------------------
(***************************************************************************)
(* What a run computes is sound, every step of the controller, its users   *)
(* and its server keeps the types, the controller keeps to what is its     *)
(* own, the managed entry is always sound, and the controller publishes as *)
(* Publisher promises.                                                     *)
(***************************************************************************)
EXTENDS ControllerProperties, ZoneClaimsProofs

-----------------------------------------------------------------------------
(* What one run computes from what it has read: every decision, status and *)
(* fragment has its type, and a fragment never serves a zone twice or a    *)
(* reserved zone.                                                          *)

Items == [Names -> MaybeObject]

LEMMA ZoneForms ==
    ASSUME NEW z \in Zone
    PROVE  /\ Canonical(z) \in Zone /\ Dotless(z) \in Zone
           /\ Canonical(Canonical(z)) = Canonical(z)
           /\ Canonical(Dotless(z)) = Canonical(z)
BY DEF Zone, Canonical, Dotless

LEMMA ListedObjects ==
    ASSUME NEW items \in Items, NEW n \in Present(items)
    PROVE  n \in Names /\ items[n] \in Object /\ items[n].spec \in Specs
BY DEF Items, Present, MaybeObject, Object

LEMMA ClaimsTyped ==
    ASSUME NEW items \in Items
    PROVE  Claims(items) \subseteq [name : Names, created : Times, zones : SUBSET Zone]
BY ListedObjects, SpecsAssumption DEF Claims, ClaimOf, Object

LEMMA ClaimsOrderly ==
    ASSUME NEW items \in Items
    PROVE  Orderly(Claims(items))
<1>1. \A c \in Claims(items) : c.name \in Nat /\ c.created \in Nat
  BY ClaimsTyped, NamesAssumption, TimesAssumption
<1>2. \A c, d \in Claims(items) : c.name = d.name => c = d
  BY DEF Claims, ClaimOf
<1> QED BY <1>1, <1>2 DEF Orderly

LEMMA CandidatesOrderly ==
    ASSUME NEW items \in Items, NEW served
    PROVE  /\ Candidates(Claims(items), served, ClusterDomain) \subseteq Claims(items)
           /\ Orderly(Candidates(Claims(items), served, ClusterDomain))
BY ClaimsOrderly DEF Candidates, Orderly

\* The winners among the claims of a list are claims of that list, free of
\* reserved zones, and no two of them overlap.
LEMMA ListWinners ==
    ASSUME NEW items \in Items, NEW served,
           NEW C, C = Candidates(Claims(items), served, ClusterDomain)
    PROVE  /\ Winners(C) \subseteq Claims(items)
           /\ \A c \in Winners(C) : ReservedOf(c, ClusterDomain) = {}
           /\ \A c, d \in Winners(C) : Overlap(c, d) => c = d
<1>1. C \subseteq Claims(items) /\ Orderly(C)
  BY CandidatesOrderly
<1>2. Winners(C) \in SUBSET C
  BY <1>1, WinnersStable
<1>3. \A c \in C : ReservedOf(c, ClusterDomain) = {}
  BY DEF Candidates
<1> QED BY <1>1, <1>2, <1>3, WinnersDisjoint

LEMMA AcceptedListed ==
    ASSUME NEW items \in Items, NEW core, NEW cm
    PROVE  AcceptedNames(items, core, cm) \subseteq Present(items)
<1> DEFINE C == Candidates(Claims(items), Served(Inspected(core, cm).listeners), ClusterDomain)
<1>1. Winners(C) \subseteq Claims(items)
  BY ListWinners
<1>2. \A c \in Claims(items) : c.name \in Present(items)
  BY DEF Claims, ClaimOf
<1> QED BY <1>1, <1>2 DEF AcceptedNames

\* The claim of an accepted name is a winner.
LEMMA AcceptedWinners ==
    ASSUME NEW items \in Items, NEW core, NEW cm, NEW n \in AcceptedNames(items, core, cm)
    PROVE  ClaimOf(n, items[n]) \in
             Winners(Candidates(Claims(items), Served(Inspected(core, cm).listeners), ClusterDomain))
<1> DEFINE C == Candidates(Claims(items), Served(Inspected(core, cm).listeners), ClusterDomain)
<1>1. PICK c \in Winners(C) : c.name = n
  BY DEF AcceptedNames
<1>2. c \in Claims(items)
  BY ListWinners
<1>3. c = ClaimOf(n, items[n])
  BY <1>1, <1>2 DEF Claims, ClaimOf
<1> QED BY <1>1, <1>3

-----------------------------------------------------------------------------
(* The fragment.                                                           *)

LEMMA BlockTyped ==
    ASSUME NEW n \in Names, NEW o \in Object
    PROVE  Block(RenderRoute(n, o)) \in Blocks(Names)
<1>1. o.spec \in Specs /\ o.gen \in Nat
  BY DEF Object
<1>2. o.spec.zones \subseteq Zone /\ o.spec.upstreams \in Seq(Upstream)
  BY <1>1, SpecsAssumption
<1>3. ZoneKeys(o.spec.zones) \subseteq Zone
  BY <1>2, ZoneForms DEF ZoneKeys
<1>4. \A u \in Upstream : UpstreamAddr(u) \in Upstream
  BY DEF UpstreamAddr, Upstream
<1>5. [i \in DOMAIN o.spec.upstreams |-> UpstreamAddr(o.spec.upstreams[i])] \in Seq(Upstream)
  BY <1>2, <1>4
<1> QED BY <1>1, <1>3, <1>5 DEF Block, RenderRoute, Blocks

LEMMA FragmentTyped ==
    ASSUME NEW items \in Items, NEW core, NEW cm
    PROVE  FragmentFor(items, core, cm) \subseteq Blocks(Names)
<1>1. \A n \in AcceptedNames(items, core, cm) : n \in Names /\ items[n] \in Object
  BY AcceptedListed, ListedObjects
<1> QED BY <1>1, BlockTyped DEF FragmentFor, Render

\* The keys of a block are the zones of its route.
LEMMA KeysAreZones ==
    ASSUME NEW items \in Items, NEW n \in Present(items),
           NEW k \in Block(RenderRoute(n, items[n])).keys
    PROVE  Canonical(k) \in CanonicalZones(ClaimOf(n, items[n]))
<1>1. k \in ZoneKeys(items[n].spec.zones)
  BY DEF Block, RenderRoute
<1>2. PICK z \in items[n].spec.zones : k = Dotless(Canonical(z))
  BY <1>1 DEF ZoneKeys
<1>3. z \in Zone
  BY ListedObjects, SpecsAssumption
<1>4. Canonical(k) = Canonical(z)
  BY <1>2, <1>3, ZoneForms
<1> QED BY <1>2, <1>4 DEF CanonicalZones, ClaimOf

\* Whatever a run has read, what it renders serves no zone twice and none
\* inside the cluster domain.
THEOREM FragmentForSound ==
    ASSUME NEW items \in Items, NEW core, NEW cm
    PROVE  Sound(FragmentFor(items, core, cm))
<1> DEFINE C == Candidates(Claims(items), Served(Inspected(core, cm).listeners), ClusterDomain)
           N == AcceptedNames(items, core, cm)
           B(n) == Block(RenderRoute(n, items[n]))
           Claim(n) == ClaimOf(n, items[n])
<1>1. /\ \A n \in N : n \in Present(items) /\ Claim(n) \in Winners(C)
      /\ \A c \in Winners(C) : ReservedOf(c, ClusterDomain) = {}
      /\ \A c, d \in Winners(C) : Overlap(c, d) => c = d
  BY AcceptedListed, AcceptedWinners, ListWinners
<1>2. FragmentFor(items, core, cm) = {B(n) : n \in N}
  BY DEF FragmentFor, Render
<1>3. \A n \in N : \A k \in B(n).keys : Canonical(k) \in CanonicalZones(Claim(n))
  BY <1>1, KeysAreZones
<1> HIDE DEF C, N, B
<1>4. ASSUME NEW n \in N, NEW k \in B(n).keys
      PROVE  ~InDomain(Canonical(k), ClusterDomain)
  BY <1>1, <1>3 DEF ReservedOf
<1>5. ASSUME NEW m \in N, NEW n \in N, B(m) # B(n), NEW k \in B(m).keys \cap B(n).keys
      PROVE  FALSE
  <2>1. Overlap(Claim(m), Claim(n))
    BY <1>3 DEF Overlap
  <2>2. Claim(m) = Claim(n)
    BY <1>1, <2>1
  <2>3. m = n
    BY <2>2 DEF ClaimOf
  <2> QED BY <1>5, <2>3
<1> QED BY <1>2, <1>4, <1>5 DEF Sound

-----------------------------------------------------------------------------
(* Verdicts and statuses.                                                  *)

LEMMA EntriesTyped ==
    ASSUME NEW cm \in MaybeCustom
    PROVE  EntriesOf(cm) \in Text
<1>1. EmptyText \in Text
  BY DEF EmptyText, Text
<1> QED BY <1>1, TextsAssumption DEF EntriesOf, MaybeCustom, CustomMap

LEMMA ListenersTyped ==
    ASSUME NEW core \in Text, NEW entries \in Text
    PROVE  \A l \in Inspect(core, entries).listeners : l.zone \in Zone /\ l.source \in Nat
<1>1. ASSUME NEW text \in Text PROVE \A l \in ListenersOf(text) : l.zone \in Zone
  <2>1. \A k \in text.keys : k.zone \in Zone
    BY DEF Text, Key
  <2> QED BY <2>1, ZoneForms DEF ListenersOf, Listener
<1>2. \A l, s : Sourced(l, s).zone = l.zone /\ Sourced(l, s).source = s
  BY DEF Sourced
<1>3. \A l \in Inspect(core, entries).listeners :
         \E k \in ListenersOf(core) \cup ListenersOf(entries), s \in {CorefileSource, EntrySource} :
            l = Sourced(k, s)
  BY DEF Inspect
<1> QED BY <1>1, <1>2, <1>3 DEF CorefileSource, EntrySource

LEMMA UnresolvedTyped ==
    ASSUME NEW core \in Text, NEW entries \in Text
    PROVE  Inspect(core, entries).unresolved \subseteq Item
BY DEF Inspect, Text, Item, CorefileSource, EntrySource

LEMMA ServedTyped ==
    ASSUME NEW existing, \A e \in existing : e.zone \in Zone /\ e.source \in Nat
    PROVE  Served(existing) \subseteq [zone : Zone, source : Nat]
BY ZoneForms DEF Served

LEMMA DecisionTyped ==
    ASSUME NEW items \in Items, NEW core \in CorefileTexts, NEW cm \in MaybeCustom,
           NEW n \in Present(items)
    PROVE  LET d == Decision(n, items, core, cm) IN
           /\ d.accepted \in BOOLEAN
           /\ d.reserved \subseteq Item /\ d.owned \subseteq Item /\ d.conflicts \subseteq Item
<1> DEFINE served == Served(Inspected(core, cm).listeners)
           c == ClaimOf(n, items[n])
           W == Winners(Candidates(Claims(items), served, ClusterDomain))
           d == Decide(c, Claims(items), served, ClusterDomain)
<1>1. served \subseteq [zone : Zone, source : Nat]
  BY EntriesTyped, TextsAssumption, ListenersTyped, ServedTyped DEF Inspected
<1>2. c \in Claims(items)
  BY DEF Claims
<1>3. \A w \in Claims(items) : CanonicalZones(w) \subseteq Zone /\ w.name \in Nat
  BY ClaimsTyped, ZoneForms, NamesAssumption DEF CanonicalZones
<1>4. W \subseteq Claims(items)
  BY ListWinners
<1> HIDE DEF c, W, served
<1>5. ReservedOf(c, ClusterDomain) \subseteq Item
  BY <1>2, <1>3 DEF ReservedOf, Item
<1>6. OwnedOf(c, served) \subseteq Item
  BY <1>1 DEF OwnedOf, Item
<1>7. ConflictsOf(c, W) \subseteq [zone : Zone, winner : Nat]
  BY <1>2, <1>3, <1>4 DEF ConflictsOf
<1>8. ConflictsOf(c, W) \subseteq Item
  BY <1>7 DEF Item
<1>9. d.accepted \in BOOLEAN /\ d.reserved \subseteq Item /\ d.owned \subseteq Item
        /\ d.conflicts \subseteq Item
  BY <1>5, <1>6, <1>8 DEF Decide, W
<1> QED BY <1>9 DEF Decision, c, served

LEMMA VerdictTyped ==
    ASSUME NEW items \in Items, NEW core \in CorefileTexts, NEW cm \in MaybeCustom,
           NEW n \in Present(items)
    PROVE  Verdict(n, items, core, cm) \in RunVerdict
<1> DEFINE d == Decision(n, items, core, cm)
           u == Inspected(core, cm).unresolved
<1>1. /\ d.accepted \in BOOLEAN
      /\ d.reserved \subseteq Item /\ d.owned \subseteq Item /\ d.conflicts \subseteq Item
  BY DecisionTyped
<1>2. u \subseteq Item
  BY EntriesTyped, TextsAssumption, UnresolvedTyped DEF Inspected
<1>3. Inspected(core, cm).wired \in BOOLEAN
  BY DEF Inspected, Inspect
<1> HIDE DEF d, u
<1>4. AcceptedCondition(d, u) \in [reason : AcceptedReasons, items : SUBSET Item]
  BY <1>1, <1>2 DEF AcceptedCondition, AcceptedReasons
<1> QED BY <1>1, <1>3, <1>4 DEF Verdict, RunVerdict, d, u

LEMMA StatusTyped ==
    ASSUME NEW gen \in Nat, NEW v \in RunVerdict, NEW outcome \in Outcomes
    PROVE  StatusOf(gen, v, outcome) \in Status
<1>1. PublishedCondition(v.accepted, outcome, v.wired) \in PublishedReasons
  BY DEF PublishedCondition, PublishedReasons, Outcomes
<1> QED BY <1>1 DEF StatusOf, Status, RunVerdict

-----------------------------------------------------------------------------
(* Types.                                                                  *)

LEMMA InitTyped == Init => TypeOK
<1> SUFFICES ASSUME Init PROVE TypeOK
  OBVIOUS
<1>1. routes \in [Names -> MaybeObject]
  <2> SUFFICES ASSUME NEW t \in Times, NEW s \in Specs
               PROVE  [gen |-> 1, rv |-> 1, created |-> t, spec |-> s, status |-> NoStatus] \in Object
    BY DEF Init, MaybeObject
  <2> QED BY DEF Object
<1>2. custom \in MaybeCustom /\ corefile \in MaybeCorefile
  BY DEF Init, MaybeCustom, CustomMap, MaybeCorefile
<1>3. NoRun \in RunState /\ Present(NoRun.items) = {}
  BY DEF NoRun, RunState, Present, MaybeObject, MaybeCorefile, MaybeCustom
<1>4. ServerTypeOK /\ CacheTypeOK
  BY <1>1, <1>2 DEF Init, ServerTypeOK, CacheTypeOK
<1>5. WatchTypeOK
  BY DEF Init, WatchTypeOK
<1>6. RunTypeOK
  BY <1>3 DEF Init, RunTypeOK
<1>7. BoundsTypeOK
  <2>1. edits \in 0 .. MaxEdits /\ faults \in 0 .. MaxFaults
    BY BoundsAssumption DEF Init
  <2>2. missed \in BOOLEAN
    BY DEF Init
  <2> QED BY <2>1, <2>2 DEF Init, BoundsTypeOK
<1> QED BY <1>4, <1>5, <1>6, <1>7 DEF TypeOK

LEMMA NoRunTyped == NoRun \in RunState /\ Present(NoRun.items) = {}
BY DEF NoRun, RunState, Present, MaybeObject, MaybeCorefile, MaybeCustom

\* An action that leaves a part of the state alone leaves its type alone.
LEMMA Untouched ==
    ASSUME TypeOK
    PROVE  /\ UNCHANGED server /\ wrote' = wrote => ServerTypeOK'
           /\ UNCHANGED watches => WatchTypeOK'
           /\ UNCHANGED cache => CacheTypeOK'
           /\ UNCHANGED queued /\ UNCHANGED control => RunTypeOK'
           /\ UNCHANGED <<inflight, edits, faults, missed>> => BoundsTypeOK'
<1>1. UNCHANGED server /\ wrote' = wrote => ServerTypeOK'
  BY DEF TypeOK, ServerTypeOK, server
<1>2. UNCHANGED watches => WatchTypeOK'
  BY DEF TypeOK, WatchTypeOK, watches
<1>3. UNCHANGED cache => CacheTypeOK'
  BY DEF TypeOK, CacheTypeOK, cache
<1>4. UNCHANGED queued /\ UNCHANGED control => RunTypeOK'
  BY DEF TypeOK, RunTypeOK, control
<1>5. UNCHANGED <<inflight, edits, faults, missed>> => BoundsTypeOK'
  BY DEF TypeOK, BoundsTypeOK
<1> QED BY <1>1, <1>2, <1>3, <1>4, <1>5

-----------------------------------------------------------------------------
(* Writes to the server.                                                   *)

LEMMA RouteWritten ==
    ASSUME TypeOK, NEW n \in Names, NEW o \in MaybeObject, WriteRoute(n, o),
           UNCHANGED <<corefile, custom, configWatch, wrote>>
    PROVE  ServerTypeOK' /\ WatchTypeOK'
<1>1. RouteEvent(n, o) \in RouteEvents
  BY DEF RouteEvent, RouteEvents
<1>2. WatchTypeOK'
  BY <1>1 DEF TypeOK, WatchTypeOK, WriteRoute
<1>3. ServerTypeOK'
  BY DEF TypeOK, ServerTypeOK, WriteRoute
<1> QED BY <1>2, <1>3

LEMMA CorefileWritten ==
    ASSUME TypeOK, NEW v \in MaybeCorefile, WriteCorefile(v),
           UNCHANGED <<routes, revision, custom, routeWatch, wrote>>
    PROVE  ServerTypeOK' /\ WatchTypeOK'
<1>1. CorefileEvent(v) \in ConfigEvents
  BY DEF CorefileEvent, ConfigEvents
<1>2. WatchTypeOK'
  BY <1>1 DEF TypeOK, WatchTypeOK, WriteCorefile
<1>3. ServerTypeOK'
  BY DEF TypeOK, ServerTypeOK, WriteCorefile
<1> QED BY <1>2, <1>3

LEMMA BlocksTyped ==
    ASSUME NEW cm \in MaybeCustom
    PROVE  BlocksIn(cm) \subseteq Blocks(Names)
BY DEF BlocksIn, MaybeCustom, CustomMap

LEMMA CustomWritten ==
    ASSUME TypeOK, NEW cm \in MaybeCustom, WriteCustom(cm),
           UNCHANGED <<routes, revision, corefile, routeWatch>>
    PROVE  ServerTypeOK' /\ WatchTypeOK'
<1>1. CustomEvent(cm) \in ConfigEvents
  BY DEF CustomEvent, ConfigEvents
<1>2. WatchTypeOK'
  BY <1>1 DEF TypeOK, WatchTypeOK, WriteCustom
<1>3. ServerTypeOK'
  BY BlocksTyped DEF TypeOK, ServerTypeOK, WriteCustom
<1> QED BY <1>2, <1>3

LEMMA PatchApplied ==
    ASSUME TypeOK, NEW f \in SUBSET Blocks(Names), custom # Absent, ApplyPatch(f),
           UNCHANGED <<routes, revision, corefile, routeWatch>>
    PROVE  ServerTypeOK' /\ WatchTypeOK'
<1>1. [custom EXCEPT !.managed = f] \in MaybeCustom
  BY DEF TypeOK, ServerTypeOK, MaybeCustom, CustomMap
<1>2. CASE WriteCustom([custom EXCEPT !.managed = f])
  BY <1>1, <1>2, CustomWritten
<1>3. CASE UNCHANGED <<custom, configWatch, wrote>>
  BY <1>3 DEF TypeOK, ServerTypeOK, WatchTypeOK
<1> QED BY <1>2, <1>3 DEF ApplyPatch

LEMMA ObjectUpdates ==
    ASSUME NEW o \in Object, NEW v \in Nat
    PROVE  /\ \A g \in Nat, s \in Specs :
                [o EXCEPT !.gen = g, !.rv = v, !.spec = s] \in Object
           /\ \A t \in {NoStatus} \cup Status :
                [o EXCEPT !.rv = v, !.status = t] \in Object
           /\ [o EXCEPT !.rv = v] \in Object
BY DEF Object

-----------------------------------------------------------------------------
(* Users.                                                                  *)

LEMMA EditTyped ==
    ASSUME TypeOK, Edit
    PROVE  CacheTypeOK' /\ RunTypeOK' /\ BoundsTypeOK'
<1>1. BoundsTypeOK'
  BY BoundsAssumption DEF TypeOK, BoundsTypeOK, Edit
<1> QED BY <1>1, Untouched DEF Edit

LEMMA UserTyped ==
    ASSUME TypeOK, User
    PROVE  TypeOK'
<1>1. ASSUME NEW n \in Names, NEW s \in Specs, NEW t \in Times, CreateRoute(n, s, t)
      PROVE  TypeOK'
  <2>1. NewObject(n, s, t) \in Object
    BY DEF TypeOK, ServerTypeOK, NewObject, Object
  <2>2. NewObject(n, s, t) \in MaybeObject
    BY <2>1 DEF MaybeObject
  <2>3. ServerTypeOK' /\ WatchTypeOK'
    BY <1>1, <2>2, RouteWritten DEF CreateRoute, EditsRoute
  <2> QED BY <1>1, <2>3, EditTyped DEF TypeOK, CreateRoute, EditsRoute
<1>2. ASSUME NEW n \in Names, NEW s \in Specs, ChangeSpec(n, s)
      PROVE  TypeOK'
  <2> DEFINE o == [routes[n] EXCEPT !.gen = @ + 1, !.rv = revision[n] + 1, !.spec = s]
  <2>1. routes[n] \in Object /\ revision[n] \in Nat
    BY <1>2 DEF TypeOK, ServerTypeOK, ChangeSpec, MaybeObject
  <2>2. routes[n].gen + 1 \in Nat /\ revision[n] + 1 \in Nat
    BY <2>1 DEF Object
  <2>3. o \in MaybeObject
    BY <2>1, <2>2, ObjectUpdates DEF MaybeObject
  <2>4. ServerTypeOK' /\ WatchTypeOK'
    BY <1>2, <2>3, RouteWritten DEF ChangeSpec, EditsRoute
  <2> QED BY <1>2, <2>4, EditTyped DEF TypeOK, ChangeSpec, EditsRoute
<1>3. ASSUME NEW n \in Names, DeleteRoute(n)
      PROVE  TypeOK'
  <2>1. ServerTypeOK' /\ WatchTypeOK'
    BY <1>3, RouteWritten DEF DeleteRoute, EditsRoute, MaybeObject
  <2> QED BY <1>3, <2>1, EditTyped DEF TypeOK, DeleteRoute, EditsRoute
<1>4. ASSUME NEW n \in Names, TouchRoute(n)
      PROVE  TypeOK'
  <2> DEFINE o == [routes[n] EXCEPT !.rv = revision[n] + 1]
  <2>1. routes[n] \in Object /\ revision[n] + 1 \in Nat
    BY <1>4 DEF TypeOK, ServerTypeOK, TouchRoute, MaybeObject
  <2>2. o \in MaybeObject
    BY <2>1, ObjectUpdates DEF MaybeObject
  <2>3. ServerTypeOK' /\ WatchTypeOK'
    BY <1>4, <2>2, RouteWritten DEF TouchRoute, EditsRoute
  <2> QED BY <1>4, <2>3, EditTyped DEF TypeOK, TouchRoute, EditsRoute
<1>5. ASSUME NEW v \in CorefileTexts \cup {Absent, NoKey}, EditCorefile(v)
      PROVE  TypeOK'
  <2>1. ServerTypeOK' /\ WatchTypeOK'
    BY <1>5, CorefileWritten DEF EditCorefile, MaybeCorefile
  <2> QED BY <1>5, <2>1, EditTyped DEF TypeOK, EditCorefile
<1>6. ASSUME NEW cm \in CustomEdits, EditCustom(cm)
      PROVE  TypeOK'
  <2>1. cm \in MaybeCustom
    BY DEF TypeOK, ServerTypeOK, CustomEdits, MaybeCustom, CustomMap
  <2>2. ServerTypeOK' /\ WatchTypeOK'
    BY <1>6, <2>1, CustomWritten DEF EditCustom
  <2> QED BY <1>6, <2>2, EditTyped DEF TypeOK, EditCustom
<1> QED BY <1>1, <1>2, <1>3, <1>4, <1>5, <1>6 DEF User

-----------------------------------------------------------------------------
(* The watches.                                                            *)

LEMMA EventFiltersBoolean ==
    ASSUME NEW old, NEW new
    PROVE  /\ RouteEventPasses(old, new) \in BOOLEAN
           /\ CorefileEventPasses(old, new) \in BOOLEAN
           /\ CustomEventPasses(old, new) \in BOOLEAN
BY DEF RouteEventPasses, CorefileEventPasses, CustomEventPasses

LEMMA QueuedTyped ==
    ASSUME TypeOK, queued' \in BOOLEAN, UNCHANGED control
    PROVE  RunTypeOK'
BY DEF TypeOK, RunTypeOK, control

LEMMA WatchTyped ==
    ASSUME TypeOK, Watch
    PROVE  TypeOK'
<1> USE DEF server, cache, history
<1>1. CASE DeliverRoute
  <2> DEFINE e == Head(routeWatch)
  <2>1. e \in RouteEvents /\ WatchTypeOK'
    BY <1>1 DEF TypeOK, WatchTypeOK, DeliverRoute
  <2>2. CacheTypeOK'
    BY <1>1, <2>1 DEF TypeOK, CacheTypeOK, DeliverRoute, RouteEvents
  <2>3. queued' \in BOOLEAN
    BY <1>1, EventFiltersBoolean DEF DeliverRoute
  <2> QED BY <1>1, <2>1, <2>2, <2>3, QueuedTyped, Untouched DEF TypeOK, DeliverRoute
<1>2. CASE DeliverConfig
  <2> DEFINE e == Head(configWatch)
  <2>1. e \in ConfigEvents /\ WatchTypeOK'
    BY <1>2 DEF TypeOK, WatchTypeOK, DeliverConfig
  <2>2. /\ e.map = "coredns" => e.value \in MaybeCorefile
        /\ e.map = "coredns-custom" => e.value \in MaybeCustom
    BY <2>1 DEF ConfigEvents
  <2>3. CacheTypeOK'
    BY <1>2, <2>2 DEF TypeOK, CacheTypeOK, DeliverConfig
  <2>4. queued' \in BOOLEAN
    BY <1>2, EventFiltersBoolean DEF DeliverConfig
  <2> QED BY <1>2, <2>1, <2>3, <2>4, QueuedTyped, Untouched DEF TypeOK, DeliverConfig
<1>3. CASE RelistRoutes
  <2>1. WatchTypeOK' /\ CacheTypeOK'
    BY <1>3 DEF TypeOK, ServerTypeOK, WatchTypeOK, CacheTypeOK, RelistRoutes
  <2>2. queued' \in BOOLEAN
    BY <1>3, EventFiltersBoolean DEF RelistRoutes
  <2> QED BY <1>3, <2>1, <2>2, QueuedTyped, Untouched DEF TypeOK, RelistRoutes
<1>4. CASE RelistConfig
  <2>1. WatchTypeOK' /\ CacheTypeOK'
    BY <1>4 DEF TypeOK, ServerTypeOK, WatchTypeOK, CacheTypeOK, RelistConfig
  <2>2. queued' \in BOOLEAN
    BY <1>4, EventFiltersBoolean DEF RelistConfig
  <2> QED BY <1>4, <2>1, <2>2, QueuedTyped, Untouched DEF TypeOK, RelistConfig
<1> QED BY <1>1, <1>2, <1>3, <1>4 DEF Watch

-----------------------------------------------------------------------------
(* The run.                                                                *)

LEMMA FaultTyped ==
    ASSUME TypeOK, Fault, inflight' \in {NoRequest} \cup Requests, UNCHANGED <<edits, missed>>
    PROVE  BoundsTypeOK'
BY BoundsAssumption DEF TypeOK, BoundsTypeOK, Fault

LEMMA FailTyped ==
    ASSUME Fail
    PROVE  RunTypeOK'
BY NoRunTyped DEF Fail, RunTypeOK

LEMMA ListRoutesTyped ==
    ASSUME TypeOK, ListRoutes
    PROVE  TypeOK'
<1>1. RunTypeOK'
  BY DEF TypeOK, CacheTypeOK, RunTypeOK, RunState, ListRoutes
<1>2. BoundsTypeOK'
  BY DEF TypeOK, BoundsTypeOK, ListRoutes, StatusesSeen
<1> QED BY <1>1, <1>2, Untouched DEF TypeOK, ListRoutes, server

LEMMA ReadCorefileTyped ==
    ASSUME TypeOK, ReadCorefile
    PROVE  TypeOK'
<1>1. CASE /\ pc = "corefile" /\ Visible(seenCorefile)
           /\ run' = [run EXCEPT !.corefile = seenCorefile]
           /\ pc' = "custom"
           /\ UNCHANGED <<queued, left>>
  <2>1. seenCorefile \in CorefileTexts
    BY <1>1 DEF TypeOK, CacheTypeOK, MaybeCorefile, Visible
  <2>2. run' \in RunState /\ run'.corefile \in CorefileTexts
    BY <1>1, <2>1 DEF TypeOK, CacheTypeOK, RunTypeOK, RunState
  <2>3. RunTypeOK'
    BY <1>1, <2>2 DEF TypeOK, RunTypeOK
  <2> QED BY <2>3, Untouched DEF TypeOK, ReadCorefile, server, history
<1>2. CASE Fail
  BY <1>2, FailTyped, Untouched DEF TypeOK, ReadCorefile, server, history
<1> QED BY <1>1, <1>2 DEF ReadCorefile

LEMMA ReadCustomTyped ==
    ASSUME TypeOK, ReadCustom
    PROVE  TypeOK'
<1> DEFINE verdicts == [n \in Names |->
                          IF run.items[n] = Absent THEN NoStatus
                          ELSE Verdict(n, run.items, run.corefile, seenCustom)]
           fragment == FragmentFor(run.items, run.corefile, seenCustom)
           invalid == RenderFails(run.items, run.corefile, seenCustom)
<1>1. CASE /\ pc = "custom"
           /\ run' = [run EXCEPT !.custom = seenCustom, !.verdicts = verdicts,
                                 !.fragment = fragment, !.invalid = invalid]
           /\ pc' = "publish"
           /\ UNCHANGED <<queued, left>>
  <2>1. /\ run \in RunState /\ run.items \in Items /\ run.corefile \in CorefileTexts
        /\ seenCustom \in MaybeCustom
    BY <1>1 DEF TypeOK, RunTypeOK, CacheTypeOK, RunState, Items
  <2>2. \A n \in Present(run.items) : n \in Names /\ verdicts[n] \in RunVerdict
    BY <2>1, VerdictTyped, ListedObjects DEF Present
  <2>3. verdicts \in [Names -> {NoStatus} \cup RunVerdict]
    BY <2>1, <2>2 DEF Present, Items
  <2>4. fragment \in SUBSET Blocks(Names) /\ invalid \in BOOLEAN
    BY <2>1, FragmentTyped DEF RenderFails
  <2> HIDE DEF verdicts, fragment, invalid
  <2>5. run' \in RunState /\ run'.items = run.items /\ run'.verdicts = verdicts
    BY <1>1, <2>1, <2>3, <2>4 DEF RunState
  <2>6. run'.corefile = run.corefile
    BY <1>1, <2>1 DEF RunState
  <2>7. RunTypeOK'
    BY <1>1, <2>1, <2>2, <2>5, <2>6 DEF TypeOK, RunTypeOK
  <2> QED BY <2>7, Untouched DEF TypeOK, ReadCustom, server, history
<1>2. CASE Fail
  BY <1>2, FailTyped, Untouched DEF TypeOK, ReadCustom, server, history
<1> QED BY <1>1, <1>2 DEF ReadCustom

LEMMA ReadFailsTyped ==
    ASSUME TypeOK, ReadFails
    PROVE  TypeOK'
<1>1. BoundsTypeOK'
  BY FaultTyped DEF TypeOK, BoundsTypeOK, ReadFails, history
<1> QED BY <1>1, FailTyped, Untouched DEF TypeOK, ReadFails, server, history

LEMMA PublishedTyped ==
    ASSUME TypeOK, pc = "publish", NEW outcome \in Outcomes, Published(outcome), UNCHANGED queued
    PROVE  RunTypeOK'
<1> DEFINE report == [n \in Names |->
                        IF run.items[n] = Absent THEN NoStatus
                        ELSE StatusOf(run.items[n].gen, run.verdicts[n], outcome)]
<1>1. run \in RunState /\ run.items \in Items
  BY DEF TypeOK, RunTypeOK, RunState, Items
<1>2. \A n \in Present(run.items) : run.items[n].gen \in Nat /\ run.verdicts[n] \in RunVerdict
  BY <1>1, ListedObjects DEF TypeOK, RunTypeOK, Object
<1>3. report \in [Names -> {NoStatus} \cup Status]
  BY <1>1, <1>2, StatusTyped DEF Present, Items
<1> HIDE DEF report
<1>4. run' = [NoRun EXCEPT !.items = run.items, !.report = report,
                          !.failed = (outcome = "WriteFailed")]
  BY DEF Published, report
<1>5. run' \in RunState /\ run'.items = run.items
  BY <1>1, <1>3, <1>4, NoRunTyped DEF RunState, Items
<1> QED BY <1>5 DEF TypeOK, RunTypeOK, Published

\* The fragment of a run is a set of blocks.
LEMMA RunFragmentTyped ==
    ASSUME TypeOK
    PROVE  run.fragment \in SUBSET Blocks(Names)
BY DEF TypeOK, RunTypeOK, RunState

\* What a caller may give up on is a request.
LEMMA PatchRequestTyped ==
    ASSUME TypeOK
    PROVE  PatchRequest \in Requests
BY RunFragmentTyped DEF PatchRequest, Requests

LEMMA UpdateOfTyped ==
    ASSUME TypeOK, NEW n \in Names, n \in Present(run.items)
    PROVE  UpdateOf(n) \in Requests
<1>1. run.items \in Items /\ run.report[n] \in {NoStatus} \cup Status
  BY DEF TypeOK, RunTypeOK, RunState, Items
<1>2. run.items[n].rv \in Nat
  BY <1>1, ListedObjects DEF Object
<1> QED BY <1>1, <1>2 DEF UpdateOf, Requests

LEMMA StrayTyped ==
    ASSUME TypeOK, NEW r \in Requests, GoesAstray(r)
    PROVE  inflight' \in {NoRequest} \cup Requests
BY DEF GoesAstray

LEMMA PublishTyped ==
    ASSUME TypeOK, Publish
    PROVE  TypeOK'
<1>1. pc = "publish" /\ NoCallOutcome \in Outcomes /\ {"InPlace", "WriteFailed"} \subseteq Outcomes
  BY DEF Publish, NoCallOutcome, Outcomes
<1>2. RunTypeOK'
  BY <1>1, PublishedTyped DEF Publish
<1>3. ServerTypeOK' /\ WatchTypeOK'
  <2>1. CASE UNCHANGED <<custom, configWatch, wrote>>
    BY <2>1, Untouched DEF Publish, server, watches
  <2>2. CASE custom # Absent /\ ApplyPatch(run.fragment)
    BY <2>2, PatchApplied, RunFragmentTyped DEF Publish
  <2> QED BY <2>1, <2>2 DEF Publish
<1> QED BY <1>2, <1>3, Untouched DEF TypeOK, Publish

LEMMA PatchFailsTyped ==
    ASSUME TypeOK, PatchFails
    PROVE  TypeOK'
<1>1. RunTypeOK'
  BY PublishedTyped DEF PatchFails, Outcomes
<1>2. BoundsTypeOK'
  <2>1. inflight' \in {NoRequest} \cup Requests
    BY PatchRequestTyped, StrayTyped DEF TypeOK, BoundsTypeOK, PatchFails
  <2> QED BY <2>1, FaultTyped DEF PatchFails
<1>3. ServerTypeOK' /\ WatchTypeOK'
  <2>1. CASE UNCHANGED <<custom, configWatch, wrote>>
    BY <2>1, Untouched DEF PatchFails, server, watches
  <2>2. CASE custom # Absent /\ ApplyPatch(run.fragment)
    BY <2>2, PatchApplied, RunFragmentTyped DEF PatchFails
  <2> QED BY <2>1, <2>2 DEF PatchFails
<1> QED BY <1>1, <1>2, <1>3, Untouched DEF TypeOK, PatchFails

LEMMA LatePatchTyped ==
    ASSUME TypeOK, LatePatch
    PROVE  TypeOK'
<1>1. inflight.fragment \in SUBSET Blocks(Names)
  BY DEF TypeOK, BoundsTypeOK, Requests, LatePatch, Late
<1>2. ServerTypeOK' /\ WatchTypeOK'
  <2>1. CASE UNCHANGED <<custom, configWatch, wrote>>
    BY <2>1, Untouched DEF LatePatch, server, watches
  <2>2. CASE custom # Absent /\ ApplyPatch(inflight.fragment)
    BY <1>1, <2>2, PatchApplied DEF LatePatch
  <2> QED BY <2>1, <2>2 DEF LatePatch
<1>3. BoundsTypeOK'
  BY DEF TypeOK, BoundsTypeOK, LatePatch, Late
<1> QED BY <1>2, <1>3, Untouched DEF TypeOK, LatePatch

LEMMA StatusWritten ==
    ASSUME TypeOK, NEW u \in Requests, u.kind = "status", StillListed(u), WriteStatus(u),
           UNCHANGED <<corefile, custom, configWatch, wrote>>
    PROVE  ServerTypeOK' /\ WatchTypeOK'
<1> DEFINE n == u.name
<1>1. n \in Names /\ u.status \in {NoStatus} \cup Status
  BY DEF Requests
<1>2. routes[n] \in Object /\ revision[n] + 1 \in Nat
  BY <1>1 DEF TypeOK, ServerTypeOK, StillListed, MaybeObject
<1>3. [routes[n] EXCEPT !.rv = revision[n] + 1, !.status = u.status] \in MaybeObject
  BY <1>1, <1>2, ObjectUpdates DEF MaybeObject
<1> QED BY <1>1, <1>3, RouteWritten DEF WriteStatus

LEMMA StatusDoneTyped ==
    ASSUME TypeOK, NEW n, NEW failed \in BOOLEAN, pc = "status", StatusDone(n, failed), UNCHANGED queued
    PROVE  RunTypeOK'
<1>1. run \in RunState /\ left \subseteq Present(run.items)
  BY DEF TypeOK, RunTypeOK
<1>2. run' \in RunState /\ run'.items = run.items
  BY <1>1 DEF RunState, StatusDone
<1> QED BY <1>1, <1>2 DEF TypeOK, RunTypeOK, StatusDone

LEMMA DueUpdate ==
    ASSUME TypeOK, NEW n \in Names, Due(n)
    PROVE  UpdateOf(n) \in Requests /\ UpdateOf(n).kind = "status"
<1>1. n \in Present(run.items)
  BY DEF TypeOK, RunTypeOK, Due
<1> QED BY <1>1, UpdateOfTyped DEF UpdateOf

LEMMA UpdateStatusTyped ==
    ASSUME TypeOK, NEW n \in Names, UpdateStatus(n)
    PROVE  TypeOK'
<1>1. RunTypeOK'
  BY StatusDoneTyped DEF UpdateStatus, Due
<1>2. ServerTypeOK' /\ WatchTypeOK'
  <2>1. CASE UNCHANGED <<routes, revision, routeWatch>>
    BY <2>1, Untouched DEF UpdateStatus, server, watches, history
  <2>2. CASE StillListed(UpdateOf(n)) /\ WriteStatus(UpdateOf(n))
    BY <2>2, DueUpdate, StatusWritten DEF UpdateStatus, history
  <2> QED BY <2>1, <2>2 DEF UpdateStatus
<1> QED BY <1>1, <1>2, Untouched DEF TypeOK, UpdateStatus, history

LEMMA StatusFailsTyped ==
    ASSUME TypeOK, NEW n \in Names, StatusFails(n)
    PROVE  TypeOK'
<1>1. RunTypeOK'
  BY StatusDoneTyped DEF StatusFails, Due
<1>2. ServerTypeOK' /\ WatchTypeOK'
  <2>1. CASE UNCHANGED <<routes, revision, routeWatch>>
    BY <2>1, Untouched DEF StatusFails, server, watches, history
  <2>2. CASE StillListed(UpdateOf(n)) /\ WriteStatus(UpdateOf(n))
    BY <2>2, DueUpdate, StatusWritten DEF StatusFails, history
  <2> QED BY <2>1, <2>2 DEF StatusFails
<1>3. BoundsTypeOK'
  <2>1. inflight' \in {NoRequest} \cup Requests
    BY DueUpdate, StrayTyped DEF TypeOK, BoundsTypeOK, StatusFails
  <2> QED BY <2>1, FaultTyped DEF StatusFails, history
<1> QED BY <1>1, <1>2, <1>3, Untouched DEF TypeOK, StatusFails

LEMMA LateStatusTyped ==
    ASSUME TypeOK, LateStatus
    PROVE  TypeOK'
<1>1. inflight \in Requests /\ inflight.kind = "status"
  BY DEF TypeOK, BoundsTypeOK, LateStatus, Late
<1>2. ServerTypeOK' /\ WatchTypeOK'
  <2>1. CASE UNCHANGED <<routes, revision, routeWatch>>
    BY <2>1, Untouched DEF LateStatus, server, watches
  <2>2. CASE StillListed(inflight) /\ WriteStatus(inflight)
    BY <1>1, <2>2, StatusWritten DEF LateStatus
  <2> QED BY <2>1, <2>2 DEF LateStatus
<1>3. BoundsTypeOK'
  BY DEF TypeOK, BoundsTypeOK, LateStatus, Late
<1> QED BY <1>2, <1>3, Untouched DEF TypeOK, LateStatus

LEMMA FinishTyped ==
    ASSUME TypeOK, Finish
    PROVE  TypeOK'
<1>1. RunTypeOK'
  BY NoRunTyped DEF TypeOK, RunTypeOK, RunState, Finish
<1> QED BY <1>1, Untouched DEF TypeOK, Finish, history

LEMMA RestartTyped ==
    ASSUME TypeOK, Restart
    PROVE  TypeOK'
<1>1. RunTypeOK'
  BY NoRunTyped DEF RunTypeOK, Restart
<1>2. WatchTypeOK' /\ CacheTypeOK'
  BY DEF TypeOK, ServerTypeOK, WatchTypeOK, CacheTypeOK, Restart
<1>3. BoundsTypeOK'
  <2>1. \A r \in NextRequest : r \in Requests
    <3>1. left \subseteq Names
      BY DEF TypeOK, RunTypeOK, RunState, Present
    <3> QED BY <3>1, PatchRequestTyped, DueUpdate DEF NextRequest
  <2>2. inflight' \in {NoRequest} \cup Requests
    BY <2>1, StrayTyped DEF TypeOK, BoundsTypeOK, Restart
  <2> QED BY <2>2, FaultTyped DEF Restart, history
<1> QED BY <1>1, <1>2, <1>3, Untouched DEF TypeOK, Restart, history

LEMMA StepTyped == TypeOK /\ [Next]_vars => TypeOK'
<1> SUFFICES ASSUME TypeOK, [Next]_vars PROVE TypeOK'
  OBVIOUS
<1>1. CASE User
  BY <1>1, UserTyped
<1>2. CASE Watch
  BY <1>2, WatchTyped
<1>3. CASE Reconcile
  BY <1>3, ListRoutesTyped, ReadCorefileTyped, ReadCustomTyped, PublishTyped,
     UpdateStatusTyped, FinishTyped DEF Reconcile
<1>4. CASE Failure
  BY <1>4, ReadFailsTyped, PatchFailsTyped, LatePatchTyped, RestartTyped,
     StatusFailsTyped, LateStatusTyped DEF Failure
<1>5. CASE UNCHANGED vars
  BY <1>5, Untouched DEF TypeOK, vars, server, watches, cache, control
<1> QED BY <1>1, <1>2, <1>3, <1>4, <1>5 DEF Next

\* Type correctness: whatever users, watches, runs and failures do, every
\* variable keeps its type and a run past its reads has what it needs.
THEOREM TypeCorrect == Spec => []TypeOK
BY InitTyped, StepTyped, PTL DEF Spec

-----------------------------------------------------------------------------
(* The controller writes the managed key and the statuses and nothing      *)
(* else, although every one of its writes rests on an old read.            *)

SameContent == UserContent' = UserContent

LEMMA ServerUntouched == UNCHANGED <<routes, corefile, custom>> => SameContent
BY DEF SameContent, UserContent, SpecsOf, Present, EntriesOf

\* The merge patch leaves the other entries of the ConfigMap as they are now.
LEMMA PatchKeeps ==
    ASSUME TypeOK, NEW f \in SUBSET Blocks(Names), custom # Absent, ApplyPatch(f),
           UNCHANGED <<routes, corefile>>
    PROVE  SameContent
<1>1. CASE UNCHANGED custom
  BY <1>1, ServerUntouched
<1>2. CASE WriteCustom([custom EXCEPT !.managed = f])
  <2>1. custom \in CustomMap
    BY DEF TypeOK, ServerTypeOK, MaybeCustom
  <2>2. custom' \in CustomMap /\ custom'.entries = custom.entries
    BY <1>2, <2>1 DEF WriteCustom, CustomMap
  <2>3. EntriesOf(custom') = EntriesOf(custom) /\ custom' # Absent
    BY <2>2, AbsentAssumption DEF EntriesOf
  <2>4. SpecsOf(routes') = SpecsOf(routes)
    BY DEF SpecsOf, Present
  <2> QED BY <2>3, <2>4 DEF SameContent, UserContent
<1> QED BY <1>1, <1>2 DEF ApplyPatch

\* A status update that is applied replaces the status and nothing of the spec.
LEMMA StatusKeeps ==
    ASSUME TypeOK, NEW u \in Requests, u.kind = "status", StillListed(u), WriteStatus(u),
           UNCHANGED <<corefile, custom>>
    PROVE  SameContent
<1> DEFINE n == u.name
           o == [routes[n] EXCEPT !.rv = revision[n] + 1, !.status = u.status]
<1>1. n \in Names /\ u.status \in {NoStatus} \cup Status
  BY DEF Requests
<1>2. routes[n] \in Object /\ revision[n] + 1 \in Nat /\ routes \in [Names -> MaybeObject]
  BY <1>1 DEF TypeOK, ServerTypeOK, StillListed, MaybeObject
<1>3. o \in Object
  BY <1>1, <1>2, ObjectUpdates
<1>4. o.gen = routes[n].gen /\ o.created = routes[n].created /\ o.spec = routes[n].spec
  BY <1>2 DEF Object
<1>5. o # Absent /\ routes[n] # Absent
  BY <1>3, <1>2, AbsentAssumption
<1>6. routes' = [routes EXCEPT ![n] = o]
  BY DEF WriteStatus, WriteRoute
<1> HIDE DEF o, n
<1>7. Present(routes') = Present(routes)
  BY <1>1, <1>2, <1>5, <1>6 DEF Present
<1>8. \A m \in Present(routes) :
        <<routes'[m].gen, routes'[m].created, routes'[m].spec>>
          = <<routes[m].gen, routes[m].created, routes[m].spec>>
  BY <1>1, <1>2, <1>4, <1>6 DEF Present
<1>9. SpecsOf(routes') = SpecsOf(routes)
  BY <1>7, <1>8 DEF SpecsOf
<1> QED BY <1>9 DEF SameContent, UserContent

LEMMA PublishKeeps ==
    ASSUME TypeOK, Publish \/ PatchFails \/ LatePatch
    PROVE  SameContent
<1>1. UNCHANGED <<routes, corefile>>
  BY DEF Publish, PatchFails, LatePatch
<1>2. CASE UNCHANGED custom
  BY <1>1, <1>2, ServerUntouched
<1>3. CASE custom # Absent /\ ApplyPatch(run.fragment)
  BY <1>1, <1>3, RunFragmentTyped, PatchKeeps
<1>4. CASE custom # Absent /\ Late("patch") /\ ApplyPatch(inflight.fragment)
  <2>1. inflight.fragment \in SUBSET Blocks(Names)
    BY <1>4 DEF TypeOK, BoundsTypeOK, Requests, Late
  <2> QED BY <1>1, <1>4, <2>1, PatchKeeps
<1> QED BY <1>2, <1>3, <1>4 DEF Publish, PatchFails, LatePatch

LEMMA UpdatesKeep ==
    ASSUME TypeOK, LateStatus \/ \E n \in Names : UpdateStatus(n) \/ StatusFails(n)
    PROVE  SameContent
<1>1. UNCHANGED <<corefile, custom>>
  BY DEF LateStatus, UpdateStatus, StatusFails
<1>2. CASE UNCHANGED routes
  BY <1>1, <1>2, ServerUntouched
<1>3. ASSUME NEW n \in Names, Due(n), StillListed(UpdateOf(n)), WriteStatus(UpdateOf(n))
      PROVE  SameContent
  BY <1>1, <1>3, DueUpdate, StatusKeeps
<1>4. CASE Late("status") /\ StillListed(inflight) /\ WriteStatus(inflight)
  <2>1. inflight \in Requests /\ inflight.kind = "status"
    BY <1>4 DEF TypeOK, BoundsTypeOK, Late
  <2> QED BY <1>1, <1>4, <2>1, StatusKeeps
<1> QED BY <1>2, <1>3, <1>4 DEF LateStatus, UpdateStatus, StatusFails

LEMMA UserEdits == ASSUME TypeOK, User PROVE edits' # edits
<1>1. edits \in Nat
  BY DEF TypeOK, BoundsTypeOK
<1>2. edits' = edits + 1
  BY DEF User, CreateRoute, ChangeSpec, TouchRoute, DeleteRoute, EditCorefile, EditCustom,
     EditsRoute, Edit
<1> QED BY <1>1, <1>2

\* No step but a user's changes a spec, the Corefile or a neighbouring entry,
\* creates an object or deletes one, whatever the step had read before.
THEOREM KeepsToItsOwn == Spec => ControllerKeepsToItsOwn
<1>1. TypeOK /\ [Next]_vars => [edits' = edits => SameContent]_vars
  <2> SUFFICES ASSUME TypeOK, Next, edits' = edits PROVE SameContent
    OBVIOUS
  <2>1. CASE User
    BY <2>1, UserEdits
  <2>2. CASE Watch
    BY <2>2, ServerUntouched
       DEF Watch, DeliverRoute, DeliverConfig, RelistRoutes, RelistConfig, server
  <2>3. CASE ListRoutes \/ ReadCorefile \/ ReadCustom \/ ReadFails \/ Finish \/ Restart
    BY <2>3, ServerUntouched
       DEF ListRoutes, ReadCorefile, ReadCustom, ReadFails, Finish, Restart, server
  <2> QED BY <2>1, <2>2, <2>3, PublishKeeps, UpdatesKeep DEF Next, Reconcile, Failure
<1>2. QED
  BY <1>1, TypeCorrect, PTL DEF Spec, ControllerKeepsToItsOwn, SameContent

-----------------------------------------------------------------------------
(* The managed entry never serves a zone twice and never a reserved zone.  *)
(* FragmentSound is not inductive: a step that patches writes what the run *)
(* has rendered, so the invariant also covers the run's fragment.          *)

DelayedSound == \A f \in Delayed : Sound(f)

FragmentsSound == FragmentSound /\ Sound(run.fragment)

LEMMA NothingSound == Sound({})
BY DEF Sound

LEMMA NoRunSound == Sound(NoRun.fragment)
BY NothingSound DEF NoRun

LEMMA PatchSound ==
    ASSUME TypeOK, FragmentsSound, NEW f, Sound(f), custom # Absent, ApplyPatch(f)
    PROVE  Sound(BlocksIn(custom'))
<1>1. CASE WriteCustom([custom EXCEPT !.managed = f])
  <2>1. custom'.managed = f
    BY <1>1 DEF WriteCustom, TypeOK, ServerTypeOK, MaybeCustom, CustomMap
  <2> QED BY <2>1, NothingSound DEF BlocksIn
<1>2. CASE UNCHANGED custom
  BY <1>2 DEF FragmentsSound, FragmentSound
<1> QED BY <1>1, <1>2 DEF ApplyPatch

LEMMA EditSound ==
    ASSUME TypeOK, FragmentsSound, NEW cm \in CustomEdits
    PROVE  Sound(BlocksIn(cm))
<1>1. BlocksIn(cm) \in {{}, BlocksIn(custom)}
  BY DEF TypeOK, ServerTypeOK, MaybeCustom, CustomMap, CustomEdits, BlocksIn
<1> QED BY <1>1, NothingSound DEF FragmentsSound, FragmentSound

\* Of a published run, a status pass and a failed run nothing is rendered.
LEMMA RunOver ==
    ASSUME TypeOK
    PROVE  /\ Fail => Sound(run.fragment)'
           /\ \A outcome : Published(outcome) => Sound(run.fragment)'
           /\ \A n, failed : StatusDone(n, failed) => run.fragment' = run.fragment
<1>1. Fail => Sound(run.fragment)'
  BY NoRunSound DEF Fail
<1>2. ASSUME NEW outcome, Published(outcome) PROVE run.fragment' = NoRun.fragment
  BY <1>2, NoRunTyped DEF Published, RunState
<1>3. ASSUME NEW n, NEW failed, StatusDone(n, failed) PROVE run.fragment' = run.fragment
  BY <1>3 DEF TypeOK, RunTypeOK, RunState, StatusDone
<1> QED BY <1>1, <1>2, <1>3, NoRunSound

LEMMA FragmentsFrame ==
    ASSUME FragmentsSound
    PROVE  /\ UNCHANGED custom => Sound(BlocksIn(custom))'
           /\ UNCHANGED inflight => DelayedSound'
           /\ UNCHANGED run => Sound(run.fragment)'
BY DEF FragmentsSound, FragmentSound, DelayedSound, Delayed

\* A request that goes astray carries the run's fragment or none at all.
LEMMA StraySound ==
    ASSUME FragmentsSound, NEW r, GoesAstray(r),
           r = PatchRequest \/ r.kind = "status"
    PROVE  DelayedSound'
<1>1. CASE r = PatchRequest
  <2>1. Delayed' \subseteq {run.fragment}
    BY <1>1 DEF GoesAstray, PatchRequest, Delayed
  <2> QED BY <2>1 DEF FragmentsSound, DelayedSound
<1>2. CASE r.kind = "status"
  <2>1. Delayed' = {}
    BY <1>2 DEF GoesAstray, Delayed
  <2> QED BY <2>1 DEF DelayedSound
<1> QED BY <1>1, <1>2

\* A request that has arrived is no longer pending.
LEMMA ArrivedSound ==
    ASSUME NEW kind, Late(kind)
    PROVE  DelayedSound'
BY DEF Late, Delayed, DelayedSound

LEMMA UserSound ==
    ASSUME TypeOK, FragmentsSound, User
    PROVE  FragmentsSound'
<1>1. UNCHANGED <<inflight, run>>
  BY DEF User, CreateRoute, ChangeSpec, TouchRoute, DeleteRoute, EditCorefile, EditCustom,
     EditsRoute, Edit, control
<1>2. Sound(BlocksIn(custom))'
  <2>1. CASE UNCHANGED custom
    BY <2>1, FragmentsFrame
  <2>2. CASE \E cm \in CustomEdits : EditCustom(cm)
    BY <2>2, EditSound DEF EditCustom, WriteCustom
  <2> QED BY <2>1, <2>2
          DEF User, CreateRoute, ChangeSpec, TouchRoute, DeleteRoute, EditCorefile, EditsRoute
<1> QED BY <1>1, <1>2, FragmentsFrame DEF FragmentsSound, FragmentSound, DelayedSound

LEMMA WatchSound ==
    ASSUME FragmentsSound, Watch
    PROVE  FragmentsSound'
<1>1. UNCHANGED <<custom, inflight, run>>
  BY DEF Watch, DeliverRoute, DeliverConfig, RelistRoutes, RelistConfig, server, control
<1> QED BY <1>1, FragmentsFrame DEF FragmentsSound, FragmentSound, DelayedSound

LEMMA ReadsSound ==
    ASSUME TypeOK, FragmentsSound, ListRoutes \/ ReadCorefile \/ ReadCustom \/ ReadFails \/ Finish
    PROVE  FragmentsSound'
<1>1. UNCHANGED <<custom, inflight>>
  BY DEF ListRoutes, ReadCorefile, ReadCustom, ReadFails, Finish, server
<1>2. CASE run'.fragment = run.fragment
  BY <1>1, <1>2, FragmentsFrame DEF FragmentsSound, FragmentSound, DelayedSound
<1>3. CASE Fail
  BY <1>1, <1>3, RunOver, FragmentsFrame DEF FragmentsSound, FragmentSound, DelayedSound
<1>4. CASE ListRoutes
  <2>1. run'.fragment = run.fragment
    BY <1>4 DEF ListRoutes, TypeOK, RunTypeOK, RunState
  <2> QED BY <1>2, <2>1
<1>5. CASE ReadCorefile
  <2>1. Fail \/ run'.fragment = run.fragment
    BY <1>5 DEF ReadCorefile, TypeOK, RunTypeOK, RunState
  <2> QED BY <1>2, <1>3, <2>1
<1>6. CASE ReadCustom
  <2>1. Fail \/ run'.fragment = FragmentFor(run.items, run.corefile, seenCustom)
    BY <1>6 DEF ReadCustom, TypeOK, RunTypeOK, RunState
  <2>2. run.items \in Items
    BY DEF TypeOK, RunTypeOK, RunState, Items
  <2> QED BY <1>1, <1>3, <2>1, <2>2, FragmentForSound, FragmentsFrame
          DEF FragmentsSound, FragmentSound, DelayedSound
<1>7. CASE ReadFails
  BY <1>3, <1>7 DEF ReadFails
<1>8. CASE Finish
  BY <1>1, <1>8, NoRunSound, FragmentsFrame
     DEF Finish, FragmentsSound, FragmentSound, DelayedSound
<1> QED BY <1>4, <1>5, <1>6, <1>7, <1>8

LEMMA PublishesSound ==
    ASSUME TypeOK, FragmentsSound, Publish \/ PatchFails \/ LatePatch
    PROVE  FragmentsSound'
<1>1. Sound(run.fragment)'
  BY RunOver, FragmentsFrame DEF Publish, PatchFails, LatePatch, control
<1>2. DelayedSound'
  BY FragmentsFrame, StraySound, ArrivedSound DEF Publish, PatchFails, LatePatch
<1>3. Sound(BlocksIn(custom))'
  <2>1. CASE UNCHANGED custom
    BY <2>1, FragmentsFrame
  <2>2. CASE custom # Absent /\ ApplyPatch(run.fragment)
    BY <2>2, PatchSound DEF FragmentsSound
  <2>3. CASE custom # Absent /\ Late("patch") /\ ApplyPatch(inflight.fragment)
    <3>1. inflight.fragment \in Delayed
      BY <2>3 DEF Late, Delayed
    <3> QED BY <2>3, <3>1, PatchSound DEF FragmentsSound, FragmentSound
  <2> QED BY <2>1, <2>2, <2>3 DEF Publish, PatchFails, LatePatch
<1> QED BY <1>1, <1>2, <1>3 DEF FragmentsSound, FragmentSound, DelayedSound

LEMMA StatusesSound ==
    ASSUME TypeOK, FragmentsSound,
           LateStatus \/ \E n \in Names : UpdateStatus(n) \/ StatusFails(n)
    PROVE  FragmentsSound'
<1>1. UNCHANGED custom
  BY DEF UpdateStatus, StatusFails, LateStatus
<1>2. Sound(run.fragment)'
  BY RunOver, FragmentsFrame DEF FragmentsSound, UpdateStatus, StatusFails, LateStatus, control
<1>3. DelayedSound'
  BY FragmentsFrame, StraySound, ArrivedSound
     DEF UpdateStatus, StatusFails, LateStatus, UpdateOf
<1> QED BY <1>1, <1>2, <1>3, FragmentsFrame DEF FragmentsSound, FragmentSound, DelayedSound

LEMMA RestartSound ==
    ASSUME FragmentsSound, Restart
    PROVE  FragmentsSound'
<1>1. Sound(run.fragment)' /\ UNCHANGED custom
  BY NoRunSound DEF Restart, server
<1>2. DelayedSound'
  BY FragmentsFrame, StraySound DEF Restart, NextRequest, UpdateOf
<1> QED BY <1>1, <1>2, FragmentsFrame DEF FragmentsSound, FragmentSound, DelayedSound

LEMMA InitSound == Init => FragmentsSound
BY NoRunSound, NothingSound
   DEF Init, BlocksIn, FragmentsSound, FragmentSound, Delayed

LEMMA StepSound == TypeOK /\ FragmentsSound /\ [Next]_vars => FragmentsSound'
<1> SUFFICES ASSUME TypeOK, FragmentsSound, [Next]_vars PROVE FragmentsSound'
  OBVIOUS
<1>1. CASE User
  BY <1>1, UserSound
<1>2. CASE Watch
  BY <1>2, WatchSound
<1>3. CASE Reconcile
  BY <1>3, ReadsSound, PublishesSound, StatusesSound DEF Reconcile
<1>4. CASE Failure
  BY <1>4, ReadsSound, PublishesSound, StatusesSound, RestartSound DEF Failure
<1>5. CASE UNCHANGED vars
  BY <1>5, FragmentsFrame DEF vars, FragmentsSound, FragmentSound, DelayedSound
<1> QED BY <1>1, <1>2, <1>3, <1>4, <1>5 DEF Next

\* For every set of routes, specs and configuration texts, and however many
\* edits, failures, restarts and late requests there are, the managed entry
\* gives no zone to two routes and none inside the cluster domain.
THEOREM FragmentAlwaysSound == Spec => []FragmentSound
<1>1. FragmentsSound => FragmentSound
  BY DEF FragmentsSound
<1> QED BY <1>1, InitSound, StepSound, TypeCorrect, PTL DEF Spec

-----------------------------------------------------------------------------
(* Refinement: every step, failures and late patches included, maps to a   *)
(* step of Publisher or to none.                                           *)

Slotted == Drafts["run"] = InHand /\ Drafts["late"] = Delayed

LEMMA DraftsSlotted == Slotted /\ DOMAIN Drafts = {"run", "late"}
BY DEF Drafts, Slotted

LEMMA SameDrafts ==
    ASSUME InHand' = InHand, Delayed' = Delayed
    PROVE  Drafts' = Drafts
BY DEF Drafts

\* What each step does to the two drafts and to the entry.
LEMMA Discards ==
    ASSUME InHand' = {}, Delayed' = Delayed, Entry' = Entry
    PROVE  Publishing!Next
<1>1. Drafts' = [Drafts EXCEPT !["run"] = {}]
  BY DEF Drafts
<1> QED BY <1>1 DEF Publishing!Next, Publishing!Discard, Publishing!Slots

LEMMA Writes ==
    ASSUME Entry' \in InHand, InHand' = {}, Delayed' = Delayed
    PROVE  Publishing!Next
<1>1. Drafts' = [Drafts EXCEPT !["run"] = {}] /\ Entry' \in Drafts["run"]
  BY DEF Drafts
<1> QED BY <1>1 DEF Publishing!Next, Publishing!Write, Publishing!Slots

LEMMA WritesLate ==
    ASSUME Entry' \in Delayed, Delayed' = {}, InHand' = InHand
    PROVE  Publishing!Next
<1>1. Drafts' = [Drafts EXCEPT !["late"] = {}] /\ Entry' \in Drafts["late"]
  BY DEF Drafts
<1> QED BY <1>1 DEF Publishing!Next, Publishing!Write, Publishing!Slots

LEMMA DiscardsLate ==
    ASSUME Delayed' = {}, InHand' = InHand, Entry' = Entry
    PROVE  Publishing!Next
<1>1. Drafts' = [Drafts EXCEPT !["late"] = {}]
  BY DEF Drafts
<1> QED BY <1>1 DEF Publishing!Next, Publishing!Discard, Publishing!Slots

LEMMA Delays ==
    ASSUME InHand # {}, InHand' = {}, Delayed = {}, Delayed' = InHand, Entry' = Entry
    PROVE  Publishing!Next
<1>1. Drafts' = [Drafts EXCEPT !["run"] = {}, !["late"] = Drafts["run"]]
  BY DEF Drafts
<1>2. Drafts["run"] # {} /\ Drafts["late"] = {}
  BY DEF Drafts
<1> QED BY <1>1, <1>2 DEF Publishing!Next, Publishing!Delay

LEMMA Composes ==
    ASSUME NEW f, Sound(f), InHand' = {f}, Delayed' = Delayed, Entry' = Entry
    PROVE  Publishing!Next
<1>1. Drafts' = [Drafts EXCEPT !["run"] = {f}] /\ f \in Drafts["run"]'
  BY DEF Drafts
<1> QED BY <1>1 DEF Publishing!Next, Publishing!Compose

-----------------------------------------------------------------------------
(* The actions.                                                            *)

Mapped == Publishing!Next \/ UNCHANGED <<Entry, Drafts>>

LEMMA Frames ==
    /\ UNCHANGED custom => Entry' = Entry
    /\ UNCHANGED <<pc, run>> => InHand' = InHand
    /\ pc' # "publish" => InHand' = {}
    /\ UNCHANGED inflight => Delayed' = Delayed
BY DEF Entry, InHand, Delayed

\* A step after which no run has anything in hand, and nothing else happens.
LEMMA Quiet ==
    ASSUME UNCHANGED <<custom, inflight>>, pc' # "publish" \/ UNCHANGED <<pc, run>>
    PROVE  Mapped
BY Frames, Discards, SameDrafts DEF Mapped

LEMMA PatchInPlace ==
    ASSUME TypeOK, NEW f \in SUBSET Blocks(Names), custom # Absent, ApplyPatch(f)
    PROVE  Entry' = f
<1>1. custom \in CustomMap
  BY DEF TypeOK, ServerTypeOK, MaybeCustom
<1>2. [custom EXCEPT !.managed = f] \in CustomMap /\ [custom EXCEPT !.managed = f].managed = f
  BY <1>1 DEF CustomMap
<1>3. CASE WriteCustom([custom EXCEPT !.managed = f])
  BY <1>2, <1>3, AbsentAssumption DEF WriteCustom, Entry
<1>4. CASE custom.managed = f /\ UNCHANGED custom
  BY <1>4 DEF Entry
<1> QED BY <1>3, <1>4 DEF ApplyPatch

\* A patch that goes astray is delayed; were NoRequest a request, it were lost.
LEMMA StrayPatch ==
    ASSUME GoesAstray(PatchRequest)
    PROVE  Delayed = {} /\ Delayed' \in {{run.fragment}, {}}
BY DEF GoesAstray, PatchRequest, Delayed

LEMMA UserMapped ==
    ASSUME TypeOK, User
    PROVE  Mapped
<1>1. UNCHANGED <<pc, run, inflight>>
  BY DEF User, CreateRoute, ChangeSpec, TouchRoute, DeleteRoute, EditCorefile, EditCustom,
     EditsRoute, Edit, control
<1>2. CASE UNCHANGED custom
  BY <1>1, <1>2, Quiet
<1>3. CASE \E cm \in CustomEdits : EditCustom(cm)
  <2>1. Entry' \in {Absent, NoKey, Garbage, Entry}
    BY <1>3 DEF EditCustom, WriteCustom, CustomEdits, Entry, TypeOK, ServerTypeOK,
                MaybeCustom, CustomMap
  <2>2. Drafts' = Drafts
    BY <1>1, Frames, SameDrafts
  <2> QED BY <2>1, <2>2 DEF Mapped, Publishing!Next, Publishing!Overwrite
<1> QED BY <1>2, <1>3
        DEF User, CreateRoute, ChangeSpec, TouchRoute, DeleteRoute, EditCorefile, EditsRoute

LEMMA ReadsMapped ==
    ASSUME TypeOK, ListRoutes \/ ReadCorefile \/ ReadCustom \/ ReadFails \/ Finish
    PROVE  Mapped
<1>1. UNCHANGED <<custom, inflight>>
  BY DEF ListRoutes, ReadCorefile, ReadCustom, ReadFails, Finish, server
<1>2. CASE pc' # "publish"
  BY <1>1, <1>2, Quiet
<1>3. CASE pc' = "publish"
  <2> DEFINE f == FragmentFor(run.items, run.corefile, seenCustom)
  <2>1. run'.fragment = f
    BY <1>3 DEF ListRoutes, ReadCorefile, ReadCustom, ReadFails, Finish, Fail,
                TypeOK, RunTypeOK, RunState
  <2>2. Sound(f)
    <3>1. run.items \in Items
      BY DEF TypeOK, RunTypeOK, RunState, Items
    <3> QED BY <3>1, FragmentForSound
  <2>3. InHand' = {f}
    BY <1>3, <2>1 DEF InHand
  <2> HIDE DEF f
  <2> QED BY <1>1, <2>2, <2>3, Frames, Composes DEF Mapped
<1> QED BY <1>2, <1>3

LEMMA PublishMapped ==
    ASSUME TypeOK, Publish \/ PatchFails
    PROVE  Mapped
<1>1. pc = "publish" /\ pc' = "status"
  BY DEF Publish, PatchFails, Published
<1>2. InHand = {run.fragment} /\ InHand' = {}
  BY <1>1 DEF InHand
<1>3. CASE UNCHANGED <<custom, inflight>>
  BY <1>1, <1>3, Quiet
<1>4. CASE custom # Absent /\ ApplyPatch(run.fragment) /\ UNCHANGED inflight
  BY <1>2, <1>4, PatchInPlace, RunFragmentTyped, Frames, Writes DEF Mapped
<1>5. CASE GoesAstray(PatchRequest) /\ UNCHANGED custom
  BY <1>2, <1>5, Frames, StrayPatch, Delays, Discards DEF Mapped
<1> QED BY <1>3, <1>4, <1>5 DEF Publish, PatchFails

LEMMA LatePatchMapped ==
    ASSUME TypeOK, LatePatch
    PROVE  Mapped
<1>1. InHand' = InHand /\ Delayed = {inflight.fragment} /\ Delayed' = {}
  BY Frames DEF LatePatch, Late, control, Delayed
<1>2. CASE UNCHANGED custom
  BY <1>1, <1>2, Frames, DiscardsLate DEF Mapped
<1>3. CASE custom # Absent /\ ApplyPatch(inflight.fragment)
  <2>1. inflight.fragment \in SUBSET Blocks(Names)
    BY DEF TypeOK, BoundsTypeOK, Requests, LatePatch, Late
  <2> QED BY <1>1, <1>3, <2>1, PatchInPlace, WritesLate DEF Mapped
<1> QED BY <1>2, <1>3 DEF LatePatch

LEMMA StatusesMapped ==
    ASSUME LateStatus \/ \E n \in Names : UpdateStatus(n) \/ StatusFails(n)
    PROVE  Mapped
<1>1. CASE \E n \in Names : UpdateStatus(n)
  <2>1. UNCHANGED <<custom, inflight>> /\ pc' # "publish"
    BY <1>1 DEF UpdateStatus, StatusDone, Due
  <2> QED BY <2>1, Quiet
<1>2. CASE \E n \in Names : StatusFails(n)
  <2>1. UNCHANGED custom /\ pc' # "publish" /\ Delayed' = Delayed
    BY <1>2 DEF StatusFails, StatusDone, Due, GoesAstray, UpdateOf, Delayed
  <2> QED BY <2>1, Frames, Discards DEF Mapped
<1>3. CASE LateStatus
  <2>1. UNCHANGED <<custom, pc, run>> /\ Delayed' = Delayed
    BY <1>3 DEF LateStatus, Late, control, Delayed
  <2> QED BY <2>1, Frames, SameDrafts DEF Mapped
<1> QED BY <1>1, <1>2, <1>3

LEMMA RestartMapped ==
    ASSUME Restart
    PROVE  Mapped
<1>1. UNCHANGED custom /\ InHand' = {}
  BY Frames DEF Restart, server
<1>2. CASE UNCHANGED inflight
  BY <1>1, <1>2, Frames, Discards DEF Mapped
<1>3. CASE pc = "publish" /\ GoesAstray(PatchRequest)
  <2>1. InHand = {run.fragment}
    BY <1>3 DEF InHand
  <2> QED BY <1>1, <1>3, <2>1, Frames, StrayPatch, Delays, Discards DEF Mapped
<1>4. CASE \E n \in left : GoesAstray(UpdateOf(n))
  <2>1. Delayed' = Delayed
    BY <1>4 DEF GoesAstray, UpdateOf, Delayed
  <2> QED BY <1>1, <2>1, Frames, Discards DEF Mapped
<1> QED BY <1>2, <1>3, <1>4 DEF Restart, NextRequest

LEMMA StepMapped == TypeOK /\ [Next]_vars => Mapped
<1> SUFFICES ASSUME TypeOK, [Next]_vars PROVE Mapped
  OBVIOUS
<1>1. CASE User
  BY <1>1, UserMapped
<1>2. CASE Watch
  <2>1. UNCHANGED <<custom, inflight, pc, run>>
    BY <1>2 DEF Watch, DeliverRoute, DeliverConfig, RelistRoutes, RelistConfig, server, control
  <2> QED BY <2>1, Quiet
<1>3. CASE Reconcile
  BY <1>3, ReadsMapped, PublishMapped, StatusesMapped DEF Reconcile
<1>4. CASE Failure
  BY <1>4, ReadsMapped, PublishMapped, LatePatchMapped, StatusesMapped, RestartMapped
     DEF Failure
<1>5. CASE UNCHANGED vars
  BY <1>5, Quiet DEF vars
<1> QED BY <1>1, <1>2, <1>3, <1>4, <1>5 DEF Next

\* Refinement: whatever the constants, whatever users do and however often
\* calls fail and processes restart, the controller does to the managed entry
\* only what Publisher allows.
THEOREM PublishesAlways == Spec => PublishesAsPromised
<1>1. Init => Publishing!Init
  <2> SUFFICES ASSUME Init PROVE Publishing!Init
    OBVIOUS
  <2>1. Entry \in {Absent, NoKey, Garbage}
    BY DEF Init, Entry
  <2>2. Drafts = [s \in {"run"} \cup {"late"} |-> {}]
    BY DEF Init, Drafts, InHand, Delayed
  <2> QED BY <2>1, <2>2 DEF Publishing!Init, Publishing!Slots
<1>2. TypeOK /\ [Next]_vars => [Publishing!Next]_<<Entry, Drafts>>
  BY StepMapped DEF Mapped
<1> QED BY <1>1, <1>2, TypeCorrect, PTL DEF Spec, PublishesAsPromised, Publishing!Spec
=============================================================================
