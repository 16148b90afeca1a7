---------------------------- MODULE StatusProofs ----------------------------
(***************************************************************************)
(* Statuses tell the truth, and the controller rests only when the managed *)
(* entry is right.                                                         *)
(*                                                                         *)
(* Truth: a status is right about the spec whose generation it names, and  *)
(* right when it says Published.  Between the list a verdict was made on   *)
(* and the object its update lands on lie reads, a patch and perhaps a     *)
(* process that has died.  The invariant follows it all the way: whoever   *)
(* holds an object holds the one the server holds, or one whose            *)
(* resourceVersion the server will never have again; and every fragment    *)
(* somebody has seen has been written.                                     *)
(*                                                                         *)
(* Rest: the events on their way lead from what the cache shows to what    *)
(* the server has; what the filters drop changes nothing a run would see;  *)
(* and unless it is woken again, a run has read what the cache shows.      *)
(***************************************************************************)
EXTENDS ControllerProofs

\* What statuses are judged by.
Now == [routes |-> routes, revision |-> revision, wrote |-> wrote]

Servers == [routes : [Names -> MaybeObject], revision : [Names -> Nat], wrote : SUBSET Blocks(Names)]

\* A missing key and a hand-written value are no fragments.  (TLC cannot ask
\* whether a model value is a set of blocks, so this is no ASSUME.)
ForeignApart == {NoKey, Garbage} \cap SUBSET Blocks(Names) = {}

\* Object o of name n is current or will never be current again.
Copy(n, o, s) ==
    o # Absent =>
        /\ o.rv <= s.revision[n]
        /\ s.routes[n] # Absent /\ s.routes[n].rv = o.rv => s.routes[n] = o

Copies(items, s) == \A n \in Names : Copy(n, items[n], s)

Held(cm, s) == BlocksIn(cm) \subseteq s.wrote

\* Status st is right for object o of name n.
Told(n, o, st, s) ==
    /\ st.observed = o.gen
    /\ TellsOf(ClaimOf(n, o), st.accepted)
    /\ ForeignApart /\ st.published = "Published" => Block(RenderRoute(n, o)) \in s.wrote

StatusTruthful(n, o, s) ==
    o # Absent /\ o.status # NoStatus =>
        /\ o.status.observed <= o.gen
        /\ o.status.observed = o.gen => Told(n, o, o.status, s)

\* An update that is still accepted is right for the object it lands on.
RequestTruthful(u, s) ==
    u.kind = "status" =>
        /\ u.rv <= s.revision[u.name]
        /\ s.routes[u.name] # Absent /\ s.routes[u.name].rv = u.rv =>
              Told(u.name, s.routes[u.name], u.status, s)

\* Run r at p with the statuses of l still to write.
RunTruthful(p, r, l, s) ==
    /\ Copies(r.items, s) /\ Held(r.custom, s)
    /\ p = "publish" => \A n \in Present(r.items) :
          /\ TellsOf(ClaimOf(n, r.items[n]), r.verdicts[n].condition)
          /\ r.verdicts[n].accepted => Block(RenderRoute(n, r.items[n])) \in r.fragment
    /\ p = "status" => \A n \in l : Told(n, r.items[n], r.report[n], s)

ServerTruthful ==
    /\ Copies(routes, Now) /\ Held(custom, Now)
    /\ \A n \in Names : StatusTruthful(n, routes[n], Now)

WatchTruthful ==
    /\ \A i \in 1 .. Len(routeWatch) : Copy(routeWatch[i].name, routeWatch[i].object, Now)
    /\ \A i \in 1 .. Len(configWatch) :
          configWatch[i].map = "coredns-custom" => Held(configWatch[i].value, Now)

CacheTruthful == Copies(seenRoutes, Now) /\ Held(seenCustom, Now)

PendingTruthful == inflight # NoRequest => RequestTruthful(inflight, Now)

Truthful ==
    /\ ServerTruthful /\ WatchTruthful /\ CacheTruthful
    /\ RunTruthful(pc, run, left, Now) /\ PendingTruthful

-----------------------------------------------------------------------------
(* The server moves on: a name that is written gets a resourceVersion it   *)
(* never had, and what was in the entry stays written.                     *)

Grows(s, t) ==
    /\ \A n \in Names :
          /\ s.revision[n] <= t.revision[n]
          /\ \/ t.routes[n] = s.routes[n] \/ t.routes[n] = Absent
             \/ t.routes[n].rv > s.revision[n]
    /\ s.wrote \subseteq t.wrote

LEMMA NowTyped ==
    /\ Now.routes = routes /\ Now.revision = revision /\ Now.wrote = wrote
    /\ TypeOK => Now \in Servers
BY DEF Now, Servers, TypeOK, ServerTypeOK

LEMMA ObjectVersions == \A o \in MaybeObject : o # Absent => o.rv \in Nat /\ o \in Object
BY DEF MaybeObject, Object

LEMMA CopyKept ==
    ASSUME NEW s \in Servers, NEW t \in Servers, Grows(s, t),
           NEW n \in Names, NEW o \in MaybeObject, Copy(n, o, s)
    PROVE  Copy(n, o, t)
<1>1. /\ s.revision[n] \in Nat /\ t.revision[n] \in Nat
      /\ s.routes[n] \in MaybeObject /\ t.routes[n] \in MaybeObject
  BY DEF Servers
<1> QED BY <1>1, ObjectVersions DEF Grows, Copy

LEMMA ToldKept ==
    ASSUME NEW s, NEW t, Grows(s, t)
    PROVE  /\ \A n, o, st : Told(n, o, st, s) => Told(n, o, st, t)
           /\ \A n, o : StatusTruthful(n, o, s) => StatusTruthful(n, o, t)
           /\ \A cm : Held(cm, s) => Held(cm, t)
BY DEF Grows, Told, StatusTruthful, Held

LEMMA RunKept ==
    ASSUME NEW s \in Servers, NEW t \in Servers, Grows(s, t),
           NEW p, NEW r \in RunState, NEW l, RunTruthful(p, r, l, s)
    PROVE  RunTruthful(p, r, l, t)
<1>1. \A n \in Names : r.items[n] \in MaybeObject
  BY DEF RunState
<1>2. Copies(r.items, t)
  BY <1>1, CopyKept DEF RunTruthful, Copies
<1> QED BY <1>2, ToldKept DEF RunTruthful

LEMMA RequestKept ==
    ASSUME NEW s \in Servers, NEW t \in Servers, Grows(s, t),
           NEW u \in Requests, RequestTruthful(u, s)
    PROVE  RequestTruthful(u, t)
<1> SUFFICES ASSUME u.kind = "status" PROVE RequestTruthful(u, t)
  BY DEF RequestTruthful
<1>1. u.name \in Names /\ u.rv \in Nat
  BY DEF Requests
<1>2. /\ s.revision[u.name] \in Nat /\ t.revision[u.name] \in Nat
      /\ t.routes[u.name] \in MaybeObject
  BY <1>1 DEF Servers
<1>3. u.rv <= s.revision[u.name] /\ s.revision[u.name] <= t.revision[u.name]
  BY <1>1 DEF RequestTruthful, Grows
<1>4. ASSUME t.routes[u.name] # Absent, t.routes[u.name].rv = u.rv
      PROVE  t.routes[u.name] = s.routes[u.name]
  BY <1>1, <1>2, <1>3, <1>4, ObjectVersions DEF Grows
<1> QED BY <1>1, <1>2, <1>3, <1>4, ToldKept DEF RequestTruthful

\* Whoever does not move keeps what it has.
LEMMA Stands ==
    ASSUME TypeOK, TypeOK', Truthful, Grows(Now, Now')
    PROVE  /\ UNCHANGED <<seenRoutes, seenCustom>> => CacheTruthful'
           /\ UNCHANGED <<pc, run, left>> => RunTruthful(pc', run', left', Now')
           /\ UNCHANGED inflight => PendingTruthful'
           /\ UNCHANGED <<routes, revision, custom>> => ServerTruthful'
<1>1. Now \in Servers /\ Now' \in Servers
  BY DEF Now, Servers, TypeOK, ServerTypeOK
<1>2. UNCHANGED <<seenRoutes, seenCustom>> => CacheTruthful'
  BY <1>1, CopyKept, ToldKept DEF Truthful, CacheTruthful, Copies, TypeOK, CacheTypeOK
<1>3. UNCHANGED <<pc, run, left>> => RunTruthful(pc', run', left', Now')
  BY <1>1, RunKept DEF Truthful, TypeOK, RunTypeOK
<1>4. UNCHANGED inflight => PendingTruthful'
  BY <1>1, RequestKept DEF Truthful, PendingTruthful, TypeOK, BoundsTypeOK
<1>5. UNCHANGED <<routes, revision, custom>> => ServerTruthful'
  BY <1>1, CopyKept, ToldKept DEF Truthful, ServerTruthful, Copies, TypeOK, ServerTypeOK
<1> QED BY <1>2, <1>3, <1>4, <1>5

LEMMA NothingWritten ==
    ASSUME TypeOK, UNCHANGED <<routes, revision, wrote>>
    PROVE  Grows(Now, Now') /\ Now' = Now
<1>1. \A n \in Names : revision[n] \in Nat
  BY DEF TypeOK, ServerTypeOK
<1> QED BY <1>1 DEF Grows, Now

-----------------------------------------------------------------------------
(* Writes to the server.                                                   *)

LEMMA ServersTyped == TypeOK /\ TypeOK' => Now \in Servers /\ Now' \in Servers
BY DEF Now, Servers, TypeOK, ServerTypeOK

LEMMA EventsTyped ==
    ASSUME TypeOK, NEW i \in 1 .. Len(routeWatch)
    PROVE  routeWatch[i].name \in Names /\ routeWatch[i].object \in MaybeObject
<1>1. routeWatch[i] \in RouteEvents
  BY DEF TypeOK, WatchTypeOK
<1> QED BY <1>1 DEF RouteEvents

LEMMA RouteWrite ==
    ASSUME TypeOK, TypeOK', ServerTruthful, WatchTruthful,
           NEW n \in Names, NEW o \in MaybeObject, WriteRoute(n, o),
           o # Absent => o.rv = revision[n] + 1, StatusTruthful(n, o, Now),
           UNCHANGED <<custom, configWatch, wrote>>
    PROVE  Grows(Now, Now') /\ ServerTruthful' /\ WatchTruthful'
<1>1. Now \in Servers /\ Now' \in Servers
  BY ServersTyped
<1>2. /\ routes' = [routes EXCEPT ![n] = o] /\ routes \in [Names -> MaybeObject]
      /\ revision' = [revision EXCEPT ![n] = @ + 1] /\ revision \in [Names -> Nat]
  BY DEF WriteRoute, TypeOK, ServerTypeOK
<1>3. Grows(Now, Now')
  <2>1. o = Absent \/ o.rv > revision[n]
    BY <1>2
  <2> QED BY <1>2, <2>1 DEF Grows, Now
<1>4. Copy(n, o, Now')
  BY <1>2 DEF Copy, Now
<1>5. ServerTruthful'
  <2>1. Copies(routes', Now')
    <3> SUFFICES ASSUME NEW m \in Names PROVE Copy(m, routes'[m], Now')
      BY DEF Copies
    <3>1. CASE m = n
      BY <1>2, <1>4, <3>1
    <3>2. CASE m # n
      BY <1>1, <1>2, <1>3, <3>2, CopyKept DEF ServerTruthful, Copies
    <3> QED BY <3>1, <3>2
  <2>2. Held(custom', Now')
    BY <1>3, ToldKept DEF ServerTruthful
  <2>3. \A m \in Names : StatusTruthful(m, routes'[m], Now')
    BY <1>2, <1>3, ToldKept DEF ServerTruthful
  <2> QED BY <2>1, <2>2, <2>3 DEF ServerTruthful
<1>6. WatchTruthful'
  <2>1. routeWatch \in Seq(RouteEvents) /\ configWatch \in Seq(ConfigEvents)
    BY DEF TypeOK, WatchTypeOK
  <2>2. \A i \in 1 .. Len(routeWatch) :
           routeWatch[i].name \in Names /\ routeWatch[i].object \in MaybeObject
    BY EventsTyped
  <2>3. \A i \in 1 .. Len(routeWatch) : Copy(routeWatch[i].name, routeWatch[i].object, Now')
    BY <1>1, <1>3, <2>2, CopyKept DEF WatchTruthful
  <2>4. /\ Len(routeWatch') = Len(routeWatch) + 1
        /\ \A i \in 1 .. Len(routeWatch) : routeWatch'[i] = routeWatch[i]
        /\ routeWatch'[Len(routeWatch) + 1] = RouteEvent(n, o)
    BY <2>1 DEF WriteRoute
  <2>5. \A i \in 1 .. Len(routeWatch') : Copy(routeWatch'[i].name, routeWatch'[i].object, Now')
    BY <1>4, <2>1, <2>3, <2>4 DEF RouteEvent
  <2> QED BY <1>3, <2>5, ToldKept DEF WatchTruthful
<1> QED BY <1>3, <1>5, <1>6

\* An event about the Corefile, or about a ConfigMap that has been written.
LEMMA ConfigEventTruthful ==
    ASSUME TypeOK, TypeOK', WatchTruthful, Grows(Now, Now'), NEW e,
           configWatch' = Append(configWatch, e), UNCHANGED routeWatch,
           e.map = "coredns-custom" => Held(e.value, Now')
    PROVE  WatchTruthful'
<1>1. Now \in Servers /\ Now' \in Servers
  BY ServersTyped
<1>2. configWatch \in Seq(ConfigEvents) /\ routeWatch \in Seq(RouteEvents)
  BY DEF TypeOK, WatchTypeOK
<1>3. \A i \in 1 .. Len(routeWatch) :
         routeWatch[i].name \in Names /\ routeWatch[i].object \in MaybeObject
  BY EventsTyped
<1>4. \A i \in 1 .. Len(routeWatch) : Copy(routeWatch[i].name, routeWatch[i].object, Now')
  BY <1>1, <1>3, CopyKept DEF WatchTruthful
<1>5. \A i \in 1 .. Len(configWatch) :
         configWatch[i].map = "coredns-custom" => Held(configWatch[i].value, Now')
  BY ToldKept DEF WatchTruthful
<1>6. /\ Len(configWatch') = Len(configWatch) + 1
      /\ \A i \in 1 .. Len(configWatch) : configWatch'[i] = configWatch[i]
      /\ configWatch'[Len(configWatch) + 1] = e
  BY <1>2
<1>7. \A i \in 1 .. Len(configWatch') :
         configWatch'[i].map = "coredns-custom" => Held(configWatch'[i].value, Now')
  BY <1>2, <1>5, <1>6
<1> QED BY <1>4, <1>7 DEF WatchTruthful

LEMMA CustomWrite ==
    ASSUME TypeOK, TypeOK', ServerTruthful, WatchTruthful,
           NEW cm, WriteCustom(cm), UNCHANGED <<routes, revision, routeWatch>>
    PROVE  Grows(Now, Now') /\ ServerTruthful' /\ WatchTruthful' /\ Held(cm, Now')
<1>1. Now \in Servers /\ Now' \in Servers
  BY ServersTyped
<1>2. Grows(Now, Now') /\ Held(cm, Now')
  <2>1. \A n \in Names : revision[n] \in Nat
    BY DEF TypeOK, ServerTypeOK
  <2> QED BY <2>1 DEF WriteCustom, Grows, Now, Held
<1>3. WatchTruthful'
  <2>1. CustomEvent(cm).map = "coredns-custom" /\ CustomEvent(cm).value = cm
    BY DEF CustomEvent
  <2> QED BY <1>2, <2>1, ConfigEventTruthful DEF WriteCustom
<1>4. ServerTruthful'
  <2>1. Copies(routes', Now')
    BY <1>1, <1>2, CopyKept DEF ServerTruthful, Copies, TypeOK, ServerTypeOK
  <2> QED BY <1>2, <2>1, ToldKept DEF ServerTruthful, WriteCustom
<1> QED BY <1>2, <1>3, <1>4

LEMMA CorefileWrite ==
    ASSUME TypeOK, TypeOK', ServerTruthful, WatchTruthful,
           NEW v, WriteCorefile(v), UNCHANGED <<routes, revision, custom, routeWatch, wrote>>
    PROVE  Grows(Now, Now') /\ ServerTruthful' /\ WatchTruthful'
<1>1. Grows(Now, Now') /\ Now' = Now
  BY NothingWritten
<1>2. CorefileEvent(v).map # "coredns-custom"
  BY DEF CorefileEvent
<1>3. WatchTruthful'
  BY <1>1, <1>2, ConfigEventTruthful DEF WriteCorefile
<1> QED BY <1>1, <1>3 DEF ServerTruthful

\* However a patch ends, what it carries has been written.
LEMMA PatchWrite ==
    ASSUME TypeOK, TypeOK', ServerTruthful, WatchTruthful, NEW f \in SUBSET Blocks(Names),
           custom # Absent, ApplyPatch(f), UNCHANGED <<routes, revision, routeWatch>>
    PROVE  /\ Grows(Now, Now') /\ ServerTruthful' /\ WatchTruthful'
           /\ ForeignApart => f \subseteq Now'.wrote
<1>1. custom \in CustomMap
  BY DEF TypeOK, ServerTypeOK, MaybeCustom
<1>2. ForeignApart => f \notin {NoKey, Garbage}
  BY DEF ForeignApart
<1>3. CASE WriteCustom([custom EXCEPT !.managed = f])
  <2> DEFINE cm == [custom EXCEPT !.managed = f]
  <2>1. cm \in CustomMap /\ cm.managed = f
    BY <1>1 DEF CustomMap
  <2>2. cm # Absent
    BY <2>1, AbsentAssumption
  <2>3. ForeignApart => BlocksIn(cm) = f
    BY <1>2, <2>1, <2>2 DEF BlocksIn
  <2> HIDE DEF cm
  <2>4. WriteCustom(cm)
    BY <1>3 DEF cm
  <2>5. Grows(Now, Now') /\ ServerTruthful' /\ WatchTruthful' /\ Held(cm, Now')
    BY <2>4, CustomWrite
  <2> QED BY <2>3, <2>5 DEF Held
<1>4. CASE custom.managed = f /\ UNCHANGED <<custom, configWatch, wrote>>
  <2>1. Grows(Now, Now') /\ Now' = Now
    BY <1>4, NothingWritten
  <2>2. ForeignApart => BlocksIn(custom) = f
    BY <1>2, <1>4 DEF BlocksIn
  <2>3. ServerTruthful' /\ WatchTruthful'
    BY <1>4, <2>1 DEF ServerTruthful, WatchTruthful
  <2> QED BY <2>1, <2>2, <2>3 DEF ServerTruthful, Held
<1> QED BY <1>3, <1>4 DEF ApplyPatch

\* Statuses are about what does not change without the generation.
LEMMA SameObject ==
    ASSUME NEW o, NEW q, o.gen = q.gen, o.created = q.created, o.spec = q.spec
    PROVE  \A n, st, s : Told(n, o, st, s) <=> Told(n, q, st, s)
BY DEF Told, ClaimOf, RenderRoute

LEMMA StatusWrite ==
    ASSUME TypeOK, TypeOK', ServerTruthful, WatchTruthful,
           NEW u \in Requests, u.kind = "status", RequestTruthful(u, Now),
           StillListed(u), WriteStatus(u), UNCHANGED <<custom, configWatch, wrote>>
    PROVE  Grows(Now, Now') /\ ServerTruthful' /\ WatchTruthful'
<1> DEFINE n == u.name
           o == [routes[n] EXCEPT !.rv = revision[n] + 1, !.status = u.status]
<1>1. n \in Names /\ u.status \in {NoStatus} \cup Status
  BY DEF Requests
<1>2. routes[n] \in Object /\ revision[n] + 1 \in Nat
  BY <1>1 DEF TypeOK, ServerTypeOK, StillListed, MaybeObject
<1>3. o \in Object
  BY <1>1, <1>2, ObjectUpdates
<1>4. /\ o.gen = routes[n].gen /\ o.created = routes[n].created /\ o.spec = routes[n].spec
      /\ o.rv = revision[n] + 1 /\ o.status = u.status /\ o.gen \in Nat
  BY <1>2 DEF Object
<1>5. Told(n, routes[n], u.status, Now)
  BY DEF RequestTruthful, StillListed, Now
<1>6. WriteRoute(n, o)
  BY DEF WriteStatus
<1> HIDE DEF o, n
<1>7. Told(n, o, o.status, Now)
  BY <1>4, <1>5, SameObject
<1>8. StatusTruthful(n, o, Now)
  BY <1>4, <1>7 DEF StatusTruthful, Told
<1> QED BY <1>1, <1>3, <1>4, <1>6, <1>8, RouteWrite DEF MaybeObject

-----------------------------------------------------------------------------
(* Users and watches.                                                      *)

LEMMA UserTruthful ==
    ASSUME TypeOK, TypeOK', Truthful, User
    PROVE  Grows(Now, Now') /\ Truthful'
<1>1. UNCHANGED <<seenRoutes, seenCustom, pc, run, left, inflight>>
  BY DEF User, CreateRoute, ChangeSpec, TouchRoute, DeleteRoute, EditCorefile, EditCustom,
     EditsRoute, Edit, control, cache
<1>2. Grows(Now, Now') /\ ServerTruthful' /\ WatchTruthful'
  <2> USE DEF Truthful
  <2>1. ASSUME NEW n \in Names, NEW s \in Specs, NEW t \in Times, CreateRoute(n, s, t)
        PROVE  Grows(Now, Now') /\ ServerTruthful' /\ WatchTruthful'
    <3> DEFINE o == NewObject(n, s, t)
    <3>1. o \in Object /\ o.rv = revision[n] + 1 /\ o.status = NoStatus
      BY DEF TypeOK, ServerTypeOK, NewObject, Object
    <3>2. WriteRoute(n, o) /\ UNCHANGED <<custom, configWatch, wrote>>
      BY <2>1 DEF CreateRoute, EditsRoute
    <3> HIDE DEF o
    <3> QED BY <3>1, <3>2, RouteWrite DEF StatusTruthful, MaybeObject
  <2>2. ASSUME NEW n \in Names, NEW s \in Specs, ChangeSpec(n, s)
        PROVE  Grows(Now, Now') /\ ServerTruthful' /\ WatchTruthful'
    <3> DEFINE o == [routes[n] EXCEPT !.gen = @ + 1, !.rv = revision[n] + 1, !.spec = s]
    <3>1. routes[n] \in Object /\ revision[n] + 1 \in Nat
      BY <2>2 DEF TypeOK, ServerTypeOK, ChangeSpec, MaybeObject
    <3>2. routes[n].gen + 1 \in Nat
      BY <3>1 DEF Object
    <3>3. o \in Object
      BY <3>1, <3>2, ObjectUpdates
    <3>4. /\ o.rv = revision[n] + 1 /\ o.status = routes[n].status
          /\ o.gen = routes[n].gen + 1 /\ routes[n].gen \in Nat
      BY <3>1 DEF Object
    <3>5. o.status # NoStatus => o.status.observed \in Nat
      BY <3>3 DEF Object, Status
    <3>6. WriteRoute(n, o) /\ UNCHANGED <<custom, configWatch, wrote>>
      BY <2>2 DEF ChangeSpec, EditsRoute
    <3> HIDE DEF o
    <3>7. StatusTruthful(n, routes[n], Now) /\ routes[n] # Absent
      BY <2>2 DEF ServerTruthful, ChangeSpec
    <3>8. StatusTruthful(n, o, Now)
      BY <3>4, <3>5, <3>7 DEF StatusTruthful
    <3> QED BY <3>3, <3>4, <3>6, <3>8, RouteWrite DEF MaybeObject
  <2>3. ASSUME NEW n \in Names, TouchRoute(n)
        PROVE  Grows(Now, Now') /\ ServerTruthful' /\ WatchTruthful'
    <3> DEFINE o == [routes[n] EXCEPT !.rv = revision[n] + 1]
    <3>1. routes[n] \in Object /\ revision[n] + 1 \in Nat
      BY <2>3 DEF TypeOK, ServerTypeOK, TouchRoute, MaybeObject
    <3>2. o \in Object
      BY <3>1, ObjectUpdates
    <3>3. /\ o.rv = revision[n] + 1 /\ o.status = routes[n].status /\ o.gen = routes[n].gen
          /\ o.created = routes[n].created /\ o.spec = routes[n].spec
      BY <3>1 DEF Object
    <3>4. WriteRoute(n, o) /\ UNCHANGED <<custom, configWatch, wrote>>
      BY <2>3 DEF TouchRoute, EditsRoute
    <3> HIDE DEF o
    <3>5. StatusTruthful(n, routes[n], Now) /\ routes[n] # Absent
      BY <2>3 DEF ServerTruthful, TouchRoute
    <3>6. StatusTruthful(n, o, Now)
      BY <3>3, <3>5, SameObject DEF StatusTruthful
    <3> QED BY <3>2, <3>3, <3>4, <3>6, RouteWrite DEF MaybeObject
  <2>4. ASSUME NEW n \in Names, DeleteRoute(n)
        PROVE  Grows(Now, Now') /\ ServerTruthful' /\ WatchTruthful'
    BY <2>4, RouteWrite DEF DeleteRoute, EditsRoute, StatusTruthful, MaybeObject
  <2>5. ASSUME NEW v, EditCorefile(v)
        PROVE  Grows(Now, Now') /\ ServerTruthful' /\ WatchTruthful'
    BY <2>5, CorefileWrite DEF EditCorefile
  <2>6. ASSUME NEW cm, EditCustom(cm)
        PROVE  Grows(Now, Now') /\ ServerTruthful' /\ WatchTruthful'
    BY <2>6, CustomWrite DEF EditCustom
  <2> QED BY <2>1, <2>2, <2>3, <2>4, <2>5, <2>6 DEF User
<1> QED BY <1>1, <1>2, Stands DEF Truthful

LEMMA WatchesTruthful ==
    ASSUME TypeOK, TypeOK', Truthful, Watch
    PROVE  Grows(Now, Now') /\ Truthful'
<1>1. UNCHANGED <<routes, revision, custom, wrote, pc, run, left, inflight>>
  BY DEF Watch, DeliverRoute, DeliverConfig, RelistRoutes, RelistConfig, server, control, history
<1>2. Grows(Now, Now') /\ Now' = Now
  BY <1>1, NothingWritten
<1>3. /\ routeWatch \in Seq(RouteEvents) /\ configWatch \in Seq(ConfigEvents)
      /\ seenRoutes \in [Names -> MaybeObject]
  BY DEF TypeOK, WatchTypeOK, CacheTypeOK
<1>4. WatchTruthful' /\ CacheTruthful'
  <2> USE DEF Truthful, WatchTruthful, CacheTruthful, server, history
  <2>1. CASE DeliverRoute
    <3> DEFINE e == Head(routeWatch)
    <3>1. e = routeWatch[1] /\ 1 \in 1 .. Len(routeWatch) /\ e \in RouteEvents
      BY <1>3, <2>1 DEF DeliverRoute
    <3>2. e.name \in Names /\ Copy(e.name, e.object, Now)
      BY <3>1 DEF RouteEvents
    <3>3. seenRoutes' = [seenRoutes EXCEPT ![e.name] = e.object]
      BY <2>1 DEF DeliverRoute
    <3> HIDE DEF e
    <3>4. Copies(seenRoutes', Now')
      BY <1>2, <1>3, <3>2, <3>3 DEF Copies
    <3>5. /\ Len(routeWatch') = Len(routeWatch) - 1
          /\ \A i \in 1 .. Len(routeWatch') : routeWatch'[i] = routeWatch[i + 1]
      BY <1>3, <2>1 DEF DeliverRoute
    <3>6. \A i \in 1 .. Len(routeWatch') : Copy(routeWatch'[i].name, routeWatch'[i].object, Now')
      BY <1>2, <1>3, <3>5
    <3> QED BY <1>2, <2>1, <3>4, <3>6 DEF DeliverRoute
  <2>2. CASE DeliverConfig
    <3> DEFINE e == Head(configWatch)
    <3>1. e = configWatch[1] /\ 1 \in 1 .. Len(configWatch)
      BY <1>3, <2>2 DEF DeliverConfig
    <3>2. e.map = "coredns-custom" => Held(e.value, Now)
      BY <3>1
    <3>3. seenCustom' = seenCustom \/ (e.map = "coredns-custom" /\ seenCustom' = e.value)
      BY <2>2 DEF DeliverConfig
    <3> HIDE DEF e
    <3>4. Held(seenCustom', Now')
      BY <1>2, <3>2, <3>3
    <3>5. /\ Len(configWatch') = Len(configWatch) - 1
          /\ \A i \in 1 .. Len(configWatch') : configWatch'[i] = configWatch[i + 1]
      BY <1>3, <2>2 DEF DeliverConfig
    <3>6. \A i \in 1 .. Len(configWatch') :
             configWatch'[i].map = "coredns-custom" => Held(configWatch'[i].value, Now')
      BY <1>2, <1>3, <3>5
    <3> QED BY <1>2, <2>2, <3>4, <3>6 DEF DeliverConfig
  <2>3. CASE RelistRoutes
    BY <1>2, <2>3 DEF RelistRoutes, ServerTruthful
  <2>4. CASE RelistConfig
    BY <1>2, <2>4 DEF RelistConfig, ServerTruthful
  <2> QED BY <2>1, <2>2, <2>3, <2>4 DEF Watch
<1> QED BY <1>1, <1>2, <1>4, Stands DEF Truthful

-----------------------------------------------------------------------------
(* A run.  These lemmas are about any run, so that they serve for the run  *)
(* of a process that has lost its lease as well.                           *)

LEMMA VerdictTells ==
    ASSUME NEW items \in Items, NEW core, NEW cm, NEW n \in Present(items)
    PROVE  /\ TellsOf(ClaimOf(n, items[n]), Verdict(n, items, core, cm).condition)
           /\ Verdict(n, items, core, cm).accepted =>
                 Block(RenderRoute(n, items[n])) \in FragmentFor(items, core, cm)
<1> DEFINE claim == ClaimOf(n, items[n])
           d == Decision(n, items, core, cm)
           unresolved == Inspected(core, cm).unresolved
           served == Served(Inspected(core, cm).listeners)
           winners == Winners(Candidates(Claims(items), served, ClusterDomain))
<1>1. /\ d.reserved = ReservedOf(claim, ClusterDomain)
      /\ d.owned \subseteq OwnedOf(claim, served)
      /\ d.conflicts \subseteq ConflictsOf(claim, winners)
      /\ d.accepted => claim \in winners
  BY DEF Decision, Decide
<1>2. /\ Verdict(n, items, core, cm).condition = AcceptedCondition(d, unresolved)
      /\ Verdict(n, items, core, cm).accepted = d.accepted
  BY DEF Verdict
<1>3. \A i \in ConflictsOf(claim, winners) : i.zone \in CanonicalZones(claim)
  BY DEF ConflictsOf
<1>4. \A i \in OwnedOf(claim, served) : i.zone \in CanonicalZones(claim)
  BY DEF OwnedOf
<1>5. claim.name = n
  BY DEF ClaimOf
<1>6. claim \in winners => n \in AcceptedNames(items, core, cm)
  BY <1>5 DEF AcceptedNames
<1>7. n \in AcceptedNames(items, core, cm) =>
         Block(RenderRoute(n, items[n])) \in FragmentFor(items, core, cm)
  BY DEF FragmentFor, Render
<1> HIDE DEF claim, d, served, winners, unresolved
<1>8. TellsOf(claim, AcceptedCondition(d, unresolved))
  <2>1. CASE d.reserved # {}
    BY <1>1, <2>1 DEF AcceptedCondition, TellsOf
  <2>2. CASE d.reserved = {} /\ d.owned # {}
    BY <1>1, <1>4, <2>2 DEF AcceptedCondition, TellsOf
  <2>3. CASE d.reserved = {} /\ d.owned = {} /\ d.conflicts # {}
    BY <1>1, <1>3, <2>3 DEF AcceptedCondition, TellsOf
  <2>4. CASE d.reserved = {} /\ d.owned = {} /\ d.conflicts = {}
    <3>1. AcceptedCondition(d, unresolved).reason \in {"AcceptedWithUnresolvedImports", "Accepted"}
      BY <2>4 DEF AcceptedCondition
    <3> QED BY <1>1, <2>4, <3>1 DEF TellsOf
  <2> QED BY <2>1, <2>2, <2>3, <2>4
<1> QED BY <1>1, <1>2, <1>6, <1>7, <1>8 DEF claim

LEMMA NoRunTruthful ==
    ASSUME NEW s
    PROVE  /\ BlocksIn(NoRun.custom) = {}
           /\ RunTruthful("idle", NoRun, {}, s)
<1>1. NoRun.custom = Absent /\ NoRun.items = [n \in Names |-> Absent]
  BY DEF NoRun
<1> QED BY <1>1 DEF RunTruthful, Copies, Copy, Held, BlocksIn

\* The statuses of a run that has published or failed to: Published is said
\* only of what has been written.
LEMMA ReportTruthful ==
    ASSUME NEW r \in RunState, NEW l, NEW s, RunTruthful("publish", r, l, s),
           \A n \in Present(r.items) : r.verdicts[n] \in RunVerdict,
           NEW outcome \in Outcomes, NEW failed,
           ForeignApart /\ outcome = "InPlace" => r.fragment \subseteq s.wrote,
           NEW q, q = [NoRun EXCEPT
                         !.items  = r.items,
                         !.report = [n \in Names |->
                                       IF r.items[n] = Absent THEN NoStatus
                                       ELSE StatusOf(r.items[n].gen, r.verdicts[n], outcome)],
                         !.failed = failed]
    PROVE  RunTruthful("status", q, Present(r.items), s)
<1>1. /\ q.items = r.items /\ q.custom = NoRun.custom
      /\ q.report = [n \in Names |->
                       IF r.items[n] = Absent THEN NoStatus
                       ELSE StatusOf(r.items[n].gen, r.verdicts[n], outcome)]
  BY DEF NoRun
<1>2. r.items \in [Names -> MaybeObject]
  BY DEF RunState
<1>3. ASSUME NEW n \in Present(r.items)
      PROVE  Told(n, r.items[n], q.report[n], s)
  <2>1. q.report[n] = StatusOf(r.items[n].gen, r.verdicts[n], outcome)
    BY <1>1, <1>2, <1>3 DEF Present
  <2>2. /\ TellsOf(ClaimOf(n, r.items[n]), r.verdicts[n].condition)
        /\ r.verdicts[n].accepted => Block(RenderRoute(n, r.items[n])) \in r.fragment
    BY <1>3 DEF RunTruthful
  <2>3. r.verdicts[n].accepted \in BOOLEAN /\ r.verdicts[n].wired \in BOOLEAN
    BY <1>3 DEF RunVerdict
  <2>4. PublishedCondition(r.verdicts[n].accepted, outcome, r.verdicts[n].wired) = "Published"
           => r.verdicts[n].accepted /\ outcome = "InPlace"
    BY <2>3 DEF PublishedCondition, Outcomes
  <2> QED BY <2>1, <2>2, <2>4 DEF StatusOf, Told
<1>4. Copies(q.items, s) /\ Held(q.custom, s)
  BY <1>1, NoRunTruthful DEF RunTruthful, Held
<1> QED BY <1>1, <1>3, <1>4 DEF RunTruthful

\* The update for a listed route is right for it as long as it is accepted.
LEMMA UpdateTruthful ==
    ASSUME NEW r \in RunState, NEW l, NEW s, RunTruthful("status", r, l, s),
           NEW n \in l, n \in Present(r.items)
    PROVE  RequestTruthful([kind |-> "status", name |-> n, rv |-> r.items[n].rv,
                            status |-> r.report[n]], s)
<1>1. n \in Names /\ r.items[n] # Absent
  BY DEF RunState, Present
<1>2. Copy(n, r.items[n], s) /\ Told(n, r.items[n], r.report[n], s)
  BY <1>1 DEF RunTruthful, Copies
<1> QED BY <1>1, <1>2 DEF RequestTruthful, Copy

\* One status less to write.
LEMMA RunGoesOn ==
    ASSUME NEW r \in RunState, NEW l, NEW s, RunTruthful("status", r, l, s),
           NEW k, k \subseteq l, NEW failed
    PROVE  RunTruthful("status", [r EXCEPT !.failed = failed], k, s)
<1> DEFINE q == [r EXCEPT !.failed = failed]
<1>1. q.items = r.items /\ q.custom = r.custom /\ q.report = r.report
  BY DEF RunState
<1> HIDE DEF q
<1>2. RunTruthful("status", q, k, s)
  BY <1>1 DEF RunTruthful
<1> QED BY <1>2 DEF q

-----------------------------------------------------------------------------
(* The run's steps and what fails in them.                                 *)

\* A step that leaves the server, the watches and the pending request alone.
LEMMA OwnStep ==
    ASSUME TypeOK, TypeOK', Truthful, UNCHANGED <<routes, revision, custom, wrote>>,
           UNCHANGED watches, UNCHANGED cache, UNCHANGED inflight,
           RunTruthful(pc', run', left', Now)
    PROVE  Grows(Now, Now') /\ Truthful'
<1>1. Grows(Now, Now') /\ Now' = Now
  BY NothingWritten
<1>2. WatchTruthful'
  BY <1>1 DEF Truthful, WatchTruthful, watches
<1> QED BY <1>1, <1>2, Stands DEF Truthful, cache

LEMMA ReadsTruthful ==
    ASSUME TypeOK, TypeOK', Truthful,
           ListRoutes \/ ReadCorefile \/ ReadCustom \/ ReadFails \/ Finish
    PROVE  Grows(Now, Now') /\ Truthful'
<1>1. /\ UNCHANGED <<routes, revision, custom, wrote>>
      /\ UNCHANGED watches /\ UNCHANGED cache /\ UNCHANGED inflight
  BY DEF ListRoutes, ReadCorefile, ReadCustom, ReadFails, Finish, server, history
<1>2. /\ run \in RunState /\ run.items \in Items /\ Copies(run.items, Now) /\ Held(run.custom, Now)
  BY DEF TypeOK, RunTypeOK, RunState, Items, Truthful, RunTruthful
<1>3. CASE Fail \/ Finish
  <2>1. pc' = "idle" /\ run' = NoRun /\ left' = {}
    BY <1>3 DEF Fail, Finish
  <2> QED BY <1>1, <2>1, OwnStep, NoRunTruthful
<1>4. CASE ListRoutes
  <2>1. run'.items = seenRoutes /\ run'.custom = run.custom /\ pc' = "corefile"
    BY <1>2, <1>4 DEF ListRoutes, RunState
  <2>2. RunTruthful(pc', run', left', Now)
    BY <1>2, <2>1 DEF RunTruthful, Truthful, CacheTruthful
  <2> QED BY <1>1, <2>2, OwnStep
<1>5. CASE ReadCorefile /\ ~Fail
  <2>1. run'.items = run.items /\ run'.custom = run.custom /\ pc' = "custom"
    BY <1>2, <1>5 DEF ReadCorefile, RunState
  <2>2. RunTruthful(pc', run', left', Now)
    BY <1>2, <2>1 DEF RunTruthful
  <2> QED BY <1>1, <2>2, OwnStep
<1>6. CASE ReadCustom /\ ~Fail
  <2> DEFINE verdicts == [n \in Names |->
                            IF run.items[n] = Absent THEN NoStatus
                            ELSE Verdict(n, run.items, run.corefile, seenCustom)]
             fragment == FragmentFor(run.items, run.corefile, seenCustom)
             invalid == RenderFails(run.items, run.corefile, seenCustom)
  <2>1. /\ run' = [run EXCEPT !.custom = seenCustom, !.verdicts = verdicts,
                              !.fragment = fragment, !.invalid = invalid]
        /\ pc' = "publish"
    BY <1>6 DEF ReadCustom
  <2>2. \A n \in Present(run.items) :
           /\ TellsOf(ClaimOf(n, run.items[n]), verdicts[n].condition)
           /\ verdicts[n].accepted => Block(RenderRoute(n, run.items[n])) \in fragment
    <3> SUFFICES ASSUME NEW n \in Present(run.items)
                 PROVE  /\ TellsOf(ClaimOf(n, run.items[n]), verdicts[n].condition)
                        /\ verdicts[n].accepted =>
                              Block(RenderRoute(n, run.items[n])) \in fragment
      OBVIOUS
    <3>1. n \in Names /\ run.items[n] # Absent
      BY <1>2 DEF Present, Items
    <3>2. verdicts[n] = Verdict(n, run.items, run.corefile, seenCustom)
      BY <3>1
    <3> HIDE DEF verdicts
    <3> QED BY <1>2, <3>2, VerdictTells
  <2> HIDE DEF verdicts, fragment, invalid
  <2>3. /\ run'.items = run.items /\ run'.custom = seenCustom
        /\ run'.verdicts = verdicts /\ run'.fragment = fragment
    BY <1>2, <2>1 DEF RunState
  <2>4. RunTruthful(pc', run', left', Now)
    BY <1>2, <2>1, <2>2, <2>3 DEF RunTruthful, Truthful, CacheTruthful
  <2> QED BY <1>1, <2>4, OwnStep
<1> QED BY <1>3, <1>4, <1>5, <1>6 DEF ReadFails

\* What publish may find: the entry in place, or a call that fails or not.
LEMMA PublishedTruthful ==
    ASSUME TypeOK, TypeOK', Truthful, pc = "publish", Grows(Now, Now'),
           NEW outcome \in Outcomes, Published(outcome),
           ForeignApart /\ outcome = "InPlace" => run.fragment \subseteq Now'.wrote
    PROVE  RunTruthful(pc', run', left', Now')
<1>1. Now \in Servers /\ Now' \in Servers
  BY ServersTyped
<1>2. run \in RunState /\ \A n \in Present(run.items) : run.verdicts[n] \in RunVerdict
  BY DEF TypeOK, RunTypeOK
<1>3. RunTruthful("publish", run, left, Now')
  BY <1>1, <1>2, RunKept DEF Truthful
<1>4. pc' = "status" /\ left' = Present(run.items)
  BY DEF Published
<1>5. run' = [NoRun EXCEPT
                !.items  = run.items,
                !.report = [n \in Names |->
                              IF run.items[n] = Absent THEN NoStatus
                              ELSE StatusOf(run.items[n].gen, run.verdicts[n], outcome)],
                !.failed = (outcome = "WriteFailed")]
  BY DEF Published
<1>6. RunTruthful("status", run', Present(run.items), Now')
  BY <1>2, <1>3, <1>5, ReportTruthful
<1> QED BY <1>4, <1>6

\* No call is made because the entry holds the fragment already.
LEMMA InPlaceAlready ==
    ASSUME ForeignApart, NEW r \in RunState, NEW s, Held(r.custom, s),
           r.custom # Absent, r.custom.managed = r.fragment
    PROVE  r.fragment \subseteq s.wrote
<1>1. r.fragment \in SUBSET Blocks(Names)
  BY DEF RunState
<1>2. BlocksIn(r.custom) = r.fragment
  BY <1>1 DEF BlocksIn, ForeignApart
<1> QED BY <1>2 DEF Held

LEMMA PublishTruthful ==
    ASSUME TypeOK, TypeOK', Truthful, Publish
    PROVE  Grows(Now, Now') /\ Truthful'
<1>1. pc = "publish" /\ UNCHANGED <<routes, revision, routeWatch, seenRoutes, seenCustom, inflight>>
  BY DEF Publish, cache
<1>2. run \in RunState /\ run.fragment \in SUBSET Blocks(Names)
  BY RunFragmentTyped DEF TypeOK, RunTypeOK
<1>3. CASE UNCHANGED <<custom, configWatch, wrote>>
  <2>1. Grows(Now, Now') /\ Now' = Now
    BY <1>1, <1>3, NothingWritten
  <2>2. \E outcome \in Outcomes :
          /\ Published(outcome)
          /\ \/ outcome # "InPlace"
             \/ run.custom # Absent /\ run.custom.managed = run.fragment
             \/ custom # Absent /\ ApplyPatch(run.fragment)
    <3>1. CASE ~MustPatch /\ Published(NoCallOutcome)
      <4>1. NoCallOutcome \in Outcomes /\ (NoCallOutcome = "InPlace" => run.custom # Absent)
        BY DEF NoCallOutcome, Outcomes
      <4>2. NoCallOutcome # "InPlace" \/ run.custom.managed = run.fragment
        BY <3>1 DEF MustPatch
      <4> QED BY <3>1, <4>1, <4>2
    <3>2. CASE custom # Absent /\ Published("InPlace") /\ ApplyPatch(run.fragment)
      BY <3>2 DEF Outcomes
    <3>3. CASE Published("WriteFailed")
      BY <3>3 DEF Outcomes
    <3> QED BY <3>1, <3>2, <3>3 DEF Publish
  <2>3. ForeignApart /\ custom # Absent /\ ApplyPatch(run.fragment)
           => run.fragment \subseteq Now'.wrote
    BY <1>1, <1>2, PatchWrite DEF Truthful
  <2> PICK outcome \in Outcomes :
          /\ Published(outcome)
          /\ \/ outcome # "InPlace"
             \/ run.custom # Absent /\ run.custom.managed = run.fragment
             \/ custom # Absent /\ ApplyPatch(run.fragment)
    BY <2>2
  <2>4. ForeignApart /\ outcome = "InPlace" => run.fragment \subseteq Now'.wrote
    BY <1>2, <2>1, <2>3, InPlaceAlready DEF Truthful, RunTruthful
  <2>5. RunTruthful(pc', run', left', Now')
    BY <1>1, <2>1, <2>4, PublishedTruthful
  <2>6. WatchTruthful'
    BY <1>1, <1>3, <2>1 DEF Truthful, WatchTruthful
  <2> QED BY <1>1, <1>3, <2>1, <2>5, <2>6, Stands DEF Truthful
<1>4. CASE custom # Absent /\ ApplyPatch(run.fragment) /\ Published("InPlace")
  <2>1. /\ Grows(Now, Now') /\ ServerTruthful' /\ WatchTruthful'
        /\ ForeignApart => run.fragment \subseteq Now'.wrote
    BY <1>1, <1>2, <1>4, PatchWrite DEF Truthful
  <2>2. RunTruthful(pc', run', left', Now')
    BY <1>1, <1>4, <2>1, PublishedTruthful DEF Outcomes
  <2> QED BY <1>1, <2>1, <2>2, Stands DEF Truthful
<1> QED BY <1>3, <1>4 DEF Publish

\* What a caller gives up on is a patch or an update that was due.
LEMMA StrayTruthful ==
    ASSUME TypeOK, TypeOK', Truthful, Grows(Now, Now'), NEW u \in Requests, GoesAstray(u),
           RequestTruthful(u, Now)
    PROVE  PendingTruthful'
<1>1. Now \in Servers /\ Now' \in Servers
  BY ServersTyped
<1> QED BY <1>1, RequestKept DEF GoesAstray, PendingTruthful

LEMMA DueTruthful ==
    ASSUME TypeOK, Truthful, NEW n \in Names, Due(n)
    PROVE  UpdateOf(n) \in Requests /\ UpdateOf(n).kind = "status" /\ RequestTruthful(UpdateOf(n), Now)
<1>1. pc = "status" /\ n \in left /\ n \in Present(run.items) /\ run \in RunState
  BY DEF Due, TypeOK, RunTypeOK
<1>2. RequestTruthful(UpdateOf(n), Now)
  BY <1>1, UpdateTruthful DEF UpdateOf, Truthful
<1> QED BY <1>2, DueUpdate

LEMMA PatchFailsTruthful ==
    ASSUME TypeOK, TypeOK', Truthful, PatchFails
    PROVE  Grows(Now, Now') /\ Truthful'
<1>1. pc = "publish" /\ UNCHANGED <<routes, revision, routeWatch, seenRoutes, seenCustom>>
      /\ Published("WriteFailed")
  BY DEF PatchFails, cache
<1>2. Grows(Now, Now') /\ ServerTruthful' /\ WatchTruthful'
  <2>1. CASE UNCHANGED <<custom, configWatch, wrote>>
    BY <1>1, <2>1, NothingWritten DEF Truthful, ServerTruthful, WatchTruthful
  <2>2. CASE custom # Absent /\ ApplyPatch(run.fragment)
    BY <1>1, <2>2, RunFragmentTyped, PatchWrite DEF Truthful
  <2> QED BY <2>1, <2>2 DEF PatchFails
<1>3. RunTruthful(pc', run', left', Now')
  BY <1>1, <1>2, PublishedTruthful DEF Outcomes
<1>4. PendingTruthful'
  <2>1. CASE UNCHANGED inflight
    BY <1>2, <2>1, Stands
  <2>2. CASE GoesAstray(PatchRequest)
    BY <2>2 DEF GoesAstray, PatchRequest, PendingTruthful, RequestTruthful
  <2> QED BY <2>1, <2>2 DEF PatchFails
<1> QED BY <1>1, <1>2, <1>3, <1>4, Stands DEF Truthful

LEMMA LatePatchTruthful ==
    ASSUME TypeOK, TypeOK', Truthful, LatePatch
    PROVE  Grows(Now, Now') /\ Truthful'
<1>1. UNCHANGED <<routes, revision, routeWatch, seenRoutes, seenCustom, pc, run, left>>
  BY DEF LatePatch, cache, control
<1>2. inflight.fragment \in SUBSET Blocks(Names)
  BY DEF TypeOK, BoundsTypeOK, Requests, LatePatch, Late
<1>3. Grows(Now, Now') /\ ServerTruthful' /\ WatchTruthful'
  <2>1. CASE UNCHANGED <<custom, configWatch, wrote>>
    BY <1>1, <2>1, NothingWritten DEF Truthful, ServerTruthful, WatchTruthful
  <2>2. CASE custom # Absent /\ ApplyPatch(inflight.fragment)
    BY <1>1, <1>2, <2>2, PatchWrite DEF Truthful
  <2> QED BY <2>1, <2>2 DEF LatePatch
<1>4. PendingTruthful'
  BY DEF LatePatch, Late, PendingTruthful
<1> QED BY <1>1, <1>3, <1>4, Stands DEF Truthful

LEMMA StatusDoneTruthful ==
    ASSUME TypeOK, TypeOK', Truthful, Grows(Now, Now'), pc = "status",
           NEW n, NEW failed, StatusDone(n, failed)
    PROVE  RunTruthful(pc', run', left', Now')
<1>1. Now \in Servers /\ Now' \in Servers
  BY ServersTyped
<1>2. run \in RunState
  BY DEF TypeOK, RunTypeOK
<1>3. RunTruthful("status", run, left, Now')
  BY <1>1, <1>2, RunKept DEF Truthful
<1>4. pc' = "status" /\ left' \subseteq left /\ run' = [run EXCEPT !.failed = (run.failed \/ failed)]
  BY <1>2 DEF StatusDone
<1> QED BY <1>2, <1>3, <1>4, RunGoesOn

LEMMA UpdatesTruthful ==
    ASSUME TypeOK, TypeOK', Truthful, NEW n \in Names, UpdateStatus(n) \/ StatusFails(n)
    PROVE  Grows(Now, Now') /\ Truthful'
<1>1. Due(n) /\ UNCHANGED <<custom, configWatch, seenRoutes, seenCustom, wrote>>
  BY DEF UpdateStatus, StatusFails, cache, history
<1>2. /\ UpdateOf(n) \in Requests /\ UpdateOf(n).kind = "status"
      /\ RequestTruthful(UpdateOf(n), Now)
  BY <1>1, DueTruthful
<1>3. Grows(Now, Now') /\ ServerTruthful' /\ WatchTruthful'
  <2>1. CASE UNCHANGED <<routes, revision, routeWatch>>
    BY <1>1, <2>1, NothingWritten DEF Truthful, ServerTruthful, WatchTruthful
  <2>2. CASE StillListed(UpdateOf(n)) /\ WriteStatus(UpdateOf(n))
    BY <1>1, <1>2, <2>2, StatusWrite DEF Truthful
  <2> QED BY <2>1, <2>2 DEF UpdateStatus, StatusFails
<1>4. RunTruthful(pc', run', left', Now')
  BY <1>1, <1>3, StatusDoneTruthful DEF UpdateStatus, StatusFails, Due
<1>5. PendingTruthful'
  BY <1>2, <1>3, Stands, StrayTruthful DEF UpdateStatus, StatusFails
<1> QED BY <1>1, <1>3, <1>4, <1>5, Stands DEF Truthful

LEMMA LateStatusTruthful ==
    ASSUME TypeOK, TypeOK', Truthful, LateStatus
    PROVE  Grows(Now, Now') /\ Truthful'
<1>1. UNCHANGED <<custom, configWatch, seenRoutes, seenCustom, pc, run, left, wrote>>
  BY DEF LateStatus, cache, control
<1>2. /\ inflight \in Requests /\ inflight.kind = "status" /\ RequestTruthful(inflight, Now)
  BY DEF TypeOK, BoundsTypeOK, LateStatus, Late, Truthful, PendingTruthful
<1>3. Grows(Now, Now') /\ ServerTruthful' /\ WatchTruthful'
  <2>1. CASE UNCHANGED <<routes, revision, routeWatch>>
    BY <1>1, <2>1, NothingWritten DEF Truthful, ServerTruthful, WatchTruthful
  <2>2. CASE StillListed(inflight) /\ WriteStatus(inflight)
    BY <1>1, <1>2, <2>2, StatusWrite DEF Truthful
  <2> QED BY <2>1, <2>2 DEF LateStatus
<1>4. PendingTruthful'
  BY DEF LateStatus, Late, PendingTruthful
<1> QED BY <1>1, <1>3, <1>4, Stands DEF Truthful

LEMMA RestartTruthful ==
    ASSUME TypeOK, TypeOK', Truthful, Restart
    PROVE  Grows(Now, Now') /\ Truthful'
<1>1. /\ UNCHANGED <<routes, revision, custom, wrote>>
      /\ seenRoutes' = routes /\ seenCustom' = custom
      /\ routeWatch' = <<>> /\ configWatch' = <<>>
      /\ pc' = "idle" /\ run' = NoRun /\ left' = {}
  BY DEF Restart, server, history
<1>2. Grows(Now, Now') /\ Now' = Now
  BY <1>1, NothingWritten
<1>3. WatchTruthful' /\ CacheTruthful' /\ RunTruthful(pc', run', left', Now')
  BY <1>1, <1>2, NoRunTruthful DEF Truthful, ServerTruthful, WatchTruthful, CacheTruthful
<1>4. PendingTruthful'
  <2>1. CASE UNCHANGED inflight
    BY <1>2, <2>1, Stands
  <2>2. CASE GoesAstray(PatchRequest)
    BY <2>2 DEF GoesAstray, PatchRequest, PendingTruthful, RequestTruthful
  <2>3. ASSUME NEW n \in left, Due(n), GoesAstray(UpdateOf(n))
        PROVE  PendingTruthful'
    <3>1. n \in Names
      BY DEF TypeOK, RunTypeOK, RunState, Present
    <3> QED BY <1>2, <2>3, <3>1, DueTruthful, StrayTruthful
  <2> QED BY <2>1, <2>2, <2>3 DEF Restart, NextRequest
<1> QED BY <1>1, <1>2, <1>3, <1>4, Stands DEF Truthful

-----------------------------------------------------------------------------
(* The theorems about truth.                                               *)

LEMMA InitTruthful == Init => Truthful
<1> SUFFICES ASSUME Init PROVE Truthful
  OBVIOUS
<1>1. BlocksIn(custom) = {}
  BY DEF Init, BlocksIn
<1>2. \A n \in Names : routes[n] # Absent =>
         routes[n].rv = 1 /\ routes[n].status = NoStatus /\ revision[n] = 1
  BY DEF Init
<1>3. \A n \in Names : Copy(n, routes[n], Now) /\ StatusTruthful(n, routes[n], Now)
  BY <1>2 DEF Copy, StatusTruthful, Now
<1>4. ServerTruthful /\ CacheTruthful
  BY <1>1, <1>3 DEF Init, ServerTruthful, CacheTruthful, Copies, Held
<1>5. WatchTruthful
  BY DEF Init, WatchTruthful
<1> QED BY <1>4, <1>5, NoRunTruthful DEF Init, Truthful, PendingTruthful

LEMMA StepTruthful == TypeOK /\ Truthful /\ [Next]_vars => Grows(Now, Now') /\ Truthful'
<1> SUFFICES ASSUME TypeOK, Truthful, [Next]_vars
             PROVE  Grows(Now, Now') /\ Truthful'
  OBVIOUS
<1>1. TypeOK'
  BY StepTyped
<1>2. CASE User
  BY <1>1, <1>2, UserTruthful
<1>3. CASE Watch
  BY <1>1, <1>3, WatchesTruthful
<1>4. CASE Reconcile
  BY <1>1, <1>4, ReadsTruthful, PublishTruthful, UpdatesTruthful DEF Reconcile
<1>5. CASE Failure
  BY <1>1, <1>5, ReadsTruthful, PatchFailsTruthful, LatePatchTruthful, UpdatesTruthful,
     LateStatusTruthful, RestartTruthful DEF Failure
<1>6. CASE UNCHANGED vars
  <2>1. /\ UNCHANGED <<routes, revision, custom, wrote>> /\ UNCHANGED watches
        /\ UNCHANGED cache /\ UNCHANGED inflight /\ UNCHANGED <<pc, run, left>>
    BY <1>6 DEF vars, watches, cache
  <2> QED BY <1>1, <2>1, OwnStep DEF Truthful
<1> QED BY <1>2, <1>3, <1>4, <1>5, <1>6 DEF Next

LEMMA TruthTold ==
    TypeOK /\ Truthful => StatusDescribesSpec /\ (ForeignApart => PublishedWasWritten)
<1> SUFFICES ASSUME TypeOK, Truthful, NEW n \in Present(routes), routes[n].status # NoStatus
             PROVE  LET o == routes[n] IN
                    /\ o.status.observed <= o.gen
                    /\ o.status.observed = o.gen => TellsOf(ClaimOf(n, o), o.status.accepted)
                    /\ ForeignApart /\ o.status.observed = o.gen /\ o.status.published = "Published"
                          => Block(RenderRoute(n, o)) \in wrote
  BY DEF StatusDescribesSpec, PublishedWasWritten
<1>1. n \in Names /\ routes[n] # Absent
  BY DEF Present, TypeOK, ServerTypeOK
<1>2. StatusTruthful(n, routes[n], Now)
  BY <1>1 DEF Truthful, ServerTruthful
<1> QED BY <1>1, <1>2 DEF StatusTruthful, Told, Now

\* Whatever is edited, lost, late or restarted, a status with the generation
\* of its object is right about that object's spec: about an object deleted and
\* created again as well, and about specs changed while a run was on its way.
THEOREM StatusesDescribe == Spec => []StatusDescribesSpec
BY InitTyped, InitTruthful, StepTyped, StepTruthful, TruthTold, PTL DEF Spec

\* Published is said of a generation only when its very block has been in the
\* managed entry, however patches fail, overtake each other or are undone.
THEOREM PublishedHasBeenWritten == Spec => [](ForeignApart => PublishedWasWritten)
BY InitTyped, InitTruthful, StepTyped, StepTruthful, TruthTold, PTL DEF Spec

-----------------------------------------------------------------------------
(* Queues of events.  Of the events of all keys, those of one key lead     *)
(* from what the cache shows (first) to what the server has (last).        *)

\* Of the first m events, the i-th is the latest of key k; 0 is the cache.
Latest(keys, k, i, m) ==
    /\ i \in 0 .. m
    /\ i # 0 => keys[i] = k
    /\ \A j \in i + 1 .. m : keys[j] # k

ValueAt(first, values, i) == IF i = 0 THEN first ELSE values[i]

\* The latest event of k brings last, and each event of k is a step from the
\* one before it.
Leads(first, keys, values, m, k, last, steps) ==
    /\ \A i \in 0 .. m : Latest(keys, k, i, m) => ValueAt(first, values, i) = last
    /\ \A j \in 1 .. m : \A i \in 0 .. j - 1 :
          keys[j] = k /\ Latest(keys, k, i, j - 1) => <<ValueAt(first, values, i), values[j]>> \in steps

\* From the i-th event on, k is never deleted.
Lives(first, keys, values, m, k, i) ==
    /\ i \in 0 .. m /\ (i # 0 => keys[i] = k)
    /\ \A j \in i .. m : j = 0 \/ keys[j] = k => ValueAt(first, values, j) # Absent

\* What an object was since its creation is an earlier version of what it is.
Ages(first, keys, values, m, k, last, versions) ==
    last # Absent => \A i \in 0 .. m :
        Lives(first, keys, values, m, k, i) => <<ValueAt(first, values, i), last>> \in versions

LEMMA LatestExists ==
    ASSUME NEW m \in Nat, NEW keys, NEW k, NEW i \in 0 .. m, i # 0 => keys[i] = k
    PROVE  \E j \in i .. m : Latest(keys, k, j, m)
<1> DEFINE D == {m - j : j \in {l \in i .. m : l # 0 => keys[l] = k}}
<1>1. D \in SUBSET Nat /\ m - i \in D
  OBVIOUS
<1>2. PICK d \in D : \A e \in D : d <= e
  BY <1>1, NatMinimum
<1>3. PICK j \in i .. m : (j # 0 => keys[j] = k) /\ d = m - j
  OBVIOUS
<1>4. ASSUME NEW l \in j + 1 .. m, keys[l] = k PROVE FALSE
  <2>1. m - l \in D
    BY <1>3, <1>4
  <2>2. d <= m - l
    <3> HIDE DEF D
    <3> QED BY <1>2, <2>1
  <2> QED BY <1>3, <2>2
<1> QED BY <1>3, <1>4 DEF Latest

LEMMA EventArrives ==
    ASSUME NEW m \in Nat, NEW keys, NEW values, NEW keys2, NEW values2,
           \A i \in 1 .. m : keys2[i] = keys[i] /\ values2[i] = values[i],
           NEW first, NEW k, NEW last, NEW steps, Leads(first, keys, values, m, k, last, steps),
           NEW next, IF keys2[m + 1] = k THEN next = values2[m + 1] /\ <<last, next>> \in steps
                                         ELSE next = last
    PROVE  Leads(first, keys2, values2, m + 1, k, next, steps)
<1>1. \A i \in 0 .. m : ValueAt(first, values2, i) = ValueAt(first, values, i)
  BY DEF ValueAt
<1>2. \A j \in 0 .. m : \A i \in 0 .. j : Latest(keys2, k, i, j) <=> Latest(keys, k, i, j)
  BY DEF Latest
<1>3. ASSUME NEW j \in 1 .. m, NEW i \in 0 .. j - 1, keys2[j] = k, Latest(keys2, k, i, j - 1)
      PROVE  <<ValueAt(first, values2, i), values2[j]>> \in steps
  BY <1>1, <1>2, <1>3 DEF Leads
<1>4. CASE keys2[m + 1] # k
  <2>1. \A i \in 0 .. m + 1 : Latest(keys2, k, i, m + 1) => i \in 0 .. m /\ Latest(keys, k, i, m)
    BY <1>4 DEF Latest
  <2> QED BY <1>1, <1>3, <1>4, <2>1 DEF Leads
<1>5. CASE keys2[m + 1] = k
  <2>1. \A i \in 0 .. m + 1 : Latest(keys2, k, i, m + 1) => i = m + 1
    BY <1>5 DEF Latest
  <2>2. ValueAt(first, values2, m + 1) = values2[m + 1]
    BY DEF ValueAt
  <2>3. ASSUME NEW i \in 0 .. m, Latest(keys2, k, i, m)
        PROVE  <<ValueAt(first, values2, i), values2[m + 1]>> \in steps
    BY <1>1, <1>2, <1>5, <2>3 DEF Leads
  <2>4. ASSUME NEW j \in 1 .. m + 1, NEW i \in 0 .. j - 1, keys2[j] = k, Latest(keys2, k, i, j - 1)
        PROVE  <<ValueAt(first, values2, i), values2[j]>> \in steps
    <3>1. CASE j = m + 1
      BY <2>3, <2>4, <3>1
    <3>2. CASE j # m + 1
      BY <1>3, <2>4, <3>2
    <3> QED BY <3>1, <3>2
  <2> QED BY <1>5, <2>1, <2>2, <2>4 DEF Leads
<1> QED BY <1>4, <1>5

\* The next event is a step from what the cache shows.
LEMMA NextEvent ==
    ASSUME NEW m \in Nat \ {0}, NEW first, NEW keys, NEW values, NEW k, NEW last, NEW steps,
           Leads(first, keys, values, m, k, last, steps), keys[1] = k
    PROVE  <<first, values[1]>> \in steps
<1>1. Latest(keys, k, 0, 0) /\ ValueAt(first, values, 0) = first
  BY DEF Latest, ValueAt
<1> QED BY <1>1 DEF Leads

LEMMA EventTaken ==
    ASSUME NEW m \in Nat \ {0}, NEW keys, NEW values, NEW keys2, NEW values2,
           \A i \in 1 .. m - 1 : keys2[i] = keys[i + 1] /\ values2[i] = values[i + 1],
           NEW first, NEW k, NEW last, NEW steps, Leads(first, keys, values, m, k, last, steps),
           NEW next, next = IF keys[1] = k THEN values[1] ELSE first
    PROVE  Leads(next, keys2, values2, m - 1, k, last, steps)
<1> DEFINE back(i) == IF i = 0 /\ keys[1] # k THEN 0 ELSE i + 1
<1>1. \A i \in 0 .. m - 1 : back(i) \in 0 .. m /\ ValueAt(next, values2, i) = ValueAt(first, values, back(i))
  BY DEF ValueAt
<1>2. ASSUME NEW j \in 0 .. m - 1, NEW i \in 0 .. j, Latest(keys2, k, i, j)
      PROVE  Latest(keys, k, back(i), j + 1)
  <2>1. ASSUME NEW l \in back(i) + 1 .. j + 1 PROVE keys[l] # k
    <3>1. CASE l = 1
      BY <2>1, <3>1
    <3>2. CASE l # 1
      <4>1. l - 1 \in i + 1 .. j /\ keys2[l - 1] = keys[l]
        BY <2>1, <3>2
      <4> QED BY <1>2, <4>1 DEF Latest
    <3> QED BY <3>1, <3>2
  <2>2. back(i) # 0 => keys[back(i)] = k
    BY <1>2 DEF Latest
  <2>3. back(i) \in 0 .. j + 1
    OBVIOUS
  <2> QED BY <2>1, <2>2, <2>3 DEF Latest
<1>3. ASSUME NEW i \in 0 .. m - 1, Latest(keys2, k, i, m - 1)
      PROVE  ValueAt(next, values2, i) = last
  <2>1. Latest(keys, k, back(i), m)
    BY <1>2, <1>3
  <2> QED BY <1>1, <2>1 DEF Leads
<1>4. ASSUME NEW j \in 1 .. m - 1, NEW i \in 0 .. j - 1, keys2[j] = k, Latest(keys2, k, i, j - 1)
      PROVE  <<ValueAt(next, values2, i), values2[j]>> \in steps
  <2>1. /\ Latest(keys, k, back(i), j) /\ keys[j + 1] = k /\ values2[j] = values[j + 1]
        /\ j + 1 \in 1 .. m /\ back(i) \in 0 .. (j + 1) - 1
    BY <1>2, <1>4
  <2>2. <<ValueAt(first, values, back(i)), values[j + 1]>> \in steps
    <3> HIDE DEF back
    <3>1. (j + 1) - 1 = j
      OBVIOUS
    <3> QED BY <2>1, <3>1 DEF Leads
  <2> QED BY <1>1, <2>1, <2>2
<1> QED BY <1>3, <1>4 DEF Leads

LEMMA NothingArrives ==
    ASSUME NEW first, NEW keys, NEW values, NEW k, NEW last, NEW steps
    PROVE  Leads(first, keys, values, 0, k, last, steps) <=> first = last
BY DEF Leads, Latest, ValueAt

\* Without an event of k the cache is up to date.
LEMMA NoneOf ==
    ASSUME NEW m \in Nat, NEW first, NEW keys, NEW values, NEW k, NEW last, NEW steps,
           Leads(first, keys, values, m, k, last, steps), \A i \in 1 .. m : keys[i] # k
    PROVE  first = last
<1>1. Latest(keys, k, 0, m) /\ ValueAt(first, values, 0) = first
  BY DEF Latest, ValueAt
<1> QED BY <1>1 DEF Leads

LEMMA LivesBefore ==
    ASSUME NEW m \in Nat, NEW keys, NEW values, NEW keys2, NEW values2,
           \A i \in 1 .. m : keys2[i] = keys[i] /\ values2[i] = values[i],
           NEW first, NEW k, NEW i \in 0 .. m, Lives(first, keys2, values2, m + 1, k, i)
    PROVE  Lives(first, keys, values, m, k, i)
<1>1. \A j \in 0 .. m : ValueAt(first, values2, j) = ValueAt(first, values, j)
  BY DEF ValueAt
<1> QED BY <1>1 DEF Lives

\* What lives on the watch lives on the server.
LEMMA LivesStill ==
    ASSUME NEW m \in Nat, NEW keys, NEW values, NEW first, NEW k, NEW last, NEW steps,
           Leads(first, keys, values, m, k, last, steps),
           NEW i \in 0 .. m, Lives(first, keys, values, m, k, i)
    PROVE  last # Absent
<1>1. PICK j \in i .. m : Latest(keys, k, j, m)
  BY LatestExists DEF Lives
<1>2. ValueAt(first, values, j) = last
  BY <1>1 DEF Leads
<1> QED BY <1>1, <1>2 DEF Lives, Latest

\* Versions grow older together; what was deleted is not an earlier version.
LEMMA AgesOn ==
    ASSUME NEW m \in Nat, NEW keys, NEW values, NEW keys2, NEW values2,
           \A i \in 1 .. m : keys2[i] = keys[i] /\ values2[i] = values[i],
           NEW first, NEW k, NEW last, NEW steps, NEW versions,
           Leads(first, keys, values, m, k, last, steps),
           Ages(first, keys, values, m, k, last, versions),
           NEW next, next = IF keys2[m + 1] = k THEN values2[m + 1] ELSE last,
           next # Absent =>
              /\ <<next, next>> \in versions
              /\ \A o : last # Absent /\ <<o, last>> \in versions => <<o, next>> \in versions
    PROVE  Ages(first, keys2, values2, m + 1, k, next, versions)
<1>1. \A i \in 0 .. m : ValueAt(first, values2, i) = ValueAt(first, values, i)
  BY DEF ValueAt
<1>2. ASSUME NEW i \in 0 .. m, Lives(first, keys2, values2, m + 1, k, i)
      PROVE  Lives(first, keys, values, m, k, i)
  BY <1>2, LivesBefore
<1>3. CASE keys2[m + 1] # k
  <2>1. \A i \in 0 .. m + 1 : Lives(first, keys2, values2, m + 1, k, i) => i \in 0 .. m
    BY <1>3 DEF Lives
  <2> QED BY <1>1, <1>2, <1>3, <2>1 DEF Ages
<1>4. ASSUME keys2[m + 1] = k, next # Absent,
             NEW i \in 0 .. m + 1, Lives(first, keys2, values2, m + 1, k, i)
      PROVE  <<ValueAt(first, values2, i), next>> \in versions
  <2>1. CASE i = m + 1
    BY <1>4, <2>1 DEF ValueAt
  <2>2. CASE i # m + 1
    <3>1. i \in 0 .. m /\ Lives(first, keys, values, m, k, i)
      BY <1>2, <1>4, <2>2
    <3>2. last # Absent
      BY <3>1, LivesStill
    <3> QED BY <1>1, <1>4, <3>1, <3>2 DEF Ages
  <2> QED BY <2>1, <2>2
<1> QED BY <1>3, <1>4 DEF Ages

LEMMA AgesWithout ==
    ASSUME NEW m \in Nat \ {0}, NEW keys, NEW values, NEW keys2, NEW values2,
           \A i \in 1 .. m - 1 : keys2[i] = keys[i + 1] /\ values2[i] = values[i + 1],
           NEW first, NEW k, NEW last, NEW versions, Ages(first, keys, values, m, k, last, versions),
           NEW next, next = IF keys[1] = k THEN values[1] ELSE first
    PROVE  Ages(next, keys2, values2, m - 1, k, last, versions)
<1> DEFINE back(i) == IF i = 0 /\ keys[1] # k THEN 0 ELSE i + 1
<1>1. \A i \in 0 .. m - 1 : back(i) \in 0 .. m /\ ValueAt(next, values2, i) = ValueAt(first, values, back(i))
  BY DEF ValueAt
<1>2. ASSUME NEW i \in 0 .. m - 1, Lives(next, keys2, values2, m - 1, k, i)
      PROVE  Lives(first, keys, values, m, k, back(i))
  <2>1. ASSUME NEW l \in back(i) .. m, l = 0 \/ keys[l] = k PROVE ValueAt(first, values, l) # Absent
    <3> DEFINE j == IF l = 0 THEN 0 ELSE l - 1
    <3>1. j \in i .. m - 1 /\ back(j) = l /\ (j = 0 \/ keys2[j] = k)
      BY <2>1
    <3>2. ValueAt(next, values2, j) # Absent
      BY <1>2, <3>1 DEF Lives
    <3>3. j \in 0 .. m - 1
      BY <3>1
    <3> HIDE DEF j
    <3> QED BY <1>1, <3>1, <3>2, <3>3
  <2>2. back(i) # 0 => keys[back(i)] = k
    BY <1>2 DEF Lives
  <2> QED BY <1>1, <2>1, <2>2 DEF Lives
<1> QED BY <1>1, <1>2 DEF Ages


-----------------------------------------------------------------------------
(* Versions of an object a run treats alike, and what depends on them.     *)

Alike(o, p) ==
    /\ o = Absent <=> p = Absent
    /\ o # Absent => o.gen = p.gen /\ o.created = p.created /\ o.spec = p.spec

AllAlike(rs, ts) == \A n \in Names : Alike(rs[n], ts[n])

\* What a run that sees rs, core and cm works towards.
DesiredFor(rs, core, cm) ==
    IF cm = Absent THEN "IntegrationConfigMissing"
    ELSE IF RenderFails(rs, core, cm) THEN "FragmentInvalid"
    ELSE "InPlace"

Settled(rs, core, cm) ==
    /\ Readable(core, cm)
    /\ DesiredFor(rs, core, cm) = "InPlace" => cm.managed = FragmentFor(rs, core, cm)

StatusFor(n, rs, core, cm) ==
    StatusOf(rs[n].gen, Verdict(n, rs, core, cm), DesiredFor(rs, core, cm))

LEMMA AlikeListed ==
    ASSUME NEW rs \in Items, NEW ts \in Items, AllAlike(rs, ts)
    PROVE  /\ Present(rs) = Present(ts) /\ Claims(rs) = Claims(ts)
           /\ \A n \in Present(rs) :
                 /\ rs[n].gen = ts[n].gen /\ rs[n].spec = ts[n].spec
                 /\ ClaimOf(n, rs[n]) = ClaimOf(n, ts[n])
                 /\ RenderRoute(n, rs[n]) = RenderRoute(n, ts[n])
<1>1. Present(rs) = Present(ts)
  BY DEF Items, Present, AllAlike, Alike
<1>2. \A n \in Present(rs) :
         rs[n].gen = ts[n].gen /\ rs[n].created = ts[n].created /\ rs[n].spec = ts[n].spec
  BY DEF Items, Present, AllAlike, Alike
<1>3. \A n \in Present(rs) :
         ClaimOf(n, rs[n]) = ClaimOf(n, ts[n]) /\ RenderRoute(n, rs[n]) = RenderRoute(n, ts[n])
  BY <1>2 DEF ClaimOf, RenderRoute
<1>4. Claims(rs) = Claims(ts)
  BY <1>1, <1>3 DEF Claims
<1> QED BY <1>1, <1>2, <1>3, <1>4

\* A run decides, renders and reports the same on alike lists.
LEMMA AlikeComputed ==
    ASSUME NEW rs \in Items, NEW ts \in Items, AllAlike(rs, ts), NEW core, NEW cm
    PROVE  /\ FragmentFor(rs, core, cm) = FragmentFor(ts, core, cm)
           /\ DesiredFor(rs, core, cm) = DesiredFor(ts, core, cm)
           /\ RenderFails(rs, core, cm) = RenderFails(ts, core, cm)
           /\ Settled(rs, core, cm) = Settled(ts, core, cm)
           /\ \A n \in Present(rs) :
                 /\ Verdict(n, rs, core, cm) = Verdict(n, ts, core, cm)
                 /\ StatusFor(n, rs, core, cm) = StatusFor(n, ts, core, cm)
<1>1. AcceptedNames(rs, core, cm) = AcceptedNames(ts, core, cm)
  BY AlikeListed DEF AcceptedNames
<1>2. AcceptedNames(rs, core, cm) \subseteq Present(rs)
  BY AcceptedListed
<1>3. FragmentFor(rs, core, cm) = FragmentFor(ts, core, cm)
  <2>1. {RenderRoute(n, rs[n]) : n \in AcceptedNames(rs, core, cm)}
          = {RenderRoute(n, ts[n]) : n \in AcceptedNames(ts, core, cm)}
    BY <1>1, <1>2, AlikeListed
  <2> QED BY <2>1 DEF FragmentFor
<1>4. RenderFails(rs, core, cm) = RenderFails(ts, core, cm)
  BY <1>1, <1>2, AlikeListed DEF RenderFails
<1>5. DesiredFor(rs, core, cm) = DesiredFor(ts, core, cm)
  BY <1>4 DEF DesiredFor
<1>6. \A n \in Present(rs) : Verdict(n, rs, core, cm) = Verdict(n, ts, core, cm)
  BY AlikeListed DEF Verdict, Decision
<1>7. \A n \in Present(rs) : StatusFor(n, rs, core, cm) = StatusFor(n, ts, core, cm)
  BY <1>5, <1>6, AlikeListed DEF StatusFor
<1>8. Settled(rs, core, cm) = Settled(ts, core, cm)
  BY <1>3, <1>5 DEF Settled
<1> QED BY <1>3, <1>4, <1>5, <1>6, <1>7, <1>8

-----------------------------------------------------------------------------
(* What the watches still carry.                                           *)

\* No ConfigMap watch starts over, nor a ZoneRoute watch where names come back.
WatchesKept ==
    /\ "ConfigMap" \notin Relists
    /\ NamesReused => "ZoneRoute" \notin Relists

RouteNames(w) == [i \in 1 .. Len(w) |-> w[i].name]
RouteObjects(w) == [i \in 1 .. Len(w) |-> w[i].object]
ConfigMaps(w) == [i \in 1 .. Len(w) |-> w[i].map]
ConfigValues(w) == [i \in 1 .. Len(w) |-> w[i].value]

\* What the filter drops changes nothing a run would see; nor does a version
\* of the generation the server has.
RouteSteps == {p \in MaybeObject \X MaybeObject : RouteEventPasses(p[1], p[2]) \/ Alike(p[1], p[2])}
Versions == {p \in Object \X Object : p[1].gen <= p[2].gen /\ (p[1].gen = p[2].gen => Alike(p[1], p[2]))}
Changes(S) == {p \in S \X S : p[1] # p[2]}

RoutesLead ==
    \A n \in Names :
        /\ Leads(seenRoutes[n], RouteNames(routeWatch), RouteObjects(routeWatch), Len(routeWatch),
                 n, routes[n], RouteSteps)
        /\ Ages(seenRoutes[n], RouteNames(routeWatch), RouteObjects(routeWatch), Len(routeWatch),
                n, routes[n], Versions)

ConfigsLead ==
    /\ Leads(seenCorefile, ConfigMaps(configWatch), ConfigValues(configWatch), Len(configWatch),
             "coredns", corefile, Changes(MaybeCorefile))
    /\ Leads(seenCustom, ConfigMaps(configWatch), ConfigValues(configWatch), Len(configWatch),
             "coredns-custom", custom, Changes(MaybeCustom))

\* Where names do not come back, no deletion is followed by a creation.
NeverBack ==
    NamesReused \/ \A n \in Names :
        /\ revision[n] # 0
        /\ revision[n] = 1 => \A i \in 1 .. Len(routeWatch) : routeWatch[i].name # n
        /\ routes[n] # Absent => \A i \in 1 .. Len(routeWatch) :
              routeWatch[i].name = n => routeWatch[i].object # Absent

WatchesLead == WatchesKept /\ RoutesLead /\ ConfigsLead /\ NeverBack

LEMMA RouteStepsTyped ==
    ASSUME NEW o \in MaybeObject, NEW p \in MaybeObject
    PROVE  /\ <<o, p>> \in RouteSteps <=> RouteEventPasses(o, p) \/ Alike(o, p)
           /\ o \in Object /\ p \in Object /\ o.gen < p.gen => <<o, p>> \in Versions
BY DEF RouteSteps, Versions, Object

\* A version stays one when the generation moves on or nothing alike changes.
LEMMA VersionsAge ==
    ASSUME NEW o, NEW p \in Object, NEW q \in Object, <<o, p>> \in Versions,
           p.gen < q.gen \/ (p.gen = q.gen /\ Alike(p, q))
    PROVE  <<o, q>> \in Versions
<1>1. o \in Object /\ o.gen \in Nat /\ p.gen \in Nat /\ q.gen \in Nat
  BY DEF Versions, Object
<1>2. o.gen <= p.gen /\ (o.gen = p.gen => Alike(o, p))
  BY DEF Versions
<1>3. o.gen <= q.gen
  BY <1>1, <1>2
<1>4. o.gen = q.gen => Alike(o, p) /\ Alike(p, q)
  BY <1>1, <1>2
<1>5. o.gen = q.gen => Alike(o, q)
  BY <1>4 DEF Alike
<1> QED BY <1>1, <1>3, <1>5 DEF Versions

LEMMA OwnVersion == \A o \in Object : <<o, o>> \in Versions
BY DEF Versions, Alike, Object

-----------------------------------------------------------------------------
(* Writes to the server put events where they belong.                      *)

LEMMA RouteWriteLeads ==
    ASSUME TypeOK, WatchesLead, NEW n \in Names, NEW o \in MaybeObject, WriteRoute(n, o),
           UNCHANGED <<corefile, custom, configWatch>>, UNCHANGED cache,
           <<routes[n], o>> \in RouteSteps,
           o # Absent /\ routes[n] # Absent =>
                 routes[n].gen < o.gen \/ (routes[n].gen = o.gen /\ Alike(routes[n], o)),
           o # Absent /\ routes[n] = Absent => NamesReused \/ revision[n] = 1
    PROVE  WatchesLead'
<1> DEFINE m == Len(routeWatch)
<1>1. /\ routes' = [routes EXCEPT ![n] = o] /\ routes \in [Names -> MaybeObject]
      /\ revision' = [revision EXCEPT ![n] = @ + 1] /\ revision \in [Names -> Nat]
  BY DEF WriteRoute, TypeOK, ServerTypeOK
<1>2. /\ m \in Nat /\ Len(routeWatch') = m + 1
      /\ \A i \in 1 .. m : routeWatch'[i] = routeWatch[i]
      /\ routeWatch'[m + 1] = RouteEvent(n, o)
  BY DEF TypeOK, WatchTypeOK, WriteRoute
<1>3. /\ \A i \in 1 .. m : /\ RouteNames(routeWatch')[i] = RouteNames(routeWatch)[i]
                            /\ RouteObjects(routeWatch')[i] = RouteObjects(routeWatch)[i]
      /\ RouteNames(routeWatch')[m + 1] = n /\ RouteObjects(routeWatch')[m + 1] = o
  <2>1. m + 1 \in 1 .. Len(routeWatch') /\ \A i \in 1 .. m : i \in 1 .. Len(routeWatch')
    BY <1>2
  <2>2. routeWatch'[m + 1].name = n /\ routeWatch'[m + 1].object = o
    BY <1>2 DEF RouteEvent
  <2> HIDE DEF m
  <2> QED BY <1>2, <2>1, <2>2 DEF RouteNames, RouteObjects, m
<1>4. UNCHANGED <<seenRoutes, seenCorefile, seenCustom>>
  BY DEF cache
<1>5. RoutesLead'
  <2> SUFFICES ASSUME NEW k \in Names
               PROVE  /\ Leads(seenRoutes[k], RouteNames(routeWatch'), RouteObjects(routeWatch'),
                               m + 1, k, routes'[k], RouteSteps)
                      /\ Ages(seenRoutes[k], RouteNames(routeWatch'), RouteObjects(routeWatch'),
                              m + 1, k, routes'[k], Versions)
    BY <1>2, <1>4 DEF RoutesLead
  <2>1. /\ Leads(seenRoutes[k], RouteNames(routeWatch), RouteObjects(routeWatch), m, k, routes[k], RouteSteps)
        /\ Ages(seenRoutes[k], RouteNames(routeWatch), RouteObjects(routeWatch), m, k, routes[k], Versions)
    BY DEF WatchesLead, RoutesLead
  <2>2. CASE k # n
    <3>1. routes'[k] = routes[k]
      BY <1>1, <2>2
    <3>0. routes[k] # Absent =>
             <<routes[k], routes[k]>> \in Versions /\ \A x : <<x, routes[k]>> \in Versions => <<x, routes[k]>> \in Versions
      BY <1>1, OwnVersion DEF MaybeObject
    <3> HIDE DEF m
    <3>2. Leads(seenRoutes[k], RouteNames(routeWatch'), RouteObjects(routeWatch'), m + 1, k, routes[k], RouteSteps)
      BY <1>2, <1>3, <2>1, <2>2, EventArrives
    <3>3. Ages(seenRoutes[k], RouteNames(routeWatch'), RouteObjects(routeWatch'), m + 1, k, routes[k], Versions)
      BY <1>2, <1>3, <2>1, <2>2, <3>0, AgesOn
    <3> QED BY <3>1, <3>2, <3>3
  <2>3. CASE k = n
    <3>1. routes'[k] = o
      BY <1>1, <2>3
    <3>2. o # Absent => /\ <<o, o>> \in Versions
                        /\ \A x : routes[k] # Absent /\ <<x, routes[k]>> \in Versions => <<x, o>> \in Versions
      <4>1. o # Absent => o \in Object
        BY DEF MaybeObject
      <4>2. routes[k] # Absent => routes[k] \in Object
        BY <1>1 DEF MaybeObject
      <4> QED BY <2>3, <4>1, <4>2, VersionsAge, OwnVersion
    <3> HIDE DEF m
    <3>3. Leads(seenRoutes[k], RouteNames(routeWatch'), RouteObjects(routeWatch'), m + 1, k, o, RouteSteps)
      BY <1>2, <1>3, <2>1, <2>3, EventArrives
    <3>4. Ages(seenRoutes[k], RouteNames(routeWatch'), RouteObjects(routeWatch'), m + 1, k, o, Versions)
      <4>1. o = IF RouteNames(routeWatch')[m + 1] = k THEN RouteObjects(routeWatch')[m + 1] ELSE routes[k]
        BY <1>3, <2>3
      <4> QED BY <1>2, <1>3, <2>1, <3>2, <4>1, AgesOn, Zenon
    <3> QED BY <3>1, <3>3, <3>4
  <2> QED BY <2>2, <2>3
<1>6. NeverBack'
  <2> SUFFICES ASSUME ~NamesReused, NEW k \in Names
               PROVE  /\ revision'[k] # 0
                      /\ revision'[k] = 1 => \A i \in 1 .. m + 1 : routeWatch'[i].name # k
                      /\ routes'[k] # Absent => \A i \in 1 .. m + 1 :
                            routeWatch'[i].name = k => routeWatch'[i].object # Absent
    BY <1>2 DEF NeverBack
  <2>1. /\ revision[k] # 0 /\ revision[k] \in Nat
        /\ revision[k] = 1 => \A i \in 1 .. m : routeWatch[i].name # k
        /\ routes[k] # Absent => \A i \in 1 .. m :
              routeWatch[i].name = k => routeWatch[i].object # Absent
    BY <1>1 DEF WatchesLead, NeverBack
  <2>2. routeWatch'[m + 1].name = n /\ routeWatch'[m + 1].object = o
    BY <1>2 DEF RouteEvent
  <2>3. \A i \in 1 .. m + 1 : i = m + 1 \/ i \in 1 .. m
    BY <1>2
  <2>4. CASE k # n
    BY <1>1, <1>2, <2>1, <2>2, <2>3, <2>4
  <2>5. CASE k = n
    <3>1. revision'[k] = revision[k] + 1 /\ routes'[k] = o
      BY <1>1, <2>5
    <3>2. o # Absent => \A i \in 1 .. m : routeWatch[i].name = k => routeWatch[i].object # Absent
      BY <2>1, <2>5
    <3> QED BY <1>2, <2>1, <2>2, <2>3, <3>1, <3>2
  <2> QED BY <2>4, <2>5
<1>7. ConfigsLead'
  BY <1>4 DEF WatchesLead, ConfigsLead
<1> QED BY <1>5, <1>6, <1>7 DEF WatchesLead, WatchesKept

\* An event about one ConfigMap, which has changed.
LEMMA ConfigWriteLeads ==
    ASSUME TypeOK, TypeOK', WatchesLead, NEW e, configWatch' = Append(configWatch, e),
           UNCHANGED <<routes, revision, routeWatch>>, UNCHANGED cache,
           \/ e.map = "coredns" /\ e.value = corefile' /\ corefile # corefile' /\ UNCHANGED custom
           \/ e.map = "coredns-custom" /\ e.value = custom' /\ custom # custom' /\ UNCHANGED corefile
    PROVE  WatchesLead'
<1> DEFINE m == Len(configWatch)
<1>1. /\ m \in Nat /\ Len(configWatch') = m + 1
      /\ \A i \in 1 .. m : configWatch'[i] = configWatch[i]
      /\ configWatch'[m + 1] = e
  BY DEF TypeOK, WatchTypeOK
<1>2. /\ \A i \in 1 .. m : /\ ConfigMaps(configWatch')[i] = ConfigMaps(configWatch)[i]
                            /\ ConfigValues(configWatch')[i] = ConfigValues(configWatch)[i]
      /\ ConfigMaps(configWatch')[m + 1] = e.map /\ ConfigValues(configWatch')[m + 1] = e.value
  BY <1>1 DEF ConfigMaps, ConfigValues
<1>3. UNCHANGED <<seenRoutes, seenCorefile, seenCustom>>
  BY DEF cache
<1>4. /\ Leads(seenCorefile, ConfigMaps(configWatch), ConfigValues(configWatch), m,
               "coredns", corefile, Changes(MaybeCorefile))
      /\ Leads(seenCustom, ConfigMaps(configWatch), ConfigValues(configWatch), m,
               "coredns-custom", custom, Changes(MaybeCustom))
  BY DEF WatchesLead, ConfigsLead
<1>5. /\ corefile # corefile' => <<corefile, corefile'>> \in Changes(MaybeCorefile)
      /\ custom # custom' => <<custom, custom'>> \in Changes(MaybeCustom)
  BY DEF Changes, TypeOK, ServerTypeOK
<1> HIDE DEF m
<1>6. Leads(seenCorefile, ConfigMaps(configWatch'), ConfigValues(configWatch'), m + 1,
            "coredns", corefile', Changes(MaybeCorefile))
  BY <1>1, <1>2, <1>4, <1>5, EventArrives
<1>7. Leads(seenCustom, ConfigMaps(configWatch'), ConfigValues(configWatch'), m + 1,
            "coredns-custom", custom', Changes(MaybeCustom))
  BY <1>1, <1>2, <1>4, <1>5, EventArrives
<1>8. ConfigsLead'
  BY <1>1, <1>3, <1>6, <1>7 DEF ConfigsLead
<1>9. RoutesLead' /\ NeverBack'
  BY <1>3 DEF WatchesLead, RoutesLead, NeverBack
<1> QED BY <1>8, <1>9 DEF WatchesLead, WatchesKept

\* A cache listed afresh is up to date.
LEMMA FreshLeads ==
    ASSUME TypeOK', WatchesKept, NamesReused \/ \A n \in Names : revision'[n] # 0,
           seenRoutes' = routes', seenCorefile' = corefile', seenCustom' = custom',
           routeWatch' = <<>>, configWatch' = <<>>
    PROVE  WatchesLead'
<1>1. Len(routeWatch') = 0 /\ Len(configWatch') = 0
  OBVIOUS
<1>2. \A n \in Names : routes'[n] # Absent => routes'[n] \in Object
  BY DEF TypeOK, ServerTypeOK, MaybeObject
<1>3. RoutesLead'
  <2> SUFFICES ASSUME NEW n \in Names
               PROVE  /\ Leads(seenRoutes'[n], RouteNames(routeWatch'), RouteObjects(routeWatch'), 0,
                               n, routes'[n], RouteSteps)
                      /\ Ages(seenRoutes'[n], RouteNames(routeWatch'), RouteObjects(routeWatch'), 0,
                              n, routes'[n], Versions)
    BY <1>1 DEF RoutesLead
  <2>1. Leads(seenRoutes'[n], RouteNames(routeWatch'), RouteObjects(routeWatch'), 0, n, routes'[n], RouteSteps)
    BY NothingArrives
  <2>2. \A i \in 0 .. 0 : ValueAt(seenRoutes'[n], RouteObjects(routeWatch'), i) = routes'[n]
    BY DEF ValueAt
  <2> QED BY <1>2, <2>1, <2>2, OwnVersion DEF Ages
<1>4. ConfigsLead'
  BY <1>1, NothingArrives DEF ConfigsLead
<1>5. NeverBack'
  BY <1>1 DEF NeverBack
<1> QED BY <1>3, <1>4, <1>5 DEF WatchesLead, WatchesKept

-----------------------------------------------------------------------------
(* What the filters drop changes nothing a run would see.                  *)

CustomPending == \E i \in 1 .. Len(configWatch) : configWatch[i].map = "coredns-custom"

\* Either the controller is woken or it has missed nothing.
NothingMissed ==
    ~queued' =>
       /\ ~queued
       /\ AllAlike(seenRoutes, seenRoutes')
       /\ UNCHANGED <<seenCorefile, seenCustom>>
       /\ CustomPending => CustomPending'

LEMMA SelfAlike == \A rs : AllAlike(rs, rs)
BY DEF AllAlike, Alike

LEMMA DeliverRouteMisses ==
    ASSUME TypeOK, TypeOK', WatchesLead, DeliverRoute
    PROVE  WatchesLead' /\ NothingMissed
<1> DEFINE m == Len(routeWatch)
           e == Head(routeWatch)
<1>1. /\ m \in Nat \ {0} /\ Len(routeWatch') = m - 1 /\ e = routeWatch[1]
      /\ \A i \in 1 .. m - 1 : routeWatch'[i] = routeWatch[i + 1]
      /\ e \in RouteEvents
  BY DEF TypeOK, WatchTypeOK, DeliverRoute
<1>2. /\ seenRoutes' = [seenRoutes EXCEPT ![e.name] = e.object] /\ seenRoutes \in [Names -> MaybeObject]
      /\ queued' = (queued \/ RouteEventPasses(seenRoutes[e.name], e.object))
      /\ UNCHANGED <<routes, revision, corefile, custom, seenCorefile, seenCustom, configWatch>>
  BY DEF DeliverRoute, TypeOK, CacheTypeOK, server
<1>3. e.name \in Names /\ e.object \in MaybeObject
  BY <1>1 DEF RouteEvents
<1>4. /\ \A i \in 1 .. m - 1 : /\ RouteNames(routeWatch')[i] = RouteNames(routeWatch)[i + 1]
                                /\ RouteObjects(routeWatch')[i] = RouteObjects(routeWatch)[i + 1]
      /\ RouteNames(routeWatch)[1] = e.name /\ RouteObjects(routeWatch)[1] = e.object
  BY <1>1 DEF RouteNames, RouteObjects
<1>5. ASSUME NEW n \in Names
      PROVE  /\ n = e.name => <<seenRoutes[n], e.object>> \in RouteSteps
             /\ Leads(seenRoutes'[n], RouteNames(routeWatch'), RouteObjects(routeWatch'), m - 1,
                      n, routes[n], RouteSteps)
             /\ Ages(seenRoutes'[n], RouteNames(routeWatch'), RouteObjects(routeWatch'), m - 1,
                     n, routes[n], Versions)
  <2> DEFINE first == seenRoutes[n]
             next == seenRoutes'[n]
             keys == RouteNames(routeWatch)
             values == RouteObjects(routeWatch)
             keys2 == RouteNames(routeWatch')
             values2 == RouteObjects(routeWatch')
  <2>1. /\ Leads(first, keys, values, m, n, routes[n], RouteSteps)
        /\ Ages(first, keys, values, m, n, routes[n], Versions)
    BY DEF WatchesLead, RoutesLead
  <2>2. /\ next = IF keys[1] = n THEN values[1] ELSE first
        /\ keys[1] = e.name /\ values[1] = e.object
        /\ \A i \in 1 .. m - 1 : keys2[i] = keys[i + 1] /\ values2[i] = values[i + 1]
        /\ m \in Nat \ {0}
    BY <1>1, <1>2, <1>3, <1>4
  <2> HIDE DEF m, e, first, next, keys, values, keys2, values2
  <2>3. Leads(next, keys2, values2, m - 1, n, routes[n], RouteSteps)
    BY <2>1, <2>2, EventTaken
  <2>4. Ages(next, keys2, values2, m - 1, n, routes[n], Versions)
    BY <2>1, <2>2, AgesWithout
  <2>5. keys[1] = n => <<first, values[1]>> \in RouteSteps
    BY <2>1, <2>2, NextEvent
  <2> QED BY <2>2, <2>3, <2>4, <2>5 DEF first, next, keys, values, keys2, values2
<1>6. RoutesLead'
  BY <1>1, <1>2, <1>5 DEF RoutesLead
<1>7. NeverBack'
  BY <1>1, <1>2 DEF NeverBack, WatchesLead
<1>8. ConfigsLead'
  BY <1>2 DEF ConfigsLead, WatchesLead
<1>9. NothingMissed
  <2> SUFFICES ASSUME ~queued' PROVE AllAlike(seenRoutes, seenRoutes')
    BY <1>2 DEF NothingMissed, CustomPending
  <2>1. Alike(seenRoutes[e.name], e.object)
    BY <1>2, <1>3, <1>5, RouteStepsTyped
  <2> HIDE DEF e
  <2> QED BY <1>2, <1>3, <2>1 DEF AllAlike, Alike
<1> QED BY <1>6, <1>7, <1>8, <1>9 DEF WatchesLead, WatchesKept

LEMMA DeliverConfigMisses ==
    ASSUME TypeOK, TypeOK', WatchesLead, DeliverConfig
    PROVE  WatchesLead' /\ NothingMissed
<1> DEFINE m == Len(configWatch)
           e == Head(configWatch)
<1>1. /\ m \in Nat \ {0} /\ Len(configWatch') = m - 1 /\ e = configWatch[1]
      /\ \A i \in 1 .. m - 1 : configWatch'[i] = configWatch[i + 1]
      /\ e \in ConfigEvents
  BY DEF TypeOK, WatchTypeOK, DeliverConfig
<1>2. /\ UNCHANGED <<routes, revision, corefile, custom, seenRoutes, routeWatch>>
      /\ \/ /\ e.map = "coredns" /\ seenCorefile' = e.value /\ UNCHANGED seenCustom
            /\ queued' = (queued \/ CorefileEventPasses(seenCorefile, e.value))
         \/ /\ e.map = "coredns-custom" /\ seenCustom' = e.value /\ UNCHANGED seenCorefile
            /\ queued' = (queued \/ CustomEventPasses(seenCustom, e.value))
  BY DEF DeliverConfig, server
<1>3. /\ \A i \in 1 .. m - 1 : /\ ConfigMaps(configWatch')[i] = ConfigMaps(configWatch)[i + 1]
                                /\ ConfigValues(configWatch')[i] = ConfigValues(configWatch)[i + 1]
      /\ ConfigMaps(configWatch)[1] = e.map /\ ConfigValues(configWatch)[1] = e.value
  BY <1>1 DEF ConfigMaps, ConfigValues
<1>4. /\ Leads(seenCorefile, ConfigMaps(configWatch), ConfigValues(configWatch), m,
               "coredns", corefile, Changes(MaybeCorefile))
      /\ Leads(seenCustom, ConfigMaps(configWatch), ConfigValues(configWatch), m,
               "coredns-custom", custom, Changes(MaybeCustom))
  BY DEF WatchesLead, ConfigsLead
<1>5. /\ seenCorefile' = IF ConfigMaps(configWatch)[1] = "coredns" THEN ConfigValues(configWatch)[1] ELSE seenCorefile
      /\ seenCustom' = IF ConfigMaps(configWatch)[1] = "coredns-custom" THEN ConfigValues(configWatch)[1] ELSE seenCustom
  BY <1>2, <1>3
<1> HIDE DEF m, e
<1>6. Leads(seenCorefile', ConfigMaps(configWatch'), ConfigValues(configWatch'), m - 1,
            "coredns", corefile, Changes(MaybeCorefile))
  BY <1>1, <1>3, <1>4, <1>5, EventTaken
<1>7. Leads(seenCustom', ConfigMaps(configWatch'), ConfigValues(configWatch'), m - 1,
            "coredns-custom", custom, Changes(MaybeCustom))
  BY <1>1, <1>3, <1>4, <1>5, EventTaken
<1>8. ConfigsLead'
  BY <1>1, <1>2, <1>6, <1>7 DEF ConfigsLead
<1>9. RoutesLead' /\ NeverBack'
  BY <1>2 DEF WatchesLead, RoutesLead, NeverBack
<1>10. NothingMissed
  <2>1. CASE e.map = "coredns"
    <3>1. CustomPending => CustomPending'
      <4> SUFFICES ASSUME NEW i \in 1 .. m, configWatch[i].map = "coredns-custom" PROVE CustomPending'
        BY DEF CustomPending, m
      <4>1. i - 1 \in 1 .. m - 1
        BY <1>1, <2>1
      <4>2. configWatch'[i - 1].map = "coredns-custom"
        BY <1>1, <4>1
      <4> QED BY <1>1, <4>1, <4>2 DEF CustomPending
    <3>2. AllAlike(seenRoutes, seenRoutes')
      BY <1>2, SelfAlike
    <3> QED BY <1>2, <2>1, <3>1, <3>2 DEF NothingMissed, CorefileEventPasses
  <2>2. CASE e.map = "coredns-custom"
    <3>1. seenCustom \in MaybeCustom /\ e.value \in MaybeCustom /\ seenCustom # e.value
      <4>1. <<seenCustom, ConfigValues(configWatch)[1]>> \in Changes(MaybeCustom)
        BY <1>1, <1>3, <1>4, <2>2, NextEvent
      <4> QED BY <1>3, <4>1 DEF Changes
    <3>2. CustomEventPasses(seenCustom, e.value)
      BY <3>1 DEF CustomEventPasses, ServerEntries, MaybeCustom, CustomMap
    <3> QED BY <1>2, <2>2, <3>2 DEF NothingMissed
  <2> QED BY <1>2, <2>1, <2>2
<1> QED BY <1>8, <1>9, <1>10 DEF WatchesLead, WatchesKept

LEMMA RelistMisses ==
    ASSUME TypeOK, TypeOK', WatchesLead, RelistRoutes \/ RelistConfig
    PROVE  WatchesLead' /\ NothingMissed
<1>1. RelistRoutes /\ ~NamesReused
  BY DEF WatchesLead, WatchesKept, RelistRoutes, RelistConfig
<1>2. /\ seenRoutes' = routes /\ routeWatch' = <<>>
      /\ queued' = (queued \/ \E n \in Names : RouteEventPasses(seenRoutes[n], routes[n]))
      /\ UNCHANGED <<routes, revision, corefile, custom, seenCorefile, seenCustom, configWatch>>
  BY <1>1 DEF RelistRoutes, server
<1>3. Len(routeWatch') = 0 /\ Len(routeWatch) \in Nat
  BY <1>2 DEF TypeOK, WatchTypeOK
<1>4. \A n \in Names : routes[n] \in MaybeObject /\ seenRoutes[n] \in MaybeObject
  BY DEF TypeOK, ServerTypeOK, CacheTypeOK
<1>5. RoutesLead'
  <2> SUFFICES ASSUME NEW n \in Names
               PROVE  /\ Leads(routes[n], RouteNames(routeWatch'), RouteObjects(routeWatch'), 0,
                               n, routes[n], RouteSteps)
                      /\ Ages(routes[n], RouteNames(routeWatch'), RouteObjects(routeWatch'), 0,
                              n, routes[n], Versions)
    BY <1>2, <1>3 DEF RoutesLead
  <2>1. Leads(routes[n], RouteNames(routeWatch'), RouteObjects(routeWatch'), 0, n, routes[n], RouteSteps)
    BY NothingArrives
  <2>2. \A i \in 0 .. 0 : ValueAt(routes[n], RouteObjects(routeWatch'), i) = routes[n]
    BY DEF ValueAt
  <2> QED BY <1>4, <2>1, <2>2, OwnVersion DEF Ages, MaybeObject
<1>6. NeverBack'
  BY <1>2, <1>3 DEF NeverBack, WatchesLead
<1>7. ConfigsLead'
  BY <1>2 DEF ConfigsLead, WatchesLead
<1>8. NothingMissed
  <2> SUFFICES ASSUME ~queued', NEW n \in Names PROVE Alike(seenRoutes[n], routes[n])
    BY <1>2 DEF NothingMissed, AllAlike, CustomPending
  <2>1. ~RouteEventPasses(seenRoutes[n], routes[n])
    BY <1>2
  <2>2. CASE seenRoutes[n] = Absent \/ routes[n] = Absent
    BY <2>1, <2>2 DEF RouteEventPasses, Alike
  <2>3. CASE seenRoutes[n] # Absent /\ routes[n] # Absent
    <3>1. \A j \in 1 .. Len(routeWatch) : routeWatch[j].name = n => routeWatch[j].object # Absent
      BY <1>1, <2>3 DEF WatchesLead, NeverBack
    <3>2. Lives(seenRoutes[n], RouteNames(routeWatch), RouteObjects(routeWatch), Len(routeWatch), n, 0)
      BY <1>3, <2>3, <3>1 DEF Lives, ValueAt, RouteNames, RouteObjects
    <3>3. ValueAt(seenRoutes[n], RouteObjects(routeWatch), 0) = seenRoutes[n]
      BY DEF ValueAt
    <3>4. <<seenRoutes[n], routes[n]>> \in Versions
      BY <1>3, <2>3, <3>2, <3>3 DEF WatchesLead, RoutesLead, Ages
    <3>5. seenRoutes[n].gen = routes[n].gen
      BY <2>1, <2>3 DEF RouteEventPasses
    <3> QED BY <3>4, <3>5 DEF Versions
  <2> QED BY <2>2, <2>3
<1> QED BY <1>5, <1>6, <1>7, <1>8 DEF WatchesLead, WatchesKept

LEMMA WatchMisses ==
    ASSUME TypeOK, TypeOK', WatchesLead, Watch
    PROVE  WatchesLead' /\ NothingMissed
BY DeliverRouteMisses, DeliverConfigMisses, RelistMisses DEF Watch

-----------------------------------------------------------------------------
(* What a run knows.                                                       *)

NothingSeen == Present(seenRoutes) = {} /\ seenCorefile = Absent /\ seenCustom = Absent

\* Unless the controller has been woken since, a run has read what the cache
\* shows, and one that is through has settled that, has failed, or left
\* something on the watch that will wake it.
UpToDate ==
    ~queued =>
       /\ pc # "idle" => AllAlike(run.items, seenRoutes)
       /\ pc \in {"custom", "publish"} => run.corefile = seenCorefile
       /\ pc = "publish" => run.custom = seenCustom
       /\ pc = "status" => run.failed \/ CustomPending \/ Settled(seenRoutes, seenCorefile, seenCustom)
       /\ pc = "idle" => NothingSeen \/ CustomPending \/ Settled(seenRoutes, seenCorefile, seenCustom)

\* A run about to publish has computed what its reads call for.
Computed ==
    pc = "publish" =>
       /\ Readable(run.corefile, run.custom)
       /\ run.fragment = FragmentFor(run.items, run.corefile, run.custom)
       /\ run.invalid = RenderFails(run.items, run.corefile, run.custom)
       /\ \A n \in Present(run.items) :
             run.verdicts[n] = Verdict(n, run.items, run.corefile, run.custom)

LEMMA ListsTyped == TypeOK => run.items \in Items /\ seenRoutes \in Items
BY DEF TypeOK, RunTypeOK, RunState, CacheTypeOK, Items

LEMMA AlikeThrough ==
    ASSUME NEW rs, NEW ss, NEW ts, AllAlike(rs, ss), AllAlike(ss, ts)
    PROVE  AllAlike(rs, ts)
BY DEF AllAlike, Alike

\* A run that stands still is as up to date as before.
LEMMA StandsUpToDate ==
    ASSUME TypeOK, TypeOK', UpToDate, Computed, NothingMissed, UNCHANGED control
    PROVE  UpToDate' /\ Computed'
<1>1. UNCHANGED <<pc, run, left>>
  BY DEF control
<1>2. Computed'
  BY <1>1 DEF Computed
<1>3. UpToDate'
  <2> SUFFICES ASSUME ~queued' PROVE UpToDate'
    BY DEF UpToDate
  <2>1. /\ ~queued /\ AllAlike(seenRoutes, seenRoutes') /\ UNCHANGED <<seenCorefile, seenCustom>>
        /\ CustomPending => CustomPending'
    BY DEF NothingMissed
  <2>2. AllAlike(run.items, seenRoutes) => AllAlike(run.items, seenRoutes')
    BY <2>1, AlikeThrough
  <2>3. seenRoutes \in Items /\ seenRoutes' \in Items
    BY ListsTyped DEF TypeOK, CacheTypeOK, Items
  <2>4. Present(seenRoutes) = Present(seenRoutes')
    BY <2>1, <2>3, AlikeListed
  <2>5. Settled(seenRoutes', seenCorefile, seenCustom) = Settled(seenRoutes, seenCorefile, seenCustom)
    BY <2>1, <2>3, AlikeComputed
  <2>6. NothingSeen' = NothingSeen
    BY <2>1, <2>4 DEF NothingSeen
  <2> QED BY <1>1, <2>1, <2>2, <2>5, <2>6 DEF UpToDate
<1> QED BY <1>2, <1>3

LEMMA PendingStays ==
    ASSUME TypeOK, NEW e, configWatch' \in {configWatch, Append(configWatch, e)}
    PROVE  CustomPending => CustomPending'
<1> SUFFICES ASSUME NEW i \in 1 .. Len(configWatch), configWatch[i].map = "coredns-custom"
             PROVE  CustomPending'
  BY DEF CustomPending
<1>1. i \in 1 .. Len(configWatch') /\ configWatch'[i] = configWatch[i]
  BY DEF TypeOK, WatchTypeOK
<1> QED BY <1>1 DEF CustomPending

\* Writes of others do not make a run miss anything.
LEMMA WritesMissNothing ==
    ASSUME TypeOK, UNCHANGED cache, UNCHANGED queued, NEW e,
           configWatch' \in {configWatch, Append(configWatch, e)}
    PROVE  NothingMissed
BY PendingStays, SelfAlike DEF NothingMissed, cache

LEMMA WritesUpToDate ==
    ASSUME TypeOK, TypeOK', UpToDate, Computed, UNCHANGED cache, UNCHANGED queued, UNCHANGED control,
           NEW e, configWatch' \in {configWatch, Append(configWatch, e)}
    PROVE  UpToDate' /\ Computed'
BY WritesMissNothing, StandsUpToDate

LEMMA SameWatches ==
    ASSUME WatchesLead, UNCHANGED server, UNCHANGED watches, UNCHANGED cache
    PROVE  WatchesLead'
BY DEF WatchesLead, WatchesKept, RoutesLead, ConfigsLead, NeverBack, server, watches, cache

-----------------------------------------------------------------------------
(* Reading.                                                                *)

LEMMA ReadsUpToDate ==
    ASSUME TypeOK, UpToDate, ListRoutes \/ ReadCorefile \/ ReadCustom \/ ReadFails
    PROVE  UpToDate' /\ Computed'
<1>0. run \in RunState
  BY DEF TypeOK, RunTypeOK
<1>1. CASE ListRoutes
  <2>1. pc' = "corefile" /\ run'.items = seenRoutes /\ UNCHANGED seenRoutes
    BY <1>0, <1>1 DEF ListRoutes, cache, RunState
  <2> QED BY <2>1, SelfAlike DEF UpToDate, Computed
<1>2. CASE ReadCorefile
  <2>1. CASE Fail
    BY <2>1 DEF Fail, UpToDate, Computed
  <2>2. CASE ~Fail
    <3>1. /\ pc = "corefile" /\ pc' = "custom" /\ UNCHANGED queued
          /\ run'.items = run.items /\ run'.corefile = seenCorefile
          /\ UNCHANGED <<seenRoutes, seenCorefile>>
      BY <1>0, <1>2, <2>2 DEF ReadCorefile, cache, RunState
    <3> QED BY <3>1 DEF UpToDate, Computed
  <2> QED BY <2>1, <2>2
<1>3. CASE ReadCustom
  <2>1. CASE Fail
    BY <2>1 DEF Fail, UpToDate, Computed
  <2>2. CASE ~Fail
    <3>1. /\ pc = "custom" /\ pc' = "publish" /\ UNCHANGED queued
          /\ Readable(run.corefile, seenCustom)
          /\ run'.items = run.items /\ run'.corefile = run.corefile /\ run'.custom = seenCustom
          /\ run'.fragment = FragmentFor(run.items, run.corefile, seenCustom)
          /\ run'.invalid = RenderFails(run.items, run.corefile, seenCustom)
          /\ UNCHANGED <<seenRoutes, seenCorefile, seenCustom>>
      BY <1>0, <1>3, <2>2 DEF ReadCustom, cache, RunState
    <3>2. \A n \in Present(run'.items) : run'.verdicts[n] = Verdict(n, run.items, run.corefile, seenCustom)
      <4>1. run'.verdicts = [n \in Names |-> IF run.items[n] = Absent THEN NoStatus
                                             ELSE Verdict(n, run.items, run.corefile, seenCustom)]
        BY <1>0, <1>3, <2>2 DEF ReadCustom, RunState
      <4>2. \A n \in Present(run.items) : n \in Names /\ run.items[n] # Absent
        BY <1>0 DEF Present, RunState
      <4> QED BY <3>1, <4>1, <4>2
    <3>3. Computed'
      BY <3>1, <3>2 DEF Computed
    <3> QED BY <3>1, <3>3 DEF UpToDate
  <2> QED BY <2>1, <2>2
<1>4. CASE ReadFails
  BY <1>4 DEF ReadFails, Fail, UpToDate, Computed
<1> QED BY <1>1, <1>2, <1>3, <1>4

-----------------------------------------------------------------------------
(* Publishing.                                                             *)

LEMMA PublishedRun ==
    ASSUME TypeOK, NEW outcome, Published(outcome)
    PROVE  /\ pc' = "status" /\ left' = Present(run.items) /\ run'.items = run.items
           /\ run'.failed = (outcome = "WriteFailed")
           /\ \A n \in Present(run.items) :
                 run'.report[n] = StatusOf(run.items[n].gen, run.verdicts[n], outcome)
<1>1. /\ pc' = "status" /\ left' = Present(run.items) /\ run'.items = run.items
      /\ run'.failed = (outcome = "WriteFailed")
      /\ run'.report = [n \in Names |-> IF run.items[n] = Absent THEN NoStatus
                                        ELSE StatusOf(run.items[n].gen, run.verdicts[n], outcome)]
  BY NoRunTyped DEF Published, RunState
<1>2. \A n \in Present(run.items) : n \in Names /\ run.items[n] # Absent
  BY DEF TypeOK, RunTypeOK, RunState, Present
<1> QED BY <1>1, <1>2

LEMMA PatchLeads ==
    ASSUME TypeOK, TypeOK', WatchesLead, NEW f, custom # Absent, ApplyPatch(f),
           UNCHANGED <<routes, revision, corefile, routeWatch>>, UNCHANGED cache
    PROVE  /\ WatchesLead'
           /\ configWatch' \in {configWatch, Append(configWatch, CustomEvent(custom'))}
<1>1. CASE custom.managed = f
  <2>1. UNCHANGED server /\ UNCHANGED watches
    BY <1>1 DEF ApplyPatch, server, watches
  <2> QED BY <2>1, SameWatches DEF watches
<1>2. CASE custom.managed # f
  <2>1. custom' = [custom EXCEPT !.managed = f] /\ configWatch' = Append(configWatch, CustomEvent(custom'))
    BY <1>2 DEF ApplyPatch, WriteCustom
  <2>2. custom \in CustomMap
    BY DEF TypeOK, ServerTypeOK, MaybeCustom
  <2>3. custom'.managed = f
    BY <2>1, <2>2 DEF CustomMap
  <2>4. CustomEvent(custom').map = "coredns-custom" /\ CustomEvent(custom').value = custom'
    BY DEF CustomEvent
  <2> QED BY <1>2, <2>1, <2>3, <2>4, ConfigWriteLeads
<1> QED BY <1>1, <1>2

\* A patch that was called for leaves an event behind that will wake the
\* controller, also when the entry turned out to have that value already.
LEMMA PatchSeen ==
    ASSUME TypeOK, WatchesLead, UpToDate, ~queued, pc = "publish", MustPatch,
           custom # Absent, ApplyPatch(run.fragment)
    PROVE  CustomPending'
<1>1. seenCustom.managed # run.fragment
  BY DEF MustPatch, UpToDate
<1>2. CASE custom.managed = run.fragment
  <2>1. UNCHANGED configWatch
    BY <1>2 DEF ApplyPatch
  <2>2. CustomPending
    <3> SUFFICES ASSUME ~CustomPending PROVE FALSE
      OBVIOUS
    <3>1. Len(configWatch) \in Nat
      BY DEF TypeOK, WatchTypeOK
    <3>2. \A i \in 1 .. Len(configWatch) : ConfigMaps(configWatch)[i] # "coredns-custom"
      BY DEF CustomPending, ConfigMaps
    <3>3. Leads(seenCustom, ConfigMaps(configWatch), ConfigValues(configWatch), Len(configWatch),
                "coredns-custom", custom, Changes(MaybeCustom))
      BY DEF WatchesLead, ConfigsLead
    <3>4. seenCustom = custom
      BY <3>1, <3>2, <3>3, NoneOf
    <3> QED BY <1>1, <1>2, <3>4
  <2> QED BY <2>1, <2>2 DEF CustomPending
<1>3. CASE custom.managed # run.fragment
  <2>1. configWatch' = Append(configWatch, CustomEvent(custom'))
    BY <1>3 DEF ApplyPatch, WriteCustom
  <2>2. Len(configWatch') \in 1 .. Len(configWatch') /\ configWatch'[Len(configWatch')] = CustomEvent(custom')
    BY <2>1 DEF TypeOK, WatchTypeOK
  <2> QED BY <2>2 DEF CustomPending, CustomEvent
<1> QED BY <1>2, <1>3

\* Without a call, a run that goes by what the cache shows finds it settled.
LEMMA NothingToPatch ==
    ASSUME TypeOK, UpToDate, Computed, ~queued, pc = "publish"
    PROVE  /\ NoCallOutcome = DesiredFor(seenRoutes, seenCorefile, seenCustom)
           /\ ~MustPatch => Settled(seenRoutes, seenCorefile, seenCustom)
<1>1. /\ AllAlike(run.items, seenRoutes) /\ run.corefile = seenCorefile /\ run.custom = seenCustom
      /\ run.items \in Items /\ seenRoutes \in Items
  BY ListsTyped DEF UpToDate
<1>2. /\ Readable(seenCorefile, seenCustom)
      /\ run.fragment = FragmentFor(run.items, seenCorefile, seenCustom)
      /\ run.invalid = RenderFails(run.items, seenCorefile, seenCustom)
  BY <1>1 DEF Computed
<1>3. /\ FragmentFor(run.items, seenCorefile, seenCustom) = FragmentFor(seenRoutes, seenCorefile, seenCustom)
      /\ RenderFails(run.items, seenCorefile, seenCustom) = RenderFails(seenRoutes, seenCorefile, seenCustom)
  BY <1>1, AlikeComputed
<1>4. NoCallOutcome = DesiredFor(seenRoutes, seenCorefile, seenCustom)
  BY <1>1, <1>2, <1>3 DEF NoCallOutcome, DesiredFor
<1> QED BY <1>1, <1>2, <1>3, <1>4 DEF MustPatch, Settled

LEMMA PublishUpToDate ==
    ASSUME TypeOK, TypeOK', WatchesLead, UpToDate, Computed, Publish \/ PatchFails
    PROVE  WatchesLead' /\ UpToDate' /\ Computed'
<1>1. pc = "publish" /\ UNCHANGED <<routes, revision, corefile, routeWatch, queued>> /\ UNCHANGED cache
  BY DEF Publish, PatchFails
<1>2. WatchesLead'
  <2>1. CASE custom # Absent /\ ApplyPatch(run.fragment)
    BY <1>1, <2>1, PatchLeads
  <2>2. CASE UNCHANGED <<custom, configWatch, wrote>>
    BY <1>1, <2>2, SameWatches DEF server, watches
  <2> QED BY <2>1, <2>2 DEF Publish, PatchFails
<1>3. Computed' /\ pc' = "status" /\ run'.items = run.items
  <2>1. pc' = "status" /\ run'.items = run.items
    BY PublishedRun DEF Publish, PatchFails
  <2> QED BY <2>1 DEF Computed
<1>4. ASSUME ~queued
      PROVE  run'.failed \/ CustomPending' \/ Settled(seenRoutes, seenCorefile, seenCustom)
  <2>1. CASE ~MustPatch
    BY <1>1, <1>4, <2>1, NothingToPatch
  <2>2. CASE MustPatch /\ custom # Absent /\ ApplyPatch(run.fragment)
    BY <1>1, <1>4, <2>2, PatchSeen
  <2>3. CASE Published("WriteFailed")
    BY <2>3, PublishedRun
  <2> QED BY <2>1, <2>2, <2>3 DEF Publish, PatchFails
<1>5. UpToDate'
  <2> SUFFICES ASSUME ~queued' PROVE UpToDate'
    BY DEF UpToDate
  <2>1. UNCHANGED <<seenRoutes, seenCorefile, seenCustom>>
    BY <1>1 DEF cache
  <2> QED BY <1>1, <1>3, <1>4, <2>1 DEF UpToDate
<1> QED BY <1>2, <1>3, <1>5

LEMMA LatePatchUpToDate ==
    ASSUME TypeOK, TypeOK', WatchesLead, UpToDate, Computed, LatePatch
    PROVE  WatchesLead' /\ UpToDate' /\ Computed'
<1>1. /\ UNCHANGED <<routes, revision, corefile, routeWatch, queued>>
      /\ UNCHANGED cache /\ UNCHANGED control
  BY DEF LatePatch
<1>2. CASE UNCHANGED <<custom, configWatch, wrote>>
  BY <1>1, <1>2, SameWatches, WritesUpToDate DEF server, watches
<1>3. CASE custom # Absent /\ ApplyPatch(inflight.fragment)
  BY <1>1, <1>3, PatchLeads, WritesUpToDate
<1> QED BY <1>2, <1>3 DEF LatePatch

-----------------------------------------------------------------------------
(* Statuses, the end of a run, users and restarts.                         *)

LEMMA StatusWriteLeads ==
    ASSUME TypeOK, WatchesLead, NEW u \in Requests, u.kind = "status", StillListed(u), WriteStatus(u),
           UNCHANGED <<corefile, custom, configWatch>>, UNCHANGED cache
    PROVE  WatchesLead'
<1> DEFINE n == u.name
           o == [routes[n] EXCEPT !.rv = revision[n] + 1, !.status = u.status]
<1>1. n \in Names /\ u.status \in {NoStatus} \cup Status
  BY DEF Requests
<1>2. routes[n] \in Object /\ revision[n] + 1 \in Nat /\ routes[n] # Absent
  BY <1>1 DEF TypeOK, ServerTypeOK, StillListed, MaybeObject
<1>3. o \in Object
  BY <1>1, <1>2, ObjectUpdates
<1>4. o.gen = routes[n].gen /\ o.created = routes[n].created /\ o.spec = routes[n].spec
  BY <1>2 DEF Object
<1>5. WriteRoute(n, o)
  BY DEF WriteStatus
<1> HIDE DEF o, n
<1>6. Alike(routes[n], o)
  BY <1>2, <1>3, <1>4, AbsentAssumption DEF Alike
<1>7. <<routes[n], o>> \in RouteSteps
  BY <1>2, <1>3, <1>6, RouteStepsTyped DEF MaybeObject
<1> QED BY <1>1, <1>2, <1>3, <1>4, <1>5, <1>6, <1>7, RouteWriteLeads DEF MaybeObject

LEMMA StatusDoneUpToDate ==
    ASSUME TypeOK, UpToDate, pc = "status", NEW n, NEW failed, StatusDone(n, failed),
           UNCHANGED <<queued, configWatch>>, UNCHANGED cache
    PROVE  UpToDate' /\ Computed'
<1>1. /\ pc' = "status" /\ run'.items = run.items /\ run'.failed = (run.failed \/ failed)
      /\ UNCHANGED <<seenRoutes, seenCorefile, seenCustom, queued, configWatch>>
  BY DEF StatusDone, TypeOK, RunTypeOK, RunState, cache
<1>2. Computed'
  BY <1>1 DEF Computed
<1>3. CustomPending' = CustomPending
  BY <1>1 DEF CustomPending
<1>4. ASSUME ~queued
      PROVE  run'.failed \/ CustomPending \/ Settled(seenRoutes, seenCorefile, seenCustom)
  <2>1. run.failed \/ CustomPending \/ Settled(seenRoutes, seenCorefile, seenCustom)
    BY <1>4 DEF UpToDate
  <2>2. run.failed => run'.failed
    BY <1>1
  <2> QED BY <2>1, <2>2
<1>5. ~queued => AllAlike(run.items, seenRoutes)
  BY DEF UpToDate
<1> QED BY <1>1, <1>2, <1>3, <1>4, <1>5 DEF UpToDate

LEMMA UpdatesUpToDate ==
    ASSUME TypeOK, WatchesLead, UpToDate, NEW n \in Names, UpdateStatus(n) \/ StatusFails(n)
    PROVE  WatchesLead' /\ UpToDate' /\ Computed'
<1>1. Due(n) /\ UNCHANGED <<corefile, custom, configWatch, queued>> /\ UNCHANGED cache
  BY DEF UpdateStatus, StatusFails
<1>2. WatchesLead'
  <2>1. CASE UNCHANGED <<routes, revision, routeWatch>>
    BY <1>1, <2>1, SameWatches DEF server, watches
  <2>2. CASE StillListed(UpdateOf(n)) /\ WriteStatus(UpdateOf(n))
    BY <1>1, <2>2, DueUpdate, StatusWriteLeads
  <2> QED BY <2>1, <2>2 DEF UpdateStatus, StatusFails
<1>3. UpToDate' /\ Computed'
  BY <1>1, StatusDoneUpToDate DEF UpdateStatus, StatusFails, Due
<1> QED BY <1>2, <1>3

LEMMA LateStatusUpToDate ==
    ASSUME TypeOK, TypeOK', WatchesLead, UpToDate, Computed, LateStatus
    PROVE  WatchesLead' /\ UpToDate' /\ Computed'
<1>1. UNCHANGED <<corefile, custom, configWatch, queued>> /\ UNCHANGED cache /\ UNCHANGED control
  BY DEF LateStatus
<1>2. inflight \in Requests /\ inflight.kind = "status"
  BY DEF TypeOK, BoundsTypeOK, LateStatus, Late
<1>3. WatchesLead'
  <2>1. CASE UNCHANGED <<routes, revision, routeWatch>>
    BY <1>1, <2>1, SameWatches DEF server, watches
  <2>2. CASE StillListed(inflight) /\ WriteStatus(inflight)
    BY <1>1, <1>2, <2>2, StatusWriteLeads
  <2> QED BY <2>1, <2>2 DEF LateStatus
<1> QED BY <1>1, <1>3, WritesUpToDate

LEMMA FinishUpToDate ==
    ASSUME TypeOK, WatchesLead, UpToDate, Finish
    PROVE  WatchesLead' /\ UpToDate' /\ Computed'
<1>1. WatchesLead'
  BY SameWatches DEF Finish
<1>2. /\ pc = "status" /\ pc' = "idle" /\ queued' = (queued \/ run.failed)
      /\ UNCHANGED <<seenRoutes, seenCorefile, seenCustom, configWatch>>
  BY DEF Finish, cache, watches
<1> QED BY <1>1, <1>2 DEF UpToDate, Computed, CustomPending

LEMMA UserUpToDate ==
    ASSUME TypeOK, TypeOK', WatchesLead, UpToDate, Computed, User
    PROVE  WatchesLead' /\ UpToDate' /\ Computed'
<1>1. UNCHANGED cache /\ UNCHANGED queued /\ UNCHANGED control
  BY DEF User, CreateRoute, ChangeSpec, TouchRoute, DeleteRoute, EditCorefile, EditCustom,
     EditsRoute, Edit
<1>2. \A n \in Names : routes[n] \in MaybeObject /\ routes'[n] \in MaybeObject /\ revision[n] \in Nat
  BY DEF TypeOK, ServerTypeOK
<1>3. ASSUME NEW n \in Names, NEW o \in MaybeObject, WriteRoute(n, o), EditsRoute,
             <<routes[n], o>> \in RouteSteps,
             o # Absent /\ routes[n] # Absent =>
                   routes[n].gen < o.gen \/ (routes[n].gen = o.gen /\ Alike(routes[n], o)),
             o # Absent /\ routes[n] = Absent => NamesReused \/ revision[n] = 1
      PROVE  WatchesLead' /\ UNCHANGED configWatch
  BY <1>1, <1>3, RouteWriteLeads DEF EditsRoute
<1>4. WatchesLead' /\ \E e : configWatch' \in {configWatch, Append(configWatch, e)}
  <2>1. ASSUME NEW n \in Names, NEW s \in Specs, NEW t \in Times, CreateRoute(n, s, t)
        PROVE  WatchesLead' /\ UNCHANGED configWatch
    <3> DEFINE o == NewObject(n, s, t)
    <3>1. o \in Object
      BY DEF TypeOK, ServerTypeOK, NewObject, Object
    <3>2. WriteRoute(n, o) /\ EditsRoute /\ routes[n] = Absent /\ (NamesReused \/ revision[n] = 1)
      BY <2>1 DEF CreateRoute
    <3> HIDE DEF o
    <3>3. RouteEventPasses(routes[n], o) /\ o \in MaybeObject
      BY <3>1, <3>2, AbsentAssumption DEF RouteEventPasses, MaybeObject
    <3>4. <<routes[n], o>> \in RouteSteps
      BY <1>2, <3>3, RouteStepsTyped
    <3> QED BY <1>3, <3>2, <3>3, <3>4
  <2>2. ASSUME NEW n \in Names, NEW s \in Specs, ChangeSpec(n, s)
        PROVE  WatchesLead' /\ UNCHANGED configWatch
    <3> DEFINE o == [routes[n] EXCEPT !.gen = @ + 1, !.rv = revision[n] + 1, !.spec = s]
    <3>1. routes[n] \in Object /\ revision[n] + 1 \in Nat /\ routes[n] # Absent
      BY <1>2, <2>2 DEF ChangeSpec, MaybeObject
    <3>2. routes[n].gen + 1 \in Nat
      BY <3>1 DEF Object
    <3>3. o \in Object
      BY <3>1, <3>2, ObjectUpdates
    <3>4. o.gen = routes[n].gen + 1 /\ routes[n].gen \in Nat
      BY <3>1 DEF Object
    <3>5. WriteRoute(n, o) /\ EditsRoute
      BY <2>2 DEF ChangeSpec
    <3> HIDE DEF o
    <3>6. RouteEventPasses(routes[n], o) /\ o \in MaybeObject /\ routes[n].gen < o.gen
      BY <3>1, <3>3, <3>4, AbsentAssumption DEF RouteEventPasses, MaybeObject
    <3>7. <<routes[n], o>> \in RouteSteps
      BY <1>2, <3>6, RouteStepsTyped
    <3> QED BY <1>3, <3>1, <3>5, <3>6, <3>7
  <2>3. ASSUME NEW n \in Names, TouchRoute(n)
        PROVE  WatchesLead' /\ UNCHANGED configWatch
    <3> DEFINE o == [routes[n] EXCEPT !.rv = revision[n] + 1]
    <3>1. routes[n] \in Object /\ revision[n] + 1 \in Nat /\ routes[n] # Absent
      BY <1>2, <2>3 DEF TouchRoute, MaybeObject
    <3>2. o \in Object
      BY <3>1, ObjectUpdates
    <3>3. o.gen = routes[n].gen /\ o.created = routes[n].created /\ o.spec = routes[n].spec
      BY <3>1 DEF Object
    <3>4. WriteRoute(n, o) /\ EditsRoute
      BY <2>3 DEF TouchRoute
    <3> HIDE DEF o
    <3>5. Alike(routes[n], o) /\ o \in MaybeObject
      BY <3>1, <3>2, <3>3, AbsentAssumption DEF Alike, MaybeObject
    <3>6. <<routes[n], o>> \in RouteSteps
      BY <1>2, <3>5, RouteStepsTyped
    <3> QED BY <1>3, <3>1, <3>3, <3>4, <3>5, <3>6
  <2>4. ASSUME NEW n \in Names, DeleteRoute(n)
        PROVE  WatchesLead' /\ UNCHANGED configWatch
    <3>1. RouteEventPasses(routes[n], Absent) /\ WriteRoute(n, Absent) /\ EditsRoute
      BY <2>4 DEF DeleteRoute, RouteEventPasses
    <3>2. Absent \in MaybeObject
      BY DEF MaybeObject
    <3>3. <<routes[n], Absent>> \in RouteSteps
      BY <1>2, <3>1, <3>2, RouteStepsTyped
    <3> QED BY <1>3, <3>1, <3>2, <3>3
  <2>5. ASSUME NEW v, EditCorefile(v)
        PROVE  WatchesLead' /\ configWatch' = Append(configWatch, CorefileEvent(v))
    <3>1. /\ configWatch' = Append(configWatch, CorefileEvent(v)) /\ v # corefile /\ corefile' = v
          /\ UNCHANGED <<routes, revision, routeWatch, custom>>
      BY <2>5 DEF EditCorefile, WriteCorefile
    <3>2. CorefileEvent(v).map = "coredns" /\ CorefileEvent(v).value = v
      BY DEF CorefileEvent
    <3> QED BY <1>1, <3>1, <3>2, ConfigWriteLeads
  <2>6. ASSUME NEW cm, EditCustom(cm)
        PROVE  WatchesLead' /\ configWatch' = Append(configWatch, CustomEvent(cm))
    <3>1. /\ configWatch' = Append(configWatch, CustomEvent(cm)) /\ cm # custom /\ custom' = cm
          /\ UNCHANGED <<routes, revision, routeWatch, corefile>>
      BY <2>6 DEF EditCustom, WriteCustom
    <3>2. CustomEvent(cm).map = "coredns-custom" /\ CustomEvent(cm).value = cm
      BY DEF CustomEvent
    <3> QED BY <1>1, <3>1, <3>2, ConfigWriteLeads
  <2> QED BY <2>1, <2>2, <2>3, <2>4, <2>5, <2>6 DEF User
<1> QED BY <1>1, <1>4, WritesUpToDate

LEMMA RestartUpToDate ==
    ASSUME TypeOK', WatchesLead, Restart
    PROVE  WatchesLead' /\ UpToDate' /\ Computed'
<1>1. /\ pc' = "idle" /\ routeWatch' = <<>> /\ configWatch' = <<>>
      /\ seenRoutes' = routes /\ seenCorefile' = corefile /\ seenCustom' = custom
      /\ queued' = (Present(routes) # {} \/ corefile # Absent \/ custom # Absent)
      /\ UNCHANGED <<routes, revision, corefile, custom>>
  BY DEF Restart, server
<1>2. WatchesLead'
  BY <1>1, FreshLeads DEF WatchesLead, NeverBack
<1> QED BY <1>1, <1>2 DEF UpToDate, Computed, NothingSeen

-----------------------------------------------------------------------------
(* At rest.                                                                *)

RestInv == WatchesLead /\ UpToDate /\ Computed

LEMMA InitUpToDate == Init /\ WatchesKept => RestInv
<1> SUFFICES ASSUME Init, WatchesKept PROVE RestInv
  OBVIOUS
<1>1. TypeOK
  BY InitTyped
<1>2. Len(routeWatch) = 0 /\ Len(configWatch) = 0
  BY DEF Init
<1>3. RoutesLead
  <2> SUFFICES ASSUME NEW n \in Names
               PROVE  /\ Leads(routes[n], RouteNames(routeWatch), RouteObjects(routeWatch), 0,
                               n, routes[n], RouteSteps)
                      /\ Ages(routes[n], RouteNames(routeWatch), RouteObjects(routeWatch), 0,
                              n, routes[n], Versions)
    BY <1>2 DEF RoutesLead, Init
  <2>1. Leads(routes[n], RouteNames(routeWatch), RouteObjects(routeWatch), 0, n, routes[n], RouteSteps)
    BY NothingArrives
  <2>2. \A i \in 0 .. 0 : ValueAt(routes[n], RouteObjects(routeWatch), i) = routes[n]
    BY DEF ValueAt
  <2>3. routes[n] # Absent => routes[n] \in Object
    BY <1>1 DEF TypeOK, ServerTypeOK, MaybeObject
  <2> QED BY <2>1, <2>2, <2>3, OwnVersion DEF Ages
<1>4. ConfigsLead
  BY <1>2, NothingArrives DEF ConfigsLead, Init
<1>5. NeverBack
  BY <1>2 DEF NeverBack, Init
<1> QED BY <1>3, <1>4, <1>5 DEF RestInv, WatchesLead, UpToDate, Computed, Init

LEMMA StepUpToDate == TypeOK /\ RestInv /\ [Next]_vars => RestInv'
<1> SUFFICES ASSUME TypeOK, RestInv, [Next]_vars PROVE RestInv'
  OBVIOUS
<1> USE DEF RestInv
<1>1. TypeOK'
  BY StepTyped
<1>2. CASE User
  BY <1>1, <1>2, UserUpToDate
<1>3. CASE Watch
  <2>1. UNCHANGED control
    BY <1>3 DEF Watch, DeliverRoute, DeliverConfig, RelistRoutes, RelistConfig
  <2> QED BY <1>1, <1>3, <2>1, WatchMisses, StandsUpToDate
<1>4. CASE ListRoutes \/ ReadCorefile \/ ReadCustom \/ ReadFails
  <2>1. UNCHANGED server /\ UNCHANGED watches /\ UNCHANGED cache
    BY <1>4 DEF ListRoutes, ReadCorefile, ReadCustom, ReadFails
  <2> QED BY <1>4, <2>1, SameWatches, ReadsUpToDate
<1>5. CASE Publish \/ PatchFails
  BY <1>1, <1>5, PublishUpToDate
<1>6. CASE \E n \in Names : UpdateStatus(n) \/ StatusFails(n)
  BY <1>6, UpdatesUpToDate
<1>7. CASE Finish
  BY <1>7, FinishUpToDate
<1>8. CASE LatePatch
  BY <1>1, <1>8, LatePatchUpToDate
<1>9. CASE LateStatus
  BY <1>1, <1>9, LateStatusUpToDate
<1>10. CASE Restart
  BY <1>1, <1>10, RestartUpToDate
<1>11. CASE UNCHANGED vars
  <2>1. /\ UNCHANGED server /\ UNCHANGED watches /\ UNCHANGED cache
        /\ UNCHANGED queued /\ UNCHANGED control /\ UNCHANGED configWatch
    BY <1>11 DEF vars, server, watches, cache, control
  <2> QED BY <1>1, <2>1, SameWatches, WritesUpToDate
<1> QED BY <1>2, <1>3, <1>4, <1>5, <1>6, <1>7, <1>8, <1>9, <1>10, <1>11 DEF Next, Reconcile, Failure

LEMMA RestsSettled ==
    ASSUME TypeOK, RestInv, AtRest, SomethingExists
    PROVE  /\ seenRoutes = routes /\ seenCorefile = corefile /\ seenCustom = custom
           /\ Settled(routes, corefile, custom)
<1>1. Len(routeWatch) = 0 /\ Len(configWatch) = 0 /\ pc = "idle" /\ ~queued
  BY DEF AtRest, Idle
<1>2. \A n \in Names : seenRoutes[n] = routes[n]
  BY <1>1, NothingArrives DEF RestInv, WatchesLead, RoutesLead
<1>3. seenRoutes = routes
  BY <1>2 DEF TypeOK, ServerTypeOK, CacheTypeOK
<1>4. seenCorefile = corefile /\ seenCustom = custom
  BY <1>1, NothingArrives DEF RestInv, WatchesLead, ConfigsLead
<1>5. ~NothingSeen /\ ~CustomPending
  BY <1>1, <1>3, <1>4 DEF SomethingExists, NothingSeen, CustomPending
<1>6. Settled(seenRoutes, seenCorefile, seenCustom)
  BY <1>1, <1>5 DEF RestInv, UpToDate
<1> QED BY <1>3, <1>4, <1>6

LEMMA RestsRight == TypeOK /\ RestInv => FragmentAtRest
<1> SUFFICES ASSUME TypeOK, RestInv, AtRest, SomethingExists
             PROVE  Readable(corefile, custom) /\ FragmentCurrent
  BY DEF FragmentAtRest
<1>1. Settled(routes, corefile, custom)
  BY RestsSettled
<1>2. DesiredOutcome = DesiredFor(routes, corefile, custom)
  BY DEF DesiredOutcome, DesiredFor
<1> QED BY <1>1, <1>2 DEF Settled, FragmentCurrent

\* Whenever the controller rests the managed entry is what the server's state
\* calls for: no edit, failure, late patch or restart, in whatever order,
\* leaves it behind, as long as every event of a watch is delivered.  Without
\* the ConfigMap, or where the renderer refuses, nothing is said of the entry.
THEOREM RestsWithTheRightFragment == Spec /\ WatchesKept => []FragmentAtRest
BY InitTyped, InitUpToDate, StepTyped, StepUpToDate, RestsRight, PTL DEF Spec

\* Where the renderer refuses nothing, no hand edit of the managed key is left at
\* rest.  (Where it refuses the accepted routes, one may be.)
THEOREM HandEditsGo ==
    Spec /\ WatchesKept => [](Unrenderable = {} /\ ForeignApart => HandEditsOverwritten)
<1>1. TypeOK /\ RestInv => (Unrenderable = {} /\ ForeignApart => HandEditsOverwritten)
  <2> SUFFICES ASSUME TypeOK, RestInv, Unrenderable = {}, ForeignApart, AtRest,
                      Readable(corefile, custom), custom # Absent
               PROVE  custom.managed # Garbage
    BY DEF HandEditsOverwritten
  <2>1. FragmentCurrent
    BY RestsRight DEF FragmentAtRest, SomethingExists
  <2>2. DesiredOutcome = "InPlace"
    BY DEF DesiredOutcome, RenderFails
  <2>3. routes \in Items
    BY DEF TypeOK, ServerTypeOK, Items
  <2>4. FragmentFor(routes, corefile, custom) \subseteq Blocks(Names)
    BY <2>3, FragmentTyped
  <2> QED BY <2>1, <2>2, <2>4 DEF FragmentCurrent, ForeignApart
<1> QED BY <1>1, InitTyped, InitUpToDate, StepTyped, StepUpToDate, PTL DEF Spec

-----------------------------------------------------------------------------
(* Statuses at rest.                                                       *)

\* What the cache shows of name n is a version, of the same generation, of the
\* very object the server has.
Shown(n) ==
    /\ routes[n] # Absent
    /\ Lives(seenRoutes[n], RouteNames(routeWatch), RouteObjects(routeWatch), Len(routeWatch), n, 0)
    /\ seenRoutes[n].gen = routes[n].gen

\* The statuses of the run have reached the server or are its own to write.
StatusesListed == \A n \in Names : Shown(n) => routes[n].status = run.items[n].status

StatusesReported ==
    /\ \A n \in Present(seenRoutes) : run.report[n] = StatusFor(n, seenRoutes, seenCorefile, seenCustom)
    /\ \A n \in Names : Shown(n) =>
          routes[n].status = IF n \in left THEN run.items[n].status ELSE run.report[n]

StatusesWritten ==
    \A n \in Names : Shown(n) =>
        routes[n].status = StatusFor(n, seenRoutes, seenCorefile, seenCustom)

\* Unless the controller has been woken since, or a status was written that the
\* run did not read, the run knows the statuses and brings them up to date.
StatusesKnown ==
    ~queued /\ ~missed =>
       /\ pc \in {"corefile", "custom", "publish"} => StatusesListed
       /\ pc = "status" => run.failed \/ CustomPending \/ StatusesReported
       /\ pc = "idle" => NothingSeen \/ CustomPending \/ StatusesWritten

\* Statuses stay what they are, and nothing new is shown.
StatusesStand ==
    \A n \in Names : Shown(n)' => Shown(n) /\ routes'[n].status = routes[n].status

\* A write to one object shows no other and, unless the generation stays, not
\* even that one.
LEMMA WriteShows ==
    ASSUME TypeOK, WatchesLead, NEW n \in Names, NEW o \in MaybeObject, WriteRoute(n, o),
           UNCHANGED cache, o # Absent /\ routes[n] # Absent => routes[n].gen <= o.gen,
           NEW k \in Names, Shown(k)'
    PROVE  /\ Shown(k)
           /\ k # n => routes'[k] = routes[k]
           /\ k = n => routes'[k] = o /\ o # Absent /\ o.gen = routes[n].gen
<1> DEFINE m == Len(routeWatch)
<1>1. /\ routes' = [routes EXCEPT ![n] = o] /\ routes \in [Names -> MaybeObject]
      /\ seenRoutes' = seenRoutes /\ seenRoutes \in [Names -> MaybeObject]
  BY DEF WriteRoute, TypeOK, ServerTypeOK, CacheTypeOK, cache
<1>2. /\ m \in Nat /\ Len(routeWatch') = m + 1
      /\ \A i \in 1 .. m : routeWatch'[i] = routeWatch[i]
  BY DEF TypeOK, WatchTypeOK, WriteRoute
<1>3. \A i \in 1 .. m : /\ RouteNames(routeWatch')[i] = RouteNames(routeWatch)[i]
                         /\ RouteObjects(routeWatch')[i] = RouteObjects(routeWatch)[i]
  BY <1>2 DEF RouteNames, RouteObjects
<1>4. /\ routes'[k] # Absent /\ seenRoutes[k].gen = routes'[k].gen
      /\ Lives(seenRoutes[k], RouteNames(routeWatch'), RouteObjects(routeWatch'), m + 1, k, 0)
  BY <1>1, <1>2 DEF Shown
<1>5. /\ Leads(seenRoutes[k], RouteNames(routeWatch), RouteObjects(routeWatch), m, k, routes[k], RouteSteps)
      /\ Ages(seenRoutes[k], RouteNames(routeWatch), RouteObjects(routeWatch), m, k, routes[k], Versions)
  BY DEF WatchesLead, RoutesLead
<1>6. 0 \in 0 .. m
  BY <1>2
<1>7. Lives(seenRoutes[k], RouteNames(routeWatch), RouteObjects(routeWatch), m, k, 0)
  <2> HIDE DEF m
  <2> QED BY <1>2, <1>3, <1>4, <1>6, LivesBefore
<1>8. routes[k] # Absent
  <2> HIDE DEF m
  <2> QED BY <1>2, <1>5, <1>6, <1>7, LivesStill
<1>9. <<seenRoutes[k], routes[k]>> \in Versions
  <2>1. ValueAt(seenRoutes[k], RouteObjects(routeWatch), 0) = seenRoutes[k]
    BY DEF ValueAt
  <2> HIDE DEF m
  <2> QED BY <1>5, <1>6, <1>7, <1>8, <2>1 DEF Ages
<1>10. seenRoutes[k].gen <= routes[k].gen /\ seenRoutes[k].gen \in Nat /\ routes[k].gen \in Nat
  BY <1>9 DEF Versions, Object
<1>11. CASE k # n
  <2>1. routes'[k] = routes[k]
    BY <1>1, <1>11
  <2> QED BY <1>4, <1>7, <1>8, <1>11, <2>1 DEF Shown
<1>12. CASE k = n
  <2>1. routes'[k] = o
    BY <1>1, <1>12
  <2>2. o # Absent /\ o.gen \in Nat
    BY <1>4, <2>1 DEF MaybeObject, Object
  <2>3. o.gen = routes[k].gen
    BY <1>4, <1>8, <1>10, <1>12, <2>1, <2>2
  <2> QED BY <1>4, <1>7, <1>8, <1>12, <2>1, <2>2, <2>3 DEF Shown
<1> QED BY <1>11, <1>12

LEMMA ShownListed ==
    ASSUME TypeOK, NEW n \in Names, Shown(n)
    PROVE  n \in Present(seenRoutes)
<1>1. 0 \in 0 .. Len(routeWatch) /\ ValueAt(seenRoutes[n], RouteObjects(routeWatch), 0) = seenRoutes[n]
  BY DEF ValueAt, TypeOK, WatchTypeOK
<1> QED BY <1>1 DEF Shown, Lives, Present, TypeOK, CacheTypeOK

LEMMA SameShown ==
    ASSUME UNCHANGED <<routes, routeWatch, seenRoutes>>
    PROVE  StatusesStand /\ \A n \in Names : Shown(n)' = Shown(n)
BY DEF StatusesStand, Shown

LEMMA UserStands ==
    ASSUME TypeOK, WatchesLead, User
    PROVE  StatusesStand
<1>1. UNCHANGED cache
  BY DEF User, CreateRoute, ChangeSpec, TouchRoute, DeleteRoute, EditCorefile, EditCustom,
     EditsRoute, Edit
<1>2. \A n \in Names : routes[n] \in MaybeObject /\ revision[n] \in Nat
  BY DEF TypeOK, ServerTypeOK
<1>3. ASSUME NEW n \in Names, NEW o \in MaybeObject, WriteRoute(n, o),
             o # Absent /\ routes[n] # Absent => routes[n].gen <= o.gen,
             o # Absent /\ routes[n] # Absent /\ o.gen = routes[n].gen => o.status = routes[n].status
      PROVE  StatusesStand
  <2> SUFFICES ASSUME NEW k \in Names, Shown(k)'
               PROVE  Shown(k) /\ routes'[k].status = routes[k].status
    BY DEF StatusesStand
  <2>1. /\ Shown(k) /\ (k # n => routes'[k] = routes[k])
        /\ k = n => routes'[k] = o /\ o # Absent /\ o.gen = routes[n].gen
    BY <1>1, <1>3, WriteShows
  <2> QED BY <1>3, <2>1 DEF Shown
<1>4. ASSUME NEW n \in Names, NEW s \in Specs, NEW t \in Times, CreateRoute(n, s, t)
      PROVE  StatusesStand
  <2> DEFINE o == NewObject(n, s, t)
  <2>1. o \in Object
    BY DEF TypeOK, ServerTypeOK, NewObject, Object
  <2>2. WriteRoute(n, o) /\ routes[n] = Absent
    BY <1>4 DEF CreateRoute
  <2> HIDE DEF o
  <2> QED BY <1>3, <2>1, <2>2 DEF MaybeObject
<1>5. ASSUME NEW n \in Names, NEW s \in Specs, ChangeSpec(n, s)
      PROVE  StatusesStand
  <2> DEFINE o == [routes[n] EXCEPT !.gen = @ + 1, !.rv = revision[n] + 1, !.spec = s]
  <2>1. routes[n] \in Object /\ revision[n] + 1 \in Nat
    BY <1>2, <1>5 DEF ChangeSpec, MaybeObject
  <2>2. routes[n].gen + 1 \in Nat
    BY <2>1 DEF Object
  <2>3. o \in Object
    BY <2>1, <2>2, ObjectUpdates
  <2>4. o.gen = routes[n].gen + 1 /\ routes[n].gen \in Nat
    BY <2>1 DEF Object
  <2>5. WriteRoute(n, o)
    BY <1>5 DEF ChangeSpec
  <2> HIDE DEF o
  <2>6. routes[n].gen <= o.gen /\ o.gen # routes[n].gen
    BY <2>4
  <2> QED BY <1>3, <2>3, <2>5, <2>6 DEF MaybeObject
<1>6. ASSUME NEW n \in Names, TouchRoute(n)
      PROVE  StatusesStand
  <2> DEFINE o == [routes[n] EXCEPT !.rv = revision[n] + 1]
  <2>1. routes[n] \in Object /\ revision[n] + 1 \in Nat
    BY <1>2, <1>6 DEF TouchRoute, MaybeObject
  <2>2. o \in Object
    BY <2>1, ObjectUpdates
  <2>3. o.gen = routes[n].gen /\ o.status = routes[n].status /\ o.gen <= o.gen
    BY <2>1 DEF Object
  <2>4. WriteRoute(n, o)
    BY <1>6 DEF TouchRoute
  <2> HIDE DEF o
  <2> QED BY <1>3, <2>2, <2>3, <2>4 DEF MaybeObject
<1>7. ASSUME NEW n \in Names, DeleteRoute(n)
      PROVE  StatusesStand
  <2>1. WriteRoute(n, Absent) /\ Absent \in MaybeObject
    BY <1>7 DEF DeleteRoute, MaybeObject
  <2> QED BY <1>3, <2>1
<1>8. ASSUME NEW v, EditCorefile(v) \/ EditCustom(v)
      PROVE  StatusesStand
  BY <1>1, <1>8, SameShown DEF EditCorefile, EditCustom, cache
<1> QED BY <1>4, <1>5, <1>6, <1>7, <1>8 DEF User

\* While nothing wakes the controller the watch shows nothing new.
LEMMA WatchStands ==
    ASSUME TypeOK, TypeOK', WatchesLead, Watch, ~queued'
    PROVE  StatusesStand
<1>1. \A n \in Names : routes[n] \in MaybeObject /\ seenRoutes[n] \in MaybeObject
  BY DEF TypeOK, ServerTypeOK, CacheTypeOK
<1>2. AllAlike(seenRoutes, seenRoutes')
  BY WatchMisses DEF NothingMissed
<1>3. CASE DeliverRoute
  <2> DEFINE m == Len(routeWatch)
             e == Head(routeWatch)
  <2>1. /\ m \in Nat \ {0} /\ Len(routeWatch') = m - 1 /\ e = routeWatch[1]
        /\ \A i \in 1 .. m - 1 : routeWatch'[i] = routeWatch[i + 1]
        /\ UNCHANGED routes
    BY <1>3 DEF TypeOK, WatchTypeOK, DeliverRoute, server
  <2>2. /\ seenRoutes' = [seenRoutes EXCEPT ![e.name] = e.object] /\ seenRoutes \in [Names -> MaybeObject]
    BY <1>3 DEF DeliverRoute, TypeOK, CacheTypeOK
  <2> SUFFICES ASSUME NEW n \in Names, Shown(n)' PROVE Shown(n)
    BY <2>1 DEF StatusesStand
  <2>3. /\ \A j \in 0 .. m - 1 : j = 0 \/ routeWatch'[j].name = n =>
                ValueAt(seenRoutes'[n], RouteObjects(routeWatch'), j) # Absent
        /\ routes[n] # Absent /\ seenRoutes'[n].gen = routes[n].gen
    <3>1. \A j \in 1 .. m - 1 : RouteNames(routeWatch')[j] = routeWatch'[j].name
      BY <2>1 DEF RouteNames
    <3> QED BY <2>1, <3>1 DEF Shown, Lives
  <2>4. /\ seenRoutes'[n] # Absent
        /\ \A j \in 1 .. m - 1 : routeWatch[j + 1].name = n => routeWatch[j + 1].object # Absent
    <3>1. ValueAt(seenRoutes'[n], RouteObjects(routeWatch'), 0) = seenRoutes'[n]
      BY DEF ValueAt
    <3>2. \A j \in 1 .. m - 1 : ValueAt(seenRoutes'[n], RouteObjects(routeWatch'), j) = routeWatch[j + 1].object
      BY <2>1 DEF ValueAt, RouteObjects
    <3>3. 0 \in 0 .. m - 1 /\ \A j \in 1 .. m - 1 : j \in 0 .. m - 1 /\ routeWatch'[j] = routeWatch[j + 1]
      BY <2>1
    <3> QED BY <2>3, <3>1, <3>2, <3>3
  <2>5. seenRoutes[n] # Absent /\ seenRoutes[n].gen = routes[n].gen
    BY <1>2, <2>3, <2>4 DEF AllAlike, Alike
  <2>6. routeWatch[1].name = n => routeWatch[1].object # Absent
    BY <2>1, <2>2, <2>4
  <2>7. \A i \in 1 .. m : routeWatch[i].name = n => routeWatch[i].object # Absent
    <3> SUFFICES ASSUME NEW i \in 1 .. m, i # 1, routeWatch[i].name = n PROVE routeWatch[i].object # Absent
      BY <2>6
    <3>1. i - 1 \in 1 .. m - 1 /\ (i - 1) + 1 = i
      BY <2>1
    <3> QED BY <2>4, <3>1
  <2>8. Lives(seenRoutes[n], RouteNames(routeWatch), RouteObjects(routeWatch), m, n, 0)
    BY <2>1, <2>5, <2>7 DEF Lives, ValueAt, RouteNames, RouteObjects
  <2> QED BY <2>3, <2>5, <2>8 DEF Shown
<1>4. CASE DeliverConfig \/ RelistConfig
  BY <1>4, SameShown DEF DeliverConfig, RelistConfig, server
<1>5. CASE RelistRoutes
  <2>1. seenRoutes' = routes /\ UNCHANGED routes /\ ~NamesReused /\ Len(routeWatch) \in Nat
    BY <1>5 DEF RelistRoutes, server, WatchesLead, WatchesKept, TypeOK, WatchTypeOK
  <2> SUFFICES ASSUME NEW n \in Names, routes[n] # Absent PROVE Shown(n)
    BY <2>1 DEF StatusesStand, Shown
  <2>2. seenRoutes[n] # Absent /\ seenRoutes[n].gen = routes[n].gen
    BY <1>2, <2>1 DEF AllAlike, Alike
  <2>3. \A j \in 1 .. Len(routeWatch) : routeWatch[j].name = n => routeWatch[j].object # Absent
    BY <2>1 DEF WatchesLead, NeverBack
  <2>4. Lives(seenRoutes[n], RouteNames(routeWatch), RouteObjects(routeWatch), Len(routeWatch), n, 0)
    BY <2>1, <2>2, <2>3 DEF Lives, ValueAt, RouteNames, RouteObjects
  <2> QED BY <2>2, <2>4 DEF Shown
<1> QED BY <1>3, <1>4, <1>5 DEF Watch

\* A run that stands still knows as much as before.
LEMMA StandsKnown ==
    ASSUME TypeOK, TypeOK', UpToDate, StatusesKnown, NothingMissed, ~queued' => StatusesStand,
           UNCHANGED control, missed => missed'
    PROVE  StatusesKnown'
<1> SUFFICES ASSUME ~queued', ~missed' PROVE StatusesKnown'
  BY DEF StatusesKnown
<1>0. seenRoutes \in Items /\ seenRoutes' \in Items
  BY DEF TypeOK, CacheTypeOK, Items
<1>1. /\ ~queued /\ ~missed /\ UNCHANGED <<seenCorefile, seenCustom>>
      /\ AllAlike(seenRoutes, seenRoutes') /\ (CustomPending => CustomPending')
  BY DEF NothingMissed
<1>2. UNCHANGED <<pc, run, left>>
  BY DEF control
<1>3. \A n \in Names : Shown(n)' => Shown(n) /\ routes'[n].status = routes[n].status
  BY DEF StatusesStand
<1>4. /\ Present(seenRoutes) = Present(seenRoutes')
      /\ \A n \in Present(seenRoutes) :
            StatusFor(n, seenRoutes', seenCorefile, seenCustom) = StatusFor(n, seenRoutes, seenCorefile, seenCustom)
  <2>1. Present(seenRoutes) = Present(seenRoutes')
    BY <1>0, <1>1, AlikeListed
  <2>2. \A n \in Present(seenRoutes) :
           StatusFor(n, seenRoutes, seenCorefile, seenCustom) = StatusFor(n, seenRoutes', seenCorefile, seenCustom)
    BY <1>0, <1>1, AlikeComputed
  <2> QED BY <2>1, <2>2
<1>5. NothingSeen' = NothingSeen
  BY <1>1, <1>4 DEF NothingSeen
<1>6. StatusesListed => StatusesListed'
  BY <1>2, <1>3 DEF StatusesListed
<1>7. StatusesReported => StatusesReported'
  BY <1>1, <1>2, <1>3, <1>4 DEF StatusesReported
<1>8. \A n \in Names : Shown(n) => n \in Present(seenRoutes)
  BY ShownListed
<1>9. StatusesWritten => StatusesWritten'
  BY <1>1, <1>3, <1>4, <1>8 DEF StatusesWritten
<1> QED BY <1>1, <1>2, <1>5, <1>6, <1>7, <1>9 DEF StatusesKnown

-----------------------------------------------------------------------------
(* A run and its statuses.                                                 *)

LEMMA ReadsKnown ==
    ASSUME TypeOK, StatusesKnown, ListRoutes \/ ReadCorefile \/ ReadCustom \/ ReadFails
    PROVE  StatusesKnown'
<1>0. run \in RunState
  BY DEF TypeOK, RunTypeOK
<1>1. UNCHANGED <<routes, routeWatch, seenRoutes>>
  BY DEF ListRoutes, ReadCorefile, ReadCustom, ReadFails, server, watches, cache
<1>2. \A n \in Names : Shown(n)' = Shown(n)
  BY <1>1, SameShown
<1>3. CASE ListRoutes
  <2> SUFFICES ASSUME ~missed' PROVE StatusesKnown'
    BY DEF StatusesKnown
  <2>1. pc' = "corefile" /\ run'.items = seenRoutes /\ StatusesSeen
    BY <1>0, <1>3 DEF ListRoutes, RunState
  <2>2. \A n \in Names : Shown(n) => n \in Present(routes) /\ n \in Present(seenRoutes)
    BY ShownListed DEF Present, Shown, TypeOK, ServerTypeOK
  <2>3. StatusesListed'
    BY <1>1, <1>2, <2>1, <2>2 DEF StatusesListed, StatusesSeen
  <2> QED BY <2>1, <2>3 DEF StatusesKnown
<1>4. CASE (ReadCorefile \/ ReadCustom) /\ ~Fail
  <2>1. /\ pc \in {"corefile", "custom"} /\ pc' \in {"custom", "publish"}
        /\ UNCHANGED <<queued, missed>> /\ run'.items = run.items
    BY <1>0, <1>4 DEF ReadCorefile, ReadCustom, RunState, history
  <2>2. StatusesListed => StatusesListed'
    BY <1>1, <1>2, <2>1 DEF StatusesListed
  <2> QED BY <2>1, <2>2 DEF StatusesKnown
<1>5. CASE Fail
  BY <1>5 DEF Fail, StatusesKnown
<1>6. CASE ReadFails
  BY <1>6 DEF ReadFails, Fail, StatusesKnown
<1> QED BY <1>3, <1>4, <1>5, <1>6

LEMMA PublishKnown ==
    ASSUME TypeOK, WatchesLead, UpToDate, Computed, StatusesKnown, Publish \/ PatchFails
    PROVE  StatusesKnown'
<1>1. pc = "publish" /\ UNCHANGED <<routes, routeWatch, queued, missed>> /\ UNCHANGED cache
  BY DEF Publish, PatchFails
<1>2. UNCHANGED <<seenRoutes, seenCorefile, seenCustom>>
  BY <1>1 DEF cache
<1>3. \A n \in Names : Shown(n)' = Shown(n)
  BY <1>1, <1>2, SameShown
<1>4. pc' = "status"
  BY PublishedRun DEF Publish, PatchFails
<1> SUFFICES ASSUME ~queued, ~missed PROVE run'.failed \/ CustomPending' \/ StatusesReported'
  BY <1>1, <1>4 DEF StatusesKnown
<1>5. CASE MustPatch /\ custom # Absent /\ ApplyPatch(run.fragment)
  BY <1>1, <1>5, PatchSeen
<1>6. CASE Published("WriteFailed")
  BY <1>6, PublishedRun
<1>7. CASE ~MustPatch /\ Published(NoCallOutcome)
  <2>1. /\ left' = Present(run.items) /\ run'.items = run.items
        /\ \A n \in Present(run.items) :
              run'.report[n] = StatusOf(run.items[n].gen, run.verdicts[n], NoCallOutcome)
    BY <1>7, PublishedRun
  <2>2. NoCallOutcome = DesiredFor(seenRoutes, seenCorefile, seenCustom)
    BY <1>1, NothingToPatch
  <2>3. /\ AllAlike(run.items, seenRoutes) /\ run.corefile = seenCorefile /\ run.custom = seenCustom
        /\ run.items \in Items /\ seenRoutes \in Items
    BY <1>1, ListsTyped DEF UpToDate
  <2>4. /\ Present(run.items) = Present(seenRoutes)
        /\ \A n \in Present(run.items) : run.items[n].gen = seenRoutes[n].gen
    BY <2>3, AlikeListed
  <2>5. \A n \in Present(run.items) :
            Verdict(n, run.items, seenCorefile, seenCustom) = Verdict(n, seenRoutes, seenCorefile, seenCustom)
    BY <2>3, AlikeComputed
  <2>6. \A n \in Present(run.items) : run.verdicts[n] = Verdict(n, run.items, seenCorefile, seenCustom)
    BY <1>1, <2>3 DEF Computed
  <2>7. \A n \in Present(seenRoutes) : run'.report[n] = StatusFor(n, seenRoutes, seenCorefile, seenCustom)
    BY <2>1, <2>2, <2>4, <2>5, <2>6 DEF StatusFor
  <2>8. \A n \in Names : Shown(n) => n \in Present(seenRoutes) /\ routes[n].status = run.items[n].status
    BY <1>1, ShownListed DEF StatusesKnown, StatusesListed
  <2>9. \A n \in Names : Shown(n)' =>
           routes'[n].status = IF n \in left' THEN run'.items[n].status ELSE run'.report[n]
    BY <1>1, <1>3, <2>1, <2>4, <2>8
  <2>10. StatusesReported'
    BY <1>2, <2>7, <2>9 DEF StatusesReported
  <2> QED BY <2>10
<1> QED BY <1>5, <1>6, <1>7 DEF Publish, PatchFails

LEMMA UpdatesKnown ==
    ASSUME TypeOK, WatchesLead, UpToDate, StatusesKnown, NEW n \in Names, UpdateStatus(n) \/ StatusFails(n)
    PROVE  StatusesKnown'
<1>1. /\ Due(n) /\ UNCHANGED <<corefile, custom, configWatch, queued, missed>> /\ UNCHANGED cache
      /\ UNCHANGED <<seenRoutes, seenCorefile, seenCustom>>
  BY DEF UpdateStatus, StatusFails, cache, history
<1>2. pc = "status" /\ pc' = "status" /\ n \in left
  BY <1>1 DEF Due, UpdateStatus, StatusFails, StatusDone
<1>3. CustomPending' = CustomPending
  BY <1>1 DEF CustomPending
<1> SUFFICES ASSUME ~queued, ~missed, StatusesReported, ~run.failed, ~run'.failed
             PROVE  StatusesReported'
  <2>1. run.failed => run'.failed
    BY DEF TypeOK, RunTypeOK, RunState, UpdateStatus, StatusFails, StatusDone
  <2> QED BY <1>1, <1>2, <1>3, <2>1 DEF StatusesKnown
<1>4. run \in RunState /\ run' = [run EXCEPT !.failed = run'.failed] /\ left' = left \ {n}
  BY DEF TypeOK, RunTypeOK, RunState, UpdateStatus, StatusFails, StatusDone
<1>5. run'.items = run.items /\ run'.report = run.report
  BY <1>4 DEF RunState
<1>6. \/ StatusUnchanged(n) /\ UNCHANGED <<routes, revision, routeWatch>>
      \/ StillListed(UpdateOf(n)) /\ WriteStatus(UpdateOf(n))
  <2>1. ~StatusDone(n, TRUE)
    BY DEF StatusDone, TypeOK, RunTypeOK, RunState
  <2> QED BY <2>1 DEF UpdateStatus, StatusFails
<1>7. \A k \in Names : Shown(k)' =>
         /\ Shown(k)
         /\ k # n => routes'[k].status = routes[k].status
         /\ k = n => routes'[k].status = run.report[n]
  <2>1. CASE StatusUnchanged(n) /\ UNCHANGED <<routes, revision, routeWatch>>
    <3>1. \A k \in Names : Shown(k)' = Shown(k)
      BY <1>1, <2>1, SameShown
    <3>2. Shown(n) => routes[n].status = run.report[n]
      BY <1>2, <2>1 DEF StatusesReported, StatusUnchanged
    <3> QED BY <2>1, <3>1, <3>2
  <2>2. CASE StillListed(UpdateOf(n)) /\ WriteStatus(UpdateOf(n))
    <3> DEFINE o == [routes[n] EXCEPT !.rv = revision[n] + 1, !.status = run.report[n]]
    <3>1. routes[n] \in Object /\ revision[n] + 1 \in Nat /\ run.report[n] \in {NoStatus} \cup Status
      BY <1>4, <2>2 DEF TypeOK, ServerTypeOK, StillListed, UpdateOf, MaybeObject, RunState
    <3>2. o \in Object
      BY <3>1, ObjectUpdates
    <3>3. o.gen = routes[n].gen /\ o.gen <= o.gen /\ o.status = run.report[n]
      BY <3>1 DEF Object
    <3>4. WriteRoute(n, o)
      BY <2>2 DEF WriteStatus, UpdateOf
    <3> HIDE DEF o
    <3>5. routes[n].gen <= o.gen
      BY <3>3
    <3> QED BY <1>1, <3>2, <3>3, <3>4, <3>5, WriteShows DEF MaybeObject
  <2> QED BY <1>6, <2>1, <2>2
<1>8. \A k \in Names : Shown(k)' =>
         routes'[k].status = IF k \in left' THEN run'.items[k].status ELSE run'.report[k]
  BY <1>4, <1>5, <1>7 DEF StatusesReported
<1> QED BY <1>1, <1>5, <1>8 DEF StatusesReported

LEMMA FinishKnown ==
    ASSUME TypeOK, StatusesKnown, Finish
    PROVE  StatusesKnown'
<1>1. /\ pc = "status" /\ pc' = "idle" /\ left = {} /\ queued' = (queued \/ run.failed)
      /\ UNCHANGED <<routes, routeWatch, configWatch, seenRoutes, seenCorefile, seenCustom, missed>>
  BY DEF Finish, server, watches, cache, history
<1>2. CustomPending' = CustomPending /\ \A n \in Names : Shown(n)' = Shown(n)
  BY <1>1, SameShown DEF CustomPending
<1>3. StatusesReported => StatusesWritten'
  BY <1>1, <1>2, ShownListed DEF StatusesReported, StatusesWritten
<1> QED BY <1>1, <1>2, <1>3 DEF StatusesKnown

-----------------------------------------------------------------------------
(* The invariant.                                                          *)

LEMMA StepKnown ==
    TypeOK /\ RestInv /\ StatusesKnown /\ [Next]_vars => StatusesKnown'
<1> SUFFICES ASSUME TypeOK, RestInv, StatusesKnown, [Next]_vars PROVE StatusesKnown'
  OBVIOUS
<1> USE DEF RestInv
<1>1. TypeOK'
  BY StepTyped
<1>2. CASE User
  <2>1. /\ UNCHANGED cache /\ UNCHANGED <<queued, missed>> /\ UNCHANGED control
        /\ \E e : configWatch' \in {configWatch, Append(configWatch, e)}
    BY <1>2 DEF User, CreateRoute, ChangeSpec, TouchRoute, DeleteRoute, EditCorefile, EditCustom,
       EditsRoute, Edit, WriteCorefile, WriteCustom
  <2>2. NothingMissed
    BY <2>1, WritesMissNothing
  <2> QED BY <1>1, <1>2, <2>1, <2>2, UserStands, StandsKnown
<1>3. CASE Watch
  <2>1. UNCHANGED control /\ UNCHANGED missed
    BY <1>3 DEF Watch, DeliverRoute, DeliverConfig, RelistRoutes, RelistConfig, history
  <2> QED BY <1>1, <1>3, <2>1, WatchMisses, WatchStands, StandsKnown
<1>4. CASE ListRoutes \/ ReadCorefile \/ ReadCustom \/ ReadFails
  BY <1>4, ReadsKnown
<1>5. CASE Publish \/ PatchFails
  BY <1>5, PublishKnown
<1>6. CASE \E n \in Names : UpdateStatus(n) \/ StatusFails(n)
  BY <1>6, UpdatesKnown
<1>7. CASE Finish
  BY <1>7, FinishKnown
<1>8. CASE LatePatch
  <2>1. /\ UNCHANGED cache /\ UNCHANGED <<routes, routeWatch, queued, missed>> /\ UNCHANGED control
        /\ \E e : configWatch' \in {configWatch, Append(configWatch, e)}
    BY <1>8 DEF LatePatch, ApplyPatch, WriteCustom
  <2>2. NothingMissed
    BY <2>1, WritesMissNothing
  <2>3. StatusesStand
    BY <2>1, SameShown DEF cache
  <2> QED BY <1>1, <2>1, <2>2, <2>3, StandsKnown
<1>9. CASE LateStatus
  <2>1. CASE missed'
    BY <2>1 DEF StatusesKnown
  <2>2. CASE ~missed'
    <3>1. /\ UNCHANGED cache /\ UNCHANGED <<routes, routeWatch, configWatch, queued, missed>>
          /\ UNCHANGED control
      BY <1>9, <2>2 DEF LateStatus
    <3>2. NothingMissed
      BY <3>1, WritesMissNothing
    <3>3. StatusesStand
      BY <3>1, SameShown DEF cache
    <3> QED BY <1>1, <3>1, <3>2, <3>3, StandsKnown
  <2> QED BY <2>1, <2>2
<1>10. CASE Restart
  BY <1>10 DEF Restart, StatusesKnown, NothingSeen
<1>11. CASE UNCHANGED vars
  <2>1. /\ UNCHANGED cache /\ UNCHANGED <<routes, routeWatch, configWatch, queued, missed>>
        /\ UNCHANGED control
    BY <1>11 DEF vars, cache, control
  <2>2. NothingMissed
    BY <2>1, WritesMissNothing
  <2>3. StatusesStand
    BY <2>1, SameShown DEF cache
  <2> QED BY <1>1, <2>1, <2>2, <2>3, StandsKnown
<1> QED BY <1>2, <1>3, <1>4, <1>5, <1>6, <1>7, <1>8, <1>9, <1>10, <1>11 DEF Next, Reconcile, Failure

LEMMA RestsReported == TypeOK /\ RestInv /\ StatusesKnown => StatusAtRestUnlessMissed
<1> SUFFICES ASSUME TypeOK, RestInv, StatusesKnown, ~missed, AtRest, SomethingExists
             PROVE  Readable(corefile, custom) /\ StatusesCurrent
  BY DEF StatusAtRestUnlessMissed, StatusAtRest
<1>1. /\ seenRoutes = routes /\ seenCorefile = corefile /\ seenCustom = custom
      /\ Readable(corefile, custom)
  BY RestsSettled DEF Settled
<1>2. Len(routeWatch) = 0 /\ Len(configWatch) = 0 /\ pc = "idle" /\ ~queued
  BY DEF AtRest, Idle
<1>3. ~NothingSeen /\ ~CustomPending
  BY <1>1, <1>2 DEF SomethingExists, NothingSeen, CustomPending
<1>4. StatusesWritten
  BY <1>2, <1>3 DEF StatusesKnown
<1>5. ASSUME NEW n \in Present(routes) PROVE StatusCurrentFor(n)
  <2>1. n \in Names /\ routes[n] # Absent
    BY DEF Present, TypeOK, ServerTypeOK
  <2>2. Shown(n)
    BY <1>1, <1>2, <2>1 DEF Shown, Lives, ValueAt
  <2>3. routes[n].status = StatusFor(n, routes, corefile, custom)
    BY <1>1, <1>4, <2>1, <2>2 DEF StatusesWritten
  <2> QED BY <2>3 DEF StatusFor, StatusCurrentFor, DesiredFor, DesiredOutcome
<1> QED BY <1>1, <1>5 DEF StatusesCurrent

\* Whenever the controller rests every status is the one an undisturbed run
\* would write now, as long as every event is delivered, the run that went
\* last had read every status written before it, and no update came late.
THEOREM RestsWithTheRightStatuses == Spec /\ WatchesKept => []StatusAtRestUnlessMissed
<1>1. Init => StatusesKnown
  BY DEF Init, StatusesKnown
<1> QED BY <1>1, InitTyped, InitUpToDate, StepTyped, StepUpToDate, StepKnown, RestsReported, PTL DEF Spec
=============================================================================
