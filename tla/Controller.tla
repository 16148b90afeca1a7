----------------------------- MODULE Controller -----------------------------
(***************************************************************************)
(* The zoneroute controller against a Kubernetes API server                *)
(* (internal/controller).                                                  *)
(*                                                                         *)
(* Users create, change and delete ZoneRoutes and edit CoreDNS's two       *)
(* ConfigMaps.  Each change reaches the controller's cache through a watch,*)
(* one watch per kind, and event filters decide whether it also wakes the  *)
(* controller.  All wake-ups share one work-queue key.  A run reads        *)
(* the cache in three separate reads, decides, patches the managed entry   *)
(* of coredns-custom and then writes the status of the routes one by one,  *)
(* each step against a server that has moved on in the meantime.           *)
(***************************************************************************)
EXTENDS Integers, Sequences, FiniteSets, ZoneClaims, Inspection, Fragment, Conditions

CONSTANTS
    Names,          \* route names, numbered in byte order
    Times,          \* creation timestamps; whole seconds, so they may coincide
    Specs,          \* route specs a user may apply: [zones, upstreams]
    Unrenderable,   \* specs whose block the renderer's own parse rejects
    CorefileTexts,  \* contents of the Corefile key a user may apply
    EntryTexts,     \* contents of the other *.server entries a user may apply
    ClusterDomain,  \* the reserved domain, canonical
    Absent,         \* the object does not exist
    NoKey,          \* the ConfigMap exists without the key
    Garbage,        \* a hand-written value of the managed key
    NoStatus,       \* the status of an object nobody has reported on
    NoRequest,      \* no request is on its way
    NamesReused,    \* may a deleted name be created again?
    Relists,        \* kinds whose watch may break and start over from a list
    MaxEdits,       \* bound on user changes
    MaxFaults       \* bound on failed calls and restarts

ASSUME NamesAssumption == Names \subseteq Nat /\ IsFiniteSet(Names)
ASSUME TimesAssumption == Times \subseteq Nat
ASSUME BoundsAssumption == MaxEdits \in Nat /\ MaxFaults \in Nat
ASSUME SwitchesAssumption ==
    /\ NamesReused \in BOOLEAN
    /\ Relists \subseteq {"ZoneRoute", "ConfigMap"}

\* The schema admits no spec that names one zone twice.
ASSUME SpecsAssumption ==
    /\ Specs \subseteq [zones : SUBSET Zone, upstreams : Seq(Upstream)]
    /\ Unrenderable \subseteq Specs
    /\ \A s \in Specs : \A y, z \in s.zones : Canonical(y) = Canonical(z) => y = z

ASSUME TextsAssumption == CorefileTexts \subseteq Text /\ EntryTexts \subseteq Text

\* What the start lets pass of --cluster-domain: a canonical name that is
\* neither empty nor the root.
ValidDomain(d) == d \in Zone /\ d.labels # <<>> /\ Canonical(d) = d

ASSUME DomainAssumption == ValidDomain(ClusterDomain)

VARIABLES
    routes,         \* the server's ZoneRoutes: name -> object or Absent
    revision,       \* name -> number of writes so far; the object's resourceVersion
    corefile,       \* ConfigMap coredns: Absent, NoKey or the text of its Corefile key
    custom,         \* ConfigMap coredns-custom: Absent or [entries, managed]
    routeWatch,     \* events on ZoneRoutes the controller has not received
    configWatch,    \* events on the two ConfigMaps the controller has not received
    seenRoutes,     \* the controller's cache
    seenCorefile,
    seenCustom,
    queued,         \* is the one work-queue key waiting?
    pc,             \* where the run stands
    run,            \* what the run has read and achieved
    left,           \* routes whose status the run has still to write
    inflight,       \* a request the controller gave up on and the server may yet apply
    edits, faults,  \* how often users acted, how often something failed
    wrote,          \* history: every block the managed key has ever held
    missed          \* history: is there a status write the latest run did not read?

history == <<wrote, missed>>
server  == <<routes, revision, corefile, custom>>
watches == <<routeWatch, configWatch>>
cache   == <<seenRoutes, seenCorefile, seenCustom>>
control == <<pc, run, left>>
vars    == <<routes, revision, corefile, custom, routeWatch, configWatch,
             seenRoutes, seenCorefile, seenCustom, queued, pc, run, left,
             inflight, edits, faults, wrote, missed>>

-----------------------------------------------------------------------------
(* What a run computes from what it has read.                              *)

Present(items) == {n \in DOMAIN items : items[n] # Absent}

ClaimOf(n, o) == [name |-> n, created |-> o.created, zones |-> o.spec.zones]

Claims(items) == {ClaimOf(n, items[n]) : n \in Present(items)}

EntriesOf(cm) == IF cm = Absent THEN EmptyText ELSE cm.entries

Inspected(core, cm) == Inspect(core, EntriesOf(cm))

Decision(n, items, core, cm) ==
    Decide(ClaimOf(n, items[n]), Claims(items),
           Served(Inspected(core, cm).listeners), ClusterDomain)

AcceptedNames(items, core, cm) ==
    LET served == Served(Inspected(core, cm).listeners)
    IN  {c.name : c \in Winners(Candidates(Claims(items), served, ClusterDomain))}

RenderRoute(n, o) ==
    [name |-> n, gen |-> o.gen, zones |-> o.spec.zones, upstreams |-> o.spec.upstreams]

FragmentFor(items, core, cm) ==
    Render({RenderRoute(n, items[n]) : n \in AcceptedNames(items, core, cm)})

RenderFails(items, core, cm) ==
    \E n \in AcceptedNames(items, core, cm) : items[n].spec \in Unrenderable

\* What a run has to say about route n before it has published.
Verdict(n, items, core, cm) ==
    LET d == Decision(n, items, core, cm)
        i == Inspected(core, cm)
    IN  [accepted |-> d.accepted, wired |-> i.wired,
         condition |-> AcceptedCondition(d, i.unresolved)]

StatusOf(gen, verdict, outcome) ==
    [observed  |-> gen,
     accepted  |-> verdict.condition,
     published |-> PublishedCondition(verdict.accepted, outcome, verdict.wired)]

\* Configuration the controller will act on: the Corefile is there and
\* every source parses.  Anything else makes a run fail before it writes.
Visible(core) == core \notin {Absent, NoKey}
Readable(core, cm) == Visible(core) /\ Inspectable(core) /\ Inspectable(EntriesOf(cm))

-----------------------------------------------------------------------------
(* Events and their filters.                                               *)

RouteEvent(n, o) == [name |-> n, object |-> o]
CorefileEvent(v) == [map |-> "coredns", value |-> v]
CustomEvent(v)   == [map |-> "coredns-custom", value |-> v]

\* Mistake: deletions do not count.
RouteEventPassesUnlessDeleted(old, new) ==
    new # Absent /\ (old = Absent \/ old.gen # new.gen)

\* GenerationChangedPredicate: an update counts when the generation moved.
RouteEventPasses(old, new) ==
    IF old = Absent \/ new = Absent THEN old # new ELSE old.gen # new.gen

\* coreDNSConfigMapPredicate: creation and deletion count, and an update
\* that touched what the controller reads, its own entry included.
CorefileEventPasses(old, new) == old # new

\* Mistake: the controller's own entry does not count.
NeighbourEntries(cm) == [entries |-> cm.entries]

ServerEntries(cm) == [entries |-> cm.entries, managed |-> cm.managed]

CustomEventPasses(old, new) ==
    IF old = Absent \/ new = Absent THEN old # new
    ELSE ServerEntries(old) # ServerEntries(new)

NoRun == [items    |-> [n \in Names |-> Absent],
          corefile |-> Absent,
          custom   |-> Absent,
          fragment |-> {},
          invalid  |-> FALSE,
          verdicts |-> [n \in Names |-> NoStatus],
          report   |-> [n \in Names |-> NoStatus],
          failed   |-> FALSE]

BlocksIn(cm) == IF cm = Absent \/ cm.managed \in {NoKey, Garbage} THEN {} ELSE cm.managed

NewObject(n, s, t) ==
    [gen |-> 1, rv |-> revision[n] + 1, created |-> t, spec |-> s, status |-> NoStatus]

\* The process has just started and its cache is in sync: every object of
\* the initial list is an Add event, so the key waits as soon as one exists.
Init ==
    /\ revision = [n \in Names |-> 1]
    /\ routes \in [Names -> {Absent} \cup
                     {[gen |-> 1, rv |-> 1, created |-> t, spec |-> s, status |-> NoStatus] :
                        t \in Times, s \in Specs}]
    /\ corefile \in CorefileTexts
    /\ custom \in {[entries |-> e, managed |-> NoKey] : e \in EntryTexts}
    /\ routeWatch = <<>> /\ configWatch = <<>>
    /\ seenRoutes = routes /\ seenCorefile = corefile /\ seenCustom = custom
    /\ queued = TRUE
    /\ pc = "idle" /\ run = NoRun /\ left = {}
    /\ inflight = NoRequest
    /\ edits = 0 /\ faults = 0
    /\ wrote = {} /\ missed = FALSE

-----------------------------------------------------------------------------
(* The server: a write to an object is announced on the watch of its kind. *)

WriteRoute(n, o) ==
    /\ routes' = [routes EXCEPT ![n] = o]
    /\ revision' = [revision EXCEPT ![n] = @ + 1]
    /\ routeWatch' = Append(routeWatch, RouteEvent(n, o))

WriteCorefile(v) ==
    /\ corefile' = v
    /\ configWatch' = Append(configWatch, CorefileEvent(v))

WriteCustom(cm) ==
    /\ custom' = cm
    /\ configWatch' = Append(configWatch, CustomEvent(cm))
    /\ wrote' = wrote \cup BlocksIn(cm)

\* Mistake: the ConfigMap is written back as the run read it.
WriteBackMap(fragment) == WriteCustom([run.custom EXCEPT !.managed = fragment])

\* A JSON merge patch of the managed key, without a resourceVersion: it
\* applies to whatever the ConfigMap holds now, and changes nothing (and
\* announces nothing) when the key has that value already.
ApplyPatch(fragment) ==
    IF custom.managed = fragment
    THEN UNCHANGED <<custom, configWatch, wrote>>
    ELSE WriteCustom([custom EXCEPT !.managed = fragment])

-----------------------------------------------------------------------------
(* Users.                                                                  *)

Edit ==
    /\ edits < MaxEdits
    /\ edits' = edits + 1
    /\ UNCHANGED <<cache, queued, control, inflight, faults, missed>>

EditsRoute == Edit /\ UNCHANGED <<corefile, custom, configWatch, wrote>>

CreateRoute(n, s, t) ==
    /\ routes[n] = Absent
    /\ NamesReused \/ revision[n] = 1
    /\ WriteRoute(n, NewObject(n, s, t))
    /\ EditsRoute

ChangeSpec(n, s) ==
    /\ routes[n] # Absent
    /\ routes[n].spec # s
    /\ WriteRoute(n, [routes[n] EXCEPT !.gen = @ + 1, !.rv = revision[n] + 1, !.spec = s])
    /\ EditsRoute

\* A label or an annotation: another resourceVersion, the same generation.
TouchRoute(n) ==
    /\ routes[n] # Absent
    /\ WriteRoute(n, [routes[n] EXCEPT !.rv = revision[n] + 1])
    /\ EditsRoute

DeleteRoute(n) ==
    /\ routes[n] # Absent
    /\ WriteRoute(n, Absent)
    /\ EditsRoute

EditCorefile(v) ==
    /\ v # corefile
    /\ WriteCorefile(v)
    /\ Edit
    /\ UNCHANGED <<routes, revision, custom, routeWatch, wrote>>

EditCustom(cm) ==
    /\ cm # custom
    /\ WriteCustom(cm)
    /\ Edit
    /\ UNCHANGED <<routes, revision, corefile, routeWatch>>

\* A user creates the ConfigMap empty of managed content, deletes it, edits
\* a neighbouring entry, or overwrites or removes the managed key.
CustomEdits ==
    IF custom = Absent
    THEN {[entries |-> e, managed |-> NoKey] : e \in EntryTexts}
    ELSE {Absent} \cup {[custom EXCEPT !.entries = e] : e \in EntryTexts}
                  \cup {[custom EXCEPT !.managed = m] : m \in {NoKey, Garbage}}

User ==
    \/ \E n \in Names : \/ \E s \in Specs, t \in Times : CreateRoute(n, s, t)
                        \/ \E s \in Specs : ChangeSpec(n, s)
                        \/ TouchRoute(n)
                        \/ DeleteRoute(n)
    \/ \E v \in CorefileTexts \cup {Absent, NoKey} : EditCorefile(v)
    \/ \E cm \in CustomEdits : EditCustom(cm)

-----------------------------------------------------------------------------
(* The watches: events arrive in order and pass the filter or not.         *)

DeliverRoute ==
    /\ routeWatch # <<>>
    /\ LET e == Head(routeWatch) IN
         /\ seenRoutes' = [seenRoutes EXCEPT ![e.name] = e.object]
         /\ queued' = (queued \/ RouteEventPasses(seenRoutes[e.name], e.object))
    /\ routeWatch' = Tail(routeWatch)
    /\ UNCHANGED <<server, configWatch, seenCorefile, seenCustom, control,
                   inflight, edits, faults, history>>

DeliverConfig ==
    /\ configWatch # <<>>
    /\ LET e == Head(configWatch) IN
         \/ /\ e.map = "coredns"
            /\ seenCorefile' = e.value
            /\ queued' = (queued \/ CorefileEventPasses(seenCorefile, e.value))
            /\ UNCHANGED seenCustom
         \/ /\ e.map = "coredns-custom"
            /\ seenCustom' = e.value
            /\ queued' = (queued \/ CustomEventPasses(seenCustom, e.value))
            /\ UNCHANGED seenCorefile
    /\ configWatch' = Tail(configWatch)
    /\ UNCHANGED <<server, routeWatch, seenRoutes, control, inflight, edits, faults, history>>

\* A watch that broke and cannot be resumed starts over from a list.  What
\* it missed is replaced by the difference between the cache and the list,
\* one Add, Update or Delete per object, through the same filters.
RelistRoutes ==
    /\ "ZoneRoute" \in Relists
    /\ routeWatch # <<>>
    /\ seenRoutes' = routes
    /\ queued' = (queued \/ \E n \in Names : RouteEventPasses(seenRoutes[n], routes[n]))
    /\ routeWatch' = <<>>
    /\ UNCHANGED <<server, configWatch, seenCorefile, seenCustom, control,
                   inflight, edits, faults, history>>

RelistConfig ==
    /\ "ConfigMap" \in Relists
    /\ configWatch # <<>>
    /\ seenCorefile' = corefile
    /\ seenCustom' = custom
    /\ queued' = (queued \/ CorefileEventPasses(seenCorefile, corefile)
                         \/ CustomEventPasses(seenCustom, custom))
    /\ configWatch' = <<>>
    /\ UNCHANGED <<server, routeWatch, seenRoutes, control, inflight, edits, faults, history>>

Watch == DeliverRoute \/ DeliverConfig \/ RelistRoutes \/ RelistConfig

-----------------------------------------------------------------------------
(* One run.  A failed run leaves the key waiting (the queue's back-off is  *)
(* not modelled); a key that was queued during the run waits either way.   *)

Fault == faults < MaxFaults /\ faults' = faults + 1

\* Mistake: the error is logged and swallowed.
FailQuietly ==
    /\ pc' = "idle" /\ run' = NoRun /\ left' = {}
    /\ UNCHANGED queued

Fail ==
    /\ pc' = "idle" /\ run' = NoRun /\ left' = {}
    /\ queued' = TRUE

\* Nothing makes a run wait for its predecessors' status writes to come back on
\* the watch: what the cache shows may be older than what was written.
StatusesSeen ==
    \A n \in Present(routes) \cap Present(seenRoutes) :
        seenRoutes[n].status = routes[n].status

ListRoutes ==
    /\ pc = "idle" /\ queued
    /\ queued' = FALSE
    /\ run' = [run EXCEPT !.items = seenRoutes]
    /\ pc' = "corefile"
    /\ missed' = ~StatusesSeen
    /\ UNCHANGED <<server, watches, cache, left, inflight, edits, faults, wrote>>

ReadCorefile ==
    /\ pc = "corefile"
    /\ \/ /\ Visible(seenCorefile)
          /\ run' = [run EXCEPT !.corefile = seenCorefile]
          /\ pc' = "custom"
          /\ UNCHANGED <<queued, left>>
       \/ ~Visible(seenCorefile) /\ Fail
    /\ UNCHANGED <<server, watches, cache, inflight, edits, faults, history>>

\* With everything read the run decides and renders.
ReadCustom ==
    /\ pc = "custom"
    /\ \/ /\ Readable(run.corefile, seenCustom)
          /\ run' = [run EXCEPT
                !.custom   = seenCustom,
                !.verdicts = [n \in Names |->
                                IF run.items[n] = Absent THEN NoStatus
                                ELSE Verdict(n, run.items, run.corefile, seenCustom)],
                !.fragment = FragmentFor(run.items, run.corefile, seenCustom),
                !.invalid  = RenderFails(run.items, run.corefile, seenCustom)]
          /\ pc' = "publish"
          /\ UNCHANGED <<queued, left>>
       \/ ~Readable(run.corefile, seenCustom) /\ Fail
    /\ UNCHANGED <<server, watches, cache, inflight, edits, faults, history>>

\* A read fails for another reason than a missing object.
ReadFails ==
    /\ pc \in {"corefile", "custom"} \/ (pc = "idle" /\ queued)
    /\ Fault /\ Fail
    /\ UNCHANGED <<server, watches, cache, inflight, edits, history>>

\* The outcomes publish reaches without a call.
NoCallOutcome ==
    IF run.custom = Absent THEN "IntegrationConfigMissing"
    ELSE IF run.invalid THEN "FragmentInvalid"
    ELSE "InPlace"

MustPatch == NoCallOutcome = "InPlace" /\ run.custom.managed # run.fragment

\* Mistake: every outcome but success fails the run.
PublishedOrFailed(outcome) ==
    /\ run' = [NoRun EXCEPT
                 !.items  = run.items,
                 !.report = [n \in Names |->
                               IF run.items[n] = Absent THEN NoStatus
                               ELSE StatusOf(run.items[n].gen, run.verdicts[n], outcome)],
                 !.failed = (outcome # "InPlace")]
    /\ left' = Present(run.items)
    /\ pc' = "status"

\* What remains of the run is what it listed and the statuses to report.
Published(outcome) ==
    /\ run' = [NoRun EXCEPT
                 !.items  = run.items,
                 !.report = [n \in Names |->
                               IF run.items[n] = Absent THEN NoStatus
                               ELSE StatusOf(run.items[n].gen, run.verdicts[n], outcome)],
                 !.failed = (outcome = "WriteFailed")]
    /\ left' = Present(run.items)
    /\ pc' = "status"

Publish ==
    /\ pc = "publish"
    /\ \/ ~MustPatch /\ Published(NoCallOutcome) /\ UNCHANGED <<custom, configWatch, wrote>>
       \/ MustPatch /\ custom # Absent /\ Published("InPlace") /\ ApplyPatch(run.fragment)
       \/ MustPatch /\ custom = Absent /\ Published("WriteFailed")
            /\ UNCHANGED <<custom, configWatch, wrote>>
    /\ UNCHANGED <<routes, revision, corefile, routeWatch, cache, queued,
                   inflight, edits, faults, missed>>

\* Mistake: the error of the patch call is dropped.
PatchErrorDropped ==
    /\ pc = "publish" /\ MustPatch
    /\ Fault /\ Published("InPlace")
    /\ UNCHANGED <<server, watches, inflight, history, cache, queued, edits>>

\* Mistake: a patch that failed is tried again at once, as it was rendered.
PatchRetried ==
    /\ pc = "publish" /\ MustPatch
    /\ Fault
    /\ custom # Absent /\ ApplyPatch(run.fragment)
    /\ UNCHANGED <<routes, revision, corefile, routeWatch, cache, control, queued,
                   inflight, edits, missed>>

PatchRequest == [kind |-> "patch", fragment |-> run.fragment]

\* The caller gives up on a request that the server has yet to receive.
GoesAstray(request) == inflight = NoRequest /\ inflight' = request

\* The patch call returns an error.  The server refused it, or applied it
\* and the answer was lost, or has yet to apply it.
PatchFails ==
    /\ pc = "publish" /\ MustPatch
    /\ Fault /\ Published("WriteFailed")
    /\ \/ UNCHANGED <<custom, configWatch, wrote, inflight>>
       \/ custom # Absent /\ ApplyPatch(run.fragment) /\ UNCHANGED inflight
       \/ GoesAstray(PatchRequest) /\ UNCHANGED <<custom, configWatch, wrote>>
    /\ UNCHANGED <<routes, revision, corefile, routeWatch, cache, queued, edits, missed>>

Late(kind) == inflight # NoRequest /\ inflight.kind = kind /\ inflight' = NoRequest

\* The server applies a patch whose caller is no longer waiting.
LatePatch ==
    /\ Late("patch")
    /\ IF custom = Absent THEN UNCHANGED <<custom, configWatch, wrote>>
                          ELSE ApplyPatch(inflight.fragment)
    /\ UNCHANGED <<routes, revision, corefile, routeWatch, cache, queued,
                   control, edits, faults, missed>>

\* Statuses are written in the order of the names.
Due(n) == pc = "status" /\ n \in left /\ \A m \in left : n <= m

\* Nothing is sent when the listed object already says the same.
StatusUnchanged(n) == run.items[n].status = run.report[n]

\* The update carries the resourceVersion the run listed.
UpdateOf(n) ==
    [kind |-> "status", name |-> n, rv |-> run.items[n].rv, status |-> run.report[n]]

\* Mistake: the update is sent without a precondition.
StillThere(u) == routes[u.name] # Absent

StillListed(u) == routes[u.name] # Absent /\ routes[u.name].rv = u.rv

WriteStatus(u) ==
    WriteRoute(u.name, [routes[u.name] EXCEPT !.rv = revision[u.name] + 1, !.status = u.status])

\* Mistake: the run succeeds although a status update did not.
StatusTried(n, failed) ==
    /\ left' = left \ {n}
    /\ UNCHANGED <<run, pc>>

StatusDone(n, failed) ==
    /\ left' = left \ {n}
    /\ run' = [run EXCEPT !.failed = @ \/ failed]
    /\ UNCHANGED pc

UpdateStatus(n) ==
    /\ Due(n)
    /\ \/ StatusUnchanged(n) /\ StatusDone(n, FALSE)
            /\ UNCHANGED <<routes, revision, routeWatch>>
       \/ ~StatusUnchanged(n) /\ StillListed(UpdateOf(n)) /\ WriteStatus(UpdateOf(n))
            /\ StatusDone(n, FALSE)
       \/ ~StatusUnchanged(n) /\ ~StillListed(UpdateOf(n)) /\ StatusDone(n, TRUE)
            /\ UNCHANGED <<routes, revision, routeWatch>>
    /\ UNCHANGED <<corefile, custom, configWatch, cache, queued, inflight, edits, faults, history>>

\* The call returns an error; the update took effect, or not, or not yet.
StatusFails(n) ==
    /\ Due(n) /\ ~StatusUnchanged(n)
    /\ Fault /\ StatusDone(n, TRUE)
    /\ \/ UNCHANGED <<routes, revision, routeWatch, inflight>>
       \/ StillListed(UpdateOf(n)) /\ WriteStatus(UpdateOf(n)) /\ UNCHANGED inflight
       \/ GoesAstray(UpdateOf(n)) /\ UNCHANGED <<routes, revision, routeWatch>>
    /\ UNCHANGED <<corefile, custom, configWatch, cache, queued, edits, history>>

\* A status update whose caller is no longer waiting arrives; it is applied
\* if the object has not been written since the run listed it.
LateStatus ==
    /\ Late("status")
    /\ \/ StillListed(inflight) /\ WriteStatus(inflight) /\ missed' = TRUE
       \/ ~StillListed(inflight) /\ UNCHANGED <<routes, revision, routeWatch, missed>>
    /\ UNCHANGED <<corefile, custom, configWatch, cache, queued, control, edits, faults, wrote>>

\* Mistake: what arrived during the run is forgotten with it.
FinishAndForget ==
    /\ pc = "status" /\ left = {}
    /\ pc' = "idle" /\ run' = NoRun
    /\ queued' = run.failed
    /\ UNCHANGED <<server, watches, cache, left, inflight, edits, faults, history>>

Finish ==
    /\ pc = "status" /\ left = {}
    /\ pc' = "idle" /\ run' = NoRun
    /\ queued' = (queued \/ run.failed)
    /\ UNCHANGED <<server, watches, cache, left, inflight, edits, faults, history>>

\* The call the run makes next, if it makes one.
NextRequest ==
    IF pc = "publish" /\ MustPatch THEN {PatchRequest}
    ELSE {UpdateOf(n) : n \in {m \in left : Due(m) /\ ~StatusUnchanged(m)}}

\* The process dies and comes back with a cache listed afresh.  The request it
\* was about to send may already be on its way.
Restart ==
    /\ Fault
    /\ pc' = "idle" /\ run' = NoRun /\ left' = {}
    /\ seenRoutes' = routes /\ seenCorefile' = corefile /\ seenCustom' = custom
    /\ routeWatch' = <<>> /\ configWatch' = <<>>
    /\ queued' = (Present(routes) # {} \/ corefile # Absent \/ custom # Absent)
    /\ UNCHANGED inflight \/ \E r \in NextRequest : GoesAstray(r)
    /\ UNCHANGED <<server, edits, history>>

Reconcile ==
    \/ ListRoutes \/ ReadCorefile \/ ReadCustom \/ Publish
    \/ \E n \in Names : UpdateStatus(n)
    \/ Finish

Failure ==
    \/ ReadFails \/ PatchFails \/ LatePatch \/ LateStatus \/ Restart
    \/ \E n \in Names : StatusFails(n)

Next == User \/ Watch \/ Reconcile \/ Failure

Spec == Init /\ [][Next]_vars

\* The watches deliver, a waiting key is picked up and a run that began comes
\* to an end: each of its steps is enabled until it is taken.  Nobody has to
\* edit, nothing has to fail, and a request that went astray need not arrive.
EveryRunEnds == []<>(pc = "idle")

FairSpec ==
    /\ Spec
    /\ WF_vars(DeliverRoute) /\ WF_vars(DeliverConfig) /\ WF_vars(ListRoutes)
    /\ EveryRunEnds
=============================================================================
