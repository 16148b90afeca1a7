------------------------ MODULE ControllerProperties ------------------------
(***************************************************************************)
(* What the controller promises, mostly over the server's state: what a    *)
(* user sees in the managed entry and in the statuses.                     *)
(***************************************************************************)
EXTENDS Controller

Item == Zone \cup [zone : Zone, source : Nat] \cup [zone : Zone, winner : Nat]
             \cup [source : Nat, pattern : STRING]

Status ==
    [observed  : Nat,
     accepted  : [reason : AcceptedReasons, items : SUBSET Item],
     published : PublishedReasons]

RunVerdict ==
    [accepted  : BOOLEAN,
     wired     : BOOLEAN,
     condition : [reason : AcceptedReasons, items : SUBSET Item]]

Object == [gen : Nat, rv : Nat, created : Times, spec : Specs, status : {NoStatus} \cup Status]

MaybeObject == {Absent} \cup Object
MaybeCorefile == {Absent, NoKey} \cup CorefileTexts
CustomMap == [entries : EntryTexts, managed : {NoKey, Garbage} \cup SUBSET Blocks(Names)]
MaybeCustom == {Absent} \cup CustomMap

ASSUME AbsentAssumption == Absent \notin CustomMap /\ Absent \notin Object

RunState ==
    [items : [Names -> MaybeObject], corefile : MaybeCorefile, custom : MaybeCustom,
     fragment : SUBSET Blocks(Names), invalid : BOOLEAN,
     verdicts : [Names -> {NoStatus} \cup RunVerdict],
     report : [Names -> {NoStatus} \cup Status], failed : BOOLEAN]

RouteEvents == [name : Names, object : MaybeObject]
ConfigEvents == [map : {"coredns"}, value : MaybeCorefile]
                \cup [map : {"coredns-custom"}, value : MaybeCustom]

Requests ==
    [kind : {"patch"}, fragment : SUBSET Blocks(Names)]
    \cup [kind : {"status"}, name : Names, rv : Nat, status : {NoStatus} \cup Status]

ServerTypeOK ==
    /\ routes \in [Names -> MaybeObject]
    /\ revision \in [Names -> Nat]
    /\ corefile \in MaybeCorefile
    /\ custom \in MaybeCustom
    /\ wrote \subseteq Blocks(Names)

WatchTypeOK == routeWatch \in Seq(RouteEvents) /\ configWatch \in Seq(ConfigEvents)

CacheTypeOK ==
    /\ seenRoutes \in [Names -> MaybeObject]
    /\ seenCorefile \in MaybeCorefile
    /\ seenCustom \in MaybeCustom

RunTypeOK ==
    /\ queued \in BOOLEAN
    /\ pc \in {"idle", "corefile", "custom", "publish", "status"}
    /\ run \in RunState
    /\ pc \in {"custom", "publish"} => run.corefile \in CorefileTexts
    /\ pc = "publish" => \A n \in Present(run.items) : run.verdicts[n] \in RunVerdict
    /\ left \subseteq Present(run.items)
    /\ pc # "status" => left = {}

BoundsTypeOK ==
    /\ inflight \in {NoRequest} \cup Requests
    /\ missed \in BOOLEAN
    /\ edits \in 0 .. MaxEdits
    /\ faults \in 0 .. MaxFaults

\* Every variable has its type; a run past its reads has a Corefile to work
\* on and a verdict on every route, and writes statuses only of routes it has
\* listed.
TypeOK == ServerTypeOK /\ WatchTypeOK /\ CacheTypeOK /\ RunTypeOK /\ BoundsTypeOK

-----------------------------------------------------------------------------
(* Safety.                                                                 *)

\* No zone is served twice and none is reserved.
Sound(fragment) ==
    /\ \A b \in fragment : \A k \in b.keys : ~InDomain(Canonical(k), ClusterDomain)
    /\ \A b, c \in fragment : b # c => b.keys \cap c.keys = {}

\* Fragments on their way in a patch nobody waits for any more.
Delayed == IF inflight # NoRequest /\ inflight.kind = "patch" THEN {inflight.fragment} ELSE {}

\* The managed entry never gives one zone to two routes and never touches
\* the cluster domain, whatever patches of older runs arrive late: CoreDNS
\* would refuse the first and the cluster would lose its names by the second.
FragmentSound == Sound(BlocksIn(custom)) /\ \A f \in Delayed : Sound(f)

\* A status whose observedGeneration is the object's generation talks about
\* that very spec, also for an object deleted and created again under the
\* same name and generation: it calls the route reserved exactly when it is,
\* and the zones it names are the route's own.
TellsOf(claim, condition) ==
    /\ (condition.reason = "ReservedZone") <=> (ReservedOf(claim, ClusterDomain) # {})
    /\ condition.reason = "ReservedZone" => condition.items = ReservedOf(claim, ClusterDomain)
    /\ condition.reason \in {"ZoneOwnedByCoreDNS", "ZoneConflict"} =>
          /\ condition.items # {}
          /\ \A i \in condition.items : i.zone \in CanonicalZones(claim)

StatusDescribesSpec ==
    \A n \in Present(routes) :
        LET o == routes[n] IN
        o.status # NoStatus =>
            /\ o.status.observed <= o.gen
            /\ o.status.observed = o.gen => TellsOf(ClaimOf(n, o), o.status.accepted)

\* Published=True for the current generation means that this very block, its
\* zones and its resolvers, has been in the managed entry.
PublishedWasWritten ==
    \A n \in Present(routes) :
        LET o == routes[n] IN
        o.status # NoStatus /\ o.status.observed = o.gen /\ o.status.published = "Published"
            => Block(RenderRoute(n, o)) \in wrote

Idle == pc = "idle" /\ ~queued

\* Nothing is left to deliver and nothing left to do.
AtRest == Idle /\ routeWatch = <<>> /\ configWatch = <<>>

SomethingExists == Present(routes) # {} \/ corefile # Absent \/ custom # Absent

DesiredOutcome ==
    IF custom = Absent THEN "IntegrationConfigMissing"
    ELSE IF RenderFails(routes, corefile, custom) THEN "FragmentInvalid"
    ELSE "InPlace"

\* The managed entry is what the server's state calls for, wherever publish gets
\* as far as comparing the two: without the ConfigMap, or with a fragment the
\* renderer's own check refuses, it returns before it looks at the entry.
FragmentCurrent ==
    DesiredOutcome = "InPlace" => custom.managed = FragmentFor(routes, corefile, custom)

StatusCurrentFor(n) ==
    routes[n].status =
        StatusOf(routes[n].gen, Verdict(n, routes, corefile, custom), DesiredOutcome)

StatusesCurrent == \A n \in Present(routes) : StatusCurrentFor(n)

\* The controller never rests with configuration it cannot read.  When it rests,
\* no wake-up was lost, no filtered event mattered and no late patch or hand edit
\* survives in a fragment it can replace: the managed entry is what the server's
\* own state calls for, unless the ConfigMap is missing or the renderer refuses
\* the accepted routes.  Then it writes nothing (reconciler.go:167-172), and what
\* is in the key, a hand edit included, stays.
FragmentAtRest == AtRest /\ SomethingExists => Readable(corefile, custom) /\ FragmentCurrent

\* Any hand edit of the managed key is overwritten, as the section on
\* FragmentInvalid puts it (docs/troubleshooting.md:385-387): at rest none is left.
HandEditsOverwritten ==
    AtRest /\ Readable(corefile, custom) => custom = Absent \/ custom.managed # Garbage

\* At rest only accepted routes of the server appear in the managed entry
\* (docs/install.md:342-343).
OnlyAcceptedRoutesAppear ==
    AtRest /\ Readable(corefile, custom) =>
        BlocksIn(custom) \subseteq FragmentFor(routes, corefile, custom)

\* At rest every status is the one a single undisturbed run would write now:
\* nothing is left over from runs that failed or were overtaken.
StatusAtRest == AtRest /\ SomethingExists => Readable(corefile, custom) /\ StatusesCurrent

\* It is so if the run that went last had read every status written before it
\* and no update arrived late: that read is the only thing that can go wrong.
StatusAtRestUnlessMissed == missed \/ StatusAtRest

-----------------------------------------------------------------------------
(* Actions.                                                                *)

\* Only users change specs, the Corefile and the neighbouring entries, and
\* only users create and delete objects: a patch or a status update sent on
\* the strength of an old read never brings back what the read saw.
SpecsOf(rs) == [n \in Present(rs) |-> <<rs[n].gen, rs[n].created, rs[n].spec>>]

UserContent == <<SpecsOf(routes), corefile, custom = Absent, EntriesOf(custom)>>

ControllerKeepsToItsOwn == [][edits' = edits => UserContent' = UserContent]_vars

\* The controller publishes as promised: what a run renders is written once or
\* not at all, by the run itself or late, and the entry never holds anything
\* but a sound fragment of one run or what users put there.
Entry == IF custom = Absent THEN Absent ELSE custom.managed

InHand == IF pc = "publish" THEN {run.fragment} ELSE {}

Drafts == [s \in {"run", "late"} |-> IF s = "run" THEN InHand ELSE Delayed]

Publishing ==
    INSTANCE Publisher WITH
        Runs <- {"run"}, Astray <- {"late"}, Fine <- Sound, Foreign <- {Absent, NoKey, Garbage},
        entry <- Entry, draft <- Drafts

PublishesAsPromised == Publishing!Spec

-----------------------------------------------------------------------------
(* Liveness.                                                               *)

\* When users stop, and the CoreDNS configuration they leave can be read, the
\* controller brings the managed entry up to date and then falls silent: its
\* own patches and status updates do not keep it busy.  That the statuses are
\* right from then on, StatusAtRestUnlessMissed adds.
FragmentSettles == <>[](Readable(corefile, custom) => AtRest /\ FragmentCurrent)
=============================================================================
