# Verification of zoneroute

TLA+ models of the zoneroute controller, checked with TLC on small instances
and, for the properties that matter most, proved with TLAPS for every value of
the constants.

zoneroute forwards DNS zones to resolvers. A `ZoneRoute` names zones and
upstreams; the controller decides which routes are accepted, renders the
accepted ones as CoreDNS server blocks into one key of the ConfigMap
`kube-system/coredns-custom`, and reports on every route in its status.

## Inventory

| part | state it keeps | operations |
| --- | --- | --- |
| `internal/dnsname` | none | `Canonical` |
| `internal/conflict` | none; `served`, `candidates`, `owner`, `decisions` during a call | `Resolve` |
| `internal/corefile` | none | `Inspect` (imports, snippets, keys, errors) |
| `internal/render` | none | `Render` and its own parse of the result |
| `internal/controller` | none between runs: a run has the lists it read, its decisions, its fragment and what publishing achieved | event filters, `Reconcile`, `publish`, `updateStatus`, the `ClusterDomain` gate |
| `cmd/zoneroute-controller` | the manager: cache, work queue, lease | start, shutdown |
| API server (external) | ZoneRoutes with generation, resourceVersion and status; ConfigMaps `coredns` and `coredns-custom` | writes by users and by the controller, watches, lists |
| `hack/wire-coredns.sh` | none; the Corefile it has read | three steps that read and then patch, test tuning, a wait |
| `api/v1alpha1`, `config/`, `install.yaml` | none | schema and its CEL rules, permissions |
| other `hack/` scripts, `test/e2e`, `website/` | none | tooling and pages |

How they interact: the API server announces every write on a watch per kind.
The controller's cache applies the events in order, and the filters
(`GenerationChangedPredicate` for ZoneRoutes, `coreDNSConfigMapPredicate` for
ConfigMaps) decide whether an event also wakes the controller. Every wake-up is
the same work-queue key, so at most one run is going and one waits. A run reads
the cache three times (list of routes, `coredns`, `coredns-custom`), calls the
pure packages, patches the managed key when its bytes differ from what it read,
and updates the statuses that differ from what it listed. The patch and each
status update go to a server that has moved on since.

What is hard about it:

* the three reads and the writes interleave with users, with the watches, and
  with the echoes of the controller's own writes;
* the patch has no precondition, the status update has one (resourceVersion);
* calls fail before or after taking effect, or take effect after the caller
  gave up; the process restarts at any point;
* losing the lease stops nothing by itself: two processes may write for a while;
* whether work gets done hangs on filters that drop events: one wake-up lost at
  the wrong moment is lost for good, one too many never stops;
* a broken watch starts over from a list and merges events;
* first-come-first-served over timestamps of whole seconds, with several
  spellings of one zone, for any order of the input.

What makes each part correct:

* conflict: one outcome for every input, no zone with two owners, rejected
  routes own nothing, younger routes never affect older ones, exactly one
  reason per route;
* corefile: the controller never acts on configuration it cannot read, every
  visible listener counts, an import it cannot resolve is reported;
* render: the same routes give the same bytes, every block has its route's zones
  and destinations;
* controller, safety: the managed entry is always sound; nothing but the managed
  key and the statuses is written; `Published=True` was true; a status describes
  the spec whose generation it names;
* controller, convergence: whenever it rests, the entry and the statuses are
  what the server's state calls for (the entry unless `coredns-custom` is missing
  or the renderer refuses, when nothing is written); and it comes to rest.

## Modules

| module | models |
| --- | --- |
| `ZoneNames` | names (`dnsname.Canonical`), the dotless form of the renderer, containment in the cluster domain |
| `ZoneClaims` | `conflict.Resolve` by what it computes: served listeners, reserved and owned zones, the stable set of winners, decisions |
| `ClaimsDecided` | the abstract promise of `Resolve`: decisions are made one by one, each final |
| `ConflictLoop` | `Resolve` as its two loops run |
| `Inspection` | `corefile.Inspect` on whole sources |
| `InspectionScan` | `corefile.Inspect` as it runs: source by source, line by line, with brace depth, snippets and imports; what CoreDNS would load from the same text |
| `Fragment` | `render.Render` |
| `Conditions` | `status.go` |
| `Controller` | the server, users, watches, filters, work queue, runs, failures |
| `ControllerProperties` | types, invariants, action and liveness properties of `Controller` |
| `Publisher` | the abstract promise of publishing: a fragment is composed once and reaches the entry once at most |
| `Leadership` | two processes of the controller at a hand-over of the lease, over `Controller` |
| `WireScript` | `hack/wire-coredns.sh`, call by call, with users and other scripts, and its promises |
| `MCConflictLoop`, `MCController`, `MCLeadership`, `MCInspectionScan`, `MCWireScript` | values for TLC |
| `NumberFacts` | least numbers and counting, for the proofs |
| `ZoneClaimsProofs`, `ConflictLoopProofs` | theorems on conflict resolution and its loops |
| `ControllerProofs` | theorems on `Controller`: types, soundness, what is whose, `Publisher` |
| `StatusProofs` | theorems on `Controller`: statuses are true, and what holds at rest |
| `LeadershipProofs` | theorems on two processes at work |
| `InspectionScanProofs`, `WireScriptProofs` | theorems on the scanner and the script |

`Controller` extends `ZoneClaims`, `Inspection`, `Fragment` and `Conditions`;
a run evaluates them in the step in which the code calls the pure packages.
`InspectionScan` and `WireScript` extend `Inspection`: the scanner is checked
against what it says of whole sources, and what the script leaves behind is
judged by what the controller's `Inspect` takes for the wiring. `Controller`
implements `Publisher` under the mapping in `ControllerProperties` (the entry is
the managed key; the slots are the fragment a run has rendered and the one in a
patch that went astray). `Leadership` takes a second copy of `Controller`'s
actions for the process that lost the lease (`Old`, with a `pc`, `run` and `left`
of its own and the server shared), and maps to `Publisher` with a third slot.

### State and actions of Controller

| model | code |
| --- | --- |
| `routes`, `revision` | ZoneRoutes on the server: generation, resourceVersion, creationTimestamp, spec, status |
| `corefile`, `custom` | the two ConfigMaps; `custom.managed` is `data["zoneroute.server"]`, `custom.entries` the other `*.server` entries taken together |
| `routeWatch`, `configWatch` | events written and not yet received, one queue per informer |
| `seenRoutes`, `seenCorefile`, `seenCustom` | the informer caches every read of a run is served from |
| `queued` | whether the single key `globalRequest` is in the work queue |
| `pc`, `run`, `left` | the position and the local variables of `Reconcile` |
| `inflight` | a request (a patch or a status update) the server may apply after its caller gave up |
| `wrote` | history: every block the managed key has held |
| `missed` | history: is there a status write that the run that went last did not read? |

| action | code |
| --- | --- |
| `CreateRoute`, `ChangeSpec`, `TouchRoute`, `DeleteRoute`, `EditCorefile`, `EditCustom` | users; `TouchRoute` is a label or an annotation (new resourceVersion, same generation); includes overwriting and removing the managed key and deleting the ConfigMap |
| `DeliverRoute`, `DeliverConfig` | an event reaches the cache and passes the filter or not |
| `RelistRoutes`, `RelistConfig` | a broken watch starts over from a list |
| `ListRoutes` | the key is taken from the queue, `List` and sort |
| `ReadCorefile` | `Get coredns`, the missing key, the early returns |
| `ReadCustom` | `Get coredns-custom`, `Inspect`, `Resolve`, `Render`: no other actor can step in between the last read and the computation |
| `Publish`, `PatchFails` | `publish` with its early returns; the call succeeds, is refused, takes effect and reports an error, or is still on its way |
| `UpdateStatus`, `StatusFails` | `updateStatus` for the next route in name order; the call fails in the same three ways |
| `Finish` | return; an error puts the key back |
| `LatePatch`, `LateStatus` | a request whose caller gave up arrives; the status update is still bound to the resourceVersion it carries |
| `Restart`, `ReadFails` | the process dies, its next request perhaps already on its way; a read fails |

Abstractions: a fragment is the set of its blocks (the blocks are sorted by
name and the keys in a block are sorted, so the set determines the bytes); a
condition's message is the set of items it lists (of an unresolved import the
source and the pattern, not the line `status.go:51` adds); `WriteFailed` carries no error
text, so two different errors count as the same status; the parser's verdict on
a text is a field of the text; back-off is left out, a failed run leaves the key
waiting; taking an event into the cache and queueing the key is one step. A
status and an object without one differ in `NoStatus`. The first list of a
starting process is already in the cache.

### State and actions of WireScript

`custom`, `corefile` (a sequence of lines, of kinds) and `deployment` are the
cluster, found as `Corefiles` and `Deployments` allow; `pc` and `text` say where each running script is and which Corefile it
has read; `starts` and `edits` count. Every kubectl call is an action:
`GetCustom`, `CreateCustom`, `GetCorefile` with its grep, `AddImport`,
`GetMount`, `AddMount`, and for an administrator in `Tuning` also `GetReload`, `TuneReload`,
`Scale`; `Rollout` is the wait at the end. `Abort` is `set -e` and an
interruption, `Start` another run. The first and the third test stand in an
`if`, where a failing call counts as "absent" instead of ending the script.
`PoliteUsers` makes users wait while a script is between a read and its patch:
**nothing enforces that**, and `wire_lost_edit` turns it off. A final newline is
layout. The ConfigMap `coredns` and the Deployment exist throughout.

### State and actions of Leadership

`oldPc`, `oldRun` and `oldLeft` are what is left of the run of the process that
held the lease before. `HandOver` moves the holder's run there and starts a new
holder: a standby, whose informers have been running and whose cache lags as far as
the old holder's (`StandbyLeads`; how far a standby lags is independent of the
holder, the model takes them to lag alike), or a process that has just listed
(`Restart`); `GoesOn` lets the old process publish or write
the next status as if nothing had happened, `Exits` ends it (`mgr.Start` returns
and `main` exits). A process that loses its lease among its reads goes on to
publish too, but what it has read by then is what it might have read before, so
only a run with its reads behind it is handed over. There is no clock: the old
process may take as long as it likes, which is more than lease durations allow.
Calls of the old process succeed; its lost and late calls are `Restart`'s and
`LatePatch`'s.

### State and actions of InspectionScan

`source`, `at`, `depth`, `imports` and `snippets` are the locals of `inspect` and
`scanImports`; `found`, `unresolved` and `wired` the `Result`; `todo` the keys not
yet reached. A text is a sequence of lines of four kinds: open a block, open a
snippet, close, import. `OpenBlock`, `CloseBlock`, `OpenSnippet` and `NoteImport`
are the cases of `scanImports`' loop, `Refuse` its error returns, `Take` the rest
of `inspect` and the step to the next key. The parser (a library) is given by
what its caller relies on: it refuses unbalanced braces and snippets defined
twice, and returns the keys of top-level blocks. `Read` is what the same parser
makes of the text inside CoreDNS, where imports are not blanked: a top-level
import of a snippet defined before it stands for the snippet's lines, and so on
along the imports found there (`Followed` closes a set of lines under that, `Read`
is the least closed one). `InputsAssumption` leaves out texts that close more than
they open (`Bracketed`).

### Switches

`Relists` says which watches may break in a way that needs a new list. With
the empty set every write is delivered as an event of its own.

`NamesReused` restricts users: without it a deleted name is not created again.

## Runs

| run | question | expectation |
| --- | --- | --- |
| `resolve` | do the loops of `Resolve` compute the stable outcome, whatever the order? | holds |
| `faults` | two overlapping routes, one change, one fault, watches restarting: entry sound, success real, `Publisher` implemented? | holds |
| `hand_over` | the lease changes hands during a run, to a standby or a fresh process, specs change, names are reused: statuses about the right spec, entry right in the end, `Publisher` implemented? | holds |
| `settles` | configurations and contested routes come and go, a call fails, the ZoneRoute watch restarts: does the controller come to rest with the right entry, with the right statuses unless a run read too early, and is nothing foreign written? | holds |
| `stale_status` | are the statuses always right at rest? | violated |
| `relist_recreate` | do only accepted routes appear after a restart of the watch? | violated |
| `hand_edit` | is every hand edit of the managed key overwritten, also where the renderer refuses? | violated |
| `scan` | does the line-by-line scan return what whole sources call for, and miss nothing CoreDNS serves while snippets are plain? | holds |
| `hidden_listener` | and when a snippet holds a server block? | violated |
| `wire` | run twice at once, does the wiring script end in the contract (all three points), imported once, everything else kept, and is it idempotent? | holds |
| `wire_unmet` | and from a Corefile with the import in a server block and a Deployment with the volume unmounted? | violated |
| `wire_lost_edit` | does a line added meanwhile survive? | violated |

What the violated runs show:

* **`stale_status`** — a patch fails, the run writes `WriteFailed`, and is
  retried. The retry lists the route before the status write has come back on
  the watch: the cached object still says `Published`, which is what the retry
  wants to say, so `updateStatus` sends nothing. The write then arrives as an
  event of unchanged generation and is filtered. The route says `WriteFailed`
  until something else happens. `reconciler_test.go:553-556` and
  `troubleshooting.md:398` say otherwise; the tests use a client whose reads see
  its own writes.
* **`relist_recreate`** — deleted and created again between two lists, a route
  is an update from generation 1 to generation 1, which the filter drops. The
  old block stays (`install.md:342`).
  A restart of the ConfigMap watch has the same effect: the controller's patch
  and a user's removal of the key that follow each other cancel out and wake
  nobody (`FragmentAtRest` fails with `Relists = {"ConfigMap"}`, although
  `troubleshooting.md:645` says a hand edit is overwritten), which is why
  `settles` lets only the ZoneRoute watch break. In `faults`, where nothing
  is asked about rest, both may.
* **`hand_edit`** — the renderer's own check refuses the accepted routes, and a
  user overwrites the managed key. The edit is seen and wakes the controller, but
  `publish` returns `FragmentInvalid` (`reconciler.go:170-172`) before it compares
  the key with anything; the run ends without an error and the edit stays until
  the routes change. `troubleshooting.md:385-387`, in the section on
  `FragmentInvalid`, says any edit is overwritten. Where nothing is refused that is
  true: `HandEditsGo` under Proofs.
* **`hidden_listener`** — `(common) { a:53 { … } }` and, at top level,
  `import common`: the import names a snippet of the same text and is passed over,
  and the block inside the snippet is no key of the Corefile. CoreDNS serves `a`;
  the result has no listener for it, and a route for `a` is accepted without a
  word, although `corefile.go:149-150` and `troubleshooting.md:179-180` call such
  imports resolved. An import of files inside the snippet is missed in the same
  way.
* **`wire_unmet`** — one short run of the script shows two defects, each of which
  would do alone. The grep (line 28) allows indentation, so an import inside
  `.:53 { … }` counts as present; `Inspect` reports `CoreDNSNotWired`. And the
  third step (line 37) looks for the volume only: where the Deployment has a volume of
  that name and no mount of it, the mount is never added. The script prints
  "present" three times and ends well with neither the import nor the mount of
  its own contract (lines 2 to 9). Line 28 also misses an import with a comment behind
  it, which CoreDNS's lexer takes for the wiring, and appends a second one
  (`WiredOnce` fails over such a Corefile; no run is spent on it).
* **`wire_lost_edit`** — the patch replaces the whole key by the text read before.

`stale_status` has a counterpart that holds: `StatusAtRestUnlessMissed` (run
`settles`) says that statuses are right at rest unless the run that went last
listed its routes before a status write had come back, or a status update whose
caller gave up was applied after that. Those two are the only obstacles.

Bounds. `Names` are one or two: two routes are what a conflict, a tie and a
hand-over of a zone need, and `resolve` covers three. `Times` are one (a tie) or
two. `MaxEdits` and `MaxFaults` bound what users and failures do, between one and
two, never what the controller does: a run may be repeated as often as the
code repeats it. Two edits suffice for every overtaking (one before a read, one
after) and for delete and create again; `hand_over` and `relist_recreate` have
them. With one fault and one edit, as in `faults` and `settles`, a failed call, a
late request or a restart meets every position of a change. `settles` has two Corefiles
(unwired, unreadable) next to a missing one and a missing key, two neighbouring
entries, a spec the renderer refuses and a watch that restarts. `faults` has no
reserved spec: that the entry keeps clear of the cluster domain is `hand_over`'s
and the theorems' matter.
`hand_over` has one name and one hand-over, which is a fault (`HandOver` uses
`Restart`). Initial states are all
combinations of routes present and absent, so what earlier edits would have
built is there from the start. `scan` tries every bracketed Corefile of up to
five lines over six kinds of line: a snippet with a block or an import and its use
need four or five; `hidden_listener` takes those of them that import no other
files. `WireScript` has two administrators, each with
two runs, so that a run can follow one that failed while another is going, and
one edit, which is all a lost update needs. `CHECK_DEADLOCK FALSE` stands in every
configuration because the system may stop: at rest, with the bounds used up,
nothing is left to do.

Fairness (`FairSpec`). Weak fairness of `DeliverRoute` and `DeliverConfig`: an
open watch delivers. Weak fairness of `ListRoutes`: controller-runtime's worker
takes a waiting key. `EveryRunEnds`, that is `[]<>(pc = "idle")`, stands for weak
fairness of the steps inside a run: each is enabled until it is taken, because
`Reconcile` is one sequential function whose calls return; stating it so spares
TLC the evaluation of ENABLED for steps that decide everything. Users need not
act, nothing needs to fail, and a request that was given up need never arrive.

`FragmentSettles` says "if the CoreDNS configuration the users leave can
be read": otherwise the controller retries forever, and should. With
`StatusAtRestUnlessMissed` it also says that the statuses come right.

## Proofs

Every safety invariant, action property and refinement that a passing run checks
is also a theorem, for every value of the constants: any number of routes,
specs, timestamps, texts, edits, faults, sources, lines, administrators. Each
proof has the same plan: an inductive invariant, `Init` establishes it, a lemma
for each kind of step preserves it, it implies the property; the theorem puts
the three together with PTL.

### Conflict resolution

`ZoneClaimsProofs`: for claims with distinct names — any set of them —

* `StableUnique`: two stable sets of winners are equal (look at the oldest claim
  they differ in);
* `WinnersStable`: there is one. For a claim `c`, `Good(A, C, c)` says `A` is
  stable on `c` and its elders; good sets restrict to elders, so the good sets of
  all claims agree and glue together; the oldest claim without a good set would
  get one from its elders. Both arguments need an oldest claim, which
  `NatMinimum` in `NumberFacts` supplies from the library's well-foundedness of
  strict inclusion among finite sets;
* `WinnersDisjoint`: winners do not overlap; `WinnersOfOlder`: younger claims
  change nothing for older ones.

`ConflictLoopProofs`: the loops of `Resolve`. `LoopInv` says that the candidates
met so far are the ones among the routes met, that whoever has been decided is
older than whoever waits in the second loop, and that the owners so far are the
winners so far. The key step is one turn of the second loop: the oldest route
that waits finds a zone taken exactly when an older *winner* claims it, which is
what stability asks. From that: `DecidesAsCalledFor` (the decisions are those of
the stable outcome, whatever the order of the input), `OwnersAlwaysAccepted`,
`OwnersAlwaysHoldAll`, `KeepsThePromise` (the loops implement `ClaimsDecided`),
and, with `WinnersOfOlder` and uniqueness, `RejectedNeverMatter` and
`YoungestNeverMatters`.

### Inspection

`InspectionScanProofs`: `ScanInv` says that on every line the scanner's depth is
that of the text, what it has noted are the lines before, and the result is that
of the sources already through, which precede all others in the order of names.
`InspectsAsStated` compares the outcome with `Inspection`, errors included;
`FirstSourceAlwaysBlamed` is the order; `NothingPlainHidden` shows that with
plain snippets defined before use the set of all top-level lines is closed under
imports, so that nothing CoreDNS reads is missed.

### The controller

`ControllerProofs`:

* `FragmentForSound`: whatever the three reads returned, the rendered fragment
  serves no zone twice and none in the cluster domain.
* `TypeCorrect`. `TypeOK` is inductive: it includes that a run about to publish
  has a Corefile it read and a verdict on every route it listed, and that
  statuses are owed only for listed routes and only while they are being written.
* `FragmentAlwaysSound`. `FragmentSound` is not inductive: a patch writes what the
  run rendered earlier, so `FragmentsSound` adds that the run's fragment is sound.
  Every other write to the managed key is a user's removal or overwrite, and a
  late patch is one that was rendered before.
* `KeepsToItsOwn`, an action property. A merge patch puts the managed key into the
  ConfigMap as it is now, a status update replaces the status of the object as it
  is now; with types and `Absent` told from objects, that leaves specs, texts,
  entries and the sets of objects alone.
* `PublishesAlways`, the refinement of `Publisher`. `Quiet` disposes of the steps
  that leave the entry and the patch alone; the lemmas `Composes`, `Writes`,
  `WritesLate`, `Delays`, `Discards` and `DiscardsLate` each give one step of
  `Publisher` from what an action does to the slots, and `StepMapped` puts the
  actions together.

`StatusProofs`, first half: `StatusesDescribe` and `PublishedHasBeenWritten`. A
verdict is made on a listed object and its status lands on the server's, with
reads, a patch, other writers and perhaps a new process in between. The invariant
`Truthful` says of everybody who holds an object — cache, watch, run, a request
that went astray — that it is the server's object or one whose resourceVersion
the server will never have again (`Copy`), so that an update which the
precondition lets pass lands on the very object the verdict was about, deleted
and created again or not. It says further that every fragment somebody has seen
has been written (`Held`), which is what lets a run report `Published` without a
patch. `Grows` is the one fact about the server these need.

`StatusProofs`, second half: `RestsWithTheRightFragment`, `Spec /\ WatchesKept =>
[]FragmentAtRest`. Three facts make up `RestInv`:

* `WatchesLead`: the events on their way lead, object by object, from what the
  cache shows to what the server has, each a step the filter passes or one that
  changes nothing a run would see (`Alike`: same generation, age and spec).
  Between two deletions generations only grow (`Ages`).
* `UpToDate`: unless the controller has been woken again, the run has read what the
  cache shows, up to `Alike`; and a run that is through has settled that, has
  failed, or has left an event about `coredns-custom` on the watch. The delicate
  case is a patch that finds its value in place already: somebody has written it
  in the meantime, and that event is still to come (`PatchSeen`). Every event
  about the ConfigMap that arrives changes it, and so wakes the controller.
* `Computed`: what a run is about to publish is what its reads call for.

`AlikeComputed` says that a run decides, renders and reports the same on alike
lists; with it, an event the filter drops costs nothing. At rest the queues are
empty, so the cache is the server's state, and that is settled.

`FragmentAtRest` says nothing in two situations, as `publish` has nothing to write in
them: `coredns-custom` is missing, or the renderer refuses (`FragmentInvalid`) and
`publish` returns before it patches. In the second an edit made by hand stays at
rest; the run `hand_edit` shows it. `HandEditsGo` is the other half: where every
spec can be rendered, no hand-written value is left at rest.

`WatchesKept` is the hypothesis: no ConfigMap watch starts over from a list, nor a
ZoneRoute watch where deleted names are created again. Without either part the
property is false; the run `relist_recreate` and the remark under it are the
counterexamples. A ZoneRoute watch that starts over without names coming back is
covered (`NeverBack`, `RelistMisses`).

`RestsWithTheRightStatuses`, `Spec /\ WatchesKept => []StatusAtRestUnlessMissed`, adds
`StatusesKnown`: unless woken, or overtaken by a status write that it did not read,
a run has listed the status of every object the cache still shows in the right
generation (`Shown`), writes the one it reports where they differ, and so leaves
the one the cache calls for. Status writes are dropped by the filter, which is why
this cannot follow from the first theorem; creations and changes of spec hide the
object (`WriteShows`) until their event wakes the controller.

`LeadershipProofs`: `SoundAcrossHandOver`, `PublishesAcross`, `StatusesDescribeAcross`,
`PublishedAcrossHandOver` and `RestsAcrossHandOver`, the properties of `hand_over` and
their like for `BothSpec`. A hand-over is a restart, or a standby that takes over with
the cache and the watches it has kept all along, behind the server by whatever is
still on the watches (`StandbyLeads`, `StandbyKeeps`, `StandbyTruthful`,
`StandbyUpToDate`). `BothInv` adds to the holder's invariants that the run of
the old process is typed and sound, `BothTruthful` that it is truthful. It is when it
is handed over, because it was the holder's; `SameServer` and `SameOperators` say that
the old process's copy of the actions does to the server what the holder's does, so
the lemmas on writes are used a second time. `Lifted` carries every step of the holder
over to the mapping with three slots. For rest nothing has to be known about the
old run: to the holder its writes are writes of others, which the watches announce.
What it says of statuses at rest does not carry over: the old process writes
statuses that no run of the new one has read.

### The wiring script

`WireScriptProofs`: what the script promises depends on what it finds and on what
others do meanwhile, so each theorem names what it needs. `UsersLeaveImports` (users
neither add nor remove an import of the wiring) and `Progress` (what a script has
behind it stays done) carry all of them. `EndsWithTheContractMet` needs that no
import stands inside a server block (`BlocksClean`) and that the script finds no
volume of its name without the mount (`NoStrayVolume`, kept as `MountKept`: the patch
adds both), and then concludes the whole contract; without the two: `wire_unmet`.
`ImportedOnce` that Corefiles are tidy (one import at most, and not one that a
comment follows, which the grep of line 28 does not see), and then holds for any
number of scripts that append at once from Corefiles however old (`AllTidy`); `LeavesTheRest` that users
wait while a script is between a read and its patch (`Pending`; without it:
`wire_lost_edit`); `ScriptIdempotent` needs tidy Corefiles and users who wait. The hypotheses are those
under which the run `wire` checks the properties.

### Assumptions

The named ones of the modules, each as the code or the schema guarantees it.
`Names` are natural numbers in the order of the names (finite, so that they can be
listed); `Times` natural numbers; the texts and specs have their shapes and no spec
names a zone twice, which the schema enforces; the cluster domain is canonical and
not the root, which the start-up gate enforces (`ValidDomain`); in `ConflictLoop`
the routes of an input have names of their own, in `InspectionScan` texts are
bracketed and sources numbered in the order of their names; in `WireScript` a
Deployment mounts no volume it does not have (`DeploymentsAssumption`).
`AbsentAssumption` says that `Absent` is neither a ConfigMap nor a ZoneRoute.
`ForeignApart`, that a missing key and a hand-written value are no sets of blocks, is
a hypothesis of `PublishedHasBeenWritten` and `HandEditsGo`; it is no ASSUME because TLC cannot ask
whether a model value is a set. The proofs use no other distinctness of `Absent`,
`NoKey`, `NoRequest` and the like.

### Only model-checked

`FragmentSettles`: liveness under fairness is beyond the prover.
That no order of steps puts off rest for ever is what the run `settles` shows, on its
instance; that rest is the right rest is proved. The properties of the violated runs
are false, and each theorem that comes near one names the hypothesis that tells them
apart. What the loops over a text or a list compute is proved
through invariants of the modules that run them (`ConflictLoop`, `InspectionScan`), as
induction over data is beyond the prover too.

## Not modelled

How `parseKey` takes a server-block key apart, and the lexer (quotes, comments,
several tokens on a line): the texts of the models are past both. The lease
object, its renewal and its clocks, which are client-go's: `Leadership` assumes the
worst of them. The size limit of a ConfigMap: a fragment that no longer fits is a
patch that fails every time, and a bound on the size of an abstract fragment would
say nothing. CoreDNS itself (mount, reload, answering), which is not in the
repository. The schema rules other than distinct zones, enforced by the API server.
Health and metrics endpoints, permissions, tooling, tests and website, which keep
no state.

## Plan

Done: names, conflict resolution and its loops, inspection by sources and by
lines, rendering, the controller with its environment, late requests of both
kinds, the hand-over of the lease, the abstract specifications `ClaimsDecided` and
`Publisher` with their refinements, the wiring script; a theorem for every safety
property, action property and refinement of the passing runs.

Next: the steps that liveness rests on, as far as they are safety (a run between a
wake-up and its end strictly gets on; what is left on the watches shrinks while
nobody writes), and what statuses at rest owe to a process that lost its lease.
