----------------------------- MODULE WireScript -----------------------------
(***************************************************************************)
(* hack/wire-coredns.sh: what an administrator runs once to make CoreDNS   *)
(* load the managed entry.  Each kubectl call is a step of its own; several*)
(* administrators may run the script at once, users edit the Corefile, and *)
(* calls fail, which ends the script (set -e) until somebody runs it again.*)
(***************************************************************************)
EXTENDS Naturals, Sequences, FiniteSets, Inspection

CONSTANTS
    Scripts,        \* administrators who run the script
    Corefiles,      \* Corefiles the script may find, each a sequence of lines
    Deployments,    \* Deployments the script may find
    UserLines,      \* lines users may add to the Corefile or take out of it
    Tuning,         \* those of them who set ZONEROUTE_TEST_TUNING
    PoliteUsers,    \* do users wait while a script is between a read and its patch?
    MaxStarts,      \* bound on how often each administrator starts the script
    MaxEdits        \* bound on user edits

\* An import of the wiring on a line of its own, inside a server block, and
\* followed by a comment; the reload plugin; anything else.
Line == {"import", "import in block", "import with comment", "reload", "reload 2s 1s",
         "other import", "log"}

\* What the script cares for in Deployment coredns: is there a volume of the
\* name it uses, does the container mount it, is there one replica only?
Deployment == [volume : BOOLEAN, mounted : BOOLEAN, single : BOOLEAN]

ASSUME LinesAssumption == Corefiles \subseteq Seq(Line) /\ UserLines \subseteq Line

\* The API server refuses a mount of a volume that is not there.
ASSUME DeploymentsAssumption ==
    Deployments \subseteq Deployment /\ \A d \in Deployments : d.mounted => d.volume

ASSUME LimitsAssumption ==
    {MaxStarts, MaxEdits} \subseteq Nat /\ PoliteUsers \in BOOLEAN /\ Tuning \subseteq Scripts

VARIABLES
    custom,         \* does ConfigMap coredns-custom exist?
    corefile,       \* the lines of the Corefile
    deployment,     \* Deployment coredns
    pc,             \* the call each script makes next
    text,           \* the Corefile each script has read
    starts, edits

cluster == <<custom, corefile, deployment>>
vars == <<custom, corefile, deployment, pc, text, starts, edits>>

Holds(lines, l) == \E i \in DOMAIN lines : lines[i] = l

\* What CoreDNS, and so the controller, takes for the wiring.
TextOf(lines) ==
    [wellFormed |-> TRUE, keys |-> {},
     imports |-> IF Holds(lines, "import") \/ Holds(lines, "import with comment")
                 THEN {WiringImport} ELSE {}]
Wired == Inspect(TextOf(corefile), EmptyText).wired

\* Mistake: any import will do.
AnyImport(lines) == Holds(lines, "other import") \/ Holds(lines, "import")

\* What grep finds: the import alone on its line, however far indented.
ImportPresent(lines) == Holds(lines, "import") \/ Holds(lines, "import in block")

\* sed: the interval is put behind a reload that has none.
Tuned(lines) == [i \in DOMAIN lines |-> IF lines[i] = "reload" THEN "reload 2s 1s" ELSE lines[i]]

Init ==
    /\ custom \in BOOLEAN
    /\ corefile \in Corefiles
    /\ deployment \in Deployments
    /\ pc = [s \in Scripts |-> "ready"]
    /\ text = [s \in Scripts |-> <<>>]
    /\ starts = [s \in Scripts |-> 0]
    /\ edits = 0

-----------------------------------------------------------------------------
(* The script.                                                             *)

Ended == {"ready", "done", "failed"}

Calls == {"get custom", "create custom", "get corefile", "add import", "get mount",
          "add mount", "get reload", "tune reload", "scale", "rollout"}

Continue(s, step) == pc' = [pc EXCEPT ![s] = step] /\ UNCHANGED <<starts, edits>>

Start(s) ==
    /\ pc[s] \in Ended /\ starts[s] < MaxStarts
    /\ pc' = [pc EXCEPT ![s] = "get custom"]
    /\ starts' = [starts EXCEPT ![s] = @ + 1]
    /\ UNCHANGED <<cluster, text, edits>>

\* A call that fails counts as an absent ConfigMap.
GetCustom(s) ==
    /\ pc[s] = "get custom"
    /\ \/ custom /\ Continue(s, "get corefile")
       \/ Continue(s, "create custom")
    /\ UNCHANGED <<cluster, text>>

\* kubectl create refuses to create what exists.
CreateCustom(s) ==
    /\ pc[s] = "create custom"
    /\ \/ ~custom /\ custom' = TRUE /\ Continue(s, "get corefile")
       \/ custom /\ Continue(s, "failed") /\ UNCHANGED custom
    /\ UNCHANGED <<corefile, deployment, text>>

\* Mistake: the outcome of grep is read the other way round.
GetCorefileSwapped(s) ==
    /\ pc[s] = "get corefile"
    /\ text' = [text EXCEPT ![s] = corefile]
    /\ IF ImportPresent(corefile) THEN Continue(s, "add import") ELSE Continue(s, "get mount")
    /\ UNCHANGED cluster

GetCorefile(s) ==
    /\ pc[s] = "get corefile"
    /\ text' = [text EXCEPT ![s] = corefile]
    /\ IF ImportPresent(corefile) THEN Continue(s, "get mount") ELSE Continue(s, "add import")
    /\ UNCHANGED cluster

\* Mistake: the import is added to what the Corefile is by now.
AppendInPlace(s) ==
    /\ pc[s] = "add import"
    /\ corefile' = Append(corefile, "import")
    /\ Continue(s, "get mount")
    /\ UNCHANGED <<custom, deployment, text>>

\* The merge patch replaces the whole key by what was read and one line more.
AddImport(s) ==
    /\ pc[s] = "add import"
    /\ corefile' = Append(text[s], "import")
    /\ Continue(s, "get mount")
    /\ UNCHANGED <<custom, deployment, text>>

AfterMount(s) == IF s \in Tuning THEN "get reload" ELSE "rollout"

\* The script looks for the volume only.  A call that fails counts as an absent
\* one; the patch adds nothing twice.
GetMount(s) ==
    /\ pc[s] = "get mount"
    /\ \/ deployment.volume /\ Continue(s, AfterMount(s))
       \/ Continue(s, "add mount")
    /\ UNCHANGED <<cluster, text>>

AddMount(s) ==
    /\ pc[s] = "add mount"
    /\ deployment' = [deployment EXCEPT !.volume = TRUE, !.mounted = TRUE]
    /\ Continue(s, AfterMount(s))
    /\ UNCHANGED <<custom, corefile, text>>

\* Mistake: the text of the second step is used again.
GetReloadFromText(s) ==
    /\ pc[s] = "get reload"
    /\ IF Holds(text[s], "reload") THEN Continue(s, "tune reload") ELSE Continue(s, "scale")
    /\ UNCHANGED <<cluster, text>>

GetReload(s) ==
    /\ pc[s] = "get reload"
    /\ text' = [text EXCEPT ![s] = corefile]
    /\ IF Holds(corefile, "reload") THEN Continue(s, "tune reload") ELSE Continue(s, "scale")
    /\ UNCHANGED cluster

TuneReload(s) ==
    /\ pc[s] = "tune reload"
    /\ corefile' = Tuned(text[s])
    /\ Continue(s, "scale")
    /\ UNCHANGED <<custom, deployment, text>>

Scale(s) ==
    /\ pc[s] = "scale"
    /\ deployment' = [deployment EXCEPT !.single = TRUE]
    /\ Continue(s, "rollout")
    /\ UNCHANGED <<custom, corefile, text>>

Rollout(s) ==
    /\ pc[s] = "rollout"
    /\ Continue(s, "done")
    /\ UNCHANGED <<cluster, text>>

\* A call returns an error, whether it took effect or not, or the wait runs
\* into its limit, and set -e ends the script; or somebody interrupts it.
Abort(s) ==
    /\ pc[s] \notin Ended
    /\ Continue(s, "failed")
    /\ UNCHANGED <<cluster, text>>

Step(s) ==
    \/ GetCustom(s) \/ CreateCustom(s) \/ GetCorefile(s) \/ AddImport(s) \/ GetMount(s)
    \/ AddMount(s) \/ GetReload(s) \/ TuneReload(s) \/ Scale(s) \/ Rollout(s)

-----------------------------------------------------------------------------

WithoutLine(lines, i) == SubSeq(lines, 1, i - 1) \o SubSeq(lines, i + 1, Len(lines))

EditCorefile ==
    /\ edits < MaxEdits
    /\ PoliteUsers => \A s \in Scripts : pc[s] \notin {"add import", "tune reload"}
    /\ \/ \E l \in UserLines : corefile' = Append(corefile, l)
       \/ \E i \in DOMAIN corefile :
             corefile[i] \in UserLines /\ corefile' = WithoutLine(corefile, i)
    /\ edits' = edits + 1
    /\ UNCHANGED <<custom, deployment, pc, text, starts>>

Next == EditCorefile \/ \E s \in Scripts : Start(s) \/ Step(s) \/ Abort(s)

Spec == Init /\ [][Next]_vars

-----------------------------------------------------------------------------
(* What the script promises.                                               *)

\* Every variable has its type, and a script that patches holds a Corefile
\* in which its line was missing.
TypeOK ==
    /\ custom \in BOOLEAN
    /\ corefile \in Seq(Line)
    /\ deployment \in Deployment
    /\ pc \in [Scripts -> Ended \cup Calls] /\ text \in [Scripts -> Seq(Line)]
    /\ \A s \in Scripts : pc[s] = "add import" => ~ImportPresent(text[s])
    /\ \A s \in Scripts : pc[s] = "tune reload" => Holds(text[s], "reload")
    /\ starts \in [Scripts -> 0 .. MaxStarts] /\ edits \in 0 .. MaxEdits

Contract == custom /\ Wired /\ deployment.mounted

\* When a script has ended well, the contract is met in all its three points
\* (lines 2 to 7), whoever else ran the script or gave up half-way at the same
\* time.
ContractWhenDone == \A s \in Scripts : pc[s] = "done" => Contract

\* The wiring is never imported twice (lines 9 and 28): CoreDNS would find
\* every block of the managed entry defined twice.
WiredOnce ==
    \A i, j \in DOMAIN corefile :
        {corefile[i], corefile[j]} \subseteq {"import", "import with comment"} => i = j

\* Everything else in the Corefile is left untouched (lines 9 and 10), the
\* interval of reload apart: a script adds its line at the end or nothing.
RestUntouched ==
    [][edits' = edits =>
         Tuned(corefile') \in {Tuned(corefile), Append(Tuned(corefile), "import")}]_vars

\* Once the contract is met, neither a script that began earlier nor one
\* started again changes anything but the tuning (line 9).
Idempotent == [][Contract /\ edits' = edits => Contract' /\ Tuned(corefile') = Tuned(corefile)]_vars
=============================================================================
