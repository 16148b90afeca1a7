---------------------------- MODULE ConflictLoop ----------------------------
(***************************************************************************)
(* The two loops of conflict.Resolve as they run.  The first takes the     *)
(* routes in whatever order the caller passed them and turns away those    *)
(* that claim reserved or already served zones; the second walks the       *)
(* remaining candidates from the oldest on and hands out zones.            *)
(***************************************************************************)
EXTENDS ZoneClaims, Functions

CONSTANTS Inputs,   \* the pairs [claims, existing] to decide
          Domain    \* the cluster domain, canonical

\* Routes as the API server holds them: one of each name, with a zone or more.
ASSUME InputsAssumption ==
    \A i \in Inputs :
        /\ \A c \in i.claims : c.name \in Nat /\ c.created \in Nat /\ c.zones # {}
        /\ \A c, d \in i.claims : c.name = d.name => c = d

VARIABLES
    input,          \* the arguments: [claims, existing]
    todo,           \* claims the first loop has not reached
    candidates,     \* claims the second loop has not reached
    owner,          \* zone -> name of the accepted route that holds it
    decisions       \* the result so far

vars == <<input, todo, candidates, owner, decisions>>

served == Served(input.existing)

Verdict(c, accepted, reserved, owned, conflicts) ==
    [name |-> c.name, accepted |-> accepted,
     reserved |-> reserved, owned |-> owned, conflicts |-> conflicts]

Init ==
    /\ input \in Inputs
    /\ todo = input.claims
    /\ candidates = {}
    /\ owner = [z \in {} |-> 0]
    /\ decisions = {}

\* Mistake: a reserved route is turned away and then considered all the same.
ClassifyAndGoOn(c) ==
    /\ c \in todo
    /\ todo' = todo \ {c}
    /\ decisions' = IF ReservedOf(c, Domain) = {} THEN decisions
                    ELSE decisions \cup {Verdict(c, FALSE, ReservedOf(c, Domain), {}, {})}
    /\ candidates' = candidates \cup {c}
    /\ UNCHANGED <<input, owner>>

\* Mistake: existing listeners are looked at before reserved zones.
ClassifyServedFirst(c) ==
    /\ c \in todo
    /\ todo' = todo \ {c}
    /\ \/ /\ OwnedOf(c, served) # {}
          /\ decisions' = decisions \cup {Verdict(c, FALSE, {}, OwnedOf(c, served), {})}
          /\ UNCHANGED candidates
       \/ /\ OwnedOf(c, served) = {} /\ ReservedOf(c, Domain) # {}
          /\ decisions' = decisions \cup {Verdict(c, FALSE, ReservedOf(c, Domain), {}, {})}
          /\ UNCHANGED candidates
       \/ /\ ReservedOf(c, Domain) = {} /\ OwnedOf(c, served) = {}
          /\ candidates' = candidates \cup {c}
          /\ UNCHANGED decisions
    /\ UNCHANGED <<input, owner>>

Classify(c) ==
    /\ c \in todo
    /\ todo' = todo \ {c}
    /\ \/ /\ ReservedOf(c, Domain) # {}
          /\ decisions' = decisions \cup {Verdict(c, FALSE, ReservedOf(c, Domain), {}, {})}
          /\ UNCHANGED candidates
       \/ /\ ReservedOf(c, Domain) = {} /\ OwnedOf(c, served) # {}
          /\ decisions' = decisions \cup {Verdict(c, FALSE, {}, OwnedOf(c, served), {})}
          /\ UNCHANGED candidates
       \/ /\ ReservedOf(c, Domain) = {} /\ OwnedOf(c, served) = {}
          /\ candidates' = candidates \cup {c}
          /\ UNCHANGED decisions
    /\ UNCHANGED <<input, owner>>

\* Mistake: zones are looked up as they are written.
TakenAsWritten(c) == c.zones \cap DOMAIN owner

Taken(c) == CanonicalZones(c) \cap DOMAIN owner

\* Ownership of c's zones, which nobody holds yet.
Grant(c) == [z \in DOMAIN owner \cup CanonicalZones(c) |->
                IF z \in DOMAIN owner THEN owner[z] ELSE c.name]

\* Mistake: candidates are served in any order.
AllotUnsorted(c) ==
    /\ todo = {} /\ c \in candidates
    /\ candidates' = candidates \ {c}
    /\ \/ /\ Taken(c) = {}
          /\ owner' = Grant(c)
          /\ decisions' = decisions \cup {Verdict(c, TRUE, {}, {}, {})}
       \/ /\ Taken(c) # {}
          /\ decisions' = decisions \cup
                {Verdict(c, FALSE, {}, {}, {[zone |-> z, winner |-> owner[z]] : z \in Taken(c)})}
          /\ UNCHANGED owner
    /\ UNCHANGED <<input, todo>>

\* Mistake: a rejected route keeps the zones nobody held.
AllotAnyway(c) ==
    /\ todo = {}
    /\ c \in candidates /\ \A d \in candidates \ {c} : Older(c, d)
    /\ candidates' = candidates \ {c}
    /\ owner' = Grant(c)
    /\ decisions' = decisions \cup
          {Verdict(c, Taken(c) = {}, {}, {}, {[zone |-> z, winner |-> owner[z]] : z \in Taken(c)})}
    /\ UNCHANGED <<input, todo>>

Allot(c) ==
    /\ todo = {}
    /\ c \in candidates /\ \A d \in candidates \ {c} : Older(c, d)
    /\ candidates' = candidates \ {c}
    /\ \/ /\ Taken(c) = {}
          /\ owner' = Grant(c)
          /\ decisions' = decisions \cup {Verdict(c, TRUE, {}, {}, {})}
       \/ /\ Taken(c) # {}
          /\ decisions' = decisions \cup
                {Verdict(c, FALSE, {}, {}, {[zone |-> z, winner |-> owner[z]] : z \in Taken(c)})}
          /\ UNCHANGED owner
    /\ UNCHANGED <<input, todo>>

Next == \E c \in input.claims : Classify(c) \/ Allot(c)

Done == todo = {} /\ candidates = {}

Spec == Init /\ [][Next]_vars

-----------------------------------------------------------------------------
TypeOK ==
    /\ todo \subseteq input.claims
    /\ candidates \subseteq input.claims \ todo
    /\ DOMAIN owner \subseteq UNION {CanonicalZones(c) : c \in input.claims}
    /\ Range(owner) \subseteq {c.name : c \in input.claims}
    /\ \A d \in decisions : \E c \in input.claims \ (todo \cup candidates) : c.name = d.name

\* The owner of a zone is an accepted route that claims it, and an accepted
\* route owns all its zones: no zone has two servers and none is orphaned.
OwnersAreTheAccepted ==
    \A c \in input.claims :
        (\E d \in decisions : d.name = c.name /\ d.accepted)
            <=> (\E z \in CanonicalZones(c) : z \in DOMAIN owner /\ owner[z] = c.name)
OwnersHoldAll ==
    \A c \in input.claims : \A d \in decisions :
        d.name = c.name /\ d.accepted =>
            \A z \in CanonicalZones(c) : z \in DOMAIN owner /\ owner[z] = c.name

\* Every route is told, and told what the whole input calls for, whatever the
\* order in which the first loop met the routes.
CalledFor(i) == Resolve(i.claims, i.existing, Domain)
AllDecided == Done => decisions = CalledFor(input)

\* A rejected route owns nothing: had it not been there, every other route
\* would have been told exactly the same.
RejectedDoNotMatter ==
    Done => \A d \in decisions :
        ~d.accepted =>
            decisions \ {d} =
                Resolve({c \in input.claims : c.name # d.name}, input.existing, Domain)

\* A route takes nothing from an older one: without the youngest of the
\* candidates every other route keeps its decision.
YoungestDoesNotMatter ==
    Done => \A c \in input.claims :
        (\A e \in input.claims \ {c} : Older(e, c)) =>
            {d \in decisions : d.name # c.name} =
                Resolve(input.claims \ {c}, input.existing, Domain)

\* The loop makes the promised decisions, whatever the order of its input.
Promise == INSTANCE ClaimsDecided WITH
    CalledFor <- CalledFor, input <- input, decisions <- decisions
PromiseKept == Promise!Spec
=============================================================================
