----------------------------- MODULE ZoneClaims -----------------------------
(***************************************************************************)
(* Which routes are accepted (internal/conflict), as a pure function of    *)
(* the claims, of the listeners CoreDNS already has and of the cluster     *)
(* domain.                                                                 *)
(*                                                                         *)
(* A claim is [name, created, zones]: names and creation times are numbers *)
(* in their byte order and in time order, zones a set of spellings.  An    *)
(* existing listener is [transport, zone, port, source].                   *)
(*                                                                         *)
(* The acceptance loop is stated here by what it computes, the stable set  *)
(* of winners; ConflictLoop is the loop itself.                            *)
(***************************************************************************)
EXTENDS Naturals, FiniteSets, ZoneNames

\* The listener identity of every block the controller renders.
ListenerTransport == "dns"
ListenerPort == 53

CanonicalZones(claim) == {Canonical(z) : z \in claim.zones}

\* Only listeners on the controller's own identity can collide with a route.
\* Several sources of one listener are reported as the smallest of them.
Served(existing) ==
    LET own == {e \in existing : e.transport = ListenerTransport /\ e.port = ListenerPort}
        first(z) == {e \in own : /\ Canonical(e.zone) = z
                                 /\ \A f \in own : Canonical(f.zone) = z => e.source <= f.source}
    IN  {[zone |-> Canonical(e.zone), source |-> e.source] :
            e \in UNION {first(Canonical(d.zone)) : d \in own}}

ReservedOf(claim, domain) == {z \in CanonicalZones(claim) : InDomain(z, domain)}

OwnedOf(claim, served) == {o \in served : o.zone \in CanonicalZones(claim)}

\* The claims that enter the ownership loop.
Candidates(claims, served, domain) ==
    {c \in claims : ReservedOf(c, domain) = {} /\ OwnedOf(c, served) = {}}

\* Mistake: no tie-break.
OlderByTime(c, d) == c.created < d.created

\* Oldest first, the name as the tie-break.
Older(c, d) == c.created < d.created \/ (c.created = d.created /\ c.name < d.name)

Overlap(c, d) == CanonicalZones(c) \cap CanonicalZones(d) # {}

\* W is the outcome of first-come-first-served: a candidate wins exactly when
\* no older winner holds one of its zones.
Stable(W, candidates) ==
    \A c \in candidates : c \in W <=> ~ \E w \in W : Older(w, c) /\ Overlap(w, c)

Winners(candidates) == CHOOSE W \in SUBSET candidates : Stable(W, candidates)

\* The zones of claim c that an older winner holds, with the winner's name.
ConflictsOf(c, winners) ==
    UNION {{[zone |-> z, winner |-> w.name] : z \in CanonicalZones(c) \cap CanonicalZones(w)} :
              w \in {v \in winners : Older(v, c)}}

\* The decision for claim c among claims.  Exactly one of accepted, reserved,
\* owned and conflicts says why; the earlier reason hides the later ones.
Decide(c, claims, served, domain) ==
    LET reserved == ReservedOf(c, domain)
        owned    == OwnedOf(c, served)
        winners  == Winners(Candidates(claims, served, domain))
        refused  == reserved # {} \/ owned # {}
    IN  [name      |-> c.name,
         accepted  |-> ~refused /\ c \in winners,
         reserved  |-> reserved,
         owned     |-> IF reserved # {} THEN {} ELSE owned,
         conflicts |-> IF refused \/ c \in winners THEN {} ELSE ConflictsOf(c, winners)]

Resolve(claims, existing, domain) ==
    LET served == Served(existing)
    IN  {Decide(c, claims, served, domain) : c \in claims}
=============================================================================
