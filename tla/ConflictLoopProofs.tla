------------------------- MODULE ConflictLoopProofs -------------------------
(***************************************************************************)
(* The loops of conflict.Resolve compute the stable outcome, for every     *)
(* input and every order in which the first loop meets the routes.         *)
(*                                                                         *)
(* The invariant says what has been decided so far: nothing is handed out  *)
(* before the first loop is over, and from then on the oldest candidates   *)
(* have had their turn, so that the owners so far are the winners so far.  *)
(***************************************************************************)
EXTENDS ConflictLoop, ZoneClaimsProofs

Decided == input.claims \ (todo \cup candidates)

\* The routes that enter the second loop, and those of them that win.
Entrants == Candidates(input.claims, served, Domain)
Accepted == Winners(Entrants)

OwnersSoFar ==
    /\ DOMAIN owner = UNION {CanonicalZones(w) : w \in Accepted \cap Decided}
    /\ \A w \in Accepted \cap Decided : \A z \in CanonicalZones(w) : owner[z] = w.name

LoopInv ==
    /\ input \in Inputs
    /\ todo \subseteq input.claims
    /\ candidates \subseteq Entrants \ todo
    /\ todo # {} => candidates = Entrants \ todo
    /\ \A c \in Entrants \cap Decided, d \in candidates : Older(c, d)
    /\ decisions = {Decide(c, input.claims, served, Domain) : c \in Decided}
    /\ OwnersSoFar

LEMMA InputOrderly ==
    ASSUME input \in Inputs
    PROVE  /\ Orderly(input.claims) /\ Orderly(Entrants)
           /\ Entrants \subseteq input.claims
           /\ Accepted \subseteq Entrants /\ Stable(Accepted, Entrants)
<1>1. Orderly(input.claims)
  BY InputsAssumption DEF Orderly
<1>2. Entrants \subseteq input.claims /\ Orderly(Entrants)
  BY <1>1 DEF Entrants, Candidates, Orderly
<1> QED BY <1>1, <1>2, WinnersStable DEF Accepted

\* The constant part of the state and what is computed from it.
LEMMA SameInput ==
    ASSUME UNCHANGED input
    PROVE  Entrants' = Entrants /\ Accepted' = Accepted /\ served' = served
BY DEF Entrants, Accepted, served

LEMMA LoopStarts == Init => LoopInv
<1> SUFFICES ASSUME Init PROVE LoopInv
  OBVIOUS
<1>1. Decided = {} /\ DOMAIN owner = {}
  BY DEF Init, Decided
<1>2. candidates = {} /\ todo = input.claims /\ Entrants \subseteq input.claims
  BY DEF Init, Entrants, Candidates
<1> QED BY <1>1, <1>2 DEF Init, LoopInv, OwnersSoFar

\* One more decision.
LEMMA DecisionAdded ==
    ASSUME decisions = {Decide(c, input.claims, served, Domain) : c \in Decided},
           UNCHANGED input, NEW c \in input.claims, Decided' = Decided \cup {c},
           decisions' = decisions \cup {Decide(c, input.claims, served, Domain)}
    PROVE  decisions' = {Decide(d, input.claims, served, Domain) : d \in Decided}'
BY SameInput

LEMMA ClassifyKeeps ==
    ASSUME LoopInv, NEW c \in input.claims, Classify(c)
    PROVE  LoopInv'
<1> DEFINE d == Decide(c, input.claims, served, Domain)
<1>1. /\ UNCHANGED <<input, owner>> /\ c \in todo /\ todo' = todo \ {c}
      /\ candidates = Entrants \ todo
  BY DEF Classify, LoopInv
<1>2. Entrants \subseteq input.claims
  BY InputOrderly DEF LoopInv
<1>3. CASE c \notin Entrants
  <2>1. candidates' = candidates /\ decisions' = decisions \cup {d}
    BY <1>3 DEF Classify, Entrants, Candidates, Verdict, Decide
  <2>2. Decided' = Decided \cup {c}
    BY <1>1, <1>3, <2>1 DEF Decided
  <2>3. decisions' = {Decide(e, input.claims, served, Domain) : e \in Decided}'
    BY <1>1, <2>1, <2>2, DecisionAdded DEF LoopInv
  <2>4. Entrants \cap Decided = Entrants \cap Decided'
    BY <1>3, <2>2
  <2>5. Accepted \cap Decided' = Accepted \cap Decided
    BY <1>3, <2>2, InputOrderly DEF LoopInv
  <2> QED BY <1>1, <1>3, <2>1, <2>3, <2>4, <2>5, SameInput DEF LoopInv, OwnersSoFar
<1>4. CASE c \in Entrants
  <2>1. candidates' = candidates \cup {c} /\ UNCHANGED decisions
    BY <1>4 DEF Classify, Entrants, Candidates
  <2>2. Decided' = Decided
    BY <1>1, <2>1 DEF Decided
  <2>3. Entrants \cap Decided = {}
    BY <1>1 DEF Decided
  <2> QED BY <1>1, <1>4, <2>1, <2>2, <2>3, SameInput DEF LoopInv, OwnersSoFar
<1> QED BY <1>3, <1>4

\* When c has its turn, the winners older than it are the winners so far, so
\* what is taken of its zones is what they hold.
LEMMA TurnOf ==
    ASSUME LoopInv, NEW c \in candidates, todo = {},
           \A d \in candidates \ {c} : Older(c, d)
    PROVE  /\ \A w \in Entrants : Older(w, c) <=> w \in Decided
           /\ c \in Accepted <=> Taken(c) = {}
           /\ {[zone |-> z, winner |-> owner[z]] : z \in Taken(c)} = ConflictsOf(c, Accepted)
<1>1. /\ Orderly(Entrants) /\ Stable(Accepted, Entrants) /\ Accepted \subseteq Entrants
      /\ Entrants \subseteq input.claims /\ c \in Entrants
  BY InputOrderly DEF LoopInv
<1>2. ASSUME NEW w \in Entrants PROVE Older(w, c) <=> w \in Decided
  <2>1. w \in Decided => Older(w, c)
    BY <1>2 DEF LoopInv
  <2>2. w \notin Decided => w \in candidates
    BY <1>1 DEF Decided
  <2>3. w \in candidates => ~Older(w, c)
    BY <1>1, OlderOrder
  <2> QED BY <2>1, <2>2, <2>3
<1>3. {w \in Accepted : Older(w, c)} = Accepted \cap Decided
  BY <1>1, <1>2
<1>4. Taken(c) = {} <=> ~ \E w \in Accepted \cap Decided : Overlap(w, c)
  BY DEF Taken, LoopInv, OwnersSoFar, Overlap
<1>5. c \in Accepted <=> ~ \E w \in Accepted \cap Decided : Overlap(w, c)
  BY <1>1, <1>3 DEF Stable
<1>6. \A z \in Taken(c) : \E w \in Accepted \cap Decided :
          z \in CanonicalZones(c) \cap CanonicalZones(w) /\ owner[z] = w.name
  BY DEF Taken, LoopInv, OwnersSoFar
<1>7. \A w \in Accepted \cap Decided : \A z \in CanonicalZones(c) \cap CanonicalZones(w) :
          z \in Taken(c) /\ owner[z] = w.name
  BY DEF Taken, LoopInv, OwnersSoFar
<1>8. {[zone |-> z, winner |-> owner[z]] : z \in Taken(c)}
        = UNION {{[zone |-> z, winner |-> w.name] : z \in CanonicalZones(c) \cap CanonicalZones(w)} :
                    w \in Accepted \cap Decided}
  BY <1>6, <1>7
<1> QED BY <1>2, <1>3, <1>4, <1>5, <1>8 DEF ConflictsOf

LEMMA AllotKeeps ==
    ASSUME LoopInv, NEW c \in input.claims, Allot(c)
    PROVE  LoopInv'
<1> DEFINE d == Decide(c, input.claims, served, Domain)
<1>1. /\ UNCHANGED <<input, todo>> /\ todo = {} /\ c \in candidates
      /\ candidates' = candidates \ {c} /\ \A e \in candidates \ {c} : Older(c, e)
  BY DEF Allot
<1>2. /\ \A w \in Entrants : Older(w, c) <=> w \in Decided
      /\ c \in Accepted <=> Taken(c) = {}
      /\ {[zone |-> z, winner |-> owner[z]] : z \in Taken(c)} = ConflictsOf(c, Accepted)
  BY <1>1, TurnOf
<1>3. c \in Entrants /\ Decided' = Decided \cup {c}
  BY <1>1 DEF LoopInv, Decided
<1>4. ReservedOf(c, Domain) = {} /\ OwnedOf(c, served) = {}
  BY <1>3 DEF Entrants, Candidates
<1>5. d = Verdict(c, Taken(c) = {}, {}, {},
                  IF Taken(c) = {} THEN {} ELSE ConflictsOf(c, Accepted))
  BY <1>2, <1>4 DEF Decide, Verdict, Accepted, Entrants
<1>6. decisions' = decisions \cup {d}
  BY <1>2, <1>5 DEF Allot
<1>7. decisions' = {Decide(e, input.claims, served, Domain) : e \in Decided}'
  BY <1>1, <1>3, <1>6, DecisionAdded DEF LoopInv
<1>8. \A e \in Entrants \cap Decided', f \in candidates' : Older(e, f)
  BY <1>1, <1>3 DEF LoopInv
<1>9. OwnersSoFar'
  <2>1. CASE c \in Accepted
    <3>1. Accepted \cap Decided' = (Accepted \cap Decided) \cup {c}
      BY <1>3, <2>1
    <3>2. owner' = Grant(c) /\ Taken(c) = {}
      BY <1>2, <2>1 DEF Allot
    <3>3. DOMAIN owner' = DOMAIN owner \cup CanonicalZones(c)
      BY <3>2 DEF Grant
    <3>4. \A z \in DOMAIN owner : owner'[z] = owner[z]
      BY <3>2 DEF Grant
    <3>5. \A z \in CanonicalZones(c) : owner'[z] = c.name
      BY <3>2 DEF Grant, Taken
    <3>6. \A w \in Accepted \cap Decided : \A z \in CanonicalZones(w) : z \in DOMAIN owner
      BY DEF LoopInv, OwnersSoFar
    <3> QED BY <1>1, <3>1, <3>3, <3>4, <3>5, <3>6, SameInput DEF LoopInv, OwnersSoFar
  <2>2. CASE c \notin Accepted
    <3>1. Accepted \cap Decided' = Accepted \cap Decided /\ UNCHANGED owner
      BY <1>2, <1>3, <2>2 DEF Allot
    <3> QED BY <1>1, <3>1, SameInput DEF LoopInv, OwnersSoFar
  <2> QED BY <2>1, <2>2
<1> QED BY <1>1, <1>7, <1>8, <1>9, SameInput DEF LoopInv

LEMMA LoopSteps == LoopInv /\ [Next]_vars => LoopInv'
<1> SUFFICES ASSUME LoopInv, [Next]_vars PROVE LoopInv'
  OBVIOUS
<1>1. CASE UNCHANGED vars
  BY <1>1 DEF vars, LoopInv, OwnersSoFar, Decided, Entrants, Accepted, served
<1> QED BY <1>1, ClassifyKeeps, AllotKeeps DEF Next

LEMMA LoopCorrect == Spec => []LoopInv
BY LoopStarts, LoopSteps, PTL DEF Spec

-----------------------------------------------------------------------------
(* What the loops promise.                                                 *)

\* A decision is about the claim it was made for and accepts the winners.
LEMMA DecisionOf ==
    ASSUME NEW c, NEW claims, NEW domain
    PROVE  LET d == Decide(c, claims, served, domain) IN
           /\ d.name = c.name
           /\ d.accepted <=> /\ ReservedOf(c, domain) = {} /\ OwnedOf(c, served) = {}
                             /\ c \in Winners(Candidates(claims, served, domain))
BY DEF Decide

\* Decisions so far, seen from the claims.
LEMMA AcceptedSoFar ==
    ASSUME LoopInv, NEW c \in input.claims, NEW d \in decisions, d.name = c.name
    PROVE  /\ c \in Decided /\ d = Decide(c, input.claims, served, Domain)
           /\ d.accepted <=> c \in Accepted
<1>1. PICK e \in Decided : d = Decide(e, input.claims, served, Domain)
  BY DEF LoopInv
<1>2. e = c
  BY <1>1, DecisionOf, InputOrderly DEF LoopInv, Orderly, Decided
<1>3. c \in Accepted => ReservedOf(c, Domain) = {} /\ OwnedOf(c, served) = {}
  BY InputOrderly DEF LoopInv, Entrants, Candidates
<1> QED BY <1>1, <1>2, <1>3, DecisionOf DEF Accepted, Entrants

LEMMA NoZoneless ==
    ASSUME input \in Inputs, NEW c \in input.claims
    PROVE  CanonicalZones(c) # {}
BY InputsAssumption DEF CanonicalZones

LEMMA LoopTyped == LoopInv => TypeOK
<1> SUFFICES ASSUME LoopInv PROVE TypeOK
  OBVIOUS
<1>1. todo \subseteq input.claims /\ candidates \subseteq input.claims \ todo
  BY InputOrderly DEF LoopInv
<1>2. Accepted \cap Decided \subseteq input.claims
  BY DEF Decided
<1>3. DOMAIN owner \subseteq UNION {CanonicalZones(c) : c \in input.claims}
  BY <1>2 DEF LoopInv, OwnersSoFar
<1>4. Range(owner) \subseteq {c.name : c \in input.claims}
  BY <1>2 DEF LoopInv, OwnersSoFar, Range
<1>5. \A d \in decisions : \E c \in Decided : c.name = d.name
  BY DecisionOf DEF LoopInv
<1> QED BY <1>1, <1>3, <1>4, <1>5 DEF TypeOK, Decided

LEMMA LoopOwners == LoopInv => OwnersAreTheAccepted /\ OwnersHoldAll
<1> SUFFICES ASSUME LoopInv PROVE OwnersAreTheAccepted /\ OwnersHoldAll
  OBVIOUS
<1>1. ASSUME NEW c \in input.claims, NEW d \in decisions, d.name = c.name, d.accepted,
             NEW z \in CanonicalZones(c)
      PROVE  z \in DOMAIN owner /\ owner[z] = c.name
  <2>1. c \in Accepted \cap Decided
    BY <1>1, AcceptedSoFar
  <2> QED BY <2>1 DEF LoopInv, OwnersSoFar
<1>2. ASSUME NEW c \in input.claims, NEW z \in CanonicalZones(c), z \in DOMAIN owner, owner[z] = c.name
      PROVE  \E d \in decisions : d.name = c.name /\ d.accepted
  <2>1. PICK w \in Accepted \cap Decided : z \in CanonicalZones(w)
    BY <1>2 DEF LoopInv, OwnersSoFar
  <2>2. w = c
    BY <1>2, <2>1, InputOrderly DEF LoopInv, OwnersSoFar, Decided, Orderly
  <2>3. Decide(c, input.claims, served, Domain) \in decisions
    BY <2>1, <2>2 DEF LoopInv
  <2> QED BY <2>1, <2>2, <2>3, DecisionOf, AcceptedSoFar
<1> QED BY <1>1, <1>2, NoZoneless DEF LoopInv, OwnersAreTheAccepted, OwnersHoldAll

LEMMA LoopDecides == LoopInv => AllDecided
<1> SUFFICES ASSUME LoopInv, Done PROVE decisions = CalledFor(input)
  BY DEF AllDecided
<1>1. Decided = input.claims
  BY DEF Done, Decided
<1> QED BY <1>1 DEF LoopInv, CalledFor, Resolve, served

\* Type correctness of the loops, for every input.
THEOREM LoopTypeCorrect == Spec => []TypeOK
BY LoopCorrect, LoopTyped, PTL

\* Whatever the routes and in whatever order the first loop meets them, a zone
\* handed out belongs to an accepted route that claims it, and every accepted
\* route has one.
THEOREM OwnersAlwaysAccepted == Spec => []OwnersAreTheAccepted
BY LoopCorrect, LoopOwners, PTL

\* And an accepted route holds all of its zones, at every moment.
THEOREM OwnersAlwaysHoldAll == Spec => []OwnersHoldAll
BY LoopCorrect, LoopOwners, PTL

\* The loops make the decisions that first come, first served calls for.
THEOREM DecidesAsCalledFor == Spec => []AllDecided
BY LoopCorrect, LoopDecides, PTL

\* Refinement: every decision is the one the whole input calls for from the
\* moment it is made, and none is taken back.
THEOREM KeepsThePromise == Spec => PromiseKept
<1>1. Init => Promise!Init
  BY DEF Init, Promise!Init
<1>2. LoopInv /\ [Next]_vars => [Promise!DecideOne]_<<input, decisions>>
  <2> SUFFICES ASSUME LoopInv, Next, ~UNCHANGED <<input, decisions>>
               PROVE  Promise!DecideOne
    BY DEF vars
  <2>1. LoopInv' /\ UNCHANGED input
    BY LoopSteps DEF Next, Classify, Allot
  <2>2. PICK d : decisions' = decisions \cup {d}
    BY DEF Next, Classify, Allot
  <2>3. d \in CalledFor(input)
    <3>1. \A e \in decisions' : e \in CalledFor(input)
      BY <2>1, SameInput DEF LoopInv, CalledFor, Resolve, served, Decided
    <3> QED BY <2>2, <3>1
  <2>4. d \notin decisions
    BY <2>1, <2>2
  <2> QED BY <2>1, <2>2, <2>3, <2>4 DEF Promise!DecideOne
<1> QED BY <1>1, <1>2, LoopCorrect, PTL DEF Spec, PromiseKept, Promise!Spec

-----------------------------------------------------------------------------
(* What a route is told does not depend on routes that come off worse.     *)

\* A decision depends on the winners older than the claim, and on whether it
\* is a winner itself.
LEMMA SameDecision ==
    ASSUME NEW c, NEW claims, NEW others, NEW s, NEW domain,
           LET V == Winners(Candidates(claims, s, domain))
               W == Winners(Candidates(others, s, domain))
           IN  /\ c \in V <=> c \in W
               /\ {v \in V : Older(v, c)} = {w \in W : Older(w, c)}
    PROVE  Decide(c, claims, s, domain) = Decide(c, others, s, domain)
BY DEF Decide, ConflictsOf

\* Without a route that did not win the winners are the same.
LEMMA WinnersWithout ==
    ASSUME NEW claims, Orderly(claims), NEW c \in claims, NEW s, NEW domain,
           c \notin Winners(Candidates(claims, s, domain))
    PROVE  Winners(Candidates(claims \ {c}, s, domain)) = Winners(Candidates(claims, s, domain))
<1> DEFINE C == Candidates(claims, s, domain)
           D == Candidates(claims \ {c}, s, domain)
<1>1. D = C \ {c} /\ Orderly(C) /\ Orderly(D)
  BY DEF Candidates, Orderly
<1> HIDE DEF C, D
<1>2. Winners(C) \in SUBSET D /\ Stable(Winners(C), C)
  BY <1>1, WinnersStable DEF C
<1>3. Stable(Winners(C), D)
  BY <1>1, <1>2 DEF Stable
<1> QED BY <1>1, <1>2, <1>3, WinnersStable DEF C, D

LEMMA LoopRejected == LoopInv => RejectedDoNotMatter
<1> SUFFICES ASSUME LoopInv, Done, NEW d \in decisions, ~d.accepted
             PROVE  decisions \ {d} =
                      Resolve({c \in input.claims : c.name # d.name}, input.existing, Domain)
  BY DEF RejectedDoNotMatter
<1>1. decisions = {Decide(c, input.claims, served, Domain) : c \in input.claims}
  BY LoopDecides DEF AllDecided, CalledFor, Resolve, served
<1>2. PICK c \in input.claims : d = Decide(c, input.claims, served, Domain)
  BY <1>1
<1>3. c.name = d.name /\ c \notin Accepted
  BY <1>2, DecisionOf, AcceptedSoFar
<1> DEFINE others == input.claims \ {c}
<1>4. Orderly(input.claims) /\ {e \in input.claims : e.name # d.name} = others
  BY <1>3, InputOrderly DEF LoopInv, Orderly
<1>5. \A e \in others :
         Decide(e, input.claims, served, Domain) = Decide(e, others, served, Domain)
  BY <1>3, <1>4, WinnersWithout, SameDecision DEF Accepted, Entrants
<1>6. decisions \ {d} = {Decide(e, input.claims, served, Domain) : e \in others}
  <2>1. \A e \in others : Decide(e, input.claims, served, Domain) # d
    BY <1>3, <1>4, DecisionOf
  <2> QED BY <1>1, <1>2, <2>1
<1> QED BY <1>4, <1>5, <1>6 DEF Resolve, served

LEMMA LoopYoungest == LoopInv => YoungestDoesNotMatter
<1> SUFFICES ASSUME LoopInv, Done, NEW c \in input.claims,
                    \A e \in input.claims \ {c} : Older(e, c)
             PROVE  {d \in decisions : d.name # c.name} =
                      Resolve(input.claims \ {c}, input.existing, Domain)
  BY DEF YoungestDoesNotMatter
<1> DEFINE others == input.claims \ {c}
           Left == Candidates(others, served, Domain)
<1>1. decisions = {Decide(e, input.claims, served, Domain) : e \in input.claims}
  BY LoopDecides DEF AllDecided, CalledFor, Resolve, served
<1>2. Left = Entrants \ {c} /\ Left \in SUBSET Entrants
  BY DEF Entrants, Candidates
<1>3. Orderly(input.claims) /\ Orderly(Entrants) /\ Entrants \subseteq input.claims
  BY InputOrderly DEF LoopInv
<1>4. \A e \in others : ~Older(c, e)
  BY <1>3, OlderOrder
<1>5. \A e \in Left : Down(Entrants, e) \subseteq Left
  BY <1>2, <1>3, <1>4 DEF Down
<1>6. Winners(Left) = Accepted \cap Left
  BY <1>2, <1>3, <1>5, WinnersOfOlder DEF Accepted
<1>7. Accepted \subseteq Entrants
  BY InputOrderly DEF LoopInv
<1>8. ASSUME NEW e \in others
      PROVE  Decide(e, input.claims, served, Domain) = Decide(e, others, served, Domain)
  <2>1. /\ e \in Accepted <=> e \in Winners(Left)
        /\ {v \in Accepted : Older(v, e)} = {w \in Winners(Left) : Older(w, e)}
    BY <1>2, <1>4, <1>6, <1>7
  <2> QED BY <2>1, SameDecision DEF Accepted, Entrants
<1>9. {d \in decisions : d.name # c.name} = {Decide(e, input.claims, served, Domain) : e \in others}
  BY <1>1, <1>3, DecisionOf DEF Orderly
<1> QED BY <1>8, <1>9 DEF Resolve, served

\* A rejected route owns nothing: without it every other route is told the
\* same, for every input.
THEOREM RejectedNeverMatter == Spec => []RejectedDoNotMatter
BY LoopCorrect, LoopRejected, PTL

\* First come, first served: without the youngest route every other route is
\* told the same, so a new route takes nothing from those that were there.
THEOREM YoungestNeverMatters == Spec => []YoungestDoesNotMatter
BY LoopCorrect, LoopYoungest, PTL
=============================================================================
