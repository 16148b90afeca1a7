-------------------------- MODULE ZoneClaimsProofs --------------------------
(***************************************************************************)
(* First come, first served has exactly one outcome: for every set of      *)
(* claims with distinct names, finite or not, there is one stable set of   *)
(* winners, so Winners names a set that exists.                            *)
(***************************************************************************)
EXTENDS ZoneClaims, NumberFacts

\* Claims as the API server makes them: at most one of each name.
Orderly(C) ==
    /\ \A c \in C : c.name \in Nat /\ c.created \in Nat
    /\ \A c, d \in C : c.name = d.name => c = d

\* Among any claims there is an oldest.
LEMMA OldestExists ==
    ASSUME NEW C, Orderly(C), NEW T \in SUBSET C, T # {}
    PROVE  \E c \in T : \A d \in T : ~Older(d, c)
<1> DEFINE Ages == {c.created : c \in T}
<1>1. Ages \in SUBSET Nat /\ Ages # {}
  BY DEF Orderly
<1>2. PICK t \in Ages : \A u \in Ages : t <= u
  BY <1>1, NatMinimum
<1> DEFINE Firsts == {c.name : c \in {d \in T : d.created = t}}
<1>3. Firsts \in SUBSET Nat /\ Firsts # {}
  BY <1>2 DEF Orderly
<1> HIDE DEF Firsts
<1>4. PICK n \in Firsts : \A m \in Firsts : n <= m
  BY <1>3, NatMinimum
<1>5. PICK c \in T : c.created = t /\ c.name = n
  BY <1>4 DEF Firsts
<1>6. ASSUME NEW d \in T PROVE ~Older(d, c)
  <2>1. t <= d.created /\ t \in Nat /\ d.created \in Nat
    BY <1>2, <1>1
  <2>2. d.created = t => n <= d.name /\ n \in Nat /\ d.name \in Nat
    BY <1>3, <1>4 DEF Firsts
  <2> QED BY <2>1, <2>2, <1>5 DEF Older
<1> QED BY <1>5, <1>6

LEMMA OlderOrder ==
    ASSUME NEW C, Orderly(C)
    PROVE  /\ \A c \in C : ~Older(c, c)
           /\ \A c, d, e \in C : Older(c, d) /\ Older(d, e) => Older(c, e)
           /\ \A c, d \in C : c = d \/ Older(c, d) \/ Older(d, c)
BY DEF Orderly, Older

\* Two stable sets over the same claims are the same set.
THEOREM StableUnique ==
    ASSUME NEW C, Orderly(C),
           NEW V \in SUBSET C, NEW W \in SUBSET C, Stable(V, C), Stable(W, C)
    PROVE  V = W
<1> DEFINE T == {c \in C : ~(c \in V <=> c \in W)}
<1> SUFFICES ASSUME T # {} PROVE FALSE
  OBVIOUS
<1>1. PICK c \in T : \A d \in T : ~Older(d, c)
  BY OldestExists
<1>2. \A d \in C : Older(d, c) => (d \in V <=> d \in W)
  BY <1>1
<1>3. (\E w \in V : Older(w, c) /\ Overlap(w, c)) <=> (\E w \in W : Older(w, c) /\ Overlap(w, c))
  BY <1>2
<1> QED BY <1>1, <1>3 DEF Stable

-----------------------------------------------------------------------------
(* Existence: the outcome on the claims up to c, for every c, glued.       *)

\* Claim c and the claims older than it.
Down(C, c) == {d \in C : d = c \/ Older(d, c)}

Good(A, C, c) == A \in SUBSET Down(C, c) /\ Stable(A, Down(C, c))

Glued(D, C) == {d \in D : \E A \in SUBSET C : Good(A, C, d) /\ d \in A}

LEMMA GoodRestricts ==
    ASSUME NEW C, Orderly(C), NEW d \in C, NEW e \in Down(C, d),
           NEW A \in SUBSET C, Good(A, C, d)
    PROVE  Good(A \cap Down(C, e), C, e)
<1>1. Down(C, e) \subseteq Down(C, d)
  BY OlderOrder DEF Down
<1>2. ASSUME NEW x \in Down(C, e)
      PROVE  \A w \in A : Older(w, x) => w \in Down(C, e)
  BY OlderOrder DEF Down
<1>3. \A x \in Down(C, e) : x \in A <=> ~ \E w \in A : Older(w, x) /\ Overlap(w, x)
  BY <1>1 DEF Good, Stable
<1> QED BY <1>2, <1>3 DEF Good, Stable

\* A good set up to d and the glued set agree up to d.
LEMMA GluedAgrees ==
    ASSUME NEW C, Orderly(C), NEW D \in SUBSET C,
           \A d \in D : Down(C, d) \subseteq D,
           NEW d \in D, NEW A \in SUBSET C, Good(A, C, d), NEW e \in Down(C, d)
    PROVE  e \in A <=> e \in Glued(D, C)
<1>1. Good(A \cap Down(C, e), C, e) /\ e \in C /\ e \in D /\ e \in Down(C, e)
  BY GoodRestricts DEF Down
<1>2. e \in A => e \in Glued(D, C)
  BY <1>1 DEF Glued
<1>3. ASSUME e \in Glued(D, C) PROVE e \in A
  <2>1. PICK B \in SUBSET C : Good(B, C, e) /\ e \in B
    BY <1>3 DEF Glued
  <2>2. Orderly(Down(C, e))
    BY DEF Orderly, Down
  <2>3. B = A \cap Down(C, e)
    BY <1>1, <2>1, <2>2, StableUnique DEF Good
  <2> QED BY <2>1, <2>3
<1> QED BY <1>2, <1>3

LEMMA GluedStable ==
    ASSUME NEW C, Orderly(C), NEW D \in SUBSET C,
           \A d \in D : Down(C, d) \subseteq D,
           \A d \in D : \E A \in SUBSET C : Good(A, C, d)
    PROVE  Stable(Glued(D, C), D)
<1> DEFINE W == Glued(D, C)
<1> SUFFICES ASSUME NEW d \in D
             PROVE  d \in W <=> ~ \E w \in W : Older(w, d) /\ Overlap(w, d)
  BY DEF Stable
<1>1. PICK A \in SUBSET C : Good(A, C, d)
  OBVIOUS
<1>2. \A e \in Down(C, d) : e \in A <=> e \in W
  BY <1>1, GluedAgrees
<1>3. d \in Down(C, d) /\ \A w \in C : Older(w, d) => w \in Down(C, d)
  BY DEF Down
<1>4. d \in A <=> ~ \E w \in A : Older(w, d) /\ Overlap(w, d)
  BY <1>1, <1>3 DEF Good, Stable
<1>5. W \subseteq C
  BY DEF Glued
<1> HIDE DEF W
<1> QED BY <1>2, <1>3, <1>4, <1>5

LEMMA GoodExists ==
    ASSUME NEW C, Orderly(C)
    PROVE  \A c \in C : \E A \in SUBSET C : Good(A, C, c)
<1> DEFINE T == {c \in C : ~ \E A \in SUBSET C : Good(A, C, c)}
<1> SUFFICES ASSUME T # {} PROVE FALSE
  OBVIOUS
<1>1. PICK c \in T : \A d \in T : ~Older(d, c)
  BY OldestExists
<1> DEFINE D == {d \in C : Older(d, c)}
           V == Glued(D, C)
           Blocked == \E w \in V : Older(w, c) /\ Overlap(w, c)
           A == IF Blocked THEN V ELSE V \cup {c}
<1>2. \A d \in D : Down(C, d) \subseteq D
  BY OlderOrder DEF Down
<1>3. Stable(V, D)
  BY <1>1, <1>2, GluedStable
<1>4. V \subseteq D
  BY DEF Glued
<1>5. c \notin D /\ \A d \in D : ~Older(c, d)
  BY OlderOrder
<1>6. Down(C, c) = D \cup {c}
  BY DEF Down
<1> HIDE DEF V, D
<1>7. ASSUME NEW d \in D
      PROVE  d \in A <=> ~ \E w \in A : Older(w, d) /\ Overlap(w, d)
  BY <1>3, <1>4, <1>5 DEF Stable
<1>8. c \in A <=> ~ \E w \in A : Older(w, c) /\ Overlap(w, c)
  BY <1>4, <1>5, OlderOrder
<1>9. A \in SUBSET (D \cup {c})
  BY <1>4
<1>10. D \cup {c} \subseteq C
  BY DEF D
<1> HIDE DEF A
<1>11. Good(A, C, c)
  BY <1>6, <1>7, <1>8, <1>9 DEF Good, Stable
<1> QED BY <1>1, <1>9, <1>10, <1>11

\* First come, first served decides every set of claims: Winners is a stable
\* set of winners, the only one.
THEOREM WinnersStable ==
    ASSUME NEW C, Orderly(C)
    PROVE  /\ Winners(C) \in SUBSET C
           /\ Stable(Winners(C), C)
           /\ \A W \in SUBSET C : Stable(W, C) => W = Winners(C)
<1>1. Stable(Glued(C, C), C) /\ Glued(C, C) \in SUBSET C
  BY GoodExists, GluedStable DEF Down, Glued
<1>2. Winners(C) \in SUBSET C /\ Stable(Winners(C), C)
  BY <1>1 DEF Winners
<1> QED BY <1>2, StableUnique

\* No two winners claim one zone (conflict.Resolve's promise to render).
THEOREM WinnersDisjoint ==
    ASSUME NEW C, Orderly(C),
           NEW c \in Winners(C), NEW d \in Winners(C), Overlap(c, d)
    PROVE  c = d
<1>1. Stable(Winners(C), C) /\ c \in C /\ d \in C
  BY WinnersStable
<1>2. ~Older(c, d) /\ ~Older(d, c)
  BY <1>1 DEF Stable, Overlap
<1> QED BY <1>1, <1>2, OlderOrder

\* A younger claim never changes what happened to older ones.
THEOREM WinnersOfOlder ==
    ASSUME NEW C, Orderly(C), NEW D \in SUBSET C,
           \A d \in D : Down(C, d) \subseteq D
    PROVE  Winners(D) = Winners(C) \cap D
<1>1. Stable(Winners(C), C) /\ Winners(C) \in SUBSET C
  BY WinnersStable
<1>2. \A d \in D : \A w \in C : Older(w, d) => w \in D
  BY DEF Down
<1>3. Stable(Winners(C) \cap D, D)
  BY <1>1, <1>2 DEF Stable
<1>4. Orderly(D)
  BY DEF Orderly
<1> QED BY <1>3, <1>4, WinnersStable
=============================================================================
