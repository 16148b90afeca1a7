------------------------ MODULE InspectionScanProofs ------------------------
(***************************************************************************)
(* The scanner returns what its sources call for, for texts of any length  *)
(* and any number of entries.                                              *)
(*                                                                         *)
(* The invariant says what the locals hold on every line: what was noted   *)
(* are the lines before it, and the result is that of the sources already  *)
(* through, which come before all others in the order of their names.      *)
(***************************************************************************)
EXTENDS InspectionScan, Integers, NumberFacts

-----------------------------------------------------------------------------
(* Lines and depths.                                                       *)

OfKind(lines, kinds, k) == {j \in 1 .. k - 1 : lines[j].kind \in kinds}

LEMMA CountedTo ==
    ASSUME NEW lines, NEW kinds, NEW k \in Nat \ {0}
    PROVE  /\ Cardinality(OfKind(lines, kinds, k)) \in Nat
           /\ lines[k].kind \in kinds =>
                 Cardinality(OfKind(lines, kinds, k + 1)) = Cardinality(OfKind(lines, kinds, k)) + 1
           /\ lines[k].kind \notin kinds =>
                 Cardinality(OfKind(lines, kinds, k + 1)) = Cardinality(OfKind(lines, kinds, k))
<1> DEFINE before == OfKind(lines, kinds, k)
<1>1. before \in SUBSET (1 .. k - 1)
  BY DEF OfKind
<1>2. lines[k].kind \in kinds => OfKind(lines, kinds, k + 1) = before \cup {k}
  BY DEF OfKind
<1>3. lines[k].kind \notin kinds => OfKind(lines, kinds, k + 1) = before
  BY DEF OfKind
<1> HIDE DEF before
<1>4. Cardinality(before) \in Nat /\ Cardinality(before \cup {k}) = Cardinality(before) + 1
  BY <1>1, OneMoreCounted
<1> QED BY <1>2, <1>3, <1>4 DEF before

LEMMA DepthSteps ==
    ASSUME NEW lines, NEW k \in Nat \ {0}
    PROVE  /\ DepthAt(lines, 1) = 0
           /\ DepthAt(lines, k) \in Int
           /\ lines[k].kind \in {"open", "snippet"} => DepthAt(lines, k + 1) = DepthAt(lines, k) + 1
           /\ lines[k].kind = "close" => DepthAt(lines, k + 1) = DepthAt(lines, k) - 1
           /\ lines[k].kind = "import" => DepthAt(lines, k + 1) = DepthAt(lines, k)
<1> DEFINE opened(j) == Cardinality(OfKind(lines, {"open", "snippet"}, j))
           closed(j) == Cardinality(OfKind(lines, {"close"}, j))
<1>1. \A j : DepthAt(lines, j) = opened(j) - closed(j)
  BY DEF DepthAt, OfKind
<1>2. /\ opened(k) \in Nat
      /\ lines[k].kind \in {"open", "snippet"} => opened(k + 1) = opened(k) + 1
      /\ lines[k].kind \notin {"open", "snippet"} => opened(k + 1) = opened(k)
  BY CountedTo
<1>3. /\ closed(k) \in Nat
      /\ lines[k].kind \in {"close"} => closed(k + 1) = closed(k) + 1
      /\ lines[k].kind \notin {"close"} => closed(k + 1) = closed(k)
  BY CountedTo
<1>4. opened(1) = 0 /\ closed(1) = 0
  <2>1. \A kinds : OfKind(lines, kinds, 1) = {}
    BY DEF OfKind
  <2> QED BY <2>1, NothingCounted
<1> HIDE DEF opened, closed
<1> QED BY <1>1, <1>2, <1>3, <1>4

-----------------------------------------------------------------------------
(* One source: what the scanner holds before line k.                       *)

Noted(lines, k) ==
    {[line |-> j, pattern |-> lines[j].pattern, depth |-> DepthAt(lines, j)] :
        j \in {i \in 1 .. k - 1 : lines[i].kind = "import"}}

NamesBefore(lines, k) == {lines[j].name : j \in {i \in AtTop(lines, "snippet") : i < k}}

Scanned(lines, k, d, ims, names) ==
    /\ k \in 1 .. Len(lines) + 1
    /\ d = DepthAt(lines, k)
    /\ ims = Noted(lines, k)
    /\ names = NamesBefore(lines, k)

\* The imports inspect has to account for.
ForeignLines(lines) == {k \in AtTop(lines, "import") : lines[k].pattern \notin SnippetsOf(lines)}

LEMMA ScanBegins ==
    ASSUME NEW lines \in Seq(LineForms)
    PROVE  Scanned(lines, 1, 0, {}, {})
<1>1. Len(lines) \in Nat /\ DOMAIN lines = 1 .. Len(lines)
  OBVIOUS
<1>2. DepthAt(lines, 1) = 0
  BY DepthSteps
<1>3. Noted(lines, 1) = {}
  BY DEF Noted
<1>4. NamesBefore(lines, 1) = {}
  BY <1>1 DEF NamesBefore, AtTop
<1> QED BY <1>1, <1>2, <1>3, <1>4 DEF Scanned

LEMMA ScanGoesOn ==
    ASSUME NEW lines \in Seq(LineForms), NEW k, NEW d, NEW ims, NEW names,
           Scanned(lines, k, d, ims, names), k <= Len(lines)
    PROVE  /\ lines[k].kind = "open" => Scanned(lines, k + 1, d + 1, ims, names)
           /\ lines[k].kind = "close" => Scanned(lines, k + 1, d - 1, ims, names)
           /\ lines[k].kind = "snippet" =>
                Scanned(lines, k + 1, d + 1, ims, IF d = 0 THEN names \cup {lines[k].name} ELSE names)
           /\ lines[k].kind = "import" =>
                Scanned(lines, k + 1, d,
                        ims \cup {[line |-> k, pattern |-> lines[k].pattern, depth |-> d]}, names)
<1>1. /\ Len(lines) \in Nat /\ DOMAIN lines = 1 .. Len(lines)
      /\ k \in DOMAIN lines /\ k \in Nat \ {0} /\ k + 1 \in 1 .. Len(lines) + 1
  BY DEF Scanned
<1>2. /\ lines[k].kind \in {"open", "snippet"} => DepthAt(lines, k + 1) = DepthAt(lines, k) + 1
      /\ lines[k].kind = "close" => DepthAt(lines, k + 1) = DepthAt(lines, k) - 1
      /\ lines[k].kind = "import" => DepthAt(lines, k + 1) = DepthAt(lines, k)
  BY <1>1, DepthSteps
<1>3. /\ lines[k].kind # "import" => Noted(lines, k + 1) = Noted(lines, k)
      /\ lines[k].kind = "import" =>
            Noted(lines, k + 1) = Noted(lines, k)
              \cup {[line |-> k, pattern |-> lines[k].pattern, depth |-> DepthAt(lines, k)]}
  <2> DEFINE upTo(n) == {i \in 1 .. n - 1 : lines[i].kind = "import"}
             note(j) == [line |-> j, pattern |-> lines[j].pattern, depth |-> DepthAt(lines, j)]
  <2>1. lines[k].kind # "import" => upTo(k + 1) = upTo(k)
    BY <1>1
  <2>2. lines[k].kind = "import" => upTo(k + 1) = upTo(k) \cup {k}
    BY <1>1
  <2>3. \A n : Noted(lines, n) = {note(j) : j \in upTo(n)}
    BY DEF Noted
  <2> HIDE DEF upTo
  <2>4. lines[k].kind = "import" => Noted(lines, k + 1) = Noted(lines, k) \cup {note(k)}
    <3> HIDE DEF note
    <3> QED BY <2>2, <2>3
  <2> QED BY <2>1, <2>3, <2>4
<1>4. /\ ~(lines[k].kind = "snippet" /\ d = 0) => NamesBefore(lines, k + 1) = NamesBefore(lines, k)
      /\ lines[k].kind = "snippet" /\ d = 0 =>
            NamesBefore(lines, k + 1) = NamesBefore(lines, k) \cup {lines[k].name}
  <2> DEFINE upTo(n) == {i \in AtTop(lines, "snippet") : i < n}
  <2>1. \A i \in DOMAIN lines : i < k + 1 <=> i < k \/ i = k
    BY <1>1
  <2>2. k \in AtTop(lines, "snippet") <=> lines[k].kind = "snippet" /\ d = 0
    BY <1>1 DEF AtTop, Scanned
  <2>3. AtTop(lines, "snippet") \subseteq DOMAIN lines
    BY DEF AtTop
  <2>4. k \notin AtTop(lines, "snippet") => upTo(k + 1) = upTo(k)
    BY <2>1, <2>3
  <2>5. k \in AtTop(lines, "snippet") => upTo(k + 1) = upTo(k) \cup {k}
    BY <1>1, <2>1, <2>3
  <2>6. \A n : NamesBefore(lines, n) = {lines[j].name : j \in upTo(n)}
    BY DEF NamesBefore
  <2> HIDE DEF upTo
  <2>7. ~(lines[k].kind = "snippet" /\ d = 0) => NamesBefore(lines, k + 1) = NamesBefore(lines, k)
    BY <2>2, <2>4, <2>6
  <2>8. ASSUME lines[k].kind = "snippet" /\ d = 0
        PROVE  NamesBefore(lines, k + 1) = NamesBefore(lines, k) \cup {lines[k].name}
    <3>1. upTo(k + 1) = upTo(k) \cup {k}
      BY <2>2, <2>5, <2>8
    <3> QED BY <2>6, <3>1
  <2> QED BY <2>7, <2>8
<1> QED BY <1>1, <1>2, <1>3, <1>4 DEF Scanned

\* At its end the scanner has what a whole source has.
LEMMA ScanEnds ==
    ASSUME NEW lines \in Seq(LineForms), NEW k, NEW d, NEW ims, NEW names,
           Scanned(lines, k, d, ims, names), k > Len(lines)
    PROVE  \A i : i \in ims /\ i.depth = 0 /\ i.pattern \notin names
              <=> \E j \in ForeignLines(lines) :
                     i = [line |-> j, pattern |-> lines[j].pattern, depth |-> 0]
<1>1. Len(lines) \in Nat /\ DOMAIN lines = 1 .. Len(lines) /\ k = Len(lines) + 1
  BY DEF Scanned
<1>2. names = SnippetsOf(lines)
  <2>1. {i \in AtTop(lines, "snippet") : i < k} = AtTop(lines, "snippet")
    BY <1>1 DEF AtTop
  <2> QED BY <2>1 DEF Scanned, NamesBefore, SnippetsOf
<1>3. {i \in 1 .. k - 1 : lines[i].kind = "import"} = {i \in DOMAIN lines : lines[i].kind = "import"}
  BY <1>1
<1>4. \A i : i \in ims <=> \E j \in DOMAIN lines :
          /\ lines[j].kind = "import"
          /\ i = [line |-> j, pattern |-> lines[j].pattern, depth |-> DepthAt(lines, j)]
  BY <1>3 DEF Scanned, Noted
<1> QED BY <1>2, <1>4 DEF ForeignLines, AtTop


-----------------------------------------------------------------------------
(* All sources.                                                            *)

LinesIn(i, s) == IF s = CorefileSource THEN i.corefile ELSE i.servers[s]
SourcesIn(i) == {CorefileSource} \cup ((DOMAIN i.servers \cap ServerKeys) \ {ManagedKey})
ListenersIn(i, s) == {Listener(k) : k \in BlockKeys(LinesIn(i, s))}
AcceptedIn(i, s) == Parses(LinesIn(i, s)) /\ \A k \in BlockKeys(LinesIn(i, s)) : KeyOK(k)

\* The import on line k of source s says that the wiring is there.
Wires(i, s, k) == s = CorefileSource /\ LinesIn(i, s)[k].pattern = WiringImport

Report(i, s, k) == [source |-> s, line |-> k, pattern |-> LinesIn(i, s)[k].pattern]

\* What the sources of one set call for.
ListenersFound(i, through, f) ==
    /\ \A l : l \in DOMAIN f <=> \E s \in through : l \in ListenersIn(i, s)
    /\ \A l \in DOMAIN f :
          /\ f[l] \in through /\ l \in ListenersIn(i, f[l])
          /\ \A s \in through : s < f[l] => l \notin ListenersIn(i, s)

ImportsFound(i, through, un, wi) ==
    /\ wi <=> CorefileSource \in through
              /\ \E k \in ForeignLines(i.corefile) : Wires(i, CorefileSource, k)
    /\ \A u : u \in un <=> \E s \in through : \E k \in ForeignLines(LinesIn(i, s)) :
                              ~Wires(i, s, k) /\ u = Report(i, s, k)

\* The sources the result covers.
Through == IF state = "done" THEN SourcesIn(input) ELSE SourcesIn(input) \ ({source} \cup todo)

InOrder ==
    /\ \A t \in todo : source < t
    /\ \A s \in SourcesIn(input) \ ({source} \cup todo) : s < source

ScanInv ==
    /\ input \in Inputs
    /\ todo \subseteq SourcesIn(input) /\ source \in SourcesIn(input) \ todo
    /\ state \in {"scanning", "done", "failed"} /\ wired \in BOOLEAN
    /\ InOrder
    /\ Scanned(LinesIn(input, source), at, depth, imports, snippets)
    /\ ListenersFound(input, Through, found)
    /\ ImportsFound(input, Through, unresolved, wired)
    /\ \A s \in Through : AcceptedIn(input, s)
    /\ state = "done" => todo = {}
    /\ state = "failed" => ~AcceptedIn(input, source)

LEMMA SameSources ==
    /\ \A s : LinesOf(s) = LinesIn(input, s)
    /\ Sources = SourcesIn(input)
    /\ \A s : s \in SourcesIn(input) => s \in Nat
    /\ Entries = SourcesIn(input) \ {CorefileSource}
<1>1. CorefileSource \in Nat /\ CorefileSource \notin ServerKeys /\ ServerKeys \subseteq Nat
  BY KeysAssumption DEF CorefileSource
<1>2. \A s : LinesOf(s) = LinesIn(input, s)
  BY DEF LinesOf, LinesIn
<1>3. Sources = SourcesIn(input) /\ Entries = SourcesIn(input) \ {CorefileSource}
  BY <1>1 DEF Sources, Entries, SourcesIn
<1>4. \A s : s \in SourcesIn(input) => s \in Nat
  BY <1>1 DEF SourcesIn
<1> QED BY <1>2, <1>3, <1>4

LEMMA LinesTyped ==
    ASSUME NEW i \in Inputs, NEW s \in SourcesIn(i)
    PROVE  Bracketed(LinesIn(i, s)) /\ LinesIn(i, s) \in Seq(LineForms)
BY InputsAssumption DEF SourcesIn, LinesIn, Bracketed

LEMMA InitScans == Init => ScanInv
<1> SUFFICES ASSUME Init PROVE ScanInv
  OBVIOUS
<1>1. input \in Inputs /\ source = CorefileSource /\ at = 1 /\ depth = 0
      /\ imports = {} /\ snippets = {} /\ state = "scanning" /\ wired = FALSE
      /\ todo = SourcesIn(input) \ {CorefileSource} /\ unresolved = {} /\ DOMAIN found = {}
  <2>1. CorefileSource \notin ServerKeys
    BY KeysAssumption
  <2> QED BY <2>1 DEF Init, SourcesIn
<1>2. Through = {} /\ source \in SourcesIn(input)
  BY <1>1 DEF Through, SourcesIn
<1>3. InOrder
  <2>1. \A t \in todo : t \in Nat /\ t # 0
    BY <1>1, SameSources DEF CorefileSource
  <2>2. \A t \in todo : source < t
    BY <1>1, <2>1 DEF CorefileSource
  <2> QED BY <1>1, <2>2 DEF InOrder
<1>4. Scanned(LinesIn(input, source), at, depth, imports, snippets)
  BY <1>1, <1>2, LinesTyped, ScanBegins
<1>5. ListenersFound(input, Through, found) /\ ImportsFound(input, Through, unresolved, wired)
  BY <1>1, <1>2 DEF ListenersFound, ImportsFound
<1> QED BY <1>1, <1>2, <1>3, <1>4, <1>5 DEF ScanInv

LEMMA LineScanned ==
    ASSUME ScanInv, NextLine,
           Scanned(LinesIn(input, source), at + 1, depth', imports', snippets')
    PROVE  ScanInv'
<1>1. UNCHANGED <<input, todo, source, found, unresolved, wired, state>> /\ at' = at + 1
  BY DEF NextLine, result
<1>2. Through' = Through /\ InOrder'
  BY <1>1 DEF Through, InOrder, ScanInv
<1> QED BY <1>1, <1>2 DEF ScanInv

LEMMA LineSteps ==
    ScanInv /\ (OpenBlock \/ CloseBlock \/ OpenSnippet \/ NoteImport) => ScanInv'
<1> SUFFICES ASSUME ScanInv, OpenBlock \/ CloseBlock \/ OpenSnippet \/ NoteImport PROVE ScanInv'
  OBVIOUS
<1> DEFINE lines == LinesIn(input, source)
<1>1. lines \in Seq(LineForms) /\ Scanned(lines, at, depth, imports, snippets)
  BY LinesTyped DEF ScanInv
<1>2. NextLine /\ at <= Len(lines)
  BY SameSources DEF OpenBlock, CloseBlock, OpenSnippet, NoteImport, On
<1> HIDE DEF lines
<1>3. /\ lines[at].kind = "open" => Scanned(lines, at + 1, depth + 1, imports, snippets)
      /\ lines[at].kind = "close" => Scanned(lines, at + 1, depth - 1, imports, snippets)
      /\ lines[at].kind = "snippet" =>
           Scanned(lines, at + 1, depth + 1, imports,
                   IF depth = 0 THEN snippets \cup {lines[at].name} ELSE snippets)
      /\ lines[at].kind = "import" =>
           Scanned(lines, at + 1, depth,
                   imports \cup {[line |-> at, pattern |-> lines[at].pattern, depth |-> depth]}, snippets)
  BY <1>1, <1>2, ScanGoesOn
<1>4. Scanned(lines, at + 1, depth', imports', snippets')
  <2>1. LinesOf(source) = lines
    BY SameSources DEF lines
  <2>2. CASE OpenBlock
    BY <1>3, <2>1, <2>2 DEF OpenBlock, On
  <2>3. CASE CloseBlock
    BY <1>3, <2>1, <2>3 DEF CloseBlock, On
  <2>4. CASE OpenSnippet
    BY <1>3, <2>1, <2>4 DEF OpenSnippet, On, Line
  <2>5. CASE NoteImport
    BY <1>3, <2>1, <2>5 DEF NoteImport, On, Line
  <2> QED BY <2>2, <2>3, <2>4, <2>5
<1> QED BY <1>2, <1>4, LineScanned DEF lines


-----------------------------------------------------------------------------
(* The end of a source.                                                    *)

LEMMA AcceptedHere == Accepted <=> AcceptedIn(input, source)
BY SameSources DEF Accepted, AcceptedIn

LEMMA RefuseStep == ScanInv /\ Refuse => ScanInv'
<1> SUFFICES ASSUME ScanInv, Refuse PROVE ScanInv'
  OBVIOUS
<1>1. /\ UNCHANGED <<input, todo, source, at, depth, imports, snippets, found, unresolved, wired>>
      /\ state = "scanning" /\ state' = "failed" /\ ~AcceptedIn(input, source)
  BY AcceptedHere DEF Refuse, AtEnd, scan, result
<1>2. Through' = Through /\ InOrder'
  BY <1>1 DEF Through, InOrder, ScanInv
<1> QED BY <1>1, <1>2 DEF ScanInv

LEMMA TakeAdds ==
    ASSUME ScanInv, Take
    PROVE  LET through == SourcesIn(input) \ todo
           IN  /\ ListenersFound(input, through, found')
               /\ ImportsFound(input, through, unresolved', wired')
               /\ \A s \in through : AcceptedIn(input, s)
<1> DEFINE through == SourcesIn(input) \ todo
<1>1. /\ through = Through \cup {source} /\ source \notin Through
      /\ \A s \in Through : s < source /\ s \in Nat /\ source \in Nat
      /\ state = "scanning"
  BY SameSources DEF ScanInv, Take, AtEnd, Through, InOrder
<1>2. /\ ListenersFound(input, Through, found) /\ ImportsFound(input, Through, unresolved, wired)
      /\ \A s \in Through : AcceptedIn(input, s)
  BY DEF ScanInv
<1> HIDE DEF through
<1>3. New = ListenersIn(input, source)
  BY SameSources DEF New, ListenersIn
<1>4. ListenersFound(input, through, found')
  <2>1. /\ DOMAIN found' = DOMAIN found \cup ListenersIn(input, source)
        /\ \A l \in DOMAIN found' :
              found'[l] = IF l \in DOMAIN found THEN found[l] ELSE source
    BY <1>3 DEF Take, AddListeners
  <2>2. \A l : l \in DOMAIN found' <=> \E s \in through : l \in ListenersIn(input, s)
    BY <1>1, <1>2, <2>1 DEF ListenersFound
  <2>3. ASSUME NEW l \in DOMAIN found'
        PROVE  /\ found'[l] \in through /\ l \in ListenersIn(input, found'[l])
               /\ \A s \in through : s < found'[l] => l \notin ListenersIn(input, s)
    <3>1. CASE l \in DOMAIN found
      <4>1. found'[l] = found[l] /\ found[l] \in Through
        BY <1>2, <2>1, <2>3, <3>1 DEF ListenersFound
      <4>2. ~(source < found[l])
        BY <1>1, <4>1
      <4> QED BY <1>1, <1>2, <3>1, <4>1, <4>2 DEF ListenersFound
    <3>2. CASE l \notin DOMAIN found
      <4>1. found'[l] = source /\ l \in ListenersIn(input, source)
        BY <2>1, <2>3, <3>2
      <4>2. \A s \in Through : l \notin ListenersIn(input, s)
        BY <1>2, <3>2 DEF ListenersFound
      <4>3. ~(source < source)
        BY SameSources DEF ScanInv
      <4> QED BY <1>1, <4>1, <4>2, <4>3
    <3> QED BY <3>1, <3>2
  <2> QED BY <2>2, <2>3 DEF ListenersFound
<1>5. ImportsFound(input, through, unresolved', wired')
  <2> DEFINE lines == LinesIn(input, source)
  <2>1. lines \in Seq(LineForms) /\ Scanned(lines, at, depth, imports, snippets) /\ at > Len(lines)
    BY LinesTyped, SameSources DEF ScanInv, Take, AtEnd
  <2> HIDE DEF lines
  <2>2. \A i : i \in Foreign <=> \E j \in ForeignLines(lines) :
                  i = [line |-> j, pattern |-> lines[j].pattern, depth |-> 0]
    BY <2>1, ScanEnds DEF Foreign
  <2> DEFINE note(j) == [line |-> j, pattern |-> lines[j].pattern, depth |-> 0]
  <2>3. \A k : /\ IsWiring(note(k)) <=> Wires(input, source, k)
               /\ [source |-> source, line |-> note(k).line, pattern |-> note(k).pattern]
                    = Report(input, source, k)
    BY DEF IsWiring, Wires, Report, lines
  <2>4. \A i : i \in Foreign <=> \E k \in ForeignLines(lines) : i = note(k)
    BY <2>2
  <2> HIDE DEF note
  <2>5. wired' <=> wired \/ \E k \in ForeignLines(lines) : Wires(input, source, k)
    <3>1. wired' <=> wired \/ \E i \in Foreign : IsWiring(i)
      BY DEF Take, ClassifyImports
    <3> QED BY <2>3, <2>4, <3>1
  <2>6. \A u : u \in unresolved' <=>
            u \in unresolved \/ \E k \in ForeignLines(lines) :
                                   ~Wires(input, source, k) /\ u = Report(input, source, k)
    <3>1. \A u : u \in unresolved' <=>
              u \in unresolved \/ \E i \in Foreign :
                 ~IsWiring(i) /\ u = [source |-> source, line |-> i.line, pattern |-> i.pattern]
      BY DEF Take, ClassifyImports
    <3> QED BY <2>3, <2>4, <3>1
  <2>7. wired' <=> CorefileSource \in through
                   /\ \E k \in ForeignLines(input.corefile) : Wires(input, CorefileSource, k)
    BY <1>1, <1>2, <2>5 DEF ImportsFound, Wires, lines, LinesIn
  <2>8. \A u : u \in unresolved' <=>
            \E s \in through : \E k \in ForeignLines(LinesIn(input, s)) :
               ~Wires(input, s, k) /\ u = Report(input, s, k)
    BY <1>1, <1>2, <2>6 DEF ImportsFound, lines
  <2> QED BY <2>7, <2>8 DEF ImportsFound
<1>6. \A s \in through : AcceptedIn(input, s)
  BY <1>1, <1>2, AcceptedHere DEF Take
<1> QED BY <1>4, <1>5, <1>6 DEF through

LEMMA TakeStep == ScanInv /\ Take => ScanInv'
<1> SUFFICES ASSUME ScanInv, Take PROVE ScanInv'
  OBVIOUS
<1> DEFINE through == SourcesIn(input) \ todo
<1>1. /\ ListenersFound(input, through, found')
      /\ ImportsFound(input, through, unresolved', wired')
      /\ \A s \in through : AcceptedIn(input, s)
  BY TakeAdds
<1>2. input' = input /\ input \in Inputs /\ state = "scanning" /\ wired' \in BOOLEAN
  BY DEF ScanInv, Take, AtEnd, ClassifyImports
<1>3. CASE todo = {} /\ state' = "done" /\ UNCHANGED <<todo, scan>>
  <2>1. UNCHANGED <<source, at, depth, imports, snippets>>
    BY <1>3 DEF scan
  <2>2. Through' = through /\ InOrder'
    BY <1>2, <1>3, <2>1 DEF Through, InOrder, ScanInv
  <2> QED BY <1>1, <1>2, <1>3, <2>1, <2>2 DEF ScanInv
<1>4. ASSUME NEW s \in todo, \A t \in todo : s <= t,
             todo' = todo \ {s}, source' = s, at' = 1, depth' = 0,
             imports' = {}, snippets' = {}, state' = state
      PROVE  ScanInv'
  <2>1. s \in SourcesIn(input) /\ todo \subseteq SourcesIn(input) /\ s \in Nat
        /\ \A t \in SourcesIn(input) : t \in Nat
    BY SameSources DEF ScanInv
  <2>2. Through' = through
    BY <1>2, <1>4, <2>1 DEF Through
  <2>3. InOrder'
    <3>1. \A t \in todo \ {s} : s < t
      BY <1>4, <2>1
    <3>2. ASSUME NEW t \in SourcesIn(input) \ ({s} \cup (todo \ {s})) PROVE t < s
      <4>1. t = source \/ t \in SourcesIn(input) \ ({source} \cup todo)
        BY <3>2
      <4>2. source < s /\ (t = source \/ t < source) /\ source \in Nat /\ t \in Nat
        BY <2>1, <4>1 DEF ScanInv, InOrder
      <4> QED BY <2>1, <4>2
    <3> QED BY <1>2, <1>4, <3>1, <3>2 DEF InOrder
  <2>4. Scanned(LinesIn(input, s), 1, 0, {}, {})
    BY <1>2, <2>1, LinesTyped, ScanBegins
  <2> QED BY <1>1, <1>2, <1>4, <2>1, <2>2, <2>3, <2>4 DEF ScanInv
<1> QED BY <1>3, <1>4 DEF Take, GoOn

LEMMA ScanStep == ScanInv /\ [Next]_vars => ScanInv'
<1>1. ScanInv /\ UNCHANGED vars => ScanInv'
  <2> SUFFICES ASSUME ScanInv, UNCHANGED vars PROVE ScanInv'
    OBVIOUS
  <2>1. UNCHANGED <<input, todo, source, at, depth, imports, snippets, found, unresolved, wired, state>>
    BY DEF vars, scan, result
  <2>2. Through' = Through /\ InOrder'
    BY <2>1 DEF Through, InOrder, ScanInv
  <2> QED BY <2>1, <2>2 DEF ScanInv
<1> QED BY <1>1, LineSteps, RefuseStep, TakeStep DEF Next


-----------------------------------------------------------------------------
(* What follows.                                                           *)

LEMMA ScanTyped == ScanInv => TypeOK
<1> SUFFICES ASSUME ScanInv PROVE TypeOK
  OBVIOUS
<1>1. /\ todo \subseteq SourcesIn(input) /\ source \in SourcesIn(input) \ todo
      /\ Scanned(LinesOf(source), at, depth, imports, snippets)
      /\ Bracketed(LinesOf(source)) /\ LinesOf(source) \in Seq(LineForms)
      /\ state \in {"scanning", "done", "failed"} /\ wired \in BOOLEAN
  BY SameSources, LinesTyped DEF ScanInv
<1>2. todo \subseteq Entries /\ source \in Sources \ todo
  <2>1. CorefileSource \notin todo
    <3>1. CorefileSource \in SourcesIn(input) /\ source \in Nat
      BY <1>1, SameSources DEF SourcesIn
    <3>2. ~(source < CorefileSource)
      BY <3>1 DEF CorefileSource
    <3> QED BY <3>1, <3>2 DEF ScanInv, InOrder
  <2> QED BY <1>1, <2>1, SameSources
<1>3. depth = DepthAt(LinesOf(source), at) /\ depth >= 0
  BY <1>1 DEF Scanned, Bracketed
<1>4. \A i \in imports : i.line < at /\ i.depth = DepthAt(LinesOf(source), i.line)
  <2>1. at \in Nat /\ \A j \in 1 .. at - 1 : j < at
    BY <1>1 DEF Scanned
  <2> QED BY <1>1, <2>1 DEF Scanned, Noted
<1>5. \A i \in unresolved : i.line \in DOMAIN LinesOf(i.source)
  BY SameSources DEF ScanInv, ImportsFound, Report, ForeignLines, AtTop
<1> QED BY <1>1, <1>2, <1>3, <1>4, <1>5 DEF TypeOK

LEMMA FirstBlamed == ScanInv => FirstSourceBlamed
<1> SUFFICES ASSUME ScanInv, NEW l \in DOMAIN found
             PROVE  /\ \E k \in BlockKeys(LinesOf(found[l])) : Listener(k) = l
                    /\ \A s \in Sources : s < found[l] =>
                          \A k \in BlockKeys(LinesOf(s)) : Listener(k) # l
  BY DEF FirstSourceBlamed
<1>1. /\ found[l] \in Through /\ l \in ListenersIn(input, found[l])
      /\ \A s \in Through : s < found[l] => l \notin ListenersIn(input, s)
  BY DEF ScanInv, ListenersFound
<1>2. ASSUME NEW s \in SourcesIn(input), s < found[l] PROVE s \in Through
  <2>1. s \in Nat /\ source \in Nat /\ found[l] \in Nat
    BY <1>1, SameSources DEF ScanInv, Through
  <2>2. CASE state # "done"
    <3>1. found[l] < source
      BY <1>1, <2>2 DEF ScanInv, InOrder, Through
    <3>2. s # source /\ (s \in todo => source < s)
      BY <1>2, <2>1, <3>1 DEF ScanInv, InOrder
    <3> QED BY <1>2, <2>1, <2>2, <3>1, <3>2 DEF Through
  <2> QED BY <2>2 DEF Through
<1> QED BY <1>1, <1>2, SameSources DEF ListenersIn

\* Texts as wholes, and their lines.
LEMMA WholeTexts ==
    /\ \A lines, p : p \in TextOf(lines).imports <=>
          \E k \in ForeignLines(lines) : lines[k].pattern = p
    /\ \A lines : TextOf(lines).wellFormed = Parses(lines) /\ TextOf(lines).keys = BlockKeys(lines)
    /\ \A s : Inspectable(TextOf(LinesIn(input, s))) <=> AcceptedIn(input, s)
    /\ Inspectable(EntriesText) <=> \A s \in Entries : AcceptedIn(input, s)
    /\ EntriesText.keys = UNION {TextOf(LinesOf(s)).keys : s \in Entries}
    /\ EntriesText.imports = UNION {TextOf(LinesOf(s)).imports : s \in Entries}
<1>1. \A lines, p : p \in TextOf(lines).imports <=>
          \E k \in ForeignLines(lines) : lines[k].pattern = p
  BY DEF TextOf, ForeignLines
<1>2. \A lines : TextOf(lines).wellFormed = Parses(lines) /\ TextOf(lines).keys = BlockKeys(lines)
  BY DEF TextOf
<1>3. \A s : Inspectable(TextOf(LinesIn(input, s))) <=> AcceptedIn(input, s)
  BY <1>2 DEF Inspectable, AcceptedIn
<1>4. /\ EntriesText.wellFormed = \A s \in Entries : TextOf(LinesOf(s)).wellFormed
      /\ EntriesText.keys = UNION {TextOf(LinesOf(s)).keys : s \in Entries}
      /\ EntriesText.imports = UNION {TextOf(LinesOf(s)).imports : s \in Entries}
  BY DEF EntriesText
<1>5. Inspectable(EntriesText) <=> \A s \in Entries : AcceptedIn(input, s)
  BY <1>2, <1>4, SameSources DEF Inspectable, AcceptedIn
<1> QED BY <1>1, <1>2, <1>3, <1>4, <1>5


LEMMA AllListeners ==
    ASSUME ScanInv, state = "done"
    PROVE  {Sourced(l, Kind(found[l])) : l \in DOMAIN found}
             = Inspect(TextOf(input.corefile), EntriesText).listeners
<1> DEFINE fromCorefile == ListenersOf(TextOf(input.corefile))
           fromEntries == ListenersOf(EntriesText)
<1>1. SourcesIn(input) = {CorefileSource} \cup Entries /\ CorefileSource \notin Entries
  BY SameSources DEF SourcesIn
<1>2. fromCorefile = ListenersIn(input, CorefileSource)
  BY WholeTexts DEF ListenersOf, ListenersIn, LinesIn
<1>3. \A l : l \in fromEntries <=> \E s \in Entries : l \in ListenersIn(input, s)
  <2>1. \A s \in Entries : TextOf(LinesOf(s)).keys = BlockKeys(LinesIn(input, s))
    BY WholeTexts, SameSources
  <2>2. \A k : k \in EntriesText.keys <=> \E s \in Entries : k \in BlockKeys(LinesIn(input, s))
    BY <2>1, WholeTexts
  <2> QED BY <2>2 DEF ListenersOf, ListenersIn
<1>4. /\ \A l : l \in DOMAIN found <=> l \in fromCorefile \/ l \in fromEntries
      /\ \A l \in DOMAIN found : found[l] = CorefileSource <=> l \in fromCorefile
  <2>1. ListenersFound(input, SourcesIn(input), found)
    BY DEF ScanInv, Through
  <2>2. \A l : l \in DOMAIN found <=> l \in fromCorefile \/ l \in fromEntries
    BY <1>1, <1>2, <1>3, <2>1 DEF ListenersFound
  <2>3. ASSUME NEW l \in DOMAIN found, l \in fromCorefile PROVE found[l] = CorefileSource
    <3>1. found[l] \in SourcesIn(input) /\ ~(CorefileSource < found[l])
      BY <1>1, <1>2, <2>1, <2>3 DEF ListenersFound
    <3>2. found[l] \in Nat
      BY <3>1, SameSources
    <3> QED BY <3>1, <3>2 DEF CorefileSource
  <2>4. ASSUME NEW l \in DOMAIN found, found[l] = CorefileSource PROVE l \in fromCorefile
    BY <1>2, <2>1, <2>4 DEF ListenersFound
  <2> QED BY <2>2, <2>3, <2>4
<1>5. \A l \in DOMAIN found :
         Sourced(l, Kind(found[l])) = IF l \in fromCorefile THEN Sourced(l, CorefileSource)
                                      ELSE Sourced(l, EntrySource)
  BY <1>4 DEF Kind
<1>6. Inspect(TextOf(input.corefile), EntriesText).listeners =
        {Sourced(l, CorefileSource) : l \in fromCorefile}
        \cup {Sourced(l, EntrySource) : l \in fromEntries \ fromCorefile}
  BY DEF Inspect
<1> HIDE DEF fromCorefile, fromEntries
<1>7. {Sourced(l, Kind(found[l])) : l \in DOMAIN found}
        = {Sourced(l, CorefileSource) : l \in fromCorefile}
          \cup {Sourced(l, EntrySource) : l \in fromEntries \ fromCorefile}
  BY <1>4, <1>5
<1> QED BY <1>6, <1>7

LEMMA AllImports ==
    ASSUME ScanInv, state = "done"
    PROVE  /\ wired <=> Inspect(TextOf(input.corefile), EntriesText).wired
           /\ {[source |-> Kind(i.source), pattern |-> i.pattern] : i \in unresolved}
                = Inspect(TextOf(input.corefile), EntriesText).unresolved
<1> DEFINE core == TextOf(input.corefile).imports
           ent == EntriesText.imports
           item(k, p) == [source |-> k, pattern |-> p]
<1>1. SourcesIn(input) = {CorefileSource} \cup Entries /\ CorefileSource \notin Entries
  BY SameSources DEF SourcesIn
<1>2. ImportsFound(input, SourcesIn(input), unresolved, wired)
  BY DEF ScanInv, Through
<1>3. \A p : p \in core <=>
         \E k \in ForeignLines(LinesIn(input, CorefileSource)) :
            LinesIn(input, CorefileSource)[k].pattern = p
  BY WholeTexts DEF LinesIn
<1>4. \A p : p \in ent <=>
         \E s \in Entries : \E k \in ForeignLines(LinesIn(input, s)) : LinesIn(input, s)[k].pattern = p
  <2>1. \A s : LinesOf(s) = LinesIn(input, s)
    BY SameSources
  <2>2. \A p : p \in ent <=> \E s \in Entries : p \in TextOf(LinesIn(input, s)).imports
    BY <2>1, WholeTexts
  <2>3. \A s, p : p \in TextOf(LinesIn(input, s)).imports <=>
           \E k \in ForeignLines(LinesIn(input, s)) : LinesIn(input, s)[k].pattern = p
    BY WholeTexts
  <2> HIDE DEF ent
  <2> QED BY <2>2, <2>3
<1>5. wired <=> WiringImport \in core
  BY <1>1, <1>2, <1>3 DEF ImportsFound, Wires, LinesIn
<1>6. \A u \in unresolved :
         \/ u.source = CorefileSource /\ u.pattern \in core \ {WiringImport}
         \/ u.source \in Entries /\ u.pattern \in ent
  BY <1>1, <1>2, <1>3, <1>4 DEF ImportsFound, Wires, Report
<1>7. \A p \in core \ {WiringImport} :
         \E u \in unresolved : u.source = CorefileSource /\ u.pattern = p
  <2> SUFFICES ASSUME NEW p \in core \ {WiringImport}
               PROVE  \E u \in unresolved : u.source = CorefileSource /\ u.pattern = p
    OBVIOUS
  <2>1. PICK k \in ForeignLines(LinesIn(input, CorefileSource)) :
           LinesIn(input, CorefileSource)[k].pattern = p
    BY <1>3
  <2>2. ~Wires(input, CorefileSource, k)
    BY <2>1 DEF Wires
  <2>3. Report(input, CorefileSource, k) \in unresolved
    BY <1>1, <1>2, <2>2 DEF ImportsFound
  <2> QED BY <2>1, <2>3 DEF Report
<1>8. \A p \in ent : \E u \in unresolved : u.source \in Entries /\ u.pattern = p
  <2> SUFFICES ASSUME NEW p \in ent
               PROVE  \E u \in unresolved : u.source \in Entries /\ u.pattern = p
    OBVIOUS
  <2>1. PICK s \in Entries :
           \E k \in ForeignLines(LinesIn(input, s)) : LinesIn(input, s)[k].pattern = p
    BY <1>4
  <2>2. PICK k \in ForeignLines(LinesIn(input, s)) : LinesIn(input, s)[k].pattern = p
    BY <2>1
  <2>3. ~Wires(input, s, k)
    BY <1>1 DEF Wires
  <2>4. Report(input, s, k) \in unresolved
    BY <1>1, <1>2, <2>3 DEF ImportsFound
  <2> QED BY <2>2, <2>4 DEF Report
<1>9. /\ Inspect(TextOf(input.corefile), EntriesText).wired = (WiringImport \in core)
      /\ Inspect(TextOf(input.corefile), EntriesText).unresolved
           = {item(CorefileSource, p) : p \in core \ {WiringImport}}
             \cup {item(EntrySource, p) : p \in ent}
  BY DEF Inspect
<1> HIDE DEF core, ent, item
<1>10. {item(Kind(u.source), u.pattern) : u \in unresolved}
         = {item(CorefileSource, p) : p \in core \ {WiringImport}}
           \cup {item(EntrySource, p) : p \in ent}
  <2>1. \A u \in unresolved :
           \/ Kind(u.source) = CorefileSource /\ u.pattern \in core \ {WiringImport}
           \/ Kind(u.source) = EntrySource /\ u.pattern \in ent
    BY <1>1, <1>6 DEF Kind
  <2>2. \A p \in core \ {WiringImport} :
           \E u \in unresolved : Kind(u.source) = CorefileSource /\ u.pattern = p
    BY <1>7 DEF Kind
  <2>3. \A p \in ent : \E u \in unresolved : Kind(u.source) = EntrySource /\ u.pattern = p
    BY <1>1, <1>8 DEF Kind
  <2> QED BY <2>1, <2>2, <2>3
<1> QED BY <1>5, <1>9, <1>10 DEF item

LEMMA InspectedWell == ScanInv => InspectedAsStated
<1> SUFFICES ASSUME ScanInv PROVE InspectedAsStated
  OBVIOUS
<1> DEFINE core == TextOf(input.corefile)
           ok == Inspectable(core) /\ Inspectable(EntriesText)
           returned ==
             [listeners  |-> {Sourced(l, Kind(found[l])) : l \in DOMAIN found},
              wired      |-> wired,
              unresolved |-> {[source |-> Kind(i.source), pattern |-> i.pattern] : i \in unresolved}]
<1>1. ok <=> \A s \in SourcesIn(input) : AcceptedIn(input, s)
  <2>1. SourcesIn(input) = {CorefileSource} \cup Entries
    BY SameSources DEF SourcesIn
  <2>2. Inspectable(core) <=> AcceptedIn(input, CorefileSource)
    BY WholeTexts DEF LinesIn
  <2> QED BY <2>1, <2>2, WholeTexts
<1>2. state = "failed" => ~ok
  BY <1>1 DEF ScanInv
<1>3. state = "done" => ok
  BY <1>1 DEF ScanInv, Through
<1>4. ASSUME state = "done" PROVE returned = Inspect(core, EntriesText)
  <2>1. wired = Inspect(core, EntriesText).wired
    <3>1. wired \in BOOLEAN /\ Inspect(core, EntriesText).wired \in BOOLEAN
      BY DEF ScanInv, Inspect
    <3> QED BY <1>4, <3>1, AllImports
  <2>2. /\ returned.listeners = Inspect(core, EntriesText).listeners
        /\ returned.unresolved = Inspect(core, EntriesText).unresolved
    BY <1>4, AllListeners, AllImports
  <2>3. Inspect(core, EntriesText) =
          [listeners  |-> Inspect(core, EntriesText).listeners,
           wired      |-> Inspect(core, EntriesText).wired,
           unresolved |-> Inspect(core, EntriesText).unresolved]
    BY DEF Inspect
  <2> QED BY <2>1, <2>2, <2>3
<1> QED BY <1>2, <1>3, <1>4 DEF InspectedAsStated

\* An import that is not of a plain snippet's making stands at top level, so
\* that what is read are lines at top level and blocks of plugins.
LEMMA PlainRead ==
    ASSUME NEW lines, Plain(lines), NEW k \in Read(lines), lines[k].kind # "snippet"
    PROVE  k \in DOMAIN lines /\ DepthAt(lines, k) = 0
<1> DEFINE ks == {j \in DOMAIN lines : DepthAt(lines, j) = 0 \/ lines[j].kind = "snippet"}
<1>1. Followed(lines, ks)
  BY DEF Followed, Plain, AtTop, Body
<1>2. ks \in SUBSET DOMAIN lines
  OBVIOUS
<1>3. k \in ks
  <2> HIDE DEF ks
  <2> QED BY <1>1, <1>2 DEF Read
<1> QED BY <1>3

LEMMA NothingMissed == ScanInv => NothingHiddenBehindPlainSnippets
<1> SUFFICES ASSUME ScanInv, state = "done", NEW s \in Sources,
                    DefinedFirst(LinesOf(s)), Plain(LinesOf(s)), NEW k \in Read(LinesOf(s))
             PROVE  /\ LinesOf(s)[k].kind = "open" => Listener(LinesOf(s)[k].key) \in DOMAIN found
                    /\ LinesOf(s)[k].kind = "import" /\ Meant(LinesOf(s), k) = {} =>
                         \/ s = CorefileSource /\ LinesOf(s)[k].pattern = WiringImport
                         \/ [source |-> s, line |-> k, pattern |-> LinesOf(s)[k].pattern] \in unresolved
  BY DEF NothingHiddenBehindPlainSnippets, Covered
<1>1. /\ ListenersFound(input, SourcesIn(input), found)
      /\ ImportsFound(input, SourcesIn(input), unresolved, wired)
      /\ s \in SourcesIn(input) /\ LinesOf(s) = LinesIn(input, s)
  BY SameSources DEF ScanInv, Through
<1>2. ASSUME LinesOf(s)[k].kind = "open" PROVE Listener(LinesOf(s)[k].key) \in DOMAIN found
  <2>1. k \in AtTop(LinesOf(s), "open")
    BY <1>2, PlainRead DEF AtTop
  <2>2. Listener(LinesOf(s)[k].key) \in ListenersIn(input, s)
    BY <1>1, <2>1 DEF ListenersIn, BlockKeys
  <2> QED BY <1>1, <2>2 DEF ListenersFound
<1>3. ASSUME LinesOf(s)[k].kind = "import", Meant(LinesOf(s), k) = {}
      PROVE  \/ s = CorefileSource /\ LinesOf(s)[k].pattern = WiringImport
             \/ [source |-> s, line |-> k, pattern |-> LinesOf(s)[k].pattern] \in unresolved
  <2>1. k \in AtTop(LinesOf(s), "import")
    BY <1>3, PlainRead DEF AtTop
  <2>2. k \in ForeignLines(LinesOf(s))
    BY <1>3, <2>1 DEF DefinedFirst, ForeignLines
  <2> QED BY <1>1, <2>2 DEF ImportsFound, Wires, Report
<1> QED BY <1>2, <1>3

LEMMA ScanInvariant == Spec => []ScanInv
BY InitScans, ScanStep, PTL DEF Spec

\* The scanner's depth is that of the text, on every line, and what it has noted
\* are lines it has passed.
THEOREM ScanTypeCorrect == Spec => []TypeOK
BY ScanInvariant, ScanTyped, PTL

\* A listener is blamed on the first source that defines it.
THEOREM FirstSourceAlwaysBlamed == Spec => []FirstSourceBlamed
BY ScanInvariant, FirstBlamed, PTL

\* Scanning line by line returns what Inspect says of whole sources, and fails
\* when it must: nothing leaks from one source into the next.
THEOREM InspectsAsStated == Spec => []InspectedAsStated
BY ScanInvariant, InspectedWell, PTL

\* While snippets are plain and defined before they are used, every server block
\* CoreDNS opens is in the result and every file it imports is accounted for.
THEOREM NothingPlainHidden == Spec => []NothingHiddenBehindPlainSnippets
BY ScanInvariant, NothingMissed, PTL

=============================================================================
