--------------------------- MODULE InspectionScan ---------------------------
(***************************************************************************)
(* corefile.Inspect as it runs: source by source, line by line.            *)
(*                                                                         *)
(* Inspection says what comes out for sources taken as a whole; here the   *)
(* scanner of a source walks its lines with a brace depth, notes imports   *)
(* and snippets, blanks the imports, hands the rest to CoreDNS's parser    *)
(* (not in src/, modelled from its use) and adds what it learns to the     *)
(* result.  A line opens a server block or, deeper, a block of a plugin    *)
(* ("open"), opens a snippet ("snippet"), closes what is open ("close") or *)
(* imports ("import"); lines without a brace or an import change nothing   *)
(* and are left out.                                                       *)
(***************************************************************************)
EXTENDS Inspection, FiniteSets, Sequences

CONSTANTS
    Inputs,      \* the pairs [corefile, servers] of texts to inspect
    ServerKeys,  \* the entries of coredns-custom whose name ends in .server
    ManagedKey   \* the one of them that ZoneRoute writes

\* Entries are numbered from 1 in the order of their names; the number is the
\* source, next to CorefileSource.
ASSUME KeysAssumption ==
    /\ ServerKeys \subseteq Nat \ {CorefileSource}
    /\ ManagedKey \in ServerKeys

\* Blocks open before line k of a text.
DepthAt(lines, k) ==
    Cardinality({j \in 1 .. k - 1 : lines[j].kind \in {"open", "snippet"}})
      - Cardinality({j \in 1 .. k - 1 : lines[j].kind = "close"})

LineForms ==
    [kind : {"open"}, key : Key] \cup [kind : {"snippet"}, name : STRING]
    \cup [kind : {"import"}, pattern : STRING] \cup [kind : {"close"}]

\* A text that never closes more than it has opened.
Bracketed(lines) ==
    lines \in Seq(LineForms) /\ \A k \in 1 .. Len(lines) + 1 : DepthAt(lines, k) >= 0

ASSUME InputsAssumption ==
    \A i \in Inputs : Bracketed(i.corefile) /\ \A s \in DOMAIN i.servers : Bracketed(i.servers[s])

VARIABLES
    input,      \* the arguments
    todo,       \* sources not begun
    source,     \* the one being scanned
    at,         \* the line the scanner is on
    depth,      \* its brace depth
    imports,    \* import statements noted: [line, pattern, depth]
    snippets,   \* snippet names noted
    found,      \* listener -> source
    unresolved, \* imports reported: [source, line, pattern]
    wired,
    state       \* "scanning", "done" or "failed"

scan   == <<source, at, depth, imports, snippets>>
result == <<found, unresolved, wired>>
vars   == <<input, todo, scan, result, state>>

Open(key)       == [kind |-> "open", key |-> key]
Snippet(name)   == [kind |-> "snippet", name |-> name]
Import(pattern) == [kind |-> "import", pattern |-> pattern]
Close           == [kind |-> "close"]

LinesOf(s) == IF s = CorefileSource THEN input.corefile ELSE input.servers[s]

-----------------------------------------------------------------------------
(* CoreDNS's parser.                                                       *)

AtTop(lines, kind) ==
    {k \in DOMAIN lines : lines[k].kind = kind /\ DepthAt(lines, k) = 0}

Parses(lines) ==
    /\ DepthAt(lines, Len(lines) + 1) = 0
    /\ \A j, k \in AtTop(lines, "snippet") : lines[j] = lines[k] => j = k

BlockKeys(lines) == {lines[k].key : k \in AtTop(lines, "open")}

-----------------------------------------------------------------------------
Init ==
    /\ input \in Inputs
    /\ todo = (DOMAIN input.servers \cap ServerKeys) \ {ManagedKey}
    /\ source = CorefileSource /\ at = 1 /\ depth = 0
    /\ imports = {} /\ snippets = {}
    /\ found = [l \in {} |-> CorefileSource] /\ unresolved = {} /\ wired = FALSE
    /\ state = "scanning"

\* The scanner is on a line of the given kind.
On(kind) ==
    /\ state = "scanning" /\ at <= Len(LinesOf(source))
    /\ LinesOf(source)[at].kind = kind

Line == LinesOf(source)[at]
NextLine == at' = at + 1 /\ UNCHANGED <<input, todo, source, result, state>>

OpenBlock == On("open") /\ depth' = depth + 1 /\ NextLine /\ UNCHANGED <<imports, snippets>>

CloseBlock == On("close") /\ depth' = depth - 1 /\ NextLine /\ UNCHANGED <<imports, snippets>>

\* Mistake: only server blocks count for the depth.
OpenSnippetUncounted ==
    /\ On("snippet")
    /\ snippets' = IF depth = 0 THEN snippets \cup {Line.name} ELSE snippets
    /\ NextLine /\ UNCHANGED <<depth, imports>>

OpenSnippet ==
    /\ On("snippet")
    /\ depth' = depth + 1
    /\ snippets' = IF depth = 0 THEN snippets \cup {Line.name} ELSE snippets
    /\ NextLine /\ UNCHANGED imports

NoteImport ==
    /\ On("import")
    /\ imports' = imports \cup {[line |-> at, pattern |-> Line.pattern, depth |-> depth]}
    /\ NextLine /\ UNCHANGED <<depth, snippets>>

AtEnd == state = "scanning" /\ at > Len(LinesOf(source))

\* What the rest of inspect accepts: the parser does, and parseKey every key.
Accepted == Parses(LinesOf(source)) /\ \A k \in BlockKeys(LinesOf(source)) : KeyOK(k)

Refuse ==
    /\ AtEnd /\ ~Accepted
    /\ state' = "failed"
    /\ UNCHANGED <<input, todo, scan, result>>

New == {Listener(k) : k \in BlockKeys(LinesOf(source))}

\* Mistake: the last source to define a listener is reported.
AddListenersOverwriting ==
    found' = [l \in DOMAIN found \cup New |-> IF l \in New THEN source ELSE found[l]]

AddListeners ==
    found' = [l \in DOMAIN found \cup New |-> IF l \in DOMAIN found THEN found[l] ELSE source]

Foreign == {i \in imports : i.depth = 0 /\ i.pattern \notin snippets}
IsWiring(i) == source = CorefileSource /\ i.pattern = WiringImport

\* Mistake: the wiring import is passed over in every source.
ClassifyWiringAnywhere ==
    /\ wired' = (wired \/ \E i \in Foreign : IsWiring(i))
    /\ unresolved' = unresolved \cup
          {[source |-> source, line |-> i.line, pattern |-> i.pattern] :
              i \in {j \in Foreign : j.pattern # WiringImport}}

ClassifyImports ==
    /\ wired' = (wired \/ \E i \in Foreign : IsWiring(i))
    /\ unresolved' = unresolved \cup
          {[source |-> source, line |-> i.line, pattern |-> i.pattern] :
              i \in {j \in Foreign : ~IsWiring(j)}}

\* Mistake: the snippets of one source are known to the next.
GoOnRemembering ==
    \/ /\ todo = {} /\ state' = "done" /\ UNCHANGED <<todo, scan>>
    \/ \E s \in todo :
          /\ \A t \in todo : s <= t
          /\ todo' = todo \ {s} /\ source' = s
          /\ at' = 1 /\ depth' = 0 /\ imports' = {}
          /\ UNCHANGED <<snippets, state>>

\* The next entry in the order of names, scanned from a clean slate.
GoOn ==
    \/ /\ todo = {} /\ state' = "done" /\ UNCHANGED <<todo, scan>>
    \/ \E s \in todo :
          /\ \A t \in todo : s <= t
          /\ todo' = todo \ {s} /\ source' = s
          /\ at' = 1 /\ depth' = 0 /\ imports' = {} /\ snippets' = {}
          /\ UNCHANGED state

Take == AtEnd /\ Accepted /\ AddListeners /\ ClassifyImports /\ GoOn /\ UNCHANGED input

Next == OpenBlock \/ CloseBlock \/ OpenSnippet \/ NoteImport \/ Refuse \/ Take

Spec == Init /\ [][Next]_vars

-----------------------------------------------------------------------------
Entries == (DOMAIN input.servers \cap ServerKeys) \ {ManagedKey}
Sources == {CorefileSource} \cup Entries
SnippetsOf(lines) == {lines[k].name : k \in AtTop(lines, "snippet")}

\* A source as Inspection sees it, and all entries as one.
TextOf(lines) ==
    [wellFormed |-> Parses(lines),
     keys       |-> BlockKeys(lines),
     imports    |-> {lines[k].pattern : k \in AtTop(lines, "import")} \ SnippetsOf(lines)]
EntriesText ==
    [wellFormed |-> \A s \in Entries : TextOf(LinesOf(s)).wellFormed,
     keys       |-> UNION {TextOf(LinesOf(s)).keys : s \in Entries},
     imports    |-> UNION {TextOf(LinesOf(s)).imports : s \in Entries}]

\* The type invariant: the scanner's depth is the number of blocks open, and
\* what it noted are lines it has passed.
TypeOK ==
    /\ todo \subseteq Entries /\ source \in Sources \ todo
    /\ state \in {"scanning", "done", "failed"} /\ wired \in BOOLEAN
    /\ depth = DepthAt(LinesOf(source), at) /\ depth >= 0
    /\ \A i \in imports :
          i.line < at /\ i.depth = DepthAt(LinesOf(source), i.line)
    /\ \A i \in unresolved : i.line \in DOMAIN LinesOf(i.source)

\* Inspect returns what the sources taken as a whole call for: it fails when a
\* source would, whichever comes first, and otherwise no state of the scanner
\* leaks from one source into another (corefile.go 89-113).
Kind(s) == IF s = CorefileSource THEN CorefileSource ELSE EntrySource
InspectedAsStated ==
    LET corefile == TextOf(input.corefile)
        ok       == Inspectable(corefile) /\ Inspectable(EntriesText)
    IN /\ state = "failed" => ~ok
       /\ state = "done" =>
             /\ ok
             /\ [listeners  |-> {Sourced(l, Kind(found[l])) : l \in DOMAIN found},
                 wired      |-> wired,
                 unresolved |-> {[source |-> Kind(i.source), pattern |-> i.pattern] :
                                    i \in unresolved}]
                  = Inspect(corefile, EntriesText)

\* A listener is blamed on the first source that defines it, in the order in
\* which CoreDNS itself would read them (corefile.go 138-140).
FirstSourceBlamed ==
    \A l \in DOMAIN found :
        /\ \E k \in BlockKeys(LinesOf(found[l])) : Listener(k) = l
        /\ \A s \in Sources : s < found[l] =>
              \A k \in BlockKeys(LinesOf(s)) : Listener(k) # l

-----------------------------------------------------------------------------
(* What CoreDNS makes of one source: an import of a snippet defined before *)
(* puts the snippet's lines in its place.                                  *)

\* The lines directly inside the snippet opened on line k.
Body(lines, k) ==
    {j \in DOMAIN lines :
        /\ j > k /\ lines[j].kind # "close" /\ DepthAt(lines, j) = 1
        /\ \A i \in k + 1 .. j : DepthAt(lines, i) >= 1}

\* The snippet lines that an import at line k refers to.
Meant(lines, k) ==
    {j \in AtTop(lines, "snippet") : j < k /\ lines[j].name = lines[k].pattern}

\* With an import, the lines it stands for are read.
Followed(lines, ks) ==
    /\ {k \in DOMAIN lines : DepthAt(lines, k) = 0} \subseteq ks
    /\ \A k \in ks : lines[k].kind = "import" =>
          \A j \in Meant(lines, k) : Body(lines, j) \subseteq ks

\* Lines read as if written at top level, however many imports lead there.
Read(lines) ==
    {k \in DOMAIN lines : \A ks \in SUBSET DOMAIN lines : Followed(lines, ks) => k \in ks}

\* Every server block CoreDNS would open has its listener in the result, and
\* every file it would import is the wiring or reported.
Covered(s) ==
    \A k \in Read(LinesOf(s)) :
        LET line == LinesOf(s)[k]
        IN /\ line.kind = "open" => Listener(line.key) \in DOMAIN found
           /\ line.kind = "import" /\ Meant(LinesOf(s), k) = {} =>
                 \/ s = CorefileSource /\ line.pattern = WiringImport
                 \/ [source |-> s, line |-> k, pattern |-> line.pattern] \in unresolved

\* Every snippet is defined before it is imported.
DefinedFirst(lines) ==
    \A k \in AtTop(lines, "import") :
        lines[k].pattern \in SnippetsOf(lines) => Meant(lines, k) # {}

\* Block-level imports cannot open server blocks and snippet imports are
\* resolved from the same text, says corefile.go 149-150, and so
\* docs/troubleshooting.md 178-180: nothing CoreDNS serves is missed.
NothingHidden ==
    state = "done" => \A s \in Sources : DefinedFirst(LinesOf(s)) => Covered(s)

\* With snippets of the kind the code has in mind, which open no server block,
\* import nothing and are defined before they are used, nothing is missed.
Plain(lines) ==
    \A k \in AtTop(lines, "import") : \A j \in Meant(lines, k) :
        \A i \in Body(lines, j) : lines[i].kind = "snippet"
NothingHiddenBehindPlainSnippets ==
    state = "done" =>
        \A s \in Sources :
            DefinedFirst(LinesOf(s)) /\ Plain(LinesOf(s)) => Covered(s)
=============================================================================
