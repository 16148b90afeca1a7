--------------------------- MODULE WireScriptProofs ---------------------------
(***************************************************************************)
(* What the wiring script promises, for any number of administrators and   *)
(* runs.  What it promises depends on what the Corefile holds to begin     *)
(* with and on what users do to it meanwhile; each theorem names what it   *)
(* needs of them.                                                          *)
(***************************************************************************)
EXTENDS WireScript, TLAPS

\* Users neither add nor take out an import of the wiring.
UsersLeaveImports ==
    UserLines \cap {"import", "import in block", "import with comment"} = {}

\* Nobody has put the import inside a server block (docs/coredns-wiring.md:21-23).
NoneInBlocks == \A lines \in Corefiles : ~Holds(lines, "import in block")

\* A Corefile imports the wiring at most once, and as the script writes it: an
\* import with a comment behind it, which line 28 does not find, is left out even
\* where it is the only one.
Tidy(lines) ==
    /\ ~Holds(lines, "import with comment")
    /\ \A i, j \in DOMAIN lines : lines[i] = "import" /\ lines[j] = "import" => i = j

TidyCorefiles == \A lines \in Corefiles : Tidy(lines)

\* Nobody has given the Deployment a volume of the script's name and no mount
\* of it: the script looks for the volume only (line 37).
NoStrayVolume == \A d \in Deployments : d.volume => d.mounted

-----------------------------------------------------------------------------
(* Lines.                                                                  *)

LEMMA Appending ==
    ASSUME NEW lines \in Seq(Line), NEW l \in Line
    PROVE  /\ DOMAIN lines = 1 .. Len(lines) /\ Len(lines) \in Nat
           /\ Append(lines, l) \in Seq(Line)
           /\ DOMAIN Append(lines, l) = 1 .. Len(lines) + 1
           /\ \A i \in 1 .. Len(lines) : Append(lines, l)[i] = lines[i]
           /\ Append(lines, l)[Len(lines) + 1] = l
OBVIOUS

LEMMA EmptyLines == (\A l : ~Holds(<<>>, l)) /\ Tidy(<<>>)
<1>1. DOMAIN <<>> = {}
  OBVIOUS
<1> QED BY <1>1 DEF Holds, Tidy

LEMMA AppendedLine ==
    ASSUME NEW lines \in Seq(Line), NEW l \in Line
    PROVE  /\ \A k : Holds(Append(lines, l), k) <=> Holds(lines, k) \/ k = l
           /\ l \notin {"import", "import with comment"} /\ Tidy(lines) => Tidy(Append(lines, l))
           /\ l = "import" /\ Tidy(lines) /\ ~Holds(lines, "import") => Tidy(Append(lines, l))
<1> DEFINE longer == Append(lines, l)
<1>1. /\ DOMAIN lines = 1 .. Len(lines) /\ Len(lines) \in Nat
      /\ DOMAIN longer = 1 .. Len(lines) + 1
      /\ \A i \in 1 .. Len(lines) : longer[i] = lines[i]
      /\ longer[Len(lines) + 1] = l
  BY Appending
<1> HIDE DEF longer
<1>2. \A k : Holds(longer, k) <=> Holds(lines, k) \/ k = l
  BY <1>1 DEF Holds
<1>3. ASSUME l \notin {"import", "import with comment"}, Tidy(lines)
      PROVE  Tidy(longer)
  <2>1. ~Holds(longer, "import with comment")
    BY <1>2, <1>3 DEF Tidy
  <2>2. ASSUME NEW i \in DOMAIN longer, longer[i] = "import"
        PROVE  i \in DOMAIN lines /\ lines[i] = "import"
    <3>1. i # Len(lines) + 1
      BY <1>1, <1>3, <2>2
    <3> QED BY <1>1, <2>2, <3>1
  <2> QED BY <1>3, <2>1, <2>2 DEF Tidy
<1>4. ASSUME l = "import", Tidy(lines), ~Holds(lines, "import")
      PROVE  Tidy(longer)
  <2>1. ~Holds(longer, "import with comment")
    BY <1>2, <1>4 DEF Tidy
  <2>2. \A i \in DOMAIN longer : longer[i] = "import" => i = Len(lines) + 1
    BY <1>1, <1>4 DEF Holds
  <2> QED BY <2>1, <2>2 DEF Tidy
<1> QED BY <1>2, <1>3, <1>4 DEF longer

LEMMA Concatenating ==
    ASSUME NEW s \in Seq(Line), NEW t \in Seq(Line)
    PROVE  /\ s \o t \in Seq(Line) /\ Len(s \o t) = Len(s) + Len(t)
           /\ \A j \in 1 .. Len(s) : (s \o t)[j] = s[j]
           /\ \A j \in 1 .. Len(t) : (s \o t)[Len(s) + j] = t[j]
<1>1. Len(s) \in Nat /\ Len(t) \in Nat
  OBVIOUS
<1>2. s \o t \in Seq(Line) /\ Len(s \o t) = Len(s) + Len(t)
  OBVIOUS
<1>3. ASSUME NEW j \in 1 .. Len(s) PROVE (s \o t)[j] = s[j]
  BY <1>1
<1>4. ASSUME NEW j \in 1 .. Len(t) PROVE (s \o t)[Len(s) + j] = t[j]
  BY <1>1
<1> QED BY <1>2, <1>3, <1>4

LEMMA TakenOut ==
    ASSUME NEW lines \in Seq(Line), NEW i \in DOMAIN lines
    PROVE  /\ WithoutLine(lines, i) \in Seq(Line)
           /\ \A k : k # lines[i] => (Holds(WithoutLine(lines, i), k) <=> Holds(lines, k))
           /\ \A k : Holds(WithoutLine(lines, i), k) => Holds(lines, k)
           /\ Tidy(lines) => Tidy(WithoutLine(lines, i))
<1> DEFINE shorter == WithoutLine(lines, i)
           at(j) == IF j < i THEN j ELSE j + 1
<1>1. DOMAIN lines = 1 .. Len(lines) /\ Len(lines) \in Nat /\ i \in 1 .. Len(lines)
  OBVIOUS
<1> DEFINE head == SubSeq(lines, 1, i - 1)
           tail == SubSeq(lines, i + 1, Len(lines))
<1>2. /\ head \in Seq(Line) /\ Len(head) = i - 1
      /\ \A j \in 1 .. i - 1 : head[j] = lines[j]
  BY <1>1
<1>3. /\ tail \in Seq(Line) /\ Len(tail) = Len(lines) - i
      /\ \A j \in 1 .. Len(lines) - i : tail[j] = lines[i + j]
  BY <1>1
<1> HIDE DEF head, tail
<1>4. /\ head \o tail \in Seq(Line) /\ Len(head \o tail) = Len(head) + Len(tail)
      /\ \A j \in 1 .. Len(head) : (head \o tail)[j] = head[j]
      /\ \A j \in 1 .. Len(tail) : (head \o tail)[Len(head) + j] = tail[j]
  BY <1>2, <1>3, Concatenating
<1>5. shorter = head \o tail
  BY DEF WithoutLine, head, tail
<1> HIDE DEF shorter
<1>6. /\ shorter \in Seq(Line) /\ DOMAIN shorter = 1 .. Len(lines) - 1
      /\ \A j \in 1 .. Len(lines) - 1 : shorter[j] = lines[at(j)]
  <2>1. shorter \in Seq(Line) /\ Len(shorter) = Len(lines) - 1
    <3>1. Len(head) + Len(tail) = Len(lines) - 1
      BY <1>1, <1>2, <1>3
    <3> QED BY <1>4, <1>5, <3>1
  <2>2. DOMAIN shorter = 1 .. Len(lines) - 1
    BY <2>1
  <2>3. ASSUME NEW j \in 1 .. Len(lines) - 1 PROVE shorter[j] = lines[at(j)]
    <3>1. CASE j < i
      BY <1>1, <1>2, <1>4, <1>5, <3>1
    <3>2. CASE j >= i
      <4> DEFINE k == j - (i - 1)
      <4>1. k \in 1 .. Len(tail) /\ Len(head) + k = j /\ i + k = j + 1
        BY <1>1, <1>2, <1>3, <3>2
      <4> HIDE DEF k
      <4>2. shorter[j] = tail[k] /\ tail[k] = lines[i + k]
        BY <1>3, <1>4, <1>5, <4>1
      <4> QED BY <3>2, <4>1, <4>2
    <3> QED BY <1>1, <3>1, <3>2
  <2> QED BY <2>1, <2>2, <2>3
<1>7. \A j \in 1 .. Len(lines) - 1 : at(j) \in DOMAIN lines
  BY <1>1
<1>8. \A k : Holds(shorter, k) => Holds(lines, k)
  BY <1>6, <1>7 DEF Holds
<1>9. ASSUME NEW k, k # lines[i], Holds(lines, k)
      PROVE  Holds(shorter, k)
  <2>1. PICK j \in DOMAIN lines : lines[j] = k
    BY <1>9 DEF Holds
  <2>2. CASE j < i
    BY <1>1, <1>6, <2>1, <2>2 DEF Holds
  <2>3. CASE j > i
    <3>1. j - 1 \in 1 .. Len(lines) - 1 /\ at(j - 1) = j
      BY <1>1, <2>1, <2>3
    <3> QED BY <1>6, <2>1, <3>1 DEF Holds
  <2> QED BY <1>1, <1>9, <2>1, <2>2, <2>3
<1>10. ASSUME Tidy(lines) PROVE Tidy(shorter)
  <2>1. \A j, k \in 1 .. Len(lines) - 1 : at(j) = at(k) => j = k
    BY <1>1
  <2>2. \A j, k \in DOMAIN shorter : shorter[j] = "import" /\ shorter[k] = "import" => at(j) = at(k)
    BY <1>6, <1>7, <1>10 DEF Tidy
  <2>3. \A j, k \in DOMAIN shorter : shorter[j] = "import" /\ shorter[k] = "import" => j = k
    <3> HIDE DEF at
    <3> QED BY <1>6, <2>1, <2>2
  <2> QED BY <1>8, <1>10, <2>3 DEF Tidy
<1> QED BY <1>6, <1>8, <1>9, <1>10 DEF shorter

LEMMA TunedLines ==
    ASSUME NEW lines \in Seq(Line)
    PROVE  /\ Tuned(lines) \in Seq(Line)
           /\ Tuned(Tuned(lines)) = Tuned(lines)
           /\ \A k : k \notin {"reload", "reload 2s 1s"} =>
                 (Holds(Tuned(lines), k) <=> Holds(lines, k))
           /\ Tidy(lines) => Tidy(Tuned(lines))
<1>1. DOMAIN lines = 1 .. Len(lines) /\ Len(lines) \in Nat /\ \A i \in DOMAIN lines : lines[i] \in Line
  OBVIOUS
<1>2. Tuned(lines) \in [1 .. Len(lines) -> Line]
  BY <1>1 DEF Tuned, Line
<1>3. Tuned(lines) \in Seq(Line)
  BY <1>1, <1>2
<1>4. DOMAIN Tuned(lines) = DOMAIN lines
  BY DEF Tuned
<1>5. Tuned(Tuned(lines)) = Tuned(lines)
  BY <1>4 DEF Tuned
<1>6. \A k : k \notin {"reload", "reload 2s 1s"} => (Holds(Tuned(lines), k) <=> Holds(lines, k))
  BY <1>4 DEF Tuned, Holds
<1>7. \A i \in DOMAIN lines : Tuned(lines)[i] = "import" <=> lines[i] = "import"
  BY DEF Tuned
<1>8. Tidy(lines) => Tidy(Tuned(lines))
  BY <1>4, <1>6, <1>7 DEF Tidy
<1> QED BY <1>3, <1>5, <1>6, <1>8

LEMMA TunedAppended ==
    ASSUME NEW lines \in Seq(Line)
    PROVE  Tuned(Append(lines, "import")) = Append(Tuned(lines), "import")
<1> DEFINE longer == Append(lines, "import")
           tuned == Append(Tuned(lines), "import")
<1>1. "import" \in Line /\ Tuned(lines) \in Seq(Line) /\ DOMAIN Tuned(lines) = DOMAIN lines
  BY TunedLines DEF Line, Tuned
<1>2. /\ DOMAIN lines = 1 .. Len(lines) /\ Len(lines) \in Nat
      /\ DOMAIN longer = 1 .. Len(lines) + 1 /\ longer \in Seq(Line)
      /\ \A i \in 1 .. Len(lines) : longer[i] = lines[i]
      /\ longer[Len(lines) + 1] = "import"
  BY <1>1, Appending
<1>3. DOMAIN Tuned(lines) = 1 .. Len(Tuned(lines)) /\ Len(Tuned(lines)) = Len(lines)
  BY <1>1, <1>2
<1>4. /\ DOMAIN tuned = 1 .. Len(lines) + 1 /\ tuned \in Seq(Line)
      /\ \A i \in 1 .. Len(lines) : tuned[i] = Tuned(lines)[i]
      /\ tuned[Len(lines) + 1] = "import"
  BY <1>1, <1>3, Appending
<1>5. Tuned(longer) \in Seq(Line) /\ DOMAIN Tuned(longer) = 1 .. Len(lines) + 1
  BY <1>2, TunedLines DEF Tuned
<1> HIDE DEF tuned, longer
<1>6. ASSUME NEW i \in 1 .. Len(lines) + 1
      PROVE  Tuned(longer)[i] = tuned[i]
  <2>1. Tuned(longer)[i] = IF longer[i] = "reload" THEN "reload 2s 1s" ELSE longer[i]
    BY <1>2 DEF Tuned
  <2>2. CASE i = Len(lines) + 1
    BY <1>2, <1>4, <2>1, <2>2
  <2>3. CASE i \in DOMAIN lines
    <3>1. Tuned(lines)[i] = IF lines[i] = "reload" THEN "reload 2s 1s" ELSE lines[i]
      BY <2>3 DEF Tuned
    <3> QED BY <1>2, <1>4, <2>1, <2>3, <3>1
  <2> QED BY <1>2, <2>2, <2>3
<1>7. Len(tuned) = Len(lines) + 1 /\ Len(Tuned(longer)) = Len(lines) + 1
  BY <1>2, <1>4, <1>5
<1> QED BY <1>4, <1>5, <1>6, <1>7 DEF tuned, longer

LEMMA InspectedLines ==
    /\ \A lines : WiringImport \in TextOf(lines).imports
                    <=> Holds(lines, "import") \/ Holds(lines, "import with comment")
    /\ Wired <=> Holds(corefile, "import") \/ Holds(corefile, "import with comment")
BY DEF TextOf, Wired, Inspect

-----------------------------------------------------------------------------
(* Types.                                                                  *)

LEMMA OneMore ==
    ASSUME NEW m \in Nat, NEW n \in 0 .. m, n < m
    PROVE  n + 1 \in 0 .. m
OBVIOUS

LEMMA CallsTyped ==
    ASSUME TypeOK, NEW s \in Scripts, NEW step \in Ended \cup Calls, Continue(s, step)
    PROVE  /\ pc' \in [Scripts -> Ended \cup Calls] /\ pc'[s] = step
           /\ \A t \in Scripts \ {s} : pc'[t] = pc[t]
           /\ starts' = starts /\ edits' = edits
BY DEF TypeOK, Continue

\* A step of a script moves on to a call, or ends.
LEMMA StepMoves ==
    ASSUME TypeOK, NEW s \in Scripts, Step(s) \/ Abort(s)
    PROVE  \E step \in Ended \cup Calls : Continue(s, step)
BY DEF Step, Abort, GetCustom, CreateCustom, GetCorefile, AddImport, GetMount, AfterMount,
       AddMount, GetReload, TuneReload, Scale, Rollout, Ended, Calls

LEMMA StepTyped == TypeOK /\ [Next]_vars => TypeOK'
<1> SUFFICES ASSUME TypeOK, [Next]_vars PROVE TypeOK'
  OBVIOUS
<1> USE DEF TypeOK
<1>1. ASSUME NEW s \in Scripts, Start(s) PROVE TypeOK'
  <2>1. pc' \in [Scripts -> Ended \cup Calls]
    BY <1>1 DEF Start, Calls
  <2>2. starts' \in [Scripts -> 0 .. MaxStarts]
    <3>1. MaxStarts \in Nat /\ starts \in [Scripts -> 0 .. MaxStarts] /\ starts[s] < MaxStarts
      BY <1>1, LimitsAssumption DEF Start
    <3>2. starts[s] + 1 \in 0 .. MaxStarts
      BY <3>1, OneMore
    <3> QED BY <1>1, <3>1, <3>2 DEF Start
  <2>3. \A t \in Scripts : pc'[t] \in {"add import", "tune reload"} => pc'[t] = pc[t]
    BY <1>1 DEF Start
  <2> QED BY <1>1, <2>1, <2>2, <2>3 DEF Start, cluster
<1>2. ASSUME NEW s \in Scripts, Step(s) \/ Abort(s) PROVE TypeOK'
  <2>1. PICK step \in Ended \cup Calls : Continue(s, step)
    BY <1>2, StepMoves
  <2>2. /\ pc' \in [Scripts -> Ended \cup Calls] /\ starts' = starts /\ edits' = edits
        /\ \A t \in Scripts \ {s} : pc'[t] = pc[t]
    BY <2>1, CallsTyped
  <2>3. text' \in [Scripts -> Seq(Line)] /\ \A t \in Scripts \ {s} : text'[t] = text[t]
    BY <1>2 DEF Step, Abort, GetCustom, CreateCustom, GetCorefile, AddImport, GetMount,
                AddMount, GetReload, TuneReload, Scale, Rollout
  <2>4. custom' \in BOOLEAN
        /\ deployment' \in Deployment
    BY <1>2 DEF Step, Abort, GetCustom, CreateCustom, GetCorefile, AddImport, GetMount,
                AddMount, GetReload, TuneReload, Scale, Rollout, cluster, Deployment
  <2>5. corefile' \in Seq(Line)
    <3>1. corefile' \in {corefile, Append(text[s], "import"), Tuned(text[s])}
      BY <1>2 DEF Step, Abort, GetCustom, CreateCustom, GetCorefile, AddImport, GetMount,
                  AddMount, GetReload, TuneReload, Scale, Rollout, cluster
    <3>2. corefile \in Seq(Line) /\ text[s] \in Seq(Line) /\ "import" \in Line
      BY DEF Line
    <3>3. Append(text[s], "import") \in Seq(Line)
      BY <3>2, Appending
    <3>4. Tuned(text[s]) \in Seq(Line)
      BY <3>2, TunedLines
    <3> QED BY <3>1, <3>2, <3>3, <3>4
  <2>6. /\ pc'[s] = "add import" => ~ImportPresent(text'[s])
        /\ pc'[s] = "tune reload" => Holds(text'[s], "reload")
    BY <1>2 DEF Step, Abort, GetCustom, CreateCustom, GetCorefile, AddImport, GetMount, AfterMount,
                AddMount, GetReload, TuneReload, Scale, Rollout, Continue, Ended
  <2> QED BY <2>2, <2>3, <2>4, <2>5, <2>6
<1>3. CASE EditCorefile
  <2>1. corefile' \in Seq(Line)
    BY <1>3, LinesAssumption, Appending, TakenOut DEF EditCorefile
  <2>2. edits' \in 0 .. MaxEdits
    <3>1. MaxEdits \in Nat /\ edits \in 0 .. MaxEdits /\ edits < MaxEdits /\ edits' = edits + 1
      BY <1>3, LimitsAssumption DEF EditCorefile
    <3> QED BY <3>1, OneMore
  <2> QED BY <1>3, <2>1, <2>2 DEF EditCorefile
<1>4. CASE UNCHANGED vars
  BY <1>4 DEF vars
<1> QED BY <1>1, <1>2, <1>3, <1>4 DEF Next

LEMMA InitTyped == Init => TypeOK
<1> SUFFICES ASSUME Init PROVE TypeOK
  OBVIOUS
<1>1. starts \in [Scripts -> 0 .. MaxStarts] /\ edits \in 0 .. MaxEdits
  BY LimitsAssumption DEF Init
<1>2. deployment \in Deployment
  BY DeploymentsAssumption DEF Init
<1> QED BY <1>1, <1>2, LinesAssumption DEF Init, TypeOK, Ended

\* A script patches only where its line was missing when it read, whoever else
\* is at work.
THEOREM ScriptTypeCorrect == Spec => []TypeOK
BY InitTyped, StepTyped, PTL DEF Spec

-----------------------------------------------------------------------------
(* What a script has behind it stays done.                                 *)

AfterVolume == {"get reload", "tune reload", "scale", "rollout", "done"}
AfterImport == AfterVolume \cup {"get mount", "add mount"}
AfterCustom == AfterImport \cup {"get corefile", "add import"}

Achieved(s) ==
    /\ pc[s] \in AfterCustom => custom
    /\ pc[s] \in AfterImport => ImportPresent(corefile)
    /\ pc[s] = "tune reload" => ImportPresent(text[s])
    /\ pc[s] \in AfterVolume => deployment.volume

Progress == UsersLeaveImports /\ TypeOK /\ \A s \in Scripts : Achieved(s)

\* An edit of the Corefile by a user leaves every import where it was.
LEMMA EditsLeave ==
    ASSUME UsersLeaveImports, TypeOK, EditCorefile
    PROVE  /\ \A k \in {"import", "import in block", "import with comment"} :
                 Holds(corefile', k) <=> Holds(corefile, k)
           /\ Tidy(corefile) => Tidy(corefile')
<1>1. corefile \in Seq(Line)
  BY DEF TypeOK
<1>2. ASSUME NEW l \in UserLines, corefile' = Append(corefile, l)
      PROVE  /\ \A k \in {"import", "import in block", "import with comment"} :
                   Holds(corefile', k) <=> Holds(corefile, k)
             /\ Tidy(corefile) => Tidy(corefile')
  BY <1>1, <1>2, LinesAssumption, AppendedLine DEF UsersLeaveImports
<1>3. ASSUME NEW i \in DOMAIN corefile, corefile[i] \in UserLines,
             corefile' = WithoutLine(corefile, i)
      PROVE  /\ \A k \in {"import", "import in block", "import with comment"} :
                   Holds(corefile', k) <=> Holds(corefile, k)
             /\ Tidy(corefile) => Tidy(corefile')
  BY <1>1, <1>3, TakenOut DEF UsersLeaveImports
<1> QED BY <1>2, <1>3 DEF EditCorefile

\* What a step of a script writes into the Corefile.
LEMMA StepWrites ==
    ASSUME NEW s \in Scripts, Step(s) \/ Abort(s)
    PROVE  \/ UNCHANGED corefile
           \/ pc[s] = "add import" /\ corefile' = Append(text[s], "import")
           \/ pc[s] = "tune reload" /\ corefile' = Tuned(text[s])
BY DEF Step, Abort, GetCustom, CreateCustom, GetCorefile, AddImport, GetMount,
       AddMount, GetReload, TuneReload, Scale, Rollout, cluster

\* A script holds what it read before, or what the Corefile is now.
LEMMA TextsRead ==
    ASSUME TypeOK, [Next]_vars
    PROVE  \A s \in Scripts : text'[s] \in {text[s], corefile}
<1>1. text \in [Scripts -> Seq(Line)]
  BY DEF TypeOK
<1>2. ASSUME NEW s \in Scripts, Step(s) \/ Abort(s)
      PROVE  text' = text \/ text' = [text EXCEPT ![s] = corefile]
  BY <1>2 DEF Step, Abort, GetCustom, CreateCustom, GetCorefile, AddImport, GetMount,
              AddMount, GetReload, TuneReload, Scale, Rollout
<1>3. text' = text \/ \E s \in Scripts : text' = [text EXCEPT ![s] = corefile]
  BY <1>2 DEF Next, Start, EditCorefile, vars
<1> QED BY <1>1, <1>3

LEMMA NothingUndone ==
    ASSUME Progress, [Next]_vars
    PROVE  /\ custom => custom'
           /\ ImportPresent(corefile) => ImportPresent(corefile')
           /\ deployment.volume => deployment'.volume
<1>1. custom => custom'
  BY DEF vars, Next, EditCorefile, Start, Step, Abort, GetCustom, CreateCustom, GetCorefile,
         AddImport, GetMount, AddMount, GetReload, TuneReload, Scale, Rollout, cluster
<1>2. deployment.volume => deployment'.volume
  <2>1. deployment \in [volume : BOOLEAN, mounted : BOOLEAN, single : BOOLEAN]
    BY DEF Progress, TypeOK, Deployment
  <2> QED BY <2>1 DEF vars, Next, EditCorefile, Start, Step, Abort, GetCustom, CreateCustom,
         GetCorefile, AddImport, GetMount, AddMount, GetReload, TuneReload, Scale, Rollout, cluster
<1>3. ImportPresent(corefile) => ImportPresent(corefile')
  <2>1. ASSUME NEW s \in Scripts, Step(s) \/ Abort(s)
        PROVE  ImportPresent(corefile) => ImportPresent(corefile')
    <3>1. text[s] \in Seq(Line) /\ "import" \in Line
      BY DEF Progress, TypeOK, Line
    <3>2. pc[s] = "tune reload" => ImportPresent(text[s])
      BY DEF Progress, Achieved
    <3>3. ImportPresent(Append(text[s], "import"))
      BY <3>1, AppendedLine DEF ImportPresent
    <3>4. ImportPresent(text[s]) => ImportPresent(Tuned(text[s]))
      BY <3>1, TunedLines DEF ImportPresent
    <3> QED BY <2>1, <3>2, <3>3, <3>4, StepWrites
  <2>2. CASE EditCorefile
    BY <2>2, EditsLeave DEF Progress, ImportPresent
  <2>3. CASE UNCHANGED corefile
    BY <2>3
  <2> QED BY <2>1, <2>2, <2>3 DEF Next, Start, cluster, vars
<1> QED BY <1>1, <1>2, <1>3

LEMMA StepProgresses == Progress /\ [Next]_vars => Progress'
<1> SUFFICES ASSUME Progress, [Next]_vars PROVE Progress'
  OBVIOUS
<1>1. TypeOK /\ TypeOK'
  BY StepTyped DEF Progress
<1>2. /\ custom => custom'
      /\ ImportPresent(corefile) => ImportPresent(corefile')
      /\ deployment.volume => deployment'.volume
  BY NothingUndone
<1>3. ASSUME NEW t \in Scripts, pc'[t] = pc[t], text'[t] = text[t]
      PROVE  Achieved(t)'
  BY <1>2, <1>3 DEF Progress, Achieved
<1> USE DEF AfterVolume, AfterImport, AfterCustom
<1>4. ASSUME NEW s \in Scripts, Start(s) PROVE \A t \in Scripts : Achieved(t)'
  <2>1. pc'[s] = "get custom"
    BY <1>1, <1>4 DEF TypeOK, Start
  <2>2. Achieved(s)'
    BY <2>1 DEF Achieved
  <2>3. \A t \in Scripts \ {s} : pc'[t] = pc[t] /\ text'[t] = text[t]
    BY <1>1, <1>4 DEF TypeOK, Start
  <2> QED BY <1>3, <2>2, <2>3
<1>5. ASSUME NEW s \in Scripts, Step(s) \/ Abort(s) PROVE \A t \in Scripts : Achieved(t)'
  <2>1. \A t \in Scripts \ {s} : pc'[t] = pc[t] /\ text'[t] = text[t]
    BY <1>1, <1>5 DEF TypeOK, Step, Abort, GetCustom, CreateCustom, GetCorefile, AddImport,
       GetMount, AddMount, GetReload, TuneReload, Scale, Rollout, Continue
  <2>2. Achieved(s)'
    <3>1. Achieved(s) /\ pc \in [Scripts -> Ended \cup Calls] /\ text \in [Scripts -> Seq(Line)]
      BY DEF Progress, TypeOK
    <3>2. CASE GetCustom(s) \/ CreateCustom(s) \/ Abort(s)
      BY <1>2, <3>1, <3>2 DEF Achieved, GetCustom, CreateCustom, Abort, Continue
    <3>3. CASE GetCorefile(s)
      BY <1>2, <3>1, <3>3 DEF Achieved, GetCorefile, Continue, cluster
    <3>4. CASE AddImport(s)
      <4>1. text[s] \in Seq(Line) /\ "import" \in Line
        BY <3>1 DEF Line
      <4>2. ImportPresent(corefile')
        BY <3>4, <4>1, AppendedLine DEF AddImport, ImportPresent
      <4> QED BY <1>2, <3>1, <3>4, <4>2 DEF Achieved, AddImport, Continue
    <3>5. CASE GetMount(s) \/ AddMount(s)
      <4>1. deployment \in [volume : BOOLEAN, mounted : BOOLEAN, single : BOOLEAN]
        BY DEF Progress, TypeOK, Deployment
      <4> QED BY <1>2, <3>1, <3>5, <4>1 DEF Achieved, GetMount, AddMount, AfterMount, Continue, cluster
    <3>6. CASE GetReload(s)
      BY <1>2, <3>1, <3>6 DEF Achieved, GetReload, Continue, cluster
    <3>7. CASE TuneReload(s) \/ Scale(s) \/ Rollout(s)
      BY <1>2, <3>1, <3>7 DEF Achieved, TuneReload, Scale, Rollout, Continue
    <3> QED BY <1>5, <3>2, <3>3, <3>4, <3>5, <3>6, <3>7 DEF Step
  <2> QED BY <1>3, <2>1, <2>2
<1>6. ASSUME EditCorefile \/ UNCHANGED vars PROVE \A t \in Scripts : Achieved(t)'
  <2>1. pc' = pc /\ text' = text
    BY <1>6 DEF EditCorefile, vars
  <2> QED BY <1>3, <2>1
<1>7. \A t \in Scripts : Achieved(t)'
  BY <1>4, <1>5, <1>6 DEF Next
<1> QED BY <1>1, <1>7 DEF Progress, UsersLeaveImports

LEMMA InitProgress == Init /\ UsersLeaveImports => Progress
<1> SUFFICES ASSUME Init, UsersLeaveImports PROVE Progress
  OBVIOUS
<1>1. \A s \in Scripts : pc[s] = "ready"
  BY DEF Init
<1> QED BY <1>1, InitTyped DEF Progress, Achieved, AfterVolume, AfterImport, AfterCustom

-----------------------------------------------------------------------------
(* The contract.                                                           *)

\* Where no import stands inside a server block, none ever does.
BlocksClean ==
    /\ NoneInBlocks
    /\ ~Holds(corefile, "import in block")
    /\ \A s \in Scripts : ~Holds(text[s], "import in block")

LEMMA InitClean == Init /\ NoneInBlocks => BlocksClean
<1> SUFFICES ASSUME Init, NoneInBlocks PROVE BlocksClean
  OBVIOUS
<1>1. \A s \in Scripts : text[s] = <<>>
  BY DEF Init
<1>2. ~Holds(<<>>, "import in block")
  BY EmptyLines
<1> QED BY <1>1, <1>2 DEF Init, BlocksClean, NoneInBlocks

LEMMA StepClean == Progress /\ BlocksClean /\ [Next]_vars => BlocksClean'
<1> SUFFICES ASSUME Progress, BlocksClean, [Next]_vars PROVE BlocksClean'
  OBVIOUS
<1>1. /\ corefile \in Seq(Line) /\ "import" \in Line
      /\ \A s \in Scripts : text[s] \in Seq(Line) /\ ~Holds(text[s], "import in block")
      /\ ~Holds(corefile, "import in block")
  BY DEF Progress, TypeOK, BlocksClean, Line
<1>2. ~Holds(corefile', "import in block")
  <2>1. ASSUME NEW s \in Scripts, Step(s) \/ Abort(s)
        PROVE  ~Holds(corefile', "import in block")
    <3>1. ~Holds(Append(text[s], "import"), "import in block")
      BY <1>1, AppendedLine
    <3>2. ~Holds(Tuned(text[s]), "import in block")
      BY <1>1, TunedLines
    <3> QED BY <1>1, <2>1, <3>1, <3>2, StepWrites
  <2>2. CASE EditCorefile
    BY <1>1, <2>2, EditsLeave DEF Progress
  <2>3. CASE UNCHANGED corefile
    BY <1>1, <2>3
  <2> QED BY <2>1, <2>2, <2>3 DEF Next, Start, cluster, vars
<1>3. \A s \in Scripts : text'[s] \in {text[s], corefile}
  BY TextsRead DEF Progress
<1> QED BY <1>1, <1>2, <1>3 DEF BlocksClean, NoneInBlocks

\* Where no volume lacks its mount, none ever does: the patch adds both.
MountKept == NoStrayVolume /\ (deployment.volume => deployment.mounted)

LEMMA StepMounts == Progress /\ MountKept /\ [Next]_vars => MountKept'
<1> SUFFICES ASSUME Progress, MountKept, [Next]_vars PROVE MountKept'
  OBVIOUS
<1>1. deployment \in [volume : BOOLEAN, mounted : BOOLEAN, single : BOOLEAN]
  BY DEF Progress, TypeOK, Deployment
<1>2. \/ deployment' = deployment
      \/ deployment' = [deployment EXCEPT !.volume = TRUE, !.mounted = TRUE]
      \/ deployment' = [deployment EXCEPT !.single = TRUE]
  BY DEF vars, Next, EditCorefile, Start, Step, Abort, GetCustom, CreateCustom, GetCorefile,
         AddImport, GetMount, AddMount, GetReload, TuneReload, Scale, Rollout, cluster
<1>3. deployment'.volume => deployment'.mounted
  BY <1>1, <1>2 DEF MountKept
<1> QED BY <1>3 DEF MountKept, NoStrayVolume

\* A script that has ended well leaves the contract met, the mount included,
\* whoever else ran it or gave up half-way meanwhile: nothing of what it found
\* or did is undone.
THEOREM EndsWithTheContractMet ==
    Spec /\ UsersLeaveImports /\ NoneInBlocks /\ NoStrayVolume => []ContractWhenDone
<1> DEFINE Kept == Progress /\ BlocksClean /\ MountKept
<1>1. Init /\ UsersLeaveImports /\ NoneInBlocks /\ NoStrayVolume => Kept
  <2>1. Init /\ NoStrayVolume => MountKept
    BY DEF Init, MountKept, NoStrayVolume
  <2> QED BY <2>1, InitProgress, InitClean
<1>2. Kept /\ [Next]_vars => Kept'
  BY StepProgresses, StepClean, StepMounts
<1>3. Kept => ContractWhenDone
  <2> SUFFICES ASSUME Kept, NEW s \in Scripts, pc[s] = "done" PROVE Contract
    BY DEF ContractWhenDone
  <2>1. custom /\ ImportPresent(corefile) /\ deployment.volume
    BY DEF Progress, Achieved, AfterVolume, AfterImport, AfterCustom
  <2>2. Wired
    BY <2>1, InspectedLines DEF ImportPresent, BlocksClean
  <2>3. deployment.mounted
    BY <2>1 DEF MountKept
  <2> QED BY <2>1, <2>2, <2>3 DEF Contract
<1> QED BY <1>1, <1>2, <1>3, PTL DEF Spec

-----------------------------------------------------------------------------
(* One import.                                                             *)

\* Where every Corefile imports the wiring at most once, so does every Corefile
\* a script holds, and none of those it appends to imports it at all.
AllTidy ==
    /\ TidyCorefiles
    /\ Tidy(corefile)
    /\ \A s \in Scripts : Tidy(text[s])

LEMMA InitTidy == Init /\ TidyCorefiles => AllTidy
<1> SUFFICES ASSUME Init, TidyCorefiles PROVE AllTidy
  OBVIOUS
<1>1. Tidy(<<>>) /\ \A s \in Scripts : text[s] = <<>>
  BY EmptyLines DEF Init
<1> QED BY <1>1 DEF Init, AllTidy, TidyCorefiles

LEMMA StepTidy == Progress /\ AllTidy /\ [Next]_vars => AllTidy'
<1> SUFFICES ASSUME Progress, AllTidy, [Next]_vars PROVE AllTidy'
  OBVIOUS
<1>1. /\ TypeOK /\ UsersLeaveImports /\ Tidy(corefile)
      /\ \A s \in Scripts : text[s] \in Seq(Line) /\ Tidy(text[s])
  BY DEF Progress, TypeOK, AllTidy
<1>2. Tidy(corefile')
  <2>1. ASSUME NEW s \in Scripts, Step(s) \/ Abort(s) PROVE Tidy(corefile')
    <3>1. "import" \in Line
      BY DEF Line
    <3>2. pc[s] = "add import" => ~Holds(text[s], "import")
      BY <1>1 DEF TypeOK, ImportPresent
    <3>3. pc[s] = "add import" => Tidy(Append(text[s], "import"))
      BY <1>1, <3>1, <3>2, AppendedLine
    <3>4. Tidy(Tuned(text[s]))
      BY <1>1, TunedLines
    <3> QED BY <1>1, <2>1, <3>3, <3>4, StepWrites
  <2>2. CASE EditCorefile
    BY <1>1, <2>2, EditsLeave
  <2>3. CASE UNCHANGED corefile
    BY <1>1, <2>3
  <2> QED BY <2>1, <2>2, <2>3 DEF Next, Start, cluster, vars
<1>3. \A s \in Scripts : text'[s] \in {text[s], corefile}
  BY <1>1, TextsRead
<1> QED BY <1>1, <1>2, <1>3 DEF AllTidy, TidyCorefiles

\* However many scripts append at once, and however old the Corefiles they
\* append to, the wiring is never imported twice, if the script finds the
\* imports there are.
THEOREM ImportedOnce == Spec /\ UsersLeaveImports /\ TidyCorefiles => []WiredOnce
<1>1. Init /\ UsersLeaveImports /\ TidyCorefiles => Progress /\ AllTidy
  BY InitProgress, InitTidy
<1>2. Progress /\ AllTidy /\ [Next]_vars => (Progress /\ AllTidy)'
  BY StepProgresses, StepTidy
<1>3. Progress /\ AllTidy => WiredOnce
  <2> SUFFICES ASSUME Tidy(corefile), NEW i \in DOMAIN corefile, NEW j \in DOMAIN corefile,
                      {corefile[i], corefile[j]} \subseteq {"import", "import with comment"}
               PROVE  i = j
    BY DEF AllTidy, WiredOnce
  <2>1. corefile[i] # "import with comment" /\ corefile[j] # "import with comment"
    BY DEF Tidy, Holds
  <2>2. corefile[i] = "import" /\ corefile[j] = "import"
    BY <2>1
  <2> QED BY <2>2 DEF Tidy
<1> QED BY <1>1, <1>2, <1>3, PTL DEF Spec

-----------------------------------------------------------------------------
(* The rest of the Corefile.                                               *)

\* Between a read and the patch that rests on it, other scripts change nothing
\* but the tuning and the import this one is about to add.
Pending ==
    /\ PoliteUsers
    /\ \A s \in Scripts :
          /\ pc[s] = "add import" =>
                Tuned(corefile) \in {Tuned(text[s]), Append(Tuned(text[s]), "import")}
          /\ pc[s] = "tune reload" => Tuned(corefile) = Tuned(text[s])

\* Whether grep finds the import does not depend on the tuning.
LEMMA TunedImport ==
    ASSUME NEW lines \in Seq(Line)
    PROVE  /\ Holds(Tuned(lines), "import") <=> Holds(lines, "import")
           /\ ImportPresent(Tuned(lines)) <=> ImportPresent(lines)
           /\ ImportPresent(Append(Tuned(lines), "import"))
<1>1. Tuned(lines) \in Seq(Line) /\ "import" \in Line
  BY TunedLines DEF Line
<1>2. \A k \in {"import", "import in block"} : Holds(Tuned(lines), k) <=> Holds(lines, k)
  BY TunedLines
<1>3. Holds(Append(Tuned(lines), "import"), "import")
  BY <1>1, AppendedLine
<1> QED BY <1>2, <1>3 DEF ImportPresent

\* A step of a script appends the import where it was missing, or leaves the
\* Corefile as it was, the tuning apart.
LEMMA StepAdds ==
    ASSUME Progress, Pending, NEW s \in Scripts, Step(s) \/ Abort(s)
    PROVE  \/ Tuned(corefile') = Tuned(corefile)
           \/ ~ImportPresent(corefile) /\ Tuned(corefile') = Append(Tuned(corefile), "import")
<1>1. corefile \in Seq(Line) /\ text[s] \in Seq(Line)
  BY DEF Progress, TypeOK
<1>2. ASSUME pc[s] = "add import", corefile' = Append(text[s], "import")
      PROVE  \/ Tuned(corefile') = Tuned(corefile)
             \/ ~ImportPresent(corefile) /\ Tuned(corefile') = Append(Tuned(corefile), "import")
  <2>1. Tuned(corefile') = Append(Tuned(text[s]), "import")
    BY <1>1, <1>2, TunedAppended
  <2>2. ~ImportPresent(text[s])
    BY <1>2 DEF Progress, TypeOK
  <2>3. Tuned(corefile) = Tuned(text[s]) => ~ImportPresent(corefile)
    BY <1>1, <2>2, TunedImport
  <2> QED BY <1>2, <2>1, <2>3 DEF Pending
<1>3. ASSUME pc[s] = "tune reload", corefile' = Tuned(text[s])
      PROVE  Tuned(corefile') = Tuned(corefile)
  BY <1>1, <1>3, TunedLines DEF Pending
<1> QED BY <1>2, <1>3, StepWrites

LEMMA InitPending == Init /\ PoliteUsers => Pending
<1> SUFFICES ASSUME Init, PoliteUsers PROVE Pending
  OBVIOUS
<1>1. \A s \in Scripts : pc[s] = "ready"
  BY DEF Init
<1> QED BY <1>1 DEF Pending

LEMMA StepPending == Progress /\ Pending /\ [Next]_vars => Pending'
<1> SUFFICES ASSUME Progress, Pending, [Next]_vars, NEW t \in Scripts
             PROVE  /\ pc'[t] = "add import" =>
                          Tuned(corefile') \in {Tuned(text'[t]), Append(Tuned(text'[t]), "import")}
                    /\ pc'[t] = "tune reload" => Tuned(corefile') = Tuned(text'[t])
  BY DEF Pending
<1>1. /\ TypeOK /\ corefile \in Seq(Line) /\ text \in [Scripts -> Seq(Line)]
      /\ pc \in [Scripts -> Ended \cup Calls]
  BY DEF Progress, TypeOK
<1>2. ASSUME pc'[t] = pc[t], text'[t] = text[t],
             \/ Tuned(corefile') = Tuned(corefile)
             \/ ~ImportPresent(corefile) /\ Tuned(corefile') = Append(Tuned(corefile), "import")
      PROVE  /\ pc'[t] = "add import" =>
                   Tuned(corefile') \in {Tuned(text'[t]), Append(Tuned(text'[t]), "import")}
             /\ pc'[t] = "tune reload" => Tuned(corefile') = Tuned(text'[t])
  <2>1. text[t] \in Seq(Line)
    BY <1>1
  <2>2. pc[t] = "tune reload" => ImportPresent(corefile)
    BY DEF Progress, Achieved, AfterImport, AfterVolume
  <2>3. Tuned(corefile) = Append(Tuned(text[t]), "import") => ImportPresent(corefile)
    <3>1. ImportPresent(Append(Tuned(text[t]), "import"))
      BY <2>1, TunedImport
    <3>2. ImportPresent(Tuned(corefile)) => ImportPresent(corefile)
      BY <1>1, TunedImport
    <3> QED BY <3>1, <3>2
  <2> QED BY <1>2, <2>2, <2>3 DEF Pending
<1>3. ASSUME pc'[t] \in {"add import", "tune reload"}, text'[t] = corefile, corefile' = corefile
      PROVE  /\ pc'[t] = "add import" =>
                   Tuned(corefile') \in {Tuned(text'[t]), Append(Tuned(text'[t]), "import")}
             /\ pc'[t] = "tune reload" => Tuned(corefile') = Tuned(text'[t])
  BY <1>3
<1>4. ASSUME NEW s \in Scripts, Step(s) \/ Abort(s)
      PROVE  \/ pc'[t] \notin {"add import", "tune reload"}
             \/ pc'[t] = pc[t] /\ text'[t] = text[t]
             \/ text'[t] = corefile /\ corefile' = corefile
  BY <1>1, <1>4 DEF Step, Abort, GetCustom, CreateCustom, GetCorefile, AddImport, GetMount,
              AfterMount, AddMount, GetReload, TuneReload, Scale, Rollout, Continue, Ended, cluster
<1>5. ASSUME NEW s \in Scripts, Start(s)
      PROVE  /\ corefile' = corefile
             /\ pc'[t] = "get custom" \/ (pc'[t] = pc[t] /\ text'[t] = text[t])
  BY <1>1, <1>5 DEF Start, cluster
<1>6. CASE EditCorefile
  BY <1>6 DEF EditCorefile, Pending
<1>7. CASE UNCHANGED vars
  BY <1>2, <1>7 DEF vars
<1> QED BY <1>2, <1>3, <1>4, <1>5, <1>6, <1>7, StepAdds DEF Next

\* A step that is no edit of a user is a step of some script.
LEMMA StepKeepsRest ==
    ASSUME Progress, Pending, [Next]_vars, edits' = edits
    PROVE  \/ Tuned(corefile') = Tuned(corefile)
           \/ ~ImportPresent(corefile) /\ Tuned(corefile') = Append(Tuned(corefile), "import")
<1>1. ~EditCorefile
  <2>1. MaxEdits \in Nat /\ edits \in 0 .. MaxEdits
    BY LimitsAssumption DEF Progress, TypeOK
  <2>2. edits + 1 # edits
    BY <2>1
  <2> QED BY <2>2 DEF EditCorefile
<1>2. (\E s \in Scripts : Step(s) \/ Abort(s)) \/ UNCHANGED corefile
  BY <1>1 DEF Next, Start, cluster, vars
<1> QED BY <1>2, StepAdds

\* While users wait for the scripts, these touch nothing of the Corefile but the
\* tuning and their own line at its end.
THEOREM LeavesTheRest == Spec /\ UsersLeaveImports /\ PoliteUsers => RestUntouched
<1>1. Init /\ UsersLeaveImports /\ PoliteUsers => Progress /\ Pending
  BY InitProgress, InitPending
<1>2. Progress /\ Pending /\ [Next]_vars => (Progress /\ Pending)'
  BY StepProgresses, StepPending
<1>3. Progress /\ Pending /\ [Next]_vars =>
        [edits' = edits =>
           Tuned(corefile') \in {Tuned(corefile), Append(Tuned(corefile), "import")}]_vars
  BY StepKeepsRest
<1> QED BY <1>1, <1>2, <1>3, PTL DEF Spec, RestUntouched

\* Once the contract is met it stays met, and no script, however old what it
\* has read, changes anything but the tuning.
THEOREM ScriptIdempotent ==
    Spec /\ UsersLeaveImports /\ TidyCorefiles /\ PoliteUsers => Idempotent
<1> DEFINE Sound == Progress /\ AllTidy /\ Pending
<1>1. Init /\ UsersLeaveImports /\ TidyCorefiles /\ PoliteUsers => Sound
  BY InitProgress, InitTidy, InitPending
<1>2. Sound /\ [Next]_vars => Sound'
  BY StepProgresses, StepTidy, StepPending
<1>3. ASSUME Sound, [Next]_vars, Contract, edits' = edits
      PROVE  Contract' /\ Tuned(corefile') = Tuned(corefile)
  <2>1. corefile \in Seq(Line) /\ corefile' \in Seq(Line) /\ Tidy(corefile)
    BY <1>3, StepTyped DEF Progress, TypeOK, AllTidy
  <2>2. custom /\ Wired /\ deployment.mounted
    BY <1>3 DEF Contract
  <2>3. Holds(corefile, "import") /\ ImportPresent(corefile)
    BY <2>1, <2>2, InspectedLines DEF Tidy, ImportPresent
  <2>4. Tuned(corefile') = Tuned(corefile)
    BY <1>3, <2>3, StepKeepsRest
  <2>5. Holds(corefile', "import")
    BY <2>1, <2>3, <2>4, TunedImport
  <2>6. Wired'
    BY <2>5 DEF TextOf, Wired, Inspect
  <2>7. custom' /\ deployment'.mounted
    <3>1. custom'
      BY <1>3, <2>2, NothingUndone
    <3>2. deployment \in [volume : BOOLEAN, mounted : BOOLEAN, single : BOOLEAN]
      BY <1>3 DEF Progress, TypeOK, Deployment
    <3>3. deployment'.mounted
      BY <1>3, <2>2, <3>2 DEF vars, Next, EditCorefile, Start, Step, Abort, GetCustom, CreateCustom,
         GetCorefile, AddImport, GetMount, AddMount, GetReload, TuneReload, Scale, Rollout, cluster
    <3> QED BY <3>1, <3>3
  <2> QED BY <2>4, <2>6, <2>7 DEF Contract
<1>4. Sound /\ [Next]_vars =>
        [Contract /\ edits' = edits => Contract' /\ Tuned(corefile') = Tuned(corefile)]_vars
  BY <1>3
<1> QED BY <1>1, <1>2, <1>4, PTL DEF Spec, Idempotent
=============================================================================
