--------------------------- MODULE LeadershipProofs ---------------------------
(***************************************************************************)
(* What is published stays sound when two processes are at work, each      *)
(* still publishes as Publisher promises, statuses stay true, and the      *)
(* holder rests only when the managed entry is right.                      *)
(*                                                                         *)
(* The run of the old process is typed and sound when it is handed over,   *)
(* because it was the holder's; what it still does to the server is what   *)
(* the holder might do, so the lemmas on the holder's writes carry over.   *)
(***************************************************************************)
EXTENDS Leadership, StatusProofs

OldTypeOK ==
    /\ oldRun \in RunState
    /\ oldPc = "publish" =>
          \A n \in Present(oldRun.items) : oldRun.verdicts[n] \in RunVerdict
    /\ oldLeft \subseteq Present(oldRun.items)

BothInv == TypeOK /\ FragmentsSound /\ OldTypeOK /\ Sound(oldRun.fragment)

\* The old process calls the same server.
LEMMA SameServer ==
    /\ \A f : Old!ApplyPatch(f) => ApplyPatch(f)
    /\ \A u : Old!StillListed(u) => StillListed(u)
    /\ \A u : Old!WriteStatus(u) => WriteStatus(u)
<1>1. \A cm : Old!WriteCustom(cm) => WriteCustom(cm)
  BY DEF Old!WriteCustom, Old!CustomEvent, Old!BlocksIn, WriteCustom, CustomEvent, BlocksIn
<1>2. \A f : Old!ApplyPatch(f) => ApplyPatch(f)
  BY <1>1 DEF Old!ApplyPatch, ApplyPatch
<1>3. \A n, o : Old!WriteRoute(n, o) => WriteRoute(n, o)
  BY DEF Old!WriteRoute, Old!RouteEvent, WriteRoute, RouteEvent
<1>4. \A u : Old!WriteStatus(u) => WriteStatus(u)
  BY <1>3 DEF Old!WriteStatus, WriteStatus
<1> QED BY <1>2, <1>4 DEF Old!StillListed, StillListed

\* And it computes the same.
LEMMA SameOperators ==
    /\ Old!NoRun = NoRun
    /\ \A items : Old!Present(items) = Present(items)
    /\ \A gen, verdict, outcome :
          Old!StatusOf(gen, verdict, outcome) = StatusOf(gen, verdict, outcome)
BY DEF Old!NoRun, NoRun, Old!Present, Present, Old!StatusOf, StatusOf,
       Old!PublishedCondition, PublishedCondition

LEMMA OldPublished ==
    ASSUME OldTypeOK, oldPc = "publish", NEW outcome \in Outcomes, Old!Published(outcome)
    PROVE  OldTypeOK' /\ Sound(oldRun.fragment)'
<1> DEFINE report == [n \in Names |->
                        IF oldRun.items[n] = Absent THEN NoStatus
                        ELSE StatusOf(oldRun.items[n].gen, oldRun.verdicts[n], outcome)]
<1>1. oldRun \in RunState /\ oldRun.items \in Items
  BY DEF OldTypeOK, RunState, Items
<1>2. \A n \in Present(oldRun.items) :
         oldRun.items[n].gen \in Nat /\ oldRun.verdicts[n] \in RunVerdict
  BY <1>1, ListedObjects DEF OldTypeOK, Object
<1>3. report \in [Names -> {NoStatus} \cup Status]
  BY <1>1, <1>2, StatusTyped DEF Present, Items
<1>4. oldRun' = [NoRun EXCEPT !.items = oldRun.items, !.report = report,
                             !.failed = (outcome = "WriteFailed")]
  BY SameOperators DEF Old!Published, report
<1>5. oldPc' = "status" /\ oldLeft' = Present(oldRun.items)
  BY SameOperators DEF Old!Published
<1> HIDE DEF report
<1>6. oldRun' \in RunState /\ oldRun'.items = oldRun.items /\ oldRun'.fragment = NoRun.fragment
  BY <1>1, <1>3, <1>4, NoRunTyped DEF RunState, Items
<1> QED BY <1>5, <1>6, NoRunSound DEF OldTypeOK

LEMMA OldPublishes ==
    ASSUME BothInv, Old!Publish, UNCHANGED control
    PROVE  BothInv'
<1>1. oldPc = "publish" /\ UNCHANGED <<routes, revision, corefile, routeWatch>>
  BY DEF Old!Publish
<1>2. UNCHANGED <<cache, queued, inflight, edits, faults, missed, run>>
  BY DEF Old!Publish, Old!cache, cache, control
<1>3. PICK outcome \in Outcomes : Old!Published(outcome)
  BY DEF Old!Publish, Old!NoCallOutcome, Outcomes
<1>4. OldTypeOK' /\ Sound(oldRun.fragment)'
  BY <1>1, <1>3, OldPublished DEF BothInv
<1>5. CASE UNCHANGED <<custom, configWatch, wrote>>
  <2>1. TypeOK'
    BY <1>1, <1>2, <1>5, Untouched DEF BothInv, TypeOK, server, watches
  <2>2. FragmentsSound'
    BY <1>2, <1>5, FragmentsFrame DEF BothInv, FragmentsSound, FragmentSound, DelayedSound
  <2> QED BY <1>4, <2>1, <2>2 DEF BothInv
<1>6. CASE custom # Absent /\ ApplyPatch(oldRun.fragment)
  <2>1. oldRun.fragment \in SUBSET Blocks(Names)
    BY DEF BothInv, OldTypeOK, RunState
  <2>2. ServerTypeOK' /\ WatchTypeOK'
    BY <1>1, <1>6, <2>1, PatchApplied DEF BothInv
  <2>3. TypeOK'
    BY <1>2, <2>2, Untouched DEF BothInv, TypeOK
  <2>4. Sound(BlocksIn(custom'))
    BY <1>6, PatchSound DEF BothInv
  <2>5. FragmentsSound'
    BY <1>2, <2>4, FragmentsFrame DEF BothInv, FragmentsSound, FragmentSound, DelayedSound
  <2> QED BY <1>4, <2>3, <2>5 DEF BothInv
<1> QED BY <1>5, <1>6, SameServer DEF Old!Publish

LEMMA OldUpdate ==
    ASSUME OldTypeOK, NEW n \in Names, Old!Due(n)
    PROVE  Old!UpdateOf(n) \in Requests /\ Old!UpdateOf(n).kind = "status"
<1>1. oldRun.items \in Items /\ oldRun.report[n] \in {NoStatus} \cup Status
  BY DEF OldTypeOK, RunState, Items
<1>2. oldRun.items[n].rv \in Nat
  BY <1>1, ListedObjects DEF OldTypeOK, Old!Due, Object
<1> QED BY <1>1, <1>2 DEF Old!UpdateOf, Requests

LEMMA OldStatusDone ==
    ASSUME OldTypeOK, Sound(oldRun.fragment), NEW n, NEW failed \in BOOLEAN,
           Old!StatusDone(n, failed)
    PROVE  OldTypeOK' /\ Sound(oldRun.fragment)'
<1>1. oldRun' \in RunState /\ oldRun'.items = oldRun.items
      /\ oldRun'.fragment = oldRun.fragment /\ oldRun'.verdicts = oldRun.verdicts
  BY DEF OldTypeOK, RunState, Old!StatusDone
<1> QED BY <1>1 DEF OldTypeOK, Old!StatusDone

LEMMA OldUpdates ==
    ASSUME BothInv, NEW n \in Names, Old!UpdateStatus(n), UNCHANGED control
    PROVE  BothInv'
<1>1. UNCHANGED <<corefile, custom, configWatch, queued, inflight, edits, faults, run>>
  BY DEF Old!UpdateStatus, control
<1>2. UNCHANGED <<cache, wrote, missed>>
  BY DEF Old!UpdateStatus, Old!cache, Old!history, cache
<1>3. OldTypeOK' /\ Sound(oldRun.fragment)'
  BY OldStatusDone DEF BothInv, Old!UpdateStatus
<1>4. ServerTypeOK' /\ WatchTypeOK'
  <2>1. CASE UNCHANGED <<routes, revision, routeWatch>>
    BY <1>1, <1>2, <2>1, Untouched DEF BothInv, server, watches
  <2>2. CASE StillListed(Old!UpdateOf(n)) /\ WriteStatus(Old!UpdateOf(n))
    <3>1. Old!UpdateOf(n) \in Requests /\ Old!UpdateOf(n).kind = "status"
      BY OldUpdate DEF BothInv, Old!UpdateStatus
    <3> QED BY <1>1, <1>2, <2>2, <3>1, StatusWritten DEF BothInv
  <2> QED BY <2>1, <2>2, SameServer DEF Old!UpdateStatus
<1>5. TypeOK'
  BY <1>1, <1>2, <1>4, Untouched DEF BothInv, TypeOK
<1>6. FragmentsSound'
  BY <1>1, FragmentsFrame DEF BothInv, FragmentsSound, FragmentSound, DelayedSound
<1> QED BY <1>3, <1>5, <1>6 DEF BothInv

LEMMA OldIdle ==
    ASSUME oldRun' = NoRun, oldLeft' = {}, oldPc' = "idle"
    PROVE  OldTypeOK' /\ Sound(oldRun.fragment)'
BY NoRunTyped, NoRunSound DEF OldTypeOK

LEMMA StandbyKeeps ==
    ASSUME TypeOK, FragmentsSound, StandbyLeads
    PROVE  TypeOK' /\ FragmentsSound'
<1>1. RunTypeOK'
  BY NoRunTyped DEF RunTypeOK, StandbyLeads
<1>2. BoundsTypeOK'
  BY FaultTyped DEF TypeOK, BoundsTypeOK, StandbyLeads, history
<1>3. TypeOK'
  BY <1>1, <1>2, Untouched DEF TypeOK, StandbyLeads, history
<1>4. Sound(run.fragment)' /\ UNCHANGED custom /\ DelayedSound'
  BY NoRunSound, FragmentsFrame DEF StandbyLeads, server
<1> QED BY <1>3, <1>4, FragmentsFrame DEF FragmentsSound, FragmentSound, DelayedSound

LEMMA HandOverKeeps ==
    ASSUME BothInv, HandOver
    PROVE  BothInv'
<1>1. Next \/ StandbyLeads
  BY DEF HandOver, Next, Failure
<1>2. TypeOK' /\ FragmentsSound'
  BY <1>1, StepTyped, StepSound, StandbyKeeps DEF BothInv
<1>3. OldTypeOK' /\ Sound(oldRun.fragment)'
  BY DEF HandOver, BothInv, FragmentsSound, TypeOK, RunTypeOK, OldTypeOK
<1> QED BY <1>2, <1>3 DEF BothInv

LEMMA BothStart == BothInit => BothInv
<1> SUFFICES ASSUME BothInit PROVE BothInv
  OBVIOUS
<1>1. TypeOK /\ FragmentsSound
  BY InitTyped, InitSound DEF BothInit
<1>2. OldTypeOK /\ Sound(oldRun.fragment)
  BY NoRunTyped, NoRunSound DEF BothInit, NobodyElse, OldTypeOK
<1> QED BY <1>1, <1>2 DEF BothInv

LEMMA BothStep == BothInv /\ [BothNext]_bothVars => BothInv'
<1> SUFFICES ASSUME BothInv, [BothNext]_bothVars PROVE BothInv'
  OBVIOUS
<1>1. CASE [Next]_vars /\ UNCHANGED old
  <2>1. TypeOK' /\ FragmentsSound'
    BY <1>1, StepTyped, StepSound DEF BothInv
  <2>2. OldTypeOK' /\ Sound(oldRun.fragment)'
    BY <1>1 DEF BothInv, OldTypeOK, old
  <2> QED BY <2>1, <2>2 DEF BothInv
<1>2. CASE HandOver
  BY <1>2, HandOverKeeps
<1>3. CASE GoesOn
  BY <1>3, OldPublishes, OldUpdates DEF GoesOn
<1>4. CASE Exits
  <2>1. [Next]_vars
    BY <1>4 DEF Exits
  <2>2. TypeOK' /\ FragmentsSound'
    BY <2>1, StepTyped, StepSound DEF BothInv
  <2> QED BY <1>4, <2>2, OldIdle DEF Exits, BothInv
<1> QED BY <1>1, <1>2, <1>3, <1>4 DEF BothNext, bothVars

\* For every set of routes and configurations, and however often the lease
\* changes hands while its last holder is still publishing or writing
\* statuses, the managed entry serves no zone twice and no reserved zone.
THEOREM SoundAcrossHandOver == BothSpec => []FragmentSound
<1>1. BothInv => FragmentSound
  BY DEF BothInv, FragmentsSound
<1> QED BY <1>1, BothStart, BothStep, PTL DEF BothSpec

-----------------------------------------------------------------------------
(* Refinement.  A step of the holder is one of Publisher as before, with a *)
(* third slot that it leaves alone; the other steps concern that slot.     *)

AllDrafts == [s \in {"run", "late", "old"} |-> IF s = "old" THEN InOldHand ELSE Drafts[s]]

BothMapped == PublishingByBoth!Next \/ UNCHANGED <<Entry, AllDrafts>>

LEMMA Lifted ==
    ASSUME Mapped, InOldHand' = InOldHand
    PROVE  BothMapped
<1>1. CASE UNCHANGED <<Entry, Drafts>>
  BY <1>1 DEF BothMapped, AllDrafts
<1>2. ASSUME NEW s \in {"run", "late"}, NEW d, Drafts' = [Drafts EXCEPT ![s] = d]
      PROVE  AllDrafts' = [AllDrafts EXCEPT ![s] = d] /\ AllDrafts[s] = Drafts[s]
  BY <1>2, DraftsSlotted DEF AllDrafts
<1>3. CASE Publishing!Compose("run")
  <2>1. PICK f \in Drafts'["run"] : Sound(f) /\ Drafts' = [Drafts EXCEPT !["run"] = {f}]
    BY <1>3 DEF Publishing!Compose
  <2>2. AllDrafts' = [AllDrafts EXCEPT !["run"] = {f}] /\ f \in AllDrafts'["run"]
    BY <1>2, <2>1 DEF AllDrafts
  <2>3. PublishingByBoth!Compose("run")
    BY <1>3, <2>1, <2>2 DEF Publishing!Compose, PublishingByBoth!Compose, AllDrafts
  <2> QED BY <2>3 DEF BothMapped, PublishingByBoth!Next
<1>4. CASE Publishing!Delay("run", "late")
  <2>1. AllDrafts' = [AllDrafts EXCEPT !["run"] = {}, !["late"] = AllDrafts["run"]]
    BY <1>4, DraftsSlotted DEF Publishing!Delay, AllDrafts
  <2>2. AllDrafts["run"] # {} /\ AllDrafts["late"] = {} /\ UNCHANGED Entry
    BY <1>4 DEF Publishing!Delay, AllDrafts
  <2>3. PublishingByBoth!Delay("run", "late")
    BY <2>1, <2>2 DEF PublishingByBoth!Delay, AllDrafts
  <2> QED BY <2>3 DEF BothMapped, PublishingByBoth!Next
<1>5. ASSUME NEW s \in {"run", "late"}, Publishing!Discard(s)
      PROVE  BothMapped
  <2>1. PublishingByBoth!Discard(s)
    BY <1>2, <1>5 DEF Publishing!Discard, PublishingByBoth!Discard, AllDrafts
  <2> QED BY <2>1 DEF BothMapped, PublishingByBoth!Next, PublishingByBoth!Slots
<1>6. ASSUME NEW s \in {"run", "late"}, Publishing!Write(s)
      PROVE  BothMapped
  <2>1. PublishingByBoth!Write(s)
    BY <1>2, <1>6 DEF Publishing!Write, PublishingByBoth!Write, AllDrafts
  <2> QED BY <2>1 DEF BothMapped, PublishingByBoth!Next, PublishingByBoth!Slots
<1>7. CASE Publishing!Overwrite
  <2>1. PublishingByBoth!Overwrite
    BY <1>7 DEF Publishing!Overwrite, PublishingByBoth!Overwrite, AllDrafts
  <2> QED BY <2>1 DEF BothMapped, PublishingByBoth!Next
<1> QED BY <1>1, <1>3, <1>4, <1>5, <1>6, <1>7 DEF Mapped, Publishing!Next, Publishing!Slots

LEMMA HandOverMapped ==
    ASSUME HandOver
    PROVE  BothMapped
<1>1. Entry' = Entry /\ InHand' = {} /\ Delayed' = Delayed /\ InOldHand = {}
      /\ InOldHand' = InHand
  BY Frames DEF HandOver, Restart, StandbyLeads, server, InOldHand, InHand
<1>2. CASE InHand = {}
  BY <1>1, <1>2 DEF BothMapped, AllDrafts, Drafts
<1>3. CASE InHand # {}
  <2>1. AllDrafts' = [AllDrafts EXCEPT !["run"] = {}, !["old"] = AllDrafts["run"]]
        /\ AllDrafts["run"] # {} /\ AllDrafts["old"] = {}
    BY <1>1, <1>3 DEF AllDrafts, Drafts
  <2>2. PublishingByBoth!Delay("run", "old")
    BY <1>1, <2>1 DEF PublishingByBoth!Delay, AllDrafts
  <2> QED BY <2>2 DEF BothMapped, PublishingByBoth!Next
<1> QED BY <1>2, <1>3

LEMMA GoesOnMapped ==
    ASSUME BothInv, GoesOn
    PROVE  BothMapped
<1>1. InHand' = InHand
  BY DEF GoesOn, control, InHand
<1>2. CASE Old!Publish
  <2>1. oldPc = "publish" /\ oldPc' = "status" /\ Delayed' = Delayed
    BY <1>2 DEF Old!Publish, Old!Published, Delayed
  <2>2. AllDrafts' = [AllDrafts EXCEPT !["old"] = {}] /\ AllDrafts["old"] = {oldRun.fragment}
    BY <1>1, <2>1 DEF AllDrafts, Drafts, InOldHand
  <2>3. CASE UNCHANGED custom
    <3>1. PublishingByBoth!Discard("old")
      BY <2>2, <2>3, Frames DEF PublishingByBoth!Discard, AllDrafts
    <3> QED BY <3>1 DEF BothMapped, PublishingByBoth!Next, PublishingByBoth!Slots
  <2>4. CASE custom # Absent /\ ApplyPatch(oldRun.fragment)
    <3>1. oldRun.fragment \in SUBSET Blocks(Names)
      BY DEF BothInv, OldTypeOK, RunState
    <3>2. Entry' = oldRun.fragment
      BY <2>4, <3>1, PatchInPlace DEF BothInv
    <3>3. PublishingByBoth!Write("old")
      BY <2>2, <3>2 DEF PublishingByBoth!Write, AllDrafts
    <3> QED BY <3>3 DEF BothMapped, PublishingByBoth!Next, PublishingByBoth!Slots
  <2> QED BY <1>2, <2>3, <2>4, SameServer DEF Old!Publish
<1>3. CASE \E n \in Names : Old!UpdateStatus(n)
  <2>1. UNCHANGED <<custom, inflight>> /\ InOldHand' = InOldHand
    BY <1>3 DEF Old!UpdateStatus, Old!Due, Old!StatusDone, InOldHand
  <2> QED BY <1>1, <2>1, Frames DEF BothMapped, AllDrafts, Drafts
<1> QED BY <1>2, <1>3 DEF GoesOn

LEMMA ExitsMapped ==
    ASSUME Exits
    PROVE  BothMapped
<1>1. UNCHANGED <<Entry, Drafts>> /\ InOldHand' = {}
  BY DEF Exits, vars, Entry, Drafts, InHand, Delayed, InOldHand
<1>2. AllDrafts' = [AllDrafts EXCEPT !["old"] = {}]
  BY <1>1 DEF AllDrafts
<1>3. PublishingByBoth!Discard("old")
  BY <1>1, <1>2 DEF PublishingByBoth!Discard, AllDrafts
<1> QED BY <1>3 DEF BothMapped, PublishingByBoth!Next, PublishingByBoth!Slots

\* Two processes that both take themselves for the holder do to the managed
\* entry only what Publisher allows, for every value of the constants.
THEOREM PublishesAcross == BothSpec => PublishesAcrossHandOver
<1>1. BothInit => BothInv /\ PublishingByBoth!Init
  <2> SUFFICES ASSUME BothInit PROVE BothInv /\ PublishingByBoth!Init
    OBVIOUS
  <2>1. BothInv
    BY BothStart
  <2>2. Entry \in {Absent, NoKey, Garbage}
    BY DEF BothInit, Init, Entry
  <2>3. AllDrafts = [s \in {"run", "old"} \cup {"late", "old"} |-> {}]
    BY DEF BothInit, Init, NobodyElse, AllDrafts, Drafts, InHand, Delayed, InOldHand
  <2> QED BY <2>1, <2>2, <2>3 DEF PublishingByBoth!Init, PublishingByBoth!Slots, AllDrafts
<1>2. BothInv /\ [BothNext]_bothVars => [PublishingByBoth!Next]_<<Entry, AllDrafts>>
  <2> SUFFICES ASSUME BothInv, [BothNext]_bothVars PROVE BothMapped
    BY DEF BothMapped
  <2>1. CASE [Next]_vars /\ UNCHANGED old
    BY <2>1, StepMapped, Lifted DEF BothInv, old, InOldHand
  <2>2. CASE HandOver
    BY <2>2, HandOverMapped
  <2>3. CASE GoesOn
    BY <2>3, GoesOnMapped
  <2>4. CASE Exits
    BY <2>4, ExitsMapped
  <2> QED BY <2>1, <2>2, <2>3, <2>4 DEF BothNext, bothVars
<1> QED BY <1>1, <1>2, BothStep, PTL
        DEF BothSpec, PublishesAcrossHandOver, PublishingByBoth!Spec, AllDrafts

-----------------------------------------------------------------------------
(* Truth.  The old run was truthful as the holder's, and stays so: what it *)
(* listed grows old, but grew old before as well.                          *)

OldTruthful == RunTruthful(oldPc, oldRun, oldLeft, Now)

BothTruthful == Truthful /\ OldTruthful

\* The holder's own state stands while the old process writes.
LEMMA HolderStands ==
    ASSUME TypeOK, TypeOK', Truthful, Grows(Now, Now'), ServerTruthful', WatchTruthful',
           UNCHANGED <<seenRoutes, seenCustom, pc, run, left, inflight>>
    PROVE  Truthful'
BY Stands DEF Truthful

LEMMA OldPublishedTruthful ==
    ASSUME OldTypeOK, OldTruthful, TypeOK, TypeOK', oldPc = "publish", Grows(Now, Now'),
           NEW outcome \in Outcomes, Old!Published(outcome),
           ForeignApart /\ outcome = "InPlace" => oldRun.fragment \subseteq Now'.wrote
    PROVE  OldTruthful'
<1>1. Now \in Servers /\ Now' \in Servers
  BY ServersTyped
<1>2. oldRun \in RunState /\ \A n \in Present(oldRun.items) : oldRun.verdicts[n] \in RunVerdict
  BY DEF OldTypeOK
<1>3. RunTruthful("publish", oldRun, oldLeft, Now')
  BY <1>1, <1>2, RunKept DEF OldTruthful
<1>4. oldPc' = "status" /\ oldLeft' = Present(oldRun.items)
  BY SameOperators DEF Old!Published
<1>5. oldRun' = [NoRun EXCEPT
                   !.items  = oldRun.items,
                   !.report = [n \in Names |->
                                 IF oldRun.items[n] = Absent THEN NoStatus
                                 ELSE StatusOf(oldRun.items[n].gen, oldRun.verdicts[n], outcome)],
                   !.failed = (outcome = "WriteFailed")]
  BY SameOperators DEF Old!Published
<1>6. RunTruthful("status", oldRun', Present(oldRun.items), Now')
  BY <1>2, <1>3, <1>5, ReportTruthful
<1> QED BY <1>4, <1>6 DEF OldTruthful

LEMMA OldPublishTruthful ==
    ASSUME BothInv, BothInv', BothTruthful, Old!Publish, UNCHANGED control
    PROVE  BothTruthful'
<1>1. /\ oldPc = "publish" /\ UNCHANGED <<routes, revision, routeWatch>>
      /\ UNCHANGED <<seenRoutes, seenCustom, pc, run, left, inflight>>
  BY DEF Old!Publish, Old!cache, control
<1>2. /\ TypeOK /\ TypeOK' /\ OldTypeOK /\ oldRun \in RunState
      /\ oldRun.fragment \in SUBSET Blocks(Names)
  BY DEF BothInv, OldTypeOK, RunState
<1>3. \E outcome \in Outcomes :
         /\ Old!Published(outcome)
         /\ \/ outcome # "InPlace"
            \/ oldRun.custom # Absent /\ oldRun.custom.managed = oldRun.fragment
            \/ custom # Absent /\ ApplyPatch(oldRun.fragment)
  <2>1. CASE ~Old!MustPatch /\ Old!Published(Old!NoCallOutcome)
    <3>1. /\ Old!NoCallOutcome \in Outcomes
          /\ Old!NoCallOutcome = "InPlace" => oldRun.custom # Absent
      BY DEF Old!NoCallOutcome, Outcomes
    <3>2. Old!NoCallOutcome # "InPlace" \/ oldRun.custom.managed = oldRun.fragment
      BY <2>1 DEF Old!MustPatch
    <3> QED BY <2>1, <3>1, <3>2
  <2>2. CASE custom # Absent /\ Old!Published("InPlace") /\ Old!ApplyPatch(oldRun.fragment)
    BY <2>2, SameServer DEF Outcomes
  <2>3. CASE Old!Published("WriteFailed")
    BY <2>3 DEF Outcomes
  <2> QED BY <2>1, <2>2, <2>3 DEF Old!Publish
<1> PICK outcome \in Outcomes :
      /\ Old!Published(outcome)
      /\ \/ outcome # "InPlace"
         \/ oldRun.custom # Absent /\ oldRun.custom.managed = oldRun.fragment
         \/ custom # Absent /\ ApplyPatch(oldRun.fragment)
  BY <1>3
<1>4. /\ Grows(Now, Now') /\ ServerTruthful' /\ WatchTruthful'
      /\ ForeignApart /\ outcome = "InPlace" => oldRun.fragment \subseteq Now'.wrote
  <2>1. CASE custom # Absent /\ ApplyPatch(oldRun.fragment)
    BY <1>1, <1>2, <2>1, PatchWrite DEF BothTruthful, Truthful
  <2>2. CASE /\ UNCHANGED <<custom, configWatch, wrote>>
             /\ ~(custom # Absent /\ ApplyPatch(oldRun.fragment))
    <3>1. Grows(Now, Now') /\ Now' = Now
      BY <1>1, <1>2, <2>2, NothingWritten
    <3>2. ServerTruthful' /\ WatchTruthful'
      BY <1>1, <2>2, <3>1 DEF BothTruthful, Truthful, ServerTruthful, WatchTruthful
    <3>3. ForeignApart /\ outcome = "InPlace" => oldRun.fragment \subseteq Now'.wrote
      BY <1>2, <2>2, <3>1, InPlaceAlready DEF BothTruthful, OldTruthful, RunTruthful
    <3> QED BY <3>1, <3>2, <3>3
  <2> QED BY <2>1, <2>2, SameServer DEF Old!Publish
<1>5. Truthful'
  BY <1>1, <1>2, <1>4, HolderStands DEF BothTruthful
<1>6. OldTruthful'
  BY <1>1, <1>2, <1>4, OldPublishedTruthful DEF BothTruthful
<1> QED BY <1>5, <1>6 DEF BothTruthful

LEMMA OldUpdateTruthful ==
    ASSUME BothInv, BothInv', BothTruthful, NEW n \in Names, Old!UpdateStatus(n),
           UNCHANGED control
    PROVE  BothTruthful'
<1>1. /\ Old!Due(n) /\ UNCHANGED <<custom, configWatch, wrote>>
      /\ UNCHANGED <<seenRoutes, seenCustom, pc, run, left, inflight>>
  BY DEF Old!UpdateStatus, Old!cache, Old!history, control
<1>2. TypeOK /\ TypeOK' /\ OldTypeOK /\ oldRun \in RunState
  BY DEF BothInv, OldTypeOK
<1>3. oldPc = "status" /\ n \in oldLeft /\ n \in Present(oldRun.items)
  BY <1>1, <1>2 DEF Old!Due, OldTypeOK
<1>4. /\ Old!UpdateOf(n) \in Requests /\ Old!UpdateOf(n).kind = "status"
      /\ RequestTruthful(Old!UpdateOf(n), Now)
  BY <1>1, <1>2, <1>3, OldUpdate, UpdateTruthful DEF Old!UpdateOf, BothTruthful, OldTruthful
<1>5. Grows(Now, Now') /\ ServerTruthful' /\ WatchTruthful'
  <2>1. CASE UNCHANGED <<routes, revision, routeWatch>>
    BY <1>1, <1>2, <2>1, NothingWritten
       DEF BothTruthful, Truthful, ServerTruthful, WatchTruthful
  <2>2. CASE StillListed(Old!UpdateOf(n)) /\ WriteStatus(Old!UpdateOf(n))
    BY <1>1, <1>2, <1>4, <2>2, StatusWrite DEF BothTruthful, Truthful
  <2> QED BY <2>1, <2>2, SameServer DEF Old!UpdateStatus
<1>6. Truthful'
  BY <1>1, <1>2, <1>5, HolderStands DEF BothTruthful
<1>7. OldTruthful'
  <2>1. Now \in Servers /\ Now' \in Servers
    BY <1>2, ServersTyped
  <2>2. RunTruthful("status", oldRun, oldLeft, Now')
    BY <1>2, <1>3, <1>5, <2>1, RunKept DEF BothTruthful, OldTruthful
  <2>3. PICK failed : Old!StatusDone(n, failed)
    BY DEF Old!UpdateStatus
  <2>4. /\ oldPc' = "status" /\ oldLeft' \subseteq oldLeft
        /\ oldRun' = [oldRun EXCEPT !.failed = (oldRun.failed \/ failed)]
    BY <1>2, <1>3, <2>3 DEF Old!StatusDone
  <2> QED BY <1>2, <2>2, <2>4, RunGoesOn DEF OldTruthful
<1> QED BY <1>6, <1>7 DEF BothTruthful

LEMMA StandbyTruthful ==
    ASSUME TypeOK, TypeOK', Truthful, StandbyLeads
    PROVE  Grows(Now, Now') /\ Truthful'
<1>1. /\ UNCHANGED <<routes, revision, custom, wrote, seenRoutes, seenCustom, inflight>>
      /\ UNCHANGED <<routeWatch, configWatch>>
      /\ pc' = "idle" /\ run' = NoRun /\ left' = {}
  BY DEF StandbyLeads, server, watches, cache, history
<1>2. Grows(Now, Now') /\ Now' = Now
  BY <1>1, NothingWritten
<1>3. WatchTruthful' /\ RunTruthful(pc', run', left', Now')
  BY <1>1, <1>2, NoRunTruthful DEF Truthful, WatchTruthful
<1> QED BY <1>1, <1>2, <1>3, Stands DEF Truthful

LEMMA BothStartTruthful == BothInit => BothTruthful
BY InitTruthful, NoRunTruthful DEF BothInit, NobodyElse, BothTruthful, OldTruthful

LEMMA BothStepTruthful ==
    BothInv /\ BothTruthful /\ [BothNext]_bothVars => BothTruthful'
<1> SUFFICES ASSUME BothInv, BothTruthful, [BothNext]_bothVars PROVE BothTruthful'
  OBVIOUS
<1>1. BothInv' /\ TypeOK /\ TypeOK' /\ OldTypeOK
  BY BothStep DEF BothInv
<1>2. Now \in Servers /\ Now' \in Servers
  BY <1>1, ServersTyped
<1>3. CASE [Next]_vars /\ UNCHANGED old
  <2>1. Grows(Now, Now') /\ Truthful'
    BY <1>1, <1>3, StepTruthful DEF BothTruthful
  <2>2. OldTruthful'
    BY <1>1, <1>2, <1>3, <2>1, RunKept DEF old, OldTypeOK, OldTruthful, BothTruthful
  <2> QED BY <2>1, <2>2 DEF BothTruthful
<1>4. CASE HandOver
  <2>1. Grows(Now, Now') /\ Truthful'
    BY <1>1, <1>4, RestartTruthful, StandbyTruthful DEF HandOver, BothTruthful
  <2>2. RunTruthful(pc, run, left, Now')
    BY <1>1, <1>2, <2>1, RunKept DEF BothTruthful, Truthful, TypeOK, RunTypeOK
  <2> QED BY <1>4, <2>1, <2>2 DEF HandOver, OldTruthful, BothTruthful
<1>5. CASE GoesOn
  BY <1>1, <1>5, OldPublishTruthful, OldUpdateTruthful DEF GoesOn
<1>6. CASE Exits
  <2>1. Grows(Now, Now') /\ Truthful'
    BY <1>1, <1>6, StepTruthful DEF Exits, BothTruthful
  <2> QED BY <1>6, <2>1, NoRunTruthful DEF Exits, OldTruthful, BothTruthful
<1> QED BY <1>3, <1>4, <1>5, <1>6 DEF BothNext, bothVars

LEMMA BothTruthTold ==
    BothInv /\ BothTruthful => StatusDescribesSpec /\ (ForeignApart => PublishedWasWritten)
BY TruthTold DEF BothInv, BothTruthful

\* Two processes may write statuses of one route in turn, each from a list of
\* its own: what a status of the current generation says is right either way.
THEOREM StatusesDescribeAcross == BothSpec => []StatusDescribesSpec
BY BothStart, BothStep, BothStartTruthful, BothStepTruthful, BothTruthTold, PTL DEF BothSpec

\* And Published keeps its meaning, whichever of the two said it.
THEOREM PublishedAcrossHandOver == BothSpec => [](ForeignApart => PublishedWasWritten)
BY BothStart, BothStep, BothStartTruthful, BothStepTruthful, BothTruthTold, PTL DEF BothSpec

-----------------------------------------------------------------------------
(* Rest.  A hand-over begins a new run over the cache as it stands or over *)
(* a fresh one, and what the old process writes is for the holder a write  *)
(* of others, which the watches announce.                                  *)

LEMMA GoesOnUpToDate ==
    ASSUME TypeOK, TypeOK', OldTypeOK, RestInv, GoesOn
    PROVE  RestInv'
<1>1. UNCHANGED cache /\ UNCHANGED queued /\ UNCHANGED control /\ UNCHANGED corefile
  BY DEF GoesOn, Old!Publish, Old!UpdateStatus, Old!cache, cache
<1>2. WatchesLead' /\ \E e : configWatch' \in {configWatch, Append(configWatch, e)}
  <2>1. CASE Old!Publish
    <3>1. UNCHANGED <<routes, revision, routeWatch>>
      BY <2>1 DEF Old!Publish
    <3>2. CASE UNCHANGED <<custom, configWatch, wrote>>
      BY <1>1, <3>1, <3>2, SameWatches DEF RestInv, server, watches
    <3>3. CASE custom # Absent /\ ApplyPatch(oldRun.fragment)
      BY <1>1, <3>1, <3>3, PatchLeads DEF RestInv
    <3> QED BY <2>1, <3>2, <3>3, SameServer DEF Old!Publish
  <2>2. ASSUME NEW n \in Names, Old!UpdateStatus(n)
        PROVE  WatchesLead' /\ UNCHANGED configWatch
    <3>1. Old!Due(n) /\ UNCHANGED <<corefile, custom, configWatch>>
      BY <2>2 DEF Old!UpdateStatus
    <3>2. CASE UNCHANGED <<routes, revision, routeWatch>>
      BY <1>1, <3>1, <3>2, SameWatches DEF RestInv, server, watches
    <3>3. CASE StillListed(Old!UpdateOf(n)) /\ WriteStatus(Old!UpdateOf(n))
      BY <1>1, <3>1, <3>3, OldUpdate, StatusWriteLeads DEF RestInv
    <3> QED BY <2>2, <3>1, <3>2, <3>3, SameServer DEF Old!UpdateStatus
  <2> QED BY <2>1, <2>2 DEF GoesOn
<1> QED BY <1>1, <1>2, WritesUpToDate DEF RestInv

LEMMA StandbyUpToDate ==
    ASSUME RestInv, StandbyLeads
    PROVE  RestInv'
<1>1. /\ pc' = "idle" /\ UNCHANGED <<seenRoutes, seenCorefile, seenCustom>>
      /\ queued' = (Present(seenRoutes) # {} \/ seenCorefile # Absent \/ seenCustom # Absent)
  BY DEF StandbyLeads, cache
<1>2. WatchesLead'
  BY SameWatches DEF RestInv, StandbyLeads
<1> QED BY <1>1, <1>2 DEF RestInv, UpToDate, Computed, NothingSeen

LEMMA BothStepUpToDate == BothInv /\ RestInv /\ [BothNext]_bothVars => RestInv'
<1> SUFFICES ASSUME BothInv, RestInv, [BothNext]_bothVars PROVE RestInv'
  OBVIOUS
<1>1. TypeOK /\ TypeOK' /\ OldTypeOK
  BY BothStep DEF BothInv
<1>2. CASE [Next]_vars
  BY <1>1, <1>2, StepUpToDate
<1>3. CASE HandOver
  BY <1>1, <1>3, RestartUpToDate, StandbyUpToDate DEF HandOver, RestInv
<1>4. CASE GoesOn
  BY <1>1, <1>4, GoesOnUpToDate
<1> QED BY <1>2, <1>3, <1>4 DEF BothNext, bothVars, Exits

\* Whatever a process that has lost its lease still writes, its successor
\* does not rest until the managed entry is what the server's state calls for
\* (with the two exceptions of FragmentAtRest).
THEOREM RestsAcrossHandOver == BothSpec /\ WatchesKept => []FragmentAtRest
<1>1. BothInit /\ WatchesKept => RestInv
  BY InitUpToDate DEF BothInit
<1>2. BothInv /\ RestInv => FragmentAtRest
  BY RestsRight DEF BothInv
<1> QED BY <1>1, <1>2, BothStart, BothStep, BothStepUpToDate, PTL DEF BothSpec
=============================================================================
