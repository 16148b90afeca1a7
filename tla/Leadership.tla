------------------------------ MODULE Leadership ------------------------------
(***************************************************************************)
(* Two processes of the controller (cmd/zoneroute-controller, the lease).  *)
(*                                                                         *)
(* The lease lets one process reconcile at a time, but losing it stops     *)
(* nothing by itself: a process that was paused in a run beyond its lease  *)
(* goes on where it stood until it notices and exits.  Controller          *)
(* describes the holder; the process it took over from is a second copy    *)
(* that shares the server with it.  A process paused among its reads would *)
(* find in its cache what it might as well have read before, so the old    *)
(* one has its reads behind it.                                            *)
(***************************************************************************)
EXTENDS ControllerProperties

VARIABLES oldPc, oldRun, oldLeft    \* the last run of the old process

old      == <<oldPc, oldRun, oldLeft>>
bothVars == <<vars, old>>

Old == INSTANCE Controller WITH pc <- oldPc, run <- oldRun, left <- oldLeft

NobodyElse == oldPc = "idle" /\ oldRun = NoRun /\ oldLeft = {}

\* The informers of a standby run before it gets the lease.  Its cache lags, here
\* as far as the old holder's; its controller is told of every object in it.
StandbyLeads ==
    /\ Fault
    /\ pc' = "idle" /\ run' = NoRun /\ left' = {}
    /\ queued' = (Present(seenRoutes) # {} \/ seenCorefile # Absent \/ seenCustom # Absent)
    /\ UNCHANGED <<server, watches, cache, inflight, edits, history>>

\* Another process gets the lease: a standby, or one that has just listed.
HandOver ==
    /\ pc \in {"publish", "status"} /\ oldPc = "idle"
    /\ StandbyLeads \/ (Restart /\ UNCHANGED inflight)
    /\ oldPc' = pc /\ oldRun' = run /\ oldLeft' = left

\* The old process has not noticed yet.
GoesOn == (Old!Publish \/ \E n \in Names : Old!UpdateStatus(n)) /\ UNCHANGED control

\* The manager returns and the process exits.
Exits ==
    /\ oldPc # "idle"
    /\ oldPc' = "idle" /\ oldRun' = NoRun /\ oldLeft' = {}
    /\ UNCHANGED vars

BothInit == Init /\ NobodyElse

BothNext == (Next /\ UNCHANGED old) \/ HandOver \/ GoesOn \/ Exits

BothSpec == BothInit /\ [][BothNext]_bothVars

-----------------------------------------------------------------------------
(* Two runs at once publish as promised: each writes what it rendered once *)
(* or not at all, and a run that changes hands is still one run.           *)

InOldHand == IF oldPc = "publish" THEN {oldRun.fragment} ELSE {}

PublishingByBoth ==
    INSTANCE Publisher WITH
        Runs <- {"run", "old"}, Astray <- {"late", "old"}, Fine <- Sound,
        Foreign <- {Absent, NoKey, Garbage}, entry <- Entry,
        draft <- [s \in {"run", "late", "old"} |-> IF s = "old" THEN InOldHand ELSE Drafts[s]]

\* What is published while a process that lost its lease is still at work is
\* what the holder alone might publish: sound fragments, each at most once.
PublishesAcrossHandOver == PublishingByBoth!Spec
=============================================================================
