----------------------------- MODULE Conditions -----------------------------
(***************************************************************************)
(* The two conditions of a ZoneRoute (internal/controller/status.go).      *)
(*                                                                         *)
(* A message is kept as the set of items it lists, since two messages are  *)
(* equal exactly when these are; wording and order are left out.  The      *)
(* condition's status is TRUE or FALSE with its reason.                    *)
(***************************************************************************)
EXTENDS FiniteSets

AcceptedReasons ==
    {"ReservedZone", "ZoneOwnedByCoreDNS", "ZoneConflict",
     "AcceptedWithUnresolvedImports", "Accepted"}

PublishedReasons ==
    {"NotAccepted", "IntegrationConfigMissing", "FragmentInvalid",
     "WriteFailed", "CoreDNSNotWired", "Published"}

\* What publish returns: the empty reason of the code is "InPlace".
Outcomes == {"InPlace", "IntegrationConfigMissing", "FragmentInvalid", "WriteFailed"}

AcceptedCondition(d, unresolved) ==
    CASE d.reserved # {}  -> [reason |-> "ReservedZone", items |-> d.reserved]
      [] d.reserved = {} /\ d.owned # {} ->
            [reason |-> "ZoneOwnedByCoreDNS", items |-> d.owned]
      [] d.reserved = {} /\ d.owned = {} /\ d.conflicts # {} ->
            [reason |-> "ZoneConflict", items |-> d.conflicts]
      [] d.reserved \cup d.owned \cup d.conflicts = {} /\ unresolved # {} ->
            [reason |-> "AcceptedWithUnresolvedImports", items |-> unresolved]
      [] OTHER -> [reason |-> "Accepted", items |-> {}]

\* Mistake: the outcome is passed on without the cases that follow it.
OutcomeAsReason(accepted, outcome, wired) == IF accepted THEN outcome ELSE "NotAccepted"

PublishedCondition(accepted, outcome, wired) ==
    CASE ~accepted                        -> "NotAccepted"
      [] accepted /\ outcome # "InPlace"  -> outcome
      [] accepted /\ outcome = "InPlace" /\ ~wired -> "CoreDNSNotWired"
      [] OTHER                            -> "Published"
=============================================================================
