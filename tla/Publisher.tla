------------------------------ MODULE Publisher ------------------------------
(***************************************************************************)
(* What publishing promises, without saying how a fragment comes about: a  *)
(* fragment is composed once, reaches the entry at most once, perhaps after*)
(* its author gave up on it, and is fine when it does.  Nothing but such a *)
(* fragment or what users put there is ever in the entry.                  *)
(***************************************************************************)
CONSTANTS
    Runs,       \* slots in which fragments are composed; each holds one at most
    Astray,     \* slots in which those wait whose author gave up on them
    Fine(_),    \* may this fragment be published?
    Foreign     \* what users leave in the entry

VARIABLES
    entry,      \* the managed entry
    draft       \* slot -> the fragments, one or none, that wait in it

Slots == Runs \cup Astray

Init == entry \in Foreign /\ draft = [s \in Slots |-> {}]

Compose(s) ==
    /\ \E f \in draft'[s] : Fine(f) /\ draft' = [draft EXCEPT ![s] = {f}]
    /\ UNCHANGED entry

Discard(s) == draft' = [draft EXCEPT ![s] = {}] /\ UNCHANGED entry

Delay(s, t) ==
    /\ draft[s] # {} /\ draft[t] = {}
    /\ draft' = [draft EXCEPT ![s] = {}, ![t] = draft[s]]
    /\ UNCHANGED entry

Write(s) == entry' \in draft[s] /\ draft' = [draft EXCEPT ![s] = {}]

Overwrite == entry' \in Foreign /\ UNCHANGED draft

Next ==
    \/ \E s \in Runs : Compose(s) \/ \E t \in Astray : Delay(s, t)
    \/ \E s \in Slots : Discard(s) \/ Write(s)
    \/ Overwrite

Spec == Init /\ [][Next]_<<entry, draft>>
=============================================================================
