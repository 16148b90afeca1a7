---------------------------- MODULE MCWireScript ----------------------------
(***************************************************************************)
(* Small instances of WireScript for TLC.                                  *)
(***************************************************************************)
EXTENDS WireScript

\* The Corefile of kubeadm, one with an import of its own, and one wired.
Plain == {<<"reload">>, <<"reload", "other import">>, <<"reload", "import">>}

\* A Corefile somebody wired by hand in the wrong place.
OnlyInBlock == {<<"import in block">>}

Log == {"log"}

\* The Deployment of kubeadm, and one wired already; one to which somebody gave
\* the volume and not the mount.
NotMounted  == [volume |-> FALSE, mounted |-> FALSE, single |-> FALSE]
Mounted     == [volume |-> TRUE, mounted |-> TRUE, single |-> FALSE]
StrayVolume == [volume |-> TRUE, mounted |-> FALSE, single |-> FALSE]

AllOrNothing == {NotMounted, Mounted}
Stray == {StrayVolume}
=============================================================================
