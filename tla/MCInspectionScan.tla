-------------------------- MODULE MCInspectionScan --------------------------
(***************************************************************************)
(* Small inputs for InspectionScan: every Corefile of at most MaxLines     *)
(* lines, with a few coredns-custom ConfigMaps.                            *)
(***************************************************************************)
EXTENDS InspectionScan, TLC

CONSTANT MaxLines

a     == Spelling(<<"a">>, FALSE, FALSE)
aLoud == Spelling(<<"a">>, TRUE, TRUE)
b     == Spelling(<<"b">>, FALSE, FALSE)
ServerKey(zone, port) == [transport |-> "dns", zone |-> zone, port |-> port]

Lines == {Open(ServerKey(a, 53)), Snippet("common"), Close,
          Import(WiringImport), Import("common"), Import("extra")}

Corefiles == {lines \in UNION {[1 .. n -> Lines] : n \in 0 .. MaxLines} : Bracketed(lines)}

\* Entries 1 and 2 are served, 3 is ZoneRoute's, 4 is not imported.
MCServerKeys == {1, 2, 3}
MCManagedKey == 3
OpenAndShut(zone, port) == <<Open(ServerKey(zone, port)), Close>>
Servers == {
    <<>>,
    <<OpenAndShut(aLoud, 0) \o <<Import(WiringImport)>>,
      OpenAndShut(a, 53) \o OpenAndShut(b, 0)>>,
    <<<<Snippet("common"), Close>>, <<Import("common")>> \o OpenAndShut(b, 5353),
      <<Open(ServerKey(a, 70000))>>, <<Snippet("x")>>>>,
    2 :> OpenAndShut(b, 70000) @@ 4 :> OpenAndShut(b, 53)}

MCInputs == [corefile : Corefiles, servers : Servers]

\* No files but those of coredns-custom are imported, and that is empty.
NoOtherFiles ==
    {[corefile |-> lines, servers |-> <<>>] :
        lines \in {l \in Corefiles : \A i \in DOMAIN l : l[i] # Import("extra")}}
=============================================================================
