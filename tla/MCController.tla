---------------------------- MODULE MCController ----------------------------
(***************************************************************************)
(* Small instances of Controller for TLC.                                  *)
(***************************************************************************)
EXTENDS ControllerProperties

a     == Spelling(<<"a">>, FALSE, FALSE)
aLoud == Spelling(<<"a">>, TRUE, TRUE)
b     == Spelling(<<"b">>, FALSE, FALSE)
svc   == Spelling(<<"svc", "local">>, FALSE, FALSE)
root  == Spelling(<<>>, FALSE, TRUE)

MCDomain == Spelling(<<"local">>, FALSE, TRUE)

Up(port) == [address |-> "10.0.0.1", port |-> port]
RouteSpec(zones, upstreams) == [zones |-> zones, upstreams |-> upstreams]

JustA  == RouteSpec({a}, <<Up(53)>>)
JustA2 == RouteSpec({a}, <<Up(5353), Up(53)>>)
AandB  == RouteSpec({aLoud, b}, <<Up(53)>>)
Inside == RouteSpec({svc, b}, <<Up(53)>>)

ServerKey(transport, zone, port) == [transport |-> transport, zone |-> zone, port |-> port]
ConfigText(ok, keys, imports) == [wellFormed |-> ok, keys |-> keys, imports |-> imports]

\* The Corefile of the installation guide; one that lacks the wiring, has an
\* import of its own and serves a over another transport; one with a key that
\* does not parse.
Wired   == ConfigText(TRUE, {ServerKey("dns", root, 0)}, {WiringImport})
Unwired == ConfigText(TRUE, {ServerKey("dns", root, 0), ServerKey("tls", a, 0)}, {"extra"})
BadPort == ConfigText(TRUE, {ServerKey("dns", root, 70000)}, {WiringImport})

\* A neighbouring entry that serves b, and a on another port.
ServesB == ConfigText(TRUE, {ServerKey("dns", b, 0), ServerKey("dns", aLoud, 5353)}, {WiringImport})

\* Two routes that overlap in a zone written in two ways.
Overlapping == {JustA, AandB}
Contested == {AandB}
\* A change of the resolvers only, which also stands for the route whose block
\* the renderer's own check would refuse.
WithResolvers == {AandB, JustA2}
Refused == {JustA2}
\* A route the cluster domain forbids and one it does not touch.
WithReserved == {AandB, Inside}

WiredOnly == {Wired}
Corefiles == {Unwired, BadPort}
NoEntries == {EmptyText}
Entries == {EmptyText, ServesB}
=============================================================================
