--------------------------- MODULE MCConflictLoop ---------------------------
(***************************************************************************)
(* All inputs of up to three routes over a small set of claims.            *)
(***************************************************************************)
EXTENDS ConflictLoop

a     == Spelling(<<"a">>, FALSE, FALSE)
aLoud == Spelling(<<"a">>, TRUE, TRUE)
b     == Spelling(<<"b">>, FALSE, FALSE)
bSub  == Spelling(<<"x", "b">>, FALSE, TRUE)
svc   == Spelling(<<"svc", "local">>, TRUE, FALSE)

MCDomain == Spelling(<<"local">>, FALSE, TRUE)

ZoneSets == {{a}, {b}, {aLoud, b}, {bSub}, {svc, b}}

Claim(n, t, zs) == [name |-> n, created |-> t, zones |-> zs]

On(transport, zone, port, source) ==
    [transport |-> transport, zone |-> zone, port |-> port, source |-> source]

\* Nothing; other transports and ports; the same listener from two sources.
ExistingSets ==
    {{}, {On("tls", a, 853, 1), On("dns", b, 5353, 1)},
     {On("dns", b, 53, 2), On("dns", b, 53, 1)}}

\* One claim or none for each of three names.
MCInputs ==
    {[claims |-> {Claim(n, f[n][1], f[n][2]) : n \in DOMAIN f}, existing |-> e] :
        f \in UNION {[ns -> {1, 2} \X ZoneSets] : ns \in SUBSET (1 .. 3)},
        e \in ExistingSets}
=============================================================================
