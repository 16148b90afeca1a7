----------------------------- MODULE Inspection -----------------------------
(***************************************************************************)
(* What the controller learns from CoreDNS configuration text              *)
(* (internal/corefile), at the level of whole sources.                     *)
(*                                                                         *)
(* A text is [wellFormed, keys, imports]: whether CoreDNS's parser accepts *)
(* it, the keys of its server blocks as [transport, zone, port] with port  *)
(* 0 where none is written (a 0 that is written is refused and stands with *)
(* the ports out of range), and the patterns of its top-level imports that *)
(* are not snippets of the same text.  The *.server entries of             *)
(* coredns-custom other than the managed one are taken together as one     *)
(* text: what Inspect returns does not depend on how they are split.       *)
(***************************************************************************)
EXTENDS Naturals, ZoneNames

WiringImport == "custom/*.server"

\* Sources are numbered in the order Inspect visits them.
CorefileSource == 0
EntrySource == 1

DefaultPort == [dns |-> 53, tls |-> 853, quic |-> 853, grpc |-> 443,
                https |-> 443, https3 |-> 443, unix |-> 0]

Key  == [transport : STRING, zone : Zone, port : Nat]
Text == [wellFormed : BOOLEAN, keys : SUBSET Key, imports : SUBSET STRING]

EmptyText == [wellFormed |-> TRUE, keys |-> {}, imports |-> {}]

KeyOK(k) == k.transport \in DOMAIN DefaultPort /\ k.port \in 0 .. 65535

Listener(k) ==
    [transport |-> k.transport,
     zone      |-> Canonical(k.zone),
     port      |-> IF k.port = 0 THEN DefaultPort[k.transport] ELSE k.port]

Inspectable(text) == text.wellFormed /\ \A k \in text.keys : KeyOK(k)

ListenersOf(text) == {Listener(k) : k \in text.keys}

Sourced(l, source) ==
    [transport |-> l.transport, zone |-> l.zone, port |-> l.port, source |-> source]

\* A listener is reported with the first source that defines it; an import is
\* the wiring only in the Corefile.
Inspect(corefile, entries) ==
    [listeners  |-> {Sourced(l, CorefileSource) : l \in ListenersOf(corefile)}
                    \cup {Sourced(l, EntrySource) :
                            l \in ListenersOf(entries) \ ListenersOf(corefile)},
     wired      |-> WiringImport \in corefile.imports,
     unresolved |-> {[source |-> CorefileSource, pattern |-> p] :
                        p \in corefile.imports \ {WiringImport}}
                    \cup {[source |-> EntrySource, pattern |-> p] : p \in entries.imports}]
=============================================================================
