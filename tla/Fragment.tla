------------------------------ MODULE Fragment ------------------------------
(***************************************************************************)
(* The contents of the managed entry (internal/render).                    *)
(*                                                                         *)
(* A fragment is the set of its server blocks: the text is one block per   *)
(* route in the order of the names, and the keys of a block are sorted, so *)
(* the sets determine the bytes.  A block keeps its header comment (name,  *)
(* generation) because the bytes are compared as a whole before a write.   *)
(***************************************************************************)
EXTENDS Naturals, Sequences, ZoneNames

DefaultUpstreamPort == 53

Upstream == [address : STRING, port : Nat]

Blocks(names) == [name : names, gen : Nat, keys : SUBSET Zone, forward : Seq(Upstream)]

\* Port 0 in the result stands for a destination written without a port.
UpstreamAddr(u) ==
    [address |-> u.address,
     port    |-> IF u.port \in {0, DefaultUpstreamPort} THEN 0 ELSE u.port]

ZoneKeys(zones) == {Dotless(Canonical(z)) : z \in zones}

Block(r) ==
    [name    |-> r.name,
     gen     |-> r.gen,
     keys    |-> ZoneKeys(r.zones),
     forward |-> [i \in DOMAIN r.upstreams |-> UpstreamAddr(r.upstreams[i])]]

Render(rs) == {Block(r) : r \in rs}
=============================================================================
