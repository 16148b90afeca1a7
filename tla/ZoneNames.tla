----------------------------- MODULE ZoneNames -----------------------------
(***************************************************************************)
(* Zone names as the program sees them (internal/dnsname).                 *)
(*                                                                         *)
(* A name is the sequence of its labels, leftmost first, together with the *)
(* two things two spellings of one zone can differ in: whether some letter *)
(* is in upper case, and whether the name is written with its trailing     *)
(* dot.  Labels themselves are never taken apart.                          *)
(***************************************************************************)
EXTENDS Sequences, Naturals
LOCAL INSTANCE SequencesExt

Zone == [labels : Seq(STRING), upper : BOOLEAN, dot : BOOLEAN]

Spelling(labels, upper, dot) == [labels |-> labels, upper |-> upper, dot |-> dot]

\* The form every comparison in the program uses: lower case, one final dot.
Canonical(z) == [z EXCEPT !.upper = FALSE, !.dot = TRUE]

\* The Corefile's own convention: the canonical name without its final dot.
Dotless(z) == [z EXCEPT !.dot = FALSE]

\* z is the domain or one of its descendants; both are canonical.  Comparing
\* whole labels is what the leading dot of the code's suffix test achieves:
\* "mycluster.local." is not inside "cluster.local.".
InDomain(z, domain) == z = domain \/ IsStrictSuffix(domain.labels, z.labels)
=============================================================================
