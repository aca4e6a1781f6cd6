---------------------------- MODULE MCAnchorSearch ----------------------------
(* Small instances of AnchorSearch for TLC. *)
EXTENDS AnchorSearch

CONSTANTS r, k

\* In force to the last second, and lapsed, at instant 1.
Windows == {<<0, 1>>, <<0, 0>>}

\* A self-signed root without the CA bit, in force or lapsed: pinned is enough.
Root(w) == [subject |-> r, spki |-> k, issuer |-> r, by |-> k, ca |-> FALSE, window |-> w]
Pinned == {{Root(w)} : w \in Windows}

\* At most two certificates besides the signer.
TwoMore == {{a, b} : a, b \in Node}
==============================================================================
