--------------------------- MODULE MCRootsSignature ---------------------------
(* Small instances of RootsSignature for TLC. *)
EXTENDS RootsSignature, TLC

CONSTANTS b1, b2, l1, l2

Conf(b, l, t) == [body |-> b, leaf |-> l, ttl |-> t]

\* The issuing certificate is replaced under the same roots, then the roots change,
\* and with them the lifetime, to one that clients do not accept.
Rotation == {Conf(b1, l1, 4), Conf(b1, l2, 4), Conf(b2, l2, 5)}

\* The client's clock is right, or late by the skew.
ClientLate == {-1, 0}

Symmetry == Permutations(Client) \cup Permutations(Instance)
==============================================================================
