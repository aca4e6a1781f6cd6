---------------------------- MODULE OneTimeService ----------------------------
(***************************************************************************)
(* What the certificate service promises, with no handlers, rows, reaper   *)
(* or backends: a request acts on the world at most once (a certificate in *)
(* the inventory, a revocation), only after it has been granted the        *)
(* one-time use of a credential, and no key is granted again while a grant *)
(* of it runs.  Nothing granted or done is ever undone.                    *)
(* Issuance implements it.                                                 *)
(***************************************************************************)
EXTENDS Integers

CONSTANT CredentialKey   \* the keys that stand for tokens and proofs

VARIABLES
    now,      \* the time
    grants,   \* one-time uses granted: [key, by, exp]
    effects   \* what requests have done: [by, what, serial]

vars == <<now, grants, effects>>

Running(k) == \E g \in grants : g.key = k /\ now < g.exp
Granted(r) == \E g \in grants : g.by = r /\ g.key \in CredentialKey
Spent(r) == \E e \in effects : e.by = r

Init == now = 0 /\ grants = {} /\ effects = {}

Grant ==
    /\ \E g \in grants' : ~Running(g.key) /\ grants' = grants \cup {g}
    /\ UNCHANGED <<now, effects>>

Act ==
    /\ \E e \in effects' : Granted(e.by) /\ ~Spent(e.by) /\ effects' = effects \cup {e}
    /\ UNCHANGED <<now, grants>>

Pass == now' > now /\ UNCHANGED <<grants, effects>>

Next == Grant \/ Act \/ Pass

Spec == Init /\ [][Next]_vars
==============================================================================
