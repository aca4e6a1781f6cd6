------------------------------ MODULE MCIssuance ------------------------------
(* Small instances of Issuance for TLC: the constants of every run. *)
EXTENDS Issuance, FiniteSets, TLC

CONSTANTS t1, t2, p1, p2, k1, n1, n2, j1, j2, x1, x2, g1

Tok(nbf, exp, jti, op, sub, once) ==
    [nbf |-> nbf, exp |-> exp, jti |-> jti, aud |-> {op}, sub |-> sub, once |-> once, renew |-> TRUE]

Prf(iat, jti, op) == [iat |-> iat, jti |-> jti, htu |-> op, key |-> k1]

Once(x, e) == <<[scope |-> x, expires |-> e]>>

Reply(back, extend, once) == [back |-> back, extend |-> extend, renew |-> TRUE, once |-> once]

\* A sign request that asks for an earlier notBefore.
PastStart == {-1}

NoTokens == [t \in {} |-> 0]
NoProofs == [p \in {} |-> 0]
PlainReplies == {Reply(0, 0, <<>>)}

\* One token, presented twice.
OneToken == t1 :> Tok(0, 0, j1, "sign", n1, <<>>)

\* A token with a scope that has its own expiry, beside a token to revoke the
\* certificate held.
SignOrRevoke == t1 :> Tok(0, 0, j1, "sign", n1, Once(x2, 1))
             @@ t2 :> Tok(0, 0, j2, "revoke", g1, <<>>)

\* Two tokens, the second of a later time.
TwoTokens == t1 :> Tok(0, 0, j1, "sign", n1, <<>>)
          @@ t2 :> Tok(2, 2, j2, "sign", n2, <<>>)

\* Hooks that assert one scope for everybody, until the certificate expires, and stretch
\* the window at both ends; or that collapse the window.
WindowReplies == {Reply(-1, 1, Once(x1, Absent)), Reply(3, -2, <<>>)}

\* Hooks that move the start back.
EarlyReplies == {Reply(-1, 1, <<>>)}

\* A client that holds a certificate and can renew or revoke it.  The proof and
\* the token share a jti value.
HeldCert == [serial |-> g1, cn |-> n1, key |-> k1, nb |-> 0, na |-> 3, renewable |-> TRUE,
             by |-> Absent, scopes |-> {}]
OneGenesis == {HeldCert}
NoGenesis == {}
RenewProof == p1 :> Prf(0, j1, "renew")
RekeyProofs == p1 :> Prf(0, j1, "rekey") @@ p2 :> Prf(3, j2, "revoke")

Symmetry == Permutations(Req)
SymmetryFresh == Permutations(Req) \cup Permutations(Serial)
==============================================================================
