------------------------------- MODULE Issuance -------------------------------
(***************************************************************************)
(* The certificate service (ayane/src/service.rs): concurrent sign, renew, *)
(* rekey and revoke requests over one store.  A request is a handler that  *)
(* runs from one await to the next; between two of its steps other         *)
(* requests, the clock and the reaper move.                                *)
(*                                                                         *)
(*   sign          validate token -> hooks -> claim jti -> claim scopes    *)
(*                   -> sign certificate -> record -> emit -> respond      *)
(*   renew, rekey  read revocation -> verify proof -> hooks -> (as sign)   *)
(*   revoke        verify token or proof -> claim jti -> revoke -> emit    *)
(*                   -> respond                                            *)
(*                                                                         *)
(* Names, SANs, key usages and extensions are left out; where they steer   *)
(* the control flow (a SAN not permitted, a name that a certificate cannot *)
(* carry) the refusal is a choice.  The answer of the whole hook pipeline  *)
(* is one record of HookReplies, a denial, or an error.                    *)
(***************************************************************************)
EXTENDS Storage, Sequences

CONSTANTS
    REPLAY_LEEWAY,  \* clock-skew leeway of validators and of claim expiries
    DPOP_MAX_AGE,   \* oldest accepted DPoP proof
    Token,          \* one-time tokens
    TokenInfo,      \* token -> claims
    Proof,          \* DPoP proofs
    ProofInfo,      \* proof -> claims and signing key
    Key,            \* subject key pairs
    Name,           \* subject common names
    Ops,            \* the operations this instance exercises
    Starts,         \* notBefore a sign request asks for, relative to now (0: none)
    Requested,      \* validity durations it asks for
    MinValidity, MaxValidity, Backdate,   \* the certificate template
    HookReplies,    \* merged answers of the hook pipeline that allow
    Genesis,        \* certificates issued before the modelled history
    MaxTime,        \* bound on the clock
    MaxDelay        \* bound on the time from the first check of a request
                    \* (the read of the revocation, the validation of its
                    \* credential) to its claim: hooks, queueing

Credential == Token \cup Proof

OnceClaim == [scope : Scope, expires : Nat \cup {Absent}]

\* The last two fields are history: the request that had the certificate signed, and
\* the scopes that request claimed until the certificate's own expiry.
Certificate == [serial : Serial, cn : Name, key : Key, nb : Int, na : Int,
                renewable : BOOLEAN, by : Req \cup {Absent}, scopes : SUBSET Scope]

\* A certificate being prepared has no serial until the CA signs it.
Draft == [serial : Serial \cup {Absent}, cn : Name, key : Key, nb : Int, na : Int,
          renewable : BOOLEAN, by : Req \cup {Absent}, scopes : SUBSET Scope]

ASSUME IssuanceAssumption ==
    /\ REPLAY_LEEWAY \in Nat
    /\ DPOP_MAX_AGE \in Nat
    /\ MaxTime \in Nat
    /\ MaxDelay \in Nat
    /\ MinValidity \in Nat /\ MaxValidity \in Nat /\ Backdate \in Nat
    /\ Starts \subseteq Int /\ Requested \subseteq Nat
    /\ Ops \subseteq {"sign", "renew", "rekey", "revoke"}
    /\ Token \cap Proof = {}
    /\ Absent \notin Credential
    /\ TokenInfo \in [Token -> [nbf : Nat, exp : Nat, jti : Jti, aud : SUBSET Ops,
                                sub : Name \cup Serial, once : Seq(OnceClaim), renew : BOOLEAN]]
    /\ ProofInfo \in [Proof -> [iat : Nat, jti : Jti, htu : Ops, key : Key]]
    /\ HookReplies \subseteq [back : Int, extend : Int, renew : BOOLEAN, once : Seq(OnceClaim)]
    /\ Genesis \subseteq Certificate
    /\ \A c \in Genesis : c.by = Absent /\ c.scopes = {}

VARIABLES
    pc,       \* where each handler is
    cred,     \* the credential it validated
    validAt,  \* when its first check was passed, until the claim is decided
    clk,      \* the clock it read for the claim in flight
    plan,     \* the issuance it is preparing
    result,   \* how it ends, until the response is sent
    event,    \* outcome of the audit event it emitted
    held,     \* certificates that reached a client
    claims    \* history: every claim that took effect

vars == <<now, tokens, revocations, inventory, pc, cred, validAt, clk, plan,
          result, event, held, claims>>
storeVars == <<tokens, revocations, inventory>>

Pcs == {"new", "proof", "hooks", "jti", "jti_wait", "scope", "scope_wait",
        "issue", "record", "revoke", "emit", "respond", "done", "dropped"}
Results == {"none", "ok", "rejected", "hook", "replay", "scope_taken", "unencodable", "error"}

Claim == [key : ClaimKey, cred : Credential, by : Req, at : Nat, exp : Nat]

\* What a handler has gathered: its operation, the serial to revoke, the certificate
\* presented, the certificate being built, and the scopes still to claim.
NoPlan == [op |-> "none", target |-> Absent, parent |-> Absent, cert |-> Absent, once |-> <<>>]

Init ==
    /\ now = 0
    /\ tokens = [k \in ClaimKey |-> Absent]
    /\ revocations = [s \in Serial |-> Absent]
    /\ inventory = Genesis
    /\ pc = [r \in Req |-> "new"]
    /\ cred = [r \in Req |-> Absent]
    /\ validAt = [r \in Req |-> 0]
    /\ clk = [r \in Req |-> 0]
    /\ plan = [r \in Req |-> NoPlan]
    /\ result = [r \in Req |-> "none"]
    /\ event = [r \in Req |-> "none"]
    /\ held = Genesis
    /\ claims = {}

----------------------------------------------------------------------------
(* Credentials *)

\* The last second at which the validator accepts the credential.
AcceptUntil(x) ==
    IF x \in Token THEN TokenInfo[x].exp + REPLAY_LEEWAY
                   ELSE ProofInfo[x].iat + DPOP_MAX_AGE

TokenAccepted(t, op) ==
    /\ op \in TokenInfo[t].aud
    /\ TokenInfo[t].nbf <= now + REPLAY_LEEWAY
    /\ now <= AcceptUntil(t)

ProofAccepted(p, key, op) ==
    /\ ProofInfo[p].key = key
    /\ ProofInfo[p].htu = op
    /\ ProofInfo[p].iat <= now + REPLAY_LEEWAY
    /\ now <= AcceptUntil(p)

\* Mutant of ReplayKey: tokens and proofs in one keyspace.
ReplayKey_Shared(x) == <<"ott", IF x \in Token THEN TokenInfo[x].jti ELSE ProofInfo[x].jti>>

ReplayKey(x) ==
    IF x \in Token THEN <<"ott", TokenInfo[x].jti>> ELSE <<"dpop", ProofInfo[x].jti>>

\* The expiry the handler asks for: exp + leeway, or iat + max age + leeway.
ReplayExpiry(x) ==
    IF x \in Token THEN TokenInfo[x].exp + REPLAY_LEEWAY
                   ELSE ProofInfo[x].iat + DPOP_MAX_AGE + REPLAY_LEEWAY

\* Mutant of FlooredExpiry: the floor taken as the expiry.
FlooredExpiry_Floor(e, t) == t + REPLAY_LEEWAY

\* claim_once floors every expiry at the clock it read plus the leeway.
FlooredExpiry(e, t) == IF e >= t + REPLAY_LEEWAY THEN e ELSE t + REPLAY_LEEWAY

Least(a, b) == IF a <= b THEN a ELSE b

----------------------------------------------------------------------------
(* Steps of a handler *)

\* The handler ends with `why`; the event and the response are still to come.
Finish(r, why) ==
    /\ pc' = [pc EXCEPT ![r] = "emit"]
    /\ result' = [result EXCEPT ![r] = why]

Go(r, there) == pc' = [pc EXCEPT ![r] = there] /\ UNCHANGED result

\* A request that fails a check before its hooks: malformed input, a bad
\* signature, a token bound to another CSR, a SAN the token does not permit, an
\* unknown template, a failed lookup.
Reject(r) ==
    /\ pc[r] = "new"
    /\ \E why \in {"rejected", "error"} : Finish(r, why)
    /\ UNCHANGED <<now, storeVars, cred, validAt, clk, plan, event, held, claims>>

Validated(r, x) ==
    /\ cred' = [cred EXCEPT ![r] = x]
    /\ validAt' = [validAt EXCEPT ![r] = now]

\* try_sign up to its hooks: the token is valid and the template gives a window.
ValidateToken(r, t, key, from, d) ==
    LET nb == now + from - Backdate
        life == Least(d, MaxValidity + Backdate)
    IN  /\ "sign" \in Ops
        /\ pc[r] = "new"
        /\ TokenAccepted(t, "sign")
        /\ TokenInfo[t].sub \in Name
        /\ d >= MinValidity
        /\ Validated(r, t)
        /\ plan' = [plan EXCEPT ![r] =
                      [op |-> "sign", target |-> Absent, parent |-> Absent,
                       once |-> TokenInfo[t].once,
                       cert |-> [serial |-> Absent, cn |-> TokenInfo[t].sub, key |-> key,
                                 nb |-> nb, na |-> nb + life, renewable |-> TokenInfo[t].renew,
                                 by |-> r, scopes |-> {}]]]
        /\ Go(r, "hooks")
        /\ UNCHANGED <<now, storeVars, clk, event, held, claims>>

\* try_renew_or_rekey's first await: is the presented certificate revoked?
ReadRevocation(r, op, c) ==
    /\ op \in Ops \cap {"renew", "rekey"}
    /\ pc[r] = "new"
    /\ plan' = [plan EXCEPT ![r] = [NoPlan EXCEPT !.op = op, !.parent = c]]
    /\ \E rec \in RevocationReads(c.serial) :
          IF rec = Absent THEN Go(r, "proof") /\ validAt' = [validAt EXCEPT ![r] = now]
                          ELSE Finish(r, "rejected") /\ UNCHANGED validAt
    /\ UNCHANGED <<now, storeVars, cred, clk, event, held, claims>>

\* The rest up to the hooks: renewable, unexpired, proof of possession.  The
\* baseline window keeps the duration of the presented certificate.
VerifyProof(r, p, key) ==
    LET c == plan[r].parent
    IN  /\ pc[r] = "proof"
        /\ c.renewable
        /\ now < c.na
        /\ ProofAccepted(p, c.key, plan[r].op)
        /\ plan[r].op = "renew" => key = c.key
        /\ cred' = [cred EXCEPT ![r] = p]
        /\ plan' = [plan EXCEPT ![r] = [@ EXCEPT !.cert =
                      [c EXCEPT !.serial = Absent, !.key = key, !.nb = now,
                                !.na = now + (c.na - c.nb), !.by = r]]]
        /\ Go(r, "hooks")
        /\ UNCHANGED <<now, storeVars, validAt, clk, event, held, claims>>

\* The presented certificate is expired or not renewable, or the proof or the new
\* CSR does not verify.
RejectReissue(r) ==
    /\ pc[r] = "proof"
    /\ \E why \in {"rejected", "error"} : Finish(r, why)
    /\ UNCHANGED <<now, storeVars, cred, validAt, clk, plan, event, held, claims>>

\* try_revoke up to its claim: a token whose subject is the serial (of any
\* certificate, issued or not), or a proof by the key of the certificate itself.
AuthorizeRevoke(r, x, s) ==
    /\ "revoke" \in Ops
    /\ pc[r] = "new"
    /\ \/ x \in Token /\ TokenAccepted(x, "revoke") /\ TokenInfo[x].sub = s
       \/ x \in Proof /\ \E c \in held : c.serial = s /\ ProofAccepted(x, c.key, "revoke")
    /\ Validated(r, x)
    /\ plan' = [plan EXCEPT ![r] = [NoPlan EXCEPT !.op = "revoke", !.target = s]]
    /\ Go(r, "jti")
    /\ UNCHANGED <<now, storeVars, clk, event, held, claims>>

\* Mutant of HooksRefuse: the hooks are asked once the claims are made.
HooksRefuse_Late(r) ==
    /\ pc[r] = "issue"
    /\ Finish(r, "hook")
    /\ UNCHANGED <<now, storeVars, cred, validAt, clk, plan, event, held, claims>>

\* A hook denies, none grants what needs a grant, or one times out or fails.
HooksRefuse(r) ==
    /\ pc[r] = "hooks"
    /\ \E why \in {"hook", "error"} : Finish(r, why)
    /\ UNCHANGED <<now, storeVars, cred, validAt, clk, plan, event, held, claims>>

\* Mutant of Ceiling: measured from the baseline's end.
Ceiling_FromEnd(op, nb, na) == na + MaxValidity + Backdate

\* The latest notAfter a hook may reach: the template's maximum for a new
\* certificate, the baseline notAfter for a reissue.
Ceiling(op, nb, na) == IF op = "sign" THEN nb + MaxValidity + Backdate ELSE na

\* The scopes of a list that are held until the certificate's own notAfter.
OwnExpiry(once) ==
    {once[i].scope : i \in {j \in DOMAIN once : once[j].expires = Absent}}

\* The hooks allow: window, renewability and scopes are taken over and re-clamped.
HooksAllow(r, h) ==
    LET c  == plan[r].cert
        nb == c.nb + h.back
        na == Least(c.na + h.extend, Ceiling(plan[r].op, nb, c.na))
        once == h.once \o plan[r].once
    IN  /\ pc[r] = "hooks"
        /\ IF na <= nb
           THEN Finish(r, "hook") /\ UNCHANGED plan
           ELSE /\ plan' = [plan EXCEPT ![r] = [@ EXCEPT
                     !.cert = [c EXCEPT !.nb = nb, !.na = na,
                                        !.renewable = c.renewable /\ h.renew,
                                        !.scopes = OwnExpiry(once)],
                     !.once = once]]
                /\ Go(r, "jti")
        /\ UNCHANGED <<now, storeVars, cred, validAt, clk, event, held, claims>>

\* claim_once reads the clock before it waits for the connection.
ReadClock(r) ==
    /\ \/ pc[r] = "jti" /\ Go(r, "jti_wait")
       \/ pc[r] = "scope" /\ Go(r, "scope_wait")
    /\ clk' = [clk EXCEPT ![r] = now]
    /\ UNCHANGED <<now, storeVars, cred, validAt, plan, event, held, claims>>

\* The row of `k` is written, and the claim enters the history.
TakeClaim(r, k, e) ==
    /\ Claimable(k, clk[r])
    /\ tokens' = ClaimRow(k, FlooredExpiry(e, clk[r]))
    /\ claims' = claims \cup {[key |-> k, cred |-> cred[r], by |-> r, at |-> now,
                               exp |-> FlooredExpiry(e, clk[r])]}

\* Mutant of ClaimFails: a store that does not answer counts as a claim.
ClaimFails_Open(r, k, e, taken) ==
    \/ ~Claimable(k, clk[r]) /\ Finish(r, taken) /\ UNCHANGED <<tokens, claims>>
    \/ Go(r, IF plan[r].op = "revoke" THEN "revoke" ELSE "issue") /\ UNCHANGED <<tokens, claims>>

\* A claim that does not succeed: the key is taken (`taken`), the store fails
\* before the write, or (a DynamoDB response lost, possibly retried by the SDK)
\* after it.
ClaimFails(r, k, e, taken) ==
    \/ ~Claimable(k, clk[r]) /\ Finish(r, taken) /\ UNCHANGED <<tokens, claims>>
    \/ Finish(r, "error") /\ UNCHANGED <<tokens, claims>>
    \/ /\ Backend = "dynamodb"
       /\ TakeClaim(r, k, e)
       /\ \E why \in {"error", taken} : Finish(r, why)

\* Where the handler goes with the scopes `left` to claim.
AfterClaims(r, left) ==
    IF plan[r].op = "revoke" THEN "revoke" ELSE IF left = <<>> THEN "issue" ELSE "scope"

claim_jti(r) ==
    LET k == ReplayKey(cred[r])
        e == ReplayExpiry(cred[r])
    IN  /\ pc[r] = "jti_wait"
        /\ \/ /\ TakeClaim(r, k, e)
              /\ Go(r, AfterClaims(r, plan[r].once))
              /\ clk' = [clk EXCEPT ![r] = 0]
           \/ ClaimFails(r, k, e, "replay") /\ UNCHANGED clk
        /\ validAt' = [validAt EXCEPT ![r] = 0]
        /\ UNCHANGED <<now, revocations, inventory, cred, plan, event, held>>

\* The scopes are claimed one after the other; one refused leaves the earlier held.
claim_once_scopes(r) ==
    LET o == Head(plan[r].once)
        k == <<"scope", o.scope>>
        e == IF o.expires = Absent THEN plan[r].cert.na ELSE o.expires
        left == Tail(plan[r].once)
    IN  /\ pc[r] = "scope_wait"
        /\ \/ /\ TakeClaim(r, k, e)
              /\ plan' = [plan EXCEPT ![r] = [@ EXCEPT !.once = left]]
              /\ Go(r, AfterClaims(r, left))
              /\ clk' = [clk EXCEPT ![r] = 0]
           \/ ClaimFails(r, k, e, "scope_taken") /\ UNCHANGED <<plan, clk>>
        /\ UNCHANGED <<now, revocations, inventory, cred, validAt, event, held>>

\* The CA draws a serial, builds the certificate and signs (ca.issue, ca.reissue); its
\* key fails; or a common name or a SAN, the token's or a hook's, turns out not to fit
\* into a certificate, which nothing has checked before (a BadRequest, after the claims).
Issue(r) ==
    LET c == plan[r].cert
    IN  /\ pc[r] = "issue"
        /\ \/ /\ \E s \in Serial :
                    plan' = [plan EXCEPT ![r] = [@ EXCEPT !.cert = [c EXCEPT !.serial = s]]]
              /\ Go(r, "record")
           \/ (\E why \in {"error", "unencodable"} : Finish(r, why)) /\ UNCHANGED plan
        /\ UNCHANGED <<now, storeVars, cred, validAt, clk, event, held, claims>>

\* Mutant of record_certificate: a failed insert is ignored.
record_certificate_FailOpen(r) ==
    /\ pc[r] = "record"
    /\ \/ ~RowTaken(plan[r].cert) /\ inventory' = inventory \cup {plan[r].cert}
       \/ UNCHANGED inventory
    /\ Finish(r, "ok")
    /\ UNCHANGED <<now, tokens, revocations, cred, validAt, clk, plan, event, held, claims>>

\* The inventory row is written before the certificate is handed out.
record_certificate(r) ==
    LET c == plan[r].cert
    IN  /\ pc[r] = "record"
        /\ \/ /\ ~RowTaken(c)
              /\ inventory' = inventory \cup {c}
              /\ \/ Finish(r, "ok")
                 \/ Backend = "dynamodb" /\ Finish(r, "error")
           \/ Finish(r, "error") /\ UNCHANGED inventory
        /\ UNCHANGED <<now, tokens, revocations, cred, validAt, clk, plan, event, held, claims>>

revoke(r) ==
    LET s == plan[r].target
    IN  /\ pc[r] = "revoke"
        /\ \/ /\ revocations' = RevokeRow(s, [at |-> now, by |-> r])
              /\ \/ Finish(r, "ok")
                 \/ Backend = "dynamodb" /\ Finish(r, "error")
           \/ Finish(r, "error") /\ UNCHANGED revocations
        /\ UNCHANGED <<now, tokens, inventory, cred, validAt, clk, plan, event, held, claims>>

\* Mutant of Outcome: errors pass for successes.
Outcome_Lax(why) == IF why \in {"ok", "error"} THEN "success" ELSE "denied"

\* The event outcome of each way to end.
Outcome(why) ==
    CASE why = "ok" -> "success" [] why = "error" -> "error" [] OTHER -> "denied"

\* One event per request, after the decision and before the response.
Emit(r) ==
    /\ pc[r] = "emit"
    /\ event' = [event EXCEPT ![r] = Outcome(result[r])]
    /\ Go(r, "respond")
    /\ UNCHANGED <<now, storeVars, cred, validAt, clk, plan, held, claims>>

\* The handler's locals go with it.
Release(r) ==
    /\ cred' = [cred EXCEPT ![r] = Absent]
    /\ validAt' = [validAt EXCEPT ![r] = 0]
    /\ clk' = [clk EXCEPT ![r] = 0]
    /\ plan' = [plan EXCEPT ![r] = NoPlan]
    /\ result' = [result EXCEPT ![r] = "none"]

Respond(r) ==
    /\ pc[r] = "respond"
    /\ held' = IF result[r] = "ok" /\ plan[r].op # "revoke" THEN held \cup {plan[r].cert} ELSE held
    /\ pc' = [pc EXCEPT ![r] = "done"]
    /\ Release(r)
    /\ UNCHANGED <<now, storeVars, event, claims>>

\* The connection closes, or the process stops: the handler's future is dropped
\* at the await it is at, and nothing after it runs.
Drop(r) ==
    /\ pc[r] \notin {"new", "done", "dropped"}
    /\ pc' = [pc EXCEPT ![r] = "dropped"]
    /\ Release(r)
    /\ UNCHANGED <<now, storeVars, event, held, claims>>

----------------------------------------------------------------------------
(* Environment *)

\* The checks have begun and the claim of the credential has not been decided yet.
Pending(r) == pc[r] \in {"proof", "hooks", "jti", "jti_wait"}

\* The clock moves, but lets no request exceed MaxDelay.
Tick ==
    /\ now < MaxTime
    /\ \A r \in Req : Pending(r) => now < validAt[r] + MaxDelay
    /\ now' = now + 1
    /\ UNCHANGED <<storeVars, pc, cred, validAt, clk, plan, result, event, held, claims>>

Reap ==
    /\ reap_expired \/ \E k \in ClaimKey : TtlSweep(k)
    /\ UNCHANGED <<now, revocations, inventory, pc, cred, validAt, clk, plan, result,
                   event, held, claims>>

Start(r) ==
    \/ \E t \in Token, key \in Key, from \in Starts, d \in Requested :
          ValidateToken(r, t, key, from, d)
    \/ \E op \in {"renew", "rekey"}, c \in held : ReadRevocation(r, op, c)
    \/ \E x \in Credential, s \in Serial : AuthorizeRevoke(r, x, s)
    \/ Reject(r)

Continue(r) ==
    \/ \E p \in Proof, key \in Key : VerifyProof(r, p, key)
    \/ RejectReissue(r)
    \/ HooksRefuse(r)
    \/ \E h \in HookReplies : HooksAllow(r, h)
    \/ ReadClock(r)
    \/ claim_jti(r)
    \/ claim_once_scopes(r)
    \/ Issue(r)
    \/ record_certificate(r)
    \/ revoke(r)
    \/ Emit(r)
    \/ Respond(r)

Next ==
    \/ \E r \in Req : Start(r) \/ Continue(r) \/ Drop(r)
    \/ Reap
    \/ Tick

Spec == Init /\ [][Next]_vars

----------------------------------------------------------------------------
(* Properties *)

Planned == [op : {"none", "sign", "renew", "rekey", "revoke"},
            target : Serial \cup {Absent},
            parent : Certificate \cup {Absent},
            cert : Draft \cup {Absent},
            once : Seq(OnceClaim)]

\* The type of every variable of the service and its store.
TypeOK ==
    /\ now \in 0..MaxTime
    /\ tokens \in [ClaimKey -> Nat \cup {Absent}]
    /\ revocations \in [Serial -> Revocation \cup {Absent}]
    /\ inventory \subseteq Certificate
    /\ pc \in [Req -> Pcs]
    /\ cred \in [Req -> Credential \cup {Absent}]
    /\ validAt \in [Req -> Nat]
    /\ clk \in [Req -> Nat]
    /\ plan \in [Req -> Planned]
    /\ result \in [Req -> Results]
    /\ event \in [Req -> {"none", "success", "denied", "error"}]
    /\ held \subseteq Certificate
    /\ claims \subseteq Claim

\* What the code's types promise and the order of the awaits provides: a handler
\* never reaches a step without the value that the step consumes (a validated
\* credential to claim, a scope to claim, a signed certificate to record).
StageOK ==
    \A r \in Req :
        /\ pc[r] = "proof" => plan[r].parent \in Certificate /\ plan[r].op \in {"renew", "rekey"}
        /\ pc[r] \in {"hooks", "jti", "jti_wait", "scope", "scope_wait"} => cred[r] \in Credential
        /\ pc[r] \in {"hooks", "scope", "scope_wait", "issue", "record"} =>
              plan[r].op # "revoke" /\ plan[r].cert \in Draft
        /\ pc[r] \in {"jti", "jti_wait"} =>
              IF plan[r].op = "revoke" THEN plan[r].target \in Serial ELSE plan[r].cert \in Draft
        /\ pc[r] \in {"scope", "scope_wait"} => plan[r].once # <<>>
        /\ pc[r] = "revoke" => plan[r].op = "revoke" /\ plan[r].target \in Serial
        /\ pc[r] = "record" => plan[r].cert \in Certificate
        /\ pc[r] \in {"emit", "respond"} /\ result[r] = "ok" /\ plan[r].op # "revoke" =>
              plan[r].cert \in Certificate

\* Two claims of one key never overlap: the later one is made only once the
\* earlier has expired, whatever the order in which racing requests, the reaper
\* and stale clock readings meet (claim_token of both backends).
ClaimExclusion ==
    \A c, d \in claims :
        c # d /\ c.key = d.key => c.exp <= d.at \/ d.exp <= c.at

\* A one-time token takes effect for at most one request (claim_jti, "ott").
TokenSingleUse ==
    \A c, d \in claims :
        c.key[1] = "ott" /\ d.key[1] = "ott" /\ c.cred = d.cred => c.by = d.by

\* A DPoP proof takes effect for at most one request (claim_jti, "dpop").
ProofSingleUse ==
    \A c, d \in claims :
        c.key[1] = "dpop" /\ d.key[1] = "dpop" /\ c.cred = d.cred => c.by = d.by

\* A refusal as a replay or a taken scope is justified: some request holds a claim on
\* that very key, not expired (over DynamoDB: nor out of its TTL buffer) at the clock
\* that the refused one read.  Over DynamoDB it may be the request's own claim, if the
\* response to it was lost (claim_token).
RefusalMeansHeld ==
    \A r \in Req :
        /\ result[r] = "replay" =>
              \E c \in claims : /\ c.cred = cred[r]
                                /\ c.key = ReplayKey(cred[r])
                                /\ clk[r] < c.exp + RowBuffer
        /\ result[r] = "scope_taken" =>
              \E c \in claims : /\ c.key = <<"scope", Head(plan[r].once).scope>>
                                /\ clk[r] < c.exp + RowBuffer

\* Which denials cost a credential or a scope: none by a check of the request or by a
\* hook, and over SQLite none as a replay.  What remains is a scope that is taken, a
\* name that no certificate can carry and, over DynamoDB, a request that meets its own
\* claim, the response lost (try_sign, try_renew_or_rekey, claim_once).
BurntOnlyLate ==
    \A c \in claims :
        /\ result[c.by] \notin {"rejected", "hook"}
        /\ Backend = "sqlite" => result[c.by] # "replay"

\* A certificate reaches a client only with its inventory row committed
\* (record_certificate, fail-closed).
InventoryFailClosed == held \subseteq inventory

\* In the inventory a serial names one certificate (over DynamoDB: one for each common
\* name), also when the CA draws a serial twice (the insert of record_certificate).
SerialsUnique ==
    \A c, d \in inventory :
        c.serial = d.serial /\ (Backend = "dynamodb" => c.cn = d.cn) => c = d

\* At most one valid certificate per scope: two certificates, new or reissued, whose
\* requests claimed one scope until their notAfter are never valid together
\* (claim_once_scopes).
ScopeOneValid ==
    \A c, d \in inventory :
        c.by # d.by /\ c.scopes \cap d.scopes # {} => now >= c.na \/ now >= d.na

\* Whatever window the hooks ask for, no certificate outlives the template's
\* ceiling (the re-clamp of try_sign, the baseline of try_renew_or_rekey).
LifetimeBounded ==
    \A c \in inventory : c.nb < c.na /\ c.na - c.nb <= MaxValidity + Backdate

\* How old a revocation may be and still be missed by the read of a handler.
ReadLag == IF Backend = "dynamodb" THEN Staleness ELSE 0

\* A revocation bites: once it is recorded, a renewal or rekey of the certificate takes
\* effect no later than a read may lag and a handler that has read before it may take
\* to its claim.  The handler reads the revocation once, before the proof, the hooks and
\* the claims, and other requests revoke at any of these points (get_revocation in
\* try_renew_or_rekey).
RevocationBites ==
    \A c \in claims :
        LET s == plan[c.by].parent.serial
        IN  plan[c.by].parent # Absent /\ c.key[1] # "scope" /\ revocations[s] # Absent =>
                c.at <= revocations[s].at + ReadLag + MaxDelay

\* Revoking again keeps the original record (INSERT OR IGNORE, conditional put).
RevocationsImmutable ==
    [][\A s \in Serial : revocations[s] # Absent => revocations'[s] = revocations[s]]_revocations

\* The request has changed the store.
Acted(r) == \/ \E c \in inventory : c.by = r
            \/ \E s \in Serial : revocations[s] # Absent /\ revocations[s].by = r

\* Events and store agree: a success that is told is in the store, no certificate
\* reaches a client without one, and whoever has changed the store and got to its
\* response has told a success (over DynamoDB perhaps an error, the answer of the store
\* lost).  An issuance without its event is one whose handler was dropped (emit comes
\* after the commit and before the response).
AuditTruth ==
    /\ \A r \in Req : pc[r] = "respond" /\ event[r] = "success" =>
          IF plan[r].op = "revoke" THEN revocations[plan[r].target] # Absent
                                   ELSE plan[r].cert \in inventory
    /\ \A c \in held \ Genesis : event[c.by] = "success"
    /\ \A r \in Req : Acted(r) /\ pc[r] \in {"respond", "done"} =>
          event[r] = "success" \/ (Backend = "dynamodb" /\ event[r] = "error")

\* The service as its clients may think of it: claims are grants, inventory rows and
\* revocation records are effects.
Grants == {[key |-> c.key, by |-> c.by, exp |-> c.exp] : c \in claims}
Issued == {[by |-> c.by, what |-> "issued", serial |-> c.serial] : c \in inventory \ Genesis}
Revoked == {[by |-> revocations[s].by, what |-> "revoked", serial |-> s] :
               s \in {x \in Serial : revocations[x] # Absent}}

Promise == INSTANCE OneTimeService WITH
    CredentialKey <- {"ott", "dpop"} \X Jti,
    grants <- Grants,
    effects <- Issued \cup Revoked

\* Every step of every handler, of the store and of the reaper is a step of
\* OneTimeService or none: a certificate or a revocation is paid for with a claim of
\* a credential, once, whatever fails, races or is dropped in between.
ImplementsPromise == Promise!Spec
==============================================================================
