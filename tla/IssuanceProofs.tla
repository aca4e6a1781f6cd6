---------------------------- MODULE IssuanceProofs ----------------------------
(***************************************************************************)
(* Theorems about Issuance for every value of its constants: type          *)
(* correctness together with StageOK, the exclusion of overlapping claims, *)
(* the single use of tokens and DPoP proofs under a bound on the delay     *)
(* from the first check of a request to its claim, and the implementation  *)
(* of OneTimeService.                                                      *)
(***************************************************************************)
EXTENDS Issuance, SequenceTheorems, TLAPS

USE StorageAssumption, IssuanceAssumption

----------------------------------------------------------------------------
(* Operators *)

\* The key under which a credential is claimed is a claim key.
LEMMA ReplayKeyType == ASSUME NEW x \in Credential PROVE ReplayKey(x) \in ClaimKey
BY DEF Credential, ReplayKey, ClaimKey

\* The expiry a credential's claim asks for is a time.
LEMMA ReplayExpiryType == ASSUME NEW x \in Credential PROVE ReplayExpiry(x) \in Nat
BY DEF Credential, ReplayExpiry

\* A floored expiry is a time, and no earlier than the one asked for.
LEMMA FlooredExpiryType ==
    ASSUME NEW e \in Int, NEW t \in Nat
    PROVE  FlooredExpiry(e, t) \in Nat /\ FlooredExpiry(e, t) >= e
BY DEF FlooredExpiry

\* The minimum of two integers is an integer.
LEMMA LeastType == ASSUME NEW a \in Int, NEW b \in Int PROVE Least(a, b) \in Int
BY DEF Least

\* RowBuffer is a time.
LEMMA RowBufferType == RowBuffer \in Nat
BY DEF RowBuffer

\* A certificate rewritten for its renewal is a draft.
LEMMA RenewedDraft ==
    ASSUME NEW c \in Certificate, NEW k \in Key, NEW n \in Int, NEW m \in Int, NEW r \in Req
    PROVE  [c EXCEPT !.serial = Absent, !.key = k, !.nb = n, !.na = m, !.by = r] \in Draft
BY DEF Certificate, Draft

\* A draft with another window, renewability and scopes is a draft.
LEMMA ReclampedDraft ==
    ASSUME NEW d \in Draft, NEW n \in Int, NEW m \in Int, NEW b \in BOOLEAN, NEW x \in SUBSET Scope
    PROVE  [d EXCEPT !.nb = n, !.na = m, !.renewable = b, !.scopes = x] \in Draft
BY DEF Draft

\* A draft with a serial is a certificate.
LEMMA SignedDraft ==
    ASSUME NEW d \in Draft, NEW s \in Serial
    PROVE  [d EXCEPT !.serial = s] \in Certificate /\ [d EXCEPT !.serial = s] \in Draft
BY DEF Certificate, Draft

\* Replacing the draft of a plan.
LEMMA PlanCert ==
    ASSUME NEW q \in Planned, NEW d \in Draft
    PROVE  /\ [q EXCEPT !.cert = d] \in Planned
           /\ [q EXCEPT !.cert = d].op = q.op
           /\ [q EXCEPT !.cert = d].cert = d
BY DEF Planned

\* Replacing the scopes left of a plan.
LEMMA PlanOnce ==
    ASSUME NEW q \in Planned, NEW o \in Seq(OnceClaim)
    PROVE  /\ [q EXCEPT !.once = o] \in Planned
           /\ [q EXCEPT !.once = o].op = q.op
           /\ [q EXCEPT !.once = o].cert = q.cert
           /\ [q EXCEPT !.once = o].once = o
BY DEF Planned

\* The empty plan is a plan.
LEMMA NoPlanType == NoPlan \in Planned
BY EmptySeq DEF NoPlan, Planned

----------------------------------------------------------------------------
(* Type correctness *)

TypeInv == TypeOK /\ StageOK

\* Every initial state has the types, and no handler is past its start.
LEMMA InitType == Init => TypeInv
<1> SUFFICES ASSUME Init PROVE TypeInv
    OBVIOUS
<1>1. TypeOK
    BY NoPlanType DEF Init, TypeOK, Pcs, Results
<1>2. StageOK
    BY DEF Init, StageOK
<1> QED BY <1>1, <1>2 DEF TypeInv

\* The steps that only end or drop a handler.
LEMMA EndingType ==
    ASSUME TypeInv, NEW r \in Req,
           Reject(r) \/ RejectReissue(r) \/ HooksRefuse(r) \/ Emit(r) \/ Drop(r)
    PROVE  TypeInv'
<1> USE DEF TypeInv
<1>1. CASE Reject(r) \/ RejectReissue(r) \/ HooksRefuse(r)
    <2>0. PICK why \in Results : /\ pc' = [pc EXCEPT ![r] = "emit"]
                                /\ result' = [result EXCEPT ![r] = why]
                                /\ UNCHANGED <<now, storeVars, cred, validAt, clk, plan, event, held, claims>>
        BY <1>1 DEF Reject, RejectReissue, HooksRefuse, Finish, Results
    <2>1. TypeOK' BY <2>0 DEF TypeOK, storeVars, Pcs
    <2>2. StageOK' BY <1>1 DEF TypeOK, StageOK, Reject, RejectReissue, HooksRefuse, Finish, storeVars
    <2> QED BY <2>1, <2>2
<1>2. CASE Emit(r)
    <2>1. TypeOK' BY <1>2 DEF TypeOK, Emit, Go, storeVars, Pcs, Outcome
    <2>2. StageOK' BY <1>2 DEF TypeOK, StageOK, Emit, Go, storeVars
    <2> QED BY <2>1, <2>2
<1>3. CASE Drop(r)
    <2>1. TypeOK' BY <1>3, NoPlanType DEF TypeOK, Drop, Release, storeVars, Pcs, Results
    <2>2. StageOK' BY <1>3 DEF TypeOK, StageOK, Drop, Release, storeVars
    <2> QED BY <2>1, <2>2
<1> QED BY <1>1, <1>2, <1>3

\* The steps up to the hooks.
LEMMA StartType ==
    ASSUME TypeInv, NEW r \in Req, Start(r)
    PROVE  TypeInv'
<1> USE DEF TypeInv
<1>1. ASSUME NEW t \in Token, NEW key \in Key, NEW from \in Starts, NEW d \in Requested,
             ValidateToken(r, t, key, from, d)
      PROVE  TypeInv'
    <2> DEFINE nb == now + from - Backdate
               c == [serial |-> Absent, cn |-> TokenInfo[t].sub, key |-> key, nb |-> nb,
                     na |-> nb + Least(d, MaxValidity + Backdate),
                     renewable |-> TokenInfo[t].renew, by |-> r, scopes |-> {}]
               q == [op |-> "sign", target |-> Absent, parent |-> Absent,
                     once |-> TokenInfo[t].once, cert |-> c]
    <2>1. c \in Draft
        <3>1. now \in Int /\ d \in Int /\ from \in Int
            <4>1. now \in 0..MaxTime BY DEF TypeOK
            <4> HIDE DEF TypeInv
            <4> QED BY <4>1
        <3>2. Least(d, MaxValidity + Backdate) \in Int BY <3>1, LeastType
        <3> QED BY <1>1, <3>1, <3>2 DEF Draft, ValidateToken
    <2>2. q \in Planned BY <2>1 DEF Planned
    <2>3. /\ plan' = [plan EXCEPT ![r] = q]
          /\ pc' = [pc EXCEPT ![r] = "hooks"]
          /\ cred' = [cred EXCEPT ![r] = t]
          /\ validAt' = [validAt EXCEPT ![r] = now]
          /\ UNCHANGED <<now, tokens, revocations, inventory, clk, result, event, held, claims>>
        BY <1>1 DEF ValidateToken, Validated, Go, storeVars
    <2> HIDE DEF q
    <2>4. TypeOK' BY <2>2, <2>3 DEF TypeOK, Pcs, Credential
    <2>5. q.op = "sign" /\ q.cert \in Draft BY <2>1 DEF q
    <2>6. StageOK' BY <2>3, <2>5 DEF TypeOK, StageOK, Credential
    <2> QED BY <2>4, <2>6
<1>2. ASSUME NEW op \in {"renew", "rekey"}, NEW c \in held, ReadRevocation(r, op, c)
      PROVE  TypeInv'
    <2> DEFINE q == [NoPlan EXCEPT !.op = op, !.parent = c]
    <2>0. c \in Certificate BY DEF TypeOK
    <2>1. q \in Planned /\ q.op = op /\ q.parent = c
        BY <2>0, NoPlanType DEF Planned, NoPlan
    <2>2. PICK there \in {"proof", "emit"}, why \in Results, at \in Nat :
              /\ plan' = [plan EXCEPT ![r] = q]
              /\ validAt' = [validAt EXCEPT ![r] = at]
              /\ pc' = [pc EXCEPT ![r] = there]
              /\ result' = [result EXCEPT ![r] = why]
              /\ there = "emit" => why = "rejected"
              /\ UNCHANGED <<now, tokens, revocations, inventory, cred, clk, event, held, claims>>
        <3>1. /\ result = [result EXCEPT ![r] = result[r]] /\ result[r] \in Results
              /\ validAt = [validAt EXCEPT ![r] = validAt[r]] /\ validAt[r] \in Nat /\ now \in Nat
            BY DEF TypeOK
        <3> QED BY <1>2, <3>1 DEF ReadRevocation, Go, Finish, storeVars, Results
    <2> HIDE DEF q
    <2>3. TypeOK' BY <2>1, <2>2 DEF TypeOK, Pcs
    <2>4. StageOK' BY <2>0, <2>1, <2>2 DEF TypeOK, StageOK
    <2> QED BY <2>3, <2>4
<1>3. ASSUME NEW x \in Credential, NEW s \in Serial, AuthorizeRevoke(r, x, s)
      PROVE  TypeInv'
    <2> DEFINE q == [NoPlan EXCEPT !.op = "revoke", !.target = s]
    <2>1. q \in Planned /\ q.op = "revoke" /\ q.target = s
        BY NoPlanType DEF Planned, NoPlan
    <2>2. /\ plan' = [plan EXCEPT ![r] = q]
          /\ pc' = [pc EXCEPT ![r] = "jti"]
          /\ cred' = [cred EXCEPT ![r] = x]
          /\ validAt' = [validAt EXCEPT ![r] = now]
          /\ UNCHANGED <<now, tokens, revocations, inventory, clk, result, event, held, claims>>
        BY <1>3 DEF AuthorizeRevoke, Validated, Go, storeVars
    <2> HIDE DEF q
    <2>3. TypeOK' BY <2>1, <2>2 DEF TypeOK, Pcs
    <2>4. StageOK' BY <2>1, <2>2 DEF TypeOK, StageOK
    <2> QED BY <2>3, <2>4
<1> QED BY <1>1, <1>2, <1>3, EndingType DEF Start

\* The possession proof of a renewal gives it a draft.
LEMMA VerifyProofType ==
    ASSUME TypeInv, NEW r \in Req, NEW p \in Proof, NEW key \in Key, VerifyProof(r, p, key)
    PROVE  TypeInv'
<1> USE DEF TypeInv
<1> DEFINE c == plan[r].parent
           d == [c EXCEPT !.serial = Absent, !.key = key, !.nb = now,
                          !.na = now + (c.na - c.nb), !.by = r]
           q == [plan[r] EXCEPT !.cert = d]
<1>1. c \in Certificate /\ plan[r].op # "revoke" /\ plan[r] \in Planned
    BY DEF VerifyProof, StageOK, TypeOK
<1>2. d \in Draft
    <2>1. now \in Int BY DEF TypeOK
    <2>2. c.na \in Int /\ c.nb \in Int BY <1>1 DEF Certificate
    <2>3. now + (c.na - c.nb) \in Int BY <2>1, <2>2
    <2> QED BY <1>1, <2>1, <2>3, RenewedDraft
<1>3. /\ plan' = [plan EXCEPT ![r] = q]
      /\ pc' = [pc EXCEPT ![r] = "hooks"]
      /\ cred' = [cred EXCEPT ![r] = p]
      /\ UNCHANGED <<now, tokens, revocations, inventory, validAt, clk, result, event, held, claims>>
    BY DEF VerifyProof, Go, storeVars, TypeOK
<1> HIDE DEF d
<1>4. q \in Planned /\ q.op # "revoke" /\ q.cert \in Draft
    BY <1>1, <1>2, PlanCert
<1> HIDE DEF q
<1>5. TypeOK' BY <1>3, <1>4 DEF TypeOK, Pcs, Credential
<1>6. StageOK' BY <1>3, <1>4 DEF TypeOK, StageOK, Credential
<1> QED BY <1>5, <1>6

\* The re-clamped answer of the hooks keeps the draft a draft.
LEMMA HooksAllowType ==
    ASSUME TypeInv, NEW r \in Req, NEW h \in HookReplies, HooksAllow(r, h)
    PROVE  TypeInv'
<1> USE DEF TypeInv
<1> DEFINE c == plan[r].cert
           nb == c.nb + h.back
           na == Least(c.na + h.extend, Ceiling(plan[r].op, nb, c.na))
           once == h.once \o plan[r].once
           d == [c EXCEPT !.nb = nb, !.na = na, !.renewable = c.renewable /\ h.renew,
                          !.scopes = OwnExpiry(once)]
           q == [plan[r] EXCEPT !.cert = d, !.once = once]
<1>1. /\ pc[r] = "hooks" /\ c \in Draft /\ plan[r].op # "revoke" /\ plan[r] \in Planned
      /\ cred[r] \in Credential
    BY DEF HooksAllow, StageOK, TypeOK
<1>2. once \in Seq(OnceClaim)
    <2>1. h.once \in Seq(OnceClaim) /\ plan[r].once \in Seq(OnceClaim) BY <1>1 DEF Planned
    <2> QED BY <2>1, ConcatProperties
<1>3. d \in Draft
    <2> HIDE DEF once
    <2>1. nb \in Int /\ c.na + h.extend \in Int /\ c.na \in Int
        BY <1>1 DEF Draft
    <2>2. Ceiling(plan[r].op, nb, c.na) \in Int BY <2>1 DEF Ceiling
    <2>3. na \in Int BY <2>1, <2>2, LeastType
    <2>4. (c.renewable /\ h.renew) \in BOOLEAN OBVIOUS
    <2>5. OwnExpiry(once) \in SUBSET Scope
        <3>1. \A i \in DOMAIN once : once[i] \in OnceClaim BY <1>2, ElementOfSeq
        <3> QED BY <3>1 DEF OwnExpiry, OnceClaim
    <2> HIDE DEF c, nb, na
    <2> QED BY <1>1, <2>1, <2>3, <2>4, <2>5, ReclampedDraft
<1>4. q \in Planned /\ q.op # "revoke" /\ q.cert \in Draft
    <2> HIDE DEF c, nb, na, d, once
    <2>1. plan[r] \in Planned BY <1>1
    <2>2. q \in Planned BY <2>1, <1>2, <1>3 DEF Planned
    <2>3. q.op = plan[r].op /\ q.cert = d BY <2>1 DEF Planned
    <2> HIDE DEF q
    <2> QED BY <1>1, <1>3, <2>2, <2>3
<1>5. CASE pc' = [pc EXCEPT ![r] = "jti"] /\ plan' = [plan EXCEPT ![r] = q] /\ UNCHANGED result
    <2>1. UNCHANGED <<now, tokens, revocations, inventory, cred, validAt, clk, event, held, claims>>
        BY DEF HooksAllow, storeVars
    <2> HIDE DEF q
    <2>2. TypeOK' BY <1>4, <1>5, <2>1 DEF TypeOK, Pcs
    <2>3. StageOK' BY <1>1, <1>4, <1>5, <2>1 DEF TypeOK, StageOK
    <2> QED BY <2>2, <2>3
<1>6. CASE /\ pc' = [pc EXCEPT ![r] = "emit"] /\ result' = [result EXCEPT ![r] = "hook"]
           /\ UNCHANGED plan
    <2>1. UNCHANGED <<now, tokens, revocations, inventory, cred, validAt, clk, event, held, claims>>
        BY DEF HooksAllow, storeVars
    <2>2. TypeOK' BY <1>6, <2>1 DEF TypeOK, Pcs, Results
    <2>3. StageOK' BY <1>6, <2>1 DEF TypeOK, StageOK
    <2> QED BY <2>2, <2>3
<1> QED BY <1>5, <1>6 DEF HooksAllow, Go, Finish, TypeOK

\* Reading the clock.
LEMMA ReadClockType ==
    ASSUME TypeInv, NEW r \in Req, ReadClock(r)
    PROVE  TypeInv'
<1> USE DEF TypeInv
<1>0. PICK there \in {"jti_wait", "scope_wait"} :
          /\ pc' = [pc EXCEPT ![r] = there]
          /\ clk' = [clk EXCEPT ![r] = now]
          /\ UNCHANGED <<now, tokens, revocations, inventory, cred, validAt, plan, result, event,
                         held, claims>>
    BY DEF ReadClock, Go, storeVars
<1>1. TypeOK' BY <1>0 DEF TypeOK, Pcs
<1>2. StageOK' BY DEF TypeOK, StageOK, ReadClock, Go, storeVars
<1> QED BY <1>1, <1>2

\* A claim that takes effect writes a row and a history record.
LEMMA TakeClaimType ==
    ASSUME TypeInv, NEW r \in Req, NEW k \in ClaimKey, NEW e \in Int,
           cred[r] \in Credential, TakeClaim(r, k, e)
    PROVE  /\ tokens' \in [ClaimKey -> Nat \cup {Absent}]
           /\ claims' \subseteq Claim
<1>1. /\ clk[r] \in Nat /\ now \in Nat /\ claims \subseteq Claim
      /\ tokens \in [ClaimKey -> Nat \cup {Absent}]
    BY DEF TypeInv, TypeOK
<1>2. FlooredExpiry(e, clk[r]) \in Nat BY <1>1, FlooredExpiryType
<1>3. FlooredExpiry(e, clk[r]) + RowBuffer \in Nat BY <1>2, RowBufferType
<1>4. [key |-> k, cred |-> cred[r], by |-> r, at |-> now, exp |-> FlooredExpiry(e, clk[r])] \in Claim
    BY <1>1, <1>2 DEF Claim
<1> QED BY <1>1, <1>3, <1>4 DEF TakeClaim, ClaimRow

\* A claim that does not succeed ends the handler without success.
LEMMA ClaimFailsType ==
    ASSUME TypeInv, NEW r \in Req, NEW k \in ClaimKey, NEW e \in Int,
           NEW taken \in {"replay", "scope_taken"},
           cred[r] \in Credential, ClaimFails(r, k, e, taken)
    PROVE  /\ tokens' \in [ClaimKey -> Nat \cup {Absent}]
           /\ claims' \subseteq Claim
           /\ pc' = [pc EXCEPT ![r] = "emit"]
           /\ \E why \in {"error", "replay", "scope_taken"} : result' = [result EXCEPT ![r] = why]
<1>1. CASE UNCHANGED <<tokens, claims>>
    BY <1>1 DEF ClaimFails, Finish, TypeInv, TypeOK
<1>2. CASE TakeClaim(r, k, e)
    BY <1>2, TakeClaimType DEF ClaimFails, Finish
<1> QED BY <1>1, <1>2 DEF ClaimFails

\* The claim of the credential's jti.
LEMMA ClaimJtiType ==
    ASSUME TypeInv, NEW r \in Req, claim_jti(r)
    PROVE  TypeInv'
<1> USE DEF TypeInv
<1> DEFINE k == ReplayKey(cred[r])
           e == ReplayExpiry(cred[r])
<1>1. cred[r] \in Credential /\ pc[r] = "jti_wait" BY DEF claim_jti, StageOK
<1>2. k \in ClaimKey /\ e \in Int BY <1>1, ReplayKeyType, ReplayExpiryType
<1>3. /\ validAt' = [validAt EXCEPT ![r] = 0]
      /\ UNCHANGED <<now, revocations, inventory, cred, plan, event, held>>
    BY DEF claim_jti
<1>4. /\ \/ /\ TakeClaim(r, k, e)
            /\ Go(r, AfterClaims(r, plan[r].once))
            /\ clk' = [clk EXCEPT ![r] = 0]
         \/ ClaimFails(r, k, e, "replay") /\ UNCHANGED clk
    BY DEF claim_jti
<1> HIDE DEF k, e
<1>5. CASE ClaimFails(r, k, e, "replay") /\ UNCHANGED clk
    <2>1. PICK why \in {"error", "replay", "scope_taken"} : result' = [result EXCEPT ![r] = why]
        BY <1>1, <1>2, <1>5, ClaimFailsType
    <2>2. /\ tokens' \in [ClaimKey -> Nat \cup {Absent}] /\ claims' \subseteq Claim
          /\ pc' = [pc EXCEPT ![r] = "emit"]
        BY <1>1, <1>2, <1>5, ClaimFailsType
    <2>3. TypeOK' BY <1>3, <1>5, <2>1, <2>2 DEF TypeOK, Pcs, Results
    <2>4. StageOK' BY <1>3, <2>1, <2>2 DEF TypeOK, StageOK
    <2> QED BY <2>3, <2>4
<1>6. CASE TakeClaim(r, k, e) /\ Go(r, AfterClaims(r, plan[r].once)) /\ clk' = [clk EXCEPT ![r] = 0]
    <2>1. tokens' \in [ClaimKey -> Nat \cup {Absent}] /\ claims' \subseteq Claim
        BY <1>1, <1>2, <1>6, TakeClaimType
    <2>2. PICK there \in {"revoke", "issue", "scope"} :
              /\ pc' = [pc EXCEPT ![r] = there]
              /\ result' = result
              /\ there = "revoke" <=> plan[r].op = "revoke"
              /\ there = "scope" => plan[r].once # <<>>
        BY <1>6 DEF Go, AfterClaims
    <2>3. TypeOK' BY <1>3, <1>6, <2>1, <2>2 DEF TypeOK, Pcs
    <2>4. StageOK' BY <1>1, <1>3, <2>2 DEF TypeOK, StageOK
    <2> QED BY <2>3, <2>4
<1> QED BY <1>4, <1>5, <1>6

\* The claim of the next scope.
LEMMA ClaimScopeType ==
    ASSUME TypeInv, NEW r \in Req, claim_once_scopes(r)
    PROVE  TypeInv'
<1> USE DEF TypeInv
<1> DEFINE once == plan[r].once
           o == Head(once)
           k == <<"scope", o.scope>>
           e == IF o.expires = Absent THEN plan[r].cert.na ELSE o.expires
           q == [plan[r] EXCEPT !.once = Tail(once)]
<1>1. /\ cred[r] \in Credential /\ pc[r] = "scope_wait" /\ plan[r].op # "revoke"
      /\ plan[r].cert \in Draft /\ once # <<>> /\ plan[r] \in Planned
    BY DEF claim_once_scopes, StageOK, TypeOK
<1>2. o \in OnceClaim /\ Tail(once) \in Seq(OnceClaim)
    <2>1. once \in Seq(OnceClaim) BY <1>1 DEF Planned
    <2> HIDE DEF once
    <2> QED BY <1>1, <2>1, HeadTailProperties
<1>3. k \in ClaimKey /\ e \in Int
    <2>1. o.scope \in Scope /\ o.expires \in Nat \cup {Absent} BY <1>2 DEF OnceClaim
    <2>2. plan[r].cert.na \in Int BY <1>1 DEF Draft
    <2> HIDE DEF o
    <2> QED BY <2>1, <2>2 DEF ClaimKey
<1>4. q \in Planned /\ q.op = plan[r].op /\ q.cert = plan[r].cert /\ q.once = Tail(once)
    <2> DEFINE t == Tail(once)
    <2>1. t \in Seq(OnceClaim) /\ plan[r] \in Planned BY <1>1, <1>2
    <2> HIDE DEF t, once
    <2>2. [plan[r] EXCEPT !.once = t] \in Planned BY <2>1 DEF Planned
    <2>3. /\ [plan[r] EXCEPT !.once = t].op = plan[r].op
          /\ [plan[r] EXCEPT !.once = t].cert = plan[r].cert
          /\ [plan[r] EXCEPT !.once = t].once = t
        BY <2>1 DEF Planned
    <2> QED BY <2>2, <2>3 DEF t
<1>5. UNCHANGED <<now, revocations, inventory, cred, validAt, event, held>>
    BY DEF claim_once_scopes
<1>6. \/ /\ TakeClaim(r, k, e)
         /\ plan' = [plan EXCEPT ![r] = q]
         /\ Go(r, AfterClaims(r, Tail(once)))
         /\ clk' = [clk EXCEPT ![r] = 0]
      \/ ClaimFails(r, k, e, "scope_taken") /\ UNCHANGED <<plan, clk>>
    BY DEF claim_once_scopes
<1> HIDE DEF o, k, e, q
<1>7. CASE ClaimFails(r, k, e, "scope_taken") /\ UNCHANGED <<plan, clk>>
    <2>1. PICK why \in {"error", "replay", "scope_taken"} : result' = [result EXCEPT ![r] = why]
        BY <1>1, <1>3, <1>7, ClaimFailsType
    <2>2. /\ tokens' \in [ClaimKey -> Nat \cup {Absent}] /\ claims' \subseteq Claim
          /\ pc' = [pc EXCEPT ![r] = "emit"]
        BY <1>1, <1>3, <1>7, ClaimFailsType
    <2>3. TypeOK' BY <1>5, <1>7, <2>1, <2>2 DEF TypeOK, Pcs, Results
    <2>4. StageOK' BY <1>5, <1>7, <2>1, <2>2 DEF TypeOK, StageOK
    <2> QED BY <2>3, <2>4
<1>8. CASE /\ TakeClaim(r, k, e) /\ plan' = [plan EXCEPT ![r] = q]
           /\ Go(r, AfterClaims(r, Tail(once))) /\ clk' = [clk EXCEPT ![r] = 0]
    <2>1. tokens' \in [ClaimKey -> Nat \cup {Absent}] /\ claims' \subseteq Claim
        BY <1>1, <1>3, <1>8, TakeClaimType
    <2>2. PICK there \in {"issue", "scope"} :
              /\ pc' = [pc EXCEPT ![r] = there]
              /\ result' = result
              /\ there = "scope" => q.once # <<>>
        BY <1>1, <1>4, <1>8 DEF Go, AfterClaims
    <2>3. TypeOK' BY <1>4, <1>5, <1>8, <2>1, <2>2 DEF TypeOK, Pcs
    <2>4. StageOK' BY <1>1, <1>4, <1>5, <1>8, <2>2 DEF TypeOK, StageOK
    <2> QED BY <2>3, <2>4
<1> QED BY <1>6, <1>7, <1>8

\* Signing completes the draft.
LEMMA IssueType ==
    ASSUME TypeInv, NEW r \in Req, Issue(r)
    PROVE  TypeInv'
<1> USE DEF TypeInv
<1>1. /\ pc[r] = "issue" /\ plan[r].op # "revoke" /\ plan[r].cert \in Draft /\ plan[r] \in Planned
      /\ UNCHANGED <<now, tokens, revocations, inventory, cred, validAt, clk, event, held, claims>>
    BY DEF Issue, StageOK, TypeOK, storeVars
<1>2. ASSUME NEW why \in {"error", "unencodable"}, Finish(r, why), UNCHANGED plan PROVE TypeInv'
    <2>1. TypeOK' BY <1>1, <1>2 DEF TypeOK, Finish, Pcs, Results
    <2>2. StageOK' BY <1>1, <1>2 DEF TypeOK, StageOK, Finish
    <2> QED BY <2>1, <2>2
<1>3. ASSUME NEW s \in Serial, Go(r, "record"),
             plan' = [plan EXCEPT ![r] = [@ EXCEPT !.cert = [plan[r].cert EXCEPT !.serial = s]]]
      PROVE  TypeInv'
    <2> DEFINE c == [plan[r].cert EXCEPT !.serial = s]
               q == [plan[r] EXCEPT !.cert = c]
    <2>1. c \in Certificate /\ c \in Draft BY <1>1, SignedDraft
    <2>2. plan' = [plan EXCEPT ![r] = q] /\ pc' = [pc EXCEPT ![r] = "record"] /\ result' = result
        BY <1>3 DEF Go
    <2> HIDE DEF c
    <2>3. q \in Planned BY <1>1, <2>1 DEF Planned
    <2>4. q.op = plan[r].op /\ q.cert = c BY <1>1 DEF Planned
    <2> HIDE DEF q
    <2>5. TypeOK' BY <1>1, <2>2, <2>3 DEF TypeOK, Pcs
    <2>6. StageOK' BY <1>1, <2>1, <2>2, <2>4 DEF TypeOK, StageOK
    <2> QED BY <2>5, <2>6
<1> QED BY <1>2, <1>3 DEF Issue

\* The inventory row.
LEMMA RecordType ==
    ASSUME TypeInv, NEW r \in Req, record_certificate(r)
    PROVE  TypeInv'
<1> USE DEF TypeInv
<1>1. plan[r].cert \in Certificate /\ pc[r] = "record" BY DEF record_certificate, StageOK
<1>2. PICK why \in {"ok", "error"} :
          /\ pc' = [pc EXCEPT ![r] = "emit"]
          /\ result' = [result EXCEPT ![r] = why]
          /\ inventory' \subseteq Certificate
          /\ UNCHANGED <<now, tokens, revocations, cred, validAt, clk, plan, event, held, claims>>
    BY <1>1 DEF record_certificate, Finish, TypeOK
<1>3. TypeOK' BY <1>2 DEF TypeOK, Pcs, Results
<1>4. StageOK' BY <1>1, <1>2 DEF TypeOK, StageOK
<1> QED BY <1>3, <1>4

\* The revocation record.
LEMMA RevokeType ==
    ASSUME TypeInv, NEW r \in Req, revoke(r)
    PROVE  TypeInv'
<1> USE DEF TypeInv
<1>1. plan[r].target \in Serial /\ plan[r].op = "revoke" /\ pc[r] = "revoke"
    BY DEF revoke, StageOK
<1>2. RevokeRow(plan[r].target, [at |-> now, by |-> r]) \in [Serial -> Revocation \cup {Absent}]
    <2>1. [at |-> now, by |-> r] \in Revocation BY DEF Revocation, TypeOK
    <2> QED BY <1>1, <2>1 DEF RevokeRow, TypeOK
<1>3. PICK why \in {"ok", "error"} :
          /\ pc' = [pc EXCEPT ![r] = "emit"]
          /\ result' = [result EXCEPT ![r] = why]
          /\ revocations' \in [Serial -> Revocation \cup {Absent}]
          /\ UNCHANGED <<now, tokens, inventory, cred, validAt, clk, plan, event, held, claims>>
    BY <1>2 DEF revoke, Finish, TypeOK
<1>4. TypeOK' BY <1>3 DEF TypeOK, Pcs, Results
<1>5. StageOK' BY <1>1, <1>3 DEF TypeOK, StageOK
<1> QED BY <1>4, <1>5

\* The response.
LEMMA RespondType ==
    ASSUME TypeInv, NEW r \in Req, Respond(r)
    PROVE  TypeInv'
<1> USE DEF TypeInv
<1>1. held' \subseteq Certificate BY DEF Respond, StageOK, TypeOK
<1>2. TypeOK' BY <1>1, NoPlanType DEF TypeOK, Respond, Release, storeVars, Pcs, Results
<1>3. StageOK' BY DEF TypeOK, StageOK, Respond, Release, storeVars
<1> QED BY <1>2, <1>3

\* The clock, the reaper and stuttering.
LEMMA EnvironmentType ==
    ASSUME TypeInv, Tick \/ Reap \/ UNCHANGED vars
    PROVE  TypeInv'
<1> USE DEF TypeInv
<1>1. CASE Tick
    <2>1. TypeOK' BY <1>1 DEF TypeOK, Tick, storeVars
    <2>2. StageOK' BY <1>1 DEF StageOK, Tick, storeVars
    <2> QED BY <2>1, <2>2
<1>2. CASE Reap
    <2>1. tokens' \in [ClaimKey -> Nat \cup {Absent}]
        BY <1>2 DEF TypeOK, Reap, reap_expired, TtlSweep
    <2>2. TypeOK' BY <1>2, <2>1 DEF TypeOK, Reap
    <2>3. StageOK' BY <1>2 DEF StageOK, Reap
    <2> QED BY <2>2, <2>3
<1>3. CASE UNCHANGED vars
    BY <1>3 DEF TypeOK, StageOK, vars
<1> QED BY <1>1, <1>2, <1>3

\* Every step keeps the types and the stages: the lemmas above, action by action.
LEMMA NextType == TypeInv /\ [Next]_vars => TypeInv'
<1> SUFFICES ASSUME TypeInv, [Next]_vars PROVE TypeInv'
    OBVIOUS
<1>1. ASSUME NEW r \in Req, Continue(r) PROVE TypeInv'
    BY <1>1, VerifyProofType, EndingType, HooksAllowType, ReadClockType, ClaimJtiType,
       ClaimScopeType, IssueType, RecordType, RevokeType, RespondType DEF Continue
<1> QED BY <1>1, StartType, EndingType, EnvironmentType DEF Next

\* TypeOK holds of every reachable state: in particular every stored expiry,
\* floored and buffered, is a time, and every list of scopes a list of claims.
THEOREM TypeCorrect == Spec => []TypeOK
<1>1. TypeInv => TypeOK BY DEF TypeInv
<1> QED BY <1>1, InitType, NextType, PTL DEF Spec

\* StageOK: no handler reaches a claim, a signature, an inventory row, a
\* revocation or a response without the value that the step consumes.
THEOREM StagesCorrect == Spec => []StageOK
<1>1. TypeInv => StageOK BY DEF TypeInv
<1> QED BY <1>1, InitType, NextType, PTL DEF Spec

----------------------------------------------------------------------------
(* Claims *)

\* The row of a claim keeps its key until the claim, buffer included, is over.
RowHolds(c) ==
    \/ tokens[c.key] # Absent /\ c.exp + RowBuffer <= tokens[c.key]
    \/ c.exp + RowBuffer <= now

\* No handler and no claim is ahead of the clock.
ClocksBehind == (\A r \in Req : clk[r] <= now) /\ (\A c \in claims : c.at <= now)

\* ClaimExclusion is not inductive: that the next claim of a key comes late enough
\* rests on the row still being there, and on stale clock readings lying in the past.
ClaimInv == ClocksBehind /\ (\A c \in claims : RowHolds(c)) /\ ClaimExclusion

\* A credential is claimed under its own key and for at least as long as asked.
CredentialClaims ==
    \A c \in claims : c.key[1] # "scope" =>
        c.key = ReplayKey(c.cred) /\ ReplayExpiry(c.cred) <= c.exp

\* The first check of a pending request was passed not long ago, and no later than the
\* last second at which its credential, once validated, was acceptable.
Fresh ==
    \A r \in Req : Pending(r) =>
        /\ validAt[r] <= now /\ now <= validAt[r] + MaxDelay
        /\ pc[r] # "proof" => validAt[r] <= AcceptUntil(cred[r])

\* The steps of a handler that leave the claims and their rows alone.
Quiet(r) ==
    \/ Start(r)
    \/ \E p \in Proof, key \in Key : VerifyProof(r, p, key)
    \/ RejectReissue(r) \/ HooksRefuse(r)
    \/ \E h \in HookReplies : HooksAllow(r, h)
    \/ ReadClock(r) \/ Issue(r) \/ record_certificate(r) \/ revoke(r)
    \/ Emit(r) \/ Respond(r) \/ Drop(r)

\* A quiet step touches no claim, and reads the clock as it is or forgets it.
LEMMA QuietFrame ==
    ASSUME TypeInv, NEW r \in Req, Quiet(r)
    PROVE  /\ UNCHANGED <<now, tokens, claims>>
           /\ \E t \in {0, now, clk[r]} : clk' = [clk EXCEPT ![r] = t]
<1>0. clk = [clk EXCEPT ![r] = clk[r]] BY DEF TypeInv, TypeOK
<1>1. CASE Start(r)
    BY <1>0, <1>1 DEF Start, ValidateToken, ReadRevocation, AuthorizeRevoke, Reject, storeVars
<1>2. CASE \E p \in Proof, key \in Key : VerifyProof(r, p, key)
    BY <1>0, <1>2 DEF VerifyProof, storeVars
<1>3. CASE \E h \in HookReplies : HooksAllow(r, h)
    BY <1>0, <1>3 DEF HooksAllow, storeVars
<1>4. CASE RejectReissue(r) \/ HooksRefuse(r) \/ ReadClock(r)
    BY <1>0, <1>4 DEF RejectReissue, HooksRefuse, ReadClock, storeVars
<1>5. CASE Issue(r) \/ record_certificate(r) \/ revoke(r) \/ Emit(r)
    BY <1>0, <1>5 DEF Issue, record_certificate, revoke, Emit, storeVars
<1>6. CASE Respond(r) \/ Drop(r)
    BY <1>6 DEF Respond, Drop, Release, storeVars
<1> QED BY <1>1, <1>2, <1>3, <1>4, <1>5, <1>6 DEF Quiet

\* What a claim step does to the claims, whichever of its outcomes occurs.
LEMMA ClaimFrame ==
    ASSUME TypeInv, NEW r \in Req, claim_jti(r) \/ claim_once_scopes(r)
    PROVE  /\ UNCHANGED now
           /\ \E t \in {0, clk[r]} : clk' = [clk EXCEPT ![r] = t]
           /\ \/ UNCHANGED <<tokens, claims>>
              \/ /\ claim_jti(r)
                 /\ TakeClaim(r, ReplayKey(cred[r]), ReplayExpiry(cred[r]))
              \/ \E x \in Scope, e \in Int : TakeClaim(r, <<"scope", x>>, e)
<1>0. clk = [clk EXCEPT ![r] = clk[r]] BY DEF TypeInv, TypeOK
<1>1. CASE claim_jti(r)
    BY <1>0, <1>1 DEF claim_jti, ClaimFails
<1>2. CASE claim_once_scopes(r)
    <2> DEFINE o == Head(plan[r].once)
               e == IF o.expires = Absent THEN plan[r].cert.na ELSE o.expires
    <2>1. o.scope \in Scope /\ e \in Int
        <3>1. plan[r].once \in Seq(OnceClaim) /\ plan[r].once # <<>> /\ plan[r].cert \in Draft
            BY <1>2 DEF claim_once_scopes, TypeInv, TypeOK, StageOK, Planned
        <3>2. o \in OnceClaim BY <3>1, HeadTailProperties
        <3>3. plan[r].cert.na \in Int BY <3>1 DEF Draft
        <3> HIDE DEF o
        <3> QED BY <3>2, <3>3 DEF OnceClaim
    <2>2. UNCHANGED <<tokens, claims>> \/ TakeClaim(r, <<"scope", o.scope>>, e)
        BY <1>2 DEF claim_once_scopes, ClaimFails
    <2>3. UNCHANGED now /\ \E t \in {0, clk[r]} : clk' = [clk EXCEPT ![r] = t]
        BY <1>0, <1>2 DEF claim_once_scopes
    <2> HIDE DEF o, e
    <2> QED BY <2>1, <2>2, <2>3
<1> QED BY <1>1, <1>2

\* A key that can be claimed is held by no claim any more.
LEMMA ClaimableMeansOver ==
    ASSUME TypeInv, ClaimInv, NEW r \in Req, NEW c \in claims, Claimable(c.key, clk[r])
    PROVE  c.exp + RowBuffer <= now
<1>1. c.key \in ClaimKey /\ c.exp \in Nat BY DEF TypeInv, TypeOK, Claim
<1>2. clk[r] <= now /\ clk[r] \in Nat /\ now \in Nat BY DEF TypeInv, TypeOK, ClaimInv, ClocksBehind
<1>3. tokens[c.key] \in Nat \cup {Absent} BY <1>1 DEF TypeInv, TypeOK
<1>4. RowHolds(c) BY DEF ClaimInv
<1> QED BY <1>1, <1>2, <1>3, <1>4, RowBufferType DEF RowHolds, Claimable

\* A claim that takes effect overlaps no other claim of its key.
LEMMA TakeClaimInv ==
    ASSUME TypeInv, ClaimInv, NEW r \in Req, NEW k \in ClaimKey, NEW e \in Int,
           TakeClaim(r, k, e), UNCHANGED now, NEW t \in {0, clk[r]}, clk' = [clk EXCEPT ![r] = t]
    PROVE  ClaimInv'
<1> DEFINE x == FlooredExpiry(e, clk[r])
           n == [key |-> k, cred |-> cred[r], by |-> r, at |-> now, exp |-> x]
<1>1. /\ claims' = claims \cup {n} /\ tokens' = [tokens EXCEPT ![k] = x + RowBuffer]
      /\ Claimable(k, clk[r])
    BY DEF TakeClaim, ClaimRow
<1>2. /\ now \in Nat /\ clk \in [Req -> Nat] /\ claims \subseteq Claim
      /\ tokens \in [ClaimKey -> Nat \cup {Absent}]
    BY DEF TypeInv, TypeOK
<1>3. x \in Nat BY <1>2, FlooredExpiryType
<1>4. n.key = k /\ n.at = now /\ n.exp = x OBVIOUS
<1> HIDE DEF n, x
<1>5. ASSUME NEW c \in claims, c.key = k PROVE c.exp + RowBuffer <= now /\ c.exp <= now
    <2>1. c.exp + RowBuffer <= now BY <1>1, <1>5, ClaimableMeansOver
    <2>2. c.exp \in Nat BY <1>2 DEF Claim
    <2> QED BY <1>2, <2>1, <2>2, RowBufferType
<1>6. ClocksBehind' BY <1>1, <1>2, <1>4 DEF ClaimInv, ClocksBehind
<1>7. ASSUME NEW c \in claims' PROVE RowHolds(c)'
    <2>1. CASE c = n
        BY <1>1, <1>2, <1>3, <1>4, <2>1, RowBufferType DEF RowHolds, RowBuffer
    <2>2. CASE c \in claims /\ c.key = k
        BY <1>5, <2>2 DEF RowHolds, RowBuffer
    <2>3. CASE c \in claims /\ c.key # k
        <3>1. tokens'[c.key] = tokens[c.key] BY <1>1, <1>2, <2>3 DEF Claim
        <3> QED BY <2>3, <3>1 DEF ClaimInv, RowHolds, RowBuffer
    <2> QED BY <1>1, <2>1, <2>2, <2>3
<1>8. ClaimExclusion'
    <2> SUFFICES ASSUME NEW c \in claims', NEW d \in claims', c # d, c.key = d.key
                 PROVE  c.exp <= d.at \/ d.exp <= c.at
        BY DEF ClaimExclusion
    <2>1. CASE c \in claims /\ d \in claims BY <2>1 DEF ClaimInv, ClaimExclusion
    <2>2. CASE c = n /\ d \in claims BY <1>4, <1>5, <2>2
    <2>3. CASE c \in claims /\ d = n BY <1>4, <1>5, <2>3
    <2> QED BY <1>1, <2>1, <2>2, <2>3
<1> QED BY <1>6, <1>7, <1>8 DEF ClaimInv

\* A step that leaves claims and rows alone and lets no clock run ahead.
LEMMA FrameInv ==
    ASSUME TypeInv, ClaimInv, UNCHANGED <<tokens, claims>>, now' \in Nat, now <= now',
           \A r \in Req : clk'[r] <= now'
    PROVE  ClaimInv'
<1>1. now \in Nat /\ claims \subseteq Claim BY DEF TypeInv, TypeOK
<1>2. ASSUME NEW c \in claims PROVE c.at <= now' /\ RowHolds(c)'
    <2>1. c.at \in Nat /\ c.exp \in Nat BY <1>1 DEF Claim
    <2>2. c.at <= now /\ RowHolds(c) BY DEF ClaimInv, ClocksBehind
    <2>3. c.at <= now' BY <1>1, <2>1, <2>2
    <2>4. RowHolds(c)' BY <1>1, <2>1, <2>2, RowBufferType DEF RowHolds, RowBuffer
    <2> QED BY <2>3, <2>4
<1> QED BY <1>2 DEF ClaimInv, ClocksBehind, ClaimExclusion

\* Deleting expired rows takes none away from a claim that is not over.
LEMMA ReapInv == ASSUME TypeInv, ClaimInv, Reap PROVE ClaimInv'
<1>0. /\ now \in Nat /\ claims \subseteq Claim /\ tokens \in [ClaimKey -> Nat \cup {Absent}]
      /\ UNCHANGED <<now, clk, claims>>
    BY DEF TypeInv, TypeOK, Reap
<1>1. ASSUME NEW k \in ClaimKey
      PROVE  tokens'[k] = tokens[k] \/ (tokens[k] # Absent /\ tokens[k] <= now)
    BY <1>0 DEF Reap, reap_expired, TtlSweep
<1>2. ASSUME NEW c \in claims PROVE RowHolds(c)'
    <2>1. c.key \in ClaimKey /\ c.exp \in Nat BY <1>0 DEF Claim
    <2>2. RowHolds(c) BY DEF ClaimInv
    <2>3. CASE tokens'[c.key] = tokens[c.key] BY <1>0, <2>2, <2>3 DEF RowHolds, RowBuffer
    <2>4. CASE tokens[c.key] # Absent /\ tokens[c.key] <= now
        <3>1. tokens[c.key] \in Nat BY <1>0, <2>1, <2>4
        <3>2. c.exp + RowBuffer <= now BY <1>0, <2>1, <2>2, <2>4, <3>1, RowBufferType DEF RowHolds
        <3> QED BY <1>0, <3>2 DEF RowHolds, RowBuffer
    <2> QED BY <1>1, <2>1, <2>3, <2>4
<1> QED BY <1>0, <1>2 DEF ClaimInv, ClocksBehind, ClaimExclusion

\* Every step keeps ClaimInv: claims, the reaper, the clock, and the quiet rest.
LEMMA NextClaim == TypeInv /\ ClaimInv /\ [Next]_vars => ClaimInv'
<1> SUFFICES ASSUME TypeInv, ClaimInv, [Next]_vars PROVE ClaimInv'
    OBVIOUS
<1>0. /\ now \in Nat /\ clk \in [Req -> Nat] /\ \A r \in Req : clk[r] <= now
    BY DEF TypeInv, TypeOK, ClaimInv, ClocksBehind
<1>1. ASSUME NEW r \in Req, Quiet(r) PROVE ClaimInv'
    <2>1. UNCHANGED <<now, tokens, claims>> BY <1>1, QuietFrame
    <2>2. PICK t \in {0, now, clk[r]} : clk' = [clk EXCEPT ![r] = t] BY <1>1, QuietFrame
    <2>3. \A s \in Req : clk'[s] <= now' BY <1>0, <2>1, <2>2
    <2> QED BY <1>0, <2>1, <2>3, FrameInv
<1>2. ASSUME NEW r \in Req, claim_jti(r) \/ claim_once_scopes(r) PROVE ClaimInv'
    <2>1. UNCHANGED now BY <1>2, ClaimFrame
    <2>2. PICK t \in {0, clk[r]} : clk' = [clk EXCEPT ![r] = t] BY <1>2, ClaimFrame
    <2>3. CASE UNCHANGED <<tokens, claims>>
        <3>1. \A s \in Req : clk'[s] <= now' BY <1>0, <2>1, <2>2
        <3> QED BY <1>0, <2>1, <2>3, <3>1, FrameInv
    <2>4. CASE claim_jti(r) /\ TakeClaim(r, ReplayKey(cred[r]), ReplayExpiry(cred[r]))
        <3>1. cred[r] \in Credential BY <2>4 DEF claim_jti, TypeInv, StageOK
        <3>2. ReplayKey(cred[r]) \in ClaimKey /\ ReplayExpiry(cred[r]) \in Int
            BY <3>1, ReplayKeyType, ReplayExpiryType
        <3> QED BY <2>1, <2>2, <2>4, <3>2, TakeClaimInv
    <2>5. ASSUME NEW x \in Scope, NEW e \in Int, TakeClaim(r, <<"scope", x>>, e) PROVE ClaimInv'
        <3>1. <<"scope", x>> \in ClaimKey BY DEF ClaimKey
        <3> QED BY <2>1, <2>2, <2>5, <3>1, TakeClaimInv
    <2> QED BY <1>2, <2>3, <2>4, <2>5, ClaimFrame
<1>3. CASE Reap BY <1>3, ReapInv
<1>4. CASE Tick
    <2>1. UNCHANGED <<tokens, clk, claims>> /\ now' = now + 1 BY <1>4 DEF Tick, storeVars
    <2>2. \A s \in Req : clk'[s] <= now' BY <1>0, <2>1
    <2> QED BY <1>0, <2>1, <2>2, FrameInv
<1>5. CASE UNCHANGED vars
    BY <1>0, <1>5, FrameInv DEF vars
<1> QED BY <1>1, <1>2, <1>3, <1>4, <1>5 DEF Next, Continue, Quiet

\* Nothing is claimed initially.
LEMMA InitClaim == Init => ClaimInv
BY DEF Init, ClaimInv, ClocksBehind, ClaimExclusion

\* ClaimExclusion, for any number of requests, either backend and any delay: no two
\* claims of one key are in force together, although the clock compared with the
\* row was read before waiting for the store, and the reaper runs at any time.
THEOREM ClaimsExclusive == Spec => []ClaimExclusion
<1>1. TypeInv /\ ClaimInv => ClaimExclusion BY DEF ClaimInv
<1>2. Init => TypeInv /\ ClaimInv BY InitType, InitClaim
<1>3. TypeInv /\ ClaimInv /\ [Next]_vars => (TypeInv /\ ClaimInv)' BY NextType, NextClaim
<1> QED BY <1>1, <1>2, <1>3, PTL DEF Spec

----------------------------------------------------------------------------
(* Single use *)

\* No credential is claimed or pending initially.
LEMMA InitFresh == Init => CredentialClaims /\ Fresh
BY DEF Init, CredentialClaims, Fresh, Pending

\* A credential is fresh when it is validated, and the clock waits for its claim.
LEMMA NextFresh == TypeInv /\ Fresh /\ [Next]_vars => Fresh'
<1> SUFFICES ASSUME TypeInv, Fresh, [Next]_vars PROVE Fresh'
    OBVIOUS
<1>0. now \in Nat /\ pc \in [Req -> Pcs] /\ validAt \in [Req -> Nat] /\ cred \in [Req -> Credential \cup {Absent}]
    BY DEF TypeInv, TypeOK
<1>1. ASSUME NEW r \in Req, NEW x \in Credential, Validated(r, x), now <= AcceptUntil(x), UNCHANGED now,
             NEW there \in Pcs, pc' = [pc EXCEPT ![r] = there]
      PROVE  Fresh'
    BY <1>0, <1>1 DEF Validated, Fresh, Pending, AcceptUntil
<1>2. ASSUME NEW r \in Req, NEW there \in Pcs, pc' = [pc EXCEPT ![r] = there],
             UNCHANGED <<now, cred, validAt>>, there # "proof",
             there \in {"hooks", "jti", "jti_wait"} => Pending(r) /\ pc[r] # "proof"
      PROVE  Fresh'
    BY <1>0, <1>2 DEF Fresh, Pending, AcceptUntil
<1>3. ASSUME NEW r \in Req, NEW there \in Pcs \ {"proof", "hooks", "jti", "jti_wait"},
             pc' = [pc EXCEPT ![r] = there], UNCHANGED now,
             \A s \in Req \ {r} : cred'[s] = cred[s] /\ validAt'[s] = validAt[s]
      PROVE  Fresh'
    BY <1>0, <1>3 DEF Fresh, Pending, AcceptUntil
<1>4. ASSUME NEW r \in Req, Start(r) PROVE Fresh'
    <2>1. ASSUME NEW t \in Token, NEW key \in Key, NEW from \in Starts, NEW d \in Requested,
             ValidateToken(r, t, key, from, d)
          PROVE  Fresh'
        BY <2>1, <1>1 DEF ValidateToken, TokenAccepted, Go, Pcs, Credential
    <2>2. ASSUME NEW op \in {"renew", "rekey"}, NEW c \in held, ReadRevocation(r, op, c)
          PROVE  Fresh'
        <3>1. CASE Go(r, "proof") /\ validAt' = [validAt EXCEPT ![r] = now]
            BY <1>0, <2>2, <3>1 DEF ReadRevocation, Go, Fresh, Pending, AcceptUntil
        <3>2. CASE Finish(r, "rejected") /\ UNCHANGED validAt
            BY <2>2, <3>2, <1>2 DEF ReadRevocation, Finish, Pcs
        <3> QED BY <2>2, <3>1, <3>2 DEF ReadRevocation
    <2>3. ASSUME NEW x \in Credential, NEW s \in Serial, AuthorizeRevoke(r, x, s)
          PROVE  Fresh'
        BY <2>3, <1>1 DEF AuthorizeRevoke, TokenAccepted, ProofAccepted, Go, Pcs
    <2>4. CASE Reject(r) BY <2>4, <1>2 DEF Reject, Finish, Pcs
    <2> QED BY <1>4, <2>1, <2>2, <2>3, <2>4 DEF Start
<1>5. ASSUME NEW r \in Req, Continue(r) PROVE Fresh'
    <2>1. ASSUME NEW p \in Proof, NEW key \in Key, VerifyProof(r, p, key) PROVE Fresh'
        <3>1. now <= AcceptUntil(p) /\ Pending(r) /\ p \in Credential
            BY <2>1 DEF VerifyProof, ProofAccepted, Pending, Credential
        <3>2. AcceptUntil(p) \in Int
            BY <3>1 DEF AcceptUntil, Credential
        <3>3. validAt[r] <= AcceptUntil(p) /\ now <= validAt[r] + MaxDelay /\ validAt[r] <= now
            BY <1>0, <3>1, <3>2 DEF Fresh
        <3>4. /\ pc' = [pc EXCEPT ![r] = "hooks"] /\ cred' = [cred EXCEPT ![r] = p]
              /\ UNCHANGED <<now, validAt>>
            BY <2>1 DEF VerifyProof, Go
        <3> QED BY <1>0, <3>3, <3>4 DEF Fresh, Pending, AcceptUntil
    <2>2. CASE RejectReissue(r) \/ HooksRefuse(r)
        BY <2>2, <1>2 DEF RejectReissue, HooksRefuse, Finish, Pcs
    <2>3. ASSUME NEW h \in HookReplies, HooksAllow(r, h) PROVE Fresh'
        BY <2>3, <1>2 DEF HooksAllow, Go, Finish, Pcs, Pending
    <2>4. CASE ReadClock(r) BY <2>4, <1>2 DEF ReadClock, Go, Pcs, Pending
    <2>5. CASE claim_jti(r)
        <3>1. PICK there \in Pcs \ {"proof", "hooks", "jti", "jti_wait"} : pc' = [pc EXCEPT ![r] = there]
            BY <2>5 DEF claim_jti, ClaimFails, Go, Finish, AfterClaims, Pcs
        <3>2. UNCHANGED <<now, cred>> /\ validAt' = [validAt EXCEPT ![r] = 0] BY <2>5 DEF claim_jti
        <3> QED BY <1>0, <1>3, <3>1, <3>2
    <2>6. CASE claim_once_scopes(r)
        <3>1. PICK there \in Pcs \ {"proof", "hooks", "jti", "jti_wait"} : pc' = [pc EXCEPT ![r] = there]
            BY <2>6 DEF claim_once_scopes, ClaimFails, Go, Finish, AfterClaims, Pcs
        <3>2. UNCHANGED <<now, cred, validAt>> BY <2>6 DEF claim_once_scopes
        <3> QED BY <1>3, <3>1, <3>2
    <2>7. CASE Issue(r) \/ record_certificate(r) \/ revoke(r) \/ Emit(r)
        BY <2>7, <1>2 DEF Issue, record_certificate, revoke, Emit, Go, Finish, Pcs
    <2>8. CASE Respond(r) BY <1>0, <2>8, <1>3 DEF Respond, Release, Pcs
    <2> QED BY <1>5, <2>1, <2>2, <2>3, <2>4, <2>5, <2>6, <2>7, <2>8 DEF Continue
<1>6. ASSUME NEW r \in Req, Drop(r) PROVE Fresh'
    BY <1>0, <1>6, <1>3 DEF Drop, Release, Pcs
<1>7. CASE Reap BY <1>7 DEF Reap, Fresh, Pending, AcceptUntil
<1>8. CASE Tick
    BY <1>0, <1>8 DEF Tick, Fresh, Pending, AcceptUntil, storeVars
<1>9. CASE UNCHANGED vars BY <1>9 DEF vars, Fresh, Pending, AcceptUntil
<1> QED BY <1>4, <1>5, <1>6, <1>7, <1>8, <1>9 DEF Next

\* Every step that claims a credential does so under its key and for long enough.
LEMMA NextCredential == TypeInv /\ CredentialClaims /\ [Next]_vars => CredentialClaims'
<1> SUFFICES ASSUME TypeInv, CredentialClaims, [Next]_vars PROVE CredentialClaims'
    OBVIOUS
<1>1. CASE UNCHANGED claims
    BY <1>1 DEF CredentialClaims, ReplayKey, ReplayExpiry
<1>2. ASSUME NEW r \in Req, claim_jti(r), TakeClaim(r, ReplayKey(cred[r]), ReplayExpiry(cred[r]))
      PROVE  CredentialClaims'
    <2> DEFINE x == FlooredExpiry(ReplayExpiry(cred[r]), clk[r])
               n == [key |-> ReplayKey(cred[r]), cred |-> cred[r], by |-> r, at |-> now, exp |-> x]
    <2>1. cred[r] \in Credential BY <1>2 DEF claim_jti, TypeInv, StageOK
    <2>2. clk[r] \in Nat BY DEF TypeInv, TypeOK
    <2>3. ReplayExpiry(cred[r]) \in Int BY <2>1, ReplayExpiryType
    <2>4. ReplayExpiry(cred[r]) <= x BY <2>2, <2>3, FlooredExpiryType
    <2>5. claims' = claims \cup {n} BY <1>2 DEF TakeClaim
    <2>6. n.key = ReplayKey(n.cred) /\ ReplayExpiry(n.cred) <= n.exp BY <2>4
    <2> HIDE DEF n
    <2> QED BY <2>5, <2>6 DEF CredentialClaims, ReplayKey, ReplayExpiry
<1>3. ASSUME NEW r \in Req, NEW x \in Scope, NEW e \in Int, TakeClaim(r, <<"scope", x>>, e)
      PROVE  CredentialClaims'
    <2> DEFINE n == [key |-> <<"scope", x>>, cred |-> cred[r], by |-> r, at |-> now,
                     exp |-> FlooredExpiry(e, clk[r])]
    <2>1. claims' = claims \cup {n} /\ n.key = <<"scope", x>>
        BY <1>3 DEF TakeClaim
    <2> HIDE DEF n
    <2>2. n.key[1] = "scope" BY <2>1
    <2> QED BY <2>1, <2>2 DEF CredentialClaims, ReplayKey, ReplayExpiry
<1>4. ASSUME NEW r \in Req, Quiet(r) PROVE UNCHANGED claims BY <1>4, QuietFrame
<1>5. CASE Reap \/ Tick \/ UNCHANGED vars
    BY <1>1, <1>5 DEF Reap, Tick, vars
<1>6. ASSUME NEW r \in Req, claim_jti(r) \/ claim_once_scopes(r) PROVE CredentialClaims'
    BY <1>1, <1>2, <1>3, <1>6, ClaimFrame
<1> QED BY <1>1, <1>4, <1>5, <1>6 DEF Next, Continue, Quiet

\* The conjunction that makes single use inductive.
UseInv == TypeInv /\ ClaimInv /\ CredentialClaims /\ Fresh

\* The invariants of types, claims and credentials hold together.
LEMMA UseInvariant == Spec => []UseInv
<1>1. Init => UseInv BY InitType, InitClaim, InitFresh DEF UseInv
<1>2. UseInv /\ [Next]_vars => UseInv'
    BY NextType, NextClaim, NextCredential, NextFresh DEF UseInv
<1> QED BY <1>1, <1>2, PTL DEF Spec

\* A credential of which a claim is in the history cannot be claimed again, when the
\* delay is shorter than what the row outlives the credential by.
LEMMA NoSecondClaim ==
    ASSUME UseInv, NEW r \in Req, claim_jti(r), NEW c \in claims, c.key[1] # "scope",
           c.cred = cred[r], Claimable(ReplayKey(cred[r]), clk[r]),
           \/ cred[r] \in Token /\ MaxDelay < RowBuffer
           \/ cred[r] \notin Token /\ MaxDelay < REPLAY_LEEWAY + RowBuffer
    PROVE  FALSE
<1> DEFINE x == cred[r]
<1>1. x \in Credential /\ Pending(r) BY DEF UseInv, TypeInv, StageOK, claim_jti, Pending
<1>2. now \in Nat /\ validAt[r] \in Nat /\ c.exp \in Nat BY DEF UseInv, TypeInv, TypeOK, Claim
<1>3. c.key = ReplayKey(x) /\ ReplayExpiry(x) <= c.exp BY DEF UseInv, CredentialClaims
<1>4. c.exp + RowBuffer <= now BY <1>3, ClaimableMeansOver DEF UseInv
<1>5. validAt[r] <= AcceptUntil(x) /\ now <= validAt[r] + MaxDelay
    BY <1>1 DEF UseInv, Fresh, claim_jti
<1>6. CASE x \in Token
    <2>1. ReplayExpiry(x) = AcceptUntil(x) /\ ReplayExpiry(x) \in Int /\ MaxDelay < RowBuffer
        BY <1>1, <1>6, ReplayExpiryType DEF ReplayExpiry, AcceptUntil
    <2> QED BY <1>2, <1>3, <1>4, <1>5, <2>1, RowBufferType
<1>7. CASE x \notin Token
    <2>1. /\ ReplayExpiry(x) = AcceptUntil(x) + REPLAY_LEEWAY /\ AcceptUntil(x) \in Int
          /\ MaxDelay < REPLAY_LEEWAY + RowBuffer
        BY <1>1, <1>7 DEF ReplayExpiry, AcceptUntil, Credential
    <2> QED BY <1>2, <1>3, <1>4, <1>5, <2>1, RowBufferType
<1> QED BY <1>6, <1>7

\* Every other step adds no claim of a credential.
LEMMA OnlyClaimJti ==
    ASSUME TypeInv, [Next]_vars
    PROVE  \/ \A c \in claims' : c \in claims \/ c.key[1] = "scope"
           \/ \E r \in Req : claim_jti(r) /\ TakeClaim(r, ReplayKey(cred[r]), ReplayExpiry(cred[r]))
<1>1. ASSUME NEW r \in Req, Quiet(r) PROVE UNCHANGED claims BY <1>1, QuietFrame
<1>2. CASE Reap \/ Tick \/ UNCHANGED vars BY <1>2 DEF Reap, Tick, vars
<1>3. ASSUME NEW r \in Req, NEW x \in Scope, NEW e \in Int, TakeClaim(r, <<"scope", x>>, e)
      PROVE  \A c \in claims' : c \in claims \/ c.key[1] = "scope"
    BY <1>3 DEF TakeClaim
<1>4. ASSUME NEW r \in Req, claim_jti(r) \/ claim_once_scopes(r)
      PROVE  \/ \A c \in claims' : c \in claims \/ c.key[1] = "scope"
             \/ claim_jti(r) /\ TakeClaim(r, ReplayKey(cred[r]), ReplayExpiry(cred[r]))
    BY <1>3, <1>4, ClaimFrame
<1> QED BY <1>1, <1>2, <1>4 DEF Next, Continue, Quiet

\* What every claim of a credential grants without any bound on delays: of two requests
\* for which one credential took effect, one claimed it no earlier than the last second
\* in which it is accepted.
ReusedLate ==
    \A c, d \in claims :
        c.key[1] # "scope" /\ d.key[1] # "scope" /\ c.cred = d.cred /\ c.by # d.by =>
            AcceptUntil(c.cred) <= c.at \/ AcceptUntil(c.cred) <= d.at

\* The one second in which v_token_boundary uses a token twice is the worst there is,
\* on either backend and however long hooks take: before the last second of its
\* acceptance a token or a proof takes effect once (claim_jti, replay_expiry).
THEOREM ReuseOnlyLate == Spec => []ReusedLate
<1>1. UseInv => ReusedLate
    <2> SUFFICES ASSUME UseInv, NEW c \in claims, NEW d \in claims,
                        c.key[1] # "scope", d.key[1] # "scope", c.cred = d.cred, c.by # d.by
                 PROVE  AcceptUntil(c.cred) <= c.at \/ AcceptUntil(c.cred) <= d.at
        BY DEF ReusedLate
    <2>1. c.cred \in Credential /\ c.at \in Nat /\ d.at \in Nat /\ c.exp \in Nat /\ d.exp \in Nat
        BY DEF UseInv, TypeInv, TypeOK, Claim
    <2>2. c.key = d.key /\ ReplayExpiry(c.cred) <= c.exp /\ ReplayExpiry(c.cred) <= d.exp
        BY DEF UseInv, CredentialClaims
    <2>3. c.exp <= d.at \/ d.exp <= c.at BY <2>2 DEF UseInv, ClaimInv, ClaimExclusion
    <2>4. /\ AcceptUntil(c.cred) \in Int /\ ReplayExpiry(c.cred) \in Nat
          /\ AcceptUntil(c.cred) <= ReplayExpiry(c.cred)
        BY <2>1, ReplayExpiryType DEF ReplayExpiry, AcceptUntil, Credential
    <2> QED BY <2>1, <2>2, <2>3, <2>4
<1> QED BY <1>1, UseInvariant, PTL

\* TokenSingleUse holds on any history in which fewer than RowBuffer seconds pass
\* from the first check of a request to its claim: DynamoDB's TTL buffer gives the
\* margin; SQLite has none, and there a token can be used twice in the last second of
\* its life.
THEOREM TokensSingleUse == ASSUME MaxDelay < RowBuffer PROVE Spec => []TokenSingleUse
<1>1. Init => TokenSingleUse BY DEF Init, TokenSingleUse
<1>2. UseInv /\ TokenSingleUse /\ [Next]_vars => TokenSingleUse'
    <2> SUFFICES ASSUME UseInv, TokenSingleUse, [Next]_vars,
                        NEW c \in claims', NEW d \in claims', c.key[1] = "ott", d.key[1] = "ott",
                        c.cred = d.cred
                 PROVE  c.by = d.by
        BY DEF TokenSingleUse
    <2>1. CASE c \in claims /\ d \in claims BY <2>1 DEF TokenSingleUse
    <2>2. CASE ~(c \in claims /\ d \in claims)
        <3>1. PICK r \in Req : claim_jti(r) /\ TakeClaim(r, ReplayKey(cred[r]), ReplayExpiry(cred[r]))
            BY <2>2, OnlyClaimJti DEF UseInv
        <3>2. PICK n : /\ claims' = claims \cup {n} /\ n.cred = cred[r] /\ n.key = ReplayKey(cred[r])
                       /\ Claimable(ReplayKey(cred[r]), clk[r])
            BY <3>1 DEF TakeClaim
        <3>3. n.key[1] = "ott" => cred[r] \in Token BY <3>2 DEF ReplayKey
        <3>4. CASE c = n /\ d \in claims BY <3>1, <3>2, <3>3, <3>4, NoSecondClaim
        <3>5. CASE d = n /\ c \in claims BY <3>1, <3>2, <3>3, <3>5, NoSecondClaim
        <3> QED BY <2>2, <3>2, <3>4, <3>5
    <2> QED BY <2>1, <2>2
<1> QED BY <1>1, <1>2, UseInvariant, PTL DEF Spec

\* ProofSingleUse holds when fewer than REPLAY_LEEWAY + RowBuffer seconds pass
\* from the first check of a request to its claim: a DPoP claim asks for the leeway on
\* top of the last second at which the proof is accepted.
THEOREM ProofsSingleUse == ASSUME MaxDelay < REPLAY_LEEWAY + RowBuffer PROVE Spec => []ProofSingleUse
<1>1. Init => ProofSingleUse BY DEF Init, ProofSingleUse
<1>2. UseInv /\ ProofSingleUse /\ [Next]_vars => ProofSingleUse'
    <2> SUFFICES ASSUME UseInv, ProofSingleUse, [Next]_vars,
                        NEW c \in claims', NEW d \in claims', c.key[1] = "dpop", d.key[1] = "dpop",
                        c.cred = d.cred
                 PROVE  c.by = d.by
        BY DEF ProofSingleUse
    <2>1. CASE c \in claims /\ d \in claims BY <2>1 DEF ProofSingleUse
    <2>2. CASE ~(c \in claims /\ d \in claims)
        <3>1. PICK r \in Req : claim_jti(r) /\ TakeClaim(r, ReplayKey(cred[r]), ReplayExpiry(cred[r]))
            BY <2>2, OnlyClaimJti DEF UseInv
        <3>2. PICK n : /\ claims' = claims \cup {n} /\ n.cred = cred[r] /\ n.key = ReplayKey(cred[r])
                       /\ Claimable(ReplayKey(cred[r]), clk[r])
            BY <3>1 DEF TakeClaim
        <3>3. n.key[1] = "dpop" => cred[r] \notin Token BY <3>2 DEF ReplayKey
        <3>4. CASE c = n /\ d \in claims BY <3>1, <3>2, <3>3, <3>4, NoSecondClaim
        <3>5. CASE d = n /\ c \in claims BY <3>1, <3>2, <3>3, <3>5, NoSecondClaim
        <3> QED BY <2>2, <3>2, <3>4, <3>5
    <2> QED BY <2>1, <2>2
<1> QED BY <1>1, <1>2, UseInvariant, PTL DEF Spec

----------------------------------------------------------------------------
(* Refinement *)

Ended == {"emit", "respond", "done", "dropped"}
Paying == {"scope", "scope_wait", "issue", "record", "revoke"}
Drafting == {"hooks", "jti", "jti_wait", "scope", "scope_wait", "issue", "record"}

Paid(r) == \E c \in claims : c.by = r /\ c.key \in {"ott", "dpop"} \X Jti
OwnDraft(r) == plan[r].op # "revoke" => plan[r].cert.by = r

\* What makes the refinement inductive: past its first claim a handler has paid, it
\* prepares a certificate of its own, and once it has acted it only reports.
PaidInv ==
    \A r \in Req :
        /\ pc[r] \in Paying => Paid(r)
        /\ pc[r] \in Drafting => OwnDraft(r)
        /\ Acted(r) => pc[r] \in Ended

\* Initially nobody has acted.
LEMMA InitPaid == Init => PaidInv
BY StorageAssumption, IssuanceAssumption DEF Init, PaidInv, Paying, Drafting, Acted, Certificate

\* A step of one handler that leaves inventory and revocations alone.
LEMMA MovePaid ==
    ASSUME TypeInv, PaidInv, NEW r \in Req, NEW there \in Pcs, pc' = [pc EXCEPT ![r] = there],
           claims \subseteq claims', UNCHANGED <<inventory, revocations>>,
           \A s \in Req \ {r} : plan'[s] = plan[s],
           there \in Paying => Paid(r)', there \in Drafting => OwnDraft(r)',
           pc[r] \in Ended => there \in Ended
    PROVE  PaidInv'
<1>0. pc \in [Req -> Pcs] BY DEF TypeInv, TypeOK
<1>1. ASSUME NEW s \in Req, s # r
      PROVE  /\ pc'[s] \in Paying => Paid(s)'
             /\ pc'[s] \in Drafting => OwnDraft(s)'
             /\ Acted(s)' => pc'[s] \in Ended
    <2>1. pc'[s] = pc[s] /\ plan'[s] = plan[s] BY <1>0, <1>1
    <2>2. Paid(s) => Paid(s)' BY DEF Paid
    <2>3. OwnDraft(s) => OwnDraft(s)' BY <2>1 DEF OwnDraft
    <2>4. Acted(s)' => Acted(s) BY DEF Acted
    <2> QED BY <2>1, <2>2, <2>3, <2>4 DEF PaidInv
<1>2. /\ pc'[r] \in Paying => Paid(r)'
      /\ pc'[r] \in Drafting => OwnDraft(r)'
      /\ Acted(r)' => pc'[r] \in Ended
    <2>1. pc'[r] = there BY <1>0
    <2>2. Acted(r)' => Acted(r) BY DEF Acted
    <2> QED BY <2>1, <2>2 DEF PaidInv
<1> QED BY <1>1, <1>2 DEF PaidInv

\* The steps that end a request, or begin one.
LEMMA StartPaid ==
    ASSUME TypeInv, PaidInv, NEW r \in Req, Start(r)
    PROVE  PaidInv'
<1>0. plan \in [Req -> Planned] BY DEF TypeInv, TypeOK
<1>1. ASSUME NEW t \in Token, NEW key \in Key, NEW from \in Starts, NEW d \in Requested,
             ValidateToken(r, t, key, from, d)
      PROVE  PaidInv'
    <2>1. pc[r] = "new" /\ pc' = [pc EXCEPT ![r] = "hooks"] /\ UNCHANGED <<claims, inventory, revocations>>
        BY <1>1 DEF ValidateToken, Go, storeVars
    <2>2. (\A s \in Req \ {r} : plan'[s] = plan[s]) /\ plan'[r].cert.by = r
        BY <1>0, <1>1 DEF ValidateToken
    <2> QED BY <2>1, <2>2, MovePaid DEF Pcs, Paying, Ended, OwnDraft
<1>2. ASSUME NEW op \in {"renew", "rekey"}, NEW c \in held, ReadRevocation(r, op, c)
      PROVE  PaidInv'
    <2>1. pc[r] = "new" /\ UNCHANGED <<claims, inventory, revocations>> BY <1>2 DEF ReadRevocation, storeVars
    <2>2. PICK there \in {"proof", "emit"} : pc' = [pc EXCEPT ![r] = there]
        BY <1>2 DEF ReadRevocation, Go, Finish
    <2>3. \A s \in Req \ {r} : plan'[s] = plan[s] BY <1>0, <1>2 DEF ReadRevocation
    <2> QED BY <2>1, <2>2, <2>3, MovePaid DEF Pcs, Paying, Drafting, Ended
<1>3. ASSUME NEW x \in Credential, NEW s \in Serial, AuthorizeRevoke(r, x, s)
      PROVE  PaidInv'
    <2>1. pc[r] = "new" /\ pc' = [pc EXCEPT ![r] = "jti"] /\ UNCHANGED <<claims, inventory, revocations>>
        BY <1>3 DEF AuthorizeRevoke, Go, storeVars
    <2>2. (\A q \in Req \ {r} : plan'[q] = plan[q]) /\ plan'[r].op = "revoke"
        BY <1>0, <1>3 DEF AuthorizeRevoke, NoPlan
    <2> QED BY <2>1, <2>2, MovePaid DEF Pcs, Paying, Ended, OwnDraft
<1>4. CASE Reject(r)
    <2>1. pc' = [pc EXCEPT ![r] = "emit"] /\ UNCHANGED <<plan, claims, inventory, revocations>>
        BY <1>4 DEF Reject, Finish, storeVars
    <2> QED BY <2>1, MovePaid DEF Pcs, Paying, Drafting, Ended
<1> QED BY <1>1, <1>2, <1>3, <1>4 DEF Start

\* The steps between the first await and the claims.
LEMMA PreparePaid ==
    ASSUME TypeInv, PaidInv, NEW r \in Req,
           \/ \E p \in Proof, key \in Key : VerifyProof(r, p, key)
           \/ RejectReissue(r) \/ HooksRefuse(r)
           \/ \E h \in HookReplies : HooksAllow(r, h)
           \/ ReadClock(r)
    PROVE  PaidInv'
<1>0. plan \in [Req -> Planned] /\ pc \in [Req -> Pcs] BY DEF TypeInv, TypeOK
<1>1. ASSUME NEW p \in Proof, NEW key \in Key, VerifyProof(r, p, key) PROVE PaidInv'
    <2>1. pc[r] = "proof" /\ pc' = [pc EXCEPT ![r] = "hooks"] /\ UNCHANGED <<claims, inventory, revocations>>
        BY <1>1 DEF VerifyProof, Go, storeVars
    <2>2. plan[r].parent \in Certificate BY <2>1 DEF TypeInv, StageOK
    <2>3. \A s \in Req \ {r} : plan'[s] = plan[s] BY <1>0, <1>1 DEF VerifyProof
    <2>4. plan'[r].cert.by = r
        <3> DEFINE c == plan[r].parent
                   d == [c EXCEPT !.serial = Absent, !.key = key, !.nb = now,
                                  !.na = now + (c.na - c.nb), !.by = r]
                   q == [plan[r] EXCEPT !.cert = d]
        <3>1. plan' = [plan EXCEPT ![r] = q] BY <1>1 DEF VerifyProof
        <3>2. d.by = r BY <2>2 DEF Certificate
        <3> HIDE DEF d
        <3>3. q.cert = d BY <1>0 DEF Planned
        <3> HIDE DEF q
        <3> QED BY <1>0, <3>1, <3>2, <3>3
    <2> QED BY <2>1, <2>3, <2>4, MovePaid DEF Pcs, Paying, Ended, OwnDraft
<1>2. CASE RejectReissue(r) \/ HooksRefuse(r)
    <2>1. pc' = [pc EXCEPT ![r] = "emit"] /\ UNCHANGED <<plan, claims, inventory, revocations>>
        BY <1>2 DEF RejectReissue, HooksRefuse, Finish, storeVars
    <2> QED BY <2>1, MovePaid DEF Pcs, Paying, Drafting, Ended
<1>3. ASSUME NEW h \in HookReplies, HooksAllow(r, h) PROVE PaidInv'
    <2>1. pc[r] = "hooks" /\ UNCHANGED <<claims, inventory, revocations>> BY <1>3 DEF HooksAllow, storeVars
    <2>2. plan[r].cert \in Draft /\ plan[r].cert.by = r
        BY <2>1 DEF TypeInv, StageOK, PaidInv, Drafting, OwnDraft
    <2>3. CASE pc' = [pc EXCEPT ![r] = "emit"] /\ UNCHANGED plan
        BY <2>1, <2>3, MovePaid DEF Pcs, Paying, Drafting, Ended
    <2>4. CASE ~UNCHANGED plan
        <3>1. pc' = [pc EXCEPT ![r] = "jti"] /\ \A s \in Req \ {r} : plan'[s] = plan[s]
            BY <1>0, <1>3, <2>4 DEF HooksAllow, Go
        <3>2. plan'[r].cert.by = r
            <4> DEFINE c == plan[r].cert
                       nb == c.nb + h.back
                       na == Least(c.na + h.extend, Ceiling(plan[r].op, nb, c.na))
                       once == h.once \o plan[r].once
                       d == [c EXCEPT !.nb = nb, !.na = na, !.renewable = c.renewable /\ h.renew,
                                      !.scopes = OwnExpiry(once)]
                       q == [plan[r] EXCEPT !.cert = d, !.once = once]
            <4>1. plan' = [plan EXCEPT ![r] = q] BY <1>3, <2>4 DEF HooksAllow
            <4>2. d.by = r
                <5> HIDE DEF nb, na, once
                <5> QED BY <2>2 DEF Draft
            <4> HIDE DEF d, once
            <4>3. q.cert = d BY <1>0 DEF Planned
            <4> HIDE DEF q
            <4> QED BY <1>0, <4>1, <4>2, <4>3
        <3> QED BY <2>1, <3>1, <3>2, MovePaid DEF Pcs, Paying, Ended, OwnDraft
    <2>5. CASE pc' = [pc EXCEPT ![r] = "jti"] /\ UNCHANGED plan
        BY <2>1, <2>2, <2>5, MovePaid DEF Pcs, Paying, Ended, OwnDraft
    <2> QED BY <1>3, <2>3, <2>4, <2>5 DEF HooksAllow, Go, Finish
<1>4. CASE ReadClock(r)
    <2>1. UNCHANGED <<plan, claims, inventory, revocations>> BY <1>4 DEF ReadClock, storeVars
    <2>2. CASE pc[r] = "jti" /\ pc' = [pc EXCEPT ![r] = "jti_wait"]
        BY <2>1, <2>2, MovePaid DEF Pcs, Paying, Drafting, Ended, OwnDraft, PaidInv
    <2>3. CASE pc[r] = "scope" /\ pc' = [pc EXCEPT ![r] = "scope_wait"]
        BY <2>1, <2>3, MovePaid DEF Pcs, Paying, Drafting, Ended, OwnDraft, PaidInv, Paid
    <2> QED BY <1>4, <2>2, <2>3 DEF ReadClock, Go
<1> QED BY <1>1, <1>2, <1>3, <1>4

\* The claims: a handler past its first one has paid.
LEMMA ClaimPaid ==
    ASSUME TypeInv, PaidInv, NEW r \in Req, claim_jti(r) \/ claim_once_scopes(r)
    PROVE  PaidInv'
<1>0. plan \in [Req -> Planned] /\ pc \in [Req -> Pcs] BY DEF TypeInv, TypeOK
<1>1. claims \subseteq claims' BY ClaimFrame DEF TakeClaim
<1>2. UNCHANGED <<inventory, revocations>> BY DEF claim_jti, claim_once_scopes
<1>3. CASE claim_jti(r)
    <2>1. UNCHANGED plan /\ pc[r] = "jti_wait" /\ cred[r] \in Credential
        BY <1>3 DEF claim_jti, TypeInv, StageOK
    <2>2. CASE pc' = [pc EXCEPT ![r] = "emit"]
        BY <1>1, <1>2, <2>1, <2>2, MovePaid DEF Pcs, Paying, Drafting, Ended
    <2>3. CASE /\ TakeClaim(r, ReplayKey(cred[r]), ReplayExpiry(cred[r]))
               /\ pc' = [pc EXCEPT ![r] = AfterClaims(r, plan[r].once)]
        <3>1. AfterClaims(r, plan[r].once) \in Pcs \ Ended BY DEF AfterClaims, Pcs, Ended
        <3>2. ReplayKey(cred[r]) \in {"ott", "dpop"} \X Jti BY <2>1 DEF ReplayKey, Credential
        <3> DEFINE n == [key |-> ReplayKey(cred[r]), cred |-> cred[r], by |-> r, at |-> now,
                         exp |-> FlooredExpiry(ReplayExpiry(cred[r]), clk[r])]
        <3>3. n \in claims' /\ n.by = r /\ n.key = ReplayKey(cred[r]) BY <2>3 DEF TakeClaim
        <3> HIDE DEF n
        <3>6. Paid(r)' BY <3>2, <3>3 DEF Paid
        <3>4. OwnDraft(r)' BY <2>1 DEF PaidInv, Drafting, OwnDraft
        <3>5. pc[r] \notin Ended BY <2>1 DEF Ended
        <3> QED BY <1>1, <1>2, <2>1, <2>3, <3>1, <3>6, <3>4, <3>5, MovePaid
    <2> QED BY <1>3, <2>2, <2>3 DEF claim_jti, ClaimFails, Go, Finish
<1>4. CASE claim_once_scopes(r)
    <2> DEFINE left == Tail(plan[r].once)
    <2>1. pc[r] = "scope_wait" BY <1>4 DEF claim_once_scopes
    <2>2. Paid(r) /\ OwnDraft(r) /\ pc[r] \notin Ended
        BY <2>1 DEF PaidInv, Paying, Drafting, Ended
    <2>3. Paid(r)' BY <1>1, <2>2 DEF Paid
    <2>4. CASE pc' = [pc EXCEPT ![r] = "emit"] /\ UNCHANGED plan
        BY <1>1, <1>2, <2>2, <2>4, MovePaid DEF Pcs, Paying, Drafting, Ended
    <2>5. CASE /\ plan' = [plan EXCEPT ![r] = [@ EXCEPT !.once = left]]
               /\ pc' = [pc EXCEPT ![r] = AfterClaims(r, left)]
        <3> HIDE DEF left
        <3>1. AfterClaims(r, left) \in Pcs BY DEF AfterClaims, Pcs
        <3>2. \A s \in Req \ {r} : plan'[s] = plan[s] BY <1>0, <2>5
        <3>3. plan'[r].op = plan[r].op /\ plan'[r].cert = plan[r].cert BY <1>0, <2>5 DEF Planned
        <3>4. OwnDraft(r)' BY <2>2, <3>3 DEF OwnDraft
        <3> QED BY <1>1, <1>2, <2>2, <2>3, <2>5, <3>1, <3>2, <3>4, MovePaid
    <2> QED BY <1>4, <2>4, <2>5 DEF claim_once_scopes, ClaimFails, Go, Finish
<1> QED BY <1>3, <1>4

\* The signature, and the steps that only report.
LEMMA ReportPaid ==
    ASSUME TypeInv, PaidInv, NEW r \in Req, Issue(r) \/ Emit(r) \/ Respond(r) \/ Drop(r)
    PROVE  PaidInv'
<1>0. plan \in [Req -> Planned] /\ pc \in [Req -> Pcs] BY DEF TypeInv, TypeOK
<1>1. UNCHANGED <<claims, inventory, revocations>> BY DEF Issue, Emit, Respond, Drop, storeVars
<1>2. CASE Issue(r)
    <2>1. pc[r] = "issue" /\ plan[r].cert \in Draft BY <1>2 DEF Issue, TypeInv, StageOK
    <2>2. Paid(r) /\ OwnDraft(r) /\ pc[r] \notin Ended
        BY <2>1 DEF PaidInv, Paying, Drafting, Ended
    <2>3. ASSUME NEW why \in {"error", "unencodable"}, Finish(r, why), UNCHANGED plan PROVE PaidInv'
        BY <1>1, <2>2, <2>3, MovePaid DEF Finish, Pcs, Paying, Drafting, Ended
    <2>4. ASSUME NEW s \in Serial, Go(r, "record"),
                 plan' = [plan EXCEPT ![r] = [@ EXCEPT !.cert = [plan[r].cert EXCEPT !.serial = s]]]
          PROVE  PaidInv'
        <3> DEFINE c == [plan[r].cert EXCEPT !.serial = s]
        <3>1. c.by = plan[r].cert.by BY <2>1 DEF Draft
        <3>2. plan' = [plan EXCEPT ![r] = [@ EXCEPT !.cert = c]] BY <2>4
        <3> HIDE DEF c
        <3>3. plan'[r].op = plan[r].op /\ plan'[r].cert = c BY <1>0, <3>2 DEF Planned
        <3>4. \A q \in Req \ {r} : plan'[q] = plan[q] BY <1>0, <3>2
        <3>5. OwnDraft(r)' BY <2>2, <3>1, <3>3 DEF OwnDraft
        <3>6. Paid(r)' BY <1>1, <2>2 DEF Paid
        <3> QED BY <1>1, <2>2, <2>4, <3>4, <3>5, <3>6, MovePaid DEF Go, Pcs
    <2> QED BY <1>2, <2>3, <2>4 DEF Issue
<1>3. CASE Emit(r)
    <2>1. pc' = [pc EXCEPT ![r] = "respond"] /\ UNCHANGED plan BY <1>3 DEF Emit, Go
    <2> QED BY <1>1, <2>1, MovePaid DEF Pcs, Paying, Drafting, Ended
<1>4. CASE Respond(r) \/ Drop(r)
    <2>1. PICK there \in {"done", "dropped"} : pc' = [pc EXCEPT ![r] = there]
        BY <1>4 DEF Respond, Drop
    <2>2. \A s \in Req \ {r} : plan'[s] = plan[s] BY <1>0, <1>4 DEF Respond, Drop, Release
    <2> QED BY <1>1, <2>1, <2>2, MovePaid DEF Pcs, Paying, Drafting, Ended
<1> QED BY <1>2, <1>3, <1>4

\* An effect is the act of the handler that has it and of no other.
LEMMA OwnEffect ==
    ASSUME TypeInv, PaidInv, NEW r \in Req, record_certificate(r) \/ revoke(r),
           NEW s \in Req, s # r, Acted(s)'
    PROVE  Acted(s)
<1>0. revocations \in [Serial -> Revocation \cup {Absent}] BY DEF TypeInv, TypeOK
<1>1. CASE record_certificate(r)
    <2>1. plan[r].cert.by = r
        BY <1>1 DEF record_certificate, TypeInv, StageOK, PaidInv, Drafting, OwnDraft
    <2> QED BY <1>1, <2>1 DEF record_certificate, Acted
<1>2. CASE revoke(r)
    <2>1. PICK t \in Serial :
             /\ UNCHANGED inventory
             /\ \/ UNCHANGED revocations
                \/ revocations' = [revocations EXCEPT ![t] = [at |-> now, by |-> r]]
        BY <1>2 DEF revoke, RevokeRow, TypeInv, StageOK
    <2>2. \A u \in Serial : revocations'[u] = revocations[u] \/ revocations'[u].by = r
        BY <1>0, <2>1
    <2> QED BY <2>1, <2>2 DEF Acted
<1> QED BY <1>1, <1>2

\* The two effects, each by the handler that ends with it.
LEMMA EffectPaid ==
    ASSUME TypeInv, PaidInv, NEW r \in Req, record_certificate(r) \/ revoke(r)
    PROVE  PaidInv'
<1>0. /\ pc \in [Req -> Pcs]
      /\ pc' = [pc EXCEPT ![r] = "emit"] /\ UNCHANGED <<plan, claims>>
    BY DEF TypeInv, TypeOK, record_certificate, revoke, Finish
<1>1. ASSUME NEW s \in Req, s # r, Acted(s)' PROVE Acted(s)
    BY <1>1, OwnEffect
<1>2. ASSUME NEW s \in Req
      PROVE  /\ pc'[s] \in Paying => Paid(s)'
             /\ pc'[s] \in Drafting => OwnDraft(s)'
             /\ Acted(s)' => pc'[s] \in Ended
    <2>1. CASE s = r BY <1>0, <2>1 DEF Paying, Drafting, Ended
    <2>2. CASE s # r
        <3>1. pc'[s] = pc[s] BY <1>0, <2>2
        <3>2. Paid(s) => Paid(s)' BY <1>0 DEF Paid
        <3>3. OwnDraft(s) => OwnDraft(s)' BY <1>0 DEF OwnDraft
        <3> QED BY <1>1, <2>2, <3>1, <3>2, <3>3 DEF PaidInv
    <2> QED BY <2>1, <2>2
<1> QED BY <1>2 DEF PaidInv

\* Every step keeps PaidInv.
LEMMA NextPaid == TypeInv /\ PaidInv /\ [Next]_vars => PaidInv'
<1> SUFFICES ASSUME TypeInv, PaidInv, [Next]_vars PROVE PaidInv'
    OBVIOUS
<1>1. CASE Tick \/ Reap \/ UNCHANGED vars
    <2>1. UNCHANGED <<pc, plan, claims, inventory, revocations>>
        BY <1>1 DEF Tick, Reap, vars, storeVars
    <2> QED BY <2>1 DEF PaidInv, Paid, OwnDraft, Acted
<1>2. ASSUME NEW r \in Req, Continue(r) PROVE PaidInv'
    BY <1>2, PreparePaid, ClaimPaid, ReportPaid, EffectPaid DEF Continue
<1> QED BY <1>1, <1>2, StartPaid, ReportPaid DEF Next

\* Initially nothing is granted and nothing done.
LEMMA InitPromise == Init => Promise!Init
BY DEF Init, Promise!Init, Grants, Issued, Revoked

\* A claim that takes effect is a grant.
LEMMA GrantStep ==
    ASSUME TypeInv, ClaimInv, NEW r \in Req, NEW k \in ClaimKey, NEW e \in Int,
           TakeClaim(r, k, e), UNCHANGED <<now, inventory, revocations>>
    PROVE  Promise!Grant
<1> DEFINE n == [key |-> k, cred |-> cred[r], by |-> r, at |-> now, exp |-> FlooredExpiry(e, clk[r])]
<1>1. claims' = claims \cup {n} /\ n.key = k /\ Claimable(k, clk[r])
    BY DEF TakeClaim
<1> HIDE DEF n
<1> DEFINE g == [key |-> n.key, by |-> n.by, exp |-> n.exp]
<1>2. Grants' = Grants \cup {g} BY <1>1 DEF Grants
<1>3. ASSUME NEW c \in claims, c.key = k PROVE ~(now < c.exp)
    <2>1. c.exp + RowBuffer <= now BY <1>1, <1>3, ClaimableMeansOver
    <2>2. c.exp \in Nat /\ now \in Nat BY DEF TypeInv, TypeOK, Claim
    <2> QED BY <2>1, <2>2, RowBufferType
<1>4. ~Promise!Running(g.key)
    BY <1>1, <1>3 DEF Promise!Running, Grants
<1> HIDE DEF g
<1>5. UNCHANGED <<now, Issued \cup Revoked>> BY DEF Issued, Revoked
<1> QED BY <1>2, <1>4, <1>5 DEF Promise!Grant

\* A handler that has paid and not acted may act.
LEMMA ActStep ==
    ASSUME TypeInv, PaidInv, NEW r \in Req, pc[r] \in {"record", "revoke"}, NEW x, x.by = r,
           (Issued \cup Revoked)' = (Issued \cup Revoked) \cup {x}, UNCHANGED <<now, claims>>
    PROVE  Promise!Act
<1>1. Promise!Granted(r)
    <2>1. PICK c \in claims : c.by = r /\ c.key \in {"ott", "dpop"} \X Jti
        BY DEF PaidInv, Paying, Paid
    <2> DEFINE g == [key |-> c.key, by |-> c.by, exp |-> c.exp]
    <2>2. g \in Grants /\ g.by = r /\ g.key \in {"ott", "dpop"} \X Jti BY <2>1 DEF Grants
    <2> HIDE DEF g
    <2> QED BY <2>2 DEF Promise!Granted
<1>2. ~Promise!Spent(r)
    <2>1. ~Acted(r) BY DEF PaidInv, Ended
    <2> QED BY <2>1 DEF Promise!Spent, Issued, Revoked, Acted
<1>3. UNCHANGED <<now, Grants>> BY DEF Grants
<1> QED BY <1>1, <1>2, <1>3 DEF Promise!Act

\* A step that touches neither claims nor effects is none.
LEMMA SilentStep ==
    ASSUME UNCHANGED <<now, claims, inventory, revocations>>
    PROVE  UNCHANGED Promise!vars
BY DEF Promise!vars, Grants, Issued, Revoked

\* Recording a certificate is an effect, once, or nothing.
LEMMA RecordStep ==
    ASSUME TypeInv, PaidInv, NEW r \in Req, record_certificate(r)
    PROVE  Promise!Act \/ UNCHANGED Promise!vars
<1>1. pc[r] = "record" /\ UNCHANGED <<now, claims, revocations>> BY DEF record_certificate
<1>2. CASE UNCHANGED inventory BY <1>1, <1>2, SilentStep
<1>3. CASE inventory' = inventory \cup {plan[r].cert}
    <2> DEFINE c == plan[r].cert
               x == [by |-> c.by, what |-> "issued", serial |-> c.serial]
    <2>1. c.by = r BY <1>1 DEF TypeInv, StageOK, PaidInv, Drafting, OwnDraft
    <2>2. c \notin Genesis BY <2>1
    <2>3. Issued' = Issued \cup {x} BY <1>3, <2>2 DEF Issued
    <2>4. Revoked' = Revoked BY <1>1 DEF Revoked
    <2>5. x.by = r BY <2>1
    <2> HIDE DEF c, x
    <2>6. (Issued \cup Revoked)' = (Issued \cup Revoked) \cup {x} BY <2>3, <2>4
    <2> QED BY <1>1, <2>5, <2>6, ActStep
<1> QED BY <1>2, <1>3 DEF record_certificate

\* So is a revocation; of a serial that is revoked already it is nothing.
LEMMA RevokeStep ==
    ASSUME TypeInv, PaidInv, NEW r \in Req, revoke(r)
    PROVE  Promise!Act \/ UNCHANGED Promise!vars
<1> DEFINE s == plan[r].target
           rec == [at |-> now, by |-> r]
           x == [by |-> r, what |-> "revoked", serial |-> s]
<1>1. /\ pc[r] = "revoke" /\ s \in Serial /\ UNCHANGED <<now, claims, inventory>>
      /\ revocations \in [Serial -> Revocation \cup {Absent}]
    BY DEF revoke, TypeInv, TypeOK, StageOK
<1>2. CASE UNCHANGED revocations BY <1>1, <1>2, SilentStep
<1>3. CASE revocations[s] = Absent /\ revocations' = [revocations EXCEPT ![s] = rec]
    <2>1. Issued' = Issued BY <1>1 DEF Issued
    <2>2. rec \in Revocation /\ rec.by = r BY DEF Revocation, TypeInv, TypeOK
    <2>3. rec # Absent BY <2>2, RevocationAssumption
    <2> HIDE DEF s, rec
    <2>4. Revoked' = Revoked \cup {x}
        <3>1. \A t \in Serial : revocations'[t] = IF t = s THEN rec ELSE revocations[t] BY <1>1, <1>3
        <3> QED BY <1>1, <1>3, <2>2, <2>3, <3>1 DEF Revoked
    <2>5. x.by = r OBVIOUS
    <2> HIDE DEF x
    <2>6. (Issued \cup Revoked)' = (Issued \cup Revoked) \cup {x} BY <2>1, <2>4
    <2> QED BY <1>1, <2>5, <2>6, ActStep
<1> QED BY <1>2, <1>3 DEF revoke, RevokeRow

\* Every step of the service is a step of its promise, or none.
LEMMA NextPromise ==
    ASSUME TypeInv, ClaimInv, PaidInv, [Next]_vars
    PROVE  [Promise!Next]_Promise!vars
<1>1. ASSUME NEW r \in Req, claim_jti(r) \/ claim_once_scopes(r)
      PROVE  Promise!Grant \/ UNCHANGED Promise!vars
    <2>1. UNCHANGED <<now, inventory, revocations>> BY <1>1 DEF claim_jti, claim_once_scopes
    <2>2. CASE UNCHANGED claims BY <2>1, <2>2, SilentStep
    <2>3. CASE claim_jti(r) /\ TakeClaim(r, ReplayKey(cred[r]), ReplayExpiry(cred[r]))
        <3>1. cred[r] \in Credential BY <2>3 DEF claim_jti, TypeInv, StageOK
        <3>2. ReplayKey(cred[r]) \in ClaimKey /\ ReplayExpiry(cred[r]) \in Int
            BY <3>1, ReplayKeyType, ReplayExpiryType
        <3> QED BY <2>1, <2>3, <3>2, GrantStep
    <2>4. ASSUME NEW x \in Scope, NEW e \in Int, TakeClaim(r, <<"scope", x>>, e)
          PROVE  Promise!Grant
        <3>1. <<"scope", x>> \in ClaimKey BY DEF ClaimKey
        <3> QED BY <2>1, <2>4, <3>1, GrantStep
    <2> QED BY <1>1, <2>2, <2>3, <2>4, ClaimFrame
<1>2. ASSUME NEW r \in Req, Quiet(r), ~record_certificate(r), ~revoke(r)
      PROVE  UNCHANGED Promise!vars
    <2>1. UNCHANGED <<now, claims>> BY <1>2, QuietFrame
    <2>2. UNCHANGED <<inventory, revocations>>
        BY <1>2 DEF Quiet, Start, ValidateToken, ReadRevocation, AuthorizeRevoke, Reject, VerifyProof,
                    RejectReissue, HooksRefuse, HooksAllow, ReadClock, Issue, Emit, Respond, Drop, storeVars
    <2> QED BY <2>1, <2>2, SilentStep
<1>3. CASE Tick
    <2>1. now' = now + 1 /\ now \in Nat /\ UNCHANGED <<claims, inventory, revocations>>
        BY <1>3 DEF Tick, storeVars, TypeInv, TypeOK
    <2>2. UNCHANGED <<Grants, Issued \cup Revoked>> BY <2>1 DEF Grants, Issued, Revoked
    <2>3. now' > now BY <2>1
    <2> QED BY <2>2, <2>3 DEF Promise!Next, Promise!Pass
<1>4. CASE Reap \/ UNCHANGED vars
    BY <1>4, SilentStep DEF Reap, vars
<1>5. ASSUME NEW r \in Req, Start(r) \/ Continue(r) \/ Drop(r)
      PROVE  Promise!Grant \/ Promise!Act \/ UNCHANGED Promise!vars
    <2>1. Quiet(r) \/ claim_jti(r) \/ claim_once_scopes(r) BY <1>5 DEF Quiet, Continue
    <2> QED BY <1>1, <1>2, <2>1, RecordStep, RevokeStep
<1> QED BY <1>3, <1>4, <1>5 DEF Next, Promise!Next

\* ImplementsPromise, for any number of requests, both backends and any delay: every
\* certificate in the inventory and every revocation is the one effect of a request
\* that holds a claim of a credential, no key is claimed again while a claim of it runs,
\* and no fault in between undoes or repeats anything.
THEOREM PromiseImplemented == Spec => ImplementsPromise
<1>1. Init => TypeInv /\ ClaimInv /\ PaidInv BY InitType, InitClaim, InitPaid
<1>2. TypeInv /\ ClaimInv /\ PaidInv /\ [Next]_vars => (TypeInv /\ ClaimInv /\ PaidInv)'
    BY NextType, NextClaim, NextPaid
<1>3. TypeInv /\ ClaimInv /\ PaidInv /\ [Next]_vars => [Promise!Next]_Promise!vars
    BY NextPromise
<1> QED BY <1>1, <1>2, <1>3, InitPromise, PTL DEF Spec, ImplementsPromise, Promise!Spec
==============================================================================
