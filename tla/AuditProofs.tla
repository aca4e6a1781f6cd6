----------------------------- MODULE AuditProofs -----------------------------
(***************************************************************************)
(* What the service tells and keeps, for every value of the constants of   *)
(* Issuance: a certificate leaves with its inventory row and its event, a  *)
(* success that is reported has happened, what has happened is reported, a *)
(* request that a check or a hook refuses has claimed nothing, revocation  *)
(* records stay and bite, serials stay unique, a refusal names a claim     *)
(* that is there, and the windows and the scopes of the certificates keep  *)
(* their bounds.                                                           *)
(***************************************************************************)
EXTENDS IssuanceProofs

USE StorageAssumption, IssuanceAssumption

----------------------------------------------------------------------------
(* The invariant *)

Reporting == {"emit", "respond"}

\* A handler has a result only while it reports it, a reported one has its event, and a
\* success is in the store.
Honest(r) ==
    /\ pc[r] \notin Reporting => result[r] = "none"
    /\ pc[r] = "respond" => event[r] = Outcome(result[r])
    /\ result[r] = "ok" =>
          IF plan[r].op = "revoke"
          THEN plan[r].target \in Serial /\ revocations[plan[r].target] # Absent
          ELSE plan[r].cert \in inventory /\ plan[r].cert.by = r

\* Whoever has changed the store reports a success; over DynamoDB perhaps an error.
Told(r) ==
    Acted(r) =>
        /\ pc[r] \in Reporting => result[r] = "ok" \/ (Backend = "dynamodb" /\ result[r] = "error")
        /\ pc[r] = "done" => event[r] = "success" \/ (Backend = "dynamodb" /\ event[r] = "error")

\* A certificate that a client holds is recorded, and its request is over.
Settled(c) ==
    /\ c \in inventory
    /\ c \in Genesis \/ (c.by \in Req /\ pc[c.by] = "done" /\ event[c.by] = "success")

\* Whoever has claimed something is past its checks and its hooks.
Past(r) ==
    /\ pc[r] \in Paying \cup Ended
    /\ result[r] \notin {"rejected", "hook"}
    /\ Backend = "sqlite" => result[r] # "replay"

AuditInv ==
    /\ \A r \in Req : Honest(r) /\ Told(r)
    /\ \A c \in held : Settled(c)
    /\ \A c \in claims : Past(c.by)

\* Initially nothing is claimed, held or told.
LEMMA InitAudit == Init => AuditInv
<1> SUFFICES ASSUME Init PROVE AuditInv
    OBVIOUS
<1>1. ASSUME NEW r \in Req PROVE Honest(r) /\ Told(r)
    <2>1. pc[r] = "new" /\ result[r] = "none" BY DEF Init
    <2> QED BY <2>1 DEF Honest, Told, Reporting
<1> QED BY <1>1 DEF Init, AuditInv, Settled

----------------------------------------------------------------------------
(* Steps *)

\* A step of one handler that is not over: it keeps the invariant if it does so for the
\* handler itself, for what the step hands out and for what it claims.
LEMMA StepAudit ==
    ASSUME TypeInv, AuditInv, NEW r \in Req, pc[r] # "done",
           \A s \in Req \ {r} : /\ pc'[s] = pc[s] /\ result'[s] = result[s]
                                /\ plan'[s] = plan[s] /\ event'[s] = event[s],
           inventory \subseteq inventory',
           \A x \in Serial : revocations[x] # Absent => revocations'[x] # Absent,
           \A s \in Req \ {r} : Acted(s)' => Acted(s),
           Honest(r)', Told(r)',
           \A c \in held' : c \in held \/ Settled(c)',
           \A c \in claims' : c \in claims \/ c.by = r,
           Past(r) \/ claims' # claims => Past(r)'
    PROVE  AuditInv'
<1>1. ASSUME NEW s \in Req, s # r PROVE Honest(s)' /\ Told(s)'
    <2>1. Honest(s) /\ Told(s) /\ (Acted(s)' => Acted(s)) BY <1>1 DEF AuditInv
    <2>2. /\ pc'[s] = pc[s] /\ result'[s] = result[s] /\ plan'[s] = plan[s] /\ event'[s] = event[s]
        BY <1>1
    <2>3. Honest(s)' BY <2>1, <2>2 DEF Honest
    <2>4. Told(s)' BY <2>1, <2>2 DEF Told
    <2> QED BY <2>3, <2>4
<1>2. ASSUME NEW c \in held PROVE Settled(c)'
    <2>1. Settled(c) BY DEF AuditInv
    <2>2. c \in Genesis \/ c.by # r BY <2>1 DEF Settled
    <2> QED BY <2>1, <2>2 DEF Settled
<1>3. ASSUME NEW c \in claims' PROVE Past(c.by)'
    <2>1. CASE c.by # r
        <3>1. c \in claims /\ c.by \in Req BY <1>3, <2>1 DEF TypeInv, TypeOK, Claim
        <3>2. Past(c.by) BY <3>1 DEF AuditInv
        <3> QED BY <2>1, <3>1, <3>2 DEF Past
    <2>2. CASE c.by = r
        <3>1. c \in claims => Past(r) BY <2>2 DEF AuditInv
        <3>2. Past(r)' BY <1>3, <3>1
        <3> QED BY <2>2, <3>2
    <2> QED BY <2>1, <2>2
<1> QED BY <1>1, <1>2, <1>3 DEF AuditInv

\* A handler that has not ended has changed nothing, and has nothing to tell as long as
\* it leaves the store alone.
LEMMA StillNothing ==
    ASSUME PaidInv, NEW r \in Req, pc[r] \notin Ended, UNCHANGED <<inventory, revocations>>
    PROVE  Told(r)' /\ \A s \in Req : Acted(s)' => Acted(s)
<1>1. \A s \in Req : Acted(s)' => Acted(s) BY DEF Acted
<1>2. ~Acted(r) BY DEF PaidInv
<1> QED BY <1>1, <1>2 DEF Told

\* A step that goes on, with nothing told, handed out or claimed yet.
LEMMA GoAudit ==
    ASSUME TypeInv, PaidInv, AuditInv, NEW r \in Req, pc[r] \notin Ended,
           NEW there \in Pcs \ Ended, Go(r, there), pc[r] \in Paying => there \in Paying,
           \A s \in Req \ {r} : plan'[s] = plan[s],
           UNCHANGED <<event, held, inventory, revocations>>,
           \A c \in claims' : c \in claims \/ c.by = r,
           claims' # claims => there \in Paying
    PROVE  AuditInv'
<1>0. pc \in [Req -> Pcs] BY DEF TypeInv, TypeOK
<1>1. pc'[r] = there /\ (\A s \in Req \ {r} : pc'[s] = pc[s]) /\ UNCHANGED result BY <1>0 DEF Go
<1>2. result[r] = "none" BY DEF AuditInv, Honest, Ended, Reporting
<1>3. Honest(r)' BY <1>1, <1>2 DEF Honest, Ended, Reporting
<1>4. Past(r) \/ claims' # claims => Past(r)' BY <1>1, <1>2 DEF Past
<1>5. pc[r] # "done" BY DEF Ended
<1> QED BY <1>1, <1>3, <1>4, <1>5, StepAudit, StillNothing

\* A step that ends the request without an effect.
LEMMA FinishAudit ==
    ASSUME TypeInv, PaidInv, AuditInv, NEW r \in Req, pc[r] \notin Ended,
           NEW why \in Results \ {"ok"}, Finish(r, why),
           pc[r] \in Paying \/ claims' # claims =>
               why \notin {"rejected", "hook"} /\ (Backend = "sqlite" => why # "replay"),
           \A s \in Req \ {r} : plan'[s] = plan[s],
           UNCHANGED <<event, held, inventory, revocations>>,
           \A c \in claims' : c \in claims \/ c.by = r
    PROVE  AuditInv'
<1>0. pc \in [Req -> Pcs] /\ result \in [Req -> Results] BY DEF TypeInv, TypeOK
<1>1. /\ pc'[r] = "emit" /\ result'[r] = why
      /\ \A s \in Req \ {r} : pc'[s] = pc[s] /\ result'[s] = result[s]
    BY <1>0 DEF Finish
<1>2. Honest(r)' BY <1>1 DEF Honest, Reporting
<1>3. Past(r) \/ claims' # claims => Past(r)' BY <1>1 DEF Past, Ended
<1>4. pc[r] # "done" BY DEF Ended
<1> QED BY <1>1, <1>2, <1>3, <1>4, StepAudit, StillNothing

\* Up to the claims.
LEMMA StartAudit ==
    ASSUME TypeInv, PaidInv, AuditInv, NEW r \in Req, Start(r)
    PROVE  AuditInv'
<1>0. plan \in [Req -> Planned] BY DEF TypeInv, TypeOK
<1>1. pc[r] = "new" /\ UNCHANGED <<event, held, claims, inventory, revocations>>
    BY DEF Start, ValidateToken, ReadRevocation, AuthorizeRevoke, Reject, storeVars
<1>2. \A s \in Req \ {r} : plan'[s] = plan[s]
    BY <1>0 DEF Start, ValidateToken, ReadRevocation, AuthorizeRevoke, Reject
<1>3. \/ \E there \in {"proof", "hooks", "jti"} : Go(r, there)
      \/ \E why \in {"rejected", "error"} : Finish(r, why)
    BY DEF Start, ValidateToken, ReadRevocation, AuthorizeRevoke, Reject
<1>4. ASSUME NEW there \in {"proof", "hooks", "jti"}, Go(r, there) PROVE AuditInv'
    BY <1>1, <1>2, <1>4, GoAudit DEF Pcs, Paying, Ended
<1>5. ASSUME NEW why \in {"rejected", "error"}, Finish(r, why) PROVE AuditInv'
    BY <1>1, <1>2, <1>5, FinishAudit DEF Results, Paying, Ended
<1> QED BY <1>3, <1>4, <1>5

\* Between the checks and the claims, and the signature.
LEMMA PrepareAudit ==
    ASSUME TypeInv, PaidInv, AuditInv, NEW r \in Req,
           \/ \E p \in Proof, key \in Key : VerifyProof(r, p, key)
           \/ RejectReissue(r) \/ HooksRefuse(r)
           \/ \E h \in HookReplies : HooksAllow(r, h)
           \/ ReadClock(r) \/ Issue(r)
    PROVE  AuditInv'
<1>0. plan \in [Req -> Planned] BY DEF TypeInv, TypeOK
<1>1. UNCHANGED <<event, held, claims, inventory, revocations>>
    BY DEF VerifyProof, RejectReissue, HooksRefuse, HooksAllow, ReadClock, Issue, storeVars
<1>2. pc[r] \in {"proof", "hooks", "jti", "scope", "issue"}
    BY DEF VerifyProof, RejectReissue, HooksRefuse, HooksAllow, ReadClock, Issue
<1>3. \A s \in Req \ {r} : plan'[s] = plan[s]
    BY <1>0 DEF VerifyProof, RejectReissue, HooksRefuse, HooksAllow, ReadClock, Issue
<1>4. \/ \E there \in {"hooks", "jti", "jti_wait", "scope_wait", "record"} :
            Go(r, there) /\ (pc[r] \in Paying => there \in Paying)
      \/ \E why \in {"rejected", "hook", "error", "unencodable"} :
            Finish(r, why) /\ (pc[r] \in Paying => why \in {"error", "unencodable"})
    BY DEF VerifyProof, RejectReissue, HooksRefuse, HooksAllow, ReadClock, Issue, Paying
<1>5. ASSUME NEW there \in {"hooks", "jti", "jti_wait", "scope_wait", "record"},
             Go(r, there), pc[r] \in Paying => there \in Paying
      PROVE  AuditInv'
    BY <1>1, <1>2, <1>3, <1>5, GoAudit DEF Pcs, Ended
<1>6. ASSUME NEW why \in {"rejected", "hook", "error", "unencodable"},
             Finish(r, why), pc[r] \in Paying => why \in {"error", "unencodable"}
      PROVE  AuditInv'
    BY <1>1, <1>2, <1>3, <1>6, FinishAudit DEF Results, Ended
<1> QED BY <1>4, <1>5, <1>6

\* The claims.  Over SQLite a replay is refused by a row in the way, nothing claimed.
LEMMA ClaimAudit ==
    ASSUME TypeInv, PaidInv, AuditInv, NEW r \in Req, claim_jti(r) \/ claim_once_scopes(r)
    PROVE  AuditInv'
<1>0. plan \in [Req -> Planned] BY DEF TypeInv, TypeOK
<1>1. UNCHANGED <<event, held, inventory, revocations>> BY DEF claim_jti, claim_once_scopes
<1>2. pc[r] \in {"jti_wait", "scope_wait"} BY DEF claim_jti, claim_once_scopes
<1>3. \A s \in Req \ {r} : plan'[s] = plan[s]
    BY <1>0 DEF claim_jti, claim_once_scopes
<1>4. \A c \in claims' : c \in claims \/ c.by = r
    <2>1. UNCHANGED claims \/ \E k, e : TakeClaim(r, k, e) BY ClaimFrame
    <2> QED BY <2>1 DEF TakeClaim
<1>5. \/ \E left : Go(r, AfterClaims(r, left))
      \/ \E why \in {"error", "scope_taken"} : Finish(r, why)
      \/ /\ pc[r] = "jti_wait" /\ Finish(r, "replay")
         /\ Backend = "dynamodb" \/ UNCHANGED claims
    BY DEF claim_jti, claim_once_scopes, ClaimFails
<1>6. ASSUME NEW left, Go(r, AfterClaims(r, left)) PROVE AuditInv'
    <2>1. AfterClaims(r, left) \in Paying \cap (Pcs \ Ended) BY DEF AfterClaims, Paying, Pcs, Ended
    <2> QED BY <1>1, <1>2, <1>3, <1>4, <1>6, <2>1, GoAudit DEF Ended
<1>7. ASSUME NEW why \in {"error", "scope_taken"}, Finish(r, why) PROVE AuditInv'
    BY <1>1, <1>2, <1>3, <1>4, <1>7, FinishAudit DEF Results, Ended
<1>8. ASSUME pc[r] = "jti_wait", Finish(r, "replay"), Backend = "dynamodb" \/ UNCHANGED claims
      PROVE  AuditInv'
    <2>1. pc[r] \notin Paying /\ pc[r] \notin Ended BY <1>8 DEF Paying, Ended
    <2> QED BY <1>1, <1>3, <1>4, <1>8, <2>1, FinishAudit DEF Results
<1> QED BY <1>5, <1>6, <1>7, <1>8

\* The two effects: a success is told only with the record in the store, and over SQLite
\* an error only without it.
LEMMA EffectAudit ==
    ASSUME TypeInv, PaidInv, AuditInv, NEW r \in Req, record_certificate(r) \/ revoke(r)
    PROVE  AuditInv'
<1>0. /\ pc \in [Req -> Pcs] /\ result \in [Req -> Results]
      /\ revocations \in [Serial -> Revocation \cup {Absent}]
    BY DEF TypeInv, TypeOK
<1>1. UNCHANGED <<plan, event, held, claims>> /\ pc[r] \in {"record", "revoke"}
    BY DEF record_certificate, revoke
<1>2. inventory \subseteq inventory' BY DEF record_certificate, revoke
<1>3. \A x \in Serial : revocations[x] # Absent => revocations'[x] # Absent
    BY <1>0 DEF record_certificate, revoke, RevokeRow
<1>4. CASE Finish(r, "error") /\ UNCHANGED <<inventory, revocations>>
    BY <1>1, <1>4, FinishAudit DEF Results, Ended
<1>5. ASSUME NEW why \in {"ok", "error"}, Finish(r, why), why = "ok" \/ Backend = "dynamodb"
      PROVE  AuditInv'
    <2>1. /\ pc'[r] = "emit" /\ result'[r] = why
          /\ \A s \in Req \ {r} : pc'[s] = pc[s] /\ result'[s] = result[s]
        BY <1>0, <1>5 DEF Finish
    <2>2. why = "ok" =>
             IF plan[r].op = "revoke"
             THEN plan[r].target \in Serial /\ revocations'[plan[r].target] # Absent
             ELSE plan[r].cert \in inventory' /\ plan[r].cert.by = r
        <3> SUFFICES ASSUME why = "ok"
                     PROVE  IF plan[r].op = "revoke"
                            THEN plan[r].target \in Serial /\ revocations'[plan[r].target] # Absent
                            ELSE plan[r].cert \in inventory' /\ plan[r].cert.by = r
            OBVIOUS
        <3>1. CASE record_certificate(r)
            <4>1. plan[r].op # "revoke" /\ plan[r].cert.by = r
                BY <3>1 DEF record_certificate, TypeInv, StageOK, PaidInv, Drafting, OwnDraft
            <4>2. plan[r].cert \in inventory'
                BY <1>0, <2>1, <3>1 DEF record_certificate, Finish
            <4> QED BY <4>1, <4>2
        <3>2. CASE revoke(r)
            <4>1. plan[r].op = "revoke" /\ plan[r].target \in Serial
                BY <3>2 DEF revoke, TypeInv, StageOK
            <4>2. revocations' = RevokeRow(plan[r].target, [at |-> now, by |-> r])
                BY <1>0, <2>1, <3>2 DEF revoke, Finish
            <4>3. [at |-> now, by |-> r] \in Revocation BY DEF Revocation, TypeInv, TypeOK
            <4> QED BY <1>0, <4>1, <4>2, <4>3, RevocationAssumption DEF RevokeRow
        <3> QED BY <3>1, <3>2
    <2>3. Honest(r)' BY <1>1, <2>1, <2>2 DEF Honest, Reporting
    <2>4. Past(r)' BY <2>1 DEF Past, Ended
    <2>5. Told(r)' BY <1>5, <2>1 DEF Told, Reporting
    <2>6. \A s \in Req \ {r} : Acted(s)' => Acted(s) BY OwnEffect
    <2>7. pc[r] # "done" BY <1>1
    <2> QED BY <1>1, <1>2, <1>3, <2>1, <2>3, <2>4, <2>5, <2>6, <2>7, StepAudit
<1> QED BY <1>4, <1>5 DEF record_certificate, revoke

\* The event, the response and the end of a dropped handler.
LEMMA ReportAudit ==
    ASSUME TypeInv, AuditInv, NEW r \in Req, Emit(r) \/ Respond(r) \/ Drop(r)
    PROVE  AuditInv'
<1>0. /\ pc \in [Req -> Pcs] /\ result \in [Req -> Results] /\ plan \in [Req -> Planned]
      /\ event \in [Req -> {"none", "success", "denied", "error"}]
    BY DEF TypeInv, TypeOK
<1>1. UNCHANGED <<claims, inventory, revocations>> /\ pc[r] \notin {"new", "done", "dropped"}
    BY DEF Emit, Respond, Drop, storeVars
<1>2. Honest(r) /\ Told(r) /\ \A s \in Req : Acted(s)' => Acted(s) BY <1>1 DEF AuditInv, Acted
<1>3. CASE Emit(r)
    <2>1. /\ pc[r] = "emit" /\ pc'[r] = "respond" /\ UNCHANGED <<result, plan, held>>
          /\ event'[r] = Outcome(result[r])
          /\ \A s \in Req \ {r} : pc'[s] = pc[s] /\ event'[s] = event[s]
        BY <1>0, <1>3 DEF Emit, Go
    <2>2. Honest(r)' BY <1>1, <1>2, <2>1 DEF Honest, Reporting, Outcome
    <2>3. Told(r)' BY <1>2, <2>1 DEF Told, Reporting
    <2>4. Past(r) => Past(r)' BY <2>1 DEF Past, Ended
    <2> QED BY <1>1, <1>2, <2>1, <2>2, <2>3, <2>4, StepAudit
<1>4. CASE Respond(r) \/ Drop(r)
    <2>1. /\ pc'[r] \in {"done", "dropped"} /\ result'[r] = "none" /\ plan'[r] = NoPlan
          /\ UNCHANGED event
          /\ \A s \in Req \ {r} : pc'[s] = pc[s] /\ result'[s] = result[s] /\ plan'[s] = plan[s]
        BY <1>0, <1>4 DEF Respond, Drop, Release
    <2>2. Honest(r)' /\ Past(r)'
        BY <2>1 DEF Honest, Past, Reporting, Ended
    <2>4. Told(r)'
        <3>1. pc'[r] = "done" => pc[r] = "respond" /\ event[r] = Outcome(result[r])
            BY <1>0, <1>2, <1>4 DEF Respond, Drop, Honest
        <3> QED BY <1>2, <2>1, <3>1 DEF Told, Reporting, Outcome
    <2>3. ASSUME NEW c \in held' PROVE c \in held \/ Settled(c)'
        <3>1. CASE c \notin held
            <4>1. /\ Respond(r) /\ c = plan[r].cert /\ result[r] = "ok" /\ plan[r].op # "revoke"
                  /\ pc'[r] = "done" /\ pc[r] = "respond"
                BY <1>0, <1>4, <2>3, <3>1 DEF Respond, Drop
            <4>2. c \in inventory /\ c.by = r /\ event[r] = "success"
                BY <1>2, <4>1 DEF Honest, Outcome
            <4> QED BY <1>1, <2>1, <4>1, <4>2 DEF Settled
        <3> QED BY <3>1
    <2> QED BY <1>1, <1>2, <2>1, <2>2, <2>3, <2>4, StepAudit
<1> QED BY <1>3, <1>4

\* Every step keeps AuditInv.
LEMMA NextAudit == TypeInv /\ PaidInv /\ AuditInv /\ [Next]_vars => AuditInv'
<1> SUFFICES ASSUME TypeInv, PaidInv, AuditInv, [Next]_vars PROVE AuditInv'
    OBVIOUS
<1>1. CASE Tick \/ Reap \/ UNCHANGED vars
    <2>1. UNCHANGED <<pc, result, plan, event, held, claims, inventory, revocations>>
        BY <1>1 DEF Tick, Reap, vars, storeVars
    <2> QED BY <2>1 DEF AuditInv, Honest, Told, Acted, Settled, Past
<1>2. ASSUME NEW r \in Req, Continue(r) PROVE AuditInv'
    BY <1>2, PrepareAudit, ClaimAudit, EffectAudit, ReportAudit DEF Continue
<1> QED BY <1>1, <1>2, StartAudit, ReportAudit DEF Next

\* AuditInv holds throughout.
LEMMA AuditInvariant == Spec => []AuditInv
<1>1. Init => TypeInv /\ PaidInv /\ AuditInv BY InitType, InitPaid, InitAudit
<1>2. TypeInv /\ PaidInv /\ AuditInv /\ [Next]_vars => (TypeInv /\ PaidInv /\ AuditInv)'
    BY NextType, NextPaid, NextAudit
<1> QED BY <1>1, <1>2, PTL DEF Spec

----------------------------------------------------------------------------
(* Theorems *)

\* InventoryFailClosed: no certificate reaches a client without its inventory row,
\* whatever fails, is lost or is dropped on the way (record_certificate).
THEOREM InventoryClosed == Spec => []InventoryFailClosed
<1>1. AuditInv => InventoryFailClosed BY DEF AuditInv, Settled, InventoryFailClosed
<1> QED BY <1>1, AuditInvariant, PTL

\* AuditTruth: a success that is told is in the store, a certificate that a client holds
\* has its success event, and whoever changes the store and gets to its response tells it
\* (emit, after the commit and before the response).
THEOREM AuditTrue == Spec => []AuditTruth
<1>1. ASSUME AuditInv, NEW r \in Req, pc[r] = "respond", event[r] = "success"
      PROVE  IF plan[r].op = "revoke" THEN revocations[plan[r].target] # Absent
                                      ELSE plan[r].cert \in inventory
    BY <1>1 DEF AuditInv, Honest, Outcome
<1>2. ASSUME AuditInv, NEW r \in Req, Acted(r), pc[r] \in {"respond", "done"}
      PROVE  event[r] = "success" \/ (Backend = "dynamodb" /\ event[r] = "error")
    BY <1>2 DEF AuditInv, Honest, Told, Outcome, Reporting
<1>3. AuditInv => AuditTruth BY <1>1, <1>2 DEF AuditInv, Settled, AuditTruth
<1> QED BY <1>3, AuditInvariant, PTL

\* BurntOnlyLate: a request that a check or a hook refuses has claimed nothing, nor over
\* SQLite one refused as a replay; a denial that costs a credential is one of a taken
\* scope or an unencodable name (try_sign, try_renew_or_rekey: the claims come last).
THEOREM DenialsBurnLate == Spec => []BurntOnlyLate
<1>1. AuditInv => BurntOnlyLate BY DEF AuditInv, Past, BurntOnlyLate
<1> QED BY <1>1, AuditInvariant, PTL

\* Revocation records are written by revoke only.
LEMMA RevocationStep ==
    ASSUME [Next]_vars
    PROVE  UNCHANGED revocations \/ \E r \in Req : revoke(r)
<1>1. ASSUME NEW r \in Req, Start(r) PROVE UNCHANGED revocations
    BY <1>1 DEF Start, ValidateToken, ReadRevocation, AuthorizeRevoke, Reject, storeVars
<1>2. ASSUME NEW r \in Req, Continue(r), ~revoke(r) PROVE UNCHANGED revocations
    BY <1>2 DEF Continue, VerifyProof, RejectReissue, HooksRefuse, HooksAllow, ReadClock,
                claim_jti, claim_once_scopes, Issue, record_certificate, Emit, Respond, storeVars
<1>3. ASSUME NEW r \in Req, Drop(r) PROVE UNCHANGED revocations
    BY <1>3 DEF Drop, storeVars
<1>4. CASE Reap \/ Tick \/ UNCHANGED vars
    BY <1>4 DEF Reap, Tick, vars, storeVars
<1> QED BY <1>1, <1>2, <1>3, <1>4 DEF Next

\* RevocationsImmutable: no step replaces or removes a revocation record, on either
\* backend (INSERT OR IGNORE, conditional put).
THEOREM RevocationsKept == Spec => RevocationsImmutable
<1>1. TypeInv /\ [Next]_vars =>
        [\A s \in Serial : revocations[s] # Absent => revocations'[s] = revocations[s]]_revocations
    <2> SUFFICES ASSUME TypeInv, [Next]_vars, NEW s \in Serial, revocations[s] # Absent
                 PROVE  revocations'[s] = revocations[s]
        OBVIOUS
    <2>1. revocations \in [Serial -> Revocation \cup {Absent}] BY DEF TypeInv, TypeOK
    <2>2. ASSUME NEW r \in Req, revoke(r) PROVE revocations'[s] = revocations[s]
        BY <2>1, <2>2 DEF revoke, RevokeRow
    <2> QED BY <2>2, RevocationStep
<1>2. Spec => []TypeInv BY InitType, NextType, PTL DEF Spec
<1> QED BY <1>1, <1>2, PTL DEF Spec, RevocationsImmutable

----------------------------------------------------------------------------
(* Serials *)

\* The inventory only grows, by the certificate of a handler that records it where no
\* row is.
LEMMA InventoryStep ==
    ASSUME [Next]_vars
    PROVE  \/ UNCHANGED inventory
           \/ \E r \in Req : /\ pc[r] = "record" /\ ~RowTaken(plan[r].cert)
                             /\ inventory' = inventory \cup {plan[r].cert}
<1>1. ASSUME NEW r \in Req, Start(r) PROVE UNCHANGED inventory
    BY <1>1 DEF Start, ValidateToken, ReadRevocation, AuthorizeRevoke, Reject, storeVars
<1>2. ASSUME NEW r \in Req, Continue(r), ~record_certificate(r) PROVE UNCHANGED inventory
    BY <1>2 DEF Continue, VerifyProof, RejectReissue, HooksRefuse, HooksAllow, ReadClock,
                claim_jti, claim_once_scopes, Issue, revoke, Emit, Respond, storeVars
<1>3. ASSUME NEW r \in Req, record_certificate(r)
      PROVE  \/ UNCHANGED inventory
             \/ /\ pc[r] = "record" /\ ~RowTaken(plan[r].cert)
                /\ inventory' = inventory \cup {plan[r].cert}
    BY <1>3 DEF record_certificate
<1>4. ASSUME NEW r \in Req, Drop(r) PROVE UNCHANGED inventory
    BY <1>4 DEF Drop, storeVars
<1>5. CASE Reap \/ Tick \/ UNCHANGED vars
    BY <1>5 DEF Reap, Tick, vars, storeVars
<1> QED BY <1>1, <1>2, <1>3, <1>4, <1>5 DEF Next

\* A row is inserted only where none has its key.
LEMMA InsertsKeepSerials == SerialsUnique /\ [Next]_vars => SerialsUnique'
<1> SUFFICES ASSUME SerialsUnique, [Next]_vars PROVE SerialsUnique'
    OBVIOUS
<1>1. ASSUME NEW c, ~RowTaken(c), inventory' = inventory \cup {c} PROVE SerialsUnique'
    <2>1. \A d \in inventory : ~SameRow(c, d) BY <1>1 DEF RowTaken
    <2> QED BY <1>1, <2>1 DEF SerialsUnique, SameRow
<1>2. ASSUME UNCHANGED inventory PROVE SerialsUnique'
    BY <1>2 DEF SerialsUnique
<1> QED BY <1>1, <1>2, InventoryStep

\* SerialsUnique on both backends: however often the CA draws a serial again, the
\* inventory keeps one certificate for it, over DynamoDB one for it and each name (the
\* insert of record_certificate).
THEOREM SerialsNeverShared ==
    ASSUME \A c, d \in Genesis :
               c.serial = d.serial /\ (Backend = "dynamodb" => c.cn = d.cn) => c = d
    PROVE  Spec => []SerialsUnique
<1>1. Init => SerialsUnique BY DEF Init, SerialsUnique
<1> QED BY <1>1, InsertsKeepSerials, PTL DEF Spec

----------------------------------------------------------------------------
(* Refusals *)

Refused == {"replay", "scope_taken"}

\* Every row of the claim table was left by a claim.
RowsBacked ==
    \A k \in ClaimKey : tokens[k] # Absent =>
        \E c \in claims : c.key = k /\ tokens[k] = c.exp + RowBuffer

\* What a refusal of r rests on.
Justified(r) ==
    /\ result[r] = "replay" =>
          \E c \in claims : c.cred = cred[r] /\ c.key = ReplayKey(cred[r]) /\ clk[r] < c.exp + RowBuffer
    /\ result[r] = "scope_taken" =>
          \E c \in claims : c.key = <<"scope", Head(plan[r].once).scope>> /\ clk[r] < c.exp + RowBuffer

\* A step of one handler is no step of another.
LEMMA OthersStill ==
    ASSUME TypeInv, NEW r \in Req, Start(r) \/ Continue(r) \/ Drop(r), NEW s \in Req, s # r
    PROVE  /\ pc'[s] = pc[s] /\ result'[s] = result[s] /\ plan'[s] = plan[s]
           /\ cred'[s] = cred[s] /\ clk'[s] = clk[s] /\ validAt'[s] = validAt[s]
<1>0. /\ pc \in [Req -> Pcs] /\ result \in [Req -> Results] /\ plan \in [Req -> Planned]
      /\ cred \in [Req -> Credential \cup {Absent}] /\ clk \in [Req -> Nat] /\ validAt \in [Req -> Nat]
    BY DEF TypeInv, TypeOK
<1>1. CASE Start(r)
    <2>1. ASSUME NEW t \in Token, NEW key \in Key, NEW from \in Starts, NEW d \in Requested,
                 ValidateToken(r, t, key, from, d)
          PROVE  /\ pc'[s] = pc[s] /\ result'[s] = result[s] /\ plan'[s] = plan[s]
                 /\ cred'[s] = cred[s] /\ clk'[s] = clk[s] /\ validAt'[s] = validAt[s]
        BY <1>0, <2>1 DEF ValidateToken, Validated, Go
    <2>2. ASSUME NEW op \in {"renew", "rekey"}, NEW c \in held, ReadRevocation(r, op, c)
          PROVE  /\ pc'[s] = pc[s] /\ result'[s] = result[s] /\ plan'[s] = plan[s]
                 /\ cred'[s] = cred[s] /\ clk'[s] = clk[s] /\ validAt'[s] = validAt[s]
        BY <1>0, <2>2 DEF ReadRevocation, Go, Finish
    <2>3. ASSUME NEW x \in Credential, NEW z \in Serial, AuthorizeRevoke(r, x, z)
          PROVE  /\ pc'[s] = pc[s] /\ result'[s] = result[s] /\ plan'[s] = plan[s]
                 /\ cred'[s] = cred[s] /\ clk'[s] = clk[s] /\ validAt'[s] = validAt[s]
        <3>1. /\ cred' = [cred EXCEPT ![r] = x] /\ validAt' = [validAt EXCEPT ![r] = now]
              /\ UNCHANGED <<result, clk>>
              /\ pc' = [pc EXCEPT ![r] = "jti"] /\ \E q : plan' = [plan EXCEPT ![r] = q]
            BY <2>3 DEF AuthorizeRevoke, Validated, Go
        <3> QED BY <1>0, <3>1
    <2>4. CASE Reject(r)
        BY <1>0, <2>4 DEF Reject, Finish
    <2> QED BY <1>1, <2>1, <2>2, <2>3, <2>4 DEF Start
<1>2. CASE \E p \in Proof, key \in Key : VerifyProof(r, p, key)
    BY <1>0, <1>2 DEF VerifyProof, Go
<1>3. CASE RejectReissue(r) \/ HooksRefuse(r) \/ ReadClock(r)
    BY <1>0, <1>3 DEF RejectReissue, HooksRefuse, ReadClock, Go, Finish
<1>4. CASE \E h \in HookReplies : HooksAllow(r, h)
    BY <1>0, <1>4 DEF HooksAllow, Go, Finish
<1>5. CASE claim_jti(r)
    BY <1>0, <1>5 DEF claim_jti, ClaimFails, Go, Finish
<1>6. CASE claim_once_scopes(r)
    BY <1>0, <1>6 DEF claim_once_scopes, ClaimFails, Go, Finish
<1>7. CASE Issue(r)
    BY <1>0, <1>7 DEF Issue, Go, Finish
<1>8. CASE record_certificate(r) \/ revoke(r) \/ Emit(r)
    BY <1>0, <1>8 DEF record_certificate, revoke, Emit, Go, Finish
<1>9. CASE Respond(r) \/ Drop(r)
    BY <1>0, <1>9 DEF Respond, Drop, Release
<1> QED BY <1>1, <1>2, <1>3, <1>4, <1>5, <1>6, <1>7, <1>8, <1>9 DEF Continue

\* Nothing is ever taken back from the history of claims.
LEMMA ClaimsGrow == ASSUME TypeInv, [Next]_vars PROVE claims \subseteq claims'
<1>1. ASSUME NEW r \in Req, claim_jti(r) \/ claim_once_scopes(r) PROVE claims \subseteq claims'
    BY <1>1, ClaimFrame DEF TakeClaim
<1>2. ASSUME NEW r \in Req, Quiet(r) PROVE claims \subseteq claims'
    BY <1>2, QuietFrame
<1>3. CASE Reap \/ Tick \/ UNCHANGED vars
    BY <1>3 DEF Reap, Tick, vars
<1> QED BY <1>1, <1>2, <1>3 DEF Next, Continue, Quiet

\* Rows come from claims, and only go when they are reaped.
LEMMA NextBacked == TypeInv /\ RowsBacked /\ [Next]_vars => RowsBacked'
<1> SUFFICES ASSUME TypeInv, RowsBacked, [Next]_vars PROVE RowsBacked'
    OBVIOUS
<1>0. tokens \in [ClaimKey -> Nat \cup {Absent}] BY DEF TypeInv, TypeOK
<1>1. ASSUME NEW r \in Req, NEW k \in ClaimKey, NEW e, TakeClaim(r, k, e) PROVE RowsBacked'
    <2> DEFINE x == FlooredExpiry(e, clk[r])
               n == [key |-> k, cred |-> cred[r], by |-> r, at |-> now, exp |-> x]
    <2>1. claims' = claims \cup {n} /\ tokens' = [tokens EXCEPT ![k] = x + RowBuffer]
        BY <1>1 DEF TakeClaim, ClaimRow
    <2>2. n.key = k /\ n.exp = x OBVIOUS
    <2> HIDE DEF n, x
    <2>3. tokens'[k] = n.exp + RowBuffer /\ n \in claims' BY <1>0, <2>1, <2>2
    <2>4. \A j \in ClaimKey : j # k => tokens'[j] = tokens[j] BY <1>0, <2>1
    <2> QED BY <2>1, <2>2, <2>3, <2>4 DEF RowsBacked, RowBuffer
<1>2. ASSUME NEW r \in Req, claim_jti(r) \/ claim_once_scopes(r) PROVE RowsBacked'
    <2>1. CASE UNCHANGED <<tokens, claims>> BY <2>1 DEF RowsBacked, RowBuffer
    <2>2. CASE claim_jti(r) /\ TakeClaim(r, ReplayKey(cred[r]), ReplayExpiry(cred[r]))
        <3>1. cred[r] \in Credential BY <2>2 DEF claim_jti, TypeInv, StageOK
        <3> QED BY <1>1, <2>2, <3>1, ReplayKeyType
    <2>3. ASSUME NEW x \in Scope, NEW e \in Int, TakeClaim(r, <<"scope", x>>, e) PROVE RowsBacked'
        <3>1. <<"scope", x>> \in ClaimKey BY DEF ClaimKey
        <3> QED BY <1>1, <2>3, <3>1
    <2> QED BY <1>2, <2>1, <2>2, <2>3, ClaimFrame
<1>3. ASSUME NEW r \in Req, Quiet(r) PROVE RowsBacked'
    <2>1. UNCHANGED <<tokens, claims>> BY <1>3, QuietFrame
    <2> QED BY <2>1 DEF RowsBacked, RowBuffer
<1>4. CASE Reap
    <2>1. UNCHANGED claims /\ \A k \in ClaimKey : tokens'[k] \in {tokens[k], Absent}
        BY <1>0, <1>4 DEF Reap, reap_expired, TtlSweep
    <2> QED BY <2>1 DEF RowsBacked, RowBuffer
<1>5. CASE Tick \/ UNCHANGED vars
    <2>1. UNCHANGED <<tokens, claims>> BY <1>5 DEF Tick, vars, storeVars
    <2> QED BY <2>1 DEF RowsBacked, RowBuffer
<1> QED BY <1>2, <1>3, <1>4, <1>5 DEF Next, Continue, Quiet

\* What is behind a refused claim: a row in the way, or (a DynamoDB response lost and
\* the request retried) the request's own claim.
Obstructed(r, k) ==
    \/ ~Claimable(k, clk[r]) /\ UNCHANGED claims
    \/ Backend = "dynamodb" /\ \E e \in Int : TakeClaim(r, k, e)

\* A result is refused only by a claim that found its key taken, and then stays as it is.
LEMMA RefusalOrigin ==
    ASSUME TypeInv, AuditInv, NEW r \in Req, Start(r) \/ Continue(r) \/ Drop(r)
    PROVE  \/ result'[r] \notin Refused
           \/ /\ result'[r] = result[r] /\ cred'[r] = cred[r] /\ clk'[r] = clk[r] /\ plan'[r] = plan[r]
           \/ /\ claim_jti(r) /\ result'[r] = "replay" /\ Obstructed(r, ReplayKey(cred[r]))
              /\ UNCHANGED <<cred, clk, plan>>
           \/ /\ claim_once_scopes(r) /\ result'[r] = "scope_taken"
              /\ Obstructed(r, <<"scope", Head(plan[r].once).scope>>)
              /\ UNCHANGED <<cred, clk, plan>>
<1>0. result \in [Req -> Results] BY DEF TypeInv, TypeOK
<1>1. pc[r] \notin Reporting => result[r] = "none" BY DEF AuditInv, Honest
<1>2. CASE Start(r)
    <2>1. pc[r] = "new" BY <1>2 DEF Start, ValidateToken, ReadRevocation, AuthorizeRevoke, Reject
    <2>2. result'[r] \in {result[r], "rejected", "error"}
        BY <1>0, <1>2 DEF Start, ValidateToken, ReadRevocation, AuthorizeRevoke, Reject, Go, Finish
    <2> QED BY <1>1, <2>1, <2>2 DEF Reporting, Refused
<1>3. CASE \/ \E p \in Proof, key \in Key : VerifyProof(r, p, key)
           \/ RejectReissue(r) \/ HooksRefuse(r)
           \/ \E h \in HookReplies : HooksAllow(r, h)
           \/ ReadClock(r) \/ Issue(r) \/ record_certificate(r) \/ revoke(r)
    <2>1. pc[r] \notin Reporting
        BY <1>3 DEF VerifyProof, RejectReissue, HooksRefuse, HooksAllow, ReadClock, Issue,
                    record_certificate, revoke, Reporting
    <2>2. result'[r] \in {result[r], "rejected", "hook", "ok", "error", "unencodable"}
        BY <1>0, <1>3 DEF VerifyProof, RejectReissue, HooksRefuse, HooksAllow, ReadClock, Issue,
                    record_certificate, revoke, Go, Finish
    <2> QED BY <1>1, <2>1, <2>2 DEF Refused
<1>4. CASE claim_jti(r)
    <2>1. pc[r] \notin Reporting /\ UNCHANGED <<cred, plan>> BY <1>4 DEF claim_jti, Reporting
    <2>2. ReplayExpiry(cred[r]) \in Int
        <3>1. cred[r] \in Credential BY <1>4 DEF claim_jti, TypeInv, StageOK
        <3> QED BY <3>1, ReplayExpiryType
    <2>3. CASE UNCHANGED result BY <1>1, <2>1, <2>3 DEF Refused
    <2>4. CASE ClaimFails(r, ReplayKey(cred[r]), ReplayExpiry(cred[r]), "replay") /\ UNCHANGED clk
        <3>1. \/ result'[r] = "error"
              \/ result'[r] = "replay" /\ Obstructed(r, ReplayKey(cred[r]))
            BY <1>0, <2>2, <2>4 DEF ClaimFails, Finish, Obstructed
        <3> QED BY <1>4, <2>1, <2>4, <3>1 DEF Refused
    <2> QED BY <1>4, <2>3, <2>4 DEF claim_jti, Go
<1>5. CASE claim_once_scopes(r)
    <2>1. pc[r] \notin Reporting /\ UNCHANGED cred BY <1>5 DEF claim_once_scopes, Reporting
    <2> DEFINE o == Head(plan[r].once)
               k == <<"scope", o.scope>>
               e == IF o.expires = Absent THEN plan[r].cert.na ELSE o.expires
    <2>2. e \in Int
        <3>1. plan[r].once \in Seq(OnceClaim) /\ plan[r].once # <<>> /\ plan[r].cert \in Draft
            BY <1>5 DEF claim_once_scopes, TypeInv, TypeOK, StageOK, Planned
        <3>2. o \in OnceClaim /\ plan[r].cert.na \in Int BY <3>1, HeadTailProperties DEF Draft
        <3> HIDE DEF o
        <3> QED BY <3>2 DEF OnceClaim
    <2>3. CASE UNCHANGED result BY <1>1, <2>1, <2>3 DEF Refused
    <2>4. CASE ClaimFails(r, k, e, "scope_taken") /\ UNCHANGED <<plan, clk>>
        <3> HIDE DEF e, k
        <3>1. result'[r] = "error" \/ (result'[r] = "scope_taken" /\ Obstructed(r, k))
            BY <1>0, <2>2, <2>4 DEF ClaimFails, Finish, Obstructed
        <3> QED BY <1>5, <2>1, <2>4, <3>1 DEF Refused, k
    <2> QED BY <1>5, <2>3, <2>4 DEF claim_once_scopes, Go
<1>6. CASE Emit(r)
    BY <1>6 DEF Emit, Go
<1>7. CASE Respond(r) \/ Drop(r)
    <2>1. result'[r] = "none" BY <1>0, <1>7 DEF Respond, Drop, Release
    <2> QED BY <2>1 DEF Refused
<1> QED BY <1>2, <1>3, <1>4, <1>5, <1>6, <1>7 DEF Continue

\* A refusal stays justified, and a new one is: the row that is in the way was left by
\* a claim that it still stands for at the clock the handler read, and a claim of one's
\* own outlasts that clock.
LEMMA NextJustified ==
    ASSUME Backend = "dynamodb" => REPLAY_LEEWAY + TTL_BUFFER > 0,
           \A x, y \in Credential : ReplayKey(x) = ReplayKey(y) => x = y,
           TypeInv, AuditInv, RowsBacked, CredentialClaims, \A r \in Req : Justified(r), [Next]_vars
    PROVE  \A r \in Req : Justified(r)'
<1>0. claims \subseteq claims' BY ClaimsGrow
<1>1. ASSUME NEW s \in Req, result'[s] = result[s], cred'[s] = cred[s], clk'[s] = clk[s], plan'[s] = plan[s]
      PROVE  Justified(s)'
    BY <1>0, <1>1 DEF Justified, RowBuffer
<1>2. ASSUME NEW k \in ClaimKey, NEW r \in Req, Obstructed(r, k)
      PROVE  \E c \in claims' : /\ c.key = k /\ clk[r] < c.exp + RowBuffer
                                /\ c \in claims \/ c.cred = cred[r]
    <2>1. CASE ~Claimable(k, clk[r]) /\ UNCHANGED claims
        <3>1. tokens[k] \in Nat /\ tokens[k] > clk[r] /\ tokens[k] # Absent
            BY <2>1 DEF Claimable, TypeInv, TypeOK
        <3>2. PICK c \in claims : c.key = k /\ tokens[k] = c.exp + RowBuffer BY <3>1 DEF RowsBacked
        <3> QED BY <2>1, <3>1, <3>2
    <2>2. CASE Backend = "dynamodb" /\ \E e \in Int : TakeClaim(r, k, e)
        <3>1. PICK e \in Int : TakeClaim(r, k, e) BY <2>2
        <3> DEFINE x == FlooredExpiry(e, clk[r])
                   c == [key |-> k, cred |-> cred[r], by |-> r, at |-> now, exp |-> x]
        <3>2. c \in claims' BY <3>1 DEF TakeClaim
        <3>3. c.key = k /\ c.cred = cred[r] /\ c.exp = x OBVIOUS
        <3> HIDE DEF c
        <3>4. clk[r] < x + RowBuffer
            <4>1. clk[r] \in Nat BY DEF TypeInv, TypeOK
            <4>2. x \in Int /\ x >= clk[r] + REPLAY_LEEWAY BY <4>1 DEF FlooredExpiry
            <4>3. RowBuffer = TTL_BUFFER BY <2>2 DEF RowBuffer
            <4> HIDE DEF x
            <4> QED BY <2>2, <4>1, <4>2, <4>3
        <3> HIDE DEF x
        <3> QED BY <3>2, <3>3, <3>4
    <2> QED BY <1>2, <2>1, <2>2 DEF Obstructed
<1>3. ASSUME NEW r \in Req, Start(r) \/ Continue(r) \/ Drop(r) PROVE Justified(r)'
    <2>1. CASE result'[r] \notin Refused BY <2>1 DEF Justified, Refused
    <2>2. CASE result'[r] = result[r] /\ cred'[r] = cred[r] /\ clk'[r] = clk[r] /\ plan'[r] = plan[r]
        BY <1>1, <2>2
    <2>3. CASE /\ claim_jti(r) /\ result'[r] = "replay" /\ Obstructed(r, ReplayKey(cred[r]))
               /\ UNCHANGED <<cred, clk, plan>>
        <3>1. cred[r] \in Credential BY <2>3 DEF claim_jti, TypeInv, StageOK
        <3>2. PICK c \in claims' : /\ c.key = ReplayKey(cred[r]) /\ clk[r] < c.exp + RowBuffer
                                   /\ c \in claims \/ c.cred = cred[r]
            BY <1>2, <2>3, <3>1, ReplayKeyType
        <3>3. c.key[1] # "scope" BY <3>2 DEF ReplayKey
        <3>4. c \in claims => c.cred \in Credential /\ c.key = ReplayKey(c.cred)
            BY <3>3 DEF CredentialClaims, TypeInv, TypeOK, Claim
        <3>5. c.cred = cred[r] BY <3>1, <3>2, <3>4
        <3> QED BY <2>3, <3>2, <3>5 DEF Justified, RowBuffer
    <2>4. CASE /\ claim_once_scopes(r) /\ result'[r] = "scope_taken"
               /\ Obstructed(r, <<"scope", Head(plan[r].once).scope>>)
               /\ UNCHANGED <<cred, clk, plan>>
        <3>1. plan[r].once \in Seq(OnceClaim) /\ plan[r].once # <<>>
            BY <2>4 DEF claim_once_scopes, TypeInv, TypeOK, StageOK, Planned
        <3>2. Head(plan[r].once) \in OnceClaim BY <3>1, HeadTailProperties
        <3>3. <<"scope", Head(plan[r].once).scope>> \in ClaimKey BY <3>2 DEF OnceClaim, ClaimKey
        <3>4. PICK c \in claims' : /\ c.key = <<"scope", Head(plan[r].once).scope>>
                                   /\ clk[r] < c.exp + RowBuffer
            BY <1>2, <2>4, <3>3
        <3> QED BY <2>4, <3>4 DEF Justified, RowBuffer
    <2> QED BY <1>3, <2>1, <2>2, <2>3, <2>4, RefusalOrigin
<1>4. ASSUME NEW r \in Req, Start(r) \/ Continue(r) \/ Drop(r), NEW s \in Req PROVE Justified(s)'
    <2>1. CASE s = r BY <1>3, <1>4, <2>1
    <2>2. CASE s # r BY <1>1, <1>4, <2>2, OthersStill
    <2> QED BY <2>1, <2>2
<1>5. ASSUME Reap \/ Tick \/ UNCHANGED vars, NEW s \in Req PROVE Justified(s)'
    BY <1>1, <1>5 DEF Reap, Tick, vars
<1> QED BY <1>4, <1>5 DEF Next

\* RefusalMeansHeld on both backends, if no two credentials share a one-time identifier:
\* a request is refused as a replay only if its credential was claimed, and for a scope
\* only if that is held at the time the request read (claim_once).  Over DynamoDB the
\* leeway or the TTL buffer must be positive, as both are.
THEOREM RefusalsJustified ==
    ASSUME Backend = "dynamodb" => REPLAY_LEEWAY + TTL_BUFFER > 0,
           \A x, y \in Credential : ReplayKey(x) = ReplayKey(y) => x = y
    PROVE  Spec => []RefusalMeansHeld
<1> DEFINE J == RowsBacked /\ \A r \in Req : Justified(r)
<1>1. Init => J BY DEF Init, RowsBacked, Justified
<1>2. TypeInv /\ AuditInv /\ CredentialClaims /\ J /\ [Next]_vars => J' BY NextBacked, NextJustified
<1>3. J => RefusalMeansHeld BY DEF Justified, RefusalMeansHeld
<1>4. UseInv => TypeInv /\ CredentialClaims BY DEF UseInv
<1> HIDE DEF J
<1> QED BY <1>1, <1>2, <1>3, <1>4, UseInvariant, AuditInvariant, PTL DEF Spec

----------------------------------------------------------------------------
(* The certificate being prepared *)

\* From the hooks to the inventory row.
Claiming == {"jti", "jti_wait", "scope", "scope_wait", "issue", "record"}

\* The window of a certificate.
Bounded(c) == c.nb < c.na /\ c.na - c.nb <= MaxValidity + Backdate

\* Nothing is reissued; no hook moves the start of a window back.
NoReissue == Ops \cap {"renew", "rekey"} = {}
NoRatchet == \A h \in HookReplies : h.back >= 0

\* The window of a handler's certificate: a reissue starts from one that is bounded, a
\* new one is clamped after its hooks.
WindowKept(r) ==
    /\ pc[r] = "proof" => NoRatchet /\ Bounded(plan[r].parent) /\ plan[r].op # "sign"
    /\ pc[r] = "hooks" /\ plan[r].op # "sign" =>
          NoRatchet /\ plan[r].cert.na - plan[r].cert.nb <= MaxValidity + Backdate
    /\ pc[r] \in Claiming /\ plan[r].op # "revoke" => Bounded(plan[r].cert)

WindowInv == (\A r \in Req : WindowKept(r)) /\ (\A c \in inventory : Bounded(c))

\* A scope that is still to be claimed until the certificate's own expiry.
Due(once, x) == \E i \in DOMAIN once : once[i].scope = x /\ once[i].expires = Absent

\* Among the claims S, one of the scope by r until t.
HeldUntil(S, x, r, t) == \E c \in S : c.key = <<"scope", x>> /\ c.by = r /\ c.exp >= t

\* The scopes of a handler's certificate: each is to be claimed, or claimed until its
\* expiry, and none is left once the certificate is signed.
ScopesKept(r) ==
    /\ pc[r] \in Claiming /\ plan[r].op # "revoke" =>
          \A x \in plan[r].cert.scopes :
              Due(plan[r].once, x) \/ HeldUntil(claims, x, r, plan[r].cert.na)
    /\ pc[r] \in {"issue", "record"} => plan[r].once = <<>>

ScopeInv ==
    /\ \A r \in Req : ScopesKept(r)
    /\ \A c \in inventory : \A x \in c.scopes : HeldUntil(claims, x, c.by, c.na)

----------------------------------------------------------------------------
(* Steps of the certificate being prepared *)

\* try_sign: the request goes to its hooks.
LEMMA TokenDraft ==
    ASSUME TypeInv, NEW r \in Req, NEW t \in Token, NEW key \in Key, NEW from \in Starts,
           NEW d \in Requested, ValidateToken(r, t, key, from, d)
    PROVE  pc'[r] = "hooks" /\ plan'[r].op = "sign"
<1> DEFINE nb == now + from - Backdate
           c == [serial |-> Absent, cn |-> TokenInfo[t].sub, key |-> key, nb |-> nb,
                 na |-> nb + Least(d, MaxValidity + Backdate),
                 renewable |-> TokenInfo[t].renew, by |-> r, scopes |-> {}]
           q == [op |-> "sign", target |-> Absent, parent |-> Absent,
                 once |-> TokenInfo[t].once, cert |-> c]
<1>1. plan' = [plan EXCEPT ![r] = q] /\ pc' = [pc EXCEPT ![r] = "hooks"] BY DEF ValidateToken, Go
<1>2. q.op = "sign" OBVIOUS
<1> HIDE DEF q
<1> QED BY <1>1, <1>2 DEF TypeInv, TypeOK

\* try_renew_or_rekey: the certificate presented is one that a client holds.
LEMMA PresentedParent ==
    ASSUME TypeInv, NEW r \in Req, NEW op \in {"renew", "rekey"}, NEW c \in held, ReadRevocation(r, op, c)
    PROVE  /\ op \in Ops /\ pc'[r] \in {"proof", "emit"}
           /\ plan'[r].op = op /\ plan'[r].parent = c
<1> DEFINE q == [NoPlan EXCEPT !.op = op, !.parent = c]
<1>1. plan' = [plan EXCEPT ![r] = q] /\ op \in Ops BY DEF ReadRevocation
<1>2. q.op = op /\ q.parent = c BY DEF NoPlan
<1>3. pc'[r] \in {"proof", "emit"} BY DEF ReadRevocation, Go, Finish, TypeInv, TypeOK
<1> HIDE DEF q
<1> QED BY <1>1, <1>2, <1>3 DEF TypeInv, TypeOK

\* The baseline of a reissue is as long as the certificate presented.
LEMMA BaselineDraft ==
    ASSUME TypeInv, NEW r \in Req, NEW p \in Proof, NEW key \in Key, VerifyProof(r, p, key)
    PROVE  /\ pc[r] = "proof" /\ pc'[r] = "hooks" /\ plan'[r].op = plan[r].op
           /\ plan'[r].cert.na - plan'[r].cert.nb = plan[r].parent.na - plan[r].parent.nb
<1> DEFINE c == plan[r].parent
           d == [c EXCEPT !.serial = Absent, !.key = key, !.nb = now, !.na = now + (c.na - c.nb), !.by = r]
           q == [plan[r] EXCEPT !.cert = d]
<1>1. /\ plan' = [plan EXCEPT ![r] = q] /\ pc[r] = "proof"
      /\ pc' = [pc EXCEPT ![r] = "hooks"]
    BY DEF VerifyProof, Go
<1>2. c \in Certificate BY <1>1 DEF TypeInv, StageOK
<1>3. c.na \in Int /\ c.nb \in Int /\ now \in Int BY <1>2 DEF Certificate, TypeInv, TypeOK
<1>4. d.nb = now /\ d.na = now + (c.na - c.nb) BY <1>2 DEF Certificate
<1> HIDE DEF d
<1>5. d.na - d.nb = c.na - c.nb
    <2> HIDE DEF c
    <2> QED BY <1>3, <1>4
<1>6. q.op = plan[r].op /\ q.cert = d BY DEF TypeInv, TypeOK, Planned
<1> HIDE DEF q
<1> QED BY <1>1, <1>5, <1>6 DEF TypeInv, TypeOK

\* The hooks move the window and say which scopes are to be claimed.
LEMMA HookedDraft ==
    ASSUME TypeInv, NEW r \in Req, NEW h \in HookReplies, HooksAllow(r, h)
    PROVE  /\ pc[r] = "hooks"
           /\ \/ pc'[r] = "emit"
              \/ LET c == plan[r].cert
                     d == plan'[r].cert
                     nb == c.nb + h.back
                 IN  /\ pc'[r] = "jti" /\ plan'[r].op = plan[r].op
                     /\ d.nb = nb /\ d.na = Least(c.na + h.extend, Ceiling(plan[r].op, nb, c.na))
                     /\ d.nb < d.na
                     /\ d.scopes = OwnExpiry(plan'[r].once)
<1> DEFINE c == plan[r].cert
           nb == c.nb + h.back
           na == Least(c.na + h.extend, Ceiling(plan[r].op, nb, c.na))
           once == h.once \o plan[r].once
           d == [c EXCEPT !.nb = nb, !.na = na, !.renewable = c.renewable /\ h.renew,
                          !.scopes = OwnExpiry(once)]
           q == [plan[r] EXCEPT !.cert = d, !.once = once]
<1>0. pc[r] = "hooks" /\ pc \in [Req -> Pcs] /\ plan \in [Req -> Planned] /\ c \in Draft
    BY DEF HooksAllow, TypeInv, TypeOK, StageOK
<1>1. CASE na <= nb
    <2>1. Finish(r, "hook") BY <1>1 DEF HooksAllow
    <2> QED BY <1>0, <2>1 DEF Finish
<1>2. CASE ~(na <= nb)
    <2>1. plan' = [plan EXCEPT ![r] = q] /\ pc' = [pc EXCEPT ![r] = "jti"]
        BY <1>2 DEF HooksAllow, Go
    <2>2. c.nb \in Int /\ c.na \in Int /\ h.back \in Int /\ h.extend \in Int BY <1>0 DEF Draft
    <2>3. nb \in Int /\ Ceiling(plan[r].op, nb, c.na) \in Int BY <2>2 DEF Ceiling
    <2>4. na \in Int
        <3> DEFINE top == Ceiling(plan[r].op, nb, c.na)
        <3>1. top \in Int /\ na = Least(c.na + h.extend, top) BY <2>3
        <3>2. c.na + h.extend \in Int BY <2>2
        <3> HIDE DEF top, na, nb, c
        <3> QED BY <3>1, <3>2 DEF Least
    <2> HIDE DEF nb, na, once
    <2>5. nb < na BY <1>2, <2>3, <2>4
    <2>6. d.nb = nb /\ d.na = na /\ d.scopes = OwnExpiry(once)
        BY <1>0 DEF Draft
    <2> HIDE DEF d
    <2>7. q.cert = d /\ q.once = once /\ q.op = plan[r].op BY <1>0 DEF Planned
    <2> HIDE DEF q
    <2>8. plan'[r] = q /\ pc'[r] = "jti" BY <1>0, <2>1
    <2> QED BY <1>0, <2>5, <2>6, <2>7, <2>8 DEF nb, na
<1> QED BY <1>1, <1>2

\* A claim leaves the draft alone; a scope that is claimed until the certificate's own
\* expiry is held that long, and the certificate is signed when none is left.
LEMMA ClaimedDraft ==
    ASSUME TypeInv, NEW r \in Req, claim_jti(r) \/ claim_once_scopes(r)
    PROVE  \/ pc'[r] \in {"emit", "revoke"}
           \/ /\ pc[r] \in {"jti_wait", "scope_wait"} /\ pc'[r] \in {"scope", "issue"}
              /\ plan'[r].op = plan[r].op /\ plan'[r].cert = plan[r].cert
              /\ pc'[r] = "issue" => plan'[r].once = <<>>
              /\ \/ plan'[r].once = plan[r].once
                 \/ /\ plan[r].once # <<>> /\ plan'[r].once = Tail(plan[r].once)
                    /\ Head(plan[r].once).expires = Absent =>
                          \E c \in claims' : /\ c.key = <<"scope", Head(plan[r].once).scope>>
                                             /\ c.by = r /\ c.exp >= plan[r].cert.na
<1>0. pc \in [Req -> Pcs] /\ plan \in [Req -> Planned] /\ clk[r] \in Nat BY DEF TypeInv, TypeOK
<1>1. CASE claim_jti(r)
    <2>1. UNCHANGED plan /\ pc[r] = "jti_wait" BY <1>1 DEF claim_jti
    <2>2. pc'[r] \in {"emit", AfterClaims(r, plan[r].once)}
        BY <1>0, <1>1 DEF claim_jti, ClaimFails, Go, Finish
    <2> QED BY <2>1, <2>2 DEF AfterClaims
<1>2. CASE claim_once_scopes(r)
    <2> DEFINE o == Head(plan[r].once)
               left == Tail(plan[r].once)
               e == IF o.expires = Absent THEN plan[r].cert.na ELSE o.expires
               n == [key |-> <<"scope", o.scope>>, cred |-> cred[r], by |-> r, at |-> now,
                     exp |-> FlooredExpiry(e, clk[r])]
    <2>1. pc[r] = "scope_wait" /\ plan[r].once # <<>> /\ plan[r].cert \in Draft
        BY <1>2 DEF claim_once_scopes, TypeInv, StageOK
    <2>2. CASE Finish(r, "error") \/ Finish(r, "scope_taken")
        BY <1>0, <2>2 DEF Finish
    <2>3. CASE /\ TakeClaim(r, <<"scope", o.scope>>, e)
               /\ plan' = [plan EXCEPT ![r] = [@ EXCEPT !.once = left]]
               /\ Go(r, AfterClaims(r, left))
        <3>1. n \in claims' BY <2>3 DEF TakeClaim
        <3>2. n.key = <<"scope", o.scope>> /\ n.by = r /\ n.exp = FlooredExpiry(e, clk[r]) OBVIOUS
        <3>3. o.expires = Absent => n.exp >= plan[r].cert.na
            <4>1. plan[r].cert.na \in Int BY <2>1 DEF Draft
            <4>2. o.expires = Absent => e = plan[r].cert.na OBVIOUS
            <4> DEFINE na == plan[r].cert.na
                       t == clk[r]
            <4>3. na \in Int /\ t \in Nat /\ n.exp = FlooredExpiry(e, t) BY <1>0, <3>2, <4>1
            <4> HIDE DEF e, n, o
            <4>4. o.expires = Absent => n.exp = FlooredExpiry(na, t) BY <4>2, <4>3
            <4> HIDE DEF na, t
            <4>5. FlooredExpiry(na, t) >= na BY <4>3, IssuanceAssumption DEF FlooredExpiry
            <4>6. o.expires = Absent => n.exp >= na BY <4>4, <4>5
            <4> QED BY <4>6 DEF na
        <3> HIDE DEF n, o, e, left
        <3>4. plan'[r].op = plan[r].op /\ plan'[r].cert = plan[r].cert /\ plan'[r].once = left
            BY <1>0, <2>3 DEF Planned
        <3>5. pc'[r] = AfterClaims(r, left) BY <1>0, <2>3 DEF Go
        <3> QED BY <2>1, <3>1, <3>2, <3>3, <3>4, <3>5 DEF AfterClaims, left, o
    <2> QED BY <1>2, <2>2, <2>3 DEF claim_once_scopes, ClaimFails
<1> QED BY <1>1, <1>2

\* The signature adds the serial.
LEMMA SignedCert ==
    ASSUME TypeInv, NEW r \in Req, Issue(r)
    PROVE  /\ pc[r] = "issue"
           /\ \/ pc'[r] = "emit"
              \/ LET c == plan[r].cert
                     d == plan'[r].cert
                 IN  /\ pc'[r] = "record" /\ plan'[r].op = plan[r].op /\ plan'[r].once = plan[r].once
                     /\ d.nb = c.nb /\ d.na = c.na /\ d.scopes = c.scopes
<1>0. pc[r] = "issue" /\ pc \in [Req -> Pcs] /\ plan \in [Req -> Planned] /\ plan[r].cert \in Draft
    BY DEF Issue, TypeInv, TypeOK, StageOK
<1>1. ASSUME NEW why \in {"error", "unencodable"}, Finish(r, why) PROVE pc'[r] = "emit"
    BY <1>0, <1>1 DEF Finish
<1>2. ASSUME NEW s \in Serial, Go(r, "record"),
             plan' = [plan EXCEPT ![r] = [@ EXCEPT !.cert = [plan[r].cert EXCEPT !.serial = s]]]
      PROVE  LET c == plan[r].cert
                 d == plan'[r].cert
             IN  /\ pc'[r] = "record" /\ plan'[r].op = plan[r].op /\ plan'[r].once = plan[r].once
                 /\ d.nb = c.nb /\ d.na = c.na /\ d.scopes = c.scopes
    <2> DEFINE d == [plan[r].cert EXCEPT !.serial = s]
    <2>1. d.nb = plan[r].cert.nb /\ d.na = plan[r].cert.na /\ d.scopes = plan[r].cert.scopes
        BY <1>0 DEF Draft
    <2>2. plan' = [plan EXCEPT ![r] = [@ EXCEPT !.cert = d]] BY <1>2
    <2> HIDE DEF d
    <2>3. plan'[r].cert = d /\ plan'[r].op = plan[r].op /\ plan'[r].once = plan[r].once
        BY <1>0, <2>2 DEF Planned
    <2> QED BY <1>0, <1>2, <2>1, <2>3 DEF Go
<1> QED BY <1>0, <1>1, <1>2 DEF Issue

\* What is left: the steps that end a request or only look at the clock.
LEMMA PlainStep ==
    ASSUME TypeInv, NEW r \in Req,
           \/ Reject(r) \/ RejectReissue(r) \/ HooksRefuse(r) \/ ReadClock(r)
           \/ record_certificate(r) \/ revoke(r) \/ Emit(r) \/ Respond(r) \/ Drop(r)
    PROVE  \/ pc'[r] \in Ended
           \/ /\ plan'[r] = plan[r] /\ pc[r] \in {"jti", "scope"} /\ pc'[r] \in {"jti_wait", "scope_wait"}
<1>0. pc \in [Req -> Pcs] BY DEF TypeInv, TypeOK
<1> QED
    BY <1>0 DEF Reject, RejectReissue, HooksRefuse, ReadClock, record_certificate, revoke, Emit,
                Respond, Drop, Go, Finish, Ended

\* try_revoke prepares no certificate.
LEMMA RevokePlan ==
    ASSUME TypeInv, NEW r \in Req, NEW x \in Credential, NEW s \in Serial, AuthorizeRevoke(r, x, s)
    PROVE  pc'[r] = "jti" /\ plan'[r].op = "revoke"
<1> DEFINE q == [NoPlan EXCEPT !.op = "revoke", !.target = s]
<1>1. plan' = [plan EXCEPT ![r] = q] /\ pc' = [pc EXCEPT ![r] = "jti"] BY DEF AuthorizeRevoke, Go
<1>2. q.op = "revoke" BY DEF NoPlan
<1> HIDE DEF q
<1> QED BY <1>1, <1>2 DEF TypeInv, TypeOK

----------------------------------------------------------------------------
(* Windows *)

\* The clamp after the hooks: a new certificate is cut at the template's ceiling, a
\* reissue ends where its baseline ended.
LEMMA ClampedWindow ==
    ASSUME NEW op, NEW nb \in Int, NEW na \in Int, NEW back \in Int, NEW extend \in Int,
           op # "sign" => back >= 0 /\ na - nb <= MaxValidity + Backdate
    PROVE  Least(na + extend, Ceiling(op, nb + back, na)) - (nb + back) <= MaxValidity + Backdate
<1>1. CASE op = "sign" BY <1>1, IssuanceAssumption DEF Least, Ceiling
<1>2. CASE op # "sign" BY <1>2, IssuanceAssumption DEF Least, Ceiling
<1> QED BY <1>1, <1>2

\* A handler's own step keeps its window.
LEMMA HandlerWindow ==
    ASSUME TypeInv, AuditInv, WindowInv, NoReissue \/ NoRatchet,
           NEW r \in Req, Start(r) \/ Continue(r) \/ Drop(r)
    PROVE  WindowKept(r)'
<1>0. WindowKept(r) /\ (\A c \in held : Bounded(c))
    BY DEF WindowInv, AuditInv, Settled
<1>1. ASSUME pc'[r] \in Ended \cup {"revoke"} PROVE WindowKept(r)'
    BY <1>1 DEF WindowKept, Claiming, Ended
<1>2. ASSUME NEW t \in Token, NEW key \in Key, NEW from \in Starts, NEW d \in Requested,
             ValidateToken(r, t, key, from, d)
      PROVE  WindowKept(r)'
    BY <1>2, TokenDraft DEF WindowKept, Claiming
<1>3. ASSUME NEW op \in {"renew", "rekey"}, NEW c \in held, ReadRevocation(r, op, c)
      PROVE  WindowKept(r)'
    <2>1. NoRatchet BY <1>3, PresentedParent DEF NoReissue
    <2>2. Bounded(c) BY <1>0
    <2>3. NoRatchet' BY <2>1 DEF NoRatchet
    <2>4. Bounded(plan'[r].parent) BY <1>3, <2>2, PresentedParent
    <2> QED BY <1>3, <2>3, <2>4, PresentedParent DEF WindowKept, Claiming, Bounded
<1>4. ASSUME NEW x \in Credential, NEW s \in Serial, AuthorizeRevoke(r, x, s) PROVE WindowKept(r)'
    BY <1>4, RevokePlan DEF WindowKept, Claiming
<1>5. ASSUME NEW p \in Proof, NEW key \in Key, VerifyProof(r, p, key) PROVE WindowKept(r)'
    <2>1. NoRatchet /\ Bounded(plan[r].parent) BY <1>0, <1>5, BaselineDraft DEF WindowKept
    <2>2. NoRatchet' BY <2>1 DEF NoRatchet
    <2>3. plan'[r].cert.na - plan'[r].cert.nb <= MaxValidity + Backdate
        BY <1>5, <2>1, BaselineDraft DEF Bounded
    <2> QED BY <1>5, <2>2, <2>3, BaselineDraft DEF WindowKept, Claiming
<1>6. ASSUME NEW h \in HookReplies, HooksAllow(r, h) PROVE WindowKept(r)'
    <2>1. CASE pc'[r] = "emit" BY <1>1, <2>1 DEF Ended
    <2>2. CASE pc'[r] # "emit"
        <3> DEFINE c == plan[r].cert
                   d == plan'[r].cert
                   op == plan[r].op
        <3>1. pc[r] = "hooks" /\ c \in Draft BY <1>6, HookedDraft DEF TypeInv, StageOK
        <3>2. c.nb \in Int /\ c.na \in Int BY <3>1 DEF Draft
        <3>3. h.back \in Int /\ h.extend \in Int BY IssuanceAssumption
        <3>4. op # "sign" => h.back >= 0 /\ c.na - c.nb <= MaxValidity + Backdate
            BY <1>0, <3>1 DEF WindowKept, NoRatchet
        <3>5. /\ pc'[r] = "jti" /\ d.nb = c.nb + h.back /\ d.nb < d.na
              /\ d.na = Least(c.na + h.extend, Ceiling(op, c.nb + h.back, c.na))
            BY <1>6, <2>2, HookedDraft
        <3>6. Least(c.na + h.extend, Ceiling(op, c.nb + h.back, c.na)) - (c.nb + h.back)
                 <= MaxValidity + Backdate
            <4> HIDE DEF c, op
            <4> QED BY <3>2, <3>3, <3>4, ClampedWindow
        <3>7. Bounded(d) BY <3>5, <3>6 DEF Bounded
        <3> QED BY <3>5, <3>7 DEF WindowKept, Claiming, Bounded
    <2> QED BY <2>1, <2>2
<1>7. ASSUME claim_jti(r) \/ claim_once_scopes(r) PROVE WindowKept(r)'
    <2>1. CASE pc'[r] \in {"emit", "revoke"} BY <1>1, <2>1 DEF Ended
    <2>2. CASE /\ pc[r] \in {"jti_wait", "scope_wait"} /\ pc'[r] \in {"scope", "issue"}
               /\ plan'[r].op = plan[r].op /\ plan'[r].cert = plan[r].cert
        BY <1>0, <2>2 DEF WindowKept, Claiming, Bounded
    <2> QED BY <1>7, <2>1, <2>2, ClaimedDraft
<1>8. ASSUME Issue(r) PROVE WindowKept(r)'
    <2>1. CASE pc'[r] = "emit" BY <1>1, <2>1 DEF Ended
    <2>2. CASE pc'[r] # "emit"
        <3>1. /\ pc[r] = "issue" /\ pc'[r] = "record" /\ plan'[r].op = plan[r].op
              /\ plan'[r].cert.nb = plan[r].cert.nb /\ plan'[r].cert.na = plan[r].cert.na
            BY <1>8, <2>2, SignedCert
        <3> QED BY <1>0, <3>1 DEF WindowKept, Claiming, Bounded
    <2> QED BY <2>1, <2>2
<1>9. ASSUME \/ Reject(r) \/ RejectReissue(r) \/ HooksRefuse(r) \/ ReadClock(r)
             \/ record_certificate(r) \/ revoke(r) \/ Emit(r) \/ Respond(r) \/ Drop(r)
      PROVE  WindowKept(r)'
    <2>1. CASE pc'[r] \in Ended BY <1>1, <2>1
    <2>2. CASE plan'[r] = plan[r] /\ pc[r] \in {"jti", "scope"} /\ pc'[r] \in {"jti_wait", "scope_wait"}
        BY <1>0, <2>2 DEF WindowKept, Claiming, Bounded
    <2> QED BY <1>9, <2>1, <2>2, PlainStep
<1> QED BY <1>2, <1>3, <1>4, <1>5, <1>6, <1>7, <1>8, <1>9 DEF Start, Continue

\* Every step keeps the windows.
LEMMA NextWindow ==
    ASSUME NoReissue \/ NoRatchet
    PROVE  TypeInv /\ AuditInv /\ WindowInv /\ [Next]_vars => WindowInv'
<1> SUFFICES ASSUME TypeInv, AuditInv, WindowInv, [Next]_vars PROVE WindowInv'
    OBVIOUS
<1>1. \A c \in inventory' : Bounded(c)
    <2>1. ASSUME NEW r \in Req, pc[r] = "record" PROVE Bounded(plan[r].cert)
        BY <2>1 DEF WindowInv, WindowKept, Claiming, TypeInv, StageOK
    <2> QED BY <2>1, InventoryStep DEF WindowInv
<1>2. ASSUME NEW s \in Req, pc'[s] = pc[s], plan'[s] = plan[s] PROVE WindowKept(s)'
    BY <1>2 DEF WindowInv, WindowKept, NoRatchet, Bounded
<1>3. ASSUME NEW r \in Req, Start(r) \/ Continue(r) \/ Drop(r), NEW s \in Req PROVE WindowKept(s)'
    <2>1. CASE s = r BY <1>3, <2>1, HandlerWindow
    <2>2. CASE s # r BY <1>2, <1>3, <2>2, OthersStill
    <2> QED BY <2>1, <2>2
<1>4. ASSUME Reap \/ Tick \/ UNCHANGED vars, NEW s \in Req PROVE WindowKept(s)'
    BY <1>2, <1>4 DEF Reap, Tick, vars
<1> QED BY <1>1, <1>3, <1>4 DEF Next, WindowInv, Bounded

\* LifetimeBounded: whatever the hooks answer, no certificate outlives the template's
\* ceiling (the re-clamp of try_sign), nor does one reissued from it, as long as no hook
\* moves the start of a reissue back (try_renew_or_rekey keeps the end of the baseline).
THEOREM LifetimesBounded ==
    ASSUME \A c \in Genesis : Bounded(c), NoReissue \/ NoRatchet
    PROVE  Spec => []LifetimeBounded
<1>1. Init => WindowInv BY DEF Init, WindowInv, WindowKept, Claiming
<1>2. TypeInv /\ AuditInv /\ WindowInv /\ [Next]_vars => WindowInv' BY NextWindow
<1>3. WindowInv => LifetimeBounded BY DEF WindowInv, Bounded, LifetimeBounded
<1>4. Spec => []TypeInv BY InitType, NextType, PTL DEF Spec
<1> QED BY <1>1, <1>2, <1>3, <1>4, AuditInvariant, PTL DEF Spec

----------------------------------------------------------------------------
(* Scopes *)

\* A scope due in a list is due in the rest of it, or first.
LEMMA DueInTail ==
    ASSUME NEW once \in Seq(OnceClaim), once # <<>>, NEW x, Due(once, x)
    PROVE  Due(Tail(once), x) \/ (Head(once).scope = x /\ Head(once).expires = Absent)
<1>1. PICK i \in DOMAIN once : once[i].scope = x /\ once[i].expires = Absent BY DEF Due
<1>2. CASE i = 1 BY <1>1, <1>2
<1>3. CASE i # 1
    <2>1. i \in 2..Len(once) BY <1>1, <1>3, LenProperties
    <2>2. Tail(once) \in Seq(OnceClaim) /\ Len(Tail(once)) = Len(once) - 1 BY HeadTailProperties
    <2>3. i - 1 \in DOMAIN Tail(once) BY <2>1, <2>2, LenProperties
    <2>4. Tail(once)[i - 1] = once[i] BY <2>1, HeadTailProperties
    <2> QED BY <1>1, <2>3, <2>4 DEF Due
<1> QED BY <1>2, <1>3

\* A claim that is held stays held.
LEMMA HeldMore ==
    ASSUME NEW S, NEW T, S \subseteq T, NEW x, NEW r, NEW t, HeldUntil(S, x, r, t)
    PROVE  HeldUntil(T, x, r, t)
BY DEF HeldUntil

\* A handler's own step keeps its scopes.
LEMMA HandlerScopes ==
    ASSUME TypeInv, ScopeInv, claims \subseteq claims',
           NEW r \in Req, Start(r) \/ Continue(r) \/ Drop(r)
    PROVE  ScopesKept(r)'
<1>0. ScopesKept(r) BY DEF ScopeInv
<1>1. ASSUME pc'[r] \in Ended \cup {"revoke"} PROVE ScopesKept(r)'
    BY <1>1 DEF ScopesKept, Claiming, Ended
<1>2. ASSUME NEW t \in Token, NEW key \in Key, NEW from \in Starts, NEW d \in Requested,
             ValidateToken(r, t, key, from, d)
      PROVE  ScopesKept(r)'
    BY <1>2, TokenDraft DEF ScopesKept, Claiming
<1>3. ASSUME NEW op \in {"renew", "rekey"}, NEW c \in held, ReadRevocation(r, op, c)
      PROVE  ScopesKept(r)'
    BY <1>3, PresentedParent DEF ScopesKept, Claiming
<1>4. ASSUME NEW x \in Credential, NEW s \in Serial, AuthorizeRevoke(r, x, s) PROVE ScopesKept(r)'
    BY <1>4, RevokePlan DEF ScopesKept, Claiming
<1>5. ASSUME NEW p \in Proof, NEW key \in Key, VerifyProof(r, p, key) PROVE ScopesKept(r)'
    BY <1>5, BaselineDraft DEF ScopesKept, Claiming
<1>6. ASSUME NEW h \in HookReplies, HooksAllow(r, h) PROVE ScopesKept(r)'
    <2>1. CASE pc'[r] = "emit" BY <1>1, <2>1 DEF Ended
    <2>2. CASE pc'[r] # "emit"
        <3>1. pc'[r] = "jti" /\ plan'[r].cert.scopes = OwnExpiry(plan'[r].once)
            BY <1>6, <2>2, HookedDraft
        <3>2. \A x \in plan'[r].cert.scopes : Due(plan'[r].once, x) BY <3>1 DEF OwnExpiry, Due
        <3> QED BY <3>1, <3>2 DEF ScopesKept, Claiming
    <2> QED BY <2>1, <2>2
<1>7. ASSUME claim_jti(r) \/ claim_once_scopes(r) PROVE ScopesKept(r)'
    <2>1. CASE pc'[r] \in {"emit", "revoke"} BY <1>1, <2>1 DEF Ended
    <2>2. CASE pc'[r] \notin {"emit", "revoke"}
        <3>1. /\ pc[r] \in {"jti_wait", "scope_wait"} /\ pc'[r] \in {"scope", "issue"}
              /\ plan'[r].op = plan[r].op /\ plan'[r].cert = plan[r].cert
              /\ pc'[r] = "issue" => plan'[r].once = <<>>
              /\ \/ plan'[r].once = plan[r].once
                 \/ /\ plan[r].once # <<>> /\ plan'[r].once = Tail(plan[r].once)
                    /\ Head(plan[r].once).expires = Absent =>
                          HeldUntil(claims', Head(plan[r].once).scope, r, plan[r].cert.na)
            BY <1>7, <2>2, ClaimedDraft DEF HeldUntil
        <3>2. ASSUME plan'[r].op # "revoke", NEW x \in plan'[r].cert.scopes
              PROVE  Due(plan'[r].once, x) \/ HeldUntil(claims', x, r, plan'[r].cert.na)
            <4>1. Due(plan[r].once, x) \/ HeldUntil(claims, x, r, plan[r].cert.na)
                BY <1>0, <3>1, <3>2 DEF ScopesKept, Claiming
            <4>2. plan[r].once \in Seq(OnceClaim) BY DEF TypeInv, TypeOK, Planned
            <4>3. CASE HeldUntil(claims, x, r, plan[r].cert.na) BY <3>1, <4>3, HeldMore
            <4>4. CASE Due(plan[r].once, x) /\ plan'[r].once = plan[r].once BY <4>4
            <4>5. CASE Due(plan[r].once, x) /\ plan'[r].once # plan[r].once
                BY <3>1, <4>2, <4>5, DueInTail
            <4> QED BY <4>1, <4>3, <4>4, <4>5
        <3> QED BY <3>1, <3>2 DEF ScopesKept, Claiming
    <2> QED BY <2>1, <2>2
<1>8. ASSUME Issue(r) PROVE ScopesKept(r)'
    <2>1. CASE pc'[r] = "emit" BY <1>1, <2>1 DEF Ended
    <2>2. CASE pc'[r] # "emit"
        <3>1. /\ pc[r] = "issue" /\ pc'[r] = "record" /\ plan'[r].op = plan[r].op
              /\ plan'[r].once = plan[r].once
              /\ plan'[r].cert.na = plan[r].cert.na /\ plan'[r].cert.scopes = plan[r].cert.scopes
            BY <1>8, <2>2, SignedCert
        <3>2. \A x : HeldUntil(claims, x, r, plan[r].cert.na) => HeldUntil(claims', x, r, plan[r].cert.na)
            BY HeldMore
        <3> QED BY <1>0, <3>1, <3>2 DEF ScopesKept, Claiming
    <2> QED BY <2>1, <2>2
<1>9. ASSUME \/ Reject(r) \/ RejectReissue(r) \/ HooksRefuse(r) \/ ReadClock(r)
             \/ record_certificate(r) \/ revoke(r) \/ Emit(r) \/ Respond(r) \/ Drop(r)
      PROVE  ScopesKept(r)'
    <2>1. CASE pc'[r] \in Ended BY <1>1, <2>1
    <2>2. CASE plan'[r] = plan[r] /\ pc[r] \in {"jti", "scope"} /\ pc'[r] \in {"jti_wait", "scope_wait"}
        <3>1. \A x : HeldUntil(claims, x, r, plan[r].cert.na) => HeldUntil(claims', x, r, plan[r].cert.na)
            BY HeldMore
        <3> QED BY <1>0, <2>2, <3>1 DEF ScopesKept, Claiming
    <2> QED BY <1>9, <2>1, <2>2, PlainStep
<1> QED BY <1>2, <1>3, <1>4, <1>5, <1>6, <1>7, <1>8, <1>9 DEF Start, Continue

\* Every step keeps the scopes.
LEMMA NextScopes == TypeInv /\ PaidInv /\ ScopeInv /\ [Next]_vars => ScopeInv'
<1> SUFFICES ASSUME TypeInv, PaidInv, ScopeInv, [Next]_vars PROVE ScopeInv'
    OBVIOUS
<1>0. claims \subseteq claims' BY ClaimsGrow
<1>1. ASSUME NEW c \in inventory', NEW x \in c.scopes PROVE HeldUntil(claims', x, c.by, c.na)
    <2>1. CASE c \in inventory BY <1>0, <1>1, <2>1, HeldMore DEF ScopeInv
    <2>2. CASE c \notin inventory
        <3>1. PICK r \in Req : pc[r] = "record" /\ c = plan[r].cert BY <1>1, <2>2, InventoryStep
        <3>2. plan[r].op # "revoke" /\ ScopesKept(r) BY <3>1 DEF TypeInv, StageOK, ScopeInv
        <3>3. c.by = r /\ ~Due(plan[r].once, x)
            BY <3>1, <3>2 DEF ScopesKept, Due, PaidInv, Drafting, OwnDraft
        <3>4. HeldUntil(claims, x, c.by, c.na)
            BY <1>1, <3>1, <3>2, <3>3 DEF ScopesKept, Claiming
        <3> QED BY <1>0, <3>4, HeldMore
    <2> QED BY <2>1, <2>2
<1>2. ASSUME NEW s \in Req, pc'[s] = pc[s], plan'[s] = plan[s] PROVE ScopesKept(s)'
    <2>1. \A x : HeldUntil(claims, x, s, plan[s].cert.na) => HeldUntil(claims', x, s, plan[s].cert.na)
        BY <1>0, HeldMore
    <2> QED BY <1>2, <2>1 DEF ScopeInv, ScopesKept
<1>3. ASSUME NEW r \in Req, Start(r) \/ Continue(r) \/ Drop(r), NEW s \in Req PROVE ScopesKept(s)'
    <2>1. CASE s = r BY <1>0, <1>3, <2>1, HandlerScopes
    <2>2. CASE s # r BY <1>2, <1>3, <2>2, OthersStill
    <2> QED BY <2>1, <2>2
<1>4. ASSUME Reap \/ Tick \/ UNCHANGED vars, NEW s \in Req PROVE ScopesKept(s)'
    BY <1>2, <1>4 DEF Reap, Tick, vars
<1> QED BY <1>1, <1>3, <1>4 DEF Next, ScopeInv

\* Two claims of one scope by two requests: one of them is over.
LEMMA OneHolder ==
    ASSUME TypeInv, ClaimInv, NEW x, NEW r, NEW s, r # s, NEW t \in Int, NEW u \in Int,
           HeldUntil(claims, x, r, t), HeldUntil(claims, x, s, u)
    PROVE  now >= t \/ now >= u
<1>1. PICK c \in claims : c.key = <<"scope", x>> /\ c.by = r /\ c.exp >= t BY DEF HeldUntil
<1>2. PICK d \in claims : d.key = <<"scope", x>> /\ d.by = s /\ d.exp >= u BY DEF HeldUntil
<1>3. c.exp <= d.at \/ d.exp <= c.at BY <1>1, <1>2 DEF ClaimInv, ClaimExclusion
<1>4. c.at <= now /\ d.at <= now BY DEF ClaimInv, ClocksBehind
<1>5. c.at \in Nat /\ d.at \in Nat /\ c.exp \in Nat /\ d.exp \in Nat /\ now \in Nat
    BY DEF TypeInv, TypeOK, Claim
<1> QED BY <1>1, <1>2, <1>3, <1>4, <1>5

\* ScopeOneValid, on both backends and with any renewals and rekeys: two certificates
\* whose requests claimed one scope until their own expiry are never valid together,
\* however late each handler reads the clock and whenever the reaper runs
\* (claim_once_scopes).
THEOREM ScopesOneValid == Spec => []ScopeOneValid
<1>1. Init => ScopeInv BY DEF Init, ScopeInv, ScopesKept, Claiming
<1>2. TypeInv /\ PaidInv /\ ScopeInv /\ [Next]_vars => ScopeInv' BY NextScopes
<1>3. ASSUME TypeInv, ClaimInv, ScopeInv PROVE ScopeOneValid
    <2> SUFFICES ASSUME NEW c \in inventory, NEW d \in inventory, c.by # d.by,
                        NEW x \in c.scopes \cap d.scopes
                 PROVE  now >= c.na \/ now >= d.na
        BY DEF ScopeOneValid
    <2>1. c.na \in Int /\ d.na \in Int BY <1>3 DEF TypeInv, TypeOK, Certificate
    <2>2. HeldUntil(claims, x, c.by, c.na) /\ HeldUntil(claims, x, d.by, d.na)
        BY <1>3 DEF ScopeInv
    <2> QED BY <1>3, <2>1, <2>2, OneHolder
<1>4. TypeInv /\ ClaimInv /\ PaidInv /\ [Next]_vars => (TypeInv /\ ClaimInv /\ PaidInv)'
    BY NextType, NextClaim, NextPaid
<1>5. Init => TypeInv /\ ClaimInv /\ PaidInv BY InitType, InitClaim, InitPaid
<1> QED BY <1>1, <1>2, <1>3, <1>4, <1>5, PTL DEF Spec

----------------------------------------------------------------------------
(* Revocations and renewals under way *)

\* What happened at t is no later than `lag` after the revocation of the serial.
InTime(t, s, lag) == revocations[s] # Absent => t <= revocations[s].at + lag

\* A handler that is about to reissue a certificate has read its revocation in time.
Gated(r) ==
    Pending(r) /\ plan[r].parent # Absent => InTime(validAt[r], plan[r].parent.serial, ReadLag)

\* RevocationBites is not inductive: it rests on the read of each handler under way.
BiteInv == (\A r \in Req : Gated(r)) /\ RevocationBites

\* A record that is written later than t changes nothing about t.
LEMMA LaterRecords ==
    ASSUME TypeInv, [Next]_vars, NEW s \in Serial, NEW t \in Nat, t <= now, NEW lag \in Nat,
           InTime(t, s, lag)
    PROVE  InTime(t, s, lag)'
<1>0. revocations \in [Serial -> Revocation \cup {Absent}] /\ now \in Nat BY DEF TypeInv, TypeOK
<1>1. CASE UNCHANGED revocations BY <1>1 DEF InTime
<1>2. ASSUME NEW r \in Req, revoke(r) PROVE InTime(t, s, lag)'
    <2>1. revocations'[s] = revocations[s] \/ revocations'[s] = [at |-> now, by |-> r]
        BY <1>0, <1>2 DEF revoke, RevokeRow
    <2>2. CASE revocations'[s] = revocations[s] BY <2>2 DEF InTime
    <2>3. CASE revocations'[s] = [at |-> now, by |-> r]
        <3>1. revocations'[s].at = now BY <2>3
        <3> QED BY <1>0, <3>1 DEF InTime
    <2> QED BY <2>1, <2>2, <2>3
<1> QED BY <1>1, <1>2, RevocationStep

\* A read that misses a record misses a recent one.
LEMMA MissedIsRecent ==
    ASSUME TypeInv, NEW s \in Serial, Absent \in RevocationReads(s)
    PROVE  InTime(now, s, ReadLag)
<1>1. revocations[s] \in Revocation \cup {Absent} /\ now \in Nat BY DEF TypeInv, TypeOK
<1>2. ASSUME revocations[s] # Absent PROVE now <= revocations[s].at + ReadLag
    <2>1. Backend = "dynamodb" /\ now - revocations[s].at <= Staleness
        BY <1>2 DEF RevocationReads
    <2>2. revocations[s].at \in Nat BY <1>1, <1>2 DEF Revocation
    <2> QED BY <1>1, <2>1, <2>2 DEF ReadLag
<1> QED BY <1>2 DEF InTime

\* What a step of a handler does to the certificate it is about and to its first check.
GateStep(r) ==
    \/ plan'[r].parent = Absent
    \/ ~Pending(r)' /\ (pc[r] = "new" \/ plan'[r].parent = plan[r].parent)
    \/ Pending(r) /\ plan'[r].parent = plan[r].parent /\ validAt'[r] = validAt[r]
    \/ /\ pc[r] = "new" /\ validAt'[r] = now /\ plan'[r].parent.serial \in Serial
       /\ UNCHANGED revocations /\ InTime(now, plan'[r].parent.serial, ReadLag)

\* The requests begin without a certificate presented, or with the read of its revocation.
LEMMA StartGate == ASSUME TypeInv, NEW r \in Req, Start(r) PROVE GateStep(r)
<1>0. /\ pc \in [Req -> Pcs] /\ plan \in [Req -> Planned] /\ validAt \in [Req -> Nat]
      /\ held \subseteq Certificate
    BY DEF TypeInv, TypeOK
<1>1. ASSUME NEW t \in Token, NEW key \in Key, NEW from \in Starts, NEW d \in Requested,
             ValidateToken(r, t, key, from, d)
      PROVE  plan'[r].parent = Absent
    <2>1. PICK x : plan' = [plan EXCEPT ![r] = [op |-> "sign", target |-> Absent, parent |-> Absent,
                                                once |-> TokenInfo[t].once, cert |-> x]]
        BY <1>1 DEF ValidateToken
    <2> QED BY <1>0, <2>1
<1>2. ASSUME NEW op \in {"renew", "rekey"}, NEW c \in held, ReadRevocation(r, op, c)
      PROVE  GateStep(r)
    <2>1. pc[r] = "new" /\ plan'[r].parent = c /\ c.serial \in Serial /\ UNCHANGED revocations
        <3>1. pc[r] = "new" /\ UNCHANGED revocations BY <1>2 DEF ReadRevocation, storeVars
        <3>2. plan'[r].parent = c BY <1>2, PresentedParent
        <3>3. c.serial \in Serial BY <1>0 DEF Certificate
        <3> QED BY <3>1, <3>2, <3>3
    <2>2. CASE Finish(r, "rejected")
        <3>1. ~Pending(r)' BY <1>0, <2>2 DEF Finish, Pending
        <3> QED BY <2>1, <3>1 DEF GateStep
    <2>3. CASE Absent \in RevocationReads(c.serial) /\ validAt' = [validAt EXCEPT ![r] = now]
        <3>1. InTime(now, c.serial, ReadLag) BY <2>1, <2>3, MissedIsRecent
        <3>2. validAt'[r] = now BY <1>0, <2>3
        <3> QED BY <2>1, <3>1, <3>2 DEF GateStep
    <2> QED BY <1>2, <2>2, <2>3 DEF ReadRevocation
<1>3. ASSUME NEW x \in Credential, NEW s \in Serial, AuthorizeRevoke(r, x, s)
      PROVE  plan'[r].parent = Absent
    BY <1>0, <1>3 DEF AuthorizeRevoke, NoPlan
<1>4. CASE Reject(r)
    BY <1>0, <1>4 DEF Reject, Finish, GateStep, Pending
<1> QED BY <1>1, <1>2, <1>3, <1>4 DEF Start, GateStep

\* Afterwards a handler keeps to its certificate and to its first check.
LEMMA ContinueGate == ASSUME TypeInv, NEW r \in Req, Continue(r) \/ Drop(r) PROVE GateStep(r)
<1>0. pc \in [Req -> Pcs] /\ plan \in [Req -> Planned] /\ plan[r] \in Planned BY DEF TypeInv, TypeOK
<1>1. CASE \E p \in Proof, key \in Key : VerifyProof(r, p, key)
    <2>1. PICK d : plan' = [plan EXCEPT ![r] = [plan[r] EXCEPT !.cert = d]] BY <1>1 DEF VerifyProof
    <2>2. plan'[r].parent = plan[r].parent BY <1>0, <2>1 DEF Planned
    <2>3. Pending(r) /\ UNCHANGED validAt BY <1>1 DEF VerifyProof, Pending
    <2> QED BY <2>2, <2>3 DEF GateStep
<1>2. CASE \E h \in HookReplies : HooksAllow(r, h)
    <2>1. \/ UNCHANGED plan
          \/ \E d, o : plan' = [plan EXCEPT ![r] = [plan[r] EXCEPT !.cert = d, !.once = o]]
        BY <1>2 DEF HooksAllow
    <2>2. ASSUME NEW d, NEW o, plan' = [plan EXCEPT ![r] = [plan[r] EXCEPT !.cert = d, !.once = o]]
          PROVE  plan'[r].parent = plan[r].parent
        <3> DEFINE q == [plan[r] EXCEPT !.cert = d, !.once = o]
        <3>1. q.parent = plan[r].parent BY <1>0 DEF Planned
        <3> HIDE DEF q
        <3> QED BY <1>0, <2>2, <3>1 DEF q
    <2>3. Pending(r) /\ UNCHANGED validAt BY <1>2 DEF HooksAllow, Pending
    <2> QED BY <2>1, <2>2, <2>3 DEF GateStep
<1>3. CASE ReadClock(r)
    <2>1. UNCHANGED <<plan, validAt>> /\ (Pending(r) \/ ~Pending(r)')
        BY <1>0, <1>3 DEF ReadClock, Go, Pending
    <2> QED BY <2>1 DEF GateStep
<1>4. CASE RejectReissue(r) \/ HooksRefuse(r) \/ record_certificate(r) \/ revoke(r) \/ Emit(r)
    <2>1. UNCHANGED plan /\ pc'[r] \in {"emit", "respond"}
        BY <1>0, <1>4 DEF RejectReissue, HooksRefuse, record_certificate, revoke, Emit, Go, Finish
    <2> QED BY <2>1 DEF GateStep, Pending
<1>5. CASE claim_jti(r) \/ claim_once_scopes(r)
    <2>1. plan'[r].parent = plan[r].parent
        BY <1>0, <1>5 DEF claim_jti, claim_once_scopes, Planned
    <2>2. pc'[r] \in {"emit", "revoke", "issue", "scope"}
        BY <1>0, <1>5 DEF claim_jti, claim_once_scopes, ClaimFails, Go, Finish, AfterClaims
    <2> QED BY <2>1, <2>2 DEF GateStep, Pending
<1>6. CASE Issue(r)
    <2>1. plan'[r].parent = plan[r].parent BY <1>0, <1>6 DEF Issue, Planned
    <2>2. pc'[r] \in {"emit", "record"} BY <1>0, <1>6 DEF Issue, Go, Finish
    <2> QED BY <2>1, <2>2 DEF GateStep, Pending
<1>7. CASE Respond(r) \/ Drop(r)
    <2>1. plan'[r] = NoPlan BY <1>0, <1>7 DEF Respond, Drop, Release
    <2> QED BY <2>1 DEF GateStep, NoPlan
<1> QED BY <1>1, <1>2, <1>3, <1>4, <1>5, <1>6, <1>7 DEF Continue

\* Every step keeps BiteInv.
LEMMA NextBite == UseInv /\ AuditInv /\ BiteInv /\ [Next]_vars => BiteInv'
<1> SUFFICES ASSUME UseInv, AuditInv, BiteInv, [Next]_vars PROVE BiteInv'
    OBVIOUS
<1>0. /\ TypeInv /\ now \in Nat /\ validAt \in [Req -> Nat] /\ plan \in [Req -> Planned]
      /\ ReadLag \in Nat /\ ReadLag + MaxDelay \in Nat /\ claims \subseteq Claim
    BY DEF UseInv, TypeInv, TypeOK, ReadLag
<1>1. ASSUME NEW r \in Req, plan[r].parent # Absent PROVE plan[r].parent.serial \in Serial
    BY <1>0, <1>1 DEF Planned, Certificate
<1>2. ASSUME NEW r \in Req, Pending(r), plan'[r].parent = plan[r].parent, validAt'[r] = validAt[r]
      PROVE  Gated(r)'
    <2>1. SUFFICES ASSUME plan[r].parent # Absent
                   PROVE  InTime(validAt[r], plan[r].parent.serial, ReadLag)'
        BY <1>2 DEF Gated
    <2>2. validAt[r] <= now /\ InTime(validAt[r], plan[r].parent.serial, ReadLag)
        BY <1>2, <2>1 DEF UseInv, Fresh, BiteInv, Gated
    <2> DEFINE t == validAt[r]
               s == plan[r].parent.serial
    <2>3. t \in Nat /\ s \in Serial /\ t <= now /\ InTime(t, s, ReadLag) BY <1>0, <1>1, <2>1, <2>2
    <2>4. t' = t /\ s' = s BY <1>2
    <2> HIDE DEF t, s
    <2>5. revocations'[s] # Absent => t <= revocations'[s].at + ReadLag
        BY <1>0, <2>3, LaterRecords DEF InTime
    <2> QED BY <2>4, <2>5 DEF InTime, ReadLag, t, s
<1>3. ASSUME NEW r \in Req, GateStep(r) PROVE Gated(r)'
    <2>1. CASE plan'[r].parent = Absent \/ ~Pending(r)' BY <2>1 DEF Gated
    <2>2. CASE /\ validAt'[r] = now /\ UNCHANGED revocations
               /\ InTime(now, plan'[r].parent.serial, ReadLag)
        BY <2>2 DEF Gated, InTime, ReadLag
    <2> QED BY <1>2, <1>3, <2>1, <2>2 DEF GateStep
<1>4. ASSUME NEW r \in Req, Start(r) \/ Continue(r) \/ Drop(r), NEW s \in Req
      PROVE  Gated(s)' /\ (plan'[s].parent \in {plan[s].parent, Absent} \/ pc[s] = "new")
    <2>1. CASE s = r
        <3>1. GateStep(r) BY <1>0, <1>4, StartGate, ContinueGate
        <3>2. Gated(r)' BY <1>3, <3>1
        <3> QED BY <2>1, <3>1, <3>2 DEF GateStep
    <2>2. CASE s # r
        <3>1. pc'[s] = pc[s] /\ plan'[s] = plan[s] /\ validAt'[s] = validAt[s]
            BY <1>0, <1>4, <2>2, OthersStill
        <3>2. CASE Pending(s) BY <1>2, <3>1, <3>2
        <3>3. CASE ~Pending(s) BY <3>1, <3>3 DEF Gated, Pending
        <3> QED BY <3>1, <3>2, <3>3
    <2> QED BY <2>1, <2>2
<1>5. ASSUME Reap \/ Tick \/ UNCHANGED vars, NEW s \in Req
      PROVE  Gated(s)' /\ plan'[s].parent = plan[s].parent
    <2>1. UNCHANGED <<pc, plan, validAt, revocations>> BY <1>5 DEF Reap, Tick, vars, storeVars
    <2> QED BY <2>1 DEF BiteInv, Gated, Pending, InTime, ReadLag
<1>6. \A s \in Req : /\ Gated(s)'
                      /\ (plan'[s].parent \in {plan[s].parent, Absent} \/ pc[s] = "new")
    BY <1>4, <1>5 DEF Next
<1>7. ASSUME NEW c \in claims, c.key[1] # "scope", plan'[c.by].parent # Absent,
             revocations'[plan'[c.by].parent.serial] # Absent
      PROVE  c.at <= revocations'[plan'[c.by].parent.serial].at + ReadLag + MaxDelay
    <2> DEFINE s == plan[c.by].parent.serial
               t == c.at
    <2>1. c.by \in Req /\ t \in Nat /\ t <= now BY <1>0 DEF Claim, UseInv, ClaimInv, ClocksBehind
    <2>2. pc[c.by] # "new" BY DEF AuditInv, Past, Paying, Ended
    <2>3. plan'[c.by].parent = plan[c.by].parent BY <1>6, <1>7, <2>1, <2>2
    <2>4. s \in Serial BY <1>1, <1>7, <2>1, <2>3
    <2>5. InTime(t, s, ReadLag + MaxDelay)
        <3>1. revocations[s] # Absent => t <= revocations[s].at + ReadLag + MaxDelay
            BY <1>7, <2>3 DEF BiteInv, RevocationBites
        <3>2. revocations[s] # Absent => revocations[s].at \in Nat
            BY <2>4 DEF UseInv, TypeInv, TypeOK, Revocation
        <3> HIDE DEF s, t
        <3> QED BY <1>0, <2>1, <3>1, <3>2 DEF InTime
    <2>6. revocations'[s] # Absent /\ plan'[c.by].parent.serial = s BY <1>7, <2>3
    <2>7. revocations'[s].at \in Nat
        <3>1. TypeInv' BY <1>0, NextType
        <3> HIDE DEF s
        <3> QED BY <2>4, <2>6, <3>1 DEF TypeInv, TypeOK, Revocation
    <2> HIDE DEF s, t
    <2>8. t <= revocations'[s].at + (ReadLag + MaxDelay)
        BY <1>0, <2>1, <2>4, <2>5, <2>6, LaterRecords DEF InTime
    <2>9. t <= revocations'[s].at + ReadLag + MaxDelay BY <1>0, <2>1, <2>7, <2>8
    <2> QED BY <2>6, <2>9 DEF t
<1>8. ASSUME NEW r \in Req, claim_jti(r), NEW c, c.at = now, c.by = r,
             plan'[r].parent # Absent, revocations'[plan'[r].parent.serial] # Absent
      PROVE  now <= revocations'[plan'[r].parent.serial].at + ReadLag + MaxDelay
    <2>1. UNCHANGED <<plan, revocations>> /\ Pending(r) BY <1>8 DEF claim_jti, Pending
    <2> DEFINE s == plan[r].parent.serial
    <2>2. s \in Serial BY <1>1, <1>8, <2>1
    <2>3. InTime(validAt[r], s, ReadLag) BY <1>8, <2>1 DEF BiteInv, Gated
    <2>4. now <= validAt[r] + MaxDelay BY <2>1 DEF UseInv, Fresh
    <2>5. revocations[s] # Absent /\ revocations[s].at \in Nat
        BY <1>8, <2>1, <2>2 DEF UseInv, TypeInv, TypeOK, Revocation
    <2>6. validAt[r] \in Nat BY <1>0
    <2>7. now <= revocations[s].at + ReadLag + MaxDelay
        <3> HIDE DEF s
        <3> QED BY <1>0, <2>3, <2>4, <2>5, <2>6 DEF InTime
    <2> QED BY <2>1, <2>7
<1>9. RevocationBites'
    <2> SUFFICES ASSUME NEW c \in claims', c.key[1] # "scope", plan'[c.by].parent # Absent,
                        revocations'[plan'[c.by].parent.serial] # Absent
                 PROVE  c.at <= revocations'[plan'[c.by].parent.serial].at + ReadLag + MaxDelay
        BY DEF RevocationBites, ReadLag
    <2>1. CASE c \in claims BY <1>7, <2>1
    <2>2. CASE c \notin claims
        <3>1. PICK r \in Req : claim_jti(r) /\ TakeClaim(r, ReplayKey(cred[r]), ReplayExpiry(cred[r]))
            BY <1>0, <2>2, OnlyClaimJti
        <3>2. c.at = now /\ c.by = r BY <2>2, <3>1 DEF TakeClaim
        <3> QED BY <1>8, <3>1, <3>2
    <2> QED BY <2>1, <2>2
<1> QED BY <1>6, <1>9 DEF BiteInv

\* RevocationBites, on both backends, for any number of requests and any delay: a renewal
\* or rekey takes effect no later after the revocation of its certificate than a read of
\* the record may lag and a handler may take from that read to its claim (the
\* get_revocation gate of try_renew_or_rekey).
THEOREM RevocationsBite == Spec => []RevocationBites
<1>1. Init => BiteInv BY DEF Init, BiteInv, Gated, Pending, RevocationBites
<1>2. BiteInv => RevocationBites BY DEF BiteInv
<1> QED BY <1>1, <1>2, NextBite, UseInvariant, AuditInvariant, PTL DEF Spec
=============================================================================
