# A TLA+ verification of ayane

ayane is a small certificate authority: a server that signs, renews, rekeys and
revokes X.509 certificates for holders of one-time tokens or of certificates it
issued before, and a command-line client. This directory holds TLA+ models of
the parts of it where concurrency, time, failure and policy meet, the TLC runs that
check them, and TLAPS proofs of their safety properties. Every definition names, in
`PROJECT.json` under `map`, the lines of the source it models.

## 1. The system

| Component | State it keeps | Operations | Model |
|---|---|---|---|
| Certificate service (`ayane/src/service.rs`) | none of its own; locals of each request between awaits | sign, renew, rekey, revoke, signed roots | `Issuance` (concurrency), `Lineage` (content), `RootsSignature` |
| Storage (`storage/{mod,sqlite,dynamodb}.rs`) | one-time claims, revocations, inventory, cache | claim, reap, revoke, read revocation, record, cache get/set | `Storage`, `RootsSignature` |
| Authorizer and DPoP (`authorizer/`, `dpop.rs`) | the provisioners, by issuer | route a token, verify it, accept a token or a proof at a time | `Lineage`, guards in `Issuance` |
| JWKS cache (`authorizer/jwks.rs`) | memo, single-flight lock | resolve, refresh, fetch | `JwksCache` |
| Hook pipeline (`hook/`) | the customization gathered so far | ask, layer, deny, grant, time out | `HookPipeline`, inside `Lineage`; one step of `Issuance` |
| CA and templates (`ca.rs`, `template.rs`, `x509.rs`, `csr.rs`, `san.rs`) | - | window, serial, subject, SANs, extensions | operators of `Issuance` and `Lineage` |
| Configuration (`config.rs`, `builder.rs`) | the configuration a server runs with | start, refuse to start | `Lineage` |
| Serving certificate (`tls.rs`, `server.rs`) | certificate in the resolver, renewal task | first issue, renew, swap | `ServingTls` |
| Roots client (`ayane-cli` `httpsig.rs`, `cmd/roots.rs`) | - | two requests, verify, anchor the signer | `RootsSignature`, `AnchorSearch` |
| Renew loop (`ayane-cli` `cmd/renew.rs`, `cmd/mod.rs`) | files, backoff, signals | load, wait, renew, write, exec | `RenewLoop` |
| `rekey` and `certificate` (`ayane-cli` `cmd/`) | the key and the certificate file | ask, write key, write certificate | `RenewLoop` |
| Other CLI commands, event sinks, key providers, wire types | files and sockets | I/O and encoding | not modelled, or only as an outcome |

How they interact. An HTTP request becomes a handler future of the service. The
handler awaits hooks, the store, the CA key and the event sinks, and other
handlers run at each of these awaits; several server processes may share one
DynamoDB table. If the connection closes the future is dropped at the await where
it is. The only coordination between requests is the conditional insert of
`claim_token`. The client's loop talks to the server by `POST /v1/renew` and to
other programs through the certificate file and signals.

What is hard here: a credential is checked at one time and claimed at another, with
hooks of unbounded length between; claims expire, and both the reaper and the next
claimer may remove an expired one; the clock is read before the wait for the store;
DynamoDB responses may be lost after the write and its reads may be stale; a
certificate may be signed and not recorded, or recorded and not handed out; caches
(keys, signatures) outlive what they were made from; a certificate outlives the
configuration it was issued under, and its renewals copy what hooks once put in; a
daemon must neither let a certificate lapse nor stop by itself, and shares its files
with commands that write them in place. The full list, by line, is `hazards` in
`PROJECT.json`.

## 2. The modules

**`Storage`** is the trait `Storage` over its two backends: `tokens` (claim key ->
expiry of the row), `revocations`, `inventory`. `Claimable`/`ClaimRow` are the
conditional insert, `reap_expired` the SQLite reaper, `TtlSweep` DynamoDB's lazy
deletion (external), `RevocationReads` what a read may return, `RowTaken` the
conflict of an inventory insert. `Backend`, `TTL_BUFFER` and `Staleness` are
constants.

**`Issuance`** extends it with the request handlers. `pc[r]` is the await at which
request `r` is; `cred`, `validAt`, `clk`, `plan`, `result` are its locals; `event`
the outcome it audited; `held` the certificates that reached clients. Histories, which
no step reads: `claims`, the claims that took effect; a certificate's `by` and `scopes`,
its request and the scopes that one claimed until its expiry.

    sign          ValidateToken -> HooksAllow -> ReadClock -> claim_jti
                    -> (ReadClock -> claim_once_scopes)* -> Issue
                    -> record_certificate -> Emit -> Respond
    renew, rekey  ReadRevocation -> VerifyProof -> HooksAllow -> as sign
    revoke        AuthorizeRevoke -> ReadClock -> claim_jti -> revoke -> Emit -> Respond

Every error return is a branch to `Emit` with its `result`; `Drop` ends a handler
at any await. A claim has two steps, reading the clock and the conditional write,
because the code reads the clock before it queues for the connection. Over DynamoDB
a write may take effect and still be reported as an error, or, when the SDK
retries, as a conflict with itself. `Issue` may fail because the CA key does (an
error) or because a name cannot be encoded (`unencodable`, a denial that comes after the
claims: `san.rs:50`). What names, SANs, key usages and extensions say is left
to `Lineage`; the hook pipeline is one merged reply, a denial or an error. `validAt` is
the time of a handler's first check, for a reissue the read of the revocation, and
`MaxDelay` bounds the time from there to the claim of the credential, hooks included.

**`OneTimeService`** is the service as its clients may think of it, without
handlers, rows, reaper or backends: `grants` of one-time keys and `effects` on the
world. `Grant` gives a key that nobody holds, `Act` lets a request that was granted a
credential have one effect, `Pass` moves the clock; nothing granted or done is
undone. `Issuance` maps its claims to grants, and its inventory rows (those of
`Genesis` apart) and revocation records to effects, and implements it
(`ImplementsPromise`).

**`HookPipeline`** is what happens in that step, `hook::run`: the configured list is
gone through in order, hooks of other provisioners are skipped, the others get the
same request and reply, deny, fail or hang; `custom` is the customization so far,
`replies` a history of the replies. Common name, window and key usages are abstract
fields that a reply overrides; a hook's name is its place in the list (the
documentation requires names to be unique; nothing checks it).

**`Lineage`** extends it to what a certificate says, from the start of a server to the
last renewal. `build_service` starts or restarts a server with one of `Servers`, if
its provisioners, hooks, templates and key pass the checks of the code; `Sign` routes
a token by its issuer, checks key, CSR binding and SANs and opens the pipeline with
the context the code gives it; `Renew` and `Rekey` open it for a reissue; `Pipeline`
are the steps of `HookPipeline`; `Issue` builds the certificate from template or
previous certificate, replies and injected extensions, `Refuse` is every error after
the hooks. One certificate is followed, one request at a time: requests do not share
anything of this but the configuration. Extensions are a function from oid to value;
`line` is a history of what the token permitted and the hooks said.

**`RenewLoop`** is `renew --loop`, in relative time: a file holds the age of its
certificate, a sleep is the time left. `faults`, chosen at the start from
`Scenarios`, says what may go wrong in a behaviour: transient failures, refusals,
replaced or missing files, I/O errors, crashes, power loss; `elsewhere` is a loop
whose `--out` is not its `--cert`. In two scenarios another command works on the same
files: `rekey`, or `certificate` with a fresh token. Both ask first and then write
key and certificate one after the other, in place, and may fail or be killed at any
point (`post_json`, `write_files`, `Kill`), while the loop reads the certificate
(`load`) and then the key (`cycle`). `keys` says which of two key pairs the files and
the loop's copies belong to.

**`JwksCache`** is a `jwks` provisioner's key set: callers go through the fast path,
the lock, the second look, the fetch and the retry of `resolve`/`refresh`; the
issuer rotates, fetches fail, callers are dropped (and their lock guard with them).

**`RootsSignature`** is `GET /v1/roots` in a fleet: each instance reads the clock,
looks up the shared cache by the digest of its body, serves or signs and stores;
the client makes its second request to any instance and checks digest, freshness,
signer and signature of the response. Instances restart with another configuration,
and (in some behaviours) somebody repeats an old response or alters one. `external_url` is unset;
that a signer anchors in the pinned bundle is a
constant set.

**`AnchorSearch`** is that decision over an arbitrary bag of served certificates.
`Call` is one call of the recursive `reaches_anchor`, which is a recursive function of
the number of calls that may still be nested (the code counts `depth` upwards). A
signature is abstracted to the key that made it.

**`ServingTls`** is the listener's own certificate: `serve_tls`, `run_renewer`,
`renew_delay` and the retry, with a CA key that is slow or down.

The `MC*` modules hold the constants of the runs, the `*Proofs` modules the theorems:
`IssuanceProofs` and `AuditProofs` about `Issuance`, `LineageProofs` about `HookPipeline`
and `Lineage`, and one each for `RenewLoop`, `JwksCache`, `RootsSignature`,
`AnchorSearch` and `ServingTls`. Definitions named
`X_Something` directly before `X` are mutants of `X`: a plausible bug that the
property named in `PROJECT.json` detects.

## 3. The runs

| Run | What it shows | Bounds |
|---|---|---|
| `sign_sqlite` | Two sign requests with two tokens, to which hooks attach one scope: claims of a key never overlap, a refusal is justified, a denial that costs a credential is one of the late ones, no certificate leaves without its inventory row, serials are unique, one valid certificate per scope, no window beyond the template's ceiling. | 2 requests, 2 serials (so collisions happen), clock to 3, hooks up to 1 s that assert the scope and stretch the window, or collapse it |
| `dynamodb` | A token and a proof work once, a refusal rests on a claim, a revocation ends renewals within the lag of a read and the delay of a handler, its record is never replaced, events and store agree, and the service implements `OneTimeService`, although responses are lost, reads are stale and the sweep is lazy. Sign, rekey and revoke requests race; a token and a proof share a jti value, so namespaces matter. | 2 requests, a sign token with a scope and a revoke token, a rekey and a revoke proof, 1 held certificate, TTL buffer 2, delay 1, a read misses writes of the same second (`Staleness` 0), clock to 3 |
| `renew` | The file never holds an expired certificate while the CA answers; only hopeless cases end the loop; no truncated file; key and certificate belong together; SIGTERM stops it. | certificate of 6 s, window 2 s, jitter 2 s, naps of 2 s, eight scenarios |
| `jwks` | Withdrawn keys stop being accepted, published ones are picked up, refetches are spaced, every verification ends. | 2 callers, 1 key, clock to 5 |
| `roots` | No client within the skew meets an expired or future signature; a mismatch after a rotation is over within a signature's lifetime; retired roots die out, also when old responses are repeated or altered. | 2 instances, 3 configurations, clock to 5 |
| `lineage` | A request passes exactly when every applicable hook let it and someone authorized it, and is told the layers of their replies in order; the names and the policy of a certificate, after any reissues and restarts, go back to its token, its template and its hooks; a certificate marked final is the last of its line; key identifiers fit; routing is unambiguous; nobody is refused by mere configuration; only a hook without a timeout can hold a request for ever. | 7 configurations (4 of which must not start), up to 3 hooks of the three transports, 9 replies, 6 injected extensions, 5 tokens, 4 CSRs, 2 reissues |
| `anchor` | The search misses no path within the depth that the documentation admits, and makes none up unless a CA certificate has a twin that is none (`v_twin_ca`). | signer and up to 2 more certificates (`Served`) over 2 names and 2 keys, each CA or not, lapsed or in force; depth 1, so that the limit binds |
| `serving_tls` | The listener never shows an expired certificate through outages the window covers, and renewals end. | validity 16, window 8, outage up to 3 |
| `v_*` | Findings, see section 6. | |

Why the bounds are enough. Two requests suffice for every race on a key: a third
claimer meets the same row as the second. The clock reaches past the last
acceptable second of a credential, past the expiry of its claim and, over DynamoDB,
to the end of the buffer, with leeway, maximum age and buffer at small
values, so every order of these instants occurs. The certificate, window and jitter
of `renew` leave every relation of a nap to the renewal time possible; ages saturate
at expiry and sleeps are relative, so its behaviours are infinite. Requests are
symmetric in `sign_sqlite` and `dynamodb`, serials in the former; no run with a
liveness property uses symmetry. Two reissues reach every pair (what one certificate hands to the next, and
that to a third), across a restart each. Two key pairs suffice in `renew`: the other
command runs once, and a second rekey finds the same situation.
Deadlock is checked in `jwks` and `roots`; the other systems may stop
(all requests answered, the clock at its bound, the loop ended).

Fairness. `Issuance` has none and is checked for safety only: a handler may wait for a
hook for ever (timeouts are optional for HTTP and exec hooks and ignored for Lambda),
and which requests end is a question for `Lineage`. There the handler is polled and a
timer that is set fires (weak fairness of `Pipeline` and `Finish`; a hook that hangs
without a timeout disables both). `RenewLoop`: the process runs, time passes even while
the loop is busy (strong fairness of `Tick`), requests end,
and `select!`, which picks at random among ready branches, does not
avoid the stop signal for ever (strong fairness of `WakeStop`). `JwksCache`: ready
callers run, a fetch ends by its timeout, and the tokio mutex is first-come
first-served (strong fairness of `lock`). `ServingTls`: the task runs, time passes
and an outage ends.

## 4. What is proved

`IssuanceProofs`, for every backend, set of requests, tokens, proofs, hook replies,
durations and bound on time:

- `TypeCorrect` and `StagesCorrect`: `TypeOK` and `StageOK`, which are inductive only
  together (a step's operands have types because of the stage it is at).
- `ClaimsExclusive`: two claims of one key are never in force together. The
  invariant is `ClocksBehind` (a clock a handler has read is not ahead of the time),
  `RowHolds` (a claim that is not over still has a row at least as long) and
  `ClaimExclusion`. `RowHolds` is what the reaper, the sweep and a claimer with an
  old clock reading must preserve: a row deleted or overwritten has expired by a
  clock that is behind the real one, so the claim it stood for is over.
- `TokensSingleUse` and `ProofsSingleUse`: a credential takes effect for one
  request, provided the delay from the request's first check to its claim is less than
  the time by which the row outlives it: `RowBuffer` for a token, the leeway plus
  `RowBuffer` for a proof. From `CredentialClaims` (each credential's claim is under
  its key and lasts until its expiry) and `Fresh` (a pending credential was
  acceptable at most `MaxDelay` ago), a second claim would find the first in force.
  Over SQLite `RowBuffer` is 0 and the token theorem says nothing: run
  `v_token_boundary` shows that it fails there.
- `ReuseOnlyLate`: with no hypothesis at all, on both backends and whatever the delays,
  of two requests for which one credential took effect, one claimed it no earlier than
  the last second of its acceptance. The second that `v_token_boundary` shows is thus
  the only one for a server whose hooks answer at once.
- `PromiseImplemented` (`ImplementsPromise`): the service implements
  `OneTimeService`. A grant of a key that nobody holds follows from `ClaimInv`. That
  an effect is paid for, and the only one of its request, needs `PaidInv`: a handler
  past its first claim has a credential claim of its own in the history, the
  certificate it prepares carries its own name (so the row it adds is its effect and
  not a renewed one's), and a handler that has acted is over. The steps are sorted by
  what they do to the abstract state: `GrantStep` (a claim), `RecordStep` and
  `RevokeStep` (an effect, or, for a serial already revoked, nothing), `SilentStep`
  (all others but the clock).

`AuditProofs`, under the same assumptions, what the service tells: `InventoryClosed`
(`InventoryFailClosed`), `AuditTrue` (`AuditTruth`) and `DenialsBurnLate`
(`BurntOnlyLate`), all on both
backends and from one invariant `AuditInv`, checked with TLC before it was proved: a
handler has a
result only while it reports it, its event is that result, a success is in the store
and bears the handler's own name (`Honest`, which needs `PaidInv`); whoever has changed
the store tells so, over DynamoDB perhaps as an error (`Told`); a certificate that is held
is recorded and its request is done (`Settled`: the event cannot change any more); and
whoever claimed is past its checks (`Past`). `StepAudit` says what a step of one
handler owes to keep it, `GoAudit` and `FinishAudit` are its two common cases, and one
lemma per group of actions pays it. `RevocationsKept` (`RevocationsImmutable`) is an
action property and needs the type invariant only. Also in `AuditProofs`:

- `RevocationsBite` (`RevocationBites`): after a revocation, a renewal or rekey of the
  certificate takes effect at most the lag of a read plus `MaxDelay` later. The property
  says nothing of handlers under way, so `Gated` does: whoever is between the read and
  the claim made that read no later than the lag after the revocation, if there is one.
  A record written later than an instant changes nothing about it (`LaterRecords`), and
  records are never replaced by later ones.

- `SerialsNeverShared` (`SerialsUnique`), if the rows of `Genesis` are distinct: the
  inventory changes by inserts alone, and only where no row has the key
  (`InventoryStep`): the serial, over DynamoDB the serial with the common name.
- `RefusalsJustified` (`RefusalMeansHeld`), on both backends, if no two credentials
  share an identifier and, over DynamoDB, leeway and buffer are not both zero. A refusal
  rests on a row; `RowsBacked` says that every row was left by a claim, and `Justified`
  carries the claim that the refused handler met until its response (claims are never
  taken back: `ClaimsGrow`). Over DynamoDB the handler may have made that claim itself,
  its response lost (`Obstructed`); the claim it just made is then the witness. With a
  shared identifier the refusal names somebody else's credential.
- `LifetimesBounded` (`LifetimeBounded`), if `Genesis` is bounded and either nothing is
  reissued or no hook moves a window's start back (`NoReissue \/ NoRatchet`; what a hook
  that does can reach is `v_lifetime_ratchet`). `WindowInv` follows the window through
  the handler: a new one may be anything until the hooks are done (`ClampedWindow`), a
  reissue is as long as the certificate presented, which is in the inventory by
  `AuditInv`.
- `ScopesOneValid` (`ScopeOneValid`), on both backends and with reissues. `ScopeInv`:
  each scope of a certificate under way is either still in the list to claim or claimed
  by its handler until the certificate's expiry, and the list is empty when it is
  signed; so each recorded certificate has such a claim of the request it names
  (`PaidInv`: a handler's draft bears its name), and `ClaimExclusion` makes one of two
  over (`OneHolder`). The scopes are those that the certificate's own request claimed: what a
  renewal inherits is not claimed again (section 6).

`LineageProofs`, first about `HookPipeline` alone, for every list of hooks, every request
and whatever the hooks reply:

- `VerdictsExact` (`VerdictExact`), with `TypeCorrect`. The invariant `Progress` says
  that the hooks before `pos` passed, that `granted` is what they said, and that a
  pipeline which stopped early stopped for the hook at `pos`.
- `LayersExact` (`LayeredInOrder`): `Layered` states the property for the hooks asked
  so far; `OneMoreLayer` is the step in which a reply becomes the last of them, part
  by part (overrides, SANs, scopes, extensions, renewability), and `SameLayers`
  covers all other steps.

Both need no more of the first state than a pipeline which has not asked anybody
(`Ready`), so that they serve for every pipeline of the requests of `Lineage`.

Then about `Lineage`, for every set of configurations, tokens, CSRs and injected extensions,
and any number of reissues and restarts: `LineageVerdicts` and `LineageLayers` (the two
properties above inside a server), `NamesGoBack` (`NamesAccounted`), `PolicyGoesBack`
(`PolicyKept`), `MarkIsFinal` (`NonRenewableIsFinal`), `CertificateWellFormed`
(`WellFormed`), `RoutingExact` (`RoutingUnambiguous`) and `RefusalsByHook`
(`RefusedByHook`). The invariant `LInv` was checked by TLC on the `lineage` instance
first. `Holding` is the conjunction of the properties of the certificate, which a
reissue needs together: it copies every extension of the previous one and edits some.
Between request and certificate lie `Signing` (the names the hooks are told are those
the token permits) and `Reissuing` (the certificate presented is not marked, and its
names decode), and between configuration and request `Hosted` (it passed the checks of
the start) with `Grantable` (so whoever needs a grant has a hook to ask). `Issue` is
followed extension by extension, with a lemma on each operator of the CA (`Upserted`,
`Override`, `Sealed`, `issue`, `reissue`).

`RenewLoopProofs`, for every lifetime, threshold, jitter, cap, latency and set of
scenarios: `TypeCorrect`, `PairsKept` (`PairKept`; `Pairing` says what the other command
has done at each of its steps), `FileNeverTruncated` (`NeverTruncated`),
`FatalMeansHopeless` (`FatalOnlyIfHopeless`) and `FileKeptFresh` (`KeepsFresh`). The
last one has the longest way: `Steady` bounds, at every place of the loop, the age of
the certificate in the file plus what is left of the sleep, so that the request is sent
by the time the certificate is as old as the threshold (or as a request and the exec
hook take), and is answered within the latency. `RoomToRenew`, a hypothesis of
`KeepsFresh`, says that this is before its expiry; without it the property is false, and
the code does not check it.

`JwksCacheProofs`, for any number of callers and keys and all durations: `TypeCorrect`
(with one holder of the lock), `WithdrawalTakesEffect` (`WithdrawnKeysExpire`),
`RotationTakesEffect` (`RotationPickedUp`) and the action property `RefetchBound`
(`RefetchesSpaced`). The invariant follows a key set from the issuer to a verdict:
a response is a snapshot taken during its fetch (`Fetching`, `Snapshot`), the memo is
one at most a fetch older than its date (`MemoSnapshot`), and whoever looks after the
lock reads a recent one (`Reading`); `Verdicts` keeps what follows while time passes and
the issuer rotates on.

`RootsSignatureProofs`, for any fleet, any number of clients and any sequence of
configurations: `TypeCorrect`, `ServedInTime` (`NeverStale`), `MismatchPasses`
(`MismatchBounded`) and `RetiredRootsDie` (`RetiredRootsExpire`). The argument is
provenance: every signature, in the cache, on the way or repeated, was made for a
configuration that ran then or later (`Signatures`), and what the servers hand out
outlasts its way (`Timely`). `MarginCovers`, a hypothesis of the first two properties,
says that the refresh margin covers the latency and the clock differences.

`AnchorSearchProofs`, for every set of names, keys and windows, every chain, bundle and
depth: `NoPathMissed` (`PathsFound`) and `NoPathInvented` (`AnchoredByPath`). What the
search decides exactly is whether there is a `KeyPath`, in which a CA certificate may be
replaced by any twin of it in force (`SearchDecides`). Every documented path is one, and where twins agree on
the CA mark every `KeyPath` is a documented path (`PathIsKeyPath`, `KeyPathIsPath`).
That the recursive function exists at all is part
of the proof: `AnswersExist` builds the answers for up to n nested calls, `AnswersUnique`
and `SearchUnfolds` give the equation of the definition. The induction over the number
of calls goes by a least counterexample (`LeastNumber`, from `WFMin` of the library).
Sound (`SearchSound`): a call that says yes has a path, the twin it chose in front of
the path of the call below. Complete: `SearchFollows` shows that the search finds a
`Trail`, a path whose edges are all different and none of them on the way; two edges of
a path may well be equal, and the guard confuses certificates that share one, so
`PathCut` replaces the earlier by the later (`TwinSwap`: they are twins, the later one
takes its place) and leaves a shorter path; the shortest path is therefore a trail
(`ShortestIsTrail`), and the depth that admits a path admits it too.

`ServingTlsProofs`, for all durations: `TypeCorrect`, and `ServedNeverExpires`
(`NeverExpired`) from the invariant that, at every place of the task, the served
certificate outlasts the worst remaining way to the next one (`Reserve`).

The assumptions are those named in the modules (`StorageAssumption`,
`RevocationAssumption`, `IssuanceAssumption`, `HookAssumption`, `LineageAssumption`,
`RenewLoopAssumption`, `JwksAssumption`, `RootsAssumption`, `AnchorAssumption`,
`ServingTlsAssumption`),
which TLC evaluates in the runs of these modules, and that the clock does not step
backwards. They type the constants and keep `Absent` apart from
real values; certificates of `Genesis` were signed by none of the modelled requests and bear no
history; a
threshold is not longer than the lifetime (`renew.rs:123`); the lower bound between
refetches is not zero; an injected SAN extension decodes or is `Garbage`. A theorem with
further hypotheses states them itself, and the runs satisfy them: `sign_sqlite` those of
`AuditProofs`, `dynamodb` those of `RefusalsJustified`, `TokensSingleUse` and
`ProofsSingleUse`, `renew` `RoomToRenew`, `roots` `MarginCovers`.

Only model-checked: liveness (`TermStops`, `Verified`, `RequestEnds`, `Renewed`), which needs fairness and `ENABLED`. Every safety property of a
passing run is stated by a theorem.

## 5. What is not modelled

X.509, JOSE and HTTP-signature encodings and key handling (pure encoding); the
parsing of configuration files, secrets and durations; event sinks beyond the event's
outcome (their failures are logged and ignored); the routes and commands that only
read or print (`health`, `provisioners`, `token`, the client side of `revoke`); a
clock that steps backwards.

## 6. Findings and other divergences

Runs that show code and documentation disagree (`findings` in `PROJECT.json`):

- `v_token_boundary`: over SQLite a token can be used a second time in the last
  second of its acceptance; its claim expires at `exp + 60` and is deleted when
  `expires_at <= now`, while the validator still accepts `now = exp + 60`.
- `v_lifetime_ratchet`: on renew and rekey only `not_after` is clamped; a hook that
  moves `not_before` back lengthens the certificate, and the next renewal takes the
  longer duration as its baseline.
- `v_max_sleep`: after a nap capped by `--max-sleep` the loop neither reads the file
  again nor recomputes the schedule (`wait_until`); a certificate installed meanwhile
  is not noticed until the old one has been renewed over it.
- `v_twin_ca`: the search for a pinned root asks the certificate it finds as issuer for
  its CA mark and not for its validity, and then goes on with any certificate of the same
  name and key, which it asks for its validity and not for the mark. A signer is anchored
  through a certificate that is no CA, next to a lapsed CA certificate that is its twin
  (`httpsig.rs:150` and `docs/security.md:42`: every intermediate is a CA and every
  served certificate valid). The CA certificate need not lead to a pinned root either;
  `AnchoredByPath` is about chains in which twins agree on the mark.

Met while modelling, described here without a run:

- The cache of roots signatures is keyed by the body, which holds the roots only, so
  a new issuing certificate does not miss it (`service.rs:110` says any chain or
  configuration change does); clients refuse the bundle until the old signature is
  refreshed, and `MismatchBounded` bounds for how long.
- With `--out` different from `--cert` the loop presents the certificate it started
  with, renewing without a pause once it is due, until that one has expired, and
  exits (scenario `elsewhere`; `docs/cli.md:142` says it keeps the certificate fresh
  for the life of the process). `KeepsFresh` is about loops with one path.
- Nothing checks that hook names are unique; two hooks of one name share the
  namespace of their once-scopes.
- With hooks that last as long as the leeway plus the row's buffer, a proof or token
  can be claimed again: the hypothesis of the single-use theorems fails.
- `get_revocation` over DynamoDB is eventually consistent (`RevocationReads`), so a
  renewal just after a revocation may miss it (`docs/storage.md:217` says
  consistent). And a revocation recorded after the read, during the proof check or the
  hooks of a renewal, is not seen (`service.rs:527`), so with a hook that hangs a
  renewal may take effect long after. `RevocationBites` says how late at most.
- DynamoDB's inventory key includes the common name (`SameRow`), so a serial drawn
  again for another name is not a conflict (`storage/mod.rs:93`).
- DynamoDB compares the buffered `ttl` (`Claimable`, `RowBuffer`), so a scope stays
  refused for the buffer after its claim expired (`dynamodb.rs:311` says SQLite
  reclaims the same way); `RefusalMeansHeld` allows for the buffer.
- A renewal does not extend the claim of its certificate's scope, so a second
  certificate for the scope can be issued while the renewed one is valid
  (`service.rs:250`). `ScopeOneValid` is about the scopes that a certificate's own
  request claimed, not about those its predecessors did.
- A handler dropped between `record_certificate` and `emit` leaves a certificate
  without an event (`docs/events.md:7`: exactly one).
- `wait_until` receives signals only while it sleeps (a threshold of zero renews for
  ever), and `write_atomic` does not sync (`specs/renew-loop.md:127`; scenario
  `power`).
- A `rekey` or `certificate` onto the files of a running loop can be overwritten by a
  renewal of the pair the loop had read before: the state `overwritten` of
  `RenewLoop`, which `PairKept` names as an exception, like a command killed between
  its two writes.
- A SAN extension that a hook injects and that does not decode is issued, and every
  later renewal of that certificate fails (`service.rs:913`); a step of `Lineage`
  (`Garbage`).
- A SAN that is not IA5 is refused inside `ca.issue`, after the token has been claimed
  (`san.rs:50`; the result `unencodable` of `Issuance`, `Encodable` in `Lineage`), although
  `service.rs:381` has the claim come "only after every check has passed". The token is
  spent for a request answered 400, and a corrected one needs a new token.
  `BurntOnlyLate` says which other denials may: that of a taken scope and, over DynamoDB,
  of a claim whose response was lost.
- The reaper and the sweep are modelled, that they keep the tables small is not checked.
- `renew_jitter` of the serving certificate is not validated: with more jitter than
  validity the delay is zero and reissues follow one another (`tls.rs:273`).
- A failed JWKS fetch leaves no trace, so attempts are not spaced (`jwks.rs:125`);
  `RefetchesSpaced` is about those that succeed.

## 7. Plan

Done: all modules above, the refinement of `OneTimeService` and the proofs of section
4, which cover every safety property of the runs. What could follow:

1. The delay from the first check to the claim as what the configured hook timeouts add up
   to, instead of the constant `MaxDelay`, by composing `Issuance` with `HookPipeline`.
2. A clock that steps backwards, which the claims of both backends trust.
3. The startup of the renew loop with an overdue certificate, whose spread the code does
   not limit by what the certificate has left.
