---------------------------- MODULE RootsSignature ----------------------------
(***************************************************************************)
(* GET /v1/roots: a fleet of servers signs the root bundle with the CA key *)
(* and shares the signature through the store's cache (signed_roots in     *)
(* ayane/src/service.rs), a client fetches the bundle and, in a second     *)
(* request, the signer chain, and verifies the one with the other          *)
(* (ayane-cli/src/cmd/roots.rs, httpsig.rs).  Servers restart with other   *)
(* roots, another issuing certificate or another lifetime in between.      *)
(*                                                                         *)
(* external_url is unset (x5u is relative); that the signer chain anchors  *)
(* in the client's pinned bundle is the set Anchored.                      *)
(***************************************************************************)
EXTENDS Integers

CONSTANTS
    Client, Instance,
    Config,        \* [body, leaf, ttl]: the roots kept, the issuing certificate,
                   \* and roots_signature.ttl
    Anchored,      \* leaves whose chain reaches a pinned root
    Consistent,    \* a read of the cache never misses an entry
    Replays,       \* whether a third party may repeat an old response: TRUE, FALSE or both
    MARGIN_CAP,    \* upper bound of the refresh margin
    SKEW, MAX_SIGNATURE_LIFETIME,
    Offset,        \* client clock minus server clock
    Latency,       \* bound from the server's clock reading to the verification
    Absent,
    MaxTime        \* bound on the clock

Body == {g.body : g \in Config}
Leaf == {g.leaf : g \in Config}

ASSUME RootsAssumption ==
    /\ \A g \in Config : DOMAIN g = {"body", "leaf", "ttl"} /\ g.ttl \in Nat
    /\ Consistent \in BOOLEAN /\ Replays \subseteq BOOLEAN
    /\ MARGIN_CAP \in Nat /\ SKEW \in Nat /\ MAX_SIGNATURE_LIFETIME \in Nat
    /\ Offset \subseteq Int /\ Latency \in Nat /\ MaxTime \in Nat
    /\ \A o \in Offset : o >= -SKEW

VARIABLES
    now,
    config,    \* instance -> the configuration it runs
    lastRun,   \* history: configuration -> when it last ran, or Never
    cache,     \* cache key (digest of the body) -> signature, or Absent
    pc,        \* client -> where its request is
    at, clk,   \* the instance that serves it, and the clock that one read
    sig,       \* the signed response in the making, then in the client's hands
    chain,     \* leaf of the signer chain the client fetched
    kept,      \* one response that somebody on the way has kept, or Absent
    verdict,
    replays    \* somebody on the way repeats responses in this behaviour

vars == <<now, config, lastRun, cache, pc, at, clk, sig, chain, kept, verdict, replays>>

Never == -(MaxTime + 1000)

\* A signed response: the body, what the headers say of it, and what the CA key signed.
Signature ==
    [body : Body, digest : Body, leaf : Leaf, created : Nat, expires : Nat,
     signed : [digest : Body, leaf : Leaf, created : Nat, expires : Nat]]
Pcs == {"idle", "lookup", "sign", "store", "answered", "verify"}
Verdicts == {"none", "ok", "error", "digest", "lifetime", "expired", "future", "mismatch",
             "invalid", "unanchored"}

Init ==
    /\ now = 0
    /\ config \in [Instance -> Config]
    /\ lastRun = [g \in Config |-> IF \E i \in Instance : config[i] = g THEN 0 ELSE Never]
    /\ cache = [b \in Body |-> Absent]
    /\ pc = [c \in Client |-> "idle"]
    /\ at = [c \in Client |-> Absent]
    /\ clk = [c \in Client |-> 0]
    /\ sig = [c \in Client |-> Absent]
    /\ chain = [c \in Client |-> Absent]
    /\ kept = Absent
    /\ verdict = [c \in Client |-> "none"]
    /\ replays \in Replays

----------------------------------------------------------------------------
(* The server: signed_roots *)

Goto(c, there) == pc' = [pc EXCEPT ![c] = there]

\* The request is over: the client keeps the verdict only.
End(c, v) ==
    /\ Goto(c, "idle")
    /\ at' = [at EXCEPT ![c] = Absent]
    /\ clk' = [clk EXCEPT ![c] = 0]
    /\ chain' = [chain EXCEPT ![c] = Absent]
    /\ verdict' = [verdict EXCEPT ![c] = v]

\* A quarter of the lifetime, and no more than the cap.
RefreshMargin(ttl) == IF ttl \div 4 <= MARGIN_CAP THEN ttl \div 4 ELSE MARGIN_CAP

\* The margin covers the way to the client and what its clock is ahead.
MarginCovers ==
    \A g \in Config : \A o \in Offset \cup {0} : Latency + o <= RefreshMargin(g.ttl)

\* The handler reads the clock first and uses that reading to the end.
Ask(c, i) ==
    /\ pc[c] = "idle"
    /\ Goto(c, "lookup")
    /\ at' = [at EXCEPT ![c] = i]
    /\ clk' = [clk EXCEPT ![c] = now]
    /\ sig' = [sig EXCEPT ![c] = Absent]
    /\ verdict' = [verdict EXCEPT ![c] = "none"]
    /\ UNCHANGED <<now, config, lastRun, cache, chain, kept, replays>>

\* What get_cache may answer: expiry is enforced on the read.
CacheReads(b) ==
    {IF cache[b] # Absent /\ now < cache[b].expires THEN cache[b] ELSE Absent}
    \cup (IF Consistent THEN {} ELSE {Absent})

\* Mutant of Usable: expiry itself, without the margin.
Usable_NoMargin(s, t, ttl) == s # Absent /\ t < s.expires

\* A cached signature is served while it outlasts the margin.
Usable(s, t, ttl) == s # Absent /\ t + RefreshMargin(ttl) < s.expires

\* A response leaves the server; it may be kept to be repeated.
Depart(c, s) ==
    /\ Goto(c, "answered")
    /\ at' = [at EXCEPT ![c] = Absent]
    /\ sig' = [sig EXCEPT ![c] = s]
    /\ kept' \in {kept} \cup (IF replays THEN {s} ELSE {})

\* The handler serves a usable entry of its body's digest, or goes on to sign.
cache_get(c) ==
    LET g == config[at[c]]
    IN  /\ pc[c] = "lookup"
        /\ \E s \in CacheReads(g.body) :
              IF Usable(s, clk[c], g.ttl)
              THEN Depart(c, s)
              ELSE Goto(c, "sign") /\ UNCHANGED <<at, sig, kept>>
        /\ UNCHANGED <<now, config, lastRun, cache, clk, chain, verdict, replays>>

\* Mutant of roots_signature_base: the digest is not among the covered components.
roots_signature_base_NoDigest(digest, leaf, created, expires) ==
    [digest |-> CHOOSE b \in Body : TRUE, leaf |-> leaf, created |-> created, expires |-> expires]

\* What is signed, and what is verified: the covered components of a response.
roots_signature_base(digest, leaf, created, expires) ==
    [digest |-> digest, leaf |-> leaf, created |-> created, expires |-> expires]

\* The response of configuration g, signed at t.
SignedRoots(g, t) ==
    [body |-> g.body, digest |-> g.body, leaf |-> g.leaf, created |-> t, expires |-> t + g.ttl,
     signed |-> roots_signature_base(g.body, g.leaf, t, t + g.ttl)]

\* Mutant of sign_http_message: dated ahead by more than the skew.
sign_http_message_Ahead(c) ==
    LET g == config[at[c]]
    IN  /\ pc[c] = "sign"
        /\ sig' = [sig EXCEPT ![c] = SignedRoots(g, now + 2 * SKEW)]
        /\ Goto(c, "store")
        /\ UNCHANGED <<now, config, lastRun, cache, at, clk, chain, kept, verdict, replays>>

\* The CA key signs (or fails): created is the clock reading from before.
sign_http_message(c) ==
    LET g == config[at[c]]
    IN  /\ pc[c] = "sign"
        /\ \/ /\ sig' = [sig EXCEPT ![c] = SignedRoots(g, clk[c])]
              /\ Goto(c, "store")
              /\ UNCHANGED <<at, clk, chain, verdict>>
           \/ End(c, "error") /\ UNCHANGED sig
        /\ UNCHANGED <<now, config, lastRun, cache, kept, replays>>

\* The last writer wins; a failed write fails the request.
cache_set(c) ==
    /\ pc[c] = "store"
    /\ \/ /\ cache' = [cache EXCEPT ![sig[c].body] = sig[c]]
          /\ Depart(c, sig[c])
          /\ UNCHANGED <<clk, chain, verdict>>
       \/ End(c, "error") /\ UNCHANGED <<cache, sig, kept>>
    /\ UNCHANGED <<now, config, lastRun, replays>>

----------------------------------------------------------------------------
(* The client *)

\* The second request may reach another instance, that serves its own chain.
FetchChain(c, j) ==
    /\ pc[c] = "answered"
    /\ chain' = [chain EXCEPT ![c] = config[j].leaf]
    /\ Goto(c, "verify")
    /\ UNCHANGED <<now, config, lastRun, cache, at, clk, sig, kept, verdict, replays>>

\* A header is missing, x5u leads to another origin, or the second request fails.
FetchFails(c) ==
    /\ pc[c] = "answered"
    /\ End(c, "error")
    /\ UNCHANGED <<now, config, lastRun, cache, sig, kept, replays>>

\* The signature verifies under the leaf's key.
SignatureValid(s) == s.signed = roots_signature_base(s.digest, s.leaf, s.created, s.expires)

\* The checks of verify_roots_response in their order.
Judge(s, leaf, t) ==
    IF s.digest # s.body THEN "digest"
    ELSE IF s.expires <= s.created \/ s.expires - s.created > MAX_SIGNATURE_LIFETIME THEN "lifetime"
    ELSE IF t >= s.expires THEN "expired"
    ELSE IF s.created > t + SKEW THEN "future"
    ELSE IF leaf # s.leaf THEN "mismatch"
    ELSE IF ~SignatureValid(s) THEN "invalid"
    ELSE IF leaf \notin Anchored THEN "unanchored"
    ELSE "ok"

verify_roots_response(c) ==
    /\ pc[c] = "verify"
    /\ \E o \in Offset : End(c, Judge(sig[c], chain[c], now + o))
    /\ UNCHANGED <<now, config, lastRun, cache, sig, kept, replays>>

----------------------------------------------------------------------------
(* Environment *)

\* What somebody on the way can make of a response: the body and the headers may be
\* changed, what the CA key signed may not.
Altered(s) ==
    {[s EXCEPT !.body = b] : b \in Body} \cup {[s EXCEPT !.body = b, !.digest = b] : b \in Body}
    \cup {[s EXCEPT !.leaf = l] : l \in Leaf}
    \cup {[s EXCEPT !.created = now, !.expires = now + MAX_SIGNATURE_LIFETIME]}

\* Somebody on the way answers with a response of the past, altered or as it was.
Repeat(c) ==
    /\ pc[c] = "idle"
    /\ kept # Absent
    /\ \E s \in Altered(kept) : sig' = [sig EXCEPT ![c] = s]
    /\ Goto(c, "answered")
    /\ clk' = [clk EXCEPT ![c] = now]
    /\ verdict' = [verdict EXCEPT ![c] = "none"]
    /\ UNCHANGED <<now, config, lastRun, cache, at, chain, kept, replays>>

\* An instance comes back with another configuration; what it was serving is lost.
Restart(i, g) ==
    LET cut == {c \in Client : at[c] = i /\ pc[c] \in {"lookup", "sign", "store"}}
    IN  /\ config[i] # g
        /\ config' = [config EXCEPT ![i] = g]
        /\ lastRun' = [lastRun EXCEPT ![g] = now]
        /\ pc' = [c \in Client |-> IF c \in cut THEN "idle" ELSE pc[c]]
        /\ at' = [c \in Client |-> IF c \in cut THEN Absent ELSE at[c]]
        /\ clk' = [c \in Client |-> IF c \in cut THEN 0 ELSE clk[c]]
        /\ verdict' = [c \in Client |-> IF c \in cut THEN "error" ELSE verdict[c]]
        /\ UNCHANGED <<now, cache, sig, chain, kept, replays>>

\* A second passes; no request takes longer than Latency.
Tick ==
    /\ now < MaxTime
    /\ \A c \in Client : pc[c] # "idle" => now < clk[c] + Latency
    /\ now' = now + 1
    /\ lastRun' = [g \in Config |-> IF \E i \in Instance : config[i] = g THEN now + 1 ELSE lastRun[g]]
    /\ verdict' = [c \in Client |-> "none"]
    /\ sig' = [c \in Client |-> IF pc[c] = "idle" THEN Absent ELSE sig[c]]
    /\ UNCHANGED <<config, cache, chain, pc, at, clk, kept, replays>>

Next ==
    \/ \E c \in Client :
          \/ \E i \in Instance : Ask(c, i) \/ FetchChain(c, i)
          \/ cache_get(c) \/ sign_http_message(c) \/ cache_set(c)
          \/ FetchFails(c) \/ verify_roots_response(c) \/ Repeat(c)
    \/ \E i \in Instance, g \in Config : Restart(i, g)
    \/ Tick

Spec == Init /\ [][Next]_vars

----------------------------------------------------------------------------
(* Properties *)

\* The type of the fleet and its clients; what waits to be stored was signed by the
\* configuration that still runs there.
TypeOK ==
    /\ now \in 0..MaxTime
    /\ config \in [Instance -> Config] /\ lastRun \in [Config -> Int]
    /\ cache \in [Body -> Signature \cup {Absent}]
    /\ \A b \in Body : cache[b] # Absent => cache[b].body = b
    /\ pc \in [Client -> Pcs] /\ at \in [Client -> Instance \cup {Absent}] /\ clk \in [Client -> Nat]
    /\ sig \in [Client -> Signature \cup {Absent}] /\ chain \in [Client -> Leaf \cup {Absent}]
    /\ kept \in Signature \cup {Absent} /\ replays \in BOOLEAN
    /\ verdict \in [Client -> Verdicts]
    /\ \A c \in Client : pc[c] \in {"lookup", "sign", "store"} => at[c] \in Instance
    /\ \A c \in Client : pc[c] \in {"store", "answered", "verify"} => sig[c] \in Signature

\* What a server hands out is still good when it is verified: no client with a clock
\* within the skew finds a signature of the fleet expired or of the future, also when
\* it comes from the cache of another instance (the refresh margin of signed_roots).
NeverStale ==
    MarginCovers /\ ~replays => \A c \in Client : verdict[c] \notin {"expired", "future"}

\* After a rotation of the issuing certificate, clients refuse the bundle for no
\* longer than a signature lives: a mismatch is always with a leaf that some
\* instance ran that recently (the cache key leaves the leaf out).
MismatchBounded ==
    \A c \in Client : MarginCovers /\ ~replays /\ verdict[c] = "mismatch" =>
        \E g \in Config : g.leaf = sig[c].leaf /\ g.ttl > now - lastRun[g]

\* Retired roots die out and no others come in: whoever repeats an old response, as it
\* was or altered, a bundle is accepted only while a server keeps it, or within the
\* longest lifetime a client allows (and the skew) after the last one that had it
\* stopped (verify_roots_response, roots_signature_base).
RetiredRootsExpire ==
    \A c \in Client : verdict[c] = "ok" =>
        \E g \in Config : /\ g.body = sig[c].body
                          /\ now - lastRun[g] < MAX_SIGNATURE_LIFETIME + SKEW
==============================================================================
