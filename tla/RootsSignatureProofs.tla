------------------------- MODULE RootsSignatureProofs -------------------------
(***************************************************************************)
(* What the signed roots promise, for any fleet, any number of clients and *)
(* any sequence of configurations.                                         *)
(*                                                                         *)
(* The argument is about provenance: what the CA key signed names a        *)
(* configuration that ran when the signature was made or later, in the     *)
(* cache, on the way, in the hands of a client and in those of whoever     *)
(* repeats it; and what the servers hand out themselves is unaltered and   *)
(* outlasts its way to the client.                                         *)
(***************************************************************************)
EXTENDS RootsSignature, TLAPS

\* The CA key signed s for a configuration that has run since: run says when last.
SignedBy(s, g, run) ==
    /\ s.signed.digest = g.body /\ s.signed.leaf = g.leaf
    /\ s.signed.expires = s.signed.created + g.ttl
    /\ s.signed.created <= run[g]
Provenance(s, run) == \E g \in Config : SignedBy(s, g, run)

\* The response says what was signed.
Unaltered(s) ==
    /\ s.body = s.signed.digest /\ s.digest = s.signed.digest /\ s.leaf = s.signed.leaf
    /\ s.created = s.signed.created /\ s.expires = s.signed.expires

Genuine(s, run) == Provenance(s, run) /\ Unaltered(s)

\* A response that left a server at t outlasts its way to any client, unless it was
\* signed for no time at all.
Outlasts(s, t) == s.expires <= s.created \/ \A o \in Offset \cup {0} : t + Latency + o < s.expires

\* What runs has run; no request is older than the latency, and none has a verdict.
Clocks ==
    /\ \A i \in Instance : lastRun[config[i]] = now
    /\ \A g \in Config : lastRun[g] <= now
    /\ \A c \in Client : pc[c] # "idle" => /\ clk[c] <= now /\ now <= clk[c] + Latency
                                           /\ verdict[c] = "none"

\* Every signature of the system is genuine; altered are only those that somebody on the
\* way repeats.
Signatures ==
    /\ \A b \in Body : cache[b] # Absent => Genuine(cache[b], lastRun)
    /\ \A c \in Client :
          /\ pc[c] = "store" => Genuine(sig[c], lastRun)
          /\ pc[c] \in {"answered", "verify"} => Provenance(sig[c], lastRun) /\ (replays \/ Unaltered(sig[c]))
    /\ kept # Absent => Provenance(kept, lastRun) /\ replays

\* What the servers hand out outlasts its way.
Timely ==
    MarginCovers /\ ~replays =>
        \A c \in Client : pc[c] \in {"store", "answered", "verify"} => Outlasts(sig[c], clk[c])

\* What each verdict was about.
Justified ==
    \A c \in Client :
        /\ verdict[c] = "ok" =>
              \E g \in Config : g.body = sig[c].body /\ now - lastRun[g] < MAX_SIGNATURE_LIFETIME + SKEW
        /\ MarginCovers /\ ~replays /\ verdict[c] = "mismatch" =>
              \E g \in Config : g.leaf = sig[c].leaf /\ g.ttl > now - lastRun[g]
        /\ MarginCovers /\ ~replays => verdict[c] \notin {"expired", "future"}

\* The inductive invariant.
IInv == TypeOK /\ Clocks /\ Signatures /\ Timely /\ Justified

USE RootsAssumption

----------------------------------------------------------------------------
(* The type *)

\* What a configuration is made of.
LEMMA ConfigType == ASSUME NEW g \in Config PROVE g.ttl \in Nat /\ g.body \in Body /\ g.leaf \in Leaf
BY DEF Body, Leaf

\* A configuration's signature is a signature.
LEMMA SignedType == ASSUME NEW g \in Config, NEW t \in Nat PROVE SignedRoots(g, t) \in Signature
<1>1. t + g.ttl \in Nat
  BY ConfigType
<1> QED
  BY <1>1, ConfigType DEF SignedRoots, roots_signature_base, Signature

\* Whoever alters a response leaves a response, with what the CA key signed.
LEMMA AlteredType ==
    ASSUME now \in Nat, NEW s \in Signature, NEW a \in Altered(s)
    PROVE  a \in Signature /\ a.signed = s.signed
<1>1. CASE \E b \in Body : a = [s EXCEPT !.body = b]
  BY <1>1 DEF Signature
<1>2. CASE \E b \in Body : a = [s EXCEPT !.body = b, !.digest = b]
  BY <1>2 DEF Signature
<1>3. CASE \E l \in Leaf : a = [s EXCEPT !.leaf = l]
  BY <1>3 DEF Signature
<1>4. CASE a = [s EXCEPT !.created = now, !.expires = now + MAX_SIGNATURE_LIFETIME]
  <2>1. now + MAX_SIGNATURE_LIFETIME \in Nat
    OBVIOUS
  <2> QED
    BY <1>4, <2>1 DEF Signature
<1> QED
  BY <1>1, <1>2, <1>3, <1>4 DEF Altered

\* What get_cache answers is the entry or nothing.
LEMMA CacheRead ==
    ASSUME NEW b, NEW s \in CacheReads(b)
    PROVE  s = Absent \/ s = cache[b]
BY DEF CacheReads

\* A verdict is one of those the client knows.
LEMMA JudgeType == \A s, l, t : Judge(s, l, t) \in Verdicts
BY DEF Judge, Verdicts

\* Every step keeps the type.
LEMMA NextType == TypeOK /\ [Next]_vars => TypeOK'
<1> SUFFICES ASSUME TypeOK, [Next]_vars PROVE TypeOK'
  OBVIOUS
<1> USE DEF TypeOK, Goto, Pcs
<1>n. now \in Nat /\ "error" \in Verdicts /\ "none" \in Verdicts
  BY DEF Verdicts
<1>e. ASSUME NEW c \in Client, NEW v \in Verdicts, End(c, v), UNCHANGED <<now, config, lastRun, cache, sig, kept, replays>>
      PROVE  TypeOK'
  BY <1>e DEF End
<1>1. ASSUME NEW c \in Client, NEW i \in Instance, Ask(c, i) PROVE TypeOK'
  BY <1>1, <1>n DEF Ask
<1>2. ASSUME NEW c \in Client, NEW i \in Instance, FetchChain(c, i) PROVE TypeOK'
  BY <1>2, ConfigType DEF FetchChain
<1>3. ASSUME NEW c \in Client, cache_get(c) PROVE TypeOK'
  <2>1. PICK s \in CacheReads(config[at[c]].body) :
               \/ s # Absent /\ Depart(c, s)
               \/ Goto(c, "sign") /\ UNCHANGED <<at, sig, kept>>
    BY <1>3 DEF cache_get, Usable
  <2>2. CASE s # Absent /\ Depart(c, s)
    <3>1. s \in Signature
      BY <1>3, <2>2, CacheRead, ConfigType DEF cache_get
    <3>2. kept' \in Signature \cup {Absent}
      BY <2>2, <3>1 DEF Depart
    <3> QED
      BY <1>3, <2>2, <3>1, <3>2 DEF cache_get, Depart
  <2>3. CASE Goto(c, "sign") /\ UNCHANGED <<at, sig, kept>>
    BY <1>3, <2>3 DEF cache_get
  <2> QED
    BY <2>1, <2>2, <2>3
<1>4. ASSUME NEW c \in Client, sign_http_message(c) PROVE TypeOK'
  <2>1. CASE End(c, "error") /\ UNCHANGED sig
    BY <1>4, <2>1, <1>e, <1>n DEF sign_http_message
  <2>2. CASE sig' = [sig EXCEPT ![c] = SignedRoots(config[at[c]], clk[c])] /\ Goto(c, "store") /\ UNCHANGED <<at, clk, chain, verdict>>
    <3>1. SignedRoots(config[at[c]], clk[c]) \in Signature
      BY <1>4, SignedType DEF sign_http_message
    <3> HIDE DEF Signature
    <3> QED
      BY <1>4, <2>2, <3>1 DEF sign_http_message
  <2> QED
    BY <1>4, <2>1, <2>2 DEF sign_http_message
<1>5. ASSUME NEW c \in Client, cache_set(c) PROVE TypeOK'
  <2>1. CASE End(c, "error") /\ UNCHANGED <<cache, sig, kept>>
    BY <1>5, <2>1, <1>e, <1>n DEF cache_set
  <2>2. CASE cache' = [cache EXCEPT ![sig[c].body] = sig[c]] /\ Depart(c, sig[c]) /\ UNCHANGED <<clk, chain, verdict>>
    <3>1. sig[c] \in Signature /\ sig[c].body \in Body
      BY <1>5 DEF cache_set, Signature
    <3>2. kept' \in Signature \cup {Absent}
      BY <2>2, <3>1 DEF Depart
    <3>3. /\ cache' \in [Body -> Signature \cup {Absent}]
          /\ \A b \in Body : cache'[b] # Absent => cache'[b].body = b
      BY <2>2, <3>1
    <3> QED
      BY <1>5, <2>2, <3>1, <3>2, <3>3 DEF cache_set, Depart
  <2> QED
    BY <1>5, <2>1, <2>2 DEF cache_set
<1>6. ASSUME NEW c \in Client, FetchFails(c) PROVE TypeOK'
  BY <1>6, <1>e, <1>n DEF FetchFails
<1>7. ASSUME NEW c \in Client, verify_roots_response(c) PROVE TypeOK'
  BY <1>7, <1>e, JudgeType DEF verify_roots_response
<1>8. ASSUME NEW c \in Client, Repeat(c) PROVE TypeOK'
  <2>1. PICK s \in Altered(kept) : sig' = [sig EXCEPT ![c] = s]
    BY <1>8 DEF Repeat
  <2>2. s \in Signature
    BY <1>8, <1>n, <2>1, AlteredType DEF Repeat
  <2> QED
    BY <1>8, <1>n, <2>1, <2>2 DEF Repeat
<1>9. ASSUME NEW i \in Instance, NEW g \in Config, Restart(i, g) PROVE TypeOK'
  BY <1>9, <1>n DEF Restart
<1>10. CASE Tick
  BY <1>10, <1>n DEF Tick
<1>11. CASE UNCHANGED vars
  BY <1>11 DEF vars
<1> QED
  BY <1>1, <1>2, <1>3, <1>4, <1>5, <1>6, <1>7, <1>8, <1>9, <1>10, <1>11 DEF Next

\* The fleet, its clients and the shared cache keep their type; an entry of the cache is
\* for the body it is kept under (RootsSignature!TypeOK).
THEOREM TypeCorrect == Spec => []TypeOK
<1>1. Init => TypeOK
  <2>1. Never \in Int /\ "none" \in Verdicts
    BY DEF Never, Verdicts
  <2> QED
    BY <2>1 DEF Init, TypeOK, Pcs
<1> QED
  BY <1>1, NextType, PTL DEF Spec

----------------------------------------------------------------------------
(* Provenance *)

\* Whatever has run has run, and what runs runs now.
LEMMA NextClocks == TypeOK /\ Clocks /\ [Next]_vars => Clocks'
<1> SUFFICES ASSUME TypeOK, Clocks, [Next]_vars PROVE Clocks'
  OBVIOUS
<1> USE DEF TypeOK, Clocks, Goto
<1>1. ASSUME NEW c \in Client, NEW i \in Instance, Ask(c, i) PROVE Clocks'
  BY <1>1 DEF Ask
<1>2. ASSUME NEW c \in Client, NEW i \in Instance, FetchChain(c, i) PROVE Clocks'
  BY <1>2 DEF FetchChain
<1>3. ASSUME NEW c \in Client, cache_get(c) PROVE Clocks'
  BY <1>3 DEF cache_get, Depart
<1>4. ASSUME NEW c \in Client, sign_http_message(c) PROVE Clocks'
  BY <1>4 DEF sign_http_message, End
<1>5. ASSUME NEW c \in Client, cache_set(c) PROVE Clocks'
  BY <1>5 DEF cache_set, Depart, End
<1>6. ASSUME NEW c \in Client, FetchFails(c) \/ verify_roots_response(c) PROVE Clocks'
  BY <1>6 DEF FetchFails, verify_roots_response, End
<1>7. ASSUME NEW c \in Client, Repeat(c) PROVE Clocks'
  BY <1>7 DEF Repeat
<1>8. ASSUME NEW i \in Instance, NEW g \in Config, Restart(i, g) PROVE Clocks'
  BY <1>8 DEF Restart
<1>9. CASE Tick
  BY <1>9 DEF Tick
<1>10. CASE UNCHANGED vars
  BY <1>10 DEF vars
<1> QED
  BY <1>1, <1>2, <1>3, <1>4, <1>5, <1>6, <1>7, <1>8, <1>9, <1>10 DEF Next

\* The history of a configuration only grows.
LEMMA LastRunGrows ==
    ASSUME TypeOK, Clocks, [Next]_vars, NEW g \in Config
    PROVE  lastRun[g] <= lastRun'[g]
<1>1. ASSUME NEW i \in Instance, NEW h \in Config, Restart(i, h) PROVE lastRun[g] <= lastRun'[g]
  BY <1>1 DEF Restart, TypeOK, Clocks
<1>2. CASE Tick
  BY <1>2 DEF Tick, TypeOK, Clocks
<1>3. CASE UNCHANGED lastRun
  BY <1>3 DEF TypeOK
<1> QED
  BY <1>1, <1>2, <1>3 DEF Next, vars, Ask, FetchChain, cache_get, sign_http_message, cache_set, FetchFails,
                          verify_roots_response, Repeat

\* A signature keeps its provenance.
LEMMA ProvenanceKept ==
    ASSUME TypeOK, Clocks, [Next]_vars, NEW s \in Signature, Provenance(s, lastRun)
    PROVE  Provenance(s, lastRun')
<1>1. PICK g \in Config : SignedBy(s, g, lastRun)
  BY DEF Provenance
<1>2. lastRun[g] <= lastRun'[g] /\ lastRun[g] \in Int /\ lastRun'[g] \in Int /\ s.signed.created \in Int
  BY LastRunGrows, NextType DEF TypeOK, Signature
<1> QED
  BY <1>1, <1>2 DEF Provenance, SignedBy

\* What a server signs is genuine, and dated at its reading of the clock.
LEMMA SignedGenuine ==
    ASSUME TypeOK, NEW g \in Config, lastRun[g] = now, NEW t \in Nat, t <= now
    PROVE  /\ Genuine(SignedRoots(g, t), lastRun)
           /\ SignedRoots(g, t).created = t /\ SignedRoots(g, t).expires = t + g.ttl
<1>1. SignedBy(SignedRoots(g, t), g, lastRun)
  BY DEF SignedBy, SignedRoots, roots_signature_base
<1>2. Unaltered(SignedRoots(g, t))
  BY DEF Unaltered, SignedRoots, roots_signature_base
<1> QED
  BY <1>1, <1>2 DEF Genuine, Provenance, SignedRoots

\* Genuine signatures stay the only ones.
LEMMA NextSignatures == TypeOK /\ Clocks /\ Signatures /\ [Next]_vars => Signatures'
<1> SUFFICES ASSUME TypeOK, Clocks, Signatures, [Next]_vars PROVE Signatures'
  OBVIOUS
<1>p. \A s \in Signature : Provenance(s, lastRun) => Provenance(s, lastRun')
  BY ProvenanceKept
<1>g. \A s \in Signature : Genuine(s, lastRun) => Genuine(s, lastRun')
  BY <1>p DEF Genuine
<1>k. /\ \A b \in Body : cache[b] # Absent => Genuine(cache[b], lastRun')
      /\ \A c \in Client :
            /\ pc[c] = "store" => Genuine(sig[c], lastRun')
            /\ pc[c] \in {"answered", "verify"} => Provenance(sig[c], lastRun') /\ (replays \/ Unaltered(sig[c]))
      /\ kept # Absent => Provenance(kept, lastRun') /\ replays
  <2>1. \A b \in Body : cache[b] # Absent => Genuine(cache[b], lastRun')
    BY <1>g DEF Signatures, TypeOK
  <2>2. \A c \in Client : pc[c] = "store" => Genuine(sig[c], lastRun')
    BY <1>g DEF Signatures, TypeOK
  <2>3. \A c \in Client : pc[c] \in {"answered", "verify"} =>
                              Provenance(sig[c], lastRun') /\ (replays \/ Unaltered(sig[c]))
    BY <1>p DEF Signatures, TypeOK
  <2>4. kept # Absent => Provenance(kept, lastRun') /\ replays
    BY <1>p DEF Signatures, TypeOK
  <2> QED
    BY <2>1, <2>2, <2>3, <2>4
<1> USE DEF Goto
<1>d. ASSUME NEW c \in Client, NEW s, Depart(c, s), Genuine(s, lastRun'), UNCHANGED replays,
             cache' = cache \/ cache' = [cache EXCEPT ![s.body] = s]
      PROVE  Signatures'
  <2>1. \A b \in Body : cache'[b] # Absent => Genuine(cache'[b], lastRun')
    BY <1>d, <1>k DEF TypeOK
  <2>2. Provenance(s, lastRun') /\ Unaltered(s)
    BY <1>d DEF Genuine
  <2>3. kept' # Absent => Provenance(kept', lastRun') /\ replays'
    BY <1>d, <1>k, <2>2 DEF Depart
  <2>4. \A d \in Client : IF d = c THEN pc'[d] = "answered" /\ sig'[d] = s
                                     ELSE pc'[d] = pc[d] /\ sig'[d] = sig[d]
    BY <1>d DEF Depart, TypeOK
  <2> QED
    BY <1>d, <1>k, <2>1, <2>2, <2>3, <2>4 DEF Signatures
<1>e. ASSUME NEW c \in Client, NEW v, End(c, v), UNCHANGED <<cache, sig, kept, replays>>
      PROVE  Signatures'
  BY <1>e, <1>k DEF End, Signatures, TypeOK
<1>1. ASSUME NEW c \in Client, NEW i \in Instance, Ask(c, i) PROVE Signatures'
  BY <1>1, <1>k DEF Ask, Signatures, TypeOK
<1>2. ASSUME NEW c \in Client, NEW i \in Instance, FetchChain(c, i) PROVE Signatures'
  BY <1>2, <1>k DEF FetchChain, Signatures, TypeOK
<1>3. ASSUME NEW c \in Client, cache_get(c) PROVE Signatures'
  <2>1. PICK s \in CacheReads(config[at[c]].body) :
               \/ s # Absent /\ Depart(c, s)
               \/ Goto(c, "sign") /\ UNCHANGED <<at, sig, kept>>
    BY <1>3 DEF cache_get, Usable
  <2>2. CASE s # Absent /\ Depart(c, s)
    <3>1. config[at[c]].body \in Body
      BY <1>3, ConfigType DEF cache_get, TypeOK
    <3>2. Genuine(s, lastRun')
      BY <1>k, <2>2, <3>1, CacheRead
    <3> QED
      BY <1>3, <1>d, <2>2, <3>2 DEF cache_get
  <2>3. CASE Goto(c, "sign") /\ UNCHANGED <<at, sig, kept>>
    BY <1>3, <1>k, <2>3 DEF cache_get, Signatures, TypeOK
  <2> QED
    BY <2>1, <2>2, <2>3
<1>4. ASSUME NEW c \in Client, sign_http_message(c) PROVE Signatures'
  <2>1. CASE End(c, "error") /\ UNCHANGED sig
    BY <1>4, <2>1, <1>e DEF sign_http_message
  <2>2. CASE sig' = [sig EXCEPT ![c] = SignedRoots(config[at[c]], clk[c])] /\ Goto(c, "store")
    <3>1. at[c] \in Instance /\ config[at[c]] \in Config /\ clk[c] \in Nat /\ clk[c] <= now /\ lastRun[config[at[c]]] = now
      BY <1>4 DEF sign_http_message, TypeOK, Clocks
    <3>2. Genuine(SignedRoots(config[at[c]], clk[c]), lastRun)
      BY <3>1, SignedGenuine
    <3> QED
      BY <1>4, <1>k, <2>2, <3>2 DEF sign_http_message, Signatures, TypeOK
  <2> QED
    BY <1>4, <2>1, <2>2 DEF sign_http_message
<1>5. ASSUME NEW c \in Client, cache_set(c) PROVE Signatures'
  BY <1>5, <1>d, <1>e, <1>k DEF cache_set
<1>6. ASSUME NEW c \in Client, FetchFails(c) \/ verify_roots_response(c) PROVE Signatures'
  BY <1>6, <1>e DEF FetchFails, verify_roots_response
<1>7. ASSUME NEW c \in Client, Repeat(c) PROVE Signatures'
  <2>1. PICK s \in Altered(kept) : sig' = [sig EXCEPT ![c] = s]
    BY <1>7 DEF Repeat
  <2>2. s.signed = kept.signed
    BY <1>7, <2>1, AlteredType DEF Repeat, TypeOK
  <2>3. Provenance(s, lastRun') /\ replays
    BY <1>7, <1>k, <2>2 DEF Repeat, Provenance, SignedBy
  <2> QED
    BY <1>7, <1>k, <2>1, <2>3 DEF Repeat, Signatures, TypeOK
<1>8. ASSUME NEW i \in Instance, NEW g \in Config, Restart(i, g) PROVE Signatures'
  BY <1>8, <1>k DEF Restart, Signatures
<1>9. CASE Tick
  BY <1>9, <1>k DEF Tick, Signatures
<1>10. CASE UNCHANGED vars
  BY <1>10, <1>k DEF vars, Signatures
<1> QED
  BY <1>1, <1>2, <1>3, <1>4, <1>5, <1>6, <1>7, <1>8, <1>9, <1>10 DEF Next

----------------------------------------------------------------------------
(* Timeliness *)

\* A signature served from the cache has the margin left; a new one has its lifetime.
LEMMA OutlastsMargin ==
    ASSUME MarginCovers, NEW g \in Config, NEW t \in Nat, NEW s \in Signature,
           \/ Usable(s, t, g.ttl)
           \/ s.created = t /\ s.expires = t + g.ttl
    PROVE  Outlasts(s, t)
<1>1. g.ttl \in Nat /\ s.expires \in Nat /\ s.created \in Nat
  BY ConfigType DEF Signature
<1>2. RefreshMargin(g.ttl) \in Nat /\ (g.ttl > 0 => RefreshMargin(g.ttl) < g.ttl)
  BY <1>1 DEF RefreshMargin
<1>3. \A o \in Offset \cup {0} : o \in Int /\ Latency + o <= RefreshMargin(g.ttl)
  BY DEF MarginCovers
<1>4. CASE t + RefreshMargin(g.ttl) < s.expires
  BY <1>1, <1>2, <1>3, <1>4 DEF Outlasts
<1>5. CASE s.created = t /\ s.expires = t + g.ttl /\ g.ttl > 0
  BY <1>1, <1>2, <1>4, <1>5
<1>6. CASE s.created = t /\ s.expires = t + g.ttl /\ g.ttl = 0
  BY <1>1, <1>6 DEF Outlasts
<1> QED
  BY <1>1, <1>4, <1>5, <1>6 DEF Usable

\* What the servers hand out outlasts its way.
LEMMA NextTimely == TypeOK /\ Clocks /\ Signatures /\ Timely /\ [Next]_vars => Timely'
<1>s. [Next]_vars => replays' = replays
  BY DEF Next, vars, Ask, FetchChain, cache_get, sign_http_message, cache_set, FetchFails,
         verify_roots_response, Repeat, Restart, Tick
<1> SUFFICES ASSUME TypeOK, Clocks, Signatures, Timely, [Next]_vars, MarginCovers, ~replays,
                    NEW d \in Client, pc'[d] \in {"store", "answered", "verify"}
             PROVE  Outlasts(sig'[d], clk'[d])
  BY <1>s DEF Timely
<1> USE DEF TypeOK, Goto
<1>0. CASE pc[d] \in {"store", "answered", "verify"} /\ sig'[d] = sig[d] /\ clk'[d] = clk[d]
  BY <1>0 DEF Timely
<1>1. ASSUME NEW c \in Client, cache_get(c) PROVE Outlasts(sig'[d], clk'[d])
  <2>1. CASE c # d
    BY <1>0, <1>1, <2>1 DEF cache_get, Depart
  <2>2. CASE c = d
    <3>1. PICK s \in CacheReads(config[at[c]].body) : Usable(s, clk[c], config[at[c]].ttl) /\ Depart(c, s)
      BY <1>1, <2>2 DEF cache_get
    <3>2. config[at[c]] \in Config /\ clk[c] \in Nat
      BY <1>1 DEF cache_get
    <3>3. s \in Signature
      BY <3>1, <3>2, CacheRead, ConfigType DEF Usable
    <3>4. Outlasts(s, clk[c])
      BY <3>1, <3>2, <3>3, OutlastsMargin
    <3> QED
      BY <1>1, <2>2, <3>1, <3>4 DEF cache_get, Depart
  <2> QED
    BY <2>1, <2>2
<1>2. ASSUME NEW c \in Client, sign_http_message(c) PROVE Outlasts(sig'[d], clk'[d])
  <2>1. CASE c # d
    BY <1>0, <1>2, <2>1 DEF sign_http_message, End
  <2>2. CASE c = d
    <3>1. config[at[c]] \in Config /\ clk[c] \in Nat /\ clk[c] <= now /\ lastRun[config[at[c]]] = now
      BY <1>2 DEF sign_http_message, Clocks
    <3>2. SignedRoots(config[at[c]], clk[c]) \in Signature
      BY <3>1, SignedType
    <3>3. Outlasts(SignedRoots(config[at[c]], clk[c]), clk[c])
      BY <3>1, <3>2, SignedGenuine, OutlastsMargin
    <3>4. sig'[c] = SignedRoots(config[at[c]], clk[c]) /\ clk'[c] = clk[c]
      BY <1>2, <2>2 DEF sign_http_message, End
    <3> QED
      BY <2>2, <3>3, <3>4
  <2> QED
    BY <2>1, <2>2
<1>3. ASSUME NEW c \in Client, cache_set(c) PROVE Outlasts(sig'[d], clk'[d])
  BY <1>0, <1>3 DEF cache_set, Depart, End
<1>4. ASSUME NEW c \in Client,
             FetchFails(c) \/ verify_roots_response(c) \/ \E i \in Instance : Ask(c, i) \/ FetchChain(c, i)
      PROVE  Outlasts(sig'[d], clk'[d])
  BY <1>0, <1>4 DEF FetchFails, verify_roots_response, Ask, FetchChain, End
<1>5. ASSUME NEW c \in Client, Repeat(c) PROVE FALSE
  BY <1>5 DEF Repeat, Signatures
<1>6. ASSUME NEW i \in Instance, NEW g \in Config, Restart(i, g) PROVE Outlasts(sig'[d], clk'[d])
  BY <1>0, <1>6 DEF Restart
<1>7. CASE Tick \/ UNCHANGED vars
  BY <1>0, <1>7 DEF Tick, vars
<1> QED
  BY <1>1, <1>2, <1>3, <1>4, <1>5, <1>6, <1>7 DEF Next

----------------------------------------------------------------------------
(* Verdicts *)

\* What the client's checks establish, in the order they are made.
LEMMA JudgeMeans ==
    ASSUME NEW s \in Signature, NEW l, NEW t \in Int
    PROVE  LET v == Judge(s, l, t) IN
           /\ v = "ok" => /\ s.digest = s.body /\ t < s.expires
                          /\ s.expires - s.created <= MAX_SIGNATURE_LIFETIME
                          /\ SignatureValid(s)
           /\ v = "mismatch" => s.created < s.expires
           /\ v = "expired" => s.created < s.expires /\ t >= s.expires
           /\ v = "future" => s.created > t + SKEW
<1>1. s.expires \in Nat /\ s.created \in Nat
  BY DEF Signature
<1> QED
  BY <1>1 DEF Judge

\* Every verdict of verify_roots_response is justified when it is given.
LEMMA VerdictJustified ==
    ASSUME TypeOK, Clocks, Signatures, Timely, NEW c \in Client, pc[c] = "verify", NEW o \in Offset
    PROVE  LET v == Judge(sig[c], chain[c], now + o) IN
           /\ v = "ok" =>
                 \E g \in Config : g.body = sig[c].body /\ now - lastRun[g] < MAX_SIGNATURE_LIFETIME + SKEW
           /\ MarginCovers /\ ~replays /\ v = "mismatch" =>
                 \E g \in Config : g.leaf = sig[c].leaf /\ g.ttl > now - lastRun[g]
           /\ MarginCovers /\ ~replays => v \notin {"expired", "future"}
<1> DEFINE s == sig[c]
           v == Judge(s, chain[c], now + o)
<1>1. s \in Signature /\ clk[c] \in Nat /\ now \in Nat /\ now <= clk[c] + Latency /\ o \in Int /\ o >= -SKEW
  BY DEF TypeOK, Clocks
<1>2. /\ s.created \in Nat /\ s.expires \in Nat /\ s.signed.created \in Nat /\ s.signed.expires \in Nat
  BY <1>1 DEF Signature
<1>3. PICK g \in Config : SignedBy(s, g, lastRun)
  BY DEF Signatures, Provenance
<1>4. lastRun[g] \in Int /\ lastRun[g] <= now /\ g.ttl \in Nat
  BY ConfigType DEF TypeOK, Clocks
<1>5. ~replays => Unaltered(s)
  BY DEF Signatures
<1>6. MarginCovers /\ ~replays => Outlasts(s, clk[c])
  BY DEF Timely
<1>j. /\ v = "ok" => /\ s.digest = s.body /\ now + o < s.expires
                     /\ s.expires - s.created <= MAX_SIGNATURE_LIFETIME
                     /\ SignatureValid(s)
      /\ v = "mismatch" => s.created < s.expires
      /\ v = "expired" => s.created < s.expires /\ now + o >= s.expires
      /\ v = "future" => s.created > now + o + SKEW
  BY <1>1, JudgeMeans
<1> HIDE DEF s, v
<1>7. v = "ok" => g.body = s.body /\ now - lastRun[g] < MAX_SIGNATURE_LIFETIME + SKEW
  <2> SUFFICES ASSUME v = "ok" PROVE g.body = s.body /\ now - lastRun[g] < MAX_SIGNATURE_LIFETIME + SKEW
    OBVIOUS
  <2>1. s.digest = s.signed.digest /\ s.created = s.signed.created /\ s.expires = s.signed.expires
    BY <1>j DEF SignatureValid, roots_signature_base
  <2> QED
    BY <1>1, <1>2, <1>3, <1>4, <1>j, <2>1 DEF SignedBy
<1>8. MarginCovers /\ ~replays /\ v = "mismatch" => g.leaf = s.leaf /\ g.ttl > now - lastRun[g]
  BY <1>1, <1>2, <1>3, <1>4, <1>5, <1>6, <1>j DEF SignedBy, Unaltered, Outlasts
<1>9. MarginCovers /\ ~replays => v \notin {"expired", "future"}
  BY <1>1, <1>2, <1>3, <1>4, <1>5, <1>6, <1>j DEF SignedBy, Unaltered, Outlasts
<1> QED
  BY <1>7, <1>8, <1>9 DEF s, v

\* Verdicts stay justified until they are forgotten.
LEMMA NextJustified ==
    TypeOK /\ Clocks /\ Signatures /\ Timely /\ Justified /\ [Next]_vars => Justified'
<1> SUFFICES ASSUME TypeOK, Clocks, Signatures, Timely, Justified, [Next]_vars PROVE Justified'
  OBVIOUS
<1>s. replays' = replays
  BY DEF Next, vars, Ask, FetchChain, cache_get, sign_http_message, cache_set, FetchFails,
         verify_roots_response, Repeat, Restart, Tick
<1>0. ASSUME now' = now,
             \A d \in Client : \/ verdict'[d] \in {"none", "error"}
                               \/ verdict'[d] = verdict[d] /\ sig'[d] = sig[d]
      PROVE  Justified'
  <2> SUFFICES ASSUME NEW d \in Client, verdict'[d] = verdict[d], sig'[d] = sig[d]
               PROVE  Justified!(d)'
    BY <1>0 DEF Justified
  <2>1. \A g \in Config : lastRun[g] \in Int /\ lastRun'[g] \in Int /\ lastRun[g] <= lastRun'[g] /\ g.ttl \in Nat
    BY LastRunGrows, NextType, ConfigType DEF TypeOK
  <2>2. now \in Nat
    BY DEF TypeOK
  <2> QED
    BY <1>0, <1>s, <2>1, <2>2 DEF Justified
<1> USE DEF TypeOK, Goto
<1>1. ASSUME NEW c \in Client, verify_roots_response(c) PROVE Justified'
  <2>1. PICK o \in Offset : End(c, Judge(sig[c], chain[c], now + o))
    BY <1>1 DEF verify_roots_response
  <2>2. pc[c] = "verify" /\ UNCHANGED <<now, lastRun, sig>>
    BY <1>1 DEF verify_roots_response
  <2>3. verdict' = [verdict EXCEPT ![c] = Judge(sig[c], chain[c], now + o)]
    BY <2>1 DEF End
  <2>4. verdict'[c] = Judge(sig[c], chain[c], now + o) /\ \A d \in Client \ {c} : verdict'[d] = verdict[d]
    BY <2>3
  <2>5. LET w == verdict'[c] IN
        /\ w = "ok" =>
              \E g \in Config : g.body = sig[c].body /\ now - lastRun[g] < MAX_SIGNATURE_LIFETIME + SKEW
        /\ MarginCovers /\ ~replays /\ w = "mismatch" =>
              \E g \in Config : g.leaf = sig[c].leaf /\ g.ttl > now - lastRun[g]
        /\ MarginCovers /\ ~replays => w \notin {"expired", "future"}
    BY <2>2, <2>4, VerdictJustified
  <2> QED
    BY <1>s, <2>2, <2>4, <2>5 DEF Justified
<1>2. ASSUME NEW c \in Client, cache_get(c) \/ cache_set(c) \/ sign_http_message(c) \/ FetchFails(c) \/ Repeat(c)
                               \/ \E i \in Instance : Ask(c, i) \/ FetchChain(c, i)
      PROVE  Justified'
  <2>1. now' = now /\ (verdict' = verdict \/ \E v \in {"none", "error"} : verdict' = [verdict EXCEPT ![c] = v])
    BY <1>2 DEF cache_get, cache_set, sign_http_message, FetchFails, Repeat, Ask, FetchChain, Depart, End
  <2>2. sig' = sig \/ \E s : sig' = [sig EXCEPT ![c] = s]
    BY <1>2 DEF cache_get, cache_set, sign_http_message, FetchFails, Repeat, Ask, FetchChain, Depart, End
  <2>3. verdict'[c] \in {"none", "error"} \/ (sig'[c] = sig[c] /\ verdict'[c] = verdict[c])
    BY <1>2, <2>1 DEF Clocks, cache_get, cache_set, sign_http_message, FetchFails, Repeat, Ask, FetchChain, Depart, End
  <2> QED
    BY <1>0, <2>1, <2>2, <2>3
<1>3. ASSUME NEW i \in Instance, NEW g \in Config, Restart(i, g) PROVE Justified'
  BY <1>0, <1>3 DEF Restart
<1>4. CASE Tick
  BY <1>4 DEF Tick, Justified
<1>5. CASE UNCHANGED vars
  BY <1>0, <1>5 DEF vars
<1> QED
  BY <1>1, <1>2, <1>3, <1>4, <1>5 DEF Next

----------------------------------------------------------------------------
(* The theorems *)

\* The invariant holds from the start.
LEMMA InitInv == Init => IInv
<1> SUFFICES ASSUME Init PROVE IInv
  OBVIOUS
<1>1. Never \in Int /\ Never <= 0 /\ "none" \in Verdicts
  BY DEF Never, Verdicts
<1>2. TypeOK
  BY <1>1 DEF Init, TypeOK, Pcs
<1>3. Clocks
  BY <1>1 DEF Init, Clocks
<1> QED
  BY <1>2, <1>3 DEF Init, IInv, Signatures, Timely, Justified

\* Every step keeps it.
LEMMA NextInv == IInv /\ [Next]_vars => IInv'
BY NextType, NextClocks, NextSignatures, NextTimely, NextJustified DEF IInv

\* When the margin covers the way and the clocks, no client finds what a server hands out
\* expired or of the future, also from the cache of another instance (signed_roots).
THEOREM ServedInTime == Spec => []NeverStale
<1>1. IInv => NeverStale
  BY DEF IInv, Justified, NeverStale
<1> QED
  BY <1>1, InitInv, NextInv, PTL DEF Spec

\* After a rotation of the issuing certificate a client finds a mismatch only with a leaf
\* that ran within the lifetime of a signature (signed_roots, verify_roots_response).
THEOREM MismatchPasses == Spec => []MismatchBounded
<1>1. IInv => MismatchBounded
  BY DEF IInv, Justified, MismatchBounded
<1> QED
  BY <1>1, InitInv, NextInv, PTL DEF Spec

\* Retired roots die out, whoever repeats or alters old responses: what is accepted was
\* kept by a server within the longest lifetime a client allows and the skew
\* (verify_roots_response, roots_signature_base).
THEOREM RetiredRootsDie == Spec => []RetiredRootsExpire
<1>1. IInv => RetiredRootsExpire
  BY DEF IInv, Justified, RetiredRootsExpire
<1> QED
  BY <1>1, InitInv, NextInv, PTL DEF Spec
==============================================================================
