------------------------------ MODULE JwksCache ------------------------------
(***************************************************************************)
(* The key-set cache of a `jwks` provisioner (authorizer/jwks.rs):         *)
(* concurrent token verifications share one memo, refetched when it is     *)
(* stale or lacks the token's kid, under a single-flight lock and a lower  *)
(* bound between refetches, while the issuer rotates its keys and its      *)
(* endpoint fails.                                                         *)
(*                                                                         *)
(* A key is its kid.  Discovery and the JWKS request are one fetch, that   *)
(* takes at most FetchTime.                                                *)
(***************************************************************************)
EXTENDS Integers, FiniteSets

CONSTANTS
    Caller,       \* verifications in flight
    Kid,          \* key ids
    NoKid,        \* a token whose header has none
    Ttls,         \* lifetimes cache_control_ttl may derive, clamped
    MIN_REFETCH,  \* lower bound between refetches
    FetchTime,    \* timeout of a fetch
    Absent,
    MaxTime       \* bound on the clock

Memo == [keys : SUBSET Kid, at : 0..MaxTime, ttl : Ttls]

ASSUME JwksAssumption ==
    /\ Ttls \subseteq Nat /\ MIN_REFETCH \in Nat \ {0} /\ FetchTime \in Nat /\ MaxTime \in Nat
    /\ \A t \in Ttls : MIN_REFETCH <= t       \* 60 s against MIN_TTL, 300 s
    /\ NoKid \notin Kid /\ Kid \cap {"unknown", "error", "none"} = {}
    /\ Absent \notin Caller /\ Absent \notin Memo

VARIABLES
    now,
    published,   \* the kids the issuer serves
    since,       \* kid -> when it was last published or withdrawn
    memo,        \* the cached key set, or Absent
    flight,      \* holder of single_flight, or Absent
    pc, want,    \* each caller's place, and the kid of its token
    got,         \* what the response of the fetch in flight carries
    begun,       \* when the last fetch began
    verdict      \* how each caller ended: a kid, "unknown", "error" or "none"

vars == <<now, published, since, memo, flight, pc, want, got, begun, verdict>>
issuer == <<published, since>>

Never == -(MaxTime + 1)

Pcs == {"idle", "fast", "lock", "check", "fetch", "store", "read"}

\* The key for a token: by kid, or the only one.
select_key(keys, kid) ==
    IF kid = NoKid THEN {k \in keys : keys = {k}} ELSE keys \cap {kid}

Init ==
    /\ now = 0
    /\ published \in SUBSET Kid /\ since = [k \in Kid |-> Never]
    /\ memo = Absent /\ flight = Absent
    /\ pc = [c \in Caller |-> "idle"]
    /\ want = [c \in Caller |-> NoKid]
    /\ got = {}
    /\ begun = Never
    /\ verdict = [c \in Caller |-> "none"]

----------------------------------------------------------------------------
(* Verification *)

Goto(c, there) == pc' = [pc EXCEPT ![c] = there]

Answer(c, v) == Goto(c, "idle") /\ verdict' = [verdict EXCEPT ![c] = v]

Verify(c) ==
    /\ pc[c] = "idle"
    /\ \E kid \in Kid \cup {NoKid} : want' = [want EXCEPT ![c] = kid]
    /\ verdict' = [verdict EXCEPT ![c] = "none"]
    /\ Goto(c, "fast")
    /\ UNCHANGED <<now, issuer, memo, flight, got, begun>>

\* Mutant of fresh: a key set never ages.
fresh_Always(m) == TRUE

fresh(m) == now - m.at < m.ttl

\* Fast path of resolve: a fresh memo that has the key.
resolve(c) ==
    /\ pc[c] = "fast"
    /\ IF memo # Absent /\ fresh(memo) /\ select_key(memo.keys, want[c]) # {}
       THEN \E k \in select_key(memo.keys, want[c]) : Answer(c, k)
       ELSE Goto(c, "lock") /\ UNCHANGED verdict
    /\ UNCHANGED <<now, issuer, memo, flight, want, got, begun>>

lock(c) ==
    /\ pc[c] = "lock"
    /\ flight = Absent
    /\ flight' = c
    /\ Goto(c, "check")
    /\ UNCHANGED <<now, issuer, memo, want, got, begun, verdict>>

\* Mutants of recent: the answer of the first look is trusted; one second too long.
recent_Never(m) == FALSE
recent_Twice(m) == now - m.at < 2 * MIN_REFETCH

\* Fetched less than MIN_REFETCH ago, by whomever.
recent(m) == now - m.at < MIN_REFETCH

\* The second look, under the lock.
refresh(c) ==
    /\ pc[c] = "check"
    /\ IF memo # Absent /\ recent(memo)
       THEN Goto(c, "read") /\ flight' = Absent /\ UNCHANGED begun
       ELSE /\ Goto(c, "fetch")
            /\ begun' = now
            /\ UNCHANGED flight
    /\ UNCHANGED <<now, issuer, memo, want, got, verdict>>

\* The issuer answers with the keys of that moment.
Served(c) ==
    /\ pc[c] = "fetch"
    /\ got' = published
    /\ Goto(c, "store")
    /\ UNCHANGED <<now, issuer, memo, flight, want, begun, verdict>>

\* Mutant of fetch_fails: the lock stays with the failed caller.
fetch_fails_Locked(c) ==
    /\ pc[c] \in {"fetch", "store"}
    /\ Answer(c, "error")
    /\ UNCHANGED <<now, issuer, memo, flight, want, got, begun>>

\* Timeout, an error status, a document that does not parse.
fetch_fails(c) ==
    /\ pc[c] \in {"fetch", "store"}
    /\ Answer(c, "error")
    /\ flight' = Absent
    /\ got' = {}
    /\ UNCHANGED <<now, issuer, memo, want, begun>>

\* The response is in: the memo is replaced and the lock released.
store(c) ==
    /\ pc[c] = "store"
    /\ \E t \in Ttls : memo' = [keys |-> got, at |-> now, ttl |-> t]
    /\ flight' = Absent
    /\ got' = {}
    /\ Goto(c, "read")
    /\ UNCHANGED <<now, issuer, want, begun, verdict>>

\* The retry after the refresh.
read(c) ==
    /\ pc[c] = "read"
    /\ \/ \E k \in select_key(memo.keys, want[c]) : Answer(c, k)
       \/ select_key(memo.keys, want[c]) = {} /\ Answer(c, "unknown")
    /\ UNCHANGED <<now, issuer, memo, flight, want, got, begun>>

\* The request is dropped wherever it waits; its lock guard goes with it.
Drop(c) ==
    /\ pc[c] \in {"lock", "fetch", "store"}
    /\ Answer(c, "none")
    /\ flight' = IF flight = c THEN Absent ELSE flight
    /\ got' = IF flight = c THEN {} ELSE got
    /\ UNCHANGED <<now, issuer, memo, want, begun>>

----------------------------------------------------------------------------
(* Environment *)

\* The issuer publishes or withdraws a key.
Rotate(k) ==
    /\ published' = IF k \in published THEN published \ {k} ELSE published \cup {k}
    /\ since' = [since EXCEPT ![k] = now]
    /\ UNCHANGED <<now, memo, flight, pc, want, got, begun, verdict>>

\* Time passes only for those who wait: a fetch within its timeout, and whoever
\* queues behind it.  What the callers concluded is about the second before.
Tick ==
    /\ now < MaxTime
    /\ \A c \in Caller : \/ pc[c] = "idle"
                         \/ pc[c] \in {"fetch", "store"} /\ now < begun + FetchTime
                         \/ pc[c] = "lock" /\ flight # Absent
    /\ now' = now + 1
    /\ verdict' = [c \in Caller |-> "none"]
    /\ want' = [c \in Caller |-> IF pc[c] = "idle" THEN NoKid ELSE want[c]]
    /\ UNCHANGED <<issuer, memo, flight, pc, got, begun>>

Work(c) ==
    \/ resolve(c) \/ lock(c) \/ refresh(c)
    \/ Served(c) \/ fetch_fails(c) \/ store(c) \/ read(c)

Next ==
    \/ \E c \in Caller : Verify(c) \/ Work(c) \/ Drop(c)
    \/ \E k \in Kid : Rotate(k)
    \/ Tick

Spec == Init /\ [][Next]_vars

\* Ready callers run, and a fetch ends by its timeout.  The mutex is fair.
FairSpec == Spec /\ \A c \in Caller : WF_vars(Work(c)) /\ SF_vars(lock(c))

----------------------------------------------------------------------------
(* Properties *)

\* The type of the cache and of its callers; the lock is held exactly while its
\* holder checks or fetches.
TypeOK ==
    /\ now \in 0..MaxTime
    /\ published \subseteq Kid /\ since \in [Kid -> Int]
    /\ memo \in Memo \cup {Absent}
    /\ flight \in Caller \cup {Absent}
    /\ pc \in [Caller -> Pcs] /\ want \in [Caller -> Kid \cup {NoKid}]
    /\ got \subseteq Kid /\ begun \in Int
    /\ verdict \in [Caller -> Kid \cup {"unknown", "error", "none"}]
    /\ \A c \in Caller : flight = c <=> pc[c] \in {"check", "fetch", "store"}
    /\ \A c \in Caller : pc[c] = "read" => memo # Absent

\* A withdrawn key stops verifying tokens: what is accepted was still published
\* within the lifetime of a key set and the duration of its fetch.
WithdrawnKeysExpire ==
    \A c \in Caller : verdict[c] \in Kid \ published =>
        \E t \in Ttls : now - since[verdict[c]] < t + FetchTime

\* Rotation is picked up: a kid that has been published for longer than the refetch
\* bound and a fetch is never refused as unknown.
RotationPickedUp ==
    \A c \in Caller : verdict[c] = "unknown" /\ want[c] \in published =>
        now - since[want[c]] < MIN_REFETCH + FetchTime

\* Refetches that succeed are MIN_REFETCH apart, however many callers miss at once
\* (the second look under single_flight).
RefetchesSpaced ==
    [][memo = Absent \/ now - memo.at >= MIN_REFETCH]_memo

\* Every verification ends, also behind a fetch that fails or is dropped.
Verified == \A c \in Caller : pc[c] # "idle" ~> pc[c] = "idle"
==============================================================================
